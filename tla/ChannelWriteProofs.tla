-------------------------- MODULE ChannelWriteProofs --------------------------
(***************************************************************************)
(* Proofs about ChannelWrite: the type invariant, the integrity of every   *)
(* stream, the exactness of what write reports and the respect of the      *)
(* peer's window, for any number of channels, buffers of any size, any     *)
(* limits and all faults, provided each channel has one writer.            *)
(***************************************************************************)
EXTENDS ChannelWriteRefinement, SequenceTheorems, TLAPS

-------------------------------------------------------------------------------
(* Facts about the operators. *)

\* A piece of a buffer is a sequence of bytes of the length asked for.
LEMMA BytesType ==
    ASSUME NEW w \in Writer, NEW o \in Nat, NEW n \in Nat
    PROVE  Bytes(w, o, n) \in Seq(Byte) /\ Len(Bytes(w, o, n)) = n
<1>1. \A i \in 1..n : <<w, o + i>> \in Byte
  BY DEF Byte
<1> QED
  BY <1>1 DEF Bytes

\* Two adjacent pieces of a buffer make up one piece.
LEMMA BytesConcat ==
    ASSUME NEW w \in Writer, NEW o \in Nat, NEW n \in Nat
    PROVE  Bytes(w, 0, o) \o Bytes(w, o, n) = Bytes(w, 0, o + n)
<1> DEFINE s == Bytes(w, 0, o)
           t == Bytes(w, o, n)
<1>1. s \in Seq(Byte) /\ t \in Seq(Byte) /\ Len(s) = o /\ Len(t) = n
  BY BytesType
<1>2. /\ s \o t \in Seq(Byte)
      /\ Len(s \o t) = o + n
      /\ \A i \in 1..(o + n) :
            (s \o t)[i] = IF i <= o THEN s[i] ELSE t[i - o]
  <2> HIDE DEF s, t
  <2> QED BY <1>1
<1>3. \A i \in 1..o : s[i] = <<w, i>>
  BY DEF Bytes
<1>4. \A i \in 1..n : t[i] = <<w, o + i>>
  BY DEF Bytes
<1>5. \A i \in 1..(o + n) : (s \o t)[i] = <<w, i>>
  <2> HIDE DEF s, t
  <2> SUFFICES ASSUME NEW i \in 1..(o + n) PROVE (s \o t)[i] = <<w, i>>
    OBVIOUS
  <2>1. CASE i <= o
    BY <2>1, <1>2, <1>3
  <2>2. CASE ~(i <= o)
    <3>1. i - o \in 1..n /\ o + (i - o) = i
      BY <2>2
    <3> QED BY <3>1, <2>2, <1>2, <1>4
  <2> QED BY <2>1, <2>2
<1>6. Bytes(w, 0, o + n) \in Seq(Byte) /\ Len(Bytes(w, 0, o + n)) = o + n
  <2>1. o + n \in Nat /\ 0 \in Nat
    OBVIOUS
  <2> QED BY <2>1, BytesType
<1>7. \A i \in 1..(o + n) : Bytes(w, 0, o + n)[i] = <<w, i>>
  BY DEF Bytes
<1> HIDE DEF s, t
<1> QED
  BY <1>2, <1>5, <1>6, <1>7, SeqEqual DEF s, t

\* The next packet is not empty and within all of the limits.
LEMMA BufwriteBounds ==
    ASSUME NEW w \in Writer, off[w] \in Nat, off[w] < BufLen[w],
           NEW win \in Nat, win > 0
    PROVE  /\ Bufwrite(w, win) \in Nat
           /\ 1 <= Bufwrite(w, win)
           /\ Bufwrite(w, win) <= BufLen[w] - off[w]
           /\ Bufwrite(w, win) <= win
  BY ConstantsAssumption DEF Bufwrite, Lesser

-------------------------------------------------------------------------------
(***************************************************************************)
(* The inductive invariant.  StreamIntact and ReportExact are not          *)
(* inductive: they need to know that the packet in the slot continues its  *)
(* stream exactly where the peer's bytes end and is as long as the writer  *)
(* that resumes it believes (SlotInv), that the writer's pointer is where  *)
(* the peer's bytes end (ClientInv), and that only a caller that sends     *)
(* data can be mistaken for the owner of a data packet (OwnerInv).         *)
(***************************************************************************)

\* The slot holds a data packet.
DataInSlot == packet # NoPacket /\ packet.msg.type = "data"

\* A packet's address tells what it is; EOF and CLOSE never look like data.
OwnerInv ==
    packet # NoPacket =>
        /\ packet.msg.type = "data" => packet.odata = <<"write", packet.msg.ch>>
        /\ \A c \in Channel : packet.odata = <<"write", c>> =>
              packet.msg.type = "data" /\ packet.msg.ch = c

\* The pointer of a writer is where the bytes received by the peer end.
ClientInv ==
    \A w \in Writer :
        /\ recv[Chan[w]] = Bytes(w, 0, off[w])
        /\ off[w] <= BufLen[w]
        /\ pc[w] # "overrun"
        /\ pc[w] \in {"idle", "writing"} => off[w] < BufLen[w]
        /\ pc[w] \in {"idle", "done"} => pos[w] = off[w]

\* A packet that was begun fits what is left of the buffer and of the window.
BegunInv ==
    \A w \in Writer : write_state[Chan[w]] = "created" =>
        /\ 1 <= bufwrite[Chan[w]]
        /\ bufwrite[Chan[w]] <= BufLen[w] - off[w]
        /\ bufwrite[Chan[w]] <= window[Chan[w]]

\* A data packet in the slot is the next piece of its writer's buffer.
SlotInv ==
    DataInSlot =>
        /\ Len(packet.msg.body) <= window[packet.msg.ch]
        /\ sockUp =>
             /\ write_state[packet.msg.ch] = "created"
             /\ \E w \in Writer :
                   /\ Chan[w] = packet.msg.ch
                   /\ packet.msg.body = Bytes(w, off[w], bufwrite[Chan[w]])

\* No window byte is lost or invented.
WindowInv ==
    \A c \in Channel : window[c] + adj[c] + Len(recv[c]) = granted[c]

IInv == TypeOK /\ OwnerInv /\ ClientInv /\ BegunInv /\ SlotInv /\ WindowInv

-------------------------------------------------------------------------------
(* Steps that send no data. *)

\* EOF and CLOSE leave the data received and a data packet in the slot alone.
LEMMA ControlSend ==
    ASSUME IInv,
           NEW data \in Addr, \A d \in Channel : data # <<"write", d>>,
           NEW m \in Msg, m.type # "data",
           NEW rc, TransportSend(data, m, rc)
    PROVE  /\ recv' = recv
           /\ ctl' \in [Channel -> SUBSET {"eof", "close"}]
           /\ packet' \in Packet \cup {NoPacket}
           /\ OwnerInv'
           /\ DataInSlot' => packet' = packet
<1> USE DEF IInv
<1>1. packet # NoPacket => packet \in Packet
  BY DEF TypeOK
<1>2. [odata |-> data, msg |-> m] \in Packet
  BY DEF Packet
<1>3. ASSUME NEW k \in Msg, k.type # "data", Transmit(k)
      PROVE  recv' = recv /\ ctl' \in [Channel -> SUBSET {"eof", "close"}]
  <2>1. recv' = recv /\ ctl' = [ctl EXCEPT ![k.ch] = @ \cup {k.type}]
    BY <1>3 DEF Transmit
  <2>2. k.type \in {"eof", "close"} /\ k.ch \in Channel
    BY <1>3 DEF Msg
  <2> QED BY <2>1, <2>2 DEF TypeOK
<1>4. packet # NoPacket /\ packet.odata = data => packet.msg.type # "data"
  BY <1>1 DEF OwnerInv, Packet, Msg
<1>5. CASE /\ rc = "OK" /\ sockUp
           /\ SameCaller(data)
           /\ Transmit(IF packet = NoPacket THEN m ELSE packet.msg)
           /\ packet' = NoPacket
  <2>1. recv' = recv /\ ctl' \in [Channel -> SUBSET {"eof", "close"}]
    <3>1. CASE packet = NoPacket
      BY <3>1, <1>3, <1>5
    <3>2. CASE packet # NoPacket
      <4>1. packet.msg \in Msg /\ packet.msg.type # "data"
        BY <3>2, <1>1, <1>4, <1>5 DEF SameCaller, Packet
      <4> QED BY <4>1, <3>2, <1>3, <1>5
    <3> QED BY <3>1, <3>2
  <2> QED BY <2>1, <1>5 DEF OwnerInv, DataInSlot
<1>6. CASE /\ packet' = IF packet = NoPacket THEN [odata |-> data, msg |-> m]
                                             ELSE packet
           /\ UNCHANGED <<recv, ctl>>
  <2>1. CASE packet = NoPacket
    <3>1. packet' = [odata |-> data, msg |-> m] /\ packet' # NoPacket
      BY <2>1, <1>2, <1>6, ConstantsAssumption
    <3>2. packet'.odata = data /\ packet'.msg = m
      BY <3>1
    <3> QED BY <3>1, <3>2, <1>2, <1>6 DEF OwnerInv, DataInSlot, TypeOK
  <2>2. CASE packet # NoPacket
    <3>1. packet' = packet
      BY <2>2, <1>6
    <3> QED BY <3>1, <1>6 DEF OwnerInv, TypeOK
  <2> QED BY <2>1, <2>2
<1>7. CASE UNCHANGED outVars
  BY <1>7 DEF outVars, OwnerInv, TypeOK
<1> QED
  BY <1>5, <1>6, <1>7 DEF TransportSend

\* A step that moves neither data nor windows keeps the invariant.
LEMMA QuietStep ==
    ASSUME IInv, TypeOK', OwnerInv', DataInSlot' => packet' = packet,
           UNCHANGED <<clientVars, writeVars, window, adj, recv, granted, sockUp>>
    PROVE  IInv'
<1> USE DEF IInv, clientVars, writeVars
<1>1. ClientInv' /\ BegunInv' /\ WindowInv'
  BY DEF ClientInv, BegunInv, WindowInv, Bytes
<1>2. SlotInv'
  BY DEF SlotInv, DataInSlot, Bytes
<1> QED
  BY <1>1, <1>2

-------------------------------------------------------------------------------
(* Steps that send data. *)

\* Of the client, EAGAIN and errors change only where it is and what it knows.
LEMMA ClientStops ==
    ASSUME IInv, NEW w \in Writer, pc[w] = "writing", WouldBlock(w) \/ Raise(w)
    PROVE  /\ off' = off
           /\ pc' \in [Writer -> PC] /\ pos' \in [Writer -> Nat]
           /\ \A v \in Writer : v # w => pc'[v] = pc[v] /\ pos'[v] = pos[v]
           /\ pc'[w] \in {"idle", "writing", "failed"}
           /\ pc'[w] = "idle" => pos'[w] = off[w]
<1>t. TypeOK
  BY DEF IInv
<1>1. CASE Raise(w)
  BY <1>1, <1>t DEF Raise, TypeOK, PC
<1>2. CASE WouldBlock(w)
  <2>1. CASE UNCHANGED <<pc, pos>>
    BY <2>1, <1>2, <1>t DEF TypeOK, WouldBlock
  <2>2. CASE pc' = [pc EXCEPT ![w] = "failed"] /\ UNCHANGED pos
    BY <2>2, <1>2, <1>t DEF TypeOK, PC, WouldBlock
  <2>3. CASE /\ pc' = [pc EXCEPT ![w] = "idle"]
             /\ pos' = [pos EXCEPT ![w] = off[w]]
    <3>1. off[w] \in Nat
      BY <1>t DEF TypeOK
    <3> QED BY <3>1, <2>3, <1>2, <1>t DEF TypeOK, PC, WouldBlock
  <2> QED BY <2>1, <2>2, <2>3, <1>2 DEF WouldBlock
<1> QED
  BY <1>1, <1>2

\* So they keep what relates the client to the peer.
LEMMA ClientStopsInv ==
    ASSUME IInv, NEW w \in Writer, pc[w] = "writing", WouldBlock(w) \/ Raise(w),
           recv' = recv
    PROVE  ClientInv'
<1>0. /\ off' = off
      /\ \A v \in Writer : v # w => pc'[v] = pc[v] /\ pos'[v] = pos[v]
      /\ pc'[w] \in {"idle", "writing", "failed"}
      /\ pc'[w] = "idle" => pos'[w] = off[w]
  BY ClientStops
<1>1. \A v \in Writer : pc'[v] \in {"idle", "writing"} =>
                        pc[v] \in {"idle", "writing"}
  BY <1>0
<1>2. \A v \in Writer : pc'[v] \in {"idle", "done"} => pos'[v] = off'[v]
  BY <1>0 DEF IInv, ClientInv
<1>3. \A v \in Writer : pc'[v] # "overrun"
  BY <1>0 DEF IInv, ClientInv
<1> QED
  BY <1>0, <1>1, <1>2, <1>3 DEF IInv, ClientInv

(***************************************************************************)
(* A call that passes the bytes the peer needs next, with the size of the  *)
(* packet that was begun if there is one, keeps the invariant, whether it  *)
(* sends the packet, would block or fails.                                 *)
(***************************************************************************)
LEMMA SendDataStep ==
    ASSUME IInv, OneWriterPerChannel,
           NEW w \in Writer, pc[w] = "writing",
           NEW n \in Nat, 1 <= n, n <= BufLen[w] - off[w],
           NEW win \in [Channel -> Nat], \A d \in Channel : window[d] <= win[d],
           n <= win[Chan[w]],
           IF write_state[Chan[w]] = "created" THEN bufwrite[Chan[w]] = n
                                               ELSE sockUp,
           NEW rc \in Rc, SendData(w, n, win, rc),
           adj' \in [Channel -> Nat],
           \A d \in Channel : win[d] + adj'[d] + Len(recv[d]) = granted[d],
           UNCHANGED <<granted, sockUp>>
    PROVE  /\ pc' \in [Writer -> PC] /\ pos' \in [Writer -> Nat]
           /\ off' \in [Writer -> Nat]
           /\ write_state' \in [Channel -> {"idle", "created"}]
           /\ bufwrite' \in [Channel -> Nat] /\ window' \in [Channel -> Nat]
           /\ packet' \in Packet \cup {NoPacket}
           /\ recv' \in [Channel -> Seq(Byte)]
           /\ ctl' = ctl
           /\ OwnerInv' /\ ClientInv' /\ BegunInv' /\ SlotInv' /\ WindowInv'
<1> DEFINE c == Chan[w]
           m == [type |-> "data", ch |-> c, body |-> Bytes(w, off[w], n)]
<1>t. TypeOK
  BY DEF IInv
<1>c. c \in Channel /\ off[w] \in Nat /\ BufLen[w] \in Nat
  BY <1>t, ConstantsAssumption DEF TypeOK
<1>d. \A v \in Writer : Chan[v] \in Channel /\ off[v] \in Nat /\ BufLen[v] \in Nat
  BY <1>t, ConstantsAssumption DEF TypeOK
<1>o. \A v \in Writer : v # w => Chan[v] # c
  BY DEF OneWriterPerChannel
<1>b. Bytes(w, off[w], n) \in Seq(Byte) /\ Len(Bytes(w, off[w], n)) = n
  BY <1>c, BytesType
<1>m. m \in Msg /\ <<"write", c>> \in Addr
  BY <1>b, <1>c DEF Msg, Addr
<1>p. packet # NoPacket => packet \in Packet /\ packet.msg \in Msg
  BY <1>t DEF TypeOK, Packet
<1>s. /\ TransportSend(<<"write", c>>, m, rc)
      /\ write_state' = [write_state EXCEPT ![c] = IF rc = "EAGAIN"
                                                   THEN "created" ELSE "idle"]
      /\ bufwrite' = [bufwrite EXCEPT ![c] = IF rc = "EAGAIN" THEN n ELSE 0]
      /\ window' = [win EXCEPT ![c] = IF rc = "OK" THEN @ - n ELSE @]
  BY DEF SendData
<1>ty. /\ write_state' \in [Channel -> {"idle", "created"}]
       /\ bufwrite' \in [Channel -> Nat] /\ window' \in [Channel -> Nat]
  <2>1. win[c] \in Nat /\ win[c] - n \in Nat
    BY <1>c
  <2>2. window' \in [Channel -> Nat]
    BY <2>1, <1>s
  <2> QED BY <2>2, <1>s, <1>t, <1>c DEF TypeOK
\* What the slot holds for this writer is what the call passes.
<1>own. ASSUME packet # NoPacket, packet.odata = <<"write", c>>, sockUp
        PROVE  packet.msg.type = "data" /\ packet.msg.ch = c
               /\ packet.msg.body = Bytes(w, off[w], n)
  <2>1. packet.msg.type = "data" /\ packet.msg.ch = c
    BY <1>own, <1>c DEF IInv, OwnerInv
  <2>2. /\ write_state[c] = "created"
        /\ \E v \in Writer : /\ Chan[v] = c
                             /\ packet.msg.body = Bytes(v, off[v], bufwrite[Chan[v]])
    BY <2>1, <1>own DEF IInv, SlotInv, DataInSlot
  <2> QED BY <2>1, <2>2, <1>o
\* A data packet of another channel in the slot is not disturbed.
<1>oth. ASSUME DataInSlot, packet' = packet, packet.msg.ch # c,
               off' = off \/ \E x : off' = [off EXCEPT ![w] = x]
        PROVE  SlotInv'
  <2>1. packet.msg.ch \in Channel
    BY <1>p, <1>oth DEF DataInSlot, Msg
  <2>2. window'[packet.msg.ch] = win[packet.msg.ch]
        /\ write_state'[packet.msg.ch] = write_state[packet.msg.ch]
        /\ bufwrite'[packet.msg.ch] = bufwrite[packet.msg.ch]
    BY <2>1, <1>s, <1>oth, <1>t DEF TypeOK
  <2>3. Len(packet.msg.body) \in Nat
    BY <1>p, <1>oth, LenProperties DEF DataInSlot, Msg
  <2>4. Len(packet.msg.body) <= win[packet.msg.ch]
    <3>1. window[packet.msg.ch] <= win[packet.msg.ch]
          /\ window[packet.msg.ch] \in Nat /\ win[packet.msg.ch] \in Nat
      BY <2>1, <1>t DEF TypeOK
    <3>2. Len(packet.msg.body) <= window[packet.msg.ch]
      BY <1>oth DEF IInv, SlotInv
    <3> QED BY <3>1, <3>2, <2>3
  <2>5. ASSUME sockUp'
        PROVE  /\ write_state'[packet.msg.ch] = "created"
               /\ \E v \in Writer :
                    /\ Chan[v] = packet.msg.ch
                    /\ packet.msg.body = Bytes(v, off'[v], bufwrite'[Chan[v]])
    <3>1. /\ write_state[packet.msg.ch] = "created"
          /\ \E v \in Writer :
                    /\ Chan[v] = packet.msg.ch
                    /\ packet.msg.body = Bytes(v, off[v], bufwrite[Chan[v]])
      BY <2>5, <1>oth DEF IInv, SlotInv
    <3>2. PICK v \in Writer : /\ Chan[v] = packet.msg.ch
                              /\ packet.msg.body = Bytes(v, off[v], bufwrite[Chan[v]])
      BY <3>1
    <3>3. off'[v] = off[v] /\ bufwrite'[Chan[v]] = bufwrite[Chan[v]]
      BY <3>2, <2>2, <1>oth, <1>t DEF TypeOK
    <3> QED BY <3>1, <3>2, <3>3, <2>2
  <2> QED BY <2>2, <2>4, <2>5, <1>oth DEF SlotInv, DataInSlot
<1>1. CASE rc = "OK"
  <2>1. /\ sockUp /\ packet' = NoPacket
        /\ recv' = [recv EXCEPT ![c] = @ \o Bytes(w, off[w], n)] /\ ctl' = ctl
    <3>1. /\ sockUp /\ SameCaller(<<"write", c>>)
          /\ Transmit(IF packet = NoPacket THEN m ELSE packet.msg)
          /\ packet' = NoPacket
      BY <1>1, <1>s DEF TransportSend
    <3>2. CASE packet = NoPacket
      BY <3>1, <3>2 DEF Transmit
    <3>3. CASE packet # NoPacket
      <4>1. /\ packet.msg.type = "data" /\ packet.msg.ch = c
            /\ packet.msg.body = Bytes(w, off[w], n)
        BY <3>1, <3>3, <1>own DEF SameCaller
      <4> QED BY <4>1, <3>1, <3>3 DEF Transmit
    <3> QED BY <3>1, <3>2, <3>3
  <2>2. Wrote(w, n)
    BY <1>1 DEF SendData
  <2>3. off[w] + n \in Nat /\ off[w] + n <= BufLen[w]
    BY <1>c
  <2>4. /\ off' = [off EXCEPT ![w] = off[w] + n]
        /\ pc' = [pc EXCEPT ![w] = IF off[w] + n = BufLen[w] THEN "done"
                                                             ELSE "writing"]
        /\ pos' = [pos EXCEPT ![w] = IF off[w] + n = BufLen[w] THEN off[w] + n
                                                               ELSE pos[w]]
    <3>1. ~(off[w] + n > BufLen[w])
      BY <2>3, <1>c
    <3>2. (IF off[w] + n = BufLen[w] THEN "done"
           ELSE IF off[w] + n > BufLen[w] THEN "overrun" ELSE "writing")
           = IF off[w] + n = BufLen[w] THEN "done" ELSE "writing"
      BY <3>1
    <3> QED BY <3>2, <2>2 DEF Wrote
  <2>5. /\ pc' \in [Writer -> PC] /\ pos' \in [Writer -> Nat]
        /\ off' \in [Writer -> Nat]
    BY <2>3, <2>4, <1>t DEF TypeOK, PC
  <2>6. recv[c] = Bytes(w, 0, off[w]) /\ recv[c] \in Seq(Byte)
    BY <1>c, <1>t DEF IInv, ClientInv, TypeOK
  <2>7. recv'[c] = Bytes(w, 0, off[w] + n)
    <3>1. recv'[c] = recv[c] \o Bytes(w, off[w], n)
      BY <2>1, <1>c, <1>t DEF TypeOK
    <3>2. Bytes(w, 0, off[w]) \o Bytes(w, off[w], n) = Bytes(w, 0, off[w] + n)
      BY <1>c, BytesConcat
    <3> QED BY <3>1, <3>2, <2>6
  <2>8. /\ recv'[c] \in Seq(Byte) /\ Len(recv'[c]) = Len(recv[c]) + n
        /\ Len(recv[c]) = off[w]
    <3>1. 0 \in Nat
      OBVIOUS
    <3>2. Len(Bytes(w, 0, off[w])) = off[w]
      BY <3>1, <1>c, BytesType
    <3>3. /\ Len(Bytes(w, 0, off[w] + n)) = off[w] + n
          /\ Bytes(w, 0, off[w] + n) \in Seq(Byte)
      BY <3>1, <2>3, BytesType
    <3> QED BY <3>2, <3>3, <2>6, <2>7
  <2>9. \A d \in Channel : d # c => recv'[d] = recv[d]
    BY <2>1, <1>t DEF TypeOK
  <2>10. recv' \in [Channel -> Seq(Byte)]
    BY <2>1, <2>8, <1>t, <1>c DEF TypeOK
  <2>11. OwnerInv' /\ SlotInv'
    BY <2>1 DEF OwnerInv, SlotInv, DataInSlot
  <2>12. ClientInv'
    <3> SUFFICES ASSUME NEW v \in Writer
                 PROVE  /\ recv'[Chan[v]] = Bytes(v, 0, off'[v])
                        /\ off'[v] <= BufLen[v]
                        /\ pc'[v] # "overrun"
                        /\ pc'[v] \in {"idle", "writing"} => off'[v] < BufLen[v]
                        /\ pc'[v] \in {"idle", "done"} => pos'[v] = off'[v]
      BY DEF ClientInv
    <3>1. CASE v = w
      BY <3>1, <2>3, <2>4, <2>7, <1>c, <1>t DEF TypeOK
    <3>2. CASE v # w
      <4>1. /\ recv'[Chan[v]] = recv[Chan[v]] /\ off'[v] = off[v]
            /\ pc'[v] = pc[v] /\ pos'[v] = pos[v]
        BY <3>2, <2>4, <2>9, <1>o, <1>d, <1>t DEF TypeOK
      <4> QED BY <4>1 DEF IInv, ClientInv
    <3> QED BY <3>1, <3>2
  <2>13. BegunInv'
    <3> SUFFICES ASSUME NEW v \in Writer, write_state'[Chan[v]] = "created"
                 PROVE  /\ 1 <= bufwrite'[Chan[v]]
                        /\ bufwrite'[Chan[v]] <= BufLen[v] - off'[v]
                        /\ bufwrite'[Chan[v]] <= window'[Chan[v]]
      BY DEF BegunInv
    <3>1. v # w
      BY <1>1, <1>s, <1>c, <1>t DEF TypeOK
    <3>2. /\ write_state[Chan[v]] = "created"
          /\ bufwrite'[Chan[v]] = bufwrite[Chan[v]] /\ off'[v] = off[v]
          /\ window'[Chan[v]] = win[Chan[v]]
      BY <3>1, <2>4, <1>s, <1>o, <1>d, <1>t DEF TypeOK
    <3>3. /\ bufwrite[Chan[v]] \in Nat /\ window[Chan[v]] \in Nat
          /\ win[Chan[v]] \in Nat /\ window[Chan[v]] <= win[Chan[v]]
      BY <1>d, <1>t DEF TypeOK
    <3>4. /\ 1 <= bufwrite[Chan[v]]
          /\ bufwrite[Chan[v]] <= BufLen[v] - off[v]
          /\ bufwrite[Chan[v]] <= window[Chan[v]]
      BY <3>2 DEF IInv, BegunInv
    <3> QED BY <3>2, <3>3, <3>4
  <2>14. WindowInv'
    <3> SUFFICES ASSUME NEW d \in Channel
                 PROVE  window'[d] + adj'[d] + Len(recv'[d]) = granted'[d]
      BY DEF WindowInv
    <3>1. win[d] \in Nat /\ adj'[d] \in Nat /\ Len(recv[d]) \in Nat
          /\ win[d] + adj'[d] + Len(recv[d]) = granted'[d]
      BY <1>t, LenProperties DEF TypeOK
    <3>2. CASE d = c
      <4>1. window'[c] = win[c] - n
        BY <1>1, <1>s, <1>c
      <4> HIDE DEF c
      <4> QED BY <4>1, <3>1, <3>2, <2>8
    <3>3. CASE d # c
      BY <3>1, <3>3, <2>9, <1>s
    <3> QED BY <3>2, <3>3
  <2> QED BY <2>1, <2>5, <2>10, <2>11, <2>12, <2>13, <2>14, <1>ty
<1>2. CASE rc # "OK"
  <2>1. recv' = recv /\ ctl' = ctl
    BY <1>2, <1>s DEF TransportSend, outVars
  <2>2. off' = off /\ window' = win
    <3>1. off' = off
      BY <1>2 DEF SendData, WouldBlock, Raise
    <3>2. window' = [win EXCEPT ![c] = @]
      BY <1>2, <1>s
    <3> QED BY <3>1, <3>2
  <2>3. /\ pc' \in [Writer -> PC] /\ pos' \in [Writer -> Nat]
        /\ \A v \in Writer : v # w => pc'[v] = pc[v] /\ pos'[v] = pos[v]
        /\ pc'[w] \in {"idle", "writing", "failed"}
        /\ pc'[w] = "idle" => pos'[w] = off[w]
    BY <1>2, ClientStops DEF SendData
  <2>4. ClientInv'
    BY <2>1, <1>2, ClientStopsInv DEF SendData
  <2>5. WindowInv'
    BY <2>1, <2>2 DEF WindowInv
  <2>6. BegunInv'
    <3> SUFFICES ASSUME NEW v \in Writer, write_state'[Chan[v]] = "created"
                 PROVE  /\ 1 <= bufwrite'[Chan[v]]
                        /\ bufwrite'[Chan[v]] <= BufLen[v] - off[v]
                        /\ bufwrite'[Chan[v]] <= win[Chan[v]]
      BY <2>2 DEF BegunInv
    <3>1. CASE v = w
      BY <3>1, <1>2, <1>s, <1>c, <1>t DEF TypeOK
    <3>2. CASE v # w
      <4>1. /\ write_state[Chan[v]] = "created"
            /\ bufwrite'[Chan[v]] = bufwrite[Chan[v]]
        BY <3>2, <1>s, <1>o, <1>d, <1>t DEF TypeOK
      <4>2. /\ bufwrite[Chan[v]] \in Nat /\ window[Chan[v]] \in Nat
            /\ win[Chan[v]] \in Nat /\ window[Chan[v]] <= win[Chan[v]]
        BY <1>d, <1>t DEF TypeOK
      <4>3. /\ 1 <= bufwrite[Chan[v]]
            /\ bufwrite[Chan[v]] <= BufLen[v] - off[v]
            /\ bufwrite[Chan[v]] <= window[Chan[v]]
        BY <4>1 DEF IInv, BegunInv
      <4> QED BY <4>1, <4>2, <4>3
    <3> QED BY <3>1, <3>2
  <2>7. packet' \in Packet \cup {NoPacket} /\ OwnerInv' /\ SlotInv'
    <3>1. CASE packet' = packet
      <4>1. packet' \in Packet \cup {NoPacket} /\ OwnerInv'
        BY <3>1, <1>t DEF TypeOK, IInv, OwnerInv
      <4>2. SlotInv'
        <5>1. CASE ~DataInSlot
          BY <5>1, <3>1 DEF SlotInv, DataInSlot
        <5>2. CASE DataInSlot /\ packet.msg.ch # c
          BY <5>2, <3>1, <2>2, <1>oth
        <5>3. CASE DataInSlot /\ packet.msg.ch = c
          <6>1. packet # NoPacket /\ packet.odata = <<"write", c>>
            BY <5>3 DEF IInv, OwnerInv, DataInSlot
          <6>2. Len(packet.msg.body) <= win[c]
            <7>1. Len(packet.msg.body) \in Nat
              BY <1>p, <6>1, LenProperties DEF Msg
            <7>2. /\ window[c] <= win[c]
                  /\ window[c] \in Nat /\ win[c] \in Nat
              BY <1>c, <1>t DEF TypeOK
            <7>3. Len(packet.msg.body) <= window[c]
              BY <5>3 DEF IInv, SlotInv
            <7> HIDE DEF c
            <7> QED BY <7>1, <7>2, <7>3
          <6>3. ASSUME sockUp'
                PROVE  /\ write_state'[c] = "created"
                       /\ Chan[w] = c
                       /\ packet.msg.body = Bytes(w, off'[w], bufwrite'[Chan[w]])
            <7>1. rc = "EAGAIN"
              BY <6>3, <1>2, <1>s DEF TransportSend, Rc
            <7>2. write_state'[c] = "created" /\ bufwrite'[c] = n
              BY <7>1, <1>s, <1>c, <1>t DEF TypeOK
            <7> QED BY <7>2, <6>1, <6>3, <2>2, <1>own
          <6> QED BY <6>2, <6>3, <5>3, <3>1, <2>2 DEF SlotInv, DataInSlot
        <5> QED BY <5>1, <5>2, <5>3
      <4> QED BY <4>1, <4>2
    <3>2. CASE packet' # packet
      <4>1. /\ rc = "EAGAIN" /\ packet = NoPacket
            /\ packet' = [odata |-> <<"write", c>>, msg |-> m]
        BY <3>2, <1>2, <1>s DEF TransportSend, outVars
      <4>2. packet' \in Packet /\ packet' # NoPacket
        <5>1. [odata |-> <<"write", c>>, msg |-> m] \in Packet
          BY <1>m DEF Packet
        <5> QED BY <5>1, <4>1, ConstantsAssumption
      <4>3. /\ packet'.odata = <<"write", c>> /\ packet'.msg.type = "data"
            /\ packet'.msg.ch = c /\ packet'.msg.body = Bytes(w, off[w], n)
        BY <4>1
      <4>4. OwnerInv'
        BY <4>3 DEF OwnerInv
      <4>5. write_state'[c] = "created" /\ bufwrite'[c] = n
        BY <4>1, <1>s, <1>c, <1>t DEF TypeOK
      <4>6. SlotInv'
        BY <4>3, <4>5, <2>2, <1>b DEF SlotInv
      <4> QED BY <4>2, <4>4, <4>6
    <3> QED BY <3>1, <3>2
  <2> QED BY <2>1, <2>2, <2>3, <2>4, <2>5, <2>6, <2>7, <1>ty, <1>t DEF TypeOK
<1> QED
  BY <1>1, <1>2


-------------------------------------------------------------------------------
(* The induction. *)

LEMMA InitInv == Init => IInv
<1> SUFFICES ASSUME Init PROVE IInv
  OBVIOUS
<1>1. TypeOK
  <2>1. recv \in [Channel -> Seq(Byte)] /\ packet \in Packet \cup {NoPacket}
    BY DEF Init
  <2>2. ctl \in [Channel -> SUBSET {"eof", "close"}]
    BY DEF Init
  <2>3. /\ window \in [Channel -> Nat] /\ granted \in [Channel -> Nat]
        /\ adj \in [Channel -> Nat] /\ bufwrite \in [Channel -> Nat]
        /\ pos \in [Writer -> Nat] /\ off \in [Writer -> Nat]
    BY ConstantsAssumption DEF Init
  <2>4. /\ leof \in [Channel -> BOOLEAN] /\ lclose \in [Channel -> BOOLEAN]
        /\ rclose \in [Channel -> BOOLEAN] /\ sockUp \in BOOLEAN
    BY DEF Init
  <2> QED BY <2>1, <2>2, <2>3, <2>4 DEF Init, TypeOK, PC
<1>2. OwnerInv /\ SlotInv /\ BegunInv
  BY ConstantsAssumption DEF Init, OwnerInv, SlotInv, DataInSlot, BegunInv
<1>3. ClientInv
  <2>1. \A w \in Writer : Bytes(w, 0, 0) = <<>>
    BY DEF Bytes
  <2> QED BY <2>1, ConstantsAssumption DEF Init, ClientInv
<1>4. WindowInv
  <2> SUFFICES ASSUME NEW c \in Channel
               PROVE  window[c] + adj[c] + Len(recv[c]) = granted[c]
    BY DEF WindowInv
  <2>1. window[c] = InitWindow /\ adj[c] = 0 /\ granted[c] = InitWindow
    BY DEF Init
  <2>2. Len(recv[c]) = 0
    <3>1. recv[c] = <<>>
      BY DEF Init
    <3> QED BY <3>1
  <2> QED BY <2>1, <2>2, ConstantsAssumption
<1> QED
  BY <1>1, <1>2, <1>3, <1>4 DEF IInv

\* Windows grow by what was in flight, when packets are read.
LEMMA ReadStep ==
    ASSUME IInv, TypeOK', ClientInv',
           window' \in [Channel -> Nat], adj' \in [Channel -> Nat],
           \A c \in Channel : /\ window[c] <= window'[c]
                             /\ window'[c] + adj'[c] = window[c] + adj[c],
           UNCHANGED <<off, writeVars, outVars, granted, sockUp>>
    PROVE  IInv'
<1> USE DEF writeVars, outVars
<1>t. TypeOK
  BY DEF IInv
<1>1. OwnerInv'
  BY DEF IInv, OwnerInv
<1>2. WindowInv'
  <2> SUFFICES ASSUME NEW c \in Channel
               PROVE  window'[c] + adj'[c] + Len(recv[c]) = granted[c]
    BY DEF WindowInv
  <2>1. /\ window[c] \in Nat /\ adj[c] \in Nat /\ Len(recv[c]) \in Nat
        /\ window'[c] \in Nat /\ adj'[c] \in Nat
    BY <1>t, LenProperties DEF TypeOK
  <2>2. window[c] + adj[c] + Len(recv[c]) = granted[c]
    BY DEF IInv, WindowInv
  <2>3. window'[c] + adj'[c] = window[c] + adj[c]
    OBVIOUS
  <2> QED BY <2>1, <2>2, <2>3
<1>3. BegunInv'
  <2> SUFFICES ASSUME NEW w \in Writer, write_state[Chan[w]] = "created"
               PROVE  /\ 1 <= bufwrite[Chan[w]]
                      /\ bufwrite[Chan[w]] <= BufLen[w] - off[w]
                      /\ bufwrite[Chan[w]] <= window'[Chan[w]]
    BY DEF BegunInv
  <2>1. /\ bufwrite[Chan[w]] \in Nat /\ window[Chan[w]] \in Nat
        /\ window'[Chan[w]] \in Nat /\ window[Chan[w]] <= window'[Chan[w]]
    BY <1>t, ConstantsAssumption DEF TypeOK
  <2>2. /\ 1 <= bufwrite[Chan[w]]
        /\ bufwrite[Chan[w]] <= BufLen[w] - off[w]
        /\ bufwrite[Chan[w]] <= window[Chan[w]]
    BY DEF IInv, BegunInv
  <2> QED BY <2>1, <2>2
<1>4. SlotInv'
  <2> SUFFICES ASSUME DataInSlot
               PROVE  /\ Len(packet.msg.body) <= window'[packet.msg.ch]
                      /\ sockUp =>
                           /\ write_state[packet.msg.ch] = "created"
                           /\ \E w \in Writer :
                                /\ Chan[w] = packet.msg.ch
                                /\ packet.msg.body = Bytes(w, off[w], bufwrite[Chan[w]])
    BY DEF SlotInv, DataInSlot
  <2>1. packet.msg.ch \in Channel /\ Len(packet.msg.body) \in Nat
    BY <1>t, LenProperties DEF TypeOK, DataInSlot, Packet, Msg
  <2>2. /\ window[packet.msg.ch] \in Nat /\ window'[packet.msg.ch] \in Nat
        /\ window[packet.msg.ch] <= window'[packet.msg.ch]
    BY <2>1, <1>t DEF TypeOK
  <2>3. /\ Len(packet.msg.body) <= window[packet.msg.ch]
        /\ sockUp =>
             /\ write_state[packet.msg.ch] = "created"
             /\ \E w \in Writer :
                  /\ Chan[w] = packet.msg.ch
                  /\ packet.msg.body = Bytes(w, off[w], bufwrite[Chan[w]])
    BY DEF IInv, SlotInv
  <2>4. Len(packet.msg.body) <= window'[packet.msg.ch]
    BY <2>1, <2>2, <2>3
  <2> QED BY <2>3, <2>4
<1> QED
  BY <1>1, <1>2, <1>3, <1>4 DEF IInv


\* One step per action.
LEMMA NextInv == IInv /\ OneWriterPerChannel /\ [Next]_vars => IInv'
<1> SUFFICES ASSUME IInv, OneWriterPerChannel, [Next]_vars
             PROVE  IInv'
  OBVIOUS
<1>t. TypeOK
  BY DEF IInv
<1>dr. Drained \in [Channel -> Nat]
  BY <1>t DEF Drained, TypeOK
<1>rest. ASSUME DrainRest
         PROVE  /\ adj' = [c \in Channel |-> 0] /\ adj' \in [Channel -> Nat]
                /\ rclose' \in [Channel -> BOOLEAN]
                /\ peerClose' \in [Channel -> {"none", "sent", "read"}]
  BY <1>rest, <1>t DEF DrainRest, TypeOK
<1>1. ASSUME NEW w \in Writer, WriteCall(w)
      PROVE  IInv'
  <2>1. pos[w] = off[w] /\ off[w] < BufLen[w]
    BY <1>1 DEF WriteCall, IInv, ClientInv
  <2>2. off' = off
    BY <2>1, <1>1, <1>t DEF WriteCall, TypeOK
  <2>3. TypeOK'
    BY <2>2, <1>1, <1>t DEF WriteCall, TypeOK, PC, writeVars, closeVars, inVars,
                            outVars, envVars
  <2>4. ClientInv'
    BY <2>1, <2>2, <1>1, <1>t DEF WriteCall, IInv, ClientInv, TypeOK, outVars
  <2>5. OwnerInv' /\ BegunInv' /\ WindowInv'
    BY <2>2, <1>1 DEF WriteCall, IInv, OwnerInv, BegunInv, WindowInv,
                      writeVars, inVars, outVars, envVars
  <2>6. SlotInv'
    BY <2>2, <1>1 DEF WriteCall, IInv, SlotInv, DataInSlot, writeVars, inVars,
                      outVars, envVars
  <2> QED BY <2>3, <2>4, <2>5, <2>6 DEF IInv
<1>2. ASSUME NEW w \in Writer, NEW rc \in Rc, WriteStart(w, rc)
      PROVE  IInv'
  <2> DEFINE c == Chan[w]
             n == Bufwrite(w, Drained[c])
  <2>1. /\ pc[w] = "writing" /\ write_state[c] = "idle" /\ sockUp
        /\ Drained[c] > 0 /\ DrainRest /\ SendData(w, n, Drained, rc)
        /\ UNCHANGED <<closeVars, envVars>>
    BY <1>2 DEF WriteStart
  <2>2. c \in Channel /\ Drained[c] \in Nat /\ off[w] \in Nat
    BY <1>dr, <1>t, ConstantsAssumption DEF TypeOK
  <2>3. off[w] < BufLen[w]
    BY <2>1 DEF IInv, ClientInv
  <2>4. n \in Nat /\ 1 <= n /\ n <= BufLen[w] - off[w] /\ n <= Drained[c]
    BY <2>1, <2>2, <2>3, BufwriteBounds
  <2>5. \A d \in Channel : window[d] <= Drained[d]
    BY <1>t DEF Drained, TypeOK
  <2>6. \A d \in Channel : Drained[d] + adj'[d] + Len(recv[d]) = granted[d]
    <3> SUFFICES ASSUME NEW d \in Channel
                 PROVE  Drained[d] + adj'[d] + Len(recv[d]) = granted[d]
      OBVIOUS
    <3>1. adj'[d] = 0 /\ Drained[d] = window[d] + adj[d]
      BY <2>1, <1>rest DEF Drained
    <3>2. window[d] \in Nat /\ adj[d] \in Nat /\ Len(recv[d]) \in Nat
      BY <1>t, LenProperties DEF TypeOK
    <3>3. window[d] + adj[d] + Len(recv[d]) = granted[d]
      BY DEF IInv, WindowInv
    <3> QED BY <3>1, <3>2, <3>3
  <2>7. UNCHANGED <<granted, sockUp>>
    BY <2>1 DEF envVars
  <2>8. adj' \in [Channel -> Nat]
    BY <2>1, <1>rest
  <2> HIDE DEF n
  <2>9. /\ pc' \in [Writer -> PC] /\ pos' \in [Writer -> Nat]
        /\ off' \in [Writer -> Nat]
        /\ write_state' \in [Channel -> {"idle", "created"}]
        /\ bufwrite' \in [Channel -> Nat] /\ window' \in [Channel -> Nat]
        /\ packet' \in Packet \cup {NoPacket}
        /\ recv' \in [Channel -> Seq(Byte)] /\ ctl' = ctl
        /\ OwnerInv' /\ ClientInv' /\ BegunInv' /\ SlotInv' /\ WindowInv'
    BY <2>1, <2>4, <2>5, <2>6, <2>7, <2>8, <1>dr, SendDataStep
  <2>10. TypeOK'
    BY <2>1, <2>7, <2>8, <2>9, <1>rest, <1>t DEF TypeOK, closeVars
  <2> QED BY <2>9, <2>10 DEF IInv
<1>3. ASSUME NEW w \in Writer, NEW rc \in Rc, WriteResume(w, rc)
      PROVE  IInv'
  <2> DEFINE c == Chan[w]
  <2>1. /\ pc[w] = "writing" /\ write_state[c] = "created"
        /\ SendData(w, bufwrite[c], window, rc)
        /\ UNCHANGED <<closeVars, rclose, adj, peerClose, envVars>>
    BY <1>3 DEF WriteResume
  <2>2. /\ bufwrite[c] \in Nat /\ 1 <= bufwrite[c]
        /\ bufwrite[c] <= BufLen[w] - off[w] /\ bufwrite[c] <= window[c]
    BY <2>1, <1>t, ConstantsAssumption DEF TypeOK, IInv, BegunInv
  <2>3. /\ window \in [Channel -> Nat] /\ adj' \in [Channel -> Nat]
        /\ \A d \in Channel : window[d] <= window[d]
    BY <2>1, <1>t DEF TypeOK
  <2>4. \A d \in Channel : window[d] + adj'[d] + Len(recv[d]) = granted[d]
    BY <2>1 DEF IInv, WindowInv
  <2>5. UNCHANGED <<granted, sockUp>>
    BY <2>1 DEF envVars
  <2>6. /\ pc' \in [Writer -> PC] /\ pos' \in [Writer -> Nat]
        /\ off' \in [Writer -> Nat]
        /\ write_state' \in [Channel -> {"idle", "created"}]
        /\ bufwrite' \in [Channel -> Nat] /\ window' \in [Channel -> Nat]
        /\ packet' \in Packet \cup {NoPacket}
        /\ recv' \in [Channel -> Seq(Byte)] /\ ctl' = ctl
        /\ OwnerInv' /\ ClientInv' /\ BegunInv' /\ SlotInv' /\ WindowInv'
    BY <2>1, <2>2, <2>3, <2>4, <2>5, SendDataStep
  <2>7. TypeOK'
    BY <2>1, <2>5, <2>6, <1>t DEF TypeOK, closeVars
  <2> QED BY <2>6, <2>7 DEF IInv
<1>4. ASSUME NEW w \in Writer, WriteNoWindow(w)
      PROVE  IInv'
  <2>1. /\ pc[w] = "writing" /\ DrainRest /\ window' = Drained /\ WouldBlock(w)
        /\ UNCHANGED <<writeVars, closeVars, outVars, envVars>>
    BY <1>4 DEF WriteNoWindow
  <2>2. /\ off' = off /\ pc' \in [Writer -> PC] /\ pos' \in [Writer -> Nat]
    BY <2>1, ClientStops
  <2>3. ClientInv'
    BY <2>1, ClientStopsInv DEF outVars
  <2>4. TypeOK'
    BY <2>1, <2>2, <1>rest, <1>dr, <1>t DEF TypeOK, writeVars, closeVars,
                                            outVars, envVars
  <2>5. \A c \in Channel : /\ window[c] <= window'[c]
                           /\ window'[c] + adj'[c] = window[c] + adj[c]
    <3> SUFFICES ASSUME NEW c \in Channel
                 PROVE  /\ window[c] <= window'[c]
                        /\ window'[c] + adj'[c] = window[c] + adj[c]
      OBVIOUS
    <3>1. adj'[c] = 0 /\ window'[c] = window[c] + adj[c]
      BY <2>1, <1>rest DEF Drained
    <3>2. window[c] \in Nat /\ adj[c] \in Nat
      BY <1>t DEF TypeOK
    <3> QED BY <3>1, <3>2
  <2>6. window' \in [Channel -> Nat] /\ adj' \in [Channel -> Nat]
    BY <2>1, <1>dr, <1>rest
  <2> QED BY <2>1, <2>2, <2>3, <2>4, <2>5, <2>6, ReadStep DEF envVars
<1>5. ASSUME NEW w \in Writer, WriteRefused(w)
      PROVE  IInv'
  <2>1. /\ pc[w] = "writing" /\ Raise(w)
        /\ UNCHANGED <<writeVars, closeVars, inVars, outVars, envVars>>
    BY <1>5 DEF WriteRefused
  <2>2. /\ off' = off /\ pc' \in [Writer -> PC] /\ pos' \in [Writer -> Nat]
    BY <2>1, ClientStops
  <2>3. ClientInv'
    BY <2>1, ClientStopsInv DEF outVars
  <2>4. TypeOK'
    BY <2>1, <2>2, <1>t DEF TypeOK, writeVars, closeVars, inVars, outVars, envVars
  <2>5. \A c \in Channel : /\ window[c] <= window'[c]
                           /\ window'[c] + adj'[c] = window[c] + adj[c]
    BY <2>1, <1>t DEF TypeOK, inVars
  <2>6. window' \in [Channel -> Nat] /\ adj' \in [Channel -> Nat]
    BY <2>1, <1>t DEF TypeOK, inVars
  <2> QED BY <2>1, <2>2, <2>3, <2>4, <2>5, <2>6, ReadStep DEF envVars
<1>e. ASSUME NEW c \in Channel, NEW a \in StackAddr, NEW rc \in Rc,
             ChannelSendEof(c, a, rc)
      PROVE  /\ recv' = recv
             /\ ctl' \in [Channel -> SUBSET {"eof", "close"}]
             /\ packet' \in Packet \cup {NoPacket}
             /\ OwnerInv' /\ (DataInSlot' => packet' = packet)
             /\ leof' \in [Channel -> BOOLEAN]
  <2> DEFINE m == [type |-> "eof", ch |-> c, body |-> <<>>]
  <2>1. m \in Msg /\ m.type # "data"
    BY DEF Msg
  <2>2. <<"stack", a>> \in Addr /\ \A d \in Channel : <<"stack", a>> # <<"write", d>>
    BY DEF Addr
  <2>3. TransportSend(<<"stack", a>>, m, rc)
    BY <1>e DEF ChannelSendEof
  <2>4. leof' \in [Channel -> BOOLEAN]
    BY <1>e, <1>t DEF ChannelSendEof, TypeOK
  <2> HIDE DEF m
  <2> QED BY <2>1, <2>2, <2>3, <2>4, ControlSend
<1>6. ASSUME NEW c \in Channel, NEW rc \in Rc, SendEof(c, rc)
      PROVE  IInv'
  <2>1. PICK a \in StackAddr : ChannelSendEof(c, a, rc)
    BY <1>6 DEF SendEof
  <2>2. UNCHANGED <<clientVars, writeVars, lclose, close_state, close_pc,
                    inVars, envVars>>
    BY <1>6 DEF SendEof
  <2>3. TypeOK'
    BY <2>1, <2>2, <1>e, <1>t DEF TypeOK, clientVars, writeVars, inVars, envVars
  <2> QED BY <2>1, <2>2, <2>3, <1>e, QuietStep DEF inVars, envVars
<1>7. ASSUME NEW c \in Channel, NEW rc \in Rc, CloseBegin(c, rc)
      PROVE  IInv'
  <2>1. /\ UNCHANGED <<clientVars, writeVars, lclose, close_state, inVars, envVars>>
        /\ close_pc' \in [Channel -> {"out", "send", "wait"}]
    BY <1>7, <1>t DEF CloseBegin, TypeOK
  <2>2. /\ recv' = recv
        /\ ctl' \in [Channel -> SUBSET {"eof", "close"}]
        /\ packet' \in Packet \cup {NoPacket}
        /\ OwnerInv' /\ (DataInSlot' => packet' = packet)
        /\ leof' \in [Channel -> BOOLEAN]
    <3>1. CASE \E a \in StackAddr : ChannelSendEof(c, a, rc)
      BY <3>1, <1>e
    <3>2. CASE UNCHANGED <<leof, outVars>>
      BY <3>2, <1>t DEF TypeOK, IInv, OwnerInv, outVars
    <3> QED BY <3>1, <3>2, <1>7 DEF CloseBegin
  <2>3. TypeOK'
    BY <2>1, <2>2, <1>t DEF TypeOK, clientVars, writeVars, inVars, envVars
  <2> QED BY <2>1, <2>2, <2>3, QuietStep DEF inVars, envVars
<1>8. ASSUME NEW c \in Channel, NEW rc \in Rc, CloseSend(c, rc)
      PROVE  IInv'
  <2> DEFINE m == [type |-> "close", ch |-> c, body |-> <<>>]
  <2>1. /\ UNCHANGED <<clientVars, writeVars, leof, inVars, envVars>>
        /\ close_pc' \in [Channel -> {"out", "send", "wait"}]
        /\ close_state' \in [Channel -> {"idle", "created", "sent"}]
        /\ lclose' \in [Channel -> BOOLEAN]
    BY <1>8, <1>t DEF CloseSend, TypeOK, Rc
  <2>2. /\ recv' = recv
        /\ ctl' \in [Channel -> SUBSET {"eof", "close"}]
        /\ packet' \in Packet \cup {NoPacket}
        /\ OwnerInv' /\ (DataInSlot' => packet' = packet)
    <3>1. m \in Msg /\ m.type # "data"
      BY DEF Msg
    <3>2. /\ <<"close", c>> \in Addr
          /\ \A d \in Channel : <<"close", c>> # <<"write", d>>
      BY DEF Addr
    <3>3. CASE TransportSend(<<"close", c>>, m, rc)
      <4> HIDE DEF m
      <4> QED BY <3>1, <3>2, <3>3, ControlSend
    <3>4. CASE UNCHANGED outVars
      BY <3>4, <1>t DEF TypeOK, IInv, OwnerInv, outVars
    <3> QED BY <3>3, <3>4, <1>8 DEF CloseSend
  <2>3. TypeOK'
    BY <2>1, <2>2, <1>t DEF TypeOK, clientVars, writeVars, inVars, envVars
  <2> QED BY <2>1, <2>2, <2>3, QuietStep DEF inVars, envVars
<1>9. ASSUME NEW c \in Channel, CloseWait(c)
      PROVE  IInv'
  <2>1. /\ UNCHANGED <<clientVars, writeVars, leof, outVars, envVars>>
        /\ lclose' \in [Channel -> BOOLEAN]
        /\ close_state' \in [Channel -> {"idle", "created", "sent"}]
        /\ close_pc' \in [Channel -> {"out", "send", "wait"}]
    BY <1>9, <1>t DEF CloseWait, TypeOK
  <2>2. /\ window' \in [Channel -> Nat] /\ adj' \in [Channel -> Nat]
        /\ rclose' \in [Channel -> BOOLEAN]
        /\ peerClose' \in [Channel -> {"none", "sent", "read"}]
        /\ \A d \in Channel : /\ window[d] <= window'[d]
                              /\ window'[d] + adj'[d] = window[d] + adj[d]
    <3>0. window \in [Channel -> Nat] /\ adj \in [Channel -> Nat]
      BY <1>t DEF TypeOK
    <3>1. CASE UNCHANGED inVars
      BY <3>0, <3>1, <1>t DEF TypeOK, inVars
    <3>2. CASE TransportReadOne
      <4>1. ASSUME NEW d \in Channel, NEW k \in 1..adj[d],
                   adj' = [adj EXCEPT ![d] = @ - k],
                   window' = [window EXCEPT ![d] = @ + k],
                   UNCHANGED <<rclose, peerClose>>
            PROVE  /\ window' \in [Channel -> Nat] /\ adj' \in [Channel -> Nat]
                   /\ rclose' \in [Channel -> BOOLEAN]
                   /\ peerClose' \in [Channel -> {"none", "sent", "read"}]
                   /\ \A e \in Channel :
                        /\ window[e] <= window'[e]
                        /\ window'[e] + adj'[e] = window[e] + adj[e]
        <5>1. /\ adj[d] \in Nat /\ window[d] \in Nat
              /\ adj[d] - k \in Nat /\ window[d] + k \in Nat
              /\ window[d] <= window[d] + k
              /\ (window[d] + k) + (adj[d] - k) = window[d] + adj[d]
          BY <3>0
        <5>2. window' \in [Channel -> Nat] /\ adj' \in [Channel -> Nat]
          BY <3>0, <4>1, <5>1
        <5>3. \A e \in Channel : /\ window[e] <= window'[e]
                                 /\ window'[e] + adj'[e] = window[e] + adj[e]
          BY <3>0, <4>1, <5>1
        <5> QED BY <4>1, <5>2, <5>3, <1>t DEF TypeOK
      <4>2. ASSUME NEW d \in Channel,
                   peerClose' = [peerClose EXCEPT ![d] = "read"],
                   rclose' = [rclose EXCEPT ![d] = TRUE],
                   UNCHANGED <<window, adj>>
            PROVE  /\ window' \in [Channel -> Nat] /\ adj' \in [Channel -> Nat]
                   /\ rclose' \in [Channel -> BOOLEAN]
                   /\ peerClose' \in [Channel -> {"none", "sent", "read"}]
                   /\ \A e \in Channel :
                        /\ window[e] <= window'[e]
                        /\ window'[e] + adj'[e] = window[e] + adj[e]
        BY <3>0, <4>2, <1>t DEF TypeOK
      <4> QED BY <3>2, <4>1, <4>2 DEF TransportReadOne
    <3> QED BY <3>1, <3>2, <1>9 DEF CloseWait
  <2>3. TypeOK'
    BY <2>1, <2>2, <1>t DEF TypeOK, clientVars, writeVars, outVars, envVars
  <2>4. ClientInv'
    BY <2>1 DEF IInv, ClientInv, clientVars, outVars
  <2> QED BY <2>1, <2>2, <2>3, <2>4, ReadStep DEF clientVars, envVars
<1>10. ASSUME NEW c \in Channel, CloseWaitAgain(c)
       PROVE  IInv'
  <2>1. UNCHANGED <<clientVars, writeVars, leof, lclose, close_state, inVars,
                    outVars, envVars>>
        /\ close_pc' \in [Channel -> {"out", "send", "wait"}]
    BY <1>10, <1>t DEF CloseWaitAgain, TypeOK
  <2>2. TypeOK'
    BY <2>1, <1>t DEF TypeOK, clientVars, writeVars, inVars, outVars, envVars
  <2>3. OwnerInv'
    BY <2>1 DEF IInv, OwnerInv, outVars
  <2> QED BY <2>1, <2>2, <2>3, QuietStep DEF inVars, outVars, envVars
<1>11. ASSUME NEW c \in Channel, NEW n \in 1..GrantMax, Grant(c, n)
       PROVE  IInv'
  <2>1. /\ granted' = [granted EXCEPT ![c] = @ + n]
        /\ adj' = [adj EXCEPT ![c] = @ + n]
        /\ UNCHANGED <<clientVars, writeVars, closeVars, window, rclose,
                       peerClose, outVars, sockUp>>
    BY <1>11 DEF Grant
  <2>2. n \in Nat /\ granted[c] \in Nat /\ adj[c] \in Nat
    BY <1>t, ConstantsAssumption DEF TypeOK
  <2>3. TypeOK'
    <3>1. granted' \in [Channel -> Nat] /\ adj' \in [Channel -> Nat]
      BY <2>1, <2>2, <1>t DEF TypeOK
    <3> QED BY <2>1, <3>1, <1>t DEF TypeOK, clientVars, writeVars, closeVars,
                                    outVars
  <2>4. WindowInv'
    <3> SUFFICES ASSUME NEW d \in Channel
                 PROVE  window[d] + adj'[d] + Len(recv[d]) = granted'[d]
      BY <2>1 DEF WindowInv, outVars
    <3>1. window[d] \in Nat /\ adj[d] \in Nat /\ Len(recv[d]) \in Nat
      BY <1>t, LenProperties DEF TypeOK
    <3>2. window[d] + adj[d] + Len(recv[d]) = granted[d]
      BY DEF IInv, WindowInv
    <3>3. CASE d = c
      <4>1. adj'[d] = adj[d] + n /\ granted'[d] = granted[d] + n
        BY <2>1, <3>3, <1>t DEF TypeOK
      <4> QED BY <4>1, <3>1, <3>2, <2>2
    <3>4. CASE d # c
      BY <2>1, <3>2, <3>4, <1>t DEF TypeOK
    <3> QED BY <3>3, <3>4
  <2>5. OwnerInv' /\ ClientInv' /\ BegunInv'
    BY <2>1 DEF IInv, OwnerInv, ClientInv, BegunInv, clientVars, writeVars, outVars
  <2>6. SlotInv'
    BY <2>1 DEF IInv, SlotInv, DataInSlot, clientVars, writeVars, outVars
  <2> QED BY <2>3, <2>4, <2>5, <2>6 DEF IInv
<1>12. ASSUME NEW c \in Channel, PeerClose(c)
       PROVE  IInv'
  <2>1. UNCHANGED <<clientVars, writeVars, closeVars, window, rclose, adj,
                    outVars, envVars>>
        /\ peerClose' \in [Channel -> {"none", "sent", "read"}]
    BY <1>12, <1>t DEF PeerClose, TypeOK
  <2>2. TypeOK'
    BY <2>1, <1>t DEF TypeOK, clientVars, writeVars, closeVars, outVars, envVars
  <2>3. OwnerInv'
    BY <2>1 DEF IInv, OwnerInv, outVars
  <2> QED BY <2>1, <2>2, <2>3, QuietStep DEF outVars, envVars
<1>13. ASSUME Drop
       PROVE  IInv'
  <2>1. /\ sockUp' = FALSE
        /\ UNCHANGED <<clientVars, writeVars, closeVars, inVars, outVars, granted>>
    BY <1>13 DEF Drop
  <2>2. TypeOK'
    BY <2>1, <1>t DEF TypeOK, clientVars, writeVars, closeVars, inVars, outVars
  <2>3. OwnerInv' /\ ClientInv' /\ BegunInv' /\ WindowInv'
    BY <2>1 DEF IInv, OwnerInv, ClientInv, BegunInv, WindowInv, clientVars,
                writeVars, inVars, outVars
  <2>4. SlotInv'
    BY <2>1 DEF IInv, SlotInv, DataInSlot, inVars, outVars
  <2> QED BY <2>2, <2>3, <2>4 DEF IInv
<1>14. CASE UNCHANGED vars
  <2>1. TypeOK' /\ OwnerInv' /\ DataInSlot' = DataInSlot
    BY <1>14, <1>t DEF IInv, TypeOK, OwnerInv, DataInSlot, vars, clientVars,
                       writeVars, closeVars, inVars, outVars, envVars
  <2> QED BY <2>1, <1>14, QuietStep DEF vars, inVars, outVars, envVars
<1> QED
  BY <1>1, <1>2, <1>3, <1>4, <1>5, <1>6, <1>7, <1>8, <1>9, <1>10, <1>11, <1>12,
     <1>13, <1>14 DEF Next, WriterStep, EndStep, PeerStep, Write, Finished

\* The invariant holds in every reachable state.
THEOREM InvariantHolds ==
    ASSUME OneWriterPerChannel
    PROVE  Spec => []IInv
<1>1. Init => IInv
  BY InitInv
<1>2. IInv /\ [Next]_vars => IInv'
  BY NextInv
<1> QED
  BY <1>1, <1>2, PTL DEF Spec

-------------------------------------------------------------------------------
(* What the invariant is for. *)

(***************************************************************************)
(* Type correctness; in particular the unsigned counters of the code       *)
(* (window_size, buf_remainder) never wrap around below zero.              *)
(***************************************************************************)
THEOREM TypeCorrect ==
    ASSUME OneWriterPerChannel
    PROVE  Spec => []TypeOK
<1>1. IInv => TypeOK
  BY DEF IInv
<1> QED
  BY <1>1, InvariantHolds, PTL

(***************************************************************************)
(* Whatever the interleaving of the writers, the EAGAINs, the window       *)
(* adjustments and the failures: what the peer receives on a channel is a  *)
(* prefix of the buffer written to it.                                     *)
(***************************************************************************)
THEOREM StreamsStayIntact ==
    ASSUME OneWriterPerChannel
    PROVE  Spec => []StreamIntact
<1>1. IInv => StreamIntact
  <2> SUFFICES ASSUME IInv, NEW w \in Writer
               PROVE  recv[Chan[w]] = Bytes(w, 0, Len(recv[Chan[w]]))
    BY DEF StreamIntact
  <2>1. recv[Chan[w]] = Bytes(w, 0, off[w]) /\ off[w] \in Nat /\ 0 \in Nat
    BY DEF IInv, ClientInv, TypeOK
  <2>2. Len(Bytes(w, 0, off[w])) = off[w]
    BY <2>1, BytesType
  <2> QED BY <2>1, <2>2
<1> QED
  BY <1>1, InvariantHolds, PTL

(***************************************************************************)
(* The count that a returned write has reported is what the peer has: the  *)
(* client may resume from buf[bytes_written:].                             *)
(***************************************************************************)
THEOREM ReportsAreExact ==
    ASSUME OneWriterPerChannel
    PROVE  Spec => []ReportExact
<1>1. IInv => ReportExact
  <2> SUFFICES ASSUME IInv, NEW w \in Writer, pc[w] \in {"idle", "done"}
               PROVE  pos[w] = Len(recv[Chan[w]])
    BY DEF ReportExact
  <2>1. /\ recv[Chan[w]] = Bytes(w, 0, off[w]) /\ pos[w] = off[w]
        /\ off[w] \in Nat /\ 0 \in Nat
    BY DEF IInv, ClientInv, TypeOK
  <2>2. Len(Bytes(w, 0, off[w])) = off[w]
    BY <2>1, BytesType
  <2> QED BY <2>1, <2>2
<1> QED
  BY <1>1, InvariantHolds, PTL

(***************************************************************************)
(* The peer is never sent more than it granted, not even by the packet     *)
(* that is half sent.                                                      *)
(***************************************************************************)
THEOREM WindowIsRespected ==
    ASSUME OneWriterPerChannel
    PROVE  Spec => []WindowRespected
<1>1. IInv => WindowRespected
  <2> SUFFICES ASSUME IInv, NEW c \in Channel
               PROVE  Len(recv[c]) + PendingData(c) <= granted[c]
    BY DEF WindowRespected
  <2>1. /\ window[c] \in Nat /\ adj[c] \in Nat /\ Len(recv[c]) \in Nat
        /\ window[c] + adj[c] + Len(recv[c]) = granted[c]
    BY LenProperties DEF IInv, TypeOK, WindowInv
  <2>2. PendingData(c) \in Nat /\ PendingData(c) <= window[c]
    <3>1. CASE DataInSlot /\ packet.msg.ch = c
      <4>1. PendingData(c) = Len(packet.msg.body)
        BY <3>1 DEF PendingData, DataInSlot
      <4>2. Len(packet.msg.body) \in Nat
        BY <3>1, LenProperties DEF IInv, TypeOK, DataInSlot, Packet, Msg
      <4>3. Len(packet.msg.body) <= window[c]
        BY <3>1 DEF IInv, SlotInv
      <4> QED BY <4>1, <4>2, <4>3
    <3>2. CASE ~(DataInSlot /\ packet.msg.ch = c)
      <4>1. PendingData(c) = 0
        BY <3>2 DEF PendingData, DataInSlot
      <4> QED BY <4>1, <2>1
    <3> QED BY <3>1, <3>2
  <2> QED BY <2>1, <2>2
<1> QED
  BY <1>1, InvariantHolds, PTL
===============================================================================
