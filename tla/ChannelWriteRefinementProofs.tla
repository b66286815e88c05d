--------------------- MODULE ChannelWriteRefinementProofs ---------------------
(***************************************************************************)
(* Proofs about ChannelWrite, continued: with one writer per channel it    *)
(* implements ByteStream, after its EOF a channel starts no data packet,   *)
(* and what a blocking write and send_eof claim is so.                     *)
(***************************************************************************)
EXTENDS ChannelWriteProofs

-------------------------------------------------------------------------------
(***************************************************************************)
(* The refinement.  ClientInv, before and after a step, says what the peer *)
(* has: the first off[w] bytes of the buffer.  So it is enough to know     *)
(* what the step does to off, pos and pc.                                  *)
(***************************************************************************)

\* What a step of writer w does to them.
ClientStep(w) ==
    \/ /\ pc[w] = "idle" /\ pc' = [pc EXCEPT ![w] = "writing"]
       /\ off' = [off EXCEPT ![w] = pos[w]] /\ pos' = pos
    \/ pc[w] = "writing" /\ (WouldBlock(w) \/ Raise(w))
    \/ pc[w] = "writing" /\ \E n \in Nat \ {0} : Wrote(w, n)

\* Every other step leaves them alone.
LEMMA StepsOfClients ==
    ASSUME IInv, [Next]_vars
    PROVE  UNCHANGED <<off, pos, pc>> \/ \E w \in Writer : ClientStep(w)
<1> USE DEF clientVars
<1>s. ASSUME NEW w \in Writer, pc[w] = "writing", NEW n \in Nat \ {0}, NEW win,
             NEW rc \in Rc, SendData(w, n, win, rc)
      PROVE  ClientStep(w)
  <2>1. CASE rc = "OK" /\ Wrote(w, n)
    BY <1>s, <2>1 DEF ClientStep
  <2>2. CASE WouldBlock(w) \/ Raise(w)
    BY <1>s, <2>2 DEF ClientStep
  <2> QED BY <1>s, <2>1, <2>2 DEF SendData, Rc
<1>1. ASSUME NEW w \in Writer, NEW rc \in Rc, WriteStart(w, rc)
      PROVE  ClientStep(w)
  <2>1. /\ pc[w] = "writing" /\ Drained[Chan[w]] > 0
        /\ SendData(w, Bufwrite(w, Drained[Chan[w]]), Drained, rc)
    BY <1>1 DEF WriteStart
  <2>2. /\ Drained[Chan[w]] \in Nat /\ off[w] \in Nat /\ off[w] < BufLen[w]
    BY <2>1, ConstantsAssumption DEF IInv, TypeOK, ClientInv, Drained
  <2>3. Bufwrite(w, Drained[Chan[w]]) \in Nat \ {0}
    BY <2>1, <2>2, BufwriteBounds
  <2> QED BY <1>s, <2>1, <2>3
<1>2. ASSUME NEW w \in Writer, NEW rc \in Rc, WriteResume(w, rc)
      PROVE  ClientStep(w)
  <2>1. /\ pc[w] = "writing" /\ write_state[Chan[w]] = "created"
        /\ SendData(w, bufwrite[Chan[w]], window, rc)
    BY <1>2 DEF WriteResume
  <2>2. bufwrite[Chan[w]] \in Nat \ {0}
    BY <2>1, ConstantsAssumption DEF IInv, TypeOK, BegunInv
  <2> QED BY <1>s, <2>1, <2>2
<1>3. ASSUME NEW w \in Writer, WriteCall(w) \/ WriteNoWindow(w) \/ WriteRefused(w)
      PROVE  ClientStep(w)
  BY <1>3 DEF ClientStep, WriteCall, WriteNoWindow, WriteRefused
<1>4. ASSUME NEW c \in Channel, EndStep(c) \/ PeerStep(c)
      PROVE  UNCHANGED <<off, pos, pc>>
  BY <1>4 DEF EndStep, PeerStep, SendEof, CloseBegin, CloseSend, CloseWait,
              CloseWaitAgain, Grant, PeerClose
<1>5. CASE Drop \/ UNCHANGED vars
  BY <1>5 DEF Drop, vars
<1> QED
  BY <1>1, <1>2, <1>3, <1>4, <1>5 DEF Next, WriterStep, Write, Finished

\* The bytes that the peer has are the first off[w] of each buffer.
LEMMA PeerHas ==
    ASSUME IInv, NEW w \in Writer
    PROVE  /\ recv[Chan[w]] = Bytes(w, 0, off[w]) /\ off[w] \in Nat
           /\ Len(recv[Chan[w]]) = off[w]
<1>1. recv[Chan[w]] = Bytes(w, 0, off[w]) /\ off[w] \in Nat /\ 0 \in Nat
  BY DEF IInv, ClientInv, TypeOK
<1> QED
  BY <1>1, BytesType

\* The first state of ChannelWrite is the first state of ByteStream.
LEMMA PromiseInit == Init => Promise!Init
  BY ConstantsAssumption DEF Init, Promise!Init, StreamState

\* A step of a client is a step of its stream, or none.
LEMMA ClientStepRefines ==
    ASSUME IInv, IInv', NEW w \in Writer, ClientStep(w)
    PROVE  Promise!Next \/ UNCHANGED Promise!vars
<1> DEFINE got == [v \in Writer |-> recv[Chan[v]]]
<1>t. /\ pc \in [Writer -> PC] /\ pos \in [Writer -> Nat] /\ off \in [Writer -> Nat]
      /\ off[w] \in Nat /\ BufLen[w] \in Nat /\ BufLen \in [Writer -> Nat \ {0}]
      /\ off[w] <= BufLen[w] /\ off'[w] <= BufLen[w]
      /\ pc[w] \in {"idle", "writing"} => off[w] < BufLen[w]
      /\ pc[w] = "idle" => pos[w] = off[w]
  BY ConstantsAssumption DEF IInv, TypeOK, ClientInv
<1>g. \A v \in Writer : off'[v] = off[v] => recv'[Chan[v]] = recv[Chan[v]]
  BY PeerHas, ConstantsAssumption DEF IInv, ClientInv
<1>1. CASE /\ pc[w] = "idle" /\ pc' = [pc EXCEPT ![w] = "writing"]
           /\ off' = [off EXCEPT ![w] = pos[w]] /\ pos' = pos
  <2>1. off' = off
    BY <1>1, <1>t
  <2>2. got' = got
    BY <2>1, <1>g
  <2>3. StreamState' = StreamState
    BY <1>1, <1>t DEF StreamState
  <2> QED BY <1>1, <2>2, <2>3 DEF Promise!vars
<1>2. CASE pc[w] = "writing" /\ Raise(w)
  <2>1. pc' = [pc EXCEPT ![w] = "failed"] /\ UNCHANGED <<pos, off>>
    BY <1>2 DEF Raise
  <2>2. got' = got
    BY <2>1, <1>g
  <2>3. StreamState' = [StreamState EXCEPT ![w] = "failed"] /\ StreamState[w] = "open"
    BY <1>2, <2>1, <1>t DEF StreamState
  <2> QED BY <2>1, <2>2, <2>3 DEF Promise!Next, Promise!Fail
<1>3. CASE pc[w] = "writing" /\ WouldBlock(w)
  <2>0. off' = off
    BY <1>3 DEF WouldBlock
  <2>1. got' = got
    BY <2>0, <1>g
  <2>2. CASE UNCHANGED <<pc, pos>>
    BY <2>1, <2>2 DEF StreamState, Promise!vars
  <2>3. CASE pc' = [pc EXCEPT ![w] = "failed"] /\ UNCHANGED pos
    <3>1. StreamState' = [StreamState EXCEPT ![w] = "failed"] /\ StreamState[w] = "open"
      BY <1>3, <2>3, <1>t DEF StreamState
    <3> QED BY <2>1, <2>3, <3>1 DEF Promise!Next, Promise!Fail
  <2>4. CASE pc' = [pc EXCEPT ![w] = "idle"] /\ pos' = [pos EXCEPT ![w] = off[w]]
    <3>1. StreamState' = StreamState /\ StreamState[w] = "open"
      BY <1>3, <2>4, <1>t DEF StreamState
    <3>2. Len(got[w]) = off[w] /\ off[w] # BufLen[w]
      BY <1>3, <1>t, PeerHas
    <3>3. StreamState' = [StreamState EXCEPT ![w] = IF Len(got[w]) = BufLen[w]
                                                    THEN "done" ELSE @]
      BY <3>1, <3>2 DEF StreamState
    <3> QED BY <2>1, <2>4, <3>1, <3>2, <3>3 DEF Promise!Next, Promise!Report, Promise!Tell
  <2> QED BY <1>3, <2>2, <2>3, <2>4 DEF WouldBlock
<1>4. ASSUME pc[w] = "writing", NEW n \in Nat \ {0}, Wrote(w, n)
      PROVE  Promise!Next
  <2>1. /\ off' = [off EXCEPT ![w] = off[w] + n]
        /\ off'[w] = off[w] + n /\ off[w] + n <= BufLen[w]
        /\ pc' = [pc EXCEPT ![w] = IF off[w] + n = BufLen[w] THEN "done" ELSE "writing"]
        /\ pos' = IF off[w] + n = BufLen[w] THEN [pos EXCEPT ![w] = BufLen[w]] ELSE pos
    <3>1. off' = [off EXCEPT ![w] = off[w] + n] /\ off'[w] = off[w] + n
      BY <1>4, <1>t DEF Wrote
    <3>2. off[w] + n \in Nat /\ off[w] + n <= BufLen[w] /\ ~(off[w] + n > BufLen[w])
      BY <3>1, <1>t
    <3>3. pc' = [pc EXCEPT ![w] = IF off[w] + n = BufLen[w] THEN "done" ELSE "writing"]
      BY <1>4, <3>2 DEF Wrote
    <3>4. pos' = IF off[w] + n = BufLen[w] THEN [pos EXCEPT ![w] = BufLen[w]] ELSE pos
      BY <1>4, <1>t DEF Wrote
    <3> QED BY <3>1, <3>2, <3>3, <3>4
  <2>2. got[w] \o Promise!Chunk(w, n) = Bytes(w, 0, off[w] + n)
    <3>1. got[w] = Bytes(w, 0, off[w]) /\ Len(got[w]) = off[w]
      BY PeerHas
    <3>2. Promise!Chunk(w, n) = Bytes(w, off[w], n)
      BY <3>1 DEF Promise!Chunk, Bytes
    <3>3. Bytes(w, 0, off[w]) \o Bytes(w, off[w], n) = Bytes(w, 0, off[w] + n)
      BY <1>t, BytesConcat
    <3> HIDE DEF got
    <3> QED BY <3>1, <3>2, <3>3
  <2>3. got'[w] = Bytes(w, 0, off[w] + n)
    BY <2>1 DEF IInv, ClientInv
  <2>4. got' = [got EXCEPT ![w] = @ \o Promise!Chunk(w, n)]
    BY <1>g, <1>t, <2>1, <2>2, <2>3
  <2>5. StreamState[w] = "open"
    BY <1>4 DEF StreamState
  <2>6. Len(got[w]) = off[w] /\ n \in 1..(BufLen[w] - Len(got[w]))
    BY <1>4, <1>t, <2>1, PeerHas
  <2>7. CASE off[w] + n = BufLen[w]
    <3>1. StreamState' = [StreamState EXCEPT ![w] = "done"]
      BY <2>1, <2>7, <1>t DEF StreamState
    <3>2. Promise!Tell(w, BufLen[w])
      BY <2>1, <2>7, <3>1 DEF Promise!Tell
    <3> QED BY <2>4, <2>5, <2>6, <2>7, <3>2 DEF Promise!Next, Promise!Deliver
  <2>8. CASE off[w] + n # BufLen[w]
    <3>1. StreamState' = StreamState /\ pos' = pos
      BY <1>4, <2>1, <2>8, <1>t DEF StreamState
    <3> QED BY <2>4, <2>5, <2>6, <2>8, <3>1 DEF Promise!Next, Promise!Deliver
  <2> QED BY <2>7, <2>8
<1> QED
  BY <1>1, <1>2, <1>3, <1>4 DEF ClientStep

(***************************************************************************)
(* Channel.write over libssh2 implements the abstract byte stream, for any *)
(* number of channels with one writer each: whatever EAGAINs, timeouts and *)
(* losses of the connection there are, every step delivers the next bytes  *)
(* of a buffer, reports exactly what was delivered, fails, or changes      *)
(* nothing that the client or the peer can see.                            *)
(***************************************************************************)
THEOREM WritesRefineByteStream ==
    ASSUME OneWriterPerChannel
    PROVE  Spec => WritesAsPromised
<1>1. Init => Promise!Init
  BY PromiseInit
<1>2. IInv /\ IInv' /\ [Next]_vars => [Promise!Next]_(Promise!vars)
  <2> SUFFICES ASSUME IInv, IInv', [Next]_vars
               PROVE  Promise!Next \/ UNCHANGED Promise!vars
    OBVIOUS
  <2>1. CASE \E w \in Writer : ClientStep(w)
    BY <2>1, ClientStepRefines
  <2>2. CASE UNCHANGED <<off, pos, pc>>
    <3>1. \A w \in Writer : recv'[Chan[w]] = recv[Chan[w]]
      BY <2>2 DEF IInv, ClientInv
    <3> QED BY <2>2, <3>1 DEF StreamState, Promise!vars
  <2> QED BY <2>1, <2>2, StepsOfClients
<1> QED
  BY <1>1, <1>2, InvariantHolds, PTL DEF Spec, WritesAsPromised, Promise!Spec

-------------------------------------------------------------------------------
(***************************************************************************)
(* The EOF.  send_eof takes any packet that lies at its address for its    *)
(* own.  On a session with one channel the only packet that can lie there  *)
(* is the EOF of an earlier call; so local.eof says whether the EOF was    *)
(* sent.  With several channels it may be the EOF of another one.          *)
(***************************************************************************)
OneChannel == \A c, d \in Channel : c = d

EofInv ==
    /\ leof \in [Channel -> BOOLEAN]
    /\ ctl \in [Channel -> SUBSET {"eof", "close"}]
    /\ packet # NoPacket =>
          /\ packet.msg.type \in {"data", "eof", "close"}
          /\ packet.msg.ch \in Channel
          /\ packet.odata[1] = "stack" <=> packet.msg.type = "eof"
          /\ packet.odata[1] = "write" <=> packet.msg.type = "data"
    /\ \A c \in Channel : leof[c] <=> "eof" \in ctl[c]

\* What a call of _libssh2_transport_send does to the EOFs.
LEMMA SendKeepsEof ==
    ASSUME EofInv, OneChannel, NEW c \in Channel, NEW a, NEW b, NEW rc \in Rc,
           NEW type \in {"data", "eof", "close"}, NEW body,
           a = "stack" <=> type = "eof", a = "write" <=> type = "data",
           TransportSend(<<a, b>>, [type |-> type, ch |-> c, body |-> body], rc),
           leof' = IF type = "eof" THEN [leof EXCEPT ![c] = @ \/ rc = "OK"] ELSE leof
    PROVE  EofInv'
<1> USE DEF EofInv
<1>1. leof' \in [Channel -> BOOLEAN]
  OBVIOUS
<1>2. CASE /\ rc = "OK" /\ SameCaller(<<a, b>>)
           /\ Transmit(IF packet = NoPacket THEN [type |-> type, ch |-> c, body |-> body]
                                            ELSE packet.msg)
           /\ packet' = NoPacket
  <2>1. ASSUME NEW k, k.type \in {"data", "eof", "close"}, k.ch \in Channel,
               k.type = "eof" <=> type = "eof", Transmit(k)
        PROVE  EofInv'
    <3>1. ctl' = IF k.type = "data" THEN ctl ELSE [ctl EXCEPT ![c] = @ \cup {k.type}]
      BY <2>1 DEF Transmit, OneChannel
    <3>2. ctl' \in [Channel -> SUBSET {"eof", "close"}]
      BY <2>1, <3>1
    <3>3. "eof" \in ctl'[c] <=> "eof" \in ctl[c] \/ type = "eof"
      BY <2>1, <3>1
    <3>4. leof'[c] <=> leof[c] \/ type = "eof"
      BY <1>2
    <3> QED BY <1>1, <1>2, <3>2, <3>3, <3>4 DEF OneChannel
  <2>2. CASE packet = NoPacket
    BY <1>2, <2>1, <2>2
  <2>3. CASE packet # NoPacket
    <3>1. packet.odata[1] = a
      BY <1>2, <2>3 DEF SameCaller
    <3> QED BY <1>2, <2>1, <2>3, <3>1
  <2> QED BY <2>2, <2>3
<1>3. CASE /\ rc # "OK" /\ UNCHANGED ctl
           /\ packet' \in {packet, [odata |-> <<a, b>>,
                                    msg |-> [type |-> type, ch |-> c, body |-> body]]}
  <2>1. leof' = leof
    BY <1>3
  <2> QED BY <1>3, <2>1
<1> QED
  BY <1>2, <1>3 DEF TransportSend, outVars

\* Every step keeps it.
LEMMA EofNext ==
    ASSUME EofInv, OneChannel, [Next]_vars
    PROVE  EofInv'
<1>1. ASSUME NEW w \in Writer, NEW rc \in Rc, Write(w, rc)
      PROVE  EofInv'
  <2>1. /\ leof' = leof /\ Chan[w] \in Channel
        /\ \E n, win : SendData(w, n, win, rc)
    BY <1>1, ConstantsAssumption DEF Write, WriteStart, WriteResume, closeVars
  <2> QED BY <2>1, SendKeepsEof DEF SendData
<1>2. ASSUME NEW c \in Channel, NEW a \in StackAddr, NEW rc \in Rc, ChannelSendEof(c, a, rc)
      PROVE  EofInv'
  <2>1. /\ TransportSend(<<"stack", a>>, [type |-> "eof", ch |-> c, body |-> <<>>], rc)
        /\ leof' = [leof EXCEPT ![c] = @ \/ rc = "OK"]
    BY <1>2 DEF ChannelSendEof
  <2>2. leof' = IF "eof" = "eof" THEN [leof EXCEPT ![c] = @ \/ rc = "OK"] ELSE leof
    BY <2>1
  <2>3. ("stack" = "stack" <=> "eof" = "eof") /\ ("stack" = "write" <=> "eof" = "data")
    OBVIOUS
  <2> QED BY <2>1, <2>2, <2>3, SendKeepsEof
<1>3. ASSUME NEW c \in Channel, NEW rc \in Rc, SendEof(c, rc)
      PROVE  EofInv'
  BY <1>2, <1>3 DEF SendEof
<1>4. ASSUME UNCHANGED <<leof, outVars>>
      PROVE  EofInv'
  BY <1>4 DEF EofInv, outVars
<1>5. ASSUME NEW c \in Channel, NEW rc \in Rc, CloseBegin(c, rc)
      PROVE  EofInv'
  BY <1>2, <1>4, <1>5 DEF CloseBegin
<1>6. ASSUME NEW c \in Channel, NEW rc \in Rc, CloseSend(c, rc)
      PROVE  EofInv'
  <2>1. CASE UNCHANGED <<leof, outVars>>
    BY <1>4, <2>1
  <2>2. CASE /\ leof' = leof
             /\ TransportSend(<<"close", c>>,
                              [type |-> "close", ch |-> c, body |-> <<>>], rc)
    BY <1>6, <2>2, SendKeepsEof
  <2> QED BY <1>6, <2>1, <2>2 DEF CloseSend
<1>7. ASSUME NEW w \in Writer, WriteCall(w) \/ WriteNoWindow(w) \/ WriteRefused(w)
      PROVE  EofInv'
  BY <1>4, <1>7 DEF WriteCall, WriteNoWindow, WriteRefused, closeVars
<1>8. ASSUME NEW c \in Channel,
             CloseWait(c) \/ CloseWaitAgain(c) \/ PeerStep(c)
      PROVE  EofInv'
  BY <1>4, <1>8 DEF CloseWait, CloseWaitAgain, PeerStep, Grant, PeerClose, closeVars
<1>9. CASE Drop \/ UNCHANGED vars
  BY <1>4, <1>9 DEF Drop, vars, closeVars
<1> QED
  BY <1>1, <1>3, <1>5, <1>6, <1>7, <1>8, <1>9
     DEF Next, WriterStep, EndStep, Finished

\* On a session with one channel local.eof says whether the EOF was sent.
LEMMA EofHolds ==
    ASSUME OneChannel
    PROVE  Spec => []EofInv
<1>1. Init => EofInv
  BY DEF Init, EofInv
<1>2. EofInv /\ [Next]_vars => EofInv'
  BY EofNext
<1> QED
  BY <1>1, <1>2, PTL DEF Spec

(***************************************************************************)
(* Once the peer of the session's only channel has its EOF, the only data  *)
(* that may still leave is a packet that was begun before, however many    *)
(* writers there are and however impatient the caller of send_eof is.      *)
(***************************************************************************)
THEOREM DataEndsWithEof ==
    ASSUME OneChannel
    PROVE  Spec => NoNewDataAfterEof
<1>1. ASSUME EofInv, NEW c \in Channel, NEW b, NEW rc \in Rc,
             \/ TransportSend(<<"stack", b>>, [type |-> "eof", ch |-> c, body |-> <<>>], rc)
             \/ TransportSend(<<"close", b>>, [type |-> "close", ch |-> c, body |-> <<>>], rc)
      PROVE  recv' = recv
  <2>1. ASSUME NEW a \in {"stack", "close"}, NEW k, k.type # "data",
               TransportSend(<<a, b>>, k, rc)
        PROVE  recv' = recv
    <3>1. packet # NoPacket /\ packet.odata = <<a, b>> => packet.msg.type # "data"
      BY <1>1, <2>1 DEF EofInv
    <3> QED BY <2>1, <3>1 DEF TransportSend, Transmit, SameCaller, outVars
  <2> QED BY <1>1, <2>1
<1>2. ASSUME EofInv, NEW c \in Channel, NEW rc \in Rc,
             SendEof(c, rc) \/ CloseBegin(c, rc) \/ CloseSend(c, rc)
      PROVE  recv' = recv
  BY <1>1, <1>2 DEF SendEof, CloseBegin, CloseSend, ChannelSendEof, outVars
<1>3. ASSUME EofInv, [Next]_vars, NEW c \in Channel, "eof" \in ctl[c],
             recv'[c] # recv[c], write_state[c] # "created"
      PROVE  FALSE
  <2>1. leof[c] /\ \A d \in Channel : d = c
    BY <1>3 DEF EofInv, OneChannel
  <2>2. \A w \in Writer, rc \in Rc : ~Write(w, rc)
    BY <1>3, <2>1, ConstantsAssumption DEF Write, WriteStart, WriteResume, EofInv
  <2>3. \A w \in Writer : WriterStep(w) => recv' = recv
    BY <2>2 DEF WriterStep, WriteCall, WriteNoWindow, WriteRefused, outVars
  <2>4. \A d \in Channel : EndStep(d) \/ PeerStep(d) => recv' = recv
    BY <1>2, <1>3 DEF EndStep, PeerStep, CloseWait, CloseWaitAgain, Grant, PeerClose, outVars
  <2>5. Drop \/ UNCHANGED vars => recv' = recv
    BY DEF Drop, vars, outVars
  <2> QED BY <1>3, <2>3, <2>4, <2>5 DEF Next, Finished
<1>4. EofInv /\ [Next]_vars =>
         [\A c \in Channel : "eof" \in ctl[c] /\ recv'[c] # recv[c]
                             => write_state[c] = "created"]_vars
  BY <1>3
<1> QED
  BY <1>4, EofHolds, PTL DEF Spec, NoNewDataAfterEof

\* A write that blocks reports only the whole of its buffer.
BlockInv == Blocking => /\ pos \in [Writer -> Nat]
                        /\ \A w \in Writer : pos[w] \in {0, BufLen[w]}

(***************************************************************************)
(* What a call claimed is so, on a session with one channel: a blocking    *)
(* write has written its whole buffer, and after send_eof, or a close that *)
(* got past it, the peer has the EOF.                                      *)
(***************************************************************************)
THEOREM ReturnsMeanDone ==
    ASSUME OneChannel
    PROVE  Spec => []ReturnMeansDone
<1>1. Init => BlockInv
  BY ConstantsAssumption DEF Init, BlockInv
<1>2. ASSUME BlockInv, [Next]_vars
      PROVE  BlockInv'
  <2>1. ASSUME NEW w \in Writer, Blocking,
               WouldBlock(w) \/ Raise(w) \/ \E n : Wrote(w, n)
        PROVE  BlockInv'
    BY <1>2, <2>1, ConstantsAssumption DEF WouldBlock, Raise, Wrote, BlockInv
  <2>2. ASSUME NEW w \in Writer, Blocking, WriterStep(w)
        PROVE  BlockInv'
    BY <1>2, <2>1, <2>2 DEF WriterStep, Write, WriteStart, WriteResume, SendData, Rc,
                      WriteCall, WriteNoWindow, WriteRefused, BlockInv
  <2>3. CASE UNCHANGED pos
    BY <1>2, <2>3 DEF BlockInv
  <2>4. \A c \in Channel : EndStep(c) \/ PeerStep(c) => UNCHANGED pos
    BY DEF EndStep, PeerStep, SendEof, CloseBegin, CloseSend, CloseWait,
           CloseWaitAgain, Grant, PeerClose, clientVars
  <2>5. Drop \/ UNCHANGED vars => UNCHANGED pos
    BY DEF Drop, vars, clientVars
  <2>6. CASE ~Blocking
    BY <2>6 DEF BlockInv
  <2> QED BY <1>2, <2>2, <2>3, <2>4, <2>5, <2>6, ConstantsAssumption DEF Next, Finished
<1>3. BlockInv /\ EofInv => ReturnMeansDone
  BY DEF BlockInv, EofInv, ReturnMeansDone, BlockingWritesAll, EofDelivered
<1>4. BlockInv /\ [Next]_vars => BlockInv'
  BY <1>2
<1> QED
  BY <1>1, <1>3, <1>4, EofHolds, PTL DEF Spec
===============================================================================
