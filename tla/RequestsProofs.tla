---------------------------- MODULE RequestsProofs -----------------------------
(***************************************************************************)
(* Proofs about Requests: a failed or interrupted opening leaves no        *)
(* channel behind and no channel is handed to two callers; the server gets *)
(* one request for a process on a channel; callers are given what they     *)
(* asked for, and the answers to their own requests; and callers in turns  *)
(* see nothing fail.  For any number of callers and all scripts, however   *)
(* their calls interleave.                                                 *)
(***************************************************************************)
EXTENDS Requests, SequenceTheorems, FiniteSetTheorems, WellFoundedInduction, TLAPS

-------------------------------------------------------------------------------
(* Facts about the operators. *)

\* A set of natural numbers that is not empty has a least element.
LEMMA MinIn ==
    ASSUME NEW S \in SUBSET Nat, S # {}
    PROVE  Min(S) \in S /\ \A y \in S : Min(S) <= y
<1> DEFINE R == {ss \in Nat \X Nat : ss[1] < ss[2]}
<1>1. IsWellFoundedOn(R, Nat)
  BY NatLessThanWellFounded DEF OpToRel
<1>2. \E x \in S : \A y \in S : ~(<<y, x>> \in R)
  <2> HIDE DEF R
  <2> QED BY <1>1, WFMin
<1>3. \E x \in S : \A y \in S : x <= y
  <2>1. PICK x \in S : \A y \in S : ~(<<y, x>> \in R)
    BY <1>2
  <2>2. ASSUME NEW y \in S PROVE x <= y
    <3>1. <<y, x>> \notin R
      BY <2>1
    <3> QED BY <3>1
  <2> QED BY <2>2
<1> QED
  BY <1>3 DEF Min

\* Removing an element of a sequence leaves the others in their order.
LEMMA RemoveAtIs ==
    ASSUME NEW R, NEW s \in Seq(R), NEW i \in DOMAIN s
    PROVE  /\ RemoveAt(s, i) \in Seq(R)
           /\ Len(RemoveAt(s, i)) = Len(s) - 1
           /\ \A j \in DOMAIN RemoveAt(s, i) :
                 RemoveAt(s, i)[j] = IF j < i THEN s[j] ELSE s[j + 1]
<1> DEFINE a == SubSeq(s, 1, i - 1)
           b == SubSeq(s, i + 1, Len(s))
<1>1. i \in 1..Len(s) /\ Len(s) \in Nat
  OBVIOUS
<1>2. a \in Seq(R) /\ Len(a) = i - 1 /\ \A j \in 1..(i - 1) : a[j] = s[j]
  BY <1>1
<1>3. b \in Seq(R) /\ Len(b) = Len(s) - i /\ \A j \in 1..(Len(s) - i) : b[j] = s[i + j]
  BY <1>1
<1>4. RemoveAt(s, i) = a \o b
  BY DEF RemoveAt
<1> HIDE DEF a, b
<1>5. a \o b \in Seq(R) /\ Len(a \o b) = Len(s) - 1 /\ DOMAIN (a \o b) = 1..(Len(s) - 1)
  BY <1>1, <1>2, <1>3
<1>6. \A k \in 1..(Len(a) + Len(b)) :
         (a \o b)[k] = IF k <= Len(a) THEN a[k] ELSE b[k - Len(a)]
  BY <1>2, <1>3, ConcatProperties
<1>7. ASSUME NEW j \in 1..(Len(s) - 1)
      PROVE  (a \o b)[j] = IF j < i THEN s[j] ELSE s[j + 1]
  <2>1. CASE j < i
    BY <1>1, <1>2, <1>3, <1>6, <2>1
  <2>2. CASE ~(j < i)
    <3>1. j \in 1..(Len(a) + Len(b)) /\ ~(j <= Len(a)) /\ j - (i - 1) \in 1..(Len(s) - i)
      BY <1>1, <1>2, <1>3, <2>2
    <3>2. (a \o b)[j] = b[j - Len(a)]
      BY <1>6, <3>1
    <3>3. i + (j - (i - 1)) = j + 1
      BY <1>1
    <3>4. b[j - (i - 1)] = s[i + (j - (i - 1))]
      BY <1>3, <3>1
    <3> QED BY <1>2, <2>2, <3>2, <3>3, <3>4
  <2> QED BY <2>1, <2>2
<1> QED
  BY <1>4, <1>5, <1>7

-------------------------------------------------------------------------------
(***************************************************************************)
(* The inductive invariant.  Ids are never used again because all that are *)
(* in use are below next_channel (OpenInv); and there are enough of them:  *)
(* each opening that was begun ends the first operation of some caller.    *)
(* A request of a channel names the server's end of it (PacketInv), and    *)
(* these ends differ, as the server knows for each the client's id         *)
(* (RemoteInv).  The machine of an execute never becomes idle again, so    *)
(* the packet that it made is the only one (PacketInv).                    *)
(***************************************************************************)

Kinds == Openings \cup Requests
By == {<<>>} \cup (Callers \X Nat)
Pkt == [by : By, m : Machine, type : Kinds \cup {"none"}, dest : Callers \cup {NoDest},
        ch : Int \cup {NoChan}]
Reply == [type : {"OPEN_CONFIRMATION", "OPEN_FAILURE", "REQUEST_SUCCESS", "REQUEST_FAILURE",
                  "CHANNEL_SUCCESS", "CHANNEL_FAILURE"},
          ch : Ids \cup {NoChan}, remote : Nat, to : Pkt]
Outcome == [op : Kinds,
            res : {"OK", "DENIED", "BAD_USE", "SOCKET_SEND", "SOCKET_RECV", "TIMEOUT", "NONE"},
            own : BOOLEAN, clean : BOOLEAN]

TypeInv ==
    /\ TypeOK
    /\ todo \in [Callers -> Seq(Kinds)]
    /\ turn \in Turns \cup {NoCall}
    /\ open_channel \in [id : Ids \cup {NoChan}, type : Kinds \cup {"none"}]
    /\ direct_message \in Callers \cup {NoDest}
    /\ slot \in Pkt \cup {NoPacket}
    /\ packets \in Seq(Reply) /\ incoming \in Seq(Reply)
    /\ pending \in Seq(Pkt) /\ served \subseteq Pkt
    /\ peer \in Seq(Ids)
    /\ asked \in [Machine -> By]
    /\ results \in [Callers -> Seq(Outcome)]

\* How far each caller is in its script.
ScriptInv ==
    \A c \in Callers :
        IF results[c] = <<>>
          THEN todo[c] = use.script[c] /\ mine[c] = NoChan
          ELSE /\ \A i \in DOMAIN todo[c] : todo[c][i] \in Requests
               /\ todo[c] # <<>> => mine[c] \in Ids

\* The machine of the call that is running.
TurnInv ==
    turn # NoCall =>
        /\ todo[turn.who] # <<>>
        /\ nb[MachineOf(turn.who)] = IF turn.at = "send" THEN "created" ELSE "sent"
        /\ Op(turn.who) = "direct" => direct_message \in Callers

\* The opening that is under way.
OpenK == [op |-> "open", id |-> NoChan]

\* The callers whose opening has ended, and the one who began the present one.
Opened == {c \in Callers : results[c] # <<>>}
Opener == IF nb[OpenK] = "idle" THEN {} ELSE {asked[OpenK][1]}

OpenInv ==
    /\ ChannelsOwned
    /\ nb[OpenK] = "idle" <=> open_channel.id = NoChan
    /\ \A i \in channels : i < next_channel
    /\ Opener \subseteq Callers \ Opened
    /\ \A c \in Opener : use.script[c][1] \in {"session", "direct"}
    /\ next_channel <= Cardinality(Opened \cup Opener)

\* The server's ends of the channels.
RemoteInv ==
    /\ \A s \in {packets, incoming} : \A i \in DOMAIN s :
          s[i].type = "OPEN_CONFIRMATION" =>
             s[i].remote \in DOMAIN peer /\ peer[s[i].remote] = s[i].ch
    /\ \A c \in Callers : mine[c] # NoChan =>
          remote[mine[c]] \in DOMAIN peer /\ peer[remote[mine[c]]] = mine[c]

\* A packet that was made.
PacketOK(p) ==
    /\ p.m.op = "open" => p.ch \in Ids
    /\ p.m.op = "listen" => p.ch = NoChan
    /\ p.m.op \in Requests => p.ch \in DOMAIN peer /\ peer[p.ch] = p.m.id
    /\ p.m.op = "exec" => /\ nb[p.m] # "idle" /\ p.by = asked[p.m]
                          /\ p.type = "exec" /\ p.dest = NoDest

PacketInv ==
    /\ slot # NoPacket => PacketOK(slot)
    /\ \A i \in DOMAIN pending : PacketOK(pending[i])
    /\ \A p \in served : PacketOK(p)

IInv == TypeInv /\ ScriptInv /\ TurnInv /\ OpenInv /\ RemoteInv /\ PacketInv

\* The machines of the session.
LEMMA Machines ==
    /\ OpenK \in Machine /\ [op |-> "listen", id |-> NoChan] \in Machine
    /\ \A o \in Requests, i \in Ids : [op |-> o, id |-> i] \in Machine
    /\ \A i \in Ids : i # NoChan
<1>1. Ids \subseteq Nat
  BY DEF Ids
<1> QED
  BY <1>1, RequestsAssumption DEF Machine, OpenK, Requests

\* A script begins with an opening; requests follow that of a channel.
LEMMA Scripts ==
    ASSUME IInv, NEW c \in Callers, use.script[c] # <<>>
    PROVE  /\ use.script[c][1] \in Openings
           /\ \A i \in 2..Len(use.script[c]) : /\ use.script[c][1] # "listen"
                                               /\ use.script[c][i] \in Requests
<1>1. use \in Uses
  BY DEF IInv, TypeInv, TypeOK
<1> QED
  BY <1>1, RequestsAssumption

\* What a caller is at.
LEMMA MachineIs ==
    ASSUME IInv, NEW c \in Callers, todo[c] # <<>>
    PROVE  /\ MachineOf(c) \in Machine /\ Op(c) \in Kinds
           /\ Op(c) \in {"session", "direct"} => MachineOf(c) = OpenK
           /\ Op(c) = "listen" => MachineOf(c) = [op |-> "listen", id |-> NoChan]
           /\ Op(c) \in Openings => results[c] = <<>> /\ mine[c] = NoChan
           /\ Op(c) \in Requests => /\ MachineOf(c) = [op |-> Op(c), id |-> mine[c]]
                                    /\ mine[c] \in Ids /\ results[c] # <<>>
           /\ MachineOf(c).op = "open" <=> Op(c) \in {"session", "direct"}
           /\ MachineOf(c).op = "listen" <=> Op(c) = "listen"
           /\ MachineOf(c).op \in Requests <=> Op(c) \in Requests
           /\ (MachineOf(c).op \in Requests => MachineOf(c).op = Op(c))
<1>1. Op(c) \in Kinds /\ Op(c) = todo[c][1] /\ todo[c] \in Seq(Kinds) /\ 1 \in DOMAIN todo[c]
  BY DEF IInv, TypeInv, Op
<1>2. Op(c) \in Openings => results[c] = <<>> /\ mine[c] = NoChan
  BY <1>1 DEF IInv, ScriptInv, Openings, Requests
<1>3. Op(c) \in Requests => mine[c] \in Ids /\ results[c] # <<>>
  BY <1>1, Scripts DEF IInv, ScriptInv, Openings, Requests
<1> QED
  BY <1>1, <1>2, <1>3, Machines DEF MachineOf, Kinds, Openings, Requests, OpenK

\* The end of an operation: the caller is one step further in its script.
LEMMA FinishInv ==
    ASSUME IInv, NEW c \in Callers, todo[c] # <<>>, use' = use,
           NEW res \in {"OK", "DENIED", "BAD_USE", "SOCKET_SEND", "SOCKET_RECV",
                        "TIMEOUT", "NONE"},
           NEW own \in BOOLEAN, Finish(c, res, own),
           mine' \in [Callers -> Ids \cup {NoChan}],
           \A d \in Callers \ {c} : mine'[d] = mine[d],
           IF Op(c) \in {"session", "direct"} /\ res = "OK" THEN mine'[c] \in Ids
                                                            ELSE mine'[c] = mine[c]
    PROVE  /\ todo' \in [Callers -> Seq(Kinds)] /\ results' \in [Callers -> Seq(Outcome)]
           /\ turn' = NoCall
           /\ direct_state' \in {"idle", "created"}
           /\ direct_message' \in Callers \cup {NoDest}
           /\ direct_state' = "created" => direct_message' \in Callers
           /\ ScriptInv' /\ Opened' = Opened \cup {c}
<1>1. /\ results' = [results EXCEPT ![c] =
                        Append(@, [op |-> Op(c), res |-> res, own |-> own,
                                   clean |-> MachineOf(c).id \notin given_up])]
      /\ todo' = [todo EXCEPT ![c] =
                     IF Op(c) \in Openings /\ res # "OK" THEN <<>> ELSE Tail(todo[c])]
      /\ turn' = NoCall /\ DirectEnds(c)
  BY DEF Finish
<1>2. /\ todo[c] \in Seq(Kinds) /\ results[c] \in Seq(Outcome)
      /\ todo \in [Callers -> Seq(Kinds)] /\ results \in [Callers -> Seq(Outcome)]
      /\ Tail(todo[c]) \in Seq(Kinds) /\ Op(c) \in Kinds
      /\ Len(Tail(todo[c])) = Len(todo[c]) - 1
      /\ \A i \in 1..Len(Tail(todo[c])) : Tail(todo[c])[i] = todo[c][i + 1]
  BY MachineIs DEF IInv, TypeInv
<1>3. [op |-> Op(c), res |-> res, own |-> own, clean |-> MachineOf(c).id \notin given_up]
         \in Outcome
  BY <1>2 DEF Outcome
<1>4. results'[c] # <<>> /\ results' \in [Callers -> Seq(Outcome)]
  <2> DEFINE e == [op |-> Op(c), res |-> res, own |-> own,
                   clean |-> MachineOf(c).id \notin given_up]
  <2>1. Append(results[c], e) \in Seq(Outcome) /\ Append(results[c], e) # <<>>
    <3>1. e \in Outcome
      BY <1>3
    <3> HIDE DEF e
    <3> QED BY <1>2, <3>1, AppendProperties
  <2> QED BY <1>1, <1>2, <2>1
<1>5. todo' \in [Callers -> Seq(Kinds)]
  BY <1>1, <1>2
<1>6. Opened' = Opened \cup {c} /\ \A d \in Callers \ {c} : results'[d] = results[d]
  BY <1>1, <1>2, <1>4 DEF Opened
<1>7. \A i \in DOMAIN todo'[c] : todo'[c][i] \in Requests
  <2>1. \A i \in 2..Len(todo[c]) : todo[c][i] \in Requests
    <3>1. CASE results[c] = <<>>
      BY <3>1, Scripts DEF IInv, ScriptInv
    <3>2. CASE results[c] # <<>>
      BY <3>2, <1>2 DEF IInv, ScriptInv
    <3> QED BY <3>1, <3>2
  <2>2. CASE todo'[c] = <<>>
    BY <2>2
  <2>3. CASE todo'[c] = Tail(todo[c])
    BY <1>2, <2>1, <2>3
  <2> QED BY <1>1, <1>2, <2>2, <2>3
<1>8. todo'[c] # <<>> => mine'[c] \in Ids
  <2>1. CASE Op(c) \in Requests
    BY <2>1, MachineIs DEF Requests, Openings
  <2>2. CASE Op(c) \in Openings /\ res # "OK"
    BY <1>1, <1>2, <2>2
  <2>3. CASE Op(c) \in {"session", "direct"} /\ res = "OK"
    BY <2>3
  <2>4. CASE Op(c) = "listen" /\ res = "OK"
    <3>1. results[c] = <<>> /\ todo[c] = use.script[c] /\ todo[c][1] = "listen"
      BY <2>4, MachineIs DEF IInv, ScriptInv, Op, Openings
    <3>2. Len(todo[c]) = 1
      <4>1. \A i \in 2..Len(todo[c]) : todo[c][1] # "listen"
        BY <3>1, Scripts
      <4>2. Len(todo[c]) \in Nat /\ Len(todo[c]) # 0
        BY <1>2, EmptySeq
      <4>3. ~(2 <= Len(todo[c]))
        BY <3>1, <4>1, <4>2
      <4> DEFINE n == Len(todo[c])
      <4>4. n \in Nat /\ n # 0 /\ ~(2 <= n)
        BY <4>2, <4>3
      <4> HIDE DEF n
      <4>5. n = 1
        BY <4>4
      <4> QED BY <4>5 DEF n
    <3>3. Tail(todo[c]) = <<>>
      <4> DEFINE t == Tail(todo[c])
      <4>1. t \in Seq(Kinds) /\ Len(t) = 0
        BY <1>2, <3>2
      <4> HIDE DEF t
      <4>2. t = <<>>
        BY <4>1, EmptySeq
      <4> QED BY <4>2 DEF t
    <3> QED BY <1>1, <1>2, <3>3
  <2> QED BY <1>2, <2>1, <2>2, <2>3, <2>4 DEF Kinds, Openings
<1>9. ScriptInv'
  BY <1>1, <1>2, <1>4, <1>6, <1>7, <1>8 DEF IInv, ScriptInv
<1> QED
  BY <1>1, <1>4, <1>5, <1>6, <1>9 DEF DirectEnds, directVars, IInv, TypeInv, TypeOK

-------------------------------------------------------------------------------
(* What a step leaves alone. *)

\* The server's channels keep their numbers.
LEMMA PeerGrows ==
    ASSUME IInv, peer' = peer \/ \E i \in Ids : peer' = Append(peer, i)
    PROVE  /\ peer' \in Seq(Ids)
           /\ \A r \in DOMAIN peer : r \in DOMAIN peer' /\ peer'[r] = peer[r]
<1>1. peer \in Seq(Ids)
  BY DEF IInv, TypeInv
<1>2. ASSUME NEW i \in Ids, peer' = Append(peer, i)
      PROVE  /\ peer' \in Seq(Ids) /\ Len(peer') = Len(peer) + 1
             /\ \A r \in 1..Len(peer) : peer'[r] = peer[r]
  BY <1>1, <1>2, AppendProperties
<1> QED
  BY <1>1, <1>2

\* A packet stays what it is: the server forgets no channel, and the machine
\* of an execute does not begin again.
LEMMA PacketStays ==
    ASSUME IInv, NEW p \in Pkt, PacketOK(p),
           peer' = peer \/ \E i \in Ids : peer' = Append(peer, i),
           \A k \in Machine : k.op = "exec" /\ nb[k] # "idle" =>
                              nb'[k] # "idle" /\ asked'[k] = asked[k]
    PROVE  PacketOK(p)'
<1>1. p.m \in Machine
  BY DEF Pkt
<1>2. \A r \in DOMAIN peer : r \in DOMAIN peer' /\ peer'[r] = peer[r]
  BY PeerGrows
<1> QED
  BY <1>1, <1>2 DEF PacketOK

\* The ends of the channels, when no reply is taken.
LEMMA RemoteStays ==
    ASSUME IInv, UNCHANGED <<packets, incoming, peer, mine, remote>>
    PROVE  RemoteInv'
  BY DEF IInv, RemoteInv

\* The opening under way, when the step is none of an opening.
LEMMA OpenStays ==
    ASSUME IInv, UNCHANGED <<use, next_channel, channels, open_channel, mine>>,
           nb'[OpenK] = nb[OpenK] \/ (nb[OpenK] # "idle" /\ nb'[OpenK] # "idle"),
           asked'[OpenK] = asked[OpenK],
           Opened' = Opened
    PROVE  OpenInv'
  BY DEF IInv, OpenInv, ChannelsOwned, Opener

\* The packet that a call makes.
LEMMA PacketMade ==
    ASSUME IInv, NEW c \in Callers, In(c, "send")
    PROVE  /\ Packet(c) \in Pkt /\ PacketOK(Packet(c))
           /\ todo[c] # <<>> /\ nb[MachineOf(c)] = "created"
           /\ Op(c) = "direct" => direct_message \in Callers
<1>1. /\ todo[c] # <<>> /\ nb[MachineOf(c)] = "created"
      /\ Op(c) = "direct" => direct_message \in Callers
  <2>1. [who |-> c, at |-> "send"] \in Turns
    BY DEF Turns
  <2>2. turn # NoCall /\ turn.who = c /\ turn.at = "send"
    BY <2>1, RequestsAssumption DEF In
  <2> QED BY <2>2 DEF IInv, TurnInv
<1> DEFINE k == MachineOf(c)
<1>2. /\ k \in Machine /\ Op(c) \in Kinds
      /\ k.op = "open" <=> Op(c) \in {"session", "direct"}
      /\ k.op = "open" => k = OpenK
      /\ k.op = "listen" <=> Op(c) = "listen"
      /\ k.op \in Requests <=> Op(c) \in Requests
      /\ k.op \in Requests => k.op = Op(c) /\ k.id = mine[c] /\ mine[c] \in Ids
      /\ k.op \in {"open", "listen"} \cup Requests
  BY <1>1, MachineIs DEF Kinds, Openings
<1>3. asked[k] \in By
  BY <1>2 DEF IInv, TypeInv
<1>4. k.op = "open" => open_channel.id \in Ids
  BY <1>1, <1>2 DEF IInv, OpenInv, TypeInv
<1>5. k.op \in Requests => /\ remote[mine[c]] \in Int /\ remote[mine[c]] \in DOMAIN peer
                           /\ peer[remote[mine[c]]] = mine[c]
  BY <1>2, Machines DEF IInv, RemoteInv, TypeInv, TypeOK
<1>6. open_channel.type \in Kinds \cup {"none"} /\ direct_message \in Callers \cup {NoDest}
  BY DEF IInv, TypeInv
<1>7. /\ Packet(c).by = asked[k] /\ Packet(c).m = k
      /\ Packet(c).type = IF k.op = "open" THEN open_channel.type ELSE k.op
      /\ Packet(c).dest = CASE Op(c) = "direct" -> direct_message
                            [] Op(c) = "listen" -> c
                            [] OTHER -> NoDest
      /\ Packet(c).ch = CASE k.op = "open" -> open_channel.id
                          [] k.op = "listen" -> NoChan
                          [] OTHER -> remote[mine[c]]
      /\ Packet(c) = [by |-> Packet(c).by, m |-> Packet(c).m, type |-> Packet(c).type,
                      dest |-> Packet(c).dest, ch |-> Packet(c).ch]
  BY DEF Packet
<1> HIDE DEF k
<1>8. /\ Packet(c).type \in Kinds \cup {"none"}
      /\ Packet(c).dest \in Callers \cup {NoDest}
      /\ Packet(c).ch \in Int \cup {NoChan}
  <2>1. Ids \subseteq Int
    BY DEF Ids
  <2> QED BY <1>2, <1>4, <1>5, <1>6, <1>7, <2>1 DEF Kinds, Openings, Requests
<1>9. Packet(c) \in Pkt
  BY <1>2, <1>3, <1>7, <1>8 DEF Pkt
<1>10. PacketOK(Packet(c))
  BY <1>1, <1>2, <1>4, <1>5, <1>7 DEF PacketOK, Requests, k
<1> QED
  BY <1>1, <1>9, <1>10

-------------------------------------------------------------------------------
(* Steps that begin or end no operation. *)

\* Where a call is, from turn.
LEMMA InTurn ==
    ASSUME IInv, NEW c \in Callers, NEW at \in {"send", "ask", "read", "again"}, In(c, at)
    PROVE  /\ turn # NoCall /\ turn.who = c /\ turn.at = at
           /\ todo[c] # <<>> /\ MachineOf(c) \in Machine
           /\ nb[MachineOf(c)] = IF at = "send" THEN "created" ELSE "sent"
           /\ Op(c) = "direct" => direct_message \in Callers
<1>1. [who |-> c, at |-> at] \in Turns
  BY DEF Turns
<1>2. turn # NoCall /\ turn.who = c /\ turn.at = at
  BY <1>1, RequestsAssumption DEF In
<1>3. /\ todo[c] # <<>>
      /\ nb[MachineOf(c)] = IF at = "send" THEN "created" ELSE "sent"
      /\ Op(c) = "direct" => direct_message \in Callers
  BY <1>2 DEF IInv, TurnInv
<1> QED
  BY <1>2, <1>3, MachineIs

\* The call goes on after it has sent or read.
LEMMA GoesOn ==
    ASSUME IInv, NEW c \in Callers, NEW at \in {"ask", "read", "again"}, Go(c, at),
           NEW was \in {"ask", "read", "again"}, In(c, was),
           UNCHANGED <<use, todo, mine, libVars, nb, directVars, slot, pending,
                       peer, served, asked, results, lost>>,
           packets' \in Seq(Reply), incoming' \in Seq(Reply), RemoteInv'
    PROVE  IInv'
<1> USE DEF libVars, directVars
<1>1. turn' \in Turns /\ turn'.who = c /\ turn'.at = at
  BY DEF Go, Turns
<1>2. /\ todo[c] # <<>> /\ nb[MachineOf(c)] = "sent"
      /\ Op(c) = "direct" => direct_message \in Callers
  BY InTurn
<1>3. TypeInv'
  BY <1>1 DEF IInv, TypeInv, TypeOK
<1>4. ScriptInv'
  BY DEF IInv, ScriptInv
<1>5. TurnInv'
  BY <1>1, <1>2 DEF TurnInv, MachineOf, Op
<1>6. OpenInv'
  BY OpenStays DEF Opened
<1>7. PacketInv'
  BY DEF IInv, PacketInv, PacketOK
<1> QED
  BY <1>3, <1>4, <1>5, <1>6, <1>7 DEF IInv

\* AskFindsNone and Read.
LEMMA ReadInv ==
    ASSUME IInv, NEW c \in Callers, AskFindsNone(c) \/ Read(c)
    PROVE  IInv'
<1>1. CASE AskFindsNone(c)
  <2>1. RemoteInv'
    BY <1>1, RemoteStays DEF AskFindsNone, libVars, serverVars
  <2>2. packets \in Seq(Reply) /\ incoming \in Seq(Reply)
    BY DEF IInv, TypeInv
  <2> QED BY <1>1, <2>1, <2>2, GoesOn DEF AskFindsNone, serverVars
<1>2. CASE Read(c)
  <2>1. /\ packets' = Append(packets, Head(incoming)) /\ incoming' = Tail(incoming)
        /\ incoming # <<>> /\ UNCHANGED <<mine, remote, peer>>
    BY <1>2 DEF Read, libVars
  <2>2. packets \in Seq(Reply) /\ incoming \in Seq(Reply)
    BY DEF IInv, TypeInv
  <2>3. /\ Head(incoming) \in Reply /\ Head(incoming) = incoming[1] /\ 1 \in DOMAIN incoming
        /\ Tail(incoming) \in Seq(Reply)
        /\ \A i \in DOMAIN Tail(incoming) : /\ i + 1 \in DOMAIN incoming
                                            /\ Tail(incoming)[i] = incoming[i + 1]
    BY <2>1, <2>2
  <2>4. /\ packets' \in Seq(Reply)
        /\ \A i \in DOMAIN packets' : \/ i \in DOMAIN packets /\ packets'[i] = packets[i]
                                      \/ packets'[i] = incoming[1]
    <3>1. /\ packets' \in Seq(Reply) /\ Len(packets') = Len(packets) + 1
          /\ \A i \in 1..Len(packets) : packets'[i] = packets[i]
          /\ packets'[Len(packets) + 1] = Head(incoming)
      BY <2>1, <2>2, <2>3, AppendProperties
    <3> QED BY <2>2, <2>3, <3>1
  <2>5. RemoteInv'
    BY <2>1, <2>3, <2>4 DEF IInv, RemoteInv
  <2>6. \E at \in {"ask", "read", "again"} : Go(c, at)
    BY <1>2 DEF Read
  <2> QED BY <1>2, <2>1, <2>3, <2>4, <2>5, <2>6, GoesOn DEF Read
<1> QED
  BY <1>1, <1>2

\* EAGAIN, with the packet of this call in the transport or not.
LEMMA WouldBlockInv ==
    ASSUME IInv, NEW c \in Callers, NEW at \in {"send", "read"}, In(c, at), WouldBlock(c),
           UNCHANGED <<use, mine, libVars, nb, packets, pending, incoming, peer,
                       served, lost, asked>>,
           slot' = slot \/ (at = "send" /\ slot' = Packet(c))
    PROVE  IInv'
<1> USE DEF libVars
<1>1. /\ turn' = NoCall /\ UNCHANGED <<direct_message, todo, results>>
      /\ direct_state' = IF Op(c) = "direct" THEN "created" ELSE direct_state
      /\ Op(c) = "direct" => direct_message \in Callers
  BY InTurn DEF WouldBlock
<1>2. slot' # NoPacket /\ slot' # slot => slot' \in Pkt /\ PacketOK(slot')
  BY PacketMade
<1>3. slot' \in Pkt \cup {NoPacket}
  BY <1>2 DEF IInv, TypeInv
<1>4. TypeInv'
  BY <1>1, <1>3 DEF IInv, TypeInv, TypeOK
<1>5. ScriptInv' /\ TurnInv' /\ RemoteInv'
  BY <1>1, RemoteStays DEF IInv, ScriptInv, TurnInv
<1>6. OpenInv'
  BY <1>1, OpenStays DEF Opened
<1>7. \A p \in Pkt : PacketOK(p) => PacketOK(p)'
  BY PacketStays
<1>8. PacketInv'
  BY <1>2, <1>3, <1>7 DEF IInv, PacketInv, TypeInv
<1> QED
  BY <1>4, <1>5, <1>6, <1>8 DEF IInv

\* The packet is sent.
LEMMA SentInv ==
    ASSUME IInv, NEW c \in Callers, Sent(c)
    PROVE  IInv'
<1> USE DEF libVars, directVars, serverVars
<1> DEFINE p == IF Held(c) THEN slot ELSE Packet(c)
<1>1. /\ In(c, "send") /\ pending' = Append(pending, p) /\ slot' = NoPacket
      /\ nb' = [nb EXCEPT ![MachineOf(c)] = "sent"] /\ Go(c, "ask")
      /\ UNCHANGED <<use, todo, mine, libVars, directVars, packets, serverVars, asked, results>>
  BY DEF Sent
<1>2. /\ todo[c] # <<>> /\ MachineOf(c) \in Machine /\ nb[MachineOf(c)] = "created"
      /\ Op(c) = "direct" => direct_message \in Callers
  BY <1>1, InTurn
<1>3. p \in Pkt /\ PacketOK(p)
  BY <1>1, PacketMade DEF Held, IInv, TypeInv, PacketInv
<1> HIDE DEF p
<1>4. turn' \in Turns /\ turn'.who = c /\ turn'.at = "ask"
  BY <1>1 DEF Go, Turns
<1>5. /\ nb' \in [Machine -> {"idle", "created", "sent", "end"}]
      /\ \A k \in Machine : nb'[k] = nb[k] \/ (nb[k] # "idle" /\ nb'[k] = "sent")
      /\ nb'[MachineOf(c)] = "sent"
  BY <1>1, <1>2 DEF IInv, TypeInv, TypeOK
<1>6. /\ pending' \in Seq(Pkt)
      /\ \A i \in DOMAIN pending' : \/ i \in DOMAIN pending /\ pending'[i] = pending[i]
                                    \/ pending'[i] = p
  <2>1. pending \in Seq(Pkt)
    BY DEF IInv, TypeInv
  <2>2. /\ pending' \in Seq(Pkt) /\ Len(pending') = Len(pending) + 1
        /\ \A i \in 1..Len(pending) : pending'[i] = pending[i]
        /\ pending'[Len(pending) + 1] = p
    BY <1>1, <1>3, <2>1, AppendProperties
  <2> QED BY <2>1, <2>2
<1>7. TypeInv'
  BY <1>1, <1>4, <1>5, <1>6 DEF IInv, TypeInv, TypeOK
<1>8. ScriptInv' /\ RemoteInv'
  BY <1>1, RemoteStays DEF IInv, ScriptInv
<1>9. TurnInv'
  BY <1>1, <1>2, <1>4, <1>5 DEF TurnInv, MachineOf, Op
<1>10. OpenInv'
  BY <1>1, <1>5, Machines, OpenStays DEF Opened
<1>11. \A q \in Pkt : PacketOK(q) => PacketOK(q)'
  BY <1>1, <1>5, PacketStays
<1>12. PacketInv'
  BY <1>1, <1>3, <1>6, <1>11 DEF IInv, PacketInv, TypeInv
<1> QED
  BY <1>7, <1>8, <1>9, <1>10, <1>12 DEF IInv

-------------------------------------------------------------------------------
(* A call begins. *)

\* Before the first call nothing is under way.
LEMMA InitInv == Init => IInv
<1> SUFFICES ASSUME Init PROVE IInv
  OBVIOUS
<1> USE DEF Init
<1>1. use \in Uses /\ use.script \in [Callers -> Seq(Kinds)]
  BY RequestsAssumption DEF Kinds
<1>2. Ids \subseteq Nat /\ NoChan \notin Ids
  BY Machines DEF Ids
<1>3. TypeInv
  <2>1. TypeOK
    <3>1. remote \in [Ids -> Int] /\ mine \in [Callers -> Ids \cup {NoChan}]
      OBVIOUS
    <3>2. nb \in [Machine -> {"idle", "created", "sent", "end"}] /\ \A k \in Machine : nb[k] # "end"
      OBVIOUS
    <3> QED BY <1>1, <3>1, <3>2 DEF TypeOK
  <2>2. open_channel \in [id : Ids \cup {NoChan}, type : Kinds \cup {"none"}]
    BY DEF NoOpening
  <2>3. asked \in [Machine -> By] /\ results \in [Callers -> Seq(Outcome)]
    BY DEF By
  <2> QED BY <1>1, <2>1, <2>2, <2>3 DEF TypeInv
<1>4. ScriptInv /\ TurnInv
  BY DEF ScriptInv, TurnInv
<1>5. Opened = {} /\ Opener = {}
  BY Machines DEF Opened, Opener
<1>6. OpenInv
  <2>1. Cardinality(Opened \cup Opener) = 0
    BY <1>5, FS_EmptySet
  <2>2. {mine[c] : c \in Callers} \subseteq {NoChan}
    OBVIOUS
  <2> QED BY <1>5, <2>1, <2>2, Machines DEF OpenInv, ChannelsOwned, NoOpening
<1>7. RemoteInv /\ PacketInv
  BY DEF RemoteInv, PacketInv
<1> QED
  BY <1>3, <1>4, <1>6, <1>7 DEF IInv

\* A new channel gets an id that no channel has had, and there is one left.
LEMMA NewId ==
    ASSUME IInv, NEW c \in Callers, todo[c] # <<>>, Op(c) \in {"session", "direct"},
           nb[OpenK] = "idle"
    PROVE  /\ NextId = next_channel /\ next_channel \in Ids
           /\ c \notin Opened
           /\ next_channel + 1 <= Cardinality(Opened \cup {c})
<1>1. /\ next_channel \in Nat /\ channels \subseteq Nat /\ \A i \in channels : i < next_channel
      /\ next_channel <= Cardinality(Opened \cup Opener)
  BY DEF IInv, TypeInv, TypeOK, OpenInv, Ids
<1>2. NextId = next_channel
  <2> DEFINE S == {next_channel} \cup channels
  <2>1. next_channel \in S /\ \A y \in S : next_channel >= y
    BY <1>1
  <2>2. \A x \in S : (\A y \in S : x >= y) => x = next_channel
    BY <1>1
  <2>3. NextId = CHOOSE x \in S : \A y \in S : x >= y
    BY DEF NextId, Max
  <2> HIDE DEF S
  <2> QED BY <2>1, <2>2, <2>3
<1>3. c \notin Opened /\ Opener = {}
  BY MachineIs DEF Opened, Opener, Openings
<1>4. /\ IsFiniteSet(Opened) /\ IsFiniteSet(Opened \cup {c})
      /\ Cardinality(Opened \cup {c}) = Cardinality(Opened) + 1
      /\ Cardinality(Opened \cup {c}) <= Cardinality(Callers)
      /\ Cardinality(Opened) \in Nat /\ Cardinality(Callers) \in Nat
  <2>1. IsFiniteSet(Callers) /\ Opened \subseteq Callers /\ Opened \cup {c} \subseteq Callers
    BY RequestsAssumption DEF Opened
  <2>2. IsFiniteSet(Opened)
    BY <2>1, FS_Subset
  <2> QED BY <1>3, <2>1, <2>2, FS_Subset, FS_AddElement, FS_CardinalityType
<1>5. Opened \cup Opener = Opened
  BY <1>3
<1> QED
  BY <1>1, <1>2, <1>3, <1>4, <1>5 DEF Ids

\* A call: an idle machine makes its packet, one under way is resumed.
LEMMA CallInv ==
    ASSUME IInv, NEW c \in Callers, Call(c)
    PROVE  IInv'
<1> USE DEF libVars, serverVars
<1> DEFINE k == MachineOf(c)
           idle == nb[k] = "idle"
<1>1. /\ todo[c] # <<>> /\ nb[k] # "end"
      /\ direct_message' = IF Op(c) = "direct" /\ direct_state = "idle"
                              THEN c ELSE direct_message
      /\ IF idle /\ k.op = "open"
           THEN /\ next_channel' = NextId + 1
                /\ channels' = channels \cup {NextId}
                /\ open_channel' = [id |-> NextId, type |-> Op(c)]
           ELSE UNCHANGED <<next_channel, channels, open_channel>>
      /\ nb' = IF idle THEN [nb EXCEPT ![k] = "created"] ELSE nb
      /\ asked' = IF idle THEN [asked EXCEPT ![k] = <<c, Len(results[c])>>] ELSE asked
      /\ Go(c, IF nb[k] = "sent" THEN "ask" ELSE "send")
      /\ UNCHANGED <<use, todo, mine, remote, direct_state, slot, packets, pending,
                     incoming, peer, served, lost, results>>
  BY DEF Call
<1>2. /\ k \in Machine /\ Op(c) \in Kinds
      /\ k.op = "open" <=> Op(c) \in {"session", "direct"}
      /\ k.op = "open" => k = OpenK
  BY <1>1, MachineIs
<1>3. nb[k] \in {"idle", "created", "sent"}
  BY <1>1, <1>2 DEF IInv, TypeInv, TypeOK
<1>4. MachineOf(c)' = k /\ Op(c)' = Op(c) /\ Opened' = Opened
  BY <1>1 DEF MachineOf, Op, Opened
<1> HIDE DEF k
<1>5. idle /\ k.op = "open" =>
         /\ NextId = next_channel /\ next_channel \in Ids /\ c \notin Opened
         /\ next_channel + 1 <= Cardinality(Opened \cup {c})
  BY <1>1, <1>2, NewId
<1>6. /\ nb' \in [Machine -> {"idle", "created", "sent", "end"}]
      /\ nb'[k] = IF idle THEN "created" ELSE nb[k]
      /\ \A j \in Machine : j # k => nb'[j] = nb[j]
  BY <1>1, <1>2 DEF IInv, TypeInv, TypeOK
<1>7. /\ asked' \in [Machine -> By]
      /\ asked'[k] = IF idle THEN <<c, Len(results[c])>> ELSE asked[k]
      /\ \A j \in Machine : j # k => asked'[j] = asked[j]
  <2>1. asked \in [Machine -> By] /\ Len(results[c]) \in Nat
    BY DEF IInv, TypeInv
  <2>2. <<c, Len(results[c])>> \in By
    BY <2>1 DEF By
  <2> QED BY <1>1, <1>2, <2>1, <2>2
<1>8. turn' \in Turns /\ turn'.who = c /\ turn'.at = IF nb[k] = "sent" THEN "ask" ELSE "send"
  BY <1>1 DEF Go, Turns
<1>9. /\ direct_message' \in Callers \cup {NoDest}
      /\ direct_state = "created" => direct_message' \in Callers
      /\ Op(c) = "direct" => direct_message' \in Callers
  BY <1>1 DEF IInv, TypeInv, TypeOK
<1>10. TypeInv'
  <2>1. /\ channels' \subseteq Ids /\ next_channel' \in Nat
        /\ open_channel' \in [id : Ids \cup {NoChan}, type : Kinds \cup {"none"}]
    BY <1>1, <1>2, <1>5 DEF IInv, TypeInv, TypeOK
  <2>2. \A j \in Machine : nb'[j] = "end" => j.op = "exec"
    BY <1>3, <1>6 DEF IInv, TypeInv, TypeOK
  <2>3. TypeOK'
    BY <1>1, <1>6, <1>9, <2>1, <2>2 DEF IInv, TypeInv, TypeOK
  <2> QED BY <1>1, <1>7, <1>8, <1>9, <2>1, <2>3 DEF IInv, TypeInv
<1>11. ScriptInv' /\ RemoteInv'
  BY <1>1 DEF IInv, ScriptInv, RemoteInv
<1>12. TurnInv'
  BY <1>1, <1>3, <1>4, <1>6, <1>8, <1>9 DEF TurnInv
<1>13. OpenInv'
  <2>1. CASE idle /\ k.op = "open"
    <3>1. k = OpenK /\ nb[OpenK] = "idle" /\ nb'[OpenK] = "created" /\ Opener' = {c}
      <4>1. nb'[OpenK] = "created" /\ asked'[OpenK] = <<c, Len(results[c])>>
        BY <1>2, <1>6, <1>7, <2>1
      <4> QED BY <1>2, <2>1, <4>1 DEF Opener
    <3>2. open_channel.id = NoChan /\ open_channel'.id = next_channel /\ next_channel # NoChan
      BY <1>1, <1>5, <2>1, <3>1, Machines DEF IInv, OpenInv
    <3>3. ChannelsOwned'
      <4>1. channels = {mine[d] : d \in Callers} \ {NoChan}
        BY <3>2 DEF IInv, OpenInv, ChannelsOwned
      <4>2. channels' = channels \cup {next_channel} /\ next_channel \notin channels
        BY <1>1, <1>5, <2>1 DEF IInv, OpenInv, TypeInv, TypeOK
      <4>3. \A d \in Callers : mine[d] = NoChan \/ mine[d] # next_channel
        BY <4>1, <4>2
      <4> QED BY <1>1, <3>2, <4>1, <4>2, <4>3 DEF IInv, OpenInv, ChannelsOwned
    <3>4. use.script[c][1] \in {"session", "direct"}
      <4>1. todo[c] = use.script[c]
        BY <1>1, <1>2, <2>1, MachineIs DEF Openings, IInv, ScriptInv
      <4> QED BY <1>2, <2>1, <4>1 DEF Op
    <3>5. \A i \in channels' : i < next_channel'
      <4>1. next_channel \in Nat /\ \A i \in channels : i \in Nat /\ i < next_channel
        BY DEF IInv, OpenInv, TypeInv, TypeOK, Ids
      <4>2. channels' = channels \cup {next_channel} /\ next_channel' = next_channel + 1
        BY <1>1, <1>5, <2>1
      <4> QED BY <4>1, <4>2
    <3> QED BY <1>1, <1>4, <1>5, <2>1, <3>1, <3>2, <3>3, <3>4, <3>5 DEF OpenInv
  <2>2. CASE ~(idle /\ k.op = "open")
    <3>1. k = OpenK => ~idle
      BY <2>2 DEF OpenK
    <3>2. nb'[OpenK] = nb[OpenK] /\ asked'[OpenK] = asked[OpenK]
      BY <1>6, <1>7, <3>1, Machines
    <3> QED BY <1>1, <1>4, <2>2, <3>2, OpenStays
  <2> QED BY <2>1, <2>2
<1>14. PacketInv'
  <2>1. \A q \in Pkt : PacketOK(q) => PacketOK(q)'
    BY <1>1, <1>6, <1>7, PacketStays
  <2> QED BY <1>1, <2>1 DEF IInv, PacketInv, TypeInv
<1> QED
  BY <1>10, <1>11, <1>12, <1>13, <1>14 DEF IInv

-------------------------------------------------------------------------------
(* A call ends. *)

\* The callers whose opening is over are finitely many.
LEMMA OpenedCard ==
    ASSUME IInv, NEW S \in SUBSET Callers, NEW T \in SUBSET S
    PROVE  /\ IsFiniteSet(S) /\ Cardinality(S) \in Nat /\ Cardinality(T) \in Nat
           /\ Cardinality(T) <= Cardinality(S)
           /\ \A c \in Callers \ S : Cardinality(S \cup {c}) = Cardinality(S) + 1
<1>1. IsFiniteSet(Callers)
  BY RequestsAssumption
<1>2. IsFiniteSet(S) /\ IsFiniteSet(T)
  BY <1>1, FS_Subset
<1> QED
  BY <1>2, FS_Subset, FS_AddElement, FS_CardinalityType

(***************************************************************************)
(* An operation ends: a caller that has resumed the opening of another     *)
(* takes its channel or undoes it, and either way one opening is over.     *)
(***************************************************************************)
LEMMA EndInv ==
    ASSUME IInv, NEW c \in Callers, todo[c] # <<>>, nb[MachineOf(c)] # "idle",
           NEW res \in {"OK", "DENIED", "BAD_USE", "SOCKET_SEND", "SOCKET_RECV",
                        "TIMEOUT", "NONE"},
           NEW own \in BOOLEAN, Finish(c, res, own),
           UNCHANGED <<use, next_channel, slot, pending, incoming, peer, served, lost, asked>>,
           nb' = [nb EXCEPT ![MachineOf(c)] = EndState(MachineOf(c))],
           packets' \in Seq(Reply),
           \A j \in DOMAIN packets' : \E i \in DOMAIN packets : packets'[j] = packets[i],
           \/ /\ MachineOf(c).op # "open"
              /\ UNCHANGED <<channels, open_channel, mine, remote>>
           \/ /\ MachineOf(c).op = "open" /\ res # "OK"
              /\ channels' = channels \ {open_channel.id} /\ open_channel' = NoOpening
              /\ UNCHANGED <<mine, remote>>
           \/ /\ MachineOf(c).op = "open" /\ res = "OK"
              /\ open_channel' = NoOpening /\ channels' = channels
              /\ mine' = [mine EXCEPT ![c] = open_channel.id]
              /\ \E r \in DOMAIN peer : /\ peer[r] = open_channel.id
                                        /\ remote' = [remote EXCEPT ![open_channel.id] = r]
    PROVE  IInv'
<1> DEFINE k == MachineOf(c)
<1>1. /\ k \in Machine /\ Op(c) \in Kinds
      /\ k.op = "open" <=> Op(c) \in {"session", "direct"}
      /\ k.op = "open" => k = OpenK
      /\ Op(c) \in Openings => results[c] = <<>> /\ mine[c] = NoChan
      /\ Op(c) \in Requests => results[c] # <<>>
  BY MachineIs
<1>2. nb[k] # "idle" /\ nb' = [nb EXCEPT ![k] = EndState(k)]
  OBVIOUS
<1>3. \/ k.op # "open" /\ UNCHANGED <<channels, open_channel, mine, remote>>
      \/ /\ k.op = "open" /\ res # "OK"
         /\ channels' = channels \ {open_channel.id} /\ open_channel' = NoOpening
         /\ UNCHANGED <<mine, remote>>
      \/ /\ k.op = "open" /\ res = "OK"
         /\ open_channel' = NoOpening /\ channels' = channels
         /\ mine' = [mine EXCEPT ![c] = open_channel.id]
         /\ \E r \in DOMAIN peer : /\ peer[r] = open_channel.id
                                   /\ remote' = [remote EXCEPT ![open_channel.id] = r]
  OBVIOUS
<1> HIDE DEF k
<1>4. /\ nb' \in [Machine -> {"idle", "created", "sent", "end"}]
      /\ \A j \in Machine : j # k => nb'[j] = nb[j]
      /\ nb'[k] = IF k.op = "exec" THEN "end" ELSE "idle"
      /\ \A j \in Machine : nb'[j] = "end" => j.op = "exec"
      /\ \A j \in Machine : j.op = "exec" /\ nb[j] # "idle" => nb'[j] # "idle"
  BY <1>1, <1>2 DEF IInv, TypeInv, TypeOK, EndState
<1>5. k.op = "open" => open_channel.id \in Ids /\ open_channel.id # NoChan
  BY <1>1, <1>2, Machines DEF IInv, OpenInv, TypeInv
<1>6. /\ mine' \in [Callers -> Ids \cup {NoChan}]
      /\ \A d \in Callers \ {c} : mine'[d] = mine[d]
      /\ IF Op(c) \in {"session", "direct"} /\ res = "OK" THEN mine'[c] = open_channel.id
                                                          ELSE mine'[c] = mine[c]
  BY <1>1, <1>3, <1>5 DEF IInv, TypeInv, TypeOK
<1>7. /\ todo' \in [Callers -> Seq(Kinds)] /\ results' \in [Callers -> Seq(Outcome)]
      /\ turn' = NoCall
      /\ direct_state' \in {"idle", "created"}
      /\ direct_message' \in Callers \cup {NoDest}
      /\ direct_state' = "created" => direct_message' \in Callers
      /\ ScriptInv' /\ Opened' = Opened \cup {c}
  BY <1>1, <1>5, <1>6, FinishInv
<1>8. /\ channels' \subseteq Ids /\ remote' \in [Ids -> Int]
      /\ open_channel' \in [id : Ids \cup {NoChan}, type : Kinds \cup {"none"}]
  <2>1. \A r \in DOMAIN peer : r \in Int
    BY DEF IInv, TypeInv
  <2>2. NoOpening \in [id : Ids \cup {NoChan}, type : Kinds \cup {"none"}]
    BY DEF NoOpening
  <2> QED BY <1>3, <2>1, <2>2 DEF IInv, TypeInv, TypeOK
<1>9. TypeInv'
  <2>1. TypeOK'
    BY <1>4, <1>6, <1>7, <1>8 DEF IInv, TypeInv, TypeOK
  <2> QED BY <1>7, <1>8, <2>1 DEF IInv, TypeInv
<1>10. TurnInv'
  BY <1>7 DEF TurnInv
<1>11. OpenInv'
  <2>1. /\ ChannelsOwned /\ \A i \in channels : i < next_channel
        /\ nb[OpenK] = "idle" <=> open_channel.id = NoChan
        /\ Opener \subseteq Callers \ Opened
        /\ \A d \in Opener : use.script[d][1] \in {"session", "direct"}
        /\ next_channel <= Cardinality(Opened \cup Opener)
        /\ next_channel \in Nat
    BY DEF IInv, OpenInv, TypeInv, TypeOK
  <2>2. Opened \subseteq Callers
    BY DEF Opened
  <2>3. CASE k.op # "open"
    <3>1. UNCHANGED <<channels, open_channel, mine>>
      BY <1>3, <2>3
    <3>2. nb'[OpenK] = nb[OpenK] /\ Opener' = Opener
      <4>1. k # OpenK
        BY <2>3 DEF OpenK
      <4> QED BY <1>4, <4>1, Machines DEF Opener
    <3>3. c \notin Opener
      <4>1. CASE Op(c) = "listen"
        <5>1. use.script[c][1] = "listen"
          BY <1>1, <4>1 DEF Openings, IInv, ScriptInv, Op
        <5> QED BY <2>1, <5>1
      <4>2. CASE Op(c) # "listen"
        BY <1>1, <2>1, <2>3, <4>2 DEF Kinds, Openings, Opened
      <4> QED BY <4>1, <4>2
    <3>4. next_channel <= Cardinality(Opened' \cup Opener)
      <4> DEFINE S == Opened' \cup Opener
                 T == Opened \cup Opener
      <4>1. S \in SUBSET Callers /\ T \in SUBSET S
        BY <1>7, <2>1, <2>2
      <4>2. next_channel <= Cardinality(T)
        BY <2>1
      <4> HIDE DEF S, T
      <4>3. next_channel <= Cardinality(S)
        BY <2>1, <4>1, <4>2, OpenedCard
      <4> QED BY <4>3 DEF S
    <3>5. ChannelsOwned'
      BY <2>1, <3>1 DEF ChannelsOwned
    <3> QED BY <1>7, <2>1, <3>1, <3>2, <3>3, <3>4, <3>5 DEF OpenInv
  <2>4. CASE k.op = "open"
    <3>1. k = OpenK /\ c \notin Opened /\ nb'[OpenK] = "idle" /\ Opener' = {}
      BY <1>1, <1>4, <2>4 DEF Opener, Opened, Openings
    <3>2. next_channel <= Cardinality(Opened')
      <4>1. PICK d \in Callers \ Opened : Opener = {d}
        BY <1>2, <2>1, <3>1 DEF Opener
      <4>2. Cardinality(Opened \cup {d}) = Cardinality(Opened \cup {c})
        BY <2>2, <3>1, OpenedCard
      <4> QED BY <1>7, <2>1, <4>1, <4>2
    <3>3. open_channel' = NoOpening /\ open_channel'.id = NoChan
      BY <1>3, <2>4 DEF NoOpening
    <3>4. channels' \subseteq channels
      BY <1>3, <2>4
    <3>5. ChannelsOwned'
      <4>1. CASE res # "OK"
        <5>1. channels' = channels \ {open_channel.id} /\ mine' = mine
          BY <1>3, <2>4, <4>1
        <5> QED BY <2>1, <3>3, <5>1 DEF ChannelsOwned
      <4>2. CASE res = "OK"
        <5>1. /\ channels' = channels /\ mine'[c] = open_channel.id
              /\ mine[c] = NoChan /\ open_channel.id # NoChan
          BY <1>1, <1>3, <1>5, <1>6, <2>4, <4>2 DEF Openings
        <5>2. {mine'[d] : d \in Callers} \ {NoChan}
                = ({open_channel.id} \cup {mine[d] : d \in Callers}) \ {NoChan}
          BY <1>6, <5>1
        <5>3. \A d \in Callers \ {c} : mine[d] = NoChan \/ mine[d] # open_channel.id
          BY <2>1 DEF ChannelsOwned
        <5>4. \A d, e \in Callers : mine'[d] = mine'[e] /\ mine'[d] # NoChan => d = e
          BY <1>6, <2>1, <5>1, <5>3 DEF ChannelsOwned
        <5> QED BY <2>1, <3>3, <5>1, <5>2, <5>4 DEF ChannelsOwned
      <4> QED BY <4>1, <4>2
    <3> QED BY <2>1, <3>1, <3>2, <3>3, <3>4, <3>5 DEF OpenInv
  <2> QED BY <2>3, <2>4
<1>12. RemoteInv'
  <2>1. ASSUME NEW d \in Callers, mine'[d] # NoChan
        PROVE  remote'[mine'[d]] \in DOMAIN peer /\ peer[remote'[mine'[d]]] = mine'[d]
    <3>1. CASE UNCHANGED <<mine, remote>>
      BY <2>1, <3>1 DEF IInv, RemoteInv
    <3>2. CASE k.op = "open" /\ res = "OK"
      <4>1. PICK r \in DOMAIN peer : /\ peer[r] = open_channel.id
                                     /\ remote' = [remote EXCEPT ![open_channel.id] = r]
        BY <1>3, <3>2
      <4>2. remote'[open_channel.id] = r /\ \A i \in Ids : i # open_channel.id => remote'[i] = remote[i]
        BY <1>5, <3>2, <4>1 DEF IInv, TypeInv, TypeOK
      <4>3. CASE d = c
        BY <1>1, <1>6, <3>2, <4>1, <4>2, <4>3
      <4>4. CASE d # c
        BY <1>6, <2>1, <4>2, <4>4 DEF IInv, RemoteInv, OpenInv, ChannelsOwned, TypeInv, TypeOK
      <4> QED BY <4>3, <4>4
    <3> QED BY <1>3, <3>1, <3>2
  <2> QED BY <2>1 DEF IInv, RemoteInv
<1>13. PacketInv'
  <2>1. \A q \in Pkt : PacketOK(q) => PacketOK(q)'
    BY <1>4, PacketStays
  <2> QED BY <2>1 DEF IInv, PacketInv, TypeInv
<1> QED
  BY <1>7, <1>9, <1>10, <1>11, <1>12, <1>13 DEF IInv

\* A second execute, and an operation that fails.
LEMMA CallEndedInv ==
    ASSUME IInv, NEW c \in Callers, CallEnded(c)
    PROVE  IInv'
<1> USE DEF libVars, serverVars
<1> DEFINE k == MachineOf(c)
<1>1. /\ todo[c] # <<>> /\ nb[k] = "end" /\ Finish(c, "BAD_USE", TRUE)
      /\ UNCHANGED <<use, mine, libVars, nb, slot, packets, pending, serverVars, asked>>
  BY DEF CallEnded
<1>2. k \in Machine
  BY <1>1, MachineIs
<1>3. k.op = "exec" /\ EndState(k) = "end" /\ nb' = [nb EXCEPT ![k] = EndState(k)]
  BY <1>1, <1>2 DEF IInv, TypeInv, TypeOK, EndState
<1>4. packets' \in Seq(Reply)
  BY <1>1 DEF IInv, TypeInv
<1> QED
  BY <1>1, <1>3, <1>4, EndInv

LEMMA FailInv ==
    ASSUME IInv, NEW c \in Callers, todo[c] # <<>>, nb[MachineOf(c)] # "idle",
           NEW res \in {"SOCKET_SEND", "SOCKET_RECV", "TIMEOUT", "NONE"}, Fail(c, res),
           UNCHANGED <<use, slot, packets, pending, serverVars, asked>>
    PROVE  IInv'
<1> USE DEF serverVars
<1>1. /\ Finish(c, res, TRUE) /\ UNCHANGED <<mine, next_channel, remote>>
      /\ nb' = [nb EXCEPT ![MachineOf(c)] = EndState(MachineOf(c))]
      /\ IF MachineOf(c).op = "open"
           THEN channels' = channels \ {open_channel.id} /\ open_channel' = NoOpening
           ELSE UNCHANGED <<channels, open_channel>>
  BY DEF Fail, OpenError
<1>2. packets' \in Seq(Reply)
  BY DEF IInv, TypeInv
<1> QED
  BY <1>1, <1>2, EndInv

\* The reply that a call finds in the queue.
LEMMA FitsIs ==
    ASSUME IInv, NEW c \in Callers, Fits(c) # {}
    PROVE  LET i == Min(Fits(c))
           IN  i \in DOMAIN packets /\ packets[i] \in Reply /\ Matches(c, packets[i])
<1>1. packets \in Seq(Reply)
  BY DEF IInv, TypeInv
<1>2. \A i \in Fits(c) : i \in DOMAIN packets /\ Matches(c, packets[i])
  BY DEF Fits, Fitting
<1>3. Fits(c) \in SUBSET Nat
  BY <1>1, <1>2
<1>4. Min(Fits(c)) \in Fits(c)
  BY <1>3, MinIn
<1> QED
  BY <1>1, <1>2, <1>4

\* The reply is taken.
LEMMA AskTakesInv ==
    ASSUME IInv, NEW c \in Callers, AskTakes(c)
    PROVE  IInv'
<1> USE DEF serverVars
<1> DEFINE k == MachineOf(c)
           i == Min(Fits(c))
           r == packets[i]
           ok == r.type = ReplyTypes(k)[1]
           res == IF ok THEN "OK" ELSE "DENIED"
<1>1. /\ Fits(c) # {} /\ packets' = RemoveAt(packets, i)
      /\ nb' = [nb EXCEPT ![k] = EndState(k)]
      /\ CASE k.op = "open" /\ ok ->
                /\ mine' = [mine EXCEPT ![c] = open_channel.id]
                /\ remote' = [remote EXCEPT ![open_channel.id] = r.remote]
                /\ UNCHANGED channels
           [] k.op = "open" /\ ~ok -> OpenError /\ UNCHANGED <<mine, remote>>
           [] OTHER -> UNCHANGED <<mine, remote, channels>>
      /\ open_channel' = IF k.op = "open" THEN NoOpening ELSE open_channel
      /\ Finish(c, res, r.to.by = asked[k])
      /\ UNCHANGED <<use, next_channel, slot, pending, serverVars, asked>>
  BY DEF AskTakes, Take, Unlink
<1>2. todo[c] # <<>> /\ nb[k] = "sent" /\ k \in Machine
  BY InTurn DEF AskTakes
<1>3. i \in DOMAIN packets /\ r \in Reply /\ Matches(c, r)
  BY <1>1, FitsIs
<1>4. /\ packets' \in Seq(Reply)
      /\ \A j \in DOMAIN packets' : \E n \in DOMAIN packets : packets'[j] = packets[n]
  <2>1. packets \in Seq(Reply)
    BY DEF IInv, TypeInv
  <2> HIDE DEF i
  <2>2. /\ packets' \in Seq(Reply) /\ Len(packets') = Len(packets) - 1
        /\ \A j \in DOMAIN packets' : packets'[j] = IF j < i THEN packets[j] ELSE packets[j + 1]
    BY <1>1, <1>3, <2>1, RemoveAtIs
  <2>3. \A j \in DOMAIN packets' : j \in DOMAIN packets /\ j + 1 \in DOMAIN packets
    BY <2>1, <2>2
  <2> QED BY <2>2, <2>3
<1>5. k.op = "open" /\ ok => /\ r.remote \in DOMAIN peer
                             /\ peer[r.remote] = open_channel.id
  <2>1. k.op = "open" /\ ok => r.type = "OPEN_CONFIRMATION" /\ r.ch = open_channel.id
    BY <1>3 DEF Matches, ReplyTypes
  <2> QED BY <1>3, <2>1 DEF IInv, RemoteInv
<1>6. \/ k.op # "open" /\ UNCHANGED <<channels, open_channel, mine, remote>>
      \/ /\ k.op = "open" /\ res # "OK"
         /\ channels' = channels \ {open_channel.id} /\ open_channel' = NoOpening
         /\ UNCHANGED <<mine, remote>>
      \/ /\ k.op = "open" /\ res = "OK"
         /\ open_channel' = NoOpening /\ channels' = channels
         /\ mine' = [mine EXCEPT ![c] = open_channel.id]
         /\ \E n \in DOMAIN peer : /\ peer[n] = open_channel.id
                                   /\ remote' = [remote EXCEPT ![open_channel.id] = n]
  <2>1. CASE k.op # "open"
    BY <1>1, <2>1
  <2>2. CASE k.op = "open" /\ ~ok
    BY <1>1, <2>2 DEF OpenError
  <2>3. CASE k.op = "open" /\ ok
    BY <1>1, <1>5, <2>3
  <2> QED BY <2>1, <2>2, <2>3
<1>7. res \in {"OK", "DENIED"} /\ (r.to.by = asked[k]) \in BOOLEAN
  OBVIOUS
<1> DEFINE own == r.to.by = asked[k]
<1>8. Finish(c, res, own) /\ own \in BOOLEAN
  BY <1>1, <1>7
<1> HIDE DEF res, own, i, r, ok
<1> QED
  BY <1>1, <1>2, <1>4, <1>6, <1>7, <1>8, EndInv

-------------------------------------------------------------------------------
(* The server. *)

\* The server answers a request.
LEMMA AnswerInv ==
    ASSUME IInv, NEW i \in DOMAIN pending, NEW ok \in BOOLEAN, Answer(i, ok)
    PROVE  IInv'
<1> USE DEF libVars, directVars
<1> DEFINE m == pending[i]
           a == [type |-> ReplyTypes(m.m)[IF ok THEN 1 ELSE 2],
                 ch |-> IF m.m.op \in Requests THEN peer[m.ch] ELSE m.ch,
                 remote |-> Len(peer) + 1, to |-> m]
<1>1. /\ pending' = RemoveAt(pending, i)
      /\ peer' = IF m.m.op = "open" /\ ok THEN Append(peer, m.ch) ELSE peer
      /\ served' = IF ok THEN served \cup {m} ELSE served
      /\ incoming' = Append(incoming, a)
      /\ UNCHANGED <<use, todo, mine, turn, libVars, nb, directVars, slot, packets, lost,
                     asked, results>>
  BY DEF Answer
<1>2. m \in Pkt /\ PacketOK(m) /\ m.m \in Machine
  <2>1. m \in Pkt /\ PacketOK(m)
    BY DEF IInv, TypeInv, PacketInv
  <2> QED BY <2>1 DEF Pkt
<1>3. peer \in Seq(Ids) /\ Len(peer) \in Nat
  BY DEF IInv, TypeInv
<1>4. m.m.op \in {"open", "listen"} \cup Requests
  BY <1>2 DEF Machine
<1> HIDE DEF m
<1>5. a \in Reply
  <2>1. ReplyTypes(m.m)[IF ok THEN 1 ELSE 2] \in
           {"OPEN_CONFIRMATION", "OPEN_FAILURE", "REQUEST_SUCCESS", "REQUEST_FAILURE",
            "CHANNEL_SUCCESS", "CHANNEL_FAILURE"}
    BY DEF ReplyTypes
  <2>2. (IF m.m.op \in Requests THEN peer[m.ch] ELSE m.ch) \in Ids \cup {NoChan}
    BY <1>2, <1>3, <1>4 DEF PacketOK
  <2>3. Len(peer) + 1 \in Nat
    BY <1>3
  <2> QED BY <1>2, <2>1, <2>2, <2>3 DEF Reply
<1>6. /\ a.type = "OPEN_CONFIRMATION" => m.m.op = "open" /\ ok /\ a.ch = m.ch
      /\ a.remote = Len(peer) + 1
  BY <1>4 DEF ReplyTypes, Requests
<1> HIDE DEF a
<1>7. peer' = peer \/ \E j \in Ids : peer' = Append(peer, j)
  BY <1>1, <1>2 DEF PacketOK
<1>8. /\ peer' \in Seq(Ids)
      /\ \A r \in DOMAIN peer : r \in DOMAIN peer' /\ peer'[r] = peer[r]
  BY <1>7, PeerGrows
<1>9. /\ pending' \in Seq(Pkt)
      /\ \A j \in DOMAIN pending' : \E n \in DOMAIN pending : pending'[j] = pending[n]
  <2>1. pending \in Seq(Pkt)
    BY DEF IInv, TypeInv
  <2>2. /\ pending' \in Seq(Pkt) /\ Len(pending') = Len(pending) - 1
        /\ \A j \in DOMAIN pending' : pending'[j] = IF j < i THEN pending[j] ELSE pending[j + 1]
    BY <1>1, <2>1, RemoveAtIs
  <2>3. \A j \in DOMAIN pending' : j \in DOMAIN pending /\ j + 1 \in DOMAIN pending
    BY <2>1, <2>2
  <2> QED BY <2>2, <2>3
<1>10. /\ incoming' \in Seq(Reply)
       /\ \A j \in DOMAIN incoming' : \/ j \in DOMAIN incoming /\ incoming'[j] = incoming[j]
                                      \/ incoming'[j] = a
  <2>1. incoming \in Seq(Reply)
    BY DEF IInv, TypeInv
  <2>2. /\ incoming' \in Seq(Reply) /\ Len(incoming') = Len(incoming) + 1
        /\ \A j \in 1..Len(incoming) : incoming'[j] = incoming[j]
        /\ incoming'[Len(incoming) + 1] = a
    BY <1>1, <1>5, <2>1, AppendProperties
  <2> QED BY <2>1, <2>2
<1>11. TypeInv'
  <2>1. TypeOK'
    BY <1>1 DEF IInv, TypeInv, TypeOK
  <2> QED BY <1>1, <1>2, <1>8, <1>9, <1>10, <2>1 DEF IInv, TypeInv
<1>12. ScriptInv' /\ TurnInv' /\ OpenInv'
  BY <1>1, OpenStays DEF IInv, ScriptInv, TurnInv, MachineOf, Op, Opened
<1>13. RemoteInv'
  <2>1. a.type = "OPEN_CONFIRMATION" => a.remote \in DOMAIN peer' /\ peer'[a.remote] = a.ch
    <3>1. SUFFICES ASSUME a.type = "OPEN_CONFIRMATION"
                   PROVE  a.remote \in DOMAIN peer' /\ peer'[a.remote] = a.ch
      OBVIOUS
    <3>2. peer' = Append(peer, m.ch) /\ m.ch \in Ids
      BY <1>1, <1>2, <1>6, <3>1 DEF PacketOK
    <3>3. Len(peer') = Len(peer) + 1 /\ peer'[Len(peer) + 1] = m.ch
      BY <1>3, <3>2, AppendProperties
    <3> QED BY <1>3, <1>6, <1>8, <3>1, <3>3
  <2> QED BY <1>1, <1>8, <1>10, <2>1 DEF IInv, RemoteInv
<1>14. PacketInv'
  <2>1. \A q \in Pkt : PacketOK(q) => PacketOK(q)'
    BY <1>1, <1>7, PacketStays
  <2> QED BY <1>1, <1>2, <1>9, <2>1 DEF IInv, PacketInv, TypeInv
<1> QED
  BY <1>11, <1>12, <1>13, <1>14 DEF IInv

\* The connection is lost, or nothing happens.
LEMMA DropInv ==
    ASSUME IInv, Drop \/ UNCHANGED vars
    PROVE  IInv'
<1>1. /\ UNCHANGED <<use, todo, mine, turn, libVars, nb, directVars, slot, packets, pending,
                     incoming, peer, served, asked, results>>
      /\ lost' \in BOOLEAN
  BY DEF Drop, vars, libVars, directVars, IInv, TypeInv, TypeOK
<1> USE DEF libVars, directVars
<1>2. TypeInv'
  <2>1. TypeOK'
    BY <1>1 DEF IInv, TypeInv, TypeOK
  <2> QED BY <1>1, <2>1 DEF IInv, TypeInv
<1>3. ScriptInv' /\ TurnInv' /\ OpenInv' /\ RemoteInv'
  BY <1>1, OpenStays, RemoteStays DEF IInv, ScriptInv, TurnInv, MachineOf, Op, Opened
<1>4. PacketInv'
  BY <1>1 DEF IInv, PacketInv, PacketOK
<1> QED
  BY <1>2, <1>3, <1>4 DEF IInv

LEMMA NextInv ==
    ASSUME IInv, [Next]_vars
    PROVE  IInv'
<1>1. ASSUME NEW c \in Callers, Call(c) \/ CallEnded(c)
      PROVE  IInv'
  BY <1>1, CallInv, CallEndedInv
<1>2. ASSUME NEW c \in Callers, CallStep(c)
      PROVE  IInv'
  <2>1. CASE Sent(c)
    BY <2>1, SentInv
  <2>2. CASE SendBlocks(c)
    BY <2>2, WouldBlockInv DEF SendBlocks, serverVars
  <2>3. CASE SendFails(c)
    BY <2>3, InTurn, FailInv DEF SendFails
  <2>4. CASE AskTakes(c)
    BY <2>4, AskTakesInv
  <2>5. CASE AskFindsNone(c) \/ Read(c)
    BY <2>5, ReadInv
  <2>6. CASE AgainFindsNone(c)
    BY <2>6, InTurn, FailInv DEF AgainFindsNone
  <2>7. CASE ReadBlocks(c)
    BY <2>7, WouldBlockInv DEF ReadBlocks, serverVars
  <2>8. CASE ReadFails(c)
    BY <2>8, InTurn, FailInv DEF ReadFails
  <2> QED BY <1>2, <2>1, <2>2, <2>3, <2>4, <2>5, <2>6, <2>7, <2>8 DEF CallStep
<1>3. CASE Server
  BY <1>3, AnswerInv DEF Server
<1> QED
  BY <1>1, <1>2, <1>3, DropInv DEF Next

-------------------------------------------------------------------------------
(***************************************************************************)
(* Who is answered what.  A second invariant, on top of the first: a       *)
(* machine at work was set going by a caller that is still at it           *)
(* (ActiveInv); a request that is under way, and that nobody has given up, *)
(* is the only one of its machine and is what the machine has asked for    *)
(* (FlightInv); and the running call is part of the opening it takes for   *)
(* its own, unless it has cut in (CallerInv, DirectInv).                   *)
(***************************************************************************)

ListenK == [op |-> "listen", id |-> NoChan]
Begun == {"created", "sent"}

\* The requests that are with the server or whose replies are not taken yet.
Places == ({"pending"} \X DOMAIN pending) \cup ({"incoming"} \X DOMAIN incoming)
          \cup ({"packets"} \X DOMAIN packets)
At(x) == CASE x[1] = "pending" -> pending[x[2]]
           [] x[1] = "incoming" -> incoming[x[2]].to
           [] OTHER -> packets[x[2]].to

HType ==
    /\ begun \in [Callers -> BOOLEAN]
    /\ got \in [Callers -> {NoDest} \cup [type : Kinds \cup {"none"},
                                           dest : Callers \cup {NoDest}]]

ActiveInv ==
    \A k \in Machine : nb[k] \in Begun =>
        \E c \in Callers : /\ asked[k] = <<c, Len(results[c])>> /\ begun[c]
                           /\ todo[c] # <<>> /\ MachineOf(c) = k
                           /\ k = OpenK => open_channel.type = Op(c)

\* Nobody has given up the request p.
Fresh(p) == IF p.m = OpenK THEN p.ch = open_channel.id ELSE p.m.id \notin given_up

\* p is what its machine has asked for.
Right(p) ==
    /\ p.by = asked[p.m]
    /\ p.m = OpenK /\ "open" \notin cut =>
          /\ p.type = open_channel.type
          /\ p.dest = IF p.type = "direct" THEN asked[OpenK][1] ELSE NoDest
    /\ p.m = ListenK /\ "listen" \notin cut =>
          p.type = "listen" /\ p.dest = asked[ListenK][1]

SlotInv ==
    slot # NoPacket /\ ~lost =>
        nb[slot.m] = "created" /\ Right(slot) /\ (slot.m = OpenK => slot.ch = open_channel.id)

FlightInv ==
    /\ \A x \in Places : Fresh(At(x)) => nb[At(x).m] = "sent" /\ Right(At(x))
    /\ \A x \in Places : At(x).m = OpenK => At(x).ch \in Nat /\ At(x).ch < next_channel
    /\ \A x, y \in Places : Fresh(At(x)) /\ Fresh(At(y)) /\ At(x).m = At(y).m => x = y

ReplyOK(r) ==
    /\ r.type \in {ReplyTypes(r.to.m)[1], ReplyTypes(r.to.m)[2]}
    /\ r.ch = IF r.to.m.op \in Requests THEN r.to.m.id ELSE r.to.ch
ReplyInv ==
    /\ \A i \in DOMAIN incoming : ReplyOK(incoming[i])
    /\ \A i \in DOMAIN packets : ReplyOK(packets[i])

\* The running call of c.
OwnCall(c) ==
    /\ begun[c]
    /\ MachineOf(c) = OpenK /\ "open" \notin cut =>
          \/ asked[OpenK][1] = c
          \/ Op(c) = "session" /\ open_channel.type = "session"
    /\ MachineOf(c) = ListenK /\ "listen" \notin cut => asked[ListenK][1] = c
    /\ Op(c) = "direct" /\ "open" \notin cut => direct_message = c
CallerInv == turn # NoCall => OwnCall(turn.who)
DirectInv ==
    direct_state = "created" /\ "open" \notin cut =>
        /\ nb[OpenK] # "idle" /\ open_channel.type = "direct"
        /\ direct_message = asked[OpenK][1]

\* An operation has failed without being refused.
Bad(res) == res \notin {"OK", "DENIED", "BAD_USE"}
SomeFailed == \E c \in Callers : \E i \in DOMAIN results[c] : Bad(results[c][i].res)
CalmInv == SomeFailed \/ (given_up = {} /\ \A x \in Places : Fresh(At(x)))

GotInv == /\ \A c \in Callers : got[c] # NoDest => results[c] # <<>>
          /\ OwnDestination

\* Callers in turns, with nothing but refusals.
Safe(u) == u.serial /\ u.faults \subseteq {"refuse"}
SerialInv ==
    /\ use.serial => \A c, d \in Callers : begun[c] /\ begun[d] => c = d
    /\ Safe(use) => ~lost /\ ~SomeFailed

\* A reply that makes the running call look again is the one it waits for.
AgainInv == Safe(use) /\ turn # NoCall /\ turn.at = "again" => Fits(turn.who) # {}

HInv ==
    /\ HType /\ ActiveInv /\ SlotInv /\ FlightInv /\ ReplyInv /\ CallerInv /\ DirectInv
    /\ CalmInv /\ GotInv /\ AnswerRight /\ SerialInv /\ AgainInv

\* The machine of a session is one for all openings, or for all listeners.
LEMMA WhichMachine ==
    ASSUME NEW k \in Machine
    PROVE  /\ k.op = "open" <=> k = OpenK
           /\ k.op = "listen" <=> k = ListenK
           /\ k.op \in Requests <=> k.id # NoChan
           /\ k.op \in {"open", "listen"} \cup Requests
<1>1. \A i \in Ids : i # NoChan
  BY Machines
<1> QED
  BY <1>1 DEF Machine, OpenK, ListenK, Requests

\* The requests under way are packets that were made.
LEMMA Placed ==
    ASSUME IInv, NEW x \in Places
    PROVE  /\ At(x) \in Pkt /\ At(x).m \in Machine
           /\ At(x).ch \in Int \cup {NoChan}
           /\ x[1] \in {"pending", "incoming", "packets"}
           /\ x[1] = "pending" => x[2] \in DOMAIN pending /\ At(x) = pending[x[2]]
           /\ x[1] = "incoming" => x[2] \in DOMAIN incoming /\ At(x) = incoming[x[2]].to
           /\ x[1] = "packets" => x[2] \in DOMAIN packets /\ At(x) = packets[x[2]].to
<1>1. /\ pending \in Seq(Pkt) /\ incoming \in Seq(Reply) /\ packets \in Seq(Reply)
  BY DEF IInv, TypeInv
<1>2. /\ \A i \in DOMAIN pending : pending[i] \in Pkt
      /\ \A i \in DOMAIN incoming : incoming[i].to \in Pkt
      /\ \A i \in DOMAIN packets : packets[i].to \in Pkt
  <2>1. \A r \in Reply : r.to \in Pkt
    BY DEF Reply
  <2>2. /\ \A i \in DOMAIN pending : pending[i] \in Pkt
        /\ \A i \in DOMAIN incoming : incoming[i] \in Reply
        /\ \A i \in DOMAIN packets : packets[i] \in Reply
    BY <1>1
  <2> QED BY <2>1, <2>2
<1>3. /\ x[1] \in {"pending", "incoming", "packets"}
      /\ x[1] = "pending" => x[2] \in DOMAIN pending /\ At(x) = pending[x[2]]
      /\ x[1] = "incoming" => x[2] \in DOMAIN incoming /\ At(x) = incoming[x[2]].to
      /\ x[1] = "packets" => x[2] \in DOMAIN packets /\ At(x) = packets[x[2]].to
  BY DEF Places, At
<1>4. At(x) \in Pkt
  BY <1>2, <1>3
<1> QED
  BY <1>3, <1>4 DEF Pkt

\* The caller that has set a machine going.
LEMMA ActiveIs ==
    ASSUME IInv, HInv, NEW k \in Machine, nb[k] \in Begun
    PROVE  \E c \in Callers : /\ asked[k] = <<c, Len(results[c])>> /\ asked[k][1] = c
                              /\ begun[c] /\ todo[c] # <<>> /\ MachineOf(c) = k
                              /\ k = OpenK => open_channel.type = Op(c)
BY DEF HInv, ActiveInv

\* A channel has one machine at work, and a request one machine.
LEMMA OneActive ==
    ASSUME IInv, HInv, NEW j \in Machine, NEW k \in Machine,
           nb[j] \in Begun, nb[k] \in Begun
    PROVE  /\ j.op \in Requests /\ k.op \in Requests /\ j.id = k.id => j = k
           /\ asked[j] = asked[k] => j = k
<1>1. PICK c \in Callers : /\ asked[j] = <<c, Len(results[c])>> /\ todo[c] # <<>>
                           /\ MachineOf(c) = j
  BY ActiveIs
<1>2. PICK d \in Callers : /\ asked[k] = <<d, Len(results[d])>> /\ todo[d] # <<>>
                           /\ MachineOf(d) = k
  BY ActiveIs
<1>3. asked[j] = asked[k] => c = d
  BY <1>1, <1>2
<1>4. ASSUME j.op \in Requests, k.op \in Requests, j.id = k.id PROVE c = d
  <2>1. /\ j = [op |-> Op(c), id |-> mine[c]] /\ mine[c] \in Ids
    BY <1>1, <1>4, MachineIs
  <2>2. /\ k = [op |-> Op(d), id |-> mine[d]] /\ mine[d] \in Ids
    BY <1>2, <1>4, MachineIs
  <2>3. mine[c] = mine[d] /\ mine[c] # NoChan
    BY <1>4, <2>1, <2>2, Machines
  <2> QED BY <2>3 DEF IInv, OpenInv, ChannelsOwned
<1> QED
  BY <1>1, <1>2, <1>3, <1>4

-------------------------------------------------------------------------------
(* The requests under way move on. *)

\* Every request that is under way after the step was so before, at f.
Carried(f) ==
    /\ f \in [Places' -> Places]
    /\ \A x, y \in Places' : f[x] = f[y] => x = y
    /\ \A x \in Places' : At(x)' = At(f[x])

LEMMA PlacesStay ==
    ASSUME UNCHANGED <<pending, incoming, packets>>
    PROVE  /\ \E f : Carried(f)
           /\ Places' = Places /\ \A x : At(x)' = At(x)
<1>1. Places' = Places /\ \A x : At(x)' = At(x)
  BY DEF Places, At
<1> DEFINE f == [x \in Places |-> x]
<1>2. Carried(f)
  BY <1>1 DEF Carried
<1> QED
  BY <1>1, <1>2

\* The requests of S that are not given up stay what their machines wait for.
Kept(S) == \A p \in S : Fresh(p)' => /\ Fresh(p) /\ nb'[p.m] = "sent"
                                     /\ Right(p) => Right(p)'

LEMMA FlightCarried ==
    ASSUME IInv, HInv, NEW f, Carried(f), next_channel' \in Nat,
           next_channel <= next_channel', Kept({At(f[x]) : x \in Places'})
    PROVE  FlightInv'
<1>1. ASSUME NEW x \in Places'
      PROVE  /\ f[x] \in Places /\ At(x)' = At(f[x])
             /\ Fresh(At(x))' => /\ Fresh(At(f[x]))
                                 /\ nb'[At(x)'.m] = "sent" /\ Right(At(x))'
             /\ At(x)'.m = OpenK => At(x)'.ch \in Nat /\ At(x)'.ch < next_channel'
  <2>1. f[x] \in Places /\ At(x)' = At(f[x])
    BY DEF Carried
  <2>2. PICK p : p = At(f[x])
    OBVIOUS
  <2>3. /\ Fresh(p) => nb[p.m] = "sent" /\ Right(p)
        /\ p.m = OpenK => p.ch \in Nat /\ p.ch < next_channel
    BY <2>1, <2>2 DEF HInv, FlightInv
  <2>4. Fresh(p)' => Fresh(p) /\ nb'[p.m] = "sent" /\ Right(p)'
    BY <2>2, <2>3 DEF Kept
  <2>5. /\ Fresh(At(x))' <=> Fresh(p)'
        /\ Right(At(x))' <=> Right(p)'
    BY <2>1, <2>2 DEF Fresh, Right
  <2>6. next_channel \in Nat
    BY DEF IInv, TypeInv, TypeOK
  <2> QED BY <2>1, <2>2, <2>3, <2>4, <2>5, <2>6
<1> QED
  BY <1>1 DEF FlightInv, HInv, Carried

\* A request is given to the server's answer.
LEMMA AnswerCarries ==
    ASSUME IInv, NEW i \in DOMAIN pending, NEW a \in Reply, a.to = pending[i],
           pending' = RemoveAt(pending, i), incoming' = Append(incoming, a),
           packets' = packets
    PROVE  \E f : Carried(f)
<1>0. PICK n : n = Len(incoming)
  OBVIOUS
<1> DEFINE Skip(j) == IF j < i THEN j ELSE j + 1
           F(x) == IF x[1] = "pending" THEN <<"pending", Skip(x[2])>>
                   ELSE IF x = <<"incoming", n + 1>> THEN <<"pending", i>> ELSE x
           f == [x \in Places' |-> F(x)]
<1>1. pending \in Seq(Pkt) /\ incoming \in Seq(Reply)
  BY DEF IInv, TypeInv
<1>2. /\ \A j \in DOMAIN pending' : /\ Skip(j) \in DOMAIN pending /\ Skip(j) # i
                                    /\ pending'[j] = pending[Skip(j)] /\ j \in Int
      /\ \A j, k \in DOMAIN pending' : Skip(j) = Skip(k) => j = k
  <2>1. /\ pending' \in Seq(Pkt) /\ Len(pending') = Len(pending) - 1
        /\ \A j \in DOMAIN pending' : pending'[j] = IF j < i THEN pending[j] ELSE pending[j + 1]
    BY <1>1, RemoveAtIs
  <2>2. /\ DOMAIN pending' = 1..(Len(pending) - 1) /\ DOMAIN pending = 1..Len(pending)
        /\ Len(pending) \in Nat
    BY <1>1, <2>1
  <2> QED BY <2>1, <2>2
<1>3. /\ DOMAIN incoming' = 1..(n + 1) /\ DOMAIN incoming = 1..n /\ n \in Nat
      /\ \A j \in 1..n : incoming'[j] = incoming[j]
      /\ incoming'[n + 1] = a
  BY <1>0, <1>1, AppendProperties
<1>4. ASSUME NEW x \in Places'
      PROVE  \/ \E j \in DOMAIN pending' : x = <<"pending", j>>
             \/ \E j \in 1..n : x = <<"incoming", j>>
             \/ x = <<"incoming", n + 1>>
             \/ \E j \in DOMAIN packets : x = <<"packets", j>>
  BY <1>3 DEF Places
<1>5. \A j \in DOMAIN pending' :
        /\ F(<<"pending", j>>) = <<"pending", Skip(j)>>
        /\ <<"pending", Skip(j)>> \in Places
        /\ At(<<"pending", j>>)' = At(<<"pending", Skip(j)>>)
  BY <1>2 DEF Places, At
<1>6. \A j \in 1..n :
        /\ F(<<"incoming", j>>) = <<"incoming", j>>
        /\ <<"incoming", j>> \in Places
        /\ At(<<"incoming", j>>)' = At(<<"incoming", j>>)
  BY <1>3 DEF Places, At
<1>7. /\ F(<<"incoming", n + 1>>) = <<"pending", i>>
      /\ <<"pending", i>> \in Places
      /\ At(<<"incoming", n + 1>>)' = At(<<"pending", i>>)
  BY <1>3 DEF Places, At
<1>8. \A j \in DOMAIN packets :
        /\ F(<<"packets", j>>) = <<"packets", j>>
        /\ <<"packets", j>> \in Places
        /\ At(<<"packets", j>>)' = At(<<"packets", j>>)
  BY DEF Places, At
<1> HIDE DEF F
<1>9. \A x \in Places' : F(x) \in Places /\ At(x)' = At(F(x))
  <2> SUFFICES ASSUME NEW x \in Places' PROVE F(x) \in Places /\ At(x)' = At(F(x))
    OBVIOUS
  <2> QED BY <1>4, <1>5, <1>6, <1>7, <1>8
<1>10. ASSUME NEW x \in Places', NEW y \in Places', F(x) = F(y) PROVE x = y
  <2>1. ASSUME NEW z \in Places'
        PROVE  \/ \E j \in DOMAIN pending' : /\ z = <<"pending", j>> /\ F(z)[1] = "pending"
                                              /\ F(z)[2] = Skip(j) /\ Skip(j) # i
               \/ z = <<"incoming", n + 1>> /\ F(z)[1] = "pending" /\ F(z)[2] = i
               \/ F(z) = z /\ z[1] # "pending"
    <3>1. CASE \E j \in DOMAIN pending' : z = <<"pending", j>>
      <4>1. PICK j \in DOMAIN pending' : z = <<"pending", j>>
        BY <3>1
      <4>2. F(z) = <<"pending", Skip(j)>> /\ Skip(j) # i
        BY <1>2, <1>5, <4>1
      <4>3. F(z)[1] = "pending" /\ F(z)[2] = Skip(j)
        BY <4>2
      <4> QED BY <4>1, <4>2, <4>3
    <3>2. CASE z = <<"incoming", n + 1>>
      <4>1. F(z) = <<"pending", i>>
        BY <1>7, <3>2
      <4> QED BY <3>2, <4>1
    <3>3. CASE \E j \in 1..n : z = <<"incoming", j>>
      BY <1>6, <3>3
    <3>4. CASE \E j \in DOMAIN packets : z = <<"packets", j>>
      BY <1>8, <3>4
    <3> QED BY <1>4, <3>1, <3>2, <3>3, <3>4
  <2>2. F(x)[1] = F(y)[1] /\ F(x)[2] = F(y)[2]
    BY <1>10
  <2>3. CASE \E j \in DOMAIN pending' : /\ x = <<"pending", j>> /\ F(x)[1] = "pending"
                                         /\ F(x)[2] = Skip(j) /\ Skip(j) # i
    <3>1. PICK j \in DOMAIN pending' : x = <<"pending", j>> /\ F(x)[1] = "pending"
                                       /\ F(x)[2] = Skip(j) /\ Skip(j) # i
      BY <2>3
    <3>2. PICK k \in DOMAIN pending' : y = <<"pending", k>> /\ F(y)[2] = Skip(k)
      BY <2>1, <2>2, <3>1
    <3> QED BY <1>2, <2>2, <3>1, <3>2
  <2>4. CASE x = <<"incoming", n + 1>> /\ F(x)[1] = "pending" /\ F(x)[2] = i
    BY <2>1, <2>2, <2>4
  <2>5. CASE F(x) = x /\ x[1] # "pending"
    BY <1>10, <2>1, <2>2, <2>5
  <2> QED BY <2>1, <2>3, <2>4, <2>5
<1> HIDE DEF Skip
<1>11. Carried(f)
  BY <1>9, <1>10 DEF Carried
<1> QED BY <1>11

\* A reply is queued.
LEMMA ReadCarries ==
    ASSUME IInv, incoming # <<>>, packets' = Append(packets, Head(incoming)),
           incoming' = Tail(incoming), pending' = pending
    PROVE  \E f : Carried(f)
<1>0. PICK n : n = Len(packets)
  OBVIOUS
<1> DEFINE F(x) == IF x[1] = "incoming" THEN <<"incoming", x[2] + 1>>
                   ELSE IF x = <<"packets", n + 1>> THEN <<"incoming", 1>> ELSE x
           f == [x \in Places' |-> F(x)]
<1>1. packets \in Seq(Reply) /\ incoming \in Seq(Reply)
  BY DEF IInv, TypeInv
<1>2. /\ \A j \in DOMAIN incoming' : /\ j + 1 \in DOMAIN incoming /\ j \in Nat /\ j + 1 # 1
                                     /\ incoming'[j] = incoming[j + 1]
      /\ 1 \in DOMAIN incoming /\ Head(incoming) = incoming[1]
  <2>1. /\ incoming' \in Seq(Reply) /\ Len(incoming') = Len(incoming) - 1
        /\ \A j \in 1..Len(incoming') : incoming'[j] = incoming[j + 1]
    BY <1>1
  <2>2. /\ DOMAIN incoming' = 1..(Len(incoming) - 1) /\ DOMAIN incoming = 1..Len(incoming)
        /\ Len(incoming) \in Nat /\ Len(incoming) # 0
    BY <1>1, <2>1, EmptySeq
  <2> QED BY <1>1, <2>1, <2>2
<1>3. /\ DOMAIN packets' = 1..(n + 1) /\ DOMAIN packets = 1..n /\ n \in Nat
      /\ \A j \in 1..n : packets'[j] = packets[j]
      /\ packets'[n + 1] = incoming[1]
  BY <1>0, <1>1, <1>2, AppendProperties
<1>4. ASSUME NEW x \in Places'
      PROVE  \/ \E j \in DOMAIN incoming' : x = <<"incoming", j>>
             \/ \E j \in 1..n : x = <<"packets", j>>
             \/ x = <<"packets", n + 1>>
             \/ \E j \in DOMAIN pending : x = <<"pending", j>>
  BY <1>3 DEF Places
<1>5. \A j \in DOMAIN incoming' :
        /\ F(<<"incoming", j>>) = <<"incoming", j + 1>>
        /\ <<"incoming", j + 1>> \in Places
        /\ At(<<"incoming", j>>)' = At(<<"incoming", j + 1>>)
  BY <1>2 DEF Places, At
<1>6. \A j \in 1..n :
        /\ F(<<"packets", j>>) = <<"packets", j>>
        /\ <<"packets", j>> \in Places
        /\ At(<<"packets", j>>)' = At(<<"packets", j>>)
  BY <1>3 DEF Places, At
<1>7. /\ F(<<"packets", n + 1>>) = <<"incoming", 1>>
      /\ <<"incoming", 1>> \in Places
      /\ At(<<"packets", n + 1>>)' = At(<<"incoming", 1>>)
  BY <1>2, <1>3 DEF Places, At
<1>8. \A j \in DOMAIN pending :
        /\ F(<<"pending", j>>) = <<"pending", j>>
        /\ <<"pending", j>> \in Places
        /\ At(<<"pending", j>>)' = At(<<"pending", j>>)
  BY DEF Places, At
<1> HIDE DEF F
<1>9. \A x \in Places' : F(x) \in Places /\ At(x)' = At(F(x))
  <2> SUFFICES ASSUME NEW x \in Places' PROVE F(x) \in Places /\ At(x)' = At(F(x))
    OBVIOUS
  <2> QED BY <1>4, <1>5, <1>6, <1>7, <1>8
<1>10. ASSUME NEW x \in Places', NEW y \in Places', F(x) = F(y) PROVE x = y
  <2>1. ASSUME NEW z \in Places'
        PROVE  \/ \E j \in Nat : /\ z = <<"incoming", j>> /\ F(z)[1] = "incoming"
                                  /\ F(z)[2] = j + 1 /\ j + 1 # 1
               \/ z = <<"packets", n + 1>> /\ F(z)[1] = "incoming" /\ F(z)[2] = 1
               \/ F(z) = z /\ z[1] # "incoming"
    <3>1. CASE \E j \in DOMAIN incoming' : z = <<"incoming", j>>
      <4>1. PICK j \in DOMAIN incoming' : z = <<"incoming", j>>
        BY <3>1
      <4>2. F(z) = <<"incoming", j + 1>> /\ j \in Nat /\ j + 1 # 1
        BY <1>2, <1>5, <4>1
      <4>3. F(z)[1] = "incoming" /\ F(z)[2] = j + 1
        BY <4>2
      <4> QED BY <4>1, <4>2, <4>3
    <3>2. CASE z = <<"packets", n + 1>>
      <4>1. F(z) = <<"incoming", 1>>
        BY <1>7, <3>2
      <4> QED BY <3>2, <4>1
    <3>3. CASE \E j \in 1..n : z = <<"packets", j>>
      BY <1>6, <3>3
    <3>4. CASE \E j \in DOMAIN pending : z = <<"pending", j>>
      BY <1>8, <3>4
    <3> QED BY <1>4, <3>1, <3>2, <3>3, <3>4
  <2>2. F(x)[1] = F(y)[1] /\ F(x)[2] = F(y)[2]
    BY <1>10
  <2>3. CASE \E j \in Nat : /\ x = <<"incoming", j>> /\ F(x)[1] = "incoming"
                             /\ F(x)[2] = j + 1 /\ j + 1 # 1
    <3>1. PICK j \in Nat : /\ x = <<"incoming", j>> /\ F(x)[1] = "incoming"
                           /\ F(x)[2] = j + 1 /\ j + 1 # 1
      BY <2>3
    <3>2. PICK k \in Nat : y = <<"incoming", k>> /\ F(y)[2] = k + 1
      BY <2>1, <2>2, <3>1
    <3>3. j = k
      BY <2>2, <3>1, <3>2
    <3> QED BY <3>1, <3>2, <3>3
  <2>4. CASE x = <<"packets", n + 1>> /\ F(x)[1] = "incoming" /\ F(x)[2] = 1
    BY <2>1, <2>2, <2>4
  <2>5. CASE F(x) = x /\ x[1] # "incoming"
    BY <1>10, <2>1, <2>2, <2>5
  <2> QED BY <2>1, <2>3, <2>4, <2>5
<1>11. Carried(f)
  BY <1>9, <1>10 DEF Carried
<1> QED BY <1>11

\* A reply is taken off the queue: nothing is carried to its place.
LEMMA TakeCarries ==
    ASSUME IInv, NEW i \in DOMAIN packets, packets' = RemoveAt(packets, i),
           UNCHANGED <<pending, incoming>>
    PROVE  \E f : Carried(f) /\ \A x \in Places' : f[x] # <<"packets", i>>
<1> DEFINE Skip(j) == IF j < i THEN j ELSE j + 1
           F(x) == IF x[1] = "packets" THEN <<"packets", Skip(x[2])>> ELSE x
           f == [x \in Places' |-> F(x)]
<1>1. packets \in Seq(Reply)
  BY DEF IInv, TypeInv
<1>2. /\ \A j \in DOMAIN packets' : /\ Skip(j) \in DOMAIN packets /\ Skip(j) # i
                                    /\ packets'[j] = packets[Skip(j)] /\ j \in Int
      /\ \A j, k \in DOMAIN packets' : Skip(j) = Skip(k) => j = k
  <2>1. /\ packets' \in Seq(Reply) /\ Len(packets') = Len(packets) - 1
        /\ \A j \in DOMAIN packets' : packets'[j] = IF j < i THEN packets[j] ELSE packets[j + 1]
    BY <1>1, RemoveAtIs
  <2>2. /\ DOMAIN packets' = 1..(Len(packets) - 1) /\ DOMAIN packets = 1..Len(packets)
        /\ Len(packets) \in Nat
    BY <1>1, <2>1
  <2> QED BY <2>1, <2>2
<1>4. ASSUME NEW x \in Places'
      PROVE  \/ \E j \in DOMAIN packets' : x = <<"packets", j>>
             \/ \E j \in DOMAIN incoming : x = <<"incoming", j>>
             \/ \E j \in DOMAIN pending : x = <<"pending", j>>
  BY DEF Places
<1>5. \A j \in DOMAIN packets' :
        /\ F(<<"packets", j>>) = <<"packets", Skip(j)>>
        /\ <<"packets", Skip(j)>> \in Places
        /\ At(<<"packets", j>>)' = At(<<"packets", Skip(j)>>)
  BY <1>2 DEF Places, At
<1>6. \A x : x \in Places' /\ x[1] # "packets" =>
               /\ F(x) = x /\ x \in Places /\ At(x)' = At(x)
  BY <1>4 DEF Places, At
<1>7. \A x \in Places' : x[1] = "packets" => \E j \in DOMAIN packets' : x = <<"packets", j>>
  BY <1>4
<1> HIDE DEF F
<1>8. ASSUME NEW z \in Places'
      PROVE  \/ \E j \in DOMAIN packets' :
                   /\ z = <<"packets", j>> /\ F(z) = <<"packets", Skip(j)>> /\ Skip(j) # i
                   /\ F(z)[1] = "packets" /\ F(z)[2] = Skip(j)
             \/ F(z) = z /\ z[1] # "packets"
  <2>1. CASE z[1] = "packets"
    <3>1. PICK j \in DOMAIN packets' : z = <<"packets", j>>
      BY <1>7, <2>1
    <3>2. F(z) = <<"packets", Skip(j)>> /\ Skip(j) # i
      BY <1>2, <1>5, <3>1
    <3>3. F(z)[1] = "packets" /\ F(z)[2] = Skip(j)
      BY <3>2
    <3> QED BY <3>1, <3>2, <3>3
  <2> QED BY <1>6, <2>1
<1>9. \A x \in Places' : F(x) \in Places /\ At(x)' = At(F(x)) /\ F(x) # <<"packets", i>>
  <2> SUFFICES ASSUME NEW x \in Places'
               PROVE  F(x) \in Places /\ At(x)' = At(F(x)) /\ F(x) # <<"packets", i>>
    OBVIOUS
  <2>1. F(x) \in Places /\ At(x)' = At(F(x))
    BY <1>5, <1>6, <1>8
  <2>2. F(x)[1] # "packets" \/ F(x)[2] # i
    BY <1>8
  <2> QED BY <2>1, <2>2
<1>10. ASSUME NEW x \in Places', NEW y \in Places', F(x) = F(y) PROVE x = y
  <2>2. F(x)[1] = F(y)[1] /\ F(x)[2] = F(y)[2]
    BY <1>10
  <2>3. CASE \E j \in DOMAIN packets' : /\ x = <<"packets", j>> /\ F(x)[1] = "packets"
                                         /\ F(x)[2] = Skip(j)
    <3>1. PICK j \in DOMAIN packets' : x = <<"packets", j>> /\ F(x)[1] = "packets"
                                       /\ F(x)[2] = Skip(j)
      BY <2>3
    <3>2. PICK k \in DOMAIN packets' : y = <<"packets", k>> /\ F(y)[2] = Skip(k)
      BY <1>8, <2>2, <3>1
    <3> QED BY <1>2, <2>2, <3>1, <3>2
  <2>5. CASE F(x) = x /\ x[1] # "packets"
    BY <1>8, <1>10, <2>2, <2>5
  <2> QED BY <1>8, <2>3, <2>5
<1> HIDE DEF Skip
<1>11. Carried(f) /\ \A x \in Places' : f[x] # <<"packets", i>>
  BY <1>9, <1>10 DEF Carried
<1> QED BY <1>11

\* A packet is sent: it is under way, and so are those that were.
LEMMA SentPlaces ==
    ASSUME IInv, NEW p \in Pkt, pending' = Append(pending, p), UNCHANGED <<incoming, packets>>
    PROVE  \E y : /\ Places' = Places \cup {y} /\ y \notin Places /\ At(y)' = p
                  /\ \A x \in Places : At(x)' = At(x)
<1>0. PICK n : n = Len(pending)
  OBVIOUS
<1> DEFINE y == <<"pending", n + 1>>
<1>1. /\ DOMAIN pending' = 1..(n + 1) /\ DOMAIN pending = 1..n /\ n \in Nat
      /\ \A j \in 1..n : pending'[j] = pending[j]
      /\ pending'[n + 1] = p
  <2>1. pending \in Seq(Pkt)
    BY DEF IInv, TypeInv
  <2> QED BY <1>0, <2>1, AppendProperties
<1>2. DOMAIN pending' = DOMAIN pending \cup {n + 1} /\ n + 1 \notin DOMAIN pending
  BY <1>1
<1>3. Places' = Places \cup {y} /\ y \notin Places
  BY <1>2 DEF Places
<1>4. At(y)' = p
  BY <1>1 DEF At
<1>5. \A x \in Places : At(x)' = At(x)
  BY <1>1 DEF Places, At
<1> QED BY <1>3, <1>4, <1>5

-------------------------------------------------------------------------------
(* The second invariant: steps that begin or end no operation. *)

LEMMA QuietH ==
    ASSUME IInv, HInv, \E f : Carried(f),
           UNCHANGED <<use, todo, begun, mine, next_channel, nb, open_channel, asked, got,
                       results, given_up, cut>>,
           SlotInv', ReplyInv', CallerInv', DirectInv', AgainInv',
           Safe(use) => lost' = lost
    PROVE  HInv'
<1>1. PICK f : Carried(f)
  OBVIOUS
<1>2. HType' /\ ActiveInv'
  BY DEF HInv, HType, ActiveInv, MachineOf, Op
<1>3. \A p : Fresh(p)' = Fresh(p) /\ (Right(p) => Right(p)')
  BY DEF Fresh, Right
<1>4. next_channel' \in Nat /\ next_channel <= next_channel'
  BY DEF IInv, TypeInv, TypeOK
<1>5. Kept({At(f[x]) : x \in Places'})
  <2> SUFFICES ASSUME NEW x \in Places', Fresh(At(f[x]))
               PROVE  nb'[At(f[x]).m] = "sent"
    BY <1>3 DEF Kept
  <2>1. f[x] \in Places
    BY <1>1 DEF Carried
  <2> QED BY <2>1 DEF HInv, FlightInv
<1>6. FlightInv'
  BY <1>1, <1>4, <1>5, FlightCarried
<1>7. SomeFailed' = SomeFailed
  BY DEF SomeFailed
<1>8. CalmInv'
  <2>1. CASE SomeFailed
    BY <1>7, <2>1 DEF CalmInv
  <2>2. CASE given_up = {} /\ \A x \in Places : Fresh(At(x))
    <3>1. ASSUME NEW x \in Places' PROVE Fresh(At(x))'
      <4>1. PICK p : p = At(f[x])
        OBVIOUS
      <4>2. f[x] \in Places /\ At(x)' = p
        BY <1>1, <4>1 DEF Carried
      <4>3. Fresh(p)'
        BY <1>3, <2>2, <4>1, <4>2
      <4> QED BY <4>2, <4>3 DEF Fresh
    <3> QED BY <2>2, <3>1 DEF CalmInv
  <2> QED BY <2>1, <2>2 DEF HInv, CalmInv
<1>9. GotInv' /\ AnswerRight'
  BY DEF HInv, GotInv, OwnDestination, AnswerRight
<1>10. SerialInv'
  BY <1>7 DEF HInv, SerialInv, Safe
<1> QED
  BY <1>2, <1>6, <1>8, <1>9, <1>10 DEF HInv

\* What the parts depend on.
LEMMA PartsStay ==
    ASSUME HInv, UNCHANGED <<use, todo, begun, mine, nb, open_channel, asked, cut>>
    PROVE  /\ slot' = slot /\ (lost => lost') => SlotInv'
           /\ direct_message' = direct_message /\ (turn' = NoCall \/ (turn # NoCall /\ turn'.who = turn.who))
                 => CallerInv'
           /\ UNCHANGED <<direct_state, direct_message>> => DirectInv'
           /\ packets' = packets => \A c : Fits(c)' = Fits(c)
           /\ packets' = packets /\ (turn' = turn \/ turn' = NoCall) => AgainInv'
           /\ UNCHANGED <<incoming, packets>> => ReplyInv'
<1>1. slot' = slot /\ (lost => lost') => SlotInv'
  BY DEF HInv, SlotInv, Right
<1>2. direct_message' = direct_message /\ (turn' = NoCall \/ (turn # NoCall /\ turn'.who = turn.who))
         => CallerInv'
  BY DEF HInv, CallerInv, OwnCall, MachineOf, Op
<1>3. UNCHANGED <<direct_state, direct_message>> => DirectInv'
  BY DEF HInv, DirectInv
<1>4. packets' = packets => \A c : Fits(c)' = Fits(c)
  BY DEF Fits, Fitting, Matches, MachineOf, Op
<1>5. packets' = packets /\ (turn' = turn \/ turn' = NoCall) => AgainInv'
  BY <1>4 DEF HInv, AgainInv
<1>6. UNCHANGED <<incoming, packets>> => ReplyInv'
  BY DEF HInv, ReplyInv
<1> QED
  BY <1>1, <1>2, <1>3, <1>4, <1>5, <1>6

LEMMA DropH ==
    ASSUME IInv, HInv, Drop \/ UNCHANGED vars
    PROVE  HInv'
<1>1. /\ UNCHANGED <<use, todo, begun, mine, turn, next_channel, open_channel, nb, direct_state,
                     direct_message, slot, packets, pending, incoming, asked, got, results,
                     given_up, cut>>
      /\ lost => lost'
      /\ lost' = lost \/ "drop" \in use.faults
  BY DEF Drop, vars, libVars, directVars
<1>2. Safe(use) => lost' = lost
  BY <1>1 DEF Safe
<1>3. \E f : Carried(f)
  BY <1>1, PlacesStay
<1>4. SlotInv' /\ ReplyInv' /\ CallerInv' /\ DirectInv' /\ AgainInv'
  BY <1>1, PartsStay
<1> QED
  BY <1>1, <1>2, <1>3, <1>4, QuietH

LEMMA AskFindsNoneH ==
    ASSUME IInv, HInv, NEW c \in Callers, AskFindsNone(c)
    PROVE  HInv'
<1>1. /\ UNCHANGED <<use, todo, begun, mine, next_channel, open_channel, nb, direct_state,
                     direct_message, slot, packets, pending, incoming, asked, got, results,
                     given_up, cut, lost>>
      /\ turn' = [who |-> c, at |-> "read"] /\ In(c, "ask")
  BY DEF AskFindsNone, libVars, directVars, serverVars, Go
<1>2. turn # NoCall /\ turn.who = c
  BY <1>1, InTurn
<1>3. \E f : Carried(f)
  BY <1>1, PlacesStay
<1>4. SlotInv' /\ ReplyInv' /\ CallerInv' /\ DirectInv'
  BY <1>1, <1>2, PartsStay
<1>5. AgainInv'
  BY <1>1 DEF AgainInv
<1> QED
  BY <1>1, <1>3, <1>4, <1>5, QuietH

\* The caller of a running call: its machine is at work, and an opening that
\* nobody has cut in on is of its own type.
LEMMA CallerIs ==
    ASSUME IInv, HInv, NEW c \in Callers, NEW at \in {"send", "ask", "read", "again"}, In(c, at)
    PROVE  /\ OwnCall(c) /\ begun[c] /\ nb[MachineOf(c)] \in Begun
           /\ MachineOf(c) = OpenK /\ asked[OpenK][1] = c => open_channel.type = Op(c)
           /\ Op(c) = "direct" /\ "open" \notin cut =>
                 direct_message = c /\ asked[OpenK][1] = c /\ open_channel.type = "direct"
<1>1. /\ turn # NoCall /\ turn.who = c /\ todo[c] # <<>> /\ MachineOf(c) \in Machine
      /\ nb[MachineOf(c)] \in Begun
  BY InTurn DEF Begun
<1>2. OwnCall(c) /\ begun[c]
  BY <1>1 DEF HInv, CallerInv, OwnCall
<1>3. MachineOf(c) = OpenK /\ asked[OpenK][1] = c => open_channel.type = Op(c)
  BY <1>1, ActiveIs
<1>4. Op(c) = "direct" => MachineOf(c) = OpenK
  BY <1>1, MachineIs
<1> QED
  BY <1>1, <1>2, <1>3, <1>4 DEF OwnCall

\* The call returns EAGAIN.
LEMMA WouldBlockH ==
    ASSUME IInv, HInv, NEW c \in Callers, NEW at \in {"send", "read"}, In(c, at), WouldBlock(c),
           UNCHANGED <<use, mine, next_channel, open_channel, nb, packets, pending, incoming,
                       asked, got, given_up, cut, lost>>,
           SlotInv'
    PROVE  HInv'
<1>1. /\ turn' = NoCall /\ UNCHANGED <<direct_message, todo, begun, results>>
      /\ direct_state' = IF Op(c) = "direct" THEN "created" ELSE direct_state
  BY DEF WouldBlock
<1>2. \E f : Carried(f)
  BY PlacesStay
<1>3. ReplyInv' /\ CallerInv' /\ AgainInv'
  BY <1>1, PartsStay
<1>4. DirectInv'
  <2>1. CASE Op(c) = "direct"
    <3>1. nb[OpenK] \in Begun
      BY <2>1, CallerIs, InTurn, MachineIs
    <3>2. "open" \notin cut =>
             direct_message = asked[OpenK][1] /\ open_channel.type = "direct"
      BY <2>1, CallerIs
    <3> QED BY <1>1, <3>1, <3>2 DEF DirectInv, Begun
  <2>2. CASE Op(c) # "direct"
    BY <1>1, <2>2, PartsStay
  <2> QED BY <2>1, <2>2
<1> QED
  BY <1>1, <1>2, <1>3, <1>4, QuietH

LEMMA ReadBlocksH ==
    ASSUME IInv, HInv, NEW c \in Callers, ReadBlocks(c)
    PROVE  HInv'
<1>1. /\ UNCHANGED <<use, mine, next_channel, open_channel, nb, slot, packets, pending, incoming,
                     asked, got, given_up, cut, lost>>
      /\ In(c, "read") /\ WouldBlock(c)
  BY DEF ReadBlocks, libVars, serverVars
<1>2. UNCHANGED <<todo, begun>>
  BY <1>1 DEF WouldBlock
<1>3. SlotInv'
  BY <1>1, <1>2, PartsStay
<1> QED
  BY <1>1, <1>3, WouldBlockH

\* The packet a call hands to the transport is what its machine has asked for.
LEMMA PacketRight ==
    ASSUME IInv, HInv, NEW c \in Callers, In(c, "send")
    PROVE  /\ Right(Packet(c)) /\ Packet(c).m = MachineOf(c)
           /\ Packet(c).m = OpenK => Packet(c).ch = open_channel.id
<1> DEFINE k == MachineOf(c)
<1>1. /\ OwnCall(c) /\ k \in Machine /\ todo[c] # <<>>
      /\ k = OpenK /\ asked[OpenK][1] = c => open_channel.type = Op(c)
      /\ Op(c) = "direct" /\ "open" \notin cut =>
            direct_message = c /\ asked[OpenK][1] = c /\ open_channel.type = "direct"
  BY CallerIs, InTurn
<1>2. /\ Op(c) \in {"session", "direct"} <=> k = OpenK
      /\ k.op = "listen" <=> k = ListenK
      /\ k.op = "listen" <=> Op(c) = "listen"
      /\ k.op = "open" <=> k = OpenK
  BY <1>1, MachineIs, WhichMachine
<1>3. /\ Packet(c).by = asked[k] /\ Packet(c).m = k
      /\ Packet(c).type = IF k.op = "open" THEN open_channel.type ELSE k.op
      /\ Packet(c).dest = CASE Op(c) = "direct" -> direct_message
                            [] Op(c) = "listen" -> c
                            [] OTHER -> NoDest
      /\ Packet(c).ch = CASE k.op = "open" -> open_channel.id
                          [] k.op = "listen" -> NoChan
                          [] OTHER -> remote[mine[c]]
  BY DEF Packet
<1> HIDE DEF k
<1>4. ASSUME k = OpenK, "open" \notin cut
      PROVE  /\ Packet(c).type = open_channel.type
             /\ Packet(c).dest = IF Packet(c).type = "direct" THEN asked[OpenK][1] ELSE NoDest
  <2>1. Op(c) = "session" \/ Op(c) = "direct"
    BY <1>2, <1>4
  <2>2. Packet(c).type = open_channel.type
    BY <1>2, <1>3, <1>4
  <2>3. CASE Op(c) = "direct"
    BY <1>1, <1>3, <1>4, <2>2, <2>3
  <2>4. CASE Op(c) = "session"
    <3>1. open_channel.type = "session"
      BY <1>1, <1>4, <2>4 DEF OwnCall, k
    <3> QED BY <1>3, <2>2, <2>4, <3>1
  <2> QED BY <2>1, <2>2, <2>3, <2>4
<1>5. ASSUME k = ListenK, "listen" \notin cut
      PROVE  Packet(c).type = "listen" /\ Packet(c).dest = asked[ListenK][1]
  <2>1. Op(c) = "listen" /\ k.op = "listen"
    BY <1>2, <1>5
  <2>2. asked[ListenK][1] = c
    BY <1>1, <1>5 DEF OwnCall, k
  <2> QED BY <1>3, <2>1, <2>2
<1>6. Right(Packet(c))
  BY <1>3, <1>4, <1>5 DEF Right
<1> QED
  BY <1>2, <1>3, <1>6 DEF k

LEMMA SendBlocksH ==
    ASSUME IInv, HInv, NEW c \in Callers, SendBlocks(c)
    PROVE  HInv'
<1>1. /\ UNCHANGED <<use, mine, next_channel, open_channel, nb, packets, pending, incoming,
                     asked, got, given_up, cut, lost>>
      /\ In(c, "send") /\ WouldBlock(c)
      /\ slot' = IF slot = NoPacket THEN Packet(c) ELSE slot
  BY DEF SendBlocks, libVars, serverVars
<1>2. UNCHANGED <<todo, begun>>
  BY <1>1 DEF WouldBlock
<1>3. SlotInv'
  <2>1. CASE slot # NoPacket
    BY <1>1, <1>2, <2>1, PartsStay
  <2>2. CASE slot = NoPacket
    <3>1. PICK p : p = Packet(c)
      OBVIOUS
    <3>2. /\ nb[p.m] = "created" /\ Right(p) /\ (p.m = OpenK => p.ch = open_channel.id)
      BY <1>1, <3>1, PacketRight, InTurn
    <3>3. Right(p)'
      BY <1>1, <3>2 DEF Right
    <3>4. slot' = p
      BY <1>1, <2>2, <3>1
    <3> QED BY <1>1, <3>2, <3>3, <3>4 DEF SlotInv, Right
  <2> QED BY <2>1, <2>2
<1> QED
  BY <1>1, <1>3, WouldBlockH

LEMMA AnswerH ==
    ASSUME IInv, HInv, NEW i \in DOMAIN pending, NEW ok \in BOOLEAN, Answer(i, ok)
    PROVE  HInv'
<1> DEFINE m == pending[i]
           b == [type |-> ReplyTypes(m.m)[IF ok THEN 1 ELSE 2],
                 ch |-> IF m.m.op \in Requests THEN peer[m.ch] ELSE m.ch,
                 remote |-> Len(peer) + 1, to |-> m]
<1>1. /\ pending' = RemoveAt(pending, i) /\ incoming' = Append(incoming, b)
      /\ UNCHANGED <<use, todo, begun, mine, turn, next_channel, open_channel, nb, direct_state,
                     direct_message, slot, packets, lost, asked, got, results, given_up, cut>>
  BY DEF Answer, libVars, directVars
<1>2. incoming' \in Seq(Reply) /\ incoming \in Seq(Reply)
  BY AnswerInv DEF IInv, TypeInv
<1>3. PICK a : a = b
  OBVIOUS
<1>4. /\ a.to = pending[i]
      /\ a.type \in {ReplyTypes(a.to.m)[1], ReplyTypes(a.to.m)[2]}
      /\ a.ch = IF m.m.op \in Requests THEN peer[m.ch] ELSE m.ch
  BY <1>3
<1> HIDE DEF b
<1>5. /\ incoming' = Append(incoming, a)
      /\ DOMAIN incoming' = 1..(Len(incoming) + 1) /\ DOMAIN incoming = 1..Len(incoming)
      /\ Len(incoming) \in Nat
      /\ \A j \in 1..Len(incoming) : incoming'[j] = incoming[j]
      /\ incoming'[Len(incoming) + 1] = a
  BY <1>1, <1>2, <1>3
<1>6. a \in Reply
  BY <1>2, <1>5
<1>7. \E f : Carried(f)
  BY <1>1, <1>4, <1>5, <1>6, AnswerCarries
<1>8. ReplyInv'
  <2>1. m.m.op \in Requests => peer[m.ch] = m.m.id
    BY DEF IInv, PacketInv, PacketOK
  <2>2. ReplyOK(a)
    BY <1>4, <2>1 DEF ReplyOK
  <2>3. \A j \in DOMAIN incoming : ReplyOK(incoming[j])
    BY DEF HInv, ReplyInv
  <2>4. ASSUME NEW j \in DOMAIN incoming' PROVE ReplyOK(incoming'[j])
    <3>1. j \in 1..Len(incoming) \/ j = Len(incoming) + 1
      BY <1>5
    <3> QED BY <1>5, <2>2, <2>3, <3>1
  <2>5. \A j \in DOMAIN packets : ReplyOK(packets[j])
    BY DEF HInv, ReplyInv
  <2> QED BY <1>1, <2>4, <2>5 DEF ReplyInv
<1>9. SlotInv' /\ CallerInv' /\ DirectInv' /\ AgainInv'
  BY <1>1, PartsStay
<1> QED
  BY <1>1, <1>7, <1>8, <1>9, QuietH

\* When callers take turns and nothing has failed, a reply is for the
\* running call: it is what this call looks for.
LEMMA ForCaller ==
    ASSUME IInv, HInv, NEW c \in Callers, In(c, "read"), Safe(use), NEW x \in Places,
           NEW r \in Reply, r.to = At(x), ReplyOK(r)
    PROVE  r.to.m = MachineOf(c) /\ Matches(c, r)
<1> DEFINE k == MachineOf(c)
<1>1. ~SomeFailed /\ Fresh(At(x))
  BY DEF HInv, SerialInv, CalmInv
<1>2. nb[At(x).m] = "sent" /\ At(x).m \in Machine
  BY <1>1, Placed DEF HInv, FlightInv
<1>3. PICK d \in Callers : /\ begun[d] /\ MachineOf(d) = At(x).m
                           /\ At(x).m = OpenK => open_channel.type = Op(d)
  BY <1>2, ActiveIs DEF Begun
<1>4. begun[c] /\ todo[c] # <<>> /\ k \in Machine
  BY CallerIs, InTurn
<1>5. d = c
  BY <1>3, <1>4 DEF HInv, SerialInv, Safe
<1>6. r.to.m = k
  BY <1>3, <1>5
<1>7. CASE k = OpenK
  <2>1. open_channel.type = Op(c) /\ r.to.ch = open_channel.id
    BY <1>1, <1>3, <1>5, <1>6, <1>7 DEF Fresh
  <2>2. r.ch = r.to.ch
    BY <1>6, <1>7 DEF ReplyOK, OpenK, Requests
  <2> QED BY <1>6, <1>7, <2>1, <2>2 DEF Matches, OpenK
<1>8. CASE k = ListenK
  BY <1>6, <1>8 DEF Matches, ListenK
<1>9. CASE k.op \in Requests
  <2>1. k.id = mine[c]
    BY <1>4, <1>9, MachineIs DEF Requests
  <2>2. r.ch = k.id
    BY <1>6, <1>9 DEF ReplyOK
  <2> QED BY <1>6, <1>9, <2>1, <2>2 DEF Matches, Requests
<1> QED
  BY <1>4, <1>7, <1>8, <1>9, WhichMachine

LEMMA ReadH ==
    ASSUME IInv, HInv, NEW c \in Callers, Read(c)
    PROVE  HInv'
<1> DEFINE n == Len(packets)
<1>1. /\ UNCHANGED <<use, todo, begun, mine, next_channel, open_channel, nb, direct_state,
                     direct_message, slot, pending, lost, asked, got, results, given_up, cut>>
      /\ In(c, "read") /\ incoming # <<>> /\ packets' = Append(packets, Head(incoming))
      /\ incoming' = Tail(incoming)
  BY DEF Read, libVars, directVars
<1>2. /\ turn'.who = c
      /\ turn'.at = "again" => Head(incoming).type \in {ReplyTypes(MachineOf(c))[1],
                                                        ReplyTypes(MachineOf(c))[2]}
  BY DEF Read, Go
<1>3. incoming \in Seq(Reply) /\ packets \in Seq(Reply)
  BY DEF IInv, TypeInv
<1>4. PICK r : r = Head(incoming)
  OBVIOUS
<1>5. r \in Reply /\ 1 \in DOMAIN incoming /\ r = incoming[1]
  BY <1>1, <1>3, <1>4, EmptySeq
<1>6. /\ DOMAIN packets' = 1..(n + 1) /\ DOMAIN packets = 1..n /\ n \in Nat
      /\ \A j \in 1..n : packets'[j] = packets[j]
      /\ packets'[n + 1] = r
  BY <1>1, <1>3, <1>4, <1>5, AppendProperties
<1>7. \A j \in DOMAIN incoming' : \E i \in DOMAIN incoming : incoming'[j] = incoming[i]
  <2>1. /\ incoming' \in Seq(Reply) /\ Len(incoming') = Len(incoming) - 1
        /\ \A j \in 1..Len(incoming') : incoming'[j] = incoming[j + 1]
    BY <1>1, <1>3
  <2>2. /\ DOMAIN incoming' = 1..(Len(incoming) - 1) /\ DOMAIN incoming = 1..Len(incoming)
        /\ Len(incoming) \in Nat
    BY <1>3, <2>1
  <2>3. ASSUME NEW j \in DOMAIN incoming'
        PROVE  j + 1 \in DOMAIN incoming /\ incoming'[j] = incoming[j + 1]
    BY <2>1, <2>2
  <2> QED BY <2>3
<1> HIDE DEF n
<1>8. ReplyInv'
  <2>1. /\ \A j \in DOMAIN incoming : ReplyOK(incoming[j])
        /\ \A j \in DOMAIN packets : ReplyOK(packets[j])
    BY DEF HInv, ReplyInv
  <2>2. ASSUME NEW j \in DOMAIN packets' PROVE ReplyOK(packets'[j])
    <3>1. j \in 1..n \/ j = n + 1
      BY <1>6
    <3> QED BY <1>5, <1>6, <2>1, <3>1
  <2> QED BY <1>7, <2>1, <2>2 DEF ReplyInv
<1>9. \E f : Carried(f)
  BY <1>1, ReadCarries
<1>10. AgainInv'
  <2> SUFFICES ASSUME Safe(use), turn'.at = "again" PROVE Fits(c)' # {}
    BY <1>1, <1>2 DEF AgainInv
  <2>0. PICK k, t : k = MachineOf(c) /\ t = ReplyTypes(k)
    OBVIOUS
  <2>1. r.type \in {t[1], t[2]}
    BY <1>2, <1>4, <2>0
  <2>2. <<"incoming", 1>> \in Places /\ At(<<"incoming", 1>>) = r.to /\ ReplyOK(r)
    BY <1>5 DEF Places, At, HInv, ReplyInv
  <2>3. Matches(c, r)
    BY <1>1, <1>5, <2>2, ForCaller
  <2>4. MachineOf(c)' = k
    BY <1>1, <2>0 DEF MachineOf, Op
  <2>5. n + 1 \in DOMAIN packets' /\ packets'[n + 1] = r
    BY <1>6
  <2>6. Matches(c, r)'
    BY <1>1, <2>0, <2>3, <2>4 DEF Matches, Op
  <2>7. ASSUME NEW j, n + 1 = j PROVE Fitting(c, r.type)' # {}
    <3>1. j \in DOMAIN packets' /\ packets'[j] = r
      BY <2>5, <2>7
    <3> QED BY <2>6, <3>1 DEF Fitting
  <2>8. Fitting(c, r.type)' # {}
    BY <2>7
  <2>9. PICK ty : ty = r.type /\ Fitting(c, ty)' # {}
    BY <2>8
  <2>10. Fits(c)' = IF Fitting(c, t[1])' # {} THEN Fitting(c, t[1])' ELSE Fitting(c, t[2])'
    <3>1. Fits(c)' = IF Fitting(c, ReplyTypes(k)[1])' # {}
                       THEN Fitting(c, ReplyTypes(k)[1])' ELSE Fitting(c, ReplyTypes(k)[2])'
      BY <2>4 DEF Fits, Fitting
    <3> QED BY <2>0, <3>1
  <2> QED BY <2>1, <2>9, <2>10
<1>11. turn # NoCall /\ turn.who = c
  BY <1>1, InTurn
<1>12. SlotInv' /\ DirectInv' /\ CallerInv'
  BY <1>1, <1>2, <1>11, PartsStay
<1> QED
  BY <1>1, <1>8, <1>9, <1>10, <1>12, QuietH

LEMMA SentH ==
    ASSUME IInv, HInv, NEW c \in Callers, Sent(c)
    PROVE  HInv'
<1>1. /\ In(c, "send") /\ ~lost /\ (slot = NoPacket \/ Held(c))
      /\ pending' = Append(pending, IF Held(c) THEN slot ELSE Packet(c))
      /\ slot' = NoPacket /\ nb' = [nb EXCEPT ![MachineOf(c)] = "sent"]
      /\ turn' = [who |-> c, at |-> "ask"]
      /\ UNCHANGED <<use, todo, begun, mine, next_channel, open_channel, direct_state,
                     direct_message, packets, incoming, lost, asked, got, results, given_up, cut>>
  BY DEF Sent, libVars, directVars, serverVars, Go
<1>2. PICK k \in Machine : k = MachineOf(c)
  BY <1>1, InTurn
<1>3. /\ turn # NoCall /\ turn.who = c /\ nb[k] = "created"
      /\ nb \in [Machine -> {"idle", "created", "sent", "end"}]
  BY <1>1, <1>2, InTurn DEF IInv, TypeInv, TypeOK
<1>4. PICK p : p = IF Held(c) THEN slot ELSE Packet(c)
  OBVIOUS
<1>5. p \in Pkt /\ p.m = k /\ Right(p) /\ (k = OpenK => p.ch = open_channel.id)
  <2>1. CASE Held(c)
    <3>1. p = slot /\ slot # NoPacket /\ slot.by = asked[k] /\ slot \in Pkt
      BY <1>2, <1>4, <2>1 DEF Held, IInv, TypeInv
    <3>2. /\ nb[slot.m] = "created" /\ Right(slot) /\ (slot.m = OpenK => slot.ch = open_channel.id)
      BY <1>1, <3>1 DEF HInv, SlotInv
    <3>3. slot.m \in Machine /\ asked[slot.m] = asked[k]
      BY <3>1, <3>2 DEF Right, Pkt
    <3>4. slot.m = k
      BY <1>3, <3>2, <3>3, OneActive DEF Begun
    <3> QED BY <3>1, <3>2, <3>4
  <2>2. CASE ~Held(c)
    BY <1>1, <1>2, <1>4, <2>2, PacketRight, PacketMade
  <2> QED BY <2>1, <2>2
<1>6. PICK y : /\ Places' = Places \cup {y} /\ y \notin Places /\ At(y)' = p
               /\ \A x \in Places : At(x)' = At(x)
  BY <1>1, <1>4, <1>5, SentPlaces
<1>7. nb' = [nb EXCEPT ![k] = "sent"]
  BY <1>1, <1>2
<1>8. \A q : Fresh(q)' = Fresh(q) /\ (Right(q) => Right(q)')
  BY <1>1 DEF Fresh, Right
<1>9. ASSUME NEW x \in Places
      PROVE  /\ Fresh(At(x))' = Fresh(At(x))
             /\ Fresh(At(x)) => At(x)'.m # k /\ nb'[At(x)'.m] = "sent" /\ Right(At(x))'
             /\ At(x)'.m = OpenK => At(x)'.ch \in Nat /\ At(x)'.ch < next_channel'
  <2>1. PICK q : q = At(x)
    OBVIOUS
  <2>2. At(x)' = q /\ q.m \in Machine
    BY <1>6, <2>1, Placed
  <2>3. /\ Fresh(q) => nb[q.m] = "sent" /\ Right(q)
        /\ q.m = OpenK => q.ch \in Nat /\ q.ch < next_channel
    BY <2>1 DEF HInv, FlightInv
  <2>4. Fresh(q) => q.m # k /\ nb'[q.m] = "sent" /\ Right(q)'
    BY <1>3, <1>7, <1>8, <2>2, <2>3
  <2>5. /\ Fresh(At(x))' = Fresh(q)'
        /\ Right(At(x))' = Right(q)'
    BY <2>2 DEF Fresh, Right
  <2> QED BY <1>1, <1>8, <2>1, <2>2, <2>3, <2>4, <2>5
<1>10. /\ nb'[p.m] = "sent" /\ Right(p)'
       /\ p.m = OpenK => p.ch \in Nat /\ p.ch < next_channel' /\ Fresh(p)'
  <2>1. k = OpenK => open_channel.id \in Nat /\ open_channel.id < next_channel
    <3>1. k = OpenK => open_channel.id # NoChan /\ open_channel.id \in Ids
      BY <1>3 DEF IInv, OpenInv, TypeInv
    <3>2. k = OpenK => open_channel.id \in channels
      BY <3>1 DEF IInv, OpenInv, ChannelsOwned
    <3>3. Ids \subseteq Nat
      BY DEF Ids
    <3> QED BY <3>1, <3>2, <3>3 DEF IInv, OpenInv
  <2> QED BY <1>1, <1>3, <1>5, <1>7, <1>8, <2>1 DEF Fresh
<1>11. Right(At(y))' = Right(p)' /\ Fresh(At(y))' = Fresh(p)'
  BY <1>6 DEF Right, Fresh
<1>12. FlightInv'
  <2>1. \A x \in Places' : Fresh(At(x))' => nb'[At(x)'.m] = "sent" /\ Right(At(x))'
    BY <1>6, <1>9, <1>10, <1>11
  <2>2. \A x \in Places' : At(x)'.m = OpenK => At(x)'.ch \in Nat /\ At(x)'.ch < next_channel'
    BY <1>6, <1>9, <1>10
  <2>3. ASSUME NEW x \in Places', NEW z \in Places', Fresh(At(x))', Fresh(At(z))',
               At(x)'.m = At(z)'.m
        PROVE  x = z
    <3>1. CASE x \in Places /\ z \in Places
      <4>1. Fresh(At(x)) /\ Fresh(At(z)) /\ At(x).m = At(z).m
        BY <1>6, <1>9, <2>3, <3>1
      <4> QED BY <3>1, <4>1 DEF HInv, FlightInv
    <3>2. CASE x = y /\ z \in Places
      BY <1>5, <1>6, <1>9, <2>3, <3>2
    <3>3. CASE z = y /\ x \in Places
      BY <1>5, <1>6, <1>9, <2>3, <3>3
    <3> QED BY <1>6, <3>1, <3>2, <3>3
  <2> QED BY <2>1, <2>2, <2>3 DEF FlightInv
<1>13. HType' /\ GotInv' /\ AnswerRight' /\ ReplyInv' /\ SlotInv'
  BY <1>1 DEF HInv, HType, GotInv, OwnDestination, AnswerRight, ReplyInv, SlotInv
<1>14. \A j \in Machine : nb'[j] \in Begun => nb[j] \in Begun
  BY <1>3, <1>7 DEF Begun
<1>15. ActiveInv'
  BY <1>1, <1>14 DEF HInv, ActiveInv, MachineOf, Op
<1>16. CallerInv'
  BY <1>1, <1>3 DEF HInv, CallerInv, OwnCall, MachineOf, Op
<1>17. DirectInv'
  BY <1>1, <1>3, <1>7, Machines DEF HInv, DirectInv
<1>18. CalmInv'
  <2>1. SomeFailed' = SomeFailed
    BY <1>1 DEF SomeFailed
  <2>2. ASSUME given_up = {}, \A x \in Places : Fresh(At(x))
        PROVE  \A x \in Places' : Fresh(At(x))'
    <3>1. Fresh(p)'
      BY <1>1, <1>5, <1>10, <2>2 DEF Fresh
    <3> QED BY <1>6, <1>9, <1>11, <2>2, <3>1
  <2> QED BY <1>1, <2>1, <2>2 DEF HInv, CalmInv
<1>19. SerialInv' /\ AgainInv'
  <2>1. SomeFailed' = SomeFailed
    BY <1>1 DEF SomeFailed
  <2> QED BY <1>1, <2>1 DEF HInv, SerialInv, Safe, AgainInv
<1> QED
  BY <1>12, <1>13, <1>15, <1>16, <1>17, <1>18, <1>19 DEF HInv

-------------------------------------------------------------------------------
(* The second invariant: a call, for the first time or again. *)

LEMMA CallH ==
    ASSUME IInv, HInv, NEW c \in Callers, Call(c)
    PROVE  HInv'
<1>1. PICK k : k = MachineOf(c)
  OBVIOUS
<1>2. /\ turn = NoCall /\ todo[c] # <<>> /\ nb[k] # "end"
      /\ use.serial => \A d \in Callers \ {c} : ~begun[d]
      /\ begun' = [begun EXCEPT ![c] = TRUE]
      /\ direct_message' = IF Op(c) = "direct" /\ direct_state = "idle" THEN c ELSE direct_message
      /\ turn' = [who |-> c, at |-> IF nb[k] = "sent" THEN "ask" ELSE "send"]
      /\ UNCHANGED <<use, todo, mine, direct_state, slot, packets, pending, incoming, lost,
                     got, results, given_up>>
  BY <1>1 DEF Call, Go, serverVars
<1>3. /\ IF nb[k] = "idle" /\ k.op = "open"
           THEN next_channel' = NextId + 1 /\ open_channel' = [id |-> NextId, type |-> Op(c)]
           ELSE UNCHANGED <<next_channel, open_channel>>
      /\ nb' = IF nb[k] = "idle" THEN [nb EXCEPT ![k] = "created"] ELSE nb
      /\ asked' = IF nb[k] = "idle" THEN [asked EXCEPT ![k] = <<c, Len(results[c])>>] ELSE asked
      /\ cut' = IF /\ nb[k] # "idle" /\ k.op \in {"open", "listen"} /\ asked[k][1] # c
                   /\ {k.op, Op(c), open_channel.type} # {"open", "session"}
                  THEN cut \cup {k.op} ELSE cut
  BY <1>1 DEF Call
<1>4. /\ k \in Machine /\ Op(c) \in Kinds
      /\ k.op = "open" <=> k = OpenK
      /\ k.op = "listen" <=> k = ListenK
      /\ k = OpenK <=> Op(c) \in {"session", "direct"}
      /\ nb \in [Machine -> {"idle", "created", "sent", "end"}]
      /\ asked \in [Machine -> By] /\ begun \in [Callers -> BOOLEAN]
  BY <1>1, <1>2, MachineIs, WhichMachine DEF IInv, TypeInv, TypeOK, HInv, HType
<1>5. \A d : MachineOf(d)' = MachineOf(d) /\ Op(d)' = Op(d)
  BY <1>2 DEF MachineOf, Op
<1>6. /\ begun'[c] /\ \A d \in Callers : begun[d] => begun'[d]
      /\ \A d \in Callers \ {c} : begun'[d] = begun[d]
      /\ begun' \in [Callers -> BOOLEAN]
  BY <1>2, <1>4
<1>7. cut \subseteq cut' /\ (nb[k] = "idle" => cut' = cut)
  BY <1>3
<1>8. \A j \in Machine : j # k \/ nb[k] # "idle" => nb'[j] = nb[j] /\ asked'[j] = asked[j]
  BY <1>3, <1>4
<1>9. nb[k] = "idle" => nb'[k] = "created" /\ asked'[k] = <<c, Len(results[c])>>
  BY <1>3, <1>4
<1>10. k # OpenK \/ nb[k] # "idle" =>
          open_channel' = open_channel /\ next_channel' = next_channel
  BY <1>3, <1>4
<1>11. k = OpenK /\ nb[k] = "idle" =>
          /\ open_channel' = [id |-> next_channel, type |-> Op(c)]
          /\ next_channel' = next_channel + 1
  BY <1>2, <1>3, <1>4, NewId
<1>12. next_channel \in Nat
  BY DEF IInv, TypeInv, TypeOK
<1>13. HType' /\ ReplyInv' /\ GotInv' /\ AnswerRight'
  <2>1. ReplyInv'
    BY <1>2 DEF HInv, ReplyInv
  <2>2. HType'
    BY <1>2, <1>6 DEF HInv, HType
  <2>3. GotInv'
    BY <1>2, <1>7 DEF HInv, GotInv, OwnDestination
  <2>4. AnswerRight'
    BY <1>2 DEF HInv, AnswerRight
  <2> QED BY <2>1, <2>2, <2>3, <2>4
<1>14. ActiveInv'
  <2> SUFFICES ASSUME NEW j \in Machine, nb'[j] \in Begun
               PROVE  \E d \in Callers :
                         /\ asked'[j] = <<d, Len(results'[d])>> /\ begun'[d]
                         /\ todo'[d] # <<>> /\ MachineOf(d)' = j
                         /\ j = OpenK => open_channel'.type = Op(d)'
    BY DEF ActiveInv
  <2>1. CASE j = k /\ nb[k] = "idle"
    <3>1. j = OpenK => open_channel'.type = Op(c)'
      BY <1>5, <1>11, <2>1
    <3> QED BY <1>1, <1>2, <1>5, <1>6, <1>9, <2>1, <3>1
  <2>2. CASE j # k \/ nb[k] # "idle"
    <3>1. nb[j] \in Begun /\ asked'[j] = asked[j]
      BY <1>8, <2>2
    <3>2. PICK d \in Callers : /\ asked[j] = <<d, Len(results[d])>>
                               /\ begun[d] /\ todo[d] # <<>> /\ MachineOf(d) = j
                               /\ j = OpenK => open_channel.type = Op(d)
      BY <3>1, ActiveIs
    <3>3. j = OpenK => open_channel' = open_channel
      BY <1>10, <2>2
    <3> QED BY <1>2, <1>5, <1>6, <3>1, <3>2, <3>3
  <2> QED BY <2>1, <2>2
<1>15. SlotInv'
  <2> SUFFICES ASSUME slot # NoPacket, ~lost
               PROVE  /\ nb'[slot.m] = "created" /\ Right(slot)'
                      /\ slot.m = OpenK => slot.ch = open_channel'.id
    BY <1>2 DEF SlotInv, Right
  <2>1. /\ nb[slot.m] = "created" /\ Right(slot) /\ slot.m \in Machine
        /\ slot.m = OpenK => slot.ch = open_channel.id
    BY DEF HInv, SlotInv, IInv, TypeInv, Pkt
  <2>2. slot.m # k \/ nb[k] # "idle"
    BY <2>1
  <2>3. /\ nb'[slot.m] = "created" /\ asked'[slot.m] = asked[slot.m]
        /\ slot.m = OpenK => open_channel' = open_channel
    BY <1>8, <1>10, <2>1, <2>2
  <2>4. Right(slot)'
    BY <1>2, <1>7, <2>1, <2>3 DEF Right
  <2> QED BY <2>1, <2>3, <2>4
<1>16. \A p : p.m = OpenK /\ p.ch \in Nat /\ p.ch < next_channel /\ Fresh(p)' =>
                 k # OpenK \/ nb[k] # "idle"
  BY <1>11, <1>12 DEF Fresh
<1>17. ASSUME NEW x \in Places
       PROVE  Fresh(At(x))' => /\ Fresh(At(x)) /\ nb'[At(x).m] = "sent"
                               /\ Right(At(x)) => Right(At(x))'
  <2>1. PICK p : p = At(x)
    OBVIOUS
  <2>2. At(x)' = p
    BY <1>2, <2>1, PlacesStay
  <2>3. /\ p.m \in Machine
        /\ Fresh(p) => nb[p.m] = "sent" /\ Right(p)
        /\ p.m = OpenK => p.ch \in Nat /\ p.ch < next_channel
    BY <2>1, Placed DEF HInv, FlightInv
  <2>4. ASSUME Fresh(p)'
        PROVE  Fresh(p) /\ nb'[p.m] = "sent" /\ Right(p)'
    <3>1. p.m = OpenK => k # OpenK \/ nb[k] # "idle"
      BY <1>16, <2>3, <2>4
    <3>2. p.m = OpenK => open_channel' = open_channel
      BY <1>10, <3>1
    <3>3. Fresh(p)
      BY <1>2, <2>4, <3>2 DEF Fresh
    <3>4. nb'[p.m] = "sent" /\ asked'[p.m] = asked[p.m]
      BY <1>8, <2>3, <3>3
    <3>5. Right(p)'
      BY <1>7, <2>3, <3>2, <3>3, <3>4 DEF Right
    <3> QED BY <3>3, <3>4, <3>5
  <2>5. Fresh(At(x))' = Fresh(p)' /\ Right(At(x))' = Right(p)'
    BY <2>2 DEF Fresh, Right
  <2> QED BY <2>1, <2>2, <2>4, <2>5
<1>18. FlightInv'
  <2>1. \A x \in Places' : At(x)' = At(x) /\ x \in Places
    BY <1>2, PlacesStay
  <2>2. next_channel' \in Nat /\ next_channel <= next_channel'
    BY <1>10, <1>11, <1>12
  <2>3. ASSUME NEW x \in Places'
        PROVE  /\ Fresh(At(x))' => nb'[At(x)'.m] = "sent" /\ Right(At(x))' /\ Fresh(At(x))
               /\ At(x)'.m = OpenK => At(x)'.ch \in Nat /\ At(x)'.ch < next_channel'
    <3>1. x \in Places /\ At(x)' = At(x)
      BY <2>1
    <3>2. /\ Fresh(At(x)) => Right(At(x))
          /\ At(x).m = OpenK => At(x).ch \in Nat /\ At(x).ch < next_channel
      BY <3>1 DEF HInv, FlightInv
    <3> QED BY <1>12, <1>17, <2>2, <3>1, <3>2
  <2>4. ASSUME NEW x \in Places', NEW y \in Places', Fresh(At(x))', Fresh(At(y))',
               At(x)'.m = At(y)'.m
        PROVE  x = y
    <3>1. /\ x \in Places /\ y \in Places /\ At(x).m = At(y).m
          /\ Fresh(At(x)) /\ Fresh(At(y))
      BY <2>1, <2>3, <2>4
    <3> QED BY <3>1 DEF HInv, FlightInv
  <2> QED BY <2>3, <2>4 DEF FlightInv
<1>19. ASSUME nb[k] # "idle", k.op \notin cut'
       PROVE  /\ k = OpenK => \/ asked[OpenK][1] = c
                              \/ Op(c) = "session" /\ open_channel.type = "session"
              /\ k = ListenK => asked[ListenK][1] = c
  <2>1. \/ k.op \notin {"open", "listen"} \/ asked[k][1] = c
        \/ {k.op, Op(c), open_channel.type} = {"open", "session"}
    BY <1>3, <1>19
  <2>2. open_channel.type \in Kinds \cup {"none"}
    BY DEF IInv, TypeInv
  <2>3. CASE {k.op, Op(c), open_channel.type} = {"open", "session"}
    BY <1>4, <2>2, <2>3 DEF Kinds, Openings, Requests
  <2> QED BY <1>4, <2>1, <2>3
<1>20. ASSUME direct_state = "created", "open" \notin cut'
       PROVE  /\ nb[OpenK] # "idle" /\ open_channel.type = "direct"
              /\ direct_message = asked[OpenK][1]
              /\ nb'[OpenK] = nb[OpenK] /\ open_channel' = open_channel
              /\ asked'[OpenK] = asked[OpenK]
  <2>1. /\ nb[OpenK] # "idle" /\ open_channel.type = "direct"
        /\ direct_message = asked[OpenK][1]
    BY <1>7, <1>20 DEF HInv, DirectInv
  <2>2. OpenK # k \/ nb[k] # "idle"
    BY <2>1
  <2> QED BY <1>8, <1>10, <2>1, <2>2, Machines
<1>21. DirectInv'
  <2> SUFFICES ASSUME direct_state' = "created", "open" \notin cut'
               PROVE  /\ nb'[OpenK] # "idle" /\ open_channel'.type = "direct"
                      /\ direct_message' = asked'[OpenK][1]
    BY DEF DirectInv
  <2>1. direct_state = "created" /\ direct_message' = direct_message
    BY <1>2
  <2> QED BY <1>20, <2>1
<1>22. CallerInv'
  <2>1. ASSUME k = OpenK, "open" \notin cut'
        PROVE  \/ asked'[OpenK][1] = c
               \/ Op(c) = "session" /\ open_channel'.type = "session"
    <3>1. CASE nb[k] = "idle"
      BY <1>9, <2>1, <3>1
    <3>2. CASE nb[k] # "idle"
      BY <1>4, <1>8, <1>10, <1>19, <2>1, <3>2
    <3> QED BY <3>1, <3>2
  <2>2. ASSUME k = ListenK, "listen" \notin cut'
        PROVE  asked'[ListenK][1] = c
    <3>1. CASE nb[k] = "idle"
      BY <1>9, <2>2, <3>1
    <3>2. CASE nb[k] # "idle"
      BY <1>4, <1>8, <1>19, <2>2, <3>2
    <3> QED BY <3>1, <3>2
  <2>3. ASSUME Op(c) = "direct", "open" \notin cut'
        PROVE  direct_message' = c
    <3>1. CASE direct_state = "idle"
      BY <1>2, <2>3, <3>1
    <3>2. CASE direct_state = "created"
      <4>1. k = OpenK /\ nb[k] # "idle" /\ direct_message = asked[OpenK][1]
        BY <1>4, <1>20, <2>3, <3>2
      <4>2. asked[OpenK][1] = c
        BY <1>4, <1>19, <2>3, <4>1
      <4> QED BY <1>2, <3>2, <4>1, <4>2
    <3> QED BY <3>1, <3>2 DEF IInv, TypeInv, TypeOK
  <2>4. OwnCall(c)'
    BY <1>1, <1>5, <1>6, <2>1, <2>2, <2>3 DEF OwnCall
  <2>5. turn'.who = c
    BY <1>2
  <2> QED BY <2>4, <2>5 DEF CallerInv, OwnCall, MachineOf, Op
<1>23. SomeFailed' = SomeFailed
  BY <1>2 DEF SomeFailed
<1>24. CalmInv'
  <2> SUFFICES ASSUME given_up = {}, \A x \in Places : Fresh(At(x))
               PROVE  \A x \in Places' : Fresh(At(x))'
    BY <1>2, <1>23 DEF HInv, CalmInv
  <2> SUFFICES ASSUME NEW x \in Places' PROVE Fresh(At(x))'
    OBVIOUS
  <2>1. PICK p : p = At(x)
    OBVIOUS
  <2>2. x \in Places /\ At(x)' = p
    BY <1>2, <2>1, PlacesStay
  <2>3. Fresh(p) /\ nb[p.m] = "sent" /\ p.m \in Machine
    BY <2>1, <2>2, Placed DEF HInv, FlightInv
  <2>4. p.m = OpenK => open_channel' = open_channel
    BY <1>10, <2>3
  <2>5. Fresh(p)'
    BY <1>2, <2>3, <2>4 DEF Fresh
  <2> QED BY <2>2, <2>5 DEF Fresh
<1>25. SerialInv'
  <2>1. use.serial => \A d, e \in Callers : begun'[d] /\ begun'[e] => d = e
    BY <1>2, <1>6
  <2> QED BY <1>2, <1>23, <2>1 DEF HInv, SerialInv, Safe
<1>26. AgainInv'
  BY <1>2 DEF AgainInv
<1> QED
  BY <1>13, <1>14, <1>15, <1>18, <1>21, <1>22, <1>24, <1>25, <1>26 DEF HInv

-------------------------------------------------------------------------------
(* The second invariant: the end of an operation. *)

\* What the ends of operations have in common.
Ends(c, res, own) ==
    /\ todo[c] # <<>> /\ Finish(c, res, own)
    /\ UNCHANGED <<use, next_channel, slot, lost, asked, cut>>
    /\ nb' = [nb EXCEPT ![MachineOf(c)] = EndState(MachineOf(c))]
    /\ lost \/ nb[MachineOf(c)] # "created"
    /\ given_up \subseteq given_up'
    /\ \A d \in Callers \ {c} : mine'[d] = mine[d] /\ got'[d] = got[d]
    /\ IF MachineOf(c) = OpenK
         THEN open_channel' = NoOpening /\ \E at \in {"send", "ask", "read", "again"} : In(c, at)
         ELSE open_channel' = open_channel

\* The caller has now what it asked for.
OwnGot(c) ==
    \/ got'[c] = got[c]
    \/ /\ Op(c) \in Openings
       /\ \/ Op(c) = "listen" /\ "listen" \notin cut /\ NoChan \notin given_up
          \/ Op(c) # "listen" /\ "open" \notin cut
          => got'[c] = [type |-> Op(c), dest |-> IF Op(c) = "session" THEN NoDest ELSE c]

\* The result is added to those of the caller.
LEMMA EndsResults ==
    ASSUME IInv, HInv, NEW c \in Callers, NEW res, NEW own, Ends(c, res, own)
    PROVE  /\ \A d \in Callers \ {c} : /\ results'[d] = results[d] /\ todo'[d] = todo[d]
                                       /\ begun'[d] = begun[d] /\ Op(d)' = Op(d)
                                       /\ MachineOf(d)' = MachineOf(d)
           /\ begun' \in [Callers -> BOOLEAN] /\ \A d \in Callers : begun'[d] => begun[d]
           /\ DOMAIN results'[c] = 1..(Len(results[c]) + 1)
           /\ DOMAIN results[c] = 1..Len(results[c]) /\ Len(results[c]) \in Nat
           /\ \A i \in 1..Len(results[c]) : results'[c][i] = results[c][i]
           /\ results'[c][Len(results[c]) + 1] =
                 [op |-> Op(c), res |-> res, own |-> own,
                  clean |-> MachineOf(c).id \notin given_up]
<1> DEFINE e == [op |-> Op(c), res |-> res, own |-> own,
                 clean |-> MachineOf(c).id \notin given_up]
<1>1. /\ results' = [results EXCEPT ![c] = Append(@, e)]
      /\ todo' = [todo EXCEPT ![c] =
                     IF Op(c) \in Openings /\ res # "OK" THEN <<>> ELSE Tail(@)]
      /\ begun' = [begun EXCEPT ![c] = FALSE]
      /\ \A d \in Callers \ {c} : mine'[d] = mine[d]
  BY DEF Ends, Finish
<1>2. /\ results \in [Callers -> Seq(Outcome)] /\ todo \in [Callers -> Seq(Kinds)]
      /\ begun \in [Callers -> BOOLEAN]
  BY DEF IInv, TypeInv, HInv, HType
<1>3. \A d \in Callers \ {c} : /\ results'[d] = results[d] /\ todo'[d] = todo[d]
                               /\ begun'[d] = begun[d] /\ Op(d)' = Op(d)
                               /\ MachineOf(d)' = MachineOf(d)
  BY <1>1, <1>2 DEF Op, MachineOf
<1>4. results'[c] = Append(results[c], e)
  BY <1>1, <1>2
<1> HIDE DEF e
<1>5. PICK S : results[c] \in Seq(S) /\ e \in S
  <2>1. Outcome \subseteq Outcome \cup {e} /\ results[c] \in Seq(Outcome)
    BY <1>2
  <2>2. results[c] \in Seq(Outcome \cup {e})
    BY <2>1
  <2> QED BY <2>2
<1>6. /\ DOMAIN results'[c] = 1..(Len(results[c]) + 1)
      /\ DOMAIN results[c] = 1..Len(results[c]) /\ Len(results[c]) \in Nat
      /\ \A i \in 1..Len(results[c]) : results'[c][i] = results[c][i]
      /\ results'[c][Len(results[c]) + 1] = e
  BY <1>4, <1>5, AppendProperties
<1> QED
  BY <1>1, <1>2, <1>3, <1>6 DEF e

LEMMA EndH ==
    ASSUME IInv, HInv, NEW c \in Callers, NEW res, NEW own, Ends(c, res, own),
           NEW f, Carried(f), ReplyInv',
           \A x \in Places' : Fresh(At(x))' => At(x)'.m # MachineOf(c),
           got' \in [Callers -> {NoDest} \cup [type : Kinds \cup {"none"},
                                               dest : Callers \cup {NoDest}]],
           OwnGot(c),
           MachineOf(c).id \notin given_up \/ Op(c) \in {"session", "direct"} => own,
           Safe(use) => ~Bad(res),
           Bad(res) \/ SomeFailed \/ (given_up' = {} /\ \A x \in Places' : Fresh(At(x))')
    PROVE  HInv'
<1>0. PICK k : k = MachineOf(c)
  OBVIOUS
<1>1. /\ todo[c] # <<>> /\ turn' = NoCall /\ DirectEnds(c)
      /\ UNCHANGED <<use, next_channel, slot, lost, asked, cut>>
      /\ nb' = [nb EXCEPT ![k] = EndState(k)]
      /\ lost \/ nb[k] # "created"
      /\ given_up \subseteq given_up'
      /\ \A d \in Callers \ {c} : got'[d] = got[d]
      /\ IF k = OpenK
           THEN open_channel' = NoOpening /\ \E at \in {"send", "ask", "read", "again"} : In(c, at)
           ELSE open_channel' = open_channel
  BY <1>0 DEF Ends, Finish
<1>2. /\ \A d \in Callers \ {c} : /\ results'[d] = results[d] /\ todo'[d] = todo[d]
                                  /\ begun'[d] = begun[d] /\ Op(d)' = Op(d)
                                  /\ MachineOf(d)' = MachineOf(d)
      /\ begun' \in [Callers -> BOOLEAN] /\ \A d \in Callers : begun'[d] => begun[d]
  BY EndsResults
<1>3. PICK n \in Nat :
        /\ n = Len(results[c])
        /\ DOMAIN results'[c] = 1..(n + 1) /\ DOMAIN results[c] = 1..n
        /\ \A i \in 1..n : results'[c][i] = results[c][i]
        /\ results'[c][n + 1] = [op |-> Op(c), res |-> res, own |-> own,
                                 clean |-> k.id \notin given_up]
  BY <1>0, EndsResults
<1>3a. LET e == results'[c][n + 1]
       IN  e.op = Op(c) /\ e.res = res /\ e.own = own /\ (e.clean <=> k.id \notin given_up)
  <2> DEFINE e == results'[c][n + 1]
  <2>1. e = [op |-> Op(c), res |-> res, own |-> own, clean |-> k.id \notin given_up]
    BY <1>3
  <2> HIDE DEF e
  <2>2. e.op = Op(c) /\ e.res = res /\ e.own = own
    BY <2>1
  <2>3. e.clean = (k.id \notin given_up)
    BY <2>1, Zenon
  <2> QED BY <2>2, <2>3 DEF e
<1>4. /\ k \in Machine /\ Op(c) \in Kinds
      /\ k = OpenK <=> Op(c) \in {"session", "direct"}
      /\ Op(c) \in Openings => results[c] = <<>> /\ k.id = NoChan
      /\ nb \in [Machine -> {"idle", "created", "sent", "end"}]
      /\ Op(c) = "listen" => k.id = NoChan
  BY <1>0, <1>1, MachineIs, WhichMachine DEF IInv, TypeInv, TypeOK, OpenK, Openings
<1>5. /\ nb'[k] \notin Begun /\ nb'[k] # "sent"
      /\ \A j \in Machine : j # k => nb'[j] = nb[j]
  BY <1>1, <1>4 DEF EndState, Begun
<1>6. HType'
  BY <1>2 DEF HType
<1>7. ActiveInv'
  <2> SUFFICES ASSUME NEW j \in Machine, nb'[j] \in Begun
               PROVE  \E d \in Callers :
                         /\ asked'[j] = <<d, Len(results'[d])>> /\ begun'[d]
                         /\ todo'[d] # <<>> /\ MachineOf(d)' = j
                         /\ j = OpenK => open_channel'.type = Op(d)'
    BY DEF ActiveInv
  <2>1. j # k /\ nb[j] \in Begun
    BY <1>5
  <2>2. PICK d \in Callers : /\ asked[j] = <<d, Len(results[d])>>
                             /\ begun[d] /\ todo[d] # <<>> /\ MachineOf(d) = j
                             /\ j = OpenK => open_channel.type = Op(d)
    BY <2>1, ActiveIs
  <2>3. d # c
    BY <1>0, <2>1, <2>2
  <2>4. j = OpenK => open_channel' = open_channel
    BY <1>1, <2>1
  <2> QED BY <1>1, <1>2, <2>2, <2>3, <2>4
<1>8. SlotInv'
  <2> SUFFICES ASSUME slot # NoPacket, ~lost
               PROVE  /\ nb'[slot.m] = "created" /\ Right(slot)'
                      /\ slot.m = OpenK => slot.ch = open_channel'.id
    BY <1>1 DEF SlotInv, Right
  <2>1. /\ nb[slot.m] = "created" /\ Right(slot) /\ slot.m \in Machine
        /\ slot.m = OpenK => slot.ch = open_channel.id
    BY DEF HInv, SlotInv, IInv, TypeInv, Pkt
  <2>2. slot.m # k
    BY <1>1, <2>1
  <2>3. nb'[slot.m] = "created" /\ (slot.m = OpenK => open_channel' = open_channel)
    BY <1>1, <1>5, <2>1, <2>2
  <2>4. Right(slot)'
    BY <1>1, <2>1, <2>3 DEF Right
  <2> QED BY <2>1, <2>3, <2>4
<1>9. FlightInv'
  <2>1. next_channel' \in Nat /\ next_channel <= next_channel'
    BY <1>1 DEF IInv, TypeInv, TypeOK
  <2>2. ASSUME NEW x \in Places', NEW p, p = At(f[x]), Fresh(p)'
        PROVE  Fresh(p) /\ nb'[p.m] = "sent" /\ (Right(p) => Right(p)')
    <3>1. f[x] \in Places /\ At(x)' = p
      BY <2>2 DEF Carried
    <3>2. p.m \in Machine /\ (Fresh(p) => nb[p.m] = "sent")
      BY <2>2, <3>1, Placed DEF HInv, FlightInv
    <3>3. Fresh(At(x))'
      BY <2>2, <3>1 DEF Fresh
    <3>4. p.m # k
      BY <1>0, <3>1, <3>3
    <3>5. p.m = OpenK => open_channel' = open_channel
      BY <1>1, <3>4
    <3>6. Fresh(p)
      BY <1>1, <2>2, <3>5 DEF Fresh
    <3>7. Right(p) => Right(p)'
      BY <1>1, <3>5 DEF Right
    <3> QED BY <1>5, <3>2, <3>4, <3>6, <3>7
  <2>3. Kept({At(f[x]) : x \in Places'})
    BY <2>2 DEF Kept
  <2> QED BY <2>1, <2>3, FlightCarried
<1>10. DirectInv'
  <2> SUFFICES ASSUME direct_state' = "created", "open" \notin cut
               PROVE  /\ nb'[OpenK] # "idle" /\ open_channel'.type = "direct"
                      /\ direct_message' = asked[OpenK][1]
    BY <1>1 DEF DirectInv
  <2>1. Op(c) # "direct" /\ UNCHANGED <<direct_state, direct_message>>
    BY <1>1 DEF DirectEnds, directVars
  <2>2. /\ nb[OpenK] # "idle" /\ open_channel.type = "direct"
        /\ direct_message = asked[OpenK][1]
    BY <2>1 DEF HInv, DirectInv
  <2>3. k # OpenK
    <3> SUFFICES ASSUME k = OpenK PROVE FALSE
      OBVIOUS
    <3>1. PICK at \in {"send", "ask", "read", "again"} : In(c, at)
      BY <1>1
    <3>2. Op(c) = "session" /\ MachineOf(c) = OpenK
      BY <1>0, <1>4, <2>1
    <3>3. asked[OpenK][1] = c
      BY <2>2, <3>1, <3>2, CallerIs DEF OwnCall
    <3> QED BY <2>2, <3>1, <3>2, <3>3, CallerIs
  <2> QED BY <1>1, <1>5, <2>1, <2>2, <2>3, Machines
<1>11. SomeFailed' <=> SomeFailed \/ Bad(res)
  <2>1. /\ results'[c][n + 1].res = res /\ n + 1 \in DOMAIN results'[c]
        /\ \A i \in DOMAIN results[c] : i \in DOMAIN results'[c] /\ results'[c][i] = results[c][i]
        /\ \A i \in DOMAIN results'[c] : i \in DOMAIN results[c] \/ i = n + 1
    BY <1>3
  <2>2. ASSUME SomeFailed' PROVE SomeFailed \/ Bad(res)
    <3>1. PICK d \in Callers : \E i \in DOMAIN results'[d] : Bad(results'[d][i].res)
      BY <2>2 DEF SomeFailed, Bad
    <3> QED BY <1>2, <2>1, <3>1 DEF SomeFailed
  <2>3. ASSUME SomeFailed PROVE SomeFailed'
    <3>1. PICK d \in Callers : \E i \in DOMAIN results[d] : Bad(results[d][i].res)
      BY <2>3 DEF SomeFailed
    <3>2. \E i \in DOMAIN results'[d] : Bad(results'[d][i].res)
      BY <1>2, <2>1, <3>1
    <3> QED BY <3>2 DEF SomeFailed, Bad
  <2>4. ASSUME Bad(res) PROVE SomeFailed'
    <3>1. \E i \in DOMAIN results'[c] : Bad(results'[c][i].res)
      BY <2>1, <2>4
    <3> QED BY <3>1 DEF SomeFailed, Bad
  <2> QED BY <2>2, <2>3, <2>4
<1>12. CalmInv'
  BY <1>11 DEF CalmInv
<1>13. /\ results[c] = <<>> <=> n = 0
       /\ results'[c] # <<>>
  <2>1. results[c] \in Seq(Outcome)
    BY DEF IInv, TypeInv
  <2>2. results[c] = <<>> <=> n = 0
    BY <1>3, <2>1, EmptySeq
  <2>3. 1 \in DOMAIN results'[c]
    BY <1>3
  <2> QED BY <2>2, <2>3
<1>14. OwnDestination'
  <2> SUFFICES ASSUME NEW d \in Callers, got'[d] # NoDest,
                      (IF use.script[d][1] = "listen" THEN "listen" ELSE "open") \notin cut,
                      use.script[d][1] = "listen" => results'[d][1].clean
               PROVE  got'[d] = [type |-> use.script[d][1],
                                 dest |-> IF use.script[d][1] = "session" THEN NoDest ELSE d]
    BY <1>1 DEF OwnDestination
  <2>1. CASE got'[d] = got[d]
    <3>1. results[d] # <<>>
      BY <2>1 DEF HInv, GotInv
    <3>2. results'[d][1] = results[d][1]
      <4>1. CASE d # c
        BY <1>2, <4>1
      <4>2. CASE d = c
        <5>1. 1 \in 1..n
          BY <1>3, <1>13, <3>1, <4>2
        <5> QED BY <1>3, <4>2, <5>1
      <4> QED BY <4>1, <4>2
    <3> QED BY <2>1, <3>2 DEF HInv, GotInv, OwnDestination
  <2>2. CASE got'[d] # got[d]
    <3>1. d = c /\ Op(c) \in Openings
      BY <1>1, <2>2 DEF OwnGot
    <3>2. results[c] = <<>> /\ k.id = NoChan /\ n = 0
      BY <1>4, <1>13, <3>1
    <3>3. use.script[c][1] = Op(c)
      BY <3>2 DEF IInv, ScriptInv, Op
    <3>4. results'[c][1].clean <=> NoChan \notin given_up
      BY <1>3a, <3>2
    <3> QED BY <2>2, <3>1, <3>3, <3>4 DEF OwnGot
  <2> QED BY <2>1, <2>2
<1>15. GotInv'
  <2>1. \A d \in Callers : got'[d] # NoDest => results'[d] # <<>>
    BY <1>1, <1>2, <1>13 DEF HInv, GotInv
  <2> QED BY <1>14, <2>1 DEF GotInv
<1>16. AnswerRight'
  <2> SUFFICES ASSUME NEW d \in Callers, NEW i \in DOMAIN results'[d],
                      results'[d][i].clean \/ results'[d][i].op \in {"session", "direct"}
               PROVE  results'[d][i].own
    BY DEF AnswerRight
  <2>1. CASE i \in DOMAIN results[d] /\ results'[d][i] = results[d][i]
    BY <2>1 DEF HInv, AnswerRight
  <2>2. CASE d = c /\ i = n + 1
    BY <1>0, <1>3a, <2>2
  <2>3. d # c => i \in DOMAIN results[d] /\ results'[d][i] = results[d][i]
    BY <1>2
  <2>4. d = c /\ i # n + 1 => i \in DOMAIN results[d] /\ results'[d][i] = results[d][i]
    BY <1>3
  <2> QED BY <2>1, <2>2, <2>3, <2>4
<1>17. SerialInv'
  <2>1. use.serial => \A d, e \in Callers : begun'[d] /\ begun'[e] => d = e
    BY <1>2 DEF HInv, SerialInv
  <2>2. Safe(use) => ~lost /\ ~SomeFailed'
    BY <1>11 DEF HInv, SerialInv
  <2> QED BY <1>1, <2>1, <2>2 DEF SerialInv, Safe
<1>18. CallerInv' /\ AgainInv'
  BY <1>1 DEF CallerInv, AgainInv
<1> QED
  BY <1>6, <1>7, <1>8, <1>9, <1>10, <1>12, <1>15, <1>16, <1>17, <1>18 DEF HInv

\* "Channel can not be reused".
LEMMA CallEndedH ==
    ASSUME IInv, HInv, NEW c \in Callers, CallEnded(c)
    PROVE  HInv'
<1>1. PICK k : k = MachineOf(c)
  OBVIOUS
<1>2. /\ todo[c] # <<>> /\ nb[k] = "end" /\ Finish(c, "BAD_USE", TRUE)
      /\ UNCHANGED <<use, mine, next_channel, open_channel, nb, slot, packets, pending, incoming,
                     lost, asked, got, given_up, cut>>
  BY <1>1 DEF CallEnded, libVars, serverVars
<1>3. /\ k \in Machine /\ k.op = "exec"
      /\ nb \in [Machine -> {"idle", "created", "sent", "end"}]
  BY <1>1, <1>2, MachineIs DEF IInv, TypeInv, TypeOK
<1>4. nb' = [nb EXCEPT ![k] = EndState(k)] /\ k # OpenK
  BY <1>2, <1>3 DEF EndState, OpenK
<1>5. Ends(c, "BAD_USE", TRUE)
  BY <1>1, <1>2, <1>4 DEF Ends
<1>6. PICK f : Carried(f)
  BY <1>2, PlacesStay
<1>7. ASSUME NEW x \in Places'
      PROVE  x \in Places /\ At(x)' = At(x) /\ Fresh(At(x))' = Fresh(At(x))
  <2>1. x \in Places /\ At(x)' = At(x)
    BY <1>2, PlacesStay
  <2> QED BY <1>2, <2>1 DEF Fresh
<1>8. \A x \in Places' : Fresh(At(x))' => At(x)'.m # MachineOf(c)
  BY <1>1, <1>2, <1>7 DEF HInv, FlightInv
<1>9. ReplyInv' /\ OwnGot(c)
  BY <1>2 DEF HInv, ReplyInv, OwnGot
<1>10. SomeFailed \/ (given_up' = {} /\ \A x \in Places' : Fresh(At(x))')
  BY <1>2, <1>7 DEF HInv, CalmInv
<1>11. ~Bad("BAD_USE")
  BY DEF Bad
<1>12. got' \in [Callers -> {NoDest} \cup [type : Kinds \cup {"none"}, dest : Callers \cup {NoDest}]]
  BY <1>2 DEF HInv, HType
<1> QED
  BY <1>5, <1>6, <1>8, <1>9, <1>10, <1>11, <1>12, EndH

\* The call fails; a reply that is under way is given up.
LEMMA FailH ==
    ASSUME IInv, HInv, NEW c \in Callers, NEW at \in {"send", "ask", "read", "again"}, In(c, at),
           NEW res \in {"SOCKET_SEND", "SOCKET_RECV", "TIMEOUT", "NONE"}, Fail(c, res),
           UNCHANGED <<use, slot, packets, pending, incoming, lost, asked, cut>>,
           lost \/ at # "send", ~Safe(use)
    PROVE  HInv'
<1>1. PICK k : k = MachineOf(c)
  OBVIOUS
<1>2. /\ nb' = [nb EXCEPT ![k] = EndState(k)]
      /\ IF k.op = "open" THEN open_channel' = NoOpening ELSE open_channel' = open_channel
      /\ given_up' = IF nb[k] = "sent" /\ k.op # "open" THEN given_up \cup {k.id} ELSE given_up
      /\ Finish(c, res, TRUE) /\ UNCHANGED <<mine, next_channel, got>>
  BY <1>1 DEF Fail
<1>3. /\ k \in Machine /\ todo[c] # <<>> /\ (lost \/ nb[k] # "created")
      /\ k.op = "open" <=> k = OpenK
  BY <1>1, InTurn, WhichMachine
<1>4. Ends(c, res, TRUE)
  BY <1>1, <1>2, <1>3 DEF Ends
<1>5. PICK f : Carried(f)
  BY PlacesStay
<1>6. ASSUME NEW x \in Places', Fresh(At(x))'
      PROVE  At(x)'.m # MachineOf(c)
  <2>1. PICK p : p = At(x)
    OBVIOUS
  <2>2. x \in Places /\ At(x)' = p
    BY <2>1, PlacesStay
  <2>3. Fresh(p)'
    BY <1>6, <2>2 DEF Fresh
  <2>4. /\ Fresh(p) => nb[p.m] = "sent"
        /\ p.m = OpenK => p.ch \in Nat
    BY <2>1, <2>2 DEF HInv, FlightInv
  <2>5. CASE k = OpenK
    <3>1. p.m = OpenK => p.ch = NoChan
      BY <1>2, <1>3, <2>3, <2>5 DEF Fresh, NoOpening
    <3> QED BY <1>1, <2>2, <2>4, <2>5, <3>1, RequestsAssumption
  <2>6. CASE k # OpenK
    <3> SUFFICES ASSUME p.m = k PROVE FALSE
      BY <1>1, <2>2
    <3>1. k.id \notin given_up'
      BY <2>3, <2>6 DEF Fresh
    <3>2. Fresh(p) /\ nb[k] # "sent"
      BY <1>2, <1>3, <2>6, <3>1 DEF Fresh
    <3> QED BY <2>4, <3>2
  <2> QED BY <2>5, <2>6
<1>7. ReplyInv' /\ OwnGot(c)
  BY <1>2 DEF HInv, ReplyInv, OwnGot
<1>8. Bad(res)
  BY DEF Bad
<1>9. got' \in [Callers -> {NoDest} \cup [type : Kinds \cup {"none"}, dest : Callers \cup {NoDest}]]
  BY <1>2 DEF HInv, HType
<1> QED
  BY <1>4, <1>5, <1>6, <1>7, <1>8, <1>9, EndH

LEMMA FailsH ==
    ASSUME IInv, HInv, NEW c \in Callers, SendFails(c) \/ AgainFindsNone(c) \/ ReadFails(c)
    PROVE  HInv'
<1>1. CASE SendFails(c)
  <2>1. /\ In(c, "send") /\ lost /\ Fail(c, "SOCKET_SEND")
        /\ UNCHANGED <<use, slot, packets, pending, incoming, lost, asked, cut>>
    BY <1>1 DEF SendFails, serverVars
  <2>2. ~Safe(use)
    BY <2>1 DEF HInv, SerialInv
  <2> QED BY <2>1, <2>2, FailH
<1>2. CASE AgainFindsNone(c)
  <2>1. /\ In(c, "again") /\ Fits(c) = {} /\ Fail(c, "NONE")
        /\ UNCHANGED <<use, slot, packets, pending, incoming, lost, asked, cut>>
    BY <1>2 DEF AgainFindsNone, serverVars
  <2>2. ~Safe(use)
    <3>1. turn # NoCall /\ turn.who = c /\ turn.at = "again"
      BY <2>1, InTurn
    <3> QED BY <2>1, <3>1 DEF HInv, AgainInv
  <2> QED BY <2>1, <2>2, FailH
<1>3. CASE ReadFails(c)
  <2>1. /\ In(c, "read")
        /\ \/ lost /\ Fail(c, "SOCKET_RECV")
           \/ "timeout" \in use.faults /\ Fail(c, "TIMEOUT")
        /\ UNCHANGED <<use, slot, packets, pending, incoming, lost, asked, cut>>
    BY <1>3 DEF ReadFails, serverVars
  <2>2. ~Safe(use)
    BY <2>1 DEF HInv, SerialInv, Safe
  <2> QED BY <2>1, <2>2, FailH
<1> QED
  BY <1>1, <1>2, <1>3

\* The type of a reply tells which kind of machine waits for it.
LEMMA TypesTell ==
    ASSUME NEW j \in Machine, NEW k \in Machine, NEW type,
           type \in {ReplyTypes(j)[1], ReplyTypes(j)[2]},
           type \in {ReplyTypes(k)[1], ReplyTypes(k)[2]}
    PROVE  /\ k = OpenK <=> j = OpenK
           /\ k = ListenK <=> j = ListenK
           /\ k.op \in Requests <=> j.op \in Requests
<1>1. /\ j.op = "open" <=> j = OpenK
      /\ j.op = "listen" <=> j = ListenK
      /\ j.op \in {"open", "listen"} \cup Requests
      /\ k.op = "open" <=> k = OpenK
      /\ k.op = "listen" <=> k = ListenK
      /\ k.op \in {"open", "listen"} \cup Requests
  BY WhichMachine
<1> QED
  BY <1>1 DEF ReplyTypes, Requests

\* The reply that a call takes answers the request of its machine, unless an
\* earlier request on the channel was given up.
LEMMA TakenIs ==
    ASSUME IInv, HInv, NEW c \in Callers, NEW at \in {"ask", "again"}, In(c, at),
           NEW i \in Fits(c)
    PROVE  /\ i \in DOMAIN packets /\ <<"packets", i>> \in Places
           /\ At(<<"packets", i>>) = packets[i].to
           /\ packets[i] \in Reply /\ packets[i].to \in Pkt
           /\ MachineOf(c) = OpenK => Op(c) = open_channel.type
           /\ MachineOf(c) = OpenK \/ MachineOf(c).id \notin given_up =>
                 /\ Fresh(packets[i].to) /\ packets[i].to.m = MachineOf(c)
                 /\ Right(packets[i].to)
<1> DEFINE k == MachineOf(c)
           r == packets[i]
<1>1. /\ i \in DOMAIN packets /\ Matches(c, r) /\ r.type \in {ReplyTypes(k)[1], ReplyTypes(k)[2]}
  BY DEF Fits, Fitting
<1>2. <<"packets", i>> \in Places /\ At(<<"packets", i>>) = r.to
  BY <1>1 DEF Places, At
<1>3. r \in Reply /\ r.to \in Pkt /\ r.to.m \in Machine
  <2>1. r \in Reply
    BY <1>1 DEF IInv, TypeInv
  <2> QED BY <2>1 DEF Reply, Pkt
<1>4. /\ r.type \in {ReplyTypes(r.to.m)[1], ReplyTypes(r.to.m)[2]}
      /\ r.ch = IF r.to.m.op \in Requests THEN r.to.m.id ELSE r.to.ch
  BY <1>1 DEF HInv, ReplyInv, ReplyOK
<1>5. /\ k \in Machine /\ nb[k] = "sent" /\ todo[c] # <<>>
  BY InTurn
<1>6. /\ k = OpenK <=> r.to.m = OpenK
      /\ k = ListenK <=> r.to.m = ListenK
      /\ k.op \in Requests <=> r.to.m.op \in Requests
  BY <1>1, <1>3, <1>4, <1>5, TypesTell
<1>7. Fresh(r.to) => nb[r.to.m] = "sent" /\ Right(r.to)
  BY <1>2 DEF HInv, FlightInv
<1>8. CASE k = OpenK
  <2>1. Op(c) = open_channel.type /\ r.ch = open_channel.id
    BY <1>1, <1>8 DEF Matches, OpenK
  <2>2. r.to.m = OpenK /\ r.to.ch = open_channel.id
    BY <1>4, <1>6, <1>8, <2>1 DEF OpenK, Requests
  <2>3. Fresh(r.to)
    BY <2>2 DEF Fresh
  <2> QED BY <1>1, <1>2, <1>3, <1>7, <1>8, <2>1, <2>2, <2>3
<1>9. CASE k # OpenK
  <2> SUFFICES ASSUME k.id \notin given_up
               PROVE  Fresh(r.to) /\ r.to.m = k
    BY <1>1, <1>2, <1>3, <1>7, <1>9
  <2>1. CASE k = ListenK
    <3>1. r.to.m = k /\ r.to.m # OpenK
      BY <1>6, <1>9, <2>1
    <3> QED BY <3>1 DEF Fresh
  <2>2. CASE k.op \in Requests
    <3>1. k.id = mine[c] /\ r.ch = mine[c]
      BY <1>1, <1>5, <2>2, MachineIs DEF Matches, Requests
    <3>2. r.to.m.op \in Requests /\ r.to.m.id = k.id
      BY <1>4, <1>6, <2>2, <3>1
    <3>3. Fresh(r.to)
      BY <1>6, <1>9, <3>2 DEF Fresh
    <3>4. nb[r.to.m] = "sent"
      BY <1>7, <3>3
    <3>5. r.to.m = k
      BY <1>3, <1>5, <2>2, <3>2, <3>4, OneActive DEF Begun
    <3> QED BY <3>3, <3>5
  <2> QED BY <1>5, <1>9, <2>1, <2>2, WhichMachine
<1> QED
  BY <1>8, <1>9

LEMMA AskTakesH ==
    ASSUME IInv, HInv, NEW c \in Callers, AskTakes(c)
    PROVE  HInv'
<1>1. PICK at \in {"ask", "again"} : In(c, at)
  BY DEF AskTakes
<1>2. PICK k, i, r, ok : /\ k = MachineOf(c) /\ i = Min(Fits(c)) /\ r = packets[i]
                         /\ ok = (r.type = ReplyTypes(k)[1])
  OBVIOUS
<1>3. /\ Fits(c) # {} /\ packets' = RemoveAt(packets, i)
      /\ nb' = [nb EXCEPT ![k] = EndState(k)]
      /\ IF k.op = "open" /\ ok
           THEN mine' = [mine EXCEPT ![c] = open_channel.id] ELSE mine' = mine
      /\ open_channel' = IF k.op = "open" THEN NoOpening ELSE open_channel
      /\ got' = IF ok /\ Op(c) \in Openings
                  THEN [got EXCEPT ![c] = [type |-> r.to.type, dest |-> r.to.dest]]
                  ELSE got
      /\ Finish(c, IF ok THEN "OK" ELSE "DENIED", r.to.by = asked[k])
      /\ UNCHANGED <<next_channel, given_up>>
      /\ UNCHANGED <<use, slot, pending, incoming, lost, asked, cut>>
  BY <1>2 DEF AskTakes, Take, Unlink, serverVars
<1>4. i \in Fits(c)
  <2>1. Fits(c) \in SUBSET Nat
    <3>1. packets \in Seq(Reply)
      BY DEF IInv, TypeInv
    <3> QED BY <3>1 DEF Fits, Fitting
  <2> QED BY <1>2, <1>3, <2>1, MinIn
<1>5. /\ i \in DOMAIN packets /\ <<"packets", i>> \in Places /\ At(<<"packets", i>>) = r.to
      /\ r \in Reply /\ r.to \in Pkt
      /\ k = OpenK => Op(c) = open_channel.type
      /\ k = OpenK \/ k.id \notin given_up => Fresh(r.to) /\ r.to.m = k /\ Right(r.to)
  BY <1>1, <1>2, <1>4, TakenIs
<1>6. /\ k \in Machine /\ todo[c] # <<>> /\ nb[k] = "sent" /\ Op(c) \in Kinds
      /\ k.op = "open" <=> k = OpenK
      /\ k = OpenK <=> Op(c) \in {"session", "direct"}
      /\ k = ListenK <=> Op(c) = "listen"
      /\ mine \in [Callers -> Ids \cup {NoChan}]
  BY <1>1, <1>2, InTurn, MachineIs, WhichMachine DEF IInv, TypeInv, TypeOK
<1>7. PICK res, own : /\ res = (IF ok THEN "OK" ELSE "DENIED") /\ own = (r.to.by = asked[k])
  OBVIOUS
<1>8. got \in [Callers -> {NoDest} \cup [type : Kinds \cup {"none"}, dest : Callers \cup {NoDest}]]
  BY DEF HInv, HType
<1>9. /\ \A d \in Callers \ {c} : mine'[d] = mine[d] /\ got'[d] = got[d]
      /\ got' \in [Callers -> {NoDest} \cup [type : Kinds \cup {"none"},
                                             dest : Callers \cup {NoDest}]]
  <2>1. [type |-> r.to.type, dest |-> r.to.dest] \in [type : Kinds \cup {"none"},
                                                      dest : Callers \cup {NoDest}]
    BY <1>5 DEF Pkt
  <2> QED BY <1>3, <1>6, <1>8, <2>1
<1>10. Ends(c, res, own)
  <2>1. Finish(c, res, own)
    BY <1>3, <1>7
  <2> QED BY <1>1, <1>2, <1>3, <1>6, <1>9, <2>1 DEF Ends
<1>11. PICK f : Carried(f) /\ \A x \in Places' : f[x] # <<"packets", i>>
  BY <1>3, <1>5, TakeCarries
<1>12. \A p : p.m # OpenK \/ k # OpenK => Fresh(p)' = Fresh(p)
  BY <1>3, <1>6 DEF Fresh
<1>13. ASSUME NEW x \in Places', Fresh(At(f[x])), k = OpenK \/ k.id \notin given_up
       PROVE  At(f[x]).m # k
  <2>1. f[x] \in Places /\ f[x] # <<"packets", i>>
    BY <1>11 DEF Carried
  <2>2. Fresh(At(<<"packets", i>>)) /\ At(<<"packets", i>>).m = k
    BY <1>5, <1>13
  <2> QED BY <1>5, <1>13, <2>1, <2>2 DEF HInv, FlightInv
<1>14. ASSUME NEW x \in Places', Fresh(At(x))' PROVE At(x)'.m # MachineOf(c)
  <2>1. PICK p : p = At(f[x])
    OBVIOUS
  <2>2. f[x] \in Places /\ At(x)' = p
    BY <1>11, <2>1 DEF Carried
  <2>3. Fresh(p)'
    BY <1>14, <2>2 DEF Fresh
  <2> SUFFICES ASSUME p.m = k PROVE FALSE
    BY <1>2, <2>2
  <2>4. CASE k = OpenK
    <3>1. p.ch \in Nat
      BY <2>1, <2>2, <2>4 DEF HInv, FlightInv
    <3>2. p.ch = NoChan
      BY <1>3, <1>6, <2>3, <2>4 DEF Fresh, NoOpening
    <3> QED BY <3>1, <3>2, RequestsAssumption
  <2>5. CASE k # OpenK
    <3>1. Fresh(p) /\ k.id \notin given_up
      BY <1>12, <2>3, <2>5 DEF Fresh
    <3> QED BY <1>13, <2>1, <3>1
  <2> QED BY <2>4, <2>5
<1>15. ReplyInv'
  <2>1. \A j \in DOMAIN packets' : \E l \in DOMAIN packets : packets'[j] = packets[l]
    <3>1. packets \in Seq(Reply)
      BY DEF IInv, TypeInv
    <3>2. /\ Len(packets') = Len(packets) - 1 /\ packets' \in Seq(Reply)
          /\ \A j \in DOMAIN packets' : packets'[j] = IF j < i THEN packets[j] ELSE packets[j + 1]
      BY <1>3, <1>5, <3>1, RemoveAtIs
    <3>3. /\ DOMAIN packets' = 1..(Len(packets) - 1) /\ DOMAIN packets = 1..Len(packets)
          /\ Len(packets) \in Nat
      BY <3>1, <3>2
    <3>4. ASSUME NEW j \in DOMAIN packets' PROVE j \in DOMAIN packets /\ j + 1 \in DOMAIN packets
      BY <3>3
    <3> QED BY <3>2, <3>4
  <2> QED BY <1>3, <2>1 DEF HInv, ReplyInv
<1>16. OwnGot(c)
  <2> SUFFICES ASSUME ok, Op(c) \in Openings PROVE OwnGot(c)
    BY <1>3 DEF OwnGot
  <2>1. got'[c] = [type |-> r.to.type, dest |-> r.to.dest]
    BY <1>3, <1>8
  <2>2. OwnCall(c)
    BY <1>1, CallerIs
  <2>3. CASE Op(c) = "listen" /\ "listen" \notin cut /\ NoChan \notin given_up
    <3>1. k = ListenK /\ k.id = NoChan
      BY <1>6, <2>3 DEF ListenK
    <3>2. r.to.m = ListenK /\ Right(r.to)
      BY <1>5, <2>3, <3>1
    <3>3. r.to.type = "listen" /\ r.to.dest = asked[ListenK][1]
      BY <2>3, <3>2 DEF Right
    <3>4. asked[ListenK][1] = c
      BY <1>2, <2>2, <2>3, <3>1 DEF OwnCall
    <3> QED BY <2>1, <2>3, <3>3, <3>4 DEF OwnGot
  <2>4. CASE Op(c) # "listen" /\ "open" \notin cut
    <3>1. k = OpenK /\ Op(c) \in {"session", "direct"}
      BY <1>6, <2>4 DEF Openings
    <3>2. r.to.m = OpenK /\ Right(r.to) /\ Op(c) = open_channel.type
      BY <1>5, <3>1
    <3>3. /\ r.to.type = Op(c)
          /\ r.to.dest = IF r.to.type = "direct" THEN asked[OpenK][1] ELSE NoDest
      BY <2>4, <3>2 DEF Right
    <3>4. Op(c) = "direct" => asked[OpenK][1] = c
      BY <1>1, <2>4, CallerIs
    <3> QED BY <2>1, <3>1, <3>3, <3>4 DEF OwnGot
  <2>5. CASE ~(Op(c) = "listen" /\ "listen" \notin cut /\ NoChan \notin given_up)
             /\ ~(Op(c) # "listen" /\ "open" \notin cut)
    BY <2>5 DEF OwnGot
  <2> QED BY <2>3, <2>4, <2>5
<1>17. MachineOf(c).id \notin given_up \/ Op(c) \in {"session", "direct"} => own
  <2> SUFFICES ASSUME k = OpenK \/ k.id \notin given_up PROVE own
    BY <1>2, <1>6
  <2>1. r.to.by = asked[k]
    BY <1>5 DEF Right
  <2> QED BY <1>7, <2>1
<1>18. ~Bad(res)
  BY <1>7 DEF Bad
<1>19. SomeFailed \/ (given_up' = {} /\ \A x \in Places' : Fresh(At(x))')
  <2> SUFFICES ASSUME given_up = {}, \A x \in Places : Fresh(At(x)), NEW x \in Places'
               PROVE  Fresh(At(x))'
    BY <1>3 DEF HInv, CalmInv
  <2>1. PICK p : p = At(f[x])
    OBVIOUS
  <2>2. f[x] \in Places /\ At(x)' = p
    BY <1>11, <2>1 DEF Carried
  <2>3. Fresh(p) /\ p.m # k
    BY <1>13, <2>1, <2>2
  <2>4. Fresh(p)'
    BY <1>12, <2>3
  <2> QED BY <2>2, <2>4 DEF Fresh
<1> QED
  BY <1>9, <1>10, <1>11, <1>14, <1>15, <1>16, <1>17, <1>18, <1>19, EndH

-------------------------------------------------------------------------------
(* The second invariant is kept. *)

LEMMA InitH == Init => HInv
<1> SUFFICES ASSUME Init PROVE HInv
  OBVIOUS
<1> USE DEF Init
<1>1. Places = {}
  BY DEF Places
<1>2. HType
  BY DEF HType
<1>3. \A k \in Machine : nb[k] = "idle"
  OBVIOUS
<1>4. ActiveInv /\ SlotInv /\ FlightInv /\ ReplyInv
  BY <1>1, <1>3 DEF ActiveInv, Begun, SlotInv, FlightInv, ReplyInv
<1>5. CallerInv /\ DirectInv /\ AgainInv
  BY DEF CallerInv, DirectInv, AgainInv
<1>6. ~SomeFailed /\ CalmInv /\ AnswerRight
  BY <1>1 DEF SomeFailed, CalmInv, AnswerRight
<1>7. GotInv
  BY DEF GotInv, OwnDestination
<1>8. SerialInv
  BY <1>6 DEF SerialInv
<1> QED
  BY <1>2, <1>4, <1>5, <1>6, <1>7, <1>8 DEF HInv

LEMMA NextH ==
    ASSUME IInv, HInv, [Next]_vars
    PROVE  HInv'
<1>1. ASSUME NEW c \in Callers, Call(c) \/ CallEnded(c)
      PROVE  HInv'
  BY <1>1, CallH, CallEndedH
<1>2. ASSUME NEW c \in Callers, CallStep(c)
      PROVE  HInv'
  <2>1. CASE Sent(c)
    BY <2>1, SentH
  <2>2. CASE SendBlocks(c)
    BY <2>2, SendBlocksH
  <2>3. CASE SendFails(c) \/ AgainFindsNone(c) \/ ReadFails(c)
    BY <2>3, FailsH
  <2>4. CASE AskTakes(c)
    BY <2>4, AskTakesH
  <2>5. CASE AskFindsNone(c)
    BY <2>5, AskFindsNoneH
  <2>6. CASE Read(c)
    BY <2>6, ReadH
  <2>7. CASE ReadBlocks(c)
    BY <2>7, ReadBlocksH
  <2> QED BY <1>2, <2>1, <2>2, <2>3, <2>4, <2>5, <2>6, <2>7 DEF CallStep
<1>3. CASE Server
  BY <1>3, AnswerH DEF Server
<1> QED
  BY <1>1, <1>2, <1>3, DropH DEF Next

-------------------------------------------------------------------------------
(* The theorems. *)

\* The inductive invariant holds: no channel id is used twice, a request
\* names the server's end of its own channel, and the machine of an execute
\* that was begun stays out of use.
THEOREM InvariantHolds == Spec => []IInv
<1>1. Init => IInv
  BY InitInv
<1>2. IInv /\ [Next]_vars => IInv'
  BY NextInv
<1> QED
  BY <1>1, <1>2, PTL DEF Spec

\* session->channels holds the channel under construction and those handed
\* out, each to one caller, whoever finishes or gives up whose opening.
THEOREM ChannelsAreOwned == Spec => []ChannelsOwned
<1>1. IInv => ChannelsOwned
  BY DEF IInv, OpenInv
<1> QED
  BY <1>1, InvariantHolds, PTL

\* The server gets one request for a process on a channel, however often
\* execute is called: exec_state is not set back.
THEOREM ExecIsOnce == Spec => []ExecOnce
<1>1. IInv => ExecOnce
  <2> SUFFICES ASSUME IInv PROVE ExecOnce
    OBVIOUS
  <2> DEFINE all == served \cup {pending[i] : i \in DOMAIN pending}
  <2>1. \A m \in all : m \in Pkt /\ PacketOK(m)
    BY DEF IInv, TypeInv, PacketInv
  <2>2. ASSUME NEW m \in all, NEW n \in all, m.m.op = "exec", n.m.op = "exec", m.ch = n.ch
        PROVE  m = n
    <3>1. m \in Pkt /\ n \in Pkt /\ PacketOK(m) /\ PacketOK(n)
      BY <2>1
    <3>2. m.m.id = n.m.id
      BY <2>2, <3>1 DEF PacketOK, Requests
    <3>3. /\ m.m = [op |-> "exec", id |-> m.m.id] /\ n.m = [op |-> "exec", id |-> n.m.id]
      BY <2>2, <3>1 DEF Pkt, Machine
    <3>4. m.m = n.m
      BY <3>2, <3>3
    <3>5. m.by = n.by /\ m.type = n.type /\ m.dest = n.dest
      BY <2>2, <3>1, <3>4 DEF PacketOK
    <3>6. /\ m = [by |-> m.by, m |-> m.m, type |-> m.type, dest |-> m.dest, ch |-> m.ch]
          /\ n = [by |-> n.by, m |-> n.m, type |-> n.type, dest |-> n.dest, ch |-> n.ch]
      BY <3>1 DEF Pkt
    <3> QED BY <2>2, <3>4, <3>5, <3>6
  <2> QED BY <2>2 DEF ExecOnce
<1> QED
  BY <1>1, InvariantHolds, PTL

\* The second invariant holds with the first: the running call is part of the
\* operation it takes for its own unless it cut in, and a request nobody gave
\* up is the only one of its machine and what the machine has asked for.
THEOREM CallersServed == Spec => [](IInv /\ HInv)
<1>1. Init => IInv /\ HInv
  BY InitInv, InitH
<1>2. IInv /\ HInv /\ [Next]_vars => (IInv /\ HInv)'
  BY NextInv, NextH
<1> QED
  BY <1>1, <1>2, PTL DEF Spec

\* open_session, direct_tcpip and forward_listen give a caller the channel or
\* the listener it asked for, to its own destination, unless another caller
\* has resumed the operation.
THEOREM DestinationsAreOwn == Spec => []OwnDestination
<1>1. HInv => OwnDestination
  BY DEF HInv, GotInv
<1> QED
  BY <1>1, CallersServed, PTL

\* The reply that _libssh2_packet_requirev hands to an operation answers its
\* request, and when all are through without a failure no reply is left.
THEOREM RepliesAreRight == Spec => []RepliesRight
<1>1. IInv /\ HInv => RepliesTaken
  <2> SUFFICES ASSUME IInv, HInv,
                      \A c \in Callers : todo[c] = <<>> /\ \A i \in DOMAIN results[c] :
                         results[c][i].res \in {"OK", "DENIED"}
               PROVE  packets = <<>> /\ pending = <<>> /\ incoming = <<>>
    BY DEF RepliesTaken
  <2>1. ~SomeFailed
    BY DEF SomeFailed, Bad
  <2>2. Places = {}
    <3> SUFFICES ASSUME NEW x \in Places PROVE FALSE
      OBVIOUS
    <3>1. Fresh(At(x))
      BY <2>1 DEF HInv, CalmInv
    <3>2. nb[At(x).m] \in Begun /\ At(x).m \in Machine
      BY <3>1, Placed DEF HInv, FlightInv, Begun
    <3> QED BY <3>2, ActiveIs
  <2>3. /\ packets \in Seq(Reply) /\ incoming \in Seq(Reply) /\ pending \in Seq(Pkt)
    BY DEF IInv, TypeInv
  <2>4. /\ \A i \in DOMAIN packets : <<"packets", i>> \in Places
        /\ \A i \in DOMAIN incoming : <<"incoming", i>> \in Places
        /\ \A i \in DOMAIN pending : <<"pending", i>> \in Places
    BY DEF Places
  <2>5. ASSUME NEW S, NEW s \in Seq(S), \A i \in DOMAIN s : FALSE PROVE s = <<>>
    <3>1. Len(s) \in Nat /\ DOMAIN s = 1..Len(s)
      OBVIOUS
    <3>2. Len(s) = 0
      BY <2>5, <3>1
    <3> QED BY <3>2, EmptySeq
  <2> QED BY <2>2, <2>3, <2>4, <2>5
<1>2. IInv /\ HInv => RepliesRight
  BY <1>1 DEF IInv, TypeInv, HInv, RepliesRight
<1> QED
  BY <1>2, CallersServed, PTL

\* Callers that let each other finish see no operation fail that the server
\* has not refused, while the connection holds and no wait runs out of time.
THEOREM SerialIsSafe == Spec => []SerialNeverFails
<1>1. HInv => SerialNeverFails
  BY DEF HInv, SerialInv, Safe, SomeFailed, Bad, SerialNeverFails
<1> QED
  BY <1>1, CallersServed, PTL
===============================================================================
