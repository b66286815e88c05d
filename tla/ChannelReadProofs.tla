--------------------------- MODULE ChannelReadProofs ---------------------------
(***************************************************************************)
(* Proofs about ChannelRead: the two books of the receive window agree and *)
(* the client reads what the peer has sent, for all sizes of window,       *)
(* packets and reads, as long as an adjustment that was interrupted by     *)
(* EAGAIN is resumed with the amount it was begun with.                    *)
(***************************************************************************)
EXTENDS ChannelRead, SequenceTheorems, FiniteSetTheorems, WellFoundedInduction, TLAPS

-------------------------------------------------------------------------------
(* When the channel is used so that the books can agree. *)

\* A call is repeated, by the library itself, until it succeeds.
Patient(u) == u.blocking /\ "timeout" \notin u.ops

\* Every read has the same size, which the window has always room for.
Uniform(u) == \E n \in u.sizes : u.sizes = {n} /\ n <= (InitWindow \div 4) * 3

(***************************************************************************)
(* The client does not use flush, which refunds too little and, after      *)
(* EAGAIN, takes off too much; sizes stay far from 2^32; and when sending  *)
(* may answer EAGAIN, an adjustment under way is resumed by a call that    *)
(* asks for the same: the amount that the packet holds is not looked at.   *)
(***************************************************************************)
Calm(u) ==
    /\ "flush" \notin u.ops
    /\ \A n \in u.sizes : InitWindow + 2 * n + 2 * MinAdjust < Wrap
    /\ "adjust" \in u.ops => AskMax < Wrap
    /\ u.sendBlocks => "adjust" \notin u.ops /\ (Patient(u) \/ Uniform(u))

-------------------------------------------------------------------------------
(***************************************************************************)
(* The inductive invariant.  All bytes up to Arrived have been read from   *)
(* the socket.  The bytes of the queue are counted as a set: the packets   *)
(* do not overlap, so that read_avail is its cardinality (QueueInv).  The  *)
(* bytes of a stream are in order because those that were read come before *)
(* those in the queue, and these before those on the wire (DataInv).       *)
(***************************************************************************)

\* The least window with which _libssh2_channel_read does not expand it.
Wide(n) == (InitWindow \div 4) * 3 + n

\* Expansion, for a read of n bytes.
ExpansionFor(n) ==
    IF InitWindow + n - window < MinAdjust THEN MinAdjust ELSE InitWindow + n - window

Arrived == IF wire # <<>> /\ wire[1].type = "data" THEN wire[1].first - 1 ELSE sent

CallInv ==
    /\ pc \notin {"flush", "refund"} /\ flush_state = "idle"
    /\ pc # "copy" => nread = 0
    /\ pc \in {"ask", "ask_force", "adjust", "expand", "drain", "copy"} =>
          req.size \in use.sizes
    /\ pc \in {"ask", "ask_force"} => "adjust" \in use.ops
    /\ pc \in {"ask", "ask_force"} /\ sockUp => window + adjust_queue + req.size <= AskMax
    /\ pc = "adjust" => req.size > window

\* The packet of an adjustment that is not sent holds what will be booked.
AdjustInv ==
    sockUp =>
        /\ adjust_queue <= MinAdjust
        /\ use.sendBlocks => adjust_queue = 0
        /\ read_state = "jump1" => adjust_state = "created"
        /\ adjust_state = "created" =>
              /\ use.sendBlocks
              /\ \/ /\ Patient(use) /\ pc = "adjust" /\ read_state = "idle"
                    /\ adjust_adjust = req.size
                 \/ /\ Patient(use) /\ pc = "expand" /\ read_state = "jump1"
                    /\ window < Wide(req.size) /\ adjust_adjust = ExpansionFor(req.size)
                 \/ /\ Uniform(use) /\ read_state = "jump1"
                    /\ pc \notin {"drain", "copy", "adjust"}
                    /\ \A n \in use.sizes : window < Wide(n) /\ adjust_adjust = ExpansionFor(n)
        /\ Uniform(use) /\ use.sendBlocks =>
              /\ pc # "adjust"
              /\ window >= IF pc \in {"drain", "copy"} THEN Wide(req.size) ELSE Wide(0)

\* WindowInSync, without InFlight.
SyncInv == window = peerWindow + (sent - Arrived) + read_avail

Span(p) == p.first .. (p.first + p.left - 1)
Queue == UNION {Span(packets[i]) : i \in DOMAIN packets}

QueueInv ==
    /\ \A i \in DOMAIN packets :
          packets[i].first >= 1 /\ packets[i].first + packets[i].left - 1 <= Arrived
    /\ \A i, j \in DOMAIN packets :
          i < j => packets[i].first + packets[i].left <= packets[j].first
    /\ IsFiniteSet(Queue) /\ Cardinality(Queue) + nread = read_avail

IsData(w, i) == i \in DOMAIN w /\ w[i].type = "data"

WireInv ==
    /\ \A i \in DOMAIN wire : IsData(wire, i) =>
          /\ wire[i].first >= 1 /\ wire[i].len \in 1..PacketSize
          /\ wire[i].first + wire[i].len <= sent + 1
          /\ \A j \in 1..(i - 1) : /\ IsData(wire, j)
                                   /\ wire[j].first + wire[j].len <= wire[i].first
          /\ wire[i].first + wire[i].len = IF IsData(wire, i + 1) THEN wire[i + 1].first ELSE sent + 1
    /\ \A i \in DOMAIN wire : ~IsData(wire, i) => peer # "open"

\* The peer has ended and all its data was read from the socket.
AllArrived == peer # "open" /\ \A i \in DOMAIN wire : ~IsData(wire, i)

EndInv ==
    /\ reof \/ rclose => AllArrived
    /\ \A s \in Stream : zero[s] => AllArrived /\ Of(s) = {}

Bytes(q) == {q[i] : i \in DOMAIN q}
Increasing(q) == \A i, j \in DOMAIN q : i < j => q[i] < q[j]

InQueue(s, b) ==
    \E i \in DOMAIN packets : packets[i].stream = s /\ b \in Span(packets[i])
OnWire(s, b) ==
    \E i \in DOMAIN wire : /\ IsData(wire, i) /\ wire[i].stream = s
                           /\ b \in wire[i].first .. (wire[i].first + wire[i].len - 1)

DataInv ==
    \A s \in Stream :
        /\ Increasing(out[s]) /\ Increasing(got[s])
        /\ \A b \in Bytes(out[s]) : b \in 1..sent
        /\ \A b \in Nat : b \in Bytes(out[s]) <=>
                             b \in Bytes(got[s]) \/ InQueue(s, b) \/ OnWire(s, b)
        /\ \A b \in Bytes(got[s]) :
              b \in 1..Arrived /\ \A i \in Of(s) : b < packets[i].first

IInv ==
    /\ TypeOK /\ CallInv /\ AdjustInv /\ SyncInv
    /\ QueueInv /\ WireInv /\ EndInv /\ DataInv

-------------------------------------------------------------------------------
(* Arithmetic. *)

\* Counting modulo 2^32, when nothing wraps around.
LEMMA ModIs ==
    ASSUME NEW x \in Nat
    PROVE  x % Wrap \in Counter /\ (x < Wrap => x % Wrap = x)
<1>1. Wrap \in Nat \ {0}
  BY ReadAssumption
<1>2. x % Wrap \in 0..(Wrap - 1)
  BY <1>1
<1>3. x < Wrap => x % Wrap = x
  BY <1>1
<1> QED
  BY <1>2, <1>3 DEF Counter

LEMMA ModLess ==
    ASSUME NEW x \in Counter, NEW n \in Nat, n <= x
    PROVE  (x + Wrap - n) % Wrap = x - n /\ x - n \in Counter
<1>1. Wrap \in Nat \ {0} /\ x \in Nat /\ x < Wrap
  BY ReadAssumption DEF Counter
<1> DEFINE d == x - n
<1>2. d \in Nat /\ d < Wrap /\ x + Wrap - n = d + Wrap
  BY <1>1
<1> HIDE DEF d
<1>3. (d + Wrap) % Wrap = d
  BY <1>1, <1>2
<1>4. d \in Counter
  BY <1>1, <1>2 DEF Counter
<1> QED
  BY <1>2, <1>3, <1>4 DEF d

\* Both ends of a book move by the same amount.
LEMMA SameShift ==
    ASSUME NEW w \in Int, NEW ww \in Int, NEW p \in Int, NEW pp \in Int,
           NEW s \in Int, NEW a \in Int, NEW r \in Int,
           w = p + (s - a) + r, ww - w = pp - p
    PROVE  ww = pp + (s - a) + r
  OBVIOUS

\* The least of a set of natural numbers.
LEMMA FirstIs ==
    ASSUME NEW S \in SUBSET Nat, S # {}
    PROVE  First(S) \in S /\ \A j \in S : First(S) <= j
<1> DEFINE R == {ss \in Nat \X Nat : ss[1] < ss[2]}
<1>1. IsWellFoundedOn(R, Nat)
  BY NatLessThanWellFounded DEF OpToRel
<1>2. \E x \in S : \A y \in S : ~(<<y, x>> \in R)
  <2> HIDE DEF R
  <2> QED BY <1>1, WFMin
<1>3. \E x \in S : \A y \in S : x <= y
  <2>1. PICK x \in S : \A y \in S : ~(<<y, x>> \in R)
    BY <1>2
  <2>2. ASSUME NEW y \in S PROVE x <= y
    <3>1. <<y, x>> \notin R
      BY <2>1
    <3> QED BY <3>1
  <2> QED BY <2>2
<1> QED
  BY <1>3 DEF First

\* What is known of the constants and the use.
LEMMA UseIs ==
    ASSUME TypeOK
    PROVE  /\ use.sizes \subseteq Nat \ {0} /\ use.total \in Nat /\ use.least \in 1..PacketSize
           /\ use.blocking \in BOOLEAN /\ use.sendBlocks \in BOOLEAN
           /\ InitWindow \in Nat /\ MinAdjust \in Nat /\ Wrap \in Nat /\ AskMax \in Nat
           /\ PacketSize \in Nat /\ Stdout \in Stream /\ InitWindow < Wrap
           /\ InitWindow \div 4 \in Nat /\ (InitWindow \div 4) * 3 <= InitWindow
<1>1. use \in [sizes : SUBSET (Nat \ {0}), total : Nat, least : 1..PacketSize,
               blocking : BOOLEAN, sendBlocks : BOOLEAN, ops : SUBSET OpKinds]
  BY ReadAssumption DEF TypeOK
<1>2. InitWindow \div 4 \in Nat /\ (InitWindow \div 4) * 3 <= InitWindow
  BY ReadAssumption
<1> QED
  BY <1>1, <1>2, ReadAssumption

\* The ranges of the numbers.
LEMMA Numbers ==
    ASSUME TypeOK, Calm(use)
    PROVE  /\ window \in Nat /\ window < Wrap /\ read_avail \in Nat /\ peerWindow \in Nat
           /\ adjust_queue \in Nat /\ adjust_adjust \in Nat /\ sent \in Nat /\ Arrived \in Int
           /\ nread \in Nat /\ req.size \in Nat /\ Wrap \in Nat /\ MinAdjust \in Nat
           /\ \A n \in use.sizes : /\ n \in Nat /\ InitWindow + 2 * n + 2 * MinAdjust < Wrap
                                    /\ MinAdjust < Wrap
<1>1. /\ use.sizes \subseteq Nat \ {0} /\ use.total \in Nat
      /\ InitWindow \in Nat /\ MinAdjust \in Nat /\ Wrap \in Nat
  BY UseIs
<1>2. \A n \in use.sizes : /\ n \in Nat /\ InitWindow + 2 * n + 2 * MinAdjust < Wrap
                            /\ MinAdjust < Wrap
  BY <1>1 DEF Calm
<1>3. /\ window \in Nat /\ window < Wrap /\ read_avail \in Nat /\ peerWindow \in Nat
      /\ adjust_queue \in Nat /\ adjust_adjust \in Nat /\ sent \in Nat
      /\ nread \in Nat /\ req.size \in Nat
  BY <1>1 DEF TypeOK, Counter
<1>4. Arrived \in Int
  <2>1. wire # <<>> => wire[1] \in Wire
    BY DEF TypeOK
  <2>2. wire # <<>> => wire[1].first \in Nat
    BY <2>1 DEF Wire
  <2> QED BY <1>3, <2>2 DEF Arrived
<1> QED
  BY <1>1, <1>2, <1>3, <1>4

-------------------------------------------------------------------------------
(* What a step leaves alone. *)

dataVars == <<packets, got, wire, peer, use, sent, out>>

LEMMA DataStays ==
    ASSUME IInv, UNCHANGED dataVars, nread' = nread, read_avail' = read_avail
    PROVE  Arrived' = Arrived /\ QueueInv' /\ WireInv' /\ DataInv'
<1> USE DEF dataVars
<1>1. Arrived' = Arrived
  BY DEF Arrived
<1>2. QueueInv'
  BY <1>1 DEF IInv, QueueInv, Queue, Span
<1>3. WireInv'
  BY DEF IInv, WireInv, IsData
<1>4. DataInv'
  BY <1>1 DEF IInv, DataInv, InQueue, OnWire, IsData, Span, Of
<1> QED
  BY <1>1, <1>2, <1>3, <1>4

(***************************************************************************)
(* _libssh2_channel_receive_window_adjust books the same amount at both    *)
(* ends, if the call asks for what the unsent packet holds.                *)
(***************************************************************************)
LEMMA AdjustBooks ==
    ASSUME IInv, Calm(use), NEW n \in Nat, NEW force \in BOOLEAN, NEW rc \in Rc,
           ReceiveWindowAdjust(window, n, force, rc),
           MinAdjust < Wrap,
           sockUp => window + adjust_queue + n < Wrap,
           sockUp /\ adjust_state = "created" => adjust_adjust = n
    PROVE  /\ adjust_state' \in {"idle", "created"}
           /\ adjust_queue' \in Counter /\ adjust_adjust' \in Counter
           /\ window' \in Counter /\ peerWindow' \in Nat
           /\ window' - window = peerWindow' - peerWindow
           /\ rc = "OK" => adjust_state' = "idle"
           /\ rc # "OK" => window' = window /\ adjust_state' = "created"
           /\ rc = "EAGAIN" => use.sendBlocks
           /\ rc = "SOCKET_SEND" => ~sockUp
           /\ rc = "OK" /\ sockUp => \/ window' = window + adjust_queue + n
                                     \/ window' = window /\ (n = 0 \/ (~force /\ n < MinAdjust))
           /\ sockUp => adjust_queue' <= MinAdjust
           /\ sockUp /\ use.sendBlocks /\ (force \/ n >= MinAdjust) => adjust_queue' = 0
           /\ sockUp /\ use.sendBlocks /\ rc # "OK" => adjust_adjust' = n
<1> DEFINE fresh == adjust_state = "idle"
           amount == IF fresh THEN (n + adjust_queue) % Wrap ELSE n % Wrap
           pkt == IF fresh THEN amount ELSE adjust_adjust
<1>1. /\ adjust_queue \in Counter /\ adjust_adjust \in Counter /\ window \in Counter
      /\ peerWindow \in Nat /\ adjust_state \in {"idle", "created"}
      /\ sockUp \in BOOLEAN /\ Wrap \in Nat /\ MinAdjust \in Nat
      /\ Counter \subseteq Nat
  BY UseIs DEF IInv, TypeOK, Counter
<1>2. /\ sockUp => adjust_queue <= MinAdjust
      /\ sockUp /\ use.sendBlocks => adjust_queue = 0
      /\ sockUp /\ adjust_state = "created" => use.sendBlocks
  BY DEF IInv, AdjustInv
<1>3. /\ amount \in Counter /\ pkt \in Counter
      /\ sockUp => amount = (IF fresh THEN n + adjust_queue ELSE n)
      /\ sockUp => pkt = amount
  <2>1. n + adjust_queue \in Nat
    BY <1>1
  <2>2. /\ (n + adjust_queue) % Wrap \in Counter /\ n % Wrap \in Counter
        /\ n + adjust_queue < Wrap => (n + adjust_queue) % Wrap = n + adjust_queue
        /\ n < Wrap => n % Wrap = n
    BY <2>1, ModIs
  <2>3. sockUp => n + adjust_queue < Wrap /\ n < Wrap
    BY <1>1
  <2> QED BY <1>1, <2>2, <2>3
<1>4. CASE fresh /\ ~force /\ n + adjust_queue < MinAdjust
  <2>1. /\ rc = "OK" /\ adjust_queue' = adjust_queue + n /\ window' = window
        /\ UNCHANGED <<adjust_state, adjust_adjust, peerWindow>>
    BY <1>4 DEF ReceiveWindowAdjust
  <2>2. adjust_queue + n \in Counter /\ adjust_queue + n <= MinAdjust /\ n < MinAdjust
    BY <1>1, <1>4 DEF Counter
  <2> QED BY <1>1, <1>4, <2>1, <2>2
<1>5. CASE ~(fresh /\ ~force /\ n + adjust_queue < MinAdjust) /\ fresh /\ n = 0 /\ adjust_queue = 0
  <2>1. rc = "OK" /\ window' = window /\ UNCHANGED <<adjustVars, peerWindow>>
    BY <1>5 DEF ReceiveWindowAdjust
  <2> QED BY <1>1, <1>2, <1>5, <2>1 DEF adjustVars
<1>6. CASE /\ ~(fresh /\ ~force /\ n + adjust_queue < MinAdjust)
           /\ ~(fresh /\ n = 0 /\ adjust_queue = 0)
  <2>1. /\ rc = "OK" => sockUp
        /\ rc = "EAGAIN" => sockUp /\ use.sendBlocks
        /\ rc = "SOCKET_SEND" => ~sockUp
        /\ adjust_adjust' = pkt
        /\ adjust_state' = IF rc = "OK" THEN "idle" ELSE "created"
        /\ adjust_queue' = CASE rc = "SOCKET_SEND" -> amount
                             [] fresh -> 0
                             [] OTHER -> adjust_queue
        /\ window' = IF rc = "OK" THEN (window + amount) % Wrap ELSE window
        /\ peerWindow' = IF rc = "OK" THEN peerWindow + pkt ELSE peerWindow
    BY <1>6 DEF ReceiveWindowAdjust
  <2> HIDE DEF amount, pkt
  <2>2. 0 \in Counter
    BY <1>1, ReadAssumption DEF Counter
  <2>3. /\ adjust_queue' \in Counter
        /\ sockUp => adjust_queue' = 0 \/ adjust_queue' = adjust_queue
        /\ rc \in {"OK", "EAGAIN", "SOCKET_SEND"}
    BY <1>1, <1>3, <2>1, <2>2 DEF Rc
  <2>4. CASE rc = "OK"
    <3>1. /\ sockUp /\ amount = (IF fresh THEN n + adjust_queue ELSE n) /\ pkt = amount
          /\ adjust_queue = 0 \/ fresh
      BY <1>1, <1>2, <1>3, <2>1, <2>4
    <3>2. amount = n + adjust_queue /\ amount \in Nat
      BY <1>1, <3>1
    <3>3. (window + amount) % Wrap = window + amount /\ window + amount \in Counter
      <4>1. window + amount \in Nat /\ window + amount < Wrap
        BY <1>1, <3>1, <3>2
      <4> QED BY <4>1, ModIs DEF Counter
    <3>4. /\ window' = window + amount /\ window' \in Counter
          /\ peerWindow' = peerWindow + amount /\ adjust_state' = "idle"
          /\ adjust_adjust' = pkt
      BY <2>1, <2>4, <3>1, <3>3
    <3>5. /\ window' - window = peerWindow' - peerWindow /\ peerWindow' \in Nat
          /\ window' = window + adjust_queue + n
      BY <1>1, <3>2, <3>4
    <3>6. adjust_queue' <= MinAdjust /\ (use.sendBlocks => adjust_queue' = 0)
      BY <1>1, <1>2, <2>3, <3>1
    <3> QED BY <1>3, <2>3, <2>4, <3>4, <3>5, <3>6
  <2>5. CASE rc # "OK"
    <3>1. sockUp /\ use.sendBlocks => pkt = n /\ adjust_queue = 0
      BY <1>1, <1>2, <1>3 DEF pkt
    <3> QED BY <1>1, <1>2, <1>3, <2>1, <2>3, <2>5, <3>1
  <2> QED BY <2>4, <2>5
<1> QED
  BY <1>4, <1>5, <1>6

-------------------------------------------------------------------------------
(* The steps that adjust the window. *)

\* What is left to show when only the window and its adjustment change.
LEMMA WindowStep ==
    ASSUME IInv, Calm(use), UNCHANGED <<dataVars, req, nread, zero, flushVars, read_avail, reof,
                                        rclose, sockUp>>,
           read_state' \in {"idle", "jump1"},
           adjust_state' \in {"idle", "created"},
           adjust_queue' \in Counter /\ adjust_adjust' \in Counter,
           window' \in Counter /\ peerWindow' \in Nat,
           window' - window = peerWindow' - peerWindow,
           pc' \in PC, CallInv', AdjustInv'
    PROVE  IInv'
<1> USE DEF dataVars, flushVars
<1>1. Arrived' = Arrived /\ QueueInv' /\ WireInv' /\ DataInv'
  BY DataStays
<1>2. TypeOK'
  BY DEF IInv, TypeOK
<1>3. SyncInv'
  <2>1. /\ window \in Nat /\ peerWindow \in Nat /\ read_avail \in Nat
        /\ sent \in Nat /\ Arrived \in Int /\ window' \in Nat /\ peerWindow' \in Nat
        /\ window' - window = peerWindow' - peerWindow
    BY Numbers DEF IInv, Counter
  <2>2. window = peerWindow + (sent - Arrived) + read_avail
    BY DEF IInv, SyncInv
  <2>3. window' = peerWindow' + (sent - Arrived) + read_avail
    <3>1. /\ window \in Int /\ peerWindow \in Int /\ read_avail \in Int
          /\ sent \in Int /\ window' \in Int /\ peerWindow' \in Int
      BY <2>1
    <3> DEFINE w == window'
               p == peerWindow'
               a == Arrived
    <3>2. /\ w \in Int /\ p \in Int /\ a \in Int /\ w - window = p - peerWindow
          /\ window = peerWindow + (sent - a) + read_avail
      BY <2>1, <2>2, <3>1, Zenon
    <3> HIDE DEF w, p, a
    <3>3. w = p + (sent - a) + read_avail
      BY <3>1, <3>2
    <3> QED BY <3>3, Zenon DEF w, p, a
  <2> QED BY <1>1, <2>3 DEF SyncInv
<1>4. EndInv'
  BY DEF IInv, EndInv, AllArrived, IsData, Of
<1> QED
  BY <1>1, <1>2, <1>3, <1>4 DEF IInv

LEMMA Adjust2Inv ==
    ASSUME IInv, Calm(use), NEW rc \in Rc, Adjust2(rc)
    PROVE  IInv'
<1> USE DEF dataVars, inVars, peerVars, flushVars
<1>1. /\ pc \in {"ask", "ask_force"}
      /\ ReceiveWindowAdjust(window, req.size, pc = "ask_force", rc)
      /\ IF rc = "EAGAIN" THEN WouldBlock(pc) ELSE pc' = "out"
      /\ UNCHANGED <<dataVars, req, nread, zero, read_state, flushVars, read_avail, reof, rclose, sockUp>>
  BY DEF Adjust2
<1>2. req.size \in use.sizes /\ "adjust" \in use.ops /\ ~use.sendBlocks
  BY <1>1, UseIs DEF IInv, CallInv, Calm
<1>3. /\ req.size \in Nat /\ MinAdjust \in Nat /\ Wrap \in Nat /\ InitWindow \in Nat
      /\ AskMax \in Nat /\ MinAdjust < Wrap /\ AskMax < Wrap
      /\ window \in Nat /\ adjust_queue \in Nat
  BY <1>2, UseIs, Numbers DEF IInv, Calm
<1>4. sockUp => /\ adjust_state # "created" /\ read_state # "jump1"
                /\ window + adjust_queue + req.size < Wrap
  BY <1>1, <1>2, <1>3 DEF IInv, AdjustInv, CallInv
<1> DEFINE force == pc = "ask_force"
<1>5. /\ adjust_state' \in {"idle", "created"}
      /\ adjust_queue' \in Counter /\ adjust_adjust' \in Counter
      /\ window' \in Counter /\ peerWindow' \in Nat
      /\ window' - window = peerWindow' - peerWindow
      /\ rc = "OK" => adjust_state' = "idle"
      /\ rc = "EAGAIN" => use.sendBlocks
      /\ rc = "SOCKET_SEND" => ~sockUp
      /\ sockUp => adjust_queue' <= MinAdjust
  <2>1. force \in BOOLEAN /\ ReceiveWindowAdjust(window, req.size, force, rc)
    BY <1>1
  <2> HIDE DEF force
  <2> QED BY <1>3, <1>4, <2>1, AdjustBooks
<1>6. pc' = "out" /\ pc' \in PC
  BY <1>1, <1>2, <1>5 DEF PC
<1>7. CallInv'
  BY <1>1, <1>6 DEF IInv, CallInv
<1>8. AdjustInv'
  BY <1>1, <1>2, <1>4, <1>5 DEF AdjustInv, Rc
<1>9. read_state' \in {"idle", "jump1"}
  BY <1>1 DEF IInv, TypeOK
<1> QED
  BY <1>1, <1>5, <1>6, <1>7, <1>8, <1>9, WindowStep

LEMMA ReadAdjustInv ==
    ASSUME IInv, Calm(use), NEW rc \in Rc, ReadAdjust(rc)
    PROVE  IInv'
<1> USE DEF dataVars, inVars, peerVars, flushVars
<1>1. /\ pc = "adjust"
      /\ ReceiveWindowAdjust(window, req.size, TRUE, rc)
      /\ \/ pc' = "expand" /\ (rc = "EAGAIN" /\ use.blocking => "timeout" \in use.ops)
         \/ pc' = "adjust" /\ rc = "EAGAIN" /\ use.blocking
      /\ UNCHANGED <<dataVars, req, nread, zero, read_state, flushVars, read_avail, reof, rclose, sockUp>>
  BY DEF ReadAdjust
<1>2. /\ req.size \in use.sizes /\ req.size > window /\ req.size \in Nat
      /\ MinAdjust \in Nat /\ Wrap \in Nat /\ InitWindow \in Nat
      /\ window \in Nat /\ adjust_queue \in Nat /\ use.sendBlocks \in BOOLEAN
      /\ InitWindow + 2 * req.size + 2 * MinAdjust < Wrap
  BY <1>1, UseIs, Numbers DEF IInv, CallInv
<1>3. sockUp => /\ adjust_queue <= MinAdjust /\ read_state = "idle"
                /\ use.sendBlocks => adjust_queue = 0 /\ ~Uniform(use)
                /\ adjust_state = "created" => adjust_adjust = req.size
  BY <1>1 DEF IInv, AdjustInv, TypeOK
<1>4. MinAdjust < Wrap /\ (sockUp => window + adjust_queue + req.size < Wrap)
  BY <1>2, <1>3
<1>5. /\ adjust_state' \in {"idle", "created"}
      /\ adjust_queue' \in Counter /\ adjust_adjust' \in Counter
      /\ window' \in Counter /\ peerWindow' \in Nat
      /\ window' - window = peerWindow' - peerWindow
      /\ rc = "OK" => adjust_state' = "idle"
      /\ rc # "OK" => window' = window
      /\ rc = "EAGAIN" => use.sendBlocks
      /\ rc = "SOCKET_SEND" => ~sockUp
      /\ sockUp => adjust_queue' <= MinAdjust
      /\ sockUp /\ use.sendBlocks => adjust_queue' = 0
      /\ sockUp /\ use.sendBlocks /\ rc # "OK" => adjust_adjust' = req.size
  BY <1>1, <1>2, <1>3, <1>4, AdjustBooks
<1>6. pc' \in PC
  BY <1>1 DEF PC
<1>7. CallInv'
  BY <1>1, <1>2, <1>5 DEF IInv, CallInv
<1>8. AdjustInv'
  <2> SUFFICES ASSUME sockUp PROVE AdjustInv'
    BY <1>1 DEF AdjustInv
  <2>1. use.sendBlocks => Patient(use) /\ ~Uniform(use)
    BY <1>3 DEF Calm
  <2>2. rc \in {"OK", "EAGAIN"}
    BY <1>5 DEF Rc
  <2>3. rc = "EAGAIN" => pc' = "adjust"
    BY <1>1, <1>5, <2>1 DEF Patient
  <2>4. (Patient(use) <=> Patient(use)') /\ (Uniform(use) <=> Uniform(use)')
    BY <1>1 DEF Patient, Uniform
  <2> QED BY <1>1, <1>3, <1>5, <2>1, <2>2, <2>3, <2>4 DEF AdjustInv
<1>9. read_state' \in {"idle", "jump1"}
  BY <1>1 DEF IInv, TypeOK
<1> QED
  BY <1>1, <1>5, <1>6, <1>7, <1>8, <1>9, WindowStep

\* By how much the window is expanded while the connection works.
LEMMA ExpansionIs ==
    ASSUME IInv, Calm(use), pc = "expand", Narrow
    PROVE  /\ Expansion \in Nat /\ Expansion >= MinAdjust
           /\ sockUp => /\ Expansion = ExpansionFor(req.size) /\ window < Wide(req.size)
                        /\ window + Expansion >= InitWindow + req.size /\ Expansion > 0
                        /\ window + adjust_queue + Expansion < Wrap
                        /\ adjust_state = "created" => adjust_adjust = Expansion
<1>1. /\ req.size \in use.sizes /\ req.size \in Nat
      /\ MinAdjust \in Nat /\ Wrap \in Nat /\ InitWindow \in Nat /\ InitWindow < Wrap
      /\ window \in Nat /\ window \in Counter /\ window < Wrap /\ adjust_queue \in Nat
      /\ InitWindow + 2 * req.size + 2 * MinAdjust < Wrap
      /\ InitWindow \div 4 \in Nat /\ (InitWindow \div 4) * 3 <= InitWindow
  BY UseIs, Numbers DEF IInv, TypeOK, CallInv
<1> DEFINE short == (InitWindow + req.size + Wrap - window) % Wrap
           q == (InitWindow \div 4) * 3
<1>2. short \in Nat
  <2>1. InitWindow + req.size + Wrap - window \in Nat
    BY <1>1
  <2>2. short \in Counter
    BY <2>1, ModIs
  <2> QED BY <2>2, <1>1 DEF Counter
<1>3. Expansion = IF short < MinAdjust THEN MinAdjust ELSE short
  BY DEF Expansion
<1>4. ASSUME sockUp
      PROVE  /\ window < Wide(req.size) /\ adjust_queue <= MinAdjust
             /\ adjust_state = "created" => adjust_adjust = ExpansionFor(req.size)
  <2>1. CASE read_state = "jump1"
    BY <1>1, <1>4, <2>1 DEF IInv, AdjustInv
  <2>2. CASE read_state # "jump1"
    BY <1>4, <2>2 DEF IInv, AdjustInv, Narrow, Wide
  <2> QED BY <2>1, <2>2
<1>5. ASSUME sockUp
      PROVE  short = InitWindow + req.size - window /\ short > 0
  <2>1. window < q + req.size /\ q <= InitWindow /\ q \in Nat
    BY <1>1, <1>4, <1>5 DEF Wide
  <2> DEFINE x == InitWindow + req.size
  <2>2. x \in Counter /\ window <= x /\ x - window > 0
    <3> HIDE DEF q
    <3> QED BY <1>1, <2>1 DEF Counter
  <2>3. x = InitWindow + req.size /\ short = (x + Wrap - window) % Wrap
    OBVIOUS
  <2> HIDE DEF x, short
  <2>4. (x + Wrap - window) % Wrap = x - window
    BY <1>1, <2>2, ModLess
  <2> QED BY <1>1, <2>2, <2>3, <2>4
<1> HIDE DEF short
<1>6. ASSUME sockUp
      PROVE  /\ Expansion = ExpansionFor(req.size) /\ Expansion > 0
             /\ window + Expansion >= InitWindow + req.size
             /\ window + adjust_queue + Expansion < Wrap
  <2>1. Expansion = ExpansionFor(req.size)
    BY <1>3, <1>5, <1>6 DEF ExpansionFor
  <2>2. window < q + req.size /\ q <= InitWindow /\ q \in Nat
    BY <1>1, <1>4, <1>6 DEF Wide
  <2> HIDE DEF q
  <2> QED BY <1>1, <1>2, <1>3, <1>4, <1>5, <1>6, <2>1, <2>2
<1> QED
  BY <1>1, <1>2, <1>3, <1>4, <1>6

LEMMA ReadExpandInv ==
    ASSUME IInv, Calm(use), NEW rc \in Rc, ReadExpand(rc)
    PROVE  IInv'
<1> USE DEF dataVars, inVars, peerVars, flushVars, adjustVars
<1>1. /\ pc = "expand"
      /\ CASE rc = "OK" -> pc' = "drain"
           [] rc = "EAGAIN" -> WouldBlock("expand")
           [] OTHER -> pc' = "out"
      /\ UNCHANGED <<dataVars, req, nread, zero, flushVars, read_avail, reof, rclose, sockUp>>
  BY DEF ReadExpand
<1>2. /\ req.size \in use.sizes /\ req.size \in Nat /\ window \in Nat
      /\ MinAdjust \in Nat /\ Wrap \in Nat /\ InitWindow \in Nat /\ MinAdjust < Wrap
      /\ adjust_queue \in Nat
      /\ InitWindow \div 4 \in Nat /\ (InitWindow \div 4) * 3 <= InitWindow
  BY <1>1, UseIs, Numbers DEF IInv, CallInv
<1>3. (Patient(use) <=> Patient(use)') /\ (Uniform(use) <=> Uniform(use)')
  BY <1>1 DEF Patient, Uniform
<1>4. CASE ~Narrow
  <2>1. rc = "OK" /\ pc' = "drain" /\ UNCHANGED <<read_state, adjustVars, window, peerWindow>>
    BY <1>1, <1>4 DEF ReadExpand
  <2>2. CallInv' /\ pc' \in PC
    BY <1>1, <1>2, <2>1 DEF IInv, CallInv, PC
  <2>3. sockUp => adjust_state = "idle" /\ read_state = "idle"
    BY <1>1, <1>4 DEF IInv, AdjustInv, Narrow, TypeOK
  <2>4. window >= Wide(req.size)
    BY <1>2, <1>4 DEF Narrow, Wide
  <2>5. AdjustInv'
    BY <1>1, <1>3, <2>1, <2>3, <2>4 DEF IInv, AdjustInv, Wide
  <2>6. /\ read_state' \in {"idle", "jump1"} /\ adjust_state' \in {"idle", "created"}
        /\ adjust_queue' \in Counter /\ adjust_adjust' \in Counter
        /\ window' \in Counter /\ peerWindow' \in Nat
        /\ window' - window = peerWindow' - peerWindow
    BY <1>2, <2>1 DEF IInv, TypeOK
  <2> QED BY <1>1, <2>2, <2>5, <2>6, WindowStep
<1>5. CASE Narrow
  <2>1. /\ ReceiveWindowAdjust(window, Expansion, FALSE, rc)
        /\ read_state' = IF rc = "OK" THEN "idle" ELSE "jump1"
    BY <1>5 DEF ReadExpand
  <2>2. /\ Expansion \in Nat /\ Expansion >= MinAdjust
        /\ sockUp => /\ Expansion = ExpansionFor(req.size) /\ window < Wide(req.size)
                     /\ window + Expansion >= InitWindow + req.size /\ Expansion > 0
                     /\ window + adjust_queue + Expansion < Wrap
                     /\ adjust_state = "created" => adjust_adjust = Expansion
    BY <1>1, <1>5, ExpansionIs
  <2> DEFINE n == Expansion
  <2> HIDE DEF n
  <2>3. /\ n \in Nat /\ n >= MinAdjust
        /\ sockUp => /\ n = ExpansionFor(req.size) /\ window < Wide(req.size)
                     /\ window + n >= InitWindow + req.size /\ n > 0
                     /\ window + adjust_queue + n < Wrap
                     /\ adjust_state = "created" => adjust_adjust = n
        /\ ReceiveWindowAdjust(window, n, FALSE, rc)
    BY <2>1, <2>2 DEF n
  <2>4. /\ adjust_state' \in {"idle", "created"}
        /\ adjust_queue' \in Counter /\ adjust_adjust' \in Counter
        /\ window' \in Counter /\ peerWindow' \in Nat
        /\ window' - window = peerWindow' - peerWindow
        /\ rc = "OK" => adjust_state' = "idle"
        /\ rc # "OK" => window' = window /\ adjust_state' = "created"
        /\ rc = "EAGAIN" => use.sendBlocks
        /\ rc = "SOCKET_SEND" => ~sockUp
        /\ rc = "OK" /\ sockUp => \/ window' = window + adjust_queue + n
                                  \/ window' = window /\ (n = 0 \/ n < MinAdjust)
        /\ sockUp => adjust_queue' <= MinAdjust
        /\ sockUp /\ use.sendBlocks => adjust_queue' = 0
        /\ sockUp /\ use.sendBlocks /\ rc # "OK" => adjust_adjust' = n
    BY <1>2, <2>3, AdjustBooks
  <2>5. /\ pc' \in {"drain", "expand", "out"} /\ pc' \in PC
        /\ rc = "OK" => pc' = "drain"
        /\ rc = "EAGAIN" => \/ use.blocking /\ pc' = "expand"
                            \/ (use.blocking => "timeout" \in use.ops) /\ pc' = "out"
        /\ rc = "SOCKET_SEND" => pc' = "out"
    BY <1>1 DEF WouldBlock, Rc, PC
  <2>6. CallInv'
    BY <1>1, <1>2, <2>5 DEF IInv, CallInv
  <2>7. AdjustInv'
    <3> SUFFICES ASSUME sockUp PROVE AdjustInv'
      BY <1>1 DEF AdjustInv
    <3>1. rc \in {"OK", "EAGAIN"}
      BY <2>4 DEF Rc
    <3>2. CASE rc = "OK"
      <4>1. window' = window + adjust_queue + n
        BY <1>2, <2>3, <2>4, <3>2
      <4>2. window' >= Wide(req.size)
        BY <1>2, <2>3, <4>1 DEF Wide
      <4> QED BY <1>1, <1>3, <2>1, <2>4, <2>5, <3>2, <4>2 DEF AdjustInv, Wide
    <3>3. CASE rc = "EAGAIN"
      <4>1. /\ use.sendBlocks /\ window' = window /\ adjust_adjust' = ExpansionFor(req.size)
            /\ adjust_queue' = 0 /\ read_state' = "jump1" /\ adjust_state' = "created"
            /\ window < Wide(req.size) /\ pc' \in {"expand", "out"}
        BY <2>1, <2>3, <2>4, <2>5, <3>3
      <4>2. ExpansionFor(req.size)' = ExpansionFor(req.size)
        BY <1>1, <4>1 DEF ExpansionFor
      <4>3. Patient(use) => pc' = "expand"
        BY <2>5, <3>3 DEF Patient
      <4>4. Uniform(use) => \A m \in use.sizes : m = req.size
        BY <1>2 DEF Uniform
      <4>5. Uniform(use) => window >= Wide(0)
        BY <1>1, <4>1 DEF IInv, AdjustInv
      <4>6. Patient(use) \/ Uniform(use)
        BY <4>1 DEF Calm
      <4>7. \/ /\ Patient(use)' /\ pc' = "expand" /\ read_state' = "jump1"
               /\ window' < Wide(req.size)' /\ adjust_adjust' = ExpansionFor(req.size)'
            \/ /\ Uniform(use)' /\ read_state' = "jump1"
               /\ pc' \notin {"drain", "copy", "adjust"}
               /\ \A m \in use'.sizes : window' < Wide(m)' /\ adjust_adjust' = ExpansionFor(m)'
        BY <1>1, <1>3, <4>1, <4>2, <4>3, <4>4, <4>6 DEF Wide
      <4>8. Uniform(use)' => /\ pc' # "adjust"
                            /\ window' >= IF pc' \in {"drain", "copy"} THEN Wide(req.size)' ELSE Wide(0)'
        BY <1>3, <4>1, <4>5 DEF Wide
      <4> QED BY <1>1, <1>2, <2>4, <4>1, <4>7, <4>8 DEF AdjustInv
    <3> QED BY <3>1, <3>2, <3>3
  <2>8. read_state' \in {"idle", "jump1"}
    BY <2>1
  <2> QED BY <1>1, <2>4, <2>5, <2>6, <2>7, <2>8, WindowStep
<1> QED
  BY <1>4, <1>5

-------------------------------------------------------------------------------
(* Steps of a call that leave window and data alone. *)

LEMMA AdjustStays ==
    ASSUME IInv, UNCHANGED <<use, read_state, adjustVars, window>>, sockUp' => sockUp,
           \/ UNCHANGED <<pc, req>>
           \/ /\ pc \notin {"adjust", "expand"}
              /\ sockUp /\ use.sendBlocks /\ Uniform(use) => pc' # "adjust"
              /\ sockUp /\ use.sendBlocks /\ pc' \in {"drain", "copy"} =>
                    pc \in {"drain", "copy"} /\ req' = req
    PROVE  AdjustInv'
<1> USE DEF adjustVars
<1> SUFFICES ASSUME sockUp' PROVE AdjustInv'
  BY DEF AdjustInv
<1>1. sockUp /\ (Patient(use) <=> Patient(use)') /\ (Uniform(use) <=> Uniform(use)')
  BY DEF Patient, Uniform
<1>2. /\ adjust_queue <= MinAdjust
      /\ use.sendBlocks => adjust_queue = 0
      /\ read_state = "jump1" => adjust_state = "created"
  BY <1>1 DEF IInv, AdjustInv
<1>3. CASE UNCHANGED <<pc, req>>
  BY <1>1, <1>3 DEF IInv, AdjustInv, Wide, ExpansionFor
<1>4. CASE /\ pc \notin {"adjust", "expand"}
           /\ sockUp /\ use.sendBlocks /\ Uniform(use) => pc' # "adjust"
           /\ sockUp /\ use.sendBlocks /\ pc' \in {"drain", "copy"} =>
                 pc \in {"drain", "copy"} /\ req' = req
  <2>1. adjust_state = "created" =>
           /\ use.sendBlocks /\ Uniform(use) /\ read_state = "jump1"
           /\ pc' \notin {"drain", "copy", "adjust"}
           /\ \A n \in use.sizes : window < Wide(n) /\ adjust_adjust = ExpansionFor(n)
    BY <1>1, <1>4 DEF IInv, AdjustInv
  <2>2. Uniform(use) /\ use.sendBlocks =>
           window >= IF pc' \in {"drain", "copy"} THEN Wide(req'.size) ELSE Wide(0)
    <3>1. SUFFICES ASSUME Uniform(use), use.sendBlocks
                   PROVE  window >= IF pc' \in {"drain", "copy"} THEN Wide(req'.size) ELSE Wide(0)
      OBVIOUS
    <3>2. window >= IF pc \in {"drain", "copy"} THEN Wide(req.size) ELSE Wide(0)
      BY <1>1, <3>1 DEF IInv, AdjustInv
    <3>3. Wide(req.size) >= Wide(0) /\ Wide(req.size) \in Nat /\ Wide(0) \in Nat /\ window \in Nat
      <4>1. InitWindow \div 4 \in Nat /\ req.size \in Nat /\ window \in Nat
        BY UseIs DEF IInv, TypeOK, Counter
      <4> QED BY <4>1 DEF Wide
    <3> QED BY <1>1, <1>4, <3>1, <3>2, <3>3
  <2>3. \A n : Wide(n)' = Wide(n) /\ ExpansionFor(n)' = ExpansionFor(n)
    BY DEF Wide, ExpansionFor
  <2> QED BY <1>1, <1>2, <1>4, <2>1, <2>2, <2>3 DEF AdjustInv, Wide, ExpansionFor
<1> QED
  BY <1>3, <1>4

LEMMA QuietStep ==
    ASSUME IInv, UNCHANGED <<dataVars, nread, read_state, adjustVars, flushVars, window,
                             read_avail, reof, rclose, peerWindow>>,
           pc' \in PC, req' \in [stream : Stream, size : Nat], nread <= req'.size,
           zero' \in [Stream -> BOOLEAN], sockUp' \in BOOLEAN,
           CallInv', AdjustInv',
           \A s \in Stream : zero'[s] => zero[s] \/ (AllArrived /\ Of(s) = {})
    PROVE  IInv'
<1> USE DEF dataVars, flushVars, adjustVars
<1>1. Arrived' = Arrived /\ QueueInv' /\ WireInv' /\ DataInv'
  BY DataStays
<1>2. TypeOK'
  <2>1. nread' \in 0..req'.size
    BY DEF IInv, TypeOK
  <2> QED BY <2>1 DEF IInv, TypeOK
<1>3. SyncInv'
  BY <1>1 DEF IInv, SyncInv
<1>4. EndInv'
  BY DEF IInv, EndInv, AllArrived, IsData, Of
<1> QED
  BY <1>1, <1>2, <1>3, <1>4 DEF IInv

\* A call begins.
LEMMA ClientInv ==
    ASSUME IInv, Calm(use), ClientStep
    PROVE  IInv'
<1> USE DEF dataVars, inVars, peerVars, flushVars, adjustVars
<1>1. /\ pc = "out" => nread = 0
      /\ req \in [stream : Stream, size : Nat] /\ use.sizes \subseteq Nat /\ nread <= req.size
      /\ zero \in [Stream -> BOOLEAN] /\ sockUp \in BOOLEAN /\ Stdout \in Stream
      /\ nread \in Nat /\ "flush" \notin use.ops
  <2>1. /\ use.sizes \subseteq Nat /\ Stdout \in Stream /\ req.size \in Nat
        /\ nread \in Nat
    BY UseIs, Numbers DEF IInv
  <2>2. nread <= req.size
    BY <2>1 DEF IInv, TypeOK
  <2> QED BY <2>1, <2>2 DEF IInv, CallInv, TypeOK, Calm
<1>2. ASSUME NEW s \in Stream, NEW n \in use.sizes, ReadCall(s, n)
      PROVE  IInv'
  <2>1. /\ pc = "out" /\ req' = [stream |-> s, size |-> n]
        /\ pc' = IF n > window THEN "adjust" ELSE "expand"
        /\ UNCHANGED <<dataVars, nread, read_state, adjustVars, flushVars, window, read_avail,
                       reof, rclose, peerWindow, zero, sockUp>>
    BY <1>2 DEF ReadCall
  <2>2. /\ pc' \in PC /\ nread = 0 /\ req' \in [stream : Stream, size : Nat]
        /\ req'.size = n /\ n \in Nat
    BY <1>1, <2>1 DEF PC
  <2>3. CallInv'
    BY <2>1, <2>2 DEF IInv, CallInv
  <2>4. sockUp /\ use.sendBlocks /\ Uniform(use) => pc' # "adjust"
    <3>1. SUFFICES ASSUME sockUp, use.sendBlocks, Uniform(use)
                   PROVE  n <= window
      BY <2>1, Numbers DEF IInv
    <3>2. window >= Wide(0) /\ n <= (InitWindow \div 4) * 3
      BY <2>1, <3>1 DEF IInv, AdjustInv, Uniform
    <3>3. InitWindow \div 4 \in Nat /\ window \in Nat
      BY UseIs, Numbers DEF IInv
    <3> QED BY <2>2, <3>2, <3>3 DEF Wide
  <2>5. AdjustInv'
    BY <2>1, <2>4, AdjustStays
  <2> QED BY <1>1, <2>1, <2>2, <2>3, <2>5, QuietStep
<1>3. ASSUME NEW n \in use.sizes, NEW force \in BOOLEAN, Adjust2Call(n, force)
      PROVE  IInv'
  <2>1. /\ "adjust" \in use.ops /\ pc = "out" /\ window + adjust_queue + n <= AskMax
        /\ req' = [stream |-> Stdout, size |-> n] /\ nread' = 0
        /\ pc' = IF force THEN "ask_force" ELSE "ask"
        /\ UNCHANGED <<dataVars, read_state, adjustVars, flushVars, window, read_avail,
                       reof, rclose, peerWindow, zero, sockUp>>
    BY <1>3 DEF Adjust2Call
  <2>2. /\ pc' \in PC /\ nread = 0 /\ nread' = nread /\ req' \in [stream : Stream, size : Nat]
        /\ req'.size = n /\ n \in Nat /\ pc' \in {"ask", "ask_force"}
    BY <1>1, <2>1 DEF PC
  <2>3. CallInv'
    BY <2>1, <2>2 DEF IInv, CallInv
  <2>4. AdjustInv'
    BY <2>1, <2>2, AdjustStays
  <2> QED BY <1>1, <2>1, <2>2, <2>3, <2>4, QuietStep
<1>4. ASSUME NEW s \in Stream, FlushCall(s)
      PROVE  FALSE
  BY <1>1, <1>4 DEF FlushCall
<1>5. ASSUME NEW what \in {"wait_eof", "wait_closed"}, WaitCall(what)
      PROVE  IInv'
  <2>1. /\ pc = "out" /\ pc' \in {"out", "wait_eof", "wait_closed"}
        /\ UNCHANGED <<dataVars, req, nread, read_state, adjustVars, flushVars, window, read_avail,
                       reof, rclose, peerWindow, zero, sockUp>>
    BY <1>5 DEF WaitCall
  <2>2. pc' \in PC
    BY <2>1 DEF PC
  <2>3. CallInv'
    BY <1>1, <2>1 DEF IInv, CallInv
  <2>4. AdjustInv'
    BY <2>1, AdjustStays
  <2> QED BY <1>1, <2>1, <2>2, <2>3, <2>4, QuietStep
<1> QED
  BY <1>2, <1>3, <1>4, <1>5 DEF ClientStep

\* A call goes on, or returns without having read anything.
LEMMA ReturnInv ==
    ASSUME IInv, Calm(use), ReadDrained \/ ReadNothing \/ WaitReturn \/ WaitAgain
    PROVE  IInv'
<1> USE DEF dataVars, inVars, peerVars, flushVars, adjustVars
<1>1. /\ req \in [stream : Stream, size : Nat] /\ nread <= req.size
      /\ zero \in [Stream -> BOOLEAN] /\ sockUp \in BOOLEAN /\ nread \in Nat
  BY UseIs DEF IInv, TypeOK
<1>2. CASE ReadDrained
  <2>1. /\ pc = "drain" /\ pc' = IF sockUp THEN "copy" ELSE "out"
        /\ UNCHANGED <<dataVars, req, nread, read_state, adjustVars, flushVars, window, read_avail,
                       reof, rclose, peerWindow, zero, sockUp>>
    BY <1>2 DEF ReadDrained
  <2>2. pc' \in PC
    BY <2>1 DEF PC
  <2>3. CallInv'
    BY <1>1, <2>1 DEF IInv, CallInv
  <2>4. AdjustInv'
    BY <2>1, AdjustStays
  <2> QED BY <1>1, <2>1, <2>2, <2>3, <2>4, QuietStep
<1>3. CASE ReadNothing
  <2>1. /\ pc = "copy" /\ nread = 0 /\ Of(req.stream) = {}
        /\ pc' \in {"out", "expand"}
        /\ \/ (reof \/ rclose) /\ zero' = [zero EXCEPT ![req.stream] = TRUE]
           \/ zero' = zero
        /\ UNCHANGED <<dataVars, req, nread, read_state, adjustVars, flushVars, window, read_avail,
                       reof, rclose, peerWindow, sockUp>>
    BY <1>3 DEF ReadNothing, WouldBlock
  <2>2. pc' \in PC
    BY <2>1 DEF PC
  <2>3. CallInv'
    BY <1>1, <2>1 DEF IInv, CallInv
  <2>4. AdjustInv'
    BY <2>1, AdjustStays
  <2>5. /\ zero' \in [Stream -> BOOLEAN]
        /\ \A s \in Stream : zero'[s] => zero[s] \/ (AllArrived /\ Of(s) = {})
    BY <1>1, <2>1 DEF IInv, EndInv
  <2> QED BY <1>1, <2>1, <2>2, <2>3, <2>4, <2>5, QuietStep
<1>4. CASE WaitReturn \/ WaitAgain
  <2>1. /\ pc \in {"wait_eof", "wait_closed"} /\ pc' \in {"out", "wait_eof", "wait_closed"}
        /\ UNCHANGED <<dataVars, req, nread, read_state, adjustVars, flushVars, window, read_avail,
                       reof, rclose, peerWindow, zero, sockUp>>
    BY <1>4 DEF WaitReturn, WaitAgain, WouldBlock
  <2>2. pc' \in PC
    BY <2>1 DEF PC
  <2>3. CallInv'
    BY <1>1, <2>1 DEF IInv, CallInv
  <2>4. AdjustInv'
    BY <2>1, AdjustStays
  <2> QED BY <1>1, <2>1, <2>2, <2>3, <2>4, QuietStep
<1> QED
  BY <1>2, <1>3, <1>4

\* The connection is lost, the client has read everything, or nothing happens.
LEMMA DropInv ==
    ASSUME IInv, Drop \/ Finished \/ UNCHANGED vars
    PROVE  IInv'
<1> USE DEF dataVars, inVars, peerVars, flushVars, adjustVars, callVars
<1>1. /\ req \in [stream : Stream, size : Nat] /\ nread <= req.size
      /\ zero \in [Stream -> BOOLEAN] /\ sockUp \in BOOLEAN /\ nread \in Nat /\ pc \in PC
  BY UseIs DEF IInv, TypeOK
<1>2. /\ UNCHANGED <<dataVars, pc, req, nread, read_state, adjustVars, flushVars, window, read_avail,
                     reof, rclose, peerWindow, zero>>
      /\ sockUp' \in BOOLEAN
      /\ sockUp' => sockUp
  <2>1. CASE Drop
    BY <2>1 DEF Drop
  <2>2. CASE Finished \/ UNCHANGED vars
    <3>1. UNCHANGED vars
      BY <2>2 DEF Finished
    <3> QED BY <1>1, <3>1 DEF vars
  <2> QED BY <2>1, <2>2
<1>3. CallInv'
  BY <1>2 DEF IInv, CallInv
<1>4. AdjustInv'
  BY <1>2, AdjustStays
<1>5. /\ pc' \in PC /\ req' \in [stream : Stream, size : Nat] /\ nread <= req'.size
      /\ zero' \in [Stream -> BOOLEAN] /\ sockUp' \in BOOLEAN
      /\ zero' = zero
  <2>1. pc' = pc /\ req' = req /\ zero' = zero
    BY <1>2
  <2> QED BY <1>1, <1>2, <2>1
<1> QED
  BY <1>2, <1>3, <1>4, <1>5, QuietStep

-------------------------------------------------------------------------------
(* Copying from the queue. *)

(***************************************************************************)
(* AfterTake, packet by packet: the packets but i stay, in their order,    *)
(* and of packet i what is left after the first k bytes.                   *)
(***************************************************************************)
Took(q, i, k) ==
    /\ q \in Seq(Queued)
    /\ \A j \in DOMAIN q : \E h \in DOMAIN packets :
          /\ q[j].stream = packets[h].stream
          /\ q[j].first = IF h = i THEN packets[i].first + k ELSE packets[h].first
          /\ q[j].first + q[j].left = packets[h].first + packets[h].left
    /\ \A h \in DOMAIN packets : (h = i /\ packets[i].left = k) \/ \E j \in DOMAIN q :
          /\ q[j].stream = packets[h].stream
          /\ q[j].first = IF h = i THEN packets[i].first + k ELSE packets[h].first
          /\ q[j].first + q[j].left = packets[h].first + packets[h].left
    /\ \A j, m \in DOMAIN q : j < m => q[j].first + q[j].left <= q[m].first

LEMMA TakeIs ==
    ASSUME TypeOK, QueueInv, NEW i \in DOMAIN packets, NEW k \in Nat \ {0},
           k <= packets[i].left
    PROVE  Took(AfterTake(i, k), i, k)
<1> SUFFICES ASSUME NEW q, q = AfterTake(i, k)
             PROVE  Took(q, i, k)
  OBVIOUS
<1>1. /\ packets \in Seq(Queued) /\ Len(packets) \in Nat /\ i \in 1..Len(packets)
      /\ DOMAIN packets = 1..Len(packets)
      /\ \A h \in 1..Len(packets) : packets[h] \in Queued
  BY DEF TypeOK
<1>2. \A h \in 1..Len(packets) : packets[h].first \in Nat /\ packets[h].left \in Nat
  BY <1>1 DEF Queued
<1>3. \A h, j \in 1..Len(packets) :
         h < j => packets[h].first + packets[h].left <= packets[j].first
  BY <1>1 DEF QueueInv
<1>4. CASE packets[i].left = k
  <2> DEFINE old(j) == IF j < i THEN j ELSE j + 1
  <2>1. /\ q \in Seq(Queued) /\ Len(q) = Len(packets) - 1 /\ DOMAIN q = 1..(Len(packets) - 1)
        /\ \A j \in 1..(Len(packets) - 1) : q[j] = packets[old(j)]
    <3> DEFINE a == SubSeq(packets, 1, i - 1)
               b == SubSeq(packets, i + 1, Len(packets))
    <3>1. q = a \o b
      BY <1>4 DEF AfterTake, Without
    <3>2. /\ a \in Seq(Queued) /\ Len(a) = i - 1
          /\ \A j \in 1..(i - 1) : a[j] = packets[j]
      <4>1. \A j \in 1..(i - 1) : packets[j] \in Queued
        BY <1>1
      <4>2. i - 1 \in Int /\ 1 \in Int /\ i >= 1
        BY <1>1
      <4>3. /\ a \in Seq(Queued) /\ Len(a) = (IF 1 <= i - 1 THEN i - 1 - 1 + 1 ELSE 0)
            /\ \A j \in 1..(i - 1 - 1 + 1) : a[j] = packets[1 + j - 1]
        BY <4>1, <4>2, SubSeqProperties
      <4> HIDE DEF a
      <4> QED BY <4>2, <4>3
    <3>3. /\ b \in Seq(Queued) /\ Len(b) = Len(packets) - i
          /\ \A j \in 1..(Len(packets) - i) : b[j] = packets[i + j]
      <4>1. \A j \in (i + 1)..Len(packets) : packets[j] \in Queued
        BY <1>1
      <4>2. i + 1 \in Int /\ Len(packets) \in Int /\ i \in Int /\ i <= Len(packets)
        BY <1>1
      <4>3. /\ b \in Seq(Queued)
            /\ Len(b) = (IF i + 1 <= Len(packets) THEN Len(packets) - (i + 1) + 1 ELSE 0)
            /\ \A j \in 1..(Len(packets) - (i + 1) + 1) : b[j] = packets[i + 1 + j - 1]
        BY <4>1, <4>2, SubSeqProperties
      <4> HIDE DEF b
      <4> QED BY <4>2, <4>3
    <3> HIDE DEF a, b
    <3>4. /\ q \in Seq(Queued) /\ Len(q) = Len(a) + Len(b)
          /\ \A j \in 1..(Len(a) + Len(b)) : q[j] = IF j <= Len(a) THEN a[j] ELSE b[j - Len(a)]
      <4>1. a \in Seq(Queued) /\ b \in Seq(Queued)
        BY <3>2, <3>3
      <4> QED BY <3>1, <4>1, ConcatProperties, Zenon
    <3>5. Len(q) = Len(packets) - 1 /\ DOMAIN q = 1..(Len(packets) - 1)
      BY <1>1, <3>2, <3>3, <3>4
    <3>6. ASSUME NEW j \in 1..(Len(packets) - 1) PROVE q[j] = packets[old(j)]
      <4>1. CASE j < i
        BY <1>1, <3>2, <3>3, <3>4, <4>1
      <4>2. CASE j >= i
        <5>1. j - (i - 1) \in 1..(Len(packets) - i) /\ i + (j - (i - 1)) = j + 1
          BY <1>1, <4>2
        <5>2. j \in 1..(Len(a) + Len(b)) /\ ~(j <= Len(a)) /\ Len(a) = i - 1
          BY <1>1, <3>2, <3>3, <4>2
        <5>3. q[j] = b[j - (i - 1)]
          BY <3>4, <5>2
        <5> QED BY <1>1, <3>3, <4>2, <5>1, <5>3
      <4> QED BY <1>1, <4>1, <4>2
    <3> QED BY <3>4, <3>5, <3>6
  <2>2. ASSUME NEW j \in DOMAIN q
        PROVE  old(j) \in DOMAIN packets /\ old(j) # i /\ q[j] = packets[old(j)]
    BY <1>1, <2>1
  <2>3. ASSUME NEW h \in DOMAIN packets, h # i
        PROVE  \E j \in DOMAIN q : q[j] = packets[h]
    <3>1. CASE h < i
      <4>1. h \in DOMAIN q /\ old(h) = h
        BY <1>1, <2>1, <3>1
      <4> QED BY <2>1, <4>1
    <3>2. CASE h > i
      <4>1. h - 1 \in DOMAIN q /\ old(h - 1) = h
        BY <1>1, <2>1, <3>2
      <4> QED BY <2>1, <4>1
    <3> QED BY <1>1, <2>3, <3>1, <3>2
  <2>4. ASSUME NEW j \in DOMAIN q, NEW m \in DOMAIN q, j < m
        PROVE  q[j].first + q[j].left <= q[m].first
    <3>1. old(j) < old(m)
      BY <1>1, <2>1, <2>4
    <3> QED BY <1>1, <1>3, <2>2, <3>1
  <2> HIDE DEF old
  <2> QED BY <1>4, <2>1, <2>2, <2>3, <2>4 DEF Took
<1>5. CASE packets[i].left # k
  <2> DEFINE p == [packets[i] EXCEPT !.first = @ + k, !.left = @ - k]
  <2>1. q = [packets EXCEPT ![i] = p]
    BY <1>1, <1>5 DEF AfterTake
  <2>2. /\ p \in Queued /\ p.stream = packets[i].stream
        /\ p.first = packets[i].first + k /\ p.left = packets[i].left - k
    <3>1. packets[i] \in Queued /\ packets[i].left - k \in Nat \ {0} /\ packets[i].first + k \in Nat
      BY <1>1, <1>2, <1>5
    <3> QED BY <3>1 DEF Queued
  <2> HIDE DEF p
  <2>3. /\ q \in Seq(Queued) /\ DOMAIN q = 1..Len(packets) /\ q[i] = p
        /\ \A j \in 1..Len(packets) : j # i => q[j] = packets[j]
    BY <1>1, <2>1, <2>2
  <2>4. p.first + p.left = packets[i].first + packets[i].left
    <3>1. packets[i].first \in Nat /\ packets[i].left \in Nat
      BY <1>1, <1>2
    <3> QED BY <2>2, <3>1
  <2>5. ASSUME NEW j \in DOMAIN q, NEW m \in DOMAIN q, j < m
        PROVE  q[j].first + q[j].left <= q[m].first
    <3>1. packets[j].first + packets[j].left <= packets[m].first
      BY <1>3, <2>3, <2>5
    <3>2. q[j].first + q[j].left = packets[j].first + packets[j].left
      BY <2>3, <2>4
    <3>3. q[m].first >= packets[m].first
      BY <1>2, <2>2, <2>3
    <3>4. q[m].first \in Nat /\ packets[m].first \in Nat
          /\ packets[j].first + packets[j].left \in Nat
      <4>1. packets[m].first \in Nat /\ packets[j].first \in Nat /\ packets[j].left \in Nat
        BY <1>2, <2>3
      <4>2. p.first \in Nat
        BY <1>1, <1>2, <2>2
      <4>3. q[m].first \in Nat
        BY <2>3, <4>1, <4>2
      <4> QED BY <4>1, <4>3
    <3> QED BY <3>1, <3>2, <3>3, <3>4
  <2> QED BY <1>1, <2>2, <2>3, <2>4, <2>5 DEF Took
<1> QED
  BY <1>4, <1>5

\* A run of bytes is appended to a stream.
LEMMA RunIs ==
    ASSUME NEW g \in Seq(Nat), NEW f \in Nat, NEW k \in Nat,
           Increasing(g), \A b \in Bytes(g) : b < f
    PROVE  /\ g \o [j \in 1..k |-> f + j - 1] \in Seq(Nat)
           /\ Increasing(g \o [j \in 1..k |-> f + j - 1])
           /\ Bytes(g \o [j \in 1..k |-> f + j - 1]) = Bytes(g) \cup f .. (f + k - 1)
<1> DEFINE run == [j \in 1..k |-> f + j - 1]
           n == Len(g)
           r == g \o run
<1>1. n \in Nat /\ DOMAIN g = 1..n /\ \A j \in 1..n : g[j] \in Nat /\ g[j] < f
  BY DEF Bytes
<1>2. run \in Seq(Nat) /\ Len(run) = k /\ \A j \in 1..k : run[j] = f + j - 1
  <2>1. \A j \in 1..k : f + j - 1 \in Nat
    OBVIOUS
  <2> QED BY <2>1
<1> HIDE DEF run
<1>3. /\ r \in Seq(Nat) /\ Len(r) = n + k
      /\ \A j \in 1..(n + k) : r[j] = IF j <= n THEN g[j] ELSE run[j - n]
  BY <1>2, ConcatProperties
<1> HIDE DEF n, r
<1>4. DOMAIN r = 1..(n + k)
  BY <1>3
<1>5. \A j \in 1..(n + k) : r[j] = IF j <= n THEN g[j] ELSE f + (j - n) - 1
  <2>1. \A j \in 1..(n + k) : ~(j <= n) => j - n \in 1..k
    BY <1>1
  <2> QED BY <1>2, <1>3, <2>1
<1>6. ASSUME NEW j \in 1..(n + k), NEW m \in 1..(n + k), j < m
      PROVE  r[j] < r[m]
  <2>1. CASE m <= n
    <3>1. j \in 1..n /\ m \in 1..n /\ j <= n
      BY <1>1, <1>6, <2>1
    <3> QED BY <1>1, <1>5, <1>6, <2>1, <3>1 DEF Increasing
  <2>2. CASE j <= n /\ m > n
    <3>1. g[j] \in Nat /\ g[j] < f /\ r[j] = g[j]
      BY <1>1, <1>5, <2>2
    <3>2. r[m] = f + (m - n) - 1
      BY <1>1, <1>5, <2>2
    <3> QED BY <1>1, <2>2, <3>1, <3>2
  <2>3. CASE j > n /\ m > n
    <3>1. r[j] = f + (j - n) - 1 /\ r[m] = f + (m - n) - 1
      BY <1>1, <1>5, <2>3
    <3> QED BY <1>1, <1>6, <3>1
  <2> QED BY <1>1, <1>6, <2>1, <2>2, <2>3
<1>7. ASSUME NEW b PROVE b \in Bytes(r) <=> b \in Bytes(g) \/ b \in f .. (f + k - 1)
  <2>1. ASSUME b \in Bytes(r) PROVE b \in Bytes(g) \/ b \in f .. (f + k - 1)
    <3>1. PICK j \in 1..(n + k) : b = r[j]
      BY <1>4, <2>1 DEF Bytes
    <3>2. CASE j <= n
      BY <1>1, <1>5, <3>1, <3>2 DEF Bytes
    <3>3. CASE j > n
      <4>1. b = f + (j - n) - 1
        BY <1>1, <1>5, <3>1, <3>3
      <4> QED BY <1>1, <3>3, <4>1
    <3> QED BY <1>1, <3>2, <3>3
  <2>2. ASSUME b \in Bytes(g) PROVE b \in Bytes(r)
    <3>1. PICK j \in 1..n : b = g[j]
      BY <1>1, <2>2 DEF Bytes
    <3>2. j \in 1..(n + k) /\ j <= n
      BY <1>1
    <3> QED BY <1>4, <1>5, <3>1, <3>2 DEF Bytes
  <2>3. ASSUME b \in f .. (f + k - 1) PROVE b \in Bytes(r)
    <3> DEFINE j == n + (b - f) + 1
    <3>1. j \in 1..(n + k) /\ ~(j <= n) /\ f + (j - n) - 1 = b
      BY <1>1, <2>3
    <3> HIDE DEF j
    <3> QED BY <1>4, <1>5, <3>1 DEF Bytes
  <2> QED BY <2>1, <2>2, <2>3
<1>8. Increasing(r)
  BY <1>4, <1>6 DEF Increasing
<1>9. Bytes(r) = Bytes(g) \cup f .. (f + k - 1)
  BY <1>7
<1> QED
  BY <1>3, <1>8, <1>9 DEF r, run

LEMMA CopyInv ==
    ASSUME IInv, Calm(use), ReadCopy
    PROVE  IInv'
<1> DEFINE s == req.stream
           i == First(Of(s))
           k == Lesser(req.size - nread, packets[i].left)
           f == packets[i].first
           Taken == f .. (f + k - 1)
<1>1. /\ pc = "copy" /\ nread < req.size /\ Of(s) # {}
      /\ got' = [got EXCEPT ![s] = @ \o [j \in 1..k |-> f + j - 1]]
      /\ packets' = AfterTake(i, k) /\ nread' = nread + k
      /\ UNCHANGED <<pc, req, zero, read_state, adjustVars, flushVars, window, read_avail,
                     reof, rclose, wire, peerWindow, peerVars, sockUp>>
  BY DEF ReadCopy
<1>2. /\ packets \in Seq(Queued) /\ Len(packets) \in Nat /\ DOMAIN packets = 1..Len(packets)
      /\ \A h \in DOMAIN packets : packets[h] \in Queued
      /\ \A h \in DOMAIN packets : packets[h].first \in Nat /\ packets[h].left \in Nat \ {0}
      /\ s \in Stream
  <2>1. /\ packets \in Seq(Queued) /\ req \in [stream : Stream, size : Nat]
    BY DEF IInv, TypeOK
  <2>2. \A h \in DOMAIN packets : packets[h] \in Queued
    BY <2>1
  <2> QED BY <2>1, <2>2 DEF Queued
<1>3. /\ i \in DOMAIN packets /\ packets[i].stream = s
      /\ \A j \in Of(s) : i <= j
  <2>1. Of(s) \in SUBSET Nat
    BY <1>2 DEF Of
  <2>2. i \in Of(s) /\ \A j \in Of(s) : i <= j
    BY <1>1, <2>1, FirstIs
  <2> QED BY <1>2, <2>2 DEF Of
<1> HIDE DEF i
<1>4. /\ k \in Nat \ {0} /\ k <= packets[i].left /\ k <= req.size - nread
      /\ nread \in Nat /\ req.size \in Nat /\ f \in Nat /\ i \in Nat
  <2>1. nread \in Nat /\ req.size \in Nat
    BY Numbers DEF IInv
  <2> QED BY <1>1, <1>2, <1>3, <2>1 DEF Lesser
<1> HIDE DEF s, k
<1>5. /\ packets' \in Seq(Queued)
      /\ \A j \in DOMAIN packets' : \E h \in DOMAIN packets :
            /\ packets'[j].stream = packets[h].stream
            /\ packets'[j].first = IF h = i THEN f + k ELSE packets[h].first
            /\ packets'[j].first + packets'[j].left = packets[h].first + packets[h].left
      /\ \A h \in DOMAIN packets : (h = i /\ packets[i].left = k) \/ \E j \in DOMAIN packets' :
            /\ packets'[j].stream = packets[h].stream
            /\ packets'[j].first = IF h = i THEN f + k ELSE packets[h].first
            /\ packets'[j].first + packets'[j].left = packets[h].first + packets[h].left
      /\ \A j, m \in DOMAIN packets' :
            j < m => packets'[j].first + packets'[j].left <= packets'[m].first
  <2>1. TypeOK /\ QueueInv
    BY DEF IInv
  <2>2. packets' = AfterTake(i, k) /\ i \in DOMAIN packets /\ k \in Nat \ {0} /\ k <= packets[i].left
    BY <1>1, <1>3, <1>4
  <2>3. Took(packets', i, k)
    BY <2>1, <2>2, TakeIs
  <2> QED BY <2>3, Zenon DEF Took
<1>6. \A j \in DOMAIN packets' : packets'[j].first \in Nat /\ packets'[j].left \in Nat \ {0}
  <2>1. \A j \in DOMAIN packets' : packets'[j] \in Queued
    BY <1>5
  <2> QED BY <2>1 DEF Queued
<1>7. /\ \A h \in DOMAIN packets :
            packets[h].first >= 1 /\ packets[h].first + packets[h].left - 1 <= Arrived
      /\ \A h, j \in DOMAIN packets :
            h < j => packets[h].first + packets[h].left <= packets[j].first
      /\ IsFiniteSet(Queue) /\ Cardinality(Queue) + nread = read_avail
      /\ read_avail \in Nat /\ Arrived \in Int
  BY Numbers DEF IInv, QueueInv
<1>8. Arrived' = Arrived /\ sent' = sent /\ out' = out
  BY <1>1 DEF Arrived, peerVars
\* A byte of the queue stays there unless it is taken.
<1>9. ASSUME NEW b \in Int, NEW h \in DOMAIN packets, b \in Span(packets[h]), b \notin Taken
      PROVE  \E j \in DOMAIN packets' :
                packets'[j].stream = packets[h].stream /\ b \in Span(packets'[j])
  <2>1. b >= packets[h].first /\ b < packets[h].first + packets[h].left
    BY <1>2, <1>9 DEF Span
  <2>2. h = i => b >= f + k
    BY <1>4, <1>9, <2>1
  <2>3. ~(h = i /\ packets[i].left = k)
    BY <1>2, <1>4, <2>1, <2>2
  <2>4. PICK j \in DOMAIN packets' :
            /\ packets'[j].stream = packets[h].stream
            /\ packets'[j].first = IF h = i THEN f + k ELSE packets[h].first
            /\ packets'[j].first + packets'[j].left = packets[h].first + packets[h].left
    BY <1>5, <2>3
  <2>5. b >= packets'[j].first
    BY <2>1, <2>2, <2>4
  <2>6. packets'[j].first \in Nat /\ packets'[j].left \in Nat
    BY <1>6
  <2>7. b < packets'[j].first + packets'[j].left
    BY <2>1, <2>4
  <2>8. b \in Span(packets'[j])
    BY <2>5, <2>6, <2>7 DEF Span
  <2> QED BY <2>4, <2>8
\* What is in the queue was there, and it was not taken.
<1>10. ASSUME NEW b \in Int, NEW j \in DOMAIN packets', b \in Span(packets'[j])
       PROVE  /\ b \notin Taken
              /\ \E h \in DOMAIN packets :
                    packets[h].stream = packets'[j].stream /\ b \in Span(packets[h])
  <2>1. PICK h \in DOMAIN packets :
            /\ packets'[j].stream = packets[h].stream
            /\ packets'[j].first = IF h = i THEN f + k ELSE packets[h].first
            /\ packets'[j].first + packets'[j].left = packets[h].first + packets[h].left
    BY <1>5
  <2>2. packets'[j].first \in Nat /\ packets'[j].left \in Nat
    BY <1>6
  <2>3. b >= packets'[j].first /\ b < packets'[j].first + packets'[j].left
    BY <1>10, <2>2 DEF Span
  <2>4. b >= packets[h].first /\ b < packets[h].first + packets[h].left
    BY <1>2, <1>4, <2>1, <2>3
  <2>5. b \in Span(packets[h])
    BY <1>2, <2>4 DEF Span
  <2>6. CASE h = i
    BY <1>4, <2>1, <2>3, <2>5, <2>6
  <2>7. CASE h # i
    <3>1. h < i \/ i < h
      BY <1>2, <1>4, <2>7
    <3>2. packets[h].first + packets[h].left <= f \/ f + packets[i].left <= packets[h].first
      BY <1>3, <1>7, <3>1
    <3>3. b < f \/ b >= f + k
      BY <1>2, <1>3, <1>4, <2>4, <3>2
    <3> QED BY <1>4, <2>1, <2>5, <3>3
  <2> QED BY <2>6, <2>7
<1>11. \A b \in Taken : b \in Int /\ b \in Span(packets[i])
  BY <1>2, <1>3, <1>4 DEF Span
<1>0. /\ f >= 1 /\ f + k - 1 <= Arrived /\ packets[i].left \in Nat
      /\ \A b \in Taken : b \in Int /\ b >= f /\ b < f + k /\ b \in 1..Arrived
  <2>1. f >= 1 /\ f + packets[i].left - 1 <= Arrived /\ packets[i].left \in Nat
    BY <1>2, <1>3, <1>7
  <2>2. f + k - 1 <= Arrived
    <3> DEFINE l == packets[i].left
    <3>1. l \in Nat /\ k <= l /\ f + l - 1 <= Arrived
      BY <1>4, <2>1
    <3> HIDE DEF l, f
    <3> QED BY <1>4, <1>7, <3>1
  <2> HIDE DEF f
  <2> QED BY <1>4, <1>7, <2>1, <2>2
<1>12. IsFiniteSet(Taken) /\ Cardinality(Taken) = k /\ Taken \subseteq Queue
  <2>1. f \in Int /\ f + k - 1 \in Int /\ ~(f > f + k - 1) /\ (f + k - 1) - f + 1 = k
    BY <1>4
  <2>2. Taken \subseteq Queue
    BY <1>3, <1>11 DEF Queue
  <2> QED BY <2>1, <2>2, FS_Interval
<1>13. Queue' = Queue \ Taken
  <2>1. ASSUME NEW b \in Queue \ Taken PROVE b \in Queue'
    <3>1. PICK h \in DOMAIN packets : b \in Span(packets[h])
      BY <2>1 DEF Queue
    <3>2. b \in Int
      BY <1>2, <3>1 DEF Span
    <3>3. PICK j \in DOMAIN packets' : b \in Span(packets'[j])
      BY <1>9, <2>1, <3>1, <3>2
    <3> QED BY <3>3 DEF Queue, Span
  <2>2. ASSUME NEW b \in Queue' PROVE b \in Queue \ Taken
    <3>1. PICK j \in DOMAIN packets' : b \in Span(packets'[j])
      BY <2>2 DEF Queue, Span
    <3>2. b \in Int
      BY <1>6, <3>1 DEF Span
    <3>3. b \notin Taken /\ \E h \in DOMAIN packets : b \in Span(packets[h])
      BY <1>10, <3>1, <3>2
    <3> QED BY <3>3 DEF Queue
  <2> QED BY <2>1, <2>2
<1>14. QueueInv'
  <2>1. ASSUME NEW j \in DOMAIN packets'
        PROVE  packets'[j].first >= 1 /\ packets'[j].first + packets'[j].left - 1 <= Arrived'
    <3>1. PICK h \in DOMAIN packets :
              /\ packets'[j].first = IF h = i THEN f + k ELSE packets[h].first
              /\ packets'[j].first + packets'[j].left = packets[h].first + packets[h].left
      BY <1>5
    <3>2. packets[h].first >= 1 /\ packets[h].first + packets[h].left - 1 <= Arrived
      BY <1>7
    <3>3. packets'[j].first >= 1
      BY <1>4, <3>1, <3>2
    <3>4. packets'[j].first + packets'[j].left - 1 <= Arrived
      <4> DEFINE x == packets'[j].first + packets'[j].left
                 y == packets[h].first + packets[h].left
      <4>1. x = y /\ y - 1 <= Arrived /\ y \in Int
        BY <1>2, <3>1, <3>2
      <4> HIDE DEF x, y
      <4>2. x - 1 <= Arrived
        BY <4>1
      <4>3. packets'[j].first \in Nat /\ packets'[j].left \in Nat
        BY <1>6
      <4> QED BY <4>2, <4>3 DEF x
    <3> QED BY <1>8, <3>3, <3>4
  <2>2. IsFiniteSet(Queue') /\ Cardinality(Queue') = Cardinality(Queue) - k
    <3>1. Queue \cap Taken = Taken
      BY <1>12
    <3> HIDE DEF Taken
    <3>2. /\ IsFiniteSet(Queue \ Taken)
          /\ Cardinality(Queue \ Taken) = Cardinality(Queue) - Cardinality(Queue \cap Taken)
      BY <1>7, FS_Difference
    <3> QED BY <1>12, <1>13, <3>1, <3>2
  <2>3. Cardinality(Queue) \in Nat
    BY <1>7, FS_CardinalityType
  <2>4. Cardinality(Queue') + nread' = read_avail'
    BY <1>1, <1>4, <1>7, <2>2, <2>3
  <2> QED BY <1>5, <2>1, <2>2, <2>4 DEF QueueInv
<1>15. /\ got' \in [Stream -> Seq(Nat)] /\ got \in [Stream -> Seq(Nat)]
       /\ Increasing(got'[s]) /\ Bytes(got'[s]) = Bytes(got[s]) \cup Taken
       /\ \A t \in Stream : t # s => got'[t] = got[t]
  <2> DEFINE g == got[s]
  <2>1. got \in [Stream -> Seq(Nat)] /\ g \in Seq(Nat)
    BY <1>2 DEF IInv, TypeOK
  <2>2. Increasing(g) /\ \A b \in Bytes(g) : b < f
    <3>1. /\ Increasing(g)
          /\ \A b \in Bytes(g) : b \in 1..Arrived /\ \A h \in Of(s) : b < packets[h].first
      BY <1>2 DEF IInv, DataInv
    <3>2. i \in Of(s)
      BY <1>2, <1>3 DEF Of
    <3> QED BY <3>1, <3>2
  <2>3. got' = [got EXCEPT ![s] = g \o [j \in 1..k |-> f + j - 1]]
    BY <1>1
  <2> HIDE DEF f
  <2>4. /\ g \o [j \in 1..k |-> f + j - 1] \in Seq(Nat)
        /\ Increasing(g \o [j \in 1..k |-> f + j - 1])
        /\ Bytes(g \o [j \in 1..k |-> f + j - 1]) = Bytes(g) \cup Taken
    <3> HIDE DEF g
    <3> QED BY <1>4, <2>1, <2>2, RunIs
  <2> QED BY <1>2, <2>1, <2>3, <2>4
<1>16. ASSUME NEW t \in Stream, NEW b \in Bytes(got'[t])
       PROVE  b \in 1..Arrived /\ \A j \in Of(t)' : b < packets'[j].first
  <2> SUFFICES ASSUME NEW j \in Of(t)'
               PROVE  b \in 1..Arrived /\ b < packets'[j].first
    <3>1. CASE b \in Bytes(got[t])
      BY <3>1 DEF IInv, DataInv
    <3>2. CASE b \in Taken
      BY <1>0, <3>2
    <3> QED BY <1>15, <3>1, <3>2
  <2>1. PICK h \in DOMAIN packets :
            /\ packets[h].stream = t
            /\ packets'[j].first = IF h = i THEN f + k ELSE packets[h].first
    BY <1>5 DEF Of
  <2>2. h \in Of(t) /\ packets[h].first \in Nat /\ packets[i].left \in Nat
    BY <1>2, <1>3, <2>1 DEF Of
  <2>3. CASE b \in Bytes(got[t])
    <3>1. b \in 1..Arrived /\ b < packets[h].first
      BY <2>2, <2>3 DEF IInv, DataInv
    <3> QED BY <1>4, <1>7, <2>1, <2>2, <3>1
  <2>4. CASE b \in Taken /\ t = s
    <3>1. b \in 1..Arrived /\ b < f + k
      BY <1>0, <2>4
    <3>2. h # i => f + packets[i].left <= packets[h].first
      <4> SUFFICES ASSUME h # i PROVE f + packets[i].left <= packets[h].first
        OBVIOUS
      <4>1. i <= h /\ h \in Nat
        BY <1>2, <1>3, <2>2, <2>4
      <4>2. i < h
        BY <1>4, <4>1
      <4> QED BY <1>3, <1>7, <4>2
    <3>3. f + k <= packets'[j].first
      <4> DEFINE l == packets[i].left
                 pf == packets[h].first
      <4>1. /\ l \in Nat /\ pf \in Nat /\ k <= l /\ packets'[j].first = (IF h = i THEN f + k ELSE pf)
            /\ h # i => f + l <= pf
        BY <1>0, <1>4, <2>1, <2>2, <3>2
      <4> HIDE DEF l, pf, f
      <4> QED BY <1>4, <4>1
    <3>4. packets'[j].first \in Nat /\ b \in Int /\ f + k \in Int
      BY <1>0, <1>4, <1>6, <2>4 DEF Of
    <3> QED BY <3>1, <3>3, <3>4
  <2> QED BY <1>15, <2>3, <2>4
<1>17. ASSUME NEW t \in Stream, NEW b \in Nat
       PROVE  b \in Bytes(out'[t]) <=> b \in Bytes(got'[t]) \/ InQueue(t, b)' \/ OnWire(t, b)'
  <2>1. b \in Bytes(out[t]) <=> b \in Bytes(got[t]) \/ InQueue(t, b) \/ OnWire(t, b)
    BY DEF IInv, DataInv
  <2>2. OnWire(t, b)' <=> OnWire(t, b)
    BY <1>1 DEF OnWire, IsData
  <2>3. InQueue(t, b)' => InQueue(t, b) /\ b \notin Taken
    <3> SUFFICES ASSUME InQueue(t, b)' PROVE InQueue(t, b) /\ b \notin Taken
      OBVIOUS
    <3>1. PICK j \in DOMAIN packets' : packets'[j].stream = t /\ b \in Span(packets'[j])
      BY DEF InQueue, Span
    <3> QED BY <1>10, <3>1 DEF InQueue
  <2>4. InQueue(t, b) /\ b \notin Taken => InQueue(t, b)'
    <3> SUFFICES ASSUME InQueue(t, b), b \notin Taken PROVE InQueue(t, b)'
      OBVIOUS
    <3>1. PICK h \in DOMAIN packets : packets[h].stream = t /\ b \in Span(packets[h])
      BY DEF InQueue
    <3>2. PICK j \in DOMAIN packets' : packets'[j].stream = t /\ b \in Span(packets'[j])
      BY <1>9, <3>1
    <3> QED BY <3>2 DEF InQueue, Span
  <2>5. b \in Taken => InQueue(s, b)
    BY <1>3, <1>11 DEF InQueue
  <2>6. t # s /\ b \in Taken => ~InQueue(t, b)
    <3> SUFFICES ASSUME t # s, b \in Taken, NEW h \in DOMAIN packets,
                        packets[h].stream = t, b \in Span(packets[h])
                 PROVE  FALSE
      BY DEF InQueue
    <3>1. h < i \/ i < h
      BY <1>2, <1>3, <1>4
    <3>2. packets[h].first + packets[h].left <= f \/ f + packets[i].left <= packets[h].first
      BY <1>3, <1>7, <3>1
    <3>3. b >= packets[h].first /\ b < packets[h].first + packets[h].left
      BY <1>2 DEF Span
    <3> DEFINE l == packets[i].left
               pf == packets[h].first
               pl == packets[h].left
    <3>4. /\ l \in Nat /\ pf \in Nat /\ pl \in Nat /\ k <= l /\ b >= f /\ b < f + k
          /\ b >= pf /\ b < pf + pl /\ (pf + pl <= f \/ f + l <= pf)
      BY <1>0, <1>2, <1>4, <3>2, <3>3
    <3> HIDE DEF l, pf, pl, f
    <3> QED BY <1>4, <3>4
  <2> QED BY <1>8, <1>15, <2>1, <2>2, <2>3, <2>4, <2>5, <2>6
<1>18. DataInv'
  <2>1. \A t \in Stream : Increasing(out'[t]) /\ Increasing(got'[t])
                           /\ \A b \in Bytes(out'[t]) : b \in 1..sent'
    BY <1>8, <1>15 DEF IInv, DataInv
  <2> QED BY <1>8, <1>16, <1>17, <2>1 DEF DataInv, Increasing, Bytes
<1>19. EndInv'
  <2>1. \A t : Of(t) = {} => Of(t)' = {}
    <3> SUFFICES ASSUME NEW t, NEW j \in Of(t)' PROVE Of(t) # {}
      OBVIOUS
    <3>1. PICK h \in DOMAIN packets : packets[h].stream = t
      BY <1>5 DEF Of
    <3> QED BY <1>2, <3>1 DEF Of
  <2>2. AllArrived' <=> AllArrived
    BY <1>1 DEF AllArrived, IsData, peerVars
  <2> QED BY <1>1, <2>1, <2>2 DEF IInv, EndInv
<1>20. TypeOK'
  <2>1. nread' \in 0..req'.size
    BY <1>1, <1>4
  <2> QED BY <1>1, <1>5, <1>15, <2>1 DEF IInv, TypeOK, adjustVars, flushVars, peerVars
<1>21. CallInv'
  BY <1>1 DEF IInv, CallInv, adjustVars, flushVars, peerVars
<1>22. AdjustInv'
  BY <1>1, AdjustStays DEF peerVars
<1>23. SyncInv' /\ WireInv'
  BY <1>1, <1>8 DEF IInv, SyncInv, WireInv, IsData, peerVars
<1> QED
  BY <1>14, <1>18, <1>19, <1>20, <1>21, <1>22, <1>23 DEF IInv

-------------------------------------------------------------------------------
(* The wire. *)

LEMMA WireIs ==
    ASSUME IInv, Calm(use)
    PROVE  /\ wire \in Seq(Wire) /\ Len(wire) \in Nat /\ DOMAIN wire = 1..Len(wire)
           /\ \A i \in DOMAIN wire : /\ wire[i] \in Wire /\ wire[i].first \in Nat
                                       /\ wire[i].len \in Nat /\ wire[i].stream \in Stream
           /\ Arrived \in Nat /\ Arrived <= sent /\ sent \in Nat
<1>1. wire \in Seq(Wire) /\ Len(wire) \in Nat /\ DOMAIN wire = 1..Len(wire)
  BY DEF IInv, TypeOK
<1>2. \A i \in DOMAIN wire : /\ wire[i] \in Wire /\ wire[i].first \in Nat
                               /\ wire[i].len \in Nat /\ wire[i].stream \in Stream
  <2>1. \A i \in DOMAIN wire : wire[i] \in Wire
    BY <1>1
  <2> QED BY <2>1 DEF Wire
<1>3. sent \in Nat
  BY Numbers DEF IInv
<1>4. wire # <<>> /\ wire[1].type = "data" => wire[1].first - 1 \in Nat /\ wire[1].first - 1 <= sent
  <2> SUFFICES ASSUME wire # <<>>, wire[1].type = "data"
               PROVE  wire[1].first - 1 \in Nat /\ wire[1].first - 1 <= sent
    OBVIOUS
  <2>1. 1 \in DOMAIN wire
    BY <1>1
  <2>2. wire[1].first >= 1 /\ wire[1].first + wire[1].len <= sent + 1
    BY <2>1 DEF IInv, WireInv, IsData
  <2> QED BY <1>2, <1>3, <2>1, <2>2
<1> QED
  BY <1>1, <1>2, <1>3, <1>4 DEF Arrived

LEMMA ReadReturnInv ==
    ASSUME IInv, Calm(use), ReadReturn
    PROVE  IInv'
<1> USE DEF dataVars, inVars, peerVars, flushVars, adjustVars
<1>1. /\ pc = "copy" /\ nread > 0 /\ pc' = "out" /\ nread' = 0
      /\ read_avail' = (read_avail + Wrap - nread) % Wrap
      /\ window' = (window + Wrap - nread) % Wrap
      /\ UNCHANGED <<dataVars, req, zero, read_state, adjustVars, flushVars, reof, rclose,
                     peerWindow, sockUp>>
  BY DEF ReadReturn
<1>2. /\ nread \in Nat /\ read_avail \in Nat /\ window \in Nat /\ peerWindow \in Nat
      /\ sent \in Nat /\ Arrived \in Nat /\ Arrived <= sent /\ req.size \in Nat
      /\ read_avail \in Counter /\ window \in Counter
  BY Numbers, WireIs DEF IInv, TypeOK
<1>3. nread <= read_avail /\ nread <= window
  <2>1. Cardinality(Queue) \in Nat /\ Cardinality(Queue) + nread = read_avail
    BY FS_CardinalityType DEF IInv, QueueInv
  <2>2. window = peerWindow + (sent - Arrived) + read_avail
    BY DEF IInv, SyncInv
  <2> QED BY <1>2, <2>1, <2>2
<1>4. /\ read_avail' = read_avail - nread /\ window' = window - nread
      /\ read_avail' \in Counter /\ window' \in Counter
  BY <1>1, <1>2, <1>3, ModLess
<1>5. Arrived' = Arrived /\ WireInv' /\ DataInv' /\ EndInv'
  <2>1. Arrived' = Arrived
    BY <1>1 DEF Arrived
  <2>2. WireInv'
    BY <1>1 DEF IInv, WireInv, IsData
  <2>3. DataInv'
    BY <1>1, <2>1 DEF IInv, DataInv, InQueue, OnWire, IsData, Span, Of
  <2>4. EndInv'
    BY <1>1 DEF IInv, EndInv, AllArrived, IsData, Of
  <2> QED BY <2>1, <2>2, <2>3, <2>4
<1>6. QueueInv'
  <2>1. Queue' = Queue /\ Cardinality(Queue) \in Nat /\ Cardinality(Queue) + nread = read_avail
    BY <1>1, FS_CardinalityType DEF IInv, QueueInv, Queue, Span
  <2>2. Cardinality(Queue) + 0 = read_avail - nread
    BY <1>2, <2>1
  <2> QED BY <1>1, <1>4, <1>5, <2>1, <2>2 DEF IInv, QueueInv
<1>7. SyncInv'
  <2>1. window = peerWindow + (sent - Arrived) + read_avail
    BY DEF IInv, SyncInv
  <2>2. window - nread = peerWindow + (sent - Arrived) + (read_avail - nread)
    BY <1>2, <2>1
  <2> QED BY <1>1, <1>4, <1>5, <2>2 DEF SyncInv
<1>8. CallInv'
  BY <1>1 DEF IInv, CallInv
<1>9. AdjustInv'
  <2> SUFFICES ASSUME sockUp PROVE AdjustInv'
    BY <1>1 DEF AdjustInv
  <2>1. /\ adjust_queue <= MinAdjust /\ (use.sendBlocks => adjust_queue = 0)
        /\ read_state # "jump1" /\ adjust_state # "created"
        /\ Uniform(use) /\ use.sendBlocks => window >= Wide(req.size)
    BY <1>1 DEF IInv, AdjustInv
  <2>2. nread <= req.size
    BY <1>2 DEF IInv, TypeOK
  <2>3. Uniform(use) /\ use.sendBlocks => window' >= Wide(0)
    <3> SUFFICES ASSUME Uniform(use), use.sendBlocks PROVE window - nread >= Wide(0)
      BY <1>4
    <3>1. InitWindow \div 4 \in Nat /\ window >= Wide(req.size)
      BY <2>1, UseIs DEF IInv
    <3> QED BY <1>2, <2>2, <3>1 DEF Wide
  <2>4. (Uniform(use)' <=> Uniform(use)) /\ Wide(0)' = Wide(0)
    BY <1>1 DEF Uniform, Wide
  <2> QED BY <1>1, <2>1, <2>3, <2>4 DEF AdjustInv
<1>10. TypeOK'
  <2>1. nread' \in 0..req'.size
    BY <1>1, <1>2
  <2> QED BY <1>1, <1>4, <2>1 DEF IInv, TypeOK, PC
<1> QED
  BY <1>5, <1>6, <1>7, <1>8, <1>9, <1>10 DEF IInv

\* A packet leaves the wire.
LEMMA TailIs ==
    ASSUME IInv, Calm(use), wire # <<>>, wire' = Tail(wire), peer' = peer, sent' = sent
    PROVE  /\ Head(wire) = wire[1] /\ 1 \in DOMAIN wire
           /\ wire' \in Seq(Wire) /\ DOMAIN wire' = 1..(Len(wire) - 1)
           /\ \A i \in DOMAIN wire' : wire'[i] = wire[i + 1] /\ i + 1 \in DOMAIN wire
           /\ \A i \in Nat \ {0} : IsData(wire', i) <=> IsData(wire, i + 1)
           /\ WireInv'
<1>1. wire \in Seq(Wire) /\ Len(wire) \in Nat /\ DOMAIN wire = 1..Len(wire)
  BY WireIs
<1>2. /\ Head(wire) = wire[1] /\ 1 \in DOMAIN wire
      /\ wire' \in Seq(Wire) /\ DOMAIN wire' = 1..(Len(wire) - 1)
      /\ \A i \in DOMAIN wire' : wire'[i] = wire[i + 1] /\ i + 1 \in DOMAIN wire
  BY <1>1
<1>3. ASSUME NEW i \in Nat \ {0} PROVE IsData(wire', i) <=> IsData(wire, i + 1)
  <2>1. i \in DOMAIN wire' <=> i + 1 \in DOMAIN wire
    BY <1>1, <1>2
  <2> QED BY <1>2, <2>1 DEF IsData
<1>4. WireInv'
  <2>1. ASSUME NEW i \in DOMAIN wire', IsData(wire', i)
        PROVE  /\ wire'[i].first >= 1 /\ wire'[i].len \in 1..PacketSize
               /\ wire'[i].first + wire'[i].len <= sent' + 1
               /\ \A j \in 1..(i - 1) : /\ IsData(wire', j)
                                        /\ wire'[j].first + wire'[j].len <= wire'[i].first
               /\ wire'[i].first + wire'[i].len =
                     IF IsData(wire', i + 1) THEN wire'[i + 1].first ELSE sent' + 1
    <3>0. i \in Nat \ {0}
      BY <1>1, <1>2
    <3>1. i \in Nat \ {0} /\ i + 1 \in DOMAIN wire /\ IsData(wire, i + 1) /\ wire'[i] = wire[i + 1]
      BY <1>2, <1>3, <2>1, <3>0
    <3>2. /\ wire[i + 1].first >= 1 /\ wire[i + 1].len \in 1..PacketSize
          /\ wire[i + 1].first + wire[i + 1].len <= sent + 1
          /\ \A j \in 1..((i + 1) - 1) : /\ IsData(wire, j)
                                   /\ wire[j].first + wire[j].len <= wire[i + 1].first
          /\ wire[i + 1].first + wire[i + 1].len = IF IsData(wire, (i + 1) + 1) THEN wire[(i + 1) + 1].first ELSE sent + 1
      BY <3>1 DEF IInv, WireInv
    <3>3. ASSUME NEW j \in 1..(i - 1)
          PROVE  IsData(wire', j) /\ wire'[j].first + wire'[j].len <= wire'[i].first
      <4>1. j + 1 \in 1..((i + 1) - 1) /\ j \in Nat \ {0} /\ j \in DOMAIN wire'
        BY <1>1, <1>2, <3>1
      <4> QED BY <1>2, <1>3, <3>1, <3>2, <4>1
    <3>4. wire'[i].first + wire'[i].len = IF IsData(wire', i + 1) THEN wire'[i + 1].first ELSE sent' + 1
      <4>0. i + 1 \in Nat \ {0}
        BY <3>1
      <4>1. IsData(wire', i + 1) <=> IsData(wire, (i + 1) + 1)
        BY <1>3, <4>0
      <4>2. IsData(wire, (i + 1) + 1) => i + 1 \in DOMAIN wire'
        BY <1>1, <1>2, <3>1 DEF IsData
      <4> QED BY <1>2, <3>1, <3>2, <4>1, <4>2
    <3> QED BY <3>1, <3>2, <3>3, <3>4
  <2>2. ASSUME NEW i \in DOMAIN wire', ~IsData(wire', i) PROVE peer' # "open"
    <3>0. i \in Nat \ {0}
      BY <1>1, <1>2
    <3>1. i \in Nat \ {0} /\ i + 1 \in DOMAIN wire /\ ~IsData(wire, i + 1)
      BY <1>2, <1>3, <2>2, <3>0
    <3> QED BY <3>1 DEF IInv, WireInv
  <2> QED BY <2>1, <2>2 DEF WireInv, IsData
<1> QED
  BY <1>2, <1>3, <1>4

\* An EOF or a CLOSE is read from the socket: all data came before it.
LEMMA EndArrivesInv ==
    ASSUME IInv, Calm(use), TransportRead, Head(wire).type # "data"
    PROVE  IInv'
<1> USE DEF callVars, inVars, peerVars, flushVars, adjustVars
<1>1. /\ wire # <<>> /\ wire' = Tail(wire) /\ reof' = TRUE
      /\ rclose' = (rclose \/ Head(wire).type = "close")
      /\ UNCHANGED <<packets, read_avail, pc, req, nread, zero, read_state, adjustVars, flushVars,
                     window, got, peerWindow, peer, use, sent, out, sockUp>>
  BY DEF TransportRead
<1>2. /\ Head(wire) = wire[1] /\ 1 \in DOMAIN wire
      /\ wire' \in Seq(Wire) /\ DOMAIN wire' = 1..(Len(wire) - 1)
      /\ \A i \in DOMAIN wire' : wire'[i] = wire[i + 1] /\ i + 1 \in DOMAIN wire
      /\ \A i \in Nat \ {0} : IsData(wire', i) <=> IsData(wire, i + 1)
      /\ WireInv'
  BY <1>1, TailIs
<1>3. ~IsData(wire, 1)
  BY <1>2 DEF IsData
<1>4. ASSUME NEW i \in DOMAIN wire PROVE ~IsData(wire, i)
  <2>1. SUFFICES ASSUME IsData(wire, i) PROVE FALSE
    OBVIOUS
  <2>2. i \in Nat /\ i > 1
    BY <1>3, <2>1, WireIs
  <2>3. 1 \in 1..(i - 1)
    BY <2>2
  <2> QED BY <1>3, <2>1, <2>3 DEF IInv, WireInv
<1>5. /\ AllArrived /\ AllArrived' /\ Arrived = sent /\ Arrived' = sent
      /\ \A i \in DOMAIN wire' : ~IsData(wire', i)
  <2>1. peer # "open"
    BY <1>2, <1>3 DEF IInv, WireInv
  <2>2. ASSUME NEW i \in DOMAIN wire' PROVE ~IsData(wire', i)
    <3>1. i \in Nat \ {0} /\ i + 1 \in DOMAIN wire
      <4>1. Len(wire) \in Nat
        BY WireIs
      <4>2. i \in 1..(Len(wire) - 1) /\ i + 1 \in DOMAIN wire
        BY <1>2, Zenon
      <4> QED BY <4>1, <4>2
    <3> QED BY <1>2, <1>4, <3>1
  <2>3. wire' # <<>> => 1 \in DOMAIN wire'
    BY <1>2
  <2> QED BY <1>1, <1>2, <1>3, <1>4, <2>1, <2>2, <2>3 DEF AllArrived, Arrived, IsData
<1>6. TypeOK'
  <2>1. reof' \in BOOLEAN /\ rclose' \in BOOLEAN
    BY <1>1
  <2> QED BY <1>1, <1>2, <2>1 DEF IInv, TypeOK
<1>7. CallInv'
  BY <1>1 DEF IInv, CallInv
<1>8. AdjustInv'
  BY <1>1, AdjustStays
<1>9. SyncInv'
  BY <1>1, <1>5 DEF IInv, SyncInv
<1>10. QueueInv'
  BY <1>1, <1>5 DEF IInv, QueueInv, Queue, Span
<1>11. EndInv'
  BY <1>1, <1>5 DEF IInv, EndInv, Of
<1>12. DataInv'
  <2>1. \A t, b : ~OnWire(t, b)
    BY <1>4 DEF OnWire
  <2>2. ASSUME NEW t \in Stream, NEW b \in Nat
        PROVE  b \in Bytes(out'[t]) <=> b \in Bytes(got'[t]) \/ InQueue(t, b)' \/ OnWire(t, b)'
    <3>1. ~OnWire(t, b)'
      BY <1>5 DEF OnWire
    <3>2. b \in Bytes(out[t]) <=> b \in Bytes(got[t]) \/ InQueue(t, b)
      BY <2>1 DEF IInv, DataInv
    <3>3. InQueue(t, b)' <=> InQueue(t, b)
      BY <1>1 DEF InQueue, Span
    <3> QED BY <1>1, <3>1, <3>2, <3>3
  <2>3. \A t \in Stream :
           /\ Increasing(out'[t]) /\ Increasing(got'[t])
           /\ \A b \in Bytes(out'[t]) : b \in 1..sent'
           /\ \A b \in Bytes(got'[t]) : b \in 1..Arrived' /\ \A i \in Of(t)' : b < packets'[i].first
    BY <1>1, <1>5 DEF IInv, DataInv, Of
  <2> QED BY <2>2, <2>3 DEF DataInv, Increasing, Bytes
<1> QED
  BY <1>2, <1>6, <1>7, <1>8, <1>9, <1>10, <1>11, <1>12 DEF IInv

\* A data packet is read from the socket: the window has room for all of it.
LEMMA DataArrivesInv ==
    ASSUME IInv, Calm(use), TransportRead, Head(wire).type = "data"
    PROVE  IInv'
<1> USE DEF callVars, inVars, peerVars, flushVars, adjustVars
<1> DEFINE m == wire[1]
           f == m.first
           n == m.len
           p == [stream |-> m.stream, size |-> n, first |-> f, left |-> n]
<1>1. /\ wire # <<>> /\ wire' = Tail(wire) /\ QueueData(Head(wire))
      /\ UNCHANGED <<rclose, pc, req, nread, zero, read_state, adjustVars, flushVars,
                     window, got, peerWindow, peer, use, sent, out, sockUp>>
  BY DEF TransportRead
<1>2. /\ Head(wire) = m /\ 1 \in DOMAIN wire
      /\ wire' \in Seq(Wire) /\ DOMAIN wire' = 1..(Len(wire) - 1)
      /\ \A i \in DOMAIN wire' : wire'[i] = wire[i + 1] /\ i + 1 \in DOMAIN wire
      /\ \A i \in Nat \ {0} : IsData(wire', i) <=> IsData(wire, i + 1)
      /\ WireInv'
  BY <1>1, TailIs
<1>3. /\ IsData(wire, 1) /\ m.stream \in Stream /\ f \in Nat /\ f >= 1
      /\ n \in 1..PacketSize /\ n \in Nat \ {0}
      /\ f + n <= sent + 1
      /\ f + n = IF IsData(wire, 2) THEN wire[2].first ELSE sent + 1
      /\ Arrived = f - 1
  <2>1. IsData(wire, 1)
    BY <1>2 DEF IsData
  <2>2. m.stream \in Stream /\ f \in Nat /\ PacketSize \in Nat
    BY <1>2, WireIs, UseIs DEF IInv
  <2>3. /\ f >= 1 /\ n \in 1..PacketSize /\ f + n <= sent + 1
        /\ f + n = IF IsData(wire, 1 + 1) THEN wire[1 + 1].first ELSE sent + 1
    BY <1>2, <2>1 DEF IInv, WireInv
  <2>4. Arrived = f - 1
    BY <1>1, <1>2 DEF Arrived
  <2> QED BY <2>1, <2>2, <2>3, <2>4
<1> HIDE DEF m, f, n
<1>4. /\ window \in Nat /\ read_avail \in Nat /\ peerWindow \in Nat /\ sent \in Nat
      /\ window < Wrap /\ Wrap \in Nat
      /\ window = peerWindow + (sent - Arrived) + read_avail
  BY Numbers DEF IInv, SyncInv
<1>5. window - read_avail >= n /\ window > read_avail
  BY <1>3, <1>4
<1>6. /\ packets' = Append(packets, p) /\ read_avail' = read_avail + n /\ reof' = FALSE
  <2>1. Lesser(Lesser(n, PacketSize), window - read_avail) = n
    BY <1>3, <1>4, <1>5, UseIs DEF Lesser, IInv
  <2>2. ~(window <= read_avail)
    BY <1>4, <1>5
  <2>3. QueueData(m)
    BY <1>1, <1>2
  <2> QED BY <2>1, <2>2, <2>3 DEF QueueData, f, n
<1>7. Arrived' = Arrived + n /\ Arrived' = f + n - 1
  <2>1. 1 \in Nat \ {0} /\ 1 + 1 = 2 /\ (1 \in DOMAIN wire' <=> wire' # <<>>)
    BY <1>2
  <2>2. IsData(wire', 1) <=> IsData(wire, 2)
    BY <1>2, <2>1
  <2>3. CASE IsData(wire, 2)
    <3>1. wire' # <<>> /\ wire'[1].type = "data" /\ wire'[1] = wire[2]
      BY <1>2, <2>1, <2>2, <2>3 DEF IsData
    <3>2. Arrived' = wire[2].first - 1
      BY <3>1 DEF Arrived
    <3>3. wire[2].first = f + n
      BY <1>3, <2>3
    <3> QED BY <1>3, <3>2, <3>3
  <2>4. CASE ~IsData(wire, 2)
    <3>1. ~(wire' # <<>> /\ wire'[1].type = "data")
      BY <2>1, <2>2, <2>4 DEF IsData
    <3>2. Arrived' = sent
      BY <1>1, <3>1 DEF Arrived
    <3>3. f + n = sent + 1
      BY <1>3, <2>4
    <3> QED BY <1>3, <1>4, <3>2, <3>3
  <2> QED BY <2>3, <2>4
<1> DEFINE L == Len(packets)
<1>8. /\ packets \in Seq(Queued) /\ L \in Nat /\ DOMAIN packets = 1..L
      /\ packets' \in Seq(Queued) /\ DOMAIN packets' = 1..(L + 1)
      /\ \A j \in 1..L : packets'[j] = packets[j] /\ j \in DOMAIN packets'
      /\ packets'[L + 1] = p /\ L + 1 \in DOMAIN packets'
      /\ \A j \in 1..L : packets[j].first \in Nat /\ packets[j].left \in Nat \ {0}
  <2>1. p \in Queued
    BY <1>3 DEF Queued
  <2>2. packets \in Seq(Queued)
    BY DEF IInv, TypeOK
  <2> HIDE DEF p
  <2>3. /\ packets' \in Seq(Queued) /\ Len(packets') = L + 1
        /\ \A j \in 1..L : packets'[j] = packets[j]
        /\ packets'[L + 1] = p
    BY <1>6, <2>1, <2>2, AppendProperties
  <2>4. \A j \in 1..L : packets[j] \in Queued
    BY <2>2
  <2>5. \A j \in 1..L : packets[j].first \in Nat /\ packets[j].left \in Nat \ {0}
    BY <2>4 DEF Queued
  <2> QED BY <2>2, <2>3, <2>5
<1> HIDE DEF L
<1>9. p.stream = m.stream /\ p.first = f /\ p.left = n
  OBVIOUS
<1> HIDE DEF p
<1>10. /\ \A j \in 1..L :
             packets[j].first >= 1 /\ packets[j].first + packets[j].left - 1 <= Arrived
       /\ \A i, j \in 1..L : i < j => packets[i].first + packets[i].left <= packets[j].first
       /\ IsFiniteSet(Queue) /\ Cardinality(Queue) + nread = read_avail
  BY <1>8 DEF IInv, QueueInv
<1>11. \A j \in 1..L : packets[j].first + packets[j].left <= f
  BY <1>3, <1>8, <1>10
<1>12. Queue' = Queue \cup f .. (f + n - 1)
  <2>1. Queue' = UNION {Span(packets'[j]) : j \in DOMAIN packets'}
    BY DEF Queue, Span
  <2>2. Queue = UNION {Span(packets[j]) : j \in DOMAIN packets}
    BY DEF Queue
  <2>3. Span(p) = f .. (f + n - 1)
    BY <1>9 DEF Span
  <2>4. ASSUME NEW b \in Queue' PROVE b \in Queue \/ b \in Span(p)
    <3>1. PICK j \in DOMAIN packets' : b \in Span(packets'[j])
      BY <2>1, <2>4
    <3>2. j \in 1..L \/ j = L + 1
      BY <1>8
    <3> QED BY <1>8, <2>2, <3>1, <3>2
  <2>5. ASSUME NEW b, b \in Queue \/ b \in Span(p) PROVE b \in Queue'
    <3>1. CASE b \in Queue
      <4>1. PICK j \in DOMAIN packets : b \in Span(packets[j])
        BY <2>2, <3>1
      <4> QED BY <1>8, <2>1, <4>1
    <3>2. CASE b \in Span(p)
      BY <1>8, <2>1, <3>2
    <3> QED BY <2>5, <3>1, <3>2
  <2> QED BY <2>3, <2>4, <2>5
<1>13. Queue \cap f .. (f + n - 1) = {}
  <2> SUFFICES ASSUME NEW b \in Queue, b \in f .. (f + n - 1) PROVE FALSE
    OBVIOUS
  <2>1. PICK j \in 1..L : b \in Span(packets[j])
    BY <1>8 DEF Queue
  <2>2. b < packets[j].first + packets[j].left /\ b \in Int
    BY <1>8, <2>1 DEF Span
  <2>3. packets[j].first + packets[j].left \in Int /\ packets[j].first + packets[j].left <= f
    BY <1>8, <1>11
  <2> QED BY <1>3, <2>2, <2>3
<1>14. QueueInv'
  <2>1. ASSUME NEW j \in DOMAIN packets'
        PROVE  packets'[j].first >= 1 /\ packets'[j].first + packets'[j].left - 1 <= Arrived'
    <3>1. CASE j \in 1..L
      <4>1. packets[j].first >= 1 /\ packets[j].first + packets[j].left - 1 <= Arrived
            /\ packets[j].first \in Nat /\ packets[j].left \in Nat
        BY <1>8, <1>10, <3>1
      <4>2. Arrived \in Nat
        BY WireIs
      <4> QED BY <1>3, <1>7, <1>8, <3>1, <4>1, <4>2
    <3>2. CASE j = L + 1
      BY <1>3, <1>7, <1>8, <1>9, <3>2
    <3> QED BY <1>8, <3>1, <3>2
  <2>2. ASSUME NEW i \in DOMAIN packets', NEW j \in DOMAIN packets', i < j
        PROVE  packets'[i].first + packets'[i].left <= packets'[j].first
    <3>1. i \in 1..L /\ (j \in 1..L \/ j = L + 1)
      BY <1>8, <2>2
    <3> QED BY <1>8, <1>9, <1>10, <1>11, <2>2, <3>1
  <2>3. IsFiniteSet(f .. (f + n - 1)) /\ Cardinality(f .. (f + n - 1)) = n
    <3>1. f \in Int /\ f + n - 1 \in Int /\ ~(f > f + n - 1) /\ (f + n - 1) - f + 1 = n
      BY <1>3
    <3> QED BY <3>1, FS_Interval
  <2>4. IsFiniteSet(Queue') /\ Cardinality(Queue') = Cardinality(Queue) + n
    <3> DEFINE new == f .. (f + n - 1)
    <3>1. IsFiniteSet(new) /\ Cardinality(new) = n /\ Queue \cap new = {} /\ Queue' = Queue \cup new
      BY <1>12, <1>13, <2>3
    <3> HIDE DEF new
    <3>2. /\ IsFiniteSet(Queue \cup new)
          /\ Cardinality(Queue \cup new) = Cardinality(Queue) + Cardinality(new) - Cardinality(Queue \cap new)
      BY <1>10, <3>1, FS_Union
    <3>3. Cardinality(Queue) \in Nat /\ Cardinality({}) = 0
      BY <1>10, FS_CardinalityType, FS_EmptySet
    <3> QED BY <1>3, <3>1, <3>2, <3>3
  <2>5. Cardinality(Queue) \in Nat /\ nread \in Nat
    BY <1>10, FS_CardinalityType, Numbers DEF IInv
  <2>6. Cardinality(Queue') + nread' = read_avail'
    BY <1>1, <1>3, <1>6, <1>10, <2>4, <2>5
  <2> QED BY <2>1, <2>2, <2>4, <2>6 DEF QueueInv
<1>15. ASSUME NEW t \in Stream, NEW b \in Nat
       PROVE  InQueue(t, b)' \/ OnWire(t, b)' <=> InQueue(t, b) \/ OnWire(t, b)
  <2> DEFINE Carried(x) == b \in x.first .. (x.first + x.len - 1)
  <2>1. /\ OnWire(t, b) <=> \E i \in DOMAIN wire :
                              IsData(wire, i) /\ wire[i].stream = t /\ Carried(wire[i])
        /\ OnWire(t, b)' <=> \E i \in DOMAIN wire' :
                              IsData(wire', i) /\ wire'[i].stream = t /\ Carried(wire'[i])
        /\ InQueue(t, b) <=> \E j \in 1..L : packets[j].stream = t /\ b \in Span(packets[j])
        /\ InQueue(t, b)' <=> \E j \in 1..(L + 1) : packets'[j].stream = t /\ b \in Span(packets'[j])
    BY <1>8 DEF OnWire, InQueue, Span, IsData
  <2>2. Carried(m) <=> b \in Span(p)
    BY <1>9 DEF Span, f, n
  <2> HIDE DEF Carried
  <2>3. InQueue(t, b)' <=> InQueue(t, b) \/ (m.stream = t /\ Carried(m))
    <3>1. \A j \in 1..(L + 1) : j \in 1..L \/ j = L + 1
      BY <1>8
    <3>2. 1..L \subseteq 1..(L + 1) /\ L + 1 \in 1..(L + 1)
      BY <1>8
    <3> QED BY <1>8, <1>9, <2>1, <2>2, <3>1, <3>2
  <2>4. OnWire(t, b) <=> OnWire(t, b)' \/ (m.stream = t /\ Carried(m))
    <3>1. ASSUME NEW i \in DOMAIN wire' PROVE i + 1 \in DOMAIN wire /\ (IsData(wire', i) <=> IsData(wire, i + 1))
      <4>1. i \in 1..(Len(wire) - 1) /\ i + 1 \in DOMAIN wire
        BY <1>2, Zenon
      <4>2. i \in Nat \ {0}
        BY <4>1, WireIs
      <4> QED BY <1>2, <4>1, <4>2
    <3>2. ASSUME NEW i \in DOMAIN wire, i # 1 PROVE \E j \in DOMAIN wire' : i = j + 1
      <4>1. i \in 1..Len(wire) /\ Len(wire) \in Nat
        BY WireIs
      <4>2. i - 1 \in 1..(Len(wire) - 1) /\ i = (i - 1) + 1
        BY <3>2, <4>1
      <4> QED BY <1>2, <4>2
    <3> QED BY <1>2, <1>3, <2>1, <3>1, <3>2 DEF m
  <2> QED BY <2>3, <2>4
<1>16. DataInv'
  <2>1. ASSUME NEW t \in Stream, NEW b \in Nat
        PROVE  b \in Bytes(out'[t]) <=> b \in Bytes(got'[t]) \/ InQueue(t, b)' \/ OnWire(t, b)'
    <3>1. b \in Bytes(out[t]) <=> b \in Bytes(got[t]) \/ InQueue(t, b) \/ OnWire(t, b)
      BY DEF IInv, DataInv
    <3> QED BY <1>1, <1>15, <3>1
  <2>2. ASSUME NEW t \in Stream, NEW b \in Bytes(got'[t])
        PROVE  b \in 1..Arrived' /\ \A j \in Of(t)' : b < packets'[j].first
    <3>1. b \in 1..Arrived /\ \A j \in Of(t) : b < packets[j].first
      BY <1>1, <2>2 DEF IInv, DataInv
    <3>2. Arrived \in Nat /\ b \in Int /\ b < f /\ b \in 1..Arrived'
      BY <1>3, <1>7, <3>1, WireIs
    <3>3. ASSUME NEW j \in Of(t)' PROVE b < packets'[j].first
      <4>1. j \in DOMAIN packets' /\ packets'[j].stream = t
        BY <1>8, <3>3 DEF Of
      <4>2. CASE j \in 1..L
        <5>1. j \in Of(t)
          BY <1>8, <4>1, <4>2 DEF Of, L
        <5> QED BY <1>8, <3>1, <4>2, <5>1
      <4>3. CASE j = L + 1
        BY <1>8, <1>9, <3>2, <4>3
      <4> QED BY <1>8, <4>1, <4>2, <4>3
    <3> QED BY <3>2, <3>3
  <2>3. \A t \in Stream : /\ Increasing(out'[t]) /\ Increasing(got'[t])
                           /\ \A b \in Bytes(out'[t]) : b \in 1..sent'
    BY <1>1 DEF IInv, DataInv
  <2> QED BY <2>1, <2>2, <2>3 DEF DataInv, Increasing, Bytes
<1>17. EndInv'
  <2>1. ~AllArrived
    BY <1>2, <1>3 DEF AllArrived
  <2>2. ~rclose /\ \A t \in Stream : ~zero[t]
    BY <2>1 DEF IInv, EndInv
  <2> QED BY <1>1, <1>6, <2>2 DEF EndInv
<1>18. SyncInv'
  <2>1. window = peerWindow + (sent - (Arrived + n)) + (read_avail + n)
    BY <1>3, <1>4
  <2> QED BY <1>1, <1>6, <1>7, <2>1 DEF SyncInv
<1>19. TypeOK'
  <2>1. read_avail' \in Counter
    BY <1>3, <1>4, <1>5, <1>6 DEF Counter
  <2> QED BY <1>1, <1>2, <1>6, <1>8, <2>1 DEF IInv, TypeOK
<1>20. CallInv'
  BY <1>1 DEF IInv, CallInv
<1>21. AdjustInv'
  BY <1>1, AdjustStays
<1> QED
  BY <1>2, <1>14, <1>16, <1>17, <1>18, <1>19, <1>20, <1>21 DEF IInv

-------------------------------------------------------------------------------
(* The peer. *)

\* A packet is put on the wire.
LEMMA AppendIs ==
    ASSUME IInv, Calm(use), NEW m \in Wire, wire' = Append(wire, m)
    PROVE  /\ wire' \in Seq(Wire) /\ DOMAIN wire' = 1..(Len(wire) + 1) /\ wire' # <<>>
           /\ \A i \in DOMAIN wire : wire'[i] = wire[i] /\ i \in DOMAIN wire'
           /\ wire'[Len(wire) + 1] = m /\ Len(wire) + 1 \in DOMAIN wire'
           /\ \A i \in DOMAIN wire' : i \in DOMAIN wire \/ i = Len(wire) + 1
           /\ \A i \in DOMAIN wire : IsData(wire', i) <=> IsData(wire, i)
           /\ IsData(wire', Len(wire) + 1) <=> m.type = "data"
<1>1. wire \in Seq(Wire) /\ Len(wire) \in Nat /\ DOMAIN wire = 1..Len(wire)
  BY WireIs
<1>2. /\ wire' \in Seq(Wire) /\ Len(wire') = Len(wire) + 1 /\ wire' # <<>>
      /\ \A i \in 1..Len(wire) : wire'[i] = wire[i]
      /\ wire'[Len(wire) + 1] = m
  BY <1>1, AppendProperties
<1>3. DOMAIN wire' = 1..(Len(wire) + 1)
  BY <1>2
<1>4. /\ \A i \in DOMAIN wire : i \in DOMAIN wire'
      /\ Len(wire) + 1 \in DOMAIN wire'
      /\ \A i \in DOMAIN wire' : i \in DOMAIN wire \/ i = Len(wire) + 1
  BY <1>1, <1>3
<1> QED
  BY <1>1, <1>2, <1>3, <1>4 DEF IsData

LEMMA PeerEndInv ==
    ASSUME IInv, Calm(use), PeerEnd
    PROVE  IInv'
<1> USE DEF callVars, inVars, peerVars, flushVars, adjustVars
<1> DEFINE m == [type |-> IF peer = "open" THEN "eof" ELSE "close",
                 stream |-> Stdout, first |-> 0, len |-> 0]
           L == Len(wire)
<1>1. /\ peer # "closed" /\ peer' = IF peer = "open" THEN "eof" ELSE "closed"
      /\ wire' = Append(wire, m)
      /\ UNCHANGED <<pc, req, nread, zero, read_state, adjustVars, flushVars, window,
                     read_avail, packets, got, reof, rclose, peerWindow, use, sent, out, sockUp>>
  BY DEF PeerEnd
<1>2. m \in Wire /\ m.type # "data" /\ peer' # "open" /\ peer' \in {"open", "eof", "closed"}
  BY <1>1, UseIs DEF IInv, Wire
<1> HIDE DEF m
<1>3. /\ wire' \in Seq(Wire) /\ DOMAIN wire' = 1..(L + 1) /\ wire' # <<>>
      /\ \A i \in DOMAIN wire : wire'[i] = wire[i] /\ i \in DOMAIN wire'
      /\ wire'[L + 1] = m /\ L + 1 \in DOMAIN wire'
      /\ \A i \in DOMAIN wire' : i \in DOMAIN wire \/ i = L + 1
      /\ \A i \in DOMAIN wire : IsData(wire', i) <=> IsData(wire, i)
      /\ ~IsData(wire', L + 1)
  BY <1>1, <1>2, AppendIs
<1>4. L \in Nat /\ DOMAIN wire = 1..L
  BY WireIs
<1> HIDE DEF L
<1>5. \A i : IsData(wire', i) <=> IsData(wire, i)
  BY <1>3 DEF IsData
<1>6. Arrived' = Arrived
  <2>1. wire # <<>> => 1 \in DOMAIN wire
    BY <1>4 DEF L
  <2>2. wire = <<>> => L = 0
    BY DEF L
  <2>3. (wire # <<>> /\ wire[1].type = "data") <=> IsData(wire, 1)
    BY <1>4, <2>1, <2>2 DEF IsData
  <2>4. (wire' # <<>> /\ wire'[1].type = "data") <=> IsData(wire', 1)
    BY <1>3, <1>4 DEF IsData
  <2>5. IsData(wire, 1) => wire'[1] = wire[1]
    BY <1>3 DEF IsData
  <2> QED BY <1>1, <1>5, <2>3, <2>4, <2>5 DEF Arrived
<1>7. WireInv'
  <2>1. ASSUME NEW i \in DOMAIN wire', IsData(wire', i)
        PROVE  /\ wire'[i].first >= 1 /\ wire'[i].len \in 1..PacketSize
               /\ wire'[i].first + wire'[i].len <= sent' + 1
               /\ \A j \in 1..(i - 1) : /\ IsData(wire', j)
                                        /\ wire'[j].first + wire'[j].len <= wire'[i].first
               /\ wire'[i].first + wire'[i].len =
                     IF IsData(wire', i + 1) THEN wire'[i + 1].first ELSE sent' + 1
    <3>1. i \in DOMAIN wire /\ IsData(wire, i) /\ wire'[i] = wire[i]
      BY <1>3, <1>5, <2>1
    <3>2. /\ wire[i].first >= 1 /\ wire[i].len \in 1..PacketSize
          /\ wire[i].first + wire[i].len <= sent + 1
          /\ \A j \in 1..(i - 1) : /\ IsData(wire, j)
                                   /\ wire[j].first + wire[j].len <= wire[i].first
          /\ wire[i].first + wire[i].len = IF IsData(wire, i + 1) THEN wire[i + 1].first ELSE sent + 1
      BY <3>1 DEF IInv, WireInv
    <3>3. \A j : IsData(wire, j) => wire'[j] = wire[j]
      BY <1>3 DEF IsData
    <3> QED BY <1>1, <1>5, <3>1, <3>2, <3>3
  <2> QED BY <1>2, <2>1 DEF WireInv
<1>8. EndInv'
  <2>1. AllArrived => AllArrived'
    BY <1>2, <1>5 DEF AllArrived, IsData
  <2> QED BY <1>1, <2>1 DEF IInv, EndInv, Of
<1>9. DataInv'
  <2>1. ASSUME NEW t \in Stream, NEW b \in Nat PROVE OnWire(t, b)' <=> OnWire(t, b)
    BY <1>3, <1>5 DEF OnWire, IsData
  <2>2. ASSUME NEW t \in Stream, NEW b \in Nat PROVE InQueue(t, b)' <=> InQueue(t, b)
    BY <1>1 DEF InQueue, Span
  <2>3. ASSUME NEW t \in Stream, NEW b \in Nat
        PROVE  b \in Bytes(out'[t]) <=> b \in Bytes(got'[t]) \/ InQueue(t, b)' \/ OnWire(t, b)'
    BY <1>1, <2>1, <2>2 DEF IInv, DataInv
  <2>4. \A t \in Stream :
           /\ Increasing(out'[t]) /\ Increasing(got'[t])
           /\ \A b \in Bytes(out'[t]) : b \in 1..sent'
           /\ \A b \in Bytes(got'[t]) : b \in 1..Arrived' /\ \A i \in Of(t)' : b < packets'[i].first
    BY <1>1, <1>6 DEF IInv, DataInv, Of
  <2> QED BY <2>3, <2>4 DEF DataInv, Increasing, Bytes
<1>10. TypeOK'
  BY <1>1, <1>2, <1>3 DEF IInv, TypeOK
<1>11. CallInv'
  BY <1>1 DEF IInv, CallInv
<1>12. AdjustInv'
  BY <1>1, AdjustStays
<1>13. SyncInv' /\ QueueInv'
  BY <1>1, <1>6 DEF IInv, SyncInv, QueueInv, Queue, Span
<1> QED
  BY <1>7, <1>8, <1>9, <1>10, <1>11, <1>12, <1>13 DEF IInv

LEMMA PeerSendInv ==
    ASSUME IInv, Calm(use), NEW s \in Stream, NEW n \in use.least..PacketSize, PeerSend(s, n)
    PROVE  IInv'
<1> USE DEF callVars, inVars, peerVars, flushVars, adjustVars
<1> DEFINE m == [type |-> "data", stream |-> s, first |-> sent + 1, len |-> n]
           L == Len(wire)
           New == (sent + 1) .. (sent + n)
<1>1. /\ peer = "open" /\ n <= peerWindow /\ sent + n <= use.total
      /\ wire' = Append(wire, m) /\ sent' = sent + n
      /\ out' = [out EXCEPT ![s] = @ \o [j \in 1..n |-> sent + j]]
      /\ peerWindow' = peerWindow - n
      /\ UNCHANGED <<pc, req, nread, zero, read_state, adjustVars, flushVars, window,
                     read_avail, packets, got, reof, rclose, peer, use, sockUp>>
  BY DEF PeerSend
<1>2. /\ n \in Nat \ {0} /\ n \in 1..PacketSize /\ sent \in Nat /\ peerWindow \in Nat
      /\ Arrived \in Nat /\ Arrived <= sent /\ use.total \in Nat
  <2>1. use.least \in 1..PacketSize /\ PacketSize \in Nat /\ use.total \in Nat
    BY UseIs DEF IInv
  <2>2. sent \in Nat /\ peerWindow \in Nat /\ Arrived \in Nat /\ Arrived <= sent
    BY Numbers, WireIs DEF IInv
  <2> QED BY <2>1, <2>2
<1>3. m \in Wire /\ m.type = "data" /\ m.stream = s /\ m.first = sent + 1 /\ m.len = n
  BY <1>2 DEF Wire
<1> HIDE DEF m
<1>4. /\ wire' \in Seq(Wire) /\ DOMAIN wire' = 1..(L + 1) /\ wire' # <<>>
      /\ \A i \in DOMAIN wire : wire'[i] = wire[i] /\ i \in DOMAIN wire'
      /\ wire'[L + 1] = m /\ L + 1 \in DOMAIN wire'
      /\ \A i \in DOMAIN wire' : i \in DOMAIN wire \/ i = L + 1
      /\ \A i \in DOMAIN wire : IsData(wire', i) <=> IsData(wire, i)
      /\ IsData(wire', L + 1)
  BY <1>1, <1>3, AppendIs
<1>5. L \in Nat /\ DOMAIN wire = 1..L /\ (wire = <<>> => L = 0) /\ (wire # <<>> => L > 0)
  BY WireIs
<1> HIDE DEF L
<1>6. /\ \A i \in 1..L : IsData(wire, i)
      /\ \A i \in 1..(L + 1) : IsData(wire', i)
  <2>1. \A i \in 1..L : IsData(wire, i)
    BY <1>1, <1>5 DEF IInv, WireInv
  <2>2. \A i \in 1..(L + 1) : i \in 1..L \/ i = L + 1
    BY <1>5
  <2> QED BY <1>4, <1>5, <2>1, <2>2
<1>7. Arrived' = Arrived
  <2>1. wire'[1].type = "data" /\ Arrived' = wire'[1].first - 1
    <3>1. 1 \in 1..(L + 1)
      BY <1>5
    <3>2. wire' # <<>> /\ wire'[1].type = "data"
      BY <1>4, <1>6, <3>1 DEF IsData
    <3> QED BY <3>2 DEF Arrived
  <2>2. CASE wire = <<>>
    <3>1. wire'[1] = m /\ Arrived = sent
      BY <1>4, <1>5, <2>2 DEF Arrived
    <3> QED BY <1>2, <1>3, <2>1, <3>1
  <2>3. CASE wire # <<>>
    <3>1. 1 \in 1..L
      BY <1>5, <2>3
    <3>2. wire[1].type = "data" /\ wire'[1] = wire[1]
      BY <1>4, <1>5, <1>6, <3>1 DEF IsData
    <3> QED BY <2>1, <2>3, <3>2 DEF Arrived
  <2> QED BY <2>2, <2>3
<1>8. ASSUME NEW i \in 1..L
      PROVE  /\ wire[i].first >= 1 /\ wire[i].len \in 1..PacketSize
             /\ wire[i].first + wire[i].len <= sent + 1
             /\ \A j \in 1..(i - 1) : wire[j].first + wire[j].len <= wire[i].first
             /\ wire[i].first + wire[i].len = IF i + 1 \in 1..L THEN wire[i + 1].first ELSE sent + 1
             /\ wire[i].first \in Nat /\ wire[i].len \in Nat
  <2>1. i \in DOMAIN wire /\ IsData(wire, i)
    BY <1>5, <1>6
  <2>2. /\ wire[i].first >= 1 /\ wire[i].len \in 1..PacketSize
        /\ wire[i].first + wire[i].len <= sent + 1
        /\ \A j \in 1..(i - 1) : wire[j].first + wire[j].len <= wire[i].first
        /\ wire[i].first + wire[i].len = IF IsData(wire, i + 1) THEN wire[i + 1].first ELSE sent + 1
    BY <2>1 DEF IInv, WireInv
  <2>3. IsData(wire, i + 1) <=> i + 1 \in 1..L
    BY <1>5, <1>6 DEF IsData
  <2> QED BY <2>1, <2>2, <2>3, WireIs
<1>9. WireInv'
  <2>1. ASSUME NEW i \in DOMAIN wire', IsData(wire', i)
        PROVE  /\ wire'[i].first >= 1 /\ wire'[i].len \in 1..PacketSize
               /\ wire'[i].first + wire'[i].len <= sent' + 1
               /\ \A j \in 1..(i - 1) : /\ IsData(wire', j)
                                        /\ wire'[j].first + wire'[j].len <= wire'[i].first
               /\ wire'[i].first + wire'[i].len =
                     IF IsData(wire', i + 1) THEN wire'[i + 1].first ELSE sent' + 1
    <3>1. CASE i \in 1..L
      <4>1. wire'[i] = wire[i] /\ IsData(wire', i + 1) /\ i \in Nat
        BY <1>4, <1>5, <1>6, <3>1
      <4>2. wire'[i].first >= 1 /\ wire'[i].len \in 1..PacketSize /\ wire'[i].first + wire'[i].len <= sent' + 1
        BY <1>1, <1>2, <1>8, <3>1, <4>1
      <4>3. ASSUME NEW j \in 1..(i - 1)
            PROVE  IsData(wire', j) /\ wire'[j].first + wire'[j].len <= wire'[i].first
        <5>1. j \in 1..L
          BY <1>5, <3>1
        <5> QED BY <1>4, <1>5, <1>6, <1>8, <3>1, <4>1, <5>1
      <4>4. wire'[i].first + wire'[i].len = wire'[i + 1].first
        <5>1. CASE i + 1 \in 1..L
          BY <1>4, <1>5, <1>8, <3>1, <4>1, <5>1
        <5>2. CASE i + 1 \notin 1..L
          <6>1. i + 1 = L + 1
            BY <1>5, <3>1, <5>2
          <6> QED BY <1>3, <1>4, <1>8, <3>1, <4>1, <5>2, <6>1
        <5> QED BY <5>1, <5>2
      <4> QED BY <4>1, <4>2, <4>3, <4>4
    <3>2. CASE i = L + 1
      <4>1. wire'[i].first = sent + 1 /\ wire'[i].len = n
        BY <1>3, <1>4, <3>2
      <4>2. ~IsData(wire', i + 1)
        BY <1>4, <1>5, <3>2 DEF IsData
      <4>3. ASSUME NEW j \in 1..(i - 1)
            PROVE  IsData(wire', j) /\ wire'[j].first + wire'[j].len <= wire'[i].first
        <5>1. j \in 1..L /\ IsData(wire', j)
          BY <1>5, <1>6, <3>2
        <5> QED BY <1>4, <1>5, <1>8, <4>1, <5>1
      <4>4. sent' = sent + n /\ (sent + 1) + n = sent' + 1 /\ sent + 1 >= 1
        BY <1>1, <1>2
      <4> QED BY <1>2, <4>1, <4>2, <4>3, <4>4
    <3> QED BY <1>4, <1>5, <3>1, <3>2
  <2> QED BY <1>4, <1>6, <2>1 DEF WireInv
<1>10. /\ out' \in [Stream -> Seq(Nat)] /\ out \in [Stream -> Seq(Nat)]
       /\ Increasing(out'[s]) /\ Bytes(out'[s]) = Bytes(out[s]) \cup New
       /\ \A t \in Stream : t # s => out'[t] = out[t]
  <2> DEFINE g == out[s]
             f == sent + 1
  <2>1. out \in [Stream -> Seq(Nat)] /\ g \in Seq(Nat) /\ f \in Nat
    BY <1>2 DEF IInv, TypeOK
  <2>2. Increasing(g) /\ \A b \in Bytes(g) : b < f
    <3>1. Increasing(g) /\ \A b \in Bytes(g) : b \in 1..sent
      BY DEF IInv, DataInv
    <3> QED BY <1>2, <3>1
  <2>3. /\ out' = [out EXCEPT ![s] = g \o [j \in 1..n |-> f + j - 1]]
        /\ New = f .. (f + n - 1)
    <3>1. \A j \in 1..n : sent + j = f + j - 1
      BY <1>2
    <3>2. [j \in 1..n |-> sent + j] = [j \in 1..n |-> f + j - 1]
      BY <3>1
    <3>3. sent + n = f + n - 1
      BY <1>2
    <3> QED BY <1>1, <3>2, <3>3
  <2> HIDE DEF f, g, New
  <2>4. /\ g \o [j \in 1..n |-> f + j - 1] \in Seq(Nat)
        /\ Increasing(g \o [j \in 1..n |-> f + j - 1])
        /\ Bytes(g \o [j \in 1..n |-> f + j - 1]) = Bytes(g) \cup New
    BY <1>2, <2>1, <2>2, <2>3, RunIs
  <2> QED BY <2>1, <2>3, <2>4 DEF g
<1>11. ASSUME NEW t \in Stream, NEW b \in Nat
       PROVE  OnWire(t, b)' <=> OnWire(t, b) \/ (t = s /\ b \in New)
  <2> DEFINE Carried(x) == b \in x.first .. (x.first + x.len - 1)
  <2>1. /\ OnWire(t, b) <=> \E i \in 1..L : wire[i].stream = t /\ Carried(wire[i])
        /\ OnWire(t, b)' <=> \E i \in 1..(L + 1) : wire'[i].stream = t /\ Carried(wire'[i])
    <3>1. OnWire(t, b)' <=> \E i \in DOMAIN wire' :
                              IsData(wire', i) /\ wire'[i].stream = t /\ Carried(wire'[i])
      BY DEF OnWire, IsData
    <3>2. OnWire(t, b) <=> \E i \in DOMAIN wire :
                              IsData(wire, i) /\ wire[i].stream = t /\ Carried(wire[i])
      BY DEF OnWire
    <3> HIDE DEF Carried
    <3> QED BY <1>4, <1>5, <1>6, <3>1, <3>2
  <2>2. Carried(m) <=> b \in New
    BY <1>2, <1>3
  <2> HIDE DEF Carried, New
  <2>3. /\ \A i \in 1..(L + 1) : i \in 1..L \/ i = L + 1
        /\ 1..L \subseteq 1..(L + 1) /\ L + 1 \in 1..(L + 1)
        /\ \A i \in 1..L : wire'[i] = wire[i]
    BY <1>4, <1>5
  <2> QED BY <1>3, <1>4, <2>1, <2>2, <2>3
<1>12. DataInv'
  <2>1. ASSUME NEW t \in Stream, NEW b \in Nat
        PROVE  b \in Bytes(out'[t]) <=> b \in Bytes(got'[t]) \/ InQueue(t, b)' \/ OnWire(t, b)'
    <3>1. b \in Bytes(out[t]) <=> b \in Bytes(got[t]) \/ InQueue(t, b) \/ OnWire(t, b)
      BY DEF IInv, DataInv
    <3>2. InQueue(t, b)' <=> InQueue(t, b)
      BY <1>1 DEF InQueue, Span
    <3>3. b \in Bytes(out'[t]) <=> b \in Bytes(out[t]) \/ (t = s /\ b \in New)
      BY <1>10
    <3> QED BY <1>1, <1>11, <3>1, <3>2, <3>3
  <2>2. ASSUME NEW t \in Stream, NEW b \in Bytes(out'[t]) PROVE b \in 1..sent'
    <3>1. b \in Bytes(out[t]) => b \in 1..sent
      BY DEF IInv, DataInv
    <3>2. b \in Bytes(out[t]) \/ b \in New
      BY <1>10, <2>2
    <3> QED BY <1>1, <1>2, <3>1, <3>2
  <2>3. \A t \in Stream :
           /\ Increasing(out'[t]) /\ Increasing(got'[t])
           /\ \A b \in Bytes(got'[t]) : b \in 1..Arrived' /\ \A i \in Of(t)' : b < packets'[i].first
    BY <1>1, <1>7, <1>10 DEF IInv, DataInv, Of
  <2> QED BY <2>1, <2>2, <2>3 DEF DataInv, Increasing, Bytes
<1>13. EndInv'
  <2>1. ~reof /\ ~rclose /\ \A t \in Stream : ~zero[t]
    BY <1>1 DEF IInv, EndInv, AllArrived
  <2> QED BY <1>1, <2>1 DEF EndInv
<1>14. TypeOK'
  <2>1. sent' \in 0..use'.total /\ peerWindow' \in Nat
    BY <1>1, <1>2
  <2> QED BY <1>1, <1>4, <1>10, <2>1 DEF IInv, TypeOK
<1>15. CallInv'
  BY <1>1 DEF IInv, CallInv
<1>16. AdjustInv'
  BY <1>1, AdjustStays
<1>17. SyncInv'
  <2>1. window = peerWindow + (sent - Arrived) + read_avail /\ read_avail \in Nat
    BY Numbers DEF IInv, SyncInv
  <2>2. window = (peerWindow - n) + ((sent + n) - Arrived) + read_avail
    BY <1>2, <2>1
  <2> QED BY <1>1, <1>7, <2>2 DEF SyncInv
<1>18. QueueInv'
  BY <1>1, <1>7 DEF IInv, QueueInv, Queue, Span
<1> QED
  BY <1>9, <1>12, <1>13, <1>14, <1>15, <1>16, <1>17, <1>18 DEF IInv

-------------------------------------------------------------------------------
(* The invariant. *)

LEMMA InitInv ==
    ASSUME Init, Calm(use)
    PROVE  IInv
<1> USE DEF Init
<1>1. /\ use \in Uses /\ use.total \in Nat /\ InitWindow \in Nat /\ InitWindow < Wrap /\ Wrap \in Nat
      /\ Stdout \in Stream /\ MinAdjust \in Nat
      /\ InitWindow \div 4 \in Nat /\ (InitWindow \div 4) * 3 <= InitWindow
  <2>1. use \in [sizes : SUBSET (Nat \ {0}), total : Nat, least : 1..PacketSize,
                 blocking : BOOLEAN, sendBlocks : BOOLEAN, ops : SUBSET OpKinds]
    BY ReadAssumption
  <2>2. InitWindow \div 4 \in Nat /\ (InitWindow \div 4) * 3 <= InitWindow
    BY ReadAssumption
  <2> QED BY <2>1, <2>2, ReadAssumption
<1>2. TypeOK
  <2>1. 0 \in Counter /\ InitWindow \in Counter /\ 0 \in 0..use.total
    BY <1>1 DEF Counter
  <2>2. /\ req \in [stream : Stream, size : Nat] /\ req.size = 0 /\ nread \in 0..req.size
        /\ packets \in Seq(Queued) /\ wire \in Seq(Wire)
        /\ got \in [Stream -> Seq(Nat)] /\ out \in [Stream -> Seq(Nat)]
        /\ zero \in [Stream -> BOOLEAN] /\ pc \in PC
    BY <1>1 DEF PC
  <2> QED BY <1>1, <2>1, <2>2 DEF TypeOK
<1>3. CallInv
  BY DEF CallInv
<1>4. AdjustInv
  BY <1>1 DEF AdjustInv, Wide
<1>5. Arrived = 0 /\ SyncInv
  BY <1>1 DEF SyncInv, Arrived
<1>6. QueueInv
  <2>1. Queue = {} /\ DOMAIN packets = {}
    BY DEF Queue
  <2>2. IsFiniteSet({}) /\ Cardinality({}) = 0
    BY FS_EmptySet
  <2> QED BY <2>1, <2>2 DEF QueueInv
<1>7. WireInv /\ EndInv
  BY DEF WireInv, EndInv
<1>8. DataInv
  <2>1. \A t \in Stream : Bytes(out[t]) = {} /\ Bytes(got[t]) = {} /\ Increasing(out[t]) /\ Increasing(got[t])
    BY DEF Bytes, Increasing
  <2>2. \A t \in Stream : \A b : ~InQueue(t, b) /\ ~OnWire(t, b)
    BY DEF InQueue, OnWire
  <2> QED BY <2>1, <2>2 DEF DataInv
<1> QED
  BY <1>2, <1>3, <1>4, <1>5, <1>6, <1>7, <1>8 DEF IInv

LEMMA NextInv ==
    ASSUME IInv, Calm(use), [Next]_vars
    PROVE  IInv'
<1>1. CASE ClientStep
  BY <1>1, ClientInv
<1>2. CASE CallStep
  <2>1. ASSUME NEW rc \in Rc, Adjust2(rc) \/ ReadAdjust(rc) \/ ReadExpand(rc) PROVE IInv'
    BY <2>1, Adjust2Inv, ReadAdjustInv, ReadExpandInv
  <2>2. ~FlushPacket /\ ~FlushedAll /\ \A rc \in Rc : ~FlushRefund(rc)
    BY DEF IInv, CallInv, FlushPacket, FlushedAll, FlushRefund
  <2>3. CASE ReadDrained \/ ReadNothing \/ WaitReturn \/ WaitAgain
    BY <2>3, ReturnInv
  <2>4. CASE ReadCopy
    BY <2>4, CopyInv
  <2>5. CASE ReadReturn
    BY <2>5, ReadReturnInv
  <2> QED BY <1>2, <2>1, <2>2, <2>3, <2>4, <2>5 DEF CallStep
<1>3. CASE TransportRead
  BY <1>3, DataArrivesInv, EndArrivesInv
<1>4. CASE PeerStep
  BY <1>4, PeerSendInv, PeerEndInv DEF PeerStep
<1>5. CASE Drop \/ Finished \/ UNCHANGED vars
  BY <1>5, DropInv
<1> QED
  BY <1>1, <1>2, <1>3, <1>4, <1>5 DEF Next

LEMMA UseStays ==
    ASSUME [Next]_vars
    PROVE  use' = use
<1> USE DEF callVars, inVars, peerVars, flushVars, adjustVars
<1>1. CASE ClientStep
  BY <1>1 DEF ClientStep, ReadCall, Adjust2Call, FlushCall, WaitCall
<1>2. CASE CallStep
  BY <1>2 DEF CallStep, Adjust2, ReadAdjust, ReadExpand, FlushRefund, ReadDrained, ReadCopy,
              ReadNothing, ReadReturn, FlushPacket, FlushedAll, WaitReturn, WaitAgain
<1>3. CASE TransportRead \/ PeerStep \/ Drop \/ Finished \/ UNCHANGED vars
  BY <1>3 DEF TransportRead, PeerStep, PeerSend, PeerEnd, Drop, Finished, vars
<1> QED
  BY <1>1, <1>2, <1>3 DEF Next

(***************************************************************************)
(* The invariant holds in every state when the channel is used calmly.     *)
(***************************************************************************)
THEOREM InvariantHolds == Spec => [](Calm(use) => IInv)
<1>1. Init => (Calm(use) => IInv)
  BY InitInv
<1>2. (Calm(use) => IInv) /\ [Next]_vars => (Calm(use) => IInv)'
  <2> SUFFICES ASSUME Calm(use) => IInv, [Next]_vars, Calm(use)' PROVE IInv'
    OBVIOUS
  <2>1. use' = use
    BY UseStays
  <2>2. Calm(use)
    BY <2>1 DEF Calm, Patient, Uniform
  <2> QED BY <2>2, NextInv
<1> QED
  BY <1>1, <1>2, PTL DEF Spec

-------------------------------------------------------------------------------
(* What follows from it. *)

LEMMA InFlightIs ==
    ASSUME IInv, Calm(use)
    PROVE  InFlight = sent - Arrived
<1> DEFINE data == {i \in 1..Len(wire) : wire[i].type = "data"}
<1>1. /\ DOMAIN wire = 1..Len(wire) /\ Len(wire) \in Nat /\ sent \in Nat
      /\ \A i \in DOMAIN wire : wire[i].first \in Nat
      /\ wire # <<>> => 1 \in 1..Len(wire)
  <2>1. wire \in Seq(Wire) /\ Len(wire) \in Nat
    BY WireIs
  <2> QED BY <2>1, WireIs
<1>2. InFlight = IF data = {} THEN 0 ELSE sent + 1 - wire[First(data)].first
  BY DEF InFlight
<1>3. CASE data = {}
  <2>1. Arrived = sent
    BY <1>1, <1>3 DEF Arrived
  <2> QED BY <1>1, <1>2, <1>3, <2>1
<1>4. CASE data # {}
  <2>1. First(data) \in data /\ \A j \in data : First(data) <= j
    <3>1. data \in SUBSET Nat
      BY <1>1
    <3> HIDE DEF data
    <3> QED BY <1>4, <3>1, FirstIs
  <2>2. 1 \in data
    <3>1. PICK i \in data : TRUE
      BY <1>4
    <3>2. i \in DOMAIN wire /\ IsData(wire, i) /\ i \in Nat /\ i >= 1
      BY <1>1, <3>1 DEF IsData
    <3>3. i # 1 => 1 \in 1..(i - 1)
      BY <3>2
    <3>4. \A j \in 1..(i - 1) : IsData(wire, j)
      BY <3>2 DEF IInv, WireInv
    <3> QED BY <1>1, <3>1, <3>3, <3>4 DEF IsData
  <2>3. First(data) = 1
    <3>1. First(data) \in Nat /\ First(data) >= 1 /\ First(data) <= 1
      BY <1>1, <2>1, <2>2
    <3> QED BY <3>1
  <2>4. Arrived = wire[1].first - 1 /\ wire[1].first \in Nat
    BY <1>1, <2>2 DEF Arrived
  <2> QED BY <1>1, <1>2, <1>4, <2>3, <2>4
<1> QED
  BY <1>3, <1>4

(***************************************************************************)
(* An increasing sequence is a prefix of another one if it has the lowest  *)
(* elements of that.                                                       *)
(***************************************************************************)
LEMMA LowestIsPrefix ==
    ASSUME NEW g \in Seq(Nat), NEW o \in Seq(Nat), Increasing(g), Increasing(o),
           Bytes(g) \subseteq Bytes(o),
           \A x \in Bytes(o), y \in Bytes(g) : x < y => x \in Bytes(g)
    PROVE  Len(g) <= Len(o) /\ g = SubSeq(o, 1, Len(g))
<1> DEFINE n == Len(g)
           Bad == {i \in 1..n : i > Len(o) \/ g[i] # o[i]}
<1>1. /\ n \in Nat /\ Len(o) \in Nat /\ DOMAIN g = 1..n /\ DOMAIN o = 1..Len(o)
      /\ \A i \in 1..n : g[i] \in Nat
      /\ \A i \in 1..Len(o) : o[i] \in Nat
  OBVIOUS
<1>0. /\ \A i, j \in 1..n : i < j => g[i] < g[j]
      /\ \A i, j \in 1..Len(o) : i < j => o[i] < o[j]
  BY <1>1 DEF Increasing
<1>2. Bad = {}
  <2> SUFFICES ASSUME Bad # {} PROVE FALSE
    OBVIOUS
  <2>1. PICK i \in Bad : \A j \in Bad : i <= j
    <3>1. Bad \in SUBSET Nat
      BY <1>1
    <3> HIDE DEF Bad
    <3> QED BY <3>1, FirstIs
  <2>2. \A j \in 1..n : j < i => j <= Len(o) /\ g[j] = o[j]
    BY <1>1, <2>1
  <2>3. i \in 1..n /\ (i > Len(o) \/ g[i] # o[i])
    BY <2>1
  <2>4. PICK m \in 1..Len(o) : g[i] = o[m]
    BY <1>1, <2>3 DEF Bytes
  <2>5. m >= i
    <3>1. SUFFICES ASSUME m < i PROVE FALSE
      BY <1>1, <2>3
    <3>2. m \in 1..n
      BY <1>1, <2>3, <3>1
    <3>3. g[m] = o[m] /\ g[m] < g[i]
      BY <1>0, <2>2, <2>3, <3>1, <3>2
    <3> QED BY <1>1, <2>3, <2>4, <3>2, <3>3
  <2>6. i \in 1..Len(o) /\ o[i] <= g[i]
    <3>1. i \in 1..Len(o)
      BY <1>1, <2>3, <2>5
    <3>2. i = m \/ o[i] < o[m]
      BY <1>0, <1>1, <2>3, <2>5, <3>1
    <3> QED BY <1>1, <2>4, <3>1, <3>2
  <2>7. o[i] < g[i]
    BY <1>1, <2>3, <2>6
  <2>8. PICK l \in 1..n : o[i] = g[l]
    BY <1>1, <2>3, <2>6, <2>7 DEF Bytes
  <2>9. l < i
    <3>1. SUFFICES ASSUME l >= i PROVE FALSE
      BY <1>1, <2>3
    <3>2. g[i] <= g[l]
      <4>1. i = l \/ g[i] < g[l]
        BY <1>0, <1>1, <2>3, <3>1
      <4> QED BY <1>1, <2>3, <4>1
    <3> QED BY <1>1, <2>3, <2>7, <2>8, <3>2
  <2>10. g[l] = o[l] /\ l \in 1..Len(o) /\ o[l] < o[i]
    <3>1. g[l] = o[l] /\ l \in 1..Len(o)
      BY <1>1, <2>2, <2>9
    <3> QED BY <1>0, <2>6, <2>9, <3>1
  <2> QED BY <1>1, <2>6, <2>8, <2>10
<1>3. \A i \in 1..n : i <= Len(o) /\ g[i] = o[i]
  BY <1>1, <1>2
<1>4. n <= Len(o)
  BY <1>1, <1>3
<1>5. /\ SubSeq(o, 1, n) \in Seq(Nat) /\ Len(SubSeq(o, 1, n)) = n
      /\ \A i \in 1..n : SubSeq(o, 1, n)[i] = g[i]
  <2>1. \A i \in 1..n : o[i] \in Nat
    BY <1>1, <1>3
  <2>2. /\ SubSeq(o, 1, n) \in Seq(Nat) /\ Len(SubSeq(o, 1, n)) = (IF 1 <= n THEN n - 1 + 1 ELSE 0)
        /\ \A i \in 1..(n - 1 + 1) : SubSeq(o, 1, n)[i] = o[1 + i - 1]
    <3>1. n \in Int /\ 1 \in Int
      BY <1>1
    <3> HIDE DEF n
    <3> QED BY <2>1, <3>1, SubSeqProperties
  <2> HIDE DEF n
  <2>3. n - 1 + 1 = n /\ \A i \in 1..n : 1 + i - 1 = i
    BY <1>1
  <2> QED BY <1>1, <1>3, <2>2, <2>3
<1>6. g = SubSeq(o, 1, n)
  BY <1>1, <1>5, SeqEqual
<1> QED
  BY <1>4, <1>6

\* What the client has read of a stream is a prefix of what was sent on it,
\* and all of it when nothing is left on the way.
LEMMA PrefixIs ==
    ASSUME IInv, Calm(use), NEW s \in Stream
    PROVE  /\ Len(got[s]) <= Len(out[s]) /\ got[s] = SubSeq(out[s], 1, Len(got[s]))
           /\ AllArrived /\ Of(s) = {} => got[s] = out[s]
<1> DEFINE g == got[s]
           o == out[s]
<1>1. g \in Seq(Nat) /\ o \in Seq(Nat)
  BY DEF IInv, TypeOK
<1>2. /\ Increasing(o) /\ Increasing(g)
      /\ \A b \in Bytes(o) : b \in 1..sent
      /\ \A b \in Nat : b \in Bytes(o) <=> b \in Bytes(g) \/ InQueue(s, b) \/ OnWire(s, b)
      /\ \A b \in Bytes(g) : b \in 1..Arrived /\ \A i \in Of(s) : b < packets[i].first
  BY DEF IInv, DataInv
<1>3. Arrived \in Nat /\ sent \in Nat
  BY WireIs
<1>4. Bytes(g) \subseteq Nat /\ Bytes(o) \subseteq Nat /\ Bytes(g) \subseteq Bytes(o)
  <2>1. Bytes(g) \subseteq Nat /\ Bytes(o) \subseteq Nat
    BY <1>2, <1>3
  <2> QED BY <1>2, <2>1
<1>5. ASSUME NEW x \in Bytes(o), NEW y \in Bytes(g), x < y
      PROVE  x \in Bytes(g)
  <2>1. ~InQueue(s, x)
    <3> SUFFICES ASSUME NEW i \in DOMAIN packets, packets[i].stream = s, x \in Span(packets[i])
                 PROVE  FALSE
      BY DEF InQueue
    <3>1. packets \in Seq(Queued) /\ packets[i] \in Queued
      BY DEF IInv, TypeOK
    <3>2. i \in Of(s) /\ packets[i].first \in Nat /\ x >= packets[i].first
      BY <3>1 DEF Of, Queued, Span
    <3> QED BY <1>2, <1>4, <1>5, <3>2
  <2>2. ~OnWire(s, x)
    <3> SUFFICES ASSUME NEW i \in DOMAIN wire, IsData(wire, i),
                        x \in wire[i].first .. (wire[i].first + wire[i].len - 1)
                 PROVE  FALSE
      BY DEF OnWire
    <3>1. /\ wire[i].first \in Nat /\ i \in 1..Len(wire) /\ DOMAIN wire = 1..Len(wire) /\ Len(wire) \in Nat
      BY WireIs
    <3>2. wire[i].first > Arrived
      <4>1. CASE i = 1
        <5>1. Arrived = wire[i].first - 1
          BY <3>1, <4>1 DEF Arrived, IsData
        <5> QED BY <3>1, <5>1
      <4>2. CASE i # 1
        <5>1. 1 \in 1..(i - 1) /\ 1 \in DOMAIN wire
          BY <3>1, <4>2
        <5>2. IsData(wire, 1) /\ wire[1].first + wire[1].len <= wire[i].first
          BY <5>1 DEF IInv, WireInv
        <5>3. Arrived = wire[1].first - 1 /\ wire[1].first \in Nat /\ wire[1].len \in Nat
          BY <3>1, <5>1, <5>2, WireIs DEF Arrived, IsData
        <5> QED BY <3>1, <5>2, <5>3
      <4> QED BY <4>1, <4>2
    <3>3. x >= wire[i].first /\ x < y /\ y <= Arrived /\ x \in Nat /\ y \in Nat
      BY <1>2, <1>4, <1>5, <3>1
    <3> QED BY <1>3, <3>1, <3>2, <3>3
  <2> QED BY <1>2, <1>4, <2>1, <2>2
<1>6. Len(g) <= Len(o) /\ g = SubSeq(o, 1, Len(g))
  <2> HIDE DEF g, o
  <2> QED BY <1>1, <1>2, <1>4, <1>5, LowestIsPrefix
<1>7. ASSUME AllArrived, Of(s) = {} PROVE g = o
  <2>1. \A b : ~InQueue(s, b)
    <3>1. DOMAIN packets = 1..Len(packets)
      BY DEF IInv, TypeOK
    <3> QED BY <1>7, <3>1 DEF InQueue, Of
  <2>2. \A b : ~OnWire(s, b)
    BY <1>7 DEF OnWire, AllArrived
  <2>3. Bytes(o) = Bytes(g)
    BY <1>2, <1>4, <2>1, <2>2
  <2> HIDE DEF g, o
  <2>4. Len(o) <= Len(g)
    BY <1>1, <1>2, <2>3, LowestIsPrefix
  <2>5. Len(g) = Len(o)
    BY <1>1, <1>6, <2>4
  <2> QED BY <1>1, <1>6, <2>5, SubSeqFull
<1> QED
  BY <1>6, <1>7

(***************************************************************************)
(* The window that the channel keeps is what the peer may still send plus  *)
(* what it has sent and the client has not read: whatever is read and      *)
(* arrives in between, libssh2 never grants more or less than it books.    *)
(***************************************************************************)
THEOREM WindowsAgree == Spec => [](Calm(use) => WindowInSync)
<1>1. (Calm(use) => IInv) => (Calm(use) => WindowInSync)
  <2> SUFFICES ASSUME IInv, Calm(use) PROVE WindowInSync
    OBVIOUS
  <2>1. window = peerWindow + InFlight + read_avail
    BY InFlightIs DEF IInv, SyncInv
  <2> QED BY <2>1 DEF WindowInSync
<1> QED
  BY <1>1, InvariantHolds, PTL

(***************************************************************************)
(* What read returns is what the peer sent, in order and without a gap; 0  *)
(* and Channel.eof are seen only by a client that has everything.          *)
(***************************************************************************)
THEOREM ReadsAreRight == Spec => [](Calm(use) => ReadsRight)
<1>1. (Calm(use) => IInv) => (Calm(use) => ReadsRight)
  <2> SUFFICES ASSUME IInv, Calm(use) PROVE ReadsRight
    OBVIOUS
  <2>1. DataIntact
    BY PrefixIs DEF DataIntact
  <2>2. ZeroMeansComplete
    BY PrefixIs DEF ZeroMeansComplete, IInv, EndInv, AllArrived
  <2>3. EofMeansRead
    <3>1. packets = <<>> => \A s \in Stream : Of(s) = {}
      BY DEF Of
    <3> QED BY <3>1, PrefixIs DEF EofMeansRead, ChannelEof, IInv, EndInv, AllArrived
  <2> QED BY <2>1, <2>2, <2>3 DEF ReadsRight, IInv
<1> QED
  BY <1>1, InvariantHolds, PTL
===============================================================================
