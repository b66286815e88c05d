---------------------------- MODULE SftpFileProofs -----------------------------
(***************************************************************************)
(* Proofs about SftpFile: what a client reads is the file, in order and to *)
(* the end; what write has reported is in the file; and tell64 agrees with *)
(* what was reported.  For any number of handles, any sizes of files,      *)
(* buffers and requests, any order of the answers, short answers, errors,  *)
(* seeks and interruptions, as long as no handle is both read from and     *)
(* written to.                                                             *)
(***************************************************************************)
EXTENDS SftpFile, SequenceTheorems, TLAPS

Reader(u, h) == "read" \in u.ops[h]

\* Every handle is for reading or for writing; see SftpFile_rw.cfg.
Pure(u) == \A h \in Handles : ~(Reader(u, h) /\ "write" \in u.ops[h])

\* No READ request fails or is answered short.
Sure(u) == ~u.fault /\ ~u.short

-------------------------------------------------------------------------------
(* The inductive invariant. *)

Pcs == {"out", "rprepare", "rsend", "collect", "rdone", "wpack", "wsend", "ack",
        "csend", "cwait"}
\* After a seek that owes acknowledged bytes, offsets may be negative.
Rq == [id : Nat, kind : {"read", "write", "close"}, h : Handles,
       off : Int, len : Nat, val : Int]
Piece == [rq : Rq, sent : 0..PktLen]
File == [offset : Int, offset_sent : Int, data : Seq(Int), eof : BOOLEAN,
         acked : Nat, list : Seq(Piece), close : {"idle", "created", "sent", "closed"},
         close_id : Nat]
Unit == [rq : Rq, k : Int]
Packet == [rq : Rq, from : 0..PktLen, n : 1..PktLen]
Reply == [id : Nat, type : {"data", "eof", "ok", "error"}, off : Int, n : Nat]
Call == [pc : Pcs, h : Handles, size : Nat, i : Nat \ {0}, count : Nat, val : Int,
         acked : Nat, got : Seq(Int)]

ChanType ==
    /\ slot = NoSlot \/ slot \in Packet
    /\ tail \in Seq(Unit)
    /\ todo \subseteq Rq

TypeInv ==
    /\ use \in Uses
    /\ call \in Call
    /\ fd \in [Handles -> File]
    /\ pos \in [Handles -> Int]
    /\ ended \in [Handles -> BOOLEAN]
    /\ told \in [Handles -> SUBSET Int]
    /\ request_id \in Nat
    /\ packets \subseteq Reply
    /\ ChanType
    /\ disk \in [Handles -> SUBSET (Int \X Int)]

\* Where the next byte from the server belongs.
Front(f) == f.offset + Len(f.data)

(***************************************************************************)
(* The requests of the list follow each other, from the bytes that were    *)
(* handed out to offset_sent.                                              *)
(***************************************************************************)
Exact(f) ==
    /\ f.list = <<>> => f.offset_sent = Front(f)
    /\ f.list # <<>> => f.list[1].rq.off = Front(f)
    /\ \A k \in DOMAIN f.list :
          /\ f.list[k].rq.off + f.list[k].rq.len <= f.offset_sent
          /\ k = Len(f.list) => f.list[k].rq.off + f.list[k].rq.len = f.offset_sent
          /\ k < Len(f.list) => f.list[k].rq.off + f.list[k].rq.len = f.list[k + 1].rq.off
    /\ \A j, k \in DOMAIN f.list :
          j < k => f.list[j].rq.off + f.list[j].rq.len <= f.list[k].rq.off

(***************************************************************************)
(* Something is missing in front of the first request: no data will be     *)
(* taken from here on, until a seek.                                       *)
(***************************************************************************)
Jammed(f) ==
    /\ f.offset_sent > Front(f)
    /\ f.list # <<>> => f.list[1].rq.off > Front(f)

\* All that is asked for is behind the end of the file.
Beyond(f) ==
    /\ Front(f) >= FileLen /\ f.offset_sent >= FileLen
    /\ \A k \in DOMAIN f.list : f.list[k].rq.off >= FileLen

\* The call c under way, on the file f, of a client that stands at p.
CallOk(u, c, f, p, m) ==
    /\ c.pc \in {"rprepare", "rsend", "collect", "rdone"} =>
          Reader(u, c.h) /\ f.close = "idle"
    /\ c.pc \in {"wpack", "wsend", "ack"} => ~Reader(u, c.h) /\ f.close = "idle"
    /\ c.pc = "csend" => f.close = "created"
    /\ c.pc = "cwait" => f.close = "sent"
    /\ c.pc \notin {"collect", "rdone"} => c.got = <<>>
    /\ c.pc # "ack" => c.acked = 0
    /\ c.pc \in {"rprepare", "rsend", "collect"} => Len(c.got) < c.size
    /\ c.pc = "rprepare" => f.data = <<>>
    /\ c.pc = "collect" /\ c.got # <<>> => f.data = <<>>
    /\ c.pc \in {"rsend", "collect"} /\ "leftover" \notin m => f.data = <<>>
    /\ c.pc = "wpack" /\ "owing" \notin m => c.val = f.offset_sent
    /\ \A k \in DOMAIN c.got : c.got[k] = p + (k - 1)

\* The requests of a file's list, the list as a whole, and the leftover data.
Own(u, h, f) ==
    \A k \in DOMAIN f.list :
        /\ f.list[k].rq.h = h /\ f.list[k].rq.len >= 1
        /\ f.list[k].rq.kind = IF Reader(u, h) THEN "read" ELSE "write"
FileOk(u, h, f) ==
    /\ Own(u, h, f)
    /\ f.close = "closed" \/ Exact(f) \/ (Reader(u, h) /\ Jammed(f))
    /\ \A k \in DOMAIN f.data : f.data[k] = f.offset + (k - 1)
    /\ IF Reader(u, h) THEN f.acked = 0 ELSE f.data = <<>>

\* What the call under way has taken from the list.
Taking(c, h) == IF c.h = h THEN Len(c.got) ELSE 0
Acking(c, h) == IF c.h = h THEN c.acked ELSE 0

(***************************************************************************)
(* Where the client stands.  A read that fails with bytes in its buffer    *)
(* loses them, but nothing more is read then until a seek.                 *)
(***************************************************************************)
PosOk(u, h, f, p, c, m) ==
    IF Reader(u, h)
    THEN p = f.offset - Taking(c, h) \/ (Jammed(f) /\ f.data = <<>>)
    ELSE "owing" \notin m => p = (f.offset - f.acked) - Acking(c, h)

\* If no READ request fails.
SureOk(u, h, f, p, e, c, m) ==
    /\ Sure(u) /\ Reader(u, h) =>
          /\ p = f.offset - Taking(c, h)
          /\ f.close # "closed" => /\ Exact(f) \/ Beyond(f)
                                   /\ f.eof => Front(f) >= FileLen
          /\ e /\ "leftover" \notin m => p >= FileLen
    /\ ~Reader(u, h) => ~e

HandleOk(u, h, f, p, e, c, m) ==
    FileOk(u, h, f) /\ PosOk(u, h, f, p, c, m) /\ SureOk(u, h, f, p, e, c, m)

FilesInv ==
    /\ CallOk(use, call, fd[call.h], pos[call.h], misuse)
    /\ \A h \in Handles : HandleOk(use, h, fd[h], pos[h], ended[h], call, misuse)

\* All the requests there are.
CloseRq(h, id) == [id |-> id, kind |-> "close", h |-> h, off |-> 0, len |-> 0, val |-> 0]
InList(s) == {s[k].rq : k \in DOMAIN s}
Listed(files) == UNION {InList(files[h].list) : h \in Handles}
Closings(files) ==
    {CloseRq(h, files[h].close_id) : h \in {g \in Handles : files[g].close # "idle"}}
Moving(sl, tl, td) == td \union InList(tl) \union (IF sl = NoSlot THEN {} ELSE {sl.rq})
Reqs(files, sl, tl, td) == Listed(files) \union Closings(files) \union Moving(sl, tl, td)

\* a is an answer to r.
Fit(u, a, r) ==
    /\ a.type = "data" =>
          /\ r.kind = "read" /\ a.off = r.off /\ a.n <= r.len /\ r.off < FileLen
          /\ r.len >= 1 => a.n >= 1
          /\ ~u.short => a.n = r.len \/ a.n = FileLen - r.off
    /\ a.type = "eof" => r.kind = "read" /\ r.off >= FileLen
    /\ a.type = "ok" => r.kind # "read"
    /\ a.type = "error" => u.fault

\* A request is known by its id, and an answer is one to the request.
IdOk(u, rqs, pk, id) ==
    /\ \A r \in rqs : r.id < id
    /\ \A r, s \in rqs : r.id = s.id => r = s
    /\ \A a \in pk : a.id < id
    /\ \A a \in pk, r \in rqs : a.id = r.id => Fit(u, a, r)

Stored(d, from, to) == \A p \in Int : from <= p /\ p < to => <<p, p>> \in d

\* What is acknowledged is in the file.
DiskOk(u, rqs, pk, files, dk, ps, tld) ==
    /\ \A r \in rqs : r.kind = "write" => r.val = r.off
    /\ \A a \in pk, r \in rqs :
          a.id = r.id /\ a.type = "ok" /\ r.kind = "write"
          => Stored(dk[r.h], r.off, r.off + r.len)
    /\ \A h \in Handles : ~Reader(u, h) => Stored(dk[h], ps[h], files[h].offset)
    /\ \A h \in Handles : \A p \in tld[h] : <<p, p>> \in dk[h]

AllReqs == Reqs(fd, slot, tail, todo)
IdInv == IdOk(use, AllReqs, packets, request_id)
DiskInv == "owing" \notin misuse => DiskOk(use, AllReqs, packets, fd, disk, pos, told)

IInv == TypeInv /\ FilesInv /\ IdInv /\ DiskInv

-------------------------------------------------------------------------------
(* What the steps do to a file. *)

Grown(f, c) == [f EXCEPT !.list = Append(@, c), !.offset_sent = @ + c.rq.len]
Served(f, n, a) ==
    [f EXCEPT !.offset = @ + n, !.offset_sent = @ - (f.list[1].rq.len - a.n),
              !.data = Run(a.off + n, a.n - n), !.list = Tail(@)]
Given(f, n) == [f EXCEPT !.data = SubSeq(@, n + 1, Len(@)), !.offset = @ + n]
Stopped(f, b) == [f EXCEPT !.list = <<>>, !.eof = @ \/ b]
Confirmed(f) == [f EXCEPT !.offset = @ + f.list[1].rq.len, !.list = Tail(@)]
Refused(f) == [f EXCEPT !.list = <<>>, !.offset = @ - f.acked,
                        !.offset_sent = f.offset - f.acked, !.acked = 0]
Sought(f, p) == [f EXCEPT !.offset = p, !.offset_sent = p, !.list = <<>>, !.data = <<>>,
                          !.eof = FALSE]
Freed(f) == [f EXCEPT !.list = <<>>, !.data = <<>>, !.close = "closed"]

\* g differs from f only in what was sent of it and in the closing.
Alike(f, g) ==
    /\ g.offset = f.offset /\ g.offset_sent = f.offset_sent /\ g.data = f.data
    /\ g.eof = f.eof /\ g.acked = f.acked
    /\ Len(g.list) = Len(f.list) /\ \A k \in DOMAIN f.list : g.list[k].rq = f.list[k].rq
    /\ f.close # "closed" /\ g.close # "closed"

LEMMA ConstTypes ==
    /\ FileLen \in Nat /\ MaxRead \in Nat \ {0} /\ MaxWrite \in Nat \ {0}
    /\ ReadAhead \in Nat \ {0} /\ MaxAhead \in Nat \ {0}
    /\ PktLen \in Nat \ {0} /\ Handles # {}
BY SftpAssumption

LEMMA UseTypes ==
    ASSUME use \in Uses
    PROVE  /\ use.ops \in [Handles -> SUBSET Ops]
           /\ \A n \in use.sizes : n \in Nat \ {0}
           /\ \A n \in use.seeks : n \in Nat
           /\ use.short \in BOOLEAN /\ use.fault \in BOOLEAN /\ use.requests \in Nat
BY SftpAssumption

LEMMA OutType ==
    /\ Out \in Call
    /\ Out.pc = "out" /\ Out.h \in Handles /\ Out.size = 0 /\ Out.i = 1 /\ Out.count = 0
    /\ Out.val = 0 /\ Out.acked = 0 /\ Out.got = <<>>
BY ConstTypes DEF Out, Call, Pcs

LEMMA RunIs ==
    ASSUME NEW from \in Int, NEW n \in Nat
    PROVE  /\ Run(from, n) \in Seq(Int) /\ Len(Run(from, n)) = n
           /\ DOMAIN Run(from, n) = 1..n
           /\ \A k \in 1..n : Run(from, n)[k] = from + (k - 1)
<1>1. Run(from, n) \in [1..n -> Int]
  BY DEF Run
<1> QED
  BY <1>1, IsASeq DEF Run

LEMMA ConcatIs ==
    ASSUME NEW s \in Seq(Int), NEW t \in Seq(Int)
    PROVE  /\ s \o t \in Seq(Int) /\ Len(s \o t) = Len(s) + Len(t)
           /\ DOMAIN (s \o t) = 1..(Len(s) + Len(t))
           /\ \A k \in 1..Len(s) : (s \o t)[k] = s[k]
           /\ \A k \in 1..Len(t) : (s \o t)[Len(s) + k] = t[k]
<1>1. Len(s) \in Nat /\ Len(t) \in Nat
  OBVIOUS
<1>2. /\ s \o t \in Seq(Int) /\ Len(s \o t) = Len(s) + Len(t)
      /\ \A k \in 1..(Len(s) + Len(t)) :
            (s \o t)[k] = IF k <= Len(s) THEN s[k] ELSE t[k - Len(s)]
  BY ConcatProperties
<1>3. DOMAIN (s \o t) = 1..(Len(s) + Len(t))
  BY <1>2
<1>4. ASSUME NEW k \in 1..Len(t) PROVE (s \o t)[Len(s) + k] = t[k]
  <2>1. /\ Len(s) + k \in 1..(Len(s) + Len(t)) /\ ~(Len(s) + k <= Len(s))
        /\ (Len(s) + k) - Len(s) = k
    BY <1>1
  <2> QED
    BY <1>2, <2>1
<1> QED
  BY <1>1, <1>2, <1>3, <1>4

LEMMA NoData ==
    ASSUME NEW f \in File, f.data = <<>>
    PROVE  Front(f) = f.offset /\ Len(f.data) = 0
BY DEF Front, File

LEMMA FileFields ==
    ASSUME NEW f \in File
    PROVE  /\ f.offset \in Int /\ f.offset_sent \in Int /\ f.data \in Seq(Int)
           /\ f.eof \in BOOLEAN /\ f.acked \in Nat /\ f.list \in Seq(Piece)
           /\ f.close \in {"idle", "created", "sent", "closed"} /\ f.close_id \in Nat
           /\ Len(f.list) \in Nat /\ DOMAIN f.list = 1..Len(f.list)
           /\ Len(f.data) \in Nat /\ DOMAIN f.data = 1..Len(f.data)
           /\ f.list = <<>> <=> Len(f.list) = 0
           /\ f.data = <<>> <=> Len(f.data) = 0
           /\ \A k \in 1..Len(f.list) :
                 /\ f.list[k].rq \in Rq /\ f.list[k].sent \in 0..PktLen
                 /\ f.list[k].rq.off \in Int /\ f.list[k].rq.len \in Nat
                 /\ f.list[k].rq.h \in Handles /\ f.list[k].rq.id \in Nat
           /\ Front(f) \in Int
<1>1. /\ f.offset \in Int /\ f.offset_sent \in Int /\ f.data \in Seq(Int)
      /\ f.eof \in BOOLEAN /\ f.acked \in Nat /\ f.list \in Seq(Piece)
      /\ f.close \in {"idle", "created", "sent", "closed"} /\ f.close_id \in Nat
  BY DEF File
<1>2. /\ Len(f.list) \in Nat /\ DOMAIN f.list = 1..Len(f.list)
      /\ Len(f.data) \in Nat /\ DOMAIN f.data = 1..Len(f.data)
      /\ f.list = <<>> <=> Len(f.list) = 0
      /\ f.data = <<>> <=> Len(f.data) = 0
  BY <1>1
<1>3. \A k \in 1..Len(f.list) : f.list[k] \in Piece
  BY <1>1, <1>2
<1>4. \A k \in 1..Len(f.list) : f.list[k].rq \in Rq /\ f.list[k].sent \in 0..PktLen
  BY <1>3 DEF Piece
<1>5. \A k \in 1..Len(f.list) :
        /\ f.list[k].rq.off \in Int /\ f.list[k].rq.len \in Nat
        /\ f.list[k].rq.h \in Handles /\ f.list[k].rq.id \in Nat
  BY <1>4 DEF Rq
<1>6. Front(f) \in Int
  BY <1>1, <1>2 DEF Front
<1> QED
  BY <1>1, <1>2, <1>4, <1>5, <1>6

(***************************************************************************)
(* A list that grows at its end stays exact, jammed or beyond the end.     *)
(***************************************************************************)
LEMMA GrownIs ==
    ASSUME NEW f \in File, NEW c \in Piece
    PROVE  /\ Grown(f, c) \in File
           /\ Grown(f, c).offset = f.offset /\ Grown(f, c).data = f.data
           /\ Grown(f, c).offset_sent = f.offset_sent + c.rq.len
           /\ Grown(f, c).eof = f.eof /\ Grown(f, c).acked = f.acked
           /\ Grown(f, c).close = f.close /\ Grown(f, c).close_id = f.close_id
           /\ Grown(f, c).list = Append(f.list, c)
           /\ Len(Grown(f, c).list) = Len(f.list) + 1
           /\ \A k \in 1..Len(f.list) : Grown(f, c).list[k] = f.list[k]
           /\ Grown(f, c).list[Len(f.list) + 1] = c
<1>1. f.list \in Seq(Piece) /\ c.rq.len \in Nat
  BY DEF File, Piece, Rq
<1>2. /\ Append(f.list, c) \in Seq(Piece) /\ Len(Append(f.list, c)) = Len(f.list) + 1
      /\ \A k \in 1..Len(f.list) : Append(f.list, c)[k] = f.list[k]
      /\ Append(f.list, c)[Len(f.list) + 1] = c
  BY <1>1
<1>3. /\ Grown(f, c).offset = f.offset /\ Grown(f, c).data = f.data
      /\ Grown(f, c).offset_sent = f.offset_sent + c.rq.len
      /\ Grown(f, c).eof = f.eof /\ Grown(f, c).acked = f.acked
      /\ Grown(f, c).close = f.close /\ Grown(f, c).close_id = f.close_id
      /\ Grown(f, c).list = Append(f.list, c)
  BY DEF Grown, File
<1>4. f.offset_sent + c.rq.len \in Int
  BY <1>1 DEF File
<1>5. Grown(f, c) \in File
  BY <1>2, <1>4 DEF Grown, File
<1> QED
  BY <1>2, <1>3, <1>5

LEMMA GrownKeeps ==
    ASSUME NEW f \in File, NEW c \in Piece, c.rq.off = f.offset_sent, c.rq.len >= 1
    PROVE  /\ Exact(f) => Exact(Grown(f, c))
           /\ Jammed(f) => Jammed(Grown(f, c))
           /\ Beyond(f) => Beyond(Grown(f, c))
<1> DEFINE g == Grown(f, c)
<1>1. /\ g \in File /\ g.offset = f.offset /\ g.data = f.data
      /\ g.offset_sent = f.offset_sent + c.rq.len
      /\ Len(g.list) = Len(f.list) + 1
      /\ \A k \in 1..Len(f.list) : g.list[k] = f.list[k]
      /\ g.list[Len(f.list) + 1] = c
  BY GrownIs
<1>2. c.rq.len \in Nat
  BY DEF Piece, Rq
<1>3. Front(g) = Front(f)
  BY <1>1 DEF Front
<1> HIDE DEF g
<1>4. /\ Len(f.list) \in Nat /\ DOMAIN f.list = 1..Len(f.list) /\ f.offset_sent \in Int
      /\ DOMAIN g.list = 1..(Len(f.list) + 1) /\ g.list # <<>>
      /\ f.list = <<>> <=> Len(f.list) = 0
      /\ \A k \in 1..Len(f.list) : f.list[k].rq.off \in Int /\ f.list[k].rq.len \in Nat
      /\ Front(f) \in Int
  BY <1>1, FileFields
<1>1a. \A x \in Int : x <= f.offset_sent => x <= g.offset_sent
  <2>1. g.offset_sent = f.offset_sent + c.rq.len /\ f.offset_sent \in Int
    BY <1>1, <1>4
  <2> QED
    BY <2>1, <1>2
<1>5. ASSUME Exact(f) PROVE Exact(g)
  <2>1. g.list[1].rq.off = Front(g)
    BY <1>1, <1>3, <1>4, <1>5 DEF Exact
  <2>2. ASSUME NEW k \in 1..(Len(f.list) + 1)
        PROVE  /\ g.list[k].rq.off + g.list[k].rq.len <= g.offset_sent
               /\ k = Len(g.list) => g.list[k].rq.off + g.list[k].rq.len = g.offset_sent
               /\ k < Len(g.list) => g.list[k].rq.off + g.list[k].rq.len = g.list[k + 1].rq.off
    <3>1. CASE k = Len(f.list) + 1
      BY <1>1, <1>2, <1>4, <3>1
    <3>2. CASE k \in 1..Len(f.list) /\ k = Len(f.list)
      <4>1. g.list[k] = f.list[k] /\ g.list[k + 1] = c
        BY <1>1, <1>4, <3>2
      <4>2. f.list[k].rq.off + f.list[k].rq.len = f.offset_sent
        BY <1>4, <1>5, <3>2 DEF Exact
      <4> QED
        BY <1>1, <1>2, <1>4, <3>2, <4>1, <4>2
    <3>3. CASE k \in 1..Len(f.list) /\ k < Len(f.list)
      <4>1. g.list[k] = f.list[k] /\ g.list[k + 1] = f.list[k + 1]
        <5>1. \A j \in 1..Len(f.list) : g.list[j] = f.list[j]
          BY <1>1
        <5>2. Len(f.list) \in Nat
          BY <1>4
        <5>3. k + 1 \in 1..Len(f.list)
          BY <3>3, <5>2
        <5> QED
          BY <3>3, <5>1, <5>3
      <4>2. /\ f.list[k].rq.off + f.list[k].rq.len <= f.offset_sent
            /\ f.list[k].rq.off + f.list[k].rq.len = f.list[k + 1].rq.off
        BY <1>4, <1>5, <3>3 DEF Exact
      <4>3. f.list[k].rq.off \in Int /\ f.list[k].rq.len \in Nat /\ k # Len(g.list)
        BY <1>1, <1>4, <3>3
      <4>4. f.list[k].rq.off + f.list[k].rq.len <= g.offset_sent
        <5> DEFINE v == f.list[k].rq.off + f.list[k].rq.len
        <5>1. v \in Int /\ v <= f.offset_sent
          BY <4>2, <4>3
        <5> HIDE DEF v
        <5>2. v <= g.offset_sent
          BY <5>1, <1>1a
        <5> QED
          BY <5>2 DEF v
      <4> QED
        BY <4>1, <4>2, <4>3, <4>4
    <3> QED
      BY <1>4, <3>1, <3>2, <3>3
  <2>3. ASSUME NEW j \in 1..(Len(f.list) + 1), NEW k \in 1..(Len(f.list) + 1), j < k
        PROVE  g.list[j].rq.off + g.list[j].rq.len <= g.list[k].rq.off
    <3>1. g.list[j] = f.list[j] /\ j \in 1..Len(f.list)
      BY <1>1, <1>4, <2>3
    <3>2. CASE k = Len(f.list) + 1
      BY <1>1, <1>4, <1>5, <3>1, <3>2 DEF Exact
    <3>3. CASE k \in 1..Len(f.list)
      BY <1>1, <1>4, <1>5, <2>3, <3>1, <3>3 DEF Exact
    <3> QED
      BY <1>4, <3>2, <3>3
  <2> QED
    BY <1>4, <2>1, <2>2, <2>3 DEF Exact
<1>6. Jammed(f) => Jammed(g)
  BY <1>1, <1>2, <1>3, <1>4 DEF Jammed
<1>7. ASSUME Beyond(f) PROVE Beyond(g)
  <2>1. ASSUME NEW k \in 1..(Len(f.list) + 1) PROVE g.list[k].rq.off >= FileLen
    <3>1. CASE k = Len(f.list) + 1
      BY <1>1, <1>7, <3>1 DEF Beyond
    <3>2. CASE k \in 1..Len(f.list)
      BY <1>1, <1>4, <1>7, <3>2 DEF Beyond
    <3> QED
      BY <1>4, <3>1, <3>2
  <2> QED
    BY <1>1, <1>2, <1>3, <1>4, <1>7, <2>1, ConstTypes DEF Beyond
<1> QED
  BY <1>5, <1>6, <1>7 DEF g

(***************************************************************************)
(* When the first request is taken from an exact list, with m bytes for    *)
(* it, the rest is exact or, after fewer bytes than were asked for, jammed. *)
(***************************************************************************)
LEMMA TailIs ==
    ASSUME NEW f \in File, f.list # <<>>
    PROVE  /\ Tail(f.list) \in Seq(Piece) /\ Len(Tail(f.list)) = Len(f.list) - 1
           /\ Len(f.list) >= 1
           /\ \A k \in 1..(Len(f.list) - 1) : Tail(f.list)[k] = f.list[k + 1]
           /\ InList(Tail(f.list)) \subseteq InList(f.list)
<1>1. f.list \in Seq(Piece) /\ Len(f.list) \in Nat /\ Len(f.list) >= 1
  BY FileFields
<1>2. /\ Tail(f.list) \in Seq(Piece) /\ Len(Tail(f.list)) = Len(f.list) - 1
      /\ \A k \in 1..(Len(f.list) - 1) : Tail(f.list)[k] = f.list[k + 1]
  BY <1>1
<1>3. InList(Tail(f.list)) \subseteq InList(f.list)
  BY <1>1, <1>2 DEF InList
<1> QED
  BY <1>1, <1>2, <1>3

Nonempty(s) == \A k \in DOMAIN s : s[k].rq.len >= 1

LEMMA Shifted ==
    ASSUME NEW f \in File, NEW g \in File, Exact(f), f.list # <<>>,
           Nonempty(f.list),
           g.list = Tail(f.list), NEW m \in Nat, m <= f.list[1].rq.len,
           Front(g) = f.list[1].rq.off + m,
           g.offset_sent = f.offset_sent - (f.list[1].rq.len - m)
    PROVE  /\ m = f.list[1].rq.len => Exact(g)
           /\ \/ Exact(g)
              \/ Jammed(g) /\ (Front(g) >= FileLen => Beyond(g))
<1> DEFINE n == Len(f.list)
           off(k) == f.list[k].rq.off
           len(k) == f.list[k].rq.len
<1>1. /\ n \in Nat /\ n >= 1 /\ DOMAIN f.list = 1..n
      /\ \A k \in 1..n : off(k) \in Int /\ len(k) \in Nat /\ len(k) >= 1
      /\ f.offset_sent \in Int
  BY FileFields, TailIs DEF Nonempty
<1>2. /\ Len(g.list) = n - 1 /\ DOMAIN g.list = 1..(n - 1)
      /\ \A k \in 1..(n - 1) : g.list[k].rq.off = off(k + 1) /\ g.list[k].rq.len = len(k + 1)
      /\ g.list = <<>> <=> n = 1
  <2>1. Len(g.list) = n - 1
    BY TailIs
  <2>2. DOMAIN g.list = 1..Len(g.list) /\ (g.list = <<>> <=> Len(g.list) = 0)
    BY FileFields
  <2>3. \A k \in 1..(n - 1) : g.list[k] = f.list[k + 1]
    BY TailIs
  <2> QED
    BY <2>1, <2>2, <2>3, <1>1
<1>3. \A k \in 1..n : /\ off(k) + len(k) <= f.offset_sent
                      /\ k = n => off(k) + len(k) = f.offset_sent
                      /\ k < n => off(k) + len(k) = off(k + 1)
  BY <1>1 DEF Exact
<1>4. \A j, k \in 1..n : j < k => off(j) + len(j) <= off(k)
  BY <1>1 DEF Exact
<1>5. /\ off(1) \in Int /\ len(1) \in Nat /\ m <= len(1) /\ Front(g) = off(1) + m
      /\ g.offset_sent = f.offset_sent - (len(1) - m) /\ f.offset_sent \in Int
  BY <1>1
<1> HIDE DEF n, off, len
<1>6. CASE n = 1
  <2>1. g.offset_sent = Front(g) /\ g.list = <<>> /\ DOMAIN g.list = 1..0
    BY <1>1, <1>2, <1>3, <1>5, <1>6
  <2> QED
    BY <2>1 DEF Exact
<1>7. CASE n > 1
  <2>1. /\ g.list # <<>> /\ g.list[1].rq.off = off(2)
        /\ off(2) \in Int /\ off(2) = off(1) + len(1) /\ len(2) \in Nat /\ len(2) >= 1
        /\ off(2) + len(2) <= f.offset_sent
    <3>1. 2 \in 1..n /\ 1 \in 1..n /\ 1 \in 1..(n - 1)
      BY <1>1, <1>7
    <3>2. off(2) \in Int /\ len(2) \in Nat /\ len(2) >= 1
      BY <3>1, <1>1
    <3>3. off(1) + len(1) = off(1 + 1) /\ off(2) + len(2) <= f.offset_sent
      BY <3>1, <1>3, <1>7
    <3>4. g.list # <<>> /\ g.list[1].rq.off = off(1 + 1)
      BY <3>1, <1>2, <1>7
    <3> QED
      BY <3>2, <3>3, <3>4
  <2>2. CASE m = len(1)
    <3>1. g.offset_sent = f.offset_sent /\ Front(g) = off(2)
      BY <2>1, <2>2, <1>5
    <3>2. ASSUME NEW k \in 1..(n - 1)
          PROVE  /\ g.list[k].rq.off + g.list[k].rq.len <= g.offset_sent
                 /\ k = n - 1 => g.list[k].rq.off + g.list[k].rq.len = g.offset_sent
                 /\ k < n - 1 => g.list[k].rq.off + g.list[k].rq.len = g.list[k + 1].rq.off
      <4>1. k + 1 \in 1..n /\ (k < n - 1 => k + 1 \in 1..(n - 1) /\ k + 1 < n)
        BY <1>1
      <4>2. g.list[k].rq.off = off(k + 1) /\ g.list[k].rq.len = len(k + 1)
        BY <1>2
      <4>3. /\ off(k + 1) + len(k + 1) <= f.offset_sent
            /\ k + 1 = n => off(k + 1) + len(k + 1) = f.offset_sent
            /\ k + 1 < n => off(k + 1) + len(k + 1) = off((k + 1) + 1)
        BY <4>1, <1>3
      <4>4. k < n - 1 => g.list[k + 1].rq.off = off((k + 1) + 1)
        BY <4>1, <1>2
      <4>5. k = n - 1 => k + 1 = n
        BY <1>1
      <4> QED
        BY <3>1, <4>1, <4>2, <4>3, <4>4, <4>5
    <3>3. ASSUME NEW j \in 1..(n - 1), NEW k \in 1..(n - 1), j < k
          PROVE  g.list[j].rq.off + g.list[j].rq.len <= g.list[k].rq.off
      <4>1. j + 1 \in 1..n /\ k + 1 \in 1..n /\ j + 1 < k + 1
        BY <1>1, <3>3
      <4> QED
        BY <4>1, <1>2, <1>4
    <3> QED
      BY <2>1, <3>1, <3>2, <3>3, <1>2 DEF Exact
  <2>3. CASE m < len(1)
    <3>1. g.offset_sent > Front(g) /\ off(2) > Front(g)
      <4>3. off(1) \in Int /\ len(1) \in Int
        BY <1>5
      <4>4. off(2) = off(1) + len(1)
        BY <2>1
      <4>5. Front(g) = off(1) + m
        BY <1>5
      <4>1. off(2) > Front(g)
        BY <4>3, <4>4, <4>5, <2>3
      <4>2. off(1) + len(1) < f.offset_sent
        BY <1>5, <2>1
      <4> QED
        BY <1>5, <4>1, <4>2
    <3>2. Jammed(g)
      BY <2>1, <3>1 DEF Jammed
    <3>3. ASSUME Front(g) >= FileLen PROVE Beyond(g)
      <4>1. Front(g) \in Int /\ g.offset_sent \in Int /\ FileLen \in Nat
        BY <1>1, <1>5, ConstTypes
      <4>2. g.offset_sent >= FileLen
        BY <3>1, <3>3, <4>1
      <4>3. ASSUME NEW k \in 1..(n - 1) PROVE g.list[k].rq.off >= FileLen
        <5>1. k + 1 \in 1..n /\ 1 \in 1..n /\ 1 < k + 1
          BY <1>1, <1>7
        <5>2. off(1) + len(1) <= off(k + 1)
          BY <5>1, <1>4
        <5>3. off(k + 1) \in Int
          BY <5>1, <1>1
        <5>4. off(k + 1) >= FileLen
          BY <5>2, <5>3, <1>5, <3>3, <2>3, <4>1
        <5> QED
          BY <5>4, <1>2
      <4> QED
        BY <3>3, <4>2, <4>3, <1>2 DEF Beyond
    <3> QED
      BY <3>2, <3>3, <2>3 DEF len
  <2> QED
    BY <2>2, <2>3, <1>1, <1>5 DEF len
<1> QED
  BY <1>1, <1>6, <1>7

LEMMA EmptyIsSeq == \A S : <<>> \in Seq(S)
BY EmptySeq

LEMMA ServedIs ==
    ASSUME NEW f \in File, f.list # <<>>, NEW a \in Reply, NEW n \in Nat, n <= a.n
    PROVE  LET g == Served(f, n, a)
           IN  /\ g \in File
               /\ g.offset = f.offset + n
               /\ g.offset_sent = f.offset_sent - (f.list[1].rq.len - a.n)
               /\ g.data = Run(a.off + n, a.n - n) /\ Len(g.data) = a.n - n
               /\ g.list = Tail(f.list) /\ g.eof = f.eof /\ g.acked = f.acked
               /\ g.close = f.close /\ g.close_id = f.close_id
<1>1. /\ f.offset \in Int /\ f.offset_sent \in Int /\ f.list[1].rq.len \in Nat
      /\ Tail(f.list) \in Seq(Piece)
  BY FileFields, TailIs
<1>2. a.off \in Int /\ a.n \in Nat /\ a.n - n \in Nat /\ a.off + n \in Int
  BY DEF Reply
<1>3. Run(a.off + n, a.n - n) \in Seq(Int) /\ Len(Run(a.off + n, a.n - n)) = a.n - n
  BY <1>2, RunIs
<1>4. f.offset + n \in Int /\ f.offset_sent - (f.list[1].rq.len - a.n) \in Int
  <2> DEFINE l == f.list[1].rq.len
  <2>1. l \in Nat /\ f.offset_sent \in Int /\ a.n \in Nat
    BY <1>1, <1>2
  <2> HIDE DEF l
  <2>2. f.offset_sent - (l - a.n) \in Int
    BY <2>1
  <2> QED
    BY <1>1, <2>2 DEF l
<1> QED
  BY <1>1, <1>3, <1>4 DEF Served, File

LEMMA GivenIs ==
    ASSUME NEW f \in File, NEW n \in Nat, n <= Len(f.data)
    PROVE  LET g == Given(f, n)
           IN  /\ g \in File
               /\ g.offset = f.offset + n /\ g.offset_sent = f.offset_sent
               /\ g.data = SubSeq(f.data, n + 1, Len(f.data))
               /\ Len(g.data) = Len(f.data) - n
               /\ \A k \in 1..(Len(f.data) - n) : g.data[k] = f.data[k + n]
               /\ g.list = f.list /\ g.eof = f.eof /\ g.acked = f.acked
               /\ g.close = f.close /\ g.close_id = f.close_id
               /\ Front(g) = Front(f)
<1> DEFINE d == SubSeq(f.data, n + 1, Len(f.data))
<1>1. f.offset \in Int /\ f.data \in Seq(Int) /\ Len(f.data) \in Nat
  BY FileFields
<1>2. /\ d \in Seq(Int) /\ Len(d) = Len(f.data) - n
      /\ \A k \in 1..(Len(f.data) - n) : d[k] = f.data[k + n]
  BY <1>1
<1>3. f.offset + n \in Int
  BY <1>1
<1> HIDE DEF d
<1>4. /\ [f EXCEPT !.data = d, !.offset = f.offset + n] \in File
      /\ Given(f, n) = [f EXCEPT !.data = d, !.offset = f.offset + n]
  BY <1>2, <1>3 DEF Given, File, d
<1>5. LET g == Given(f, n)
      IN  /\ g.offset = f.offset + n /\ g.offset_sent = f.offset_sent /\ g.data = d
          /\ g.list = f.list /\ g.eof = f.eof /\ g.acked = f.acked
          /\ g.close = f.close /\ g.close_id = f.close_id
  BY <1>4 DEF File
<1>6. Front(Given(f, n)) = Front(f)
  BY <1>1, <1>2, <1>5 DEF Front
<1> QED
  BY <1>2, <1>4, <1>5, <1>6 DEF d

LEMMA StoppedIs ==
    ASSUME NEW f \in File, NEW b \in BOOLEAN
    PROVE  LET g == Stopped(f, b)
           IN  /\ g \in File
               /\ g.offset = f.offset /\ g.offset_sent = f.offset_sent
               /\ g.data = f.data /\ g.list = <<>> /\ g.eof = (f.eof \/ b)
               /\ g.acked = f.acked /\ g.close = f.close /\ g.close_id = f.close_id
               /\ Front(g) = Front(f)
<1>1. f.eof \in BOOLEAN /\ (f.eof \/ b) \in BOOLEAN
  BY FileFields
<1> QED
  BY <1>1, EmptyIsSeq DEF Stopped, File, Front

LEMMA ConfirmedIs ==
    ASSUME NEW f \in File, f.list # <<>>
    PROVE  LET g == Confirmed(f)
           IN  /\ g \in File
               /\ g.offset = f.offset + f.list[1].rq.len /\ g.offset_sent = f.offset_sent
               /\ g.data = f.data /\ g.list = Tail(f.list) /\ g.eof = f.eof
               /\ g.acked = f.acked /\ g.close = f.close /\ g.close_id = f.close_id
<1>1. f.offset \in Int /\ f.list[1].rq.len \in Nat /\ Tail(f.list) \in Seq(Piece)
  BY FileFields, TailIs
<1>2. f.offset + f.list[1].rq.len \in Int
  BY <1>1
<1> QED
  BY <1>1, <1>2 DEF Confirmed, File

LEMMA RefusedIs ==
    ASSUME NEW f \in File
    PROVE  LET g == Refused(f)
           IN  /\ g \in File
               /\ g.offset = f.offset - f.acked /\ g.offset_sent = g.offset
               /\ g.data = f.data /\ g.list = <<>> /\ g.eof = f.eof
               /\ g.acked = 0 /\ g.close = f.close /\ g.close_id = f.close_id
<1>1. f.offset - f.acked \in Int
  BY FileFields
<1> QED
  BY <1>1, EmptyIsSeq DEF Refused, File

LEMMA SoughtIs ==
    ASSUME NEW f \in File, NEW p \in Int
    PROVE  LET g == Sought(f, p)
           IN  /\ g \in File
               /\ g.offset = p /\ g.offset_sent = p
               /\ g.data = <<>> /\ g.list = <<>> /\ g.eof = FALSE
               /\ g.acked = f.acked /\ g.close = f.close /\ g.close_id = f.close_id
BY EmptyIsSeq DEF Sought, File

LEMMA FreedIs ==
    ASSUME NEW f \in File
    PROVE  LET g == Freed(f)
           IN  /\ g \in File
               /\ g.offset = f.offset /\ g.offset_sent = f.offset_sent
               /\ g.data = <<>> /\ g.list = <<>> /\ g.eof = f.eof
               /\ g.acked = f.acked /\ g.close = "closed" /\ g.close_id = f.close_id
BY EmptyIsSeq DEF Freed, File

LEMMA AlikeKeeps ==
    ASSUME NEW f \in File, NEW g \in File, Alike(f, g)
    PROVE  /\ Front(g) = Front(f)
           /\ Exact(f) => Exact(g)
           /\ Jammed(f) => Jammed(g)
           /\ Beyond(f) => Beyond(g)
           /\ InList(g.list) = InList(f.list)
           /\ \A u, h : Own(u, h, f) => Own(u, h, g)
<1>1. /\ Len(f.list) \in Nat /\ DOMAIN f.list = 1..Len(f.list)
      /\ DOMAIN g.list = DOMAIN f.list /\ Len(g.list) = Len(f.list)
      /\ g.list = <<>> <=> f.list = <<>>
      /\ f.list # <<>> => 1 \in DOMAIN f.list
  BY FileFields DEF Alike
<1>2. /\ g.offset_sent = f.offset_sent /\ Front(g) = Front(f)
      /\ \A k \in DOMAIN f.list : g.list[k].rq = f.list[k].rq
  BY DEF Alike, Front
<1>3. \A k \in DOMAIN f.list : k < Len(f.list) => k + 1 \in DOMAIN f.list
  BY <1>1
<1>4. Exact(f) => Exact(g)
  BY <1>1, <1>2, <1>3 DEF Exact
<1>5. Jammed(f) => Jammed(g)
  BY <1>1, <1>2 DEF Jammed
<1>6. Beyond(f) => Beyond(g)
  BY <1>1, <1>2 DEF Beyond
<1>7. InList(g.list) = InList(f.list)
  BY <1>1, <1>2 DEF InList
<1>8. \A u, h : Own(u, h, f) => Own(u, h, g)
  BY <1>1, <1>2 DEF Own
<1> QED
  BY <1>2, <1>4, <1>5, <1>6, <1>7, <1>8

-------------------------------------------------------------------------------
(* The channel and the packet layer. *)

LEMMA UnitsAre ==
    ASSUME NEW rq \in Rq, NEW from \in Int, NEW n \in Nat
    PROVE  Units(rq, from, n) \in Seq(Unit) /\ InList(Units(rq, from, n)) \subseteq {rq}
<1>1. Units(rq, from, n) \in [1..n -> Unit]
  BY DEF Units, Unit
<1>2. Units(rq, from, n) \in Seq(Unit)
  BY <1>1, IsASeq
<1>3. InList(Units(rq, from, n)) \subseteq {rq}
  BY DEF InList, Units
<1> QED
  BY <1>2, <1>3

LEMMA SentIs ==
    ASSUME ChanType, NEW units \in Seq(Unit), Sent(units)
    PROVE  /\ tail' \in Seq(Unit) /\ todo' \subseteq Rq
           /\ InList(tail') \subseteq InList(tail) \union InList(units)
           /\ todo' \subseteq (todo \union InList(tail)) \union InList(units)
<1> DEFINE all == tail \o units
<1>1. /\ tail \in Seq(Unit) /\ all \in Seq(Unit) /\ Len(all) = Len(tail) + Len(units)
      /\ Len(tail) \in Nat /\ Len(units) \in Nat /\ DOMAIN all = 1..Len(all)
      /\ DOMAIN tail = 1..Len(tail) /\ DOMAIN units = 1..Len(units)
  BY DEF ChanType
<1>2. ASSUME NEW k \in 1..Len(all)
      PROVE  all[k].rq \in InList(tail) \union InList(units) /\ all[k].rq \in Rq
  <2>1. all[k] \in Unit
    BY <1>1
  <2>2. CASE k <= Len(tail)
    <3>1. k \in DOMAIN tail /\ all[k] = tail[k]
      BY <1>1, <2>2
    <3> QED
      BY <2>1, <3>1 DEF InList, Unit
  <2>3. CASE k > Len(tail)
    <3>1. k - Len(tail) \in DOMAIN units /\ all[k] = units[k - Len(tail)]
      BY <1>1, <2>3
    <3> QED
      BY <2>1, <3>1 DEF InList, Unit
  <2> QED
    BY <1>1, <2>2, <2>3
<1>3. PktLen \in Nat /\ PktLen >= 1
  BY ConstTypes
<1> HIDE DEF all
<1>4. CASE Len(all) < PktLen
  <2>1. tail' = all /\ todo' = todo
    BY <1>4 DEF Sent, all
  <2> QED
    BY <1>1, <1>2, <2>1 DEF InList, ChanType
<1>5. CASE ~(Len(all) < PktLen)
  <2>1. tail' = SubSeq(all, PktLen + 1, Len(all))
    BY <1>5 DEF Sent, all
  <2>2. todo' = todo \/ todo' = todo \union {all[1].rq}
    BY <1>5 DEF Sent, all
  <2>3. 1 \in 1..Len(all)
    BY <1>1, <1>3, <1>5
  <2>4. todo' \subseteq Rq /\ todo' \subseteq (todo \union InList(tail)) \union InList(units)
    BY <1>2, <2>2, <2>3 DEF ChanType
  <2>5. /\ tail' \in Seq(Unit) /\ Len(tail') = Len(all) - PktLen
        /\ \A k \in 1..(Len(all) - PktLen) : tail'[k] = all[k + PktLen]
    BY <1>1, <1>3, <1>5, <2>1
  <2>6. InList(tail') \subseteq InList(tail) \union InList(units)
    <3>1. DOMAIN tail' = 1..(Len(all) - PktLen)
      BY <2>5
    <3>2. \A k \in DOMAIN tail' : k + PktLen \in 1..Len(all) /\ tail'[k] = all[k + PktLen]
      BY <1>1, <1>3, <2>5, <3>1
    <3> QED
      BY <1>2, <3>2 DEF InList
  <2> QED
    BY <2>4, <2>5, <2>6
<1> QED
  BY <1>4, <1>5

LEMMA ChannelWriteIs ==
    ASSUME ChanType, NEW rq \in Rq, NEW sent \in 0..PktLen, NEW rc \in 0..PktLen,
           ChannelWrite(rq, sent, rc)
    PROVE  /\ ChanType'
           /\ Moving(slot', tail', todo') \subseteq Moving(slot, tail, todo) \union {rq}
<1>1. PktLen \in Nat /\ sent \in Int /\ rc \in Nat
  BY ConstTypes
<1>2. CASE UNCHANGED <<slot, tail, todo, garbled>>
  BY <1>2 DEF ChanType
<1>3. CASE /\ slot = NoSlot /\ rc = 0
           /\ \E n \in 1..(PktLen - sent) : slot' = [rq |-> rq, from |-> sent, n |-> n]
           /\ UNCHANGED <<tail, todo, garbled>>
  <2>1. PICK n \in 1..(PktLen - sent) : slot' = [rq |-> rq, from |-> sent, n |-> n]
    BY <1>3
  <2>2. n \in 1..PktLen
    BY <1>1
  <2>3. slot' \in Packet /\ slot'.rq = rq
    BY <2>1, <2>2 DEF Packet
  <2> QED
    BY <1>3, <2>3 DEF ChanType, Moving
<1>4. CASE slot = NoSlot /\ Sent(Units(rq, sent, rc)) /\ UNCHANGED slot
  <2>1. Units(rq, sent, rc) \in Seq(Unit) /\ InList(Units(rq, sent, rc)) \subseteq {rq}
    BY <1>1, UnitsAre
  <2>2. /\ tail' \in Seq(Unit) /\ todo' \subseteq Rq
        /\ InList(tail') \subseteq InList(tail) \union InList(Units(rq, sent, rc))
        /\ todo' \subseteq (todo \union InList(tail)) \union InList(Units(rq, sent, rc))
    BY <1>4, <2>1, SentIs
  <2> QED
    BY <1>4, <2>1, <2>2 DEF ChanType, Moving
<1>5. CASE slot # NoSlot /\ Sent(Units(slot.rq, slot.from, slot.n)) /\ slot' = NoSlot
  <2>1. slot.rq \in Rq /\ slot.from \in Int /\ slot.n \in Nat
    BY <1>1, <1>5 DEF ChanType, Packet
  <2>2. /\ Units(slot.rq, slot.from, slot.n) \in Seq(Unit)
        /\ InList(Units(slot.rq, slot.from, slot.n)) \subseteq {slot.rq}
    BY <2>1, UnitsAre
  <2>3. /\ tail' \in Seq(Unit) /\ todo' \subseteq Rq
        /\ InList(tail') \subseteq InList(tail) \union InList(Units(slot.rq, slot.from, slot.n))
        /\ todo' \subseteq (todo \union InList(tail))
                           \union InList(Units(slot.rq, slot.from, slot.n))
    BY <1>5, <2>2, SentIs
  <2> QED
    BY <1>5, <2>2, <2>3 DEF ChanType, Moving
<1> QED
  BY <1>2, <1>3, <1>4, <1>5 DEF ChannelWrite

LEMMA FlushIs ==
    ASSUME NEW list, NEW answers, Flush(list, answers)
    PROVE  packets' \subseteq answers
BY DEF Flush

LEMMA AnswerFits ==
    ASSUME use \in Uses, NEW r \in Rq, NEW a \in Answers(r)
    PROVE  a \in Reply /\ a.id = r.id /\ Fit(use, a, r)
<1>1. /\ r.id \in Nat /\ r.off \in Int /\ r.len \in Nat /\ FileLen \in Nat
      /\ r.kind \in {"read", "write", "close"}
  BY ConstTypes DEF Rq
<1>2. CASE use.fault /\ a = [id |-> r.id, type |-> "error", off |-> 0, n |-> 0]
  BY <1>1, <1>2 DEF Reply, Fit
<1>3. CASE r.kind # "read" /\ a = [id |-> r.id, type |-> "ok", off |-> 0, n |-> 0]
  BY <1>1, <1>3 DEF Reply, Fit
<1>4. CASE /\ r.kind = "read" /\ FileLen - r.off <= 0
           /\ a = [id |-> r.id, type |-> "eof", off |-> 0, n |-> 0]
  BY <1>1, <1>4 DEF Reply, Fit
<1>5. ASSUME r.kind = "read", ~(FileLen - r.off <= 0),
             NEW n \in IF use.short THEN 1..Least(r.len, FileLen - r.off)
                                    ELSE {Least(r.len, FileLen - r.off)},
             a = [id |-> r.id, type |-> "data", off |-> r.off, n |-> n]
      PROVE  a \in Reply /\ a.id = r.id /\ Fit(use, a, r)
  <2>1. /\ n \in Nat /\ n <= r.len /\ (r.len >= 1 => n >= 1)
        /\ ~use.short => n = r.len \/ n = FileLen - r.off
    BY <1>1, <1>5 DEF Least
  <2>2. r.off < FileLen
    BY <1>1, <1>5
  <2> QED
    BY <1>1, <1>5, <2>1, <2>2 DEF Reply, Fit
<1>6. \/ use.fault /\ a = [id |-> r.id, type |-> "error", off |-> 0, n |-> 0]
      \/ r.kind # "read" /\ a = [id |-> r.id, type |-> "ok", off |-> 0, n |-> 0]
      \/ /\ r.kind = "read" /\ FileLen - r.off <= 0
         /\ a = [id |-> r.id, type |-> "eof", off |-> 0, n |-> 0]
      \/ /\ r.kind = "read" /\ ~(FileLen - r.off <= 0)
         /\ \E n \in IF use.short THEN 1..Least(r.len, FileLen - r.off)
                                  ELSE {Least(r.len, FileLen - r.off)} :
               a = [id |-> r.id, type |-> "data", off |-> r.off, n |-> n]
  <2>1. CASE r.kind # "read"
    BY <2>1 DEF Answers
  <2>2. CASE r.kind = "read" /\ FileLen - r.off <= 0
    BY <2>2 DEF Answers
  <2>3. CASE r.kind = "read" /\ ~(FileLen - r.off <= 0)
    BY <2>3 DEF Answers
  <2> QED
    BY <2>1, <2>2, <2>3
<1> QED
  BY <1>2, <1>3, <1>4, <1>5, <1>6

(***************************************************************************)
(* Which requests there are, and their ids.                                *)
(***************************************************************************)
LEMMA ReqsTyped ==
    ASSUME TypeInv
    PROVE  AllReqs \subseteq Rq
<1>1. \A h \in Handles : InList(fd[h].list) \subseteq Rq
  BY FileFields DEF TypeInv, InList
<1>2. Listed(fd) \subseteq Rq
  BY <1>1 DEF Listed
<1>3. \A h \in Handles : fd[h].close_id \in Nat
  BY FileFields DEF TypeInv
<1>4. Closings(fd) \subseteq Rq
  BY <1>3 DEF Closings, CloseRq, Rq
<1>5. InList(tail) \subseteq Rq
  <2>1. \A k \in DOMAIN tail : tail[k] \in Unit
    BY DEF TypeInv, ChanType
  <2> QED
    BY <2>1 DEF InList, Unit
<1>6. Moving(slot, tail, todo) \subseteq Rq
  BY <1>5 DEF TypeInv, ChanType, Moving, Packet
<1> QED
  BY <1>2, <1>4, <1>6 DEF AllReqs, Reqs

LEMMA FilesFrame ==
    ASSUME NEW files \in [Handles -> File], NEW h \in Handles, NEW g \in File,
           InList(g.list) \subseteq InList(files[h].list),
           g.close # "idle" => files[h].close # "idle" /\ g.close_id = files[h].close_id
    PROVE  LET new == [files EXCEPT ![h] = g]
           IN  Listed(new) \subseteq Listed(files) /\ Closings(new) \subseteq Closings(files)
<1> DEFINE new == [files EXCEPT ![h] = g]
<1>1. new[h] = g /\ \A x \in Handles : x # h => new[x] = files[x]
  OBVIOUS
<1> HIDE DEF new
<1>2. \A x \in Handles : InList(new[x].list) \subseteq InList(files[x].list)
  BY <1>1
<1>3. \A x \in Handles : new[x].close # "idle" =>
         files[x].close # "idle" /\ new[x].close_id = files[x].close_id
  BY <1>1
<1>4. Listed(new) \subseteq Listed(files)
  BY <1>2 DEF Listed
<1>5. Closings(new) \subseteq Closings(files)
  BY <1>3 DEF Closings
<1> QED
  BY <1>4, <1>5 DEF new

LEMMA IdShrinks ==
    ASSUME NEW u, NEW rqs \in SUBSET Rq, NEW pk \in SUBSET Reply, NEW id \in Nat,
           IdOk(u, rqs, pk, id), NEW r2 \in SUBSET rqs, NEW p2 \in SUBSET pk
    PROVE  IdOk(u, r2, p2, id)
BY DEF IdOk

LEMMA IdGrows ==
    ASSUME NEW u, NEW rqs \in SUBSET Rq, NEW pk \in SUBSET Reply, NEW id \in Nat,
           IdOk(u, rqs, pk, id), NEW r \in Rq, r.id = id,
           NEW r2 \in SUBSET (rqs \union {r})
    PROVE  IdOk(u, r2, pk, id + 1)
<1>1. /\ \A x \in rqs : x.id \in Nat /\ x.id < id
      /\ \A a \in pk : a.id \in Nat /\ a.id < id
  BY DEF IdOk, Rq, Reply
<1>2. \A x \in r2 : x.id < id + 1
  BY <1>1
<1>3. \A x, y \in r2 : x.id = y.id => x = y
  BY <1>1 DEF IdOk
<1>4. \A a \in pk : a.id < id + 1
  BY <1>1
<1>5. \A a \in pk, x \in r2 : a.id = x.id => Fit(u, a, x)
  BY <1>1 DEF IdOk
<1> QED
  BY <1>2, <1>3, <1>4, <1>5 DEF IdOk

LEMMA IdAnswered ==
    ASSUME NEW u, NEW rqs \in SUBSET Rq, NEW pk \in SUBSET Reply, NEW id \in Nat,
           IdOk(u, rqs, pk, id), NEW r \in rqs, NEW a \in Reply, a.id = r.id,
           Fit(u, a, r), NEW r2 \in SUBSET rqs, NEW p2 \in SUBSET (pk \union {a})
    PROVE  IdOk(u, r2, p2, id)
BY DEF IdOk

-------------------------------------------------------------------------------
(* Steps that concern one file. *)

LEMMA OutOk ==
    \A u, f, p, m : CallOk(u, Out, f, p, m)
BY OutType DEF CallOk

LEMMA Idle ==
    ASSUME TypeInv, FilesInv, NEW h
    PROVE  /\ call.got = <<>> => Taking(call, h) = 0
           /\ call.acked = 0 => Acking(call, h) = 0
           /\ Taking(Out, h) = 0 /\ Acking(Out, h) = 0
           /\ call.pc \notin {"collect", "rdone"} => call.got = <<>>
           /\ call.pc # "ack" => call.acked = 0
BY OutType DEF Taking, Acking, FilesInv, CallOk

(***************************************************************************)
(* If only the file of h changes, and the call under way before and after  *)
(* the step is on h or has taken nothing, only h has to be looked at: its  *)
(* file is g afterwards, and its client stands at p.                       *)
(***************************************************************************)
FileStep(h, g, p, e) ==
    /\ use' = use /\ misuse \subseteq misuse'
    /\ fd' = [fd EXCEPT ![h] = g] /\ pos' = [pos EXCEPT ![h] = p]
    /\ ended' = [ended EXCEPT ![h] = e]
    /\ call' \in Call
    /\ call.h = h \/ (call.got = <<>> /\ call.acked = 0)
    /\ call'.h = h \/ (call'.got = <<>> /\ call'.acked = 0)
    /\ HandleOk(use, h, g, p, e, call', misuse')
    /\ \/ call' = Out \/ (call' = call /\ call.pc = "out")
       \/ call'.h = h /\ CallOk(use, call', g, p, misuse')

LEMMA OneFile ==
    ASSUME TypeInv, FilesInv, NEW h \in Handles, NEW g \in File, NEW p \in Int,
           NEW e \in BOOLEAN, FileStep(h, g, p, e)
    PROVE  /\ FilesInv'
           /\ fd' \in [Handles -> File] /\ pos' \in [Handles -> Int]
           /\ ended' \in [Handles -> BOOLEAN]
           /\ fd'[h] = g /\ pos'[h] = p
           /\ \A x \in Handles : x # h => fd'[x] = fd[x] /\ pos'[x] = pos[x]
<1>1. /\ fd'[h] = g /\ pos'[h] = p /\ ended'[h] = e
      /\ \A x \in Handles : x # h => /\ fd'[x] = fd[x] /\ pos'[x] = pos[x]
                                     /\ ended'[x] = ended[x]
  BY DEF TypeInv, FileStep
<1>2. /\ fd' \in [Handles -> File] /\ pos' \in [Handles -> Int]
      /\ ended' \in [Handles -> BOOLEAN]
  BY DEF TypeInv, FileStep
<1>3. ASSUME NEW x \in Handles, x # h
      PROVE  HandleOk(use', x, fd'[x], pos'[x], ended'[x], call', misuse')
  <2>1. Taking(call, x) = 0 /\ Acking(call, x) = 0
    BY <1>3 DEF Taking, Acking, FileStep
  <2>2. Taking(call', x) = 0 /\ Acking(call', x) = 0
    BY <1>3 DEF Taking, Acking, FileStep
  <2>3. HandleOk(use, x, fd[x], pos[x], ended[x], call, misuse)
    BY DEF FilesInv
  <2>4. HandleOk(use, x, fd[x], pos[x], ended[x], call', misuse')
    BY <2>1, <2>2, <2>3 DEF HandleOk, PosOk, SureOk, FileStep
  <2> QED
    BY <1>1, <1>3, <2>4 DEF FileStep
<1>4. HandleOk(use', h, fd'[h], pos'[h], ended'[h], call', misuse')
  BY <1>1 DEF FileStep
<1>5. CallOk(use', call', fd'[call'.h], pos'[call'.h], misuse')
  <2>1. call.pc = "out" => call.got = <<>> /\ call.acked = 0
    BY Idle
  <2>2. call' = call /\ call.pc = "out" => CallOk(use', call', fd'[call'.h], pos'[call'.h], misuse')
    BY <2>1 DEF CallOk
  <2> QED
    BY <1>1, <2>2, OutOk DEF FileStep
<1>6. FilesInv'
  BY <1>3, <1>4, <1>5 DEF FilesInv
<1> QED
  BY <1>1, <1>2, <1>6

\* The step makes no request and takes no answer in, and writes nothing.
Quiet ==
    /\ use' = use /\ misuse \subseteq misuse' /\ disk' = disk /\ request_id' = request_id
    /\ packets' \subseteq packets /\ AllReqs' \subseteq AllReqs

\* What is acknowledged and not reported becomes less at both ends.
Narrower(h) ==
    \/ pos[h] <= pos'[h] /\ fd'[h].offset <= fd[h].offset
    \/ fd'[h].offset <= pos'[h]

LEMMA StoredPart ==
    ASSUME NEW d, NEW a \in Int, NEW b \in Int, NEW x \in Int, NEW y \in Int,
           Stored(d, a, b), (a <= x /\ y <= b) \/ y <= x
    PROVE  Stored(d, x, y)
BY DEF Stored

LEMMA QuietKeeps ==
    ASSUME TypeInv, IdInv, DiskInv, Quiet, told' = told,
           fd' \in [Handles -> File], pos' \in [Handles -> Int],
           \A h \in Handles : ~Reader(use, h) => Narrower(h)
    PROVE  IdInv' /\ DiskInv'
<1>1. IdInv'
  BY ReqsTyped, IdShrinks DEF IdInv, Quiet, TypeInv
<1>2. ASSUME "owing" \notin misuse'
      PROVE  DiskOk(use, AllReqs', packets', fd', disk, pos', told)
  <2>1. DiskOk(use, AllReqs, packets, fd, disk, pos, told)
    BY <1>2 DEF DiskInv, Quiet
  <2>2. \A h \in Handles : ~Reader(use, h) => Stored(disk[h], pos'[h], fd'[h].offset)
    <3> SUFFICES ASSUME NEW h \in Handles, ~Reader(use, h)
                 PROVE  Stored(disk[h], pos'[h], fd'[h].offset)
      OBVIOUS
    <3>1. Stored(disk[h], pos[h], fd[h].offset)
      BY <2>1 DEF DiskOk
    <3>2. pos[h] \in Int /\ fd[h].offset \in Int /\ pos'[h] \in Int /\ fd'[h].offset \in Int
      BY FileFields DEF TypeInv
    <3>3. (pos[h] <= pos'[h] /\ fd'[h].offset <= fd[h].offset) \/ fd'[h].offset <= pos'[h]
      BY DEF Narrower
    <3> QED
      BY <3>1, <3>2, <3>3, StoredPart
  <2>3. AllReqs' \subseteq AllReqs /\ packets' \subseteq packets
    BY DEF Quiet
  <2> QED
    BY <2>1, <2>2, <2>3 DEF DiskOk
<1>3. DiskInv'
  BY <1>2 DEF DiskInv, Quiet
<1> QED
  BY <1>1, <1>3

LEMMA ReqsKept ==
    ASSUME TypeInv, NEW h \in Handles, NEW g \in File, fd' = [fd EXCEPT ![h] = g],
           InList(g.list) \subseteq InList(fd[h].list),
           g.close # "idle" => fd[h].close # "idle" /\ g.close_id = fd[h].close_id,
           Moving(slot', tail', todo') \subseteq AllReqs
    PROVE  AllReqs' \subseteq AllReqs
<1>1. fd \in [Handles -> File]
  BY DEF TypeInv
<1>2. Listed(fd') \subseteq Listed(fd) /\ Closings(fd') \subseteq Closings(fd)
  BY <1>1, FilesFrame
<1> QED
  BY <1>2 DEF AllReqs, Reqs

\* A step on h, after which its file is g and its client stands at p.
OneStep(h, g, p, e) ==
    /\ Quiet /\ told' = told /\ ChanType' /\ FileStep(h, g, p, e)
    /\ Reader(use, h) \/ (pos[h] <= p /\ g.offset <= fd[h].offset) \/ g.offset <= p

LEMMA QuietStep ==
    ASSUME IInv, NEW h \in Handles, NEW g \in File, NEW p \in Int, NEW e \in BOOLEAN,
           OneStep(h, g, p, e)
    PROVE  IInv'
<1>0. /\ Quiet /\ told' = told /\ ChanType' /\ call' \in Call /\ FileStep(h, g, p, e)
      /\ Reader(use, h) \/ (pos[h] <= p /\ g.offset <= fd[h].offset) \/ g.offset <= p
  BY DEF OneStep, FileStep
<1>1. TypeInv /\ FilesInv /\ IdInv /\ DiskInv
  BY DEF IInv
<1>2. use' = use /\ misuse \subseteq misuse'
  BY <1>0 DEF Quiet
<1>3. /\ FilesInv'
      /\ fd' \in [Handles -> File] /\ pos' \in [Handles -> Int]
      /\ ended' \in [Handles -> BOOLEAN]
      /\ fd'[h] = g /\ pos'[h] = p
      /\ \A x \in Handles : x # h => fd'[x] = fd[x] /\ pos'[x] = pos[x]
  BY <1>0, <1>1, OneFile
<1>4. TypeInv'
  BY <1>0, <1>1, <1>3 DEF TypeInv, Quiet
<1>5. ASSUME NEW x \in Handles, ~Reader(use, x) PROVE Narrower(x)
  <2>1. pos[x] \in Int /\ fd[x].offset \in Int
    BY <1>1, FileFields DEF TypeInv
  <2> QED
    BY <1>0, <1>3, <1>5, <2>1 DEF Narrower
<1>6. IdInv' /\ DiskInv'
  BY <1>0, <1>1, <1>3, <1>5, QuietKeeps
<1> QED
  BY <1>3, <1>4, <1>6 DEF IInv

LEMMA SameFile ==
    ASSUME TypeInv, NEW h \in Handles
    PROVE  /\ fd[h] \in File /\ pos[h] \in Int /\ ended[h] \in BOOLEAN
           /\ fd = [fd EXCEPT ![h] = fd[h]] /\ pos = [pos EXCEPT ![h] = pos[h]]
           /\ ended = [ended EXCEPT ![h] = ended[h]]
BY DEF TypeInv

LEMMA SameReqs ==
    ASSUME UNCHANGED <<fd, slot, tail, todo>>
    PROVE  AllReqs' = AllReqs
BY DEF AllReqs

LEMMA NoTraffic ==
    ASSUME TypeInv, UNCHANGED <<use, fd, disk, request_id, slot, tail, todo>>,
           misuse \subseteq misuse', packets' \subseteq packets
    PROVE  Quiet /\ ChanType'
<1>1. ChanType'
  BY DEF TypeInv, ChanType
<1>2. Quiet
  BY SameReqs DEF Quiet
<1> QED
  BY <1>1, <1>2

\* Only the locals of the call on h change, and it takes nothing.
CallOnly(h) ==
    /\ UNCHANGED <<use, fd, pos, ended, told, disk, request_id, packets, slot, tail, todo>>
    /\ misuse \subseteq misuse' /\ call' \in Call
    /\ call.h = h \/ (call.got = <<>> /\ call.acked = 0)
    /\ call'.h = h \/ (call'.got = <<>> /\ call'.acked = 0)
    /\ Taking(call', h) = Taking(call, h) /\ Acking(call', h) = Acking(call, h)
    /\ call' = Out \/ (call'.h = h /\ CallOk(use, call', fd[h], pos[h], misuse'))

LEMMA CallStep ==
    ASSUME IInv, NEW h \in Handles, CallOnly(h)
    PROVE  IInv'
<1>1. TypeInv /\ FilesInv
  BY DEF IInv
<1>2. /\ use' = use /\ fd' = fd /\ pos' = pos /\ ended' = ended /\ told' = told /\ disk' = disk
      /\ request_id' = request_id /\ packets' = packets /\ slot' = slot /\ tail' = tail
      /\ todo' = todo /\ misuse \subseteq misuse' /\ call' \in Call
  BY DEF CallOnly
<1>3. Quiet /\ ChanType'
  BY <1>1, <1>2, NoTraffic
<1>4. HandleOk(use, h, fd[h], pos[h], ended[h], call, misuse)
  BY <1>1 DEF FilesInv
<1>5. HandleOk(use, h, fd[h], pos[h], ended[h], call', misuse')
  BY <1>2, <1>4 DEF CallOnly, HandleOk, PosOk, SureOk
<1>6. /\ fd[h] \in File /\ pos[h] \in Int /\ ended[h] \in BOOLEAN
      /\ fd' = [fd EXCEPT ![h] = fd[h]] /\ pos' = [pos EXCEPT ![h] = pos[h]]
      /\ ended' = [ended EXCEPT ![h] = ended[h]]
  BY <1>1, <1>2, SameFile
<1>7. fd[h].offset <= fd[h].offset /\ pos[h] <= pos[h]
  BY <1>6, FileFields
<1>8. OneStep(h, fd[h], pos[h], ended[h])
  BY <1>2, <1>3, <1>5, <1>6, <1>7 DEF OneStep, FileStep, CallOnly
<1> QED
  BY <1>6, <1>8, QuietStep

\* A step that makes the request r, after which the file of h is g.
GrowStep(h, g, r) ==
    /\ UNCHANGED <<use, pos, ended, told, disk, packets>>
    /\ misuse \subseteq misuse' /\ ChanType' /\ request_id' = request_id + 1
    /\ AllReqs' \subseteq AllReqs \union {r} /\ r.id = request_id
    /\ "owing" \notin misuse' /\ r.kind = "write" => r.val = r.off
    /\ fd' = [fd EXCEPT ![h] = g] /\ g.offset = fd[h].offset
    /\ call' \in Call /\ call'.h = h
    /\ call.h = h \/ (call.got = <<>> /\ call.acked = 0)
    /\ HandleOk(use, h, g, pos[h], ended[h], call', misuse')
    /\ CallOk(use, call', g, pos[h], misuse')

LEMMA RequestStep ==
    ASSUME IInv, NEW h \in Handles, NEW g \in File, NEW r \in Rq, GrowStep(h, g, r)
    PROVE  IInv'
<1>1. TypeInv /\ FilesInv /\ IdInv /\ DiskInv
  BY DEF IInv
<1>2. /\ use' = use /\ pos' = pos /\ ended' = ended /\ told' = told /\ disk' = disk
      /\ packets' = packets /\ misuse \subseteq misuse' /\ ChanType'
      /\ request_id' = request_id + 1 /\ r.id = request_id /\ call' \in Call /\ call'.h = h
      /\ fd' = [fd EXCEPT ![h] = g] /\ g.offset = fd[h].offset
      /\ call.h = h \/ (call.got = <<>> /\ call.acked = 0)
      /\ HandleOk(use, h, g, pos[h], ended[h], call', misuse')
      /\ CallOk(use, call', g, pos[h], misuse')
  BY DEF GrowStep
<1>3. /\ AllReqs' \subseteq AllReqs \union {r}
      /\ "owing" \notin misuse' /\ r.kind = "write" => r.val = r.off
  BY DEF GrowStep
<1>4. /\ fd[h] \in File /\ pos[h] \in Int /\ ended[h] \in BOOLEAN
      /\ pos' = [pos EXCEPT ![h] = pos[h]] /\ ended' = [ended EXCEPT ![h] = ended[h]]
  BY <1>1, <1>2, SameFile
<1>5. /\ FilesInv' /\ fd' \in [Handles -> File] /\ fd'[h] = g
      /\ \A x \in Handles : x # h => fd'[x] = fd[x]
  <2>1. FileStep(h, g, pos[h], ended[h])
    BY <1>2, <1>4 DEF FileStep
  <2> QED
    BY <1>1, <1>4, <2>1, OneFile
<1>6. TypeInv'
  BY <1>1, <1>2, <1>5 DEF TypeInv
<1>7. AllReqs \in SUBSET Rq /\ packets \in SUBSET Reply /\ request_id \in Nat
  BY <1>1, ReqsTyped DEF TypeInv
<1>8. IdInv'
  <2>1. IdOk(use, AllReqs, packets, request_id)
    BY <1>1 DEF IdInv
  <2>2. IdOk(use, AllReqs', packets, request_id + 1)
    BY <1>2, <1>3, <1>7, <2>1, IdGrows
  <2> QED
    BY <1>2, <2>2 DEF IdInv
<1>9. ASSUME "owing" \notin misuse'
      PROVE  DiskOk(use, AllReqs', packets, fd', disk, pos, told)
  <2>1. DiskOk(use, AllReqs, packets, fd, disk, pos, told)
    BY <1>1, <1>2, <1>9 DEF DiskInv
  <2>2. \A x \in AllReqs' : x.kind = "write" => x.val = x.off
    BY <1>3, <1>9, <2>1 DEF DiskOk
  <2>3. \A a \in packets : a.id # r.id
    BY <1>1, <1>2, <1>7 DEF IdInv, IdOk, Reply
  <2>4. \A a \in packets, x \in AllReqs' :
          a.id = x.id /\ a.type = "ok" /\ x.kind = "write"
          => Stored(disk[x.h], x.off, x.off + x.len)
    BY <1>3, <2>1, <2>3 DEF DiskOk
  <2>5. \A x \in Handles : fd'[x].offset = fd[x].offset
    BY <1>2, <1>5
  <2> QED
    BY <2>1, <2>2, <2>4, <2>5 DEF DiskOk
<1>10. DiskInv'
  BY <1>2, <1>9 DEF DiskInv
<1> QED
  BY <1>5, <1>6, <1>8, <1>10 DEF IInv

LEMMA ListGrows ==
    ASSUME TypeInv, NEW h \in Handles, NEW c \in Piece,
           fd' = [fd EXCEPT ![h] = Grown(fd[h], c)], UNCHANGED <<slot, tail, todo>>
    PROVE  AllReqs' \subseteq AllReqs \union {c.rq}
<1> DEFINE g == Grown(fd[h], c)
<1>1. fd \in [Handles -> File] /\ fd[h] \in File
  BY DEF TypeInv
<1>2. /\ g \in File /\ g.close = fd[h].close /\ g.close_id = fd[h].close_id
      /\ Len(g.list) = Len(fd[h].list) + 1
      /\ \A k \in 1..Len(fd[h].list) : g.list[k] = fd[h].list[k]
      /\ g.list[Len(fd[h].list) + 1] = c
  BY <1>1, GrownIs
<1>3. fd'[h] = g /\ \A x \in Handles : x # h => fd'[x] = fd[x]
  BY <1>1
<1> HIDE DEF g
<1>4. InList(g.list) \subseteq InList(fd[h].list) \union {c.rq}
  <2>1. /\ Len(fd[h].list) \in Nat /\ DOMAIN fd[h].list = 1..Len(fd[h].list)
        /\ DOMAIN g.list = 1..Len(g.list)
    BY <1>1, <1>2, FileFields
  <2>2. DOMAIN g.list = DOMAIN fd[h].list \union {Len(fd[h].list) + 1}
    BY <1>2, <2>1
  <2> QED
    BY <1>2, <2>1, <2>2 DEF InList
<1>5. Listed(fd') \subseteq Listed(fd) \union {c.rq}
  BY <1>3, <1>4 DEF Listed
<1>6. Closings(fd') = Closings(fd)
  <2>1. \A x \in Handles : fd'[x].close = fd[x].close /\ fd'[x].close_id = fd[x].close_id
    BY <1>2, <1>3
  <2> QED
    BY <2>1 DEF Closings
<1> QED
  BY <1>5, <1>6 DEF AllReqs, Reqs

LEMMA AlikeOk ==
    ASSUME NEW f \in File, NEW g \in File, Alike(f, g), NEW u, NEW h, NEW p \in Int,
           NEW e \in BOOLEAN, NEW c1, NEW c2, NEW m1, NEW m2, m1 \subseteq m2,
           HandleOk(u, h, f, p, e, c1, m1),
           Taking(c2, h) = Taking(c1, h), Acking(c2, h) = Acking(c1, h)
    PROVE  HandleOk(u, h, g, p, e, c2, m2)
<1>1. /\ Front(g) = Front(f)
      /\ Exact(f) => Exact(g)
      /\ Jammed(f) => Jammed(g)
      /\ Beyond(f) => Beyond(g)
      /\ Own(u, h, f) => Own(u, h, g)
  BY AlikeKeeps
<1>2. /\ g.offset = f.offset /\ g.data = f.data /\ g.eof = f.eof /\ g.acked = f.acked
      /\ f.close # "closed" /\ g.close # "closed"
  BY DEF Alike
<1>3. FileOk(u, h, g)
  BY <1>1, <1>2 DEF HandleOk, FileOk
<1>4. PosOk(u, h, g, p, c2, m2)
  BY <1>1, <1>2 DEF HandleOk, PosOk
<1>5. SureOk(u, h, g, p, e, c2, m2)
  BY <1>1, <1>2 DEF HandleOk, SureOk
<1> QED
  BY <1>3, <1>4, <1>5 DEF HandleOk

LEMMA SendStepKeeps ==
    ASSUME IInv, NEW next, NEW again,
           \/ call.pc = "rsend" /\ next = "collect"
           \/ call.pc = "wsend" /\ next = "ack",
           SendStep(next, again),
           UNCHANGED <<use, pos, ended, told, misuse, disk, request_id, packets>>
    PROVE  IInv'
<1> DEFINE h == call.h
           f == fd[h]
           i == call.i
<1>1. /\ TypeInv /\ FilesInv /\ HandleOk(use, h, f, pos[h], ended[h], call, misuse)
      /\ CallOk(use, call, f, pos[h], misuse) /\ call \in Call /\ h \in Handles
  BY DEF IInv, FilesInv, TypeInv, Call
<1>2. /\ f.close = "idle" /\ call.got = <<>> /\ call.acked = 0
  BY <1>1 DEF CallOk
<1>3. /\ i \in Nat /\ i >= 1 /\ f \in File /\ pos[h] \in Int /\ ended[h] \in BOOLEAN
      /\ pos' = [pos EXCEPT ![h] = pos[h]] /\ ended' = [ended EXCEPT ![h] = ended[h]]
  BY <1>1, SameFile DEF Call
<1>4. ASSUME \/ call' = call \/ call' = [call EXCEPT !.pc = next]
             \/ call' = [call EXCEPT !.i = @ + 1]
      PROVE  /\ call' \in Call /\ call'.h = h /\ call'.got = <<>> /\ call'.acked = 0
             /\ call'.size = call.size /\ call'.pc \in {call.pc, next}
  <2>1. next \in Pcs /\ i + 1 \in Nat \ {0}
    BY <1>3 DEF Pcs
  <2> QED
    BY <1>1, <1>2, <1>4, <2>1 DEF Call
<1>5. ASSUME \/ call' = call \/ call' = [call EXCEPT !.pc = next]
             \/ call' = [call EXCEPT !.i = @ + 1]
      PROVE  /\ CallOk(use, call', f, pos[h], misuse)
             /\ Taking(call', h) = Taking(call, h) /\ Acking(call', h) = Acking(call, h)
  BY <1>1, <1>2, <1>4, <1>5 DEF CallOk, Taking, Acking
<1>6. CASE \/ i > Len(f.list)
           \/ ~(i > Len(f.list)) /\ Left(f.list[i]) = 0
  <2>1. /\ call' = [call EXCEPT !.pc = next] \/ call' = [call EXCEPT !.i = @ + 1]
        /\ UNCHANGED <<fd, slot, tail, todo>>
    BY <1>6 DEF SendStep, chanVars
  <2>2. CallOnly(h)
    BY <1>4, <1>5, <2>1 DEF CallOnly
  <2> QED
    BY <1>1, <2>2, CallStep
<1>7. CASE ~(i > Len(f.list)) /\ Left(f.list[i]) # 0
  <2> DEFINE rq == f.list[i].rq
             sent == f.list[i].sent
  <2>1. PICK rc \in 0..PktLen :
          /\ ChannelWrite(rq, sent, rc)
          /\ fd' = [fd EXCEPT ![h].list[i].sent = Least(PktLen, @ + rc)]
          /\ \/ call' = Out \/ call' = call \/ call' = [call EXCEPT !.pc = next]
    BY <1>7 DEF SendStep
  <2>2. /\ i \in DOMAIN f.list /\ rq \in Rq /\ sent \in 0..PktLen /\ f.list[i] \in Piece
        /\ f.list \in Seq(Piece) /\ Len(f.list) \in Nat /\ DOMAIN f.list = 1..Len(f.list)
    BY <1>3, <1>7, FileFields
  <2> DEFINE k == Least(PktLen, sent + rc)
             c == [f.list[i] EXCEPT !.sent = k]
             g == [f EXCEPT !.list = [@ EXCEPT ![i] = c]]
  <2>3. k \in 0..PktLen
    <3>1. sent \in 0..PktLen /\ PktLen \in Nat
      BY <2>2, ConstTypes
    <3> HIDE DEF sent
    <3> QED
      BY <3>1 DEF Least
  <2>4. fd' = [fd EXCEPT ![h] = g]
    BY <1>1, <2>1 DEF TypeInv
  <2>5. c \in Piece /\ c.rq = rq
    <3> HIDE DEF k
    <3> QED
      BY <2>2, <2>3 DEF Piece
  <2> HIDE DEF c
  <2>6. /\ g \in File /\ g.list = [f.list EXCEPT ![i] = c] /\ Alike(f, g)
        /\ g.close = f.close /\ g.close_id = f.close_id
    <3>1. /\ [f.list EXCEPT ![i] = c] \in Seq(Piece)
          /\ Len([f.list EXCEPT ![i] = c]) = Len(f.list)
      BY <2>2, <2>5
    <3>2. /\ g \in File /\ g.list = [f.list EXCEPT ![i] = c]
          /\ g.offset = f.offset /\ g.offset_sent = f.offset_sent /\ g.data = f.data
          /\ g.eof = f.eof /\ g.acked = f.acked /\ g.close = f.close
          /\ g.close_id = f.close_id
      BY <1>3, <3>1 DEF File
    <3> HIDE DEF g
    <3>3. \A j \in DOMAIN f.list : g.list[j].rq = f.list[j].rq
      BY <2>2, <2>5, <3>2
    <3> QED
      BY <1>2, <3>1, <3>2, <3>3 DEF Alike
  <2> HIDE DEF g
  <2>7. InList(g.list) = InList(f.list)
    BY <1>3, <2>6, AlikeKeeps
  <2>8. /\ ChanType'
        /\ Moving(slot', tail', todo') \subseteq Moving(slot, tail, todo) \union {rq}
    BY <1>1, <2>1, <2>2, ChannelWriteIs DEF TypeInv
  <2>9. Moving(slot', tail', todo') \subseteq AllReqs
    <3>1. rq \in InList(f.list)
      BY <2>2 DEF InList
    <3>2. rq \in Listed(fd)
      BY <1>1, <3>1 DEF Listed
    <3> QED
      BY <2>8, <3>2 DEF AllReqs, Reqs
  <2>10. AllReqs' \subseteq AllReqs
    BY <1>1, <2>4, <2>6, <2>7, <2>9, ReqsKept
  <2>11. Quiet
    BY <2>10 DEF Quiet
  <2>12. /\ call' \in Call /\ (call'.h = h \/ (call'.got = <<>> /\ call'.acked = 0))
         /\ Taking(call', h) = Taking(call, h) /\ Acking(call', h) = Acking(call, h)
    BY <1>2, <1>4, <1>5, <2>1, OutType DEF Taking, Acking
  <2>13. HandleOk(use, h, g, pos[h], ended[h], call', misuse)
    BY <1>1, <1>3, <2>6, <2>12, AlikeOk
  <2>14. call' = Out \/ (call'.h = h /\ CallOk(use, call', g, pos[h], misuse))
    <3>1. g.data = f.data /\ g.offset_sent = f.offset_sent /\ g.close = f.close
      BY <2>6 DEF Alike
    <3> QED
      BY <1>4, <1>5, <2>1, <3>1 DEF CallOk
  <2>15. pos[h] <= pos[h] /\ g.offset <= f.offset
    BY <1>3, <2>6, FileFields DEF Alike
  <2>16. OneStep(h, g, pos[h], ended[h])
    <3>1. /\ use' = use /\ misuse' = misuse /\ told' = told
          /\ pos' = [pos EXCEPT ![h] = pos[h]] /\ ended' = [ended EXCEPT ![h] = ended[h]]
      BY <1>3
    <3>2. FileStep(h, g, pos[h], ended[h])
      BY <2>4, <2>12, <2>13, <2>14, <3>1 DEF FileStep
    <3> QED
      BY <2>8, <2>11, <2>15, <3>1, <3>2 DEF OneStep
  <2> QED
    BY <1>1, <1>3, <2>6, <2>16, QuietStep
<1> QED
  BY <1>6, <1>7

-------------------------------------------------------------------------------
(* The steps of read. *)

LEMMA ReadLeftStep ==
    ASSUME IInv, NEW h \in Handles, NEW size \in use.sizes, ReadLeft(h, size)
    PROVE  IInv'
<1> DEFINE f == fd[h]
           n == Least(size, Len(f.data))
           g == Given(f, n)
           got == SubSeq(f.data, 1, n)
<1>1. TypeInv /\ FilesInv /\ HandleOk(use, h, f, pos[h], ended[h], call, misuse)
  BY DEF IInv, FilesInv
<1>2. /\ Reader(use, h) /\ f.close = "idle" /\ call.pc = "out" /\ f.data # <<>>
  BY DEF ReadLeft, MayCall, Reader
<1>3. call.got = <<>> /\ call.acked = 0 /\ Taking(call, h) = 0
  BY <1>1, <1>2, Idle
<1>4. f \in File /\ f.offset \in Int /\ f.data \in Seq(Int) /\ Len(f.data) \in Nat
  BY <1>1, SameFile, FileFields
<1>5. size \in Nat /\ n \in Nat /\ n <= Len(f.data)
  BY <1>1, <1>4, UseTypes DEF TypeInv, Least
<1>6. fd' = [fd EXCEPT ![h] = g]
  BY <1>1 DEF ReadLeft, Given, TypeInv
<1>7. /\ got \in Seq(Int) /\ Len(got) = n /\ DOMAIN got = 1..n
      /\ \A k \in 1..n : got[k] = f.data[k]
  <2> HIDE DEF n, f
  <2> QED
    BY <1>4, <1>5
<1>8. /\ call' \in Call /\ call'.pc = "rdone" /\ call'.h = h /\ call'.got = got
      /\ call'.acked = 0
  <2>1. call' = [Out EXCEPT !.pc = "rdone", !.h = h, !.got = got]
    BY DEF ReadLeft
  <2> HIDE DEF got
  <2> QED
    BY <1>7, <2>1, OutType DEF Call, Pcs
<1>9. /\ g \in File /\ g.offset = f.offset + n /\ g.offset_sent = f.offset_sent
      /\ Len(g.data) = Len(f.data) - n
      /\ \A k \in 1..(Len(f.data) - n) : g.data[k] = f.data[k + n]
      /\ g.list = f.list /\ g.eof = f.eof /\ g.acked = f.acked
      /\ g.close = f.close /\ g.close_id = f.close_id /\ Front(g) = Front(f)
  BY <1>4, <1>5, GivenIs
<1>10. pos[h] = f.offset /\ pos[h] \in Int
  BY <1>1, <1>2, <1>3, <1>4, SameFile DEF HandleOk, PosOk
<1>11. \A k \in 1..Len(f.data) : f.data[k] = f.offset + (k - 1)
  BY <1>1, <1>4 DEF HandleOk, FileOk
<1>12. DOMAIN g.data = 1..(Len(f.data) - n)
  BY <1>9, FileFields
<1> HIDE DEF f, n, g, got
<1>13. \A k \in DOMAIN g.data : g.data[k] = g.offset + (k - 1)
  <2> SUFFICES ASSUME NEW k \in 1..(Len(f.data) - n)
               PROVE  g.data[k] = g.offset + (k - 1)
    BY <1>12
  <2>1. k + n \in 1..Len(f.data)
    BY <1>4, <1>5
  <2>2. g.data[k] = f.offset + ((k + n) - 1)
    BY <1>9, <1>11, <2>1
  <2> QED
    BY <1>4, <1>5, <1>9, <2>2
<1>14. Taking(call', h) = n
  BY <1>7, <1>8 DEF Taking
<1>15. FileOk(use, h, g)
  BY <1>1, <1>2, <1>9, <1>13 DEF HandleOk, FileOk, Own, Exact, Jammed
<1>16. pos[h] = g.offset - Taking(call', h)
  BY <1>4, <1>5, <1>9, <1>10, <1>14
<1>17. HandleOk(use, h, g, pos[h], ended[h], call', misuse)
  <2>1. PosOk(use, h, g, pos[h], call', misuse)
    BY <1>2, <1>16 DEF PosOk
  <2>2. SureOk(use, h, g, pos[h], ended[h], call', misuse)
    BY <1>1, <1>2, <1>9, <1>16 DEF HandleOk, SureOk, Exact, Beyond
  <2> QED
    BY <1>15, <2>1, <2>2 DEF HandleOk
<1>18. CallOk(use, call', g, pos[h], misuse)
  <2>1. ASSUME NEW k \in 1..n PROVE got[k] = pos[h] + (k - 1)
    <3>1. k \in 1..Len(f.data)
      BY <1>4, <1>5
    <3> QED
      BY <1>7, <1>10, <1>11, <3>1
  <2>2. \A k \in DOMAIN call'.got : call'.got[k] = pos[h] + (k - 1)
    BY <1>7, <1>8, <2>1
  <2>3. call'.pc = "rdone" /\ call'.h = h /\ call'.acked = 0 /\ g.close = "idle"
    BY <1>2, <1>8, <1>9
  <2> QED
    BY <1>2, <2>2, <2>3 DEF CallOk
<1>19. /\ use' = use /\ pos' = pos /\ ended' = ended /\ misuse' = misuse /\ told' = told
       /\ disk' = disk /\ request_id' = request_id /\ packets' = packets
       /\ slot' = slot /\ tail' = tail /\ todo' = todo
  BY DEF ReadLeft, toldVars, sftpVars, chanVars, serverVars
<1>20. ChanType' /\ Moving(slot', tail', todo') \subseteq AllReqs
  BY <1>1, <1>19 DEF TypeInv, ChanType, AllReqs, Reqs
<1>21. AllReqs' \subseteq AllReqs
  BY <1>1, <1>6, <1>9, <1>20, ReqsKept DEF f
<1>22. Quiet
  BY <1>19, <1>21 DEF Quiet
<1>23. /\ pos' = [pos EXCEPT ![h] = pos[h]] /\ ended' = [ended EXCEPT ![h] = ended[h]]
       /\ pos[h] \in Int /\ ended[h] \in BOOLEAN
  BY <1>1, <1>19, SameFile
<1>24. g \in File /\ told' = told /\ misuse' = misuse
  BY <1>9, <1>19
<1>25. OneStep(h, g, pos[h], ended[h])
  BY <1>2, <1>3, <1>6, <1>8, <1>17, <1>18, <1>20, <1>22, <1>23, <1>24
  DEF OneStep, FileStep, Quiet
<1> QED
  BY <1>23, <1>24, <1>25, QuietStep

LEMMA ReadEofStep ==
    ASSUME IInv, NEW h \in Handles, ReadEof(h)
    PROVE  IInv'
<1>1. TypeInv /\ FilesInv /\ HandleOk(use, h, fd[h], pos[h], ended[h], call, misuse)
  BY DEF IInv, FilesInv
<1>2. /\ Reader(use, h) /\ fd[h].close = "idle" /\ call.pc = "out" /\ fd[h].data = <<>>
      /\ fd[h].eof /\ ended' = [ended EXCEPT ![h] = TRUE]
  BY DEF ReadEof, MayCall, Reader
<1>3. call.got = <<>> /\ call.acked = 0 /\ Taking(call, h) = 0
  BY <1>1, <1>2, Idle
<1>4. /\ use' = use /\ fd' = fd /\ pos' = pos /\ told' = told /\ disk' = disk
      /\ request_id' = request_id /\ packets' = packets /\ slot' = slot /\ tail' = tail
      /\ todo' = todo /\ misuse' = misuse /\ call' = call
  BY DEF ReadEof, sftpVars, chanVars, serverVars
<1>5. Quiet /\ ChanType' /\ call' \in Call
  BY <1>1, <1>4, NoTraffic DEF TypeInv
<1>6. /\ fd[h] \in File /\ pos[h] \in Int /\ fd' = [fd EXCEPT ![h] = fd[h]]
      /\ pos' = [pos EXCEPT ![h] = pos[h]]
  BY <1>1, <1>4, SameFile
<1>7. Front(fd[h]) = fd[h].offset /\ fd[h].offset \in Int
  BY <1>2, <1>6, NoData, FileFields
<1>8. Sure(use) => pos[h] >= FileLen
  <2>1. Sure(use) => pos[h] = fd[h].offset - Taking(call, h) /\ Front(fd[h]) >= FileLen
    BY <1>1, <1>2 DEF HandleOk, SureOk
  <2> QED
    BY <1>3, <1>7, <2>1
<1>9. HandleOk(use, h, fd[h], pos[h], TRUE, call, misuse)
  BY <1>1, <1>2, <1>8 DEF HandleOk, SureOk
<1>10. OneStep(h, fd[h], pos[h], TRUE)
  <2>1. FileStep(h, fd[h], pos[h], TRUE)
    BY <1>2, <1>3, <1>4, <1>5, <1>6, <1>9 DEF FileStep
  <2> QED
    BY <1>2, <1>4, <1>5, <2>1 DEF OneStep
<1> QED
  BY <1>6, <1>10, QuietStep

LEMMA ReadBeginStep ==
    ASSUME IInv, NEW h \in Handles, NEW size \in use.sizes, ReadBegin(h, size)
    PROVE  IInv'
<1> DEFINE ahead == Least(ReadAhead * size, MaxAhead)
           count == Most(0, ahead - (fd[h].offset_sent - fd[h].offset))
<1>1. TypeInv /\ FilesInv
  BY DEF IInv
<1>2. /\ Reader(use, h) /\ fd[h].close = "idle" /\ call.pc = "out" /\ fd[h].data = <<>>
      /\ call' = [Out EXCEPT !.pc = "rprepare", !.h = h, !.size = size, !.count = count]
  BY DEF ReadBegin, MayCall, Reader
<1>3. call.got = <<>> /\ call.acked = 0 /\ Taking(call, h) = 0 /\ Acking(call, h) = 0
  BY <1>1, <1>2, Idle
<1>4. size \in Nat /\ size >= 1
  BY <1>1, UseTypes DEF TypeInv
<1>5. count \in Nat
  <2>1. fd[h].offset_sent \in Int /\ fd[h].offset \in Int
    BY <1>1, SameFile, FileFields
  <2>2. ReadAhead * size \in Int /\ MaxAhead \in Int
    BY <1>4, ConstTypes
  <2>3. ahead \in Int
    BY <2>2 DEF Least
  <2> HIDE DEF ahead
  <2> QED
    BY <2>1, <2>3 DEF Most
<1> HIDE DEF count
<1>6. /\ call' \in Call /\ call'.pc = "rprepare" /\ call'.h = h /\ call'.got = <<>>
      /\ call'.acked = 0 /\ call'.size = size
  BY <1>2, <1>4, <1>5, OutType DEF Call, Pcs
<1>7. Taking(call', h) = 0 /\ Acking(call', h) = 0
  BY <1>6 DEF Taking, Acking
<1>8. CallOk(use, call', fd[h], pos[h], misuse')
  BY <1>2, <1>4, <1>6 DEF CallOk
<1>9. /\ UNCHANGED <<use, fd, pos, ended, told, disk, request_id, packets, slot, tail, todo>>
      /\ misuse \subseteq misuse'
  BY DEF ReadBegin, Begin, sftpVars, chanVars, serverVars
<1>10. CallOnly(h)
  BY <1>3, <1>6, <1>7, <1>8, <1>9 DEF CallOnly
<1> QED
  BY <1>10, CallStep

LEMMA ReadResumeStep ==
    ASSUME IInv, NEW h \in Handles, NEW size \in use.sizes, ReadResume(h, size)
    PROVE  IInv'
<1> DEFINE pc == IF read_state = "sent" THEN "rsend" ELSE "collect"
<1>1. TypeInv /\ FilesInv
  BY DEF IInv
<1>2. /\ Reader(use, h) /\ fd[h].close = "idle" /\ call.pc = "out"
      /\ call' = [Out EXCEPT !.pc = pc, !.h = h, !.size = size]
  BY DEF ReadResume, MayCall, Reader
<1>3. call.got = <<>> /\ call.acked = 0 /\ Taking(call, h) = 0 /\ Acking(call, h) = 0
  BY <1>1, <1>2, Idle
<1>4. size \in Nat /\ size >= 1
  BY <1>1, UseTypes DEF TypeInv
<1>5. pc \in {"rsend", "collect"}
  OBVIOUS
<1> HIDE DEF pc
<1>6. /\ call' \in Call /\ call'.pc = pc /\ call'.h = h /\ call'.got = <<>>
      /\ call'.acked = 0 /\ call'.size = size
  BY <1>2, <1>4, <1>5, OutType DEF Call, Pcs
<1>7. Taking(call', h) = 0 /\ Acking(call', h) = 0
  BY <1>6 DEF Taking, Acking
<1>8. "leftover" \notin misuse' => fd[h].data = <<>>
  BY DEF ReadResume
<1>9. CallOk(use, call', fd[h], pos[h], misuse')
  BY <1>2, <1>4, <1>5, <1>6, <1>8 DEF CallOk
<1>10. /\ UNCHANGED <<use, fd, pos, ended, told, disk, request_id, packets, slot, tail, todo>>
       /\ misuse \subseteq misuse'
  BY DEF ReadResume, chanVars, serverVars
<1>11. CallOnly(h)
  BY <1>3, <1>6, <1>7, <1>9, <1>10 DEF CallOnly
<1> QED
  BY <1>11, CallStep

LEMMA GrownOk ==
    ASSUME NEW f \in File, NEW c \in Piece, c.rq.off = f.offset_sent, c.rq.len >= 1,
           NEW u, NEW h, NEW p \in Int, NEW e \in BOOLEAN, NEW c1, NEW c2, NEW m,
           HandleOk(u, h, f, p, e, c1, m), f.close = "idle", c.rq.h = h,
           c.rq.kind = IF Reader(u, h) THEN "read" ELSE "write",
           Taking(c2, h) = Taking(c1, h), Acking(c2, h) = Acking(c1, h)
    PROVE  HandleOk(u, h, Grown(f, c), p, e, c2, m)
<1> DEFINE g == Grown(f, c)
<1>1. /\ g \in File /\ g.offset = f.offset /\ g.data = f.data
      /\ g.eof = f.eof /\ g.acked = f.acked /\ g.close = f.close
      /\ Len(g.list) = Len(f.list) + 1
      /\ \A k \in 1..Len(f.list) : g.list[k] = f.list[k]
      /\ g.list[Len(f.list) + 1] = c
  BY GrownIs
<1>2. /\ Exact(f) => Exact(g)
      /\ Jammed(f) => Jammed(g)
      /\ Beyond(f) => Beyond(g)
  BY GrownKeeps
<1>3. Front(g) = Front(f)
  BY <1>1 DEF Front
<1> HIDE DEF g
<1>4. DOMAIN g.list = 1..(Len(f.list) + 1) /\ DOMAIN f.list = 1..Len(f.list) /\ Len(f.list) \in Nat
  BY <1>1, FileFields
<1>5. Own(u, h, g)
  <2>1. Own(u, h, f)
    BY DEF HandleOk, FileOk
  <2>2. ASSUME NEW k \in DOMAIN g.list
        PROVE  /\ g.list[k].rq.h = h /\ g.list[k].rq.len >= 1
               /\ g.list[k].rq.kind = IF Reader(u, h) THEN "read" ELSE "write"
    <3>1. CASE k \in DOMAIN f.list
      BY <1>1, <1>4, <2>1, <3>1 DEF Own
    <3>2. CASE k = Len(f.list) + 1
      BY <1>1, <3>2
    <3> QED
      BY <1>4, <3>1, <3>2
  <2> QED
    BY <2>2 DEF Own
<1>6. FileOk(u, h, g)
  BY <1>1, <1>2, <1>5 DEF HandleOk, FileOk
<1>7. PosOk(u, h, g, p, c2, m)
  BY <1>1, <1>2 DEF HandleOk, PosOk
<1>8. SureOk(u, h, g, p, e, c2, m)
  BY <1>1, <1>2, <1>3 DEF HandleOk, SureOk
<1> QED
  BY <1>6, <1>7, <1>8 DEF HandleOk, g

LEMMA ReadPrepareStep ==
    ASSUME IInv, ReadPrepare
    PROVE  IInv'
<1> DEFINE h == call.h
           f == fd[h]
           len == Least(MaxRead, Most(call.size, call.count))
           r == NewRequest("read", h, f.offset_sent, len, 0)
           c == [rq |-> r, sent |-> 0]
<1>1. /\ TypeInv /\ FilesInv /\ HandleOk(use, h, f, pos[h], ended[h], call, misuse)
      /\ CallOk(use, call, f, pos[h], misuse) /\ call \in Call /\ h \in Handles
  BY DEF IInv, FilesInv, TypeInv, Call
<1>2. call.pc = "rprepare"
  BY DEF ReadPrepare
<1>3. /\ Reader(use, h) /\ f.close = "idle" /\ f.data = <<>> /\ call.got = <<>>
      /\ call.acked = 0 /\ Len(call.got) < call.size
  BY <1>1, <1>2 DEF CallOk
<1>4. /\ call.size \in Nat /\ call.count \in Nat /\ f \in File /\ f.offset_sent \in Int
      /\ pos[h] \in Int /\ ended[h] \in BOOLEAN /\ request_id \in Nat
  BY <1>1, SameFile, FileFields DEF TypeInv, Call
<1>5. UNCHANGED <<use, pos, ended, told, misuse, disk, packets, slot, tail, todo>>
  BY DEF ReadPrepare, toldVars, chanVars, serverVars
<1>6. CASE call.count = 0
  <2>1. call' = [call EXCEPT !.pc = "rsend"] /\ UNCHANGED <<fd, request_id>>
    BY <1>6 DEF ReadPrepare
  <2>2. /\ call' \in Call /\ call'.pc = "rsend" /\ call'.h = h /\ call'.got = <<>>
        /\ call'.acked = 0 /\ call'.size = call.size
    BY <1>1, <1>3, <2>1 DEF Call, Pcs
  <2>3. Taking(call', h) = Taking(call, h) /\ Acking(call', h) = Acking(call, h)
    BY <1>3, <2>2 DEF Taking, Acking
  <2>4. CallOk(use, call', f, pos[h], misuse')
    BY <1>3, <2>2 DEF CallOk
  <2>5. CallOnly(h)
    BY <1>5, <2>1, <2>2, <2>3, <2>4 DEF CallOnly
  <2> QED
    BY <1>1, <2>5, CallStep
<1>7. CASE call.count # 0
  <2>1. /\ fd' = [fd EXCEPT ![h].list = Append(@, c), ![h].offset_sent = @ + len]
        /\ request_id' = request_id + 1
        /\ call' = [call EXCEPT !.count = @ - Least(len, @)]
    BY <1>7 DEF ReadPrepare
  <2>2. len \in Nat /\ len >= 1
    BY <1>4, <1>7, ConstTypes DEF Least, Most
  <2>3. /\ r \in Rq /\ r.id = request_id /\ r.kind = "read" /\ r.h = h
        /\ r.off = f.offset_sent /\ r.len = len
    <3> HIDE DEF len, f, h
    <3> QED
      BY <1>1, <1>4, <2>2 DEF NewRequest, Rq, r
  <2>4. c \in Piece /\ c.rq = r
    <3>1. 0 \in 0..PktLen
      BY ConstTypes
    <3> HIDE DEF r
    <3> QED
      BY <2>3, <3>1 DEF Piece
  <2> HIDE DEF len, r, c
  <2>5. fd' = [fd EXCEPT ![h] = Grown(f, c)]
    BY <1>1, <2>1, <2>3, <2>4 DEF Grown, TypeInv
  <2>6. call.count - Least(len, call.count) \in Nat
    BY <1>4, <2>2 DEF Least
  <2>7. /\ call' \in Call /\ call'.pc = "rprepare" /\ call'.h = h /\ call'.got = <<>>
        /\ call'.acked = 0 /\ call'.size = call.size
    BY <1>1, <1>2, <1>3, <2>1, <2>6 DEF Call
  <2>8. Taking(call', h) = Taking(call, h) /\ Acking(call', h) = Acking(call, h)
    BY <1>3, <2>7 DEF Taking, Acking
  <2>9. HandleOk(use, h, Grown(f, c), pos[h], ended[h], call', misuse)
    BY <1>1, <1>3, <1>4, <2>2, <2>3, <2>4, <2>8, GrownOk
  <2>10. /\ Grown(f, c) \in File /\ Grown(f, c).offset = f.offset
         /\ Grown(f, c).data = <<>> /\ Grown(f, c).close = "idle"
    BY <1>3, <1>4, <2>4, GrownIs
  <2>11. CallOk(use, call', Grown(f, c), pos[h], misuse)
    BY <1>3, <2>7, <2>10 DEF CallOk
  <2>12. AllReqs' \subseteq AllReqs \union {r}
    BY <1>1, <1>5, <2>4, <2>5, ListGrows
  <2>13. ChanType'
    BY <1>1, <1>5 DEF TypeInv, ChanType
  <2>14. GrowStep(h, Grown(f, c), r)
    BY <1>5, <2>1, <2>3, <2>5, <2>7, <2>9, <2>10, <2>11, <2>12, <2>13 DEF GrowStep
  <2> QED
    BY <1>1, <2>3, <2>10, <2>14, RequestStep
<1> QED
  BY <1>6, <1>7

LEMMA ReadSendStep ==
    ASSUME IInv, ReadSend
    PROVE  IInv'
<1>1. call.pc = "rsend" /\ SendStep("collect", call.i = 1)
  BY DEF ReadSend
<1>2. UNCHANGED <<use, pos, ended, told, misuse, disk, request_id, packets>>
  BY DEF ReadSend, toldVars
<1> QED
  BY <1>1, <1>2, SendStepKeeps

\* The call that is collecting, at the end of the list or without an answer:
\* bytes in the buffer are returned, without any the call is over.
LEMMA CollectStops ==
    ASSUME IInv, call.pc = "collect",
           UNCHANGED <<use, fd, pos, ended, told, misuse, disk, request_id, packets, slot, tail,
                       todo>>,
           IF call.got # <<>> THEN call' = [call EXCEPT !.pc = "rdone"] ELSE call' = Out
    PROVE  IInv'
<1> DEFINE h == call.h
<1>1. /\ TypeInv /\ FilesInv /\ CallOk(use, call, fd[h], pos[h], misuse)
      /\ call \in Call /\ h \in Handles
  BY DEF IInv, FilesInv, TypeInv, Call
<1>2. call.acked = 0 /\ Reader(use, h) /\ fd[h].close = "idle"
  BY <1>1 DEF CallOk
<1>3. CASE call.got # <<>>
  <2>1. /\ call' \in Call /\ call'.pc = "rdone" /\ call'.h = h /\ call'.got = call.got
        /\ call'.acked = 0
    BY <1>1, <1>2, <1>3 DEF Call, Pcs
  <2>2. Taking(call', h) = Taking(call, h) /\ Acking(call', h) = Acking(call, h)
    BY <1>2, <2>1 DEF Taking, Acking
  <2>3. CallOk(use, call', fd[h], pos[h], misuse')
    BY <1>1, <1>2, <2>1 DEF CallOk
  <2>4. CallOnly(h)
    BY <2>1, <2>2, <2>3 DEF CallOnly
  <2> QED
    BY <1>1, <2>4, CallStep
<1>4. CASE call.got = <<>>
  <2>1. Taking(Out, h) = Taking(call, h) /\ Acking(Out, h) = Acking(call, h)
    BY <1>1, <1>2, <1>4, Idle
  <2>2. CallOnly(h)
    BY <1>4, <2>1, OutType DEF CallOnly
  <2> QED
    BY <1>1, <2>2, CallStep
<1> QED
  BY <1>3, <1>4

LEMMA CollectEndStep ==
    ASSUME IInv, CollectEnd
    PROVE  IInv'
<1>1. /\ call.pc = "collect"
      /\ UNCHANGED <<use, fd, pos, ended, told, misuse, disk, request_id, packets, slot, tail,
                     todo>>
      /\ IF call.got # <<>> THEN call' = [call EXCEPT !.pc = "rdone"] ELSE call' = Out
  BY DEF CollectEnd, sftpVars, chanVars, serverVars
<1> QED
  BY <1>1, CollectStops

LEMMA CollectWaitStep ==
    ASSUME IInv, CollectWait
    PROVE  IInv'
<1>1. /\ call.pc = "collect"
      /\ UNCHANGED <<use, fd, pos, ended, told, misuse, disk, request_id, packets, slot, tail,
                     todo>>
      /\ IF call.got # <<>> THEN call' = [call EXCEPT !.pc = "rdone"] ELSE call' = Out
  BY DEF CollectWait, fileVars, toldVars, chanVars, serverVars
<1> QED
  BY <1>1, CollectStops

LEMMA ReadDoneStep ==
    ASSUME IInv, ReadDone
    PROVE  IInv'
<1> DEFINE h == call.h
           f == fd[h]
           p == pos[h] + Len(call.got)
<1>1. /\ TypeInv /\ FilesInv /\ CallOk(use, call, f, pos[h], misuse)
      /\ HandleOk(use, h, f, pos[h], ended[h], call, misuse) /\ call \in Call /\ h \in Handles
  BY DEF IInv, FilesInv, TypeInv, Call
<1>2. Reader(use, h)
  BY <1>1 DEF CallOk, ReadDone
<1>3. /\ pos[h] \in Int /\ Len(call.got) \in Nat /\ p \in Int /\ p >= pos[h]
      /\ ended[h] \in BOOLEAN /\ f \in File /\ f.offset \in Int /\ FileLen \in Nat
      /\ fd = [fd EXCEPT ![h] = f] /\ ended = [ended EXCEPT ![h] = ended[h]]
  <2>1. /\ pos[h] \in Int /\ ended[h] \in BOOLEAN /\ f \in File
        /\ fd = [fd EXCEPT ![h] = f] /\ ended = [ended EXCEPT ![h] = ended[h]]
    BY <1>1, SameFile
  <2>2. Len(call.got) \in Nat
    BY <1>1 DEF Call
  <2>3. p \in Int /\ p >= pos[h]
    BY <2>1, <2>2
  <2> HIDE DEF f
  <2>4. f.offset \in Int
    BY <2>1, FileFields
  <2> QED BY <2>1, <2>2, <2>3, <2>4, ConstTypes
<1>4. Taking(call, h) = Len(call.got) /\ Taking(Out, h) = 0
  BY <1>1, Idle DEF Taking
<1>5. pos[h] = f.offset - Taking(call, h) => p = f.offset - Taking(Out, h)
  BY <1>3, <1>4
<1>6. pos[h] >= FileLen => p >= FileLen
  BY <1>3
<1>7. /\ pos' = [pos EXCEPT ![h] = p] /\ call' = Out
      /\ UNCHANGED <<use, fd, ended, told, misuse, disk, request_id, packets, slot, tail, todo>>
  BY <1>1 DEF ReadDone, sftpVars, chanVars, serverVars, TypeInv
<1> HIDE DEF p, f
<1>8. HandleOk(use, h, f, p, ended[h], Out, misuse)
  BY <1>1, <1>2, <1>5, <1>6 DEF HandleOk, PosOk, SureOk
<1>9. Quiet /\ ChanType'
  BY <1>1, <1>7, NoTraffic
<1>10. OneStep(h, f, p, ended[h])
  <2>1. FileStep(h, f, p, ended[h])
    BY <1>3, <1>7, <1>8, OutType DEF FileStep
  <2> QED
    BY <1>2, <1>7, <1>9, <2>1 DEF OneStep
<1> QED
  BY <1>1, <1>3, <1>10, QuietStep

\* The answer a that is taken is one to the first request of the list.
LEMMA FirstAnswer ==
    ASSUME IInv, Waiting, call.pc \in {"collect", "ack"}, NEW a \in packets, Fits(a)
    PROVE  LET f == fd[call.h]
               r == f.list[1].rq
           IN  /\ f.list # <<>> /\ r \in AllReqs /\ a \in Reply /\ a.id = r.id
               /\ Fit(use, a, r) /\ r.len \in Nat /\ r.len >= 1 /\ r.off \in Int /\ r.h = call.h
               /\ r.kind = IF Reader(use, call.h) THEN "read" ELSE "write"
               /\ Nonempty(f.list)
<1> DEFINE h == call.h
           f == fd[h]
           r == f.list[1].rq
<1>1. TypeInv /\ FilesInv /\ h \in Handles /\ f \in File /\ Own(use, h, f)
  BY SameFile DEF IInv, TypeInv, Call, FilesInv, HandleOk, FileOk
<1>2. f.list # <<>> /\ a.id = r.id
  BY DEF Waiting, Fits, WaitedId, FirstChunk
<1>3. 1 \in DOMAIN f.list /\ r.len \in Nat /\ r.off \in Int
  BY <1>1, <1>2, FileFields
<1>4. r.h = h /\ r.len >= 1 /\ r.kind = IF Reader(use, h) THEN "read" ELSE "write"
  BY <1>1, <1>3 DEF Own
<1>5. r \in AllReqs
  <2>1. r \in InList(f.list)
    BY <1>3 DEF InList
  <2> QED
    BY <1>1, <2>1 DEF AllReqs, Reqs, Listed
<1>6. Fit(use, a, r)
  BY <1>2, <1>5 DEF IInv, IdInv, IdOk
<1>7. Nonempty(f.list)
  BY <1>1 DEF Own, Nonempty
<1>8. a \in Reply
  BY <1>1 DEF TypeInv
<1> QED
  BY <1>2, <1>3, <1>4, <1>5, <1>6, <1>7, <1>8

LEMMA CollectStatusStep ==
    ASSUME IInv, CollectStatus
    PROVE  IInv'
<1> DEFINE h == call.h
           f == fd[h]
           r == f.list[1].rq
<1>1. /\ TypeInv /\ FilesInv /\ CallOk(use, call, f, pos[h], misuse)
      /\ HandleOk(use, h, f, pos[h], ended[h], call, misuse) /\ call \in Call /\ h \in Handles
  BY DEF IInv, FilesInv, TypeInv, Call
<1>2. call.pc = "collect" /\ Waiting
  BY DEF CollectStatus
<1>3. /\ Reader(use, h) /\ f.close = "idle" /\ call.acked = 0
      /\ call.got # <<>> => f.data = <<>>
      /\ "leftover" \notin misuse => f.data = <<>>
  BY <1>1, <1>2 DEF CallOk
<1>4. PICK a \in packets :
        /\ Fits(a) /\ a.type # "data"
        /\ Flush(Tail(f.list), packets \ {a})
        /\ fd' = [fd EXCEPT ![h].list = <<>>, ![h].eof = @ \/ a.type = "eof"]
        /\ IF a.type = "eof"
           THEN /\ call' = [call EXCEPT !.pc = "rdone"]
                /\ ended' = [ended EXCEPT ![h] = @ \/ call.got = <<>>]
           ELSE call' = Out /\ UNCHANGED ended
  BY DEF CollectStatus
<1> DEFINE b == a.type = "eof"
           g == Stopped(f, b)
           e == ended[h] \/ (b /\ call.got = <<>>)
<1>5. /\ f.list # <<>> /\ Fit(use, a, r) /\ r.len \in Nat /\ r.len >= 1 /\ r.off \in Int
      /\ r.kind = "read" /\ a \in Reply
  BY <1>2, <1>3, <1>4, FirstAnswer
<1>6. /\ f \in File /\ pos[h] \in Int /\ ended[h] \in BOOLEAN /\ Front(f) \in Int
      /\ f.offset \in Int /\ f.offset_sent \in Int /\ FileLen \in Nat /\ 1 \in DOMAIN f.list
      /\ pos = [pos EXCEPT ![h] = pos[h]]
  <2>1. /\ f \in File /\ pos[h] \in Int /\ ended[h] \in BOOLEAN
        /\ pos = [pos EXCEPT ![h] = pos[h]]
    BY <1>1, SameFile
  <2>2. f.list # <<>>
    BY <1>5
  <2> HIDE DEF f
  <2>3. /\ Front(f) \in Int /\ f.offset \in Int /\ f.offset_sent \in Int
        /\ Len(f.list) \in Nat /\ Len(f.list) # 0 /\ DOMAIN f.list = 1..Len(f.list)
    BY <2>1, <2>2, FileFields
  <2>4. 1 \in DOMAIN f.list
    BY <2>3
  <2> QED BY <2>1, <2>3, <2>4, ConstTypes
<1>7. fd' = [fd EXCEPT ![h] = g] /\ ended' = [ended EXCEPT ![h] = e]
  BY <1>1, <1>4 DEF Stopped, TypeInv
<1>8. /\ UNCHANGED <<use, pos, told, misuse, disk, request_id, slot, tail, todo>>
      /\ packets' \subseteq packets
  BY <1>4, FlushIs DEF CollectStatus, chanVars, serverVars
<1>9. b \in BOOLEAN /\ e \in BOOLEAN
  BY <1>6
<1>10. /\ g \in File /\ g.offset = f.offset /\ g.offset_sent = f.offset_sent
       /\ g.data = f.data /\ g.list = <<>> /\ g.eof = (f.eof \/ b)
       /\ g.acked = f.acked /\ g.close = f.close /\ g.close_id = f.close_id
       /\ Front(g) = Front(f)
  BY <1>6, <1>9, StoppedIs
<1>11. Exact(f) => r.off = Front(f) /\ r.off + r.len <= f.offset_sent
  BY <1>5, <1>6 DEF Exact
<1>12. DOMAIN g.list = {}
  BY <1>10
<1> HIDE DEF g, e, r, f
<1>13. Jammed(g)
  <2>1. Exact(f) \/ Jammed(f)
    BY <1>1, <1>3 DEF HandleOk, FileOk
  <2>2. f.offset_sent > Front(f)
    <3>1. CASE Exact(f)
      BY <1>5, <1>6, <1>11, <3>1
    <3>2. CASE Jammed(f)
      BY <3>2 DEF Jammed
    <3> QED
      BY <2>1, <3>1, <3>2
  <2> QED
    BY <1>10, <2>2 DEF Jammed
<1>14. FileOk(use, h, g)
  BY <1>1, <1>3, <1>10, <1>12, <1>13 DEF HandleOk, FileOk, Own
<1>15. /\ call' \in Call /\ (call'.h = h \/ (call'.got = <<>> /\ call'.acked = 0))
       /\ b => /\ call'.pc = "rdone" /\ call'.h = h /\ call'.got = call.got /\ call'.acked = 0
               /\ Taking(call', h) = Taking(call, h)
       /\ ~b => call' = Out
  <2>1. CASE b
    <3>1. /\ call' \in Call /\ call'.pc = "rdone" /\ call'.h = h /\ call'.got = call.got
          /\ call'.acked = 0
      BY <1>1, <1>3, <1>4, <2>1 DEF Call, Pcs
    <3> QED
      BY <2>1, <3>1 DEF Taking
  <2>2. CASE ~b
    BY <1>4, <2>2, OutType
  <2> QED
    BY <2>1, <2>2
<1>16. PosOk(use, h, g, pos[h], call', misuse)
  <2>1. CASE b
    BY <1>1, <1>3, <1>10, <1>13, <1>15, <2>1 DEF HandleOk, PosOk
  <2>2. CASE ~b /\ call.got # <<>>
    BY <1>3, <1>10, <1>13, <2>2 DEF PosOk
  <2>3. CASE ~b /\ call.got = <<>>
    <3>1. Taking(call', h) = Taking(call, h)
      BY <1>1, <1>15, <2>3, Idle
    <3> QED
      BY <1>1, <1>3, <1>10, <1>13, <3>1 DEF HandleOk, PosOk
  <2> QED
    BY <2>1, <2>2, <2>3
<1>17. SureOk(use, h, g, pos[h], e, call', misuse)
  <2> SUFFICES ASSUME Sure(use)
               PROVE  /\ pos[h] = g.offset - Taking(call', h)
                      /\ Beyond(g) /\ Front(g) >= FileLen
                      /\ e /\ "leftover" \notin misuse => pos[h] >= FileLen
    BY <1>3 DEF SureOk
  <2>1. b /\ r.off >= FileLen
    BY <1>4, <1>5 DEF Fit, Sure, Reply
  <2>2. /\ pos[h] = f.offset - Taking(call, h)
        /\ Exact(f) \/ Beyond(f)
        /\ ended[h] /\ "leftover" \notin misuse => pos[h] >= FileLen
    BY <1>1, <1>3 DEF HandleOk, SureOk
  <2>3. Front(f) >= FileLen
    BY <1>11, <2>1, <2>2 DEF Beyond
  <2>4. Beyond(g) /\ Front(g) >= FileLen
    <3>1. g.offset_sent >= FileLen
      BY <1>6, <1>10, <1>13, <2>3 DEF Jammed
    <3> QED
      BY <1>10, <1>12, <2>3, <3>1 DEF Beyond
  <2>5. call.got = <<>> /\ "leftover" \notin misuse => pos[h] >= FileLen
    <3> SUFFICES ASSUME call.got = <<>>, "leftover" \notin misuse PROVE pos[h] >= FileLen
      OBVIOUS
    <3>1. Front(f) = f.offset /\ Taking(call, h) = 0
      BY <1>1, <1>3, <1>6, NoData, Idle
    <3> QED
      BY <1>6, <2>2, <2>3, <3>1
  <2> QED
    BY <1>10, <1>15, <2>1, <2>2, <2>4, <2>5 DEF e
<1>18. HandleOk(use, h, g, pos[h], e, call', misuse)
  BY <1>14, <1>16, <1>17 DEF HandleOk
<1>19. call' = Out \/ (call'.h = h /\ CallOk(use, call', g, pos[h], misuse))
  BY <1>1, <1>3, <1>10, <1>15 DEF CallOk
<1>20. ChanType' /\ Moving(slot', tail', todo') \subseteq AllReqs
  BY <1>1, <1>8 DEF TypeInv, ChanType, AllReqs, Reqs
<1>21. AllReqs' \subseteq AllReqs
  <2>1. InList(g.list) \subseteq InList(f.list)
    BY <1>12 DEF InList
  <2> QED
    BY <1>1, <1>7, <1>10, <1>20, <2>1, ReqsKept DEF f
<1>22. Quiet
  BY <1>8, <1>21 DEF Quiet
<1>23. OneStep(h, g, pos[h], e)
  <2>1. FileStep(h, g, pos[h], e)
    BY <1>6, <1>7, <1>8, <1>15, <1>18, <1>19 DEF FileStep
  <2> QED
    BY <1>3, <1>8, <1>20, <1>22, <2>1 DEF OneStep
<1> QED
  BY <1>1, <1>6, <1>9, <1>10, <1>23, QuietStep

LEMMA CollectDataStep ==
    ASSUME IInv, CollectData
    PROVE  IInv'
<1> DEFINE h == call.h
           f == fd[h]
           r == f.list[1].rq
<1>1. /\ TypeInv /\ FilesInv /\ CallOk(use, call, f, pos[h], misuse)
      /\ HandleOk(use, h, f, pos[h], ended[h], call, misuse) /\ call \in Call /\ h \in Handles
  BY DEF IInv, FilesInv, TypeInv, Call
<1>2. call.pc = "collect" /\ Waiting
  BY DEF CollectData
<1>3. /\ Reader(use, h) /\ f.close = "idle" /\ call.acked = 0 /\ Len(call.got) < call.size
      /\ call.got # <<>> => f.data = <<>>
  BY <1>1, <1>2 DEF CallOk
<1>4. PICK a \in packets :
        /\ Fits(a) /\ a.type = "data" /\ packets' = packets \ {a}
        /\ LET n == Least(a.n, call.size - Len(call.got))
               got == call.got \o Run(a.off, n)
           IN  IF r.off # f.offset
               THEN call' = Out /\ UNCHANGED fd
               ELSE /\ fd' = [fd EXCEPT
                                ![h].offset = @ + n,
                                ![h].offset_sent = @ - (r.len - a.n),
                                ![h].data = Run(a.off + n, a.n - n),
                                ![h].list = Tail(@)]
                    /\ call' = [call EXCEPT
                                  !.got = got,
                                  !.pc = IF Len(got) < call.size THEN @ ELSE "rdone"]
  BY DEF CollectData, FirstChunk
<1>5. /\ f.list # <<>> /\ Fit(use, a, r) /\ r.len \in Nat /\ r.len >= 1 /\ r.off \in Int
      /\ a \in Reply /\ Nonempty(f.list)
  BY <1>2, <1>4, FirstAnswer
<1>6. /\ a.off = r.off /\ a.n <= r.len /\ a.n >= 1 /\ a.n \in Nat /\ r.off < FileLen
      /\ ~use.short => a.n = r.len \/ a.n = FileLen - r.off
  BY <1>4, <1>5 DEF Fit, Reply
<1>7. /\ f \in File /\ pos[h] \in Int /\ ended[h] \in BOOLEAN /\ Front(f) \in Int
      /\ f.offset \in Int /\ f.offset_sent \in Int /\ FileLen \in Nat /\ 1 \in DOMAIN f.list
      /\ Len(f.data) \in Nat /\ (f.data = <<>> <=> Len(f.data) = 0)
      /\ fd = [fd EXCEPT ![h] = f]
      /\ pos = [pos EXCEPT ![h] = pos[h]] /\ ended = [ended EXCEPT ![h] = ended[h]]
  <2>1. /\ f \in File /\ pos[h] \in Int /\ ended[h] \in BOOLEAN /\ fd = [fd EXCEPT ![h] = f]
        /\ pos = [pos EXCEPT ![h] = pos[h]] /\ ended = [ended EXCEPT ![h] = ended[h]]
    BY <1>1, SameFile
  <2>2. f.list # <<>>
    BY <1>5
  <2> HIDE DEF f
  <2>3. /\ Front(f) \in Int /\ f.offset \in Int /\ f.offset_sent \in Int
        /\ Len(f.list) \in Nat /\ Len(f.list) # 0 /\ DOMAIN f.list = 1..Len(f.list)
        /\ Len(f.data) \in Nat /\ (f.data = <<>> <=> Len(f.data) = 0)
    BY <2>1, <2>2, FileFields
  <2>4. 1 \in DOMAIN f.list
    BY <2>3
  <2> QED BY <2>1, <2>3, <2>4, ConstTypes
<1>8. /\ UNCHANGED <<use, pos, ended, told, misuse, disk, request_id, slot, tail, todo>>
      /\ packets' \subseteq packets
  BY <1>4 DEF CollectData, toldVars, chanVars, serverVars
<1>9. Exact(f) \/ Jammed(f)
  BY <1>1, <1>3 DEF HandleOk, FileOk
<1>10. Exact(f) => r.off = Front(f)
  BY <1>5 DEF Exact
<1>11. Jammed(f) => r.off > Front(f)
  BY <1>5 DEF Jammed
<1>12. Front(f) = f.offset + Len(f.data)
  BY DEF Front
<1>13. ~Beyond(f)
  <2>1. Beyond(f) => r.off >= FileLen
    BY <1>7 DEF Beyond
  <2> HIDE DEF r
  <2> QED
    BY <1>5, <1>6, <1>7, <2>1
<1>14. CASE r.off # f.offset
  <2>1. call' = Out /\ fd' = fd
    BY <1>4, <1>14
  <2>2. call.got # <<>> => Jammed(f) /\ f.data = <<>>
    BY <1>3, <1>7, <1>9, <1>10, <1>12, <1>14
  <2>3. call.got = <<>> => Taking(Out, h) = Taking(call, h)
    BY <1>1, Idle
  <2>4. PosOk(use, h, f, pos[h], Out, misuse)
    BY <1>1, <1>3, <2>2, <2>3 DEF HandleOk, PosOk
  <2>5. SureOk(use, h, f, pos[h], ended[h], Out, misuse)
    <3> SUFFICES ASSUME Sure(use) PROVE Taking(Out, h) = Taking(call, h)
      BY <1>1, <1>3 DEF HandleOk, SureOk
    <3>1. Exact(f)
      BY <1>1, <1>3, <1>13 DEF HandleOk, SureOk
    <3>2. f.data # <<>>
      BY <1>7, <1>10, <1>12, <1>14, <3>1
    <3> QED
      BY <1>3, <2>3, <3>2
  <2>6. HandleOk(use, h, f, pos[h], ended[h], Out, misuse)
    BY <1>1, <2>4, <2>5 DEF HandleOk
  <2>7. Quiet /\ ChanType'
    BY <1>1, <1>8, <2>1, NoTraffic
  <2>8. OneStep(h, f, pos[h], ended[h])
    <3>1. FileStep(h, f, pos[h], ended[h])
      BY <1>7, <1>8, <2>1, <2>6, OutType DEF FileStep
    <3> QED
      BY <1>3, <1>8, <2>7, <3>1 DEF OneStep
  <2> QED
    BY <1>1, <1>7, <2>8, QuietStep
<1>15. CASE r.off = f.offset
  <2> DEFINE n == Least(a.n, call.size - Len(call.got))
             got == call.got \o Run(a.off, n)
             g == Served(f, n, a)
  <2>1. Exact(f) /\ f.data = <<>> /\ Front(f) = f.offset /\ ~Jammed(f)
    BY <1>7, <1>9, <1>10, <1>11, <1>12, <1>15
  <2>2. /\ call.got \in Seq(Int) /\ Len(call.got) \in Nat /\ call.size \in Nat
    BY <1>1 DEF Call
  <2>3. n \in Nat /\ n <= a.n /\ (n = a.n \/ n = call.size - Len(call.got))
    BY <1>3, <1>6, <2>2 DEF Least
  <2>4. /\ fd' = [fd EXCEPT ![h] = g]
    BY <1>1, <1>4, <1>15 DEF Served, TypeInv
  <2>5. call' = [call EXCEPT !.got = got, !.pc = IF Len(got) < call.size THEN @ ELSE "rdone"]
    BY <1>4, <1>15
  <2> HIDE DEF n
  <2>6. /\ g \in File /\ g.offset = f.offset + n
        /\ g.offset_sent = f.offset_sent - (r.len - a.n)
        /\ g.data = Run(a.off + n, a.n - n) /\ Len(g.data) = a.n - n
        /\ g.list = Tail(f.list) /\ g.eof = f.eof /\ g.acked = f.acked
        /\ g.close = f.close /\ g.close_id = f.close_id
    <3>1. f \in File /\ f.list # <<>> /\ a \in Reply /\ n \in Nat /\ n <= a.n
      BY <1>5, <1>7, <2>3
    <3> HIDE DEF f
    <3> QED
      BY <3>1, ServedIs
  <2>7. /\ Run(a.off, n) \in Seq(Int) /\ Len(Run(a.off, n)) = n
        /\ \A k \in 1..n : Run(a.off, n)[k] = a.off + (k - 1)
    BY <1>5, <1>6, <2>3, RunIs
  <2>8. /\ got \in Seq(Int) /\ Len(got) = Len(call.got) + n /\ DOMAIN got = 1..Len(got)
        /\ \A k \in 1..Len(call.got) : got[k] = call.got[k]
        /\ \A k \in 1..n : got[Len(call.got) + k] = Run(a.off, n)[k]
    <3> DEFINE s == Run(a.off, n)
    <3>1. s \in Seq(Int) /\ Len(s) = n
      BY <2>7
    <3> HIDE DEF s
    <3>2. /\ call.got \o s \in Seq(Int) /\ Len(call.got \o s) = Len(call.got) + n
          /\ DOMAIN (call.got \o s) = 1..(Len(call.got) + n)
          /\ \A k \in 1..Len(call.got) : (call.got \o s)[k] = call.got[k]
          /\ \A k \in 1..n : (call.got \o s)[Len(call.got) + k] = s[k]
      BY <2>2, <2>3, <3>1, ConcatIs
    <3> QED
      BY <3>2 DEF s
  <2> HIDE DEF got, g
  <2>9. /\ call' \in Call /\ call'.h = h /\ call'.got = got /\ call'.acked = 0
        /\ call'.size = call.size /\ call'.pc \in {"collect", "rdone"}
        /\ call'.pc = "collect" => Len(got) < call.size
    <3>1. (IF Len(got) < call.size THEN call.pc ELSE "rdone") \in {"collect", "rdone"}
      BY <1>2
    <3> QED
      BY <1>1, <1>2, <1>3, <2>5, <2>8, <3>1 DEF Call, Pcs
  <2>10. Taking(call, h) = Len(call.got) /\ Taking(call', h) = Len(call.got) + n
    BY <2>8, <2>9 DEF Taking
  <2>11. pos[h] = f.offset - Len(call.got)
    BY <1>1, <1>3, <2>1, <2>10 DEF HandleOk, PosOk
  <2>12. Front(g) = r.off + a.n
    <3>1. /\ g.offset = f.offset + n /\ Len(g.data) = a.n - n
          /\ f.offset \in Int /\ n \in Nat /\ a.n \in Nat
      BY <1>6, <1>7, <2>3, <2>6
    <3>2. g.offset + Len(g.data) = f.offset + a.n
      BY <3>1
    <3> QED
      BY <1>15, <3>2 DEF Front
  <2>13. Exact(g) \/ (Jammed(g) /\ (Front(g) >= FileLen => Beyond(g)))
    BY <1>5, <1>6, <1>7, <2>1, <2>6, <2>12, Shifted
  <2>14. a.n = r.len => Exact(g)
    BY <1>5, <1>6, <1>7, <2>1, <2>6, <2>12, Shifted
  <2>15. pos[h] = g.offset - Taking(call', h)
    BY <1>7, <2>2, <2>3, <2>6, <2>10, <2>11
  <2>16. Own(use, h, g)
    <3>1. Own(use, h, f)
      BY <1>1 DEF HandleOk, FileOk
    <3>2. /\ Len(f.list) \in Nat /\ DOMAIN g.list = 1..(Len(f.list) - 1)
          /\ DOMAIN f.list = 1..Len(f.list)
          /\ \A k \in 1..(Len(f.list) - 1) : g.list[k] = f.list[k + 1]
      BY <1>5, <1>7, <2>6, TailIs, FileFields
    <3>3. \A k \in DOMAIN g.list : k + 1 \in DOMAIN f.list
      BY <3>2
    <3> QED
      BY <3>1, <3>2, <3>3 DEF Own
  <2>17. \A k \in DOMAIN g.data : g.data[k] = g.offset + (k - 1)
    <3>1. a.off + n \in Int /\ a.n - n \in Nat
      BY <1>5, <1>6, <2>3
    <3>2. /\ DOMAIN g.data = 1..(a.n - n)
          /\ \A k \in 1..(a.n - n) : g.data[k] = (a.off + n) + (k - 1)
      BY <2>6, <3>1, RunIs
    <3>3. a.off + n = g.offset
      BY <1>6, <1>15, <2>6
    <3> QED
      BY <3>2, <3>3
  <2>18. FileOk(use, h, g)
    BY <1>1, <1>3, <2>6, <2>13, <2>16, <2>17 DEF HandleOk, FileOk
  <2>19. PosOk(use, h, g, pos[h], call', misuse)
    BY <1>3, <2>15 DEF PosOk
  <2>20. SureOk(use, h, g, pos[h], ended[h], call', misuse)
    <3> SUFFICES ASSUME Sure(use)
                 PROVE  (Exact(g) \/ Beyond(g)) /\ (g.eof => Front(g) >= FileLen)
      BY <1>1, <1>3, <2>15 DEF HandleOk, SureOk
    <3>1. a.n = r.len \/ Front(g) = FileLen
      <4> DEFINE from == r.off
      <4>1. /\ a.n = r.len \/ a.n = FileLen - from
            /\ from \in Int /\ FileLen \in Int /\ a.n \in Int /\ Front(g) = from + a.n
        BY <1>5, <1>6, <1>7, <2>12 DEF Sure
      <4> HIDE DEF from, r, f
      <4> QED
        BY <4>1
    <3>2. Exact(g) \/ Beyond(g)
      BY <1>7, <2>13, <2>14, <3>1
    <3>3. g.eof => Front(f) >= FileLen
      BY <1>1, <1>3, <2>6 DEF HandleOk, SureOk
    <3> DEFINE before == Front(f)
               after == Front(g)
    <3>4. before \in Int /\ a.n \in Nat /\ after = before + a.n /\ FileLen \in Nat
      BY <1>6, <1>7, <1>15, <2>1, <2>12
    <3>5. g.eof => before >= FileLen
      BY <3>3
    <3> HIDE DEF before, after
    <3>6. g.eof => after >= FileLen
      BY <3>4, <3>5
    <3> QED
      BY <3>2, <3>6 DEF after
  <2>21. HandleOk(use, h, g, pos[h], ended[h], call', misuse)
    BY <2>18, <2>19, <2>20 DEF HandleOk
  <2>22. CallOk(use, call', g, pos[h], misuse)
    <3>1. \A k \in 1..Len(call.got) : call.got[k] = pos[h] + (k - 1)
      BY <1>1, <2>2 DEF CallOk
    <3>2. ASSUME NEW k \in DOMAIN got PROVE got[k] = pos[h] + (k - 1)
      <4>1. CASE k \in 1..Len(call.got)
        BY <2>8, <3>1, <4>1
      <4>2. CASE k > Len(call.got)
        <5> DEFINE j == k - Len(call.got)
        <5>1. j \in 1..n /\ k = Len(call.got) + j /\ k \in Int
          BY <2>2, <2>3, <2>8, <4>2
        <5> HIDE DEF j
        <5>2. got[k] = f.offset + (j - 1)
          BY <1>6, <1>15, <2>7, <2>8, <5>1
        <5> DEFINE at == f.offset
                   len == Len(call.got)
        <5>3. /\ at \in Int /\ len \in Int /\ j \in Int /\ pos[h] = at - len
              /\ k = len + j /\ got[k] = at + (j - 1)
          BY <1>7, <2>2, <2>11, <5>1, <5>2
        <5> HIDE DEF at, len
        <5> QED
          BY <5>3
      <4> QED
        BY <2>2, <2>8, <4>1, <4>2
    <3>3. call'.pc = "collect" => g.data = <<>>
      <4> SUFFICES ASSUME call'.pc = "collect" PROVE g.data = <<>>
        OBVIOUS
      <4>1. Len(call.got) + n < call.size
        BY <2>8, <2>9
      <4>2. n = a.n
        BY <2>2, <2>3, <4>1
      <4>3. Len(g.data) = 0
        BY <1>6, <2>6, <4>2
      <4> QED
        BY <2>6, <4>3, FileFields
    <3> QED
      BY <1>3, <2>6, <2>9, <3>2, <3>3 DEF CallOk
  <2>23. ChanType' /\ Moving(slot', tail', todo') \subseteq AllReqs
    BY <1>1, <1>8 DEF TypeInv, ChanType, AllReqs, Reqs
  <2>24. AllReqs' \subseteq AllReqs
    <3>1. InList(g.list) \subseteq InList(f.list)
      BY <1>5, <1>7, <2>6, TailIs
    <3> QED
      BY <1>1, <2>4, <2>6, <2>23, <3>1, ReqsKept
  <2>25. Quiet
    BY <1>8, <2>24 DEF Quiet
  <2>26. OneStep(h, g, pos[h], ended[h])
    <3>1. FileStep(h, g, pos[h], ended[h])
      BY <1>7, <1>8, <2>4, <2>9, <2>21, <2>22 DEF FileStep
    <3> QED
      BY <1>3, <1>8, <2>23, <2>25, <3>1 DEF OneStep
  <2> QED
    BY <1>1, <1>7, <2>6, <2>26, QuietStep
<1> QED
  BY <1>14, <1>15

-------------------------------------------------------------------------------
(* The steps of write. *)

LEMMA WriteBeginStep ==
    ASSUME IInv, Pure(use), NEW h \in Handles, NEW size \in use.sizes, WriteBegin(h, size)
    PROVE  IInv'
<1> DEFINE f == fd[h]
           pc == IF write_state = "sent" THEN "ack" ELSE "wpack"
           count == Most(0, size - Already(h))
           val == pos[h] + Already(h)
<1>1. TypeInv /\ FilesInv /\ HandleOk(use, h, f, pos[h], ended[h], call, misuse)
  BY DEF IInv, FilesInv
<1>2. /\ ~Reader(use, h) /\ f.close = "idle" /\ call.pc = "out"
      /\ call' = [Out EXCEPT !.pc = pc, !.h = h, !.size = size, !.count = count, !.val = val]
  BY DEF WriteBegin, MayCall, Pure
<1>3. call.got = <<>> /\ call.acked = 0 /\ Taking(call, h) = 0 /\ Acking(call, h) = 0
  BY <1>1, <1>2, Idle
<1>4. /\ size \in Nat /\ f.offset \in Int /\ f.offset_sent \in Int /\ f.acked \in Nat
      /\ pos[h] \in Int
  BY <1>1, UseTypes, SameFile, FileFields DEF TypeInv
<1>5. Already(h) \in Int /\ Already(h) = (f.offset_sent - f.offset) + f.acked
  BY <1>4 DEF Already
<1>6. count \in Nat /\ val \in Int /\ pc \in {"ack", "wpack"}
  BY <1>4, <1>5 DEF Most
<1>7. /\ UNCHANGED <<use, fd, pos, ended, told, disk, request_id, packets, slot, tail, todo>>
      /\ misuse \subseteq misuse'
  BY DEF WriteBegin, Begin, chanVars, serverVars
<1>8. "owing" \notin misuse' => val = f.offset_sent
  <2> SUFFICES ASSUME "owing" \notin misuse' PROVE val = f.offset_sent
    OBVIOUS
  <2>1. pos[h] = (f.offset - f.acked) - Acking(call, h)
    BY <1>1, <1>2, <1>7 DEF HandleOk, PosOk
  <2> QED
    BY <1>3, <1>4, <1>5, <2>1
<1> HIDE DEF pc, count, val
<1>9. /\ call' \in Call /\ call'.pc = pc /\ call'.h = h /\ call'.got = <<>>
      /\ call'.acked = 0 /\ call'.val = val
  BY <1>2, <1>4, <1>6, OutType DEF Call, Pcs
<1>10. Taking(call', h) = 0 /\ Acking(call', h) = 0
  BY <1>9 DEF Taking, Acking
<1>11. CallOk(use, call', fd[h], pos[h], misuse')
  BY <1>2, <1>6, <1>8, <1>9 DEF CallOk
<1>12. CallOnly(h)
  BY <1>3, <1>7, <1>9, <1>10, <1>11 DEF CallOnly
<1> QED
  BY <1>12, CallStep

LEMMA WritePackStep ==
    ASSUME IInv, WritePack
    PROVE  IInv'
<1> DEFINE h == call.h
           f == fd[h]
           len == Least(MaxWrite, call.count)
           r == NewRequest("write", h, f.offset_sent, len, call.val)
           c == [rq |-> r, sent |-> 0]
<1>1. /\ TypeInv /\ FilesInv /\ HandleOk(use, h, f, pos[h], ended[h], call, misuse)
      /\ CallOk(use, call, f, pos[h], misuse) /\ call \in Call /\ h \in Handles
  BY DEF IInv, FilesInv, TypeInv, Call
<1>2. call.pc = "wpack"
  BY DEF WritePack
<1>3. /\ ~Reader(use, h) /\ f.close = "idle" /\ call.got = <<>> /\ call.acked = 0
      /\ "owing" \notin misuse => call.val = f.offset_sent
  BY <1>1, <1>2 DEF CallOk
<1>4. /\ call.count \in Nat /\ call.val \in Int /\ f \in File /\ f.offset_sent \in Int
      /\ pos[h] \in Int /\ ended[h] \in BOOLEAN /\ request_id \in Nat
  BY <1>1, SameFile, FileFields DEF TypeInv, Call
<1>5. UNCHANGED <<use, pos, ended, told, misuse, disk, packets, slot, tail, todo>>
  BY DEF WritePack, toldVars, chanVars, serverVars
<1>6. CASE call.count = 0
  <2>1. call' = [call EXCEPT !.pc = "wsend"] /\ UNCHANGED <<fd, request_id>>
    BY <1>6 DEF WritePack
  <2>2. /\ call' \in Call /\ call'.pc = "wsend" /\ call'.h = h /\ call'.got = <<>>
        /\ call'.acked = 0
    BY <1>1, <1>3, <2>1 DEF Call, Pcs
  <2>3. Taking(call', h) = Taking(call, h) /\ Acking(call', h) = Acking(call, h)
    BY <1>3, <2>2 DEF Taking, Acking
  <2>4. CallOk(use, call', f, pos[h], misuse')
    BY <1>3, <2>2 DEF CallOk
  <2>5. CallOnly(h)
    BY <1>5, <2>1, <2>2, <2>3, <2>4 DEF CallOnly
  <2> QED
    BY <1>1, <2>5, CallStep
<1>7. CASE call.count # 0
  <2>1. /\ fd' = [fd EXCEPT ![h].list = Append(@, c), ![h].offset_sent = @ + len]
        /\ request_id' = request_id + 1
        /\ call' = [call EXCEPT !.count = @ - len, !.val = @ + len]
    BY <1>7 DEF WritePack
  <2>2. len \in Nat /\ len >= 1 /\ call.count - len \in Nat /\ call.val + len \in Int
    BY <1>4, <1>7, ConstTypes DEF Least
  <2>3. /\ r \in Rq /\ r.id = request_id /\ r.kind = "write" /\ r.h = h
        /\ r.off = f.offset_sent /\ r.len = len /\ r.val = call.val
    <3> HIDE DEF len, f, h
    <3> QED
      BY <1>1, <1>4, <2>2 DEF NewRequest, Rq, r
  <2>4. c \in Piece /\ c.rq = r
    <3>1. 0 \in 0..PktLen
      BY ConstTypes
    <3> HIDE DEF r
    <3> QED
      BY <2>3, <3>1 DEF Piece
  <2> HIDE DEF len, r, c
  <2>5. fd' = [fd EXCEPT ![h] = Grown(f, c)]
    BY <1>1, <2>1, <2>3, <2>4 DEF Grown, TypeInv
  <2>7. /\ call' \in Call /\ call'.pc = "wpack" /\ call'.h = h /\ call'.got = <<>>
        /\ call'.acked = 0 /\ call'.val = call.val + len
    BY <1>1, <1>2, <1>3, <2>1, <2>2 DEF Call
  <2>8. Taking(call', h) = Taking(call, h) /\ Acking(call', h) = Acking(call, h)
    BY <1>3, <2>7 DEF Taking, Acking
  <2>9. HandleOk(use, h, Grown(f, c), pos[h], ended[h], call', misuse)
    BY <1>1, <1>3, <1>4, <2>2, <2>3, <2>4, <2>8, GrownOk
  <2>10. /\ Grown(f, c) \in File /\ Grown(f, c).offset = f.offset
         /\ Grown(f, c).offset_sent = f.offset_sent + len /\ Grown(f, c).close = "idle"
    BY <1>3, <1>4, <2>3, <2>4, GrownIs
  <2>11. CallOk(use, call', Grown(f, c), pos[h], misuse)
    BY <1>3, <2>7, <2>10 DEF CallOk
  <2>12. AllReqs' \subseteq AllReqs \union {r}
    BY <1>1, <1>5, <2>4, <2>5, ListGrows
  <2>13. ChanType'
    BY <1>1, <1>5 DEF TypeInv, ChanType
  <2>14. GrowStep(h, Grown(f, c), r)
    BY <1>3, <1>5, <2>1, <2>3, <2>5, <2>7, <2>9, <2>10, <2>11, <2>12, <2>13 DEF GrowStep
  <2> QED
    BY <1>1, <2>3, <2>10, <2>14, RequestStep
<1> QED
  BY <1>6, <1>7

LEMMA WriteSendStep ==
    ASSUME IInv, WriteSend
    PROVE  IInv'
<1>1. call.pc = "wsend" /\ SendStep("ack", FALSE)
  BY DEF WriteSend
<1>2. UNCHANGED <<use, pos, ended, told, misuse, disk, request_id, packets>>
  BY DEF WriteSend, toldVars
<1> QED
  BY <1>1, <1>2, SendStepKeeps

LEMMA AckWaitStep ==
    ASSUME IInv, AckWait
    PROVE  IInv'
<1> DEFINE h == call.h
<1>1. TypeInv /\ FilesInv /\ h \in Handles
  BY DEF IInv, TypeInv, Call
<1>2. /\ call.acked = 0 /\ call.got = <<>> /\ call' = Out
      /\ UNCHANGED <<use, fd, pos, ended, told, misuse, disk, request_id, packets, slot, tail,
                     todo>>
  BY <1>1, Idle DEF AckWait, Waiting, fileVars, toldVars, chanVars, serverVars
<1>3. Taking(Out, h) = Taking(call, h) /\ Acking(Out, h) = Acking(call, h)
  BY <1>1, <1>2, Idle
<1>4. CallOnly(h)
  BY <1>2, <1>3, OutType DEF CallOnly
<1> QED
  BY <1>1, <1>4, CallStep

\* The step is quiet, and what it counts as written or reports is in the file.
LEMMA WrittenKeeps ==
    ASSUME TypeInv, IdInv, DiskInv, Quiet,
           "owing" \notin misuse' =>
              \A x \in Handles :
                 /\ ~Reader(use, x) => Stored(disk[x], pos'[x], fd'[x].offset)
                 /\ \A q \in told'[x] : <<q, q>> \in disk[x]
    PROVE  IdInv' /\ DiskInv'
<1>1. IdInv'
  BY ReqsTyped, IdShrinks DEF IdInv, Quiet, TypeInv
<1>2. ASSUME "owing" \notin misuse'
      PROVE  DiskOk(use, AllReqs', packets', fd', disk, pos', told')
  <2>1. DiskOk(use, AllReqs, packets, fd, disk, pos, told)
    BY <1>2 DEF DiskInv, Quiet
  <2>2. AllReqs' \subseteq AllReqs /\ packets' \subseteq packets
    BY DEF Quiet
  <2> QED
    BY <1>2, <2>1, <2>2 DEF DiskOk
<1>3. DiskInv'
  BY <1>2 DEF DiskInv, Quiet
<1> QED
  BY <1>1, <1>3

LEMMA StoredJoin ==
    ASSUME NEW d, NEW a \in Int, NEW b \in Int, NEW x \in Int,
           Stored(d, a, b), Stored(d, b, x)
    PROVE  Stored(d, a, x)
BY DEF Stored

LEMMA AckOkStep ==
    ASSUME IInv, AckOk
    PROVE  IInv'
<1> DEFINE h == call.h
           f == fd[h]
           r == f.list[1].rq
           g == Confirmed(f)
<1>1. /\ TypeInv /\ FilesInv /\ IdInv /\ DiskInv /\ CallOk(use, call, f, pos[h], misuse)
      /\ HandleOk(use, h, f, pos[h], ended[h], call, misuse) /\ call \in Call /\ h \in Handles
  BY DEF IInv, FilesInv, TypeInv, Call
<1>2. call.pc = "ack" /\ Waiting
  BY DEF AckOk
<1>3. ~Reader(use, h) /\ f.close = "idle" /\ call.got = <<>> /\ call.acked = 0
  BY <1>1, <1>2 DEF CallOk, Waiting
<1>4. PICK a \in packets :
        /\ Fits(a) /\ a.type = "ok" /\ packets' = packets \ {a}
        /\ call' = [call EXCEPT !.acked = @ + r.len]
        /\ fd' = [fd EXCEPT ![h].offset = @ + r.len, ![h].list = Tail(@)]
  BY DEF AckOk, FirstChunk
<1>5. /\ f.list # <<>> /\ r \in AllReqs /\ a.id = r.id /\ r.len \in Nat /\ r.len >= 1
      /\ r.off \in Int /\ r.h = h /\ r.kind = "write" /\ Nonempty(f.list)
  BY <1>2, <1>3, <1>4, FirstAnswer
<1>6. /\ f \in File /\ pos[h] \in Int /\ ended[h] \in BOOLEAN
      /\ f.offset \in Int /\ f.offset_sent \in Int /\ f.acked \in Nat
      /\ pos = [pos EXCEPT ![h] = pos[h]] /\ ended = [ended EXCEPT ![h] = ended[h]]
  BY <1>1, SameFile, FileFields
<1>7. Exact(f) /\ f.data = <<>>
  BY <1>1, <1>3 DEF HandleOk, FileOk
<1>8. r.off = f.offset
  <2>1. r.off = Front(f)
    BY <1>5, <1>7 DEF Exact
  <2> QED
    BY <1>6, <1>7, <2>1, NoData
<1>9. /\ UNCHANGED <<use, pos, ended, told, misuse, disk, request_id, slot, tail, todo>>
      /\ packets' \subseteq packets
  BY <1>4 DEF AckOk, toldVars, chanVars, serverVars
<1>10. fd' = [fd EXCEPT ![h] = g]
  BY <1>1, <1>4 DEF Confirmed, TypeInv
<1>11. /\ g \in File /\ g.offset = f.offset + r.len /\ g.offset_sent = f.offset_sent
       /\ g.data = f.data /\ g.list = Tail(f.list) /\ g.eof = f.eof
       /\ g.acked = f.acked /\ g.close = f.close /\ g.close_id = f.close_id
  <2> HIDE DEF f
  <2> QED
    BY <1>5, <1>6, ConfirmedIs
<1> HIDE DEF g
<1>12. /\ call' \in Call /\ call'.pc = "ack" /\ call'.h = h /\ call'.got = <<>>
       /\ call'.acked = r.len
  <2> DEFINE n == r.len
  <2>1. call' = [call EXCEPT !.acked = call.acked + n] /\ call.acked = 0 /\ n \in Nat
    BY <1>3, <1>4, <1>5
  <2> HIDE DEF n, r, f
  <2>2. call' = [call EXCEPT !.acked = n]
    BY <2>1
  <2>3. call' \in Call /\ call'.pc = call.pc /\ call'.h = h /\ call'.got = call.got /\ call'.acked = n
    BY <1>1, <2>1, <2>2 DEF Call
  <2> QED
    BY <1>2, <1>3, <2>3 DEF n
<1>13. Acking(call, h) = 0 /\ Acking(call', h) = r.len
  BY <1>3, <1>12 DEF Acking
<1>14. Exact(g)
  <2>1. Front(g) = f.offset + r.len
    BY <1>7, <1>11, NoData
  <2>2. /\ Front(g) = r.off + r.len /\ r.len <= r.len
        /\ g.offset_sent = f.offset_sent - (r.len - r.len)
    BY <1>5, <1>6, <1>8, <1>11, <2>1
  <2> QED
    BY <1>5, <1>6, <1>7, <1>11, <2>2, Shifted
<1>15. Own(use, h, g)
  <2>1. Own(use, h, f)
    BY <1>1 DEF HandleOk, FileOk
  <2>2. /\ Len(f.list) \in Nat /\ DOMAIN g.list = 1..(Len(f.list) - 1)
        /\ DOMAIN f.list = 1..Len(f.list)
        /\ \A k \in 1..(Len(f.list) - 1) : g.list[k] = f.list[k + 1]
    BY <1>5, <1>6, <1>11, TailIs, FileFields
  <2>3. \A k \in DOMAIN g.list : k + 1 \in DOMAIN f.list
    BY <2>2
  <2> QED
    BY <2>1, <2>2, <2>3 DEF Own
<1>16. FileOk(use, h, g)
  BY <1>3, <1>7, <1>11, <1>14, <1>15 DEF FileOk
<1>17. PosOk(use, h, g, pos[h], call', misuse)
  <2>1. "owing" \notin misuse => pos[h] = f.offset - f.acked
    BY <1>1, <1>3, <1>6, <1>13 DEF HandleOk, PosOk
  <2>2. (g.offset - g.acked) - r.len = f.offset - f.acked
    BY <1>5, <1>6, <1>11
  <2> QED
    BY <1>3, <1>13, <2>1, <2>2 DEF PosOk
<1>18. HandleOk(use, h, g, pos[h], ended[h], call', misuse)
  <2>1. ~ended[h]
    BY <1>1, <1>3 DEF HandleOk, SureOk
  <2> QED
    BY <1>3, <1>16, <1>17, <2>1 DEF HandleOk, SureOk
<1>19. CallOk(use, call', g, pos[h], misuse)
  BY <1>3, <1>11, <1>12 DEF CallOk
<1>20. FileStep(h, g, pos[h], ended[h])
  BY <1>6, <1>9, <1>10, <1>12, <1>18, <1>19 DEF FileStep
<1>21. /\ FilesInv' /\ fd' \in [Handles -> File] /\ fd'[h] = g
       /\ \A x \in Handles : x # h => fd'[x] = fd[x]
  BY <1>1, <1>6, <1>11, <1>20, OneFile
<1>22. ChanType' /\ Moving(slot', tail', todo') \subseteq AllReqs
  BY <1>1, <1>9 DEF TypeInv, ChanType, AllReqs, Reqs
<1>23. TypeInv'
  BY <1>1, <1>9, <1>12, <1>21, <1>22 DEF TypeInv
<1>24. AllReqs' \subseteq AllReqs
  <2>1. InList(g.list) \subseteq InList(f.list)
    BY <1>5, <1>6, <1>11, TailIs
  <2> QED
    BY <1>1, <1>10, <1>11, <1>22, <2>1, ReqsKept
<1>25. Quiet
  BY <1>9, <1>24 DEF Quiet
<1>26. ASSUME "owing" \notin misuse, NEW x \in Handles
       PROVE  /\ ~Reader(use, x) => Stored(disk[x], pos[x], fd'[x].offset)
              /\ \A q \in told[x] : <<q, q>> \in disk[x]
  <2>1. DiskOk(use, AllReqs, packets, fd, disk, pos, told)
    BY <1>1, <1>26 DEF DiskInv
  <2>2. CASE x = h
    <3>1. Stored(disk[h], pos[h], f.offset)
      BY <1>1, <1>3, <2>1 DEF DiskOk
    <3>2. Stored(disk[h], r.off, r.off + r.len)
      BY <1>4, <1>5, <2>1 DEF DiskOk
    <3>3. Stored(disk[h], pos[h], f.offset + r.len)
      <4>1. f.offset + r.len \in Int
        BY <1>5, <1>6
      <4> QED
        BY <1>6, <1>8, <3>1, <3>2, <4>1, StoredJoin
    <3> QED
      BY <1>11, <1>21, <2>1, <2>2, <3>3 DEF DiskOk
  <2>3. CASE x # h
    BY <1>21, <2>1, <2>3 DEF DiskOk
  <2> QED
    BY <2>2, <2>3
<1>27. IdInv' /\ DiskInv'
  BY <1>1, <1>9, <1>25, <1>26, WrittenKeeps
<1> QED
  BY <1>21, <1>23, <1>27 DEF IInv

LEMMA AckErrorStep ==
    ASSUME IInv, AckError
    PROVE  IInv'
<1> DEFINE h == call.h
           f == fd[h]
           g == Refused(f)
<1>1. /\ TypeInv /\ FilesInv /\ CallOk(use, call, f, pos[h], misuse)
      /\ HandleOk(use, h, f, pos[h], ended[h], call, misuse) /\ call \in Call /\ h \in Handles
  BY DEF IInv, FilesInv, TypeInv, Call
<1>2. call.pc = "ack" /\ Waiting
  BY DEF AckError
<1>3. ~Reader(use, h) /\ f.close = "idle" /\ call.got = <<>> /\ call.acked = 0
  BY <1>1, <1>2 DEF CallOk, Waiting
<1>4. PICK a \in packets :
        /\ Flush(f.list, packets \ {a})
        /\ fd' = [fd EXCEPT ![h].list = <<>>, ![h].offset = @ - f.acked,
                            ![h].offset_sent = f.offset - f.acked, ![h].acked = 0]
        /\ call' = Out
  BY DEF AckError
<1>5. /\ f \in File /\ pos[h] \in Int /\ ended[h] \in BOOLEAN
      /\ f.offset \in Int /\ f.acked \in Nat
      /\ pos = [pos EXCEPT ![h] = pos[h]] /\ ended = [ended EXCEPT ![h] = ended[h]]
  BY <1>1, SameFile, FileFields
<1>6. /\ UNCHANGED <<use, pos, ended, told, misuse, disk, request_id, slot, tail, todo>>
      /\ packets' \subseteq packets
  BY <1>4, FlushIs DEF AckError, toldVars, chanVars, serverVars
<1>7. fd' = [fd EXCEPT ![h] = g]
  BY <1>1, <1>4 DEF Refused, TypeInv
<1>8. /\ g \in File /\ g.offset = f.offset - f.acked /\ g.offset_sent = g.offset
      /\ g.data = f.data /\ g.list = <<>> /\ g.acked = 0 /\ g.close = f.close
      /\ g.close_id = f.close_id
  BY <1>5, RefusedIs
<1>9. DOMAIN g.list = {}
  BY <1>8
<1> HIDE DEF g
<1>10. f.data = <<>> /\ ~ended[h]
  BY <1>1, <1>3 DEF HandleOk, FileOk, SureOk
<1>11. Exact(g)
  <2>1. Front(g) = g.offset
    BY <1>8, <1>10, NoData
  <2> QED
    BY <1>8, <1>9, <2>1 DEF Exact
<1>12. FileOk(use, h, g)
  BY <1>3, <1>8, <1>9, <1>10, <1>11 DEF FileOk, Own
<1>13. PosOk(use, h, g, pos[h], Out, misuse)
  <2>1. Acking(call, h) = 0 /\ Acking(Out, h) = 0
    BY <1>1, <1>3, Idle
  <2>2. "owing" \notin misuse => pos[h] = (f.offset - f.acked) - 0
    BY <1>1, <1>3, <2>1 DEF HandleOk, PosOk
  <2>3. (g.offset - g.acked) - 0 = (f.offset - f.acked) - 0
    BY <1>5, <1>8
  <2> QED
    BY <1>3, <2>1, <2>2, <2>3 DEF PosOk
<1>14. HandleOk(use, h, g, pos[h], ended[h], Out, misuse)
  BY <1>3, <1>10, <1>12, <1>13 DEF HandleOk, SureOk
<1>15. ChanType' /\ Moving(slot', tail', todo') \subseteq AllReqs
  BY <1>1, <1>6 DEF TypeInv, ChanType, AllReqs, Reqs
<1>16. AllReqs' \subseteq AllReqs
  <2>1. InList(g.list) \subseteq InList(f.list)
    BY <1>9 DEF InList
  <2> QED
    BY <1>1, <1>7, <1>8, <1>15, <2>1, ReqsKept
<1>17. Quiet
  BY <1>6, <1>16 DEF Quiet
<1>18. OneStep(h, g, pos[h], ended[h])
  <2>1. FileStep(h, g, pos[h], ended[h])
    BY <1>3, <1>4, <1>5, <1>6, <1>7, <1>14, OutType DEF FileStep
  <2>2. pos[h] <= pos[h] /\ g.offset <= f.offset
    BY <1>5, <1>8
  <2> QED
    BY <1>6, <1>15, <1>17, <2>1, <2>2 DEF OneStep
<1> QED
  BY <1>1, <1>5, <1>8, <1>18, QuietStep

LEMMA WriteDoneStep ==
    ASSUME IInv, WriteDone
    PROVE  IInv'
<1> DEFINE h == call.h
           f == fd[h]
           acked == call.acked + f.acked
           ret == Least(acked, call.size)
           g == [f EXCEPT !.acked = acked - ret]
           p == pos[h] + ret
<1>1. /\ TypeInv /\ FilesInv /\ IdInv /\ DiskInv /\ CallOk(use, call, f, pos[h], misuse)
      /\ HandleOk(use, h, f, pos[h], ended[h], call, misuse) /\ call \in Call /\ h \in Handles
  BY DEF IInv, FilesInv, TypeInv, Call
<1>2. ~Reader(use, h) /\ f.close = "idle" /\ call.got = <<>>
  BY <1>1 DEF CallOk, WriteDone
<1>3. /\ f \in File /\ pos[h] \in Int /\ ended[h] \in BOOLEAN
      /\ f.offset \in Int /\ f.acked \in Nat /\ call.acked \in Nat /\ call.size \in Nat
      /\ ended = [ended EXCEPT ![h] = ended[h]]
  BY <1>1, SameFile, FileFields DEF Call
<1>4. /\ acked \in Nat /\ ret \in Nat /\ ret <= acked /\ acked - ret \in Nat
      /\ p \in Int
  BY <1>3 DEF Least
<1>5. /\ fd' = [fd EXCEPT ![h].acked = acked - ret]
      /\ pos' = [pos EXCEPT ![h] = @ + ret]
      /\ told' = [told EXCEPT ![h] = @ \union pos[h] .. (pos[h] + ret - 1)]
      /\ call' = Out
      /\ UNCHANGED <<use, ended, misuse, disk, request_id, packets, slot, tail, todo>>
  BY DEF WriteDone, sftpVars, chanVars, serverVars
<1>6. fd' = [fd EXCEPT ![h] = g] /\ pos' = [pos EXCEPT ![h] = p]
  BY <1>1, <1>5 DEF TypeInv
<1>7. /\ g \in File /\ g.offset = f.offset /\ g.offset_sent = f.offset_sent
      /\ g.data = f.data /\ g.list = f.list /\ g.acked = acked - ret /\ g.close = f.close
      /\ g.close_id = f.close_id
  <2> HIDE DEF acked, ret
  <2> QED
    BY <1>3, <1>4 DEF File
<1> HIDE DEF g
<1>8. FileOk(use, h, g)
  <2>1. FileOk(use, h, f)
    BY <1>1 DEF HandleOk
  <2> QED
    BY <1>2, <1>7, <2>1 DEF FileOk, Own, Exact, Front
<1>9. "owing" \notin misuse => pos[h] = f.offset - acked
  <2>1. Acking(call, h) = call.acked
    BY DEF Acking
  <2>2. "owing" \notin misuse => pos[h] = (f.offset - f.acked) - call.acked
    BY <1>1, <1>2, <2>1 DEF HandleOk, PosOk
  <2>3. (f.offset - f.acked) - call.acked = f.offset - acked
    BY <1>3
  <2> QED
    BY <2>2, <2>3
<1> HIDE DEF acked, ret, p
<1>10. "owing" \notin misuse => p = (g.offset - g.acked) - 0 /\ pos[h] + ret <= f.offset
  BY <1>3, <1>4, <1>7, <1>9 DEF p
<1>11. HandleOk(use, h, g, p, ended[h], Out, misuse)
  <2>1. ~ended[h]
    BY <1>1, <1>2 DEF HandleOk, SureOk
  <2>2. Acking(Out, h) = 0
    BY <1>1, Idle
  <2> QED
    BY <1>2, <1>8, <1>10, <2>1, <2>2 DEF HandleOk, SureOk, PosOk
<1>12. FileStep(h, g, p, ended[h])
  BY <1>3, <1>5, <1>6, <1>11, OutType DEF FileStep
<1>13. /\ FilesInv' /\ fd' \in [Handles -> File] /\ pos' \in [Handles -> Int]
       /\ fd'[h] = g /\ pos'[h] = p
       /\ \A x \in Handles : x # h => fd'[x] = fd[x] /\ pos'[x] = pos[x]
  BY <1>1, <1>3, <1>4, <1>7, <1>12, OneFile
<1>14. ChanType' /\ Moving(slot', tail', todo') \subseteq AllReqs
  BY <1>1, <1>5 DEF TypeInv, ChanType, AllReqs, Reqs
<1>15. AllReqs' \subseteq AllReqs
  BY <1>1, <1>6, <1>7, <1>14, ReqsKept
<1>16. Quiet
  BY <1>5, <1>15 DEF Quiet
<1>17. /\ told' \in [Handles -> SUBSET Int]
       /\ told'[h] = told[h] \union pos[h] .. (pos[h] + ret - 1)
       /\ \A x \in Handles : x # h => told'[x] = told[x]
  <2>1. told \in [Handles -> SUBSET Int] /\ pos[h] .. (pos[h] + ret - 1) \subseteq Int
    BY <1>1, <1>3, <1>4 DEF TypeInv
  <2> QED
    BY <1>1, <1>5, <2>1
<1>18. TypeInv'
  BY <1>1, <1>5, <1>13, <1>14, <1>17, OutType DEF TypeInv
<1>19. ASSUME "owing" \notin misuse, NEW x \in Handles
       PROVE  /\ ~Reader(use, x) => Stored(disk[x], pos'[x], fd'[x].offset)
              /\ \A q \in told'[x] : <<q, q>> \in disk[x]
  <2>1. DiskOk(use, AllReqs, packets, fd, disk, pos, told)
    BY <1>1, <1>19 DEF DiskInv
  <2>2. CASE x = h
    <3>1. Stored(disk[h], pos[h], f.offset)
      BY <1>1, <1>2, <2>1 DEF DiskOk
    <3>2. pos[h] <= p /\ f.offset <= f.offset
      BY <1>3, <1>4 DEF p
    <3>3. Stored(disk[h], p, f.offset)
      BY <1>3, <1>4, <3>1, <3>2, StoredPart
    <3>4. ASSUME NEW q \in pos[h] .. (pos[h] + ret - 1) PROVE <<q, q>> \in disk[h]
      <4>1. q \in Int /\ pos[h] <= q /\ q < f.offset
        BY <1>3, <1>4, <1>10, <1>19
      <4> QED
        BY <3>1, <4>1 DEF Stored
    <3> QED
      BY <1>1, <1>7, <1>13, <1>17, <2>1, <2>2, <3>3, <3>4 DEF DiskOk
  <2>3. CASE x # h
    BY <1>13, <1>17, <2>1, <2>3 DEF DiskOk
  <2> QED
    BY <2>2, <2>3
<1>20. IdInv' /\ DiskInv'
  BY <1>1, <1>5, <1>16, <1>19, WrittenKeeps
<1> QED
  BY <1>13, <1>18, <1>20 DEF IInv

-------------------------------------------------------------------------------
(* seek64 and close. *)

LEMMA SeekStep ==
    ASSUME IInv, NEW h \in Handles, NEW p \in use.seeks, Seek(h, p)
    PROVE  IInv'
<1> DEFINE f == fd[h]
<1>1. /\ TypeInv /\ FilesInv /\ HandleOk(use, h, f, pos[h], ended[h], call, misuse)
      /\ call \in Call
  BY DEF IInv, FilesInv, TypeInv
<1>2. /\ call.pc = "out" /\ f.close = "idle" /\ pos' = [pos EXCEPT ![h] = p]
      /\ misuse \subseteq misuse' /\ (f.acked > 0 => "owing" \in misuse')
      /\ UNCHANGED <<use, call, told, disk, request_id, slot, tail, todo>>
  BY DEF Seek, chanVars, serverVars
<1>3. /\ call.got = <<>> /\ call.acked = 0 /\ Taking(call, h) = 0 /\ Acking(call, h) = 0
  BY <1>1, <1>2, Idle
<1>4. /\ f \in File /\ ended[h] \in BOOLEAN /\ pos[h] \in Int /\ p \in Int
      /\ f.offset \in Int /\ f.acked \in Nat
      /\ fd = [fd EXCEPT ![h] = f] /\ ended = [ended EXCEPT ![h] = ended[h]]
  BY <1>1, SameFile, FileFields, UseTypes DEF TypeInv
<1>5. /\ p = p - Taking(call, h) /\ p <= p
      /\ "owing" \notin misuse' => p = (p - f.acked) - Acking(call, h)
  BY <1>2, <1>3, <1>4
<1>6. CASE f.offset = p /\ f.offset_sent = p
  <2>1. UNCHANGED <<fd, ended, packets>>
    BY <1>6 DEF Seek
  <2>2. PosOk(use, h, f, p, call, misuse')
    BY <1>5, <1>6 DEF PosOk
  <2>3. SureOk(use, h, f, p, ended[h], call, misuse')
    <3>1. Sure(use) /\ Reader(use, h) => pos[h] = p
      BY <1>1, <1>3, <1>4, <1>6 DEF HandleOk, SureOk
    <3> QED
      BY <1>1, <1>2, <1>5, <1>6, <3>1 DEF HandleOk, SureOk
  <2>4. HandleOk(use, h, f, p, ended[h], call, misuse')
    BY <1>1, <2>2, <2>3 DEF HandleOk
  <2>5. Quiet /\ ChanType'
    BY <1>1, <1>2, <2>1, NoTraffic
  <2>6. OneStep(h, f, p, ended[h])
    <3>1. FileStep(h, f, p, ended[h])
      BY <1>1, <1>2, <1>3, <1>4, <2>1, <2>4 DEF FileStep
    <3> QED
      BY <1>2, <1>5, <1>6, <2>5, <3>1 DEF OneStep
  <2> QED
    BY <1>4, <2>6, QuietStep
<1>7. CASE ~(f.offset = p /\ f.offset_sent = p)
  <2> DEFINE g == Sought(f, p)
  <2>1. /\ Flush(f.list, packets)
        /\ fd' = [fd EXCEPT ![h].offset = p, ![h].offset_sent = p, ![h].list = <<>>,
                            ![h].data = <<>>, ![h].eof = FALSE]
        /\ ended' = [ended EXCEPT ![h] = FALSE]
    BY <1>7 DEF Seek
  <2>2. packets' \subseteq packets
    BY <2>1, FlushIs
  <2>3. fd' = [fd EXCEPT ![h] = g]
    BY <1>1, <2>1 DEF Sought, TypeInv
  <2>4. /\ g \in File /\ g.offset = p /\ g.offset_sent = p /\ g.data = <<>> /\ g.list = <<>>
        /\ g.eof = FALSE /\ g.acked = f.acked /\ g.close = f.close /\ g.close_id = f.close_id
    BY <1>4, SoughtIs
  <2>5. DOMAIN g.list = {} /\ DOMAIN g.data = {}
    BY <2>4
  <2> HIDE DEF g
  <2>6. Exact(g)
    <3>1. Front(g) = p
      BY <2>4, NoData
    <3> QED
      BY <2>4, <2>5, <3>1 DEF Exact
  <2>7. FileOk(use, h, g)
    BY <1>1, <2>4, <2>5, <2>6 DEF HandleOk, FileOk, Own
  <2>8. PosOk(use, h, g, p, call, misuse')
    BY <1>5, <2>4 DEF PosOk
  <2>9. HandleOk(use, h, g, p, FALSE, call, misuse')
    BY <1>5, <2>4, <2>6, <2>7, <2>8 DEF HandleOk, SureOk
  <2>10. ChanType' /\ Moving(slot', tail', todo') \subseteq AllReqs
    BY <1>1, <1>2 DEF TypeInv, ChanType, AllReqs, Reqs
  <2>11. AllReqs' \subseteq AllReqs
    <3>1. InList(g.list) \subseteq InList(f.list)
      BY <2>5 DEF InList
    <3> QED
      BY <1>1, <2>3, <2>4, <2>10, <3>1, ReqsKept
  <2>12. Quiet
    BY <1>2, <2>2, <2>11 DEF Quiet
  <2>13. OneStep(h, g, p, FALSE)
    <3>1. FileStep(h, g, p, FALSE)
      BY <1>1, <1>2, <1>3, <2>1, <2>3, <2>9 DEF FileStep
    <3> QED
      BY <1>2, <1>5, <2>4, <2>10, <2>12, <3>1 DEF OneStep
  <2> QED
    BY <1>4, <2>4, <2>13, QuietStep
<1> QED
  BY <1>6, <1>7

LEMMA CloseBeginStep ==
    ASSUME IInv, NEW h \in Handles, CloseBegin(h)
    PROVE  IInv'
<1> DEFINE f == fd[h]
           pc == IF f.close = "sent" THEN "cwait" ELSE "csend"
<1>1. /\ TypeInv /\ FilesInv /\ HandleOk(use, h, f, pos[h], ended[h], call, misuse)
  BY DEF IInv, FilesInv
<1>2. /\ call.pc = "out" /\ f.close # "closed" /\ misuse \subseteq misuse'
      /\ call' = [Out EXCEPT !.h = h, !.pc = pc]
      /\ UNCHANGED <<use, pos, ended, told, disk, packets, slot, tail, todo>>
  BY DEF CloseBegin, Begin, chanVars, serverVars
<1>3. /\ call.got = <<>> /\ call.acked = 0 /\ Taking(call, h) = 0 /\ Acking(call, h) = 0
  BY <1>1, <1>2, Idle
<1>4. /\ f \in File /\ ended[h] \in BOOLEAN /\ pos[h] \in Int /\ request_id \in Nat
      /\ f.close \in {"idle", "created", "sent"}
  BY <1>1, <1>2, SameFile, FileFields DEF TypeInv
<1>5. pc \in {"csend", "cwait"}
  OBVIOUS
<1>6. /\ call' \in Call /\ call'.pc = pc /\ call'.h = h /\ call'.got = <<>> /\ call'.acked = 0
  <2> HIDE DEF pc
  <2> QED
    BY <1>2, <1>5, OutType DEF Call, Pcs
<1>7. Taking(call', h) = Taking(call, h) /\ Acking(call', h) = Acking(call, h)
  BY <1>3, <1>6 DEF Taking, Acking
<1>8. CASE f.close # "idle"
  <2>1. UNCHANGED <<fd, request_id>>
    BY <1>8 DEF CloseBegin
  <2>2. CallOk(use, call', f, pos[h], misuse')
    BY <1>4, <1>6, <1>8 DEF CallOk
  <2>3. CallOnly(h)
    BY <1>2, <1>3, <1>6, <1>7, <2>1, <2>2 DEF CallOnly
  <2> QED
    BY <2>3, CallStep
<1>9. CASE f.close = "idle"
  <2> DEFINE g == [f EXCEPT !.close = "created", !.close_id = request_id]
             r == CloseRq(h, request_id)
  <2>1. /\ fd' = [fd EXCEPT ![h] = g] /\ request_id' = request_id + 1
    BY <1>1, <1>9 DEF CloseBegin, TypeInv
  <2>2. /\ g \in File /\ g.offset = f.offset /\ g.offset_sent = f.offset_sent
        /\ g.data = f.data /\ g.list = f.list /\ g.eof = f.eof /\ g.acked = f.acked
        /\ g.close = "created" /\ g.close_id = request_id
    BY <1>4 DEF File
  <2> HIDE DEF g
  <2>3. Alike(f, g)
    BY <1>9, <2>2 DEF Alike
  <2>4. HandleOk(use, h, g, pos[h], ended[h], call', misuse')
    BY <1>1, <1>2, <1>4, <1>7, <2>2, <2>3, AlikeOk
  <2>5. CallOk(use, call', g, pos[h], misuse')
    BY <1>6, <1>9, <2>2 DEF CallOk
  <2>6. r \in Rq /\ r.id = request_id /\ r.kind = "close"
    BY <1>4 DEF CloseRq, Rq
  <2>7. AllReqs' \subseteq AllReqs \union {r}
    <3>1. fd'[h] = g /\ \A x \in Handles : x # h => fd'[x] = fd[x]
      BY <1>1, <2>1 DEF TypeInv
    <3>2. Listed(fd') \subseteq Listed(fd)
      BY <2>2, <3>1 DEF Listed
    <3>3. Closings(fd') \subseteq Closings(fd) \union {r}
      BY <2>2, <3>1 DEF Closings
    <3> QED
      BY <1>2, <3>2, <3>3 DEF AllReqs, Reqs
  <2>8. ChanType'
    BY <1>1, <1>2 DEF TypeInv, ChanType
  <2> HIDE DEF r
  <2>9. GrowStep(h, g, r)
    BY <1>2, <1>3, <1>6, <2>1, <2>2, <2>4, <2>5, <2>6, <2>7, <2>8 DEF GrowStep
  <2> QED
    BY <2>2, <2>6, <2>9, RequestStep
<1> QED
  BY <1>8, <1>9

\* The handle of the call is freed.
LEMMA FreeStep ==
    ASSUME IInv, call.pc \in {"csend", "cwait"}, NEW answers \in SUBSET packets,
           Free(call.h, answers),
           UNCHANGED <<use, pos, ended, told, misuse, disk, request_id>>,
           ChanType', Moving(slot', tail', todo') \subseteq AllReqs
    PROVE  IInv'
<1> DEFINE h == call.h
           f == fd[h]
           g == Freed(f)
<1>1. /\ TypeInv /\ FilesInv /\ CallOk(use, call, f, pos[h], misuse)
      /\ HandleOk(use, h, f, pos[h], ended[h], call, misuse) /\ call \in Call /\ h \in Handles
  BY DEF IInv, FilesInv, TypeInv, Call
<1>2. /\ call.got = <<>> /\ call.acked = 0 /\ f.close \in {"created", "sent"}
      /\ Taking(call, h) = Taking(Out, h) /\ Acking(call, h) = Acking(Out, h)
  <2>1. call.got = <<>> /\ call.acked = 0 /\ f.close \in {"created", "sent"}
    BY <1>1 DEF CallOk
  <2> QED
    BY <1>1, <2>1, Idle
<1>3. /\ call' = Out /\ Flush(f.list, answers)
      /\ fd' = [fd EXCEPT ![h].list = <<>>, ![h].data = <<>>, ![h].close = "closed"]
  BY DEF Free
<1>4. packets' \subseteq packets
  BY <1>3, FlushIs
<1>5. fd' = [fd EXCEPT ![h] = g]
  BY <1>1, <1>3 DEF Freed, TypeInv
<1>6. /\ f \in File /\ pos[h] \in Int /\ ended[h] \in BOOLEAN /\ f.offset \in Int
      /\ pos = [pos EXCEPT ![h] = pos[h]] /\ ended = [ended EXCEPT ![h] = ended[h]]
  BY <1>1, SameFile, FileFields
<1>7. /\ g \in File /\ g.offset = f.offset /\ g.offset_sent = f.offset_sent
      /\ g.data = <<>> /\ g.list = <<>> /\ g.eof = f.eof
      /\ g.acked = f.acked /\ g.close = "closed" /\ g.close_id = f.close_id
  BY <1>6, FreedIs
<1>8. DOMAIN g.list = {} /\ DOMAIN g.data = {}
  BY <1>7
<1> HIDE DEF g
<1>9. FileOk(use, h, g)
  BY <1>1, <1>7, <1>8 DEF HandleOk, FileOk, Own
<1>10. Jammed(f) /\ f.data = <<>> => Jammed(g)
  <2>1. f.data = <<>> => Front(g) = Front(f)
    BY <1>6, <1>7, NoData
  <2> QED
    BY <1>7, <2>1 DEF Jammed
<1>11. HandleOk(use, h, g, pos[h], ended[h], Out, misuse)
  BY <1>1, <1>2, <1>7, <1>9, <1>10 DEF HandleOk, PosOk, SureOk
<1>12. AllReqs' \subseteq AllReqs
  <2>1. InList(g.list) \subseteq InList(f.list)
    BY <1>8 DEF InList
  <2> QED
    BY <1>1, <1>2, <1>5, <1>7, <2>1, ReqsKept
<1>13. Quiet
  BY <1>4, <1>12 DEF Quiet
<1>14. OneStep(h, g, pos[h], ended[h])
  <2>1. FileStep(h, g, pos[h], ended[h])
    BY <1>3, <1>5, <1>6, <1>11, OutType DEF FileStep
  <2>2. pos[h] <= pos[h] /\ g.offset <= f.offset
    BY <1>6, <1>7
  <2> QED
    BY <1>13, <2>1, <2>2 DEF OneStep
<1> QED
  BY <1>1, <1>6, <1>7, <1>14, QuietStep

LEMMA CloseSendStep ==
    ASSUME IInv, CloseSend
    PROVE  IInv'
<1> DEFINE h == call.h
           f == fd[h]
           rq == CloseRq(h, f.close_id)
<1>1. /\ TypeInv /\ FilesInv /\ CallOk(use, call, f, pos[h], misuse)
      /\ HandleOk(use, h, f, pos[h], ended[h], call, misuse) /\ call \in Call /\ h \in Handles
  BY DEF IInv, FilesInv, TypeInv, Call
<1>2. /\ call.pc = "csend" /\ call.got = <<>> /\ call.acked = 0 /\ f.close = "created"
  BY <1>1 DEF CallOk, CloseSend
<1>3. UNCHANGED <<use, pos, ended, told, misuse, disk, request_id>>
  BY DEF CloseSend, toldVars
<1>4. PICK rc \in 0..PktLen :
        /\ ChannelWrite(rq, 0, rc)
        /\ \/ call' = Out /\ UNCHANGED <<fd, packets>>
           \/ /\ call' = [call EXCEPT !.pc = "cwait"]
              /\ fd' = [fd EXCEPT ![h].close = "sent"] /\ UNCHANGED packets
           \/ Free(h, packets)
  BY DEF CloseSend, CloseRq
<1>5. /\ f \in File /\ f.close_id \in Nat /\ pos[h] \in Int /\ ended[h] \in BOOLEAN
      /\ f.offset \in Int /\ fd = [fd EXCEPT ![h] = f]
      /\ pos = [pos EXCEPT ![h] = pos[h]] /\ ended = [ended EXCEPT ![h] = ended[h]]
  BY <1>1, SameFile, FileFields
<1>6. rq \in Rq /\ 0 \in 0..PktLen
  BY <1>1, <1>5, ConstTypes DEF CloseRq, Rq
<1>7. rq \in AllReqs
  <2>1. rq \in Closings(fd)
    BY <1>1, <1>2 DEF Closings
  <2> QED
    BY <2>1 DEF AllReqs, Reqs
<1> HIDE DEF rq
<1>8. ChanType' /\ Moving(slot', tail', todo') \subseteq AllReqs
  <2>1. /\ ChanType'
        /\ Moving(slot', tail', todo') \subseteq Moving(slot, tail, todo) \union {rq}
    BY <1>1, <1>4, <1>6, ChannelWriteIs DEF TypeInv
  <2> QED
    BY <1>7, <2>1 DEF AllReqs, Reqs
<1>9. Taking(Out, h) = Taking(call, h) /\ Acking(Out, h) = Acking(call, h)
  BY <1>1, <1>2, Idle
<1>10. CASE call' = Out /\ UNCHANGED <<fd, packets>>
  <2>1. HandleOk(use, h, f, pos[h], ended[h], Out, misuse)
    BY <1>1, <1>9 DEF HandleOk, PosOk, SureOk
  <2>2. AllReqs' \subseteq AllReqs
    BY <1>1, <1>5, <1>8, <1>10, ReqsKept
  <2>3. Quiet
    BY <1>3, <1>10, <2>2 DEF Quiet
  <2>4. pos[h] <= pos[h] /\ f.offset <= f.offset
    BY <1>5
  <2>5. OneStep(h, f, pos[h], ended[h])
    <3>1. FileStep(h, f, pos[h], ended[h])
      BY <1>3, <1>5, <1>10, <2>1, OutType DEF FileStep
    <3> QED
      BY <1>3, <1>8, <2>3, <2>4, <3>1 DEF OneStep
  <2> QED
    BY <1>1, <1>5, <2>5, QuietStep
<1>11. CASE /\ call' = [call EXCEPT !.pc = "cwait"]
            /\ fd' = [fd EXCEPT ![h].close = "sent"] /\ UNCHANGED packets
  <2> DEFINE g == [f EXCEPT !.close = "sent"]
  <2>1. fd' = [fd EXCEPT ![h] = g]
    BY <1>1, <1>11 DEF TypeInv
  <2>2. /\ g \in File /\ g.offset = f.offset /\ g.offset_sent = f.offset_sent
        /\ g.data = f.data /\ g.list = f.list /\ g.eof = f.eof /\ g.acked = f.acked
        /\ g.close = "sent" /\ g.close_id = f.close_id
    BY <1>5 DEF File
  <2> HIDE DEF g
  <2>3. Alike(f, g)
    BY <1>2, <2>2 DEF Alike
  <2>4. /\ call' \in Call /\ call'.pc = "cwait" /\ call'.h = h /\ call'.got = <<>>
        /\ call'.acked = 0
    BY <1>1, <1>2, <1>11 DEF Call, Pcs
  <2>5. Taking(call', h) = Taking(call, h) /\ Acking(call', h) = Acking(call, h)
    BY <1>2, <2>4 DEF Taking, Acking
  <2>6. HandleOk(use, h, g, pos[h], ended[h], call', misuse)
    BY <1>1, <1>5, <2>2, <2>3, <2>5, AlikeOk
  <2>7. CallOk(use, call', g, pos[h], misuse)
    BY <2>2, <2>4 DEF CallOk
  <2>8. AllReqs' \subseteq AllReqs
    BY <1>1, <1>2, <1>8, <2>1, <2>2, ReqsKept
  <2>9. Quiet
    BY <1>3, <1>11, <2>8 DEF Quiet
  <2>10. pos[h] <= pos[h] /\ g.offset <= f.offset
    BY <1>5, <2>2
  <2>11. OneStep(h, g, pos[h], ended[h])
    <3>1. FileStep(h, g, pos[h], ended[h])
      BY <1>3, <1>5, <2>1, <2>4, <2>6, <2>7 DEF FileStep
    <3> QED
      BY <1>3, <1>8, <2>9, <2>10, <3>1 DEF OneStep
  <2> QED
    BY <1>1, <1>5, <2>2, <2>11, QuietStep
<1>12. CASE Free(h, packets)
  BY <1>2, <1>3, <1>8, <1>12, FreeStep
<1> QED
  BY <1>4, <1>10, <1>11, <1>12

LEMMA CloseWaitStep ==
    ASSUME IInv, CloseWait
    PROVE  IInv'
<1> DEFINE h == call.h
<1>1. TypeInv /\ FilesInv /\ h \in Handles
  BY DEF IInv, TypeInv, Call
<1>2. /\ call.acked = 0 /\ call.got = <<>> /\ call' = Out
      /\ UNCHANGED <<use, fd, pos, ended, told, misuse, disk, request_id, packets, slot, tail,
                     todo>>
  BY <1>1, Idle DEF CloseWait, fileVars, toldVars, sftpVars, chanVars, serverVars
<1>3. Taking(Out, h) = Taking(call, h) /\ Acking(Out, h) = Acking(call, h)
  BY <1>1, <1>2, Idle
<1>4. CallOnly(h)
  BY <1>2, <1>3, OutType DEF CallOnly
<1> QED
  BY <1>1, <1>4, CallStep

LEMMA CloseDoneStep ==
    ASSUME IInv, CloseDone
    PROVE  IInv'
<1>1. call.pc = "cwait" /\ TypeInv
  BY DEF CloseDone, IInv
<1>2. PICK a \in packets : Free(call.h, packets \ {a})
  BY DEF CloseDone
<1>3. /\ UNCHANGED <<use, pos, ended, told, misuse, disk, request_id>>
      /\ UNCHANGED <<slot, tail, todo>>
  BY DEF CloseDone, toldVars, chanVars, serverVars
<1>4. ChanType' /\ Moving(slot', tail', todo') \subseteq AllReqs
  BY <1>1, <1>3 DEF TypeInv, ChanType, AllReqs, Reqs
<1>5. packets \ {a} \in SUBSET packets
  OBVIOUS
<1> QED
  BY <1>1, <1>2, <1>3, <1>4, <1>5, FreeStep

-------------------------------------------------------------------------------
(* The server answers a request, and writes what it was told to. *)

\* What a write of n bytes at off leaves of the file d.
Overwrite(d, off, n, val) ==
    {x \in d : x[1] \notin off .. (off + n - 1)} \union
    {<<off + k, val + k>> : k \in 0..(n - 1)}

LEMMA OverwriteIs ==
    ASSUME NEW d \in SUBSET (Int \X Int), NEW off \in Int, NEW n \in Nat
    PROVE  /\ \A p \in Int : <<p, p>> \in d => <<p, p>> \in Overwrite(d, off, n, off)
           /\ Stored(Overwrite(d, off, n, off), off, off + n)
<1>1. ASSUME NEW p \in Int, p \in off .. (off + n - 1)
      PROVE  <<p, p>> \in Overwrite(d, off, n, off)
  <2>1. p - off \in 0..(n - 1) /\ off + (p - off) = p
    BY <1>1
  <2> QED
    BY <2>1 DEF Overwrite
<1>2. ASSUME NEW p \in Int, <<p, p>> \in d, p \notin off .. (off + n - 1)
      PROVE  <<p, p>> \in Overwrite(d, off, n, off)
  BY <1>2 DEF Overwrite
<1>3. Stored(Overwrite(d, off, n, off), off, off + n)
  <2> SUFFICES ASSUME NEW p \in Int, off <= p, p < off + n
               PROVE  <<p, p>> \in Overwrite(d, off, n, off)
    BY DEF Stored
  <2>1. p \in off .. (off + n - 1)
    OBVIOUS
  <2> QED
    BY <1>1, <2>1
<1> QED
  BY <1>1, <1>2, <1>3

LEMMA OverwriteType ==
    ASSUME NEW d \in SUBSET (Int \X Int), NEW off \in Int, NEW n \in Nat, NEW val \in Int
    PROVE  Overwrite(d, off, n, val) \in SUBSET (Int \X Int)
<1>1. \A k \in 0..(n - 1) : <<off + k, val + k>> \in Int \X Int
  OBVIOUS
<1> QED
  BY <1>1 DEF Overwrite

\* Request r is answered by a.
Answering(r, a) ==
    /\ todo' = todo \ {r}
    /\ PacketAdd(a)
    /\ disk' = IF r.kind = "write" /\ a.type = "ok"
               THEN [disk EXCEPT ![r.h] = Overwrite(@, r.off, r.len, r.val)]
               ELSE disk

LEMMA PacketReadStep ==
    ASSUME IInv, PacketRead
    PROVE  IInv'
<1>1. TypeInv /\ FilesInv /\ IdInv /\ DiskInv /\ use \in Uses
  BY DEF IInv, TypeInv
<1>2. /\ UNCHANGED <<use, call, fd, pos, ended, told, misuse>>
      /\ UNCHANGED <<request_id, slot, tail>>
  BY DEF PacketRead, fileVars, toldVars, chanVars
<1>3. PICK r \in todo : \E a \in Answers(r) : Answering(r, a)
  BY DEF PacketRead, Answering, Overwrite
<1>4. PICK a \in Answers(r) : Answering(r, a)
  BY <1>3
<1>5. r \in Rq /\ todo \subseteq Rq
  BY <1>1 DEF TypeInv, ChanType
<1>6. a \in Reply /\ a.id = r.id /\ Fit(use, a, r)
  BY <1>1, <1>5, AnswerFits
<1>7. r \in AllReqs
  BY DEF AllReqs, Reqs, Moving
<1>8. AllReqs' \subseteq AllReqs
  BY <1>2, <1>4 DEF AllReqs, Reqs, Moving, Answering
<1>9. packets' \subseteq packets \union {a}
  BY <1>4 DEF Answering, PacketAdd
<1>10. /\ r.id \in Nat /\ r.h \in Handles /\ r.off \in Int /\ r.len \in Nat /\ r.val \in Int
       /\ \A h \in Handles : disk[h] \in SUBSET (Int \X Int)
       /\ disk \in [Handles -> SUBSET (Int \X Int)]
  BY <1>1, <1>5 DEF Rq, TypeInv
<1>11. disk' \in [Handles -> SUBSET (Int \X Int)]
  <2>1. Overwrite(disk[r.h], r.off, r.len, r.val) \in SUBSET (Int \X Int)
    BY <1>10, OverwriteType
  <2> QED
    BY <1>4, <1>10, <2>1 DEF Answering
<1>12. TypeInv'
  <2>1. packets' \subseteq Reply
    BY <1>1, <1>6, <1>9 DEF TypeInv
  <2>2. ChanType'
    BY <1>1, <1>2, <1>4, <1>5 DEF TypeInv, ChanType, Answering
  <2> QED
    BY <1>1, <1>2, <1>11, <2>1, <2>2 DEF TypeInv
<1>13. FilesInv'
  BY <1>1, <1>2 DEF FilesInv
<1>14. IdInv'
  <2>1. AllReqs \in SUBSET Rq /\ packets \in SUBSET Reply /\ request_id \in Nat
    BY <1>1, ReqsTyped DEF TypeInv
  <2>2. IdOk(use, AllReqs', packets', request_id)
    BY <1>1, <1>6, <1>7, <1>8, <1>9, <2>1, IdAnswered DEF IdInv
  <2> QED
    BY <1>2, <2>2 DEF IdInv
<1>15. DiskInv'
  <2> SUFFICES ASSUME "owing" \notin misuse
               PROVE  DiskOk(use, AllReqs', packets', fd, disk', pos, told)
    BY <1>2 DEF DiskInv
  <2>1. DiskOk(use, AllReqs, packets, fd, disk, pos, told)
    BY <1>1 DEF DiskInv
  <2>2. r.kind = "write" => r.val = r.off
    BY <1>7, <2>1 DEF DiskOk
  <2>3. ASSUME r.kind = "write", a.type = "ok"
        PROVE  disk'[r.h] = Overwrite(disk[r.h], r.off, r.len, r.off)
    BY <1>4, <1>10, <2>2, <2>3 DEF Answering
  <2>4. ASSUME NEW h \in Handles, NEW p \in Int, <<p, p>> \in disk[h]
        PROVE  <<p, p>> \in disk'[h]
    <3>1. CASE r.kind = "write" /\ a.type = "ok" /\ h = r.h
      BY <1>10, <2>3, <2>4, <3>1, OverwriteIs
    <3>2. CASE ~(r.kind = "write" /\ a.type = "ok" /\ h = r.h)
      BY <1>4, <1>10, <2>4, <3>2 DEF Answering
    <3> QED
      BY <3>1, <3>2
  <2>5. \A h \in Handles : \A x, y : Stored(disk[h], x, y) => Stored(disk'[h], x, y)
    BY <2>4 DEF Stored
  <2>6. ASSUME NEW b \in packets', NEW s \in AllReqs', b.id = s.id, b.type = "ok",
               s.kind = "write"
        PROVE  Stored(disk'[s.h], s.off, s.off + s.len)
    <3>0. s \in AllReqs /\ s.h \in Handles
      BY <1>1, <1>8, ReqsTyped DEF Rq
    <3>1. CASE b \in packets
      <4>1. Stored(disk[s.h], s.off, s.off + s.len)
        BY <2>1, <2>6, <3>0, <3>1 DEF DiskOk
      <4> QED
        BY <2>5, <3>0, <4>1
    <3>2. CASE b = a
      <4>1. s = r
        BY <1>1, <1>6, <1>7, <2>6, <3>0, <3>2 DEF IdInv, IdOk
      <4> QED
        BY <1>10, <2>3, <2>6, <3>2, <4>1, OverwriteIs
    <3> QED
      BY <1>9, <3>1, <3>2
  <2>7. \A s \in AllReqs' : s.kind = "write" => s.val = s.off
    BY <1>8, <2>1 DEF DiskOk
  <2>8. \A h \in Handles : ~Reader(use, h) => Stored(disk'[h], pos[h], fd[h].offset)
    BY <2>1, <2>5 DEF DiskOk
  <2>9. \A h \in Handles : \A p \in told[h] : <<p, p>> \in disk'[h]
    <3>1. \A h \in Handles : \A p \in told[h] : <<p, p>> \in disk[h] /\ p \in Int
      BY <1>1, <2>1 DEF DiskOk, TypeInv
    <3> QED
      BY <2>4, <3>1
  <2> QED
    BY <2>6, <2>7, <2>8, <2>9 DEF DiskOk
<1> QED
  BY <1>12, <1>13, <1>14, <1>15 DEF IInv

-------------------------------------------------------------------------------
(* The invariant holds. *)

LEMMA InitOk ==
    ASSUME Init
    PROVE  IInv
<1>1. call = Out /\ call \in Call /\ call.h \in Handles
  BY OutType DEF Init
<1>2. \A h \in Handles :
        /\ fd[h] = [offset |-> 0, offset_sent |-> 0, data |-> <<>>, eof |-> FALSE,
                    acked |-> 0, list |-> <<>>, close |-> "idle", close_id |-> 0]
        /\ pos[h] = 0 /\ ended[h] = FALSE /\ told[h] = {}
  BY DEF Init
<1>3. fd \in [Handles -> File]
  BY EmptyIsSeq DEF Init, File
<1>4. ChanType
  BY EmptyIsSeq DEF Init, ChanType
<1>5. TypeInv
  BY <1>1, <1>3, <1>4 DEF Init, TypeInv
<1>6. \A h \in Handles :
        /\ fd[h].offset = 0 /\ fd[h].offset_sent = 0 /\ fd[h].data = <<>> /\ ~fd[h].eof
        /\ fd[h].acked = 0 /\ fd[h].list = <<>> /\ fd[h].close = "idle"
  BY <1>2
<1>7. FilesInv
  <2>1. CallOk(use, call, fd[call.h], pos[call.h], misuse)
    BY <1>1, OutOk
  <2>2. ASSUME NEW h \in Handles
        PROVE  HandleOk(use, h, fd[h], pos[h], ended[h], call, misuse)
    <3>1. Front(fd[h]) = 0 /\ DOMAIN fd[h].list = {} /\ DOMAIN fd[h].data = {}
      BY <1>6 DEF Front
    <3>2. Exact(fd[h])
      BY <1>6, <3>1 DEF Exact
    <3>3. FileOk(use, h, fd[h])
      BY <1>6, <3>1, <3>2 DEF FileOk, Own
    <3>4. Taking(call, h) = 0 /\ Acking(call, h) = 0
      BY <1>1, OutType DEF Taking, Acking
    <3>5. PosOk(use, h, fd[h], pos[h], call, misuse)
      BY <1>2, <1>6, <3>4 DEF PosOk
    <3>6. SureOk(use, h, fd[h], pos[h], ended[h], call, misuse)
      BY <1>2, <1>6, <3>2, <3>4 DEF SureOk
    <3> QED
      BY <3>3, <3>5, <3>6 DEF HandleOk
  <2> QED
    BY <2>1, <2>2 DEF FilesInv
<1>8. AllReqs = {} /\ packets = {}
  <2>1. Listed(fd) = {} /\ Closings(fd) = {}
    BY <1>6 DEF Listed, Closings, InList
  <2>2. slot = NoSlot /\ tail = <<>> /\ todo = {} /\ packets = {}
    BY DEF Init
  <2> QED
    BY <2>1, <2>2 DEF AllReqs, Reqs, Moving, InList
<1>9. IdInv
  BY <1>8 DEF IdInv, IdOk
<1>10. DiskInv
  <2>1. \A h \in Handles : Stored(disk[h], pos[h], fd[h].offset)
    BY <1>2, <1>6 DEF Stored
  <2> QED
    BY <1>2, <1>8, <2>1 DEF DiskInv, DiskOk
<1> QED
  BY <1>5, <1>7, <1>9, <1>10 DEF IInv

LEMMA StepKeeps ==
    ASSUME IInv, Pure(use), Next
    PROVE  IInv'
<1>1. ASSUME NEW h \in Handles, Client(h)
      PROVE  IInv'
  <2>1. ASSUME NEW size \in use.sizes, ReadLeft(h, size) PROVE IInv'
    BY <2>1, ReadLeftStep
  <2>2. ASSUME NEW size \in use.sizes, ReadBegin(h, size) PROVE IInv'
    BY <2>2, ReadBeginStep
  <2>3. ASSUME NEW size \in use.sizes, ReadResume(h, size) PROVE IInv'
    BY <2>3, ReadResumeStep
  <2>4. ASSUME NEW size \in use.sizes, WriteBegin(h, size) PROVE IInv'
    BY <2>4, WriteBeginStep
  <2>5. CASE ReadEof(h)
    BY <2>5, ReadEofStep
  <2>6. CASE CloseBegin(h)
    BY <2>6, CloseBeginStep
  <2>7. ASSUME NEW p \in use.seeks, Seek(h, p) PROVE IInv'
    BY <2>7, SeekStep
  <2> QED
    BY <1>1, <2>1, <2>2, <2>3, <2>4, <2>5, <2>6, <2>7 DEF Client
<1>2. CASE ReadPrepare
  BY <1>2, ReadPrepareStep
<1>3. CASE ReadSend
  BY <1>3, ReadSendStep
<1>4. CASE CollectEnd
  BY <1>4, CollectEndStep
<1>5. CASE CollectWait
  BY <1>5, CollectWaitStep
<1>6. CASE CollectStatus
  BY <1>6, CollectStatusStep
<1>7. CASE CollectData
  BY <1>7, CollectDataStep
<1>8. CASE ReadDone
  BY <1>8, ReadDoneStep
<1>9. CASE WritePack
  BY <1>9, WritePackStep
<1>10. CASE WriteSend
  BY <1>10, WriteSendStep
<1>11. CASE AckWait
  BY <1>11, AckWaitStep
<1>12. CASE AckOk
  BY <1>12, AckOkStep
<1>13. CASE AckError
  BY <1>13, AckErrorStep
<1>14. CASE WriteDone
  BY <1>14, WriteDoneStep
<1>15. CASE CloseSend
  BY <1>15, CloseSendStep
<1>16. CASE CloseWait
  BY <1>16, CloseWaitStep
<1>17. CASE CloseDone
  BY <1>17, CloseDoneStep
<1>18. CASE PacketRead
  BY <1>18, PacketReadStep
<1> QED
  BY <1>1, <1>2, <1>3, <1>4, <1>5, <1>6, <1>7, <1>8, <1>9, <1>10, <1>11, <1>12, <1>13,
     <1>14, <1>15, <1>16, <1>17, <1>18 DEF Next, Library

LEMMA UseStays == Next => use' = use
<1>1. ASSUME NEW h \in Handles, Client(h) PROVE use' = use
  BY <1>1 DEF Client, ReadLeft, ReadEof, ReadBegin, ReadResume, WriteBegin, Seek, CloseBegin
<1>2. CASE ReadPrepare \/ ReadSend \/ CollectEnd \/ CollectWait \/ CollectStatus
  BY <1>2 DEF ReadPrepare, ReadSend, CollectEnd, CollectWait, CollectStatus
<1>3. CASE CollectData \/ ReadDone \/ WritePack \/ WriteSend \/ AckWait
  BY <1>3 DEF CollectData, ReadDone, WritePack, WriteSend, AckWait
<1>4. CASE AckOk \/ AckError \/ WriteDone \/ CloseSend \/ CloseWait \/ CloseDone
  BY <1>4 DEF AckOk, AckError, WriteDone, CloseSend, CloseWait, CloseDone
<1>5. CASE PacketRead
  BY <1>5 DEF PacketRead
<1> QED
  BY <1>1, <1>2, <1>3, <1>4, <1>5 DEF Next, Library

LEMMA StutterKeeps ==
    ASSUME IInv, UNCHANGED vars
    PROVE  IInv'
<1>1. /\ UNCHANGED <<use, call, fd, pos, ended, told, misuse, request_id, packets, slot>>
      /\ UNCHANGED <<tail, todo, disk>>
  BY DEF vars, fileVars, toldVars, sftpVars, chanVars, serverVars
<1>2. TypeInv'
  BY <1>1 DEF IInv, TypeInv, ChanType
<1>3. FilesInv'
  BY <1>1 DEF IInv, FilesInv
<1>4. AllReqs' = AllReqs
  BY <1>1, SameReqs
<1>5. IdInv' /\ DiskInv'
  BY <1>1, <1>4 DEF IInv, IdInv, DiskInv
<1> QED
  BY <1>1, <1>2, <1>3, <1>5 DEF IInv

(***************************************************************************)
(* If no handle is both read from and written to, every file's list of     *)
(* requests, its offsets and its leftover data fit together in every state *)
(* (exactly, or in a way that keeps sftp_read from handing out anything),  *)
(* ids identify requests, and what is acknowledged is on the server's disk.*)
(***************************************************************************)
THEOREM FilesConsistent == Spec => [](Pure(use) => IInv)
<1>1. Init => (Pure(use) => IInv)
  BY InitOk
<1>2. (Pure(use) => IInv) /\ [Next]_vars => (Pure(use) => IInv)'
  <2> SUFFICES ASSUME Pure(use) => IInv, [Next]_vars, Pure(use')
               PROVE  IInv'
    BY DEF Pure, Reader
  <2>1. use' = use
    BY UseStays DEF vars
  <2>2. Pure(use) /\ IInv
    BY <2>1
  <2> QED
    BY <2>2, StepKeeps, StutterKeeps
<1> QED
  BY <1>1, <1>2, PTL DEF Spec

(***************************************************************************)
(* What sftp_read puts into the client's buffer are the bytes of the file, *)
(* from where the client stands, without gap or repetition; and a read     *)
(* returns 0 only when all bytes of the file have been handed out, unless  *)
(* READ requests fail or are answered short, or leftover data was passed   *)
(* over.                                                                   *)
(***************************************************************************)
THEOREM DataIsRight == Spec => [](Pure(use) => DataRight)
<1>1. ASSUME IInv PROVE DataRight
  <2>1. TypeInv /\ FilesInv
    BY <1>1 DEF IInv
  <2>2. InOrder
    <3>1. call.h \in Handles /\ call.got \in Seq(Int) /\ pos[call.h] \in Int
      BY <2>1 DEF TypeInv, Call
    <3>2. \A k \in DOMAIN call.got : call.got[k] = pos[call.h] + (k - 1)
      BY <2>1 DEF FilesInv, CallOk
    <3>3. \A k \in DOMAIN call.got : pos[call.h] + (k - 1) = pos[call.h] + k - 1
      BY <3>1
    <3> QED
      BY <3>2, <3>3 DEF InOrder
  <2>3. EofMeansAll
    <3> SUFFICES ASSUME NoReadFails, "leftover" \notin misuse, NEW h \in Handles, ended[h]
                 PROVE  pos[h] >= FileLen
      BY DEF EofMeansAll
    <3>1. SureOk(use, h, fd[h], pos[h], ended[h], call, misuse)
      BY <2>1 DEF FilesInv, HandleOk
    <3>2. Reader(use, h)
      BY <3>1 DEF SureOk
    <3>3. Sure(use)
      BY <3>2 DEF NoReadFails, Readers, Reader, Sure
    <3> QED
      BY <3>1, <3>2, <3>3 DEF SureOk
  <2> QED
    BY <2>2, <2>3 DEF DataRight
<1> QED
  BY <1>1, FilesConsistent, PTL

(***************************************************************************)
(* Between calls the handle's offset, which tell64 returns and the next    *)
(* call starts from, less the bytes that are acknowledged and not          *)
(* reported, is where the client stands.                                   *)
(***************************************************************************)
THEOREM TellIsRight == Spec => [](Pure(use) => TellRight)
<1>1. ASSUME IInv PROVE TellRight
  <2> SUFFICES ASSUME "owing" \notin misuse, NoReadFails, call.pc = "out",
                      NEW h \in Handles
               PROVE  fd[h].offset - fd[h].acked = pos[h]
    BY DEF TellRight
  <2>1. TypeInv /\ FilesInv
    BY <1>1 DEF IInv
  <2>2. Taking(call, h) = 0 /\ Acking(call, h) = 0
    BY <2>1, Idle
  <2>3. fd[h] \in File /\ pos[h] \in Int
    BY <2>1 DEF TypeInv
  <2>4. fd[h].offset \in Int /\ fd[h].acked \in Nat
    BY <2>3 DEF File
  <2>5. CASE Reader(use, h)
    <3>1. SureOk(use, h, fd[h], pos[h], ended[h], call, misuse) /\ FileOk(use, h, fd[h])
      BY <2>1 DEF FilesInv, HandleOk
    <3>2. Sure(use)
      BY <2>5 DEF NoReadFails, Readers, Reader, Sure
    <3>3. pos[h] = fd[h].offset - Taking(call, h) /\ fd[h].acked = 0
      BY <2>5, <3>1, <3>2 DEF SureOk, FileOk
    <3> QED
      BY <2>2, <2>3, <2>4, <3>3
  <2>6. CASE ~Reader(use, h)
    <3>1. PosOk(use, h, fd[h], pos[h], call, misuse)
      BY <2>1 DEF FilesInv, HandleOk
    <3>2. pos[h] = (fd[h].offset - fd[h].acked) - Acking(call, h)
      BY <2>6, <3>1 DEF PosOk
    <3> QED
      BY <2>2, <2>3, <2>4, <3>2
  <2> QED
    BY <2>5, <2>6
<1> QED
  BY <1>1, FilesConsistent, PTL

(***************************************************************************)
(* Every position that write has reported as written holds, in the         *)
(* server's file, the byte that was handed in for it.                      *)
(***************************************************************************)
THEOREM ReportedIsInFile == Spec => [](Pure(use) => AckedInFile)
<1>1. ASSUME IInv PROVE AckedInFile
  BY <1>1 DEF IInv, DiskInv, DiskOk, AckedInFile
<1> QED
  BY <1>1, FilesConsistent, PTL
===============================================================================
