------------------------------- MODULE SftpFile -------------------------------
(***************************************************************************)
(* The files of one SFTP session: SFTPHandle.read, write, seek64, tell64   *)
(* and close (ssh2/sftp_handle.pyx) over sftp_read, sftp_write,            *)
(* libssh2_sftp_seek64, sftp_close_handle and the packet layer they share  *)
(* (libssh2/src/sftp.c).                                                   *)
(*                                                                         *)
(* A handle reads ahead: it keeps a list of READ requests for consecutive  *)
(* pieces of the file and hands out their answers in the order of the      *)
(* list, whatever the order in which they arrive.  It writes ahead in the  *)
(* same way.  A seek, an error and the end of the file drop the list; the  *)
(* answers that are still to come are thrown away on arrival because their *)
(* ids are kept in zombie_requests.                                        *)
(*                                                                         *)
(* Bytes are numbers: the byte at position p of a file is p, and p is what *)
(* the client hands to write at position p.  A request is PktLen units     *)
(* long on the channel, which takes it in one piece or in several.  Every  *)
(* call of the client is broken into the steps between which the channel   *)
(* may behave in more than one way; call holds the locals of the call.     *)
(* Calls do not overlap, but one that answered EAGAIN need not be followed *)
(* by its retry.  An answer arrives as a whole: what sftp_packet_read has  *)
(* of one that is not complete waits in partial_packet for the next call,  *)
(* whichever that is.                                                      *)
(***************************************************************************)
EXTENDS Integers, Sequences, FiniteSets

CONSTANTS
    Handles,     \* the handles of the session
    FileLen,     \* the length of the files that are read
    MaxRead,     \* MAX_SFTP_READ_SIZE
    MaxWrite,    \* MAX_SFTP_OUTGOING_SIZE
    ReadAhead,   \* buffers a read asks for in advance (4 in the code)
    MaxAhead,    \* and bytes at most: LIBSSH2_CHANNEL_WINDOW_DEFAULT * 4
    PktLen,      \* units of a request on the channel
    Uses         \* the ways the session is used, see below

(***************************************************************************)
(* A use: what the client does with each handle, the sizes it passes and   *)
(* the positions it seeks to; whether the server may answer a READ with    *)
(* fewer bytes than the file has (short), and with an error status         *)
(* (fault); and the bound on the number of requests.                       *)
(***************************************************************************)
Ops == {"read", "write", "close"}

ASSUME SftpAssumption ==
    /\ Handles # {} /\ FileLen \in Nat
    /\ MaxRead \in Nat \ {0} /\ MaxWrite \in Nat \ {0}
    /\ ReadAhead \in Nat \ {0} /\ MaxAhead \in Nat \ {0} /\ PktLen \in Nat \ {0}
    /\ Uses \subseteq [ops : [Handles -> SUBSET Ops],
                       sizes : SUBSET (Nat \ {0}), seeks : SUBSET Nat,
                       short : BOOLEAN, fault : BOOLEAN,
                       requests : Nat]

VARIABLES
    use,         \* how the session is used
    call,        \* the call under way
    fd,          \* fd[h]: the LIBSSH2_SFTP_HANDLE
    pos,         \* pos[h]: where the client stands, by what it was told
    ended,       \* ended[h]: read has returned 0
    told,        \* told[h]: the positions write has reported as written
    request_id,  \* sftp->request_id
    read_state,  \* sftp->read_state
    write_state, \* sftp->write_state
    packets,     \* sftp->packets: answers that were not asked for yet
    zombies,     \* sftp->zombie_requests
    slot,        \* the packet of channel->write_state created
    tail,        \* units the server has of a request it knows in part
    todo,        \* the requests the server has not answered
    disk,        \* disk[h]: what the server has written to the file of h
    misuse,      \* what the client did that the library does not cope with
    internal,    \* sftp_read has come to its "should never reach this point"
    garbled      \* what the server got is not a sequence of requests

toldVars == <<pos, ended, told, internal, misuse>>
fileVars == <<fd, toldVars>>
sftpVars == <<request_id, read_state, write_state, packets, zombies>>
chanVars == <<slot, tail, garbled>>
serverVars == <<todo, disk>>
vars == <<use, call, fileVars, sftpVars, chanVars, serverVars>>

Request == [id : Nat, kind : {"read", "write", "close"}, h : Handles,
            off : Nat, len : Nat, val : Int]
Chunk == [rq : Request, sent : 0..PktLen]
\* packet_type and contents of an answer; n bytes from the position off
Answer == [id : Nat, type : {"data", "eof", "ok", "error"}, off : Nat, n : Nat]
NoSlot == [n |-> 0]

Out == [pc |-> "out", h |-> CHOOSE h \in Handles : TRUE, size |-> 0, i |-> 1,
        count |-> 0, val |-> 0, acked |-> 0, got |-> <<>>]

TypeOK ==
    /\ use \in Uses
    /\ call \in [pc : {"out", "rprepare", "rsend", "collect", "rdone", "wpack", "wsend",
                       "ack", "csend", "cwait"},
                 h : Handles, size : Nat, i : Nat \ {0}, count : Nat,
                 val : Nat, acked : Nat, got : Seq(Nat)]
    /\ fd \in [Handles -> [offset : Nat, offset_sent : Nat, data : Seq(Nat),
                           eof : BOOLEAN, acked : Nat, list : Seq(Chunk),
                           close : {"idle", "created", "sent", "closed"},
                           close_id : Nat]]
    /\ pos \in [Handles -> Nat]
    /\ ended \in [Handles -> BOOLEAN]
    /\ told \in [Handles -> SUBSET Nat]
    /\ request_id \in 0..use.requests
    /\ read_state \in {"idle", "sent", "sent2"}
    /\ write_state \in {"idle", "sent"}
    /\ packets \subseteq Answer
    /\ zombies \subseteq Nat
    /\ slot = NoSlot \/ slot \in [rq : Request, from : 0..PktLen, n : 1..PktLen]
    /\ tail \in Seq([rq : Request, k : 1..PktLen])
    /\ todo \subseteq Request
    /\ disk \in [Handles -> SUBSET (Nat \X Int)]
    /\ misuse \subseteq {"cut", "owing", "leftover"} /\ garbled \in BOOLEAN
    /\ internal \in BOOLEAN

Init ==
    /\ use \in Uses
    /\ call = Out
    /\ fd = [h \in Handles |->
               [offset |-> 0, offset_sent |-> 0, data |-> <<>>, eof |-> FALSE,
                acked |-> 0, list |-> <<>>, close |-> "idle", close_id |-> 0]]
    /\ pos = [h \in Handles |-> 0]
    /\ ended = [h \in Handles |-> FALSE]
    /\ told = [h \in Handles |-> {}]
    /\ request_id = 0
    /\ read_state = "idle" /\ write_state = "idle"
    /\ packets = {} /\ zombies = {}
    /\ slot = NoSlot /\ tail = <<>> /\ todo = {}
    /\ disk = [h \in Handles |-> {}]
    /\ misuse = {} /\ garbled = FALSE
    /\ internal = FALSE

Least(a, b) == IF a <= b THEN a ELSE b
Most(a, b) == IF a >= b THEN a ELSE b
Run(from, n) == [k \in 1..n |-> from + k - 1]
Left(c) == PktLen - c.sent

-------------------------------------------------------------------------------
(* The channel under the requests. *)

Units(rq, from, n) == [k \in 1..n |-> [rq |-> rq, k |-> from + k]]

\* The server puts the units it is sent together to requests.
WholeRequest(u) == \A k \in 1..PktLen : u[k] = [rq |-> u[1].rq, k |-> k]

Sent(units) ==
    LET all == tail \o units
    IN  IF Len(all) < PktLen
        THEN tail' = all /\ UNCHANGED <<todo, garbled>>
        ELSE /\ tail' = SubSeq(all, PktLen + 1, Len(all))
             /\ IF garbled \/ ~WholeRequest(all)
                THEN garbled' = TRUE /\ UNCHANGED todo
                ELSE todo' = todo \union {all[1].rq} /\ UNCHANGED garbled

\* One call of _libssh2_channel_write for the rest of request rq, which
\* answers rc, 0 standing for EAGAIN.  There is no room in the window, or n
\* units are taken and sent, or taken and kept because the socket is full.
\* A call that finds a packet there finishes it, whatever it was called with.
ChannelWrite(rq, sent, rc) ==
    \/ /\ slot = NoSlot /\ rc = 0
       /\ UNCHANGED <<slot, tail, todo, garbled>>
    \/ /\ slot = NoSlot /\ rc = 0
       /\ \E n \in 1..(PktLen - sent) : slot' = [rq |-> rq, from |-> sent, n |-> n]
       /\ UNCHANGED <<tail, todo, garbled>>
    \/ /\ slot = NoSlot /\ rc \in 1..(PktLen - sent)
       /\ Sent(Units(rq, sent, rc))
       /\ UNCHANGED slot
    \/ /\ slot # NoSlot /\ rc = 0
       /\ UNCHANGED <<slot, tail, todo, garbled>>
    \/ /\ slot # NoSlot /\ rc = slot.n
       /\ Sent(Units(slot.rq, slot.from, slot.n))
       /\ slot' = NoSlot

-------------------------------------------------------------------------------
(* The packet layer. *)

NewRequest(kind, h, off, len, val) ==
    [id |-> request_id, kind |-> kind, h |-> h, off |-> off, len |-> len, val |-> val]

\* Bug: nothing is remembered of the requests that were sent.
FlushForgets(list, answers) ==
    /\ packets' = {a \in answers : \A k \in DOMAIN list : list[k].rq.id # a.id}
    /\ UNCHANGED zombies

\* sftp_packetlist_flush: answers that are there are freed, requests that
\* were sent become zombies, the list becomes empty.
Flush(list, answers) ==
    /\ packets' = {a \in answers : \A k \in DOMAIN list : list[k].rq.id # a.id}
    /\ zombies' = zombies \union
          {list[k].rq.id : k \in {j \in DOMAIN list :
                                    /\ \A a \in answers : a.id # list[j].rq.id
                                    /\ list[j].sent > 0}}

\* What the server may answer to request r.
Answers(r) ==
    LET avail == FileLen - r.off
    IN  (IF use.fault /\ r.kind # "close"
         THEN {[id |-> r.id, type |-> "error", off |-> 0, n |-> 0]} ELSE {})
        \union
        (CASE r.kind # "read" -> {[id |-> r.id, type |-> "ok", off |-> 0, n |-> 0]}
           [] r.kind = "read" /\ avail <= 0 ->
                 {[id |-> r.id, type |-> "eof", off |-> 0, n |-> 0]}
           [] OTHER ->
                 LET full == Least(r.len, avail)
                 IN  {[id |-> r.id, type |-> "data", off |-> r.off, n |-> n] :
                        n \in IF use.short THEN 1..full ELSE {full}})

FirstChunk == fd[call.h].list[1]

\* sftp_packet_require and sftp_packet_requirev are looking for the answer to
\* request WaitedId, of one of the packet types WaitedTypes.
Waiting ==
    \/ /\ call.pc \in {"collect", "ack"}
       /\ fd[call.h].list # <<>> /\ Left(FirstChunk) = 0
       /\ call.pc = "ack" => call.acked = 0
    \/ call.pc = "cwait"
WaitedId == IF call.pc = "cwait" THEN fd[call.h].close_id ELSE FirstChunk.rq.id
WaitedTypes == IF call.pc = "collect" THEN {"data", "eof", "ok", "error"}
                                      ELSE {"eof", "ok", "error"}
Fits(a) == a.id = WaitedId /\ a.type \in WaitedTypes

Answered == \E a \in packets : Fits(a)

\* sftp_packet_add keeps an answer unless its request was given up.
PacketAdd(a) ==
    IF a.id \in zombies
    THEN zombies' = zombies \ {a.id} /\ UNCHANGED packets
    ELSE packets' = packets \union {a} /\ UNCHANGED zombies

\* sftp_packet_read: the rest of the next answer arrives.  Calls that got a
\* part of it before were told EAGAIN, as if nothing had come.
PacketRead ==
    /\ Waiting /\ ~ Answered
    /\ ~ garbled
    /\ \E r \in todo : \E a \in Answers(r) :
          /\ todo' = todo \ {r}
          /\ PacketAdd(a)
          /\ disk' = IF r.kind = "write" /\ a.type = "ok"
                     THEN [disk EXCEPT ![r.h] =
                             {d \in @ : d[1] \notin r.off .. (r.off + r.len - 1)}
                             \union {<<r.off + k, r.val + k>> : k \in 0..(r.len - 1)}]
                     ELSE disk
    /\ UNCHANGED <<use, call, fileVars, request_id, read_state, write_state,
                   chanVars>>

-------------------------------------------------------------------------------
(* sftp_read *)

\* A request that was sent in part, or that waits in the channel.
Unfinished == (IF slot = NoSlot THEN {} ELSE {slot.rq})
              \union (IF tail = <<>> THEN {} ELSE {tail[1].rq})

\* The call may send something, and cuts in on a request that has been sent in
\* part.  Only a call of the same operation on the same handle goes on with it.
\* Such a request is left by a call that was interrupted, and also by a read or
\* a write that has returned: it looks for answers as soon as one of the later
\* requests of its list is taken in part.
CutIn(h, op) == IF \E rq \in Unfinished : rq.h # h \/ rq.kind # op THEN {"cut"} ELSE {}
Begin(h, op) == misuse' = misuse \union CutIn(h, op)

MayCall(h, op) == call.pc = "out" /\ op \in use.ops[h] /\ fd[h].close = "idle"

\* Data that an earlier call could not hand out.
ReadLeft(h, size) ==
    /\ MayCall(h, "read") /\ read_state = "idle"
    /\ fd[h].data # <<>>
    /\ LET n == Least(size, Len(fd[h].data))
       IN  /\ fd' = [fd EXCEPT ![h].data = SubSeq(@, n + 1, Len(@)),
                               ![h].offset = @ + n]
           /\ call' = [Out EXCEPT !.pc = "rdone", !.h = h,
                                  !.got = SubSeq(fd[h].data, 1, n)]
    /\ UNCHANGED <<use, toldVars, sftpVars, chanVars, serverVars>>

ReadEof(h) ==
    /\ MayCall(h, "read") /\ read_state = "idle"
    /\ fd[h].data = <<>> /\ fd[h].eof
    /\ ended' = [ended EXCEPT ![h] = TRUE]
    /\ UNCHANGED <<use, call, fd, pos, told, internal, misuse, sftpVars, chanVars, serverVars>>

\* How many more bytes to ask for; EAGAIN of the window adjustment leaves
\* everything as it was.
ReadBegin(h, size) ==
    /\ MayCall(h, "read") /\ read_state = "idle"
    /\ fd[h].data = <<>> /\ ~ fd[h].eof
    /\ LET already == fd[h].offset_sent - fd[h].offset
           count == Most(0, Least(ReadAhead * size, MaxAhead) - already)
       IN  /\ request_id + count <= use.requests
           /\ call' = [Out EXCEPT !.pc = "rprepare", !.h = h, !.size = size,
                                  !.count = count]
    /\ Begin(h, "read")
    /\ UNCHANGED <<use, fd, pos, ended, told, internal, sftpVars, chanVars, serverVars>>

\* The read that was interrupted is resumed, whichever file it was of.  If
\* this one has data left over, it is passed over.
ReadResume(h, size) ==
    /\ MayCall(h, "read") /\ read_state # "idle"
    /\ call' = [Out EXCEPT !.pc = IF read_state = "sent" THEN "rsend" ELSE "collect",
                           !.h = h, !.size = size]
    /\ read_state' = "idle"
    /\ misuse' = misuse \union (IF read_state = "sent" THEN CutIn(h, "read") ELSE {})
                        \union (IF fd[h].data # <<>> THEN {"leftover"} ELSE {})
    /\ UNCHANGED <<use, fd, pos, ended, told, internal, request_id, write_state, packets, zombies,
                   chanVars, serverVars>>

ReadPrepare ==
    /\ call.pc = "rprepare"
    /\ IF call.count = 0
       THEN /\ call' = [call EXCEPT !.pc = "rsend"]
            /\ UNCHANGED <<fd, request_id>>
       ELSE LET h == call.h
                len == Least(MaxRead, Most(call.size, call.count))
                rq == NewRequest("read", h, fd[h].offset_sent, len, 0)
            IN  /\ fd' = [fd EXCEPT ![h].list = Append(@, [rq |-> rq, sent |-> 0]),
                                    ![h].offset_sent = @ + len]
                /\ request_id' = request_id + 1
                /\ call' = [call EXCEPT !.count = @ - Least(len, @)]
    /\ UNCHANGED <<use, toldVars, read_state, write_state, packets,
                   zombies, chanVars, serverVars>>

\* One step of the loop that sends the list: move on from a chunk that is
\* sent, or send more of it.  again is what the loop does with a chunk that
\* was sent in part.
SendStep(next, again) ==
    LET h == call.h
        list == fd[h].list
    IN  IF call.i > Len(list)
        THEN /\ call' = [call EXCEPT !.pc = next]
             /\ UNCHANGED <<fd, read_state, chanVars, todo>>
        ELSE IF Left(list[call.i]) = 0
        THEN /\ call' = [call EXCEPT !.i = @ + 1]
             /\ UNCHANGED <<fd, read_state, chanVars, todo>>
        ELSE \E rc \in 0..PktLen :
             /\ ChannelWrite(list[call.i].rq, list[call.i].sent, rc)
             /\ fd' = [fd EXCEPT ![h].list[call.i].sent = Least(PktLen, @ + rc)]
             /\ IF rc = 0
                THEN /\ call' = Out
                     /\ read_state' = IF call.pc = "rsend" THEN "sent" ELSE read_state
                ELSE /\ call' = IF Left(list[call.i]) <= rc \/ again
                                THEN call ELSE [call EXCEPT !.pc = next]
                     /\ UNCHANGED read_state

ReadSend ==
    /\ call.pc = "rsend"
    /\ SendStep("collect", call.i = 1)
    /\ UNCHANGED <<use, toldVars, request_id, write_state, packets,
                   zombies, disk>>

\* The end of the list, or a chunk that is not sent yet.
CollectEnd ==
    /\ call.pc = "collect" /\ ~ Waiting
    /\ IF call.got # <<>>
       THEN call' = [call EXCEPT !.pc = "rdone"] /\ UNCHANGED internal
       ELSE call' = Out /\ internal' = TRUE
    /\ UNCHANGED <<use, fd, pos, ended, told, misuse, sftpVars, chanVars, serverVars>>

\* The answer is not there: EAGAIN, or TIMEOUT once the session has waited
\* for packet_read_timeout, but never when bytes are in the buffer.
CollectWait ==
    /\ call.pc = "collect" /\ Waiting /\ ~ Answered
    /\ IF call.got # <<>>
       THEN call' = [call EXCEPT !.pc = "rdone"] /\ UNCHANGED read_state
       ELSE call' = Out /\ read_state' = "sent2"
    /\ UNCHANGED <<use, fileVars, request_id, write_state, packets, zombies,
                   chanVars, serverVars>>

\* A status ends the list: the end of the file, or an error.
CollectStatus ==
    /\ call.pc = "collect" /\ Waiting
    /\ \E a \in packets :
          /\ Fits(a) /\ a.type # "data"
          /\ LET h == call.h
                 rest == Tail(fd[h].list)
             IN  /\ Flush(rest, packets \ {a})
                 /\ fd' = [fd EXCEPT ![h].list = <<>>,
                                     ![h].eof = @ \/ a.type = "eof"]
          /\ IF a.type = "eof"
             THEN /\ call' = [call EXCEPT !.pc = "rdone"]
                  /\ ended' = [ended EXCEPT ![call.h] = @ \/ call.got = <<>>]
             ELSE call' = Out /\ UNCHANGED ended
    /\ UNCHANGED <<use, pos, told, internal, misuse, request_id, read_state, write_state,
                   chanVars, serverVars>>

\* Bug: the offset of the chunk is not looked at.
CollectDataAnywhere ==
    /\ call.pc = "collect" /\ Waiting
    /\ \E a \in packets :
          /\ Fits(a) /\ a.type = "data"
          /\ packets' = packets \ {a}
          /\ LET h == call.h
                 n == Least(a.n, call.size - Len(call.got))
                 got == call.got \o Run(a.off, n)
             IN  IF FALSE
                 THEN call' = Out /\ UNCHANGED fd
                 ELSE /\ fd' = [fd EXCEPT
                                  ![h].offset = @ + n,
                                  ![h].offset_sent = @ - (FirstChunk.rq.len - a.n),
                                  ![h].data = Run(a.off + n, a.n - n),
                                  ![h].list = Tail(@)]
                      /\ call' = [call EXCEPT
                                    !.got = got,
                                    !.pc = IF Len(got) < call.size THEN @ ELSE "rdone"]
    /\ UNCHANGED <<use, toldVars, request_id, read_state, write_state, zombies,
                   chanVars, serverVars>>

\* Data for the first chunk.  At an unexpected offset the answer is gone and
\* the chunk stays; otherwise what fits is handed out and the rest is kept.
CollectData ==
    /\ call.pc = "collect" /\ Waiting
    /\ \E a \in packets :
          /\ Fits(a) /\ a.type = "data"
          /\ packets' = packets \ {a}
          /\ LET h == call.h
                 n == Least(a.n, call.size - Len(call.got))
                 got == call.got \o Run(a.off, n)
             IN  IF FirstChunk.rq.off # fd[h].offset
                 THEN call' = Out /\ UNCHANGED fd
                 ELSE /\ fd' = [fd EXCEPT
                                  ![h].offset = @ + n,
                                  ![h].offset_sent = @ - (FirstChunk.rq.len - a.n),
                                  ![h].data = Run(a.off + n, a.n - n),
                                  ![h].list = Tail(@)]
                      /\ call' = [call EXCEPT
                                    !.got = got,
                                    !.pc = IF Len(got) < call.size THEN @ ELSE "rdone"]
    /\ UNCHANGED <<use, toldVars, request_id, read_state, write_state, zombies,
                   chanVars, serverVars>>

\* SFTPHandle.read returns the bytes.
ReadDone ==
    /\ call.pc = "rdone"
    /\ pos' = [pos EXCEPT ![call.h] = @ + Len(call.got)]
    /\ call' = Out
    /\ UNCHANGED <<use, fd, ended, told, internal, misuse, sftpVars, chanVars, serverVars>>

-------------------------------------------------------------------------------
(* sftp_write *)

\* Bug: acknowledged bytes that were not reported are not counted.
AlreadySent(h) == fd[h].offset_sent - fd[h].offset

\* Bytes that are on their way, and acknowledged ones that were not reported,
\* are handed in again and skipped.
Already(h) == fd[h].offset_sent - fd[h].offset + fd[h].acked

WriteBegin(h, size) ==
    /\ MayCall(h, "write")
    /\ pos[h] + size <= FileLen
    /\ request_id + size <= use.requests
    /\ call' = [Out EXCEPT !.pc = IF write_state = "sent" THEN "ack" ELSE "wpack",
                           !.h = h, !.size = size,
                           !.count = Most(0, size - Already(h)),
                           !.val = pos[h] + Already(h)]
    /\ write_state' = "idle"
    /\ IF write_state = "idle" THEN Begin(h, "write") ELSE UNCHANGED misuse
    /\ UNCHANGED <<use, fd, pos, ended, told, internal, request_id, read_state, packets, zombies, chanVars,
                   serverVars>>

WritePack ==
    /\ call.pc = "wpack"
    /\ IF call.count = 0
       THEN /\ call' = [call EXCEPT !.pc = "wsend"]
            /\ UNCHANGED <<fd, request_id>>
       ELSE LET h == call.h
                len == Least(MaxWrite, call.count)
                rq == NewRequest("write", h, fd[h].offset_sent, len, call.val)
            IN  /\ fd' = [fd EXCEPT ![h].list = Append(@, [rq |-> rq, sent |-> 0]),
                                    ![h].offset_sent = @ + len]
                /\ request_id' = request_id + 1
                /\ call' = [call EXCEPT !.count = @ - len, !.val = @ + len]
    /\ UNCHANGED <<use, toldVars, read_state, write_state, packets, zombies, chanVars,
                   serverVars>>

WriteSend ==
    /\ call.pc = "wsend"
    /\ SendStep("ack", FALSE)
    /\ UNCHANGED <<use, toldVars, request_id, write_state, packets, zombies, disk>>

\* No acknowledgement yet.
AckWait ==
    /\ call.pc = "ack" /\ Waiting /\ ~ Answered
    /\ call' = Out
    /\ write_state' = "sent"
    /\ UNCHANGED <<use, fileVars, request_id, read_state, packets, zombies, chanVars,
                   serverVars>>

\* Bug: the chunk stays in the list.
AckOkKeeps ==
    /\ call.pc = "ack" /\ Waiting
    /\ \E a \in packets :
          /\ Fits(a) /\ a.type = "ok"
          /\ packets' = packets \ {a}
          /\ call' = [call EXCEPT !.acked = @ + FirstChunk.rq.len]
          /\ fd' = [fd EXCEPT ![call.h].offset = @ + FirstChunk.rq.len]
    /\ UNCHANGED <<use, toldVars, request_id, read_state, write_state, zombies,
                   chanVars, serverVars>>

AckOk ==
    /\ call.pc = "ack" /\ Waiting
    /\ \E a \in packets :
          /\ Fits(a) /\ a.type = "ok"
          /\ packets' = packets \ {a}
          /\ call' = [call EXCEPT !.acked = @ + FirstChunk.rq.len]
          /\ fd' = [fd EXCEPT ![call.h].offset = @ + FirstChunk.rq.len,
                              ![call.h].list = Tail(@)]
    /\ UNCHANGED <<use, toldVars, request_id, read_state, write_state, zombies,
                   chanVars, serverVars>>

\* Bug: acknowledged bytes that were not reported stay counted.
AckErrorStays ==
    /\ call.pc = "ack" /\ Waiting
    /\ \E a \in packets :
          /\ Fits(a) /\ a.type # "ok"
          /\ Flush(fd[call.h].list, packets \ {a})
          /\ fd' = [fd EXCEPT ![call.h].list = <<>>,
                              ![call.h].offset_sent = fd[call.h].offset,
                              ![call.h].acked = 0]
          /\ call' = Out
    /\ UNCHANGED <<use, toldVars, request_id, read_state, write_state, chanVars,
                   serverVars>>

\* The server refused: give up the list and go back to what was reported.
AckError ==
    /\ call.pc = "ack" /\ Waiting
    /\ \E a \in packets :
          /\ Fits(a) /\ a.type # "ok"
          /\ Flush(fd[call.h].list, packets \ {a})
          /\ fd' = [fd EXCEPT ![call.h].list = <<>>,
                              ![call.h].offset = @ - fd[call.h].acked,
                              ![call.h].offset_sent =
                                 fd[call.h].offset - fd[call.h].acked,
                              ![call.h].acked = 0]
          /\ call' = Out
    /\ UNCHANGED <<use, toldVars, request_id, read_state, write_state, chanVars,
                   serverVars>>

\* Report what is acknowledged, but not more than was handed in.
WriteDone ==
    /\ call.pc = "ack" /\ ~ Waiting
    /\ LET h == call.h
           acked == call.acked + fd[h].acked
           ret == Least(acked, call.size)
       IN  /\ fd' = [fd EXCEPT ![h].acked = acked - ret]
           /\ pos' = [pos EXCEPT ![h] = @ + ret]
           /\ told' = [told EXCEPT ![h] = @ \union pos[h] .. (pos[h] + ret - 1)]
    /\ call' = Out
    /\ UNCHANGED <<use, ended, internal, misuse, sftpVars, chanVars, serverVars>>

-------------------------------------------------------------------------------
(* libssh2_sftp_seek64 and sftp_close_handle *)

Seek(h, p) ==
    /\ call.pc = "out" /\ fd[h].close = "idle"
    /\ p \in use.seeks
    /\ pos' = [pos EXCEPT ![h] = p]
    /\ misuse' = misuse
          \union (IF \E rq \in Unfinished : rq.h = h THEN {"cut"} ELSE {})
          \union (IF fd[h].acked > 0 THEN {"owing"} ELSE {})
    /\ IF fd[h].offset = p /\ fd[h].offset_sent = p
       THEN UNCHANGED <<fd, ended, packets, zombies>>
       ELSE /\ Flush(fd[h].list, packets)
            /\ fd' = [fd EXCEPT ![h].offset = p, ![h].offset_sent = p,
                                ![h].list = <<>>, ![h].data = <<>>,
                                ![h].eof = FALSE]
            /\ ended' = [ended EXCEPT ![h] = FALSE]
    /\ UNCHANGED <<use, call, told, internal, request_id, read_state, write_state,
                   chanVars, serverVars>>

\* The handle is gone, whatever came of the request.
Free(h, answers) ==
    /\ Flush(fd[h].list, answers)
    /\ fd' = [fd EXCEPT ![h].list = <<>>, ![h].data = <<>>, ![h].close = "closed"]
    /\ read_state' = "idle"
    /\ call' = Out

CloseBegin(h) ==
    /\ call.pc = "out" /\ "close" \in use.ops[h] /\ fd[h].close # "closed"
    /\ request_id < use.requests
    /\ IF fd[h].close = "idle"
       THEN /\ fd' = [fd EXCEPT ![h].close = "created", ![h].close_id = request_id]
            /\ request_id' = request_id + 1
       ELSE UNCHANGED <<fd, request_id>>
    /\ call' = [Out EXCEPT !.h = h,
                           !.pc = IF fd[h].close = "sent" THEN "cwait" ELSE "csend"]
    /\ IF fd[h].close = "sent" THEN UNCHANGED misuse ELSE Begin(h, "close")
    /\ UNCHANGED <<use, pos, ended, told, internal, read_state, write_state, packets, zombies, chanVars,
                   serverVars>>

\* The request goes out at once, or it counts as failed and the handle is
\* freed all the same.
CloseSend ==
    /\ call.pc = "csend"
    /\ LET h == call.h
           rq == [id |-> fd[h].close_id, kind |-> "close", h |-> h,
                  off |-> 0, len |-> 0, val |-> 0]
       IN  \E rc \in 0..PktLen :
           /\ ChannelWrite(rq, 0, rc)
           /\ \/ /\ rc = 0
                 /\ call' = Out
                 /\ UNCHANGED <<fd, packets, zombies, read_state>>
              \/ /\ rc = PktLen
                 /\ call' = [call EXCEPT !.pc = "cwait"]
                 /\ fd' = [fd EXCEPT ![h].close = "sent"]
                 /\ UNCHANGED <<packets, zombies, read_state>>
              \/ /\ rc \in 1..(PktLen - 1)
                 /\ Free(h, packets)
    /\ UNCHANGED <<use, toldVars, request_id, write_state, disk>>

CloseWait ==
    /\ call.pc = "cwait" /\ ~ Answered
    /\ call' = Out
    /\ UNCHANGED <<use, fileVars, sftpVars, chanVars, serverVars>>

CloseDone ==
    /\ call.pc = "cwait"
    /\ \E a \in packets : Fits(a) /\ Free(call.h, packets \ {a})
    /\ UNCHANGED <<use, toldVars, request_id, write_state, chanVars,
                   serverVars>>

-------------------------------------------------------------------------------
Client(h) ==
    \/ \E size \in use.sizes :
          ReadLeft(h, size) \/ ReadBegin(h, size) \/ ReadResume(h, size)
          \/ WriteBegin(h, size)
    \/ ReadEof(h) \/ CloseBegin(h)
    \/ \E p \in use.seeks : Seek(h, p)

Library ==
    \/ ReadPrepare \/ ReadSend \/ CollectEnd \/ CollectWait \/ CollectStatus
    \/ CollectData \/ ReadDone
    \/ WritePack \/ WriteSend \/ AckWait \/ AckOk \/ AckError \/ WriteDone
    \/ CloseSend \/ CloseWait \/ CloseDone

Next == (\E h \in Handles : Client(h)) \/ Library \/ PacketRead

Spec == Init /\ [][Next]_vars

\* A client that keeps calling, a library that runs, a channel that takes
\* something if it is asked again and again, and a server whose answers
\* arrive if they are asked for again and again.
Taken == (ReadSend \/ WriteSend \/ CloseSend) /\ fd' # fd

LiveSpec ==
    /\ Spec
    /\ WF_vars(Library) /\ WF_vars(\E h \in Handles : Client(h))
    /\ SF_vars(Taken) /\ SF_vars(PacketRead)

-------------------------------------------------------------------------------
(* Properties. *)

WellUsed == misuse = {}
Readers == {h \in Handles : "read" \in use.ops[h]}
\* The server answers a READ with all there is or with the end of the file.
NoReadFails == Readers = {} \/ (~ use.fault /\ ~ use.short)

\* What sftp_read puts into the client's buffer are the bytes of the file
\* from where the client stands, without gap or repetition: for any order of
\* the answers, short answers, errors, seeks, and two files read in turns.
InOrder ==
    ~ garbled => \A k \in DOMAIN call.got : call.got[k] = pos[call.h] + k - 1

\* A read that returns 0, which ends the iteration over an SFTPHandle, has
\* been preceded by all bytes of the file, unless READ requests fail or are
\* answered short, or bytes were passed over because another file's read was
\* interrupted.
EofMeansAll ==
    ~ garbled /\ NoReadFails /\ "leftover" \notin misuse =>
       \A h \in Handles : ended[h] => pos[h] >= FileLen

\* "Some data may already have been read from the server in the previous call
\* but didn't fit in the buffer at the time. If so, we return that now": a
\* read does not say that the file has ended while such data is left.
\* Violated when another file's read was interrupted.
LeftoverFirst == \A h \in Handles : ended[h] => fd[h].data = <<>>

\* Between calls the handle's offset, less what is acknowledged and not
\* reported, is where the client stands: tell64 and the next call agree with
\* what read and write have reported, after failed writes too.
TellRight ==
    ~ garbled /\ "owing" \notin misuse /\ NoReadFails /\ call.pc = "out" =>
       \A h \in Handles : fd[h].offset - fd[h].acked = pos[h]

\* What write has reported is in the file at the right position, for any
\* sizes of the buffers handed in again after EAGAIN and short returns, and
\* for failures of other parts.
AckedInFile ==
    ~ garbled /\ "owing" \notin misuse =>
       \A h \in Handles : \A p \in told[h] : <<p, p>> \in disk[h]

\* The server gets whole requests one after the other as long as a request that
\* was sent in part is followed by the same operation on the same handle, be it
\* that the call was interrupted or that it has returned, and no READ or WRITE
\* fails: a failure gives up the whole list of the handle, a request that was
\* sent in part with it, and the next call's request is mixed with that one.
StreamIntact == WellUsed /\ ~ use.fault => ~ garbled

\* A read that returns has sent its requests to the end, so that the program
\* is free to go on with another file.  Violated by what is asked for ahead.
ReturnedIsSent == call.pc = "rdone" => Unfinished = {}

Live(h) ==
    {fd[h].list[k].rq.id : k \in {j \in DOMAIN fd[h].list : Left(fd[h].list[j]) = 0}}
    \union (IF fd[h].close = "sent" THEN {fd[h].close_id} ELSE {})
LiveIds == UNION {Live(h) : h \in Handles}
Owed == {r.id : r \in todo} \union {a.id : a \in packets}

\* A request that counts as sent is with the server or its answer is here: no
\* call waits for an answer that cannot come.
AwaitedIsOwed == WellUsed /\ ~ garbled /\ NoReadFails => LiveIds \subseteq Owed

\* An answer that is to come, or has come, is one that a handle waits for or
\* one that will be thrown away on arrival: seek, close, errors and the end
\* of the file leave nothing in sftp->packets.
AnswersTaken == WellUsed /\ ~ garbled => Owed \subseteq LiveIds \union zombies

\* An id that is kept to throw away an answer belongs to an answer that is
\* still to come.
ZombiesDie ==
    WellUsed /\ ~ use.fault /\ ~ use.short =>
       zombies \subseteq {r.id : r \in todo} \union {tail[k].rq.id : k \in DOMAIN tail}

\* One file read from the start to the end never comes to the places in
\* sftp_read that "should never" be reached.
NeverInternal ==
    WellUsed /\ NoReadFails /\ use.seeks = {} /\ Cardinality(Readers) <= 1 => ~ internal

\* What a client reads is the file, in order and, when it is told so, to the
\* end.
DataRight == InOrder /\ EofMeansAll

\* Requests and answers fit together: the server gets whole requests, nobody
\* waits for an answer that cannot come, no answer is left over, none is
\* expected that will not come, and sftp_read never finds itself without
\* either a request or data.  For programs that let a request that was sent in
\* part be followed by the same operation on the same handle (WellUsed), even
\* if that call has returned, and with the further premises of each part.
DialogueRight ==
    /\ TypeOK /\ StreamIntact /\ AwaitedIsOwed /\ AnswersTaken /\ ZombiesDie
    /\ NeverInternal

Solo(h, op) ==
    /\ use.ops = [g \in Handles |-> IF g = h THEN {op} ELSE {}]
    /\ use.seeks = {} /\ ~ use.fault /\ ~ use.short
\* Reading a file to the end, and writing one, comes to an end, whatever sizes
\* the buffers have and however often the calls are interrupted.
TransfersEnd ==
    \A h \in Handles : /\ Solo(h, "read") => <>ended[h]
                       /\ Solo(h, "write") => <>(pos[h] = FileLen)
===============================================================================
