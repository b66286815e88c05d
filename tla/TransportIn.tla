------------------------------ MODULE TransportIn ------------------------------
(***************************************************************************)
(* Taking packets out of the stream of bytes that the socket delivers:     *)
(* _libssh2_transport_read, decrypt and fullpacket                         *)
(* (libssh2/src/transport.c).                                              *)
(*                                                                         *)
(* The socket gives the stream in pieces of any size.  p->buf collects     *)
(* them; from there the bytes of one packet go to p->payload, decrypted as *)
(* far as they can be, until total_num of them are there.  How long a      *)
(* packet is and what may be decrypted when depends on the cipher and the  *)
(* MAC.  A call returns after every packet, and with EAGAIN whenever bytes *)
(* are missing; the next call goes on from what is stored.                 *)
(*                                                                         *)
(* A byte is the position it has in the stream.  Lengths are those of the  *)
(* code except that blocks, MACs and buffers are shorter.  The peer makes  *)
(* its packets as _libssh2_transport_send does.                            *)
(***************************************************************************)
EXTENDS Integers, Sequences, FiniteSetsExt

CONSTANTS
    PacketBuf,   \* PACKETBUFSIZE
    Uses         \* the streams, see below

(***************************************************************************)
(* A stream: its packets, each with the length of its data and the way it  *)
(* is protected.                                                           *)
(*   enc     LIBSSH2_STATE_NEWKEYS is set                                  *)
(*   etm     the MAC is made of the encrypted packet                       *)
(*   full    the cipher has REQUIRES_FULL_PACKET                           *)
(*   integ   the cipher has INTEGRATED_MAC and PKTLEN_AAD                  *)
(*   laad    the cipher of the other direction has PKTLEN_AAD              *)
(*   block   its block size                                                *)
(*   tag     the length of the MAC or of the authentication tag            *)
(***************************************************************************)
Way == [enc : BOOLEAN, etm : BOOLEAN, full : BOOLEAN, integ : BOOLEAN,
        laad : BOOLEAN, block : Nat, tag : Nat]

\* Bug: a short padding is left as it is.
PaddingShort(way, size) ==
    LET block == IF way.enc THEN way.block ELSE 8
        offset == IF way.enc /\ (way.etm \/ way.full \/ way.integ) THEN 4 ELSE 0
    IN  block - ((size + 5 - offset) % block)

\* padding_length in _libssh2_transport_send: at least 4 bytes.
Padding(way, size) ==
    LET block == IF way.enc THEN way.block ELSE 8
        offset == IF way.enc /\ (way.etm \/ way.full \/ way.integ) THEN 4 ELSE 0
        least == block - ((size + 5 - offset) % block)
    IN  IF least < 4 THEN least + block ELSE least

\* The packet_length field, and the bytes of the whole packet.
PacketLength(f) == 1 + f.size + Padding(f.way, f.size)
FrameLen(f) == 4 + PacketLength(f) + (IF f.way.enc THEN f.way.tag ELSE 0)

ASSUME TransportAssumption ==
    /\ PacketBuf \in Nat
    /\ \A u \in Uses : \A k \in DOMAIN u :
         /\ u[k].size \in Nat \ {0} /\ u[k].way \in Way
         /\ u[k].way.enc => u[k].way.block > 5
         /\ u[k].way.integ => u[k].way.tag = u[k].way.block
         /\ FrameLen(u[k]) <= PacketBuf

VARIABLES
    stream,         \* the packets of the stream
    pc,             \* where the call is; "out" between calls
    answer,         \* what the last call returned
    taken,          \* how many bytes the socket has delivered
    buf,            \* p->buf up to writeidx
    readidx,        \* p->readidx
    total_num,      \* p->total_num
    data_num,       \* p->data_num
    packet_length,  \* p->packet_length
    init,           \* p->init
    payload,        \* p->payload up to wptr
    cipher,         \* the byte the cipher is to be given next
    seqno,          \* session->remote.seqno: packets completed
    ready,          \* fullpacket_state created: what packet_add is given
    jump,           \* readPack_state is jump1
    delivered       \* the packets given to packet_add

vars == <<stream, pc, answer, taken, buf, readidx, total_num, data_num,
          packet_length, init, payload, cipher, seqno, ready, jump, delivered>>

-------------------------------------------------------------------------------
(* The stream. *)

\* Start[k]: the position of the first byte of packet k.
Start ==
    [k \in 1..(Len(stream) + 1) |->
        MapThenSumSet(LAMBDA j : FrameLen(stream[j]), 1..(k - 1))]
StreamLen == Start[Len(stream) + 1]

\* The packet that is being received, and how it is protected.
cur == Min({Len(delivered) + 1, Len(stream)})
Frame == stream[cur]
way == Frame.way
From(p, n) == [i \in 1..n |-> p + i - 1]
Clear(s) == [i \in DOMAIN s |-> [at |-> s[i], clear |-> TRUE]]
Raw(s) == [i \in DOMAIN s |-> [at |-> s[i], clear |-> FALSE]]

\* Bytes that are not decrypted.
Copied(s) == IF way.enc THEN Raw(s) ELSE Clear(s)
\* Blocks come out right when the cipher gets them in order, without a gap.
Decrypted(s) == IF s = From(cipher, Len(s)) THEN Clear(s) ELSE Raw(s)

Init ==
    /\ stream \in Uses
    /\ pc = "out" /\ answer = "none"
    /\ taken = 0 /\ buf = <<>> /\ readidx = 0
    /\ total_num = 0 /\ data_num = 0 /\ packet_length = 0
    /\ init = <<>> /\ payload = <<>>
    /\ cipher = 0 /\ seqno = 0
    /\ ready = <<>> /\ jump = FALSE /\ delivered = <<>>

-------------------------------------------------------------------------------
(* One call. *)

Return(a) == pc' = "out" /\ answer' = a
packetVars == <<total_num, data_num, packet_length, init, payload, cipher>>

\* Bug: the packet that packet_add did not finish is not resumed.
PointOneForgets == "loop"
\* Where the call starts: in the loop, or at libssh2_transport_read_point1.
PointOne == IF jump THEN "full" ELSE "loop"

Call ==
    /\ pc = "out" /\ answer \notin {"error", "assert"}
    /\ Len(delivered) < Len(stream)
    /\ pc' = PointOne
    /\ jump' = FALSE
    /\ UNCHANGED <<stream, answer, taken, buf, readidx, packetVars, seqno,
                   ready, delivered>>

blocksize == IF way.enc THEN way.block ELSE 5
remainbuf == Len(buf) - readidx
Unused == SubSeq(buf, readidx + 1, Len(buf))

\* Bug: the socket is read before every packet.
ShortFirst == total_num = 0 \/ remainbuf < blocksize \/ (way.full /\ total_num > remainbuf)
\* More bytes are needed before anything can be done.
Short == remainbuf < blocksize \/ (way.full /\ total_num > remainbuf)

Room == PacketBuf - remainbuf

\* recv delivers n bytes behind what is left in the buffer.
Recv(n) ==
    /\ pc = "loop" /\ Short
    /\ n \in 1..Room /\ taken + n <= StreamLen
    /\ buf' = Unused \o From(taken, n)
    /\ readidx' = 0
    /\ taken' = taken + n
    /\ pc' = "use"
    /\ UNCHANGED <<stream, answer, packetVars, seqno, ready, jump, delivered>>

\* recv would block, or has no room to receive anything.
RecvBlocks ==
    /\ pc = "loop" /\ Short
    /\ buf' = Unused /\ readidx' = 0
    /\ Return(IF Room = 0 THEN "error" ELSE "EAGAIN")
    /\ UNCHANGED <<stream, taken, packetVars, seqno, ready, jump, delivered>>

RecvNot ==
    /\ pc = "loop" /\ ~Short
    /\ pc' = "use"
    /\ UNCHANGED <<stream, answer, taken, buf, readidx, packetVars, seqno,
                   ready, jump, delivered>>

(***************************************************************************)
(* The start of a packet: enough is decrypted to know its length.  What    *)
(* follows the first 5 bytes in the first block belongs to the payload.    *)
(* With etm and with a cipher that wants the full packet, nothing is taken *)
(* out of the buffer yet.                                                  *)
(***************************************************************************)
whole == way.enc /\ (way.etm \/ way.full)

\* How many bytes are to be collected.
Total(len) ==
    LET tag == IF way.enc THEN way.tag ELSE 0
    IN  IF whole THEN 4 + len + tag ELSE len - 1 + tag

\* The length field can be read where a packet starts, and only there.
KnownLength(block) ==
    block[1] = [at |-> Start[cur], clear |-> TRUE]

Header ==
    LET required == IF way.enc /\ way.etm THEN 4 ELSE blocksize
        bytes == SubSeq(Unused, 1, IF whole THEN 4 ELSE blocksize)
        block == IF way.enc /\ ~whole THEN Decrypted(bytes) ELSE Clear(bytes)
    IN  /\ pc = "use" /\ total_num = 0
        /\ IF remainbuf < required
             THEN /\ Return("EAGAIN")
                  /\ UNCHANGED <<readidx, packetVars>>
           ELSE IF ~KnownLength(block)
             THEN /\ Return("error")
                  /\ UNCHANGED <<readidx, packetVars>>
           ELSE /\ packet_length' = PacketLength(Frame)
                /\ init' = SubSeq(block, 1, IF whole THEN 4 ELSE 5)
                /\ cipher' = IF way.enc /\ ~whole THEN cipher + blocksize ELSE cipher
                /\ readidx' = IF whole THEN readidx ELSE readidx + blocksize
                /\ total_num' = Total(PacketLength(Frame))
                /\ payload' = IF whole THEN <<>> ELSE SubSeq(block, 6, blocksize)
                /\ data_num' = IF whole THEN 0 ELSE blocksize - 5
                /\ pc' = "body"
                /\ UNCHANGED answer
        /\ UNCHANGED <<stream, taken, buf, seqno, ready, jump, delivered>>

HeaderKnown ==
    /\ pc = "use" /\ total_num # 0
    /\ pc' = "body"
    /\ UNCHANGED <<stream, answer, taken, buf, readidx, packetVars, seqno,
                   ready, jump, delivered>>

-------------------------------------------------------------------------------
(* The rest of a packet. *)

\* Bug: the last block is never combined with the one before.
FinalChunkSmall(len) == IF len % way.block = 0 THEN way.block ELSE len % way.block
(***************************************************************************)
(* How many bytes decrypt hands to the cipher in its last step.  With      *)
(* PKTLEN_AAD, of which it looks at the wrong direction, a short end goes  *)
(* together with the block before it.                                      *)
(***************************************************************************)
FinalChunk(len) ==
    IF way.laad
      THEN IF len < 2 * way.block THEN len ELSE way.block + (len % way.block)
      ELSE IF len % way.block = 0 THEN way.block ELSE len % way.block

\* decrypt: the assertion, and the tag that must come with the last block.
DecryptFault(len, last) ==
    IF len < 0 \/ (~way.laad /\ len % way.block # 0) THEN "assert"
    ELSE IF len > 0 /\ way.integ /\ last /\ FinalChunk(len) < way.tag THEN "error"
    ELSE "none"

(***************************************************************************)
(* Of n bytes that do not complete the packet: full blocks; an integrated  *)
(* MAC must stay together with the last block.                             *)
(***************************************************************************)
Aligned(n) ==
    LET blocks == n - (n % way.block)
        keep == total_num - way.block - data_num
    IN  IF way.integ /\ keep < blocks THEN keep ELSE blocks

(***************************************************************************)
(* The bytes go to the payload: decrypted, and behind them those of the    *)
(* MAC as they are.                                                        *)
(***************************************************************************)
Body ==
    LET left == total_num - data_num
        n == Min({remainbuf, left})
        skip == IF way.integ THEN 0 ELSE way.tag
        crypt == way.enc /\ ~way.etm
        last == data_num + n >= total_num - skip
        nd == CASE ~crypt -> 0
                [] crypt /\ last -> Max({0, total_num - skip - data_num})
                [] crypt /\ ~last -> Aligned(n)
        rest == IF crypt /\ ~last THEN 0 ELSE n - nd
        fault == IF nd = 0 THEN "none" ELSE DecryptFault(nd, last)
    IN  /\ pc = "body" /\ ~(way.enc /\ way.full)
        /\ IF fault # "none"
             THEN /\ Return(fault)
                  /\ UNCHANGED <<readidx, data_num, payload, cipher>>
             ELSE /\ payload' = payload \o Decrypted(SubSeq(Unused, 1, nd))
                                        \o Copied(SubSeq(Unused, nd + 1, nd + rest))
                  /\ cipher' = cipher + nd
                  /\ readidx' = readidx + nd + rest
                  /\ data_num' = data_num + nd + rest
                  /\ pc' = IF data_num' = total_num THEN "full" ELSE "loop"
                  /\ UNCHANGED answer
        /\ UNCHANGED <<stream, taken, buf, total_num, packet_length, init, seqno,
                       ready, jump, delivered>>

(***************************************************************************)
(* A cipher that wants the full packet decrypts it in the buffer and moves *)
(* the result over the length field, all but its last 4 bytes: those are   *)
(* padding.  The size field is not counted any more.                       *)
(***************************************************************************)
BodyFull ==
    LET n == Min({remainbuf, total_num})
        bytes == SubSeq(Unused, 1, n)
        len == packet_length
        plain == [i \in 1..n |-> IF i <= 4 + len THEN Clear(bytes)[i] ELSE Raw(bytes)[i]]
        moved == [i \in 1..n |-> IF i <= len - 4 THEN plain[i + 4] ELSE plain[i]]
    IN  /\ pc = "body" /\ way.enc /\ way.full
        /\ IF n < total_num
             THEN /\ Return("EAGAIN")
                  /\ UNCHANGED <<readidx, total_num, data_num, payload>>
           ELSE IF bytes # From(Start[cur], n)
             THEN /\ Return("error")
                  /\ total_num' = 0
                  /\ UNCHANGED <<readidx, data_num, payload>>
           ELSE /\ payload' = SubSeq(moved, 1, n - 4)
                /\ readidx' = readidx + n
                /\ total_num' = total_num - 4
                /\ data_num' = n - 4
                /\ pc' = "full"
                /\ UNCHANGED answer
        /\ UNCHANGED <<stream, taken, buf, packet_length, init, cipher, seqno,
                       ready, jump, delivered>>

-------------------------------------------------------------------------------
(* fullpacket. *)

\* The hash of what was received equals the MAC at the end of the payload.
MacConfirmed ==
    LET start == Start[cur]
        mac == SubSeq(payload, total_num - way.tag + 1, total_num)
        body == SubSeq(payload, 1, packet_length - 1)
    IN  CASE ~way.enc \/ way.integ \/ way.full -> TRUE
          [] way.enc /\ way.etm ->
               payload = Raw(From(start, FrameLen(Frame)))
          [] OTHER ->
               /\ init \o body = Clear(From(start, 4 + packet_length))
               /\ mac = Raw(From(start + 4 + packet_length, way.tag))

\* The payload without MAC, length and padding_length fields.
Plain ==
    CASE way.enc /\ way.etm ->
           LET inner == [i \in 1..packet_length |-> payload[4 + i].at]
           IN  Tail(Clear(inner))
      [] way.enc /\ way.full -> SubSeq(payload, 2, packet_length)
      [] OTHER -> SubSeq(payload, 1, packet_length - 1)

\* "ignore the padding"
DataOf(plain) == SubSeq(plain, 1, packet_length - 1 - Padding(way, Frame.size))

(***************************************************************************)
(* A packet is complete: its MAC is checked, with etm it is decrypted only *)
(* now, and its number goes up.                                            *)
(***************************************************************************)
FullPacket ==
    LET rest == packet_length - way.block
        fault == IF way.enc /\ way.etm THEN DecryptFault(rest, TRUE) ELSE "none"
    IN  /\ pc = "full" /\ ready = <<>>
        /\ IF ~MacConfirmed \/ fault # "none"
             THEN /\ Return(IF MacConfirmed THEN fault ELSE "error")
                  /\ total_num' = 0
                  /\ UNCHANGED <<cipher, seqno, ready>>
             ELSE /\ ready' = <<DataOf(Plain)>>
                  /\ seqno' = seqno + 1
                  /\ cipher' = Start[cur + 1]
                  /\ UNCHANGED <<pc, answer, total_num>>
        /\ UNCHANGED <<stream, taken, buf, readidx, data_num, packet_length,
                       init, payload, jump, delivered>>

\* _libssh2_packet_add takes the packet.
PacketAdd ==
    /\ pc = "full" /\ ready # <<>>
    /\ delivered' = delivered \o ready
    /\ ready' = <<>>
    /\ total_num' = 0
    /\ Return("packet")
    /\ UNCHANGED <<stream, taken, buf, readidx, data_num, packet_length, init,
                   payload, cipher, seqno, jump>>

\* It could not send what the packet calls for, and is to be called again.
PacketAddBlocks ==
    /\ pc = "full" /\ ready # <<>>
    /\ jump' = TRUE
    /\ Return("EAGAIN")
    /\ UNCHANGED <<stream, taken, buf, readidx, packetVars, seqno, ready, delivered>>

-------------------------------------------------------------------------------

Receive == \E n \in 1..PacketBuf : Recv(n)
Step == RecvNot \/ Header \/ HeaderKnown \/ Body \/ BodyFull \/ FullPacket
Next == Call \/ Receive \/ RecvBlocks \/ Step \/ PacketAdd \/ PacketAddBlocks

Spec == Init /\ [][Next]_vars

(***************************************************************************)
(* Fairness.  The client calls again; a call goes on; bytes that were sent *)
(* arrive; what packet_add has to send can be sent in the end.             *)
(***************************************************************************)
FairSpec ==
    Spec /\ WF_vars(Call) /\ WF_vars(Step) /\ SF_vars(Receive) /\ SF_vars(PacketAdd)

-------------------------------------------------------------------------------
(* Properties. *)

TypeOK ==
    /\ pc \in {"out", "loop", "use", "body", "full"}
    /\ answer \in {"none", "packet", "EAGAIN", "error", "assert"}
    /\ readidx \in 0..Len(buf) /\ Len(buf) <= PacketBuf
    /\ data_num \in Nat /\ data_num >= Len(payload)
    /\ total_num # 0 => Len(payload) <= total_num
    /\ seqno \in 0..Len(stream) /\ cipher \in 0..StreamLen

(***************************************************************************)
(* packet_add gets the packets the peer has sent, in order, with exactly   *)
(* their data, correctly decrypted, in whatever pieces the bytes arrive    *)
(* and however often the call is interrupted.                              *)
(***************************************************************************)
DeliveredRight ==
    \A k \in DOMAIN delivered :
        delivered[k] = Clear(From(Start[k] + 5, stream[k].size))

(***************************************************************************)
(* A stream as the protocol wants it is never rejected: no length, MAC or  *)
(* decryption error, no buffer without room, no failing assertion.         *)
(***************************************************************************)
NeverRejected == answer \notin {"error", "assert"}

(***************************************************************************)
(* A stream as the protocol wants it is taken without an error and without *)
(* leaving the buffers, in whatever pieces it comes.                       *)
(***************************************************************************)
TakenInBounds == TypeOK /\ NeverRejected

(***************************************************************************)
(* A call that returns EAGAIN for want of bytes has none left to give: the *)
(* next packet is not complete in p->buf, so that a client that waits for  *)
(* the socket now does not wait for what it already has.                   *)
(***************************************************************************)
EagainMeansDrained ==
    pc = "out" /\ answer = "EAGAIN" /\ ~jump /\ Len(delivered) < Len(stream)
        => taken < Start[cur + 1]

\* Every packet is delivered in the end.
AllDelivered == <>(Len(delivered) = Len(stream))
================================================================================
