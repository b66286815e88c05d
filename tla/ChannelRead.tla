----------------------------- MODULE ChannelRead ------------------------------
(***************************************************************************)
(* The receiving half of a channel: Channel.read_ex, flush_ex, wait_eof,   *)
(* wait_closed and receive_window_adjust2 (ssh2/channel.pyx) over          *)
(* libssh2_channel_read_ex and its helpers (libssh2/src/channel.c) and     *)
(* _libssh2_packet_add (libssh2/src/packet.c).                             *)
(*                                                                         *)
(* Two books are kept of how much the peer may still send: its own,        *)
(* peerWindow, and remote.window_size of the channel, here window.  The    *)
(* second also counts what has been sent and not been read yet.  They      *)
(* agree only if every WINDOW_ADJUST is booked here with the amount that   *)
(* the packet carries.                                                     *)
(*                                                                         *)
(* The bytes the peer sends are numbered in the order of sending, over all *)
(* streams.  A call is broken into the steps between which the state of    *)
(* the channel may change; pc says which call is under way.                *)
(***************************************************************************)
EXTENDS Integers, Sequences

CONSTANTS
    Stream,      \* the streams of the channel
    Stdout,      \* the stream whose packets are CHANNEL_DATA
    InitWindow,  \* channel->remote.window_size_initial
    MinAdjust,   \* LIBSSH2_CHANNEL_MINADJUST
    PacketSize,  \* channel->remote.packet_size
    HeadGap,     \* header of EXTENDED_DATA less header of DATA (13 - 9)
    Wrap,        \* 2^32; read_avail, a size_t, wraps here as well
    AskMax,      \* bound: receive_window_adjust2 takes the window up to this
    Uses         \* the ways the channel is used, see below

(***************************************************************************)
(* A use of the channel: the sizes read is called with, how many bytes the *)
(* peer is going to send and how few it may put into a packet, the mode of *)
(* the session, whether sending may answer EAGAIN, and what else there is: *)
(* calls of the client, timeouts, the loss of the connection.              *)
(***************************************************************************)
OpKinds == {"flush", "adjust", "wait_eof", "wait_closed", "timeout", "drop"}

ASSUME ReadAssumption ==
    /\ Stdout \in Stream
    /\ InitWindow \in Nat \ {0} /\ MinAdjust \in Nat
    /\ PacketSize \in Nat \ {0}
    /\ HeadGap \in Nat /\ Wrap \in Nat /\ Wrap > InitWindow
    /\ AskMax \in Nat
    /\ Uses \subseteq [sizes : SUBSET (Nat \ {0}), total : Nat,
                       least : 1..PacketSize, blocking : BOOLEAN,
                       sendBlocks : BOOLEAN, ops : SUBSET OpKinds]

VARIABLES
    pc,           \* the call under way and where it is
    req,          \* its arguments: the stream and the size
    nread,        \* bytes_read of _libssh2_channel_read
    zero,         \* zero[s]: read has returned 0 for s
    read_state,   \* channel->read_state
    adjust_state, \* channel->adjust_state
    adjust_queue, \* channel->adjust_queue
    adjust_adjust,\* the amount encoded in channel->adjust_adjust
    flush_state,  \* channel->flush_state
    flush_refund, \* channel->flush_refund_bytes
    flush_bytes,  \* channel->flush_flush_bytes
    window,       \* channel->remote.window_size
    read_avail,   \* channel->read_avail
    reof,         \* channel->remote.eof
    rclose,       \* channel->remote.close
    packets,      \* session->packets: the data packets of the channel
    got,          \* got[s]: the bytes that read has returned
    wire,         \* what the peer has sent and was not read from the socket
    peerWindow,   \* what the peer may send, as it sees it
    peer,         \* open, eof or closed
    use,          \* how the channel is used
    sent,         \* how many it has sent
    out,          \* out[s]: the bytes it has sent on s
    sockUp        \* the connection works

callVars == <<pc, req, nread, zero>>
adjustVars == <<adjust_state, adjust_queue, adjust_adjust>>
flushVars == <<flush_state, flush_refund, flush_bytes>>
inVars == <<packets, got, reof, rclose, wire>>
peerVars == <<peer, use, sent, out>>
vars == <<callVars, read_state, adjustVars, flushVars, window, read_avail,
          inVars, peerWindow, peerVars, sockUp>>

PC == {"out", "ask", "ask_force", "adjust", "expand", "drain", "copy", "flush",
       "refund", "wait_eof", "wait_closed"}
Rc == {"OK", "EAGAIN", "SOCKET_SEND"}
Counter == 0 .. (Wrap - 1)
Wire == [type : {"data", "eof", "close"}, stream : Stream, first : Nat, len : Nat]
Queued == [stream : Stream, size : Nat, first : Nat, left : Nat \ {0}]

TypeOK ==
    /\ pc \in PC
    /\ req \in [stream : Stream, size : Nat]
    /\ nread \in 0..req.size
    /\ zero \in [Stream -> BOOLEAN]
    /\ read_state \in {"idle", "jump1"}
    /\ adjust_state \in {"idle", "created"}
    /\ adjust_queue \in Counter /\ adjust_adjust \in Counter
    /\ flush_state \in {"idle", "created"}
    /\ flush_refund \in Counter /\ flush_bytes \in Nat
    /\ window \in Counter /\ read_avail \in Counter
    /\ reof \in BOOLEAN /\ rclose \in BOOLEAN
    /\ packets \in Seq(Queued)
    /\ got \in [Stream -> Seq(Nat)]
    /\ wire \in Seq(Wire)
    /\ peerWindow \in Nat
    /\ peer \in {"open", "eof", "closed"}
    /\ use \in Uses /\ sent \in 0..use.total
    /\ out \in [Stream -> Seq(Nat)]
    /\ sockUp \in BOOLEAN

Init ==
    /\ pc = "out" /\ req = [stream |-> Stdout, size |-> 0] /\ nread = 0
    /\ zero = [s \in Stream |-> FALSE]
    /\ read_state = "idle" /\ adjust_state = "idle" /\ flush_state = "idle"
    /\ adjust_queue = 0 /\ adjust_adjust = 0
    /\ flush_refund = 0 /\ flush_bytes = 0
    /\ window = InitWindow /\ read_avail = 0
    /\ reof = FALSE /\ rclose = FALSE
    /\ packets = <<>> /\ wire = <<>>
    /\ got = [s \in Stream |-> <<>>]
    /\ peerWindow = InitWindow /\ peer = "open"
    /\ use \in Uses /\ sent = 0
    /\ out = [s \in Stream |-> <<>>]
    /\ sockUp = TRUE

Lesser(a, b) == IF a <= b THEN a ELSE b

\* The call answers EAGAIN: in blocking mode BLOCK_ADJUST repeats it from
\* again, unless the session's timeout is over; otherwise it returns.
WouldBlock(again) ==
    \/ use.blocking /\ pc' = again
    \/ (use.blocking => "timeout" \in use.ops) /\ pc' = "out"

-------------------------------------------------------------------------------
(* The receive window. *)

\* Bug: the window grows although the packet is not on its way yet.
ReceiveWindowAdjustEarly(win, adjustment, force, rc) ==
    LET fresh == adjust_state = "idle"
        amount == IF fresh THEN (adjustment + adjust_queue) % Wrap
                           ELSE adjustment % Wrap
        pkt == IF fresh THEN amount ELSE adjust_adjust
    IN  /\ rc = "OK" => sockUp
        /\ rc = "EAGAIN" => sockUp /\ use.sendBlocks
        /\ rc = "SOCKET_SEND" => ~sockUp
        /\ adjust_adjust' = pkt
        /\ adjust_state' = IF rc = "OK" THEN "idle" ELSE "created"
        /\ adjust_queue' = IF fresh THEN 0 ELSE adjust_queue
        /\ window' = IF fresh THEN (win + amount) % Wrap ELSE win
        /\ peerWindow' = IF rc = "OK" THEN peerWindow + pkt ELSE peerWindow

(***************************************************************************)
(* _libssh2_channel_receive_window_adjust.  When an earlier call left the  *)
(* packet unsent, it is that packet which goes out, with the amount it was *)
(* made with; the window grows by the amount of the present call.  win is  *)
(* the window at the time of the call.                                     *)
(***************************************************************************)
ReceiveWindowAdjust(win, adjustment, force, rc) ==
    LET fresh == adjust_state = "idle"
        amount == IF fresh THEN (adjustment + adjust_queue) % Wrap
                           ELSE adjustment % Wrap
        pkt == IF fresh THEN amount ELSE adjust_adjust
    IN  IF fresh /\ ~force /\ adjustment + adjust_queue < MinAdjust
          THEN /\ rc = "OK"
               /\ adjust_queue' = adjust_queue + adjustment
               /\ window' = win
               /\ UNCHANGED <<adjust_state, adjust_adjust, peerWindow>>
        ELSE IF fresh /\ adjustment = 0 /\ adjust_queue = 0
          THEN rc = "OK" /\ window' = win /\ UNCHANGED <<adjustVars, peerWindow>>
        ELSE /\ rc = "OK" => sockUp
             /\ rc = "EAGAIN" => sockUp /\ use.sendBlocks
             /\ rc = "SOCKET_SEND" => ~sockUp
             /\ adjust_adjust' = pkt
             /\ adjust_state' = IF rc = "OK" THEN "idle" ELSE "created"
             /\ adjust_queue' = CASE rc = "SOCKET_SEND" -> amount
                                  [] fresh -> 0
                                  [] OTHER -> adjust_queue
             /\ window' = IF rc = "OK" THEN (win + amount) % Wrap ELSE win
             /\ peerWindow' = IF rc = "OK" THEN peerWindow + pkt ELSE peerWindow

\* Channel.receive_window_adjust2 is called.
Adjust2Call(n, force) ==
    /\ "adjust" \in use.ops /\ pc = "out"
    /\ window + adjust_queue + n <= AskMax
    /\ req' = [stream |-> Stdout, size |-> n] /\ nread' = 0
    /\ pc' = IF force THEN "ask_force" ELSE "ask"
    /\ UNCHANGED <<zero, read_state, adjustVars, flushVars, window, read_avail,
                   inVars, peerWindow, peerVars, sockUp>>

\* It makes, or repeats, the adjustment.
Adjust2(rc) ==
    /\ pc \in {"ask", "ask_force"}
    /\ ReceiveWindowAdjust(window, req.size, pc = "ask_force", rc)
    /\ IF rc = "EAGAIN" THEN WouldBlock(pc) ELSE pc' = "out"
    /\ UNCHANGED <<req, nread, zero, read_state, flushVars, read_avail, inVars,
                   peerVars, sockUp>>

-------------------------------------------------------------------------------
(* Reading. *)

\* Channel.read_ex is called; the size is compared with the window at once.
ReadCall(s, n) ==
    /\ pc = "out" /\ ~zero[s]
    /\ req' = [stream |-> s, size |-> n]
    /\ pc' = IF n > window THEN "adjust" ELSE "expand"
    /\ UNCHANGED <<nread, zero, read_state, adjustVars, flushVars, window,
                   read_avail, inVars, peerWindow, peerVars, sockUp>>

\* libssh2_channel_read_ex makes room for size bytes.  Whatever comes of it,
\* the reading itself is next: rc is overwritten.
ReadAdjust(rc) ==
    /\ pc = "adjust"
    /\ ReceiveWindowAdjust(window, req.size, TRUE, rc)
    /\ \/ pc' = "expand" /\ (rc = "EAGAIN" /\ use.blocking => "timeout" \in use.ops)
       \/ pc' = "adjust" /\ rc = "EAGAIN" /\ use.blocking
    /\ UNCHANGED <<req, nread, zero, read_state, flushVars, read_avail, inVars,
                   peerVars, sockUp>>

\* The window is too narrow, or was so when an earlier call answered EAGAIN.
Narrow ==
    \/ read_state = "jump1"
    \/ window < (InitWindow \div 4) * 3 + req.size

\* By how much the window is expanded.
Expansion ==
    LET short == (InitWindow + req.size + Wrap - window) % Wrap
    IN  IF short < MinAdjust THEN MinAdjust ELSE short

\* _libssh2_channel_read begins: it expands the window if that is too narrow.
ReadExpand(rc) ==
    /\ pc = "expand"
    /\ IF Narrow
         THEN /\ ReceiveWindowAdjust(window, Expansion, FALSE, rc)
              /\ read_state' = IF rc = "OK" THEN "idle" ELSE "jump1"
         ELSE /\ rc = "OK"
              /\ UNCHANGED <<read_state, adjustVars, window, peerWindow>>
    /\ CASE rc = "OK" -> pc' = "drain"
         [] rc = "EAGAIN" -> WouldBlock("expand")
         [] OTHER -> pc' = "out"
    /\ UNCHANGED <<req, nread, zero, flushVars, read_avail, inVars, peerVars,
                   sockUp>>

\* Everything that had arrived was read (TransportRead), or the connection
\* turned out to be lost, and read raises although data may be queued.
ReadDrained ==
    /\ pc = "drain"
    /\ pc' = IF sockUp THEN "copy" ELSE "out"
    /\ UNCHANGED <<req, nread, zero, read_state, adjustVars, flushVars, window,
                   read_avail, inVars, peerWindow, peerVars, sockUp>>

\* The positions in the queue of the packets of stream s.
Of(s) == {i \in 1..Len(packets) : packets[i].stream = s}

First(S) == CHOOSE i \in S : \A j \in S : i <= j

Without(i) == SubSeq(packets, 1, i - 1) \o SubSeq(packets, i + 1, Len(packets))

\* Bug: the packet is unlinked although part of it was not wanted.
AfterTakeUnlinked(i, k) == Without(i)

\* The queue after k bytes of packet i were taken: it is unlinked if drained.
AfterTake(i, k) ==
    IF packets[i].left = k THEN Without(i)
    ELSE [packets EXCEPT ![i].first = @ + k, ![i].left = @ - k]

\* One round of the loop over session->packets: data is copied.
ReadCopy ==
    /\ pc = "copy" /\ nread < req.size /\ Of(req.stream) # {}
    /\ LET i == First(Of(req.stream))
           k == Lesser(req.size - nread, packets[i].left)
       IN  /\ got' = [got EXCEPT ![req.stream] =
                        @ \o [j \in 1..k |-> packets[i].first + j - 1]]
           /\ packets' = AfterTake(i, k)
           /\ nread' = nread + k
    /\ UNCHANGED <<pc, req, zero, read_state, adjustVars, flushVars, window,
                   read_avail, reof, rclose, wire, peerWindow, peerVars, sockUp>>

\* There was nothing to copy: 0 at the end of the stream, otherwise EAGAIN.
ReadNothing ==
    /\ pc = "copy" /\ nread = 0 /\ Of(req.stream) = {}
    /\ \/ /\ reof \/ rclose
          /\ pc' = "out"
          /\ zero' = [zero EXCEPT ![req.stream] = TRUE]
       \/ /\ ~reof /\ ~rclose
          /\ WouldBlock("expand")
          /\ UNCHANGED zero
    /\ UNCHANGED <<req, nread, read_state, adjustVars, flushVars, window,
                   read_avail, inVars, peerWindow, peerVars, sockUp>>

\* Bug: what was read stays counted as available.
ReadReturnUncounted ==
    /\ pc = "copy" /\ nread > 0
    /\ nread = req.size \/ Of(req.stream) = {}
    /\ pc' = "out" /\ nread' = 0
    /\ window' = (window + Wrap - nread) % Wrap
    /\ UNCHANGED <<req, zero, read_state, adjustVars, flushVars, inVars,
                   read_avail, peerWindow, peerVars, sockUp>>

\* Bug: the window does not shrink by what was read.
ReadReturnWide ==
    /\ pc = "copy" /\ nread > 0
    /\ nread = req.size \/ Of(req.stream) = {}
    /\ pc' = "out" /\ nread' = 0
    /\ read_avail' = (read_avail + Wrap - nread) % Wrap
    /\ UNCHANGED <<req, zero, read_state, adjustVars, flushVars, inVars,
                   window, peerWindow, peerVars, sockUp>>

\* read returns what was copied; only now the window shrinks.
ReadReturn ==
    /\ pc = "copy" /\ nread > 0
    /\ nread = req.size \/ Of(req.stream) = {}
    /\ pc' = "out" /\ nread' = 0
    /\ read_avail' = (read_avail + Wrap - nread) % Wrap
    /\ window' = (window + Wrap - nread) % Wrap
    /\ UNCHANGED <<req, zero, read_state, adjustVars, flushVars, inVars,
                   peerWindow, peerVars, sockUp>>

-------------------------------------------------------------------------------
(* Flushing. *)

\* Channel.flush_ex: begun anew, or again after EAGAIN.
FlushCall(s) ==
    /\ "flush" \in use.ops /\ pc = "out"
    /\ req' = [stream |-> s, size |-> 0] /\ nread' = 0
    /\ IF flush_state = "idle"
         THEN pc' = "flush" /\ flush_refund' = 0 /\ flush_bytes' = 0
         ELSE pc' = "refund" /\ UNCHANGED <<flush_refund, flush_bytes>>
    /\ UNCHANGED <<zero, read_state, adjustVars, flush_state, window,
                   read_avail, inVars, peerWindow, peerVars, sockUp>>

(***************************************************************************)
(* A packet of the stream is removed.  What is refunded is data_len - 13,  *)
(* the size of the header of EXTENDED_DATA; that of DATA is smaller by     *)
(* HeadGap, so a small DATA packet wraps the refund around.                *)
(***************************************************************************)
Refund(p) ==
    IF p.stream = Stdout THEN p.size + Wrap - HeadGap ELSE p.size

FlushPacket ==
    /\ pc = "flush" /\ Of(req.stream) # {}
    /\ LET i == First(Of(req.stream))
       IN  /\ packets' = Without(i)
           /\ flush_refund' = (flush_refund + Refund(packets[i])) % Wrap
           /\ flush_bytes' = flush_bytes + packets[i].left
    /\ UNCHANGED <<callVars, read_state, adjustVars, flush_state, window,
                   read_avail, got, reof, rclose, wire, peerWindow, peerVars,
                   sockUp>>

FlushedAll ==
    /\ pc = "flush" /\ Of(req.stream) = {}
    /\ pc' = "refund" /\ flush_state' = "created"
    /\ UNCHANGED <<req, nread, zero, read_state, adjustVars, flush_refund,
                   flush_bytes, window, read_avail, inVars, peerWindow,
                   peerVars, sockUp>>

\* The books are adjusted and the refund is sent, each time the call is made.
FlushRefund(rc) ==
    LET win == (window + Wrap - (flush_bytes % Wrap)) % Wrap IN
    /\ pc = "refund"
    /\ read_avail' = (read_avail + Wrap - (flush_bytes % Wrap)) % Wrap
    /\ IF flush_refund # 0
         THEN ReceiveWindowAdjust(win, flush_refund, TRUE, rc)
         ELSE /\ rc = "OK" /\ window' = win
              /\ UNCHANGED <<adjustVars, peerWindow>>
    /\ flush_state' = IF rc = "EAGAIN" THEN "created" ELSE "idle"
    /\ IF rc = "EAGAIN" THEN WouldBlock("refund") ELSE pc' = "out"
    /\ UNCHANGED <<req, nread, zero, read_state, flush_refund, flush_bytes,
                   inVars, peerVars, sockUp>>

-------------------------------------------------------------------------------
(* Waiting for the end of the stream. *)

\* Channel.wait_eof and wait_closed; the latter raises INVAL before the EOF.
WaitCall(what) ==
    /\ what \in use.ops \cap {"wait_eof", "wait_closed"} /\ pc = "out"
    /\ pc' = IF what = "wait_closed" /\ ~reof THEN "out" ELSE what
    /\ UNCHANGED <<req, nread, zero, read_state, adjustVars, flushVars, window,
                   read_avail, inVars, peerWindow, peerVars, sockUp>>

\* A blocking wait_eof gives up (WINDOW_FULL) when the window is used up.
Exhausted == use.blocking /\ window = read_avail

\* Bug: wait_eof does not look at the window.
WaitReturnNoLimit ==
    /\ \/ pc = "wait_eof" /\ reof
       \/ pc = "wait_closed" /\ rclose
       \/ pc \in {"wait_eof", "wait_closed"} /\ ~sockUp /\ wire = <<>>
    /\ pc' = "out"
    /\ UNCHANGED <<req, nread, zero, read_state, adjustVars, flushVars, window,
                   read_avail, inVars, peerWindow, peerVars, sockUp>>

\* The wait is over: with success, WINDOW_FULL or a lost connection.
WaitReturn ==
    /\ \/ pc = "wait_eof" /\ (reof \/ Exhausted)
       \/ pc = "wait_closed" /\ rclose
       \/ pc \in {"wait_eof", "wait_closed"} /\ ~sockUp /\ wire = <<>>
    /\ pc' = "out"
    /\ UNCHANGED <<req, nread, zero, read_state, adjustVars, flushVars, window,
                   read_avail, inVars, peerWindow, peerVars, sockUp>>

\* There is nothing to read: EAGAIN.
WaitAgain ==
    /\ pc \in {"wait_eof", "wait_closed"} /\ wire = <<>> /\ sockUp
    /\ pc = "wait_eof" => ~reof /\ ~Exhausted
    /\ pc = "wait_closed" => ~rclose
    /\ WouldBlock(pc)
    /\ UNCHANGED <<req, nread, zero, read_state, adjustVars, flushVars, window,
                   read_avail, inVars, peerWindow, peerVars, sockUp>>

\* Channel.eof: the EOF is masked while data of any stream is queued.
ChannelEof == packets = <<>> /\ reof

-------------------------------------------------------------------------------
(* Packets arrive. *)

\* A data packet is queued, as far as the window has room for it.
QueueData(m) ==
    IF window <= read_avail
      THEN UNCHANGED <<packets, read_avail, reof>>
      ELSE LET n == Lesser(Lesser(m.len, PacketSize), window - read_avail)
           IN  /\ packets' = Append(packets, [stream |-> m.stream, size |-> n,
                                              first |-> m.first, left |-> n])
               /\ read_avail' = read_avail + n
               /\ reof' = FALSE

(***************************************************************************)
(* _libssh2_transport_read takes one packet from the socket and            *)
(* _libssh2_packet_add files it: in the drain of a read, in the loop of a  *)
(* wait, or, while this channel's client is elsewhere, in a call for       *)
(* another channel of the session.                                         *)
(***************************************************************************)
TransportRead ==
    /\ pc \in {"out", "drain", "wait_eof", "wait_closed"}
    /\ pc = "wait_eof" => ~reof /\ ~Exhausted
    /\ pc = "wait_closed" => ~rclose
    /\ wire # <<>>
    /\ wire' = Tail(wire)
    /\ IF Head(wire).type = "data" THEN QueueData(Head(wire)) /\ UNCHANGED rclose
       ELSE /\ reof' = TRUE
            /\ rclose' = (rclose \/ Head(wire).type = "close")
            /\ UNCHANGED <<packets, read_avail>>
    /\ UNCHANGED <<callVars, read_state, adjustVars, flushVars, window, got,
                   peerWindow, peerVars, sockUp>>

-------------------------------------------------------------------------------
(* The peer. *)

PeerSend(s, n) ==
    /\ sockUp /\ peer = "open"
    /\ n <= peerWindow /\ sent + n <= use.total
    /\ wire' = Append(wire, [type |-> "data", stream |-> s, first |-> sent + 1,
                             len |-> n])
    /\ sent' = sent + n
    /\ out' = [out EXCEPT ![s] = @ \o [j \in 1..n |-> sent + j]]
    /\ peerWindow' = peerWindow - n
    /\ UNCHANGED <<callVars, read_state, adjustVars, flushVars, window,
                   read_avail, packets, got, reof, rclose, peer, use, sockUp>>

\* EOF follows the last byte, CLOSE the EOF.
PeerEnd ==
    /\ sockUp /\ use.total - sent < use.least /\ peer # "closed"
    /\ peer' = IF peer = "open" THEN "eof" ELSE "closed"
    /\ wire' = Append(wire, [type |-> IF peer = "open" THEN "eof" ELSE "close",
                             stream |-> Stdout, first |-> 0, len |-> 0])
    /\ UNCHANGED <<callVars, read_state, adjustVars, flushVars, window,
                   read_avail, packets, got, reof, rclose, peerWindow, use,
                   sent, out, sockUp>>

Drop ==
    /\ "drop" \in use.ops /\ sockUp
    /\ sockUp' = FALSE
    /\ UNCHANGED <<callVars, read_state, adjustVars, flushVars, window,
                   read_avail, inVars, peerWindow, peerVars>>

\* The client has read every stream to its end.
Finished == pc = "out" /\ (\A s \in Stream : zero[s]) /\ UNCHANGED vars

ClientStep ==
    \/ \E s \in Stream, n \in use.sizes : ReadCall(s, n)
    \/ \E n \in use.sizes, force \in BOOLEAN : Adjust2Call(n, force)
    \/ \E s \in Stream : FlushCall(s)
    \/ \E what \in {"wait_eof", "wait_closed"} : WaitCall(what)

CallStep ==
    \/ \E rc \in Rc : \/ Adjust2(rc) \/ ReadAdjust(rc) \/ ReadExpand(rc)
                     \/ FlushRefund(rc)
    \/ ReadDrained \/ ReadCopy \/ ReadNothing \/ ReadReturn
    \/ FlushPacket \/ FlushedAll
    \/ WaitReturn \/ WaitAgain

PeerStep ==
    \/ \E s \in Stream, n \in use.least..PacketSize : PeerSend(s, n)
    \/ PeerEnd

Next == ClientStep \/ CallStep \/ TransportRead \/ PeerStep \/ Drop \/ Finished

Spec == Init /\ [][Next]_vars

(***************************************************************************)
(* Fairness.  The client keeps reading each stream until read returns 0,   *)
(* and a call that can go on does; sending succeeds in the end when it is  *)
(* tried again and again; the peer sends what it has as soon as its window *)
(* allows, and what it sent arrives.                                       *)
(***************************************************************************)
Fairness ==
    /\ \A s \in Stream : SF_vars(\E n \in use.sizes : ReadCall(s, n))
    /\ SF_vars(ReadExpand("OK")) /\ SF_vars(ReadAdjust("OK"))
    /\ WF_vars(CallStep)
    /\ SF_vars(TransportRead)
    /\ WF_vars(PeerStep)

FairSpec == Spec /\ Fairness

-------------------------------------------------------------------------------
(* Properties. *)

\* Bytes that are in packets the peer has sent and nobody has read yet.
InFlight ==
    LET data == {i \in 1..Len(wire) : wire[i].type = "data"}
    IN  IF data = {} THEN 0 ELSE sent + 1 - wire[First(data)].first

(***************************************************************************)
(* "the receive window (as understood by remote end)": the window that the *)
(* channel keeps is what the peer may still send plus what it has sent and *)
(* the client has not read.  When the channel's window is the larger one,  *)
(* the peer stops sending for good; when it is the smaller one, packet_add *)
(* throws data away.  (Between the copying and the return of a read, the   *)
(* bytes copied are still counted.)                                        *)
(***************************************************************************)
WindowInSync ==
    pc \notin {"flush", "refund"} /\ flush_state = "idle" =>
        window = peerWindow + InFlight + read_avail

\* The client throws nothing away itself.
NoFlush == "flush" \notin use.ops

(***************************************************************************)
(* What the client reads from a stream is what the peer sent on it, in     *)
(* order and without a gap, however data was cut into packets and reads    *)
(* and however often a call was interrupted by EAGAIN.                     *)
(***************************************************************************)
DataIntact ==
    NoFlush => \A s \in Stream :
        /\ Len(got[s]) <= Len(out[s])
        /\ got[s] = SubSeq(out[s], 1, Len(got[s]))

(***************************************************************************)
(* "important to not return 0 until the currently read channel is          *)
(* complete": when read has returned 0 for a stream, the client has every  *)
(* byte that the peer sent on it.                                          *)
(***************************************************************************)
ZeroMeansComplete ==
    NoFlush => \A s \in Stream : zero[s] => peer # "open" /\ got[s] = out[s]

(***************************************************************************)
(* Channel.eof is true only when the client has read everything: no data   *)
(* is left in the queue, in the socket or with the peer.                   *)
(***************************************************************************)
EofMeansRead ==
    NoFlush /\ ChannelEof => peer # "open" /\ \A s \in Stream : got[s] = out[s]

(***************************************************************************)
(* Reading is right in the state it keeps, in what it hands out and in     *)
(* what it says of the end: read returns 0 and Channel.eof is true only    *)
(* for a client that has everything.                                       *)
(***************************************************************************)
ReadsRight == TypeOK /\ DataIntact /\ ZeroMeansComplete /\ EofMeansRead

(***************************************************************************)
(* A non-blocking client reads every stream to its end: the window never   *)
(* strangles the peer.  (A blocking read of one stream waits for ever when *)
(* the data of another stream has filled the window.)                      *)
(***************************************************************************)
AllRead == \A s \in Stream : ~use.blocking => <>zero[s]

(***************************************************************************)
(* A blocking wait_eof comes back: with the EOF, or with WINDOW_FULL when  *)
(* the peer cannot go on because nobody reads what it has sent.            *)
(***************************************************************************)
WaitEofReturns == pc = "wait_eof" ~> pc # "wait_eof"
===============================================================================
