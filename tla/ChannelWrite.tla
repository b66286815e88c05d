----------------------------- MODULE ChannelWrite -----------------------------
(***************************************************************************)
(* The sending half of the channels of one session: Channel.write,         *)
(* write_ex and write_stderr (ssh2/channel.pyx) over                       *)
(* _libssh2_channel_write, channel_send_eof and _libssh2_channel_close     *)
(* (libssh2/src/channel.c) over the single outgoing packet slot of         *)
(* _libssh2_transport_send (libssh2/src/transport.c).                      *)
(*                                                                         *)
(* A writer is a greenlet or thread that writes one buffer to its channel  *)
(* the way the docstring of Channel.write tells it to: it calls write and, *)
(* when that answers LIBSSH2_ERROR_EAGAIN, calls it again with             *)
(* buf[bytes_written:].  One step is one call of a libssh2 function; the   *)
(* steps of different writers interleave freely.  Byte i of the buffer of  *)
(* writer w is <<w, i>>, so what the peer receives shows whose bytes       *)
(* arrived and in which order.                                             *)
(***************************************************************************)
EXTENDS Integers, Sequences

CONSTANTS
    Channel,     \* the open channels of the session
    Writer,      \* the clients that write
    Chan,        \* Chan[w]: the channel that w writes to
    BufLen,      \* BufLen[w]: the size in bytes of the buffer of w
    ChunkMax,    \* most bytes one libssh2 call takes (32700 in the code)
    PacketSize,  \* channel->local.packet_size, the peer's packet limit
    InitWindow,  \* the window the peer opened the channel with
    GrantMax,    \* bound: the peer grants at most this many bytes in total
    StackAddr,   \* addresses the packet of channel_send_eof may have
    Blocking,    \* session->api_block_mode
    Faults,      \* which faults the environment may show, see below
    NoPacket     \* stands for session->packet.olen = 0

(***************************************************************************)
(* "drop": the connection may be lost.  "timeout": a blocking call may run *)
(* into session->api_timeout.  "peerclose": the peer may close a channel   *)
(* before it was asked to.  "impatient": send_eof and close may be called  *)
(* while a writer of the channel has not finished.                         *)
(***************************************************************************)
FaultKinds == {"drop", "timeout", "peerclose", "impatient"}

Byte == Writer \X Nat
Addr == ({"write", "close"} \X Channel) \cup ({"stack"} \X StackAddr)
Msg == [type : {"data", "eof", "close"}, ch : Channel, body : Seq(Byte)]
Packet == [odata : Addr, msg : Msg]
Rc == {"OK", "EAGAIN", "SOCKET_SEND"}

ASSUME ConstantsAssumption ==
    /\ Chan \in [Writer -> Channel]
    /\ BufLen \in [Writer -> Nat \ {0}]
    /\ ChunkMax \in Nat \ {0} /\ PacketSize \in Nat \ {0}
    /\ InitWindow \in Nat /\ GrantMax \in Nat
    /\ StackAddr # {}
    /\ Blocking \in BOOLEAN
    /\ Faults \subseteq FaultKinds
    /\ NoPacket \notin Packet

VARIABLES
    pc,          \* pc[w]: where the client w is
    pos,         \* pos[w]: bytes that write has reported as written to w
    off,         \* off[w]: offset of the pointer _buf in the buffer of w
    write_state, \* channel->write_state
    bufwrite,    \* channel->write_bufwrite
    window,      \* channel->local.window_size
    leof,        \* channel->local.eof
    lclose,      \* channel->local.close
    rclose,      \* channel->remote.close
    close_state, \* channel->close_state
    close_pc,    \* progress of a running libssh2_channel_close
    packet,      \* session->packet: the packet that is not fully sent yet
    sockUp,      \* the connection works
    adj,         \* adj[c]: window adjustment in bytes, sent and not yet read
    peerClose,   \* the peer's CLOSE of the channel: none, sent or read
    granted,     \* window bytes the peer has granted in total
    recv,        \* recv[c]: data bytes the peer has received
    ctl          \* ctl[c]: the control messages the peer has received

clientVars == <<pc, pos, off>>
writeVars == <<write_state, bufwrite>>
closeVars == <<leof, lclose, close_state, close_pc>>
inVars == <<window, rclose, adj, peerClose>>
outVars == <<packet, recv, ctl>>
envVars == <<sockUp, granted>>
vars == <<clientVars, writeVars, closeVars, inVars, outVars, envVars>>

PC == {"idle", "writing", "done", "failed", "overrun"}

TypeOK ==
    /\ pc \in [Writer -> PC]
    /\ pos \in [Writer -> Nat]
    /\ off \in [Writer -> Nat]
    /\ write_state \in [Channel -> {"idle", "created"}]
    /\ bufwrite \in [Channel -> Nat]
    /\ window \in [Channel -> Nat]
    /\ leof \in [Channel -> BOOLEAN]
    /\ lclose \in [Channel -> BOOLEAN]
    /\ rclose \in [Channel -> BOOLEAN]
    /\ close_state \in [Channel -> {"idle", "created", "sent"}]
    /\ close_pc \in [Channel -> {"out", "send", "wait"}]
    /\ packet \in Packet \cup {NoPacket}
    /\ sockUp \in BOOLEAN
    /\ adj \in [Channel -> Nat]
    /\ peerClose \in [Channel -> {"none", "sent", "read"}]
    /\ granted \in [Channel -> Nat]
    /\ recv \in [Channel -> Seq(Byte)]
    /\ ctl \in [Channel -> SUBSET {"eof", "close"}]

Init ==
    /\ pc = [w \in Writer |-> "idle"]
    /\ pos = [w \in Writer |-> 0]
    /\ off = [w \in Writer |-> 0]
    /\ write_state = [c \in Channel |-> "idle"]
    /\ bufwrite = [c \in Channel |-> 0]
    /\ window = [c \in Channel |-> InitWindow]
    /\ leof = [c \in Channel |-> FALSE]
    /\ lclose = [c \in Channel |-> FALSE]
    /\ rclose = [c \in Channel |-> FALSE]
    /\ close_state = [c \in Channel |-> "idle"]
    /\ close_pc = [c \in Channel |-> "out"]
    /\ packet = NoPacket
    /\ sockUp = TRUE
    /\ adj = [c \in Channel |-> 0]
    /\ peerClose = [c \in Channel |-> "none"]
    /\ granted = [c \in Channel |-> InitWindow]
    /\ recv = [c \in Channel |-> <<>>]
    /\ ctl = [c \in Channel |-> {}]

-------------------------------------------------------------------------------
(* The transport layer. *)

\* n bytes of the buffer of w after the first o: what the pointer _buf shows.
Bytes(w, o, n) == [i \in 1..n |-> <<w, o + i>>]

\* The peer receives the complete packet m.
Transmit(m) ==
    /\ recv' = IF m.type = "data" THEN [recv EXCEPT ![m.ch] = @ \o m.body]
                                  ELSE recv
    /\ ctl' = IF m.type = "data" THEN ctl
                                 ELSE [ctl EXCEPT ![m.ch] = @ \cup {m.type}]

\* No other caller's packet is in the slot.
SameCaller(data) == packet # NoPacket => packet.odata = data

\* Bug: send_existing does not compare the caller's packet with the saved one.
TransportSendAnyCaller(data, m, rc) ==
    \/ /\ rc = "OK" /\ sockUp
       /\ Transmit(IF packet = NoPacket THEN m ELSE packet.msg)
       /\ packet' = NoPacket
    \/ /\ rc = "EAGAIN" /\ sockUp
       /\ packet' = IF packet = NoPacket THEN [odata |-> data, msg |-> m]
                                         ELSE packet
       /\ UNCHANGED <<recv, ctl>>
    \/ /\ rc = "SOCKET_SEND" /\ ~sockUp
       /\ UNCHANGED outVars

(***************************************************************************)
(* _libssh2_transport_send, with send_existing.  A caller is recognised by *)
(* the address of its packet: while a packet is not fully sent, a caller   *)
(* with another address is told EAGAIN, whatever the socket is like, and   *)
(* the one with the same address sends the rest of what was saved, not     *)
(* what it passes now.                                                     *)
(***************************************************************************)
TransportSend(data, m, rc) ==
    \/ /\ rc = "OK" /\ sockUp
       /\ SameCaller(data)
       /\ Transmit(IF packet = NoPacket THEN m ELSE packet.msg)
       /\ packet' = NoPacket
    \/ /\ rc = "EAGAIN"
       /\ sockUp \/ ~SameCaller(data)
       /\ packet' = IF packet = NoPacket THEN [odata |-> data, msg |-> m]
                                         ELSE packet
       /\ UNCHANGED <<recv, ctl>>
    \/ /\ rc = "SOCKET_SEND" /\ ~sockUp
       /\ SameCaller(data)
       /\ UNCHANGED outVars

\* Bug: the adjustments that are read are not added to the windows.
DrainedForgotten == window

\* The windows after every WINDOW_ADJUST that waits in the socket was read.
Drained == [c \in Channel |-> window[c] + adj[c]]

\* Reading until EAGAIN ("do rc = _libssh2_transport_read while rc > 0"),
\* except for the window of the caller's channel.
DrainRest ==
    /\ adj' = [c \in Channel |-> 0]
    /\ rclose' = [c \in Channel |-> rclose[c] \/ peerClose[c] = "sent"]
    /\ peerClose' = [c \in Channel |->
                       IF peerClose[c] = "sent" THEN "read" ELSE peerClose[c]]

\* One packet is read: part of the adjustments of a channel, or its CLOSE.
TransportReadOne ==
    \E c \in Channel :
       \/ \E n \in 1..adj[c] :
             /\ adj' = [adj EXCEPT ![c] = @ - n]
             /\ window' = [window EXCEPT ![c] = @ + n]
             /\ UNCHANGED <<rclose, peerClose>>
       \/ /\ peerClose[c] = "sent" /\ adj[c] = 0
          /\ peerClose' = [peerClose EXCEPT ![c] = "read"]
          /\ rclose' = [rclose EXCEPT ![c] = TRUE]
          /\ UNCHANGED <<window, adj>>

NothingToRead == \A c \in Channel : adj[c] = 0 /\ peerClose[c] # "sent"

-------------------------------------------------------------------------------
(* Writing. *)

\* The client calls write with the part of its buffer that is not written.
WriteCall(w) ==
    /\ pc[w] = "idle"
    /\ pc' = [pc EXCEPT ![w] = "writing"]
    /\ off' = [off EXCEPT ![w] = pos[w]]
    /\ UNCHANGED <<pos, writeVars, closeVars, inVars, outVars, envVars>>

\* write raises the error; how much it had written is not reported.
Raise(w) ==
    /\ pc' = [pc EXCEPT ![w] = "failed"]
    /\ UNCHANGED <<pos, off>>

\* Bug: EAGAIN reports the whole buffer that was passed as written.
WouldBlockAllWritten(w) ==
    /\ IF Blocking
         THEN \/ UNCHANGED <<pc, pos>>
              \/ /\ "timeout" \in Faults
                 /\ pc' = [pc EXCEPT ![w] = "failed"]
                 /\ UNCHANGED pos
         ELSE /\ pc' = [pc EXCEPT ![w] = "idle"]
              /\ pos' = [pos EXCEPT ![w] = off[w] + bufwrite[Chan[w]]]
    /\ UNCHANGED off

(***************************************************************************)
(* The libssh2 call would block.  In blocking mode BLOCK_ADJUST waits and  *)
(* repeats the call, or gives the timeout up to write, which raises it.    *)
(* Otherwise write leaves its loop and returns EAGAIN with the number of   *)
(* bytes written, from which the client resumes.                           *)
(***************************************************************************)
WouldBlock(w) ==
    /\ IF Blocking
         THEN \/ UNCHANGED <<pc, pos>>
              \/ /\ "timeout" \in Faults
                 /\ pc' = [pc EXCEPT ![w] = "failed"]
                 /\ UNCHANGED pos
         ELSE /\ pc' = [pc EXCEPT ![w] = "idle"]
              /\ pos' = [pos EXCEPT ![w] = off[w]]
    /\ UNCHANGED off

(***************************************************************************)
(* The call wrote n bytes: "_buf += rc; buf_remainder -= rc".  The loop    *)
(* ends when buf_remainder is 0; it is a size_t, so a count above what was *)
(* left wraps it around and the loop reads on behind the buffer.           *)
(***************************************************************************)
Wrote(w, n) ==
    /\ off' = [off EXCEPT ![w] = @ + n]
    /\ pc' = [pc EXCEPT ![w] = IF off[w] + n = BufLen[w] THEN "done"
                               ELSE IF off[w] + n > BufLen[w] THEN "overrun"
                               ELSE "writing"]
    /\ pos' = [pos EXCEPT ![w] = IF off[w] + n = BufLen[w] THEN off[w] + n
                                                           ELSE @]

Lesser(a, b) == IF a <= b THEN a ELSE b

\* Bug: the window is not considered when the packet is sized.
BufwriteNoWindow(w, win) ==
    Lesser(Lesser(BufLen[w] - off[w], ChunkMax), PacketSize)

\* channel->write_bufwrite: the size of the next data packet.
Bufwrite(w, win) ==
    Lesser(Lesser(Lesser(BufLen[w] - off[w], ChunkMax), win), PacketSize)

\* Bug: the window does not shrink by what was sent.
SendDataUncharged(w, n, win, rc) ==
    LET c == Chan[w] IN
    /\ TransportSend(<<"write", c>>,
                     [type |-> "data", ch |-> c, body |-> Bytes(w, off[w], n)],
                     rc)
    /\ write_state' = [write_state EXCEPT ![c] = IF rc = "EAGAIN" THEN "created"
                                                                  ELSE "idle"]
    /\ bufwrite' = [bufwrite EXCEPT ![c] = IF rc = "EAGAIN" THEN n ELSE 0]
    /\ window' = win
    /\ CASE rc = "OK" -> Wrote(w, n)
         [] rc = "EAGAIN" -> WouldBlock(w)
         [] OTHER -> Raise(w)

\* Bug: EAGAIN forgets that a packet was begun, as any other error does.
SendDataStateReset(w, n, win, rc) ==
    LET c == Chan[w] IN
    /\ TransportSend(<<"write", c>>,
                     [type |-> "data", ch |-> c, body |-> Bytes(w, off[w], n)],
                     rc)
    /\ write_state' = [write_state EXCEPT ![c] = "idle"]
    /\ bufwrite' = [bufwrite EXCEPT ![c] = 0]
    /\ window' = [win EXCEPT ![c] = IF rc = "OK" THEN @ - n ELSE @]
    /\ CASE rc = "OK" -> Wrote(w, n)
         [] rc = "EAGAIN" -> WouldBlock(w)
         [] OTHER -> Raise(w)

\* The part of _libssh2_channel_write in the state libssh2_NB_state_created.
SendData(w, n, win, rc) ==
    LET c == Chan[w] IN
    /\ TransportSend(<<"write", c>>,
                     [type |-> "data", ch |-> c, body |-> Bytes(w, off[w], n)],
                     rc)
    /\ write_state' = [write_state EXCEPT ![c] = IF rc = "EAGAIN" THEN "created"
                                                                  ELSE "idle"]
    /\ bufwrite' = [bufwrite EXCEPT ![c] = IF rc = "EAGAIN" THEN n ELSE 0]
    /\ window' = [win EXCEPT ![c] = IF rc = "OK" THEN @ - n ELSE @]
    /\ CASE rc = "OK" -> Wrote(w, n)
         [] rc = "EAGAIN" -> WouldBlock(w)
         [] OTHER -> Raise(w)

\* Bug: local.eof is not looked at.
WriteStartAfterEof(w, rc) ==
    LET c == Chan[w] IN
    /\ pc[w] = "writing" /\ write_state[c] = "idle"
    /\ ~lclose[c] /\ sockUp
    /\ Drained[c] > 0
    /\ DrainRest
    /\ SendData(w, Bufwrite(w, Drained[c]), Drained, rc)
    /\ UNCHANGED <<closeVars, envVars>>

\* A new packet: the incoming flow is drained, then the packet is sized.
WriteStart(w, rc) ==
    LET c == Chan[w] IN
    /\ pc[w] = "writing" /\ write_state[c] = "idle"
    /\ ~lclose[c] /\ ~leof[c] /\ sockUp
    /\ Drained[c] > 0
    /\ DrainRest
    /\ SendData(w, Bufwrite(w, Drained[c]), Drained, rc)
    /\ UNCHANGED <<closeVars, envVars>>

\* A packet was begun by an earlier call: it is sent with its old size.
WriteResume(w, rc) ==
    LET c == Chan[w] IN
    /\ pc[w] = "writing" /\ write_state[c] = "created"
    /\ SendData(w, bufwrite[c], window, rc)
    /\ UNCHANGED <<closeVars, rclose, adj, peerClose, envVars>>

\* The window is exhausted: EAGAIN, to wait for an adjustment.
WriteNoWindow(w) ==
    LET c == Chan[w] IN
    /\ pc[w] = "writing" /\ write_state[c] = "idle"
    /\ ~lclose[c] /\ ~leof[c] /\ sockUp
    /\ Drained[c] = 0
    /\ DrainRest
    /\ window' = Drained
    /\ WouldBlock(w)
    /\ UNCHANGED <<writeVars, closeVars, outVars, envVars>>

\* CHANNEL_CLOSED, CHANNEL_EOF_SENT, or the drain finds the connection lost.
WriteRefused(w) ==
    LET c == Chan[w] IN
    /\ pc[w] = "writing" /\ write_state[c] = "idle"
    /\ lclose[c] \/ leof[c] \/ ~sockUp
    /\ Raise(w)
    /\ UNCHANGED <<writeVars, closeVars, inVars, outVars, envVars>>

-------------------------------------------------------------------------------
(* Ending the stream. *)

\* The client of channel c is done with writing, unless it is impatient.
MayEnd(c) ==
    \/ "impatient" \in Faults
    \/ \A w \in Writer : Chan[w] = c => pc[w] \in {"done", "failed"}

\* channel_send_eof: the packet it sends lives on its stack, at a.
ChannelSendEof(c, a, rc) ==
    /\ TransportSend(<<"stack", a>>,
                     [type |-> "eof", ch |-> c, body |-> <<>>], rc)
    /\ leof' = [leof EXCEPT ![c] = @ \/ rc = "OK"]

\* Channel.send_eof, which the client repeats until it succeeds.
SendEof(c, rc) ==
    /\ MayEnd(c) /\ close_pc[c] = "out" /\ ~leof[c]
    /\ \E a \in StackAddr : ChannelSendEof(c, a, rc)
    /\ UNCHANGED <<clientVars, writeVars, lclose, close_state, close_pc,
                   inVars, envVars>>

\* Channel.close begins, or begins again after EAGAIN: EOF goes out first.
CloseBegin(c, rc) ==
    /\ MayEnd(c) /\ close_pc[c] = "out" /\ ~lclose[c]
    /\ \/ /\ ~leof[c]
          /\ \E a \in StackAddr : ChannelSendEof(c, a, rc)
          /\ close_pc' = [close_pc EXCEPT ![c] = IF rc = "EAGAIN" THEN "out"
                                                                  ELSE "send"]
       \/ /\ leof[c] /\ rc = "OK"
          /\ close_pc' = [close_pc EXCEPT ![c] = "send"]
          /\ UNCHANGED <<leof, outVars>>
    /\ UNCHANGED <<clientVars, writeVars, lclose, close_state, inVars, envVars>>

\* The CLOSE packet.  An error closes the channel on this side all the same.
CloseSend(c, rc) ==
    /\ close_pc[c] = "send"
    /\ IF close_state[c] = "sent"
         THEN /\ rc = "OK"
              /\ close_pc' = [close_pc EXCEPT ![c] = "wait"]
              /\ UNCHANGED <<lclose, close_state, outVars>>
         ELSE /\ TransportSend(<<"close", c>>,
                               [type |-> "close", ch |-> c, body |-> <<>>], rc)
              /\ close_state' = [close_state EXCEPT ![c] =
                     CASE rc = "OK" -> "sent"
                       [] rc = "EAGAIN" -> "created"
                       [] OTHER -> "idle"]
              /\ close_pc' = [close_pc EXCEPT ![c] = IF rc = "OK" THEN "wait"
                                                                  ELSE "out"]
              /\ lclose' = [lclose EXCEPT ![c] = rc = "SOCKET_SEND"]
    /\ UNCHANGED <<clientVars, writeVars, leof, inVars, envVars>>

(***************************************************************************)
(* Waiting for the peer's CLOSE: "while(!channel->remote.close && !rc)".   *)
(* _libssh2_transport_read returns the type of the packet it read, so any  *)
(* packet ends the loop, not only the CLOSE.                               *)
(***************************************************************************)
CloseWait(c) ==
    /\ close_pc[c] = "wait"
    /\ \/ /\ rclose[c] \/ ~sockUp
          /\ UNCHANGED inVars
       \/ /\ ~rclose[c] /\ sockUp
          /\ TransportReadOne
    /\ lclose' = [lclose EXCEPT ![c] = TRUE]
    /\ close_state' = [close_state EXCEPT ![c] = "idle"]
    /\ close_pc' = [close_pc EXCEPT ![c] = "out"]
    /\ UNCHANGED <<clientVars, writeVars, leof, outVars, envVars>>

\* Nothing to read yet: close returns EAGAIN and is called again.
CloseWaitAgain(c) ==
    /\ close_pc[c] = "wait"
    /\ ~rclose[c] /\ sockUp /\ NothingToRead
    /\ close_pc' = [close_pc EXCEPT ![c] = "out"]
    /\ UNCHANGED <<clientVars, writeVars, leof, lclose, close_state, inVars,
                   outVars, envVars>>

-------------------------------------------------------------------------------
(* The peer and the connection. *)

\* The peer's application consumed data: n more bytes may be sent.
Grant(c, n) ==
    /\ sockUp /\ peerClose[c] = "none"
    /\ granted[c] + n <= GrantMax
    /\ granted' = [granted EXCEPT ![c] = @ + n]
    /\ adj' = [adj EXCEPT ![c] = @ + n]
    /\ UNCHANGED <<clientVars, writeVars, closeVars, window, rclose, peerClose,
                   outVars, sockUp>>

\* The peer closes: it answers a CLOSE, or (a fault) it is first to close.
PeerClose(c) ==
    /\ sockUp /\ peerClose[c] = "none"
    /\ "close" \in ctl[c] \/ "peerclose" \in Faults
    /\ peerClose' = [peerClose EXCEPT ![c] = "sent"]
    /\ UNCHANGED <<clientVars, writeVars, closeVars, window, rclose, adj,
                   outVars, envVars>>

\* The connection is lost: from now on send and recv fail.
Drop ==
    /\ "drop" \in Faults /\ sockUp
    /\ sockUp' = FALSE
    /\ UNCHANGED <<clientVars, writeVars, closeVars, inVars, outVars, granted>>

Write(w, rc) == WriteStart(w, rc) \/ WriteResume(w, rc)

\* Every buffer is written or given up and every channel closed.
Finished ==
    /\ \A w \in Writer : pc[w] \in {"done", "failed", "overrun"}
    /\ \A c \in Channel : lclose[c]
    /\ UNCHANGED vars

WriterStep(w) ==
    \/ WriteCall(w)
    \/ \E rc \in Rc : Write(w, rc)
    \/ WriteNoWindow(w)
    \/ WriteRefused(w)

EndStep(c) ==
    \/ \E rc \in Rc : SendEof(c, rc) \/ CloseBegin(c, rc) \/ CloseSend(c, rc)
    \/ CloseWait(c)
    \/ CloseWaitAgain(c)

PeerStep(c) ==
    \/ \E n \in 1..GrantMax : Grant(c, n)
    \/ PeerClose(c)

Next ==
    \/ \E w \in Writer : WriterStep(w)
    \/ \E c \in Channel : EndStep(c) \/ PeerStep(c)
    \/ Drop
    \/ Finished

Spec == Init /\ [][Next]_vars

(***************************************************************************)
(* Fairness.  A client that got EAGAIN waits for the socket and calls      *)
(* again (examples/nonblocking_execute.py), a blocking call waits inside   *)
(* BLOCK_ADJUST; a connection that works does not refuse for ever to take  *)
(* the bytes it is offered again and again (strong fairness: between two   *)
(* offers the client is outside the call); the peer's application keeps    *)
(* consuming, and the peer answers a CLOSE, as the protocol requires.      *)
(* Nothing is assumed of send_eof, which close does as well.               *)
(***************************************************************************)
Fairness ==
    /\ \A w \in Writer :
         /\ WF_vars(WriteCall(w))
         /\ SF_vars(Write(w, "OK"))
         /\ WF_vars(Write(w, "SOCKET_SEND") \/ WriteRefused(w))
    /\ \A c \in Channel :
         /\ SF_vars(CloseBegin(c, "OK") \/ CloseBegin(c, "SOCKET_SEND"))
         /\ SF_vars(CloseSend(c, "OK") \/ CloseSend(c, "SOCKET_SEND"))
         /\ WF_vars(CloseWait(c))
         /\ WF_vars(\E n \in 1..GrantMax : Grant(c, n))
         /\ WF_vars(PeerClose(c) /\ "close" \in ctl[c])

FairSpec == Spec /\ Fairness

-------------------------------------------------------------------------------
(* Properties. *)

\* Each channel has one writer, which is what the docstrings of write assume.
OneWriterPerChannel == \A v, w \in Writer : Chan[v] = Chan[w] => v = w

(***************************************************************************)
(* What the peer has received on a channel is a prefix of the buffer       *)
(* written to it: no byte is lost, doubled, reordered or taken from        *)
(* another buffer, however often write was interrupted by EAGAIN.          *)
(***************************************************************************)
StreamIntact ==
    \A w \in Writer :
        recv[Chan[w]] = Bytes(w, 0, Len(recv[Chan[w]]))

(***************************************************************************)
(* Whenever a call of write has returned, the count it reported is exactly *)
(* what the peer has: resuming from buf[bytes_written:] is right.          *)
(***************************************************************************)
ReportExact ==
    \A w \in Writer :
        pc[w] \in {"idle", "done"} => pos[w] = Len(recv[Chan[w]])

(***************************************************************************)
(* "In blocking mode bytes_written will always equal len(buf) if no errors *)
(* have occurred": a blocking write never reports a part of its buffer.    *)
(***************************************************************************)
BlockingWritesAll ==
    Blocking => \A w \in Writer : pos[w] \in {0, BufLen[w]}

(***************************************************************************)
(* The peer never gets more data than it granted, the packet that is half  *)
(* sent included.                                                          *)
(***************************************************************************)
PendingData(c) ==
    IF packet # NoPacket /\ packet.msg.type = "data" /\ packet.msg.ch = c
      THEN Len(packet.msg.body) ELSE 0

WindowRespected ==
    \A c \in Channel : Len(recv[c]) + PendingData(c) <= granted[c]

(***************************************************************************)
(* send_eof is to "tell the remote host that no further data will be       *)
(* sent": the only data that may leave a channel after its EOF is a packet *)
(* whose sending had begun before, which the retry of that write finishes  *)
(* without a look at local.eof.                                            *)
(***************************************************************************)
NoNewDataAfterEof ==
    [][\A c \in Channel :
         "eof" \in ctl[c] /\ recv'[c] # recv[c] => write_state[c] = "created"]_vars

(***************************************************************************)
(* A channel whose send_eof succeeded (or whose close got past the EOF)    *)
(* has sent its EOF to the peer.                                           *)
(***************************************************************************)
EofDelivered == \A c \in Channel : leof[c] => "eof" \in ctl[c]

\* The connection holds, and the peer closes no channel but in answer.
Undisturbed ==
    sockUp /\ \A c \in Channel : peerClose[c] # "none" => "close" \in ctl[c]

(***************************************************************************)
(* Every buffer is written completely and every channel closed in the end, *)
(* if connection and peer hold out, although each writer holds up the      *)
(* others while its packet is half sent.                                   *)
(***************************************************************************)
AllWritten ==
    []Undisturbed => /\ \A w \in Writer : <>(pc[w] = "done")
                     /\ \A c \in Channel : <>lclose[c]

(***************************************************************************)
(* What a call has claimed is so: a blocking write has written all of its  *)
(* buffer, a successful send_eof has sent the EOF.                         *)
(***************************************************************************)
ReturnMeansDone == BlockingWritesAll /\ EofDelivered
===============================================================================
