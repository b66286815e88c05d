------------------------------- MODULE Requests -------------------------------
(***************************************************************************)
(* Opening channels and making requests on them, by several greenlets that *)
(* share one non-blocking session: Session.open_session, direct_tcpip and  *)
(* forward_listen (ssh2/session.pyx), Channel.setenv, pty and execute      *)
(* (ssh2/channel.pyx), over libssh2/src/channel.c and the search for a     *)
(* reply in libssh2/src/packet.c.                                          *)
(*                                                                         *)
(* Every one of these operations is a state machine (idle, created, sent)  *)
(* that a caller drives by calling again after EAGAIN.  The machine of an  *)
(* opening belongs to the session, that of a request to its channel.  One  *)
(* call runs at a time; between EAGAIN and the retry other callers call.   *)
(* A packet that the socket did not take at once stays in the transport    *)
(* and must be finished by the same machine.  Whoever reads the socket     *)
(* queues the replies of all.                                              *)
(*                                                                         *)
(* The server answers the requests of one channel in order, otherwise in   *)
(* any order, and numbers its ends of the channels itself.                 *)
(***************************************************************************)
EXTENDS Integers, SequencesExt, FiniteSetsExt

CONSTANTS
    Callers,     \* the greenlets; each opens to a destination of its own
    NoChan,      \* no channel
    NoDest,      \* no destination, as in a session channel
    NoCall,      \* no call is running
    NoPacket,    \* the transport holds no unfinished packet
    Uses         \* the ways the session is used, see below

(***************************************************************************)
(* A use: what each caller does in turn, an opening first; whether callers *)
(* leave each other time to finish an operation (serial); and which of     *)
(* these may happen: a refusal by the server, a wait longer than           *)
(* packet_read_timeout, the loss of the connection.                        *)
(***************************************************************************)
Openings == {"session", "direct", "listen"}
Requests == {"setenv", "pty", "exec"}
Faults == {"refuse", "timeout", "drop"}

\* Where a running call is.
Turns == [who : Callers, at : {"send", "ask", "read", "again"}]

ASSUME RequestsAssumption ==
    /\ IsFiniteSet(Callers)
    /\ NoDest \notin Callers /\ NoChan \notin Nat /\ NoCall \notin Turns
    /\ \A u \in Uses :
         /\ u.serial \in BOOLEAN /\ u.faults \subseteq Faults
         /\ u.script \in [Callers -> Seq(Openings \cup Requests)]
         /\ \A c \in Callers :
              /\ u.script[c] # <<>> => u.script[c][1] \in Openings
              /\ \A i \in 2..Len(u.script[c]) :
                   u.script[c][1] # "listen" /\ u.script[c][i] \in Requests

VARIABLES
    use,            \* how the session is used
    todo,           \* todo[c]: what caller c has still to do
    begun,          \* begun[c]: the first of todo[c] has been called
    mine,           \* mine[c]: the channel of caller c
    turn,           \* the call that is running
    next_channel,   \* session->next_channel
    channels,       \* session->channels, by their local ids
    remote,         \* remote[i]: remote.id of channel i
    nb,             \* nb[k]: the state of machine k
    open_channel,   \* session->open_channel and the packet made for it
    direct_state,   \* session->direct_state
    direct_message, \* session->direct_message: the destination in it
    slot,           \* the packet the socket has not taken completely
    packets,        \* session->packets, replies only
    pending,        \* requests that have reached the server
    incoming,       \* replies that are on their way
    peer,           \* peer[r]: the local id of the server's channel r
    served,         \* the requests the server has granted
    lost,           \* the connection is lost
    asked,          \* asked[k]: the request machine k has made last
    got,            \* got[c]: what the server opened for caller c
    results,        \* results[c]: how the operations of c have ended
    given_up,       \* channels with a request that ended before its reply
    cut             \* openings that another caller has resumed

vars == <<use, todo, begun, mine, turn, next_channel, channels, remote, nb,
          open_channel, direct_state, direct_message, slot, packets, pending,
          incoming, peer, served, lost, asked, got, results, given_up, cut>>

libVars == <<next_channel, channels, remote, open_channel>>
directVars == <<direct_state, direct_message>>
serverVars == <<incoming, peer, served, lost>>

\* Every opening ends the operation of some caller, so that this is enough.
Ids == 0..(Cardinality(Callers) - 1)

\* The machines: open_state, fwdLstn_state, and three for each channel.
Machine == [op : {"open", "listen"}, id : {NoChan}]
           \cup [op : Requests, id : Ids]

\* The machine that a caller's present operation drives.
Op(c) == Head(todo[c])
MachineOf(c) ==
    CASE Op(c) \in {"session", "direct"} -> [op |-> "open", id |-> NoChan]
      [] Op(c) = "listen" -> [op |-> "listen", id |-> NoChan]
      [] OTHER -> [op |-> Op(c), id |-> mine[c]]

NoOpening == [id |-> NoChan, type |-> "none"]

Init ==
    /\ use \in Uses
    /\ todo = use.script
    /\ begun = [c \in Callers |-> FALSE]
    /\ mine = [c \in Callers |-> NoChan]
    /\ turn = NoCall
    /\ next_channel = 0 /\ channels = {}
    /\ remote = [i \in Ids |-> -1]
    /\ nb = [k \in Machine |-> "idle"]
    /\ open_channel = NoOpening
    /\ direct_state = "idle" /\ direct_message = NoDest
    /\ slot = NoPacket
    /\ packets = <<>> /\ pending = <<>> /\ incoming = <<>> /\ peer = <<>>
    /\ served = {} /\ lost = FALSE
    /\ asked = [k \in Machine |-> <<>>]
    /\ got = [c \in Callers |-> NoDest]
    /\ results = [c \in Callers |-> <<>>]
    /\ given_up = {} /\ cut = {}

-------------------------------------------------------------------------------
(* Requests and replies. *)

ReplyTypes(k) ==
    CASE k.op = "open" -> <<"OPEN_CONFIRMATION", "OPEN_FAILURE">>
      [] k.op = "listen" -> <<"REQUEST_SUCCESS", "REQUEST_FAILURE">>
      [] OTHER -> <<"CHANNEL_SUCCESS", "CHANNEL_FAILURE">>

(***************************************************************************)
(* The packet that the call of c hands to the transport.  An opening adds  *)
(* the message of the present call, whoever made the rest: "Do not copy    *)
(* the message".  A request names the server's end of the channel.         *)
(***************************************************************************)
Packet(c) ==
    LET k == MachineOf(c)
    IN  [by |-> asked[k], m |-> k,
         type |-> IF k.op = "open" THEN open_channel.type ELSE k.op,
         dest |-> CASE Op(c) = "direct" -> direct_message
                    [] Op(c) = "listen" -> c
                    [] OTHER -> NoDest,
         ch |-> CASE k.op = "open" -> open_channel.id
                  [] k.op = "listen" -> NoChan
                  [] OTHER -> remote[mine[c]]]

(***************************************************************************)
(* The bytes a reply must have: the local id, taken for an opening from    *)
(* where it is in a packet of the caller's own channel type; none for a    *)
(* global request.                                                         *)
(***************************************************************************)
MatchesAny(c, r) == TRUE
MatchesRemote(c, r) ==
    LET k == MachineOf(c)
    IN  CASE k.op = "open" -> Op(c) = open_channel.type /\ r.ch = open_channel.id
          [] k.op = "listen" -> TRUE
          [] OTHER -> r.ch = remote[mine[c]]

Matches(c, r) ==
    LET k == MachineOf(c)
    IN  CASE k.op = "open" -> Op(c) = open_channel.type /\ r.ch = open_channel.id
          [] k.op = "listen" -> TRUE
          [] OTHER -> r.ch = mine[c]

\* _libssh2_packet_askv: the first reply of the first type that has one.
Fitting(c, type) ==
    {i \in DOMAIN packets : packets[i].type = type /\ Matches(c, packets[i])}
Fits(c) == LET t == ReplyTypes(MachineOf(c))
           IN  IF Fitting(c, t[1]) # {} THEN Fitting(c, t[1]) ELSE Fitting(c, t[2])

-------------------------------------------------------------------------------
(* How a call ends. *)

In(c, at) == turn = [who |-> c, at |-> at]
Go(c, at) == turn' = [who |-> c, at |-> at]

\* Bug: direct_state is not set back to idle, and the message is kept.
DirectEndsKeeps(c) == UNCHANGED directVars
\* channel_direct_tcpip, when the opening has come to an end.
DirectEnds(c) ==
    IF Op(c) = "direct"
      THEN direct_state' = "idle" /\ direct_message' = NoDest
      ELSE UNCHANGED directVars

(***************************************************************************)
(* The call returns something else than EAGAIN.  own: the reply was made   *)
(* to this very request; clean: no earlier request on the channel was      *)
(* given up.  A caller goes on after a request that failed, and ends when  *)
(* its opening fails.                                                      *)
(***************************************************************************)
Finish(c, res, own) ==
    /\ results' = [results EXCEPT ![c] =
                     Append(@, [op |-> Op(c), res |-> res, own |-> own,
                                clean |-> MachineOf(c).id \notin given_up])]
    /\ todo' = [todo EXCEPT ![c] =
                  IF Op(c) \in Openings /\ res # "OK" THEN <<>> ELSE Tail(@)]
    /\ begun' = [begun EXCEPT ![c] = FALSE]
    /\ turn' = NoCall
    /\ DirectEnds(c)

\* Nothing more can be done now; channel_direct_tcpip keeps its message.
WouldBlock(c) ==
    /\ turn' = NoCall
    /\ direct_state' = IF Op(c) = "direct" THEN "created" ELSE direct_state
    /\ UNCHANGED <<direct_message, todo, begun, results>>

\* Bug: every machine is set back to idle.
EndStateIdle(k) == "idle"
\* Bug: a request keeps the state in which it was waiting.
EndStateSent(k) == IF k.op \in {"exec", "setenv"} THEN "sent" ELSE "idle"

\* A channel runs one process: its machine cannot be used again.
EndState(k) == IF k.op = "exec" THEN "end" ELSE "idle"

\* Bug: channel_error leaves the channel in the list of the session.
OpenErrorKeeps == channels' = channels
\* channel_error: the channel under construction is taken off the list.
OpenError == channels' = channels \ {open_channel.id}

(***************************************************************************)
(* The call fails: the opening is undone, the machine set back.  A reply   *)
(* that may still come is not waited for.                                  *)
(***************************************************************************)
Fail(c, res) ==
    LET k == MachineOf(c)
    IN  /\ nb' = [nb EXCEPT ![k] = EndState(k)]
        /\ IF k.op = "open"
             THEN OpenError /\ open_channel' = NoOpening
             ELSE UNCHANGED <<channels, open_channel>>
        /\ given_up' = IF nb[k] = "sent" /\ k.op # "open"
                         THEN given_up \cup {k.id} ELSE given_up
        /\ Finish(c, res, TRUE)
        /\ UNCHANGED <<mine, next_channel, remote, got>>

\* _libssh2_packet_ask takes the packet off the list.
Unlink(i) == packets' = RemoveAt(packets, i)

(***************************************************************************)
(* The reply has been found: the operation ends.  A confirmed opening      *)
(* hands session->open_channel to the caller.                              *)
(***************************************************************************)
Take(c) ==
    LET k == MachineOf(c)
        i == Min(Fits(c))
        r == packets[i]
        ok == r.type = ReplyTypes(k)[1]
    IN  /\ Fits(c) # {}
        /\ Unlink(i)
        /\ nb' = [nb EXCEPT ![k] = EndState(k)]
        /\ CASE k.op = "open" /\ ok ->
                  /\ mine' = [mine EXCEPT ![c] = open_channel.id]
                  /\ remote' = [remote EXCEPT ![open_channel.id] = r.remote]
                  /\ UNCHANGED channels
             [] k.op = "open" /\ ~ok -> OpenError /\ UNCHANGED <<mine, remote>>
             [] OTHER -> UNCHANGED <<mine, remote, channels>>
        /\ open_channel' = IF k.op = "open" THEN NoOpening ELSE open_channel
        /\ got' = IF ok /\ Op(c) \in Openings
                    THEN [got EXCEPT ![c] = [type |-> r.to.type, dest |-> r.to.dest]]
                    ELSE got
        /\ Finish(c, IF ok THEN "OK" ELSE "DENIED", r.to.by = asked[k])
        /\ UNCHANGED <<next_channel, given_up>>

-------------------------------------------------------------------------------
(* The steps of a call. *)

\* _libssh2_channel_nextid
NextId == Max({next_channel} \cup channels)

(***************************************************************************)
(* A caller calls, for the first time or again.  An idle machine makes its *)
(* packet, one that is under way is resumed, whoever has set it up.        *)
(***************************************************************************)
Call(c) ==
    LET k == MachineOf(c)
        idle == nb[k] = "idle"
    IN  /\ turn = NoCall /\ todo[c] # <<>> /\ nb[k] # "end"
        /\ use.serial => \A d \in Callers \ {c} : ~begun[d]
        /\ begun' = [begun EXCEPT ![c] = TRUE]
        /\ direct_message' = IF Op(c) = "direct" /\ direct_state = "idle"
                               THEN c ELSE direct_message
        /\ IF idle /\ k.op = "open"
             THEN /\ next_channel' = NextId + 1
                  /\ channels' = channels \cup {NextId}
                  /\ open_channel' = [id |-> NextId, type |-> Op(c)]
             ELSE UNCHANGED <<next_channel, channels, open_channel>>
        /\ nb' = IF idle THEN [nb EXCEPT ![k] = "created"] ELSE nb
        /\ asked' = IF idle THEN [asked EXCEPT ![k] = <<c, Len(results[c])>>]
                            ELSE asked
        /\ cut' = IF /\ ~idle /\ k.op \in {"open", "listen"} /\ asked[k][1] # c
                     /\ {k.op, Op(c), open_channel.type} # {"open", "session"}
                    THEN cut \cup {k.op} ELSE cut
        /\ Go(c, IF nb[k] = "sent" THEN "ask" ELSE "send")
        /\ UNCHANGED <<use, todo, mine, remote, direct_state, slot, packets,
                       pending, serverVars, got, results, given_up>>

\* "Channel can not be reused".
CallEnded(c) ==
    /\ turn = NoCall /\ todo[c] # <<>> /\ nb[MachineOf(c)] = "end"
    /\ use.serial => \A d \in Callers \ {c} : ~begun[d]
    /\ Finish(c, "BAD_USE", TRUE)
    /\ UNCHANGED <<use, mine, libVars, nb, slot, packets, pending, serverVars,
                   asked, got, given_up, cut>>

\* The transport holds the packet of this machine.
Held(c) == slot # NoPacket /\ slot.by = asked[MachineOf(c)]

\* _libssh2_transport_send returns 0: the packet is on its way.
Sent(c) ==
    /\ In(c, "send") /\ ~lost
    /\ slot = NoPacket \/ Held(c)
    /\ pending' = Append(pending, IF Held(c) THEN slot ELSE Packet(c))
    /\ slot' = NoPacket
    /\ nb' = [nb EXCEPT ![MachineOf(c)] = "sent"]
    /\ Go(c, "ask")
    /\ UNCHANGED <<use, todo, begun, mine, libVars, directVars, packets,
                   serverVars, asked, got, results, given_up, cut>>

(***************************************************************************)
(* EAGAIN: the socket took the packet in part, or not at all, and the      *)
(* transport keeps it; or it still keeps the packet of another machine.    *)
(***************************************************************************)
SendBlocks(c) ==
    /\ In(c, "send") /\ (lost => slot # NoPacket /\ ~Held(c))
    /\ slot' = IF slot = NoPacket THEN Packet(c) ELSE slot
    /\ WouldBlock(c)
    /\ UNCHANGED <<use, mine, libVars, nb, packets, pending, serverVars, asked,
                   got, given_up, cut>>

\* Sending fails; a packet that was sent in part is not forgotten.
SendFails(c) ==
    /\ In(c, "send") /\ lost
    /\ slot = NoPacket \/ Held(c)
    /\ Fail(c, "SOCKET_SEND")
    /\ UNCHANGED <<use, slot, packets, pending, serverVars, asked, cut>>

\* _libssh2_packet_requirev looks in the queue, before and after it reads.
AskTakes(c) ==
    /\ In(c, "ask") \/ In(c, "again")
    /\ Take(c)
    /\ UNCHANGED <<use, slot, pending, serverVars, asked, cut>>

AskFindsNone(c) ==
    /\ In(c, "ask") /\ Fits(c) = {}
    /\ Go(c, "read")
    /\ UNCHANGED <<use, todo, begun, mine, libVars, nb, directVars, slot,
                   packets, pending, serverVars, asked, got, results, given_up,
                   cut>>

\* A reply has come that is of a wanted type, and not for this caller.
AgainFindsNone(c) ==
    /\ In(c, "again") /\ Fits(c) = {}
    /\ Fail(c, "NONE")
    /\ UNCHANGED <<use, slot, packets, pending, serverVars, asked, cut>>

\* _libssh2_transport_read queues the next packet.
Read(c) ==
    /\ In(c, "read") /\ incoming # <<>>
    /\ packets' = Append(packets, Head(incoming))
    /\ incoming' = Tail(incoming)
    /\ LET t == ReplyTypes(MachineOf(c))
       IN  Go(c, IF Head(incoming).type \in {t[1], t[2]} THEN "again" ELSE "read")
    /\ UNCHANGED <<use, todo, begun, mine, libVars, nb, directVars, slot,
                   pending, peer, served, lost, asked, got, results, given_up,
                   cut>>

ReadBlocks(c) ==
    /\ In(c, "read") /\ incoming = <<>> /\ ~lost
    /\ WouldBlock(c)
    /\ UNCHANGED <<use, mine, libVars, nb, slot, packets, pending, serverVars,
                   asked, got, given_up, cut>>

\* Nothing to read, and packet_read_timeout is over; or the connection is.
ReadFails(c) ==
    /\ In(c, "read") /\ incoming = <<>>
    /\ \/ lost /\ Fail(c, "SOCKET_RECV")
       \/ ~lost /\ "timeout" \in use.faults /\ Fail(c, "TIMEOUT")
    /\ UNCHANGED <<use, slot, packets, pending, serverVars, asked, cut>>

-------------------------------------------------------------------------------
(* The server and the connection. *)

\* Requests on one channel, or global ones, are answered in order.
SameQueue(m, n) ==
    m.ch = n.ch /\ (m.m.op \in Requests <=> n.m.op \in Requests)

(***************************************************************************)
(* The server answers a request, after the earlier ones of the channel.    *)
(* An opening that lacks its destination, or has one too much, is refused. *)
(***************************************************************************)
Answer(i, ok) ==
    LET m == pending[i]
        opens == m.m.op = "open"
        sound == (m.type = "direct") = (m.dest # NoDest)
    IN  /\ ~lost
        /\ \A j \in 1..(i - 1) : ~SameQueue(pending[j], m)
        /\ IF ok THEN opens => sound
                 ELSE "refuse" \in use.faults \/ (opens /\ ~sound)
        /\ pending' = RemoveAt(pending, i)
        /\ peer' = IF opens /\ ok THEN Append(peer, m.ch) ELSE peer
        /\ served' = IF ok THEN served \cup {m} ELSE served
        /\ incoming' = Append(incoming,
              [type |-> ReplyTypes(m.m)[IF ok THEN 1 ELSE 2],
               ch |-> IF m.m.op \in Requests THEN peer[m.ch] ELSE m.ch,
               remote |-> Len(peer) + 1, to |-> m])
        /\ UNCHANGED <<use, todo, begun, mine, turn, libVars, nb, directVars,
                       slot, packets, lost, asked, got, results, given_up, cut>>

Drop ==
    /\ "drop" \in use.faults /\ ~lost
    /\ lost' = TRUE
    /\ UNCHANGED <<use, todo, begun, mine, turn, libVars, nb, directVars, slot,
                   packets, pending, incoming, peer, served, asked, got,
                   results, given_up, cut>>

-------------------------------------------------------------------------------

CallStep(c) ==
    \/ Sent(c) \/ SendBlocks(c) \/ SendFails(c)
    \/ AskTakes(c) \/ AskFindsNone(c) \/ AgainFindsNone(c)
    \/ Read(c) \/ ReadBlocks(c) \/ ReadFails(c)

Server == \E i \in DOMAIN pending, ok \in BOOLEAN : Answer(i, ok)

Next ==
    \/ \E c \in Callers : Call(c) \/ CallEnded(c) \/ CallStep(c)
    \/ Server
    \/ Drop

Spec == Init /\ [][Next]_vars

(***************************************************************************)
(* Fairness.  A call that runs goes on; a caller calls again after EAGAIN, *)
(* however often the others call in between; a socket that is tried again  *)
(* and again takes the packet in the end; the server answers.              *)
(***************************************************************************)
Fairness ==
    /\ WF_vars(\E c \in Callers : CallStep(c))
    /\ \A c \in Callers : SF_vars(Call(c)) /\ SF_vars(CallEnded(c)) /\ SF_vars(Sent(c))
    /\ WF_vars(Server)

FairSpec == Spec /\ Fairness

-------------------------------------------------------------------------------
(* Properties. *)

TypeOK ==
    /\ use \in Uses
    /\ channels \subseteq Ids /\ next_channel \in Nat
    /\ mine \in [Callers -> Ids \cup {NoChan}]
    /\ remote \in [Ids -> Int]
    /\ nb \in [Machine -> {"idle", "created", "sent", "end"}]
    /\ \A k \in Machine : nb[k] = "end" => k.op = "exec"
    /\ direct_state \in {"idle", "created"}
    /\ direct_state = "created" => direct_message \in Callers
    /\ lost \in BOOLEAN

(***************************************************************************)
(* A caller is given the channel or the listener it asked for: of its own  *)
(* type and to its own destination.  Not so when another caller has called *)
(* a function of the same family before the opening was over; openings of  *)
(* plain sessions may even be mixed.                                       *)
(***************************************************************************)
OwnDestination ==
    \A c \in Callers :
        /\ got[c] # NoDest
        /\ (IF use.script[c][1] = "listen" THEN "listen" ELSE "open") \notin cut
        /\ use.script[c][1] = "listen" => results[c][1].clean
        => got[c] = [type |-> use.script[c][1],
                     dest |-> IF use.script[c][1] = "session" THEN NoDest ELSE c]

(***************************************************************************)
(* The reply that ends an operation is the server's answer to this very    *)
(* request, unless an earlier request on the channel was given up before   *)
(* its reply came: that reply would now be taken for the answer.  For the  *)
(* opening of a channel it holds in any case, as ids are never used again. *)
(***************************************************************************)
AnswerRight ==
    \A c \in Callers : \A i \in DOMAIN results[c] :
        LET r == results[c][i]
        IN  r.clean \/ r.op \in {"session", "direct"} => r.own

(***************************************************************************)
(* Callers that let each other finish never see an operation fail that the *)
(* server has not refused, unless time runs out or the connection is lost. *)
(***************************************************************************)
SerialNeverFails ==
    use.serial /\ use.faults \subseteq {"refuse"} =>
        \A c \in Callers : \A i \in DOMAIN results[c] :
            results[c][i].res \in {"OK", "DENIED", "BAD_USE"}

(***************************************************************************)
(* The list of channels holds the one under construction and those that    *)
(* were handed out, each to one caller: a failed or interrupted opening    *)
(* leaves nothing behind.                                                  *)
(***************************************************************************)
ChannelsOwned ==
    /\ channels = ({open_channel.id} \cup {mine[c] : c \in Callers}) \ {NoChan}
    /\ \A c, d \in Callers : mine[c] = mine[d] /\ mine[c] # NoChan => c = d
    /\ \A c \in Callers : mine[c] = NoChan \/ mine[c] # open_channel.id

(***************************************************************************)
(* However often execute is called after an error of any kind, the server  *)
(* gets one request for a process on a channel.                            *)
(***************************************************************************)
ExecOnce ==
    LET execs == {m \in served \cup {pending[i] : i \in DOMAIN pending} :
                    m.m.op = "exec"}
    IN  \A m, n \in execs : m.ch = n.ch => m = n

(***************************************************************************)
(* When all callers are through and none has given up on a reply, no reply *)
(* is left in the queue.                                                   *)
(***************************************************************************)
RepliesTaken ==
    (\A c \in Callers : todo[c] = <<>> /\ \A i \in DOMAIN results[c] :
        results[c][i].res \in {"OK", "DENIED"})
    => packets = <<>> /\ pending = <<>> /\ incoming = <<>>

(***************************************************************************)
(* Replies are matched with requests: each goes to the request it answers, *)
(* and none is left.                                                       *)
(***************************************************************************)
RepliesRight == TypeOK /\ AnswerRight /\ RepliesTaken

(***************************************************************************)
(* Every caller gets to the end of what it has to do, as long as the       *)
(* connection holds, whoever resumes and fails whose operation.            *)
(***************************************************************************)
AllFinish ==
    "drop" \in use.faults \/ \A c \in Callers : <>(todo[c] = <<>>)
===============================================================================
