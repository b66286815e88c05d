------------------------------ MODULE ByteStream ------------------------------
(***************************************************************************)
(* What Channel.write promises, without packets, windows or EAGAIN: the    *)
(* bytes of each buffer reach the peer in order, and a returning write     *)
(* reports exactly the bytes that have reached it ("Clients should resume  *)
(* from that point on next call to write", ssh2/channel.pyx).              *)
(***************************************************************************)
EXTENDS Integers, Sequences

CONSTANTS Stream, Length

VARIABLES
    got,    \* got[s]: the bytes of s the peer has
    told,   \* told[s]: how many of them the client was told of
    state   \* open, done (all told) or failed (an exception was raised)

vars == <<got, told, state>>

Init ==
    /\ got = [s \in Stream |-> <<>>]
    /\ told = [s \in Stream |-> 0]
    /\ state = [s \in Stream |-> "open"]

Chunk(s, n) == [i \in 1..n |-> <<s, Len(got[s]) + i>>]

\* The client of s is told of everything that got through, g bytes in all.
Tell(s, g) ==
    /\ told' = [told EXCEPT ![s] = g]
    /\ state' = [state EXCEPT ![s] = IF g = Length[s] THEN "done" ELSE @]

\* More bytes get through; if they are the last ones, write returns.
Deliver(s) ==
    /\ state[s] = "open"
    /\ \E n \in 1..(Length[s] - Len(got[s])) :
         /\ got' = [got EXCEPT ![s] = @ \o Chunk(s, n)]
         /\ IF Len(got[s]) + n = Length[s]
              THEN Tell(s, Length[s])
              ELSE UNCHANGED <<told, state>>

\* write returns early: the client learns how far it came.
Report(s) ==
    /\ state[s] = "open"
    /\ Tell(s, Len(got[s]))
    /\ UNCHANGED got

\* write raises: the client does not learn how far it came.
Fail(s) ==
    /\ state[s] = "open"
    /\ state' = [state EXCEPT ![s] = "failed"]
    /\ UNCHANGED <<got, told>>

Next == \E s \in Stream : Deliver(s) \/ Report(s) \/ Fail(s)

Spec == Init /\ [][Next]_vars
===============================================================================
