---------------------------- MODULE MCChannelWrite ----------------------------
(* Instances of ChannelWrite for TLC. *)
EXTENDS ChannelWriteRefinement, TLC

CONSTANTS c1, c2, w1, w2, a1, a2

\* Two channels with a writer each: the second buffer fits one packet.
TwoChan == (w1 :> c1) @@ (w2 :> c2)
TwoLen == (w1 :> 3) @@ (w2 :> 1)

\* One channel, one writer.
SoloChan == (w1 :> c1)
SoloLen == (w1 :> 4)
===============================================================================
