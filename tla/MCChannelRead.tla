----------------------------- MODULE MCChannelRead ----------------------------
(* Instances of ChannelRead for TLC. *)
EXTENDS ChannelRead, SequencesExt

CONSTANTS stdout, stderr

\* A client that reads with one size and uses neither flush nor
\* receive_window_adjust2; the connection may be lost.
Steady ==
    [sizes : {{2}}, total : 0..5, least : {1}, blocking : {FALSE},
     sendBlocks : {TRUE}, ops : {{"wait_eof", "wait_closed", "drop"}}]

\* One that uses them, while sending never blocks and no packet is smaller
\* than the difference of the two headers.
Flushing ==
    [sizes : {{2}}, total : 0..4, least : {HeadGap}, blocking : {FALSE},
     sendBlocks : {FALSE}, ops : {{"adjust", "flush"}}]

\* A blocking one, which may change sizes.
Waiting ==
    [sizes : {{2, 5}}, total : 0..4, least : {1}, blocking : {TRUE},
     sendBlocks : {TRUE}, ops : {{"wait_eof", "wait_closed"}}]

SteadyUses == Steady \cup Flushing \cup Waiting

\* A client that reads byte by byte, and a blocking one that changes sizes.
LiveUses ==
    [sizes : {{1}}, total : {2, 5}, least : {1}, blocking : {FALSE},
     sendBlocks : {TRUE}, ops : {{}}]
    \cup
    [sizes : {{2, 6}}, total : {2, 6}, least : {2}, blocking : {TRUE},
     sendBlocks : {TRUE}, ops : {{"wait_eof"}}]

\* A non-blocking client that retries read with another size.
ResizedUses ==
    [sizes : {{5, 10}}, total : {15}, least : {5}, blocking : {FALSE},
     sendBlocks : {TRUE}, ops : {{}}]

\* How much data is queued and not read.
Unread == FoldSeq(LAMBDA p, n : p.left + n, 0, packets)

(***************************************************************************)
(* channel->read_avail, "data immediately available for reading", is what  *)
(* libssh2_channel_window_read_ex counts in the queue; it is brought up to *)
(* date when a read or a flush ends.                                       *)
(***************************************************************************)
ReadAvailExact ==
    pc \notin {"copy", "flush", "refund"} => read_avail = Unread
===============================================================================
