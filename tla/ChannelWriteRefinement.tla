------------------------ MODULE ChannelWriteRefinement ------------------------
(***************************************************************************)
(* ChannelWrite implements ByteStream when every channel has one writer.   *)
(***************************************************************************)
EXTENDS ChannelWrite

StreamState ==
    [w \in Writer |-> IF pc[w] \in {"done", "failed"} THEN pc[w] ELSE "open"]

Promise == INSTANCE ByteStream
    WITH Stream <- Writer, Length <- BufLen,
         got <- [w \in Writer |-> recv[Chan[w]]], told <- pos,
         state <- StreamState

(***************************************************************************)
(* Channel.write over libssh2 behaves as the abstract byte stream: every   *)
(* step of ChannelWrite delivers the next bytes, reports exactly what was  *)
(* delivered, fails, or changes nothing of the stream.                     *)
(***************************************************************************)
WritesAsPromised == Promise!Spec
===============================================================================
