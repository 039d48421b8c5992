--------------------------- MODULE MCFeedPipeline ---------------------------
(* Four datagrams through a queue with room for two: a batch of three can be *)
(* cut short by the queue, a batch of two can arrive behind it, and one      *)
(* failed write can tear a line that the next batch is appended to.  Batch   *)
(* size one is the path with two recvfrom calls.                             *)
EXTENDS FeedPipeline
=============================================================================
