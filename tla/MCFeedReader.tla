---------------------------- MODULE MCFeedReader ----------------------------
(* FeedReader over the same small feeds as MCFeedOutput. *)
EXTENDS FeedReader, MCFeedOutput
============================================================================
