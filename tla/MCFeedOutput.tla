---------------------------- MODULE MCFeedOutput ----------------------------
(* FeedOutput with a story the page dates and one it does not. *)
EXTENDS FeedOutput

\* An old date: the first story is the first to go.
DatesOld == [k \in Keys |-> IF k = 1 THEN 1 ELSE 0]

\* Filters that keep everything, or leave out one story.
KeepAllBut1 == {Keys, Keys \ {1}}

\* No filters.
KeepAll == {Keys}
============================================================================
