------------------------------ MODULE Stamped ------------------------------
(***************************************************************************)
(* What a feed's modification time promises its readers: it moves forward  *)
(* whenever the published document changes, and only then.  FeedOutput     *)
(* implements it with feeds.last_changed as the stamp.                     *)
(***************************************************************************)
EXTENDS Naturals

CONSTANT Nothing    \* stands for the document of a feed that answers 503

VARIABLES
  doc,              \* what a reader receives
  stamp             \* its Last-Modified, in seconds; 0 while there is none

Init ==
  \/ doc = Nothing /\ stamp = 0
  \/ doc # Nothing /\ stamp \in Nat \ {0}

Publish ==
  /\ doc' # Nothing /\ doc' # doc
  /\ stamp' \in Nat /\ stamp' > stamp

Spec == Init /\ [][Publish]_<<doc, stamp>>
============================================================================
