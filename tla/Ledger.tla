------------------------------- MODULE Ledger -------------------------------
(***************************************************************************)
(* What the notifier promises about events: each one is told once, in one  *)
(* message, as a line of it or in its count, and none is left when the     *)
(* notifier closes.                                                        *)
(***************************************************************************)
EXTENDS Naturals

VARIABLES
  owed,    \* events raised and in no message yet
  told,    \* events in messages whose delivery has ended
  closed   \* no message follows

Init == owed = 0 /\ told = 0 /\ closed = FALSE

Raise == ~closed /\ owed' = owed + 1 /\ UNCHANGED <<told, closed>>

\* The delivery of a message of n events ends, accepted or given up; the last
\* one tells everything.
Tell ==
  /\ ~closed
  /\ \E n \in 0..owed : owed' = owed - n /\ told' = told + n
  /\ closed' \in BOOLEAN /\ (closed' => owed' = 0)

Spec == Init /\ [][Raise \/ Tell]_<<owed, told, closed>>
============================================================================
