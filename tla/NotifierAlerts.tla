--------------------------- MODULE NotifierAlerts ---------------------------
(* Notifier with one more history variable: whether an event that needed    *)
(* attention is among those dropped and not yet counted in a message, and   *)
(* among those the current message counts.                                  *)
EXTENDS Notifier

VARIABLE alertCounted

AlertInit == Init /\ alertCounted = [next |-> FALSE, message |-> FALSE]

\* Some caller counts the drop of an event that needs attention.
CountsAlert ==
  \E c \in Callers : caller[c].pc = "count" /\ caller'[c].pc = "mark"

AlertNext ==
  /\ Next
  /\ alertCounted' =
       IF worker = "send" /\ worker' = "compose"
       THEN [next |-> FALSE, message |-> alertCounted.next]
       ELSE [next |-> alertCounted.next \/ CountsAlert,
             message |-> alertCounted.message /\ worker' # "wait"]

AlertSpec == AlertInit /\ [][AlertNext]_<<vars, alertCounted>>

\* "An event only counted still decides how urgent the message is": a message
\* that counts a dropped event which needed attention is marked urgent
\* (Notifier.send, Notifier.Notify).
CountedIsUrgent ==
  worker = "post" /\ alertCounted.message => message.alert
=============================================================================
