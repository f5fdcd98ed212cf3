--------------------------- MODULE RefreshQueued ---------------------------
(* Refresh with one more history variable: the feeds queued by the refresh  *)
(* handler after the database had refused their last result, and not       *)
(* started since.                                                          *)
EXTENDS Refresh

VARIABLE asked

AskedInit == Init /\ asked = {}

\* f \in refused: the database has answered the last refresh with an error.
\* Leaving queueing is the Queue write of the refresh handler.
AskedNext ==
  /\ Next
  /\ asked' = IF phase' = "down" THEN {}
              ELSE (asked \union (refused \intersect (queueing \ queueing')))
                     \ {f \in Feeds : f \in active' /\ f \notin active}

AskedSpec == AskedInit /\ [][AskedNext]_<<vars, asked>>

\* "Queued means queued": once the database has accepted the Queue write of a
\* manual refresh, and the handler has called Retry and replied, no hold left
\* by the refused result before it keeps the feed waiting (web.refresh,
\* Scheduler.Retry, Scheduler.hold).
QueuedNotHeld == \A f \in asked : f \notin retrying => ~IsHeld(f)
============================================================================
