----------------------------- MODULE RefreshInv -----------------------------
(* The inductive invariant behind the safety theorems of RefreshProofs.     *)
EXTENDS Refresh

\* s was read from f's row: the feed existed, and versions only grow.
Known(f, s) ==
  /\ feedState[f] # "unused"
  /\ feedState[f] = "live" => s.version <= row[f].version

\* What CompleteWithDiagnostics takes from the row a refresh read.
Fresh(f, s) ==
  /\ s.failures = row[f].failures
  /\ s.success = row[f].success
  /\ s.etag = row[f].etag

\* Some refresh of f has left the store and not yet recorded its end.
Ends(f) == \E w \in Workers : feed[w] = f /\ pc[w] \in Answers \union {"finish"}

\* The list of the running tick: an entry is out of date only if the feed's
\* version moved or a refresh of it was answered since the list was read, and
\* then that refresh has yet to record its end or is recorded as since.
ListOK ==
  \A f \in todo :
    LET s == list[f] IN
    /\ Known(f, s)
    /\ Current(f, s) =>
         /\ s.recipe = row[f].recipe
         /\ tickPc = "dispatch" => s.links = row[f].links
         /\ finished[f] # "since" /\ ~Ends(f) => Fresh(f, s)

\* A refresh that the store has yet to answer.
JobOK(w) ==
  LET f == feed[w]  s == snap[w]  result == outcome[w].result IN
  /\ Known(f, s)
  /\ Current(f, s) =>
       /\ Fresh(f, s)
       /\ s.recipe = row[f].recipe
       /\ s.links = row[f].links
       /\ pc[w] = "extract" \/ result \in {"ok", "notmod"}
            => used[w] = Effective(f)
  /\ pc[w] \in {"begin", "extract"} => result = "none"
  /\ pc[w] = "judge" => result # "none"
  /\ pc[w] = "save" => result \in {"ok", "notmod", "fail"}
  /\ result = "notmod" => outcome[w].etag = s.etag
  /\ result = "cut" => phase # "up"

\* A goroutine between two refreshes has no result, and a process that is down
\* has no goroutines.
JobsOK ==
  /\ \A w \in Workers :
       IF Unanswered(w) THEN JobOK(w) ELSE outcome[w].result = "none"
  /\ phase = "down" => \A w \in Workers : pc[w] = "idle"

\* A feed ID that was never used has no failures.
NoPast == \A f \in Feeds : feedState[f] = "unused" => streak[f] = 0

\* A refused feed is held, or its refresh is about to take the hold.
RefusedHeld ==
  \A f \in refused :
    IsHeld(f) \/ \E w \in Workers : feed[w] = f /\ pc[w] = "refused"

\* What the database says of the feeds.
StoreInv ==
  /\ NoDanglingLinks
  /\ NoPast
  /\ FailuresCountStreak
  /\ ValidatorMatchesRecipe
  /\ EditStaysDue

IndInv ==
  /\ TypeOK
  /\ StoreInv
  /\ OneRefreshPerFeed
  /\ ListOK
  /\ JobsOK
  /\ RefusedHeld
  /\ RefusedNotRefetched
============================================================================
