----------------------------- MODULE FeedReader -----------------------------
(***************************************************************************)
(* A reader that polls the feed of FeedOutput and sends If-Modified-Since  *)
(* with the time of its copy.  App.rss (internal/web) answers from two     *)
(* queries, one for the row and one for the stories, outside any           *)
(* transaction.                                                            *)
(***************************************************************************)
EXTENDS FeedOutput

VARIABLE reader      \* its copy, and its request in progress

readerVars == <<vars, reader>>

NoCopy == [polling |-> FALSE, title |-> Nothing.title, changed |-> 0,
           modified |-> 0, copy |-> Nothing]

ReaderInit == Init /\ reader = NoCopy

----------------------------------------------------------------------------
\* GetByToken; a feed without a success answers 503.
PollRow ==
  /\ ~reader.polling /\ feed.success
  /\ reader' = [reader EXCEPT !.polling = TRUE, !.title = feed.title,
                              !.changed = feed.changed]
  /\ UNCHANGED vars

\* Wrong variant: the stories are read first, and the row's time after them.
ReadItemsThenRow ==
  /\ reader.polling
  /\ reader' = [reader EXCEPT !.polling = FALSE, !.modified = feed.changed,
                  !.copy = [Document EXCEPT !.title = reader.title]]
  /\ UNCHANGED vars

\* Items, and the answer: 304, or the document with the row's time.
ReadItems ==
  /\ reader.polling
  /\ reader' = IF reader.modified # 0 /\ reader.changed <= reader.modified
               THEN [reader EXCEPT !.polling = FALSE]
               ELSE [reader EXCEPT
                       !.polling = FALSE, !.modified = reader.changed,
                       !.copy = [Document EXCEPT !.title = reader.title]]
  /\ UNCHANGED vars

\* A restart drops the request.
Cut ==
  /\ Restart
  /\ reader' = [reader EXCEPT !.polling = FALSE]

ReaderNext ==
  \/ Step /\ UNCHANGED reader
  \/ PollRow \/ ReadItems \/ Cut

ReaderSpec == ReaderInit /\ [][ReaderNext]_readerVars

----------------------------------------------------------------------------
(* Properties. *)

\* A reader whose next poll would be answered 304 holds what is published, even
\* when a merge or an edit came between the row and the stories of its answer.
ReaderSeesChange ==
  reader.modified # 0 /\ feed.changed <= reader.modified
    => reader.copy = Document
============================================================================
