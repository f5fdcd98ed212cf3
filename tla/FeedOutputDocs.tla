--------------------------- MODULE FeedOutputDocs ---------------------------
(* What docs/atom.md says of published stories where the code differs.      *)
EXTENDS MCFeedOutput

\* Saving other cleanup rules leaves the article of a story that the latest
\* refresh to read the page did not list, and that was last merged before it:
\* "Other stories keep their description and article as they were" (Content
\* cleanup; Store.clearArticleBodies).
CleanupKeepsUnlisted ==
  [][feed'.article = feed.article /\ feed'.rules # feed.rules
       => \A k \in (stored \intersect stored') \ listed.keys :
            lastRead # "none" /\ story[k].seen < listed.at
              => story'[k].body = story[k].body]_vars
============================================================================
