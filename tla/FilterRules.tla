---------------------------- MODULE FilterRules ----------------------------
(***************************************************************************)
(* Story filters: a feed's own rules and the library filters it uses are   *)
(* merged into one set of rules, which every preview, refresh and pruning  *)
(* evaluates.  FilterLocks has whose rules are merged, this module what    *)
(* the merged ones keep.                                                   *)
(*                                                                         *)
(* A keyword rule is a name: a story is the set of those that match it.    *)
(* The rules of a group are a set, since neither their order nor a rule    *)
(* listed twice changes what matches.                                      *)
(***************************************************************************)
EXTENDS Naturals, FiniteSets

Keyword(name) == [op |-> "contains", name |-> name, rules |-> {}]
Group(op, rules) == [op |-> op, name |-> "group", rules |-> rules]

\* A side of a filter set that is left out.
NoRule == Group("none", {})

FilterSets(rules) ==
  [include: rules \union {NoRule}, exclude: rules \union {NoRule}]

----------------------------------------------------------------------------
(* Matching. *)

\* Whether a rule matches, given which of the rules below it do.
Says(rule, matched) ==
  CASE rule.op = "all" -> rule.rules \subseteq matched
    [] rule.op = "any" -> rule.rules \intersect matched # {}
    [] OTHER -> rule \in matched

\* Of a set of rules that has the ones below each, those that match the story.
Matched(rules, story) ==
  LET match[r \in rules] ==
        CASE r.op = "all" -> \A child \in r.rules : match[child]
          [] r.op = "any" -> \E child \in r.rules : match[child]
          [] OTHER -> r.name \in story
  IN {r \in rules : match[r]}

Keeps(set, matched) ==
  /\ set.include # NoRule => Says(set.include, matched)
  /\ set.exclude # NoRule => ~Says(set.exclude, matched)

----------------------------------------------------------------------------
(* Merging. *)

Spliced(op, part) == IF part.op = op THEN part.rules ELSE {part}

Join(op, parts) ==
  IF Cardinality(parts) > 1
  THEN Group(op, UNION {Spliced(op, part) : part \in parts})
  ELSE IF parts = {} THEN NoRule ELSE CHOOSE part \in parts : TRUE

Combine(own, shared) ==
  LET sets == {own} \union shared
  IN IF shared = {} THEN own
     ELSE [include |-> Join("all", {s.include : s \in sets} \ {NoRule}),
           exclude |-> Join("any", {s.exclude : s \in sets} \ {NoRule})]
=============================================================================
