------------------------------- MODULE Colony -------------------------------
(***************************************************************************)
(* The part of the sweep that is run_colony's own: runner/colony.py.  A    *)
(* colony walks a frozen tree of reads: each settled receipt is one step   *)
(* down, also for whoever claims the work next.                            *)
(***************************************************************************)
EXTENDS Sweep

\* The frozen tree, as the set of its complete histories with the action at each;
\* "void" is an action whose leaf has zero mass.
CONSTANT Leaves

\* Every history of the walk.
Walks == UNION {Prefixes(h) : h \in DOMAIN Leaves}

ASSUME TreeAssumption ==
  /\ \A h \in DOMAIN Leaves : /\ h \in Seq({"no", "yes"})
                              /\ Leaves[h] \in {"abstain", "accept", "reject", "void"}
  \* each history is complete, and every query has two branches
  /\ \A p \in Walks \ DOMAIN Leaves, o \in {"no", "yes"} : Append(p, o) \in Walks
  /\ \A h \in DOMAIN Leaves : Prefixes(h) \cap DOMAIN Leaves = {h}
  \* an attempt at any depth has an identity
  /\ \A p \in Walks \ DOMAIN Leaves, w \in Work, n \in 0 .. MaxCalls :
       Id("colony", w, Len(p), n) \in CallId

\* max(_query_depths(node)) - node.depth + 1, of the node a history leads to.
Needed(path) ==
  Max({Len(h) : h \in {g \in DOMAIN Leaves : IsPrefix(path, g)}}) - Len(path)

\* Mutant: any receipt of the tree answers the read at this depth.
MatchingAny(s, depth) == {c \in SeenAs(s, "received") : c.by = "colony"}

\* Receipts of the read at a depth, among what the process has seen.
Matching(s, depth) == {c \in SeenAs(s, "received") : c.by = "colony" /\ c.n = depth}

Latest(C) == CHOOSE c \in C : \A d \in C : d.attempt <= c.attempt

Reused(s) == {Latest(Matching(s, d)) : d \in {e \in 0 .. Len(s.path) - 1 : Matching(s, e) # {}}}

\* The first attempt at a depth that was not given up.
NextAttempt(s, depth) ==
  Min({n \in 0 .. MaxCalls : LET c == Id("colony", s.task, depth, n)
                             IN c \notin SeenAs(s, "abandoned")})

\* candidates come before the decision to buy; to commit them a plan that declines
\* must have declared its abstention loss.
ColonyLooks(a) ==
  LET s == sweeper[a] IN
  /\ s.at = "look" /\ s.by = "colony"
  /\ IF Contested(s.task) # {}
     THEN Ends(a, "commit") \/ (~s.buys /\ Ends(a, "failed"))
     ELSE IF s.buys THEN At(a, "walk") ELSE Ends(a, "abstain")
  /\ Quiet

\* The walk is at a leaf, or at an outcome nobody knows.
Stops(a) ==
  LET s == sweeper[a]
      unknown == s.path # <<>> /\ Last(s.path) = "unknown"
  IN
  /\ s.at = "walk"
  /\ unknown \/ s.path \in DOMAIN Leaves
  /\ Ends(a, IF unknown \/ s.path = <<>> \/ Leaves[s.path] \in {"abstain", "void"}
             THEN "abstain" ELSE "propose")
  /\ Quiet

\* A receipt of the read is reused.
Reuses(a) ==
  LET s == sweeper[a]
      c == Latest(Matching(s, Len(s.path)))
  IN
  /\ s.at = "walk" /\ s.path \in Walks \ DOMAIN Leaves
  /\ Matching(s, Len(s.path)) # {}
  /\ sweeper' = [sweeper EXCEPT ![a].call = c, ![a].path = Append(@, shown[c])]
  /\ Quiet

\* Otherwise it is bought, unless a receipt of another read exists, a response was
\* rejected, or the tree may need more reads than the work had left.
Buys(a) ==
  LET s == sweeper[a]
      depth == Len(s.path)
      c == Id("colony", s.task, depth, NextAttempt(s, depth))
  IN
  /\ s.at = "walk" /\ s.path \in Walks \ DOMAIN Leaves
  /\ Matching(s, depth) = {}
  /\ IF SeenAs(s, "received") \ Reused(s) # {} THEN Ends(a, "failed")
     ELSE IF SeenAs(s, "response_rejected") # {} THEN Ends(a, "abstain")
     ELSE IF Needed(s.path) > s.left - s.bought THEN Ends(a, "failed")
     ELSE sweeper' = [sweeper EXCEPT ![a].call = c,
                                     ![a].at = IF c \in DOMAIN s.seen THEN "failed" ELSE "renew"]
  /\ Quiet

\* A scheduling hint after a wait, whose refusal changes nothing.
Hints(a) ==
  LET s == sweeper[a] IN
  /\ s.at = "mark"
  /\ sweeper' = [sweeper EXCEPT ![a] = Onward(s, "choose")]
  /\ MarkNoEntry(s.task, TRUE) \/ (~ENABLED MarkNoEntry(s.task, TRUE) /\ UNCHANGED platformVars)
  /\ UNCHANGED shown
=============================================================================
