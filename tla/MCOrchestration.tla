--------------------------- MODULE MCOrchestration --------------------------
(* Instances of Orchestration for TLC: the specifications a run may be given. *)
EXTENDS Orchestration

CONSTANTS a1, solo, again, whole, piece, draft, review, judge, tests

NoReserve == [steps |-> 0, calls |-> 0, tokens |-> 0]

Key(w, kind, step, attempt) == [work |-> w, kind |-> kind, step |-> step, attempt |-> attempt]

\* A task of the one agent, with no limits but these.
Plain(steps, calls_) ==
  [kind |-> "model", agents |-> {a1}, tools |-> {}, dependencies |-> {}, reads |-> {},
   steps |-> steps, toolCalls |-> 0, rejections |-> 0, calls |-> calls_, tokens |-> 2 * calls_,
   maxChildren |-> 0, reserve |-> NoReserve, rule |-> None]

\* One task with a tool, two steps and one rejection: solo has two tool calls to mix
\* receipts up in, again a second attempt of its first step, in three calls.
Tooled(w) ==
  w :> [Plain(2, 4) EXCEPT !.tools = {tests}, !.toolCalls = 1, !.rejections = 1, !.tokens = 6]
ToolTask == Tooled(solo)
RetryTask == again :> [Tooled(again)[again] EXCEPT !.calls = 3]

\* One task that may hand out one child, and keeps a step to join it.
SplitTask ==
  whole :> [Plain(2, 3) EXCEPT !.maxChildren = 1,
                               !.reserve = [steps |-> 1, calls |-> 1, tokens |-> 2]]

\* Two tasks, the second with a checker, and a host task that decides from them.
Judge == [Plain(0, 0) EXCEPT !.kind = "host", !.agents = {Host}, !.dependencies = {draft, review},
                             !.reads = {draft, review},
                             !.rule = [candidate |-> draft, review |-> review, checker |-> tests]]

Judged(steps, calls_) ==
  draft :> [Plain(1, 2) EXCEPT !.rejections = 1] @@
  review :> [Plain(steps, calls_) EXCEPT !.tools = {tests}, !.toolCalls = 1, !.rejections = 1] @@
  judge :> Judge

Specifications == {ToolTask, RetryTask, SplitTask, Judged(1, 2)}

\* What the platform's own create would be given; the ledger's takes a specification.
OneDeclaration == DeclaredWork(ToolTask)
OneBudget == DeclaredBudgets(ToolTask)

Child_(tools, steps, calls_) ==
  [tools |-> tools, dependencies |-> {}, reads |-> {}, steps |-> steps, toolCalls |-> 0,
   rejections |-> 0, calls |-> calls_, tokens |-> 2]

UseTool == [kind |-> "tool", tool |-> tests]
Submit == [kind |-> "submit"]

\* A child that fits, one that takes the reserve, one with a tool of its own.
SplitAnswers ==
  {Submit} \cup {[kind |-> "decompose", children |-> piece :> kid] :
                   kid \in {Child_({}, 1, 1), Child_({}, 1, 2), Child_({tests}, 1, 1)}}

AnswersOf(w, answersOfSolo) ==
  CASE w \in {solo, again} -> answersOfSolo
    [] w \in {whole, piece} -> SplitAnswers
    [] w \in {draft, review, judge} -> {Submit, UseTool}

HostAnswers == [w \in Work |-> AnswersOf(w, {Submit, UseTool})]

HostKeys ==
  {Key(solo, "model", 0, 0), Key(solo, "model", 1, 0),
   Key(solo, "tool", 0, 0), Key(solo, "tool", 1, 0),
   Key(again, "model", 0, 0), Key(again, "model", 1, 0), Key(again, "model", 0, 1),
   Key(again, "tool", 0, 0),
   Key(whole, "model", 0, 0), Key(whole, "model", 1, 0), Key(piece, "model", 0, 0),
   Key(draft, "model", 0, 0), Key(review, "model", 0, 0), Key(review, "tool", 0, 0)}

OneUsage == {<<1, 1>>}
RunUsages == {<<1, 1>>, <<2, 1>>}
=============================================================================
