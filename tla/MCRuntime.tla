----------------------------- MODULE MCRuntime -----------------------------
(* Instances of Runtime and Audit for TLC. *)
EXTENDS Audit, MCOrchestration, TLC

CONSTANTS r1, r2

Keys == [work : Work, kind : {"model", "tool"}, step : 0 .. 4, attempt : 0 .. MaxOperations + 1]

\* A tool, an answer, an answer that does not parse, an abstention.
RunAnswers ==
  [w \in Work |-> AnswersOf(w, {Submit, UseTool, [kind |-> "invalid"], [kind |-> "abstain"]})]

PlainAnswers == [w \in Work |-> {Submit, [kind |-> "invalid"]}]

Runs == {ToolTask, SplitTask, Judged(2, 3)}
ResumedRuns == {ToolTask, SplitTask}

\* Each of the five steps takes two sweeps, an answer and its rejection: together the
\* default bound of ten, before the sweep that would end the task.
LongRun == {solo :> [Plain(5, 5) EXCEPT !.rejections = 5]}

\* No rejection is allowed at all.
StrictRun == {solo :> [ToolTask[solo] EXCEPT !.rejections = 0]}

RunnerSymmetry == Permutations(Runner)
=============================================================================
