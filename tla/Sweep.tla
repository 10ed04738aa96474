------------------------------- MODULE Sweep -------------------------------
(***************************************************************************)
(* What run_worker (runner/worker.py) and run_colony (runner/colony.py)    *)
(* have in common: one bounded sweep of an agent over the ready work of a  *)
(* platform ledger, with SessionDriver (runner/driver.py) as the driver.   *)
(*                                                                         *)
(* A sweeper is the process of one agent.  Its record holds what the       *)
(* process has in memory, all of which may be stale when it is used: every *)
(* call of the session is a step of its own, and between two of them       *)
(* leases expire, other sweepers work, the run is cancelled, or the        *)
(* process dies.  A step that writes either commits or raises (its         *)
(* transaction is not enabled); what a callback decides is a choice.       *)
(***************************************************************************)
EXTENDS Platform, Sequences, SequencesExt

CONSTANTS
  AbstainLoss,  \* plan["abstain_loss"]
  Outcomes      \* what a read may show: \subseteq {"no", "yes", "unknown"}

ASSUME SweepAssumption ==
  /\ AbstainLoss \in Nat
  /\ MaxEpoch >= MaxOperations   \* the model's bound never binds: claims are counted
  /\ Outcomes # {} /\ Outcomes \subseteq {"no", "yes", "unknown"}
  /\ \A c \in CallId : /\ c.by \in {"worker", "colony"} /\ c.work \in Work
                       /\ c.n \in Nat /\ c.attempt \in Nat

VARIABLES
  sweeper,  \* what each process has in memory
  shown     \* the outcome in each receipt of a colony

sweepTables == <<sweeper, shown>>
sweepVars == <<platformVars, sweepTables>>

-----------------------------------------------------------------------------
\* Memory of a process

\* Between two items.
Between == [at |-> "idle", by |-> None, visited |-> {}, limit |-> 0, task |-> None,
            lease |-> None, left |-> 0, buys |-> TRUE, seen |-> [c \in {} |-> None],
            path |-> <<>>, bought |-> 0, call |-> None, waited |-> FALSE]

\* The next item of the sweep, or its end.
Onward(s, at) == [Between EXCEPT !.at = at, !.by = s.by, !.visited = s.visited, !.limit = s.limit]

At(a, at) == sweeper' = [sweeper EXCEPT ![a].at = at]

\* What the walk and the records were is not looked at again.
Done(s, at) == [s EXCEPT !.at = at, !.left = 0, !.buys = TRUE, !.seen = Between.seen,
                         !.path = <<>>, !.bought = 0]

Ends(a, at) == sweeper' = [sweeper EXCEPT ![a] = Done(@, at)]

Fail(a) == Ends(a, "failed") /\ UNCHANGED <<platformVars, shown>>

Quiet == UNCHANGED <<platformVars, shown>>

\* The identity of a read: worker.py by the epoch, colony.py by depth and attempt.
Id(by, w, n, attempt) == [by |-> by, work |-> w, n |-> n, attempt |-> attempt]

\* A worker's read of any claim has an identity.
ASSUME ReadAssumption == \A w \in Work, e \in 1 .. MaxEpoch : Id("worker", w, e, 0) \in CallId

SeenAs(s, state) == {c \in DOMAIN s.seen : s.seen[c] = state}

-----------------------------------------------------------------------------
\* The sweep

\* limit = len(session.ready_work(agent)).
Start(a, by) ==
  /\ sweeper[a].at = "idle"
  /\ ReadyWork(a) # {}
  /\ sweeper' = [sweeper EXCEPT ![a] = [Between EXCEPT !.at = "choose", !.by = by,
                                                       !.limit = Cardinality(ReadyWork(a))]]
  /\ Quiet

\* Any unvisited ready work: which one is the policy's decision.  What is left of
\* its calls is read here and compared with much later.
Choose(a) ==
  LET s == sweeper[a] IN
  /\ s.at = "choose"
  /\ Cardinality(s.visited) < s.limit
  /\ \E w \in ReadyWork(a) \ s.visited :
       sweeper' = [sweeper EXCEPT ![a].at = "claim", ![a].task = w, ![a].visited = @ \cup {w},
                                  ![a].left = meta[w].caps.calls - Cardinality(CallsOf(w))]
  /\ Quiet

\* The limit is reached, nothing is ready, or the policy declines.
Finish(a) ==
  /\ sweeper[a].at = "choose"
  /\ sweeper' = [sweeper EXCEPT ![a] = Between]
  /\ Quiet

\* claim, and the plan made for the item.  At the control budget claim raises, and
\* the sweep with it; with nothing to lease it has recovered what expired.
ClaimItem(a) ==
  LET s == sweeper[a]
      lease == [work |-> s.task, owner |-> a, epoch |-> work[s.task].epoch + 1]
  IN
  /\ s.at = "claim"
  /\ IF Claims(a, s.task)
     THEN \/ /\ ClaimAvailable(a, s.task)
             /\ \E buys \in BOOLEAN, at \in {"read", "failed"} :
                  sweeper' = [sweeper EXCEPT ![a].at = at, ![a].lease = lease, ![a].buys = buys]
          \/ /\ operations = MaxOperations
             /\ sweeper' = [sweeper EXCEPT ![a] = Between]
             /\ UNCHANGED platformVars
     ELSE /\ sweeper' = [sweeper EXCEPT ![a] = Onward(s, "choose")]
          /\ RecoverFreely \/ (Expired = {} /\ UNCHANGED platformVars)
  /\ UNCHANGED shown

\* work_calls.  A claim gives up reservations and is refused over a dispatch, so the
\* two branches for them are not reached from a lease that stands.
ReadRecords(a) ==
  LET s == sweeper[a] IN
  /\ s.at = "read"
  /\ IF Holds(s.lease)
     THEN sweeper' = [sweeper EXCEPT
            ![a].seen = [c \in CallsOf(s.task) |-> calls[c].state],
            ![a].at = IF Unknown(s.task)
                         \/ \E c \in CallsOf(s.task) : calls[c].state = "reserved"
                      THEN "release"
                      ELSE IF s.by = "worker" /\ ~s.buys THEN "abstain" ELSE "look"]
     ELSE Ends(a, "failed")
  /\ Quiet

-----------------------------------------------------------------------------
\* One read: renew, and SessionDriver.evaluate

RenewLease(a) ==
  LET s == sweeper[a] IN
  /\ s.at = "renew"
  /\ \/ /\ Renew(s.lease)
        /\ sweeper' = [sweeper EXCEPT ![a].at = "reserve", ![a].bought = @ + 1]
        /\ UNCHANGED shown
     \/ ~ENABLED Renew(s.lease) /\ Fail(a)

ReserveRead(a) ==
  LET s == sweeper[a] IN
  /\ s.at = "reserve"
  /\ \/ ReserveCapped(s.lease, s.call, 0, 0) /\ At(a, "dispatch") /\ UNCHANGED shown
     \/ ~ENABLED ReserveCapped(s.lease, s.call, 0, 0) /\ Fail(a)

DispatchRead(a) ==
  LET s == sweeper[a]
      op == Dispatch(s.lease, s.call)
  IN
  /\ s.at = "dispatch"
  /\ \/ op /\ At(a, "tool") /\ UNCHANGED <<platformTables, shown>>
     \/ ~ENABLED op /\ Fail(a)

\* The tool answers, late or not: receive asks for no lease.  A receipt over the byte
\* bound is settled and then raises.
AnswerRead(a, outcome, oversize) ==
  LET s == sweeper[a] IN
  /\ s.at = "tool"
  /\ Receive(s.call, 0, 0, oversize)
  /\ IF oversize THEN Ends(a, "failed") /\ UNCHANGED shown
     ELSE IF s.by = "worker" THEN Ends(a, "decide") /\ UNCHANGED shown
     ELSE /\ shown' = Put(shown, s.call, outcome)
          /\ sweeper' = [sweeper EXCEPT ![a].at = "walk", ![a].path = Append(@, outcome)]
  /\ UNCHANGED platformTables

ToolRaises(a) == sweeper[a].at = "tool" /\ Fail(a)

-----------------------------------------------------------------------------
\* Decisions

ProposeRead(a, loss) ==
  LET s == sweeper[a] IN
  /\ s.at = "propose"
  /\ \/ Propose(s.lease, s.call, loss) /\ At(a, "commit") /\ UNCHANGED shown
     \/ ~ENABLED Propose(s.lease, s.call, loss) /\ Fail(a)

AbstainItem(a) ==
  LET s == sweeper[a] IN
  /\ s.at = "abstain"
  /\ \/ Abstain(s.lease) /\ sweeper' = [sweeper EXCEPT ![a] = Onward(s, "choose")] /\ UNCHANGED shown
     \/ ~ENABLED Abstain(s.lease) /\ Fail(a)

\* commit needs no lease: its rule decides over all candidates of the work, for this
\* agent.  The rule, the verifier or the transaction may raise.
CommitItem(a) ==
  LET s == sweeper[a]
      w == s.task
      done == sweeper' = [sweeper EXCEPT ![a] = Onward(s, "choose")]
  IN
  /\ s.at = "commit"
  /\ \/ /\ w \in DOMAIN decisions /\ run.enabled
        /\ done /\ UNCHANGED platformVars
     \/ CommitWaits(w, a) /\ sweeper' = [sweeper EXCEPT ![a].at = "release", ![a].waited = TRUE]
     \/ \E c \in Contested(w) : CommitPublishes(a, c, AbstainLoss) /\ done
     \/ CommitAbstains(w, a) /\ done
     \/ At(a, "failed") /\ UNCHANGED platformVars
  /\ UNCHANGED shown

-----------------------------------------------------------------------------
\* The exception handler, and _release

\* A rejected response ends the task, if the abstention can still be written.
HandleRejected(a) ==
  LET s == sweeper[a] IN
  /\ s.at = "failed"
  /\ s.call \in DOMAIN calls /\ calls[s.call].state = "response_rejected"
  /\ At(a, "release")
  /\ UNCHANGED shown
  /\ Abstain(s.lease) \/ (~ENABLED Abstain(s.lease) /\ UNCHANGED platformVars)

\* Mutant: a lease is left to expire when commit waits.
ReleaseUnlessWaiting(a) ==
  LET s == sweeper[a] IN
  /\ s.at \in {"release", "failed"}
  /\ IF Holds(s.lease) /\ ~s.waited THEN Release(s.lease) ELSE UNCHANGED platformVars
  /\ sweeper' = [sweeper EXCEPT ![a] = Onward(s, "choose")]
  /\ UNCHANGED shown

\* _release: give the lease back, or recover once it is gone.  After a wait a colony
\* may mark the work (another transaction).
ReleaseItem(a) ==
  LET s == sweeper[a] IN
  /\ \/ s.at = "release"
     \/ /\ s.at = "failed"
        /\ ~(s.call \in DOMAIN calls /\ calls[s.call].state = "response_rejected")
  /\ IF Holds(s.lease) THEN Release(s.lease)
     ELSE RecoverFreely \/ (Expired = {} /\ UNCHANGED platformVars)
  /\ \/ sweeper' = [sweeper EXCEPT ![a] = Onward(s, "choose")]
     \/ s.waited /\ s.by = "colony" /\ At(a, "mark")
  /\ UNCHANGED shown

\* The process dies, at any step; what it had in memory is lost.
Die(a) ==
  /\ sweeper[a].at \notin {"idle", "dead"}
  /\ sweeper' = [sweeper EXCEPT ![a] = [Between EXCEPT !.at = "dead"]]
  /\ Quiet
=============================================================================
