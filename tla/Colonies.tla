------------------------------ MODULE Colonies ------------------------------
(* Workers and colonies sweep one ledger; an agent may run either.            *)
EXTENDS Worker, Colony

SweepInit ==
  /\ PlatformInit
  /\ sweeper = [a \in Agent |-> Between]
  /\ shown = [c \in {} |-> None]

SweepStep(a) ==
  \/ \E by \in {"worker", "colony"} : Start(a, by)
  \/ Choose(a) \/ Finish(a) \/ ClaimItem(a) \/ ReadRecords(a)
  \/ WorkerLooks(a) \/ WorkerDecides(a)
  \/ ColonyLooks(a) \/ Stops(a) \/ Reuses(a) \/ Buys(a) \/ Hints(a)
  \/ RenewLease(a) \/ ReserveRead(a) \/ DispatchRead(a)
  \/ \E outcome \in Outcomes, oversize \in BOOLEAN : AnswerRead(a, outcome, oversize)
  \/ ToolRaises(a)
  \/ \E loss \in Losses : ProposeRead(a, loss)
  \/ AbstainItem(a) \/ CommitItem(a) \/ HandleRejected(a) \/ ReleaseItem(a)
  \/ Die(a)

SweepNext ==
  \/ \E a \in Agent : SweepStep(a)
  \/ \E w \in DOMAIN work : Expire(w) /\ UNCHANGED <<platformTables, sweepTables>>
  \/ \E w \in held : MarkElapses(w) /\ UNCHANGED sweepTables
  \/ Cancel /\ UNCHANGED <<platformTables, sweepTables>>

SweepSpec == SweepInit /\ [][SweepNext]_sweepVars

-----------------------------------------------------------------------------
\* Properties

\* Reads of w that were sent.
Sent(w) == {c \in CallsOf(w) : calls[c].state \in {"dispatched", "received", "response_rejected"}}

\* Nothing is read twice, whatever leases were lost, reservations given up or answers
\* late, and whoever claims the work next: one worker read, or one walk down the tree
\* with a read at each depth in turn, never both, and nothing after a refused answer.
ReadOnce ==
  \A w \in DOMAIN work :
    /\ \A c, d \in Sent(w) : c.by = d.by /\ (c.by = "worker" \/ c.n = d.n => c = d)
    /\ \A c \in Sent(w) : c.by = "colony" =>
         \A k \in 0 .. c.n - 1 : \E d \in Sent(w) : d.n = k /\ calls[d].state = "received"

\* A colony proposes only at the end of a walk: the receipts of the work, whoever paid
\* for them, spell out a complete history of the tree that ends in a decision.
ProposedAtLeaf ==
  \A c \in DOMAIN candidates :
    c.by = "colony" =>
      LET w == c.work
          At_(k) == CHOOSE d \in Sent(w) : d.n = k
          path == [k \in 1 .. c.n + 1 |-> shown[At_(k - 1)]]
      IN path \in DOMAIN Leaves /\ Leaves[path] \in {"accept", "reject"}

\* Between two items, and once its sweep has returned, a process holds no lease that
\* still stands: only a process that died leaves one to expire.
LeavesNothing ==
  \A a \in Agent :
    sweeper[a].at \in {"idle", "choose", "claim"} =>
      \A l \in granted : l.owner = a => ~Holds(l)
=============================================================================
