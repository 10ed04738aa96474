------------------------------- MODULE Worker -------------------------------
(* The part of the sweep that is run_worker's own: runner/worker.py.  A worker *)
(* buys at most one read per work, and decides from it at once.                *)
EXTENDS Sweep

\* Mutant: what was received under an earlier lease is not looked at.
LookAfresh(a) ==
  LET s == sweeper[a] IN
  /\ s.at = "look" /\ s.by = "worker"
  /\ IF Contested(s.task) # {} THEN Ends(a, "commit")
     ELSE sweeper' = [sweeper EXCEPT ![a].at = "renew",
                                     ![a].call = Id("worker", s.task, s.lease.epoch, 0)]
  /\ Quiet

\* candidates, and the way on: commit what is proposed, use the last receipt of this
\* very read, refuse to buy over any other receipt or a rejected response, or read.
WorkerLooks(a) ==
  LET s == sweeper[a]
      received == SeenAs(s, "received")
      matching == {c \in received : c.by = "worker"}
  IN
  /\ s.at = "look" /\ s.by = "worker"
  /\ \/ Contested(s.task) # {} /\ Ends(a, "commit")
     \/ /\ Contested(s.task) = {}
        /\ IF received # {}
           THEN IF matching = {} THEN Ends(a, "failed")
                ELSE sweeper' = [sweeper EXCEPT ![a] =
                       [Done(@, "decide") EXCEPT
                          !.call = CHOOSE c \in matching : \A d \in matching : d.n <= c.n]]
           ELSE IF SeenAs(s, "response_rejected") # {} THEN Ends(a, "abstain")
           ELSE sweeper' = [sweeper EXCEPT ![a] =
                  [Done(@, "renew") EXCEPT !.call = Id("worker", s.task, s.lease.epoch, 0)]]
  /\ Quiet

\* decide(artifact), which may raise.
WorkerDecides(a) ==
  /\ sweeper[a].at = "decide"
  /\ \E at \in {"propose", "abstain", "failed"} : At(a, at)
  /\ Quiet
=============================================================================
