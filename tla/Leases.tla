------------------------------- MODULE Leases -------------------------------
(* The lifetime of a lease: pheroos_interaction/leases.py, over integers.      *)
EXTENDS Integers, FiniteSets, FiniteSetsExt, Sequences, SequencesExt

\* loss(T), times the size of the sample: leases that would expire too early, and the
\* ticks a dead holder goes unnoticed (p_fail * per_tick_cost is rate).
LeaseLoss(sample, ttl, rate, expiry) ==
  Cardinality({i \in DOMAIN sample : sample[i] > ttl}) * expiry + Len(sample) * ttl * rate

\* Mutant: a later lifetime that is no worse is taken.
LeaseTtlLatest(sample, extra, rate, expiry) ==
  LET searched == {T \in Range(sample) \cup extra : T > 0}
      better(best, T) ==
        IF LeaseLoss(sample, T, rate, expiry) <= LeaseLoss(sample, best, rate, expiry) THEN T ELSE best
  IN FoldLeft(better, Min(searched), SetToSortSeq(searched, <))

\* lease_ttl: the candidates in ascending order, each taken if it is strictly better.
\* Without a positive one the code raises.
LeaseTtl(sample, extra, rate, expiry) ==
  LET searched == {T \in Range(sample) \cup extra : T > 0}
      better(best, T) ==
        IF LeaseLoss(sample, T, rate, expiry) < LeaseLoss(sample, best, rate, expiry) THEN T ELSE best
  IN FoldLeft(better, Min(searched), SetToSortSeq(searched, <))
=============================================================================
