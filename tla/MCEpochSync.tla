---------------------------- MODULE MCEpochSync ----------------------------
(* Fault budgets for the TLC instances of EpochSync. *)
EXTENDS EpochSync

NoFaults == [f \in Faults |-> 0]

\* Two membership changes and one mishap of every kind.
SafetyFaults == [f \in Faults |-> IF f = "roster" THEN 2 ELSE 1]

\* Of the six kinds of mishap at most three meet in one behaviour.
FewMishaps ==
  Cardinality({f \in Faults \ {"roster"} : left[f] < MaxFaults[f]}) <= 3

\* Contention only: three devices over a network that loses nothing.
ContendFaults == [NoFaults EXCEPT !.roster = 2]

\* What the client promises to recover from by itself.
LiveFaults == [NoFaults EXCEPT !.roster = 2, !.lose = 1, !.prune = 1, !.crash = 1]

\* One membership change and one mishap of the kind in question.
RaceFaults == [NoFaults EXCEPT !.roster = 1, !.race = 1]
LateFaults == [NoFaults EXCEPT !.roster = 1, !.late = 1]
=============================================================================
