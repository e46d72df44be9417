----------------------------- MODULE MCCommitLog -----------------------------
(* CommitLog on a small instance.                                          *)
EXTENDS CommitLog, TLC

CONSTANT Steady     \* devices that stay members and keep a group

(* Bounds the churn: a steady device only replays, reports and sees others *)
(* come, go and be re-added.                                               *)
SteadyStays ==
    \A d \in Steady : d \in members /\ applied[d] # NoEpoch /\ welcome[d] = NoEpoch

(* Workers and commits are interchangeable; so are devices, but for Steady *)
(* and for which of them created the group.                                *)
Symmetry == Permutations(Worker) \cup Permutations(Commit)
=============================================================================
