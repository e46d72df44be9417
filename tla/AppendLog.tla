------------------------------ MODULE AppendLog ------------------------------
(***************************************************************************)
(* What the Delivery Service promises of a conversation's commit log: one  *)
(* sequence of commits that only ever grows, where the commit accepted for *)
(* epoch e stays the commit of epoch e for ever.  CommitLog and EpochSync  *)
(* implement it; neither pruning nor any race may be visible here.         *)
(***************************************************************************)
EXTENDS Naturals, Sequences

CONSTANT Commit         \* the commits members may submit

VARIABLE chain          \* chain[e + 1] is the commit accepted for epoch e

Init == chain = << >>

Extend(c) == chain' = Append(chain, c)

Next == \E c \in Commit : Extend(c)

Spec == Init /\ [][Next]_chain
=============================================================================
