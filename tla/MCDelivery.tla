----------------------------- MODULE MCDelivery -----------------------------
(* Instances of Delivery for TLC. *)
EXTENDS Delivery, TLC

CONSTANTS d1, d2, c1, c2

\* Two members of the group, and a founder with a device that joins later.
TwoDevices == {d1, d2}
OneFounder == {d1}
OneConv == {c1}
TwoConvs == {c1, c2}

Siblings == Permutations({c1, c2})
Peers == Permutations({d1, d2}) \cup Siblings

=============================================================================
