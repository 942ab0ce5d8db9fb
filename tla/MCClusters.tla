----------------------------- MODULE MCClusters -----------------------------
(* Instance of Clusters for TLC. *)
EXTENDS Clusters, TLC

Symmetry == Permutations(Requests)

Body3(i, s, m) == [instances |-> i, storage |-> s, image |-> m]

\* Full bodies, a change of one field, a size that does not parse, and bodies
\* that leave instances out or make it negative.
MCBodies == {Body3(1, 1, 0), Body3(2, 1, 1), Body3(0, 2, 0), Body3(-1, 1, 1), Body3(2, -1, 0)}

=============================================================================
