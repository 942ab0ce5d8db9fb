----------------------------- MODULE MCBackups -----------------------------
(* Instance of Backups for TLC. *)
EXTENDS Backups, TLC

Symmetry == Permutations(Requests) \cup Permutations(Clusters) \cup Permutations(Schedules)

=============================================================================
