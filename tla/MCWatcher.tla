------------------------------ MODULE MCWatcher ------------------------------
(* Instance of Watcher for TLC. *)
EXTENDS Watcher

\* A phase of each kind that the code tells apart from PhaseHealthy: a new cluster is
\* healthy for want of one, then an operation runs, then it fails, then its operator
\* reports a phase that the code does not know.
MCPhaseOf == [v \in 1..MaxVersion |->
    CASE v = 1 -> NoPhase [] v = 2 -> "upgrade" [] v = 3 -> "failover" [] OTHER -> "new phase"]

=============================================================================
