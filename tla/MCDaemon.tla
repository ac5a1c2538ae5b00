------------------------------ MODULE MCDaemon ------------------------------
(* Instances of Daemon for TLC. *)
EXTENDS Daemon, TLC

CONSTANTS a, b

\* ServicePriority: STORAGE above DEFAULT.
OneWave == [s \in Services |-> 50]
TwoWaves == (a :> 50) @@ (b :> 80)
=============================================================================
