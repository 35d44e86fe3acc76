-------------------------- MODULE MCVitalityTasks --------------------------
(* Instances of VitalityTasks for TLC.                                     *)
EXTENDS VitalityTasks

\* A calculation that may fail and may succeed.
AnyOutcome == {"scored", "raised"}

Container == {"ready", "command"}
=============================================================================
