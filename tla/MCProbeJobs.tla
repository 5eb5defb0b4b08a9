---------------------------- MODULE MCProbeJobs ----------------------------
(* Instances of ProbeJobs for TLC. *)
EXTENDS ProbeJobs, TLC
=============================================================================
