---------------------------- MODULE MCAccounting ----------------------------
(* A small instance of Accounting for TLC. *)
EXTENDS Accounting, TLC

MCGpus  == {0, 1}
MCHosts == {{"cpuacct"}, {"memory"}, {"pids"}}
=============================================================================
