-------------------------- MODULE MCWatchdogRule --------------------------
(* WatchdogRule on a small instance.                                       *)
EXTENDS WatchdogRule
=============================================================================
