-------------------------- MODULE MCPowerControl --------------------------
(* PowerControl on small instances.                                        *)
EXTENDS PowerControl

GroupSymmetry == Permutations(Device) \cup Permutations(Thread)
=============================================================================
