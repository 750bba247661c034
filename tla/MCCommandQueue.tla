-------------------------- MODULE MCCommandQueue --------------------------
(* CommandQueue on small instances.                                        *)
EXTENDS CommandQueue

AckThenCompleted == {{"accepted", "completed"}}
=============================================================================
