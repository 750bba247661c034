----------------------------- MODULE MCSensors -----------------------------
(* A small instance of Sensors for TLC: every kind alone, and two polled   *)
(* sources that share the scheduler's job.                                 *)
EXTENDS Sensors

Alone == {[s \in Sources |-> IF s = "s1" THEN k ELSE "none"] : k \in EXTERNAL_SOURCE_KINDS}
Together == {[s \in Sources |-> IF s = "s1" THEN "roku" ELSE "weather"]}

MCFleets == Alone \cup Together

=============================================================================
