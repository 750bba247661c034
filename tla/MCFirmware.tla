---------------------------- MODULE MCFirmware -----------------------------
(* A small instance of Firmware for TLC: version 1 of channel dev and       *)
(* version "1-dev" of channel stable, whose files have the same name.       *)
EXTENDS Firmware

MCChannelOf == [n \in {"1@dev", "1-dev@stable"} |-> IF n = "1@dev" THEN "dev" ELSE "stable"]
MCVersionOf == [n \in {"1@dev", "1-dev@stable"} |-> IF n = "1@dev" THEN "1" ELSE "1-dev"]
MCFinalName == [n \in {"1@dev", "1-dev@stable"} |-> "rebooter-1-dev"]
MCParsed ==
  [ch \in {"dev", "stable"} |->
     [f \in {"rebooter-1-dev"} |-> IF ch = "dev" THEN "1@dev" ELSE "1-dev@stable"]]

=============================================================================
