--------------------------- MODULE MCDeviceConfig ---------------------------
(* A small instance of DeviceConfig for TLC.                               *)
EXTENDS DeviceConfig

\* Heartbeats with the configuration, with the recovery state, and with both.
PartialOrFull == {{"cfg"}, {"lkg", "rec"}, Fields}

=============================================================================
