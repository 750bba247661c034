----------------------------- MODULE MCHubSync ------------------------------
(* A small instance of HubSync for TLC.                                    *)
EXTENDS HubSync

=============================================================================
