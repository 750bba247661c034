---------------------------- MODULE MCEnrollment ----------------------------
(* A small instance of Enrollment for TLC.                                 *)
EXTENDS Enrollment

=============================================================================
