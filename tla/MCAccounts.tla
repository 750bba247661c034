----------------------------- MODULE MCAccounts -----------------------------
(* A small instance of Accounts for TLC.                                   *)
EXTENDS Accounts, TLC

\* The hub's threads are interchangeable.
Threads == Permutations(Workers)

=============================================================================
