--------------------------- MODULE MCTenantScope ----------------------------
(* Small instances of TenantScope for TLC.                                 *)
EXTENDS TenantScope, TLC

\* The threads of the pool are interchangeable.
Pool == Permutations(Threads)

=============================================================================
