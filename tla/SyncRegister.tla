---------------------------- MODULE SyncRegister ----------------------------
(***************************************************************************)
(* What multi-hub sync promises of the copies the hubs keep of an entity   *)
(* (RFC-004, last-writer-wins): a copy is changed by the hub's own users,  *)
(* removed, or overtaken by a version that was written somewhere and is    *)
(* strictly newer.  Replication invents no version and never takes a copy  *)
(* back to an older or an equally old one.                                 *)
(*                                                                         *)
(* The promise ends for an entity whose copy was written over by a         *)
(* transaction that had read another one (crossed).                        *)
(***************************************************************************)
EXTENDS Integers

CONSTANTS Hubs, Keys, Versions, Absent

VARIABLES copy,    \* hub -> entity -> the version it has, or Absent
          written, \* entity -> the versions written so far, on any hub
          crossed  \* the entities two overlapping transactions have written

vars == <<copy, written, crossed>>

Newer(v, old) == old = Absent \/ old.at < v.at

Init ==
  /\ copy = [h \in Hubs |-> [k \in Keys |-> Absent]]
  /\ written = [k \in Keys |-> {}]
  /\ crossed = {}

\* A user of hub h saves a version nobody has written before.
Write(h, k) ==
  \E v \in Versions \ written[k] :
    /\ copy' = [copy EXCEPT ![h][k] = v]
    /\ written' = [written EXCEPT ![k] = @ \cup {v}]
    /\ UNCHANGED crossed

\* Hub h learns of a newer version.
Take(h, k) ==
  \E v \in written[k] :
    /\ Newer(v, copy[h][k])
    /\ copy' = [copy EXCEPT ![h][k] = v]
    /\ UNCHANGED <<written, crossed>>

Remove(h, k) ==
  /\ copy' = [copy EXCEPT ![h][k] = Absent]
  /\ UNCHANGED <<written, crossed>>

\* A write to an entity that is, or now gets, crossed.
Cross(h, k) ==
  /\ crossed' = crossed \cup {k}
  /\ \E v \in Versions \cup {Absent} : copy' = [copy EXCEPT ![h][k] = v]
  /\ \/ UNCHANGED written
     \/ \E v \in Versions : written' = [written EXCEPT ![k] = @ \cup {v}]

Next == \E h \in Hubs, k \in Keys : Write(h, k) \/ Take(h, k) \/ Remove(h, k) \/ Cross(h, k)

Spec == Init /\ [][Next]_vars

=============================================================================
