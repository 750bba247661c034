---------------------------- MODULE HubSyncProofs ----------------------------
(***************************************************************************)
(* HubSync for every number of hubs, keys and edits: a deletion that a hub *)
(* has applied is final there, and the copies the hubs keep implement the  *)
(* last-writer-wins registers of SyncRegister.                             *)
(*                                                                         *)
(* The argument.  An id belongs to one key for ever, because ids and       *)
(* version numbers are made from the count of edits and every row has an   *)
(* event that shows its id (IdInv, RowInv); a transaction that has read    *)
(* the row has a number of its own, and once flushed it holds the row's    *)
(* lock, so what it emitted is what it will write (TxnInv); a batch holds  *)
(* committed events only (JobInv), and the one about to be written is      *)
(* newer than the row the applier has read (SeenInv).                      *)
(***************************************************************************)
EXTENDS HubSync, TLAPS, WellFoundedInduction

Row == [id: Nat, at: Nat, val: Nat]
Txn == [stage: {"none", "read", "open"}, seq: Nat, old: Row, row: Row]
OutboxEvent == [key: Keys, id: Nat, deleted: BOOLEAN, at: Nat, val: Nat,
                st: {"open", "visible", "void"}]

TypeInv ==
  /\ slot \in [Hubs -> [Keys -> Row]]
  /\ outbox \in [Hubs -> Seq(OutboxEvent)]
  /\ tomb \in [Hubs -> SUBSET (1 .. edits)]
  /\ txn \in [Hubs -> [Keys -> Txn]]
  /\ clock \in 1 .. MaxClock /\ edits \in 0 .. MaxEdits

\* A version some user has written, in this run so far.
Dated(v) == v.at \in 1 .. clock /\ v.val \in 1 .. edits

\* An event names an id that was given to its key and to no other.
IdInv ==
  \A g \in Hubs : \A s \in DOMAIN outbox[g] :
    /\ outbox[g][s].id \in 1 .. edits
    /\ outbox[g][s].deleted => outbox[g][s].val = 0
    /\ ~outbox[g][s].deleted => Dated(outbox[g][s])
    /\ \A h \in Hubs : \A u \in DOMAIN outbox[h] :
         outbox[g][s].id = outbox[h][u].id => outbox[g][s].key = outbox[h][u].key

\* Id i was used for key k in an event.
Names(i, k) == \E g \in Hubs : \E s \in DOMAIN outbox[g] :
                 outbox[g][s].id = i /\ outbox[g][s].key = k

\* A committed event shows version v of key k.
Shows(v, k) == \E g \in Hubs : \E s \in DOMAIN outbox[g] :
                 /\ outbox[g][s].key = k /\ outbox[g][s].st = "visible" /\ ~outbox[g][s].deleted
                 /\ outbox[g][s].at = v.at /\ outbox[g][s].val = v.val

\* A row has its id and its version from events of its key.
Known(r, k) ==
  r # NoRow => Dated(r) /\ r.id \in 1 .. edits /\ Names(r.id, k) /\ Shows(r, k)

RowInv == \A h \in Hubs, k \in Keys : Known(slot[h][k], k)

\* Number n was taken by the transaction on key k at hub h and is not in use.
Own(h, k, n) ==
  /\ n \in 1 .. edits /\ n \notin tomb[h]
  /\ \A g \in Hubs : \A s \in DOMAIN outbox[g] : outbox[g][s].id # n /\ outbox[g][s].val # n
  /\ \A g \in Hubs, l \in Keys :
       ~(g = h /\ l = k) => txn[g][l].row.id # n /\ txn[g][l].row.val # n

\* A transaction that has read the row and not flushed it yet.
ReadInv(h, k, t) ==
  /\ Known(t.old, k)
  /\ IF t.row = NoRow THEN t.old # NoRow
     ELSE /\ t.row.at \in 1 .. clock
          /\ t.row = t.old \/ Own(h, k, t.row.val)
          /\ t.row.id = IF t.old = NoRow THEN t.row.val ELSE t.old.id

\* The flushed transaction t on the row of key k at hub h, and its event.
Emitted(h, k, t) ==
  /\ t.seq \in DOMAIN outbox[h]
  /\ outbox[h][t.seq].key = k /\ outbox[h][t.seq].st = "open"
  /\ IF t.row = NoRow THEN outbox[h][t.seq].deleted
     ELSE /\ ~outbox[h][t.seq].deleted
          /\ outbox[h][t.seq].id = t.row.id
          /\ outbox[h][t.seq].at = t.row.at
          /\ outbox[h][t.seq].val = t.row.val

\* Its version is the row's, or bears a number no other event has.
NewOrSame(h, k, t) ==
  \/ t.row = slot[h][k]
  \/ k \in crossed
  \/ \A g \in Hubs : \A u \in DOMAIN outbox[g] :
       outbox[g][u].val = t.row.val => g = h /\ u = t.seq

OpenInv(h, k, t) ==
  /\ Emitted(h, k, t)
  /\ t.row # NoRow => Finds(h, k, t) /\ NewOrSame(h, k, t) /\ t.row.id \notin tomb[h]

TxnOf(h, k) ==
  /\ txn[h][k].row.id \in 0 .. edits /\ txn[h][k].row.val \in 0 .. edits
  /\ txn[h][k].stage = "read" => ReadInv(h, k, txn[h][k])
  /\ txn[h][k].stage = "open" => OpenInv(h, k, txn[h][k])

TxnInv == \A h \in Hubs, k \in Keys : TxnOf(h, k)

\* What a replicator has yet to apply was committed when it was fetched.
Job(j) == [busy |-> j.busy, peer |-> j.peer, batch |-> j.batch, last |-> j.last,
           seen |-> j.seen, open |-> j.open]

JobInv ==
  /\ job = [h \in Hubs |-> job[h]]
  /\ \A h \in Hubs :
       \/ job[h] = Idle
       \/ /\ job[h] = Job(job[h]) /\ job[h].peer \in Hubs
          /\ \A s \in job[h].batch : s \in DOMAIN outbox[job[h].peer]
                                     /\ outbox[job[h].peer][s].st = "visible"

\* The event it is about to write was found applicable and newer.
Seen(h) ==
  job[h].seen # {} =>
    /\ job[h].batch # {} /\ ~Current(h).deleted /\ Current(h).id \notin tomb[h]
    /\ \A r \in job[h].seen : r = NoRow \/ r.at < Current(h).at

SeenInv == \A h \in Hubs : job[h] # Idle => Seen(h)

IInv == TypeInv /\ IdInv /\ RowInv /\ TxnInv /\ JobInv /\ SeenInv /\ DeletedStaysDeleted

-----------------------------------------------------------------------------
(* The operators                                                           *)

USE SyncAssumption

\* The smallest member of a set of sequence numbers is one of them.
LEMMA MinOfNaturals ==
    ASSUME NEW S \in SUBSET Nat, S # {}
    PROVE  Min(S) \in S /\ \A y \in S : Min(S) <= y
  <1> DEFINE R == {ss \in Nat \X Nat : ss[1] < ss[2]}
  <1>1. OpToRel(<, Nat) = R
    BY DEF OpToRel
  <1>2. IsWellFoundedOn(R, Nat)
    BY <1>1, NatLessThanWellFounded, Zenon
  <1> HIDE DEF R
  <1>3. PICK x \in S : \A y \in S : <<y, x>> \notin R
    BY <1>2, WFMin
  <1>4. \A y \in S : x <= y
    <2> SUFFICES ASSUME NEW y \in S, ~ (x <= y) PROVE FALSE
      OBVIOUS
    <2>1. y < x
      OBVIOUS
    <2>2. <<y, x>> \in R
      BY <2>1 DEF R
    <2> QED
      BY <1>3, <2>2
  <1> QED
    BY <1>4 DEF Min

\* The row's two columns of a version are written together.
LEMMA SetVersion ==
    ASSUME NEW r \in Row, NEW a, NEW v
    PROVE  [r EXCEPT !.at = a, !.val = v] = [id |-> r.id, at |-> a, val |-> v]
  <1>1. [r EXCEPT !.at = a] = [id |-> r.id, at |-> a, val |-> r.val]
    BY DEF Row
  <1>2. [r EXCEPT !.at = a, !.val = v] = [[r EXCEPT !.at = a] EXCEPT !.val = v]
    OBVIOUS
  <1>3. [[id |-> r.id, at |-> a, val |-> r.val] EXCEPT !.val = v] = [id |-> r.id, at |-> a, val |-> v]
    OBVIOUS
  <1> QED
    BY <1>1, <1>2, <1>3

\* The outbox only grows, and a committed event stays so.
Grows ==
  \A g \in Hubs : \A s \in DOMAIN outbox[g] :
    /\ s \in DOMAIN outbox'[g]
    /\ outbox'[g][s].key = outbox[g][s].key
    /\ outbox'[g][s].id = outbox[g][s].id
    /\ (outbox'[g][s].deleted <=> outbox[g][s].deleted)
    /\ outbox'[g][s].at = outbox[g][s].at
    /\ outbox'[g][s].val = outbox[g][s].val
    /\ outbox[g][s].st = "visible" => outbox'[g][s].st = "visible"

LEMMA GrowsKeeps ==
    ASSUME Grows
    PROVE  /\ \A i \in Nat, k \in Keys : Names(i, k) => Names(i, k)'
           /\ \A r \in Row, k \in Keys : Shows(r, k) => Shows(r, k)'
  BY DEF Grows, Names, Shows

\* An event is appended.
LEMMA Appended ==
    ASSUME TypeInv, NEW h \in Hubs, NEW e \in OutboxEvent, NEW n, n = Len(outbox[h]) + 1,
           outbox' = [outbox EXCEPT ![h] = Append(@, e)]
    PROVE  /\ outbox' \in [Hubs -> Seq(OutboxEvent)]
           /\ n \in Nat /\ n # 0 /\ n \notin DOMAIN outbox[h]
           /\ DOMAIN outbox'[h] = DOMAIN outbox[h] \cup {n}
           /\ outbox'[h][n] = e
           /\ \A s \in DOMAIN outbox[h] : outbox'[h][s] = outbox[h][s]
           /\ \A g \in Hubs \ {h} : outbox'[g] = outbox[g]
           /\ Grows
  <1>1. outbox[h] \in Seq(OutboxEvent) /\ outbox'[h] = Append(outbox[h], e)
    BY DEF TypeInv
  <1>2. /\ outbox' \in [Hubs -> Seq(OutboxEvent)]
        /\ \A g \in Hubs \ {h} : outbox'[g] = outbox[g]
    BY DEF TypeInv
  <1>3. /\ n \in Nat /\ n # 0 /\ n \notin DOMAIN outbox[h]
        /\ DOMAIN outbox'[h] = DOMAIN outbox[h] \cup {n}
        /\ outbox'[h][n] = e
        /\ \A s \in DOMAIN outbox[h] : outbox'[h][s] = outbox[h][s]
    BY <1>1
  <1> QED
    BY <1>2, <1>3 DEF Grows

\* The status of event s of hub h becomes st, and no other event changes.
ClosedAs(h, s, st) ==
  /\ outbox' \in [Hubs -> Seq(OutboxEvent)]
  /\ \A g \in Hubs : DOMAIN outbox'[g] = DOMAIN outbox[g]
  /\ \A g \in Hubs : \A u \in DOMAIN outbox[g] :
       outbox'[g][u].st = IF g = h /\ u = s THEN st ELSE outbox[g][u].st
  /\ Grows

LEMMA Closed ==
    ASSUME TypeInv, NEW h \in Hubs, NEW s \in DOMAIN outbox[h], NEW st \in {"visible", "void"},
           outbox[h][s].st = "open",
           outbox' = [outbox EXCEPT ![h][s].st = st]
    PROVE  ClosedAs(h, s, st)
  <1>1. outbox[h] \in Seq(OutboxEvent) /\ outbox[h][s] \in OutboxEvent
    BY DEF TypeInv
  <1>2. [outbox[h][s] EXCEPT !.st = st] \in OutboxEvent
    BY <1>1 DEF OutboxEvent
  <1>3. outbox' = [outbox EXCEPT ![h] = [outbox[h] EXCEPT ![s] = [outbox[h][s] EXCEPT !.st = st]]]
    OBVIOUS
  <1>4. [outbox[h] EXCEPT ![s] = [outbox[h][s] EXCEPT !.st = st]] \in Seq(OutboxEvent)
    BY <1>1, <1>2
  <1>5. outbox' \in [Hubs -> Seq(OutboxEvent)]
    BY <1>3, <1>4 DEF TypeInv
  <1>6. /\ \A g \in Hubs \ {h} : outbox'[g] = outbox[g]
        /\ DOMAIN outbox'[h] = DOMAIN outbox[h]
        /\ \A u \in DOMAIN outbox[h] \ {s} : outbox'[h][u] = outbox[h][u]
        /\ outbox'[h][s] = [outbox[h][s] EXCEPT !.st = st]
    BY <1>1, <1>3 DEF TypeInv
  <1>7. /\ outbox'[h][s].st = st /\ outbox'[h][s].key = outbox[h][s].key
        /\ outbox'[h][s].id = outbox[h][s].id /\ (outbox'[h][s].deleted <=> outbox[h][s].deleted)
        /\ outbox'[h][s].at = outbox[h][s].at /\ outbox'[h][s].val = outbox[h][s].val
    BY <1>1, <1>6 DEF OutboxEvent
  <1> QED
    BY <1>5, <1>6, <1>7 DEF ClosedAs, Grows

-----------------------------------------------------------------------------
(* The steps                                                               *)

LEMMA InitInv == Init => IInv
  <1> SUFFICES ASSUME Init PROVE IInv
    OBVIOUS
  <1>1. NoRow \in Row /\ NoTxn \in Txn
    BY DEF NoRow, NoTxn, Row, Txn
  <1>2. TypeInv
    BY <1>1 DEF Init, TypeInv
  <1>3. IdInv /\ RowInv
    BY DEF Init, IdInv, RowInv, Known
  <1>4. TxnInv
    <2>1. NoTxn.row = NoRow /\ NoTxn.stage = "none" /\ NoRow.id = 0 /\ NoRow.val = 0
      BY DEF NoTxn, NoRow
    <2>2. \A h \in Hubs, k \in Keys : txn[h][k] = NoTxn
      BY DEF Init
    <2> QED
      BY <2>1, <2>2 DEF Init, TxnInv, TxnOf
  <1>5. JobInv /\ SeenInv /\ DeletedStaysDeleted
    BY DEF Init, JobInv, SeenInv, DeletedStaysDeleted
  <1> QED
    BY <1>2, <1>3, <1>4, <1>5 DEF IInv

\* What is known of a row stays known while the outboxes grow.
LEMMA KnownKept ==
    ASSUME TypeInv, Grows, edits' \in Nat, clock' \in Nat, edits' >= edits, clock' >= clock,
           NEW k \in Keys, NEW r \in Row, Known(r, k)
    PROVE  Known(r, k)'
  <1> SUFFICES ASSUME r # NoRow
               PROVE  Dated(r)' /\ r.id \in 1 .. edits' /\ Names(r.id, k)' /\ Shows(r, k)'
    BY DEF Known
  <1>1. r.id \in Nat /\ edits \in Nat /\ clock \in Nat
    BY DEF TypeInv, Row
  <1>2. Dated(r) /\ r.id \in 1 .. edits /\ Names(r.id, k) /\ Shows(r, k)
    BY DEF Known
  <1>3. Names(r.id, k)' /\ Shows(r, k)'
    BY <1>1, <1>2, GrowsKeeps
  <1> QED
    BY <1>1, <1>2, <1>3 DEF Dated

LEMMA RowKept ==
    ASSUME IInv, Grows, edits' \in Nat, clock' \in Nat, edits' >= edits, clock' >= clock,
           NEW h \in Hubs, NEW k \in Keys, slot'[h][k] = slot[h][k]
    PROVE  Known(slot[h][k], k)'
  <1>1. PICK r \in Row : r = slot[h][k]
    BY DEF IInv, TypeInv
  <1>2. Known(r, k)'
    BY <1>1, KnownKept DEF IInv, RowInv
  <1> QED
    BY <1>1, <1>2 DEF Known, Dated, Names, Shows

\* No event is added and none gets another number.
SameNumbers ==
  \A g \in Hubs : \A s \in DOMAIN outbox'[g] :
    /\ s \in DOMAIN outbox[g]
    /\ outbox'[g][s].id = outbox[g][s].id /\ outbox'[g][s].val = outbox[g][s].val

LEMMA OwnKept ==
    ASSUME SameNumbers, edits \in Nat, edits' \in Nat, edits' >= edits,
           NEW h \in Hubs, NEW k \in Keys, NEW n, Own(h, k, n), n \notin tomb'[h],
           \A g \in Hubs, l \in Keys :
             ~(g = h /\ l = k) => txn'[g][l].row.id # n /\ txn'[g][l].row.val # n
    PROVE  Own(h, k, n)'
  BY DEF Own, SameNumbers

\* A transaction the step does not touch.
LEMMA TxnKept ==
    ASSUME IInv, Grows, edits' \in Nat, clock' \in Nat, edits' >= edits, clock' >= clock,
           crossed \subseteq crossed',
           NEW h \in Hubs, NEW k \in Keys, NEW t \in Txn, t = txn[h][k], txn'[h][k] = t,
           t.stage = "read" /\ t.row # NoRow /\ Own(h, k, t.row.val) => Own(h, k, t.row.val)',
           t.stage = "open" => outbox'[h][t.seq].st = outbox[h][t.seq].st,
           t.stage = "open" /\ t.row # NoRow =>
             /\ slot'[h][k] = slot[h][k] /\ t.row.id \notin tomb'[h]
             /\ NewOrSame(h, k, t) => NewOrSame(h, k, t)'
    PROVE  TxnOf(h, k)'
  <1>1. TypeInv /\ edits \in Nat /\ clock \in Nat
    BY DEF IInv, TypeInv
  <1>2. t.old \in Row /\ t.row \in Row
    BY DEF Txn
  <1>3. /\ t.row.id \in 0 .. edits /\ t.row.val \in 0 .. edits
        /\ t.stage = "read" => ReadInv(h, k, t)
        /\ t.stage = "open" => OpenInv(h, k, t)
    BY DEF IInv, TxnInv, TxnOf
  <1>4. t.row.id \in 0 .. edits' /\ t.row.val \in 0 .. edits'
    BY <1>1, <1>3
  <1>5. t.stage = "read" => ReadInv(h, k, t)'
    <2> SUFFICES ASSUME t.stage = "read" PROVE ReadInv(h, k, t)'
      OBVIOUS
    <2>1. ReadInv(h, k, t)
      BY <1>3
    <2>2. Known(t.old, k)'
      BY <1>1, <1>2, <2>1, KnownKept DEF ReadInv
    <2>3. CASE t.row = NoRow
      BY <2>1, <2>2, <2>3 DEF ReadInv
    <2>4. CASE t.row # NoRow
      <3>1. t.row.at \in 1 .. clock'
        BY <1>1, <2>1, <2>4 DEF ReadInv
      <3>2. t.row = t.old \/ Own(h, k, t.row.val)'
        BY <2>1, <2>4 DEF ReadInv
      <3> QED
        BY <2>1, <2>2, <2>4, <3>1, <3>2 DEF ReadInv
    <2> QED
      BY <2>3, <2>4
  <1>6. t.stage = "open" => OpenInv(h, k, t)'
    <2> SUFFICES ASSUME t.stage = "open" PROVE OpenInv(h, k, t)'
      OBVIOUS
    <2>1. OpenInv(h, k, t)
      BY <1>3
    <2>2. Emitted(h, k, t)'
      <3>1. t.seq \in DOMAIN outbox'[h]
            /\ outbox'[h][t.seq].key = outbox[h][t.seq].key
            /\ outbox'[h][t.seq].id = outbox[h][t.seq].id
            /\ (outbox'[h][t.seq].deleted <=> outbox[h][t.seq].deleted)
            /\ outbox'[h][t.seq].at = outbox[h][t.seq].at
            /\ outbox'[h][t.seq].val = outbox[h][t.seq].val
        BY <2>1 DEF OpenInv, Emitted, Grows
      <3> QED
        BY <2>1, <3>1 DEF OpenInv, Emitted
    <2>3. t.row # NoRow => Finds(h, k, t)'
      BY <2>1 DEF OpenInv, Finds
    <2> QED
      BY <2>1, <2>2, <2>3 DEF OpenInv
  <1> QED
    BY <1>4, <1>5, <1>6 DEF TxnOf

\* Numbers are the same, and so is every row a transaction has locked.
LEMMA SameKept ==
    ASSUME IInv, SameNumbers, Grows, crossed \subseteq crossed', NEW h \in Hubs, NEW k \in Keys,
           NEW t, t.row # NoRow, slot'[h][k] = slot[h][k], NewOrSame(h, k, t)
    PROVE  NewOrSame(h, k, t)'
  BY DEF NewOrSame, SameNumbers

\* The replicators' jobs are left alone.
LEMMA SeenKept ==
    ASSUME IInv, Grows, job' = job, tomb' = tomb PROVE SeenInv'
  <1> SUFFICES ASSUME NEW h \in Hubs, job'[h] # Idle PROVE Seen(h)'
    BY DEF SeenInv
  <1>1. CASE job[h].seen = {}
    BY <1>1 DEF Seen
  <1>2. CASE job[h].seen # {}
    <2>1. Seen(h)
      BY DEF IInv, SeenInv
    <2> DEFINE p == job[h].peer
               s == Min(job[h].batch)
    <2>2. /\ p \in Hubs
          /\ \A u \in job[h].batch : u \in DOMAIN outbox[p]
      BY DEF IInv, JobInv
    <2>3. job[h].batch \in SUBSET Nat
      <3>1. outbox[p] \in Seq(OutboxEvent)
        BY <2>2 DEF IInv, TypeInv
      <3> QED
        BY <2>2, <3>1
    <2>4. s \in DOMAIN outbox[p]
      BY <1>2, <2>1, <2>2, <2>3, MinOfNaturals DEF Seen
    <2>5. /\ (Current(h)'.deleted <=> Current(h).deleted)
          /\ Current(h)'.id = Current(h).id /\ Current(h)'.at = Current(h).at
      BY <2>2, <2>4 DEF Current, Grows
    <2> QED
      BY <1>2, <2>1, <2>5 DEF Seen
  <1> QED
    BY <1>1, <1>2

LEMMA JobKept ==
    ASSUME IInv, Grows, job' = job PROVE JobInv'
  BY DEF IInv, JobInv, Job, Grows

\* What a handler makes of a row it has read.
LEMMA Mutated ==
    ASSUME IInv, NEW k \in Keys, NEW r \in Row, Known(r, k), NEW m \in Mutations(r),
           edits < MaxEdits
    PROVE  /\ m \in Row /\ m.id \in 0 .. edits + 1 /\ m.val \in 0 .. edits + 1
           /\ IF m = NoRow THEN r # NoRow
              ELSE /\ m.at \in 1 .. clock
                   /\ m = r \/ m.val = edits + 1
                   /\ m.id = IF r = NoRow THEN m.val ELSE r.id
  <1>1. /\ clock \in 1 .. MaxClock /\ edits \in Nat
        /\ r # NoRow => r.at \in 1 .. clock /\ r.val \in 1 .. edits /\ r.id \in 1 .. edits
    BY DEF IInv, TypeInv, Known, Dated
  <1>2. CASE r = NoRow /\ m = Created
    <2>1. /\ m = [id |-> edits + 1, at |-> clock, val |-> edits + 1]
          /\ m.id = edits + 1 /\ m.at = clock /\ m.val = edits + 1
      BY <1>2 DEF Created
    <2> QED
      BY <1>1, <1>2, <2>1 DEF Row, NoRow
  <1>3. CASE r # NoRow /\ m = NoRow
    BY <1>1, <1>3 DEF NoRow, Row
  <1>4. ASSUME r # NoRow, NEW at \in 1 .. clock, NEW v \in 1 .. edits + 1,
               m = [id |-> r.id, at |-> at, val |-> v],
               v = edits + 1 \/ m = r
        PROVE  /\ m \in Row /\ m.id \in 0 .. edits + 1 /\ m.val \in 0 .. edits + 1
               /\ IF m = NoRow THEN r # NoRow
                  ELSE /\ m.at \in 1 .. clock
                       /\ m = r \/ m.val = edits + 1
                       /\ m.id = IF r = NoRow THEN m.val ELSE r.id
    <2>1. m.id = r.id /\ m.at = at /\ m.val = v
      BY <1>4
    <2>2. at \in Nat /\ v \in Nat /\ r.id \in Nat /\ r.id \in 1 .. edits
      BY <1>1, <1>4 DEF Row
    <2>3. m \in Row
      BY <1>4, <2>2 DEF Row
    <2> QED
      BY <1>1, <1>4, <2>1, <2>2, <2>3
  <1>5. CASE r # NoRow /\ m = Stamped(r)
    <2>1. Stamped(r) = [id |-> r.id, at |-> clock, val |-> edits + 1]
      BY <1>1, SetVersion DEF Stamped
    <2> QED
      BY <1>1, <1>4, <1>5, <2>1
  <1>6. CASE r # NoRow /\ m = Unstamped(r)
    <2>1. Unstamped(r) = [id |-> r.id, at |-> r.at, val |-> edits + 1]
      BY <1>1 DEF Unstamped, Row
    <2> QED
      BY <1>1, <1>4, <1>6, <2>1
  <1>7. CASE r # NoRow /\ m = Touched(r)
    <2>1. Touched(r) = [id |-> r.id, at |-> r.at, val |-> r.val]
      BY <1>1 DEF Touched, Row
    <2>2. m = r
      BY <1>7 DEF Touched
    <2> QED
      BY <1>1, <1>4, <1>7, <2>1, <2>2
  <1> QED
    BY <1>2, <1>3, <1>5, <1>6, <1>7 DEF Mutations

LEMMA MutateStep ==
    ASSUME IInv, NEW h \in Hubs, NEW k \in Keys, mutate(h, k) PROVE IInv'
  <1> DEFINE r == slot[h][k]
  <1>b. PICK n : n = edits + 1
    OBVIOUS
  <1>1. PICK m \in Mutations(r) :
          txn' = [txn EXCEPT ![h][k] = [stage |-> "read", seq |-> 0, old |-> r, row |-> m]]
    BY DEF mutate
  <1>a. PICK t : t = [stage |-> "read", seq |-> 0, old |-> r, row |-> m]
    OBVIOUS
  <1>2. /\ edits < MaxEdits /\ edits' = n /\ n = edits + 1 /\ edits \in Nat /\ clock \in Nat
        /\ UNCHANGED <<slot, outbox, tomb, job, clock, crossed>>
        /\ r \in Row /\ Known(r, k)
    BY <1>b DEF mutate, Op, IInv, TypeInv, RowInv
  <1>3. /\ m \in Row /\ m.id \in 0 .. n /\ m.val \in 0 .. n
        /\ IF m = NoRow THEN r # NoRow
           ELSE /\ m.at \in 1 .. clock
                /\ m = r \/ m.val = n
                /\ m.id = IF r = NoRow THEN m.val ELSE r.id
    BY <1>2, Mutated
  <1>4. /\ t \in Txn /\ txn' \in [Hubs -> [Keys -> Txn]] /\ txn'[h][k] = t
        /\ t.stage = "read" /\ t.old = r /\ t.row = m
        /\ \A g \in Hubs, l \in Keys : ~(g = h /\ l = k) => txn'[g][l] = txn[g][l]
    <2>1. t \in Txn
      BY <1>a, <1>2, <1>3 DEF Txn
    <2> QED
      BY <1>a, <1>1, <2>1 DEF IInv, TypeInv
  <1>5. TypeInv'
    <2>1. tomb \in [Hubs -> SUBSET (1 .. edits')] /\ edits' \in 0 .. MaxEdits
      BY <1>2 DEF IInv, TypeInv
    <2> QED
      BY <1>2, <1>4, <2>1 DEF IInv, TypeInv
  <1>6. IdInv'
    BY <1>2 DEF IInv, IdInv, Dated
  <1>7. Grows /\ SameNumbers
    BY <1>2 DEF Grows, SameNumbers
  <1>8. RowInv'
    BY <1>2, <1>7, RowKept DEF RowInv
  <1>9. \A g \in Hubs, l \in Keys :
          txn[g][l].row.id \in 0 .. edits /\ txn[g][l].row.val \in 0 .. edits
    BY DEF IInv, TxnInv, TxnOf
  <1>10. \A g \in Hubs : \A s \in DOMAIN outbox[g] : outbox[g][s].id # n /\ outbox[g][s].val # n
    <2> SUFFICES ASSUME NEW g \in Hubs, NEW s \in DOMAIN outbox[g]
                 PROVE  outbox[g][s].id # n /\ outbox[g][s].val # n
      OBVIOUS
    <2>1. outbox[g][s].id \in 1 .. edits
      BY DEF IInv, IdInv
    <2>2. outbox[g][s].val = 0 \/ outbox[g][s].val \in 1 .. edits
      BY DEF IInv, IdInv, Dated
    <2> QED
      BY <1>2, <2>1, <2>2
  <1>11. TxnOf(h, k)'
    <2>1. Known(r, k)'
      BY <1>2, <1>7, RowKept
    <2>2. Known(t.old, k)'
      BY <1>2, <1>4, <2>1 DEF Known, Dated, Names, Shows
    <2>3. Own(h, k, n)'
      <3>1. n \in 1 .. edits' /\ n \notin tomb'[h]
        BY <1>2 DEF IInv, TypeInv
      <3>2. \A g \in Hubs, l \in Keys :
              ~(g = h /\ l = k) => txn'[g][l].row.id # n /\ txn'[g][l].row.val # n
        BY <1>2, <1>4, <1>9
      <3> QED
        BY <1>2, <1>10, <3>1, <3>2 DEF Own
    <2>4. m # NoRow => t.row = t.old \/ Own(h, k, t.row.val)'
      BY <1>3, <1>4, <2>3
    <2>5. ReadInv(h, k, t)'
      BY <1>2, <1>3, <1>4, <2>2, <2>4 DEF ReadInv
    <2> QED
      BY <1>2, <1>3, <1>4, <2>5 DEF TxnOf
  <1>12. TxnInv'
    <2> SUFFICES ASSUME NEW g \in Hubs, NEW l \in Keys, ~(g = h /\ l = k) PROVE TxnOf(g, l)'
      BY <1>11 DEF TxnInv
    <2>1. PICK u \in Txn : u = txn[g][l] /\ u = txn'[g][l]
      BY <1>4 DEF IInv, TypeInv
    <2>2. ASSUME Own(g, l, u.row.val) PROVE Own(g, l, u.row.val)'
      <3> DEFINE v == u.row.val
      <3>1. v \in 1 .. edits /\ v \notin tomb[g]
        BY <2>2 DEF Own
      <3>2. m.id # v /\ m.val # v
        <4>1. CASE m = NoRow
          BY <3>1, <4>1 DEF NoRow
        <4>2. CASE m # NoRow /\ m.val = n
          <5>1. r # NoRow => r.id # v
            BY <1>2, <2>2 DEF Known, Names, Own
          <5> QED
            BY <1>2, <1>3, <3>1, <4>2, <5>1
        <4>3. CASE m # NoRow /\ m = r
          BY <1>2, <2>2, <4>3 DEF Known, Names, Shows, Own
        <4> QED
          BY <1>3, <4>1, <4>2, <4>3
      <3>3. \A f \in Hubs, j \in Keys :
              ~(f = g /\ j = l) => txn'[f][j].row.id # v /\ txn'[f][j].row.val # v
        BY <1>4, <2>2, <3>2 DEF Own
      <3> QED
        BY <1>2, <1>7, <2>2, <3>1, <3>3, OwnKept
    <2>3. u.stage = "open" /\ u.row # NoRow => u.row.id \notin tomb[g]
      BY <2>1 DEF IInv, TxnInv, TxnOf, OpenInv
    <2>4. u.row # NoRow /\ NewOrSame(g, l, u) => NewOrSame(g, l, u)'
      BY <1>2, <1>7, SameKept
    <2>5. edits' \in Nat /\ clock' \in Nat /\ edits' >= edits /\ clock' >= clock
      BY <1>2
    <2> QED
      BY <1>2, <1>7, <2>1, <2>2, <2>3, <2>4, <2>5, TxnKept
  <1>13. JobInv' /\ SeenInv'
    BY <1>2, <1>7, JobKept, SeenKept
  <1>14. DeletedStaysDeleted'
    BY <1>2 DEF IInv, DeletedStaysDeleted
  <1> QED
    BY <1>5, <1>6, <1>8, <1>12, <1>13, <1>14 DEF IInv

\* An event is one whatever row its handler made.
LEMMA EventType ==
    ASSUME NEW k \in Keys, NEW old \in Row, NEW new \in Row
    PROVE  Event(k, old, new) \in OutboxEvent
  <1>1. /\ old.id \in Nat /\ new.id \in Nat /\ new.at \in Nat /\ new.val \in Nat
        /\ (new = NoRow) \in BOOLEAN
    BY DEF Row
  <1>2. ASSUME NEW i \in Nat, NEW d \in BOOLEAN, NEW a \in Nat, NEW v \in Nat
        PROVE  [key |-> k, id |-> i, deleted |-> d, at |-> a, val |-> v, st |-> "open"] \in OutboxEvent
    BY DEF OutboxEvent
  <1>3. (IF new = NoRow THEN old.id ELSE new.id) \in Nat
    BY <1>1
  <1> QED
    BY <1>1, <1>2, <1>3, Zenon DEF Event

LEMMA FlushStep ==
    ASSUME IInv, NEW h \in Hubs, NEW k \in Keys, flush(h, k) PROVE IInv'
  <1> DEFINE n == Len(outbox[h]) + 1
  <1>a. PICK t \in Txn : t = txn[h][k]
    BY DEF IInv, TypeInv
  <1>b. PICK e : e = Event(k, t.old, t.row)
    OBVIOUS
  <1>c. PICK t2 : t2 = [t EXCEPT !.stage = "open", !.seq = n]
    OBVIOUS
  <1>1. /\ UNCHANGED <<slot, tomb, job, clock, edits>> /\ crossed \subseteq crossed'
        /\ edits \in Nat /\ clock \in Nat
        /\ t.stage = "read" /\ (t.row # NoRow => Finds(h, k, t))
        /\ t.row # NoRow /\ slot[h][k] # t.old => k \in crossed'
        /\ outbox' = [outbox EXCEPT ![h] = Append(@, e)]
        /\ txn' = [txn EXCEPT ![h][k] = t2]
    BY <1>a, <1>b, <1>c DEF flush, _emit, IInv, TypeInv
  <1>2. /\ t.old \in Row /\ t.row \in Row /\ ReadInv(h, k, t)
        /\ t.row.id \in 0 .. edits /\ t.row.val \in 0 .. edits
    BY <1>a, <1>1 DEF Txn, IInv, TxnInv, TxnOf
  <1>3. /\ e.key = k /\ e.st = "open" /\ (e.deleted <=> t.row = NoRow)
        /\ e.id = (IF t.row = NoRow THEN t.old.id ELSE t.row.id)
        /\ e.at = t.row.at /\ e.val = t.row.val
    BY <1>b DEF Event
  <1>4. e \in OutboxEvent
    BY <1>b, <1>2, EventType
  <1>5. /\ e.id \in 1 .. edits
        /\ Names(e.id, k) \/ (t.row # NoRow /\ e.id = t.row.val /\ Own(h, k, t.row.val))
        /\ t.row = NoRow => e.val = 0
        /\ t.row # NoRow => /\ Dated(e)
                            /\ Own(h, k, t.row.val) \/ (t.row = t.old /\ Shows(t.old, k))
                            /\ t.row.id \notin tomb[h]
    <2>1. CASE t.row = NoRow
      <3>1. t.old.id \in 1 .. edits /\ Names(t.old.id, k)
        BY <1>2, <2>1 DEF ReadInv, Known
      <3> QED
        BY <1>3, <2>1, <3>1 DEF NoRow
    <2>2. CASE t.row # NoRow /\ t.old = NoRow
      <3>1. Own(h, k, t.row.val) /\ t.row.id = t.row.val /\ t.row.at \in 1 .. clock
        BY <1>2, <2>2 DEF ReadInv
      <3>2. t.row.val \in 1 .. edits /\ t.row.val \notin tomb[h]
        BY <3>1 DEF Own
      <3> QED
        BY <1>3, <2>2, <3>1, <3>2 DEF Dated
    <2>3. CASE t.row # NoRow /\ t.old # NoRow
      <3>1. /\ t.row.id = t.old.id /\ t.row.at \in 1 .. clock
            /\ t.row = t.old \/ Own(h, k, t.row.val)
            /\ Dated(t.old) /\ t.old.id \in 1 .. edits /\ Names(t.old.id, k) /\ Shows(t.old, k)
        BY <1>2, <2>3 DEF ReadInv, Known
      <3>2. t.row.val \in 1 .. edits
        BY <3>1 DEF Own, Dated
      <3>3. t.row.id \notin tomb[h]
        BY <1>1, <2>3, <3>1 DEF Finds, IInv, DeletedStaysDeleted
      <3> QED
        BY <1>3, <2>3, <3>1, <3>2, <3>3 DEF Dated
    <2> QED
      BY <2>1, <2>2, <2>3
  <1> HIDE DEF n
  <1>6. /\ outbox' \in [Hubs -> Seq(OutboxEvent)]
        /\ n \in Nat /\ n # 0 /\ n \notin DOMAIN outbox[h]
        /\ DOMAIN outbox'[h] = DOMAIN outbox[h] \cup {n}
        /\ outbox'[h][n] = e
        /\ \A s \in DOMAIN outbox[h] : outbox'[h][s] = outbox[h][s]
        /\ \A g \in Hubs \ {h} : outbox'[g] = outbox[g]
        /\ Grows
    BY <1>1, <1>4, Appended DEF IInv, n
  <1>7. \A g \in Hubs : \A s \in DOMAIN outbox'[g] :
          \/ g = h /\ s = n /\ outbox'[g][s] = e
          \/ s \in DOMAIN outbox[g] /\ outbox'[g][s] = outbox[g][s]
    BY <1>6
  <1>8. /\ t2 \in Txn /\ txn' \in [Hubs -> [Keys -> Txn]] /\ txn'[h][k] = t2
        /\ t2.stage = "open" /\ t2.seq = n /\ t2.row = t.row /\ t2.old = t.old
        /\ \A g \in Hubs, l \in Keys : ~(g = h /\ l = k) => txn'[g][l] = txn[g][l]
    <2>1. t2 \in Txn /\ t2.stage = "open" /\ t2.seq = n /\ t2.row = t.row /\ t2.old = t.old
      BY <1>c, <1>6 DEF Txn
    <2> QED
      BY <1>1, <2>1 DEF IInv, TypeInv
  <1>9. TypeInv'
    BY <1>1, <1>6, <1>8 DEF IInv, TypeInv
  <1>10. IdInv'
    <2>1. \A g \in Hubs : \A s \in DOMAIN outbox[g] : outbox[g][s].id = e.id => outbox[g][s].key = k
      BY <1>5 DEF IInv, IdInv, Names, Own
    <2>2. \A g \in Hubs : \A s \in DOMAIN outbox[g] :
            /\ outbox[g][s].id \in 1 .. edits'
            /\ outbox[g][s].deleted => outbox[g][s].val = 0
            /\ ~outbox[g][s].deleted => outbox[g][s].at \in 1 .. clock' /\ outbox[g][s].val \in 1 .. edits'
            /\ \A f \in Hubs : \A u \in DOMAIN outbox[f] :
                 outbox[g][s].id = outbox[f][u].id => outbox[g][s].key = outbox[f][u].key
      BY <1>1 DEF IInv, IdInv, Dated
    <2>3. /\ e.id \in 1 .. edits' /\ (e.deleted => e.val = 0)
          /\ ~e.deleted => e.at \in 1 .. clock' /\ e.val \in 1 .. edits'
      BY <1>1, <1>3, <1>5 DEF Dated
    <2> QED
      BY <1>3, <1>7, <2>1, <2>2, <2>3 DEF IdInv, Dated
  <1>11. RowInv'
    BY <1>1, <1>6, RowKept DEF RowInv
  <1>12. TxnOf(h, k)'
    <2>1. Emitted(h, k, t2)'
      BY <1>3, <1>6, <1>8 DEF Emitted
    <2>2. t2.row # NoRow => NewOrSame(h, k, t2)'
      <3>1. CASE Own(h, k, t.row.val)
        BY <1>7, <1>8, <3>1 DEF NewOrSame, Own
      <3>2. CASE t.row = t.old
        BY <1>1, <1>8, <3>2 DEF NewOrSame
      <3> QED
        BY <1>5, <1>8, <3>1, <3>2
    <2>3. t2.row # NoRow => Finds(h, k, t2)' /\ t2.row.id \notin tomb'[h]
      BY <1>1, <1>5, <1>8 DEF Finds
    <2>4. OpenInv(h, k, t2)'
      BY <2>1, <2>2, <2>3 DEF OpenInv
    <2> QED
      BY <1>1, <1>2, <1>8, <2>4 DEF TxnOf
  <1>13. TxnInv'
    <2> SUFFICES ASSUME NEW g \in Hubs, NEW l \in Keys, ~(g = h /\ l = k) PROVE TxnOf(g, l)'
      BY <1>12 DEF TxnInv
    <2>1. PICK u \in Txn : u = txn[g][l] /\ u = txn'[g][l]
      BY <1>8 DEF IInv, TypeInv
    <2> DEFINE v == u.row.val
    <2>2. ASSUME Own(g, l, v) PROVE Own(g, l, v)'
      <3>1. v \in 1 .. edits /\ t.row.id # v /\ t.row.val # v
        BY <1>a, <2>2 DEF Own
      <3>2. e.id # v /\ e.val # v
        BY <1>3, <1>5, <2>2, <3>1 DEF Own, Names
      <3>3. \A f \in Hubs, j \in Keys :
              ~(f = g /\ j = l) => txn'[f][j].row.id # v /\ txn'[f][j].row.val # v
        BY <1>8, <2>2, <3>1 DEF Own
      <3>4. \A f \in Hubs : \A s \in DOMAIN outbox'[f] : outbox'[f][s].id # v /\ outbox'[f][s].val # v
        BY <1>7, <2>2, <3>2 DEF Own
      <3> QED
        BY <1>1, <2>2, <3>3, <3>4 DEF Own
    <2>3. ASSUME u.stage = "open", u.row # NoRow
          PROVE  /\ u.row.id \notin tomb[g]
                 /\ NewOrSame(g, l, u) => NewOrSame(g, l, u)'
      <3>1. OpenInv(g, l, u)
        BY <2>1, <2>3 DEF IInv, TxnInv, TxnOf
      <3>2. /\ u.seq \in DOMAIN outbox[g] /\ outbox[g][u.seq].st = "open"
            /\ outbox[g][u.seq].val = v /\ v # 0
        BY <2>3, <3>1 DEF OpenInv, Emitted, IInv, IdInv, Dated
      <3>3. ASSUME \A f \in Hubs : \A s \in DOMAIN outbox[f] :
                     outbox[f][s].val = v => f = g /\ s = u.seq
            PROVE  e.val # v
        <4>1. CASE t.row = NoRow
          BY <1>5, <3>2, <4>1
        <4>2. CASE t.row # NoRow /\ Own(h, k, t.row.val)
          BY <1>3, <3>2, <4>2 DEF Own
        <4>3. CASE t.row # NoRow /\ t.row = t.old /\ Shows(t.old, k)
          BY <1>3, <3>2, <3>3, <4>3 DEF Shows
        <4> QED
          BY <1>5, <4>1, <4>2, <4>3
      <3>4. NewOrSame(g, l, u) => NewOrSame(g, l, u)'
        BY <1>1, <1>7, <3>3 DEF NewOrSame
      <3> QED
        BY <2>3, <3>1, <3>4 DEF OpenInv
    <2>4. edits' \in Nat /\ clock' \in Nat /\ edits' >= edits /\ clock' >= clock
      BY <1>1
    <2>5. u.stage = "open" => outbox'[g][u.seq].st = outbox[g][u.seq].st
      <3>1. u.stage = "open" => u.seq \in DOMAIN outbox[g]
        <4>1. u.stage = "open" => OpenInv(g, l, u)
          BY <2>1 DEF IInv, TxnInv, TxnOf
        <4> QED
          BY <4>1 DEF OpenInv, Emitted
      <3> QED
        BY <1>6, <3>1
    <2>6. ASSUME u.stage = "open", u.row # NoRow PROVE u.row.id \notin tomb'[g]
      BY <1>1, <2>3, <2>6
    <2> HIDE DEF v
    <2>7. Own(g, l, u.row.val) => Own(g, l, u.row.val)'
      BY <2>2 DEF v
    <2> QED
      BY <1>1, <1>6, <2>1, <2>3, <2>4, <2>5, <2>6, <2>7, TxnKept
  <1>14. JobInv' /\ SeenInv'
    BY <1>1, <1>6, JobKept, SeenKept
  <1>15. DeletedStaysDeleted'
    BY <1>1 DEF IInv, DeletedStaysDeleted
  <1> QED
    BY <1>9, <1>10, <1>11, <1>13, <1>14, <1>15 DEF IInv

\* The transactions after a step that adds no event, ends some of them, and
\* writes or deletes no row that one of the others has locked.
LEMMA OthersKept ==
    ASSUME IInv, SameNumbers, Grows, edits' = edits, clock' \in Nat, clock' >= clock,
           crossed \subseteq crossed', txn' \in [Hubs -> [Keys -> Txn]],
           \A g \in Hubs, l \in Keys :
             \/ txn'[g][l] = NoTxn
             \/ /\ txn'[g][l] = txn[g][l]
                /\ Locked(g, l) => slot'[g][l] = slot[g][l]
                /\ txn[g][l].stage = "open" =>
                     outbox'[g][txn[g][l].seq].st = outbox[g][txn[g][l].seq].st,
           \A g \in Hubs : \A i \in tomb'[g] : i \in tomb[g] \/
             \E l \in Keys : Names(i, l) /\ ~Locked(g, l)
    PROVE  TxnInv'
  <1> SUFFICES ASSUME NEW g \in Hubs, NEW l \in Keys PROVE TxnOf(g, l)'
    BY DEF TxnInv
  <1>1. edits \in Nat /\ clock \in Nat
    BY DEF IInv, TypeInv
  <1>2. CASE txn'[g][l] = NoTxn
    <2>1. NoTxn.row = NoRow /\ NoTxn.stage = "none" /\ NoRow.id = 0 /\ NoRow.val = 0
      BY DEF NoTxn, NoRow
    <2> QED
      BY <1>1, <1>2, <2>1 DEF TxnOf
  <1>3. CASE txn'[g][l] = txn[g][l]
             /\ (Locked(g, l) => slot'[g][l] = slot[g][l])
             /\ (txn[g][l].stage = "open" =>
                   outbox'[g][txn[g][l].seq].st = outbox[g][txn[g][l].seq].st)
    <2>1. PICK u \in Txn : u = txn[g][l] /\ u = txn'[g][l]
      BY <1>3 DEF IInv, TypeInv
    <2>a. PICK v : v = u.row.val
      OBVIOUS
    <2>2. ASSUME Own(g, l, v) PROVE Own(g, l, v)'
      <3>1. v \notin tomb'[g]
        BY <2>2 DEF Own, Names
      <3>2. ASSUME NEW f \in Hubs, NEW j \in Keys, ~(f = g /\ j = l)
            PROVE  txn'[f][j].row.id # v /\ txn'[f][j].row.val # v
        <4>1. v # 0 /\ txn[f][j].row.id # v /\ txn[f][j].row.val # v
          BY <1>1, <2>2, <3>2 DEF Own
        <4>2. NoTxn.row.id = 0 /\ NoTxn.row.val = 0
          BY DEF NoTxn, NoRow
        <4>3. txn'[f][j] = NoTxn \/ txn'[f][j] = txn[f][j]
          OBVIOUS
        <4> QED
          BY <4>1, <4>2, <4>3
      <3> QED
        BY <1>1, <2>2, <3>1, <3>2, OwnKept
    <2>3. ASSUME u.stage = "open", u.row # NoRow
          PROVE  /\ slot'[g][l] = slot[g][l] /\ u.row.id \notin tomb'[g]
                 /\ NewOrSame(g, l, u) => NewOrSame(g, l, u)'
      <3>1. OpenInv(g, l, u)
        BY <2>1, <2>3 DEF IInv, TxnInv, TxnOf
      <3>2. Locked(g, l) /\ slot'[g][l] = slot[g][l]
        BY <1>3, <2>1, <2>3, <3>1 DEF OpenInv, Locked
      <3>3. u.row.id \notin tomb[g] /\ Names(u.row.id, l)
        BY <2>3, <3>1 DEF OpenInv, Emitted, Names
      <3>4. \A j \in Keys : Names(u.row.id, j) => j = l
        BY <3>3 DEF IInv, IdInv, Names
      <3>5. u.row.id \notin tomb'[g]
        BY <3>2, <3>3, <3>4
      <3>6. NewOrSame(g, l, u) => NewOrSame(g, l, u)'
        BY <2>3, <3>2, SameKept
      <3> QED
        BY <3>2, <3>5, <3>6
    <2>4. edits' \in Nat /\ edits' >= edits
      BY <1>1
    <2> QED
      BY <1>3, <2>1, <2>a, <2>2, <2>3, <2>4, TxnKept
  <1> QED
    BY <1>2, <1>3

\* The end of a flushed transaction, which closes its event.
LEMMA ClosedIds ==
    ASSUME IInv, NEW h, NEW s, NEW st, ClosedAs(h, s, st), UNCHANGED <<clock, edits>>
    PROVE  IdInv' /\ SameNumbers
  <1>1. \A g \in Hubs : \A u \in DOMAIN outbox'[g] :
          /\ u \in DOMAIN outbox[g]
          /\ outbox'[g][u].key = outbox[g][u].key /\ outbox'[g][u].id = outbox[g][u].id
          /\ (outbox'[g][u].deleted <=> outbox[g][u].deleted)
          /\ outbox'[g][u].at = outbox[g][u].at /\ outbox'[g][u].val = outbox[g][u].val
    BY DEF ClosedAs, Grows
  <1>2. \A g \in Hubs : \A u \in DOMAIN outbox[g] :
          /\ outbox[g][u].id \in 1 .. edits
          /\ outbox[g][u].deleted => outbox[g][u].val = 0
          /\ ~outbox[g][u].deleted => outbox[g][u].at \in 1 .. clock /\ outbox[g][u].val \in 1 .. edits
          /\ \A f \in Hubs : \A v \in DOMAIN outbox[f] :
               outbox[g][u].id = outbox[f][v].id => outbox[g][u].key = outbox[f][v].key
    BY DEF IInv, IdInv, Dated
  <1>3. ASSUME NEW g \in Hubs, NEW u \in DOMAIN outbox'[g]
        PROVE  /\ outbox'[g][u].id \in 1 .. edits'
               /\ outbox'[g][u].deleted => outbox'[g][u].val = 0
               /\ ~outbox'[g][u].deleted => Dated(outbox[g][u])'
               /\ \A f \in Hubs : \A v \in DOMAIN outbox'[f] :
                    outbox'[g][u].id = outbox'[f][v].id => outbox'[g][u].key = outbox'[f][v].key
    <2>1. \A f \in Hubs : \A v \in DOMAIN outbox'[f] :
            outbox'[g][u].id = outbox'[f][v].id => outbox'[g][u].key = outbox'[f][v].key
      BY <1>1, <1>2
    <2>2. /\ outbox'[g][u].id = outbox[g][u].id
          /\ (outbox'[g][u].deleted <=> outbox[g][u].deleted)
          /\ outbox'[g][u].at = outbox[g][u].at /\ outbox'[g][u].val = outbox[g][u].val
          /\ outbox[g][u].id \in 1 .. edits
          /\ outbox[g][u].deleted => outbox[g][u].val = 0
          /\ ~outbox[g][u].deleted => outbox[g][u].at \in 1 .. clock /\ outbox[g][u].val \in 1 .. edits
      BY <1>1, <1>2
    <2> QED
      BY <2>1, <2>2 DEF Dated
  <1> QED
    BY <1>1, <1>3 DEF IdInv, SameNumbers

\* The transaction on the row of key k at hub h ends: it closes its event, and
\* leaves the row alone or writes it.
LEMMA CloseStep ==
    ASSUME IInv, NEW h \in Hubs, NEW k \in Keys, NEW t \in Txn, t = txn[h][k],
           t.stage = "open", NEW st \in {"visible", "void"}, ClosedAs(h, t.seq, st),
           txn' \in [Hubs -> [Keys -> Txn]], slot' \in [Hubs -> [Keys -> Row]],
           txn'[h][k] = NoTxn,
           slot'[h][k] = slot[h][k] \/ slot'[h][k] = NoRow \/ (st = "visible" /\ slot'[h][k] = t.row),
           \A g \in Hubs, l \in Keys :
             ~(g = h /\ l = k) => txn'[g][l] = txn[g][l] /\ slot'[g][l] = slot[g][l],
           UNCHANGED <<tomb, job, crossed, clock, edits>>
    PROVE  IInv'
  <1> DEFINE s == t.seq
             e == outbox[h][s]
  <1>1. /\ OpenInv(h, k, t) /\ t.row \in Row
        /\ s \in DOMAIN outbox[h] /\ e.st = "open" /\ e.key = k
    <2>1. OpenInv(h, k, t)
      BY DEF IInv, TxnInv, TxnOf
    <2> QED
      BY <2>1 DEF OpenInv, Emitted, Txn
  <1>2. /\ \A g \in Hubs : DOMAIN outbox'[g] = DOMAIN outbox[g]
        /\ \A g \in Hubs : \A u \in DOMAIN outbox[g] :
             outbox'[g][u].st = IF g = h /\ u = s THEN st ELSE outbox[g][u].st
        /\ Grows
    BY DEF ClosedAs
  <1>3. TypeInv'
    BY DEF IInv, TypeInv, ClosedAs
  <1>4. IdInv' /\ SameNumbers
    BY ClosedIds
  <1>5. edits' \in Nat /\ clock' \in Nat /\ edits' >= edits /\ clock' >= clock
    BY DEF IInv, TypeInv
  <1>6. RowInv'
    <2> SUFFICES ASSUME NEW g \in Hubs, NEW l \in Keys PROVE Known(slot[g][l], l)'
      BY DEF RowInv
    <2>1. CASE slot'[g][l] = slot[g][l]
      BY <1>2, <1>5, <2>1, RowKept
    <2>2. CASE slot'[g][l] = NoRow
      BY <2>2 DEF Known
    <2>3. CASE g = h /\ l = k /\ st = "visible" /\ t.row # NoRow /\ slot'[h][k] = t.row
      <3>1. /\ ~e.deleted /\ e.id = t.row.id /\ e.at = t.row.at /\ e.val = t.row.val
            /\ e.id \in 1 .. edits /\ e.at \in 1 .. clock /\ e.val \in 1 .. edits
        BY <1>1, <2>3 DEF OpenInv, Emitted, IInv, IdInv, Dated
      <3>2. /\ s \in DOMAIN outbox'[h] /\ outbox'[h][s].st = "visible"
            /\ outbox'[h][s].key = k /\ ~outbox'[h][s].deleted
            /\ outbox'[h][s].id = t.row.id
            /\ outbox'[h][s].at = t.row.at /\ outbox'[h][s].val = t.row.val
        BY <1>1, <1>2, <2>3, <3>1 DEF Grows
      <3>3. Dated(slot[g][l])' /\ slot'[g][l].id \in 1 .. edits'
        BY <2>3, <3>1 DEF Dated
      <3>4. Names(slot[g][l].id, l)' /\ Shows(slot[g][l], l)'
        BY <2>3, <3>2 DEF Names, Shows
      <3> QED
        BY <3>3, <3>4 DEF Known
    <2> QED
      BY <2>1, <2>2, <2>3
  <1>7. TxnInv'
    <2>1. ASSUME NEW g \in Hubs, NEW l \in Keys, ~(g = h /\ l = k), txn[g][l].stage = "open"
          PROVE  outbox'[g][txn[g][l].seq].st = outbox[g][txn[g][l].seq].st
      <3>1. Emitted(g, l, txn[g][l])
        BY <2>1 DEF IInv, TxnInv, TxnOf, OpenInv
      <3> QED
        BY <1>1, <1>2, <2>1, <3>1 DEF Emitted
    <2>2. \A g \in Hubs, l \in Keys :
             \/ txn'[g][l] = NoTxn
             \/ /\ txn'[g][l] = txn[g][l]
                /\ Locked(g, l) => slot'[g][l] = slot[g][l]
                /\ txn[g][l].stage = "open" =>
                     outbox'[g][txn[g][l].seq].st = outbox[g][txn[g][l].seq].st
      BY <2>1
    <2> QED
      BY <1>2, <1>4, <1>5, <2>2, OthersKept
  <1>8. JobInv' /\ SeenInv'
    BY <1>2, JobKept, SeenKept
  <1>9. DeletedStaysDeleted'
    <2> SUFFICES ASSUME NEW g \in Hubs, NEW l \in Keys PROVE slot'[g][l].id \notin tomb[g]
      BY DEF DeletedStaysDeleted
    <2>1. slot[g][l].id \notin tomb[g] /\ NoRow.id \notin tomb[g]
      BY DEF IInv, DeletedStaysDeleted, NoRow, TypeInv
    <2>2. t.row # NoRow => t.row.id \notin tomb[h]
      BY <1>1 DEF OpenInv
    <2> QED
      BY <2>1, <2>2
  <1> QED
    BY <1>3, <1>4, <1>6, <1>7, <1>8, <1>9 DEF IInv

LEMMA CommitStep ==
    ASSUME IInv, NEW h \in Hubs, NEW k \in Keys, commit(h, k) PROVE IInv'
  <1>a. PICK t \in Txn : t = txn[h][k]
    BY DEF IInv, TypeInv
  <1>1. /\ t.stage = "open" /\ UNCHANGED <<tomb, job, crossed, clock, edits>>
        /\ outbox' = [outbox EXCEPT ![h][t.seq].st = "visible"]
        /\ slot' = IF Finds(h, k, t) THEN [slot EXCEPT ![h][k] = t.row] ELSE slot
        /\ txn' = [txn EXCEPT ![h][k] = NoTxn]
    BY <1>a DEF commit
  <1>2. Emitted(h, k, t)
    BY <1>a, <1>1 DEF IInv, TxnInv, TxnOf, OpenInv
  <1>3. ClosedAs(h, t.seq, "visible")
    BY <1>1, <1>2, Closed DEF IInv, Emitted
  <1>4. NoTxn \in Txn /\ t.row \in Row
    BY DEF Txn, NoTxn, NoRow, Row
  <1>5. /\ txn' \in [Hubs -> [Keys -> Txn]] /\ slot' \in [Hubs -> [Keys -> Row]]
        /\ txn'[h][k] = NoTxn /\ slot'[h][k] \in {slot[h][k], t.row}
        /\ \A g \in Hubs, l \in Keys :
             ~(g = h /\ l = k) => txn'[g][l] = txn[g][l] /\ slot'[g][l] = slot[g][l]
    BY <1>1, <1>4 DEF IInv, TypeInv
  <1> QED
    BY <1>a, <1>1, <1>3, <1>5, CloseStep

LEMMA RollbackStep ==
    ASSUME IInv, NEW h \in Hubs, NEW k \in Keys, rollback(h, k) PROVE IInv'
  <1>a. PICK t \in Txn : t = txn[h][k]
    BY DEF IInv, TypeInv
  <1>1. /\ t.stage = "open" /\ UNCHANGED <<slot, tomb, job, crossed, clock, edits>>
        /\ outbox' = [outbox EXCEPT ![h][t.seq].st = "void"]
        /\ txn' = [txn EXCEPT ![h][k] = NoTxn]
    BY <1>a DEF rollback
  <1>2. Emitted(h, k, t)
    BY <1>a, <1>1 DEF IInv, TxnInv, TxnOf, OpenInv
  <1>3. ClosedAs(h, t.seq, "void")
    BY <1>1, <1>2, Closed DEF IInv, Emitted
  <1>4. NoTxn \in Txn
    BY DEF Txn, NoTxn, NoRow, Row
  <1>5. /\ txn' \in [Hubs -> [Keys -> Txn]] /\ slot' \in [Hubs -> [Keys -> Row]]
        /\ txn'[h][k] = NoTxn
        /\ \A g \in Hubs, l \in Keys : ~(g = h /\ l = k) => txn'[g][l] = txn[g][l]
    BY <1>1, <1>4 DEF IInv, TypeInv
  <1> QED
    BY <1>a, <1>1, <1>3, <1>5, CloseStep

\* A step that leaves rows, events and tombstones alone, and at most ends a
\* transaction.
LEMMA QuietStep ==
    ASSUME IInv, UNCHANGED <<slot, outbox, tomb, crossed, edits>>,
           txn' \in [Hubs -> [Keys -> Txn]],
           \A g \in Hubs, l \in Keys : txn'[g][l] = NoTxn \/ txn'[g][l] = txn[g][l],
           clock' \in 1 .. MaxClock, clock' >= clock, JobInv', SeenInv'
    PROVE  IInv'
  <1>1. edits \in Nat /\ clock \in Nat /\ clock' \in Nat
    BY DEF IInv, TypeInv
  <1>2. Grows /\ SameNumbers
    BY DEF Grows, SameNumbers
  <1>3. TypeInv' /\ IdInv' /\ DeletedStaysDeleted'
    BY <1>1 DEF IInv, TypeInv, IdInv, DeletedStaysDeleted, Dated
  <1>4. RowInv'
    BY <1>1, <1>2, RowKept DEF RowInv
  <1>5. TxnInv'
    BY <1>1, <1>2, OthersKept
  <1> QED
    BY <1>3, <1>4, <1>5 DEF IInv

LEMMA FlushRaisesStep ==
    ASSUME IInv, NEW h \in Hubs, NEW k \in Keys, flush_raises(h, k) PROVE IInv'
  <1>1. /\ UNCHANGED <<slot, outbox, tomb, job, crossed, clock, edits>>
        /\ txn' = [txn EXCEPT ![h][k] = NoTxn]
    BY DEF flush_raises
  <1>2. NoTxn \in Txn
    BY DEF Txn, NoTxn, NoRow, Row
  <1>3. /\ txn' \in [Hubs -> [Keys -> Txn]]
        /\ \A g \in Hubs, l \in Keys : txn'[g][l] = NoTxn \/ txn'[g][l] = txn[g][l]
    BY <1>1, <1>2 DEF IInv, TypeInv
  <1>4. JobInv' /\ SeenInv'
    BY <1>1, JobKept, SeenKept DEF Grows
  <1> QED
    BY <1>1, <1>3, <1>4, QuietStep DEF IInv, TypeInv

\* An id names one key.
LEMMA NamesKey ==
    ASSUME IdInv, NEW i, NEW k \in Keys, NEW l \in Keys, Names(i, k), Names(i, l) PROVE k = l
  BY DEF IdInv, Names

\* A replicator's step leaves the jobs of the other hubs alone.
LEMMA SeenOthers ==
    ASSUME IInv, NEW h \in Hubs, Seen(h)' \/ job'[h] = Idle, outbox' = outbox,
           \A g \in Hubs \ {h} : job'[g] = job[g] /\ tomb'[g] = tomb[g]
    PROVE  SeenInv'
  <1> SUFFICES ASSUME NEW g \in Hubs \ {h}, job'[g] # Idle PROVE Seen(g)'
    BY DEF SeenInv
  <1>1. Seen(g) /\ job'[g] = job[g] /\ tomb'[g] = tomb[g]
    BY DEF IInv, SeenInv
  <1>2. Current(g)' = Current(g)
    BY <1>1 DEF Current
  <1> QED
    BY <1>1, <1>2 DEF Seen

LEMMA FetchStep ==
    ASSUME IInv, NEW h \in Hubs, NEW p \in Hubs, fetch(h, p) PROVE IInv'
  <1> DEFINE batch == fetch_outbox_events_since(p, cursor[h][p])
             last == Max(batch)
             open == {s \in cursor[h][p] + 1 .. last : outbox[p][s].st = "open"}
             new == [busy |-> TRUE, peer |-> p, batch |-> batch, last |-> last,
                     seen |-> {}, open |-> open]
  <1>1. /\ job' = [job EXCEPT ![h] = new]
        /\ UNCHANGED <<slot, outbox, tomb, txn, crossed, edits, clock>>
    BY DEF fetch
  <1>2. \A s \in batch : s \in DOMAIN outbox[p] /\ outbox[p][s].st = "visible"
    BY DEF fetch_outbox_events_since, Visible
  <1> HIDE DEF batch, last, open
  <1>3. /\ job' = [g \in Hubs |-> job'[g]] /\ job'[h] = new
        /\ \A g \in Hubs \ {h} : job'[g] = job[g]
    BY <1>1 DEF IInv, JobInv
  <1>4. new = Job(new) /\ new.peer = p /\ new.batch = batch /\ new.seen = {}
    BY DEF Job
  <1> HIDE DEF new
  <1>5. JobInv'
    <2>3. job'[h] = Job(job[h])' /\ job'[h].peer \in Hubs
          /\ \A s \in job'[h].batch : s \in DOMAIN outbox'[job'[h].peer]
                                     /\ outbox'[job'[h].peer][s].st = "visible"
      BY <1>1, <1>2, <1>3, <1>4 DEF Job
    <2>4. \A g \in Hubs \ {h} : Job(job[g])' = Job(job[g])
      BY <1>3 DEF Job
    <2> QED
      BY <1>1, <1>3, <2>3, <2>4 DEF IInv, JobInv
  <1>6. SeenInv'
    BY <1>1, <1>3, <1>4, SeenOthers DEF Seen
  <1> QED
    BY <1>1, <1>5, <1>6, QuietStep DEF IInv, TypeInv

\* The event to be applied next is a committed one of the peer's.
LEMMA CurrentEvent ==
    ASSUME IInv, NEW h \in Hubs, Applying(h)
    PROVE  /\ job[h] = Job(job[h]) /\ job[h].peer \in Hubs
           /\ Current(h) \in OutboxEvent /\ Current(h).key \in Keys
           /\ Current(h).id \in 1 .. edits
           /\ ~Current(h).deleted => Dated(Current(h)) /\ Shows(Current(h), Current(h).key)
           /\ Names(Current(h).id, Current(h).key)
           /\ \A k \in Keys : Names(Current(h).id, k) => k = Current(h).key
  <1> DEFINE p == job[h].peer
             s == Min(job[h].batch)
  <1>1. job[h] # Idle
    BY DEF Applying, Idle
  <1>2. /\ job[h] = Job(job[h]) /\ p \in Hubs
        /\ \A u \in job[h].batch : u \in DOMAIN outbox[p] /\ outbox[p][u].st = "visible"
    BY <1>1 DEF IInv, JobInv
  <1>3. outbox[p] \in Seq(OutboxEvent)
    BY <1>2 DEF IInv, TypeInv
  <1>4. job[h].batch \in SUBSET Nat /\ job[h].batch # {}
    BY <1>2, <1>3 DEF Applying
  <1>5. s \in job[h].batch
    BY <1>4, MinOfNaturals
  <1>6. s \in DOMAIN outbox[p] /\ outbox[p][s].st = "visible" /\ Current(h) = outbox[p][s]
    BY <1>2, <1>5 DEF Current
  <1>7. Current(h) \in OutboxEvent /\ Current(h).key \in Keys
    <2>1. outbox[p][s] \in OutboxEvent
      BY <1>3, <1>6
    <2> QED
      BY <1>6, <2>1 DEF OutboxEvent
  <1>8. Current(h).id \in 1 .. edits /\ (~Current(h).deleted => Dated(Current(h)))
    BY <1>2, <1>6 DEF IInv, IdInv
  <1> HIDE DEF p, s
  <1>9. Names(Current(h).id, Current(h).key)
        /\ (~Current(h).deleted => Shows(Current(h), Current(h).key))
    BY <1>2, <1>6 DEF Names, Shows, p
  <1>10. \A k \in Keys : Names(Current(h).id, k) => k = Current(h).key
    BY <1>2, <1>6 DEF Names, IInv, IdInv, p
  <1> QED
    BY <1>2, <1>7, <1>8, <1>9, <1>10 DEF p

\* The batch becomes b and the row read is in c.
JobBecomes(h, b, c) == job' = [job EXCEPT ![h].batch = b, ![h].seen = c]

LEMMA JobChanges ==
    ASSUME IInv, NEW h \in Hubs, job[h] # Idle, NEW b, b \subseteq job[h].batch, NEW c,
           outbox' = outbox, JobBecomes(h, b, c)
    PROVE  /\ JobInv' /\ job'[h].peer = job[h].peer /\ job'[h].batch = b /\ job'[h].seen = c
           /\ \A g \in Hubs \ {h} : job'[g] = job[g]
  <1>1. /\ job[h] = Job(job[h]) /\ job[h].peer \in Hubs /\ job[h] # Idle
    BY DEF IInv, JobInv
  <1>2. /\ job' = [g \in Hubs |-> job'[g]] /\ \A g \in Hubs \ {h} : job'[g] = job[g]
        /\ job'[h] = [job[h] EXCEPT !.batch = b, !.seen = c]
    BY DEF IInv, JobInv, JobBecomes
  <1>a. PICK y, p, x, l, z, o : /\ y = job[h].busy /\ p = job[h].peer /\ x = job[h].batch
                                /\ l = job[h].last /\ z = job[h].seen /\ o = job[h].open
    OBVIOUS
  <1>3. job'[h] = [busy |-> y, peer |-> p, batch |-> b, last |-> l, seen |-> c, open |-> o]
    <2>1. job[h] = [busy |-> y, peer |-> p, batch |-> x, last |-> l, seen |-> z, open |-> o]
      BY <1>a, <1>1 DEF Job
    <2>2. [job[h] EXCEPT !.batch = b]
            = [busy |-> y, peer |-> p, batch |-> b, last |-> l, seen |-> z, open |-> o]
      BY <2>1
    <2>3. [[busy |-> y, peer |-> p, batch |-> b, last |-> l, seen |-> z, open |-> o]
             EXCEPT !.seen = c]
            = [busy |-> y, peer |-> p, batch |-> b, last |-> l, seen |-> c, open |-> o]
      OBVIOUS
    <2>4. [job[h] EXCEPT !.batch = b, !.seen = c] = [[job[h] EXCEPT !.batch = b] EXCEPT !.seen = c]
      OBVIOUS
    <2> QED
      BY <1>2, <2>2, <2>3, <2>4
  <1>4. /\ job'[h].peer = job[h].peer /\ job'[h].batch = b /\ job'[h].seen = c
        /\ job'[h] = Job(job[h])'
    <2>1. PICK r : r = job'[h]
      OBVIOUS
    <2>2. r = [busy |-> y, peer |-> p, batch |-> b, last |-> l, seen |-> c, open |-> o]
      BY <1>3, <2>1
    <2>3. r.peer = p /\ r.batch = b /\ r.seen = c /\ r.busy = y /\ r.last = l /\ r.open = o
      BY <2>2
    <2>4. r = Job(r)
      BY <2>2, <2>3 DEF Job
    <2> QED
      BY <1>a, <2>1, <2>3, <2>4 DEF Job
  <1>5. \A g \in Hubs \ {h} : Job(job[g])' = Job(job[g])
    BY <1>2 DEF Job
  <1>6. \A s \in job'[h].batch : s \in DOMAIN outbox'[job'[h].peer]
                                 /\ outbox'[job'[h].peer][s].st = "visible"
    BY <1>1, <1>4 DEF IInv, JobInv
  <1>7. \A g \in Hubs \ {h} : job'[g] = Idle \/
          /\ job'[g] = Job(job[g])' /\ job'[g].peer \in Hubs
          /\ \A s \in job'[g].batch : s \in DOMAIN outbox'[job'[g].peer]
                                      /\ outbox'[job'[g].peer][s].st = "visible"
    BY <1>2, <1>5 DEF IInv, JobInv
  <1>8. JobInv'
    <2>1. job'[h].peer \in Hubs /\ job'[h] = Job(job[h])'
      BY <1>1, <1>4
    <2>2. \A g \in Hubs : job'[g] = Idle \/
            /\ job'[g] = Job(job[g])' /\ job'[g].peer \in Hubs
            /\ \A s \in job'[g].batch : s \in DOMAIN outbox'[job'[g].peer]
                                        /\ outbox'[job'[g].peer][s].st = "visible"
      BY <1>6, <1>7, <2>1, Zenon
    <2> QED
      BY <1>2, <2>2, Zenon DEF JobInv
  <1> QED
    BY <1>2, <1>4, <1>8

LEMMA JobProceeds ==
    ASSUME IInv, NEW h \in Hubs, Applying(h), Proceed(h), outbox' = outbox,
           \A g \in Hubs \ {h} : tomb'[g] = tomb[g]
    PROVE  JobInv' /\ SeenInv'
  <1>a. PICK rest : rest = job[h].batch \ {Min(job[h].batch)}
    OBVIOUS
  <1>1. /\ JobBecomes(h, rest, {})
        /\ job[h] # Idle /\ rest \subseteq job[h].batch
    BY <1>a DEF Proceed, Applying, Idle, JobBecomes
  <1>2. /\ JobInv' /\ job'[h].seen = {}
        /\ \A g \in Hubs \ {h} : job'[g] = job[g]
    BY <1>1, JobChanges
  <1>3. Seen(h)'
    BY <1>2 DEF Seen
  <1> QED
    BY <1>2, <1>3, SeenOthers

LEMMA JobEnds ==
    ASSUME IInv, NEW h \in Hubs, job' = [job EXCEPT ![h] = Idle], outbox' = outbox, tomb' = tomb
    PROVE  JobInv' /\ SeenInv'
  <1>1. /\ job' = [g \in Hubs |-> job'[g]] /\ \A g \in Hubs \ {h} : job'[g] = job[g]
        /\ job'[h] = Idle
    BY DEF IInv, JobInv
  <1>2. \A g \in Hubs \ {h} : Job(job[g])' = Job(job[g])
    BY <1>1 DEF Job
  <1>3. JobInv'
    BY <1>1, <1>2 DEF IInv, JobInv
  <1> QED
    BY <1>1, <1>3, SeenOthers

\* The applier takes the event in: what it makes of a row.
LEMMA UpsertedIs ==
    ASSUME NEW r \in Row, NEW e \in OutboxEvent
    PROVE  /\ Upserted(r, e) \in Row
           /\ Upserted(r, e).at = e.at /\ Upserted(r, e).val = e.val
           /\ Upserted(r, e).id = IF r = NoRow THEN e.id ELSE r.id
  <1>1. /\ e.id \in Nat /\ e.at \in Nat /\ e.val \in Nat /\ r.id \in Nat
    BY DEF OutboxEvent, Row
  <1>2. [r EXCEPT !.at = e.at, !.val = e.val] = [id |-> r.id, at |-> e.at, val |-> e.val]
    BY SetVersion
  <1>3. ASSUME NEW i \in Nat, NEW a \in Nat, NEW v \in Nat
        PROVE  [id |-> i, at |-> a, val |-> v] \in Row
    BY DEF Row
  <1> QED
    BY <1>1, <1>2, <1>3 DEF Upserted

\* The applier writes, deletes or inserts the row of key k at hub h.
LEMMA ApplyStep ==
    ASSUME IInv, NEW h \in Hubs, NEW k \in Keys, ~Locked(h, k),
           UNCHANGED <<outbox, txn, clock, edits>>, crossed \subseteq crossed',
           JobInv', SeenInv',
           slot' \in [Hubs -> [Keys -> Row]],
           \A g \in Hubs, l \in Keys : ~(g = h /\ l = k) => slot'[g][l] = slot[g][l],
           Known(slot'[h][k], k),
           tomb' \in [Hubs -> SUBSET (1 .. edits)],
           \A g \in Hubs \ {h} : tomb'[g] = tomb[g],
           \A i \in tomb'[h] : i \in tomb[h] \/ Names(i, k),
           slot'[h][k].id \notin tomb'[h]
    PROVE  IInv'
  <1>1. edits \in Nat /\ clock \in Nat /\ Grows /\ SameNumbers
    BY DEF IInv, TypeInv, Grows, SameNumbers
  <1>2. TypeInv' /\ IdInv'
    BY DEF IInv, TypeInv, IdInv, Dated
  <1>3. RowInv'
    <2> SUFFICES ASSUME NEW g \in Hubs, NEW l \in Keys PROVE Known(slot[g][l], l)'
      BY DEF RowInv
    <2>1. CASE g = h /\ l = k
      BY <2>1 DEF Known, Dated, Names, Shows
    <2>2. CASE ~(g = h /\ l = k)
      BY <1>1, <2>2, RowKept
    <2> QED
      BY <2>1, <2>2
  <1>4. TxnInv'
    <2>1. \A g \in Hubs : \A i \in tomb'[g] : i \in tomb[g] \/
             \E l \in Keys : Names(i, l) /\ ~Locked(g, l)
      OBVIOUS
    <2>2. txn' \in [Hubs -> [Keys -> Txn]]
      BY DEF IInv, TypeInv
    <2> QED
      BY <1>1, <2>1, <2>2, OthersKept
  <1>5. DeletedStaysDeleted'
    <2> SUFFICES ASSUME NEW g \in Hubs, NEW l \in Keys, ~(g = h /\ l = k)
                 PROVE  slot'[g][l].id \notin tomb'[g]
      BY DEF DeletedStaysDeleted
    <2>1. slot'[g][l] = slot[g][l] /\ slot[g][l].id \notin tomb[g] /\ 0 \notin tomb'[g]
      BY DEF IInv, DeletedStaysDeleted
    <2>2. slot[g][l] # NoRow => Names(slot[g][l].id, l)
      BY DEF IInv, RowInv, Known
    <2>3. ASSUME NEW i, Names(i, l), Names(i, k) PROVE l = k
      BY <2>3, NamesKey DEF IInv
    <2> QED
      BY <2>1, <2>2, <2>3 DEF NoRow
  <1> QED
    BY <1>2, <1>3, <1>4, <1>5 DEF IInv

\* The applier reads the row and finds the event newer.
LEMMA ApplyReadsStep ==
    ASSUME IInv, NEW h \in Hubs, apply_reads(h) PROVE IInv'
  <1>a. PICK r : r = slot[h][Current(h).key]
    OBVIOUS
  <1>b. PICK b : b = job[h].batch
    OBVIOUS
  <1>1. /\ job' = [job EXCEPT ![h].seen = {r}] /\ Applying(h) /\ Takes(h, Current(h))
        /\ UNCHANGED <<slot, outbox, tomb, txn, crossed, clock, edits>>
    BY <1>a DEF apply_reads
  <1>2. /\ job[h] = Job(job[h]) /\ job[h] # Idle /\ b # {}
    BY <1>b, <1>1, CurrentEvent DEF Applying, Idle
  <1>3. JobBecomes(h, b, {r})
    <2>1. [job[h] EXCEPT !.batch = b] = job[h]
      BY <1>b, <1>2 DEF Job
    <2>2. [job EXCEPT ![h].batch = b] = job
      BY <2>1 DEF IInv, JobInv
    <2>3. [job EXCEPT ![h].batch = b, ![h].seen = {r}]
            = [[job EXCEPT ![h].batch = b] EXCEPT ![h].seen = {r}]
      OBVIOUS
    <2> QED
      BY <1>1, <2>2, <2>3 DEF JobBecomes
  <1>4. /\ JobInv' /\ job'[h].peer = job[h].peer /\ job'[h].batch = b /\ job'[h].seen = {r}
        /\ \A g \in Hubs \ {h} : job'[g] = job[g]
    BY <1>b, <1>1, <1>2, <1>3, JobChanges
  <1>5. Current(h)' = Current(h)
    BY <1>b, <1>1, <1>4 DEF Current
  <1>6. Seen(h)'
    BY <1>a, <1>1, <1>2, <1>4, <1>5 DEF Seen, Takes, Applicable, is_tombstoned, LWWApplies
  <1>7. SeenInv'
    BY <1>1, <1>4, <1>6, SeenOthers
  <1> QED
    BY <1>1, <1>4, <1>7, QuietStep DEF IInv, TypeInv

LEMMA ApplySkipsStep ==
    ASSUME IInv, NEW h \in Hubs, apply_skips(h) PROVE IInv'
  <1>1. /\ UNCHANGED <<slot, outbox, tomb, txn, crossed, clock, edits>>
        /\ Applying(h) /\ Proceed(h)
    BY DEF apply_skips
  <1>2. JobInv' /\ SeenInv'
    BY <1>1, JobProceeds
  <1> QED
    BY <1>1, <1>2, QuietStep DEF IInv, TypeInv

LEMMA ApplyDeletionStep ==
    ASSUME IInv, NEW h \in Hubs, apply_deletion(h) PROVE IInv'
  <1>a. PICK e \in OutboxEvent : e = Current(h) /\ e.key \in Keys
    BY CurrentEvent DEF apply_deletion
  <1>b. PICK k \in Keys : k = e.key
    BY <1>a
  <1>1. /\ UNCHANGED <<outbox, txn, crossed, clock, edits>>
        /\ Applying(h) /\ Proceed(h) /\ ~Locked(h, k)
        /\ tomb' = [tomb EXCEPT ![h] = @ \cup {e.id}]
        /\ slot' = IF slot[h][k].id = e.id THEN [slot EXCEPT ![h][k] = NoRow] ELSE slot
    BY <1>a, <1>b DEF apply_deletion
  <1>2. e.id \in 1 .. edits /\ Names(e.id, k)
    BY <1>a, <1>b, <1>1, CurrentEvent
  <1>3. /\ tomb' \in [Hubs -> SUBSET (1 .. edits)] /\ tomb'[h] = tomb[h] \cup {e.id}
        /\ \A g \in Hubs \ {h} : tomb'[g] = tomb[g]
    BY <1>1, <1>2 DEF IInv, TypeInv
  <1>4. JobInv' /\ SeenInv'
    BY <1>1, <1>3, JobProceeds
  <1>5. /\ slot' \in [Hubs -> [Keys -> Row]]
        /\ slot'[h][k] = IF slot[h][k].id = e.id THEN NoRow ELSE slot[h][k]
        /\ \A g \in Hubs, l \in Keys : ~(g = h /\ l = k) => slot'[g][l] = slot[g][l]
    <2>1. NoRow \in Row
      BY DEF NoRow, Row
    <2> QED
      BY <1>1, <2>1 DEF IInv, TypeInv
  <1>6. Known(slot'[h][k], k)
    BY <1>5 DEF IInv, RowInv, Known
  <1>7. slot'[h][k].id \notin tomb'[h]
    BY <1>2, <1>3, <1>5 DEF NoRow, IInv, DeletedStaysDeleted, TypeInv
  <1>8. \A i \in tomb'[h] : i \in tomb[h] \/ Names(i, k)
    BY <1>2, <1>3
  <1> QED
    BY <1>1, <1>3, <1>4, <1>5, <1>6, <1>7, <1>8, ApplyStep

\* The applier's write: the row of the event's key, if it is still there, gets
\* the event's version.
LEMMA Writes ==
    ASSUME IInv, NEW h \in Hubs, apply_writes(h), NEW e, e = Current(h), NEW k, k = e.key
    PROVE  /\ e \in OutboxEvent /\ k \in Keys /\ ~e.deleted /\ Shows(e, k)
           /\ UNCHANGED <<outbox, txn, tomb, clock, edits>> /\ crossed \subseteq crossed'
           /\ Applying(h) /\ Proceed(h) /\ ~Locked(h, k)
           /\ slot' \in [Hubs -> [Keys -> Row]]
           /\ \A g \in Hubs, l \in Keys : ~(g = h /\ l = k) => slot'[g][l] = slot[g][l]
           /\ \/ slot'[h][k] = slot[h][k] /\ crossed' = crossed
              \/ /\ slot'[h][k] = Upserted(slot[h][k], e)
                 /\ \/ k \in crossed' /\ crossed' = crossed \cup {k}
                    \/ /\ crossed' = crossed
                       /\ slot[h][k] = NoRow \/ slot[h][k].at < e.at
           /\ e.id \notin tomb[h]
  <1> DEFINE row == slot[h][k]
             finds == \E old \in job[h].seen : old.id = row.id
  <1>1. /\ UNCHANGED <<outbox, txn, tomb, clock, edits>>
        /\ Applying(h) /\ Proceed(h) /\ ~Locked(h, k) /\ job[h].seen # {}
        /\ slot' = IF finds THEN [slot EXCEPT ![h][k] = Upserted(row, e)] ELSE slot
        /\ crossed' = IF finds /\ row \notin job[h].seen THEN crossed \cup {k} ELSE crossed
    BY DEF apply_writes
  <1>2. e \in OutboxEvent /\ k \in Keys
    BY <1>1, CurrentEvent
  <1>3. Seen(h)
    BY <1>1 DEF Applying, Idle, IInv, SeenInv
  <1>4. /\ ~e.deleted /\ e.id \notin tomb[h]
        /\ \A r \in job[h].seen : r = NoRow \/ r.at < e.at
    BY <1>1, <1>3 DEF Seen
  <1>5. Shows(e, k)
    BY <1>1, <1>4, CurrentEvent
  <1>6. row \in Row /\ Upserted(row, e) \in Row
    BY <1>2, UpsertedIs DEF IInv, TypeInv
  <1>7. CASE finds
    <2>1. /\ slot' \in [Hubs -> [Keys -> Row]] /\ slot'[h][k] = Upserted(row, e)
          /\ \A g \in Hubs, l \in Keys : ~(g = h /\ l = k) => slot'[g][l] = slot[g][l]
      BY <1>1, <1>2, <1>6, <1>7 DEF IInv, TypeInv
    <2> QED
      BY <1>1, <1>2, <1>4, <1>5, <1>7, <2>1
  <1>8. CASE ~finds
    <2>1. slot' = slot /\ crossed' = crossed
      BY <1>1, <1>8
    <2> QED
      BY <1>1, <1>2, <1>4, <1>5, <2>1 DEF IInv, TypeInv
  <1> QED
    BY <1>7, <1>8

LEMMA ApplyWritesStep ==
    ASSUME IInv, NEW h \in Hubs, apply_writes(h) PROVE IInv'
  <1>a. PICK e : e = Current(h)
    OBVIOUS
  <1>b. PICK k : k = e.key
    OBVIOUS
  <1>1. /\ e \in OutboxEvent /\ k \in Keys /\ ~e.deleted /\ Shows(e, k)
        /\ UNCHANGED <<outbox, txn, tomb, clock, edits>> /\ crossed \subseteq crossed'
        /\ Applying(h) /\ Proceed(h) /\ ~Locked(h, k)
        /\ slot' \in [Hubs -> [Keys -> Row]]
        /\ \A g \in Hubs, l \in Keys : ~(g = h /\ l = k) => slot'[g][l] = slot[g][l]
        /\ slot'[h][k] = slot[h][k] \/ slot'[h][k] = Upserted(slot[h][k], e)
        /\ e.id \notin tomb[h]
    BY <1>a, <1>b, Writes
  <1>2. JobInv' /\ SeenInv'
    BY <1>1, JobProceeds
  <1>3. PICK r \in Row : r = slot[h][k]
    BY <1>1 DEF IInv, TypeInv
  <1>4. PICK q : q = slot'[h][k]
    OBVIOUS
  <1>5. e.id \in 1 .. edits /\ Names(e.id, k) /\ Dated(e)
    BY <1>a, <1>b, <1>1, CurrentEvent
  <1>6. Known(r, k) /\ r.id \notin tomb[h]
    BY <1>1, <1>3 DEF IInv, RowInv, DeletedStaysDeleted
  <1>7. q = r \/ /\ q.at = e.at /\ q.val = e.val
                 /\ q.id = IF r = NoRow THEN e.id ELSE r.id
    BY <1>1, <1>3, <1>4, UpsertedIs
  <1>8. Known(q, k)
    <2>1. CASE q = r
      BY <1>6, <2>1
    <2>2. CASE /\ q.at = e.at /\ q.val = e.val
               /\ q.id = IF r = NoRow THEN e.id ELSE r.id
      <3>1. Dated(q) /\ Shows(q, k)
        BY <1>1, <1>5, <2>2 DEF Dated, Shows
      <3>2. q.id \in 1 .. edits /\ Names(q.id, k)
        BY <1>5, <1>6, <2>2 DEF Known
      <3> QED
        BY <3>1, <3>2 DEF Known
    <2> QED
      BY <1>7, <2>1, <2>2
  <1>9. q.id \notin tomb[h]
    BY <1>1, <1>6, <1>7
  <1>10. tomb' \in [Hubs -> SUBSET (1 .. edits)]
    BY <1>1 DEF IInv, TypeInv
  <1> QED
    BY <1>1, <1>2, <1>4, <1>8, <1>9, <1>10, ApplyStep

LEMMA ApplyEventStep ==
    ASSUME IInv, NEW h \in Hubs, apply_outbox_event(h) PROVE IInv'
  BY ApplySkipsStep, ApplyDeletionStep, ApplyReadsStep, ApplyWritesStep DEF apply_outbox_event

\* The other steps of a replicator leave the copies alone.
LEMMA ReplicatorStep ==
    ASSUME IInv, NEW h \in Hubs, apply_fails(h) \/ update_sync_cursor(h) \/ restart(h)
    PROVE  IInv'
  <1>1. UNCHANGED <<slot, outbox, tomb, txn, crossed, edits, clock>>
    BY DEF apply_fails, update_sync_cursor, restart
  <1>2. JobInv' /\ SeenInv'
    BY <1>1, JobProceeds, JobEnds DEF apply_fails, update_sync_cursor, restart
  <1> QED
    BY <1>1, <1>2, QuietStep DEF IInv, TypeInv

LEMMA StutterOrTick ==
    ASSUME IInv, Tick \/ UNCHANGED vars PROVE IInv'
  <1>1. /\ UNCHANGED <<slot, outbox, tomb, txn, crossed, edits, job>>
        /\ clock' \in 1 .. MaxClock /\ clock' >= clock
    BY DEF Tick, vars, IInv, TypeInv
  <1>2. JobInv' /\ SeenInv'
    BY <1>1, JobKept, SeenKept DEF Grows
  <1> QED
    BY <1>1, <1>2, QuietStep DEF IInv, TypeInv

LEMMA StepInv == IInv /\ [Next]_vars => IInv'
  <1> SUFFICES ASSUME IInv, [Next]_vars PROVE IInv'
    OBVIOUS
  <1>1. ASSUME NEW h \in Hubs, NEW k \in Keys,
               mutate(h, k) \/ flush(h, k) \/ flush_raises(h, k) \/ commit(h, k) \/ rollback(h, k)
        PROVE  IInv'
    BY <1>1, MutateStep, FlushStep, FlushRaisesStep, CommitStep, RollbackStep
  <1>2. ASSUME NEW h \in Hubs, NEW p \in Hubs, fetch(h, p) PROVE IInv'
    BY <1>2, FetchStep
  <1>3. ASSUME NEW h \in Hubs, apply_outbox_event(h) PROVE IInv'
    BY <1>3, ApplyEventStep
  <1>4. ASSUME NEW h \in Hubs, apply_fails(h) \/ update_sync_cursor(h) \/ restart(h) PROVE IInv'
    BY <1>4, ReplicatorStep
  <1>5. CASE Tick \/ UNCHANGED vars
    BY <1>5, StutterOrTick
  <1> QED
    BY <1>1, <1>2, <1>3, <1>4, <1>5 DEF Next

-----------------------------------------------------------------------------
(* The theorems                                                            *)

\* However edits, batches, failures and restarts interleave on any number of
\* hubs, rows, events and transactions stay related as the parts say.
THEOREM SyncInvariant == Spec => []IInv
  <1>1. Init => IInv
    BY InitInv
  <1>2. IInv /\ [Next]_vars => IInv'
    BY StepInv
  <1> QED
    BY <1>1, <1>2, PTL DEF Spec

\* A hub that has applied a deletion never has a row with that id again
\* (is_tombstoned in apply_outbox_event).
THEOREM DeletionIsFinal == Spec => []DeletedStaysDeleted
  <1>1. IInv => DeletedStaysDeleted
    BY DEF IInv
  <1> QED
    BY <1>1, SyncInvariant, PTL

-----------------------------------------------------------------------------
(* The refinement of SyncRegister                                          *)

Copies == [h \in Hubs |-> [k \in Keys |-> Copy(h, k)]]
Writtens == [k \in Keys |-> Written(k)]

\* Event s of hub g is a committed version of key k.
Puts(g, s, k) == outbox[g][s].key = k /\ outbox[g][s].st = "visible" /\ ~outbox[g][s].deleted

LEMMA WrittenIs ==
    ASSUME NEW k \in Keys, NEW v
    PROVE  v \in Written(k) <=>
             \E g \in Hubs : \E s \in DOMAIN outbox[g] : Puts(g, s, k) /\ v = Version(outbox[g][s])
  BY DEF Written, Puts

LEMMA ShownIsWritten ==
    ASSUME NEW k \in Keys, NEW r, Shows(r, k)
    PROVE  Version(r) \in Written(k)
  <1>0. PICK g \in Hubs : \E s \in DOMAIN outbox[g] :
          Puts(g, s, k) /\ outbox[g][s].at = r.at /\ outbox[g][s].val = r.val
    BY DEF Shows, Puts
  <1>1. PICK s \in DOMAIN outbox[g] :
          Puts(g, s, k) /\ outbox[g][s].at = r.at /\ outbox[g][s].val = r.val
    BY <1>0
  <1>2. Version(r) = Version(outbox[g][s])
    BY <1>1 DEF Version
  <1> QED
    BY <1>1, <1>2, WrittenIs

\* No step takes a written version back.
LEMMA WrittenGrows ==
    ASSUME Grows, NEW k \in Keys
    PROVE  Written(k) \subseteq Written(k)'
  <1> SUFFICES ASSUME NEW v \in Written(k) PROVE v \in Written(k)'
    OBVIOUS
  <1>0. PICK g \in Hubs : \E s \in DOMAIN outbox[g] : Puts(g, s, k) /\ v = Version(outbox[g][s])
    BY WrittenIs
  <1>1. PICK s \in DOMAIN outbox[g] : Puts(g, s, k) /\ v = Version(outbox[g][s])
    BY <1>0
  <1>2. s \in DOMAIN outbox'[g] /\ Puts(g, s, k)' /\ v = Version(outbox[g][s])'
    BY <1>1 DEF Grows, Puts, Version
  <1> QED
    BY <1>2 DEF Written, Puts

\* The versions of key k in which old and new outboxes may differ.
LEMMA WrittenFrom ==
    ASSUME NEW k \in Keys, NEW New,
           \A g \in Hubs : \A s \in DOMAIN outbox'[g] :
             Puts(g, s, k)' => \/ s \in DOMAIN outbox[g] /\ Puts(g, s, k)
                                  /\ Version(outbox[g][s])' = Version(outbox[g][s])
                               \/ Version(outbox[g][s])' \in New
    PROVE  Written(k)' \subseteq Written(k) \cup New
  <1> SUFFICES ASSUME NEW v \in Written(k)' PROVE v \in Written(k) \cup New
    OBVIOUS
  <1>0. PICK g \in Hubs : \E s \in DOMAIN outbox'[g] : Puts(g, s, k)' /\ v = Version(outbox[g][s])'
    BY DEF Written, Puts
  <1>1. PICK s \in DOMAIN outbox'[g] : Puts(g, s, k)' /\ v = Version(outbox[g][s])'
    BY <1>0
  <1> QED
    BY <1>1, WrittenIs

\* A step in which no row changes and no event is committed.
LEMMA RegisterStutter ==
    ASSUME IInv, slot' = slot, Grows,
           \A g \in Hubs : \A s \in DOMAIN outbox'[g] :
             outbox'[g][s].st = "visible" => s \in DOMAIN outbox[g] /\ outbox'[g][s] = outbox[g][s]
    PROVE  UNCHANGED <<Copies, Writtens>>
  <1>1. Copies' = Copies
    BY DEF Copies, Copy, Version
  <1>2. ASSUME NEW k \in Keys PROVE Written(k)' = Written(k)
    <2>1. \A g \in Hubs : \A s \in DOMAIN outbox'[g] :
             Puts(g, s, k)' => /\ s \in DOMAIN outbox[g] /\ Puts(g, s, k)
                               /\ Version(outbox[g][s])' = Version(outbox[g][s])
      BY DEF Puts, Version
    <2>2. Written(k)' \subseteq Written(k) \cup {}
      BY <2>1, WrittenFrom
    <2> QED
      BY <2>2, WrittenGrows
  <1>3. Writtens' = Writtens
    BY <1>2 DEF Writtens
  <1> QED
    BY <1>1, <1>3

\* One row changes.
LEMMA CopyChanges ==
    ASSUME NEW h \in Hubs, NEW k \in Keys,
           \A g \in Hubs, l \in Keys : ~(g = h /\ l = k) => slot'[g][l] = slot[g][l]
    PROVE  Copies' = [Copies EXCEPT ![h][k] = Version(slot'[h][k])]
  <1>1. \A g \in Hubs, l \in Keys : Copies'[g][l] = Version(slot'[g][l])
    BY DEF Copies, Copy, Version
  <1>2. \A g \in Hubs, l \in Keys : Copies[g][l] = Version(slot[g][l])
    BY DEF Copies, Copy
  <1>3. /\ Copies = [g \in Hubs |-> Copies[g]] /\ Copies' = [g \in Hubs |-> Copies'[g]]
        /\ \A g \in Hubs : Copies[g] = [l \in Keys |-> Copies[g][l]]
        /\ \A g \in Hubs : Copies'[g] = [l \in Keys |-> Copies'[g][l]]
    BY DEF Copies
  <1> HIDE DEF Copies
  <1>4. \A g \in Hubs \ {h} : Copies'[g] = Copies[g]
    BY <1>1, <1>2, <1>3
  <1>5. Copies'[h] = [Copies[h] EXCEPT ![k] = Version(slot'[h][k])]
    BY <1>1, <1>2, <1>3
  <1> QED
    BY <1>3, <1>4, <1>5

\* A copy is absent or a version there can be.
LEMMA CopyType ==
    ASSUME IInv, NEW h \in Hubs, NEW k \in Keys
    PROVE  Version(slot[h][k]) \in [at : 1 .. MaxClock, val : 1 .. MaxEdits] \cup {Absent}
  <1>1. CASE slot[h][k] = NoRow
    BY <1>1 DEF Absent
  <1>2. CASE slot[h][k] # NoRow
    <2>1. slot[h][k].at \in 1 .. clock /\ slot[h][k].val \in 1 .. edits
      BY <1>2 DEF IInv, RowInv, Known, Dated
    <2>2. slot[h][k].at \in 1 .. MaxClock /\ slot[h][k].val \in 1 .. MaxEdits
      BY <2>1 DEF IInv, TypeInv
    <2> QED
      BY <2>2 DEF Version
  <1> QED
    BY <1>1, <1>2

\* A write to a crossed entity may bring any version.
LEMMA RegisterCross ==
    ASSUME NEW h \in Hubs, NEW k \in Keys, crossed' = crossed \cup {k},
           NEW v \in [at : 1 .. MaxClock, val : 1 .. MaxEdits] \cup {Absent},
           Copies' = [Copies EXCEPT ![h][k] = v],
           \/ Writtens' = Writtens
           \/ \E w \in [at : 1 .. MaxClock, val : 1 .. MaxEdits] :
                Writtens' = [Writtens EXCEPT ![k] = @ \cup {w}]
    PROVE  Register!Next
  <1>1. Register!Cross(h, k)
    BY DEF Register!Cross, Copies, Writtens
  <1> QED
    BY <1>1 DEF Register!Next

LEMMA RegisterQuiet ==
    ASSUME IInv, slot' = slot, outbox' = outbox
    PROVE  UNCHANGED <<Copies, Writtens>>
  BY RegisterStutter DEF Grows

\* The flush hides its event still, and may cross a write the handler missed.
LEMMA RegisterFlush ==
    ASSUME IInv, NEW h \in Hubs, NEW k \in Keys, flush(h, k)
    PROVE  [Register!Next]_<<Copies, Writtens, crossed>>
  <1> DEFINE n == Len(outbox[h]) + 1
  <1>a. PICK t \in Txn : t = txn[h][k]
    BY DEF IInv, TypeInv
  <1>b. PICK e : e = Event(k, t.old, t.row)
    OBVIOUS
  <1>1. /\ slot' = slot /\ outbox' = [outbox EXCEPT ![h] = Append(@, e)]
        /\ crossed' = crossed \/ crossed' = crossed \cup {k}
    BY <1>a, <1>b DEF flush, _emit
  <1>2. e \in OutboxEvent /\ e.st = "open"
    BY <1>b, EventType DEF Event, Txn
  <1> HIDE DEF n
  <1>3. /\ DOMAIN outbox'[h] = DOMAIN outbox[h] \cup {n}
        /\ outbox'[h][n] = e
        /\ \A s \in DOMAIN outbox[h] : outbox'[h][s] = outbox[h][s]
        /\ \A g \in Hubs \ {h} : outbox'[g] = outbox[g]
        /\ Grows
    BY <1>1, <1>2, Appended DEF IInv, n
  <1>4. \A g \in Hubs : \A s \in DOMAIN outbox'[g] :
          outbox'[g][s].st = "visible" => s \in DOMAIN outbox[g] /\ outbox'[g][s] = outbox[g][s]
    BY <1>2, <1>3
  <1>5. Copies' = Copies /\ Writtens' = Writtens
    BY <1>1, <1>3, <1>4, RegisterStutter
  <1>6. CASE crossed' = crossed \cup {k}
    <2>1. PICK v : v = Version(slot[h][k])
      OBVIOUS
    <2>2. Copies' = [Copies EXCEPT ![h][k] = v]
      BY <1>1, <2>1, CopyChanges
    <2> QED
      BY <1>5, <1>6, <2>1, <2>2, CopyType, RegisterCross
  <1> QED
    BY <1>1, <1>5, <1>6

\* A user's commit writes a version nobody had written, removes the row, or
\* emits once more what is there.
LEMMA RegisterCommit ==
    ASSUME IInv, NEW h \in Hubs, NEW k \in Keys, commit(h, k)
    PROVE  [Register!Next]_<<Copies, Writtens, crossed>>
  <1>a. PICK t \in Txn : t = txn[h][k]
    BY DEF IInv, TypeInv
  <1>b. PICK s : s = t.seq
    OBVIOUS
  <1>c. PICK v : v = Version(t.row)
    OBVIOUS
  <1>1. /\ t.stage = "open" /\ outbox' = [outbox EXCEPT ![h][s].st = "visible"]
        /\ crossed' = crossed
        /\ slot' = IF Finds(h, k, t) THEN [slot EXCEPT ![h][k] = t.row] ELSE slot
    BY <1>a, <1>b DEF commit
  <1>d. OpenInv(h, k, t)
    BY <1>a, <1>1 DEF IInv, TxnInv, TxnOf
  <1>2. /\ Emitted(h, k, t)
        /\ t.row # NoRow => Finds(h, k, t) /\ NewOrSame(h, k, t)
        /\ s \in DOMAIN outbox[h] /\ outbox[h][s].st = "open" /\ outbox[h][s].key = k
    BY <1>b, <1>d DEF OpenInv, Emitted
  <1>3. ClosedAs(h, s, "visible")
    BY <1>1, <1>2, Closed DEF IInv
  <1>4. t.row \in Row /\ (Finds(h, k, t) => slot'[h][k] = t.row)
        /\ \A g \in Hubs, l \in Keys : ~(g = h /\ l = k) => slot'[g][l] = slot[g][l]
    BY <1>1 DEF IInv, TypeInv, Txn
  <1>5. ASSUME Finds(h, k, t) PROVE Copies' = [Copies EXCEPT ![h][k] = v]
    BY <1>c, <1>4, <1>5, CopyChanges
  <1>6. /\ \A g \in Hubs : \A u \in DOMAIN outbox'[g], l \in Keys :
             /\ u \in DOMAIN outbox[g] /\ Version(outbox[g][u])' = Version(outbox[g][u])
             /\ Puts(g, u, l)' => Puts(g, u, l) \/ (g = h /\ u = s /\ l = k)
        /\ outbox'[h][s].st = "visible" /\ s \in DOMAIN outbox'[h]
        /\ outbox'[h][s].key = k /\ (outbox'[h][s].deleted <=> outbox[h][s].deleted)
        /\ Grows
    BY <1>2, <1>3 DEF ClosedAs, Grows, Puts, Version
  <1>7. ASSUME NEW l \in Keys, l # k \/ t.row = NoRow PROVE Written(l)' = Written(l)
    <2>1. \A g \in Hubs : \A u \in DOMAIN outbox'[g] : Puts(g, u, l)' =>
             Puts(g, u, l) /\ u \in DOMAIN outbox[g] /\ Version(outbox[g][u])' = Version(outbox[g][u])
      BY <1>b, <1>2, <1>6, <1>7 DEF Puts, Emitted
    <2>2. Written(l)' \subseteq Written(l) \cup {}
      BY <2>1, WrittenFrom
    <2> QED
      BY <1>6, <2>2, WrittenGrows
  <1>8. ASSUME t.row # NoRow PROVE Written(k)' = Written(k) \cup {v}
    <2>1. Version(outbox[h][s]) = v /\ ~outbox[h][s].deleted
      BY <1>b, <1>c, <1>2, <1>8 DEF Emitted, Version
    <2>2. Written(k)' \subseteq Written(k) \cup {v}
      <3>1. \A g \in Hubs : \A u \in DOMAIN outbox'[g] : Puts(g, u, k)' =>
               \/ u \in DOMAIN outbox[g] /\ Puts(g, u, k)
                    /\ Version(outbox[g][u])' = Version(outbox[g][u])
               \/ Version(outbox[g][u])' \in {v}
        BY <1>6, <2>1
      <3> QED
        BY <3>1, WrittenFrom
    <2>3. v \in Written(k)'
      <3>1. Puts(h, s, k)' /\ v = Version(outbox[h][s])'
        BY <1>2, <1>6, <2>1 DEF Puts
      <3> QED
        BY <1>6, <3>1 DEF Written, Puts
    <2> QED
      BY <1>6, <2>2, <2>3, WrittenGrows
  <1>9. CASE t.row = NoRow
    <2>1. Writtens' = Writtens /\ v = Absent
      BY <1>c, <1>7, <1>9 DEF Writtens, Absent
    <2>2. CASE Finds(h, k, t)
      <3>1. Register!Remove(h, k)
        BY <1>1, <1>5, <2>1, <2>2 DEF Register!Remove, Copies, Writtens
      <3> QED
        BY <3>1 DEF Register!Next
    <2>3. CASE ~Finds(h, k, t)
      <3>1. Copies' = Copies
        BY <1>1, <2>3 DEF Copies, Copy, Version
      <3> QED
        BY <1>1, <2>1, <3>1
    <2> QED
      BY <2>2, <2>3
  <1>10. CASE t.row # NoRow /\ t.row = slot[h][k]
    <2>1. v \in Written(k)
      BY <1>c, <1>10, ShownIsWritten DEF IInv, RowInv, Known
    <2>2. Writtens' = Writtens
      BY <1>7, <1>8, <1>10, <2>1 DEF Writtens
    <2>3. Copies' = Copies
      BY <1>2, <1>4, <1>10 DEF Copies, Copy, Version
    <2> QED
      BY <1>1, <2>2, <2>3
  <1>11. CASE t.row # NoRow /\ t.row # slot[h][k]
    <2>1. t.row.at \in 1 .. MaxClock /\ t.row.val \in 1 .. MaxEdits
      <3>1. t.row.at \in 1 .. clock /\ t.row.val \in 1 .. edits
        BY <1>b, <1>2, <1>11 DEF Emitted, IInv, IdInv, Dated
      <3> QED
        BY <3>1 DEF IInv, TypeInv
    <2>2. v \in [at : 1 .. MaxClock, val : 1 .. MaxEdits]
      BY <1>c, <2>1 DEF Version
    <2>3. Writtens' = [Writtens EXCEPT ![k] = @ \cup {v}]
      BY <1>7, <1>8, <1>11 DEF Writtens
    <2>4. CASE k \in crossed
      <3>1. crossed' = crossed \cup {k}
        BY <1>1, <2>4
      <3> QED
        BY <1>2, <1>5, <1>11, <2>2, <2>3, <3>1, RegisterCross
    <2>5. CASE k \notin crossed
      <3>1. v \notin Written(k)
        <4> SUFFICES ASSUME v \in Written(k) PROVE FALSE
          OBVIOUS
        <4>1. PICK g \in Hubs : \E u \in DOMAIN outbox[g] :
                Puts(g, u, k) /\ v = Version(outbox[g][u])
          BY WrittenIs
        <4>2. PICK u \in DOMAIN outbox[g] : Puts(g, u, k) /\ v = Version(outbox[g][u])
          BY <4>1
        <4>3. outbox[g][u].val = t.row.val
          BY <1>c, <4>2 DEF Version
        <4> QED
          BY <1>b, <1>2, <1>11, <2>5, <4>2, <4>3 DEF NewOrSame, Puts
      <3>2. Register!Write(h, k)
        BY <1>1, <1>2, <1>5, <1>11, <2>2, <2>3, <3>1 DEF Register!Write, Copies, Writtens
      <3> QED
        BY <3>2 DEF Register!Next
    <2> QED
      BY <2>4, <2>5
  <1> QED
    BY <1>9, <1>10, <1>11

\* Replication removes rows,
LEMMA RegisterDeletion ==
    ASSUME IInv, NEW h \in Hubs, apply_deletion(h)
    PROVE  [Register!Next]_<<Copies, Writtens, crossed>>
  <1>1. PICK k \in Keys : k = Current(h).key
    BY CurrentEvent DEF apply_deletion
  <1>2. /\ outbox' = outbox /\ crossed' = crossed
        /\ slot' = slot \/ slot' = [slot EXCEPT ![h][k] = NoRow]
    BY <1>1 DEF apply_deletion
  <1>3. Writtens' = Writtens
    BY <1>2 DEF Writtens, Written, Version
  <1>4. CASE slot' = slot
    BY <1>2, <1>4, RegisterQuiet
  <1>5. CASE slot' = [slot EXCEPT ![h][k] = NoRow]
    <2>1. /\ slot'[h][k] = NoRow
          /\ \A g \in Hubs, l \in Keys : ~(g = h /\ l = k) => slot'[g][l] = slot[g][l]
      BY <1>5 DEF IInv, TypeInv
    <2>2. Copies' = [Copies EXCEPT ![h][k] = Absent]
      BY <2>1, CopyChanges DEF Absent
    <2>3. Register!Remove(h, k)
      BY <1>2, <1>3, <2>2 DEF Register!Remove, Copies, Writtens
    <2> QED
      BY <2>3 DEF Register!Next
  <1> QED
    BY <1>2, <1>4, <1>5

\* and takes over versions: a newer one, unless it writes over what it had not
\* read.
LEMMA RegisterWrites ==
    ASSUME IInv, NEW h \in Hubs, apply_writes(h)
    PROVE  [Register!Next]_<<Copies, Writtens, crossed>>
  <1>a. PICK e : e = Current(h)
    OBVIOUS
  <1>b. PICK k : k = e.key
    OBVIOUS
  <1>1. /\ e \in OutboxEvent /\ k \in Keys /\ ~e.deleted /\ Shows(e, k)
        /\ outbox' = outbox
        /\ \A g \in Hubs, l \in Keys : ~(g = h /\ l = k) => slot'[g][l] = slot[g][l]
        /\ \/ slot'[h][k] = slot[h][k] /\ crossed' = crossed
           \/ /\ slot'[h][k] = Upserted(slot[h][k], e)
              /\ \/ k \in crossed' /\ crossed' = crossed \cup {k}
                 \/ /\ crossed' = crossed
                    /\ slot[h][k] = NoRow \/ slot[h][k].at < e.at
    BY <1>a, <1>b, Writes
  <1>2. PICK v : v = Version(slot'[h][k])
    OBVIOUS
  <1>3. Copies' = [Copies EXCEPT ![h][k] = v]
    BY <1>1, <1>2, CopyChanges
  <1>4. Writtens' = Writtens
    BY <1>1 DEF Writtens, Written, Version
  <1>5. CASE slot'[h][k] = slot[h][k] /\ crossed' = crossed
    <2>1. \A g \in Hubs, l \in Keys : slot'[g][l] = slot[g][l]
      BY <1>1, <1>5
    <2>2. Copies' = Copies
      BY <2>1 DEF Copies, Copy, Version
    <2> QED
      BY <1>4, <1>5, <2>2
  <1>6. CASE slot'[h][k] = Upserted(slot[h][k], e)
    <2>1. slot'[h][k].at = e.at /\ slot'[h][k].val = e.val
      BY <1>1, <1>6, UpsertedIs DEF IInv, TypeInv
    <2>2. v = Version(e) /\ v.at = e.at
      BY <1>2, <2>1 DEF Version
    <2>3. CASE crossed' = crossed \cup {k}
      <3>1. e.at \in 1 .. MaxClock /\ e.val \in 1 .. MaxEdits
        <4>1. Dated(e)
          BY <1>a, <1>1, CurrentEvent DEF apply_writes
        <4> QED
          BY <4>1 DEF Dated, IInv, TypeInv
      <3>2. v \in [at : 1 .. MaxClock, val : 1 .. MaxEdits]
        BY <2>2, <3>1 DEF Version
      <3> QED
        BY <1>1, <1>3, <1>4, <2>3, <3>2, RegisterCross
    <2>4. CASE crossed' = crossed /\ (slot[h][k] = NoRow \/ slot[h][k].at < e.at)
      <3>1. v \in Writtens[k]
        BY <1>1, <2>2, ShownIsWritten DEF Writtens
      <3>2. Copies[h][k] = Absent \/ Copies[h][k].at < v.at
        BY <1>1, <2>2, <2>4 DEF Copies, Copy, Version, Absent
      <3>3. Register!Take(h, k)
        BY <1>1, <1>3, <1>4, <2>4, <3>1, <3>2 DEF Register!Take, Register!Newer, Copies, Writtens
      <3> QED
        BY <1>1, <3>3 DEF Register!Next
    <2> QED
      BY <1>1, <1>6, <2>3, <2>4, <1>5
  <1> QED
    BY <1>1, <1>5, <1>6

LEMMA RegisterRollback ==
    ASSUME IInv, NEW h \in Hubs, NEW k \in Keys, rollback(h, k)
    PROVE  UNCHANGED <<Copies, Writtens>>
  <1>1. PICK s : s = txn[h][k].seq
    OBVIOUS
  <1>2. /\ txn[h][k].stage = "open" /\ slot' = slot
        /\ outbox' = [outbox EXCEPT ![h][s].st = "void"]
    BY <1>1 DEF rollback
  <1>3. s \in DOMAIN outbox[h] /\ outbox[h][s].st = "open"
    <2>1. Emitted(h, k, txn[h][k])
      BY <1>2 DEF IInv, TxnInv, TxnOf, OpenInv
    <2> QED
      BY <1>1, <2>1 DEF Emitted
  <1>4. ClosedAs(h, s, "void")
    BY <1>2, <1>3, Closed DEF IInv
  <1>5. \A g \in Hubs : \A u \in DOMAIN outbox'[g] :
          outbox'[g][u].st = "visible" => u \in DOMAIN outbox[g] /\ outbox'[g][u] = outbox[g][u]
    <2>1. \A g \in Hubs : \A u \in DOMAIN outbox[g] :
             ~(g = h /\ u = s) => outbox'[g][u] = outbox[g][u]
      BY <1>2 DEF IInv, TypeInv
    <2> QED
      BY <1>4, <2>1 DEF ClosedAs
  <1> QED
    BY <1>2, <1>4, <1>5, RegisterStutter DEF ClosedAs

LEMMA RegisterStep == IInv /\ [Next]_vars => [Register!Next]_<<Copies, Writtens, crossed>>
  <1> SUFFICES ASSUME IInv, [Next]_vars PROVE [Register!Next]_<<Copies, Writtens, crossed>>
    OBVIOUS
  <1>1. ASSUME NEW h \in Hubs, NEW k \in Keys, mutate(h, k) \/ flush_raises(h, k)
        PROVE  UNCHANGED <<Copies, Writtens, crossed>>
    BY <1>1, RegisterQuiet DEF mutate, flush_raises
  <1>2. ASSUME NEW h \in Hubs, NEW k \in Keys, rollback(h, k)
        PROVE  UNCHANGED <<Copies, Writtens, crossed>>
    BY <1>2, RegisterRollback DEF rollback
  <1>3. ASSUME NEW h \in Hubs, NEW k \in Keys, flush(h, k) \/ commit(h, k)
        PROVE  [Register!Next]_<<Copies, Writtens, crossed>>
    BY <1>3, RegisterFlush, RegisterCommit
  <1>4. ASSUME NEW h \in Hubs, NEW p \in Hubs, fetch(h, p)
        PROVE  UNCHANGED <<Copies, Writtens, crossed>>
    BY <1>4, RegisterQuiet DEF fetch
  <1>5. ASSUME NEW h \in Hubs, apply_skips(h) \/ apply_reads(h)
        PROVE  UNCHANGED <<Copies, Writtens, crossed>>
    BY <1>5, RegisterQuiet DEF apply_skips, apply_reads
  <1>6. ASSUME NEW h \in Hubs, apply_deletion(h) \/ apply_writes(h)
        PROVE  [Register!Next]_<<Copies, Writtens, crossed>>
    BY <1>6, RegisterDeletion, RegisterWrites
  <1>7. ASSUME NEW h \in Hubs, apply_fails(h) \/ update_sync_cursor(h) \/ restart(h)
        PROVE  UNCHANGED <<Copies, Writtens, crossed>>
    BY <1>7, RegisterQuiet DEF apply_fails, update_sync_cursor, restart
  <1>8. CASE Tick \/ UNCHANGED vars
    BY <1>8, RegisterQuiet DEF Tick, vars
  <1> QED
    BY <1>1, <1>2, <1>3, <1>4, <1>5, <1>6, <1>7, <1>8 DEF Next, apply_outbox_event

\* The hubs' copies behave as last-writer-wins registers: replication only ever
\* replaces an absent or strictly older copy, by a version some user committed,
\* of every entity that no transaction has written over unread.
THEOREM SyncRefinesRegister == Spec => ImplementsRegister
  <1>1. Init => Register!Init
    BY DEF Init, Register!Init, Copy, Version, Absent, Written
  <1>2. IInv /\ [Next]_vars => [Register!Next]_<<Copies, Writtens, crossed>>
    BY RegisterStep
  <1> QED
    BY <1>1, <1>2, SyncInvariant, PTL DEF Spec, ImplementsRegister, Register!Spec, Register!vars,
       Copies, Writtens

=============================================================================
