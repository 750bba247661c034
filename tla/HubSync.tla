------------------------------ MODULE HubSync -------------------------------
(***************************************************************************)
(* Multi-hub synchronisation: the emission hooks that append every local   *)
(* mutation to the outbox (services/sync_emission.py), the endpoint that   *)
(* serves the outbox (blueprints/api/sync.py), the replicator that polls a *)
(* peer (services/sync_replicator.py) and the applier with its             *)
(* last-writer-wins rule and tombstones (services/sync.py).                *)
(*                                                                         *)
(* An entity is known by its natural key; each hub has at most one row for *)
(* it, under an id of its own if it created the row itself.  A version is  *)
(* the row's updated_at and a number that tells one edit from another.     *)
(*                                                                         *)
(* Nothing locks what it reads: a handler and the applier SELECT a row,    *)
(* decide, and UPDATE it by its primary key, and only the UPDATE waits for *)
(* the row lock that another's uncommitted UPDATE holds.  A write that     *)
(* lands on a row that has changed since it was read mixes the columns of  *)
(* both; the model takes it whole and marks the entity as crossed.         *)
(***************************************************************************)
EXTENDS Integers, Sequences, FiniteSets, FiniteSetsExt

CONSTANTS Hubs,      \* the hubs; each polls all others
          Keys,      \* natural keys of the entities
          Foreign,   \* keys whose organization exists on one hub only
          BatchLimit,\* events served per request (100 in the code)
          MaxEdits,  \* bound: local mutations
          MaxClock,  \* bound: distinct instants
          MaxFaults  \* bound: rollbacks, failed applications, restarts

ASSUME SyncAssumption ==
  /\ Foreign \subseteq Keys
  /\ BatchLimit \in Nat \ {0}
  /\ MaxEdits \in Nat /\ MaxClock \in Nat \ {0} /\ MaxFaults \in Nat

VARIABLES slot,    \* hub -> key -> its row, or NoRow
          outbox,  \* hub -> the sequence of its outbox events
          cursor,  \* hub -> peer -> last sequence number applied
          tomb,    \* hub -> ids with a tombstone
          txn,     \* hub -> key -> the open local transaction, or NoTxn
          job,     \* hub -> the batch its replicator is applying, or Idle
          gone,    \* history: hub -> ids its own users deleted
          crossed, \* history: keys written over what the writer had not read
          excused, \* history: keys met by one of the losses named below
          clock, edits, faults

vars == <<slot, outbox, cursor, tomb, txn, job, gone, crossed, excused, clock, edits, faults>>

NoRow == [id |-> 0, at |-> 0, val |-> 0]
NoTxn == [stage |-> "none", seq |-> 0, old |-> NoRow, row |-> NoRow]
Idle == [busy |-> FALSE]

Op == edits < MaxEdits /\ edits' = edits + 1
Fault == faults < MaxFaults /\ faults' = faults + 1

-----------------------------------------------------------------------------
(* Local mutations: the handler reads the row, changes it and flushes.     *)
(* The hook inserts the event on the mutation's own connection: the        *)
(* sequence number is taken before the commit, row and event become        *)
(* visible together.                                                       *)

\* A new row, with an id of this hub's making.
Created == [id |-> edits + 1, at |-> clock, val |-> edits + 1]
\* An edit that sets updated_at.
Stamped(r) == [r EXCEPT !.at = clock, !.val = edits + 1]
\* An edit that does not, such as a decommissioning on the adoption page.
Unstamped(r) == [r EXCEPT !.val = edits + 1]
\* A heartbeat: last_seen_at is not among the columns the hook ignores, so
\* the unchanged configuration is emitted again.
Touched(r) == r

\* What a handler may make of the row it read; NoRow is a deletion.
Mutations(r) ==
  IF r = NoRow THEN {Created} ELSE {Stamped(r), Unstamped(r), Touched(r), NoRow}

\* The event holds a snapshot of the row, and for a deletion the id deleted.
Event(k, old, new) ==
  [key |-> k, id |-> IF new = NoRow THEN old.id ELSE new.id,
   deleted |-> new = NoRow, at |-> new.at, val |-> new.val, st |-> "open"]

\* The statement of open transaction t finds its row (an INSERT: none yet).
Finds(h, k, t) == slot[h][k].id = t.old.id
\* It holds the row's lock, or the place in the unique index.
Locked(h, k) == txn[h][k].stage = "open" /\ Finds(h, k, txn[h][k])

mutate(h, k) ==
  /\ txn[h][k] = NoTxn /\ Op
  /\ \E new \in Mutations(slot[h][k]) :
       txn' = [txn EXCEPT ![h][k] =
                 [stage |-> "read", seq |-> 0, old |-> slot[h][k], row |-> new]]
  /\ UNCHANGED <<slot, outbox, cursor, tomb, job, gone, crossed, excused, clock, faults>>

\* The flush, and the hook's event, which shows the row as this handler knows it.
_emit(h, k) ==
  LET t == txn[h][k]
  IN /\ outbox' = [outbox EXCEPT ![h] = Append(@, Event(k, t.old, t.row))]
     /\ txn' = [txn EXCEPT ![h][k] =
                  [t EXCEPT !.stage = "open", !.seq = Len(outbox[h]) + 1]]

\* A DELETE that finds no row is let pass.
flush(h, k) ==
  LET t == txn[h][k]
  IN /\ t.stage = "read"
     /\ Finds(h, k, t) \/ t.row = NoRow
     /\ _emit(h, k)
     /\ crossed' = IF t.row # NoRow /\ slot[h][k] # t.old THEN crossed \cup {k} ELSE crossed
     /\ UNCHANGED <<slot, cursor, tomb, job, gone, excused, clock, edits, faults>>

\* An UPDATE that finds no row, or an INSERT that finds one, raises.
flush_raises(h, k) ==
  /\ txn[h][k].stage = "read"
  /\ ~Finds(h, k, txn[h][k]) /\ txn[h][k].row # NoRow
  /\ txn' = [txn EXCEPT ![h][k] = NoTxn]
  /\ UNCHANGED <<slot, outbox, cursor, tomb, job, gone, crossed, excused, clock, edits, faults>>

\* A local deletion leaves a "deleted" event and no tombstone.
commit(h, k) ==
  LET t == txn[h][k]
  IN /\ t.stage = "open"
     /\ slot' = IF Finds(h, k, t) THEN [slot EXCEPT ![h][k] = t.row] ELSE slot
     /\ outbox' = [outbox EXCEPT ![h][t.seq].st = "visible"]
     /\ gone' = IF t.row = NoRow THEN [gone EXCEPT ![h] = @ \cup {t.old.id}] ELSE gone
     /\ txn' = [txn EXCEPT ![h][k] = NoTxn]
     /\ UNCHANGED <<cursor, tomb, job, crossed, excused, clock, edits, faults>>

rollback(h, k) ==
  /\ txn[h][k].stage = "open" /\ Fault
  /\ outbox' = [outbox EXCEPT ![h][txn[h][k].seq].st = "void"]
  /\ txn' = [txn EXCEPT ![h][k] = NoTxn]
  /\ UNCHANGED <<slot, cursor, tomb, job, gone, crossed, excused, clock, edits>>

-----------------------------------------------------------------------------
(* GET /api/v1/sync/since, and the applier.                                *)

\* Mutant: the event next to the cursor is passed over.
VisibleOffByOne(p, since) ==
  {s \in DOMAIN outbox[p] : s > since + 1 /\ outbox[p][s].st = "visible"}

Visible(p, since) == {s \in DOMAIN outbox[p] : s > since /\ outbox[p][s].st = "visible"}

\* The numbers of the first BatchLimit committed events after `since`; the
\* answer lists them in order, so they are taken smallest first.
fetch_outbox_events_since(p, since) ==
  LET all == Visible(p, since)
  IN {s \in all : Cardinality({u \in all : u <= s}) <= BatchLimit}

is_tombstoned(h, id) == id \in tomb[h]

\* Mutant: last writer applied, whatever its time.
LWWAlways(e, existing) == TRUE

\* Last writer wins: an existing row gives way to a strictly newer one.
LWWApplies(e, existing) == existing.at < e.at

\* Mutant: a tombstone does not stop an update.
NotTombstoned(h, e) == TRUE

Applicable(h, e) == ~is_tombstoned(h, e.id)

\* An upsert that last-writer-wins lets through, of the row as it is now.
Takes(h, e) ==
  LET existing == slot[h][e.key]
  IN ~e.deleted /\ Applicable(h, e) /\ (existing = NoRow \/ LWWApplies(e, existing))

\* The row after an update: inserted under the sender's id, or the existing
\* row (found by id or by natural key), which keeps its own id.
Upserted(existing, e) ==
  IF existing = NoRow THEN [id |-> e.id, at |-> e.at, val |-> e.val]
  ELSE [existing EXCEPT !.at = e.at, !.val = e.val]

\* The losses sync knows: an equally old version with other content is skipped,
\* a row the hub's users deleted comes back, a deletion spares the row that
\* bears the same natural key under another id.
Tie(h, e) == ~e.deleted /\ slot[h][e.key].at = e.at /\ slot[h][e.key].val # e.val
Revives(h, e) == ~e.deleted /\ e.id \in gone[h]
SparesTwin(h, e) == e.deleted /\ slot[h][e.key] # NoRow /\ slot[h][e.key].id # e.id
Loses(h, e) == Applicable(h, e) /\ (Tie(h, e) \/ Revives(h, e) \/ SparesTwin(h, e))

-----------------------------------------------------------------------------
(* The replicator's tick on hub h, for one peer.                           *)

\* `open` remembers the numbers below the last one that were still uncommitted.
fetch(h, p) ==
  LET batch == fetch_outbox_events_since(p, cursor[h][p])
      last == Max(batch)
  IN /\ p # h /\ job[h] = Idle /\ batch # {}
     /\ job' = [job EXCEPT ![h] =
          [busy |-> TRUE, peer |-> p, batch |-> batch, last |-> last,
           seen |-> {},
           open |-> {s \in cursor[h][p] + 1 .. last : outbox[p][s].st = "open"}]]
     /\ UNCHANGED <<slot, outbox, cursor, tomb, txn, gone, crossed, excused, clock, edits, faults>>

Applying(h) == job[h].busy /\ job[h].batch # {}
Current(h) == outbox[job[h].peer][Min(job[h].batch)]
Proceed(h) == job' = [job EXCEPT ![h].batch = @ \ {Min(@)}, ![h].seen = {}]
Excuse(K) == excused' = excused \cup K

\* One event, in a transaction of its own.  What the applier passes over, it
\* passes over on what it reads.
apply_skips(h) ==
  LET e == Current(h)
  IN /\ Applying(h) /\ e.key \notin Foreign /\ job[h].seen = {}
     /\ ~Takes(h, e) /\ (e.deleted => ~Applicable(h, e))
     /\ Excuse(IF Loses(h, e) THEN {e.key} ELSE {})
     /\ Proceed(h)
     /\ UNCHANGED <<slot, outbox, cursor, tomb, txn, gone, crossed, clock, edits, faults>>

\* A deletion: a tombstone, and a DELETE that waits for the row's lock.
apply_deletion(h) ==
  LET e == Current(h)
  IN /\ Applying(h) /\ e.key \notin Foreign /\ e.deleted /\ Applicable(h, e)
     /\ ~Locked(h, e.key)
     /\ tomb' = [tomb EXCEPT ![h] = @ \cup {e.id}]
     /\ slot' = IF slot[h][e.key].id = e.id THEN [slot EXCEPT ![h][e.key] = NoRow] ELSE slot
     /\ Excuse(IF Loses(h, e) THEN {e.key} ELSE {})
     /\ Proceed(h)
     /\ UNCHANGED <<outbox, cursor, txn, gone, crossed, clock, edits, faults>>

\* An upsert: session.get and the comparison,
apply_reads(h) ==
  /\ Applying(h) /\ Current(h).key \notin Foreign /\ job[h].seen = {}
  /\ Takes(h, Current(h))
  /\ job' = [job EXCEPT ![h].seen = {slot[h][Current(h).key]}]
  /\ UNCHANGED <<slot, outbox, cursor, tomb, txn, gone, crossed, excused, clock, edits, faults>>

\* and the flush, which waits for the row's lock.  It raises, and the event is
\* passed over, if the row it read is gone or the row it adds is there.
apply_writes(h) ==
  LET e == Current(h)
      row == slot[h][e.key]
      finds == \E old \in job[h].seen : old.id = row.id
  IN /\ Applying(h) /\ job[h].seen # {} /\ ~Locked(h, e.key)
     /\ slot' = IF finds THEN [slot EXCEPT ![h][e.key] = Upserted(row, e)] ELSE slot
     /\ crossed' = IF finds /\ row \notin job[h].seen THEN crossed \cup {e.key} ELSE crossed
     /\ Excuse(IF ~finds \/ Loses(h, e) THEN {e.key} ELSE {})
     /\ Proceed(h)
     /\ UNCHANGED <<outbox, cursor, tomb, txn, gone, clock, edits, faults>>

apply_outbox_event(h) ==
  apply_skips(h) \/ apply_deletion(h) \/ apply_reads(h) \/ apply_writes(h)

\* An event that cannot be applied, for its organization is unknown here or its
\* transaction fails, is logged and passed over.
apply_fails(h) ==
  /\ Applying(h)
  /\ \/ Current(h).key \in Foreign /\ UNCHANGED faults
     \/ Current(h).key \notin Foreign /\ Fault
  /\ Excuse({Current(h).key})
  /\ Proceed(h)
  /\ UNCHANGED <<slot, outbox, cursor, tomb, txn, gone, crossed, clock, edits>>

\* The cursor moves past the whole batch, once.
update_sync_cursor(h) ==
  /\ job[h].busy /\ job[h].batch = {}
  /\ cursor' = [cursor EXCEPT ![h][job[h].peer] = job[h].last]
  /\ Excuse({outbox[job[h].peer][s].key : s \in job[h].open})
  /\ job' = [job EXCEPT ![h] = Idle]
  /\ UNCHANGED <<slot, outbox, tomb, txn, gone, crossed, clock, edits, faults>>

\* The hub restarts in the middle of a batch and fetches it again later.
restart(h) ==
  /\ job[h].busy /\ Fault
  /\ job' = [job EXCEPT ![h] = Idle]
  /\ UNCHANGED <<slot, outbox, cursor, tomb, txn, gone, crossed, excused, clock, edits>>

Tick ==
  /\ clock < MaxClock /\ clock' = clock + 1
  /\ UNCHANGED <<slot, outbox, cursor, tomb, txn, job, gone, crossed, excused, edits, faults>>

-----------------------------------------------------------------------------
Init ==
  /\ slot = [h \in Hubs |-> [k \in Keys |-> NoRow]]
  /\ outbox = [h \in Hubs |-> <<>>]
  /\ cursor = [h \in Hubs |-> [p \in Hubs |-> 0]]
  /\ tomb = [h \in Hubs |-> {}] /\ gone = [h \in Hubs |-> {}]
  /\ txn = [h \in Hubs |-> [k \in Keys |-> NoTxn]]
  /\ job = [h \in Hubs |-> Idle]
  /\ crossed = {} /\ excused = {} /\ clock = 1 /\ edits = 0 /\ faults = 0

Next ==
  \/ \E h \in Hubs, k \in Keys : \/ mutate(h, k) \/ flush(h, k) \/ flush_raises(h, k)
                               \/ commit(h, k) \/ rollback(h, k)
  \/ \E h, p \in Hubs : fetch(h, p)
  \/ \E h \in Hubs : \/ apply_outbox_event(h) \/ apply_fails(h)
                     \/ update_sync_cursor(h) \/ restart(h)
  \/ Tick

\* The scheduler runs every hub's replicator for ever, and a transaction ends.
Fairness ==
  /\ \A h \in Hubs, k \in Keys : WF_vars(flush(h, k) \/ flush_raises(h, k) \/ commit(h, k))
  /\ \A h, p \in Hubs : WF_vars(fetch(h, p))
  /\ \A h \in Hubs : /\ WF_vars(apply_outbox_event(h))
                    /\ WF_vars(Applying(h) /\ Current(h).key \in Foreign /\ apply_fails(h))
                    /\ WF_vars(update_sync_cursor(h))

Spec == Init /\ [][Next]_vars /\ Fairness

-----------------------------------------------------------------------------
(* Properties.                                                             *)

Version(r) == [at |-> r.at, val |-> r.val]
Absent == Version(NoRow)
Copy(h, k) == Version(slot[h][k])

Written(k) ==
  UNION {{Version(outbox[h][s]) : s \in {s \in DOMAIN outbox[h] :
            outbox[h][s].key = k /\ outbox[h][s].st = "visible" /\ ~outbox[h][s].deleted}} :
         h \in Hubs}

Register == INSTANCE SyncRegister WITH
  Versions <- [at : 1 .. MaxClock, val : 1 .. MaxEdits],
  copy <- [h \in Hubs |-> [k \in Keys |-> Copy(h, k)]],
  written <- [k \in Keys |-> Written(k)],
  crossed <- crossed

\* Sync keeps last-writer-wins registers: whatever is fetched twice after a
\* restart, reordered against local edits or applied late, a peer's version
\* only ever replaces an absent or a strictly older copy, and only versions
\* that were committed somewhere spread (apply_outbox_event).  It holds for an
\* entity until one transaction, of a user or of the applier, writes over a row
\* that another has changed since it read it: neither locks what it reads, and
\* an older version may then replace a newer one.
ImplementsRegister == Register!Spec

\* Once a hub has applied a deletion, no event, in whatever order events come
\* from several peers, puts a row with that id back (is_tombstoned).
DeletedStaysDeleted == \A h \in Hubs, k \in Keys : slot[h][k].id \notin tomb[h]

\* The copies of an entity become equal on all hubs, unless it met one of the
\* losses: an event that failed to apply, an event that was still uncommitted
\* when the cursor passed its number, two versions of the same instant, an
\* update that crossed its deletion, a namesake spared by a deletion, a write
\* over a row its transaction had not read.
Agree(k) == \A g, h \in Hubs : Copy(g, k) = Copy(h, k)
Converges == []<>(\A k \in Keys \ (excused \cup crossed) : Agree(k))

=============================================================================
