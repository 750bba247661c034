---------------------------- MODULE CommandQueue ----------------------------
(***************************************************************************)
(* The hub's command queue (app/services/commands.py) and the device       *)
(* endpoints that drain it (app/blueprints/device_api.py).                 *)
(*                                                                         *)
(* The hub runs one process with several HTTP threads over a READ          *)
(* COMMITTED database.  Every service function is one session_scope()      *)
(* transaction that SELECTs rows without locking them, decides, and        *)
(* UPDATEs at the end; SQLAlchemy writes only the columns whose value      *)
(* differs from the one that was read.  A handler is therefore two steps:  *)
(* a ..._read that stores in txn[t] what the thread saw, and a ..._commit  *)
(* that writes.  The expiry job is one UPDATE statement and one step.      *)
(* Enqueueing is one step here: what it reads and writes of the device     *)
(* (lockout, hold-off) and the group fan-out are in PowerControl.          *)
(*                                                                         *)
(* The device is external (firmware): it executes what a response carries, *)
(* has no memory of command ids, and may POST a result any number of       *)
(* times and in any order, as a client with retries does.                  *)
(*                                                                         *)
(* There is a second way to the relay: enqueue_for_device publishes the    *)
(* new command on the in-process event bus, and a LAN relay agent that     *)
(* listens flips the relay at once, without a look at the row and without  *)
(* changing it.  The row is still pending, may still be cancelled, and     *)
(* will still be delivered.                                                *)
(***************************************************************************)
EXTENDS Integers

CONSTANTS
    Device,      \* device ids
    Cmd,         \* command ids; the table holds at most this many rows
    Thread,      \* HTTP worker threads
    Reports,     \* sets of result statuses a device may POST for an execution
    Ttl,         \* DEFAULT_TTL_SECONDS
    Grace,       \* POST_PIGGYBACK_GRACE_S
    MaxTime,     \* bound on the clock
    MaxWire      \* bound on the copies of a command in flight to the device

ALLOWED_RESULT_STATUSES == {"accepted", "running", "completed", "failed",
                            "expired"}
LiveStatuses == {"pending", "accepted", "running"}

ASSUME QueueAssumption ==
    /\ Reports \subseteq SUBSET ALLOWED_RESULT_STATUSES
    /\ Ttl \in Nat \ {0}
    /\ Grace \in Nat
    /\ MaxTime \in Nat \ {0}
    /\ MaxWire \in Nat

VARIABLES
    now,       \* the clock; 0 stands for a NULL timestamp
    registered,\* the devices that exist
    row,       \* the commands table
    results,   \* the command_results table, <<command, status>>
    txn,       \* what each thread's open transaction has read
    wire,      \* copies of a command in responses on their way to the device
    posts,     \* results the device may still POST, <<command, status>>
    agent,     \* how far each command's event has come on the bus
    executed,  \* history: the commands a device executed from a response
    raced      \* history: the commands two transactions have held at once

vars == <<now, registered, row, results, txn, wire, posts, executed, agent, raced>>

NULL == 0
NoDevice == "no device"

\* "absent": never inserted.  "gone": deleted with its device (ON DELETE CASCADE).
CmdRow == [status: ALLOWED_RESULT_STATUSES \cup
                   {"absent", "pending", "cancelled", "gone"},
           device: Device \cup {NoDevice},
           expires_at: Nat,
           delivered_at: Nat,
           ack_received_at: Nat,
           completed_at: Nat]

Txn == [op: {"idle"}]
       \cup [op: {"cancel"}, at: Nat, cmd: Cmd]
       \cup [op: {"deliver"}, at: Nat, rows: SUBSET Cmd, fresh: SUBSET Cmd]
       \cup [op: {"result"}, at: Nat, cmd: Cmd, status: ALLOWED_RESULT_STATUSES,
             seen: ALLOWED_RESULT_STATUSES \cup {"pending", "cancelled"},
             acked: BOOLEAN]

Idle == [op |-> "idle"]
Present(c) == row[c].status \notin {"absent", "gone"}
Live(c) == row[c].status \in LiveStatuses

Init ==
    /\ now = 1
    /\ registered = Device
    /\ row = [c \in Cmd |-> [status |-> "absent", device |-> NoDevice,
                             expires_at |-> 0, delivered_at |-> NULL,
                             ack_received_at |-> NULL, completed_at |-> NULL]]
    /\ txn = [t \in Thread |-> Idle]
    /\ results = {}
    /\ wire = [c \in Cmd |-> 0]
    /\ posts = {}
    /\ executed = {}
    /\ agent = [c \in Cmd |-> "none"]
    /\ raced = {}

-----------------------------------------------------------------------------
(* Transactions: a thread that has read holds its view in txn[t].          *)

\* The commands an open transaction has read.
Holds(x) == CASE x.op = "idle" -> {}
              [] x.op = "deliver" -> x.rows
              [] OTHER -> {x.cmd}

Begin(t, view) ==
    /\ txn[t] = Idle
    /\ txn' = [txn EXCEPT ![t] = view]
    /\ raced' = raced \cup {c \in Holds(view) : \E u \in Thread : c \in Holds(txn[u])}
    /\ UNCHANGED <<now, registered, results, row, wire, posts, executed, agent>>

End(t) == txn' = [txn EXCEPT ![t] = Idle]

\* The rollback of session_scope(): an UPDATE that matches no row raises.
Rollback(t) ==
    /\ End(t)
    /\ UNCHANGED <<now, registered, results, row, wire, posts, executed, agent, raced>>

-----------------------------------------------------------------------------
(* Enqueueing                                                              *)

NewRow(d) == [status |-> "pending", device |-> d, expires_at |-> now + Ttl,
              delivered_at |-> NULL, ack_received_at |-> NULL,
              completed_at |-> NULL]

\* The event is published after the commit.  Nobody hears it when a group fan-out
\* queued the command, no agent listens, the agent's queue is full or the process
\* ends first: heard is then FALSE.
enqueue(c, d, heard) ==
    /\ d \in registered
    /\ row[c].status = "absent"
    /\ now + Ttl <= MaxTime     \* bound: the clock outlives every command
    /\ row' = [row EXCEPT ![c] = NewRow(d)]
    /\ agent' = IF heard THEN [agent EXCEPT ![c] = "event"] ELSE agent
    /\ UNCHANGED <<now, registered, results, txn, wire, posts, executed, raced>>

-----------------------------------------------------------------------------
(* Cancelling                                                              *)

\* Mutant: the status check also lets delivered commands through.
cancel_read_live(t, c) ==
    /\ Live(c)
    /\ Begin(t, [op |-> "cancel", at |-> now, cmd |-> c])

cancel_read(t, c) ==
    /\ row[c].status = "pending"
    /\ Begin(t, [op |-> "cancel", at |-> now, cmd |-> c])

MarkCancelled(r, at) == [r EXCEPT !.status = "cancelled", !.completed_at = at]

cancel_commit(t) ==
    LET x == txn[t] IN
    /\ x.op = "cancel"
    /\ IF Present(x.cmd)
       THEN /\ row' = [row EXCEPT ![x.cmd] = MarkCancelled(@, x.at)]
            /\ End(t)
            /\ UNCHANGED <<now, registered, results, wire, posts, executed, agent, raced>>
       ELSE Rollback(t)

-----------------------------------------------------------------------------
(* Delivery, by heartbeat piggyback or GET /device/commands.  A long poll  *)
(* is a sequence of such deliveries; the empty ones change nothing.        *)

\* Mutant: recent_delivery_grace_seconds is not passed.
Deliverable_no_grace(d) ==
    {c \in Cmd : row[c].device = d /\ Live(c) /\ row[c].expires_at > now}

Deliverable(d) ==
    {c \in Cmd : /\ row[c].device = d
                 /\ Live(c)
                 /\ row[c].expires_at > now
                 /\ \/ row[c].delivered_at = NULL
                    \/ row[c].delivered_at <= now - Grace}

list_pending_read(t, d) ==
    LET rows == Deliverable(d) IN
    /\ d \in registered
    /\ rows # {}
    /\ \A c \in rows : wire[c] < MaxWire
    /\ Begin(t, [op |-> "deliver", at |-> now, rows |-> rows,
                 fresh |-> {c \in rows : row[c].status = "pending"}])

MarkDelivered(r, at) == [r EXCEPT !.status = "accepted", !.delivered_at = at]

\* Mutant: mark_delivered is off.
list_pending_commit_unmarked(t) ==
    /\ txn[t].op = "deliver"
    /\ wire' = [c \in Cmd |-> IF c \in txn[t].rows THEN wire[c] + 1 ELSE wire[c]]
    /\ End(t)
    /\ UNCHANGED <<now, registered, row, results, posts, executed, agent, raced>>

\* Only the rows that were read as pending are written; all are returned.
list_pending_commit(t) ==
    LET x == txn[t] IN
    /\ x.op = "deliver"
    /\ IF \A c \in x.fresh : Present(c)
       THEN /\ row' = [c \in Cmd |->
                         IF c \in x.fresh THEN MarkDelivered(row[c], x.at) ELSE row[c]]
            /\ wire' = [c \in Cmd |-> IF c \in x.rows THEN wire[c] + 1 ELSE wire[c]]
            /\ End(t)
            /\ UNCHANGED <<now, registered, results, posts, executed, agent, raced>>
       ELSE Rollback(t)

-----------------------------------------------------------------------------
(* Results                                                                 *)

record_result_read(t, c, status) ==
    /\ <<c, status>> \in posts
    /\ Present(c)
    /\ Begin(t, [op |-> "result", at |-> now, cmd |-> c, status |-> status,
                 seen |-> row[c].status, acked |-> row[c].ack_received_at # NULL])

\* status is written if it differs from the one read, ack_received_at if none was.
MarkResult(r, x) ==
    [r EXCEPT !.status = IF x.status = x.seen THEN @ ELSE x.status,
              !.ack_received_at = IF x.acked THEN @ ELSE x.at,
              !.completed_at = x.at]

record_result_commit(t) ==
    LET x == txn[t] IN
    /\ x.op = "result"
    /\ IF Present(x.cmd)
       THEN /\ row' = [row EXCEPT ![x.cmd] = MarkResult(@, x)]
            /\ results' = results \cup {<<x.cmd, x.status>>}
            /\ End(t)
            /\ UNCHANGED <<now, registered, wire, posts, executed, agent, raced>>
       ELSE Rollback(t)

-----------------------------------------------------------------------------
(* The expiry job                                                          *)

WithStatus(r, status) == [r EXCEPT !.status = status]

\* Mutant: the job only expires what was never delivered.
Overdue_pending_only(c) == row[c].status = "pending" /\ row[c].expires_at <= now

Overdue(c) == Live(c) /\ row[c].expires_at <= now

expire_overdue_commands ==
    /\ \E c \in Cmd : Overdue(c)
    /\ row' = [c \in Cmd |-> IF Overdue(c) THEN WithStatus(row[c], "expired") ELSE row[c]]
    /\ UNCHANGED <<now, registered, results, txn, wire, posts, executed, agent, raced>>

-----------------------------------------------------------------------------
(* Other operations on the devices, the process and the clock              *)

\* devices/_mutations.py: the rows go by ON DELETE CASCADE.
delete_device(d) ==
    /\ d \in registered
    /\ registered' = registered \ {d}
    /\ row' = [c \in Cmd |-> IF row[c].device = d THEN WithStatus(row[c], "gone") ELSE row[c]]
    /\ UNCHANGED <<now, results, txn, wire, posts, executed, agent, raced>>

\* The process restarts: every open transaction is rolled back.
HubRestart ==
    /\ \E t \in Thread : txn[t] # Idle
    /\ txn' = [t \in Thread |-> Idle]
    /\ UNCHANGED <<now, registered, results, row, wire, posts, executed, agent, raced>>

Tick ==
    /\ now < MaxTime
    /\ now' = now + 1
    /\ UNCHANGED <<registered, results, row, txn, wire, posts, executed, agent, raced>>

-----------------------------------------------------------------------------
(* The device and the network (external)                                   *)

DeviceReceives(c) ==
    /\ wire[c] > 0
    /\ wire' = [wire EXCEPT ![c] = @ - 1]
    /\ IF row[c].expires_at <= now
       THEN /\ posts' = posts \cup {<<c, "expired">>}
            /\ UNCHANGED executed
       ELSE /\ \E statuses \in Reports : posts' = posts \cup {<<c, s>> : s \in statuses}
            /\ executed' = executed \cup {c}
    /\ UNCHANGED <<now, registered, results, row, txn, agent, raced>>

LoseResponse(c) ==
    /\ wire[c] > 0
    /\ wire' = [wire EXCEPT ![c] = @ - 1]
    /\ UNCHANGED <<now, registered, results, row, txn, posts, executed, agent, raced>>

\* The LAN relay agent flips the relay (deliver), or drops the event: the stream
\* broke, the device did not answer, the command is not one of RELAY_PATHS.
AgentDelivers(c, flipped) ==
    /\ agent[c] = "event"
    /\ agent' = [agent EXCEPT ![c] = IF flipped THEN "flipped" ELSE "dropped"]
    /\ UNCHANGED <<now, registered, results, row, txn, wire, posts, executed, raced>>

-----------------------------------------------------------------------------
Commit(t) ==
    \/ cancel_commit(t)
    \/ list_pending_commit(t)
    \/ record_result_commit(t)

Next ==
    \/ \E t \in Thread :
          \/ \E c \in Cmd : cancel_read(t, c)
          \/ \E d \in Device : list_pending_read(t, d)
          \/ \E c \in Cmd, s \in ALLOWED_RESULT_STATUSES : record_result_read(t, c, s)
          \/ Commit(t)
    \/ expire_overdue_commands
    \/ \E d \in Device :
          \/ delete_device(d)
          \/ \E c \in Cmd, heard \in BOOLEAN : enqueue(c, d, heard)
    \/ HubRestart
    \/ Tick
    \/ \E c \in Cmd :
          \/ DeviceReceives(c)
          \/ LoseResponse(c)
          \/ \E flipped \in BOOLEAN : AgentDelivers(c, flipped)

Spec == Init /\ [][Next]_vars

\* The clock runs, APScheduler runs the expiry job every 30 s and a request
\* thread finishes what it began.  Operators and devices owe nothing.
Fairness ==
    /\ WF_vars(Tick)
    /\ WF_vars(expire_overdue_commands)
    /\ \A t \in Thread : WF_vars(Commit(t))

FairSpec == Spec /\ Fairness

-----------------------------------------------------------------------------
(* Properties                                                              *)

\* The step puts c in thread t's response.
HandsOff(t, c) ==
    txn[t].op = "deliver" /\ c \in txn[t].rows /\ wire'[c] > wire[c]

TypeOK ==
    /\ now \in 1..MaxTime
    /\ registered \in SUBSET Device
    /\ row \in [Cmd -> CmdRow]
    /\ results \in SUBSET (Cmd \X ALLOWED_RESULT_STATUSES)
    /\ txn \in [Thread -> Txn]
    /\ wire \in [Cmd -> Nat]
    /\ posts \in SUBSET (Cmd \X ALLOWED_RESULT_STATUSES)
    /\ executed \in SUBSET Cmd
    /\ agent \in [Cmd -> {"none", "event", "flipped", "dropped"}]
    /\ raced \in SUBSET Cmd

\* Whatever threads race, the row's timestamps tell a possible story: an
\* acknowledgement (record_result) is never dated before the hand-off
\* (list_pending_for_device) that caused it, and never stands without one.
AckFollowsDelivery ==
    \A c \in Cmd : row[c].ack_received_at # NULL =>
        /\ row[c].delivered_at # NULL
        /\ row[c].delivered_at <= row[c].ack_received_at

\* A row that still reads "pending", and so may be cancelled, is one that no
\* response has carried, no device has executed from one and no delivery has
\* stamped.  (A LAN relay agent may have flipped the relay all the same.)
PendingNeverHandedOff ==
    \A c \in Cmd : row[c].status = "pending" =>
        wire[c] = 0 /\ c \notin executed /\ row[c].delivered_at = NULL

\* The row agrees with command_results: a row is acknowledged exactly when the
\* device's result is recorded, and a final status is one the device reported.
StatusIsReported ==
    \A c \in Cmd : Present(c) =>
        /\ row[c].ack_received_at # NULL <=> \E s \in ALLOWED_RESULT_STATUSES : <<c, s>> \in results
        /\ row[c].status \in {"completed", "failed"} => <<c, row[c].status>> \in results

\* Lost responses, restarts and rollbacks lose no command: before it expires,
\* a command that was not cancelled and that the device has not executed is
\* still offered to it (list_pending_for_device selects the live rows).
UnexecutedStaysLive ==
    \A c \in Cmd :
        /\ Present(c)
        /\ row[c].status # "cancelled"
        /\ c \notin executed
        /\ row[c].expires_at > now
        => Live(c)

\* The rows stay sound however the threads interleave, responses are lost and
\* the process restarts: the row's timestamps, status and results tell one
\* story, what can still be cancelled was never handed to a device, and no
\* command is lost before it expires.
RowsAreSound ==
    /\ AckFollowsDelivery
    /\ PendingNeverHandedOff
    /\ StatusIsReported
    /\ UnexecutedStaysLive

\* Unless two transactions of the command overlap, it is not handed off again
\* within the grace window after the hand-off that stamped delivered_at.
GraceAfterDelivery ==
    [][\A t \in Thread, c \in Cmd \ raced :
          HandsOff(t, c) /\ row[c].delivered_at # NULL
            => txn[t].at >= row[c].delivered_at + Grace]_vars

\* The relay was flipped for the command, by either way.
Acted(c) == c \in executed \/ agent[c] = "flipped"

\* Unless two transactions of the command overlap, a command that
\* cancel_pending_command has cancelled is on its way to no device, and whatever
\* the expiry job and restarts do it was acted on by none, or by a LAN relay
\* agent alone, once, which heard enqueue_for_device publish it: the agent
\* neither asks for the status nor changes it, so against that way to the relay
\* a cancel is no protection.
CancelIsEffective ==
    \A c \in Cmd \ raced :
        row[c].status = "cancelled" =>
            /\ wire[c] = 0
            /\ Acted(c) => agent[c] = "flipped" /\ c \notin executed

\* Unless two transactions of the command overlap, ack_received_at keeps the
\* first POST's time ("Stamp ack_received_at exactly once", record_result).
AckStampedOnce ==
    [][\A c \in Cmd \ raced : row[c].ack_received_at # NULL
          => row'[c].ack_received_at = row[c].ack_received_at]_vars

\* Every live command is settled: acknowledged, cancelled or, at the latest,
\* expired by expire_overdue_commands (or it goes with its device).
LiveSettles == \A c \in Cmd : Live(c) ~> ~Live(c)

=============================================================================
