---------------------------- MODULE PowerControl ----------------------------
(***************************************************************************)
(* What power commands do to a device: the enqueueing half of              *)
(* app/services/commands.py with its lockout (is_protected) and hold-off   *)
(* (is_held_off) rules, the group fan-out, the two automations that        *)
(* enqueue (watchdog actions, scheduled power cycles) and the relay.       *)
(*                                                                         *)
(* Enqueueing is a transaction of two steps, as in CommandQueue: it reads  *)
(* the devices' flags, and later INSERTs the commands and UPDATEs the flag *)
(* where it differs from what was read.  Delivery, whose transactions      *)
(* CommandQueue has in full, is one step here; the timings that decide     *)
(* whether a row is offered again (grace, expiry) are left open.           *)
(***************************************************************************)
EXTENDS Integers, Sequences, SequencesExt, FiniteSetsExt

CONSTANTS
    Device,       \* device ids
    Thread,       \* HTTP threads and the scheduler's thread
    Type,         \* command types in use
    MaxCommands   \* bound on the commands of a device

_POWER_TYPES == {"relay_on", "relay_off", "relay_toggle", "relay_cycle",
                 "device_restart"}
_POWER_ON_TYPES == {"relay_on", "relay_toggle", "relay_cycle"}

ASSUME PowerAssumption ==
    /\ Type \subseteq _POWER_TYPES \cup {"apply_config"}
    /\ MaxCommands \in Nat

VARIABLES
    dev,      \* the devices table
    members,  \* the devices of the group
    queue,    \* the commands of each device, in the order of created_at
    relay,    \* is the device's outlet powered (external)
    txn,      \* what each thread's open transaction has read
    raced     \* history: devices that two requests have worked on at once

vars == <<dev, members, queue, relay, txn, raced>>

\* What a caller asks enqueue_for_device or enqueue_for_group for.
Request == [type: Type, override: BOOLEAN, hold: BOOLEAN,
            by: {"operator", "automation"}]

\* A commands row.  The last three fields are history: who asked for what, the
\* deliveries and the execution.
Command == [status: {"pending", "accepted", "reported", "expired", "cancelled"},
            req: Request, deliveries: 0..2, executed: BOOLEAN]

Idle == [op |-> "idle"]

\* The flags as read, of the devices that will get a command.
Enqueueing == UNION {[op: {"enqueue"}, req: Request, seen: [ds -> BOOLEAN]] :
                       ds \in SUBSET Device}

Init ==
    /\ dev = [d \in Device |-> [exists |-> TRUE, is_protected |-> FALSE,
                                is_held_off |-> FALSE]]
    /\ members = {}
    /\ queue = [d \in Device |-> <<>>]
    /\ relay = [d \in Device |-> TRUE]
    /\ txn = [t \in Thread |-> Idle]
    /\ raced = {}

-----------------------------------------------------------------------------
(* Enqueueing                                                              *)

LockedOut(d, req) ==
    req.type \in _POWER_TYPES /\ dev[d].is_protected /\ ~req.override

\* An open transaction has read d's row.
Held(d) == \E u \in Thread : txn[u].op = "enqueue" /\ d \in DOMAIN txn[u].seen

HasRoom(d) == Len(queue[d]) < MaxCommands

Begin(t, req, targets) ==
    /\ txn[t] = Idle
    /\ targets # {}
    /\ \A d \in targets : HasRoom(d)
    /\ txn' = [txn EXCEPT ![t] =
                 [op |-> "enqueue", req |-> req,
                  seen |-> [d \in targets |-> dev[d].is_held_off]]]
    /\ raced' = raced \cup {d \in targets : Held(d)}
    /\ UNCHANGED <<dev, members, queue, relay>>

\* LookupError and DeviceLockedError end the call without a write.
enqueue_for_device(t, d, req) ==
    /\ dev[d].exists
    /\ ~LockedOut(d, req)
    /\ Begin(t, req, {d})

\* Mutant: the fan-out does not look at is_protected.
enqueue_for_group_unlocked(t, req) ==
    /\ ~req.hold
    /\ Begin(t, req, {d \in members : dev[d].exists})

\* Members that are locked out are skipped; the fan-out never sets a hold-off.
enqueue_for_group(t, req) ==
    /\ ~req.hold
    /\ Begin(t, req, {d \in members : dev[d].exists /\ ~LockedOut(d, req)})

\* Mutant: only relay_on clears the hold-off.
HeldOff_relay_on_only(d, seen, req) ==
    IF req.hold THEN (IF seen THEN dev[d].is_held_off ELSE TRUE)
    ELSE IF req.type = "relay_on" /\ seen THEN FALSE
    ELSE dev[d].is_held_off

\* The UPDATE of is_held_off: written only where it differs from what was read.
HeldOff(d, seen, req) ==
    IF req.hold THEN (IF seen THEN dev[d].is_held_off ELSE TRUE)
    ELSE IF req.type \in _POWER_ON_TYPES /\ seen THEN FALSE
    ELSE dev[d].is_held_off

NewCommand(req) ==
    [status |-> "pending", req |-> req, deliveries |-> 0, executed |-> FALSE]

\* One device deleted meanwhile (foreign key) rolls all of it back.
enqueue_commit(t) ==
    LET x == txn[t]
        targets == DOMAIN x.seen
    IN  /\ x.op = "enqueue"
        /\ IF \A d \in targets : dev[d].exists
           THEN /\ \A d \in targets : HasRoom(d)   \* bound
                /\ queue' = [d \in Device |->
                               IF d \in targets
                               THEN Append(queue[d], NewCommand(x.req))
                               ELSE queue[d]]
                /\ dev' = [d \in Device |->
                             IF d \in targets
                             THEN [dev[d] EXCEPT !.is_held_off = HeldOff(d, x.seen[d], x.req)]
                             ELSE dev[d]]
           ELSE UNCHANGED <<dev, queue>>
        /\ txn' = [txn EXCEPT ![t] = Idle]
        /\ UNCHANGED <<members, relay, raced>>

\* The requests of the callers: an operator's (devices_api, groups), and those
\* of _fire_cycle, _fire_relay_set, _fire_hold_off and _fire_power_cycle.
OperatorRequest == [type: Type, override: BOOLEAN, hold: BOOLEAN, by: {"operator"}]

AutomationRequest ==
    {[type |-> "relay_off", override |-> FALSE, hold |-> TRUE, by |-> "automation"]} \cup
    [type: {"relay_on", "relay_off", "relay_cycle"}, override: {FALSE},
     hold: {FALSE}, by: {"automation"}]

send_device_command(t) ==
    \E d \in Device, req \in OperatorRequest : enqueue_for_device(t, d, req)

send_group_command(t) ==
    \E req \in OperatorRequest : enqueue_for_group(t, req)

automation_fires(t) ==
    \E d \in Device, req \in {r \in AutomationRequest : r.type \in Type} :
        enqueue_for_device(t, d, req)

-----------------------------------------------------------------------------
(* Other requests; a thread serves one at a time                           *)

update_device(t, d, is_protected) ==
    /\ txn[t] = Idle
    /\ dev[d].exists
    /\ dev[d].is_protected # is_protected
    /\ dev' = [dev EXCEPT ![d].is_protected = is_protected]
    /\ raced' = raced \cup {e \in {d} : Held(e)}
    /\ UNCHANGED <<members, queue, relay, txn>>

\* The rows and memberships go with the device (ON DELETE CASCADE).
delete_device(t, d) ==
    /\ txn[t] = Idle
    /\ dev[d].exists
    /\ dev' = [dev EXCEPT ![d].exists = FALSE]
    /\ queue' = [queue EXCEPT ![d] = <<>>]
    /\ members' = members \ {d}
    /\ UNCHANGED <<relay, txn, raced>>

add_members(t, d) ==
    /\ txn[t] = Idle
    /\ dev[d].exists
    /\ d \notin members
    /\ members' = members \cup {d}
    /\ UNCHANGED <<dev, queue, relay, txn, raced>>

remove_member(t, d) ==
    /\ txn[t] = Idle
    /\ d \in members
    /\ members' = members \ {d}
    /\ UNCHANGED <<dev, queue, relay, txn, raced>>

cancel_pending_command(t, d, i) ==
    /\ txn[t] = Idle
    /\ queue[d][i].status = "pending"
    /\ queue' = [queue EXCEPT ![d][i].status = "cancelled"]
    /\ UNCHANGED <<dev, members, relay, txn, raced>>

-----------------------------------------------------------------------------
(* Delivery and execution                                                  *)

Live(c) == c.status \in {"pending", "accepted"}
LiveRows(d) == {i \in DOMAIN queue[d] : Live(queue[d][i])}

MarkDelivered(c) ==
    [c EXCEPT !.status = "accepted", !.deliveries = Min({2, @ + 1})]

\* The response with these rows is lost on the way.
delivery_lost(d, rows) ==
    /\ rows # {}
    /\ queue' = [queue EXCEPT ![d] =
                   [i \in DOMAIN @ |-> IF i \in rows THEN MarkDelivered(@[i]) ELSE @[i]]]
    /\ UNCHANGED <<dev, members, relay, txn, raced>>

\* The relay after the device has executed these rows in order: the last one
\* that opens or closes it counts (a cycle ends with the relay closed), and
\* the toggles that follow it.
CarriedOut(d, rows) ==
    LET OfType(types) == {i \in rows : queue[d][i].req.type \in types}
        settings == OfType({"relay_on", "relay_cycle", "relay_off"})
        last == Max(settings \cup {0})
        powered == IF last = 0 THEN relay[d] ELSE queue[d][last].req.type # "relay_off"
        toggles == {i \in OfType({"relay_toggle"}) : i > last}
    IN  IF Cardinality(toggles) % 2 = 0 THEN powered ELSE ~powered

\* The device executes them; the final results of some reach the hub.
delivery(d, rows, reported) ==
    LET Row(i) == IF i \notin rows THEN queue[d][i]
                  ELSE [MarkDelivered(queue[d][i]) EXCEPT
                          !.executed = TRUE,
                          !.status = IF i \in reported THEN "reported" ELSE @]
    IN  /\ rows # {}
        /\ queue' = [queue EXCEPT ![d] = [i \in DOMAIN @ |-> Row(i)]]
        /\ relay' = [relay EXCEPT ![d] = CarriedOut(d, rows)]
        /\ UNCHANGED <<dev, members, txn, raced>>

expire_overdue_commands(d, i) ==
    /\ i \in LiveRows(d)
    /\ queue' = [queue EXCEPT ![d][i].status = "expired"]
    /\ UNCHANGED <<dev, members, relay, txn, raced>>

\* Mutant: no ORDER BY created_at, and a LIMIT.
Offered_any(d) == SUBSET LiveRows(d)

\* list_pending_for_device: all pending rows; an accepted one once its grace
\* is over, and then every accepted row that was delivered before it.
Offered(d) ==
    {rows \in SUBSET LiveRows(d) :
        /\ \A i \in LiveRows(d) : queue[d][i].status = "pending" => i \in rows
        /\ \A i, j \in LiveRows(d) : j \in rows /\ i < j => i \in rows
                                     \/ queue[d][j].status = "pending"}

HubRestart ==
    /\ \E t \in Thread : txn[t] # Idle
    /\ txn' = [t \in Thread |-> Idle]
    /\ UNCHANGED <<dev, members, queue, relay, raced>>

-----------------------------------------------------------------------------
Next ==
    \/ \E t \in Thread :
          \/ send_device_command(t) \/ send_group_command(t) \/ automation_fires(t)
          \/ enqueue_commit(t)
          \/ \E d \in Device :
                \/ \E b \in BOOLEAN : update_device(t, d, b)
                \/ delete_device(t, d)
                \/ add_members(t, d) \/ remove_member(t, d)
                \/ \E i \in DOMAIN queue[d] : cancel_pending_command(t, d, i)
    \/ \E d \in Device :
          \/ \E rows \in Offered(d) :
                \/ delivery_lost(d, rows)
                \/ \E reported \in SUBSET rows : delivery(d, rows, reported)
          \/ \E i \in DOMAIN queue[d] : expire_overdue_commands(d, i)
    \/ HubRestart

Spec == Init /\ [][Next]_vars

-----------------------------------------------------------------------------
(* Properties                                                              *)

TypeOK ==
    /\ dev \in [Device -> [exists: BOOLEAN, is_protected: BOOLEAN, is_held_off: BOOLEAN]]
    /\ members \in SUBSET Device
    /\ DOMAIN queue = Device
    /\ \A d \in Device : Len(queue[d]) <= MaxCommands
                         /\ \A i \in DOMAIN queue[d] : queue[d][i] \in Command
    /\ relay \in [Device -> BOOLEAN]
    /\ txn \in [Thread -> {Idle} \cup Enqueueing]
    /\ raced \in SUBSET Device

\* The step inserts a command for d.
Inserts(d) == Len(queue'[d]) > Len(queue[d])
Inserted(d) == queue'[d][Len(queue'[d])]

\* The commands that decide a device's hold-off: hold-offs and power-ons.
Deciding(d) == {i \in DOMAIN queue[d] :
                  queue[d][i].req.hold \/ queue[d][i].req.type \in _POWER_ON_TYPES}

Decider(d) == queue[d][Max(Deciding(d))]

HeldByCommand(d) == Deciding(d) # {} /\ Decider(d).req.hold

\* Unless two requests for the device overlap, "Power-on commands automatically
\* clear is_held_off" and nothing else does: the flag says whether the newest
\* deciding command, of any caller, is a hold-off.
HoldOffFollowsCommands ==
    \A d \in Device \ raced :
        dev[d].exists => (dev[d].is_held_off <=> HeldByCommand(d))

\* Unless an edit overlaps the request, no caller (operator, group fan-out,
\* automation) gets a power command past the lockout without override_lockout.
LockoutHolds ==
    [][\A d \in Device \ raced :
          Inserts(d) /\ dev[d].is_protected /\ Inserted(d).req.type \in _POWER_TYPES
              => Inserted(d).req.override]_vars

\* The device has carried out the relay_off of its hold-off.
OffAndHeld(d) ==
    /\ dev[d].exists /\ dev[d].is_held_off
    /\ HeldByCommand(d)
    /\ Decider(d).req.type = "relay_off"
    /\ Decider(d).executed
    /\ ~relay[d]

Redelivered(d) == \E i \in DOMAIN queue[d] : queue[d][i].deliveries > 1

\* Requirement R-CTRL-3, "the device powers off and stays off until an operator
\* explicitly issues a power-on": while the hold-off stands, what the hub
\* delivers does not power the outlet, as long as no command of the device has
\* been delivered twice and no two requests for it overlap.
HeldOffStaysOff ==
    [][\A d \in Device \ raced :
          OffAndHeld(d) /\ dev'[d].is_held_off /\ ~Redelivered(d)' => ~relay'[d]]_vars

=============================================================================
