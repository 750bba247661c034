---------------------------- MODULE DeviceConfig ----------------------------
(***************************************************************************)
(* What a device should be configured as, and how it gets there:           *)
(* services/device_config.py, the structured form, JSON editor and setup   *)
(* picker that write the desired configuration, the pushes that enqueue    *)
(* it, and the heartbeats (services/heartbeats.py) that report what the    *)
(* device runs and detect that it went through a recovery.                 *)
(*                                                                         *)
(* A configuration maps the kinds of setting the editors tell apart to the *)
(* number of the save that set them.  Saving a form, pushing, handling a   *)
(* heartbeat and applying the picker are several transactions each.  The   *)
(* delivery of the enqueued command is the subject of CommandQueue; here   *)
(* the device takes its commands in order, or they expire.                 *)
(***************************************************************************)
EXTENDS Integers, Sequences, FiniteSets

CONSTANTS Threads,    \* threads of the hub that serve requests
          Managed,    \* the device's central_management_enabled
          Modes,      \* the picker's modes; only "smart_plug" has no rule
          Reports,    \* the sets of fields a heartbeat may carry
          MaxSaves,   \* bound: saves of the desired configuration
          MaxPushes,  \* bound: apply_config commands
          MaxEvents   \* bound: operator requests and faults (recoveries, reboots,
                      \* crashes, refused or expired pushes, late heartbeats)

\* What a heartbeat may report of the device here.
Fields == {"cfg", "lkg", "rec"}

ASSUME DeviceConfigAssumption ==
  /\ Reports \subseteq SUBSET Fields /\ Fields \in Reports
  /\ IsFiniteSet(Threads) /\ Managed \in BOOLEAN /\ "smart_plug" \in Modes
  /\ MaxSaves \in Nat /\ MaxPushes \in Nat /\ MaxEvents \in Nat

VARIABLES desired,  \* the desired configuration, how many saves made it, the mode
          page,     \* the device page an operator has open
          wiz,      \* mode -> how many of the picker's rules watch the device
          enabled,  \* the runtime setting desired_config.enabled
          reported, \* the device's last_reported_config and reported_* columns
          queue,    \* the apply_config commands, oldest first
          box,      \* the device
          late,     \* a heartbeat that is held up, if any
          request,  \* worker -> the request it is serving
          crossed,  \* history: {"push"} once two pushes have overlapped
          owed,     \* history: the save a recovered device is owed, or 0
          events

configVars == <<desired, page, wiz, enabled, reported, queue, box, late, request, crossed, owed, events>>

\* A field of the form, a checkbox, the write-only secret, and a sub-key of a
\* block that the form does not show; the last three are keys of one block.
Paths == {"name", "flag", "secret", "extra"}
Blocks == {{"name"}, {"flag", "secret", "extra"}}
Absent == 0
Off == -1  \* an explicit FALSE
Odd == -2  \* what JSON can say and a field cannot: null, an unknown option
Empty == [p \in Paths |-> Absent]
Has(cfg, b) == \E p \in b : cfg[p] # Absent
Free == [op |-> "idle"]
Closed == [open |-> FALSE]

Event == events < MaxEvents /\ events' = events + 1

-----------------------------------------------------------------------------
(* The structured form.                                                    *)

\* The secret is not echoed; a null, an unknown option and a sub-key that has no
\* field leave nothing in the form.
desired_config_to_form_values(cfg) ==
  [p \in Paths |-> IF p \in {"secret", "extra"} \/ cfg[p] = Odd THEN Absent ELSE cfg[p]]

\* An empty field is no key, a blank secret keeps the stored one, and an
\* unchecked box is an explicit FALSE, whether or not there was one before.
build_desired_config_from_form(form, existing) ==
  [p \in Paths |-> CASE p = "flag" /\ form[p] = Absent -> Off
                     [] p = "secret" /\ form[p] = Absent -> existing[p]
                     [] OTHER -> form[p]]

\* Mutant: only the top-level keys are looked at.
AnyRepresentable(cfg) == TRUE

is_form_representable(cfg) == cfg["extra"] = Absent

-----------------------------------------------------------------------------
(* Saving the desired configuration.                                       *)

\* The page shows the JSON, and the form if it can hold the configuration.
device_detail_page ==
  /\ page = Closed
  /\ page' = [open |-> TRUE, cfg |-> desired.cfg, base |-> desired.ver,
              form |-> is_form_representable(desired.cfg)]
  /\ UNCHANGED <<desired, wiz, enabled, reported, queue, box, request, crossed, owed, late, events>>

Saving == Cardinality({w \in Threads : request[w].op = "set"})
New == desired.ver + Saving + 1

FormOf(cfg, p, v) == [desired_config_to_form_values(cfg) EXCEPT ![p] = v]

\* The operator changes one setting, in the form or in the JSON.  The form's
\* handler reads the stored configuration for its secret, and writes in another
\* transaction.
device_desired_config_save_submit(w, form, p, v) ==
  /\ page.open /\ request[w] = Free /\ Event /\ New <= MaxSaves
  /\ form => page.form /\ p # "extra" /\ v # Odd
  /\ v = Odd => p = "name"
  /\ request' = [request EXCEPT ![w] =
       [op |-> "set", base |-> page.base, path |-> p, form |-> form, mode |-> desired.mode,
        cfg |-> IF form THEN build_desired_config_from_form(FormOf(page.cfg, p, v), desired.cfg)
                ELSE [page.cfg EXCEPT ![p] = v]]]
  /\ page' = Closed
  /\ UNCHANGED <<desired, wiz, enabled, reported, queue, box, crossed, owed, late>>

\* The setup picker replaces the whole configuration.
apply_picker(v) == [Empty EXCEPT !["name"] = v]

device_configure_submit(w, m) ==
  /\ request[w] = Free /\ Event /\ New <= MaxSaves
  /\ request' = [request EXCEPT ![w] =
       [op |-> "set", base |-> 0, path |-> "name", form |-> FALSE, mode |-> m,
        cfg |-> apply_picker(New)]]
  /\ UNCHANGED <<desired, page, wiz, enabled, reported, queue, box, crossed, owed, late>>

Picks(j) == j.base = 0 /\ j.mode # "smart_plug"

set_desired_config(w) ==
  LET j == request[w]
  IN /\ j.op = "set"
     /\ desired' = [cfg |-> j.cfg, ver |-> desired.ver + 1, mode |-> j.mode]
     /\ owed' = IF j.cfg = Empty THEN 0 ELSE owed
     /\ request' = [request EXCEPT ![w] = IF Picks(j) THEN [op |-> "find", mode |-> j.mode] ELSE Free]
     /\ UNCHANGED <<page, wiz, enabled, reported, queue, box, crossed, late, events>>

find_prior_wizard_rule(m) == IF wiz[m] > 0 THEN 1 ELSE 0

\* The picker looks for the rule of an earlier run, and deletes it ...
replace_rule(w) ==
  /\ request[w].op = "find"
  /\ wiz' = [wiz EXCEPT ![request[w].mode] = @ - find_prior_wizard_rule(request[w].mode)]
  /\ request' = [request EXCEPT ![w].op = "create"]
  /\ UNCHANGED <<desired, page, enabled, reported, queue, box, crossed, owed, late, events>>

\* ... and creates the new one, unless it does not validate.
create_wizard_rule(w) ==
  /\ request[w].op = "create"
  /\ wiz' \in {wiz, [wiz EXCEPT ![request[w].mode] = @ + 1]}
  /\ request' = [request EXCEPT ![w] = Free]
  /\ UNCHANGED <<desired, page, enabled, reported, queue, box, crossed, owed, late, events>>

-----------------------------------------------------------------------------
(* History: what a device that came out of a recovery is still to get.     *)

\* A push under way that brings what is owed.
Coming(reqs, commands, next) ==
  \/ \E w \in Threads : reqs[w].op = "push" \/ (reqs[w].op = "enqueue" /\ reqs[w].load.ver >= owed)
  \/ \E i \in DOMAIN commands : i >= next /\ commands[i].ver >= owed

\* The edges between what the hub has recorded and what the device has.
Restored(b) == b.lkg /\ ~reported.lkg
Recovered(b) == reported.rec /\ ~b.rec

\* After a fault that leaves no push on its way and no edge to see, nothing is owed.
StillOwed(reqs, b) == owed' = IF Coming(reqs, queue, b.next) \/ Restored(b) \/ Recovered(b) THEN owed ELSE 0

-----------------------------------------------------------------------------
(* Pushing it.                                                             *)

\* Mutant: the configuration read when the request began is pushed.
SeenAtStart(w) == request[w].seen

Payload(w) == [cfg |-> desired.cfg, ver |-> desired.ver]

Pushing == {v \in Threads : request[v].op = "enqueue"}

device_desired_config_push_submit(w) ==
  /\ request[w] = Free /\ Event /\ Len(queue) < MaxPushes
  /\ request' = [request EXCEPT ![w] = [op |-> "push", seen |-> [cfg |-> desired.cfg, ver |-> desired.ver]]]
  /\ UNCHANGED <<desired, page, wiz, enabled, reported, queue, box, crossed, owed, late>>

\* One transaction reads the configuration, the next enqueues it (and a third
\* stamps last_config_pushed_at).
push_desired_config(w) ==
  /\ request[w].op = "push"
  /\ request' = [request EXCEPT ![w] = IF ~Managed \/ desired.cfg = Empty \/ Len(queue) >= MaxPushes
                               THEN Free
                               ELSE [op |-> "enqueue", load |-> Payload(w)]]
  /\ crossed' = IF Pushing # {} THEN crossed \cup {"push"} ELSE crossed
  /\ IF Len(queue) >= MaxPushes THEN StillOwed(request', box) ELSE UNCHANGED owed
  /\ UNCHANGED <<desired, page, wiz, enabled, reported, queue, box, late, events>>

push_enqueue(w) ==
  /\ request[w].op = "enqueue"
  /\ queue' = Append(queue, request[w].load)
  /\ request' = [request EXCEPT ![w] = Free]
  /\ UNCHANGED <<desired, page, wiz, enabled, reported, box, crossed, owed, late, events>>

\* The enqueue is refused or fails: the push is logged, and not tried again.
push_fails(w) ==
  /\ request[w].op = "enqueue" /\ Event
  /\ request' = [request EXCEPT ![w] = Free]
  /\ StillOwed(request', box)
  /\ UNCHANGED <<desired, page, wiz, enabled, reported, queue, box, crossed, late>>

-----------------------------------------------------------------------------
(* Heartbeats.                                                             *)

\* The configuration is reported without its secrets.
Heartbeat(fields) ==
  [f \in fields |-> IF f = "cfg" THEN [box.cfg EXCEPT !["secret"] = Absent] ELSE box[f]]

Refreshed(hb) == [f \in Fields |-> IF f \in DOMAIN hb THEN hb[f] ELSE reported[f]]

\* Mutant: the columns are compared after they were refreshed.
TriggerTooLate(hb) ==
  \/ ~Refreshed(hb).lkg /\ Refreshed(hb).lkg
  \/ Refreshed(hb).rec /\ ~Refreshed(hb).rec

\* A restored last-known-good configuration, or the end of a recovery.
recovery_trigger(hb) ==
  \/ ~reported.lkg /\ Refreshed(hb).lkg
  \/ reported.rec /\ ~Refreshed(hb).rec

is_feature_enabled == enabled

maybe_push_after_recovery(w) ==
  IF is_feature_enabled
  THEN [request EXCEPT ![w] = [op |-> "push", seen |-> [cfg |-> desired.cfg, ver |-> desired.ver]]]
  ELSE request

\* The push after a recovery comes after the heartbeat's commit.
record_heartbeat(w, hb) ==
  /\ request[w] = Free
  /\ reported' = Refreshed(hb)
  /\ request' = IF recovery_trigger(hb) THEN maybe_push_after_recovery(w) ELSE request
  /\ UNCHANGED <<desired, page, wiz, enabled, queue, box, crossed, owed, events>>

heartbeat(w, fields) == record_heartbeat(w, Heartbeat(fields)) /\ UNCHANGED late

\* A heartbeat is held up on its way, and recorded after younger ones.
heartbeat_delayed ==
  /\ late = {} /\ Event
  /\ late' = {Heartbeat(Fields)}
  /\ UNCHANGED <<desired, page, wiz, enabled, reported, queue, box, request, crossed, owed>>

late_heartbeat(w) ==
  /\ late' = {}
  /\ \E hb \in late : record_heartbeat(w, hb)

\* A restart of the hub between the heartbeat's commit and its push, or in the
\* middle of any other request.
crash ==
  /\ Event /\ \E w \in Threads : request[w] # Free
  /\ request' = [w \in Threads |-> Free]
  /\ StillOwed(request', box)
  /\ UNCHANGED <<desired, page, wiz, enabled, reported, queue, box, crossed, late>>

\* Blocks are compared as a whole.
Asked == {b \in Blocks : Has(desired.cfg, b)}

compute_drift ==
  LET have == {b \in Blocks : Has(reported.cfg, b)}
  IN [missing |-> Asked \ have,
      mismatch |-> {b \in Asked \cap have : \E p \in b : reported.cfg[p] # desired.cfg[p]},
      extra |-> have \ Asked]

\* Mutant: a setting the device does not report is no drift.
InSyncIfReported == compute_drift.mismatch = {}

in_sync == compute_drift.missing = {} /\ compute_drift.mismatch = {}

-----------------------------------------------------------------------------
(* The device.                                                             *)

Merged(cfg) == [p \in Paths |-> IF cfg[p] \notin {Absent, Odd} THEN cfg[p] ELSE box.cfg[p]]

\* It applies the next command and keeps what it had as last known good.
ApplyConfig ==
  LET c == queue[box.next]
  IN /\ box.next <= Len(queue)
     /\ box' = [box EXCEPT !.cfg = Merged(c.cfg), !.good = box.cfg, !.next = @ + 1]
     /\ owed' = IF c.ver >= owed THEN 0 ELSE owed
     /\ UNCHANGED <<desired, page, wiz, enabled, reported, queue, request, crossed, late, events>>

\* A command expires before the device has it.
Expire ==
  /\ box.next <= Len(queue) /\ Event
  /\ box' = [box EXCEPT !.next = @ + 1]
  /\ StillOwed(request, box')
  /\ UNCHANGED <<desired, page, wiz, enabled, reported, queue, request, crossed, late>>

\* Unhealthy boots: the device goes into recovery, then comes out of it, with
\* its last known good configuration or with what it had.
EnterRecovery ==
  /\ ~box.rec /\ Event
  /\ box' = [box EXCEPT !.rec = TRUE]
  /\ StillOwed(request, box')
  /\ UNCHANGED <<desired, page, wiz, enabled, reported, queue, request, crossed, late>>

\* The hub can see it, unless a restoration or a recovery before it is what it
\* has recorded.
LeaveRecovery(restores) ==
  /\ box.rec
  /\ box' = [box EXCEPT !.rec = FALSE, !.lkg = @ \/ restores,
                        !.cfg = IF restores THEN box.good ELSE @]
  /\ owed' = IF enabled /\ Managed /\ desired.cfg # Empty /\ (Restored(box') \/ Recovered(box'))
             THEN desired.ver ELSE owed
  /\ UNCHANGED <<desired, page, wiz, enabled, reported, queue, request, crossed, late, events>>

\* An ordinary boot clears the flag, whether or not a heartbeat has told of it.
Reboot ==
  /\ box.lkg /\ Event
  /\ box' = [box EXCEPT !.lkg = FALSE]
  /\ StillOwed(request, box')
  /\ UNCHANGED <<desired, page, wiz, enabled, reported, queue, request, crossed, late>>

-----------------------------------------------------------------------------
\* The device has been given a configuration once, by one of the editors.
ConfigInit ==
  /\ \E kept \in {{"secret"}, {"extra"}} :
       desired = [cfg |-> [p \in Paths |-> IF p \in kept \cup {"name"} THEN 1 ELSE Absent],
                  ver |-> 1, mode |-> "smart_plug"]
  /\ page = Closed /\ wiz = [m \in Modes |-> 0] /\ enabled \in BOOLEAN
  /\ box = [cfg |-> Empty, good |-> Empty, lkg |-> FALSE, rec |-> FALSE, next |-> 1]
  /\ reported = [cfg |-> Empty, lkg |-> FALSE, rec |-> FALSE]
  /\ queue = <<>> /\ late = {} /\ request = [w \in Threads |-> Free]
  /\ crossed = {} /\ owed = 0 /\ events = 0

OperatorNext(w) ==
  \/ \E form \in BOOLEAN, p \in Paths, v \in {Absent, Odd, New} :
       device_desired_config_save_submit(w, form, p, v)
  \/ \E m \in Modes : device_configure_submit(w, m)
  \/ device_desired_config_push_submit(w)

HubNext(w) ==
  \/ set_desired_config(w) \/ replace_rule(w) \/ create_wizard_rule(w)
  \/ push_desired_config(w) \/ push_enqueue(w) \/ push_fails(w) \/ late_heartbeat(w)

DeviceNext ==
  \/ \E w \in Threads, fields \in Reports : heartbeat(w, fields)
  \/ heartbeat_delayed \/ ApplyConfig \/ Expire \/ EnterRecovery \/ Reboot
  \/ \E restores \in BOOLEAN : LeaveRecovery(restores)

ConfigNext ==
  \/ device_detail_page \/ crash \/ DeviceNext
  \/ \E w \in Threads : OperatorNext(w) \/ HubNext(w)

\* Requests finish, the device takes its commands and its full heartbeats get
\* through now and then; nothing is assumed of operators or faults.
ConfigFairness ==
  /\ \A w \in Threads : WF_configVars(HubNext(w))
  /\ WF_configVars(ApplyConfig)
  /\ SF_configVars(\E w \in Threads : heartbeat(w, Fields))

ConfigSpec == ConfigInit /\ [][ConfigNext]_configVars /\ ConfigFairness

-----------------------------------------------------------------------------
(* Properties.                                                             *)

\* As a form keeps it: the same, or a null dropped, or an unset box made explicit.
Kept(old, new, p) ==
  new[p] = old[p] \/ old[p] = Odd \/ (p = "flag" /\ old[p] = Absent /\ new[p] = Off)

\* A save from the structured form changes the setting the operator changed, the
\* unset checkboxes (to an explicit FALSE) and what a field cannot hold (nulls,
\* unknown options), and no other: hidden sub-keys and the secret are kept,
\* unless the configuration was saved by somebody else after the page was opened.
FormKeepsConfig ==
  [][\A w \in Threads :
       set_desired_config(w) /\ request[w].form /\ request[w].base = desired.ver
         => \A p \in Paths \ {request[w].path} : Kept(desired.cfg, desired'.cfg, p)]_configVars

\* A device is never told to go back to an older configuration after a newer
\* one, unless two pushes overlapped between their read and their enqueue.
PushesMoveForward ==
  \A i, j \in DOMAIN queue : i < j /\ queue[i].ver > queue[j].ver => "push" \in crossed

\* The drift shown for a device is never wrong for good: whatever was saved,
\* pushed, restored or reported late, the verdict keeps coming back to whether
\* the device has every block the operator asked for, exactly as asked; a
\* configuration with a secret, which no device reports, is always in drift.
DriftVerdictSettles ==
  []<>(in_sync <=> /\ desired.cfg["secret"] = Absent
                   /\ \A b \in Asked : \A p \in b \ {"secret"} : box.cfg[p] = desired.cfg[p])

\* A device whose recovery the hub can see is sent the desired configuration
\* of that time or a later one (maybe_push_after_recovery), unless a restart of
\* the hub, a refused or expired command, or a boot or a recovery before the hub
\* has seen this one leave no push on its way and nothing to see.
RecoveryIsRepaired == []<>(owed = 0)

=============================================================================
