# Rebooter hub: a TLA+ verification project

The hub is a Flask application (`src/app`) over PostgreSQL that coordinates
network-attached power outlets ("Rebooter" plugs). One gunicorn process serves
HTTP with a pool of threads (`gunicorn.conf.py`: one worker, eight threads) and
runs an in-process APScheduler (`jobs/scheduler.py`). Every service function is
one `session_scope()` (`app/db.py`): it opens a READ COMMITTED transaction,
SELECTs rows, decides in Python, and flushes and commits at the end. SQLAlchemy
writes only the columns that changed since they were read; there are no version
columns, and row locks only where a token is consumed. So the same question
comes back in every component: *what was read is not necessarily still so when
it is written*. That, together with lost or repeated messages, restarts between
two transactions of one job, and clocks, is what these modules are about.

## 1. Inventory

| component (source under `src/app`) | state | operations | interacts with | hard behaviour | what makes it correct |
|---|---|---|---|---|---|
| command queue (`services/commands.py`) | `commands`, `command_results` | enqueue for a device or group, cancel, list pending (marks delivered), record result, expire | device endpoints call delivery and result; operators, watchdog, schedules and scenes enqueue | unlocked read-then-write; lost responses; repeated and late POSTs; grace window; TTL | no unexecuted command is lost; a cancelled one is not executed; row and results agree; every command settles |
| power control (`services/commands.py`, `devices/_mutations.py`, `groups.py`) | `devices.is_protected`, `is_held_off`, group membership | enqueue's lockout and hold-off rules, edits, deletion, fan-out | queue, automation, relay | flags read at one time and written at another; redelivery | lockout respected by every caller; the hold-off flag and the relay follow the commands |
| watchdog (`services/watchdog`, `services/watchdog_runtime`) | `watchdog_rules`: streaks, status, cooldown, last outcome | create, update, enable, delete; the tick: probe, count, fire, apply bindings | enqueues commands in transactions of their own; maintenance flag | a tick lasts as long as its probes, while operators edit; crash between action and bookkeeping | fires on the threshold and outside the cooldown, re-arms, binding follows its probe |
| schedules (`services/schedules.py`, `schedule_runtime.py`) | `schedules`: next and last run | tick fires power cycles, reconciles the maintenance flag | enqueue, maintenance flag | commands commit before `last_run_at`; operator toggles against reconciliation | every due run fires once; operator's override respected in its window |
| maintenance flag (`services/runtime_flags.py`) | one row | set, read | watchdog reads, schedules and operators write | two writers | as above |
| enrollment and adoption (`enrollment.py`, `announcements.py`) | tokens, announcements, devices | announce (with auto-rebind), adopt, restore, reject, register, revoke | devices | separate transactions for token, registration and announcement; a row lock on the token only | a token registers one device; no used token stays on offer; a known plug gets back in |
| hub sync (`sync.py`, `sync_emission.py`, `sync_replicator.py`) | outbox, cursors, tombstones | emit, fetch, apply | peers | reordering, equal timestamps, failures inside a batch, uncommitted sequence numbers | copies only move to newer writes; hubs converge; deleted rows stay deleted |
| webhook delivery (`webhook_delivery.py`, `notifications.py`) and the outbound guard (`ssrf_guard.py`) | channels, subscriptions, deliveries | emit, send, retry, test | rules, third parties, the name service | send before commit, retries and limits, names that change their address | a row is delivered once up to a lost outcome, retried a bounded number of times, and only to permitted addresses |
| firmware (`firmware.py`, `deployments.py`) | files, releases, assignments | upload, scan, delete, deploy, offer, mark delivered, report | heartbeats, devices | files and rows written separately; offer and mark in two transactions | a release serves the image it was hashed from; the newest deployment wins and ends |
| heartbeats and device configuration (`heartbeats.py`, `device_config.py`, `setup_wizard.py`) | desired and reported configuration, recovery state | save by form, editor or picker, push, report, repair after recovery | command queue, devices | stale pages, overlapping pushes, late heartbeats | the operator's settings survive, reach the device and are judged rightly |
| accounts (`users`, `invitations`, `password_resets`, `signup_requests`, `sessions`, `auth`) | users, sessions, single-use tokens | sign in and out, change and reset a password, invite, redeem, sign up, review | every page | check-then-write, some of it without a lock; cut-offs in whole seconds | an ended session stays ended; tokens are used once |
| access control (`tenant_scope`, `role_bindings`, `rbac_filter`, `org_membership`, `api_tokens`) | bindings, memberships, the enforcement mode and its cached copy, the scope of each thread | bind and release a scope, filter reads, guard writes, backfill | every query | threads reused between requests; a cache with a TTL | a request touches its own organizations' rows only |
| external sensors (`external_sensors`, `mqtt_subscriber.py`, sensor probes) | sources, samples | poll, test, receive, query, probe | watchdog | slow and overlapping polls, dead pollers, counter resets | silence and resets are no evidence; every source is polled |
| event bus (`event_bus.py`), LAN relay agent (`tools/lan-relay-agent.py`) | subscribers' queues, in memory | publish, listen, flip a relay | the queue publishes, the agent talks to devices in its own network | a second way to the relay, beside the row | no command is lost by it, and only it acts on a cancelled one |
| scenes, backup, audit, dashboards, mail, pages | see `PROJECT.json` | | | | |

The hazards that follow from this, each at its line with the properties that
watch it, are listed under `hazards` in `PROJECT.json`.

## 2. Modules

| module | models | run |
|---|---|---|
| `CommandQueue` | the queue and the device endpoints that drain it, transaction by transaction | `queue_races` |
| `PowerControl` | lockout, hold-off, group fan-out, automation, deletion and the relay | `power_races` |
| `WatchdogRule` | rule edits against the tick: probing, streaks, cooldown, bindings, restarts | `rule_ticks` |
| `Schedule` | schedules, their tick and the maintenance flag it reconciles | `schedule_ticks` |
| `Enrollment` | announcements, adoption, tokens, registration, and the plug | `adoption` |
| `SyncRegister` | abstract: last-writer-wins copies on several hubs | refined by `HubSync` |
| `HubSync` | emission, outbox, replicator, applier, tombstones | `hub_sync` |
| `Firmware` | release files and rows, deployments, the installing device | `firmware_rollout` |
| `DeviceConfig` | desired configuration, pushes, heartbeats, drift and recovery | `device_config` |
| `Notifications` | channels, subscriptions, the delivery worker and the outbound guard | `notify` |
| `Accounts` | credentials, sessions, password resets, invitations, sign-ups | `accounts` |
| `TenantScope` | the organization boundary on reused threads, and its cached switch | `tenant_scope` |
| `Sensors` | external sources, their pollers and inbound writers, the sensor probes | `sensors` |
| `CommandQueueProofs`, `EnrollmentProofs`, `HubSyncProofs`, `NotificationsProofs`, `AccountsProofs`, `TenantScopeProofs` | TLAPS proofs about the module they are named after | tlapm |
| `AutomationProofs` | TLAPS proofs about `PowerControl`, `Schedule` and `Sensors` | tlapm |
| `FleetProofs` | TLAPS proofs about `WatchdogRule`, `Firmware` and `DeviceConfig` | tlapm |
| `MC...` | the instances TLC runs | |

Conventions shared by all of them. Where the code reads in one transaction and
writes in another, or sends before it commits, the handler is several actions
and the worker's stale view is kept in `txn`, `job`, `tick` or `request`; a
handler that is a single transaction is a single action. The modules that one
proof module extends together name their initial states, steps and
specifications apart (`SensorsInit`, `ScheduleNext`, `FirmwareSpec`). A
definition has the name of the function it models. Actions of devices, plugs,
receivers and the network are marked external in the map. `raced`, `crossed`,
`missed`, `excused`, `touched` and the like are history variables: no other
variable depends on them and no action is guarded by one. They name exactly the
overlap or loss after which a property no longer holds, so that the property
says what the code guarantees in all other behaviours. Where a hazard of
`PROJECT.json` is itself such an overlap, the property delimits it and does not
catch it: an unraced cancel (`commands.py:274`), overlapping requests for a
held-off device (`:184`), redelivery (`:307`), a tick lost before its commit
(`watchdog_runtime/__init__.py:140`, `schedule_runtime.py:65`), a failed
cross-link (`announcements.py:645`), a lost outcome
(`webhook_delivery.py:201`), overlapping pushes (`device_config.py:258`), a
lost repair (`heartbeats.py:285`). The notes of the hazards say so one by one.
A definition that follows the comment "Mutant" is a plausible bug; it is used
by no action, and shows that the property it is paired with in `PROJECT.json`
would notice it.

### CommandQueue

`..._read(t, ..)` is the SELECT and the checks with their early returns; it
stores in `txn[t]` what the thread saw. `..._commit(t)` is the flush: it writes
the columns the code changes *relative to what was read*, onto whatever the row
holds by then, or rolls back if the row is gone (`StaleDataError`).
`expire_overdue_commands` is a single UPDATE and one action; so is `enqueue`,
whose reading half is in `PowerControl`. After its commit the command's event
is published (`commands.py:187-210`); `heard` says whether the LAN relay agent
gets it, and `AgentDelivers` flips the relay without a look at the row, which
stays pending and will be delivered as well. The device and the network are
external: a response is lost or arrives, the device executes each copy it gets
(it has no memory of command ids) or reports it expired, and its POSTs may be
repeated, delayed and reordered (`posts` never shrinks). `HubRestart` forgets
all open transactions. A row keeps its timestamps, because the properties
compare them; `0` stands for NULL.

### PowerControl

The same two-step transactions for enqueueing, with the device's flags as they
were read; delivery is one step, with any choice of rows that the grace window
and the order by `created_at` allow (`Offered`). `CarriedOut` is what the
firmware does to the relay with the rows of one response: the last command that
opens or closes it counts (a cycle ends closed), and then the toggles after it.
Requests come from operators (device and group endpoints, with override and
hold-off) and from automation (`_fire_cycle`, `_fire_relay_set`,
`_fire_hold_off`, `_fire_power_cycle`: never an override).

### WatchdogRule

One tick is a sequence of actions: `tick_begin` loads the enabled, due rules;
`tick_probes` or `tick_skips` evaluates one of them in the tick's own copy
(`tick.view`) and dispatches its action at once, as the command's transaction
commits at once; `tick_commit` writes the changed columns, or rolls back all of
them if one of the rules was deleted. Operators' edits come in between.
`_update_state` is the threshold machine, `_binding_tick` the binding machine;
`create_rule` and `update_rule` choose which of the two a rule is, and its
target. The ghost `edge` is the edge last dispatched with the target it was
dispatched to, so that a new target that never gets its edge shows; `survived`
marks the rules whose applied-state marker could outlive such an edit
(`MarkerMaySurvive`). Probes (`run_probe`) are any of their three outcomes.
Timestamps are kept as ages, cut off where the code stops telling them apart,
so that the model needs no clock bound; streaks are cut off at their thresholds
when they are written.

### Schedule

`tick_begin` loads the enabled schedules and runs the loop over them in memory:
`job.update` holds the UPDATEs to come, `job.windows` the maintenance windows
that cover the time of the tick. `fire_power_cycle` enqueues the commands of one
due schedule, which commit at once; `read_active`, `read_details` and `reconcile`
are the three separate transactions on the flag; `tick_commit` writes the rows,
or rolls all of them back if one was deleted. `tick_lost` is a restart or a
database error anywhere in between. The devices of a schedule are reduced to
whether any enqueue succeeded: a failed one is counted in `last_outcome` and not
retried.

### Enrollment

One announcement row per plug (`ann`), tokens and device rows by number, and
what the plug itself holds (`plug`). `upsert_announcement` is one transaction
with its three branches: auto-rebind of a consumed row, recovery of a stranded
pickup, and the ordinary refresh; `received` says whether the plug got the
answer. Registration is `register_read` (refusals and the duplicate check),
`register_commit` under the token's row lock (`Locked`), `mark_consumed` or
`mark_consumed_fails` after the commit, and `register_reply`. `adopt` mints in a
transaction of its own and `adopt_commit` writes the announcement. A MAC address
is a plug and its textual form, since the code normalises it in some places
only. Init also has the stranded row that releases before auto-rebind left.

### HubSync and SyncRegister

A local handler is `mutate` (it reads the row and decides), `flush` (the
statement, the hook's event and its outbox number), and `commit`, which makes
row and event visible, or `rollback`, which leaves a gap; `flush_raises` is a
statement that no longer finds its row. `fetch` serves a batch after the peer's
cursor, `apply_outbox_event` and `apply_fails` go through it,
`update_sync_cursor` ends it, and `restart` forgets a batch whose cursor was
not yet written. Applying an event is two steps as well: `apply_reads` is
`session.get` with the last-writer-wins comparison (or `apply_skips`, when it
decides against the event), and `apply_writes` the UPDATE by primary key. Only
the statements wait for a row that another open transaction has written
(`Locked`); nothing keeps a row as it was read. A write over a row that has
changed since goes into `crossed`. An event creates, updates or deletes by
natural key. `SyncRegister` is the promise: a copy changes by its own users'
writes, by removal, or to a version written somewhere that is strictly newer,
or in any way once the entity is in `crossed`. The refinement maps `copy` to
the rows' versions and `written` to the versions in visible events.

### Firmware

A release's two files (`flat`, and the copy under its channel `chan`) and its
row are written by separate steps: an upload checks the name (`upload_check`),
moves the file into place (`upload_replace`), copies it (`upload_publish`, or
`upload_publish_fails`, which goes on over what the copy left: nothing, the
file that was there, or half a file) and inserts the row or removes both files
(`upload_insert`). A scan reads which file names have a row, whatever the row's
channel (`scan_begin`), hashes a file (`scan_hash`) and writes
(`discover_on_disk_releases`). File names are not unique: `FinalName` and
`Parsed` are constants, and the instance has two releases that share one
(`Namesakes`). The content of a file stands for its hash. `touched` collects
the names whose files were changed behind the rows. `create_deployment`
supersedes and inserts, and commits later. A poll reads the assignment to offer
in one transaction; the mark is a SELECT (`select_pending`) and an UPDATE by
primary key (`mark_assignment_delivered`) that lands on the row whatever it has
become. The device installs what it was offered if the bytes match, reports its
version, or falls back, as often as it likes.

### DeviceConfig

A configuration maps the kinds of setting the editors tell apart (a field, a
checkbox, the write-only secret, a sub-key the form does not show) to the save
that set them, or to "absent", an explicit FALSE (`Off`), or what only JSON can
say (`Odd`: null, an unknown option). A page holds the version it was rendered
from. The conversion into the form and back is modelled by what it does to each
kind: `desired_config_to_form_values` blanks the secret, hidden sub-keys and
`Odd`; `build_desired_config_from_form` drops empty fields, keeps a blank
secret's stored value and makes an unset checkbox an explicit FALSE. A push
reads and enqueues in two transactions, and the second may fail for good
(`push_fails`). A heartbeat carries some of the fields (`Reports`), the
configuration without its secrets; it commits the reported columns, and only
then pushes the repair if `recovery_trigger` saw an edge; one may be held up
and recorded late. Drift is judged block by block, as `compute_drift` does. The
device merges each command into what it runs, may lose it in a recovery,
restore its last known good configuration, and reboot at any time. `owed` is
the save a recovered device is still to get; a fault that leaves nothing on its
way and nothing to be seen sets it to 0 (`StillOwed`). The picker also replaces
its watchdog rule in two transactions of its own.

### Notifications

`send_one` reads the row and validates the URL, `safe_request` connects and
gets an answer, `record_outcome` commits; the worker, the test button and
escalations are separate senders. The name service is free to change its
answers (`Resolve`). Time is the minutes until a row is due. `fk` says whether
the database enforces foreign keys, which decides what deleting a channel does
to queued rows.

### Accounts

A credential is a record of its kind, second of issue, session id and the
password version it was obtained with; `_resolve_user` decides whether it is
accepted, as the middleware does, from the account's cutoff, the session row
and the lifetime. The session table can be read or not (`up`): while it cannot,
`_is_jti_revoked` says no. Sign-in, reset, redemption, review and cancellation
are cut at their transactions; the changes of an account (`revoke_all_tokens`,
`deactivate_user`, `change_own_password`) are cut between the read and the
write, with the time of the cutoff taken in between. `Restart` drops requests
in flight and runs `ensure_bootstrap_admin`, which may force the password of
the settings and leaves the cutoff; `spared` marks an account whose old
credentials that, or a cutoff that moved back, has spared.

### TenantScope

A request binds an organization to its thread's context (`ctx`), runs the
statements of its handler one at a time, each of them filtered or guarded under
the mode that `enforce_mode` returns, and ends by answer or exception;
`register_tenant_teardown` releases the scope. Reading the mode is a cache
lookup, a read of the committed setting and a store, each a step; a toggle
commits and then invalidates. Start-up runs the backfills that give rows their
organization. `req.touched` records the rows a request read or wrote.

### Sensors

`poll_source` stamps the time and reads the row; `Success` (the sample is
stored), `PollFails` (the request failed and the error is stored) or `PollLost`
(the database refuses either, the flush raises out of the function and out of
the job, and `last_polled_at` is rolled back) ends the poll in one transaction,
or nothing does: a poll has no time limit. The job goes through its list one
source at a time while the test button polls next to it. `record_webhook_event`
and `record_mqtt_message` insert what arrives. Probes only read, so they are
operators of the state and the properties quantify over them. A time is kept as
an age; two times of one source never coincide (`NewInstant`), as the code's
clock counts microseconds.

## 3. Runs

| run | properties | what it shows | states |
|---|---|---|---|
| `queue_races` | `RowsAreSound`, `CancelIsEffective`, `GraceAfterDelivery`, `LiveSettles` | whatever races, acknowledgement follows hand-off, a pending row never left the hub, rows and results agree, no unexecuted command is lost; an unraced cancel is effective against every way to the relay but the LAN relay agent, and the grace window kept; every live command settles | 614 k |
| `power_races` | `HoldOffFollowsCommands`, `LockoutHolds`, `HeldOffStaysOff` | unless two requests overlap, no power command passes the lockout, the flag says what the newest deciding command says, and a held-off outlet is not powered by anything delivered once | 1.5 M |
| `rule_ticks` | `CooldownHolds`, `Rearms`, `BindingFollows` | the action keeps to the cooldown unless its tick was lost; a recovered rule is re-armed; the target a binding has now ends on its probe's side, unless the marker of an earlier target survived the edit | 321 k |
| `schedule_ticks` | `OncePerDueTime`, `DueRunsAreTaken`, `MaintenanceFollowsWindows` | a due power cycle is taken, and once unless its tick was lost; maintenance starts and ends with its windows, whatever is deleted or toggled | 470 k |
| `adoption` | `TokenRegistersOneDevice`, `DuplicateNeedsRace`, `OfferedTokenIsFresh`, `PlugHeals` | the token's lock makes it single-use; two rows for one plug need two overlapping registrations; a used token is taken off the announcement unless the cross-link failed; a known plug without credential gets one by itself | 487 k |
| `hub_sync` | `ImplementsRegister`, `DeletedStaysDeleted`, `Converges` | sync implements the register until two writes of an entity cross; a peer's deletion is final; copies become equal unless the entity met one of the losses named in the property | 588 k |
| `firmware_rollout` | `ReleaseServesItsHash`, `OlderNeverResumes`, `RolloutEnds` | a release serves the image its row describes, between the steps of an upload and after a failed copy too, unless its name's files were changed behind it; the hub does not go back behind a completed deployment unless a deployment crossed another one or a delivery; a rollout ends unless its image falls back for ever | 669 k |
| `device_config` | `PushesMoveForward`, `FormKeepsConfig`, `DriftVerdictSettles`, `RecoveryIsRepaired` | commands carry newer and newer configurations unless pushes overlap; the form changes nothing but what its comment lists; the drift verdict is right again and again, and with a secret it is always drift; a recovery the hub can see is repaired unless its push was lost | 856 k |
| `notify` | `DeliveredOnce`, `RetriesAreBounded`, `OnlyAllowedAddresses`, `DeliveriesSettle` | an accepted notification is not repeated unless its outcome was lost; tries are bounded; no refused address is connected to; every row settles | 861 k |
| `accounts` | `OldPasswordEnds`, `AccountMeansConsumed`, `RejectedNeverJoins`, `EndedStaysEnded` | a new password ends the old one's credentials, what a cutoff ended stays ended, with the session table readable or not, accounts and invitations agree, a rejected applicant gets no link; each up to the exceptions its comment lists | 637 k |
| `tenant_scope` | `OnlyOwnRows`, `DecisionIsCurrent` | under enforcement a request touches its own organizations' rows only, on whichever thread it runs; a toggle is acted on within the TTL | 1.2 M |
| `sensors` | `SilenceIsNoEvidence`, `ErrorRuleNeedsErrors`, `SourcesArePolled` | silence is never evidence of a state, a value or a rate, a counter reset never of errors, and sources whose requests fail or that are deleted do not starve the others | 481 k |

### Bounds

* `queue_races`: one command suffices for safety (rows interact only through a
  delivery's set of rows, which the proofs cover for any number), two threads
  are the smallest number that races. One event is heard by the agent at most,
  as a command is enqueued once. `Ttl = 2`, `Grace = 1`, `MaxTime = 3` let a
  command be delivered, redelivered after its grace, and expire. `enqueue`
  needs `now + Ttl <= MaxTime`, so expiry is never cut off by the bound.
* `power_races`: two commands are what hold-off needs (a hold and a power-on);
  the two types are one that powers on and one that does not.
* `rule_ticks`: thresholds of two are the smallest for which streaks matter; a
  cooldown of two clock steps lets probes fall inside and outside it. Two targets
  are one edit away from each other.
* `schedule_ticks`: a day of two time units with a due time in its second half
  has both answers to "is today's run still to come"; four units let a window
  open, overlap with the second one and end. The week has its seven days. One
  lost tick (`MaxLost = 1`) is what it takes to repeat a power cycle.
* `adoption`: one plug with two spellings of its address, two workers, three
  tokens (an adoption, a re-adoption and a rebind), two device rows (one is
  needed, a second is the duplicate), three operator requests and two faults.
* `hub_sync`: two hubs, one ordinary entity and one whose organization the peer
  does not have (its events always fail), batches of two, three edits (create,
  edit, delete or a conflicting edit) in two instants, so that timestamps can
  tie, and one fault.
* `firmware_rollout`: version 1 of channel `dev` and version `1-dev` of channel
  `stable`, which share the one file name (used one at a time they are ordinary
  releases, together they are the scan's and the deletion's confusion), two
  images, two assignments (an older and a newer one), four requests, one crash or
  failed copy. Falling back is not bounded.
* `device_config`: three saves and two pushes between two workers, so that an
  older one can follow a newer one; three operator requests and faults
  (recovery, reboot, crash, refused or expired push, late report); reports of
  the configuration, of the recovery state, and of both. The device starts with
  a secret or with a hidden sub-key, so that the form and the drift meet both.
* `notify`: two deliveries with batches of one, so that the worker comes back
  for the second; two attempts; a public and a refused address.
* `accounts`: two accounts, four requests, five credentials, one row of each
  kind, and one tick of the clock to tell seconds apart.
* `tenant_scope`: two organizations, one of them closed, an account whose
  memberships change, two threads and two requests (the second one reuses the
  first one's thread), one toggle, one second of TTL.
* `sensors`: every kind of source alone and one pair, intervals and ages of one
  clock step, a counter that can rise by one and be reset. Restarts, refused
  samples and the length of a poll are not bounded.

`CHECK_DEADLOCK FALSE` where the bounded requests are used up and nothing is
left to do; the watchdog's clock, the schedule's ticks, the sensors' job and the
accounts' restarts never end, so those runs check deadlock.

### Fairness

* `CommandQueue`: the clock runs, APScheduler runs `expire_commands` every 30 s,
  and a request that has read goes on to commit. Devices, operators and the
  network owe nothing.
* `WatchdogRule`: the clock runs; the tick begins, goes on and commits under
  strong fairness, because a restart disables each of them: the hub is not
  restarted in the middle of every tick. Probes, edits and maintenance are free.
* `Schedule`: a tick begins and goes on, and only `MaxLost` ticks are lost.
* `Enrollment`: a request in service is finished, and a plug keeps announcing and
  registering (the firmware's retry loop), now and then getting an answer.
* `HubSync`: a handler that has read goes on to flush and commit, and the
  replicator job runs; rollbacks, failures and restarts are bounded.
* `Firmware`: requests finish, the device keeps asking, installing and
  reporting. Nothing is assumed of falling back: `RolloutEnds` names an image
  that does so for ever.
* `DeviceConfig`: requests finish, the device takes its commands, and its full
  heartbeats get through again and again (strong: workers may be busy).
* `Notifications`: the worker runs every 15 s and requests have a timeout.
* `Sensors`: the 30 s job runs and time passes; the job's next poll is strongly
  fair, because `NewInstant` lets the test button pre-empt an instant. Nothing
  makes a poll end: its timeouts are per socket operation and the answer is
  read to its end without a limit (`_pollers.py:298-303`, `516-525`).
* `Accounts` and `TenantScope` state safety only and assume no fairness.

## 4. Known deviations

Where the code does something else than its own texts say, or where a property
had to name an exception, the model shows it; each of these is a behaviour of
the code as it stands.

Command queue and power:

* `cancel_pending_command` checks the status it read and writes "cancelled"
  without a lock: a delivery that commits in between is overwritten, although
  "Only commands in `pending` status can be cancelled" (`commands.py:267`).
* A late "accepted" report after "completed" makes the row live again and the
  next poll repeats the command, while `docs/API.md:198` says that commands are
  re-delivered "until they expire or are reported".
* An overlapping hold-off and power-on leave `is_held_off` set behind a newer
  power-on, although power-on commands "automatically clear `is_held_off`"
  (`commands.py:153`); an older accepted power-on is redelivered after a newer
  hold-off (`HeldOffStaysOff` excludes redelivery).
* Automation enqueues power-on commands for held-off devices and so clears the
  flag: "Watchdog rules + schedules (P4) MUST honour this flag."
  (`CHANGELOG.md:5729`).
* `delivered_at` is not refreshed by a redelivery, so the grace window exists
  after the first hand-off only.
* The LAN relay agent executes a command while its row is pending
  (`commands.py:187-210`, `tools/lan-relay-agent.py:195-236`): cancelling an
  already executed command succeeds, and the row, still pending, is delivered
  with the next poll and executed again, which for a toggle undoes it. When the
  UDP acknowledgement is lost, the agent itself repeats the command over HTTP.
  `PowerControl` does not model the agent: its statements are about what
  responses carry out.

Watchdog and schedules:

* Failures need not be consecutive: a success below `recovery_threshold` does not
  reset `failure_streak` ("failure_threshold consecutive failures fire the
  action", `templates/rules/index.html:431`).
* A tick in flight writes the streaks it counted for the old configuration over
  the reset of `update_rule` ("comes back armed; next probe starts the streak
  counters from zero", `watchdog/_mutations.py:208`).
* A restart between the dispatch and the tick's commit loses `last_action_at`,
  and the action fires again within the cooldown (`CHANGELOG.md:5183`).
* `last_outcome` is both the binding's marker and the last probe's outcome:
  after a probe error the same edge is applied again ("Fires only on a genuine
  edge", `watchdog_runtime/_state.py:205`).
* `update_rule` gives a binding another target and keeps `last_outcome`
  (`watchdog/_mutations.py:196-210`): when one probe is enough for an edge, or
  a tick that loaded the rule before writes its streaks back, the marker of the
  old target stands for an edge nobody applied to the new one, and the new
  target stays as it is until the probe changes sides.
* A tick lost after it enqueued repeats its power cycle. A toggle of maintenance
  between the reconciler's read and write is overwritten. A run that is due is
  dropped when the schedule is switched on again before the tick.

Enrollment:

* The restore branch of adoption compares a normalised with an unnormalised MAC
  address; a token revoked while a registration holds it is deleted although it
  was consumed; auto-rebind does not look at `rejected`; the secret of a
  revoked or expired token stays on the announcement.

Hub sync:

* Two versions of one instant are skipped on both hubs; an event that fails, or
  commits after the cursor has passed its number, is never fetched again; a
  local deletion writes no local tombstone, so that a crossing update returns the
  row on the hub that deleted it; rows without `updated_at` are created but never
  updated by peers; organizations are not synchronised, so events of an
  organization the peer lacks fail for good. `last_seen_at` is not among the
  columns that do not emit: every heartbeat emits an event.
* The last-writer-wins comparison is made on a row read without a lock
  (`sync.py:489`); only the UPDATE waits. A local edit that commits in between
  is overwritten by the older version, column by column, and the hubs stay
  apart; a local edit that read before the applier wrote does the same to the
  peer's newer one. Both are `crossed` in the model.

Firmware:

* The loser of two uploads of a version removes the winner's files.
* A scan that finds other bytes under a known name in a channel's directory
  (the team's, or what a failed copy left there, half a file included:
  `firmware.py:150-161`) replaces the hash of an uploaded release, whose URL
  serves the flat file: devices then reject the download. It looks names up
  regardless of the channel (`firmware.py:304-329`), so that of two releases
  that share a name either may get the other's hash; deleting one unlinks the
  flat file of the other.
* An upload over the name of a discovered release is accepted, since only the
  flat file is checked; when its insert fails, the team's image is deleted with
  it.
* The assignment marked delivered need not be the one offered, and the mark
  lands on a row that was superseded or completed since it was selected
  (`deployments.py:183-197`): the older deployment is active again, and current
  once the newer one has completed.
* An image that never boots is offered again with every poll, without a limit.

Device configuration:

* A stale page drops a setting that was saved after it was opened, as the form is
  not checked again on submission; a picker that changes the mode leaves the
  earlier mode's rule; a crash between a heartbeat's commit and its push loses
  the recovery edge.
* `is_form_representable` promises a round trip "without data loss", yet a save
  from the form drops nulls, unknown options and empty blocks and writes an
  explicit FALSE for every unset checkbox (`_device_config_forms.py:98-120`,
  `171-172`, `311-379`).
* A device reports no secrets
  (`docs/firmware-apply-config-schema-v01.md:142-146`) and `compute_drift`
  compares whole blocks (`device_config.py:204-214`), so a desired
  configuration with a secret is a mismatch for ever; so is a block of which
  the device reports a sub-key that was not asked for.
* A push whose enqueue is refused or fails is logged and not tried again
  (`device_config.py:273-278`); it shows only as drift. An ordinary reboot
  before a full heartbeat clears the flag and hides the recovery from the hub.

Notifications:

* A hostname that does not resolve kills the delivery at the first try; the test
  button and the worker can both send the test's row; deleting a channel during
  a send drops the rest of the batch until the next tick; switching a channel off
  does not stop rows already queued; there is one row per subscription, not per
  channel; an event without a site reaches subscriptions limited to a site.

Accounts:

* `/refresh` looks neither at `tokens_valid_after` nor at the session, so that
  a refresh token outlives a password change; the cutoff has the resolution of
  a second and is taken from the submission of a reset, so that a slow reset
  can move it back, and so can a revocation, a deactivation or a password
  change that overlaps another (`users.py:87-115`, `146-158`); a start with the
  forced password writes `password_hash` and leaves the cutoff, so that
  credentials of the old password survive (`bootstrap.py:897-898`); while the
  session table cannot be read, a cookie that was signed out is accepted
  (`admin_auth.py:75-77`); a restart activates the bootstrap account again; an
  invitation's account is created in its own transaction; a cancellation that
  read before the redemption deletes the consumed row; both reviews of a
  sign-up can be written.

Access control:

* An invited account gets no membership and runs without a scope; `Device` is
  not scoped; deletions of another organization's row are not guarded; the
  cached mode and its expiry are read without the lock, and a read that
  straddles an invalidation keeps the old value for up to a TTL. Some helpers
  are called with the wrong arguments (`users.py` calls `revoke(user_id=,
  binding_id=)`, `rbac_filter` passes an id where a user is expected) or do not
  exist (`role_bindings.list_for_scope`).

Sensors:

* Presence and threshold probes fail on a missing or stale sample
  (`_probes_integrations.py:152`, `579`), and failures build toward the action:
  a poller that has died fires such a rule, while `_query.py:109` says "Stale
  samples MUST NOT trigger watchdog rules". `SilenceIsNoEvidence` says what
  does hold.
* What the database refuses (a payload with a NaN, or an error text that cannot
  be stored) raises out of `poll_source`, whose flush is outside the `try`
  (`_pollers.py:86-92`), and out of the job (`:129`); `last_polled_at` is
  rolled back with it, so the same source is due first again and the ones
  behind it wait. A request whose answer trickles in never ends, and holds the
  job as long.
* In addition, a sample is stamped with the time its poll began, so overlapping
  polls are ordered wrongly (the exception of `ErrorRuleNeedsErrors`); an
  all-day calendar event makes the Google Calendar probe raise; "unpause" is
  classified as stopped; the deletion of a source during its poll ends the
  job's run; a new MQTT source is subscribed to only after a restart.

## 5. Proofs

TLAPS proves the following for all values of the constants. The assumptions on
them (`QueueAssumption`, `SyncAssumption`, and so on in the module that declares
the constants) give them their types and say that a model value that means
"nobody" or "none" is not a worker or a row; bounds are natural numbers, positive
where the code has at least one. Sets of hubs, plugs, threads, addresses and
devices are arbitrary; only two are assumed finite: `Channels` of
`Notifications`, because the number of rows an event makes is the cardinality of
a set of subscriptions, and `Threads` of `DeviceConfig`, because the number of
saves under way is counted.

All proofs have the same shape. The property a run checks is not inductive,
because a step commits what its thread read some steps ago. The inductive
invariant adds what stays true of every open request (`txn`, `job`, `tick`,
`request`) while others commit; there is one lemma per action or per kind of
change, resting on frame lemmas that say for each table which changes leave each
conjunct alone. Each inductive invariant was first checked by TLC, on the
module's run or a larger instance.

`CommandQueueProofs`: `TypeCorrect`, and from `IInv == TypeOK /\ Parts` the
theorems `AckAfterDelivery`, `PendingIsPrivate`, `RowsAgreeWithResults`,
`NoCommandIsLost` and their conjunction `RowsSound`, which `queue_races` checks
on its instance. `Parts` adds what remains true of a stale view while others
commit (`DeliverView`, `ResultView`: a delivery's fresh rows have no
acknowledgement older than the view; a result's row has been delivered before
the view was taken), and how the views of two threads on one command relate
(`RaceInv`: a delivery that has yet to commit read its rows before any result
for them).

In the second half of the module: `CancelHolds`, `AckIsStampedOnce`,
`GraceIsKept`, from `AInv == IInv /\ Alone`: an unraced command has at most one
holder, its holder's view is still true of its row, and its cancellation is
final. Two lemmas carry the induction: `BeginAlone` for the reads and
`QuietStep` for everything else.

`AutomationProofs`, power control: `FlagFollowsCommands` and, as action
properties, `LockoutIsKept` and `HeldOffIsKept`. An unraced device has one open
transaction at most, and what that one read and decided is still true of the
row (`HolderInv`). The rest is about the newest deciding command: a status
change does not move it (`SameDecider`), an insert becomes it or leaves it
(`NewDecider`). For the relay, every response holds all pending rows, so that
no row was handed off before one that is still pending (`ProgressInv`): what a
held-off device gets for the first time was enqueued after the hold-off it
executed, and if it decided anything it would be the newest deciding command,
which the hold-off is (`RelayStaysOpen`).

`AutomationProofs`, sensors: `SilenceProvesNothing` and `ErrorsAreCounted`. No
sample is younger than the last thing its source said (`HeardInv`), so that a
silent source has no sample in the rules' window, however late the poll that
stores it ends. As long as the agent has counted no error since a sample, its
counter is not above the sample's reading, whatever resets it (`CountInv`);
hence a newer sample shows more than an older one only after an error
(`PairInv`), provided that a poll no other overlapped is newer than all samples
of its source (`PollInv`). `DueInv` keeps sources that are pushed to off the
job's list. What an insertion by `sampled_at` and the cut to the rows the
queries read leave of the samples is stated once (`InsertedAt`, `Cut`,
`StoredRows`).

`AutomationProofs`, schedules: `PowerCyclesAreNotRepeated`, an action property.
`compute_next_run_at` returns no time or a later one (`NextRunIsLater`, by the
arithmetic of days and the walk over the week). So what a tick will write is
later than what it runs and than all that ran (`TickInv`), and a row falls due at
a time that ran only while the run is not yet committed, or was lost (`RunsInv`);
edits and deletions in between keep both.

`FleetProofs`, watchdog: `CooldownKept`, an action property, from
`LastActionIsKnown`: what the next evaluation takes for the time since the last
action is at most the real one, because operators' edits leave `last_action_at`
alone and a tick owns that column of the rows it loaded (`TickOwns`).

`FleetProofs`, firmware: `ReleasesAreSound` and `RolloutsMoveForward`. For a
name whose files nobody touched behind the rows, one request is at work
(`OneBusy`), one row bears it and one channel's directory holds it (`RowTells`,
`OneCopy`); an upload has written what its row will say, and of a failed copy
nothing is left (`UploadOwns`); a scan has the hash of the row it found, or
found none (`ScanOwns`). So each step leaves the row true of what it serves.
Unless `raced`, one deployment is being created, it is the newest, and it will
supersede all that are active (`OneDeploy`, `DeployIsNewest`), one assignment
is active (`OneActive`), and none that is active is older than a completed one
(`DoneIsOlder`): a delivery whose row is still pending changes neither, and one
whose row is not sets `raced`.

`FleetProofs`, device configuration: `FormSavesAreFaithful` (an action
property) and `PushesInOrder`. A page whose version is still the stored one
shows the stored configuration (`PageIsFresh`), and what a form save is about
to write differs from it in the setting that was changed and as `Kept` allows
(`SavesAreFresh`); the stored secret is read again at the save, which is why
the page may be blank there. No command is newer than what is stored, and an
open push that overlapped with no other has read something at least as new as
every command (`QueueIsOlder`, `PushIsNewest`, `QueueInOrder`).

`HubSyncProofs`: `DeletionIsFinal` and the refinement `SyncRefinesRegister`. An
id belongs to one key for ever, since ids and versions are made from the count
of edits and every row has an event that shows its id (`IdInv`, `RowInv`). A
transaction that has read the row has a number of its own (`Own`, `ReadInv`);
once flushed it holds the row's lock, so that what it emitted is what it will
write, but for an entity that is crossed (`OpenInv`, together `TxnInv`); a
batch holds committed events only (`JobInv`), and the event about to be written
is newer than the row the applier has read (`SeenInv`). If the row is still
that one, the write is a spread to a newer version; if it is not, the key is
crossed by the same step. With this, every step of `HubSync` maps to a write, a
spread or a removal of `SyncRegister`, to a crossed write, or to a stutter.

`NotificationsProofs`: `AcceptedOnce`, `AttemptsAreBounded`, `GuardHolds`. A
request carries the address that was validated (`PinInv`). A row that is not
excused has one sender (`OneSender`), so that the attempts it read are still
the row's (`SendInv`); the row counts all requests but the one whose answer is
being recorded (`RowInv`).

`EnrollmentProofs`: `OneDevicePerToken`, `DuplicatesAreRaces`, `OfferIsFresh`.
A token that can still be redeemed is nobody's credential (`CredInv`) and is
locked by one registration at a time (`LockInv`); it belongs to one plug from
the moment it is minted (`OwnerInv`), so that the registration that uses it is
the one whose cross-link clears the announcement; what the duplicate check saw
still holds at the commit, or a registration of the same plug has committed
since (`CheckInv`).

`AccountsProofs`: `PasswordChangeEnds`, `RefusalIsFinal` (an action property),
`RedeemedIsConsumed`, `RejectionHolds`. The cutoff is never ahead of the clock,
and behind the submission of the password in force only where the account is
marked `spared` (`Covered`, `UserInv`), no credential is younger than the
clock, and one of an earlier password obtained by a sign-in in order is not
younger than the change (`CredInv`); a redemption holds its invitation pending
to its end (`JobInv`), which is why a cancellation, a restart or a second
redemption cannot separate an account from its invitation without leaving the
mark the property names; a link that was handed out belongs to an approved
request, or to one whose reviews crossed (`HandedInv`). For `RefusalIsFinal`
every action is shown to add credentials only, to leave revoked session rows
revoked, and, but for the two named exceptions, neither to switch an account on
nor to move its cutoff back (`ForwardAt`, `MovedBack`, `NoRevival`); the
argument is the same with the session table up and down, and compares like with
like.

`TenantScopeProofs`: `ForeignRowsAreSafe` and `TogglesAreHeeded`. A thread that
serves nobody has no scope, so that a request never inherits one, and the scope
it binds is one of its principal's organizations (`ScopeOf`). A cached mode
that differs from the setting expires within the TTL of the toggle
(`CacheInv`), and so does the copy a lookup in progress holds (`LookOf`); a
decision that is sure to be taken under enforcement is therefore "enforce", and
the filter and the write guard then let through the rows of the scope alone.

Every safety property of section 3 is stated by one of these theorems. Only
model-checked is liveness: `LiveSettles`, `Rearms`, `BindingFollows`,
`DueRunsAreTaken`, `MaintenanceFollowsWindows`, `PlugHeals`, `Converges`,
`RolloutEnds`, `DriftVerdictSettles`, `RecoveryIsRepaired`, `DeliveriesSettle`
and `SourcesArePolled`. It needs fairness and ENABLED, which the prover does
not handle.

## 6. Not modelled

Payload validation, wording, audit records, rate limits and authentication
headers decide whether a request is accepted, not what an accepted one does.
Scenes, configuration backup, audit and history, mail and the pages are listed
with their reasons in `PROJECT.json`. Two hazards are outside the models: concurrent edits of
`power_source_device_id` may together close a cycle
(`devices/_mutations.py:76`), and the event bus drops its close sentinel when
a queue is full (`event_bus.py:53`). Network probes, the power, guide and
stale-heartbeat probes are the free outcome of a probe in `WatchdogRule`.
Modules are checked one by one; where one relies on another it uses the
weakest promise (in `DeviceConfig` a command is executed in order or expires,
in `WatchdogRule` a probe may return anything).

## 7. What could come next

The safety of every module is proved, so what is left is breadth: scenes, the
power topology and the configuration backup have no model yet. A scene is a
sequence of `enqueue_for_device` calls and would extend `PowerControl`; the
topology needs the property that `power_source_device_id` stays acyclic; the
backup needs a model of an import that runs beside ordinary requests. The LAN
relay agent could enter `PowerControl` as well, with a hold-off that holds only
against what responses carry out.
