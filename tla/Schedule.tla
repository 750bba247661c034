------------------------------ MODULE Schedule ------------------------------
(***************************************************************************)
(* Time-driven automation: the schedules table (app/services/schedules.py),*)
(* the tick that runs what is due (app/services/schedule_runtime.py) and   *)
(* the portal-wide maintenance flag that the tick reconciles and operators *)
(* toggle (app/services/runtime_flags.py).                                 *)
(*                                                                         *)
(* The tick loads the enabled schedules, enqueues the due power cycles in  *)
(* transactions of their own, reads the flag twice and may write it, each  *)
(* in a transaction of its own, and only then commits last_run_at and      *)
(* next_run_at of the schedules that ran.  The session flushes nothing     *)
(* before its end (autoflush is off), so no one sees a row of an           *)
(* unfinished tick.                                                        *)
(***************************************************************************)
EXTENDS Integers, FiniteSetsExt

CONSTANTS
    Schedule,   \* schedule ids; an id is never used again
    Config,     \* what operators may ask create for, by the id it will give
    Day,        \* length of a day
    MaxTime,    \* bound on the clock
    MaxLost     \* bound on the ticks that are lost

DaysPerWeek == 7
AnyConfig == UNION {Config[s] : s \in Schedule}

ASSUME ScheduleAssumption ==
    /\ DOMAIN Config = Schedule
    /\ Day \in Nat \ {0}
    /\ MaxTime \in Nat \ {0}
    /\ MaxLost \in Nat
    /\ AnyConfig # {}
    /\ \A c \in AnyConfig :
          /\ c.kind \in {"power_cycle", "maintenance"}
          /\ c.recurrence \in {"once", "daily", "weekly"}
          /\ c.at \in 0..(Day - 1)
          /\ c.weekdays \subseteq 0..(DaysPerWeek - 1)
          /\ c.start_at \in Nat
          /\ c.duration \in Nat

VARIABLES
    clock,    \* the time; 0 stands for a NULL timestamp
    sched,    \* the schedules table
    flag,     \* the maintenance_mode_active row of runtime_flags
    job,      \* the tick in progress
    ran,      \* history: the last due time a schedule enqueued commands for
    unsaved,  \* history: schedules whose last power cycle the table has lost
    lost      \* the number of ticks that were lost

scheduleVars == <<clock, sched, flag, job, ran, unsaved, lost>>

NULL == 0
Time == 1..MaxTime

Row == [state : {"unused", "live", "gone"}, config : AnyConfig, enabled : BOOLEAN,
        last_run_at : Time \cup {NULL}, next_run_at : Nat]

NoRow(state) == [state |-> state, config |-> CHOOSE c \in AnyConfig : TRUE,
                 enabled |-> FALSE, last_run_at |-> NULL, next_run_at |-> NULL]

\* "schedule" and "schedule_window_ended" are the reconciler's own reasons, but
\* the toggle form takes any text.
Reason == {"operator", "schedule", "schedule_window_ended"}
Flag == [on : BOOLEAN, reason : Reason \cup {"none"},
         operator_override_at : Time \cup {NULL}]
NoFlag == [on |-> FALSE, reason |-> "none", operator_override_at |-> NULL]

NoJob == [at |-> "idle"]

ScheduleInit ==
    /\ clock = 1
    /\ sched = [s \in Schedule |-> NoRow("unused")]
    /\ flag = NoFlag
    /\ job = NoJob
    /\ ran = [s \in Schedule |-> NULL]
    /\ unsaved = {}
    /\ lost = 0

-----------------------------------------------------------------------------
(* Recurrence                                                              *)

Weekday(t) == (t \div Day) % DaysPerWeek

\* Mutant: a run due this very moment is still to come.
Candidate_inclusive(c, now) ==
    LET today == (now \div Day) * Day + c.at
    IN  IF today < now THEN today + Day ELSE today

\* Today at HH:MM if that is still to come, else tomorrow.
Candidate(c, now) ==
    LET today == (now \div Day) * Day + c.at
    IN  IF today <= now THEN today + Day ELSE today

\* The walk over at most seven days to a weekday of the schedule.
WeeklyRun(c, now) ==
    LET walk == {k \in 0..(DaysPerWeek - 1) : Weekday(Candidate(c, now) + k * Day) \in c.weekdays}
    IN  IF walk = {} THEN NULL ELSE Candidate(c, now) + Min(walk) * Day

compute_next_run_at(row, now) ==
    LET c == row.config
    IN  CASE c.recurrence = "once" ->
                IF row.last_run_at = NULL /\ c.start_at > now THEN c.start_at ELSE NULL
          [] c.recurrence = "daily" -> Candidate(c, now)
          [] c.recurrence = "weekly" -> WeeklyRun(c, now)

-----------------------------------------------------------------------------
(* Operators                                                               *)

IsLive(s) == sched[s].state = "live"

\* What create accepts; anything else raises ScheduleValidationError.
Valid(c) ==
    /\ c.recurrence = "weekly" => c.weekdays # {}
    /\ c.recurrence = "once" => c.start_at # NULL
    /\ c.kind = "maintenance" => c.duration > 0

create(s, c) ==
    LET row == [state |-> "live", config |-> c, enabled |-> TRUE,
                last_run_at |-> NULL, next_run_at |-> NULL]
    IN  /\ sched[s].state = "unused"
        /\ Valid(c)
        /\ sched' = [sched EXCEPT ![s] =
              [row EXCEPT !.next_run_at = compute_next_run_at(row, clock)]]
        /\ UNCHANGED <<clock, flag, job, ran, unsaved, lost>>

delete(s) ==
    /\ IsLive(s)
    /\ sched' = [sched EXCEPT ![s] = NoRow("gone")]
    /\ ran' = [ran EXCEPT ![s] = NULL]
    /\ unsaved' = unsaved \ {s}
    /\ UNCHANGED <<clock, flag, job, lost>>

set_enabled(s, enabled) ==
    /\ IsLive(s)
    /\ sched' = [sched EXCEPT ![s].enabled = enabled,
                              ![s].next_run_at =
                                  IF enabled THEN compute_next_run_at(sched[s], clock) ELSE @]
    /\ UNCHANGED <<clock, flag, job, ran, unsaved, lost>>

\* Only the reconciler's reasons leave the override stamp out.
set_maintenance_mode(on, reason) ==
    flag' = [on |-> on, reason |-> reason,
             operator_override_at |-> IF reason = "operator" THEN clock ELSE NULL]

toggle_maintenance(on, reason) ==
    /\ set_maintenance_mode(on, reason)
    /\ UNCHANGED <<clock, sched, job, ran, unsaved, lost>>

-----------------------------------------------------------------------------
(* The tick                                                                *)

IsDue(row, now) == row.next_run_at # NULL /\ row.next_run_at <= now

\* Mutant: next_run_at is computed from just before the due time.
AfterRun_from_slot(row, now) ==
    [row EXCEPT !.last_run_at = now,
                !.next_run_at = compute_next_run_at(row, row.next_run_at - 1)]

AfterRun(row, now) ==
    LET run == [row EXCEPT !.last_run_at = now]
    IN  [run EXCEPT !.next_run_at = compute_next_run_at(run, now)]

\* What the loop of the tick makes of a loaded row.
Considered(row, now) ==
    IF row.next_run_at = NULL
    THEN [row EXCEPT !.next_run_at = compute_next_run_at(row, now)]
    ELSE IF IsDue(row, now) THEN AfterRun(row, now) ELSE row

\* The maintenance windows of some schedule rows that cover a time, by start.
Windows(rows, now) ==
    {rows[s].last_run_at : s \in {s \in DOMAIN rows :
        /\ rows[s].config.kind = "maintenance" /\ rows[s].enabled
        /\ rows[s].last_run_at # NULL
        /\ rows[s].last_run_at <= now
        /\ now <= rows[s].last_run_at + rows[s].config.duration}}

\* What the tick needs of the rows it loaded and works on: the windows that
\* cover now, the UPDATEs it will make (due is the next_run_at it loaded) and
\* the due power cycles.  A maintenance schedule does nothing when it fires.
tick_begin ==
    LET loaded == {s \in Schedule : IsLive(s) /\ sched[s].enabled}
        view == [s \in loaded |-> Considered(sched[s], clock)]
        dirty == {s \in loaded : IsDue(sched[s], clock) \/ view[s] # sched[s]}
    IN  /\ job = NoJob
        /\ job' = [at |-> "fire",
                   windows |-> Windows(view, clock),
                   update |-> [s \in dirty |-> [due |-> sched[s].next_run_at,
                                                last_run_at |-> view[s].last_run_at,
                                                next_run_at |-> view[s].next_run_at]],
                   todo |-> {s \in loaded : /\ IsDue(sched[s], clock)
                                            /\ sched[s].config.kind = "power_cycle"},
                   done |-> {}, current |-> FALSE, details |-> NoFlag]
        /\ UNCHANGED <<clock, sched, flag, ran, unsaved, lost>>

\* The commands of one schedule, for the devices whose enqueue succeeds; with
\* enqueued FALSE there is no such device (no target, lockout, an error).
fire_power_cycle(s, enqueued) ==
    /\ job.at = "fire" /\ s \in job.todo
    /\ job' = [job EXCEPT !.todo = @ \ {s},
                          !.done = IF enqueued THEN @ \cup {s} ELSE @]
    /\ ran' = IF enqueued THEN [ran EXCEPT ![s] = job.update[s].due] ELSE ran
    /\ UNCHANGED <<clock, sched, flag, unsaved, lost>>

read_active ==
    /\ job.at = "fire" /\ job.todo = {}
    /\ job' = [job EXCEPT !.at = "read", !.current = flag.on]
    /\ UNCHANGED <<clock, sched, flag, ran, unsaved, lost>>

read_details ==
    /\ job.at = "read"
    /\ job' = [job EXCEPT !.at = "reconcile", !.details = flag]
    /\ UNCHANGED <<clock, sched, flag, ran, unsaved, lost>>

Overrode(details, start) ==
    details.operator_override_at # NULL /\ details.operator_override_at >= start

\* Mutant: the reason looked for is the one of the ended window.
MayEnd_ended(details) == details.reason = "schedule_window_ended"

MayEnd(details) == details.reason = "schedule"

\* The query has no ORDER BY: any covering window may be the first.
reconcile ==
    /\ job.at = "reconcile"
    /\ job' = [job EXCEPT !.at = "commit", !.windows = {}, !.current = FALSE, !.details = NoFlag]
    /\ \/ \E start \in job.windows :
             IF ~job.current /\ ~Overrode(job.details, start)
             THEN set_maintenance_mode(TRUE, "schedule")
             ELSE UNCHANGED flag
       \/ /\ job.windows = {}
          /\ IF job.current /\ MayEnd(job.details)
             THEN set_maintenance_mode(FALSE, "schedule_window_ended")
             ELSE UNCHANGED flag
    /\ UNCHANGED <<clock, sched, ran, unsaved, lost>>

\* The columns the tick assigned; what operators wrote meanwhile stays.
Written(s) == [sched[s] EXCEPT !.last_run_at = job.update[s].last_run_at,
                               !.next_run_at = job.update[s].next_run_at]

\* An UPDATE of a deleted row fails, and with it the whole transaction.
tick_commit ==
    LET dirty == DOMAIN job.update
        stored == \A s \in dirty : IsLive(s)
    IN  /\ job.at = "commit"
        /\ job' = NoJob
        /\ sched' = IF stored
                    THEN [s \in Schedule |-> IF s \in dirty THEN Written(s) ELSE sched[s]]
                    ELSE sched
        /\ unsaved' = IF stored THEN unsaved \ dirty ELSE unsaved \cup job.done
        /\ UNCHANGED <<clock, flag, ran, lost>>

\* The process is killed, or the database fails the tick's session.
tick_lost ==
    /\ job # NoJob /\ lost < MaxLost
    /\ job' = NoJob
    /\ unsaved' = unsaved \cup job.done
    /\ lost' = lost + 1
    /\ UNCHANGED <<clock, sched, flag, ran>>

Clock ==
    /\ clock < MaxTime
    /\ clock' = clock + 1
    /\ UNCHANGED <<sched, flag, job, ran, unsaved, lost>>

-----------------------------------------------------------------------------
Fire == \E s \in Schedule, enqueued \in BOOLEAN : fire_power_cycle(s, enqueued)

TickStep == tick_begin \/ Fire \/ read_active \/ read_details \/ reconcile \/ tick_commit

ScheduleNext ==
    \/ \E s \in Schedule :
          \/ \E c \in Config[s] : create(s, c)
          \/ delete(s)
          \/ \E enabled \in BOOLEAN : set_enabled(s, enabled)
    \/ \E on \in BOOLEAN, reason \in {"operator", "schedule"} : toggle_maintenance(on, reason)
    \/ TickStep \/ tick_lost
    \/ Clock

ScheduleSpec == ScheduleInit /\ [][ScheduleNext]_scheduleVars

\* APScheduler starts a tick every 30 s and runs one at a time, a tick that has
\* begun goes on; only MaxLost of them are lost.
ScheduleFairness == WF_scheduleVars(TickStep)

ScheduleFairSpec == ScheduleSpec /\ ScheduleFairness

-----------------------------------------------------------------------------
(* Properties                                                              *)

\* The columns an UPDATE of the tick sets, and a tick with these UPDATEs.
Columns == [due : Time \cup {NULL}, last_run_at : Time \cup {NULL}, next_run_at : Nat]
Tick(dirty) == [at : {"fire", "read", "reconcile", "commit"}, windows : SUBSET Time,
                update : [dirty -> Columns], todo : SUBSET dirty, done : SUBSET dirty,
                current : BOOLEAN, details : Flag]

ScheduleTypeOK ==
    /\ clock \in Time
    /\ sched \in [Schedule -> Row]
    /\ flag \in Flag
    /\ job = NoJob \/ \E dirty \in SUBSET Schedule : job \in Tick(dirty)
    /\ ran \in [Schedule -> Nat]
    /\ unsaved \subseteq Schedule
    /\ lost \in 0..MaxLost

\* The step enqueues the power cycle of s.
Enqueues(s) == job # NoJob /\ job' # NoJob /\ s \in job'.done \ job.done

\* A schedule enqueues its power cycle once for each time it falls due, however
\* late the tick is and whatever operators switch meanwhile, unless the tick
\* that enqueued it was lost before its commit.
OncePerDueTime ==
    [][\A s \in Schedule : Enqueues(s) =>
          \/ job.update[s].due > ran[s]
          \/ s \in unsaved /\ job.update[s].due = ran[s]]_scheduleVars

\* A due schedule does not stay due: the tick runs it, unless an operator steps
\* in first.
DueRunsAreTaken ==
    \A s \in Schedule :
        []<>~(IsLive(s) /\ sched[s].enabled /\ IsDue(sched[s], clock))

Covering == Windows([s \in {s \in Schedule : IsLive(s)} |-> sched[s]], clock)

\* Maintenance follows the schedules' windows: what a schedule put on does not
\* outlast its windows, also when the schedule is deleted or switched off in
\* the middle of one, and a window in force puts maintenance on unless an
\* operator has overridden it since the window began.
MaintenanceFollowsWindows ==
    /\ []<>(flag.on /\ flag.reason = "schedule" => Covering # {})
    /\ []<>(\/ flag.on
            \/ Covering = {}
            \/ \E start \in Covering : flag.operator_override_at >= start)

=============================================================================
