---------------------------- MODULE WatchdogRule ----------------------------
(***************************************************************************)
(* The watchdog: the rules an operator edits (app/services/watchdog/) and  *)
(* the job that probes them (app/services/watchdog_runtime/).              *)
(*                                                                         *)
(* A tick loads every enabled rule in ONE session, evaluates the due rules *)
(* in memory one after the other (probes take seconds), and commits at the *)
(* end.  The commands its actions enqueue commit at once, in transactions  *)
(* of their own.  Operators' edits interleave with the tick; on commit     *)
(* SQLAlchemy writes the columns the tick changed over whatever the row    *)
(* holds by then, and a rule deleted meanwhile rolls the whole tick back.  *)
(*                                                                         *)
(* A timestamp is kept as its age, saturated where the code stops telling  *)
(* ages apart (NULL is the saturated age); a streak saturates at its       *)
(* threshold.  One `now` serves a whole tick, so the clock stands still    *)
(* while one runs.                                                         *)
(***************************************************************************)
EXTENDS Integers

CONSTANTS
    Rule,              \* rule ids
    Target,            \* what a rule may act on: its target and action columns
    FailureThreshold,
    RecoveryThreshold,
    Window,            \* window_seconds
    Cooldown           \* cooldown_seconds

ASSUME WatchdogAssumption ==
    /\ Target # {}
    /\ FailureThreshold \in Nat \ {0}
    /\ RecoveryThreshold \in Nat \ {0}
    /\ Window \in Nat \ {0}
    /\ Cooldown \in Nat

VARIABLES
    rule,         \* the watchdog_rules table
    maintenance,  \* the portal-wide maintenance_mode flag
    tick,          \* the tick in progress: what it loaded and what it changed
    fireAge,      \* history: time since the rule's action was last dispatched
    unsaved,      \* history: rules whose last dispatch was rolled back
    edge,         \* history: the binding edge last dispatched, and its target
    survived      \* history: rules retargeted with a marker that may survive

watchdogVars == <<rule, maintenance, tick, fireAge, unsaved, edge, survived>>

Outcomes == {"success", "failure", "probe_error"}
Markers == {"binding:active", "binding:cleared", "binding_settling"}

Row == [state: {"absent", "live", "gone"},
        binding: BOOLEAN,      \* is the action's kind "binding"
        target: Target,
        enabled: BOOLEAN,
        status: {"armed", "firing", "disabled"},
        failure_streak: 0..FailureThreshold,
        recovery_streak: 0..RecoveryThreshold,
        probed: 0..Window,     \* age of last_probed_at
        acted: 0..Cooldown,    \* age of last_action_at
        last_outcome: Outcomes \cup Markers \cup {"none", "maintenance_skip"}]

NoTick == [running |-> FALSE]
\* The tick's own copy of a row; its streaks are cut off when they are written.
View == [state: {"live"}, binding: BOOLEAN, target: Target,
         enabled: {TRUE}, status: {"armed", "firing"},
         failure_streak: 0..(FailureThreshold + 1),
         recovery_streak: 0..(RecoveryThreshold + 1),
         probed: 0..Window, acted: 0..Cooldown,
         last_outcome: Outcomes \cup Markers \cup {"none", "maintenance_skip"}]

TickOver(due) == [running: {TRUE}, todo: SUBSET due, due: {due},
                 snap: [due -> Row], view: [due -> View]]

Smaller(a, b) == IF a <= b THEN a ELSE b
UpTo(limit, n) == Smaller(limit, n + 1)

NewRow(b, t) ==
    [state |-> "live", binding |-> b, target |-> t, enabled |-> TRUE, status |-> "armed",
     failure_streak |-> 0, recovery_streak |-> 0,
     probed |-> Window, acted |-> Cooldown, last_outcome |-> "none"]

AnyTarget == CHOOSE t \in Target : TRUE
\* Edge e, applied to t.
Applied(t, e) == [target |-> t, edge |-> e]

WatchdogInit ==
    /\ rule = [r \in Rule |-> [NewRow(FALSE, AnyTarget) EXCEPT !.state = "absent"]]
    /\ edge = [r \in Rule |-> Applied(AnyTarget, "none")]
    /\ maintenance = FALSE
    /\ tick = NoTick
    /\ fireAge = [r \in Rule |-> Cooldown]
    /\ unsaved = {}
    /\ survived = {}

-----------------------------------------------------------------------------
(* The operator's edits                                                    *)

Edit(r, row) ==
    /\ rule[r].state = "live"
    /\ rule' = [rule EXCEPT ![r] = row]
    /\ UNCHANGED <<maintenance, tick, fireAge, unsaved, edge>>

create_rule(r, b, t) ==
    /\ rule[r].state = "absent"
    /\ rule' = [rule EXCEPT ![r] = NewRow(b, t)]
    /\ UNCHANGED <<maintenance, tick, fireAge, unsaved, edge, survived>>

\* last_outcome keeps the marker of the edge that was applied to the target the
\* rule had.  The next probe replaces it with "settling", unless one probe is
\* enough for an edge, or a tick that loaded the rule before writes streaks that
\* are past the threshold: then the marker stands for an edge nobody applied to
\* the new target.
MarkerMaySurvive(r) ==
    \/ 1 \in {FailureThreshold, RecoveryThreshold}
    \/ tick.running /\ r \in tick.due

update_rule(r, b, t) ==
    LET row == rule[r] IN
    /\ Edit(r, [row EXCEPT !.binding = b, !.target = t,
                           !.failure_streak = 0, !.recovery_streak = 0,
                           !.status = IF row.enabled /\ @ # "disabled"
                                      THEN "armed" ELSE @])
    /\ survived' = IF t # row.target /\ MarkerMaySurvive(r) THEN survived \cup {r} ELSE survived

\* What the model keeps of a deleted row.
Forgotten(row) ==
    [NewRow(FALSE, AnyTarget) EXCEPT !.state = "gone", !.acted = row.acted]

delete_rule(r) ==
    /\ Edit(r, Forgotten(rule[r]))
    /\ survived' = survived \ {r}

set_enabled(r, enabled) ==
    /\ Edit(r, [rule[r] EXCEPT !.enabled = enabled,
                               !.status = IF enabled THEN "armed" ELSE "disabled"])
    /\ UNCHANGED survived

set_maintenance_mode(active) ==
    /\ maintenance # active
    /\ maintenance' = active
    /\ UNCHANGED <<rule, tick, fireAge, unsaved, edge, survived>>

-----------------------------------------------------------------------------
(* Evaluating one rule: what it does to the row, and whether it dispatches *)

_rule_is_due(row) == row.probed >= Window

\* Threshold rules: _update_state_and_maybe_fire.
Recovers(row) == row.recovery_streak + 1 >= RecoveryThreshold

\* Mutant: recovery clears the streaks but not the status.
AfterSuccess_stays_firing(row) ==
    IF row.failure_streak > 0 \/ row.status = "firing"
    THEN IF Recovers(row)
         THEN [row EXCEPT !.failure_streak = 0, !.recovery_streak = 0]
         ELSE [row EXCEPT !.recovery_streak = @ + 1]
    ELSE [row EXCEPT !.recovery_streak = 0]

AfterSuccess(row) ==
    IF row.failure_streak > 0 \/ row.status = "firing"
    THEN IF Recovers(row)
         THEN [row EXCEPT !.failure_streak = 0, !.recovery_streak = 0,
                          !.status = "armed"]
         ELSE [row EXCEPT !.recovery_streak = @ + 1]
    ELSE [row EXCEPT !.recovery_streak = 0]

AfterFailure(row) ==
    [row EXCEPT !.recovery_streak = 0, !.failure_streak = @ + 1]

\* Mutant: no cooldown gate.
Fires_in_cooldown(row) == AfterFailure(row).failure_streak >= FailureThreshold

\* The failure crosses the threshold and the cooldown has passed.
Fires(row) ==
    /\ AfterFailure(row).failure_streak >= FailureThreshold
    /\ row.acted >= Cooldown

_update_state(row, outcome) ==
    LET probed == [row EXCEPT !.probed = 0, !.last_outcome = outcome]
    IN  CASE outcome = "success" -> AfterSuccess(probed)
          [] outcome = "failure" ->
                IF Fires(probed)
                THEN [AfterFailure(probed) EXCEPT !.status = "firing", !.acted = 0]
                ELSE AfterFailure(probed)
          [] OTHER -> probed

\* Binding rules: _binding_tick.
Streaks(row, outcome) ==
    IF outcome = "success"
    THEN [row EXCEPT !.recovery_streak = @ + 1, !.failure_streak = 0]
    ELSE [row EXCEPT !.failure_streak = @ + 1, !.recovery_streak = 0]

BindingEdge(row) ==
    IF row.recovery_streak >= RecoveryThreshold THEN "active"
    ELSE IF row.failure_streak >= FailureThreshold THEN "cleared" ELSE "settling"

Marker(e) == CASE e = "active" -> "binding:active"
               [] e = "cleared" -> "binding:cleared"
               [] OTHER -> "binding_settling"

\* Mutant: on_clear is never looked up.
Applies_active_only(row, outcome) ==
    /\ outcome # "probe_error"
    /\ BindingEdge(Streaks(row, outcome)) = "active"
    /\ row.last_outcome # "binding:active"

\* The edge is new to last_outcome: its leaf action is dispatched.
Applies(row, outcome) ==
    /\ outcome # "probe_error"
    /\ LET e == BindingEdge(Streaks(row, outcome))
       IN  e # "settling" /\ row.last_outcome # Marker(e)

_binding_tick(row, outcome) ==
    LET probed == [row EXCEPT !.probed = 0]
        next == Streaks(probed, outcome)
        e == BindingEdge(next)
    IN  IF outcome = "probe_error" THEN [probed EXCEPT !.last_outcome = outcome]
        ELSE IF e = "settling" THEN [next EXCEPT !.last_outcome = Marker(e)]
        ELSE IF ~Applies(row, outcome) THEN next
        ELSE [next EXCEPT !.last_outcome = Marker(e), !.acted = 0,
                          !.status = IF e = "active" THEN "firing" ELSE "armed"]

-----------------------------------------------------------------------------
(* The tick                                                                *)

tick_begin ==
    LET due == {r \in Rule : /\ rule[r].state = "live"
                             /\ rule[r].enabled
                             /\ rule[r].status # "disabled"
                             /\ _rule_is_due(rule[r])}
    IN  /\ ~tick.running
        /\ ~maintenance
        /\ due # {}
        /\ tick' = [running |-> TRUE, todo |-> due, due |-> due,
                   snap |-> [r \in due |-> rule[r]], view |-> [r \in due |-> rule[r]]]
        /\ UNCHANGED <<rule, maintenance, fireAge, unsaved, edge, survived>>

Evaluated(r, row) ==
    tick' = [tick EXCEPT !.todo = @ \ {r}, !.view[r] = row]

Dispatched(r) ==
    /\ fireAge' = [fireAge EXCEPT ![r] = 0]
    /\ unsaved' = unsaved \ {r}

\* `now` lies in one of the rule's maintenance windows.
tick_skips(r) ==
    /\ tick.running
    /\ r \in tick.todo
    /\ Evaluated(r, [tick.view[r] EXCEPT !.probed = 0,
                                        !.last_outcome = "maintenance_skip"])
    /\ UNCHANGED <<rule, maintenance, fireAge, unsaved, edge, survived>>

tick_probes(r, outcome) ==
    LET row == tick.view[r] IN
    /\ tick.running
    /\ r \in tick.todo
    /\ IF row.binding
       THEN /\ Evaluated(r, _binding_tick(row, outcome))
            /\ IF Applies(row, outcome)
               THEN /\ Dispatched(r)
                    /\ edge' = [edge EXCEPT ![r] =
                          Applied(row.target, BindingEdge(Streaks(row, outcome)))]
                    /\ survived' = IF row.target = rule[r].target THEN survived \ {r} ELSE survived
               ELSE UNCHANGED <<fireAge, unsaved, edge, survived>>
       ELSE /\ Evaluated(r, _update_state(row, outcome))
            /\ IF outcome = "failure" /\ Fires(row)
               THEN Dispatched(r)
               ELSE UNCHANGED <<fireAge, unsaved>>
            /\ UNCHANGED <<edge, survived>>
    /\ UNCHANGED <<rule, maintenance>>

\* The UPDATE of one row: the columns that differ from what was loaded.
Written(r) ==
    LET snap == tick.snap[r]
        view == tick.view[r]
        Column(old, new, current) == IF new # old THEN new ELSE current
    IN  [rule[r] EXCEPT
           !.status = Column(snap.status, view.status, @),
           !.failure_streak = Smaller(FailureThreshold,
               Column(snap.failure_streak, view.failure_streak, @)),
           !.recovery_streak = Smaller(RecoveryThreshold,
               Column(snap.recovery_streak, view.recovery_streak, @)),
           !.probed = Column(snap.probed, view.probed, @),
           !.acted = Column(snap.acted, view.acted, @),
           !.last_outcome = Column(snap.last_outcome, view.last_outcome, @)]

\* The rules dispatched in this tick, whose last_action_at is lost with it.
FiredInTick == {r \in tick.due : tick.view[r].acted # tick.snap[r].acted}

tick_commit ==
    /\ tick.running
    /\ tick.todo = {}
    /\ IF \A r \in tick.due : rule[r].state = "live"
       THEN /\ rule' = [r \in Rule |-> IF r \in tick.due THEN Written(r) ELSE rule[r]]
            /\ UNCHANGED unsaved
       ELSE /\ unsaved' = unsaved \cup FiredInTick
            /\ UNCHANGED rule
    /\ tick' = NoTick
    /\ UNCHANGED <<maintenance, fireAge, edge, survived>>

HubRestart ==
    /\ tick.running
    /\ unsaved' = unsaved \cup FiredInTick
    /\ tick' = NoTick
    /\ UNCHANGED <<rule, maintenance, fireAge, edge, survived>>

Clock ==
    /\ ~tick.running
    /\ rule' = [r \in Rule |-> [rule[r] EXCEPT !.probed = UpTo(Window, @),
                                               !.acted = UpTo(Cooldown, @)]]
    /\ fireAge' = [r \in Rule |-> UpTo(Cooldown, fireAge[r])]
    /\ UNCHANGED <<maintenance, tick, unsaved, edge, survived>>

-----------------------------------------------------------------------------
Evaluate == \E r \in Rule : \/ tick_skips(r)
                            \/ \E o \in Outcomes : tick_probes(r, o)

WatchdogNext ==
    \/ \E r \in Rule :
          \/ \E b \in BOOLEAN, t \in Target : create_rule(r, b, t) \/ update_rule(r, b, t)
          \/ \E b \in BOOLEAN : set_enabled(r, b)
          \/ delete_rule(r)
    \/ \E b \in BOOLEAN : set_maintenance_mode(b)
    \/ tick_begin \/ Evaluate \/ tick_commit
    \/ HubRestart \/ Clock

WatchdogSpec == WatchdogInit /\ [][WatchdogNext]_watchdogVars

\* APScheduler runs the tick every 10 s, a tick that has begun goes on, and the
\* hub is not restarted in the middle of every one of them.
WatchdogFairness ==
    /\ WF_watchdogVars(Clock)
    /\ SF_watchdogVars(tick_begin)
    /\ SF_watchdogVars(Evaluate)
    /\ SF_watchdogVars(tick_commit)

WatchdogFairSpec == WatchdogSpec /\ WatchdogFairness

-----------------------------------------------------------------------------
(* Properties                                                              *)

TypeOK ==
    /\ rule \in [Rule -> Row]
    /\ maintenance \in BOOLEAN
    /\ tick = NoTick \/ \E due \in SUBSET Rule : tick \in TickOver(due)
    /\ fireAge \in [Rule -> 0..Cooldown]
    /\ unsaved \in SUBSET Rule
    /\ edge \in [Rule -> [target: Target, edge: {"none", "active", "cleared"}]]
    /\ survived \in SUBSET Rule

\* The step evaluates threshold rule r and dispatches its action.
Fire(r) ==
    /\ tick.running /\ tick'.running
    /\ r \in tick.todo \ tick'.todo
    /\ ~tick.view[r].binding
    /\ tick'.view[r].last_outcome = "failure" /\ Fires(tick.view[r])

\* The tick selects r; its last evaluation was neither skipped nor an error.
Watched(r) == rule[r].state = "live" /\ rule[r].enabled /\ ~maintenance
Sees(r) == rule[r].last_outcome \in Markers

\* Whatever operators edit meanwhile, a threshold rule's action is not
\* dispatched again within cooldown_seconds, unless the tick that dispatched it
\* was rolled back or killed and so lost last_action_at.
CooldownHolds ==
    [][\A r \in Rule : Fire(r) => fireAge[r] >= Cooldown \/ r \in unsaved]_watchdogVars

\* A threshold rule whose probes succeed for good is re-armed for good.
Rearms ==
    \A r \in Rule :
        <>[](Watched(r) /\ ~rule[r].binding /\ rule[r].last_outcome = "success")
            => <>[](rule[r].status = "armed")

\* A binding's target, the one it has now, follows a probe that has come to stay
\* on one side, unless the tick that dispatched the last edge was rolled back or
\* killed, or update_rule gave the rule that target while the old one's marker
\* could survive (MarkerMaySurvive) and no edge has been applied to it since.
BindingFollows ==
    \A r \in Rule :
        LET Steady == /\ Watched(r) /\ rule[r].binding /\ Sees(r)
                      /\ r \notin unsaved \cup survived
            Has(e) == edge[r] = Applied(rule[r].target, e)
        IN  /\ <>[](Steady /\ rule[r].recovery_streak > 0) => <>[]Has("active")
            /\ <>[](Steady /\ rule[r].failure_streak > 0) => <>[]Has("cleared")

=============================================================================
