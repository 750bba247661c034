----------------------------- MODULE FleetProofs ------------------------------
(***************************************************************************)
(* The parts of the hub that act on the fleet by themselves: watchdog      *)
(* rules (WatchdogRule), firmware rollouts (Firmware) and configuration    *)
(* pushes (DeviceConfig).  The three name their variables, initial states  *)
(* and steps apart, so that one module can extend them all; each is proved *)
(* about separately, under its own specification.                          *)
(***************************************************************************)
EXTENDS WatchdogRule, Firmware, DeviceConfig,
        WellFoundedInduction, NaturalsInduction, FiniteSetTheorems, TLAPS

-----------------------------------------------------------------------------
(* Watchdog rules: the cooldown.                                           *)
(*                                                                         *)
(* The argument.  What the next tick will take for the time since the last *)
(* action (LastActed) is never more than the time since the rule's action  *)
(* was really dispatched, unless the tick that dispatched it was lost:     *)
(* operators' edits leave last_action_at alone, and the commit writes what *)
(* the tick has made of it.                                                *)

RuleRow == [state: {"absent", "live", "gone"}, binding: BOOLEAN, target: Target,
            enabled: BOOLEAN,
            status: {"armed", "firing", "disabled"}, failure_streak: Nat, recovery_streak: Nat,
            probed: Nat, acted: 0 .. Cooldown,
            last_outcome: Outcomes \cup Markers \cup {"none", "maintenance_skip"}]

RowsOver(due) == [running: {TRUE}, todo: SUBSET due, due: {due},
                  snap: [due -> RuleRow], view: [due -> RuleRow]]

RuleTypes ==
  /\ rule \in [Rule -> RuleRow]
  /\ fireAge \in [Rule -> 0 .. Cooldown]
  /\ tick = NoTick \/ \E due \in SUBSET Rule : tick \in RowsOver(due)

\* A tick works on rows nobody else gives another last_action_at.
TickOwns ==
  tick.running => \A r \in tick.due :
    /\ rule[r].state # "absent"
    /\ rule[r].acted = tick.snap[r].acted
    /\ r \in tick.todo => tick.view[r] = tick.snap[r]

AbsentNeverActed == \A r \in Rule : rule[r].state = "absent" => rule[r].acted = Cooldown

LastActed(r) == IF tick.running /\ r \in tick.due THEN tick.view[r].acted ELSE rule[r].acted

ActedIsKnown == \A r \in Rule \ unsaved : LastActed(r) <= fireAge[r]

RuleInv == RuleTypes /\ TickOwns /\ AbsentNeverActed /\ ActedIsKnown

LEMMA StreaksSet ==
    ASSUME NEW row \in RuleRow, NEW n \in Nat
    PROVE  /\ [row EXCEPT !.recovery_streak = 0, !.failure_streak = n] \in RuleRow
           /\ [row EXCEPT !.recovery_streak = 0, !.failure_streak = n].acted = row.acted
           /\ [row EXCEPT !.recovery_streak = n, !.failure_streak = 0] \in RuleRow
           /\ [row EXCEPT !.recovery_streak = n, !.failure_streak = 0].acted = row.acted
           /\ [row EXCEPT !.failure_streak = n, !.recovery_streak = 0] \in RuleRow
           /\ [row EXCEPT !.failure_streak = n, !.recovery_streak = 0].acted = row.acted
  <1>1. [row EXCEPT !.recovery_streak = 0, !.failure_streak = n] \in RuleRow BY DEF RuleRow
  <1>2. [row EXCEPT !.recovery_streak = 0, !.failure_streak = n].acted = row.acted BY DEF RuleRow
  <1>3. [row EXCEPT !.recovery_streak = n, !.failure_streak = 0] \in RuleRow BY DEF RuleRow
  <1>4. [row EXCEPT !.recovery_streak = n, !.failure_streak = 0].acted = row.acted BY DEF RuleRow
  <1>5. [row EXCEPT !.failure_streak = n, !.recovery_streak = 0] \in RuleRow BY DEF RuleRow
  <1>6. [row EXCEPT !.failure_streak = n, !.recovery_streak = 0].acted = row.acted BY DEF RuleRow
  <1>7. QED BY <1>1, <1>2, <1>3, <1>4, <1>5, <1>6

LEMMA ActionSet ==
    ASSUME Cooldown \in Nat, NEW row \in RuleRow, NEW s \in {"armed", "firing"}
    PROVE  /\ [row EXCEPT !.status = s, !.acted = 0] \in RuleRow
           /\ [row EXCEPT !.status = s, !.acted = 0].acted = 0
  <1>1. 0 \in 0 .. Cooldown OBVIOUS
  <1>2. [row EXCEPT !.status = s, !.acted = 0] \in RuleRow BY <1>1 DEF RuleRow
  <1>3. [row EXCEPT !.status = s, !.acted = 0].acted = 0 BY DEF RuleRow
  <1>4. QED BY <1>2, <1>3

LEMMA ThresholdRow ==
    ASSUME NEW row \in RuleRow, NEW o \in Outcomes
    PROVE  /\ _update_state(row, o) \in RuleRow
           /\ _update_state(row, o).acted = IF o = "failure" /\ Fires(row) THEN 0 ELSE row.acted
  <1> DEFINE probed == [row EXCEPT !.probed = 0, !.last_outcome = o]
  <1>1. Cooldown \in Nat
    BY WatchdogAssumption
  <1>2. /\ probed \in RuleRow /\ probed.acted = row.acted /\ probed.failure_streak = row.failure_streak
    BY DEF RuleRow, Outcomes
  <1> HIDE DEF probed
  <1>3. AfterSuccess(probed) \in RuleRow /\ AfterSuccess(probed).acted = probed.acted
    <2> DEFINE clear == [probed EXCEPT !.failure_streak = 0, !.recovery_streak = 0, !.status = "armed"]
               count == [probed EXCEPT !.recovery_streak = @ + 1]
               reset == [probed EXCEPT !.recovery_streak = 0]
    <2>1. clear \in RuleRow BY <1>2 DEF RuleRow
    <2>2. clear.acted = probed.acted BY <1>2 DEF RuleRow
    <2>3. count \in RuleRow BY <1>2 DEF RuleRow
    <2>4. count.acted = probed.acted BY <1>2 DEF RuleRow
    <2>5. reset \in RuleRow BY <1>2 DEF RuleRow
    <2>6. reset.acted = probed.acted BY <1>2 DEF RuleRow
    <2>7. AfterSuccess(probed) \in {clear, count, reset} BY DEF AfterSuccess
    <2>8. QED BY <2>1, <2>2, <2>3, <2>4, <2>5, <2>6, <2>7
  <1>4. AfterFailure(probed) \in RuleRow /\ AfterFailure(probed).acted = probed.acted
    <2>1. PICK n \in Nat : n = probed.failure_streak + 1 BY <1>2 DEF RuleRow
    <2>2. AfterFailure(probed) = [probed EXCEPT !.recovery_streak = 0, !.failure_streak = n]
      BY <2>1 DEF AfterFailure
    <2>3. 0 \in Nat OBVIOUS
    <2>4. /\ [probed EXCEPT !.recovery_streak = 0, !.failure_streak = n] \in RuleRow
          /\ [probed EXCEPT !.recovery_streak = 0, !.failure_streak = n].acted = probed.acted
      BY ONLY <1>2, <2>1, <2>3, StreaksSet
    <2>5. QED BY <2>2, <2>4
  <1>5. Fires(probed) <=> Fires(row)
    BY <1>2 DEF Fires, AfterFailure, RuleRow
  <1>6. /\ [AfterFailure(probed) EXCEPT !.status = "firing", !.acted = 0] \in RuleRow
        /\ [AfterFailure(probed) EXCEPT !.status = "firing", !.acted = 0].acted = 0
    <2>1. QED BY <1>1, <1>4, ActionSet
  <1>7. CASE o = "success"
    BY <1>2, <1>3, <1>7 DEF _update_state, probed
  <1>8. CASE o = "failure"
    BY <1>2, <1>4, <1>5, <1>6, <1>8 DEF _update_state, probed
  <1>9. CASE o = "probe_error"
    BY <1>2, <1>9 DEF _update_state, probed
  <1>10. QED BY <1>7, <1>8, <1>9 DEF Outcomes

LEMMA BindingRow ==
    ASSUME NEW row \in RuleRow, NEW o \in Outcomes
    PROVE  /\ _binding_tick(row, o) \in RuleRow
           /\ _binding_tick(row, o).acted = IF Applies(row, o) THEN 0 ELSE row.acted
  <1> DEFINE probed == [row EXCEPT !.probed = 0]
             next == Streaks(probed, o)
             e == BindingEdge(next)
             error == [probed EXCEPT !.last_outcome = o]
             settling == [next EXCEPT !.last_outcome = Marker(e)]
             status == IF e = "active" THEN "firing" ELSE "armed"
             applied == [next EXCEPT !.last_outcome = Marker(e), !.acted = 0, !.status = status]
  <1>1. Cooldown \in Nat
    BY WatchdogAssumption
  <1>2. probed \in RuleRow BY DEF RuleRow
  <1>3. probed.acted = row.acted BY DEF RuleRow
  <1>4. e \in {"active", "cleared", "settling"} BY DEF BindingEdge
  <1>5. Marker(e) \in Markers BY <1>4 DEF Marker, Markers
  <1> HIDE DEF probed
  <1>6. next \in RuleRow /\ next.acted = row.acted
    <2> DEFINE up == [probed EXCEPT !.recovery_streak = @ + 1, !.failure_streak = 0]
               down == [probed EXCEPT !.failure_streak = @ + 1, !.recovery_streak = 0]
    <2>1. PICK m \in Nat : m = probed.recovery_streak + 1 BY <1>2 DEF RuleRow
    <2>2. PICK n \in Nat : n = probed.failure_streak + 1 BY <1>2 DEF RuleRow
    <2>3. 0 \in Nat OBVIOUS
    <2>4. up = [probed EXCEPT !.recovery_streak = m, !.failure_streak = 0] BY <2>1
    <2>5. down = [probed EXCEPT !.failure_streak = n, !.recovery_streak = 0] BY <2>2
    <2> HIDE DEF up, down
    <2>6. up \in RuleRow /\ up.acted = probed.acted
      <3>1. /\ [probed EXCEPT !.recovery_streak = m, !.failure_streak = 0] \in RuleRow
            /\ [probed EXCEPT !.recovery_streak = m, !.failure_streak = 0].acted = probed.acted
        BY ONLY <1>2, <2>1, <2>3, StreaksSet
      <3>2. QED BY ONLY <3>1, <2>4
    <2>7. down \in RuleRow /\ down.acted = probed.acted
      BY ONLY <1>2, <2>2, <2>3, <2>5, StreaksSet
    <2>8. next \in {up, down} BY DEF Streaks, up, down
    <2>9. QED BY <1>3, <2>6, <2>7, <2>8
  <1>7. error \in RuleRow /\ error.acted = row.acted
    <2>1. error \in RuleRow BY <1>2 DEF RuleRow
    <2>2. error.acted = probed.acted BY <1>2 DEF RuleRow
    <2>3. QED BY <1>3, <2>1, <2>2
  <1> HIDE DEF next, e
  <1>8. settling \in RuleRow /\ settling.acted = row.acted
    <2>1. settling \in RuleRow BY <1>5, <1>6 DEF RuleRow
    <2>2. settling.acted = next.acted BY <1>6 DEF RuleRow
    <2>3. QED BY <1>6, <2>1, <2>2
  <1>9. applied \in RuleRow /\ applied.acted = 0
    <2>1. status \in {"armed", "firing"} OBVIOUS
    <2> HIDE DEF status
    <2>2. 0 \in 0 .. Cooldown BY <1>1
    <2>3. applied = [settling EXCEPT !.status = status, !.acted = 0] BY <1>6 DEF RuleRow
    <2> HIDE DEF applied, settling
    <2>4. /\ [settling EXCEPT !.status = status, !.acted = 0] \in RuleRow
          /\ [settling EXCEPT !.status = status, !.acted = 0].acted = 0
      BY ONLY <1>1, <1>8, <2>1, ActionSet
    <2>5. QED BY ONLY <2>3, <2>4
  <1>10. _binding_tick(row, o) =
           IF o = "probe_error" THEN error
           ELSE IF e = "settling" THEN settling ELSE IF ~Applies(row, o) THEN next ELSE applied
    BY DEF _binding_tick, e, next, probed
  <1>11. BindingEdge(Streaks(row, o)) = e
    <2>1. /\ Streaks(row, o).recovery_streak = next.recovery_streak
          /\ Streaks(row, o).failure_streak = next.failure_streak
      BY DEF Streaks, next, probed, RuleRow
    <2>2. QED BY <2>1 DEF BindingEdge, e
  <1>12. Applies(row, o) => o # "probe_error" /\ e # "settling"
    BY <1>11 DEF Applies
  <1>13. QED BY <1>6, <1>7, <1>8, <1>9, <1>10, <1>12

LEMMA JobTypes ==
    ASSUME RuleTypes, tick.running
    PROVE  /\ tick.due \subseteq Rule /\ tick.todo \subseteq tick.due
           /\ tick.snap \in [tick.due -> RuleRow] /\ tick.view \in [tick.due -> RuleRow]
           /\ tick \in RowsOver(tick.due)
  <1>1. tick # NoTick BY DEF NoTick
  <1>2. PICK due \in SUBSET Rule : tick \in RowsOver(due) BY <1>1 DEF RuleTypes
  <1>3. tick.due = due BY <1>2 DEF RowsOver
  <1>4. QED BY <1>2, <1>3 DEF RowsOver

\* What an operator writes into a row that is or was live.
LEMMA EditKeeps ==
    ASSUME RuleInv, NEW r \in Rule, NEW row \in RuleRow,
           row.acted = rule[r].acted, row.state # "absent",
           rule' = [rule EXCEPT ![r] = row], UNCHANGED <<tick, fireAge, unsaved>>
    PROVE  RuleInv'
  <1>1. rule \in [Rule -> RuleRow] BY DEF RuleInv, RuleTypes
  <1>2. rule' \in [Rule -> RuleRow] BY <1>1
  <1>3. \A s \in Rule : rule'[s] = IF s = r THEN row ELSE rule[s] BY <1>1
  <1>4. \A s \in Rule : rule'[s].acted = rule[s].acted BY <1>3
  <1>5. RuleTypes' BY <1>2 DEF RuleInv, RuleTypes, RowsOver, RuleRow, NoTick, Outcomes, Markers
  <1>6. TickOwns'
    <2>1. CASE ~tick.running BY <2>1 DEF TickOwns
    <2>2. CASE tick.running
      BY <1>3, <1>4, <2>2, JobTypes DEF RuleInv, TickOwns
    <2>3. QED BY <2>1, <2>2
  <1>7. AbsentNeverActed' BY <1>3, <1>4 DEF RuleInv, AbsentNeverActed
  <1>8. ActedIsKnown'
    BY <1>4 DEF RuleInv, ActedIsKnown, LastActed
  <1>9. QED BY <1>5, <1>6, <1>7, <1>8 DEF RuleInv

\* What the tick makes of one of its rows, with or without a dispatch.
LEMMA EvaluatedKeeps ==
    ASSUME RuleInv, Cooldown \in Nat, tick.running, NEW r \in tick.todo, NEW row \in RuleRow,
           Evaluated(r, row), rule' = rule,
           \/ row.acted = tick.view[r].acted /\ UNCHANGED <<fireAge, unsaved>>
           \/ row.acted = 0 /\ Dispatched(r)
    PROVE  RuleInv'
  <1>1. /\ tick.due \subseteq Rule /\ tick.todo \subseteq tick.due
        /\ tick.snap \in [tick.due -> RuleRow] /\ tick.view \in [tick.due -> RuleRow]
        /\ tick \in RowsOver(tick.due)
    BY JobTypes DEF RuleInv
  <1>2. r \in tick.due /\ r \in Rule BY <1>1
  <1>3. /\ tick'.running /\ tick'.due = tick.due /\ tick'.todo = tick.todo \ {r}
        /\ tick'.snap = tick.snap /\ tick'.view = [tick.view EXCEPT ![r] = row]
        /\ tick' \in RowsOver(tick.due)
    BY <1>1, <1>2 DEF Evaluated, RowsOver
  <1>4. \A s \in tick.due : tick'.view[s] = IF s = r THEN row ELSE tick.view[s]
    BY <1>1, <1>3
  <1>5. fireAge \in [Rule -> 0 .. Cooldown] BY DEF RuleInv, RuleTypes
  <1>6. fireAge' \in [Rule -> 0 .. Cooldown] /\ \A s \in Rule : s # r => fireAge'[s] = fireAge[s]
    BY <1>2, <1>5 DEF Dispatched
  <1>7. RuleTypes'
    <2>1. rule' \in [Rule -> RuleRow] BY DEF RuleInv, RuleTypes
    <2>2. QED BY <1>1, <1>3, <1>6, <2>1 DEF RuleTypes, RowsOver, RuleRow, NoTick, Outcomes, Markers
  <1>8. TickOwns' BY <1>1, <1>3, <1>4 DEF RuleInv, TickOwns
  <1>9. AbsentNeverActed' BY DEF RuleInv, AbsentNeverActed
  <1>10. ActedIsKnown'
    <2> SUFFICES ASSUME NEW s \in Rule, s \notin unsaved' PROVE LastActed(s)' <= fireAge'[s]
      BY DEF ActedIsKnown
    <2>1. CASE s # r
      <3>1. s \notin unsaved BY <2>1 DEF Dispatched
      <3>2. LastActed(s)' = LastActed(s) BY <1>3, <1>4, <2>1 DEF LastActed
      <3>3. fireAge'[s] = fireAge[s] BY <1>6, <2>1
      <3>4. QED BY <3>1, <3>2, <3>3 DEF RuleInv, ActedIsKnown
    <2>2. CASE s = r
      <3>1. LastActed(s)' = row.acted BY <1>2, <1>3, <1>4, <2>2 DEF LastActed
      <3>2. CASE row.acted = tick.view[r].acted /\ UNCHANGED <<fireAge, unsaved>>
        <4>1. LastActed(r) = tick.view[r].acted BY <1>2 DEF LastActed
        <4>2. LastActed(r) <= fireAge[r] BY <1>2, <2>2, <3>2 DEF RuleInv, ActedIsKnown
        <4>3. QED BY <2>2, <3>1, <3>2, <4>1, <4>2
      <3>3. CASE row.acted = 0 /\ Dispatched(r)
        <4>1. fireAge'[r] = 0 BY <1>2, <1>5, <3>3 DEF Dispatched
        <4>2. QED BY <2>2, <3>1, <3>3, <4>1
      <3>4. QED BY <3>2, <3>3
    <2>3. QED BY <2>1, <2>2
  <1>11. QED BY <1>7, <1>8, <1>9, <1>10 DEF RuleInv

LEMMA NewRowType ==
    ASSUME NEW b \in BOOLEAN, NEW t \in Target
    PROVE  /\ NewRow(b, t) \in RuleRow /\ NewRow(b, t).acted = Cooldown
           /\ NewRow(b, t).state = "live"
  BY WatchdogAssumption DEF NewRow, RuleRow

LEMMA AnyTargetIsOne == AnyTarget \in Target
  BY WatchdogAssumption DEF AnyTarget

LEMMA RuleInit == ASSUME WatchdogInit PROVE RuleInv
  <1> DEFINE absent == [NewRow(FALSE, AnyTarget) EXCEPT !.state = "absent"]
  <1>1. Cooldown \in Nat BY WatchdogAssumption
  <1>2. NewRow(FALSE, AnyTarget) \in RuleRow /\ NewRow(FALSE, AnyTarget).acted = Cooldown
    BY NewRowType, AnyTargetIsOne
  <1>3. absent \in RuleRow BY <1>2 DEF RuleRow
  <1>4. absent.acted = Cooldown BY <1>2 DEF RuleRow
  <1>5. rule = [r \in Rule |-> absent] /\ tick = NoTick /\ fireAge = [r \in Rule |-> Cooldown]
    BY DEF WatchdogInit
  <1> HIDE DEF absent
  <1>6. RuleTypes BY <1>1, <1>3, <1>5 DEF RuleTypes
  <1>7. ~tick.running BY <1>5 DEF NoTick
  <1>8. TickOwns BY <1>7 DEF TickOwns
  <1>9. AbsentNeverActed BY <1>4, <1>5 DEF AbsentNeverActed
  <1>10. ActedIsKnown
    <2>1. \A r \in Rule : LastActed(r) = Cooldown /\ fireAge[r] = Cooldown
      BY <1>4, <1>5, <1>7 DEF LastActed
    <2>2. Cooldown <= Cooldown BY <1>1
    <2>3. QED BY <2>1, <2>2 DEF ActedIsKnown
  <1>11. QED BY <1>6, <1>8, <1>9, <1>10 DEF RuleInv

LEMMA EditsKeep ==
    ASSUME RuleInv, NEW r \in Rule, NEW b \in BOOLEAN, NEW t \in Target,
           create_rule(r, b, t) \/ update_rule(r, b, t) \/ set_enabled(r, b) \/ delete_rule(r)
    PROVE  RuleInv'
  <1>1. rule[r] \in RuleRow BY DEF RuleInv, RuleTypes
  <1>2. CASE create_rule(r, b, t)
    <2>1. rule[r].acted = Cooldown BY <1>2 DEF create_rule, RuleInv, AbsentNeverActed
    <2>2. /\ NewRow(b, t) \in RuleRow /\ NewRow(b, t).acted = Cooldown
          /\ NewRow(b, t).state # "absent"
      BY NewRowType
    <2>3. /\ rule' = [rule EXCEPT ![r] = NewRow(b, t)] /\ UNCHANGED <<tick, fireAge, unsaved>>
      BY <1>2 DEF create_rule
    <2>4. QED BY <2>1, <2>2, <2>3, EditKeeps
  <1>3. CASE update_rule(r, b, t)
    <2> DEFINE status == IF rule[r].enabled /\ rule[r].status # "disabled" THEN "armed" ELSE rule[r].status
               row == [rule[r] EXCEPT !.binding = b, !.target = t, !.failure_streak = 0, !.recovery_streak = 0,
                                      !.status = status]
    <2>1. status \in {"armed", "firing", "disabled"} BY <1>1 DEF RuleRow
    <2> HIDE DEF status
    <2>2. row \in RuleRow BY <1>1, <2>1 DEF RuleRow
    <2>3. row.acted = rule[r].acted /\ row.state = rule[r].state BY <1>1 DEF RuleRow
    <2>4. /\ rule[r].state = "live" /\ rule' = [rule EXCEPT ![r] = row]
          /\ UNCHANGED <<tick, fireAge, unsaved>>
      BY <1>1, <1>3 DEF update_rule, Edit, RuleRow, status
    <2> HIDE DEF row
    <2>5. QED BY <2>2, <2>3, <2>4, EditKeeps
  <1>4. CASE set_enabled(r, b)
    <2> DEFINE status == IF b THEN "armed" ELSE "disabled"
               row == [rule[r] EXCEPT !.enabled = b, !.status = status]
    <2>1. status \in {"armed", "firing", "disabled"} OBVIOUS
    <2> HIDE DEF status
    <2>2. row \in RuleRow BY <1>1, <2>1 DEF RuleRow
    <2>3. row.acted = rule[r].acted /\ row.state = rule[r].state BY <1>1 DEF RuleRow
    <2>4. /\ rule[r].state = "live" /\ rule' = [rule EXCEPT ![r] = row]
          /\ UNCHANGED <<tick, fireAge, unsaved>>
      BY <1>4 DEF set_enabled, Edit, status
    <2> HIDE DEF row
    <2>5. QED BY <2>2, <2>3, <2>4, EditKeeps
  <1>5. CASE delete_rule(r)
    <2> DEFINE row == Forgotten(rule[r])
               new == NewRow(FALSE, AnyTarget)
    <2>0. new \in RuleRow /\ row = [new EXCEPT !.state = "gone", !.acted = rule[r].acted]
      BY NewRowType, AnyTargetIsOne DEF Forgotten
    <2> HIDE DEF row, new
    <2>1. row \in RuleRow BY <1>1, <2>0 DEF RuleRow
    <2>2. row.acted = rule[r].acted /\ row.state = "gone" BY <1>1, <2>0 DEF RuleRow
    <2>3. /\ rule' = [rule EXCEPT ![r] = row] /\ UNCHANGED <<tick, fireAge, unsaved>>
      BY <1>5 DEF delete_rule, Edit, row
    <2>4. QED BY <2>1, <2>2, <2>3, EditKeeps
  <1>6. QED BY <1>2, <1>3, <1>4, <1>5

LEMMA BeginKeeps == ASSUME RuleInv, tick_begin PROVE RuleInv'
  <1> DEFINE due == {r \in Rule : rule[r].state = "live" /\ rule[r].enabled
                                   /\ rule[r].status # "disabled" /\ _rule_is_due(rule[r])}
             copy == [r \in due |-> rule[r]]
  <1>1. /\ tick' = [running |-> TRUE, todo |-> due, due |-> due, snap |-> copy, view |-> copy]
        /\ ~tick.running /\ UNCHANGED <<rule, fireAge, unsaved>>
    BY DEF tick_begin
  <1>2. due \in SUBSET Rule /\ \A r \in due : rule[r].state # "absent" OBVIOUS
  <1> HIDE DEF due
  <1>3. copy \in [due -> RuleRow] /\ \A r \in due : copy[r] = rule[r]
    BY <1>2 DEF RuleInv, RuleTypes
  <1> HIDE DEF copy
  <1>4. /\ tick'.running /\ tick'.due = due /\ tick'.todo = due /\ tick'.snap = copy /\ tick'.view = copy
        /\ tick' \in RowsOver(due)
    BY <1>1, <1>3 DEF RowsOver
  <1>5. RuleTypes'
    <2>1. rule' \in [Rule -> RuleRow] /\ fireAge' \in [Rule -> 0 .. Cooldown]
      BY <1>1 DEF RuleInv, RuleTypes
    <2>2. QED BY <1>2, <1>4, <2>1 DEF RuleTypes, RowsOver, RuleRow, NoTick, Outcomes, Markers
  <1>6. TickOwns' BY <1>1, <1>2, <1>3, <1>4 DEF TickOwns
  <1>7. AbsentNeverActed' BY <1>1 DEF RuleInv, AbsentNeverActed
  <1>8. ActedIsKnown'
    <2>1. \A r \in Rule : LastActed(r)' = LastActed(r) BY <1>1, <1>3, <1>4 DEF LastActed
    <2>2. QED BY <1>1, <2>1 DEF RuleInv, ActedIsKnown
  <1>9. QED BY <1>5, <1>6, <1>7, <1>8 DEF RuleInv

LEMMA SkipKeeps ==
    ASSUME RuleInv, NEW r \in Rule, tick_skips(r) PROVE RuleInv'
  <1> DEFINE row == [tick.view[r] EXCEPT !.probed = 0, !.last_outcome = "maintenance_skip"]
  <1>1. Cooldown \in Nat BY WatchdogAssumption
  <1>2. /\ tick.running /\ r \in tick.todo /\ Evaluated(r, row)
        /\ rule' = rule /\ UNCHANGED <<fireAge, unsaved>>
    BY DEF tick_skips
  <1>3. tick.view[r] \in RuleRow BY <1>2, JobTypes DEF RuleInv
  <1>4. row \in RuleRow BY <1>3 DEF RuleRow
  <1>5. row.acted = tick.view[r].acted BY <1>3 DEF RuleRow
  <1> HIDE DEF row
  <1>6. QED BY <1>1, <1>2, <1>4, <1>5, EvaluatedKeeps

LEMMA ProbeKeeps ==
    ASSUME RuleInv, NEW r \in Rule, NEW o \in Outcomes, tick_probes(r, o)
    PROVE  RuleInv'
  <1> DEFINE row == tick.view[r]
  <1>1. Cooldown \in Nat BY WatchdogAssumption
  <1>2. tick.running /\ r \in tick.todo /\ rule' = rule BY DEF tick_probes
  <1>3. row \in RuleRow BY <1>2, JobTypes DEF RuleInv
  <1>4. CASE row.binding
    <2> DEFINE new == _binding_tick(row, o)
    <2>1. new \in RuleRow /\ new.acted = IF Applies(row, o) THEN 0 ELSE row.acted
      BY <1>3, BindingRow
    <2>2. /\ Evaluated(r, new)
          /\ IF Applies(row, o) THEN Dispatched(r) ELSE UNCHANGED <<fireAge, unsaved>>
      BY <1>4 DEF tick_probes
    <2> HIDE DEF new
    <2>3. QED BY <1>1, <1>2, <2>1, <2>2, EvaluatedKeeps
  <1>5. CASE ~row.binding
    <2> DEFINE new == _update_state(row, o)
    <2>1. new \in RuleRow /\ new.acted = IF o = "failure" /\ Fires(row) THEN 0 ELSE row.acted
      BY <1>3, ThresholdRow
    <2>2. /\ Evaluated(r, new)
          /\ IF o = "failure" /\ Fires(row) THEN Dispatched(r) ELSE UNCHANGED <<fireAge, unsaved>>
      BY <1>5 DEF tick_probes
    <2> HIDE DEF new
    <2>3. QED BY <1>1, <1>2, <2>1, <2>2, EvaluatedKeeps
  <1>6. QED BY <1>4, <1>5

LEMMA WrittenRow ==
    ASSUME RuleInv, tick.running, NEW r \in tick.due
    PROVE  /\ Written(r) \in RuleRow /\ Written(r).acted = tick.view[r].acted
           /\ Written(r).state = rule[r].state
  <1> DEFINE snap == tick.snap[r]
             view == tick.view[r]
             Column(old, new, current) == IF new # old THEN new ELSE current
             st == Column(snap.status, view.status, rule[r].status)
             fs == Smaller(FailureThreshold,
                         Column(snap.failure_streak, view.failure_streak, rule[r].failure_streak))
             rs == Smaller(RecoveryThreshold,
                         Column(snap.recovery_streak, view.recovery_streak, rule[r].recovery_streak))
             pr == Column(snap.probed, view.probed, rule[r].probed)
             ac == Column(snap.acted, view.acted, rule[r].acted)
             lo == Column(snap.last_outcome, view.last_outcome, rule[r].last_outcome)
  <1>1. snap \in RuleRow /\ view \in RuleRow /\ r \in Rule BY JobTypes DEF RuleInv
  <1>2. rule[r] \in RuleRow /\ rule[r].acted = snap.acted
    BY <1>1 DEF RuleInv, RuleTypes, TickOwns
  <1>3. ac = view.acted /\ ac \in 0 .. Cooldown BY <1>1, <1>2 DEF RuleRow
  <1>4. st \in {"armed", "firing", "disabled"} BY <1>1, <1>2 DEF RuleRow
  <1>5. fs \in Nat BY WatchdogAssumption, <1>1, <1>2 DEF RuleRow, Smaller
  <1>6. rs \in Nat BY WatchdogAssumption, <1>1, <1>2 DEF RuleRow, Smaller
  <1>7. pr \in Nat BY <1>1, <1>2 DEF RuleRow
  <1>8. lo \in Outcomes \cup Markers \cup {"none", "maintenance_skip"}
    BY <1>1, <1>2 DEF RuleRow
  <1>9. Written(r) = [rule[r] EXCEPT !.status = st, !.failure_streak = fs, !.recovery_streak = rs,
                                       !.probed = pr, !.acted = ac, !.last_outcome = lo]
    BY <1>2 DEF Written, RuleRow
  <1> HIDE DEF st, fs, rs, pr, ac, lo, view, snap
  <1>10. /\ Written(r) \in RuleRow
    BY <1>2, <1>3, <1>4, <1>5, <1>6, <1>7, <1>8, <1>9 DEF RuleRow
  <1>11. Written(r).acted = ac /\ Written(r).state = rule[r].state
    BY <1>2, <1>9 DEF RuleRow
  <1>12. QED BY <1>3, <1>10, <1>11 DEF view

\* The tick ends without its columns: what it dispatched is not saved.
LEMMA LostKeeps ==
    ASSUME RuleInv, tick.running, tick' = NoTick, UNCHANGED <<rule, fireAge>>,
           unsaved' = unsaved \cup FiredInTick
    PROVE  RuleInv'
  <1>1. ~tick'.running BY DEF NoTick
  <1>2. RuleTypes' BY DEF RuleInv, RuleTypes, NoTick
  <1>3. TickOwns' BY <1>1 DEF TickOwns
  <1>4. AbsentNeverActed' BY DEF RuleInv, AbsentNeverActed
  <1>5. ActedIsKnown'
    <2> SUFFICES ASSUME NEW r \in Rule, r \notin unsaved' PROVE LastActed(r)' <= fireAge'[r]
      BY DEF ActedIsKnown
    <2>1. LastActed(r)' = rule[r].acted BY <1>1 DEF LastActed
    <2>2. LastActed(r) = rule[r].acted
      BY DEF LastActed, FiredInTick, RuleInv, TickOwns
    <2>3. QED BY <2>1, <2>2 DEF RuleInv, ActedIsKnown
  <1>6. QED BY <1>2, <1>3, <1>4, <1>5 DEF RuleInv

LEMMA CommitKeeps == ASSUME RuleInv, tick_commit PROVE RuleInv'
  <1>1. tick.running /\ tick' = NoTick /\ UNCHANGED fireAge BY DEF tick_commit
  <1>2. ~tick'.running BY <1>1 DEF NoTick
  <1>3. tick.due \subseteq Rule BY <1>1, JobTypes DEF RuleInv
  <1>4. CASE \A r \in tick.due : rule[r].state = "live"
    <2>1. /\ rule' = [r \in Rule |-> IF r \in tick.due THEN Written(r) ELSE rule[r]]
          /\ UNCHANGED unsaved
      BY <1>4 DEF tick_commit
    <2>2. rule \in [Rule -> RuleRow] BY DEF RuleInv, RuleTypes
    <2>3. \A r \in tick.due : /\ Written(r) \in RuleRow /\ Written(r).acted = tick.view[r].acted
                             /\ Written(r).state = rule[r].state
      BY <1>1, WrittenRow
    <2>4. rule' \in [Rule -> RuleRow] BY <2>1, <2>2, <2>3
    <2>5. RuleTypes' BY <1>1, <2>4 DEF RuleInv, RuleTypes, NoTick
    <2>6. TickOwns' BY <1>2 DEF TickOwns
    <2>7. AbsentNeverActed' BY <1>3, <1>4, <2>1, <2>3 DEF RuleInv, AbsentNeverActed
    <2>8. \A r \in Rule : LastActed(r)' = LastActed(r) BY <1>1, <1>2, <2>1, <2>3 DEF LastActed
    <2>9. ActedIsKnown' BY <1>1, <2>1, <2>8 DEF RuleInv, ActedIsKnown
    <2>10. QED BY <2>5, <2>6, <2>7, <2>9 DEF RuleInv
  <1>5. CASE ~ \A r \in tick.due : rule[r].state = "live"
    <2>1. unsaved' = unsaved \cup FiredInTick /\ UNCHANGED rule BY <1>5 DEF tick_commit
    <2>2. QED BY <1>1, <2>1, LostKeeps
  <1>6. QED BY <1>4, <1>5

LEMMA ClockKeeps == ASSUME RuleInv, Clock PROVE RuleInv'
  <1> DEFINE Older(row) == [row EXCEPT !.probed = UpTo(Window, @), !.acted = UpTo(Cooldown, @)]
  <1>1. /\ ~tick.running /\ UNCHANGED <<tick, unsaved>>
        /\ rule' = [r \in Rule |-> Older(rule[r])]
        /\ fireAge' = [r \in Rule |-> UpTo(Cooldown, fireAge[r])]
    BY DEF Clock
  <1>2. rule \in [Rule -> RuleRow] /\ fireAge \in [Rule -> 0 .. Cooldown] BY DEF RuleInv, RuleTypes
  <1>3. ASSUME NEW row \in RuleRow
        PROVE  Older(row) \in RuleRow /\ Older(row).acted = UpTo(Cooldown, row.acted)
                /\ Older(row).state = row.state
    <2>1. PICK p \in Nat : p = UpTo(Window, row.probed)
      BY WatchdogAssumption DEF RuleRow, UpTo, Smaller
    <2>2. PICK a \in 0 .. Cooldown : a = UpTo(Cooldown, row.acted)
      BY WatchdogAssumption DEF RuleRow, UpTo, Smaller
    <2>3. Older(row) = [row EXCEPT !.probed = p, !.acted = a] BY <2>1, <2>2 DEF RuleRow
    <2>4. [row EXCEPT !.probed = p, !.acted = a] \in RuleRow BY DEF RuleRow
    <2>5. [row EXCEPT !.probed = p, !.acted = a].acted = a BY DEF RuleRow
    <2>6. [row EXCEPT !.probed = p, !.acted = a].state = row.state BY DEF RuleRow
    <2> HIDE DEF Older
    <2>7. QED BY <2>2, <2>3, <2>4, <2>5, <2>6
  <1> HIDE DEF Older
  <1>4. \A r \in Rule : /\ rule'[r].acted = UpTo(Cooldown, rule[r].acted)
                        /\ rule'[r].state = rule[r].state
    BY <1>1, <1>2, <1>3
  <1>5. \A r \in Rule : fireAge[r] \in 0 .. Cooldown /\ rule[r].acted \in 0 .. Cooldown
    BY <1>2 DEF RuleRow
  <1>6. UpTo(Cooldown, Cooldown) = Cooldown BY WatchdogAssumption DEF UpTo, Smaller
  <1>7. RuleTypes'
    <2>1. rule' \in [Rule -> RuleRow] BY <1>1, <1>2, <1>3
    <2>2. fireAge' \in [Rule -> 0 .. Cooldown]
      <3>1. \A r \in Rule : UpTo(Cooldown, fireAge[r]) \in 0 .. Cooldown
        <4> SUFFICES ASSUME NEW r \in Rule PROVE UpTo(Cooldown, fireAge[r]) \in 0 .. Cooldown
          OBVIOUS
        <4>1. fireAge[r] \in 0 .. Cooldown /\ Cooldown \in Nat BY <1>5, WatchdogAssumption
        <4>2. QED BY ONLY <4>1 DEF UpTo, Smaller
      <3>2. QED BY <1>1, <3>1
    <2>3. tick' = NoTick
      <3>1. \A due \in SUBSET Rule : tick \notin RowsOver(due) BY <1>1 DEF RowsOver
      <3>2. QED BY <1>1, <3>1 DEF RuleInv, RuleTypes, NoTick
    <2>4. QED BY <2>1, <2>2, <2>3 DEF RuleTypes, NoTick
  <1>8. TickOwns' BY <1>1 DEF TickOwns
  <1>9. AbsentNeverActed' BY <1>4, <1>6 DEF RuleInv, AbsentNeverActed
  <1>10. ActedIsKnown'
    <2> SUFFICES ASSUME NEW r \in Rule, r \notin unsaved PROVE LastActed(r)' <= fireAge'[r]
      BY <1>1 DEF ActedIsKnown
    <2>1. LastActed(r)' = UpTo(Cooldown, rule[r].acted) BY <1>1, <1>4 DEF LastActed
    <2>2. fireAge'[r] = UpTo(Cooldown, fireAge[r]) BY <1>1
    <2>3. rule[r].acted <= fireAge[r] BY <1>1 DEF RuleInv, ActedIsKnown, LastActed
    <2>4. UpTo(Cooldown, rule[r].acted) <= UpTo(Cooldown, fireAge[r])
      BY WatchdogAssumption, <1>5, <2>3 DEF UpTo, Smaller
    <2>5. QED BY <2>1, <2>2, <2>4
  <1>11. QED BY <1>7, <1>8, <1>9, <1>10 DEF RuleInv

LEMMA RuleFrame == ASSUME RuleInv, UNCHANGED <<rule, tick, fireAge, unsaved>> PROVE RuleInv'
  <1>1. RuleTypes'
    BY DEF RuleInv, RuleTypes, RowsOver, RuleRow, NoTick, Outcomes, Markers
  <1>2. TickOwns' /\ AbsentNeverActed' BY DEF RuleInv, TickOwns, AbsentNeverActed
  <1>3. ActedIsKnown' BY DEF RuleInv, ActedIsKnown, LastActed
  <1>4. QED BY <1>1, <1>2, <1>3 DEF RuleInv

LEMMA RuleStep ==
    ASSUME RuleInv, [WatchdogNext]_watchdogVars
    PROVE  RuleInv'
  <1>1. CASE \E r \in Rule :
               \/ \E b \in BOOLEAN, t \in Target : create_rule(r, b, t) \/ update_rule(r, b, t)
               \/ \E b \in BOOLEAN : set_enabled(r, b)
               \/ delete_rule(r)
    BY <1>1, EditsKeep, AnyTargetIsOne
  <1>2. CASE \E b \in BOOLEAN : set_maintenance_mode(b)
    BY <1>2, RuleFrame DEF set_maintenance_mode
  <1>3. CASE tick_begin BY <1>3, BeginKeeps
  <1>4. CASE Evaluate BY <1>4, SkipKeeps, ProbeKeeps DEF Evaluate
  <1>5. CASE tick_commit BY <1>5, CommitKeeps
  <1>6. CASE HubRestart BY <1>6, LostKeeps DEF HubRestart
  <1>7. CASE Clock BY <1>7, ClockKeeps
  <1>8. CASE UNCHANGED watchdogVars
    BY <1>8, RuleFrame DEF watchdogVars
  <1>9. QED BY <1>1, <1>2, <1>3, <1>4, <1>5, <1>6, <1>7, <1>8 DEF WatchdogNext

\* Whatever operators edit while a tick runs, the time the next evaluation takes
\* for the one since the rule's last action is never more than the real one,
\* unless that action's tick was lost.
THEOREM LastActionIsKnown == WatchdogSpec => []ActedIsKnown
  <1>1. WatchdogInit => RuleInv BY RuleInit
  <1>2. RuleInv /\ [WatchdogNext]_watchdogVars => RuleInv' BY RuleStep
  <1>3. RuleInv => ActedIsKnown BY DEF RuleInv
  <1>4. QED BY <1>1, <1>2, <1>3, PTL DEF WatchdogSpec

\* A threshold rule's action is not dispatched again within cooldown_seconds
\* (_update_state_and_maybe_fire), unless the tick that dispatched it was
\* rolled back or killed.
THEOREM CooldownKept == WatchdogSpec => CooldownHolds
  <1> DEFINE Cool == \A r \in Rule : Fire(r) => fireAge[r] >= Cooldown \/ r \in unsaved
  <1>1. WatchdogInit => RuleInv BY RuleInit
  <1>2. RuleInv /\ [WatchdogNext]_watchdogVars => RuleInv' BY RuleStep
  <1>3. RuleInv => Cool
    <2> SUFFICES ASSUME RuleInv, NEW r \in Rule, Fire(r), r \notin unsaved PROVE fireAge[r] >= Cooldown
      OBVIOUS
    <2>1. tick.running /\ r \in tick.todo /\ tick.view[r].acted >= Cooldown BY DEF Fire, Fires
    <2>2. r \in tick.due /\ tick.view[r] \in RuleRow BY <2>1, JobTypes DEF RuleInv
    <2>3. tick.view[r].acted <= fireAge[r] BY <2>1, <2>2 DEF RuleInv, ActedIsKnown, LastActed
    <2>4. tick.view[r].acted \in Nat /\ fireAge[r] \in Nat /\ Cooldown \in Nat
      BY WatchdogAssumption, <2>2 DEF RuleInv, RuleTypes, RuleRow
    <2>5. QED BY <2>1, <2>3, <2>4
  <1>4. CooldownHolds <=> [][Cool]_watchdogVars BY DEF CooldownHolds
  <1> HIDE DEF Cool
  <1>5. QED BY <1>1, <1>2, <1>3, <1>4, PTL DEF WatchdogSpec

-----------------------------------------------------------------------------
(* Firmware: the files behind the releases.                                *)
(*                                                                         *)
(* The argument.  As long as nobody has changed the files of a name behind *)
(* its rows, one row at most bears it, one request at most works on it     *)
(* (OneBusy), its files are in one channel's directory at most (OneCopy),  *)
(* and what that request has put on disk or has hashed is what the row it  *)
(* writes will say (UploadOwns, ScanOwns).                                 *)

Image == Contents \cup {None, Cut}

RelRow == [file: Files \cup {None}, sha: Image, url: {None, "flat", "chan"}]

Upload == [op: {"replace", "copy", "insert"}, n: Releases, f: Files, c: Contents]

Scan == [op: {"hash", "scan"}, ch: Channels, f: Files, to: Releases \cup {None, "gone"}, c: Image]

FirmwareJob ==
  [op: {"idle"}] \cup Upload \cup Scan
    \cup [op: {"deploy"}, i: Nat, old: SUBSET Nat]
    \cup [op: {"offer"}, offer: [n: Releases, row: RelRow]]
    \cup [op: {"mark"}, offer: [n: Releases, row: RelRow], i: Nat]

Assignment == [n: Releases, st: {"open", "pending", "delivered", "completed", "superseded", "deleted"}]

FirmwareTypes ==
  /\ flat \in [Files -> Image]
  /\ chan \in [Channels -> [Files -> Image]]
  /\ rel \in [Releases -> RelRow]
  /\ \A n \in Releases : rel[n] = NoRow \/ rel[n].file \in Files
  /\ asg \in Seq(Assignment)
  /\ job \in [Workers -> FirmwareJob]
  /\ done \in 0 .. Len(asg)
  /\ raced \in BOOLEAN

\* The one row of the name has the hash of what it points to, and the name is
\* in its channel's directory alone, with that content if at all.
RowTells(f) == \A n \in Namesakes(f) :
  /\ \A m \in Namesakes(f) : m = n
  /\ Served(n, rel[n]) = rel[n].sha
  /\ \A ch \in Channels : chan[ch][f] = None \/ (ch = ChannelOf[n] /\ chan[ch][f] = rel[n].sha)

OneBusy(f) == \A v, w \in Busy(f) : v = w

OneCopy(f) == \A d, e \in Channels : chan[d][f] # None /\ chan[e][f] # None => d = e

\* An upload is alone with its name, and has written what its row will say.
UploadOwns(f) == \A w \in Busy(f) : job[w].op \in {"replace", "copy", "insert"} =>
  /\ Namesakes(f) = {}
  /\ \A ch \in Channels : ch # ChannelOf[job[w].n] => chan[ch][f] = None
  /\ job[w].op \in {"copy", "insert"} => flat[f] = job[w].c
  /\ job[w].op = "insert" => chan[ChannelOf[job[w].n]][f] \in {None, job[w].c}

\* A scan has the hash of the row it has found, or has found none.
ScanOwns(f) == \A w \in Busy(f) : job[w].op \in {"hash", "scan"} =>
  \/ job[w].to = None /\ Namesakes(f) = {}
       /\ (job[w].op = "scan" => job[w].c # None /\ chan[job[w].ch][f] = job[w].c)
  \/ job[w].op = "hash" /\ job[w].to \in Namesakes(f) /\ job[w].c = rel[job[w].to].sha

FileInv(f) == f \notin touched =>
  RowTells(f) /\ OneBusy(f) /\ OneCopy(f) /\ UploadOwns(f) /\ ScanOwns(f)

\* The row a scan will update bears the name of its file.
ScanTarget == \A w \in Workers :
  job[w].op \in {"hash", "scan"} /\ job[w].to \in Releases => rel[job[w].to].file = job[w].f

FilesInv == ScanTarget /\ \A f \in Files : FileInv(f)

\* The newest assignment alone can be about to become active, and then it
\* supersedes all that are.
OneDeploy == ~raced => \A v, w \in Workers : job[v].op = "deploy" /\ job[w].op = "deploy" => v = w

DeployIsNewest == ~raced => \A w \in Workers : job[w].op = "deploy" =>
  /\ job[w].i = Len(asg) /\ Len(asg) > 0
  /\ asg[job[w].i].st \in {"open", "deleted"}
  /\ Active \subseteq job[w].old

OneActive == ~raced => \A a, b \in Active : a = b

DoneIsOlder == ~raced => \A a \in Active : done <= a

MarkIsOld == \A w \in Workers : job[w].op = "mark" => job[w].i <= Len(asg)

RolloutInv == OneDeploy /\ DeployIsNewest /\ OneActive /\ DoneIsOlder /\ MarkIsOld

FirmwareInv == FirmwareTypes /\ FilesInv /\ RolloutInv

LEMMA JobSet ==
    ASSUME FirmwareTypes, NEW w \in Workers, NEW j \in FirmwareJob, job' = [job EXCEPT ![w] = j]
    PROVE  /\ job' \in [Workers -> FirmwareJob] /\ job'[w] = j
           /\ \A v \in Workers : v # w => job'[v] = job[v]
  <1>1. job \in [Workers -> FirmwareJob] BY DEF FirmwareTypes
  <1> HIDE DEF FirmwareJob
  <1>2. QED BY <1>1

\* The shape of a job, by what it does.
LEMMA JobShape ==
    ASSUME FirmwareTypes, NEW w \in Workers
    PROVE  /\ job[w].op \in {"replace", "copy", "insert"} => job[w] \in Upload
           /\ job[w].op \in {"hash", "scan"} => job[w] \in Scan
           /\ job[w].op = "deploy" => job[w].i \in Nat /\ job[w].old \in SUBSET Nat
           /\ job[w].op = "offer" => job[w].offer \in [n: Releases, row: RelRow]
           /\ job[w].op = "mark" => job[w].i \in Nat
           /\ job[w] \in FirmwareJob
  <1>1. job[w] \in FirmwareJob BY DEF FirmwareTypes
  <1>2. QED BY <1>1 DEF FirmwareJob, Upload, Scan

LEMMA UploadJob ==
    ASSUME NEW j \in Upload
    PROVE  /\ j \in FirmwareJob /\ j.n \in Releases /\ j.f \in Files /\ j.c \in Contents
           /\ j.op \in {"replace", "copy", "insert"}
           /\ \A op \in {"replace", "copy", "insert"} :
                [j EXCEPT !.op = op] = [op |-> op, n |-> j.n, f |-> j.f, c |-> j.c]
  BY DEF Upload, FirmwareJob

LEMMA ScanJob ==
    ASSUME NEW j \in Scan
    PROVE  /\ j \in FirmwareJob /\ j.ch \in Channels /\ j.f \in Files /\ j.c \in Image
           /\ j.to \in Releases \cup {None, "gone"} /\ j.op \in {"hash", "scan"}
  BY DEF Scan, FirmwareJob

LEMMA IdleJob == Idle \in FirmwareJob /\ Idle.op = "idle"
  BY DEF Idle, FirmwareJob

\* A request works on the name its job has.
LEMMA BusyOn ==
    ASSUME NEW f \in Files, NEW w \in Workers
    PROVE  w \in Busy(f) <=> job[w].op \in {"replace", "copy", "insert", "hash", "scan"} /\ job[w].f = f
  BY DEF Busy

LEMMA ChanSet ==
    ASSUME FirmwareTypes, NEW d \in Channels, NEW f \in Files, NEW v, v \in Image,
           chan' = [chan EXCEPT ![d][f] = v]
    PROVE  /\ chan' \in [Channels -> [Files -> Image]] /\ chan'[d][f] = v
           /\ \A ch \in Channels, g \in Files : ch # d \/ g # f => chan'[ch][g] = chan[ch][g]
  <1>1. chan \in [Channels -> [Files -> Image]] BY DEF FirmwareTypes
  <1> HIDE DEF Image
  <1>2. PICK row \in [Files -> Image] : row = [chan[d] EXCEPT ![f] = v] BY <1>1
  <1>3. chan' = [chan EXCEPT ![d] = row] BY <1>2
  <1>4. chan' \in [Channels -> [Files -> Image]] /\ chan'[d] = row BY <1>1, <1>3
  <1>5. row[f] = v /\ \A g \in Files : g # f => row[g] = chan[d][g] BY <1>1, <1>2
  <1>6. \A ch \in Channels : ch # d => chan'[ch] = chan[ch] BY <1>1, <1>3
  <1>7. QED BY <1>4, <1>5, <1>6

LEMMA FlatSet ==
    ASSUME FirmwareTypes, NEW f \in Files, NEW v, v \in Image, flat' = [flat EXCEPT ![f] = v]
    PROVE  /\ flat' \in [Files -> Image] /\ flat'[f] = v
           /\ \A g \in Files : g # f => flat'[g] = flat[g]
  <1>1. flat \in [Files -> Image] BY DEF FirmwareTypes
  <1> HIDE DEF Image
  <1>2. QED BY <1>1

LEMMA RelSet ==
    ASSUME FirmwareTypes, NEW n \in Releases, NEW row \in RelRow, rel' = [rel EXCEPT ![n] = row]
    PROVE  /\ rel' \in [Releases -> RelRow] /\ rel'[n] = row
           /\ \A m \in Releases : m # n => rel'[m] = rel[m]
  <1>1. rel \in [Releases -> RelRow] BY DEF FirmwareTypes
  <1> HIDE DEF RelRow
  <1>2. QED BY <1>1

\* What a step leaves of a name: its files, its rows, its requests.
Elsewhere(g) ==
  /\ flat'[g] = flat[g] /\ \A ch \in Channels : chan'[ch][g] = chan[ch][g]
  /\ \A n \in Releases : rel'[n].file = g \/ rel[n].file = g => rel'[n] = rel[n]
  /\ g \in touched => g \in touched'
  /\ \A w \in Workers : w \in Busy(g)' => w \in Busy(g) /\ job'[w] = job[w]

LEMMA FileFrame ==
    ASSUME FirmwareTypes, NEW f \in Files, FileInv(f), Elsewhere(f) PROVE FileInv(f)'
  <1> SUFFICES ASSUME f \notin touched'
               PROVE  RowTells(f)' /\ OneBusy(f)' /\ OneCopy(f)' /\ UploadOwns(f)' /\ ScanOwns(f)'
    BY DEF FileInv
  <1>1. RowTells(f) /\ OneBusy(f) /\ OneCopy(f) /\ UploadOwns(f) /\ ScanOwns(f)
    BY DEF FileInv, Elsewhere
  <1>2. \A n : n \in Namesakes(f)' <=> n \in Namesakes(f) BY DEF Namesakes, Elsewhere
  <1>3. \A n \in Namesakes(f) : n \in Releases /\ rel'[n] = rel[n] /\ rel[n].file = f
    BY DEF Namesakes, Elsewhere
  <1>4. Namesakes(f)' = Namesakes(f) BY <1>2
  <1>5. \A w \in Busy(f)' : w \in Busy(f) /\ w \in Workers /\ job'[w] = job[w] BY DEF Busy, Elsewhere
  <1>6. flat'[f] = flat[f] /\ \A ch \in Channels : chan'[ch][f] = chan[ch][f] BY DEF Elsewhere
  <1>7. \A n \in Namesakes(f) : Served(n, rel[n])' = Served(n, rel[n])
    <2> SUFFICES ASSUME NEW n \in Namesakes(f) PROVE Served(n, rel[n])' = Served(n, rel[n])
      OBVIOUS
    <2>1. ChannelOf[n] \in Channels BY <1>3, FirmwareAssumption
    <2>2. QED BY <1>3, <1>6, <2>1 DEF Served
  <1>8. RowTells(f)' BY <1>1, <1>3, <1>4, <1>6, <1>7 DEF RowTells
  <1>9. OneBusy(f)' BY <1>1, <1>5 DEF OneBusy
  <1>10. OneCopy(f)' BY <1>1, <1>6 DEF OneCopy
  <1>11. UploadOwns(f)'
    <2> SUFFICES ASSUME NEW w \in Busy(f)', job'[w].op \in {"replace", "copy", "insert"}
                 PROVE  /\ Namesakes(f)' = {}
                        /\ \A ch \in Channels : ch # ChannelOf[job'[w].n] => chan'[ch][f] = None
                        /\ job'[w].op \in {"copy", "insert"} => flat'[f] = job'[w].c
                        /\ job'[w].op = "insert" => chan'[ChannelOf[job'[w].n]][f] \in {None, job'[w].c}
      BY DEF UploadOwns
    <2>1. w \in Busy(f) /\ job'[w] = job[w] BY <1>5
    <2>2. /\ Namesakes(f) = {}
          /\ \A ch \in Channels : ch # ChannelOf[job[w].n] => chan[ch][f] = None
          /\ job[w].op \in {"copy", "insert"} => flat[f] = job[w].c
          /\ job[w].op = "insert" => chan[ChannelOf[job[w].n]][f] \in {None, job[w].c}
      BY <1>1, <2>1 DEF UploadOwns
    <2>3. ChannelOf[job[w].n] \in Channels
      BY <1>5, <2>1, JobShape, UploadJob, FirmwareAssumption
    <2>4. QED BY <1>4, <1>6, <2>1, <2>2, <2>3
  <1>12. ScanOwns(f)'
    <2> SUFFICES ASSUME NEW w \in Busy(f)', job'[w].op \in {"hash", "scan"}
                 PROVE  \/ /\ job'[w].to = None /\ Namesakes(f)' = {}
                           /\ job'[w].op = "scan" => job'[w].c # None /\ chan'[job'[w].ch][f] = job'[w].c
                        \/ /\ job'[w].op = "hash" /\ job'[w].to \in Namesakes(f)'
                           /\ job'[w].c = rel'[job'[w].to].sha
      BY DEF ScanOwns
    <2>1. w \in Busy(f) /\ w \in Workers /\ job'[w] = job[w] BY <1>5
    <2>2. job[w].ch \in Channels BY <2>1, JobShape, ScanJob
    <2>3. \/ /\ job[w].to = None /\ Namesakes(f) = {}
             /\ job[w].op = "scan" => job[w].c # None /\ chan[job[w].ch][f] = job[w].c
          \/ job[w].op = "hash" /\ job[w].to \in Namesakes(f) /\ job[w].c = rel[job[w].to].sha
      BY <1>1, <2>1 DEF ScanOwns
    <2>4. chan'[job[w].ch][f] = chan[job[w].ch][f] BY <1>6, <2>2
    <2>5. job[w].to \in Namesakes(f) => rel'[job[w].to] = rel[job[w].to] BY <1>3
    <2>6. QED BY <1>4, <2>1, <2>3, <2>4, <2>5
  <1>13. QED BY <1>8, <1>9, <1>10, <1>11, <1>12

\* A step that works on one name.
LEMMA FilesFromName ==
    ASSUME FirmwareTypes, FilesInv, NEW f \in Files, \A g \in Files : g # f => Elsewhere(g),
           f \notin touched' => RowTells(f)' /\ OneBusy(f)' /\ OneCopy(f)' /\ UploadOwns(f)' /\ ScanOwns(f)',
           ScanTarget'
    PROVE  FilesInv'
  <1>1. \A g \in Files : g # f => FileInv(g)' BY FileFrame DEF FilesInv
  <1>2. FileInv(f)' BY DEF FileInv
  <1>3. QED BY <1>1, <1>2 DEF FilesInv

\* A step that changes neither files, rows nor the requests that do.
LEMMA FilesKept ==
    ASSUME FirmwareTypes, FilesInv, UNCHANGED <<flat, chan, rel, touched>>,
           \A w \in Workers :
             job'[w].op \in {"replace", "copy", "insert", "hash", "scan"} => job'[w] = job[w]
    PROVE  FilesInv'
  <1>1. ScanTarget' BY DEF FilesInv, ScanTarget
  <1>2. \A f \in Files : Elsewhere(f) BY DEF Elsewhere, Busy
  <1>3. \A f \in Files : FileInv(f)' BY <1>2, FileFrame DEF FilesInv
  <1>4. QED BY <1>1, <1>3 DEF FilesInv

\* A step that changes neither assignments nor deployments.
LEMMA RolloutKept ==
    ASSUME RolloutInv, UNCHANGED <<asg, done, raced>>,
           \A w \in Workers : job'[w].op \in {"deploy", "mark"} => job'[w] = job[w]
    PROVE  RolloutInv'
  <1>1. Active' = Active BY DEF Active
  <1>2. OneDeploy' BY DEF RolloutInv, OneDeploy
  <1>3. DeployIsNewest' BY <1>1 DEF RolloutInv, DeployIsNewest
  <1>4. OneActive' BY <1>1 DEF RolloutInv, OneActive
  <1>5. DoneIsOlder' BY <1>1 DEF RolloutInv, DoneIsOlder
  <1>6. MarkIsOld' BY DEF RolloutInv, MarkIsOld
  <1>7. QED BY <1>2, <1>3, <1>4, <1>5, <1>6 DEF RolloutInv

\* One request takes a step on the files and rows of one name.
LEMMA OtherNames ==
    ASSUME FirmwareTypes, NEW w \in Workers, NEW f \in Files, NEW j \in FirmwareJob,
           job' = [job EXCEPT ![w] = j],
           j.op \in {"replace", "copy", "insert", "hash", "scan"} => j.f = f,
           \A g \in Files : g # f =>
             /\ flat'[g] = flat[g] /\ \A ch \in Channels : chan'[ch][g] = chan[ch][g]
             /\ g \in touched => g \in touched',
           \A n \in Releases : rel'[n] = rel[n] \/ (rel[n].file \in {f, None} /\ rel'[n].file = f)
    PROVE  \A g \in Files : g # f => Elsewhere(g)
  <1> SUFFICES ASSUME NEW g \in Files, g # f PROVE Elsewhere(g)
    OBVIOUS
  <1>1. job'[w] = j /\ \A v \in Workers : v # w => job'[v] = job[v] BY JobSet
  <1>2. \A v \in Workers : v \in Busy(g)' => v \in Busy(g) /\ job'[v] = job[v] BY <1>1 DEF Busy
  <1>3. g # None BY FirmwareAssumption DEF None
  <1>4. \A n \in Releases : rel'[n].file = g \/ rel[n].file = g => rel'[n] = rel[n] BY <1>3
  <1>5. QED BY <1>2, <1>4 DEF Elsewhere

\* Requests other than w have left the name alone, and w is on it now.
LEMMA OneOnName ==
    ASSUME FirmwareTypes, NEW w \in Workers, NEW f \in Files, NEW j \in FirmwareJob,
           job' = [job EXCEPT ![w] = j], \A v \in Busy(f) : v = w
    PROVE  \A v \in Busy(f)' : v = w /\ job'[v] = j
  <1>1. job'[w] = j /\ \A v \in Workers : v # w => job'[v] = job[v] BY JobSet
  <1>2. QED BY <1>1 DEF Busy

\* A job that is not a scan leaves the scans' targets.
LEMMA TargetsKept ==
    ASSUME FirmwareTypes, ScanTarget, NEW w \in Workers, NEW j \in FirmwareJob, job' = [job EXCEPT ![w] = j],
           \A n \in Releases : rel[n].file \in Files => rel'[n].file = rel[n].file,
           j.op \in {"hash", "scan"} => (j.to \in Releases => rel'[j.to].file = j.f)
    PROVE  ScanTarget'
  <1> SUFFICES ASSUME NEW v \in Workers, job'[v].op \in {"hash", "scan"}, job'[v].to \in Releases
               PROVE  rel'[job'[v].to].file = job'[v].f
    BY DEF ScanTarget
  <1>1. job'[w] = j /\ \A u \in Workers : u # w => job'[u] = job[u] BY JobSet
  <1>2. CASE v = w BY <1>1, <1>2
  <1>3. CASE v # w
    <2>1. job'[v] = job[v] BY <1>1, <1>3
    <2>2. job[v].f \in Files BY <2>1, JobShape, ScanJob
    <2>3. rel[job[v].to].file = job[v].f BY <2>1 DEF ScanTarget
    <2>4. QED BY <2>1, <2>2, <2>3
  <1>4. QED BY <1>2, <1>3

\* A name in use by nobody and in no other channel: an upload may take it.
LEMMA FreeName ==
    ASSUME NEW f \in Files, NEW d \in Channels, ~Shared(d, f)
    PROVE  /\ Busy(f) = {} /\ Namesakes(f) = {}
           /\ \A ch \in Channels : ch # d => chan[ch][f] = None
  BY DEF Shared

LEMMA CheckKeeps ==
    ASSUME FirmwareInv, NEW w \in Workers, NEW n \in Releases, NEW c \in Contents, upload_check(w, n, c)
    PROVE  FirmwareInv'
  <1>1. FirmwareTypes /\ FilesInv /\ RolloutInv BY DEF FirmwareInv
  <1>2. PICK f \in Files, d \in Channels : f = FinalName[n] /\ d = ChannelOf[n] BY FirmwareAssumption
  <1>3. PICK j \in Upload : j = [op |-> "replace", n |-> n, f |-> f, c |-> c] BY DEF Upload
  <1>4. /\ job' = [job EXCEPT ![w] = j]
        /\ touched' = IF Shared(d, f) THEN touched \cup {f} ELSE touched
        /\ UNCHANGED <<flat, chan, rel, asg, done, raced>>
    BY <1>2, <1>3 DEF upload_check, Touch
  <1>5. j \in FirmwareJob /\ j.op = "replace" /\ j.n = n /\ j.f = f /\ j.c = c BY <1>3, UploadJob
  <1>6. /\ job' \in [Workers -> FirmwareJob] /\ job'[w] = j
        /\ \A v \in Workers : v # w => job'[v] = job[v]
    BY <1>1, <1>4, <1>5, JobSet
  <1>7. FirmwareTypes' BY <1>1, <1>4, <1>6 DEF FirmwareTypes
  <1>8. ASSUME f \notin touched'
        PROVE  RowTells(f)' /\ OneBusy(f)' /\ OneCopy(f)' /\ UploadOwns(f)' /\ ScanOwns(f)'
    <2>1. Busy(f) = {} /\ Namesakes(f) = {} /\ \A ch \in Channels : ch # d => chan[ch][f] = None
      BY <1>4, <1>8, FreeName
    <2>2. \A v \in Busy(f)' : v = w /\ job'[v] = j BY <1>1, <1>4, <1>5, <2>1, OneOnName
    <2>3. Namesakes(f)' = {} BY <1>4, <2>1 DEF Namesakes
    <2>4. RowTells(f)' BY <2>3 DEF RowTells
    <2>5. OneBusy(f)' BY <2>2 DEF OneBusy
    <2>6. OneCopy(f)' BY <1>4, <2>1 DEF OneCopy
    <2>7. UploadOwns(f)' BY <1>2, <1>4, <1>5, <2>1, <2>2, <2>3 DEF UploadOwns
    <2>8. ScanOwns(f)' BY <1>5, <2>2 DEF ScanOwns
    <2>9. QED BY <2>4, <2>5, <2>6, <2>7, <2>8
  <1>9. ScanTarget' BY <1>1, <1>4, <1>5, TargetsKept DEF FilesInv
  <1>10. \A g \in Files : g # f => Elsewhere(g) BY <1>1, <1>4, <1>5, OtherNames
  <1>11. FilesInv' BY <1>1, <1>8, <1>9, <1>10, FilesFromName
  <1>12. RolloutInv' BY <1>1, <1>4, <1>5, <1>6, RolloutKept
  <1>13. QED BY <1>7, <1>11, <1>12 DEF FirmwareInv

\* What is known of an upload whose name nobody has touched.
LEMMA UploadAlone ==
    ASSUME FirmwareTypes, FilesInv, NEW w \in Workers, NEW f \in Files, f \notin touched,
           job[w].op \in {"replace", "copy", "insert"}, job[w].f = f
    PROVE  /\ \A v \in Busy(f) : v = w
           /\ Namesakes(f) = {}
           /\ \A ch \in Channels : ch # ChannelOf[job[w].n] => chan[ch][f] = None
           /\ job[w].op \in {"copy", "insert"} => flat[f] = job[w].c
           /\ job[w].op = "insert" => chan[ChannelOf[job[w].n]][f] \in {None, job[w].c}
           /\ OneCopy(f)
  <1>1. w \in Busy(f) BY DEF Busy
  <1>2. OneBusy(f) /\ OneCopy(f) /\ UploadOwns(f) BY DEF FilesInv, FileInv
  <1>3. \A v \in Busy(f) : v = w BY <1>1, <1>2 DEF OneBusy
  <1>4. QED BY <1>1, <1>2, <1>3 DEF UploadOwns

LEMMA ReplaceKeeps ==
    ASSUME FirmwareInv, NEW w \in Workers, upload_replace(w) PROVE FirmwareInv'
  <1>1. FirmwareTypes /\ FilesInv /\ RolloutInv BY DEF FirmwareInv
  <1>2. job[w].op = "replace" BY DEF upload_replace
  <1>3. job[w] \in Upload BY <1>1, <1>2, JobShape
  <1>4. PICK n \in Releases, f \in Files, c \in Contents : n = job[w].n /\ f = job[w].f /\ c = job[w].c
    BY <1>3, UploadJob
  <1>5. PICK j \in Upload : j = [op |-> "copy", n |-> n, f |-> f, c |-> c] BY DEF Upload
  <1>6. j = [job[w] EXCEPT !.op = "copy"] BY <1>3, <1>4, <1>5, UploadJob
  <1>7. /\ job' = [job EXCEPT ![w] = j] /\ flat' = [flat EXCEPT ![f] = c]
        /\ UNCHANGED <<chan, rel, asg, done, raced, touched>>
    BY <1>4, <1>6 DEF upload_replace
  <1>8. j \in FirmwareJob /\ j.op = "copy" /\ j.n = n /\ j.f = f /\ j.c = c BY <1>5, UploadJob
  <1>9. /\ job' \in [Workers -> FirmwareJob] /\ job'[w] = j
        /\ \A v \in Workers : v # w => job'[v] = job[v]
    BY <1>1, <1>7, <1>8, JobSet
  <1>10. c \in Image BY DEF Image
  <1>11. flat' \in [Files -> Image] /\ flat'[f] = c /\ \A g \in Files : g # f => flat'[g] = flat[g]
    BY <1>1, <1>7, <1>10, FlatSet
  <1>12. FirmwareTypes' BY <1>1, <1>7, <1>9, <1>11 DEF FirmwareTypes
  <1>13. ASSUME f \notin touched'
         PROVE  RowTells(f)' /\ OneBusy(f)' /\ OneCopy(f)' /\ UploadOwns(f)' /\ ScanOwns(f)'
    <2>1. f \notin touched BY <1>7, <1>13
    <2>2. /\ \A v \in Busy(f) : v = w
          /\ Namesakes(f) = {} /\ OneCopy(f)
          /\ \A ch \in Channels : ch # ChannelOf[n] => chan[ch][f] = None
      BY <1>1, <1>2, <1>4, <2>1, UploadAlone
    <2>3. \A v \in Busy(f)' : v = w /\ job'[v] = j BY <1>1, <1>7, <1>8, <2>2, OneOnName
    <2>4. Namesakes(f)' = {} BY <1>7, <2>2 DEF Namesakes
    <2>5. RowTells(f)' BY <2>4 DEF RowTells
    <2>6. OneBusy(f)' BY <2>3 DEF OneBusy
    <2>7. OneCopy(f)' BY <1>7, <2>2 DEF OneCopy
    <2>8. UploadOwns(f)' BY <1>7, <1>8, <1>11, <2>2, <2>3, <2>4 DEF UploadOwns
    <2>9. ScanOwns(f)' BY <1>8, <2>3 DEF ScanOwns
    <2>10. QED BY <2>5, <2>6, <2>7, <2>8, <2>9
  <1>14. ScanTarget' BY <1>1, <1>7, <1>8, TargetsKept DEF FilesInv
  <1>15. \A g \in Files : g # f => Elsewhere(g) BY <1>1, <1>7, <1>8, <1>11, OtherNames
  <1>16. FilesInv' BY <1>1, <1>13, <1>14, <1>15, FilesFromName
  <1>17. RolloutInv' BY <1>1, <1>7, <1>8, <1>9, RolloutKept
  <1>18. QED BY <1>12, <1>16, <1>17 DEF FirmwareInv

\* The copy into the channel's directory, complete or not.
CopyLeaves(w, left) ==
  /\ job[w].op = "copy"
  /\ chan' = [chan EXCEPT ![ChannelOf[job[w].n]][job[w].f] = left]
  /\ job' = [job EXCEPT ![w].op = "insert"]
  /\ touched' \in {touched, touched \cup {job[w].f}}
  /\ left \in {None, job[w].c} \/ job[w].f \in touched'
  /\ UNCHANGED <<flat, rel, asg, done, raced>>

LEMMA CopyKeeps ==
    ASSUME FirmwareInv, NEW w \in Workers, NEW left \in Image, CopyLeaves(w, left) PROVE FirmwareInv'
  <1>1. FirmwareTypes /\ FilesInv /\ RolloutInv BY DEF FirmwareInv
  <1>2. job[w].op = "copy" BY DEF CopyLeaves
  <1>3. job[w] \in Upload BY <1>1, <1>2, JobShape
  <1>4. PICK n \in Releases, f \in Files, c \in Contents : n = job[w].n /\ f = job[w].f /\ c = job[w].c
    BY <1>3, UploadJob
  <1>5. PICK d \in Channels : d = ChannelOf[n] BY FirmwareAssumption
  <1>6. PICK j \in Upload : j = [op |-> "insert", n |-> n, f |-> f, c |-> c] BY DEF Upload
  <1>7. j = [job[w] EXCEPT !.op = "insert"] BY <1>3, <1>4, <1>6, UploadJob
  <1>8. /\ job' = [job EXCEPT ![w] = j] /\ chan' = [chan EXCEPT ![d][f] = left]
        /\ touched' \in {touched, touched \cup {f}} /\ (left \in {None, c} \/ f \in touched')
        /\ UNCHANGED <<flat, rel, asg, done, raced>>
    BY <1>4, <1>5, <1>7 DEF CopyLeaves
  <1>9. j \in FirmwareJob /\ j.op = "insert" /\ j.n = n /\ j.f = f /\ j.c = c BY <1>6, UploadJob
  <1>10. /\ job' \in [Workers -> FirmwareJob] /\ job'[w] = j
         /\ \A v \in Workers : v # w => job'[v] = job[v]
    BY <1>1, <1>8, <1>9, JobSet
  <1>11. /\ chan' \in [Channels -> [Files -> Image]] /\ chan'[d][f] = left
         /\ \A ch \in Channels, g \in Files : ch # d \/ g # f => chan'[ch][g] = chan[ch][g]
    BY <1>1, <1>8, ChanSet
  <1>12. FirmwareTypes' BY <1>1, <1>8, <1>10, <1>11 DEF FirmwareTypes
  <1>13. ASSUME f \notin touched'
         PROVE  RowTells(f)' /\ OneBusy(f)' /\ OneCopy(f)' /\ UploadOwns(f)' /\ ScanOwns(f)'
    <2>1. f \notin touched /\ left \in {None, c} BY <1>8, <1>13
    <2>2. /\ \A v \in Busy(f) : v = w
          /\ Namesakes(f) = {}
          /\ \A ch \in Channels : ch # d => chan[ch][f] = None
          /\ flat[f] = c
      BY <1>1, <1>2, <1>4, <1>5, <2>1, UploadAlone
    <2>3. \A v \in Busy(f)' : v = w /\ job'[v] = j BY <1>1, <1>8, <1>9, <2>2, OneOnName
    <2>4. Namesakes(f)' = {} BY <1>8, <2>2 DEF Namesakes
    <2>5. \A ch \in Channels : ch # d => chan'[ch][f] = None BY <1>11, <2>2
    <2>6. RowTells(f)' BY <2>4 DEF RowTells
    <2>7. OneBusy(f)' BY <2>3 DEF OneBusy
    <2>8. OneCopy(f)' BY <2>5 DEF OneCopy
    <2>9. UploadOwns(f)' BY <1>5, <1>8, <1>9, <1>11, <2>1, <2>2, <2>3, <2>4, <2>5 DEF UploadOwns
    <2>10. ScanOwns(f)' BY <1>9, <2>3 DEF ScanOwns
    <2>11. QED BY <2>6, <2>7, <2>8, <2>9, <2>10
  <1>14. ScanTarget' BY <1>1, <1>8, <1>9, TargetsKept DEF FilesInv
  <1>15. \A g \in Files : g # f => Elsewhere(g) BY <1>1, <1>8, <1>9, <1>11, OtherNames
  <1>16. FilesInv' BY <1>1, <1>13, <1>14, <1>15, FilesFromName
  <1>17. RolloutInv' BY <1>1, <1>8, <1>9, <1>10, RolloutKept
  <1>18. QED BY <1>12, <1>16, <1>17 DEF FirmwareInv

LEMMA PublishKeeps ==
    ASSUME FirmwareInv, NEW w \in Workers, upload_publish(w) PROVE FirmwareInv'
  <1>1. CopyLeaves(w, job[w].c) BY DEF upload_publish, CopyLeaves
  <1>2. job[w].c \in Image BY <1>1, JobShape, UploadJob DEF FirmwareInv, CopyLeaves, Image
  <1>3. QED BY <1>1, <1>2, CopyKeeps

LEMMA FailedPublishKeeps ==
    ASSUME FirmwareInv, NEW w \in Workers, upload_publish_fails(w) PROVE FirmwareInv'
  <1>1. PICK left \in {chan[ChannelOf[job[w].n]][job[w].f], Cut} :
          /\ chan' = [chan EXCEPT ![ChannelOf[job[w].n]][job[w].f] = left]
          /\ Touch(job[w].f, left # None)
    BY DEF upload_publish_fails
  <1>2. CopyLeaves(w, left) BY <1>1 DEF upload_publish_fails, CopyLeaves, Touch
  <1>3. left \in Image
    <2>1. job[w].n \in Releases /\ job[w].f \in Files
      BY <1>2, JobShape, UploadJob DEF FirmwareInv, CopyLeaves
    <2>2. chan[ChannelOf[job[w].n]][job[w].f] \in Image
      BY <2>1, FirmwareAssumption DEF FirmwareInv, FirmwareTypes
    <2>3. QED BY <1>1, <2>2 DEF Image
  <1>4. QED BY <1>2, <1>3, CopyKeeps

LEMMA InsertKeeps ==
    ASSUME FirmwareInv, NEW w \in Workers, upload_insert(w) PROVE FirmwareInv'
  <1>1. FirmwareTypes /\ FilesInv /\ RolloutInv BY DEF FirmwareInv
  <1>2. job[w].op = "insert" BY DEF upload_insert
  <1>3. job[w] \in Upload BY <1>1, <1>2, JobShape
  <1>4. PICK n \in Releases, f \in Files, c \in Contents : n = job[w].n /\ f = job[w].f /\ c = job[w].c
    BY <1>3, UploadJob
  <1>5. PICK d \in Channels : d = ChannelOf[n] BY FirmwareAssumption
  <1>6. PICK row \in RelRow : row = [file |-> f, sha |-> c, url |-> "flat"] BY DEF RelRow, Image
  <1>7. /\ job' = [job EXCEPT ![w] = Idle] /\ UNCHANGED <<asg, done, raced, touched>>
        /\ \/ rel[n] = NoRow /\ rel' = [rel EXCEPT ![n] = row] /\ UNCHANGED <<flat, chan>>
           \/ /\ rel[n] # NoRow /\ UNCHANGED rel
              /\ flat' = [flat EXCEPT ![f] = None] /\ chan' = [chan EXCEPT ![d][f] = None]
    BY <1>4, <1>5, <1>6 DEF upload_insert
  <1>8. /\ job' \in [Workers -> FirmwareJob] /\ job'[w] = Idle
        /\ \A v \in Workers : v # w => job'[v] = job[v]
    BY <1>1, <1>7, JobSet, IdleJob
  <1>9. RolloutInv' BY <1>1, <1>7, <1>8, IdleJob, RolloutKept
  <1>10. None \in Image /\ None \notin Files /\ NoRow.file = None
    BY FirmwareAssumption DEF Image, None, NoRow
  <1>11. f \notin touched' => Busy(f)' = {}
    <2> SUFFICES ASSUME f \notin touched' PROVE Busy(f)' = {}
      OBVIOUS
    <2>1. \A v \in Busy(f) : v = w BY <1>1, <1>2, <1>4, <1>7, UploadAlone
    <2>2. \A v \in Busy(f)' : v = w /\ job'[v] = Idle BY <1>1, <1>7, <2>1, IdleJob, OneOnName
    <2>3. QED BY <2>2, IdleJob DEF Busy
  <1>12. CASE rel[n] = NoRow /\ rel' = [rel EXCEPT ![n] = row] /\ UNCHANGED <<flat, chan>>
    <2>1. rel' \in [Releases -> RelRow] /\ rel'[n] = row /\ \A m \in Releases : m # n => rel'[m] = rel[m]
      BY <1>1, <1>12, RelSet
    <2>3. row.file = f /\ row.sha = c /\ row.url = "flat" BY <1>6
    <2>2. FirmwareTypes' BY <1>1, <1>7, <1>8, <1>12, <2>1, <2>3 DEF FirmwareTypes
    <2>4. ASSUME f \notin touched'
          PROVE  RowTells(f)' /\ OneBusy(f)' /\ OneCopy(f)' /\ UploadOwns(f)' /\ ScanOwns(f)'
      <3>1. /\ Namesakes(f) = {} /\ OneCopy(f) /\ flat[f] = c
            /\ \A ch \in Channels : ch # d => chan[ch][f] = None
            /\ chan[d][f] \in {None, c}
        <4>1. f \notin touched /\ job[w].op \in {"replace", "copy", "insert"} /\ job[w].f = f
          BY <1>2, <1>4, <1>7, <2>4
        <4>2. QED BY <1>1, <1>2, <1>4, <1>5, <4>1, UploadAlone
      <3>2. \A m \in Namesakes(f)' : m = n BY <2>1, <3>1 DEF Namesakes
      <3>3. Served(n, rel[n])' = c BY <1>12, <2>1, <2>3, <3>1 DEF Served
      <3>4. RowTells(f)' BY <1>5, <1>12, <2>1, <2>3, <3>1, <3>2, <3>3 DEF RowTells
      <3>5. Busy(f)' = {} BY <1>11, <2>4
      <3>6. OneCopy(f)' BY <1>12, <3>1 DEF OneCopy
      <3>7. QED BY <3>4, <3>5, <3>6 DEF OneBusy, UploadOwns, ScanOwns
    <2>5. ScanTarget' BY <1>1, <1>7, <1>10, <1>12, <2>1, IdleJob, TargetsKept DEF FilesInv
    <2>6. \A g \in Files : g # f => Elsewhere(g)
      BY <1>1, <1>7, <1>10, <1>12, <2>1, <2>3, IdleJob, OtherNames
    <2>7. FilesInv' BY <1>1, <2>4, <2>5, <2>6, FilesFromName
    <2>8. QED BY <1>9, <2>2, <2>7 DEF FirmwareInv
  <1>13. CASE UNCHANGED rel /\ flat' = [flat EXCEPT ![f] = None] /\ chan' = [chan EXCEPT ![d][f] = None]
    <2>0. PICK v \in Image : v = None BY <1>10
    <2>1. /\ flat' \in [Files -> Image] /\ flat'[f] = None
          /\ \A g \in Files : g # f => flat'[g] = flat[g]
      BY <1>1, <1>10, <1>13, FlatSet
    <2>2. /\ chan' \in [Channels -> [Files -> Image]] /\ chan'[d][f] = None
          /\ \A ch \in Channels, g \in Files : ch # d \/ g # f => chan'[ch][g] = chan[ch][g]
      <3>1. chan' = [chan EXCEPT ![d][f] = v] BY <1>13, <2>0
      <3>2. /\ chan' \in [Channels -> [Files -> Image]] /\ chan'[d][f] = v
            /\ \A ch \in Channels, g \in Files : ch # d \/ g # f => chan'[ch][g] = chan[ch][g]
        BY <1>1, <3>1, ChanSet
      <3>3. QED BY <2>0, <3>2
    <2>3. FirmwareTypes' BY <1>1, <1>7, <1>8, <1>13, <2>1, <2>2 DEF FirmwareTypes
    <2>4. ASSUME f \notin touched'
          PROVE  RowTells(f)' /\ OneBusy(f)' /\ OneCopy(f)' /\ UploadOwns(f)' /\ ScanOwns(f)'
      <3>1. Namesakes(f) = {} /\ \A ch \in Channels : ch # d => chan[ch][f] = None
        BY <1>1, <1>2, <1>4, <1>5, <1>7, <2>4, UploadAlone
      <3>2. Namesakes(f)' = {} BY <1>13, <3>1 DEF Namesakes
      <3>3. \A ch \in Channels : chan'[ch][f] = None BY <2>2, <3>1
      <3>4. Busy(f)' = {} BY <1>11, <2>4
      <3>5. QED BY <3>2, <3>3, <3>4 DEF RowTells, OneCopy, OneBusy, UploadOwns, ScanOwns
    <2>5. ScanTarget' BY <1>1, <1>7, <1>13, IdleJob, TargetsKept DEF FilesInv
    <2>6. \A g \in Files : g # f => Elsewhere(g)
      BY <1>1, <1>7, <1>13, <2>1, <2>2, IdleJob, OtherNames
    <2>7. FilesInv' BY <1>1, <2>4, <2>5, <2>6, FilesFromName
    <2>8. QED BY <1>9, <2>3, <2>7 DEF FirmwareInv
  <1>14. QED BY <1>7, <1>12, <1>13

LEMMA ScanBeginKeeps ==
    ASSUME FirmwareInv, NEW w \in Workers, NEW d \in Channels, NEW f \in Files, scan_begin(w, d, f)
    PROVE  FirmwareInv'
  <1>1. FirmwareTypes /\ FilesInv /\ RolloutInv BY DEF FirmwareInv
  <1>2. PICK to \in IF Namesakes(f) = {} THEN {None} ELSE Namesakes(f) :
          job' = [job EXCEPT ![w] = [op |-> "hash", ch |-> d, f |-> f, to |-> to,
                                     c |-> IF to = None THEN None ELSE rel[to].sha]]
    BY DEF scan_begin
  <1>3. PICK c : c = IF to = None THEN None ELSE rel[to].sha OBVIOUS
  <1>4. None \notin Releases BY FirmwareAssumption DEF None
  <1>5. \/ to = None /\ Namesakes(f) = {} /\ c = None
        \/ to \in Namesakes(f) /\ to \in Releases /\ rel[to].file = f /\ c = rel[to].sha
    BY <1>2, <1>3, <1>4 DEF Namesakes
  <1>6. c \in Image /\ to \in Releases \cup {None, "gone"}
    <2>1. to \in Releases => rel[to].sha \in Image BY <1>1 DEF FirmwareTypes, RelRow
    <2>2. QED BY <1>5, <2>1 DEF Image
  <1>7. PICK j \in Scan : j = [op |-> "hash", ch |-> d, f |-> f, to |-> to, c |-> c] BY <1>6 DEF Scan
  <1>8. /\ job' = [job EXCEPT ![w] = j]
        /\ touched' = IF Busy(f) # {} THEN touched \cup {f} ELSE touched
        /\ UNCHANGED <<flat, chan, rel, asg, done, raced>>
    BY <1>2, <1>3, <1>7 DEF scan_begin, Touch
  <1>9. j \in FirmwareJob /\ j.op = "hash" /\ j.f = f /\ j.to = to /\ j.c = c BY <1>7, ScanJob
  <1>10. /\ job' \in [Workers -> FirmwareJob] /\ job'[w] = j
         /\ \A v \in Workers : v # w => job'[v] = job[v]
    BY <1>1, <1>8, <1>9, JobSet
  <1>11. FirmwareTypes' BY <1>1, <1>8, <1>10 DEF FirmwareTypes
  <1>12. ASSUME f \notin touched'
         PROVE  RowTells(f)' /\ OneBusy(f)' /\ OneCopy(f)' /\ UploadOwns(f)' /\ ScanOwns(f)'
    <2>1. Busy(f) = {} /\ f \notin touched BY <1>8, <1>12
    <2>2. \A v \in Busy(f)' : v = w /\ job'[v] = j BY <1>1, <1>8, <1>9, <2>1, OneOnName
    <2>3. Namesakes(f)' = Namesakes(f) BY <1>8 DEF Namesakes
    <2>4. RowTells(f) /\ OneCopy(f) BY <1>1, <2>1 DEF FilesInv, FileInv
    <2>5. RowTells(f)' BY <1>8, <2>3, <2>4 DEF RowTells, Served
    <2>6. OneBusy(f)' BY <2>2 DEF OneBusy
    <2>7. OneCopy(f)' BY <1>8, <2>4 DEF OneCopy
    <2>8. UploadOwns(f)' BY <1>9, <2>2 DEF UploadOwns
    <2>9. ScanOwns(f)' BY <1>5, <1>8, <1>9, <2>2, <2>3 DEF ScanOwns
    <2>10. QED BY <2>5, <2>6, <2>7, <2>8, <2>9
  <1>13. ScanTarget' BY <1>1, <1>4, <1>5, <1>8, <1>9, TargetsKept DEF FilesInv
  <1>14. \A g \in Files : g # f => Elsewhere(g) BY <1>1, <1>8, <1>9, OtherNames
  <1>15. FilesInv' BY <1>1, <1>12, <1>13, <1>14, FilesFromName
  <1>16. RolloutInv' BY <1>1, <1>8, <1>9, <1>10, RolloutKept
  <1>17. QED BY <1>11, <1>15, <1>16 DEF FirmwareInv

LEMMA HashKeeps ==
    ASSUME FirmwareInv, NEW w \in Workers, scan_hash(w) PROVE FirmwareInv'
  <1>1. FirmwareTypes /\ FilesInv /\ RolloutInv BY DEF FirmwareInv
  <1>2. job[w].op = "hash" BY DEF scan_hash
  <1>3. job[w] \in Scan BY <1>1, <1>2, JobShape
  <1>4. PICK d \in Channels, f \in Files, to \in Releases \cup {None, "gone"}, c \in Image :
          d = job[w].ch /\ f = job[w].f /\ to = job[w].to /\ c = job[w].c
    BY <1>3, ScanJob
  <1>5. PICK found \in Image : found = chan[d][f] BY <1>1 DEF FirmwareTypes
  <1>6. UNCHANGED <<flat, chan, rel, asg, done, raced, touched>> BY DEF scan_hash
  <1>7. PICK k \in Scan : k = [op |-> "scan", ch |-> d, f |-> f, to |-> to, c |-> found] BY DEF Scan
  <1>8. k = [op |-> "scan", ch |-> job[w].ch, f |-> job[w].f, to |-> job[w].to, c |-> found]
    BY <1>4, <1>7
  <1>9. k \in FirmwareJob /\ k.op = "scan" /\ k.ch = d /\ k.f = f /\ k.to = to /\ k.c = found
    BY <1>7, ScanJob
  <1>10. PICK j \in {Idle, k} : /\ job' = [job EXCEPT ![w] = j]
                                /\ found \in {None, c} => j = Idle
                                /\ found \notin {None, c} => j = k
    BY <1>4, <1>5, <1>8 DEF scan_hash
  <1>11. j \in FirmwareJob /\ j.op \in {"idle", "scan"} BY <1>9, <1>10, IdleJob
  <1>12. j.op = "scan" => j = k /\ found \notin {None, c} BY <1>9, <1>10, IdleJob
  <1>13. /\ job' \in [Workers -> FirmwareJob] /\ job'[w] = j
         /\ \A v \in Workers : v # w => job'[v] = job[v]
    BY <1>1, <1>10, <1>11, JobSet
  <1>14. FirmwareTypes' BY <1>1, <1>6, <1>13 DEF FirmwareTypes
  <1>15. ASSUME f \notin touched'
         PROVE  RowTells(f)' /\ OneBusy(f)' /\ OneCopy(f)' /\ UploadOwns(f)' /\ ScanOwns(f)'
    <2>1. w \in Busy(f) /\ f \notin touched BY <1>2, <1>4, <1>6, <1>15 DEF Busy
    <2>2. RowTells(f) /\ OneBusy(f) /\ OneCopy(f) /\ ScanOwns(f) BY <1>1, <2>1 DEF FilesInv, FileInv
    <2>3. \A v \in Busy(f) : v = w BY <2>1, <2>2 DEF OneBusy
    <2>4. \A v \in Busy(f)' : v = w /\ job'[v] = j BY <1>1, <1>10, <1>11, <2>3, OneOnName
    <2>5. \/ to = None /\ Namesakes(f) = {}
          \/ to \in Namesakes(f) /\ c = rel[to].sha
      BY <1>2, <1>4, <2>1, <2>2 DEF ScanOwns
    <2>6. to \in Namesakes(f) => found \in {None, c} BY <1>5, <2>2, <2>5 DEF RowTells
    <2>7. Namesakes(f)' = Namesakes(f) BY <1>6 DEF Namesakes
    <2>8. RowTells(f)' BY <1>6, <2>2, <2>7 DEF RowTells, Served
    <2>9. OneBusy(f)' BY <2>4 DEF OneBusy
    <2>10. OneCopy(f)' BY <1>6, <2>2 DEF OneCopy
    <2>11. UploadOwns(f)' BY <1>11, <2>4 DEF UploadOwns
    <2>12. ScanOwns(f)'
      <3>1. ASSUME NEW v \in Busy(f)', job'[v].op \in {"hash", "scan"}
            PROVE  /\ job'[v].to = None /\ Namesakes(f)' = {} /\ job'[v].c # None
                   /\ chan'[job'[v].ch][f] = job'[v].c
        <4>1. job'[v] = j /\ j = k /\ found \notin {None, c} BY <1>11, <1>12, <2>4, <3>1
        <4>2. to = None /\ Namesakes(f) = {} BY <2>5, <2>6, <4>1
        <4>3. QED BY <1>5, <1>6, <1>9, <2>7, <4>1, <4>2
      <3>2. QED BY <3>1 DEF ScanOwns
    <2>13. QED BY <2>8, <2>9, <2>10, <2>11, <2>12
  <1>16. ScanTarget'
    <2>1. to \in Releases => rel[to].file = f BY <1>1, <1>2, <1>4 DEF FilesInv, ScanTarget
    <2>2. j.op \in {"hash", "scan"} => (j.to \in Releases => rel'[j.to].file = j.f)
      BY <1>6, <1>9, <1>11, <1>12, <2>1
    <2>3. QED BY <1>1, <1>6, <1>10, <1>11, <2>2, TargetsKept DEF FilesInv
  <1>17. \A g \in Files : g # f => Elsewhere(g) BY <1>1, <1>6, <1>9, <1>10, <1>11, <1>12, OtherNames
  <1>18. FilesInv' BY <1>1, <1>15, <1>16, <1>17, FilesFromName
  <1>19. RolloutInv' BY <1>1, <1>6, <1>11, <1>13, RolloutKept
  <1>20. QED BY <1>14, <1>18, <1>19 DEF FirmwareInv

LEMMA DiscoverKeeps ==
    ASSUME FirmwareInv, NEW w \in Workers, discover_on_disk_releases(w) PROVE FirmwareInv'
  <1>1. FirmwareTypes /\ FilesInv /\ RolloutInv BY DEF FirmwareInv
  <1>2. job[w].op = "scan" BY DEF discover_on_disk_releases
  <1>3. job[w] \in Scan BY <1>1, <1>2, JobShape
  <1>4. PICK d \in Channels, f \in Files, to \in Releases \cup {None, "gone"}, c \in Image :
          d = job[w].ch /\ f = job[w].f /\ to = job[w].to /\ c = job[w].c
    BY <1>3, ScanJob
  <1>5. PICK new \in Releases : new = Parsed[d][f] /\ ChannelOf[new] = d BY FirmwareAssumption
  <1>6. PICK row \in RelRow : row = [file |-> f, sha |-> c, url |-> "chan"] BY DEF RelRow
  <1>7. /\ job' = [job EXCEPT ![w] = Idle] /\ UNCHANGED <<flat, chan, asg, done, raced, touched>>
        /\ rel' = CASE to \in Releases -> [rel EXCEPT ![to].sha = c]
                    [] to = None /\ rel[new] = NoRow -> [rel EXCEPT ![new] = row]
                    [] OTHER -> rel
    BY <1>4, <1>5, <1>6 DEF discover_on_disk_releases, Discovered
  <1>8. None \notin Files /\ None \notin Releases /\ NoRow.file = None
    BY FirmwareAssumption DEF None, NoRow
  <1>9. /\ rel' \in [Releases -> RelRow]
        /\ \A n \in Releases : rel'[n] = rel[n] \/ (rel[n].file \in {f, None} /\ rel'[n].file = f)
    <2>1. CASE to \in Releases
      <3>1. rel[to] \in RelRow BY <1>1, <2>1 DEF FirmwareTypes
      <3>2. rel[to].file = f BY <1>1, <1>2, <1>4, <2>1 DEF FilesInv, ScanTarget
      <3>3. PICK r \in RelRow : r = [rel[to] EXCEPT !.sha = c] /\ r.file = f
        <4>1. [rel[to] EXCEPT !.sha = c] \in RelRow BY <3>1 DEF RelRow
        <4>2. [rel[to] EXCEPT !.sha = c].file = f BY <3>1, <3>2 DEF RelRow
        <4>3. QED BY <4>1, <4>2
      <3>4. rel' = [rel EXCEPT ![to] = r]
        <4>1. rel' = [rel EXCEPT ![to].sha = c] BY <1>7, <1>8, <2>1
        <4>2. QED BY <3>3, <4>1
      <3>5. QED BY <1>1, <2>1, <3>2, <3>3, <3>4, RelSet
    <2>2. CASE to \notin Releases /\ to = None /\ rel[new] = NoRow
      <3>1. rel' = [rel EXCEPT ![new] = row] BY <1>7, <2>2
      <3>2. row.file = f BY <1>6
      <3>3. QED BY <1>1, <1>8, <2>2, <3>1, <3>2, RelSet
    <2>3. CASE to \notin Releases /\ ~(to = None /\ rel[new] = NoRow)
      <3>1. rel' = rel BY <1>7, <2>3
      <3>2. QED BY <1>1, <3>1 DEF FirmwareTypes
    <2>4. QED BY <2>1, <2>2, <2>3
  <1>10. /\ job' \in [Workers -> FirmwareJob] /\ job'[w] = Idle
         /\ \A v \in Workers : v # w => job'[v] = job[v]
    BY <1>1, <1>7, JobSet, IdleJob
  <1>11. FirmwareTypes' BY <1>1, <1>7, <1>9, <1>10 DEF FirmwareTypes
  <1>12. ASSUME f \notin touched'
         PROVE  RowTells(f)' /\ OneBusy(f)' /\ OneCopy(f)' /\ UploadOwns(f)' /\ ScanOwns(f)'
    <2>1. w \in Busy(f) /\ f \notin touched BY <1>2, <1>4, <1>7, <1>12 DEF Busy
    <2>2. OneBusy(f) /\ OneCopy(f) /\ ScanOwns(f) BY <1>1, <2>1 DEF FilesInv, FileInv
    <2>3. \A v \in Busy(f) : v = w BY <2>1, <2>2 DEF OneBusy
    <2>4. Busy(f)' = {}
      <3>1. \A v \in Busy(f)' : v = w /\ job'[v] = Idle BY <1>1, <1>7, <2>3, IdleJob, OneOnName
      <3>2. QED BY <3>1, IdleJob DEF Busy
    <2>5. to = None /\ Namesakes(f) = {} /\ c # None /\ chan[d][f] = c
      BY <1>2, <1>4, <2>1, <2>2 DEF ScanOwns
    <2>6. RowTells(f)'
      <3>1. CASE rel[new] = NoRow
        <4>1. rel' = [rel EXCEPT ![new] = row] BY <1>7, <1>8, <2>5, <3>1
        <4>2. rel'[new] = row /\ \A m \in Releases : m # new => rel'[m] = rel[m] BY <1>1, <4>1, RelSet
        <4>3. row.file = f /\ row.sha = c /\ row.url = "chan" BY <1>6
        <4>4. \A m \in Namesakes(f)' : m = new BY <2>5, <4>2 DEF Namesakes
        <4>5. Served(new, rel[new])' = c BY <1>5, <1>7, <2>5, <4>2, <4>3 DEF Served
        <4>6. \A ch \in Channels : ch # d => chan[ch][f] = None BY <2>2, <2>5 DEF OneCopy
        <4>7. QED BY <1>5, <1>7, <2>5, <4>2, <4>3, <4>4, <4>5, <4>6 DEF RowTells
      <3>2. CASE rel[new] # NoRow
        <4>1. rel' = rel BY <1>7, <1>8, <2>5, <3>2
        <4>2. Namesakes(f)' = {} BY <2>5, <4>1 DEF Namesakes
        <4>3. QED BY <4>2 DEF RowTells
      <3>3. QED BY <3>1, <3>2
    <2>7. OneCopy(f)' BY <1>7, <2>2 DEF OneCopy
    <2>8. QED BY <2>4, <2>6, <2>7 DEF OneBusy, UploadOwns, ScanOwns
  <1>13. ScanTarget' BY <1>1, <1>7, <1>8, <1>9, IdleJob, TargetsKept DEF FilesInv
  <1>14. \A g \in Files : g # f => Elsewhere(g) BY <1>1, <1>7, <1>9, IdleJob, OtherNames
  <1>15. FilesInv' BY <1>1, <1>12, <1>13, <1>14, FilesFromName
  <1>16. RolloutInv' BY <1>1, <1>7, <1>10, IdleJob, RolloutKept
  <1>17. QED BY <1>11, <1>15, <1>16 DEF FirmwareInv

\* A name without rows and requests, in one channel's directory at most.
LEMMA FreedName ==
    ASSUME NEW f \in Files, Namesakes(f)' = {}, Busy(f)' = {}, OneCopy(f)'
    PROVE  RowTells(f)' /\ OneBusy(f)' /\ OneCopy(f)' /\ UploadOwns(f)' /\ ScanOwns(f)'
  BY DEF RowTells, OneBusy, UploadOwns, ScanOwns

LEMMA PlaceKeeps ==
    ASSUME FirmwareInv, NEW d \in Channels, NEW f \in Files, NEW c \in Contents, TeamPlaces(d, f, c)
    PROVE  FirmwareInv'
  <1>1. FirmwareTypes /\ FilesInv /\ RolloutInv BY DEF FirmwareInv
  <1>2. /\ chan' = [chan EXCEPT ![d][f] = c]
        /\ touched' = IF Shared(d, f) THEN touched \cup {f} ELSE touched
        /\ UNCHANGED <<flat, rel, asg, job, done, raced>>
    BY DEF TeamPlaces, Touch
  <1>3. c \in Image BY DEF Image
  <1>4. /\ chan' \in [Channels -> [Files -> Image]] /\ chan'[d][f] = c
        /\ \A ch \in Channels, g \in Files : ch # d \/ g # f => chan'[ch][g] = chan[ch][g]
    BY <1>1, <1>2, <1>3, ChanSet
  <1>5. FirmwareTypes' BY <1>1, <1>2, <1>4 DEF FirmwareTypes
  <1>6. ASSUME f \notin touched'
        PROVE  RowTells(f)' /\ OneBusy(f)' /\ OneCopy(f)' /\ UploadOwns(f)' /\ ScanOwns(f)'
    <2>1. Busy(f) = {} /\ Namesakes(f) = {} /\ \A ch \in Channels : ch # d => chan[ch][f] = None
      BY <1>2, <1>6, FreeName
    <2>2. Busy(f)' = {} /\ Namesakes(f)' = {} BY <1>2, <2>1 DEF Busy, Namesakes
    <2>3. OneCopy(f)' BY <1>4, <2>1 DEF OneCopy
    <2>4. QED BY <2>2, <2>3, FreedName
  <1>7. ScanTarget' BY <1>1, <1>2 DEF FilesInv, ScanTarget
  <1>8. \A g \in Files : g # f => Elsewhere(g) BY <1>2, <1>4 DEF Elsewhere, Busy
  <1>9. FilesInv' BY <1>1, <1>6, <1>7, <1>8, FilesFromName
  <1>10. RolloutInv' BY <1>1, <1>2, RolloutKept
  <1>11. QED BY <1>5, <1>9, <1>10 DEF FirmwareInv

LEMMA UnlinkedFiles ==
    ASSUME FirmwareTypes, NEW f \in Files, NEW d \in Channels,
           flat' = [flat EXCEPT ![f] = None], chan' = [chan EXCEPT ![d][f] = None]
    PROVE  /\ flat' \in [Files -> Image] /\ chan' \in [Channels -> [Files -> Image]]
           /\ chan'[d][f] = None
           /\ \A g \in Files : g # f => flat'[g] = flat[g] /\ \A ch \in Channels : chan'[ch][g] = chan[ch][g]
           /\ \A ch \in Channels : ch # d => chan'[ch][f] = chan[ch][f]
  <1>1. None \in Image BY DEF Image
  <1>2. flat' \in [Files -> Image] /\ \A g \in Files : g # f => flat'[g] = flat[g] BY <1>1, FlatSet
  <1>3. /\ chan' \in [Channels -> [Files -> Image]] /\ chan'[d][f] = None
        /\ \A ch \in Channels, g \in Files : ch # d \/ g # f => chan'[ch][g] = chan[ch][g]
    BY <1>1, ChanSet
  <1>4. QED BY <1>2, <1>3

LEMMA CrashedDeleteKeeps ==
    ASSUME FirmwareInv, NEW n \in Releases, delete_release_crashes(n) PROVE FirmwareInv'
  <1>1. FirmwareTypes /\ FilesInv /\ RolloutInv BY DEF FirmwareInv
  <1>2. rel[n] # NoRow BY DEF delete_release_crashes
  <1>3. PICK f \in Files : f = rel[n].file BY <1>1, <1>2 DEF FirmwareTypes
  <1>4. PICK d \in Channels : d = ChannelOf[n] BY FirmwareAssumption
  <1>5. /\ flat' = [flat EXCEPT ![f] = None] /\ chan' = [chan EXCEPT ![d][f] = None]
        /\ touched' = touched \cup {f} /\ UNCHANGED <<rel, asg, job, done, raced>>
    BY <1>3, <1>4 DEF delete_release_crashes, Unlinked, Touch
  <1>6. /\ flat' \in [Files -> Image] /\ chan' \in [Channels -> [Files -> Image]]
        /\ \A g \in Files : g # f => flat'[g] = flat[g] /\ \A ch \in Channels : chan'[ch][g] = chan[ch][g]
    BY <1>1, <1>5, UnlinkedFiles
  <1>7. FirmwareTypes' BY <1>1, <1>5, <1>6 DEF FirmwareTypes
  <1>8. ScanTarget' BY <1>1, <1>5 DEF FilesInv, ScanTarget
  <1>9. \A g \in Files : g # f => Elsewhere(g) BY <1>5, <1>6 DEF Elsewhere, Busy
  <1>10. FilesInv' BY <1>1, <1>5, <1>8, <1>9, FilesFromName
  <1>11. RolloutInv' BY <1>1, <1>5, RolloutKept
  <1>12. QED BY <1>7, <1>10, <1>11 DEF FirmwareInv

LEMMA MaxOfNaturals ==
    ASSUME NEW n \in Nat, NEW S \in SUBSET (1 .. n), S # {}
    PROVE  Max(S) \in S /\ \A y \in S : Max(S) >= y
  <1> DEFINE R == {ss \in Nat \X Nat : ss[1] < ss[2]}
             T == {m \in Nat : n - m \in S}
  <1>1. OpToRel(<, Nat) = R
    BY DEF OpToRel
  <1>2. IsWellFoundedOn(R, Nat)
    BY <1>1, NatLessThanWellFounded, Zenon
  <1>3. T \in SUBSET Nat /\ T # {}
    <2>1. PICK x \in S : TRUE
      OBVIOUS
    <2>2. n - x \in Nat /\ n - (n - x) = x
      OBVIOUS
    <2> QED
      BY <2>1, <2>2
  <1> HIDE DEF R, T
  <1>4. PICK m \in T : \A k \in T : <<k, m>> \notin R
    BY <1>2, <1>3, WFMin
  <1>5. n - m \in S /\ m \in Nat
    BY <1>4 DEF T
  <1>6. \A y \in S : n - m >= y
    <2> SUFFICES ASSUME NEW y \in S, ~(n - m >= y) PROVE FALSE
      OBVIOUS
    <2>1. n - y \in Nat /\ n - (n - y) = y /\ n - y < m
      BY <1>5
    <2>2. n - y \in T
      BY <2>1 DEF T
    <2>3. <<n - y, m>> \in R
      BY <1>5, <2>1 DEF R
    <2> QED
      BY <1>4, <2>2, <2>3
  <1> QED
    BY <1>5, <1>6 DEF Max

LEMMA AsgRange ==
    ASSUME FirmwareTypes
    PROVE  /\ Len(asg) \in Nat /\ DOMAIN asg = 1 .. Len(asg)
           /\ \A i \in 1 .. Len(asg) : asg[i] \in Assignment
           /\ Active = {i \in 1 .. Len(asg) : asg[i].st \in {"pending", "delivered"}}
  BY DEF FirmwareTypes, Active

LEMMA AsgSet ==
    ASSUME NEW k \in Nat, NEW f, f \in [1 .. k -> Assignment]
    PROVE  f \in Seq(Assignment) /\ Len(f) = k
  <1> HIDE DEF Assignment
  <1>1. QED OBVIOUS

LEMMA CurrentIsNewest ==
    ASSUME FirmwareTypes, Current # 0
    PROVE  Current \in Active /\ Current \in 1 .. Len(asg) /\ \A a \in Active : Current >= a
  <1>1. Active # {} /\ Current = Max(Active) BY DEF Current
  <1>2. Active \in SUBSET (1 .. Len(asg)) /\ Len(asg) \in Nat BY AsgRange
  <1>3. Max(Active) \in Active /\ \A y \in Active : Max(Active) >= y BY <1>1, <1>2, MaxOfNaturals
  <1>4. QED BY <1>1, <1>2, <1>3

\* A step that makes no assignment active and opens no deployment.
LEMMA RolloutShrinks ==
    ASSUME FirmwareTypes, RolloutInv, Len(asg') = Len(asg), DOMAIN asg' = 1 .. Len(asg),
           \A i \in 1 .. Len(asg) :
             /\ asg'[i].st \in {"pending", "delivered"} => asg[i].st \in {"pending", "delivered"}
             /\ asg[i].st \in {"open", "deleted"} => asg'[i].st \in {"open", "deleted"},
           raced' = raced,
           done' = done \/ (~raced => Active' = {}),
           \A w \in Workers : job'[w].op \in {"deploy", "mark"} => job'[w] = job[w]
    PROVE  RolloutInv'
  <1>1. Active' \subseteq Active BY AsgRange DEF Active
  <1>2. OneDeploy' BY DEF RolloutInv, OneDeploy
  <1>3. DeployIsNewest' BY <1>1, AsgRange DEF RolloutInv, DeployIsNewest
  <1>4. OneActive' BY <1>1 DEF RolloutInv, OneActive
  <1>5. DoneIsOlder' BY <1>1 DEF RolloutInv, DoneIsOlder
  <1>6. MarkIsOld' BY DEF RolloutInv, MarkIsOld
  <1>7. QED BY <1>2, <1>3, <1>4, <1>5, <1>6 DEF RolloutInv

\* Assignments that end, those that satisfy a condition.
LEMMA EndedAssignments ==
    ASSUME FirmwareTypes, NEW E \in SUBSET (1 .. Len(asg)),
           asg' = [i \in DOMAIN asg |-> IF i \in E THEN [asg[i] EXCEPT !.st = "deleted"] ELSE asg[i]]
    PROVE  /\ asg' \in Seq(Assignment) /\ Len(asg') = Len(asg) /\ DOMAIN asg' = 1 .. Len(asg)
           /\ \A i \in 1 .. Len(asg) : asg'[i] = asg[i] \/ asg'[i].st = "deleted"
  <1>1. \A i \in 1 .. Len(asg) : /\ asg'[i] \in Assignment
                                 /\ asg'[i] = asg[i] \/ asg'[i].st = "deleted"
    <2> SUFFICES ASSUME NEW i \in 1 .. Len(asg)
                 PROVE  asg'[i] \in Assignment /\ (asg'[i] = asg[i] \/ asg'[i].st = "deleted")
      OBVIOUS
    <2>1. asg[i] \in Assignment /\ i \in DOMAIN asg BY AsgRange
    <2>2. /\ [asg[i] EXCEPT !.st = "deleted"] \in Assignment
          /\ [asg[i] EXCEPT !.st = "deleted"].st = "deleted"
      BY <2>1 DEF Assignment
    <2>3. QED BY <2>1, <2>2
  <1>2. asg' \in [1 .. Len(asg) -> Assignment] BY <1>1, AsgRange
  <1>3. asg' \in Seq(Assignment) /\ Len(asg') = Len(asg) BY <1>2, AsgRange, AsgSet
  <1>4. QED BY <1>1, <1>2, <1>3

LEMMA DeleteKeeps ==
    ASSUME FirmwareInv, NEW n \in Releases, delete_release(n) PROVE FirmwareInv'
  <1>1. FirmwareTypes /\ FilesInv /\ RolloutInv BY DEF FirmwareInv
  <1>2. rel[n] # NoRow BY DEF delete_release
  <1>3. PICK f \in Files : f = rel[n].file BY <1>1, <1>2 DEF FirmwareTypes
  <1>4. PICK d \in Channels : d = ChannelOf[n] BY FirmwareAssumption
  <1>5. PICK E \in SUBSET (1 .. Len(asg)) : E = {i \in 1 .. Len(asg) : asg[i].n = n} OBVIOUS
  <1>6. /\ flat' = [flat EXCEPT ![f] = None] /\ chan' = [chan EXCEPT ![d][f] = None]
        /\ rel' = [rel EXCEPT ![n] = NoRow] /\ UNCHANGED <<done, raced>>
    BY <1>3, <1>4 DEF delete_release, Unlinked
  <1>7. job' = [w \in Workers |->
                  IF job[w].op \in {"hash", "scan"} /\ job[w].to = n
                  THEN [job[w] EXCEPT !.to = "gone"] ELSE job[w]]
    BY DEF delete_release
  <1>8. asg' = [i \in DOMAIN asg |-> IF i \in E THEN [asg[i] EXCEPT !.st = "deleted"] ELSE asg[i]]
    <2>1. DOMAIN asg = 1 .. Len(asg) BY <1>1, AsgRange
    <2>2. asg' = [i \in DOMAIN asg |->
                    IF asg[i].n = n THEN [asg[i] EXCEPT !.st = "deleted"] ELSE asg[i]]
      BY DEF delete_release
    <2>3. QED BY <1>5, <2>1, <2>2
  <1>9. /\ asg' \in Seq(Assignment) /\ Len(asg') = Len(asg) /\ DOMAIN asg' = 1 .. Len(asg)
        /\ \A i \in 1 .. Len(asg) : asg'[i] = asg[i] \/ asg'[i].st = "deleted"
    BY <1>1, <1>8, EndedAssignments
  <1>10. /\ flat' \in [Files -> Image] /\ chan' \in [Channels -> [Files -> Image]]
         /\ chan'[d][f] = None
         /\ \A g \in Files : g # f => flat'[g] = flat[g] /\ \A ch \in Channels : chan'[ch][g] = chan[ch][g]
         /\ \A ch \in Channels : ch # d => chan'[ch][f] = chan[ch][f]
    BY <1>1, <1>6, UnlinkedFiles
  <1>11. rel' \in [Releases -> RelRow] /\ rel'[n] = NoRow /\ \A m \in Releases : m # n => rel'[m] = rel[m]
    <2>1. PICK row \in RelRow : row = NoRow BY DEF NoRow, RelRow, Image
    <2>2. QED BY <1>1, <1>6, <2>1, RelSet
  <1>12. /\ "gone" \notin Releases /\ None \notin Files /\ NoRow.file = None
    BY FirmwareAssumption DEF None, NoRow
  <1>13. \A w \in Workers : /\ job'[w] \in FirmwareJob /\ job'[w].op = job[w].op
                            /\ job[w].op \in {"replace", "copy", "insert", "hash", "scan"} => job'[w].f = job[w].f
                            /\ \/ job'[w] = job[w]
                               \/ job[w].op \in {"hash", "scan"} /\ job[w].to = n /\ job'[w].to = "gone"
    <2> SUFFICES ASSUME NEW w \in Workers
                 PROVE  /\ job'[w] \in FirmwareJob /\ job'[w].op = job[w].op
                        /\ job[w].op \in {"replace", "copy", "insert", "hash", "scan"} => job'[w].f = job[w].f
                        /\ \/ job'[w] = job[w]
                           \/ job[w].op \in {"hash", "scan"} /\ job[w].to = n /\ job'[w].to = "gone"
      OBVIOUS
    <2>1. CASE ~(job[w].op \in {"hash", "scan"} /\ job[w].to = n)
      <3>1. job'[w] = job[w] BY <1>7, <2>1
      <3>2. QED BY <1>1, <3>1, JobShape
    <2>2. CASE job[w].op \in {"hash", "scan"} /\ job[w].to = n
      <3>1. job'[w] = [job[w] EXCEPT !.to = "gone"] BY <1>7, <2>2
      <3>2. job[w] \in Scan BY <1>1, <2>2, JobShape
      <3>3. /\ [job[w] EXCEPT !.to = "gone"] \in Scan /\ [job[w] EXCEPT !.to = "gone"].op = job[w].op
            /\ [job[w] EXCEPT !.to = "gone"].f = job[w].f /\ [job[w] EXCEPT !.to = "gone"].to = "gone"
        BY <3>2 DEF Scan
      <3>4. QED BY <2>2, <3>1, <3>3, ScanJob
    <2>3. QED BY <2>1, <2>2
  <1>14. job' \in [Workers -> FirmwareJob] BY <1>7, <1>13
  <1>15. FirmwareTypes' BY <1>1, <1>6, <1>9, <1>10, <1>11, <1>14 DEF FirmwareTypes
  <1>16. ASSUME f \notin touched'
         PROVE  RowTells(f)' /\ OneBusy(f)' /\ OneCopy(f)' /\ UploadOwns(f)' /\ ScanOwns(f)'
    <2>1. n \in Namesakes(f) BY <1>3 DEF Namesakes
    <2>2. /\ Busy(f) = {} /\ Namesakes(f) = {n}
          /\ \A ch \in Channels : ch # d => chan[ch][f] = None
      <3>1. touched' = CASE Busy(f) # {} -> touched \cup {f}
                         [] Busy(f) = {} /\ Namesakes(f) = {n}
                              /\ \A ch \in Channels \ {d} : chan[ch][f] = None -> touched \ {f}
                         [] OTHER -> touched
        BY <1>3, <1>4 DEF delete_release
      <3>2. Busy(f) = {} BY <1>16, <3>1
      <3>3. CASE f \in touched BY <1>16, <3>1, <3>2, <3>3
      <3>4. CASE f \notin touched
        <4>1. RowTells(f) BY <1>1, <3>4 DEF FilesInv, FileInv
        <4>2. Namesakes(f) = {n} BY <2>1, <4>1 DEF RowTells
        <4>3. QED BY <1>4, <2>1, <3>2, <4>1, <4>2 DEF RowTells
      <3>5. QED BY <3>3, <3>4
    <2>3. Busy(f)' = {} BY <1>13, <2>2 DEF Busy
    <2>4. Namesakes(f)' = {} BY <1>11, <1>12, <2>2 DEF Namesakes
    <2>5. OneCopy(f)' BY <1>10, <2>2 DEF OneCopy
    <2>6. QED BY <2>3, <2>4, <2>5, FreedName
  <1>17. ScanTarget'
    <2> SUFFICES ASSUME NEW w \in Workers, job'[w].op \in {"hash", "scan"}, job'[w].to \in Releases
                 PROVE  rel'[job'[w].to].file = job'[w].f
      BY DEF ScanTarget
    <2>1. job'[w] = job[w] BY <1>12, <1>13
    <2>2. job[w].to # n
      <3>1. SUFFICES ASSUME job[w].to = n PROVE FALSE OBVIOUS
      <3>2. job'[w] = [job[w] EXCEPT !.to = "gone"] BY <1>7, <2>1, <3>1
      <3>3. job[w] \in Scan BY <1>1, <2>1, JobShape
      <3>4. [job[w] EXCEPT !.to = "gone"].to = "gone" BY <3>3 DEF Scan
      <3>5. QED BY <1>12, <2>1, <3>1, <3>2, <3>4
    <2>3. QED BY <1>1, <1>11, <2>1, <2>2 DEF FilesInv, ScanTarget
  <1>18. \A g \in Files : g # f => Elsewhere(g)
    <2> SUFFICES ASSUME NEW g \in Files, g # f PROVE Elsewhere(g)
      OBVIOUS
    <2>1. \A w \in Workers : w \in Busy(g)' => w \in Busy(g) /\ job'[w] = job[w]
      <3> SUFFICES ASSUME NEW w \in Workers, w \in Busy(g)' PROVE w \in Busy(g) /\ job'[w] = job[w]
        OBVIOUS
      <3>1. w \in Busy(g) BY <1>13 DEF Busy
      <3>2. job[w].op \in {"hash", "scan"} => job[w].to # n
        BY <1>1, <1>3, <3>1 DEF FilesInv, ScanTarget, Busy
      <3>3. QED BY <1>13, <3>1, <3>2
    <2>2. g \in touched => g \in touched' BY <1>3 DEF delete_release
    <2>3. \A m \in Releases : rel'[m].file = g \/ rel[m].file = g => rel'[m] = rel[m]
      BY <1>3, <1>11, <1>12
    <2>4. QED BY <1>10, <2>1, <2>2, <2>3 DEF Elsewhere
  <1>19. FilesInv' BY <1>1, <1>16, <1>17, <1>18, FilesFromName
  <1>20. RolloutInv'
    <2>1. \A i \in 1 .. Len(asg) :
            /\ asg'[i].st \in {"pending", "delivered"} => asg[i].st \in {"pending", "delivered"}
            /\ asg[i].st \in {"open", "deleted"} => asg'[i].st \in {"open", "deleted"}
      BY <1>9
    <2>2. \A w \in Workers : job'[w].op \in {"deploy", "mark"} => job'[w] = job[w] BY <1>13
    <2>3. QED BY <1>1, <1>6, <1>9, <2>1, <2>2, RolloutShrinks
  <1>21. QED BY <1>15, <1>19, <1>20 DEF FirmwareInv

LEMMA RestartKeeps == ASSUME FirmwareInv, restart_hub PROVE FirmwareInv'
  <1>1. FirmwareTypes /\ FilesInv /\ RolloutInv BY DEF FirmwareInv
  <1>2. /\ job' = [w \in Workers |-> Idle] /\ UNCHANGED <<flat, chan, rel, done, raced, touched>>
        /\ asg' = [i \in DOMAIN asg |->
                     IF asg[i].st = "open" THEN [asg[i] EXCEPT !.st = "deleted"] ELSE asg[i]]
    BY DEF restart_hub
  <1>3. PICK E \in SUBSET (1 .. Len(asg)) : E = {i \in 1 .. Len(asg) : asg[i].st = "open"} OBVIOUS
  <1>4. asg' = [i \in DOMAIN asg |-> IF i \in E THEN [asg[i] EXCEPT !.st = "deleted"] ELSE asg[i]]
    BY <1>1, <1>2, <1>3, AsgRange
  <1>5. /\ asg' \in Seq(Assignment) /\ Len(asg') = Len(asg) /\ DOMAIN asg' = 1 .. Len(asg)
        /\ \A i \in 1 .. Len(asg) : asg'[i] = asg[i] \/ asg'[i].st = "deleted"
    BY <1>1, <1>4, EndedAssignments
  <1>6. job' \in [Workers -> FirmwareJob] /\ \A w \in Workers : job'[w].op = "idle" BY <1>2, IdleJob
  <1>7. FirmwareTypes' BY <1>1, <1>2, <1>5, <1>6 DEF FirmwareTypes
  <1>8. FilesInv' BY <1>1, <1>2, <1>6, FilesKept
  <1>9. RolloutInv'
    <2>1. \A i \in 1 .. Len(asg) :
            /\ asg'[i].st \in {"pending", "delivered"} => asg[i].st \in {"pending", "delivered"}
            /\ asg[i].st \in {"open", "deleted"} => asg'[i].st \in {"open", "deleted"}
      BY <1>5
    <2>2. QED BY <1>1, <1>2, <1>5, <1>6, <2>1, RolloutShrinks
  <1>10. QED BY <1>7, <1>8, <1>9 DEF FirmwareInv

LEMMA CreateKeeps ==
    ASSUME FirmwareInv, NEW w \in Workers, NEW n \in Releases, create_deployment(w, n) PROVE FirmwareInv'
  <1> DEFINE j == [op |-> "deploy", i |-> Len(asg) + 1, old |-> Active]
  <1>1. FirmwareTypes /\ FilesInv /\ RolloutInv BY DEF FirmwareInv
  <1>2. /\ job[w] = Idle /\ job' = [job EXCEPT ![w] = j]
        /\ asg' = Append(asg, [n |-> n, st |-> "open"])
        /\ raced' = (raced \/ \E v \in Workers : job[v].op = "deploy")
        /\ UNCHANGED <<flat, chan, rel, touched, done>>
    BY DEF create_deployment, Supersedes
  <1>3. j \in FirmwareJob
    <2>1. Len(asg) + 1 \in Nat /\ Active \in SUBSET Nat BY <1>1, AsgRange
    <2>2. QED BY <2>1 DEF FirmwareJob
  <1>4. PICK k \in FirmwareJob : k.op = "deploy" /\ k.i = Len(asg) + 1 /\ k.old = Active /\ k = j
    BY <1>3
  <1> HIDE DEF j
  <1>5. /\ job' \in [Workers -> FirmwareJob] /\ job'[w] = k
        /\ \A v \in Workers : v # w => job'[v] = job[v]
    BY <1>1, <1>2, <1>4, JobSet
  <1>6. /\ asg' \in Seq(Assignment) /\ Len(asg') = Len(asg) + 1
        /\ asg'[Len(asg) + 1] = [n |-> n, st |-> "open"]
        /\ \A i \in 1 .. Len(asg) : asg'[i] = asg[i]
    <2>1. asg \in Seq(Assignment) BY <1>1 DEF FirmwareTypes
    <2>2. [n |-> n, st |-> "open"] \in Assignment BY DEF Assignment
    <2> HIDE DEF Assignment
    <2>3. QED BY <1>2, <2>1, <2>2
  <1>7. Len(asg) \in Nat /\ done \in 0 .. Len(asg) /\ raced \in BOOLEAN
    BY <1>1, AsgRange DEF FirmwareTypes
  <1>8. FirmwareTypes'
    <2>1. done' \in 0 .. Len(asg') BY <1>2, <1>6, <1>7
    <2>2. raced' \in BOOLEAN BY <1>2, <1>7
    <2>3. QED BY <1>1, <1>2, <1>5, <1>6, <2>1, <2>2 DEF FirmwareTypes
  <1>9. FilesInv' BY <1>1, <1>2, <1>4, <1>5, FilesKept
  <1>10. Active' = Active
    <2>1. DOMAIN asg' = 1 .. (Len(asg) + 1) BY <1>6, <1>8, AsgRange DEF FirmwareTypes
    <2>2. \A i \in 1 .. (Len(asg) + 1) : i \in 1 .. Len(asg) \/ i = Len(asg) + 1 BY <1>7
    <2>3. asg'[Len(asg) + 1].st = "open" BY <1>6
    <2>4. \A i : i \in Active' <=> i \in Active
      BY <1>1, <1>6, <1>7, <2>1, <2>2, <2>3, AsgRange DEF Active
    <2>5. QED BY <2>4
  <1>11. RolloutInv'
    <2>1. ~raced' => ~raced /\ \A v \in Workers : job[v].op # "deploy" BY <1>2
    <2>2. ~raced' => \A v \in Workers : job'[v].op = "deploy" => v = w BY <1>5, <2>1
    <2>3. OneDeploy' BY <2>2 DEF OneDeploy
    <2>4. DeployIsNewest' BY <1>4, <1>5, <1>6, <1>7, <1>10, <2>2 DEF DeployIsNewest
    <2>5. OneActive' BY <1>1, <1>10, <2>1 DEF RolloutInv, OneActive
    <2>6. DoneIsOlder' BY <1>1, <1>2, <1>10, <2>1 DEF RolloutInv, DoneIsOlder
    <2>7. MarkIsOld'
      <3>1. ASSUME NEW v \in Workers, job'[v].op = "mark" PROVE job'[v].i <= Len(asg')
        <4>1. job'[v] = job[v] BY <1>4, <1>5, <3>1
        <4>2. job[v].i \in Nat /\ job[v].i <= Len(asg)
          BY <1>1, <3>1, <4>1, JobShape DEF RolloutInv, MarkIsOld
        <4>3. QED BY <1>6, <1>7, <4>1, <4>2
      <3>2. QED BY <3>1 DEF MarkIsOld
    <2>8. QED BY <2>3, <2>4, <2>5, <2>6, <2>7 DEF RolloutInv
  <1>12. QED BY <1>8, <1>9, <1>11 DEF FirmwareInv

LEMMA CommitDeployKeeps ==
    ASSUME FirmwareInv, NEW w \in Workers, create_deployment_commit(w) PROVE FirmwareInv'
  <1>1. FirmwareTypes /\ FilesInv /\ RolloutInv BY DEF FirmwareInv
  <1>2. job[w].op = "deploy" BY DEF create_deployment_commit
  <1>3. PICK d, old : d = job[w].i /\ old = job[w].old OBVIOUS
  <1>4. /\ asg' = [i \in DOMAIN asg |->
             CASE i = d /\ asg[i].st = "open" -> [asg[i] EXCEPT !.st = "pending"]
               [] i \in old /\ i \in Active -> [asg[i] EXCEPT !.st = "superseded"]
               [] OTHER -> asg[i]]
        /\ job' = [job EXCEPT ![w] = Idle]
        /\ UNCHANGED <<flat, chan, rel, done, raced, touched>>
    BY <1>3 DEF create_deployment_commit
  <1>5. /\ job' \in [Workers -> FirmwareJob] /\ job'[w] = Idle
        /\ \A v \in Workers : v # w => job'[v] = job[v]
    BY <1>1, <1>4, JobSet, IdleJob
  <1>6. /\ Len(asg) \in Nat /\ DOMAIN asg = 1 .. Len(asg)
        /\ \A i \in 1 .. Len(asg) : asg[i] \in Assignment
        /\ Active = {i \in 1 .. Len(asg) : asg[i].st \in {"pending", "delivered"}}
    BY <1>1, AsgRange
  <1>7. ASSUME NEW i \in 1 .. Len(asg)
        PROVE  /\ asg'[i] \in Assignment
               /\ asg'[i].st = IF i = d /\ asg[i].st = "open" THEN "pending"
                               ELSE IF i \in old /\ i \in Active THEN "superseded" ELSE asg[i].st
    <2>1. asg[i] \in Assignment BY <1>6
    <2>2. /\ [asg[i] EXCEPT !.st = "pending"] \in Assignment
          /\ [asg[i] EXCEPT !.st = "pending"].st = "pending"
      BY <2>1 DEF Assignment
    <2>3. /\ [asg[i] EXCEPT !.st = "superseded"] \in Assignment
          /\ [asg[i] EXCEPT !.st = "superseded"].st = "superseded"
      BY <2>1 DEF Assignment
    <2>4. asg'[i] = CASE i = d /\ asg[i].st = "open" -> [asg[i] EXCEPT !.st = "pending"]
                      [] i \in old /\ i \in Active -> [asg[i] EXCEPT !.st = "superseded"]
                      [] OTHER -> asg[i]
      BY <1>4, <1>6
    <2>5. i = d /\ asg[i].st = "open" => i \notin Active BY <1>6
    <2>6. QED BY <2>1, <2>2, <2>3, <2>4, <2>5
  <1>8. asg' \in [1 .. Len(asg) -> Assignment] BY <1>4, <1>6, <1>7
  <1>9. asg' \in Seq(Assignment) /\ Len(asg') = Len(asg) /\ DOMAIN asg' = 1 .. Len(asg)
    BY <1>6, <1>8, AsgSet
  <1>10. FirmwareTypes' BY <1>1, <1>4, <1>5, <1>9 DEF FirmwareTypes
  <1>11. FilesInv' BY <1>1, <1>4, <1>5, IdleJob, FilesKept
  <1>12. RolloutInv'
    <2>1. ASSUME ~raced PROVE /\ d = Len(asg) /\ Active' \subseteq {d}
                              /\ \A v \in Workers : job'[v].op # "deploy"
      <3>1. /\ d = Len(asg) /\ Active \subseteq old
            /\ \A v \in Workers : job[v].op = "deploy" => v = w
        BY <1>1, <1>2, <1>3, <2>1 DEF RolloutInv, DeployIsNewest, OneDeploy
      <3>2. \A v \in Workers : job'[v].op # "deploy" BY <1>5, <3>1, IdleJob
      <3>3. \A i \in 1 .. Len(asg) : i # d => asg'[i].st \notin {"pending", "delivered"}
        BY <1>6, <1>7, <3>1
      <3>4. Active' \subseteq {d} BY <1>9, <3>3 DEF Active
      <3>5. QED BY <3>1, <3>2, <3>4
    <2>2. OneDeploy' BY <1>4, <2>1 DEF OneDeploy
    <2>3. DeployIsNewest' BY <1>4, <2>1 DEF DeployIsNewest
    <2>4. OneActive' BY <1>4, <2>1 DEF OneActive
    <2>5. DoneIsOlder'
      <3>1. done \in 0 .. Len(asg) BY <1>1 DEF FirmwareTypes
      <3>2. QED BY <1>4, <1>6, <2>1, <3>1 DEF DoneIsOlder
    <2>6. MarkIsOld'
      <3>1. ASSUME NEW v \in Workers, job'[v].op = "mark" PROVE job'[v].i <= Len(asg')
        <4>1. job'[v] = job[v] BY <1>5, <3>1, IdleJob
        <4>2. QED BY <1>1, <1>9, <3>1, <4>1 DEF RolloutInv, MarkIsOld
      <3>2. QED BY <3>1 DEF MarkIsOld
    <2>7. QED BY <2>2, <2>3, <2>4, <2>5, <2>6 DEF RolloutInv
  <1>13. QED BY <1>10, <1>11, <1>12 DEF FirmwareInv

LEMMA OfferKeeps ==
    ASSUME FirmwareInv, NEW w \in Workers, assignment_for_device(w) PROVE FirmwareInv'
  <1>1. FirmwareTypes /\ FilesInv /\ RolloutInv BY DEF FirmwareInv
  <1>2. PICK n : n = asg[Current].n OBVIOUS
  <1>3. n \in Releases
    <2>1. Current # 0 BY DEF assignment_for_device
    <2>2. Current \in 1 .. Len(asg) BY <1>1, <2>1, CurrentIsNewest
    <2>3. asg[Current] \in Assignment BY <1>1, <2>2, AsgRange
    <2>4. QED BY <1>2, <2>3 DEF Assignment
  <1>4. rel[n] \in RelRow BY <1>1, <1>3 DEF FirmwareTypes
  <1>5. PICK j \in FirmwareJob : /\ j.op = "offer"
                                 /\ j = [op |-> "offer", offer |-> [n |-> n, row |-> rel[n]]]
    BY <1>3, <1>4 DEF FirmwareJob
  <1>6. job' = [job EXCEPT ![w] = j] /\ UNCHANGED <<flat, chan, rel, asg, done, raced, touched>>
    BY <1>2, <1>5 DEF assignment_for_device
  <1>7. /\ job' \in [Workers -> FirmwareJob] /\ job'[w] = j
        /\ \A v \in Workers : v # w => job'[v] = job[v]
    BY <1>1, <1>5, <1>6, JobSet
  <1>8. FirmwareTypes' BY <1>1, <1>6, <1>7 DEF FirmwareTypes
  <1>9. FilesInv' BY <1>1, <1>5, <1>6, <1>7, FilesKept
  <1>10. RolloutInv' BY <1>1, <1>5, <1>6, <1>7, RolloutKept
  <1>11. QED BY <1>8, <1>9, <1>10 DEF FirmwareInv

LEMMA SelectKeeps ==
    ASSUME FirmwareInv, NEW w \in Workers, select_pending(w) PROVE FirmwareInv'
  <1> DEFINE pending == {i \in DOMAIN asg : asg[i].st = "pending"}
  <1>1. FirmwareTypes /\ FilesInv /\ RolloutInv BY DEF FirmwareInv
  <1>2. PICK k : k = IF pending = {} THEN 0 ELSE Max(pending) OBVIOUS
  <1>3. k \in Nat /\ k <= Len(asg)
    <2>1. pending \in SUBSET (1 .. Len(asg)) /\ Len(asg) \in Nat BY <1>1, AsgRange
    <2>2. pending # {} => Max(pending) \in pending BY <2>1, MaxOfNaturals
    <2>3. QED BY <1>2, <2>1, <2>2
  <1>4. PICK offer \in [n: Releases, row: RelRow] : offer = job[w].offer
    BY <1>1, JobShape DEF select_pending
  <1>5. PICK j \in FirmwareJob : /\ j.op = "mark" /\ j.i = k
                                 /\ j = [op |-> "mark", offer |-> offer, i |-> k]
    BY <1>3 DEF FirmwareJob
  <1>6. job' = [job EXCEPT ![w] = j] /\ UNCHANGED <<flat, chan, rel, asg, done, raced, touched>>
    BY <1>2, <1>4, <1>5 DEF select_pending
  <1> HIDE DEF pending
  <1>7. /\ job' \in [Workers -> FirmwareJob] /\ job'[w] = j
        /\ \A v \in Workers : v # w => job'[v] = job[v]
    BY <1>1, <1>5, <1>6, JobSet
  <1>8. FirmwareTypes' BY <1>1, <1>6, <1>7 DEF FirmwareTypes
  <1>9. FilesInv' BY <1>1, <1>5, <1>6, <1>7, FilesKept
  <1>10. RolloutInv'
    <2>1. Active' = Active BY <1>6 DEF Active
    <2>2. \A v \in Workers : job'[v].op = "deploy" => job'[v] = job[v] BY <1>5, <1>7
    <2>3. OneDeploy' BY <1>1, <1>6, <2>2 DEF RolloutInv, OneDeploy
    <2>4. DeployIsNewest' BY <1>1, <1>6, <2>1, <2>2 DEF RolloutInv, DeployIsNewest
    <2>5. OneActive' /\ DoneIsOlder' BY <1>1, <1>6, <2>1 DEF RolloutInv, OneActive, DoneIsOlder
    <2>6. MarkIsOld' BY <1>1, <1>3, <1>5, <1>6, <1>7 DEF RolloutInv, MarkIsOld
    <2>7. QED BY <2>3, <2>4, <2>5, <2>6 DEF RolloutInv
  <1>11. QED BY <1>8, <1>9, <1>10 DEF FirmwareInv

\* One assignment changes its status.
LEMMA StatusSet ==
    ASSUME FirmwareTypes, NEW k \in 1 .. Len(asg), NEW s \in {"delivered", "completed"},
           asg' = [asg EXCEPT ![k].st = s]
    PROVE  /\ asg' \in Seq(Assignment) /\ Len(asg') = Len(asg) /\ DOMAIN asg' = 1 .. Len(asg)
           /\ asg'[k].st = s /\ \A i \in 1 .. Len(asg) : i # k => asg'[i] = asg[i]
  <1>1. asg[k] \in Assignment /\ asg \in [1 .. Len(asg) -> Assignment] /\ Len(asg) \in Nat
    BY AsgRange DEF FirmwareTypes
  <1>2. PICK x \in Assignment : x = [asg[k] EXCEPT !.st = s] /\ x.st = s BY <1>1 DEF Assignment
  <1>3. asg' = [asg EXCEPT ![k] = x] BY <1>2
  <1>4. asg' \in [1 .. Len(asg) -> Assignment] BY <1>1, <1>2, <1>3
  <1>5. asg'[k] = x /\ \A i \in 1 .. Len(asg) : i # k => asg'[i] = asg[i] BY <1>1, <1>3
  <1>6. asg' \in Seq(Assignment) /\ Len(asg') = Len(asg) BY <1>1, <1>4, AsgSet
  <1>7. QED BY <1>2, <1>4, <1>5, <1>6

LEMMA MarkKeeps ==
    ASSUME FirmwareInv, NEW w \in Workers, mark_assignment_delivered(w) PROVE FirmwareInv'
  <1>1. FirmwareTypes /\ FilesInv /\ RolloutInv BY DEF FirmwareInv
  <1>2. PICK k \in Nat : k = job[w].i /\ k <= Len(asg)
    BY <1>1, JobShape DEF RolloutInv, MarkIsOld, mark_assignment_delivered
  <1>3. /\ job' = [job EXCEPT ![w] = Idle] /\ UNCHANGED <<flat, chan, rel, done, touched>>
        /\ \/ asg' = asg /\ raced' = raced
           \/ /\ k # 0 /\ asg' = [asg EXCEPT ![k].st = "delivered"]
              /\ raced' = (raced \/ asg[k].st # "pending")
    BY <1>2 DEF mark_assignment_delivered
  <1>4. /\ job' \in [Workers -> FirmwareJob] /\ job'[w] = Idle
        /\ \A v \in Workers : v # w => job'[v] = job[v]
    BY <1>1, <1>3, JobSet, IdleJob
  <1>5. FilesInv' BY <1>1, <1>3, <1>4, IdleJob, FilesKept
  <1>6. CASE asg' = asg /\ raced' = raced
    <2>1. FirmwareTypes' BY <1>1, <1>3, <1>4, <1>6 DEF FirmwareTypes
    <2>2. RolloutInv' BY <1>1, <1>3, <1>4, <1>6, IdleJob, RolloutKept
    <2>3. QED BY <1>5, <2>1, <2>2 DEF FirmwareInv
  <1>7. CASE /\ k # 0 /\ asg' = [asg EXCEPT ![k].st = "delivered"]
             /\ raced' = (raced \/ asg[k].st # "pending")
    <2>1. k \in 1 .. Len(asg) /\ Len(asg) \in Nat BY <1>1, <1>2, <1>7, AsgRange
    <2>2. /\ asg' \in Seq(Assignment) /\ Len(asg') = Len(asg) /\ DOMAIN asg' = 1 .. Len(asg)
          /\ asg'[k].st = "delivered" /\ \A i \in 1 .. Len(asg) : i # k => asg'[i] = asg[i]
      BY <1>1, <1>7, <2>1, StatusSet
    <2>3. raced' \in BOOLEAN /\ (raced' = raced \/ raced') BY <1>1, <1>7 DEF FirmwareTypes
    <2>4. FirmwareTypes' BY <1>1, <1>3, <1>4, <2>2, <2>3 DEF FirmwareTypes
    <2>5. CASE raced'
      <3>1. MarkIsOld' BY <1>1, <1>3, <1>4, <2>2, IdleJob DEF RolloutInv, MarkIsOld
      <3>2. QED BY <1>5, <2>4, <2>5, <3>1
                DEF FirmwareInv, RolloutInv, OneDeploy, DeployIsNewest, OneActive, DoneIsOlder
    <2>6. CASE ~raced'
      <3>1. raced' = raced /\ asg[k].st = "pending" BY <1>7, <2>3, <2>6
      <3>2. \A i \in 1 .. Len(asg) :
              /\ asg'[i].st \in {"pending", "delivered"} => asg[i].st \in {"pending", "delivered"}
              /\ asg[i].st \in {"open", "deleted"} => asg'[i].st \in {"open", "deleted"}
        BY <2>2, <3>1
      <3>3. RolloutInv' BY <1>1, <1>3, <1>4, <2>2, <3>1, <3>2, IdleJob, RolloutShrinks
      <3>4. QED BY <1>5, <2>4, <3>3 DEF FirmwareInv
    <2>7. QED BY <2>5, <2>6
  <1>8. QED BY <1>3, <1>6, <1>7

LEMMA ReconcileKeeps ==
    ASSUME FirmwareInv, reconcile_assignment_reported_version PROVE FirmwareInv'
  <1>1. FirmwareTypes /\ FilesInv /\ RolloutInv BY DEF FirmwareInv
  <1>2. PICK k : k = Current OBVIOUS
  <1>3. /\ k # 0 /\ asg' = [asg EXCEPT ![k].st = "completed"] /\ done' = Max({done, k})
        /\ UNCHANGED <<flat, chan, rel, job, raced, touched>>
    BY <1>2 DEF reconcile_assignment_reported_version
  <1>4. k \in Active /\ k \in 1 .. Len(asg) BY <1>1, <1>2, <1>3, CurrentIsNewest
  <1>5. /\ asg' \in Seq(Assignment) /\ Len(asg') = Len(asg) /\ DOMAIN asg' = 1 .. Len(asg)
        /\ asg'[k].st = "completed" /\ \A i \in 1 .. Len(asg) : i # k => asg'[i] = asg[i]
    BY <1>1, <1>3, <1>4, StatusSet
  <1>6. done' \in 0 .. Len(asg)
    <2>1. done \in 0 .. Len(asg) /\ Len(asg) \in Nat BY <1>1, AsgRange DEF FirmwareTypes
    <2>2. Max({done, k}) \in {done, k}
      <3>1. k >= done \/ done >= k BY <1>4, <2>1
      <3>2. k >= k /\ done >= done BY <1>4, <2>1
      <3>3. \E x \in {done, k} : \A y \in {done, k} : x >= y BY <3>1, <3>2
      <3>4. QED BY <3>3 DEF Max
    <2>3. QED BY <1>3, <1>4, <2>1, <2>2
  <1>7. FirmwareTypes' BY <1>1, <1>3, <1>5, <1>6 DEF FirmwareTypes
  <1>8. FilesInv' BY <1>1, <1>3, FilesKept
  <1>9. RolloutInv'
    <2>1. ~raced => Active' = {}
      <3>1. SUFFICES ASSUME ~raced PROVE Active' = {} OBVIOUS
      <3>2. Active = {i \in 1 .. Len(asg) : asg[i].st \in {"pending", "delivered"}} BY <1>1, AsgRange
      <3>3. \A i \in 1 .. Len(asg) : i # k => asg[i].st \notin {"pending", "delivered"}
        BY <1>1, <1>4, <3>1, <3>2 DEF RolloutInv, OneActive
      <3>4. \A i \in 1 .. Len(asg) : asg'[i].st \notin {"pending", "delivered"} BY <1>5, <3>3
      <3>5. QED BY <1>5, <3>4 DEF Active
    <2>2. \A i \in 1 .. Len(asg) :
            /\ asg'[i].st \in {"pending", "delivered"} => asg[i].st \in {"pending", "delivered"}
            /\ asg[i].st \in {"open", "deleted"} => asg'[i].st \in {"open", "deleted"}
      <3>1. asg[k].st \in {"pending", "delivered"} BY <1>4 DEF Active
      <3>2. QED BY <1>5, <3>1
    <2>3. QED BY <1>1, <1>3, <1>5, <2>1, <2>2, RolloutShrinks
  <1>10. QED BY <1>7, <1>8, <1>9 DEF FirmwareInv

LEMMA FirmwareFrame ==
    ASSUME FirmwareInv, UNCHANGED <<flat, chan, rel, asg, job, done, raced, touched>> PROVE FirmwareInv'
  <1>1. FirmwareTypes' BY DEF FirmwareInv, FirmwareTypes
  <1>2. FilesInv' BY FilesKept DEF FirmwareInv
  <1>3. RolloutInv' BY RolloutKept DEF FirmwareInv
  <1>4. QED BY <1>1, <1>2, <1>3 DEF FirmwareInv

LEMMA FirmwareInitHolds == ASSUME FirmwareInit PROVE FirmwareInv
  <1>1. \A w \in Workers : job[w].op = "idle" BY IdleJob DEF FirmwareInit
  <1>2. FirmwareTypes
    <2>1. job \in [Workers -> FirmwareJob] BY IdleJob DEF FirmwareInit
    <2>2. rel \in [Releases -> RelRow] /\ \A n \in Releases : rel[n] = NoRow
      BY DEF FirmwareInit, NoRow, RelRow, Image
    <2>3. asg \in Seq(Assignment) /\ Len(asg) = 0 BY DEF FirmwareInit
    <2>4. done \in 0 .. Len(asg) BY <2>3 DEF FirmwareInit
    <2>5. flat \in [Files -> Image] /\ chan \in [Channels -> [Files -> Image]] /\ raced \in BOOLEAN
      BY DEF FirmwareInit, Image
    <2>6. QED BY <2>1, <2>2, <2>3, <2>4, <2>5 DEF FirmwareTypes
  <1>3. FilesInv
    <2>1. ScanTarget BY <1>1 DEF ScanTarget
    <2>2. ASSUME NEW f \in Files PROVE FileInv(f)
      <3>1. Busy(f) = {} BY <1>1 DEF Busy
      <3>2. Namesakes(f) = {} BY FirmwareAssumption DEF Namesakes, FirmwareInit, NoRow, None
      <3>3. OneCopy(f) BY DEF OneCopy, FirmwareInit
      <3>4. QED BY <3>1, <3>2, <3>3 DEF FileInv, RowTells, OneBusy, UploadOwns, ScanOwns
    <2>3. QED BY <2>1, <2>2 DEF FilesInv
  <1>4. RolloutInv
    <2>1. Active = {} BY DEF Active, FirmwareInit
    <2>2. QED BY <1>1, <2>1 DEF RolloutInv, OneDeploy, DeployIsNewest, OneActive, DoneIsOlder, MarkIsOld
  <1>5. QED BY <1>2, <1>3, <1>4 DEF FirmwareInv

LEMMA FirmwareStep == ASSUME FirmwareInv, [FirmwareNext]_firmwareVars PROVE FirmwareInv'
  <1>1. CASE \E w \in Workers, n \in Releases :
               (\E c \in Contents : firmware_upload_submit(w, n, c)) \/ firmware_deploy_submit(w, n)
    BY <1>1, CheckKeeps, CreateKeeps DEF firmware_upload_submit, firmware_deploy_submit
  <1>2. CASE \E w \in Workers, ch \in Channels, f \in Files : firmware_scan_submit(w, ch, f)
    BY <1>2, ScanBeginKeeps DEF firmware_scan_submit
  <1>3. CASE \E n \in Releases : delete_release(n) \/ delete_release_crashes(n)
    BY <1>3, DeleteKeeps, CrashedDeleteKeeps
  <1>4. CASE \E ch \in Channels, f \in Files, c \in Contents : TeamPlaces(ch, f, c)
    BY <1>4, PlaceKeeps
  <1>5. CASE \E w \in Workers : WorkerNext(w) \/ upload_publish_fails(w)
    <2>1. PICK w \in Workers : WorkerNext(w) \/ upload_publish_fails(w) BY <1>5
    <2>2. CASE upload_publish_fails(w) BY <2>2, FailedPublishKeeps
    <2>3. CASE upload_replace(w) \/ upload_publish(w) \/ upload_insert(w)
      BY <2>3, ReplaceKeeps, PublishKeeps, InsertKeeps
    <2>4. CASE scan_hash(w) \/ discover_on_disk_releases(w) BY <2>4, HashKeeps, DiscoverKeeps
    <2>5. CASE create_deployment_commit(w) BY <2>5, CommitDeployKeeps
    <2>6. CASE assignment_for_device(w) \/ select_pending(w) \/ mark_assignment_delivered(w)
      BY <2>6, OfferKeeps, SelectKeeps, MarkKeeps
    <2>7. QED BY <2>1, <2>2, <2>3, <2>4, <2>5, <2>6 DEF WorkerNext
  <1>6. CASE restart_hub BY <1>6, RestartKeeps
  <1>7. CASE reconcile_assignment_reported_version BY <1>7, ReconcileKeeps
  <1>8. CASE Install \/ FallBack BY <1>8, FirmwareFrame DEF Install, FallBack
  <1>9. CASE UNCHANGED firmwareVars BY <1>9, FirmwareFrame DEF firmwareVars
  <1>10. QED BY <1>1, <1>2, <1>3, <1>4, <1>5, <1>6, <1>7, <1>8, <1>9 DEF FirmwareNext

\* Whatever the requests of operators, the scan and the device do to releases
\* and assignments, the files stay those of the rows and the newest assignment
\* alone can become active, up to the exceptions recorded in touched and raced
\* (services/firmware.py, services/deployments.py).
THEOREM FirmwareInvariant == FirmwareSpec => []FirmwareInv
  <1>1. FirmwareInit => FirmwareInv BY FirmwareInitHolds
  <1>2. FirmwareInv /\ [FirmwareNext]_firmwareVars => FirmwareInv' BY FirmwareStep
  <1>3. QED BY <1>1, <1>2, PTL DEF FirmwareSpec

\* For every number of releases, names, images and threads: the file a release
\* points devices to has the hash its row tells them to verify, whatever step an
\* upload or a scan has reached, unless the files of that name were changed
\* behind the rows (services/firmware.py).
THEOREM ReleasesAreSound == FirmwareSpec => []ReleaseServesItsHash
  <1>1. FirmwareInv => ReleaseServesItsHash
    <2> SUFFICES ASSUME FirmwareInv, NEW n \in Releases, rel[n] # NoRow, rel[n].file \notin touched
                 PROVE  Served(n, rel[n]) = rel[n].sha
      BY DEF ReleaseServesItsHash
    <2>1. PICK f \in Files : f = rel[n].file BY DEF FirmwareInv, FirmwareTypes
    <2>2. n \in Namesakes(f) /\ RowTells(f)
      BY <2>1 DEF Namesakes, FirmwareInv, FilesInv, FileInv
    <2>3. QED BY <2>2 DEF RowTells
  <1>2. QED BY <1>1, FirmwareInvariant, PTL

\* For every number of deployments: once the device has completed one, no older
\* one becomes current again, unless two were created at the same time or a
\* delivery wrote a row that had ended meanwhile (services/deployments.py).
THEOREM RolloutsMoveForward == FirmwareSpec => []OlderNeverResumes
  <1>1. FirmwareInv => OlderNeverResumes
    <2> SUFFICES ASSUME FirmwareInv, Current # 0, Current < done, ~raced PROVE FALSE
      BY DEF OlderNeverResumes
    <2>1. Current \in Active /\ Current \in 1 .. Len(asg) BY CurrentIsNewest DEF FirmwareInv
    <2>2. done <= Current BY <2>1 DEF FirmwareInv, RolloutInv, DoneIsOlder
    <2>3. done \in Int /\ Current \in Int BY <2>1 DEF FirmwareInv, FirmwareTypes
    <2>4. QED BY <2>2, <2>3
  <1>2. QED BY <1>1, FirmwareInvariant, PTL

-----------------------------------------------------------------------------
(* DeviceConfig: saves of the desired configuration and their pushes.      *)
(*                                                                         *)
(* The argument.  A version that is still the stored one names one         *)
(* configuration: a page, and a save made from it, whose base is that      *)
(* version have seen what is stored (PageIsFresh, SavesAreFresh).  Until   *)
(* two pushes overlap, the one that has read is ahead of the whole queue   *)
(* (PushIsNewest).                                                         *)

Settings == [Paths -> Int]
Push == [cfg: Settings, ver: Nat]
SaveRequest == [op: {"set"}, base: Nat, path: Paths, form: BOOLEAN, mode: Modes, cfg: Settings]

Request ==
  [op: {"idle"}]
    \cup SaveRequest
    \cup [op: {"find", "create"}, mode: Modes]
    \cup [op: {"push"}, seen: Push]
    \cup [op: {"enqueue"}, load: Push]

Page == {Closed} \cup [open: {TRUE}, cfg: Settings, base: Nat, form: BOOLEAN]

ConfigTypes ==
  /\ desired \in [cfg: Settings, ver: Nat, mode: Modes]
  /\ page \in Page
  /\ queue \in Seq(Push)
  /\ request \in [Threads -> Request]

PageIsFresh == page.open =>
  /\ page.base <= desired.ver
  /\ page.base = desired.ver =>
       page.cfg = desired.cfg /\ (page.form => is_form_representable(desired.cfg))

SavesAreFresh == \A w \in Threads : request[w].op = "set" /\ request[w].form =>
  /\ request[w].base <= desired.ver
  /\ request[w].base = desired.ver =>
       \A p \in Paths \ {request[w].path} : Kept(desired.cfg, request[w].cfg, p)

QueueIsOlder ==
  /\ \A i \in DOMAIN queue : queue[i].ver <= desired.ver
  /\ \A w \in Threads : request[w].op = "enqueue" => request[w].load.ver <= desired.ver

QueueInOrder == "push" \notin crossed =>
  \A i, j \in DOMAIN queue : i < j => queue[i].ver <= queue[j].ver

PushIsNewest == "push" \notin crossed =>
  \A w \in Threads : request[w].op = "enqueue" =>
    /\ \A v \in Threads : request[v].op = "enqueue" => v = w
    /\ \A i \in DOMAIN queue : queue[i].ver <= request[w].load.ver

ConfigInv == /\ ConfigTypes /\ PageIsFresh /\ SavesAreFresh
             /\ QueueIsOlder /\ QueueInOrder /\ PushIsNewest

LEMMA RequestSet ==
    ASSUME ConfigTypes, NEW w \in Threads, NEW j \in Request, request' = [request EXCEPT ![w] = j]
    PROVE  /\ request' \in [Threads -> Request] /\ request'[w] = j
           /\ \A v \in Threads : v # w => request'[v] = request[v]
  <1>1. request \in [Threads -> Request] BY DEF ConfigTypes
  <1> HIDE DEF Request
  <1>2. QED BY <1>1

\* The shape of a request, by what it does.
LEMMA RequestShape ==
    ASSUME ConfigTypes, NEW w \in Threads
    PROVE  /\ request[w].op = "set" => request[w] \in SaveRequest
           /\ request[w].op = "find" => request[w] \in [op: {"find", "create"}, mode: Modes]
           /\ request[w].op = "enqueue" => request[w] \in [op: {"enqueue"}, load: Push]
  <1>1. request[w] \in Request BY DEF ConfigTypes
  <1>2. QED BY <1>1 DEF Request, SaveRequest

LEMMA FreeRequest == Free \in Request /\ Free.op = "idle"
  BY DEF Free, Request

LEMMA DesiredShape ==
    ASSUME ConfigTypes
    PROVE  /\ desired.cfg \in Settings /\ desired.ver \in Nat /\ desired.mode \in Modes
           /\ [cfg |-> desired.cfg, ver |-> desired.ver] \in Push
  BY DEF ConfigTypes, Push

LEMMA QueueShape ==
    ASSUME ConfigTypes
    PROVE  /\ Len(queue) \in Nat /\ DOMAIN queue = 1 .. Len(queue)
           /\ \A i \in DOMAIN queue : queue[i] \in Push /\ queue[i].ver \in Nat
  <1>1. Len(queue) \in Nat /\ DOMAIN queue = 1 .. Len(queue) /\ \A i \in DOMAIN queue : queue[i] \in Push
    BY DEF ConfigTypes
  <1>2. QED BY <1>1 DEF Push

\* A step that saves nothing, opens no page and reads nothing to push.
LEMMA ConfigKept ==
    ASSUME ConfigInv, UNCHANGED <<desired, page, queue, crossed>>, request' \in [Threads -> Request],
           \A w \in Threads : request'[w].op \in {"set", "enqueue"} => request'[w] = request[w]
    PROVE  ConfigInv'
  <1>1. ConfigTypes' BY DEF ConfigInv, ConfigTypes
  <1>2. PageIsFresh' BY DEF ConfigInv, PageIsFresh, is_form_representable
  <1>3. SavesAreFresh' BY DEF ConfigInv, SavesAreFresh, Kept
  <1>4. QueueIsOlder' BY DEF ConfigInv, QueueIsOlder
  <1>5. QueueInOrder' BY DEF ConfigInv, QueueInOrder
  <1>6. PushIsNewest' BY DEF ConfigInv, PushIsNewest
  <1>7. QED BY <1>1, <1>2, <1>3, <1>4, <1>5, <1>6 DEF ConfigInv

\* The same, for one request that goes on to j.
LEMMA RequestKept ==
    ASSUME ConfigInv, UNCHANGED <<desired, page, queue, crossed>>, NEW w \in Threads, NEW j \in Request,
           j.op \notin {"set", "enqueue"}, request' = [request EXCEPT ![w] = j]
    PROVE  ConfigInv'
  <1>1. /\ request' \in [Threads -> Request] /\ request'[w] = j
        /\ \A v \in Threads : v # w => request'[v] = request[v]
    BY RequestSet DEF ConfigInv
  <1>2. \A v \in Threads : request'[v].op \in {"set", "enqueue"} => request'[v] = request[v] BY <1>1
  <1>3. QED BY <1>1, <1>2, ConfigKept

LEMMA PageOpens == ASSUME ConfigInv, device_detail_page PROVE ConfigInv'
  <1>1. /\ page' = [open |-> TRUE, cfg |-> desired.cfg, base |-> desired.ver,
                    form |-> is_form_representable(desired.cfg)]
        /\ UNCHANGED <<desired, queue, request, crossed>>
    BY DEF device_detail_page
  <1>2. /\ page'.open /\ page'.cfg = desired.cfg /\ page'.base = desired.ver
        /\ page'.form = is_form_representable(desired.cfg)
    BY <1>1
  <1>3. desired.cfg \in Settings /\ desired.ver \in Nat BY DesiredShape DEF ConfigInv
  <1>4. page' \in Page BY <1>1, <1>3 DEF Page, is_form_representable
  <1>5. ConfigTypes' BY <1>1, <1>4 DEF ConfigInv, ConfigTypes
  <1>6. PageIsFresh'
    <2>1. page'.base <= desired'.ver /\ page'.cfg = desired'.cfg BY <1>1, <1>2, <1>3
    <2>2. page'.form => is_form_representable(desired.cfg)' BY <1>1, <1>2 DEF is_form_representable
    <2>3. QED BY <2>1, <2>2 DEF PageIsFresh
  <1>7. SavesAreFresh' BY <1>1 DEF ConfigInv, SavesAreFresh, Kept
  <1>8. QueueIsOlder' BY <1>1 DEF ConfigInv, QueueIsOlder
  <1>9. QueueInOrder' BY <1>1 DEF ConfigInv, QueueInOrder
  <1>10. PushIsNewest' BY <1>1 DEF ConfigInv, PushIsNewest
  <1>11. QED BY <1>5, <1>6, <1>7, <1>8, <1>9, <1>10 DEF ConfigInv

LEMMA NewIsInt == ASSUME ConfigTypes PROVE New \in Nat
  <1>1. {w \in Threads : request[w].op = "set"} \subseteq Threads OBVIOUS
  <1>2. Saving \in Nat BY <1>1, DeviceConfigAssumption, FS_Subset, FS_CardinalityType DEF Saving
  <1>3. QED BY <1>2, DesiredShape DEF New

\* A save that begins from a version still stored agrees with what is stored.
LEMMA SaveBegins ==
    ASSUME ConfigInv, UNCHANGED <<desired, queue, crossed>>, page' \in {page, Closed},
           NEW w \in Threads, NEW j \in SaveRequest, request' = [request EXCEPT ![w] = j],
           j.form => /\ j.base <= desired.ver
                     /\ j.base = desired.ver =>
                          \A p \in Paths \ {j.path} : Kept(desired.cfg, j.cfg, p)
    PROVE  ConfigInv'
  <1>1. j \in Request /\ j.op = "set" BY DEF Request, SaveRequest
  <1>2. /\ request' \in [Threads -> Request] /\ request'[w] = j
        /\ \A v \in Threads : v # w => request'[v] = request[v]
    BY <1>1, RequestSet DEF ConfigInv
  <1>3. ConfigTypes'
    <2>1. page' \in Page BY DEF ConfigInv, ConfigTypes, Page
    <2>2. QED BY <1>2, <2>1 DEF ConfigInv, ConfigTypes
  <1>4. PageIsFresh'
    <2>1. ~Closed.open BY DEF Closed
    <2>2. QED BY <2>1 DEF ConfigInv, PageIsFresh, is_form_representable
  <1>5. SavesAreFresh' BY <1>2 DEF ConfigInv, SavesAreFresh, Kept
  <1>6. \A v \in Threads : request'[v].op = "enqueue" => request'[v] = request[v] BY <1>1, <1>2
  <1>7. QueueIsOlder' BY <1>6 DEF ConfigInv, QueueIsOlder
  <1>8. QueueInOrder' BY DEF ConfigInv, QueueInOrder
  <1>9. PushIsNewest' BY <1>6 DEF ConfigInv, PushIsNewest
  <1>10. QED BY <1>3, <1>4, <1>5, <1>7, <1>8, <1>9 DEF ConfigInv

\* What the form makes of a configuration it can show: one setting changes.
LEMMA FormChangesOne ==
    ASSUME NEW cfg \in Settings, NEW old \in Settings, NEW p \in Paths, NEW v \in Int
    PROVE  LET new == build_desired_config_from_form(FormOf(cfg, p, v), old)
           IN /\ new \in Settings
              /\ cfg = old /\ is_form_representable(old) => \A q \in Paths \ {p} : Kept(old, new, q)
  <1> DEFINE form == FormOf(cfg, p, v)
             new == build_desired_config_from_form(form, old)
  <1>1. \A q \in Paths : desired_config_to_form_values(cfg)[q] =
                           IF q \in {"secret", "extra"} \/ cfg[q] = -2 THEN 0 ELSE cfg[q]
    BY DEF Settings, desired_config_to_form_values, Absent, Odd, Paths
  <1>2. form \in Settings /\ \A q \in Paths : form[q] = IF q = p THEN v ELSE desired_config_to_form_values(cfg)[q]
    BY DEF FormOf, Settings, desired_config_to_form_values, Absent, Paths
  <1> HIDE DEF form
  <1>3. \A q \in Paths : new[q] = IF q = "flag" /\ form[q] = 0 THEN -1
                                  ELSE IF q = "secret" /\ form[q] = 0 THEN old[q] ELSE form[q]
    BY DEF build_desired_config_from_form, Absent, Off, Paths
  <1>4. new \in Settings
    BY <1>2, <1>3 DEF Settings, build_desired_config_from_form
  <1> HIDE DEF new
  <1>5. ASSUME cfg = old, is_form_representable(old), NEW q \in Paths \ {p} PROVE Kept(old, new, q)
    <2>1. form[q] = IF q \in {"secret", "extra"} \/ old[q] = -2 THEN 0 ELSE old[q] BY <1>1, <1>2, <1>5
    <2>2. CASE q = "flag" BY <1>3, <2>1, <2>2 DEF Kept, Absent, Odd, Off
    <2>3. CASE q = "secret" BY <1>3, <2>1, <2>3 DEF Kept
    <2>4. CASE q = "extra" BY <1>3, <1>5, <2>1, <2>4 DEF Kept, is_form_representable, Absent
    <2>5. CASE q = "name" BY <1>3, <2>1, <2>5 DEF Kept, Odd
    <2>6. QED BY <2>2, <2>3, <2>4, <2>5 DEF Paths
  <1>6. QED BY <1>4, <1>5 DEF new, form

LEMMA SaveSubmitKeeps ==
    ASSUME ConfigInv, NEW w \in Threads, NEW form \in BOOLEAN, NEW p \in Paths, NEW v \in {Absent, Odd, New},
           device_desired_config_save_submit(w, form, p, v)
    PROVE  ConfigInv'
  <1> DEFINE built == build_desired_config_from_form(FormOf(page.cfg, p, v), desired.cfg)
             cfg == IF form THEN built ELSE [page.cfg EXCEPT ![p] = v]
             j == [op |-> "set", base |-> page.base, path |-> p, form |-> form, mode |-> desired.mode,
                   cfg |-> cfg]
  <1>1. /\ page.open /\ request' = [request EXCEPT ![w] = j] /\ page' = Closed
        /\ (form => page.form) /\ UNCHANGED <<desired, queue, crossed>>
    BY DEF device_desired_config_save_submit
  <1>2. page \in [open: {TRUE}, cfg: Settings, base: Nat, form: BOOLEAN]
    <2>1. page # Closed BY <1>1 DEF Closed
    <2>2. QED BY <2>1 DEF ConfigInv, ConfigTypes, Page
  <1>3. desired.cfg \in Settings /\ desired.ver \in Nat /\ desired.mode \in Modes
    BY DesiredShape DEF ConfigInv
  <1>4. v \in Int BY NewIsInt DEF ConfigInv, Absent, Odd
  <1>5. /\ built \in Settings
        /\ page.cfg = desired.cfg /\ is_form_representable(desired.cfg) =>
             \A q \in Paths \ {p} : Kept(desired.cfg, built, q)
    BY <1>2, <1>3, <1>4, FormChangesOne
  <1> HIDE DEF built
  <1>6. cfg \in Settings BY <1>2, <1>4, <1>5 DEF Settings
  <1>7. form => cfg = built OBVIOUS
  <1> HIDE DEF cfg
  <1>8. j \in SaveRequest BY <1>2, <1>3, <1>6 DEF SaveRequest
  <1>9. j.form = form /\ j.base = page.base /\ j.path = p /\ j.cfg = cfg OBVIOUS
  <1>10. PICK k \in SaveRequest : k = j BY <1>8
  <1> HIDE DEF j
  <1>11. k.form => /\ k.base <= desired.ver
                   /\ k.base = desired.ver => \A q \in Paths \ {k.path} : Kept(desired.cfg, k.cfg, q)
    BY <1>1, <1>5, <1>7, <1>9, <1>10 DEF ConfigInv, PageIsFresh
  <1>12. QED BY <1>1, <1>10, <1>11, SaveBegins

LEMMA PickSubmitKeeps ==
    ASSUME ConfigInv, NEW w \in Threads, NEW m \in Modes, device_configure_submit(w, m) PROVE ConfigInv'
  <1> DEFINE j == [op |-> "set", base |-> 0, path |-> "name", form |-> FALSE, mode |-> m,
                   cfg |-> apply_picker(New)]
  <1>1. request' = [request EXCEPT ![w] = j] /\ UNCHANGED <<desired, page, queue, crossed>>
    BY DEF device_configure_submit
  <1>2. apply_picker(New) \in Settings
    <2>1. PICK x \in Nat : x = New BY NewIsInt DEF ConfigInv
    <2>2. [Empty EXCEPT !["name"] = x] \in Settings BY DEF Empty, Settings, Paths, Absent
    <2>3. QED BY <2>1, <2>2 DEF apply_picker
  <1>3. j \in SaveRequest /\ ~j.form BY <1>2 DEF SaveRequest, Paths
  <1>4. PICK k \in SaveRequest : k = j /\ ~k.form BY <1>3
  <1> HIDE DEF j
  <1>5. QED BY <1>1, <1>4, SaveBegins

LEMMA SaveKeeps == ASSUME ConfigInv, NEW w \in Threads, set_desired_config(w) PROVE ConfigInv'
  <1> DEFINE j == request[w]
             next == IF Picks(j) THEN [op |-> "find", mode |-> j.mode] ELSE Free
  <1>1. /\ j.op = "set" /\ desired' = [cfg |-> j.cfg, ver |-> desired.ver + 1, mode |-> j.mode]
        /\ request' = [request EXCEPT ![w] = next]
        /\ UNCHANGED <<page, queue, crossed>>
    BY DEF set_desired_config
  <1>2. j \in SaveRequest BY <1>1, RequestShape DEF ConfigInv
  <1>3. desired.ver \in Nat BY DesiredShape DEF ConfigInv
  <1>4. next \in Request /\ next.op \in {"find", "idle"}
    <2>1. /\ [op |-> "find", mode |-> j.mode] \in Request /\ [op |-> "find", mode |-> j.mode].op = "find"
      BY <1>2 DEF Request, SaveRequest
    <2>2. QED BY <2>1, FreeRequest
  <1>5. PICK k \in Request : k = next /\ k.op \in {"find", "idle"} BY <1>4
  <1>6. desired' \in [cfg: Settings, ver: Nat, mode: Modes] /\ desired'.ver = desired.ver + 1
    BY <1>1, <1>2, <1>3 DEF SaveRequest
  <1> HIDE DEF next, j
  <1>7. /\ request' \in [Threads -> Request] /\ request'[w] = k
        /\ \A v \in Threads : v # w => request'[v] = request[v]
    BY <1>1, <1>5, RequestSet DEF ConfigInv
  <1>8. \A v \in Threads : request'[v].op \in {"set", "enqueue"} => request'[v] = request[v] BY <1>5, <1>7
  <1>9. ConfigTypes' BY <1>1, <1>6, <1>7 DEF ConfigInv, ConfigTypes
  <1>10. PageIsFresh'
    <2> SUFFICES ASSUME page.open PROVE page.base <= desired'.ver /\ page.base # desired'.ver
      BY <1>1 DEF PageIsFresh
    <2>1. page.base \in Nat
      <3>1. page # Closed BY DEF Closed
      <3>2. QED BY <3>1 DEF ConfigInv, ConfigTypes, Page
    <2>2. page.base <= desired.ver BY DEF ConfigInv, PageIsFresh
    <2>3. QED BY <1>3, <1>6, <2>1, <2>2
  <1>11. SavesAreFresh'
    <2> SUFFICES ASSUME NEW v \in Threads, request'[v].op = "set", request'[v].form
                 PROVE  request'[v].base <= desired'.ver /\ request'[v].base # desired'.ver
      BY DEF SavesAreFresh
    <2>1. request'[v] = request[v] /\ request[v].base \in Nat
      BY <1>8, RequestShape DEF ConfigInv, SaveRequest
    <2>2. request[v].base <= desired.ver BY <2>1 DEF ConfigInv, SavesAreFresh
    <2>3. QED BY <1>3, <1>6, <2>1, <2>2
  <1>12. QueueIsOlder'
    <2>1. \A i \in DOMAIN queue : queue[i].ver \in Nat BY QueueShape DEF ConfigInv
    <2>2. \A v \in Threads : request[v].op = "enqueue" => request[v].load.ver \in Nat
      BY RequestShape DEF ConfigInv, Push
    <2>3. \A i \in DOMAIN queue : queue[i].ver <= desired'.ver
      BY <1>3, <1>6, <2>1 DEF ConfigInv, QueueIsOlder
    <2>4. ASSUME NEW v \in Threads, request'[v].op = "enqueue" PROVE request'[v].load.ver <= desired'.ver
      <3>1. request'[v] = request[v] BY <1>8, <2>4
      <3>2. request[v].load.ver \in Nat /\ request[v].load.ver <= desired.ver
        BY <2>2, <2>4, <3>1 DEF ConfigInv, QueueIsOlder
      <3>3. QED BY <1>3, <1>6, <3>1, <3>2
    <2>5. QED BY <1>1, <2>3, <2>4 DEF QueueIsOlder
  <1>13. QueueInOrder' BY <1>1 DEF ConfigInv, QueueInOrder
  <1>14. PushIsNewest' BY <1>1, <1>8 DEF ConfigInv, PushIsNewest
  <1>15. QED BY <1>9, <1>10, <1>11, <1>12, <1>13, <1>14 DEF ConfigInv

LEMMA ReadToPushKeeps == ASSUME ConfigInv, NEW w \in Threads, push_desired_config(w) PROVE ConfigInv'
  <1> DEFINE load == [cfg |-> desired.cfg, ver |-> desired.ver]
             ready == [op |-> "enqueue", load |-> load]
             quiet == ~Managed \/ desired.cfg = Empty \/ Len(queue) >= MaxPushes
             next == IF quiet THEN Free ELSE ready
  <1>1. /\ request' = [request EXCEPT ![w] = next]
        /\ crossed' = IF Pushing # {} THEN crossed \cup {"push"} ELSE crossed
        /\ UNCHANGED <<desired, page, queue>>
    BY DEF push_desired_config, Payload
  <1>2. load \in Push /\ load.ver = desired.ver /\ desired.ver \in Nat BY DesiredShape DEF ConfigInv
  <1> HIDE DEF load
  <1>3. ready \in Request /\ ready.op = "enqueue" /\ ready.load = load BY <1>2 DEF Request
  <1>4. PICK k \in Request : /\ k = next /\ k.op # "set"
                             /\ k.op = "enqueue" => k.load.ver = desired.ver
    BY <1>2, <1>3, FreeRequest
  <1> HIDE DEF next
  <1>5. /\ request' \in [Threads -> Request] /\ request'[w] = k
        /\ \A v \in Threads : v # w => request'[v] = request[v]
    BY <1>1, <1>4, RequestSet DEF ConfigInv
  <1>6. ConfigTypes' BY <1>1, <1>5 DEF ConfigInv, ConfigTypes
  <1>7. PageIsFresh' BY <1>1 DEF ConfigInv, PageIsFresh, is_form_representable
  <1>8. SavesAreFresh' BY <1>1, <1>4, <1>5 DEF ConfigInv, SavesAreFresh, Kept
  <1>9. QueueIsOlder' BY <1>1, <1>2, <1>4, <1>5 DEF ConfigInv, QueueIsOlder
  <1>10. QueueInOrder' BY <1>1 DEF ConfigInv, QueueInOrder
  <1>11. PushIsNewest'
    <2> SUFFICES ASSUME "push" \notin crossed', NEW v \in Threads, request'[v].op = "enqueue"
                 PROVE  /\ \A u \in Threads : request'[u].op = "enqueue" => u = v
                        /\ \A i \in DOMAIN queue : queue[i].ver <= request'[v].load.ver
      BY <1>1 DEF PushIsNewest
    <2>1. Pushing = {} BY <1>1
    <2>2. \A u \in Threads : request'[u].op = "enqueue" => u = w BY <1>5, <2>1 DEF Pushing
    <2>3. request'[v].load.ver = desired.ver BY <1>4, <1>5, <2>2
    <2>4. QED BY <2>2, <2>3 DEF ConfigInv, QueueIsOlder
  <1>12. QED BY <1>6, <1>7, <1>8, <1>9, <1>10, <1>11 DEF ConfigInv

LEMMA EnqueueKeeps == ASSUME ConfigInv, NEW w \in Threads, push_enqueue(w) PROVE ConfigInv'
  <1>1. request[w].op = "enqueue" BY DEF push_enqueue
  <1>2. PICK load \in Push : load = request[w].load
    BY <1>1, RequestShape DEF ConfigInv
  <1>3. /\ queue' = Append(queue, load) /\ request' = [request EXCEPT ![w] = Free]
        /\ UNCHANGED <<desired, page, crossed>>
    BY <1>2 DEF push_enqueue
  <1>4. /\ request' \in [Threads -> Request] /\ request'[w] = Free
        /\ \A v \in Threads : v # w => request'[v] = request[v]
    BY <1>3, FreeRequest, RequestSet DEF ConfigInv
  <1>5. \A v \in Threads : request'[v].op \in {"set", "enqueue"} => v # w /\ request'[v] = request[v]
    BY <1>4, FreeRequest
  <1>6. PICK n \in Nat : n = Len(queue) BY QueueShape DEF ConfigInv
  <1>7. /\ queue' \in Seq(Push) /\ DOMAIN queue' = 1 .. (n + 1) /\ DOMAIN queue = 1 .. n
        /\ queue'[n + 1] = load /\ \A i \in 1 .. n : queue'[i] = queue[i]
    <2>1. queue \in Seq(Push) BY DEF ConfigInv, ConfigTypes
    <2> HIDE DEF Push
    <2>2. QED BY <1>3, <1>6, <2>1
  <1>8. \A i \in 1 .. (n + 1) : i \in 1 .. n \/ i = n + 1 BY <1>6
  <1>9. ConfigTypes' BY <1>3, <1>4, <1>7 DEF ConfigInv, ConfigTypes
  <1>10. PageIsFresh' BY <1>3 DEF ConfigInv, PageIsFresh, is_form_representable
  <1>11. SavesAreFresh' BY <1>3, <1>5 DEF ConfigInv, SavesAreFresh, Kept
  <1>12. QueueIsOlder'
    <2>1. load.ver <= desired.ver BY <1>1, <1>2 DEF ConfigInv, QueueIsOlder
    <2>2. QED BY <1>3, <1>5, <1>7, <1>8, <2>1 DEF ConfigInv, QueueIsOlder
  <1>13. QueueInOrder'
    <2> SUFFICES ASSUME "push" \notin crossed, NEW i \in 1 .. (n + 1), NEW m \in 1 .. (n + 1), i < m
                 PROVE  queue'[i].ver <= queue'[m].ver
      BY <1>3, <1>7 DEF QueueInOrder
    <2>1. i \in 1 .. n BY <1>6
    <2>2. CASE m \in 1 .. n BY <1>7, <2>1, <2>2 DEF ConfigInv, QueueInOrder
    <2>3. CASE m = n + 1 BY <1>1, <1>2, <1>7, <2>1, <2>3 DEF ConfigInv, PushIsNewest
    <2>4. QED BY <1>8, <2>2, <2>3
  <1>14. PushIsNewest' BY <1>1, <1>3, <1>5 DEF ConfigInv, PushIsNewest
  <1>15. QED BY <1>9, <1>10, <1>11, <1>12, <1>13, <1>14 DEF ConfigInv

\* The push a heartbeat or an operator asks for has read nothing yet.
LEMMA PushRequest ==
    ASSUME ConfigTypes
    PROVE  LET j == [op |-> "push", seen |-> [cfg |-> desired.cfg, ver |-> desired.ver]]
           IN  j \in Request /\ j.op = "push"
  BY DesiredShape DEF Request

LEMMA HeartbeatKeeps ==
    ASSUME ConfigInv, NEW w \in Threads, NEW hb, record_heartbeat(w, hb) PROVE ConfigInv'
  <1> DEFINE j == [op |-> "push", seen |-> [cfg |-> desired.cfg, ver |-> desired.ver]]
  <1>1. /\ UNCHANGED <<desired, page, queue, crossed>>
        /\ request' = request \/ request' = [request EXCEPT ![w] = j]
    BY DEF record_heartbeat, maybe_push_after_recovery
  <1>2. j \in Request /\ j.op = "push" BY PushRequest DEF ConfigInv
  <1> HIDE DEF j
  <1>3. CASE request' = request
    BY <1>1, <1>3, ConfigKept DEF ConfigInv, ConfigTypes
  <1>4. CASE request' = [request EXCEPT ![w] = j]
    BY <1>1, <1>2, <1>4, RequestKept
  <1>5. QED BY <1>1, <1>3, <1>4

LEMMA ConfigFrame ==
    ASSUME ConfigInv, UNCHANGED <<desired, page, queue, request, crossed>> PROVE ConfigInv'
  BY ConfigKept DEF ConfigInv, ConfigTypes

LEMMA ConfigInitHolds == ASSUME ConfigInit PROVE ConfigInv
  <1>1. PICK kept \in {{"secret"}, {"extra"}} :
          desired = [cfg |-> [p \in Paths |-> IF p \in kept \cup {"name"} THEN 1 ELSE Absent],
                     ver |-> 1, mode |-> "smart_plug"]
    BY DEF ConfigInit
  <1>2. page = Closed /\ queue = <<>> /\ request = [w \in Threads |-> Free] BY DEF ConfigInit
  <1>3. \A w \in Threads : request[w].op = "idle" BY <1>2, FreeRequest
  <1>4. ConfigTypes
    <2>1. [p \in Paths |-> IF p \in kept \cup {"name"} THEN 1 ELSE Absent] \in Settings
      BY DEF Settings, Absent
    <2>2. desired \in [cfg: Settings, ver: Nat, mode: Modes] BY <1>1, <2>1, DeviceConfigAssumption
    <2>3. request \in [Threads -> Request] BY <1>2, FreeRequest
    <2>4. QED BY <1>2, <2>2, <2>3 DEF ConfigTypes, Page
  <1>5. ~page.open BY <1>2 DEF Closed
  <1>6. DOMAIN queue = {} BY <1>2
  <1>7. QED BY <1>3, <1>4, <1>5, <1>6
            DEF ConfigInv, PageIsFresh, SavesAreFresh, QueueIsOlder, QueueInOrder, PushIsNewest

LEMMA ConfigStep == ASSUME ConfigInv, [ConfigNext]_configVars PROVE ConfigInv'
  <1>1. CASE device_detail_page BY <1>1, PageOpens
  <1>2. CASE crash
    <2>1. request' = [w \in Threads |-> Free] /\ UNCHANGED <<desired, page, queue, crossed>>
      BY <1>2 DEF crash
    <2>2. request' \in [Threads -> Request] /\ \A w \in Threads : request'[w].op = "idle"
      BY <2>1, FreeRequest
    <2>3. QED BY <2>1, <2>2, ConfigKept
  <1>3. CASE DeviceNext
    <2>1. CASE \E w \in Threads, fields \in Reports : heartbeat(w, fields)
      BY <2>1, HeartbeatKeeps DEF heartbeat
    <2>2. CASE heartbeat_delayed \/ ApplyConfig \/ Expire \/ EnterRecovery \/ Reboot
               \/ \E restores \in BOOLEAN : LeaveRecovery(restores)
      BY <2>2, ConfigFrame
         DEF heartbeat_delayed, ApplyConfig, Expire, EnterRecovery, Reboot, LeaveRecovery
    <2>3. QED BY <1>3, <2>1, <2>2 DEF DeviceNext
  <1>4. ASSUME NEW w \in Threads, OperatorNext(w) PROVE ConfigInv'
    <2>1. CASE \E form \in BOOLEAN, p \in Paths, v \in {Absent, Odd, New} :
                 device_desired_config_save_submit(w, form, p, v)
      BY <2>1, SaveSubmitKeeps
    <2>2. CASE \E m \in Modes : device_configure_submit(w, m) BY <2>2, PickSubmitKeeps
    <2>3. CASE device_desired_config_push_submit(w)
      BY <2>3, PushRequest, RequestKept DEF device_desired_config_push_submit, ConfigInv
    <2>4. QED BY <1>4, <2>1, <2>2, <2>3 DEF OperatorNext
  <1>5. ASSUME NEW w \in Threads, HubNext(w) PROVE ConfigInv'
    <2>1. CASE set_desired_config(w) BY <2>1, SaveKeeps
    <2>2. CASE replace_rule(w)
      <3>1. PICK j \in Request : j = [request[w] EXCEPT !.op = "create"] /\ j.op = "create"
        <4>1. request[w] \in [op: {"find", "create"}, mode: Modes]
          BY <2>2, RequestShape DEF replace_rule, ConfigInv
        <4>2. /\ [request[w] EXCEPT !.op = "create"] \in [op: {"find", "create"}, mode: Modes]
              /\ [request[w] EXCEPT !.op = "create"].op = "create"
          BY <4>1
        <4>3. QED BY <4>2 DEF Request
      <3>2. request' = [request EXCEPT ![w] = j] /\ UNCHANGED <<desired, page, queue, crossed>>
        BY <2>2, <3>1 DEF replace_rule
      <3>3. QED BY <3>1, <3>2, RequestKept
    <2>3. CASE create_wizard_rule(w)
      BY <2>3, FreeRequest, RequestKept DEF create_wizard_rule
    <2>4. CASE push_desired_config(w) BY <2>4, ReadToPushKeeps
    <2>5. CASE push_enqueue(w) BY <2>5, EnqueueKeeps
    <2>6. CASE late_heartbeat(w) BY <2>6, HeartbeatKeeps DEF late_heartbeat
    <2>7. CASE push_fails(w)
      BY <2>7, FreeRequest, RequestKept DEF push_fails
    <2>8. QED BY <1>5, <2>1, <2>2, <2>3, <2>4, <2>5, <2>6, <2>7 DEF HubNext
  <1>6. CASE UNCHANGED configVars BY <1>6, ConfigFrame DEF configVars
  <1>7. QED BY <1>1, <1>2, <1>3, <1>4, <1>5, <1>6 DEF ConfigNext

\* What open pages, saves under way and pushes have read stays comparable with
\* what is stored, whatever operators, heartbeats and restarts do.
THEOREM ConfigInvariant == ConfigSpec => []ConfigInv
  <1>1. ConfigInit => ConfigInv BY ConfigInitHolds
  <1>2. ConfigInv /\ [ConfigNext]_configVars => ConfigInv' BY ConfigStep
  <1>3. QED BY <1>1, <1>2, PTL DEF ConfigSpec

\* For any number of threads, saves and pushes: a device is never told to go
\* back to an older configuration after a newer one, unless two pushes
\* overlapped between their read and their enqueue (push_desired_config).
THEOREM PushesInOrder == ConfigSpec => []PushesMoveForward
  <1>1. ConfigInv => PushesMoveForward
    <2> SUFFICES ASSUME ConfigInv, "push" \notin crossed, NEW i \in DOMAIN queue, NEW j \in DOMAIN queue, i < j
                 PROVE  ~(queue[i].ver > queue[j].ver)
      BY DEF PushesMoveForward
    <2>1. queue[i].ver <= queue[j].ver BY DEF ConfigInv, QueueInOrder
    <2>2. queue[i].ver \in Nat /\ queue[j].ver \in Nat BY QueueShape DEF ConfigInv
    <2>3. QED BY <2>1, <2>2
  <1>2. QED BY <1>1, ConfigInvariant, PTL

\* A save from the structured form changes the setting the operator changed,
\* the unset checkboxes and what a field cannot hold, and keeps all the others,
\* the hidden ones and the secret included, unless somebody else saved after the
\* page was opened (build_desired_config_from_form, set_desired_config).
THEOREM FormSavesAreFaithful == ConfigSpec => FormKeepsConfig
  <1> DEFINE Keeps == \A w \in Threads :
               set_desired_config(w) /\ request[w].form /\ request[w].base = desired.ver
                 => \A p \in Paths \ {request[w].path} : Kept(desired.cfg, desired'.cfg, p)
  <1>1. ConfigInv => Keeps
    <2> SUFFICES ASSUME ConfigInv, NEW w \in Threads, set_desired_config(w), request[w].form,
                        request[w].base = desired.ver, NEW p \in Paths \ {request[w].path}
                 PROVE  Kept(desired.cfg, desired'.cfg, p)
      OBVIOUS
    <2>1. request[w].op = "set" /\ desired'.cfg = request[w].cfg BY DEF set_desired_config
    <2>2. QED BY <2>1 DEF ConfigInv, SavesAreFresh, Kept
  <1>2. FormKeepsConfig <=> [][Keeps]_configVars BY DEF FormKeepsConfig
  <1> HIDE DEF Keeps
  <1>3. QED BY <1>1, <1>2, ConfigInvariant, PTL

=============================================================================
