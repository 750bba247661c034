------------------------------ MODULE Sensors ------------------------------
(***************************************************************************)
(* External sensor sources and the watchdog probes that read them: the     *)
(* registry (services/external_sensors/_crud.py), the pollers, the inbound *)
(* webhook and MQTT writers (services/mqtt_subscriber.py), the sample      *)
(* queries, and the sensor probes of                                       *)
(* services/watchdog_runtime/_probes_integrations.py, which only read and  *)
(* so are operators of the state.                                          *)
(*                                                                         *)
(* poll_source stamps the time, reads the row, asks the network and writes *)
(* the sample in one transaction at the end; the page's test button polls  *)
(* next to the scheduler's job, rows are edited and deleted, and the hub   *)
(* restarts, in between.  A time is kept as its age in clock steps, up to  *)
(* the age at which no query tells it from an older one.  Two times of one *)
(* source are never equal (the code's clock counts microseconds).  A poll  *)
(* may take for ever: its timeouts are per socket operation, and an answer *)
(* is read to its end.                                                     *)
(***************************************************************************)
EXTENDS Integers, Sequences, FiniteSets, SequencesExt

CONSTANTS Sources,     \* ids of external_sensor_sources
          Fleets,      \* source -> the kind it will be added as, or "none"
          Topics,      \* MQTT topics
          Interval,    \* poll_interval_seconds
          MaxAge,      \* max_sample_age_seconds of the rules
          Threshold,   \* the threshold of the rules
          ScanLimit,   \* bound: the 500 rows a topic is searched in
          CounterMax   \* bound: the agent's error counter

WEBHOOK_KINDS == {"plex", "jellyfin", "ios_shortcut"}
SUBSCRIBER_KINDS == {"mqtt"}
CalendarKinds == {"ical", "google_calendar"}
SolarKinds == {"solaredge", "enphase_envoy"}
EXTERNAL_SOURCE_KINDS ==
  {"roku", "home_assistant", "weather", "snmp"} \cup CalendarKinds \cup SolarKinds
    \cup WEBHOOK_KINDS \cup SUBSCRIBER_KINDS

ASSUME SensorsAssumption ==
  /\ Fleets \subseteq [Sources -> EXTERNAL_SOURCE_KINDS \cup {"none"}]
  /\ Interval \in Nat \ {0} /\ MaxAge \in Nat
  /\ Threshold \in Nat /\ ScanLimit \in Nat \ {0}
  /\ CounterMax \in Nat

VARIABLES src,      \* source -> its row
          samples,  \* source -> its newest samples, newest first
          poll,     \* thread -> the poll it is in
          due,      \* sources the scheduler's job has still to poll
          clients,  \* sources with a running MQTT subscriber
          cnt,      \* the SNMP agent's error counter
          heard     \* history: source -> the age of the last thing it said

sensorsVars == <<src, samples, poll, due, clients, cnt, heard>>

Threads == {"tick", "manual"}
Never == -1
NoReading == -1
NoPoll == [on |-> FALSE]
Free(kind) == [st |-> "free", kind |-> kind]
Gone == [st |-> "gone"]
Old == MaxAge + 1                     \* the age no query looks beyond

Registered(s) == src[s].st = "row"
Inbound(s) == src[s].kind \in WEBHOOK_KINDS \cup SUBSCRIBER_KINDS
Polling(t, s) == poll[t].on /\ poll[t].src = s

ExternalSensorSource(kind) ==
  [st |-> "row", kind |-> kind, enabled |-> TRUE, polled |-> Never]

\* A sample: the age of sampled_at and what the source said, with two
\* history fields: whether the agent has counted an error since, and
\* whether another poll of the source overlapped the one that made it.
ExternalSensorSample(age, p, lap) ==
  [age |-> age, p |-> p, err |-> FALSE, lap |-> lap]

\* How many of its newest samples some query reads.
Depth(kind) ==
  CASE kind = "snmp" -> 2 [] kind = "mqtt" -> ScanLimit [] OTHER -> 1

\* Samples in ORDER BY sampled_at DESC; rows no query reads are left out.
Stored(s, r) ==
  LET older == {i \in DOMAIN samples[s] : samples[s][i].age >= r.age}
      all == InsertAt(samples[s], Min(older \cup {Len(samples[s]) + 1}), r)
  IN  SubSeq(all, 1, Min({Len(all), Depth(src[s].kind)}))

AtMost(age, cap) == IF age < cap THEN age ELSE cap

\* No sample or poll of the source bears this instant's time yet.
NewInstant(s) ==
  /\ \A i \in DOMAIN samples[s] : samples[s][i].age > 0
  /\ \A t \in Threads : Polling(t, s) => poll[t].age > 0

----------------------------------------------------------------------------
(* The registry and its page.                                              *)

\* What the kind requires is there: a token, coordinates, a URL, topics,
\* credentials.  Roku and Envoy need nothing, webhook kinds mint a secret.
_validate_kind_config(kind, config) ==
  config = "complete" \/ kind \in WEBHOOK_KINDS \cup {"roku", "enphase_envoy"}

create_source(s, kind, config) ==
  /\ src[s].st = "free" /\ kind \in EXTERNAL_SOURCE_KINDS
  /\ _validate_kind_config(kind, config)
  /\ src' = [src EXCEPT ![s] = ExternalSensorSource(kind)]
  /\ UNCHANGED <<samples, poll, due, clients, cnt, heard>>

settings_integrations_add_submit ==
  \E s \in Sources, config \in {"complete", "missing"} :
    src[s] # Gone /\ create_source(s, src[s].kind, config)

\* The samples go with the row (ON DELETE CASCADE); a subscriber stays.
delete_source(s) ==
  /\ Registered(s)
  /\ src' = [src EXCEPT ![s] = Gone]
  /\ samples' = [samples EXCEPT ![s] = <<>>]
  /\ UNCHANGED <<poll, due, clients, cnt, heard>>

settings_integrations_delete_submit == \E s \in Sources : delete_source(s)

set_source_enabled(s, enabled) ==
  /\ Registered(s)
  /\ src' = [src EXCEPT ![s].enabled = enabled]
  /\ UNCHANGED <<samples, poll, due, clients, cnt, heard>>

settings_integrations_toggle_submit ==
  \E s \in Sources, enabled \in BOOLEAN :
    Registered(s) /\ enabled # src[s].enabled /\ set_source_enabled(s, enabled)

----------------------------------------------------------------------------
(* What a poll can bring back when its requests succeed.  Levels are       *)
(* numbers: for a Roku 1 is the rule's app and 0 another, for weather the  *)
(* severity of the worst alert that passes the rule's filter.              *)

\* No <app> element, another app, the rule's app.
_poll_roku == {NoReading, 0, 1}

\* The rule's entity has a value, or is not in the payload (or no number).
_poll_home_assistant == {NoReading} \cup 0 .. Threshold + 1

_poll_weather == 0 .. Threshold + 1

\* The event that matches the rule: it starts in `from` steps and ends in
\* `to`; an event without DTEND ends when it starts.
_parse_ical_events == [from: 0 .. 1, to: 0 .. 2, naive: {FALSE}]

_poll_ical == {e \in _parse_ical_events : e.from <= e.to}

\* An all-day event carries a bare date, a time without a time zone.
_normalise_gcal_events == [from: {0}, to: {2}, naive: BOOLEAN]

_poll_google_calendar == _normalise_gcal_events \cup {[from |-> 0, to |-> 0, naive |-> FALSE]}

_poll_solaredge == {NoReading} \cup 0 .. Threshold + 1

\* The metered reading if there is one, else the inverters', else none.
_poll_enphase_envoy == {NoReading} \cup 0 .. Threshold + 1

\* The rule's interface with its state and its counter, which one table
\* holds; an interface only the other table names has neither.
_parse_snmp_table(n) ==
  [has: {TRUE}, up: BOOLEAN, n: {n}] \cup {[has |-> TRUE, up |-> FALSE, n |-> NoReading]}

\* Or the interface is in no table, or dropped by the source's filter.
_poll_snmp(n) == _parse_snmp_table(n) \cup {[has |-> FALSE, up |-> FALSE, n |-> NoReading]}

_poll_kind(kind) ==
  CASE kind = "roku" -> _poll_roku
    [] kind = "home_assistant" -> _poll_home_assistant
    [] kind = "weather" -> _poll_weather
    [] kind = "ical" -> _poll_ical
    [] kind = "solaredge" -> _poll_solaredge
    [] kind = "enphase_envoy" -> _poll_enphase_envoy
    [] kind = "snmp" -> _poll_snmp(cnt)
    [] kind = "google_calendar" -> _poll_google_calendar

----------------------------------------------------------------------------
(* Polling.                                                                *)

\* poll_source up to the request: the time is taken, the row is read.
poll_source(t, s) ==
  LET others == {u \in Threads : Polling(u, s)}
  IN  /\ NewInstant(s)
      /\ poll' = [u \in Threads |->
                    CASE u = t -> [on |-> TRUE, src |-> s, age |-> 0,
                                   lap |-> others # {} /\ src[s].kind = "snmp"]
                      [] u \in others -> [poll[u] EXCEPT !.lap = src[s].kind = "snmp"]
                      [] OTHER -> poll[u]]

\* The test button; inbound kinds are refused.
settings_integrations_probe_submit(s) ==
  /\ ~poll["manual"].on /\ Registered(s) /\ ~Inbound(s)
  /\ poll_source("manual", s)
  /\ UNCHANGED <<src, samples, due, clients, cnt, heard>>

Due(s) ==
  /\ Registered(s) /\ src[s].enabled /\ ~Inbound(s)
  /\ src[s].polled = Never \/ src[s].polled >= Interval

\* The job lists what is due, then polls one after the other, in the
\* order the database returned them.
poll_all_due ==
  /\ ~poll["tick"].on /\ due = {}
  /\ due' = {s \in Sources : Due(s)}
  /\ UNCHANGED <<src, samples, poll, clients, cnt, heard>>

\* A source deleted since is skipped, one disabled since is polled.
PollNext ==
  /\ ~poll["tick"].on
  /\ \E s \in due :
       /\ due' = due \ {s}
       /\ IF Registered(s) THEN poll_source("tick", s) ELSE UNCHANGED poll
  /\ UNCHANGED <<src, samples, clients, cnt, heard>>

Leaves(t) == poll' = [poll EXCEPT ![t] = NoPoll]

\* The error raises out of the job.
AfterError_aborts(t) == IF t = "tick" THEN {} ELSE due

\* The job goes on with the next source after an error of this one.
AfterError(t) == due

\* Any error of a request: the poll is recorded, no sample is.
PollFails(t) ==
  /\ poll[t].on /\ Registered(poll[t].src)
  /\ src' = [src EXCEPT ![poll[t].src].polled = AtMost(poll[t].age, Interval)]
  /\ due' = AfterError(t)
  /\ Leaves(t)
  /\ UNCHANGED <<samples, clients, cnt, heard>>

\* The answer arrives, and is stored under the time the poll began.
Success(t) ==
  LET p == poll[t] IN
  /\ p.on /\ Registered(p.src)
  /\ src' = [src EXCEPT ![p.src].polled = AtMost(p.age, Interval)]
  /\ \E reading \in _poll_kind(src[p.src].kind) :
       samples' = [samples EXCEPT ![p.src] =
                  Stored(p.src, ExternalSensorSample(p.age, reading, p.lap))]
  /\ heard' = [heard EXCEPT ![p.src] = 0]
  /\ Leaves(t)
  /\ UNCHANGED <<due, clients, cnt>>

\* The database takes neither the sample nor the error: the row was deleted
\* meanwhile, the payload has a NaN or a NUL, the connection is lost.  The
\* flush raises out of poll_source, last_polled_at is rolled back with it,
\* and out of the job, whose other sources wait for its next run.
PollLost(t) ==
  /\ poll[t].on
  /\ due' = IF t = "tick" THEN {} ELSE due
  /\ Leaves(t)
  /\ UNCHANGED <<src, samples, clients, cnt, heard>>

----------------------------------------------------------------------------
(* Inbound kinds.                                                          *)

\* Recorded on arrival, for a row that is there and enabled.
Record(s, p) ==
  /\ Registered(s) /\ src[s].enabled /\ NewInstant(s)
  /\ src' = [src EXCEPT ![s].polled = 0]
  /\ samples' = [samples EXCEPT ![s] = Stored(s, ExternalSensorSample(0, p, FALSE))]
  /\ heard' = [heard EXCEPT ![s] = 0]
  /\ UNCHANGED <<poll, due, clients, cnt>>

record_webhook_event(s, event) == src[s].kind \in WEBHOOK_KINDS /\ Record(s, event)

webhook_inbound ==
  \E s \in Sources, event \in {"play", "pause", "unpause", "other"} :
    Registered(s) /\ record_webhook_event(s, event)

record_mqtt_message(s, topic, msg) ==
  src[s].kind = "mqtt" /\ Record(s, [topic |-> topic, msg |-> msg])

_on_message ==
  \E s \in clients, topic \in Topics, msg \in BOOLEAN :
    Registered(s) /\ record_mqtt_message(s, topic, msg)

\* Subscribers are started once, for the sources enabled at that time.
start == clients' = {s \in Sources : Registered(s) /\ src[s].kind = "mqtt" /\ src[s].enabled}

\* A restart of the hub: transactions in progress are lost.
Restart ==
  /\ poll' = [t \in Threads |-> NoPoll]
  /\ due' = {}
  /\ start
  /\ UNCHANGED <<src, samples, cnt, heard>>

----------------------------------------------------------------------------
(* The outside: time, and the SNMP agent.                                  *)

Older(age, cap) == AtMost(age + 1, cap)

\* A calendar event comes nearer; every other payload stays as it is.
Aged(kind, p) ==
  IF kind \in CalendarKinds
  THEN [p EXCEPT !.from = IF @ > 0 THEN @ - 1 ELSE 0, !.to = IF @ > 0 THEN @ - 1 ELSE 0]
  ELSE p

AgedRow(s, r) ==
  [r EXCEPT !.age = Older(@, Old), !.p = Aged(src[s].kind, @)]

Advance ==
  /\ src' = [s \in Sources |->
               IF Registered(s) /\ src[s].polled # Never
               THEN [src[s] EXCEPT !.polled = Older(@, Interval)] ELSE src[s]]
  /\ samples' = [s \in Sources |-> [i \in DOMAIN samples[s] |-> AgedRow(s, samples[s][i])]]
  /\ poll' = [t \in Threads |->
                IF poll[t].on THEN [poll[t] EXCEPT !.age = Older(@, Old)] ELSE NoPoll]
  /\ heard' = [s \in Sources |-> Older(heard[s], Old)]
  /\ UNCHANGED <<due, clients, cnt>>

\* The agent of the SNMP sources counts an error on the interface.
CountError ==
  /\ \E s \in Sources : Registered(s) /\ src[s].kind = "snmp"
  /\ cnt < CounterMax /\ cnt' = cnt + 1
  /\ samples' = [s \in Sources |->
                [i \in DOMAIN samples[s] |->
                   [samples[s][i] EXCEPT !.err = @ \/ src[s].kind = "snmp"]]]
  /\ UNCHANGED <<src, poll, due, clients, heard>>

\* The agent restarts, and counts from zero.
AgentRestart ==
  /\ cnt > 0 /\ cnt' = 0
  /\ UNCHANGED <<src, samples, poll, due, clients, heard>>

----------------------------------------------------------------------------
(* The probes: a verdict, and the samples it was reached from.             *)

Verdict(ok, from) == [ok |-> ok, from |-> from]
Stale == Verdict(FALSE, <<>>)

Fresh_always(r) == TRUE

Fresh(r) == r.age <= MaxAge

\* The newest sample in the window, as a sequence of at most one row.
latest_sample(s) ==
  IF samples[s] # <<>> /\ Fresh(samples[s][1]) THEN <<samples[s][1]>> ELSE <<>>

latest_active_app(s) == latest_sample(s)

latest_sample_for_topic(s, topic) ==
  LET found == {i \in DOMAIN samples[s] : Fresh(samples[s][i]) /\ samples[s][i].p.topic = topic}
  IN  IF found = {} THEN <<>> ELSE <<samples[s][Min(found)]>>

\* The two newest samples, if the newer one is in the window.
last_two_samples(s) ==
  IF Len(samples[s]) >= 2 /\ Fresh(samples[s][1]) THEN SubSeq(samples[s], 1, 2) ELSE <<>>

\* A verdict on the one sample a query found.
Judge(found, Holds(_)) ==
  IF found = <<>> THEN Stale ELSE Verdict(Holds(found[1].p), found)

_probe_roku_app_active(s) == Judge(latest_active_app(s), LAMBDA v : v = 1)

_probe_ha_state_is(s) == Judge(latest_sample(s), LAMBDA v : v = Threshold)

\* A threshold probe fails on what the rule acts on, and with no reading.
Within(v, kind, above) == v # NoReading /\ IF kind = above THEN v <= Threshold ELSE v >= Threshold

_probe_ha_numeric(s, kind) ==
  Judge(latest_sample(s), LAMBDA v : Within(v, kind, "ha_numeric_above"))

_probe_weather_alert_active(s) == Judge(latest_sample(s), LAMBDA v : v > 0 /\ v >= Threshold)

\* A bare date cannot be compared with the time: the probe raises, and fails.
_probe_ical_event_active(s) ==
  Judge(latest_sample(s), LAMBDA e : ~e.naive /\ e.from <= 0 /\ 0 < e.to)

_probe_solar(s, kind) ==
  Judge(latest_sample(s), LAMBDA v : Within(v, kind, "solar_production_above"))

_probe_snmp_interface_down(s) == Judge(latest_sample(s), LAMBDA i : i.has /\ i.up)

\* "unpause" contains "pause", and the stopped words are looked for first.
_probe_media_session_active(s) == Judge(latest_sample(s), LAMBDA event : event = "play")

_probe_webhook_field_equals(s) == Judge(latest_sample(s), LAMBDA field : field = "other")

_probe_mqtt_topic_equals(s, topic) == Judge(latest_sample_for_topic(s, topic), LAMBDA p : p.msg)

\* The counter is taken to have wrapped.
_snmp_counter_wraps(n, o) ==
  IF n = NoReading \/ o = NoReading THEN NoReading ELSE (n - o) % (CounterMax + 1)

\* No counter, or a counter that went back, gives no difference.
_snmp_counter_delta(n, o) ==
  IF n = NoReading \/ o = NoReading \/ n < o THEN NoReading ELSE n - o

\* The difference of the counter in the newest two samples, and the time
\* between them.
Delta(s) == LET pair == last_two_samples(s)
            IN  _snmp_counter_delta(pair[1].p.n, pair[2].p.n)
Elapsed(s) == LET pair == last_two_samples(s) IN pair[2].age - pair[1].age

\* The verdict on two samples, whose difference is in range if `holds`; one
\* sample or none is no reason to act.
_snmp_pair_interface(s, holds) ==
  LET pair == last_two_samples(s)
  IN  CASE pair = <<>> -> Verdict(TRUE, <<>>)
        [] pair # <<>> /\ ~(pair[1].p.has /\ pair[2].p.has) -> Verdict(FALSE, pair)
        [] OTHER -> Verdict(Elapsed(s) <= 0 \/ Delta(s) = NoReading \/ holds, pair)

_probe_snmp_throughput(s, kind) ==
  _snmp_pair_interface(s, IF kind = "snmp_throughput_above" THEN Delta(s) <= Threshold * Elapsed(s)
                                                            ELSE Delta(s) >= Threshold * Elapsed(s))

\* Any error at all is above the rule's threshold.
_probe_snmp_error_rate(s) == _snmp_pair_interface(s, Delta(s) <= 0)

\* The probes that can read a source of the kind.
PresenceProbes(kind) ==
  CASE kind = "roku" -> {"roku_app_active"}
    [] kind = "home_assistant" -> {"ha_state_is"}
    [] kind = "weather" -> {"weather_alert_active"}
    [] kind \in CalendarKinds -> {"ical_event_active"}
    [] kind = "snmp" -> {"snmp_interface_down"}
    [] kind \in {"plex", "jellyfin"} -> {"media_session_active"}
    [] kind = "ios_shortcut" -> {"webhook_field_equals"}
    [] kind = "mqtt" -> {"mqtt_topic_equals"}
    [] OTHER -> {}

ThresholdProbes(kind) ==
  CASE kind = "home_assistant" -> {"ha_numeric_above", "ha_numeric_below"}
    [] kind \in SolarKinds -> {"solar_production_above", "solar_production_below"}
    [] OTHER -> {}

RateProbes(kind) ==
  IF kind = "snmp"
  THEN {"snmp_throughput_above", "snmp_throughput_below", "snmp_error_rate_above"} ELSE {}

run_probe(kind, s, topic) ==
  CASE kind = "roku_app_active" -> _probe_roku_app_active(s)
    [] kind = "ha_state_is" -> _probe_ha_state_is(s)
    [] kind \in {"ha_numeric_above", "ha_numeric_below"} -> _probe_ha_numeric(s, kind)
    [] kind = "weather_alert_active" -> _probe_weather_alert_active(s)
    [] kind = "ical_event_active" -> _probe_ical_event_active(s)
    [] kind \in {"solar_production_above", "solar_production_below"} -> _probe_solar(s, kind)
    [] kind = "snmp_interface_down" -> _probe_snmp_interface_down(s)
    [] kind \in {"snmp_throughput_above", "snmp_throughput_below"} -> _probe_snmp_throughput(s, kind)
    [] kind = "snmp_error_rate_above" -> _probe_snmp_error_rate(s)
    [] kind = "media_session_active" -> _probe_media_session_active(s)
    [] kind = "webhook_field_equals" -> _probe_webhook_field_equals(s)
    [] kind = "mqtt_topic_equals" -> _probe_mqtt_topic_equals(s, topic)

----------------------------------------------------------------------------
SensorsInit ==
  /\ \E kind \in Fleets : src = [s \in Sources |-> Free(kind[s])]
  /\ heard = [s \in Sources |-> Old]
  /\ samples = [s \in Sources |-> <<>>]
  /\ poll = [t \in Threads |-> NoPoll]
  /\ due = {} /\ clients = {} /\ cnt = 0

Poll(t) == PollFails(t) \/ Success(t) \/ PollLost(t)

SensorsNext ==
  \/ settings_integrations_add_submit
  \/ settings_integrations_delete_submit
  \/ settings_integrations_toggle_submit
  \/ \E s \in Sources : settings_integrations_probe_submit(s)
  \/ poll_all_due
  \/ PollNext
  \/ \E t \in Threads : Poll(t)
  \/ webhook_inbound
  \/ _on_message
  \/ Restart
  \/ Advance
  \/ CountError
  \/ AgentRestart

\* The scheduler runs the job every 30 seconds, and time passes.  A job that
\* has listed its sources goes through them: the test button, which NewInstant
\* puts in an instant of its own, does not hold it up, hence the strong
\* fairness.  Nothing makes a poll end.
SensorsSpec ==
  /\ SensorsInit /\ [][SensorsNext]_sensorsVars
  /\ WF_sensorsVars(poll_all_due) /\ SF_sensorsVars(PollNext) /\ WF_sensorsVars(Advance)

----------------------------------------------------------------------------
(* Properties.                                                             *)

\* What a sample of a source of the kind holds.
Payload(kind) ==
  CASE kind = "snmp" -> [has: BOOLEAN, up: BOOLEAN, n: {NoReading} \cup 0 .. CounterMax]
    [] kind \in CalendarKinds -> [from: Nat, to: Nat, naive: BOOLEAN]
    [] kind \in SUBSCRIBER_KINDS -> [topic: Topics, msg: BOOLEAN]
    [] kind \in WEBHOOK_KINDS -> {"play", "pause", "unpause", "other"}
    [] OTHER -> Int

Sample(kind) == [age: 0 .. Old, p: Payload(kind), err: BOOLEAN, lap: BOOLEAN]

SourceRow == [st: {"row"}, kind: EXTERNAL_SOURCE_KINDS, enabled: BOOLEAN, polled: Int]

PollRecord == [on: {TRUE}, src: Sources, age: 0 .. Old, lap: BOOLEAN]

SensorsTypeOK ==
  /\ src \in [Sources -> {Gone} \cup {Free(k) : k \in EXTERNAL_SOURCE_KINDS \cup {"none"}}
                          \cup SourceRow]
  /\ DOMAIN samples = Sources
  /\ \A s \in Sources :
       IF Registered(s)
       THEN samples[s] \in Seq(Sample(src[s].kind)) /\ Len(samples[s]) <= Depth(src[s].kind)
       ELSE samples[s] = <<>>
  /\ poll \in [Threads -> {NoPoll} \cup PollRecord]
  /\ heard \in [Sources -> 0 .. Old]
  /\ due \subseteq Sources /\ clients \subseteq Sources
  /\ cnt \in 0 .. CounterMax

\* Silence is no evidence.  Once a source has had nothing stored for longer
\* than max_sample_age_seconds, no probe of it says that a state is present
\* or a value in range, and none says that a rate is exceeded, however the
\* polls were delayed and whatever rows they left (latest_sample,
\* last_two_samples).  Of a presence or threshold probe that is a failure,
\* which builds toward the action of its rule; of a rate probe a success.
SilenceIsNoEvidence ==
  \A s \in Sources : Registered(s) /\ heard[s] > MaxAge =>
    LET kind == src[s].kind IN
    \A topic \in Topics :
      /\ \A k \in PresenceProbes(kind) \cup ThresholdProbes(kind) : ~run_probe(k, s, topic).ok
      /\ \A k \in RateProbes(kind) : run_probe(k, s, topic).ok

\* snmp_error_rate_above fails on two samples of the interface only when
\* the agent counted an error after the older one was read, whatever
\* restarts of the agent reset the counter; the one exception are samples
\* of polls that overlapped (_snmp_counter_delta, poll_source).
ErrorRuleNeedsErrors ==
  \A s \in Sources : Registered(s) /\ src[s].kind = "snmp" =>
    LET v == _probe_snmp_error_rate(s)
    IN  ~v.ok => \/ \E i \in 1 .. 2 : ~v.from[i].p.has \/ v.from[i].lap
                 \/ v.from[2].err

\* An enabled source of a polled kind is polled again and again, whatever
\* failed requests and deletions the other sources of the same run of the job
\* meet, unless the hub restarts or polls of the job are refused by the
\* database again and again, or one never ends (poll_all_due, poll_source).
SourcesArePolled ==
  \A s \in Sources :
    \/ []<>(~Registered(s) \/ ~src[s].enabled \/ Inbound(s) \/ \E t \in Threads : Polling(t, s))
    \/ []<><<Restart \/ PollLost("tick")>>_sensorsVars
    \/ <>[]poll["tick"].on

=============================================================================
