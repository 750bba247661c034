---------------------------- MODULE Notifications ----------------------------
(***************************************************************************)
(* Outbound notifications: channels, subscriptions and emit()              *)
(* (services/notifications.py), the delivery worker                        *)
(* (services/webhook_delivery.py), the guard every outbound request passes *)
(* (services/ssrf_guard.py) and the settings pages that drive them.        *)
(*                                                                         *)
(* A send reads its row, validates and resolves the URL, makes the request *)
(* and commits what became of it at the end: other senders, deletions,     *)
(* restarts and the name service act in between.  Time is the minutes left *)
(* until a row is due; rows that are due are taken in any order.           *)
(***************************************************************************)
EXTENDS Integers, Sequences, FiniteSets, SequencesExt

CONSTANTS Channels,      \* rows of webhook_channels, one host each
          Sites,         \* sites a subscription can be limited to
          Addresses,     \* what a host can resolve to
          Blocked,       \* the addresses is_blocked_ip refuses
          AllowHttp,     \* the runtime setting outbound.allow_http
          MAX_ATTEMPTS,
          BATCH_SIZE,
          MaxDeliveries, \* bound: rows of webhook_deliveries
          MaxSubs,       \* bound: subscriptions at one time
          MaxEdits,      \* bound: requests to the settings pages
          MaxEvents      \* bound: fired rules, tests, changes of DNS and restarts

ASSUME NotificationsAssumption ==
  /\ IsFiniteSet(Channels) /\ Blocked \subseteq Addresses /\ AllowHttp \in BOOLEAN
  /\ MAX_ATTEMPTS \in Nat \ {0} /\ BATCH_SIZE \in Nat \ {0}
  /\ MaxDeliveries \in Nat /\ MaxSubs \in Nat \ {0} /\ MaxEdits \in Nat /\ MaxEvents \in Nat

VARIABLES chan,     \* channel -> its row, or NoRow
          subs,     \* the subscriptions
          dlv,      \* the rows of webhook_deliveries, oldest first
          fk,       \* the database enforces foreign keys
          dns,      \* what the hosts resolve to; nothing during an outage
          job,      \* sender -> what it is doing
          sends,    \* history: delivery -> requests made for it
          acks,     \* history: delivery -> requests answered with a 2xx
          excused,  \* history: deliveries a restart or a second sender interfered with
          reached,  \* history: addresses that were connected to
          edits, events

vars == <<chan, subs, dlv, fk, dns, job, sends, acks, excused, reached, edits, events>>

Senders == {"tick", "test", "rule"}
Deliveries == 1 .. MaxDeliveries
EVENT_TYPES == {"rule_fired", "rule_escalated"}
AnySite == 0
NotDue == -1
NoRow == [row |-> FALSE]
Gone == [st |-> "gone"]
Idle == [op |-> "idle"]

WebhookChannel(url) == [row |-> TRUE, enabled |-> TRUE, url |-> url]
WebhookDelivery(c) == [st |-> "pending", tries |-> 0, wait |-> 0, ch |-> c]
NotificationSubscription == [ev: EVENT_TYPES, ch: Channels, site: Sites \cup {AnySite}, n: 1 .. MaxSubs]

Edit == edits < MaxEdits /\ edits' = edits + 1 /\ UNCHANGED events
Event == events < MaxEvents /\ events' = events + 1 /\ UNCHANGED edits
Ids == DOMAIN dlv
Quiet == UNCHANGED <<sends, acks, excused, reached>>

-----------------------------------------------------------------------------
(* Channels and subscriptions.                                             *)

\* Only the shape of a URL is checked when a channel is saved.
_validate_channel_config(url) == url \in {"http", "https"}

create_channel(c, url) ==
  /\ chan[c] = NoRow /\ _validate_channel_config(url)
  /\ chan' = [chan EXCEPT ![c] = WebhookChannel(url)]
  /\ UNCHANGED <<subs, dlv>>

update_channel(c, url) ==
  /\ chan[c] # NoRow /\ _validate_channel_config(url)
  /\ chan' = [chan EXCEPT ![c].url = url]
  /\ UNCHANGED <<subs, dlv>>

toggle_channel(c) ==
  /\ chan[c] # NoRow
  /\ chan' = [chan EXCEPT ![c].enabled = ~@]
  /\ UNCHANGED <<subs, dlv>>

\* Subscriptions and deliveries go with the channel where the database
\* enforces the foreign keys.
delete_channel(c) ==
  /\ chan[c] # NoRow
  /\ chan' = [chan EXCEPT ![c] = NoRow]
  /\ subs' = IF fk THEN {s \in subs : s.ch # c} ELSE subs
  /\ dlv' = IF fk THEN [d \in Ids |-> IF dlv[d] # Gone /\ dlv[d].ch = c THEN Gone ELSE dlv[d]] ELSE dlv

create_subscription(s) ==
  /\ chan[s.ch] # NoRow /\ s.n \notin {r.n : r \in subs}
  /\ subs' = subs \cup {s}
  /\ UNCHANGED <<chan, dlv>>

delete_subscription(s) ==
  /\ s \in subs
  /\ subs' = subs \ {s}
  /\ UNCHANGED <<chan, dlv>>

\* The pages: a request, its operation, and a row of the audit log.
Page == Edit /\ UNCHANGED <<fk, dns, job>> /\ Quiet

settings_webhooks_create_submit(c) ==
  Page /\ \E url \in {"http", "https", "other"} : create_channel(c, url)

settings_webhooks_toggle_submit(c) == Page /\ toggle_channel(c)

settings_webhooks_delete_submit(c) == Page /\ delete_channel(c)

channel_edited(c) == Page /\ \E url \in {"http", "https", "other"} : update_channel(c, url)

settings_webhooks_subscription_create_submit(s) == Page /\ create_subscription(s)

settings_webhooks_subscription_delete_submit(s) == Page /\ delete_subscription(s)

-----------------------------------------------------------------------------
(* emit(): one row for every subscription that matches.                    *)

Matches(s, ev, site) ==
  /\ s.ev = ev
  /\ s.site = AnySite \/ site = AnySite \/ s.site = site
  /\ chan[s.ch] # NoRow
  /\ chan[s.ch].enabled

_queue_for_channel(s) == WebhookDelivery(s.ch)

Told(ev, site) == {s \in subs : Matches(s, ev, site)}
Room(ev, site) == Len(dlv) + Cardinality(Told(ev, site)) <= MaxDeliveries

emit(ev, site) ==
  LET match == SetToSeq(Told(ev, site))
  IN /\ Room(ev, site)
     /\ dlv' = dlv \o [i \in DOMAIN match |-> _queue_for_channel(match[i])]

\* The bound on deliveries is reached.
Full(ev, site) == ~Room(ev, site) /\ UNCHANGED dlv

\* A watchdog rule fired: subscribers are told, and a rule with an escalation
\* posts to its own URL from inside the tick, then tells the subscribers of
\* escalations.
_run_escalation_and_emit(site, escalates) ==
  /\ job["rule"] = Idle /\ Event
  /\ emit("rule_fired", site)
  /\ job' = [job EXCEPT !["rule"] = IF escalates THEN [op |-> "escalate", site |-> site] ELSE Idle]
  /\ UNCHANGED <<chan, subs, fk, dns>> /\ Quiet

-----------------------------------------------------------------------------
(* The guard.                                                              *)

is_blocked_ip(a) == a \in Blocked

\* Every address is checked: one private record condemns the name.
Candidates == dns

validate_url(url) ==
  /\ url = "https" \/ AllowHttp
  /\ Candidates # {}
  /\ \A a \in Candidates : ~is_blocked_ip(a)

\* Mutant: the connection resolves the name again.
Reresolved(pin) == IF dns = {} THEN {pin} ELSE dns

\* The connection goes to the address that was validated.
_PinnedHTTPAdapter(pin) == {pin}

send_escalation_webhook ==
  /\ job["rule"].op = "escalate"
  /\ \/ \E pin \in Candidates : /\ validate_url("https")
                                /\ job' = [job EXCEPT !["rule"] = [op |-> "post", site |-> @.site, pin |-> pin]]
     \/ /\ ~validate_url("https")
        /\ job' = [job EXCEPT !["rule"].op = "escalated"]
  /\ UNCHANGED <<chan, subs, dlv, fk, dns, edits, events>> /\ Quiet

escalation_request ==
  /\ job["rule"].op = "post"
  /\ \E a \in _PinnedHTTPAdapter(job["rule"].pin) : reached' = reached \cup {a}
  /\ job' = [job EXCEPT !["rule"] = [op |-> "escalated", site |-> @.site]]
  /\ UNCHANGED <<chan, subs, dlv, fk, dns, sends, acks, excused, edits, events>>

escalation_emit ==
  /\ job["rule"].op = "escalated"
  /\ emit("rule_escalated", job["rule"].site) \/ Full("rule_escalated", job["rule"].site)
  /\ job' = [job EXCEPT !["rule"] = Idle]
  /\ UNCHANGED <<chan, subs, fk, dns, edits, events>> /\ Quiet

-----------------------------------------------------------------------------
(* Sending one delivery.                                                   *)

_backoff_delay(tries) == tries * tries

\* Mutant: one attempt too many.
Exhausted_late(tries) == tries > MAX_ATTEMPTS

Exhausted(tries) == tries >= MAX_ATTEMPTS

Dead(row, tries) == [row EXCEPT !.st = "dead", !.tries = tries, !.wait = NotDue]

_schedule_retry_or_dead(row, tries) ==
  IF Exhausted(tries) THEN Dead(row, tries)
  ELSE [row EXCEPT !.st = "failed", !.tries = tries, !.wait = _backoff_delay(tries)]

\* Mutant: a success only counts the attempt.
MarkSent_counts(row, tries) == [row EXCEPT !.tries = tries]

MarkSent(row, tries) == [row EXCEPT !.st = "sent", !.tries = tries, !.wait = NotDue]

\* What the sender does after a delivery: the worker goes on with its batch,
\* and gives the batch up if a commit failed.
After(t) == IF t = "tick" THEN [op |-> "drain", todo |-> job[t].todo] ELSE Idle

\* send_one() reads the row whatever its status has become.  A missing channel
\* or a URL that is refused (or does not resolve) is the end of it.
send_one(t, d) ==
  LET row == dlv[d]
      left == IF t = "tick" THEN job[t].todo \ {d} ELSE {}
      done == IF t = "tick" THEN [op |-> "drain", todo |-> left] ELSE Idle
  IN /\ \/ /\ row = Gone
           /\ job' = [job EXCEPT ![t] = done] /\ UNCHANGED dlv
        \/ /\ row # Gone /\ chan[row.ch] = NoRow
           /\ dlv' = [dlv EXCEPT ![d].st = "dead"]
           /\ job' = [job EXCEPT ![t] = done]
        \/ /\ row # Gone /\ chan[row.ch] # NoRow /\ ~validate_url(chan[row.ch].url)
           /\ dlv' = [dlv EXCEPT ![d] = Dead(row, row.tries + 1)]
           /\ job' = [job EXCEPT ![t] = done]
        \/ \E pin \in Candidates :
             /\ row # Gone /\ chan[row.ch] # NoRow /\ validate_url(chan[row.ch].url)
             /\ job' = [job EXCEPT ![t] = [op |-> "send", d |-> d, tries |-> row.tries + 1, pin |-> pin, todo |-> left]]
             /\ UNCHANGED dlv
     /\ UNCHANGED <<chan, subs, fk, dns, edits, events>> /\ Quiet

\* The answer is a 2xx, or an error, a redirect or a timeout.
safe_request(t) ==
  LET j == job[t]
  IN /\ j.op = "send"
     /\ \E a \in _PinnedHTTPAdapter(j.pin) : reached' = reached \cup {a}
     /\ sends' = [sends EXCEPT ![j.d] = @ + 1]
     /\ \E ok \in BOOLEAN :
          /\ acks' = IF ok THEN [acks EXCEPT ![j.d] = @ + 1] ELSE acks
          /\ job' = [job EXCEPT ![t] = [op |-> "record", d |-> j.d, tries |-> j.tries, ok |-> ok, todo |-> j.todo]]
     /\ UNCHANGED <<chan, subs, dlv, fk, dns, excused, edits, events>>

\* The commit fails if the row went with its channel: the exception ends the
\* worker's tick, or the operator's request.
record_outcome(t) ==
  LET j == job[t]
  IN /\ j.op = "record"
     /\ \/ /\ dlv[j.d] = Gone
           /\ job' = [job EXCEPT ![t] = Idle] /\ UNCHANGED dlv
        \/ /\ dlv[j.d] # Gone
           /\ dlv' = [dlv EXCEPT ![j.d] = IF j.ok THEN MarkSent(@, j.tries)
                                         ELSE _schedule_retry_or_dead(@, j.tries)]
           /\ job' = [job EXCEPT ![t] = After(t)]
     /\ UNCHANGED <<chan, subs, fk, dns, edits, events>> /\ Quiet

-----------------------------------------------------------------------------
(* The worker, and the test button.                                        *)

\* Mutant: only new rows are taken.
DueNew == {d \in Ids : dlv[d].st = "pending" /\ dlv[d].wait = 0}

Due == {d \in Ids : dlv[d].st \in {"pending", "failed"} /\ dlv[d].wait = 0}

\* A row whose test is still being sent is taken as well.
tick ==
  /\ job["tick"] = Idle /\ Due # {}
  /\ \E batch \in SUBSET Due :
       /\ Cardinality(batch) = IF Cardinality(Due) < BATCH_SIZE THEN Cardinality(Due) ELSE BATCH_SIZE
       /\ job' = [job EXCEPT !["tick"] = [op |-> "drain", todo |-> batch]]
       /\ excused' = excused \cup {d \in batch : job["test"] # Idle /\ job["test"].d = d}
  /\ UNCHANGED <<chan, subs, dlv, fk, dns, sends, acks, reached, edits, events>>

tick_sends ==
  /\ job["tick"].op = "drain"
  /\ \E d \in job["tick"].todo : send_one("tick", d)

tick_ends ==
  /\ job["tick"] = [op |-> "drain", todo |-> {}]
  /\ job' = [job EXCEPT !["tick"] = Idle]
  /\ UNCHANGED <<chan, subs, dlv, fk, dns, edits, events>> /\ Quiet

\* The test's row is committed as due, then sent by the request itself.
settings_webhooks_test_submit(c) ==
  /\ job["test"] = Idle /\ chan[c] # NoRow /\ Len(dlv) < MaxDeliveries /\ Event
  /\ dlv' = Append(dlv, WebhookDelivery(c))
  /\ job' = [job EXCEPT !["test"] = [op |-> "test", d |-> Len(dlv) + 1]]
  /\ UNCHANGED <<chan, subs, fk, dns>> /\ Quiet

test_sends == job["test"].op = "test" /\ send_one("test", job["test"].d)

-----------------------------------------------------------------------------
(* The world.                                                              *)

\* A minute passes.
Minute ==
  /\ \E d \in Ids : dlv[d] # Gone /\ dlv[d].wait > 0
  /\ dlv' = [d \in Ids |-> IF dlv[d] # Gone /\ dlv[d].wait > 0 THEN [dlv[d] EXCEPT !.wait = @ - 1] ELSE dlv[d]]
  /\ UNCHANGED <<chan, subs, fk, dns, job, edits, events>> /\ Quiet

Resolve ==
  /\ Event
  /\ dns' \in SUBSET Addresses \ {dns}
  /\ UNCHANGED <<chan, subs, dlv, fk, job>> /\ Quiet

\* A restart: requests that were made but not recorded are forgotten.
Restart ==
  /\ Event /\ \E t \in Senders : job[t] # Idle
  /\ job' = [t \in Senders |-> Idle]
  /\ excused' = excused \cup {job[t].d : t \in {u \in Senders : job[u].op = "record"}}
  /\ UNCHANGED <<chan, subs, dlv, fk, dns, sends, acks, reached>>

-----------------------------------------------------------------------------
\* One channel is set up and subscribed to.
Init ==
  /\ \E here \in SUBSET Channels :
       /\ Cardinality(here) <= 1
       /\ chan = [c \in Channels |-> IF c \in here THEN WebhookChannel("https") ELSE NoRow]
       /\ subs = {[ev |-> "rule_fired", ch |-> c, site |-> AnySite, n |-> 1] : c \in here}
  /\ dlv = <<>> /\ fk \in BOOLEAN /\ dns = Addresses \ Blocked
  /\ job = [t \in Senders |-> Idle]
  /\ sends = [d \in Deliveries |-> 0] /\ acks = [d \in Deliveries |-> 0]
  /\ excused = {} /\ reached = {} /\ edits = 0 /\ events = 0

SenderNext(t) == safe_request(t) \/ record_outcome(t)

TickNext == tick \/ tick_sends \/ tick_ends \/ SenderNext("tick")

Next ==
  \/ \E c \in Channels : \/ settings_webhooks_create_submit(c) \/ settings_webhooks_toggle_submit(c)
                         \/ settings_webhooks_delete_submit(c) \/ channel_edited(c)
  \/ \E s \in NotificationSubscription : \/ settings_webhooks_subscription_create_submit(s)
                                         \/ settings_webhooks_subscription_delete_submit(s)
  \/ TickNext
  \/ \E site \in Sites \cup {AnySite}, b \in BOOLEAN : _run_escalation_and_emit(site, b)
  \/ send_escalation_webhook \/ escalation_request \/ escalation_emit
  \/ \E c \in Channels : settings_webhooks_test_submit(c)
  \/ test_sends \/ SenderNext("test")
  \/ Minute \/ Resolve \/ Restart

\* The scheduler runs the worker every 15 seconds and requests have a timeout.
Fairness == WF_vars(TickNext) /\ WF_vars(Minute)

Spec == Init /\ [][Next]_vars /\ Fairness

-----------------------------------------------------------------------------
(* Properties.                                                             *)

\* A receiver that accepted a notification is not sent it again, unless the
\* hub was restarted before it had recorded the answer or the worker took the
\* row while its test was still being sent.
DeliveredOnce == \A d \in Ids : acks[d] > 1 => d \in excused

\* A receiver that keeps failing is asked MAX_ATTEMPTS times at the most, with
\* the same exceptions.
RetriesAreBounded == \A d \in Ids : sends[d] > MAX_ATTEMPTS => d \in excused

\* Whatever fails, is deleted, edited or restarted: in the end every delivery
\* is sent, given up or gone with its channel.
DeliveriesSettle == []<>(\A d \in Ids : dlv[d].st \in {"sent", "dead", "gone"})

\* No request of the hub, escalations included, ever connects to an address
\* the guard refuses, however the answers of the name service change between
\* the validation and the connection.
OnlyAllowedAddresses == reached \cap Blocked = {}

=============================================================================
