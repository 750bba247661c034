------------------------- MODULE NotificationsProofs -------------------------
(***************************************************************************)
(* Notifications for every number of channels, subscriptions, deliveries,  *)
(* attempts and addresses: no request of the hub reaches a blocked         *)
(* address, and a delivery no restart and no second sender interfered with *)
(* is accepted once and tried MAX_ATTEMPTS times at the most.              *)
(*                                                                         *)
(* The argument.  A request carries the address that was validated         *)
(* (PinInv).  A delivery that is not excused has one sender (OneSender),   *)
(* so the number of attempts that sender read is still the row's           *)
(* (SendInv); while an answer is being recorded the row is behind by one   *)
(* request, and otherwise it counts them all (RowInv).                     *)
(***************************************************************************)
EXTENDS Notifications, TLAPS, FiniteSetTheorems

Row == [st: {"pending", "failed", "sent", "dead"}, tries: Nat, wait: Int, ch: Channels]

\* What the worker, the test button and an escalation can be doing.
Drain == [op: {"drain"}, todo: SUBSET Deliveries]
Send == [op: {"send"}, d: Deliveries, tries: Nat, pin: Addresses, todo: SUBSET Deliveries]
Record == [op: {"record"}, d: Deliveries, tries: Nat, ok: BOOLEAN, todo: SUBSET Deliveries]
Test == [op: {"test"}, d: Deliveries]
Escalate == [op: {"escalate", "escalated"}, site: Sites \cup {AnySite}]
Post == [op: {"post"}, site: Sites \cup {AnySite}, pin: Addresses]

TypeInv ==
  /\ dlv \in Seq(Row \cup {Gone}) /\ Len(dlv) <= MaxDeliveries
  /\ subs \subseteq NotificationSubscription /\ IsFiniteSet(subs)
  /\ dns \subseteq Addresses
  /\ job = [t \in Senders |-> job[t]]
  /\ job["tick"] \in {Idle} \cup Drain \cup Send \cup Record
  /\ job["test"] \in {Idle} \cup Test \cup Send \cup Record
  /\ job["rule"] \in {Idle} \cup Escalate \cup Post
  /\ sends \in [Deliveries -> Nat] /\ acks \in [Deliveries -> Nat]

PinInv == \A t \in Senders : job[t].op \in {"post", "send"} => job[t].pin \notin Blocked

\* The two that send deliveries.
Takers == {"tick", "test"}

\* Sender t is about to read, is sending or is recording delivery d.
WaitsFor(t, d) ==
  \/ t = "tick" /\ job[t].op \in {"drain", "send", "record"} /\ d \in job[t].todo
  \/ t = "test" /\ job[t].op = "test" /\ job[t].d = d
SendsNow(t, d) == job[t].op = "send" /\ job[t].d = d
Records(t, d) == job[t].op = "record" /\ job[t].d = d
Takes(t, d) == WaitsFor(t, d) \/ SendsNow(t, d) \/ Records(t, d)
Recording(d) == Records("tick", d) \/ Records("test", d)

\* Nobody takes a row that does not exist yet, and the worker takes one once.
TakenInv ==
  /\ \A t \in Takers, d \in Deliveries : Takes(t, d) => d \in Ids
  /\ job["tick"].op \in {"send", "record"} => job["tick"].d \notin job["tick"].todo
  /\ \A d \in Deliveries \ Ids : sends[d] = 0 /\ acks[d] = 0

OneSender == \A d \in Deliveries \ excused : ~(Takes("tick", d) /\ Takes("test", d))

Open(r) == r.st \in {"pending", "failed"}

RowInv ==
  /\ \A d \in Ids : Open(dlv[d]) => dlv[d].tries < MAX_ATTEMPTS
  /\ \A d \in Ids \ excused :
       /\ dlv[d] # Gone /\ ~Recording(d) => sends[d] <= dlv[d].tries
       /\ Open(dlv[d]) /\ ~Recording(d) => acks[d] = 0

SendInv ==
  \A d \in Ids \ excused, t \in Takers :
    /\ WaitsFor(t, d) => dlv[d] = Gone \/ Open(dlv[d])
    /\ SendsNow(t, d) => /\ acks[d] = 0
                         /\ sends[d] < job[t].tries /\ job[t].tries <= MAX_ATTEMPTS
    /\ Records(t, d) => /\ acks[d] = IF job[t].ok THEN 1 ELSE 0
                        /\ sends[d] <= job[t].tries /\ job[t].tries <= MAX_ATTEMPTS

IInv == TypeInv /\ PinInv /\ TakenInv /\ OneSender /\ RowInv /\ SendInv
          /\ DeliveredOnce /\ RetriesAreBounded /\ OnlyAllowedAddresses

-----------------------------------------------------------------------------
(* The operators                                                           *)

USE NotificationsAssumption

LEMMA IdsType ==
    ASSUME TypeInv
    PROVE  /\ Ids = 1 .. Len(dlv) /\ Len(dlv) \in Nat /\ Ids \subseteq Deliveries
           /\ \A d \in Ids : dlv[d] \in Row \cup {Gone}
  BY DEF TypeInv, Ids, Deliveries

LEMMA GoneIsNoRow == Gone \notin Row /\ Gone.st = "gone"
  BY DEF Gone, Row

\* What the columns of a row become: given up, sent, failed.
LEMMA SetRow ==
    ASSUME NEW r \in Row, NEW s \in {"pending", "failed", "sent", "dead"}, NEW n \in Nat, NEW w \in Int
    PROVE  LET q == [r EXCEPT !.st = s, !.tries = n, !.wait = w] IN
           q \in Row /\ q.st = s /\ q.tries = n
  <1>1. [r EXCEPT !.st = s] \in Row
    BY DEF Row
  <1>2. [[r EXCEPT !.st = s] EXCEPT !.tries = n] \in Row
    BY <1>1 DEF Row
  <1>3. [r EXCEPT !.st = s, !.tries = n, !.wait = w]
          = [[[r EXCEPT !.st = s] EXCEPT !.tries = n] EXCEPT !.wait = w]
    OBVIOUS
  <1> QED
    BY <1>1, <1>2, <1>3 DEF Row

LEMMA DeadRow ==
    ASSUME NEW r \in Row, NEW n \in Nat
    PROVE  Dead(r, n) \in Row /\ Dead(r, n).st = "dead" /\ Dead(r, n).tries = n
  <1>1. NotDue \in Int /\ "dead" \in {"pending", "failed", "sent", "dead"}
    BY DEF NotDue
  <1> QED
    BY <1>1, SetRow, Zenon DEF Dead

LEMMA SentRow ==
    ASSUME NEW r \in Row, NEW n \in Nat
    PROVE  MarkSent(r, n) \in Row /\ MarkSent(r, n).st = "sent" /\ MarkSent(r, n).tries = n
  <1>1. NotDue \in Int /\ "sent" \in {"pending", "failed", "sent", "dead"}
    BY DEF NotDue
  <1> QED
    BY <1>1, SetRow, Zenon DEF MarkSent

LEMMA FailedRow ==
    ASSUME NEW r \in Row, NEW n \in Nat
    PROVE  LET q == _schedule_retry_or_dead(r, n) IN
           /\ q \in Row /\ q.tries = n /\ q.st \in {"dead", "failed"}
           /\ q.st = "failed" => n < MAX_ATTEMPTS
  <1>1. CASE n >= MAX_ATTEMPTS
    BY <1>1, DeadRow DEF _schedule_retry_or_dead, Exhausted
  <1>2. CASE ~(n >= MAX_ATTEMPTS)
    <2>1. PICK w \in Int : w = _backoff_delay(n)
      BY DEF _backoff_delay
    <2>2. _schedule_retry_or_dead(r, n) = [r EXCEPT !.st = "failed", !.tries = n, !.wait = w]
      BY <1>2, <2>1 DEF _schedule_retry_or_dead, Exhausted
    <2>3. LET q == [r EXCEPT !.st = "failed", !.tries = n, !.wait = w]
          IN  q \in Row /\ q.st = "failed" /\ q.tries = n
      <3>1. "failed" \in {"pending", "failed", "sent", "dead"}
        OBVIOUS
      <3> QED
        BY <3>1, SetRow, Zenon
    <2> QED
      BY <1>2, <2>2, <2>3
  <1> QED
    BY <1>1, <1>2

LEMMA NewRow ==
    ASSUME NEW c \in Channels
    PROVE  /\ WebhookDelivery(c) \in Row /\ WebhookDelivery(c) # Gone
           /\ WebhookDelivery(c).st = "pending" /\ WebhookDelivery(c).tries = 0
  BY DEF WebhookDelivery, Row, Gone

\* A set of subscriptions as a sequence.
LEMMA SetAsSeq ==
    ASSUME NEW S, IsFiniteSet(S)
    PROVE  /\ SetToSeq(S) \in [1 .. Cardinality(S) -> S]
           /\ Cardinality(S) \in Nat
  <1>1. PICK n \in Nat : ExistsBijection(1 .. n, S) /\ n = Cardinality(S)
    BY FS_NatBijection, FS_CountingElements, FS_CardinalityType
  <1>2. PICK f \in [1 .. n -> S] : IsInjective(f)
    BY <1>1 DEF ExistsBijection, Bijection, Injection, IsInjective
  <1> QED
    BY <1>1, <1>2 DEF SetToSeq

-----------------------------------------------------------------------------
(* What a step may do                                                      *)

\* A step that leaves senders and counters alone and no delivery better off
\* than it was: rows go with their channel, or time passes.
LEMMA RowsStep ==
    ASSUME IInv, UNCHANGED <<job, sends, acks, excused, reached>>, TypeInv',
           Len(dlv') = Len(dlv),
           \A d \in Ids : \/ dlv'[d] = Gone
                          \/ /\ dlv[d] # Gone
                             /\ dlv'[d].st = dlv[d].st /\ dlv'[d].tries = dlv[d].tries
    PROVE  IInv'
  <1>1. Ids' = Ids /\ Ids \subseteq Deliveries /\ Gone.st = "gone"
    BY IdsType, GoneIsNoRow DEF IInv, Ids, TypeInv
  <1>2. PinInv' /\ OneSender' /\ TakenInv'
    BY <1>1 DEF IInv, PinInv, OneSender, TakenInv, Takes, WaitsFor, SendsNow, Records
  <1>3. \A d \in Ids : (Open(dlv[d])' => Open(dlv[d])) /\ (Open(dlv[d]) => Open(dlv[d])' \/ dlv'[d] = Gone)
    BY <1>1 DEF Open
  <1>4. RowInv'
    BY <1>1, <1>3 DEF IInv, RowInv, Recording, Records, Open
  <1>5. SendInv'
    <2>1. \A d \in Ids \ excused, t \in Takers :
            WaitsFor(t, d) => dlv'[d] = Gone \/ Open(dlv[d])'
      BY <1>3 DEF IInv, SendInv
    <2> QED
      BY <1>1, <2>1 DEF IInv, SendInv, WaitsFor, SendsNow, Records
  <1>6. DeliveredOnce' /\ RetriesAreBounded' /\ OnlyAllowedAddresses'
    BY <1>1 DEF IInv, DeliveredOnce, RetriesAreBounded, OnlyAllowedAddresses
  <1> QED
    BY <1>2, <1>4, <1>5, <1>6 DEF IInv

\* Sender t goes a step further with delivery d: what it does to d is given,
\* and nothing happens to the other deliveries.
OnlyAbout(t, d) ==
  /\ Len(dlv') = Len(dlv) /\ excused' = excused
  /\ \A e \in Ids \ {d} : dlv'[e] = dlv[e]
  /\ \A e \in Deliveries \ {d} : sends'[e] = sends[e] /\ acks'[e] = acks[e]
  /\ \A u \in Takers \ {t} : job'[u] = job[u]
  /\ \A e \in Deliveries \ {d} :
       /\ WaitsFor(t, e)' => WaitsFor(t, e)
       /\ ~SendsNow(t, e)' /\ ~Records(t, e)' /\ ~Records(t, e)
  /\ ~WaitsFor(t, d)'

\* What the step makes of d is in order.
InOrder(t, d) ==
  /\ Open(dlv[d])' => dlv'[d].tries < MAX_ATTEMPTS
  /\ d \notin excused =>
       /\ acks'[d] <= 1 /\ sends'[d] <= MAX_ATTEMPTS
       /\ dlv'[d] # Gone /\ ~Records(t, d)' => sends'[d] <= dlv'[d].tries
       /\ Open(dlv[d])' /\ ~Records(t, d)' => acks'[d] = 0
       /\ SendsNow(t, d)' => /\ acks'[d] = 0
                             /\ sends'[d] < job'[t].tries /\ job'[t].tries <= MAX_ATTEMPTS
       /\ Records(t, d)' => /\ acks'[d] = IF job'[t].ok THEN 1 ELSE 0
                            /\ sends'[d] <= job'[t].tries /\ job'[t].tries <= MAX_ATTEMPTS

LEMMA SenderStep ==
    ASSUME IInv, TypeInv', PinInv', OnlyAllowedAddresses',
           NEW t \in Takers, NEW d \in Ids, Takes(t, d), OnlyAbout(t, d), InOrder(t, d),
           job'["tick"].op \in {"send", "record"} => job'["tick"].d \notin job'["tick"].todo
    PROVE  IInv'
  <1>1. /\ Ids' = Ids /\ Ids \subseteq Deliveries /\ d \in Deliveries
    BY IdsType DEF IInv, Ids, TypeInv, OnlyAbout
  <1>2. PICK u \in Takers : Takers = {t, u} /\ u # t /\ job'[u] = job[u]
    BY DEF Takers, OnlyAbout
  <1>3. \A e \in Deliveries : /\ WaitsFor(u, e)' <=> WaitsFor(u, e)
                              /\ SendsNow(u, e)' <=> SendsNow(u, e)
                              /\ Records(u, e)' <=> Records(u, e)
                              /\ Takes(u, e)' <=> Takes(u, e)
    BY <1>2 DEF Takes, WaitsFor, SendsNow, Records
  <1>4. \A e \in Deliveries \ {d} : Takes(t, e)' => Takes(t, e)
    BY DEF Takes, OnlyAbout
  <1>5. d \notin excused => ~Takes(u, d) /\ ~Takes(u, d)'
    BY <1>1, <1>2, <1>3 DEF IInv, OneSender, Takers
  <1>6. TakenInv'
    <2>1. \A e \in Deliveries, v \in Takers : Takes(v, e)' => e \in Ids'
      BY <1>1, <1>2, <1>3, <1>4 DEF IInv, TakenInv
    <2>2. \A e \in Deliveries \ Ids' : sends'[e] = 0 /\ acks'[e] = 0
      BY <1>1 DEF IInv, TakenInv, OnlyAbout
    <2> QED
      BY <2>1, <2>2 DEF TakenInv
  <1>7. OneSender'
    BY <1>2, <1>3, <1>4, <1>5 DEF IInv, OneSender, OnlyAbout, Takers
  <1>8. \A e \in Deliveries \ {d} : Recording(e)' <=> Recording(e)
    BY <1>2, <1>3 DEF Recording, OnlyAbout, Takers
  <1>9. d \notin excused => (Recording(d)' <=> Records(t, d)')
    BY <1>1, <1>2, <1>3, <1>5 DEF Recording, Takes, Takers
  <1>10. \A e \in Ids \ {d} : (Open(dlv[e])' <=> Open(dlv[e])) /\ dlv'[e] = dlv[e]
    BY DEF OnlyAbout, Open
  <1>11. RowInv'
    <2>1. \A e \in Ids' : Open(dlv[e])' => dlv'[e].tries < MAX_ATTEMPTS
      BY <1>1, <1>10 DEF IInv, RowInv, InOrder
    <2>2. \A e \in Ids' \ excused' : dlv'[e] # Gone /\ ~Recording(e)' => sends'[e] <= dlv'[e].tries
      BY <1>1, <1>8, <1>9, <1>10 DEF IInv, RowInv, InOrder, OnlyAbout
    <2>3. \A e \in Ids' \ excused' : Open(dlv[e])' /\ ~Recording(e)' => acks'[e] = 0
      BY <1>1, <1>8, <1>9, <1>10 DEF IInv, RowInv, InOrder, OnlyAbout
    <2> QED
      BY <2>1, <2>2, <2>3 DEF RowInv
  <1>12. SendInv'
    <2> SUFFICES ASSUME NEW e \in Ids \ excused, NEW v \in Takers
                 PROVE  /\ WaitsFor(v, e)' => dlv'[e] = Gone \/ Open(dlv[e])'
                        /\ SendsNow(v, e)' => /\ acks'[e] = 0
                                              /\ sends'[e] < job'[v].tries
                                              /\ job'[v].tries <= MAX_ATTEMPTS
                        /\ Records(v, e)' => /\ acks'[e] = IF job'[v].ok THEN 1 ELSE 0
                                             /\ sends'[e] <= job'[v].tries
                                             /\ job'[v].tries <= MAX_ATTEMPTS
      BY <1>1 DEF SendInv, OnlyAbout
    <2>1. CASE e = d /\ v = t
      BY <2>1 DEF InOrder, OnlyAbout
    <2>2. CASE e = d /\ v = u
      BY <1>5, <2>2 DEF Takes
    <2>3. CASE e # d /\ v = t
      BY <1>1, <1>10, <2>3 DEF IInv, SendInv, OnlyAbout
    <2>4. CASE e # d /\ v = u
      BY <1>1, <1>2, <1>3, <1>10, <2>4 DEF IInv, SendInv, OnlyAbout
    <2> QED
      BY <1>2, <2>1, <2>2, <2>3, <2>4
  <1>13. DeliveredOnce' /\ RetriesAreBounded'
    <2>1. acks'[d] \in Nat /\ sends'[d] \in Nat
      BY <1>1 DEF TypeInv
    <2>2. \A e \in Ids \ {d} : acks'[e] = acks[e] /\ sends'[e] = sends[e]
      BY <1>1 DEF OnlyAbout
    <2>3. excused' = excused
      BY DEF OnlyAbout
    <2> QED
      BY <1>1, <2>1, <2>2, <2>3 DEF IInv, DeliveredOnce, RetriesAreBounded, InOrder
  <1> QED
    BY <1>6, <1>7, <1>11, <1>12, <1>13 DEF IInv

-----------------------------------------------------------------------------
(* The settings pages, time and the name service                           *)

LEMMA SameRows ==
    ASSUME IInv, UNCHANGED <<dlv, job, sends, acks, excused, reached>>,
           dns' \subseteq Addresses,
           subs' \subseteq NotificationSubscription, IsFiniteSet(subs')
    PROVE  IInv'
  <1>1. TypeInv'
    BY DEF IInv, TypeInv
  <1>2. \A d \in Ids : dlv'[d] = dlv[d]
    OBVIOUS
  <1> QED
    BY <1>1, <1>2, RowsStep

\* Rows change, are given up with their channel, or wait a minute less.
LEMMA MappedRows ==
    ASSUME IInv, UNCHANGED <<dns, job, sends, acks, excused, reached>>,
           subs' \subseteq subs,
           NEW f, f \in [Ids -> Row \cup {Gone}], dlv' = f,
           \A d \in Ids : \/ f[d] = Gone
                          \/ dlv[d] # Gone /\ f[d].st = dlv[d].st /\ f[d].tries = dlv[d].tries
    PROVE  IInv'
  <1>1. Ids = 1 .. Len(dlv) /\ Len(dlv) \in Nat
    BY IdsType DEF IInv
  <1>2. dlv' \in Seq(Row \cup {Gone}) /\ Len(dlv') = Len(dlv)
    BY <1>1
  <1>3. subs' \subseteq NotificationSubscription /\ IsFiniteSet(subs')
    BY FS_Subset DEF IInv, TypeInv
  <1>4. TypeInv'
    BY <1>2, <1>3 DEF IInv, TypeInv
  <1> QED
    BY <1>2, <1>4, RowsStep

LEMMA PagesInv ==
    ASSUME IInv, NEW c \in Channels,
           settings_webhooks_create_submit(c) \/ settings_webhooks_toggle_submit(c) \/ channel_edited(c)
    PROVE  IInv'
  <1>1. UNCHANGED <<subs, dlv, dns, job, sends, acks, excused, reached>>
    BY DEF settings_webhooks_create_submit, settings_webhooks_toggle_submit, channel_edited, Page, Quiet,
           create_channel, toggle_channel, update_channel
  <1> QED
    BY <1>1, SameRows DEF IInv, TypeInv

LEMMA SubscriptionsInv ==
    ASSUME IInv, NEW s \in NotificationSubscription,
           \/ settings_webhooks_subscription_create_submit(s)
           \/ settings_webhooks_subscription_delete_submit(s)
    PROVE  IInv'
  <1>1. UNCHANGED <<dlv, dns, job, sends, acks, excused, reached>> /\ (subs' = subs \cup {s} \/ subs' = subs \ {s})
    BY DEF settings_webhooks_subscription_create_submit, settings_webhooks_subscription_delete_submit, Page, Quiet,
           create_subscription, delete_subscription
  <1>2. IsFiniteSet(subs \cup {s}) /\ IsFiniteSet(subs \ {s})
    BY FS_AddElement, FS_RemoveElement DEF IInv, TypeInv
  <1> QED
    BY <1>1, <1>2, SameRows DEF IInv, TypeInv

LEMMA DeleteInv ==
    ASSUME IInv, NEW c \in Channels, settings_webhooks_delete_submit(c)
    PROVE  IInv'
  <1> DEFINE f == [d \in Ids |-> IF dlv[d] # Gone /\ dlv[d].ch = c THEN Gone ELSE dlv[d]]
  <1>1. /\ UNCHANGED <<dns, job, sends, acks, excused, reached>> /\ subs' \subseteq subs
        /\ dlv' = dlv \/ dlv' = f
    BY DEF settings_webhooks_delete_submit, Page, Quiet, delete_channel
  <1>2. f \in [Ids -> Row \cup {Gone}]
    BY IdsType DEF IInv
  <1>3. \A d \in Ids : \/ f[d] = Gone
                       \/ dlv[d] # Gone /\ f[d].st = dlv[d].st /\ f[d].tries = dlv[d].tries
    OBVIOUS
  <1>4. CASE dlv' = f
    BY <1>1, <1>2, <1>3, <1>4, MappedRows
  <1>5. CASE dlv' = dlv
    <2>1. IsFiniteSet(subs') /\ subs' \subseteq NotificationSubscription /\ dns' \subseteq Addresses
      BY <1>1, FS_Subset DEF IInv, TypeInv
    <2> QED
      BY <1>1, <1>5, <2>1, SameRows
  <1> QED
    BY <1>1, <1>4, <1>5

LEMMA MinuteInv ==
    ASSUME IInv, Minute
    PROVE  IInv'
  <1> DEFINE f == [d \in Ids |-> IF dlv[d] # Gone /\ dlv[d].wait > 0 THEN [dlv[d] EXCEPT !.wait = @ - 1] ELSE dlv[d]]
  <1>1. UNCHANGED <<dns, subs, job, sends, acks, excused, reached>> /\ dlv' = f
    BY DEF Minute, Quiet
  <1>2. \A d \in Ids : /\ f[d] \in Row \cup {Gone}
                       /\ \/ f[d] = Gone
                          \/ dlv[d] # Gone /\ f[d].st = dlv[d].st /\ f[d].tries = dlv[d].tries
    <2> TAKE d \in Ids
    <2>1. dlv[d] \in Row \cup {Gone}
      BY IdsType DEF IInv
    <2>2. CASE dlv[d] # Gone /\ dlv[d].wait > 0
      <3>1. f[d] = [dlv[d] EXCEPT !.wait = @ - 1] /\ dlv[d] \in Row
        BY <2>1, <2>2
      <3> QED
        BY <2>2, <3>1 DEF Row
    <2> QED
      BY <2>1, <2>2
  <1>3. f \in [Ids -> Row \cup {Gone}]
    BY <1>2
  <1> HIDE DEF f
  <1> QED
    BY <1>1, <1>2, <1>3, MappedRows

LEMMA ResolveInv ==
    ASSUME IInv, Resolve
    PROVE  IInv'
  BY SameRows DEF Resolve, Quiet, IInv, TypeInv

-----------------------------------------------------------------------------
(* New deliveries, and escalations                                         *)

\* A step that adds rows, and may be the first one of a test.
LEMMA ExtendStep ==
    ASSUME IInv, TypeInv', PinInv', OnlyAllowedAddresses',
           UNCHANGED <<sends, acks, excused>>, job'["tick"] = job["tick"],
           Len(dlv') >= Len(dlv), \A d \in Ids : dlv'[d] = dlv[d],
           \A d \in Ids' \ Ids : dlv'[d] # Gone /\ dlv'[d].st = "pending" /\ dlv'[d].tries = 0,
           \/ job'["test"] = job["test"]
           \/ job["test"] = Idle /\ \E d \in Ids' \ Ids : job'["test"] = [op |-> "test", d |-> d]
    PROVE  IInv'
  <1>1. Ids \subseteq Ids' /\ Ids' \subseteq Deliveries
    BY IdsType DEF IInv, Ids, TypeInv, Deliveries
  <1>2. \A d \in Deliveries : /\ WaitsFor("tick", d)' <=> WaitsFor("tick", d)
                              /\ SendsNow("tick", d)' <=> SendsNow("tick", d)
                              /\ Records("tick", d)' <=> Records("tick", d)
    BY DEF WaitsFor, SendsNow, Records
  <1>3. \A d \in Deliveries : /\ WaitsFor("test", d)' => WaitsFor("test", d) \/ d \in Ids' \ Ids
                              /\ SendsNow("test", d)' => SendsNow("test", d)
                              /\ Records("test", d)' <=> Records("test", d)
                              /\ SendsNow("test", d)' \/ Records("test", d)' => job'["test"] = job["test"]
    <2>1. CASE job'["test"] = job["test"]
      BY <2>1 DEF WaitsFor, SendsNow, Records
    <2>2. CASE job["test"] = Idle /\ \E d \in Ids' \ Ids : job'["test"] = [op |-> "test", d |-> d]
      <3>1. PICK e \in Ids' \ Ids : job'["test"] = [op |-> "test", d |-> e]
        BY <2>2
      <3>2. job["test"].op = "idle" /\ job'["test"].op = "test" /\ job'["test"].d = e
        BY <2>2, <3>1 DEF Idle
      <3> HIDE <3>1
      <3> QED
        BY <3>2 DEF WaitsFor, SendsNow, Records
    <2> QED
      BY <2>1, <2>2
  <1>4. \A d \in Deliveries \ Ids : ~Takes("tick", d) /\ ~Takes("test", d) /\ sends[d] = 0 /\ acks[d] = 0
    BY DEF IInv, TakenInv, Takers
  <1>5. \A d \in Deliveries : /\ Takes("tick", d)' => Takes("tick", d)
                              /\ Takes("test", d)' => Takes("test", d) \/ d \in Ids' \ Ids
    BY <1>2, <1>3 DEF Takes
  <1>6. TakenInv'
    <2>1. \A d \in Deliveries, t \in Takers : Takes(t, d)' => d \in Ids'
      BY <1>1, <1>5 DEF IInv, TakenInv, Takers
    <2> QED
      BY <1>1, <1>4, <2>1 DEF IInv, TakenInv
  <1>7. OneSender'
    BY <1>4, <1>5 DEF IInv, OneSender
  <1>8. /\ \A d \in Ids : Open(dlv[d])' <=> Open(dlv[d])
        /\ \A d \in Ids' \ Ids : Open(dlv[d])' /\ dlv'[d].tries < MAX_ATTEMPTS
    BY DEF Open
  <1>9. \A d \in Deliveries : Recording(d)' <=> Recording(d)
    BY <1>2, <1>3 DEF Recording
  <1>10. RowInv'
    <2>1. \A d \in Ids' : Open(dlv[d])' => dlv'[d].tries < MAX_ATTEMPTS
      BY <1>8 DEF IInv, RowInv
    <2>2. \A d \in Ids' \ excused' : dlv'[d] # Gone /\ ~Recording(d)' => sends'[d] <= dlv'[d].tries
      BY <1>1, <1>4, <1>9 DEF IInv, RowInv
    <2>3. \A d \in Ids' \ excused' : Open(dlv[d])' /\ ~Recording(d)' => acks'[d] = 0
      BY <1>1, <1>4, <1>8, <1>9 DEF IInv, RowInv
    <2> QED
      BY <2>1, <2>2, <2>3 DEF RowInv
  <1>11. SendInv'
    <2> SUFFICES ASSUME NEW d \in Ids' \ excused, NEW t \in Takers
                 PROVE  /\ WaitsFor(t, d)' => dlv'[d] = Gone \/ Open(dlv[d])'
                        /\ SendsNow(t, d)' => /\ acks'[d] = 0
                                              /\ sends'[d] < job'[t].tries
                                              /\ job'[t].tries <= MAX_ATTEMPTS
                        /\ Records(t, d)' => /\ acks'[d] = IF job'[t].ok THEN 1 ELSE 0
                                             /\ sends'[d] <= job'[t].tries
                                             /\ job'[t].tries <= MAX_ATTEMPTS
      BY DEF SendInv
    <2>1. CASE d \notin Ids
      BY <1>1, <1>2, <1>3, <1>4, <1>8, <2>1 DEF Takes, Takers
    <2>2. CASE d \in Ids /\ t = "tick"
      BY <1>1, <1>2, <1>8, <2>2 DEF IInv, SendInv
    <2>3. CASE d \in Ids /\ t = "test"
      BY <1>1, <1>3, <1>8, <2>3 DEF IInv, SendInv
    <2> QED
      BY <2>1, <2>2, <2>3 DEF Takers
  <1>12. DeliveredOnce' /\ RetriesAreBounded'
    <2>1. \A d \in Ids' \ Ids : ~(acks'[d] > 1) /\ ~(sends'[d] > MAX_ATTEMPTS)
      BY <1>1, <1>4
    <2> QED
      BY <1>1, <2>1 DEF IInv, DeliveredOnce, RetriesAreBounded
  <1> QED
    BY <1>6, <1>7, <1>10, <1>11, <1>12 DEF IInv

LEMMA Concatenated ==
    ASSUME NEW S, NEW a \in Seq(S), NEW b \in Seq(S)
    PROVE  /\ a \o b \in Seq(S) /\ Len(a \o b) = Len(a) + Len(b)
           /\ \A d \in 1 .. Len(a) + Len(b) : (a \o b)[d] = IF d <= Len(a) THEN a[d] ELSE b[d - Len(a)]
  OBVIOUS

\* emit() adds a row for every subscription that matches, and changes no other.
LEMMA EmitRows ==
    ASSUME TypeInv, NEW ev, NEW site, emit(ev, site)
    PROVE  /\ dlv' \in Seq(Row \cup {Gone}) /\ Len(dlv') <= MaxDeliveries /\ Len(dlv') >= Len(dlv)
           /\ \A d \in Ids : dlv'[d] = dlv[d]
           /\ \A d \in Ids' \ Ids : dlv'[d] # Gone /\ dlv'[d].st = "pending" /\ dlv'[d].tries = 0
  <1> DEFINE told == Told(ev, site)
             n == Cardinality(told)
             match == SetToSeq(told)
             new == [i \in DOMAIN match |-> _queue_for_channel(match[i])]
  <1>1. told \subseteq subs /\ IsFiniteSet(told)
    BY FS_Subset DEF Told, TypeInv
  <1>2. n \in Nat /\ match \in [1 .. n -> told]
    BY <1>1, SetAsSeq
  <1>3. \A i \in 1 .. n : /\ new[i] \in Row /\ new[i] # Gone
                          /\ new[i].st = "pending" /\ new[i].tries = 0
    <2> TAKE i \in 1 .. n
    <2>1. match[i].ch \in Channels
      BY <1>1, <1>2 DEF TypeInv, NotificationSubscription
    <2>2. new[i] = WebhookDelivery(match[i].ch)
      BY <1>2 DEF _queue_for_channel
    <2> QED
      BY <2>1, <2>2, NewRow
  <1>4. DOMAIN new = 1 .. n
    BY <1>2
  <1>5. dlv' = dlv \o new /\ Len(dlv) + n <= MaxDeliveries
    BY DEF emit, Room
  <1> HIDE DEF new, match, n
  <1>6. new \in Seq(Row \cup {Gone}) /\ Len(new) = n
    <2>1. new \in [1 .. n -> Row \cup {Gone}]
      <3>1. new = [i \in 1 .. n |-> new[i]]
        BY <1>4 DEF new
      <3> QED
        BY <1>3, <3>1
    <2> QED
      BY <1>2, <2>1
  <1>7. Len(dlv) \in Nat /\ dlv \in Seq(Row \cup {Gone})
    BY DEF TypeInv
  <1>8. /\ dlv' \in Seq(Row \cup {Gone}) /\ Len(dlv') = Len(dlv) + n
        /\ \A d \in 1 .. Len(dlv) + n : dlv'[d] = IF d <= Len(dlv) THEN dlv[d] ELSE new[d - Len(dlv)]
    BY <1>5, <1>6, <1>7, Concatenated
  <1>9. Ids = 1 .. Len(dlv) /\ Ids' = 1 .. Len(dlv) + n
    BY <1>7, <1>8 DEF Ids
  <1>10. \A d \in Ids' \ Ids : dlv'[d] = new[d - Len(dlv)] /\ d - Len(dlv) \in 1 .. n
    BY <1>2, <1>7, <1>8, <1>9
  <1> QED
    BY <1>2, <1>3, <1>5, <1>7, <1>8, <1>9, <1>10

\* One sender does something.
LEMMA JobSet ==
    ASSUME TypeInv, NEW t \in Senders, NEW x, job' = [job EXCEPT ![t] = x]
    PROVE  /\ job' = [u \in Senders |-> job'[u]] /\ job'[t] = x
           /\ \A u \in Senders \ {t} : job'[u] = job[u]
  <1>1. job = [u \in Senders |-> job[u]]
    BY DEF TypeInv
  <1> QED
    BY <1>1

LEMMA RuleStep ==
    ASSUME IInv, UNCHANGED <<subs, dns, sends, acks, excused>>,
           NEW x \in {Idle} \cup Escalate \cup Post, job' = [job EXCEPT !["rule"] = x],
           x.op = "post" => x.pin \notin Blocked, OnlyAllowedAddresses',
           dlv' \in Seq(Row \cup {Gone}), Len(dlv') <= MaxDeliveries, Len(dlv') >= Len(dlv),
           \A d \in Ids : dlv'[d] = dlv[d],
           \A d \in Ids' \ Ids : dlv'[d] # Gone /\ dlv'[d].st = "pending" /\ dlv'[d].tries = 0
    PROVE  IInv'
  <1>1. /\ job' = [u \in Senders |-> job'[u]] /\ job'["rule"] = x
        /\ job'["tick"] = job["tick"] /\ job'["test"] = job["test"]
    BY JobSet DEF IInv, Senders
  <1>2. x.op # "send"
    BY DEF Idle, Escalate, Post
  <1>3. TypeInv'
    BY <1>1 DEF IInv, TypeInv
  <1>4. PinInv'
    BY <1>1, <1>2 DEF IInv, PinInv, Senders
  <1> QED
    BY <1>1, <1>3, <1>4, ExtendStep

LEMMA RuleFiredInv ==
    ASSUME IInv, NEW site \in Sites \cup {AnySite}, NEW b \in BOOLEAN, _run_escalation_and_emit(site, b)
    PROVE  IInv'
  <1> DEFINE x == IF b THEN [op |-> "escalate", site |-> site] ELSE Idle
  <1>1. x \in {Idle} \cup Escalate \cup Post /\ x.op # "post"
    BY DEF Idle, Escalate
  <1>2. /\ UNCHANGED <<subs, dns, sends, acks, excused, reached>> /\ emit("rule_fired", site)
        /\ job' = [job EXCEPT !["rule"] = x]
    BY DEF _run_escalation_and_emit, Quiet
  <1>3. OnlyAllowedAddresses'
    BY <1>2 DEF IInv, OnlyAllowedAddresses
  <1>4. TypeInv
    BY DEF IInv
  <1> HIDE DEF x
  <1> QED
    BY <1>1, <1>2, <1>3, <1>4, EmitRows, RuleStep

LEMMA SendEscalationInv ==
    ASSUME IInv, send_escalation_webhook
    PROVE  IInv'
  <1>1. job["rule"].op = "escalate" /\ job["rule"] \in Escalate
    BY DEF send_escalation_webhook, IInv, TypeInv, Idle, Escalate, Post
  <1>2. /\ UNCHANGED <<subs, dns, dlv, sends, acks, excused, reached>>
    BY DEF send_escalation_webhook, Quiet
  <1>3. /\ OnlyAllowedAddresses' /\ dlv' \in Seq(Row \cup {Gone}) /\ Len(dlv') <= MaxDeliveries /\ Len(dlv') >= Len(dlv)
        /\ \A d \in Ids : dlv'[d] = dlv[d]
        /\ Ids' \ Ids = {}
    BY <1>2 DEF IInv, TypeInv, OnlyAllowedAddresses, Ids
  <1>4. PICK x \in Escalate \cup Post : job' = [job EXCEPT !["rule"] = x] /\ (x.op = "post" => x.pin \notin Blocked)
    <2>1. CASE ~validate_url("https")
      <3>1. job' = [job EXCEPT !["rule"] = [job["rule"] EXCEPT !.op = "escalated"]]
        BY <2>1 DEF send_escalation_webhook
      <3>2. [job["rule"] EXCEPT !.op = "escalated"] \in Escalate
        BY <1>1 DEF Escalate
      <3>3. [job["rule"] EXCEPT !.op = "escalated"].op # "post"
        BY <3>2 DEF Escalate
      <3> QED
        BY <3>1, <3>2, <3>3
    <2>2. CASE validate_url("https")
      <3>1. PICK pin \in Candidates :
              job' = [job EXCEPT !["rule"] = [op |-> "post", site |-> job["rule"].site, pin |-> pin]]
        BY <2>2 DEF send_escalation_webhook
      <3>2. pin \notin Blocked /\ pin \in Addresses
        BY <2>2 DEF validate_url, is_blocked_ip, Candidates, IInv, TypeInv
      <3> DEFINE y == [op |-> "post", site |-> job["rule"].site, pin |-> pin]
      <3>3. y \in Post /\ y.pin = pin
        BY <1>1, <3>2 DEF Escalate, Post
      <3> QED
        BY <3>1, <3>2, <3>3
    <2> QED
      BY <2>1, <2>2
  <1> QED
    BY <1>2, <1>3, <1>4, RuleStep

LEMMA EscalationRequestInv ==
    ASSUME IInv, escalation_request
    PROVE  IInv'
  <1>1. job["rule"].op = "post" /\ job["rule"] \in Post
    BY DEF escalation_request, IInv, TypeInv, Idle, Escalate, Post
  <1>2. job["rule"].pin \notin Blocked
    BY <1>1 DEF IInv, PinInv, Senders
  <1>3. UNCHANGED <<subs, dns, dlv, sends, acks, excused>> /\ reached' = reached \cup {job["rule"].pin}
    BY DEF escalation_request, _PinnedHTTPAdapter
  <1>4. OnlyAllowedAddresses'
    BY <1>2, <1>3 DEF IInv, OnlyAllowedAddresses
  <1> DEFINE x == [op |-> "escalated", site |-> job["rule"].site]
  <1>5. x \in Escalate /\ x.op # "post" /\ job' = [job EXCEPT !["rule"] = x]
    BY <1>1 DEF escalation_request, Escalate, Post
  <1>6. /\ dlv' \in Seq(Row \cup {Gone}) /\ Len(dlv') <= MaxDeliveries /\ Len(dlv') >= Len(dlv)
        /\ \A d \in Ids : dlv'[d] = dlv[d]
        /\ Ids' \ Ids = {}
    BY <1>3 DEF IInv, TypeInv, Ids
  <1> HIDE DEF x
  <1> QED
    BY <1>3, <1>4, <1>5, <1>6, RuleStep

LEMMA EscalationEmitInv ==
    ASSUME IInv, escalation_emit
    PROVE  IInv'
  <1>1. /\ UNCHANGED <<subs, dns, sends, acks, excused, reached>> /\ job' = [job EXCEPT !["rule"] = Idle]
        /\ emit("rule_escalated", job["rule"].site) \/ UNCHANGED dlv
    BY DEF escalation_emit, Quiet, Full
  <1>2. OnlyAllowedAddresses' /\ Idle.op # "post" /\ TypeInv
    BY <1>1 DEF IInv, OnlyAllowedAddresses, Idle
  <1>3. CASE UNCHANGED dlv
    <2>1. /\ dlv' \in Seq(Row \cup {Gone}) /\ Len(dlv') <= MaxDeliveries /\ Len(dlv') >= Len(dlv)
          /\ \A d \in Ids : dlv'[d] = dlv[d]
          /\ Ids' \ Ids = {}
      BY <1>3 DEF IInv, TypeInv, Ids
    <2> QED
      BY <1>1, <1>2, <2>1, RuleStep
  <1>4. CASE emit("rule_escalated", job["rule"].site)
    BY <1>1, <1>2, <1>4, EmitRows, RuleStep
  <1> QED
    BY <1>1, <1>3, <1>4

LEMMA TestInv ==
    ASSUME IInv, NEW c \in Channels, settings_webhooks_test_submit(c)
    PROVE  IInv'
  <1> DEFINE n == Len(dlv) + 1
             x == [op |-> "test", d |-> n]
  <1>1. /\ UNCHANGED <<subs, dns, sends, acks, excused, reached>> /\ job["test"] = Idle
        /\ job' = [job EXCEPT !["test"] = x] /\ Len(dlv) < MaxDeliveries
        /\ dlv' = Append(dlv, WebhookDelivery(c))
    BY DEF settings_webhooks_test_submit, Quiet
  <1>2. /\ job' = [u \in Senders |-> job'[u]] /\ job'["test"] = x
        /\ job'["tick"] = job["tick"] /\ job'["rule"] = job["rule"]
    BY <1>1, JobSet DEF IInv, Senders
  <1>3. /\ dlv' \in Seq(Row \cup {Gone}) /\ Len(dlv') = n /\ n \in Deliveries
        /\ \A d \in Ids : dlv'[d] = dlv[d]
        /\ Ids' \ Ids = {n} /\ dlv'[n] = WebhookDelivery(c)
    BY <1>1, NewRow DEF IInv, TypeInv, Ids, Deliveries
  <1>4. x \in Test
    BY <1>3 DEF Test
  <1>5. TypeInv'
    BY <1>1, <1>2, <1>3, <1>4 DEF IInv, TypeInv, Deliveries
  <1>6. PinInv' /\ OnlyAllowedAddresses'
    BY <1>1, <1>2 DEF IInv, PinInv, Senders, OnlyAllowedAddresses
  <1>7. Len(dlv') >= Len(dlv)
    BY <1>3 DEF IInv, TypeInv
  <1> QED
    BY <1>1, <1>2, <1>3, <1>5, <1>6, <1>7, NewRow, ExtendStep

-----------------------------------------------------------------------------
(* The start                                                               *)

LEMMA InitInv ==
    ASSUME Init
    PROVE  IInv
  <1>1. PICK here \in SUBSET Channels :
          subs = {[ev |-> "rule_fired", ch |-> c, site |-> AnySite, n |-> 1] : c \in here}
    BY DEF Init
  <1>2. IsFiniteSet(here)
    BY FS_Subset
  <1>3. IsFiniteSet(subs)
    <2> DEFINE f == [c \in here |-> [ev |-> "rule_fired", ch |-> c, site |-> AnySite, n |-> 1]]
    <2>1. f \in Surjection(here, subs)
      BY <1>1 DEF Surjection
    <2> QED
      BY <1>2, <2>1, FS_Surjection
  <1>4. subs \subseteq NotificationSubscription
    BY <1>1 DEF NotificationSubscription, EVENT_TYPES
  <1>5. /\ dlv = <<>> /\ dns = Addresses \ Blocked /\ job = [t \in Senders |-> Idle]
        /\ sends = [d \in Deliveries |-> 0] /\ acks = [d \in Deliveries |-> 0]
        /\ excused = {} /\ reached = {}
    BY DEF Init
  <1>6. \A t \in Senders : job[t] = Idle /\ job[t].op = "idle"
    BY <1>5 DEF Idle
  <1>7. TypeInv
    BY <1>3, <1>4, <1>5, <1>6 DEF TypeInv, Senders
  <1>8. Ids = {}
    BY <1>5 DEF Ids
  <1>9. PinInv /\ OneSender /\ RowInv /\ SendInv /\ DeliveredOnce /\ RetriesAreBounded /\ OnlyAllowedAddresses
    BY <1>5, <1>6, <1>8 DEF PinInv, OneSender, Takes, WaitsFor, SendsNow, Records, Senders, RowInv, SendInv,
       DeliveredOnce, RetriesAreBounded, OnlyAllowedAddresses
  <1>10. TakenInv
    BY <1>5, <1>6 DEF TakenInv, Takers, Takes, WaitsFor, SendsNow, Records, Senders
  <1> QED
    BY <1>7, <1>9, <1>10 DEF IInv

-----------------------------------------------------------------------------
(* The worker takes a batch, ends, or is restarted                         *)

LEMMA TakersStep ==
    ASSUME IInv, TypeInv', PinInv', UNCHANGED <<dlv, sends, acks, reached>>, excused \subseteq excused',
           \A t \in Takers : job'[t] = job[t] \/ job'[t].op \notin {"send", "record"},
           \A t \in Takers, d \in Deliveries :
             WaitsFor(t, d)' => \/ WaitsFor(t, d)
                                \/ /\ t = "tick" /\ d \in Ids /\ Open(dlv[d])
                                   /\ Takes("test", d) => d \in excused',
           \A t \in Takers, d \in Deliveries \ excused' : Records(t, d) => job'[t] = job[t]
    PROVE  IInv'
  <1>1. Ids' = Ids /\ Ids \subseteq Deliveries
    BY IdsType DEF IInv, Ids
  <1>2. \A t \in Takers, d \in Deliveries :
          /\ SendsNow(t, d)' => SendsNow(t, d) /\ job'[t] = job[t]
          /\ Records(t, d)' => Records(t, d) /\ job'[t] = job[t]
    BY DEF SendsNow, Records
  <1>3. \A d \in Deliveries : Takes("test", d)' => Takes("test", d)
    BY <1>2 DEF Takes, Takers
  <1>4. \A d \in Deliveries :
          Takes("tick", d)' => Takes("tick", d) \/ (d \in Ids /\ (Takes("test", d) => d \in excused'))
    BY <1>2 DEF Takes, Takers
  <1>5. TakenInv'
    <2>1. \A t \in Takers, d \in Deliveries : Takes(t, d)' => d \in Ids
      BY <1>3, <1>4 DEF IInv, TakenInv, Takers
    <2>2. job'["tick"].op \in {"send", "record"} => job'["tick"].d \notin job'["tick"].todo
      BY DEF IInv, TakenInv, Takers
    <2> QED
      BY <1>1, <2>1, <2>2 DEF IInv, TakenInv
  <1>6. OneSender'
    BY <1>3, <1>4 DEF IInv, OneSender
  <1>7. \A d \in Deliveries \ excused' : Recording(d) => Recording(d)'
    BY DEF Recording, Records, Takers
  <1>8. RowInv'
    <2>1. \A d \in Ids : Open(dlv[d])' <=> Open(dlv[d])
      BY DEF Open
    <2> QED
      BY <1>1, <1>7, <2>1 DEF IInv, RowInv
  <1>9. SendInv'
    <2> SUFFICES ASSUME NEW d \in Ids \ excused', NEW t \in Takers
                 PROVE  /\ WaitsFor(t, d)' => dlv[d] = Gone \/ Open(dlv[d])
                        /\ SendsNow(t, d)' => /\ acks[d] = 0
                                              /\ sends[d] < job'[t].tries
                                              /\ job'[t].tries <= MAX_ATTEMPTS
                        /\ Records(t, d)' => /\ acks[d] = IF job'[t].ok THEN 1 ELSE 0
                                             /\ sends[d] <= job'[t].tries
                                             /\ job'[t].tries <= MAX_ATTEMPTS
      BY <1>1 DEF SendInv, Open
    <2>1. d \in Deliveries /\ d \in Ids \ excused
      BY <1>1
    <2> QED
      BY <1>2, <2>1 DEF IInv, SendInv
  <1>10. DeliveredOnce' /\ RetriesAreBounded' /\ OnlyAllowedAddresses'
    BY <1>1 DEF IInv, DeliveredOnce, RetriesAreBounded, OnlyAllowedAddresses
  <1> QED
    BY <1>5, <1>6, <1>8, <1>9, <1>10 DEF IInv

LEMMA TickInv ==
    ASSUME IInv, tick
    PROVE  IInv'
  <1>1. UNCHANGED <<subs, dlv, dns, sends, acks, reached>>
    BY DEF tick
  <1>2. PICK batch \in SUBSET Due :
          /\ job' = [job EXCEPT !["tick"] = [op |-> "drain", todo |-> batch]]
          /\ excused' = excused \cup {d \in batch : job["test"] # Idle /\ job["test"].d = d}
    BY DEF tick
  <1> DEFINE x == [op |-> "drain", todo |-> batch]
  <1>3. batch \subseteq Ids /\ Ids \subseteq Deliveries /\ \A d \in batch : Open(dlv[d])
    BY IdsType DEF Due, IInv, Open
  <1>4. x \in Drain /\ x.op = "drain" /\ x.todo = batch
    BY <1>3 DEF Drain
  <1>5. /\ job' = [u \in Senders |-> job'[u]] /\ job'["tick"] = x
        /\ job'["test"] = job["test"] /\ job'["rule"] = job["rule"]
    BY <1>2, JobSet DEF IInv, Senders
  <1>6. job["tick"].op = "idle"
    BY DEF tick, Idle
  <1> HIDE DEF x
  <1>7. TypeInv' /\ PinInv'
    BY <1>1, <1>4, <1>5 DEF IInv, TypeInv, PinInv, Senders
  <1>8. \A d \in Deliveries : Takes("test", d) => job["test"] # Idle /\ job["test"].d = d
    BY DEF Takes, WaitsFor, SendsNow, Records, Idle
  <1>9. \A t \in Takers, d \in Deliveries :
          WaitsFor(t, d)' => \/ WaitsFor(t, d)
                             \/ /\ t = "tick" /\ d \in Ids /\ Open(dlv[d])
                                /\ Takes("test", d) => d \in excused'
    <2> TAKE t \in Takers, d \in Deliveries
    <2>1. CASE t = "tick"
      <3>1. WaitsFor(t, d)' => d \in batch
        BY <1>4, <1>5, <2>1 DEF WaitsFor
      <3> QED
        BY <1>2, <1>3, <1>8, <2>1, <3>1
    <2>2. CASE t = "test"
      BY <1>5, <2>2 DEF WaitsFor
    <2> QED
      BY <2>1, <2>2 DEF Takers
  <1>10. \A t \in Takers, d \in Deliveries \ excused' : Records(t, d) => job'[t] = job[t]
    BY <1>5, <1>6 DEF Records, Takers
  <1>11. \A t \in Takers : job'[t] = job[t] \/ job'[t].op \notin {"send", "record"}
    BY <1>4, <1>5 DEF Takers
  <1> QED
    BY <1>1, <1>2, <1>7, <1>9, <1>10, <1>11, TakersStep

LEMMA TickEndsInv ==
    ASSUME IInv, tick_ends
    PROVE  IInv'
  <1>1. UNCHANGED <<subs, dlv, dns, sends, acks, excused, reached>> /\ job' = [job EXCEPT !["tick"] = Idle]
    BY DEF tick_ends, Quiet
  <1>2. /\ job' = [u \in Senders |-> job'[u]] /\ job'["tick"] = Idle /\ Idle.op = "idle"
        /\ job'["test"] = job["test"] /\ job'["rule"] = job["rule"]
    BY <1>1, JobSet DEF IInv, Senders, Idle
  <1>3. job["tick"].op = "drain"
    BY DEF tick_ends
  <1>4. TypeInv' /\ PinInv'
    BY <1>1, <1>2 DEF IInv, TypeInv, PinInv, Senders
  <1>5. \A t \in Takers, d \in Deliveries : WaitsFor(t, d)' => WaitsFor(t, d)
    BY <1>2 DEF Takers, WaitsFor
  <1>6. \A t \in Takers, d \in Deliveries \ excused' : Records(t, d) => job'[t] = job[t]
    BY <1>2, <1>3 DEF Records, Takers
  <1>7. \A t \in Takers : job'[t] = job[t] \/ job'[t].op \notin {"send", "record"}
    BY <1>2 DEF Takers
  <1> QED
    BY <1>1, <1>4, <1>5, <1>6, <1>7, TakersStep

LEMMA RestartInv ==
    ASSUME IInv, Restart
    PROVE  IInv'
  <1>1. /\ UNCHANGED <<subs, dlv, dns, sends, acks, reached>> /\ job' = [t \in Senders |-> Idle]
        /\ excused' = excused \cup {job[t].d : t \in {u \in Senders : job[u].op = "record"}}
    BY DEF Restart
  <1>2. \A t \in Senders : job'[t] = Idle /\ job'[t].op = "idle"
    BY <1>1 DEF Idle
  <1>3. TypeInv' /\ PinInv'
    BY <1>1, <1>2 DEF IInv, TypeInv, PinInv, Senders
  <1>4. \A t \in Takers, d \in Deliveries : ~WaitsFor(t, d)'
    BY <1>2 DEF Takers, Senders, WaitsFor
  <1>5. \A t \in Takers, d \in Deliveries : Records(t, d) => d \in excused'
    BY <1>1 DEF Records, Takers, Senders
  <1>6. \A t \in Takers : job'[t].op \notin {"send", "record"}
    BY <1>2 DEF Takers, Senders
  <1> QED
    BY <1>1, <1>3, <1>4, <1>5, <1>6, TakersStep

-----------------------------------------------------------------------------
(* A delivery is read, sent and recorded                                   *)

\* Nobody else has to do with a delivery that is not excused.
LEMMA Alone ==
    ASSUME IInv, NEW t \in Takers, NEW d \in Ids \ excused, Takes(t, d)
    PROVE  Recording(d) <=> Records(t, d)
  <1>1. d \in Deliveries
    BY IdsType DEF IInv
  <1> QED
    BY <1>1 DEF IInv, OneSender, Takers, Recording, Takes

\* What is left to the sender once it has read delivery d.
Left(t, d) == IF t = "tick" THEN job[t].todo \ {d} ELSE {}
Done(t, d) == IF t = "tick" THEN [op |-> "drain", todo |-> Left(t, d)] ELSE Idle

\* The sender reads what it waits for.
Reads(t, d) == job[t].op \in {"drain", "test"} /\ WaitsFor(t, d)

LEMMA ReadsFacts ==
    ASSUME IInv, NEW t \in Takers, NEW d \in Deliveries, Reads(t, d)
    PROVE  /\ d \in Ids /\ Takes(t, d) /\ \A e \in Deliveries : ~SendsNow(t, e) /\ ~Records(t, e)
           /\ Left(t, d) \subseteq Deliveries /\ d \notin Left(t, d)
           /\ t = "tick" => \A e \in Left(t, d) : WaitsFor(t, e)
           /\ Done(t, d).op \in {"drain", "idle"} /\ (t = "tick" => Done(t, d).todo = Left(t, d))
           /\ t = "tick" => Done(t, d) \in Drain
           /\ t = "test" => Done(t, d) = Idle
  <1>1. Takes(t, d) /\ \A e \in Deliveries : ~SendsNow(t, e) /\ ~Records(t, e)
    BY DEF Reads, Takes, SendsNow, Records
  <1>2. d \in Ids
    BY <1>1 DEF IInv, TakenInv
  <1>3. t = "tick" => job[t] \in Drain
    BY DEF Reads, WaitsFor, IInv, TypeInv, Idle, Drain, Send, Record
  <1>4. Left(t, d) \subseteq Deliveries /\ d \notin Left(t, d)
    BY <1>3 DEF Left, Drain
  <1>5. t = "tick" => \A e \in Left(t, d) : WaitsFor(t, e)
    BY DEF Left, Reads, WaitsFor
  <1>6. t = "tick" => Done(t, d) = [op |-> "drain", todo |-> Left(t, d)]
    BY DEF Done
  <1>7. t = "test" => Done(t, d) = Idle
    BY DEF Done
  <1> QED
    BY <1>1, <1>2, <1>4, <1>5, <1>6, <1>7 DEF Drain, Idle, Takers

\* A sender's record changes: what of the type and of the others' records stays.
LEMMA SenderSet ==
    ASSUME IInv, NEW t \in Takers, NEW x, job' = [job EXCEPT ![t] = x], UNCHANGED <<subs, dns>>,
           dlv' \in Seq(Row \cup {Gone}), Len(dlv') = Len(dlv),
           sends' \in [Deliveries -> Nat], acks' \in [Deliveries -> Nat],
           t = "tick" => x \in {Idle} \cup Drain \cup Send \cup Record,
           t = "test" => x \in {Idle} \cup Send \cup Record,
           x.op = "send" => x.pin \notin Blocked
    PROVE  TypeInv' /\ PinInv' /\ job'[t] = x /\ \A u \in Takers \ {t} : job'[u] = job[u]
  <1>1. /\ job' = [u \in Senders |-> job'[u]] /\ job'[t] = x
        /\ \A u \in Senders \ {t} : job'[u] = job[u]
    BY JobSet DEF IInv, Senders, Takers
  <1>2. /\ job'["tick"] \in {Idle} \cup Drain \cup Send \cup Record
        /\ job'["test"] \in {Idle} \cup Test \cup Send \cup Record
        /\ job'["rule"] \in {Idle} \cup Escalate \cup Post
    BY <1>1 DEF IInv, TypeInv, Senders, Takers
  <1>3. x.op # "post"
    BY DEF Idle, Drain, Send, Record, Takers
  <1> HIDE DEF Senders, Takers
  <1>4. TypeInv'
    BY <1>1, <1>2 DEF IInv, TypeInv
  <1>5. PinInv'
    BY <1>1, <1>3 DEF IInv, PinInv
  <1> QED
    BY <1>1, <1>4, <1>5 DEF Senders, Takers

\* The sender gives the delivery it read up, or finds it gone.
LEMMA GivesUp ==
    ASSUME IInv, NEW t \in Takers, NEW d \in Deliveries, Reads(t, d),
           job' = [job EXCEPT ![t] = Done(t, d)],
           UNCHANGED <<subs, dns, sends, acks, excused, reached>>,
           dlv' \in Seq(Row \cup {Gone}), Len(dlv') = Len(dlv),
           \A e \in Ids \ {d} : dlv'[e] = dlv[e],
           \/ dlv'[d] = Gone
           \/ dlv[d] # Gone /\ dlv'[d] \in Row /\ dlv'[d].st = "dead" /\ dlv'[d].tries >= dlv[d].tries
    PROVE  IInv'
  <1>1. /\ d \in Ids /\ Takes(t, d) /\ \A e \in Deliveries : ~SendsNow(t, e) /\ ~Records(t, e)
        /\ d \notin Left(t, d)
        /\ t = "tick" => \A e \in Left(t, d) : WaitsFor(t, e)
        /\ Done(t, d).op \in {"drain", "idle"} /\ (t = "tick" => Done(t, d).todo = Left(t, d))
        /\ t = "tick" => Done(t, d) \in Drain
        /\ t = "test" => Done(t, d) = Idle
    BY ReadsFacts
  <1>2. TypeInv' /\ PinInv' /\ job'[t] = Done(t, d) /\ \A u \in Takers \ {t} : job'[u] = job[u]
    <2>1. sends' \in [Deliveries -> Nat] /\ acks' \in [Deliveries -> Nat]
      BY DEF IInv, TypeInv
    <2> QED
      BY <1>1, <2>1, SenderSet
  <1>3. OnlyAllowedAddresses'
    BY DEF IInv, OnlyAllowedAddresses
  <1>4. \A e \in Deliveries : ~SendsNow(t, e)' /\ ~Records(t, e)'
    BY <1>1, <1>2 DEF SendsNow, Records
  <1>5. \A e \in Deliveries : WaitsFor(t, e)' => e \in Left(t, d) /\ t = "tick"
    BY <1>1, <1>2 DEF WaitsFor, Takers
  <1>6. OnlyAbout(t, d)
    BY <1>1, <1>2, <1>4, <1>5 DEF OnlyAbout
  <1>7. InOrder(t, d)
    <2>1. ~Open(dlv[d])'
      BY GoneIsNoRow DEF Open
    <2>2. d \notin excused => /\ acks'[d] <= 1 /\ sends'[d] <= MAX_ATTEMPTS
      <3>1. acks[d] \in Nat /\ sends[d] \in Nat
        BY DEF IInv, TypeInv
      <3> QED
        BY <1>1, <3>1 DEF IInv, DeliveredOnce, RetriesAreBounded
    <2>3. d \notin excused /\ dlv'[d] # Gone => sends'[d] <= dlv'[d].tries
      <3> HAVE d \notin excused /\ dlv'[d] # Gone
      <3>1. ~Recording(d)
        BY <1>1, Alone
      <3>2. sends[d] <= dlv[d].tries
        BY <1>1, <3>1 DEF IInv, RowInv
      <3>3. sends[d] \in Nat /\ dlv[d].tries \in Nat /\ dlv'[d].tries \in Nat
        BY <1>1, IdsType DEF IInv, TypeInv, Row
      <3> QED
        BY <3>2, <3>3
    <2> QED
      BY <1>4, <2>1, <2>2, <2>3 DEF InOrder
  <1>8. job'["tick"].op \in {"send", "record"} => job'["tick"].d \notin job'["tick"].todo
    BY <1>1, <1>2 DEF IInv, TakenInv, Takers
  <1> QED
    BY <1>1, <1>2, <1>3, <1>6, <1>7, <1>8, SenderStep

\* The sender makes up its mind to send.
LEMMA StartsSend ==
    ASSUME IInv, NEW t \in Takers, NEW d \in Deliveries, Reads(t, d), dlv[d] # Gone,
           NEW pin \in Addresses \ Blocked,
           job' = [job EXCEPT ![t] = [op |-> "send", d |-> d, tries |-> dlv[d].tries + 1, pin |-> pin, todo |-> Left(t, d)]],
           UNCHANGED <<subs, dns, dlv, sends, acks, excused, reached>>
    PROVE  IInv'
  <1> DEFINE x == [op |-> "send", d |-> d, tries |-> dlv[d].tries + 1, pin |-> pin, todo |-> Left(t, d)]
  <1>1. /\ d \in Ids /\ Takes(t, d) /\ \A e \in Deliveries : ~SendsNow(t, e) /\ ~Records(t, e)
        /\ Left(t, d) \subseteq Deliveries /\ d \notin Left(t, d)
        /\ t = "tick" => \A e \in Left(t, d) : WaitsFor(t, e)
    BY ReadsFacts
  <1>2. dlv[d].tries \in Nat
    BY <1>1, IdsType DEF IInv, Row
  <1>3. x \in Send /\ x.op = "send" /\ x.d = d /\ x.tries = dlv[d].tries + 1 /\ x.pin = pin /\ x.todo = Left(t, d)
    BY <1>1, <1>2 DEF Send
  <1>4. job' = [job EXCEPT ![t] = x]
    OBVIOUS
  <1> HIDE DEF x
  <1>5. TypeInv' /\ PinInv' /\ job'[t] = x /\ \A u \in Takers \ {t} : job'[u] = job[u]
    <2>1. /\ sends' \in [Deliveries -> Nat] /\ acks' \in [Deliveries -> Nat]
          /\ dlv' \in Seq(Row \cup {Gone}) /\ Len(dlv') = Len(dlv)
      BY DEF IInv, TypeInv
    <2> QED
      BY <1>3, <1>4, <2>1, SenderSet
  <1>6. OnlyAllowedAddresses'
    BY DEF IInv, OnlyAllowedAddresses
  <1>7. \A e \in Deliveries : ~Records(t, e)' /\ (SendsNow(t, e)' => e = d)
    BY <1>3, <1>5 DEF SendsNow, Records
  <1>8. \A e \in Deliveries : WaitsFor(t, e)' => e \in Left(t, d) /\ t = "tick"
    BY <1>3, <1>5 DEF WaitsFor, Takers
  <1>9. OnlyAbout(t, d)
    BY <1>1, <1>5, <1>7, <1>8 DEF OnlyAbout
  <1>10. InOrder(t, d)
    <2>1. Open(dlv[d])' => dlv'[d].tries < MAX_ATTEMPTS
      BY <1>1 DEF IInv, RowInv, Open
    <2>2. ASSUME d \notin excused
          PROVE  /\ acks[d] = 0 /\ sends[d] <= dlv[d].tries /\ dlv[d].tries < MAX_ATTEMPTS
                 /\ sends[d] \in Nat
      <3>1. Open(dlv[d])
        BY <1>1, <2>2 DEF IInv, SendInv, Reads
      <3>2. ~Recording(d)
        BY <1>1, <2>2, Alone
      <3> QED
        BY <1>1, <2>2, <3>1, <3>2 DEF IInv, RowInv, TypeInv
    <2> QED
      BY <1>2, <1>3, <1>5, <1>7, <2>1, <2>2 DEF InOrder
  <1>11. job'["tick"].op \in {"send", "record"} => job'["tick"].d \notin job'["tick"].todo
    BY <1>1, <1>3, <1>5 DEF IInv, TakenInv, Takers
  <1> QED
    BY <1>1, <1>5, <1>6, <1>9, <1>10, <1>11, SenderStep

LEMMA SetDelivery ==
    ASSUME IInv, NEW d \in Ids, NEW r \in Row, dlv' = [dlv EXCEPT ![d] = r]
    PROVE  /\ dlv' \in Seq(Row \cup {Gone}) /\ Len(dlv') = Len(dlv)
           /\ dlv'[d] = r /\ \A e \in Ids \ {d} : dlv'[e] = dlv[e]
  BY IdsType DEF IInv, TypeInv

LEMMA SendOneInv ==
    ASSUME IInv, NEW t \in Takers, NEW d \in Deliveries, Reads(t, d), send_one(t, d)
    PROVE  IInv'
  <1>1. d \in Ids /\ dlv[d] \in Row \cup {Gone}
    BY ReadsFacts, IdsType DEF IInv
  <1>2. UNCHANGED <<chan, subs, dns, sends, acks, excused, reached>>
    BY DEF send_one, Quiet
  <1>3. CASE dlv[d] = Gone
    <2>1. dlv' = dlv /\ job' = [job EXCEPT ![t] = Done(t, d)]
      BY <1>3 DEF send_one, Done, Left
    <2>2. dlv' \in Seq(Row \cup {Gone}) /\ Len(dlv') = Len(dlv) /\ dlv'[d] = Gone
      BY <1>3, <2>1 DEF IInv, TypeInv
    <2> QED
      BY <1>2, <2>1, <2>2, GivesUp
  <1>4. CASE dlv[d] # Gone /\ chan[dlv[d].ch] = NoRow
    <2> DEFINE r == [dlv[d] EXCEPT !.st = "dead"]
    <2>1. dlv' = [dlv EXCEPT ![d] = r] /\ job' = [job EXCEPT ![t] = Done(t, d)]
      BY <1>4 DEF send_one, Done, Left
    <2>2. r \in Row /\ r.st = "dead" /\ r.tries = dlv[d].tries /\ r.tries \in Nat
      BY <1>1, <1>4 DEF Row
    <2> HIDE DEF r
    <2>3. /\ dlv' \in Seq(Row \cup {Gone}) /\ Len(dlv') = Len(dlv)
          /\ dlv'[d] = r /\ \A e \in Ids \ {d} : dlv'[e] = dlv[e]
      BY <1>1, <2>1, <2>2, SetDelivery
    <2>4. dlv'[d] \in Row /\ dlv'[d].st = "dead" /\ dlv'[d].tries >= dlv[d].tries
      BY <2>2, <2>3
    <2> HIDE <2>2
    <2> QED
      BY <1>2, <1>4, <2>1, <2>3, <2>4, GivesUp
  <1>5. CASE dlv[d] # Gone /\ chan[dlv[d].ch] # NoRow /\ ~validate_url(chan[dlv[d].ch].url)
    <2>1. dlv' = [dlv EXCEPT ![d] = Dead(dlv[d], dlv[d].tries + 1)] /\ job' = [job EXCEPT ![t] = Done(t, d)]
      BY <1>5 DEF send_one, Done, Left
    <2>2. dlv[d] \in Row /\ dlv[d].tries \in Nat /\ dlv[d].tries + 1 \in Nat
      BY <1>1, <1>5 DEF Row
    <2>3. PICK r \in Row : r = Dead(dlv[d], dlv[d].tries + 1) /\ r.st = "dead" /\ r.tries = dlv[d].tries + 1
      <3>1. PICK n \in Nat : n = dlv[d].tries + 1
        BY <2>2
      <3>2. Dead(dlv[d], n) \in Row /\ Dead(dlv[d], n).st = "dead" /\ Dead(dlv[d], n).tries = n
        BY <2>2, DeadRow
      <3> QED
        BY <3>1, <3>2
    <2>4. /\ dlv' \in Seq(Row \cup {Gone}) /\ Len(dlv') = Len(dlv)
          /\ dlv'[d] = r /\ \A e \in Ids \ {d} : dlv'[e] = dlv[e]
      BY <1>1, <2>1, <2>3, SetDelivery
    <2>5. dlv'[d] \in Row /\ dlv'[d].st = "dead" /\ dlv'[d].tries >= dlv[d].tries
      BY <2>2, <2>3, <2>4
    <2> QED
      BY <1>2, <1>5, <2>1, <2>4, <2>5, GivesUp
  <1>6. CASE dlv[d] # Gone /\ chan[dlv[d].ch] # NoRow /\ validate_url(chan[dlv[d].ch].url)
    <2>1. PICK pin \in Candidates :
            /\ dlv' = dlv
            /\ job' = [job EXCEPT ![t] = [op |-> "send", d |-> d, tries |-> dlv[d].tries + 1, pin |-> pin,
                                          todo |-> Left(t, d)]]
      BY <1>6 DEF send_one, Left
    <2>2. pin \in Addresses \ Blocked
      BY <1>6 DEF validate_url, is_blocked_ip, Candidates, IInv, TypeInv
    <2> QED
      BY <1>2, <1>6, <2>1, <2>2, StartsSend
  <1> QED
    BY <1>3, <1>4, <1>5, <1>6

LEMMA TickSendsInv ==
    ASSUME IInv, tick_sends
    PROVE  IInv'
  <1>1. PICK d \in job["tick"].todo : job["tick"].op = "drain" /\ send_one("tick", d)
    BY DEF tick_sends
  <1>2. d \in Deliveries
    BY <1>1 DEF IInv, TypeInv, Idle, Drain, Send, Record
  <1>3. Reads("tick", d) /\ "tick" \in Takers
    BY <1>1 DEF Reads, WaitsFor, Takers
  <1> QED
    BY <1>1, <1>2, <1>3, SendOneInv

LEMMA TestSendsInv ==
    ASSUME IInv, test_sends
    PROVE  IInv'
  <1>1. job["test"].op = "test" /\ send_one("test", job["test"].d)
    BY DEF test_sends
  <1>2. job["test"].d \in Deliveries
    BY <1>1 DEF IInv, TypeInv, Idle, Test, Send, Record
  <1>3. Reads("test", job["test"].d) /\ "test" \in Takers
    BY <1>1 DEF Reads, WaitsFor, Takers
  <1> QED
    BY <1>1, <1>2, <1>3, SendOneInv

LEMMA RequestInv ==
    ASSUME IInv, NEW t \in Takers, safe_request(t)
    PROVE  IInv'
  <1>1. job[t] \in Send
    BY DEF safe_request, IInv, TypeInv, Takers, Idle, Drain, Test, Record
  <1>2. PICK d \in Deliveries : d = job[t].d
    BY <1>1 DEF Send
  <1>3. PICK n \in Nat : n = job[t].tries
    BY <1>1 DEF Send
  <1>4. SendsNow(t, d) /\ Takes(t, d) /\ d \in Ids /\ \A e \in Deliveries : ~Records(t, e)
    BY <1>1, <1>2 DEF SendsNow, Records, Takes, Send, IInv, TakenInv
  <1>5. PICK ok \in BOOLEAN :
          /\ acks' = IF ok THEN [acks EXCEPT ![d] = @ + 1] ELSE acks
          /\ job' = [job EXCEPT ![t] = [op |-> "record", d |-> d, tries |-> n, ok |-> ok, todo |-> job[t].todo]]
    BY <1>2, <1>3 DEF safe_request
  <1> DEFINE x == [op |-> "record", d |-> d, tries |-> n, ok |-> ok, todo |-> job[t].todo]
  <1>6. /\ UNCHANGED <<subs, dns, dlv, excused>> /\ sends' = [sends EXCEPT ![d] = @ + 1]
        /\ reached' = reached \cup {job[t].pin}
    BY <1>2 DEF safe_request, _PinnedHTTPAdapter
  <1>7. /\ x \in Record /\ x.op = "record" /\ x.d = d /\ x.tries = n /\ (x.ok <=> ok) /\ x.todo = job[t].todo
    BY <1>1 DEF Record, Send
  <1>8. job' = [job EXCEPT ![t] = x]
    BY <1>5
  <1> HIDE DEF x
  <1>9. /\ sends' \in [Deliveries -> Nat] /\ acks' \in [Deliveries -> Nat]
        /\ sends'[d] = sends[d] + 1 /\ acks'[d] = IF ok THEN acks[d] + 1 ELSE acks[d]
        /\ \A e \in Deliveries \ {d} : sends'[e] = sends[e] /\ acks'[e] = acks[e]
    BY <1>5, <1>6 DEF IInv, TypeInv
  <1>10. TypeInv' /\ PinInv' /\ job'[t] = x /\ \A u \in Takers \ {t} : job'[u] = job[u]
    <2>1. dlv' \in Seq(Row \cup {Gone}) /\ Len(dlv') = Len(dlv)
      BY <1>6 DEF IInv, TypeInv
    <2> QED
      BY <1>6, <1>7, <1>8, <1>9, <2>1, SenderSet
  <1>11. OnlyAllowedAddresses'
    <2>1. job[t].pin \notin Blocked
      BY <1>1 DEF IInv, PinInv, Send, Takers, Senders
    <2> QED
      BY <1>6, <2>1 DEF IInv, OnlyAllowedAddresses
  <1>12. \A e \in Deliveries : ~SendsNow(t, e)' /\ (Records(t, e)' <=> e = d)
    BY <1>7, <1>10 DEF SendsNow, Records
  <1>13. \A e \in Deliveries : WaitsFor(t, e)' => WaitsFor(t, e) /\ e # d
    BY <1>1, <1>2, <1>7, <1>10 DEF WaitsFor, Takers, Send, IInv, TakenInv
  <1>14. OnlyAbout(t, d)
    BY <1>4, <1>6, <1>9, <1>10, <1>12, <1>13 DEF OnlyAbout
  <1>15. InOrder(t, d)
    <2>1. Open(dlv[d])' => dlv'[d].tries < MAX_ATTEMPTS
      BY <1>4, <1>6 DEF IInv, RowInv, Open
    <2>2. ASSUME d \notin excused
          PROVE  acks[d] = 0 /\ sends[d] < n /\ n <= MAX_ATTEMPTS /\ sends[d] \in Nat
      BY <1>3, <1>4, <2>2 DEF IInv, SendInv, TypeInv
    <2>3. Records(t, d)' /\ ~SendsNow(t, d)'
      BY <1>12
    <2> QED
      BY <1>7, <1>9, <1>10, <2>1, <2>2, <2>3 DEF InOrder
  <1>16. job'["tick"].op \in {"send", "record"} => job'["tick"].d \notin job'["tick"].todo
    BY <1>1, <1>2, <1>7, <1>10 DEF IInv, TakenInv, Takers, Send
  <1> QED
    BY <1>4, <1>10, <1>11, <1>14, <1>15, <1>16, SenderStep

\* What became of a request is recorded, unless the row is gone.
LEMMA RecordInv ==
    ASSUME IInv, NEW t \in Takers, record_outcome(t)
    PROVE  IInv'
  <1>1. job[t] \in Record
    BY DEF record_outcome, IInv, TypeInv, Takers, Idle, Drain, Test, Send
  <1>2. PICK d \in Deliveries : d = job[t].d
    BY <1>1 DEF Record
  <1>3. PICK n \in Nat : n = job[t].tries
    BY <1>1 DEF Record
  <1>4. Records(t, d) /\ Takes(t, d) /\ d \in Ids /\ \A e \in Deliveries : Records(t, e) => e = d
    BY <1>1, <1>2 DEF Records, Takes, Record, IInv, TakenInv
  <1>5. UNCHANGED <<subs, dns, sends, acks, excused, reached>>
    BY DEF record_outcome, Quiet
  <1>6. PICK x : /\ job' = [job EXCEPT ![t] = x] /\ x \in {Idle, After(t)}
    BY DEF record_outcome
  <1>7. /\ x.op \in {"idle", "drain"} /\ (t = "tick" => x \in {Idle} \cup Drain) /\ (t = "test" => x = Idle)
        /\ x.op = "drain" => t = "tick" /\ x.todo = job[t].todo
    <2>1. t = "tick" => After(t) = [op |-> "drain", todo |-> job[t].todo]
      BY DEF After
    <2>2. t = "test" => After(t) = Idle
      BY DEF After
    <2>3. job[t].todo \subseteq Deliveries
      BY <1>1 DEF Record
    <2> QED
      BY <1>6, <2>1, <2>2, <2>3 DEF Idle, Drain, Takers
  <1>8. PICK r : /\ r \in Row \cup {Gone} /\ dlv' = [dlv EXCEPT ![d] = r]
                 /\ r # Gone => /\ r.tries = n
                                /\ Open(r) => ~job[t].ok /\ n < MAX_ATTEMPTS
    <2>1. dlv[d] \in Row \cup {Gone}
      BY <1>4, IdsType DEF IInv
    <2>2. CASE dlv[d] = Gone
      <3>1. dlv' = [dlv EXCEPT ![d] = Gone]
        BY <1>2, <1>4, <2>2 DEF record_outcome, IInv, TypeInv, Ids
      <3> QED
        BY <3>1
    <2>3. CASE dlv[d] # Gone /\ job[t].ok
      <3>1. dlv' = [dlv EXCEPT ![d] = MarkSent(dlv[d], n)]
        BY <1>2, <1>3, <2>3 DEF record_outcome
      <3> QED
        BY <2>1, <2>3, <3>1, SentRow DEF Open
    <2>4. CASE dlv[d] # Gone /\ ~job[t].ok
      <3>1. dlv' = [dlv EXCEPT ![d] = _schedule_retry_or_dead(dlv[d], n)]
        BY <1>2, <1>3, <2>4 DEF record_outcome
      <3>2. PICK r : r = _schedule_retry_or_dead(dlv[d], n)
        OBVIOUS
      <3>3. /\ r \in Row /\ r.tries = n /\ r.st \in {"dead", "failed"}
            /\ r.st = "failed" => n < MAX_ATTEMPTS
        BY <2>1, <2>4, <3>2, FailedRow
      <3> QED
        BY <2>4, <3>1, <3>2, <3>3 DEF Open
    <2> QED
      BY <2>2, <2>3, <2>4
  <1>9. /\ dlv' \in Seq(Row \cup {Gone}) /\ Len(dlv') = Len(dlv)
        /\ dlv'[d] = r /\ \A e \in Ids \ {d} : dlv'[e] = dlv[e]
    BY <1>4, <1>8, IdsType DEF IInv, TypeInv
  <1>10. TypeInv' /\ PinInv' /\ job'[t] = x /\ \A u \in Takers \ {t} : job'[u] = job[u]
    <2>1. sends' \in [Deliveries -> Nat] /\ acks' \in [Deliveries -> Nat]
      BY <1>5 DEF IInv, TypeInv
    <2> QED
      BY <1>5, <1>6, <1>7, <1>9, <2>1, SenderSet
  <1>11. OnlyAllowedAddresses'
    BY <1>5 DEF IInv, OnlyAllowedAddresses
  <1>12. \A e \in Deliveries : ~SendsNow(t, e)' /\ ~Records(t, e)'
    BY <1>7, <1>10 DEF SendsNow, Records
  <1>13. \A e \in Deliveries : WaitsFor(t, e)' => WaitsFor(t, e) /\ e # d
    BY <1>1, <1>2, <1>7, <1>10 DEF WaitsFor, Takers, Record, IInv, TakenInv
  <1>14. OnlyAbout(t, d)
    BY <1>4, <1>5, <1>9, <1>10, <1>12, <1>13 DEF OnlyAbout
  <1>15. InOrder(t, d)
    <2>1. Open(dlv[d])' => dlv'[d].tries < MAX_ATTEMPTS /\ ~job[t].ok
      BY <1>8, <1>9, GoneIsNoRow DEF Open
    <2>2. ASSUME d \notin excused
          PROVE  /\ acks[d] = IF job[t].ok THEN 1 ELSE 0
                 /\ sends[d] <= n /\ n <= MAX_ATTEMPTS /\ sends[d] \in Nat
      BY <1>3, <1>4, <2>2 DEF IInv, SendInv, TypeInv
    <2> QED
      BY <1>5, <1>8, <1>9, <1>12, <2>1, <2>2 DEF InOrder
  <1>16. job'["tick"].op \in {"send", "record"} => job'["tick"].d \notin job'["tick"].todo
    BY <1>7, <1>10 DEF IInv, TakenInv, Takers
  <1> QED
    BY <1>4, <1>10, <1>11, <1>14, <1>15, <1>16, SenderStep

-----------------------------------------------------------------------------
(* The theorems                                                            *)

LEMMA StepInv ==
    ASSUME IInv, [Next]_vars
    PROVE  IInv'
  <1>1. CASE \E c \in Channels : \/ settings_webhooks_create_submit(c) \/ settings_webhooks_toggle_submit(c)
                                 \/ settings_webhooks_delete_submit(c) \/ channel_edited(c)
    BY <1>1, PagesInv, DeleteInv
  <1>2. CASE \E s \in NotificationSubscription : \/ settings_webhooks_subscription_create_submit(s)
                                                 \/ settings_webhooks_subscription_delete_submit(s)
    BY <1>2, SubscriptionsInv
  <1>3. CASE tick \/ tick_sends \/ tick_ends
    BY <1>3, TickInv, TickSendsInv, TickEndsInv
  <1>4. CASE \E t \in Takers : SenderNext(t)
    BY <1>4, RequestInv, RecordInv DEF SenderNext
  <1>5. CASE \E site \in Sites \cup {AnySite}, b \in BOOLEAN : _run_escalation_and_emit(site, b)
    BY <1>5, RuleFiredInv
  <1>6. CASE send_escalation_webhook \/ escalation_request \/ escalation_emit
    BY <1>6, SendEscalationInv, EscalationRequestInv, EscalationEmitInv
  <1>7. CASE test_sends \/ \E c \in Channels : settings_webhooks_test_submit(c)
    BY <1>7, TestInv, TestSendsInv
  <1>8. CASE Minute \/ Resolve \/ Restart
    BY <1>8, MinuteInv, ResolveInv, RestartInv
  <1>9. CASE UNCHANGED vars
    BY <1>9, SameRows DEF vars, IInv, TypeInv
  <1> QED
    BY <1>1, <1>2, <1>3, <1>4, <1>5, <1>6, <1>7, <1>8, <1>9 DEF Next, TickNext, Takers

\* The inductive invariant: the counters of the rows, of the requests and of
\* the answers agree for every delivery that has one sender, whatever the
\* settings pages, the watchdog, the name service and restarts do meanwhile.
THEOREM DeliveryInvariant == Spec => []IInv
  <1>1. Init => IInv
    BY InitInv
  <1>2. IInv /\ [Next]_vars => IInv'
    BY StepInv
  <1> QED
    BY <1>1, <1>2, PTL DEF Spec

\* A receiver that accepted a notification is not sent it again, unless a
\* restart or a second sender interfered (services/webhook_delivery.py,
\* send_one and _mark_sent), for every number of deliveries and subscriptions.
THEOREM AcceptedOnce == Spec => []DeliveredOnce
  <1>1. IInv => DeliveredOnce
    BY DEF IInv
  <1> QED
    BY <1>1, DeliveryInvariant, PTL

\* A delivery is tried MAX_ATTEMPTS times at the most, with the same
\* exceptions (_schedule_retry_or_dead), for every MAX_ATTEMPTS and batch size.
THEOREM AttemptsAreBounded == Spec => []RetriesAreBounded
  <1>1. IInv => RetriesAreBounded
    BY DEF IInv
  <1> QED
    BY <1>1, DeliveryInvariant, PTL

\* No request of the hub reaches an address the guard refuses (ssrf_guard's
\* validate_url and the pinned adapter), whatever the name service answers
\* between the validation and the connection.
THEOREM GuardHolds == Spec => []OnlyAllowedAddresses
  <1>1. IInv => OnlyAllowedAddresses
    BY DEF IInv
  <1> QED
    BY <1>1, DeliveryInvariant, PTL

=============================================================================
