--------------------------- MODULE AutomationProofs ---------------------------
(***************************************************************************)
(* What the automations may do, for every number of devices, threads,      *)
(* commands, sensors, rules and schedules.  Three parts.                   *)
(*                                                                         *)
(* Power control: for a device on which no two requests overlapped, the    *)
(* lockout is never passed, is_held_off says what the newest deciding      *)
(* command says, and a device that is held off stays off.  A device that   *)
(* is not in raced has been read by one open transaction at most, and      *)
(* nothing has been written to its row since, so that what was read and    *)
(* decided then is still so at the commit (HolderInv).  Every response     *)
(* has all pending rows, so that what is delivered for the first time was  *)
(* asked for after everything delivered earlier (ProgressInv).             *)
(*                                                                         *)
(* Sensors: a source that has said nothing for longer than the rules look  *)
(* back has no fresh sample (HeardInv), and a pair of samples shows more   *)
(* errors only if the agent counted one between them (CountInv, PairInv).  *)
(*                                                                         *)
(* Schedules: a time that ran is behind everything the table and the tick  *)
(* will run, unless the tick's commit was lost (RunsInv, TickInv).         *)
(***************************************************************************)
EXTENDS PowerControl, Sensors, Schedule, TLAPS, WellFoundedInduction, SequenceTheorems,
        FiniteSetTheorems

Flags == [exists: BOOLEAN, is_protected: BOOLEAN, is_held_off: BOOLEAN]

TypeInv ==
    /\ dev \in [Device -> Flags]
    /\ members \subseteq Device
    /\ queue \in [Device -> Seq(Command)]
    /\ DOMAIN txn = Thread
    /\ \A t \in Thread : \/ txn[t] = Idle
                         \/ /\ txn[t].op = "enqueue" /\ txn[t].req \in Request
                            /\ DOMAIN txn[t].seen \subseteq Device

\* The open transaction of thread t has read device d's row.
Holds(t, d) == txn[t].op = "enqueue" /\ d \in DOMAIN txn[t].seen

HolderInv ==
    \A t \in Thread, d \in Device \ raced : Holds(t, d) =>
        /\ txn[t].seen[d] <=> dev[d].is_held_off
        /\ ~LockedOut(d, txn[t].req)
        /\ \A u \in Thread : Holds(u, d) => u = t

IInv == TypeInv /\ HolderInv /\ HoldOffFollowsCommands

-----------------------------------------------------------------------------
(* The operators                                                           *)

USE PowerAssumption

\* The largest member of a bounded set of numbers is one of them.
LEMMA MaxOfNaturals ==
    ASSUME NEW n \in Nat, NEW S \in SUBSET (1 .. n), S # {}
    PROVE  Max(S) \in S /\ \A y \in S : Max(S) >= y
  <1> DEFINE R == {ss \in Nat \X Nat : ss[1] < ss[2]}
             T == {m \in Nat : n - m \in S}
  <1>1. OpToRel(<, Nat) = R
    BY DEF OpToRel
  <1>2. IsWellFoundedOn(R, Nat)
    BY <1>1, NatLessThanWellFounded, Zenon
  <1>3. T \in SUBSET Nat /\ T # {}
    <2>1. PICK x \in S : TRUE
      OBVIOUS
    <2>2. n - x \in Nat /\ n - (n - x) = x
      OBVIOUS
    <2> QED
      BY <2>1, <2>2
  <1> HIDE DEF R, T
  <1>4. PICK m \in T : \A k \in T : <<k, m>> \notin R
    BY <1>2, <1>3, WFMin
  <1>5. n - m \in S /\ m \in Nat
    BY <1>4 DEF T
  <1>6. \A y \in S : n - m >= y
    <2> SUFFICES ASSUME NEW y \in S, ~(n - m >= y) PROVE FALSE
      OBVIOUS
    <2>1. n - y \in Nat /\ n - (n - y) = y /\ n - y < m
      BY <1>5
    <2>2. n - y \in T
      BY <2>1 DEF T
    <2>3. <<n - y, m>> \in R
      BY <1>5, <2>1 DEF R
    <2> QED
      BY <1>4, <2>2, <2>3
  <1> QED
    BY <1>5, <1>6 DEF Max

\* The same with zero as the default.
LEMMA MaxWithZero ==
    ASSUME NEW n \in Nat, NEW S \in SUBSET (1 .. n), Max(S \cup {0}) # 0
    PROVE  Max(S \cup {0}) \in S
  <1>1. CASE S = {}
    <2>1. Max({0}) = 0
      BY DEF Max
    <2> QED
      BY <1>1, <2>1
  <1>2. CASE S # {}
    <2>1. PICK x \in S : \A y \in S : x >= y
      BY <1>2, MaxOfNaturals
    <2>2. \A y \in S \cup {0} : x >= y
      BY <2>1
    <2>3. Max(S \cup {0}) \in S \cup {0}
      BY <2>2 DEF Max
    <2> QED
      BY <2>3
  <1> QED
    BY <1>1, <1>2

LEMMA QueueShape ==
    ASSUME TypeInv, NEW d \in Device
    PROVE  /\ queue[d] \in Seq(Command) /\ Len(queue[d]) \in Nat /\ DOMAIN queue[d] = 1 .. Len(queue[d])
           /\ \A i \in 1 .. Len(queue[d]) : queue[d][i] \in Command
  BY DEF TypeInv

\* The same commands, whatever has become of them.
SameRequests(d) ==
    /\ Len(queue'[d]) = Len(queue[d]) /\ DOMAIN queue'[d] = DOMAIN queue[d]
    /\ \A i \in 1 .. Len(queue[d]) : queue'[d][i].req = queue[d][i].req

LEMMA SameDecider ==
    ASSUME TypeInv, NEW d \in Device, SameRequests(d)
    PROVE  HeldByCommand(d)' <=> HeldByCommand(d)
  <1>1. Len(queue[d]) \in Nat /\ DOMAIN queue[d] = 1 .. Len(queue[d])
    BY QueueShape
  <1>2. PICK S : S = Deciding(d)
    OBVIOUS
  <1>3. Deciding(d)' = S
    BY <1>1, <1>2 DEF Deciding, SameRequests
  <1>4. S \in SUBSET (1 .. Len(queue[d]))
    BY <1>1, <1>2 DEF Deciding
  <1>5. S # {} => Max(S) \in S
    BY <1>1, <1>4, MaxOfNaturals
  <1>6. S # {} => queue'[d][Max(S)].req = queue[d][Max(S)].req
    BY <1>4, <1>5 DEF SameRequests
  <1> QED
    BY <1>2, <1>3, <1>6 DEF HeldByCommand, Decider

\* A command is added: it decides, or the decision stands.
LEMMA NewDecider ==
    ASSUME TypeInv, NEW d \in Device, NEW c \in Command, queue'[d] = Append(queue[d], c)
    PROVE  /\ c.req.hold \/ c.req.type \in _POWER_ON_TYPES => (HeldByCommand(d)' <=> c.req.hold)
           /\ ~c.req.hold /\ c.req.type \notin _POWER_ON_TYPES => (HeldByCommand(d)' <=> HeldByCommand(d))
  <1>1. /\ Len(queue[d]) \in Nat /\ DOMAIN queue[d] = 1 .. Len(queue[d]) /\ queue[d] \in Seq(Command)
    BY QueueShape
  <1>2. PICK n \in Nat, S \in {Deciding(d)} : n = Len(queue[d]) /\ S = Deciding(d)
    BY <1>1
  <1>3. S \in SUBSET (1 .. n)
    BY <1>1, <1>2 DEF Deciding
  <1>4. /\ DOMAIN queue'[d] = 1 .. n + 1 /\ queue'[d][n + 1] = c
        /\ \A i \in 1 .. n : queue'[d][i] = queue[d][i]
    BY <1>1, <1>2
  <1>5. CASE c.req.hold \/ c.req.type \in _POWER_ON_TYPES
    <2>1. Deciding(d)' = S \cup {n + 1}
      <3>1. \A i : i \in 1 .. n + 1 <=> i \in 1 .. n \/ i = n + 1
        OBVIOUS
      <3> QED
        BY <1>1, <1>2, <1>4, <1>5, <3>1 DEF Deciding
    <2>2. PICK m : m = Max(S \cup {n + 1})
      OBVIOUS
    <2>3. m \in S \cup {n + 1} /\ \A y \in S \cup {n + 1} : m >= y
      <3>1. n + 1 \in Nat /\ S \cup {n + 1} \in SUBSET (1 .. n + 1)
        BY <1>3
      <3> QED
        BY <2>2, <3>1, MaxOfNaturals
    <2>4. m = n + 1
      BY <1>3, <2>3
    <2>5. Decider(d)' = c
      BY <1>4, <2>1, <2>2, <2>4 DEF Decider
    <2> QED
      BY <1>5, <2>1, <2>5 DEF HeldByCommand
  <1>6. CASE ~c.req.hold /\ c.req.type \notin _POWER_ON_TYPES
    <2>1. Deciding(d)' = S
      <3>1. \A i : i \in 1 .. n + 1 <=> i \in 1 .. n \/ i = n + 1
        OBVIOUS
      <3> QED
        BY <1>1, <1>2, <1>4, <1>6, <3>1 DEF Deciding
    <2>2. S # {} => Max(S) \in 1 .. n
      BY <1>3, MaxOfNaturals
    <2>3. S # {} => queue'[d][Max(S)] = queue[d][Max(S)]
      BY <1>4, <2>2
    <2> QED
      BY <1>2, <1>6, <2>1, <2>3 DEF HeldByCommand, Decider
  <1> QED
    BY <1>5, <1>6

LEMMA Marked ==
    ASSUME NEW c \in Command
    PROVE  MarkDelivered(c) \in Command /\ MarkDelivered(c).req = c.req
  <1>1. c.deliveries \in 0 .. 2
    BY DEF Command
  <1>2. PICK n : n = Min({2, c.deliveries + 1})
    OBVIOUS
  <1>3. n \in 0 .. 2
    <2>1. \E x \in {2, c.deliveries + 1} : \A y \in {2, c.deliveries + 1} : x <= y
      BY <1>1
    <2>2. n \in {2, c.deliveries + 1} /\ \A y \in {2, c.deliveries + 1} : n <= y
      BY <1>2, <2>1 DEF Min
    <2> QED
      BY <1>1, <2>2
  <1>4. MarkDelivered(c) = [c EXCEPT !.status = "accepted", !.deliveries = n]
    BY <1>2 DEF MarkDelivered
  <1> QED
    BY <1>3, <1>4 DEF Command

-----------------------------------------------------------------------------
(* What keeps the invariant                                                *)

\* The flag and the commands of a device no two requests raced for.
FlagKept(d) ==
    dev'[d].exists => /\ dev[d].exists /\ (dev'[d].is_held_off <=> dev[d].is_held_off)
                      /\ SameRequests(d)

LEMMA FlagStep ==
    ASSUME TypeInv, HoldOffFollowsCommands, raced \subseteq raced',
           \A d \in Device \ raced' : FlagKept(d)
    PROVE  HoldOffFollowsCommands'
  <1> SUFFICES ASSUME NEW d \in Device \ raced', dev'[d].exists
               PROVE  dev'[d].is_held_off <=> HeldByCommand(d)'
    BY DEF HoldOffFollowsCommands
  <1>1. dev[d].exists /\ (dev'[d].is_held_off <=> dev[d].is_held_off) /\ SameRequests(d)
    BY DEF FlagKept
  <1>2. dev[d].is_held_off <=> HeldByCommand(d)
    BY <1>1 DEF HoldOffFollowsCommands
  <1>3. HeldByCommand(d)' <=> HeldByCommand(d)
    BY <1>1, SameDecider
  <1> QED
    BY <1>1, <1>2, <1>3

\* What a holder read of the row.
RowKept(d) == /\ dev'[d].is_held_off <=> dev[d].is_held_off
              /\ dev'[d].is_protected <=> dev[d].is_protected

LEMMA HolderStep ==
    ASSUME HolderInv, raced \subseteq raced',
           \A t \in Thread : txn'[t] = txn[t] \/ txn'[t] = Idle,
           \A t \in Thread, d \in Device \ raced' : txn'[t] # Idle /\ Holds(t, d) => RowKept(d)
    PROVE  HolderInv'
  <1> SUFFICES ASSUME NEW t \in Thread, NEW d \in Device \ raced', Holds(t, d)'
               PROVE  /\ txn'[t].seen[d] <=> dev'[d].is_held_off
                      /\ ~LockedOut(d, txn[t].req)'
                      /\ \A u \in Thread : Holds(u, d)' => u = t
    BY DEF HolderInv
  <1>1. \A u \in Thread : Holds(u, d)' => txn'[u] = txn[u] /\ txn'[u] # Idle /\ Holds(u, d)
    BY DEF Holds, Idle
  <1>2. PICK x : x = txn[t] /\ x = txn'[t]
    BY <1>1
  <1>3. /\ x.seen[d] <=> dev[d].is_held_off
        /\ ~LockedOut(d, x.req)
        /\ \A u \in Thread : Holds(u, d) => u = t
    BY <1>1, <1>2 DEF HolderInv
  <1>4. /\ dev'[d].is_held_off <=> dev[d].is_held_off
        /\ dev'[d].is_protected <=> dev[d].is_protected
    BY <1>1 DEF RowKept
  <1>5. ~LockedOut(d, x.req)'
    BY <1>3, <1>4 DEF LockedOut
  <1> QED
    BY <1>1, <1>2, <1>3, <1>4, <1>5

NothingInserted == \A d \in Device : ~Inserts(d)

\* A step that only moves the commands of one device along.
LEMMA RowsMove ==
    ASSUME IInv, NEW d \in Device, NEW q \in Seq(Command), queue' = [queue EXCEPT ![d] = q],
           Len(q) = Len(queue[d]), \A i \in 1 .. Len(q) : q[i].req = queue[d][i].req,
           UNCHANGED <<dev, members, txn, raced>>
    PROVE  IInv' /\ NothingInserted
  <1> USE DEF IInv
  <1>1. /\ queue' \in [Device -> Seq(Command)] /\ queue'[d] = q
        /\ \A e \in Device : e # d => queue'[e] = queue[e]
    BY DEF TypeInv
  <1>2. TypeInv'
    BY <1>1 DEF TypeInv
  <1>3. ASSUME NEW e \in Device PROVE SameRequests(e) /\ ~Inserts(e)
    <2>1. Len(queue[e]) \in Nat /\ DOMAIN queue[e] = 1 .. Len(queue[e])
      BY QueueShape
    <2>2. CASE e = d
      <3>1. DOMAIN q = 1 .. Len(q)
        OBVIOUS
      <3> QED
        BY <1>1, <2>1, <2>2, <3>1 DEF SameRequests, Inserts
    <2>3. CASE e # d
      BY <1>1, <2>1, <2>3 DEF SameRequests, Inserts
    <2> QED
      BY <2>2, <2>3
  <1>4. HoldOffFollowsCommands'
    BY <1>3, FlagStep DEF FlagKept
  <1>5. HolderInv'
    BY HolderStep DEF RowKept
  <1> QED
    BY <1>2, <1>3, <1>4, <1>5 DEF NothingInserted

LEMMA QueueSame ==
    ASSUME TypeInv, UNCHANGED queue
    PROVE  NothingInserted /\ \A d \in Device : SameRequests(d)
  <1> SUFFICES ASSUME NEW d \in Device PROVE SameRequests(d) /\ ~Inserts(d)
    BY DEF NothingInserted
  <1>1. Len(queue[d]) \in Nat
    BY QueueShape
  <1> QED
    BY <1>1 DEF SameRequests, Inserts

-----------------------------------------------------------------------------
(* The steps                                                               *)

\* Nothing of what the invariant is about is written, and transactions may
\* be dropped.
LEMMA BystanderStep ==
    ASSUME IInv, UNCHANGED <<dev, queue, raced>>, members' \subseteq Device, DOMAIN txn' = Thread,
           \A t \in Thread : txn'[t] = txn[t] \/ txn'[t] = Idle
    PROVE  IInv' /\ NothingInserted
  <1> USE DEF IInv
  <1>1. TypeInv'
    BY DEF TypeInv
  <1>2. NothingInserted /\ \A d \in Device : SameRequests(d)
    BY QueueSame
  <1>3. HoldOffFollowsCommands'
    BY <1>2, FlagStep DEF FlagKept
  <1>4. HolderInv'
    BY HolderStep DEF RowKept
  <1> QED
    BY <1>1, <1>2, <1>3, <1>4

\* A transaction reads the rows of its targets, none of them locked out.
LEMMA BeginStep ==
    ASSUME IInv, NEW t \in Thread, NEW req \in Request, NEW targets \in SUBSET Device,
           Begin(t, req, targets), \A d \in targets : ~LockedOut(d, req)
    PROVE  IInv' /\ NothingInserted
  <1> USE DEF IInv
  <1>1. PICK seen, x : /\ seen = [d \in targets |-> dev[d].is_held_off]
                       /\ x = [op |-> "enqueue", req |-> req, seen |-> seen]
    OBVIOUS
  <1>2. /\ txn' = [txn EXCEPT ![t] = x] /\ txn[t] = Idle
        /\ raced' = raced \cup {d \in targets : Held(d)}
        /\ UNCHANGED <<dev, members, queue>>
    BY <1>1 DEF Begin
  <1>3. /\ DOMAIN txn' = Thread /\ txn'[t] = x
        /\ \A u \in Thread : u # t => txn'[u] = txn[u]
    BY <1>2 DEF TypeInv
  <1>4. x.op = "enqueue" /\ x.req = req /\ x.seen = seen /\ DOMAIN seen = targets
    BY <1>1
  <1>5. TypeInv'
    BY <1>2, <1>3, <1>4 DEF TypeInv
  <1>6. NothingInserted /\ \A d \in Device : SameRequests(d)
    BY <1>2, QueueSame
  <1>7. HoldOffFollowsCommands'
    BY <1>2, <1>6, FlagStep DEF FlagKept
  <1>8. HolderInv'
    <2> SUFFICES ASSUME NEW v \in Thread, NEW d \in Device \ raced', Holds(v, d)'
                 PROVE  /\ txn'[v].seen[d] <=> dev'[d].is_held_off
                        /\ ~LockedOut(d, txn[v].req)'
                        /\ \A u \in Thread : Holds(u, d)' => u = v
      BY DEF HolderInv
    <2>1. d \in targets => ~Held(d)
      BY <1>2
    <2>2. CASE d \in targets
      <3>1. \A u \in Thread : ~Holds(u, d)
        BY <2>1, <2>2 DEF Held, Holds
      <3>2. \A u \in Thread : Holds(u, d)' => u = t
        BY <3>1, <1>3 DEF Holds
      <3>3. v = t
        BY <3>2
      <3>4. seen[d] <=> dev'[d].is_held_off
        BY <1>1, <1>2, <2>2
      <3>5. ~LockedOut(d, x.req)'
        BY <1>2, <1>4, <2>2 DEF LockedOut
      <3> QED
        BY <3>2, <3>3, <3>4, <3>5, <1>3, <1>4
    <2>3. CASE d \notin targets
      <3>1. \A u \in Thread : Holds(u, d)' => u # t /\ txn'[u] = txn[u] /\ Holds(u, d)
        BY <2>3, <1>3, <1>4 DEF Holds
      <3>2. PICK y : y = txn[v] /\ y = txn'[v]
        BY <3>1
      <3>3. d \in Device \ raced
        BY <1>2
      <3>4. /\ y.seen[d] <=> dev[d].is_held_off
            /\ ~LockedOut(d, y.req)
            /\ \A u \in Thread : Holds(u, d) => u = v
        BY <3>1, <3>2, <3>3 DEF HolderInv
      <3>5. ~LockedOut(d, y.req)'
        BY <1>2, <3>4 DEF LockedOut
      <3> QED
        BY <1>2, <3>1, <3>2, <3>4, <3>5
    <2> QED
      BY <2>2, <2>3
  <1> QED
    BY <1>5, <1>6, <1>7, <1>8

LEMMA enqueue_for_deviceStep ==
    ASSUME IInv, NEW t \in Thread, NEW d \in Device, NEW req \in Request, enqueue_for_device(t, d, req)
    PROVE  IInv' /\ NothingInserted
  BY BeginStep DEF enqueue_for_device

LEMMA enqueue_for_groupStep ==
    ASSUME IInv, NEW t \in Thread, NEW req \in Request, enqueue_for_group(t, req)
    PROVE  IInv' /\ NothingInserted
  <1>1. PICK targets : targets = {d \in members : dev[d].exists /\ ~LockedOut(d, req)}
    OBVIOUS
  <1>2. targets \in SUBSET Device /\ \A d \in targets : ~LockedOut(d, req)
    BY <1>1 DEF IInv, TypeInv
  <1>3. Begin(t, req, targets)
    BY <1>1 DEF enqueue_for_group
  <1> QED
    BY <1>2, <1>3, BeginStep

LEMMA OperatorRequestOK == OperatorRequest \subseteq Request
  BY DEF OperatorRequest, Request

LEMMA AutomationRequestOK ==
    ASSUME NEW req \in AutomationRequest, req.type \in Type
    PROVE  req \in Request
  <1>1. CASE req = [type |-> "relay_off", override |-> FALSE, hold |-> TRUE, by |-> "automation"]
    BY <1>1 DEF Request
  <1>2. CASE req \in [type: {"relay_on", "relay_off", "relay_cycle"}, override: {FALSE}, hold: {FALSE},
                      by: {"automation"}]
    BY <1>2 DEF Request
  <1> QED
    BY <1>1, <1>2 DEF AutomationRequest

LEMMA update_deviceStep ==
    ASSUME IInv, NEW t \in Thread, NEW d \in Device, NEW b \in BOOLEAN, update_device(t, d, b)
    PROVE  IInv' /\ NothingInserted
  <1> USE DEF IInv
  <1>1. PICK f : f = [dev[d] EXCEPT !.is_protected = b]
    OBVIOUS
  <1>2. /\ dev' = [dev EXCEPT ![d] = f] /\ raced' = raced \cup {e \in {d} : Held(e)}
        /\ UNCHANGED <<members, queue, txn>>
    BY <1>1 DEF update_device
  <1>3. dev[d] \in Flags
    BY DEF TypeInv
  <1>4. /\ f \in Flags /\ (f.exists <=> dev[d].exists) /\ (f.is_held_off <=> dev[d].is_held_off)
    BY <1>1, <1>3 DEF Flags
  <1>5. /\ dev' \in [Device -> Flags] /\ dev'[d] = f
        /\ \A e \in Device : e # d => dev'[e] = dev[e]
    BY <1>2, <1>4 DEF TypeInv
  <1>6. TypeInv'
    BY <1>2, <1>5 DEF TypeInv
  <1>7. NothingInserted /\ \A e \in Device : SameRequests(e)
    BY <1>2, QueueSame
  <1>8. HoldOffFollowsCommands'
    BY <1>2, <1>4, <1>5, <1>7, FlagStep DEF FlagKept
  <1>9. \A u \in Thread, e \in Device \ raced' : Holds(u, e) => RowKept(e)
    <2> SUFFICES ASSUME NEW u \in Thread, NEW e \in Device \ raced', Holds(u, e) PROVE RowKept(e)
      OBVIOUS
    <2>1. Held(e)
      BY DEF Held, Holds
    <2>2. e # d
      BY <1>2, <2>1
    <2> QED
      BY <1>5, <2>2 DEF RowKept
  <1>10. HolderInv'
    BY <1>2, <1>9, HolderStep
  <1> QED
    BY <1>6, <1>7, <1>8, <1>10

LEMMA delete_deviceStep ==
    ASSUME IInv, NEW t \in Thread, NEW d \in Device, delete_device(t, d)
    PROVE  IInv' /\ NothingInserted
  <1> USE DEF IInv
  <1>1. PICK f : f = [dev[d] EXCEPT !.exists = FALSE]
    OBVIOUS
  <1>2. /\ dev' = [dev EXCEPT ![d] = f] /\ queue' = [queue EXCEPT ![d] = <<>>]
        /\ members' = members \ {d} /\ UNCHANGED <<txn, raced>>
    BY <1>1 DEF delete_device
  <1>3. dev[d] \in Flags
    BY DEF TypeInv
  <1>4. /\ f \in Flags /\ ~f.exists /\ (f.is_held_off <=> dev[d].is_held_off)
        /\ (f.is_protected <=> dev[d].is_protected)
    BY <1>1, <1>3 DEF Flags
  <1>5. /\ dev' \in [Device -> Flags] /\ dev'[d] = f
        /\ \A e \in Device : e # d => dev'[e] = dev[e]
    BY <1>2, <1>4 DEF TypeInv
  <1>6. /\ queue' \in [Device -> Seq(Command)] /\ queue'[d] = <<>>
        /\ \A e \in Device : e # d => queue'[e] = queue[e]
    BY <1>2 DEF TypeInv
  <1>7. TypeInv'
    BY <1>2, <1>5, <1>6 DEF TypeInv
  <1>8. ASSUME NEW e \in Device PROVE ~Inserts(e) /\ (e # d => SameRequests(e))
    <2>1. Len(queue[e]) \in Nat
      BY QueueShape
    <2>2. CASE e = d
      BY <1>6, <2>1, <2>2 DEF Inserts
    <2>3. CASE e # d
      BY <1>6, <2>1, <2>3 DEF Inserts, SameRequests
    <2> QED
      BY <2>2, <2>3
  <1>9. HoldOffFollowsCommands'
    BY <1>2, <1>4, <1>5, <1>8, FlagStep DEF FlagKept
  <1>10. HolderInv'
    BY <1>2, <1>4, <1>5, HolderStep DEF RowKept
  <1> QED
    BY <1>7, <1>8, <1>9, <1>10 DEF NothingInserted

\* One row gets another status.
LEMMA StatusStep ==
    ASSUME IInv, NEW d \in Device, NEW i \in DOMAIN queue[d], NEW s \in {"expired", "cancelled"},
           queue' = [queue EXCEPT ![d][i].status = s], UNCHANGED <<dev, members, txn, raced>>
    PROVE  IInv' /\ NothingInserted
  <1>1. /\ queue[d] \in Seq(Command) /\ Len(queue[d]) \in Nat /\ DOMAIN queue[d] = 1 .. Len(queue[d])
        /\ queue[d][i] \in Command
    BY QueueShape DEF IInv
  <1>2. PICK c, q : c = [queue[d][i] EXCEPT !.status = s] /\ q = [queue[d] EXCEPT ![i] = c]
    OBVIOUS
  <1>3. queue' = [queue EXCEPT ![d] = q]
    BY <1>2
  <1>4. c \in Command /\ c.req = queue[d][i].req
    BY <1>1, <1>2 DEF Command
  <1>5. q \in Seq(Command) /\ Len(q) = Len(queue[d]) /\ \A k \in 1 .. Len(q) : q[k].req = queue[d][k].req
    BY <1>1, <1>2, <1>4
  <1> QED
    BY <1>3, <1>5, RowsMove

LEMMA cancelStep ==
    ASSUME IInv, NEW t \in Thread, NEW d \in Device, NEW i \in DOMAIN queue[d],
           cancel_pending_command(t, d, i)
    PROVE  IInv' /\ NothingInserted
  BY StatusStep DEF cancel_pending_command

LEMMA expireStep ==
    ASSUME IInv, NEW d \in Device, NEW i \in DOMAIN queue[d], expire_overdue_commands(d, i)
    PROVE  IInv' /\ NothingInserted
  BY StatusStep DEF expire_overdue_commands

\* The rows of a device are replaced one by one.
LEMMA Rewritten ==
    ASSUME IInv, NEW d \in Device, NEW q, q = [i \in 1 .. Len(queue[d]) |-> q[i]],
           \A i \in 1 .. Len(queue[d]) : q[i] \in Command /\ q[i].req = queue[d][i].req,
           queue' = [queue EXCEPT ![d] = q], UNCHANGED <<dev, members, txn, raced>>
    PROVE  IInv' /\ NothingInserted
  <1>1. Len(queue[d]) \in Nat
    BY QueueShape DEF IInv
  <1>2. q \in [1 .. Len(queue[d]) -> Command]
    OBVIOUS
  <1>3. q \in Seq(Command) /\ Len(q) = Len(queue[d])
    BY <1>1, <1>2
  <1> QED
    BY <1>3, RowsMove

LEMMA delivery_lostStep ==
    ASSUME IInv, NEW d \in Device, NEW rows, delivery_lost(d, rows)
    PROVE  IInv' /\ NothingInserted
  <1>1. PICK q : q = [i \in DOMAIN queue[d] |-> IF i \in rows THEN MarkDelivered(queue[d][i]) ELSE queue[d][i]]
    OBVIOUS
  <1>2. queue' = [queue EXCEPT ![d] = q] /\ UNCHANGED <<dev, members, txn, raced>>
    BY <1>1 DEF delivery_lost
  <1>3. DOMAIN queue[d] = 1 .. Len(queue[d]) /\ \A i \in 1 .. Len(queue[d]) : queue[d][i] \in Command
    BY QueueShape DEF IInv
  <1>4. q = [i \in 1 .. Len(queue[d]) |-> q[i]]
    BY <1>1, <1>3
  <1>5. \A i \in 1 .. Len(queue[d]) : q[i] \in Command /\ q[i].req = queue[d][i].req
    BY <1>1, <1>3, Marked
  <1> QED
    BY <1>2, <1>4, <1>5, Rewritten

LEMMA deliveryStep ==
    ASSUME IInv, NEW d \in Device, NEW rows, NEW reported, delivery(d, rows, reported)
    PROVE  IInv' /\ NothingInserted
  <1> DEFINE NewRow(i) == IF i \notin rows THEN queue[d][i]
                       ELSE [MarkDelivered(queue[d][i]) EXCEPT
                               !.executed = TRUE,
                               !.status = IF i \in reported THEN "reported" ELSE @]
  <1>1. PICK q : q = [i \in DOMAIN queue[d] |-> NewRow(i)]
    OBVIOUS
  <1>2. queue' = [queue EXCEPT ![d] = q] /\ UNCHANGED <<dev, members, txn, raced>>
    BY <1>1 DEF delivery
  <1>3. DOMAIN queue[d] = 1 .. Len(queue[d]) /\ \A i \in 1 .. Len(queue[d]) : queue[d][i] \in Command
    BY QueueShape DEF IInv
  <1>4. q = [i \in 1 .. Len(queue[d]) |-> q[i]]
    BY <1>1, <1>3
  <1>5. ASSUME NEW i \in 1 .. Len(queue[d])
        PROVE  q[i] \in Command /\ q[i].req = queue[d][i].req
    <2>1. q[i] = NewRow(i)
      BY <1>1, <1>3
    <2>2. PICK c : c = MarkDelivered(queue[d][i])
      OBVIOUS
    <2>3. c \in Command /\ c.req = queue[d][i].req
      BY <1>3, <2>2, Marked
    <2>4. CASE i \in rows
      <3>1. PICK s \in {"reported", c.status} :
              q[i] = [c EXCEPT !.executed = TRUE, !.status = s]
        BY <2>1, <2>2, <2>4
      <3>2. s \in {"pending", "accepted", "reported", "expired", "cancelled"}
        BY <2>3, <3>1 DEF Command
      <3> QED
        BY <2>3, <3>1, <3>2 DEF Command
    <2>5. CASE i \notin rows
      BY <1>3, <2>1, <2>5
    <2> QED
      BY <2>4, <2>5
  <1> QED
    BY <1>2, <1>4, <1>5, Rewritten

\* What LockoutHolds says of one step.
LockoutKept ==
    \A d \in Device \ raced :
        Inserts(d) /\ dev[d].is_protected /\ Inserted(d).req.type \in _POWER_TYPES => Inserted(d).req.override

\* The device's row is gone: everything is rolled back.
LEMMA RollbackStep ==
    ASSUME IInv, NEW t \in Thread, txn' = [txn EXCEPT ![t] = Idle], UNCHANGED <<dev, members, queue, raced>>
    PROVE  IInv' /\ NothingInserted
  <1>1. DOMAIN txn' = Thread /\ \A u \in Thread : txn'[u] = txn[u] \/ txn'[u] = Idle
    BY DEF IInv, TypeInv
  <1>2. members' \subseteq Device
    BY DEF IInv, TypeInv
  <1> QED
    BY <1>1, <1>2, BystanderStep

\* The commands are inserted and the flags written as they were read.
LEMMA InsertStep ==
    ASSUME IInv, NEW t \in Thread, enqueue_commit(t), \A d \in DOMAIN txn[t].seen : dev[d].exists
    PROVE  IInv' /\ LockoutKept
  <1> USE DEF IInv
  <1>1. PICK x, targets : x = txn[t] /\ targets = DOMAIN x.seen
    OBVIOUS
  <1>2. /\ x.op = "enqueue" /\ txn' = [txn EXCEPT ![t] = Idle] /\ UNCHANGED <<members, raced>>
        /\ queue' = [d \in Device |-> IF d \in targets THEN Append(queue[d], NewCommand(x.req)) ELSE queue[d]]
        /\ dev' = [d \in Device |-> IF d \in targets
                                    THEN [dev[d] EXCEPT !.is_held_off = HeldOff(d, x.seen[d], x.req)]
                                    ELSE dev[d]]
    BY <1>1 DEF enqueue_commit
  <1>3. x.req \in Request /\ targets \subseteq Device
    BY <1>1, <1>2 DEF TypeInv, Idle
  <1>4. PICK c : c = NewCommand(x.req)
    OBVIOUS
  <1>5. c \in Command /\ c.req = x.req
    BY <1>3, <1>4 DEF NewCommand, Command
  <1>6. \A d \in Device : /\ d \in targets => queue'[d] = Append(queue[d], c)
                          /\ d \notin targets => queue'[d] = queue[d] /\ dev'[d] = dev[d]
    BY <1>2, <1>4
  <1>7. ASSUME NEW d \in targets
        PROVE  /\ dev'[d] \in Flags /\ (dev'[d].exists <=> dev[d].exists)
               /\ dev'[d].is_held_off <=> HeldOff(d, x.seen[d], x.req)
    <2>1. dev[d] \in Flags /\ d \in Device
      BY <1>3 DEF TypeInv
    <2>2. HeldOff(d, x.seen[d], x.req) \in BOOLEAN
      BY <2>1 DEF HeldOff, Flags
    <2>3. PICK b \in BOOLEAN : b = HeldOff(d, x.seen[d], x.req)
      BY <2>2
    <2>4. dev'[d] = [dev[d] EXCEPT !.is_held_off = b]
      BY <1>2, <2>1, <2>3
    <2> QED
      BY <2>1, <2>3, <2>4 DEF Flags
  <1>8. ASSUME NEW d \in Device
        PROVE  queue'[d] \in Seq(Command) /\ dev'[d] \in Flags
    <2>1. CASE d \in targets
      <3>1. queue[d] \in Seq(Command) /\ queue'[d] = Append(queue[d], c)
        BY <1>6, <2>1, QueueShape
      <3>2. queue'[d] \in Seq(Command)
        BY <1>5, <3>1
      <3> QED
        BY <1>7, <2>1, <3>2
    <2>2. CASE d \notin targets
      BY <1>6, <2>2 DEF TypeInv
    <2> QED
      BY <2>1, <2>2
  <1>9. dev' \in [Device -> Flags] /\ queue' \in [Device -> Seq(Command)]
    BY <1>2, <1>8
  <1>10. DOMAIN txn' = Thread /\ txn'[t] = Idle /\ \A u \in Thread : u # t => txn'[u] = txn[u]
    BY <1>2 DEF TypeInv
  <1>11. TypeInv'
    BY <1>2, <1>9, <1>10 DEF TypeInv
  <1>12. ASSUME NEW d \in targets, d \notin raced
         PROVE  /\ x.seen[d] <=> dev[d].is_held_off
                /\ ~LockedOut(d, x.req)
                /\ \A u \in Thread : Holds(u, d) => u = t
    BY <1>1, <1>2, <1>3, <1>12 DEF HolderInv, Holds
  <1>13. HolderInv'
    <2>1. ASSUME NEW u \in Thread, NEW d \in Device \ raced', txn'[u] # Idle, Holds(u, d)
          PROVE  RowKept(d)
      <3>1. d \notin targets
        BY <1>2, <1>10, <1>12, <2>1
      <3> QED
        BY <1>6, <3>1 DEF RowKept
    <2> QED
      BY <1>2, <1>10, <2>1, HolderStep
  <1>14. HoldOffFollowsCommands'
    <2> SUFFICES ASSUME NEW d \in Device \ raced, dev'[d].exists
                 PROVE  dev'[d].is_held_off <=> HeldByCommand(d)'
      BY <1>2 DEF HoldOffFollowsCommands
    <2>1. CASE d \notin targets
      <3>1. queue'[d] = queue[d] /\ dev'[d] = dev[d]
        BY <1>6, <2>1
      <3>2. SameRequests(d)
        BY <3>1 DEF SameRequests
      <3> QED
        BY <3>1, <3>2, SameDecider DEF HoldOffFollowsCommands
    <2>2. CASE d \in targets
      <3>1. dev[d].is_held_off <=> HeldByCommand(d)
        BY <1>7, <2>2 DEF HoldOffFollowsCommands
      <3>2. x.seen[d] <=> dev[d].is_held_off
        BY <1>12, <2>2
      <3>3. dev'[d].is_held_off <=> HeldOff(d, x.seen[d], x.req)
        BY <1>7, <2>2
      <3>4. queue'[d] = Append(queue[d], c)
        BY <1>6, <2>2
      <3>5. CASE x.req.hold
        <4>1. HeldByCommand(d)'
          BY <1>5, <3>4, <3>5, NewDecider
        <4>2. HeldOff(d, x.seen[d], x.req)
          BY <3>2, <3>5 DEF HeldOff
        <4> QED
          BY <3>3, <4>1, <4>2
      <3>6. CASE ~x.req.hold /\ x.req.type \in _POWER_ON_TYPES
        <4>1. ~HeldByCommand(d)'
          BY <1>5, <3>4, <3>6, NewDecider
        <4>2. ~HeldOff(d, x.seen[d], x.req)
          BY <3>2, <3>6 DEF HeldOff
        <4> QED
          BY <3>3, <4>1, <4>2
      <3>7. CASE ~x.req.hold /\ x.req.type \notin _POWER_ON_TYPES
        <4>1. HeldByCommand(d)' <=> HeldByCommand(d)
          BY <1>5, <3>4, <3>7, NewDecider
        <4>2. HeldOff(d, x.seen[d], x.req) <=> dev[d].is_held_off
          BY <3>7 DEF HeldOff
        <4> QED
          BY <3>1, <3>3, <4>1, <4>2
      <3> QED
        BY <3>5, <3>6, <3>7
    <2> QED
      BY <2>1, <2>2
  <1>15. LockoutKept
    <2> SUFFICES ASSUME NEW d \in Device \ raced, Inserts(d), dev[d].is_protected,
                        Inserted(d).req.type \in _POWER_TYPES
                 PROVE  Inserted(d).req.override
      BY DEF LockoutKept
    <2>1. queue[d] \in Seq(Command) /\ Len(queue[d]) \in Nat
      BY QueueShape
    <2>2. d \in targets
      BY <1>6, <2>1 DEF Inserts
    <2>3. queue'[d] = Append(queue[d], c)
      BY <1>6, <2>2
    <2>4. Inserted(d) = c
      BY <1>5, <2>1, <2>3 DEF Inserted
    <2> QED
      BY <1>5, <1>12, <2>2, <2>4 DEF LockedOut
  <1> QED
    BY <1>11, <1>13, <1>14, <1>15

LEMMA NothingPasses == NothingInserted => LockoutKept
  BY DEF NothingInserted, LockoutKept

LEMMA enqueue_commitStep ==
    ASSUME IInv, NEW t \in Thread, enqueue_commit(t)
    PROVE  IInv' /\ LockoutKept
  <1>1. CASE \A d \in DOMAIN txn[t].seen : dev[d].exists
    BY <1>1, InsertStep
  <1>2. CASE ~\A d \in DOMAIN txn[t].seen : dev[d].exists
    <2>1. txn' = [txn EXCEPT ![t] = Idle] /\ UNCHANGED <<dev, members, queue, raced>>
      BY <1>2 DEF enqueue_commit
    <2> QED
      BY <2>1, RollbackStep, NothingPasses
  <1> QED
    BY <1>1, <1>2

-----------------------------------------------------------------------------
(* The theorems                                                            *)

LEMMA InitInv ==
    ASSUME Init
    PROVE  IInv
  <1>1. TypeInv
    BY DEF Init, TypeInv, Flags
  <1>2. HolderInv
    BY DEF Init, HolderInv, Holds, Idle
  <1>3. \A d \in Device : Deciding(d) = {} /\ ~dev[d].is_held_off
    BY DEF Init, Deciding
  <1>4. HoldOffFollowsCommands
    BY <1>3 DEF HoldOffFollowsCommands, HeldByCommand
  <1> QED
    BY <1>1, <1>2, <1>4 DEF IInv

LEMMA NextStep ==
    ASSUME IInv, Next
    PROVE  IInv' /\ LockoutKept
  <1>0. ASSUME IInv' /\ NothingInserted PROVE IInv' /\ LockoutKept
    BY <1>0, NothingPasses
  <1>1. ASSUME NEW t \in Thread, send_device_command(t) PROVE IInv' /\ LockoutKept
    BY <1>0, <1>1, OperatorRequestOK, enqueue_for_deviceStep DEF send_device_command
  <1>2. ASSUME NEW t \in Thread, send_group_command(t) PROVE IInv' /\ LockoutKept
    BY <1>0, <1>2, OperatorRequestOK, enqueue_for_groupStep DEF send_group_command
  <1>3. ASSUME NEW t \in Thread, automation_fires(t) PROVE IInv' /\ LockoutKept
    BY <1>0, <1>3, AutomationRequestOK, enqueue_for_deviceStep DEF automation_fires
  <1>4. ASSUME NEW t \in Thread, NEW d \in Device, add_members(t, d) \/ remove_member(t, d)
        PROVE  IInv' /\ LockoutKept
    <2>1. /\ UNCHANGED <<dev, queue, raced, txn>> /\ members' \subseteq Device /\ DOMAIN txn = Thread
      BY <1>4 DEF add_members, remove_member, IInv, TypeInv
    <2> QED
      BY <1>0, <2>1, BystanderStep
  <1>5. ASSUME HubRestart PROVE IInv' /\ LockoutKept
    <2>1. /\ UNCHANGED <<dev, queue, raced>> /\ members' \subseteq Device /\ DOMAIN txn' = Thread
          /\ \A t \in Thread : txn'[t] = Idle
      BY <1>5 DEF HubRestart, IInv, TypeInv
    <2> QED
      BY <1>0, <2>1, BystanderStep
  <1>6. ASSUME NEW t \in Thread, NEW d \in Device,
               \/ \E b \in BOOLEAN : update_device(t, d, b)
               \/ delete_device(t, d)
               \/ \E i \in DOMAIN queue[d] : cancel_pending_command(t, d, i)
        PROVE  IInv' /\ LockoutKept
    BY <1>0, <1>6, update_deviceStep, delete_deviceStep, cancelStep
  <1>7. ASSUME NEW d \in Device,
               \/ \E rows \in Offered(d) :
                     \/ delivery_lost(d, rows)
                     \/ \E reported \in SUBSET rows : delivery(d, rows, reported)
               \/ \E i \in DOMAIN queue[d] : expire_overdue_commands(d, i)
        PROVE  IInv' /\ LockoutKept
    BY <1>0, <1>7, delivery_lostStep, deliveryStep, expireStep
  <1> QED
    BY <1>1, <1>2, <1>3, <1>4, <1>5, <1>6, <1>7, enqueue_commitStep DEF Next

\* Every state reached satisfies the invariant above, whatever the number of
\* devices, threads and commands.
THEOREM PowerInvariant == Spec => []IInv
  <1>1. Init => IInv
    BY InitInv
  <1>2. IInv /\ [Next]_vars => IInv'
    <2> SUFFICES ASSUME IInv, [Next]_vars PROVE IInv'
      OBVIOUS
    <2>1. CASE Next
      BY <2>1, NextStep
    <2>2. CASE UNCHANGED vars
      <3>1. /\ UNCHANGED <<dev, queue, raced>> /\ members' \subseteq Device /\ DOMAIN txn' = Thread
            /\ \A t \in Thread : txn'[t] = txn[t]
        BY <2>2 DEF vars, IInv, TypeInv
      <3> QED
        BY <3>1, BystanderStep
    <2> QED
      BY <2>1, <2>2
  <1> QED
    BY <1>1, <1>2, PTL DEF Spec

\* For a device no two requests overlapped on, is_held_off says whether the
\* newest of its hold-offs and power-ons is a hold-off, whoever sent them
\* (enqueue_for_device, enqueue_for_group).
THEOREM FlagFollowsCommands == Spec => []HoldOffFollowsCommands
  <1>1. IInv => HoldOffFollowsCommands
    BY DEF IInv
  <1> QED
    BY <1>1, PowerInvariant, PTL

\* No step inserts a power command for a protected device without
\* override_lockout, unless an edit of the device overlapped the request
\* (DeviceLockedError, and the members the fan-out skips).
THEOREM LockoutIsKept == Spec => LockoutHolds
  <1>1. IInv /\ [Next]_vars =>
          [\A d \in Device \ raced :
             Inserts(d) /\ dev[d].is_protected /\ Inserted(d).req.type \in _POWER_TYPES
                 => Inserted(d).req.override]_vars
    <2> SUFFICES ASSUME IInv, Next PROVE LockoutKept
      BY DEF LockoutKept
    <2> QED
      BY NextStep
  <1> QED
    BY <1>1, PowerInvariant, PTL DEF Spec, LockoutHolds

-----------------------------------------------------------------------------
(* The order of deliveries                                                 *)

\* How far a row has come agrees with its deliveries.
RowProgress(c) ==
    /\ c.status = "pending" => c.deliveries = 0
    /\ c.status = "accepted" => c.deliveries > 0
    /\ c.executed => c.deliveries > 0

\* No row was handed off before one that is still pending.
InOrder(q) ==
    \A i \in DOMAIN q :
        /\ RowProgress(q[i])
        /\ \A j \in DOMAIN q : i < j /\ q[j].deliveries > 0 => q[i].status # "pending"

ProgressInv ==
    /\ DOMAIN relay = Device
    /\ \A d \in Device : InOrder(queue[d])

LEMMA MarkedOnce ==
    ASSUME NEW c \in Command
    PROVE  /\ MarkDelivered(c).status = "accepted" /\ MarkDelivered(c).executed = c.executed
           /\ MarkDelivered(c).deliveries > 0
           /\ MarkDelivered(c).deliveries = 1 => c.deliveries = 0
           /\ MarkDelivered(c).deliveries \in Nat
  <1>1. c.deliveries \in 0 .. 2
    BY DEF Command
  <1>2. PICK n : n = Min({2, c.deliveries + 1})
    OBVIOUS
  <1>3. n \in {2, c.deliveries + 1} /\ \A y \in {2, c.deliveries + 1} : n <= y
    <2>1. \E x \in {2, c.deliveries + 1} : \A y \in {2, c.deliveries + 1} : x <= y
      BY <1>1
    <2> QED
      BY <1>2, <2>1 DEF Min
  <1>4. MarkDelivered(c) = [c EXCEPT !.status = "accepted", !.deliveries = n]
    BY <1>2 DEF MarkDelivered
  <1> QED
    BY <1>1, <1>3, <1>4 DEF Command

\* All pending rows are in the response.
LEMMA DeliveredInOrder ==
    ASSUME TypeInv, NEW d \in Device, NEW rows \in Offered(d), InOrder(queue[d]),
           NEW q, DOMAIN q = DOMAIN queue[d],
           \A i \in DOMAIN q : /\ i \notin rows => q[i] = queue[d][i]
                               /\ i \in rows => /\ q[i].status \in {"accepted", "reported"}
                                                /\ q[i].deliveries > 0 /\ q[i].deliveries \in Nat
    PROVE  InOrder(q)
  <1>1. \A i \in DOMAIN queue[d] : queue[d][i].status = "pending" => i \in rows
    BY DEF Offered, LiveRows, Live
  <1> QED
    BY <1>1 DEF InOrder, RowProgress

LEMMA ProgressStep ==
    ASSUME IInv, ProgressInv, Next
    PROVE  ProgressInv'
  <1>0. TypeInv /\ DOMAIN queue = Device /\ DOMAIN relay = Device /\ \A d \in Device : InOrder(queue[d])
    BY DEF IInv, TypeInv, ProgressInv
  <1>1. CASE UNCHANGED <<queue, relay>>
    BY <1>1 DEF ProgressInv, InOrder, RowProgress
  <1>2. ASSUME NEW d \in Device, NEW i \in DOMAIN queue[d], NEW s \in {"expired", "cancelled"},
               queue' = [queue EXCEPT ![d][i].status = s], UNCHANGED relay
        PROVE  ProgressInv'
    <2>1. /\ queue[d] \in Seq(Command) /\ queue[d][i] \in Command
          /\ DOMAIN queue[d] = 1 .. Len(queue[d])
      BY <1>0, QueueShape
    <2>2. PICK c, q : c = [queue[d][i] EXCEPT !.status = s] /\ q = [queue[d] EXCEPT ![i] = c]
      OBVIOUS
    <2>3. queue'[d] = q /\ \A e \in Device \ {d} : queue'[e] = queue[e]
      BY <1>0, <1>2, <2>2
    <2>4. /\ c.status = s /\ c.executed = queue[d][i].executed
          /\ c.deliveries = queue[d][i].deliveries
      BY <2>1, <2>2 DEF Command
    <2>5. /\ DOMAIN q = DOMAIN queue[d] /\ q[i] = c
          /\ \A j \in DOMAIN q : j # i => q[j] = queue[d][j]
      BY <2>2
    <2>6. InOrder(q)
      BY <1>0, <2>4, <2>5 DEF InOrder, RowProgress
    <2> QED
      BY <1>0, <1>2, <2>3, <2>6 DEF ProgressInv
  <1>3. ASSUME NEW d \in Device, NEW t \in Thread, delete_device(t, d) PROVE ProgressInv'
    <2>1. InOrder(<<>>)
      BY DEF InOrder
    <2>2. queue'[d] = <<>> /\ \A e \in Device \ {d} : queue'[e] = queue[e]
      BY <1>0, <1>3 DEF delete_device
    <2> QED
      BY <1>0, <1>3, <2>1, <2>2 DEF ProgressInv, delete_device
  <1>4. ASSUME NEW t \in Thread, enqueue_commit(t) PROVE ProgressInv'
    <2>1. PICK c : c = NewCommand(txn[t].req)
      OBVIOUS
    <2>2. c.status = "pending" /\ c.deliveries = 0 /\ c.executed = FALSE
      BY <2>1 DEF NewCommand
    <2>3. \A d \in Device : queue'[d] = queue[d] \/ queue'[d] = Append(queue[d], c)
      BY <1>0, <1>4, <2>1 DEF enqueue_commit
    <2>4. ASSUME NEW d \in Device, queue'[d] = Append(queue[d], c) PROVE InOrder(queue'[d])
      <3>1. queue[d] \in Seq(Command) /\ Len(queue[d]) \in Nat /\ DOMAIN queue[d] = 1 .. Len(queue[d])
        BY <1>0, QueueShape
      <3>2. PICK n, q : n \in Nat /\ n = Len(queue[d]) /\ q = queue'[d]
        BY <3>1
      <3>3. /\ DOMAIN q = 1 .. n + 1 /\ q[n + 1] = c
            /\ \A i \in 1 .. n : q[i] = queue[d][i]
        BY <3>1, <3>2, <2>4
      <3>4. InOrder(q)
        <4> SUFFICES ASSUME NEW i \in 1 .. n + 1
                     PROVE  /\ RowProgress(q[i])
                            /\ \A j \in 1 .. n + 1 : i < j /\ q[j].deliveries > 0
                                                     => q[i].status # "pending"
          BY <3>3 DEF InOrder
        <4>1. CASE i = n + 1
          BY <4>1, <3>3, <2>2 DEF RowProgress
        <4>2. CASE i \in 1 .. n
          <5>1. RowProgress(q[i])
            BY <4>2, <1>0, <3>1, <3>2, <3>3 DEF InOrder
          <5>2. ASSUME NEW j \in 1 .. n + 1, i < j, q[j].deliveries > 0
                PROVE  q[i].status # "pending"
            <6>1. j \in 1 .. n
              BY <5>2, <3>2, <3>3, <2>2
            <6> QED
              BY <5>2, <6>1, <4>2, <1>0, <3>1, <3>2, <3>3 DEF InOrder
          <5> QED
            BY <5>1, <5>2
        <4> QED
          BY <4>1, <4>2, <3>2
      <3> QED
        BY <3>2, <3>4
    <2>5. ASSUME NEW d \in Device PROVE InOrder(queue[d])'
      <3>1. CASE queue'[d] = queue[d]
        BY <3>1, <1>0 DEF InOrder, RowProgress
      <3>2. CASE queue'[d] = Append(queue[d], c)
        BY <3>2, <2>4 DEF InOrder, RowProgress
      <3> QED
        BY <3>1, <3>2, <2>3
    <2> QED
      BY <1>0, <1>4, <2>5 DEF ProgressInv, enqueue_commit
  <1>5. ASSUME NEW d \in Device, NEW rows \in Offered(d), NEW q, queue' = [queue EXCEPT ![d] = q],
               DOMAIN relay' = Device, DOMAIN q = DOMAIN queue[d],
               \A i \in DOMAIN q :
                   /\ i \notin rows => q[i] = queue[d][i]
                   /\ i \in rows => /\ q[i].status \in {"accepted", "reported"}
                                    /\ q[i].deliveries > 0 /\ q[i].deliveries \in Nat
        PROVE  ProgressInv'
    <2>1. InOrder(q)
      BY <1>0, <1>5, DeliveredInOrder
    <2>2. queue'[d] = q /\ \A e \in Device \ {d} : queue'[e] = queue[e]
      BY <1>0, <1>5
    <2> QED
      BY <1>0, <1>5, <2>1, <2>2 DEF ProgressInv
  <1>6. ASSUME NEW d \in Device, NEW rows \in Offered(d), delivery_lost(d, rows) PROVE ProgressInv'
    <2>1. PICK q : q = [i \in DOMAIN queue[d] |->
                          IF i \in rows THEN MarkDelivered(queue[d][i]) ELSE queue[d][i]]
      OBVIOUS
    <2>2. queue' = [queue EXCEPT ![d] = q] /\ DOMAIN relay' = Device
      BY <1>0, <1>6, <2>1 DEF delivery_lost
    <2>3. \A i \in DOMAIN queue[d] : queue[d][i] \in Command
      BY <1>0, QueueShape
    <2>4. DOMAIN q = DOMAIN queue[d]
      BY <2>1
    <2>5. ASSUME NEW i \in DOMAIN q
          PROVE  /\ i \notin rows => q[i] = queue[d][i]
                 /\ i \in rows => /\ q[i].status \in {"accepted", "reported"}
                                  /\ q[i].deliveries > 0 /\ q[i].deliveries \in Nat
      BY <2>1, <2>3, <2>4, MarkedOnce
    <2> QED
      BY <1>5, <2>2, <2>4, <2>5
  <1>7. ASSUME NEW d \in Device, NEW rows \in Offered(d), NEW reported, delivery(d, rows, reported)
        PROVE  ProgressInv'
    <2> DEFINE NewRow(i) == IF i \notin rows THEN queue[d][i]
                         ELSE [MarkDelivered(queue[d][i]) EXCEPT
                                 !.executed = TRUE,
                                 !.status = IF i \in reported THEN "reported" ELSE @]
    <2>0. PICK q : q = [i \in DOMAIN queue[d] |-> NewRow(i)]
      OBVIOUS
    <2>1. /\ queue' = [queue EXCEPT ![d] = q] /\ DOMAIN relay' = Device
          /\ DOMAIN q = DOMAIN queue[d]
          /\ \A i \in DOMAIN queue[d] : q[i] = NewRow(i)
      BY <1>0, <1>7, <2>0 DEF delivery
    <2>2. \A i \in DOMAIN queue[d] : queue[d][i] \in Command
      BY <1>0, QueueShape
    <2>3. ASSUME NEW i \in rows, i \in DOMAIN queue[d]
          PROVE  /\ q[i].status \in {"accepted", "reported"}
                 /\ q[i].deliveries > 0 /\ q[i].deliveries \in Nat
      <3>1. PICK c : c = MarkDelivered(queue[d][i])
        OBVIOUS
      <3>2. c \in Command /\ c.status = "accepted" /\ c.deliveries > 0 /\ c.deliveries \in Nat
        BY <2>2, <2>3, <3>1, Marked, MarkedOnce
      <3>3. q[i] = [c EXCEPT !.executed = TRUE, !.status = IF i \in reported THEN "reported" ELSE @]
        BY <2>1, <2>3, <3>1
      <3> QED
        BY <3>2, <3>3 DEF Command
    <2>4. \A i \in DOMAIN queue[d] : i \notin rows => q[i] = queue[d][i]
      BY <2>1
    <2> HIDE DEF NewRow
    <2>5. ASSUME NEW i \in DOMAIN q
          PROVE  /\ i \notin rows => q[i] = queue[d][i]
                 /\ i \in rows => /\ q[i].status \in {"accepted", "reported"}
                                  /\ q[i].deliveries > 0 /\ q[i].deliveries \in Nat
      BY <2>1, <2>3, <2>4
    <2> QED
      BY <1>5, <2>1, <2>5
  <1> QED
    <2>1. ASSUME NEW t \in Thread,
                 send_device_command(t) \/ send_group_command(t) \/ automation_fires(t)
          PROVE  UNCHANGED <<queue, relay>>
      BY <2>1 DEF send_device_command, send_group_command, automation_fires, enqueue_for_device,
                  enqueue_for_group, Begin
    <2>2. ASSUME NEW t \in Thread, NEW d \in Device,
                 (\E b \in BOOLEAN : update_device(t, d, b)) \/ add_members(t, d) \/ remove_member(t, d)
          PROVE  UNCHANGED <<queue, relay>>
      BY <2>2 DEF update_device, add_members, remove_member
    <2>3. HubRestart => UNCHANGED <<queue, relay>>
      BY DEF HubRestart
    <2>4. ASSUME NEW d \in Device, NEW i \in DOMAIN queue[d],
                 expire_overdue_commands(d, i) \/ \E t \in Thread : cancel_pending_command(t, d, i)
          PROVE  ProgressInv'
      BY <1>2, <2>4 DEF expire_overdue_commands, cancel_pending_command
    <2> QED
      BY <1>1, <1>3, <1>4, <1>6, <1>7, <2>1, <2>2, <2>3, <2>4 DEF Next

\* Deliveries keep to the order of created_at.
LEMMA OrderInvariant == Spec => []ProgressInv
  <1>1. Init => ProgressInv
    BY DEF Init, ProgressInv, InOrder
  <1>2. IInv /\ ProgressInv /\ [Next]_vars => ProgressInv'
    <2> SUFFICES ASSUME IInv, ProgressInv, [Next]_vars PROVE ProgressInv'
      OBVIOUS
    <2>1. CASE UNCHANGED vars
      BY <2>1 DEF vars, ProgressInv, InOrder, RowProgress
    <2> QED
      BY <2>1, ProgressStep
  <1> QED
    BY <1>1, <1>2, PowerInvariant, PTL DEF Spec

\* What a held-off device is handed for the first time came after its
\* hold-off and decides nothing, so that it leaves the relay open.
LEMMA RelayStaysOpen ==
    ASSUME IInv, ProgressInv, NEW d \in Device, NEW rows \in Offered(d), NEW reported,
           delivery(d, rows, reported), OffAndHeld(d), ~Redelivered(d)'
    PROVE  ~relay'[d]
  <1>0. /\ TypeInv /\ InOrder(queue[d]) /\ Len(queue[d]) \in Nat
        /\ DOMAIN queue[d] = 1 .. Len(queue[d])
        /\ \A i \in 1 .. Len(queue[d]) : queue[d][i] \in Command
    BY QueueShape DEF IInv, ProgressInv
  <1>1. rows \in SUBSET (1 .. Len(queue[d]))
    BY <1>0 DEF Offered, LiveRows
  <1>2. PICK m : m = Max(Deciding(d))
    OBVIOUS
  <1>3. /\ m \in Deciding(d) /\ \A i \in Deciding(d) : m >= i
        /\ m \in 1 .. Len(queue[d]) /\ queue[d][m].executed
    <2>1. Deciding(d) \in SUBSET (1 .. Len(queue[d])) /\ Deciding(d) # {}
      BY <1>0 DEF Deciding, OffAndHeld, HeldByCommand
    <2> QED
      BY <1>0, <1>2, <2>1, MaxOfNaturals DEF OffAndHeld, Decider
  <1>4. ASSUME NEW i \in rows PROVE i > m
    <2>1. i \in DOMAIN queue'[d] /\ queue'[d][i] = [MarkDelivered(queue[d][i]) EXCEPT
              !.executed = TRUE, !.status = IF i \in reported THEN "reported" ELSE @]
      BY <1>0, <1>1 DEF delivery, TypeInv
    <2>2. PICK c : c = MarkDelivered(queue[d][i])
      OBVIOUS
    <2>3. c \in Command /\ c.deliveries > 0 /\ c.deliveries \in Nat
          /\ (c.deliveries = 1 => queue[d][i].deliveries = 0)
      BY <1>0, <1>1, <2>2, Marked, MarkedOnce
    <2>4. queue'[d][i].deliveries = c.deliveries
      BY <2>1, <2>2, <2>3 DEF Command
    <2>5. c.deliveries = 1
      <3>1. ~(queue'[d][i].deliveries > 1)
        BY <2>1 DEF Redelivered
      <3>2. PICK n \in Nat : n = c.deliveries /\ n > 0
        BY <2>3
      <3>3. ~(n > 1)
        BY <3>1, <3>2, <2>4
      <3> QED
        BY <3>2, <3>3
    <2>6. queue[d][i].deliveries = 0 /\ Live(queue[d][i])
      BY <1>0, <2>3, <2>5 DEF Offered, LiveRows
    <2>7. queue[d][i].status = "pending"
      BY <1>0, <1>1, <2>6 DEF Live, InOrder, RowProgress
    <2>8. queue[d][m].deliveries > 0
      BY <1>0, <1>3 DEF InOrder, RowProgress
    <2>9. ~(i < m) /\ i # m
      BY <1>0, <1>1, <1>3, <2>6, <2>7, <2>8 DEF InOrder
    <2> QED
      BY <1>1, <1>3, <2>9
  <1>5. \A i \in rows : queue[d][i].req.type \notin _POWER_ON_TYPES
    BY <1>0, <1>1, <1>3, <1>4 DEF Deciding
  <1> DEFINE settings == {i \in rows : queue[d][i].req.type \in {"relay_on", "relay_cycle", "relay_off"}}
             last == Max(settings \cup {0})
             powered == IF last = 0 THEN relay[d] ELSE queue[d][last].req.type # "relay_off"
             toggles == {i \in {i \in rows : queue[d][i].req.type \in {"relay_toggle"}} : i > last}
  <1>6. relay'[d] = IF Cardinality(toggles) % 2 = 0 THEN powered ELSE ~powered
    BY DEF delivery, CarriedOut, ProgressInv
  <1>7. toggles = {}
    BY <1>5 DEF _POWER_ON_TYPES
  <1>8. Cardinality(toggles) % 2 = 0
    <2>1. Cardinality(toggles) = 0
      BY <1>7, FS_EmptySet
    <2> QED
      BY <2>1
  <1>9. ~powered
    <2>1. CASE last = 0
      BY <2>1 DEF OffAndHeld
    <2>2. CASE last # 0
      <3>1. last \in settings
        <4>1. settings \in SUBSET (1 .. Len(queue[d])) /\ Max(settings \cup {0}) # 0
          BY <1>1, <2>2
        <4>2. Len(queue[d]) \in Nat
          BY <1>0
        <4> HIDE DEF settings
        <4> QED
          BY <4>1, <4>2, MaxWithZero
      <3>2. queue[d][last].req.type = "relay_off"
        BY <3>1, <1>5 DEF _POWER_ON_TYPES
      <3> QED
        BY <2>2, <3>2
    <2> QED
      BY <2>1, <2>2
  <1> HIDE DEF toggles, powered
  <1> QED
    BY <1>6, <1>8, <1>9

\* Requirement R-CTRL-3: a device that has carried out its hold-off stays off
\* while the hold-off stands, whatever the hub delivers, unless a command was
\* delivered twice or two requests overlapped (list_pending_for_device).
THEOREM HeldOffIsKept == Spec => HeldOffStaysOff
  <1>1. IInv /\ ProgressInv /\ [Next]_vars =>
          [\A d \in Device \ raced :
              OffAndHeld(d) /\ dev'[d].is_held_off /\ ~Redelivered(d)' => ~relay'[d]]_vars
    <2> SUFFICES ASSUME IInv, ProgressInv, Next, NEW d \in Device \ raced,
                        OffAndHeld(d), ~Redelivered(d)'
                 PROVE  ~relay'[d]
      OBVIOUS
    <2>1. CASE relay'[d] = relay[d]
      BY <2>1 DEF OffAndHeld
    <2>2. ASSUME NEW e \in Device, NEW rows \in Offered(e), NEW reported, delivery(e, rows, reported)
          PROVE  ~relay'[d]
      <3>1. CASE e = d
        BY <2>2, <3>1, RelayStaysOpen
      <3>2. CASE e # d
        BY <2>1, <2>2, <3>2 DEF delivery, ProgressInv
      <3> QED
        BY <3>1, <3>2
    <2>3. \/ UNCHANGED relay
          \/ \E e \in Device : \E rows \in Offered(e) : \E reported \in SUBSET rows :
                delivery(e, rows, reported)
      BY DEF Next, send_device_command, send_group_command, automation_fires, enqueue_for_device,
             enqueue_for_group, Begin, enqueue_commit, update_device, delete_device, add_members,
             remove_member, cancel_pending_command, delivery_lost, expire_overdue_commands, HubRestart
    <2> QED
      BY <2>1, <2>2, <2>3
  <1> QED
    BY <1>1, PowerInvariant, OrderInvariant, PTL DEF Spec, HeldOffStaysOff

-----------------------------------------------------------------------------
(* Sensors                                                                 *)

\* A set of natural numbers that is not empty has a least member.
LEMMA MinOfNaturals ==
    ASSUME NEW S \in SUBSET Nat, S # {}
    PROVE  Min(S) \in S /\ \A y \in S : Min(S) <= y
  <1> DEFINE R == {ss \in Nat \X Nat : ss[1] < ss[2]}
  <1>1. OpToRel(<, Nat) = R
    BY DEF OpToRel
  <1>2. IsWellFoundedOn(R, Nat)
    BY <1>1, NatLessThanWellFounded, Zenon
  <1> HIDE DEF R
  <1>3. PICK x \in S : \A y \in S : <<y, x>> \notin R
    BY <1>2, WFMin
  <1>4. \A y \in S : x <= y
    <2> SUFFICES ASSUME NEW y \in S, y < x PROVE FALSE
      OBVIOUS
    <2>1. <<y, x>> \in R
      BY DEF R
    <2> QED
      BY <1>3, <2>1
  <1> QED
    BY <1>4 DEF Min

\* What an insertion leaves.
LEMMA InsertedAt ==
    ASSUME NEW T, NEW q \in Seq(T), NEW r \in T, NEW k \in 1 .. Len(q) + 1
    PROVE  /\ InsertAt(q, k, r) \in Seq(T) /\ Len(InsertAt(q, k, r)) = Len(q) + 1
           /\ \A i \in 1 .. Len(q) + 1 :
                \/ i < k /\ i \in DOMAIN q /\ InsertAt(q, k, r)[i] = q[i]
                \/ i = k /\ InsertAt(q, k, r)[i] = r
                \/ i > k /\ i - 1 \in DOMAIN q /\ InsertAt(q, k, r)[i] = q[i - 1]
  <1> DEFINE a == SubSeq(q, 1, k - 1)
             b == SubSeq(q, k, Len(q))
             all == InsertAt(q, k, r)
  <1>1. /\ a \in Seq(T) /\ Len(a) = k - 1
        /\ \A i \in 1 .. k - 1 : a[i] = q[i]
    OBVIOUS
  <1>2. /\ b \in Seq(T) /\ Len(b) = Len(q) - k + 1
        /\ \A i \in 1 .. Len(b) : b[i] = q[k + i - 1]
    OBVIOUS
  <1>3. all = a \o <<r>> \o b
    BY DEF InsertAt
  <1> HIDE DEF a, b, all
  <1> DEFINE ar == a \o <<r>>
  <1>4. /\ ar \in Seq(T) /\ Len(ar) = k
        /\ \A i \in 1 .. k - 1 : ar[i] = a[i]
        /\ ar[k] = r
    BY <1>1
  <1>5. all = ar \o b
    BY <1>3
  <1> HIDE DEF ar
  <1>6. /\ all \in Seq(T) /\ Len(all) = Len(q) + 1
        /\ \A i \in 1 .. k : all[i] = ar[i]
        /\ \A i \in k + 1 .. Len(q) + 1 : all[i] = b[i - k]
    <2>1. all \in Seq(T) /\ Len(all) = Len(q) + 1
      <3>1. ar \o b \in Seq(T) /\ Len(ar \o b) = Len(ar) + Len(b)
        BY <1>2, <1>4, ConcatProperties
      <3>2. Len(q) \in Nat
        OBVIOUS
      <3> QED
        BY <3>1, <3>2, <1>2, <1>4, <1>5
    <2>2. \A i \in 1 .. k : all[i] = ar[i]
      BY <1>2, <1>4, <1>5
    <2>3. ASSUME NEW i \in k + 1 .. Len(q) + 1
          PROVE  all[i] = b[i - k]
      <3>1. i \in Nat /\ i > Len(ar) /\ i <= Len(ar) + Len(b)
        BY <1>2, <1>4
      <3>2. (ar \o b)[i] = b[i - Len(ar)]
        <4>1. \A j \in 1 .. Len(ar) + Len(b) :
                (ar \o b)[j] = IF j <= Len(ar) THEN ar[j] ELSE b[j - Len(ar)]
          BY <1>2, <1>4, ConcatProperties
        <4>2. i \in 1 .. Len(ar) + Len(b) /\ ~(i <= Len(ar))
          BY <3>1, <1>2, <1>4
        <4> QED
          BY <4>1, <4>2
      <3> QED
        BY <3>2, <1>4, <1>5
    <2> QED
      BY <2>1, <2>2, <2>3
  <1>7. \A i \in 1 .. Len(q) + 1 : \/ i < k /\ i \in DOMAIN q /\ all[i] = q[i]
                                   \/ i = k /\ all[i] = r
                                   \/ i > k /\ i - 1 \in DOMAIN q /\ all[i] = q[i - 1]
    <2> SUFFICES ASSUME NEW i \in 1 .. Len(q) + 1
                 PROVE  \/ i < k /\ i \in DOMAIN q /\ all[i] = q[i]
                        \/ i = k /\ all[i] = r
                        \/ i > k /\ i - 1 \in DOMAIN q /\ all[i] = q[i - 1]
      OBVIOUS
    <2>1. CASE i < k
      BY <2>1, <1>1, <1>4, <1>6
    <2>2. CASE i = k
      BY <2>2, <1>4, <1>6
    <2>3. CASE i > k
      <3>1. i - k \in 1 .. Len(b) /\ k + (i - k) - 1 = i - 1
        BY <2>3, <1>2
      <3>2. b[i - k] = q[i - 1]
        BY <3>1, <1>2
      <3> QED
        BY <2>3, <3>2, <1>6
    <2> QED
      BY <2>1, <2>2, <2>3
  <1> QED
    BY <1>6, <1>7 DEF all

\* What a truncation leaves.
LEMMA Cut ==
    ASSUME NEW T, NEW all \in Seq(T), NEW d \in Nat
    PROVE  /\ SubSeq(all, 1, Min({Len(all), d})) \in Seq(T)
           /\ Len(SubSeq(all, 1, Min({Len(all), d}))) <= d
           /\ Len(SubSeq(all, 1, Min({Len(all), d}))) <= Len(all)
           /\ \A i \in DOMAIN SubSeq(all, 1, Min({Len(all), d})) :
                SubSeq(all, 1, Min({Len(all), d}))[i] = all[i]
  <1> DEFINE m == Min({Len(all), d})
  <1>1. m \in Nat /\ m <= Len(all) /\ m <= d
    <2>1. {Len(all), d} \in SUBSET Nat /\ {Len(all), d} # {}
      OBVIOUS
    <2> QED
      BY <2>1, MinOfNaturals
  <1> HIDE DEF m
  <1>2. /\ SubSeq(all, 1, m) \in Seq(T) /\ Len(SubSeq(all, 1, m)) = m
        /\ \A i \in 1 .. m : SubSeq(all, 1, m)[i] = all[i]
    BY <1>1
  <1>3. DOMAIN SubSeq(all, 1, m) = 1 .. m
    BY <1>2
  <1> QED
    BY <1>1, <1>2, <1>3 DEF m

----------------------------------------------------------------------------
\* No sample is younger than the last thing its source said.
HeardInv == \A s \in Sources : \A i \in DOMAIN samples[s] : samples[s][i].age >= heard[s]

Snmp(s) == Registered(s) /\ src[s].kind = "snmp"

\* Until the agent counts an error, resets alone can have moved its counter.
CountInv ==
  \A s \in Sources : Snmp(s) =>
    \A i \in DOMAIN samples[s] :
      ~samples[s][i].err /\ samples[s][i].p.n # NoReading => samples[s][i].p.n >= cnt

\* A newer sample shows more than an older one only after an error.
PairInv ==
  \A s \in Sources : Snmp(s) =>
    \A i, j \in DOMAIN samples[s] :
      /\ i < j /\ ~samples[s][i].lap /\ ~samples[s][j].lap
      /\ samples[s][i].p.n # NoReading /\ samples[s][j].p.n # NoReading
      /\ samples[s][i].p.n > samples[s][j].p.n
      => samples[s][j].err

\* The source may be the subject of a poll, now or before its deletion.
Pollable(s) == src[s].st # "free" /\ (Registered(s) => ~Inbound(s))

\* A poll no other has overlapped is alone, and no sample is newer than it.
PollInv ==
  \A t \in Threads, s \in Sources : Polling(t, s) =>
    /\ Pollable(s)
    /\ Snmp(s) /\ ~poll[t].lap => /\ \A u \in Threads \ {t} : ~Polling(u, s)
                                /\ \A i \in DOMAIN samples[s] : samples[s][i].age >= poll[t].age

DueInv == \A s \in due : Pollable(s)

SensorsInv == SensorsTypeOK /\ HeardInv /\ CountInv /\ PairInv /\ PollInv /\ DueInv

\* A registered source has a complete row.
LEMMA RowOf ==
    ASSUME SensorsTypeOK, NEW s \in Sources
    PROVE  /\ Registered(s) => /\ src[s] \in SourceRow
                               /\ samples[s] \in Seq(Sample(src[s].kind))
                               /\ Len(samples[s]) <= Depth(src[s].kind)
           /\ ~Registered(s) => samples[s] = <<>> /\ DOMAIN samples[s] = {}
           /\ src[s].st = "free" => \E k \in EXTERNAL_SOURCE_KINDS \cup {"none"} : src[s] = Free(k)
           /\ src[s].st \in {"row", "free", "gone"}
  BY DEF SensorsTypeOK, Registered, Gone, Free, SourceRow

\* A thread that polls has a complete poll.
LEMMA PollOf ==
    ASSUME SensorsTypeOK, NEW t \in Threads
    PROVE  /\ poll[t].on => /\ poll[t] \in PollRecord
                            /\ poll[t].src \in Sources
                            /\ poll[t].age \in Nat /\ poll[t].age <= Old
           /\ ~poll[t].on => poll[t] = NoPoll
  <1>1. poll[t] \in {NoPoll} \cup PollRecord
    BY DEF SensorsTypeOK
  <1>2. CASE poll[t] = NoPoll
    BY <1>2 DEF NoPoll
  <1>3. CASE poll[t] \in PollRecord
    <2>1. poll[t].on = TRUE /\ poll[t].src \in Sources /\ poll[t].age \in 0 .. Old
      BY <1>3 DEF PollRecord
    <2>2. poll[t].age \in Nat /\ poll[t].age <= Old
      BY <2>1, SensorsAssumption
    <2> QED
      BY <1>3, <2>1, <2>2
  <1> QED
    BY <1>1, <1>2, <1>3

LEMMA Depths == ASSUME NEW kind PROVE Depth(kind) \in Nat
  BY SensorsAssumption DEF Depth

\* Where a sample is stored: behind the newer ones, the others one place
\* further, and no more samples than the queries of the kind read.
LEMMA StoredRows ==
    ASSUME SensorsTypeOK, NEW s \in Sources, Registered(s), NEW r \in Sample(src[s].kind)
    PROVE  /\ Stored(s, r) \in Seq(Sample(src[s].kind))
           /\ Len(Stored(s, r)) <= Depth(src[s].kind)
           /\ \E k \in 1 .. Len(samples[s]) + 1 :
                /\ \A i \in DOMAIN samples[s] : samples[s][i].age >= r.age => k <= i
                /\ \A i \in DOMAIN Stored(s, r) :
                     \/ /\ i < k /\ i \in DOMAIN samples[s]
                        /\ Stored(s, r)[i] = samples[s][i]
                     \/ i = k /\ Stored(s, r)[i] = r
                     \/ /\ i > k /\ i - 1 \in DOMAIN samples[s]
                        /\ Stored(s, r)[i] = samples[s][i - 1]
  <1> DEFINE T == Sample(src[s].kind)
             q == samples[s]
             older == {i \in DOMAIN q : q[i].age >= r.age}
             k == Min(older \cup {Len(q) + 1})
             d == Depth(src[s].kind)
  <1>1. q \in Seq(T) /\ d \in Nat /\ r \in T
    BY RowOf, Depths
  <1> HIDE DEF T, q, d
  <1>2. /\ k \in older \cup {Len(q) + 1}
        /\ \A i \in older \cup {Len(q) + 1} : k <= i
    <2>1. older \cup {Len(q) + 1} \in SUBSET Nat /\ older \cup {Len(q) + 1} # {}
      BY <1>1
    <2> QED
      BY <2>1, MinOfNaturals
  <1>3. k \in 1 .. Len(q) + 1 /\ \A i \in DOMAIN q : q[i].age >= r.age => k <= i
    BY <1>1, <1>2
  <1> HIDE DEF k
  <1> DEFINE all == InsertAt(q, k, r)
             cut == SubSeq(all, 1, Min({Len(all), d}))
  <1>4. Stored(s, r) = cut
    BY DEF Stored, q, k, d
  <1>5. /\ all \in Seq(T) /\ Len(all) = Len(q) + 1
        /\ \A i \in 1 .. Len(q) + 1 :
             \/ i < k /\ i \in DOMAIN q /\ all[i] = q[i]
             \/ i = k /\ all[i] = r
             \/ i > k /\ i - 1 \in DOMAIN q /\ all[i] = q[i - 1]
    <2>1. q \in Seq(T) /\ r \in T /\ k \in 1 .. Len(q) + 1
      BY <1>1, <1>3
    <2> HIDE DEF older
    <2> QED
      BY <2>1, InsertedAt
  <1> HIDE DEF all
  <1>6. /\ cut \in Seq(T) /\ Len(cut) <= d /\ Len(cut) <= Len(all)
        /\ \A i \in DOMAIN cut : cut[i] = all[i]
    BY <1>1, <1>5, Cut
  <1> HIDE DEF cut
  <1>7. \A i \in DOMAIN cut : i \in 1 .. Len(q) + 1
    BY <1>1, <1>5, <1>6
  <1> QED
    BY <1>3, <1>4, <1>5, <1>6, <1>7 DEF q, d, T

LEMMA SensorsInitially ==
    SensorsInit => SensorsInv
  <1> SUFFICES ASSUME SensorsInit PROVE SensorsInv
    OBVIOUS
  <1> USE SensorsAssumption DEF SensorsInit
  <1>1. PICK kind \in Fleets : src = [s \in Sources |-> Free(kind[s])]
    OBVIOUS
  <1>2. \A s \in Sources : kind[s] \in EXTERNAL_SOURCE_KINDS \cup {"none"} /\ src[s] = Free(kind[s])
    BY <1>1
  <1>3. \A s \in Sources : ~Registered(s) /\ samples[s] = <<>> /\ DOMAIN samples[s] = {}
    BY <1>2 DEF Registered, Free
  <1>4. \A t \in Threads : poll[t] = NoPoll /\ ~poll[t].on
    BY DEF NoPoll
  <1>5. SensorsTypeOK
    BY <1>1, <1>2, <1>3, <1>4 DEF SensorsTypeOK, Old
  <1> QED
    BY <1>3, <1>4, <1>5 DEF SensorsInv, HeardInv, CountInv, PairInv, PollInv, DueInv, Snmp, Polling

\* The counter of a sample of an SNMP source.
LEMMA SnmpSample ==
    ASSUME SensorsTypeOK, NEW s \in Sources, Snmp(s), NEW i \in DOMAIN samples[s]
    PROVE  /\ samples[s][i] \in Sample("snmp")
           /\ samples[s][i].p \in Payload("snmp")
           /\ samples[s][i].p.n = NoReading \/ samples[s][i].p.n \in Nat
  <1>1. samples[s] \in Seq(Sample("snmp"))
    BY RowOf DEF Snmp
  <1>2. samples[s][i] \in Sample("snmp")
    BY <1>1
  <1>3. samples[s][i].p \in Payload("snmp")
    BY <1>2 DEF Sample
  <1>4. Payload("snmp") = [has: BOOLEAN, up: BOOLEAN, n: {NoReading} \cup 0 .. CounterMax]
    BY DEF Payload, CalendarKinds, SUBSCRIBER_KINDS, WEBHOOK_KINDS
  <1>5. samples[s][i].p.n \in {NoReading} \cup 0 .. CounterMax
    <2>1. PICK p : p = samples[s][i].p
      OBVIOUS
    <2>2. p \in [has: BOOLEAN, up: BOOLEAN, n: {NoReading} \cup 0 .. CounterMax]
      BY <1>3, <1>4, <2>1
    <2>3. p.n \in {NoReading} \cup 0 .. CounterMax
      BY <2>2
    <2> QED
      BY <2>1, <2>3
  <1> QED
    BY <1>2, <1>3, <1>5, SensorsAssumption

\* Steps that store nothing and begin no poll: samples and polls go or stay,
\* and the counter does not count.
LEMMA QuietStep ==
    ASSUME SensorsInv, SensorsTypeOK', cnt' <= cnt, heard' = heard,
           \A s \in Sources :
               samples'[s] = <<>> \/ (samples'[s] = samples[s] /\ (Snmp(s)' => Snmp(s))),
           \A s \in Sources : Pollable(s) => Pollable(s)' /\ (Snmp(s)' => Snmp(s)),
           \A s \in due' : Pollable(s),
           \A t \in Threads : poll'[t] = poll[t] \/ poll'[t] = NoPoll
    PROVE  SensorsInv'
  <1> USE DEF SensorsInv
  <1>0. DOMAIN <<>> = {}
    OBVIOUS
  <1>1. HeardInv'
    BY <1>0 DEF HeardInv
  <1>2. CountInv'
    <2> SUFFICES ASSUME NEW s \in Sources, Snmp(s)', NEW i \in DOMAIN samples'[s],
                        ~samples'[s][i].err, samples'[s][i].p.n # NoReading
                 PROVE  samples'[s][i].p.n >= cnt'
      BY DEF CountInv, NoReading
    <2>1. samples'[s] = samples[s] /\ Snmp(s)
      BY <1>0
    <2>2. samples[s][i].p.n >= cnt /\ samples[s][i].p.n \in Nat
      BY <2>1, SnmpSample DEF CountInv
    <2> QED
      BY <2>1, <2>2 DEF SensorsTypeOK
  <1>3. PairInv'
    BY <1>0 DEF PairInv, NoReading
  <1>4. PollInv'
    <2> SUFFICES ASSUME NEW t \in Threads, NEW s \in Sources, Polling(t, s)'
                 PROVE  /\ Pollable(s)'
                        /\ Snmp(s)' /\ ~poll'[t].lap =>
                             /\ \A u \in Threads \ {t} : ~Polling(u, s)'
                             /\ \A i \in DOMAIN samples'[s] : samples'[s][i].age >= poll'[t].age
      BY DEF PollInv
    <2>1. \A u \in Threads : Polling(u, s)' => Polling(u, s) /\ poll'[u] = poll[u]
      BY DEF Polling, NoPoll
    <2> QED
      BY <2>1, <1>0 DEF PollInv
  <1>5. DueInv'
    BY DEF DueInv, SensorsTypeOK
  <1> QED
    BY <1>1, <1>2, <1>3, <1>4, <1>5

LEMMA AddQuiet ==
    ASSUME SensorsInv, settings_integrations_add_submit PROVE SensorsInv'
  <1>1. PICK s \in Sources, config \in {"complete", "missing"} :
          create_source(s, src[s].kind, config)
    BY DEF settings_integrations_add_submit
  <1> USE <1>1 DEF create_source
  <1>2. SensorsTypeOK
    BY DEF SensorsInv
  <1>3. ExternalSensorSource(src[s].kind) \in SourceRow /\ ExternalSensorSource(src[s].kind).st = "row"
    BY DEF ExternalSensorSource, SourceRow, Never
  <1>4. src' = [src EXCEPT ![s] = ExternalSensorSource(src[s].kind)] /\ samples[s] = <<>>
    BY <1>2, RowOf DEF Registered
  <1>5. samples[s] \in Seq(Sample(src'[s].kind)) /\ Len(samples[s]) <= Depth(src'[s].kind)
    BY <1>4, Depths
  <1>t. SensorsTypeOK'
    BY <1>2, <1>3, <1>4, <1>5 DEF SensorsTypeOK, Registered
  <1>c. cnt' <= cnt /\ heard' = heard
    BY <1>2 DEF SensorsTypeOK
  <1>r. \A z \in Sources : samples'[z] = <<>> \/ (samples'[z] = samples[z] /\ (Snmp(z)' => Snmp(z)))
    BY <1>4 DEF Snmp, Registered
  <1>s. \A z \in Sources : Pollable(z) => Pollable(z)' /\ (Snmp(z)' => Snmp(z))
    BY <1>2, <1>4 DEF Snmp, Registered, SensorsTypeOK, Pollable, Inbound
  <1>d. \A z \in due' : Pollable(z)
    BY DEF SensorsInv, DueInv
  <1>p. \A u \in Threads : poll'[u] = poll[u] \/ poll'[u] = NoPoll
    BY <1>1
  <1> QED
    BY <1>t, <1>c, <1>r, <1>s, <1>d, <1>p, QuietStep

LEMMA DeleteQuiet ==
    ASSUME SensorsInv, settings_integrations_delete_submit PROVE SensorsInv'
  <1>1. PICK s \in Sources : delete_source(s)
    BY DEF settings_integrations_delete_submit
  <1> USE <1>1 DEF delete_source
  <1>2. SensorsTypeOK
    BY DEF SensorsInv
  <1>t. SensorsTypeOK'
    BY <1>2 DEF SensorsTypeOK, Registered, Gone
  <1>c. cnt' <= cnt /\ heard' = heard
    BY <1>2 DEF SensorsTypeOK
  <1>r. \A z \in Sources : samples'[z] = <<>> \/ (samples'[z] = samples[z] /\ (Snmp(z)' => Snmp(z)))
    BY <1>2 DEF Snmp, Registered, SensorsTypeOK
  <1>s. \A z \in Sources : Pollable(z) => Pollable(z)' /\ (Snmp(z)' => Snmp(z))
    BY <1>2 DEF Snmp, Registered, SensorsTypeOK, Gone, Pollable, Inbound
  <1>d. \A z \in due' : Pollable(z)
    BY DEF SensorsInv, DueInv
  <1>p. \A u \in Threads : poll'[u] = poll[u] \/ poll'[u] = NoPoll
    BY <1>1
  <1> QED
    BY <1>t, <1>c, <1>r, <1>s, <1>d, <1>p, QuietStep

\* Columns of a row other than its kind.
LEMMA RowUpdate ==
    ASSUME SensorsTypeOK, NEW s \in Sources, Registered(s), NEW row \in SourceRow,
           row.kind = src[s].kind, src' = [src EXCEPT ![s] = row]
    PROVE  /\ src' \in [Sources -> {Gone} \cup {Free(k) : k \in EXTERNAL_SOURCE_KINDS \cup {"none"}}
                          \cup SourceRow]
           /\ \A z \in Sources : /\ src'[z].st = src[z].st
                                 /\ Registered(z)' <=> Registered(z)
                                 /\ Registered(z) => src'[z].kind = src[z].kind
                                 /\ Snmp(z)' <=> Snmp(z)
  BY RowOf DEF SensorsTypeOK, Registered, SourceRow, Snmp

LEMMA ToggleQuiet ==
    ASSUME SensorsInv, settings_integrations_toggle_submit PROVE SensorsInv'
  <1>1. PICK s \in Sources, enabled \in BOOLEAN : set_source_enabled(s, enabled)
    BY DEF settings_integrations_toggle_submit
  <1> USE <1>1 DEF set_source_enabled
  <1>2. SensorsTypeOK
    BY DEF SensorsInv
  <1> DEFINE row == [src[s] EXCEPT !.enabled = enabled]
  <1>3. row \in SourceRow /\ row.kind = src[s].kind /\ src' = [src EXCEPT ![s] = row]
    BY <1>2, RowOf DEF SourceRow
  <1> HIDE DEF row
  <1>4. /\ src' \in [Sources -> {Gone} \cup {Free(k) : k \in EXTERNAL_SOURCE_KINDS \cup {"none"}}
                          \cup SourceRow]
        /\ \A z \in Sources : /\ src'[z].st = src[z].st
                              /\ Registered(z)' <=> Registered(z)
                              /\ Registered(z) => src'[z].kind = src[z].kind
                              /\ Snmp(z)' <=> Snmp(z)
    BY <1>2, <1>3, RowUpdate
  <1>t. SensorsTypeOK'
    BY <1>2, <1>4 DEF SensorsTypeOK
  <1>c. cnt' <= cnt /\ heard' = heard
    BY <1>2 DEF SensorsTypeOK
  <1>r. \A z \in Sources : samples'[z] = <<>> \/ (samples'[z] = samples[z] /\ (Snmp(z)' => Snmp(z)))
    BY <1>4
  <1>s. \A z \in Sources : Pollable(z) => Pollable(z)' /\ (Snmp(z)' => Snmp(z))
    BY <1>4 DEF Pollable, Inbound
  <1>d. \A z \in due' : Pollable(z)
    BY DEF SensorsInv, DueInv
  <1>p. \A u \in Threads : poll'[u] = poll[u] \/ poll'[u] = NoPoll
    BY <1>1
  <1> QED
    BY <1>t, <1>c, <1>r, <1>s, <1>d, <1>p, QuietStep

LEMMA ListQuiet ==
    ASSUME SensorsInv, poll_all_due PROVE SensorsInv'
  <1> USE DEF poll_all_due
  <1>2. SensorsTypeOK
    BY DEF SensorsInv
  <1>t. SensorsTypeOK'
    BY <1>2 DEF SensorsTypeOK, Registered
  <1>c. cnt' <= cnt /\ heard' = heard
    BY <1>2 DEF SensorsTypeOK
  <1>r. \A z \in Sources : samples'[z] = <<>> \/ (samples'[z] = samples[z] /\ (Snmp(z)' => Snmp(z)))
    BY DEF Snmp, Registered
  <1>s. \A z \in Sources : Pollable(z) => Pollable(z)' /\ (Snmp(z)' => Snmp(z))
    BY DEF Snmp, Registered, Pollable, Inbound
  <1>d. \A z \in due' : Pollable(z)
    BY DEF Pollable, Due, Registered
  <1>p. \A u \in Threads : poll'[u] = poll[u] \/ poll'[u] = NoPoll
    BY DEF poll_all_due
  <1> QED
    BY <1>t, <1>c, <1>r, <1>s, <1>d, <1>p, QuietStep

LEMMA FailQuiet ==
    ASSUME SensorsInv, NEW t \in Threads, PollFails(t) PROVE SensorsInv'
  <1> USE DEF PollFails, Leaves, AfterError
  <1>2. SensorsTypeOK
    BY DEF SensorsInv
  <1> DEFINE s == poll[t].src
             row == [src[s] EXCEPT !.polled = AtMost(poll[t].age, Interval)]
  <1>0. s \in Sources /\ AtMost(poll[t].age, Interval) \in Int /\ Registered(s)
    BY <1>2, PollOf, SensorsAssumption DEF AtMost
  <1>3. row \in SourceRow /\ row.kind = src[s].kind /\ src' = [src EXCEPT ![s] = row]
    BY <1>0, <1>2, RowOf DEF SourceRow
  <1> HIDE DEF row, s
  <1>4. /\ src' \in [Sources -> {Gone} \cup {Free(k) : k \in EXTERNAL_SOURCE_KINDS \cup {"none"}}
                          \cup SourceRow]
        /\ \A z \in Sources : /\ src'[z].st = src[z].st
                              /\ Registered(z)' <=> Registered(z)
                              /\ Registered(z) => src'[z].kind = src[z].kind
                              /\ Snmp(z)' <=> Snmp(z)
    BY <1>0, <1>2, <1>3, RowUpdate
  <1>t. SensorsTypeOK'
    BY <1>2, <1>4 DEF SensorsTypeOK
  <1>c. cnt' <= cnt /\ heard' = heard
    BY <1>2 DEF SensorsTypeOK
  <1>r. \A z \in Sources : samples'[z] = <<>> \/ (samples'[z] = samples[z] /\ (Snmp(z)' => Snmp(z)))
    BY <1>4
  <1>s. \A z \in Sources : Pollable(z) => Pollable(z)' /\ (Snmp(z)' => Snmp(z))
    BY <1>4 DEF Pollable, Inbound
  <1>d. \A z \in due' : Pollable(z)
    BY DEF SensorsInv, DueInv
  <1>p. \A u \in Threads : poll'[u] = poll[u] \/ poll'[u] = NoPoll
    BY <1>2 DEF SensorsTypeOK
  <1> QED
    BY <1>t, <1>c, <1>r, <1>s, <1>d, <1>p, QuietStep

LEMMA LostQuiet ==
    ASSUME SensorsInv, NEW t \in Threads, PollLost(t) PROVE SensorsInv'
  <1> USE DEF PollLost, Leaves
  <1>2. SensorsTypeOK
    BY DEF SensorsInv
  <1>t. SensorsTypeOK'
    BY <1>2 DEF SensorsTypeOK, Registered
  <1>c. cnt' <= cnt /\ heard' = heard
    BY <1>2 DEF SensorsTypeOK
  <1>r. \A z \in Sources : samples'[z] = <<>> \/ (samples'[z] = samples[z] /\ (Snmp(z)' => Snmp(z)))
    BY DEF Snmp, Registered
  <1>s. \A z \in Sources : Pollable(z) => Pollable(z)' /\ (Snmp(z)' => Snmp(z))
    BY DEF Snmp, Registered, Pollable, Inbound
  <1>d. \A z \in due' : Pollable(z)
    BY DEF SensorsInv, DueInv
  <1>p. \A u \in Threads : poll'[u] = poll[u] \/ poll'[u] = NoPoll
    BY <1>2 DEF SensorsTypeOK
  <1> QED
    BY <1>t, <1>c, <1>r, <1>s, <1>d, <1>p, QuietStep

LEMMA RestartQuiet ==
    ASSUME SensorsInv, Restart PROVE SensorsInv'
  <1> USE DEF Restart, start
  <1>2. SensorsTypeOK
    BY DEF SensorsInv
  <1>t. SensorsTypeOK'
    BY <1>2, SensorsAssumption DEF SensorsTypeOK, Registered
  <1>c. cnt' <= cnt /\ heard' = heard
    BY <1>2 DEF SensorsTypeOK
  <1>r. \A z \in Sources : samples'[z] = <<>> \/ (samples'[z] = samples[z] /\ (Snmp(z)' => Snmp(z)))
    BY DEF Snmp, Registered
  <1>s. \A z \in Sources : Pollable(z) => Pollable(z)' /\ (Snmp(z)' => Snmp(z))
    BY DEF Snmp, Registered, Pollable, Inbound
  <1>d. \A z \in due' : Pollable(z)
    BY DEF Restart
  <1>p. \A u \in Threads : poll'[u] = poll[u] \/ poll'[u] = NoPoll
    BY DEF Restart
  <1> QED
    BY <1>t, <1>c, <1>r, <1>s, <1>d, <1>p, QuietStep

LEMMA AgentRestartQuiet ==
    ASSUME SensorsInv, AgentRestart PROVE SensorsInv'
  <1> USE DEF AgentRestart
  <1>2. SensorsTypeOK
    BY DEF SensorsInv
  <1>3. 0 \in 0 .. CounterMax
    BY SensorsAssumption
  <1>t. SensorsTypeOK'
    BY <1>2, <1>3 DEF SensorsTypeOK, Registered
  <1>c. cnt' <= cnt /\ heard' = heard
    BY <1>2 DEF SensorsTypeOK
  <1>r. \A z \in Sources : samples'[z] = <<>> \/ (samples'[z] = samples[z] /\ (Snmp(z)' => Snmp(z)))
    BY DEF Snmp, Registered
  <1>s. \A z \in Sources : Pollable(z) => Pollable(z)' /\ (Snmp(z)' => Snmp(z))
    BY DEF Snmp, Registered, Pollable, Inbound
  <1>d. \A z \in due' : Pollable(z)
    BY DEF SensorsInv, DueInv
  <1>p. \A u \in Threads : poll'[u] = poll[u] \/ poll'[u] = NoPoll
    BY DEF AgentRestart
  <1> QED
    BY <1>t, <1>c, <1>r, <1>s, <1>d, <1>p, QuietStep


LEMMA PollBegins ==
    ASSUME SensorsInv, NEW t \in Threads, NEW s \in Sources, ~poll[t].on,
           Pollable(s), Registered(s), poll_source(t, s), due' \subseteq due,
           UNCHANGED <<src, samples, clients, cnt, heard>>
    PROVE  SensorsInv'
  <1>0. SensorsTypeOK
    BY DEF SensorsInv
  <1> DEFINE others == {u \in Threads : Polling(u, s)}
             snmp == src[s].kind = "snmp"
             new == [on |-> TRUE, src |-> s, age |-> 0, lap |-> others # {} /\ snmp]
  <1>1. /\ poll' = [u \in Threads |-> CASE u = t -> new
                                       [] u \in others -> [poll[u] EXCEPT !.lap = snmp]
                                       [] OTHER -> poll[u]]
        /\ NewInstant(s)
    BY DEF poll_source
  <1>2. new \in PollRecord /\ new.on /\ new.src = s /\ new.age = 0
    BY SensorsAssumption DEF PollRecord, Old
  <1>3. ~new.lap /\ snmp => others = {}
    OBVIOUS
  <1>4. t \notin others
    BY DEF Polling
  <1> HIDE DEF new, others
  <1>5. poll'[t] = new
    BY <1>1, <1>4
  <1>6. ASSUME NEW u \in Threads \ {t}, Polling(u, s)
        PROVE  poll'[u] \in PollRecord /\ poll'[u].src = s /\ poll'[u].age = poll[u].age
               /\ (snmp => poll'[u].lap)
    <2>1. u \in others /\ poll[u] \in PollRecord /\ poll[u].src = s
      BY <1>6, <1>0, PollOf DEF others, Polling
    <2>2. poll'[u] = [poll[u] EXCEPT !.lap = snmp]
      BY <2>1, <1>1
    <2> QED
      BY <2>1, <2>2 DEF PollRecord
  <1>7. \A u \in Threads \ {t} : ~Polling(u, s) => poll'[u] = poll[u]
    BY <1>1 DEF others
  <1>8. \A u \in Threads \ {t} : \A z \in Sources : Polling(u, z)' => Polling(u, z)
    BY <1>6, <1>7 DEF Polling
  <1>9. poll' \in [Threads -> {NoPoll} \cup PollRecord]
    <2>1. \A u \in Threads : poll'[u] \in {NoPoll} \cup PollRecord
      BY <1>0, <1>2, <1>5, <1>6, <1>7 DEF SensorsTypeOK
    <2>2. poll' = [u \in Threads |-> poll'[u]]
      BY <1>1
    <2> QED
      BY <2>1, <2>2
  <1> HIDE DEF snmp
  <1>10. SensorsTypeOK'
    BY <1>0, <1>9 DEF SensorsTypeOK, Registered
  <1>11. HeardInv' /\ CountInv' /\ PairInv' /\ DueInv'
    BY DEF SensorsInv, HeardInv, CountInv, PairInv, DueInv, Snmp, Registered, Pollable, Inbound
  <1>12. PollInv'
    <2> SUFFICES ASSUME NEW u \in Threads, NEW z \in Sources, Polling(u, z)'
                 PROVE  /\ Pollable(z)'
                        /\ Snmp(z)' /\ ~poll'[u].lap =>
                             /\ \A v \in Threads \ {u} : ~Polling(v, z)'
                             /\ \A i \in DOMAIN samples'[z] : samples'[z][i].age >= poll'[u].age
      BY DEF PollInv
    <2>0. (Snmp(z)' <=> Snmp(z)) /\ (Pollable(z)' <=> Pollable(z))
      BY DEF Snmp, Pollable, Registered, Inbound
    <2>1. CASE u = t
      <3>1. z = s
        BY <2>1, <1>2, <1>5 DEF Polling
      <3>2. ASSUME Snmp(s), NEW i \in DOMAIN samples[s]
            PROVE  samples[s][i].age >= 0
        <4>1. samples[s][i] \in Sample("snmp")
          BY <1>0, <3>2, SnmpSample
        <4> QED
          BY <4>1 DEF Sample
      <3>3. Snmp(s) => snmp
        BY DEF Snmp, snmp
      <3>4. others = {} => \A v \in Threads \ {t} : ~Polling(v, s)'
        BY <1>8 DEF others
      <3> QED
        BY <2>0, <2>1, <3>1, <3>2, <3>3, <3>4, <1>2, <1>3, <1>5
    <2>2. CASE u # t /\ z = s
      BY <2>0, <2>2, <1>6, <1>8 DEF Snmp, snmp
    <2>3. CASE u # t /\ z # s
      <3>1. Polling(u, z) /\ poll'[u] = poll[u]
        BY <2>3, <1>7, <1>8 DEF Polling
      <3>2. ~Polling(t, z)'
        BY <2>3, <1>2, <1>5 DEF Polling
      <3>3. \A v \in Threads \ {u} : Polling(v, z)' => Polling(v, z)
        BY <3>2, <1>8
      <3> QED
        BY <2>0, <3>1, <3>3 DEF SensorsInv, PollInv
    <2> QED
      BY <2>1, <2>2, <2>3
  <1> QED
    BY <1>10, <1>11, <1>12 DEF SensorsInv

LEMMA ProbeBegins ==
    ASSUME SensorsInv, NEW s \in Sources, settings_integrations_probe_submit(s)
    PROVE  SensorsInv'
  BY PollBegins DEF settings_integrations_probe_submit, Threads, Pollable, Registered

LEMMA NextBegins ==
    ASSUME SensorsInv, PollNext
    PROVE  SensorsInv'
  <1>1. PICK s \in due : /\ due' = due \ {s}
                         /\ IF Registered(s) THEN poll_source("tick", s) ELSE UNCHANGED poll
    BY DEF PollNext
  <1>2. /\ UNCHANGED <<src, samples, clients, cnt, heard>>
        /\ ~poll["tick"].on
    BY DEF PollNext
  <1>3. s \in Sources /\ Pollable(s) /\ SensorsTypeOK
    BY DEF SensorsInv, DueInv, SensorsTypeOK
  <1>4. CASE Registered(s)
    BY <1>1, <1>2, <1>3, <1>4, PollBegins DEF Threads
  <1>5. CASE ~Registered(s)
    <2>t. SensorsTypeOK'
      BY <1>1, <1>2, <1>3, <1>5 DEF SensorsTypeOK, Registered
    <2>c. cnt' <= cnt /\ heard' = heard
      BY <1>2, <1>3 DEF SensorsTypeOK
    <2>r. \A z \in Sources : samples'[z] = <<>> \/ (samples'[z] = samples[z] /\ (Snmp(z)' => Snmp(z)))
      BY <1>2 DEF Snmp, Registered
    <2>s. \A z \in Sources : Pollable(z) => Pollable(z)' /\ (Snmp(z)' => Snmp(z))
      BY <1>2 DEF Snmp, Registered, Pollable, Inbound
    <2>d. \A z \in due' : Pollable(z)
      BY <1>1 DEF SensorsInv, DueInv
    <2>p. \A u \in Threads : poll'[u] = poll[u] \/ poll'[u] = NoPoll
      BY <1>1, <1>5
    <2> QED
      BY <2>t, <2>c, <2>r, <2>s, <2>d, <2>p, QuietStep
  <1> QED
    BY <1>4, <1>5

\* A sample is stored: of a poll that ends, or on its arrival.
LEMMA StoreStep ==
    ASSUME SensorsInv, SensorsTypeOK', NEW s \in Sources, Registered(s),
           NEW r \in Sample(src[s].kind), ~r.err,
           samples' = [samples EXCEPT ![s] = Stored(s, r)], heard' = [heard EXCEPT ![s] = 0],
           cnt' = cnt, due' = due,
           \A z \in Sources : (Snmp(z)' <=> Snmp(z)) /\ (Pollable(z) => Pollable(z)'),
           Snmp(s) => r.p.n = NoReading \/ r.p.n = cnt,
           Snmp(s) /\ ~r.lap => \A i \in DOMAIN samples[s] : samples[s][i].age >= r.age,
           \A u \in Threads : poll'[u] = poll[u] \/ poll'[u] = NoPoll,
           Snmp(s) => \A u \in Threads : Polling(u, s)' => poll[u].lap
    PROVE  SensorsInv'
  <1>0. SensorsTypeOK
    BY DEF SensorsInv
  <1> DEFINE new == Stored(s, r)
  <1>1. PICK k \in 1 .. Len(samples[s]) + 1 :
          /\ \A i \in DOMAIN samples[s] : samples[s][i].age >= r.age => k <= i
          /\ \A i \in DOMAIN new : \/ /\ i < k /\ i \in DOMAIN samples[s]
                                      /\ new[i] = samples[s][i]
                                   \/ i = k /\ new[i] = r
                                   \/ /\ i > k /\ i - 1 \in DOMAIN samples[s]
                                      /\ new[i] = samples[s][i - 1]
    BY <1>0, StoredRows
  <1>2. new \in Seq(Sample(src[s].kind))
    BY <1>0, StoredRows
  <1>3. samples'[s] = new /\ \A z \in Sources \ {s} : samples'[z] = samples[z]
    BY <1>0 DEF SensorsTypeOK
  <1> HIDE DEF new
  <1>4. HeardInv'
    <2> SUFFICES ASSUME NEW z \in Sources, NEW i \in DOMAIN samples'[z]
                 PROVE  samples'[z][i].age >= heard'[z]
      BY DEF HeardInv
    <2>1. CASE z = s
      <3>1. new[i] \in Sample(src[s].kind)
        BY <2>1, <1>2, <1>3
      <3>2. new[i].age \in 0 .. Old
        BY <3>1 DEF Sample
      <3>3. heard'[s] = 0
        BY <1>0 DEF SensorsTypeOK
      <3> QED
        BY <2>1, <3>2, <3>3, <1>3 DEF Old
    <2>2. CASE z # s
      BY <2>2, <1>3, <1>0 DEF SensorsInv, HeardInv, SensorsTypeOK
    <2> QED
      BY <2>1, <2>2
  <1>5. ASSUME NEW z \in Sources, Snmp(z)', z = s
        PROVE  /\ Snmp(s) /\ cnt \in Nat
               /\ \A i \in DOMAIN samples[s] : samples[s][i].p.n = NoReading \/ samples[s][i].p.n \in Nat
    BY <1>0, <1>5, SnmpSample, SensorsAssumption DEF SensorsTypeOK
  <1>6. CountInv'
    <2> SUFFICES ASSUME NEW z \in Sources, Snmp(z)', NEW i \in DOMAIN samples'[z],
                        ~samples'[z][i].err, samples'[z][i].p.n # NoReading
                 PROVE  samples'[z][i].p.n >= cnt'
      BY DEF CountInv, NoReading
    <2>1. CASE z = s
      <3>1. Snmp(s) /\ cnt \in Nat
        BY <2>1, <1>5
      <3>2. \A j \in DOMAIN samples[s] :
                ~samples[s][j].err /\ samples[s][j].p.n # NoReading => samples[s][j].p.n >= cnt
        BY <3>1 DEF SensorsInv, CountInv
      <3> QED
        BY <2>1, <3>1, <3>2, <1>1, <1>3
    <2>2. CASE z # s
      BY <2>2, <1>3 DEF SensorsInv, CountInv
    <2> QED
      BY <2>1, <2>2
  <1>7. PairInv'
    <2> SUFFICES ASSUME NEW z \in Sources, Snmp(z)', NEW i \in DOMAIN samples'[z],
                        NEW j \in DOMAIN samples'[z], i < j,
                        ~samples'[z][i].lap, ~samples'[z][j].lap,
                        samples'[z][i].p.n # NoReading, samples'[z][j].p.n # NoReading,
                        samples'[z][i].p.n > samples'[z][j].p.n
                 PROVE  samples'[z][j].err
      BY DEF PairInv, NoReading
    <2>1. CASE z = s
      <3>1. /\ Snmp(s) /\ cnt \in Nat
            /\ \A m \in DOMAIN samples[s] : samples[s][m].p.n = NoReading \/ samples[s][m].p.n \in Nat
        BY <2>1, <1>5
      <3>2. \A m \in DOMAIN samples[s] :
                ~samples[s][m].err /\ samples[s][m].p.n # NoReading => samples[s][m].p.n >= cnt
        BY <3>1 DEF SensorsInv, CountInv
      <3>3. \A m, n \in DOMAIN samples[s] :
              /\ m < n /\ ~samples[s][m].lap /\ ~samples[s][n].lap
              /\ samples[s][m].p.n # NoReading /\ samples[s][n].p.n # NoReading
              /\ samples[s][m].p.n > samples[s][n].p.n
              => samples[s][n].err
        BY <3>1 DEF SensorsInv, PairInv
      <3>4. samples[s] \in Seq(Sample(src[s].kind)) /\ DOMAIN samples[s] = 1 .. Len(samples[s])
            /\ Len(samples[s]) \in Nat
        BY <1>0, RowOf
      <3>5. i \in Nat /\ j \in Nat /\ i >= 1 /\ i \in DOMAIN new /\ j \in DOMAIN new
            /\ samples'[z][i] = new[i] /\ samples'[z][j] = new[j]
        BY <2>1, <1>2, <1>3
      <3>6. CASE r.lap
        <4>1. i # k /\ j # k
          BY <3>5, <3>6, <1>1
        <4>2. PICK m \in DOMAIN samples[s], n \in DOMAIN samples[s] :
                 m < n /\ new[i] = samples[s][m] /\ new[j] = samples[s][n]
          BY <3>4, <3>5, <4>1, <1>1
        <4> QED
          BY <3>3, <3>5, <4>2
      <3>7. CASE ~r.lap
        <4>1. k = 1
          <5>1. \A m \in DOMAIN samples[s] : samples[s][m].age >= r.age
            BY <3>1, <3>7
          <5>2. CASE Len(samples[s]) = 0
            BY <5>2
          <5>3. CASE Len(samples[s]) # 0
            <6>1. 1 \in DOMAIN samples[s]
              BY <3>4, <5>3
            <6>2. samples[s][1].age \in Nat /\ r.age \in Nat
              <7>1. samples[s][1] \in Sample(src[s].kind)
                BY <3>4, <6>1
              <7>2. samples[s][1].age \in 0 .. Old /\ r.age \in 0 .. Old
                BY <7>1 DEF Sample
              <7> QED
                BY <7>2
            <6> QED
              BY <1>1, <5>1, <6>1, <6>2
          <5> QED
            BY <5>2, <5>3
        <4>2. j > 1 /\ j - 1 \in DOMAIN samples[s] /\ new[j] = samples[s][j - 1]
          BY <3>5, <4>1, <1>1
        <4>3. CASE i = 1
          BY <4>1, <4>2, <4>3, <3>1, <3>2, <3>5, <1>1
        <4>4. CASE i > 1
          <5>1. i - 1 \in DOMAIN samples[s] /\ new[i] = samples[s][i - 1]
            BY <3>5, <4>1, <4>4, <1>1
          <5> QED
            BY <4>2, <5>1, <3>3, <3>5
        <4> QED
          BY <4>3, <4>4, <3>5, <4>1, <1>2
      <3> QED
        BY <3>6, <3>7
    <2>2. CASE z # s
      BY <2>2, <1>3 DEF SensorsInv, PairInv
    <2> QED
      BY <2>1, <2>2
  <1>8. PollInv'
    <2> SUFFICES ASSUME NEW u \in Threads, NEW z \in Sources, Polling(u, z)'
                 PROVE  /\ Pollable(z)'
                        /\ Snmp(z)' /\ ~poll'[u].lap =>
                             /\ \A v \in Threads \ {u} : ~Polling(v, z)'
                             /\ \A i \in DOMAIN samples'[z] : samples'[z][i].age >= poll'[u].age
      BY DEF PollInv
    <2>1. \A v \in Threads : Polling(v, z)' => Polling(v, z) /\ poll'[v] = poll[v]
      BY DEF Polling, NoPoll
    <2>2. CASE z = s
      BY <2>1, <2>2 DEF SensorsInv, PollInv
    <2>3. CASE z # s
      BY <2>1, <2>3, <1>3 DEF SensorsInv, PollInv
    <2> QED
      BY <2>2, <2>3
  <1>9. DueInv'
    BY <1>0 DEF SensorsInv, DueInv, SensorsTypeOK
  <1> QED
    BY <1>4, <1>6, <1>7, <1>8, <1>9 DEF SensorsInv


\* The columns of the row other than its kind, as a poll or an arrival writes them.
LEMMA PolledRow ==
    ASSUME SensorsTypeOK, NEW s \in Sources, Registered(s), NEW age \in Int,
           src' = [src EXCEPT ![s].polled = age]
    PROVE  /\ src' \in [Sources -> {Gone} \cup {Free(k) : k \in EXTERNAL_SOURCE_KINDS \cup {"none"}}
                          \cup SourceRow]
           /\ \A z \in Sources : /\ src'[z].st = src[z].st
                                 /\ Registered(z)' <=> Registered(z)
                                 /\ Registered(z) => src'[z].kind = src[z].kind
                                 /\ Snmp(z)' <=> Snmp(z)
                                 /\ Pollable(z) => Pollable(z)'
  <1> DEFINE row == [src[s] EXCEPT !.polled = age]
  <1>1. row \in SourceRow /\ row.kind = src[s].kind /\ src' = [src EXCEPT ![s] = row]
    BY RowOf DEF SourceRow
  <1> HIDE DEF row
  <1>2. /\ src' \in [Sources -> {Gone} \cup {Free(k) : k \in EXTERNAL_SOURCE_KINDS \cup {"none"}}
                          \cup SourceRow]
        /\ \A z \in Sources : /\ src'[z].st = src[z].st
                              /\ Registered(z)' <=> Registered(z)
                              /\ Registered(z) => src'[z].kind = src[z].kind
                              /\ Snmp(z)' <=> Snmp(z)
    BY <1>1, RowUpdate
  <1> QED
    BY <1>2 DEF Pollable, Inbound

\* A stored sample keeps the types.
LEMMA StoreType ==
    ASSUME SensorsTypeOK, NEW s \in Sources, Registered(s), NEW age \in Int,
           NEW r \in Sample(src[s].kind), src' = [src EXCEPT ![s].polled = age],
           samples' = [samples EXCEPT ![s] = Stored(s, r)], heard' = [heard EXCEPT ![s] = 0],
           poll' \in [Threads -> {NoPoll} \cup PollRecord],
           UNCHANGED <<due, clients, cnt>>
    PROVE  SensorsTypeOK'
  <1>1. /\ Stored(s, r) \in Seq(Sample(src[s].kind))
        /\ Len(Stored(s, r)) <= Depth(src[s].kind)
    BY StoredRows
  <1>2. heard' \in [Sources -> 0 .. Old]
    BY SensorsAssumption DEF SensorsTypeOK, Old
  <1>3. \A z \in Sources :
          IF Registered(z)'
          THEN samples'[z] \in Seq(Sample(src'[z].kind)) /\ Len(samples'[z]) <= Depth(src'[z].kind)
          ELSE samples'[z] = <<>>
    BY <1>1, PolledRow DEF SensorsTypeOK
  <1>4. DOMAIN samples' = Sources
    BY DEF SensorsTypeOK
  <1>5. src' \in [Sources -> {Gone} \cup {Free(k) : k \in EXTERNAL_SOURCE_KINDS \cup {"none"}}
                          \cup SourceRow]
    BY PolledRow
  <1> QED
    BY <1>2, <1>3, <1>4, <1>5 DEF SensorsTypeOK

LEMMA EventPayload ==
    ASSUME NEW p \in [from: 0 .. 1, to: 0 .. 2, naive: BOOLEAN]
    PROVE  p \in [from: Nat, to: Nat, naive: BOOLEAN]
  <1>1. p.from \in 0 .. 1 /\ p.to \in 0 .. 2 /\ p.naive \in BOOLEAN
    OBVIOUS
  <1>2. p = [from |-> p.from, to |-> p.to, naive |-> p.naive]
    OBVIOUS
  <1>3. p.from \in Nat /\ p.to \in Nat
    BY <1>1
  <1> QED
    BY <1>1, <1>2, <1>3

\* What a poll brings back is a payload of its kind; of an SNMP source it
\* has the counter of that moment, or none.
LEMMA Readings ==
    ASSUME SensorsTypeOK, NEW kind \in EXTERNAL_SOURCE_KINDS \ (WEBHOOK_KINDS \cup SUBSCRIBER_KINDS),
           NEW p \in _poll_kind(kind)
    PROVE  /\ p \in Payload(kind)
           /\ kind = "snmp" => p.n = NoReading \/ p.n = cnt
  <1> USE SensorsAssumption DEF _poll_kind, Payload, CalendarKinds, WEBHOOK_KINDS,
                                SUBSCRIBER_KINDS, SolarKinds, NoReading
  <1>1. CASE kind = "roku"
    BY <1>1 DEF _poll_roku
  <1>2. CASE kind = "home_assistant"
    BY <1>2 DEF _poll_home_assistant
  <1>3. CASE kind = "weather"
    BY <1>3 DEF _poll_weather
  <1>4. CASE kind = "ical"
    <2>1. p \in _poll_ical /\ Payload(kind) = [from: Nat, to: Nat, naive: BOOLEAN]
      BY <1>4
    <2>2. p \in [from: 0 .. 1, to: 0 .. 2, naive: BOOLEAN]
      BY <2>1 DEF _poll_ical, _parse_ical_events
    <2>3. p \in [from: Nat, to: Nat, naive: BOOLEAN]
      BY <2>2, EventPayload
    <2> QED
      BY <1>4, <2>1, <2>3
  <1>5. CASE kind = "google_calendar"
    <2>1. p \in _poll_google_calendar /\ Payload(kind) = [from: Nat, to: Nat, naive: BOOLEAN]
      BY <1>5
    <2>2. p \in [from: 0 .. 1, to: 0 .. 2, naive: BOOLEAN]
      <3>1. CASE p \in [from: {0}, to: {2}, naive: BOOLEAN]
        BY <3>1
      <3>2. CASE p = [from |-> 0, to |-> 0, naive |-> FALSE]
        BY <3>2
      <3> QED
        BY <2>1, <3>1, <3>2 DEF _poll_google_calendar, _normalise_gcal_events
    <2>3. p \in [from: Nat, to: Nat, naive: BOOLEAN]
      BY <2>2, EventPayload
    <2> QED
      BY <1>5, <2>1, <2>3
  <1>6. CASE kind = "solaredge"
    BY <1>6 DEF _poll_solaredge
  <1>7. CASE kind = "enphase_envoy"
    BY <1>7 DEF _poll_enphase_envoy
  <1>8. CASE kind = "snmp"
    <2>1. p \in _poll_snmp(cnt) /\ Payload(kind) = [has: BOOLEAN, up: BOOLEAN, n: {-1} \cup 0 .. CounterMax]
      BY <1>8
    <2>2. cnt \in 0 .. CounterMax
      BY DEF SensorsTypeOK
    <2>3. CASE p \in [has: {TRUE}, up: BOOLEAN, n: {cnt}]
      BY <2>1, <2>2, <2>3
    <2>4. CASE p = [has |-> TRUE, up |-> FALSE, n |-> -1]
      BY <2>1, <2>4
    <2>5. CASE p = [has |-> FALSE, up |-> FALSE, n |-> -1]
      BY <2>1, <2>5
    <2> QED
      BY <2>1, <2>3, <2>4, <2>5 DEF _poll_snmp, _parse_snmp_table
  <1> QED
    BY <1>1, <1>2, <1>3, <1>4, <1>5, <1>6, <1>7, <1>8 DEF EXTERNAL_SOURCE_KINDS


LEMMA SuccessStores ==
    ASSUME SensorsInv, NEW t \in Threads, Success(t)
    PROVE  SensorsInv'
  <1>0. SensorsTypeOK
    BY DEF SensorsInv
  <1>s. PICK s \in Sources : s = poll[t].src
    BY <1>0, PollOf DEF Success
  <1>1. /\ poll[t].on /\ Registered(s) /\ Polling(t, s)
        /\ poll[t].age \in Nat /\ poll[t].age <= Old /\ poll[t] \in PollRecord
    BY <1>0, <1>s, PollOf DEF Success, Polling
  <1>2. PICK p \in _poll_kind(src[s].kind) :
          samples' = [samples EXCEPT ![s] = Stored(s, ExternalSensorSample(poll[t].age, p, poll[t].lap))]
    BY <1>s DEF Success
  <1>a. PICK age \in Int : age = AtMost(poll[t].age, Interval)
    BY <1>1, SensorsAssumption DEF AtMost
  <1>3. /\ src' = [src EXCEPT ![s].polled = age]
        /\ heard' = [heard EXCEPT ![s] = 0]
        /\ poll' = [poll EXCEPT ![t] = NoPoll]
        /\ UNCHANGED <<due, clients, cnt>>
    BY <1>a, <1>s DEF Success, Leaves
  <1>4. /\ Pollable(s)
        /\ Snmp(s) /\ ~poll[t].lap => /\ \A u \in Threads \ {t} : ~Polling(u, s)
                                    /\ \A i \in DOMAIN samples[s] : samples[s][i].age >= poll[t].age
    BY <1>1 DEF SensorsInv, PollInv
  <1> DEFINE r == ExternalSensorSample(poll[t].age, p, poll[t].lap)
  <1>5. /\ p \in Payload(src[s].kind)
        /\ src[s].kind = "snmp" => p.n = NoReading \/ p.n = cnt
    <2>1. src[s].kind \in EXTERNAL_SOURCE_KINDS
      BY <1>0, <1>1, RowOf DEF SourceRow
    <2>2. src[s].kind \notin WEBHOOK_KINDS \cup SUBSCRIBER_KINDS
      BY <1>1, <1>4 DEF Pollable, Inbound
    <2> QED
      BY <1>0, <2>1, <2>2, Readings
  <1>6. /\ r \in Sample(src[s].kind) /\ ~r.err
        /\ r.p = p /\ r.age = poll[t].age /\ r.lap = poll[t].lap
    <2>0. poll[t].lap \in BOOLEAN
      BY <1>1 DEF PollRecord
    <2>1. poll[t].age \in 0 .. Old
      BY <1>1, SensorsAssumption DEF Old
    <2> QED
      BY <2>0, <2>1, <1>5 DEF ExternalSensorSample, Sample
  <1> HIDE DEF r
  <1>7. samples' = [samples EXCEPT ![s] = Stored(s, r)]
    BY <1>2 DEF r
  <1>8. \A u \in Threads : poll'[u] = poll[u] \/ poll'[u] = NoPoll
    BY <1>0, <1>3 DEF SensorsTypeOK
  <1>9. poll' \in [Threads -> {NoPoll} \cup PollRecord]
    BY <1>0, <1>3 DEF SensorsTypeOK
  <1>10. SensorsTypeOK'
    BY <1>0, <1>1, <1>3, <1>6, <1>7, <1>9, StoreType
  <1>11. \A z \in Sources : (Snmp(z)' <=> Snmp(z)) /\ (Pollable(z) => Pollable(z)')
    BY <1>0, <1>1, <1>3, <1>7, PolledRow
  <1>12. Snmp(s) => \A u \in Threads : Polling(u, s)' => poll[u].lap
    <2> SUFFICES ASSUME Snmp(s), NEW u \in Threads, Polling(u, s)' PROVE poll[u].lap
      OBVIOUS
    <2>0. poll'[t] = NoPoll /\ \A v \in Threads \ {t} : poll'[v] = poll[v]
      BY <1>0, <1>3 DEF SensorsTypeOK
    <2>1. u # t /\ poll'[u] = poll[u] /\ Polling(u, s)
      <3>1. ~poll'[t].on
        BY <2>0 DEF NoPoll
      <3> QED
        BY <2>0, <3>1 DEF Polling
    <2>2. ~poll[u].lap => \A v \in Threads \ {u} : ~Polling(v, s)
      BY <2>1, <1>1 DEF SensorsInv, PollInv
    <2> QED
      BY <1>1, <2>1, <2>2
  <1>13. Snmp(s) => r.p.n = NoReading \/ r.p.n = cnt
    BY <1>5, <1>6 DEF Snmp
  <1>14. Snmp(s) /\ ~r.lap => \A i \in DOMAIN samples[s] : samples[s][i].age >= r.age
    BY <1>4, <1>6
  <1> QED
    BY <1>1, <1>3, <1>6, <1>7, <1>8, <1>10, <1>11, <1>12, <1>13, <1>14, StoreStep

LEMMA RecordStores ==
    ASSUME SensorsInv, NEW s \in Sources, NEW p \in Payload(src[s].kind), Inbound(s),
           Record(s, p)
    PROVE  SensorsInv'
  <1>0. SensorsTypeOK /\ Registered(s)
    BY DEF SensorsInv, Record
  <1>1. ~Snmp(s)
    BY DEF Snmp, Inbound, WEBHOOK_KINDS, SUBSCRIBER_KINDS
  <1> DEFINE r == ExternalSensorSample(0, p, FALSE)
  <1>2. r \in Sample(src[s].kind) /\ ~r.err
    BY SensorsAssumption DEF ExternalSensorSample, Sample, Old
  <1>3. /\ samples' = [samples EXCEPT ![s] = Stored(s, r)] /\ heard' = [heard EXCEPT ![s] = 0]
        /\ UNCHANGED <<poll, due, clients, cnt>>
    BY DEF Record
  <1> HIDE DEF r
  <1>a. PICK age \in Int : src' = [src EXCEPT ![s].polled = age]
    <2>1. src' = [src EXCEPT ![s].polled = 0]
      BY DEF Record
    <2>2. WITNESS 0 \in Int
    <2> QED
      BY <2>1
  <1>4. SensorsTypeOK'
    <2>1. poll' \in [Threads -> {NoPoll} \cup PollRecord]
      BY <1>0, <1>3 DEF SensorsTypeOK
    <2> QED
      BY <1>0, <1>2, <1>3, <1>a, <2>1, StoreType
  <1>5. \A z \in Sources : (Snmp(z)' <=> Snmp(z)) /\ (Pollable(z) => Pollable(z)')
    BY <1>0, <1>3, <1>a, PolledRow
  <1> QED
    BY <1>0, <1>1, <1>2, <1>3, <1>4, <1>5, StoreStep

LEMMA WebhookStores ==
    ASSUME SensorsInv, webhook_inbound
    PROVE  SensorsInv'
  <1>1. PICK s \in Sources, event \in {"play", "pause", "unpause", "other"} :
          src[s].kind \in WEBHOOK_KINDS /\ Record(s, event)
    BY DEF webhook_inbound, record_webhook_event
  <1>2. Payload(src[s].kind) = {"play", "pause", "unpause", "other"}
    BY <1>1 DEF Payload, WEBHOOK_KINDS, CalendarKinds, SUBSCRIBER_KINDS
  <1> QED
    BY <1>1, <1>2, RecordStores DEF Inbound

LEMMA MessageStores ==
    ASSUME SensorsInv, _on_message
    PROVE  SensorsInv'
  <1>1. PICK s \in clients, topic \in Topics, msg \in BOOLEAN :
          src[s].kind = "mqtt" /\ Record(s, [topic |-> topic, msg |-> msg])
    BY DEF _on_message, record_mqtt_message
  <1>2. Payload(src[s].kind) = [topic: Topics, msg: BOOLEAN]
    BY <1>1 DEF Payload, WEBHOOK_KINDS, CalendarKinds, SUBSCRIBER_KINDS
  <1>3. s \in Sources
    BY DEF SensorsInv, SensorsTypeOK
  <1>4. [topic |-> topic, msg |-> msg] \in Payload(src[s].kind)
    BY <1>2
  <1> QED
    BY <1>1, <1>3, <1>4, RecordStores DEF Inbound, SUBSCRIBER_KINDS

\* A sample grows older by one step and keeps its reading, unless that is
\* a calendar's.
LEMMA AgedSample ==
    ASSUME SensorsTypeOK, NEW s \in Sources, Registered(s), NEW r \in Sample(src[s].kind)
    PROVE  /\ AgedRow(s, r) \in Sample(src[s].kind)
           /\ AgedRow(s, r).age = Older(r.age, Old)
           /\ AgedRow(s, r).err = r.err /\ AgedRow(s, r).lap = r.lap
           /\ Snmp(s) => AgedRow(s, r).p = r.p
  <1>1. r.age \in 0 .. Old /\ r.p \in Payload(src[s].kind)
    BY DEF Sample
  <1>2. Older(r.age, Old) \in 0 .. Old
    BY <1>1, SensorsAssumption DEF Older, AtMost, Old
  <1>3. Aged(src[s].kind, r.p) \in Payload(src[s].kind)
    <2>1. CASE src[s].kind \in CalendarKinds
      <3>1. Payload(src[s].kind) = [from: Nat, to: Nat, naive: BOOLEAN]
        BY <2>1 DEF Payload, CalendarKinds, SUBSCRIBER_KINDS, WEBHOOK_KINDS
      <3> DEFINE e == r.p
                 nearer(n) == IF n > 0 THEN n - 1 ELSE 0
      <3>2. e \in [from: Nat, to: Nat, naive: BOOLEAN]
        BY <3>1, <1>1
      <3>3. Aged(src[s].kind, e) = [e EXCEPT !.from = nearer(e.from), !.to = nearer(e.to)]
        BY <2>1, <3>2 DEF Aged
      <3> HIDE DEF e
      <3>4. nearer(e.from) \in Nat /\ nearer(e.to) \in Nat
        BY <3>2
      <3> HIDE DEF nearer
      <3>5. [e EXCEPT !.from = nearer(e.from), !.to = nearer(e.to)]
               \in [from: Nat, to: Nat, naive: BOOLEAN]
        BY <3>2, <3>4
      <3> QED
        BY <3>1, <3>3, <3>5 DEF e
    <2>2. CASE src[s].kind \notin CalendarKinds
      BY <2>2, <1>1 DEF Aged
    <2> QED
      BY <2>1, <2>2
  <1>4. AgedRow(s, r) = [r EXCEPT !.age = Older(r.age, Old), !.p = Aged(src[s].kind, r.p)]
    BY DEF AgedRow, Sample
  <1>5. Snmp(s) => Aged(src[s].kind, r.p) = r.p
    BY DEF Snmp, Aged, CalendarKinds
  <1> HIDE DEF AgedRow
  <1> QED
    BY <1>2, <1>3, <1>4, <1>5 DEF Sample

LEMMA AdvanceAges ==
    ASSUME SensorsInv, Advance
    PROVE  SensorsInv'
  <1>0. SensorsTypeOK
    BY DEF SensorsInv
  <1>a. MaxAge \in Nat /\ Old = MaxAge + 1
        /\ Interval \in Nat
    BY SensorsAssumption DEF Old
  <1>1. /\ src' \in [Sources -> {Gone} \cup {Free(k) : k \in EXTERNAL_SOURCE_KINDS \cup {"none"}}
                          \cup SourceRow]
        /\ \A z \in Sources : /\ src'[z].st = src[z].st
                              /\ Registered(z)' <=> Registered(z)
                              /\ Registered(z) => src'[z].kind = src[z].kind
                              /\ Snmp(z)' <=> Snmp(z)
                              /\ Pollable(z) => Pollable(z)'
    <2>1. ASSUME NEW z \in Sources, Registered(z)
          PROVE  [src[z] EXCEPT !.polled = Older(@, Interval)] \in SourceRow
      BY <1>0, <1>a, <2>1, RowOf DEF SourceRow, Older, AtMost
    <2>2. \A z \in Sources :
             /\ src'[z] \in {Gone} \cup {Free(k) : k \in EXTERNAL_SOURCE_KINDS \cup {"none"}} \cup SourceRow
             /\ src'[z].st = src[z].st
             /\ Registered(z) => src'[z].kind = src[z].kind
      BY <1>0, <2>1, RowOf DEF Advance, SensorsTypeOK, SourceRow
    <2>3. src' = [z \in Sources |-> src'[z]]
      BY DEF Advance
    <2>4. src' \in [Sources -> {Gone} \cup {Free(k) : k \in EXTERNAL_SOURCE_KINDS \cup {"none"}}
                          \cup SourceRow]
      BY <2>2, <2>3
    <2> QED
      BY <2>2, <2>4 DEF Registered, Snmp, Pollable, Inbound
  <1>2. ASSUME NEW s \in Sources
        PROVE  /\ DOMAIN samples'[s] = DOMAIN samples[s]
               /\ \A i \in DOMAIN samples[s] : samples'[s][i] = AgedRow(s, samples[s][i])
    BY DEF Advance
  <1>3. ASSUME NEW s \in Sources, Registered(s), NEW i \in DOMAIN samples[s]
        PROVE  /\ samples[s][i] \in Sample(src[s].kind)
               /\ samples[s][i].age \in 0 .. Old
               /\ samples'[s][i] \in Sample(src[s].kind)
               /\ samples'[s][i].age = Older(samples[s][i].age, Old)
               /\ samples'[s][i].err = samples[s][i].err /\ samples'[s][i].lap = samples[s][i].lap
               /\ Snmp(s) => samples'[s][i].p = samples[s][i].p
    <2>1. samples[s] \in Seq(Sample(src[s].kind))
      BY <1>0, <1>3, RowOf
    <2>2. samples[s][i] \in Sample(src[s].kind)
      BY <2>1
    <2> QED
      BY <1>0, <1>2, <1>3, <2>2, AgedSample DEF Sample
  <1>4. ASSUME NEW s \in Sources, ~Registered(s)
        PROVE  DOMAIN samples[s] = {} /\ samples'[s] = <<>>
    <2>1. samples[s] = <<>> /\ DOMAIN samples[s] = {}
      BY <1>0, <1>4, RowOf
    <2>2. samples'[s] = [i \in {} |-> AgedRow(s, samples[s][i])]
      BY <2>1 DEF Advance
    <2> QED
      BY <2>1, <2>2
  <1>5. ASSUME NEW s \in Sources, Registered(s)
        PROVE  samples'[s] \in Seq(Sample(src[s].kind)) /\ Len(samples'[s]) = Len(samples[s])
    <2>1. /\ samples[s] \in Seq(Sample(src[s].kind)) /\ Len(samples[s]) \in Nat
          /\ DOMAIN samples[s] = 1 .. Len(samples[s])
      BY <1>0, <1>5, RowOf
    <2>2. samples'[s] = [i \in 1 .. Len(samples[s]) |-> AgedRow(s, samples[s][i])]
      BY <2>1 DEF Advance
    <2>3. \A i \in 1 .. Len(samples[s]) : AgedRow(s, samples[s][i]) \in Sample(src[s].kind)
      BY <1>2, <1>3, <1>5, <2>1
    <2> QED
      BY <2>1, <2>2, <2>3
  <1>6. ASSUME NEW t \in Threads
        PROVE  /\ poll[t].on => /\ poll'[t] \in PollRecord /\ poll'[t].on
                                /\ poll'[t].src = poll[t].src /\ poll'[t].lap = poll[t].lap
                                /\ poll'[t].age = Older(poll[t].age, Old)
                                /\ poll[t].age \in 0 .. Old
               /\ ~poll[t].on => poll'[t] = NoPoll
    <2>1. CASE poll[t].on
      <3>1. poll'[t] = [poll[t] EXCEPT !.age = Older(poll[t].age, Old)]
        BY <2>1 DEF Advance
      <3>2. poll[t] \in PollRecord /\ poll[t].age \in 0 .. Old
        BY <1>0, <1>a, <2>1, PollOf
      <3>3. Older(poll[t].age, Old) \in 0 .. Old
        BY <3>2, <1>a DEF Older, AtMost
      <3> QED
        BY <2>1, <3>1, <3>2, <3>3 DEF PollRecord
    <2>2. CASE ~poll[t].on
      BY <2>2 DEF Advance
    <2> QED
      BY <2>1, <2>2
  <1>7. poll' \in [Threads -> {NoPoll} \cup PollRecord]
    <2>1. poll' = [t \in Threads |-> poll'[t]]
      BY DEF Advance
    <2>2. \A t \in Threads : poll'[t] \in {NoPoll} \cup PollRecord
      BY <1>6
    <2> QED
      BY <2>1, <2>2
  <1>8. heard' \in [Sources -> 0 .. Old]
    BY <1>0, <1>a DEF Advance, SensorsTypeOK, Older, AtMost
  <1>9. SensorsTypeOK'
    <2>1. DOMAIN samples' = Sources
      BY DEF Advance
    <2>2. \A s \in Sources :
            IF Registered(s)'
            THEN samples'[s] \in Seq(Sample(src'[s].kind)) /\ Len(samples'[s]) <= Depth(src'[s].kind)
            ELSE samples'[s] = <<>>
      BY <1>0, <1>1, <1>4, <1>5, RowOf
    <2>3. UNCHANGED <<due, clients, cnt>>
      BY DEF Advance
    <2> QED
      BY <1>0, <1>1, <1>7, <1>8, <2>1, <2>2, <2>3 DEF SensorsTypeOK
  <1>10. HeardInv'
    <2> SUFFICES ASSUME NEW s \in Sources, NEW i \in DOMAIN samples'[s]
                 PROVE  samples'[s][i].age >= heard'[s]
      BY DEF HeardInv
    <2>1. i \in DOMAIN samples[s] /\ Registered(s)
      BY <1>2, <1>4
    <2>2. samples[s][i].age \in 0 .. Old /\ samples'[s][i].age = Older(samples[s][i].age, Old)
      BY <1>3, <2>1
    <2>3. heard[s] \in 0 .. Old /\ heard'[s] = Older(heard[s], Old) /\ samples[s][i].age >= heard[s]
      BY <1>0, <2>1 DEF Advance, SensorsTypeOK, SensorsInv, HeardInv
    <2> QED
      BY <2>2, <2>3, <1>a DEF Older, AtMost
  <1>11. CountInv' /\ PairInv'
    <2>1. cnt' = cnt
      BY DEF Advance
    <2>2. \A s \in Sources : Snmp(s)' => Snmp(s) /\ Registered(s)
      BY <1>1 DEF Snmp
    <2>3. \A s \in Sources : Snmp(s) => \A i \in DOMAIN samples[s] :
            /\ samples'[s][i].p = samples[s][i].p
            /\ samples'[s][i].err = samples[s][i].err /\ samples'[s][i].lap = samples[s][i].lap
      BY <1>3 DEF Snmp
    <2>4. CountInv'
      BY <2>1, <2>2, <2>3, <1>2 DEF SensorsInv, CountInv, NoReading
    <2>5. PairInv'
      BY <2>2, <2>3, <1>2 DEF SensorsInv, PairInv, NoReading
    <2> QED
      BY <2>4, <2>5
  <1>12. PollInv'
    <2> SUFFICES ASSUME NEW t \in Threads, NEW s \in Sources, Polling(t, s)'
                 PROVE  /\ Pollable(s)'
                        /\ Snmp(s)' /\ ~poll'[t].lap =>
                             /\ \A u \in Threads \ {t} : ~Polling(u, s)'
                             /\ \A i \in DOMAIN samples'[s] : samples'[s][i].age >= poll'[t].age
      BY DEF PollInv
    <2>1. \A u \in Threads : Polling(u, s)' => Polling(u, s)
      BY <1>6 DEF Polling, NoPoll
    <2>2. /\ poll'[t].lap = poll[t].lap /\ poll'[t].age = Older(poll[t].age, Old)
          /\ poll[t].age \in 0 .. Old
      BY <2>1, <1>6 DEF Polling
    <2>3. ASSUME Snmp(s), ~poll[t].lap, NEW i \in DOMAIN samples'[s]
          PROVE  samples'[s][i].age >= poll'[t].age
      <3>1. i \in DOMAIN samples[s] /\ samples[s][i].age >= poll[t].age
        BY <2>1, <2>3, <1>2 DEF SensorsInv, PollInv
      <3>2. samples[s][i].age \in 0 .. Old /\ samples'[s][i].age = Older(samples[s][i].age, Old)
        BY <3>1, <2>3, <1>3 DEF Snmp
      <3> QED
        BY <3>1, <3>2, <2>2, <1>a DEF Older, AtMost
    <2> QED
      BY <2>1, <2>2, <2>3, <1>1 DEF SensorsInv, PollInv
  <1>13. DueInv'
    BY <1>0, <1>1 DEF SensorsInv, DueInv, Advance, SensorsTypeOK
  <1> QED
    BY <1>9, <1>10, <1>11, <1>12, <1>13 DEF SensorsInv

LEMMA ErrorCounts ==
    ASSUME SensorsInv, CountError
    PROVE  SensorsInv'
  <1>0. SensorsTypeOK
    BY DEF SensorsInv
  <1>1. ASSUME NEW s \in Sources
        PROVE  /\ DOMAIN samples'[s] = DOMAIN samples[s]
               /\ samples'[s] = [i \in DOMAIN samples[s] |->
                                [samples[s][i] EXCEPT !.err = @ \/ src[s].kind = "snmp"]]
    BY DEF CountError
  <1>2. UNCHANGED <<src, poll, due, clients, heard>> /\ cnt' \in 0 .. CounterMax
    BY <1>0, SensorsAssumption DEF CountError, SensorsTypeOK
  <1>3. ASSUME NEW s \in Sources, Registered(s), NEW i \in DOMAIN samples[s]
        PROVE  /\ samples'[s][i] \in Sample(src[s].kind)
               /\ samples'[s][i].age = samples[s][i].age
               /\ samples'[s][i].lap = samples[s][i].lap /\ samples'[s][i].p = samples[s][i].p
               /\ Snmp(s) => samples'[s][i].err
    <2>1. samples[s] \in Seq(Sample(src[s].kind))
      BY <1>0, <1>3, RowOf
    <2>2. samples[s][i] \in Sample(src[s].kind)
      BY <2>1
    <2>3. samples'[s][i] = [samples[s][i] EXCEPT !.err = samples[s][i].err \/ src[s].kind = "snmp"]
      BY <1>1, <2>2 DEF Sample
    <2>4. (samples[s][i].err \/ src[s].kind = "snmp") \in BOOLEAN
      OBVIOUS
    <2> QED
      BY <2>2, <2>3, <2>4 DEF Sample, Snmp
  <1>4. ASSUME NEW s \in Sources, ~Registered(s)
        PROVE  DOMAIN samples[s] = {} /\ samples'[s] = <<>>
    <2>1. samples[s] = <<>> /\ DOMAIN samples[s] = {}
      BY <1>0, <1>4, RowOf
    <2>2. samples'[s] = [i \in {} |-> [samples[s][i] EXCEPT !.err = @ \/ src[s].kind = "snmp"]]
      BY <2>1 DEF CountError
    <2> QED
      BY <2>1, <2>2
  <1>5. ASSUME NEW s \in Sources, Registered(s)
        PROVE  samples'[s] \in Seq(Sample(src[s].kind)) /\ Len(samples'[s]) = Len(samples[s])
    <2>1. /\ samples[s] \in Seq(Sample(src[s].kind)) /\ Len(samples[s]) \in Nat
          /\ DOMAIN samples[s] = 1 .. Len(samples[s])
      BY <1>0, <1>5, RowOf
    <2> DEFINE F(i) == [samples[s][i] EXCEPT !.err = @ \/ src[s].kind = "snmp"]
    <2>2. samples'[s] = [i \in 1 .. Len(samples[s]) |-> F(i)]
      BY <2>1, <1>1
    <2> HIDE DEF F
    <2>3. \A i \in 1 .. Len(samples[s]) : F(i) \in Sample(src[s].kind)
      BY <1>3, <1>5, <2>1, <2>2
    <2> QED
      BY <2>1, <2>2, <2>3
  <1>6. \A s \in Sources : /\ Registered(s)' <=> Registered(s)
                           /\ Snmp(s)' <=> Snmp(s)
                           /\ Pollable(s)' <=> Pollable(s)
                           /\ \A t \in Threads : Polling(t, s)' <=> Polling(t, s)
    BY <1>2 DEF Registered, Snmp, Pollable, Inbound, Polling
  <1>7. SensorsTypeOK'
    <2>1. DOMAIN samples' = Sources
      BY DEF CountError
    <2>2. \A s \in Sources :
            IF Registered(s)'
            THEN samples'[s] \in Seq(Sample(src'[s].kind)) /\ Len(samples'[s]) <= Depth(src'[s].kind)
            ELSE samples'[s] = <<>>
      BY <1>0, <1>2, <1>4, <1>5, <1>6, RowOf
    <2> QED
      BY <1>0, <1>2, <2>1, <2>2 DEF SensorsTypeOK
  <1>8. HeardInv'
    <2> SUFFICES ASSUME NEW s \in Sources, NEW i \in DOMAIN samples'[s]
                 PROVE  samples'[s][i].age >= heard'[s]
      BY DEF HeardInv
    <2>1. i \in DOMAIN samples[s] /\ Registered(s)
      BY <1>1, <1>4
    <2> QED
      BY <1>2, <1>3, <2>1 DEF SensorsInv, HeardInv
  <1>9. CountInv' /\ PairInv'
    BY <1>1, <1>3, <1>6 DEF CountInv, PairInv, Snmp, NoReading
  <1>10. PollInv'
    BY <1>1, <1>2, <1>3, <1>6 DEF SensorsInv, PollInv, Snmp
  <1>11. DueInv'
    BY <1>0, <1>2, <1>6 DEF SensorsInv, DueInv, SensorsTypeOK
  <1> QED
    BY <1>7, <1>8, <1>9, <1>10, <1>11 DEF SensorsInv


LEMMA SensorsPreserved ==
    ASSUME SensorsInv, [SensorsNext]_sensorsVars
    PROVE  SensorsInv'
  <1>1. CASE UNCHANGED sensorsVars
    BY <1>1 DEF sensorsVars, SensorsInv, SensorsTypeOK, HeardInv, CountInv, PairInv, PollInv,
                DueInv, Snmp, Registered, Pollable, Inbound, Polling
  <1>2. CASE settings_integrations_add_submit
    BY <1>2, AddQuiet
  <1>3. CASE settings_integrations_delete_submit
    BY <1>3, DeleteQuiet
  <1>4. CASE settings_integrations_toggle_submit
    BY <1>4, ToggleQuiet
  <1>5. CASE \E s \in Sources : settings_integrations_probe_submit(s)
    BY <1>5, ProbeBegins
  <1>6. CASE poll_all_due
    BY <1>6, ListQuiet
  <1>7. CASE PollNext
    BY <1>7, NextBegins
  <1>8. CASE \E t \in Threads : Poll(t)
    BY <1>8, FailQuiet, SuccessStores, LostQuiet DEF Poll
  <1>9. CASE webhook_inbound
    BY <1>9, WebhookStores
  <1>10. CASE _on_message
    BY <1>10, MessageStores
  <1>11. CASE Restart
    BY <1>11, RestartQuiet
  <1>12. CASE Advance
    BY <1>12, AdvanceAges
  <1>13. CASE CountError
    BY <1>13, ErrorCounts
  <1>14. CASE AgentRestart
    BY <1>14, AgentRestartQuiet
  <1> QED
    BY <1>1, <1>2, <1>3, <1>4, <1>5, <1>6, <1>7, <1>8, <1>9, <1>10, <1>11, <1>12, <1>13,
       <1>14 DEF SensorsNext

\* Samples, polls and the counter stay consistent with what each source said
\* and when (poll_source, record_webhook_event, record_mqtt_message, the page's
\* test button).
THEOREM SensorsInvariant == SensorsSpec => []SensorsInv
  <1>1. SensorsInit => SensorsInv
    BY SensorsInitially
  <1>2. SensorsInv /\ [SensorsNext]_sensorsVars => SensorsInv'
    BY SensorsPreserved
  <1> QED
    BY <1>1, <1>2, PTL DEF SensorsSpec

\* Of a source that had nothing stored for too long no sample is fresh, so that
\* no probe takes an old one for evidence (_probe_roku_app_active,
\* latest_sample).
THEOREM SilenceProvesNothing == SensorsSpec => []SilenceIsNoEvidence
  <1>1. SensorsInv => SilenceIsNoEvidence
    <2> SUFFICES ASSUME SensorsInv, NEW s \in Sources, Registered(s), heard[s] > MaxAge,
                        NEW topic \in Topics
                 PROVE  LET kind == src[s].kind IN
                        /\ \A k \in PresenceProbes(kind) \cup ThresholdProbes(kind) :
                               ~run_probe(k, s, topic).ok
                        /\ \A k \in RateProbes(kind) : run_probe(k, s, topic).ok
      BY DEF SilenceIsNoEvidence
    <2>1. samples[s] \in Seq(Sample(src[s].kind)) /\ src[s].kind \in EXTERNAL_SOURCE_KINDS
      BY RowOf DEF SensorsInv, SourceRow
    <2>2. \A i \in DOMAIN samples[s] : ~Fresh(samples[s][i])
      <3> SUFFICES ASSUME NEW i \in DOMAIN samples[s] PROVE ~Fresh(samples[s][i])
        OBVIOUS
      <3>1. samples[s][i] \in Sample(src[s].kind)
        BY <2>1
      <3>2. samples[s][i].age \in 0 .. Old
        BY <3>1 DEF Sample
      <3>3. samples[s][i].age >= heard[s] /\ heard[s] \in 0 .. Old
        BY DEF SensorsInv, HeardInv, SensorsTypeOK
      <3> QED
        BY <3>2, <3>3, SensorsAssumption DEF Fresh, Old
    <2>3. latest_sample(s) = <<>>
      BY <2>1, <2>2 DEF latest_sample
    <2>4. latest_sample_for_topic(s, topic) = <<>>
      BY <2>2 DEF latest_sample_for_topic
    <2>5. last_two_samples(s) = <<>>
      BY <2>1, <2>2 DEF last_two_samples
    <2>6. \A k \in PresenceProbes(src[s].kind) \cup ThresholdProbes(src[s].kind) :
             ~run_probe(k, s, topic).ok
      <3> SUFFICES ASSUME NEW k \in PresenceProbes(src[s].kind) \cup ThresholdProbes(src[s].kind)
                   PROVE  run_probe(k, s, topic) = Stale
        BY DEF Stale, Verdict
      <3>1. k \in {"roku_app_active", "ha_state_is", "weather_alert_active", "ical_event_active",
                   "snmp_interface_down", "media_session_active", "webhook_field_equals",
                   "mqtt_topic_equals", "ha_numeric_above", "ha_numeric_below",
                   "solar_production_above", "solar_production_below"}
        BY <2>1 DEF PresenceProbes, ThresholdProbes, EXTERNAL_SOURCE_KINDS, CalendarKinds,
                    SolarKinds, WEBHOOK_KINDS, SUBSCRIBER_KINDS
      <3> QED
        BY <2>3, <2>4, <3>1 DEF run_probe, _probe_roku_app_active, latest_active_app, _probe_ha_state_is,
             _probe_ha_numeric, _probe_weather_alert_active, _probe_ical_event_active, _probe_solar,
             _probe_snmp_interface_down, _probe_media_session_active, _probe_webhook_field_equals,
             _probe_mqtt_topic_equals, Judge
    <2>7. \A k \in RateProbes(src[s].kind) : run_probe(k, s, topic).ok
      <3> SUFFICES ASSUME NEW k \in RateProbes(src[s].kind)
                   PROVE  run_probe(k, s, topic) = Verdict(TRUE, <<>>)
        BY DEF Verdict
      <3>1. k \in {"snmp_throughput_above", "snmp_throughput_below", "snmp_error_rate_above"}
        BY DEF RateProbes
      <3>2. _probe_snmp_error_rate(s) = Verdict(TRUE, <<>>)
        BY <2>5 DEF _probe_snmp_error_rate, _snmp_pair_interface
      <3>3. _probe_snmp_throughput(s, k) = Verdict(TRUE, <<>>)
        BY <2>5 DEF _probe_snmp_throughput, _snmp_pair_interface
      <3> QED
        BY <3>1, <3>2, <3>3 DEF run_probe
    <2> QED
      BY <2>6, <2>7
  <1> QED
    BY <1>1, SensorsInvariant, PTL

\* Two samples that did not overlap show more errors only if the agent has
\* counted one since the older of them (_snmp_counter_delta, last_two_samples).
THEOREM ErrorsAreCounted == SensorsSpec => []ErrorRuleNeedsErrors
  <1>1. SensorsInv => ErrorRuleNeedsErrors
    <2> SUFFICES ASSUME SensorsInv, NEW s \in Sources, Snmp(s),
                        ~_probe_snmp_error_rate(s).ok
                 PROVE  LET v == _probe_snmp_error_rate(s) IN
                        \/ \E i \in 1 .. 2 : ~v.from[i].p.has \/ v.from[i].lap
                        \/ v.from[2].err
      BY DEF ErrorRuleNeedsErrors, Snmp
    <2> DEFINE pair == last_two_samples(s)
    <2>1. pair # <<>>
      BY DEF _probe_snmp_error_rate, _snmp_pair_interface, Verdict
    <2>2. samples[s] \in Seq(Sample("snmp")) /\ Len(samples[s]) >= 2
      BY <2>1, RowOf DEF last_two_samples, SensorsInv, Snmp
    <2>3. /\ pair[1] = samples[s][1] /\ pair[2] = samples[s][2]
          /\ 1 \in DOMAIN samples[s] /\ 2 \in DOMAIN samples[s]
      BY <2>1, <2>2 DEF last_two_samples
    <2> HIDE DEF pair
    <2>4. _probe_snmp_error_rate(s).from = pair
      BY <2>1 DEF _probe_snmp_error_rate, _snmp_pair_interface, Verdict, pair
    <2>5. CASE ~(pair[1].p.has /\ pair[2].p.has)
      BY <2>4, <2>5
    <2>6. CASE pair[1].p.has /\ pair[2].p.has
      <3>1. ~(Delta(s) = NoReading \/ Delta(s) <= 0)
        BY <2>1, <2>6 DEF _probe_snmp_error_rate, _snmp_pair_interface, Verdict, pair
      <3>2. Delta(s) = _snmp_counter_delta(samples[s][1].p.n, samples[s][2].p.n)
        BY <2>3 DEF Delta, pair
      <3>3. /\ samples[s][1].p.n = NoReading \/ samples[s][1].p.n \in Nat
            /\ samples[s][2].p.n = NoReading \/ samples[s][2].p.n \in Nat
        BY <2>3, SnmpSample DEF SensorsInv
      <3>4. /\ samples[s][1].p.n # NoReading /\ samples[s][2].p.n # NoReading
            /\ samples[s][1].p.n > samples[s][2].p.n
        BY <3>1, <3>2, <3>3 DEF _snmp_counter_delta
      <3>5. samples[s][1].lap \/ samples[s][2].lap \/ samples[s][2].err
        BY <2>3, <3>4 DEF SensorsInv, PairInv
      <3> QED
        BY <2>3, <2>4, <3>5
    <2> QED
      BY <2>5, <2>6
  <1> QED
    BY <1>1, SensorsInvariant, PTL

-----------------------------------------------------------------------------
(* Schedules                                                               *)

\* A time that is not NULL is later than another.
Ahead(next, time) == next # NULL => next > time

\* The tick in progress has enqueued the power cycle of s.
TickFired(s) == job # NoJob /\ s \in job.done

\* No row falls due again at a time that ran, once the run is saved.
RunsInv ==
    \A s \in Schedule :
        /\ ran[s] <= clock
        /\ sched[s].next_run_at # NULL => sched[s].next_run_at >= ran[s]
        /\ s \notin unsaved /\ ~TickFired(s) => Ahead(sched[s].next_run_at, ran[s])

\* What a tick will write is later than what it runs, and than all that ran.
TickInv ==
    job # NoJob =>
        \A s \in DOMAIN job.update :
            LET u == job.update[s]
            IN  /\ u.due <= clock
                /\ Ahead(u.next_run_at, ran[s]) /\ Ahead(u.next_run_at, u.due)
                /\ sched[s].next_run_at # NULL => sched[s].next_run_at >= u.due
                /\ s \in job.todo => /\ u.due # NULL
                                     /\ u.due > ran[s] \/ (s \in unsaved /\ u.due = ran[s])

ScheduleInv == ScheduleTypeOK /\ RunsInv /\ TickInv

\* The start of a day and the start of the next enclose a time.
LEMMA DayOf ==
    ASSUME NEW n \in Nat, NEW D \in Nat \ {0}
    PROVE  (n \div D) * D \in Nat /\ n < (n \div D) * D + D
  <1>1. PICK k : k = n \div D
    OBVIOUS
  <1>2. k \in Nat
    BY <1>1
  <1>3. n % D \in 0 .. D - 1 /\ n = D * k + (n % D)
    BY <1>1
  <1>4. k * D \in Nat /\ k * D = D * k
    BY <1>2
  <1> QED
    BY <1>1, <1>3, <1>4

LEMMA CandidateIsLater ==
    ASSUME NEW c \in AnyConfig, NEW now \in Nat
    PROVE  Candidate(c, now) \in Nat /\ Candidate(c, now) > now
  <1>1. PICK day : day = (now \div Day) * Day
    OBVIOUS
  <1>2. Day \in Nat \ {0} /\ c.at \in 0 .. Day - 1
    BY ScheduleAssumption
  <1>3. day \in Nat /\ now < day + Day
    BY <1>1, <1>2, DayOf
  <1>4. Candidate(c, now) = IF day + c.at <= now THEN day + c.at + Day ELSE day + c.at
    BY <1>1 DEF Candidate
  <1>5. PICK at \in Nat : at = c.at
    BY <1>2
  <1> QED
    BY <1>2, <1>3, <1>4, <1>5

\* compute_next_run_at gives no time or a later one.
LEMMA NextRunIsLater ==
    ASSUME NEW row, row.config \in AnyConfig, NEW now \in Nat
    PROVE  compute_next_run_at(row, now) \in Nat /\ Ahead(compute_next_run_at(row, now), now)
  <1>1. PICK c : c = row.config
    OBVIOUS
  <1>2. /\ c \in AnyConfig /\ c.recurrence \in {"once", "daily", "weekly"}
        /\ c.start_at \in Nat /\ Day \in Nat
    BY <1>1, ScheduleAssumption
  <1>3. PICK first : first = Candidate(c, now)
    OBVIOUS
  <1>4. first \in Nat /\ first > now
    BY <1>2, <1>3, CandidateIsLater
  <1>5. CASE c.recurrence = "once"
    BY <1>1, <1>2, <1>5 DEF compute_next_run_at, Ahead, NULL
  <1>6. CASE c.recurrence = "daily"
    BY <1>1, <1>3, <1>4, <1>6 DEF compute_next_run_at, Ahead
  <1>7. CASE c.recurrence = "weekly"
    <2> DEFINE walk == {k \in 0 .. (DaysPerWeek - 1) : Weekday(first + k * Day) \in c.weekdays}
    <2>1. WeeklyRun(c, now) = IF walk = {} THEN NULL ELSE first + Min(walk) * Day
      BY <1>3 DEF WeeklyRun
    <2>2. compute_next_run_at(row, now) = WeeklyRun(c, now)
      BY <1>1, <1>7 DEF compute_next_run_at
    <2>3. walk \in SUBSET Nat
      BY DEF DaysPerWeek
    <2> HIDE DEF walk
    <2>4. CASE walk = {}
      BY <2>1, <2>2, <2>4 DEF Ahead, NULL
    <2>5. CASE walk # {}
      <3>1. PICK k \in Nat : k = Min(walk)
        BY <2>3, <2>5, MinOfNaturals
      <3>2. k * Day \in Nat
        BY <1>2
      <3>3. first + k * Day \in Nat /\ first + k * Day > now
        BY <1>4, <3>2
      <3> QED
        BY <2>1, <2>2, <2>5, <3>1, <3>3 DEF Ahead
    <2> QED
      BY <2>4, <2>5
  <1> QED
    BY <1>2, <1>5, <1>6, <1>7

LEMMA ClockTime == ASSUME ScheduleTypeOK PROVE clock \in Time /\ clock \in Nat /\ clock > 0
  BY ScheduleAssumption DEF ScheduleTypeOK, Time

\* A tick's own shape.
LEMMA TickShape ==
    ASSUME ScheduleTypeOK, job # NoJob
    PROVE  /\ job \in Tick(DOMAIN job.update) /\ DOMAIN job.update \in SUBSET Schedule
           /\ job.todo \subseteq DOMAIN job.update /\ job.done \subseteq DOMAIN job.update
           /\ \A s \in DOMAIN job.update : job.update[s] \in Columns
  <1>1. PICK dirty \in SUBSET Schedule : job \in Tick(dirty)
    BY DEF ScheduleTypeOK
  <1>2. job.update \in [dirty -> Columns] /\ job.todo \in SUBSET dirty /\ job.done \in SUBSET dirty
    BY <1>1 DEF Tick
  <1>3. DOMAIN job.update = dirty
    BY <1>2
  <1> QED
    BY <1>1, <1>2, <1>3

LEMMA TickIsNoJob == ASSUME NEW dirty, NEW j \in Tick(dirty) PROVE j # NoJob
  <1>1. j.at \in {"fire", "read", "reconcile", "commit"}
    BY DEF Tick
  <1>2. NoJob.at = "idle"
    BY DEF NoJob
  <1> QED
    BY <1>1, <1>2

\* What the loop makes of a row falls due after the tick, if it was due.
LEMMA ConsideredRow ==
    ASSUME NEW row \in Row, NEW now \in Time, now \in Nat
    PROVE  /\ Considered(row, now) \in Row
           /\ \/ Ahead(Considered(row, now).next_run_at, now)
              \/ Considered(row, now) = row /\ ~IsDue(row, now)
           /\ Considered(row, now) # row => row.next_run_at = NULL \/ IsDue(row, now)
  <1>1. row.config \in AnyConfig /\ row.next_run_at \in Nat
    BY DEF Row
  <1>2. CASE row.next_run_at = NULL
    <2>1. PICK n : n = compute_next_run_at(row, now)
      OBVIOUS
    <2>2. n \in Nat /\ Ahead(n, now)
      BY <1>1, <2>1, NextRunIsLater
    <2>3. Considered(row, now) = [row EXCEPT !.next_run_at = n]
      BY <1>2, <2>1 DEF Considered
    <2> QED
      BY <1>2, <2>2, <2>3 DEF Row
  <1>3. CASE IsDue(row, now)
    <2>1. PICK run : run = [row EXCEPT !.last_run_at = now]
      OBVIOUS
    <2>2. run \in Row /\ run.config \in AnyConfig
      BY <1>1, <2>1 DEF Row
    <2>3. PICK n : n = compute_next_run_at(run, now)
      OBVIOUS
    <2>4. n \in Nat /\ Ahead(n, now)
      BY <2>2, <2>3, NextRunIsLater
    <2>5. Considered(row, now) = [run EXCEPT !.next_run_at = n]
      BY <1>3, <2>1, <2>3 DEF Considered, AfterRun, IsDue
    <2> QED
      BY <1>3, <2>2, <2>4, <2>5 DEF Row
  <1>4. CASE row.next_run_at # NULL /\ ~IsDue(row, now)
    BY <1>4 DEF Considered
  <1> QED
    BY <1>2, <1>3, <1>4

LEMMA ScheduleInitially == ScheduleInit => ScheduleInv
  <1> SUFFICES ASSUME ScheduleInit PROVE ScheduleInv
    OBVIOUS
  <1>1. PICK c : c \in AnyConfig /\ c = CHOOSE x \in AnyConfig : TRUE
    BY ScheduleAssumption
  <1>2. NoRow("unused") \in Row /\ NoRow("unused").next_run_at = NULL
    BY <1>1 DEF NoRow, Row, NULL
  <1>3. NoFlag \in Flag
    BY DEF NoFlag, Flag
  <1>4. ScheduleTypeOK
    BY <1>2, <1>3, ScheduleAssumption DEF ScheduleInit, ScheduleTypeOK, Time, NULL
  <1>5. RunsInv
    BY <1>2 DEF ScheduleInit, RunsInv, NULL, Ahead
  <1> QED
    BY <1>4, <1>5 DEF ScheduleInv, ScheduleInit, TickInv

\* Operators change one row, to a time that is not behind or to none.
LEMMA OperatorRowStep ==
    ASSUME ScheduleInv, NEW s \in Schedule, NEW row \in Row,
           sched' = [sched EXCEPT ![s] = row], UNCHANGED <<clock, flag, job, lost>>,
           \/ /\ UNCHANGED <<ran, unsaved>>
              /\ row.next_run_at = sched[s].next_run_at \/ Ahead(row.next_run_at, clock)
           \/ /\ ran' = [ran EXCEPT ![s] = NULL] /\ unsaved' = unsaved \ {s}
              /\ row.next_run_at = NULL
    PROVE  ScheduleInv'
  <1>0. /\ ScheduleTypeOK /\ RunsInv /\ TickInv /\ sched \in [Schedule -> Row]
        /\ ran \in [Schedule -> Nat] /\ clock \in Nat
    BY ClockTime DEF ScheduleInv, ScheduleTypeOK
  <1>1. ScheduleTypeOK'
    <2>1. sched' \in [Schedule -> Row] /\ ran' \in [Schedule -> Nat] /\ unsaved' \subseteq Schedule
      BY <1>0 DEF ScheduleTypeOK, NULL
    <2> QED
      BY <1>0, <2>1 DEF ScheduleTypeOK
  <1>2. /\ sched'[s] = row /\ \A u \in Schedule \ {s} : sched'[u] = sched[u]
        /\ \A u \in Schedule \ {s} : ran'[u] = ran[u] /\ (u \in unsaved' <=> u \in unsaved)
        /\ row.next_run_at \in Nat /\ \A u \in Schedule : sched[u].next_run_at \in Nat /\ ran[u] \in Nat
        /\ \/ /\ ran'[s] = ran[s] /\ (s \in unsaved' <=> s \in unsaved)
              /\ row.next_run_at = sched[s].next_run_at \/ Ahead(row.next_run_at, clock)
           \/ ran'[s] = NULL /\ row.next_run_at = NULL
    BY <1>0 DEF Row
  <1>3. RunsInv'
    <2> SUFFICES ASSUME NEW u \in Schedule
                 PROVE  /\ ran'[u] <= clock'
                        /\ sched'[u].next_run_at # NULL => sched'[u].next_run_at >= ran'[u]
                        /\ u \notin unsaved' /\ ~TickFired(u)' => Ahead(sched'[u].next_run_at, ran'[u])
      BY DEF RunsInv, Ahead
    <2>1. TickFired(u)' <=> TickFired(u)
      BY DEF TickFired
    <2>2. CASE u # s
      BY <1>0, <1>2, <2>1, <2>2 DEF RunsInv
    <2>3. CASE u = s
      BY <1>0, <1>2, <2>1, <2>3 DEF RunsInv, Ahead, NULL
    <2> QED
      BY <2>2, <2>3
  <1>4. TickInv'
    <2> SUFFICES ASSUME job # NoJob, NEW u \in DOMAIN job.update
                 PROVE  /\ job.update[u].due <= clock
                        /\ Ahead(job.update[u].next_run_at, ran'[u])
                        /\ Ahead(job.update[u].next_run_at, job.update[u].due)
                        /\ sched'[u].next_run_at # NULL => sched'[u].next_run_at >= job.update[u].due
                        /\ u \in job.todo =>
                              /\ job.update[u].due # NULL
                              /\ \/ job.update[u].due > ran'[u]
                                 \/ u \in unsaved' /\ job.update[u].due = ran'[u]
      BY DEF TickInv, Ahead
    <2>1. u \in Schedule /\ job.update[u].due \in Nat /\ job.update[u].next_run_at \in Nat
      BY <1>0, TickShape, ScheduleAssumption DEF Columns, Time, NULL
    <2>2. /\ job.update[u].due <= clock
          /\ Ahead(job.update[u].next_run_at, ran[u])
          /\ Ahead(job.update[u].next_run_at, job.update[u].due)
          /\ sched[u].next_run_at # NULL => sched[u].next_run_at >= job.update[u].due
          /\ u \in job.todo => /\ job.update[u].due # NULL
                               /\ \/ job.update[u].due > ran[u]
                                  \/ u \in unsaved /\ job.update[u].due = ran[u]
      BY <1>0 DEF TickInv
    <2>3. CASE u # s
      BY <1>2, <2>1, <2>2, <2>3
    <2>4. CASE u = s
      BY <1>0, <1>2, <2>1, <2>2, <2>4 DEF Ahead, NULL
    <2> QED
      BY <2>3, <2>4
  <1> QED
    BY <1>1, <1>3, <1>4 DEF ScheduleInv

\* The tick looks at the flag and writes it, as operators do.
LEMMA MaintenanceStep ==
    ASSUME ScheduleInv, flag' \in Flag, UNCHANGED <<clock, sched, ran, unsaved, lost>>,
           \/ job' = job
           \/ /\ job # NoJob /\ job' \in Tick(DOMAIN job.update)
              /\ job'.update = job.update /\ job'.todo = job.todo /\ job'.done = job.done
    PROVE  ScheduleInv'
  <1>0. ScheduleTypeOK /\ RunsInv /\ TickInv
    BY DEF ScheduleInv
  <1>1. CASE job' = job
    BY <1>0, <1>1 DEF ScheduleInv, ScheduleTypeOK, RunsInv, TickInv, TickFired, Ahead, IsLive
  <1>2. CASE /\ job # NoJob /\ job' \in Tick(DOMAIN job.update)
             /\ job'.update = job.update /\ job'.todo = job.todo /\ job'.done = job.done
    <2>1. job' # NoJob /\ DOMAIN job.update \in SUBSET Schedule
      BY <1>0, <1>2, TickIsNoJob, TickShape
    <2>2. ScheduleTypeOK'
      BY <1>0, <1>2, <2>1 DEF ScheduleTypeOK
    <2>3. RunsInv'
      BY <1>0, <1>2, <2>1 DEF RunsInv, TickFired, Ahead
    <2>4. TickInv'
      BY <1>0, <1>2, <2>1 DEF TickInv, Ahead
    <2> QED
      BY <2>2, <2>3, <2>4 DEF ScheduleInv
  <1> QED
    BY <1>1, <1>2

LEMMA TickBegins == ASSUME ScheduleInv, tick_begin PROVE ScheduleInv'
  <1> DEFINE loaded == {s \in Schedule : IsLive(s) /\ sched[s].enabled}
             view == [s \in loaded |-> Considered(sched[s], clock)]
             dirty == {s \in loaded : IsDue(sched[s], clock) \/ view[s] # sched[s]}
             update == [s \in dirty |-> [due |-> sched[s].next_run_at,
                                         last_run_at |-> view[s].last_run_at,
                                         next_run_at |-> view[s].next_run_at]]
             todo == {s \in loaded : IsDue(sched[s], clock) /\ sched[s].config.kind = "power_cycle"}
  <1>0. /\ ScheduleTypeOK /\ RunsInv /\ sched \in [Schedule -> Row] /\ ran \in [Schedule -> Nat]
        /\ clock \in Time /\ clock \in Nat /\ job = NoJob
        /\ UNCHANGED <<clock, sched, flag, ran, unsaved, lost>>
    BY ClockTime DEF ScheduleInv, ScheduleTypeOK, tick_begin
  <1>1. job' = [at |-> "fire", windows |-> Windows(view, clock), update |-> update,
                todo |-> todo, done |-> {}, current |-> FALSE, details |-> NoFlag]
    BY DEF tick_begin
  <1>2. /\ \A s \in loaded : sched[s] \in Row /\ view[s] = Considered(sched[s], clock) /\ view[s] \in Row
        /\ dirty \in SUBSET Schedule /\ todo \in SUBSET dirty /\ DOMAIN view = loaded
    BY <1>0, ConsideredRow
  <1>3. \A s \in dirty : /\ update[s].due = sched[s].next_run_at
                         /\ update[s].last_run_at = view[s].last_run_at
                         /\ update[s].next_run_at = view[s].next_run_at
    OBVIOUS
  <1>4. ASSUME NEW s \in dirty
        PROVE  /\ update[s].due \in Nat /\ update[s].due <= clock
               /\ update[s].next_run_at \in Nat /\ Ahead(update[s].next_run_at, clock)
    <2>1. sched[s] \in Row /\ view[s] = Considered(sched[s], clock) /\ view[s] \in Row
      BY <1>2
    <2>2. sched[s].next_run_at \in Nat /\ view[s].next_run_at \in Nat
      BY <2>1 DEF Row
    <2>3. IsDue(sched[s], clock) \/ view[s] # sched[s]
      OBVIOUS
    <2> HIDE DEF view, dirty, update
    <2>4. Ahead(view[s].next_run_at, clock)
      BY <1>0, <2>1, <2>3, ConsideredRow
    <2>5. sched[s].next_run_at = NULL \/ IsDue(sched[s], clock)
      BY <1>0, <2>1, <2>3, ConsideredRow
    <2>6. sched[s].next_run_at <= clock
      BY <1>0, <2>2, <2>5 DEF IsDue, NULL
    <2> QED
      BY <1>3, <2>2, <2>4, <2>6
  <1>5. update \in [dirty -> Columns]
    <2>1. ASSUME NEW s \in dirty PROVE update[s] \in Columns
      <3>1. view[s].last_run_at \in Time \cup {NULL} /\ view[s].next_run_at \in Nat
        BY <1>2 DEF Row
      <3>2. sched[s].next_run_at \in Time \cup {NULL}
        <4>1. PICK n \in Nat : n = sched[s].next_run_at /\ n <= clock
          <5>1. update[s].due \in Nat /\ update[s].due <= clock
            BY <1>4
          <5>2. update[s].due = sched[s].next_run_at
            BY <1>3
          <5> HIDE DEF update
          <5> QED
            BY <5>1, <5>2
        <4>2. n = 0 \/ n \in 1 .. MaxTime
          BY <1>0, <4>1, ScheduleAssumption DEF Time
        <4> QED
          BY <4>1, <4>2 DEF Time, NULL
      <3>3. update[s] = [due |-> sched[s].next_run_at, last_run_at |-> view[s].last_run_at,
                         next_run_at |-> view[s].next_run_at]
        OBVIOUS
      <3> HIDE DEF update, view
      <3> QED
        BY <3>1, <3>2, <3>3 DEF Columns
    <2> QED
      BY <2>1
  <1>6. Windows(view, clock) \in SUBSET Time
    <2>1. \A s \in loaded : view[s].last_run_at \in Time \cup {NULL}
      BY <1>2 DEF Row
    <2> HIDE DEF view
    <2> QED
      BY <1>2, <2>1 DEF Windows
  <1> HIDE DEF loaded, view, dirty, update, todo
  <1>7. job' \in Tick(dirty)
    <2>1. NoFlag \in Flag
      BY DEF NoFlag, Flag
    <2> QED
      BY <1>1, <1>2, <1>5, <1>6, <2>1 DEF Tick
  <1>8. job' # NoJob /\ job'.update = update /\ job'.todo = todo /\ job'.done = {} /\ DOMAIN update = dirty
    BY <1>1, <1>5, <1>7, TickIsNoJob
  <1>9. ScheduleTypeOK'
    BY <1>0, <1>2, <1>7 DEF ScheduleTypeOK
  <1>10. RunsInv'
    BY <1>0, <1>8 DEF RunsInv, TickFired, Ahead
  <1>11. TickInv'
    <2> SUFFICES ASSUME NEW s \in dirty
                 PROVE  /\ update[s].due <= clock
                        /\ Ahead(update[s].next_run_at, ran[s])
                        /\ Ahead(update[s].next_run_at, update[s].due)
                        /\ sched[s].next_run_at # NULL => sched[s].next_run_at >= update[s].due
                        /\ s \in todo => /\ update[s].due # NULL
                                         /\ \/ update[s].due > ran[s]
                                            \/ s \in unsaved /\ update[s].due = ran[s]
      BY <1>0, <1>8 DEF TickInv, Ahead
    <2>1. /\ s \in Schedule /\ ran[s] \in Nat /\ ran[s] <= clock
          /\ sched[s].next_run_at # NULL => sched[s].next_run_at >= ran[s]
          /\ s \notin unsaved => Ahead(sched[s].next_run_at, ran[s])
      BY <1>0, <1>2 DEF RunsInv, TickFired
    <2>2. s \in todo => sched[s].next_run_at # NULL
      BY DEF todo, IsDue
    <2> QED
      BY <1>0, <1>3, <1>4, <2>1, <2>2 DEF Ahead
  <1> QED
    BY <1>9, <1>10, <1>11 DEF ScheduleInv

LEMMA FireStep ==
    ASSUME ScheduleInv, NEW s \in Schedule, NEW enqueued \in BOOLEAN, fire_power_cycle(s, enqueued)
    PROVE  ScheduleInv'
  <1>0. /\ ScheduleTypeOK /\ RunsInv /\ TickInv /\ job # NoJob /\ ran \in [Schedule -> Nat]
        /\ clock \in Nat /\ s \in job.todo /\ UNCHANGED <<clock, sched, flag, unsaved, lost>>
        /\ \A u \in Schedule : ran[u] \in Nat /\ sched[u].next_run_at \in Nat
    BY ClockTime DEF ScheduleInv, ScheduleTypeOK, fire_power_cycle, NoJob, Row
  <1>1. PICK dirty : dirty = DOMAIN job.update
    OBVIOUS
  <1>2. /\ job \in Tick(dirty) /\ dirty \in SUBSET Schedule /\ s \in dirty
        /\ job.todo \subseteq dirty /\ job.done \subseteq dirty
        /\ \A u \in dirty : job.update[u].due \in Nat /\ job.update[u].next_run_at \in Nat
    BY <1>0, <1>1, TickShape, ScheduleAssumption DEF Columns, Time, NULL
  <1>3. /\ job'.update = job.update /\ job'.todo = job.todo \ {s} /\ job' \in Tick(dirty)
        /\ job'.done = IF enqueued THEN job.done \cup {s} ELSE job.done
    BY <1>2 DEF fire_power_cycle, Tick
  <1>4. job' # NoJob
    BY <1>3, TickIsNoJob
  <1>5. /\ ran' \in [Schedule -> Nat] /\ \A u \in Schedule \ {s} : ran'[u] = ran[u]
        /\ ran'[s] = IF enqueued THEN job.update[s].due ELSE ran[s]
    BY <1>0, <1>2 DEF fire_power_cycle
  <1>6. ScheduleTypeOK'
    BY <1>0, <1>2, <1>3, <1>5 DEF ScheduleTypeOK
  <1>7. \A u \in dirty :
          /\ job.update[u].due <= clock
          /\ Ahead(job.update[u].next_run_at, ran[u])
          /\ Ahead(job.update[u].next_run_at, job.update[u].due)
          /\ sched[u].next_run_at # NULL => sched[u].next_run_at >= job.update[u].due
          /\ u \in job.todo => /\ job.update[u].due # NULL
                               /\ \/ job.update[u].due > ran[u]
                                  \/ u \in unsaved /\ job.update[u].due = ran[u]
    BY <1>0, <1>1 DEF TickInv
  <1>8. RunsInv'
    <2> SUFFICES ASSUME NEW u \in Schedule
                 PROVE  /\ ran'[u] <= clock
                        /\ sched[u].next_run_at # NULL => sched[u].next_run_at >= ran'[u]
                        /\ u \notin unsaved /\ ~TickFired(u)' => Ahead(sched[u].next_run_at, ran'[u])
      BY <1>0 DEF RunsInv, Ahead
    <2>1. TickFired(u)' <=> TickFired(u) \/ (u = s /\ enqueued)
      BY <1>0, <1>3, <1>4 DEF TickFired
    <2>2. CASE u = s /\ enqueued
      BY <1>2, <1>5, <1>7, <2>1, <2>2
    <2>3. CASE ~(u = s /\ enqueued)
      BY <1>0, <1>5, <2>1, <2>3 DEF RunsInv
    <2> QED
      BY <2>2, <2>3
  <1>9. TickInv'
    <2> SUFFICES ASSUME NEW u \in dirty
                 PROVE  /\ job.update[u].due <= clock
                        /\ Ahead(job.update[u].next_run_at, ran'[u])
                        /\ Ahead(job.update[u].next_run_at, job.update[u].due)
                        /\ sched[u].next_run_at # NULL => sched[u].next_run_at >= job.update[u].due
                        /\ u \in job'.todo => /\ job.update[u].due # NULL
                                              /\ \/ job.update[u].due > ran'[u]
                                                 \/ u \in unsaved /\ job.update[u].due = ran'[u]
      BY <1>0, <1>1, <1>3 DEF TickInv, Ahead
    <2>1. CASE u = s
      BY <1>3, <1>5, <1>7, <2>1
    <2>2. CASE u # s
      BY <1>2, <1>3, <1>5, <1>7, <2>2
    <2> QED
      BY <2>1, <2>2
  <1> QED
    BY <1>6, <1>8, <1>9 DEF ScheduleInv

LEMMA CommitStep == ASSUME ScheduleInv, tick_commit PROVE ScheduleInv'
  <1>0. /\ ScheduleTypeOK /\ RunsInv /\ TickInv /\ job # NoJob /\ job' = NoJob
        /\ sched \in [Schedule -> Row] /\ UNCHANGED <<clock, flag, ran, lost>>
    BY DEF ScheduleInv, ScheduleTypeOK, tick_commit, NoJob
  <1>1. PICK dirty : dirty = DOMAIN job.update
    OBVIOUS
  <1>2. /\ dirty \in SUBSET Schedule /\ job.done \subseteq dirty
        /\ \A u \in dirty : job.update[u] \in Columns
    BY <1>0, <1>1, TickShape
  <1>3. ASSUME NEW u \in dirty
        PROVE  Written(u) \in Row /\ Written(u).next_run_at = job.update[u].next_run_at
    <2>1. /\ sched[u] \in Row /\ job.update[u].last_run_at \in Time \cup {NULL}
          /\ job.update[u].next_run_at \in Nat
      BY <1>0, <1>2 DEF Columns
    <2> QED
      BY <2>1 DEF Written, Row
  <1>4. CASE \A u \in dirty : IsLive(u)
    <2>1. /\ unsaved' = unsaved \ dirty
          /\ sched' = [s \in Schedule |-> IF s \in dirty THEN Written(s) ELSE sched[s]]
      BY <1>1, <1>4 DEF tick_commit
    <2>2. /\ \A u \in dirty : sched'[u] = Written(u)
          /\ \A u \in Schedule \ dirty : sched'[u] = sched[u]
      BY <1>2, <2>1
    <2>3. sched' \in [Schedule -> Row]
      BY <1>0, <1>3, <2>1
    <2>4. ScheduleTypeOK'
      BY <1>0, <2>1, <2>3 DEF ScheduleTypeOK
    <2>5. RunsInv'
      <3> SUFFICES ASSUME NEW u \in Schedule
                   PROVE  /\ ran[u] <= clock
                          /\ sched'[u].next_run_at # NULL => sched'[u].next_run_at >= ran[u]
                          /\ u \notin unsaved' => Ahead(sched'[u].next_run_at, ran[u])
        BY <1>0 DEF RunsInv, Ahead
      <3>1. CASE u \in dirty
        <4>1. Ahead(job.update[u].next_run_at, ran[u]) /\ ran[u] <= clock
          BY <1>0, <1>1, <3>1 DEF TickInv, RunsInv
        <4>2. ran[u] \in Nat /\ job.update[u].next_run_at \in Nat
          BY <1>0, <1>2, <3>1 DEF ScheduleTypeOK, Columns
        <4> QED
          BY <1>3, <2>2, <3>1, <4>1, <4>2 DEF Ahead
      <3>2. CASE u \notin dirty
        <4>1. ~TickFired(u) /\ (u \in unsaved' <=> u \in unsaved)
          BY <1>2, <2>1, <3>2 DEF TickFired
        <4> QED
          BY <1>0, <2>2, <3>2, <4>1 DEF RunsInv
      <3> QED
        BY <3>1, <3>2
    <2> QED
      BY <1>0, <2>4, <2>5 DEF ScheduleInv, TickInv
  <1>5. CASE ~ \A u \in dirty : IsLive(u)
    <2>1. sched' = sched /\ unsaved' = unsaved \cup job.done
      BY <1>1, <1>5 DEF tick_commit
    <2>2. ScheduleTypeOK'
      BY <1>0, <1>2, <2>1 DEF ScheduleTypeOK
    <2>3. RunsInv'
      BY <1>0, <2>1 DEF RunsInv, TickFired, Ahead
    <2> QED
      BY <1>0, <2>2, <2>3 DEF ScheduleInv, TickInv
  <1> QED
    BY <1>4, <1>5

LEMMA LostStep == ASSUME ScheduleInv, tick_lost PROVE ScheduleInv'
  <1>0. /\ ScheduleTypeOK /\ RunsInv /\ job # NoJob /\ job' = NoJob
        /\ unsaved' = unsaved \cup job.done /\ lost' = lost + 1 /\ lost < MaxLost
        /\ UNCHANGED <<clock, sched, flag, ran>>
    BY DEF ScheduleInv, tick_lost
  <1>1. job.done \subseteq Schedule
    BY <1>0, TickShape
  <1>2. ScheduleTypeOK'
    BY <1>0, <1>1, ScheduleAssumption DEF ScheduleTypeOK
  <1>3. RunsInv'
    BY <1>0 DEF RunsInv, TickFired, Ahead
  <1> QED
    BY <1>0, <1>2, <1>3 DEF ScheduleInv, TickInv

LEMMA ClockStep == ASSUME ScheduleInv, Clock PROVE ScheduleInv'
  <1>0. /\ ScheduleTypeOK /\ RunsInv /\ TickInv /\ clock \in Nat /\ clock' = clock + 1
        /\ clock' \in Time /\ UNCHANGED <<sched, flag, job, ran, unsaved, lost>>
    BY ClockTime, ScheduleAssumption DEF ScheduleInv, Clock, Time
  <1>1. ScheduleTypeOK'
    BY <1>0 DEF ScheduleTypeOK
  <1>2. RunsInv'
    <2>1. \A s \in Schedule : ran[s] \in Nat
      BY <1>0 DEF ScheduleTypeOK
    <2> QED
      BY <1>0, <2>1 DEF RunsInv, TickFired, Ahead
  <1>3. TickInv'
    <2>1. ASSUME job # NoJob, NEW s \in DOMAIN job.update PROVE job.update[s].due \in Nat
      BY <1>0, <2>1, TickShape, ScheduleAssumption DEF Columns, Time, NULL
    <2> QED
      BY <1>0, <2>1 DEF TickInv, Ahead
  <1> QED
    BY <1>1, <1>2, <1>3 DEF ScheduleInv

LEMMA SchedulePreserved == ScheduleInv /\ [ScheduleNext]_scheduleVars => ScheduleInv'
  <1> SUFFICES ASSUME ScheduleInv, [ScheduleNext]_scheduleVars PROVE ScheduleInv'
    OBVIOUS
  <1>0. /\ ScheduleTypeOK /\ flag \in Flag /\ sched \in [Schedule -> Row] /\ clock \in Time /\ clock \in Nat
        /\ \A s \in Schedule : Config[s] \subseteq AnyConfig
    BY ClockTime DEF ScheduleInv, ScheduleTypeOK, AnyConfig
  <1>1. ASSUME NEW s \in Schedule, NEW c \in Config[s], create(s, c) PROVE ScheduleInv'
    <2>1. PICK row : row = [state |-> "live", config |-> c, enabled |-> TRUE,
                            last_run_at |-> NULL, next_run_at |-> NULL]
      OBVIOUS
    <2>2. row \in Row /\ row.config \in AnyConfig
      BY <1>0, <1>1, <2>1 DEF Row, NULL
    <2>3. PICK n : n = compute_next_run_at(row, clock)
      OBVIOUS
    <2>4. n \in Nat /\ Ahead(n, clock)
      BY <1>0, <2>2, <2>3, NextRunIsLater
    <2>5. PICK new : new = [row EXCEPT !.next_run_at = n]
      OBVIOUS
    <2>6. new \in Row /\ new.next_run_at = n
      BY <2>2, <2>4, <2>5 DEF Row
    <2>7. /\ sched' = [sched EXCEPT ![s] = new]
          /\ UNCHANGED <<clock, flag, job, lost>> /\ UNCHANGED <<ran, unsaved>>
      BY <1>1, <2>1, <2>3, <2>5 DEF create
    <2> QED
      BY <2>4, <2>6, <2>7, OperatorRowStep
  <1>2. ASSUME NEW s \in Schedule, delete(s) PROVE ScheduleInv'
    <2>1. PICK c : c \in AnyConfig /\ c = CHOOSE x \in AnyConfig : TRUE
      BY ScheduleAssumption
    <2>2. NoRow("gone") \in Row /\ NoRow("gone").next_run_at = NULL
      BY <2>1 DEF NoRow, Row, NULL
    <2>3. /\ sched' = [sched EXCEPT ![s] = NoRow("gone")] /\ UNCHANGED <<clock, flag, job, lost>>
          /\ ran' = [ran EXCEPT ![s] = NULL] /\ unsaved' = unsaved \ {s}
      BY <1>2 DEF delete
    <2> QED
      BY <2>2, <2>3, OperatorRowStep
  <1>3. ASSUME NEW s \in Schedule, NEW enabled \in BOOLEAN, set_enabled(s, enabled) PROVE ScheduleInv'
    <2>1. PICK n : n = IF enabled THEN compute_next_run_at(sched[s], clock) ELSE sched[s].next_run_at
      OBVIOUS
    <2>2. sched[s] \in Row /\ sched[s].config \in AnyConfig /\ sched[s].next_run_at \in Nat
      BY <1>0 DEF Row
    <2>3. n \in Nat /\ (n = sched[s].next_run_at \/ Ahead(n, clock))
      BY <1>0, <2>1, <2>2, NextRunIsLater
    <2>4. PICK new : new = [sched[s] EXCEPT !.enabled = enabled, !.next_run_at = n]
      OBVIOUS
    <2>5. new \in Row /\ new.next_run_at = n
      BY <2>2, <2>3, <2>4 DEF Row
    <2>6. /\ sched' = [sched EXCEPT ![s] = new]
          /\ UNCHANGED <<clock, flag, job, lost>> /\ UNCHANGED <<ran, unsaved>>
      BY <1>0, <1>3, <2>1, <2>4 DEF set_enabled
    <2> QED
      BY <2>3, <2>5, <2>6, OperatorRowStep
  <1>4. ASSUME NEW on \in BOOLEAN, NEW reason \in Reason, set_maintenance_mode(on, reason)
        PROVE  flag' \in Flag
    BY <1>0, <1>4 DEF set_maintenance_mode, Flag
  <1>5. ASSUME NEW on \in BOOLEAN, NEW reason \in Reason, toggle_maintenance(on, reason)
        PROVE  ScheduleInv'
    BY <1>4, <1>5, MaintenanceStep DEF toggle_maintenance
  <1>6. ASSUME job # NoJob
        PROVE  job \in Tick(DOMAIN job.update)
    BY <1>0, <1>6, TickShape
  <1>7. CASE read_active
    <2>1. job # NoJob /\ flag.on \in BOOLEAN
      BY <1>0, <1>7 DEF read_active, NoJob, Flag
    <2>2. /\ job' \in Tick(DOMAIN job.update) /\ job'.update = job.update
          /\ job'.todo = job.todo /\ job'.done = job.done
      BY <1>6, <1>7, <2>1 DEF read_active, Tick
    <2> QED
      BY <1>0, <1>7, <2>1, <2>2, MaintenanceStep DEF read_active
  <1>8. CASE read_details
    <2>1. job # NoJob
      BY <1>8 DEF read_details, NoJob
    <2>2. /\ job' \in Tick(DOMAIN job.update) /\ job'.update = job.update
          /\ job'.todo = job.todo /\ job'.done = job.done
      BY <1>0, <1>6, <1>8, <2>1 DEF read_details, Tick
    <2> QED
      BY <1>0, <1>8, <2>1, <2>2, MaintenanceStep DEF read_details
  <1>9. CASE reconcile
    <2>1. job # NoJob /\ NoFlag \in Flag
      BY <1>9 DEF reconcile, NoJob, NoFlag, Flag
    <2>2. /\ job' \in Tick(DOMAIN job.update) /\ job'.update = job.update
          /\ job'.todo = job.todo /\ job'.done = job.done
      BY <1>6, <1>9, <2>1 DEF reconcile, Tick
    <2>3. flag' \in Flag
      BY <1>0, <1>4, <1>9 DEF reconcile, Reason
    <2> QED
      BY <1>9, <2>1, <2>2, <2>3, MaintenanceStep DEF reconcile
  <1>10. CASE UNCHANGED scheduleVars
    BY <1>0, <1>10, MaintenanceStep DEF scheduleVars
  <1> QED
    BY <1>1, <1>2, <1>3, <1>5, <1>7, <1>8, <1>9, <1>10, TickBegins, FireStep, CommitStep, LostStep,
       ClockStep DEF ScheduleNext, TickStep, Fire, Reason

\* The table and the tick stay in step: no schedule will run at a time that
\* ran and was saved, whatever operators do while the tick is under way
\* (schedule_runtime.tick, schedules.set_enabled and delete).
THEOREM ScheduleInvariant == ScheduleSpec => []ScheduleInv
  BY ScheduleInitially, SchedulePreserved, PTL DEF ScheduleSpec

\* A schedule enqueues its power cycle once for each time it falls due, unless
\* the tick that enqueued it was lost before its commit
\* (schedule_runtime.tick, compute_next_run_at).
THEOREM PowerCyclesAreNotRepeated == ScheduleSpec => OncePerDueTime
  <1>1. ScheduleInv /\ [ScheduleNext]_scheduleVars =>
          [\A s \in Schedule : Enqueues(s) =>
              \/ job.update[s].due > ran[s]
              \/ s \in unsaved /\ job.update[s].due = ran[s]]_scheduleVars
    <2> SUFFICES ASSUME ScheduleInv, ScheduleNext, NEW s \in Schedule, Enqueues(s)
                 PROVE  \/ job.update[s].due > ran[s]
                        \/ s \in unsaved /\ job.update[s].due = ran[s]
      OBVIOUS
    <2>0. job # NoJob /\ job' # NoJob /\ job' # job /\ s \in job'.done \ job.done
      BY DEF Enqueues
    <2>1. job \in Tick(DOMAIN job.update)
      BY <2>0, TickShape DEF ScheduleInv
    <2>2. ~(read_active \/ read_details \/ reconcile)
      BY <2>0, <2>1 DEF read_active, read_details, reconcile, Tick
    <2>3. PICK u \in Schedule, enqueued \in BOOLEAN : fire_power_cycle(u, enqueued)
      BY <2>0, <2>2 DEF ScheduleNext, TickStep, Fire, create, delete, set_enabled, toggle_maintenance,
                        tick_begin, tick_commit, tick_lost, Clock
    <2>4. u = s /\ s \in job.todo
      BY <2>0, <2>1, <2>3 DEF fire_power_cycle, Tick
    <2>5. s \in DOMAIN job.update
      BY <2>0, <2>4, TickShape DEF ScheduleInv
    <2> QED
      BY <2>0, <2>4, <2>5 DEF ScheduleInv, TickInv
  <1> QED
    BY <1>1, ScheduleInvariant, PTL DEF ScheduleSpec, OncePerDueTime

=============================================================================
