------------------------- MODULE CommandQueueProofs -------------------------
(***************************************************************************)
(* What CommandQueue guarantees for any number of devices, commands and    *)
(* threads, any clock and any reports: the invariants of the races run.    *)
(*                                                                         *)
(* None of them is inductive alone.  A commit writes what its thread read  *)
(* some steps ago, so the invariant has to say what is still true of a     *)
(* stale view (TxnInv), and how the views of two threads that work on the  *)
(* same command are related (RaceInv).                                     *)
(***************************************************************************)
EXTENDS CommandQueue, TLAPS

Reported(c) == \E s \in ALLOWED_RESULT_STATUSES : <<c, s>> \in results

\* A command without delivered_at has left no trace outside the table.
DeliveredInv ==
    \A c \in Cmd :
        /\ row[c].status \in {"absent", "pending"} => row[c].delivered_at = NULL
        /\ row[c].status \in {"accepted", "running"} => row[c].delivered_at # NULL
        /\ row[c].delivered_at = NULL =>
              /\ row[c].ack_received_at = NULL
              /\ wire[c] = 0
              /\ c \notin executed
              /\ \A s \in ALLOWED_RESULT_STATUSES : <<c, s>> \notin posts

StampInv ==
    \A c \in Cmd :
        /\ row[c].delivered_at <= now
        /\ row[c].ack_received_at # NULL => row[c].delivered_at <= row[c].ack_received_at

ResultInv ==
    \A c \in Cmd :
        /\ row[c].ack_received_at # NULL <=> Reported(c)
        /\ row[c].status \in {"completed", "failed"} => <<c, row[c].status>> \in results

\* Only a device that got the command too late settles it without executing it.
ExecutedInv ==
    \A c \in Cmd : c \notin executed /\ row[c].expires_at > now =>
        /\ row[c].status \notin {"completed", "failed", "expired"}
        /\ \A s \in ALLOWED_RESULT_STATUSES : <<c, s>> \notin posts

\* What stays true of a thread's view while others commit.
DeliverView(t) ==
    txn[t].op = "deliver" =>
        /\ txn[t].at \in 1..now
        /\ \A c \in txn[t].rows \ txn[t].fresh : row[c].delivered_at # NULL
        /\ \A c \in txn[t].fresh : row[c].ack_received_at # NULL
              => txn[t].at <= row[c].ack_received_at

ResultView(t) ==
    txn[t].op = "result" =>
        /\ txn[t].at \in 1..now
        /\ row[txn[t].cmd].delivered_at # NULL
        /\ row[txn[t].cmd].delivered_at <= txn[t].at
        /\ txn[t].acked => row[txn[t].cmd].ack_received_at # NULL
        /\ txn[t].cmd \in executed \/ row[txn[t].cmd].expires_at <= now

TxnInv == \A t \in Thread : DeliverView(t) /\ ResultView(t)

\* A delivery that has yet to commit read its rows before any result for them.
RaceInv ==
    \A t, u \in Thread :
        /\ txn[t].op = "deliver"
        /\ txn[u].op = "result"
        /\ txn[u].cmd \in txn[t].fresh
        => txn[t].at <= txn[u].at

Parts == DeliveredInv /\ StampInv /\ ResultInv /\ ExecutedInv /\ TxnInv /\ RaceInv

IInv == TypeOK /\ Parts

-----------------------------------------------------------------------------
(* Type correctness                                                        *)

USE QueueAssumption DEF NULL

\* A thread's view by operation.
LEMMA TxnCases ==
    ASSUME NEW x \in Txn
    PROVE  /\ x.op = "cancel" => x \in [op: {"cancel"}, at: Nat, cmd: Cmd]
           /\ x.op = "deliver" =>
                x \in [op: {"deliver"}, at: Nat, rows: SUBSET Cmd, fresh: SUBSET Cmd]
           /\ x.op = "result" =>
                x \in [op: {"result"}, at: Nat, cmd: Cmd,
                       status: ALLOWED_RESULT_STATUSES,
                       seen: ALLOWED_RESULT_STATUSES \cup {"pending", "cancelled"},
                       acked: BOOLEAN]
  BY DEF Txn

LEMMA HoldsCommands ==
    ASSUME NEW x \in Txn
    PROVE  Holds(x) \subseteq Cmd
  <1>1. x.op \in {"idle", "cancel", "deliver", "result"}
    BY DEF Txn
  <1> QED
    BY <1>1, TxnCases DEF Holds

\* The UPDATEs of a row, one column at a time.
LEMMA SetStatus ==
    ASSUME NEW r \in CmdRow,
           NEW s \in ALLOWED_RESULT_STATUSES \cup {"pending", "cancelled", "absent", "gone"}
    PROVE  LET q == [r EXCEPT !.status = s] IN
           /\ q \in CmdRow /\ q.status = s
           /\ q.expires_at = r.expires_at
           /\ q.delivered_at = r.delivered_at
           /\ q.ack_received_at = r.ack_received_at
  BY DEF CmdRow

LEMMA SetDelivered ==
    ASSUME NEW r \in CmdRow, NEW n \in Nat
    PROVE  LET q == [r EXCEPT !.delivered_at = n] IN
           /\ q \in CmdRow /\ q.status = r.status
           /\ q.expires_at = r.expires_at
           /\ q.delivered_at = n
           /\ q.ack_received_at = r.ack_received_at
  BY DEF CmdRow

LEMMA SetAck ==
    ASSUME NEW r \in CmdRow, NEW n \in Nat
    PROVE  LET q == [r EXCEPT !.ack_received_at = n] IN
           /\ q \in CmdRow /\ q.status = r.status
           /\ q.expires_at = r.expires_at
           /\ q.delivered_at = r.delivered_at
           /\ q.ack_received_at = n
  BY DEF CmdRow

LEMMA SetCompleted ==
    ASSUME NEW r \in CmdRow, NEW n \in Nat
    PROVE  LET q == [r EXCEPT !.completed_at = n] IN
           /\ q \in CmdRow /\ q.status = r.status
           /\ q.expires_at = r.expires_at
           /\ q.delivered_at = r.delivered_at
           /\ q.ack_received_at = r.ack_received_at
  BY DEF CmdRow

\* What the commits write of a row.
LEMMA CancelledRow ==
    ASSUME NEW r \in CmdRow, NEW n \in Nat
    PROVE  LET q == MarkCancelled(r, n) IN
           /\ q \in CmdRow /\ q.status = "cancelled"
           /\ q.expires_at = r.expires_at
           /\ q.delivered_at = r.delivered_at
           /\ q.ack_received_at = r.ack_received_at
  <1> DEFINE p == [r EXCEPT !.status = "cancelled"]
  <1>1. /\ p \in CmdRow /\ p.status = "cancelled"
        /\ p.expires_at = r.expires_at
        /\ p.delivered_at = r.delivered_at
        /\ p.ack_received_at = r.ack_received_at
    BY SetStatus
  <1>2. MarkCancelled(r, n) = [p EXCEPT !.completed_at = n]
    BY Zenon DEF MarkCancelled
  <1> HIDE DEF p
  <1> QED
    BY <1>1, <1>2, SetCompleted

LEMMA DeliveredRow ==
    ASSUME NEW r \in CmdRow, NEW n \in Nat
    PROVE  LET q == MarkDelivered(r, n) IN
           /\ q \in CmdRow /\ q.status = "accepted"
           /\ q.expires_at = r.expires_at
           /\ q.delivered_at = n
           /\ q.ack_received_at = r.ack_received_at
  <1> DEFINE p == [r EXCEPT !.status = "accepted"]
  <1>1. /\ p \in CmdRow /\ p.status = "accepted"
        /\ p.expires_at = r.expires_at
        /\ p.ack_received_at = r.ack_received_at
    BY SetStatus DEF ALLOWED_RESULT_STATUSES
  <1>2. MarkDelivered(r, n) = [p EXCEPT !.delivered_at = n]
    BY Zenon DEF MarkDelivered
  <1> HIDE DEF p
  <1> QED
    BY <1>1, <1>2, SetDelivered

LEMMA ResultRow ==
    ASSUME NEW r \in CmdRow, NEW x,
           x.status \in ALLOWED_RESULT_STATUSES, x.at \in Nat
    PROVE  LET q == MarkResult(r, x) IN
           /\ q \in CmdRow
           /\ q.status = IF x.status = x.seen THEN r.status ELSE x.status
           /\ q.expires_at = r.expires_at
           /\ q.delivered_at = r.delivered_at
           /\ q.ack_received_at = IF x.acked THEN r.ack_received_at ELSE x.at
  <1> DEFINE s == IF x.status = x.seen THEN r.status ELSE x.status
             n == IF x.acked THEN r.ack_received_at ELSE x.at
             p == [r EXCEPT !.status = s]
             o == [p EXCEPT !.ack_received_at = n]
  <1>1. /\ s \in ALLOWED_RESULT_STATUSES \cup {"pending", "cancelled", "absent", "gone"}
        /\ n \in Nat
    BY DEF CmdRow
  <1>2. MarkResult(r, x) = [o EXCEPT !.completed_at = x.at]
    <2>1. p.ack_received_at = r.ack_received_at
      <3> HIDE DEF s
      <3> QED
        BY <1>1, SetStatus
    <2> QED
      BY <2>1, Zenon DEF MarkResult
  <1> HIDE DEF s, n
  <1>3. /\ p \in CmdRow /\ p.status = s
        /\ p.expires_at = r.expires_at
        /\ p.delivered_at = r.delivered_at
    BY <1>1, SetStatus
  <1> HIDE DEF p
  <1>4. /\ o \in CmdRow /\ o.status = s
        /\ o.expires_at = r.expires_at
        /\ o.delivered_at = r.delivered_at
        /\ o.ack_received_at = n
    BY <1>1, <1>3, SetAck
  <1> HIDE DEF o
  <1>5. LET q == MarkResult(r, x) IN
           /\ q \in CmdRow /\ q.status = s
           /\ q.expires_at = r.expires_at
           /\ q.delivered_at = r.delivered_at
           /\ q.ack_received_at = n
    BY <1>2, <1>4, SetCompleted
  <1> QED
    BY <1>5 DEF s, n

LEMMA StatusRow ==
    ASSUME NEW r \in CmdRow, NEW s \in {"expired", "gone"}
    PROVE  LET q == WithStatus(r, s) IN
           /\ q \in CmdRow /\ q.status = s
           /\ q.expires_at = r.expires_at
           /\ q.delivered_at = r.delivered_at
           /\ q.ack_received_at = r.ack_received_at
  BY SetStatus DEF WithStatus, ALLOWED_RESULT_STATUSES

LEMMA InitType == Init => TypeOK
  BY DEF Init, TypeOK, CmdRow, Txn, Idle, ALLOWED_RESULT_STATUSES

LEMMA TypeStep == TypeOK /\ [Next]_vars => TypeOK'
  <1> SUFFICES ASSUME TypeOK, [Next]_vars PROVE TypeOK'
    OBVIOUS
  <1> USE DEF TypeOK
  <1>1. ASSUME NEW t \in Thread, NEW c \in Cmd, cancel_read(t, c) PROVE TypeOK'
    <2>1. [op |-> "cancel", at |-> now, cmd |-> c] \in Txn
      BY DEF Txn
    <2> QED
      BY <1>1, <2>1, HoldsCommands DEF cancel_read, Begin
  <1>2. ASSUME NEW t \in Thread, NEW d \in Device, list_pending_read(t, d) PROVE TypeOK'
    <2>1. [op |-> "deliver", at |-> now, rows |-> Deliverable(d),
           fresh |-> {c \in Deliverable(d) : row[c].status = "pending"}] \in Txn
      BY DEF Txn, Deliverable
    <2> QED
      BY <1>2, <2>1, HoldsCommands DEF list_pending_read, Begin
  <1>3. ASSUME NEW t \in Thread, NEW c \in Cmd, NEW s \in ALLOWED_RESULT_STATUSES,
               record_result_read(t, c, s)
        PROVE TypeOK'
    <2>1. row[c].status \in ALLOWED_RESULT_STATUSES \cup {"pending", "cancelled"}
      BY <1>3 DEF record_result_read, Present, CmdRow
    <2>2. [op |-> "result", at |-> now, cmd |-> c, status |-> s,
           seen |-> row[c].status, acked |-> row[c].ack_received_at # NULL] \in Txn
      BY <2>1 DEF Txn
    <2> QED
      BY <1>3, <2>2, HoldsCommands DEF record_result_read, Begin
  <1> Idle \in Txn
    BY DEF Txn, Idle
  <1>4. ASSUME NEW t \in Thread, cancel_commit(t) PROVE TypeOK'
    <2>1. txn[t].at \in Nat /\ txn[t].cmd \in Cmd
      BY <1>4, TxnCases DEF cancel_commit
    <2>2. MarkCancelled(row[txn[t].cmd], txn[t].at) \in CmdRow
      BY <2>1, CancelledRow
    <2> QED
      BY <1>4, <2>1, <2>2 DEF cancel_commit, End, Rollback
  <1>5. ASSUME NEW t \in Thread, list_pending_commit(t) PROVE TypeOK'
    <2>1. txn[t].at \in Nat
      BY <1>5, TxnCases DEF list_pending_commit
    <2>2. \A c \in Cmd : MarkDelivered(row[c], txn[t].at) \in CmdRow
      BY <2>1, DeliveredRow
    <2> QED
      BY <1>5, <2>2 DEF list_pending_commit, End, Rollback
  <1>6. ASSUME NEW t \in Thread, record_result_commit(t) PROVE TypeOK'
    <2>1. /\ txn[t].cmd \in Cmd
          /\ txn[t].status \in ALLOWED_RESULT_STATUSES
          /\ txn[t].at \in Nat
      BY <1>6, TxnCases DEF record_result_commit
    <2>2. MarkResult(row[txn[t].cmd], txn[t]) \in CmdRow
      BY <2>1, ResultRow
    <2> QED
      BY <1>6, <2>1, <2>2 DEF record_result_commit, End, Rollback
  <1>7. CASE expire_overdue_commands
    BY <1>7, StatusRow DEF expire_overdue_commands
  <1>8. ASSUME NEW d \in Device, delete_device(d) PROVE TypeOK'
    BY <1>8, StatusRow DEF delete_device
  <1>9. ASSUME NEW d \in Device, NEW c \in Cmd, NEW h \in BOOLEAN, enqueue(c, d, h)
        PROVE  TypeOK'
    <2>1. NewRow(d) \in CmdRow
      BY DEF NewRow, CmdRow
    <2> QED
      BY <1>9, <2>1 DEF enqueue
  <1>10. CASE HubRestart
    BY <1>10 DEF HubRestart
  <1>11. CASE Tick
    BY <1>11 DEF Tick
  <1>12. ASSUME NEW c \in Cmd, DeviceReceives(c) PROVE TypeOK'
    BY <1>12 DEF DeviceReceives, ALLOWED_RESULT_STATUSES
  <1>13. ASSUME NEW c \in Cmd, LoseResponse(c) PROVE TypeOK'
    BY <1>13 DEF LoseResponse
  <1>14. ASSUME NEW c \in Cmd, NEW f \in BOOLEAN, AgentDelivers(c, f) PROVE TypeOK'
    BY <1>14 DEF AgentDelivers
  <1>15. CASE UNCHANGED vars
    BY <1>15 DEF vars
  <1> QED
    BY <1>1, <1>2, <1>3, <1>4, <1>5, <1>6, <1>7, <1>8, <1>9, <1>10, <1>11,
       <1>12, <1>13, <1>14, <1>15 DEF Next, Commit

\* Every row, view and result keeps its type, whatever the threads do.
THEOREM TypeCorrect == Spec => []TypeOK
  <1>1. Init => TypeOK
    BY InitType
  <1>2. TypeOK /\ [Next]_vars => TypeOK'
    BY TypeStep
  <1> QED
    BY <1>1, <1>2, PTL DEF Spec

-----------------------------------------------------------------------------
(* The inductive invariant, one lemma per kind of step                     *)

LEMMA InitParts == Init => Parts
  BY DEF Init, Parts, DeliveredInv, StampInv, ResultInv, ExecutedInv, TxnInv,
         DeliverView, ResultView, RaceInv, Reported, Idle

LEMMA EndTxn ==
    ASSUME TypeOK, NEW t \in Thread, End(t)
    PROVE  \A u \in Thread : txn'[u] = txn[u] \/ txn'[u].op = "idle"
  BY DEF TypeOK, End, Idle

\* A step that writes at most the status of rows, and reads none.
LEMMA StatusOnlyStep ==
    ASSUME IInv,
           UNCHANGED <<now, results, wire, posts, executed>>,
           \A u \in Thread : txn'[u] = txn[u] \/ txn'[u].op \in {"idle", "cancel"},
           \A c \in Cmd :
              /\ row'[c].expires_at = row[c].expires_at
              /\ row'[c].delivered_at = row[c].delivered_at
              /\ row'[c].ack_received_at = row[c].ack_received_at
              /\ \/ row'[c].status = row[c].status
                 \/ row'[c].status \in {"cancelled", "gone"}
                 \/ row'[c].status = "expired" /\ row[c].expires_at <= now
    PROVE  Parts'
  <1>1. DeliveredInv'
    BY DEF IInv, Parts, DeliveredInv
  <1>2. StampInv'
    BY DEF IInv, Parts, StampInv
  <1>3. ResultInv'
    <2> SUFFICES ASSUME NEW c \in Cmd PROVE ResultInv!(c)'
      BY DEF ResultInv
    <2>1. ResultInv!(c) /\ (Reported(c)' <=> Reported(c))
      BY DEF IInv, Parts, ResultInv, Reported
    <2> QED
      BY <2>1
  <1>4. ExecutedInv'
    <2> SUFFICES ASSUME NEW c \in Cmd PROVE ExecutedInv!(c)'
      BY DEF ExecutedInv
    <2>1. ExecutedInv!(c) /\ now \in Nat /\ row[c].expires_at \in Nat
      BY DEF IInv, Parts, ExecutedInv, TypeOK, CmdRow
    <2> QED
      BY <2>1
  <1>5. TxnInv'
    <2> SUFFICES ASSUME NEW u \in Thread, txn'[u] = txn[u]
                 PROVE  DeliverView(u)' /\ ResultView(u)'
      BY DEF TxnInv, DeliverView, ResultView
    <2>1. DeliverView(u) /\ ResultView(u) /\ txn[u] \in Txn
      BY DEF IInv, Parts, TxnInv, TypeOK
    <2> QED
      BY <2>1, TxnCases DEF DeliverView, ResultView
  <1>6. RaceInv'
    BY DEF IInv, Parts, RaceInv
  <1> QED
    BY <1>1, <1>2, <1>3, <1>4, <1>5, <1>6 DEF Parts

LEMMA HubRestartStep ==
    ASSUME IInv, HubRestart PROVE Parts'
  BY StatusOnlyStep DEF HubRestart, Idle

LEMMA RollbackStep ==
    ASSUME IInv, NEW t \in Thread, Rollback(t) PROVE Parts'
  BY EndTxn, StatusOnlyStep DEF IInv, Rollback

LEMMA CancelReadStep ==
    ASSUME IInv, NEW t \in Thread, NEW c \in Cmd, cancel_read(t, c) PROVE Parts'
  <1>1. \A u \in Thread : txn'[u] = txn[u] \/ txn'[u].op = "cancel"
    BY DEF IInv, TypeOK, cancel_read, Begin
  <1> QED
    BY <1>1, StatusOnlyStep DEF cancel_read, Begin

LEMMA ExpireStep ==
    ASSUME IInv, expire_overdue_commands PROVE Parts'
  <1>1. \A c \in Cmd : \/ row'[c] = row[c]
                       \/ Overdue(c) /\ row'[c] = WithStatus(row[c], "expired")
    BY DEF expire_overdue_commands
  <1>2. \A c \in Cmd : Overdue(c) => row[c].expires_at <= now
    BY DEF Overdue
  <1> QED
    BY <1>1, <1>2, StatusRow, StatusOnlyStep DEF IInv, TypeOK, expire_overdue_commands

LEMMA DeleteDeviceStep ==
    ASSUME IInv, NEW d \in Device, delete_device(d) PROVE Parts'
  <1>1. \A c \in Cmd : row'[c] = row[c] \/ row'[c] = WithStatus(row[c], "gone")
    BY DEF delete_device
  <1> QED
    BY <1>1, StatusRow, StatusOnlyStep DEF IInv, TypeOK, delete_device

LEMMA ListPendingReadStep ==
    ASSUME IInv, NEW t \in Thread, NEW d \in Device, list_pending_read(t, d) PROVE Parts'
  <1>1. /\ txn'[t].op = "deliver"
        /\ txn'[t].at = now
        /\ txn'[t].rows = Deliverable(d)
        /\ txn'[t].fresh = {c \in Deliverable(d) : row[c].status = "pending"}
        /\ \A u \in Thread \ {t} : txn'[u] = txn[u]
    BY DEF IInv, TypeOK, list_pending_read, Begin
  <1>2. UNCHANGED <<now, registered, results, row, wire, posts, executed>>
    BY DEF list_pending_read, Begin
  <1>3. \A c \in Deliverable(d) :
            /\ c \in Cmd
            /\ row[c].status = "pending" => row[c].delivered_at = NULL
            /\ row[c].status # "pending" => row[c].delivered_at # NULL
            /\ row[c].delivered_at = NULL => row[c].ack_received_at = NULL
    BY DEF IInv, Parts, DeliveredInv, Deliverable, Live, LiveStatuses
  <1>4. TxnInv'
    BY <1>1, <1>2, <1>3 DEF IInv, Parts, TypeOK, TxnInv, DeliverView, ResultView
  <1>5. RaceInv'
    BY <1>1, <1>2, <1>3 DEF IInv, Parts, RaceInv, TxnInv, DeliverView, ResultView
  <1>6. DeliveredInv' /\ StampInv' /\ ResultInv' /\ ExecutedInv'
    BY <1>2 DEF IInv, Parts, DeliveredInv, StampInv, ResultInv, ExecutedInv, Reported
  <1> QED
    BY <1>4, <1>5, <1>6 DEF Parts

LEMMA RecordResultReadStep ==
    ASSUME IInv, NEW t \in Thread, NEW c \in Cmd, NEW s \in ALLOWED_RESULT_STATUSES,
           record_result_read(t, c, s)
    PROVE  Parts'
  <1>1. /\ txn'[t].op = "result"
        /\ txn'[t].at = now
        /\ txn'[t].cmd = c
        /\ txn'[t].acked <=> row[c].ack_received_at # NULL
        /\ \A u \in Thread \ {t} : txn'[u] = txn[u]
    BY DEF IInv, TypeOK, record_result_read, Begin
  <1>2. UNCHANGED <<now, registered, results, row, wire, posts, executed>>
    BY DEF record_result_read, Begin
  <1>3. /\ row[c].delivered_at # NULL
        /\ row[c].delivered_at <= now
        /\ c \in executed \/ row[c].expires_at <= now
    BY DEF IInv, Parts, TypeOK, CmdRow, DeliveredInv, StampInv, ExecutedInv, record_result_read
  <1>4. TxnInv'
    BY <1>1, <1>2, <1>3 DEF IInv, Parts, TypeOK, TxnInv, DeliverView, ResultView
  <1>5. RaceInv'
    BY <1>1, <1>2, <1>3 DEF IInv, Parts, TypeOK, RaceInv, TxnInv, DeliverView, ResultView
  <1>6. DeliveredInv' /\ StampInv' /\ ResultInv' /\ ExecutedInv'
    BY <1>2 DEF IInv, Parts, DeliveredInv, StampInv, ResultInv, ExecutedInv, Reported
  <1> QED
    BY <1>4, <1>5, <1>6 DEF Parts

LEMMA CancelCommitStep ==
    ASSUME IInv, NEW t \in Thread, cancel_commit(t) PROVE Parts'
  <1> DEFINE x == txn[t]
  <1>1. x.cmd \in Cmd /\ x.at \in Nat
    BY TxnCases DEF IInv, TypeOK, cancel_commit
  <1>2. CASE ~Present(x.cmd)
    BY <1>2, RollbackStep DEF cancel_commit
  <1>3. CASE Present(x.cmd)
    <2>1. /\ row' = [row EXCEPT ![x.cmd] = MarkCancelled(@, x.at)]
          /\ End(t)
          /\ UNCHANGED <<now, registered, results, wire, posts, executed>>
      BY <1>3 DEF cancel_commit
    <2>2. \A c \in Cmd :
            /\ row'[c].status = row[c].status \/ row'[c].status = "cancelled"
            /\ row'[c].expires_at = row[c].expires_at
            /\ row'[c].delivered_at = row[c].delivered_at
            /\ row'[c].ack_received_at = row[c].ack_received_at
      <3>1. row[x.cmd] \in CmdRow
        BY <1>1 DEF IInv, TypeOK
      <3>2. LET q == MarkCancelled(row[x.cmd], x.at) IN
              /\ q.status = "cancelled"
              /\ q.expires_at = row[x.cmd].expires_at
              /\ q.delivered_at = row[x.cmd].delivered_at
              /\ q.ack_received_at = row[x.cmd].ack_received_at
        BY <1>1, <3>1, CancelledRow
      <3>3. row'[x.cmd] = MarkCancelled(row[x.cmd], x.at)
            /\ \A c \in Cmd \ {x.cmd} : row'[c] = row[c]
        BY <1>1, <2>1 DEF IInv, TypeOK
      <3> QED
        BY <3>2, <3>3
    <2>3. \A u \in Thread : txn'[u] = txn[u] \/ txn'[u].op = "idle"
      BY <2>1, EndTxn DEF IInv
    <2> QED
      BY <2>1, <2>2, <2>3, StatusOnlyStep
  <1> QED
    BY <1>2, <1>3

LEMMA ListPendingCommitStep ==
    ASSUME IInv, NEW t \in Thread, list_pending_commit(t) PROVE Parts'
  <1> DEFINE x == txn[t]
  <1>1. /\ x.op = "deliver" /\ x.at \in 1..now
        /\ x.at \in Nat /\ x.at # NULL /\ x.at <= now
        /\ x.rows \in SUBSET Cmd /\ x.fresh \in SUBSET Cmd
    BY TxnCases DEF IInv, Parts, TypeOK, TxnInv, list_pending_commit, DeliverView, ResultView
  <1>2. CASE ~(\A c \in x.fresh : Present(c))
    BY <1>2, RollbackStep DEF list_pending_commit
  <1>3. CASE \A c \in x.fresh : Present(c)
    <2>1. /\ row' = [c \in Cmd |->
                       IF c \in x.fresh THEN MarkDelivered(row[c], x.at) ELSE row[c]]
          /\ wire' = [c \in Cmd |-> IF c \in x.rows THEN wire[c] + 1 ELSE wire[c]]
          /\ End(t)
          /\ UNCHANGED <<now, registered, results, posts, executed>>
      BY <1>3 DEF list_pending_commit
    <2>2. \A c \in x.fresh :
            /\ row'[c].status = "accepted"
            /\ row'[c].expires_at = row[c].expires_at
            /\ row'[c].delivered_at = x.at
            /\ row'[c].ack_received_at = row[c].ack_received_at
            /\ row[c].ack_received_at # NULL => x.at <= row[c].ack_received_at
      <3> SUFFICES ASSUME NEW c \in x.fresh PROVE <2>2!(c)
        OBVIOUS
      <3>1. row[c] \in CmdRow /\ row'[c] = MarkDelivered(row[c], x.at)
        BY <1>1, <2>1 DEF IInv, TypeOK
      <3>2. row[c].ack_received_at # NULL => x.at <= row[c].ack_received_at
        BY <1>1 DEF IInv, Parts, TxnInv, DeliverView, ResultView
      <3>3. LET q == MarkDelivered(row[c], x.at) IN
              /\ q.status = "accepted"
              /\ q.expires_at = row[c].expires_at
              /\ q.delivered_at = x.at
              /\ q.ack_received_at = row[c].ack_received_at
        BY <1>1, <3>1, DeliveredRow
      <3> QED
        BY <3>1, <3>2, <3>3
    <2>3. \A c \in Cmd \ x.fresh :
            /\ row'[c] = row[c]
            /\ c \in x.rows => row[c].delivered_at # NULL
            /\ c \notin x.rows => wire'[c] = wire[c]
      BY <1>1, <2>1 DEF IInv, Parts, TxnInv, DeliverView, ResultView
    <2>4. \A u \in Thread : txn'[u] = txn[u] \/ txn'[u].op = "idle"
      BY <2>1, EndTxn DEF IInv
    <2>5. DeliveredInv'
      BY <1>1, <2>1, <2>2, <2>3 DEF IInv, Parts, DeliveredInv
    <2>6. StampInv'
      BY <1>1, <2>1, <2>2, <2>3 DEF IInv, Parts, TypeOK, StampInv
    <2>7. ResultInv'
      BY <1>1, <2>1, <2>2, <2>3 DEF IInv, Parts, ResultInv, Reported
    <2>8. ExecutedInv'
      BY <1>1, <2>1, <2>2, <2>3 DEF IInv, Parts, ExecutedInv
    <2>9. TxnInv'
      <3> SUFFICES ASSUME NEW u \in Thread, txn'[u] = txn[u]
                   PROVE  DeliverView(u)' /\ ResultView(u)'
        BY <2>4 DEF TxnInv, DeliverView, ResultView
      <3>1. \A c \in Cmd :
              /\ row'[c].ack_received_at = row[c].ack_received_at
              /\ row[c].delivered_at # NULL => row'[c].delivered_at # NULL
        BY <1>1, <2>2, <2>3
      <3>2. DeliverView(u)'
        <4> SUFFICES ASSUME txn[u].op = "deliver" PROVE DeliverView(u)'
          BY DEF DeliverView
        <4>1. txn[u].rows \subseteq Cmd /\ txn[u].fresh \subseteq Cmd
          BY TxnCases DEF IInv, TypeOK
        <4>2. DeliverView(u)
          BY DEF IInv, Parts, TxnInv
        <4> QED
          BY <2>1, <3>1, <4>1, <4>2 DEF DeliverView
      <3>3. ResultView(u)'
        <4> SUFFICES ASSUME txn[u].op = "result" PROVE ResultView(u)'
          BY DEF ResultView
        <4>1. txn[u].cmd \in Cmd
          BY TxnCases DEF IInv, TypeOK
        <4>2. txn[u].cmd \in x.fresh => x.at <= txn[u].at
          BY <1>1 DEF IInv, Parts, RaceInv
        <4>3. ResultView(u)
          BY DEF IInv, Parts, TxnInv
        <4>4. /\ row'[txn[u].cmd].expires_at = row[txn[u].cmd].expires_at
              /\ \/ row'[txn[u].cmd].delivered_at = row[txn[u].cmd].delivered_at
                 \/ /\ txn[u].cmd \in x.fresh
                    /\ row'[txn[u].cmd].delivered_at = x.at
          BY <2>2, <2>3, <4>1
        <4>5. UNCHANGED <<now, executed>> /\ x.at # NULL
          BY <1>1, <2>1
        <4> QED
          BY <3>1, <4>1, <4>2, <4>3, <4>4, <4>5 DEF ResultView
      <3> QED
        BY <3>2, <3>3
    <2>10. RaceInv'
      BY <2>4 DEF IInv, Parts, RaceInv
    <2> QED
      BY <2>5, <2>6, <2>7, <2>8, <2>9, <2>10 DEF Parts
  <1> QED
    BY <1>2, <1>3

LEMMA RecordResultCommitStep ==
    ASSUME IInv, NEW t \in Thread, record_result_commit(t) PROVE Parts'
  <1> DEFINE x == txn[t]
             k == x.cmd
  <1>1. /\ k \in Cmd /\ x.status \in ALLOWED_RESULT_STATUSES
        /\ x.at \in Nat /\ x.acked \in BOOLEAN
    BY TxnCases DEF IInv, TypeOK, record_result_commit
  <1>2. CASE ~Present(k)
    BY <1>2, RollbackStep DEF record_result_commit
  <1>3. CASE Present(k)
    <2>1. /\ row' = [row EXCEPT ![k] = MarkResult(@, x)]
          /\ results' = results \cup {<<k, x.status>>}
          /\ End(t)
          /\ UNCHANGED <<now, registered, wire, posts, executed>>
      BY <1>3 DEF record_result_commit
    <2>2. /\ row'[k].status = IF x.status = x.seen THEN row[k].status ELSE x.status
          /\ row'[k].expires_at = row[k].expires_at
          /\ row'[k].delivered_at = row[k].delivered_at
          /\ row'[k].ack_received_at = IF x.acked THEN row[k].ack_received_at ELSE x.at
      <3>1. row[k] \in CmdRow /\ row'[k] = MarkResult(row[k], x)
        BY <1>1, <2>1 DEF IInv, TypeOK
      <3> QED
        BY <1>1, <3>1, ResultRow
    <2>3. \A c \in Cmd \ {k} : row'[c] = row[c]
      BY <2>1 DEF IInv, TypeOK
    <2>4. \A u \in Thread : txn'[u] = txn[u] \/ txn'[u].op = "idle"
      BY <2>1, EndTxn DEF IInv
    <2>5. /\ x.at # NULL
          /\ row[k].delivered_at # NULL /\ row[k].delivered_at <= x.at
          /\ x.acked => row[k].ack_received_at # NULL
          /\ k \in executed \/ row[k].expires_at <= now
      BY DEF IInv, Parts, TypeOK, TxnInv, ResultView, record_result_commit
    <2>6. row'[k].ack_received_at # NULL
      BY <2>2, <2>5
    <2>7. row[k].status \notin {"absent", "pending"}
      BY <1>1, <2>5 DEF IInv, Parts, DeliveredInv
    <2>8. row'[k].status \notin {"absent", "pending"}
      BY <1>1, <2>2, <2>7 DEF ALLOWED_RESULT_STATUSES
    <2>9. DeliveredInv'
      BY <1>1, <2>1, <2>2, <2>3, <2>5, <2>8 DEF IInv, Parts, DeliveredInv
    <2>10. StampInv'
      BY <1>1, <2>1, <2>2, <2>3, <2>5 DEF IInv, Parts, StampInv
    <2>11. ResultInv'
      <3> SUFFICES ASSUME NEW c \in Cmd PROVE ResultInv!(c)'
        BY DEF ResultInv
      <3>1. CASE c = k
        <4>1. Reported(c)'
          BY <1>1, <2>1, <3>1 DEF Reported
        <4>2. row[k].status \in {"completed", "failed"} => <<k, row[k].status>> \in results
          BY <1>1 DEF IInv, Parts, ResultInv
        <4> QED
          BY <2>1, <2>2, <2>6, <3>1, <4>1, <4>2
      <3>2. CASE c # k
        <4>1. ResultInv!(c)
          BY DEF IInv, Parts, ResultInv
        <4>2. Reported(c)' <=> Reported(c)
          BY <2>1, <3>2 DEF Reported
        <4> QED
          BY <2>1, <2>3, <3>2, <4>1, <4>2
      <3> QED
        BY <3>1, <3>2
    <2>12. ExecutedInv'
      <3>1. now \in Nat /\ row[k].expires_at \in Nat
        BY <1>1 DEF IInv, TypeOK, CmdRow
      <3> QED
        BY <1>1, <2>1, <2>2, <2>3, <2>5, <3>1 DEF IInv, Parts, ExecutedInv
    <2>13. TxnInv'
      <3> SUFFICES ASSUME NEW u \in Thread, txn'[u] = txn[u]
                   PROVE  DeliverView(u)' /\ ResultView(u)'
        BY <2>4 DEF TxnInv, DeliverView, ResultView
      <3>1. DeliverView(u)'
        <4> SUFFICES ASSUME txn[u].op = "deliver" PROVE DeliverView(u)'
          BY DEF DeliverView
        <4>1. txn[u].rows \subseteq Cmd /\ txn[u].fresh \subseteq Cmd
          BY TxnCases DEF IInv, TypeOK
        <4>2. DeliverView(u)
          BY DEF IInv, Parts, TxnInv
        <4>3. k \in txn[u].fresh => txn[u].at <= x.at
          BY DEF IInv, Parts, RaceInv, record_result_commit
        <4>4. \A c \in Cmd : row'[c].delivered_at = row[c].delivered_at
          BY <2>2, <2>3
        <4>5. \A c \in txn[u].fresh : row'[c].ack_received_at # NULL
                 => txn[u].at <= row'[c].ack_received_at
          BY <2>2, <2>3, <2>5, <4>1, <4>2, <4>3 DEF DeliverView
        <4> QED
          BY <2>1, <4>1, <4>2, <4>4, <4>5 DEF DeliverView
      <3>2. ResultView(u)'
        <4> SUFFICES ASSUME txn[u].op = "result" PROVE ResultView(u)'
          BY DEF ResultView
        <4>1. txn[u].cmd \in Cmd
          BY TxnCases DEF IInv, TypeOK
        <4>2. ResultView(u)
          BY DEF IInv, Parts, TxnInv
        <4> QED
          BY <2>1, <2>2, <2>3, <2>6, <4>1, <4>2 DEF ResultView
      <3> QED
        BY <3>1, <3>2
    <2>14. RaceInv'
      BY <2>4 DEF IInv, Parts, RaceInv
    <2> QED
      BY <2>9, <2>10, <2>11, <2>12, <2>13, <2>14 DEF Parts
  <1> QED
    BY <1>2, <1>3

LEMMA EnqueueStep ==
    ASSUME IInv, NEW k \in Cmd, NEW d \in Device, NEW h \in BOOLEAN, enqueue(k, d, h)
    PROVE  Parts'
  <1>1. /\ row[k].status = "absent"
        /\ row[k].delivered_at = NULL
        /\ row[k].ack_received_at = NULL
    BY DEF IInv, Parts, DeliveredInv, enqueue
  <1>2. /\ row'[k].status = "pending"
        /\ row'[k].delivered_at = NULL
        /\ row'[k].ack_received_at = NULL
        /\ \A c \in Cmd \ {k} : row'[c] = row[c]
        /\ UNCHANGED <<now, results, txn, wire, posts, executed>>
    BY DEF IInv, TypeOK, enqueue, NewRow
  <1>3. DeliveredInv'
    BY <1>1, <1>2 DEF IInv, Parts, DeliveredInv
  <1>4. StampInv'
    BY <1>2 DEF IInv, Parts, TypeOK, StampInv
  <1>5. ResultInv'
    BY <1>1, <1>2 DEF IInv, Parts, ResultInv, Reported
  <1>6. ExecutedInv'
    BY <1>1, <1>2 DEF IInv, Parts, ExecutedInv, DeliveredInv
  <1>7. TxnInv'
    <2> SUFFICES ASSUME NEW u \in Thread PROVE DeliverView(u)' /\ ResultView(u)'
      BY DEF TxnInv
    <2>1. DeliverView(u) /\ ResultView(u) /\ txn[u] \in Txn
      BY DEF IInv, Parts, TxnInv, TypeOK
    <2>2. DeliverView(u)'
      BY <1>1, <1>2, <2>1, TxnCases DEF DeliverView
    <2>3. ResultView(u)'
      BY <1>1, <1>2, <2>1, TxnCases DEF ResultView
    <2> QED
      BY <2>2, <2>3
  <1>8. RaceInv'
    BY <1>2 DEF IInv, Parts, RaceInv
  <1> QED
    BY <1>3, <1>4, <1>5, <1>6, <1>7, <1>8 DEF Parts

LEMMA TickStep ==
    ASSUME IInv, Tick PROVE Parts'
  <1>1. now \in Nat /\ now' = now + 1 /\ UNCHANGED <<row, results, txn, wire, posts, executed>>
    BY DEF IInv, TypeOK, Tick
  <1>2. \A c \in Cmd : row[c].expires_at \in Nat /\ row[c].delivered_at \in Nat
    BY DEF IInv, TypeOK, CmdRow
  <1>3. DeliveredInv' /\ ResultInv' /\ RaceInv'
    BY <1>1 DEF IInv, Parts, DeliveredInv, ResultInv, RaceInv, Reported
  <1>4. StampInv'
    BY <1>1, <1>2 DEF IInv, Parts, StampInv
  <1>5. ExecutedInv'
    BY <1>1, <1>2 DEF IInv, Parts, ExecutedInv
  <1>6. TxnInv'
    <2> SUFFICES ASSUME NEW u \in Thread PROVE DeliverView(u)' /\ ResultView(u)'
      BY DEF TxnInv
    <2>1. DeliverView(u) /\ ResultView(u) /\ txn[u] \in Txn
      BY DEF IInv, Parts, TxnInv, TypeOK
    <2>2. txn[u].op = "result" => txn[u].cmd \in Cmd
      BY <2>1, TxnCases
    <2> QED
      BY <1>1, <1>2, <2>1, <2>2 DEF DeliverView, ResultView
  <1> QED
    BY <1>3, <1>4, <1>5, <1>6 DEF Parts

LEMMA DeviceStep ==
    ASSUME IInv, NEW k \in Cmd, DeviceReceives(k) \/ LoseResponse(k) PROVE Parts'
  <1>1. /\ row[k].delivered_at # NULL
        /\ UNCHANGED <<now, row, results, txn>>
        /\ \A c \in Cmd \ {k} : wire'[c] = wire[c]
        /\ executed \subseteq executed' /\ executed' \subseteq executed \cup {k}
        /\ \A c \in Cmd \ {k}, s \in ALLOWED_RESULT_STATUSES :
              <<c, s>> \in posts' => <<c, s>> \in posts
        /\ k \in executed' \/ row[k].expires_at <= now \/ posts' = posts
    BY DEF IInv, Parts, TypeOK, DeliveredInv, DeviceReceives, LoseResponse
  <1>2. DeliveredInv'
    BY <1>1 DEF IInv, Parts, DeliveredInv
  <1>3. StampInv' /\ ResultInv' /\ RaceInv'
    BY <1>1 DEF IInv, Parts, StampInv, ResultInv, RaceInv, Reported
  <1>4. ExecutedInv'
    <2>1. now \in Nat /\ row[k].expires_at \in Nat
      BY DEF IInv, TypeOK, CmdRow
    <2> QED
      BY <1>1, <2>1 DEF IInv, Parts, ExecutedInv
  <1>5. TxnInv'
    BY <1>1 DEF IInv, Parts, TxnInv, DeliverView, ResultView
  <1> QED
    BY <1>2, <1>3, <1>4, <1>5 DEF Parts

LEMMA PartsStep == IInv /\ [Next]_vars => Parts'
  <1> SUFFICES ASSUME IInv, [Next]_vars PROVE Parts'
    OBVIOUS
  <1>1. ASSUME NEW t \in Thread, NEW c \in Cmd, cancel_read(t, c) PROVE Parts'
    BY <1>1, CancelReadStep
  <1>2. ASSUME NEW t \in Thread, NEW d \in Device, list_pending_read(t, d) PROVE Parts'
    BY <1>2, ListPendingReadStep
  <1>3. ASSUME NEW t \in Thread, NEW c \in Cmd, NEW s \in ALLOWED_RESULT_STATUSES,
               record_result_read(t, c, s)
        PROVE  Parts'
    BY <1>3, RecordResultReadStep
  <1>4. ASSUME NEW t \in Thread, Commit(t) PROVE Parts'
    BY <1>4, CancelCommitStep, ListPendingCommitStep, RecordResultCommitStep DEF Commit
  <1>5. CASE expire_overdue_commands
    BY <1>5, ExpireStep
  <1>6. ASSUME NEW d \in Device, delete_device(d) PROVE Parts'
    BY <1>6, DeleteDeviceStep
  <1>7. ASSUME NEW d \in Device, NEW c \in Cmd, NEW h \in BOOLEAN, enqueue(c, d, h)
        PROVE  Parts'
    BY <1>7, EnqueueStep
  <1>8. CASE HubRestart
    BY <1>8, HubRestartStep
  <1>9. CASE Tick
    BY <1>9, TickStep
  <1>10. ASSUME NEW c \in Cmd, DeviceReceives(c) \/ LoseResponse(c) PROVE Parts'
    BY <1>10, DeviceStep
  <1>11. ASSUME NEW c \in Cmd, NEW f \in BOOLEAN, AgentDelivers(c, f) PROVE Parts'
    BY <1>11, StatusOnlyStep DEF AgentDelivers
  <1>12. CASE UNCHANGED vars
    BY <1>12, StatusOnlyStep DEF vars
  <1> QED
    BY <1>1, <1>2, <1>3, <1>4, <1>5, <1>6, <1>7, <1>8, <1>9, <1>10, <1>11, <1>12 DEF Next

\* Threads' views and rows stay related in every interleaving.
THEOREM InductiveInvariant == Spec => []IInv
  <1>1. Init => IInv
    BY InitType, InitParts DEF IInv
  <1>2. IInv /\ [Next]_vars => IInv'
    BY TypeStep, PartsStep DEF IInv
  <1> QED
    BY <1>1, <1>2, PTL DEF Spec

-----------------------------------------------------------------------------
(* The theorems                                                            *)

\* However list_pending_for_device, record_result and cancel_pending_command
\* interleave, no row shows an acknowledgement without, or before, a hand-off.
THEOREM AckAfterDelivery == Spec => []AckFollowsDelivery
  <1>1. IInv => AckFollowsDelivery
    BY DEF IInv, Parts, DeliveredInv, StampInv, AckFollowsDelivery
  <1> QED
    BY <1>1, InductiveInvariant, PTL

\* A row that cancel_pending_command finds "pending" has never left the hub.
THEOREM PendingIsPrivate == Spec => []PendingNeverHandedOff
  <1>1. IInv => PendingNeverHandedOff
    BY DEF IInv, Parts, DeliveredInv, PendingNeverHandedOff
  <1> QED
    BY <1>1, InductiveInvariant, PTL

\* record_result keeps commands and command_results in agreement.
THEOREM RowsAgreeWithResults == Spec => []StatusIsReported
  <1>1. IInv => StatusIsReported
    BY DEF IInv, Parts, ResultInv, Reported, StatusIsReported
  <1> QED
    BY <1>1, InductiveInvariant, PTL

\* No lost response, rollback or restart takes an unexecuted command away from
\* its device before it expires.
THEOREM NoCommandIsLost == Spec => []UnexecutedStaysLive
  <1>1. IInv => UnexecutedStaysLive
    BY DEF IInv, Parts, TypeOK, CmdRow, ExecutedInv, UnexecutedStaysLive,
           Live, LiveStatuses, Present, ALLOWED_RESULT_STATUSES
  <1> QED
    BY <1>1, InductiveInvariant, PTL

\* The rows stay sound in every interleaving, with lost responses and restarts.
THEOREM RowsSound == Spec => []RowsAreSound
  <1>1. AckFollowsDelivery /\ PendingNeverHandedOff /\ StatusIsReported
          /\ UnexecutedStaysLive => RowsAreSound
    BY DEF RowsAreSound
  <1> QED
    BY <1>1, AckAfterDelivery, PendingIsPrivate, RowsAgreeWithResults,
       NoCommandIsLost, PTL

-----------------------------------------------------------------------------
(* What is guaranteed for a command that no two transactions have held at  *)
(* once, whatever happens to the others: a cancelled command is never      *)
(* executed, its grace window is kept and its acknowledgement is stamped   *)
(* once.  The code takes no row locks; what is lost to races is exactly    *)
(* what these theorems except.                                             *)
(*                                                                         *)
(* The argument: while a transaction is alone with a command, what it read *)
(* of the row is still so (ViewInv); its commit is therefore as good as    *)
(* one step.                                                               *)

\* A command no transactions have raced for has at most one holder.
HolderInv ==
    \A c \in Cmd \ raced, t, u \in Thread :
        c \in Holds(txn[t]) /\ c \in Holds(txn[u]) => t = u

\* Its cancellation is final: nobody holds it and it never left the hub.
CancelledInv ==
    \A c \in Cmd \ raced : row[c].status = "cancelled" =>
        row[c].delivered_at = NULL /\ \A t \in Thread : c \notin Holds(txn[t])

\* What its holder x read of its row q is still so.
StillSo(x, q) ==
    /\ x.op = "cancel" => q.delivered_at = NULL
    /\ x.op = "deliver" /\ q.delivered_at # NULL => x.at >= q.delivered_at + Grace
    /\ x.op = "result" /\ ~x.acked => q.ack_received_at = NULL

ViewInv ==
    \A c \in Cmd \ raced, t \in Thread :
        c \in Holds(txn[t]) => StillSo(txn[t], row[c])

FreshInv ==
    \A t \in Thread : txn[t].op = "deliver" => txn[t].fresh \subseteq txn[t].rows

Alone == HolderInv /\ CancelledInv /\ ViewInv /\ FreshInv

AInv == IInv /\ Alone

-----------------------------------------------------------------------------
USE QueueAssumption DEF NULL

LEMMA InitAlone == Init => Alone
  BY DEF Init, Alone, HolderInv, CancelledInv, ViewInv, FreshInv, Holds, Idle

\* A transaction begins that read rows that are not cancelled.
LEMMA BeginAlone ==
    ASSUME AInv, NEW t \in Thread, NEW view \in Txn, Begin(t, view),
           \A c \in Holds(view) \ raced :
              row[c].status # "cancelled" /\ StillSo(view, row[c]),
           view.op = "deliver" => view.fresh \subseteq view.rows
    PROVE  Alone'
  <1>1. /\ txn[t] = Idle
        /\ txn'[t] = view
        /\ \A u \in Thread \ {t} : txn'[u] = txn[u]
        /\ raced \subseteq raced'
        /\ \A c \in Holds(view), u \in Thread : c \in Holds(txn[u]) => c \in raced'
        /\ row' = row
    BY DEF AInv, IInv, TypeOK, Begin
  <1>2. HolderInv'
    BY <1>1 DEF AInv, Alone, HolderInv
  <1>3. CancelledInv'
    BY <1>1 DEF AInv, Alone, CancelledInv
  <1>4. ViewInv'
    BY <1>1 DEF AInv, Alone, ViewInv
  <1>5. FreshInv'
    BY <1>1 DEF AInv, Alone, FreshInv
  <1> QED
    BY <1>2, <1>3, <1>4, <1>5 DEF Alone

\* A step that begins no transaction, and changes what views tell of a row
\* only by ending the transaction that holds it.
LEMMA QuietStep ==
    ASSUME AInv, raced' = raced,
           \A u \in Thread : txn'[u] = txn[u] \/ txn'[u].op = "idle",
           \A c \in Cmd \ raced :
              \/ /\ row'[c].delivered_at = row[c].delivered_at
                 /\ row'[c].ack_received_at = row[c].ack_received_at
                 /\ row'[c].status = "cancelled" => row[c].status = "cancelled"
              \/ /\ \E t \in Thread : c \in Holds(txn[t]) /\ txn'[t].op = "idle"
                 /\ row'[c].status = "cancelled" => row'[c].delivered_at = NULL
    PROVE  Alone'
  <1>1. \A u \in Thread : txn'[u].op = "idle" => Holds(txn'[u]) = {}
    BY DEF Holds
  <1>2. HolderInv'
    BY <1>1 DEF AInv, Alone, HolderInv
  <1>3. CancelledInv'
    <2> SUFFICES ASSUME NEW c \in Cmd \ raced, row'[c].status = "cancelled"
                 PROVE  /\ row'[c].delivered_at = NULL
                        /\ \A u \in Thread : c \notin Holds(txn'[u])
      BY DEF CancelledInv
    <2>1. CASE row[c].status = "cancelled" /\ row'[c].delivered_at = row[c].delivered_at
      BY <1>1, <2>1 DEF AInv, Alone, CancelledInv
    <2>2. CASE /\ row'[c].delivered_at = NULL
               /\ \E t \in Thread : c \in Holds(txn[t]) /\ txn'[t].op = "idle"
      BY <1>1, <2>2 DEF AInv, Alone, HolderInv
    <2> QED
      BY <2>1, <2>2
  <1>4. ViewInv'
    <2> SUFFICES ASSUME NEW c \in Cmd \ raced, NEW u \in Thread, c \in Holds(txn'[u])
                 PROVE  StillSo(txn'[u], row'[c])
      BY DEF ViewInv
    <2>1. txn'[u] = txn[u]
      BY <1>1
    <2>2. StillSo(txn[u], row[c])
      BY <2>1 DEF AInv, Alone, ViewInv
    <2>3. /\ row'[c].delivered_at = row[c].delivered_at
          /\ row'[c].ack_received_at = row[c].ack_received_at
      BY <1>1, <2>1 DEF AInv, Alone, HolderInv
    <2> QED
      BY <2>1, <2>2, <2>3 DEF StillSo
  <1>5. FreshInv'
    BY DEF AInv, Alone, FreshInv
  <1> QED
    BY <1>2, <1>3, <1>4, <1>5 DEF Alone

-----------------------------------------------------------------------------
(* The steps                                                               *)

LEMMA CancelReadAlone ==
    ASSUME AInv, NEW t \in Thread, NEW c \in Cmd, cancel_read(t, c) PROVE Alone'
  <1> DEFINE view == [op |-> "cancel", at |-> now, cmd |-> c]
  <1>1. view \in Txn /\ view.op = "cancel" /\ Holds(view) = {c}
    BY DEF AInv, IInv, TypeOK, Txn, Holds
  <1>2. row[c].status = "pending" /\ row[c].delivered_at = NULL
    BY DEF AInv, IInv, Parts, DeliveredInv, cancel_read
  <1>3. Begin(t, view)
    BY DEF cancel_read
  <1> HIDE DEF view
  <1> QED
    BY <1>1, <1>2, <1>3, BeginAlone DEF StillSo

LEMMA ListPendingReadAlone ==
    ASSUME AInv, NEW t \in Thread, NEW d \in Device, list_pending_read(t, d) PROVE Alone'
  <1> DEFINE rows == Deliverable(d)
             fresh == {c \in rows : row[c].status = "pending"}
             view == [op |-> "deliver", at |-> now, rows |-> rows, fresh |-> fresh]
  <1>1. /\ view \in Txn /\ view.op = "deliver" /\ view.at = now
        /\ Holds(view) = rows /\ view.fresh \subseteq view.rows
    <2>1. rows \subseteq Cmd /\ fresh \subseteq rows
      BY DEF Deliverable
    <2> HIDE DEF rows, fresh
    <2> QED
      BY <2>1 DEF AInv, IInv, TypeOK, Txn, Holds
  <1>2. \A c \in rows :
          /\ c \in Cmd
          /\ row[c].status # "cancelled"
          /\ row[c].delivered_at # NULL => now >= row[c].delivered_at + Grace
    <2> SUFFICES ASSUME NEW c \in rows PROVE <1>2!(c)
      OBVIOUS
    <2>1. c \in Cmd /\ row[c].status # "cancelled"
      BY DEF Deliverable, Live, LiveStatuses
    <2>2. row[c].delivered_at \in Nat /\ now \in Nat
      BY <2>1 DEF AInv, IInv, TypeOK, CmdRow
    <2>3. row[c].delivered_at = NULL \/ row[c].delivered_at <= now - Grace
      BY DEF Deliverable
    <2> QED
      BY <2>1, <2>2, <2>3
  <1>3. Begin(t, view)
    BY DEF list_pending_read
  <1> HIDE DEF view
  <1> QED
    BY <1>1, <1>2, <1>3, BeginAlone DEF StillSo

LEMMA RecordResultReadAlone ==
    ASSUME AInv, NEW t \in Thread, NEW c \in Cmd, NEW s \in ALLOWED_RESULT_STATUSES,
           record_result_read(t, c, s)
    PROVE  Alone'
  <1> DEFINE view == [op |-> "result", at |-> now, cmd |-> c, status |-> s,
                      seen |-> row[c].status, acked |-> row[c].ack_received_at # NULL]
  <1>1. /\ view \in Txn /\ view.op = "result" /\ Holds(view) = {c}
        /\ view.acked <=> row[c].ack_received_at # NULL
    <2>1. row[c].status \in ALLOWED_RESULT_STATUSES \cup {"pending", "cancelled"}
      BY DEF AInv, IInv, TypeOK, record_result_read, Present, CmdRow
    <2>2. view \in Txn
      BY <2>1 DEF AInv, IInv, TypeOK, Txn
    <2>3. view.op = "result" /\ view.cmd = c
      OBVIOUS
    <2>4. view.acked <=> row[c].ack_received_at # NULL
      BY Zenon
    <2> HIDE DEF view
    <2> QED
      BY <2>2, <2>3, <2>4 DEF Holds
  <1>2. row[c].delivered_at # NULL
    BY DEF AInv, IInv, Parts, DeliveredInv, record_result_read
  <1>3. c \notin raced => row[c].status # "cancelled"
    BY <1>2 DEF AInv, Alone, CancelledInv
  <1>4. Begin(t, view)
    BY DEF record_result_read
  <1> HIDE DEF view
  <1> QED
    BY <1>1, <1>3, <1>4, BeginAlone DEF StillSo

LEMMA RollbackAlone ==
    ASSUME AInv, NEW t \in Thread, Rollback(t) PROVE Alone'
  <1>1. \A u \in Thread : txn'[u] = txn[u] \/ txn'[u].op = "idle"
    BY EndTxn DEF AInv, IInv, Rollback
  <1>2. row' = row /\ raced' = raced
    BY DEF Rollback
  <1> QED
    BY <1>1, <1>2, QuietStep

LEMMA CancelCommitAlone ==
    ASSUME AInv, NEW t \in Thread, cancel_commit(t) PROVE Alone'
  <1> DEFINE x == txn[t]
  <1>1. x.cmd \in Cmd /\ x.at \in Nat /\ x.cmd \in Holds(x)
    BY TxnCases DEF AInv, IInv, TypeOK, cancel_commit, Holds
  <1>2. CASE ~Present(x.cmd)
    BY <1>2, RollbackAlone DEF cancel_commit
  <1>3. CASE Present(x.cmd)
    <2>1. /\ row' = [row EXCEPT ![x.cmd] = MarkCancelled(@, x.at)]
          /\ End(t) /\ raced' = raced
      BY <1>3 DEF cancel_commit
    <2>2. /\ txn'[t].op = "idle"
          /\ \A u \in Thread : txn'[u] = txn[u] \/ txn'[u].op = "idle"
      BY <2>1, EndTxn DEF AInv, IInv, TypeOK, End, Idle
    <2>3. x.cmd \notin raced => row'[x.cmd].delivered_at = NULL
      <3>1. x.cmd \notin raced => row[x.cmd].delivered_at = NULL
        BY <1>1 DEF AInv, Alone, ViewInv, StillSo, cancel_commit
      <3>2. row'[x.cmd] = MarkCancelled(row[x.cmd], x.at) /\ row[x.cmd] \in CmdRow
        BY <1>1, <2>1 DEF AInv, IInv, TypeOK
      <3> QED
        BY <1>1, <3>1, <3>2, CancelledRow
    <2>4. \A c \in Cmd \ {x.cmd} : row'[c] = row[c]
      BY <2>1 DEF AInv, IInv, TypeOK
    <2> QED
      BY <1>1, <2>1, <2>2, <2>3, <2>4, QuietStep
  <1> QED
    BY <1>2, <1>3

LEMMA ListPendingCommitAlone ==
    ASSUME AInv, NEW t \in Thread, list_pending_commit(t) PROVE Alone'
  <1> DEFINE x == txn[t]
  <1>1. x.at \in Nat /\ x.fresh \subseteq Holds(x) /\ Holds(x) \subseteq Cmd
    <2>1. x.op = "deliver" /\ x \in Txn /\ x.fresh \subseteq x.rows
      BY DEF AInv, IInv, TypeOK, Alone, FreshInv, list_pending_commit
    <2> QED
      BY <2>1, TxnCases, HoldsCommands DEF Holds
  <1>2. CASE ~(\A c \in x.fresh : Present(c))
    BY <1>2, RollbackAlone DEF list_pending_commit
  <1>3. CASE \A c \in x.fresh : Present(c)
    <2>1. /\ row' = [c \in Cmd |->
                       IF c \in x.fresh THEN MarkDelivered(row[c], x.at) ELSE row[c]]
          /\ End(t) /\ raced' = raced
      BY <1>3 DEF list_pending_commit
    <2>2. /\ txn'[t].op = "idle"
          /\ \A u \in Thread : txn'[u] = txn[u] \/ txn'[u].op = "idle"
      BY <2>1, EndTxn DEF AInv, IInv, TypeOK, End, Idle
    <2>3. \A c \in x.fresh : row'[c].status = "accepted"
      <3> SUFFICES ASSUME NEW c \in x.fresh PROVE row'[c].status = "accepted"
        OBVIOUS
      <3>1. row'[c] = MarkDelivered(row[c], x.at) /\ row[c] \in CmdRow
        BY <1>1, <2>1 DEF AInv, IInv, TypeOK
      <3> QED
        BY <1>1, <3>1, DeliveredRow
    <2>4. \A c \in Cmd \ x.fresh : row'[c] = row[c]
      BY <2>1
    <2> QED
      BY <1>1, <2>1, <2>2, <2>3, <2>4, QuietStep
  <1> QED
    BY <1>2, <1>3

LEMMA RecordResultCommitAlone ==
    ASSUME AInv, NEW t \in Thread, record_result_commit(t) PROVE Alone'
  <1> DEFINE x == txn[t]
  <1>1. /\ x.cmd \in Cmd /\ x.at \in Nat /\ x.status \in ALLOWED_RESULT_STATUSES
        /\ x.cmd \in Holds(x)
    BY TxnCases DEF AInv, IInv, TypeOK, record_result_commit, Holds
  <1>2. CASE ~Present(x.cmd)
    BY <1>2, RollbackAlone DEF record_result_commit
  <1>3. CASE Present(x.cmd)
    <2>1. /\ row' = [row EXCEPT ![x.cmd] = MarkResult(@, x)]
          /\ End(t) /\ raced' = raced
      BY <1>3 DEF record_result_commit
    <2>2. /\ txn'[t].op = "idle"
          /\ \A u \in Thread : txn'[u] = txn[u] \/ txn'[u].op = "idle"
      BY <2>1, EndTxn DEF AInv, IInv, TypeOK, End, Idle
    <2>3. x.cmd \notin raced => row'[x.cmd].status # "cancelled"
      <3>1. x.cmd \notin raced => row[x.cmd].status # "cancelled"
        BY <1>1 DEF AInv, Alone, CancelledInv
      <3>2. row'[x.cmd] = MarkResult(row[x.cmd], x) /\ row[x.cmd] \in CmdRow
        BY <1>1, <2>1 DEF AInv, IInv, TypeOK
      <3>3. row'[x.cmd].status = IF x.status = x.seen THEN row[x.cmd].status ELSE x.status
        BY <1>1, <3>2, ResultRow
      <3> QED
        BY <1>1, <3>1, <3>3 DEF ALLOWED_RESULT_STATUSES
    <2>4. \A c \in Cmd \ {x.cmd} : row'[c] = row[c]
      BY <2>1 DEF AInv, IInv, TypeOK
    <2> QED
      BY <1>1, <2>1, <2>2, <2>3, <2>4, QuietStep
  <1> QED
    BY <1>2, <1>3

\* The other steps touch neither a transaction nor a row's timestamps.
LEMMA StatusAlone ==
    ASSUME AInv, expire_overdue_commands \/ \E d \in Device : delete_device(d)
    PROVE  Alone'
  <1>1. raced' = raced /\ txn' = txn
    BY DEF expire_overdue_commands, delete_device
  <1>2. \A c \in Cmd : /\ row'[c].delivered_at = row[c].delivered_at
                       /\ row'[c].ack_received_at = row[c].ack_received_at
                       /\ row'[c].status = "cancelled" => row[c].status = "cancelled"
    <2> SUFFICES ASSUME NEW c \in Cmd PROVE <1>2!(c)
      OBVIOUS
    <2>1. row[c] \in CmdRow
      BY DEF AInv, IInv, TypeOK
    <2>2. \/ row'[c] = row[c]
          \/ row'[c] = WithStatus(row[c], "expired")
          \/ row'[c] = WithStatus(row[c], "gone")
      BY DEF expire_overdue_commands, delete_device
    <2> QED
      BY <2>1, <2>2, StatusRow
  <1> QED
    BY <1>1, <1>2, QuietStep

LEMMA EnqueueAlone ==
    ASSUME AInv, NEW d \in Device, NEW k \in Cmd, NEW h \in BOOLEAN, enqueue(k, d, h)
    PROVE  Alone'
  <1>1. raced' = raced /\ txn' = txn /\ \A c \in Cmd \ {k} : row'[c] = row[c]
    BY DEF AInv, IInv, TypeOK, enqueue
  <1>2. row'[k] = NewRow(d)
    BY DEF AInv, IInv, TypeOK, enqueue
  <1>3. row[k].delivered_at = NULL /\ row[k].ack_received_at = NULL
    BY DEF AInv, IInv, Parts, DeliveredInv, enqueue
  <1>4. /\ row'[k].delivered_at = NULL /\ row'[k].ack_received_at = NULL
        /\ row'[k].status = "pending"
    BY <1>2 DEF NewRow
  <1> QED
    BY <1>1, <1>3, <1>4, QuietStep

LEMMA OutsideAlone ==
    ASSUME AInv, row' = row, raced' = raced,
           \A u \in Thread : txn'[u] = txn[u] \/ txn'[u].op = "idle"
    PROVE  Alone'
  BY QuietStep

LEMMA AloneStep == AInv /\ [Next]_vars => Alone'
  <1> SUFFICES ASSUME AInv, [Next]_vars PROVE Alone'
    OBVIOUS
  <1>1. ASSUME NEW t \in Thread, NEW c \in Cmd, cancel_read(t, c) PROVE Alone'
    BY <1>1, CancelReadAlone
  <1>2. ASSUME NEW t \in Thread, NEW d \in Device, list_pending_read(t, d) PROVE Alone'
    BY <1>2, ListPendingReadAlone
  <1>3. ASSUME NEW t \in Thread, NEW c \in Cmd, NEW s \in ALLOWED_RESULT_STATUSES,
               record_result_read(t, c, s)
        PROVE  Alone'
    BY <1>3, RecordResultReadAlone
  <1>4. ASSUME NEW t \in Thread, Commit(t) PROVE Alone'
    BY <1>4, CancelCommitAlone, ListPendingCommitAlone, RecordResultCommitAlone DEF Commit
  <1>5. CASE expire_overdue_commands
    BY <1>5, StatusAlone
  <1>6. ASSUME NEW d \in Device, delete_device(d) PROVE Alone'
    BY <1>6, StatusAlone
  <1>7. ASSUME NEW d \in Device, NEW c \in Cmd, NEW h \in BOOLEAN, enqueue(c, d, h)
        PROVE  Alone'
    BY <1>7, EnqueueAlone
  <1>8. CASE HubRestart
    BY <1>8, OutsideAlone DEF HubRestart, Idle
  <1>9. CASE Tick
    BY <1>9, OutsideAlone DEF Tick
  <1>10. ASSUME NEW c \in Cmd, DeviceReceives(c) \/ LoseResponse(c) PROVE Alone'
    BY <1>10, OutsideAlone DEF DeviceReceives, LoseResponse
  <1>11. ASSUME NEW c \in Cmd, NEW f \in BOOLEAN, AgentDelivers(c, f) PROVE Alone'
    BY <1>11, OutsideAlone DEF AgentDelivers
  <1>12. CASE UNCHANGED vars
    BY <1>12, OutsideAlone DEF vars
  <1> QED
    BY <1>1, <1>2, <1>3, <1>4, <1>5, <1>6, <1>7, <1>8, <1>9, <1>10, <1>11, <1>12 DEF Next

\* While a transaction is alone with a command, what it read is still so.
THEOREM AloneInvariant == Spec => []AInv
  <1>1. Init => AInv
    BY InitType, InitParts, InitAlone DEF AInv, IInv
  <1>2. AInv /\ [Next]_vars => AInv'
    BY TypeStep, PartsStep, AloneStep DEF AInv, IInv
  <1> QED
    BY <1>1, <1>2, PTL DEF Spec

-----------------------------------------------------------------------------
(* The theorems                                                            *)

\* Unless its transactions raced, a command cancelled by
\* cancel_pending_command is not on its way to the device and was executed from
\* no response; only a LAN relay agent may have flipped the relay for it.
THEOREM CancelHolds == Spec => []CancelIsEffective
  <1>1. AInv => CancelIsEffective
    BY DEF AInv, IInv, Parts, DeliveredInv, Alone, CancelledInv, CancelIsEffective, Acted
  <1> QED
    BY <1>1, AloneInvariant, PTL

\* Unless its transactions raced, record_result stamps a command's
\* ack_received_at once.
THEOREM AckIsStampedOnce == Spec => AckStampedOnce
  <1> DEFINE Kept == \A c \in Cmd \ raced : row[c].ack_received_at # NULL
                        => row'[c].ack_received_at = row[c].ack_received_at
  <1>1. AInv /\ [Next]_vars => [Kept]_vars
    <2> SUFFICES ASSUME AInv, Next, NEW k \in Cmd \ raced, row[k].ack_received_at # NULL
                 PROVE  row'[k].ack_received_at = row[k].ack_received_at
      OBVIOUS
    <2>1. row[k] \in CmdRow /\ row[k].status # "absent"
      BY DEF AInv, IInv, TypeOK, Parts, DeliveredInv
    <2>2. ASSUME NEW t \in Thread, cancel_commit(t)
          PROVE  row'[k].ack_received_at = row[k].ack_received_at
      <3>1. txn[t].at \in Nat /\ txn[t].cmd \in Cmd
        BY <2>2, TxnCases DEF AInv, IInv, TypeOK, cancel_commit
      <3>2. row'[k] = row[k] \/ row'[k] = MarkCancelled(row[k], txn[t].at)
        BY <2>2, <3>1 DEF AInv, IInv, TypeOK, cancel_commit, Rollback
      <3> QED
        BY <2>1, <3>1, <3>2, CancelledRow
    <2>3. ASSUME NEW t \in Thread, list_pending_commit(t)
          PROVE  row'[k].ack_received_at = row[k].ack_received_at
      <3>1. txn[t].at \in Nat
        BY <2>3, TxnCases DEF AInv, IInv, TypeOK, list_pending_commit
      <3>2. row'[k] = row[k] \/ row'[k] = MarkDelivered(row[k], txn[t].at)
        BY <2>3 DEF list_pending_commit, Rollback
      <3> QED
        BY <2>1, <3>1, <3>2, DeliveredRow
    <2>4. ASSUME NEW t \in Thread, record_result_commit(t)
          PROVE  row'[k].ack_received_at = row[k].ack_received_at
      <3>1. /\ txn[t].at \in Nat /\ txn[t].cmd \in Cmd
            /\ txn[t].status \in ALLOWED_RESULT_STATUSES
            /\ txn[t].op = "result" /\ txn[t].cmd \in Holds(txn[t])
        BY <2>4, TxnCases DEF AInv, IInv, TypeOK, record_result_commit, Holds
      <3>2. CASE k # txn[t].cmd
        BY <2>4, <3>1, <3>2 DEF AInv, IInv, TypeOK, record_result_commit, Rollback
      <3>3. CASE k = txn[t].cmd
        <4>1. txn[t].acked
          BY <3>1, <3>3 DEF AInv, Alone, ViewInv, StillSo
        <4>2. row'[k] = row[k] \/ row'[k] = MarkResult(row[k], txn[t])
          BY <2>4, <3>1, <3>3 DEF AInv, IInv, TypeOK, record_result_commit, Rollback
        <4> QED
          BY <2>1, <3>1, <4>1, <4>2, ResultRow
      <3> QED
        BY <3>2, <3>3
    <2>5. ASSUME NEW t \in Thread,
                 \/ \E c \in Cmd : cancel_read(t, c)
                 \/ \E d \in Device : list_pending_read(t, d)
                 \/ \E c \in Cmd, s \in ALLOWED_RESULT_STATUSES : record_result_read(t, c, s)
          PROVE  row' = row
      BY <2>5 DEF cancel_read, list_pending_read, record_result_read, Begin
    <2>6. CASE expire_overdue_commands \/ \E d \in Device : delete_device(d)
      <3>1. \/ row'[k] = row[k]
            \/ row'[k] = WithStatus(row[k], "expired")
            \/ row'[k] = WithStatus(row[k], "gone")
        BY <2>6 DEF expire_overdue_commands, delete_device
      <3> QED
        BY <2>1, <3>1, StatusRow
    <2>7. ASSUME NEW d \in Device, NEW c \in Cmd, NEW h \in BOOLEAN, enqueue(c, d, h)
        PROVE  row'[k] = row[k]
      BY <2>1, <2>7 DEF AInv, IInv, TypeOK, enqueue
    <2>8. CASE \/ HubRestart
               \/ Tick
               \/ \E c \in Cmd : \/ DeviceReceives(c)
                                \/ LoseResponse(c)
                                \/ \E f \in BOOLEAN : AgentDelivers(c, f)
      BY <2>8 DEF HubRestart, Tick, DeviceReceives, LoseResponse, AgentDelivers
    <2> QED
      BY <2>2, <2>3, <2>4, <2>5, <2>6, <2>7, <2>8 DEF Next, Commit
  <1> QED
    BY <1>1, AloneInvariant, PTL DEF Spec, AckStampedOnce

\* Unless its transactions raced, a command that list_pending_for_device has
\* delivered is not handed off again within the grace window.
THEOREM GraceIsKept == Spec => GraceAfterDelivery
  <1> DEFINE Kept == \A t \in Thread, c \in Cmd \ raced :
                        HandsOff(t, c) /\ row[c].delivered_at # NULL
                          => txn[t].at >= row[c].delivered_at + Grace
  <1>1. AInv => Kept
    <2> SUFFICES ASSUME AInv, NEW t \in Thread, NEW c \in Cmd \ raced,
                        HandsOff(t, c), row[c].delivered_at # NULL
                 PROVE  txn[t].at >= row[c].delivered_at + Grace
      OBVIOUS
    <2>1. txn[t].op = "deliver" /\ c \in Holds(txn[t])
      BY DEF HandsOff, Holds
    <2> QED
      BY <2>1 DEF AInv, Alone, ViewInv, StillSo
  <1>2. AInv /\ [Next]_vars => [Kept]_vars
    BY <1>1
  <1> QED
    BY <1>2, AloneInvariant, PTL DEF Spec, GraceAfterDelivery
=============================================================================
