------------------------------ MODULE Enrollment ------------------------------
(***************************************************************************)
(* How a plug becomes a device of the hub: announcements and their         *)
(* adoption (services/announcements.py), enrollment tokens and their       *)
(* redemption (services/enrollment.py), with the device endpoints          *)
(* /announce and /register and the operator's pages that drive them.       *)
(*                                                                         *)
(* A request is a transaction, except where the code commits in the middle:*)
(* adopt() mints the token in a transaction of its own, a registration     *)
(* cross-links the announcement after its commit, "decommission and adopt" *)
(* is two transactions, and revoke checks the token before it waits for    *)
(* the row lock of a registration.  Those handlers occupy a worker and     *)
(* take several steps.                                                     *)
(*                                                                         *)
(* A MAC address is a plug and the textual form it is written in.  A       *)
(* credential is named by the token whose redemption issued it.            *)
(***************************************************************************)
EXTENDS Integers, FiniteSets, FiniteSetsExt

CONSTANTS Plugs,      \* the physical plugs, one MAC address each
          Forms,      \* textual forms of a MAC address; "bare" has no separators
          Workers,    \* threads of the hub that serve requests
          MaxTokens,  \* bound: enrollment tokens ever minted
          MaxDevices, \* bound: device rows ever created
          MaxOps,     \* bound: operator requests
          MaxFaults   \* bound: timeouts, failures, expiries, factory resets

ASSUME EnrollmentAssumption ==
  /\ "bare" \in Forms /\ Plugs # {}
  /\ MaxTokens \in Nat \ {0} /\ MaxDevices \in Nat /\ MaxOps \in Nat /\ MaxFaults \in Nat

VARIABLES ann,    \* plug -> its row of device_announcements, or NoRow
          tok,    \* token -> its row of enrollment_tokens
          dev,    \* device -> its row of devices, with its credential
          plug,   \* plug -> what the firmware holds
          job,    \* worker -> the request it is serving
          raced,  \* history: plugs two of whose registrations overlapped
          missed, \* history: plugs with a cross-link that failed or found the row linked
          ops, faults

vars == <<ann, tok, dev, plug, job, raced, missed, ops, faults>>

Tokens  == 1 .. MaxTokens
Devices == 1 .. MaxDevices
None == 0
NoRow == [row |-> FALSE]
Idle == [op |-> "idle"]

-----------------------------------------------------------------------------
(* The rows.                                                               *)

Announcement == [row: {TRUE}, adopted: BOOLEAN, delivered: BOOLEAN, consumed: BOOLEAN,
                 rejected: BOOLEAN, secret: Tokens \cup {None}, token: Tokens \cup {None}]

NewAnnouncement == [row |-> TRUE, adopted |-> FALSE, delivered |-> FALSE, consumed |-> FALSE,
                    rejected |-> FALSE, secret |-> None, token |-> None]

\* "live" covers a token past its expiry: `expired` tells it apart.
EnrollmentToken == [st: {"unminted", "live", "consumed", "deleted"}, expired: BOOLEAN,
                    target: Devices \cup {None}]

Device == [st: {"none", "active", "decommissioned"}, mac: Plugs, form: Forms,
           cred: Tokens \cup {None}, push: BOOLEAN]

Exists(p) == ann[p] # NoRow
Free == {t \in Tokens : tok[t].st = "unminted"}

\* The canonical form drops the separators, so only the plug is left of a MAC.
_normalize_mac(mac) == mac[1]

\* strip().upper() keeps the separators: two forms of one address differ.
TextMac(d) == <<dev[d].mac, dev[d].form>>
AnnouncedMac(p) == <<p, "bare">>

SameMac(p) == {d \in Devices : dev[d].st # "none" /\ _normalize_mac(TextMac(d)) = p}

\* A token, and the row that refers to it: the next unminted token becomes live.
_mint_enrollment_token_in_session(tk, target) ==
  [tk EXCEPT ![Min(Free)] = [st |-> "live", expired |-> FALSE, target |-> target]]

Op == ops < MaxOps /\ ops' = ops + 1
Fault == faults < MaxFaults /\ faults' = faults + 1

-----------------------------------------------------------------------------
(* POST /announce: the plug's poll.                                        *)

\* The row a poll finds or creates.
Upserted(p) == IF Exists(p) THEN ann[p] ELSE NewAnnouncement

\* Mutant: the announced MAC address compared as text, separators included.
RebindTargetsAsText(p, r, known) ==
  IF r.consumed /\ r.secret = None /\ known
  THEN {d \in Devices : dev[d].st = "active" /\ TextMac(d) = AnnouncedMac(p)} ELSE {}

\* The devices the row may be rebound to; `known` says that the device is
\* centrally managed and that the plug still has the address the hub knows.
RebindTargets(p, r, known) ==
  IF r.consumed /\ r.secret = None /\ known
  THEN {d \in SameMac(p) : dev[d].st # "decommissioned"} ELSE {}

_maybe_prepare_auto_rebind(r, d) ==
  [row |-> [r EXCEPT !.adopted = TRUE, !.secret = Min(Free), !.token = Min(Free),
                     !.delivered = FALSE, !.consumed = FALSE],
   tok |-> _mint_enrollment_token_in_session(tok, d)]

Stranded(r) ==
  r.adopted /\ ~r.rejected /\ r.secret = None /\ ~r.consumed /\ r.delivered

OldConsumed(r) == r.token # None /\ tok[r.token].st = "consumed"
OldLive(r)     == r.token # None /\ tok[r.token].st = "live"

_maybe_recover_stranded_pickup(r) ==
  IF OldConsumed(r)
  THEN [row |-> [r EXCEPT !.consumed = TRUE], tok |-> tok]
  ELSE LET minted == _mint_enrollment_token_in_session(
                       tok, IF OldLive(r) THEN tok[r.token].target ELSE None)
       IN [row |-> [r EXCEPT !.secret = Min(Free), !.token = Min(Free), !.delivered = FALSE],
           tok |-> IF OldLive(r) THEN [minted EXCEPT ![r.token].st = "deleted"] ELSE minted]

\* What the two self-healing steps may make of the row, in the order they run.
Prepared(p, known) ==
  LET r == Upserted(p)
      targets == RebindTargets(p, r, known)
  IN IF targets # {} THEN {_maybe_prepare_auto_rebind(r, d) : d \in targets}
     ELSE IF Stranded(r) THEN {_maybe_recover_stranded_pickup(r)}
     ELSE {[row |-> r, tok |-> tok]}

MintsOnAnnounce(p, known) ==
  LET r == Upserted(p)
  IN RebindTargets(p, r, known) # {} \/ (Stranded(r) /\ ~OldConsumed(r))

Status(r) ==
  CASE r.rejected -> "rejected"
    [] ~r.rejected /\ ~r.adopted -> "pending"
    [] ~r.rejected /\ r.adopted /\ r.secret # None -> "adopted"
    [] ~r.rejected /\ r.adopted /\ r.secret = None /\ r.consumed -> "registered"
    [] OTHER -> "awaiting_register"

\* The handler: the row, its lifecycle, and the answer the plug may not receive.
upsert_announcement(p, known, received) ==
  /\ MintsOnAnnounce(p, known) => Free # {}
  /\ \E s \in Prepared(p, known) :
       /\ tok' = s.tok
       /\ IF Status(s.row) = "adopted"
          THEN /\ ann' = [ann EXCEPT ![p] = [s.row EXCEPT !.delivered = TRUE]]
               /\ plug' = IF received THEN [plug EXCEPT ![p].secret = s.row.secret] ELSE plug
          ELSE ann' = [ann EXCEPT ![p] = s.row] /\ UNCHANGED plug
  /\ UNCHANGED <<dev, job, raced, missed, ops, faults>>

\* The device a credential authenticates: its row, while it is active.  A plug
\* whose credential is refused enrolls again.
_resolve_device(p) ==
  {d \in Devices : dev[d].st = "active" /\ plug[p].cred # None /\ dev[d].cred = plug[p].cred}
Online(p) == _resolve_device(p) # {}

\* The plug waits for the answer to its registration until it times out.
Registering(w, p) == job[w].op \in {"register", "link", "reply"} /\ job[w].p = p
Waiting(p) == \E w \in Workers : Registering(w, p) /\ ~job[w].lost

announce(p, known, received) ==
  /\ ~Online(p) /\ ~Waiting(p) /\ plug[p].secret = None
  /\ upsert_announcement(p, known, received)

-----------------------------------------------------------------------------
(* POST /register: consume_enrollment_token.                               *)

\* Mutant: the token is read without FOR UPDATE.
NeverLocked(t) == FALSE

\* The row lock on the token, held from the check to the commit.
Locked(t) == \E w \in Workers : job[w].op = "register" /\ job[w].t = t

\* Mutant: the fresh branch inserts without looking.
NoDuplicateCheck(mac) == FALSE

\* The fresh branch looks for an active row with this spelling of the address.
ExistingActive(mac) == \E d \in Devices : dev[d].st = "active" /\ TextMac(d) = mac

\* Why a registration of p with token t is refused; "" when it is not.
Refusal(p, t) ==
  LET target == tok[t].target
      mac == <<p, plug[p].form>>
  IN CASE tok[t].st \in {"unminted", "deleted"} -> "enrollment_invalid"
       [] tok[t].st = "consumed" -> "enrollment_consumed"
       [] tok[t].st = "live" /\ tok[t].expired -> "enrollment_expired"
       [] tok[t].st = "live" /\ ~tok[t].expired /\ target # None ->
            IF dev[target].st = "decommissioned" THEN "enrollment_invalid"
            ELSE IF TextMac(target) # mac THEN "device_mismatch" ELSE ""
       [] OTHER -> IF ExistingActive(mac) THEN "device_already_registered" ELSE ""

\* The checks, under the lock of the token only.  A refused plug drops the token.
register_read(w, p) ==
  LET t == plug[p].secret
  IN /\ job[w] = Idle /\ t # None /\ ~Waiting(p) /\ ~Locked(t)
     /\ IF Refusal(p, t) = ""
        THEN /\ job' = [job EXCEPT ![w] = [op |-> "register", p |-> p, t |-> t,
                          form |-> plug[p].form, lost |-> FALSE]]
             /\ UNCHANGED plug
        ELSE plug' = [plug EXCEPT ![p].secret = None] /\ UNCHANGED job
     /\ UNCHANGED <<ann, tok, dev, raced, missed, ops, faults>>

\* Restore: the target row becomes active, its old credential is replaced.
Rebound(d, t) == [dev[d] EXCEPT !.st = "active", !.cred = t]

\* Fresh adoption: a new row with its first credential.
NewDevice(p, form, t) ==
  [st |-> "active", mac |-> p, form |-> form, cred |-> t, push |-> FALSE]

Unused == {d \in Devices : dev[d].st = "none"}

\* The commit: device and credential written, token consumed.
register_commit(w) ==
  LET j == job[w]
      target == tok[j.t].target
  IN /\ j.op = "register"
     /\ target = None => Unused # {}
     /\ dev' = IF target # None THEN [dev EXCEPT ![target] = Rebound(target, j.t)]
               ELSE [dev EXCEPT ![Min(Unused)] = NewDevice(j.p, j.form, j.t)]
     /\ tok' = [tok EXCEPT ![j.t].st = "consumed"]
     /\ job' = [job EXCEPT ![w] = [op |-> "link", p |-> j.p, lost |-> j.lost, t |-> j.t]]
     /\ raced' = IF \E v \in Workers \ {w} : job[v].op = "register" /\ job[v].p = j.p
                 THEN raced \cup {j.p} ELSE raced
     /\ UNCHANGED <<ann, plug, missed, ops, faults>>

\* Mutant: the secret stays on the row after the registration.
MarkConsumedKeepsSecret(r) ==
  IF r # NoRow /\ ~r.consumed THEN [r EXCEPT !.consumed = TRUE] ELSE r

\* mark_consumed, in its own transaction.  A failure is logged and swallowed.
MarkConsumed(r) ==
  IF r # NoRow /\ ~r.consumed THEN [r EXCEPT !.consumed = TRUE, !.secret = None] ELSE r

ReplyNext(w) == job' = [job EXCEPT ![w].op = "reply"]

mark_consumed(w) ==
  LET p == job[w].p
  IN /\ job[w].op = "link"
     /\ ann' = [ann EXCEPT ![p] = MarkConsumed(@)]
     /\ missed' = IF Exists(p) /\ ann[p].consumed THEN missed \cup {p} ELSE missed
     /\ ReplyNext(w)
     /\ UNCHANGED <<tok, dev, plug, raced, ops, faults>>

mark_consumed_fails(w) ==
  /\ job[w].op = "link" /\ Fault
  /\ missed' = missed \cup {job[w].p}
  /\ ReplyNext(w)
  /\ UNCHANGED <<ann, tok, dev, plug, raced, ops>>

\* A restored device is sent its configuration (best effort), then the answer
\* with the credential goes out, to a plug that may have stopped waiting.
_push_restore_config(t) ==
  IF tok[t].target # None THEN [dev EXCEPT ![tok[t].target].push = TRUE] ELSE dev

register_reply(w) ==
  LET j == job[w]
  IN /\ j.op = "reply"
     /\ dev' \in {dev, _push_restore_config(j.t)}
     /\ plug' = IF j.lost THEN plug ELSE [plug EXCEPT ![j.p].secret = None, ![j.p].cred = j.t]
     /\ job' = [job EXCEPT ![w] = Idle]
     /\ UNCHANGED <<ann, tok, raced, missed, ops, faults>>

-----------------------------------------------------------------------------
(* The operator: the pending-adoption page and the enrollment tokens.      *)

\* adopt(), first half: the checks, then the token, minted and committed.
AdoptAllowed(p, target) ==
  /\ Exists(p) /\ ~ann[p].rejected /\ ~ann[p].adopted
  /\ target # None => /\ dev[target].st = "active"
                      /\ TextMac(target) = AnnouncedMac(p)

Mints(w, p, target) ==
  /\ AdoptAllowed(p, target) /\ Free # {}
  /\ tok' = _mint_enrollment_token_in_session(tok, target)
  /\ job' = [job EXCEPT ![w] = [op |-> "adopt", p |-> p, t |-> Min(Free), gone |-> FALSE]]

adopt(w, p, target) ==
  /\ job[w] = Idle /\ Op /\ Mints(w, p, target)
  /\ UNCHANGED <<ann, dev, plug, raced, missed, faults>>

\* "Adopt" (page or API): a fresh device.  "Restore to this device": an existing row.
adopt_submit(w, p) == adopt(w, p, None)
restore_submit(w, p) == \E d \in Devices : adopt(w, p, d)

\* adopt(), second half: the row refers to the token and holds its secret.
\* If the row has been deleted meanwhile the update fails and the token stays.
adopt_commit(w) ==
  LET j == job[w]
  IN /\ j.op = "adopt"
     /\ ann' = IF j.gone THEN ann
               ELSE [ann EXCEPT ![j.p].adopted = TRUE, ![j.p].secret = j.t, ![j.p].token = j.t]
     /\ job' = [job EXCEPT ![w] = Idle]
     /\ UNCHANGED <<tok, dev, plug, raced, missed, ops, faults>>

adopt_fails(w) ==
  /\ job[w].op = "adopt" /\ Fault
  /\ job' = [job EXCEPT ![w] = Idle]
  /\ UNCHANGED <<ann, tok, dev, plug, raced, missed, ops>>

\* "Decommission and adopt": the old row goes in a transaction of its own.
decommission(w, p, d) ==
  /\ job[w] = Idle /\ dev[d].st # "none" /\ Op
  /\ dev' = [dev EXCEPT ![d].st = "decommissioned"]
  /\ job' = [job EXCEPT ![w] = [op |-> "replace", p |-> p]]
  /\ UNCHANGED <<ann, tok, plug, raced, missed, faults>>

decommission_and_adopt(w) ==
  /\ job[w].op = "replace"
  /\ IF AdoptAllowed(job[w].p, None) THEN Mints(w, job[w].p, None)
     ELSE job' = [job EXCEPT ![w] = Idle] /\ UNCHANGED tok
  /\ UNCHANGED <<ann, dev, plug, raced, missed, ops, faults>>

reject(p) ==
  /\ Exists(p) /\ ~ann[p].rejected /\ Op
  /\ ann' = [ann EXCEPT ![p].rejected = TRUE]
  /\ UNCHANGED <<tok, dev, plug, job, raced, missed, faults>>

force_adopt_reconcile(p) ==
  /\ Exists(p) /\ ~ann[p].consumed /\ Op
  /\ \E d \in SameMac(p) : dev[d].st = "active"
  /\ ann' = [ann EXCEPT ![p].consumed = TRUE, ![p].secret = None]
  /\ UNCHANGED <<tok, dev, plug, job, raced, missed, faults>>

delete(p) ==
  /\ Exists(p) /\ Op
  /\ ann' = [ann EXCEPT ![p] = NoRow]
  /\ job' = [w \in Workers |-> IF job[w].op = "adopt" /\ job[w].p = p
                               THEN [job[w] EXCEPT !.gone = TRUE] ELSE job[w]]
  /\ UNCHANGED <<tok, dev, plug, raced, missed, faults>>

\* A token minted on its own (page, wizard or API) and typed into a plug.
mint_enrollment_token(p) ==
  /\ ~Online(p) /\ ~Waiting(p) /\ Free # {} /\ Op
  /\ tok' = _mint_enrollment_token_in_session(tok, None)
  /\ plug' = [plug EXCEPT ![p].secret = Min(Free)]
  /\ UNCHANGED <<ann, dev, job, raced, missed, faults>>

\* Revocation reads the row, then deletes it once no registration has it locked.
revoke_read(w, t) ==
  /\ job[w] = Idle /\ tok[t].st = "live" /\ Op
  /\ job' = [job EXCEPT ![w] = [op |-> "revoke", t |-> t]]
  /\ UNCHANGED <<ann, tok, dev, plug, raced, missed, faults>>

\* ON DELETE SET NULL clears the announcement's reference; its secret stays.
revoke_delete(w) ==
  LET t == job[w].t
  IN /\ job[w].op = "revoke" /\ ~Locked(t)
     /\ tok' = [tok EXCEPT ![t].st = "deleted"]
     /\ ann' = [p \in Plugs |-> IF Exists(p) /\ ann[p].token = t
                                THEN [ann[p] EXCEPT !.token = None] ELSE ann[p]]
     /\ job' = [job EXCEPT ![w] = Idle]
     /\ UNCHANGED <<dev, plug, raced, missed, ops, faults>>

-----------------------------------------------------------------------------
(* Time and the plug.                                                      *)

Expire(t) ==
  /\ tok[t].st = "live" /\ ~tok[t].expired /\ Fault
  /\ tok' = [tok EXCEPT ![t].expired = TRUE]
  /\ UNCHANGED <<ann, dev, plug, job, raced, missed, ops>>

\* The plug gives up waiting for /register: its answer will be lost.
PlugTimeout(w) ==
  /\ job[w].op \in {"register", "link", "reply"} /\ ~job[w].lost /\ Fault
  /\ job' = [job EXCEPT ![w].lost = TRUE]
  /\ UNCHANGED <<ann, tok, dev, plug, raced, missed, ops>>

\* A reflash or factory reset: credential and token are gone, and the new
\* firmware may write its MAC address in another form.
Reflash(p, form) ==
  /\ plug[p].cred # None /\ ~Waiting(p) /\ Fault
  /\ plug' = [plug EXCEPT ![p] = [secret |-> None, cred |-> None, form |-> form]]
  /\ UNCHANGED <<ann, tok, dev, job, raced, missed, ops>>

-----------------------------------------------------------------------------
\* Rows left by releases that cleared the secret on its first delivery.
StrandedRow(t) == [NewAnnouncement EXCEPT !.adopted = TRUE, !.delivered = TRUE, !.token = t]

Init ==
  /\ \E legacy \in SUBSET Plugs :
       /\ Cardinality(legacy) <= 1
       /\ ann = [p \in Plugs |-> IF p \in legacy THEN StrandedRow(1) ELSE NoRow]
       /\ tok = [t \in Tokens |-> [st |-> IF t = 1 /\ legacy # {} THEN "live" ELSE "unminted",
                                   expired |-> FALSE, target |-> None]]
  /\ \E f \in [Plugs -> Forms] : plug = [p \in Plugs |-> [secret |-> None, cred |-> None, form |-> f[p]]]
  /\ dev = [d \in Devices |-> [st |-> "none", mac |-> CHOOSE p \in Plugs : TRUE,
                               form |-> "bare", cred |-> None, push |-> FALSE]]
  /\ job = [w \in Workers |-> Idle]
  /\ raced = {} /\ missed = {} /\ ops = 0 /\ faults = 0

PlugNext(p) ==
  \/ \E known, received \in BOOLEAN : announce(p, known, received)
  \/ \E w \in Workers : register_read(w, p)
  \/ \E form \in Forms : Reflash(p, form)

OperatorNext ==
  \/ \E p \in Plugs : reject(p) \/ force_adopt_reconcile(p) \/ delete(p) \/ mint_enrollment_token(p)
  \/ \E w \in Workers, p \in Plugs : \/ adopt_submit(w, p) \/ restore_submit(w, p)
                                     \/ \E d \in Devices : decommission(w, p, d)
  \/ \E w \in Workers, t \in Tokens : revoke_read(w, t)

WorkerNext(w) ==
  \/ register_commit(w) \/ mark_consumed(w) \/ mark_consumed_fails(w) \/ register_reply(w)
  \/ adopt_commit(w) \/ adopt_fails(w) \/ decommission_and_adopt(w) \/ revoke_delete(w)
  \/ PlugTimeout(w)

Next ==
  \/ \E p \in Plugs : PlugNext(p)
  \/ OperatorNext
  \/ \E w \in Workers : WorkerNext(w)
  \/ \E t \in Tokens : Expire(t)

\* A request that is being served is finished; a plug keeps polling and now
\* and then gets an answer; nothing is assumed of the operator or of faults.
Fairness ==
  /\ \A p \in Plugs : /\ WF_vars(announce(p, TRUE, TRUE))
                     /\ WF_vars(\E w \in Workers : register_read(w, p))
  /\ \A w \in Workers : /\ WF_vars(register_commit(w)) /\ WF_vars(mark_consumed(w))
                       /\ WF_vars(register_reply(w)) /\ WF_vars(adopt_commit(w))
                       /\ WF_vars(decommission_and_adopt(w)) /\ WF_vars(revoke_delete(w))

Spec == Init /\ [][Next]_vars /\ Fairness

-----------------------------------------------------------------------------
(* Properties.                                                             *)

TypeOK ==
  /\ ann \in [Plugs -> Announcement \cup {NoRow}]
  /\ tok \in [Tokens -> EnrollmentToken]
  /\ dev \in [Devices -> Device]
  /\ plug \in [Plugs -> [secret: Tokens \cup {None}, cred: Tokens \cup {None}, form: Forms]]
  /\ raced \subseteq Plugs /\ missed \subseteq Plugs
  /\ ops \in 0 .. MaxOps /\ faults \in 0 .. MaxFaults

\* An enrollment token registers one device: however registrations with it
\* overlap, be they retries after a timeout, no two device rows ever hold the
\* credential it paid for (the FOR UPDATE of consume_enrollment_token).
TokenRegistersOneDevice ==
  \A d, e \in Devices : dev[d].cred = dev[e].cred /\ dev[d].cred # None => d = e

\* Two active device rows for one plug, under the same spelling of its MAC
\* address, are only ever the work of two registrations that were both past
\* the duplicate check before either committed.
DuplicateNeedsRace ==
  \A d, e \in Devices :
    dev[d].st = "active" /\ dev[e].st = "active" /\ TextMac(d) = TextMac(e) /\ d # e
      => dev[d].mac \in raced

\* A row never keeps offering a used token, unless the cross-link of the
\* registration that used it failed, came to a row already marked consumed,
\* or has yet to run.
OfferedTokenIsFresh ==
  \A p \in Plugs :
    Exists(p) /\ ann[p].secret # None /\ tok[ann[p].secret].st = "consumed"
      => p \in missed \/ \E w \in Workers : job[w].op = "link" /\ job[w].p = p

\* A plug that has lost its credential and can be healed without the operator:
\* its row is consumed, or offers a token for its own active device row, which
\* has the spelling of the MAC address the plug still uses.
OwnRow(p, d) == dev[d].st = "active" /\ TextMac(d) = <<p, plug[p].form>>
HealingToken(p, t) ==
  tok[t].st = "live" /\ ~tok[t].expired /\ tok[t].target # None /\ OwnRow(p, tok[t].target)
Healing(p) ==
  /\ ~Online(p) /\ Exists(p) /\ ~ann[p].rejected /\ Free # {}
  /\ plug[p].secret # None => HealingToken(p, plug[p].secret)
  /\ IF ann[p].secret = None THEN ann[p].consumed /\ \E d \in Devices : SameMac(p) = {d} /\ OwnRow(p, d)
     ELSE HealingToken(p, ann[p].secret)

\* Such a plug does not stay in that state: it gets a new credential by itself
\* (auto-rebind in upsert_announcement, then the restore branch of /register).
PlugHeals == \A p \in Plugs : []<>~Healing(p)

=============================================================================
