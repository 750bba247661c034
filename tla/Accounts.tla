------------------------------ MODULE Accounts ------------------------------
(***************************************************************************)
(* Accounts of the hub's operators: sign-in and the credentials it issues  *)
(* (services/auth.py, sessions.py, middleware/admin_auth.py), the cutoff   *)
(* that ends them (services/users.py), password resets, invitations and    *)
(* signup requests.                                                        *)
(*                                                                         *)
(* The clock counts seconds, the resolution at which a credential's iat is *)
(* compared with the cutoff.  A password is a version number; an account   *)
(* is named by its e-mail address, which the database keeps unique.        *)
(***************************************************************************)
EXTENDS Integers, Sequences, FiniteSets

CONSTANTS Emails,       \* addresses of accounts, invitees and applicants
          Root,         \* the address of the account made at the first start
          Workers,      \* threads of the hub
          Roles,        \* the roles in play, with "super_admin"
          TTL,          \* lifetime of an access token, an invitation, a reset
          MaxTime,      \* bound: seconds
          MaxPassword,  \* bound: password changes of an account
          MaxCreds,     \* bound: credentials ever issued
          MaxRows,      \* bound: rows of each of invitations, resets, requests
          MaxOps        \* bound: requests served

ASSUME AccountsAssumption ==
  /\ Root \in Emails /\ "super_admin" \in Roles /\ "none" \notin Roles /\ "nobody" \notin Workers
  /\ TTL \in Nat /\ MaxTime \in Nat /\ MaxPassword \in Nat /\ MaxCreds \in Nat /\ MaxRows \in Nat
  /\ MaxOps \in Nat

VARIABLES clock,
          user,    \* e-mail -> the account's row, or NoUser
          cred,    \* the cookies and tokens issued, in order; the index is the jti
          row,     \* jti -> its session row: "none", "live" or "revoked"
          inv,     \* invitations
          reset,   \* password resets
          signup,  \* signup requests
          job,     \* worker -> the request it serves
          ops

vars == <<clock, user, cred, row, inv, reset, signup, job, ops>>

NoUser == [role |-> "none"]
NoWorker == "nobody"
Idle == [op |-> "idle"]

\* from, at: history, when the last password was submitted and when written.
\* spared: history, a start forced that password without a cutoff, or another
\* change that was under way moved the cutoff back behind it.
\* by: history, the invitation that made the account.
User(role, by) == [role |-> role, active |-> TRUE, pw |-> 0, cutoff |-> clock,
                   from |-> clock, at |-> clock, spared |-> FALSE, by |-> by]

\* pw: history, the password it was obtained with; via: how it was obtained.
Credential(kind, e, sid, pw, via) ==
  [kind |-> kind, user |-> e, sid |-> sid, iat |-> clock, pw |-> pw, via |-> via]

Invitation(e, role, request) ==
  [email |-> e, role |-> role, exp |-> clock + TTL, state |-> "pending",
   holder |-> NoWorker, handed |-> request = 0, request |-> request, cut |-> FALSE]

Exists(e) == user[e] # NoUser
Free(w) == job[w] = Idle
Served == ops < MaxOps /\ ops' = ops + 1
Start(w, j) == Free(w) /\ Served /\ job' = [job EXCEPT ![w] = j]
Ends(w) == job' = [job EXCEPT ![w] = Idle] /\ UNCHANGED ops

-----------------------------------------------------------------------------
(* Who a request is from.                                                  *)

\* up: the session table can be read; while it cannot, nothing counts as revoked.
_is_jti_revoked(c, up) == up /\ c.sid # 0 /\ row[c.sid] = "revoked"

\* Issued in the cutoff's own second counts as issued after it.
Fresh(c) == ~(c.iat < user[c.user].cutoff)

decode_token(c) == c.kind \in {"access", "refresh"} /\ clock < c.iat + TTL

_resolve_user_and_iat(c, up) ==
  /\ c.kind = "cookie" \/ (c.kind = "access" /\ decode_token(c))
  /\ Exists(c.user)
  /\ ~_is_jti_revoked(c, up)

_resolve_user(c, up) == _resolve_user_and_iat(c, up) /\ user[c.user].active /\ Fresh(c)

\* A request meets the session table up or down.
role_required(c, allowed) ==
  (\E up \in BOOLEAN : _resolve_user(c, up)) /\ user[c.user].role \in allowed

-----------------------------------------------------------------------------
(* Signing in: the password is verified in one transaction; cookie and     *)
(* tokens are stamped with the time at which they are made afterwards.     *)

\* Recording a session row is best effort: a failure leaves no row.
Issue(new) ==
  /\ Len(cred) + Len(new) <= MaxCreds
  /\ cred' = cred \o new
  /\ \E kept \in {{}, DOMAIN new} :
       row' = [j \in 1 .. MaxCreds |->
                 IF j - Len(cred) \in kept /\ new[j - Len(cred)].sid # 0 THEN "live" ELSE row[j]]

authenticate(w, e) ==
  /\ Exists(e) /\ user[e].active
  /\ Start(w, [op |-> "login", user |-> e, pw |-> user[e].pw])
  /\ UNCHANGED <<clock, user, cred, row, inv, reset, signup>>

Via(j) == IF user[j.user].pw = j.pw THEN "login" ELSE "late_login"

login_submit(w) ==
  LET j == job[w]
  IN /\ j.op = "login" /\ Ends(w)
     /\ Issue(<<Credential("cookie", j.user, Len(cred) + 1, j.pw, Via(j))>>)
     /\ UNCHANGED <<clock, user, inv, reset, signup>>

\* The API also issues an access and a refresh token.
login(w) ==
  LET j == job[w]
      n == Len(cred)
  IN /\ j.op = "login" /\ Ends(w)
     /\ Issue(<<Credential("cookie", j.user, n + 1, j.pw, Via(j)),
                Credential("access", j.user, n + 2, j.pw, Via(j)),
                Credential("refresh", j.user, n + 3, j.pw, Via(j))>>)
     /\ UNCHANGED <<clock, user, inv, reset, signup>>

\* A refresh token is exchanged on its signature, its expiry and the account
\* being active; neither the cutoff nor its session row is consulted.
refresh(c) ==
  /\ c.kind = "refresh" /\ decode_token(c) /\ Exists(c.user) /\ user[c.user].active
  /\ Served
  /\ Issue(<<Credential("access", c.user, Len(cred) + 1, c.pw, "refresh"),
             Credential("refresh", c.user, Len(cred) + 2, c.pw, "refresh")>>)
  /\ UNCHANGED <<clock, user, inv, reset, signup, job>>

-----------------------------------------------------------------------------
(* Ending credentials.                                                     *)

revoke_one(sid) == row' = [row EXCEPT ![sid] = IF @ = "live" THEN "revoked" ELSE @]

revoke_all_for_user(e) ==
  row' = [j \in 1 .. MaxCreds |->
            IF row[j] = "live" /\ cred[j].user = e THEN "revoked" ELSE row[j]]

\* The account is read, the time taken and the row written, without a lock: of
\* two changes that overlap, the later write keeps the cutoff it had taken.
Ending(w, e, what) == Start(w, [op |-> what, user |-> e, now |-> clock])

revoke_all_tokens(w, e) == Ending(w, e, "revoke")
deactivate_user(w, e) == Ending(w, e, "deactivate")

Ended(u, now, active) ==
  [u EXCEPT !.cutoff = now, !.active = active, !.spared = now < u.from]

\* Revoking the session rows is a second transaction, which may fail.
cutoff_written(w) ==
  LET j == job[w]
      u == user[j.user]
  IN /\ j.op \in {"revoke", "deactivate"} /\ UNCHANGED ops
     /\ \E now \in j.now .. clock :
          user' = [user EXCEPT ![j.user] = Ended(u, now, u.active /\ j.op = "revoke")]
     /\ job' = [job EXCEPT ![w] = IF j.op = "revoke" THEN [op |-> "rows", user |-> j.user] ELSE Idle]
     /\ UNCHANGED <<clock, cred, row, inv, reset, signup>>

rows_revoked(w) ==
  /\ job[w].op = "rows" /\ Ends(w)
  /\ revoke_all_for_user(job[w].user) \/ UNCHANGED row
  /\ UNCHANGED <<clock, user, cred, inv, reset, signup>>

\* The page signs out this browser session, the API every session; neither
\* asks whether the cookie is still accepted.
logout_page(c) ==
  /\ c.kind = "cookie" /\ c.sid # 0 /\ Served
  /\ revoke_one(c.sid)
  /\ UNCHANGED <<clock, user, cred, inv, reset, signup, job>>

logout(w, c) ==
  /\ c.kind = "cookie" /\ Exists(c.user)
  /\ revoke_all_tokens(w, c.user)
  /\ UNCHANGED <<clock, user, cred, row, inv, reset, signup>>

me_revoke_everywhere_submit(w, c) ==
  /\ role_required(c, Roles)
  /\ revoke_all_tokens(w, c.user)
  /\ UNCHANGED <<clock, user, cred, row, inv, reset, signup>>

\* Mutant: the password is replaced and the cutoff left.
NewPasswordOnly(e, submitted) ==
  [user[e] EXCEPT !.pw = @ + 1, !.from = submitted, !.at = clock, !.spared = FALSE]

\* A password is written together with the cutoff.
NewPassword(e, submitted) ==
  [user[e] EXCEPT !.pw = @ + 1, !.cutoff = submitted, !.from = submitted, !.at = clock,
                  !.spared = FALSE]

\* The old password is verified when the account is read.
me_password_submit(w, c) ==
  /\ role_required(c, Roles)
  /\ Ending(w, c.user, "change")
  /\ UNCHANGED <<clock, user, cred, row, inv, reset, signup>>

change_own_password(w) ==
  LET j == job[w]
  IN /\ j.op = "change" /\ user[j.user].pw < MaxPassword /\ Ends(w)
     /\ \E now \in j.now .. clock : user' = [user EXCEPT ![j.user] = NewPassword(j.user, now)]
     /\ UNCHANGED <<clock, cred, row, inv, reset, signup>>

-----------------------------------------------------------------------------
(* What a super admin does to an account.                                  *)

update_user_role(e, role) == user' = [user EXCEPT ![e].role = role]

\* The same three operations behind the page's forms and behind the API.
users_submit(w, c, e) ==
  /\ role_required(c, {"super_admin"}) /\ Exists(e)
  /\ \/ (e # c.user /\ deactivate_user(w, e)) /\ UNCHANGED user
     \/ revoke_all_tokens(w, e) /\ UNCHANGED user
     \/ \E role \in Roles : update_user_role(e, role) /\ Served /\ UNCHANGED job
  /\ UNCHANGED <<clock, cred, row, inv, reset, signup>>

-----------------------------------------------------------------------------
(* Password resets.                                                        *)

request_reset(e, mailed) ==
  /\ Exists(e) /\ user[e].active /\ Len(reset) < MaxRows
  /\ reset' = Append(reset, [user |-> e, exp |-> clock + TTL, consumed |-> FALSE, mailed |-> mailed])

\* The mail may fail; the reset stays, with a link that nobody has.
forgot_password_submit(e) ==
  /\ Served /\ \E mailed \in BOOLEAN : request_reset(e, mailed)
  /\ UNCHANGED <<clock, user, cred, row, inv, signup, job>>

\* The link is checked, then the new password is hashed, without a lock.
consume_reset(r) ==
  ~reset[r].consumed /\ clock < reset[r].exp /\ user[reset[r].user].active

reset_password_submit(w, r) ==
  /\ reset[r].mailed /\ consume_reset(r)
  /\ Start(w, [op |-> "reset", r |-> r, now |-> clock])
  /\ UNCHANGED <<clock, user, cred, row, inv, reset, signup>>

\* The cutoff written is the time at which the submission arrived.
reset_written(w) ==
  LET j == job[w]
      e == reset[j.r].user
  IN /\ j.op = "reset" /\ user[e].pw < MaxPassword /\ Ends(w)
     /\ user' = [user EXCEPT ![e] = NewPassword(e, j.now)]
     /\ reset' = [reset EXCEPT ![j.r].consumed = TRUE]
     /\ UNCHANGED <<clock, cred, row, inv, signup>>

-----------------------------------------------------------------------------
(* Invitations.  Redeeming holds the row's lock while the account is made  *)
(* in a transaction of its own; cancelling reads first and deletes then.   *)

mint_invitation(e, role, request) ==
  /\ Len(inv) < MaxRows
  /\ inv' = Append(inv, Invitation(e, role, request))

\* Only a super admin invites a super admin.
MayInvite(c, role) ==
  /\ role_required(c, {"super_admin", "admin"})
  /\ role = "super_admin" => user[c.user].role = "super_admin"

create_invitation(c, e, role) ==
  /\ MayInvite(c, role) /\ Served
  /\ mint_invitation(e, role, 0)
  /\ UNCHANGED <<clock, user, cred, row, reset, signup, job>>

\* Mutant: the row is read without FOR UPDATE.
NeverLocked(i) == FALSE

Locked(i) == inv[i].holder # NoWorker

redeem_invitation(w, i) ==
  /\ inv[i].handed /\ inv[i].state = "pending" /\ ~Locked(i) /\ clock < inv[i].exp
  /\ Start(w, [op |-> "redeem", i |-> i])
  /\ inv' = [inv EXCEPT ![i].holder = w]
  /\ UNCHANGED <<clock, user, cred, row, reset, signup>>

\* An address that has an account already fails the redemption.
create_user(w) ==
  LET j == job[w]
      e == inv[j.i].email
  IN /\ j.op = "redeem" /\ UNCHANGED ops
     /\ IF Exists(e)
        THEN /\ job' = [job EXCEPT ![w] = Idle]
             /\ inv' = [inv EXCEPT ![j.i].holder = NoWorker]
             /\ UNCHANGED user
        ELSE /\ user' = [user EXCEPT ![e] = User(inv[j.i].role, j.i)]
             /\ job' = [job EXCEPT ![w].op = "redeemed"]
             /\ UNCHANGED inv
     /\ UNCHANGED <<clock, cred, row, reset, signup>>

\* The invitation is consumed and the new user signed in, without a sid.
invite_redeem_submit(w) ==
  LET j == job[w]
  IN /\ j.op = "redeemed" /\ Ends(w)
     /\ inv' = [inv EXCEPT ![j.i].state = IF @ = "deleted" THEN @ ELSE "consumed",
                           ![j.i].holder = NoWorker]
     /\ Issue(<<Credential("cookie", inv[j.i].email, 0, 0, Via([user |-> inv[j.i].email, pw |-> 0]))>>)
     /\ UNCHANGED <<clock, user, reset, signup>>

cancel_invitation(i) == inv[i].state = "pending"

invitations_bulk_cancel_submit(w, c, ids) ==
  /\ role_required(c, {"super_admin", "admin"}) /\ ids # {} /\ \A i \in ids : cancel_invitation(i)
  /\ Start(w, [op |-> "cancel", ids |-> ids])
  /\ UNCHANGED <<clock, user, cred, row, inv, reset, signup>>

\* The DELETE waits for the lock.  cut: history, it took a consumed row.
cancel_invitations_bulk(w) ==
  LET j == job[w]
  IN /\ j.op = "cancel" /\ (\A i \in j.ids : ~Locked(i)) /\ Ends(w)
     /\ inv' = [i \in DOMAIN inv |->
                  IF i \in j.ids THEN [inv[i] EXCEPT !.state = "deleted",
                                                    !.cut = @ \/ inv[i].state = "consumed"]
                  ELSE inv[i]]
     /\ UNCHANGED <<clock, user, cred, row, reset, signup>>

-----------------------------------------------------------------------------
(* Signup requests.                                                        *)

Pending(e) == \E k \in DOMAIN signup : signup[k].email = e /\ signup[k].status = "pending"

\* Looking for a pending request and inserting this one are two transactions.
signup_request_submit(w, e) ==
  /\ ~Pending(e) /\ Start(w, [op |-> "signup", user |-> e])
  /\ UNCHANGED <<clock, user, cred, row, inv, reset, signup>>

create_signup_request(w) ==
  /\ job[w].op = "signup" /\ Len(signup) < MaxRows /\ Ends(w)
  /\ signup' = Append(signup, [email |-> job[w].user, status |-> "pending", crossed |-> FALSE])
  /\ UNCHANGED <<clock, user, cred, row, inv, reset>>

\* Mutant: the invitation is mailed as soon as it is minted.
approve_mails_first(w, c, k, role) ==
  /\ role_required(c, {"super_admin", "admin"}) /\ signup[k].status = "pending"
  /\ Start(w, [op |-> "approve", k |-> k, i |-> Len(inv) + 1])
  /\ Len(inv) < MaxRows
  /\ inv' = Append(inv, [Invitation(signup[k].email, role, k) EXCEPT !.handed = TRUE])
  /\ UNCHANGED <<clock, user, cred, row, reset, signup>>

\* The invitation is minted first; its link is kept back.
signup_request_approve_submit(w, c, k, role) ==
  /\ role_required(c, {"super_admin", "admin"}) /\ signup[k].status = "pending"
  /\ Start(w, [op |-> "approve", k |-> k, i |-> Len(inv) + 1])
  /\ mint_invitation(signup[k].email, role, k)
  /\ UNCHANGED <<clock, user, cred, row, reset, signup>>

\* Both reviews read the request and write it afterwards, without a lock.
approve_signup_request(w) ==
  /\ job[w].op = "approve" /\ UNCHANGED ops
  /\ job' = [job EXCEPT ![w] = IF signup[job[w].k].status = "pending"
                               THEN [@ EXCEPT !.op = "approving"] ELSE Idle]
  /\ UNCHANGED <<clock, user, cred, row, inv, reset, signup>>

reject_signup_request(w, c, k) ==
  /\ role_required(c, {"super_admin", "admin"}) /\ signup[k].status = "pending"
  /\ Start(w, [op |-> "rejecting", k |-> k])
  /\ UNCHANGED <<clock, user, cred, row, inv, reset, signup>>

\* crossed: history, two reviews that both had read "pending".
Reviewed(k, status) ==
  signup' = [signup EXCEPT ![k].status = status, ![k].crossed = @ \/ signup[k].status # "pending"]

\* Once the review is recorded, the link goes out.
approval_sent(w) ==
  LET j == job[w]
  IN /\ j.op = "approving" /\ Ends(w)
     /\ Reviewed(j.k, "approved")
     /\ inv' = [inv EXCEPT ![j.i].handed = TRUE]
     /\ UNCHANGED <<clock, user, cred, row, reset>>

rejection_written(w) ==
  /\ job[w].op = "rejecting" /\ Ends(w)
  /\ Reviewed(job[w].k, "rejected")
  /\ UNCHANGED <<clock, user, cred, row, inv, reset>>

-----------------------------------------------------------------------------
(* The world.                                                              *)

Second ==
  /\ clock < MaxTime /\ clock' = clock + 1
  /\ UNCHANGED <<user, cred, row, inv, reset, signup, job, ops>>

\* Mutant: the cutoff is cleared with the password.
ForcedAndCleared(u) ==
  [u EXCEPT !.pw = @ + 1, !.cutoff = 0, !.from = clock, !.at = clock, !.spared = TRUE]

\* A start with the setting for a lost password writes the password of the
\* settings, and leaves the cutoff.
Forced(u) == [u EXCEPT !.pw = @ + 1, !.from = clock, !.at = clock, !.spared = TRUE]

\* What every start does: the super admin of the settings exists, is active
\* and has its role.
ensure_bootstrap_admin(users, force) ==
  [users EXCEPT ![Root] =
     IF @ = NoUser THEN User("super_admin", 0)
     ELSE [(IF force THEN Forced(@) ELSE @) EXCEPT !.active = TRUE, !.role = "super_admin"]]

\* The process dies and is started again: its transactions are rolled back,
\* its locks released.  A redemption leaves the account it had committed.
Restart ==
  /\ job' = [w \in Workers |-> Idle]
  /\ inv' = [i \in DOMAIN inv |->
               [inv[i] EXCEPT !.holder = NoWorker,
                              !.cut = @ \/ \E w \in Workers : job[w].op = "redeemed" /\ job[w].i = i]]
  /\ \E force \in BOOLEAN :
       (force => user[Root].pw < MaxPassword) /\ user' = ensure_bootstrap_admin(user, force)
  /\ UNCHANGED <<clock, cred, row, reset, signup, ops>>

Init ==
  /\ clock = 0 /\ user = ensure_bootstrap_admin([e \in Emails |-> NoUser], FALSE)
  /\ cred = <<>> /\ row = [j \in 1 .. MaxCreds |-> "none"]
  /\ inv = <<>> /\ reset = <<>> /\ signup = <<>>
  /\ job = [w \in Workers |-> Idle] /\ ops = 0

SignIn == \/ \E w \in Workers, e \in Emails : authenticate(w, e)
          \/ \E w \in Workers : login_submit(w) \/ login(w)
          \/ \E n \in DOMAIN cred : refresh(cred[n])

SignOut == \/ \E n \in DOMAIN cred : logout_page(cred[n])
           \/ \E w \in Workers : cutoff_written(w) \/ rows_revoked(w) \/ change_own_password(w)
           \/ \E w \in Workers, n \in DOMAIN cred :
                \/ logout(w, cred[n]) \/ me_revoke_everywhere_submit(w, cred[n])
                \/ me_password_submit(w, cred[n])
                \/ \E e \in Emails : users_submit(w, cred[n], e)

Resets == \/ \E e \in Emails : forgot_password_submit(e)
          \/ \E w \in Workers : reset_written(w) \/ \E r \in DOMAIN reset : reset_password_submit(w, r)

Invitations == \/ \E n \in DOMAIN cred, e \in Emails, role \in Roles :
                    create_invitation(cred[n], e, role)
               \/ \E w \in Workers : \/ create_user(w) \/ invite_redeem_submit(w)
                                     \/ cancel_invitations_bulk(w)
                                     \/ \E i \in DOMAIN inv : redeem_invitation(w, i)
                                     \/ \E ids \in SUBSET DOMAIN inv, n \in DOMAIN cred :
                                          invitations_bulk_cancel_submit(w, cred[n], ids)

Signups == \/ \E w \in Workers, e \in Emails : signup_request_submit(w, e)
           \/ \E w \in Workers : \/ create_signup_request(w) \/ approve_signup_request(w)
                                 \/ approval_sent(w) \/ rejection_written(w)
           \/ \E w \in Workers, n \in DOMAIN cred, k \in DOMAIN signup :
                \/ reject_signup_request(w, cred[n], k)
                \/ \E role \in Roles : signup_request_approve_submit(w, cred[n], k, role)

Next == Second \/ Restart \/ SignIn \/ SignOut \/ Resets \/ Invitations \/ Signups

Spec == Init /\ [][Next]_vars

-----------------------------------------------------------------------------
(* Properties.                                                             *)

\* Every variable keeps its shape.
TypeOK ==
  /\ clock \in 0 .. MaxTime
  /\ \A e \in Emails : Exists(e) => user[e].cutoff \in 0 .. clock /\ user[e].pw \in 0 .. MaxPassword
  /\ row \in [1 .. MaxCreds -> {"none", "live", "revoked"}]

\* A credential obtained with an earlier password is no longer accepted, even
\* while the session table cannot be read.
\* Exceptions: it was issued while the change was being processed (from the
\* second of its submission to the second of its commit), it comes from a
\* refresh token, its sign-in had verified the old password before the change
\* and was finished after it (password_resets.py:99, auth.py), a start of the
\* hub forced the password (bootstrap.py:898), or a revocation that overlapped
\* the change moved the cutoff back behind it (users.py:103).
OldPasswordEnds ==
  \A n \in DOMAIN cred :
    LET c == cred[n]
        u == user[c.user]
    IN _resolve_user(c, FALSE) /\ c.pw # u.pw =>
         \/ c.via \in {"refresh", "late_login"}
         \/ c.iat \in u.from .. u.at
         \/ u.spared

\* What was refused once stays refused, whether the session table can be read
\* or not: a revoked or superseded credential comes back only through another
\* change of the account that was begun before the cutoff in force and written
\* after it, which moves the cutoff back (users.py:99, password_resets.py:99),
\* or through a start of the hub, which activates the bootstrap account again.
\* (A cookie that was only signed out is accepted whenever the table cannot be
\* read, admin_auth.py:75; up is the same on both sides.)
EndedStaysEnded ==
  [][\A n \in DOMAIN cred, up \in BOOLEAN :
       ~_resolve_user(cred[n], up) /\ _resolve_user(cred[n], up)' =>
         \/ cred[n].user = Root /\ ~user[Root].active /\ Restart
         \/ \E w \in Workers : /\ reset_written(w) \/ cutoff_written(w) \/ change_own_password(w)
                             /\ job[w].now < user[cred[n].user].cutoff]_vars

\* An account made by an invitation leaves the invitation consumed, never
\* pending or cancelled, except while its redemption runs, when the hub died
\* in the middle of it, or when a cancellation that had read the invitation
\* before deleted the consumed row (invitations.py:172).
AccountMeansConsumed ==
  \A e \in Emails :
    Exists(e) /\ user[e].by # 0 =>
      LET v == inv[user[e].by]
      IN \/ v.state = "consumed"
         \/ v.cut
         \/ \E w \in Workers : job[w].op = "redeemed" /\ job[w].i = user[e].by /\ v.state = "pending"

\* The link of a rejected request reaches nobody, whatever the order in which
\* two admins review it, unless both reviews had read the request as pending
\* before either was written (signup_requests.py:78).
RejectedNeverJoins ==
  \A k \in DOMAIN signup :
    signup[k].status = "rejected" /\ ~signup[k].crossed =>
      \A i \in DOMAIN inv : inv[i].request = k => ~inv[i].handed

=============================================================================
