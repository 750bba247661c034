---------------------------- MODULE AccountsProofs ----------------------------
(***************************************************************************)
(* Accounts for every number of addresses, threads, credentials, rows and  *)
(* seconds: an earlier password and what was ended stay without effect, an *)
(* account's invitation is consumed, and the link of a rejected request is *)
(* not handed out.                                                         *)
(*                                                                         *)
(* The argument.  A password moves the cutoff to the second of its         *)
(* submission, and what leaves the cutoff behind it is marked (Covered);   *)
(* no credential is younger than the clock (CredInv), so one of an earlier *)
(* password that is accepted lies between that second and the commit.      *)
(* The rest is what one worker may do to another's tables (Frame): a       *)
(* redemption holds its invitation pending to its end (JobInv).  A link    *)
(* leaves only when its request is approved, and a review that overwrites  *)
(* another one leaves its mark (HandedInv).                                *)
(***************************************************************************)
EXTENDS Accounts, TLAPS

UserRow == [role: Roles, active: BOOLEAN, pw: Nat, cutoff: Nat, from: Nat, at: Nat,
            spared: BOOLEAN, by: Nat]
CredentialRow == [kind: {"cookie", "access", "refresh"}, user: Emails, sid: Nat, iat: Nat, pw: Nat,
                  via: {"login", "late_login", "refresh"}]
InvitationRow == [email: Emails, role: Roles, exp: Nat, state: {"pending", "consumed", "deleted"},
                  holder: Workers \cup {NoWorker}, handed: BOOLEAN, request: Nat, cut: BOOLEAN]
ResetRow == [user: Emails, exp: Nat, consumed: BOOLEAN, mailed: BOOLEAN]
SignupRow == [email: Emails, status: {"pending", "approved", "rejected"}, crossed: BOOLEAN]

\* The requests a worker can be serving.
Login == [op: {"login"}, user: Emails, pw: Nat]
Change == [op: {"revoke", "deactivate", "change"}, user: Emails, now: Nat]
Rows == [op: {"rows"}, user: Emails]
Reset == [op: {"reset"}, r: Nat, now: Nat]
Redeem == [op: {"redeem", "redeemed"}, i: Nat]
Cancel == [op: {"cancel"}, ids: SUBSET Nat]
Signup == [op: {"signup"}, user: Emails]
Approve == [op: {"approve", "approving"}, k: Nat, i: Nat]
Rejecting == [op: {"rejecting"}, k: Nat]
Jobs == {Idle} \cup Login \cup Change \cup Rows \cup Reset \cup Redeem \cup Cancel \cup Signup \cup Approve \cup Rejecting

TypeInv ==
  /\ clock \in Nat
  /\ user \in [Emails -> UserRow \cup {NoUser}]
  /\ cred \in Seq(CredentialRow) /\ Len(cred) <= MaxCreds
  /\ row \in [1 .. MaxCreds -> {"none", "live", "revoked"}]
  /\ inv \in Seq(InvitationRow) /\ reset \in Seq(ResetRow) /\ signup \in Seq(SignupRow)
  /\ job \in [Workers -> Jobs]

\* The cutoff covers the last password.
Covered(u) == u.spared \/ u.from <= u.cutoff

UserInv ==
  /\ Exists(Root)
  /\ \A e \in Emails : Exists(e) =>
       /\ Covered(user[e]) /\ user[e].cutoff <= clock
       /\ user[e].by # 0 => user[e].by \in DOMAIN inv

\* A credential is not younger than the clock; one obtained with an earlier
\* password by a sign-in in order is not younger than the change either.
Outdated(c) == c.pw # user[c.user].pw /\ c.via = "login"
CredOK(c) ==
  /\ Exists(c.user) /\ c.sid <= Len(cred) /\ c.iat <= clock
  /\ Outdated(c) => c.iat <= user[c.user].at
CredInv == \A n \in DOMAIN cred : CredOK(cred[n])

ResetInv == \A r \in DOMAIN reset : Exists(reset[r].user)

\* What a worker relies on between two steps of its request.
JobOK(w) ==
  LET j == job[w]
  IN /\ j.op = "login" => Exists(j.user)
     /\ j.op \in {"revoke", "deactivate", "change"} => Exists(j.user) /\ j.now <= clock
     /\ j.op = "reset" => j.r \in DOMAIN reset /\ j.now <= clock
     /\ j.op \in {"redeem", "redeemed"} =>
          /\ j.i \in DOMAIN inv /\ inv[j.i].holder = w /\ inv[j.i].state = "pending"
          /\ j.op = "redeemed" => Exists(inv[j.i].email)
     /\ j.op \in {"approve", "approving"} => /\ j.i \in DOMAIN inv /\ j.k \in DOMAIN signup
                                             /\ inv[j.i].request = j.k
     /\ j.op = "rejecting" => j.k \in DOMAIN signup
JobInv == \A w \in Workers : JobOK(w)

\* A request's link that was handed out: the request is approved, or two
\* reviews of it crossed.
HandedInv ==
  \A i \in DOMAIN inv : inv[i].handed /\ inv[i].request # 0 =>
    /\ inv[i].request \in DOMAIN signup
    /\ signup[inv[i].request].status = "approved" \/ signup[inv[i].request].crossed

IInv == TypeInv /\ UserInv /\ CredInv /\ ResetInv /\ JobInv /\ HandedInv /\ AccountMeansConsumed

-----------------------------------------------------------------------------
(* What a step may change, one predicate for each table, and why a step    *)
(* that keeps to them keeps the invariant.                                 *)

USE AccountsAssumption

\* An account that exists stays, made by the same invitation; its cutoff is
\* not ahead of the clock, and a new password is as young as the clock.
UsersKeep ==
  /\ clock' \in Nat /\ clock <= clock'
  /\ user' \in [Emails -> UserRow \cup {NoUser}]
  /\ \A e \in Emails : Exists(e) =>
       /\ user'[e] # NoUser /\ user'[e].by = user[e].by
       /\ Covered(user'[e]) /\ user'[e].cutoff <= clock'
       /\ (user'[e].pw = user[e].pw /\ user'[e].at = user[e].at) \/ user'[e].at = clock'
  /\ \A e \in Emails : ~Exists(e) /\ user'[e] # NoUser =>
       /\ Covered(user'[e]) /\ user'[e].cutoff <= clock'
       /\ user'[e].by # 0 => user'[e].by \in DOMAIN inv'

NobodyNew == \A e \in Emails : ~Exists(e) => user'[e] = NoUser

\* Credentials are only added, each stamped with the clock; a session row
\* that is revoked stays so.
CredsKeep ==
  /\ cred' \in Seq(CredentialRow) /\ Len(cred') <= MaxCreds
  /\ row' \in [1 .. MaxCreds -> {"none", "live", "revoked"}]
  /\ Len(cred) <= Len(cred')
  /\ \A n \in 1 .. Len(cred) : cred'[n] = cred[n] /\ (row[n] = "revoked" => row'[n] = "revoked")
  /\ \A n \in 1 .. Len(cred') : n > Len(cred) =>
       /\ user'[cred'[n].user] # NoUser /\ cred'[n].sid <= Len(cred') /\ cred'[n].iat <= clock'
       /\ cred'[n].via = "login" => cred'[n].pw = user'[cred'[n].user].pw

ResetsKeep ==
  /\ reset' \in Seq(ResetRow) /\ Len(reset) <= Len(reset')
  /\ \A r \in 1 .. Len(reset') : user'[reset'[r].user] # NoUser

\* Invitations stay and keep whom and what they are for.
InvsGrow ==
  /\ inv' \in Seq(InvitationRow) /\ Len(inv) <= Len(inv')
  /\ \A i \in 1 .. Len(inv) : inv'[i].email = inv[i].email /\ inv'[i].request = inv[i].request

\* A row's state and mark.
StatesKeep == \A i \in 1 .. Len(inv) : inv'[i].state = inv[i].state /\ inv'[i].cut = inv[i].cut

\* No link of a request is handed out.
LinksKeep ==
  \A i \in 1 .. Len(inv') : inv'[i].handed /\ inv'[i].request # 0 => i \in 1 .. Len(inv) /\ inv[i].handed

SignupsGrow == signup' \in Seq(SignupRow) /\ Len(signup) <= Len(signup')

ReviewsKeep ==
  \A k \in 1 .. Len(signup) : signup'[k].status = signup[k].status /\ signup'[k].crossed = signup[k].crossed

\* A worker goes on with its request, whose invitation nobody touched, or
\* relies on nothing but what JobOK says.
JobsKeep ==
  /\ job' \in [Workers -> Jobs]
  /\ \A w \in Workers :
       \/ JobOK(w)'
       \/ /\ job'[w] = job[w]
          /\ job[w].op \in {"redeem", "redeemed"} =>
               /\ inv'[job[w].i].holder = inv[job[w].i].holder
               /\ inv'[job[w].i].state = inv[job[w].i].state

RedemptionsKeep == \A w \in Workers : job[w].op = "redeemed" => job'[w] = job[w]

Frame == UsersKeep /\ CredsKeep /\ ResetsKeep /\ InvsGrow /\ SignupsGrow /\ JobsKeep

LEMMA Domains ==
    ASSUME TypeInv
    PROVE  /\ DOMAIN cred = 1 .. Len(cred) /\ DOMAIN inv = 1 .. Len(inv)
           /\ DOMAIN reset = 1 .. Len(reset) /\ DOMAIN signup = 1 .. Len(signup)
           /\ Len(cred) \in Nat /\ Len(inv) \in Nat /\ Len(reset) \in Nat /\ Len(signup) \in Nat
  BY DEF TypeInv

LEMMA DomainsNext ==
    ASSUME Frame
    PROVE  /\ DOMAIN cred' = 1 .. Len(cred') /\ DOMAIN inv' = 1 .. Len(inv')
           /\ DOMAIN reset' = 1 .. Len(reset') /\ DOMAIN signup' = 1 .. Len(signup')
           /\ Len(cred') \in Nat /\ Len(inv') \in Nat /\ Len(reset') \in Nat /\ Len(signup') \in Nat
  BY DEF Frame, CredsKeep, InvsGrow, ResetsKeep, SignupsGrow

LEMMA UserShape ==
    ASSUME TypeInv, NEW e \in Emails
    PROVE  Exists(e) => user[e] \in UserRow
  BY DEF TypeInv, Exists

LEMMA RowIsSomebody == NoUser \notin UserRow
  BY DEF NoUser, UserRow

LEMMA InvShape ==
    ASSUME TypeInv, NEW i \in 1 .. Len(inv)
    PROVE  /\ inv[i] \in InvitationRow /\ inv[i].email \in Emails /\ inv[i].role \in Roles
           /\ inv[i].request \in Nat
  <1>1. inv[i] \in InvitationRow
    BY DEF TypeInv
  <1> QED
    BY <1>1 DEF InvitationRow

LEMMA CredShape ==
    ASSUME TypeInv, NEW n \in DOMAIN cred
    PROVE  /\ cred[n] \in CredentialRow /\ cred[n].user \in Emails /\ cred[n].sid \in Nat
           /\ cred[n].iat \in Nat /\ cred[n].pw \in Nat
  <1>1. cred[n] \in CredentialRow
    BY DEF TypeInv
  <1> QED
    BY <1>1 DEF CredentialRow

\* What a job is by its operation.
LEMMA JobShape ==
    ASSUME TypeInv, NEW w \in Workers
    PROVE  /\ job[w].op = "login" => job[w] \in Login
           /\ job[w].op \in {"revoke", "deactivate", "change"} => job[w] \in Change
           /\ job[w].op = "rows" => job[w] \in Rows
           /\ job[w].op = "reset" => job[w] \in Reset
           /\ job[w].op \in {"redeem", "redeemed"} => job[w] \in Redeem
           /\ job[w].op = "cancel" => job[w] \in Cancel
           /\ job[w].op = "signup" => job[w] \in Signup
           /\ job[w].op \in {"approve", "approving"} => job[w] \in Approve
           /\ job[w].op = "rejecting" => job[w] \in Rejecting
  <1>1. job[w] \in Jobs
    BY DEF TypeInv
  <1>2. /\ job[w] = Idle => job[w].op = "idle"
        /\ job[w] \in Login => job[w].op = "login"
        /\ job[w] \in Change => job[w].op \in {"revoke", "deactivate", "change"}
        /\ job[w] \in Rows => job[w].op = "rows"
        /\ job[w] \in Reset => job[w].op = "reset"
        /\ job[w] \in Redeem => job[w].op \in {"redeem", "redeemed"}
        /\ job[w] \in Cancel => job[w].op = "cancel"
        /\ job[w] \in Signup => job[w].op = "signup"
        /\ job[w] \in Approve => job[w].op \in {"approve", "approving"}
        /\ job[w] \in Rejecting => job[w].op = "rejecting"
    BY DEF Idle, Login, Change, Rows, Reset, Redeem, Cancel, Signup, Approve, Rejecting
  <1> QED
    BY <1>1, <1>2 DEF Jobs

LEMMA TypeStep ==
    ASSUME Frame
    PROVE  TypeInv'
  BY DEF Frame, TypeInv, UsersKeep, CredsKeep, ResetsKeep, InvsGrow, SignupsGrow, JobsKeep

LEMMA UserStep ==
    ASSUME TypeInv, UserInv, Frame
    PROVE  UserInv'
  <1>1. Exists(Root)'
    BY DEF UserInv, Frame, UsersKeep, Exists
  <1>2. ASSUME NEW e \in Emails, user'[e] # NoUser
        PROVE  /\ Covered(user'[e]) /\ user'[e].cutoff <= clock'
               /\ user'[e].by # 0 => user'[e].by \in DOMAIN inv'
    <2>1. CASE Exists(e)
      <3>1. /\ Covered(user'[e]) /\ user'[e].cutoff <= clock' /\ user'[e].by = user[e].by
        BY <2>1 DEF Frame, UsersKeep
      <3>2. user[e].by # 0 => user[e].by \in 1 .. Len(inv)
        BY <2>1, Domains DEF UserInv
      <3>3. Len(inv) \in Nat /\ Len(inv') \in Nat /\ Len(inv) <= Len(inv') /\ DOMAIN inv' = 1 .. Len(inv')
        BY Domains, DomainsNext DEF Frame, InvsGrow
      <3> QED
        BY <3>1, <3>2, <3>3
    <2>2. CASE ~Exists(e)
      BY <1>2, <2>2 DEF Frame, UsersKeep
    <2> QED
      BY <2>1, <2>2
  <1> QED
    BY <1>1, <1>2 DEF UserInv, Exists

LEMMA CredStep ==
    ASSUME TypeInv, CredInv, Frame
    PROVE  CredInv'
  <1>1. SUFFICES ASSUME NEW n \in 1 .. Len(cred') PROVE CredOK(cred[n])'
    BY DomainsNext DEF CredInv
  <1> DEFINE c == cred'[n]
  <1>t. /\ c \in CredentialRow /\ Len(cred) \in Nat /\ Len(cred') \in Nat /\ Len(cred) <= Len(cred')
        /\ clock \in Nat /\ clock' \in Nat /\ clock <= clock'
    BY Domains, DomainsNext DEF Frame, CredsKeep, UsersKeep, TypeInv
  <1>a. c.user \in Emails /\ c.iat \in Nat /\ c.sid \in Nat
    BY <1>t DEF CredentialRow
  <1>2. CASE n \in 1 .. Len(cred)
    <2>1. c = cred[n]
      BY <1>2 DEF Frame, CredsKeep
    <2>2. CredOK(c)
      BY <1>2, <2>1, Domains DEF CredInv
    <2>3. Exists(c.user) /\ c.sid <= Len(cred) /\ c.iat <= clock /\ (Outdated(c) => c.iat <= user[c.user].at)
      BY <2>2 DEF CredOK
    <2>4. /\ user'[c.user] # NoUser
          /\ (user'[c.user].pw = user[c.user].pw /\ user'[c.user].at = user[c.user].at) \/ user'[c.user].at = clock'
      BY <2>3, <1>a DEF Frame, UsersKeep
    <2>5. c.sid <= Len(cred') /\ c.iat <= clock'
      BY <2>3, <1>t, <1>a
    <2>6. ASSUME c.pw # user'[c.user].pw, c.via = "login" PROVE c.iat <= user'[c.user].at
      BY <2>3, <2>4, <2>5, <2>6 DEF Outdated
    <2> QED
      BY <2>4, <2>5, <2>6 DEF CredOK, Outdated, Exists
  <1>3. CASE n > Len(cred)
    <2>1. /\ user'[c.user] # NoUser /\ c.sid <= Len(cred') /\ c.iat <= clock'
          /\ c.via = "login" => c.pw = user'[c.user].pw
      BY <1>3 DEF Frame, CredsKeep
    <2> QED
      BY <2>1 DEF CredOK, Outdated, Exists
  <1> QED
    BY <1>2, <1>3, <1>t

LEMMA ResetStep ==
    ASSUME Frame
    PROVE  ResetInv'
  BY DomainsNext DEF Frame, ResetsKeep, ResetInv, Exists

LEMMA JobStep ==
    ASSUME TypeInv, JobInv, Frame
    PROVE  JobInv'
  <1> SUFFICES ASSUME NEW w \in Workers PROVE JobOK(w)'
    BY DEF JobInv
  <1>1. CASE JobOK(w)'
    BY <1>1
  <1>2. CASE /\ job'[w] = job[w]
             /\ job[w].op \in {"redeem", "redeemed"} =>
                  /\ inv'[job[w].i].holder = inv[job[w].i].holder
                  /\ inv'[job[w].i].state = inv[job[w].i].state
    <2>1. PICK j \in Jobs : j = job[w] /\ j = job'[w]
      BY <1>2 DEF TypeInv
    <2>2. JobOK(w)
      BY DEF JobInv
    <2>3. /\ Len(inv) \in Nat /\ Len(inv') \in Nat /\ Len(inv) <= Len(inv')
          /\ Len(reset) \in Nat /\ Len(reset') \in Nat /\ Len(reset) <= Len(reset')
          /\ Len(signup) \in Nat /\ Len(signup') \in Nat /\ Len(signup) <= Len(signup')
          /\ clock \in Nat /\ clock' \in Nat /\ clock <= clock'
      BY Domains, DomainsNext DEF Frame, InvsGrow, ResetsKeep, SignupsGrow, UsersKeep, TypeInv
    <2>4. /\ j.op = "login" => j.user \in Emails
          /\ j.op \in {"revoke", "deactivate", "change"} => j.user \in Emails /\ j.now \in Nat
          /\ j.op = "reset" => j.r \in Nat /\ j.now \in Nat
      BY <2>1, JobShape DEF Login, Change, Reset
    <2>5. /\ j.op = "login" => Exists(j.user)'
          /\ j.op \in {"revoke", "deactivate", "change"} => Exists(j.user)' /\ j.now <= clock'
      BY <2>3, <2>1, <2>2, <2>4 DEF JobOK, Frame, UsersKeep, Exists
    <2>6. j.op = "reset" => j.r \in DOMAIN reset' /\ j.now <= clock'
      BY <2>1, <2>2, <2>3, <2>4, Domains, DomainsNext DEF JobOK
    <2>7. ASSUME j.op \in {"redeem", "redeemed"}
          PROVE  /\ j.i \in DOMAIN inv' /\ inv'[j.i].holder = w /\ inv'[j.i].state = "pending"
                 /\ j.op = "redeemed" => user'[inv'[j.i].email] # NoUser
      <3>1. /\ j.i \in 1 .. Len(inv) /\ inv[j.i].holder = w /\ inv[j.i].state = "pending"
            /\ j.op = "redeemed" => Exists(inv[j.i].email)
        BY <2>1, <2>2, <2>7, Domains DEF JobOK
      <3>2. inv'[j.i].email = inv[j.i].email
        BY <3>1 DEF Frame, InvsGrow
      <3>3. inv[j.i].email \in Emails
        BY <3>1, InvShape
      <3>4. j.op = "redeemed" => user'[inv[j.i].email] # NoUser
        BY <3>1, <3>3 DEF Frame, UsersKeep
      <3>5. j.i \in DOMAIN inv'
        BY <3>1, <2>3, DomainsNext
      <3> QED
        BY <3>1, <3>2, <3>4, <3>5, <1>2, <2>1, <2>7
    <2>8. ASSUME j.op \in {"approve", "approving"}
          PROVE  j.i \in DOMAIN inv' /\ j.k \in DOMAIN signup' /\ inv'[j.i].request = j.k
      <3>1. j.i \in 1 .. Len(inv) /\ j.k \in 1 .. Len(signup) /\ inv[j.i].request = j.k
        BY <2>1, <2>2, <2>8, Domains DEF JobOK
      <3>2. inv'[j.i].request = inv[j.i].request
        BY <3>1 DEF Frame, InvsGrow
      <3> QED
        BY <3>1, <3>2, <2>3, DomainsNext
    <2>9. j.op = "rejecting" => j.k \in DOMAIN signup'
      BY <2>1, <2>2, <2>3, Domains, DomainsNext DEF JobOK
    <2> QED
      BY <2>1, <2>5, <2>6, <2>7, <2>8, <2>9 DEF JobOK, Exists
  <1> QED
    BY <1>1, <1>2 DEF Frame, JobsKeep

LEMMA HandedStep ==
    ASSUME TypeInv, HandedInv, Frame, LinksKeep, ReviewsKeep
    PROVE  HandedInv'
  <1>1. SUFFICES ASSUME NEW i \in 1 .. Len(inv'), inv'[i].handed, inv'[i].request # 0
                 PROVE  /\ inv'[i].request \in DOMAIN signup'
                        /\ signup'[inv'[i].request].status = "approved" \/ signup'[inv'[i].request].crossed
    BY DomainsNext DEF HandedInv
  <1>2. i \in 1 .. Len(inv) /\ inv[i].handed
    BY <1>1 DEF LinksKeep
  <1>3. inv'[i].request = inv[i].request
    BY <1>2 DEF Frame, InvsGrow
  <1>4. PICK k : k = inv[i].request
    OBVIOUS
  <1>5. k \in 1 .. Len(signup) /\ (signup[k].status = "approved" \/ signup[k].crossed)
    BY <1>1, <1>2, <1>3, <1>4, Domains DEF HandedInv
  <1>6. signup'[k].status = signup[k].status /\ signup'[k].crossed = signup[k].crossed
    BY <1>5 DEF ReviewsKeep
  <1>7. k \in DOMAIN signup'
    BY <1>5, Domains, DomainsNext DEF Frame, SignupsGrow
  <1> QED
    BY <1>3, <1>4, <1>5, <1>6, <1>7

\* What AccountMeansConsumed asks of the invitation of an account.
Settled(b) ==
  \/ inv[b].state = "consumed"
  \/ inv[b].cut
  \/ \E w \in Workers : job[w].op = "redeemed" /\ job[w].i = b /\ inv[b].state = "pending"

SettledKeep == \A b \in 1 .. Len(inv) : Settled(b) => Settled(b)'

NewcomersSettled == \A e \in Emails : ~Exists(e) /\ user'[e] # NoUser /\ user'[e].by # 0 =>
                                        \A b \in {user'[e].by} : Settled(b)'

LEMMA ConsumedStep ==
    ASSUME TypeInv, UserInv, AccountMeansConsumed, Frame, SettledKeep, NewcomersSettled
    PROVE  AccountMeansConsumed'
  <1>1. SUFFICES ASSUME NEW e \in Emails, user'[e] # NoUser, user'[e].by # 0
                 PROVE  \A b \in {user'[e].by} : Settled(b)'
    BY DEF AccountMeansConsumed, Exists, Settled
  <1>2. CASE ~Exists(e)
    BY <1>1, <1>2 DEF NewcomersSettled
  <1>3. CASE Exists(e)
    <2>1. PICK b : b = user[e].by
      OBVIOUS
    <2>2. user'[e].by = b
      BY <1>3, <2>1 DEF Frame, UsersKeep
    <2>3. b \in 1 .. Len(inv)
      BY <1>1, <1>3, <2>1, <2>2, Domains DEF UserInv
    <2>4. Settled(b)
      BY <1>1, <1>3, <2>1, <2>2 DEF AccountMeansConsumed, Settled
    <2>5. Settled(b)'
      BY <2>3, <2>4 DEF SettledKeep
    <2> QED
      BY <2>2, <2>5
  <1> QED
    BY <1>2, <1>3

LEMMA SettledSame ==
    ASSUME StatesKeep, RedemptionsKeep
    PROVE  SettledKeep
  <1> SUFFICES ASSUME NEW b \in 1 .. Len(inv), Settled(b) PROVE Settled(b)'
    BY DEF SettledKeep
  <1>1. inv'[b].state = inv[b].state /\ inv'[b].cut = inv[b].cut
    BY DEF StatesKeep
  <1>2. \A w \in Workers : job[w].op = "redeemed" => job'[w] = job[w]
    BY DEF RedemptionsKeep
  <1> QED
    BY <1>1, <1>2 DEF Settled

LEMMA NoNewcomer ==
    ASSUME NobodyNew
    PROVE  NewcomersSettled
  BY DEF NobodyNew, NewcomersSettled

LEMMA FrameStep ==
    ASSUME IInv, Frame, SettledKeep, NewcomersSettled, HandedInv'
    PROVE  IInv'
  BY TypeStep, UserStep, CredStep, ResetStep, JobStep, ConsumedStep DEF IInv

\* A step in which nobody joins, no invitation is settled and no request
\* reviewed.
Ordinary == Frame /\ NobodyNew /\ StatesKeep /\ LinksKeep /\ ReviewsKeep /\ RedemptionsKeep

LEMMA OrdinaryStep ==
    ASSUME IInv, Ordinary
    PROVE  IInv'
  BY FrameStep, HandedStep, SettledSame, NoNewcomer DEF IInv, Ordinary

-----------------------------------------------------------------------------
(* Tables that a step leaves alone, and the ways in which it writes one.   *)

\* An account is not switched on, and its cutoff not moved back.
ForwardAt(e) == Exists(e) => /\ user'[e].active => user[e].active
                             /\ user[e].cutoff <= user'[e].cutoff
Forward == \A e \in Emails : ForwardAt(e)

HoldersKeep ==
  \A i \in 1 .. Len(inv) : inv'[i].holder = inv[i].holder /\ inv'[i].state = inv[i].state

LEMMA UsersSame ==
    ASSUME TypeInv, UserInv, UNCHANGED user, clock' \in Nat, clock <= clock'
    PROVE  UsersKeep /\ NobodyNew /\ Forward
  <1>1. \A e \in Emails : Exists(e) =>
          /\ Covered(user[e]) /\ user[e].cutoff <= clock'
          /\ user[e].cutoff <= user[e].cutoff
    <2> SUFFICES ASSUME NEW e \in Emails, Exists(e)
                 PROVE  /\ Covered(user[e]) /\ user[e].cutoff <= clock'
                        /\ user[e].cutoff <= user[e].cutoff
      OBVIOUS
    <2>1. user[e].cutoff \in Nat /\ clock \in Nat
      BY UserShape DEF UserRow, TypeInv
    <2>2. Covered(user[e]) /\ user[e].cutoff <= clock
      BY DEF UserInv
    <2> QED
      BY <2>1, <2>2
  <1> QED
    BY <1>1 DEF UsersKeep, NobodyNew, Forward, ForwardAt, TypeInv, Exists

\* One account is written.
LEMMA UserWritten ==
    ASSUME TypeInv, UserInv, NEW e \in Emails, NEW u \in UserRow,
           user' = [user EXCEPT ![e] = u], clock' = clock, Exists(e), u.by = user[e].by,
           Covered(u), u.cutoff <= clock,
           (u.pw = user[e].pw /\ u.at = user[e].at) \/ u.at = clock
    PROVE  /\ UsersKeep /\ NobodyNew
           /\ \A f \in Emails : f # e => ForwardAt(f)
           /\ (u.active => user[e].active) /\ user[e].cutoff <= u.cutoff => Forward
  <1>1. /\ user' \in [Emails -> UserRow \cup {NoUser}] /\ user'[e] = u /\ u # NoUser
        /\ \A f \in Emails : f # e => user'[f] = user[f]
    BY RowIsSomebody DEF TypeInv
  <1>2. \A f \in Emails : Exists(f) =>
          Covered(user[f]) /\ user[f].cutoff <= clock /\ user[f].cutoff <= user[f].cutoff
    <2> SUFFICES ASSUME NEW f \in Emails, Exists(f) PROVE user[f].cutoff <= user[f].cutoff
      BY DEF UserInv
    <2> QED
      BY UserShape DEF UserRow
  <1>3. \A f \in Emails : f # e => ForwardAt(f)
    BY <1>1, <1>2 DEF ForwardAt
  <1>4. (u.active => user[e].active) /\ user[e].cutoff <= u.cutoff => ForwardAt(e)
    BY <1>1 DEF ForwardAt
  <1>5. NobodyNew
    BY <1>1 DEF NobodyNew, Exists
  <1>6. clock' \in Nat /\ clock <= clock'
    BY DEF TypeInv
  <1>7. ASSUME NEW f \in Emails, Exists(f)
        PROVE  /\ user'[f] # NoUser /\ user'[f].by = user[f].by
               /\ Covered(user'[f]) /\ user'[f].cutoff <= clock'
               /\ (user'[f].pw = user[f].pw /\ user'[f].at = user[f].at) \/ user'[f].at = clock'
    <2>1. CASE f = e
      BY <2>1, <1>1
    <2>2. CASE f # e
      BY <2>2, <1>1, <1>2, <1>7 DEF Exists
    <2> QED
      BY <2>1, <2>2
  <1>8. UsersKeep
    BY <1>1, <1>5, <1>6, <1>7 DEF UsersKeep, NobodyNew
  <1> QED
    BY <1>3, <1>4, <1>5, <1>8 DEF Forward

LEMMA CredsSame ==
    ASSUME TypeInv, UNCHANGED cred, row' \in [1 .. MaxCreds -> {"none", "live", "revoked"}],
           \A n \in 1 .. MaxCreds : row[n] = "revoked" => row'[n] = "revoked"
    PROVE  CredsKeep
  <1>1. Len(cred) \in Nat /\ Len(cred) <= MaxCreds
    BY DEF TypeInv
  <1>2. \A n \in 1 .. Len(cred) : n \in 1 .. MaxCreds
    BY <1>1
  <1>3. \A n \in 1 .. Len(cred') : ~(n > Len(cred))
    BY <1>1
  <1>4. \A n \in 1 .. Len(cred) : cred'[n] = cred[n] /\ (row[n] = "revoked" => row'[n] = "revoked")
    BY <1>2
  <1>5. cred' \in Seq(CredentialRow)
    BY DEF TypeInv
  <1>6. Len(cred') <= MaxCreds /\ Len(cred) <= Len(cred')
    BY <1>1
  <1> QED
    BY <1>3, <1>4, <1>5, <1>6, Zenon DEF CredsKeep

LEMMA RowsSame ==
    ASSUME TypeInv, UNCHANGED <<cred, row>>
    PROVE  CredsKeep
  BY CredsSame DEF TypeInv

\* What the concatenation of two sequences has where.
LEMMA Concatenated ==
    ASSUME NEW S, NEW s \in Seq(S), NEW t \in Seq(S)
    PROVE  /\ s \o t \in Seq(S) /\ Len(s \o t) = Len(s) + Len(t)
           /\ \A n \in 1 .. Len(s) : (s \o t)[n] = s[n]
           /\ \A n \in 1 .. Len(s \o t) : n > Len(s) => n - Len(s) \in 1 .. Len(t) /\ (s \o t)[n] = t[n - Len(s)]
  OBVIOUS

LEMMA CredsIssued ==
    ASSUME TypeInv, NEW new \in Seq(CredentialRow), Issue(new),
           \A k \in 1 .. Len(new) :
             /\ user'[new[k].user] # NoUser /\ new[k].sid <= Len(cred) + Len(new) /\ new[k].iat <= clock'
             /\ new[k].via = "login" => new[k].pw = user'[new[k].user].pw
    PROVE  CredsKeep
  <1>1. cred' = cred \o new /\ Len(cred) + Len(new) <= MaxCreds /\ cred \in Seq(CredentialRow)
        /\ Len(cred) \in Nat /\ Len(new) \in Nat
    BY DEF Issue, TypeInv
  <1>2. /\ cred' \in Seq(CredentialRow) /\ Len(cred') = Len(cred) + Len(new)
        /\ \A n \in 1 .. Len(cred) : cred'[n] = cred[n]
        /\ \A n \in 1 .. Len(cred') : n > Len(cred) => n - Len(cred) \in 1 .. Len(new) /\ cred'[n] = new[n - Len(cred)]
    BY <1>1, Concatenated
  <1>3. PICK kept \in {{}, DOMAIN new} :
          row' = [j \in 1 .. MaxCreds |->
                    IF j - Len(cred) \in kept /\ new[j - Len(cred)].sid # 0 THEN "live" ELSE row[j]]
    BY DEF Issue
  <1>4. kept \subseteq 1 .. Len(new)
    OBVIOUS
  <1>5. row' \in [1 .. MaxCreds -> {"none", "live", "revoked"}]
    BY <1>3 DEF TypeInv
  <1>6. \A n \in 1 .. Len(cred) : row'[n] = row[n]
    <2> SUFFICES ASSUME NEW n \in 1 .. Len(cred) PROVE row'[n] = row[n]
      OBVIOUS
    <2>1. n \in 1 .. MaxCreds /\ n - Len(cred) \notin kept
      BY <1>1, <1>4
    <2> QED
      BY <2>1, <1>3
  <1>7. ASSUME NEW n \in 1 .. Len(cred'), n > Len(cred)
        PROVE  /\ user'[cred'[n].user] # NoUser /\ cred'[n].sid <= Len(cred') /\ cred'[n].iat <= clock'
               /\ cred'[n].via = "login" => cred'[n].pw = user'[cred'[n].user].pw
    BY <1>2, <1>7
  <1> QED
    BY <1>1, <1>2, <1>5, <1>6, <1>7 DEF CredsKeep

LEMMA ResetsSame ==
    ASSUME TypeInv, ResetInv, UsersKeep, UNCHANGED reset
    PROVE  ResetsKeep
  <1>1. ASSUME NEW r \in 1 .. Len(reset) PROVE user'[reset[r].user] # NoUser
    <2>1. reset[r].user \in Emails
      <3>1. reset[r] \in ResetRow
        BY DEF TypeInv
      <3> QED
        BY <3>1 DEF ResetRow
    <2>2. Exists(reset[r].user)
      BY Domains DEF ResetInv
    <2> QED
      BY <2>1, <2>2 DEF UsersKeep
  <1> QED
    BY <1>1, Domains DEF ResetsKeep, TypeInv

LEMMA InvsSame ==
    ASSUME TypeInv, UNCHANGED inv
    PROVE  InvsGrow /\ StatesKeep /\ LinksKeep /\ HoldersKeep
  BY Domains DEF InvsGrow, StatesKeep, LinksKeep, HoldersKeep, TypeInv

\* An invitation is minted; the link of a request is kept back.
LEMMA InvMinted ==
    ASSUME TypeInv, NEW v \in InvitationRow, inv' = Append(inv, v), v.handed => v.request = 0
    PROVE  /\ InvsGrow /\ StatesKeep /\ LinksKeep /\ HoldersKeep
           /\ DOMAIN inv' = 1 .. Len(inv) + 1 /\ inv'[Len(inv) + 1] = v
  <1>1. /\ inv' \in Seq(InvitationRow) /\ Len(inv') = Len(inv) + 1 /\ Len(inv) \in Nat
        /\ inv'[Len(inv) + 1] = v /\ \A i \in 1 .. Len(inv) : inv'[i] = inv[i]
    BY DEF TypeInv
  <1>2. \A i \in 1 .. Len(inv') : i \in 1 .. Len(inv) \/ i = Len(inv) + 1
    BY <1>1
  <1> QED
    BY <1>1, <1>2 DEF InvsGrow, StatesKeep, LinksKeep, HoldersKeep

LEMMA SignupsSame ==
    ASSUME TypeInv, UNCHANGED signup
    PROVE  SignupsGrow /\ ReviewsKeep
  BY Domains DEF SignupsGrow, ReviewsKeep, TypeInv

LEMMA JobsSame ==
    ASSUME TypeInv, JobInv, HoldersKeep, UNCHANGED job
    PROVE  JobsKeep /\ RedemptionsKeep
  <1>1. \A w \in Workers : job[w].op \in {"redeem", "redeemed"} => job[w].i \in 1 .. Len(inv)
    BY Domains DEF JobInv, JobOK
  <1> QED
    BY <1>1 DEF JobsKeep, RedemptionsKeep, HoldersKeep, TypeInv

\* One worker takes a request, goes on with it or ends it.
LEMMA JobWritten ==
    ASSUME TypeInv, NEW w \in Workers, NEW x \in Jobs, job' = [job EXCEPT ![w] = x]
    PROVE  /\ job' \in [Workers -> Jobs] /\ job'[w] = x
           /\ \A v \in Workers : v # w => job'[v] = job[v]
           /\ job[w].op # "redeemed" => RedemptionsKeep
  BY DEF TypeInv, RedemptionsKeep

LEMMA JobMoves ==
    ASSUME TypeInv, JobInv, HoldersKeep, NEW w \in Workers, NEW x \in Jobs,
           job' = [job EXCEPT ![w] = x], job[w].op # "redeemed", JobOK(w)'
    PROVE  JobsKeep /\ RedemptionsKeep
  <1>1. \A v \in Workers : job[v].op \in {"redeem", "redeemed"} => job[v].i \in 1 .. Len(inv)
    BY Domains DEF JobInv, JobOK
  <1>2. /\ job' \in [Workers -> Jobs] /\ job'[w] = x
        /\ \A v \in Workers : v # w => job'[v] = job[v]
        /\ job[w].op # "redeemed" => RedemptionsKeep
    BY JobWritten
  <1>3. ASSUME NEW v \in Workers
        PROVE  \/ JobOK(v)'
               \/ /\ job'[v] = job[v]
                  /\ job[v].op \in {"redeem", "redeemed"} =>
                       /\ inv'[job[v].i].holder = inv[job[v].i].holder
                       /\ inv'[job[v].i].state = inv[job[v].i].state
    <2>1. CASE v = w
      BY <2>1
    <2>2. CASE v # w
      BY <2>2, <1>1, <1>2 DEF HoldersKeep
    <2> QED
      BY <2>1, <2>2
  <1> QED
    BY <1>2, <1>3 DEF JobsKeep

LEMMA IdleIsOK ==
    ASSUME NEW w \in Workers, job'[w] = Idle
    PROVE  JobOK(w)'
  BY DEF JobOK, Idle

LEMMA JobEnds ==
    ASSUME TypeInv, JobInv, HoldersKeep, NEW w \in Workers, Ends(w), job[w].op # "redeemed"
    PROVE  JobsKeep /\ RedemptionsKeep
  <1>1. job' = [job EXCEPT ![w] = Idle] /\ Idle \in Jobs
    BY DEF Ends, Jobs
  <1>2. JobOK(w)'
    BY <1>1, JobWritten, IdleIsOK
  <1> QED
    BY <1>1, <1>2, JobMoves

LEMMA JobStarts ==
    ASSUME TypeInv, JobInv, HoldersKeep, NEW w \in Workers, NEW x \in Jobs, Start(w, x),
           job'[w] = x => JobOK(w)'
    PROVE  JobsKeep /\ RedemptionsKeep
  <1>1. job' = [job EXCEPT ![w] = x] /\ job[w].op # "redeemed"
    BY DEF Start, Free, Idle
  <1>2. job'[w] = x
    BY <1>1, JobWritten
  <1> QED
    BY <1>1, <1>2, JobMoves

-----------------------------------------------------------------------------
(* Signing in and out.                                                     *)

LEMMA authenticateStep ==
    ASSUME IInv, NEW w \in Workers, NEW e \in Emails, authenticate(w, e)
    PROVE  Ordinary /\ Forward
  <1> USE DEF IInv
  <1>1. UsersKeep /\ NobodyNew /\ Forward /\ CredsKeep /\ ResetsKeep
    BY UsersSame, RowsSame, ResetsSame DEF authenticate, TypeInv
  <1>2. InvsGrow /\ StatesKeep /\ LinksKeep /\ HoldersKeep /\ SignupsGrow /\ ReviewsKeep
    BY InvsSame, SignupsSame DEF authenticate
  <1>3. PICK x : x = [op |-> "login", user |-> e, pw |-> user[e].pw]
    OBVIOUS
  <1>4. Start(w, x) /\ Exists(e) /\ user' = user
    BY <1>3 DEF authenticate
  <1>5. x \in Jobs
    <2>1. user[e].pw \in Nat
      BY <1>4, UserShape DEF UserRow
    <2> QED
      BY <1>3, <2>1 DEF Jobs, Login
  <1>6. job'[w] = x => JobOK(w)'
    BY <1>3, <1>4 DEF JobOK, Exists
  <1>7. JobsKeep /\ RedemptionsKeep
    BY <1>2, <1>4, <1>5, <1>6, JobStarts
  <1> QED
    BY <1>1, <1>2, <1>7 DEF Ordinary, Frame

\* A sign-in stamps what it issues with the clock and the password verified.
LEMMA CredentialOK ==
    ASSUME TypeInv, UNCHANGED <<clock, user>>,
           NEW e, NEW kind, NEW sid, NEW pw, NEW via,
           e \in Emails, kind \in {"cookie", "access", "refresh"}, sid \in Nat, pw \in Nat,
           via \in {"login", "late_login", "refresh"}, Exists(e), via = "login" => user[e].pw = pw,
           NEW c, c = Credential(kind, e, sid, pw, via)
    PROVE  /\ c \in CredentialRow /\ user'[c.user] # NoUser /\ c.iat <= clock' /\ c.sid = sid
           /\ c.via = "login" => c.pw = user'[c.user].pw
  <1>1. clock \in Nat /\ clock <= clock
    BY DEF TypeInv
  <1>2. c.user = e /\ c.iat = clock /\ c.sid = sid /\ c.pw = pw /\ c.via = via
    BY DEF Credential
  <1>3. c \in CredentialRow
    BY <1>1 DEF Credential, CredentialRow
  <1> QED
    BY <1>1, <1>2, <1>3 DEF Exists

LEMMA LoginJob ==
    ASSUME TypeInv, JobInv, NEW w \in Workers, job[w].op = "login"
    PROVE  /\ job[w].user \in Emails /\ job[w].pw \in Nat /\ Exists(job[w].user)
           /\ Via(job[w]) \in {"login", "late_login", "refresh"}
           /\ Via(job[w]) = "login" => user[job[w].user].pw = job[w].pw
  <1>1. job[w] \in Login
    BY JobShape
  <1>2. Exists(job[w].user)
    BY DEF JobInv, JobOK
  <1> QED
    BY <1>1, <1>2 DEF Login, Via

LEMMA login_submitStep ==
    ASSUME IInv, NEW w \in Workers, login_submit(w)
    PROVE  Ordinary /\ Forward
  <1> USE DEF IInv
  <1>1. UsersKeep /\ NobodyNew /\ Forward /\ ResetsKeep
    BY UsersSame, ResetsSame DEF login_submit, TypeInv
  <1>2. InvsGrow /\ StatesKeep /\ LinksKeep /\ HoldersKeep /\ SignupsGrow /\ ReviewsKeep
    BY InvsSame, SignupsSame DEF login_submit
  <1>3. JobsKeep /\ RedemptionsKeep
    BY <1>2, JobEnds DEF login_submit
  <1>4. CredsKeep
    <2>1. PICK c : c = Credential("cookie", job[w].user, Len(cred) + 1, job[w].pw, Via(job[w]))
      OBVIOUS
    <2>2. Issue(<<c>>) /\ job[w].op = "login" /\ UNCHANGED <<clock, user>>
      BY <2>1 DEF login_submit
    <2>3. /\ c \in CredentialRow /\ user'[c.user] # NoUser /\ c.iat <= clock' /\ c.sid = Len(cred) + 1
          /\ c.via = "login" => c.pw = user'[c.user].pw
      BY <2>1, <2>2, LoginJob, CredentialOK, Domains
    <2>4. <<c>> \in Seq(CredentialRow) /\ Len(<<c>>) = 1 /\ <<c>>[1] = c
      BY <2>3
    <2>5. \A k \in 1 .. Len(<<c>>) : <<c>>[k] = c
      BY <2>4
    <2>6. c.sid <= Len(cred) + Len(<<c>>)
      BY <2>3, <2>4, Domains
    <2> QED
      BY <2>2, <2>3, <2>4, <2>5, <2>6, CredsIssued
  <1> QED
    BY <1>1, <1>2, <1>3, <1>4 DEF Ordinary, Frame

LEMMA loginStep ==
    ASSUME IInv, NEW w \in Workers, login(w)
    PROVE  Ordinary /\ Forward
  <1> USE DEF IInv
  <1>1. UsersKeep /\ NobodyNew /\ Forward /\ ResetsKeep
    BY UsersSame, ResetsSame DEF login, TypeInv
  <1>2. InvsGrow /\ StatesKeep /\ LinksKeep /\ HoldersKeep /\ SignupsGrow /\ ReviewsKeep
    BY InvsSame, SignupsSame DEF login
  <1>3. JobsKeep /\ RedemptionsKeep
    BY <1>2, JobEnds DEF login
  <1>4. CredsKeep
    <2>1. PICK a, b, c :
            /\ a = Credential("cookie", job[w].user, Len(cred) + 1, job[w].pw, Via(job[w]))
            /\ b = Credential("access", job[w].user, Len(cred) + 2, job[w].pw, Via(job[w]))
            /\ c = Credential("refresh", job[w].user, Len(cred) + 3, job[w].pw, Via(job[w]))
      OBVIOUS
    <2>2. Issue(<<a, b, c>>) /\ job[w].op = "login" /\ UNCHANGED <<clock, user>>
      BY <2>1 DEF login
    <2>n. Len(cred) + 1 \in Nat /\ Len(cred) + 2 \in Nat /\ Len(cred) + 3 \in Nat
      BY Domains
    <2>j. /\ job[w].user \in Emails /\ job[w].pw \in Nat /\ Exists(job[w].user)
          /\ Via(job[w]) \in {"login", "late_login", "refresh"}
          /\ Via(job[w]) = "login" => user[job[w].user].pw = job[w].pw
      BY <2>2, LoginJob
    <2>3. /\ a \in CredentialRow /\ user'[a.user] # NoUser /\ a.iat <= clock' /\ a.sid = Len(cred) + 1
          /\ a.via = "login" => a.pw = user'[a.user].pw
      BY <2>1, <2>2, <2>n, <2>j, CredentialOK
    <2>4. /\ b \in CredentialRow /\ user'[b.user] # NoUser /\ b.iat <= clock' /\ b.sid = Len(cred) + 2
          /\ b.via = "login" => b.pw = user'[b.user].pw
      BY <2>1, <2>2, <2>n, <2>j, CredentialOK
    <2>5. /\ c \in CredentialRow /\ user'[c.user] # NoUser /\ c.iat <= clock' /\ c.sid = Len(cred) + 3
          /\ c.via = "login" => c.pw = user'[c.user].pw
      BY <2>1, <2>2, <2>n, <2>j, CredentialOK
    <2>6. PICK new : new = <<a, b, c>>
      OBVIOUS
    <2>7. new \in Seq(CredentialRow) /\ Len(new) = 3 /\ new[1] = a /\ new[2] = b /\ new[3] = c
      BY <2>3, <2>4, <2>5, <2>6
    <2>8. ASSUME NEW k \in 1 .. Len(new)
          PROVE  /\ user'[new[k].user] # NoUser /\ new[k].sid <= Len(cred) + Len(new)
                 /\ new[k].iat <= clock'
                 /\ new[k].via = "login" => new[k].pw = user'[new[k].user].pw
      <3>1. k = 1 \/ k = 2 \/ k = 3
        BY <2>7
      <3>2. new[k] = a \/ new[k] = b \/ new[k] = c
        BY <3>1, <2>7
      <3>3. /\ a.sid <= Len(cred) + Len(new) /\ b.sid <= Len(cred) + Len(new)
            /\ c.sid <= Len(cred) + Len(new)
        BY <2>3, <2>4, <2>5, <2>7, Domains
      <3> QED
        BY <3>2, <3>3, <2>3, <2>4, <2>5
    <2> QED
      BY <2>2, <2>6, <2>7, <2>8, CredsIssued
  <1> QED
    BY <1>1, <1>2, <1>3, <1>4 DEF Ordinary, Frame

LEMMA refreshStep ==
    ASSUME IInv, NEW n \in DOMAIN cred, refresh(cred[n])
    PROVE  Ordinary /\ Forward
  <1> USE DEF IInv
  <1>1. UsersKeep /\ NobodyNew /\ Forward /\ ResetsKeep
    BY UsersSame, ResetsSame DEF refresh, TypeInv
  <1>2. InvsGrow /\ StatesKeep /\ LinksKeep /\ HoldersKeep /\ SignupsGrow /\ ReviewsKeep
    BY InvsSame, SignupsSame DEF refresh
  <1>3. JobsKeep /\ RedemptionsKeep
    BY <1>2, JobsSame DEF refresh
  <1>4. CredsKeep
    <2>1. PICK a, b :
            /\ a = Credential("access", cred[n].user, Len(cred) + 1, cred[n].pw, "refresh")
            /\ b = Credential("refresh", cred[n].user, Len(cred) + 2, cred[n].pw, "refresh")
      OBVIOUS
    <2>2. Issue(<<a, b>>) /\ Exists(cred[n].user) /\ UNCHANGED <<clock, user>>
      BY <2>1 DEF refresh
    <2>n. Len(cred) + 1 \in Nat /\ Len(cred) + 2 \in Nat /\ cred[n].user \in Emails /\ cred[n].pw \in Nat
      BY Domains, CredShape
    <2>3. /\ a \in CredentialRow /\ user'[a.user] # NoUser /\ a.iat <= clock' /\ a.sid = Len(cred) + 1
          /\ a.via = "login" => a.pw = user'[a.user].pw
      BY <2>1, <2>2, <2>n, CredentialOK
    <2>4. /\ b \in CredentialRow /\ user'[b.user] # NoUser /\ b.iat <= clock' /\ b.sid = Len(cred) + 2
          /\ b.via = "login" => b.pw = user'[b.user].pw
      BY <2>1, <2>2, <2>n, CredentialOK
    <2>6. PICK new : new = <<a, b>>
      OBVIOUS
    <2>7. new \in Seq(CredentialRow) /\ Len(new) = 2 /\ new[1] = a /\ new[2] = b
      BY <2>3, <2>4, <2>6
    <2>8. ASSUME NEW k \in 1 .. Len(new)
          PROVE  /\ user'[new[k].user] # NoUser /\ new[k].sid <= Len(cred) + Len(new)
                 /\ new[k].iat <= clock'
                 /\ new[k].via = "login" => new[k].pw = user'[new[k].user].pw
      <3>1. k = 1 \/ k = 2
        BY <2>7
      <3>2. new[k] = a \/ new[k] = b
        BY <3>1, <2>7
      <3>3. a.sid <= Len(cred) + Len(new) /\ b.sid <= Len(cred) + Len(new)
        BY <2>3, <2>4, <2>7, Domains
      <3> QED
        BY <3>2, <3>3, <2>3, <2>4
    <2> QED
      BY <2>2, <2>6, <2>7, <2>8, CredsIssued
  <1> QED
    BY <1>1, <1>2, <1>3, <1>4 DEF Ordinary, Frame

\* Revoking session rows only ever revokes.
LEMMA RowsRevoked ==
    ASSUME TypeInv, UNCHANGED cred, NEW e, revoke_all_for_user(e) \/ UNCHANGED row
    PROVE  CredsKeep
  <1>1. row' \in [1 .. MaxCreds -> {"none", "live", "revoked"}]
    BY DEF revoke_all_for_user, TypeInv
  <1>2. \A n \in 1 .. MaxCreds : row[n] = "revoked" => row'[n] = "revoked"
    BY DEF revoke_all_for_user
  <1> QED
    BY <1>1, <1>2, CredsSame

\* A revocation or a deactivation writes the time it took, once it has read the
\* account; the cutoff moves back only behind a time it had not seen.
LEMMA CutoffMoved ==
    ASSUME TypeInv, UserInv, NEW e \in Emails, Exists(e), UNCHANGED clock,
           NEW now \in Nat, now <= clock, NEW active \in BOOLEAN, active => user[e].active,
           user' = [user EXCEPT ![e] = Ended(user[e], now, active)]
    PROVE  /\ UsersKeep /\ NobodyNew
           /\ \A f \in Emails : f # e => ForwardAt(f)
           /\ user[e].cutoff <= now => Forward
  <1>1. user[e] \in UserRow /\ clock \in Nat
    BY UserShape DEF TypeInv
  <1>2. user[e].from \in Nat
    BY <1>1 DEF UserRow
  <1>3. PICK u : u = Ended(user[e], now, active)
    OBVIOUS
  <1>4. user' = [user EXCEPT ![e] = u]
    BY <1>3
  <1>5. /\ u \in UserRow /\ u.by = user[e].by /\ u.from = user[e].from /\ u.cutoff = now
        /\ u.pw = user[e].pw /\ u.at = user[e].at /\ u.active = active /\ Covered(u)
    <2>1. CASE now < user[e].from
      <3>1. (now < user[e].from) = TRUE
        BY <2>1
      <3>2. u = [user[e] EXCEPT !.cutoff = now, !.active = active, !.spared = TRUE]
        BY <1>3, <3>1, Zenon DEF Ended
      <3> QED
        BY <1>1, <3>2 DEF UserRow, Covered
    <2>2. CASE ~(now < user[e].from)
      <3>1. (now < user[e].from) = FALSE
        BY <2>2
      <3>2. u = [user[e] EXCEPT !.cutoff = now, !.active = active, !.spared = FALSE]
        BY <1>3, <3>1, Zenon DEF Ended
      <3>3. user[e].from <= now
        BY <1>2, <2>2
      <3>4. u.from <= u.cutoff
        BY <1>1, <3>2, <3>3 DEF UserRow
      <3> QED
        BY <1>1, <3>2, <3>4 DEF UserRow, Covered
    <2> QED
      BY <2>1, <2>2
  <1> QED
    BY <1>4, <1>5, UserWritten

\* What every step that leaves invitations, resets, requests and workers
\* alone has in common.
LEMMA OnlyUsersAndRows ==
    ASSUME IInv, UNCHANGED <<inv, reset, signup, job>>, UsersKeep, NobodyNew, CredsKeep
    PROVE  Ordinary
  <1> USE DEF IInv
  <1>1. ResetsKeep /\ SignupsGrow /\ ReviewsKeep
    BY ResetsSame, SignupsSame
  <1>2. InvsGrow /\ StatesKeep /\ LinksKeep /\ HoldersKeep
    BY InvsSame
  <1>3. JobsKeep /\ RedemptionsKeep
    BY <1>2, JobsSame
  <1> QED
    BY <1>1, <1>2, <1>3 DEF Ordinary, Frame

LEMMA logout_pageStep ==
    ASSUME IInv, NEW n \in DOMAIN cred, logout_page(cred[n])
    PROVE  Ordinary /\ Forward
  <1> USE DEF IInv
  <1>1. UsersKeep /\ NobodyNew /\ Forward
    BY UsersSame DEF logout_page, TypeInv
  <1>2. row' \in [1 .. MaxCreds -> {"none", "live", "revoked"}]
    BY DEF logout_page, revoke_one, TypeInv
  <1>3. \A k \in 1 .. MaxCreds : row[k] = "revoked" => row'[k] = "revoked"
    BY DEF logout_page, revoke_one, TypeInv
  <1>4. CredsKeep
    BY <1>2, <1>3, CredsSame DEF logout_page
  <1> QED
    BY <1>1, <1>4, OnlyUsersAndRows DEF logout_page

\* What a change of an account has read and the time it started at.
LEMMA ChangeStarts ==
    ASSUME IInv, NEW w \in Workers, NEW e \in Emails, Exists(e), NEW what \in {"revoke", "deactivate", "change"},
           Ending(w, e, what), UNCHANGED <<clock, user, cred, row, inv, reset, signup>>
    PROVE  Ordinary /\ Forward
  <1> USE DEF IInv
  <1>1. UsersKeep /\ NobodyNew /\ Forward /\ CredsKeep /\ ResetsKeep
    BY UsersSame, RowsSame, ResetsSame DEF TypeInv
  <1>2. InvsGrow /\ StatesKeep /\ LinksKeep /\ HoldersKeep /\ SignupsGrow /\ ReviewsKeep
    BY InvsSame, SignupsSame
  <1>3. PICK x : x = [op |-> what, user |-> e, now |-> clock]
    OBVIOUS
  <1>4. Start(w, x)
    BY <1>3 DEF Ending
  <1>5. clock \in Nat /\ clock <= clock
    BY DEF TypeInv
  <1>6. x \in Change /\ x \in Jobs
    BY <1>3, <1>5 DEF Jobs, Change
  <1>7. job'[w] = x => JobOK(w)'
    BY <1>3, <1>5 DEF JobOK, Exists
  <1>8. JobsKeep /\ RedemptionsKeep
    BY <1>2, <1>4, <1>6, <1>7, JobStarts
  <1> QED
    BY <1>1, <1>2, <1>8 DEF Ordinary, Frame

LEMMA logoutStep ==
    ASSUME IInv, NEW w \in Workers, NEW n \in DOMAIN cred, logout(w, cred[n])
    PROVE  Ordinary /\ Forward
  BY CredShape, ChangeStarts DEF logout, revoke_all_tokens, IInv

\* Who acts exists.
LEMMA ActorExists ==
    ASSUME IInv, NEW n \in DOMAIN cred, NEW allowed, role_required(cred[n], allowed)
    PROVE  cred[n].user \in Emails /\ Exists(cred[n].user)
  BY CredShape DEF role_required, _resolve_user, _resolve_user_and_iat, IInv

LEMMA me_revoke_everywhereStep ==
    ASSUME IInv, NEW w \in Workers, NEW n \in DOMAIN cred, me_revoke_everywhere_submit(w, cred[n])
    PROVE  Ordinary /\ Forward
  BY ActorExists, ChangeStarts DEF me_revoke_everywhere_submit, revoke_all_tokens

LEMMA me_passwordStep ==
    ASSUME IInv, NEW w \in Workers, NEW n \in DOMAIN cred, me_password_submit(w, cred[n])
    PROVE  Ordinary /\ Forward
  BY ActorExists, ChangeStarts DEF me_password_submit

\* The change a worker is about to write.
LEMMA ChangeJob ==
    ASSUME IInv, NEW w \in Workers, job[w].op \in {"revoke", "deactivate", "change"}
    PROVE  /\ job[w].user \in Emails /\ Exists(job[w].user) /\ user[job[w].user] \in UserRow
           /\ job[w].now \in Nat /\ clock \in Nat
           /\ \A now \in job[w].now .. clock : now \in Nat /\ job[w].now <= now /\ now <= clock
  <1>1. job[w] \in Change /\ JobOK(w) /\ clock \in Nat
    BY JobShape DEF IInv, JobInv, TypeInv
  <1>2. job[w].user \in Emails /\ job[w].now \in Nat /\ Exists(job[w].user)
    BY <1>1 DEF Change, JobOK
  <1> QED
    BY <1>1, <1>2, UserShape DEF IInv

LEMMA cutoff_writtenStep ==
    ASSUME IInv, NEW w \in Workers, cutoff_written(w)
    PROVE  /\ Ordinary
           /\ \A e \in Emails : ForwardAt(e) \/ job[w].now < user[e].cutoff
  <1> USE DEF IInv
  <1>1. /\ job[w].op \in {"revoke", "deactivate"} /\ UNCHANGED <<clock, cred, row, inv, reset, signup>>
        /\ \E now \in job[w].now .. clock : user' = [user EXCEPT ![job[w].user] =
              Ended(user[job[w].user], now, user[job[w].user].active /\ job[w].op = "revoke")]
    BY DEF cutoff_written
  <1>2. PICK e \in Emails : e = job[w].user
    BY <1>1, ChangeJob
  <1>3. PICK now \in job[w].now .. clock :
          user' = [user EXCEPT ![e] = Ended(user[e], now, user[e].active /\ job[w].op = "revoke")]
    BY <1>1, <1>2
  <1>4. /\ Exists(e) /\ user[e] \in UserRow /\ clock \in Nat /\ job[w].now \in Nat
        /\ now \in Nat /\ job[w].now <= now /\ now <= clock
    BY <1>1, <1>2, <1>3, ChangeJob
  <1>5. PICK active \in BOOLEAN : active = (user[e].active /\ job[w].op = "revoke")
    OBVIOUS
  <1>6. user' = [user EXCEPT ![e] = Ended(user[e], now, active)]
    BY <1>3, <1>5
  <1>7. /\ UsersKeep /\ NobodyNew
        /\ \A f \in Emails : f # e => ForwardAt(f)
        /\ user[e].cutoff <= now => Forward
    BY <1>1, <1>4, <1>5, <1>6, CutoffMoved
  <1>8. user[e].cutoff <= now \/ job[w].now < user[e].cutoff
    BY <1>4 DEF UserRow
  <1>9. \A f \in Emails : ForwardAt(f) \/ job[w].now < user[f].cutoff
    BY <1>7, <1>8 DEF Forward
  <1>10. CredsKeep /\ ResetsKeep
    BY <1>1, <1>7, RowsSame, ResetsSame
  <1>11. InvsGrow /\ StatesKeep /\ LinksKeep /\ HoldersKeep /\ SignupsGrow /\ ReviewsKeep
    BY <1>1, InvsSame, SignupsSame
  <1>12. PICK x : x = IF job[w].op = "revoke" THEN [op |-> "rows", user |-> e] ELSE Idle
    OBVIOUS
  <1>13. job' = [job EXCEPT ![w] = x]
    BY <1>2, <1>12 DEF cutoff_written
  <1>14. x \in Jobs /\ x.op \in {"rows", "idle"}
    BY <1>12 DEF Jobs, Rows, Idle
  <1>15. JobOK(w)'
    BY <1>13, <1>14, JobWritten DEF JobOK
  <1>16. JobsKeep /\ RedemptionsKeep
    BY <1>1, <1>11, <1>13, <1>14, <1>15, JobMoves
  <1> QED
    BY <1>7, <1>9, <1>10, <1>11, <1>16 DEF Ordinary, Frame

LEMMA rows_revokedStep ==
    ASSUME IInv, NEW w \in Workers, rows_revoked(w)
    PROVE  Ordinary /\ Forward
  <1> USE DEF IInv
  <1>1. UsersKeep /\ NobodyNew /\ Forward /\ ResetsKeep
    BY UsersSame, ResetsSame DEF rows_revoked, TypeInv
  <1>2. CredsKeep
    BY RowsRevoked DEF rows_revoked
  <1>3. InvsGrow /\ StatesKeep /\ LinksKeep /\ HoldersKeep /\ SignupsGrow /\ ReviewsKeep
    BY InvsSame, SignupsSame DEF rows_revoked
  <1>4. JobsKeep /\ RedemptionsKeep
    BY <1>3, JobEnds DEF rows_revoked
  <1> QED
    BY <1>1, <1>2, <1>3, <1>4 DEF Ordinary, Frame

\* A password written moves the cutoff to its submission.
LEMMA PasswordWritten ==
    ASSUME TypeInv, UserInv, NEW e \in Emails, NEW submitted \in Nat, submitted <= clock, Exists(e),
           UNCHANGED clock, user' = [user EXCEPT ![e] = NewPassword(e, submitted)]
    PROVE  /\ UsersKeep /\ NobodyNew
           /\ \A f \in Emails : f # e => ForwardAt(f)
           /\ user[e].cutoff <= submitted => Forward
  <1>1. PICK u : u = NewPassword(e, submitted)
    OBVIOUS
  <1>3. user[e] \in UserRow /\ clock \in Nat
    BY UserShape DEF TypeInv
  <1>4. /\ u \in UserRow /\ u.by = user[e].by /\ u.from = submitted /\ u.cutoff = submitted
        /\ u.at = clock /\ u.active = user[e].active /\ u.spared = FALSE
    <2>1. user[e].pw + 1 \in Nat
      BY <1>3 DEF UserRow
    <2>2. u = [user[e] EXCEPT !.pw = user[e].pw + 1, !.cutoff = submitted, !.from = submitted, !.at = clock,
                            !.spared = FALSE]
      BY <1>1 DEF NewPassword
    <2> QED
      BY <1>3, <2>1, <2>2 DEF UserRow
  <1>5. Covered(u) /\ u.cutoff <= clock
    BY <1>4 DEF Covered
  <1>6. user' = [user EXCEPT ![e] = u]
    BY <1>1
  <1> QED
    BY <1>4, <1>5, <1>6, UserWritten

LEMMA change_own_passwordStep ==
    ASSUME IInv, NEW w \in Workers, change_own_password(w)
    PROVE  /\ Ordinary
           /\ \A e \in Emails : ForwardAt(e) \/ job[w].now < user[e].cutoff
  <1> USE DEF IInv
  <1>1. /\ job[w].op = "change" /\ Ends(w) /\ UNCHANGED <<clock, cred, row, inv, reset, signup>>
        /\ \E now \in job[w].now .. clock :
             user' = [user EXCEPT ![job[w].user] = NewPassword(job[w].user, now)]
    BY DEF change_own_password
  <1>2. PICK e \in Emails : e = job[w].user
    BY <1>1, ChangeJob
  <1>3. PICK now \in job[w].now .. clock : user' = [user EXCEPT ![e] = NewPassword(e, now)]
    BY <1>1, <1>2
  <1>4. /\ Exists(e) /\ user[e] \in UserRow /\ clock \in Nat /\ job[w].now \in Nat
        /\ now \in Nat /\ job[w].now <= now /\ now <= clock
    BY <1>1, <1>2, <1>3, ChangeJob
  <1>5. /\ UsersKeep /\ NobodyNew
        /\ \A f \in Emails : f # e => ForwardAt(f)
        /\ user[e].cutoff <= now => Forward
    BY <1>1, <1>3, <1>4, PasswordWritten
  <1>6. user[e].cutoff <= now \/ job[w].now < user[e].cutoff
    BY <1>4 DEF UserRow
  <1>7. \A f \in Emails : ForwardAt(f) \/ job[w].now < user[f].cutoff
    BY <1>5, <1>6 DEF Forward
  <1>8. CredsKeep /\ ResetsKeep
    BY <1>1, <1>5, RowsSame, ResetsSame
  <1>9. InvsGrow /\ StatesKeep /\ LinksKeep /\ HoldersKeep /\ SignupsGrow /\ ReviewsKeep
    BY <1>1, InvsSame, SignupsSame
  <1>10. JobsKeep /\ RedemptionsKeep
    BY <1>1, <1>9, JobEnds
  <1> QED
    BY <1>5, <1>7, <1>8, <1>9, <1>10 DEF Ordinary, Frame

LEMMA users_submitStep ==
    ASSUME IInv, NEW w \in Workers, NEW n \in DOMAIN cred, NEW e \in Emails, users_submit(w, cred[n], e)
    PROVE  Ordinary /\ Forward
  <1> USE DEF IInv
  <1>1. Exists(e) /\ UNCHANGED <<clock, cred, row, inv, reset, signup>>
    BY DEF users_submit
  <1>2. user[e] \in UserRow /\ clock \in Nat
    BY <1>1, UserShape DEF TypeInv
  <1>3. Covered(user[e]) /\ user[e].cutoff <= clock /\ user[e].cutoff <= user[e].cutoff
    BY <1>1, <1>2 DEF UserInv, UserRow
  <1>4. ASSUME NEW role \in Roles, update_user_role(e, role), UNCHANGED job
        PROVE  Ordinary /\ Forward
    <2>1. PICK u : u = [user[e] EXCEPT !.role = role]
      OBVIOUS
    <2>2. user' = [user EXCEPT ![e] = u]
      BY <1>4, <2>1 DEF update_user_role
    <2>3. /\ u \in UserRow /\ u.by = user[e].by /\ u.from = user[e].from /\ u.cutoff = user[e].cutoff
          /\ u.pw = user[e].pw /\ u.at = user[e].at /\ u.active = user[e].active
          /\ u.spared = user[e].spared
      BY <1>2, <2>1 DEF UserRow
    <2>4. UsersKeep /\ NobodyNew /\ Forward
      BY <1>1, <1>3, <2>2, <2>3, UserWritten DEF Covered
    <2>5. CredsKeep
      BY <1>1, RowsSame
    <2> QED
      BY <1>1, <1>4, <2>4, <2>5, OnlyUsersAndRows
  <1>5. ASSUME deactivate_user(w, e) \/ revoke_all_tokens(w, e), UNCHANGED user
        PROVE  Ordinary /\ Forward
    BY <1>1, <1>5, ChangeStarts DEF deactivate_user, revoke_all_tokens
  <1> QED
    BY <1>4, <1>5 DEF users_submit

-----------------------------------------------------------------------------
(* Password resets, the clock.                                             *)

LEMMA SecondStep ==
    ASSUME IInv, Second
    PROVE  Ordinary /\ Forward
  <1> USE DEF IInv
  <1>1. clock' \in Nat /\ clock <= clock' /\ UNCHANGED <<user, cred, row, inv, reset, signup, job>>
    BY DEF Second, TypeInv
  <1>2. UsersKeep /\ NobodyNew /\ Forward
    BY <1>1, UsersSame
  <1>3. CredsKeep
    BY <1>1, RowsSame
  <1> QED
    BY <1>1, <1>2, <1>3, OnlyUsersAndRows

LEMMA forgot_passwordStep ==
    ASSUME IInv, NEW e \in Emails, forgot_password_submit(e)
    PROVE  Ordinary /\ Forward
  <1> USE DEF IInv
  <1>1. UsersKeep /\ NobodyNew /\ Forward /\ CredsKeep
    BY UsersSame, RowsSame DEF forgot_password_submit, TypeInv
  <1>2. InvsGrow /\ StatesKeep /\ LinksKeep /\ HoldersKeep /\ SignupsGrow /\ ReviewsKeep
    BY InvsSame, SignupsSame DEF forgot_password_submit
  <1>3. JobsKeep /\ RedemptionsKeep
    BY <1>2, JobsSame DEF forgot_password_submit
  <1>4. PICK mailed \in BOOLEAN : request_reset(e, mailed)
    BY DEF forgot_password_submit
  <1>5. PICK r : r = [user |-> e, exp |-> clock + TTL, consumed |-> FALSE, mailed |-> mailed]
    OBVIOUS
  <1>6. Exists(e) /\ reset' = Append(reset, r) /\ UNCHANGED user
    BY <1>4, <1>5 DEF request_reset, forgot_password_submit
  <1>7. clock + TTL \in Nat
    BY DEF TypeInv
  <1>8. r \in ResetRow /\ r.user = e
    BY <1>5, <1>7 DEF ResetRow
  <1>9. /\ reset' \in Seq(ResetRow) /\ Len(reset') = Len(reset) + 1 /\ Len(reset) \in Nat
        /\ reset'[Len(reset) + 1] = r /\ \A k \in 1 .. Len(reset) : reset'[k] = reset[k]
    BY <1>6, <1>8 DEF TypeInv
  <1>10. ASSUME NEW k \in 1 .. Len(reset') PROVE user'[reset'[k].user] # NoUser
    <2>1. k \in 1 .. Len(reset) \/ k = Len(reset) + 1
      BY <1>9
    <2>2. CASE k \in 1 .. Len(reset)
      <3>1. Exists(reset[k].user)
        BY <2>2, Domains DEF ResetInv
      <3> QED
        BY <3>1, <2>2, <1>6, <1>9 DEF Exists
    <2>3. CASE k = Len(reset) + 1
      BY <2>3, <1>6, <1>8, <1>9 DEF Exists
    <2> QED
      BY <2>1, <2>2, <2>3
  <1>11. ResetsKeep
    BY <1>9, <1>10 DEF ResetsKeep
  <1> QED
    BY <1>1, <1>2, <1>3, <1>11 DEF Ordinary, Frame

LEMMA reset_password_submitStep ==
    ASSUME IInv, NEW w \in Workers, NEW r \in DOMAIN reset, reset_password_submit(w, r)
    PROVE  Ordinary /\ Forward
  <1> USE DEF IInv
  <1>1. UsersKeep /\ NobodyNew /\ Forward /\ CredsKeep /\ ResetsKeep
    BY UsersSame, RowsSame, ResetsSame DEF reset_password_submit, TypeInv
  <1>2. InvsGrow /\ StatesKeep /\ LinksKeep /\ HoldersKeep /\ SignupsGrow /\ ReviewsKeep
    BY InvsSame, SignupsSame DEF reset_password_submit
  <1>3. PICK x : x = [op |-> "reset", r |-> r, now |-> clock]
    OBVIOUS
  <1>4. Start(w, x) /\ UNCHANGED <<clock, reset>>
    BY <1>3 DEF reset_password_submit
  <1>5. r \in Nat /\ clock \in Nat /\ clock <= clock
    BY Domains DEF TypeInv
  <1>6. x \in Jobs
    BY <1>3, <1>5 DEF Jobs, Reset
  <1>7. job'[w] = x => JobOK(w)'
    BY <1>3, <1>4, <1>5 DEF JobOK
  <1>8. JobsKeep /\ RedemptionsKeep
    BY <1>2, <1>4, <1>6, <1>7, JobStarts
  <1> QED
    BY <1>1, <1>2, <1>8 DEF Ordinary, Frame

\* The one step that may move a cutoff back: the submission was older.
LEMMA reset_writtenStep ==
    ASSUME IInv, NEW w \in Workers, reset_written(w)
    PROVE  /\ Ordinary
           /\ \A e \in Emails : ForwardAt(e) \/ job[w].now < user[e].cutoff
  <1> USE DEF IInv
  <1>1. job[w] \in Reset /\ job[w].r \in 1 .. Len(reset) /\ job[w].now <= clock
    BY JobShape, Domains DEF reset_written, JobInv, JobOK
  <1>2. PICK k \in 1 .. Len(reset), now \in Nat : k = job[w].r /\ now = job[w].now
    BY <1>1 DEF Reset
  <1>3. reset[k] \in ResetRow
    BY DEF TypeInv
  <1>4. PICK e \in Emails : e = reset[k].user
    BY <1>3 DEF ResetRow
  <1>5. /\ user' = [user EXCEPT ![e] = NewPassword(e, now)] /\ Ends(w) /\ job[w].op = "reset"
        /\ reset' = [reset EXCEPT ![k].consumed = TRUE]
        /\ UNCHANGED <<clock, cred, row, inv, signup>>
    BY <1>2, <1>4 DEF reset_written
  <1>6. Exists(e)
    BY <1>4, Domains DEF ResetInv
  <1>7. /\ UsersKeep /\ NobodyNew
        /\ \A f \in Emails : f # e => ForwardAt(f)
        /\ user[e].cutoff <= now => Forward
    BY <1>1, <1>2, <1>5, <1>6, PasswordWritten
  <1>8. user[e].cutoff <= now \/ now < user[e].cutoff
    BY <1>6, UserShape DEF UserRow
  <1>9. \A f \in Emails : ForwardAt(f) \/ now < user[f].cutoff
    BY <1>7, <1>8 DEF Forward
  <1>10. CredsKeep
    BY <1>5, RowsSame
  <1>11. InvsGrow /\ StatesKeep /\ LinksKeep /\ HoldersKeep /\ SignupsGrow /\ ReviewsKeep
    BY <1>5, InvsSame, SignupsSame
  <1>12. JobsKeep /\ RedemptionsKeep
    BY <1>5, <1>11, JobEnds
  <1>13. ResetsKeep
    <2>1. PICK r : r = [reset[k] EXCEPT !.consumed = TRUE]
      OBVIOUS
    <2>2. reset' = [reset EXCEPT ![k] = r] /\ r \in ResetRow /\ r.user = reset[k].user
      BY <1>3, <1>5, <2>1 DEF ResetRow
    <2>3. /\ reset' \in Seq(ResetRow) /\ Len(reset') = Len(reset) /\ Len(reset) \in Nat
          /\ \A i \in 1 .. Len(reset) : reset'[i] = IF i = k THEN r ELSE reset[i]
      BY <2>2 DEF TypeInv
    <2>4. ASSUME NEW i \in 1 .. Len(reset') PROVE user'[reset'[i].user] # NoUser
      <3>1. i \in 1 .. Len(reset) /\ reset'[i].user = reset[i].user
        BY <2>2, <2>3
      <3>2. reset[i] \in ResetRow
        BY <3>1 DEF TypeInv
      <3>3. reset[i].user \in Emails /\ Exists(reset[i].user)
        BY <3>1, <3>2, Domains DEF ResetInv, ResetRow
      <3> QED
        BY <3>1, <3>3, <1>7 DEF UsersKeep
    <2> QED
      BY <2>3, <2>4 DEF ResetsKeep
  <1> QED
    BY <1>2, <1>7, <1>9, <1>10, <1>11, <1>12, <1>13 DEF Ordinary, Frame

-----------------------------------------------------------------------------
(* Invitations.                                                            *)

LEMMA InvitationOK ==
    ASSUME TypeInv, NEW e, NEW role, NEW request, e \in Emails, role \in Roles, request \in Nat,
           NEW v, v = Invitation(e, role, request)
    PROVE  v \in InvitationRow /\ v.request = request /\ (v.handed => request = 0)
  <1>1. clock + TTL \in Nat
    BY DEF TypeInv
  <1>2. PICK h \in BOOLEAN : h <=> request = 0
    OBVIOUS
  <1>3. v = [email |-> e, role |-> role, exp |-> clock + TTL, state |-> "pending", holder |-> NoWorker,
             handed |-> h, request |-> request, cut |-> FALSE]
    BY <1>2 DEF Invitation
  <1> QED
    BY <1>1, <1>2, <1>3 DEF InvitationRow

LEMMA create_invitationStep ==
    ASSUME IInv, NEW n \in DOMAIN cred, NEW e \in Emails, NEW role \in Roles,
           create_invitation(cred[n], e, role)
    PROVE  Ordinary /\ Forward
  <1> USE DEF IInv
  <1>1. UsersKeep /\ NobodyNew /\ Forward /\ CredsKeep /\ ResetsKeep
    BY UsersSame, RowsSame, ResetsSame DEF create_invitation, TypeInv
  <1>2. SignupsGrow /\ ReviewsKeep
    BY SignupsSame DEF create_invitation
  <1>3. PICK v : v = Invitation(e, role, 0)
    OBVIOUS
  <1>4. v \in InvitationRow /\ v.request = 0
    BY <1>3, InvitationOK
  <1>5. inv' = Append(inv, v)
    BY <1>3 DEF create_invitation, mint_invitation
  <1>6. InvsGrow /\ StatesKeep /\ LinksKeep /\ HoldersKeep
    BY <1>4, <1>5, InvMinted
  <1>7. JobsKeep /\ RedemptionsKeep
    BY <1>6, JobsSame DEF create_invitation
  <1> QED
    BY <1>1, <1>2, <1>6, <1>7 DEF Ordinary, Frame

\* One invitation is written.
LEMMA InvWritten ==
    ASSUME TypeInv, NEW i \in 1 .. Len(inv), NEW v \in InvitationRow, inv' = [inv EXCEPT ![i] = v],
           v.email = inv[i].email, v.request = inv[i].request
    PROVE  /\ InvsGrow /\ Len(inv') = Len(inv) /\ inv'[i] = v
           /\ \A k \in 1 .. Len(inv) : k # i => inv'[k] = inv[k]
           /\ (v.handed => inv[i].handed) => LinksKeep
  <1>1. /\ inv' \in Seq(InvitationRow) /\ Len(inv') = Len(inv) /\ Len(inv) \in Nat /\ inv'[i] = v
        /\ \A k \in 1 .. Len(inv) : k # i => inv'[k] = inv[k]
    BY DEF TypeInv
  <1> QED
    BY <1>1 DEF InvsGrow, LinksKeep

\* The holder of an invitation is the one who may write it.
LEMMA HolderMoves ==
    ASSUME TypeInv, JobInv, NEW i \in 1 .. Len(inv), NEW w \in Workers, NEW x \in Jobs,
           job' = [job EXCEPT ![w] = x], JobOK(w)', inv[i].holder \in {w, NoWorker},
           \A k \in 1 .. Len(inv) : k # i => inv'[k] = inv[k]
    PROVE  JobsKeep
  <1>1. /\ job' \in [Workers -> Jobs]
        /\ \A v \in Workers : v # w => job'[v] = job[v]
    BY JobWritten
  <1>2. ASSUME NEW v \in Workers
        PROVE  \/ JobOK(v)'
               \/ /\ job'[v] = job[v]
                  /\ job[v].op \in {"redeem", "redeemed"} =>
                       /\ inv'[job[v].i].holder = inv[job[v].i].holder
                       /\ inv'[job[v].i].state = inv[job[v].i].state
    <2>1. CASE v = w
      BY <2>1
    <2>2. CASE v # w
      <3>1. job[v].op \in {"redeem", "redeemed"} => job[v].i \in 1 .. Len(inv) /\ inv[job[v].i].holder = v
        BY Domains DEF JobInv, JobOK
      <3>2. job[v].op \in {"redeem", "redeemed"} => job[v].i # i
        BY <2>2, <3>1 DEF NoWorker
      <3> QED
        BY <2>2, <3>1, <3>2, <1>1
    <2> QED
      BY <2>1, <2>2
  <1> QED
    BY <1>1, <1>2 DEF JobsKeep

LEMMA redeem_invitationStep ==
    ASSUME IInv, NEW w \in Workers, NEW i \in DOMAIN inv, redeem_invitation(w, i)
    PROVE  Ordinary /\ Forward
  <1> USE DEF IInv
  <1>1. UsersKeep /\ NobodyNew /\ Forward /\ CredsKeep /\ ResetsKeep
    BY UsersSame, RowsSame, ResetsSame DEF redeem_invitation, TypeInv
  <1>2. SignupsGrow /\ ReviewsKeep
    BY SignupsSame DEF redeem_invitation
  <1>3. PICK x, v : x = [op |-> "redeem", i |-> i] /\ v = [inv[i] EXCEPT !.holder = w]
    OBVIOUS
  <1>4. /\ job' = [job EXCEPT ![w] = x] /\ job[w] = Idle
        /\ inv[i].holder = NoWorker /\ inv[i].state = "pending"
        /\ inv' = [inv EXCEPT ![i] = v]
    BY <1>3 DEF redeem_invitation, Start, Free, Locked
  <1>5. i \in 1 .. Len(inv) /\ i \in Nat /\ Len(inv) \in Nat
    BY Domains
  <1>6. inv[i] \in InvitationRow
    BY <1>5, InvShape
  <1>7. /\ v \in InvitationRow /\ v.email = inv[i].email /\ v.request = inv[i].request
        /\ v.state = inv[i].state /\ v.cut = inv[i].cut /\ v.handed = inv[i].handed /\ v.holder = w
    BY <1>3, <1>6 DEF InvitationRow
  <1>8. /\ InvsGrow /\ Len(inv') = Len(inv) /\ inv'[i] = v
        /\ \A k \in 1 .. Len(inv) : k # i => inv'[k] = inv[k]
        /\ LinksKeep
    BY <1>4, <1>5, <1>7, InvWritten
  <1>9. StatesKeep
    BY <1>7, <1>8 DEF StatesKeep
  <1>10. x \in Jobs
    BY <1>3, <1>5 DEF Jobs, Redeem
  <1>11. job'[w] = x /\ RedemptionsKeep
    <2>1. job[w].op # "redeemed"
      BY <1>4 DEF Idle
    <2> QED
      BY <2>1, <1>4, <1>10, JobWritten
  <1>12. DOMAIN inv' = 1 .. Len(inv')
    BY <1>8 DEF InvsGrow
  <1>13. JobOK(w)'
    BY <1>3, <1>4, <1>5, <1>7, <1>8, <1>11, <1>12 DEF JobOK
  <1>14. JobsKeep
    BY <1>4, <1>5, <1>8, <1>10, <1>13, HolderMoves
  <1> QED
    BY <1>1, <1>2, <1>8, <1>9, <1>11, <1>14 DEF Ordinary, Frame

LEMMA RedeemJob ==
    ASSUME TypeInv, JobInv, NEW w \in Workers, job[w].op \in {"redeem", "redeemed"}
    PROVE  /\ job[w] \in Redeem /\ job[w].i \in 1 .. Len(inv) /\ job[w].i \in Nat
           /\ inv[job[w].i].holder = w /\ inv[job[w].i].state = "pending"
           /\ job[w].op = "redeemed" => Exists(inv[job[w].i].email)
  <1>1. job[w].i \in DOMAIN inv /\ inv[job[w].i].holder = w /\ inv[job[w].i].state = "pending"
        /\ (job[w].op = "redeemed" => Exists(inv[job[w].i].email))
    BY DEF JobInv, JobOK
  <1> QED
    BY <1>1, JobShape, Domains

\* The address is taken: the redemption fails and gives the row back.
LEMMA RedemptionFails ==
    ASSUME IInv, NEW w \in Workers, create_user(w), Exists(inv[job[w].i].email)
    PROVE  Ordinary /\ Forward
  <1> USE DEF IInv
  <1>1. PICK i : i = job[w].i
    OBVIOUS
  <1>2. /\ job[w].op = "redeem" /\ job' = [job EXCEPT ![w] = Idle]
        /\ inv' = [inv EXCEPT ![i].holder = NoWorker]
        /\ UNCHANGED <<clock, user, cred, row, reset, signup>>
    BY <1>1 DEF create_user
  <1>3. i \in 1 .. Len(inv) /\ inv[i].holder = w
    BY <1>1, <1>2, RedeemJob
  <1>4. UsersKeep /\ NobodyNew /\ Forward /\ CredsKeep /\ ResetsKeep /\ SignupsGrow /\ ReviewsKeep
    BY <1>2, UsersSame, RowsSame, ResetsSame, SignupsSame DEF TypeInv
  <1>5. inv[i] \in InvitationRow
    BY <1>3, InvShape
  <1>6. PICK v : v = [inv[i] EXCEPT !.holder = NoWorker]
    OBVIOUS
  <1>7. /\ v \in InvitationRow /\ v.email = inv[i].email /\ v.request = inv[i].request
        /\ v.state = inv[i].state /\ v.cut = inv[i].cut /\ v.handed = inv[i].handed
    BY <1>6, <1>5 DEF InvitationRow
  <1>8. /\ InvsGrow /\ Len(inv') = Len(inv) /\ inv'[i] = v
        /\ \A k \in 1 .. Len(inv) : k # i => inv'[k] = inv[k]
        /\ LinksKeep
    BY <1>2, <1>3, <1>6, <1>7, InvWritten
  <1>9. StatesKeep
    BY <1>7, <1>8 DEF StatesKeep
  <1>10. Idle \in Jobs
    BY DEF Jobs
  <1>11. job'[w] = Idle /\ RedemptionsKeep
    BY <1>2, <1>10, JobWritten
  <1>12. JobOK(w)'
    BY <1>11, IdleIsOK
  <1>13. JobsKeep
    BY <1>2, <1>3, <1>8, <1>10, <1>12, HolderMoves
  <1> QED
    BY <1>4, <1>8, <1>9, <1>11, <1>13 DEF Ordinary, Frame

\* The account is made; its invitation stays pending and held.
LEMMA RedemptionMakesUser ==
    ASSUME IInv, NEW w \in Workers, create_user(w), ~Exists(inv[job[w].i].email)
    PROVE  IInv' /\ Forward /\ UsersKeep /\ CredsKeep
  <1> USE DEF IInv
  <1>1. job[w].op = "redeem"
    BY DEF create_user
  <1>2. /\ job[w] \in Redeem /\ job[w].i \in 1 .. Len(inv) /\ job[w].i \in Nat
        /\ inv[job[w].i].holder = w /\ inv[job[w].i].state = "pending"
    BY <1>1, RedeemJob
  <1>3. PICK i \in 1 .. Len(inv) : i = job[w].i
    BY <1>2
  <1>4. PICK e \in Emails, role \in Roles : e = inv[i].email /\ role = inv[i].role
    BY InvShape
  <1>5. PICK u, x : u = User(role, i) /\ x = [job[w] EXCEPT !.op = "redeemed"]
    OBVIOUS
  <1>6. /\ user' = [user EXCEPT ![e] = u] /\ job' = [job EXCEPT ![w] = x]
        /\ UNCHANGED <<clock, cred, row, inv, reset, signup>> /\ ~Exists(e)
    BY <1>3, <1>4, <1>5 DEF create_user
  <1>7. clock \in Nat /\ clock <= clock /\ i \in Nat /\ i # 0
    BY <1>2, <1>3, Domains DEF TypeInv
  <1>8. u \in UserRow /\ Covered(u) /\ u.cutoff = clock /\ u.by = i
    BY <1>5, <1>7 DEF User, UserRow, Covered
  <1>9. /\ user' \in [Emails -> UserRow \cup {NoUser}] /\ user'[e] = u /\ u # NoUser
        /\ \A f \in Emails : f # e => user'[f] = user[f]
    BY <1>6, <1>8, RowIsSomebody DEF TypeInv
  <1>10. \A f \in Emails : Exists(f) =>
           /\ f # e /\ user'[f] = user[f] /\ user[f].cutoff <= user[f].cutoff
           /\ Covered(user[f]) /\ user[f].cutoff <= clock
    <2> SUFFICES ASSUME NEW f \in Emails, Exists(f) PROVE user[f].cutoff <= user[f].cutoff
      BY <1>6, <1>9 DEF UserInv
    <2> QED
      BY UserShape DEF UserRow
  <1>11. Forward
    BY <1>10 DEF Forward, ForwardAt
  <1>12. UsersKeep
    <2>1. \A f \in Emails : ~Exists(f) /\ user'[f] # NoUser => f = e
      BY <1>9 DEF Exists
    <2>2. user'[e].by \in DOMAIN inv'
      BY <1>6, <1>8, <1>9, Domains
    <2> QED
      BY <2>1, <2>2, <1>6, <1>7, <1>8, <1>9, <1>10 DEF UsersKeep, Exists
  <1>13. CredsKeep /\ ResetsKeep /\ InvsGrow /\ StatesKeep /\ LinksKeep /\ HoldersKeep
         /\ SignupsGrow /\ ReviewsKeep
    BY <1>6, <1>12, RowsSame, ResetsSame, InvsSame, SignupsSame
  <1>14. x \in Jobs /\ x.op = "redeemed" /\ x.i = i
    BY <1>2, <1>3, <1>5 DEF Jobs, Redeem
  <1>15. job'[w] = x
    BY <1>6, <1>14, JobWritten
  <1>16. JobOK(w)'
    <2>1. i \in DOMAIN inv' /\ inv'[i].holder = w /\ inv'[i].state = "pending" /\ inv'[i].email = e
      BY <1>2, <1>3, <1>4, <1>6, Domains
    <2> QED
      BY <2>1, <1>9, <1>14, <1>15 DEF JobOK, Exists
  <1>17. JobsKeep /\ RedemptionsKeep
    BY <1>1, <1>6, <1>13, <1>14, <1>16, JobMoves
  <1>18. NewcomersSettled
    <2>1. \A f \in Emails : ~Exists(f) /\ user'[f] # NoUser => f = e
      BY <1>9 DEF Exists
    <2>2. inv'[i].state = "pending"
      BY <1>2, <1>3, <1>6
    <2>3. Settled(i)'
      BY <2>2, <1>14, <1>15 DEF Settled
    <2>4. user'[e].by = i
      BY <1>8, <1>9
    <2> QED
      BY <2>1, <2>3, <2>4 DEF NewcomersSettled
  <1>19. Frame
    BY <1>12, <1>13, <1>17 DEF Frame
  <1>20. HandedInv' /\ SettledKeep
    BY <1>13, <1>17, <1>19, HandedStep, SettledSame
  <1> QED
    BY <1>11, <1>12, <1>13, <1>18, <1>19, <1>20, FrameStep

LEMMA create_userStep ==
    ASSUME IInv, NEW w \in Workers, create_user(w)
    PROVE  IInv' /\ Forward /\ UsersKeep /\ CredsKeep
  <1>1. CASE Exists(inv[job[w].i].email)
    BY <1>1, RedemptionFails, OrdinaryStep DEF Ordinary, Frame
  <1>2. CASE ~Exists(inv[job[w].i].email)
    BY <1>2, RedemptionMakesUser
  <1> QED
    BY <1>1, <1>2

\* The invitation is consumed while its redemption still holds it.
LEMMA invite_redeemStep ==
    ASSUME IInv, NEW w \in Workers, invite_redeem_submit(w)
    PROVE  IInv' /\ Forward /\ UsersKeep /\ CredsKeep
  <1> USE DEF IInv
  <1>1. job[w].op = "redeemed" /\ Ends(w) /\ UNCHANGED <<clock, user, reset, signup>>
    BY DEF invite_redeem_submit
  <1>2. PICK i \in 1 .. Len(inv) : i = job[w].i /\ inv[i].holder = w /\ inv[i].state = "pending"
                                   /\ Exists(inv[i].email)
    BY <1>1, RedeemJob
  <1>3. PICK e \in Emails : e = inv[i].email
    BY InvShape
  <1>4. UsersKeep /\ NobodyNew /\ Forward /\ ResetsKeep /\ SignupsGrow /\ ReviewsKeep
    BY <1>1, UsersSame, ResetsSame, SignupsSame DEF TypeInv
  <1>5. CredsKeep
    <2>1. PICK via, c : via = Via([user |-> e, pw |-> 0]) /\ c = Credential("cookie", e, 0, 0, via)
      OBVIOUS
    <2>2. Issue(<<c>>)
      BY <1>2, <1>3, <2>1 DEF invite_redeem_submit
    <2>3. via \in {"login", "late_login", "refresh"} /\ (via = "login" => user[e].pw = 0)
      BY <2>1 DEF Via
    <2>4. /\ c \in CredentialRow /\ user'[c.user] # NoUser /\ c.iat <= clock' /\ c.sid = 0
          /\ c.via = "login" => c.pw = user'[c.user].pw
      BY <1>1, <1>2, <1>3, <2>1, <2>3, CredentialOK
    <2>5. <<c>> \in Seq(CredentialRow) /\ Len(<<c>>) = 1 /\ <<c>>[1] = c
      BY <2>4
    <2>6. \A k \in 1 .. Len(<<c>>) : <<c>>[k] = c
      BY <2>5
    <2>7. c.sid <= Len(cred) + Len(<<c>>)
      BY <2>4, <2>5, Domains
    <2> QED
      BY <2>2, <2>4, <2>5, <2>6, <2>7, CredsIssued
  <1>6. PICK v : v = [inv[i] EXCEPT !.state = "consumed", !.holder = NoWorker]
    OBVIOUS
  <1>7. inv[i] \in InvitationRow
    BY InvShape
  <1>8. inv' = [inv EXCEPT ![i] = v]
    <2>1. inv' = [inv EXCEPT ![i].state = IF @ = "deleted" THEN @ ELSE "consumed", ![i].holder = NoWorker]
      BY <1>2 DEF invite_redeem_submit
    <2> QED
      BY <1>2, <1>6, <2>1
  <1>9. /\ v \in InvitationRow /\ v.email = inv[i].email /\ v.request = inv[i].request
        /\ v.state = "consumed" /\ v.cut = inv[i].cut /\ v.handed = inv[i].handed
    BY <1>6, <1>7 DEF InvitationRow
  <1>10. /\ InvsGrow /\ Len(inv') = Len(inv) /\ inv'[i] = v
         /\ \A k \in 1 .. Len(inv) : k # i => inv'[k] = inv[k]
         /\ LinksKeep
    BY <1>8, <1>9, InvWritten
  <1>11. job' = [job EXCEPT ![w] = Idle] /\ Idle \in Jobs
    BY <1>1 DEF Ends, Jobs
  <1>12. job'[w] = Idle /\ \A u \in Workers : u # w => job'[u] = job[u]
    BY <1>11, JobWritten
  <1>13. JobOK(w)'
    BY <1>12, IdleIsOK
  <1>14. JobsKeep
    BY <1>2, <1>10, <1>11, <1>13, HolderMoves
  <1>15. Frame
    BY <1>4, <1>5, <1>10, <1>14 DEF Frame
  <1>16. SettledKeep
    <2> SUFFICES ASSUME NEW b \in 1 .. Len(inv), Settled(b) PROVE Settled(b)'
      BY DEF SettledKeep
    <2>1. CASE b = i
      BY <2>1, <1>9, <1>10 DEF Settled
    <2>2. CASE b # i
      <3>1. inv'[b] = inv[b]
        BY <2>2, <1>10
      <3>2. \A u \in Workers : job[u].op = "redeemed" /\ job[u].i = b => job'[u] = job[u]
        BY <2>2, <1>2, <1>12
      <3> QED
        BY <3>1, <3>2 DEF Settled
    <2> QED
      BY <2>1, <2>2
  <1>17. HandedInv' /\ NewcomersSettled
    BY <1>4, <1>10, <1>15, HandedStep, NoNewcomer
  <1> QED
    BY <1>4, <1>5, <1>15, <1>16, <1>17, FrameStep

LEMMA bulk_cancelStep ==
    ASSUME IInv, NEW w \in Workers, NEW n \in DOMAIN cred, NEW ids \in SUBSET DOMAIN inv,
           invitations_bulk_cancel_submit(w, cred[n], ids)
    PROVE  Ordinary /\ Forward
  <1> USE DEF IInv
  <1>1. UsersKeep /\ NobodyNew /\ Forward /\ CredsKeep /\ ResetsKeep
    BY UsersSame, RowsSame, ResetsSame DEF invitations_bulk_cancel_submit, TypeInv
  <1>2. InvsGrow /\ StatesKeep /\ LinksKeep /\ HoldersKeep /\ SignupsGrow /\ ReviewsKeep
    BY InvsSame, SignupsSame DEF invitations_bulk_cancel_submit
  <1>3. PICK x : x = [op |-> "cancel", ids |-> ids]
    OBVIOUS
  <1>4. Start(w, x)
    BY <1>3 DEF invitations_bulk_cancel_submit
  <1>5. ids \in SUBSET Nat
    BY Domains
  <1>6. x \in Jobs
    BY <1>3, <1>5 DEF Jobs, Cancel
  <1>7. job'[w] = x => JobOK(w)'
    BY <1>3 DEF JobOK
  <1>8. JobsKeep /\ RedemptionsKeep
    BY <1>2, <1>4, <1>6, <1>7, JobStarts
  <1> QED
    BY <1>1, <1>2, <1>8 DEF Ordinary, Frame

\* The DELETE waits for every row that a redemption holds.
LEMMA cancel_invitationsStep ==
    ASSUME IInv, NEW w \in Workers, cancel_invitations_bulk(w)
    PROVE  IInv' /\ Forward /\ UsersKeep /\ CredsKeep
  <1> USE DEF IInv
  <1>1. /\ job[w].op = "cancel" /\ Ends(w) /\ (\A i \in job[w].ids : inv[i].holder = NoWorker)
        /\ UNCHANGED <<clock, user, cred, row, reset, signup>>
    BY DEF cancel_invitations_bulk, Locked
  <1>2. UsersKeep /\ NobodyNew /\ Forward /\ CredsKeep /\ ResetsKeep /\ SignupsGrow /\ ReviewsKeep
    BY <1>1, UsersSame, RowsSame, ResetsSame, SignupsSame DEF TypeInv
  <1>3. inv' = [i \in 1 .. Len(inv) |->
                  IF i \in job[w].ids THEN [inv[i] EXCEPT !.state = "deleted",
                                                          !.cut = @ \/ inv[i].state = "consumed"]
                  ELSE inv[i]]
    BY Domains DEF cancel_invitations_bulk
  <1>4. \A i \in 1 .. Len(inv) : i \notin job[w].ids => inv'[i] = inv[i]
    BY <1>3
  <1>5. ASSUME NEW i \in 1 .. Len(inv), i \in job[w].ids
        PROVE  /\ inv'[i] \in InvitationRow /\ inv'[i].email = inv[i].email
               /\ inv'[i].request = inv[i].request /\ inv'[i].handed = inv[i].handed
               /\ inv[i].state = "consumed" \/ inv[i].cut => inv'[i].cut
    <2>1. inv[i] \in InvitationRow
      BY InvShape
    <2>3. inv'[i] = [inv[i] EXCEPT !.state = "deleted", !.cut = inv[i].cut \/ inv[i].state = "consumed"]
      BY <1>3, <1>5
    <2>4. (inv[i].cut \/ inv[i].state = "consumed") \in BOOLEAN
      OBVIOUS
    <2> QED
      BY <2>1, <2>3, <2>4 DEF InvitationRow
  <1>6. /\ inv' \in Seq(InvitationRow) /\ Len(inv') = Len(inv) /\ Len(inv) \in Nat
    <2>1. \A i \in 1 .. Len(inv) : inv'[i] \in InvitationRow
      BY <1>4, <1>5, InvShape
    <2>2. Len(inv) \in Nat /\ inv' \in [1 .. Len(inv) -> InvitationRow]
      BY <1>3, <2>1, Domains
    <2> QED
      BY <2>2
  <1>7. InvsGrow /\ LinksKeep
    BY <1>4, <1>5, <1>6 DEF InvsGrow, LinksKeep
  <1>8. job' = [job EXCEPT ![w] = Idle] /\ Idle \in Jobs
    BY <1>1 DEF Ends, Jobs
  <1>9. /\ job' \in [Workers -> Jobs] /\ job'[w] = Idle /\ RedemptionsKeep
        /\ \A u \in Workers : u # w => job'[u] = job[u]
    BY <1>1, <1>8, JobWritten
  <1>10. ASSUME NEW u \in Workers, job[u].op \in {"redeem", "redeemed"}
         PROVE  job[u].i \in 1 .. Len(inv) /\ job[u].i \notin job[w].ids
    BY <1>1, <1>10, RedeemJob DEF NoWorker
  <1>11. JobsKeep
    <2>1. JobOK(w)'
      BY <1>9, IdleIsOK
    <2>2. \A u \in Workers : u # w /\ job[u].op \in {"redeem", "redeemed"} => inv'[job[u].i] = inv[job[u].i]
      BY <1>4, <1>10
    <2> QED
      BY <1>9, <2>1, <2>2 DEF JobsKeep
  <1>12. Frame
    BY <1>2, <1>7, <1>11 DEF Frame
  <1>13. SettledKeep
    <2> SUFFICES ASSUME NEW b \in 1 .. Len(inv), Settled(b) PROVE Settled(b)'
      BY DEF SettledKeep
    <2>1. CASE b \in job[w].ids
      <3>1. \A u \in Workers : job[u].op = "redeemed" => job[u].i # b
        BY <2>1, <1>10
      <3>2. inv[b].state = "consumed" \/ inv[b].cut
        BY <3>1 DEF Settled
      <3>3. inv'[b].cut
        BY <3>2, <2>1, <1>5
      <3> QED
        BY <3>3 DEF Settled
    <2>2. CASE b \notin job[w].ids
      <3>1. inv'[b] = inv[b]
        BY <2>2, <1>4
      <3>2. \A u \in Workers : job[u].op = "redeemed" => job'[u] = job[u]
        BY <1>9 DEF RedemptionsKeep
      <3> QED
        BY <3>1, <3>2 DEF Settled
    <2> QED
      BY <2>1, <2>2
  <1>14. HandedInv' /\ NewcomersSettled
    BY <1>2, <1>7, <1>12, HandedStep, NoNewcomer
  <1> QED
    BY <1>2, <1>12, <1>13, <1>14, FrameStep

-----------------------------------------------------------------------------
(* Signup requests.                                                        *)

LEMMA signup_requestStep ==
    ASSUME IInv, NEW w \in Workers, NEW e \in Emails, signup_request_submit(w, e)
    PROVE  Ordinary /\ Forward
  <1> USE DEF IInv
  <1>1. UsersKeep /\ NobodyNew /\ Forward /\ CredsKeep /\ ResetsKeep
    BY UsersSame, RowsSame, ResetsSame DEF signup_request_submit, TypeInv
  <1>2. InvsGrow /\ StatesKeep /\ LinksKeep /\ HoldersKeep /\ SignupsGrow /\ ReviewsKeep
    BY InvsSame, SignupsSame DEF signup_request_submit
  <1>3. PICK x : x = [op |-> "signup", user |-> e]
    OBVIOUS
  <1>4. Start(w, x)
    BY <1>3 DEF signup_request_submit
  <1>6. x \in Jobs
    BY <1>3 DEF Jobs, Signup
  <1>7. job'[w] = x => JobOK(w)'
    BY <1>3 DEF JobOK
  <1>8. JobsKeep /\ RedemptionsKeep
    BY <1>2, <1>4, <1>6, <1>7, JobStarts
  <1> QED
    BY <1>1, <1>2, <1>8 DEF Ordinary, Frame

LEMMA create_signupStep ==
    ASSUME IInv, NEW w \in Workers, create_signup_request(w)
    PROVE  Ordinary /\ Forward
  <1> USE DEF IInv
  <1>1. UsersKeep /\ NobodyNew /\ Forward /\ CredsKeep /\ ResetsKeep
    BY UsersSame, RowsSame, ResetsSame DEF create_signup_request, TypeInv
  <1>2. InvsGrow /\ StatesKeep /\ LinksKeep /\ HoldersKeep
    BY InvsSame DEF create_signup_request
  <1>3. JobsKeep /\ RedemptionsKeep
    BY <1>2, JobEnds DEF create_signup_request
  <1>4. PICK r : r = [email |-> job[w].user, status |-> "pending", crossed |-> FALSE]
    OBVIOUS
  <1>5. job[w].user \in Emails
    BY JobShape DEF create_signup_request, Signup
  <1>6. r \in SignupRow
    BY <1>4, <1>5 DEF SignupRow
  <1>7. signup' = Append(signup, r)
    BY <1>4 DEF create_signup_request
  <1>8. /\ signup' \in Seq(SignupRow) /\ Len(signup') = Len(signup) + 1 /\ Len(signup) \in Nat
        /\ \A k \in 1 .. Len(signup) : signup'[k] = signup[k]
    BY <1>6, <1>7 DEF TypeInv
  <1>9. SignupsGrow /\ ReviewsKeep
    BY <1>8 DEF SignupsGrow, ReviewsKeep
  <1> QED
    BY <1>1, <1>2, <1>3, <1>9 DEF Ordinary, Frame

LEMMA approve_submitStep ==
    ASSUME IInv, NEW w \in Workers, NEW n \in DOMAIN cred, NEW k \in DOMAIN signup, NEW role \in Roles,
           signup_request_approve_submit(w, cred[n], k, role)
    PROVE  Ordinary /\ Forward
  <1> USE DEF IInv
  <1>1. UsersKeep /\ NobodyNew /\ Forward /\ CredsKeep /\ ResetsKeep
    BY UsersSame, RowsSame, ResetsSame DEF signup_request_approve_submit, TypeInv
  <1>2. SignupsGrow /\ ReviewsKeep /\ UNCHANGED signup
    BY SignupsSame DEF signup_request_approve_submit
  <1>3. k \in 1 .. Len(signup) /\ k \in Nat /\ k # 0 /\ Len(inv) + 1 \in Nat
    BY Domains
  <1>4. signup[k] \in SignupRow
    BY <1>3 DEF TypeInv
  <1>5. signup[k].email \in Emails
    BY <1>4 DEF SignupRow
  <1>6. PICK v : v = Invitation(signup[k].email, role, k)
    OBVIOUS
  <1>7. v \in InvitationRow /\ v.request = k /\ ~v.handed
    BY <1>3, <1>5, <1>6, InvitationOK
  <1>8. inv' = Append(inv, v)
    BY <1>6 DEF signup_request_approve_submit, mint_invitation
  <1>9. /\ InvsGrow /\ StatesKeep /\ LinksKeep /\ HoldersKeep
        /\ DOMAIN inv' = 1 .. Len(inv) + 1 /\ inv'[Len(inv) + 1] = v
    BY <1>7, <1>8, InvMinted
  <1>10. PICK x : x = [op |-> "approve", k |-> k, i |-> Len(inv) + 1]
    OBVIOUS
  <1>11. Start(w, x)
    BY <1>10 DEF signup_request_approve_submit
  <1>12. x \in Jobs
    BY <1>3, <1>10 DEF Jobs, Approve
  <1>13. job'[w] = x => JobOK(w)'
    <2>1. Len(inv) + 1 \in DOMAIN inv'
      BY <1>9, Domains
    <2> QED
      BY <1>2, <1>7, <1>9, <1>10, <2>1 DEF JobOK
  <1>14. JobsKeep /\ RedemptionsKeep
    BY <1>9, <1>11, <1>12, <1>13, JobStarts
  <1> QED
    BY <1>1, <1>2, <1>9, <1>14 DEF Ordinary, Frame

LEMMA approve_signupStep ==
    ASSUME IInv, NEW w \in Workers, approve_signup_request(w)
    PROVE  Ordinary /\ Forward
  <1> USE DEF IInv
  <1>1. UsersKeep /\ NobodyNew /\ Forward /\ CredsKeep /\ ResetsKeep
    BY UsersSame, RowsSame, ResetsSame DEF approve_signup_request, TypeInv
  <1>2. /\ InvsGrow /\ StatesKeep /\ LinksKeep /\ HoldersKeep /\ SignupsGrow /\ ReviewsKeep
        /\ UNCHANGED <<inv, signup>>
    BY InvsSame, SignupsSame DEF approve_signup_request
  <1>3. job[w].op = "approve" /\ job[w] \in Approve
    BY JobShape DEF approve_signup_request
  <1>4. PICK x : x = IF signup[job[w].k].status = "pending"
                     THEN [job[w] EXCEPT !.op = "approving"] ELSE Idle
    OBVIOUS
  <1>5. job' = [job EXCEPT ![w] = x]
    BY <1>4 DEF approve_signup_request
  <1>6. x \in Jobs /\ (x = Idle \/ (x.op = "approving" /\ x.k = job[w].k /\ x.i = job[w].i))
    BY <1>3, <1>4 DEF Jobs, Approve
  <1>7. job'[w] = x
    BY <1>5, <1>6, JobWritten
  <1>8. JobOK(w)'
    <2>1. CASE x = Idle
      BY <2>1, <1>7, IdleIsOK
    <2>2. CASE x.op = "approving" /\ x.k = job[w].k /\ x.i = job[w].i
      <3>1. job[w].i \in DOMAIN inv /\ job[w].k \in DOMAIN signup /\ inv[job[w].i].request = job[w].k
        BY <1>3 DEF JobInv, JobOK
      <3> QED
        BY <3>1, <2>2, <1>2, <1>7 DEF JobOK
    <2> QED
      BY <2>1, <2>2, <1>6
  <1>9. JobsKeep /\ RedemptionsKeep
    BY <1>2, <1>3, <1>5, <1>6, <1>8, JobMoves
  <1> QED
    BY <1>1, <1>2, <1>9 DEF Ordinary, Frame

LEMMA reject_signupStep ==
    ASSUME IInv, NEW w \in Workers, NEW n \in DOMAIN cred, NEW k \in DOMAIN signup,
           reject_signup_request(w, cred[n], k)
    PROVE  Ordinary /\ Forward
  <1> USE DEF IInv
  <1>1. UsersKeep /\ NobodyNew /\ Forward /\ CredsKeep /\ ResetsKeep
    BY UsersSame, RowsSame, ResetsSame DEF reject_signup_request, TypeInv
  <1>2. InvsGrow /\ StatesKeep /\ LinksKeep /\ HoldersKeep /\ SignupsGrow /\ ReviewsKeep /\ UNCHANGED signup
    BY InvsSame, SignupsSame DEF reject_signup_request
  <1>3. PICK x : x = [op |-> "rejecting", k |-> k]
    OBVIOUS
  <1>4. Start(w, x)
    BY <1>3 DEF reject_signup_request
  <1>5. k \in Nat
    BY Domains
  <1>6. x \in Jobs
    BY <1>3, <1>5 DEF Jobs, Rejecting
  <1>7. job'[w] = x => JobOK(w)'
    BY <1>2, <1>3 DEF JobOK
  <1>8. JobsKeep /\ RedemptionsKeep
    BY <1>2, <1>4, <1>6, <1>7, JobStarts
  <1> QED
    BY <1>1, <1>2, <1>8 DEF Ordinary, Frame

\* A review writes its status, and marks the request if it was reviewed.
LEMMA RequestReviewed ==
    ASSUME TypeInv, NEW k \in 1 .. Len(signup), NEW status \in {"approved", "rejected"}, Reviewed(k, status)
    PROVE  /\ SignupsGrow /\ Len(signup') = Len(signup)
           /\ signup'[k].status = status
           /\ signup[k].crossed \/ signup[k].status # "pending" => signup'[k].crossed
           /\ \A q \in 1 .. Len(signup) : q # k => signup'[q] = signup[q]
  <1>1. signup[k] \in SignupRow /\ Len(signup) \in Nat
    BY DEF TypeInv
  <1>2. PICK r : r = [signup[k] EXCEPT !.status = status,
                                       !.crossed = signup[k].crossed \/ signup[k].status # "pending"]
    OBVIOUS
  <1>3. signup' = [signup EXCEPT ![k] = r]
    BY <1>2 DEF Reviewed
  <1>4. (signup[k].crossed \/ signup[k].status # "pending") \in BOOLEAN
    OBVIOUS
  <1>5. /\ r \in SignupRow /\ r.status = status
        /\ signup[k].crossed \/ signup[k].status # "pending" => r.crossed
    BY <1>1, <1>2, <1>4 DEF SignupRow
  <1>6. /\ signup' \in Seq(SignupRow) /\ Len(signup') = Len(signup) /\ signup'[k] = r
        /\ \A q \in 1 .. Len(signup) : q # k => signup'[q] = signup[q]
    BY <1>1, <1>3, <1>5 DEF TypeInv
  <1> QED
    BY <1>1, <1>5, <1>6 DEF SignupsGrow

LEMMA approval_sentStep ==
    ASSUME IInv, NEW w \in Workers, approval_sent(w)
    PROVE  IInv' /\ Forward /\ UsersKeep /\ CredsKeep
  <1> USE DEF IInv
  <1>1. job[w].op = "approving" /\ Ends(w) /\ UNCHANGED <<clock, user, cred, row, reset>>
    BY DEF approval_sent
  <1>2. PICK i \in 1 .. Len(inv), k \in 1 .. Len(signup) :
          i = job[w].i /\ k = job[w].k /\ inv[i].request = k
    BY <1>1, Domains DEF JobInv, JobOK
  <1>3. Reviewed(k, "approved") /\ inv' = [inv EXCEPT ![i].handed = TRUE]
    BY <1>2 DEF approval_sent
  <1>4. UsersKeep /\ NobodyNew /\ Forward /\ CredsKeep /\ ResetsKeep
    BY <1>1, UsersSame, RowsSame, ResetsSame DEF TypeInv
  <1>5. PICK v : v = [inv[i] EXCEPT !.handed = TRUE]
    OBVIOUS
  <1>6. inv[i] \in InvitationRow
    BY InvShape
  <1>7. /\ v \in InvitationRow /\ v.email = inv[i].email /\ v.request = inv[i].request
        /\ v.state = inv[i].state /\ v.cut = inv[i].cut /\ v.holder = inv[i].holder
    BY <1>5, <1>6 DEF InvitationRow
  <1>8. inv' = [inv EXCEPT ![i] = v]
    BY <1>3, <1>5
  <1>9. /\ InvsGrow /\ Len(inv') = Len(inv) /\ inv'[i] = v
        /\ \A q \in 1 .. Len(inv) : q # i => inv'[q] = inv[q]
    BY <1>7, <1>8, InvWritten
  <1>10. StatesKeep /\ HoldersKeep
    BY <1>7, <1>9 DEF StatesKeep, HoldersKeep
  <1>11. JobsKeep /\ RedemptionsKeep
    BY <1>1, <1>10, JobEnds
  <1>12. /\ SignupsGrow /\ Len(signup') = Len(signup) /\ signup'[k].status = "approved"
         /\ \A q \in 1 .. Len(signup) : q # k => signup'[q] = signup[q]
    BY <1>3, RequestReviewed
  <1>13. Frame
    BY <1>4, <1>9, <1>11, <1>12 DEF Frame
  <1>14. HandedInv'
    <2>1. SUFFICES ASSUME NEW h \in 1 .. Len(inv), inv'[h].handed, inv'[h].request # 0
                   PROVE  /\ inv'[h].request \in DOMAIN signup'
                          /\ signup'[inv'[h].request].status = "approved" \/ signup'[inv'[h].request].crossed
      BY <1>9, <1>13, DomainsNext DEF HandedInv
    <2>2. CASE h = i
      BY <2>2, <1>2, <1>7, <1>9, <1>12, <1>13, DomainsNext
    <2>3. CASE h # i
      <3>1. inv'[h] = inv[h]
        BY <2>3, <1>9
      <3>2. PICK q : q = inv[h].request
        OBVIOUS
      <3>3. q \in 1 .. Len(signup) /\ (signup[q].status = "approved" \/ signup[q].crossed)
        BY <2>1, <3>1, <3>2, Domains DEF HandedInv
      <3>4. q \in DOMAIN signup'
        BY <3>3, <1>12, <1>13, DomainsNext
      <3>5. signup'[q].status = "approved" \/ signup'[q].crossed
        BY <3>3, <1>12
      <3> QED
        BY <3>1, <3>2, <3>4, <3>5
    <2> QED
      BY <2>2, <2>3
  <1>15. SettledKeep /\ NewcomersSettled
    BY <1>4, <1>10, <1>11, SettledSame, NoNewcomer
  <1> QED
    BY <1>4, <1>13, <1>14, <1>15, FrameStep

LEMMA rejection_writtenStep ==
    ASSUME IInv, NEW w \in Workers, rejection_written(w)
    PROVE  IInv' /\ Forward /\ UsersKeep /\ CredsKeep
  <1> USE DEF IInv
  <1>1. job[w].op = "rejecting" /\ Ends(w) /\ UNCHANGED <<clock, user, cred, row, inv, reset>>
    BY DEF rejection_written
  <1>2. PICK k \in 1 .. Len(signup) : k = job[w].k
    BY <1>1, Domains DEF JobInv, JobOK
  <1>3. Reviewed(k, "rejected")
    BY <1>2 DEF rejection_written
  <1>4. UsersKeep /\ NobodyNew /\ Forward /\ CredsKeep /\ ResetsKeep
    BY <1>1, UsersSame, RowsSame, ResetsSame DEF TypeInv
  <1>5. InvsGrow /\ StatesKeep /\ LinksKeep /\ HoldersKeep
    BY <1>1, InvsSame
  <1>6. JobsKeep /\ RedemptionsKeep
    BY <1>1, <1>5, JobEnds
  <1>7. /\ SignupsGrow /\ Len(signup') = Len(signup)
        /\ signup[k].crossed \/ signup[k].status # "pending" => signup'[k].crossed
        /\ \A q \in 1 .. Len(signup) : q # k => signup'[q] = signup[q]
    BY <1>3, RequestReviewed
  <1>8. Frame
    BY <1>4, <1>5, <1>6, <1>7 DEF Frame
  <1>9. HandedInv'
    <2>1. SUFFICES ASSUME NEW h \in 1 .. Len(inv), inv[h].handed, inv[h].request # 0
                   PROVE  /\ inv[h].request \in DOMAIN signup'
                          /\ signup'[inv[h].request].status = "approved" \/ signup'[inv[h].request].crossed
      BY <1>1, Domains DEF HandedInv
    <2>2. PICK q : q = inv[h].request
      OBVIOUS
    <2>3. q \in 1 .. Len(signup) /\ (signup[q].status = "approved" \/ signup[q].crossed)
      BY <2>1, <2>2, Domains DEF HandedInv
    <2>4. q \in DOMAIN signup'
      BY <2>3, <1>7, <1>8, DomainsNext
    <2>5. signup'[q].status = "approved" \/ signup'[q].crossed
      BY <2>3, <1>7
    <2> QED
      BY <2>2, <2>4, <2>5
  <1>10. SettledKeep /\ NewcomersSettled
    BY <1>4, <1>5, <1>6, SettledSame, NoNewcomer
  <1> QED
    BY <1>4, <1>8, <1>9, <1>10, FrameStep

-----------------------------------------------------------------------------
(* The first start and every later one.                                    *)

LEMMA InitInv ==
    ASSUME Init
    PROVE  IInv
  <1>1. /\ clock = 0 /\ cred = <<>> /\ inv = <<>> /\ reset = <<>> /\ signup = <<>>
        /\ row = [j \in 1 .. MaxCreds |-> "none"] /\ job = [w \in Workers |-> Idle]
    BY DEF Init
  <1>2. PICK u : u = User("super_admin", 0)
    OBVIOUS
  <1>3. u \in UserRow /\ Covered(u) /\ u.cutoff = 0 /\ u.by = 0
    BY <1>1, <1>2 DEF User, UserRow, Covered
  <1>4. user = [[e \in Emails |-> NoUser] EXCEPT ![Root] = u]
    BY <1>2 DEF Init, ensure_bootstrap_admin
  <1>5. user \in [Emails -> UserRow \cup {NoUser}] /\ user[Root] = u
        /\ \A e \in Emails : e # Root => user[e] = NoUser
    BY <1>3, <1>4
  <1>6. TypeInv
    BY <1>1, <1>5 DEF TypeInv, Jobs
  <1>7. UserInv
    BY <1>1, <1>3, <1>5, RowIsSomebody DEF UserInv, Exists
  <1>8. CredInv /\ ResetInv /\ HandedInv
    BY <1>1 DEF CredInv, ResetInv, HandedInv
  <1>9. JobInv
    BY <1>1 DEF JobInv, JobOK, Idle
  <1>10. AccountMeansConsumed
    BY <1>3, <1>5 DEF AccountMeansConsumed, Exists
  <1> QED
    BY <1>6, <1>7, <1>8, <1>9, <1>10 DEF IInv

\* A start switches the bootstrap account on; a redemption that it cuts off
\* is marked.
LEMMA RestartStep ==
    ASSUME IInv, Restart
    PROVE  /\ IInv' /\ UsersKeep /\ CredsKeep
           /\ \A e \in Emails : ForwardAt(e) \/ (e = Root /\ ~user[Root].active)
  <1> USE DEF IInv
  <1>1. UNCHANGED <<clock, cred, row, reset, signup>> /\ job' = [w \in Workers |-> Idle]
    BY DEF Restart
  <1>2. Exists(Root)
    BY DEF UserInv
  <1>3. user[Root] \in UserRow /\ clock \in Nat
    BY <1>2, UserShape DEF TypeInv
  <1>4. PICK force \in BOOLEAN : user' = ensure_bootstrap_admin(user, force)
    BY DEF Restart
  <1>r. PICK x : x = IF force THEN Forced(user[Root]) ELSE user[Root]
    OBVIOUS
  <1>u. PICK u : u = [x EXCEPT !.active = TRUE, !.role = "super_admin"]
    OBVIOUS
  <1>5. user' = [user EXCEPT ![Root] = u]
    BY <1>2, <1>4, <1>r, <1>u DEF ensure_bootstrap_admin, Exists
  <1>x. /\ x \in UserRow /\ x.by = user[Root].by /\ x.cutoff = user[Root].cutoff /\ Covered(x)
        /\ (x.pw = user[Root].pw /\ x.at = user[Root].at) \/ x.at = clock
    <2>1. CASE force
      <3>1. x = [user[Root] EXCEPT !.pw = user[Root].pw + 1, !.from = clock, !.at = clock, !.spared = TRUE]
        BY <1>r, <2>1 DEF Forced
      <3>2. user[Root].pw + 1 \in Nat
        BY <1>3 DEF UserRow
      <3> QED
        BY <1>3, <3>1, <3>2 DEF UserRow, Covered
    <2>2. CASE ~force
      BY <1>2, <1>3, <1>r, <2>2 DEF UserInv
    <2> QED
      BY <2>1, <2>2
  <1>6. /\ u \in UserRow /\ u.by = user[Root].by /\ u.cutoff = user[Root].cutoff /\ Covered(u)
        /\ (u.pw = user[Root].pw /\ u.at = user[Root].at) \/ u.at = clock
    BY <1>u, <1>x DEF UserRow, Covered
  <1>7. /\ Covered(user[Root]) /\ user[Root].cutoff <= clock
        /\ user[Root].cutoff <= user[Root].cutoff
    BY <1>2, <1>3 DEF UserInv, UserRow
  <1>8. /\ UsersKeep /\ NobodyNew
        /\ \A f \in Emails : f # Root => ForwardAt(f)
        /\ (u.active => user[Root].active) /\ user[Root].cutoff <= u.cutoff => Forward
    BY <1>1, <1>2, <1>5, <1>6, <1>7, UserWritten
  <1>9. \A e \in Emails : ForwardAt(e) \/ (e = Root /\ ~user[Root].active)
    BY <1>6, <1>7, <1>8 DEF Forward
  <1>10. CredsKeep /\ ResetsKeep /\ SignupsGrow /\ ReviewsKeep
    BY <1>1, <1>8, RowsSame, ResetsSame, SignupsSame
  <1>11. inv' = [i \in 1 .. Len(inv) |->
                   [inv[i] EXCEPT !.holder = NoWorker,
                                  !.cut = @ \/ \E w \in Workers : job[w].op = "redeemed" /\ job[w].i = i]]
    BY Domains DEF Restart
  <1>12. ASSUME NEW i \in 1 .. Len(inv)
         PROVE  /\ inv'[i] \in InvitationRow /\ inv'[i].email = inv[i].email
                /\ inv'[i].request = inv[i].request /\ inv'[i].handed = inv[i].handed
                /\ inv'[i].state = inv[i].state
                /\ inv[i].cut \/ (\E w \in Workers : job[w].op = "redeemed" /\ job[w].i = i) => inv'[i].cut
    <2>1. inv[i] \in InvitationRow
      BY InvShape
    <2>2. PICK c \in BOOLEAN : c = (inv[i].cut \/ \E w \in Workers : job[w].op = "redeemed" /\ job[w].i = i)
      OBVIOUS
    <2>3. inv'[i] = [inv[i] EXCEPT !.holder = NoWorker, !.cut = c]
      BY <1>11, <2>2
    <2>4. inv'[i] \in InvitationRow
      BY <2>1, <2>3 DEF InvitationRow
    <2>5. /\ inv'[i].email = inv[i].email /\ inv'[i].request = inv[i].request
          /\ inv'[i].handed = inv[i].handed /\ inv'[i].state = inv[i].state /\ inv'[i].cut = c
      BY <2>1, <2>3 DEF InvitationRow
    <2> QED
      BY <2>2, <2>4, <2>5
  <1>13. inv' \in Seq(InvitationRow) /\ Len(inv') = Len(inv) /\ Len(inv) \in Nat
    <2>1. Len(inv) \in Nat /\ inv' \in [1 .. Len(inv) -> InvitationRow]
      BY <1>11, <1>12, Domains
    <2> QED
      BY <2>1
  <1>14. InvsGrow /\ LinksKeep
    BY <1>12, <1>13 DEF InvsGrow, LinksKeep
  <1>15. JobsKeep
    <2>1. job' \in [Workers -> Jobs] /\ \A w \in Workers : job'[w] = Idle
      BY <1>1 DEF Jobs
    <2>2. \A w \in Workers : JobOK(w)'
      BY <2>1, IdleIsOK
    <2> QED
      BY <2>1, <2>2 DEF JobsKeep
  <1>16. Frame
    BY <1>8, <1>10, <1>14, <1>15 DEF Frame
  <1>17. SettledKeep
    <2> SUFFICES ASSUME NEW b \in 1 .. Len(inv), Settled(b) PROVE Settled(b)'
      BY DEF SettledKeep
    <2> QED
      BY <1>12 DEF Settled
  <1>18. HandedInv' /\ NewcomersSettled
    BY <1>8, <1>10, <1>14, <1>16, HandedStep, NoNewcomer
  <1> QED
    BY <1>8, <1>9, <1>10, <1>16, <1>17, <1>18, FrameStep

-----------------------------------------------------------------------------
(* The theorems.                                                           *)

\* The two ways in which an account can be moved back.
MovedBack(e) ==
  \/ e = Root /\ ~user[Root].active /\ Restart
  \/ \E w \in Workers : /\ reset_written(w) \/ cutoff_written(w) \/ change_own_password(w)
                      /\ job[w].now < user[e].cutoff

LEMMA NextStep ==
    ASSUME IInv, Next
    PROVE  /\ IInv' /\ UsersKeep /\ CredsKeep
           /\ \A e \in Emails : ForwardAt(e) \/ MovedBack(e)
  <1> DEFINE Kept == IInv' /\ UsersKeep /\ CredsKeep /\ \A e \in Emails : ForwardAt(e) \/ MovedBack(e)
  <1> SUFFICES Kept
    OBVIOUS
  <1>1. ASSUME Ordinary /\ Forward PROVE Kept
    BY <1>1, OrdinaryStep DEF Ordinary, Frame, Forward
  <1>2. ASSUME IInv' /\ Forward /\ UsersKeep /\ CredsKeep PROVE Kept
    BY <1>2 DEF Forward
  <1>3. CASE Second
    BY <1>1, <1>3, SecondStep
  <1>4. CASE Restart
    BY <1>4, RestartStep DEF MovedBack
  <1> HIDE DEF Kept
  <1>5. CASE SignIn
    BY <1>1, <1>5, authenticateStep, login_submitStep, loginStep, refreshStep DEF SignIn
  <1>6. CASE SignOut
    <2>1. ASSUME NEW w \in Workers, cutoff_written(w) PROVE Kept
      BY <2>1, cutoff_writtenStep, OrdinaryStep DEF Ordinary, Frame, MovedBack, Kept
    <2>2. ASSUME NEW w \in Workers, change_own_password(w) PROVE Kept
      BY <2>2, change_own_passwordStep, OrdinaryStep DEF Ordinary, Frame, MovedBack, Kept
    <2> QED
      BY <1>1, <1>6, <2>1, <2>2, logout_pageStep, logoutStep, rows_revokedStep, me_revoke_everywhereStep,
         me_passwordStep, users_submitStep
         DEF SignOut
  <1>7. CASE Resets
    <2>1. ASSUME NEW w \in Workers, reset_written(w) PROVE Kept
      BY <2>1, reset_writtenStep, OrdinaryStep DEF Ordinary, Frame, MovedBack, Kept
    <2> QED
      BY <1>1, <1>7, <2>1, forgot_passwordStep, reset_password_submitStep DEF Resets
  <1>8. CASE Invitations
    BY <1>1, <1>2, <1>8, create_invitationStep, create_userStep, invite_redeemStep, cancel_invitationsStep,
       redeem_invitationStep, bulk_cancelStep DEF Invitations
  <1>9. CASE Signups
    BY <1>1, <1>2, <1>9, signup_requestStep, create_signupStep, approve_signupStep, approval_sentStep,
       rejection_writtenStep, reject_signupStep, approve_submitStep DEF Signups
  <1> QED
    BY <1>3, <1>4, <1>5, <1>6, <1>7, <1>8, <1>9 DEF Next

\* Every state reached satisfies the invariant above, whatever the number of
\* addresses, threads, credentials and rows.
THEOREM AccountsInvariant == Spec => []IInv
  <1>1. Init => IInv
    BY InitInv
  <1>2. IInv /\ [Next]_vars => IInv'
    <2> SUFFICES ASSUME IInv, [Next]_vars PROVE IInv'
      OBVIOUS
    <2>1. CASE Next
      BY <2>1, NextStep
    <2>2. CASE UNCHANGED vars
      BY <2>2 DEF vars, IInv, TypeInv, UserInv, CredInv, CredOK, Outdated, ResetInv, JobInv, JobOK, HandedInv,
                  AccountMeansConsumed, Exists
    <2> QED
      BY <2>1, <2>2
  <1> QED
    BY <1>1, <1>2, PTL DEF Spec

\* An account made by an invitation leaves it consumed, except while the
\* redemption runs, when the hub died in it, or when a cancellation that had
\* read the row before deleted it (invitations.py).
THEOREM RedeemedIsConsumed == Spec => []AccountMeansConsumed
  <1>1. IInv => AccountMeansConsumed
    BY DEF IInv
  <1> QED
    BY <1>1, AccountsInvariant, PTL

\* The link of a rejected request is handed to nobody, unless two reviews had
\* both read the request as pending (signup_requests.py).
THEOREM RejectionHolds == Spec => []RejectedNeverJoins
  <1>1. IInv => RejectedNeverJoins
    <2> SUFFICES ASSUME IInv, NEW k \in DOMAIN signup, signup[k].status = "rejected", ~signup[k].crossed,
                        NEW i \in DOMAIN inv, inv[i].request = k, inv[i].handed
                 PROVE  FALSE
      BY DEF RejectedNeverJoins
    <2>1. k # 0
      BY Domains DEF IInv
    <2>2. signup[k].status = "approved" \/ signup[k].crossed
      BY <2>1 DEF IInv, HandedInv
    <2> QED
      BY <2>2
  <1> QED
    BY <1>1, AccountsInvariant, PTL

\* A credential of an earlier password is refused, even while the session table
\* cannot be read, but for one issued while the change was in progress, by a
\* refresh token, or by a sign-in that had verified the password before the
\* change (auth.py, password_resets.py), and but for a password that a start
\* forced or whose cutoff an overlapping revocation moved back (bootstrap.py,
\* users.py).
THEOREM PasswordChangeEnds == Spec => []OldPasswordEnds
  <1>1. IInv => OldPasswordEnds
    <2> SUFFICES ASSUME IInv, NEW n \in DOMAIN cred, _resolve_user(cred[n], FALSE),
                        cred[n].pw # user[cred[n].user].pw, cred[n].via \notin {"refresh", "late_login"},
                        ~user[cred[n].user].spared
                 PROVE  cred[n].iat \in user[cred[n].user].from .. user[cred[n].user].at
      BY DEF OldPasswordEnds
    <2>1. PICK e \in Emails : e = cred[n].user
      BY CredShape DEF IInv
    <2>2. Exists(e) /\ ~(cred[n].iat < user[e].cutoff)
      BY <2>1 DEF _resolve_user, _resolve_user_and_iat, Fresh
    <2>3. user[e] \in UserRow
      BY <2>2, UserShape DEF IInv
    <2>4. user[e].from \in Nat /\ user[e].cutoff \in Nat /\ user[e].at \in Nat /\ cred[n].iat \in Nat
      BY <2>3, CredShape DEF UserRow, IInv
    <2>5. user[e].from <= user[e].cutoff
      BY <2>1, <2>2 DEF IInv, UserInv, Covered
    <2>6. cred[n].via = "login"
      BY CredShape DEF IInv, CredentialRow
    <2>7. cred[n].iat <= user[e].at
      BY <2>1, <2>6 DEF IInv, CredInv, CredOK, Outdated
    <2> QED
      BY <2>1, <2>2, <2>4, <2>5, <2>7
  <1> QED
    BY <1>1, AccountsInvariant, PTL

\* A credential that is accepted after a step that moves nothing back was
\* accepted before it.
LEMMA NoRevival ==
    ASSUME TypeInv, CredInv, UsersKeep, CredsKeep, NEW n \in DOMAIN cred, NEW up \in BOOLEAN,
           ForwardAt(cred[n].user), _resolve_user(cred[n], up)'
    PROVE  _resolve_user(cred[n], up)
  <1>1. PICK c \in CredentialRow : c = cred[n]
    BY CredShape
  <1>2. cred'[n] = c
    BY <1>1, Domains DEF CredsKeep
  <1>3. c.user \in Emails /\ c.sid \in Nat /\ c.iat \in Nat
    BY DEF CredentialRow
  <1>4. Exists(c.user) /\ c.sid <= Len(cred)
    BY <1>1 DEF CredInv, CredOK
  <1>5. /\ c.kind = "cookie" \/ (c.kind = "access" /\ clock' < c.iat + TTL)
        /\ ~(up /\ c.sid # 0 /\ row'[c.sid] = "revoked")
        /\ user'[c.user].active /\ ~(c.iat < user'[c.user].cutoff)
    BY <1>2 DEF _resolve_user, _resolve_user_and_iat, decode_token, _is_jti_revoked, Fresh
  <1>6. clock \in Nat /\ clock' \in Nat /\ clock <= clock' /\ TTL \in Nat
    BY DEF UsersKeep, TypeInv
  <1>7. c.kind = "cookie" \/ (c.kind = "access" /\ clock < c.iat + TTL)
    BY <1>3, <1>5, <1>6
  <1>8. ~(up /\ c.sid # 0 /\ row[c.sid] = "revoked")
    <2> SUFFICES ASSUME up, c.sid # 0, row[c.sid] = "revoked" PROVE FALSE
      OBVIOUS
    <2>1. c.sid \in 1 .. Len(cred)
      BY <1>3, <1>4, Domains
    <2>2. row'[c.sid] = "revoked"
      BY <2>1 DEF CredsKeep
    <2> QED
      BY <2>2, <1>5
  <1>9. user[c.user].active /\ user[c.user].cutoff <= user'[c.user].cutoff
    BY <1>1, <1>4, <1>5 DEF ForwardAt
  <1>10. user[c.user].cutoff \in Nat /\ user'[c.user].cutoff \in Nat
    <2>1. user'[c.user] \in UserRow /\ user[c.user] \in UserRow
      BY <1>3, <1>4, UserShape DEF UsersKeep
    <2> QED
      BY <2>1 DEF UserRow
  <1>11. ~(c.iat < user[c.user].cutoff)
    BY <1>3, <1>5, <1>9, <1>10
  <1> QED
    BY <1>1, <1>4, <1>7, <1>8, <1>9, <1>11
       DEF _resolve_user, _resolve_user_and_iat, decode_token, _is_jti_revoked, Fresh

\* What was refused stays refused, with the session table readable or not, but
\* for a change of the account begun before the cutoff in force and written
\* after it, and a start of the hub on a deactivated bootstrap account
\* (users.py, password_resets.py, bootstrap.py).
THEOREM RefusalIsFinal == Spec => EndedStaysEnded
  <1>1. IInv /\ [Next]_vars =>
          [\A n \in DOMAIN cred, up \in BOOLEAN :
             ~_resolve_user(cred[n], up) /\ _resolve_user(cred[n], up)' =>
               \/ cred[n].user = Root /\ ~user[Root].active /\ Restart
               \/ \E w \in Workers : /\ reset_written(w) \/ cutoff_written(w) \/ change_own_password(w)
                                   /\ job[w].now < user[cred[n].user].cutoff]_vars
    <2> SUFFICES ASSUME IInv, Next, NEW n \in DOMAIN cred, NEW up \in BOOLEAN,
                        ~_resolve_user(cred[n], up), _resolve_user(cred[n], up)'
                 PROVE  MovedBack(cred[n].user)
      BY DEF MovedBack
    <2>1. UsersKeep /\ CredsKeep /\ \A e \in Emails : ForwardAt(e) \/ MovedBack(e)
      BY NextStep
    <2>2. cred[n].user \in Emails
      BY CredShape DEF IInv
    <2>3. ~ForwardAt(cred[n].user)
      BY <2>1, NoRevival DEF IInv
    <2> QED
      BY <2>1, <2>2, <2>3
  <1> QED
    BY <1>1, AccountsInvariant, PTL DEF Spec, EndedStaysEnded

=============================================================================
