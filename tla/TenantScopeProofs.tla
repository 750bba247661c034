-------------------------- MODULE TenantScopeProofs ---------------------------
(***************************************************************************)
(* The organization boundary for every number of organizations, accounts,  *)
(* sites and threads: once isolation is in force, a request touches its    *)
(* own organizations' rows only, and a decision that differs from the      *)
(* setting was begun before the toggle had to be known.                    *)
(*                                                                         *)
(* The argument.  A thread that serves nobody has no scope, so a request   *)
(* never inherits one, and the scope it has is one of its principal's      *)
(* organizations (ScopeOf).   A cached value that differs from the setting *)
(* expires within TTL of the toggle (CacheInv), and so does a copy of it   *)
(* that a lookup in progress holds (LookOf):  a decision that is sure to   *)
(* be taken under enforcement is "enforce", and the filter then lets       *)
(* through the rows of the scope alone.                                    *)
(***************************************************************************)
EXTENDS TenantScope, TLAPS

Columns == Orgs \cup {NoOrg, NoRow}
Scopes == Sites \cup {"global"}
Grantee == [user: Users, scope: Scopes]
Binding == [org: Orgs, user: Users, scope: Scopes]
Look == [now: Nat, val: Modes \cup {NoOrg}, exp: Int, odd: BOOLEAN, sure: BOOLEAN]

Hooks == {"select", "insert", "update"}
Names == {"bindings", "sites", "create_site", "delete_site", "grant", "regrant", "new_binding",
          "mint", "revoke", "revoked", "default_site", "audit"}
Args == Users \cup Sites \cup Orgs \cup {NoOrg} \cup Grantee
Statements == [hook: Hooks, name: Names, arg: Args]

\* What a request under scope `org` may still have to run.  A flush carries
\* the organization of a row; only an unscoped request resolves the default
\* site.
Legal(org) ==
  {s \in Statements :
     /\ s.name \in {"regrant", "revoked"} => s.arg \in Orgs
     /\ s.name \in {"grant", "new_binding"} => s.arg \in Grantee
     /\ s.name = "default_site" => org = NoOrg}

Requests(org) ==
  [user: Users \cup {NoOrg}, own: SUBSET Columns, todo: Seq(Legal(org)), touched: SUBSET Columns,
   at: {"run", "looked", "got", "decided"}, look: Look, scope: SUBSET Scopes, failed: BOOLEAN]

\* The tables, the toggle and the clock.
TablesInv ==
  /\ member \in [Users -> SUBSET Orgs]
  /\ site \in [Sites -> Columns]
  /\ binding \in SUBSET Binding
  /\ token \in [org: Orgs \cup {NoOrg}, live: BOOLEAN]
  /\ token.org = NoOrg => ~token.live

ToggleInv ==
  /\ clock \in Nat /\ since \in Int /\ since <= clock
  /\ setting \in Modes
  /\ cache \in [val: Modes \cup {NoOrg}, exp: Int]

\* A value read from the cache, with its expiry.
Expires(val, exp) ==
  /\ exp <= clock + TTL
  /\ val \notin {NoOrg, setting} => exp <= since + TTL

CacheInv == Expires(cache.val, cache.exp)

\* The request a thread serves is well formed.
KindOf(t) == req[t] = Idle \/ req[t] \in Requests(ctx[t])

\* A thread that serves nobody has no scope; a request's scope is its own.
ScopeOf(t) ==
  /\ req[t] = Idle => ctx[t] = NoOrg
  /\ req[t] # Idle => ctx[t] = NoOrg \/ ctx[t] \in req[t].own

\* The lookup of the mode a request is in, and its outcome.
LookOf(t) ==
  LET l == req[t].look IN
  req[t] # Idle =>
    /\ req[t].at = "run" => ~l.sure
    /\ req[t].at # "run" => ctx[t] # NoOrg /\ l.now <= clock
    /\ req[t].at = "looked" => ~l.odd /\ Expires(l.val, l.exp)
    /\ req[t].at = "got" => ~l.odd /\ l.val \in Modes /\ (l.val # setting => l.now <= since)
    /\ req[t].at = "decided" /\ l.sure => l.val = "enforce"

OwnRows(t) == req[t].touched \subseteq req[t].own

ThreadInv(t) == KindOf(t) /\ ScopeOf(t) /\ LookOf(t) /\ OwnRows(t)

ThreadsInv ==
  /\ ctx \in [Threads -> Orgs \cup {NoOrg}]
  /\ DOMAIN req = Threads
  /\ \A t \in Threads : ThreadInv(t)

\* OnlyOwnRows with what makes it inductive.
IInv == TablesInv /\ ToggleInv /\ CacheInv /\ ThreadsInv

-----------------------------------------------------------------------------
(* One thread moves, the others do not.                                    *)

Still == UNCHANGED <<clock, setting, since>>

LEMMA OtherThread ==
    ASSUME NEW u \in Threads, ThreadInv(u), Still, req'[u] = req[u], ctx'[u] = ctx[u]
    PROVE  ThreadInv(u)'
  BY DEF ThreadInv, KindOf, ScopeOf, LookOf, OwnRows, Still, Expires

LEMMA OneThread ==
    ASSUME ThreadsInv, NEW t \in Threads, Still,
           DOMAIN req' = Threads, \A u \in Threads \ {t} : req'[u] = req[u],
           ctx' \in [Threads -> Orgs \cup {NoOrg}], \A u \in Threads \ {t} : ctx'[u] = ctx[u],
           ThreadInv(t)'
    PROVE  ThreadsInv'
  <1>1. ASSUME NEW u \in Threads PROVE ThreadInv(u)'
    <2>1. CASE u = t BY <2>1
    <2>2. CASE u # t BY <2>2, OtherThread DEF ThreadsInv
    <2>3. QED BY <2>1, <2>2
  <1>2. QED BY <1>1 DEF ThreadsInv

\* A statement is done: it touched `orgs`, and `more` is left to run.
LEMMA ProceedsStep ==
    ASSUME ThreadsInv, NEW t \in Threads, req[t] # Idle, Still, UNCHANGED ctx,
           NEW orgs \in SUBSET Columns, NEW sure \in BOOLEAN, sure => orgs \subseteq req[t].own,
           NEW more \in Seq(Legal(ctx[t])), Proceeds(t, orgs, sure, more)
    PROVE  ThreadsInv'
  <1>1. req[t] \in Requests(ctx[t]) /\ ThreadInv(t)
    BY DEF ThreadsInv, ThreadInv, KindOf
  <1>2. /\ DOMAIN req' = Threads /\ \A u \in Threads \ {t} : req'[u] = req[u]
        /\ req'[t] = [req[t] EXCEPT !.at = "run", !.todo = more, !.look = Undecided, !.scope = {},
                        !.touched = @ \cup IF sure THEN orgs ELSE {}]
    BY DEF ThreadsInv, Proceeds
  <1>3. Undecided \in Look /\ ~Undecided.sure
    BY DEF Undecided, Look
  <1>t. PICK all \in SUBSET Columns : all = req[t].touched \cup IF sure THEN orgs ELSE {}
    <2>1. req[t].touched \in SUBSET Columns BY <1>1 DEF Requests
    <2>2. (req[t].touched \cup IF sure THEN orgs ELSE {}) \in SUBSET Columns BY <2>1
    <2>3. QED BY <2>2
  <1>r. req'[t] = [req[t] EXCEPT !.at = "run", !.todo = more, !.look = Undecided, !.scope = {}, !.touched = all]
    BY <1>2, <1>t
  <1>4. /\ req'[t] \in Requests(ctx[t]) /\ req'[t].at = "run" /\ req'[t].look = Undecided
        /\ req'[t].own = req[t].own /\ req'[t].touched = req[t].touched \cup IF sure THEN orgs ELSE {}
    BY <1>1, <1>r, <1>3, <1>t DEF Requests
  <1>5. req'[t] # Idle
    BY <1>4 DEF Idle
  <1>6. ThreadInv(t)'
    BY <1>1, <1>3, <1>4, <1>5 DEF ThreadInv, KindOf, ScopeOf, LookOf, OwnRows
  <1>7. QED BY <1>2, <1>6, OneThread DEF ThreadsInv

\* The view raises.
LEMMA RaisesStep ==
    ASSUME ThreadsInv, NEW t \in Threads, req[t] # Idle, Still, UNCHANGED ctx, Raises(t)
    PROVE  ThreadsInv'
  <1>1. req[t] \in Requests(ctx[t]) /\ ThreadInv(t)
    BY DEF ThreadsInv, ThreadInv, KindOf
  <1>2. /\ DOMAIN req' = Threads /\ \A u \in Threads \ {t} : req'[u] = req[u]
        /\ req'[t] = [req[t] EXCEPT !.at = "run", !.todo = <<>>, !.look = Undecided, !.failed = TRUE]
    BY DEF ThreadsInv, Raises
  <1>3. Undecided \in Look /\ ~Undecided.sure /\ <<>> \in Seq(Legal(ctx[t]))
    BY DEF Undecided, Look
  <1>4. /\ req'[t] \in Requests(ctx[t]) /\ req'[t].at = "run" /\ req'[t].look = Undecided
        /\ req'[t].own = req[t].own /\ req'[t].touched = req[t].touched
    BY <1>1, <1>2, <1>3 DEF Requests
  <1>5. req'[t] # Idle
    BY <1>4 DEF Idle
  <1>6. ThreadInv(t)'
    BY <1>1, <1>3, <1>4, <1>5 DEF ThreadInv, KindOf, ScopeOf, LookOf, OwnRows
  <1>7. QED BY <1>2, <1>6, OneThread DEF ThreadsInv

-----------------------------------------------------------------------------
(* Statements.                                                             *)

LEMMA TablesKept ==
    ASSUME TablesInv, UNCHANGED <<member, site, binding, token>>
    PROVE  TablesInv'
  BY DEF TablesInv

LEMMA ToggleKept ==
    ASSUME ToggleInv, CacheInv, UNCHANGED <<clock, setting, since, cache>>
    PROVE  ToggleInv' /\ CacheInv' /\ Still
  BY DEF ToggleInv, CacheInv, Expires, Still

LEMMA Lawful ==
    ASSUME NEW org, NEW hook \in Hooks, NEW name \in Names, NEW arg \in Args,
           name \in {"regrant", "revoked"} => arg \in Orgs,
           name \in {"grant", "new_binding"} => arg \in Grantee,
           name = "default_site" => org = NoOrg
    PROVE  Stmt(hook, name, arg) \in Legal(org) /\ <<Stmt(hook, name, arg)>> \in Seq(Legal(org))
  <1>1. Stmt(hook, name, arg) \in Statements
    BY DEF Stmt, Statements
  <1>2. Stmt(hook, name, arg).name = name /\ Stmt(hook, name, arg).arg = arg
    BY DEF Stmt
  <1>3. Stmt(hook, name, arg) \in Legal(org)
    BY <1>1, <1>2 DEF Legal
  <1>4. QED BY <1>3

LEMMA HeadAndTail ==
    ASSUME NEW S, NEW q \in Seq(S), q # <<>>
    PROVE  Head(q) \in S /\ Tail(q) \in Seq(S)
  OBVIOUS

\* What holds when a statement runs.  If the isolation is sure to be in force,
\* what passes the filter is the request's own.
LEMMA AtStatement ==
    ASSUME ThreadsInv, NEW t \in Threads, NEW name, Ready(t, name)
    PROVE  /\ req[t] # Idle /\ req[t] \in Requests(ctx[t])
           /\ Head(req[t].todo) \in Legal(ctx[t]) /\ Head(req[t].todo).name = name
           /\ Rest(t) \in Seq(Legal(ctx[t]))
           /\ req[t].look.sure \in BOOLEAN
           /\ Scoped(t) => ctx[t] \in req[t].own \cap Orgs
           /\ \A org : req[t].look.sure /\ _add_tenant_filter(t, org) => org \in req[t].own
  <1>1. req[t] # Idle
    BY DEF Ready, Idle
  <1>2. req[t] \in Requests(ctx[t]) /\ ThreadInv(t)
    BY <1>1 DEF ThreadsInv, ThreadInv, KindOf
  <1>3. req[t].todo \in Seq(Legal(ctx[t])) /\ req[t].todo # <<>> /\ req[t].look \in Look
    BY <1>2 DEF Requests, Ready
  <1>4. Head(req[t].todo) \in Legal(ctx[t]) /\ Rest(t) \in Seq(Legal(ctx[t]))
    BY <1>3, HeadAndTail DEF Rest
  <1>5. Scoped(t) => ctx[t] \in req[t].own \cap Orgs
    BY <1>1, <1>2 DEF ThreadsInv, ThreadInv, ScopeOf, Scoped
  <1>6. req[t].look.sure => Scoped(t) /\ req[t].look.val = "enforce"
    BY <1>1, <1>2 DEF ThreadInv, LookOf, Ready, Scoped
  <1>7. ASSUME NEW org, req[t].look.sure, _add_tenant_filter(t, org) PROVE org \in req[t].own
    BY <1>5, <1>6, <1>7 DEF _add_tenant_filter
  <1>8. QED BY <1>1, <1>2, <1>3, <1>4, <1>5, <1>7 DEF Ready, Look

LEMMA BindingsRead ==
    ASSUME IInv, NEW t \in Threads, effective_site_ids(t)
    PROVE  IInv'
  <1> DEFINE seen == {b \in binding : b.user = req[t].user /\ _add_tenant_filter(t, b.org)}
             sure == req[t].look.sure
             orgs == {b.org : b \in seen}
             all == rbac = "shadow" \/ \E b \in seen : b.scope = "global"
             scope == IF all THEN Sites ELSE {b.scope : b \in seen}
  <1>1. Ready(t, "bindings") /\ UNCHANGED <<ctx, member, site, binding, token, clock, setting, since, cache>>
    BY DEF effective_site_ids, tables, toggles
  <1>2. ThreadsInv /\ TablesInv /\ ToggleInv /\ CacheInv
    BY DEF IInv
  <1>3. /\ req[t] # Idle /\ req[t] \in Requests(ctx[t]) /\ Rest(t) \in Seq(Legal(ctx[t]))
        /\ sure \in BOOLEAN /\ (sure => orgs \subseteq req[t].own)
    BY <1>1, <1>2, AtStatement
  <1>4. orgs \in SUBSET Columns /\ scope \in SUBSET Scopes
    BY <1>2 DEF TablesInv, Binding, Columns, Scopes
  <1>5. Still /\ ThreadInv(t)
    BY <1>1, <1>2, ToggleKept DEF ThreadsInv
  <1>6. /\ DOMAIN req' = Threads /\ \A u \in Threads \ {t} : req'[u] = req[u]
        /\ req'[t] = [req[t] EXCEPT !.at = "run", !.todo = Rest(t), !.look = Undecided, !.scope = scope,
                        !.touched = @ \cup IF sure THEN orgs ELSE {}]
    BY <1>2 DEF ThreadsInv, effective_site_ids
  <1>7. Undecided \in Look /\ ~Undecided.sure
    BY DEF Undecided, Look
  <1> HIDE DEF seen, sure, orgs, all, scope
  <1>t. PICK new \in SUBSET Columns : new = req[t].touched \cup IF sure THEN orgs ELSE {}
    <2>1. req[t].touched \in SUBSET Columns BY <1>3 DEF Requests
    <2>2. (req[t].touched \cup IF sure THEN orgs ELSE {}) \in SUBSET Columns BY <2>1, <1>4
    <2>3. QED BY <2>2
  <1>r. req'[t] = [req[t] EXCEPT !.at = "run", !.todo = Rest(t), !.look = Undecided, !.scope = scope, !.touched = new]
    BY <1>6, <1>t
  <1>8. /\ req'[t] \in Requests(ctx[t]) /\ req'[t].at = "run" /\ req'[t].look = Undecided
        /\ req'[t].own = req[t].own /\ req'[t].touched = new
    BY <1>3, <1>4, <1>r, <1>7 DEF Requests
  <1>9. req'[t] # Idle
    BY <1>8 DEF Idle
  <1>10. new \subseteq req[t].own
    BY <1>t, <1>3, <1>5 DEF ThreadInv, OwnRows
  <1>11. ThreadInv(t)'
    BY <1>1, <1>3, <1>5, <1>7, <1>8, <1>9, <1>10 DEF ThreadInv, KindOf, ScopeOf, LookOf, OwnRows
  <1>12. ThreadsInv'
    BY <1>1, <1>2, <1>5, <1>6, <1>11, OneThread DEF ThreadsInv
  <1>13. QED BY <1>1, <1>2, <1>12, TablesKept, ToggleKept DEF IInv

\* A statement that changes no table, with what it touched.
LEMMA ReadOnly ==
    ASSUME IInv, NEW t \in Threads, NEW name, Ready(t, name),
           UNCHANGED <<ctx, member, site, binding, token, clock, setting, since, cache>>,
           NEW orgs \in SUBSET Columns, NEW sure \in BOOLEAN, sure => orgs \subseteq req[t].own,
           NEW more \in Seq(Legal(ctx[t])), Proceeds(t, orgs, sure, more)
    PROVE  IInv'
  <1>1. ThreadsInv /\ TablesInv /\ ToggleInv /\ CacheInv
    BY DEF IInv
  <1>2. req[t] # Idle /\ Still
    BY <1>1, AtStatement, ToggleKept
  <1>3. ThreadsInv'
    BY <1>1, <1>2, ProceedsStep
  <1>4. QED BY <1>1, <1>3, TablesKept, ToggleKept DEF IInv

LEMMA SitesRead ==
    ASSUME IInv, NEW t \in Threads, filter_sites_with_shadow_logging(t)
    PROVE  IInv'
  <1> DEFINE orgs == {site[s] : s \in {x \in Existing \cap req[t].scope : _add_tenant_filter(t, site[x])}}
             sure == req[t].look.sure
  <1>1. /\ Ready(t, "sites") /\ UNCHANGED <<ctx, member, site, binding, token, clock, setting, since, cache>>
        /\ Proceeds(t, orgs, sure, Rest(t))
    BY DEF filter_sites_with_shadow_logging, tables, toggles
  <1>2. Rest(t) \in Seq(Legal(ctx[t])) /\ sure \in BOOLEAN /\ (sure => orgs \subseteq req[t].own)
    BY <1>1, AtStatement DEF IInv
  <1>3. orgs \in SUBSET Columns
    BY DEF IInv, TablesInv, Existing
  <1> HIDE DEF orgs, sure
  <1>4. QED BY <1>1, <1>2, <1>3, ReadOnly

LEMMA Recorded ==
    ASSUME IInv, NEW t \in Threads, record(t)
    PROVE  IInv'
  <1>1. /\ Ready(t, "audit") /\ UNCHANGED <<ctx, member, site, binding, token, clock, setting, since, cache>>
        /\ Proceeds(t, {ctx[t]} \ {NoOrg}, TRUE, Rest(t))
    BY DEF record, tables, toggles
  <1>2. Rest(t) \in Seq(Legal(ctx[t])) /\ {ctx[t]} \ {NoOrg} \subseteq req[t].own
    BY <1>1, AtStatement DEF IInv, Scoped
  <1>3. {ctx[t]} \ {NoOrg} \in SUBSET Columns
    BY DEF IInv, ThreadsInv, Columns
  <1>4. QED BY <1>1, <1>2, <1>3, ReadOnly

LEMMA Granted ==
    ASSUME IInv, NEW t \in Threads, grant(t)
    PROVE  IInv'
  <1> DEFINE mine == {b \in binding : b.user = Arg(t).user /\ b.scope = Arg(t).scope /\ _add_tenant_filter(t, b.org)}
  <1>1. Ready(t, "grant") /\ UNCHANGED <<ctx, member, site, binding, token, clock, setting, since, cache>>
    BY DEF grant, tables, toggles
  <1>2. /\ req[t].look.sure \in BOOLEAN /\ Arg(t) \in Grantee
        /\ \A org : req[t].look.sure /\ _add_tenant_filter(t, org) => org \in req[t].own
    BY <1>1, AtStatement DEF IInv, Arg, Legal
  <1>3. ASSUME NEW b \in mine, Proceeds(t, {b.org}, req[t].look.sure, <<Stmt("update", "regrant", b.org)>>)
        PROVE  IInv'
    <2>1. b.org \in Orgs BY <1>3 DEF IInv, TablesInv, Binding
    <2>3. <<Stmt("update", "regrant", b.org)>> \in Seq(Legal(ctx[t]))
      BY <2>1, Lawful DEF Hooks, Names, Args
    <2>4. {b.org} \in SUBSET Columns /\ (req[t].look.sure => {b.org} \subseteq req[t].own)
      BY <2>1, <1>2, <1>3 DEF Columns
    <2>5. QED BY <1>1, <1>2, <1>3, <2>3, <2>4, ReadOnly
  <1>4. ASSUME Proceeds(t, {}, FALSE, <<Stmt("insert", "new_binding", Arg(t))>>)
        PROVE  IInv'
    <2>2. <<Stmt("insert", "new_binding", Arg(t))>> \in Seq(Legal(ctx[t]))
      BY <1>2, Lawful DEF Hooks, Names, Args
    <2>3. QED BY <1>1, <1>4, <2>2, ReadOnly
  <1>5. QED BY <1>3, <1>4 DEF grant

LEMMA Revoked ==
    ASSUME IInv, NEW t \in Threads, revoke(t)
    PROVE  IInv'
  <1>1. Ready(t, "revoke") /\ UNCHANGED <<ctx, member, site, binding, token, clock, setting, since, cache>>
    BY DEF revoke, tables, toggles
  <1>2. /\ req[t].look.sure \in BOOLEAN /\ Rest(t) \in Seq(Legal(ctx[t]))
        /\ \A org : req[t].look.sure /\ _add_tenant_filter(t, org) => org \in req[t].own
    BY <1>1, AtStatement DEF IInv
  <1>3. CASE token # NoToken /\ _add_tenant_filter(t, token.org)
    <2>1. token.org \in Orgs BY <1>3 DEF IInv, TablesInv, NoToken
    <2>3. <<Stmt("update", "revoked", token.org)>> \in Seq(Legal(ctx[t]))
      BY <2>1, Lawful DEF Hooks, Names, Args
    <2>4. {token.org} \in SUBSET Columns /\ (req[t].look.sure => {token.org} \subseteq req[t].own)
      BY <2>1, <1>2, <1>3 DEF Columns
    <2>5. Proceeds(t, {token.org}, req[t].look.sure, <<Stmt("update", "revoked", token.org)>>)
      BY <1>3 DEF revoke
    <2>6. QED BY <1>1, <1>2, <2>3, <2>4, <2>5, ReadOnly
  <1>4. CASE ~(token # NoToken /\ _add_tenant_filter(t, token.org))
    <2>1. Proceeds(t, {}, FALSE, Rest(t)) BY <1>4 DEF revoke
    <2>2. QED BY <1>1, <1>2, <2>1, ReadOnly
  <1>5. QED BY <1>3, <1>4

\* A statement that writes a table.
LEMMA Writes ==
    ASSUME IInv, NEW t \in Threads, NEW name, Ready(t, name),
           UNCHANGED <<ctx, clock, setting, since, cache>>, TablesInv',
           NEW orgs \in SUBSET Columns, NEW sure \in BOOLEAN, sure => orgs \subseteq req[t].own,
           Proceeds(t, orgs, sure, Rest(t))
    PROVE  IInv'
  <1>1. ThreadsInv /\ ToggleInv /\ CacheInv
    BY DEF IInv
  <1>2. req[t] # Idle /\ Still /\ Rest(t) \in Seq(Legal(ctx[t]))
    BY <1>1, AtStatement, ToggleKept
  <1>3. ThreadsInv'
    BY <1>1, <1>2, ProceedsStep
  <1>4. QED BY <1>1, <1>3, ToggleKept DEF IInv

LEMMA Refused ==
    ASSUME IInv, NEW t \in Threads, req[t] # Idle, Raises(t),
           UNCHANGED <<ctx, member, site, binding, token, clock, setting, since, cache>>
    PROVE  IInv'
  <1>1. ThreadsInv /\ TablesInv /\ ToggleInv /\ CacheInv
    BY DEF IInv
  <1>2. ThreadsInv'
    BY <1>1, ToggleKept, RaisesStep
  <1>3. QED BY <1>1, <1>2, TablesKept, ToggleKept DEF IInv

LEMMA SiteCreated ==
    ASSUME IInv, NEW t \in Threads, create_site(t)
    PROVE  IInv'
  <1>1. Ready(t, "create_site") /\ UNCHANGED <<ctx, member, binding, token, clock, setting, since, cache>>
    BY DEF create_site, toggles
  <1>2. req[t] # Idle /\ (Scoped(t) => ctx[t] \in req[t].own \cap Orgs)
    BY <1>1, AtStatement DEF IInv
  <1>3. CASE Scoped(t) /\ site[Arg(t)] = NoRow
    <2>1. site' = [site EXCEPT ![Arg(t)] = ctx[t]] /\ Proceeds(t, {ctx[t]}, TRUE, Rest(t))
      BY <1>3 DEF create_site
    <2>2. TablesInv'
      BY <1>1, <1>2, <1>3, <2>1 DEF IInv, TablesInv, Columns
    <2>3. {ctx[t]} \in SUBSET Columns /\ {ctx[t]} \subseteq req[t].own
      BY <1>2, <1>3 DEF Columns
    <2>4. QED BY <1>1, <2>1, <2>2, <2>3, Writes
  <1>4. CASE ~(Scoped(t) /\ site[Arg(t)] = NoRow)
    BY <1>1, <1>2, <1>4, Refused DEF create_site
  <1>5. QED BY <1>3, <1>4

LEMMA SiteDeleted ==
    ASSUME IInv, NEW t \in Threads, delete_site(t)
    PROVE  IInv'
  <1> DEFINE s == Arg(t)
  <1>1. Ready(t, "delete_site") /\ UNCHANGED <<ctx, member, binding, token, clock, setting, since, cache>>
    BY DEF delete_site, toggles
  <1>2. /\ req[t] # Idle /\ req[t].look.sure \in BOOLEAN /\ Rest(t) \in Seq(Legal(ctx[t]))
        /\ \A org : req[t].look.sure /\ _add_tenant_filter(t, org) => org \in req[t].own
    BY <1>1, AtStatement DEF IInv
  <1>3. CASE s \notin Existing \/ ~_add_tenant_filter(t, site[s])
    <2>1. Proceeds(t, {}, FALSE, Rest(t)) /\ UNCHANGED site BY <1>3 DEF delete_site
    <2>2. QED BY <1>1, <1>2, <2>1, ReadOnly
  <1>4. CASE s \in Existing /\ _add_tenant_filter(t, site[s]) /\ device = s
    <2>1. Raises(t) /\ UNCHANGED site BY <1>4 DEF delete_site
    <2>2. QED BY <1>1, <1>2, <2>1, Refused
  <1>5. CASE s \in Existing /\ _add_tenant_filter(t, site[s]) /\ device # s
    <2>1. Proceeds(t, {site[s]}, req[t].look.sure, Rest(t)) /\ site' = [site EXCEPT ![s] = NoRow]
      BY <1>5 DEF delete_site
    <2>2. TablesInv' /\ site[s] \in Columns
      BY <1>1, <1>5, <2>1 DEF IInv, TablesInv, Columns, Existing
    <2>3. {site[s]} \in SUBSET Columns /\ (req[t].look.sure => {site[s]} \subseteq req[t].own)
      BY <1>2, <1>5, <2>2
    <2>4. QED BY <1>1, <1>2, <2>1, <2>2, <2>3, Writes
  <1>6. QED BY <1>3, <1>4, <1>5

LEMMA BindingInserted ==
    ASSUME IInv, NEW t \in Threads, new_binding(t)
    PROVE  IInv'
  <1> DEFINE b == [org |-> ctx[t], user |-> Arg(t).user, scope |-> Arg(t).scope]
  <1>1. Ready(t, "new_binding") /\ UNCHANGED <<ctx, member, site, token, clock, setting, since, cache>>
    BY DEF new_binding, toggles
  <1>2. req[t] # Idle /\ Arg(t) \in Grantee /\ (Scoped(t) => ctx[t] \in req[t].own \cap Orgs)
    BY <1>1, AtStatement DEF IInv, Arg, Legal
  <1>3. CASE Scoped(t) /\ (b \notin binding \/ b.scope = "global")
    <2>1. binding' = binding \cup {b} /\ Proceeds(t, {ctx[t]}, TRUE, Rest(t))
      BY <1>3 DEF new_binding
    <2>2. b \in Binding
      BY <1>2, <1>3 DEF Binding, Grantee
    <2>3. TablesInv'
      BY <1>1, <2>1, <2>2 DEF IInv, TablesInv
    <2>4. {ctx[t]} \in SUBSET Columns /\ {ctx[t]} \subseteq req[t].own
      BY <1>2, <1>3 DEF Columns
    <2>5. QED BY <1>1, <2>1, <2>3, <2>4, Writes
  <1>4. CASE ~(Scoped(t) /\ (b \notin binding \/ b.scope = "global"))
    BY <1>1, <1>2, <1>4, Refused DEF new_binding
  <1>5. QED BY <1>3, <1>4

LEMMA Flushed ==
    ASSUME IInv, NEW t \in Threads, NEW name \in {"regrant", "revoked"}, flush_update(t, name)
    PROVE  IInv'
  <1>1. Ready(t, name) /\ UNCHANGED <<ctx, member, site, binding, clock, setting, since, cache>>
    BY DEF flush_update, toggles
  <1>2. /\ req[t] # Idle /\ Arg(t) \in Orgs /\ req[t].look.sure \in BOOLEAN
        /\ \A org : req[t].look.sure /\ _add_tenant_filter(t, org) => org \in req[t].own
    BY <1>1, AtStatement DEF IInv, Arg, Legal
  <1>3. CASE _guard_one(t, Arg(t))
    <2>1. Proceeds(t, {Arg(t)}, req[t].look.sure, Rest(t)) /\ token' \in {token, [token EXCEPT !.live = FALSE]}
      BY <1>3 DEF flush_update
    <2>2. TablesInv'
      BY <1>1, <2>1 DEF IInv, TablesInv
    <2>3. _add_tenant_filter(t, Arg(t))
      BY <1>2, <1>3, TenantAssumption DEF _guard_one, _add_tenant_filter
    <2>4. {Arg(t)} \in SUBSET Columns /\ (req[t].look.sure => {Arg(t)} \subseteq req[t].own)
      BY <1>2, <2>3 DEF Columns
    <2>5. QED BY <1>1, <1>2, <2>1, <2>2, <2>4, Writes
  <1>4. CASE ~_guard_one(t, Arg(t))
    <2>1. Raises(t) /\ UNCHANGED token BY <1>4 DEF flush_update
    <2>2. QED BY <1>1, <1>2, <2>1, Refused
  <1>5. QED BY <1>3, <1>4

LEMMA Minted ==
    ASSUME IInv, NEW t \in Threads, mint(t)
    PROVE  IInv'
  <1>1. Ready(t, "mint") /\ UNCHANGED <<ctx, member, site, binding, clock, setting, since, cache>>
    BY DEF mint, toggles
  <1>2. req[t] # Idle /\ (Scoped(t) => ctx[t] \in req[t].own \cap Orgs)
    BY <1>1, AtStatement DEF IInv
  <1>3. CASE Scoped(t)
    <2>1. token' = [org |-> ctx[t], live |-> TRUE] /\ Proceeds(t, {ctx[t]}, TRUE, Rest(t))
      BY <1>3 DEF mint
    <2>2. TablesInv'
      BY <1>1, <1>2, <1>3, <2>1, TenantAssumption DEF IInv, TablesInv
    <2>3. {ctx[t]} \in SUBSET Columns /\ {ctx[t]} \subseteq req[t].own
      BY <1>2, <1>3 DEF Columns
    <2>4. QED BY <1>1, <2>1, <2>2, <2>3, Writes
  <1>4. CASE ~Scoped(t)
    <2>1. Raises(t) /\ UNCHANGED token BY <1>4 DEF mint
    <2>2. QED BY <1>1, <1>2, <2>1, Refused
  <1>5. QED BY <1>3, <1>4

LEMMA DefaultSiteResolved ==
    ASSUME IInv, NEW t \in Threads, resolve_default_site_id(t)
    PROVE  IInv'
  <1> DEFINE seen == {s \in Existing : _add_tenant_filter(t, site[s])}
             found == DefaultSite \in seen \/ Cardinality(seen) = 1
             refused == ~Organized \/ site[DefaultSite] # NoRow \/ ~_guard_one(t, DefaultOrg)
  <1>1. Ready(t, "default_site") /\ UNCHANGED <<ctx, member, binding, token, clock, setting, since, cache>>
    BY DEF resolve_default_site_id, toggles
  <1>2. /\ req[t] # Idle /\ req[t].look.sure \in BOOLEAN /\ Rest(t) \in Seq(Legal(ctx[t]))
        /\ \A org : req[t].look.sure /\ _add_tenant_filter(t, org) => org \in req[t].own
        /\ ~Scoped(t)
    BY <1>1, AtStatement DEF IInv, Legal, Scoped
  <1>3. CASE found
    <2>1. Proceeds(t, {site[s] : s \in seen}, req[t].look.sure, Rest(t)) /\ UNCHANGED site
      BY <1>3 DEF resolve_default_site_id
    <2>2. {site[s] : s \in seen} \in SUBSET Columns
      BY DEF IInv, TablesInv, Existing
    <2>3. req[t].look.sure => {site[s] : s \in seen} \subseteq req[t].own
      BY <1>2
    <2>4. QED BY <1>1, <1>2, <2>1, <2>2, <2>3, ReadOnly
  <1>4. CASE ~found /\ refused
    <2>1. Raises(t) /\ UNCHANGED site BY <1>4 DEF resolve_default_site_id
    <2>2. QED BY <1>1, <1>2, <2>1, Refused
  <1>5. CASE ~found /\ ~refused
    <2>1. site' = [site EXCEPT ![DefaultSite] = DefaultOrg] /\ Proceeds(t, {DefaultOrg}, Scoped(t), Rest(t))
      BY <1>5 DEF resolve_default_site_id
    <2>2. TablesInv'
      BY <1>1, <2>1, TenantAssumption DEF IInv, TablesInv, Columns
    <2>3. {DefaultOrg} \in SUBSET Columns /\ Scoped(t) \in BOOLEAN
      BY TenantAssumption DEF Columns, Scoped
    <2>4. QED BY <1>1, <1>2, <2>1, <2>2, <2>3, Writes
  <1>6. QED BY <1>3, <1>4, <1>5

LEMMA StatementStep ==
    ASSUME IInv, NEW t \in Threads, Statement(t)
    PROVE  IInv'
  BY BindingsRead, SitesRead, SiteCreated, SiteDeleted, Granted, BindingInserted, Flushed, Minted,
     Revoked, DefaultSiteResolved, Recorded DEF Statement

-----------------------------------------------------------------------------
(* The lookup of the mode.                                                 *)

\* A request moves to another place of its lookup.
LEMMA LookupStep ==
    ASSUME IInv, NEW t \in Threads, req[t] # Idle, UNCHANGED <<ctx, member, site, binding, token, clock, setting, since>>,
           ToggleInv', CacheInv',
           NEW at \in {"looked", "got", "decided"}, NEW l \in Look,
           req' = [req EXCEPT ![t].at = at, ![t].look = l],
           ctx[t] # NoOrg, l.now <= clock,
           at = "looked" => ~l.odd /\ Expires(l.val, l.exp),
           at = "got" => ~l.odd /\ l.val \in Modes /\ (l.val # setting => l.now <= since),
           at = "decided" /\ l.sure => l.val = "enforce"
    PROVE  IInv'
  <1>1. ThreadsInv /\ TablesInv /\ req[t] \in Requests(ctx[t]) /\ ThreadInv(t) /\ Still
    BY DEF IInv, ThreadsInv, ThreadInv, KindOf, Still
  <1>2. /\ DOMAIN req' = Threads /\ \A u \in Threads \ {t} : req'[u] = req[u]
        /\ req'[t] = [req[t] EXCEPT !.at = at, !.look = l]
    BY <1>1 DEF ThreadsInv
  <1>3. /\ req'[t] \in Requests(ctx[t]) /\ req'[t].at = at /\ req'[t].look = l
        /\ req'[t].own = req[t].own /\ req'[t].touched = req[t].touched
    BY <1>1, <1>2 DEF Requests
  <1>i. Idle.at = "idle" /\ at # "idle"
    BY DEF Idle
  <1>4. req'[t] # Idle
    BY <1>3, <1>i
  <1>5. KindOf(t)' /\ ScopeOf(t)' /\ OwnRows(t)'
    BY <1>1, <1>3, <1>4 DEF ThreadInv, KindOf, ScopeOf, OwnRows
  <1>6. LookOf(t)'
    BY <1>3, <1>4 DEF LookOf, Expires
  <1>7. ThreadsInv'
    BY <1>1, <1>2, <1>5, <1>6, OneThread DEF ThreadInv, ThreadsInv
  <1>8. QED BY <1>1, <1>7, TablesKept DEF IInv

\* What a lookup in progress knows.
LEMMA AtLookup ==
    ASSUME IInv, NEW t \in Threads, req[t].at # "run", req[t].at # "idle"
    PROVE  /\ req[t] # Idle /\ req[t] \in Requests(ctx[t]) /\ req[t].look \in Look /\ LookOf(t)
           /\ ctx[t] # NoOrg /\ req[t].look.now <= clock
           /\ clock \in Nat /\ since \in Int /\ since <= clock /\ setting \in Modes /\ TTL \in Nat /\ TTL > 0
           /\ cache \in [val: Modes \cup {NoOrg}, exp: Int]
  <1>1. req[t] # Idle
    BY DEF Idle
  <1>2. req[t] \in Requests(ctx[t]) /\ LookOf(t)
    BY <1>1 DEF IInv, ThreadsInv, ThreadInv, KindOf
  <1>3. req[t].look \in Look
    BY <1>2 DEF Requests
  <1>4. QED BY <1>1, <1>2, <1>3, TenantAssumption DEF IInv, ToggleInv, LookOf

\* A decision for a lookup l, and whether it is sure.
LEMMA Decides ==
    ASSUME IInv, NEW t \in Threads, req[t].at # "run", req[t].at # "idle",
           NEW l \in Look, l.now <= clock, Decide(t, l),
           UNCHANGED <<ctx, member, site, binding, token, clock, setting, since>>, ToggleInv', CacheInv',
           ~l.odd /\ l.val # setting => l.now < since + TTL
    PROVE  /\ IInv'
           /\ req'[t].look.odd = l.odd /\ req'[t].look.val = l.val /\ req'[t].look.now = l.now
           /\ \A u \in Threads \ {t} : req'[u] = req[u]
  <1> DEFINE d == [l EXCEPT !.sure = Sure(l)]
  <1>1. /\ req[t] # Idle /\ req[t] \in Requests(ctx[t]) /\ ctx[t] # NoOrg
        /\ clock \in Nat /\ since \in Int /\ TTL \in Nat /\ setting \in Modes
    BY AtLookup
  <1>2. Sure(l) \in BOOLEAN /\ (Sure(l) => setting = "enforce" /\ l.now >= since + TTL /\ ~l.odd)
    BY DEF Sure
  <1>3. /\ d \in Look /\ d.now = l.now /\ d.val = l.val /\ d.odd = l.odd /\ d.sure = Sure(l)
    BY <1>2 DEF Look
  <1>4. d.sure => d.val = "enforce"
    BY <1>1, <1>2, <1>3 DEF Look
  <1>5. req' = [req EXCEPT ![t].at = "decided", ![t].look = d]
    BY DEF Decide
  <1> HIDE DEF d
  <1>6. IInv'
    BY <1>1, <1>3, <1>4, <1>5, LookupStep
  <1>7. DOMAIN req = Threads
    BY DEF IInv, ThreadsInv
  <1>8. req'[t].look = d /\ \A u \in Threads \ {t} : req'[u] = req[u]
    BY <1>1, <1>5, <1>7 DEF Requests
  <1>9. QED BY <1>3, <1>6, <1>8

LEMMA CacheRead ==
    ASSUME IInv, NEW t \in Threads, enforce_mode(t)
    PROVE  IInv'
  <1> DEFINE l == [Undecided EXCEPT !.now = clock, !.val = cache.val, !.exp = cache.exp]
  <1>1. /\ req[t].at = "run" /\ Asks(t) /\ req' = [req EXCEPT ![t].at = "looked", ![t].look = l]
        /\ UNCHANGED <<ctx, member, site, binding, token, clock, setting, since, cache>>
    BY DEF enforce_mode, tables, toggles
  <1>2. ToggleInv /\ CacheInv
    BY DEF IInv
  <1>3. /\ l \in Look /\ l.now = clock /\ l.val = cache.val /\ l.exp = cache.exp /\ ~l.odd
    BY <1>2 DEF ToggleInv, Look, Undecided
  <1>4. req[t] # Idle /\ ctx[t] # NoOrg
    BY <1>1 DEF Idle, Asks, Scoped
  <1>5. ToggleInv' /\ CacheInv'
    BY <1>1, <1>2, ToggleKept
  <1>6. Expires(l.val, l.exp) /\ l.now <= clock
    BY <1>2, <1>3 DEF CacheInv, ToggleInv
  <1> HIDE DEF l
  <1>7. QED BY <1>1, <1>3, <1>4, <1>5, <1>6, LookupStep

\* The three ways to decide keep the invariant, and none of them is out of
\* date without a reason.
Current(t) ==
  /\ ~req'[t].look.odd /\ req'[t].look.val # setting => req'[t].look.now < since + TTL
  /\ \A u \in Threads \ {t} : req'[u] = req[u]

LEMMA CacheHit ==
    ASSUME IInv, NEW t \in Threads, cache_hit(t)
    PROVE  IInv' /\ Current(t)
  <1> DEFINE l == req[t].look
             m == [l EXCEPT !.odd = cache.exp # l.exp]
  <1>1. /\ req[t].at = "looked" /\ l.val # NoOrg /\ l.now < cache.exp /\ Decide(t, m)
        /\ UNCHANGED <<ctx, member, site, binding, token, clock, setting, since, cache>>
    BY DEF cache_hit, tables, toggles
  <1>2. /\ l \in Look /\ LookOf(t) /\ req[t] # Idle /\ l.now <= clock /\ since \in Int /\ TTL \in Nat
        /\ cache \in [val: Modes \cup {NoOrg}, exp: Int]
    BY <1>1, AtLookup
  <1>3. Expires(l.val, l.exp)
    BY <1>1, <1>2 DEF LookOf
  <1>4. m \in Look /\ m.now = l.now /\ m.val = l.val /\ m.odd = (cache.exp # l.exp)
    BY <1>2 DEF Look
  <1>5. ~m.odd /\ m.val # setting => m.now < since + TTL
    BY <1>1, <1>2, <1>3, <1>4 DEF Expires, Look
  <1>6. ToggleInv' /\ CacheInv'
    BY <1>1, ToggleKept DEF IInv
  <1> HIDE DEF l, m
  <1>7. QED BY <1>1, <1>2, <1>4, <1>5, <1>6, Decides DEF Current

LEMMA SettingRead ==
    ASSUME IInv, NEW t \in Threads, get_on_session(t)
    PROVE  IInv' /\ (req'[t].at = "decided" => Current(t)) /\ (\A u \in Threads \ {t} : req'[u] = req[u])
  <1> DEFINE l == req[t].look
             got == [l EXCEPT !.val = setting, !.exp = 0]
             odd == [l EXCEPT !.val = "shadow", !.odd = TRUE]
  <1>1. /\ req[t].at = "looked" /\ UNCHANGED <<ctx, member, site, binding, token, clock, setting, since, cache>>
        /\ req' = [req EXCEPT ![t].at = "got", ![t].look = got] \/ Decide(t, odd)
    BY DEF get_on_session, tables, toggles
  <1>2. /\ l \in Look /\ LookOf(t) /\ req[t] # Idle /\ ctx[t] # NoOrg /\ l.now <= clock /\ setting \in Modes
        /\ req[t] \in Requests(ctx[t])
    BY <1>1, AtLookup
  <1>3. ToggleInv' /\ CacheInv'
    BY <1>1, ToggleKept DEF IInv
  <1>4. /\ got \in Look /\ got.now = l.now /\ got.val = setting /\ ~got.odd
        /\ odd \in Look /\ odd.now = l.now /\ odd.odd
    <2>1. ~l.odd BY <1>1, <1>2 DEF LookOf
    <2>2. got \in Look /\ got.now = l.now /\ got.val = setting /\ got.odd = l.odd
      <3>1. l \in Look /\ setting \in Modes \cup {NoOrg} /\ 0 \in Int BY <1>2
      <3> HIDE DEF l
      <3>2. got \in Look BY <3>1 DEF Look
      <3>3. got.now = l.now /\ got.val = setting /\ got.odd = l.odd BY <3>1 DEF Look
      <3>4. QED BY <3>2, <3>3
    <2>3. odd \in Look /\ odd.now = l.now /\ odd.odd = TRUE BY <1>2 DEF Look, Modes
    <2>4. QED BY <2>1, <2>2, <2>3
  <1> HIDE DEF l, got, odd
  <1>5. CASE req' = [req EXCEPT ![t].at = "got", ![t].look = got]
    <2>1. IInv'
      BY <1>1, <1>2, <1>3, <1>4, <1>5, LookupStep
    <2>2. DOMAIN req = Threads BY DEF IInv, ThreadsInv
    <2>3. req'[t].at = "got" /\ \A u \in Threads \ {t} : req'[u] = req[u]
      BY <1>2, <1>5, <2>2 DEF Requests
    <2>4. QED BY <2>1, <2>3
  <1>6. CASE Decide(t, odd)
    BY <1>1, <1>2, <1>3, <1>4, <1>6, Decides DEF Current
  <1>7. QED BY <1>1, <1>5, <1>6

LEMMA CacheStored ==
    ASSUME IInv, NEW t \in Threads, cache_store(t)
    PROVE  IInv' /\ Current(t)
  <1> DEFINE l == req[t].look
  <1>1. /\ req[t].at = "got" /\ Decide(t, l) /\ cache' \in {cache, [val |-> l.val, exp |-> l.now + TTL]}
        /\ UNCHANGED <<ctx, member, site, binding, token, clock, setting, since>>
    BY DEF cache_store, tables, Expiry
  <1>2. /\ l \in Look /\ LookOf(t) /\ req[t] # Idle /\ l.now <= clock /\ TTL \in Nat /\ TTL > 0
        /\ since \in Int /\ since <= clock /\ clock \in Nat /\ setting \in Modes
    BY <1>1, AtLookup
  <1>3. ~l.odd /\ l.val \in Modes /\ (l.val # setting => l.now <= since)
    BY <1>1, <1>2 DEF LookOf
  <1>4. ToggleInv /\ CacheInv
    BY DEF IInv
  <1> HIDE DEF l
  <1>5. l.now \in Nat
    BY <1>2 DEF Look
  <1>6. ToggleInv' /\ CacheInv'
    <2>1. CASE cache' = cache BY <1>1, <1>4, <2>1, ToggleKept
    <2>2. CASE cache' = [val |-> l.val, exp |-> l.now + TTL]
      BY <1>1, <1>2, <1>3, <1>4, <1>5, <2>2 DEF ToggleInv, CacheInv, Expires
    <2>3. QED BY <1>1, <2>1, <2>2
  <1>7. l.val # setting => l.now < since + TTL
    BY <1>2, <1>3, <1>5
  <1>8. QED BY <1>1, <1>2, <1>6, <1>7, Decides DEF Current, l

LEMMA LookupKeeps ==
    ASSUME IInv, NEW t \in Threads, Lookup(t)
    PROVE  IInv'
  BY CacheRead, CacheHit, SettingRead, CacheStored DEF Lookup

-----------------------------------------------------------------------------
(* Requests begin and end.                                                 *)

LEMMA Began ==
    ASSUME IInv, NEW t \in Threads, NEW org \in Orgs \cup {NoOrg},
           NEW user \in Users \cup {NoOrg}, NEW own \in SUBSET Columns, org = NoOrg \/ org \in own,
           NEW todo \in Seq(Legal(org)), Begins(t, org, Request(user, own, todo))
    PROVE  IInv'
  <1> DEFINE r == Request(user, own, todo)
  <1>1. /\ ctx' = [ctx EXCEPT ![t] = org] /\ req' = [req EXCEPT ![t] = r]
        /\ UNCHANGED <<member, site, binding, token, clock, setting, since, cache>>
    BY DEF Begins, tables, toggles
  <1>2. ThreadsInv /\ TablesInv /\ ToggleInv /\ CacheInv
    BY DEF IInv
  <1>3. Undecided \in Look /\ ~Undecided.sure
    BY DEF Undecided, Look
  <1>4. r \in Requests(org) /\ r.at = "run" /\ r.look = Undecided /\ r.own = own /\ r.touched = {}
    BY <1>3 DEF Request, Requests
  <1>5. r # Idle
    BY <1>4 DEF Idle
  <1> HIDE DEF r
  <1>6. /\ DOMAIN req' = Threads /\ \A u \in Threads \ {t} : req'[u] = req[u] /\ ctx'[u] = ctx[u]
        /\ req'[t] = r /\ ctx'[t] = org /\ ctx' \in [Threads -> Orgs \cup {NoOrg}]
    BY <1>1, <1>2 DEF ThreadsInv
  <1>7. ThreadInv(t)'
    BY <1>3, <1>4, <1>5, <1>6 DEF ThreadInv, KindOf, ScopeOf, LookOf, OwnRows
  <1>8. ThreadsInv'
    BY <1>1, <1>2, <1>6, <1>7, ToggleKept, OneThread
  <1>9. QED BY <1>1, <1>2, <1>8, TablesKept, ToggleKept DEF IInv

\* Every view is a list of statements its request may run.
LEMMA HandlersLawful ==
    ASSUME TablesInv, NEW u \in Users, NEW org, NEW todo \in Handlers(u)
    PROVE  todo \in Seq(Legal(org))
  <1>1. u \in Args /\ Named \subseteq Sites /\ Sites \subseteq Args
    BY TenantAssumption DEF Args
  <1>2. CASE todo = list_sites(u)
    <2>1. Stmt("select", "bindings", u) \in Legal(org) /\ Stmt("select", "sites", u) \in Legal(org)
      BY <1>1, Lawful DEF Hooks, Names
    <2>2. QED BY <1>2, <2>1 DEF list_sites
  <1>3. CASE todo = settings_api_tokens_create_submit(u)
    BY <1>1, <1>3, Lawful DEF settings_api_tokens_create_submit, Hooks, Names
  <1>4. CASE todo = settings_api_tokens_revoke_submit(u)
    BY <1>1, <1>4, Lawful DEF settings_api_tokens_revoke_submit, Hooks, Names
  <1>5. ASSUME NEW s \in Named, todo = create_site_submit(s) PROVE todo \in Seq(Legal(org))
    <2>1. s \in Args BY <1>1
    <2>2. QED BY <1>5, <2>1, Lawful DEF create_site_submit, Hooks, Names
  <1>6. ASSUME NEW s \in Named, todo = delete_site_submit(s) PROVE todo \in Seq(Legal(org))
    <2>1. s \in Args BY <1>1
    <2>2. QED BY <1>6, <2>1, Lawful DEF delete_site_submit, Hooks, Names
  <1>7. ASSUME NEW x \in Named \cup {"global"}, todo = grant_user_binding(u, x) PROVE todo \in Seq(Legal(org))
    <2>1. [user |-> u, scope |-> x] \in Grantee BY <1>1 DEF Grantee, Scopes
    <2>2. [user |-> u, scope |-> x] \in Args BY <2>1 DEF Args
    <2>3. QED BY <1>7, <2>1, <2>2, Lawful DEF grant_user_binding, Hooks, Names
  <1>8. QED BY <1>2, <1>3, <1>4, <1>5, <1>6, <1>7 DEF Handlers

LEMMA ScopeBound ==
    ASSUME IInv, NEW t \in Threads, NEW u \in Users, _bind_tenant_scope(t, u)
    PROVE  IInv'
  <1>1. PICK todo \in Handlers(u) :
          \/ \E org \in resolve_active_org(u) : Begins(t, org, Request(u, member[u], todo))
          \/ Begins(t, ctx[t], Request(u, member[u], todo))
    BY DEF _bind_tenant_scope
  <1>2. member[u] \in SUBSET Columns /\ member[u] \in SUBSET Orgs
    BY DEF IInv, TablesInv, Columns
  <1>3. \A org : todo \in Seq(Legal(org))
    BY HandlersLawful DEF IInv
  <1>4. ASSUME NEW org \in resolve_active_org(u), Begins(t, org, Request(u, member[u], todo)) PROVE IInv'
    <2>1. org \in Orgs \cup {NoOrg} /\ (org = NoOrg \/ org \in member[u])
      BY <1>2 DEF resolve_active_org
    <2>2. QED BY <1>2, <1>3, <1>4, <2>1, Began
  <1>5. ASSUME Begins(t, ctx[t], Request(u, member[u], todo)) PROVE IInv'
    <2>1. req[t] = Idle BY <1>5 DEF Begins
    <2>2. ctx[t] = NoOrg BY <2>1 DEF IInv, ThreadsInv, ThreadInv, ScopeOf
    <2>3. QED BY <1>2, <1>3, <1>5, <2>2, Began
  <1>6. QED BY <1>1, <1>4, <1>5

LEMMA DeviceServed ==
    ASSUME IInv, NEW t \in Threads, device_auth_required(t)
    PROVE  IInv'
  <1> DEFINE org == IF device \in Existing THEN site[device] ELSE NoOrg
  <1>1. Begins(t, org, Request(NoOrg, {org}, <<Stmt("insert", "audit", NoOrg)>>))
    BY DEF device_auth_required
  <1>2. org \in Orgs \cup {NoOrg}
    BY DEF IInv, TablesInv, Existing, Columns
  <1>3. <<Stmt("insert", "audit", NoOrg)>> \in Seq(Legal(org))
    BY Lawful DEF Hooks, Names, Args
  <1>4. {org} \in SUBSET Columns
    BY <1>2 DEF Columns
  <1> HIDE DEF org
  <1>5. QED BY <1>1, <1>2, <1>3, <1>4, Began

\* The routes that bind no scope find none on their thread.
LEMMA UnscopedServed ==
    ASSUME IInv, NEW t \in Threads, services_enqueue(t) \/ register_request(t)
    PROVE  IInv'
  <1>1. req[t] = Idle BY DEF services_enqueue, register_request, Begins
  <1>2. ctx[t] = NoOrg BY <1>1 DEF IInv, ThreadsInv, ThreadInv, ScopeOf
  <1>3. /\ <<Stmt("insert", "audit", NoOrg)>> \in Seq(Legal(NoOrg))
        /\ <<Stmt("select", "default_site", NoOrg)>> \in Seq(Legal(NoOrg))
    BY Lawful DEF Hooks, Names, Args
  <1>4. CASE services_enqueue(t)
    BY <1>2, <1>3, <1>4, Began DEF services_enqueue
  <1>5. CASE register_request(t)
    BY <1>2, <1>3, <1>5, Began DEF register_request
  <1>6. QED BY <1>4, <1>5

LEMMA ViewFailed ==
    ASSUME IInv, NEW t \in Threads, view_fails(t)
    PROVE  IInv'
  <1>1. /\ req[t].at = "run" /\ Raises(t)
        /\ UNCHANGED <<ctx, member, site, binding, token, clock, setting, since, cache>>
    BY DEF view_fails, tables, toggles
  <1>2. req[t] # Idle BY <1>1 DEF Idle
  <1>3. QED BY <1>1, <1>2, Refused

LEMMA RequestEnded ==
    ASSUME IInv, NEW t \in Threads, request_ends(t)
    PROVE  IInv'
  <1>1. /\ ctx' = [ctx EXCEPT ![t] = NoOrg] /\ req' = [req EXCEPT ![t] = Idle]
        /\ UNCHANGED <<member, site, binding, token, clock, setting, since, cache>>
    BY DEF request_ends, register_tenant_teardown, reset, tables, toggles
  <1>2. ThreadsInv /\ TablesInv /\ ToggleInv /\ CacheInv
    BY DEF IInv
  <1>3. /\ DOMAIN req' = Threads /\ \A u \in Threads \ {t} : req'[u] = req[u] /\ ctx'[u] = ctx[u]
        /\ req'[t] = Idle /\ ctx'[t] = NoOrg /\ ctx' \in [Threads -> Orgs \cup {NoOrg}]
    BY <1>1, <1>2 DEF ThreadsInv
  <1>4. ThreadInv(t)'
    BY <1>3 DEF ThreadInv, KindOf, ScopeOf, LookOf, OwnRows, Idle
  <1>5. ThreadsInv'
    BY <1>1, <1>2, <1>3, <1>4, ToggleKept, OneThread
  <1>6. QED BY <1>1, <1>2, <1>5, TablesKept, ToggleKept DEF IInv

LEMMA ServeStep ==
    ASSUME IInv, NEW t \in Threads, Serve(t)
    PROVE  IInv'
  BY ScopeBound, DeviceServed, UnscopedServed, ViewFailed, RequestEnded DEF Serve

-----------------------------------------------------------------------------
(* The rest of the world: the clock, the toggle, start-up.                 *)

\* Nothing a thread knows changes.
LEMMA ThreadsKept ==
    ASSUME ThreadsInv, Still, UNCHANGED <<ctx, req>>
    PROVE  ThreadsInv'
  BY OtherThread DEF ThreadsInv

LEMMA SecondPasses ==
    ASSUME IInv, Second
    PROVE  IInv'
  <1>1. clock' = clock + 1 /\ UNCHANGED <<ctx, req, member, site, binding, token, setting, since, cache>>
    BY DEF Second, tables, toggles
  <1>2. ToggleInv' /\ CacheInv' /\ clock \in Nat /\ since \in Int /\ TTL \in Nat
    BY <1>1, TenantAssumption DEF IInv, ToggleInv, CacheInv, Expires
  <1>3. ASSUME NEW t \in Threads PROVE ThreadInv(t)'
    <2>1. ThreadInv(t) BY DEF IInv, ThreadsInv
    <2>2. KindOf(t)' /\ ScopeOf(t)' /\ OwnRows(t)'
      BY <1>1, <2>1 DEF ThreadInv, KindOf, ScopeOf, OwnRows
    <2>3. req[t] # Idle => req[t].look \in Look
      BY <2>1 DEF ThreadInv, KindOf, Requests
    <2>4. LookOf(t)'
      BY <1>1, <1>2, <2>1, <2>3 DEF ThreadInv, LookOf, Expires, Look
    <2>5. QED BY <2>2, <2>4 DEF ThreadInv
  <1>4. QED BY <1>1, <1>2, <1>3, TablesKept DEF IInv, ThreadsInv

\* What was read before a toggle is at most TTL old when it is committed.
LEMMA Toggled ==
    ASSUME IInv, NEW mode \in Modes, NEW here \in BOOLEAN, set_(mode, here)
    PROVE  IInv'
  <1>1. setting' = mode /\ since' = clock /\ UNCHANGED <<clock, ctx, req, member, site, binding, token, cache>>
    BY DEF set_, tables
  <1>2. ToggleInv' /\ CacheInv' /\ clock \in Nat /\ since \in Int /\ since <= clock /\ TTL \in Nat
    BY <1>1, TenantAssumption DEF IInv, ToggleInv, CacheInv, Expires
  <1>3. ASSUME NEW t \in Threads PROVE ThreadInv(t)'
    <2>1. ThreadInv(t) BY DEF IInv, ThreadsInv
    <2>2. KindOf(t)' /\ ScopeOf(t)' /\ OwnRows(t)'
      BY <1>1, <2>1 DEF ThreadInv, KindOf, ScopeOf, OwnRows
    <2>3. LookOf(t)'
      BY <1>1, <1>2, <2>1 DEF ThreadInv, LookOf, Expires
    <2>4. QED BY <2>2, <2>3 DEF ThreadInv
  <1>4. QED BY <1>1, <1>2, <1>3, TablesKept DEF IInv, ThreadsInv

LEMMA Invalidated ==
    ASSUME IInv, invalidate_enforce_mode_cache
    PROVE  IInv'
  <1>1. cache' = Unset /\ UNCHANGED <<clock, setting, since, ctx, req, member, site, binding, token>>
    BY DEF invalidate_enforce_mode_cache, tables
  <1>2. ToggleInv' /\ CacheInv'
    BY <1>1, TenantAssumption DEF IInv, ToggleInv, CacheInv, Expires, Unset
  <1>3. QED BY <1>1, <1>2, TablesKept, ThreadsKept DEF IInv, Still

LEMMA RbacSaved ==
    ASSUME IInv, NEW mode \in Modes, settings_system_save_submit(mode)
    PROVE  IInv'
  BY TablesKept, ToggleKept, ThreadsKept DEF IInv, settings_system_save_submit, tables

LEMMA Provisioned ==
    ASSUME IInv, NEW u \in Users, NEW orgs \in SUBSET Orgs, Provision(u, orgs)
    PROVE  IInv'
  <1>1. /\ member' = [member EXCEPT ![u] = orgs]
        /\ UNCHANGED <<site, binding, token, clock, setting, since, cache, ctx, req>>
    BY DEF Provision, toggles
  <1>2. TablesInv'
    BY <1>1 DEF IInv, TablesInv
  <1>3. QED BY <1>1, <1>2, ToggleKept, ThreadsKept DEF IInv

LEMMA Restarted ==
    ASSUME IInv, Restart
    PROVE  IInv'
  <1>1. /\ cache' = Unset /\ ctx' = [t \in Threads |-> NoOrg] /\ req' = [t \in Threads |-> Idle]
        /\ UNCHANGED <<clock, setting, since, member, site, binding, token>>
    BY DEF Restart, tables
  <1>2. ToggleInv' /\ CacheInv'
    BY <1>1, TenantAssumption DEF IInv, ToggleInv, CacheInv, Expires, Unset
  <1>3. ThreadsInv'
    BY <1>1 DEF ThreadsInv, ThreadInv, KindOf, ScopeOf, LookOf, OwnRows, Idle
  <1>4. QED BY <1>1, <1>2, <1>3, TablesKept DEF IInv

LEMMA Backfilled ==
    ASSUME TablesInv, NEW n \in 1 .. 3, Backfill(n)
    PROVE  TablesInv'
  <1>1. CASE n = 1
    <2>1. ensure_default_organization_backfill BY <1>1 DEF Backfill
    <2>2. CASE Organized
      BY <2>1, <2>2, TablesKept DEF ensure_default_organization_backfill, tables
    <2>3. CASE ~Organized
      <3>1. /\ member' = [u \in Users |-> {DefaultOrg}]
            /\ site' = [s \in Sites |-> IF site[s] = NoOrg THEN DefaultOrg ELSE site[s]]
            /\ UNCHANGED <<device, binding, token>>
        BY <2>1, <2>3 DEF ensure_default_organization_backfill
      <3>2. QED BY <3>1, TenantAssumption DEF TablesInv, Columns
    <2>4. QED BY <2>2, <2>3
  <1>2. CASE n = 2
    <2> DEFINE scopes(u) == IF u \in Supers \/ Existing = {} THEN {"global"} ELSE Existing
               new == UNION {{[org |-> DefaultOrg, user |-> u, scope |-> x] : x \in scopes(u)} : u \in Users}
    <2>1. binding' = binding \cup new /\ UNCHANGED <<member, site, device, token>>
      BY <1>2 DEF Backfill, ensure_role_bindings_backfill
    <2>2. ASSUME NEW b \in new PROVE b \in Binding
      <3>1. PICK u \in Users : \E x \in scopes(u) : b = [org |-> DefaultOrg, user |-> u, scope |-> x]
        BY <2>2
      <3>2. PICK x \in scopes(u) : b = [org |-> DefaultOrg, user |-> u, scope |-> x]
        BY <3>1
      <3>3. x \in Scopes BY <3>2 DEF Existing, Scopes
      <3>4. QED BY <3>2, <3>3, TenantAssumption DEF Binding
    <2> HIDE DEF new
    <2>3. QED BY <2>1, <2>2 DEF TablesInv
  <1>3. CASE n = 3
    <2>1. site' \in {site, [site EXCEPT ![DefaultSite] = DefaultOrg]} /\ UNCHANGED <<member, binding, token>>
      BY <1>3 DEF Backfill, ensure_device_site_id_backfill
    <2>2. QED BY <2>1, TenantAssumption DEF TablesInv, Columns
  <1>4. QED BY <1>1, <1>2, <1>3

LEMMA Booted ==
    ASSUME IInv, run_startup_bootstrap
    PROVE  IInv'
  <1>1. UNCHANGED <<clock, setting, since, cache, ctx, req>>
    BY DEF run_startup_bootstrap, toggles
  <1>2. PICK n \in 1 .. 3 : UNCHANGED tables \/ Backfill(n)
    BY DEF run_startup_bootstrap
  <1>3. TablesInv'
    <2>1. CASE UNCHANGED tables BY <2>1, TablesKept DEF IInv, tables
    <2>2. CASE Backfill(n) BY <2>2, Backfilled DEF IInv
    <2>3. QED BY <1>2, <2>1, <2>2
  <1>4. QED BY <1>1, <1>3, ToggleKept, ThreadsKept DEF IInv

-----------------------------------------------------------------------------
LEMMA InitHolds == Init => IInv
  <1> SUFFICES ASSUME Init PROVE IInv
    OBVIOUS
  <1>1. TablesInv
    <2>1. token \in [org: Orgs \cup {NoOrg}, live: BOOLEAN] /\ ~token.live
      BY DEF Init, NoToken
    <2>2. CASE Legacy
      BY <2>1, <2>2 DEF TablesInv, Legacy, Columns
    <2>3. CASE Shared
      <3>1. binding \subseteq Binding
        BY <2>3 DEF Shared, Binding, Scopes
      <3>2. member \in [Users -> SUBSET Orgs] /\ site \in [Sites -> Columns]
        BY <2>3 DEF Shared, Columns
      <3>3. QED BY <2>1, <3>1, <3>2 DEF TablesInv
    <2>4. QED BY <2>2, <2>3 DEF Init
  <1>2. ToggleInv /\ CacheInv
    BY TenantAssumption DEF Init, ToggleInv, CacheInv, Expires, Modes, Unset
  <1>3. ThreadsInv
    BY DEF Init, ThreadsInv, ThreadInv, KindOf, ScopeOf, LookOf, OwnRows, Idle
  <1>4. QED BY <1>1, <1>2, <1>3 DEF IInv

LEMMA StepHolds == IInv /\ [Next]_vars => IInv'
  <1> SUFFICES ASSUME IInv, [Next]_vars PROVE IInv'
    OBVIOUS
  <1>1. CASE run_startup_bootstrap BY <1>1, Booted
  <1>2. CASE Second BY <1>2, SecondPasses
  <1>3. CASE Restart BY <1>3, Restarted
  <1>4. CASE Settings BY <1>4, Toggled, Invalidated, RbacSaved DEF Settings
  <1>5. ASSUME NEW u \in Users, NEW orgs \in SUBSET Orgs, Provision(u, orgs) PROVE IInv'
    BY <1>5, Provisioned
  <1>6. ASSUME NEW t \in Threads, Lookup(t) \/ Statement(t) \/ Serve(t) PROVE IInv'
    BY <1>6, LookupKeeps, StatementStep, ServeStep
  <1>7. CASE UNCHANGED vars
    BY <1>7, TablesKept, ToggleKept, ThreadsKept DEF IInv, vars, tables, toggles
  <1>8. QED BY <1>1, <1>2, <1>3, <1>4, <1>5, <1>6, <1>7 DEF Next

\* Every reachable state satisfies the inductive invariant: the scope of a
\* thread is its request's own, and no cached or half-read mode outlives a
\* toggle by more than TTL (tenant_scope.py, admin_auth.py).
THEOREM TenantInvariant == Spec => []IInv
  <1>1. Init => IInv BY InitHolds
  <1>2. IInv /\ [Next]_vars => IInv' BY StepHolds
  <1>3. QED BY <1>1, <1>2, PTL DEF Spec

\* For every number of organizations, accounts, sites and threads: when the
\* isolation is sure to be in force, a request touches the rows of its own
\* principal's organizations and no others.
THEOREM ForeignRowsAreSafe == Spec => []OnlyOwnRows
  <1>1. IInv => OnlyOwnRows
    BY DEF IInv, ThreadsInv, ThreadInv, OwnRows, OnlyOwnRows
  <1>2. QED BY <1>1, TenantInvariant, PTL

-----------------------------------------------------------------------------
(* Only a lookup decides.                                                  *)

Undecidedly == \A u \in Threads : req'[u] = req[u] \/ req'[u].at # "decided"

LEMMA StatementDecidesNot ==
    ASSUME IInv, NEW t \in Threads, Statement(t)
    PROVE  Undecidedly
  <1>1. PICK name : Ready(t, name)
    BY DEF Statement, effective_site_ids, filter_sites_with_shadow_logging, create_site, delete_site, grant,
           new_binding, flush_update, mint, revoke, resolve_default_site_id, record
  <1>2. DOMAIN req = Threads /\ req[t] \in Requests(ctx[t])
    BY <1>1, AtStatement DEF IInv, ThreadsInv
  <1>3. ASSUME NEW orgs, NEW sure, NEW more, Proceeds(t, orgs, sure, more) PROVE Undecidedly
    <2>1. req'[t].at = "run" /\ \A u \in Threads \ {t} : req'[u] = req[u]
      BY <1>2, <1>3 DEF Proceeds, Requests
    <2>2. QED BY <2>1 DEF Undecidedly
  <1>4. ASSUME Raises(t) PROVE Undecidedly
    <2>1. req'[t].at = "run" /\ \A u \in Threads \ {t} : req'[u] = req[u]
      BY <1>2, <1>4 DEF Raises, Requests
    <2>2. QED BY <2>1 DEF Undecidedly
  <1>5. CASE effective_site_ids(t)
    <2>1. req'[t].at = "run" /\ \A u \in Threads \ {t} : req'[u] = req[u]
      BY <1>2, <1>5 DEF effective_site_ids, Requests
    <2>2. QED BY <2>1 DEF Undecidedly
  <1>6. CASE filter_sites_with_shadow_logging(t) \/ grant(t) \/ revoke(t) \/ record(t)
    BY <1>3, <1>6 DEF filter_sites_with_shadow_logging, grant, revoke, record
  <1>7. CASE create_site(t) \/ delete_site(t) \/ new_binding(t) \/ mint(t)
    BY <1>3, <1>4, <1>7 DEF create_site, delete_site, new_binding, mint
  <1>8. CASE flush_update(t, "regrant") \/ flush_update(t, "revoked") \/ resolve_default_site_id(t)
    BY <1>3, <1>4, <1>8 DEF flush_update, resolve_default_site_id
  <1>9. QED BY <1>5, <1>6, <1>7, <1>8 DEF Statement

LEMMA ServeDecidesNot ==
    ASSUME IInv, NEW t \in Threads, Serve(t)
    PROVE  Undecidedly
  <1>1. DOMAIN req = Threads
    BY DEF IInv, ThreadsInv
  <1>2. ASSUME NEW org, NEW user, NEW own, NEW todo, Begins(t, org, Request(user, own, todo)) PROVE Undecidedly
    <2>1. req'[t].at = "run" /\ \A u \in Threads \ {t} : req'[u] = req[u]
      BY <1>1, <1>2 DEF Begins, Request
    <2>2. QED BY <2>1 DEF Undecidedly
  <1>3. ASSUME NEW u \in Users, _bind_tenant_scope(t, u) PROVE Undecidedly
    BY <1>2, <1>3 DEF _bind_tenant_scope
  <1>4. CASE device_auth_required(t) \/ services_enqueue(t) \/ register_request(t)
    BY <1>2, <1>4 DEF device_auth_required, services_enqueue, register_request
  <1>5. CASE view_fails(t)
    <2>1. req[t] # Idle BY <1>5 DEF view_fails, Idle
    <2>2. req[t] \in Requests(ctx[t]) BY <2>1 DEF IInv, ThreadsInv, ThreadInv, KindOf
    <2>3. req'[t].at = "run" /\ \A u \in Threads \ {t} : req'[u] = req[u]
      BY <1>1, <1>5, <2>2 DEF view_fails, Raises, Requests
    <2>4. QED BY <2>3 DEF Undecidedly
  <1>6. CASE request_ends(t)
    <2>1. req'[t].at = "idle" /\ \A u \in Threads \ {t} : req'[u] = req[u]
      BY <1>1, <1>6 DEF request_ends, Idle
    <2>2. QED BY <2>1 DEF Undecidedly
  <1>7. QED BY <1>3, <1>4, <1>5, <1>6 DEF Serve

LEMMA WorldDecidesNot ==
    ASSUME IInv, \/ run_startup_bootstrap \/ Second \/ Restart \/ Settings \/ UNCHANGED vars
                 \/ \E u \in Users, orgs \in SUBSET Orgs : Provision(u, orgs)
    PROVE  Undecidedly
  <1>1. CASE Restart
    BY <1>1 DEF Restart, Idle, Undecidedly
  <1>2. CASE run_startup_bootstrap \/ Second \/ UNCHANGED vars \/ \E u \in Users, orgs \in SUBSET Orgs : Provision(u, orgs)
    BY <1>2 DEF run_startup_bootstrap, Second, vars, Provision, Undecidedly
  <1>3. CASE Settings
    BY <1>3 DEF Settings, set_, invalidate_enforce_mode_cache, settings_system_save_submit, Undecidedly
  <1>4. QED BY <1>1, <1>2, <1>3

\* A decision that differs from the setting was begun less than TTL after the
\* toggle, unless the row could not be read or the entry was replaced between
\* the two reads of it (tenant_scope.py:267), for every TTL and any number of
\* threads.
THEOREM TogglesAreHeeded == Spec => DecisionIsCurrent
  <1> DEFINE Heeds ==
        \A t \in Threads :
          req[t].at # "decided" /\ req'[t].at = "decided" /\ ~req'[t].look.odd /\ req'[t].look.val # setting =>
            req'[t].look.now < since + TTL
  <1>1. ASSUME IInv, [Next]_vars PROVE Heeds
    <2>1. CASE Undecidedly
      BY <2>1 DEF Undecidedly
    <2>2. ASSUME NEW t \in Threads, Lookup(t) PROVE Heeds
      <3>1. CASE enforce_mode(t)
        <4>1. DOMAIN req = Threads /\ req[t] # Idle
          BY <1>1, <3>1 DEF enforce_mode, Idle, IInv, ThreadsInv
        <4>2. req[t] \in Requests(ctx[t])
          BY <1>1, <4>1 DEF IInv, ThreadsInv, ThreadInv, KindOf
        <4>3. req'[t].at = "looked" /\ \A u \in Threads \ {t} : req'[u] = req[u]
          BY <3>1, <4>1, <4>2 DEF enforce_mode, Requests
        <4>4. QED BY <4>3
      <3>2. CASE cache_hit(t) \/ cache_store(t)
        BY <1>1, <3>2, CacheHit, CacheStored DEF Current
      <3>3. CASE get_on_session(t)
        BY <1>1, <3>3, SettingRead DEF Current
      <3>4. QED BY <2>2, <3>1, <3>2, <3>3 DEF Lookup
    <2>3. ASSUME NEW t \in Threads, Statement(t) \/ Serve(t) PROVE Heeds
      BY <1>1, <2>1, <2>3, StatementDecidesNot, ServeDecidesNot
    <2>4. QED BY <1>1, <2>1, <2>2, <2>3, WorldDecidesNot DEF Next
  <1>2. IInv /\ [Next]_vars => [Heeds]_vars
    BY <1>1
  <1>3. QED BY <1>2, TenantInvariant, PTL DEF Spec, DecisionIsCurrent

=============================================================================
