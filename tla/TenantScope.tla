---------------------------- MODULE TenantScope -----------------------------
(***************************************************************************)
(* The organization boundary: the scope a request binds to its thread      *)
(* (middleware/admin_auth.py, device_auth.py), the read filter and the     *)
(* write guard that apply it (services/tenant_scope.py), the cached toggle *)
(* that turns them on (services/runtime_settings.py), the backfills that   *)
(* give the rows their organization at startup (services/bootstrap.py),    *)
(* and the handlers of sites, role bindings and API tokens that rely on    *)
(* them.                                                                   *)
(*                                                                         *)
(* One process with a pool of threads is modelled; another process of the  *)
(* same deployment appears only as a writer of the toggle.                 *)
(***************************************************************************)
EXTENDS Integers, FiniteSets, Sequences

CONSTANTS Orgs, DefaultOrg,     \* organizations; the one the backfill makes
          Users, Supers,        \* accounts; those with the super-admin flag
          Closed,               \* organizations whose status is closed
          Sites, DefaultSite,   \* site rows by name; the one named "Default"
          Named,                \* bound: the sites that requests create, delete or grant
          Threads,
          TTL,                  \* _ENFORCE_CACHE_TTL
          MaxTime,              \* bound: seconds
          MaxRequests,          \* bound: requests served
          MaxChanges            \* bound: toggles, memberships, restarts, failed startup steps

VARIABLES clock,
          up,       \* startup steps done; 3 when the hub serves
          done,     \* backfills marked complete in runtime_settings
          member,   \* account -> organizations it is a member of
          session,  \* account -> active_org_id of its browser session
          site,     \* site row -> its organization, NoOrg before the backfill
          device,   \* the site of the plug, or NoRow
          binding,  \* role bindings [org, user, scope]
          token,    \* the API token: [org, live], or NoToken
          setting,  \* org_isolation.enforce, committed
          since,    \* history: when it last changed
          cache,    \* the process's copy: [val, exp]
          dirty,    \* callbacks of a committed toggle still to run
          rbac,     \* rbac.enforce_mode, committed
          ctx,      \* thread -> its ContextVar _current_org
          req,      \* thread -> the request it serves
          ops       \* [req, chg], counted against the bounds

tables == <<member, site, device, binding, token>>
toggles == <<setting, since, cache, dirty, rbac>>
vars == <<clock, up, done, session, tables, toggles, ctx, req, ops>>

NoOrg == "no_org"
NoRow == "no_row"
NoToken == [org |-> NoOrg, live |-> FALSE]

ASSUME TenantAssumption ==
  /\ DefaultOrg \in Orgs /\ NoOrg \notin Orgs
  /\ DefaultSite \in Sites /\ Named \subseteq Sites /\ Supers \subseteq Users
  /\ TTL \in Nat \ {0}
  /\ MaxTime \in Nat /\ MaxRequests \in Nat /\ MaxChanges \in Nat

Modes == {"shadow", "enforce"}
Unset == [val |-> NoOrg, exp |-> 0]
Idle == [todo |-> <<>>, touched |-> {}, own |-> {}, at |-> "idle"]

\* own: history, the organizations this principal may act in.
\* touched: history, the organizations of the rows its statements returned or
\* wrote while the isolation held for sure.
\* look: the lookup of the mode in progress, and its outcome.
Undecided == [now |-> 0, val |-> NoOrg, exp |-> 0, odd |-> FALSE, sure |-> FALSE]
Request(user, own, todo) ==
  [user |-> user, own |-> own, todo |-> todo, touched |-> {}, at |-> "run",
   look |-> Undecided, scope |-> {}, failed |-> FALSE]

Serving == up = 3
Served == Serving /\ ops.req < MaxRequests /\ ops' = [ops EXCEPT !.req = @ + 1]
Counted == ops.chg < MaxChanges /\ ops' = [ops EXCEPT !.chg = @ + 1]
Changed == Serving /\ Counted
Existing == {s \in Sites : site[s] # NoRow}

-----------------------------------------------------------------------------
(* Startup, under system(): each step is skipped when it fails, and tried  *)
(* again at the next start unless it was marked complete.                  *)

Organized == \E u \in Users : member[u] # {}

\* Over an organizations table in use it changes nothing.
ensure_default_organization_backfill ==
  IF Organized THEN UNCHANGED tables
  ELSE /\ member' = [u \in Users |-> {DefaultOrg}]
       /\ site' = [s \in Sites |-> IF site[s] = NoOrg THEN DefaultOrg ELSE site[s]]
       /\ UNCHANGED <<device, binding, token>>

\* A super admin is bound globally, every other admin to each current site,
\* or globally while there is none.  A binding that exists fails the whole
\* step on the unique constraint.
ensure_role_bindings_backfill ==
  LET scopes(u) == IF u \in Supers \/ Existing = {} THEN {"global"} ELSE Existing
      new == UNION {{[org |-> DefaultOrg, user |-> u, scope |-> x] : x \in scopes(u)} : u \in Users}
  IN /\ Organized /\ \A b \in new \cap binding : b.scope = "global"
     /\ binding' = binding \cup new
     /\ UNCHANGED <<member, site, device, token>>

\* A plug without a site goes to the only site, else to a new "Default".
ensure_device_site_id_backfill ==
  /\ IF device # NoRow \/ ~Organized THEN UNCHANGED <<site, device>>
     ELSE IF Cardinality(Existing) = 1 THEN device' \in Existing /\ UNCHANGED site
     ELSE /\ site[DefaultSite] = NoRow
          /\ site' = [site EXCEPT ![DefaultSite] = DefaultOrg] /\ device' = DefaultSite
  /\ UNCHANGED <<member, binding, token>>

Backfill(n) ==
  CASE n = 1 -> ensure_default_organization_backfill
    [] n = 2 -> ensure_role_bindings_backfill
    [] n = 3 -> ensure_device_site_id_backfill

\* A step that fails is logged and skipped; its rows are committed before it
\* is marked complete, so a crash in between runs it again.
run_startup_bootstrap ==
  /\ \E n \in 1 .. 3 :
       /\ up = n - 1 /\ up' = n
       /\ \/ n \in done /\ UNCHANGED <<tables, done, ops>>
          \/ n \notin done /\ Backfill(n) /\ done' = done \cup {n} /\ UNCHANGED ops
          \/ n \notin done /\ Counted /\ (Backfill(n) \/ UNCHANGED tables) /\ UNCHANGED done
  /\ UNCHANGED <<clock, session, toggles, ctx, req>>

-----------------------------------------------------------------------------
(* The toggle and its cache.                                               *)

\* system() holds only within steps that are atomic here: the startup and the
\* resolution of a principal.
Scoped(t) == ctx[t] # NoOrg

\* The mode decides a scoped SELECT and the guard of a scoped UPDATE.  (An
\* INSERT looks it up too, without effect: its row has no organization yet.)
Asks(t) == req[t].todo # <<>> /\ Head(req[t].todo).hook \in {"select", "update"} /\ Scoped(t)

\* The thread reads the clock and the cached value, then compares the expiry
\* without the lock; exp keeps what the expiry was (history).
enforce_mode(t) ==
  /\ req[t].at = "run" /\ Asks(t)
  /\ req' = [req EXCEPT ![t].at = "looked",
               ![t].look = [Undecided EXCEPT !.now = clock, !.val = cache.val, !.exp = cache.exp]]
  /\ UNCHANGED <<clock, up, done, session, tables, toggles, ctx, ops>>

\* In force long enough for every cached copy to have expired.
Sure(l) == setting = "enforce" /\ l.now >= since + TTL /\ ~l.odd

Decide(t, l) ==
  req' = [req EXCEPT ![t].at = "decided", ![t].look = [l EXCEPT !.sure = Sure(l)]]

\* odd: the entry was replaced between the two reads.
cache_hit(t) ==
  LET l == req[t].look
  IN /\ req[t].at = "looked" /\ l.val # NoOrg /\ l.now < cache.exp
     /\ Decide(t, [l EXCEPT !.odd = cache.exp # l.exp])
     /\ UNCHANGED <<clock, up, done, session, tables, toggles, ctx, ops>>

\* A miss reads the settings row; one that cannot be read means shadow, and
\* is not kept.
get_on_session(t) ==
  LET l == req[t].look
  IN /\ req[t].at = "looked" /\ (l.val = NoOrg \/ ~(l.now < cache.exp))
     /\ \/ req' = [req EXCEPT ![t].at = "got", ![t].look = [l EXCEPT !.val = setting, !.exp = 0]]
        \/ Decide(t, [l EXCEPT !.val = "shadow", !.odd = TRUE])
     /\ UNCHANGED <<clock, up, done, session, tables, toggles, ctx, ops>>

ExpiryWhenStored(l) == clock + TTL

Expiry(l) == l.now + TTL

\* A read for the write guard is not kept: it may see an uncommitted toggle.
Cacheable(r) == Head(r.todo).hook = "select"

cache_store(t) ==
  LET l == req[t].look
  IN /\ req[t].at = "got"
     /\ cache' = IF Cacheable(req[t]) THEN [val |-> l.val, exp |-> Expiry(l)] ELSE cache
     /\ Decide(t, l)
     /\ UNCHANGED <<clock, up, done, session, tables, setting, since, dirty, rbac, ctx, ops>>

\* set_ or delete of the toggle, here or in another process: only this
\* process's callback, after the commit, drops the cached value.
set_(mode, here) ==
  /\ Changed /\ setting' = mode /\ since' = clock
  /\ dirty' = (dirty \/ here)
  /\ UNCHANGED <<clock, up, done, session, tables, cache, rbac, ctx, req>>

invalidate_enforce_mode_cache ==
  /\ dirty /\ dirty' = FALSE /\ cache' = Unset
  /\ UNCHANGED <<clock, up, done, session, tables, setting, since, rbac, ctx, req, ops>>

settings_system_save_submit(mode) ==
  /\ Changed /\ rbac # mode /\ rbac' = mode
  /\ UNCHANGED <<clock, up, done, session, tables, setting, since, cache, dirty, ctx, req>>

-----------------------------------------------------------------------------
(* The statements of a request: which rows they see, which they may write. *)

Stmt(hook, name, arg) == [hook |-> hook, name |-> name, arg |-> arg]
Arg(t) == Head(req[t].todo).arg

Ready(t, name) ==
  /\ req[t].todo # <<>> /\ Head(req[t].todo).name = name
  /\ req[t].at = IF Asks(t) THEN "decided" ELSE "run"

\* The rows a SELECT may return, by their organization.
_add_tenant_filter(t, org) == Scoped(t) /\ req[t].look.val = "enforce" => org = ctx[t]

\* An UPDATE of another organization's row passes in shadow mode only.
_guard_one(t, org) == Scoped(t) /\ req[t].look.val = "enforce" => org \in {NoOrg, ctx[t]}

\* A statement that touched these organizations is done, more of them follow.
Proceeds(t, orgs, sure, more) ==
  req' = [req EXCEPT ![t].at = "run", ![t].todo = more, ![t].look = Undecided, ![t].scope = {},
            ![t].touched = @ \cup IF sure THEN orgs ELSE {}]

Raises(t) == req' = [req EXCEPT ![t].at = "run", ![t].todo = <<>>, ![t].look = Undecided, ![t].failed = TRUE]

Rest(t) == Tail(req[t].todo)

\* list_sites, first half: the RBAC mode and the scope of the caller's own
\* bindings.  Nobody is exempt: the super-admin test gets an id, not a user.
effective_site_ids(t) ==
  LET seen == {b \in binding : b.user = req[t].user /\ _add_tenant_filter(t, b.org)}
      all == rbac = "shadow" \/ \E b \in seen : b.scope = "global"
  IN /\ Ready(t, "bindings")
     /\ req' = [req EXCEPT ![t].at = "run", ![t].todo = Rest(t), ![t].look = Undecided,
                  ![t].scope = IF all THEN Sites ELSE {b.scope : b \in seen},
                  ![t].touched = @ \cup IF req[t].look.sure THEN {b.org : b \in seen} ELSE {}]
     /\ UNCHANGED <<clock, up, done, session, tables, toggles, ctx, ops>>

\* list_sites, second half.
filter_sites_with_shadow_logging(t) ==
  /\ Ready(t, "sites")
  /\ Proceeds(t, {site[s] : s \in {x \in Existing \cap req[t].scope : _add_tenant_filter(t, site[x])}},
              req[t].look.sure, Rest(t))
  /\ UNCHANGED <<clock, up, done, session, tables, toggles, ctx, ops>>

\* Without a scope the NOT NULL column refuses the row.
create_site(t) ==
  /\ Ready(t, "create_site")
  /\ IF Scoped(t) /\ site[Arg(t)] = NoRow
     THEN site' = [site EXCEPT ![Arg(t)] = ctx[t]] /\ Proceeds(t, {ctx[t]}, TRUE, Rest(t))
     ELSE Raises(t) /\ UNCHANGED site
  /\ UNCHANGED <<clock, up, done, session, member, device, binding, token, toggles, ctx, ops>>

\* The row is found through the filter and deleted in the same transaction;
\* no guard looks at deletions.  A plug's site cannot go: its column is NOT NULL.
delete_site(t) ==
  LET s == Arg(t)
  IN /\ Ready(t, "delete_site")
     /\ IF s \notin Existing \/ ~_add_tenant_filter(t, site[s]) THEN Proceeds(t, {}, FALSE, Rest(t)) /\ UNCHANGED site
        ELSE IF device = s THEN Raises(t) /\ UNCHANGED site
        ELSE Proceeds(t, {site[s]}, req[t].look.sure, Rest(t)) /\ site' = [site EXCEPT ![s] = NoRow]
     /\ UNCHANGED <<clock, up, done, session, member, device, binding, token, toggles, ctx, ops>>

\* grant updates the binding it finds, else inserts one of the active scope.
grant(t) ==
  LET mine == {b \in binding : b.user = Arg(t).user /\ b.scope = Arg(t).scope /\ _add_tenant_filter(t, b.org)}
  IN /\ Ready(t, "grant")
     /\ \/ \E b \in mine : Proceeds(t, {b.org}, req[t].look.sure, <<Stmt("update", "regrant", b.org)>>)
        \/ mine = {} /\ Proceeds(t, {}, FALSE, <<Stmt("insert", "new_binding", Arg(t))>>)
     /\ UNCHANGED <<clock, up, done, session, tables, toggles, ctx, ops>>

new_binding(t) ==
  LET b == [org |-> ctx[t], user |-> Arg(t).user, scope |-> Arg(t).scope]
  IN /\ Ready(t, "new_binding")
     /\ IF Scoped(t) /\ (b \notin binding \/ b.scope = "global")
        THEN binding' = binding \cup {b} /\ Proceeds(t, {b.org}, TRUE, Rest(t))
        ELSE Raises(t) /\ UNCHANGED binding
     /\ UNCHANGED <<clock, up, done, session, member, site, device, token, toggles, ctx, ops>>

\* The new role of a binding, or the revoked flag of a token, is flushed.
flush_update(t, name) ==
  /\ Ready(t, name)
  /\ IF _guard_one(t, Arg(t)) THEN Proceeds(t, {Arg(t)}, req[t].look.sure, Rest(t)) ELSE Raises(t)
  /\ token' = IF name = "revoked" /\ _guard_one(t, Arg(t)) THEN [token EXCEPT !.live = FALSE] ELSE token
  /\ UNCHANGED <<clock, up, done, session, member, site, device, binding, toggles, ctx, ops>>

mint(t) ==
  /\ Ready(t, "mint")
  /\ IF Scoped(t) THEN token' = [org |-> ctx[t], live |-> TRUE] /\ Proceeds(t, {ctx[t]}, TRUE, Rest(t))
     ELSE Raises(t) /\ UNCHANGED token
  /\ UNCHANGED <<clock, up, done, session, member, site, device, binding, toggles, ctx, ops>>

revoke(t) ==
  /\ Ready(t, "revoke")
  /\ IF token # NoToken /\ _add_tenant_filter(t, token.org)
     THEN Proceeds(t, {token.org}, req[t].look.sure, <<Stmt("update", "revoked", token.org)>>)
     ELSE Proceeds(t, {}, FALSE, Rest(t))
  /\ UNCHANGED <<clock, up, done, session, tables, toggles, ctx, ops>>

\* A registering plug without a site: "Default", else the only site, else a
\* new "Default" of the default organization.
resolve_default_site_id(t) ==
  LET seen == {s \in Existing : _add_tenant_filter(t, site[s])}
      taken == site[DefaultSite] # NoRow
  IN /\ Ready(t, "default_site")
     /\ IF DefaultSite \in seen \/ Cardinality(seen) = 1
        THEN Proceeds(t, {site[s] : s \in seen}, req[t].look.sure, Rest(t)) /\ UNCHANGED site
        ELSE IF ~Organized \/ taken \/ ~_guard_one(t, DefaultOrg) THEN Raises(t) /\ UNCHANGED site
        ELSE /\ site' = [site EXCEPT ![DefaultSite] = DefaultOrg]
             /\ Proceeds(t, {DefaultOrg}, Scoped(t), Rest(t))
     /\ UNCHANGED <<clock, up, done, session, member, device, binding, token, toggles, ctx, ops>>

\* An audit row stamps itself with the active organization, or none.
record(t) ==
  /\ Ready(t, "audit")
  /\ Proceeds(t, {ctx[t]} \ {NoOrg}, TRUE, Rest(t))
  /\ UNCHANGED <<clock, up, done, session, tables, toggles, ctx, ops>>

-----------------------------------------------------------------------------
(* Requests: the principal is resolved under system(), its organization    *)
(* bound to the thread, the view runs, the teardown clears the thread.     *)

list_sites(u) == <<Stmt("select", "bindings", u), Stmt("select", "sites", u)>>
settings_api_tokens_create_submit(u) == <<Stmt("insert", "mint", u)>>
settings_api_tokens_revoke_submit(u) == <<Stmt("select", "revoke", u)>>
create_site_submit(s) == <<Stmt("insert", "create_site", s)>>
delete_site_submit(s) == <<Stmt("select", "delete_site", s)>>
grant_user_binding(u, x) == <<Stmt("select", "grant", [user |-> u, scope |-> x])>>

Handlers(u) ==
  {list_sites(u), settings_api_tokens_create_submit(u), settings_api_tokens_revoke_submit(u)}
  \cup {create_site_submit(s) : s \in Named \ Existing}
  \cup {delete_site_submit(s) : s \in Named \cap Existing}
  \cup {grant_user_binding(u, x) : x \in Named \cup {"global"}}

\* The session's organization is honoured only for a current member; the
\* head of the membership list otherwise.
resolve_active_org(u) ==
  IF member[u] = {} THEN {NoOrg}
  ELSE IF session[u] \in member[u] \ Closed THEN {session[u]}
  ELSE member[u]

Begins(t, org, r) ==
  /\ req[t] = Idle /\ Served
  /\ ctx' = [ctx EXCEPT ![t] = org] /\ req' = [req EXCEPT ![t] = r]
  /\ UNCHANGED <<clock, up, done, tables, toggles>>

\* A failure to bind is logged and the request goes on without a scope.
_bind_tenant_scope(t, u) ==
  \E todo \in Handlers(u) :
    \/ \E org \in resolve_active_org(u) :
         /\ Begins(t, org, Request(u, member[u], todo))
         /\ session' = [session EXCEPT ![u] = IF org = NoOrg THEN @ ELSE org]
    \/ Begins(t, ctx[t], Request(u, member[u], todo)) /\ UNCHANGED session

device_auth_required(t) ==
  LET org == IF device \in Existing THEN site[device] ELSE NoOrg
  IN /\ Begins(t, org, Request(NoOrg, {org}, <<Stmt("insert", "audit", NoOrg)>>))
     /\ UNCHANGED session

\* The routes that take an API token verify it and bind nothing.
services_enqueue(t) ==
  /\ token.live
  /\ Begins(t, ctx[t], Request(NoOrg, {}, <<Stmt("insert", "audit", NoOrg)>>))
  /\ UNCHANGED session

register_request(t) ==
  /\ Begins(t, ctx[t], Request(NoOrg, {}, <<Stmt("select", "default_site", NoOrg)>>))
  /\ UNCHANGED session

\* Any view may raise between two statements.
view_fails(t) ==
  /\ req[t].at = "run" /\ req[t].todo # <<>> /\ Raises(t)
  /\ UNCHANGED <<clock, up, done, session, tables, toggles, ctx, ops>>

reset(t) == ctx' = [ctx EXCEPT ![t] = NoOrg]

after_request_only(t) == IF req[t].failed THEN UNCHANGED ctx ELSE reset(t)

\* The teardown runs whether the view returned or raised.
register_tenant_teardown(t) == reset(t)

request_ends(t) ==
  /\ req[t] # Idle /\ req[t].todo = <<>>
  /\ register_tenant_teardown(t) /\ req' = [req EXCEPT ![t] = Idle]
  /\ UNCHANGED <<clock, up, done, session, tables, toggles, ops>>

-----------------------------------------------------------------------------
(* The world.                                                              *)

Second ==
  /\ Serving /\ clock < MaxTime /\ clock' = clock + 1
  /\ UNCHANGED <<up, done, session, tables, toggles, ctx, req, ops>>

\* Organizations and memberships are kept by hand; an invited account has none.
Provision(u, orgs) ==
  /\ Changed /\ member[u] # orgs /\ member' = [member EXCEPT ![u] = orgs]
  /\ UNCHANGED <<clock, up, done, session, site, device, binding, token, toggles, ctx, req>>

Restart ==
  /\ Changed /\ up' = 0 /\ cache' = Unset /\ dirty' = FALSE
  /\ ctx' = [t \in Threads |-> NoOrg] /\ req' = [t \in Threads |-> Idle]
  /\ UNCHANGED <<clock, done, session, tables, setting, since, rbac>>

\* A database from before the organizations, whose rows have none.
Legacy ==
  /\ done = {} /\ member = [u \in Users |-> {}]
  /\ site = [s \in Sites |-> IF s = DefaultSite THEN NoRow ELSE NoOrg]
  /\ device = NoRow /\ binding = {}

\* One that serves several organizations: every account is a member of
\* all, and each organization has a site.
Shared ==
  /\ done = 1 .. 3 /\ member = [u \in Users |-> Orgs]
  /\ site \in [Sites -> Orgs] /\ Orgs = {site[s] : s \in Sites}
  /\ site[DefaultSite] = DefaultOrg /\ device = DefaultSite
  /\ binding = [org : Orgs, user : Users, scope : {"global"}]

Init ==
  /\ Legacy \/ Shared
  /\ clock = 0 /\ up = 0 /\ ops = [req |-> 0, chg |-> 0]
  /\ session = [u \in Users |-> NoOrg] /\ token = NoToken
  /\ setting = "shadow" /\ since = 0 - TTL /\ rbac = "shadow"
  /\ cache = Unset /\ dirty = FALSE
  /\ ctx = [t \in Threads |-> NoOrg] /\ req = [t \in Threads |-> Idle]

Lookup(t) == enforce_mode(t) \/ cache_hit(t) \/ get_on_session(t) \/ cache_store(t)

Statement(t) ==
  \/ effective_site_ids(t) \/ filter_sites_with_shadow_logging(t)
  \/ create_site(t) \/ delete_site(t) \/ grant(t) \/ new_binding(t)
  \/ flush_update(t, "regrant") \/ flush_update(t, "revoked")
  \/ mint(t) \/ revoke(t) \/ resolve_default_site_id(t) \/ record(t)

Serve(t) ==
  \/ \E u \in Users : _bind_tenant_scope(t, u)
  \/ device_auth_required(t) \/ services_enqueue(t) \/ register_request(t)
  \/ view_fails(t) \/ request_ends(t)

Settings ==
  \/ \E m \in Modes, here \in BOOLEAN : setting # m /\ set_(m, here)
  \/ invalidate_enforce_mode_cache
  \/ \E m \in Modes : settings_system_save_submit(m)

Next ==
  \/ run_startup_bootstrap \/ Second \/ Restart \/ Settings
  \/ \E u \in Users, orgs \in SUBSET Orgs : Provision(u, orgs)
  \/ \E t \in Threads : Lookup(t) \/ Statement(t) \/ Serve(t)

Spec == Init /\ [][Next]_vars

-----------------------------------------------------------------------------
(* Properties.                                                             *)

\* Every variable keeps its shape.
TypeOK ==
  /\ clock \in 0 .. MaxTime /\ up \in 0 .. 3 /\ member \in [Users -> SUBSET Orgs]
  /\ site \in [Sites -> Orgs \cup {NoOrg, NoRow}] /\ device \in Sites \cup {NoRow}
  /\ setting \in Modes /\ cache.val \in Modes \cup {NoOrg}

\* Once isolation has been enforced for the lifetime of a cached copy, a
\* request that runs under a scope touches the rows of its own principal's
\* organizations and no others: no scope is inherited from the request its
\* thread served before, whatever became of that one (admin_auth.py:272).
OnlyOwnRows ==
  \A t \in Threads : req[t].touched \subseteq req[t].own

\* A toggle takes effect everywhere within TTL: a decision that differs from
\* the setting was begun before, unless the settings row could not be read or
\* the cached entry was replaced between the read of its value and of its
\* expiry (tenant_scope.py:267).
DecisionIsCurrent ==
  [][\A t \in Threads :
       req[t].at # "decided" /\ req'[t].at = "decided" /\ ~req'[t].look.odd /\ req'[t].look.val # setting =>
         req'[t].look.now < since + TTL]_vars

=============================================================================
