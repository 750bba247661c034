--------------------------- MODULE EnrollmentProofs ---------------------------
(***************************************************************************)
(* Enrollment for every number of plugs, workers, tokens and devices: a    *)
(* token registers one device, two active rows of one plug need            *)
(* registrations that overlapped, and a row does not go on offering a used *)
(* token.                                                                  *)
(*                                                                         *)
(* The argument.  A token that can still be redeemed is no device's        *)
(* credential (CredInv), and the lock gives it to one registration at a    *)
(* time (LockInv).  A token belongs to one plug from the moment it is      *)
(* minted (OwnerInv), so the registration that uses it is the one whose    *)
(* cross-link clears the row that offers it.  What the duplicate check of  *)
(* a registration saw still holds at its commit, or a registration of the  *)
(* same plug has committed meanwhile (CheckInv).                           *)
(***************************************************************************)
EXTENDS Enrollment, TLAPS, WellFoundedInduction

\* The requests a worker can be serving.
Register == [op: {"register"}, p: Plugs, t: Tokens, form: Forms, lost: BOOLEAN]
Link == [op: {"link", "reply"}, p: Plugs, lost: BOOLEAN, t: Tokens]
Adopt == [op: {"adopt"}, p: Plugs, t: Tokens, gone: BOOLEAN]
Replace == [op: {"replace"}, p: Plugs]
Revoke == [op: {"revoke"}, t: Tokens]

Firmware == [secret: Tokens \cup {None}, cred: Tokens \cup {None}, form: Forms]

TypeInv ==
  /\ ann \in [Plugs -> Announcement \cup {NoRow}]
  /\ tok \in [Tokens -> EnrollmentToken]
  /\ dev \in [Devices -> Device]
  /\ plug \in [Plugs -> Firmware]
  /\ job \in [Workers -> {Idle} \cup Register \cup Link \cup Adopt \cup Replace \cup Revoke]

\* The token a row offers.
Offers(p, t) == Exists(p) /\ ann[p].secret = t

\* A registration or an adoption of plug p that has token t.
Has(w, p, t) == job[w].op \in {"register", "adopt"} /\ job[w].p = p /\ job[w].t = t

Belongs(p, t) == Offers(p, t) \/ plug[p].secret = t \/ \E w \in Workers : Has(w, p, t)

OwnerInv ==
  \A p \in Plugs, t \in Tokens : Belongs(p, t) =>
    tok[t].st # "unminted" /\ \A q \in Plugs : Belongs(q, t) => p = q

\* The token of an adoption that has yet to commit is known to nobody else.
AdoptInv ==
  \A w \in Workers : job[w].op = "adopt" =>
    /\ tok[job[w].t].st \in {"live", "deleted"}
    /\ \A q \in Plugs : ~Offers(q, job[w].t) /\ plug[q].secret # job[w].t
    /\ \A v \in Workers \ {w} : \A q \in Plugs : ~Has(v, q, job[w].t)
    /\ ~job[w].gone => Exists(job[w].p)

CredInv ==
  /\ \A d \in Devices : dev[d].cred # None => tok[dev[d].cred].st \in {"consumed", "deleted"}
  /\ \A w \in Workers, d \in Devices : job[w].op = "register" => dev[d].cred # job[w].t

LockInv ==
  \A v, w \in Workers : job[v].op = "register" /\ job[w].op = "register" /\ job[v].t = job[w].t => v = w

\* A token is only ever minted for a device that exists.
TargetInv == \A t \in Tokens : tok[t].target # None => dev[tok[t].target].st # "none"

\* What a registration that is past its checks relies on.
CheckInv ==
  \A w \in Workers : job[w].op = "register" =>
    LET target == tok[job[w].t].target
        mac == <<job[w].p, job[w].form>>
    IN /\ target # None => TextMac(target) = mac
       /\ job[w].p \in raced \/ \A d \in Devices \ {target} : dev[d].st = "active" => TextMac(d) # mac

IInv == TypeInv /\ OwnerInv /\ AdoptInv /\ CredInv /\ LockInv /\ TargetInv /\ CheckInv
          /\ TokenRegistersOneDevice /\ DuplicateNeedsRace /\ OfferedTokenIsFresh

-----------------------------------------------------------------------------
(* The operators                                                           *)

USE EnrollmentAssumption

\* The smallest member of a set of numbers is one of them.
LEMMA MinOfNaturals ==
    ASSUME NEW S \in SUBSET Nat, S # {}
    PROVE  Min(S) \in S /\ \A y \in S : Min(S) <= y
  <1> DEFINE R == {ss \in Nat \X Nat : ss[1] < ss[2]}
  <1>1. OpToRel(<, Nat) = R
    BY DEF OpToRel
  <1>2. IsWellFoundedOn(R, Nat)
    BY <1>1, NatLessThanWellFounded, Zenon
  <1> HIDE DEF R
  <1>3. PICK x \in S : \A y \in S : <<y, x>> \notin R
    BY <1>2, WFMin
  <1>4. \A y \in S : x <= y
    <2> SUFFICES ASSUME NEW y \in S, ~ (x <= y) PROVE FALSE
      OBVIOUS
    <2>1. y < x
      OBVIOUS
    <2>2. <<y, x>> \in R
      BY <2>1 DEF R
    <2> QED
      BY <1>3, <2>2
  <1> QED
    BY <1>4 DEF Min

LEMMA NextToken ==
    ASSUME Free # {}
    PROVE  Min(Free) \in Tokens /\ tok[Min(Free)].st = "unminted" /\ Min(Free) # None
  <1>1. Free \in SUBSET Nat
    BY DEF Free, Tokens
  <1>2. Min(Free) \in Free
    BY <1>1, MinOfNaturals
  <1> QED
    BY <1>2 DEF Free, Tokens, None

LEMMA NextDevice ==
    ASSUME Unused # {}
    PROVE  Min(Unused) \in Devices /\ dev[Min(Unused)].st = "none" /\ Min(Unused) # None
  <1>1. Unused \in SUBSET Nat
    BY DEF Unused, Devices
  <1>2. Min(Unused) \in Unused
    BY <1>1, MinOfNaturals
  <1> QED
    BY <1>2 DEF Unused, Devices, None

LEMMA NoneIsNone == None \notin Tokens /\ None \notin Devices
  BY DEF None, Tokens, Devices

\* What a job is by its operation.
LEMMA JobShape ==
    ASSUME TypeInv, NEW w \in Workers
    PROVE  /\ job[w].op = "register" => job[w] \in Register
           /\ job[w].op \in {"link", "reply"} => job[w] \in Link
           /\ job[w].op = "adopt" => job[w] \in Adopt
           /\ job[w].op = "replace" => job[w] \in Replace
           /\ job[w].op = "revoke" => job[w] \in Revoke
  <1>1. job[w] \in {Idle} \cup Register \cup Link \cup Adopt \cup Replace \cup Revoke
    BY DEF TypeInv
  <1>2. /\ job[w] \in Register => job[w].op = "register"
        /\ job[w] \in Link => job[w].op \in {"link", "reply"}
        /\ job[w] \in Adopt => job[w].op = "adopt"
        /\ job[w] \in Replace => job[w].op = "replace"
        /\ job[w] \in Revoke => job[w].op = "revoke"
        /\ job[w] = Idle => job[w].op = "idle"
    BY DEF Idle, Register, Link, Adopt, Replace, Revoke
  <1> QED
    BY <1>1, <1>2

-----------------------------------------------------------------------------
(* A step that neither begins nor commits a registration.                  *)

\* x: the token the step mints, or None.
TokensKeep(x) ==
  /\ \A t \in Tokens \ {x} : tok'[t].target = tok[t].target /\ tok'[t].st \in {tok[t].st, "deleted"}
  /\ x # None => /\ tok[x].st = "unminted" /\ tok'[x].st = "live"
                 /\ tok'[x].target # None => dev[tok'[x].target].st # "none"

DevicesKeep ==
  /\ raced' = raced
  /\ \A d \in Devices : /\ TextMac(d)' = TextMac(d) /\ dev'[d].mac = dev[d].mac /\ dev'[d].cred = dev[d].cred
                        /\ dev'[d].st = "active" => dev[d].st = "active"
                        /\ dev'[d].st = "none" => dev[d].st = "none"

\* A plug is told what its row offers; plug p is given x, by its row or by hand.
RowsKeep(p, x) ==
  \A q \in Plugs, t \in Tokens :
    /\ Offers(q, t)' => Offers(q, t) \/ (q = p /\ t = x)
    /\ plug'[q].secret = t => plug[q].secret = t \/ Offers(q, t) \/ (q = p /\ t = x)

\* No registration begins; worker v may begin an adoption of p with token x.
JobsKeep(v, p, x) ==
  \A w \in Workers :
    /\ job'[w].op = "register" =>
         /\ job[w].op = "register" /\ job'[w].p = job[w].p /\ job'[w].t = job[w].t
         /\ job'[w].form = job[w].form
    /\ job'[w].op = "adopt" =>
         /\ \/ job[w].op = "adopt" /\ job'[w].p = job[w].p /\ job'[w].t = job[w].t
            \/ w = v /\ x # None /\ job'[w].p = p /\ job'[w].t = x
         /\ ~job'[w].gone => Exists(job[w].p)'

\* A cross-link is still to come, failed, or left a row that offers nothing.
LinksKeep ==
  /\ missed \subseteq missed'
  /\ \A w \in Workers, q \in Plugs : job[w].op = "link" /\ job[w].p = q =>
       \/ job'[w].op = "link" /\ job'[w].p = q
       \/ q \in missed'
       \/ \A t \in Tokens : ~Offers(q, t)'

LEMMA OtherStep ==
    ASSUME IInv, TypeInv', NEW x \in Tokens \cup {None}, NEW y \in {None, x}, NEW z \in {None, x},
           y = None \/ z = None, NEW p \in Plugs, NEW v,
           TokensKeep(x), DevicesKeep, RowsKeep(p, y), JobsKeep(v, p, z), LinksKeep
    PROVE  IInv'
  <1>1. \A w \in Workers, q \in Plugs, t \in Tokens :
          Has(w, q, t)' => Has(w, q, t) \/ (w = v /\ q = p /\ t = z /\ job'[w].op = "adopt")
    BY DEF JobsKeep, Has
  <1>2. \A q \in Plugs, t \in Tokens : Belongs(q, t)' => Belongs(q, t) \/ (q = p /\ t = x)
    <2> SUFFICES ASSUME NEW q \in Plugs, NEW t \in Tokens, Belongs(q, t)'
                 PROVE  Belongs(q, t) \/ (q = p /\ t = x)
      OBVIOUS
    <2>1. CASE Offers(q, t)'
      BY <2>1, NoneIsNone DEF RowsKeep, Belongs
    <2>2. CASE plug'[q].secret = t
      BY <2>2, NoneIsNone DEF RowsKeep, Belongs
    <2>3. CASE \E w \in Workers : Has(w, q, t)'
      BY <1>1, <2>3, NoneIsNone DEF Belongs
    <2> QED
      BY <2>1, <2>2, <2>3 DEF Belongs
  <1>3. \A q \in Plugs : x \in Tokens => ~Belongs(q, x)
    BY NoneIsNone DEF TokensKeep, IInv, OwnerInv
  <1>4. OwnerInv'
    <2> SUFFICES ASSUME NEW q \in Plugs, NEW t \in Tokens, Belongs(q, t)'
                 PROVE  tok'[t].st # "unminted" /\ \A r \in Plugs : Belongs(r, t)' => q = r
      BY DEF OwnerInv
    <2>1. CASE t = x
      BY <1>2, <1>3, <2>1, NoneIsNone DEF TokensKeep
    <2>2. CASE t # x
      BY <1>2, <2>2 DEF TokensKeep, IInv, OwnerInv
    <2> QED
      BY <2>1, <2>2
  <1>5. \A w \in Workers : Has(w, job[w].p, job[w].t) <=> job[w].op \in {"register", "adopt"}
    BY DEF Has
  <1>6. \A w \in Workers : job[w].op \in {"register", "adopt"} =>
          /\ job[w].p \in Plugs /\ job[w].t \in Tokens /\ job[w].t # x
          /\ tok'[job[w].t].st \in {tok[job[w].t].st, "deleted"} /\ tok'[job[w].t].target = tok[job[w].t].target
    <2> SUFFICES ASSUME NEW w \in Workers, job[w].op \in {"register", "adopt"}
                 PROVE  /\ job[w].p \in Plugs /\ job[w].t \in Tokens /\ job[w].t # x
                        /\ tok'[job[w].t].st \in {tok[job[w].t].st, "deleted"}
                        /\ tok'[job[w].t].target = tok[job[w].t].target
      OBVIOUS
    <2>1. job[w].p \in Plugs /\ job[w].t \in Tokens
      BY JobShape DEF IInv, Register, Adopt
    <2>2. Belongs(job[w].p, job[w].t)
      BY <1>5 DEF Belongs
    <2>3. job[w].t # x
      BY <1>3, <2>1, <2>2
    <2> QED
      BY <2>1, <2>3 DEF TokensKeep
  <1>7. AdoptInv'
    <2> SUFFICES ASSUME NEW w \in Workers, job'[w].op = "adopt"
                 PROVE  /\ tok'[job'[w].t].st \in {"live", "deleted"}
                        /\ \A q \in Plugs : ~Offers(q, job[w].t)' /\ plug'[q].secret # job'[w].t
                        /\ \A u \in Workers \ {w} : \A q \in Plugs : ~Has(u, q, job[w].t)'
                        /\ ~job'[w].gone => Exists(job[w].p)'
      BY DEF AdoptInv
    <2>1. ~job'[w].gone => Exists(job[w].p)'
      BY DEF JobsKeep, Exists
    <2>2. CASE job[w].op = "adopt" /\ job'[w].p = job[w].p /\ job'[w].t = job[w].t
      <3>1. tok'[job'[w].t].st \in {"live", "deleted"} /\ job[w].t \in Tokens /\ job[w].t # x
        BY <1>6, <2>2 DEF IInv, AdoptInv
      <3>2. \A q \in Plugs : ~Offers(q, job[w].t) /\ plug[q].secret # job[w].t
        BY <2>2 DEF IInv, AdoptInv
      <3>3. \A q \in Plugs : ~Offers(q, job[w].t)' /\ plug'[q].secret # job'[w].t
        BY <2>2, <3>1, <3>2, NoneIsNone DEF RowsKeep, Offers, Exists
      <3>4. \A u \in Workers \ {w} : \A q \in Plugs : ~Has(u, q, job[w].t)
        BY <2>2 DEF IInv, AdoptInv
      <3>5. \A u \in Workers \ {w} : \A q \in Plugs : ~Has(u, q, job[w].t)'
        <4> SUFFICES ASSUME NEW u \in Workers \ {w}, NEW q \in Plugs, Has(u, q, job[w].t)'
                     PROVE  FALSE
          OBVIOUS
        <4>1. PICK t \in Tokens : t = job[w].t /\ t = job'[w].t
          BY <2>2, <3>1
        <4>2. Has(u, q, t)'
          BY <4>1 DEF Has
        <4>3. ~Has(u, q, t) /\ t # x /\ t # None
          BY <3>1, <3>4, <4>1, NoneIsNone
        <4> QED
          BY <1>1, <4>2, <4>3
      <3> QED
        BY <2>1, <3>1, <3>3, <3>5
    <2>3. CASE w = v /\ z # None /\ job'[w].p = p /\ job'[w].t = z
      <3>1. z = x /\ y = None /\ x \in Tokens
        BY <2>3
      <3>2. tok'[job'[w].t].st \in {"live", "deleted"}
        BY <2>3, <3>1, NoneIsNone DEF TokensKeep
      <3>3. \A q \in Plugs : ~Offers(q, x)' /\ plug'[q].secret # x
        BY <1>3, <3>1, NoneIsNone DEF RowsKeep, Belongs
      <3>4. \A q \in Plugs : ~Offers(q, job[w].t)' /\ plug'[q].secret # job'[w].t
        BY <2>3, <3>1, <3>3 DEF Offers, Exists
      <3>5. \A u \in Workers \ {w}, q \in Plugs : ~Has(u, q, x)'
        BY <1>1, <1>3, <2>3, <3>1 DEF Belongs
      <3>6. \A u \in Workers \ {w} : \A q \in Plugs : ~Has(u, q, job[w].t)'
        BY <2>3, <3>1, <3>5 DEF Has
      <3> QED
        BY <2>1, <3>2, <3>4, <3>6
    <2> QED
      BY <2>2, <2>3 DEF JobsKeep
  <1>8. CredInv'
    <2>1. \A d \in Devices : dev'[d].cred # None => tok'[dev'[d].cred].st \in {"consumed", "deleted"}
      <3> SUFFICES ASSUME NEW d \in Devices, dev'[d].cred # None
                   PROVE  tok'[dev'[d].cred].st \in {"consumed", "deleted"}
        OBVIOUS
      <3>1. PICK t \in Tokens : t = dev[d].cred /\ t = dev'[d].cred
        BY DEF IInv, TypeInv, Device, DevicesKeep
      <3>2. tok[t].st \in {"consumed", "deleted"}
        BY <3>1, NoneIsNone DEF IInv, CredInv
      <3>3. t # x
        BY <3>2, NoneIsNone DEF TokensKeep
      <3> QED
        BY <3>1, <3>2, <3>3 DEF TokensKeep
    <2>2. \A w \in Workers, d \in Devices : job'[w].op = "register" => dev'[d].cred # job'[w].t
      BY DEF IInv, CredInv, JobsKeep, DevicesKeep
    <2> QED
      BY <2>1, <2>2 DEF CredInv
  <1>9. LockInv'
    BY DEF IInv, LockInv, JobsKeep
  <1>10. TargetInv'
    <2> SUFFICES ASSUME NEW t \in Tokens, tok'[t].target # None
                 PROVE  dev'[tok'[t].target].st # "none"
      BY DEF TargetInv
    <2>1. PICK d \in Devices : d = tok'[t].target
      BY DEF TypeInv, EnrollmentToken
    <2>2. dev[d].st # "none"
      BY <2>1, NoneIsNone DEF IInv, TargetInv, TokensKeep
    <2> QED
      BY <2>1, <2>2 DEF DevicesKeep
  <1>11. CheckInv'
    <2> SUFFICES ASSUME NEW w \in Workers, job'[w].op = "register"
                 PROVE  /\ tok'[job'[w].t].target # None =>
                             TextMac(tok[job[w].t].target)' = <<job'[w].p, job'[w].form>>
                        /\ \/ job'[w].p \in raced'
                           \/ \A d \in Devices \ {tok'[job'[w].t].target} :
                                dev'[d].st = "active" => TextMac(d)' # <<job'[w].p, job'[w].form>>
      BY DEF CheckInv
    <2>1. /\ job[w].op = "register" /\ job'[w].p = job[w].p /\ job'[w].t = job[w].t
          /\ job'[w].form = job[w].form
      BY DEF JobsKeep
    <2>2. PICK e \in Devices \cup {None} : e = tok[job[w].t].target /\ e = tok'[job'[w].t].target
      BY <1>6, <2>1 DEF IInv, TypeInv, EnrollmentToken
    <2>3. e # None => TextMac(e)' = TextMac(e)
      BY DEF DevicesKeep
    <2>4. TextMac(e)' = TextMac(tok[job[w].t].target)'
      BY <2>2 DEF TextMac
    <2>5. /\ e # None => TextMac(e) = <<job[w].p, job[w].form>>
          /\ \/ job[w].p \in raced
             \/ \A d \in Devices \ {e} : dev[d].st = "active" => TextMac(d) # <<job[w].p, job[w].form>>
      BY <2>1, <2>2 DEF IInv, CheckInv
    <2> QED
      BY <2>1, <2>2, <2>3, <2>4, <2>5 DEF DevicesKeep
  <1>12. TokenRegistersOneDevice' /\ DuplicateNeedsRace'
    BY DEF IInv, TokenRegistersOneDevice, DuplicateNeedsRace, DevicesKeep
  <1>13. OfferedTokenIsFresh'
    <2> SUFFICES ASSUME NEW q \in Plugs, NEW t \in Tokens, Offers(q, t)', tok'[t].st = "consumed"
                 PROVE  q \in missed' \/ \E w \in Workers : job'[w].op = "link" /\ job'[w].p = q
      <3>1. \A q \in Plugs : Exists(q)' /\ ann'[q].secret # None => ann'[q].secret \in Tokens
        BY DEF TypeInv, Announcement, Exists
      <3> QED
        BY <3>1 DEF OfferedTokenIsFresh, Offers
    <2>1. t # x
      BY NoneIsNone DEF TokensKeep
    <2>2. Offers(q, t) /\ tok[t].st = "consumed"
      BY <2>1, NoneIsNone DEF RowsKeep, TokensKeep
    <2>3. q \in missed \/ \E w \in Workers : job[w].op = "link" /\ job[w].p = q
      BY <2>2, NoneIsNone DEF IInv, OfferedTokenIsFresh, Offers
    <2> QED
      BY <2>3 DEF LinksKeep
  <1> QED
    BY <1>4, <1>7, <1>8, <1>9, <1>10, <1>11, <1>12, <1>13 DEF IInv

-----------------------------------------------------------------------------
(* What becomes of a row                                                   *)

\* One column is written.
LEMMA SetFlag ==
    ASSUME NEW r \in Announcement, NEW b \in BOOLEAN
    PROVE  /\ [r EXCEPT !.adopted = b] \in Announcement /\ [r EXCEPT !.adopted = b].secret = r.secret
           /\ [r EXCEPT !.delivered = b] \in Announcement /\ [r EXCEPT !.delivered = b].secret = r.secret
           /\ [r EXCEPT !.consumed = b] \in Announcement /\ [r EXCEPT !.consumed = b].secret = r.secret
           /\ [r EXCEPT !.rejected = b] \in Announcement /\ [r EXCEPT !.rejected = b].secret = r.secret
  BY DEF Announcement

LEMMA SetToken ==
    ASSUME NEW r \in Announcement, NEW x \in Tokens \cup {None}
    PROVE  /\ [r EXCEPT !.token = x] \in Announcement /\ [r EXCEPT !.token = x].secret = r.secret
           /\ [r EXCEPT !.secret = x] \in Announcement /\ [r EXCEPT !.secret = x].secret = x
  BY DEF Announcement

LEMMA FreshRow ==
    /\ NewAnnouncement \in Announcement /\ NewAnnouncement.secret = None
    /\ \A r \in Announcement : r # NoRow
  <1>1. NewAnnouncement \in Announcement
    BY DEF NewAnnouncement, Announcement
  <1>2. NewAnnouncement.secret = None
    BY DEF NewAnnouncement
  <1>3. ASSUME NEW r \in Announcement PROVE r # NoRow
    <2>1. "secret" \in DOMAIN r
      BY DEF Announcement
    <2>2. "secret" \notin DOMAIN NoRow
      BY DEF NoRow
    <2> QED
      BY <2>1, <2>2
  <1> QED
    BY <1>1, <1>2, <1>3

LEMMA OfferRow ==
    ASSUME NEW r \in Announcement, NEW x \in Tokens
    PROVE  /\ [r EXCEPT !.secret = x, !.token = x, !.delivered = FALSE] \in Announcement
           /\ [r EXCEPT !.secret = x, !.token = x, !.delivered = FALSE].secret = x
  <1>1. [r EXCEPT !.secret = x, !.token = x, !.delivered = FALSE]
          = [[[r EXCEPT !.secret = x] EXCEPT !.token = x] EXCEPT !.delivered = FALSE]
    OBVIOUS
  <1>2. [r EXCEPT !.secret = x] \in Announcement /\ [r EXCEPT !.secret = x].secret = x
    BY SetFlag, SetToken
  <1>3. /\ [[r EXCEPT !.secret = x] EXCEPT !.token = x] \in Announcement
        /\ [[r EXCEPT !.secret = x] EXCEPT !.token = x].secret = x
    BY <1>2, SetFlag, SetToken
  <1> QED
    BY <1>1, <1>3, SetFlag, SetToken

LEMMA RebindRow ==
    ASSUME NEW r \in Announcement, NEW x \in Tokens
    PROVE  LET q == [r EXCEPT !.adopted = TRUE, !.secret = x, !.token = x, !.delivered = FALSE, !.consumed = FALSE]
           IN  q \in Announcement /\ q.secret = x
  <1> DEFINE a == [r EXCEPT !.adopted = TRUE]
             b == [a EXCEPT !.secret = x, !.token = x, !.delivered = FALSE]
  <1>1. a \in Announcement
    BY SetFlag, SetToken
  <1> HIDE DEF a
  <1>2. b \in Announcement /\ b.secret = x
    BY <1>1, OfferRow
  <1>3. [r EXCEPT !.adopted = TRUE, !.secret = x, !.token = x, !.delivered = FALSE, !.consumed = FALSE]
          = [b EXCEPT !.consumed = FALSE]
    BY DEF a
  <1> HIDE DEF b
  <1> QED
    BY <1>2, <1>3, SetFlag, SetToken

LEMMA ConsumedRow ==
    ASSUME NEW r \in Announcement
    PROVE  LET q == [r EXCEPT !.consumed = TRUE, !.secret = None]
           IN  q \in Announcement /\ q.secret = None
  <1> DEFINE a == [r EXCEPT !.consumed = TRUE]
  <1>1. a \in Announcement
    BY SetFlag, SetToken
  <1>2. [r EXCEPT !.consumed = TRUE, !.secret = None] = [a EXCEPT !.secret = None]
    OBVIOUS
  <1> HIDE DEF a
  <1>3. [a EXCEPT !.secret = None] \in Announcement /\ [a EXCEPT !.secret = None].secret = None
    BY <1>1, SetToken, Zenon
  <1> QED
    BY <1>2, <1>3

LEMMA AdoptedRow ==
    ASSUME NEW r \in Announcement, NEW x \in Tokens
    PROVE  LET q == [r EXCEPT !.adopted = TRUE, !.secret = x, !.token = x]
           IN  q \in Announcement /\ q.secret = x
  <1> DEFINE a == [r EXCEPT !.adopted = TRUE]
             b == [a EXCEPT !.secret = x]
  <1>1. a \in Announcement
    BY SetFlag, SetToken
  <1> HIDE DEF a
  <1>2. b \in Announcement /\ b.secret = x
    BY <1>1, SetFlag, SetToken
  <1>3. [r EXCEPT !.adopted = TRUE, !.secret = x, !.token = x] = [b EXCEPT !.token = x]
    BY DEF a
  <1> HIDE DEF b
  <1>4. [b EXCEPT !.token = x] \in Announcement /\ [b EXCEPT !.token = x].secret = b.secret
    BY <1>2, SetToken, Zenon
  <1> QED
    BY <1>2, <1>3, <1>4

-----------------------------------------------------------------------------
(* Parts a step leaves alone                                               *)

Jobs == {Idle} \cup Register \cup Link \cup Adopt \cup Replace \cup Revoke

LEMMA TokensSame ==
    ASSUME UNCHANGED tok
    PROVE  TokensKeep(None)
  BY DEF TokensKeep

LEMMA DevicesSame ==
    ASSUME UNCHANGED <<dev, raced>>
    PROVE  DevicesKeep
  BY DEF DevicesKeep, TextMac

LEMMA RowsSame ==
    ASSUME UNCHANGED <<ann, plug>>, NEW p
    PROVE  RowsKeep(p, None)
  BY DEF RowsKeep, Offers, Exists

\* Rows stay, and registrations and adoptions go on as they are or end.
LEMMA JobsLeave ==
    ASSUME IInv, NEW v, NEW p,
           \A w \in Workers : job'[w] = job[w] \/ job'[w].op \notin {"register", "adopt"},
           \A q \in Plugs : Exists(q) => Exists(q)'
    PROVE  JobsKeep(v, p, None)
  <1> SUFFICES ASSUME NEW w \in Workers, job'[w] = job[w]
               PROVE  /\ job'[w].op = "register" =>
                           /\ job[w].op = "register" /\ job'[w].p = job[w].p /\ job'[w].t = job[w].t
                           /\ job'[w].form = job[w].form
                      /\ job'[w].op = "adopt" =>
                           /\ job[w].op = "adopt" /\ job'[w].p = job[w].p /\ job'[w].t = job[w].t
                           /\ ~job'[w].gone => Exists(job[w].p)'
    BY DEF JobsKeep
  <1>1. ASSUME job[w].op = "adopt", ~job[w].gone
        PROVE  Exists(job[w].p)'
    <2>1. PICK q \in Plugs : q = job[w].p /\ q = job'[w].p
      BY <1>1, JobShape DEF IInv, Adopt
    <2>2. Exists(q)
      BY <1>1, <2>1 DEF IInv, AdoptInv
    <2> QED
      BY <2>1, <2>2 DEF Exists
  <1> QED
    BY <1>1

LEMMA LinksSame ==
    ASSUME missed \subseteq missed', \A w \in Workers : job[w].op = "link" => job'[w] = job[w]
    PROVE  LinksKeep
  BY DEF LinksKeep

LEMMA SetJob ==
    ASSUME TypeInv, NEW w \in Workers, NEW x \in Jobs, job' = [job EXCEPT ![w] = x]
    PROVE  /\ job' \in [Workers -> Jobs] /\ job'[w] = x
           /\ \A u \in Workers \ {w} : job'[u] = job[u]
  BY DEF TypeInv, Jobs

LEMMA SetAnn ==
    ASSUME TypeInv, NEW p \in Plugs, NEW r \in Announcement \cup {NoRow}, ann' = [ann EXCEPT ![p] = r]
    PROVE  /\ ann' \in [Plugs -> Announcement \cup {NoRow}] /\ ann'[p] = r
           /\ \A q \in Plugs \ {p} : ann'[q] = ann[q]
  BY DEF TypeInv

LEMMA AnnShape ==
    ASSUME TypeInv, NEW p \in Plugs
    PROVE  (Exists(p) => ann[p] \in Announcement) /\ NoRow \notin Announcement
  BY FreshRow DEF TypeInv, Exists

\* The operator and the plug write one column of a row: the secret stays or goes.
LEMMA WriteRow ==
    ASSUME IInv, NEW p \in Plugs, Exists(p), UNCHANGED <<tok, dev, plug, raced, missed, job>>,
           NEW r \in Announcement, ann' = [ann EXCEPT ![p] = r], r.secret \in {None, ann[p].secret}
    PROVE  IInv'
  <1>1. /\ ann' \in [Plugs -> Announcement \cup {NoRow}] /\ ann'[p] = r
        /\ \A q \in Plugs \ {p} : ann'[q] = ann[q]
    BY SetAnn DEF IInv
  <1>2. TypeInv'
    BY <1>1 DEF IInv, TypeInv
  <1>3. \A q \in Plugs : Exists(q) => Exists(q)'
    BY <1>1, FreshRow DEF Exists
  <1>4. RowsKeep(p, None)
    BY <1>1, NoneIsNone DEF RowsKeep, Offers, Exists
  <1>5. JobsKeep(None, p, None)
    BY <1>3, JobsLeave
  <1>6. LinksKeep
    BY LinksSame
  <1> QED
    BY <1>2, <1>4, <1>5, <1>6, TokensSame, DevicesSame, OtherStep

LEMMA RejectInv ==
    ASSUME IInv, NEW p \in Plugs, reject(p)
    PROVE  IInv'
  <1>1. UNCHANGED <<tok, dev, plug, raced, missed, job>> /\ Exists(p)
    BY DEF reject
  <1>2. ann' = [ann EXCEPT ![p] = [ann[p] EXCEPT !.rejected = TRUE]]
    BY DEF reject
  <1>3. PICK r : r = [ann[p] EXCEPT !.rejected = TRUE]
    OBVIOUS
  <1>4. r \in Announcement /\ r.secret = ann[p].secret
    BY <1>1, <1>3, AnnShape, SetFlag DEF IInv
  <1> QED
    BY <1>1, <1>2, <1>3, <1>4, WriteRow

LEMMA ReconcileInv ==
    ASSUME IInv, NEW p \in Plugs, force_adopt_reconcile(p)
    PROVE  IInv'
  <1>1. UNCHANGED <<tok, dev, plug, raced, missed, job>> /\ Exists(p)
    BY DEF force_adopt_reconcile
  <1>2. ann' = [ann EXCEPT ![p] = [ann[p] EXCEPT !.consumed = TRUE, !.secret = None]]
    BY DEF force_adopt_reconcile
  <1>3. PICK r : r = [ann[p] EXCEPT !.consumed = TRUE, !.secret = None]
    OBVIOUS
  <1>4. r \in Announcement /\ r.secret = None
    BY <1>1, <1>3, AnnShape, ConsumedRow DEF IInv
  <1> QED
    BY <1>1, <1>2, <1>3, <1>4, WriteRow

LEMMA DeleteInv ==
    ASSUME IInv, NEW p \in Plugs, delete(p)
    PROVE  IInv'
  <1>1. /\ UNCHANGED <<tok, dev, plug, raced, missed>> /\ ann' = [ann EXCEPT ![p] = NoRow]
        /\ job' = [w \in Workers |-> IF job[w].op = "adopt" /\ job[w].p = p
                                     THEN [job[w] EXCEPT !.gone = TRUE] ELSE job[w]]
    BY DEF delete
  <1>2. /\ ann' \in [Plugs -> Announcement \cup {NoRow}] /\ ann'[p] = NoRow
        /\ \A q \in Plugs \ {p} : ann'[q] = ann[q]
    BY <1>1, SetAnn DEF IInv
  <1>3. ASSUME NEW w \in Workers, job[w].op = "adopt", job[w].p = p
        PROVE  /\ job'[w] \in Adopt /\ job'[w].op = "adopt" /\ job'[w].p = job[w].p /\ job'[w].t = job[w].t
               /\ job'[w].gone
    <2>1. job[w] \in Adopt /\ job'[w] = [job[w] EXCEPT !.gone = TRUE]
      BY <1>1, <1>3, JobShape DEF IInv
    <2> QED
      BY <2>1 DEF Adopt
  <1>4. ASSUME NEW w \in Workers, ~(job[w].op = "adopt" /\ job[w].p = p)
        PROVE  job'[w] = job[w]
    BY <1>1, <1>4
  <1>5. TypeInv'
    <2>1. \A w \in Workers : job'[w] \in Jobs
      BY <1>3, <1>4 DEF IInv, TypeInv, Jobs
    <2>2. job' = [w \in Workers |-> job'[w]]
      BY <1>1
    <2> HIDE <1>1
    <2>3. job' \in [Workers -> Jobs]
      BY <2>1, <2>2
    <2> QED
      BY <1>1, <1>2, <2>3 DEF IInv, TypeInv, Jobs
  <1>6. RowsKeep(p, None)
    BY <1>1, <1>2, NoneIsNone DEF RowsKeep, Offers, Exists
  <1>7. JobsKeep(None, p, None)
    <2> SUFFICES ASSUME NEW w \in Workers
                 PROVE  /\ job'[w].op = "register" =>
                             /\ job[w].op = "register" /\ job'[w].p = job[w].p /\ job'[w].t = job[w].t
                             /\ job'[w].form = job[w].form
                        /\ job'[w].op = "adopt" =>
                             /\ job[w].op = "adopt" /\ job'[w].p = job[w].p /\ job'[w].t = job[w].t
                             /\ ~job'[w].gone => Exists(job[w].p)'
      BY DEF JobsKeep
    <2>1. CASE job[w].op = "adopt" /\ job[w].p = p
      BY <1>3, <2>1
    <2>2. CASE ~(job[w].op = "adopt" /\ job[w].p = p)
      <3>1. job'[w] = job[w]
        BY <1>4, <2>2
      <3>2. ASSUME job[w].op = "adopt", ~job[w].gone PROVE Exists(job[w].p)'
        <4>1. PICK q \in Plugs : q = job[w].p /\ q = job'[w].p /\ q # p
          BY <2>2, <3>1, <3>2, JobShape DEF IInv, Adopt
        <4>2. Exists(q)
          BY <3>2, <4>1 DEF IInv, AdoptInv
        <4> QED
          BY <1>2, <4>1, <4>2 DEF Exists
      <3> QED
        BY <3>1, <3>2
    <2> QED
      BY <2>1, <2>2
  <1>8. LinksKeep
    <2>1. \A w \in Workers : job[w].op = "link" => job'[w] = job[w]
      BY <1>4
    <2> QED
      BY <1>1, <2>1, LinksSame
  <1> QED
    BY <1>1, <1>5, <1>6, <1>7, <1>8, TokensSame, DevicesSame, OtherStep

-----------------------------------------------------------------------------
(* A worker goes on to something that is neither a registration nor an     *)
(* adoption, the plugs forget secrets, the devices keep what identifies    *)
(* them.                                                                   *)

LEMMA WorkerStep ==
    ASSUME IInv, NEW w \in Workers, NEW x \in Jobs, job' = [job EXCEPT ![w] = x],
           x.op \notin {"register", "adopt"}, UNCHANGED <<ann, tok>>,
           missed \subseteq missed', job[w].op = "link" => job[w].p \in missed',
           dev' \in [Devices -> Device], DevicesKeep, plug' \in [Plugs -> Firmware],
           \A q \in Plugs : plug'[q].secret \in {None, plug[q].secret}
    PROVE  IInv'
  <1>1. /\ job' \in [Workers -> Jobs] /\ job'[w] = x
        /\ \A u \in Workers \ {w} : job'[u] = job[u]
    BY SetJob DEF IInv
  <1>2. TypeInv'
    BY <1>1 DEF IInv, TypeInv, Jobs
  <1>3. PICK p \in Plugs : TRUE
    OBVIOUS
  <1>4. RowsKeep(p, None)
    BY NoneIsNone DEF RowsKeep, Offers, Exists
  <1>5. \A q \in Plugs : Exists(q) => Exists(q)'
    BY DEF Exists
  <1>6. JobsKeep(None, p, None)
    BY <1>1, <1>5, JobsLeave
  <1>7. LinksKeep
    BY <1>1 DEF LinksKeep
  <1> QED
    BY <1>2, <1>4, <1>6, <1>7, TokensSame, OtherStep

LEMMA IdleJob == Idle \in Jobs /\ Idle.op = "idle"
  BY DEF Jobs, Idle

LEMMA DevKept ==
    ASSUME IInv, UNCHANGED <<dev, raced, plug>>
    PROVE  /\ dev' \in [Devices -> Device] /\ DevicesKeep /\ plug' \in [Plugs -> Firmware]
           /\ \A q \in Plugs : plug'[q].secret \in {None, plug[q].secret}
  BY DevicesSame DEF IInv, TypeInv

LEMMA AdoptFailsInv ==
    ASSUME IInv, NEW w \in Workers, adopt_fails(w)
    PROVE  IInv'
  <1>1. /\ job[w].op = "adopt" /\ job' = [job EXCEPT ![w] = Idle]
        /\ UNCHANGED <<ann, tok, dev, plug, raced, missed>>
    BY DEF adopt_fails
  <1> QED
    BY <1>1, IdleJob, DevKept, WorkerStep

LEMMA RevokeReadInv ==
    ASSUME IInv, NEW w \in Workers, NEW t \in Tokens, revoke_read(w, t)
    PROVE  IInv'
  <1>1. PICK x : x = [op |-> "revoke", t |-> t]
    OBVIOUS
  <1>2. x \in Jobs /\ x.op = "revoke"
    BY <1>1 DEF Jobs, Revoke
  <1>3. /\ job[w].op # "link" /\ job' = [job EXCEPT ![w] = x]
        /\ UNCHANGED <<ann, tok, dev, plug, raced, missed>>
    BY <1>1, IdleJob DEF revoke_read
  <1> QED
    BY <1>2, <1>3, DevKept, WorkerStep

LEMMA SetDev ==
    ASSUME TypeInv, NEW d \in Devices, NEW r \in Device, dev' = [dev EXCEPT ![d] = r]
    PROVE  dev' \in [Devices -> Device] /\ dev'[d] = r /\ \A e \in Devices \ {d} : dev'[e] = dev[e]
  BY DEF TypeInv

LEMMA DecommissionInv ==
    ASSUME IInv, NEW w \in Workers, NEW p \in Plugs, NEW d \in Devices, decommission(w, p, d)
    PROVE  IInv'
  <1>1. PICK x : x = [op |-> "replace", p |-> p]
    OBVIOUS
  <1>2. x \in Jobs /\ x.op = "replace"
    BY <1>1 DEF Jobs, Replace
  <1>3. /\ job[w].op # "link" /\ job' = [job EXCEPT ![w] = x]
        /\ UNCHANGED <<ann, tok, plug, raced, missed>>
        /\ dev' = [dev EXCEPT ![d] = [dev[d] EXCEPT !.st = "decommissioned"]]
    BY <1>1, IdleJob DEF decommission
  <1>4. PICK r : r = [dev[d] EXCEPT !.st = "decommissioned"]
    OBVIOUS
  <1>5. /\ r \in Device /\ r.mac = dev[d].mac /\ r.form = dev[d].form /\ r.cred = dev[d].cred
        /\ r.st = "decommissioned"
    BY <1>4 DEF IInv, TypeInv, Device
  <1>6. dev' \in [Devices -> Device] /\ dev'[d] = r /\ \A e \in Devices \ {d} : dev'[e] = dev[e]
    BY <1>3, <1>4, <1>5, SetDev DEF IInv
  <1>7. DevicesKeep
    BY <1>3, <1>5, <1>6 DEF DevicesKeep, TextMac
  <1>8. plug' \in [Plugs -> Firmware] /\ \A q \in Plugs : plug'[q].secret \in {None, plug[q].secret}
    BY <1>3 DEF IInv, TypeInv
  <1> QED
    BY <1>2, <1>3, <1>6, <1>7, <1>8, WorkerStep

LEMMA LinkFailsInv ==
    ASSUME IInv, NEW w \in Workers, mark_consumed_fails(w)
    PROVE  IInv'
  <1>1. /\ job[w].op = "link" /\ job' = [job EXCEPT ![w] = [job[w] EXCEPT !.op = "reply"]]
        /\ UNCHANGED <<ann, tok, dev, plug, raced>> /\ missed' = missed \cup {job[w].p}
    BY DEF mark_consumed_fails, ReplyNext
  <1>2. PICK x : x = [job[w] EXCEPT !.op = "reply"]
    OBVIOUS
  <1>3. job[w] \in Link
    BY <1>1, JobShape DEF IInv
  <1>4. x \in Link /\ x.op = "reply"
    BY <1>2, <1>3 DEF Link
  <1> QED
    BY <1>1, <1>2, <1>4, DevKept, WorkerStep DEF Jobs

LEMMA ReplyInv ==
    ASSUME IInv, NEW w \in Workers, register_reply(w)
    PROVE  IInv'
  <1>1. /\ job[w].op = "reply" /\ job' = [job EXCEPT ![w] = Idle] /\ UNCHANGED <<ann, tok, raced, missed>>
        /\ dev' = dev \/ dev' = _push_restore_config(job[w].t)
        /\ plug' = plug \/ plug' = [plug EXCEPT ![job[w].p].secret = None, ![job[w].p].cred = job[w].t]
    BY DEF register_reply
  <1>2. job[w] \in Link
    BY <1>1, JobShape DEF IInv
  <1>3. job[w].t \in Tokens /\ job[w].p \in Plugs
    BY <1>2 DEF Link
  <1>4. dev' \in [Devices -> Device] /\ DevicesKeep
    <2>1. CASE dev' = dev
      BY <1>1, <2>1, DevicesSame DEF IInv, TypeInv
    <2>2. CASE dev' # dev
      <3>1. PICK d \in Devices : dev' = [dev EXCEPT ![d] = [dev[d] EXCEPT !.push = TRUE]]
        BY <1>1, <1>3, <2>2 DEF _push_restore_config, IInv, TypeInv, EnrollmentToken
      <3>2. PICK r : r = [dev[d] EXCEPT !.push = TRUE]
        OBVIOUS
      <3>3. /\ r \in Device /\ r.mac = dev[d].mac /\ r.form = dev[d].form /\ r.cred = dev[d].cred
            /\ r.st = dev[d].st
        BY <3>2 DEF IInv, TypeInv, Device
      <3>4. dev' \in [Devices -> Device] /\ dev'[d] = r /\ \A e \in Devices \ {d} : dev'[e] = dev[e]
        BY <3>1, <3>2, <3>3, SetDev DEF IInv
      <3> QED
        BY <1>1, <3>3, <3>4 DEF DevicesKeep, TextMac
    <2> QED
      BY <2>1, <2>2
  <1>5. plug' \in [Plugs -> Firmware] /\ \A q \in Plugs : plug'[q].secret \in {None, plug[q].secret}
    <2>1. CASE plug' = plug
      BY <2>1 DEF IInv, TypeInv
    <2>2. CASE plug' # plug
      <3>1. PICK p \in Plugs : p = job[w].p
        BY <1>3
      <3>2. PICK t \in Tokens : t = job[w].t
        BY <1>3
      <3>3. plug' = [plug EXCEPT ![p] = [plug[p] EXCEPT !.secret = None, !.cred = t]]
        BY <1>1, <2>2, <3>1, <3>2 DEF IInv, TypeInv
      <3>4. PICK f : f = [plug[p] EXCEPT !.secret = None, !.cred = t]
        OBVIOUS
      <3>5. f \in Firmware /\ f.secret = None
        BY <3>4 DEF IInv, TypeInv, Firmware
      <3> QED
        BY <3>3, <3>4, <3>5 DEF IInv, TypeInv
    <2> QED
      BY <2>1, <2>2
  <1> QED
    BY <1>1, <1>4, <1>5, IdleJob, WorkerStep

LEMMA ReflashInv ==
    ASSUME IInv, NEW p \in Plugs, NEW form \in Forms, Reflash(p, form)
    PROVE  IInv'
  <1>1. /\ UNCHANGED <<ann, tok, dev, job, raced, missed>>
        /\ plug' = [plug EXCEPT ![p] = [secret |-> None, cred |-> None, form |-> form]]
    BY DEF Reflash
  <1>2. /\ plug' \in [Plugs -> Firmware] /\ plug'[p].secret = None
        /\ \A q \in Plugs \ {p} : plug'[q] = plug[q]
    BY <1>1 DEF IInv, TypeInv, Firmware
  <1>3. TypeInv'
    BY <1>1, <1>2 DEF IInv, TypeInv
  <1>4. RowsKeep(p, None)
    BY <1>1, <1>2, NoneIsNone DEF RowsKeep, Offers, Exists
  <1>5. JobsKeep(None, p, None)
    BY <1>1, JobsLeave DEF Exists
  <1>6. LinksKeep
    BY <1>1, LinksSame
  <1> QED
    BY <1>1, <1>3, <1>4, <1>5, <1>6, TokensSame, DevicesSame, OtherStep

LEMMA TimeoutInv ==
    ASSUME IInv, NEW w \in Workers, PlugTimeout(w)
    PROVE  IInv'
  <1>1. /\ UNCHANGED <<ann, tok, dev, plug, raced, missed>> /\ job[w].op \in {"register", "link", "reply"}
        /\ job' = [job EXCEPT ![w] = [job[w] EXCEPT !.lost = TRUE]]
    BY DEF PlugTimeout
  <1>2. job[w] \in Register \/ job[w] \in Link
    BY <1>1, JobShape DEF IInv
  <1>3. PICK x : x = [job[w] EXCEPT !.lost = TRUE]
    OBVIOUS
  <1>4. /\ x \in Jobs /\ x.op = job[w].op /\ x.p = job[w].p /\ x.t = job[w].t
        /\ x.op = "register" => x.form = job[w].form
    <2>1. CASE job[w] \in Register
      BY <1>3, <2>1 DEF Register, Jobs
    <2>2. CASE job[w] \in Link
      BY <1>3, <2>2 DEF Link, Jobs
    <2> QED
      BY <1>2, <2>1, <2>2
  <1>5. /\ job' \in [Workers -> Jobs] /\ job'[w] = x
        /\ \A u \in Workers \ {w} : job'[u] = job[u]
    BY <1>1, <1>3, <1>4, SetJob DEF IInv
  <1>6. TypeInv'
    BY <1>1, <1>5 DEF IInv, TypeInv, Jobs
  <1>7. PICK p \in Plugs : TRUE
    OBVIOUS
  <1>8. JobsKeep(None, p, None)
    <2>1. \A u \in Workers : job'[u].op = "adopt" => job'[u] = job[u] /\ u # w
      BY <1>1, <1>4, <1>5
    <2>2. ASSUME NEW u \in Workers, job'[u].op = "adopt", ~job'[u].gone PROVE Exists(job[u].p)'
      BY <1>1, <2>1, <2>2 DEF IInv, AdoptInv, Exists
    <2> QED
      BY <1>4, <1>5, <2>1, <2>2 DEF JobsKeep
  <1>9. LinksKeep
    BY <1>1, <1>4, <1>5 DEF LinksKeep
  <1> QED
    BY <1>1, <1>6, <1>8, <1>9, RowsSame, TokensSame, DevicesSame, OtherStep

-----------------------------------------------------------------------------
(* Tokens expire, are revoked and minted                                   *)

LEMMA SetTok ==
    ASSUME TypeInv, NEW t \in Tokens, NEW k \in EnrollmentToken, tok' = [tok EXCEPT ![t] = k]
    PROVE  tok' \in [Tokens -> EnrollmentToken] /\ tok'[t] = k /\ \A u \in Tokens \ {t} : tok'[u] = tok[u]
  BY DEF TypeInv

LEMMA ExpireInv ==
    ASSUME IInv, NEW t \in Tokens, Expire(t)
    PROVE  IInv'
  <1>1. UNCHANGED <<ann, dev, plug, job, raced, missed>> /\ tok' = [tok EXCEPT ![t] = [tok[t] EXCEPT !.expired = TRUE]]
    BY DEF Expire
  <1>2. PICK k : k = [tok[t] EXCEPT !.expired = TRUE]
    OBVIOUS
  <1>3. k \in EnrollmentToken /\ k.st = tok[t].st /\ k.target = tok[t].target
    BY <1>2 DEF IInv, TypeInv, EnrollmentToken
  <1>4. tok' \in [Tokens -> EnrollmentToken] /\ tok'[t] = k /\ \A u \in Tokens \ {t} : tok'[u] = tok[u]
    BY <1>1, <1>2, <1>3, SetTok DEF IInv
  <1>5. TypeInv' /\ TokensKeep(None)
    BY <1>1, <1>3, <1>4 DEF IInv, TypeInv, TokensKeep
  <1>6. PICK p \in Plugs : TRUE
    OBVIOUS
  <1>7. JobsKeep(None, p, None)
    BY <1>1, JobsLeave DEF Exists
  <1>8. LinksKeep
    BY <1>1, LinksSame
  <1> QED
    BY <1>1, <1>5, <1>7, <1>8, RowsSame, DevicesSame, OtherStep

LEMMA RevokeDeleteInv ==
    ASSUME IInv, NEW w \in Workers, revoke_delete(w)
    PROVE  IInv'
  <1>1. PICK t : t = job[w].t
    OBVIOUS
  <1>2. /\ UNCHANGED <<dev, plug, raced, missed>> /\ job[w].op = "revoke" /\ job' = [job EXCEPT ![w] = Idle]
        /\ tok' = [tok EXCEPT ![t] = [tok[t] EXCEPT !.st = "deleted"]]
        /\ ann' = [p \in Plugs |-> IF Exists(p) /\ ann[p].token = t
                                   THEN [ann[p] EXCEPT !.token = None] ELSE ann[p]]
    BY <1>1 DEF revoke_delete
  <1>3. t \in Tokens
    BY <1>1, <1>2, JobShape DEF IInv, Revoke
  <1>4. PICK k : k = [tok[t] EXCEPT !.st = "deleted"]
    OBVIOUS
  <1>5. k \in EnrollmentToken /\ k.st = "deleted" /\ k.target = tok[t].target
    BY <1>3, <1>4 DEF IInv, TypeInv, EnrollmentToken
  <1>6. tok' \in [Tokens -> EnrollmentToken] /\ tok'[t] = k /\ \A u \in Tokens \ {t} : tok'[u] = tok[u]
    BY <1>2, <1>3, <1>4, <1>5, SetTok DEF IInv
  <1>7. ASSUME NEW p \in Plugs
        PROVE  /\ ann'[p] \in Announcement \cup {NoRow} /\ (Exists(p)' <=> Exists(p))
               /\ Exists(p) => ann'[p].secret = ann[p].secret
    <2>1. CASE Exists(p) /\ ann[p].token = t
      <3>1. ann'[p] = [ann[p] EXCEPT !.token = None] /\ ann[p] \in Announcement
        BY <1>2, <2>1, AnnShape DEF IInv
      <3>2. [ann[p] EXCEPT !.token = None] \in Announcement /\ [ann[p] EXCEPT !.token = None].secret = ann[p].secret
        BY <3>1, SetToken, Zenon
      <3> QED
        BY <2>1, <3>1, <3>2, FreshRow DEF Exists
    <2>2. CASE ~(Exists(p) /\ ann[p].token = t)
      <3>1. ann'[p] = ann[p]
        BY <1>2, <2>2
      <3> QED
        BY <3>1 DEF Exists, IInv, TypeInv
    <2> QED
      BY <2>1, <2>2
  <1>8. ann' \in [Plugs -> Announcement \cup {NoRow}]
    <2>1. ann' = [p \in Plugs |-> ann'[p]]
      BY <1>2
    <2> HIDE <1>2
    <2> QED
      BY <1>7, <2>1
  <1>9. /\ job' \in [Workers -> Jobs] /\ job'[w] = Idle
        /\ \A u \in Workers \ {w} : job'[u] = job[u]
    BY <1>2, IdleJob, SetJob DEF IInv
  <1>10. TypeInv'
    BY <1>2, <1>6, <1>8, <1>9 DEF IInv, TypeInv, Jobs
  <1>11. TokensKeep(None)
    BY <1>5, <1>6 DEF TokensKeep
  <1>12. PICK p \in Plugs : TRUE
    OBVIOUS
  <1>13. RowsKeep(p, None)
    BY <1>2, <1>7 DEF RowsKeep, Offers
  <1>14. JobsKeep(None, p, None)
    BY <1>7, <1>9, IdleJob, JobsLeave
  <1>15. LinksKeep
    BY <1>2, <1>9, LinksSame
  <1> QED
    BY <1>2, <1>10, <1>11, <1>13, <1>14, <1>15, DevicesSame, OtherStep

LEMMA Minted ==
    ASSUME TypeInv, Free # {}, NEW target \in Devices \cup {None}, target # None => dev[target].st # "none",
           tok' = _mint_enrollment_token_in_session(tok, target)
    PROVE  tok' \in [Tokens -> EnrollmentToken] /\ TokensKeep(Min(Free))
  <1>1. PICK x : x = Min(Free)
    OBVIOUS
  <1>2. x \in Tokens /\ tok[x].st = "unminted"
    BY <1>1, NextToken
  <1>3. PICK k : k = [st |-> "live", expired |-> FALSE, target |-> target]
    OBVIOUS
  <1>4. k \in EnrollmentToken /\ k.st = "live" /\ k.target = target
    BY <1>3 DEF EnrollmentToken
  <1>5. tok' = [tok EXCEPT ![x] = k]
    BY <1>1, <1>3 DEF _mint_enrollment_token_in_session
  <1>6. tok' \in [Tokens -> EnrollmentToken] /\ tok'[x] = k /\ \A u \in Tokens \ {x} : tok'[u] = tok[u]
    BY <1>2, <1>4, <1>5, SetTok
  <1> QED
    BY <1>1, <1>2, <1>4, <1>6 DEF TokensKeep

LEMMA MintInv ==
    ASSUME IInv, NEW p \in Plugs, mint_enrollment_token(p)
    PROVE  IInv'
  <1>1. PICK x : x = Min(Free)
    OBVIOUS
  <1>2. /\ UNCHANGED <<ann, dev, job, raced, missed>> /\ Free # {}
        /\ tok' = _mint_enrollment_token_in_session(tok, None)
        /\ plug' = [plug EXCEPT ![p] = [plug[p] EXCEPT !.secret = x]]
    BY <1>1 DEF mint_enrollment_token
  <1>3. tok' \in [Tokens -> EnrollmentToken] /\ TokensKeep(x) /\ x \in Tokens
    BY <1>1, <1>2, Minted, NextToken DEF IInv
  <1>4. PICK f : f = [plug[p] EXCEPT !.secret = x]
    OBVIOUS
  <1>5. f \in Firmware /\ f.secret = x
    BY <1>3, <1>4 DEF IInv, TypeInv, Firmware
  <1>6. plug' \in [Plugs -> Firmware] /\ plug'[p] = f /\ \A q \in Plugs \ {p} : plug'[q] = plug[q]
    BY <1>2, <1>4, <1>5 DEF IInv, TypeInv
  <1>7. TypeInv'
    BY <1>2, <1>3, <1>6 DEF IInv, TypeInv
  <1>8. RowsKeep(p, x)
    BY <1>2, <1>5, <1>6 DEF RowsKeep, Offers, Exists
  <1>9. JobsKeep(None, p, None)
    BY <1>2, JobsLeave DEF Exists
  <1>10. LinksKeep
    BY <1>2, LinksSame
  <1> QED
    BY <1>2, <1>3, <1>7, <1>8, <1>9, <1>10, DevicesSame, OtherStep

\* The first half of an adoption, of a plug whose row exists.
LEMMA MintsInv ==
    ASSUME IInv, NEW w \in Workers, NEW p \in Plugs, NEW target \in Devices \cup {None},
           Mints(w, p, target), job[w].op # "link", UNCHANGED <<ann, dev, plug, raced, missed>>
    PROVE  IInv'
  <1>1. PICK x : x = Min(Free)
    OBVIOUS
  <1>2. PICK j : j = [op |-> "adopt", p |-> p, t |-> x, gone |-> FALSE]
    OBVIOUS
  <1>3. /\ Exists(p) /\ Free # {} /\ (target # None => dev[target].st = "active")
        /\ tok' = _mint_enrollment_token_in_session(tok, target)
        /\ job' = [job EXCEPT ![w] = j]
    BY <1>1, <1>2 DEF Mints, AdoptAllowed
  <1>4. tok' \in [Tokens -> EnrollmentToken] /\ TokensKeep(x) /\ x \in Tokens /\ x # None
    BY <1>1, <1>3, Minted, NextToken DEF IInv
  <1>5. j \in Jobs /\ j.op = "adopt" /\ j.p = p /\ j.t = x
    BY <1>2, <1>4 DEF Jobs, Adopt
  <1>6. /\ job' \in [Workers -> Jobs] /\ job'[w] = j
        /\ \A u \in Workers \ {w} : job'[u] = job[u]
    BY <1>3, <1>5, SetJob DEF IInv
  <1>7. TypeInv'
    BY <1>4, <1>6 DEF IInv, TypeInv, Jobs
  <1>8. JobsKeep(w, p, x)
    <2>1. Exists(job[w].p)'
      BY <1>3, <1>5, <1>6 DEF Exists
    <2>2. ASSUME NEW u \in Workers \ {w}, job'[u].op = "adopt", ~job'[u].gone PROVE Exists(job[u].p)'
      BY <1>6, <2>2 DEF IInv, AdoptInv, Exists
    <2> QED
      BY <1>4, <1>5, <1>6, <2>1, <2>2 DEF JobsKeep
  <1>9. LinksKeep
    BY <1>6, LinksSame
  <1>10. RowsKeep(p, None)
    BY RowsSame
  <1> QED
    BY <1>4, <1>7, <1>8, <1>9, <1>10, DevicesSame, OtherStep

LEMMA AdoptsInv ==
    ASSUME IInv, NEW w \in Workers, NEW p \in Plugs, adopt_submit(w, p) \/ restore_submit(w, p)
    PROVE  IInv'
  <1>1. PICK target \in Devices \cup {None} : adopt(w, p, target)
    BY DEF adopt_submit, restore_submit
  <1>2. Mints(w, p, target) /\ job[w].op # "link" /\ UNCHANGED <<ann, dev, plug, raced, missed>>
    BY <1>1, IdleJob DEF adopt
  <1> QED
    BY <1>2, MintsInv

LEMMA ReplaceInv ==
    ASSUME IInv, NEW w \in Workers, decommission_and_adopt(w)
    PROVE  IInv'
  <1>1. PICK p \in Plugs : p = job[w].p
    BY JobShape DEF decommission_and_adopt, IInv, Replace
  <1>2. job[w].op = "replace" /\ UNCHANGED <<ann, dev, plug, raced, missed>>
    BY DEF decommission_and_adopt
  <1>3. CASE AdoptAllowed(job[w].p, None)
    <2>1. Mints(w, p, None)
      BY <1>1, <1>3 DEF decommission_and_adopt
    <2> QED
      BY <1>2, <2>1, MintsInv
  <1>4. CASE ~AdoptAllowed(job[w].p, None)
    <2>1. job' = [job EXCEPT ![w] = Idle] /\ UNCHANGED tok
      BY <1>4 DEF decommission_and_adopt
    <2> QED
      BY <1>2, <2>1, IdleJob, DevKept, WorkerStep
  <1> QED
    BY <1>3, <1>4

-----------------------------------------------------------------------------
(* The cross-link and the plug's poll                                      *)

LEMMA LinkInv ==
    ASSUME IInv, NEW w \in Workers, mark_consumed(w)
    PROVE  IInv'
  <1>1. PICK p : p = job[w].p
    OBVIOUS
  <1>2. job[w].op = "link" /\ job[w] \in Link /\ p \in Plugs
    BY <1>1, JobShape DEF mark_consumed, IInv, Link
  <1>3. PICK r : r = MarkConsumed(ann[p])
    OBVIOUS
  <1>4. PICK x : x = [job[w] EXCEPT !.op = "reply"]
    OBVIOUS
  <1>5. /\ UNCHANGED <<tok, dev, plug, raced>> /\ job' = [job EXCEPT ![w] = x]
        /\ ann' = [ann EXCEPT ![p] = r]
        /\ missed' = IF Exists(p) /\ ann[p].consumed THEN missed \cup {p} ELSE missed
    BY <1>1, <1>3, <1>4 DEF mark_consumed, ReplyNext
  <1>6. /\ r \in Announcement \cup {NoRow} /\ (r = NoRow <=> ~Exists(p))
        /\ Exists(p) => r.secret = None \/ (ann[p].consumed /\ r.secret = ann[p].secret)
    <2>1. CASE ~Exists(p)
      BY <1>3, <2>1 DEF MarkConsumed, Exists
    <2>2. CASE Exists(p) /\ ann[p].consumed
      BY <1>2, <1>3, <2>2, AnnShape DEF MarkConsumed, Exists, IInv
    <2>3. CASE Exists(p) /\ ~ann[p].consumed
      <3>1. r = [ann[p] EXCEPT !.consumed = TRUE, !.secret = None]
        BY <1>3, <2>3 DEF MarkConsumed, Exists
      <3>2. ann[p] \in Announcement
        BY <1>2, <2>3, AnnShape DEF IInv
      <3>3. r \in Announcement /\ r.secret = None
        BY <3>1, <3>2, ConsumedRow
      <3> QED
        BY <2>3, <3>3, FreshRow
    <2> QED
      BY <2>1, <2>2, <2>3
  <1>7. /\ ann' \in [Plugs -> Announcement \cup {NoRow}] /\ ann'[p] = r
        /\ \A q \in Plugs \ {p} : ann'[q] = ann[q]
    BY <1>2, <1>5, <1>6, SetAnn DEF IInv
  <1>8. x \in Jobs /\ x.op = "reply"
    BY <1>2, <1>4 DEF Link, Jobs
  <1>9. /\ job' \in [Workers -> Jobs] /\ job'[w] = x
        /\ \A u \in Workers \ {w} : job'[u] = job[u]
    BY <1>5, <1>8, SetJob DEF IInv
  <1>10. TypeInv'
    BY <1>5, <1>7, <1>9 DEF IInv, TypeInv, Jobs
  <1>11. RowsKeep(p, None)
    BY <1>5, <1>6, <1>7, NoneIsNone DEF RowsKeep, Offers, Exists
  <1>12. JobsKeep(None, p, None)
    <2>1. \A q \in Plugs : Exists(q) => Exists(q)'
      BY <1>6, <1>7 DEF Exists
    <2> QED
      BY <1>8, <1>9, <2>1, JobsLeave
  <1>13. LinksKeep
    <2>1. p \in missed' \/ \A t \in Tokens : ~Offers(p, t)'
      BY <1>5, <1>6, <1>7, NoneIsNone DEF Offers, Exists
    <2> QED
      BY <1>1, <1>5, <1>9, <2>1 DEF LinksKeep
  <1> QED
    BY <1>2, <1>5, <1>10, <1>11, <1>12, <1>13, TokensSame, DevicesSame, OtherStep

LEMMA UpsertedShape ==
    ASSUME TypeInv, NEW p \in Plugs
    PROVE  /\ Upserted(p) \in Announcement
           /\ \A t \in Tokens : Upserted(p).secret = t => Offers(p, t)
  BY AnnShape, FreshRow, NoneIsNone DEF Upserted, Offers

\* The two self-healing steps mint one token at the most, for a device that exists.
LEMMA PreparedRow ==
    ASSUME IInv, NEW p \in Plugs, NEW known, MintsOnAnnounce(p, known) => Free # {},
           NEW s \in Prepared(p, known), tok' = s.tok
    PROVE  \E x \in Tokens \cup {None} :
             /\ tok' \in [Tokens -> EnrollmentToken] /\ TokensKeep(x)
             /\ s.row \in Announcement /\ s.row.secret \in {Upserted(p).secret, x}
  <1>1. PICK r \in Announcement : r = Upserted(p)
    BY UpsertedShape DEF IInv
  <1>2. PICK x : x = Min(Free)
    OBVIOUS
  <1>3. TypeInv
    BY DEF IInv
  <1>4. CASE RebindTargets(p, r, known) # {}
    <2>1. PICK d \in RebindTargets(p, r, known) : s = _maybe_prepare_auto_rebind(r, d)
      BY <1>1, <1>4 DEF Prepared
    <2>2. d \in Devices /\ dev[d].st # "none"
      BY <2>1 DEF RebindTargets, SameMac
    <2>3. Free # {}
      BY <1>1, <1>4 DEF MintsOnAnnounce
    <2>4. x \in Tokens
      BY <1>2, <2>3, NextToken
    <2>5. /\ s.row = [r EXCEPT !.adopted = TRUE, !.secret = x, !.token = x, !.delivered = FALSE, !.consumed = FALSE]
          /\ s.tok = _mint_enrollment_token_in_session(tok, d)
      BY <1>2, <2>1 DEF _maybe_prepare_auto_rebind
    <2>6. s.row \in Announcement /\ s.row.secret = x
      BY <2>4, <2>5, RebindRow
    <2>7. tok' \in [Tokens -> EnrollmentToken] /\ TokensKeep(x)
      BY <1>2, <1>3, <2>2, <2>3, <2>5, Minted
    <2> QED
      BY <2>4, <2>6, <2>7
  <1>5. CASE RebindTargets(p, r, known) = {} /\ ~Stranded(r)
    <2>1. s = [row |-> r, tok |-> tok]
      BY <1>1, <1>5 DEF Prepared
    <2>2. s.row = r /\ tok' = tok
      BY <2>1
    <2> QED
      BY <1>1, <1>3, <2>2, TokensSame DEF TypeInv
  <1>6. CASE RebindTargets(p, r, known) = {} /\ Stranded(r) /\ OldConsumed(r)
    <2>1. s = [row |-> [r EXCEPT !.consumed = TRUE], tok |-> tok]
      BY <1>1, <1>6 DEF Prepared, _maybe_recover_stranded_pickup
    <2>2. s.row = [r EXCEPT !.consumed = TRUE] /\ tok' = tok
      BY <2>1
    <2>3. s.row \in Announcement /\ s.row.secret = r.secret
      BY <2>2, SetFlag
    <2> QED
      BY <1>1, <1>3, <2>2, <2>3, TokensSame DEF TypeInv
  <1>7. CASE RebindTargets(p, r, known) = {} /\ Stranded(r) /\ ~OldConsumed(r)
    <2> DEFINE target == IF OldLive(r) THEN tok[r.token].target ELSE None
               minted == _mint_enrollment_token_in_session(tok, target)
    <2>1. Free # {}
      BY <1>1, <1>7 DEF MintsOnAnnounce
    <2>2. x \in Tokens /\ tok[x].st = "unminted"
      BY <1>2, <2>1, NextToken
    <2>3. /\ s.row = [r EXCEPT !.secret = x, !.token = x, !.delivered = FALSE]
          /\ s.tok = IF OldLive(r) THEN [minted EXCEPT ![r.token].st = "deleted"] ELSE minted
      BY <1>1, <1>2, <1>7 DEF Prepared, _maybe_recover_stranded_pickup
    <2>4. s.row \in Announcement /\ s.row.secret = x
      BY <2>2, <2>3, OfferRow
    <2>5. target \in Devices \cup {None} /\ (target # None => dev[target].st # "none")
      <3>1. OldLive(r) => r.token \in Tokens
        BY DEF OldLive, Announcement
      <3> QED
        BY <3>1 DEF IInv, TypeInv, EnrollmentToken, TargetInv
    <2>6. PICK k : k = [st |-> "live", expired |-> FALSE, target |-> target]
      OBVIOUS
    <2>7. k \in EnrollmentToken /\ k.st = "live" /\ k.target = target
      BY <2>5, <2>6 DEF EnrollmentToken
    <2>8. minted = [tok EXCEPT ![x] = k]
      BY <1>2, <2>6 DEF _mint_enrollment_token_in_session
    <2> HIDE DEF minted, target
    <2>9. minted \in [Tokens -> EnrollmentToken] /\ minted[x] = k /\ \A u \in Tokens \ {x} : minted[u] = tok[u]
      BY <1>3, <2>2, <2>7, <2>8 DEF TypeInv
    <2>10. CASE ~OldLive(r)
      <3>1. tok' = minted
        BY <2>3, <2>10
      <3> QED
        BY <2>2, <2>4, <2>5, <2>7, <2>9, <3>1 DEF TokensKeep
    <2>11. CASE OldLive(r)
      <3>1. r.token \in Tokens /\ r.token # x
        BY <2>2, <2>11 DEF OldLive, Announcement
      <3>2. PICK o \in Tokens \ {x} : o = r.token
        BY <3>1
      <3>3. PICK g : g = [minted[o] EXCEPT !.st = "deleted"]
        OBVIOUS
      <3>4. g \in EnrollmentToken /\ g.st = "deleted" /\ g.target = tok[o].target
        BY <2>9, <3>3 DEF EnrollmentToken
      <3>5. tok' = [minted EXCEPT ![o] = g]
        BY <2>3, <2>11, <3>2, <3>3
      <3>6. tok' \in [Tokens -> EnrollmentToken] /\ tok'[o] = g /\ \A u \in Tokens \ {o} : tok'[u] = minted[u]
        BY <2>9, <3>4, <3>5
      <3>7. TokensKeep(x)
        BY <2>2, <2>5, <2>7, <2>9, <3>4, <3>6 DEF TokensKeep
      <3> QED
        BY <2>2, <2>4, <3>6, <3>7
    <2> QED
      BY <2>10, <2>11
  <1> QED
    BY <1>4, <1>5, <1>6, <1>7

LEMMA AnnounceInv ==
    ASSUME IInv, NEW p \in Plugs, NEW known \in BOOLEAN, NEW received \in BOOLEAN, announce(p, known, received)
    PROVE  IInv'
  <1>1. /\ UNCHANGED <<dev, job, raced, missed>> /\ (MintsOnAnnounce(p, known) => Free # {})
    BY DEF announce, upsert_announcement
  <1>2. PICK s \in Prepared(p, known) :
          /\ tok' = s.tok
          /\ IF Status(s.row) = "adopted"
             THEN /\ ann' = [ann EXCEPT ![p] = [s.row EXCEPT !.delivered = TRUE]]
                  /\ plug' = IF received THEN [plug EXCEPT ![p].secret = s.row.secret] ELSE plug
             ELSE ann' = [ann EXCEPT ![p] = s.row] /\ UNCHANGED plug
    BY DEF announce, upsert_announcement
  <1>3. PICK x \in Tokens \cup {None} :
          /\ tok' \in [Tokens -> EnrollmentToken] /\ TokensKeep(x)
          /\ s.row \in Announcement /\ s.row.secret \in {Upserted(p).secret, x}
    BY <1>1, <1>2, PreparedRow
  <1>4. PICK b : b = s.row.secret
    OBVIOUS
  <1>5. b \in Tokens \cup {None} /\ \A t \in Tokens : b = t => Offers(p, t) \/ t = x
    BY <1>3, <1>4, UpsertedShape DEF IInv, Announcement
  <1>6. PICK r \in Announcement : ann' = [ann EXCEPT ![p] = r] /\ r.secret = b
    BY <1>2, <1>3, <1>4, SetFlag
  <1>7. /\ plug' \in [Plugs -> Firmware] /\ plug'[p].secret \in {plug[p].secret, b}
        /\ \A q \in Plugs \ {p} : plug'[q] = plug[q]
    <2>1. CASE plug' = plug
      BY <2>1 DEF IInv, TypeInv
    <2>2. CASE plug' # plug
      <3>1. plug' = [plug EXCEPT ![p] = [plug[p] EXCEPT !.secret = b]]
        BY <1>2, <1>4, <2>2
      <3>2. PICK f : f = [plug[p] EXCEPT !.secret = b]
        OBVIOUS
      <3>3. f \in Firmware /\ f.secret = b
        BY <1>5, <3>2 DEF IInv, TypeInv, Firmware
      <3> QED
        BY <3>1, <3>2, <3>3 DEF IInv, TypeInv
    <2> QED
      BY <2>1, <2>2
  <1> HIDE <1>2
  <1>8. /\ ann' \in [Plugs -> Announcement \cup {NoRow}] /\ ann'[p] = r
        /\ \A q \in Plugs \ {p} : ann'[q] = ann[q]
    BY <1>6, SetAnn DEF IInv
  <1>9. TypeInv'
    BY <1>1, <1>3, <1>7, <1>8 DEF IInv, TypeInv
  <1>10. RowsKeep(p, x)
    BY <1>5, <1>6, <1>7, <1>8, NoneIsNone DEF RowsKeep, Offers, Exists
  <1>11. JobsKeep(None, p, None)
    <2>1. \A q \in Plugs : Exists(q) => Exists(q)'
      BY <1>6, <1>8, FreshRow DEF Exists
    <2> QED
      BY <1>1, <2>1, JobsLeave
  <1>12. LinksKeep
    BY <1>1, LinksSame
  <1> QED
    BY <1>1, <1>3, <1>9, <1>10, <1>11, <1>12, DevicesSame, OtherStep

-----------------------------------------------------------------------------
(* A registration begins and commits, and an adoption commits              *)

LEMMA RefusalFacts ==
    ASSUME TypeInv, NEW p \in Plugs, NEW t \in Tokens, Refusal(p, t) = ""
    PROVE  LET target == tok[t].target
               mac == <<p, plug[p].form>>
           IN  /\ tok[t].st = "live"
               /\ target # None => dev[target].st # "decommissioned" /\ TextMac(target) = mac
               /\ target = None => ~ExistingActive(mac)
  <1>1. tok[t].st \in {"unminted", "live", "consumed", "deleted"}
    BY DEF TypeInv, EnrollmentToken
  <1>2. CASE tok[t].st # "live"
    BY <1>1, <1>2 DEF Refusal
  <1>3. CASE tok[t].st = "live" /\ tok[t].expired
    BY <1>3 DEF Refusal
  <1>4. CASE tok[t].st = "live" /\ ~tok[t].expired /\ tok[t].target # None
    BY <1>4 DEF Refusal
  <1>5. CASE tok[t].st = "live" /\ ~tok[t].expired /\ tok[t].target = None
    BY <1>5 DEF Refusal
  <1> QED
    BY <1>2, <1>3, <1>4, <1>5

LEMMA ReadInv ==
    ASSUME IInv, NEW w \in Workers, NEW p \in Plugs, register_read(w, p)
    PROVE  IInv'
  <1>1. PICK t : t = plug[p].secret
    OBVIOUS
  <1>2. t \in Tokens
    BY <1>1 DEF register_read, IInv, TypeInv, Firmware
  <1>3. UNCHANGED <<ann, tok, dev, raced, missed>> /\ job[w] = Idle /\ job[w].op = "idle" /\ ~Locked(t)
    BY <1>1, IdleJob DEF register_read
  <1>4. CASE Refusal(p, t) # ""
    <2>1. UNCHANGED job /\ plug' = [plug EXCEPT ![p] = [plug[p] EXCEPT !.secret = None]]
      BY <1>1, <1>4 DEF register_read
    <2>2. PICK f : f = [plug[p] EXCEPT !.secret = None]
      OBVIOUS
    <2>3. f \in Firmware /\ f.secret = None
      BY <2>2 DEF IInv, TypeInv, Firmware
    <2>4. /\ plug' \in [Plugs -> Firmware] /\ plug'[p] = f
          /\ \A q \in Plugs \ {p} : plug'[q] = plug[q]
      BY <2>1, <2>2, <2>3 DEF IInv, TypeInv
    <2>5. TypeInv'
      BY <1>3, <2>1, <2>4 DEF IInv, TypeInv
    <2>6. RowsKeep(p, None)
      BY <1>3, <2>3, <2>4, NoneIsNone DEF RowsKeep, Offers, Exists
    <2>7. JobsKeep(None, p, None)
      BY <1>3, <2>1, JobsLeave DEF Exists
    <2>8. LinksKeep
      BY <1>3, <2>1, LinksSame
    <2> QED
      BY <1>3, <2>5, <2>6, <2>7, <2>8, TokensSame, DevicesSame, OtherStep
  <1>5. CASE Refusal(p, t) = ""
    <2>1. PICK form \in Forms : form = plug[p].form
      BY DEF IInv, TypeInv, Firmware
    <2>2. PICK x : x = [op |-> "register", p |-> p, t |-> t, form |-> form, lost |-> FALSE]
      OBVIOUS
    <2>3. x \in Jobs /\ x.op = "register" /\ x.p = p /\ x.t = t /\ x.form = form
      BY <1>2, <2>1, <2>2 DEF Jobs, Register
    <2>4. UNCHANGED plug /\ job' = [job EXCEPT ![w] = x]
      BY <1>1, <1>5, <2>1, <2>2 DEF register_read
    <2>5. /\ job' \in [Workers -> Jobs] /\ job'[w] = x
          /\ \A u \in Workers \ {w} : job'[u] = job[u]
      BY <2>3, <2>4, SetJob DEF IInv
    <2>6. TypeInv'
      BY <1>3, <2>4, <2>5 DEF IInv, TypeInv, Jobs
    <2>7. \A q \in Plugs, k \in Tokens : (Offers(q, k)' <=> Offers(q, k)) /\ plug'[q] = plug[q]
      BY <1>3, <2>4 DEF Offers, Exists
    <2>8. \A u \in Workers, q \in Plugs, k \in Tokens :
            Has(u, q, k)' <=> IF u = w THEN q = p /\ k = t ELSE Has(u, q, k)
      BY <2>3, <2>5 DEF Has
    <2>9. OwnerInv'
      <3>1. \A q \in Plugs, k \in Tokens : Belongs(q, k)' => Belongs(q, k)
        BY <1>1, <2>7, <2>8 DEF Belongs
      <3> QED
        BY <1>3, <3>1 DEF IInv, OwnerInv
    <2>10. AdoptInv'
      <3> SUFFICES ASSUME NEW v \in Workers, job'[v].op = "adopt"
                   PROVE  /\ tok'[job'[v].t].st \in {"live", "deleted"}
                          /\ \A q \in Plugs : ~Offers(q, job[v].t)' /\ plug'[q].secret # job'[v].t
                          /\ \A u \in Workers \ {v} : \A q \in Plugs : ~Has(u, q, job[v].t)'
                          /\ ~job'[v].gone => Exists(job[v].p)'
        BY DEF AdoptInv
      <3>1. v # w /\ job'[v] = job[v] /\ job[v].op = "adopt"
        BY <2>3, <2>5
      <3>2. PICK k \in Tokens : k = job[v].t /\ k = job'[v].t
        BY <3>1, JobShape DEF IInv, Adopt
      <3>3. /\ tok[k].st \in {"live", "deleted"} /\ \A q \in Plugs : ~Offers(q, k) /\ plug[q].secret # k
            /\ \A u \in Workers \ {v}, q \in Plugs : ~Has(u, q, k)
            /\ ~job[v].gone => Exists(job[v].p)
        BY <3>1, <3>2 DEF IInv, AdoptInv
      <3>4. \A q \in Plugs : ~Offers(q, k)' /\ plug'[q].secret # k
        BY <2>7, <3>3
      <3>5. \A u \in Workers \ {v}, q \in Plugs : ~Has(u, q, k)'
        BY <1>1, <2>8, <3>3
      <3>6. \A q \in Plugs : ~Offers(q, job[v].t)'
        BY <3>2, <3>4 DEF Offers, Exists
      <3>7. \A u \in Workers \ {v} : \A q \in Plugs : ~Has(u, q, job[v].t)'
        BY <3>2, <3>5 DEF Has
      <3>8. ~job'[v].gone => Exists(job[v].p)'
        BY <1>3, <3>1, <3>3 DEF Exists
      <3> QED
        BY <1>3, <3>2, <3>3, <3>4, <3>6, <3>7, <3>8
    <2>11. /\ tok[t].st = "live"
           /\ tok[t].target # None => dev[tok[t].target].st # "decommissioned" /\ TextMac(tok[t].target) = <<p, form>>
           /\ tok[t].target = None => ~ExistingActive(<<p, form>>)
      BY <1>2, <1>5, <2>1, RefusalFacts DEF IInv
    <2>12. CredInv'
      <3>1. \A d \in Devices : dev[d].cred # t
        BY <1>2, <2>11, NoneIsNone DEF IInv, CredInv
      <3> QED
        BY <1>3, <2>3, <2>5, <3>1 DEF IInv, CredInv
    <2>13. LockInv'
      BY <1>3, <2>3, <2>5 DEF IInv, LockInv, Locked
    <2>14. TargetInv'
      BY <1>3 DEF IInv, TargetInv
    <2>15. CheckInv'
      <3> SUFFICES ASSUME NEW v \in Workers, job'[v].op = "register"
                   PROVE  /\ tok[job'[v].t].target # None =>
                               TextMac(tok[job[v].t].target)' = <<job'[v].p, job'[v].form>>
                          /\ \/ job'[v].p \in raced
                             \/ \A d \in Devices \ {tok[job'[v].t].target} :
                                  dev[d].st = "active" => TextMac(d) # <<job'[v].p, job'[v].form>>
        BY <1>3 DEF CheckInv, TextMac
      <3>1. CASE v # w
        BY <1>3, <2>5, <3>1 DEF IInv, CheckInv, TextMac
      <3>2. CASE v = w
        <4>1. PICK e \in Devices \cup {None} : e = tok[t].target
          BY <1>2 DEF IInv, TypeInv, EnrollmentToken
        <4>2. e # None => TextMac(e)' = <<p, form>>
          BY <1>3, <2>11, <4>1 DEF TextMac
        <4>3. p \in raced \/ \A d \in Devices \ {e} : dev[d].st = "active" => TextMac(d) # <<p, form>>
          <5>1. CASE e = None
            BY <2>11, <4>1, <5>1 DEF ExistingActive
          <5>2. CASE e # None
            <6>1. dev[e].st = "active" /\ TextMac(e) = <<p, form>> /\ e \in Devices
              BY <1>2, <2>11, <4>1, <5>2 DEF IInv, TargetInv, TypeInv, Device
            <6>2. dev[e].mac = p
              BY <6>1 DEF TextMac
            <6> QED
              BY <6>1, <6>2 DEF IInv, DuplicateNeedsRace
          <5> QED
            BY <5>1, <5>2
        <4> QED
          BY <1>3, <2>3, <2>5, <3>2, <4>1, <4>2, <4>3 DEF TextMac
      <3> QED
        BY <3>1, <3>2
    <2>16. TokenRegistersOneDevice' /\ DuplicateNeedsRace'
      BY <1>3 DEF IInv, TokenRegistersOneDevice, DuplicateNeedsRace, TextMac
    <2>17. OfferedTokenIsFresh'
      BY <1>3, <2>5 DEF IInv, OfferedTokenIsFresh, Exists
    <2> QED
      BY <2>6, <2>9, <2>10, <2>12, <2>13, <2>14, <2>15, <2>16, <2>17 DEF IInv
  <1> QED
    BY <1>4, <1>5

\* The row a commit writes: a new one, or the one the token was minted for.
LEMMA CommitDevice ==
    ASSUME IInv, NEW w \in Workers, register_commit(w)
    PROVE  \E e \in Devices, r \in Device :
             /\ dev' = [dev EXCEPT ![e] = r]
             /\ r.st = "active" /\ r.cred = job[w].t /\ r.mac = job[w].p /\ r.form = job[w].form
             /\ \/ tok[job[w].t].target = e /\ r.mac = dev[e].mac /\ r.form = dev[e].form
                \/ tok[job[w].t].target = None /\ dev[e].st = "none"
  <1>1. job[w] \in Register
    BY JobShape DEF register_commit, IInv
  <1>2. PICK t \in Tokens : t = job[w].t
    BY <1>1 DEF Register
  <1>3. CASE tok[t].target = None
    <2>1. PICK e : e = Min(Unused)
      OBVIOUS
    <2>2. e \in Devices /\ dev[e].st = "none"
      BY <1>2, <1>3, <2>1, NextDevice DEF register_commit
    <2>3. PICK r : r = NewDevice(job[w].p, job[w].form, t)
      OBVIOUS
    <2>4. /\ r \in Device /\ r.st = "active" /\ r.cred = t /\ r.mac = job[w].p /\ r.form = job[w].form
      BY <1>1, <2>3 DEF NewDevice, Device, Register
    <2>5. dev' = [dev EXCEPT ![e] = r]
      BY <1>2, <1>3, <2>1, <2>3 DEF register_commit
    <2> QED
      BY <1>2, <1>3, <2>2, <2>4, <2>5
  <1>4. CASE tok[t].target # None
    <2>1. PICK e \in Devices : e = tok[t].target
      BY <1>4 DEF IInv, TypeInv, EnrollmentToken
    <2>2. PICK r : r = Rebound(e, t)
      OBVIOUS
    <2>3. /\ r \in Device /\ r.st = "active" /\ r.cred = t /\ r.mac = dev[e].mac /\ r.form = dev[e].form
      <3>1. dev[e] \in Device
        BY DEF IInv, TypeInv
      <3>2. [dev[e] EXCEPT !.st = "active"] \in Device
        BY <3>1 DEF Device
      <3>3. r = [[dev[e] EXCEPT !.st = "active"] EXCEPT !.cred = t]
        BY <2>2 DEF Rebound
      <3> QED
        BY <3>1, <3>2, <3>3 DEF Device
    <2>4. dev' = [dev EXCEPT ![e] = r]
      BY <1>2, <1>4, <2>1, <2>2 DEF register_commit
    <2>5. TextMac(e) = <<job[w].p, job[w].form>>
      BY <1>2, <1>4, <2>1 DEF IInv, CheckInv, register_commit
    <2>6. dev[e].mac = job[w].p /\ dev[e].form = job[w].form
      BY <2>5 DEF TextMac
    <2> QED
      BY <1>2, <2>1, <2>3, <2>4, <2>6
  <1> QED
    BY <1>3, <1>4

LEMMA CommitInv ==
    ASSUME IInv, NEW w \in Workers, register_commit(w)
    PROVE  IInv'
  <1>1. job[w].op = "register" /\ job[w] \in Register
    BY JobShape DEF register_commit, IInv
  <1>2. PICK t \in Tokens : t = job[w].t
    BY <1>1 DEF Register
  <1>3. PICK p \in Plugs : p = job[w].p
    BY <1>1 DEF Register
  <1>4. PICK form : form = job[w].form
    OBVIOUS
  <1>5. PICK e \in Devices, r \in Device :
          /\ dev' = [dev EXCEPT ![e] = r]
          /\ r.st = "active" /\ r.cred = t /\ r.mac = p /\ r.form = form
          /\ \/ tok[t].target = e /\ r.mac = dev[e].mac /\ r.form = dev[e].form
             \/ tok[t].target = None /\ dev[e].st = "none"
    BY <1>2, <1>3, <1>4, CommitDevice
  <1>6. dev' \in [Devices -> Device] /\ dev'[e] = r /\ \A d \in Devices \ {e} : dev'[d] = dev[d]
    BY <1>5, SetDev DEF IInv
  <1>7. TextMac(e)' = <<p, form>> /\ \A d \in Devices \ {e} : TextMac(d)' = TextMac(d)
    BY <1>5, <1>6 DEF TextMac
  <1>8. PICK k : k = [tok[t] EXCEPT !.st = "consumed"]
    OBVIOUS
  <1>9. k \in EnrollmentToken /\ k.st = "consumed" /\ k.target = tok[t].target
    BY <1>8 DEF IInv, TypeInv, EnrollmentToken
  <1>10. PICK x : x = [op |-> "link", p |-> p, lost |-> job[w].lost, t |-> t]
    OBVIOUS
  <1>11. x \in Jobs /\ x.op = "link" /\ x.p = p
    BY <1>1, <1>10 DEF Jobs, Link, Register
  <1>12. /\ UNCHANGED <<ann, plug, missed>> /\ tok' = [tok EXCEPT ![t] = k] /\ job' = [job EXCEPT ![w] = x]
         /\ raced' = IF \E v \in Workers \ {w} : job[v].op = "register" /\ job[v].p = p
                     THEN raced \cup {p} ELSE raced
    BY <1>2, <1>3, <1>8, <1>10 DEF register_commit
  <1>13. tok' \in [Tokens -> EnrollmentToken] /\ tok'[t] = k /\ \A u \in Tokens \ {t} : tok'[u] = tok[u]
    BY <1>9, <1>12, SetTok DEF IInv
  <1>14. /\ job' \in [Workers -> Jobs] /\ job'[w] = x
         /\ \A u \in Workers \ {w} : job'[u] = job[u]
    BY <1>11, <1>12, SetJob DEF IInv
  <1>15. TypeInv'
    BY <1>6, <1>12, <1>13, <1>14 DEF IInv, TypeInv, Jobs
  <1>16. \A q \in Plugs, u \in Tokens : (Offers(q, u)' <=> Offers(q, u)) /\ plug'[q] = plug[q]
    BY <1>12 DEF Offers, Exists
  <1>17. \A v \in Workers, q \in Plugs, u \in Tokens :
           Has(v, q, u)' <=> v # w /\ Has(v, q, u)
    BY <1>11, <1>14 DEF Has
  <1>18. OwnerInv'
    <2>1. \A q \in Plugs, u \in Tokens : Belongs(q, u)' => Belongs(q, u)
      BY <1>16, <1>17 DEF Belongs
    <2>2. \A u \in Tokens : tok'[u].st = "unminted" => tok[u].st = "unminted"
      BY <1>9, <1>13
    <2> QED
      BY <2>1, <2>2 DEF IInv, OwnerInv
  <1>19. Has(w, p, t)
    BY <1>1, <1>2, <1>3 DEF Has
  <1>20. AdoptInv'
    <2> SUFFICES ASSUME NEW v \in Workers, job'[v].op = "adopt"
                 PROVE  /\ tok'[job'[v].t].st \in {"live", "deleted"}
                        /\ \A q \in Plugs : ~Offers(q, job[v].t)' /\ plug'[q].secret # job'[v].t
                        /\ \A u \in Workers \ {v} : \A q \in Plugs : ~Has(u, q, job[v].t)'
                        /\ ~job'[v].gone => Exists(job[v].p)'
      BY DEF AdoptInv
    <2>1. v # w /\ job'[v] = job[v] /\ job[v].op = "adopt"
      BY <1>11, <1>14
    <2>2. PICK o \in Tokens : o = job[v].t /\ o = job'[v].t
      BY <2>1, JobShape DEF IInv, Adopt
    <2>3. /\ tok[o].st \in {"live", "deleted"} /\ \A q \in Plugs : ~Offers(q, o) /\ plug[q].secret # o
          /\ \A u \in Workers \ {v}, q \in Plugs : ~Has(u, q, o)
          /\ ~job[v].gone => Exists(job[v].p)
      BY <2>1, <2>2 DEF IInv, AdoptInv
    <2>4. o # t
      BY <1>19, <2>1, <2>3
    <2>5. \A q \in Plugs : ~Offers(q, job[v].t)' /\ plug'[q].secret # job'[v].t
      BY <1>12, <2>2, <2>3 DEF Offers, Exists
    <2>6. \A u \in Workers \ {v}, q \in Plugs : ~Has(u, q, o)'
      BY <1>17, <2>3
    <2>7. \A u \in Workers \ {v} : \A q \in Plugs : ~Has(u, q, job[v].t)'
      BY <2>2, <2>6 DEF Has
    <2>8. ~job'[v].gone => Exists(job[v].p)'
      BY <1>12, <2>1, <2>3 DEF Exists
    <2> QED
      BY <1>13, <2>2, <2>3, <2>4, <2>5, <2>7, <2>8
  <1>21. /\ \A d \in Devices : dev[d].cred # t
         /\ \A v \in Workers \ {w} : job[v].op = "register" => job[v].t # t
    BY <1>1, <1>2 DEF IInv, CredInv, LockInv
  <1>22. CredInv'
    <2>1. \A d \in Devices : dev'[d].cred # None => tok'[dev'[d].cred].st \in {"consumed", "deleted"}
      <3> SUFFICES ASSUME NEW d \in Devices, dev'[d].cred # None
                   PROVE  tok'[dev'[d].cred].st \in {"consumed", "deleted"}
        OBVIOUS
      <3>1. CASE d = e
        BY <1>5, <1>6, <1>9, <1>13, <3>1
      <3>2. CASE d # e
        <4>1. dev[d].cred \in Tokens \ {t} /\ dev'[d].cred = dev[d].cred
          BY <1>6, <1>21, <3>2 DEF IInv, TypeInv, Device
        <4> QED
          BY <1>13, <4>1, NoneIsNone DEF IInv, CredInv
      <3> QED
        BY <3>1, <3>2
    <2>2. \A v \in Workers, d \in Devices : job'[v].op = "register" => dev'[d].cred # job'[v].t
      BY <1>5, <1>6, <1>11, <1>14, <1>21 DEF IInv, CredInv
    <2> QED
      BY <2>1, <2>2 DEF CredInv
  <1>23. LockInv'
    BY <1>11, <1>14 DEF IInv, LockInv
  <1>24. TargetInv'
    <2> SUFFICES ASSUME NEW u \in Tokens, tok'[u].target # None
                 PROVE  dev'[tok'[u].target].st # "none"
      BY DEF TargetInv
    <2>1. tok'[u].target = tok[u].target
      BY <1>9, <1>13
    <2>2. PICK d \in Devices : d = tok[u].target /\ d = tok'[u].target
      BY <2>1 DEF TypeInv, IInv, EnrollmentToken
    <2>3. dev[d].st # "none"
      BY <2>1, <2>2 DEF IInv, TargetInv
    <2> QED
      BY <1>5, <1>6, <2>2, <2>3
  <1>25. CheckInv'
    <2> SUFFICES ASSUME NEW v \in Workers, job'[v].op = "register"
                 PROVE  /\ tok'[job'[v].t].target # None =>
                             TextMac(tok[job[v].t].target)' = <<job'[v].p, job'[v].form>>
                        /\ \/ job'[v].p \in raced'
                           \/ \A d \in Devices \ {tok'[job'[v].t].target} :
                                dev'[d].st = "active" => TextMac(d)' # <<job'[v].p, job'[v].form>>
      BY DEF CheckInv
    <2>1. v # w /\ job'[v] = job[v] /\ job[v].op = "register"
      BY <1>11, <1>14
    <2>2. PICK o \in Tokens \ {t} : o = job[v].t /\ o = job'[v].t
      BY <1>21, <2>1, JobShape DEF IInv, Register
    <2>3. PICK g \in Devices \cup {None} : g = tok[o].target /\ g = tok'[o].target
      BY <1>13 DEF IInv, TypeInv, EnrollmentToken
    <2>4. /\ g # None => TextMac(g) = <<job[v].p, job[v].form>> /\ dev[g].st # "none"
          /\ \/ job[v].p \in raced
             \/ \A d \in Devices \ {g} : dev[d].st = "active" => TextMac(d) # <<job[v].p, job[v].form>>
      BY <2>1, <2>2, <2>3 DEF IInv, CheckInv, TargetInv
    <2>5. g # None => TextMac(g)' = TextMac(g)
      <3>1. CASE g = e
        BY <1>5, <1>6, <2>4, <3>1, NoneIsNone DEF TextMac
      <3>2. CASE g # e
        BY <1>7, <3>2
      <3> QED
        BY <3>1, <3>2
    <2>6. TextMac(g)' = TextMac(tok[job[v].t].target)'
      BY <2>2, <2>3 DEF TextMac
    <2>7. \/ job[v].p \in raced'
          \/ \A d \in Devices \ {g} : dev'[d].st = "active" => TextMac(d)' # <<job[v].p, job[v].form>>
      <3>1. CASE job[v].p = p
        BY <1>12, <2>1, <3>1
      <3>2. CASE job[v].p # p
        <4>1. TextMac(e)' # <<job[v].p, job[v].form>>
          BY <1>7, <3>2
        <4> QED
          BY <1>6, <1>7, <1>12, <2>4, <4>1
      <3> QED
        BY <3>1, <3>2
    <2> QED
      BY <2>1, <2>2, <2>3, <2>4, <2>5, <2>6, <2>7
  <1>26. TokenRegistersOneDevice'
    BY <1>5, <1>6, <1>21 DEF IInv, TokenRegistersOneDevice
  <1>27. DuplicateNeedsRace'
    <2>1. \/ p \in raced
          \/ \A d \in Devices \ {e} : dev[d].st = "active" => TextMac(d) # <<p, form>>
      BY <1>1, <1>2, <1>3, <1>4, <1>5, NoneIsNone DEF IInv, CheckInv
    <2>2. raced \subseteq raced'
      BY <1>12
    <2>3. \A d \in Devices \ {e} : TextMac(d)' = <<p, form>> => dev'[d].mac = p
      BY DEF TextMac
    <2> SUFFICES ASSUME NEW d \in Devices, NEW f \in Devices, dev'[d].st = "active", dev'[f].st = "active",
                        TextMac(d)' = TextMac(f)', d # f
                 PROVE  dev'[d].mac \in raced'
      BY DEF DuplicateNeedsRace
    <2>4. CASE d = e
      BY <1>5, <1>6, <1>7, <2>1, <2>2, <2>4
    <2>5. CASE f = e
      BY <1>6, <1>7, <2>1, <2>2, <2>3, <2>5
    <2>6. CASE d # e /\ f # e
      BY <1>6, <1>7, <2>2, <2>6 DEF IInv, DuplicateNeedsRace
    <2> QED
      BY <2>4, <2>5, <2>6
  <1>28. OfferedTokenIsFresh'
    <2> SUFFICES ASSUME NEW q \in Plugs, NEW u \in Tokens, Offers(q, u)', tok'[u].st = "consumed"
                 PROVE  q \in missed' \/ \E v \in Workers : job'[v].op = "link" /\ job'[v].p = q
      <3>1. \A q \in Plugs : Exists(q)' /\ ann'[q].secret # None => ann'[q].secret \in Tokens
        BY <1>15 DEF TypeInv, Announcement, Exists
      <3> QED
        BY <3>1 DEF OfferedTokenIsFresh, Offers
    <2>1. Offers(q, u)
      BY <1>16
    <2>2. CASE u = t
      <3>1. q = p
        BY <1>19, <2>1, <2>2 DEF IInv, OwnerInv, Belongs
      <3> QED
        BY <1>11, <1>14, <3>1
    <2>3. CASE u # t
      <3>1. q \in missed \/ \E v \in Workers : job[v].op = "link" /\ job[v].p = q
        BY <1>13, <2>1, <2>3, NoneIsNone DEF IInv, OfferedTokenIsFresh, Offers
      <3> QED
        BY <1>1, <1>12, <1>14, <3>1
    <2> QED
      BY <2>2, <2>3
  <1> QED
    BY <1>15, <1>18, <1>20, <1>22, <1>23, <1>24, <1>25, <1>26, <1>27, <1>28 DEF IInv

LEMMA AdoptCommitInv ==
    ASSUME IInv, NEW w \in Workers, adopt_commit(w)
    PROVE  IInv'
  <1>1. job[w].op = "adopt" /\ job[w] \in Adopt
    BY JobShape DEF adopt_commit, IInv
  <1>2. PICK t \in Tokens : t = job[w].t
    BY <1>1 DEF Adopt
  <1>3. PICK p \in Plugs : p = job[w].p
    BY <1>1 DEF Adopt
  <1>4. UNCHANGED <<tok, dev, plug, raced, missed>> /\ job' = [job EXCEPT ![w] = Idle]
    BY DEF adopt_commit
  <1>5. CASE job[w].gone
    <2>1. UNCHANGED ann
      BY <1>5 DEF adopt_commit
    <2> QED
      BY <1>1, <1>4, <2>1, IdleJob, DevKept, WorkerStep
  <1>6. CASE ~job[w].gone
    <2>1. Exists(p) /\ ann[p] \in Announcement
      BY <1>1, <1>3, <1>6, AnnShape DEF IInv, AdoptInv
    <2>2. PICK r : r = [ann[p] EXCEPT !.adopted = TRUE, !.secret = t, !.token = t]
      OBVIOUS
    <2>3. r \in Announcement /\ r.secret = t
      BY <2>1, <2>2, AdoptedRow
    <2>4. ann' = [ann EXCEPT ![p] = r]
      BY <1>2, <1>3, <1>6, <2>2 DEF adopt_commit, IInv, TypeInv
    <2>5. /\ ann' \in [Plugs -> Announcement \cup {NoRow}] /\ ann'[p] = r
          /\ \A q \in Plugs \ {p} : ann'[q] = ann[q]
      BY <2>3, <2>4, SetAnn DEF IInv
    <2>6. /\ job' \in [Workers -> Jobs] /\ job'[w] = Idle
          /\ \A u \in Workers \ {w} : job'[u] = job[u]
      BY <1>4, IdleJob, SetJob DEF IInv
    <2>7. TypeInv'
      BY <1>4, <2>5, <2>6 DEF IInv, TypeInv, Jobs
    <2>8. /\ tok[t].st \in {"live", "deleted"} /\ Has(w, p, t)
          /\ \A v \in Workers \ {w}, q \in Plugs : ~Has(v, q, t)
      BY <1>1, <1>2, <1>3 DEF IInv, AdoptInv, Has
    <2>9. \A q \in Plugs, u \in Tokens : Offers(q, u)' => Offers(q, u) \/ (q = p /\ u = t)
      BY <2>3, <2>5 DEF Offers, Exists
    <2>10. \A v \in Workers, q \in Plugs, u \in Tokens : Has(v, q, u)' => v # w /\ Has(v, q, u)
      BY <2>6, IdleJob DEF Has
    <2>11. OwnerInv'
      <3>1. \A q \in Plugs, u \in Tokens : Belongs(q, u)' => Belongs(q, u)
        BY <1>4, <2>8, <2>9, <2>10 DEF Belongs
      <3> QED
        BY <1>4, <3>1 DEF IInv, OwnerInv
    <2>12. \A q \in Plugs : Exists(q) => Exists(q)'
      BY <2>3, <2>5, FreshRow DEF Exists
    <2>13. AdoptInv'
      <3> SUFFICES ASSUME NEW v \in Workers, job'[v].op = "adopt"
                   PROVE  /\ tok'[job'[v].t].st \in {"live", "deleted"}
                          /\ \A q \in Plugs : ~Offers(q, job[v].t)' /\ plug'[q].secret # job'[v].t
                          /\ \A u \in Workers \ {v} : \A q \in Plugs : ~Has(u, q, job[v].t)'
                          /\ ~job'[v].gone => Exists(job[v].p)'
        BY DEF AdoptInv
      <3>1. v # w /\ job'[v] = job[v] /\ job[v].op = "adopt"
        BY <2>6, IdleJob
      <3>2. PICK o \in Tokens, g \in Plugs : o = job[v].t /\ o = job'[v].t /\ g = job[v].p /\ g = job'[v].p
        BY <3>1, JobShape DEF IInv, Adopt
      <3>3. /\ tok[o].st \in {"live", "deleted"} /\ \A q \in Plugs : ~Offers(q, o) /\ plug[q].secret # o
            /\ \A u \in Workers \ {v}, q \in Plugs : ~Has(u, q, o)
            /\ ~job[v].gone => Exists(g)
        BY <3>1, <3>2 DEF IInv, AdoptInv
      <3>4. o # t
        BY <2>8, <3>1, <3>3
      <3>5. \A q \in Plugs : ~Offers(q, o)'
        BY <2>9, <3>3, <3>4
      <3>6. \A q \in Plugs : ~Offers(q, job[v].t)'
        BY <3>2, <3>5 DEF Offers, Exists
      <3>7. \A u \in Workers \ {v}, q \in Plugs : ~Has(u, q, o)'
        BY <2>10, <3>3
      <3>8. \A u \in Workers \ {v} : \A q \in Plugs : ~Has(u, q, job[v].t)'
        BY <3>2, <3>7 DEF Has
      <3>9. ~job'[v].gone => Exists(g)'
        BY <2>12, <3>1, <3>3
      <3>10. Exists(g)' <=> Exists(job[v].p)'
        BY <3>2 DEF Exists
      <3> QED
        BY <1>4, <3>2, <3>3, <3>6, <3>8, <3>9, <3>10
    <2>14. \A v \in Workers : job'[v].op = "register" => job'[v] = job[v]
      BY <2>6, IdleJob
    <2>15. CredInv' /\ LockInv' /\ TargetInv'
      BY <1>4, <2>14 DEF IInv, CredInv, LockInv, TargetInv
    <2>16. CheckInv'
      BY <1>4, <2>14 DEF IInv, CheckInv, TextMac
    <2>17. TokenRegistersOneDevice' /\ DuplicateNeedsRace'
      BY <1>4 DEF IInv, TokenRegistersOneDevice, DuplicateNeedsRace, TextMac
    <2>18. OfferedTokenIsFresh'
      <3> SUFFICES ASSUME NEW q \in Plugs, NEW u \in Tokens, Offers(q, u)', tok'[u].st = "consumed"
                   PROVE  q \in missed' \/ \E v \in Workers : job'[v].op = "link" /\ job'[v].p = q
        <4>1. \A q \in Plugs : Exists(q)' /\ ann'[q].secret # None => ann'[q].secret \in Tokens
          BY <2>7 DEF TypeInv, Announcement, Exists
        <4> QED
          BY <4>1 DEF OfferedTokenIsFresh, Offers
      <3>1. Offers(q, u) /\ tok[u].st = "consumed"
        BY <1>4, <2>8, <2>9
      <3>2. q \in missed \/ \E v \in Workers : job[v].op = "link" /\ job[v].p = q
        BY <3>1, NoneIsNone DEF IInv, OfferedTokenIsFresh, Offers
      <3> QED
        BY <1>1, <1>4, <2>6, <3>2
    <2> QED
      BY <2>7, <2>11, <2>13, <2>15, <2>16, <2>17, <2>18 DEF IInv
  <1> QED
    BY <1>5, <1>6

-----------------------------------------------------------------------------
(* The start, and the theorems                                             *)

LEMMA StrandedShape ==
    /\ StrandedRow(1) \in Announcement /\ StrandedRow(1).secret = None
  <1>1. 1 \in Tokens
    BY DEF Tokens
  <1> DEFINE a == [NewAnnouncement EXCEPT !.adopted = TRUE]
             b == [a EXCEPT !.delivered = TRUE]
  <1>2. a \in Announcement /\ a.secret = None
    BY FreshRow, SetFlag
  <1> HIDE DEF a
  <1>3. b \in Announcement /\ b.secret = None
    BY <1>2, SetFlag
  <1>4. StrandedRow(1) = [b EXCEPT !.token = 1]
    BY DEF a, StrandedRow
  <1> HIDE DEF b
  <1>5. [b EXCEPT !.token = 1] \in Announcement /\ [b EXCEPT !.token = 1].secret = b.secret
    BY <1>1, <1>3, SetToken, Zenon
  <1> QED
    BY <1>3, <1>4, <1>5

LEMMA InitInv ==
    ASSUME Init
    PROVE  IInv
  <1>1. PICK legacy \in SUBSET Plugs :
          /\ ann = [p \in Plugs |-> IF p \in legacy THEN StrandedRow(1) ELSE NoRow]
          /\ tok = [t \in Tokens |-> [st |-> IF t = 1 /\ legacy # {} THEN "live" ELSE "unminted",
                                      expired |-> FALSE, target |-> None]]
    BY DEF Init
  <1>2. /\ job = [w \in Workers |-> Idle] /\ raced = {} /\ missed = {}
        /\ dev = [d \in Devices |-> [st |-> "none", mac |-> CHOOSE p \in Plugs : TRUE,
                                     form |-> "bare", cred |-> None, push |-> FALSE]]
    BY DEF Init
  <1>3. PICK f \in [Plugs -> Forms] : plug = [p \in Plugs |-> [secret |-> None, cred |-> None, form |-> f[p]]]
    BY DEF Init
  <1>4. ann \in [Plugs -> Announcement \cup {NoRow}] /\ \A p \in Plugs, t \in Tokens : ~Offers(p, t)
    BY <1>1, StrandedShape, NoneIsNone DEF Offers, Exists
  <1>5. tok \in [Tokens -> EnrollmentToken] /\ \A t \in Tokens : tok[t].target = None
    BY <1>1 DEF EnrollmentToken
  <1>6. dev \in [Devices -> Device] /\ \A d \in Devices : dev[d].st = "none" /\ dev[d].cred = None
    <2>1. (CHOOSE p \in Plugs : TRUE) \in Plugs
      OBVIOUS
    <2>2. PICK r : r = [st |-> "none", mac |-> CHOOSE p \in Plugs : TRUE,
                        form |-> "bare", cred |-> None, push |-> FALSE]
      OBVIOUS
    <2>3. r \in Device /\ r.st = "none" /\ r.cred = None
      BY <2>1, <2>2 DEF Device
    <2>4. dev = [d \in Devices |-> r]
      BY <1>2, <2>2
    <2> QED
      BY <2>3, <2>4
  <1>7. plug \in [Plugs -> Firmware] /\ \A p \in Plugs : plug[p].secret = None
    BY <1>3 DEF Firmware
  <1>8. job \in [Workers -> Jobs] /\ \A w \in Workers : job[w].op = "idle"
    BY <1>2, IdleJob
  <1>9. TypeInv
    BY <1>4, <1>5, <1>6, <1>7, <1>8 DEF TypeInv, Jobs
  <1>10. OwnerInv
    BY <1>4, <1>7, <1>8, NoneIsNone DEF OwnerInv, Belongs, Has
  <1>11. AdoptInv /\ CredInv /\ LockInv /\ TargetInv /\ CheckInv
    BY <1>5, <1>6, <1>8 DEF AdoptInv, CredInv, LockInv, TargetInv, CheckInv
  <1>12. TokenRegistersOneDevice /\ DuplicateNeedsRace
    BY <1>6 DEF TokenRegistersOneDevice, DuplicateNeedsRace
  <1>13. OfferedTokenIsFresh
    <2>1. \A p \in Plugs : Exists(p) => ann[p].secret = None
      BY <1>1, StrandedShape DEF Exists
    <2> QED
      BY <2>1 DEF OfferedTokenIsFresh
  <1> QED
    BY <1>9, <1>10, <1>11, <1>12, <1>13 DEF IInv

LEMMA StutterInv ==
    ASSUME IInv, UNCHANGED vars
    PROVE  IInv'
  <1>1. UNCHANGED <<ann, tok, dev, plug, job, raced, missed>>
    BY DEF vars
  <1>2. TypeInv'
    BY <1>1 DEF IInv, TypeInv
  <1>3. PICK p \in Plugs : TRUE
    OBVIOUS
  <1>4. JobsKeep(None, p, None)
    BY <1>1, JobsLeave DEF Exists
  <1>5. LinksKeep
    BY <1>1, LinksSame
  <1> QED
    BY <1>1, <1>2, <1>4, <1>5, TokensSame, DevicesSame, RowsSame, OtherStep

LEMMA StepInv ==
    ASSUME IInv, [Next]_vars
    PROVE  IInv'
  <1>1. CASE \E p \in Plugs : PlugNext(p)
    BY <1>1, AnnounceInv, ReadInv, ReflashInv DEF PlugNext
  <1>2. CASE \E p \in Plugs : reject(p) \/ force_adopt_reconcile(p) \/ delete(p) \/ mint_enrollment_token(p)
    BY <1>2, RejectInv, ReconcileInv, DeleteInv, MintInv
  <1>3. CASE \E w \in Workers, p \in Plugs : \/ adopt_submit(w, p) \/ restore_submit(w, p)
                                            \/ \E d \in Devices : decommission(w, p, d)
    BY <1>3, AdoptsInv, DecommissionInv
  <1>4. CASE \E w \in Workers, t \in Tokens : revoke_read(w, t)
    BY <1>4, RevokeReadInv
  <1>5. CASE \E w \in Workers : WorkerNext(w)
    BY <1>5, CommitInv, LinkInv, LinkFailsInv, ReplyInv, AdoptCommitInv, AdoptFailsInv, ReplaceInv,
       RevokeDeleteInv, TimeoutInv DEF WorkerNext
  <1>6. CASE \E t \in Tokens : Expire(t)
    BY <1>6, ExpireInv
  <1>7. CASE UNCHANGED vars
    BY <1>7, StutterInv
  <1> QED
    BY <1>1, <1>2, <1>3, <1>4, <1>5, <1>6, <1>7 DEF Next, OperatorNext

\* The inductive invariant: whose a token is, who has it locked, and what a
\* registration relies on between its checks and its commit, whatever the
\* operator, the plugs, timeouts and failures do meanwhile.
THEOREM EnrollmentInvariant == Spec => []IInv
  <1>1. Init => IInv
    BY InitInv
  <1>2. IInv /\ [Next]_vars => IInv'
    BY StepInv
  <1> QED
    BY <1>1, <1>2, PTL DEF Spec

\* An enrollment token pays for one device (services/enrollment.py, the row
\* lock of consume_enrollment_token), however many registrations with it overlap.
THEOREM OneDevicePerToken == Spec => []TokenRegistersOneDevice
  <1>1. IInv => TokenRegistersOneDevice
    BY DEF IInv
  <1> QED
    BY <1>1, EnrollmentInvariant, PTL

\* Two active rows of one plug are the work of registrations that overlapped:
\* nothing else the operator, the plugs or the self-healing of announcements
\* do ever makes a duplicate.
THEOREM DuplicatesAreRaces == Spec => []DuplicateNeedsRace
  <1>1. IInv => DuplicateNeedsRace
    BY DEF IInv
  <1> QED
    BY <1>1, EnrollmentInvariant, PTL

\* A row stops offering a token that was used, unless its cross-link failed,
\* came to a consumed row or has yet to run (mark_consumed).
THEOREM OfferIsFresh == Spec => []OfferedTokenIsFresh
  <1>1. IInv => OfferedTokenIsFresh
    BY DEF IInv
  <1> QED
    BY <1>1, EnrollmentInvariant, PTL

=============================================================================
