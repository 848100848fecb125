--------------------------- MODULE AccountingProofs ---------------------------
(***************************************************************************)
(* The accounts stay sound, for every set of identities, plan, period,     *)
(* size of a counter and number of changes, days, bytes, crashes and       *)
(* faults.                                                                 *)
(*                                                                         *)
(* Three things carry the invariant.  What memory, state file and ledger   *)
(* hold at each phase of a change (FilesInv): they agree before the file   *)
(* is renamed, afterwards the file is the change, and a master that        *)
(* stopped in between leaves a file of a later revision.  That a revision  *)
(* the Agent or the enforcer knows was used for one set of users           *)
(* (AuthorityInv).  And an account of the bytes (UsageInv): what is        *)
(* charged, together with what the reports and counters of the Agent may   *)
(* still charge, is at most what was carried.                              *)
(***************************************************************************)
EXTENDS Accounting, TLAPS

-----------------------------------------------------------------------------
(* Types.                                                                  *)

Partial(S) == UNION {[D -> S] : D \in SUBSET Grants}

Membership == [quota : Nat, ends : Nat, used : 0..MaxBytes, started : Int, resets : Int,
               off : {"no", "quota", "expired"}]
Rows == [used : 0..MaxBytes, started : Int, resets : Int]
Bases == [epoch : Int, count : Nat, at : Int]
Books == [urev : Nat \ {0}, members : Partial(Membership), observed : Partial(Bases)]
Ledgers == [urev : Nat, rows : Partial(Rows), daily : Partial(Nat), observed : Partial(Bases)]
Phases == {"prepared", "renamed", "uncommitted", "restoring"}
Targets == [urev : Nat, users : SUBSET Grants]

TypeInv ==
    /\ book \in Books /\ json \in Books /\ sql \in Ledgers
    /\ txn = NoTxn \/ txn \in [phase : Phases, next : Books]
    /\ up \in BOOLEAN /\ torn \in BOOLEAN /\ clock \in Nat
    /\ agent \in [urev : Nat, users : SUBSET Grants, counter : Partial(Nat), report : Partial(Nat),
                  from : Nat, epoch : Nat, totals : BOOLEAN]
    /\ enforcer \in [running : BOOLEAN, again : BOOLEAN, job : Targets]
    /\ served \in [Grants -> Int]
    /\ \A g \in Grants : served[g] >= Ungranted

-----------------------------------------------------------------------------
(* The inductive invariant.                                                *)

(* A membership as the book may hold it.                                   *)
Valid(m, now) ==
    /\ m.started <= m.resets
    /\ m.off = "no" => ~QuotaReached(m)
    /\ m.off = "quota" => QuotaReached(m)
    /\ m.off = "expired" => Expired(m, now)

Pending == txn # NoTxn

MemberInv ==
    /\ \A g \in DOMAIN book.members : Valid(book.members[g], clock)
    /\ \A g \in DOMAIN json.members : json.members[g].started <= json.members[g].resets
    /\ \A g \in DOMAIN sql.rows : sql.rows[g].started <= sql.rows[g].resets
    /\ Pending => \A g \in DOMAIN txn.next.members : Valid(txn.next.members[g], clock)
    /\ DOMAIN sql.daily \subseteq DOMAIN sql.rows

RevisionInv ==
    /\ book.urev <= sql.urev
    /\ agent.urev <= book.urev /\ enforcer.job.urev <= book.urev
    /\ Pending => up /\ txn.next.urev = book.urev + 1 /\ txn.next.observed = book.observed
    /\ ~up => enforcer.job = NoJob

Agrees ==
    /\ DOMAIN json.members = DOMAIN book.members /\ DOMAIN sql.rows = DOMAIN book.members
    /\ \A g \in DOMAIN book.members :
        /\ json.members[g].quota = book.members[g].quota
        /\ json.members[g].ends = book.members[g].ends
        /\ sql.rows[g] = Row(book.members[g])

FilesInv ==
    ~torn =>
        /\ sql.observed = book.observed
        /\ up /\ txn.phase \in {"none", "prepared"} => Agrees
        /\ txn.phase \in {"renamed", "uncommitted", "restoring"} => json = txn.next
        /\ ~up => Agrees \/ json.urev > book.urev

Similar(users) ==
    \A g \in Grants : (g \in users) # (g \in Authority(book))
        => g \in DOMAIN book.members /\ book.members[g].off = "expired"

AuthorityInv ==
    ~torn => /\ agent.urev = book.urev => Similar(agent.users)
             /\ enforcer.job.urev = book.urev => Similar(enforcer.job.users)

(* Identities that were never granted appear nowhere. *)
Unheard(g) ==
    /\ g \notin DOMAIN book.members /\ g \notin DOMAIN json.members
    /\ Pending => g \notin DOMAIN txn.next.members
    /\ g \notin DOMAIN sql.rows
    /\ g \notin agent.users /\ g \notin enforcer.job.users
    /\ g \notin DOMAIN agent.counter /\ g \notin DOMAIN agent.report

GrantInv == \A g \in Grants : served[g] = Ungranted => Unheard(g)

Count(f, g) == IF g \in DOMAIN f THEN f[g] ELSE 0
BaseOf(g) == IF g \in DOMAIN book.observed THEN book.observed[g] ELSE NoBase
Told(g) == [epoch |-> agent.from, count |-> agent.report[g], at |-> 0]

(* What reports may still charge for bytes that were carried, and what may *)
(* be charged already.                                                     *)
Owed(g) ==
    IF ~agent.totals THEN Count(agent.report, g) + Count(agent.counter, g)
    ELSE IF g \in DOMAIN agent.report
    THEN counterDelta(BaseOf(g), agent.from, agent.report[g])
         + counterDelta(Told(g), agent.epoch, Count(agent.counter, g))
    ELSE counterDelta(BaseOf(g), agent.epoch, Count(agent.counter, g))

Room(g) == served[g] - Owed(g)

UsageInv ==
    ~torn => \A g \in Grants :
        /\ g \in DOMAIN book.members => book.members[g].used <= Room(g) /\ DailyUsage(g) <= Room(g)
        /\ g \in DOMAIN json.members =>
              DailyUsage(g) <= Room(g) /\ (g \in DOMAIN sql.rows \/ json.members[g].used <= Room(g))
        /\ g \in DOMAIN sql.rows => sql.rows[g].used <= Room(g)
        /\ Pending /\ g \in DOMAIN txn.next.members =>
              txn.next.members[g].used <= Room(g) /\ DailyUsage(g) <= Room(g)

BillInv ==
    /\ TypeInv /\ MemberInv /\ RevisionInv /\ FilesInv /\ AuthorityInv /\ GrantInv /\ UsageInv

-----------------------------------------------------------------------------
(* The operators of the model.                                             *)

(* A partial function on the identities.                                   *)
LEMMA PartialFacts ==
  ASSUME NEW S, NEW f
  PROVE  f \in Partial(S) <=> DOMAIN f \subseteq Grants /\ f \in [DOMAIN f -> S]
BY DEF Partial

LEMMA PartialBuilt ==
  ASSUME NEW S, NEW D, NEW f, D \subseteq Grants, f \in [D -> S]
  PROVE  f \in Partial(S)
BY DEF Partial

LEMMA OnlyFacts ==
  ASSUME NEW S, NEW f \in Partial(S), NEW D
  PROVE  /\ Only(f, D) \in Partial(S)
         /\ DOMAIN Only(f, D) = DOMAIN f \cap D
         /\ \A g \in DOMAIN f \cap D : Only(f, D)[g] = f[g]
<1>1. DOMAIN f \subseteq Grants /\ f \in [DOMAIN f -> S]
  BY PartialFacts
<1>2. Only(f, D) \in [DOMAIN f \cap D -> S] /\ DOMAIN f \cap D \subseteq Grants
  BY <1>1 DEF Only
<1>3. Only(f, D) \in Partial(S)
  BY <1>2, PartialBuilt
<1> QED BY <1>3 DEF Only

LEMMA OnlyCounts ==
  ASSUME NEW f \in Partial(Nat), NEW D
  PROVE  /\ Only(f, D) \in Partial(Nat)
         /\ DOMAIN Only(f, D) = DOMAIN f \cap D
         /\ \A g \in DOMAIN f \cap D : Only(f, D)[g] = f[g]
<1>1. DOMAIN f \subseteq Grants /\ f \in [DOMAIN f -> Nat]
  BY PartialFacts
<1>2. Only(f, D) \in [DOMAIN f \cap D -> Nat] /\ DOMAIN f \cap D \subseteq Grants
  BY <1>1 DEF Only
<1>3. Only(f, D) \in Partial(Nat)
  BY <1>2, PartialBuilt
<1> QED BY <1>3 DEF Only

LEMMA EmptyPartial ==
  ASSUME NEW S, NEW x
  PROVE  [g \in {} |-> x] \in Partial(S) /\ DOMAIN [g \in {} |-> x] = {}
<1>1. [g \in {} |-> x] \in [{} -> S] /\ {} \subseteq Grants
  OBVIOUS
<1> QED BY <1>1, PartialBuilt

(* recomputeMembershipStatus decides the standing and nothing else.        *)
LEMMA RecomputeFacts ==
  ASSUME NEW m \in Membership, NEW now \in Int
  PROVE  LET n == recomputeMembershipStatus(m, now)
         IN  /\ n \in Membership
             /\ n.quota = m.quota /\ n.ends = m.ends /\ n.used = m.used
             /\ n.started = m.started /\ n.resets = m.resets
             /\ m.started <= m.resets => Valid(n, now)
             /\ n.off = "expired" <=> Expired(m, now)
             /\ n.off = "no" <=> ~Expired(m, now) /\ ~QuotaReached(m)
BY DEF recomputeMembershipStatus, Membership, Valid, Expired, QuotaReached, Never

(* A new quota period begins with no usage and lifts a reached quota.      *)
LEMMA ResetFacts ==
  ASSUME NEW m \in Membership, NEW now \in Int, m.started <= m.resets
  PROVE  LET n == resetQuota(m, now)
         IN  /\ n \in Membership
             /\ n.quota = m.quota /\ n.ends = m.ends /\ n.used <= m.used
             /\ n.off = m.off \/ (m.off = "quota" /\ n.off = "no")
             /\ Valid(m, now) => Valid(n, now)
<1>1. CASE now <= m.resets
  BY <1>1 DEF resetQuota, Membership
<1>2. CASE ~(now <= m.resets)
  <2> DEFINE k == (now - m.resets + Period - 1) \div Period
             begin == m.resets + (k - 1) * Period + 1
             end == m.resets + k * Period
  <2>1. Period \in Nat \ {0} /\ MaxBytes \in Nat /\ m.resets \in Int
    BY BillConstants DEF Membership
  <2>2. k \in Int
    BY <2>1
  <2> HIDE DEF k
  <2>3. (k - 1) * Period = k * Period - Period /\ k * Period \in Int
    BY <2>1, <2>2
  <2>4. begin \in Int /\ end \in Int /\ begin <= end
    BY <2>1, <2>2, <2>3
  <2> HIDE DEF begin, end
  <2>5. resetQuota(m, now) = [m EXCEPT !.used = 0, !.started = begin, !.resets = end,
                                       !.off = IF @ = "quota" THEN "no" ELSE @]
    BY <1>2 DEF resetQuota, k, begin, end
  <2> DEFINE n == resetQuota(m, now)
  <2>6. /\ n.used = 0 /\ n.started = begin /\ n.resets = end /\ n.quota = m.quota /\ n.ends = m.ends
        /\ n.off = IF m.off = "quota" THEN "no" ELSE m.off
    BY <2>5 DEF Membership
  <2>7. n \in Membership
    <3> DEFINE off == IF m.off = "quota" THEN "no" ELSE m.off
    <3>1. off \in {"no", "quota", "expired"} /\ 0 \in 0..MaxBytes
      BY <2>1 DEF Membership
    <3>2. n = [m EXCEPT !.used = 0, !.started = begin, !.resets = end, !.off = off]
      BY <2>5 DEF Membership
    <3> HIDE DEF off, n
    <3> QED BY <2>4, <3>1, <3>2 DEF Membership
  <2> HIDE DEF n
  <2>8. m.used \in Nat /\ m.quota \in Nat
    BY <2>1 DEF Membership
  <2>9. Valid(m, now) => Valid(n, now)
    BY <2>4, <2>6, <2>8 DEF Valid, QuotaReached, Expired
  <2> QED BY <2>6, <2>7, <2>8, <2>9 DEF n
<1> QED BY <1>1, <1>2

LEMMA GrantFacts ==
  ASSUME NEW quota \in Nat, NEW term \in Nat, NEW now \in Nat
  PROVE  LET n == grantMembership(quota, term, now)
         IN  n \in Membership /\ n.used = 0 /\ Valid(n, now)
BY BillConstants DEF grantMembership, subscriptionDeadline, Never, Membership, Valid, QuotaReached, Expired

LEMMA SaturatingFacts ==
  ASSUME NEW x \in Nat, NEW y \in Nat
  PROVE  saturatingAdd(x, y) \in 0..MaxBytes /\ saturatingAdd(x, y) <= x + y
         /\ (x <= MaxBytes => x <= saturatingAdd(x, y))
BY BillConstants DEF saturatingAdd

(* What a total adds to an earlier one is at most itself, grows with it    *)
(* byte by byte, and is at most what it adds by way of a total in between. *)
LEMMA DeltaFacts ==
  ASSUME NEW base \in Bases, NEW e \in Int, NEW c \in Nat
  PROVE  /\ counterDelta(base, e, c) \in Nat
         /\ counterDelta(base, e, 0) = 0
         /\ counterDelta(base, e, c + 1) <= counterDelta(base, e, c) + 1
         /\ base.epoch = e /\ base.count = c => counterDelta(base, e, c) = 0
BY DEF counterDelta, Bases

LEMMA DeltaTriangle ==
  ASSUME NEW base \in Bases, NEW mid \in Bases, NEW e \in Int, NEW c \in Nat
  PROVE  counterDelta(base, e, c) <= counterDelta(base, mid.epoch, mid.count) + counterDelta(mid, e, c)
BY DEF counterDelta, Bases

-----------------------------------------------------------------------------
(* What the invariant says of the variables.                               *)

LEMMA BookFacts ==
  ASSUME NEW b \in Books
  PROVE  /\ b.urev \in Nat /\ b.urev > 0
         /\ b.members \in Partial(Membership) /\ b.observed \in Partial(Bases)
         /\ DOMAIN b.members \subseteq Grants
         /\ \A g \in DOMAIN b.members : b.members[g] \in Membership
         /\ \A g \in DOMAIN b.observed : b.observed[g] \in Bases
<1>1. b.urev \in Nat /\ b.urev > 0 /\ b.members \in Partial(Membership) /\ b.observed \in Partial(Bases)
  BY DEF Books
<1> QED BY <1>1, PartialFacts

LEMMA LedgerFacts ==
  ASSUME NEW s \in Ledgers
  PROVE  /\ s.urev \in Nat /\ s.rows \in Partial(Rows) /\ s.daily \in Partial(Nat)
         /\ s.observed \in Partial(Bases)
         /\ DOMAIN s.rows \subseteq Grants /\ DOMAIN s.daily \subseteq Grants
         /\ \A g \in DOMAIN s.rows : s.rows[g] \in Rows
         /\ \A g \in DOMAIN s.daily : s.daily[g] \in Nat
<1>1. s.urev \in Nat /\ s.rows \in Partial(Rows) /\ s.daily \in Partial(Nat) /\ s.observed \in Partial(Bases)
  BY DEF Ledgers
<1> QED BY <1>1, PartialFacts

LEMMA AgentFacts ==
  ASSUME TypeInv
  PROVE  /\ agent.urev \in Nat /\ agent.users \subseteq Grants
         /\ agent.counter \in Partial(Nat) /\ agent.report \in Partial(Nat)
         /\ agent.from \in Nat /\ agent.epoch \in Nat /\ agent.totals \in BOOLEAN
         /\ DOMAIN agent.counter \subseteq Grants /\ DOMAIN agent.report \subseteq Grants
         /\ \A g \in DOMAIN agent.counter : agent.counter[g] \in Nat
         /\ \A g \in DOMAIN agent.report : agent.report[g] \in Nat
<1>1. /\ agent.urev \in Nat /\ agent.users \subseteq Grants
      /\ agent.counter \in Partial(Nat) /\ agent.report \in Partial(Nat)
      /\ agent.from \in Nat /\ agent.epoch \in Nat /\ agent.totals \in BOOLEAN
  BY DEF TypeInv
<1> QED BY <1>1, PartialFacts

LEMMA RoomFacts ==
  ASSUME TypeInv, NEW g \in Grants
  PROVE  /\ BaseOf(g) \in Bases
         /\ g \in DOMAIN agent.report => Told(g) \in Bases /\ agent.report[g] \in Nat
         /\ Count(agent.counter, g) \in Nat /\ Count(agent.report, g) \in Nat
         /\ Owed(g) \in Nat /\ Room(g) \in Int /\ Room(g) <= served[g]
         /\ DailyUsage(g) \in Nat
<1>1. BaseOf(g) \in Bases
  BY BookFacts DEF TypeInv, BaseOf, NoBase, Bases
<1>2. g \in DOMAIN agent.report => Told(g) \in Bases /\ agent.report[g] \in Nat
  BY AgentFacts DEF Told, Bases
<1>3. Count(agent.counter, g) \in Nat /\ Count(agent.report, g) \in Nat
  BY AgentFacts DEF Count
<1>4. Owed(g) \in Nat
  <2>1. agent.from \in Int /\ agent.epoch \in Int
    BY AgentFacts
  <2>2. counterDelta(BaseOf(g), agent.epoch, Count(agent.counter, g)) \in Nat
    BY <1>1, <1>3, <2>1, DeltaFacts
  <2>3. ASSUME g \in DOMAIN agent.report
        PROVE  counterDelta(BaseOf(g), agent.from, agent.report[g])
                 + counterDelta(Told(g), agent.epoch, Count(agent.counter, g)) \in Nat
    <3>1. counterDelta(BaseOf(g), agent.from, agent.report[g]) \in Nat
      BY <1>1, <1>2, <2>1, <2>3, DeltaFacts
    <3>2. counterDelta(Told(g), agent.epoch, Count(agent.counter, g)) \in Nat
      BY <1>2, <1>3, <2>1, <2>3, DeltaFacts
    <3> QED BY <3>1, <3>2
  <2> QED BY <1>3, <2>2, <2>3 DEF Owed
<1>5. served[g] \in Int
  BY DEF TypeInv
<1>6. DailyUsage(g) \in Nat
  BY LedgerFacts DEF TypeInv, DailyUsage
<1> QED BY <1>1, <1>2, <1>3, <1>4, <1>5, <1>6 DEF Room

RoomsAreInt == \A g \in Grants : Room(g) \in Int

LEMMA RoomInt == TypeInv => RoomsAreInt
BY RoomFacts DEF RoomsAreInt

LEMMA RoomIntNext == TypeInv' => RoomsAreInt'
BY RoomInt, PTL

(* A membership as a start puts it together from the two files.            *)
Loaded(j, s, now, g) ==
    LET r == IF g \in DOMAIN s.rows THEN s.rows[g] ELSE Row(j.members[g])
    IN  recomputeMembershipStatus([j.members[g] EXCEPT !.used = r.used, !.started = r.started,
                                                       !.resets = r.resets], now)

LEMMA LoadFacts ==
  ASSUME NEW j, NEW s, NEW now
  PROVE  loadIntoState(j, s, now) =
             [members |-> [g \in DOMAIN j.members |-> Loaded(j, s, now, g)],
              observed |-> s.observed, urev |-> Larger(j.urev, s.urev)]
BY Zenon DEF loadIntoState, Loaded

LEMMA SameMembership ==
  ASSUME NEW m \in Membership, NEW n \in Membership,
         m.quota = n.quota, m.ends = n.ends, m.used = n.used, m.started = n.started,
         m.resets = n.resets, m.off = n.off
  PROVE  m = n
BY DEF Membership

LEMMA LoadedAs ==
  ASSUME NEW j, NEW s, NEW now \in Int, NEW g, NEW n \in Membership,
         j.members[g] \in Membership, g \in DOMAIN s.rows, s.rows[g] = Row(n),
         j.members[g].quota = n.quota, j.members[g].ends = n.ends
  PROVE  Loaded(j, s, now, g) = recomputeMembershipStatus(n, now)
<1> DEFINE m == [j.members[g] EXCEPT !.used = n.used, !.started = n.started, !.resets = n.resets]
<1>1. m \in Membership
  BY DEF Membership
<1>2. /\ m.quota = n.quota /\ m.ends = n.ends /\ m.used = n.used /\ m.started = n.started
      /\ m.resets = n.resets
  BY DEF Membership
<1>3. Loaded(j, s, now, g) = recomputeMembershipStatus(m, now)
  BY DEF Loaded, Row
<1> HIDE DEF m
<1>4. (Expired(m, now) <=> Expired(n, now)) /\ (QuotaReached(m) <=> QuotaReached(n))
  BY <1>2 DEF Expired, QuotaReached
<1>5. recomputeMembershipStatus(m, now).off = recomputeMembershipStatus(n, now).off
  BY <1>1, <1>4 DEF recomputeMembershipStatus, Membership
<1> QED BY <1>1, <1>2, <1>3, <1>5, RecomputeFacts, SameMembership

(* A start from files that agree with the book brings the book back.       *)
LEMMA AgreeReproduces ==
  ASSUME TypeInv, RevisionInv, Agrees, sql.observed = book.observed
  PROVE  Reproduced
<1> DEFINE s == initialize(json, sql)
           D == DOMAIN book.members
<1>1. D = DOMAIN json.members /\ D = DOMAIN sql.rows
  BY DEF Agrees
<1>2. s = [sql EXCEPT !.rows = [g \in DOMAIN json.members |->
                            IF g \in DOMAIN sql.rows THEN sql.rows[g] ELSE Row(json.members[g])],
              !.daily = Only(sql.daily, DOMAIN json.members),
              !.urev = Larger(sql.urev, json.urev)]
  BY DEF initialize, TypeInv, Ledgers
<1>3. /\ s.rows = [g \in D |-> sql.rows[g]] /\ s.urev = Larger(sql.urev, json.urev)
      /\ s.observed = sql.observed
  BY <1>1, <1>2 DEF TypeInv, Ledgers
<1> HIDE DEF s
<1>4. Reloaded.observed = book.observed /\ Reloaded.urev = Larger(json.urev, s.urev)
  BY <1>3 DEF Reloaded, loadIntoState, s
<1>5. Reloaded.urev >= book.urev
  <2>1. json.urev \in Nat /\ sql.urev \in Nat /\ book.urev \in Nat
    BY BookFacts, LedgerFacts DEF TypeInv
  <2> QED BY <1>3, <1>4, <2>1 DEF Larger, RevisionInv
<1>6. ASSUME NEW g \in D PROVE Loaded(json, s, clock, g) = recomputeMembershipStatus(book.members[g], clock)
  <2>1. json.members[g] \in Membership /\ book.members[g] \in Membership
    BY <1>1, BookFacts DEF TypeInv
  <2>2. s.rows[g] = Row(book.members[g]) /\ g \in DOMAIN s.rows
    BY <1>3 DEF Agrees
  <2>3. /\ clock \in Int
        /\ json.members[g].quota = book.members[g].quota /\ json.members[g].ends = book.members[g].ends
    BY DEF Agrees, TypeInv
  <2> QED BY <2>1, <2>2, <2>3, LoadedAs
<1>7. Reloaded.members = [g \in D |-> recomputeMembershipStatus(book.members[g], clock)]
  BY <1>1, <1>6, LoadFacts DEF Reloaded, s
<1> QED BY <1>4, <1>5, <1>7 DEF Reproduced

LEMMA InvSound == BillInv => AccountsAreSound
<1> SUFFICES ASSUME BillInv PROVE AccountsAreSound
  OBVIOUS
<1> USE DEF BillInv
<1>1. BillTypeOK
  <2>1. ASSUME NEW g \in DOMAIN book.members
        PROVE  LET m == book.members[g]
               IN  g \in Grants /\ Standing(m) /\ (m.off = "no" => ~QuotaReached(m))
    <3>1. book.members[g] \in Membership /\ g \in Grants
      BY BookFacts DEF TypeInv
    <3> QED BY <3>1 DEF MemberInv, Valid, Standing, Membership
  <2> QED BY <2>1, AgentFacts DEF BillTypeOK, MemberInv, TypeInv, NoTxn, Phases
<1>2. RevisionsNeverRegress
  BY DEF RevisionInv, RevisionsNeverRegress
<1>3. RevisionNamesAuthority
  BY DEF AuthorityInv, Similar, RevisionNamesAuthority
<1>4. RestartReproducesBook
  BY AgreeReproduces DEF FilesInv, RestartReproducesBook, NoTxn
<1>5. UsageCountedOnce
  <2> SUFFICES ASSUME ~torn, NEW g \in DOMAIN book.members
               PROVE  book.members[g].used <= served[g] /\ DailyUsage(g) <= served[g]
    BY DEF UsageCountedOnce
  <2>1. g \in Grants /\ book.members[g].used \in Int
    BY BookFacts, BillConstants DEF TypeInv, Membership
  <2>2. Room(g) \in Int /\ Room(g) <= served[g] /\ served[g] \in Int /\ DailyUsage(g) \in Nat
    BY <2>1, RoomFacts DEF TypeInv
  <2>3. book.members[g].used <= Room(g) /\ DailyUsage(g) <= Room(g)
    BY <2>1 DEF UsageInv
  <2> QED BY <2>1, <2>2, <2>3
<1> QED BY <1>1, <1>2, <1>3, <1>4, <1>5 DEF AccountsAreSound

-----------------------------------------------------------------------------
(* The initial states.                                                     *)

LEMMA InitInv == BillInit => BillInv
<1> SUFFICES ASSUME BillInit PROVE BillInv
  OBVIOUS
<1> DEFINE New == [quota : Nat, ends : Nat, used : {0}, started : {1}, resets : Nat \ {0}, off : {"no"}]
<1>1. PICK first \in FirstMembers, totals \in BOOLEAN :
        /\ book = [urev |-> 1, members |-> first, observed |-> [g \in {} |-> NoBase]]
        /\ agent = [urev |-> 1, users |-> Authority(book), counter |-> NoReport,
                    report |-> NoReport, from |-> 0, epoch |-> 0, totals |-> totals]
  BY DEF BillInit
<1>2. DOMAIN first \subseteq Grants /\ first \in [DOMAIN first -> New]
  BY BillConstants
<1>3. \A g \in DOMAIN first : first[g] \in Membership /\ first[g].used = 0 /\ Valid(first[g], clock)
  <2>1. ASSUME NEW m \in New PROVE m \in Membership /\ m.used = 0 /\ Valid(m, clock)
    BY BillConstants DEF Membership, Valid, QuotaReached, Expired
  <2> QED BY <1>2, <2>1
<1>4. first \in Partial(Membership)
  BY <1>2, <1>3, PartialFacts
<1>5. [g \in {} |-> NoBase] \in Partial(Bases) /\ DOMAIN [g \in {} |-> NoBase] = {}
  BY EmptyPartial
<1>6. NoReport \in Partial(Nat) /\ DOMAIN NoReport = {}
  BY EmptyPartial DEF NoReport
<1>7. book \in Books /\ json = book
  BY <1>1, <1>4, <1>5 DEF Books, BillInit
<1>8. /\ sql.rows = [g \in DOMAIN first |-> Row(first[g])] /\ sql.urev = 1
      /\ sql.daily = [g \in {} |-> 0] /\ sql.observed = book.observed
      /\ sql = [urev |-> 1, rows |-> sql.rows, daily |-> sql.daily, observed |-> sql.observed]
  BY <1>1 DEF BillInit
<1>9. sql \in Ledgers
  <2>1. sql.rows \in [DOMAIN first -> Rows]
    BY <1>3, <1>8 DEF Row, Membership, Rows
  <2>2. sql.rows \in Partial(Rows) /\ sql.daily \in Partial(Nat) /\ sql.observed \in Partial(Bases)
    BY <1>1, <1>2, <1>5, <1>8, <2>1, PartialBuilt, EmptyPartial
  <2> QED BY <1>8, <2>2 DEF Ledgers
<1>10. Authority(book) \subseteq DOMAIN first
  BY <1>1 DEF Authority
<1>11. /\ served = [g \in Grants |-> IF g \in DOMAIN first THEN 0 ELSE Ungranted]
       /\ txn = NoTxn /\ up = TRUE /\ torn = FALSE /\ clock = 1
       /\ enforcer = [running |-> FALSE, again |-> FALSE, job |-> NoJob]
  BY <1>1 DEF BillInit
<1>12. TypeInv
  <2>1. NoJob \in Targets
    BY DEF NoJob, Targets
  <2>2. agent \in [urev : Nat, users : SUBSET Grants, counter : Partial(Nat), report : Partial(Nat),
                   from : Nat, epoch : Nat, totals : BOOLEAN]
    BY <1>1, <1>2, <1>6, <1>10
  <2>3. enforcer \in [running : BOOLEAN, again : BOOLEAN, job : Targets]
    BY <1>11, <2>1
  <2>4. served \in [Grants -> Int] /\ \A g \in Grants : served[g] >= Ungranted
    BY <1>11 DEF Ungranted
  <2> QED BY <1>7, <1>9, <1>11, <2>2, <2>3, <2>4 DEF TypeInv
<1>13. MemberInv
  <2>1. DOMAIN sql.daily = {}
    BY <1>8
  <2>2. \A g \in DOMAIN first : first[g].started <= first[g].resets
    BY <1>3 DEF Valid
  <2> QED BY <1>1, <1>3, <1>7, <1>8, <1>11, <2>1, <2>2 DEF MemberInv, Pending, Row
<1>14. RevisionInv
  BY <1>1, <1>8, <1>11 DEF RevisionInv, Pending, NoJob
<1>15. FilesInv
  <2>1. Agrees
    BY <1>1, <1>7, <1>8 DEF Agrees
  <2> QED BY <1>8, <1>11, <2>1 DEF FilesInv, NoTxn
<1>16. AuthorityInv
  BY <1>1, <1>11 DEF AuthorityInv, Similar, NoJob
<1>17. GrantInv
  BY <1>1, <1>6, <1>7, <1>8, <1>10, <1>11 DEF GrantInv, Unheard, Pending, NoJob, Ungranted
<1>18. UsageInv
  <2> SUFFICES ASSUME NEW g \in DOMAIN first
               PROVE  0 <= Room(g) /\ DailyUsage(g) <= Room(g)
    BY <1>1, <1>3, <1>7, <1>8, <1>11 DEF UsageInv, Pending, Row
  <2>1. g \in Grants /\ served[g] = 0
    BY <1>2, <1>11
  <2>2. Count(agent.counter, g) = 0 /\ Count(agent.report, g) = 0 /\ g \notin DOMAIN agent.report
    BY <1>1, <1>6 DEF Count
  <2>3. BaseOf(g) \in Bases /\ agent.epoch \in Int
    BY <1>12, <2>1, RoomFacts, AgentFacts
  <2>4. Owed(g) = 0
    BY <2>2, <2>3, DeltaFacts DEF Owed
  <2>5. DailyUsage(g) = 0
    BY <1>8 DEF DailyUsage
  <2> QED BY <2>1, <2>4, <2>5 DEF Room
<1> QED BY <1>12, <1>13, <1>14, <1>15, <1>16, <1>17, <1>18 DEF BillInv

-----------------------------------------------------------------------------
(* What a step leaves alone.                                               *)

LEMMA MemberFrame ==
  ASSUME MemberInv, UNCHANGED <<book, json, sql, txn, clock>>
  PROVE  MemberInv'
BY DEF MemberInv, Pending, Valid

LEMMA FilesFrame ==
  ASSUME FilesInv, UNCHANGED <<book, json, sql, txn, up, torn>>
  PROVE  FilesInv'
BY DEF FilesInv, Agrees

LEMMA RoomFrame ==
  ASSUME NEW g, UNCHANGED served, book'.observed = book.observed,
         agent'.counter = agent.counter, agent'.report = agent.report, agent'.from = agent.from,
         agent'.epoch = agent.epoch, agent'.totals = agent.totals
  PROVE  Room(g)' = Room(g)
BY DEF Room, Owed, BaseOf, Told

(* Usage is a number of bytes.                                             *)
LEMMA UsedInt ==
  ASSUME TypeInv, NEW g
  PROVE  /\ g \in DOMAIN book.members => book.members[g].used \in Int
         /\ g \in DOMAIN json.members => json.members[g].used \in Int
         /\ g \in DOMAIN sql.rows => sql.rows[g].used \in Int
         /\ Pending /\ g \in DOMAIN txn.next.members => txn.next.members[g].used \in Int
<1>1. \A m \in Membership : m.used \in Int
  BY BillConstants DEF Membership
<1>2. \A r \in Rows : r.used \in Int
  BY BillConstants DEF Rows
<1>3. Pending => txn.next \in Books
  BY DEF TypeInv, Pending
<1> QED BY <1>1, <1>2, <1>3, BookFacts, LedgerFacts DEF TypeInv

(* Usage stays within the room as long as no room is lost.                 *)
LEMMA UsageFrame ==
  ASSUME TypeInv, TypeInv', UsageInv, UNCHANGED <<book, json, sql, txn, torn>>,
         \A g \in Grants : Room(g)' >= Room(g)
  PROVE  UsageInv'
<1> SUFFICES ASSUME ~torn, NEW g \in Grants
             PROVE
        /\ g \in DOMAIN book.members => book.members[g].used <= Room(g)' /\ DailyUsage(g) <= Room(g)'
        /\ g \in DOMAIN json.members =>
              DailyUsage(g) <= Room(g)' /\ (g \in DOMAIN sql.rows \/ json.members[g].used <= Room(g)')
        /\ g \in DOMAIN sql.rows => sql.rows[g].used <= Room(g)'
        /\ Pending /\ g \in DOMAIN txn.next.members =>
              txn.next.members[g].used <= Room(g)' /\ DailyUsage(g) <= Room(g)'
  BY DEF UsageInv, DailyUsage, Pending
<1>1. Room(g) \in Int /\ Room(g)' \in Int /\ DailyUsage(g) \in Int
  <2>1. Room(g) \in Int /\ DailyUsage(g) \in Int
    BY RoomFacts
  <2>2. Room(g)' \in Int
    BY RoomIntNext DEF RoomsAreInt
  <2> QED BY <2>1, <2>2
<1>2. ASSUME NEW x \in Int, x <= Room(g) PROVE x <= Room(g)'
  BY <1>1, <1>2
<1>3. /\ g \in DOMAIN book.members => book.members[g].used \in Int
      /\ g \in DOMAIN json.members => json.members[g].used \in Int
      /\ g \in DOMAIN sql.rows => sql.rows[g].used \in Int
      /\ Pending /\ g \in DOMAIN txn.next.members => txn.next.members[g].used \in Int
  BY UsedInt
<1> QED BY <1>1, <1>2, <1>3 DEF UsageInv

-----------------------------------------------------------------------------
(* The synchronisation of the Agent.                                       *)

LEMMA SyncStep ==
  ASSUME BillInv, StartUserSync \/ SyncApplied \/ SyncDeferred
  PROVE  BillInv'
<1> USE DEF BillInv
<1>1. UNCHANGED <<book, json, sql, txn, up, clock, served, torn>>
  BY DEF StartUserSync, SyncApplied, SyncDeferred
<1>2. \/ agent' = agent
      \/ agent' = [agent EXCEPT !.urev = enforcer.job.urev, !.users = enforcer.job.users]
  BY DEF StartUserSync, SyncApplied, SyncDeferred
<1>3. /\ enforcer'.job \in {enforcer.job, NoJob, [urev |-> book.urev, users |-> Authority(book)]}
      /\ up \/ enforcer'.job \in {enforcer.job, NoJob}
      /\ enforcer' \in [running : BOOLEAN, again : BOOLEAN, job : {enforcer'.job}]
  BY DEF TypeInv, StartUserSync, SyncApplied, SyncDeferred
<1>4. NoJob \in Targets /\ [urev |-> book.urev, users |-> Authority(book)] \in Targets
      /\ enforcer.job \in Targets
  BY BookFacts DEF TypeInv, NoJob, Targets, Authority
<1>5. TypeInv'
  <2>1. enforcer' \in [running : BOOLEAN, again : BOOLEAN, job : Targets]
    BY <1>3, <1>4
  <2>2. agent' \in [urev : Nat, users : SUBSET Grants, counter : Partial(Nat), report : Partial(Nat),
                    from : Nat, epoch : Nat, totals : BOOLEAN]
    BY <1>2, <1>4 DEF TypeInv, Targets
  <2> QED BY <1>1, <2>1, <2>2 DEF TypeInv
<1>6. /\ agent'.counter = agent.counter /\ agent'.report = agent.report /\ agent'.from = agent.from
      /\ agent'.epoch = agent.epoch /\ agent'.totals = agent.totals
      /\ \/ agent'.urev = agent.urev /\ agent'.users = agent.users
         \/ agent'.urev = enforcer.job.urev /\ agent'.users = enforcer.job.users
  BY <1>2 DEF TypeInv
<1>7. MemberInv' /\ FilesInv'
  BY <1>1, MemberFrame, FilesFrame
<1>8. RevisionInv'
  BY <1>1, <1>3, <1>6, BookFacts DEF TypeInv, RevisionInv, NoJob, Pending
<1>9. AuthorityInv'
  BY <1>1, <1>3, <1>6, BookFacts DEF TypeInv, AuthorityInv, Similar, Authority, NoJob
<1>10. GrantInv'
  <2>1. Authority(book) \subseteq DOMAIN book.members
    BY DEF Authority
  <2> QED BY <1>1, <1>3, <1>6, <2>1 DEF GrantInv, Unheard, Pending, NoJob
<1>11. UsageInv'
  <2>1. \A g \in Grants : Room(g)' = Room(g) /\ Room(g) \in Int
    BY <1>1, <1>6, RoomFrame, RoomFacts
  <2> QED BY <1>1, <1>5, <2>1, UsageFrame
<1> QED BY <1>5, <1>7, <1>8, <1>9, <1>10, <1>11

-----------------------------------------------------------------------------
(* The Agent carries, counts and loses.                                    *)

(* A step of the Agent's counters alone.                                   *)
LEMMA CounterStep ==
  ASSUME BillInv, TypeInv', UNCHANGED <<book, json, sql, txn, up, clock, enforcer, torn>>,
         agent'.urev = agent.urev, agent'.users = agent.users,
         \A g \in Grants : Room(g)' >= Room(g),
         \A g \in Grants : served'[g] = Ungranted =>
             /\ served[g] = Ungranted
             /\ g \notin DOMAIN agent'.counter /\ g \notin DOMAIN agent'.report
  PROVE  BillInv'
<1> USE DEF BillInv
<1>1. MemberInv' /\ FilesInv'
  BY MemberFrame, FilesFrame
<1>2. RevisionInv' /\ AuthorityInv'
  BY DEF RevisionInv, AuthorityInv, Similar, Authority, Pending
<1>3. GrantInv'
  BY DEF GrantInv, Unheard, Pending
<1> QED BY <1>1, <1>2, <1>3, UsageFrame

(* A byte that is carried is owed once.                                    *)
LEMMA ServeStep ==
  ASSUME BillInv, NEW g \in Grants, Serve(g)
  PROVE  BillInv'
<1> USE DEF BillInv
<1>1. /\ UNCHANGED <<book, json, sql, txn, up, clock, enforcer, torn>> /\ g \in agent.users
      /\ served' = [served EXCEPT ![g] = @ + 1]
  BY DEF Serve
<1> DEFINE c == [h \in DOMAIN agent.counter \cup {g} |->
                    (IF h \in DOMAIN agent.counter THEN agent.counter[h] ELSE 0)
                        + (IF h = g THEN 1 ELSE 0)]
<1>2. agent' = [agent EXCEPT !.counter = c]
  BY DEF Serve, TypeInv
<1>3. /\ DOMAIN c = DOMAIN agent.counter \cup {g} /\ c \in Partial(Nat)
      /\ \A h \in Grants : Count(c, h) = Count(agent.counter, h) + (IF h = g THEN 1 ELSE 0)
  <2>1. c \in [DOMAIN agent.counter \cup {g} -> Nat] /\ DOMAIN agent.counter \cup {g} \subseteq Grants
    BY AgentFacts
  <2> QED BY <2>1, PartialBuilt, AgentFacts DEF Count
<1> HIDE DEF c
<1>4. /\ agent'.counter = c /\ agent'.report = agent.report /\ agent'.from = agent.from
      /\ agent'.epoch = agent.epoch /\ agent'.totals = agent.totals
      /\ agent'.urev = agent.urev /\ agent'.users = agent.users
  BY <1>2 DEF TypeInv
<1>5. served[g] # Ungranted /\ served[g] \in Int /\ served[g] >= Ungranted
  BY <1>1 DEF GrantInv, Unheard, TypeInv
<1>6. TypeInv'
  <2>1. agent' \in [urev : Nat, users : SUBSET Grants, counter : Partial(Nat), report : Partial(Nat),
                    from : Nat, epoch : Nat, totals : BOOLEAN]
    BY <1>2, <1>3 DEF TypeInv
  <2>2. served' \in [Grants -> Int] /\ \A h \in Grants : served'[h] >= Ungranted
    BY <1>1, <1>5 DEF TypeInv, Ungranted
  <2> QED BY <1>1, <2>1, <2>2 DEF TypeInv
<1>7. ASSUME NEW h \in Grants PROVE Room(h)' >= Room(h)
  <2>1. /\ BaseOf(h) \in Bases /\ Count(agent.counter, h) \in Nat /\ Count(agent.report, h) \in Nat
        /\ h \in DOMAIN agent.report => Told(h) \in Bases /\ agent.report[h] \in Nat
        /\ agent.from \in Int /\ agent.epoch \in Int
    BY RoomFacts, AgentFacts
  <2>2. BaseOf(h)' = BaseOf(h) /\ Told(h)' = Told(h)
    BY <1>1, <1>4 DEF BaseOf, Told
  <2>3. Owed(h) \in Nat /\ served[h] \in Int
    BY RoomFacts DEF TypeInv
  <2>4. CASE h # g
    <3>1. Count(agent.counter, h)' = Count(agent.counter, h) /\ Count(agent.report, h)' = Count(agent.report, h)
      BY <1>3, <1>4, <2>1, <2>4 DEF Count
    <3>2. Owed(h)' = Owed(h)
      BY <1>4, <2>2, <3>1 DEF Owed
    <3> QED BY <1>1, <2>3, <2>4, <3>2 DEF Room, TypeInv
  <2>5. CASE h = g
    <3> DEFINE n == Count(agent.counter, g)
    <3>1. Count(agent.counter, g)' = n + 1 /\ Count(agent.report, g)' = Count(agent.report, g)
      BY <1>3, <1>4, <2>1, <2>5 DEF Count
    <3>2. /\ counterDelta(BaseOf(g), agent.epoch, n + 1) <= counterDelta(BaseOf(g), agent.epoch, n) + 1
          /\ counterDelta(BaseOf(g), agent.epoch, n) \in Nat
          /\ counterDelta(BaseOf(g), agent.epoch, n + 1) \in Nat
      BY <2>1, <2>5, DeltaFacts
    <3>3. g \in DOMAIN agent.report =>
          /\ counterDelta(Told(g), agent.epoch, n + 1) <= counterDelta(Told(g), agent.epoch, n) + 1
          /\ counterDelta(Told(g), agent.epoch, n) \in Nat
          /\ counterDelta(Told(g), agent.epoch, n + 1) \in Nat
          /\ counterDelta(BaseOf(g), agent.from, agent.report[g]) \in Nat
      BY <2>1, <2>5, DeltaFacts
    <3>4. Owed(g)' = IF ~agent.totals THEN Count(agent.report, g) + (n + 1)
                     ELSE IF g \in DOMAIN agent.report
                     THEN counterDelta(BaseOf(g), agent.from, agent.report[g])
                          + counterDelta(Told(g), agent.epoch, n + 1)
                     ELSE counterDelta(BaseOf(g), agent.epoch, n + 1)
      BY <1>4, <2>2, <2>5, <3>1 DEF Owed
    <3>5. Owed(g)' <= Owed(g) + 1 /\ Owed(g)' \in Nat
      <4> HIDE DEF n
      <4>1. n \in Nat /\ Count(agent.report, g) \in Nat
        BY <2>1, <2>5 DEF n
      <4>2. CASE ~agent.totals
        <5>1. Owed(g) = Count(agent.report, g) + n
          BY <4>2 DEF Owed, n
        <5> QED BY <3>4, <4>1, <4>2, <5>1
      <4>3. CASE agent.totals /\ g \in DOMAIN agent.report
        <5>1. Owed(g) = counterDelta(BaseOf(g), agent.from, agent.report[g])
                          + counterDelta(Told(g), agent.epoch, n)
          BY <4>3 DEF Owed, n
        <5> QED BY <3>3, <3>4, <4>3, <5>1
      <4>4. CASE agent.totals /\ g \notin DOMAIN agent.report
        <5>1. Owed(g) = counterDelta(BaseOf(g), agent.epoch, n)
          BY <4>4 DEF Owed, n
        <5> QED BY <3>2, <3>4, <4>4, <5>1
      <4> QED BY <4>2, <4>3, <4>4
    <3>6. served'[g] = served[g] + 1
      BY <1>1 DEF TypeInv
    <3> QED BY <2>3, <2>5, <3>5, <3>6 DEF Room
  <2> QED BY <2>4, <2>5
<1>8. ASSUME NEW h \in Grants, served'[h] = Ungranted
      PROVE  served[h] = Ungranted /\ h \notin DOMAIN agent'.counter /\ h \notin DOMAIN agent'.report
  <2>1. h # g /\ served[h] = Ungranted
    BY <1>1, <1>5, <1>8 DEF TypeInv, Ungranted
  <2> QED BY <1>3, <1>4, <2>1 DEF GrantInv, Unheard
<1> QED BY <1>1, <1>4, <1>6, <1>7, <1>8, CounterStep

(* A report that is lost is owed no longer, and totals that follow it owe  *)
(* no more than they did by way of it.                                     *)
LEMMA ReportLost ==
  ASSUME TypeInv, UNCHANGED served, book'.observed = book.observed,
         agent' = [agent EXCEPT !.report = NoReport], NEW g \in Grants
  PROVE  Room(g)' >= Room(g)
<1>1. /\ agent'.counter = agent.counter /\ agent'.report = NoReport /\ agent'.from = agent.from
      /\ agent'.epoch = agent.epoch /\ agent'.totals = agent.totals /\ DOMAIN agent'.report = {}
  BY DEF TypeInv, NoReport
<1>2. /\ BaseOf(g) \in Bases /\ Count(agent.counter, g) \in Nat /\ Count(agent.report, g) \in Nat
      /\ g \in DOMAIN agent.report => Told(g) \in Bases /\ agent.report[g] \in Nat
      /\ agent.from \in Int /\ agent.epoch \in Int /\ Owed(g) \in Nat /\ served[g] \in Int
  BY RoomFacts, AgentFacts DEF TypeInv
<1>3. BaseOf(g)' = BaseOf(g)
  BY DEF BaseOf
<1>4. Owed(g)' = IF ~agent.totals THEN 0 + Count(agent.counter, g)
                 ELSE counterDelta(BaseOf(g), agent.epoch, Count(agent.counter, g))
  BY <1>1, <1>3 DEF Owed, Count
<1>5. g \in DOMAIN agent.report =>
        counterDelta(BaseOf(g), agent.epoch, Count(agent.counter, g))
          <= counterDelta(BaseOf(g), agent.from, agent.report[g])
             + counterDelta(Told(g), agent.epoch, Count(agent.counter, g))
  <2>1. Told(g).epoch = agent.from /\ Told(g).count = agent.report[g]
    BY DEF Told
  <2> QED BY <1>2, <2>1, DeltaTriangle
<1>6. counterDelta(BaseOf(g), agent.epoch, Count(agent.counter, g)) \in Nat
  BY <1>2, DeltaFacts
<1>7. Owed(g)' <= Owed(g) /\ Owed(g)' \in Nat
  <2>1. CASE ~agent.totals
    BY <1>2, <1>4, <2>1 DEF Owed
  <2>2. CASE agent.totals /\ g \in DOMAIN agent.report
    BY <1>4, <1>5, <1>6, <2>2 DEF Owed
  <2>3. CASE agent.totals /\ g \notin DOMAIN agent.report
    BY <1>4, <1>6, <2>3 DEF Owed
  <2> QED BY <2>1, <2>2, <2>3
<1> QED BY <1>2, <1>7 DEF Room

LEMMA AgentLosesReport ==
  ASSUME TypeInv, agent' = [agent EXCEPT !.report = NoReport]
  PROVE  /\ agent' \in [urev : Nat, users : SUBSET Grants, counter : Partial(Nat), report : Partial(Nat),
                        from : Nat, epoch : Nat, totals : BOOLEAN]
         /\ agent'.urev = agent.urev /\ agent'.users = agent.users
         /\ agent'.counter = agent.counter /\ DOMAIN agent'.report = {}
<1>1. NoReport \in Partial(Nat) /\ DOMAIN NoReport = {}
  BY EmptyPartial DEF NoReport
<1> QED BY <1>1 DEF TypeInv

LEMMA LoseReportStep ==
  ASSUME BillInv, LoseReport
  PROVE  BillInv'
<1> USE DEF BillInv
<1>1. /\ UNCHANGED <<book, json, sql, txn, up, clock, enforcer, served, torn>>
      /\ agent' = [agent EXCEPT !.report = NoReport]
  BY DEF LoseReport
<1>2. TypeInv'
  BY <1>1, AgentLosesReport DEF TypeInv
<1>3. \A g \in Grants : Room(g)' >= Room(g)
  BY <1>1, ReportLost
<1>4. \A g \in Grants : served'[g] = Ungranted =>
             /\ served[g] = Ungranted
             /\ g \notin DOMAIN agent'.counter /\ g \notin DOMAIN agent'.report
  BY <1>1, AgentLosesReport DEF GrantInv, Unheard
<1> QED BY <1>1, <1>2, <1>3, <1>4, AgentLosesReport, CounterStep

(* Reading the counters moves what is owed into the report.                *)
LEMMA TrafficStep ==
  ASSUME BillInv, ManagedUserTraffic
  PROVE  BillInv'
<1> USE DEF BillInv
<1>1. UNCHANGED <<book, json, sql, txn, up, clock, enforcer, served, torn>> /\ agent.report = NoReport
  BY DEF ManagedUserTraffic
<1> DEFINE r == Only(agent.counter, agent.users)
           c == IF agent.totals THEN agent.counter ELSE NoReport
<1>2. agent' = [agent EXCEPT !.report = r, !.from = agent.epoch, !.counter = c]
  BY DEF ManagedUserTraffic, TypeInv
<1>3. /\ r \in Partial(Nat) /\ DOMAIN r = DOMAIN agent.counter \cap agent.users
      /\ \A g \in DOMAIN r : r[g] = agent.counter[g]
  <2>1. agent.counter \in Partial(Nat)
    BY AgentFacts
  <2>2. /\ r \in Partial(Nat) /\ DOMAIN r = DOMAIN agent.counter \cap agent.users
        /\ \A g \in DOMAIN agent.counter \cap agent.users : r[g] = agent.counter[g]
    BY <2>1, OnlyCounts
  <2> HIDE DEF r
  <2> QED BY <2>2
<1>4. NoReport \in Partial(Nat) /\ DOMAIN NoReport = {}
  BY EmptyPartial DEF NoReport
<1>5. c \in Partial(Nat) /\ DOMAIN c \subseteq DOMAIN agent.counter
  BY <1>4, AgentFacts
<1> HIDE DEF r
<1>6. /\ agent'.counter = c /\ agent'.report = r /\ agent'.from = agent.epoch
      /\ agent'.epoch = agent.epoch /\ agent'.totals = agent.totals
      /\ agent'.urev = agent.urev /\ agent'.users = agent.users
  BY <1>2 DEF TypeInv
<1>7. TypeInv'
  <2>1. agent' \in [urev : Nat, users : SUBSET Grants, counter : Partial(Nat), report : Partial(Nat),
                    from : Nat, epoch : Nat, totals : BOOLEAN]
    BY <1>2, <1>3, <1>5 DEF TypeInv
  <2> QED BY <1>1, <2>1 DEF TypeInv
<1>8. ASSUME NEW g \in Grants PROVE Room(g)' >= Room(g)
  <2> DEFINE n == Count(agent.counter, g)
  <2>1. BaseOf(g) \in Bases /\ n \in Nat /\ agent.epoch \in Int /\ Owed(g) \in Nat /\ served[g] \in Int
    BY RoomFacts, AgentFacts DEF TypeInv
  <2>2. BaseOf(g)' = BaseOf(g)
    BY <1>1 DEF BaseOf
  <2>3. g \notin DOMAIN agent.report /\ Count(agent.report, g) = 0
    BY <1>1, <1>4 DEF Count
  <2>4. Owed(g) = IF ~agent.totals THEN n ELSE counterDelta(BaseOf(g), agent.epoch, n)
    BY <2>1, <2>3 DEF Owed
  <2>5. counterDelta(BaseOf(g), agent.epoch, n) \in Nat
    BY <2>1, DeltaFacts
  <2>6. Owed(g)' <= Owed(g) /\ Owed(g)' \in Nat
    <3>1. CASE ~agent.totals
      <4>1. Owed(g)' = Count(r, g) + 0
        BY <1>4, <1>6, <3>1 DEF Owed, Count
      <4>2. Count(r, g) \in {0, n}
        BY <1>3 DEF Count
      <4> QED BY <2>1, <2>4, <3>1, <4>1, <4>2
    <3>2. CASE agent.totals /\ g \in DOMAIN r
      <4>1. agent'.report[g] = n /\ Count(agent.counter, g)' = n
        BY <1>3, <1>6, <3>2 DEF Count
      <4>2. Owed(g)' = counterDelta(BaseOf(g), agent.epoch, n) + counterDelta(Told(g)', agent.epoch, n)
        BY <1>6, <2>2, <3>2, <4>1 DEF Owed
      <4>3. Told(g)' = [epoch |-> agent.epoch, count |-> n, at |-> 0]
        BY <1>6, <4>1 DEF Told
      <4>4. counterDelta(Told(g)', agent.epoch, n) = 0
        BY <2>1, <4>3 DEF counterDelta
      <4> QED BY <2>4, <2>5, <3>2, <4>2, <4>4
    <3>3. CASE agent.totals /\ g \notin DOMAIN r
      <4>1. Owed(g)' = counterDelta(BaseOf(g), agent.epoch, n)
        BY <1>6, <2>2, <3>3 DEF Owed, Count
      <4> QED BY <2>4, <2>5, <3>3, <4>1
    <3> QED BY <3>1, <3>2, <3>3
  <2> QED BY <1>1, <2>1, <2>6 DEF Room
<1>9. \A g \in Grants : served'[g] = Ungranted =>
             /\ served[g] = Ungranted
             /\ g \notin DOMAIN agent'.counter /\ g \notin DOMAIN agent'.report
  BY <1>1, <1>3, <1>5, <1>6 DEF GrantInv, Unheard
<1> QED BY <1>1, <1>6, <1>7, <1>8, <1>9, CounterStep

LEMMA LoseCountersStep ==
  ASSUME BillInv, NEW restart \in BOOLEAN, LoseCounters(restart)
  PROVE  BillInv'
<1> USE DEF BillInv
<1>1. UNCHANGED <<book, json, sql, txn, up, clock, enforcer, served, torn>>
  BY DEF LoseCounters
<1> DEFINE e == agent.epoch + (IF restart THEN 1 ELSE 0)
<1>2. agent' = [agent EXCEPT !.counter = NoReport, !.epoch = e] /\ e \in Nat
  BY AgentFacts DEF LoseCounters, TypeInv
<1> HIDE DEF e
<1>3. NoReport \in Partial(Nat) /\ DOMAIN NoReport = {}
  BY EmptyPartial DEF NoReport
<1>4. /\ agent'.counter = NoReport /\ agent'.report = agent.report /\ agent'.from = agent.from
      /\ agent'.epoch = e /\ agent'.totals = agent.totals
      /\ agent'.urev = agent.urev /\ agent'.users = agent.users
  BY <1>2 DEF TypeInv
<1>5. TypeInv'
  <2>1. agent' \in [urev : Nat, users : SUBSET Grants, counter : Partial(Nat), report : Partial(Nat),
                    from : Nat, epoch : Nat, totals : BOOLEAN]
    BY <1>2, <1>3 DEF TypeInv
  <2> QED BY <1>1, <2>1 DEF TypeInv
<1>6. ASSUME NEW g \in Grants PROVE Room(g)' >= Room(g)
  <2>1. /\ BaseOf(g) \in Bases /\ Count(agent.counter, g) \in Nat /\ Count(agent.report, g) \in Nat
        /\ g \in DOMAIN agent.report => Told(g) \in Bases /\ agent.report[g] \in Nat
        /\ agent.from \in Int /\ agent.epoch \in Int /\ e \in Int /\ Owed(g) \in Nat /\ served[g] \in Int
    BY <1>2, RoomFacts, AgentFacts DEF TypeInv
  <2>2. BaseOf(g)' = BaseOf(g) /\ Told(g)' = Told(g)
    BY <1>1, <1>4 DEF BaseOf, Told
  <2>3. Count(agent.counter, g)' = 0 /\ Count(agent.report, g)' = Count(agent.report, g)
    BY <1>3, <1>4 DEF Count
  <2>4. Owed(g)' = IF ~agent.totals THEN Count(agent.report, g) + 0
                   ELSE IF g \in DOMAIN agent.report
                   THEN counterDelta(BaseOf(g), agent.from, agent.report[g]) + counterDelta(Told(g), e, 0)
                   ELSE counterDelta(BaseOf(g), e, 0)
    BY <1>4, <2>2, <2>3 DEF Owed
  <2>5. counterDelta(BaseOf(g), e, 0) = 0 /\ counterDelta(BaseOf(g), agent.epoch, Count(agent.counter, g)) \in Nat
    BY <2>1, DeltaFacts
  <2>6. g \in DOMAIN agent.report =>
          /\ counterDelta(Told(g), e, 0) = 0
          /\ counterDelta(Told(g), agent.epoch, Count(agent.counter, g)) \in Nat
          /\ counterDelta(BaseOf(g), agent.from, agent.report[g]) \in Nat
    BY <2>1, DeltaFacts
  <2>7. Owed(g)' <= Owed(g) /\ Owed(g)' \in Nat
    <3>1. CASE ~agent.totals
      BY <2>1, <2>4, <3>1 DEF Owed
    <3>2. CASE agent.totals /\ g \in DOMAIN agent.report
      BY <2>4, <2>6, <3>2 DEF Owed
    <3>3. CASE agent.totals /\ g \notin DOMAIN agent.report
      BY <2>4, <2>5, <3>3 DEF Owed
    <3> QED BY <3>1, <3>2, <3>3
  <2> QED BY <1>1, <2>1, <2>7 DEF Room
<1>7. \A g \in Grants : served'[g] = Ungranted =>
             /\ served[g] = Ungranted
             /\ g \notin DOMAIN agent'.counter /\ g \notin DOMAIN agent'.report
  BY <1>1, <1>3, <1>4 DEF GrantInv, Unheard
<1> QED BY <1>1, <1>4, <1>5, <1>6, <1>7, CounterStep

(* Time only makes a membership expire.                                    *)
LEMMA TickStep ==
  ASSUME BillInv, Tick
  PROVE  BillInv'
<1> USE DEF BillInv
<1>1. UNCHANGED <<book, json, sql, txn, up, agent, enforcer, served, torn>> /\ clock' = clock + 1
  BY DEF Tick
<1>2. TypeInv'
  BY <1>1 DEF TypeInv
<1>3. ASSUME NEW m \in Membership, Valid(m, clock) PROVE Valid(m, clock')
  <2>1. m.ends \in Int /\ clock \in Int /\ clock' = clock + 1
    BY <1>1 DEF TypeInv, Membership
  <2> QED BY <1>3, <2>1 DEF Valid, Expired
<1>4. MemberInv'
  <2>1. \A g \in DOMAIN book.members : book.members[g] \in Membership
    BY BookFacts DEF TypeInv
  <2>2. Pending => \A g \in DOMAIN txn.next.members : txn.next.members[g] \in Membership
    BY BookFacts DEF TypeInv, Pending
  <2> QED BY <1>1, <1>3, <2>1, <2>2 DEF MemberInv, Pending
<1>5. RevisionInv' /\ AuthorityInv' /\ GrantInv' /\ FilesInv'
  BY <1>1, FilesFrame DEF RevisionInv, AuthorityInv, Similar, Authority, GrantInv, Unheard, Pending
<1>6. UsageInv'
  <2>1. \A g \in Grants : Room(g)' = Room(g) /\ Room(g) \in Int
    BY <1>1, RoomFrame, RoomFacts
  <2> QED BY <1>1, <1>2, <2>1, UsageFrame
<1> QED BY <1>2, <1>4, <1>5, <1>6

-----------------------------------------------------------------------------
(* A change of identity or plan is prepared.                               *)

(* A change that keeps the revision and the observations of the book,      *)
(* whose members are granted and within their room.                        *)
LEMMA BeginStep ==
  ASSUME BillInv, Ready, NEW next \in Books, persistStateAndAccounting(next),
         next.urev = book.urev, next.observed = book.observed,
         \A g \in DOMAIN next.members : Valid(next.members[g], clock),
         served' \in [Grants -> Int], \A g \in Grants : served'[g] >= served[g],
         \A g \in DOMAIN next.members : served'[g] # Ungranted,
         ~torn => \A g \in DOMAIN next.members :
             next.members[g].used <= Room(g)' /\ DailyUsage(g) <= Room(g)'
  PROVE  BillInv'
<1> USE DEF BillInv
<1> DEFINE t == [next EXCEPT !.urev = @ + 1]
<1>1. /\ txn' = [phase |-> "prepared", next |-> t] /\ txn = NoTxn /\ up
      /\ UNCHANGED <<book, json, sql, up, clock, agent, enforcer, torn>>
  BY DEF persistStateAndAccounting, Ready
<1>2. /\ t \in Books /\ t.urev = book.urev + 1 /\ t.members = next.members /\ t.observed = book.observed
      /\ book.urev \in Nat
  BY DEF Books, TypeInv
<1> HIDE DEF t
<1>3. txn' # NoTxn /\ txn'.phase = "prepared" /\ txn'.next = t /\ ~Pending /\ Pending'
  BY <1>1 DEF NoTxn, Pending
<1>4. TypeInv'
  <2>1. \A g \in Grants : served'[g] >= Ungranted
    BY DEF TypeInv, Ungranted
  <2>2. txn' \in [phase : Phases, next : Books]
    BY <1>1, <1>2 DEF Phases
  <2> QED BY <1>1, <2>1, <2>2 DEF TypeInv
<1>5. MemberInv'
  BY <1>1, <1>2, <1>3 DEF MemberInv, Valid
<1>6. RevisionInv'
  BY <1>1, <1>2, <1>3 DEF RevisionInv
<1>7. FilesInv'
  BY <1>1, <1>3 DEF FilesInv, Agrees, NoTxn
<1>8. AuthorityInv'
  BY <1>1 DEF AuthorityInv, Similar, Authority
<1>9. GrantInv'
  <2> SUFFICES ASSUME NEW g \in Grants, served'[g] = Ungranted PROVE Unheard(g)'
    BY DEF GrantInv
  <2>1. served[g] = Ungranted /\ g \notin DOMAIN next.members
    BY DEF TypeInv, Ungranted
  <2> QED BY <1>1, <1>2, <1>3, <2>1 DEF GrantInv, Unheard
<1>10. ASSUME NEW g \in Grants PROVE Room(g)' >= Room(g)
  <2>1. Owed(g)' = Owed(g)
    BY <1>1 DEF Owed, BaseOf, Told
  <2>2. Owed(g) \in Nat /\ served[g] \in Int /\ served'[g] \in Int
    BY RoomFacts DEF TypeInv
  <2> QED BY <2>1, <2>2 DEF Room
<1>11. UsageInv'
  <2> SUFFICES ASSUME ~torn, NEW g \in Grants
               PROVE
        /\ g \in DOMAIN book.members => book.members[g].used <= Room(g)' /\ DailyUsage(g) <= Room(g)'
        /\ g \in DOMAIN json.members =>
              DailyUsage(g) <= Room(g)' /\ (g \in DOMAIN sql.rows \/ json.members[g].used <= Room(g)')
        /\ g \in DOMAIN sql.rows => sql.rows[g].used <= Room(g)'
        /\ g \in DOMAIN next.members => next.members[g].used <= Room(g)' /\ DailyUsage(g) <= Room(g)'
    BY <1>1, <1>2, <1>3 DEF UsageInv, DailyUsage
  <2>1. Room(g) \in Int /\ Room(g)' \in Int /\ DailyUsage(g) \in Int
    BY <1>4, RoomFacts, RoomIntNext DEF RoomsAreInt
  <2>2. ASSUME NEW x \in Int, x <= Room(g) PROVE x <= Room(g)'
    BY <1>10, <2>1, <2>2
  <2>3. /\ g \in DOMAIN book.members => book.members[g].used \in Int
        /\ g \in DOMAIN json.members => json.members[g].used \in Int
        /\ g \in DOMAIN sql.rows => sql.rows[g].used \in Int
    BY UsedInt
  <2> QED BY <2>1, <2>2, <2>3 DEF UsageInv
<1> QED BY <1>4, <1>5, <1>6, <1>7, <1>8, <1>9, <1>11

(* A change of members that adds nobody and charges nothing.               *)
LEMMA BeginKept ==
  ASSUME BillInv, Ready, UNCHANGED served, NEW ms \in Partial(Membership),
         persistStateAndAccounting([book EXCEPT !.members = ms]),
         DOMAIN ms \subseteq DOMAIN book.members,
         \A g \in DOMAIN ms : Valid(ms[g], clock) /\ ms[g].used <= book.members[g].used
  PROVE  BillInv'
<1> USE DEF BillInv
<1> DEFINE next == [book EXCEPT !.members = ms]
<1>1. /\ next \in Books /\ next.members = ms /\ next.urev = book.urev /\ next.observed = book.observed
      /\ persistStateAndAccounting(next)
  BY DEF TypeInv, Books
<1> HIDE DEF next
<1>2. UNCHANGED <<book, agent>>
  BY DEF persistStateAndAccounting
<1>3. served' \in [Grants -> Int] /\ \A g \in Grants : served'[g] >= served[g]
  BY DEF TypeInv
<1>4. \A g \in DOMAIN ms : served'[g] # Ungranted
  <2>1. DOMAIN ms \subseteq Grants
    BY PartialFacts
  <2> QED BY <2>1 DEF GrantInv, Unheard
<1>5. ASSUME ~torn, NEW g \in DOMAIN ms PROVE ms[g].used <= Room(g)' /\ DailyUsage(g) <= Room(g)'
  <2>1. g \in Grants /\ ms[g] \in Membership /\ book.members[g] \in Membership /\ g \in DOMAIN book.members
    BY PartialFacts, BookFacts DEF TypeInv
  <2>2. Room(g)' = Room(g)
    BY <1>2, RoomFrame
  <2>3. Room(g) \in Int /\ ms[g].used \in Int /\ book.members[g].used \in Int
    BY <2>1, RoomFacts, BillConstants DEF Membership
  <2>4. book.members[g].used <= Room(g) /\ DailyUsage(g) <= Room(g)
    BY <1>5, <2>1 DEF UsageInv
  <2> QED BY <2>1, <2>2, <2>3, <2>4
<1> QED BY <1>1, <1>3, <1>4, <1>5, BeginStep

LEMMA AddStep ==
  ASSUME BillInv, NEW g \in Grants, NEW quota \in Quotas, NEW term \in Terms,
         addUserProxyAccess(g, quota, term)
  PROVE  BillInv'
<1> USE DEF BillInv
<1> DEFINE n == grantMembership(quota, term, clock)
           ms == [h \in DOMAIN book.members \cup {g} |-> IF h = g THEN n ELSE book.members[h]]
           next == [book EXCEPT !.members = ms]
<1>1. /\ Ready /\ served[g] = Ungranted /\ served' = [served EXCEPT ![g] = 0]
      /\ persistStateAndAccounting(next)
  BY DEF addUserProxyAccess, TypeInv, Books
<1>2. n \in Membership /\ n.used = 0 /\ Valid(n, clock)
  <2>1. quota \in Nat /\ term \in Nat /\ clock \in Nat
    BY BillConstants DEF TypeInv
  <2> QED BY <2>1, GrantFacts
<1> HIDE DEF n
<1>3. /\ \A h \in DOMAIN book.members : book.members[h] \in Membership /\ h \in Grants
      /\ Unheard(g)
  BY <1>1, BookFacts DEF TypeInv, GrantInv
<1>4. ms \in Partial(Membership) /\ DOMAIN ms = DOMAIN book.members \cup {g} /\ ms[g] = n
      /\ \A h \in DOMAIN book.members : h # g /\ ms[h] = book.members[h]
  <2>1. ms \in [DOMAIN book.members \cup {g} -> Membership] /\ DOMAIN book.members \cup {g} \subseteq Grants
    BY <1>2, <1>3
  <2>2. ms \in Partial(Membership)
    BY <2>1, PartialBuilt
  <2> QED BY <1>3, <2>2 DEF Unheard
<1> HIDE DEF ms
<1>5. next \in Books /\ next.members = ms /\ next.urev = book.urev /\ next.observed = book.observed
  BY <1>4 DEF TypeInv, Books
<1> HIDE DEF next
<1>6. UNCHANGED <<book, agent>>
  BY <1>1 DEF persistStateAndAccounting
<1>7. served' \in [Grants -> Int] /\ \A h \in Grants : served'[h] >= served[h]
  BY <1>1 DEF TypeInv, Ungranted
<1>8. \A h \in DOMAIN ms : served'[h] # Ungranted
  BY <1>1, <1>3, <1>4 DEF GrantInv, Unheard, TypeInv, Ungranted
<1>9. \A h \in DOMAIN ms : Valid(ms[h], clock)
  BY <1>2, <1>4 DEF MemberInv
<1>10. ASSUME ~torn, NEW h \in DOMAIN ms PROVE ms[h].used <= Room(h)' /\ DailyUsage(h) <= Room(h)'
  <2>1. Owed(h)' = Owed(h)
    BY <1>6 DEF Owed, BaseOf, Told
  <2>2. CASE h = g
    <3>1. Count(agent.counter, g) = 0 /\ Count(agent.report, g) = 0 /\ g \notin DOMAIN agent.report
      BY <1>3 DEF Unheard, Count
    <3>2. BaseOf(g) \in Bases /\ agent.epoch \in Int
      BY RoomFacts, AgentFacts
    <3>3. Owed(g) = 0
      BY <3>1, <3>2, DeltaFacts DEF Owed
    <3>4. DailyUsage(g) = 0
      BY <1>3 DEF DailyUsage, MemberInv, Unheard
    <3>5. Room(g)' = 0
      BY <1>1, <2>1, <2>2, <3>3 DEF Room, TypeInv
    <3> QED BY <1>2, <1>4, <2>2, <3>4, <3>5
  <2>3. CASE h # g
    <3>1. h \in DOMAIN book.members /\ h \in Grants /\ ms[h] = book.members[h]
      BY <1>3, <1>4, <2>3
    <3>2. Room(h)' = Room(h)
      BY <1>1, <2>1, <2>3, <3>1 DEF Room, TypeInv
    <3> QED BY <1>10, <3>1, <3>2 DEF UsageInv
  <2> QED BY <2>2, <2>3
<1> QED BY <1>1, <1>5, <1>7, <1>8, <1>9, <1>10, BeginStep

LEMMA RemoveStep ==
  ASSUME BillInv, NEW g \in Grants, removeUserProxyAccess(g)
  PROVE  BillInv'
<1> USE DEF BillInv
<1> DEFINE ms == Only(book.members, Grants \ {g})
<1>1. Ready /\ UNCHANGED served /\ persistStateAndAccounting([book EXCEPT !.members = ms])
  BY DEF removeUserProxyAccess, TypeInv, Books
<1>2. book.members \in Partial(Membership)
  BY BookFacts DEF TypeInv
<1>3. /\ ms \in Partial(Membership) /\ DOMAIN ms = DOMAIN book.members \cap (Grants \ {g})
      /\ \A h \in DOMAIN book.members \cap (Grants \ {g}) : ms[h] = book.members[h]
  BY <1>2, OnlyFacts
<1> HIDE DEF ms
<1>4. \A h \in DOMAIN ms : Valid(ms[h], clock) /\ ms[h].used <= book.members[h].used
  <2>1. \A h \in DOMAIN book.members : book.members[h].used \in Int
    BY UsedInt, BookFacts DEF TypeInv
  <2> QED BY <1>3, <2>1 DEF MemberInv
<1> QED BY <1>1, <1>3, <1>4, BeginKept

LEMMA PlanStep ==
  ASSUME BillInv, NEW g \in Grants, NEW quota \in Quotas, NEW term \in Terms,
         UpdateMembershipPlan(g, quota, term)
  PROVE  BillInv'
<1> USE DEF BillInv
<1> DEFINE m == [book.members[g] EXCEPT !.quota = quota, !.ends = subscriptionDeadline(clock, term)]
           n == recomputeMembershipStatus(m, clock)
           ms == [book.members EXCEPT ![g] = n]
<1>1. Ready /\ UNCHANGED served /\ persistStateAndAccounting([book EXCEPT !.members = ms])
      /\ g \in DOMAIN book.members
  BY DEF UpdateMembershipPlan, Unexpired, TypeInv, Books
<1>2. /\ book.members \in Partial(Membership) /\ DOMAIN book.members \subseteq Grants
      /\ \A h \in DOMAIN book.members : book.members[h] \in Membership
      /\ book.members \in [DOMAIN book.members -> Membership]
  BY BookFacts, PartialFacts DEF TypeInv
<1>3. /\ m \in Membership /\ m.used = book.members[g].used
      /\ m.started = book.members[g].started /\ m.resets = book.members[g].resets
  <2>1. quota \in Nat /\ subscriptionDeadline(clock, term) \in Nat
    BY BillConstants DEF TypeInv, subscriptionDeadline, Never
  <2> QED BY <1>1, <1>2, <2>1 DEF Membership
<1> HIDE DEF m
<1>4. n \in Membership /\ n.used = book.members[g].used /\ Valid(n, clock)
  <2>1. m.started <= m.resets /\ clock \in Int
    BY <1>1, <1>3 DEF MemberInv, Valid, TypeInv
  <2> QED BY <1>3, <2>1, RecomputeFacts
<1> HIDE DEF n
<1>5. ms \in [DOMAIN book.members -> Membership]
  BY <1>2, <1>4
<1>6. ms \in Partial(Membership)
  BY <1>2, <1>5, PartialBuilt
<1>7. \A h \in DOMAIN ms : Valid(ms[h], clock) /\ ms[h].used <= book.members[h].used
  <2>1. \A h \in DOMAIN book.members : book.members[h].used \in Int
    BY <1>2, BillConstants DEF Membership
  <2> QED BY <1>1, <1>4, <1>5, <2>1 DEF MemberInv
<1> QED BY <1>1, <1>5, <1>6, <1>7, BeginKept

LEMMA ExtendStep ==
  ASSUME BillInv, NEW G \in SUBSET Grants, NEW term \in Terms \ {0},
         ExtendProxyNodeSubscriptions(G, term)
  PROVE  BillInv'
<1> USE DEF BillInv
<1> DEFINE m(g) == [book.members[g] EXCEPT !.ends = book.members[g].ends + term]
           n(g) == IF g \notin G THEN book.members[g] ELSE recomputeMembershipStatus(m(g), clock)
           ms == [g \in DOMAIN book.members |-> n(g)]
<1>1. Ready /\ UNCHANGED served /\ persistStateAndAccounting([book EXCEPT !.members = ms])
  BY Zenon DEF ExtendProxyNodeSubscriptions
<1>2. /\ DOMAIN book.members \subseteq Grants
      /\ \A h \in DOMAIN book.members : book.members[h] \in Membership
  BY BookFacts DEF TypeInv
<1>3. ASSUME NEW g \in DOMAIN book.members
      PROVE  n(g) \in Membership /\ n(g).used = book.members[g].used /\ Valid(n(g), clock)
  <2>1. CASE g \notin G
    BY <1>2, <2>1 DEF MemberInv
  <2>2. CASE g \in G
    <3>1. book.members[g] \in Membership /\ term \in Nat
      BY <1>2, BillConstants
    <3>2. /\ m(g) \in Membership /\ m(g).used = book.members[g].used
          /\ m(g).started = book.members[g].started /\ m(g).resets = book.members[g].resets
      BY <3>1 DEF Membership
    <3> HIDE DEF m
    <3>3. m(g).started <= m(g).resets /\ clock \in Int
      BY <3>2 DEF MemberInv, Valid, TypeInv
    <3> QED BY <2>2, <3>2, <3>3, RecomputeFacts
  <2> QED BY <2>1, <2>2
<1> HIDE DEF n
<1>4. ms \in [DOMAIN book.members -> Membership]
  BY <1>3
<1>5. ms \in Partial(Membership)
  BY <1>2, <1>4, PartialBuilt
<1>6. \A h \in DOMAIN ms : Valid(ms[h], clock) /\ ms[h].used <= book.members[h].used
  <2>1. \A h \in DOMAIN book.members : book.members[h].used \in Int
    BY <1>2, BillConstants DEF Membership
  <2> QED BY <1>3, <1>4, <2>1
<1> QED BY <1>1, <1>4, <1>5, <1>6, BeginKept

-----------------------------------------------------------------------------
(* A change of identity or plan is persisted.                              *)

LEMMA RowFacts ==
  \A m : Row(m).used = m.used /\ Row(m).started = m.started /\ Row(m).resets = m.resets
BY DEF Row

(* The ledger of a book: its rows, and of the days those of its members.   *)
LEMMA PrepareFacts ==
  ASSUME NEW s \in Ledgers, NEW b \in Books
  PROVE  LET n == prepareMembershipReconciliation(s, b)
         IN  /\ n \in Ledgers /\ n.observed = s.observed /\ n.urev >= s.urev /\ n.urev >= b.urev
             /\ DOMAIN n.rows = DOMAIN b.members
             /\ \A g \in DOMAIN b.members : n.rows[g] = Row(b.members[g])
             /\ DOMAIN n.daily = DOMAIN s.daily \cap DOMAIN b.members
             /\ \A g \in DOMAIN s.daily \cap DOMAIN b.members : n.daily[g] = s.daily[g]
<1> DEFINE rows == [g \in DOMAIN b.members |-> Row(b.members[g])]
           daily == Only(s.daily, DOMAIN b.members)
           urev == Larger(s.urev, b.urev)
           n == prepareMembershipReconciliation(s, b)
<1>1. n = [s EXCEPT !.rows = rows, !.daily = daily, !.urev = urev]
  BY DEF prepareMembershipReconciliation, Ledgers
<1>2. rows \in Partial(Rows)
  <2>1. \A m \in Membership : Row(m) \in Rows
    BY DEF Row, Membership, Rows
  <2>2. rows \in [DOMAIN b.members -> Rows] /\ DOMAIN b.members \subseteq Grants
    BY <2>1, BookFacts
  <2> QED BY <2>2, PartialBuilt
<1>3. /\ daily \in Partial(Nat) /\ DOMAIN daily = DOMAIN s.daily \cap DOMAIN b.members
      /\ \A g \in DOMAIN s.daily \cap DOMAIN b.members : daily[g] = s.daily[g]
  BY LedgerFacts, OnlyCounts
<1>4. urev \in Nat /\ urev >= s.urev /\ urev >= b.urev
  BY LedgerFacts, BookFacts DEF Larger
<1>5. DOMAIN rows = DOMAIN b.members /\ \A g \in DOMAIN b.members : rows[g] = Row(b.members[g])
  OBVIOUS
<1> HIDE DEF rows, daily, urev, n
<1>6. n.rows = rows /\ n.daily = daily /\ n.urev = urev /\ n.observed = s.observed /\ n \in Ledgers
  BY <1>1, <1>2, <1>3, <1>4 DEF Ledgers
<1> QED BY <1>3, <1>4, <1>5, <1>6 DEF n

(* A transaction that is under way.                                        *)
LEMMA TxnFacts ==
  ASSUME BillInv, txn.phase \in Phases
  PROVE  /\ Pending /\ up /\ txn.next \in Books
         /\ txn.next.urev = book.urev + 1 /\ txn.next.observed = book.observed
         /\ \A g \in DOMAIN txn.next.members : Valid(txn.next.members[g], clock) /\ g \in Grants
         /\ \A g \in DOMAIN txn.next.members : txn.next.members[g].started <= txn.next.members[g].resets
<1> USE DEF BillInv
<1>1. Pending
  BY DEF Pending, NoTxn, Phases
<1>2. txn.next \in Books
  BY <1>1 DEF TypeInv, Pending
<1> QED BY <1>1, <1>2, BookFacts DEF RevisionInv, MemberInv, Valid

LEMMA PersistLockedStep ==
  ASSUME BillInv, persistLocked \/ persistLockedFails
  PROVE  BillInv'
<1> USE DEF BillInv
<1>1. /\ txn.phase = "prepared" /\ UNCHANGED <<book, sql, up, clock, agent, enforcer, served>>
      /\ \/ txn' = [txn EXCEPT !.phase = "renamed"] /\ json' = txn.next /\ torn' = torn
         \/ txn' = NoTxn /\ json' = json /\ torn' = torn
         \/ txn' = NoTxn /\ json' = txn.next /\ torn'
  BY DEF persistLocked, persistLockedFails, TypeInv
<1>2. txn.phase \in Phases
  BY <1>1 DEF Phases
<1>3. /\ \/ txn' = NoTxn
         \/ txn'.phase = "renamed" /\ txn'.next = txn.next /\ txn' \in [phase : Phases, next : Books]
            /\ json' = txn.next
      /\ json' \in {json, txn.next} /\ torn' \in BOOLEAN /\ (torn => torn')
  BY <1>1, <1>2, TxnFacts DEF TypeInv, Pending, Phases
<1>4. TypeInv'
  BY <1>1, <1>2, <1>3, TxnFacts DEF TypeInv
<1>5. MemberInv'
  BY <1>1, <1>2, <1>3, TxnFacts DEF MemberInv, Pending, Valid
<1>6. RevisionInv'
  BY <1>1, <1>2, <1>3, TxnFacts DEF RevisionInv, Pending
<1>7. FilesInv'
  <2>1. up
    BY <1>2, TxnFacts
  <2> QED BY <1>1, <1>3, <2>1 DEF FilesInv, Agrees, NoTxn
<1>8. AuthorityInv'
  BY <1>1, <1>3 DEF AuthorityInv, Similar, Authority
<1>9. GrantInv'
  BY <1>1, <1>2, <1>3, TxnFacts DEF GrantInv, Unheard, Pending
<1>10. UsageInv'
  <2>1. \A g \in Grants : Room(g)' = Room(g)
    BY <1>1, RoomFrame
  <2>2. \A g \in Grants : DailyUsage(g)' = DailyUsage(g)
    BY <1>1 DEF DailyUsage
  <2>3. Pending
    BY <1>2, TxnFacts
  <2> QED BY <1>1, <1>3, <2>1, <2>2, <2>3 DEF UsageInv, Pending
<1> QED BY <1>4, <1>5, <1>6, <1>7, <1>8, <1>9, <1>10

(* Days that were kept are as they were, the others are gone.              *)
LEMMA DailyShrinks ==
  ASSUME TypeInv, NEW b \in Books, sql' = prepareMembershipReconciliation(sql, b)
  PROVE  \A g \in Grants : DailyUsage(g)' \in Nat /\ DailyUsage(g)' <= DailyUsage(g)
<1> TAKE g \in Grants
<1>1. sql \in Ledgers
  BY DEF TypeInv
<1>2. /\ DOMAIN sql'.daily = DOMAIN sql.daily \cap DOMAIN b.members
      /\ \A h \in DOMAIN sql.daily \cap DOMAIN b.members : sql'.daily[h] = sql.daily[h]
  BY <1>1, PrepareFacts
<1>3. DailyUsage(g) \in Nat /\ (g \in DOMAIN sql.daily => sql.daily[g] \in Nat)
  BY <1>1, LedgerFacts DEF DailyUsage
<1> QED BY <1>2, <1>3 DEF DailyUsage

LEMMA CommitStep ==
  ASSUME BillInv, Commit
  PROVE  BillInv'
<1> USE DEF BillInv
<1> DEFINE t == txn.next
<1>1. /\ txn.phase \in {"renamed", "uncommitted"} /\ UNCHANGED <<json, up, clock, agent, served, torn>>
      /\ sql' = prepareMembershipReconciliation(sql, t) /\ book' = t /\ txn' = NoTxn
      /\ enforcer' = TriggerDeployment(enforcer)
  BY DEF Commit
<1>2. txn.phase \in Phases
  BY <1>1 DEF Phases
<1>3. /\ Pending /\ up /\ t \in Books /\ t.urev = book.urev + 1 /\ t.observed = book.observed
      /\ \A g \in DOMAIN t.members : Valid(t.members[g], clock) /\ g \in Grants
      /\ \A g \in DOMAIN t.members : t.members[g].started <= t.members[g].resets
  BY <1>2, TxnFacts
<1>4. /\ sql' \in Ledgers /\ sql'.observed = sql.observed /\ sql'.urev >= t.urev
      /\ DOMAIN sql'.rows = DOMAIN t.members
      /\ \A g \in DOMAIN t.members : sql'.rows[g] = Row(t.members[g])
      /\ DOMAIN sql'.daily \subseteq DOMAIN t.members
  <2>1. sql \in Ledgers
    BY DEF TypeInv
  <2> HIDE DEF t
  <2> QED BY <1>1, <1>3, <2>1, PrepareFacts
<1>5. enforcer'.job = enforcer.job /\ enforcer' \in [running : BOOLEAN, again : BOOLEAN, job : Targets]
  BY <1>1 DEF TriggerDeployment, TypeInv
<1>6. ~Pending'
  BY <1>1 DEF Pending
<1>7. TypeInv'
  BY <1>1, <1>3, <1>4, <1>5 DEF TypeInv
<1>8. MemberInv'
  <2>1. \A g \in DOMAIN sql'.rows : sql'.rows[g].started <= sql'.rows[g].resets
    BY <1>3, <1>4, RowFacts
  <2> HIDE DEF t
  <2> QED BY <1>1, <1>3, <1>4, <1>6, <2>1 DEF MemberInv, Valid
<1>9. RevisionInv'
  <2>1. book.urev \in Nat /\ agent.urev \in Nat /\ enforcer.job.urev \in Nat
    BY BookFacts, AgentFacts DEF TypeInv, Targets
  <2> QED BY <1>1, <1>3, <1>4, <1>5, <1>6, <2>1 DEF RevisionInv
<1>10. FilesInv'
  <2> SUFFICES ASSUME ~torn PROVE sql'.observed = book'.observed /\ Agrees'
    BY <1>1, <1>3 DEF FilesInv, NoTxn
  <2>1. json = t /\ sql.observed = book.observed
    BY <1>1 DEF FilesInv
  <2> QED BY <1>1, <1>3, <1>4, <2>1 DEF Agrees
<1>11. AuthorityInv'
  <2>1. /\ book.urev \in Nat /\ agent.urev \in Nat /\ enforcer.job.urev \in Nat
        /\ agent.urev <= book.urev /\ enforcer.job.urev <= book.urev
    BY BookFacts, AgentFacts DEF TypeInv, Targets, RevisionInv
  <2> QED BY <1>1, <1>3, <1>5, <2>1 DEF AuthorityInv
<1>12. GrantInv'
  BY <1>1, <1>3, <1>4, <1>5, <1>6 DEF GrantInv, Unheard
<1>13. UsageInv'
  <2> SUFFICES ASSUME ~torn, NEW g \in Grants
               PROVE  g \in DOMAIN t.members =>
                         t.members[g].used <= Room(g)' /\ DailyUsage(g)' <= Room(g)'
    <3>1. ~torn => json = t
      BY <1>1 DEF FilesInv
    <3> HIDE DEF t
    <3> QED BY <1>1, <1>4, <1>6, <3>1, RowFacts DEF UsageInv
  <2>1. Room(g)' = Room(g) /\ Room(g) \in Int
    BY <1>1, <1>3, RoomFrame, RoomFacts
  <2>2. DailyUsage(g) \in Nat /\ DailyUsage(g)' \in Nat /\ DailyUsage(g)' <= DailyUsage(g)
    BY <1>1, <1>3, DailyShrinks, RoomFacts
  <2> QED BY <1>3, <2>1, <2>2 DEF UsageInv
<1> QED BY <1>7, <1>8, <1>9, <1>10, <1>11, <1>12, <1>13

LEMMA RetryStep ==
  ASSUME BillInv, CommitFails \/ RetryFails
  PROVE  BillInv'
<1> USE DEF BillInv
<1> DEFINE t == txn.next
<1>1. /\ txn.phase \in {"renamed", "uncommitted"}
      /\ UNCHANGED <<book, json, up, clock, agent, enforcer, served, torn>>
      /\ \/ sql' = sql
         \/ sql' = prepareMembershipReconciliation(sql, t)
      /\ \E p \in {"uncommitted", "restoring"} : txn' = [txn EXCEPT !.phase = p]
  BY DEF CommitFails, RetryFails
<1>2. txn.phase \in Phases
  BY <1>1 DEF Phases
<1>3. /\ Pending /\ up /\ t \in Books /\ t.urev = book.urev + 1 /\ t.observed = book.observed
      /\ \A g \in DOMAIN t.members : Valid(t.members[g], clock) /\ g \in Grants
      /\ \A g \in DOMAIN t.members : t.members[g].started <= t.members[g].resets
  BY <1>2, TxnFacts
<1>4. /\ txn'.phase \in {"uncommitted", "restoring"} /\ txn'.next = t
      /\ txn' \in [phase : Phases, next : Books] /\ txn' # NoTxn /\ Pending'
  BY <1>1, <1>3 DEF TypeInv, Pending, Phases, NoTxn
<1>5. sql' = prepareMembershipReconciliation(sql, t) =>
      /\ sql' \in Ledgers /\ sql'.observed = sql.observed /\ sql'.urev >= sql.urev
      /\ DOMAIN sql'.rows = DOMAIN t.members
      /\ \A g \in DOMAIN t.members : sql'.rows[g] = Row(t.members[g])
      /\ DOMAIN sql'.daily \subseteq DOMAIN t.members
  <2>1. sql \in Ledgers
    BY DEF TypeInv
  <2> HIDE DEF t
  <2> QED BY <1>3, <2>1, PrepareFacts
<1>6. /\ sql' \in Ledgers /\ sql'.observed = sql.observed /\ sql'.urev >= sql.urev
      /\ DOMAIN sql'.daily \subseteq DOMAIN sql'.rows
      /\ \/ sql' = sql
         \/ /\ DOMAIN sql'.rows = DOMAIN t.members
            /\ \A g \in DOMAIN t.members : sql'.rows[g] = Row(t.members[g])
  BY <1>1, <1>5, LedgerFacts DEF TypeInv, MemberInv
<1>7. TypeInv'
  BY <1>1, <1>4, <1>6 DEF TypeInv
<1>8. MemberInv'
  <2>1. \A g \in DOMAIN sql'.rows : sql'.rows[g].started <= sql'.rows[g].resets
    BY <1>3, <1>6, RowFacts DEF MemberInv
  <2>2. txn'.next = txn.next /\ Pending
    BY <1>3, <1>4
  <2> QED BY <1>1, <1>4, <1>6, <2>1, <2>2 DEF MemberInv, Valid
<1>9. RevisionInv'
  <2>1. book.urev \in Nat /\ sql.urev \in Nat /\ sql'.urev \in Nat
    BY <1>6, BookFacts, LedgerFacts DEF TypeInv
  <2> QED BY <1>1, <1>3, <1>4, <1>6, <2>1 DEF RevisionInv
<1>10. FilesInv'
  BY <1>1, <1>3, <1>4, <1>6 DEF FilesInv
<1>11. AuthorityInv'
  BY <1>1 DEF AuthorityInv, Similar, Authority
<1>12. GrantInv'
  BY <1>1, <1>3, <1>4, <1>6 DEF GrantInv, Unheard
<1>13. UsageInv'
  <2> SUFFICES ASSUME ~torn, NEW g \in Grants
               PROVE
        /\ g \in DOMAIN book.members => book.members[g].used <= Room(g) /\ DailyUsage(g)' <= Room(g)
        /\ g \in DOMAIN t.members => t.members[g].used <= Room(g) /\ DailyUsage(g)' <= Room(g)
        /\ g \in DOMAIN sql'.rows => sql'.rows[g].used <= Room(g)
    <3>1. ~torn => json = t
      BY <1>1 DEF FilesInv
    <3>2. \A g \in Grants : Room(g)' = Room(g)
      BY <1>1, RoomFrame
    <3> QED BY <1>1, <1>4, <3>1, <3>2 DEF UsageInv
  <2>1. Room(g) \in Int /\ DailyUsage(g) \in Nat
    BY RoomFacts
  <2>2. DailyUsage(g)' \in Nat /\ DailyUsage(g)' <= DailyUsage(g)
    <3>1. CASE sql' = sql
      BY <2>1, <3>1 DEF DailyUsage
    <3>2. CASE sql' = prepareMembershipReconciliation(sql, t)
      BY <1>3, <3>2, DailyShrinks
    <3> QED BY <1>1, <3>1, <3>2
  <2>3. g \in DOMAIN sql'.rows => sql'.rows[g].used <= Room(g)
    BY <1>3, <1>6, RowFacts DEF UsageInv
  <2> QED BY <1>3, <2>1, <2>2, <2>3 DEF UsageInv
<1> QED BY <1>7, <1>8, <1>9, <1>10, <1>11, <1>12, <1>13

LEMMA RestoreStep ==
  ASSUME BillInv, RestoreState \/ RestoreStateFails
  PROVE  BillInv'
<1> USE DEF BillInv
<1>1. /\ txn.phase = "restoring" /\ txn' = NoTxn
      /\ UNCHANGED <<book, up, clock, agent, enforcer, served>>
      /\ \/ json' = book /\ sql' = prepareMembershipReconciliation(sql, book) /\ torn' = torn
         \/ json' = json /\ sql' = sql /\ torn'
  BY DEF RestoreState, RestoreStateFails
<1>2. book \in Books /\ sql \in Ledgers /\ ~Pending'
  BY <1>1 DEF TypeInv, Pending
<1>3. sql' = prepareMembershipReconciliation(sql, book) =>
      /\ sql' \in Ledgers /\ sql'.observed = sql.observed /\ sql'.urev >= sql.urev
      /\ DOMAIN sql'.rows = DOMAIN book.members
      /\ \A g \in DOMAIN book.members : sql'.rows[g] = Row(book.members[g])
      /\ DOMAIN sql'.daily \subseteq DOMAIN book.members
  BY <1>2, PrepareFacts
<1>4. up
  <2>1. txn.phase \in Phases
    BY <1>1 DEF Phases
  <2> QED BY <2>1, TxnFacts
<1>5. CASE json' = json /\ sql' = sql /\ torn'
  <2>1. TypeInv'
    BY <1>1, <1>5 DEF TypeInv
  <2>2. MemberInv'
    BY <1>1, <1>2, <1>5 DEF MemberInv, Valid
  <2>3. RevisionInv'
    BY <1>1, <1>2, <1>4, <1>5 DEF RevisionInv
  <2>4. FilesInv' /\ AuthorityInv' /\ UsageInv'
    BY <1>5 DEF FilesInv, AuthorityInv, UsageInv
  <2>5. GrantInv'
    BY <1>1, <1>2, <1>5 DEF GrantInv, Unheard
  <2> QED BY <2>1, <2>2, <2>3, <2>4, <2>5
<1>6. CASE json' = book /\ sql' = prepareMembershipReconciliation(sql, book) /\ torn' = torn
  <2>0. /\ sql' \in Ledgers /\ sql'.observed = sql.observed /\ sql'.urev >= sql.urev
        /\ DOMAIN sql'.rows = DOMAIN book.members
        /\ \A g \in DOMAIN book.members : sql'.rows[g] = Row(book.members[g])
        /\ DOMAIN sql'.daily \subseteq DOMAIN book.members
    BY <1>3, <1>6
  <2>1. TypeInv'
    BY <1>1, <1>2, <1>6, <2>0 DEF TypeInv
  <2>2. MemberInv'
    <3>1. \A g \in DOMAIN sql'.rows : sql'.rows[g].started <= sql'.rows[g].resets
      BY <2>0, RowFacts DEF MemberInv, Valid
    <3> QED BY <1>1, <1>2, <1>6, <2>0, <3>1 DEF MemberInv, Valid
  <2>3. RevisionInv'
    <3>1. book.urev \in Nat /\ sql.urev \in Nat /\ sql'.urev \in Nat
      BY <1>2, <2>0, BookFacts, LedgerFacts
    <3> QED BY <1>1, <1>2, <1>4, <2>0, <3>1 DEF RevisionInv
  <2>4. FilesInv'
    <3>1. Agrees'
      BY <1>1, <1>6, <2>0 DEF Agrees
    <3> QED BY <1>1, <1>4, <1>6, <2>0, <3>1 DEF FilesInv, NoTxn
  <2>5. AuthorityInv'
    BY <1>1, <1>6 DEF AuthorityInv, Similar, Authority
  <2>6. GrantInv'
    BY <1>1, <1>2, <1>6, <2>0 DEF GrantInv, Unheard
  <2>7. UsageInv'
    <3> SUFFICES ASSUME ~torn, NEW g \in Grants, g \in DOMAIN book.members
                 PROVE  book.members[g].used <= Room(g) /\ DailyUsage(g)' <= Room(g)
      <4>1. \A g \in Grants : Room(g)' = Room(g)
        BY <1>1, RoomFrame
      <4> QED BY <1>1, <1>2, <1>6, <2>0, <4>1, RowFacts DEF UsageInv
    <3>1. Room(g) \in Int /\ DailyUsage(g) \in Nat
      BY RoomFacts
    <3>2. DailyUsage(g)' \in Nat /\ DailyUsage(g)' <= DailyUsage(g)
      BY <1>2, <1>6, DailyShrinks
    <3> QED BY <3>1, <3>2 DEF UsageInv
  <2> QED BY <2>1, <2>2, <2>3, <2>4, <2>5, <2>6, <2>7
<1> QED BY <1>1, <1>5, <1>6

LEMMA PersistingStep ==
  ASSUME BillInv, Persisting
  PROVE  BillInv'
BY PersistLockedStep, CommitStep, RetryStep, RestoreStep DEF Persisting

-----------------------------------------------------------------------------
(* A change of usage commits in the ledger.                                *)

(* The row of a member after a change: the old one where nothing changed.  *)
ChangedRow(s, before, after, g) ==
    IF (g \in DOMAIN before.members /\ Row(before.members[g]) = Row(after.members[g])) /\ g \in DOMAIN s.rows
    THEN s.rows[g] ELSE Row(after.members[g])

LEMMA ChangesAre ==
  ASSUME NEW s, NEW before, NEW after, NEW day
  PROVE  persistChanges(s, before, after, day) =
           [rows |-> [g \in DOMAIN after.members |-> ChangedRow(s, before, after, g)],
            daily |-> [g \in (DOMAIN s.daily \cup DOMAIN day) \cap DOMAIN after.members |->
                          saturatingAdd(Count(s.daily, g), Count(day, g))],
            observed |-> after.observed,
            urev |-> Larger(s.urev, after.urev)]
BY Zenon DEF persistChanges, ChangedRow, Count

LEMMA ChangesFacts ==
  ASSUME NEW s \in Ledgers, NEW before \in Books, NEW after \in Books, NEW day \in Partial(Nat)
  PROVE  LET n == persistChanges(s, before, after, day)
         IN  /\ n \in Ledgers /\ n.observed = after.observed /\ n.urev >= s.urev /\ n.urev >= after.urev
             /\ DOMAIN n.rows = DOMAIN after.members
             /\ \A g \in DOMAIN after.members : n.rows[g] = ChangedRow(s, before, after, g)
             /\ DOMAIN n.daily \subseteq DOMAIN after.members
             /\ \A g \in DOMAIN n.daily :
                    n.daily[g] \in Nat /\ n.daily[g] <= Count(s.daily, g) + Count(day, g)
<1> DEFINE n == persistChanges(s, before, after, day)
           D == (DOMAIN s.daily \cup DOMAIN day) \cap DOMAIN after.members
           rows == [g \in DOMAIN after.members |-> ChangedRow(s, before, after, g)]
           daily == [g \in D |-> saturatingAdd(Count(s.daily, g), Count(day, g))]
           urev == Larger(s.urev, after.urev)
<1>1. n = [rows |-> rows, daily |-> daily, observed |-> after.observed, urev |-> urev]
  BY ChangesAre
<1>2. DOMAIN after.members \subseteq Grants
  BY BookFacts
<1>3. rows \in Partial(Rows) /\ DOMAIN rows = DOMAIN after.members
      /\ \A g \in DOMAIN after.members : rows[g] = ChangedRow(s, before, after, g)
  <2>1. \A m \in Membership : Row(m) \in Rows
    BY DEF Row, Membership, Rows
  <2>2. \A g \in DOMAIN after.members : ChangedRow(s, before, after, g) \in Rows
    BY <2>1, BookFacts, LedgerFacts DEF ChangedRow
  <2>3. rows \in [DOMAIN after.members -> Rows]
    BY <2>2
  <2> QED BY <1>2, <2>3, PartialBuilt
<1>4. daily \in Partial(Nat) /\ DOMAIN daily \subseteq DOMAIN after.members
      /\ \A g \in DOMAIN daily : daily[g] \in Nat /\ daily[g] <= Count(s.daily, g) + Count(day, g)
  <2>1. \A g \in Grants : Count(s.daily, g) \in Nat /\ Count(day, g) \in Nat
    <3>1. day \in [DOMAIN day -> Nat]
      BY PartialFacts
    <3> QED BY <3>1, LedgerFacts DEF Count
  <2>2. ASSUME NEW g \in D
        PROVE  /\ saturatingAdd(Count(s.daily, g), Count(day, g)) \in Nat
               /\ saturatingAdd(Count(s.daily, g), Count(day, g)) <= Count(s.daily, g) + Count(day, g)
    <3>1. g \in Grants
      BY <1>2
    <3>2. saturatingAdd(Count(s.daily, g), Count(day, g)) \in 0..MaxBytes
      BY <2>1, <3>1, SaturatingFacts
    <3> QED BY <2>1, <3>1, <3>2, SaturatingFacts, BillConstants
  <2>3. daily \in [D -> Nat] /\ D \subseteq Grants
    BY <1>2, <2>2
  <2>4. daily \in Partial(Nat)
    BY <2>3, PartialBuilt
  <2> QED BY <2>2, <2>4
<1>5. urev \in Nat /\ urev >= s.urev /\ urev >= after.urev
  BY LedgerFacts, BookFacts DEF Larger
<1>6. after.observed \in Partial(Bases)
  BY BookFacts
<1> HIDE DEF rows, daily, urev, n
<1>7. n.rows = rows /\ n.daily = daily /\ n.urev = urev /\ n.observed = after.observed
  BY <1>1
<1>8. n \in Ledgers
  BY <1>1, <1>3, <1>4, <1>5, <1>6 DEF Ledgers
<1> QED BY <1>3, <1>4, <1>5, <1>7, <1>8 DEF n

(* The Agent of a step that takes its report, or takes nothing.            *)
LEMMA ReportTaken ==
  ASSUME TypeInv, agent' = agent \/ agent' = [agent EXCEPT !.report = NoReport]
  PROVE  /\ agent' \in [urev : Nat, users : SUBSET Grants, counter : Partial(Nat), report : Partial(Nat),
                        from : Nat, epoch : Nat, totals : BOOLEAN]
         /\ agent'.urev = agent.urev /\ agent'.users = agent.users
         /\ agent'.counter = agent.counter /\ DOMAIN agent'.report \subseteq DOMAIN agent.report
<1>1. CASE agent' = agent
  BY <1>1 DEF TypeInv
<1>2. CASE agent' = [agent EXCEPT !.report = NoReport]
  BY <1>2, AgentLosesReport
<1> QED BY <1>1, <1>2

(* A change of usage: nobody comes or goes, plans stay, the revision is    *)
(* the next one if the users to serve change, and what is charged was owed. *)
LEMMA BillingStep ==
  ASSUME BillInv, Ready, NEW next \in Books, NEW day \in Partial(Nat), persistBilling(next, day),
         UNCHANGED <<json, txn, up, clock, served>>,
         agent' = agent \/ agent' = [agent EXCEPT !.report = NoReport],
         DOMAIN next.members = DOMAIN book.members,
         \A g \in DOMAIN book.members :
             /\ next.members[g].quota = book.members[g].quota
             /\ next.members[g].ends = book.members[g].ends
             /\ Valid(next.members[g], clock)
             /\ book.members[g].off = "expired" => next.members[g].off = "expired",
         next.urev \in {book.urev, book.urev + 1},
         next.urev = book.urev => Authority(next) = Authority(book),
         ~torn /\ book' = next => \A g \in DOMAIN book.members :
             next.members[g].used <= Room(g)' /\ DailyUsage(g) + Count(day, g) <= Room(g)'
  PROVE  BillInv'
<1> USE DEF BillInv
<1> DEFINE s == persistChanges(sql, book, next, day)
<1>1. up /\ txn = NoTxn /\ txn' = NoTxn /\ ~Pending'
  BY DEF Ready, Pending
<1>2. book \in Books /\ sql \in Ledgers
  BY DEF TypeInv
<1>3. /\ s \in Ledgers /\ s.observed = next.observed /\ s.urev >= sql.urev /\ s.urev >= next.urev
      /\ DOMAIN s.rows = DOMAIN book.members
      /\ \A g \in DOMAIN book.members : s.rows[g] = ChangedRow(sql, book, next, g)
      /\ DOMAIN s.daily \subseteq DOMAIN book.members
      /\ \A g \in DOMAIN s.daily : s.daily[g] \in Nat /\ s.daily[g] <= Count(sql.daily, g) + Count(day, g)
  <2>1. /\ s \in Ledgers /\ s.observed = next.observed /\ s.urev >= sql.urev /\ s.urev >= next.urev
        /\ DOMAIN s.rows = DOMAIN next.members
        /\ \A g \in DOMAIN next.members : s.rows[g] = ChangedRow(sql, book, next, g)
        /\ DOMAIN s.daily \subseteq DOMAIN next.members
        /\ \A g \in DOMAIN s.daily : s.daily[g] \in Nat /\ s.daily[g] <= Count(sql.daily, g) + Count(day, g)
    BY <1>2, ChangesFacts
  <2> HIDE DEF s
  <2> QED BY <2>1
<1>4. \/ /\ sql' = s /\ book' = next /\ torn' = torn
         /\ enforcer' = enforcer \/ enforcer' = TriggerDeployment(enforcer)
      \/ sql' = sql /\ book' = book /\ enforcer' = enforcer /\ torn' = torn
      \/ sql' = s /\ book' = book /\ enforcer' = enforcer /\ torn'
  BY DEF persistBilling
<1> HIDE DEF s
<1>5. /\ agent' \in [urev : Nat, users : SUBSET Grants, counter : Partial(Nat), report : Partial(Nat),
                     from : Nat, epoch : Nat, totals : BOOLEAN]
      /\ agent'.urev = agent.urev /\ agent'.users = agent.users
      /\ agent'.counter = agent.counter /\ DOMAIN agent'.report \subseteq DOMAIN agent.report
  BY ReportTaken
<1>6. enforcer'.job = enforcer.job /\ enforcer' \in [running : BOOLEAN, again : BOOLEAN, job : Targets]
  BY <1>4 DEF TriggerDeployment, TypeInv
<1>7. TypeInv'
  BY <1>2, <1>3, <1>4, <1>5, <1>6 DEF TypeInv
<1>8. \A g \in DOMAIN s.rows : s.rows[g].started <= s.rows[g].resets
  BY <1>3, RowFacts DEF ChangedRow, MemberInv, Valid
<1>9. MemberInv'
  <2>1. \A g \in DOMAIN sql'.rows : sql'.rows[g].started <= sql'.rows[g].resets
    BY <1>4, <1>8 DEF MemberInv
  <2>2. DOMAIN sql'.daily \subseteq DOMAIN sql'.rows
    BY <1>3, <1>4 DEF MemberInv
  <2>3. \A g \in DOMAIN book'.members : Valid(book'.members[g], clock)
    BY <1>4 DEF MemberInv
  <2> QED BY <1>1, <2>1, <2>2, <2>3 DEF MemberInv, Valid
<1>10. book.urev \in Nat /\ sql.urev \in Nat /\ s.urev \in Nat /\ agent.urev \in Nat
       /\ enforcer.job.urev \in Nat /\ next.urev \in Nat /\ book.urev <= next.urev
  BY <1>2, <1>3, BookFacts, LedgerFacts, AgentFacts DEF TypeInv, Targets
<1>11. RevisionInv'
  BY <1>1, <1>3, <1>4, <1>5, <1>6, <1>10 DEF RevisionInv
<1>12. GrantInv'
  <2>1. DOMAIN sql'.rows \subseteq DOMAIN sql.rows \cup DOMAIN book.members
        /\ DOMAIN book'.members = DOMAIN book.members
    BY <1>3, <1>4
  <2> QED BY <1>1, <1>5, <1>6, <2>1 DEF GrantInv, Unheard
<1>13. CASE torn'
  <2>1. FilesInv' /\ AuthorityInv' /\ UsageInv'
    BY <1>13 DEF FilesInv, AuthorityInv, UsageInv
  <2> QED BY <1>7, <1>9, <1>11, <1>12, <2>1
<1>14. CASE ~torn' /\ sql' = sql /\ book' = book /\ enforcer' = enforcer /\ torn' = torn
  <2>1. ASSUME NEW g \in Grants PROVE Room(g)' >= Room(g)
    <3>1. Room(g) \in Int
      BY RoomFacts
    <3>2. CASE agent' = agent
      <4>1. Room(g)' = Room(g)
        BY <1>14, <3>2, RoomFrame
      <4> QED BY <3>1, <4>1
    <3>3. CASE agent' = [agent EXCEPT !.report = NoReport]
      BY <1>14, <3>3, ReportLost
    <3> QED BY <3>2, <3>3
  <2>2. \A g \in Grants : served'[g] = Ungranted =>
             /\ served[g] = Ungranted
             /\ g \notin DOMAIN agent'.counter /\ g \notin DOMAIN agent'.report
    BY <1>5 DEF GrantInv, Unheard
  <2> QED BY <1>5, <1>7, <1>14, <2>1, <2>2, CounterStep
<1>15. CASE ~torn' /\ sql' = s /\ book' = next /\ torn' = torn
  <2>1. Agrees /\ sql.observed = book.observed
    BY <1>1, <1>15 DEF FilesInv, NoTxn
  <2>2. \A g \in DOMAIN book.members : s.rows[g] = Row(next.members[g])
    BY <1>3, <2>1 DEF Agrees, ChangedRow
  <2>3. FilesInv'
    <3>1. Agrees'
      BY <1>3, <1>15, <2>1, <2>2 DEF Agrees
    <3> QED BY <1>1, <1>3, <1>15, <3>1 DEF FilesInv, NoTxn
  <2>4. AuthorityInv'
    <3>1. agent.urev <= book.urev /\ enforcer.job.urev <= book.urev
      BY DEF RevisionInv
    <3>2. ASSUME next.urev = book.urev
          PROVE  /\ Similar(agent.users) => Similar(agent.users)'
                 /\ Similar(enforcer.job.users) => Similar(enforcer.job.users)'
      <4>1. Authority(book)' = Authority(book)
        BY <1>15, <3>2 DEF Authority
      <4> QED BY <1>5, <1>6, <1>15, <4>1 DEF Similar
    <3> QED BY <1>5, <1>6, <1>10, <1>15, <3>1, <3>2 DEF AuthorityInv
  <2>5. UsageInv'
    <3> SUFFICES ASSUME NEW g \in Grants, g \in DOMAIN book.members
                 PROVE  next.members[g].used <= Room(g)' /\ DailyUsage(g)' <= Room(g)'
      BY <1>1, <1>3, <1>15, <2>1, <2>2, RowFacts DEF UsageInv, Agrees
    <3>1. next.members[g].used <= Room(g)' /\ DailyUsage(g) + Count(day, g) <= Room(g)'
      BY <1>15
    <3>2. Room(g)' \in Int /\ DailyUsage(g) \in Nat
      BY <1>7, RoomIntNext, RoomFacts DEF RoomsAreInt
    <3>3. Count(day, g) \in Nat
      BY PartialFacts DEF Count
    <3>4. DailyUsage(g)' \in Nat /\ DailyUsage(g)' <= DailyUsage(g) + Count(day, g)
      <4>1. CASE g \in DOMAIN s.daily
        BY <1>3, <1>15, <4>1 DEF DailyUsage, Count
      <4>2. CASE g \notin DOMAIN s.daily
        BY <1>15, <3>2, <3>3, <4>2 DEF DailyUsage
      <4> QED BY <4>1, <4>2
    <3> QED BY <3>1, <3>2, <3>3, <3>4
  <2> QED BY <1>7, <1>9, <1>11, <1>12, <2>3, <2>4, <2>5
<1> QED BY <1>4, <1>13, <1>14, <1>15

(* What a change that charges nothing leaves: the room, which is not       *)
(* negative for a member.                                                  *)
LEMMA RoomKept ==
  ASSUME BillInv, ~torn, UNCHANGED <<agent, served>>, book'.observed = book.observed,
         NEW g \in DOMAIN book.members
  PROVE  /\ Room(g)' = Room(g) /\ Room(g) \in Nat /\ DailyUsage(g) + Count(NoReport, g) <= Room(g)
         /\ book.members[g].used <= Room(g)
<1> USE DEF BillInv
<1>1. g \in Grants
  BY BookFacts DEF TypeInv
<1>2. Room(g)' = Room(g) /\ Room(g) \in Int /\ DailyUsage(g) \in Nat
  BY <1>1, RoomFrame, RoomFacts
<1>3. DailyUsage(g) <= Room(g) /\ book.members[g].used <= Room(g)
  BY <1>1 DEF UsageInv
<1>4. Count(NoReport, g) = 0
  BY EmptyPartial DEF NoReport, Count
<1> QED BY <1>2, <1>3, <1>4

LEMMA ResetTrafficStep ==
  ASSUME BillInv, NEW g \in Grants, ResetMembershipTraffic(g)
  PROVE  BillInv'
<1> USE DEF BillInv
<1> DEFINE old == book.members[g]
           zero == [old EXCEPT !.used = 0]
           m == recomputeMembershipStatus(zero, clock)
           ms == [book.members EXCEPT ![g] = m]
           urev == IF m.off # old.off THEN book.urev + 1 ELSE book.urev
           next == [book EXCEPT !.members = ms, !.urev = urev]
<1>1. /\ Ready /\ g \in DOMAIN book.members /\ persistBilling(next, NoReport)
      /\ UNCHANGED <<json, txn, up, clock, agent, served>>
  BY DEF ResetMembershipTraffic, TypeInv, Books
<1>2. /\ book \in Books /\ book.members \in [DOMAIN book.members -> Membership]
      /\ DOMAIN book.members \subseteq Grants /\ book.urev \in Nat /\ clock \in Int
      /\ book.urev \in Nat \ {0}
  BY BookFacts, PartialFacts DEF TypeInv
<1>3. old \in Membership /\ Valid(old, clock)
  BY <1>1, <1>2 DEF MemberInv
<1>4. /\ zero \in Membership /\ zero.used = 0 /\ zero.started = old.started /\ zero.resets = old.resets
      /\ zero.quota = old.quota /\ zero.ends = old.ends
  BY <1>3, BillConstants DEF Membership
<1> HIDE DEF zero
<1>5. /\ m \in Membership /\ m.used = 0 /\ m.quota = old.quota /\ m.ends = old.ends /\ Valid(m, clock)
      /\ old.off = "expired" => m.off = "expired"
  <2>1. zero.started <= zero.resets
    BY <1>3, <1>4 DEF Valid
  <2>2. Expired(zero, clock) <=> Expired(old, clock)
    BY <1>4 DEF Expired
  <2> QED BY <1>2, <1>3, <1>4, <2>1, <2>2, RecomputeFacts DEF Valid
<1> HIDE DEF m, old
<1>6. /\ ms \in [DOMAIN book.members -> Membership] /\ ms[g] = m
      /\ \A h \in DOMAIN book.members : h # g => ms[h] = book.members[h]
  BY <1>1, <1>2, <1>5
<1>7. ms \in Partial(Membership) /\ DOMAIN ms = DOMAIN book.members
  BY <1>2, <1>6, PartialBuilt
<1> HIDE DEF ms
<1>8. urev \in Nat \ {0} /\ urev \in {book.urev, book.urev + 1} /\ (urev = book.urev => m.off = old.off)
  BY <1>2
<1> HIDE DEF urev
<1>9. next \in Books /\ next.members = ms /\ next.urev = urev /\ next.observed = book.observed
  BY <1>2, <1>7, <1>8 DEF Books
<1> HIDE DEF next
<1>10. NoReport \in Partial(Nat)
  BY EmptyPartial DEF NoReport
<1>11. \A h \in DOMAIN book.members :
             /\ ms[h].quota = book.members[h].quota
             /\ ms[h].ends = book.members[h].ends
             /\ Valid(ms[h], clock)
             /\ book.members[h].off = "expired" => ms[h].off = "expired"
  BY <1>5, <1>6 DEF MemberInv, old
<1>12. next.urev = book.urev => Authority(next) = Authority(book)
  BY <1>6, <1>7, <1>8, <1>9 DEF Authority, old
<1>13. ASSUME ~torn, book' = next, NEW h \in DOMAIN book.members
       PROVE  ms[h].used <= Room(h)' /\ DailyUsage(h) + Count(NoReport, h) <= Room(h)'
  <2>1. /\ Room(h)' = Room(h) /\ Room(h) \in Nat /\ DailyUsage(h) + Count(NoReport, h) <= Room(h)
        /\ book.members[h].used <= Room(h)
    BY <1>1, <1>9, <1>13, RoomKept
  <2> QED BY <1>5, <1>6, <2>1
<1> QED BY <1>1, <1>7, <1>8, <1>9, <1>10, <1>11, <1>12, <1>13, BillingStep

LEMMA AdvanceStep ==
  ASSUME BillInv, AdvanceBilling
  PROVE  BillInv'
<1> USE DEF BillInv
<1> DEFINE kept == {g \in DOMAIN book.members : ~Expired(book.members[g], clock)}
           ms == [g \in kept |-> resetQuota(book.members[g], clock)]
           adv == advanceBilling(book, clock)
           authority == Authority(adv) # Authority(book)
           urev == IF authority THEN book.urev + 1 ELSE book.urev
           next == [adv EXCEPT !.urev = urev]
<1>1. /\ book \in Books /\ DOMAIN book.members \subseteq Grants /\ book.urev \in Nat \ {0} /\ clock \in Int
      /\ \A g \in DOMAIN book.members : book.members[g] \in Membership
  BY BookFacts DEF TypeInv
<1>2. adv = [book EXCEPT !.members = ms]
  BY DEF advanceBilling
<1>3. adv.members = ms /\ adv.urev = book.urev /\ adv.observed = book.observed
  BY <1>1, <1>2 DEF Books
<1>4. /\ Ready
      /\ \/ persistStateAndAccounting(adv) /\ UNCHANGED served
         \/ /\ DOMAIN ms = DOMAIN book.members
            /\ persistBilling(next, NoReport)
            /\ UNCHANGED <<json, txn, up, clock, agent, served>>
  <2> HIDE DEF ms
  <2>1. [adv EXCEPT !.urev = IF authority THEN @ + 1 ELSE @] = next
    BY <1>3
  <2> QED BY <1>3, <2>1 DEF AdvanceBilling
<1>5. ASSUME NEW g \in kept
      PROVE  /\ ms[g] \in Membership /\ Valid(ms[g], clock) /\ ms[g].used <= book.members[g].used
             /\ ms[g].quota = book.members[g].quota /\ ms[g].ends = book.members[g].ends
             /\ ms[g].off = book.members[g].off \/ (book.members[g].off = "quota" /\ ms[g].off = "no")
  <2>1. book.members[g] \in Membership /\ Valid(book.members[g], clock)
    BY <1>1 DEF MemberInv
  <2>2. book.members[g].started <= book.members[g].resets
    BY <2>1 DEF Valid
  <2>3. ms[g] = resetQuota(book.members[g], clock)
    OBVIOUS
  <2> HIDE DEF ms, kept
  <2> QED BY <1>1, <2>1, <2>2, <2>3, ResetFacts
<1>6. ms \in Partial(Membership) /\ DOMAIN ms = kept /\ kept \subseteq DOMAIN book.members
  <2>1. ms \in [kept -> Membership] /\ kept \subseteq Grants
    BY <1>1, <1>5
  <2> QED BY <2>1, PartialBuilt
<1> HIDE DEF ms, kept, adv
<1>7. CASE persistStateAndAccounting(adv) /\ UNCHANGED served
  BY <1>2, <1>4, <1>5, <1>6, <1>7, BeginKept
<1>8. CASE /\ DOMAIN ms = DOMAIN book.members
           /\ persistBilling(next, NoReport)
           /\ UNCHANGED <<json, txn, up, clock, agent, served>>
  <2>1. urev \in Nat \ {0} /\ urev \in {book.urev, book.urev + 1} /\ (urev = book.urev => ~authority)
    BY <1>1
  <2>2. next \in Books /\ next.members = ms /\ next.urev = urev /\ next.observed = book.observed
    <3> HIDE DEF urev
    <3>1. next = [book EXCEPT !.members = ms, !.urev = urev]
      BY <1>1, <1>2 DEF Books
    <3> QED BY <1>1, <1>6, <2>1, <3>1 DEF Books
  <2>3. Authority(next) = Authority(adv)
    BY <1>3, <2>2 DEF Authority
  <2>4. next.urev = book.urev => Authority(next) = Authority(book)
    BY <2>1, <2>2, <2>3
  <2> HIDE DEF next, urev, authority
  <2>5. NoReport \in Partial(Nat)
    BY EmptyPartial DEF NoReport
  <2>6. \A g \in DOMAIN book.members :
             /\ ms[g].quota = book.members[g].quota
             /\ ms[g].ends = book.members[g].ends
             /\ Valid(ms[g], clock)
             /\ book.members[g].off = "expired" => ms[g].off = "expired"
    BY <1>5, <1>6, <1>8
  <2>7. ASSUME ~torn, book' = next, NEW g \in DOMAIN book.members
        PROVE  ms[g].used <= Room(g)' /\ DailyUsage(g) + Count(NoReport, g) <= Room(g)'
    <3>1. /\ Room(g)' = Room(g) /\ Room(g) \in Nat /\ DailyUsage(g) + Count(NoReport, g) <= Room(g)
          /\ book.members[g].used <= Room(g)
      BY <1>8, <2>2, <2>7, RoomKept
    <3>2. ms[g].used <= book.members[g].used /\ ms[g].used \in Int /\ book.members[g].used \in Int
      BY <1>1, <1>5, <1>6, <1>8, BillConstants DEF Membership
    <3> QED BY <3>1, <3>2
  <2> QED BY <1>4, <1>8, <2>1, <2>2, <2>4, <2>5, <2>6, <2>7, BillingStep
<1> QED BY <1>4, <1>7, <1>8

-----------------------------------------------------------------------------
(* Reports.                                                                *)

Added(b, bytes, g) ==
    IF g \in DOMAIN bytes
    THEN [b.members[g] EXCEPT !.used = saturatingAdd(b.members[g].used, bytes[g])] ELSE b.members[g]
Paid(m) == IF m.off = "no" /\ QuotaReached(m) THEN [m EXCEPT !.off = "quota"] ELSE m

LEMMA PaidFacts ==
  ASSUME NEW b \in Books, NEW bytes \in Partial(Nat), NEW g \in DOMAIN b.members, NEW now,
         Valid(b.members[g], now)
  PROVE  LET m == b.members[g]
             n == Paid(Added(b, bytes, g))
         IN  /\ n \in Membership /\ n.quota = m.quota /\ n.ends = m.ends
             /\ n.used <= m.used + Count(bytes, g) /\ Valid(n, now)
             /\ m.off = "expired" => n.off = "expired"
<1> DEFINE m == b.members[g]
           a == Added(b, bytes, g)
           n == Paid(a)
<1>1. m \in Membership /\ m.used \in Nat /\ m.used <= MaxBytes /\ MaxBytes \in Nat
  BY BookFacts, BillConstants DEF Membership
<1>2. Count(bytes, g) \in Nat /\ (g \in DOMAIN bytes => bytes[g] \in Nat /\ Count(bytes, g) = bytes[g])
  BY PartialFacts DEF Count
<1>3. /\ a \in Membership /\ a.quota = m.quota /\ a.ends = m.ends /\ a.off = m.off
      /\ a.started = m.started /\ a.resets = m.resets
      /\ m.used <= a.used /\ a.used <= m.used + Count(bytes, g) /\ a.used \in Nat
  <2>1. CASE g \notin DOMAIN bytes
    BY <1>1, <1>2, <2>1 DEF Added
  <2>2. CASE g \in DOMAIN bytes
    <3> DEFINE u == saturatingAdd(m.used, bytes[g])
    <3>1. u \in 0..MaxBytes /\ u <= m.used + bytes[g] /\ m.used <= u
      BY <1>1, <1>2, <2>2, SaturatingFacts
    <3> HIDE DEF u
    <3>2. a = [m EXCEPT !.used = u]
      BY <2>2 DEF Added, u
    <3>3. /\ a \in Membership /\ a.quota = m.quota /\ a.ends = m.ends /\ a.off = m.off
          /\ a.started = m.started /\ a.resets = m.resets /\ a.used = u
      BY <1>1, <3>1, <3>2 DEF Membership
    <3> QED BY <1>1, <1>2, <2>2, <3>1, <3>3
  <2> QED BY <2>1, <2>2
<1> HIDE DEF a
<1>4. QuotaReached(m) => QuotaReached(a)
  <2>1. m.quota \in Nat
    BY <1>1 DEF Membership
  <2> QED BY <1>1, <1>3, <2>1 DEF QuotaReached
<1>5. /\ n \in Membership /\ n.quota = a.quota /\ n.ends = a.ends /\ n.used = a.used
      /\ n.started = a.started /\ n.resets = a.resets
      /\ n.off = IF a.off = "no" /\ QuotaReached(a) THEN "quota" ELSE a.off
  BY <1>3 DEF Paid, Membership
<1> HIDE DEF n
<1>6. (QuotaReached(n) <=> QuotaReached(a)) /\ (Expired(n, now) <=> Expired(m, now))
  BY <1>3, <1>5 DEF QuotaReached, Expired
<1>7. Valid(n, now)
  BY <1>3, <1>4, <1>5, <1>6 DEF Valid
<1> QED BY <1>3, <1>5, <1>7 DEF n, a

LEMMA ChargedFacts ==
  ASSUME NEW b \in Books, NEW bytes \in Partial(Nat), NEW now,
         \A g \in DOMAIN b.members : Valid(b.members[g], now)
  PROVE  LET n == Charged(b, bytes)
         IN  /\ n \in Books /\ DOMAIN n.members = DOMAIN b.members /\ n.observed = b.observed
             /\ \A g \in DOMAIN b.members :
                    /\ n.members[g].quota = b.members[g].quota
                    /\ n.members[g].ends = b.members[g].ends
                    /\ n.members[g].used <= b.members[g].used + Count(bytes, g)
                    /\ Valid(n.members[g], now)
                    /\ b.members[g].off = "expired" => n.members[g].off = "expired"
             /\ n.urev \in {b.urev, b.urev + 1}
             /\ n.urev = b.urev => Authority(n) = Authority(b)
<1> DEFINE am == [g \in DOMAIN b.members |-> Added(b, bytes, g)]
           ms == [g \in DOMAIN b.members |-> Paid(Added(b, bytes, g))]
           c == [b EXCEPT !.members = ms]
           urev == IF Authority(c) # Authority(b) THEN b.urev + 1 ELSE b.urev
           n == Charged(b, bytes)
<1>1. Add(b, bytes) = [b EXCEPT !.members = am]
  BY Zenon DEF Add, Added
<1>2. Add(b, bytes).members = am /\ [Add(b, bytes) EXCEPT !.members = ms] = c
  <2> HIDE DEF am, ms
  <2> QED BY <1>1 DEF Books
<1>3. [g \in DOMAIN am |-> IF am[g].off = "no" /\ QuotaReached(am[g])
                           THEN [am[g] EXCEPT !.off = "quota"] ELSE am[g]] = ms
  BY DEF Paid
<1>4. n = [c EXCEPT !.urev = IF Authority(c) # Authority(b) THEN @ + 1 ELSE @]
  <2> DEFINE a == Add(b, bytes)
  <2>1. [a EXCEPT !.members = [g \in DOMAIN a.members |->
            IF a.members[g].off = "no" /\ QuotaReached(a.members[g])
            THEN [a.members[g] EXCEPT !.off = "quota"] ELSE a.members[g]]] = c
    <3> HIDE DEF a, am, ms, c
    <3> QED BY <1>2, <1>3 DEF a
  <2> HIDE DEF c
  <2> QED BY <2>1 DEF Charged
<1>5. ms \in Partial(Membership) /\ DOMAIN ms = DOMAIN b.members
  <2>1. \A g \in DOMAIN b.members : Paid(Added(b, bytes, g)) \in Membership
    BY PaidFacts
  <2>2. ms \in [DOMAIN b.members -> Membership] /\ DOMAIN b.members \subseteq Grants
    BY <2>1, BookFacts
  <2> QED BY <2>2, PartialBuilt
<1>6. \A g \in DOMAIN b.members : ms[g] = Paid(Added(b, bytes, g))
  OBVIOUS
<1> HIDE DEF ms, am
<1>7. c \in Books /\ c.members = ms /\ c.urev = b.urev /\ c.observed = b.observed
  BY <1>5 DEF Books
<1>8. b.urev \in Nat \ {0}
  BY BookFacts
<1>9. urev \in Nat \ {0} /\ urev \in {b.urev, b.urev + 1} /\ (urev = b.urev => Authority(c) = Authority(b))
  BY <1>8
<1>10. n = [c EXCEPT !.urev = urev]
  <2> HIDE DEF c, n
  <2> QED BY <1>4, <1>7
<1> HIDE DEF c, n, urev
<1>11. n \in Books /\ n.members = ms /\ n.urev = urev /\ n.observed = b.observed
  BY <1>7, <1>9, <1>10 DEF Books
<1>12. Authority(n) = Authority(c)
  BY <1>7, <1>11 DEF Authority
<1>13. \A g \in DOMAIN b.members :
                    /\ ms[g].quota = b.members[g].quota
                    /\ ms[g].ends = b.members[g].ends
                    /\ ms[g].used <= b.members[g].used + Count(bytes, g)
                    /\ Valid(ms[g], now)
                    /\ b.members[g].off = "expired" => ms[g].off = "expired"
  BY <1>6, PaidFacts
<1> QED BY <1>5, <1>9, <1>11, <1>12, <1>13 DEF n

(* A report that charges what it owes: [seen] are the observations after   *)
(* it, [bytes] what is charged and [day] what is added to the day.         *)
LEMMA ReportStep ==
  ASSUME BillInv, Ready, agent' = [agent EXCEPT !.report = NoReport],
         UNCHANGED <<json, txn, up, clock, served>>,
         NEW seen \in Partial(Bases), NEW bytes \in Partial(Nat), NEW day \in Partial(Nat),
         persistBilling(Charged([book EXCEPT !.observed = seen], bytes), day),
         ~torn /\ book'.observed = seen => \A g \in DOMAIN book.members :
             Count(bytes, g) <= Count(day, g) /\ Room(g) + Count(day, g) <= Room(g)'
  PROVE  BillInv'
<1> USE DEF BillInv
<1> DEFINE b == [book EXCEPT !.observed = seen]
           next == Charged(b, bytes)
<1>1. b \in Books /\ b.members = book.members /\ b.urev = book.urev /\ b.observed = seen
  BY DEF TypeInv, Books
<1>2. \A g \in DOMAIN b.members : Valid(b.members[g], clock)
  BY <1>1 DEF MemberInv
<1> HIDE DEF b
<1>3. /\ next \in Books /\ DOMAIN next.members = DOMAIN b.members /\ next.observed = seen
      /\ \A g \in DOMAIN b.members :
             /\ next.members[g].quota = b.members[g].quota
             /\ next.members[g].ends = b.members[g].ends
             /\ next.members[g].used <= b.members[g].used + Count(bytes, g)
             /\ Valid(next.members[g], clock)
             /\ b.members[g].off = "expired" => next.members[g].off = "expired"
      /\ next.urev \in {b.urev, b.urev + 1}
      /\ next.urev = b.urev => Authority(next) = Authority(b)
  BY <1>1, <1>2, ChargedFacts
<1>4. persistBilling(next, day)
  BY DEF b
<1> HIDE DEF next
<1>5. Authority(b) = Authority(book)
  BY <1>1 DEF Authority
<1>6. ASSUME ~torn, book' = next, NEW g \in DOMAIN book.members
      PROVE  next.members[g].used <= Room(g)' /\ DailyUsage(g) + Count(day, g) <= Room(g)'
  <2>1. g \in Grants /\ book.members[g].used \in Int /\ book.members[g] \in Membership
    BY UsedInt, BookFacts DEF TypeInv
  <2>2. next.members[g].used \in Int
    <3>1. next.members[g] \in Membership
      BY <1>1, <1>3, BookFacts
    <3> QED BY <3>1, BillConstants DEF Membership
  <2>3. Count(bytes, g) <= Count(day, g) /\ Room(g) + Count(day, g) <= Room(g)'
    BY <1>3, <1>6
  <2>4. Count(bytes, g) \in Nat /\ Count(day, g) \in Nat
    BY PartialFacts DEF Count
  <2>5. Room(g) \in Int /\ DailyUsage(g) \in Nat
    BY <2>1, RoomFacts
  <2>6. Room(g)' \in Int
    <3>1. Owed(g)' \in Nat
      <4>1. BaseOf(g)' \in Bases
        <5>1. book'.observed = seen /\ \A h \in DOMAIN seen : seen[h] \in Bases
          BY <1>3, <1>6, PartialFacts
        <5>2. NoBase \in Bases
          BY DEF NoBase, Bases
        <5> QED BY <5>1, <5>2 DEF BaseOf
      <4>2. /\ agent'.counter = agent.counter /\ agent'.report = NoReport /\ DOMAIN NoReport = {}
            /\ agent'.epoch = agent.epoch /\ agent'.totals = agent.totals
        BY DEF TypeInv, NoReport
      <4>3. Count(agent.counter, g) \in Nat /\ agent.epoch \in Int
        BY <2>1, RoomFacts, AgentFacts
      <4>4. Owed(g)' = IF ~agent.totals THEN 0 + Count(agent.counter, g)
                       ELSE counterDelta(BaseOf(g)', agent.epoch, Count(agent.counter, g))
        BY <4>2 DEF Owed, Count
      <4>5. counterDelta(BaseOf(g)', agent.epoch, Count(agent.counter, g)) \in Nat
        BY <4>1, <4>3, DeltaFacts
      <4> QED BY <4>3, <4>4, <4>5
    <3>2. served'[g] \in Int
      BY <2>1 DEF TypeInv
    <3> QED BY <3>1, <3>2 DEF Room
  <2>7. book.members[g].used <= Room(g) /\ DailyUsage(g) <= Room(g)
    BY <1>6, <2>1 DEF UsageInv
  <2>8. next.members[g].used <= book.members[g].used + Count(bytes, g)
    BY <1>1, <1>3
  <2> QED BY <2>1, <2>2, <2>3, <2>4, <2>5, <2>6, <2>7, <2>8
<1> QED BY <1>1, <1>3, <1>4, <1>5, <1>6, BillingStep

LEMMA DeltaReportStep ==
  ASSUME BillInv, ApplyTrafficDeltaReport
  PROVE  BillInv'
<1> USE DEF BillInv
<1> DEFINE bytes == Only(agent.report, DOMAIN book.members)
           seen == [g \in {} |-> NoBase]
<1>1. /\ Ready /\ agent' = [agent EXCEPT !.report = NoReport] /\ ~agent.totals
      /\ UNCHANGED <<json, txn, up, clock, served>>
      /\ persistBilling(Charged([book EXCEPT !.observed = seen], bytes), bytes)
  BY DEF ApplyTrafficDeltaReport, trafficMemberships
<1>2. /\ bytes \in Partial(Nat) /\ DOMAIN bytes = DOMAIN agent.report \cap DOMAIN book.members
      /\ \A g \in DOMAIN agent.report \cap DOMAIN book.members : bytes[g] = agent.report[g]
  BY AgentFacts, OnlyCounts
<1>3. seen \in Partial(Bases)
  BY EmptyPartial
<1> HIDE DEF bytes, seen
<1>4. ASSUME NEW g \in DOMAIN book.members
      PROVE  Count(bytes, g) <= Count(bytes, g) /\ Room(g) + Count(bytes, g) <= Room(g)'
  <2>1. g \in Grants
    BY BookFacts DEF TypeInv
  <2>2. Count(agent.counter, g) \in Nat /\ Count(agent.report, g) \in Nat /\ served[g] \in Int
    BY <2>1, RoomFacts DEF TypeInv
  <2>3. Count(bytes, g) = Count(agent.report, g)
    BY <1>2 DEF Count
  <2>4. /\ agent'.counter = agent.counter /\ agent'.report = NoReport /\ DOMAIN NoReport = {}
        /\ agent'.totals = agent.totals
    BY <1>1 DEF TypeInv, NoReport
  <2>5. Owed(g)' = 0 + Count(agent.counter, g)
    BY <1>1, <2>4 DEF Owed, Count
  <2>6. Owed(g) = Count(agent.report, g) + Count(agent.counter, g)
    BY <1>1 DEF Owed
  <2> QED BY <1>1, <2>2, <2>3, <2>5, <2>6 DEF Room
<1> QED BY <1>1, <1>2, <1>3, <1>4, ReportStep

(* Two bases that differ in their days only count alike.                   *)
LEMMA DeltaAt ==
  ASSUME NEW e, NEW c, NEW x, NEW y, NEW f, NEW n
  PROVE  counterDelta([epoch |-> e, count |-> c, at |-> x], f, n)
           = counterDelta([epoch |-> e, count |-> c, at |-> y], f, n)
BY DEF counterDelta

LEMMA TotalsReportStep ==
  ASSUME BillInv, ApplyTrafficReport
  PROVE  BillInv'
<1> USE DEF BillInv
<1> DEFINE bytes == Only(agent.report, DOMAIN book.members)
           day == [g \in DOMAIN bytes |-> counterDelta(BaseOf(g), agent.from, bytes[g])]
           Inside(g) == IF BaseOf(g).epoch # agent.from THEN {day[g]}
                        ELSE trafficInsideCurrentPeriod(day[g], BaseOf(g).at, clock, book.members[g].started)
           D == (DOMAIN book.observed \cap (DOMAIN agent.report \cup DOMAIN book.members)) \cup DOMAIN bytes
           seen == [g \in D |-> IF g \in DOMAIN bytes
                                THEN [epoch |-> agent.from, count |-> bytes[g], at |-> clock]
                                ELSE book.observed[g]]
<1>1. /\ Ready /\ agent' = [agent EXCEPT !.report = NoReport] /\ agent.totals
      /\ UNCHANGED <<json, txn, up, clock, served>>
  BY DEF ApplyTrafficReport
<1>2. PICK charged \in [DOMAIN bytes -> 0..MaxBytes] :
        /\ \A g \in DOMAIN bytes : charged[g] \in Inside(g)
        /\ persistBilling(Charged([book EXCEPT !.observed = seen], charged), day)
  BY Zenon DEF ApplyTrafficReport, trafficMemberships, BaseOf
<1>3. /\ bytes \in Partial(Nat) /\ DOMAIN bytes = DOMAIN agent.report \cap DOMAIN book.members
      /\ \A g \in DOMAIN agent.report \cap DOMAIN book.members :
             bytes[g] = agent.report[g] /\ bytes[g] \in Nat
      /\ DOMAIN bytes \subseteq Grants
  <2>1. /\ bytes \in Partial(Nat) /\ DOMAIN bytes = DOMAIN agent.report \cap DOMAIN book.members
        /\ \A g \in DOMAIN agent.report \cap DOMAIN book.members : bytes[g] = agent.report[g]
    BY AgentFacts, OnlyCounts
  <2> HIDE DEF bytes
  <2> QED BY <2>1, AgentFacts
<1> HIDE DEF bytes
<1>4. /\ \A g \in Grants : BaseOf(g) \in Bases
      /\ agent.from \in Int /\ agent.epoch \in Int /\ clock \in Int
      /\ \A g \in DOMAIN book.members : book.members[g].started \in Int
  BY RoomFacts, AgentFacts, BookFacts DEF TypeInv, Membership
<1>5. ASSUME NEW g \in DOMAIN bytes
      PROVE  day[g] \in Nat /\ day[g] = counterDelta(BaseOf(g), agent.from, bytes[g])
  <2>1. g \in Grants /\ bytes[g] \in Nat
    BY <1>3
  <2>2. counterDelta(BaseOf(g), agent.from, bytes[g]) \in Nat
    BY <1>4, <2>1, DeltaFacts
  <2> QED BY <2>2
<1>6. day \in Partial(Nat) /\ DOMAIN day = DOMAIN bytes
  <2>1. day \in [DOMAIN bytes -> Nat]
    BY <1>5
  <2> QED BY <1>3, <2>1, PartialBuilt
<1> HIDE DEF day
<1>7. charged \in Partial(Nat) /\ DOMAIN charged = DOMAIN bytes
  <2>1. charged \in [DOMAIN bytes -> Nat]
    BY BillConstants
  <2> QED BY <1>3, <2>1, PartialBuilt
<1>8. seen \in Partial(Bases) /\ DOMAIN seen = D
  <2>1. D \subseteq Grants
    BY <1>3, BookFacts, PartialFacts DEF TypeInv
  <2>2. \A g \in D : seen[g] \in Bases
    <3>1. \A g \in DOMAIN bytes : [epoch |-> agent.from, count |-> bytes[g], at |-> clock] \in Bases
      BY <1>3, <1>4 DEF Bases
    <3>2. \A g \in DOMAIN book.observed : book.observed[g] \in Bases
      BY BookFacts DEF TypeInv
    <3> QED BY <3>1, <3>2
  <2>3. seen \in [D -> Bases]
    BY <2>2
  <2> QED BY <2>1, <2>3, PartialBuilt
<1>9. ASSUME NEW g \in DOMAIN bytes PROVE charged[g] <= day[g] /\ charged[g] \in Nat
  <2>1. charged[g] \in Inside(g) /\ day[g] \in Nat
    BY <1>2, <1>5
  <2> QED BY <2>1 DEF trafficInsideCurrentPeriod
<1>10. ASSUME book'.observed = seen, NEW g \in DOMAIN book.members
       PROVE  Count(charged, g) <= Count(day, g) /\ Room(g) + Count(day, g) <= Room(g)'
  <2> DEFINE n == Count(agent.counter, g)
  <2>1. g \in Grants
    BY BookFacts DEF TypeInv
  <2>2. n \in Nat /\ served[g] \in Int /\ BaseOf(g) \in Bases
    BY <2>1, RoomFacts DEF TypeInv
  <2>3. /\ agent'.counter = agent.counter /\ agent'.report = NoReport /\ DOMAIN NoReport = {}
        /\ agent'.totals = agent.totals /\ agent'.epoch = agent.epoch
    BY <1>1 DEF TypeInv, NoReport
  <2>4. Owed(g)' = counterDelta(BaseOf(g)', agent.epoch, n)
    BY <1>1, <2>3 DEF Owed, Count
  <2> HIDE DEF n
  <2>5. CASE g \in DOMAIN bytes
    <3>1. Count(charged, g) = charged[g] /\ Count(day, g) = day[g]
      BY <1>6, <1>7, <2>5 DEF Count
    <3>2. bytes[g] = agent.report[g] /\ g \in DOMAIN agent.report
      BY <1>3, <2>5
    <3>3. BaseOf(g)' = [epoch |-> agent.from, count |-> agent.report[g], at |-> clock]
      BY <1>8, <1>10, <2>5, <3>2 DEF BaseOf
    <3>4. counterDelta(BaseOf(g)', agent.epoch, n) = counterDelta(Told(g), agent.epoch, n)
      BY <3>3, DeltaAt DEF Told
    <3>5. Owed(g) = day[g] + counterDelta(Told(g), agent.epoch, n)
      BY <1>1, <1>5, <2>5, <3>2 DEF Owed, n
    <3>6. counterDelta(Told(g), agent.epoch, n) \in Nat /\ day[g] \in Nat
      <4>1. Told(g) \in Bases
        BY <2>1, <3>2, RoomFacts
      <4> QED BY <1>4, <1>5, <2>2, <2>5, <4>1, DeltaFacts
    <3>7. served'[g] = served[g]
      BY <1>1
    <3> QED BY <1>9, <2>2, <2>4, <2>5, <3>1, <3>4, <3>5, <3>6, <3>7 DEF Room
  <2>6. CASE g \notin DOMAIN bytes
    <3>1. Count(charged, g) = 0 /\ Count(day, g) = 0 /\ g \notin DOMAIN agent.report
      BY <1>3, <1>6, <1>7, <2>6 DEF Count
    <3>2. BaseOf(g)' = BaseOf(g)
      BY <1>8, <1>10, <2>6 DEF BaseOf
    <3>3. Owed(g) = counterDelta(BaseOf(g), agent.epoch, n)
      BY <1>1, <3>1 DEF Owed, n
    <3>4. Room(g) \in Int
      BY <2>1, RoomFacts
    <3>5. Room(g)' = Room(g)
      BY <1>1, <2>4, <3>2, <3>3 DEF Room
    <3> QED BY <3>1, <3>4, <3>5
  <2> QED BY <2>5, <2>6
<1> HIDE DEF seen
<1> QED BY <1>1, <1>2, <1>6, <1>7, <1>8, <1>10, ReportStep

-----------------------------------------------------------------------------
(* The master stops and starts.                                            *)

LEMMA CrashStep ==
  ASSUME BillInv, CrashMaster
  PROVE  BillInv'
<1> USE DEF BillInv
<1>1. /\ up /\ ~up' /\ txn' = NoTxn /\ agent' = [agent EXCEPT !.report = NoReport]
      /\ enforcer' = [running |-> FALSE, again |-> FALSE, job |-> NoJob]
      /\ UNCHANGED <<book, json, sql, clock, served, torn>> /\ up' = FALSE
  BY DEF CrashMaster
<1>2. /\ agent' \in [urev : Nat, users : SUBSET Grants, counter : Partial(Nat), report : Partial(Nat),
                     from : Nat, epoch : Nat, totals : BOOLEAN]
      /\ agent'.urev = agent.urev /\ agent'.users = agent.users
      /\ agent'.counter = agent.counter /\ DOMAIN agent'.report = {}
  BY <1>1, AgentLosesReport
<1>3. enforcer'.job = NoJob /\ NoJob.urev = 0 /\ NoJob.users = {} /\ NoJob \in Targets /\ ~Pending'
  BY <1>1 DEF NoJob, Targets, Pending
<1>4. TypeInv'
  BY <1>1, <1>2, <1>3 DEF TypeInv
<1>5. MemberInv'
  BY <1>1, <1>3 DEF MemberInv, Valid
<1>6. book.urev \in Nat /\ book.urev > 0
  BY BookFacts DEF TypeInv
<1>7. RevisionInv'
  BY <1>1, <1>2, <1>3, <1>6 DEF RevisionInv
<1>8. FilesInv'
  <2> SUFFICES ASSUME ~torn PROVE Agrees \/ json.urev > book.urev
    BY <1>1 DEF FilesInv, Agrees, NoTxn
  <2>1. CASE txn.phase \in {"none", "prepared"}
    BY <1>1, <2>1 DEF FilesInv
  <2>2. CASE txn.phase \in {"renamed", "uncommitted", "restoring"}
    <3>1. txn.phase \in Phases /\ json = txn.next
      BY <2>2 DEF Phases, FilesInv
    <3> QED BY <1>6, <3>1, TxnFacts
  <2> QED BY <2>1, <2>2 DEF TypeInv, NoTxn, Phases
<1>9. AuthorityInv'
  BY <1>1, <1>2, <1>3, <1>6 DEF AuthorityInv, Similar, Authority
<1>10. GrantInv'
  BY <1>1, <1>2, <1>3 DEF GrantInv, Unheard
<1>11. UsageInv'
  <2> SUFFICES ASSUME ~torn, NEW g \in Grants
               PROVE
        /\ g \in DOMAIN book.members => book.members[g].used <= Room(g)' /\ DailyUsage(g) <= Room(g)'
        /\ g \in DOMAIN json.members =>
              DailyUsage(g) <= Room(g)' /\ (g \in DOMAIN sql.rows \/ json.members[g].used <= Room(g)')
        /\ g \in DOMAIN sql.rows => sql.rows[g].used <= Room(g)'
    BY <1>1, <1>3 DEF UsageInv, DailyUsage
  <2>1. Room(g) \in Int /\ Room(g)' \in Int /\ DailyUsage(g) \in Int /\ Room(g)' >= Room(g)
    BY <1>1, <1>4, RoomFacts, RoomIntNext, ReportLost DEF RoomsAreInt
  <2>2. ASSUME NEW x \in Int, x <= Room(g) PROVE x <= Room(g)'
    BY <2>1, <2>2
  <2> QED BY <2>1, <2>2, UsedInt DEF UsageInv
<1> QED BY <1>4, <1>5, <1>7, <1>8, <1>9, <1>10, <1>11

LEMMA InitializeFacts ==
  ASSUME NEW j \in Books, NEW s \in Ledgers
  PROVE  LET n == initialize(j, s)
         IN  /\ n \in Ledgers /\ n.observed = s.observed /\ n.urev = Larger(s.urev, j.urev)
             /\ DOMAIN n.rows = DOMAIN j.members
             /\ \A g \in DOMAIN j.members :
                    n.rows[g] = IF g \in DOMAIN s.rows THEN s.rows[g] ELSE Row(j.members[g])
             /\ DOMAIN n.daily = DOMAIN s.daily \cap DOMAIN j.members
             /\ \A g \in DOMAIN s.daily \cap DOMAIN j.members : n.daily[g] = s.daily[g]
<1> DEFINE n == initialize(j, s)
           rows == [g \in DOMAIN j.members |-> IF g \in DOMAIN s.rows THEN s.rows[g] ELSE Row(j.members[g])]
           daily == Only(s.daily, DOMAIN j.members)
           urev == Larger(s.urev, j.urev)
<1>1. n = [s EXCEPT !.rows = rows, !.daily = daily, !.urev = urev]
  BY DEF initialize, Ledgers
<1>2. rows \in Partial(Rows) /\ DOMAIN rows = DOMAIN j.members
      /\ \A g \in DOMAIN j.members : rows[g] = IF g \in DOMAIN s.rows THEN s.rows[g] ELSE Row(j.members[g])
  <2>1. \A m \in Membership : Row(m) \in Rows
    BY DEF Row, Membership, Rows
  <2>2. rows \in [DOMAIN j.members -> Rows] /\ DOMAIN j.members \subseteq Grants
    BY <2>1, BookFacts, LedgerFacts
  <2> QED BY <2>2, PartialBuilt
<1>3. /\ daily \in Partial(Nat) /\ DOMAIN daily = DOMAIN s.daily \cap DOMAIN j.members
      /\ \A g \in DOMAIN s.daily \cap DOMAIN j.members : daily[g] = s.daily[g]
  BY LedgerFacts, OnlyCounts
<1>4. urev \in Nat
  BY LedgerFacts, BookFacts DEF Larger
<1> HIDE DEF rows, daily, n
<1>5. n.rows = rows /\ n.daily = daily /\ n.urev = urev /\ n.observed = s.observed /\ n \in Ledgers
  BY <1>1, <1>2, <1>3, <1>4 DEF Ledgers
<1> QED BY <1>2, <1>3, <1>5 DEF n

(* A member is loaded with the row of the ledger, if there is one.         *)
LEMMA LoadedFacts ==
  ASSUME NEW j \in Books, NEW s \in Ledgers, NEW now \in Int, NEW g \in DOMAIN j.members,
         g \in DOMAIN s.rows, s.rows[g].started <= s.rows[g].resets
  PROVE  LET n == Loaded(j, s, now, g)
         IN  /\ n \in Membership /\ Valid(n, now) /\ Row(n) = s.rows[g]
             /\ n.quota = j.members[g].quota /\ n.ends = j.members[g].ends
<1> DEFINE r == s.rows[g]
           m == [j.members[g] EXCEPT !.used = r.used, !.started = r.started, !.resets = r.resets]
<1>1. r \in Rows /\ j.members[g] \in Membership
  BY BookFacts, LedgerFacts
<1>2. /\ m \in Membership /\ m.quota = j.members[g].quota /\ m.ends = j.members[g].ends
      /\ m.used = r.used /\ m.started = r.started /\ m.resets = r.resets
  BY <1>1 DEF Membership, Rows
<1>3. Loaded(j, s, now, g) = recomputeMembershipStatus(m, now)
  BY DEF Loaded
<1> HIDE DEF m
<1> DEFINE n == recomputeMembershipStatus(m, now)
<1>4. /\ n \in Membership /\ n.quota = m.quota /\ n.ends = m.ends /\ n.used = m.used
      /\ n.started = m.started /\ n.resets = m.resets /\ Valid(n, now)
  BY <1>2, RecomputeFacts
<1> HIDE DEF n
<1>5. Row(n) = r
  BY <1>1, <1>2, <1>4 DEF Row, Rows
<1> QED BY <1>2, <1>3, <1>4, <1>5 DEF n

LEMMA OpenStep ==
  ASSUME BillInv, Open
  PROVE  BillInv'
<1> USE DEF BillInv
<1>1. /\ ~up /\ up' = TRUE /\ sql' = initialize(json, sql) /\ book' = loadIntoState(json, sql', clock)
      /\ enforcer' = TriggerDeployment(enforcer)
      /\ UNCHANGED <<json, txn, clock, agent, served, torn>>
  BY DEF Open
<1>2. json \in Books /\ sql \in Ledgers /\ book \in Books /\ clock \in Int
  BY DEF TypeInv
<1>3. txn = NoTxn /\ ~Pending /\ ~Pending' /\ enforcer.job = NoJob
  BY <1>1 DEF RevisionInv, Pending
<1>4. /\ sql' \in Ledgers /\ sql'.observed = sql.observed /\ sql'.urev = Larger(sql.urev, json.urev)
      /\ DOMAIN sql'.rows = DOMAIN json.members
      /\ \A g \in DOMAIN json.members :
             sql'.rows[g] = IF g \in DOMAIN sql.rows THEN sql.rows[g] ELSE Row(json.members[g])
      /\ DOMAIN sql'.daily = DOMAIN sql.daily \cap DOMAIN json.members
      /\ \A g \in DOMAIN sql.daily \cap DOMAIN json.members : sql'.daily[g] = sql.daily[g]
  BY <1>1, <1>2, InitializeFacts
<1>5. \A g \in DOMAIN json.members : sql'.rows[g].started <= sql'.rows[g].resets
  BY <1>4, RowFacts DEF MemberInv
<1> DEFINE ms == [g \in DOMAIN json.members |-> Loaded(json, sql', clock, g)]
<1>6. book' = [members |-> ms, observed |-> sql'.observed, urev |-> Larger(json.urev, sql'.urev)]
  BY <1>1, LoadFacts
<1>7. ASSUME NEW g \in DOMAIN json.members
      PROVE  /\ ms[g] \in Membership /\ Valid(ms[g], clock) /\ Row(ms[g]) = sql'.rows[g]
             /\ ms[g].quota = json.members[g].quota /\ ms[g].ends = json.members[g].ends
             /\ ms[g] = Loaded(json, sql', clock, g)
  <2>1. ms[g] = Loaded(json, sql', clock, g)
    OBVIOUS
  <2> HIDE DEF ms
  <2> QED BY <1>2, <1>4, <1>5, <2>1, LoadedFacts
<1>8. ms \in Partial(Membership) /\ DOMAIN ms = DOMAIN json.members
  <2>1. ms \in [DOMAIN json.members -> Membership] /\ DOMAIN json.members \subseteq Grants
    BY <1>2, <1>7, BookFacts
  <2> QED BY <2>1, PartialBuilt
<1> HIDE DEF ms
<1>9. /\ json.urev \in Nat /\ json.urev > 0 /\ sql.urev \in Nat /\ book.urev \in Nat /\ agent.urev \in Nat
      /\ enforcer.job.urev = 0 /\ enforcer.job.users = {}
  BY <1>2, <1>3, BookFacts, LedgerFacts, AgentFacts DEF NoJob
<1>10. /\ book'.members = ms /\ book'.observed = sql.observed /\ book'.urev = sql'.urev
       /\ book'.urev \in Nat \ {0} /\ book'.urev >= sql.urev /\ book'.urev >= json.urev
  BY <1>4, <1>6, <1>9 DEF Larger
<1>11. enforcer'.job = enforcer.job /\ enforcer' \in [running : BOOLEAN, again : BOOLEAN, job : Targets]
  BY <1>1 DEF TriggerDeployment, TypeInv
<1>12. TypeInv'
  <2>1. book' \in Books
    <3>1. sql'.observed \in Partial(Bases) /\ book' = [members |-> ms, observed |-> sql'.observed, urev |-> book'.urev]
      BY <1>4, <1>6, LedgerFacts
    <3> QED BY <1>8, <1>10, <3>1 DEF Books
  <2> QED BY <1>1, <1>4, <1>11, <2>1 DEF TypeInv
<1>13. MemberInv'
  BY <1>1, <1>3, <1>4, <1>5, <1>7, <1>8, <1>10 DEF MemberInv, Valid
<1>14. RevisionInv'
  BY <1>1, <1>3, <1>9, <1>10, <1>11 DEF RevisionInv
<1>15. FilesInv'
  <2>1. Agrees'
    BY <1>1, <1>4, <1>7, <1>8, <1>10 DEF Agrees
  <2> QED BY <1>1, <1>3, <1>4, <1>10, <2>1 DEF FilesInv, NoTxn
<1>16. AuthorityInv'
  <2> SUFFICES ASSUME ~torn, agent.urev = book'.urev PROVE Similar(agent.users)'
    BY <1>1, <1>9, <1>10, <1>11 DEF AuthorityInv
  <2>1. Agrees /\ agent.urev = book.urev
    BY <1>1, <1>9, <1>10 DEF FilesInv, RevisionInv
  <2>2. Similar(agent.users)
    BY <2>1 DEF AuthorityInv
  <2>3. ASSUME NEW g \in DOMAIN book.members
        PROVE  /\ book.members[g].off = "expired" => ms[g].off = "expired"
               /\ ms[g].off = "expired" \/ (ms[g].off = "no" <=> book.members[g].off = "no")
    <3>1. /\ g \in DOMAIN json.members /\ book.members[g] \in Membership /\ json.members[g] \in Membership
          /\ sql'.rows[g] = Row(book.members[g]) /\ g \in DOMAIN sql'.rows
          /\ json.members[g].quota = book.members[g].quota /\ json.members[g].ends = book.members[g].ends
      BY <1>2, <1>4, <2>1, BookFacts DEF Agrees
    <3>2. ms[g] = recomputeMembershipStatus(book.members[g], clock)
      BY <1>2, <1>7, <3>1, LoadedAs
    <3>3. /\ ms[g].off = "expired" <=> Expired(book.members[g], clock)
          /\ ms[g].off = "no" <=> ~Expired(book.members[g], clock) /\ ~QuotaReached(book.members[g])
      BY <1>2, <3>1, <3>2, RecomputeFacts
    <3>4. Valid(book.members[g], clock) /\ book.members[g].off \in {"no", "quota", "expired"}
      BY <3>1 DEF MemberInv, Membership
    <3> QED BY <3>3, <3>4 DEF Valid
  <2>4. DOMAIN ms = DOMAIN book.members
    BY <1>8, <2>1 DEF Agrees
  <2> QED BY <1>1, <1>10, <2>2, <2>3, <2>4 DEF Similar, Authority
<1>17. GrantInv'
  BY <1>1, <1>3, <1>4, <1>8, <1>10, <1>11 DEF GrantInv, Unheard
<1>18. UsageInv'
  <2> SUFFICES ASSUME ~torn, NEW g \in Grants, g \in DOMAIN json.members
               PROVE  sql'.rows[g].used <= Room(g)' /\ DailyUsage(g)' <= Room(g)'
    <3>1. \A g \in DOMAIN json.members : ms[g].used = sql'.rows[g].used
      BY <1>7, RowFacts
    <3> QED BY <1>1, <1>3, <1>4, <1>8, <1>10, <3>1 DEF UsageInv
  <2>1. book'.observed = book.observed
    BY <1>10 DEF FilesInv
  <2>2. Room(g)' = Room(g) /\ Room(g) \in Int /\ DailyUsage(g) \in Nat
    BY <1>1, <2>1, RoomFrame, RoomFacts
  <2>3. DailyUsage(g)' \in Nat /\ DailyUsage(g)' <= DailyUsage(g)
    BY <1>4, <2>2 DEF DailyUsage
  <2>4. sql'.rows[g].used <= Room(g)
    BY <1>4, RowFacts DEF UsageInv
  <2> QED BY <2>2, <2>3, <2>4 DEF UsageInv
<1> QED BY <1>12, <1>13, <1>14, <1>15, <1>16, <1>17, <1>18

-----------------------------------------------------------------------------
(* The theorem.                                                            *)

LEMMA StutterInv == BillInv /\ UNCHANGED billVars => BillInv'
<1> SUFFICES ASSUME BillInv, UNCHANGED billVars PROVE BillInv'
  OBVIOUS
<1> USE DEF BillInv, billVars
<1>1. TypeInv'
  BY DEF TypeInv
<1>2. \A g \in Grants : Room(g)' = Room(g) /\ Room(g) \in Int
  BY RoomFrame, RoomFacts
<1>3. \A g \in Grants : served'[g] = Ungranted =>
             /\ served[g] = Ungranted
             /\ g \notin DOMAIN agent'.counter /\ g \notin DOMAIN agent'.report
  BY DEF GrantInv, Unheard
<1> QED BY <1>1, <1>2, <1>3, CounterStep

LEMMA NextInv == BillInv /\ [BillNext]_billVars => BillInv'
<1> SUFFICES ASSUME BillInv, [BillNext]_billVars PROVE BillInv'
  OBVIOUS
<1>1. CASE UNCHANGED billVars
  BY <1>1, StutterInv
<1>2. CASE BillNext
  BY <1>2, SyncStep, PersistingStep, AddStep, PlanStep, RemoveStep, ResetTrafficStep, ExtendStep,
     AdvanceStep, TickStep, ServeStep, TrafficStep, LoseReportStep, DeltaReportStep, TotalsReportStep,
     LoseCountersStep, CrashStep, OpenStep
     DEF BillNext
<1> QED BY <1>1, <1>2

(* The accounts stay sound: whichever file write, commit, retry or report  *)
(* fails or is lost, and wherever the master stops between the two files   *)
(* (persistStateAndAccountingLocked, persistChanges, loadIntoState), the   *)
(* revision the Agents know never runs ahead and names one set of users, a *)
(* start brings the book back, and no byte is charged twice.               *)
THEOREM AccountsStaySound == BillSpec => []AccountsAreSound
<1>1. BillInit => BillInv
  BY InitInv
<1>2. BillInv /\ [BillNext]_billVars => BillInv'
  BY NextInv
<1>3. BillInv => AccountsAreSound
  BY InvSound
<1> QED BY <1>1, <1>2, <1>3, PTL DEF BillSpec
=============================================================================
