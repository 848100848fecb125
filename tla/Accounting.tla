------------------------------ MODULE Accounting ------------------------------
(***************************************************************************)
(* Traffic accounting, subscription terms and their enforcement.           *)
(*                                                                         *)
(* The master keeps a book of memberships in memory.  On disk it is split: *)
(* the JSON state holds who is a member under which plan, the SQLite       *)
(* ledger the usage, and both a user revision.  Changes of identity or     *)
(* plan commit in the two, one after the other (store.go,                  *)
(* persistStateAndAccountingLocked); reports and resets commit in the      *)
(* ledger alone (accounting_sql.go, persistChanges); a start puts the book *)
(* together again.  An Agent serves the users it was last told, counts     *)
(* their bytes and reports them, as deltas that are cleared when read or,  *)
(* from an older Agent, as running totals.  The billing enforcer           *)
(* (billing_enforcer.go) advances terms and quota periods and tells the    *)
(* Agent the users that remain.                                            *)
(*                                                                         *)
(* Time is counted in days; a membership is an identity that is never      *)
(* granted twice.  Persisting is split at the points where a crash or a    *)
(* failure of one file leaves the other behind.                            *)
(***************************************************************************)
EXTENDS Integers, FiniteSets

CONSTANTS
    Grants,         \* identities of memberships
    Quotas,         \* MonthlyQuotaBytes, 0 for none
    Terms,          \* subscription lengths, 0 for none
    Period,         \* length of a quota period
    MaxBytes,       \* math.MaxUint64, where usage saturates
    BillBudgets,    \* changes, days, bytes, crashes and faults of a behaviour
    FirstMembers    \* members a behaviour may start with

ASSUME BillConstants ==
    /\ Quotas \subseteq Nat /\ Terms \subseteq Nat /\ Period \in Nat \ {0}
    /\ MaxBytes \in Nat
    /\ BillBudgets \subseteq [changes : Nat, days : Nat, bytes : Nat, crashes : Nat, faults : Nat]
    /\ \A first \in FirstMembers :
        /\ DOMAIN first \subseteq Grants
        /\ first \in [DOMAIN first -> [quota : Nat, ends : Nat, used : {0}, started : {1},
                                       resets : Nat \ {0}, off : {"no"}]]

VARIABLES
    book,       \* Store.state: user revision, members, traffic observations
    json,       \* the state file
    sql,        \* the accounting database
    txn,        \* a change of identity being persisted
    up,         \* the master runs
    clock,
    agent,      \* the Agent: users it serves, counters, a report under way
    enforcer,   \* BillingEnforcer's deployment loop
    served,     \* history: bytes the Agent carried, per membership
    torn,       \* history: a fault left the two files, or file and memory, apart
    allowance   \* what is left of the budget

billVars == <<book, json, sql, txn, up, clock, agent, enforcer, served, torn, allowance>>

Never == 0
Ungranted == -1
NoTxn == [phase |-> "none"]
NoJob == [urev |-> 0, users |-> {}]
NoReport == [g \in {} |-> 0]

-----------------------------------------------------------------------------
(* Memberships.                                                            *)

saturatingAdd(x, y) == IF x + y > MaxBytes THEN MaxBytes ELSE x + y

Expired(m, now) == m.ends # Never /\ now >= m.ends
QuotaReached(m) == m.quota > 0 /\ m.used >= m.quota

recomputeMembershipStatus(m, now) ==
    [m EXCEPT !.off = IF Expired(m, now) THEN "expired"
                      ELSE IF QuotaReached(m) THEN "quota" ELSE "no"]

subscriptionDeadline(now, term) == IF term = 0 THEN Never ELSE now + term

grantMembership(quota, term, now) ==
    [quota |-> quota, ends |-> subscriptionDeadline(now, term), used |-> 0,
     started |-> now, resets |-> now + Period, off |-> "no"]

\* all the quota periods that are over, each from the day after the last
resetQuota(m, today) ==
    IF today <= m.resets THEN m
    ELSE LET k == (today - m.resets + Period - 1) \div Period
         IN [m EXCEPT !.used = 0,
                      !.started = m.resets + (k - 1) * Period + 1,
                      !.resets = m.resets + k * Period,
                      !.off = IF @ = "quota" THEN "no" ELSE @]

\* the users the Agents are to serve
Authority(b) == {g \in DOMAIN b.members : b.members[g].off = "no"}

Only(f, D) == [x \in DOMAIN f \cap D |-> f[x]]

-----------------------------------------------------------------------------
(* The two files.                                                          *)

Row(m) == [used |-> m.used, started |-> m.started, resets |-> m.resets]
Larger(x, y) == IF x > y THEN x ELSE y

\* prepareMembershipReconciliation: one row per member of the book, with the
\* usage of the book; rows of former members go with their days
prepareMembershipReconciliation(s, b) ==
    [s EXCEPT !.rows = [g \in DOMAIN b.members |-> Row(b.members[g])],
              !.daily = Only(@, DOMAIN b.members),
              !.urev = Larger(@, b.urev)]

\* rows that a report or a reset changed, and the bytes of the day
persistChanges(s, before, after, day) ==
    LET Same(g) == g \in DOMAIN before.members /\ Row(before.members[g]) = Row(after.members[g])
        Kept(g) == Same(g) /\ g \in DOMAIN s.rows
        Days == (DOMAIN s.daily \cup DOMAIN day) \cap DOMAIN after.members
        Of(f, g) == IF g \in DOMAIN f THEN f[g] ELSE 0
    IN [rows |-> [g \in DOMAIN after.members |->
                    IF Kept(g) THEN s.rows[g] ELSE Row(after.members[g])],
        daily |-> [g \in Days |-> saturatingAdd(Of(s.daily, g), Of(day, g))],
        observed |-> after.observed,
        urev |-> Larger(s.urev, after.urev)]

\* initialize and loadIntoState: usage from the ledger, standing from usage
\* and the time of the start, the larger of the two revisions
loadIntoState(j, s, now) ==
    LET Loaded(g) ==
            LET m == j.members[g]
                r == IF g \in DOMAIN s.rows THEN s.rows[g] ELSE Row(m)
            IN recomputeMembershipStatus(
                   [m EXCEPT !.used = r.used, !.started = r.started, !.resets = r.resets], now)
    IN [members |-> [g \in DOMAIN j.members |-> Loaded(g)],
        observed |-> s.observed,
        urev |-> Larger(j.urev, s.urev)]

initialize(j, s) ==
    [s EXCEPT !.rows = [g \in DOMAIN j.members |->
                            IF g \in DOMAIN @ THEN @[g] ELSE Row(j.members[g])],
              !.daily = Only(@, DOMAIN j.members),
              !.urev = Larger(@, j.urev)]

-----------------------------------------------------------------------------
(* The enforcer's deployment loop and the user synchronisation it starts.  *)

TriggerDeployment(e) == [e EXCEPT !.running = TRUE, !.again = TRUE]

\* a new target: the book as it is now
StartUserSync ==
    /\ up /\ txn = NoTxn /\ enforcer.running /\ enforcer.job = NoJob
    /\ enforcer' = [enforcer EXCEPT !.again = FALSE,
                        !.job = [urev |-> book.urev, users |-> Authority(book)]]
    /\ UNCHANGED <<book, json, sql, txn, up, clock, agent, served, torn, allowance>>

\* the Agent takes an authority of a later revision, or the one it has
Accepts(job) == \/ job.urev > agent.urev
                \/ job.urev = agent.urev /\ job.users = agent.users

\* mutant: the loop stops although another change was requested
SyncAppliedForgets ==
    /\ enforcer.job # NoJob /\ Accepts(enforcer.job)
    /\ agent' = [agent EXCEPT !.urev = enforcer.job.urev, !.users = enforcer.job.users]
    /\ enforcer' = [running |-> FALSE, again |-> FALSE, job |-> NoJob]
    /\ UNCHANGED <<book, json, sql, txn, up, clock, served, torn, allowance>>

SyncApplied ==
    /\ enforcer.job # NoJob /\ Accepts(enforcer.job)
    /\ agent' = [agent EXCEPT !.urev = enforcer.job.urev, !.users = enforcer.job.users]
    /\ enforcer' = [enforcer EXCEPT !.running = enforcer.again, !.job = NoJob]
    /\ UNCHANGED <<book, json, sql, txn, up, clock, served, torn, allowance>>

\* the Agent refuses, or is not reached: the loop tries again later
SyncDeferred ==
    /\ enforcer.job # NoJob
    /\ enforcer' = [enforcer EXCEPT !.job = NoJob]
    /\ \/ ~Accepts(enforcer.job) /\ UNCHANGED allowance
       \/ allowance.faults > 0 /\ allowance' = [allowance EXCEPT !.faults = @ - 1]
    /\ UNCHANGED <<book, json, sql, txn, up, clock, agent, served, torn>>

-----------------------------------------------------------------------------
(* Persisting a change of identity or plan, under the lock of the store.   *)

Ready == up /\ txn = NoTxn

persistStateAndAccounting(next) ==
    /\ txn' = [phase |-> "prepared", next |-> [next EXCEPT !.urev = @ + 1]]
    /\ UNCHANGED <<book, json, sql, up, clock, agent, enforcer, torn>>

Fault == allowance.faults > 0 /\ allowance' = [allowance EXCEPT !.faults = @ - 1]

persistLocked ==
    /\ txn.phase = "prepared"
    /\ json' = txn.next
    /\ txn' = [txn EXCEPT !.phase = "renamed"]
    /\ UNCHANGED <<book, sql, up, clock, agent, enforcer, served, torn, allowance>>

\* the file is not written, or it is renamed and the directory is not synced:
\* the open transaction is rolled back either way
persistLockedFails ==
    /\ txn.phase = "prepared" /\ Fault
    /\ \E renamed \in BOOLEAN :
        /\ json' = IF renamed THEN txn.next ELSE json
        /\ torn' = (torn \/ renamed)
    /\ txn' = NoTxn
    /\ UNCHANGED <<book, sql, up, clock, agent, enforcer, served>>

\* the ledger commits, at once or at the second attempt
Commit ==
    /\ txn.phase \in {"renamed", "uncommitted"}
    /\ sql' = prepareMembershipReconciliation(sql, txn.next)
    /\ book' = txn.next
    /\ txn' = NoTxn
    /\ enforcer' = TriggerDeployment(enforcer)
    /\ UNCHANGED <<json, up, clock, agent, served, torn, allowance>>

CommitFails ==
    /\ txn.phase = "renamed" /\ Fault
    /\ txn' = [txn EXCEPT !.phase = "uncommitted"]
    /\ UNCHANGED <<book, json, sql, up, clock, agent, enforcer, served, torn>>

\* the second attempt fails too, before or after its commit
RetryFails ==
    /\ txn.phase = "uncommitted" /\ Fault
    /\ sql' \in {sql, prepareMembershipReconciliation(sql, txn.next)}
    /\ txn' = [txn EXCEPT !.phase = "restoring"]
    /\ UNCHANGED <<book, json, up, clock, agent, enforcer, served, torn>>

\* mutant: the state file is left as it is
RestoreStateSkipsFile ==
    /\ txn.phase = "restoring"
    /\ sql' = prepareMembershipReconciliation(sql, book)
    /\ txn' = NoTxn
    /\ UNCHANGED <<book, json, up, clock, agent, enforcer, served, torn, allowance>>

RestoreState ==
    /\ txn.phase = "restoring"
    /\ json' = book
    /\ sql' = prepareMembershipReconciliation(sql, book)
    /\ txn' = NoTxn
    /\ UNCHANGED <<book, up, clock, agent, enforcer, served, torn, allowance>>

RestoreStateFails ==
    /\ txn.phase = "restoring" /\ Fault
    /\ txn' = NoTxn /\ torn' = TRUE
    /\ UNCHANGED <<book, json, sql, up, clock, agent, enforcer, served>>

Persisting ==
    \/ persistLocked \/ persistLockedFails
    \/ Commit \/ CommitFails
    \/ RetryFails
    \/ RestoreState \/ RestoreStateFails

\* a change of usage commits in the ledger alone; its files may turn out to
\* be unsafe after the commit
persistBilling(next, day) ==
    \/ /\ sql' = persistChanges(sql, book, next, day)
       /\ book' = next
       /\ enforcer' = IF next.urev # book.urev THEN TriggerDeployment(enforcer) ELSE enforcer
       /\ UNCHANGED <<torn, allowance>>
    \/ /\ Fault
       /\ \/ UNCHANGED <<sql, torn>>
          \/ sql' = persistChanges(sql, book, next, day) /\ torn' = TRUE
       /\ UNCHANGED <<book, enforcer>>

-----------------------------------------------------------------------------
(* Plans: handlers of the administrator.                                   *)

Change == allowance.changes > 0 /\ allowance' = [allowance EXCEPT !.changes = @ - 1]

addUserProxyAccess(g, quota, term) ==
    /\ Ready /\ Change
    /\ served[g] = Ungranted /\ served' = [served EXCEPT ![g] = 0]
    /\ persistStateAndAccounting([book EXCEPT !.members =
           [h \in DOMAIN @ \cup {g} |-> IF h = g THEN grantMembership(quota, term, clock) ELSE @[h]]])

removeUserProxyAccess(g) ==
    /\ Ready /\ Change
    /\ g \in DOMAIN book.members
    /\ persistStateAndAccounting([book EXCEPT !.members = Only(@, Grants \ {g})])
    /\ UNCHANGED served

Unexpired(g) == g \in DOMAIN book.members /\ ~Expired(book.members[g], clock)

UpdateMembershipPlan(g, quota, term) ==
    /\ Ready /\ Change
    /\ Unexpired(g)
    /\ persistStateAndAccounting([book EXCEPT !.members[g] = recomputeMembershipStatus(
           [@ EXCEPT !.quota = quota, !.ends = subscriptionDeadline(clock, term)], clock)])
    /\ UNCHANGED served

\* one membership or a selection of a node, all of them or none
ExtendProxyNodeSubscriptions(G, term) ==
    /\ Ready /\ Change
    /\ G # {} /\ \A g \in G : Unexpired(g) /\ book.members[g].ends # Never
    /\ LET m(g) == book.members[g]
       IN persistStateAndAccounting([book EXCEPT !.members = [g \in DOMAIN @ |->
              IF g \notin G THEN m(g)
              ELSE recomputeMembershipStatus([m(g) EXCEPT !.ends = m(g).ends + term], clock)]])
    /\ UNCHANGED served

\* the handler first has the Agent report, which is a step of its own: more
\* bytes may be counted before the usage is set to zero
ResetMembershipTraffic(g) ==
    /\ Ready /\ allowance.changes > 0
    /\ g \in DOMAIN book.members
    /\ LET m == recomputeMembershipStatus([book.members[g] EXCEPT !.used = 0], clock)
           changed == m.off # book.members[g].off
           next == [book EXCEPT !.members[g] = m, !.urev = IF changed THEN @ + 1 ELSE @]
       IN /\ next # book
          /\ persistBilling(next, NoReport)
    /\ UNCHANGED <<json, txn, up, clock, agent, served>>

-----------------------------------------------------------------------------
(* The calendar.                                                           *)

\* expired members leave, then quota periods start anew
advanceBilling(b, now) ==
    LET kept == {g \in DOMAIN b.members : ~Expired(b.members[g], now)}
    IN [b EXCEPT !.members = [g \in kept |-> resetQuota(b.members[g], now)]]

AdvanceBilling ==
    LET next == advanceBilling(book, clock)
        identity == DOMAIN next.members # DOMAIN book.members
        authority == Authority(next) # Authority(book)
    IN /\ Ready /\ next # book
       /\ \/ /\ identity
             /\ persistStateAndAccounting(next)
             /\ UNCHANGED <<served, allowance>>
          \/ /\ ~identity
             /\ persistBilling([next EXCEPT !.urev = IF authority THEN @ + 1 ELSE @], NoReport)
             /\ UNCHANGED <<json, txn, up, clock, agent, served>>

Tick ==
    /\ allowance.days > 0 /\ allowance' = [allowance EXCEPT !.days = @ - 1]
    /\ clock' = clock + 1
    /\ UNCHANGED <<book, json, sql, txn, up, agent, enforcer, served, torn>>

-----------------------------------------------------------------------------
(* Traffic.  A report under way is a function from members to bytes.       *)

Serve(g) ==
    /\ g \in agent.users
    /\ allowance.bytes > 0 /\ allowance' = [allowance EXCEPT !.bytes = @ - 1]
    /\ served' = [served EXCEPT ![g] = @ + 1]
    /\ agent' = [agent EXCEPT !.counter = [h \in DOMAIN @ \cup {g} |->
                    (IF h \in DOMAIN @ THEN @[h] ELSE 0) + (IF h = g THEN 1 ELSE 0)]]
    /\ UNCHANGED <<book, json, sql, txn, up, clock, enforcer, torn>>

\* the Agent reads the counters of the users it serves; reading clears all of
\* them unless they are totals
ManagedUserTraffic ==
    /\ agent.report = NoReport /\ agent.counter # NoReport /\ agent.users # {}
    /\ agent' = [agent EXCEPT !.report = Only(agent.counter, agent.users), !.from = agent.epoch,
                              !.counter = IF agent.totals THEN @ ELSE NoReport]
    /\ UNCHANGED <<book, json, sql, txn, up, clock, enforcer, served, torn, allowance>>

\* the session ends, or sing-box (with a new epoch the Agent too) restarts
LoseReport ==
    /\ agent.report # NoReport
    /\ agent' = [agent EXCEPT !.report = NoReport]
    /\ UNCHANGED <<book, json, sql, txn, up, clock, enforcer, served, torn, allowance>>

LoseCounters(restart) ==
    /\ agent.counter # NoReport /\ allowance.crashes > 0
    /\ allowance' = [allowance EXCEPT !.crashes = @ - 1]
    /\ agent' = [agent EXCEPT !.counter = NoReport, !.epoch = @ + IF restart THEN 1 ELSE 0]
    /\ UNCHANGED <<book, json, sql, txn, up, clock, enforcer, served, torn>>

Add(b, bytes) ==
    LET m(g) == b.members[g]
    IN [b EXCEPT !.members = [g \in DOMAIN @ |->
           IF g \in DOMAIN bytes THEN [m(g) EXCEPT !.used = saturatingAdd(m(g).used, bytes[g])] ELSE m(g)]]

\* usage is added and a quota that is reached ends the access
Charged(b, bytes) ==
    LET added == Add(b, bytes)
        next == [added EXCEPT !.members = [g \in DOMAIN @ |->
            IF @[g].off = "no" /\ QuotaReached(@[g]) THEN [@[g] EXCEPT !.off = "quota"] ELSE @[g]]]
    IN [next EXCEPT !.urev = IF Authority(next) # Authority(b) THEN @ + 1 ELSE @]

\* a total of the same epoch counts from the last one, unless it shrank
counterDelta(base, epoch, count) ==
    IF base.epoch = epoch /\ count >= base.count THEN count - base.count ELSE count

\* what of an interval that began in an earlier quota period is charged to
\* this one is pro-rated: any part of it, or none before the period begins
trafficInsideCurrentPeriod(n, since, now, started) ==
    IF since >= started THEN {n} ELSE IF now <= started THEN {0} ELSE 0..n

\* the members a report names under their current path and name; the rest of
\* it belongs to memberships that are gone
trafficMemberships(report) == Only(report, DOMAIN book.members)

NoBase == [epoch |-> -1, count |-> 0, at |-> 0]

ApplyTrafficDeltaReport ==
    /\ Ready /\ ~agent.totals /\ agent.report # NoReport
    /\ agent' = [agent EXCEPT !.report = NoReport]
    /\ LET bytes == trafficMemberships(agent.report)
           next == Charged([book EXCEPT !.observed = [g \in {} |-> NoBase]], bytes)
       IN persistBilling(next, bytes)
    /\ UNCHANGED <<json, txn, up, clock, served>>

ApplyTrafficReport ==
    /\ Ready /\ agent.totals /\ agent.report # NoReport
    /\ agent' = [agent EXCEPT !.report = NoReport]
    /\ LET bytes == trafficMemberships(agent.report)
           Base(g) == IF g \in DOMAIN book.observed THEN book.observed[g] ELSE NoBase
           day == [g \in DOMAIN bytes |-> counterDelta(Base(g), agent.from, bytes[g])]
           Inside(g) == IF Base(g).epoch # agent.from THEN {day[g]}
                        ELSE trafficInsideCurrentPeriod(day[g], Base(g).at, clock, book.members[g].started)
           seen == [g \in (DOMAIN book.observed \cap (DOMAIN agent.report \cup DOMAIN book.members))
                              \cup DOMAIN bytes |->
                        IF g \in DOMAIN bytes
                        THEN [epoch |-> agent.from, count |-> bytes[g], at |-> clock]
                        ELSE book.observed[g]]
       IN \E charged \in [DOMAIN bytes -> 0..MaxBytes] :
            /\ \A g \in DOMAIN bytes : charged[g] \in Inside(g)
            /\ persistBilling(Charged([book EXCEPT !.observed = seen], charged), day)
    /\ UNCHANGED <<json, txn, up, clock, served>>

-----------------------------------------------------------------------------
(* The master stops anywhere and starts again; main starts the enforcer.   *)

CrashMaster ==
    /\ up /\ allowance.crashes > 0
    /\ allowance' = [allowance EXCEPT !.crashes = @ - 1]
    /\ up' = FALSE /\ txn' = NoTxn
    /\ enforcer' = [running |-> FALSE, again |-> FALSE, job |-> NoJob]
    /\ agent' = [agent EXCEPT !.report = NoReport]
    /\ UNCHANGED <<book, json, sql, clock, served, torn>>

Open ==
    /\ ~up
    /\ up' = TRUE
    /\ sql' = initialize(json, sql)
    /\ book' = loadIntoState(json, sql', clock)
    /\ enforcer' = TriggerDeployment(enforcer)
    /\ UNCHANGED <<json, txn, clock, agent, served, torn, allowance>>

-----------------------------------------------------------------------------

BillInit ==
    /\ clock = 1
    /\ \E members \in FirstMembers, totals \in BOOLEAN :
        /\ book = [urev |-> 1, members |-> members, observed |-> [g \in {} |-> NoBase]]
        /\ agent = [urev |-> 1, users |-> Authority(book), counter |-> NoReport,
                    report |-> NoReport, from |-> 0, epoch |-> 0, totals |-> totals]
    /\ json = book
    /\ sql = [urev |-> 1, rows |-> [g \in DOMAIN book.members |-> Row(book.members[g])],
              daily |-> [g \in {} |-> 0], observed |-> book.observed]
    /\ txn = NoTxn /\ up = TRUE
    /\ enforcer = [running |-> FALSE, again |-> FALSE, job |-> NoJob]
    /\ served = [g \in Grants |-> IF g \in DOMAIN book.members THEN 0 ELSE Ungranted]
    /\ torn = FALSE
    /\ allowance \in BillBudgets

BillNext ==
    \/ StartUserSync \/ SyncApplied \/ SyncDeferred
    \/ Persisting
    \/ \E g \in Grants, quota \in Quotas, term \in Terms :
        \/ addUserProxyAccess(g, quota, term)
        \/ UpdateMembershipPlan(g, quota, term)
    \/ \E g \in Grants : removeUserProxyAccess(g) \/ ResetMembershipTraffic(g)
    \/ \E G \in SUBSET Grants, term \in Terms \ {0} : ExtendProxyNodeSubscriptions(G, term)
    \/ AdvanceBilling
    \/ Tick
    \/ \E g \in Grants : Serve(g)
    \/ ManagedUserTraffic \/ LoseReport \/ ApplyTrafficDeltaReport \/ ApplyTrafficReport
    \/ \E restart \in BOOLEAN : LoseCounters(restart)
    \/ CrashMaster \/ Open

\* The loops of the enforcer and of the calendar, the persisting of a change
\* and the service manager of the master go on; users, time, traffic, faults
\* and crashes are free.
BillFairness ==
    /\ WF_billVars(StartUserSync)
    /\ WF_billVars(SyncApplied) /\ WF_billVars(SyncDeferred)
    /\ WF_billVars(Persisting)
    /\ WF_billVars(AdvanceBilling) /\ WF_billVars(Open)

BillSpec == BillInit /\ [][BillNext]_billVars /\ BillFairness

-----------------------------------------------------------------------------
(* Properties.                                                             *)

Standing(m) == m.used \in 0..MaxBytes /\ m.off \in {"no", "quota", "expired"} /\ m.started <= m.resets

\* Type invariant: the book is well formed, a quota that is reached has ended
\* the access, and only a start may find a member expired in place.
BillTypeOK ==
    /\ \A g \in DOMAIN book.members :
        LET m == book.members[g]
        IN g \in Grants /\ Standing(m) /\ (m.off = "no" => ~QuotaReached(m))
    /\ DOMAIN sql.daily \subseteq DOMAIN sql.rows
    /\ txn.phase \in {"none", "prepared", "renamed", "uncommitted", "restoring"}
    /\ agent.users \subseteq Grants

\* The user revision never falls behind one an Agent was told, through crashes
\* between the two files and changes that only the ledger recorded.
RevisionsNeverRegress ==
    up => agent.urev <= book.urev /\ enforcer.job.urev <= book.urev

\* One user revision stands for one set of users: what the Agent holds under
\* the revision of the book differs from the book at most by members a start
\* found expired, which AdvanceBilling removes under a new revision.
RevisionNamesAuthority ==
    up /\ ~torn /\ agent.urev = book.urev =>
        \A g \in Grants :
            (g \in agent.users) # (g \in Authority(book))
                => g \in DOMAIN book.members /\ book.members[g].off = "expired"

Reloaded == loadIntoState(json, initialize(json, sql), clock)

Reproduced ==
    /\ Reloaded.members = [g \in DOMAIN book.members |->
                               recomputeMembershipStatus(book.members[g], clock)]
    /\ Reloaded.observed = book.observed
    /\ Reloaded.urev >= book.urev

\* Between operations a restart would bring back exactly the book in memory,
\* whichever write, commit, retry or report failed before.
RestartReproducesBook == up /\ txn = NoTxn /\ ~torn => Reproduced

DailyUsage(g) == IF g \in DOMAIN sql.daily THEN sql.daily[g] ELSE 0

\* Nothing is charged twice: neither the usage of a period nor that of the days
\* recorded is more than what the Agent carried; lost reports, restarts of
\* either side, totals and deltas included.
UsageCountedOnce ==
    ~torn => \A g \in DOMAIN book.members :
        book.members[g].used <= served[g] /\ DailyUsage(g) <= served[g]

\* The accounts are sound: all of the above, through every crash, failed write,
\* retry and lost or repeated report (persistChanges, RestoreState, Record).
AccountsAreSound ==
    /\ BillTypeOK
    /\ RevisionsNeverRegress
    /\ RevisionNamesAuthority
    /\ RestartReproducesBook
    /\ UsageCountedOnce

Entitled(g) == g \in DOMAIN book.members /\ ~Expired(book.members[g], clock)
                   /\ ~QuotaReached(book.members[g])

\* A membership that was removed, has expired or has used up its quota is in
\* the end no longer served, unless it is entitled again.
RevocationReachesAgent ==
    []<>(torn \/ \A g \in agent.users : up => Entitled(g))

\* store.go:1643: a change that was reported as failed has changed neither
\* file, so a restart does not bring it back.
FailedChangeIsForgotten == up /\ txn = NoTxn => Reproduced

\* store.go:1666-1676: what is charged in a period is in its days; a removal
\* that committed and was then undone has taken the days with it.
UsageIsInDays ==
    up /\ txn = NoTxn /\ ~torn =>
        \A g \in DOMAIN book.members : book.members[g].used <= DailyUsage(g)
=============================================================================
