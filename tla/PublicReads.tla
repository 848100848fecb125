------------------------------ MODULE PublicReads ------------------------------
(***************************************************************************)
(* What the Master serves to clients: configuration subscriptions, the     *)
(* rule sets they refer to, and the names of rule sets in the editor.      *)
(*                                                                         *)
(* A subscription (webui/subscriptions.go) is found by its link and        *)
(* rendered from a projection of the store through a cache of contents     *)
(* (webui/subscription_cache.go).  A rule set is fetched upstream through  *)
(* a second cache that joins concurrent misses, limits the fetches and     *)
(* falls back on what it has.  The catalog of names (webui/rulesets.go) is *)
(* kept in memory and in a file and refreshed in the background.           *)
(*                                                                         *)
(* One end user with one Membership stands for all; links and credentials  *)
(* are counted, for none is issued twice.  Time is counted in steps of ten *)
(* minutes, longer than any request or fetch lasts.                        *)
(***************************************************************************)
EXTENDS Integers, Sequences, FiniteSets, Functions

CONSTANTS
    Readers,            \* concurrent requests of clients
    Formats,            \* clash, surge, sing-box
    RuleIDs,            \* subscription rules
    RuleSets,           \* names of rule sets upstream
    RenderedEntries, RenderedBytes,     \* limits of the cache of subscriptions
    RuleSetEntries, RuleSetBytes,       \* limits of the cache of rule sets
    FetchSlots,         \* fetches at a time
    FreshFound, FreshMissing, StaleFor, \* how long an answer of upstream is used
    CatalogTTL,
    ReadBudgets         \* how often each kind of event may happen, and whether the catalog is used

Events == {"subscriptions", "rules", "links", "standings", "policies", "removals", "ticks", "faults", "restarts"}

ASSUME ReadConstants ==
    /\ RenderedEntries \in Nat /\ RenderedBytes \in Nat /\ CatalogTTL \in Nat
    /\ FreshMissing \in Nat /\ FreshFound \in Nat /\ StaleFor \in Nat
    /\ FreshMissing < FreshFound /\ FreshFound < StaleFor
    /\ \A b \in ReadBudgets : b.left \in [Events -> Nat] /\ b.names \in BOOLEAN

VARIABLES
    account,    \* the end user: link, credential, standing
    policy,     \* the rules of all subscriptions, in the order they are stored
    published,  \* history: every profile the store has described, in order
    rendered,   \* renderedSubscriptionCache
    fetched,    \* ruleSetCache: entries and total
    leading,    \* ruleSetCache.inflight: the request that fetches
    readers,    \* the requests
    catalog,    \* RuleSetCatalog and its file
    refreshers, \* the goroutines in RuleSetCatalog.refresh
    time,
    readBudget

readVars == <<account, policy, published, rendered, fetched, leading, readers, catalog, refreshers, time, readBudget>>
subscribed == <<account, policy, published>>
ruleSide == <<fetched, leading>>
catalogSide == <<catalog, refreshers>>

Happens(kind) == readBudget.left[kind] > 0 /\ readBudget' = [readBudget EXCEPT !.left[kind] = @ - 1]

-----------------------------------------------------------------------------
(* The policy: rules in the order of the slice, each with its Order.  The   *)
(* orders of a valid policy are 0, 1, ..., so sorting puts every rule in the *)
(* place its order says.                                                   *)

reorderSubscriptionRules(rules) == [i \in DOMAIN rules |-> [rules[i] EXCEPT !.order = i - 1]]
InOrder(rules) == [i \in DOMAIN rules |-> rules[CHOOSE j \in DOMAIN rules : rules[j].order = i - 1]]
validateSubscriptionPolicy(rules) ==
    /\ {rules[i].order : i \in DOMAIN rules} = 0 .. Len(rules) - 1
    /\ Cardinality({rules[i].id : i \in DOMAIN rules}) = Len(rules)
At(rules, id) == CHOOSE i \in DOMAIN rules : rules[i].id = id
HasRule(id) == \E i \in DOMAIN policy : policy[i].id = id
Dropped(rules, i) == SubSeq(rules, 1, i - 1) \o SubSeq(rules, i + 1, Len(rules))
Swapped(rules, i, j) == [rules EXCEPT ![i] = rules[j], ![j] = rules[i]]

(* The profile of the projection: the credential unless the Membership has *)
(* expired, and the rules.                                                 *)
membershipVisibleInSubscription(standing) == standing \in {"enabled", "quota"}
SubscriptionProjection(acc, rules) ==
    [secret |-> IF membershipVisibleInSubscription(acc.standing) THEN acc.secret ELSE 0, rules |-> rules]
Render(format, profile) == <<format, [profile EXCEPT !.rules = InOrder(@)]>>

(* mutateUser: one locked change of the state, validated before it is      *)
(* kept.                                                                   *)
mutateUser(acc, rules) ==
    /\ account.present
    /\ validateSubscriptionPolicy(rules)
    /\ account' = acc /\ policy' = rules
    /\ published' = LET now == SubscriptionProjection(acc, rules)
                    IN  IF now = published[Len(published)] THEN published ELSE Append(published, now)
    /\ UNCHANGED <<rendered, ruleSide, readers, catalogSide, time>>

NewLink(acc) == [acc EXCEPT !.link = acc.issued + 1, !.issued = @ + 1]
RotateUserSubscription == Happens("links") /\ mutateUser(NewLink(account), policy)
ResetUserSubscriptionAndCredentials ==
    Happens("links") /\ mutateUser([NewLink(account) EXCEPT !.secret = @ + 1], policy)
RevokeUserSubscription ==
    account.link # 0 /\ Happens("links") /\ mutateUser([account EXCEPT !.link = 0], policy)
DeleteUser == Happens("removals") /\ mutateUser([account EXCEPT !.present = FALSE, !.link = 0], policy)
SettleMembership(standing) ==
    /\ standing # account.standing
    /\ Happens("standings") /\ mutateUser([account EXCEPT !.standing = standing], policy)

AddSubscriptionRule(id) ==
    /\ ~HasRule(id)
    /\ Happens("policies") /\ mutateUser(account, Append(policy, [id |-> id, order |-> Len(policy), action |-> "proxy"]))
UpdateSubscriptionRule(id) ==
    /\ HasRule(id)
    /\ Happens("policies") /\ mutateUser(account, [policy EXCEPT ![At(policy, id)].action = "direct"])
DeleteSubscriptionRule(id) ==
    /\ HasRule(id)
    /\ Happens("policies")
    /\ mutateUser(account, reorderSubscriptionRules(Dropped(policy, At(policy, id))))
(* Mutant: the rules are swapped and keep their places.                    *)
MoveWithoutOrder(id, direction) ==
    LET rules == InOrder(policy)
        to == At(rules, id) + direction
    IN  /\ HasRule(id) /\ to \in DOMAIN rules
        /\ Happens("policies") /\ mutateUser(account, Swapped(rules, At(rules, id), to))
MoveSubscriptionRule(id, direction) ==
    LET rules == InOrder(policy)
        to == At(rules, id) + direction
    IN  /\ HasRule(id) /\ to \in DOMAIN rules
        /\ Happens("policies") /\ mutateUser(account, reorderSubscriptionRules(Swapped(rules, At(rules, id), to)))
ReorderSubscriptionRules(order) ==
    /\ Happens("policies")
    /\ mutateUser(account, reorderSubscriptionRules([i \in DOMAIN order |-> policy[order[i]]]))

-----------------------------------------------------------------------------
(* Both caches evict the least recently used entries, the new one last,    *)
(* until the counted limits hold or nothing is left.  A content counts as  *)
(* one unit of bytes, the answer that there is none as nothing.            *)

Put(entries, key, entry) == [k \in DOMAIN entries \cup {key} |-> IF k = key THEN entry ELSE entries[k]]
Weight(entries, keys) == Cardinality({k \in keys : entries[k].bytes = 1})
Held(cache) == Weight(cache.entries, DOMAIN cache.entries)
Without(cache, keys) ==
    [entries |-> Restrict(cache.entries, DOMAIN cache.entries \ keys),
     total |-> cache.total - Weight(cache.entries, keys)]
Fits(cache, most, bytes) == Cardinality(DOMAIN cache.entries) <= most /\ cache.total <= bytes
Evictions(cache, key, most, bytes) ==
    LET all == DOMAIN cache.entries
        Before(a, b) == b = key \/ (a # key /\ cache.entries[a].usedAt <= cache.entries[b].usedAt)
        Enough(gone) == gone = all \/ Fits(Without(cache, gone), most, bytes)
        Last(gone) == {d \in gone : \A e \in gone : Before(e, d)}
    IN  {Without(cache, gone) : gone \in
            {gone \in SUBSET all :
                /\ Enough(gone)
                /\ \A d \in gone, e \in all \ gone : Before(d, e)
                /\ gone = {} \/ \E d \in Last(gone) : ~Enough(gone \ {d})}}

Touched(cache, key) == [cache EXCEPT !.entries[key].usedAt = time]
With(cache, key, entry) == [cache EXCEPT !.entries = Put(@, key, entry), !.total = @ + entry.bytes]

-----------------------------------------------------------------------------
(* A subscription is asked for: link, projection, cache, rendering, cache. *)

NoReader == [stage |-> "none"]
NoProfile == [secret |-> 0, rules |-> <<>>]
Answered(ask, content) ==
    [stage |-> "answered", content |-> content, ask |->
        IF ask.kind = "rules" THEN [kind |-> "rules", at |-> ask.at]
        ELSE [kind |-> "subscription", format |-> ask.format, link |-> ask.link, secret |-> ask.secret, since |-> ask.since]]
Answer(r, content) == readers' = [readers EXCEPT ![r] = Answered(@, content)]

UserBySubscriptionToken(r, format) ==
    /\ readers[r].stage = "none" /\ account.link # 0
    /\ Happens("subscriptions")
    /\ readers' = [readers EXCEPT ![r] = [stage |-> "found", kind |-> "subscription", format |-> format,
                                          link |-> account.link, secret |-> account.secret, since |-> Len(published),
                                          profile |-> NoProfile]]
    /\ UNCHANGED <<subscribed, rendered, ruleSide, catalogSide, time>>

subscriptionViewAndProfile(r) ==
    /\ readers[r].stage = "found"
    /\ IF account.present
       THEN readers' = [readers EXCEPT ![r].stage = "profile",
                                       ![r].profile = SubscriptionProjection(account, policy)]
       ELSE readers' = [readers EXCEPT ![r] = NoReader]
    /\ UNCHANGED <<subscribed, rendered, ruleSide, catalogSide, time, readBudget>>

(* Mutant: contents are cached by the link they are asked for.             *)
KeyOfLink(ask) == <<ask.format, ask.link>>
KeyOf(ask) == <<ask.format, ask.profile>>

render(r) ==
    LET key == KeyOf(readers[r])
    IN  /\ readers[r].stage = "profile"
        /\ IF key \in DOMAIN rendered.entries
           THEN rendered' = Touched(rendered, key) /\ Answer(r, rendered.entries[key].content)
           ELSE readers' = [readers EXCEPT ![r].stage = "rendered"] /\ UNCHANGED rendered
        /\ UNCHANGED <<subscribed, ruleSide, catalogSide, time, readBudget>>

(* The content is put in the cache and its bytes are added, also when      *)
(* another request has put it there meanwhile.                             *)
storeRendered(r) ==
    LET content == Render(readers[r].format, readers[r].profile)
        entry == [content |-> content, bytes |-> 1, usedAt |-> time]
        key == KeyOf(readers[r])
    IN  /\ readers[r].stage = "rendered"
        /\ rendered' \in Evictions(With(rendered, key, entry), key, RenderedEntries, RenderedBytes)
        /\ Answer(r, content)
        /\ UNCHANGED <<subscribed, ruleSide, catalogSide, time, readBudget>>

-----------------------------------------------------------------------------
(* A rule set is asked for; everything is measured from the time of the    *)
(* request.                                                                *)

NoEntry == [status |-> "none", bytes |-> 0, from |-> 0, at |-> 0, usedAt |-> 0]
Failure == [status |-> "error", from |-> 0]
FreshFor(status) == IF status = "found" THEN FreshFound ELSE FreshMissing

Contents(entry) == [status |-> entry.status, from |-> entry.from]
Stale(entry) == entry = NoEntry \/ time >= entry.at + FreshFor(entry.status)
Request(k, stage, entry) ==
    [stage |-> stage, kind |-> "rules", key |-> k, at |-> time, seen |-> entry, result |-> Failure]

(* The request and the first look of ruleSetCache.get: a fresh entry, a    *)
(* fetch to join, or a fetch of its own.                                   *)
publicSurgeRuleSet(r, k) ==
    LET entry == IF k \in DOMAIN fetched.entries THEN fetched.entries[k] ELSE NoEntry
    IN  /\ readers[r].stage = "none" /\ Happens("rules")
        /\ \/ /\ ~Stale(entry)
              /\ fetched' = Touched(fetched, k)
              /\ readers' = [readers EXCEPT ![r] = Answered(Request(k, "asked", entry), Contents(entry))]
              /\ UNCHANGED leading
           \/ /\ Stale(entry) /\ k \in DOMAIN leading
              /\ readers' = [readers EXCEPT ![r] = Request(k, "waiting", NoEntry)]
              /\ UNCHANGED ruleSide
           \/ /\ Stale(entry) /\ k \notin DOMAIN leading
              /\ readers' = [readers EXCEPT ![r] = Request(k, "queued", entry)]
              /\ leading' = Put(leading, k, r)
              /\ UNCHANGED fetched
        /\ UNCHANGED <<subscribed, rendered, catalogSide, time>>

Fetching == {r \in Readers : readers[r].stage = "fetching"}
Fetch(r, stage, result) ==
    /\ readers' = [readers EXCEPT ![r].stage = stage, ![r].result = result]
    /\ UNCHANGED <<subscribed, rendered, ruleSide, catalogSide, time, readBudget>>
acquireSlot(r) == readers[r].stage = "queued" /\ Cardinality(Fetching) < FetchSlots /\ Fetch(r, "fetching", Failure)
slotTimesOut(r) == readers[r].stage = "queued" /\ Fetch(r, "fetched", Failure)
fetchSurgeRuleSet(r, status) ==
    readers[r].stage = "fetching" /\ Fetch(r, "fetched", [status |-> status, from |-> IF status = "error" THEN 0 ELSE time])

(* The second half of get: the result is kept, or the entry seen before    *)
(* the fetch takes its place while it is not too old; whoever waits gets   *)
(* the same.                                                               *)
Kept(r) ==
    LET k == readers[r].key
        result == readers[r].result
        entry == [status |-> result.status, bytes |-> IF result.status = "found" THEN 1 ELSE 0,
                  from |-> result.from, at |-> readers[r].at, usedAt |-> readers[r].at]
        known == IF k \in DOMAIN fetched.entries THEN Without(fetched, {k}) ELSE fetched
    IN  Evictions(With(known, k, entry), k, RuleSetEntries, RuleSetBytes)
(* Mutant: an entry may be served again however old it is.                 *)
AnyAge(r) == readers[r].seen # NoEntry
Usable(r) == readers[r].seen # NoEntry /\ readers[r].at < readers[r].seen.at + StaleFor
Fallen(r) ==
    [fetched EXCEPT !.entries = Put(@, readers[r].key, [readers[r].seen EXCEPT !.usedAt = readers[r].at])]
Outcome(r) ==
    IF readers[r].result = Failure /\ Usable(r) THEN Contents(readers[r].seen) ELSE readers[r].result
Waiting(k) == {w \in Readers : readers[w].stage = "waiting" /\ readers[w].key = k}
(* Mutant: a fetch that failed stays registered.                           *)
concludeFoundOnly(r) ==
    /\ readers[r].stage = "fetched"
    /\ IF readers[r].result # Failure THEN fetched' \in Kept(r)
       ELSE fetched' = IF Usable(r) THEN Fallen(r) ELSE fetched
    /\ leading' = IF readers[r].result = Failure THEN leading ELSE Restrict(leading, DOMAIN leading \ {readers[r].key})
    /\ readers' = [x \in Readers |->
                      IF x = r THEN Answered(readers[x], Outcome(r)) ELSE readers[x]]
    /\ UNCHANGED <<subscribed, rendered, catalogSide, time, readBudget>>
concludeRuleSet(r) ==
    /\ readers[r].stage = "fetched"
    /\ IF readers[r].result # Failure THEN fetched' \in Kept(r)
       ELSE fetched' = IF Usable(r) THEN Fallen(r) ELSE fetched
    /\ leading' = Restrict(leading, DOMAIN leading \ {readers[r].key})
    /\ readers' = [x \in Readers |->
                      IF x = r \/ x \in Waiting(readers[r].key)
                      THEN Answered(readers[x], Outcome(r)) ELSE readers[x]]
    /\ UNCHANGED <<subscribed, rendered, catalogSide, time, readBudget>>
clientLeaves(r) ==
    /\ readers[r].stage = "waiting"
    /\ readers' = [readers EXCEPT ![r] = NoReader]
    /\ UNCHANGED <<subscribed, rendered, ruleSide, catalogSide, time, readBudget>>

respond(r) ==
    /\ readers[r].stage = "answered"
    /\ readers' = [readers EXCEPT ![r] = NoReader]
    /\ UNCHANGED <<subscribed, rendered, ruleSide, catalogSide, time, readBudget>>

-----------------------------------------------------------------------------
(* The catalog: the time its names were asked for stands for them, 0 for   *)
(* none; refreshes exclude one another.                                    *)

Refreshers == {"editor", "background", "poll"}
Idle == [stage |-> "none", at |-> 0]
catalogFresh == catalog.cached # 0 /\ time < catalog.cached + CatalogTTL
Refresh(p, stage, at) == refreshers' = [refreshers EXCEPT ![p] = [stage |-> stage, at |-> at]]
readSide == <<subscribed, rendered, ruleSide, readers, time>>

Options ==
    /\ readBudget.names /\ ~catalogFresh
    /\ IF catalog.cached = 0
       THEN refreshers["editor"] = Idle /\ Refresh("editor", "waiting", 0) /\ UNCHANGED catalog
       ELSE ~catalog.refreshing /\ Refresh("background", "waiting", 0) /\ catalog' = [catalog EXCEPT !.refreshing = TRUE]
    /\ UNCHANGED <<readSide, readBudget>>
(* The ticker, and the refresh at the start; one that finds the names      *)
(* fresh changes nothing.                                                  *)
pollCatalog ==
    /\ readBudget.names /\ ~catalogFresh
    /\ refreshers["poll"] = Idle /\ Refresh("poll", "waiting", 0)
    /\ UNCHANGED <<readSide, catalog, readBudget>>

Done(p) == IF p = "background" THEN "clearing" ELSE "none"
(* Mutant: refreshes do not exclude one another.                           *)
fetchLockFree(p) == TRUE
fetchMuFree(p) == \A q \in Refreshers : refreshers[q].stage \notin {"fetching", "saving"}
refreshCatalog(p) ==
    /\ refreshers[p].stage = "waiting" /\ fetchMuFree(p)
    /\ IF catalogFresh THEN Refresh(p, Done(p), 0) ELSE Refresh(p, "fetching", time)
    /\ UNCHANGED <<readSide, catalog, readBudget>>
fetchNames(p) ==
    /\ refreshers[p].stage = "fetching"
    /\ \/ /\ Refresh(p, "saving", refreshers[p].at)
          /\ catalog' = [catalog EXCEPT !.cached = refreshers[p].at]
          /\ UNCHANGED readBudget
       \/ Happens("faults") /\ Refresh(p, Done(p), 0) /\ UNCHANGED catalog
    /\ UNCHANGED readSide
(* A file that cannot be written is ignored.                               *)
persistCache(p) ==
    /\ refreshers[p].stage = "saving"
    /\ \/ catalog' = [catalog EXCEPT !.file = refreshers[p].at] /\ UNCHANGED readBudget
       \/ Happens("faults") /\ UNCHANGED catalog
    /\ Refresh(p, Done(p), 0)
    /\ UNCHANGED readSide
clearRefreshing ==
    /\ refreshers["background"].stage = "clearing"
    /\ Refresh("background", "none", 0) /\ catalog' = [catalog EXCEPT !.refreshing = FALSE]
    /\ UNCHANGED <<readSide, readBudget>>

-----------------------------------------------------------------------------
(* Ten minutes pass; no request and no fetch lasts as long.                *)
Tick ==
    /\ Happens("ticks")
    /\ \A r \in Readers : readers[r].stage \in {"waiting", "queued", "fetching", "fetched"}
                              => readers[r].at = time
    /\ \A p \in Refreshers : refreshers[p].stage \in {"fetching", "saving"} => refreshers[p].at = time
    /\ time' = time + 1
    /\ UNCHANGED <<subscribed, rendered, ruleSide, readers, catalogSide>>

EmptyCache == [entries |-> <<>>, total |-> 0]
(* The Master stops and starts: the caches are in memory, the names of the *)
(* catalog are loaded from their file.                                     *)
RestartReads ==
    /\ Happens("restarts")
    /\ rendered' = EmptyCache /\ fetched' = EmptyCache /\ leading' = <<>>
    /\ readers' = [r \in Readers |-> NoReader]
    /\ catalog' = [catalog EXCEPT !.cached = catalog.file, !.refreshing = FALSE]
    /\ refreshers' = [p \in Refreshers |-> Idle]
    /\ UNCHANGED <<subscribed, time>>

ReadInit ==
    /\ account = [present |-> TRUE, link |-> 1, issued |-> 1, secret |-> 1, standing |-> "enabled"]
    /\ policy = <<>>
    /\ published = <<SubscriptionProjection(account, policy)>>
    /\ rendered = EmptyCache /\ fetched = EmptyCache /\ leading = <<>>
    /\ readers = [r \in Readers |-> NoReader]
    /\ catalog = [cached |-> 0, file |-> 0, refreshing |-> FALSE]
    /\ refreshers = [p \in Refreshers |-> Idle]
    /\ time = 1
    /\ readBudget \in ReadBudgets

EditPolicy ==
    \/ \E id \in RuleIDs : AddSubscriptionRule(id) \/ UpdateSubscriptionRule(id) \/ DeleteSubscriptionRule(id)
    \/ \E id \in RuleIDs, direction \in {-1, 1} : MoveSubscriptionRule(id, direction)
    \/ \E order \in Bijection(DOMAIN policy, DOMAIN policy) : ReorderSubscriptionRules(order)
EditAccount ==
    \/ RotateUserSubscription \/ ResetUserSubscriptionAndCredentials \/ RevokeUserSubscription \/ DeleteUser
    \/ \E standing \in {"enabled", "quota", "expired"} : SettleMembership(standing)
proceedRead(r) ==
    \/ subscriptionViewAndProfile(r) \/ render(r) \/ storeRendered(r)
    \/ acquireSlot(r) \/ slotTimesOut(r)
    \/ \E status \in {"found", "missing", "error"} : fetchSurgeRuleSet(r, status)
    \/ concludeRuleSet(r) \/ respond(r)
ask(r) ==
    \/ \E format \in Formats : UserBySubscriptionToken(r, format)
    \/ \E k \in RuleSets : publicSurgeRuleSet(r, k)
refreshing(p) == refreshCatalog(p) \/ fetchNames(p) \/ persistCache(p)

ReadNext ==
    \/ EditPolicy \/ EditAccount
    \/ \E r \in Readers : ask(r) \/ proceedRead(r) \/ clientLeaves(r)
    \/ Options \/ pollCatalog \/ clearRefreshing
    \/ \E p \in Refreshers : refreshing(p)
    \/ Tick \/ RestartReads

(* A request runs to its end, every wait has a deadline.  Of the catalog   *)
(* it is enough that somebody gets on: its ticker or a refresh.            *)
CatalogStep == pollCatalog \/ clearRefreshing \/ \E p \in Refreshers : refreshing(p)
ReadFairness ==
    /\ \A r \in Readers : WF_readVars(proceedRead(r))
    /\ WF_readVars(CatalogStep)

ReadSpec == ReadInit /\ [][ReadNext]_readVars /\ ReadFairness

-----------------------------------------------------------------------------
(* Properties.                                                             *)

Got(r, kind) == readers[r].stage = "answered" /\ readers[r].ask.kind = kind

(* subscription_cache.go:180: a subscription that is handed out is the     *)
(* rendering, in the format asked for, of a state the store was in after   *)
(* its link was found: no credential or rule from before comes out of the  *)
(* cache.                                                                  *)
AnswersAreCurrent ==
    \A r \in Readers : Got(r, "subscription") =>
        \E i \in readers[r].ask.since .. Len(published) :
            readers[r].content = Render(readers[r].ask.format, published[i])

(* subscription_cache.go:213: racing renderings may count their bytes      *)
(* twice, never too little, so the cache of subscriptions keeps its limits.*)
RenderedIsBounded ==
    /\ Held(rendered) <= rendered.total
    /\ Held(rendered) <= RenderedBytes /\ Cardinality(DOMAIN rendered.entries) <= RenderedEntries

(* subscriptions.go of proxynode: deleting and appending rely on the       *)
(* slice being in the order the page and the exports sort it into.         *)
PolicyInOrder == policy = InOrder(policy)

(* subscription_cache.go:110: one fetch at a time for a rule set, and who  *)
(* waits for a fetch waits for a request that is still at work on it.      *)
FetchesAreJoined ==
    /\ \A r, s \in Fetching : readers[r].key = readers[s].key => r = s
    /\ \A r \in Readers : readers[r].stage = "waiting" =>
          /\ readers[r].key \in DOMAIN leading
          /\ readers[leading[readers[r].key]].stage \in {"queued", "fetching", "fetched"}
          /\ readers[leading[readers[r].key]].key = readers[r].key

(* subscription_cache.go:137: what is served when upstream fails is no     *)
(* older than a day when it is asked for, one fetch more for those who     *)
(* joined.                                                                 *)
RuleSetsAreRecent ==
    \A r \in Readers : Got(r, "rules") /\ readers[r].content # Failure
        => readers[r].content.from + StaleFor >= readers[r].ask.at

(* rulesets.go:137: the file never gets ahead of the names in memory, and  *)
(* a refresh never replaces them by older ones, whoever is faster.         *)
CatalogIsKept ==
    /\ catalog.file <= catalog.cached
    /\ \A p \in Refreshers : refreshers[p].stage = "fetching" => refreshers[p].at >= catalog.cached + CatalogTTL \/ catalog.cached = 0

(* What clients read is sound: the conjunction of the parts above.         *)
PublicReadsAreSound ==
    /\ AnswersAreCurrent /\ RenderedIsBounded /\ PolicyInOrder
    /\ FetchesAreJoined /\ RuleSetsAreRecent /\ CatalogIsKept

(* Every request is answered, also when upstream hangs or the request it   *)
(* joined fails, and an expired catalog is refreshed in the end.           *)
ReadsAnswered ==
    /\ \A r \in Readers : []<>(readers[r].stage = "none")
    /\ []<>(readBudget.names => catalogFresh)

(* proxy-node-manager-design.md:858 says that a rotation invalidates the   *)
(* old link immediately: a request with a link that is gone gets nothing   *)
(* newer than what the link gave.  It does not hold, for the link is       *)
(* looked up before the projection is read.                                *)
OldLinkIsDead ==
    \A r \in Readers : Got(r, "subscription") /\ readers[r].ask.link # account.link
        => readers[r].content[2].secret <= readers[r].ask.secret

(* proxy-node-manager-design.md:899 limits what the cache of rule sets     *)
(* keeps.  It does not hold: an entry that was evicted during a fetch that *)
(* failed is put back without being counted.                               *)
RuleSetsAreBounded ==
    Held(fetched) <= RuleSetBytes /\ Cardinality(DOMAIN fetched.entries) <= RuleSetEntries
=============================================================================
