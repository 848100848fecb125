---------------------------- MODULE WebSessions ----------------------------
(***************************************************************************)
(* Who may use the web pages: the identity file with the administrator and *)
(* the end users, invitations and their claims, logins that derive the     *)
(* password outside the locks, browser sessions with a rolling deadline,   *)
(* their two files, and restarts.                                          *)
(*                                                                         *)
(* AccessManager ("admin") and EndUserAccessManager ("user") are one shape *)
(* here: a map of sessions, a file, and a lifecycleMu.  A bearer stands    *)
(* for a session or invitation token and its digest, a secret for a        *)
(* password and its salted hash.  What a session was opened with is kept   *)
(* in its record for the properties; the code keeps the revision only.     *)
(***************************************************************************)
EXTENDS Naturals, FiniteSets, Functions

CONSTANTS
  EndUsers,     \* user IDs of the proxy node store, never reused
  Administrator,\* the identity with the administrator role
  Logins,       \* folded login names
  Passwords,    \* passwords
  Bearers,      \* tokens the two managers can draw
  Requests,     \* web requests served at once
  Blank,        \* no login name, secret, bearer or owner
  MaxSessions,  \* maxSessions
  KDFWaiters,   \* capacity of passwordKDFLimiter.wait
  IdleTimeout,  \* sessionIdleTimeout
  InviteLifetime, \* defaultUserInviteLifetime
  Seeds,        \* identity files the Master may find at its first start
  WebBudgets    \* bound: hours that pass, and how often each request and fault may happen

ASSUME WebConstants ==
  /\ Administrator \notin EndUsers
  /\ Blank \notin EndUsers \cup {Administrator} \cup Logins \cup Passwords \cup Bearers
  /\ MaxSessions \in Nat \ {0} /\ KDFWaiters \in Nat
  /\ IdleTimeout \in Nat \ {0} /\ InviteLifetime \in Nat \ {0}
  /\ WebBudgets \subseteq [hours : Nat, logins : Nat, invites : Nat, deletions : Nat, visits : Nat, replacements : Nat, faults : Nat, restarts : Nat]
  /\ \A left \in WebBudgets : left.logins + left.invites <= Cardinality(Bearers)

VARIABLES
  serving,      \* the Master process runs
  hour,         \* the clock
  storeUsers,   \* users of the proxy node store
  identityFile, \* web-auth.json
  legacyFile,   \* end-user-auth.json of a pre-release Master
  accounts,     \* EndUserAccessManager.accounts
  operator,     \* EndUserAccessManager.admin
  binding,      \* AccessManager.credentialBinding
  browsing,     \* sessions of each manager
  sessionFile,  \* web-sessions.json and end-user-sessions.json
  activity,     \* persistSessionActivity of each manager: its phase and snapshot
  gate,         \* slots taken in passwordKDFLimiter.gate
  requests,     \* requests between two of their steps
  handedOut,    \* bearers a browser or an invited user has received
  finished,     \* bearers logged out or claimed, and reported so (history)
  promised,     \* the deadline each session's browser was last given (history)
  webLeft

webVars == <<serving, hour, storeUsers, identityFile, legacyFile, accounts, operator, binding,
             browsing, sessionFile, activity, gate, requests, handedOut, finished, promised, webLeft>>

Managers == {"admin", "user"}
NoSessions == [t \in {} |-> Blank]
NoAccount == [rev |-> 0, name |-> Blank, secret |-> Blank, invite |-> Blank, until |-> 0]
NoAccounts == [u \in EndUsers |-> NoAccount]
Known(accs) == {u \in EndUsers : accs[u].rev > 0}
NoOperator == [name |-> Blank, secret |-> Blank, rev |-> 0]
asleep == [phase |-> "none", snapshot |-> NoSessions]
noRequest == [stage |-> "none", op |-> "none", name |-> Blank, secret |-> Blank, owner |-> Blank,
              rev |-> 0, hash |-> Blank, token |-> Blank, now |-> 0]

WebInit ==
  /\ serving = FALSE /\ hour = 0
  /\ storeUsers = EndUsers
  /\ \E seed \in Seeds : identityFile = seed.identity /\ legacyFile = seed.legacy
  /\ accounts = NoAccounts /\ operator = NoOperator /\ binding = Blank
  /\ browsing = [m \in Managers |-> NoSessions]
  /\ sessionFile = [m \in Managers |-> [binding |-> Blank, sessions |-> NoSessions]]
  /\ activity = [m \in Managers |-> asleep]
  /\ gate = 0
  /\ requests = [r \in Requests |-> noRequest]
  /\ handedOut = {} /\ finished = {}
  /\ promised = [t \in Bearers |-> 0]
  /\ webLeft \in WebBudgets

MayWeb(what) == webLeft[what] > 0
SpendWeb(what) == webLeft' = [webLeft EXCEPT ![what] = @ - 1]

-----------------------------------------------------------------------------
(* The files. *)

\* mutant: the binding covers the end users of the identity file, too
credentialBindingOfFile(doc) == <<doc.version, doc.admin, doc.accounts>>

\* What the admin sessions are bound to: the whole document before the files were
\* unified, the administrator's credential since.
credentialBinding(doc) ==
  IF doc.version = 3 THEN <<doc.version, doc.admin, NoAccounts>> ELSE <<doc.version, doc.admin, doc.accounts>>

unifiedDocument(accs, adm) == [version |-> 3, admin |-> adm, accounts |-> accs]

\* Login names are unique and the administrator's is nobody else's.
loadUnifiedIdentities(doc) ==
  /\ \A u \in Known(doc.accounts) : doc.accounts[u].name # Blank => doc.accounts[u].name # doc.admin.name
  /\ \A u, v \in Known(doc.accounts) :
       u # v /\ doc.accounts[u].name # Blank => doc.accounts[u].name # doc.accounts[v].name
  /\ \A u \in Known(doc.accounts) : doc.accounts[u].name = Blank \/ doc.accounts[u].invite = Blank

\* A file is replaced by a rename and a directory sync; an error before the rename
\* leaves the old file, one after it the new file.
writePrivateJSONFile == {"written", "failed", "unsynced"}
replaced(outcome, old, new) == IF outcome = "failed" THEN old ELSE new
charge(outcomes) ==
  LET broken == {i \in DOMAIN outcomes : outcomes[i] # "written"}
  IN  /\ webLeft.faults >= Cardinality(broken)
      /\ webLeft' = [webLeft EXCEPT !.faults = @ - Cardinality(broken)]

expiresAt(s) == s.seen + IdleTimeout
live(s, now) == now < expiresAt(s)

\* A session as it is read back: the deadline follows from the time it was last seen.
loaded(s) == s

persistSessionSnapshot(m, outcome, snapshot, bound) ==
  sessionFile' = [sessionFile EXCEPT ![m] = replaced(outcome, @, [binding |-> bound, sessions |-> snapshot])]

\* loadSessions of the AccessManager: nothing when the credential changed.
adminLoadSessions(doc, file) ==
  IF file.binding # credentialBinding(doc) THEN NoSessions
  ELSE LET kept == {t \in DOMAIN file.sessions : live(file.sessions[t], hour)}
       IN  [t \in kept |-> loaded(file.sessions[t])]

\* loadSessions of the EndUserAccessManager: the account's revision must match.
userLoadSessions(accs, file) ==
  LET kept == {t \in DOMAIN file.sessions :
                 LET s == file.sessions[t]
                 IN  accs[s.owner].rev > 0 /\ accs[s.owner].rev = s.rev /\ live(s, hour)}
  IN  [t \in kept |-> loaded(file.sessions[t])]

-----------------------------------------------------------------------------
(* Sessions in memory. *)

\* A token is drawn at random, unlike every other in use.
inUse == handedOut \cup (UNION {DOMAIN browsing[m] \cup DOMAIN sessionFile[m].sessions : m \in Managers})
                   \cup {accounts[u].invite : u \in EndUsers} \cup {identityFile.accounts[u].invite : u \in EndUsers}
                   \cup {requests[r].token : r \in Requests}
drawn(t) == Bearers \ inUse # {} /\ t = CHOOSE b \in Bearers \ inUse : TRUE

\* lifecycleMu of a manager: persistSessionActivity keeps it while it writes.
\* mutant: the snapshot is written without the lock
lifecycleUnlocked(m) == TRUE

lifecycleFree(m) == activity[m].phase \in {"none", "due"}

boundTo(m) == IF m = "admin" THEN binding ELSE Blank

without(map, gone_) == Restrict(map, DOMAIN map \ gone_)
sessionsOf(map, u) == {t \in DOMAIN map : map[t].owner = u}

\* evictOldestSessionLocked: one that was seen the longest ago makes room.
roomIn(map) ==
  LET oldest == {x \in DOMAIN map : \A y \in DOMAIN map : map[x].seen <= map[y].seen}
  IN  IF Cardinality(DOMAIN map) < MaxSessions THEN {map} ELSE {without(map, {x}) : x \in oldest}

purged(map, now) == Restrict(map, {x \in DOMAIN map : live(map[x], now)})

\* createAuthenticatedSession and createSessionLocked: on a failed write the one puts
\* every session back, the other only takes the new one away.
createSession(m, t, s, outcome) ==
  \E room \in roomIn(purged(browsing[m], s.seen)) :
    LET map == [x \in DOMAIN room \cup {t} |-> IF x = t THEN s ELSE room[x]]
    IN  /\ persistSessionSnapshot(m, outcome, map, boundTo(m))
        /\ browsing' = [browsing EXCEPT ![m] = IF outcome = "written" THEN map
                                               ELSE IF m = "user" THEN room ELSE @]
        /\ promised' = [promised EXCEPT ![t] = IF outcome = "written" THEN expiresAt(s) ELSE @]

authentic(s) ==
  /\ live(s, hour)
  /\ s.owner # Administrator =>
       accounts[s.owner].rev = s.rev /\ accounts[s.owner].rev > 0 /\ accounts[s.owner].name # Blank

presents(m, t) == serving /\ t \in handedOut \cap DOMAIN browsing[m] /\ authentic(browsing[m][t])

\* The rolling deadline, which the browser's cookie is given, too.
touched(m, t) == [browsing EXCEPT ![m][t].seen = hour]
renewed(t) == [promised EXCEPT ![t] = hour + IdleTimeout]

\* scheduleActivityPersistenceLocked: due once the interval since the last write is over.
scheduled(m) == {activity} \cup (IF activity[m].phase = "none" THEN {[activity EXCEPT ![m].phase = "due"]} ELSE {})

\* authorizeProxyMutation: the administrator's session and its CSRF secret.
authorizeProxyMutation(t) ==
  /\ presents("admin", t)
  /\ browsing' = touched("admin", t) /\ promised' = renewed(t)
  /\ activity' \in scheduled("admin")

-----------------------------------------------------------------------------
(* Login, in the steps between which other requests run. *)

request(r, req) == requests' = [requests EXCEPT ![r] = req]
free_(r) == serving /\ requests[r].stage = "none"

\* passwordKDFLimiter.acquire: at once, after waiting, or refused.
acquirePasswordKDF(r, req) ==
  LET waiting == {x \in Requests : requests[x].stage = "waiting"}
  IN  IF gate = 0 THEN gate' = 1 /\ request(r, [req EXCEPT !.stage = "deriving"])
      ELSE /\ UNCHANGED gate
           /\ request(r, IF Cardinality(waiting) < KDFWaiters THEN [req EXCEPT !.stage = "waiting"] ELSE noRequest)

kdfFrame == UNCHANGED <<serving, hour, storeUsers, identityFile, legacyFile, accounts, operator, binding,
                        browsing, sessionFile, activity, handedOut, finished, promised>>

\* The credential the login will be compared with, as it is now.
attempt(n, k) ==
  LET named == {u \in Known(accounts) : accounts[u].name = n}
      asked == [noRequest EXCEPT !.op = "login", !.name = n, !.secret = k, !.now = hour]
  IN  IF operator.name = n THEN [asked EXCEPT !.owner = Administrator, !.rev = operator.rev, !.hash = operator.secret]
      ELSE IF named # {} THEN LET u == CHOOSE x \in named : TRUE
                              IN  [asked EXCEPT !.owner = u, !.rev = accounts[u].rev, !.hash = accounts[u].secret]
      ELSE asked

\* An access key is compared without a derivation; a name that cannot be one is refused.
LoginIdentityForClient(r, n, k) ==
  /\ free_(r) /\ MayWeb("logins") /\ SpendWeb("logins")
  /\ \/ /\ n # Blank
        /\ acquirePasswordKDF(r, attempt(n, k))
     \/ /\ n = Blank /\ operator.name = Blank
        /\ request(r, IF operator.secret = k THEN [attempt(n, k) EXCEPT !.stage = "verified"] ELSE noRequest)
        /\ UNCHANGED gate
  /\ kdfFrame

TakeGate(r) ==
  /\ requests[r].stage = "waiting" /\ gate = 0
  /\ gate' = 1
  /\ request(r, [requests[r] EXCEPT !.stage = "deriving"])
  /\ kdfFrame /\ UNCHANGED webLeft

GiveUpWaiting(r) ==
  /\ requests[r].stage = "waiting"
  /\ request(r, noRequest)
  /\ kdfFrame /\ UNCHANGED <<gate, webLeft>>

derivePassword(r) ==
  LET req == requests[r]
  IN  /\ req.stage = "deriving"
      /\ gate' = 0
      /\ request(r, IF req.op = "login" /\ (req.owner = Blank \/ req.secret # req.hash) THEN noRequest
                    ELSE [req EXCEPT !.stage = "derived"])
      /\ kdfFrame /\ UNCHANGED webLeft

\* The credential may have been reset while the password was derived.
stillCurrent(req) ==
  LET now == IF req.owner = Administrator THEN operator ELSE accounts[req.owner]
  IN  now.rev = req.rev /\ now.name = req.name /\ now.secret = req.hash

sessionFor(owner, rev, secret, now) == [owner |-> owner, rev |-> rev, secret |-> secret, seen |-> now]

FinishLogin(r, outcome) ==
  LET req == requests[r]
  IN  /\ req.stage = "derived" /\ req.op = "login" /\ lifecycleFree("user")
      /\ \/ /\ ~stillCurrent(req) \/ req.owner = Administrator
            /\ outcome = "written"
            /\ request(r, IF stillCurrent(req) THEN [req EXCEPT !.stage = "verified"] ELSE noRequest)
            /\ UNCHANGED <<browsing, sessionFile, promised, handedOut, webLeft>>
         \/ /\ stillCurrent(req) /\ req.owner # Administrator
            /\ charge(<<outcome>>)
            /\ \E t \in Bearers :
                 /\ drawn(t)
                 /\ createSession("user", t, sessionFor(req.owner, accounts[req.owner].rev, req.secret, req.now), outcome)
                 /\ handedOut' = IF outcome = "written" THEN handedOut \cup {t} ELSE handedOut
            /\ request(r, noRequest)
      /\ UNCHANGED <<serving, hour, storeUsers, identityFile, legacyFile, accounts, operator, binding, activity, gate, finished>>

\* unifiedLogin opens the administrator's session after the locks were released.
unifiedLogin(r, outcome) ==
  LET req == requests[r]
  IN  /\ req.stage = "verified" /\ lifecycleFree("admin")
      /\ charge(<<outcome>>)
      /\ \E t \in Bearers :
           /\ drawn(t)
           /\ createSession("admin", t, sessionFor(Administrator, operator.rev, req.secret, hour), outcome)
           /\ handedOut' = IF outcome = "written" THEN handedOut \cup {t} ELSE handedOut
      /\ request(r, noRequest)
      /\ UNCHANGED <<serving, hour, storeUsers, identityFile, legacyFile, accounts, operator, binding, activity, gate, finished>>

-----------------------------------------------------------------------------
(* Accounts: invitation, claim, removal. *)

accountForInvite(accs, t) == {u \in Known(accs) : accs[u].invite = t /\ hour < accs[u].until}

persistAccounts(outcome, accs) == identityFile' = replaced(outcome, identityFile, unifiedDocument(accs, operator))

nameTaken(u, n) == operator.name = n \/ \E v \in Known(accounts) \ {u} : accounts[v].name = n

claimed(acc, n, k) == [acc EXCEPT !.name = n, !.secret = k, !.invite = Blank, !.until = 0]

invited(acc, t) == [rev |-> acc.rev + 1, name |-> Blank, secret |-> Blank, invite |-> t, until |-> hour + InviteLifetime]

\* RemoveUser: a failed account write puts both maps back, a failed session write the sessions.
RemoveUser(u, outcomes) ==
  LET kept == without(browsing["user"], sessionsOf(browsing["user"], u))
      done == outcomes[1] = "written"
      accs == [accounts EXCEPT ![u] = NoAccount]
  IN  /\ charge(outcomes)
      /\ done \/ outcomes[2] = "written"
      /\ persistAccounts(outcomes[1], accs)
      /\ accounts' = IF done THEN accs ELSE accounts
      /\ IF done THEN persistSessionSnapshot("user", outcomes[2], kept, Blank) ELSE UNCHANGED sessionFile
      /\ browsing' = [browsing EXCEPT !["user"] = IF done /\ outcomes[2] = "written" THEN kept ELSE @]

issueEndUserInvitation(r, t, u) ==
  /\ free_(r) /\ MayWeb("invites") /\ SpendWeb("invites")
  /\ authorizeProxyMutation(t)
  /\ u \in storeUsers
  /\ request(r, [noRequest EXCEPT !.stage = "inviting", !.owner = u])
  /\ UNCHANGED <<serving, hour, storeUsers, identityFile, legacyFile, accounts, operator, binding, sessionFile, gate, handedOut, finished>>

\* The old sessions are dropped before the first write and stay dropped.
IssueInvitation(r, outcomes) ==
  LET req == requests[r]
      kept == without(browsing["user"], sessionsOf(browsing["user"], req.owner))
      done == outcomes[1] = "written"
  IN  /\ req.stage = "inviting" /\ lifecycleFree("user")
      /\ done \/ outcomes[2] = "written"
      /\ charge(outcomes)
      /\ browsing' = [browsing EXCEPT !["user"] = kept]
      /\ \E t \in Bearers :
           LET accs == [accounts EXCEPT ![req.owner] = invited(@, t)]
           IN  /\ drawn(t)
               /\ persistAccounts(outcomes[1], accs)
               /\ accounts' = IF done THEN accs ELSE accounts
               /\ IF done THEN persistSessionSnapshot("user", outcomes[2], kept, Blank) ELSE UNCHANGED sessionFile
               /\ handedOut' = IF done /\ outcomes[2] = "written" THEN handedOut \cup {t} ELSE handedOut
      /\ request(r, noRequest)
      /\ UNCHANGED <<serving, hour, storeUsers, legacyFile, operator, binding, activity, gate, finished, promised>>

\* The invitation is looked up before the password is derived ...
endUserClaim(r, t, n, k) ==
  /\ free_(r) /\ MayWeb("logins") /\ SpendWeb("logins")
  /\ t \in handedOut /\ accountForInvite(accounts, t) # {}
  /\ acquirePasswordKDF(r, [noRequest EXCEPT !.op = "claim", !.name = n, !.secret = k, !.token = t])
  /\ kdfFrame

\* ... and again when the account is claimed.
ClaimInvitation(r, outcomes) ==
  LET req == requests[r]
      holders == accountForInvite(accounts, req.token)
      u == CHOOSE x \in holders : TRUE
      accs == [accounts EXCEPT ![u] = claimed(@, req.name, req.secret)]
      done == outcomes[1] = "written"
  IN  /\ req.stage = "derived" /\ req.op = "claim" /\ lifecycleFree("user")
      /\ charge(outcomes)
      /\ IF holders = {} \/ nameTaken(u, req.name)
         THEN /\ outcomes = <<"written", "written">>
              /\ request(r, noRequest)
              /\ UNCHANGED <<accounts, identityFile, browsing, sessionFile, promised, finished>>
         ELSE /\ done \/ outcomes[2] = "written"
              /\ persistAccounts(outcomes[1], accs)
              /\ accounts' = IF done THEN accs ELSE accounts
              /\ IF done
                 THEN \E t \in Bearers :
                        /\ drawn(t)
                        /\ createSession("user", t, sessionFor(u, accs[u].rev, req.secret, hour), outcomes[2])
                        /\ request(r, IF outcomes[2] = "written"
                                      THEN [noRequest EXCEPT !.stage = "claimed", !.owner = u, !.token = t] ELSE noRequest)
                        /\ finished' = IF outcomes[2] = "written" THEN finished \cup {req.token} ELSE finished
                 ELSE request(r, noRequest) /\ UNCHANGED <<browsing, sessionFile, promised, finished>>
      /\ UNCHANGED <<serving, hour, storeUsers, legacyFile, operator, binding, activity, gate, handedOut>>

\* The handler looks the user up after the claim: it may have been deleted meanwhile.
finishClaim(r, outcomes) ==
  LET req == requests[r]
  IN  /\ req.stage = "claimed"
      /\ IF req.owner \in storeUsers
         THEN /\ outcomes = <<"written", "written">>
              /\ handedOut' = handedOut \cup {req.token}
              /\ UNCHANGED <<accounts, identityFile, browsing, sessionFile, webLeft>>
         ELSE lifecycleFree("user") /\ RemoveUser(req.owner, outcomes) /\ UNCHANGED handedOut
      /\ request(r, noRequest)
      /\ UNCHANGED <<serving, hour, storeUsers, legacyFile, operator, binding, activity, gate, finished, promised>>

\* The store's user goes first; what happens to the login is only logged.
deleteEndUser(r, t, u) ==
  /\ free_(r) /\ MayWeb("deletions") /\ SpendWeb("deletions")
  /\ authorizeProxyMutation(t)
  /\ u \in storeUsers /\ storeUsers' = storeUsers \ {u}
  /\ request(r, [noRequest EXCEPT !.stage = "removing", !.owner = u])
  /\ UNCHANGED <<serving, hour, identityFile, legacyFile, accounts, operator, binding, sessionFile, gate, handedOut, finished>>

finishDelete(r, outcomes) ==
  /\ requests[r].stage = "removing" /\ lifecycleFree("user")
  /\ RemoveUser(requests[r].owner, outcomes)
  /\ request(r, noRequest)
  /\ UNCHANGED <<serving, hour, storeUsers, legacyFile, operator, binding, activity, gate, handedOut, finished, promised>>

-----------------------------------------------------------------------------
(* Requests under a session, and the background write of the deadlines. *)

visitFrame == UNCHANGED <<serving, hour, storeUsers, identityFile, legacyFile, accounts, operator, binding, gate, requests, handedOut>>

requireAuthentication(t) ==
  /\ MayWeb("visits") /\ SpendWeb("visits")
  /\ authorizeProxyMutation(t)
  /\ visitFrame /\ UNCHANGED <<sessionFile, finished>>

Removed(m, t, outcome) ==
  /\ lifecycleFree(m)
  /\ persistSessionSnapshot(m, outcome, without(touched(m, t)[m], {t}), boundTo(m))
  /\ browsing' = [touched(m, t) EXCEPT ![m] = IF outcome = "written" THEN without(@, {t}) ELSE @]
  /\ promised' = renewed(t)
  /\ finished' = IF outcome = "written" THEN finished \cup {t} ELSE finished
  /\ activity' \in scheduled(m)

\* Authenticate drops a session that ended; the portal logs out a deleted user.
endUserPortal(t, outcome) ==
  /\ serving /\ t \in handedOut \cap DOMAIN browsing["user"]
  /\ MayWeb("visits")
  /\ webLeft.faults > 0 \/ outcome = "written"
  /\ webLeft' = [webLeft EXCEPT !.visits = @ - 1, !.faults = IF outcome = "written" THEN @ ELSE @ - 1]
  /\ CASE ~presents("user", t) ->
            /\ outcome = "written"
            /\ browsing' = [browsing EXCEPT !["user"] = without(@, {t})]
            /\ UNCHANGED <<sessionFile, activity, finished, promised>>
       [] presents("user", t) /\ browsing["user"][t].owner \in storeUsers ->
            /\ outcome = "written"
            /\ browsing' = touched("user", t) /\ promised' = renewed(t)
            /\ activity' \in scheduled("user")
            /\ UNCHANGED <<sessionFile, finished>>
       [] OTHER -> Removed("user", t, outcome)
  /\ visitFrame

logout(t, outcome) == presents("admin", t) /\ charge(<<outcome>>) /\ Removed("admin", t, outcome) /\ visitFrame

endUserLogout(t, outcome) == presents("user", t) /\ charge(<<outcome>>) /\ Removed("user", t, outcome) /\ visitFrame

\* persistSessionActivity takes lifecycleMu and a snapshot, then writes without mu.
beginActivity(m) ==
  /\ serving /\ activity[m].phase = "due"
  /\ activity' = [activity EXCEPT ![m] = [phase |-> "writing", snapshot |-> browsing[m]]]
  /\ UNCHANGED <<browsing, sessionFile, finished, promised, webLeft>> /\ visitFrame

\* mutant: the lock is kept when the write fails
activityStuck(m, outcome) == IF outcome = "written" THEN asleep ELSE [asleep EXCEPT !.phase = "stuck"]

activityDone(m, outcome) == asleep

persistSessionActivity(m, outcome) ==
  /\ activity[m].phase = "writing"
  /\ charge(<<outcome>>)
  /\ persistSessionSnapshot(m, outcome, activity[m].snapshot, boundTo(m))
  /\ activity' = [activity EXCEPT ![m] = activityDone(m, outcome)]
  /\ UNCHANGED <<browsing, finished, promised>> /\ visitFrame

-----------------------------------------------------------------------------
(* Stop, crash, start, and the administrator's credential. *)

halt ==
  /\ serving' = FALSE
  /\ accounts' = NoAccounts /\ operator' = NoOperator /\ binding' = Blank
  /\ browsing' = [m \in Managers |-> NoSessions]
  /\ activity' = [m \in Managers |-> asleep]
  /\ gate' = 0
  /\ requests' = [r \in Requests |-> noRequest]
  /\ UNCHANGED <<hour, storeUsers, identityFile, legacyFile, handedOut, finished, promised>>

\* Close runs after the last request and the last background write.
Close(outcome) ==
  /\ serving /\ MayWeb("restarts")
  /\ webLeft.faults > 0 \/ outcome = "written"
  /\ \A r \in Requests : requests[r] = noRequest
  /\ activity["user"].phase = "none"
  /\ persistSessionSnapshot("user", outcome, browsing["user"], Blank)
  /\ webLeft' = [webLeft EXCEPT !.restarts = @ - 1, !.faults = IF outcome = "written" THEN @ ELSE @ - 1]
  /\ halt

MasterCrashes ==
  /\ serving /\ MayWeb("restarts") /\ SpendWeb("restarts")
  /\ halt /\ UNCHANGED sessionFile

\* What a start reads, and the files it leaves: a session file of another credential is
\* emptied, an older identity file is migrated, logins of deleted users are removed.
openedDocument ==
  IF identityFile.version = 3 THEN identityFile ELSE unifiedDocument(legacyFile, identityFile.admin)
resetSessionFile ==
  IF sessionFile["admin"].binding \in {Blank, credentialBinding(identityFile)} THEN sessionFile
  ELSE [sessionFile EXCEPT !["admin"] = [binding |-> credentialBinding(identityFile), sessions |-> NoSessions]]
ReconcileUsers(accs) == [u \in EndUsers |-> IF u \in storeUsers THEN accs[u] ELSE NoAccount]
reconciledDocument == unifiedDocument(ReconcileUsers(openedDocument.accounts), openedDocument.admin)
openedUserSessions == userLoadSessions(openedDocument.accounts, resetSessionFile["user"])
reconciledUserSessions ==
  Restrict(openedUserSessions, {t \in DOMAIN openedUserSessions : openedUserSessions[t].owner \in storeUsers})
reconciledSessionFile ==
  IF reconciledDocument = openedDocument THEN resetSessionFile
  ELSE [resetSessionFile EXCEPT !["user"].sessions = reconciledUserSessions]

loadsSessions == \A m \in Managers : Cardinality(DOMAIN sessionFile[m].sessions) <= MaxSessions

OpenUnifiedWebAccess ==
  /\ ~serving
  /\ loadUnifiedIdentities(openedDocument) /\ loadsSessions
  /\ serving' = TRUE
  /\ identityFile' = reconciledDocument
  /\ legacyFile' = IF identityFile.version = 3 THEN legacyFile ELSE NoAccounts
  /\ sessionFile' = reconciledSessionFile
  /\ accounts' = reconciledDocument.accounts
  /\ operator' = identityFile.admin
  /\ binding' = credentialBinding(identityFile)
  /\ browsing' = [m \in Managers |-> IF m = "admin" THEN adminLoadSessions(identityFile, sessionFile["admin"])
                                     ELSE reconciledUserSessions]
  /\ UNCHANGED <<hour, storeUsers, activity, gate, requests, handedOut, finished, promised, webLeft>>

\* One of the writes fails, or the process dies among them: some of them are done.
startFails ==
  /\ ~serving /\ MayWeb("faults") /\ SpendWeb("faults")
  /\ loadUnifiedIdentities(openedDocument) /\ loadsSessions
  /\ \/ identityFile' = identityFile /\ sessionFile' = resetSessionFile
     \/ identityFile' = openedDocument /\ sessionFile' = resetSessionFile
     \/ identityFile' = reconciledDocument /\ sessionFile' \in {resetSessionFile, reconciledSessionFile}
  /\ <<identityFile', sessionFile'>> # <<identityFile, sessionFile>>
  /\ UNCHANGED <<serving, hour, storeUsers, legacyFile, accounts, operator, binding, browsing, activity,
                 gate, requests, handedOut, finished, promised>>

\* The end users of a unified file stay as they are; no one of them may have the name.
replacementAdminAccessDocument(doc, n, k) ==
  [doc EXCEPT !.admin = [name |-> n, secret |-> k, rev |-> IF doc.version = 3 THEN @.rev + 1 ELSE 1]]

\* set-web-admin --replace; the installer stops the Master first.
ReplaceAdminAccess(n, k, outcome) ==
  /\ ~serving /\ MayWeb("replacements")
  /\ webLeft.faults > 0 \/ outcome = "written"
  /\ identityFile.version = 3 => \A u \in EndUsers : identityFile.accounts[u].name # n
  /\ identityFile' = replaced(outcome, identityFile, replacementAdminAccessDocument(identityFile, n, k))
  /\ webLeft' = [webLeft EXCEPT !.replacements = @ - 1, !.faults = IF outcome = "written" THEN @ ELSE @ - 1]
  /\ UNCHANGED <<serving, hour, storeUsers, legacyFile, accounts, operator, binding, browsing, sessionFile,
                 activity, gate, requests, handedOut, finished, promised>>

HourPasses ==
  /\ MayWeb("hours") /\ SpendWeb("hours")
  /\ hour' = hour + 1
  /\ UNCHANGED <<serving, storeUsers, identityFile, legacyFile, accounts, operator, binding, browsing, sessionFile,
                 activity, gate, requests, handedOut, finished, promised>>

-----------------------------------------------------------------------------
writes == writePrivateJSONFile
pairs == writes \X writes

\* What a request does once it was accepted.
proceed(r) ==
  \/ TakeGate(r) \/ GiveUpWaiting(r) \/ derivePassword(r)
  \/ \E w \in writes : FinishLogin(r, w) \/ unifiedLogin(r, w)
  \/ \E w \in pairs : IssueInvitation(r, w) \/ ClaimInvitation(r, w) \/ finishClaim(r, w) \/ finishDelete(r, w)

background(m) == beginActivity(m) \/ \E w \in writes : persistSessionActivity(m, w)

WebNext ==
  \/ \E r \in Requests, n \in Logins \cup {Blank}, k \in Passwords : LoginIdentityForClient(r, n, k)
  \/ \E r \in Requests, t \in Bearers, u \in EndUsers : issueEndUserInvitation(r, t, u) \/ deleteEndUser(r, t, u)
  \/ \E r \in Requests, t \in Bearers, n \in Logins, k \in Passwords : endUserClaim(r, t, n, k)
  \/ \E r \in Requests : proceed(r)
  \/ \E t \in Bearers : requireAuthentication(t)
  \/ \E t \in Bearers, w \in writes : endUserPortal(t, w) \/ logout(t, w) \/ endUserLogout(t, w)
  \/ \E m \in Managers : background(m)
  \/ \E w \in writes : Close(w)
  \/ MasterCrashes \/ OpenUnifiedWebAccess \/ startFails \/ HourPasses
  \/ \E n \in Logins, k \in Passwords, w \in writes : ReplaceAdminAccess(n, k, w)

\* Goroutines and handlers run on; systemd starts the Master again.
WebFairness ==
  /\ \A r \in Requests : WF_webVars(proceed(r))
  /\ \A m \in Managers : WF_webVars(background(m))
  /\ WF_webVars(OpenUnifiedWebAccess)

WebSpec == WebInit /\ [][WebNext]_webVars /\ WebFairness

-----------------------------------------------------------------------------
SessionRecord == [owner : EndUsers \cup {Administrator}, rev : Nat, secret : Passwords, seen : Nat]
IsSessions(map) ==
  DOMAIN map \subseteq Bearers /\ Cardinality(DOMAIN map) <= MaxSessions /\ \A t \in DOMAIN map : map[t] \in SessionRecord
IsAccounts(accs) ==
  accs \in [EndUsers -> [rev : Nat, name : Logins \cup {Blank}, secret : Passwords \cup {Blank},
                         invite : Bearers \cup {Blank}, until : Nat]]

\* Accounts as a Master writes them: none of a user without one, and no invitation drawn twice.
IsBook(accs) ==
  /\ IsAccounts(accs)
  /\ \A u \in EndUsers : accs[u].rev = 0 => accs[u] = NoAccount
  /\ \A u, v \in EndUsers : u # v /\ accs[u].invite # Blank => accs[u].invite # accs[v].invite
AdminRecord == [name : Logins \cup {Blank}, secret : Passwords \cup {Blank}, rev : Nat]

\* The files found at the first start were written by an earlier Master.
ASSUME FirstIdentitiesAreSound ==
  \A seed \in Seeds :
    /\ seed.identity \in [version : {2, 3}, admin : AdminRecord, accounts : {seed.identity.accounts}]
    /\ IsBook(seed.identity.accounts) /\ IsBook(seed.legacy)
    /\ seed.identity.version = 3 => loadUnifiedIdentities(seed.identity)

\* The maps and files have their types, and neither manager ever keeps or writes more sessions
\* than its limit: both refuse to start from a session file with more.
WebTypeOK ==
  /\ serving \in BOOLEAN /\ hour \in Nat
  /\ storeUsers \subseteq EndUsers
  /\ IsAccounts(accounts) /\ IsAccounts(identityFile.accounts) /\ IsAccounts(legacyFile)
  /\ identityFile.version \in {2, 3}
  /\ \A m \in Managers : IsSessions(browsing[m]) /\ IsSessions(sessionFile[m].sessions)
  /\ gate \in {0, 1} /\ gate = Cardinality({r \in Requests : requests[r].stage = "deriving"})
  /\ handedOut \subseteq Bearers /\ finished \subseteq handedOut

\* The sessions a start from the files as they are would bring back.
reopened == [m \in Managers |-> IF m = "admin" THEN adminLoadSessions(identityFile, sessionFile["admin"])
                                ELSE reconciledUserSessions]

\* A session whose logout was reported is never accepted again, by this process or the next,
\* whatever a background write of the deadlines was doing meanwhile.
LoggedOutStaysOut ==
  \A t \in finished, m \in Managers : t \notin DOMAIN browsing[m] \cup DOMAIN reopened[m]

\* An invitation whose claim was reported can never be claimed again, before or after a restart.
ClaimedOnlyOnce ==
  \A t \in finished, u \in EndUsers :
    t # accounts[u].invite /\ t # openedDocument.accounts[u].invite

\* A session that is accepted, now or after a restart, was opened with the credential its owner
\* has: a reset, a removal or a replaced administrator ends every older session.
SessionsProveCredential ==
  /\ \A m \in Managers : \A t \in DOMAIN browsing[m] :
       LET s == browsing[m][t]
       IN  authentic(s) => s.secret = IF m = "admin" THEN operator.secret ELSE accounts[s.owner].secret
  /\ \A m \in Managers : \A t \in DOMAIN reopened[m] :
       LET s == reopened[m][t]
           acc == reconciledDocument.accounts[s.owner]
       IN  IF m = "admin" THEN s.secret = identityFile.admin.secret ELSE acc.name # Blank => s.secret = acc.secret

\* The unified identity file can always be opened again: login names stay unique across roles.
IdentitiesReopen == identityFile.version = 3 => loadUnifiedIdentities(identityFile)

\* No session lives past the deadline its browser was last given, restarts included.
NeverOutlivesDeadline ==
  \A m \in Managers, t \in handedOut :
    /\ t \in DOMAIN browsing[m] => expiresAt(browsing[m][t]) <= promised[t]
    /\ t \in DOMAIN reopened[m] => expiresAt(reopened[m][t]) <= promised[t]

\* The sessions a browser may use are those it should: all of the above, across
\* restarts, failed writes and requests that overlap.
SessionsAreCurrent ==
  /\ WebTypeOK
  /\ LoggedOutStaysOut
  /\ ClaimedOnlyOnce
  /\ SessionsProveCredential
  /\ IdentitiesReopen
  /\ NeverOutlivesDeadline

\* A start keeps every written session that has not expired and whose owner's credential is the
\* one it was opened with; what happens to other accounts signs nobody out.  (The administrator's
\* sessions do not survive the migration of the identity file.)
SessionsSurviveRestart ==
  [][~serving /\ serving' =>
       \A m \in Managers : \A t \in DOMAIN sessionFile[m].sessions :
         LET s == sessionFile[m].sessions[t]
             now == IF m = "admin" THEN identityFile.admin ELSE reconciledDocument.accounts[s.owner]
         IN  /\ live(s, hour)
             /\ now.rev = s.rev /\ now.secret = s.secret
             /\ m = "admin" => sessionFile[m].binding[1] = identityFile.version
             => t \in DOMAIN browsing'[m]]_webVars

\* Every request that was accepted is answered: the wait for the derivation is bounded and
\* nobody keeps a lock.
RequestsAnswered ==
  []<>(\A r \in Requests : requests[r].stage = "none")

=============================================================================
