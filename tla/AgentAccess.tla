---------------------------- MODULE AgentAccess ----------------------------
(***************************************************************************)
(* Who may speak for a Server: the identity registry and its file, the     *)
(* enrolment commands of the web pages and of the local socket, the Agent  *)
(* hosts that redeem them, the control streams that authenticate with the  *)
(* enrolled key, and revocation and hardware replacement under a live      *)
(* session.                                                                *)
(*                                                                         *)
(* A host stands for the key pair in its state directory.  A token stands  *)
(* for its digest.  A name stands for its folded form.                     *)
(***************************************************************************)
EXTENDS Naturals, FiniteSets

CONSTANTS
  Servers,      \* private record IDs
  AgentHosts,   \* machines, each with its own key
  EnrolTokens,  \* enrolment tokens the registry can draw
  ServerNames,  \* folded display names
  Streams,      \* Connect calls the Master can hold at once
  Nobody,       \* no server, host, token, name or stream
  IdName,       \* the folded name a record ID reads as
  ResultLimit,  \* enrollmentResultLimit
  AccessBudgets \* how often each request and each fault may happen

ASSUME AccessConstants ==
  /\ Nobody \notin Servers \cup AgentHosts \cup EnrolTokens \cup ServerNames \cup Streams
  /\ IdName \in [Servers -> ServerNames]
  /\ ResultLimit \in Nat \ {0}
  /\ AccessBudgets \subseteq [enrolments : Nat, edits : Nat, revocations : Nat, frames : Nat, faults : Nat, restarts : Nat, crashes : Nat, drops : Nat]

VARIABLES
  registry,     \* Registry: pending, enrolled and displayNames
  registryFile, \* identities.json
  expired,      \* tokens past their lifetime
  known,        \* tokens an operator has been shown
  results,      \* Handler.results: the tokens to be shown
  lane,         \* the request that holds agentMutationMu
  sessions,     \* SessionRegistry.sessions
  streams,      \* Connect calls: who, for which record, how far
  hosts,        \* Agent machines: token file and start-up phase
  retained,     \* servers with a deployment record
  located,      \* servers with an address record in the pool
  spent,        \* tokens redeemed, revoked or replaced (history)
  gone,         \* keys revoked from or replaced on a record (history)
  doubt,        \* servers whose revocation was reported as failed (history)
  allowance

accessVars == <<registry, registryFile, expired, known, results, lane, sessions, streams,
                hosts, retained, located, spent, gone, doubt, allowance>>

credentials == <<registry, registryFile, spent, gone>>

EmptyRegistry == [pending  |-> [a \in Servers |-> Nobody],
                  enrolled |-> [a \in Servers |-> Nobody],
                  names    |-> [a \in Servers |-> Nobody]]

idle == [kind |-> "idle", server |-> Nobody, token |-> Nobody, force |-> FALSE]

closed == [host |-> Nobody, server |-> Nobody, stage |-> "closed", alive |-> FALSE, done |-> FALSE]

AccessInit ==
  /\ registry = EmptyRegistry
  /\ registryFile = EmptyRegistry
  /\ expired = {} /\ known = {} /\ results = {}
  /\ lane = idle
  /\ sessions = [a \in Servers |-> Nobody]
  /\ streams = [s \in Streams |-> closed]
  /\ hosts = [h \in AgentHosts |-> [token |-> Nobody, phase |-> "off"]]
  /\ retained = {} /\ located = {}
  /\ spent = {} /\ gone = {} /\ doubt = {}
  /\ allowance \in AccessBudgets

May(what) == allowance[what] > 0
Spend(what) == allowance' = [allowance EXCEPT ![what] = @ - 1]

-----------------------------------------------------------------------------
(* The registry and its file. *)

HasRecord(r, a) == r.pending[a] # Nobody \/ r.enrolled[a] # Nobody

displayName(r, a) == IF r.names[a] # Nobody THEN r.names[a] ELSE IdName[a]

\* A name clashes when either side chose it; two records may read alike by their IDs.
displayNameConflicts(r, a, name, explicit) ==
  \E b \in Servers \ {a} :
    /\ HasRecord(r, b)
    /\ displayName(r, b) = name
    /\ explicit \/ r.names[b] # Nobody

\* What persistLocked writes: names of records that no longer exist are left out.
stored(r) == [r EXCEPT !.names = [a \in Servers |-> IF HasRecord(r, a) THEN r.names[a] ELSE Nobody]]

\* OpenRegistry accepts the file.
Opens(r) ==
  /\ \A a \in Servers : r.names[a] # Nobody => HasRecord(r, a)
  /\ \A a \in Servers :
       HasRecord(r, a) => ~displayNameConflicts(r, a, displayName(r, a), r.names[a] # Nobody)

AgentIDForPublicKey(r, h) ==
  LET owners == {a \in Servers : r.enrolled[a] = h}
  IN  IF Cardinality(owners) = 1 THEN CHOOSE a \in owners : TRUE ELSE Nobody

replaceRegistry(new) ==
  /\ registry' = new
  /\ registryFile' = stored(new)

\* persistLocked fails: before the rename, or in the directory sync after it.
\* The maps are rolled back either way.
persistFails(new) ==
  /\ May("faults") /\ Spend("faults")
  /\ registryFile' \in {registryFile, stored(new)}
  /\ UNCHANGED registry

enrolment(a, t, name) ==
  [registry EXCEPT !.pending[a] = t, !.names[a] = IF name = Nobody THEN @ ELSE name]

createEnrollmentAllowed(a, name, replacement, requireUnused) ==
  /\ requireUnused => ~HasRecord(registry, a)
  /\ replacement <=> registry.enrolled[a] # Nobody
  /\ ~replacement =>
       LET explicit == name # Nobody \/ registry.names[a] # Nobody
           effective == IF name # Nobody THEN name ELSE displayName(registry, a)
       IN  ~displayNameConflicts(registry, a, effective, explicit)
  /\ registry.pending[a] # Nobody => registry.pending[a] \in expired

unused == {t \in EnrolTokens \ (spent \cup expired \cup known) :
             \A a \in Servers : registry.pending[a] # t /\ registryFile.pending[a] # t}

\* The registry draws a token at random; which unused one makes no difference.
fresh(t) == t = CHOOSE drawn \in unused : TRUE

\* CreateEnrollmentForDisplayName draws the record ID, too.
freshID(a) == a = CHOOSE drawn \in Servers : ~HasRecord(registry, drawn)

\* A pending entry that is overwritten takes its token with it.
createEnrollment(a, t, name, replacement, requireUnused) ==
  /\ May("enrolments") /\ Spend("enrolments")
  /\ unused # {} /\ fresh(t)
  /\ createEnrollmentAllowed(a, name, replacement, requireUnused)
  /\ replaceRegistry(enrolment(a, t, name))
  /\ spent' = spent \cup ({registry.pending[a]} \ {Nobody})
  /\ UNCHANGED gone

createEnrollmentFails(a, t, name, replacement, requireUnused) ==
  /\ unused # {} /\ fresh(t)
  /\ createEnrollmentAllowed(a, name, replacement, requireUnused)
  /\ persistFails(enrolment(a, t, name))
  /\ UNCHANGED <<spent, gone>>

-----------------------------------------------------------------------------
(* Web pages.  createServer, replaceServer and revokeServer hold           *)
(* agentMutationMu from the registry call to the last effect.              *)

free == lane.kind = "idle"

beginResult(a, t) == lane' = [idle EXCEPT !.kind = "result", !.server = a, !.token = t]

createServer(a, name, t) ==
  /\ free
  /\ ~HasRecord(registry, a) /\ freshID(a)
  /\ createEnrollment(a, t, name, FALSE, TRUE)
  /\ beginResult(a, t)
  /\ UNCHANGED <<expired, known, results, sessions, streams, hosts, retained, located, doubt>>

replaceServer(a, t) ==
  /\ free
  /\ registry.enrolled[a] # Nobody
  /\ createEnrollment(a, t, Nobody, TRUE, FALSE)
  /\ beginResult(a, t)
  /\ UNCHANGED <<expired, known, results, sessions, streams, hosts, retained, located, doubt>>

\* Either request, when the registry file cannot be written.
enrollmentNotCreated(a, name, t) ==
  /\ free
  /\ \/ ~HasRecord(registry, a) /\ freshID(a) /\ createEnrollmentFails(a, t, name, FALSE, TRUE)
     \/ createEnrollmentFails(a, t, Nobody, TRUE, FALSE)
  /\ UNCHANGED <<expired, known, results, lane, sessions, streams, hosts, retained, located, doubt>>

\* The oldest makes room when there is none.  The clock is not modelled: any of
\* them may be the oldest.
evictOldestEnrollmentResult(kept) ==
  IF Cardinality(results) >= ResultLimit THEN \E oldest \in results : kept = results \ {oldest}
  ELSE kept = results

storeEnrollmentResult ==
  /\ lane.kind = "result"
  /\ \E kept \in SUBSET results :
       /\ evictOldestEnrollmentResult(kept)
       /\ results' = kept \cup {[server |-> lane.server, token |-> lane.token]}
  /\ lane' = idle
  /\ UNCHANGED <<credentials, expired, known, sessions, streams, hosts, retained, located, doubt, allowance>>

\* The page shows a result once; the ones kept past enrollmentResultTTL go unseen.
takeEnrollmentResult(r, seen) ==
  /\ IF seen THEN UNCHANGED allowance ELSE May("edits") /\ Spend("edits")
  /\ known' = IF seen THEN known \cup {r.token} ELSE known
  /\ results' = results \ {r}
  /\ UNCHANGED <<credentials, expired, lane, sessions, streams, hosts, retained, located, doubt>>

\* The local socket prints the token at once.  It serves a named server, a
\* replacement, and the record ID of an older client.
adminHandler(a, name, t) ==
  /\ \/ name # Nobody /\ ~HasRecord(registry, a) /\ freshID(a) /\ createEnrollment(a, t, name, FALSE, TRUE)
     \/ name = Nobody /\ createEnrollment(a, t, name, registry.enrolled[a] # Nobody, FALSE)
  /\ known' = known \cup {t}
  /\ UNCHANGED <<expired, results, lane, sessions, streams, hosts, retained, located, doubt>>

RenameDisplayName(a, name) ==
  /\ May("edits") /\ Spend("edits")
  /\ HasRecord(registry, a)
  /\ ~displayNameConflicts(registry, a, name, TRUE)
  /\ replaceRegistry([registry EXCEPT !.names[a] = name])
  /\ UNCHANGED <<expired, known, results, lane, sessions, streams, hosts, retained, located, spent, gone, doubt>>

\* The name cannot be written, or is written and not reported as such.
RenameNotPersisted(a, name) ==
  /\ HasRecord(registry, a)
  /\ ~displayNameConflicts(registry, a, name, TRUE)
  /\ persistFails([registry EXCEPT !.names[a] = name])
  /\ UNCHANGED <<expired, known, results, lane, sessions, streams, hosts, retained, located, spent, gone, doubt>>

revokeServer(a, force) ==
  /\ free
  /\ May("revocations") /\ Spend("revocations")
  /\ HasRecord(registry, a)
  /\ force => registry.enrolled[a] # Nobody /\ sessions[a] = Nobody
  /\ lane' = [idle EXCEPT !.kind = "revoke", !.server = a, !.force = force]
  /\ UNCHANGED <<credentials, expired, known, results, sessions, streams, hosts, retained, located, doubt>>

Revoked(r, a) == [r EXCEPT !.pending[a] = Nobody, !.enrolled[a] = Nobody, !.names[a] = Nobody]

Disconnect(a) ==
  /\ sessions' = [sessions EXCEPT ![a] = Nobody]
  /\ streams' = [s \in Streams |-> IF s = sessions[a] THEN [streams[s] EXCEPT !.done = TRUE] ELSE streams[s]]

\* revokeAgent under authorizationMu: deployment record, credentials, session.
revokeAgent ==
  LET a == lane.server IN
  /\ lane.kind = "revoke"
  /\ lane.force => sessions[a] = Nobody
  /\ retained' = retained \ {a}
  /\ replaceRegistry(Revoked(registry, a))
  /\ spent' = spent \cup ({registry.pending[a]} \ {Nobody})
  /\ gone' = gone \cup ({<<a, registry.enrolled[a]>>} \ {<<a, Nobody>>})
  /\ Disconnect(a)
  /\ lane' = [lane EXCEPT !.kind = "cleanup"]
  /\ UNCHANGED <<expired, known, results, hosts, located, doubt, allowance>>

\* The Agent came back first, a deployment file resists, or the registry does.
revokeAgentFails ==
  LET a == lane.server IN
  /\ lane.kind = "revoke"
  /\ lane' = idle
  /\ \/ /\ lane.force /\ sessions[a] # Nobody
        /\ UNCHANGED <<registry, registryFile, retained, doubt, allowance>>
     \/ /\ May("faults") /\ Spend("faults")
        /\ a \in retained
        /\ retained' \in {retained, retained \ {a}}
        /\ doubt' = doubt \cup {a}
        /\ UNCHANGED <<registry, registryFile>>
     \/ /\ ~(lane.force /\ sessions[a] # Nobody)
        /\ retained' = retained \ {a}
        /\ persistFails(Revoked(registry, a))
        /\ doubt' = doubt \cup {a}
  /\ UNCHANGED <<expired, known, results, sessions, streams, hosts, located, spent, gone>>

\* Pool removal after authorizationMu is released, then the stored results.
finishRevocation ==
  LET a == lane.server IN
  /\ lane.kind = "cleanup"
  /\ located' = located \ {a}
  /\ results' = {r \in results : r.server # a}
  /\ lane' = idle
  /\ UNCHANGED <<credentials, expired, known, sessions, streams, hosts, retained, doubt, allowance>>

-----------------------------------------------------------------------------
(* Agent machines. *)

\* Whatever streams a host holds are dead once its process is.
hangUp(h) == [s \in Streams |-> IF streams[s].host = h THEN [streams[s] EXCEPT !.alive = FALSE] ELSE streams[s]]

\* install.sh writes the token file and restarts the service.
writeEnrollmentToken(h, t) ==
  /\ t \in known
  /\ \A other \in AgentHosts : hosts[other].token # t
  /\ hosts' = [hosts EXCEPT ![h] = [token |-> t, phase |-> "boot"]]
  /\ streams' = hangUp(h)
  /\ UNCHANGED <<credentials, expired, known, results, lane, sessions, retained, located, doubt, allowance>>

Redeemed(a, h) == [registry EXCEPT !.enrolled[a] = h, !.pending[a] = Nobody]

EnrollByToken(h, a) ==
  /\ hosts[h].phase = "boot"
  /\ hosts[h].token # Nobody
  /\ registry.pending[a] = hosts[h].token
  /\ hosts[h].token \notin expired
  /\ \A b \in Servers \ {a} : registry.enrolled[b] # h

\* Enroll under authorizationMu: the key, the file, the session of the old key.
\* The Agent that hears the answer resets its profile, removes the token file and
\* runs; one that does not, or stops before the removal, is left with a token
\* that is now spent.
Enroll(h, a, answered) ==
  /\ EnrollByToken(h, a)
  /\ replaceRegistry(Redeemed(a, h))
  /\ spent' = spent \cup {registry.pending[a]}
  /\ gone' = (gone \cup ({<<a, registry.enrolled[a]>>} \ {<<a, Nobody>>})) \ {<<a, h>>}
  /\ Disconnect(a)
  /\ hosts' = IF answered THEN [hosts EXCEPT ![h] = [token |-> Nobody, phase |-> "run"]] ELSE hosts
  /\ IF answered THEN UNCHANGED allowance ELSE May("drops") /\ Spend("drops")
  /\ UNCHANGED <<expired, known, results, lane, retained, located, doubt>>

EnrollNotPersisted(h, a) ==
  /\ EnrollByToken(h, a)
  /\ persistFails(Redeemed(a, h))
  /\ gone' = gone \ {<<a, h>>}
  /\ UNCHANGED <<expired, known, results, lane, sessions, streams, hosts, retained, located, spent, doubt>>

HostRestarts(h) ==
  /\ May("crashes") /\ Spend("crashes")
  /\ hosts[h].phase = "run"
  /\ streams' = hangUp(h)
  /\ UNCHANGED <<credentials, expired, known, results, lane, sessions, hosts, retained, located, doubt>>

-----------------------------------------------------------------------------
(* Connect. *)

\* Hello and challenge.  The key is looked up without authorizationMu.  Which
\* free place the stream takes makes no difference.
hello(h, s) ==
  LET a == AgentIDForPublicKey(registry, h) IN
  /\ hosts[h].phase = "run"
  /\ \A other \in Streams : streams[other].host = h => ~streams[other].alive
  /\ \E place \in Streams : streams[place].stage = "closed"
  /\ s = CHOOSE place \in Streams : streams[place].stage = "closed"
  /\ a # Nobody
  /\ streams' = [streams EXCEPT ![s] = [host |-> h, server |-> a, stage |-> "challenged", alive |-> TRUE, done |-> FALSE]]
  /\ UNCHANGED <<credentials, expired, known, results, lane, sessions, hosts, retained, located, doubt, allowance>>

\* mutant: the answer from before the challenge is trusted
authorizedAtHello(s) == streams[s].server # Nobody

stillAuthorized(s) == AgentIDForPublicKey(registry, streams[s].host) = streams[s].server

\* The proof: the key is looked up again and the session registered, both
\* under authorizationMu.  A second session of the same server is refused.
proof(s) ==
  LET a == streams[s].server IN
  /\ streams[s].stage = "challenged" /\ streams[s].alive
  /\ IF stillAuthorized(s) /\ sessions[a] = Nobody
       THEN /\ sessions' = [sessions EXCEPT ![a] = s]
            /\ streams' = [streams EXCEPT ![s].stage = "registered"]
       ELSE /\ streams' = [streams EXCEPT ![s] = closed]
            /\ UNCHANGED sessions
  /\ UNCHANGED <<credentials, expired, known, results, lane, hosts, retained, located, doubt, allowance>>

\* syncPoolAddresses and syncObservedAddress, with authorizationMu released.
syncAddresses(s) ==
  /\ streams[s].stage = "registered"
  /\ located' = located \cup {streams[s].server}
  /\ streams' = [streams EXCEPT ![s].stage = "located"]
  /\ UNCHANGED <<credentials, expired, known, results, lane, sessions, hosts, retained, doubt, allowance>>

Unregister(s) ==
  sessions' = [a \in Servers |-> IF sessions[a] = s THEN Nobody ELSE sessions[a]]

\* The profile replay is bound to this session: an enrolled key and the session
\* still current, under authorizationMu, or Connect returns.
syncProfileOnSession(s) ==
  LET a == streams[s].server IN
  /\ streams[s].stage = "located"
  /\ IF registry.enrolled[a] # Nobody /\ sessions[a] = s
       THEN /\ retained' = retained \cup {a}
            /\ streams' = [streams EXCEPT ![s].stage = "open"]
            /\ UNCHANGED sessions
       ELSE /\ Unregister(s)
            /\ streams' = [streams EXCEPT ![s] = closed]
            /\ UNCHANGED retained
  /\ UNCHANGED <<credentials, expired, known, results, lane, hosts, located, doubt, allowance>>

\* A frame is taken while session.done is open ...
receive(s) ==
  /\ May("frames") /\ Spend("frames")
  /\ streams[s].stage = "open" /\ streams[s].alive /\ ~streams[s].done
  /\ streams' = [streams EXCEPT ![s].stage = "handling"]
  /\ UNCHANGED <<credentials, expired, known, results, lane, sessions, hosts, retained, located, doubt>>

\* ... and handled by the name of its server: a heartbeat with new addresses
\* reaches whichever session that name has by then.
handleAgentFrame(s) ==
  /\ streams[s].stage = "handling"
  /\ located' = IF sessions[streams[s].server] # Nobody THEN located \cup {streams[s].server} ELSE located
  /\ streams' = [streams EXCEPT ![s].stage = "open"]
  /\ UNCHANGED <<credentials, expired, known, results, lane, sessions, hosts, retained, doubt, allowance>>

\* mutant: a silent peer is never given up
disconnectedByPeer(s) ==
  /\ streams[s].stage \in {"challenged", "open"}
  /\ streams[s].done \/ streams[s].alive
  /\ IF streams[s].done THEN UNCHANGED allowance ELSE May("drops") /\ Spend("drops")
  /\ Unregister(s)
  /\ streams' = [streams EXCEPT ![s] = closed]
  /\ UNCHANGED <<credentials, expired, known, results, lane, hosts, retained, located, doubt>>

\* Connect returns on session.done, the heartbeat or challenge deadline of a
\* dead peer, or a broken stream.
disconnected(s) ==
  /\ streams[s].stage \in {"challenged", "open"}
  /\ IF streams[s].done \/ ~streams[s].alive THEN UNCHANGED allowance ELSE May("drops") /\ Spend("drops")
  /\ Unregister(s)
  /\ streams' = [streams EXCEPT ![s] = closed]
  /\ UNCHANGED <<credentials, expired, known, results, lane, hosts, retained, located, doubt>>

-----------------------------------------------------------------------------

expire(t) ==
  /\ May("edits") /\ Spend("edits")
  /\ \E a \in Servers : registry.pending[a] = t
  /\ t \notin expired
  /\ expired' = expired \cup {t}
  /\ UNCHANGED <<credentials, known, results, lane, sessions, streams, hosts, retained, located, doubt>>

\* The Master's process ends and starts again from its files.
OpenRegistry ==
  /\ May("restarts") /\ Spend("restarts")
  /\ Opens(registryFile)
  /\ registry' = registryFile
  /\ results' = {} /\ lane' = idle
  /\ sessions' = [a \in Servers |-> Nobody]
  /\ streams' = [s \in Streams |-> closed]
  /\ retained' \in {retained} \cup {retained \ {a} : a \in {lane.server} \cap Servers}
  /\ UNCHANGED <<registryFile, expired, known, hosts, located, spent, gone, doubt>>

AccessNext ==
  \/ \E a \in Servers, t \in EnrolTokens :
       \/ \E name \in ServerNames : createServer(a, name, t) \/ enrollmentNotCreated(a, name, t)
       \/ replaceServer(a, t)
       \/ \E name \in ServerNames \cup {Nobody} : adminHandler(a, name, t)
  \/ storeEnrollmentResult
  \/ \E r \in results, seen \in BOOLEAN : takeEnrollmentResult(r, seen)
  \/ \E a \in Servers, name \in ServerNames : RenameDisplayName(a, name) \/ RenameNotPersisted(a, name)
  \/ \E a \in Servers, force \in BOOLEAN : revokeServer(a, force)
  \/ revokeAgent \/ revokeAgentFails \/ finishRevocation
  \/ \E h \in AgentHosts, t \in EnrolTokens : writeEnrollmentToken(h, t)
  \/ \E h \in AgentHosts, a \in Servers :
       (\E answered \in BOOLEAN : Enroll(h, a, answered)) \/ EnrollNotPersisted(h, a)
  \/ \E h \in AgentHosts : HostRestarts(h)
  \/ \E h \in AgentHosts, s \in Streams : hello(h, s)
  \/ \E s \in Streams :
       proof(s) \/ syncAddresses(s) \/ syncProfileOnSession(s) \/ receive(s) \/ handleAgentFrame(s) \/ disconnected(s)
  \/ \E t \in EnrolTokens : expire(t)
  \/ OpenRegistry

\* Handlers and the Agent's reconnect loop run on; deadlines end dead streams;
\* a request that holds agentMutationMu ends.
AccessFairness ==
  /\ \A h \in AgentHosts : WF_accessVars(\E s \in Streams : hello(h, s))
  /\ \A s \in Streams :
       WF_accessVars((proof(s) \/ syncAddresses(s) \/ syncProfileOnSession(s) \/ handleAgentFrame(s)
                       \/ (disconnected(s) /\ UNCHANGED allowance)))
  /\ WF_accessVars((storeEnrollmentResult \/ revokeAgent \/ finishRevocation))

AccessSpec == AccessInit /\ [][AccessNext]_accessVars /\ AccessFairness

-----------------------------------------------------------------------------

RegistryType == [pending  : [Servers -> EnrolTokens \cup {Nobody}],
                 enrolled : [Servers -> AgentHosts \cup {Nobody}],
                 names    : [Servers -> ServerNames \cup {Nobody}]]

\* Every variable of the registry, the pages, the sessions and the hosts keeps its shape,
\* and no more enrolment results are kept than enrollmentResultLimit.
AccessTypeOK ==
  /\ registry \in RegistryType /\ registryFile \in RegistryType
  /\ expired \subseteq EnrolTokens /\ known \subseteq EnrolTokens /\ spent \subseteq EnrolTokens
  /\ results \subseteq [server : Servers, token : EnrolTokens]
  /\ Cardinality(results) <= ResultLimit
  /\ lane \in [kind : {"idle", "result", "revoke", "cleanup"}, server : Servers \cup {Nobody},
               token : EnrolTokens \cup {Nobody}, force : BOOLEAN]
  /\ sessions \in [Servers -> Streams \cup {Nobody}]
  /\ streams \in [Streams -> [host : AgentHosts \cup {Nobody}, server : Servers \cup {Nobody},
                              stage : {"closed", "challenged", "registered", "located", "open", "handling"},
                              alive : BOOLEAN, done : BOOLEAN]]
  /\ hosts \in [AgentHosts -> [token : EnrolTokens \cup {Nobody}, phase : {"off", "boot", "run"}]]
  /\ retained \subseteq Servers /\ located \subseteq Servers /\ doubt \subseteq Servers
  /\ gone \subseteq Servers \X AgentHosts
  /\ allowance \in [enrolments : Nat, edits : Nat, revocations : Nat, frames : Nat, faults : Nat, restarts : Nat, crashes : Nat, drops : Nat]

\* A session in the registry was opened with the key that is enrolled for its
\* server now: revocation and replacement end the sessions of the old key, and
\* no Connect that began before them registers after them (Connect, Enroll,
\* revokeAgent under authorizationMu).
SessionsAreAuthorized ==
  \A a \in Servers : sessions[a] # Nobody =>
    /\ streams[sessions[a]].server = a
    /\ registry.enrolled[a] = streams[sessions[a]].host
    /\ ~streams[sessions[a]].done

\* A redeemed, revoked or replaced credential never works again, not even
\* after a restart reads the file back (EnrollByToken, Revoke, persistLocked).
CredentialsStayDead ==
  \A r \in {registry, registryFile} : \A a \in Servers :
    r.pending[a] \notin spent /\ <<a, r.enrolled[a]>> \notin gone

\* One key names one server, in memory and in the file, so every enrolled Agent
\* can authenticate (EnrollByToken, AgentIDForPublicKey).
KeyNamesOneServer ==
  \A r \in {registry, registryFile} : \A a, b \in Servers :
    a # b /\ r.enrolled[a] # Nobody => r.enrolled[a] # r.enrolled[b]

\* The Master can always start from the registry it wrote: no orphaned name and
\* no two servers with one name, whatever order creation, renaming, revocation
\* and failed writes came in (OpenRegistry, createEnrollment, RenameDisplayName).
RegistryReopens == Opens(registryFile)

\* A result page never offers the token of a revoked server (revokeServer and
\* createServer under agentMutationMu, removeEnrollmentResultsForAgent).
ResultsHaveRecords ==
  \A r \in results : HasRecord(registry, r.server) \/ lane.server = r.server

\* No profile is recorded for a server that has no identity: a Connect that
\* revocation overtakes queues nothing (queueDeployment under authorizationMu).
\* A revocation reported as failed may still be in the file.
RetainedHaveRecords == \A a \in retained : HasRecord(registry, a) \/ a \in doubt

\* Identities, their file, the sessions and what is kept for a Server agree: all
\* of the above, across failed writes, restarts and overlapping requests.
AccessIsCurrent ==
  /\ AccessTypeOK
  /\ SessionsAreAuthorized
  /\ CredentialsStayDead
  /\ KeyNamesOneServer
  /\ RegistryReopens
  /\ ResultsHaveRecords
  /\ RetainedHaveRecords

\* An Agent that runs with an enrolled key gets its session, also while a dead
\* stream of its own still occupies the registry (heartbeat deadline, Unregister,
\* the runner's reconnect loop).
EnrolledHostsConnect ==
  []<>(\A h \in AgentHosts :
         hosts[h].phase = "run" /\ AgentIDForPublicKey(registry, h) # Nobody
           => \E a \in Servers : sessions[a] # Nobody /\ streams[sessions[a]].host = h)

=============================================================================
