-------------------------- MODULE ControlPlaneProofs --------------------------
(***************************************************************************)
(* Who may reach the Master, where its Servers are reached and what        *)
(* clients read: three components of the control plane.  The fourth, the   *)
(* sign-in of people, is in WebSessionsProofs.                             *)
(*                                                                         *)
(* Identities, their file, the sessions and what is kept for a Server      *)
(* agree, for any number of Servers, hosts, tokens and streams, and any    *)
(* number of requests, failed writes, restarts and lost connections.       *)
(*                                                                         *)
(* A registry that is stored is sound (Sound): no credential of it is      *)
(* dead, no two Servers share a token, a key or a name, and no name is     *)
(* without a record.  The file is the registry or, after a write that      *)
(* failed, another sound one (CredentialsInv).  A stream that may become a *)
(* session was not ended, and one that is a session is past its challenge  *)
(* (SessionsInv).  What holds the lane of a request keeps the record that  *)
(* the request is about, and the file lacks no record of the registry but  *)
(* for a revocation that was reported as failed (RecordsInv).              *)
(*                                                                         *)
(* The pool stays fit to deploy from, proved for every set of Servers,     *)
(* addresses and links and any number of events of OutboundPool.           *)
(*                                                                         *)
(* Of the parts of PoolIsSound only the one about probes is a matter of    *)
(* the registry alone.  That the applied topology can always be rendered   *)
(* again rests on the relay: what a job or a replay has sent it dials, on  *)
(* every link, an address of the family the link pins (Dialable), and the  *)
(* applied configuration keeps such an address for a link whose Server has *)
(* lost its own.  FleetInv says where such a configuration is on its way;  *)
(* RegistryInv holds of the file, too, which becomes the registry when the *)
(* Master starts again.                                                    *)
(*                                                                         *)
(* What clients read stays sound, for any requests, formats, rules, rule   *)
(* sets, limits and lifetimes and any number of events of PublicReads.     *)
(* None of its parts is inductive.  An answer is current because of what   *)
(* each request holds on its way (ClientOk) and because what lies in the   *)
(* cache is the rendering of its key (Pages); a rule set is recent because *)
(* nothing is fetched before it was asked for, and whoever waits asked at  *)
(* most one step after the fetch began (FetcherOk); a fetch ends for all   *)
(* who wait because leading and the requests agree on who fetches what     *)
(* (JoinInv); the rules stay in order because every edit renumbers them    *)
(* (Ordered), and the names because one refresh at a time is between the   *)
(* look at them and their file (CatalogInv).                               *)
(***************************************************************************)
EXTENDS AgentAccess, OutboundPool, PublicReads, FiniteSetTheorems, SequenceTheorems, TLAPS

-----------------------------------------------------------------------------
(* The invariant.                                                          *)

Sound(r, redeemed, retired) ==
    /\ r \in RegistryType
    /\ Opens(r)
    /\ \A a, b \in Servers : a # b /\ r.pending[a] # Nobody => r.pending[a] # r.pending[b]
    /\ \A a, b \in Servers : a # b /\ r.enrolled[a] # Nobody => r.enrolled[a] # r.enrolled[b]
    /\ \A a \in Servers : r.pending[a] \notin redeemed /\ <<a, r.enrolled[a]>> \notin retired

CredentialsInv ==
    /\ Sound(registry, spent, gone)
    /\ Sound(registryFile, spent, gone)
    /\ spent \subseteq EnrolTokens /\ gone \subseteq Servers \X AgentHosts

StreamType == [host : AgentHosts \cup {Nobody}, server : Servers \cup {Nobody},
               stage : {"closed", "challenged", "registered", "located", "open", "handling"},
               alive : BOOLEAN, done : BOOLEAN]

SessionsInv ==
    /\ sessions \in [Servers -> Streams \cup {Nobody}]
    /\ streams \in [Streams -> StreamType]
    /\ \A s \in Streams : streams[s].stage # "closed" =>
          streams[s].server \in Servers /\ streams[s].host \in AgentHosts
    /\ \A s \in Streams : streams[s].stage = "challenged" => ~streams[s].done
    /\ \A a \in Servers : sessions[a] # Nobody => streams[sessions[a]].stage \notin {"closed", "challenged"}
    /\ SessionsAreAuthorized

LaneType == [kind : {"idle", "result", "revoke", "cleanup"}, server : Servers \cup {Nobody},
             token : EnrolTokens \cup {Nobody}, force : BOOLEAN]

RecordsInv ==
    /\ lane \in LaneType
    /\ lane.kind = "idle" => lane.server = Nobody
    /\ lane.kind # "idle" => lane.server \in Servers
    /\ lane.kind = "result" => lane.token \in EnrolTokens
    /\ lane.kind \in {"result", "revoke"} => HasRecord(registry, lane.server)
    /\ results \subseteq [server : Servers, token : EnrolTokens]
    /\ IsFiniteSet(results) /\ Cardinality(results) <= ResultLimit
    /\ retained \subseteq Servers /\ located \subseteq Servers /\ doubt \subseteq Servers
    /\ ResultsHaveRecords
    /\ RetainedHaveRecords
    /\ \A a \in Servers : HasRecord(registry, a) => HasRecord(registryFile, a) \/ a \in doubt

OthersInv ==
    /\ expired \subseteq EnrolTokens /\ known \subseteq EnrolTokens
    /\ hosts \in [AgentHosts -> [token : EnrolTokens \cup {Nobody}, phase : {"off", "boot", "run"}]]
    /\ allowance \in [enrolments : Nat, edits : Nat, revocations : Nat, frames : Nat, faults : Nat,
                      restarts : Nat, crashes : Nat, drops : Nat]

AccessInv == CredentialsInv /\ SessionsInv /\ RecordsInv /\ OthersInv

-----------------------------------------------------------------------------
(* Registries.                                                             *)

LEMMA NobodyApart ==
    /\ Nobody \notin Servers /\ Nobody \notin AgentHosts /\ Nobody \notin EnrolTokens
    /\ Nobody \notin ServerNames /\ Nobody \notin Streams
    /\ IdName \in [Servers -> ServerNames] /\ ResultLimit \in Nat \ {0}
BY AccessConstants

(* A registry that opens is stored as it is.                               *)
LEMMA StoredIsSame ==
    ASSUME NEW r \in RegistryType, Opens(r)
    PROVE  stored(r) = r
<1>1. [a \in Servers |-> IF HasRecord(r, a) THEN r.names[a] ELSE Nobody] = r.names
  BY DEF Opens, RegistryType
<1>2. stored(r) = [r EXCEPT !.names = r.names]
  BY <1>1 DEF stored
<1> QED BY <1>2 DEF RegistryType

LEMMA FewerAreDead ==
    ASSUME NEW r, NEW redeemed, NEW retired, Sound(r, redeemed, retired),
           NEW few \in SUBSET redeemed, NEW less \in SUBSET retired
    PROVE  Sound(r, few, less)
BY DEF Sound

LEMMA Written ==
    ASSUME NEW r, replaceRegistry(r), Sound(r, spent', gone'),
           spent' \subseteq EnrolTokens, gone' \subseteq Servers \X AgentHosts
    PROVE  CredentialsInv' /\ registry' = r /\ registryFile' = r
<1>1. registry' = r /\ registryFile' = r
  BY StoredIsSame DEF Sound, replaceRegistry
<1> QED BY <1>1 DEF CredentialsInv

LEMMA NotWritten ==
    ASSUME CredentialsInv, NEW r, persistFails(r), Sound(r, spent, gone'),
           UNCHANGED spent, gone' \subseteq gone
    PROVE  CredentialsInv' /\ registry' = registry /\ registryFile' \in {registryFile, r}
<1>1. registry' = registry /\ registryFile' \in {registryFile, r}
  BY StoredIsSame DEF Sound, persistFails
<1>2. Sound(registry, spent, gone') /\ Sound(registryFile, spent, gone')
  BY FewerAreDead DEF CredentialsInv
<1> QED BY <1>1, <1>2 DEF CredentialsInv

(* A name that may be given clashes with no other.                         *)
LEMMA NamesApart ==
    ASSUME NEW r \in RegistryType, Opens(r), NEW a \in Servers, NEW new \in RegistryType,
           HasRecord(new, a),
           \A b \in Servers \ {a} : new.names[b] = r.names[b] /\ (HasRecord(new, b) <=> HasRecord(r, b)),
           ~displayNameConflicts(r, a, displayName(new, a), new.names[a] # Nobody)
    PROVE  Opens(new)
<1>1. \A b \in Servers \ {a} : displayName(new, b) = displayName(r, b)
  BY DEF displayName
<1>2. ASSUME NEW b \in Servers, new.names[b] # Nobody
      PROVE  HasRecord(new, b)
  BY <1>2 DEF Opens
<1>3. ASSUME NEW b \in Servers, HasRecord(new, b), NEW c \in Servers \ {b}, HasRecord(new, c),
             displayName(new, c) = displayName(new, b), new.names[b] # Nobody \/ new.names[c] # Nobody
      PROVE  FALSE
  <2>1. CASE b = a
    BY <2>1, <1>1, <1>3 DEF displayNameConflicts
  <2>2. CASE c = a
    BY <2>2, <1>1, <1>3 DEF displayNameConflicts
  <2>3. CASE b # a /\ c # a
    BY <2>3, <1>1, <1>3 DEF displayNameConflicts, Opens
  <2> QED BY <2>1, <2>2, <2>3
<1> QED BY <1>2, <1>3 DEF Opens, displayNameConflicts

(* Records and names that stay as they are still open.                     *)
LEMMA SameNames ==
    ASSUME NEW r, Opens(r), NEW new,
           \A b \in Servers : HasRecord(new, b) => HasRecord(r, b),
           \A b \in Servers : HasRecord(new, b) => new.names[b] = r.names[b],
           \A b \in Servers : ~HasRecord(new, b) => new.names[b] = Nobody
    PROVE  Opens(new)
<1>1. \A b \in Servers : HasRecord(new, b) => displayName(new, b) = displayName(r, b)
  BY DEF displayName
<1>2. ASSUME NEW b \in Servers, HasRecord(new, b), NEW c \in Servers \ {b}, HasRecord(new, c),
             displayName(new, c) = displayName(new, b), new.names[b] # Nobody \/ new.names[c] # Nobody
      PROVE  FALSE
  BY <1>1, <1>2 DEF Opens, displayNameConflicts
<1> QED BY <1>2 DEF Opens, displayNameConflicts

(* The registry after an enrolment is created.                             *)
LEMMA EnrolmentSound ==
    ASSUME CredentialsInv, NEW a \in Servers, NEW t \in unused, NEW name \in ServerNames \cup {Nobody},
           NEW replacement \in BOOLEAN, NEW requireUnused \in BOOLEAN,
           createEnrollmentAllowed(a, name, replacement, requireUnused),
           replacement => name = Nobody
    PROVE  /\ Sound(enrolment(a, t, name), spent \cup ({registry.pending[a]} \ {Nobody}), gone)
           /\ \A b \in Servers : HasRecord(registry, b) => HasRecord(enrolment(a, t, name), b)
           /\ HasRecord(enrolment(a, t, name), a)
           /\ enrolment(a, t, name).enrolled = registry.enrolled
<1> DEFINE new == enrolment(a, t, name)
<1>1. /\ t \in EnrolTokens /\ t \notin spent
      /\ \A b \in Servers : registry.pending[b] # t
  BY DEF unused
<1>2. Sound(registry, spent, gone) /\ registry \in RegistryType /\ Opens(registry)
  BY DEF CredentialsInv, Sound
<1>3. /\ new \in RegistryType
      /\ new.pending = [registry.pending EXCEPT ![a] = t]
      /\ new.enrolled = registry.enrolled
      /\ new.names = [registry.names EXCEPT ![a] = IF name = Nobody THEN @ ELSE name]
  BY <1>1, <1>2 DEF enrolment, RegistryType
<1>4. /\ \A b \in Servers \ {a} : new.pending[b] = registry.pending[b] /\ new.names[b] = registry.names[b]
      /\ new.pending[a] = t /\ new.names[a] = IF name = Nobody THEN registry.names[a] ELSE name
  BY <1>2, <1>3 DEF RegistryType
<1> HIDE DEF new
<1>5. /\ HasRecord(new, a)
      /\ \A b \in Servers \ {a} : HasRecord(new, b) <=> HasRecord(registry, b)
  BY <1>1, <1>3, <1>4, NobodyApart DEF HasRecord
<1>6. Opens(new)
  <2>1. CASE replacement
    <3>2. registry.enrolled[a] # Nobody
      BY <2>1, Zenon DEF createEnrollmentAllowed
    <3>1. name = Nobody /\ HasRecord(registry, a)
      BY <2>1, <3>2 DEF HasRecord
    <3>3. \A b \in Servers : new.names[b] = registry.names[b]
      BY <3>1, <1>4
    <3>4. \A b \in Servers : HasRecord(new, b) <=> HasRecord(registry, b)
      BY <3>1, <1>5
    <3>5. \A b \in Servers : ~HasRecord(registry, b) => registry.names[b] = Nobody
      BY <1>2 DEF Opens
    <3> QED BY <3>3, <3>4, <3>5, <1>2, SameNames
  <2>2. CASE ~replacement
    <3> DEFINE effective == IF name # Nobody THEN name ELSE displayName(registry, a)
    <3>1. ~displayNameConflicts(registry, a, effective, name # Nobody \/ registry.names[a] # Nobody)
      BY <2>2, Zenon DEF createEnrollmentAllowed
    <3>2. displayName(new, a) = effective
      BY <1>4, NobodyApart DEF displayName
    <3>3. new.names[a] # Nobody <=> name # Nobody \/ registry.names[a] # Nobody
      BY <1>4
    <3>4. ~displayNameConflicts(registry, a, displayName(new, a), new.names[a] # Nobody)
      BY <3>1, <3>2, <3>3 DEF displayNameConflicts
    <3> QED BY <3>4, <1>2, <1>3, <1>4, <1>5, NamesApart
  <2> QED BY <2>1, <2>2
<1>7. \A b, c \in Servers : b # c /\ new.pending[b] # Nobody => new.pending[b] # new.pending[c]
  BY <1>1, <1>2, <1>4 DEF Sound
<1>8. \A b \in Servers : new.pending[b] \notin spent \cup ({registry.pending[a]} \ {Nobody})
  BY <1>1, <1>2, <1>4 DEF Sound
<1>9. Sound(new, spent \cup ({registry.pending[a]} \ {Nobody}), gone)
  BY <1>2, <1>3, <1>6, <1>7, <1>8 DEF Sound
<1> QED BY <1>3, <1>5, <1>9 DEF new

LEMMA RenamedSound ==
    ASSUME CredentialsInv, NEW a \in Servers, NEW name \in ServerNames, HasRecord(registry, a),
           ~displayNameConflicts(registry, a, name, TRUE)
    PROVE  LET new == [registry EXCEPT !.names[a] = name]
           IN  /\ Sound(new, spent, gone)
               /\ \A b \in Servers : HasRecord(registry, b) <=> HasRecord(new, b)
               /\ new.enrolled = registry.enrolled
<1> DEFINE new == [registry EXCEPT !.names[a] = name]
<1>1. Sound(registry, spent, gone) /\ registry \in RegistryType /\ Opens(registry)
  BY DEF CredentialsInv, Sound
<1>2. /\ new \in RegistryType
      /\ new.pending = registry.pending /\ new.enrolled = registry.enrolled
      /\ new.names = [registry.names EXCEPT ![a] = name]
  BY <1>1 DEF RegistryType
<1>3. \A b \in Servers \ {a} : new.names[b] = registry.names[b]
  BY <1>1, <1>2 DEF RegistryType
<1>4. new.names[a] = name /\ name # Nobody
  BY <1>1, <1>2, NobodyApart DEF RegistryType
<1> HIDE DEF new
<1>5. \A b \in Servers : HasRecord(registry, b) <=> HasRecord(new, b)
  BY <1>2 DEF HasRecord
<1>6. displayName(new, a) = name /\ ~displayNameConflicts(registry, a, displayName(new, a), new.names[a] # Nobody)
  BY <1>4 DEF displayName, displayNameConflicts
<1>7. Opens(new)
  BY <1>1, <1>2, <1>3, <1>5, <1>6, NamesApart
<1>8. Sound(new, spent, gone)
  BY <1>1, <1>2, <1>7 DEF Sound
<1> QED BY <1>2, <1>5, <1>8 DEF new

LEMMA RevokedSound ==
    ASSUME CredentialsInv, NEW a \in Servers
    PROVE  LET new == Revoked(registry, a)
           IN  /\ Sound(new, spent \cup ({registry.pending[a]} \ {Nobody}),
                             gone \cup ({<<a, registry.enrolled[a]>>} \ {<<a, Nobody>>}))
               /\ \A b \in Servers \ {a} : HasRecord(registry, b) <=> HasRecord(new, b)
               /\ ~HasRecord(new, a)
               /\ \A b \in Servers \ {a} : new.enrolled[b] = registry.enrolled[b]
<1> DEFINE new == Revoked(registry, a)
<1>1. Sound(registry, spent, gone) /\ registry \in RegistryType /\ Opens(registry)
  BY DEF CredentialsInv, Sound
<1>2. /\ new \in RegistryType
      /\ new.pending = [registry.pending EXCEPT ![a] = Nobody]
      /\ new.enrolled = [registry.enrolled EXCEPT ![a] = Nobody]
      /\ new.names = [registry.names EXCEPT ![a] = Nobody]
  BY <1>1 DEF RegistryType, Revoked
<1>3. /\ \A b \in Servers \ {a} : /\ new.pending[b] = registry.pending[b]
                                 /\ new.enrolled[b] = registry.enrolled[b]
                                 /\ new.names[b] = registry.names[b]
      /\ new.pending[a] = Nobody /\ new.enrolled[a] = Nobody /\ new.names[a] = Nobody
  BY <1>1, <1>2 DEF RegistryType
<1> HIDE DEF new
<1>4. ~HasRecord(new, a) /\ \A b \in Servers \ {a} : HasRecord(registry, b) <=> HasRecord(new, b)
  BY <1>3 DEF HasRecord
<1>5. Opens(new)
  <2>1. \A b \in Servers : ~HasRecord(new, b) => new.names[b] = Nobody
    BY <1>1, <1>3, <1>4 DEF Opens
  <2>2. \A b \in Servers : HasRecord(new, b) => HasRecord(registry, b) /\ new.names[b] = registry.names[b]
    BY <1>3, <1>4
  <2> QED BY <1>1, <2>1, <2>2, SameNames
<1>6. \A b \in Servers : new.pending[b] \notin spent \cup ({registry.pending[a]} \ {Nobody})
  <2>1. Nobody \notin spent
    BY NobodyApart DEF CredentialsInv
  <2>2. \A b \in Servers \ {a} : registry.pending[b] \notin spent
    BY <1>1 DEF Sound
  <2>3. \A b \in Servers \ {a} : registry.pending[a] # Nobody => registry.pending[b] # registry.pending[a]
    BY <1>1 DEF Sound
  <2> QED BY <1>3, <2>1, <2>2, <2>3
<1>7. \A b \in Servers : <<b, new.enrolled[b]>> \notin gone \cup ({<<a, registry.enrolled[a]>>} \ {<<a, Nobody>>})
  BY <1>1, <1>3, NobodyApart DEF Sound, CredentialsInv
<1>8. Sound(new, spent \cup ({registry.pending[a]} \ {Nobody}),
                 gone \cup ({<<a, registry.enrolled[a]>>} \ {<<a, Nobody>>}))
  BY <1>1, <1>2, <1>3, <1>5, <1>6, <1>7 DEF Sound
<1> QED BY <1>3, <1>4, <1>8 DEF new

LEMMA RedeemedSound ==
    ASSUME CredentialsInv, OthersInv, NEW h \in AgentHosts, NEW a \in Servers, EnrollByToken(h, a)
    PROVE  LET new == Redeemed(a, h)
           IN  /\ Sound(new, spent \cup {registry.pending[a]},
                        (gone \cup ({<<a, registry.enrolled[a]>>} \ {<<a, Nobody>>})) \ {<<a, h>>})
               /\ \A b \in Servers : HasRecord(registry, b) <=> HasRecord(new, b)
               /\ \A b \in Servers \ {a} : new.enrolled[b] = registry.enrolled[b]
               /\ registry.pending[a] \in EnrolTokens
<1> DEFINE new == Redeemed(a, h)
<1>1. Sound(registry, spent, gone) /\ registry \in RegistryType /\ Opens(registry)
  BY DEF CredentialsInv, Sound
<1>2. /\ new \in RegistryType
      /\ new.pending = [registry.pending EXCEPT ![a] = Nobody]
      /\ new.enrolled = [registry.enrolled EXCEPT ![a] = h]
      /\ new.names = registry.names
  BY <1>1 DEF RegistryType, Redeemed
<1>3. /\ \A b \in Servers \ {a} : new.pending[b] = registry.pending[b] /\ new.enrolled[b] = registry.enrolled[b]
      /\ new.pending[a] = Nobody /\ new.enrolled[a] = h
  BY <1>1, <1>2 DEF RegistryType
<1> HIDE DEF new
<1>4. registry.pending[a] \in EnrolTokens /\ registry.pending[a] # Nobody
      /\ \A b \in Servers \ {a} : registry.enrolled[b] # h
  BY <1>1, NobodyApart DEF EnrollByToken, OthersInv
<1>5. \A b \in Servers : HasRecord(registry, b) <=> HasRecord(new, b)
  BY <1>3, <1>4, NobodyApart DEF HasRecord
<1>6. Opens(new)
  BY <1>1, <1>2, <1>5, SameNames DEF Opens
<1>7. \A b \in Servers : new.pending[b] \notin spent \cup {registry.pending[a]}
  <2>1. Nobody \notin spent
    BY NobodyApart DEF CredentialsInv
  <2>2. \A b \in Servers \ {a} : registry.pending[b] \notin spent
    BY <1>1 DEF Sound
  <2>3. \A b \in Servers \ {a} : registry.pending[b] # registry.pending[a]
    BY <1>1, <1>4 DEF Sound
  <2> QED BY <1>3, <1>4, <2>1, <2>2, <2>3
<1>8. \A b \in Servers : <<b, new.enrolled[b]>> \notin
         (gone \cup ({<<a, registry.enrolled[a]>>} \ {<<a, Nobody>>})) \ {<<a, h>>}
  BY <1>1, <1>3 DEF Sound
<1>9. \A b, c \in Servers : b # c /\ new.pending[b] # Nobody => new.pending[b] # new.pending[c]
  BY <1>1, <1>3 DEF Sound
<1>10. \A b, c \in Servers : b # c /\ new.enrolled[b] # Nobody => new.enrolled[b] # new.enrolled[c]
  BY <1>1, <1>3, <1>4 DEF Sound
<1>11. Sound(new, spent \cup {registry.pending[a]},
             (gone \cup ({<<a, registry.enrolled[a]>>} \ {<<a, Nobody>>})) \ {<<a, h>>})
  BY <1>2, <1>6, <1>7, <1>8, <1>9, <1>10 DEF Sound
<1> QED BY <1>3, <1>4, <1>5, <1>11 DEF new

-----------------------------------------------------------------------------
(* Frames: what a part of the invariant is about.                          *)

LEMMA CredentialsFrame ==
    ASSUME CredentialsInv, UNCHANGED credentials
    PROVE  CredentialsInv'
BY DEF credentials, CredentialsInv, Sound

LEMMA SessionsFrame ==
    ASSUME SessionsInv, UNCHANGED <<sessions, streams>>,
           \A a \in Servers : sessions[a] # Nobody => registry'.enrolled[a] = registry.enrolled[a]
    PROVE  SessionsInv'
BY DEF SessionsInv, SessionsAreAuthorized

LEMMA RecordsFrame ==
    ASSUME RecordsInv, UNCHANGED <<lane, results, located>>,
           retained' \subseteq retained, doubt \subseteq doubt', doubt' \subseteq Servers,
           \A a \in Servers : HasRecord(registry, a) => HasRecord(registry', a),
           \A a \in Servers : HasRecord(registry', a) => HasRecord(registryFile', a) \/ a \in doubt'
    PROVE  RecordsInv'
<1> SUFFICES /\ lane.kind \in {"result", "revoke"} => HasRecord(registry', lane.server)
             /\ ResultsHaveRecords' /\ RetainedHaveRecords'
  BY DEF RecordsInv, HasRecord
<1> QED BY DEF RecordsInv, ResultsHaveRecords, RetainedHaveRecords

LEMMA SpendLeaves ==
    ASSUME OthersInv, NEW what \in {"enrolments", "edits", "revocations", "frames", "faults",
                                    "restarts", "crashes", "drops"},
           May(what), Spend(what)
    PROVE  allowance' \in [enrolments : Nat, edits : Nat, revocations : Nat, frames : Nat, faults : Nat,
                           restarts : Nat, crashes : Nat, drops : Nat]
BY DEF OthersInv, May, Spend

-----------------------------------------------------------------------------
(* The requests that create an enrolment, and the ones that rename.        *)

LEMMA Drawn ==
    ASSUME NEW t, unused # {}, fresh(t)
    PROVE  t \in unused /\ t \in EnrolTokens
BY DEF fresh, unused

LEMMA CreatedStep ==
    ASSUME CredentialsInv, SessionsInv, OthersInv, NEW a \in Servers, NEW t, NEW name \in ServerNames \cup {Nobody},
           NEW replacement \in BOOLEAN, NEW requireUnused \in BOOLEAN,
           replacement => name = Nobody,
           createEnrollment(a, t, name, replacement, requireUnused)
    PROVE  /\ CredentialsInv' /\ t \in EnrolTokens
           /\ registryFile' = registry' /\ registry'.enrolled = registry.enrolled
           /\ \A b \in Servers : HasRecord(registry, b) => HasRecord(registry', b)
           /\ HasRecord(registry', a)
           /\ allowance' \in [enrolments : Nat, edits : Nat, revocations : Nat, frames : Nat, faults : Nat,
                              restarts : Nat, crashes : Nat, drops : Nat]
<1> DEFINE new == enrolment(a, t, name)
<1>1. /\ t \in unused /\ t \in EnrolTokens
      /\ createEnrollmentAllowed(a, name, replacement, requireUnused)
      /\ replaceRegistry(new) /\ UNCHANGED gone
      /\ spent' = spent \cup ({registry.pending[a]} \ {Nobody})
      /\ May("enrolments") /\ Spend("enrolments")
  BY Drawn DEF createEnrollment
<1>2. /\ Sound(new, spent', gone')
      /\ \A b \in Servers : HasRecord(registry, b) => HasRecord(new, b)
      /\ HasRecord(new, a) /\ new.enrolled = registry.enrolled
  BY <1>1, EnrolmentSound
<1> HIDE DEF new
<1>3. spent' \subseteq EnrolTokens /\ gone' \subseteq Servers \X AgentHosts
  BY <1>1 DEF CredentialsInv, Sound, RegistryType
<1>4. CredentialsInv' /\ registry' = new /\ registryFile' = new
  BY <1>1, <1>2, <1>3, Written
<1> QED BY <1>1, <1>2, <1>4, SpendLeaves

(* The lane is taken by a request about a Server that has a record.        *)
LEMMA LaneTaken ==
    ASSUME RecordsInv, free, NEW a \in Servers, HasRecord(registry', a),
           lane' \in LaneType, lane'.kind \in {"result", "revoke"}, lane'.server = a,
           lane'.kind = "result" => lane'.token \in EnrolTokens,
           UNCHANGED <<results, located, retained, doubt>>,
           \A b \in Servers : HasRecord(registry, b) => HasRecord(registry', b),
           \A b \in Servers : HasRecord(registry', b) => HasRecord(registryFile', b) \/ b \in doubt
    PROVE  RecordsInv'
<1>1. lane.server = Nobody
  BY DEF RecordsInv, free
<1>2. \A r \in results : r.server \in Servers /\ r.server # Nobody
  BY NobodyApart DEF RecordsInv
<1>3. ResultsHaveRecords'
  BY <1>1, <1>2 DEF RecordsInv, ResultsHaveRecords
<1>4. RetainedHaveRecords'
  BY DEF RecordsInv, RetainedHaveRecords
<1> QED BY <1>3, <1>4 DEF RecordsInv, HasRecord

LEMMA WebEnrolmentStep ==
    ASSUME AccessInv, NEW a \in Servers, NEW t \in EnrolTokens,
           (\E name \in ServerNames : createServer(a, name, t)) \/ replaceServer(a, t)
    PROVE  AccessInv'
<1>i. CredentialsInv /\ SessionsInv /\ RecordsInv /\ OthersInv
  BY DEF AccessInv
<1>1. PICK name \in ServerNames \cup {Nobody}, replacement \in BOOLEAN, requireUnused \in BOOLEAN :
         /\ free /\ (replacement => name = Nobody)
         /\ createEnrollment(a, t, name, replacement, requireUnused)
         /\ beginResult(a, t)
         /\ UNCHANGED <<expired, known, results, sessions, streams, hosts, retained, located, doubt>>
  <2>1. ASSUME NEW name \in ServerNames, createServer(a, name, t)
        PROVE  /\ free /\ createEnrollment(a, t, name, FALSE, TRUE) /\ beginResult(a, t)
               /\ UNCHANGED <<expired, known, results, sessions, streams, hosts, retained, located, doubt>>
    BY <2>1, Zenon DEF createServer
  <2>2. ASSUME replaceServer(a, t)
        PROVE  /\ free /\ createEnrollment(a, t, Nobody, TRUE, FALSE) /\ beginResult(a, t)
               /\ UNCHANGED <<expired, known, results, sessions, streams, hosts, retained, located, doubt>>
    BY <2>2, Zenon DEF replaceServer
  <2> QED BY <2>1, <2>2, Zenon
<1>2. /\ CredentialsInv' /\ t \in EnrolTokens
      /\ registryFile' = registry' /\ registry'.enrolled = registry.enrolled
      /\ \A b \in Servers : HasRecord(registry, b) => HasRecord(registry', b)
      /\ HasRecord(registry', a)
      /\ allowance' \in [enrolments : Nat, edits : Nat, revocations : Nat, frames : Nat, faults : Nat,
                         restarts : Nat, crashes : Nat, drops : Nat]
  BY <1>i, <1>1, CreatedStep, Zenon
<1>3. SessionsInv'
  BY <1>i, <1>1, <1>2, SessionsFrame
<1>4. lane' = [kind |-> "result", server |-> a, token |-> t, force |-> FALSE]
  BY <1>1 DEF beginResult, idle
<1>5. lane' \in LaneType /\ lane'.kind = "result" /\ lane'.server = a /\ lane'.token = t
  BY <1>4 DEF LaneType
<1>6. RecordsInv'
  BY <1>i, <1>1, <1>2, <1>5, LaneTaken
<1>7. OthersInv'
  BY <1>i, <1>1, <1>2 DEF OthersInv
<1> QED BY <1>2, <1>3, <1>6, <1>7 DEF AccessInv

LEMMA AdminStep ==
    ASSUME AccessInv, NEW a \in Servers, NEW t \in EnrolTokens, NEW name \in ServerNames \cup {Nobody},
           adminHandler(a, name, t)
    PROVE  AccessInv'
<1>i. CredentialsInv /\ SessionsInv /\ RecordsInv /\ OthersInv
  BY DEF AccessInv
<1>1. PICK replacement \in BOOLEAN, requireUnused \in BOOLEAN :
         (replacement => name = Nobody) /\ createEnrollment(a, t, name, replacement, requireUnused)
  <2>1. CASE createEnrollment(a, t, name, FALSE, TRUE)
    BY <2>1, Zenon
  <2>2. CASE name = Nobody /\ createEnrollment(a, t, name, registry.enrolled[a] # Nobody, FALSE)
    <3>1. (registry.enrolled[a] # Nobody) \in BOOLEAN
      OBVIOUS
    <3> QED BY <2>2, <3>1, Zenon
  <2> QED BY <2>1, <2>2, Zenon DEF adminHandler
<1>2. /\ CredentialsInv'
      /\ registryFile' = registry' /\ registry'.enrolled = registry.enrolled
      /\ \A b \in Servers : HasRecord(registry, b) => HasRecord(registry', b)
      /\ allowance' \in [enrolments : Nat, edits : Nat, revocations : Nat, frames : Nat, faults : Nat,
                         restarts : Nat, crashes : Nat, drops : Nat]
  BY <1>i, <1>1, CreatedStep, Zenon
<1>3. /\ known' = known \cup {t}
      /\ UNCHANGED <<expired, results, lane, sessions, streams, hosts, retained, located, doubt>>
  BY Zenon DEF adminHandler
<1>4. SessionsInv'
  BY <1>i, <1>2, <1>3, SessionsFrame
<1>5. RecordsInv'
  <2>1. doubt \subseteq Servers
    BY <1>i DEF RecordsInv
  <2> QED BY <1>i, <1>2, <1>3, <2>1, RecordsFrame
<1>6. OthersInv'
  BY <1>i, <1>2, <1>3 DEF OthersInv
<1> QED BY <1>2, <1>4, <1>5, <1>6 DEF AccessInv

LEMMA NotCreatedStep ==
    ASSUME AccessInv, NEW a \in Servers, NEW t \in EnrolTokens, NEW given \in ServerNames,
           enrollmentNotCreated(a, given, t)
    PROVE  AccessInv'
<1>i. CredentialsInv /\ SessionsInv /\ RecordsInv /\ OthersInv
  BY DEF AccessInv
<1>1. PICK name \in ServerNames \cup {Nobody}, replacement \in BOOLEAN, requireUnused \in BOOLEAN :
         (replacement => name = Nobody) /\ createEnrollmentFails(a, t, name, replacement, requireUnused)
  <2>1. CASE createEnrollmentFails(a, t, given, FALSE, TRUE)
    BY <2>1, Zenon
  <2>2. CASE createEnrollmentFails(a, t, Nobody, TRUE, FALSE)
    BY <2>2, Zenon
  <2> QED BY <2>1, <2>2, Zenon DEF enrollmentNotCreated
<1> DEFINE new == enrolment(a, t, name)
<1>2. /\ t \in unused /\ createEnrollmentAllowed(a, name, replacement, requireUnused)
      /\ persistFails(new) /\ UNCHANGED <<spent, gone>>
  BY <1>1, Drawn DEF createEnrollmentFails
<1>3. /\ Sound(new, spent \cup ({registry.pending[a]} \ {Nobody}), gone)
      /\ \A b \in Servers : HasRecord(registry, b) => HasRecord(new, b)
  BY <1>i, <1>1, <1>2, EnrolmentSound
<1> HIDE DEF new
<1>4. Sound(new, spent, gone)
  BY <1>3, FewerAreDead
<1>5. CredentialsInv' /\ registry' = registry /\ registryFile' \in {registryFile, new}
  BY <1>i, <1>2, <1>4, NotWritten
<1>6. UNCHANGED <<expired, known, results, lane, sessions, streams, hosts, retained, located, doubt>>
  BY Zenon DEF enrollmentNotCreated
<1>7. SessionsInv'
  BY <1>i, <1>5, <1>6, SessionsFrame
<1>8. RecordsInv'
  <2>1. doubt \subseteq Servers /\ \A b \in Servers : HasRecord(registry, b) => HasRecord(registryFile, b) \/ b \in doubt
    BY <1>i DEF RecordsInv
  <2> QED BY <1>i, <1>3, <1>5, <1>6, <2>1, RecordsFrame
<1>9. OthersInv'
  BY <1>i, <1>2, <1>6, SpendLeaves DEF OthersInv, persistFails
<1> QED BY <1>5, <1>7, <1>8, <1>9 DEF AccessInv

LEMMA RenameStep ==
    ASSUME AccessInv, NEW a \in Servers, NEW name \in ServerNames, RenameDisplayName(a, name)
    PROVE  AccessInv'
<1>i. CredentialsInv /\ SessionsInv /\ RecordsInv /\ OthersInv
  BY DEF AccessInv
<1> DEFINE new == [registry EXCEPT !.names[a] = name]
<1>1. /\ HasRecord(registry, a) /\ ~displayNameConflicts(registry, a, name, TRUE)
      /\ replaceRegistry(new) /\ May("edits") /\ Spend("edits")
      /\ UNCHANGED <<expired, known, results, lane, sessions, streams, hosts, retained, located, spent, gone, doubt>>
  BY Zenon DEF RenameDisplayName
<1>2. /\ Sound(new, spent, gone) /\ new.enrolled = registry.enrolled
      /\ \A b \in Servers : HasRecord(registry, b) <=> HasRecord(new, b)
  BY <1>i, <1>1, RenamedSound
<1> HIDE DEF new
<1>3. CredentialsInv' /\ registry' = new /\ registryFile' = new
  <2>1. spent' \subseteq EnrolTokens /\ gone' \subseteq Servers \X AgentHosts /\ Sound(new, spent', gone')
    BY <1>i, <1>1, <1>2 DEF CredentialsInv
  <2> QED BY <1>1, <2>1, Written
<1>4. SessionsInv'
  BY <1>i, <1>1, <1>2, <1>3, SessionsFrame
<1>5. RecordsInv'
  <2>1. doubt \subseteq Servers
    BY <1>i DEF RecordsInv
  <2> QED BY <1>i, <1>1, <1>2, <1>3, <2>1, RecordsFrame
<1>6. OthersInv'
  BY <1>i, <1>1, SpendLeaves DEF OthersInv
<1> QED BY <1>3, <1>4, <1>5, <1>6 DEF AccessInv

LEMMA RenameFailsStep ==
    ASSUME AccessInv, NEW a \in Servers, NEW name \in ServerNames, RenameNotPersisted(a, name)
    PROVE  AccessInv'
<1>i. CredentialsInv /\ SessionsInv /\ RecordsInv /\ OthersInv
  BY DEF AccessInv
<1> DEFINE new == [registry EXCEPT !.names[a] = name]
<1>1. /\ HasRecord(registry, a) /\ ~displayNameConflicts(registry, a, name, TRUE) /\ persistFails(new)
      /\ UNCHANGED <<expired, known, results, lane, sessions, streams, hosts, retained, located, spent, gone, doubt>>
  BY Zenon DEF RenameNotPersisted
<1>2. /\ Sound(new, spent, gone)
      /\ \A b \in Servers : HasRecord(registry, b) <=> HasRecord(new, b)
  BY <1>i, <1>1, RenamedSound
<1> HIDE DEF new
<1>3. CredentialsInv' /\ registry' = registry /\ registryFile' \in {registryFile, new}
  BY <1>i, <1>1, <1>2, NotWritten
<1>4. SessionsInv'
  BY <1>i, <1>1, <1>3, SessionsFrame
<1>5. RecordsInv'
  <2>1. doubt \subseteq Servers /\ \A b \in Servers : HasRecord(registry, b) => HasRecord(registryFile, b) \/ b \in doubt
    BY <1>i DEF RecordsInv
  <2> QED BY <1>i, <1>1, <1>2, <1>3, <2>1, RecordsFrame
<1>6. OthersInv'
  BY <1>i, <1>1, SpendLeaves DEF OthersInv, persistFails
<1> QED BY <1>3, <1>4, <1>5, <1>6 DEF AccessInv

-----------------------------------------------------------------------------
(* Results.                                                                *)

LEMMA ResultStep ==
    ASSUME AccessInv, storeEnrollmentResult
    PROVE  AccessInv'
<1>i. CredentialsInv /\ SessionsInv /\ RecordsInv /\ OthersInv
  BY DEF AccessInv
<1>1. PICK kept \in SUBSET results :
         /\ lane.kind = "result" /\ evictOldestEnrollmentResult(kept)
         /\ results' = kept \cup {[server |-> lane.server, token |-> lane.token]}
         /\ lane' = idle
         /\ UNCHANGED <<credentials, expired, known, sessions, streams, hosts, retained, located, doubt, allowance>>
  BY DEF storeEnrollmentResult
<1>2. /\ lane.server \in Servers /\ lane.token \in EnrolTokens /\ HasRecord(registry, lane.server)
      /\ results \subseteq [server : Servers, token : EnrolTokens]
      /\ IsFiniteSet(results) /\ Cardinality(results) <= ResultLimit
  BY <1>i, <1>1 DEF RecordsInv
<1>3. IsFiniteSet(kept) /\ Cardinality(kept) \in Nat /\ Cardinality(results) \in Nat
  BY <1>2, FS_Subset, FS_CardinalityType
<1>4. Cardinality(kept) < ResultLimit
  <2>1. CASE Cardinality(results) >= ResultLimit
    <3>1. PICK oldest \in results : kept = results \ {oldest}
      BY <1>1, <2>1, Zenon DEF evictOldestEnrollmentResult
    <3>2. Cardinality(kept) = Cardinality(results) - 1
      BY <1>2, <3>1, FS_RemoveElement
    <3> QED BY <3>2, <1>2, <1>3, NobodyApart
  <2>2. CASE ~(Cardinality(results) >= ResultLimit)
    <3>1. kept = results
      BY <1>1, <2>2, Zenon DEF evictOldestEnrollmentResult
    <3> QED BY <3>1, <2>2, <1>3, NobodyApart
  <2> QED BY <2>1, <2>2
<1>5. IsFiniteSet(results') /\ Cardinality(results') <= ResultLimit
  <2> DEFINE added == [server |-> lane.server, token |-> lane.token]
  <2>1. results' = kept \cup {added}
    BY <1>1
  <2> HIDE DEF added
  <2>2. IsFiniteSet(kept \cup {added})
    BY <1>3, FS_AddElement
  <2>3. CASE added \in kept
    <3>1. kept \cup {added} = kept
      BY <2>3
    <3> QED BY <3>1, <2>1, <2>2, <1>3, <1>4, NobodyApart
  <2>4. CASE added \notin kept
    <3>1. Cardinality(kept \cup {added}) = Cardinality(kept) + 1
      BY <2>4, <1>3, FS_AddElement
    <3> QED BY <3>1, <2>1, <2>2, <1>3, <1>4, NobodyApart
  <2> QED BY <2>3, <2>4
<1>6. results' \subseteq [server : Servers, token : EnrolTokens]
  BY <1>1, <1>2
<1>7. registry' = registry /\ registryFile' = registryFile
  BY <1>1 DEF credentials
<1>8. CredentialsInv' /\ SessionsInv' /\ OthersInv'
  BY <1>i, <1>1, <1>7, CredentialsFrame, SessionsFrame DEF OthersInv
<1>9. ResultsHaveRecords'
  BY <1>i, <1>1, <1>2, <1>7 DEF RecordsInv, ResultsHaveRecords, HasRecord
<1>10. lane' \in LaneType /\ lane'.kind = "idle" /\ lane'.server = Nobody
  BY <1>1 DEF idle, LaneType
<1>11. RecordsInv'
  BY <1>i, <1>1, <1>5, <1>6, <1>7, <1>9, <1>10 DEF RecordsInv, RetainedHaveRecords, HasRecord
<1> QED BY <1>8, <1>11 DEF AccessInv

LEMMA FewerResults ==
    ASSUME RecordsInv, NEW few \in SUBSET results
    PROVE  IsFiniteSet(few) /\ Cardinality(few) <= ResultLimit
<1>1. /\ IsFiniteSet(results) /\ Cardinality(results) <= ResultLimit
      /\ IsFiniteSet(few) /\ Cardinality(few) <= Cardinality(results)
      /\ Cardinality(results) \in Nat /\ Cardinality(few) \in Nat
  BY FS_Subset, FS_CardinalityType DEF RecordsInv
<1> QED BY <1>1, NobodyApart

LEMMA TakeStep ==
    ASSUME AccessInv, NEW r \in results, NEW seen \in BOOLEAN, takeEnrollmentResult(r, seen)
    PROVE  AccessInv'
<1>i. CredentialsInv /\ SessionsInv /\ RecordsInv /\ OthersInv
  BY DEF AccessInv
<1>1. /\ results' = results \ {r} /\ known' \subseteq known \cup {r.token}
      /\ UNCHANGED <<credentials, expired, lane, sessions, streams, hosts, retained, located, doubt>>
  BY DEF takeEnrollmentResult
<1>2. \/ allowance' = allowance
      \/ May("edits") /\ Spend("edits")
  BY Zenon DEF takeEnrollmentResult
<1>3. r.token \in EnrolTokens
  BY <1>i DEF RecordsInv
<1>4. registry' = registry /\ registryFile' = registryFile
  BY <1>1 DEF credentials
<1>5. CredentialsInv' /\ SessionsInv'
  BY <1>i, <1>1, <1>4, CredentialsFrame, SessionsFrame
<1>6. OthersInv'
  BY <1>i, <1>1, <1>2, <1>3, SpendLeaves DEF OthersInv
<1>7. IsFiniteSet(results') /\ Cardinality(results') <= ResultLimit
  BY <1>i, <1>1, FewerResults
<1>8. RecordsInv'
  BY <1>i, <1>1, <1>4, <1>7 DEF RecordsInv, ResultsHaveRecords, RetainedHaveRecords, HasRecord
<1> QED BY <1>5, <1>6, <1>8 DEF AccessInv

-----------------------------------------------------------------------------
(* Revocation.                                                             *)

LEMMA RevokeServerStep ==
    ASSUME AccessInv, NEW a \in Servers, NEW force \in BOOLEAN, revokeServer(a, force)
    PROVE  AccessInv'
<1>i. CredentialsInv /\ SessionsInv /\ RecordsInv /\ OthersInv
  BY DEF AccessInv
<1>1. /\ free /\ HasRecord(registry, a) /\ May("revocations") /\ Spend("revocations")
      /\ lane' = [idle EXCEPT !.kind = "revoke", !.server = a, !.force = force]
      /\ UNCHANGED <<credentials, expired, known, results, sessions, streams, hosts, retained, located, doubt>>
  BY Zenon DEF revokeServer
<1>2. registry' = registry /\ registryFile' = registryFile
  BY <1>1 DEF credentials
<1>3. CredentialsInv' /\ SessionsInv'
  BY <1>i, <1>1, <1>2, CredentialsFrame, SessionsFrame
<1>4. OthersInv'
  BY <1>i, <1>1, SpendLeaves DEF OthersInv
<1>5. lane' \in LaneType /\ lane'.kind = "revoke" /\ lane'.server = a
  BY <1>1 DEF idle, LaneType
<1>6. RecordsInv'
  <2>1. \A b \in Servers : HasRecord(registry', b) => HasRecord(registryFile', b) \/ b \in doubt
    BY <1>i, <1>2 DEF RecordsInv
  <2> QED BY <1>i, <1>1, <1>2, <1>5, <2>1, LaneTaken
<1> QED BY <1>3, <1>4, <1>6 DEF AccessInv

(* The session of a Server is ended.                                       *)
LEMMA DisconnectStep ==
    ASSUME SessionsInv, NEW a \in Servers, Disconnect(a),
           \A b \in Servers \ {a} : registry'.enrolled[b] = registry.enrolled[b]
    PROVE  SessionsInv'
<1>1. /\ sessions' \in [Servers -> Streams \cup {Nobody}] /\ sessions'[a] = Nobody
      /\ \A b \in Servers \ {a} : sessions'[b] = sessions[b]
  BY DEF SessionsInv, Disconnect
<1>2. ASSUME NEW s \in Streams
      PROVE  /\ streams'[s] \in StreamType
             /\ streams'[s].host = streams[s].host /\ streams'[s].server = streams[s].server
             /\ streams'[s].stage = streams[s].stage
             /\ s # sessions[a] => streams'[s].done = streams[s].done
  BY DEF SessionsInv, Disconnect, StreamType
<1>3. streams' \in [Streams -> StreamType]
  BY <1>2 DEF Disconnect
<1>4. \A s \in Streams : s = sessions[a] => streams[s].stage # "challenged"
  BY NobodyApart DEF SessionsInv
<1>5. \A b \in Servers \ {a} : sessions[b] # Nobody => sessions[b] # sessions[a] /\ sessions[b] \in Streams
  BY DEF SessionsInv, SessionsAreAuthorized
<1>6. SessionsAreAuthorized'
  BY <1>1, <1>2, <1>5 DEF SessionsInv, SessionsAreAuthorized
<1>7. \A b \in Servers : sessions'[b] # Nobody => streams'[sessions'[b]].stage \notin {"closed", "challenged"}
  BY <1>1, <1>2, <1>5 DEF SessionsInv
<1>8. /\ \A s \in Streams : streams'[s].stage # "closed" =>
            streams'[s].server \in Servers /\ streams'[s].host \in AgentHosts
      /\ \A s \in Streams : streams'[s].stage = "challenged" => ~streams'[s].done
  BY <1>2, <1>4 DEF SessionsInv
<1> QED BY <1>1, <1>3, <1>6, <1>7, <1>8 DEF SessionsInv

LEMMA RevokeAgentStep ==
    ASSUME AccessInv, revokeAgent
    PROVE  AccessInv'
<1> DEFINE a == lane.server
           new == Revoked(registry, a)
<1>i. CredentialsInv /\ SessionsInv /\ RecordsInv /\ OthersInv
  BY DEF AccessInv
<1>1. /\ lane.kind = "revoke" /\ retained' = retained \ {a}
      /\ replaceRegistry(new)
      /\ spent' = spent \cup ({registry.pending[a]} \ {Nobody})
      /\ gone' = gone \cup ({<<a, registry.enrolled[a]>>} \ {<<a, Nobody>>})
      /\ Disconnect(a)
      /\ lane' = [lane EXCEPT !.kind = "cleanup"]
      /\ UNCHANGED <<expired, known, results, hosts, located, doubt, allowance>>
  BY Zenon DEF revokeAgent
<1>2. a \in Servers
  BY <1>i, <1>1 DEF RecordsInv
<1>3. /\ Sound(new, spent', gone')
      /\ \A b \in Servers \ {a} : HasRecord(registry, b) <=> HasRecord(new, b)
      /\ ~HasRecord(new, a)
      /\ \A b \in Servers \ {a} : new.enrolled[b] = registry.enrolled[b]
  BY <1>i, <1>1, <1>2, RevokedSound
<1> HIDE DEF new
<1>4. spent' \subseteq EnrolTokens /\ gone' \subseteq Servers \X AgentHosts
  <2>1. /\ registry.pending[a] \in EnrolTokens \cup {Nobody} /\ registry.enrolled[a] \in AgentHosts \cup {Nobody}
        /\ spent \subseteq EnrolTokens /\ gone \subseteq Servers \X AgentHosts
    BY <1>i, <1>2 DEF CredentialsInv, Sound, RegistryType
  <2> QED BY <2>1, <1>1, <1>2
<1>5. CredentialsInv' /\ registry' = new /\ registryFile' = new
  BY <1>1, <1>3, <1>4, Written
<1>6. SessionsInv'
  BY <1>i, <1>1, <1>2, <1>3, <1>5, DisconnectStep
<1>7. OthersInv'
  BY <1>i, <1>1 DEF OthersInv
<1>8. RecordsInv'
  <2> HIDE DEF a
  <2>1. lane' \in LaneType /\ lane'.kind = "cleanup" /\ lane'.server = a
    BY <1>i, <1>1 DEF RecordsInv, LaneType, a
  <2>2. ResultsHaveRecords'
    <3>1. ASSUME NEW r \in results
          PROVE  HasRecord(registry', r.server) \/ lane'.server = r.server
      <4>1. r.server \in Servers /\ (HasRecord(registry, r.server) \/ lane.server = r.server)
        BY <1>i DEF RecordsInv, ResultsHaveRecords
      <4> QED BY <4>1, <2>1, <1>3, <1>5 DEF a
    <3> QED BY <3>1, <1>1 DEF ResultsHaveRecords
  <2>3. RetainedHaveRecords'
    BY <1>i, <1>1, <1>3, <1>5 DEF RecordsInv, RetainedHaveRecords
  <2> QED BY <1>i, <1>1, <1>2, <1>5, <2>1, <2>2, <2>3 DEF RecordsInv
<1> QED BY <1>5, <1>6, <1>7, <1>8 DEF AccessInv

(* The lane is given up: the records it was about are still there.         *)
LEMMA LaneGivenUp ==
    ASSUME RecordsInv, lane.kind = "revoke", lane' = idle, UNCHANGED <<registry, results, located>>,
           retained' \subseteq retained, doubt' \in {doubt, doubt \cup {lane.server}},
           \A b \in Servers : HasRecord(registry', b) => HasRecord(registryFile', b) \/ b \in doubt'
    PROVE  RecordsInv'
<1>1. lane' \in LaneType /\ lane'.kind = "idle" /\ lane'.server = Nobody
  BY DEF idle, LaneType
<1>2. ResultsHaveRecords' /\ RetainedHaveRecords'
  BY DEF RecordsInv, ResultsHaveRecords, RetainedHaveRecords, HasRecord
<1> QED BY <1>1, <1>2 DEF RecordsInv

LEMMA RevokeFailsStep ==
    ASSUME AccessInv, revokeAgentFails
    PROVE  AccessInv'
<1> DEFINE a == lane.server
           new == Revoked(registry, a)
<1>i. CredentialsInv /\ SessionsInv /\ RecordsInv /\ OthersInv
  BY DEF AccessInv
<1>1. /\ lane.kind = "revoke" /\ lane' = idle
      /\ UNCHANGED <<expired, known, results, sessions, streams, hosts, located, spent, gone>>
  BY Zenon DEF revokeAgentFails
<1>2. a \in Servers /\ \A b \in Servers : HasRecord(registry, b) => HasRecord(registryFile, b) \/ b \in doubt
  BY <1>i, <1>1 DEF RecordsInv
<1>3. /\ \A b \in Servers \ {a} : HasRecord(registry, b) <=> HasRecord(new, b)
      /\ Sound(new, spent, gone)
  <2>1. /\ Sound(new, spent \cup ({registry.pending[a]} \ {Nobody}),
                      gone \cup ({<<a, registry.enrolled[a]>>} \ {<<a, Nobody>>}))
        /\ \A b \in Servers \ {a} : HasRecord(registry, b) <=> HasRecord(new, b)
    BY <1>i, <1>2, RevokedSound
  <2> QED BY <2>1, FewerAreDead
<1>4. CASE UNCHANGED <<registry, registryFile, retained, doubt, allowance>>
  <2>1. CredentialsInv' /\ SessionsInv' /\ OthersInv'
    BY <1>i, <1>1, <1>4, CredentialsFrame, SessionsFrame DEF credentials, OthersInv
  <2>2. RecordsInv'
    BY <1>i, <1>1, <1>2, <1>4, LaneGivenUp DEF HasRecord
  <2> QED BY <2>1, <2>2 DEF AccessInv
<1>5. CASE /\ May("faults") /\ Spend("faults")
           /\ retained' \in {retained, retained \ {a}}
           /\ doubt' = doubt \cup {a}
           /\ UNCHANGED <<registry, registryFile>>
  <2>1. CredentialsInv' /\ SessionsInv' /\ OthersInv'
    BY <1>i, <1>1, <1>5, CredentialsFrame, SessionsFrame, SpendLeaves DEF credentials, OthersInv
  <2>2. RecordsInv'
    BY <1>i, <1>1, <1>2, <1>5, LaneGivenUp DEF HasRecord
  <2> QED BY <2>1, <2>2 DEF AccessInv
<1>6. CASE retained' = retained \ {a} /\ persistFails(new) /\ doubt' = doubt \cup {a}
  <2> HIDE DEF new
  <2>1. CredentialsInv' /\ registry' = registry /\ registryFile' \in {registryFile, new}
    BY <1>i, <1>1, <1>3, <1>6, NotWritten
  <2>2. SessionsInv' /\ OthersInv'
    BY <1>i, <1>1, <1>6, <2>1, SessionsFrame, SpendLeaves DEF OthersInv, persistFails
  <2>3. \A b \in Servers : HasRecord(registry', b) => HasRecord(registryFile', b) \/ b \in doubt'
    BY <1>2, <1>3, <1>6, <2>1
  <2>4. RecordsInv'
    BY <1>i, <1>1, <1>6, <2>1, <2>3, LaneGivenUp
  <2> QED BY <2>1, <2>2, <2>4 DEF AccessInv
<1> QED BY <1>4, <1>5, <1>6, Zenon DEF revokeAgentFails

LEMMA FinishStep ==
    ASSUME AccessInv, finishRevocation
    PROVE  AccessInv'
<1> DEFINE a == lane.server
<1>i. CredentialsInv /\ SessionsInv /\ RecordsInv /\ OthersInv
  BY DEF AccessInv
<1>1. /\ lane.kind = "cleanup" /\ located' = located \ {a} /\ lane' = idle
      /\ results' = {r \in results : r.server # a}
      /\ UNCHANGED <<credentials, expired, known, sessions, streams, hosts, retained, doubt, allowance>>
  BY Zenon DEF finishRevocation
<1>2. registry' = registry /\ registryFile' = registryFile
  BY <1>1 DEF credentials
<1>3. CredentialsInv' /\ SessionsInv' /\ OthersInv'
  BY <1>i, <1>1, <1>2, CredentialsFrame, SessionsFrame DEF OthersInv
<1>4. IsFiniteSet(results') /\ Cardinality(results') <= ResultLimit
  BY <1>i, <1>1, FewerResults
<1>5. lane' \in LaneType /\ lane'.kind = "idle" /\ lane'.server = Nobody
  BY <1>1 DEF idle, LaneType
<1>6. RecordsInv'
  BY <1>i, <1>1, <1>2, <1>4, <1>5 DEF RecordsInv, ResultsHaveRecords, RetainedHaveRecords, HasRecord
<1> QED BY <1>3, <1>6 DEF AccessInv

-----------------------------------------------------------------------------
(* Agent machines.                                                         *)

LEMMA HangUpStep ==
    ASSUME SessionsInv, NEW h \in AgentHosts, streams' = hangUp(h), UNCHANGED <<registry, sessions>>
    PROVE  SessionsInv'
<1>1. ASSUME NEW s \in Streams
      PROVE  /\ streams'[s] \in StreamType
             /\ streams'[s].host = streams[s].host /\ streams'[s].server = streams[s].server
             /\ streams'[s].stage = streams[s].stage /\ streams'[s].done = streams[s].done
  BY DEF SessionsInv, hangUp, StreamType
<1>2. streams' \in [Streams -> StreamType]
  BY <1>1 DEF hangUp
<1>3. \A a \in Servers : sessions[a] # Nobody => sessions[a] \in Streams
  BY DEF SessionsInv
<1> HIDE DEF hangUp
<1> QED BY <1>1, <1>2, <1>3 DEF SessionsInv, SessionsAreAuthorized

LEMMA HostStep ==
    ASSUME AccessInv, NEW h \in AgentHosts,
           (\E t \in EnrolTokens : writeEnrollmentToken(h, t)) \/ HostRestarts(h)
    PROVE  AccessInv'
<1>i. CredentialsInv /\ SessionsInv /\ RecordsInv /\ OthersInv
  BY DEF AccessInv
<1>1. /\ streams' = hangUp(h)
      /\ UNCHANGED <<credentials, expired, known, results, lane, sessions, retained, located, doubt>>
  BY Zenon DEF writeEnrollmentToken, HostRestarts
<1>2. CredentialsInv' /\ UNCHANGED <<registry, registryFile>>
  BY <1>i, <1>1, CredentialsFrame DEF credentials
<1>3. SessionsInv'
  BY <1>i, <1>1, <1>2, HangUpStep
<1>4. RecordsInv'
  <2>1. doubt \subseteq Servers /\ \A b \in Servers : HasRecord(registry, b) => HasRecord(registryFile, b) \/ b \in doubt
    BY <1>i DEF RecordsInv
  <2> QED BY <1>i, <1>1, <1>2, <2>1, RecordsFrame
<1>5. OthersInv'
  <2>1. ASSUME NEW t \in EnrolTokens, writeEnrollmentToken(h, t)
        PROVE  OthersInv'
    <3>1. hosts' = [hosts EXCEPT ![h] = [token |-> t, phase |-> "boot"]] /\ allowance' = allowance
      BY <2>1 DEF writeEnrollmentToken
    <3> QED BY <1>i, <1>1, <3>1 DEF OthersInv
  <2>2. ASSUME HostRestarts(h)
        PROVE  OthersInv'
    BY <1>i, <1>1, <2>2, SpendLeaves DEF HostRestarts, OthersInv
  <2> QED BY <2>1, <2>2
<1> QED BY <1>2, <1>3, <1>4, <1>5 DEF AccessInv

LEMMA EnrollStep ==
    ASSUME AccessInv, NEW h \in AgentHosts, NEW a \in Servers, NEW answered \in BOOLEAN, Enroll(h, a, answered)
    PROVE  AccessInv'
<1>i. CredentialsInv /\ SessionsInv /\ RecordsInv /\ OthersInv
  BY DEF AccessInv
<1> DEFINE new == Redeemed(a, h)
           ended == (gone \cup ({<<a, registry.enrolled[a]>>} \ {<<a, Nobody>>})) \ {<<a, h>>}
<1>1. /\ EnrollByToken(h, a) /\ replaceRegistry(new)
      /\ spent' = spent \cup {registry.pending[a]} /\ gone' = ended
      /\ Disconnect(a)
      /\ UNCHANGED <<expired, known, results, lane, retained, located, doubt>>
  BY Zenon DEF Enroll
<1>2. /\ Sound(new, spent', gone')
      /\ \A b \in Servers : HasRecord(registry, b) <=> HasRecord(new, b)
      /\ \A b \in Servers \ {a} : new.enrolled[b] = registry.enrolled[b]
      /\ registry.pending[a] \in EnrolTokens
  BY <1>i, <1>1, RedeemedSound
<1> HIDE DEF new
<1>3. spent' \subseteq EnrolTokens /\ gone' \subseteq Servers \X AgentHosts
  <2>1. /\ registry.enrolled[a] \in AgentHosts \cup {Nobody}
        /\ spent \subseteq EnrolTokens /\ gone \subseteq Servers \X AgentHosts
    BY <1>i DEF CredentialsInv, Sound, RegistryType
  <2> QED BY <2>1, <1>1, <1>2
<1>4. CredentialsInv' /\ registry' = new /\ registryFile' = new
  BY <1>1, <1>2, <1>3, Written
<1>5. SessionsInv'
  BY <1>i, <1>1, <1>2, <1>4, DisconnectStep
<1>6. RecordsInv'
  <2>1. doubt \subseteq Servers
    BY <1>i DEF RecordsInv
  <2> QED BY <1>i, <1>1, <1>2, <1>4, <2>1, RecordsFrame
<1>7. OthersInv'
  <2>1. \/ allowance' = allowance
        \/ May("drops") /\ Spend("drops")
    BY Zenon DEF Enroll
  <2>2. hosts' \in {hosts, [hosts EXCEPT ![h] = [token |-> Nobody, phase |-> "run"]]}
    BY DEF Enroll
  <2>3. hosts' \in [AgentHosts -> [token : EnrolTokens \cup {Nobody}, phase : {"off", "boot", "run"}]]
    BY <1>i, <2>2 DEF OthersInv
  <2> QED BY <1>i, <1>1, <2>1, <2>3, SpendLeaves DEF OthersInv
<1> QED BY <1>4, <1>5, <1>6, <1>7 DEF AccessInv

LEMMA EnrollFailsStep ==
    ASSUME AccessInv, NEW h \in AgentHosts, NEW a \in Servers, EnrollNotPersisted(h, a)
    PROVE  AccessInv'
<1>i. CredentialsInv /\ SessionsInv /\ RecordsInv /\ OthersInv
  BY DEF AccessInv
<1> DEFINE new == Redeemed(a, h)
<1>1. /\ EnrollByToken(h, a) /\ persistFails(new) /\ gone' = gone \ {<<a, h>>}
      /\ UNCHANGED <<expired, known, results, lane, sessions, streams, hosts, retained, located, spent, doubt>>
  BY Zenon DEF EnrollNotPersisted
<1>2. /\ Sound(new, spent \cup {registry.pending[a]},
               (gone \cup ({<<a, registry.enrolled[a]>>} \ {<<a, Nobody>>})) \ {<<a, h>>})
      /\ \A b \in Servers : HasRecord(registry, b) <=> HasRecord(new, b)
  BY <1>i, <1>1, RedeemedSound
<1> HIDE DEF new
<1>3. Sound(new, spent, gone')
  <2>1. gone' \subseteq (gone \cup ({<<a, registry.enrolled[a]>>} \ {<<a, Nobody>>})) \ {<<a, h>>}
    BY <1>1
  <2> QED BY <1>2, <2>1, FewerAreDead
<1>4. CredentialsInv' /\ registry' = registry /\ registryFile' \in {registryFile, new}
  BY <1>i, <1>1, <1>3, NotWritten
<1>5. SessionsInv'
  BY <1>i, <1>1, <1>4, SessionsFrame
<1>6. RecordsInv'
  <2>1. doubt \subseteq Servers /\ \A b \in Servers : HasRecord(registry, b) => HasRecord(registryFile, b) \/ b \in doubt
    BY <1>i DEF RecordsInv
  <2> QED BY <1>i, <1>1, <1>2, <1>4, <2>1, RecordsFrame
<1>7. OthersInv'
  BY <1>i, <1>1, SpendLeaves DEF OthersInv, persistFails
<1> QED BY <1>4, <1>5, <1>6, <1>7 DEF AccessInv

-----------------------------------------------------------------------------
(* Connect.                                                                *)

(* The Server that a key names is enrolled with it.                        *)
LEMMA NamedServer ==
    ASSUME NEW r, NEW h, AgentIDForPublicKey(r, h) # Nobody
    PROVE  AgentIDForPublicKey(r, h) \in Servers /\ r.enrolled[AgentIDForPublicKey(r, h)] = h
<1> DEFINE owners == {a \in Servers : r.enrolled[a] = h}
<1>1. Cardinality(owners) = 1
  BY DEF AgentIDForPublicKey
<1>2. owners # {}
  BY <1>1, FS_EmptySet
<1>3. AgentIDForPublicKey(r, h) \in owners
  BY <1>1, <1>2 DEF AgentIDForPublicKey
<1> QED BY <1>3

(* A stream moves on; the sessions are the same.                           *)
LEMMA StreamMoves ==
    ASSUME SessionsInv, NEW s \in Streams, NEW to \in StreamType,
           streams' = [streams EXCEPT ![s] = to], UNCHANGED <<registry, sessions>>,
           to.stage # "closed" => to.server \in Servers /\ to.host \in AgentHosts,
           to.stage = "challenged" => ~to.done,
           \A a \in Servers : sessions[a] = s =>
             /\ to.stage \notin {"closed", "challenged"}
             /\ to.server = streams[s].server /\ to.host = streams[s].host /\ to.done = streams[s].done
    PROVE  SessionsInv'
<1>1. streams' \in [Streams -> StreamType]
  BY DEF SessionsInv
<1>2. streams'[s] = to /\ \A o \in Streams \ {s} : streams'[o] = streams[o]
  BY DEF SessionsInv
<1>3. \A a \in Servers : sessions[a] # Nobody => sessions[a] \in Streams
  BY DEF SessionsInv
<1> QED BY <1>1, <1>2, <1>3 DEF SessionsInv, SessionsAreAuthorized

(* A stream ends and leaves no session behind.                             *)
LEMMA StreamCloses ==
    ASSUME SessionsInv, NEW s \in Streams, streams' = [streams EXCEPT ![s] = closed], UNCHANGED registry,
           Unregister(s)
    PROVE  SessionsInv'
<1>1. closed \in StreamType /\ closed.stage = "closed"
  BY DEF closed, StreamType
<1>2. streams' \in [Streams -> StreamType] /\ streams'[s] = closed /\ \A o \in Streams \ {s} : streams'[o] = streams[o]
  BY <1>1 DEF SessionsInv
<1>3. /\ sessions' \in [Servers -> Streams \cup {Nobody}]
      /\ \A a \in Servers : sessions'[a] # Nobody => sessions'[a] = sessions[a] /\ sessions[a] \in Streams \ {s}
  BY DEF SessionsInv, Unregister
<1> QED BY <1>1, <1>2, <1>3 DEF SessionsInv, SessionsAreAuthorized

(* What a stream does apart from the sessions: a profile is retained for a *)
(* Server that has a record.                                               *)
LEMMA StreamStep ==
    ASSUME AccessInv, SessionsInv',
           UNCHANGED <<credentials, expired, known, results, lane, hosts, doubt>>,
           located' \subseteq Servers, retained' \subseteq Servers,
           \A a \in retained' \ retained : HasRecord(registry, a),
           \/ allowance' = allowance
           \/ \E what \in {"frames", "drops"} : May(what) /\ Spend(what)
    PROVE  AccessInv'
<1>i. CredentialsInv /\ SessionsInv /\ RecordsInv /\ OthersInv
  BY DEF AccessInv
<1>1. CredentialsInv' /\ UNCHANGED <<registry, registryFile>>
  BY <1>i, CredentialsFrame DEF credentials
<1>2. RecordsInv'
  BY <1>i, <1>1 DEF RecordsInv, ResultsHaveRecords, RetainedHaveRecords, HasRecord
<1>3. OthersInv'
  BY <1>i, SpendLeaves DEF OthersInv
<1> QED BY <1>1, <1>2, <1>3 DEF AccessInv

LEMMA HelloStep ==
    ASSUME AccessInv, NEW h \in AgentHosts, NEW s \in Streams, hello(h, s)
    PROVE  AccessInv'
<1> DEFINE a == AgentIDForPublicKey(registry, h)
           to == [host |-> h, server |-> a, stage |-> "challenged", alive |-> TRUE, done |-> FALSE]
<1>i. SessionsInv /\ RecordsInv
  BY DEF AccessInv
<1>1. /\ a # Nobody /\ streams[s].stage = "closed"
      /\ streams' = [streams EXCEPT ![s] = to]
      /\ UNCHANGED <<credentials, expired, known, results, lane, sessions, hosts, retained, located, doubt, allowance>>
  BY DEF hello
<1>2. a \in Servers
  BY <1>1, NamedServer
<1> HIDE DEF a
<1>3. to \in StreamType /\ to.stage = "challenged" /\ ~to.done /\ to.server \in Servers /\ to.host \in AgentHosts
  BY <1>2 DEF StreamType
<1> HIDE DEF to
<1>4. \A b \in Servers : sessions[b] # s
  BY <1>i, <1>1, NobodyApart DEF SessionsInv
<1>5. SessionsInv'
  BY <1>i, <1>1, <1>2, <1>3, <1>4, StreamMoves DEF credentials
<1>6. located \subseteq Servers /\ retained \subseteq Servers
  BY <1>i DEF RecordsInv
<1> QED BY <1>1, <1>5, <1>6, StreamStep

(* Under authorizationMu the key still names the Server.                   *)
LEMMA ProofStep ==
    ASSUME AccessInv, NEW s \in Streams, proof(s)
    PROVE  AccessInv'
<1> DEFINE a == streams[s].server
<1>i. SessionsInv /\ RecordsInv
  BY DEF AccessInv
<1>1. /\ streams[s].stage = "challenged"
      /\ UNCHANGED <<credentials, expired, known, results, lane, hosts, retained, located, doubt, allowance>>
  BY DEF proof
<1>2. /\ a \in Servers /\ streams[s].host \in AgentHosts /\ ~streams[s].done /\ streams[s] \in StreamType
      /\ \A b \in Servers : sessions[b] # s
      /\ a # Nobody /\ s # Nobody
  BY <1>i, <1>1, NobodyApart DEF SessionsInv
<1>3. SessionsInv'
  <2>1. CASE stillAuthorized(s) /\ sessions[a] = Nobody
    <3>1. sessions' = [sessions EXCEPT ![a] = s] /\ streams' = [streams EXCEPT ![s].stage = "registered"]
      BY <2>1, Zenon DEF proof
    <3>2. registry.enrolled[a] = streams[s].host
      BY <2>1, <1>2, NamedServer DEF stillAuthorized
    <3>3. /\ streams' \in [Streams -> StreamType]
          /\ \A o \in Streams \ {s} : streams'[o] = streams[o]
          /\ streams'[s].stage = "registered" /\ streams'[s].server = a /\ streams'[s].host = streams[s].host
          /\ streams'[s].done = FALSE
      BY <3>1, <1>i, <1>2 DEF SessionsInv, StreamType
    <3>4. /\ sessions' \in [Servers -> Streams \cup {Nobody}] /\ sessions'[a] = s
          /\ \A b \in Servers \ {a} : sessions'[b] = sessions[b] /\ sessions[b] \in (Streams \ {s}) \cup {Nobody}
      BY <3>1, <1>i, <1>2 DEF SessionsInv
    <3>5. registry' = registry
      BY <1>1 DEF credentials
    <3> HIDE DEF a
    <3>6. SessionsAreAuthorized'
      BY <3>2, <3>3, <3>4, <3>5, <1>i DEF SessionsInv, SessionsAreAuthorized
    <3> QED BY <3>3, <3>4, <3>6, <1>i, <1>2 DEF SessionsInv
  <2>2. CASE ~(stillAuthorized(s) /\ sessions[a] = Nobody)
    <3>1. streams' = [streams EXCEPT ![s] = closed] /\ UNCHANGED sessions
      BY <2>2, Zenon DEF proof
    <3>2. closed \in StreamType /\ closed.stage = "closed"
      BY DEF closed, StreamType
    <3> QED BY <3>1, <3>2, <1>i, <1>1, <1>2, StreamMoves DEF credentials
  <2> QED BY <2>1, <2>2
<1>4. located \subseteq Servers /\ retained \subseteq Servers
  BY <1>i DEF RecordsInv
<1> QED BY <1>1, <1>3, <1>4, StreamStep

(* A stream past its challenge goes from one stage to the next.            *)
LEMMA StageMoves ==
    ASSUME SessionsInv, NEW s \in Streams, streams[s].stage \notin {"closed", "challenged"},
           NEW next \in {"located", "open", "handling"},
           streams' = [streams EXCEPT ![s].stage = next], UNCHANGED <<registry, sessions>>
    PROVE  SessionsInv'
<1>1. streams[s] \in StreamType /\ streams[s].server \in Servers /\ streams[s].host \in AgentHosts
  BY DEF SessionsInv
<1> DEFINE to == [streams[s] EXCEPT !.stage = next]
<1>2. /\ to \in StreamType /\ to.stage = next /\ to.server = streams[s].server
      /\ to.host = streams[s].host /\ to.done = streams[s].done
  BY <1>1 DEF StreamType
<1>3. streams' = [streams EXCEPT ![s] = to]
  OBVIOUS
<1> HIDE DEF to
<1> QED BY <1>1, <1>2, <1>3, StreamMoves

LEMMA AddressesStep ==
    ASSUME AccessInv, NEW s \in Streams, syncAddresses(s) \/ receive(s) \/ handleAgentFrame(s)
    PROVE  AccessInv'
<1>i. SessionsInv /\ RecordsInv
  BY DEF AccessInv
<1>1. PICK next \in {"located", "open", "handling"} :
        /\ streams[s].stage \notin {"closed", "challenged"}
        /\ streams' = [streams EXCEPT ![s].stage = next]
  BY DEF syncAddresses, receive, handleAgentFrame
<1>2. /\ UNCHANGED <<credentials, expired, known, results, lane, sessions, hosts, retained, doubt>>
      /\ located' \subseteq located \cup {streams[s].server}
  BY DEF syncAddresses, receive, handleAgentFrame
<1>3. \/ allowance' = allowance
      \/ May("frames") /\ Spend("frames")
  BY Zenon DEF syncAddresses, receive, handleAgentFrame
<1>4. SessionsInv'
  BY <1>i, <1>1, <1>2, StageMoves DEF credentials
<1>5. streams[s].server \in Servers
  BY <1>i, <1>1 DEF SessionsInv
<1>6. located' \subseteq Servers /\ retained' \subseteq Servers
  BY <1>i, <1>2, <1>5 DEF RecordsInv
<1> QED BY <1>2, <1>3, <1>4, <1>6, StreamStep

LEMMA ProfileStep ==
    ASSUME AccessInv, NEW s \in Streams, syncProfileOnSession(s)
    PROVE  AccessInv'
<1> DEFINE a == streams[s].server
<1>i. SessionsInv /\ RecordsInv
  BY DEF AccessInv
<1>1. /\ streams[s].stage = "located"
      /\ UNCHANGED <<credentials, expired, known, results, lane, hosts, located, doubt, allowance>>
  BY DEF syncProfileOnSession
<1>2. a \in Servers /\ located \subseteq Servers /\ retained \subseteq Servers
  BY <1>i, <1>1 DEF SessionsInv, RecordsInv
<1>3. CASE registry.enrolled[a] # Nobody /\ sessions[a] = s
  <2>1. /\ retained' = retained \cup {a} /\ streams' = [streams EXCEPT ![s].stage = "open"] /\ UNCHANGED sessions
    BY <1>3, Zenon DEF syncProfileOnSession
  <2>2. HasRecord(registry, a)
    BY <1>3 DEF HasRecord
  <2> HIDE DEF a
  <2>3. SessionsInv'
    BY <2>1, <1>i, <1>1, StageMoves DEF credentials
  <2>4. retained' \subseteq Servers /\ \A b \in retained' \ retained : HasRecord(registry, b)
    BY <2>1, <2>2, <1>2
  <2> QED BY <2>3, <2>4, <1>1, <1>2, StreamStep
<1>4. CASE ~(registry.enrolled[a] # Nobody /\ sessions[a] = s)
  <2>1. Unregister(s) /\ streams' = [streams EXCEPT ![s] = closed] /\ UNCHANGED retained
    BY <1>4, Zenon DEF syncProfileOnSession
  <2>2. SessionsInv'
    BY <2>1, <1>i, <1>1, StreamCloses DEF credentials
  <2> QED BY <2>1, <2>2, <1>1, <1>2, StreamStep
<1> QED BY <1>3, <1>4

LEMMA DisconnectedStep ==
    ASSUME AccessInv, NEW s \in Streams, disconnected(s)
    PROVE  AccessInv'
<1>i. SessionsInv /\ RecordsInv
  BY DEF AccessInv
<1>1. /\ Unregister(s) /\ streams' = [streams EXCEPT ![s] = closed]
      /\ UNCHANGED <<credentials, expired, known, results, lane, hosts, retained, located, doubt>>
  BY DEF disconnected
<1>2. \/ allowance' = allowance
      \/ May("drops") /\ Spend("drops")
  BY Zenon DEF disconnected
<1>3. SessionsInv'
  BY <1>i, <1>1, StreamCloses DEF credentials
<1>4. located \subseteq Servers /\ retained \subseteq Servers
  BY <1>i DEF RecordsInv
<1> QED BY <1>1, <1>2, <1>3, <1>4, StreamStep

-----------------------------------------------------------------------------
(* Time and restarts of the Master.                                        *)

LEMMA ExpireStep ==
    ASSUME AccessInv, NEW t \in EnrolTokens, expire(t)
    PROVE  AccessInv'
<1>i. CredentialsInv /\ SessionsInv /\ RecordsInv /\ OthersInv
  BY DEF AccessInv
<1>1. /\ expired' = expired \cup {t} /\ May("edits") /\ Spend("edits")
      /\ UNCHANGED <<credentials, known, results, lane, sessions, streams, hosts, retained, located, doubt>>
  BY Zenon DEF expire
<1>2. CredentialsInv' /\ UNCHANGED <<registry, registryFile>>
  BY <1>i, <1>1, CredentialsFrame DEF credentials
<1>3. SessionsInv'
  BY <1>i, <1>1, <1>2, SessionsFrame
<1>4. RecordsInv'
  <2>1. doubt \subseteq Servers /\ \A b \in Servers : HasRecord(registry, b) => HasRecord(registryFile, b) \/ b \in doubt
    BY <1>i DEF RecordsInv
  <2> QED BY <1>i, <1>1, <1>2, <2>1, RecordsFrame
<1>5. OthersInv'
  BY <1>i, <1>1, SpendLeaves DEF OthersInv
<1> QED BY <1>2, <1>3, <1>4, <1>5 DEF AccessInv

LEMMA OpenStep ==
    ASSUME AccessInv, OpenRegistry
    PROVE  AccessInv'
<1>i. CredentialsInv /\ SessionsInv /\ RecordsInv /\ OthersInv
  BY DEF AccessInv
<1>1. /\ registry' = registryFile /\ results' = {} /\ lane' = idle
      /\ sessions' = [a \in Servers |-> Nobody] /\ streams' = [s \in Streams |-> closed]
      /\ May("restarts") /\ Spend("restarts")
      /\ UNCHANGED <<registryFile, expired, known, hosts, located, spent, gone, doubt>>
  BY Zenon DEF OpenRegistry
<1>2. retained' \subseteq retained
  BY DEF OpenRegistry
<1>3. CredentialsInv'
  BY <1>i, <1>1 DEF CredentialsInv, Sound
<1>4. SessionsInv'
  <2>1. closed \in StreamType /\ closed.stage = "closed"
    BY DEF closed, StreamType
  <2> QED BY <2>1, <1>1 DEF SessionsInv, SessionsAreAuthorized
<1>5. RecordsInv'
  <2>1. lane' \in LaneType /\ lane'.kind = "idle" /\ lane'.server = Nobody
    BY <1>1 DEF idle, LaneType
  <2>2. IsFiniteSet(results') /\ Cardinality(results') <= ResultLimit
    BY <1>1, FS_EmptySet, NobodyApart
  <2>3. \A a \in Servers : HasRecord(registry, a) => HasRecord(registry', a) \/ a \in doubt
    BY <1>i, <1>1 DEF RecordsInv, HasRecord
  <2>4. ResultsHaveRecords' /\ RetainedHaveRecords'
    BY <1>i, <1>1, <1>2, <2>3 DEF RecordsInv, ResultsHaveRecords, RetainedHaveRecords
  <2>5. \A a \in Servers : HasRecord(registry', a) => HasRecord(registryFile', a)
    BY <1>1 DEF HasRecord
  <2> QED BY <1>i, <1>1, <1>2, <2>1, <2>2, <2>4, <2>5 DEF RecordsInv
<1>6. OthersInv'
  BY <1>i, <1>1, SpendLeaves DEF OthersInv
<1> QED BY <1>3, <1>4, <1>5, <1>6 DEF AccessInv

-----------------------------------------------------------------------------
(* The theorem.                                                            *)

LEMMA AccessStarts == AccessInit => AccessInv
<1> SUFFICES ASSUME AccessInit PROVE AccessInv
  OBVIOUS
<1>1. Sound(EmptyRegistry, {}, {})
  BY NobodyApart DEF Sound, EmptyRegistry, RegistryType, Opens, HasRecord, displayNameConflicts
<1>2. CredentialsInv
  BY <1>1 DEF AccessInit, CredentialsInv
<1>3. SessionsInv
  <2>1. closed \in StreamType /\ closed.stage = "closed"
    BY DEF closed, StreamType
  <2> QED BY <2>1 DEF AccessInit, SessionsInv, SessionsAreAuthorized
<1>4. RecordsInv
  <2>1. lane \in LaneType /\ lane.kind = "idle" /\ lane.server = Nobody
    BY DEF AccessInit, idle, LaneType
  <2>2. IsFiniteSet(results) /\ Cardinality(results) <= ResultLimit
    BY FS_EmptySet, NobodyApart DEF AccessInit
  <2>3. \A a \in Servers : ~HasRecord(registry, a)
    BY DEF AccessInit, EmptyRegistry, HasRecord
  <2> QED BY <2>1, <2>2, <2>3 DEF AccessInit, RecordsInv, ResultsHaveRecords, RetainedHaveRecords
<1>5. OthersInv
  BY AccessConstants DEF AccessInit, OthersInv
<1> QED BY <1>2, <1>3, <1>4, <1>5 DEF AccessInv

LEMMA AccessSteps == AccessInv /\ [AccessNext]_accessVars => AccessInv'
<1> SUFFICES ASSUME AccessInv, [AccessNext]_accessVars PROVE AccessInv'
  OBVIOUS
<1>1. ASSUME NEW a \in Servers, NEW t \in EnrolTokens,
             \/ \E name \in ServerNames : createServer(a, name, t) \/ enrollmentNotCreated(a, name, t)
             \/ replaceServer(a, t)
             \/ \E name \in ServerNames \cup {Nobody} : adminHandler(a, name, t)
      PROVE  AccessInv'
  BY <1>1, WebEnrolmentStep, NotCreatedStep, AdminStep, Zenon
<1>2. ASSUME storeEnrollmentResult PROVE AccessInv'
  BY <1>2, ResultStep, Zenon
<1>3. ASSUME NEW r \in results, NEW seen \in BOOLEAN, takeEnrollmentResult(r, seen) PROVE AccessInv'
  BY <1>3, TakeStep, Zenon
<1>4. ASSUME NEW a \in Servers, NEW name \in ServerNames, RenameDisplayName(a, name) \/ RenameNotPersisted(a, name)
      PROVE  AccessInv'
  BY <1>4, RenameStep, RenameFailsStep, Zenon
<1>5. ASSUME NEW a \in Servers, NEW force \in BOOLEAN, revokeServer(a, force) PROVE AccessInv'
  BY <1>5, RevokeServerStep, Zenon
<1>6. ASSUME revokeAgent \/ revokeAgentFails \/ finishRevocation PROVE AccessInv'
  BY <1>6, RevokeAgentStep, RevokeFailsStep, FinishStep, Zenon
<1>7. ASSUME NEW h \in AgentHosts, (\E t \in EnrolTokens : writeEnrollmentToken(h, t)) \/ HostRestarts(h) PROVE AccessInv'
  BY <1>7, HostStep, Zenon
<1>8. ASSUME NEW h \in AgentHosts, NEW a \in Servers,
             (\E answered \in BOOLEAN : Enroll(h, a, answered)) \/ EnrollNotPersisted(h, a)
      PROVE  AccessInv'
  BY <1>8, EnrollStep, EnrollFailsStep, Zenon
<1>9. ASSUME NEW h \in AgentHosts, NEW s \in Streams, hello(h, s) PROVE AccessInv'
  BY <1>9, HelloStep, Zenon
<1>10. ASSUME NEW s \in Streams,
              proof(s) \/ syncAddresses(s) \/ syncProfileOnSession(s) \/ receive(s) \/ handleAgentFrame(s) \/ disconnected(s)
       PROVE  AccessInv'
  BY <1>10, ProofStep, AddressesStep, ProfileStep, DisconnectedStep, Zenon
<1>11. ASSUME NEW t \in EnrolTokens, expire(t) PROVE AccessInv'
  BY <1>11, ExpireStep, Zenon
<1>12. ASSUME OpenRegistry PROVE AccessInv'
  BY <1>12, OpenStep, Zenon
<1>13. ASSUME UNCHANGED accessVars PROVE AccessInv'
  BY <1>13 DEF accessVars, credentials, AccessInv, CredentialsInv, Sound, SessionsInv, SessionsAreAuthorized, RecordsInv,
               ResultsHaveRecords, RetainedHaveRecords, HasRecord, OthersInv
<1> QED BY <1>1, <1>2, <1>3, <1>4, <1>5, <1>6, <1>7, <1>8, <1>9, <1>10, <1>11, <1>12, <1>13, Zenon DEF AccessNext

LEMMA AccessInvMeans == AccessInv => AccessIsCurrent
<1> SUFFICES ASSUME AccessInv PROVE AccessIsCurrent
  OBVIOUS
<1>i. CredentialsInv /\ SessionsInv /\ RecordsInv /\ OthersInv
  BY DEF AccessInv
<1>1. AccessTypeOK
  BY <1>i, Zenon DEF CredentialsInv, Sound, SessionsInv, StreamType, RecordsInv, LaneType, OthersInv, AccessTypeOK
<1>2. CredentialsStayDead /\ KeyNamesOneServer /\ RegistryReopens
  BY <1>i DEF CredentialsInv, Sound, CredentialsStayDead, KeyNamesOneServer, RegistryReopens
<1> QED BY <1>i, <1>1, <1>2 DEF SessionsInv, RecordsInv, AccessIsCurrent

(* Identities, their file, the sessions and what is kept for a Server      *)
(* agree: no session outlives the key it was opened with, no dead          *)
(* credential works again, one key names one Server, the file always       *)
(* opens, and no token or profile is kept for a Server without a record.   *)
THEOREM AccessStaysCurrent == AccessSpec => []AccessIsCurrent
<1>1. AccessInit => AccessInv
  BY AccessStarts
<1>2. AccessInv /\ [AccessNext]_accessVars => AccessInv'
  BY AccessSteps
<1>3. AccessInv => AccessIsCurrent
  BY AccessInvMeans
<1> QED BY <1>1, <1>2, <1>3, PTL DEF AccessSpec

-----------------------------------------------------------------------------
(* The outbound pool.                                                      *)

(* A registry as it is kept in memory and in the file.                     *)
Recorded(r) ==
    /\ r \in Records
    /\ r.exists \/ r = NoRecord
    /\ \A f \in Families : r.reported[f] # NoAddress => r.probed[f] = NoAddress

Stored(reg) == reg \in Registries /\ \A s \in PoolServers : Recorded(reg.agents[s])

(* A configuration the relay can be given.                                 *)
Dialable(c) ==
    /\ c \in [Routes -> Addresses]
    /\ \A l \in Routes : l.family # "auto" => c[l] \in OfFamily(l.family)

RegistryInv == Stored(pooled) /\ Stored(poolFile)

Sessions == [state : {"offline", "hello", "observe", "online", "revoked", "revokedHello", "revokedObserve"},
             reported : Pairs]

HostInv ==
    /\ hostAddresses \in [PoolServers -> Pairs]
    /\ poolSessions \in [PoolServers -> Sessions]
    /\ shadow \in [PoolServers -> [seeded : BOOLEAN, pair : Pairs]]
    /\ probing \subseteq PoolServers \X Families
    /\ leaving \subseteq PoolServers /\ unsaved \subseteq PoolServers

Loops == [pc : {"idle", "read", "start", "poll", "wait"}, requested : Nat, target : Nat, joined : BOOLEAN]
Jobs == [kind : {"none", "refresh", "topology"}, plan : [Routes -> Maybe(Addresses)],
         status : {"none", "queued", "awaiting", "applied", "failed"}, changed : BOOLEAN]
Relays == [session : {"offline", "replay", "ready"}, record : {"applied", "busy", "failed"},
           applied : [Routes -> Addresses], sent : [Routes -> Maybe(Addresses)], job : BOOLEAN]

FleetInv ==
    /\ owed \in BOOLEAN /\ overtaken \in BOOLEAN
    /\ refresher \in Loops /\ fleetJob \in Jobs /\ relay \in Relays
    /\ Dialable(relay.applied)
    /\ fleetJob.status = "queued" => Dialable(fleetJob.plan)
    /\ relay.session = "replay" \/ (relay.session = "ready" /\ relay.record = "busy") => Dialable(relay.sent)

PoolInv == RegistryInv /\ HostInv /\ FleetInv

-----------------------------------------------------------------------------
(* Addresses and records.                                                  *)

LEMMA AddressesOfFamily ==
    \A f \in Families : OfFamily(f) \subseteq Addresses /\ NoAddress \notin OfFamily(f)
BY PoolConstants DEF Families, OfFamily, Addresses

LEMMA PairFacts ==
    \A p \in Pairs : /\ p \in [Families -> Maybe(Addresses)]
                     /\ \A f \in Families : p[f] \in Maybe(OfFamily(f))
BY DEF Pairs

LEMMA IsAPair ==
    ASSUME NEW p, p = [f \in Families |-> p[f]], \A f \in Families : p[f] \in Maybe(OfFamily(f))
    PROVE  p \in Pairs
BY AddressesOfFamily DEF Pairs, Maybe

LEMMA NoPairIsAPair == NoPair \in Pairs /\ \A f \in Families : NoPair[f] = NoAddress
<1>1. /\ \A f \in Families : NoPair[f] = NoAddress
      /\ NoPair = [f \in Families |-> NoPair[f]]
  BY DEF NoPair
<1> QED BY <1>1, IsAPair DEF Maybe

LEMMA NoRecordIsRecorded ==
    /\ Recorded(NoRecord) /\ NoRecord \in Records /\ NoRecord.exists = FALSE
    /\ NoRecord.reported = NoPair /\ NoRecord.probed = NoPair /\ NoRecord.override = NoPair
    /\ NoRecord.observed = NoAddress
<1>1. /\ NoRecord \in Records /\ NoRecord.exists = FALSE
      /\ NoRecord.reported = NoPair /\ NoRecord.probed = NoPair /\ NoRecord.override = NoPair
      /\ NoRecord.observed = NoAddress
  BY NoPairIsAPair DEF NoRecord, Records, Maybe
<1> QED BY <1>1, NoPairIsAPair DEF Recorded

(* What a family resolves to is an address of it, if any.                  *)
LEMMA SourceOfFamily ==
    ASSUME NEW r \in Records, NEW f \in Families
    PROVE  SourceForFamily(r, f).address \in Maybe(OfFamily(f))
<1>1. /\ r.override[f] \in Maybe(OfFamily(f)) /\ r.probed[f] \in Maybe(OfFamily(f))
      /\ r.reported[f] \in Maybe(OfFamily(f))
  BY PairFacts DEF Records
<1> QED BY <1>1 DEF SourceForFamily, Maybe

LEMMA AddressOfFamily ==
    ASSUME NEW r \in Records, NEW f \in Families \cup {"auto"}
    PROVE  /\ AgentAddressForFamily(r, f) \in Maybe(Addresses)
           /\ f # "auto" => AgentAddressForFamily(r, f) \in Maybe(OfFamily(f))
<1>1. "ipv4" \in Families /\ "ipv6" \in Families
  BY DEF Families
<1> QED BY <1>1, SourceOfFamily, AddressesOfFamily DEF AgentAddressForFamily, Maybe

-----------------------------------------------------------------------------
(* The operations of the registry.                                         *)

LEMMA BumpedKept ==
    ASSUME NEW reg, Stored(reg), NEW s \in PoolServers, NEW r, Recorded(r)
    PROVE  Stored(Bumped(reg, s, r))
<1>1. reg.agents \in [PoolServers -> Records] /\ reg.version \in Nat /\ r \in Records
  BY DEF Stored, Registries, Recorded
<1> DEFINE n == reg.version + 1
           A == [reg.agents EXCEPT ![s] = r]
<1>2. n \in Nat /\ A \in [PoolServers -> Records] /\ \A t \in PoolServers : A[t] = IF t = s THEN r ELSE reg.agents[t]
  BY <1>1
<1>3. Bumped(reg, s, r) = [reg EXCEPT !.version = n, !.agents = A]
  BY Zenon DEF Bumped
<1> HIDE DEF n, A
<1>4. Bumped(reg, s, r) \in Registries /\ Bumped(reg, s, r).agents = A
  BY <1>2, <1>3 DEF Stored, Registries
<1>5. \A t \in PoolServers : Recorded(A[t])
  BY <1>2 DEF Stored
<1> QED BY <1>4, <1>5 DEF Stored

LEMMA RecordOf ==
    ASSUME NEW reg, Stored(reg), NEW s \in PoolServers
    PROVE  /\ Recorded(reg.agents[s]) /\ reg.agents[s] \in Records
           /\ reg.agents[s].reported \in Pairs /\ reg.agents[s].probed \in Pairs
BY DEF Stored, Recorded, Records

LEMMA SetReportedKept ==
    ASSUME NEW reg, Stored(reg), NEW s \in PoolServers, NEW pair \in Pairs
    PROVE  Stored(SetReported(reg, s, pair))
<1> DEFINE old == reg.agents[s]
           probed == [f \in Families |-> IF pair[f] # NoAddress THEN NoAddress ELSE old.probed[f]]
           new == [old EXCEPT !.reported = pair, !.exists = TRUE, !.probed = probed]
<1>1. old \in Records /\ old.probed \in Pairs
  BY RecordOf
<1>2. probed \in Pairs
  <2>1. \A f \in Families : probed[f] \in Maybe(OfFamily(f))
    BY <1>1, PairFacts DEF Maybe
  <2> QED BY <2>1, IsAPair
<1>3. \A f \in Families : pair[f] # NoAddress => probed[f] = NoAddress
  OBVIOUS
<1> HIDE DEF old, probed
<1>4. new \in Records /\ new.exists = TRUE /\ new.reported = pair /\ new.probed = probed
  BY <1>1, <1>2 DEF Records
<1>5. Recorded(new)
  BY <1>3, <1>4 DEF Recorded
<1>6. SetReported(reg, s, pair) = IF new = old \/ (~old.exists /\ pair = NoPair) THEN reg ELSE Bumped(reg, s, new)
  BY Zenon DEF SetReported, old, probed
<1> HIDE DEF new
<1> QED BY <1>5, <1>6, BumpedKept

LEMMA SetProbedKept ==
    ASSUME NEW reg, Stored(reg), NEW s \in PoolServers, NEW pair \in Pairs
    PROVE  Stored(SetProbed(reg, s, pair))
<1> DEFINE old == reg.agents[s]
           probed == [f \in Families |-> IF old.reported[f] # NoAddress THEN NoAddress ELSE pair[f]]
           new == [old EXCEPT !.exists = TRUE, !.probed = probed]
<1>1. old \in Records /\ old.reported \in Pairs
  BY RecordOf
<1>2. probed \in Pairs
  <2>1. \A f \in Families : probed[f] \in Maybe(OfFamily(f))
    BY PairFacts DEF Maybe
  <2> QED BY <2>1, IsAPair
<1>3. \A f \in Families : old.reported[f] # NoAddress => probed[f] = NoAddress
  OBVIOUS
<1> HIDE DEF old, probed
<1>4. new \in Records /\ new.exists = TRUE /\ new.reported = old.reported /\ new.probed = probed
  BY <1>1, <1>2 DEF Records
<1>5. Recorded(new)
  BY <1>3, <1>4 DEF Recorded
<1>6. SetProbed(reg, s, pair) = IF new = old \/ (~old.exists /\ new.probed = NoPair) THEN reg ELSE Bumped(reg, s, new)
  BY Zenon DEF SetProbed, old, probed
<1> HIDE DEF new
<1> QED BY <1>5, <1>6, BumpedKept

LEMMA SetObservedKept ==
    ASSUME NEW reg, Stored(reg), NEW s \in PoolServers, NEW a \in Maybe(Addresses)
    PROVE  Stored(SetObserved(reg, s, a))
<1> DEFINE old == reg.agents[s]
           new == [old EXCEPT !.observed = a, !.exists = TRUE]
<1>1. Recorded(old) /\ old \in Records
  BY RecordOf
<1> HIDE DEF old
<1>2. new \in Records /\ new.exists = TRUE /\ new.reported = old.reported /\ new.probed = old.probed
  BY <1>1 DEF Records
<1>3. Recorded(new)
  BY <1>1, <1>2 DEF Recorded
<1>4. SetObserved(reg, s, a) = IF old.observed = a THEN reg ELSE Bumped(reg, s, new)
  BY Zenon DEF SetObserved, old
<1> HIDE DEF new
<1> QED BY <1>3, <1>4, BumpedKept

LEMMA SetOverridesKept ==
    ASSUME NEW reg, Stored(reg), NEW s \in PoolServers, NEW pair \in Pairs
    PROVE  Stored(SetOverrides(reg, s, pair))
<1> DEFINE old == reg.agents[s]
           new == [old EXCEPT !.override = pair, !.exists = TRUE]
<1>1. Recorded(old) /\ old \in Records
  BY RecordOf
<1> HIDE DEF old
<1>2. new \in Records /\ new.exists = TRUE /\ new.reported = old.reported /\ new.probed = old.probed
  BY <1>1 DEF Records
<1>3. Recorded(new)
  BY <1>1, <1>2 DEF Recorded
<1>4. SetOverrides(reg, s, pair) = IF old.override = pair THEN reg ELSE Bumped(reg, s, new)
  BY Zenon DEF SetOverrides, old
<1> HIDE DEF new
<1> QED BY <1>3, <1>4, BumpedKept

LEMMA SetDomainsKept ==
    ASSUME NEW reg, Stored(reg), NEW s \in PoolServers, NEW on \in BOOLEAN
    PROVE  Stored(SetSubscriptionDomains(reg, s, on))
<1> DEFINE old == reg.agents[s]
           new == [old EXCEPT !.domains = on, !.exists = TRUE]
           r == IF new = [NoRecord EXCEPT !.exists = TRUE] THEN NoRecord ELSE new
           A == [reg.agents EXCEPT ![s] = r]
           next == [reg EXCEPT !.agents = A]
<1>1. Recorded(old) /\ old \in Records
  BY RecordOf
<1> HIDE DEF old
<1>2. new \in Records /\ new.exists = TRUE /\ new.reported = old.reported /\ new.probed = old.probed
  BY <1>1 DEF Records
<1>3. Recorded(new)
  BY <1>1, <1>2 DEF Recorded
<1>4. SetSubscriptionDomains(reg, s, on) = IF old.domains = on THEN reg ELSE next
  BY Zenon DEF SetSubscriptionDomains, old
<1> HIDE DEF new
<1>5. Recorded(r) /\ r \in Records
  BY <1>3, NoRecordIsRecorded DEF Recorded
<1> HIDE DEF r
<1>6. A \in [PoolServers -> Records] /\ \A t \in PoolServers : A[t] = IF t = s THEN r ELSE reg.agents[t]
  BY <1>5 DEF Stored, Registries
<1> HIDE DEF A
<1>7. next \in Registries /\ next.agents = A
  BY <1>6 DEF Stored, Registries
<1>8. Stored(next)
  BY <1>5, <1>6, <1>7 DEF Stored
<1> QED BY <1>4, <1>8

LEMMA ManualKept ==
    ASSUME NEW reg, Stored(reg), NEW m \in Manual
    PROVE  Stored(UpsertManual(reg, m)) /\ Stored(RemoveManual(reg, m))
<1> DEFINE n == reg.version + 1
           more == reg.manual \cup {m}
           less == reg.manual \ {m}
<1>1. n \in Nat /\ more \subseteq Manual /\ less \subseteq Manual
  BY DEF Stored, Registries
<1>2. /\ UpsertManual(reg, m) = [reg EXCEPT !.version = n, !.manual = more]
      /\ RemoveManual(reg, m) = [reg EXCEPT !.version = n, !.manual = less]
  BY Zenon DEF UpsertManual, RemoveManual
<1> HIDE DEF n, more, less
<1>3. /\ UpsertManual(reg, m) \in Registries /\ UpsertManual(reg, m).agents = reg.agents
      /\ RemoveManual(reg, m) \in Registries /\ RemoveManual(reg, m).agents = reg.agents
  BY <1>1, <1>2 DEF Stored, Registries
<1> QED BY <1>3 DEF Stored

LEMMA RemoveAgentKept ==
    ASSUME NEW reg, Stored(reg), NEW s \in PoolServers
    PROVE  Stored(RemoveAgent(reg, s))
BY BumpedKept, NoRecordIsRecorded DEF RemoveAgent

(* A write that fails leaves the registry, and the one or the other file.  *)
LEMMA SavedKept ==
    ASSUME RegistryInv, NEW reg, Stored(reg), Saved(reg) \/ Unsaved(reg)
    PROVE  RegistryInv'
<1>1. pooled' \in {pooled, reg} /\ poolFile' \in {poolFile, reg}
  BY DEF Saved, Unsaved
<1> QED BY <1>1 DEF RegistryInv

LEMMA SaveKept ==
    ASSUME RegistryInv, FleetInv, NEW reg, Stored(reg), Save(reg)
    PROVE  RegistryInv' /\ owed' \in BOOLEAN
<1>1. Saved(reg) \/ Unsaved(reg)
  BY DEF Save
<1>2. owed' \in BOOLEAN
  BY Zenon DEF Save, Notify, FleetInv
<1> QED BY <1>1, <1>2, SavedKept

-----------------------------------------------------------------------------
(* What the relay is made to dial.                                         *)

LEMMA RouteFacts ==
    \A l \in Routes : l.to \in PoolServers /\ l.family \in Families \cup {"auto"}
BY PoolConstants

LEMMA LiveAddress ==
    ASSUME RegistryInv, NEW l \in Routes
    PROVE  /\ Live(l) \in Maybe(Addresses)
           /\ l.family # "auto" => Live(l) \in Maybe(OfFamily(l.family))
<1>1. pooled.agents[l.to] \in Records /\ l.family \in Families \cup {"auto"}
  BY RouteFacts, RecordOf DEF RegistryInv
<1> QED BY <1>1, AddressOfFamily DEF Live

(* The address a link was applied with is retained for its Server.         *)
LEMMA RetainedAddress ==
    ASSUME NEW l \in Routes, NEW f \in Families
    PROVE  /\ Retained(l.to, f) \in Maybe(OfFamily(f))
           /\ relay.applied[l] \in OfFamily(f) => Retained(l.to, f) \in OfFamily(f)
<1> DEFINE dialled == {relay.applied[k] : k \in {m \in Routes : m.to = l.to}} \cap OfFamily(f)
<1>1. Retained(l.to, f) = IF dialled = {} THEN NoAddress ELSE CHOOSE a \in dialled : TRUE
  BY Zenon DEF Retained
<1>2. dialled # {} => Retained(l.to, f) \in OfFamily(f)
  BY <1>1
<1>3. relay.applied[l] \in OfFamily(f) => relay.applied[l] \in dialled
  OBVIOUS
<1> QED BY <1>1, <1>2, <1>3 DEF Maybe

LEMMA Resolved ==
    ASSUME RegistryInv, Dialable(relay.applied), NEW l \in Routes
    PROVE  /\ Resolve(l) \in Addresses
           /\ l.family # "auto" => Resolve(l) \in OfFamily(l.family)
<1>1. l.family \in Families \cup {"auto"} /\ "ipv4" \in Families /\ "ipv6" \in Families
  BY RouteFacts DEF Families
<1>2. CASE Live(l) # NoAddress
  BY <1>2, LiveAddress DEF Resolve, Maybe
<1>3. CASE Live(l) = NoAddress /\ l.family # "auto"
  <2>1. relay.applied[l] \in OfFamily(l.family) /\ l.family \in Families
    BY <1>1, <1>3 DEF Dialable
  <2>2. Resolve(l) = Retained(l.to, l.family)
    BY <1>3 DEF Resolve
  <2> QED BY <2>1, <2>2, RetainedAddress, AddressesOfFamily
<1>4. CASE Live(l) = NoAddress /\ l.family = "auto"
  <2>1. relay.applied[l] \in OfFamily("ipv4") \/ relay.applied[l] \in OfFamily("ipv6")
    BY DEF Dialable, Addresses, OfFamily
  <2>2. /\ Retained(l.to, "ipv4") \in Maybe(OfFamily("ipv4"))
        /\ Retained(l.to, "ipv6") \in Maybe(OfFamily("ipv6"))
        /\ Retained(l.to, "ipv4") \in OfFamily("ipv4") \/ Retained(l.to, "ipv6") \in OfFamily("ipv6")
    BY <1>1, <2>1, RetainedAddress
  <2>3. Resolve(l) = IF Retained(l.to, "ipv4") # NoAddress THEN Retained(l.to, "ipv4") ELSE Retained(l.to, "ipv6")
    BY <1>4 DEF Resolve
  <2>4. Resolve(l) \in Addresses
    BY <1>1, <2>2, <2>3, AddressesOfFamily DEF Maybe
  <2> QED BY <1>4, <2>4
<1> QED BY <1>2, <1>3, <1>4

(* Whatever is rendered can be dialled.                                    *)
LEMMA CompiledDialable ==
    ASSUME RegistryInv, FleetInv
    PROVE  Renders /\ Dialable(Compiled)
<1>1. \A l \in Routes : Resolve(l) \in Addresses /\ (l.family # "auto" => Resolve(l) \in OfFamily(l.family))
  BY Resolved DEF FleetInv
<1>2. NoAddress \notin Addresses
  BY PoolConstants
<1> QED BY <1>1, <1>2 DEF Renders, Compiled, Dialable

LEMMA MaybeDialled ==
    /\ NoConfig \in [Routes -> Maybe(Addresses)]
    /\ \A c : Dialable(c) => c \in [Routes -> Maybe(Addresses)]
BY DEF NoConfig, Dialable, Maybe

-----------------------------------------------------------------------------
(* Frames.                                                                 *)

LEMMA RegistryFrame ==
    ASSUME RegistryInv, UNCHANGED <<pooled, poolFile>>
    PROVE  RegistryInv'
BY DEF RegistryInv

LEMMA HostFrame ==
    ASSUME HostInv, UNCHANGED <<unsaved, serverSide>>
    PROVE  HostInv'
BY DEF HostInv, serverSide

LEMMA FleetFrame ==
    ASSUME FleetInv, UNCHANGED fleetSide, owed' \in BOOLEAN
    PROVE  FleetInv'
BY DEF FleetInv, fleetSide

(* A step of a control session.                                            *)
LEMMA SessionFrame ==
    ASSUME HostInv, UNCHANGED hostAddresses,
           poolSessions' \in [PoolServers -> Sessions],
           shadow' \in [PoolServers -> [seeded : BOOLEAN, pair : Pairs]],
           probing' \subseteq PoolServers \X Families,
           leaving' \subseteq PoolServers, unsaved' \subseteq PoolServers
    PROVE  HostInv'
BY DEF HostInv

LEMMA StateMoves ==
    ASSUME HostInv, NEW s \in PoolServers,
           NEW to \in {"offline", "hello", "observe", "online", "revoked", "revokedHello", "revokedObserve"}
    PROVE  [poolSessions EXCEPT ![s].state = to] \in [PoolServers -> Sessions]
<1>1. poolSessions \in [PoolServers -> Sessions]
  BY DEF HostInv
<1> DEFINE new == [poolSessions[s] EXCEPT !.state = to]
<1>2. new \in Sessions
  BY <1>1 DEF Sessions
<1>3. [poolSessions EXCEPT ![s].state = to] = [poolSessions EXCEPT ![s] = new]
  BY Zenon
<1> HIDE DEF new
<1> QED BY <1>1, <1>2, <1>3

-----------------------------------------------------------------------------
(* Control sessions and probes.                                            *)

LEMMA HostMovesStep ==
    ASSUME PoolInv, NEW s \in PoolServers, HostMoves(s)
    PROVE  PoolInv'
<1>i. RegistryInv /\ HostInv /\ FleetInv
  BY DEF PoolInv
<1>1. UNCHANGED <<pooled, poolFile, poolSessions, shadow, probing, owed, leaving, unsaved, fleetSide>>
  BY DEF HostMoves
<1>2. PICK pair \in Pairs : hostAddresses' = [hostAddresses EXCEPT ![s] = pair]
  BY DEF HostMoves
<1>3. HostInv'
  BY <1>i, <1>1, <1>2 DEF HostInv
<1>4. RegistryInv'
  BY <1>i, <1>1, RegistryFrame
<1>5. FleetInv'
  BY <1>i, <1>1, FleetFrame DEF FleetInv
<1> QED BY <1>3, <1>4, <1>5 DEF PoolInv

LEMMA ConnectStep ==
    ASSUME PoolInv, NEW s \in PoolServers, ConnectServer(s)
    PROVE  PoolInv'
<1>i. RegistryInv /\ HostInv /\ FleetInv
  BY DEF PoolInv
<1> DEFINE new == [state |-> "hello", reported |-> hostAddresses[s]]
<1>1. /\ poolSessions' = [poolSessions EXCEPT ![s] = new]
      /\ UNCHANGED <<pooled, poolFile, hostAddresses, shadow, probing, owed, leaving, unsaved, fleetSide>>
  BY DEF ConnectServer
<1>2. new \in Sessions
  BY <1>i DEF HostInv, Sessions
<1> HIDE DEF new
<1>3. HostInv'
  BY <1>i, <1>1, <1>2 DEF HostInv
<1>4. RegistryInv'
  BY <1>i, <1>1, RegistryFrame
<1>5. FleetInv'
  BY <1>i, <1>1, FleetFrame DEF FleetInv
<1> QED BY <1>3, <1>4, <1>5 DEF PoolInv

LEMMA SyncHelloStep ==
    ASSUME PoolInv, NEW s \in PoolServers, SyncHello(s)
    PROVE  PoolInv'
<1>i. RegistryInv /\ HostInv /\ FleetInv
  BY DEF PoolInv
<1> DEFINE reg == SetReported(pooled, s, poolSessions[s].reported)
           to == IF poolSessions[s].state = "hello" THEN "observe" ELSE "revokedObserve"
<1>1. /\ Save(reg) /\ unsaved' \in {unsaved \ {s}, unsaved \cup {s}}
      /\ UNCHANGED <<hostAddresses, shadow, probing, leaving, fleetSide>>
      /\ poolSessions' = [poolSessions EXCEPT ![s].state = to]
  BY Zenon DEF SyncHello
<1>2. Stored(reg)
  <2>1. poolSessions[s].reported \in Pairs
    BY <1>i DEF HostInv, Sessions
  <2> QED BY <1>i, <2>1, SetReportedKept DEF RegistryInv
<1> HIDE DEF reg
<1>3. RegistryInv' /\ owed' \in BOOLEAN
  BY <1>i, <1>1, <1>2, SaveKept
<1>4. poolSessions' \in [PoolServers -> Sessions]
  BY <1>i, <1>1, StateMoves
<1>5. HostInv'
  BY <1>i, <1>1, <1>4, SessionFrame DEF HostInv
<1>6. FleetInv'
  BY <1>i, <1>1, <1>3, FleetFrame
<1> QED BY <1>3, <1>5, <1>6 DEF PoolInv

LEMMA SyncObservedStep ==
    ASSUME PoolInv, NEW s \in PoolServers, SyncObserved(s)
    PROVE  PoolInv'
<1>i. RegistryInv /\ HostInv /\ FleetInv
  BY DEF PoolInv
<1> DEFINE to == IF poolSessions[s].state = "observe" THEN "online" ELSE "revoked"
<1>1. /\ UNCHANGED <<hostAddresses, shadow, probing, leaving, unsaved, fleetSide>>
      /\ poolSessions' = [poolSessions EXCEPT ![s].state = to]
  BY Zenon DEF SyncObserved
<1>2. PICK a \in Maybe(Addresses) : Save(SetObserved(pooled, s, a))
  BY Zenon DEF SyncObserved
<1>3. RegistryInv' /\ owed' \in BOOLEAN
  <2>1. Stored(SetObserved(pooled, s, a))
    BY <1>i, SetObservedKept DEF RegistryInv
  <2> QED BY <1>i, <1>2, <2>1, SaveKept
<1>4. poolSessions' \in [PoolServers -> Sessions]
  BY <1>i, <1>1, StateMoves
<1>5. HostInv'
  BY <1>i, <1>1, <1>4, SessionFrame DEF HostInv
<1>6. FleetInv'
  BY <1>i, <1>1, <1>3, FleetFrame
<1> QED BY <1>3, <1>5, <1>6 DEF PoolInv

LEMMA HeartbeatStep ==
    ASSUME PoolInv, NEW s \in PoolServers, Heartbeat(s)
    PROVE  PoolInv'
<1>i. RegistryInv /\ HostInv /\ FleetInv
  BY DEF PoolInv
<1> DEFINE reg == SetReported(pooled, s, hostAddresses[s])
<1>1. /\ Save(reg) /\ unsaved' \in {unsaved \ {s}, unsaved \cup {s}}
      /\ UNCHANGED <<hostAddresses, shadow, probing, leaving, fleetSide>>
      /\ poolSessions' = [poolSessions EXCEPT ![s].reported = hostAddresses[s]]
  BY Zenon DEF Heartbeat
<1>2. hostAddresses[s] \in Pairs /\ Stored(reg)
  <2>1. hostAddresses[s] \in Pairs
    BY <1>i DEF HostInv
  <2> QED BY <1>i, <2>1, SetReportedKept DEF RegistryInv
<1> HIDE DEF reg
<1>3. RegistryInv' /\ owed' \in BOOLEAN
  BY <1>i, <1>1, <1>2, SaveKept
<1>4. poolSessions' \in [PoolServers -> Sessions]
  <2> DEFINE new == [poolSessions[s] EXCEPT !.reported = hostAddresses[s]]
  <2>1. poolSessions \in [PoolServers -> Sessions]
    BY <1>i DEF HostInv
  <2>2. new \in Sessions
    BY <1>2, <2>1 DEF Sessions
  <2>3. poolSessions' = [poolSessions EXCEPT ![s] = new]
    BY <1>1, Zenon
  <2> HIDE DEF new
  <2> QED BY <2>1, <2>2, <2>3
<1>5. HostInv'
  BY <1>i, <1>1, <1>4, SessionFrame DEF HostInv
<1>6. FleetInv'
  BY <1>i, <1>1, <1>3, FleetFrame
<1> QED BY <1>3, <1>5, <1>6 DEF PoolInv

LEMMA EndsStep ==
    ASSUME PoolInv, NEW s \in PoolServers, DropServer(s) \/ Revoke(s)
    PROVE  PoolInv'
<1>i. RegistryInv /\ HostInv /\ FleetInv
  BY DEF PoolInv
<1>1. /\ UNCHANGED <<pooled, poolFile, hostAddresses, shadow, owed, unsaved, fleetSide>>
      /\ probing' \subseteq probing /\ leaving' \in {leaving, leaving \cup {s}}
  BY DEF DropServer, Revoke
<1>2. poolSessions' \in [PoolServers -> Sessions]
  <2>1. CASE DropServer(s)
    <3> DEFINE new == [state |-> "offline", reported |-> NoPair]
    <3>1. poolSessions' = [poolSessions EXCEPT ![s] = new]
      BY <2>1 DEF DropServer
    <3>2. new \in Sessions
      BY NoPairIsAPair DEF Sessions
    <3> HIDE DEF new
    <3> QED BY <1>i, <3>1, <3>2 DEF HostInv
  <2>2. CASE Revoke(s)
    <3> DEFINE to == CASE poolSessions[s].state = "hello" -> "revokedHello"
                       [] poolSessions[s].state = "observe" -> "revokedObserve" [] OTHER -> "revoked"
    <3>1. poolSessions' = [poolSessions EXCEPT ![s].state = to]
      BY <2>2, Zenon DEF Revoke
    <3>2. to \in {"revoked", "revokedHello", "revokedObserve"}
      OBVIOUS
    <3> HIDE DEF to
    <3> QED BY <1>i, <3>1, <3>2, StateMoves
  <2> QED BY <2>1, <2>2
<1>3. HostInv'
  BY <1>i, <1>1, <1>2, SessionFrame DEF HostInv
<1>4. RegistryInv'
  BY <1>i, <1>1, RegistryFrame
<1>5. FleetInv'
  BY <1>i, <1>1, FleetFrame DEF FleetInv
<1> QED BY <1>3, <1>4, <1>5 DEF PoolInv

LEMMA CleanPoolStep ==
    ASSUME PoolInv, NEW s \in PoolServers, CleanPool(s)
    PROVE  PoolInv'
<1>i. RegistryInv /\ HostInv /\ FleetInv
  BY DEF PoolInv
<1>1. /\ leaving' = leaving \ {s} /\ owed' = TRUE
      /\ Saved(RemoveAgent(pooled, s)) \/ Unsaved(RemoveAgent(pooled, s))
      /\ UNCHANGED <<hostAddresses, poolSessions, shadow, probing, unsaved, fleetSide>>
  BY DEF CleanPool
<1>2. RegistryInv'
  <2>1. Stored(RemoveAgent(pooled, s))
    BY <1>i, RemoveAgentKept DEF RegistryInv
  <2> QED BY <1>i, <1>1, <2>1, SavedKept
<1>3. HostInv'
  BY <1>i, <1>1, SessionFrame DEF HostInv
<1>4. FleetInv'
  BY <1>i, <1>1, FleetFrame
<1> QED BY <1>2, <1>3, <1>4 DEF PoolInv

LEMMA RequestProbeStep ==
    ASSUME PoolInv, NEW s \in PoolServers, NEW f \in Families, RequestAddressProbe(s, f)
    PROVE  PoolInv'
<1>i. RegistryInv /\ HostInv /\ FleetInv
  BY DEF PoolInv
<1>1. /\ probing' = probing \cup {<<s, f>>}
      /\ UNCHANGED <<pooled, poolFile, hostAddresses, poolSessions, shadow, owed, leaving, unsaved, fleetSide>>
  BY DEF RequestAddressProbe
<1>2. HostInv'
  BY <1>i, <1>1, SessionFrame DEF HostInv
<1>3. RegistryInv'
  BY <1>i, <1>1, RegistryFrame
<1>4. FleetInv'
  BY <1>i, <1>1, FleetFrame DEF FleetInv
<1> QED BY <1>2, <1>3, <1>4 DEF PoolInv

LEMMA SeededIsAPair ==
    ASSUME RegistryInv, HostInv, NEW s \in PoolServers
    PROVE  Seeded(s) \in Pairs
<1>1. pooled.agents[s].probed \in Pairs /\ shadow[s].pair \in Pairs
  BY RecordOf DEF RegistryInv, HostInv
<1> DEFINE p == [f \in Families |-> IF SourceForFamily(pooled.agents[s], f).source = "probed"
                                    THEN pooled.agents[s].probed[f] ELSE NoAddress]
<1>2. p \in Pairs
  <2>1. \A f \in Families : p[f] \in Maybe(OfFamily(f))
    BY <1>1, PairFacts DEF Maybe
  <2> QED BY <2>1, IsAPair
<1>3. Seeded(s) = IF shadow[s].seeded THEN shadow[s].pair ELSE p
  BY Zenon DEF Seeded
<1> HIDE DEF p
<1> QED BY <1>1, <1>2, <1>3

LEMMA HandleProbeStep ==
    ASSUME PoolInv, NEW s \in PoolServers, NEW f \in Families, HandleAddressProbeReport(s, f)
    PROVE  PoolInv'
<1>i. RegistryInv /\ HostInv /\ FleetInv
  BY DEF PoolInv
<1>1. /\ probing' = probing \ {<<s, f>>}
      /\ UNCHANGED <<hostAddresses, poolSessions, leaving, unsaved, fleetSide>>
  BY DEF HandleAddressProbeReport
<1>2. RegistryInv' /\ owed' \in BOOLEAN /\ shadow' \in [PoolServers -> [seeded : BOOLEAN, pair : Pairs]]
  <2>1. ASSUME NEW a \in OfFamily(f), AnswerProbe(s, f, a)
        PROVE  RegistryInv' /\ owed' \in BOOLEAN /\ shadow' \in [PoolServers -> [seeded : BOOLEAN, pair : Pairs]]
    <3> DEFINE reg == SetProbed(pooled, s, MergedProbe(s, f, a))
    <3>1. Seeded(s) \in Pairs
      BY <1>i, SeededIsAPair
    <3>2. MergedProbe(s, f, a) \in Pairs
      <4>1. \A g \in Families : MergedProbe(s, f, a)[g] \in Maybe(OfFamily(g))
        BY <2>1, <3>1, PairFacts DEF MergedProbe, Maybe
      <4>2. MergedProbe(s, f, a) = [g \in Families |-> MergedProbe(s, f, a)[g]]
        BY <3>1, PairFacts DEF MergedProbe
      <4> QED BY <4>1, <4>2, IsAPair
    <3>3. Stored(reg)
      BY <1>i, <3>2, SetProbedKept DEF RegistryInv
    <3>4. /\ Save(reg)
          /\ \/ shadow' = [shadow EXCEPT ![s] = [seeded |-> TRUE, pair |-> MergedProbe(s, f, a)]]
             \/ shadow' = [shadow EXCEPT ![s] = [seeded |-> TRUE, pair |-> Seeded(s)]]
      BY <2>1, Zenon DEF AnswerProbe, Save
    <3> HIDE DEF reg
    <3>5. RegistryInv' /\ owed' \in BOOLEAN
      BY <1>i, <3>3, <3>4, SaveKept
    <3>6. shadow' \in [PoolServers -> [seeded : BOOLEAN, pair : Pairs]]
      <4>1. \A p \in Pairs : [seeded |-> TRUE, pair |-> p] \in [seeded : BOOLEAN, pair : Pairs]
        OBVIOUS
      <4>2. PICK w \in [seeded : BOOLEAN, pair : Pairs] : shadow' = [shadow EXCEPT ![s] = w]
        BY <3>1, <3>2, <3>4, <4>1, Zenon
      <4> QED BY <1>i, <4>2 DEF HostInv
    <3> QED BY <3>5, <3>6
  <2>2. CASE UNCHANGED <<pooled, poolFile, shadow, owed>>
    <3>1. RegistryInv'
      BY <1>i, <2>2, RegistryFrame
    <3> QED BY <1>i, <2>2, <3>1 DEF HostInv, FleetInv
  <2> QED BY <2>1, <2>2, Zenon DEF HandleAddressProbeReport
<1>3. HostInv'
  BY <1>i, <1>1, <1>2, SessionFrame DEF HostInv
<1>4. FleetInv'
  BY <1>i, <1>1, <1>2, FleetFrame
<1> QED BY <1>2, <1>3, <1>4 DEF PoolInv

-----------------------------------------------------------------------------
(* The administrator's pages.                                              *)

LEMMA EditKept ==
    ASSUME PoolInv, NEW reg, Stored(reg), NEW notifies \in BOOLEAN, Edit(reg, notifies)
    PROVE  PoolInv'
<1>i. RegistryInv /\ HostInv /\ FleetInv
  BY DEF PoolInv
<1>1. /\ pooled' \in {pooled, reg} /\ poolFile' \in {poolFile, reg}
      /\ UNCHANGED <<unsaved, serverSide, fleetSide>>
  BY DEF Edit
<1>2. owed' \in BOOLEAN
  <2>1. owed' = (owed \/ notifies) \/ owed' = owed
    BY Zenon DEF Edit
  <2> QED BY <1>i, <2>1, Zenon DEF FleetInv
<1>3. RegistryInv'
  BY <1>i, <1>1 DEF RegistryInv
<1>4. HostInv' /\ FleetInv'
  BY <1>i, <1>1, <1>2, HostFrame, FleetFrame
<1> QED BY <1>3, <1>4 DEF PoolInv

LEMMA PageSteps ==
    ASSUME PoolInv, PageStep
    PROVE  PoolInv'
<1>i. Stored(pooled)
  BY DEF PoolInv, RegistryInv
<1>1. ASSUME NEW s \in PoolServers, NEW pair \in Pairs, SetServerAddress(s, pair)
      PROVE  PoolInv'
  BY <1>1, <1>i, SetOverridesKept, EditKept DEF SetServerAddress
<1>2. ASSUME NEW m \in Manual, UpsertPoolEntry(m) \/ DeletePoolEntry(m)
      PROVE  PoolInv'
  BY <1>2, <1>i, ManualKept, EditKept DEF UpsertPoolEntry, DeletePoolEntry
<1>3. ASSUME NEW s \in PoolServers, NEW on \in BOOLEAN, SetServerSubscriptionDomains(s, on)
      PROVE  PoolInv'
  BY <1>3, <1>i, SetDomainsKept, EditKept DEF SetServerSubscriptionDomains
<1> QED BY <1>1, <1>2, <1>3, Zenon DEF PageStep

-----------------------------------------------------------------------------
(* The refresh loop, the jobs and the relay.                               *)

LEMMA FleetStep ==
    ASSUME PoolInv, FleetInv', UNCHANGED <<pooled, poolFile, unsaved, serverSide>>
    PROVE  PoolInv'
BY RegistryFrame, HostFrame DEF PoolInv

LEMMA LoopSteps ==
    ASSUME PoolInv, Trigger \/ LoopRead \/ LoopPoll \/ LoopRetry
    PROVE  PoolInv'
<1>i. FleetInv
  BY DEF PoolInv
<1>1. /\ UNCHANGED <<pooled, poolFile, unsaved, serverSide, fleetJob, relay, overtaken>>
      /\ owed' \in {owed, FALSE}
  BY DEF Trigger, LoopRead, LoopPoll, LoopRetry
<1>2. refresher \in Loops
  BY <1>i DEF FleetInv
<1>3. refresher' \in Loops
  <2>1. CASE Trigger
    <3> DEFINE n == refresher.requested + 1
               to == IF refresher.pc = "idle" THEN "read" ELSE refresher.pc
    <3>1. refresher' = [refresher EXCEPT !.requested = n, !.pc = to]
      BY <2>1, Zenon DEF Trigger
    <3>2. n \in Nat /\ to \in {"idle", "read", "start", "poll", "wait"}
      BY <1>2 DEF Loops
    <3> HIDE DEF n, to
    <3> QED BY <1>2, <3>1, <3>2 DEF Loops
  <2>2. CASE LoopRead
    BY <1>2, <2>2 DEF LoopRead, Loops
  <2>3. CASE LoopPoll
    <3>1. AfterJob \in {"idle", "read", "wait"}
      BY DEF AfterJob
    <3> QED BY <1>2, <2>3, <3>1 DEF LoopPoll, Loops
  <2>4. CASE LoopRetry
    BY <1>2, <2>4 DEF LoopRetry, Loops
  <2> QED BY <2>1, <2>2, <2>3, <2>4
<1>4. FleetInv'
  BY <1>i, <1>1, <1>3 DEF FleetInv
<1> QED BY <1>1, <1>4, FleetStep

(* A new job renders what can be dialled.                                  *)
LEMMA JobOf ==
    ASSUME RegistryInv, FleetInv, NEW kind \in {"refresh", "topology"}, NEW changed \in BOOLEAN
    PROVE  /\ NewJob(kind, changed) \in Jobs /\ NewJob(kind, changed).status = "queued"
           /\ Dialable(NewJob(kind, changed).plan)
<1>1. Dialable(Compiled) /\ Compiled \in [Routes -> Maybe(Addresses)]
  BY CompiledDialable, MaybeDialled
<1> QED BY <1>1 DEF NewJob, Jobs

LEMMA StartRefreshStep ==
    ASSUME PoolInv, StartAppliedRefresh
    PROVE  PoolInv'
<1>i. RegistryInv /\ FleetInv
  BY DEF PoolInv
<1> DEFINE to == IF JobActive \/ Renders THEN "poll" ELSE "wait"
           changed == relay.record # "applied" \/ relay.applied # Compiled
<1>1. /\ refresher' = [refresher EXCEPT !.pc = to, !.joined = JobActive]
      /\ fleetJob' = IF JobActive \/ ~Renders THEN fleetJob ELSE NewJob("refresh", changed)
      /\ UNCHANGED <<pooled, poolFile, owed, unsaved, serverSide, relay, overtaken>>
  BY Zenon DEF StartAppliedRefresh
<1>2. to \in {"poll", "wait"} /\ JobActive \in BOOLEAN /\ changed \in BOOLEAN
  <2>1. to \in {"poll", "wait"}
    OBVIOUS
  <2>2. JobActive \in BOOLEAN /\ changed \in BOOLEAN
    BY DEF JobActive
  <2> QED BY <2>1, <2>2
<1> HIDE DEF to, changed
<1>3. refresher' \in Loops
  BY <1>i, <1>1, <1>2 DEF FleetInv, Loops
<1>4. fleetJob' \in Jobs /\ (fleetJob'.status = "queued" => Dialable(fleetJob'.plan))
  BY <1>i, <1>1, <1>2, JobOf DEF FleetInv
<1>5. FleetInv'
  BY <1>i, <1>1, <1>3, <1>4 DEF FleetInv
<1> QED BY <1>1, <1>5, FleetStep

LEMMA StartTopologyStep ==
    ASSUME PoolInv, StartTopologyJob
    PROVE  PoolInv'
<1>i. RegistryInv /\ FleetInv
  BY DEF PoolInv
<1>1. /\ fleetJob' = NewJob("topology", relay.applied # Compiled)
      /\ UNCHANGED <<pooled, poolFile, owed, unsaved, serverSide, refresher, relay, overtaken>>
  BY DEF StartTopologyJob
<1>2. fleetJob' \in Jobs /\ Dialable(fleetJob'.plan)
  BY <1>i, <1>1, JobOf
<1>3. FleetInv'
  BY <1>i, <1>1, <1>2 DEF FleetInv
<1> QED BY <1>1, <1>3, FleetStep

LEMMA QueueJobStep ==
    ASSUME PoolInv, QueueJob
    PROVE  PoolInv'
<1>i. FleetInv
  BY DEF PoolInv
<1> DEFINE sent == fleetJob.changed /\ relay.session = "ready" /\ relay.record # "busy"
           to == CASE ~fleetJob.changed -> "applied" [] sent -> "awaiting" [] OTHER -> "failed"
<1>1. /\ fleetJob.status = "queued"
      /\ fleetJob' = [fleetJob EXCEPT !.status = to]
      /\ relay' = IF sent THEN [relay EXCEPT !.record = "busy", !.sent = fleetJob.plan, !.job = TRUE] ELSE relay
      /\ UNCHANGED <<pooled, poolFile, owed, unsaved, serverSide, refresher, overtaken>>
  BY Zenon DEF QueueJob
<1>2. to \in {"applied", "awaiting", "failed"}
  OBVIOUS
<1> HIDE DEF to, sent
<1>3. fleetJob' \in Jobs /\ fleetJob'.status # "queued"
  BY <1>i, <1>1, <1>2 DEF FleetInv, Jobs
<1>4. Dialable(fleetJob.plan) /\ fleetJob.plan \in [Routes -> Maybe(Addresses)]
  BY <1>i, <1>1 DEF FleetInv, Jobs
<1>5. CASE sent
  <2>1. relay' = [relay EXCEPT !.record = "busy", !.sent = fleetJob.plan, !.job = TRUE]
    BY <1>1, <1>5, Zenon
  <2>2. relay' \in Relays /\ relay'.applied = relay.applied /\ relay'.sent = fleetJob.plan
    BY <1>i, <1>4, <2>1 DEF FleetInv, Relays
  <2>3. FleetInv'
    BY <1>i, <1>1, <1>3, <1>4, <2>2 DEF FleetInv
  <2> QED BY <1>1, <2>3, FleetStep
<1>6. CASE ~sent
  <2>1. relay' = relay
    BY <1>1, <1>6, Zenon
  <2>2. FleetInv'
    BY <1>i, <1>1, <1>3, <2>1 DEF FleetInv
  <2> QED BY <1>1, <2>2, FleetStep
<1> QED BY <1>5, <1>6

LEMMA FinishJobStep ==
    ASSUME PoolInv, FinishJob
    PROVE  PoolInv'
<1>i. FleetInv
  BY DEF PoolInv
<1>1. /\ relay' \in {relay, [relay EXCEPT !.job = FALSE]}
      /\ UNCHANGED <<pooled, poolFile, owed, unsaved, serverSide, refresher, overtaken>>
  BY DEF FinishJob
<1>2. PICK to \in {"applied", "failed"} : fleetJob' = [fleetJob EXCEPT !.status = to]
  BY DEF FinishJob
<1>3. fleetJob' \in Jobs /\ fleetJob'.status # "queued"
  BY <1>i, <1>2 DEF FleetInv, Jobs
<1>4. /\ relay' \in Relays /\ relay'.applied = relay.applied /\ relay'.sent = relay.sent
      /\ relay'.session = relay.session /\ relay'.record = relay.record
  BY <1>i, <1>1 DEF FleetInv, Relays
<1>5. FleetInv'
  BY <1>i, <1>1, <1>3, <1>4 DEF FleetInv
<1> QED BY <1>1, <1>5, FleetStep

LEMMA RelayAppliesStep ==
    ASSUME PoolInv, RelayApplies
    PROVE  PoolInv'
<1>i. FleetInv
  BY DEF PoolInv
<1>1. /\ relay.session = "ready" /\ relay.record = "busy"
      /\ relay' = [relay EXCEPT !.record = "applied", !.applied = relay.sent, !.job = FALSE, !.sent = NoConfig]
      /\ UNCHANGED <<pooled, poolFile, owed, unsaved, serverSide, refresher, fleetJob>>
  BY Zenon DEF RelayApplies
<1>2. overtaken' \in BOOLEAN
  BY DEF RelayApplies
<1>3. Dialable(relay.sent) /\ relay.sent \in [Routes -> Addresses] /\ NoConfig \in [Routes -> Maybe(Addresses)]
  BY <1>i, <1>1, MaybeDialled DEF FleetInv, Dialable
<1>4. relay' \in Relays /\ relay'.applied = relay.sent /\ relay'.session = "ready" /\ relay'.record = "applied"
  <2>1. relay \in Relays
    BY <1>i DEF FleetInv
  <2> QED BY <2>1, <1>1, <1>3 DEF Relays
<1>5. FleetInv'
  BY <1>i, <1>1, <1>2, <1>3, <1>4 DEF FleetInv
<1> QED BY <1>1, <1>5, FleetStep

LEMMA RelayDropsStep ==
    ASSUME PoolInv, RelayDrops
    PROVE  PoolInv'
<1>i. FleetInv
  BY DEF PoolInv
<1>1. /\ relay' = [relay EXCEPT !.session = "offline", !.sent = NoConfig]
      /\ UNCHANGED <<pooled, poolFile, owed, unsaved, serverSide, refresher, fleetJob, overtaken>>
  BY DEF RelayDrops
<1>2. relay' \in Relays /\ relay'.applied = relay.applied /\ relay'.session = "offline"
  BY <1>i, <1>1, MaybeDialled DEF FleetInv, Relays
<1>3. FleetInv'
  BY <1>i, <1>1, <1>2 DEF FleetInv
<1> QED BY <1>1, <1>3, FleetStep

LEMMA ReplaySteps ==
    ASSUME PoolInv, ReplayStep
    PROVE  PoolInv'
<1>i. RegistryInv /\ FleetInv
  BY DEF PoolInv
<1>1. UNCHANGED <<pooled, poolFile, owed, unsaved, serverSide, refresher, fleetJob, overtaken>>
  BY DEF ReplayStep, AuthoritativeAppliedProfile, QueueReplay
<1>2. relay \in Relays
  BY <1>i DEF FleetInv
<1>3. relay' \in Relays /\ relay'.applied = relay.applied /\ Dialable(relay'.sent)
  <2>1. CASE AuthoritativeAppliedProfile
    <3> DEFINE to == IF relay.record = "busy" THEN "failed" ELSE relay.record
    <3>1. relay' = [relay EXCEPT !.session = "replay", !.sent = Compiled, !.job = FALSE, !.record = to]
      BY <2>1, Zenon DEF AuthoritativeAppliedProfile
    <3>2. Dialable(Compiled) /\ Compiled \in [Routes -> Maybe(Addresses)]
      BY <1>i, CompiledDialable, MaybeDialled
    <3>3. to \in {"applied", "busy", "failed"}
      BY <1>2 DEF Relays
    <3> HIDE DEF to
    <3> QED BY <1>2, <3>1, <3>2, <3>3 DEF Relays
  <2>2. CASE QueueReplay
    <3>1. relay.session = "replay" /\ relay' = [relay EXCEPT !.session = "ready", !.record = "busy"]
      BY <2>2 DEF QueueReplay
    <3>2. relay' \in Relays /\ relay'.applied = relay.applied /\ relay'.sent = relay.sent
      BY <1>2, <3>1 DEF Relays
    <3> QED BY <1>i, <3>1, <3>2 DEF FleetInv
  <2> QED BY <2>1, <2>2 DEF ReplayStep
<1>4. FleetInv'
  BY <1>i, <1>1, <1>3 DEF FleetInv
<1> QED BY <1>1, <1>4, FleetStep

LEMMA RestartStep ==
    ASSUME PoolInv, RestartMaster
    PROVE  PoolInv'
<1>i. RegistryInv /\ HostInv /\ FleetInv
  BY DEF PoolInv
<1>1. /\ pooled' = poolFile
      /\ poolSessions' = [s \in PoolServers |-> IF enrolled(s) THEN [state |-> "offline", reported |-> NoPair]
                                                ELSE [poolSessions[s] EXCEPT !.state = "revoked"]]
      /\ shadow' = [s \in PoolServers |-> [seeded |-> FALSE, pair |-> NoPair]]
      /\ probing' = {} /\ leaving' = {} /\ owed' = FALSE
      /\ refresher' = [pc |-> "idle", requested |-> 0, target |-> 0, joined |-> FALSE]
      /\ fleetJob' = [kind |-> "none", status |-> "none", plan |-> NoConfig, changed |-> FALSE]
      /\ relay' = [relay EXCEPT !.session = "offline", !.sent = NoConfig, !.job = FALSE]
      /\ overtaken' = FALSE
      /\ UNCHANGED <<poolFile, hostAddresses, unsaved>>
  BY DEF RestartMaster
<1>2. RegistryInv'
  BY <1>i, <1>1 DEF RegistryInv
<1>3. poolSessions' \in [PoolServers -> Sessions]
  <2>1. /\ [state |-> "offline", reported |-> NoPair] \in Sessions
        /\ \A s \in PoolServers : [poolSessions[s] EXCEPT !.state = "revoked"] \in Sessions
    BY <1>i, NoPairIsAPair DEF HostInv, Sessions
  <2> QED BY <1>1, <2>1
<1>4. shadow' \in [PoolServers -> [seeded : BOOLEAN, pair : Pairs]]
  BY <1>1, NoPairIsAPair
<1>5. HostInv'
  BY <1>i, <1>1, <1>3, <1>4, SessionFrame DEF HostInv
<1>6. relay' \in Relays /\ relay'.applied = relay.applied /\ relay'.session = "offline"
  BY <1>i, <1>1, MaybeDialled DEF FleetInv, Relays
<1>7. fleetJob' \in Jobs /\ fleetJob'.status = "none" /\ refresher' \in Loops
  BY <1>1, MaybeDialled DEF Jobs, Loops
<1>8. FleetInv'
  BY <1>i, <1>1, <1>6, <1>7 DEF FleetInv
<1> QED BY <1>2, <1>5, <1>8 DEF PoolInv

-----------------------------------------------------------------------------
(* The specification.                                                      *)

LEMMA FirstRecords ==
    ASSUME NEW bound \in SUBSET Families, NEW s \in PoolServers
    PROVE  LET r == FirstRegistry(bound).agents[s]
           IN  /\ Recorded(r)
               /\ \A f \in Families : SourceForFamily(r, f).address = FirstAddresses[s][f]
<1> DEFINE here == [f \in Families |-> IF f \in bound THEN FirstAddresses[s][f] ELSE NoAddress]
           found == [f \in Families |-> IF f \in bound THEN NoAddress ELSE FirstAddresses[s][f]]
           r == [NoRecord EXCEPT !.exists = TRUE, !.reported = here, !.probed = found]
<1>1. FirstRegistry(bound).agents[s] = r
  BY DEF FirstRegistry
<1>2. FirstAddresses[s] \in Pairs
  BY PoolConstants
<1>3. here \in Pairs /\ found \in Pairs
  <2>1. \A f \in Families : here[f] \in Maybe(OfFamily(f)) /\ found[f] \in Maybe(OfFamily(f))
    BY <1>2, PairFacts DEF Maybe
  <2> QED BY <2>1, IsAPair
<1>4. \A f \in Families : /\ here[f] # NoAddress => found[f] = NoAddress
                          /\ FirstAddresses[s][f] = IF found[f] # NoAddress THEN found[f] ELSE here[f]
  OBVIOUS
<1> HIDE DEF here, found
<1>5. /\ r \in Records /\ r.exists = TRUE /\ r.reported = here /\ r.probed = found
      /\ r.override = NoPair /\ r.observed = NoAddress
  BY <1>3, NoRecordIsRecorded DEF Records
<1> HIDE DEF r
<1>6. Recorded(r)
  BY <1>4, <1>5 DEF Recorded
<1>7. \A f \in Families : SourceForFamily(r, f).address = FirstAddresses[s][f]
  <2>1. \A f \in Families : r.override[f] = NoAddress /\ r.observed \notin OfFamily(f)
    BY <1>5, NoPairIsAPair, AddressesOfFamily
  <2> QED BY <1>4, <1>5, <2>1 DEF SourceForFamily
<1> QED BY <1>1, <1>6, <1>7

LEMMA PoolStarts ==
    ASSUME PoolInit
    PROVE  PoolInv
<1>1. PICK bound \in SUBSET Families : pooled = FirstRegistry(bound)
  BY DEF PoolInit
<1>2. /\ poolFile = pooled
      /\ hostAddresses = [s \in PoolServers |-> pooled.agents[s].reported]
      /\ poolSessions = [s \in PoolServers |-> [state |-> "online", reported |-> hostAddresses[s]]]
      /\ shadow = [s \in PoolServers |-> [seeded |-> FALSE, pair |-> NoPair]]
      /\ probing = {} /\ leaving = {} /\ owed = FALSE
      /\ refresher = [pc |-> "idle", requested |-> 0, target |-> 0, joined |-> FALSE]
      /\ fleetJob = [kind |-> "none", status |-> "none", plan |-> NoConfig, changed |-> FALSE]
      /\ relay = [session |-> "ready", record |-> "applied", sent |-> NoConfig, job |-> FALSE,
                  applied |-> [l \in Routes |-> AgentAddressForFamily(pooled.agents[l.to], l.family)]]
      /\ overtaken = FALSE /\ unsaved = {}
  BY DEF PoolInit
<1>3. \A s \in PoolServers : Recorded(pooled.agents[s])
  BY <1>1, FirstRecords
<1>4. Stored(pooled)
  <2> DEFINE A == [s \in PoolServers |->
                     [NoRecord EXCEPT !.exists = TRUE,
                         !.reported = [f \in Families |-> IF f \in bound THEN FirstAddresses[s][f] ELSE NoAddress],
                         !.probed = [f \in Families |-> IF f \in bound THEN NoAddress ELSE FirstAddresses[s][f]]]]
  <2>a. pooled = [version |-> 1, manual |-> {}, agents |-> A]
    BY <1>1, Zenon DEF FirstRegistry
  <2>b. A = [s \in PoolServers |-> A[s]]
    BY Zenon
  <2> HIDE DEF A
  <2>1. /\ pooled.version = 1 /\ pooled.manual = {}
        /\ pooled = [version |-> pooled.version, manual |-> pooled.manual, agents |-> pooled.agents]
        /\ pooled.agents = [s \in PoolServers |-> pooled.agents[s]]
    BY <2>a, <2>b
  <2>2. \A s \in PoolServers : pooled.agents[s] \in Records
    BY <1>3 DEF Recorded
  <2>3. pooled.agents \in [PoolServers -> Records]
    BY <2>1, <2>2
  <2>4. pooled \in Registries
    BY <2>1, <2>3 DEF Registries
  <2> QED BY <1>3, <2>4 DEF Stored
<1>5. RegistryInv
  BY <1>2, <1>4 DEF RegistryInv
<1>6. HostInv
  <2>1. \A s \in PoolServers : pooled.agents[s].reported \in Pairs
    BY <1>4, RecordOf
  <2>2. hostAddresses \in [PoolServers -> Pairs]
    BY <1>2, <2>1
  <2> QED BY <1>2, <2>2, NoPairIsAPair DEF HostInv, Sessions
<1> DEFINE first == [l \in Routes |-> AgentAddressForFamily(pooled.agents[l.to], l.family)]
<1>7. Dialable(first)
  <2> SUFFICES ASSUME NEW l \in Routes
               PROVE  first[l] \in Addresses /\ (l.family # "auto" => first[l] \in OfFamily(l.family))
    BY DEF Dialable
  <2>1. /\ l.to \in PoolServers /\ l.family \in Families \cup {"auto"}
        /\ first[l] = AgentAddressForFamily(pooled.agents[l.to], l.family)
    BY RouteFacts
  <2>2. PICK f \in Families : l.family \in {f, "auto"} /\ FirstAddresses[l.to][f] # NoAddress
    BY PoolConstants
  <2>3. \A g \in Families : SourceForFamily(pooled.agents[l.to], g).address = FirstAddresses[l.to][g]
    BY <1>1, <2>1, FirstRecords
  <2>4. "auto" \notin Families /\ Families = {"ipv4", "ipv6"}
    BY DEF Families
  <2>5. first[l] # NoAddress
    BY <2>1, <2>2, <2>3, <2>4 DEF AgentAddressForFamily
  <2>6. pooled.agents[l.to] \in Records
    BY <1>3, <2>1 DEF Recorded
  <2>7. first[l] \in Maybe(Addresses) /\ (l.family # "auto" => first[l] \in Maybe(OfFamily(l.family)))
    BY <2>1, <2>6, AddressOfFamily
  <2> QED BY <2>5, <2>7 DEF Maybe
<1> HIDE DEF first
<1>8. relay \in Relays /\ relay.applied = first /\ relay.session = "ready" /\ relay.record = "applied"
  <2>1. relay = [session |-> "ready", record |-> "applied", sent |-> NoConfig, job |-> FALSE, applied |-> first]
    BY <1>2, Zenon DEF first
  <2>2. first \in [Routes -> Addresses]
    BY <1>7 DEF Dialable
  <2> QED BY <2>1, <2>2, MaybeDialled DEF Relays
<1>9. fleetJob \in Jobs /\ fleetJob.status = "none" /\ refresher \in Loops
  BY <1>2, MaybeDialled DEF Jobs, Loops
<1>10. FleetInv
  BY <1>2, <1>7, <1>8, <1>9 DEF FleetInv
<1> QED BY <1>5, <1>6, <1>10 DEF PoolInv

LEMMA PoolSteps ==
    ASSUME PoolInv, [PoolNext]_poolVars
    PROVE  PoolInv'
<1>1. ASSUME NEW s \in PoolServers, ServerStep(s)
      PROVE  PoolInv'
  BY <1>1, HostMovesStep, ConnectStep, SyncHelloStep, SyncObservedStep, HeartbeatStep, EndsStep, CleanPoolStep,
     RequestProbeStep, HandleProbeStep, Zenon DEF ServerStep
<1>2. ASSUME LoopStep \/ JobStep
      PROVE  PoolInv'
  BY <1>2, LoopSteps, StartRefreshStep, QueueJobStep, FinishJobStep, Zenon DEF LoopStep, JobStep
<1>3. CASE UNCHANGED poolVars
  <2>1. FleetInv /\ UNCHANGED <<fleetSide, owed>> /\ UNCHANGED <<pooled, poolFile, unsaved, serverSide>>
    BY <1>3 DEF PoolInv, poolVars, fleetSide, serverSide
  <2>2. FleetInv'
    BY <2>1, FleetFrame DEF FleetInv
  <2> QED BY <2>1, <2>2, FleetStep
<1> QED BY <1>1, <1>2, <1>3, PageSteps, LoopSteps, StartTopologyStep, RelayAppliesStep, RelayDropsStep, ReplaySteps,
           RestartStep, Zenon DEF PoolNext

(* PoolIsSound: the registry and its file hold what their types say, a     *)
(* family the host reports itself is never probed (SetProbed), and the     *)
(* applied topology can always be rendered again, with an address of the   *)
(* family each link pins (resolverForState): for every set of Servers,     *)
(* addresses and links, after any heartbeats, probes, failed writes,       *)
(* edits, revocations, rollouts, replays and restarts.                     *)
THEOREM PoolStaysSound == PoolSpec => []PoolIsSound
<1>1. PoolInv => PoolIsSound
  <2> SUFFICES ASSUME PoolInv PROVE PoolIsSound
    OBVIOUS
  <2>i. RegistryInv /\ HostInv /\ FleetInv
    BY DEF PoolInv
  <2>1. PoolTypeOK
    BY <2>i DEF RegistryInv, HostInv, FleetInv, Stored, Recorded, Sessions, Loops, Jobs, Relays, PoolTypeOK
  <2>2. ProbingIsFallback
    BY <2>i DEF RegistryInv, Stored, Recorded, ProbingIsFallback
  <2>3. AlwaysRenders
    <3>1. Renders
      BY <2>i, CompiledDialable
    <3> QED BY <2>i, <3>1 DEF Renders, FleetInv, Dialable, AlwaysRenders
  <2> QED BY <2>1, <2>2, <2>3 DEF PoolIsSound
<1>2. PoolInit => PoolInv
  BY PoolStarts
<1>3. PoolInv /\ [PoolNext]_poolVars => PoolInv'
  BY PoolSteps
<1> QED BY <1>1, <1>2, <1>3, PTL DEF PoolSpec

-----------------------------------------------------------------------------
(* What clients read.                                                      *)
Rule == [id : RuleIDs, order : Nat, action : {"proxy", "direct"}]
Profile == [secret : Nat, rules : Seq(Rule)]
AccountRecord == [present : BOOLEAN, link : Nat, issued : Nat, secret : Nat, standing : {"enabled", "quota", "expired"}]

(* The rules lie in the slice in the order they are numbered in.           *)
Ordered(rules) == rules \in Seq(Rule) /\ \A i \in 1 .. Len(rules) : rules[i].order = i - 1

StoreInv ==
    /\ account \in AccountRecord /\ Ordered(policy)
    /\ published \in Seq(Profile) /\ Len(published) >= 1
    /\ published[Len(published)] = SubscriptionProjection(account, policy)

(* A cache: finitely many entries of the kind, and a counter.              *)
IsCache(cache) ==
    /\ cache = [entries |-> cache.entries, total |-> cache.total]
    /\ cache.entries = [k \in DOMAIN cache.entries |-> cache.entries[k]]
    /\ IsFiniteSet(DOMAIN cache.entries) /\ cache.total \in Int

(* What lies under a key is the rendering of that key, and what is counted *)
(* is at least what lies there.                                            *)
PageOf(k, e) == e = [content |-> Render(k[1], k[2]), bytes |-> 1, usedAt |-> e.usedAt]
Pages(cache) ==
    /\ IsCache(cache) /\ \A k \in DOMAIN cache.entries : PageOf(k, cache.entries[k])
    /\ Cardinality(DOMAIN cache.entries) <= cache.total
RenderedInv ==
    /\ Pages(rendered)
    /\ Cardinality(DOMAIN rendered.entries) <= RenderedBytes
    /\ Cardinality(DOMAIN rendered.entries) <= RenderedEntries

(* A rule set was asked for no later than it was fetched.                  *)
RuleSetEntry(e) ==
    /\ e \in [status : {"found", "missing"}, bytes : {0, 1}, from : Nat, at : Nat, usedAt : Nat]
    /\ e.at <= e.from
Fetched(cache) == IsCache(cache) /\ \A k \in DOMAIN cache.entries : RuleSetEntry(cache.entries[k])
FetchedInv == Fetched(fetched)

Client == [stage : {"found", "profile", "rendered"}, kind : {"subscription"}, format : Formats, link : Nat,
           secret : Nat, since : Nat, profile : Profile]
SeenEntry == [status : {"none", "found", "missing"}, bytes : {0, 1}, from : Nat, at : Nat, usedAt : Nat]
FetchResult == [status : {"error", "found", "missing"}, from : Nat]
Fetcher == [stage : {"waiting", "queued", "fetching", "fetched"}, kind : {"rules"}, key : RuleSets, at : Nat,
            seen : SeenEntry, result : FetchResult]

(* Where a request stands: the state of the store it renders was there     *)
(* after its link was found; what it fetched is not older than it is.      *)
ClientOk(x) ==
    /\ x \in Client /\ x.since \in 1 .. Len(published)
    /\ x.stage # "found" => \E i \in x.since .. Len(published) : x.profile = published[i]
FetcherOk(x) ==
    /\ x \in Fetcher /\ x.at <= time /\ time <= x.at + 1
    /\ x.seen = NoEntry \/ RuleSetEntry(x.seen)
    /\ x.result = Failure \/ (x.result.status # "error" /\ x.result.from >= x.at)
AnswerOk(x) ==
    /\ x.stage = "answered"
    /\ \/ /\ x.ask.kind = "subscription" /\ x.ask.since \in 1 .. Len(published)
          /\ \E i \in x.ask.since .. Len(published) : x.content = Render(x.ask.format, published[i])
       \/ x.ask.kind = "rules" /\ (x.content = Failure \/ x.content.from + StaleFor >= x.ask.at)
ReaderOk(x) == x = NoReader \/ ClientOk(x) \/ FetcherOk(x) \/ AnswerOk(x)
ReadersInv == readers = [r \in Readers |-> readers[r]] /\ \A r \in Readers : ReaderOk(readers[r])

(* leading names, for every rule set somebody fetches, the one who does.   *)
AtWork == {"queued", "fetching", "fetched"}
JoinInv ==
    /\ leading = [k \in DOMAIN leading |-> leading[k]]
    /\ \A k \in DOMAIN leading :
          leading[k] \in Readers /\ readers[leading[k]].stage \in AtWork /\ readers[leading[k]].key = k
    /\ \A r \in Readers : readers[r].stage \in AtWork \cup {"waiting"} => readers[r].key \in DOMAIN leading
    /\ \A r \in Readers : readers[r].stage \in AtWork => leading[readers[r].key] = r

(* One refresh at a time is between the look at the names and their file.  *)
CatalogInv ==
    /\ catalog \in [cached : Nat, file : Nat, refreshing : BOOLEAN]
    /\ catalog.file <= catalog.cached /\ catalog.cached <= time
    /\ refreshers \in [Refreshers -> [stage : {"none", "waiting", "fetching", "saving", "clearing"}, at : Nat]]
    /\ \A p, q \in Refreshers :
          refreshers[p].stage \in {"fetching", "saving"} /\ refreshers[q].stage \in {"fetching", "saving"} => p = q
    /\ \A p \in Refreshers :
          /\ refreshers[p].stage = "fetching" =>
                /\ refreshers[p].at <= time
                /\ refreshers[p].at >= catalog.cached + CatalogTTL \/ catalog.cached = 0
          /\ refreshers[p].stage = "saving" => refreshers[p].at = catalog.cached

ReadInv ==
    /\ time \in Nat
    /\ StoreInv /\ RenderedInv /\ FetchedInv /\ ReadersInv /\ JoinInv /\ CatalogInv

-----------------------------------------------------------------------------
(* Sorting leaves a policy that is in order as it is.                      *)
LEMMA InOrderKeeps ==
    ASSUME NEW rules, Ordered(rules)
    PROVE  InOrder(rules) = rules
<1>1. /\ DOMAIN rules = 1 .. Len(rules) /\ Len(rules) \in Nat
      /\ rules = [i \in DOMAIN rules |-> rules[i]]
  BY DEF Ordered
<1>2. ASSUME NEW i \in DOMAIN rules
      PROVE  (CHOOSE j \in DOMAIN rules : rules[j].order = i - 1) = i
  <2>1. rules[i].order = i - 1
    BY <1>1 DEF Ordered
  <2>2. ASSUME NEW j \in DOMAIN rules, rules[j].order = i - 1
        PROVE  j = i
    BY <1>1, <2>2 DEF Ordered
  <2> QED
    BY <2>1, <2>2
<1> QED
  BY <1>1, <1>2 DEF InOrder

LEMMA RenumberedIsOrdered ==
    ASSUME NEW rules \in Seq(Rule)
    PROVE  Ordered(reorderSubscriptionRules(rules))
<1>1. /\ DOMAIN rules = 1 .. Len(rules) /\ Len(rules) \in Nat
      /\ \A i \in 1 .. Len(rules) : rules[i] \in Rule
  OBVIOUS
<1>2. PICK new : new = reorderSubscriptionRules(rules)
  OBVIOUS
<1>3. ASSUME NEW i \in 1 .. Len(rules)
      PROVE  [rules[i] EXCEPT !.order = i - 1] \in Rule /\ [rules[i] EXCEPT !.order = i - 1].order = i - 1
  <2>1. rules[i] \in Rule /\ i - 1 \in Nat
    BY <1>1
  <2> QED
    BY <2>1 DEF Rule
<1>a. DOMAIN new = 1 .. Len(rules) /\ \A i \in 1 .. Len(rules) : new[i] = [rules[i] EXCEPT !.order = i - 1]
  BY <1>1, <1>2 DEF reorderSubscriptionRules
<1>b. new = [i \in 1 .. Len(rules) |-> new[i]]
  BY <1>1, <1>2 DEF reorderSubscriptionRules
<1>4. new \in Seq(Rule) /\ Len(new) = Len(rules)
  <2>1. \A i \in 1 .. Len(rules) : new[i] \in Rule
    BY <1>3, <1>a
  <2> QED
    BY <1>1, <1>b, <2>1
<1>5. \A i \in 1 .. Len(rules) : new[i].order = i - 1
  BY <1>3, <1>a
<1> QED
  BY <1>2, <1>4, <1>5 DEF Ordered

LEMMA DroppedIsSeq ==
    ASSUME NEW rules \in Seq(Rule), NEW i \in 1 .. Len(rules)
    PROVE  Dropped(rules, i) \in Seq(Rule)
<1>1. i \in Nat /\ Len(rules) \in Nat /\ i - 1 <= Len(rules) /\ 1 <= i
  OBVIOUS
<1>2. SubSeq(rules, 1, i - 1) \in Seq(Rule)
  BY <1>1, SubSeqProperties
<1>3. SubSeq(rules, i + 1, Len(rules)) \in Seq(Rule)
  BY <1>1, SubSeqProperties
<1> QED
  BY <1>2, <1>3, ConcatProperties DEF Dropped

LEMMA SwappedIsSeq ==
    ASSUME NEW rules \in Seq(Rule), NEW i \in 1 .. Len(rules), NEW j \in 1 .. Len(rules)
    PROVE  Swapped(rules, i, j) \in Seq(Rule)
  BY DEF Swapped

LEMMA RuleFound ==
    ASSUME Ordered(policy), NEW id, HasRule(id)
    PROVE  At(policy, id) \in 1 .. Len(policy)
<1>1. DOMAIN policy = 1 .. Len(policy)
  BY DEF Ordered
<1> QED
  BY <1>1 DEF HasRule, At

-----------------------------------------------------------------------------
(* A step of the store adds to what it has been and leaves the rest alone. *)
LEMMA ReaderKept ==
    ASSUME time \in Nat, time' = time, published \in Seq(Profile),
           \/ published' = published
           \/ \E p \in Profile : published' = Append(published, p),
           NEW x, ReaderOk(x)
    PROVE  ReaderOk(x)'
<1>1. /\ Len(published) \in Nat /\ Len(published') \in Nat /\ Len(published) <= Len(published')
      /\ \A i \in 1 .. Len(published) : published'[i] = published[i]
  OBVIOUS
<1>2. CASE x = NoReader
  BY <1>2 DEF ReaderOk
<1>3. CASE ClientOk(x)
  <2>1. x \in Client /\ x.since \in 1 .. Len(published')
    BY <1>1, <1>3 DEF ClientOk
  <2>2. x.stage # "found" => \E i \in x.since .. Len(published') : x.profile = published'[i]
    BY <1>1, <1>3 DEF ClientOk
  <2> QED
    BY <2>1, <2>2 DEF ReaderOk, ClientOk
<1>4. CASE FetcherOk(x)
  BY <1>4 DEF ReaderOk, FetcherOk, RuleSetEntry
<1>5. CASE AnswerOk(x)
  <2>1. CASE x.ask.kind = "subscription"
    <3>1. /\ x.ask.since \in 1 .. Len(published)
          /\ \E i \in x.ask.since .. Len(published) : x.content = Render(x.ask.format, published[i])
      BY <1>5, <2>1 DEF AnswerOk
    <3>2. x.ask.since \in 1 .. Len(published')
      BY <1>1, <3>1
    <3>3. \E i \in x.ask.since .. Len(published') : x.content = Render(x.ask.format, published'[i])
      BY <1>1, <3>1
    <3> QED
      BY <1>5, <2>1, <3>2, <3>3 DEF ReaderOk, AnswerOk
  <2>2. CASE x.ask.kind # "subscription"
    BY <1>5, <2>2 DEF ReaderOk, AnswerOk
  <2> QED
    BY <2>1, <2>2
<1> QED
  BY <1>2, <1>3, <1>4, <1>5 DEF ReaderOk

LEMMA UserMutated ==
    ASSUME ReadInv, NEW acc \in AccountRecord, NEW rules, Ordered(rules), mutateUser(acc, rules)
    PROVE  ReadInv'
<1>1. PICK now : now = SubscriptionProjection(acc, rules)
  OBVIOUS
<1>2. /\ account' = acc /\ policy' = rules
      /\ published' = IF now = published[Len(published)] THEN published ELSE Append(published, now)
      /\ UNCHANGED <<rendered, fetched, leading, readers, catalog, refreshers, time>>
  BY <1>1 DEF mutateUser, ruleSide, catalogSide
<1>3. now \in Profile
  BY <1>1 DEF SubscriptionProjection, AccountRecord, Profile, Ordered
<1>4. published \in Seq(Profile) /\ Len(published) \in Nat /\ Len(published) >= 1 /\ time \in Nat
  BY DEF ReadInv, StoreInv
<1>5. /\ published' \in Seq(Profile) /\ Len(published') >= 1 /\ published'[Len(published')] = now
      /\ published' = published \/ \E p \in Profile : published' = Append(published, p)
  BY <1>2, <1>3, <1>4
<1>6. StoreInv'
  BY <1>1, <1>2, <1>5 DEF StoreInv, SubscriptionProjection
<1>7. ReadersInv'
  <2>1. \A r \in Readers : ReaderOk(readers[r])
    BY DEF ReadInv, ReadersInv
  <2>2. ASSUME NEW r \in Readers
        PROVE  ReaderOk(readers[r])'
    <3>1. PICK x : x = readers[r]
      OBVIOUS
    <3>2. ReaderOk(x)'
      BY <1>2, <1>4, <1>5, <2>1, <3>1, ReaderKept
    <3> QED
      BY <1>2, <3>1, <3>2
  <2> QED
    BY <1>2, <2>2 DEF ReadInv, ReadersInv
<1>8. RenderedInv' /\ FetchedInv' /\ JoinInv' /\ CatalogInv'
  BY <1>2 DEF ReadInv, RenderedInv, FetchedInv, JoinInv, CatalogInv, Pages, PageOf, IsCache, Fetched, RuleSetEntry
<1> QED
  BY <1>2, <1>4, <1>6, <1>7, <1>8 DEF ReadInv

LEMMA EditAccountStep ==
    ASSUME ReadInv, EditAccount
    PROVE  ReadInv'
<1>1. account \in AccountRecord /\ Ordered(policy)
  BY DEF ReadInv, StoreInv
<1>2. \A acc : mutateUser(acc, policy) /\ acc \in AccountRecord => ReadInv'
  BY <1>1, UserMutated
<1>3. NewLink(account) \in AccountRecord /\ [NewLink(account) EXCEPT !.secret = @ + 1] \in AccountRecord
  <2>1. PICK renewed : renewed = NewLink(account)
    OBVIOUS
  <2>2. renewed = [account EXCEPT !.link = account.issued + 1, !.issued = account.issued + 1]
    BY <2>1 DEF NewLink
  <2>3. renewed \in AccountRecord
    <3>1. account.issued + 1 \in Nat
      BY <1>1 DEF AccountRecord
    <3> QED
      BY <1>1, <2>2, <3>1 DEF AccountRecord
  <2>4. [renewed EXCEPT !.secret = @ + 1] \in AccountRecord
    BY <2>3 DEF AccountRecord
  <2> QED
    BY <2>1, <2>3, <2>4
<1>4. /\ [account EXCEPT !.link = 0] \in AccountRecord
      /\ [account EXCEPT !.present = FALSE, !.link = 0] \in AccountRecord
      /\ \A standing \in {"enabled", "quota", "expired"} : [account EXCEPT !.standing = standing] \in AccountRecord
  BY <1>1 DEF AccountRecord
<1> QED
  BY <1>2, <1>3, <1>4 DEF EditAccount, RotateUserSubscription, ResetUserSubscriptionAndCredentials,
     RevokeUserSubscription, DeleteUser, SettleMembership

LEMMA EditPolicyStep ==
    ASSUME ReadInv, EditPolicy
    PROVE  ReadInv'
<1>1. /\ account \in AccountRecord /\ Ordered(policy) /\ policy \in Seq(Rule) /\ Len(policy) \in Nat
      /\ DOMAIN policy = 1 .. Len(policy) /\ \A i \in 1 .. Len(policy) : policy[i] \in Rule
  BY DEF ReadInv, StoreInv, Ordered
<1>2. \A rules : Ordered(rules) /\ mutateUser(account, rules) => ReadInv'
  BY <1>1, UserMutated
<1>3. ASSUME NEW id \in RuleIDs, AddSubscriptionRule(id)
      PROVE  ReadInv'
  <2>1. PICK rule \in Rule : rule = [id |-> id, order |-> Len(policy), action |-> "proxy"]
    BY <1>1 DEF Rule
  <2>2. Append(policy, rule) \in Seq(Rule) /\ \A i \in 1 .. Len(Append(policy, rule)) : Append(policy, rule)[i].order = i - 1
    BY <1>1, <2>1 DEF Ordered
  <2> QED
    BY <1>2, <1>3, <2>1, <2>2 DEF AddSubscriptionRule, Ordered
<1>4. ASSUME NEW id \in RuleIDs, UpdateSubscriptionRule(id)
      PROVE  ReadInv'
  <2>1. PICK k \in 1 .. Len(policy) : k = At(policy, id)
    BY <1>1, <1>4, RuleFound DEF UpdateSubscriptionRule
  <2>2. PICK rule : rule = [policy[k] EXCEPT !.action = "direct"]
    OBVIOUS
  <2>3. rule \in Rule /\ rule.order = policy[k].order
    BY <1>1, <2>2 DEF Rule
  <2>4. PICK rules : rules = [policy EXCEPT ![k] = rule]
    OBVIOUS
  <2>5. rules \in Seq(Rule) /\ \A i \in 1 .. Len(rules) : rules[i].order = i - 1
    BY <1>1, <2>3, <2>4 DEF Ordered
  <2>6. mutateUser(account, rules)
    BY <1>4, <2>1, <2>2, <2>4 DEF UpdateSubscriptionRule
  <2> QED
    BY <1>2, <2>5, <2>6 DEF Ordered
<1>5. ASSUME NEW id \in RuleIDs, DeleteSubscriptionRule(id)
      PROVE  ReadInv'
  <2>1. PICK k \in 1 .. Len(policy) : k = At(policy, id)
    BY <1>1, <1>5, RuleFound DEF DeleteSubscriptionRule
  <2> QED
    BY <1>1, <1>2, <1>5, <2>1, DroppedIsSeq, RenumberedIsOrdered DEF DeleteSubscriptionRule
<1>6. ASSUME NEW id \in RuleIDs, NEW direction \in {-1, 1}, MoveSubscriptionRule(id, direction)
      PROVE  ReadInv'
  <2>1. InOrder(policy) = policy
    BY <1>1, InOrderKeeps
  <2>2. PICK k \in 1 .. Len(policy) : k = At(policy, id)
    BY <1>1, <1>6, RuleFound DEF MoveSubscriptionRule
  <2>3. k + direction \in 1 .. Len(policy) /\ mutateUser(account, reorderSubscriptionRules(Swapped(policy, k, k + direction)))
    BY <1>1, <1>6, <2>1, <2>2 DEF MoveSubscriptionRule
  <2> QED
    BY <1>1, <1>2, <2>3, SwappedIsSeq, RenumberedIsOrdered
<1>7. ASSUME NEW order \in Bijection(DOMAIN policy, DOMAIN policy), ReorderSubscriptionRules(order)
      PROVE  ReadInv'
  <2>1. order \in [1 .. Len(policy) -> 1 .. Len(policy)]
    BY <1>1, <1>7 DEF Bijection, Injection, Surjection
  <2>2. PICK rules : rules = [i \in DOMAIN order |-> policy[order[i]]]
    OBVIOUS
  <2>3. rules \in Seq(Rule)
    <3>1. rules = [i \in 1 .. Len(policy) |-> policy[order[i]]]
      BY <2>1, <2>2
    <3>2. \A i \in 1 .. Len(policy) : policy[order[i]] \in Rule
      BY <1>1, <2>1
    <3> QED
      BY <1>1, <3>1, <3>2
  <2> QED
    BY <1>2, <1>7, <2>2, <2>3, RenumberedIsOrdered DEF ReorderSubscriptionRules
<1> QED
  BY <1>3, <1>4, <1>5, <1>6, <1>7 DEF EditPolicy

-----------------------------------------------------------------------------
(* Caches.                                                                 *)
LEMMA WeightType ==
    ASSUME NEW cache, IsCache(cache), NEW keys \in SUBSET DOMAIN cache.entries
    PROVE  Weight(cache.entries, keys) \in Nat
<1>1. IsFiniteSet({k \in keys : cache.entries[k].bytes = 1})
  BY FS_Subset DEF IsCache
<1> QED
  BY <1>1, FS_CardinalityType DEF Weight

LEMMA WithoutCache ==
    ASSUME NEW cache, IsCache(cache), NEW evicted \in SUBSET DOMAIN cache.entries, NEW new, new = Without(cache, evicted)
    PROVE  /\ IsCache(new) /\ DOMAIN new.entries = DOMAIN cache.entries \ evicted
           /\ \A k \in DOMAIN new.entries : new.entries[k] = cache.entries[k]
           /\ new.total = cache.total - Weight(cache.entries, evicted)
<1>1. new = [entries |-> [k \in DOMAIN cache.entries \ evicted |-> cache.entries[k]],
             total |-> cache.total - Weight(cache.entries, evicted)]
  BY DEF Without, Restrict
<1>2. Weight(cache.entries, evicted) \in Nat /\ cache.total \in Int
  BY WeightType DEF IsCache
<1>3. IsFiniteSet(DOMAIN cache.entries \ evicted)
  BY FS_Subset DEF IsCache
<1> QED
  BY <1>1, <1>2, <1>3 DEF IsCache

LEMMA EvictedCache ==
    ASSUME NEW cache, NEW key, NEW most, NEW bytes, NEW new \in Evictions(cache, key, most, bytes)
    PROVE  \E evicted \in SUBSET DOMAIN cache.entries :
              new = Without(cache, evicted) /\ (evicted = DOMAIN cache.entries \/ Fits(new, most, bytes))
  BY DEF Evictions

LEMMA WithCache ==
    ASSUME NEW cache, IsCache(cache), NEW key, NEW e, e.bytes \in Nat, NEW new, new = With(cache, key, e)
    PROVE  /\ IsCache(new) /\ DOMAIN new.entries = DOMAIN cache.entries \cup {key}
           /\ new.entries[key] = e /\ \A k \in DOMAIN cache.entries \ {key} : new.entries[k] = cache.entries[k]
           /\ new.total = cache.total + e.bytes
<1>1. /\ cache = [entries |-> cache.entries, total |-> cache.total] /\ cache.total \in Int
      /\ IsFiniteSet(DOMAIN cache.entries)
  BY DEF IsCache
<1>2. new = [entries |-> Put(cache.entries, key, e), total |-> cache.total + e.bytes]
  BY <1>1 DEF With
<1>3. new = [entries |-> [k \in DOMAIN cache.entries \cup {key} |-> IF k = key THEN e ELSE cache.entries[k]],
             total |-> cache.total + e.bytes]
  BY <1>2 DEF Put
<1>4. IsFiniteSet(DOMAIN cache.entries \cup {key})
  BY <1>1, FS_AddElement
<1> QED
  BY <1>1, <1>3, <1>4 DEF IsCache

LEMMA TouchedCache ==
    ASSUME NEW cache, IsCache(cache), NEW key \in DOMAIN cache.entries, NEW new, new = Touched(cache, key)
    PROVE  /\ IsCache(new) /\ DOMAIN new.entries = DOMAIN cache.entries /\ new.total = cache.total
           /\ new.entries[key] = [cache.entries[key] EXCEPT !.usedAt = time]
           /\ \A k \in DOMAIN cache.entries \ {key} : new.entries[k] = cache.entries[k]
<1>1. /\ cache = [entries |-> cache.entries, total |-> cache.total] /\ cache.total \in Int
      /\ IsFiniteSet(DOMAIN cache.entries) /\ cache.entries = [k \in DOMAIN cache.entries |-> cache.entries[k]]
  BY DEF IsCache
<1>2. new = [entries |-> [cache.entries EXCEPT ![key] = [cache.entries[key] EXCEPT !.usedAt = time]], total |-> cache.total]
  BY <1>1 DEF Touched
<1> QED
  BY <1>1, <1>2 DEF IsCache

LEMMA EmptiedCache ==
    /\ IsCache(EmptyCache) /\ DOMAIN EmptyCache.entries = {} /\ EmptyCache.total = 0
    /\ Cardinality(DOMAIN EmptyCache.entries) = 0
<1>1. /\ DOMAIN EmptyCache.entries = {} /\ EmptyCache.total = 0
      /\ EmptyCache.entries = [k \in DOMAIN EmptyCache.entries |-> EmptyCache.entries[k]]
      /\ EmptyCache = [entries |-> EmptyCache.entries, total |-> EmptyCache.total]
  BY DEF EmptyCache
<1> QED
  BY <1>1, FS_EmptySet DEF IsCache

(* Every page weighs one unit.                                             *)
LEMMA PagesWeigh ==
    ASSUME NEW cache, \A k \in DOMAIN cache.entries : PageOf(k, cache.entries[k]), NEW keys \in SUBSET DOMAIN cache.entries
    PROVE  Weight(cache.entries, keys) = Cardinality(keys)
<1>1. \A k, e : PageOf(k, e) => e.bytes = 1
  BY DEF PageOf
<1>2. {k \in keys : cache.entries[k].bytes = 1} = keys
  BY <1>1
<1> QED
  BY <1>2 DEF Weight

LEMMA PageAdded ==
    ASSUME NEW cache, Pages(cache), NEW key, NEW e, PageOf(key, e), NEW new, new = With(cache, key, e)
    PROVE  Pages(new)
<1>1. IsCache(cache) /\ e.bytes = 1
  BY DEF Pages, PageOf
<1>2. /\ IsCache(new) /\ DOMAIN new.entries = DOMAIN cache.entries \cup {key} /\ new.total = cache.total + 1
      /\ new.entries[key] = e /\ \A k \in DOMAIN cache.entries \ {key} : new.entries[k] = cache.entries[k]
  BY <1>1, WithCache
<1>3. \A k \in DOMAIN new.entries : PageOf(k, new.entries[k])
  BY <1>2 DEF Pages
<1>4. Cardinality(DOMAIN new.entries) <= Cardinality(DOMAIN cache.entries) + 1
  BY <1>1, <1>2, FS_AddElement, FS_CardinalityType DEF IsCache
<1>5. Cardinality(DOMAIN new.entries) \in Nat /\ Cardinality(DOMAIN cache.entries) \in Nat /\ cache.total \in Int
  BY <1>1, <1>2, FS_CardinalityType DEF IsCache
<1> QED
  BY <1>2, <1>3, <1>4, <1>5 DEF Pages

LEMMA PagesEvicted ==
    ASSUME NEW cache, Pages(cache), NEW key, NEW new \in Evictions(cache, key, RenderedEntries, RenderedBytes)
    PROVE  /\ Pages(new)
           /\ Cardinality(DOMAIN new.entries) <= RenderedBytes
           /\ Cardinality(DOMAIN new.entries) <= RenderedEntries
<1>1. PICK evicted \in SUBSET DOMAIN cache.entries :
         new = Without(cache, evicted) /\ (evicted = DOMAIN cache.entries \/ Fits(new, RenderedEntries, RenderedBytes))
  BY EvictedCache
<1>2. IsCache(cache) /\ IsFiniteSet(DOMAIN cache.entries) /\ cache.total \in Int
  BY DEF Pages, IsCache
<1>3. /\ IsCache(new) /\ DOMAIN new.entries = DOMAIN cache.entries \ evicted
      /\ \A k \in DOMAIN new.entries : new.entries[k] = cache.entries[k]
      /\ new.total = cache.total - Cardinality(evicted)
  BY <1>1, <1>2, WithoutCache, PagesWeigh DEF Pages
<1>4. /\ Cardinality(DOMAIN cache.entries \ evicted) = Cardinality(DOMAIN cache.entries) - Cardinality(evicted)
      /\ Cardinality(evicted) \in Nat /\ Cardinality(DOMAIN cache.entries) \in Nat
      /\ Cardinality(DOMAIN new.entries) \in Nat
  <2>1. IsFiniteSet(evicted) /\ IsFiniteSet(DOMAIN new.entries)
    BY <1>2, <1>3, FS_Subset DEF IsCache
  <2>2. DOMAIN cache.entries \cap evicted = evicted
    OBVIOUS
  <2> QED
    BY <1>2, <2>1, <2>2, FS_Difference, FS_CardinalityType
<1>5. Cardinality(DOMAIN new.entries) <= new.total
  BY <1>2, <1>3, <1>4 DEF Pages
<1>6. Pages(new)
  BY <1>3, <1>5 DEF Pages
<1>7. CASE evicted = DOMAIN cache.entries
  <2>1. Cardinality(DOMAIN new.entries) = 0
    BY <1>3, <1>4, <1>7
  <2> QED
    BY <1>6, <2>1, ReadConstants
<1>8. CASE Fits(new, RenderedEntries, RenderedBytes)
  <2>1. Cardinality(DOMAIN new.entries) <= RenderedEntries /\ new.total <= RenderedBytes /\ new.total \in Int
    BY <1>3, <1>8 DEF Fits, IsCache
  <2> QED
    BY <1>4, <1>5, <1>6, <2>1, ReadConstants
<1> QED
  BY <1>1, <1>7, <1>8

-----------------------------------------------------------------------------
(* One request moves on.                                                   *)
LEMMA ReaderMoved ==
    ASSUME ReadersInv, NEW r \in Readers, NEW x, readers' = [readers EXCEPT ![r] = x], ReaderOk(x),
           published' = published, time' = time
    PROVE  /\ ReadersInv' /\ readers'[r] = x /\ \A y \in Readers \ {r} : readers'[y] = readers[y]
<1>1. /\ readers' = [y \in Readers |-> IF y = r THEN x ELSE readers[y]]
      /\ \A y \in Readers : ReaderOk(readers[y])
  BY DEF ReadersInv
<1>2. readers'[r] = x /\ \A y \in Readers \ {r} : readers'[y] = readers[y]
  BY <1>1
<1>3. ASSUME NEW y \in Readers
      PROVE  ReaderOk(readers[y])'
  <2>1. PICK z : z = readers'[y]
    OBVIOUS
  <2>2. ReaderOk(z)
    BY <1>1, <2>1
  <2>3. ReaderOk(z)'
    BY <2>2 DEF ReaderOk, ClientOk, FetcherOk, AnswerOk, RuleSetEntry
  <2> QED
    BY <2>1, <2>3
<1>4. readers' = [y \in Readers |-> readers'[y]]
  BY <1>1
<1> QED
  BY <1>2, <1>3, <1>4 DEF ReadersInv

(* Who neither fetches nor waits afterwards, and did not fetch before,     *)
(* leaves the book of the fetches as it is.                                *)
LEMMA JoinKept ==
    ASSUME JoinInv, leading' = leading,
           \A y \in Readers :
              \/ readers'[y] = readers[y]
              \/ readers[y].stage \notin AtWork /\ readers'[y].stage \notin AtWork \cup {"waiting"}
              \/ readers[y].stage \in AtWork /\ readers'[y].stage \in AtWork /\ readers'[y].key = readers[y].key
    PROVE  JoinInv'
<1>1. ASSUME NEW k \in DOMAIN leading
      PROVE  leading[k] \in Readers /\ readers'[leading[k]].stage \in AtWork /\ readers'[leading[k]].key = k
  BY DEF JoinInv
<1>2. ASSUME NEW y \in Readers, readers'[y].stage \in AtWork \cup {"waiting"}
      PROVE  readers'[y].key \in DOMAIN leading
  BY <1>2 DEF JoinInv, AtWork
<1>3. ASSUME NEW y \in Readers, readers'[y].stage \in AtWork
      PROVE  leading[readers'[y].key] = y
  BY <1>3 DEF JoinInv, AtWork
<1> QED
  BY <1>1, <1>2, <1>3 DEF JoinInv, AtWork

LEMMA CatalogKept ==
    ASSUME CatalogInv, UNCHANGED <<catalogSide, time>>
    PROVE  CatalogInv'
  BY DEF CatalogInv, catalogSide

LEMMA RequestMoved ==
    ASSUME ReadInv, NEW r \in Readers, NEW x, readers' = [readers EXCEPT ![r] = x], ReaderOk(x),
           readers[r].stage \notin AtWork, x.stage \notin AtWork \cup {"waiting"},
           UNCHANGED <<subscribed, leading, catalogSide, time>>, RenderedInv', FetchedInv'
    PROVE  ReadInv'
<1>1. published' = published /\ UNCHANGED <<account, policy, leading, catalog, refreshers, time>>
  BY DEF subscribed, catalogSide
<1>2. /\ ReadersInv' /\ readers'[r] = x /\ \A y \in Readers \ {r} : readers'[y] = readers[y]
  BY <1>1, ReaderMoved DEF ReadInv
<1>3. JoinInv'
  BY <1>1, <1>2, JoinKept DEF ReadInv
<1>4. StoreInv' /\ CatalogInv' /\ time' \in Nat
  BY <1>1, CatalogKept DEF ReadInv, StoreInv
<1> QED
  BY <1>2, <1>3, <1>4 DEF ReadInv

LEMMA RenderedKept ==
    ASSUME RenderedInv, rendered' = rendered
    PROVE  RenderedInv'
  BY DEF RenderedInv, Pages, PageOf, IsCache

LEMMA FetchedKept ==
    ASSUME FetchedInv, fetched' = fetched
    PROVE  FetchedInv'
  BY DEF FetchedInv, Fetched, RuleSetEntry, IsCache

LEMMA StageOf ==
    ASSUME ReadersInv, NEW r \in Readers
    PROVE  /\ readers[r].stage = "none" <=> readers[r] = NoReader
           /\ readers[r].stage \in {"found", "profile", "rendered"} => ClientOk(readers[r])
           /\ readers[r].stage \in AtWork \cup {"waiting"} => FetcherOk(readers[r])
           /\ readers[r].stage = "answered" => AnswerOk(readers[r])
<1>1. ReaderOk(readers[r])
  BY DEF ReadersInv
<1> QED
  BY <1>1 DEF ReaderOk, ClientOk, FetcherOk, AnswerOk, Client, Fetcher, NoReader, AtWork

LEMMA ClientAnswered ==
    ASSUME NEW x, ClientOk(x), x.stage # "found", NEW a, a = Answered(x, Render(x.format, x.profile))
    PROVE  ReaderOk(a) /\ a.stage = "answered"
<1>1. /\ x.kind = "subscription" /\ x.since \in 1 .. Len(published)
      /\ \E i \in x.since .. Len(published) : x.profile = published[i]
  BY DEF ClientOk, Client
<1>2. a = [stage |-> "answered", content |-> Render(x.format, x.profile),
           ask |-> [kind |-> "subscription", format |-> x.format, link |-> x.link, secret |-> x.secret, since |-> x.since]]
  BY <1>1 DEF Answered
<1>3. /\ a.stage = "answered" /\ a.content = Render(x.format, x.profile)
      /\ a.ask.kind = "subscription" /\ a.ask.format = x.format /\ a.ask.since = x.since
  BY <1>2
<1> QED
  BY <1>1, <1>3 DEF AnswerOk, ReaderOk

LEMMA LinkFound ==
    ASSUME ReadInv, NEW r \in Readers, NEW format \in Formats, UserBySubscriptionToken(r, format)
    PROVE  ReadInv'
<1>1. PICK x : x = [stage |-> "found", kind |-> "subscription", format |-> format, link |-> account.link,
                    secret |-> account.secret, since |-> Len(published), profile |-> NoProfile]
  OBVIOUS
<1>2. /\ account.link \in Nat /\ account.secret \in Nat /\ Len(published) \in 1 .. Len(published)
      /\ NoProfile \in Profile
  BY DEF ReadInv, StoreInv, AccountRecord, NoProfile, Profile
<1>3. ClientOk(x) /\ x.stage = "found"
  <2>1. x \in Client
    BY <1>1, <1>2 DEF Client
  <2> QED
    BY <1>1, <1>2, <2>1 DEF ClientOk
<1>4. /\ readers[r].stage = "none" /\ readers' = [readers EXCEPT ![r] = x]
      /\ UNCHANGED <<subscribed, rendered, fetched, leading, catalogSide, time>>
  BY <1>1 DEF UserBySubscriptionToken, ruleSide
<1>5. RenderedInv' /\ FetchedInv'
  BY <1>4, RenderedKept, FetchedKept DEF ReadInv
<1> QED
  BY <1>3, <1>4, <1>5, RequestMoved DEF ReaderOk, AtWork

LEMMA ProfileRead ==
    ASSUME ReadInv, NEW r \in Readers, subscriptionViewAndProfile(r)
    PROVE  ReadInv'
<1>1. /\ readers[r].stage = "found"
      /\ UNCHANGED <<subscribed, rendered, fetched, leading, catalogSide, time>>
  BY DEF subscriptionViewAndProfile, ruleSide
<1>2. RenderedInv' /\ FetchedInv'
  BY <1>1, RenderedKept, FetchedKept DEF ReadInv
<1>3. CASE account.present
  <2>1. PICK old : old = readers[r]
    OBVIOUS
  <2>2. ClientOk(old)
    BY <1>1, <2>1, StageOf DEF ReadInv
  <2>3. PICK p : p = SubscriptionProjection(account, policy)
    OBVIOUS
  <2>4. /\ Len(published) \in Nat /\ p = published[Len(published)] /\ published \in Seq(Profile) /\ Len(published) >= 1
    BY <2>3 DEF ReadInv, StoreInv
  <2>5. p \in Profile
    BY <2>4
  <2>6. PICK x : x = [old EXCEPT !.stage = "profile", !.profile = p]
    OBVIOUS
  <2>7. x \in Client /\ x.stage = "profile" /\ x.profile = p /\ x.since = old.since
    BY <2>2, <2>5, <2>6 DEF ClientOk, Client
  <2>8. ClientOk(x)
    BY <2>2, <2>4, <2>7 DEF ClientOk
  <2>9. readers' = [readers EXCEPT ![r] = x]
    BY <1>3, <2>1, <2>3, <2>6 DEF subscriptionViewAndProfile
  <2> QED
    BY <1>1, <1>2, <2>7, <2>8, <2>9, RequestMoved DEF ReaderOk, AtWork
<1>4. CASE ~account.present
  <2>1. readers' = [readers EXCEPT ![r] = NoReader]
    BY <1>4 DEF subscriptionViewAndProfile
  <2>2. NoReader.stage = "none"
    BY DEF NoReader
  <2> QED
    BY <1>1, <1>2, <2>1, <2>2, RequestMoved DEF ReaderOk, AtWork
<1> QED
  BY <1>3, <1>4

LEMMA PageRendered ==
    ASSUME ReadInv, NEW r \in Readers, render(r)
    PROVE  ReadInv'
<1>1. PICK old : old = readers[r]
  OBVIOUS
<1>2. PICK key : key = KeyOf(old)
  OBVIOUS
<1>3. /\ old.stage = "profile" /\ readers[r].stage = "profile"
      /\ UNCHANGED <<subscribed, fetched, leading, catalogSide, time>>
      /\ \/ /\ key \in DOMAIN rendered.entries /\ rendered' = Touched(rendered, key)
            /\ readers' = [readers EXCEPT ![r] = Answered(old, rendered.entries[key].content)]
         \/ readers' = [readers EXCEPT ![r] = [old EXCEPT !.stage = "rendered"]] /\ rendered' = rendered
  BY <1>1, <1>2 DEF render, Answer, ruleSide
<1>4. ClientOk(old) /\ FetchedInv'
  BY <1>1, <1>3, StageOf, FetchedKept DEF ReadInv
<1>5. CASE key \in DOMAIN rendered.entries /\ rendered' = Touched(rendered, key)
            /\ readers' = [readers EXCEPT ![r] = Answered(old, rendered.entries[key].content)]
  <2>1. rendered.entries[key] = [content |-> Render(old.format, old.profile), bytes |-> 1, usedAt |-> rendered.entries[key].usedAt]
    <3>1. key[1] = old.format /\ key[2] = old.profile
      BY <1>2 DEF KeyOf
    <3> QED
      BY <1>5, <3>1 DEF ReadInv, RenderedInv, Pages, PageOf
  <2>2. rendered.entries[key].content = Render(old.format, old.profile)
    BY <2>1
  <2>3. PICK new : new = rendered'
    OBVIOUS
  <2>4. /\ IsCache(new) /\ DOMAIN new.entries = DOMAIN rendered.entries /\ new.total = rendered.total
        /\ new.entries[key] = [rendered.entries[key] EXCEPT !.usedAt = time]
        /\ \A k \in DOMAIN rendered.entries \ {key} : new.entries[k] = rendered.entries[k]
    BY <1>5, <2>3, TouchedCache DEF ReadInv, RenderedInv, Pages
  <2>5. PageOf(key, new.entries[key])
    BY <2>1, <2>4, <1>2 DEF PageOf, KeyOf
  <2>6. Pages(new)
    BY <2>4, <2>5 DEF ReadInv, RenderedInv, Pages
  <2>7. RenderedInv'
    BY <2>3, <2>4, <2>6 DEF ReadInv, RenderedInv, Pages, PageOf, IsCache
  <2>8. PICK a : a = Answered(old, Render(old.format, old.profile))
    OBVIOUS
  <2>9. ReaderOk(a) /\ a.stage = "answered"
    BY <1>3, <1>4, <2>8, ClientAnswered
  <2> QED
    BY <1>3, <1>4, <1>5, <2>2, <2>7, <2>8, <2>9, RequestMoved DEF AtWork
<1>6. CASE readers' = [readers EXCEPT ![r] = [old EXCEPT !.stage = "rendered"]] /\ rendered' = rendered
  <2>1. PICK x : x = [old EXCEPT !.stage = "rendered"]
    OBVIOUS
  <2>2. x \in Client /\ x.stage = "rendered" /\ x.profile = old.profile /\ x.since = old.since
    BY <1>4, <2>1 DEF ClientOk, Client
  <2>3. ClientOk(x)
    BY <1>3, <1>4, <2>2 DEF ClientOk
  <2>4. RenderedInv'
    BY <1>6, RenderedKept DEF ReadInv
  <2> QED
    BY <1>3, <1>4, <1>6, <2>1, <2>2, <2>3, <2>4, RequestMoved DEF ReaderOk, AtWork
<1> QED
  BY <1>3, <1>5, <1>6

LEMMA PageStored ==
    ASSUME ReadInv, NEW r \in Readers, storeRendered(r)
    PROVE  ReadInv'
<1>1. PICK old : old = readers[r]
  OBVIOUS
<1>2. PICK entry : entry = [content |-> Render(old.format, old.profile), bytes |-> 1, usedAt |-> time]
  OBVIOUS
<1>3. PICK key : key = KeyOf(old)
  OBVIOUS
<1>4. PICK a : a = Answered(old, Render(old.format, old.profile))
  OBVIOUS
<1>5. PICK full : full = With(rendered, key, entry)
  OBVIOUS
<1>6. /\ old.stage = "rendered" /\ readers[r].stage = "rendered" /\ readers' = [readers EXCEPT ![r] = a]
      /\ rendered' \in Evictions(full, key, RenderedEntries, RenderedBytes)
      /\ UNCHANGED <<subscribed, fetched, leading, catalogSide, time>>
  BY <1>1, <1>2, <1>3, <1>4, <1>5 DEF storeRendered, Answer, ruleSide
<1>7. ClientOk(old) /\ FetchedInv'
  BY <1>1, <1>6, StageOf, FetchedKept DEF ReadInv
<1>8. PageOf(key, entry)
  BY <1>2, <1>3 DEF PageOf, KeyOf
<1>9. Pages(full)
  BY <1>5, <1>8, PageAdded DEF ReadInv, RenderedInv
<1>10. PICK new : new = rendered'
  OBVIOUS
<1>11. Pages(new) /\ Cardinality(DOMAIN new.entries) <= RenderedBytes /\ Cardinality(DOMAIN new.entries) <= RenderedEntries
  BY <1>6, <1>9, <1>10, PagesEvicted
<1>12. RenderedInv'
  BY <1>10, <1>11 DEF RenderedInv, Pages, PageOf, IsCache
<1>13. ReaderOk(a) /\ a.stage = "answered"
  BY <1>4, <1>6, <1>7, ClientAnswered
<1> QED
  BY <1>6, <1>7, <1>12, <1>13, RequestMoved DEF AtWork

-----------------------------------------------------------------------------
(* Rule sets.                                                              *)
LEMMA FetchedAfter ==
    ASSUME NEW new, new = fetched', Fetched(new)
    PROVE  FetchedInv'
  BY DEF FetchedInv, Fetched, IsCache, RuleSetEntry

LEMMA EntryAdded ==
    ASSUME NEW cache, Fetched(cache), NEW key, NEW e, RuleSetEntry(e), NEW new,
           new = [cache EXCEPT !.entries = Put(@, key, e)]
    PROVE  Fetched(new)
<1>1. /\ cache = [entries |-> cache.entries, total |-> cache.total] /\ cache.total \in Int
      /\ IsFiniteSet(DOMAIN cache.entries) /\ \A k \in DOMAIN cache.entries : RuleSetEntry(cache.entries[k])
  BY DEF Fetched, IsCache
<1>2. new = [entries |-> Put(cache.entries, key, e), total |-> cache.total]
  BY <1>1
<1>3. new = [entries |-> [k \in DOMAIN cache.entries \cup {key} |-> IF k = key THEN e ELSE cache.entries[k]],
             total |-> cache.total]
  BY <1>2 DEF Put
<1>4. IsFiniteSet(DOMAIN cache.entries \cup {key})
  BY <1>1, FS_AddElement
<1>5. IsCache(new)
  BY <1>1, <1>3, <1>4 DEF IsCache
<1>6. \A k \in DOMAIN new.entries : RuleSetEntry(new.entries[k])
  BY <1>1, <1>3
<1> QED
  BY <1>5, <1>6 DEF Fetched

LEMMA EntryEvicts ==
    ASSUME NEW before, Fetched(before), NEW k, NEW e, RuleSetEntry(e),
           NEW new \in Evictions(With(before, k, e), k, RuleSetEntries, RuleSetBytes)
    PROVE  Fetched(new)
<1>1. IsCache(before) /\ e.bytes \in Nat
  BY DEF Fetched, RuleSetEntry
<1>2. PICK full : full = With(before, k, e)
  OBVIOUS
<1>3. /\ IsCache(full) /\ DOMAIN full.entries = DOMAIN before.entries \cup {k}
      /\ full.entries[k] = e /\ \A x \in DOMAIN before.entries \ {k} : full.entries[x] = before.entries[x]
  BY <1>1, <1>2, WithCache
<1>4. \A x \in DOMAIN full.entries : RuleSetEntry(full.entries[x])
  BY <1>3 DEF Fetched
<1>5. new \in Evictions(full, k, RuleSetEntries, RuleSetBytes)
  BY <1>2
<1>6. PICK evicted \in SUBSET DOMAIN full.entries : new = Without(full, evicted)
  BY <1>5, EvictedCache
<1>7. /\ IsCache(new) /\ DOMAIN new.entries = DOMAIN full.entries \ evicted
      /\ \A x \in DOMAIN new.entries : new.entries[x] = full.entries[x]
  BY <1>3, <1>6, WithoutCache
<1> QED
  BY <1>4, <1>7 DEF Fetched

LEMMA EntryKept ==
    ASSUME FetchedInv, NEW k, NEW e, RuleSetEntry(e), NEW before,
           before = IF k \in DOMAIN fetched.entries THEN Without(fetched, {k}) ELSE fetched,
           NEW new \in Evictions(With(before, k, e), k, RuleSetEntries, RuleSetBytes)
    PROVE  Fetched(new)
<1>1. IsCache(fetched) /\ \A x \in DOMAIN fetched.entries : RuleSetEntry(fetched.entries[x])
  BY DEF FetchedInv, Fetched
<1>2. Fetched(before)
  <2>1. CASE k \in DOMAIN fetched.entries
    <3>1. {k} \in SUBSET DOMAIN fetched.entries /\ before = Without(fetched, {k})
      BY <2>1
    <3>2. /\ IsCache(before) /\ DOMAIN before.entries = DOMAIN fetched.entries \ {k}
          /\ \A x \in DOMAIN before.entries : before.entries[x] = fetched.entries[x]
      BY <1>1, <3>1, WithoutCache
    <3> QED
      BY <1>1, <3>2 DEF Fetched
  <2>2. CASE k \notin DOMAIN fetched.entries
    BY <2>2 DEF FetchedInv
  <2> QED
    BY <2>1, <2>2
<1> QED
  BY <1>2, EntryEvicts

LEMMA RuleSetAsked ==
    ASSUME ReadInv, NEW r \in Readers, NEW k \in RuleSets, publicSurgeRuleSet(r, k)
    PROVE  ReadInv'
<1>1. PICK entry : entry = IF k \in DOMAIN fetched.entries THEN fetched.entries[k] ELSE NoEntry
  OBVIOUS
<1>2. /\ time \in Nat /\ IsCache(fetched) /\ \A x \in DOMAIN fetched.entries : RuleSetEntry(fetched.entries[x])
      /\ FreshFound \in Nat /\ FreshMissing \in Nat /\ StaleFor \in Nat
      /\ FreshMissing < FreshFound /\ FreshFound < StaleFor
  BY ReadConstants DEF ReadInv, FetchedInv, Fetched
<1>3. entry = NoEntry \/ (k \in DOMAIN fetched.entries /\ entry = fetched.entries[k] /\ RuleSetEntry(entry))
  BY <1>1, <1>2
<1>4. NoEntry \in SeenEntry /\ entry \in SeenEntry /\ Failure \in FetchResult
  BY <1>3 DEF NoEntry, SeenEntry, RuleSetEntry, Failure, FetchResult
<1>5. /\ readers[r].stage = "none" /\ UNCHANGED <<subscribed, rendered, catalogSide, time>>
      /\ RenderedInv'
  BY RenderedKept DEF publicSurgeRuleSet, ReadInv
<1>6. CASE /\ ~Stale(entry) /\ fetched' = Touched(fetched, k) /\ leading' = leading
           /\ readers' = [readers EXCEPT ![r] = Answered(Request(k, "asked", entry), Contents(entry))]
  <2>1. k \in DOMAIN fetched.entries /\ entry = fetched.entries[k] /\ RuleSetEntry(entry)
    BY <1>3, <1>6 DEF Stale
  <2>2. entry.at \in Nat /\ entry.from \in Nat /\ entry.at <= entry.from
    BY <2>1 DEF RuleSetEntry
  <2>3. entry.from + StaleFor >= time
    BY <1>2, <1>6, <2>2 DEF Stale, FreshFor
  <2>4. PICK a : a = Answered(Request(k, "asked", entry), Contents(entry))
    OBVIOUS
  <2>5. a = [stage |-> "answered", content |-> [status |-> entry.status, from |-> entry.from], ask |-> [kind |-> "rules", at |-> time]]
    BY <2>4 DEF Answered, Request, Contents
  <2>6. ReaderOk(a) /\ a.stage = "answered"
    BY <2>3, <2>5 DEF ReaderOk, AnswerOk
  <2>7. PICK new : new = fetched'
    OBVIOUS
  <2>8. /\ IsCache(new) /\ DOMAIN new.entries = DOMAIN fetched.entries
        /\ new.entries[k] = [fetched.entries[k] EXCEPT !.usedAt = time]
        /\ \A x \in DOMAIN fetched.entries \ {k} : new.entries[x] = fetched.entries[x]
    BY <1>2, <1>6, <2>1, <2>7, TouchedCache
  <2>9. RuleSetEntry([fetched.entries[k] EXCEPT !.usedAt = time])
    BY <1>2, <2>1 DEF RuleSetEntry
  <2>10. Fetched(new)
    BY <1>2, <2>8, <2>9 DEF Fetched
  <2>11. FetchedInv'
    BY <2>7, <2>10, FetchedAfter
  <2> QED
    BY <1>5, <1>6, <2>4, <2>6, <2>11, RequestMoved DEF AtWork
<1>7. ASSUME NEW stage \in {"waiting", "queued"}, NEW seen \in {NoEntry, entry}, fetched' = fetched,
             readers' = [readers EXCEPT ![r] = Request(k, stage, seen)]
      PROVE  /\ StoreInv' /\ FetchedInv' /\ ReadersInv' /\ CatalogInv' /\ time' \in Nat
             /\ readers'[r].stage = stage /\ readers'[r].key = k
             /\ \A y \in Readers \ {r} : readers'[y] = readers[y]
  <2>1. PICK x : x = Request(k, stage, seen)
    OBVIOUS
  <2>2. x = [stage |-> stage, kind |-> "rules", key |-> k, at |-> time, seen |-> seen, result |-> Failure]
    BY <2>1 DEF Request
  <2>3. x \in Fetcher
    BY <1>2, <1>4, <1>7, <2>2 DEF Fetcher
  <2>4. FetcherOk(x)
    BY <1>2, <1>3, <1>7, <2>2, <2>3 DEF FetcherOk
  <2>5. ReadersInv' /\ readers'[r] = x /\ \A y \in Readers \ {r} : readers'[y] = readers[y]
    BY <1>5, <1>7, <2>1, <2>4, ReaderMoved DEF ReadInv, ReaderOk, subscribed
  <2>6. StoreInv' /\ FetchedInv' /\ CatalogInv' /\ time' \in Nat
    BY <1>5, <1>7, FetchedKept, CatalogKept DEF ReadInv, StoreInv, subscribed
  <2> QED
    BY <2>2, <2>5, <2>6
<1>8. CASE /\ k \in DOMAIN leading /\ fetched' = fetched /\ leading' = leading
           /\ readers' = [readers EXCEPT ![r] = Request(k, "waiting", NoEntry)]
  <2>1. /\ StoreInv' /\ FetchedInv' /\ ReadersInv' /\ CatalogInv' /\ time' \in Nat
        /\ readers'[r].stage = "waiting" /\ readers'[r].key = k
        /\ \A y \in Readers \ {r} : readers'[y] = readers[y]
    BY <1>7, <1>8
  <2>2. JoinInv
    BY DEF ReadInv
  <2>3. \A x \in DOMAIN leading : leading[x] # r
    BY <1>5, <2>2 DEF JoinInv, AtWork
  <2>4. JoinInv'
    BY <1>8, <2>1, <2>2, <2>3 DEF JoinInv, AtWork
  <2> QED
    BY <1>5, <2>1, <2>4 DEF ReadInv
<1>9. CASE /\ k \notin DOMAIN leading /\ fetched' = fetched /\ leading' = Put(leading, k, r)
           /\ readers' = [readers EXCEPT ![r] = Request(k, "queued", entry)]
  <2>1. /\ StoreInv' /\ FetchedInv' /\ ReadersInv' /\ CatalogInv' /\ time' \in Nat
        /\ readers'[r].stage = "queued" /\ readers'[r].key = k
        /\ \A y \in Readers \ {r} : readers'[y] = readers[y]
    BY <1>7, <1>9
  <2>2. JoinInv
    BY DEF ReadInv
  <2>3. \A x \in DOMAIN leading : leading[x] # r
    BY <1>5, <2>2 DEF JoinInv, AtWork
  <2>4. /\ leading' = [x \in DOMAIN leading \cup {k} |-> IF x = k THEN r ELSE leading[x]]
        /\ DOMAIN leading' = DOMAIN leading \cup {k} /\ leading'[k] = r
        /\ \A x \in DOMAIN leading : leading'[x] = leading[x]
    BY <1>9 DEF Put
  <2>5. leading' = [x \in DOMAIN leading' |-> leading'[x]]
    BY <2>4
  <2>6. \A x \in DOMAIN leading' :
           leading'[x] \in Readers /\ readers'[leading'[x]].stage \in AtWork /\ readers'[leading'[x]].key = x
    BY <2>1, <2>2, <2>3, <2>4 DEF JoinInv, AtWork
  <2>7. \A y \in Readers : readers'[y].stage \in AtWork \cup {"waiting"} => readers'[y].key \in DOMAIN leading'
    BY <2>1, <2>2, <2>4 DEF JoinInv
  <2>8. \A y \in Readers : readers'[y].stage \in AtWork => leading'[readers'[y].key] = y
    BY <2>1, <2>2, <2>4 DEF JoinInv
  <2>9. JoinInv'
    BY <2>5, <2>6, <2>7, <2>8 DEF JoinInv, AtWork
  <2> QED
    BY <1>5, <2>1, <2>9 DEF ReadInv
<1> QED
  BY <1>1, <1>6, <1>8, <1>9 DEF publicSurgeRuleSet, ruleSide

(* A request that leads a fetch takes its next step.                       *)
LEMMA FetchStep ==
    ASSUME ReadInv, NEW r \in Readers, readers[r].stage \in {"queued", "fetching"}, NEW stage \in {"fetching", "fetched"},
           NEW result, result = Failure \/ (result \in FetchResult /\ result.status # "error" /\ result.from = time),
           Fetch(r, stage, result)
    PROVE  ReadInv'
<1>1. PICK old : old = readers[r]
  OBVIOUS
<1>2. old.stage \in AtWork /\ FetcherOk(old) /\ time \in Nat
  BY <1>1, StageOf DEF ReadInv, AtWork
<1>3. PICK x : x = [old EXCEPT !.stage = stage, !.result = result]
  OBVIOUS
<1>4. result \in FetchResult
  BY DEF Failure, FetchResult
<1>5. old \in Fetcher /\ old.at <= time /\ time <= old.at + 1 /\ (old.seen = NoEntry \/ RuleSetEntry(old.seen))
  BY <1>2 DEF FetcherOk
<1>6. /\ x \in Fetcher /\ x.stage = stage /\ x.key = old.key /\ x.at = old.at /\ x.seen = old.seen /\ x.result = result
  BY <1>3, <1>4, <1>5 DEF Fetcher
<1>7. FetcherOk(x)
  BY <1>5, <1>6 DEF FetcherOk
<1>8. /\ readers' = [readers EXCEPT ![r] = x]
      /\ UNCHANGED <<account, policy, published, rendered, fetched, leading, catalogSide, time>>
  BY <1>1, <1>3 DEF Fetch, subscribed, ruleSide
<1>9. ReadersInv' /\ readers'[r] = x /\ \A y \in Readers \ {r} : readers'[y] = readers[y]
  BY <1>7, <1>8, ReaderMoved DEF ReadInv, ReaderOk
<1>10. JoinInv'
  BY <1>1, <1>2, <1>6, <1>8, <1>9, JoinKept DEF ReadInv, AtWork
<1>11. StoreInv' /\ CatalogInv' /\ RenderedInv' /\ FetchedInv' /\ time' \in Nat
  BY <1>8, CatalogKept, RenderedKept, FetchedKept DEF ReadInv, StoreInv
<1> QED
  BY <1>9, <1>10, <1>11 DEF ReadInv

LEMMA RuleSetFetched ==
    ASSUME ReadInv, NEW r \in Readers,
           \/ acquireSlot(r) \/ slotTimesOut(r)
           \/ \E status \in {"found", "missing", "error"} : fetchSurgeRuleSet(r, status)
    PROVE  ReadInv'
<1>1. CASE acquireSlot(r)
  BY <1>1, FetchStep DEF acquireSlot
<1>2. CASE slotTimesOut(r)
  BY <1>2, FetchStep DEF slotTimesOut
<1>3. ASSUME NEW status \in {"found", "missing", "error"}, fetchSurgeRuleSet(r, status)
      PROVE  ReadInv'
  <2>1. PICK result : result = [status |-> status, from |-> IF status = "error" THEN 0 ELSE time]
    OBVIOUS
  <2>2. result = Failure \/ (result \in FetchResult /\ result.status # "error" /\ result.from = time)
    BY <2>1 DEF Failure, FetchResult, ReadInv
  <2> QED
    BY <1>3, <2>1, <2>2, FetchStep DEF fetchSurgeRuleSet
<1> QED
  BY <1>1, <1>2, <1>3

(* What a fetch gives is recent for everyone who asked before it ended.    *)
LEMMA OutcomeIsRecent ==
    ASSUME ReadInv, NEW r \in Readers, readers[r].stage = "fetched"
    PROVE  Outcome(r) = Failure \/ (Outcome(r).from + StaleFor >= time /\ Outcome(r).from \in Nat)
<1>1. PICK old : old = readers[r]
  OBVIOUS
<1>2. FetcherOk(old) /\ time \in Nat
  BY <1>1, StageOf DEF ReadInv, AtWork
<1>3. /\ old.at \in Nat /\ time <= old.at + 1 /\ old.result \in FetchResult
      /\ old.seen = NoEntry \/ RuleSetEntry(old.seen)
      /\ old.result = Failure \/ old.result.from >= old.at
  BY <1>2 DEF FetcherOk, Fetcher
<1>4. StaleFor \in Nat /\ StaleFor >= 1
  BY ReadConstants
<1>5. CASE old.result = Failure /\ Usable(r)
  <2>1. RuleSetEntry(old.seen) /\ old.at < old.seen.at + StaleFor
    BY <1>1, <1>3, <1>5 DEF Usable
  <2>2. old.seen.at \in Nat /\ old.seen.from \in Nat /\ old.seen.at <= old.seen.from
    BY <2>1 DEF RuleSetEntry
  <2>3. Outcome(r) = [status |-> old.seen.status, from |-> old.seen.from]
    BY <1>1, <1>5 DEF Outcome, Contents
  <2>4. old.seen.from + StaleFor >= time
    BY <1>2, <1>3, <1>4, <2>1, <2>2
  <2> QED
    BY <2>2, <2>3, <2>4
<1>6. CASE ~(old.result = Failure /\ Usable(r))
  <2>1. Outcome(r) = old.result
    BY <1>1, <1>6 DEF Outcome
  <2>2. old.result.from \in Nat
    BY <1>3 DEF FetchResult
  <2> QED
    BY <1>2, <1>3, <1>4, <2>1, <2>2
<1> QED
  BY <1>5, <1>6

LEMMA FetchConcluded ==
    ASSUME ReadInv, NEW r \in Readers, concludeRuleSet(r)
    PROVE  ReadInv'
<1>1. PICK old : old = readers[r]
  OBVIOUS
<1>2. PICK key : key = old.key
  OBVIOUS
<1>3. PICK out : out = Outcome(r)
  OBVIOUS
<1>4. /\ old.stage = "fetched" /\ readers[r].stage = "fetched"
      /\ leading' = Restrict(leading, DOMAIN leading \ {key})
      /\ readers' = [x \in Readers |-> IF x = r \/ x \in Waiting(key) THEN Answered(readers[x], out) ELSE readers[x]]
      /\ UNCHANGED <<account, policy, published, rendered, catalogSide, time>>
  BY <1>1, <1>2, <1>3 DEF concludeRuleSet, subscribed
<1>5. FetcherOk(old) /\ time \in Nat /\ ReadersInv /\ JoinInv /\ FetchedInv
  BY <1>1, <1>4, StageOf DEF ReadInv, AtWork
<1>6. out = Failure \/ (out.from + StaleFor >= time /\ out.from \in Nat)
  BY <1>3, <1>4, OutcomeIsRecent
<1>7. FetchedInv'
  <2>1. PICK new : new = fetched'
    OBVIOUS
  <2>2. /\ old \in Fetcher /\ old.at \in Nat /\ old.result \in FetchResult
        /\ old.seen = NoEntry \/ RuleSetEntry(old.seen)
        /\ old.result = Failure \/ (old.result.status # "error" /\ old.result.from >= old.at)
    BY <1>5 DEF FetcherOk, Fetcher
  <2>3. CASE old.result # Failure
    <3>1. new \in Kept(r)
      BY <1>1, <2>1, <2>3 DEF concludeRuleSet
    <3>2. PICK e : e = [status |-> old.result.status, bytes |-> IF old.result.status = "found" THEN 1 ELSE 0,
                        from |-> old.result.from, at |-> old.at, usedAt |-> old.at]
      OBVIOUS
    <3>3. RuleSetEntry(e)
      BY <2>2, <2>3, <3>2 DEF RuleSetEntry, FetchResult
    <3>4. PICK before : before = IF key \in DOMAIN fetched.entries THEN Without(fetched, {key}) ELSE fetched
      OBVIOUS
    <3>5. new \in Evictions(With(before, key, e), key, RuleSetEntries, RuleSetBytes)
      BY <1>1, <1>2, <3>1, <3>2, <3>4 DEF Kept
    <3>6. Fetched(new)
      BY <1>5, <3>3, <3>4, <3>5, EntryKept
    <3> QED
      BY <2>1, <3>6, FetchedAfter
  <2>4. CASE old.result = Failure /\ Usable(r)
    <3>1. new = Fallen(r)
      BY <1>1, <2>1, <2>4 DEF concludeRuleSet
    <3>2. PICK e : e = [old.seen EXCEPT !.usedAt = old.at]
      OBVIOUS
    <3>3. RuleSetEntry(e)
      BY <1>1, <2>2, <2>4, <3>2 DEF Usable, RuleSetEntry
    <3>4. new = [fetched EXCEPT !.entries = Put(@, key, e)]
      BY <1>1, <1>2, <3>1, <3>2 DEF Fallen
    <3>5. Fetched(new)
      BY <1>5, <3>3, <3>4, EntryAdded DEF FetchedInv
    <3> QED
      BY <2>1, <3>5, FetchedAfter
  <2>5. CASE old.result = Failure /\ ~Usable(r)
    <3>1. fetched' = fetched
      BY <1>1, <2>5 DEF concludeRuleSet
    <3> QED
      BY <1>5, <3>1, FetchedKept
  <2> QED
    BY <2>3, <2>4, <2>5
<1>8. ASSUME NEW x \in Readers, x = r \/ x \in Waiting(key)
      PROVE  readers'[x].stage = "answered" /\ ReaderOk(readers[x])'
  <2>1. PICK y : y = readers[x]
    OBVIOUS
  <2>2. FetcherOk(y)
    BY <1>4, <1>5, <1>8, <2>1, StageOf DEF Waiting, AtWork
  <2>3. PICK a : a = Answered(y, out)
    OBVIOUS
  <2>4. y.kind = "rules" /\ y.at \in Nat /\ y.at <= time
    BY <2>2 DEF FetcherOk, Fetcher
  <2>5. a = [stage |-> "answered", content |-> out, ask |-> [kind |-> "rules", at |-> y.at]]
    BY <2>3, <2>4 DEF Answered
  <2>6. out = Failure \/ out.from + StaleFor >= y.at
    BY <1>5, <1>6, <2>4, ReadConstants
  <2>7. a.stage = "answered" /\ ReaderOk(a)'
    BY <2>5, <2>6 DEF ReaderOk, AnswerOk
  <2>8. readers'[x] = a
    BY <1>4, <1>8, <2>1, <2>3
  <2> QED
    BY <2>7, <2>8
<1>9. ASSUME NEW x \in Readers, x # r, x \notin Waiting(key)
      PROVE  readers'[x] = readers[x] /\ ReaderOk(readers[x])'
  <2>1. PICK y : y = readers[x]
    OBVIOUS
  <2>2. ReaderOk(y)
    BY <1>5, <2>1 DEF ReadersInv
  <2>3. ReaderOk(y)'
    BY <1>4, <2>2 DEF ReaderOk, ClientOk, FetcherOk, AnswerOk, RuleSetEntry
  <2>4. readers'[x] = y
    BY <1>4, <1>9, <2>1
  <2> QED
    BY <2>1, <2>3, <2>4
<1>10. ReadersInv'
  <2>1. readers' = [x \in Readers |-> readers'[x]]
    BY <1>4
  <2> QED
    BY <1>8, <1>9, <2>1 DEF ReadersInv
<1>11. JoinInv'
  <2>1. /\ DOMAIN leading' = DOMAIN leading \ {key} /\ \A k \in DOMAIN leading' : leading'[k] = leading[k]
        /\ leading' = [k \in DOMAIN leading' |-> leading'[k]]
    BY <1>4 DEF Restrict
  <2>2. leading[key] = r /\ key \in DOMAIN leading
    BY <1>1, <1>2, <1>4, <1>5 DEF JoinInv, AtWork
  <2>3. ASSUME NEW k \in DOMAIN leading'
        PROVE  leading'[k] \in Readers /\ readers'[leading'[k]].stage \in AtWork /\ readers'[leading'[k]].key = k
    <3>1. PICK l : l = leading[k]
      OBVIOUS
    <3>2. l \in Readers /\ readers[l].stage \in AtWork /\ readers[l].key = k /\ k # key
      BY <1>5, <2>1, <2>3, <3>1 DEF JoinInv
    <3>3. l # r /\ l \notin Waiting(key)
      BY <1>1, <1>2, <3>2 DEF Waiting, AtWork
    <3> QED
      BY <1>9, <2>1, <3>1, <3>2, <3>3
  <2>4. ASSUME NEW x \in Readers, readers'[x].stage \in AtWork \cup {"waiting"}
        PROVE  /\ readers'[x].key \in DOMAIN leading'
               /\ readers'[x].stage \in AtWork => leading'[readers'[x].key] = x
    <3>1. x # r /\ x \notin Waiting(key)
      BY <1>8, <2>4 DEF AtWork
    <3>2. readers'[x] = readers[x]
      BY <1>9, <3>1
    <3>3. readers[x].key \in DOMAIN leading /\ (readers[x].stage \in AtWork => leading[readers[x].key] = x)
      BY <1>5, <2>4, <3>2 DEF JoinInv
    <3>4. readers[x].key # key
      BY <2>2, <2>4, <3>1, <3>2, <3>3 DEF Waiting
    <3> QED
      BY <2>1, <3>2, <3>3, <3>4
  <2> QED
    BY <2>1, <2>3, <2>4 DEF JoinInv, AtWork
<1>12. StoreInv' /\ RenderedInv' /\ CatalogInv' /\ time' \in Nat
  BY <1>4, RenderedKept, CatalogKept DEF ReadInv, StoreInv
<1> QED
  BY <1>7, <1>10, <1>11, <1>12 DEF ReadInv

LEMMA RequestEnds ==
    ASSUME ReadInv, NEW r \in Readers, clientLeaves(r) \/ respond(r)
    PROVE  ReadInv'
<1>1. /\ readers[r].stage \in {"waiting", "answered"} /\ readers' = [readers EXCEPT ![r] = NoReader]
      /\ UNCHANGED <<subscribed, rendered, fetched, leading, catalogSide, time>>
  BY DEF clientLeaves, respond, ruleSide
<1>2. RenderedInv' /\ FetchedInv'
  BY <1>1, RenderedKept, FetchedKept DEF ReadInv
<1>3. NoReader.stage = "none" /\ ReaderOk(NoReader)
  BY DEF NoReader, ReaderOk
<1> QED
  BY <1>1, <1>2, <1>3, RequestMoved DEF AtWork

-----------------------------------------------------------------------------
(* The catalog.                                                            *)
LEMMA NamesMoved ==
    ASSUME ReadInv, UNCHANGED readSide, CatalogInv'
    PROVE  ReadInv'
<1>1. UNCHANGED <<account, policy, published, rendered, fetched, leading, readers, time>>
  BY DEF readSide, subscribed, ruleSide
<1>2. StoreInv' /\ RenderedInv' /\ FetchedInv' /\ time' \in Nat
  BY <1>1, RenderedKept, FetchedKept DEF ReadInv, StoreInv
<1>3. ReadersInv'
  BY <1>1 DEF ReadInv, ReadersInv, ReaderOk, ClientOk, FetcherOk, AnswerOk, RuleSetEntry
<1>4. JoinInv'
  BY <1>1 DEF ReadInv, JoinInv
<1> QED
  BY <1>2, <1>3, <1>4 DEF ReadInv

(* A refresh that does not touch the names: it may take the lock when they *)
(* are not fresh and nobody has it.                                        *)
LEMMA RefreshMoved ==
    ASSUME ReadInv, NEW p \in Refreshers, NEW stage \in {"none", "waiting", "fetching", "clearing"}, NEW at \in Nat,
           Refresh(p, stage, at), UNCHANGED readSide,
           catalog' \in [cached : {catalog.cached}, file : {catalog.file, catalog.cached}, refreshing : BOOLEAN],
           stage = "fetching" => /\ fetchMuFree(p) /\ at <= time
                                 /\ at >= catalog.cached + CatalogTTL \/ catalog.cached = 0
    PROVE  ReadInv'
<1>1. PICK new : new = [stage |-> stage, at |-> at]
  OBVIOUS
<1>2. CatalogInv /\ time' = time
  BY DEF ReadInv, readSide
<1>3. /\ refreshers' = [refreshers EXCEPT ![p] = new] /\ new.stage = stage /\ new.at = at
      /\ new \in [stage : {"none", "waiting", "fetching", "saving", "clearing"}, at : Nat]
  BY <1>1 DEF Refresh
<1>4. /\ refreshers' \in [Refreshers -> [stage : {"none", "waiting", "fetching", "saving", "clearing"}, at : Nat]]
      /\ refreshers'[p] = new /\ \A q \in Refreshers \ {p} : refreshers'[q] = refreshers[q]
  BY <1>2, <1>3 DEF CatalogInv
<1>5. /\ catalog' \in [cached : Nat, file : Nat, refreshing : BOOLEAN] /\ catalog'.cached = catalog.cached
      /\ catalog'.file <= catalog'.cached /\ catalog'.cached <= time'
  BY <1>2 DEF CatalogInv
<1>6. CatalogInv'
  BY <1>2, <1>3, <1>4, <1>5 DEF CatalogInv, fetchMuFree
<1> QED
  BY <1>6, NamesMoved

LEMMA NamesKept ==
    ASSUME CatalogInv
    PROVE  /\ catalog \in [cached : {catalog.cached}, file : {catalog.file, catalog.cached}, refreshing : BOOLEAN]
           /\ \A b \in BOOLEAN : [catalog EXCEPT !.refreshing = b]
                                    \in [cached : {catalog.cached}, file : {catalog.file, catalog.cached}, refreshing : BOOLEAN]
           /\ [catalog EXCEPT !.file = catalog.cached]
                  \in [cached : {catalog.cached}, file : {catalog.file, catalog.cached}, refreshing : BOOLEAN]
  BY DEF CatalogInv

LEMMA NamesAsked ==
    ASSUME ReadInv, Options \/ pollCatalog \/ clearRefreshing
    PROVE  ReadInv'
<1>1. CatalogInv /\ 0 \in Nat
  BY DEF ReadInv
<1>2. ASSUME NEW p \in Refreshers, NEW stage \in {"none", "waiting"}, Refresh(p, stage, 0), UNCHANGED readSide,
             catalog' = catalog \/ \E b \in BOOLEAN : catalog' = [catalog EXCEPT !.refreshing = b]
      PROVE  ReadInv'
  BY <1>1, <1>2, NamesKept, RefreshMoved
<1>3. "editor" \in Refreshers /\ "background" \in Refreshers /\ "poll" \in Refreshers
  BY DEF Refreshers
<1>4. CASE Options
  BY <1>2, <1>3, <1>4 DEF Options
<1>5. CASE pollCatalog
  BY <1>2, <1>3, <1>5 DEF pollCatalog
<1>6. CASE clearRefreshing
  BY <1>2, <1>3, <1>6 DEF clearRefreshing
<1> QED
  BY <1>4, <1>5, <1>6

LEMMA NamesRefreshed ==
    ASSUME ReadInv, NEW p \in Refreshers, refreshCatalog(p)
    PROVE  ReadInv'
<1>1. CatalogInv /\ 0 \in Nat /\ time \in Nat /\ CatalogTTL \in Nat
  BY ReadConstants DEF ReadInv
<1>2. UNCHANGED readSide /\ catalog' = catalog /\ fetchMuFree(p)
  BY DEF refreshCatalog
<1>3. catalog' \in [cached : {catalog.cached}, file : {catalog.file, catalog.cached}, refreshing : BOOLEAN]
  BY <1>1, <1>2, NamesKept
<1>4. CASE catalogFresh
  <2>1. PICK stage \in {"none", "clearing"} : stage = Done(p)
    BY DEF Done
  <2>2. Refresh(p, stage, 0)
    BY <1>4, <2>1 DEF refreshCatalog
  <2> QED
    BY <1>1, <1>2, <1>3, <2>2, RefreshMoved
<1>5. CASE ~catalogFresh
  <2>1. Refresh(p, "fetching", time)
    BY <1>5 DEF refreshCatalog
  <2>2. time >= catalog.cached + CatalogTTL \/ catalog.cached = 0
    BY <1>1, <1>5 DEF catalogFresh, CatalogInv
  <2> QED
    BY <1>1, <1>2, <1>3, <2>1, <2>2, RefreshMoved
<1> QED
  BY <1>4, <1>5

LEMMA NamesFetched ==
    ASSUME ReadInv, NEW p \in Refreshers, fetchNames(p)
    PROVE  ReadInv'
<1>1. CatalogInv /\ 0 \in Nat /\ time \in Nat /\ CatalogTTL \in Nat
  BY ReadConstants DEF ReadInv
<1>2. UNCHANGED readSide /\ refreshers[p].stage = "fetching"
  BY DEF fetchNames
<1>3. CASE Refresh(p, Done(p), 0) /\ UNCHANGED catalog
  <2>1. PICK stage \in {"none", "clearing"} : stage = Done(p)
    BY DEF Done
  <2> QED
    BY <1>1, <1>2, <1>3, <2>1, NamesKept, RefreshMoved
<1>4. CASE Refresh(p, "saving", refreshers[p].at) /\ catalog' = [catalog EXCEPT !.cached = refreshers[p].at]
  <2>1. PICK at \in Nat : at = refreshers[p].at
    BY <1>1 DEF CatalogInv
  <2>2. /\ at <= time /\ (at >= catalog.cached + CatalogTTL \/ catalog.cached = 0)
        /\ catalog.cached \in Nat /\ catalog.file \in Nat /\ catalog.file <= catalog.cached
    BY <1>1, <1>2, <2>1 DEF CatalogInv
  <2>3. /\ catalog' = [catalog EXCEPT !.cached = at] /\ catalog'.cached = at /\ catalog'.file = catalog.file
        /\ catalog' \in [cached : Nat, file : Nat, refreshing : BOOLEAN]
    BY <1>1, <1>4, <2>1 DEF CatalogInv
  <2>4. catalog'.file <= catalog'.cached /\ catalog'.cached <= time' /\ time' = time
    BY <1>1, <1>2, <2>2, <2>3 DEF readSide
  <2>5. PICK new : new = [stage |-> "saving", at |-> at]
    OBVIOUS
  <2>6. /\ refreshers' = [refreshers EXCEPT ![p] = new] /\ new.stage = "saving" /\ new.at = at
        /\ new \in [stage : {"none", "waiting", "fetching", "saving", "clearing"}, at : Nat]
    BY <1>4, <2>1, <2>5 DEF Refresh
  <2>7. /\ refreshers' \in [Refreshers -> [stage : {"none", "waiting", "fetching", "saving", "clearing"}, at : Nat]]
        /\ refreshers'[p] = new /\ \A q \in Refreshers \ {p} : refreshers'[q] = refreshers[q]
    BY <1>1, <2>6 DEF CatalogInv
  <2>8. \A q \in Refreshers \ {p} : refreshers[q].stage \notin {"fetching", "saving"}
    BY <1>1, <1>2 DEF CatalogInv
  <2>9. CatalogInv'
    BY <1>1, <2>3, <2>4, <2>6, <2>7, <2>8 DEF CatalogInv
  <2> QED
    BY <1>2, <2>9, NamesMoved
<1> QED
  BY <1>3, <1>4 DEF fetchNames

LEMMA NamesSaved ==
    ASSUME ReadInv, NEW p \in Refreshers, persistCache(p)
    PROVE  ReadInv'
<1>1. CatalogInv /\ 0 \in Nat
  BY DEF ReadInv
<1>2. UNCHANGED readSide /\ refreshers[p].stage = "saving" /\ refreshers[p].at = catalog.cached
  BY <1>1 DEF persistCache, CatalogInv
<1>3. PICK stage \in {"none", "clearing"} : stage = Done(p)
  BY DEF Done
<1>4. Refresh(p, stage, 0)
  BY <1>3 DEF persistCache
<1>5. catalog' = catalog \/ catalog' = [catalog EXCEPT !.file = catalog.cached]
  BY <1>2 DEF persistCache
<1> QED
  BY <1>1, <1>2, <1>4, <1>5, NamesKept, RefreshMoved

-----------------------------------------------------------------------------
(* Time, and a new start.                                                  *)
LEMMA TimePasses ==
    ASSUME ReadInv, Tick
    PROVE  ReadInv'
<1>1. /\ time' = time + 1 /\ time \in Nat
      /\ UNCHANGED <<account, policy, published, rendered, fetched, leading, readers, catalog, refreshers>>
  BY DEF Tick, ReadInv, subscribed, ruleSide, catalogSide
<1>2. StoreInv' /\ RenderedInv' /\ FetchedInv' /\ JoinInv'
  BY <1>1, RenderedKept, FetchedKept DEF ReadInv, StoreInv, JoinInv
<1>3. ASSUME NEW r \in Readers
      PROVE  ReaderOk(readers[r])'
  <2>1. PICK x : x = readers[r]
    OBVIOUS
  <2>2. ReaderOk(x)
    BY <2>1 DEF ReadInv, ReadersInv
  <2>3. FetcherOk(x) => x.at = time
    BY <2>1 DEF Tick, FetcherOk, Fetcher
  <2>4. ReaderOk(x)'
    <3>1. CASE FetcherOk(x)
      BY <1>1, <2>3, <3>1 DEF ReaderOk, FetcherOk, RuleSetEntry
    <3>2. CASE ~FetcherOk(x)
      BY <1>1, <2>2, <3>2 DEF ReaderOk, ClientOk, AnswerOk
    <3> QED
      BY <3>1, <3>2
  <2> QED
    BY <1>1, <2>1, <2>4
<1>4. ReadersInv'
  BY <1>1, <1>3 DEF ReadInv, ReadersInv
<1>5. CatalogInv'
  BY <1>1 DEF ReadInv, CatalogInv
<1> QED
  BY <1>1, <1>2, <1>4, <1>5 DEF ReadInv

LEMMA CachesEmpty ==
    Pages(EmptyCache) /\ Fetched(EmptyCache)
  BY EmptiedCache DEF Pages, Fetched

LEMMA MasterRestarts ==
    ASSUME ReadInv, RestartReads
    PROVE  ReadInv'
<1>1. /\ rendered' = EmptyCache /\ fetched' = EmptyCache /\ leading' = <<>>
      /\ readers' = [r \in Readers |-> NoReader]
      /\ catalog' = [catalog EXCEPT !.cached = catalog.file, !.refreshing = FALSE]
      /\ refreshers' = [p \in Refreshers |-> Idle]
      /\ UNCHANGED <<account, policy, published, time>>
  BY DEF RestartReads, subscribed
<1>2. StoreInv' /\ time' \in Nat
  BY <1>1 DEF ReadInv, StoreInv
<1>3. RenderedInv'
  BY <1>1, CachesEmpty, EmptiedCache, ReadConstants DEF RenderedInv, Pages, PageOf, IsCache
<1>4. FetchedInv'
  BY <1>1, CachesEmpty DEF FetchedInv, Fetched, IsCache, RuleSetEntry
<1>5. ReadersInv'
  BY <1>1 DEF ReadersInv, ReaderOk
<1>6. JoinInv'
  BY <1>1 DEF JoinInv, NoReader, AtWork
<1>7. CatalogInv'
  <2>1. /\ catalog \in [cached : Nat, file : Nat, refreshing : BOOLEAN] /\ catalog.file \in Nat /\ time \in Nat
        /\ catalog.file <= time
    BY DEF ReadInv, CatalogInv
  <2>2. /\ catalog' \in [cached : Nat, file : Nat, refreshing : BOOLEAN]
        /\ catalog'.cached = catalog.file /\ catalog'.file = catalog.file
    BY <1>1, <2>1
  <2>3. /\ refreshers' \in [Refreshers -> [stage : {"none", "waiting", "fetching", "saving", "clearing"}, at : Nat]]
        /\ \A p \in Refreshers : refreshers'[p].stage = "none"
    BY <1>1 DEF Idle
  <2> QED
    BY <1>1, <2>1, <2>2, <2>3 DEF CatalogInv
<1> QED
  BY <1>2, <1>3, <1>4, <1>5, <1>6, <1>7 DEF ReadInv

LEMMA ReadsBegin ==
    ASSUME ReadInit
    PROVE  ReadInv
<1>1. /\ account = [present |-> TRUE, link |-> 1, issued |-> 1, secret |-> 1, standing |-> "enabled"]
      /\ policy = <<>> /\ published = <<SubscriptionProjection(account, policy)>>
      /\ rendered = EmptyCache /\ fetched = EmptyCache /\ leading = <<>>
      /\ readers = [r \in Readers |-> NoReader]
      /\ catalog = [cached |-> 0, file |-> 0, refreshing |-> FALSE]
      /\ refreshers = [p \in Refreshers |-> Idle] /\ time = 1
  BY DEF ReadInit
<1>2. StoreInv
  <2>1. account \in AccountRecord /\ Ordered(policy)
    BY <1>1 DEF AccountRecord, Ordered
  <2>2. PICK p : p = SubscriptionProjection(account, policy)
    OBVIOUS
  <2>3. p \in Profile
    BY <2>1, <2>2 DEF SubscriptionProjection, AccountRecord, Ordered, Profile
  <2>4. published \in Seq(Profile) /\ Len(published) = 1 /\ published[1] = p
    BY <1>1, <2>2, <2>3
  <2> QED
    BY <2>1, <2>2, <2>4 DEF StoreInv
<1>3. RenderedInv
  BY <1>1, CachesEmpty, EmptiedCache, ReadConstants DEF RenderedInv
<1>4. FetchedInv
  BY <1>1, CachesEmpty DEF FetchedInv
<1>5. ReadersInv
  BY <1>1 DEF ReadersInv, ReaderOk
<1>6. JoinInv
  BY <1>1 DEF JoinInv, NoReader, AtWork
<1>7. CatalogInv
  BY <1>1 DEF CatalogInv, Idle
<1> QED
  BY <1>1, <1>2, <1>3, <1>4, <1>5, <1>6, <1>7 DEF ReadInv

LEMMA ReadStep ==
    ASSUME ReadInv, [ReadNext]_readVars
    PROVE  ReadInv'
<1>1. CASE EditPolicy \/ EditAccount
  BY <1>1, EditPolicyStep, EditAccountStep
<1>2. ASSUME NEW r \in Readers, ask(r)
      PROVE  ReadInv'
  BY <1>2, LinkFound, RuleSetAsked DEF ask
<1>3. ASSUME NEW r \in Readers, proceedRead(r)
      PROVE  ReadInv'
  BY <1>3, ProfileRead, PageRendered, PageStored, RuleSetFetched, FetchConcluded, RequestEnds DEF proceedRead
<1>4. ASSUME NEW r \in Readers, clientLeaves(r)
      PROVE  ReadInv'
  BY <1>4, RequestEnds
<1>5. CASE Options \/ pollCatalog \/ clearRefreshing
  BY <1>5, NamesAsked
<1>6. ASSUME NEW p \in Refreshers, refreshing(p)
      PROVE  ReadInv'
  BY <1>6, NamesRefreshed, NamesFetched, NamesSaved DEF refreshing
<1>7. CASE Tick \/ RestartReads
  BY <1>7, TimePasses, MasterRestarts
<1>8. CASE UNCHANGED readVars
  <2>1. UNCHANGED readSide /\ UNCHANGED <<catalog, refreshers, time>>
    BY <1>8 DEF readVars, readSide, subscribed, ruleSide
  <2>2. CatalogInv'
    BY <2>1, CatalogKept DEF ReadInv, catalogSide
  <2> QED
    BY <2>1, <2>2, NamesMoved
<1> QED
  BY <1>1, <1>2, <1>3, <1>4, <1>5, <1>6, <1>7, <1>8 DEF ReadNext

LEMMA ReadsSound ==
    ASSUME ReadInv
    PROVE  PublicReadsAreSound
<1>1. AnswersAreCurrent
  <2>1. ASSUME NEW r \in Readers, Got(r, "subscription")
        PROVE  \E i \in readers[r].ask.since .. Len(published) :
                  readers[r].content = Render(readers[r].ask.format, published[i])
    BY <2>1, StageOf DEF ReadInv, Got, AnswerOk
  <2> QED
    BY <2>1 DEF AnswersAreCurrent
<1>2. RenderedIsBounded
  <2>1. Held(rendered) = Cardinality(DOMAIN rendered.entries)
    BY PagesWeigh DEF ReadInv, RenderedInv, Pages, Held
  <2> QED
    BY <2>1 DEF ReadInv, RenderedInv, Pages, RenderedIsBounded
<1>3. PolicyInOrder
  BY InOrderKeeps DEF ReadInv, StoreInv, PolicyInOrder
<1>4. FetchesAreJoined
  BY DEF ReadInv, JoinInv, FetchesAreJoined, Fetching, AtWork
<1>5. RuleSetsAreRecent
  <2>1. ASSUME NEW r \in Readers, Got(r, "rules"), readers[r].content # Failure
        PROVE  readers[r].content.from + StaleFor >= readers[r].ask.at
    BY <2>1, StageOf DEF ReadInv, Got, AnswerOk
  <2> QED
    BY <2>1 DEF RuleSetsAreRecent
<1>6. CatalogIsKept
  BY DEF ReadInv, CatalogInv, CatalogIsKept
<1> QED
  BY <1>1, <1>2, <1>3, <1>4, <1>5, <1>6 DEF PublicReadsAreSound

(* Whatever is edited, asked for, lost or restarted, what clients read is  *)
(* sound: subscriptions are of the store as it was after their link was    *)
(* found, the cache of subscriptions keeps its limits, the rules their     *)
(* order, fetches are joined and end for all who wait, rule sets are       *)
(* recent and the catalog never goes back.                                 *)
THEOREM ReadsStaySound == ReadSpec => []PublicReadsAreSound
<1>1. ReadInit => ReadInv
  BY ReadsBegin
<1>2. ReadInv /\ [ReadNext]_readVars => ReadInv'
  BY ReadStep
<1>3. ReadInv => PublicReadsAreSound
  BY ReadsSound
<1> QED
  BY <1>1, <1>2, <1>3, PTL DEF ReadSpec

=============================================================================
