------------------------- MODULE WebSessionsProofs -------------------------
(***************************************************************************)
(* The sessions a browser may use are those it should, proved for any      *)
(* users, names, passwords and tokens, any number of sign-ins, invitations *)
(* and removals, and any failed writes, crashes and restarts.              *)
(*                                                                         *)
(* The sessions of a manager are in three places: its map, its file and,   *)
(* while the background write runs, its snapshot of the map.  What is      *)
(* asked of a session is asked of it in all three (PlacesInv): its token   *)
(* was not reported as ended and is no invitation, and if anybody holds    *)
(* the token, the deadline it was given covers the session.  That a        *)
(* session was opened with the credential its owner has needs the file of  *)
(* identities to be what the memory says or one unreported change ahead of *)
(* it (StandingInv, Ahead), and that no session is newer than its account  *)
(* (CredentialInv).                                                        *)
(***************************************************************************)
EXTENDS WebSessions, FiniteSetTheorems, TLAPS

-----------------------------------------------------------------------------
(* The invariant.                                                          *)

RequestRecord ==
    [stage : {"none", "waiting", "deriving", "derived", "verified", "inviting", "claimed", "removing"},
     op : {"none", "login", "claim"}, name : Logins \cup {Blank}, secret : Passwords \cup {Blank},
     owner : EndUsers \cup {Administrator, Blank}, rev : Nat, hash : Passwords \cup {Blank},
     token : Bearers \cup {Blank}, now : Nat]

(* The types of what is not a map of sessions.                             *)
TypesInv ==
    /\ serving \in BOOLEAN /\ hour \in Nat /\ storeUsers \subseteq EndUsers
    /\ IsBook(accounts) /\ IsBook(identityFile.accounts) /\ IsBook(legacyFile)
    /\ identityFile \in [version : {2, 3}, admin : AdminRecord, accounts : {identityFile.accounts}]
    /\ operator \in AdminRecord
    /\ handedOut \subseteq Bearers /\ finished \subseteq handedOut
    /\ promised \in [Bearers -> Nat] /\ \A t \in Bearers : promised[t] <= hour + IdleTimeout
    /\ requests \in [Requests -> RequestRecord]
    /\ DOMAIN browsing = Managers /\ DOMAIN sessionFile = Managers /\ DOMAIN activity = Managers
    /\ \A m \in Managers :
          /\ sessionFile[m] = [binding |-> sessionFile[m].binding, sessions |-> sessionFile[m].sessions]
          /\ activity[m] = [phase |-> activity[m].phase, snapshot |-> activity[m].snapshot]
          /\ activity[m].phase \in {"none", "due", "writing"}
          /\ activity[m].phase # "writing" => activity[m].snapshot = NoSessions

(* One request derives a password at a time.                               *)
Deriving == {r \in Requests : requests[r].stage = "deriving"}
GateInv ==
    \/ gate = 0 /\ Deriving = {}
    \/ gate = 1 /\ \E r \in Requests : Deriving = {r}

(* What a request knows when its next step is due.                         *)
RequestOk(req) ==
    /\ req.op = "login" /\ req.stage \in {"waiting", "deriving", "derived"} => req.name # Blank
    /\ req.op = "login" /\ req.owner \in EndUsers => req.rev > 0
    /\ req.stage \in {"waiting", "deriving", "derived", "verified"} =>
          req.op \in {"login", "claim"} /\ req.secret \in Passwords /\ req.now <= hour
    /\ req.stage = "derived" /\ req.op = "login" => req.owner # Blank /\ req.secret = req.hash
    /\ req.stage = "verified" => req.secret = operator.secret
    /\ req.stage \in {"inviting", "claimed", "removing"} => req.owner \in EndUsers
    /\ req.stage = "removing" => req.owner \notin storeUsers
    /\ req.stage = "claimed" => req.token \in Bearers
    /\ req.op = "claim" => req.token \in handedOut /\ req.name \in Logins
    /\ req.stage # "claimed" => req.token \in handedOut \cup {Blank}
RequestsInv == \A r \in Requests : RequestOk(requests[r])

(* f says of an account what a does, or what it is about to become.        *)
Ahead(a, f) ==
    /\ a.rev <= f.rev
    /\ a.rev = f.rev /\ a.name # Blank => f.name # Blank /\ f.secret = a.secret

Asleep(m) == browsing[m] = NoSessions /\ activity[m] = asleep

StandingInv ==
    /\ serving =>
          /\ identityFile.version = 3 /\ identityFile.admin = operator
          /\ loadUnifiedIdentities(unifiedDocument(accounts, operator))
          /\ binding = <<binding[1], operator, binding[3]>> /\ binding[1] \in {2, 3}
          /\ binding[1] = 3 => binding[3] = NoAccounts
          /\ \A u \in storeUsers : Ahead(accounts[u], identityFile.accounts[u])
    /\ ~serving =>
          /\ accounts = NoAccounts /\ \A m \in Managers : Asleep(m)
          /\ \A r \in Requests : requests[r] = noRequest
    /\ identityFile.version = 3 => loadUnifiedIdentities(identityFile)
    /\ identityFile.version = 2 =>
          ~serving /\ handedOut = {} /\ \A m \in Managers : sessionFile[m].sessions = NoSessions
    /\ \A t \in finished, u \in EndUsers : t # accounts[u].invite /\ t # identityFile.accounts[u].invite

(* The maps of sessions of a manager: in memory, in the file and in the    *)
(* hands of the background write.                                          *)
Places(m) == {browsing[m], sessionFile[m].sessions, activity[m].snapshot}
Watched == handedOut \cup {requests[r].token : r \in Requests}
OwnersOf(m) == IF m = "admin" THEN {Administrator} ELSE EndUsers

Lasting(m, t, s) ==
    /\ s.owner \in OwnersOf(m) /\ (m = "user" => s.rev > 0)
    /\ s.seen <= hour
    /\ t \notin finished
    /\ \A u \in EndUsers : t # accounts[u].invite /\ t # identityFile.accounts[u].invite
    /\ t \in Watched => expiresAt(s) <= promised[t]

PlacesInv ==
    /\ \A m \in Managers : \A map \in Places(m) :
          /\ IsFiniteSet(DOMAIN map) /\ IsSessions(map)
          /\ \A t \in DOMAIN map : Lasting(m, t, map[t])
    /\ \A map \in Places("admin"), other \in Places("user") : DOMAIN map \cap DOMAIN other = {}
    /\ \A m \in Managers : DOMAIN activity[m].snapshot \subseteq DOMAIN browsing[m] \cup handedOut

(* A session of an account that still has the revision of the session was  *)
(* opened with its credential.                                             *)
Vouched(s, a) ==
    /\ s.rev <= a.rev
    /\ s.rev = a.rev => a.name # Blank /\ a.secret = s.secret

BoundTo(b, s) ==
    /\ b = <<b[1], b[2], b[3]>> /\ b[1] \in {2, 3}
    /\ b[2].secret = s.secret /\ b[2].rev = s.rev
    /\ b[1] = 3 => /\ b[3] = NoAccounts
                   /\ b[2].rev <= identityFile.admin.rev
                   /\ b[2].rev = identityFile.admin.rev => b[2] = identityFile.admin

CredentialInv ==
    /\ \A map \in {browsing["admin"], activity["admin"].snapshot} : \A t \in DOMAIN map :
          map[t].secret = operator.secret /\ map[t].rev = operator.rev
    /\ \A t \in DOMAIN sessionFile["admin"].sessions :
          BoundTo(sessionFile["admin"].binding, sessionFile["admin"].sessions[t])
    /\ \A map \in Places("user") : \A t \in DOMAIN map : map[t].owner \in storeUsers =>
          /\ Vouched(map[t], identityFile.accounts[map[t].owner])
          /\ serving => Vouched(map[t], accounts[map[t].owner])
    /\ \A t \in DOMAIN browsing["user"] :
          LET s == browsing["user"][t]
          IN  accounts[s.owner].rev = 0 \/ Vouched(s, accounts[s.owner])

WebInv ==
    TypesInv /\ GateInv /\ RequestsInv /\ StandingInv /\ PlacesInv /\ CredentialInv

Sized(map) == IsFiniteSet(DOMAIN map) /\ Cardinality(DOMAIN map) <= MaxSessions

-----------------------------------------------------------------------------
(* Maps of sessions.                                                       *)

(* A map that has lost entries; one that has lost some and got one.        *)
Descends(new, old) ==
    DOMAIN new \subseteq DOMAIN old /\ \A x \in DOMAIN new : new[x] = old[x]
Follows(new, old, t, s) ==
    \A x \in DOMAIN new : \/ x \in DOMAIN old /\ new[x] = old[x]
                          \/ x = t /\ new[x] = s

LEMMA Limits ==
    /\ MaxSessions \in Nat /\ MaxSessions > 0 /\ IdleTimeout \in Nat /\ InviteLifetime \in Nat
    /\ Administrator \notin EndUsers /\ Blank \notin EndUsers /\ Blank # Administrator
    /\ Blank \notin Logins /\ Blank \notin Passwords /\ Blank \notin Bearers
BY WebConstants

LEMMA DescendsFollows ==
    ASSUME NEW new, NEW old, NEW t, NEW s, Descends(new, old)
    PROVE  Follows(new, old, t, s)
BY DEF Descends, Follows

LEMMA DescendsSized ==
    ASSUME NEW new, NEW old, Descends(new, old), Sized(old)
    PROVE  Sized(new)
<1>1. DOMAIN new \subseteq DOMAIN old /\ IsFiniteSet(DOMAIN old)
  BY DEF Descends, Sized
<1>2. IsFiniteSet(DOMAIN new) /\ Cardinality(DOMAIN new) <= Cardinality(DOMAIN old)
  BY <1>1, FS_Subset
<1>3. Cardinality(DOMAIN new) \in Nat /\ Cardinality(DOMAIN old) \in Nat
  BY <1>1, <1>2, FS_CardinalityType
<1> QED
  BY <1>2, <1>3, Limits DEF Sized

LEMMA DescendsTwice ==
    ASSUME NEW new, NEW mid, NEW old, Descends(new, mid), Descends(mid, old)
    PROVE  Descends(new, old)
BY DEF Descends

LEMMA Emptied ==
    ASSUME NEW old
    PROVE  /\ DOMAIN NoSessions = {} /\ Descends(NoSessions, old) /\ Sized(NoSessions)
<1>1. DOMAIN NoSessions = {}
  BY DEF NoSessions
<1>2. IsFiniteSet({}) /\ Cardinality({}) = 0
  BY FS_EmptySet
<1> QED
  BY <1>1, <1>2, Limits DEF Descends, Sized

LEMMA WithoutDescends ==
    ASSUME NEW map, NEW D
    PROVE  /\ Descends(without(map, D), map)
           /\ DOMAIN without(map, D) = DOMAIN map \ D
BY DEF Descends, without, Restrict

LEMMA PurgedDescends ==
    ASSUME NEW map, NEW now
    PROVE  Descends(purged(map, now), map)
BY DEF Descends, purged, Restrict

(* There is room for one more session after the oldest one had to go.      *)
LEMMA RoomFor ==
    ASSUME NEW map, Sized(map), NEW room \in roomIn(map)
    PROVE  /\ Descends(room, map) /\ IsFiniteSet(DOMAIN room)
           /\ Cardinality(DOMAIN room) \in Nat /\ Cardinality(DOMAIN room) < MaxSessions
<1>1. IsFiniteSet(DOMAIN map) /\ Cardinality(DOMAIN map) \in Nat /\ Cardinality(DOMAIN map) <= MaxSessions
  BY FS_CardinalityType DEF Sized
<1>2. CASE Cardinality(DOMAIN map) < MaxSessions
  <2>1. room = map
    BY <1>2 DEF roomIn
  <2> QED
    BY <1>1, <1>2, <2>1 DEF Descends
<1>3. CASE ~(Cardinality(DOMAIN map) < MaxSessions)
  <2>1. PICK x \in DOMAIN map : room = without(map, {x})
    BY <1>3 DEF roomIn
  <2>2. IsFiniteSet(DOMAIN map \ {x}) /\ Cardinality(DOMAIN map \ {x}) = Cardinality(DOMAIN map) - 1
    BY <1>1, FS_RemoveElement
  <2>3. DOMAIN room = DOMAIN map \ {x} /\ Descends(room, map)
    BY <2>1, WithoutDescends
  <2>4. Cardinality(DOMAIN room) \in Nat
    BY <2>2, <2>3, FS_CardinalityType
  <2> QED
    BY <1>1, <2>2, <2>3, <2>4, Limits
<1> QED
  BY <1>2, <1>3

Admits(room, t, s) == [x \in DOMAIN room \cup {t} |-> IF x = t THEN s ELSE room[x]]

LEMMA Admitted ==
    ASSUME NEW map, Sized(map), NEW now, NEW t, NEW s, NEW room \in roomIn(purged(map, now))
    PROVE  /\ Follows(Admits(room, t, s), map, t, s) /\ Sized(Admits(room, t, s))
           /\ Descends(room, map) /\ Sized(room)
           /\ t \in DOMAIN Admits(room, t, s) /\ Admits(room, t, s)[t] = s
<1> DEFINE new == Admits(room, t, s)
<1>0. new = [x \in DOMAIN room \cup {t} |-> IF x = t THEN s ELSE room[x]]
  BY DEF Admits
<1> HIDE DEF new
<1>1. Descends(purged(map, now), map) /\ Sized(purged(map, now))
  BY PurgedDescends, DescendsSized
<1>2. /\ Descends(room, purged(map, now)) /\ IsFiniteSet(DOMAIN room)
      /\ Cardinality(DOMAIN room) \in Nat /\ Cardinality(DOMAIN room) < MaxSessions
  BY <1>1, RoomFor
<1>3. Descends(room, map) /\ Sized(room)
  BY <1>1, <1>2, DescendsTwice, DescendsSized
<1>4. IsFiniteSet(DOMAIN room \cup {t}) /\ Cardinality(DOMAIN room \cup {t}) <= Cardinality(DOMAIN room) + 1
  <2> DEFINE D == DOMAIN room
  <2>1. IsFiniteSet(D) /\ Cardinality(D) \in Nat
    BY <1>2
  <2> HIDE DEF D
  <2>2. /\ IsFiniteSet(D \cup {t})
        /\ Cardinality(D \cup {t}) = IF t \in D THEN Cardinality(D) ELSE Cardinality(D) + 1
    BY <2>1, FS_AddElement
  <2>3. Cardinality(D \cup {t}) <= Cardinality(D) + 1
    BY <2>1, <2>2
  <2> QED
    BY <2>2, <2>3 DEF D
<1>5. DOMAIN new = DOMAIN room \cup {t} /\ Cardinality(DOMAIN new) \in Nat
  BY <1>0, <1>4, FS_CardinalityType
<1>6. Sized(new)
  BY <1>2, <1>4, <1>5, Limits DEF Sized
<1>7. Follows(new, map, t, s) /\ t \in DOMAIN new /\ new[t] = s
  BY <1>0, <1>3, <1>5 DEF Follows, Descends
<1> QED
  BY <1>3, <1>6, <1>7 DEF new

-----------------------------------------------------------------------------
(* A step of one manager's sessions.                                       *)

Held(m) == DOMAIN browsing[m] \cup DOMAIN sessionFile[m].sessions \cup DOMAIN activity[m].snapshot

(* What happens to the sessions of a manager while the Master runs: some   *)
(* end, and at most one, with token t, is opened or seen.                  *)
StepOf(m, t, s) ==
    /\ Follows(browsing'[m], browsing[m], t, s) /\ Sized(browsing'[m])
    /\ \/ Descends(activity'[m].snapshot, browsing[m])
       \/ Descends(activity'[m].snapshot, activity[m].snapshot)
    /\ \/ /\ sessionFile'[m].binding = sessionFile[m].binding
          /\ Descends(sessionFile'[m].sessions, sessionFile[m].sessions)
       \/ /\ sessionFile'[m].binding = boundTo(m) /\ Sized(sessionFile'[m].sessions)
          /\ \/ Follows(sessionFile'[m].sessions, browsing[m], t, s)
             \/ Descends(sessionFile'[m].sessions, activity[m].snapshot)
    /\ DOMAIN activity'[m].snapshot \subseteq DOMAIN browsing'[m] \cup handedOut'

(* A session that stays is asked for no more than before.                  *)
EnvOf(m) ==
    /\ hour' \in Nat /\ hour <= hour' /\ promised' \in [Bearers -> Nat]
    /\ \A x \in Held(m) \cap Held(m)' :
          /\ x \notin finished'
          /\ \A u \in EndUsers : x # accounts'[u].invite /\ x # identityFile'.accounts[u].invite
          /\ x \in Watched' => x \in Watched /\ promised[x] <= promised'[x]

NewOk(m, t, s) == t \in Held(m)' => t \in Bearers /\ s \in SessionRecord /\ Lasting(m, t, s)'

PlacesOf(m) ==
    /\ \A map \in Places(m) :
          /\ IsFiniteSet(DOMAIN map) /\ IsSessions(map)
          /\ \A x \in DOMAIN map : Lasting(m, x, map[x])
    /\ DOMAIN activity[m].snapshot \subseteq DOMAIN browsing[m] \cup handedOut

LEMMA PlacesApart ==
    PlacesInv <=> /\ \A m \in Managers : PlacesOf(m)
                  /\ Held("admin") \cap Held("user") = {}
BY DEF PlacesInv, PlacesOf, Places, Held, Managers

LEMMA HeldFacts ==
    ASSUME PlacesInv, NEW m \in Managers
    PROVE  /\ Held(m) \subseteq Bearers
           /\ \A map \in Places(m) : Sized(map)
           /\ \A map \in Places(m) : \A x \in DOMAIN map :
                 x \in Held(m) /\ map[x] \in SessionRecord /\ Lasting(m, x, map[x])
BY DEF PlacesInv, Places, Held, IsSessions, Sized

LEMMA LastingStep ==
    ASSUME TypesInv, PlacesInv, NEW m \in Managers, EnvOf(m),
           NEW x \in Held(m) \cap Held(m)', NEW s \in SessionRecord, Lasting(m, x, s)
    PROVE  Lasting(m, x, s)'
<1>1. s.seen \in Nat /\ hour \in Nat /\ hour' \in Nat /\ s.seen <= hour /\ hour <= hour'
  BY DEF SessionRecord, TypesInv, EnvOf, Lasting
<1>2. s.seen <= hour'
  BY <1>1
<1>3. (expiresAt(s))' = expiresAt(s) /\ expiresAt(s) \in Nat
  BY <1>1, Limits DEF expiresAt
<1>4. x \in Watched' => x \in Watched /\ promised[x] <= promised'[x]
  BY DEF EnvOf
<1>5. x \in Watched => expiresAt(s) <= promised[x]
  BY DEF Lasting
<1>6. x \in Watched' => expiresAt(s) <= promised'[x]
  <2>1. SUFFICES ASSUME x \in Watched'
                 PROVE  expiresAt(s) <= promised'[x]
    OBVIOUS
  <2>2. x \in Bearers
    BY HeldFacts
  <2>3. promised[x] \in Nat /\ promised'[x] \in Nat
    BY <2>2 DEF TypesInv, EnvOf
  <2> QED
    BY <1>3, <1>4, <1>5, <2>1, <2>3
<1>7. x \notin finished' /\ \A u \in EndUsers : x # accounts'[u].invite /\ x # identityFile'.accounts[u].invite
  BY DEF EnvOf
<1>8. s.owner \in OwnersOf(m) /\ (m = "user" => s.rev > 0)
  BY DEF Lasting
<1> QED
  BY <1>2, <1>3, <1>6, <1>7, <1>8 DEF Lasting, OwnersOf

(* The places of a manager after a step of its sessions.                   *)
LEMMA PlacesStep ==
    ASSUME TypesInv, PlacesInv, NEW m \in Managers, NEW t, NEW s,
           StepOf(m, t, s), EnvOf(m), NewOk(m, t, s)
    PROVE  PlacesOf(m)' /\ Held(m)' \subseteq Held(m) \cup {t}
<1>h. /\ Held(m) \subseteq Bearers /\ \A map \in Places(m) : Sized(map)
      /\ \A map \in Places(m) : \A x \in DOMAIN map :
            x \in Held(m) /\ map[x] \in SessionRecord /\ Lasting(m, x, map[x])
  BY HeldFacts
<1>1. browsing[m] \in Places(m) /\ sessionFile[m].sessions \in Places(m) /\ activity[m].snapshot \in Places(m)
  BY DEF Places
<1>2. ASSUME NEW new, DOMAIN new \subseteq Held(m)', Sized(new), NEW old \in Places(m), Follows(new, old, t, s)
      PROVE  /\ IsFiniteSet(DOMAIN new) /\ IsSessions(new) /\ DOMAIN new \subseteq Held(m) \cup {t}
             /\ \A x \in DOMAIN new : Lasting(m, x, new[x])'
  <2>1. ASSUME NEW x \in DOMAIN new
        PROVE  /\ x \in Bearers /\ new[x] \in SessionRecord /\ Lasting(m, x, new[x])'
               /\ x \in Held(m) \cup {t}
    <3>1. CASE x \in DOMAIN old /\ new[x] = old[x]
      <4>1. x \in Held(m) \cap Held(m)' /\ old[x] \in SessionRecord /\ Lasting(m, x, old[x])
        BY <1>2, <1>h, <2>1, <3>1
      <4>2. Lasting(m, x, old[x])'
        BY <4>1, LastingStep
      <4> QED
        BY <4>1, <4>2, <3>1, <1>h
    <3>2. CASE x = t /\ new[x] = s
      BY <1>2, <2>1, <3>2 DEF NewOk
    <3> QED
      BY <1>2, <2>1, <3>1, <3>2 DEF Follows
  <2> QED
    BY <1>2, <2>1 DEF IsSessions, Sized
<1>3. Follows(browsing'[m], browsing[m], t, s) /\ Sized(browsing'[m])
  BY DEF StepOf
<1>4. PICK a \in Places(m) : Follows(activity'[m].snapshot, a, t, s) /\ Sized(activity'[m].snapshot)
  <2>1. \/ Descends(activity'[m].snapshot, browsing[m])
        \/ Descends(activity'[m].snapshot, activity[m].snapshot)
    BY DEF StepOf
  <2> QED
    BY <2>1, <1>1, <1>h, DescendsFollows, DescendsSized
<1>5. PICK f \in Places(m) : Follows(sessionFile'[m].sessions, f, t, s) /\ Sized(sessionFile'[m].sessions)
  <2>1. \/ Descends(sessionFile'[m].sessions, sessionFile[m].sessions)
        \/ /\ Sized(sessionFile'[m].sessions)
           /\ \/ Follows(sessionFile'[m].sessions, browsing[m], t, s)
              \/ Descends(sessionFile'[m].sessions, activity[m].snapshot)
    BY DEF StepOf
  <2> QED
    BY <2>1, <1>1, <1>h, DescendsFollows, DescendsSized
<1>6. /\ DOMAIN browsing'[m] \subseteq Held(m)' /\ DOMAIN activity'[m].snapshot \subseteq Held(m)'
      /\ DOMAIN sessionFile'[m].sessions \subseteq Held(m)'
  BY DEF Held
<1>7. ASSUME NEW new, new \in Places(m)'
      PROVE  /\ IsFiniteSet(DOMAIN new) /\ IsSessions(new) /\ DOMAIN new \subseteq Held(m) \cup {t}
             /\ \A x \in DOMAIN new : Lasting(m, x, new[x])'
  <2>1. CASE new = browsing'[m]
    BY <2>1, <1>2, <1>3, <1>6, <1>1
  <2>2. CASE new = activity'[m].snapshot
    BY <2>2, <1>2, <1>4, <1>6
  <2>3. CASE new = sessionFile'[m].sessions
    BY <2>3, <1>2, <1>5, <1>6
  <2> QED
    BY <1>7, <2>1, <2>2, <2>3 DEF Places
<1>8. DOMAIN activity'[m].snapshot \subseteq DOMAIN browsing'[m] \cup handedOut'
  BY DEF StepOf
<1>9. Held(m)' \subseteq Held(m) \cup {t}
  BY <1>7 DEF Held, Places
<1>10. \A map \in Places(m)' :
          /\ IsFiniteSet(DOMAIN map) /\ IsSessions(map)
          /\ \A x \in DOMAIN map : Lasting(m, x, map[x])'
  BY <1>7
<1> QED
  BY <1>8, <1>9, <1>10 DEF PlacesOf

(* A manager whose sessions stay where they are.                           *)
Quiet(m) ==
    /\ browsing'[m] = browsing[m] /\ sessionFile'[m] = sessionFile[m]
    /\ activity'[m].snapshot = activity[m].snapshot

LEMMA QuietStep ==
    ASSUME TypesInv, PlacesInv, NEW m \in Managers, Quiet(m), EnvOf(m), handedOut \subseteq handedOut'
    PROVE  PlacesOf(m)' /\ Held(m)' = Held(m)
<1>1. Held(m)' = Held(m)
  BY DEF Quiet, Held
<1>2. Blank \notin Held(m)'
  BY <1>1, HeldFacts, Limits
<1>3. NewOk(m, Blank, Blank)
  BY <1>2 DEF NewOk
<1>4. /\ Sized(browsing[m])
      /\ DOMAIN activity[m].snapshot \subseteq DOMAIN browsing[m] \cup handedOut
  BY HeldFacts DEF Places, PlacesInv
<1>5. StepOf(m, Blank, Blank)
  BY <1>4 DEF StepOf, Quiet, Follows, Descends
<1> QED
  BY <1>1, <1>3, <1>5, PlacesStep

LEMMA TwoManagers ==
    /\ "admin" \in Managers /\ "user" \in Managers
    /\ \A m \in Managers : m = "admin" \/ m = "user"
BY DEF Managers

(* One manager opens, ends or sees sessions; the other's stay.             *)
LEMMA OneStep ==
    ASSUME TypesInv, PlacesInv, NEW m \in Managers, NEW t, NEW s,
           StepOf(m, t, s), NewOk(m, t, s), \A k \in Managers : EnvOf(k),
           \A k \in Managers \ {m} : Quiet(k), handedOut \subseteq handedOut',
           t \in Held(m)' => \A k \in Managers \ {m} : t \notin Held(k)
    PROVE  PlacesInv'
<1>1. PlacesOf(m)' /\ Held(m)' \subseteq Held(m) \cup {t}
  BY PlacesStep
<1>2. \A k \in Managers \ {m} : PlacesOf(k)' /\ Held(k)' = Held(k)
  BY QuietStep
<1>3. Held("admin") \cap Held("user") = {}
  BY PlacesApart
<1>4. (Held("admin") \cap Held("user"))' = {}
  <2>1. CASE m = "admin"
    BY <2>1, <1>1, <1>2, <1>3, TwoManagers
  <2>2. CASE m = "user"
    BY <2>2, <1>1, <1>2, <1>3, TwoManagers
  <2> QED
    BY <2>1, <2>2, TwoManagers
<1>5. \A k \in Managers : PlacesOf(k)'
  BY <1>1, <1>2
<1> QED
  BY <1>4, <1>5, PlacesApart, TwoManagers DEF PlacesInv, PlacesOf, Places, Held

(* No session is opened or seen.                                           *)
LEMMA NoStep ==
    ASSUME TypesInv, PlacesInv, \A k \in Managers : EnvOf(k),
           \A k \in Managers : StepOf(k, Blank, Blank) /\ Blank \notin Held(k)'
    PROVE  PlacesInv'
<1>1. \A k \in Managers : NewOk(k, Blank, Blank)
  BY DEF NewOk
<1>2. \A k \in Managers : PlacesOf(k)' /\ Held(k)' \subseteq Held(k) \cup {Blank}
  BY <1>1, PlacesStep
<1>3. (Held("admin") \cap Held("user"))' = {}
  BY <1>2, PlacesApart, TwoManagers
<1> QED
  BY <1>2, <1>3, PlacesApart, TwoManagers DEF PlacesInv, PlacesOf, Places, Held

LEMMA QuietIsStep ==
    ASSUME TypesInv, PlacesInv, NEW m \in Managers, Quiet(m), handedOut \subseteq handedOut'
    PROVE  StepOf(m, Blank, Blank) /\ Blank \notin Held(m)'
<1>1. Held(m)' = Held(m)
  BY DEF Quiet, Held
<1>2. /\ Sized(browsing[m])
      /\ DOMAIN activity[m].snapshot \subseteq DOMAIN browsing[m] \cup handedOut
  BY HeldFacts DEF Places, PlacesInv
<1> QED
  BY <1>1, <1>2, HeldFacts, Limits DEF StepOf, Quiet, Follows, Descends

(* What the environment keeps when accounts and tokens stay.               *)
SameAccounts == accounts' = accounts /\ identityFile'.accounts = identityFile.accounts

LEMMA EnvKept ==
    ASSUME TypesInv, PlacesInv, NEW m \in Managers,
           hour' = hour, promised' \in [Bearers -> Nat], SameAccounts,
           \A x \in Held(m) \cap Held(m)' : x \notin finished' \ finished,
           \A x \in Held(m) \cap Held(m)' :
              x \in Watched' => x \in Watched /\ promised[x] <= promised'[x]
    PROVE  EnvOf(m)
<1>1. \A x \in Held(m) :
          /\ x \notin finished
          /\ \A u \in EndUsers : x # accounts[u].invite /\ x # identityFile.accounts[u].invite
  <2>1. TAKE x \in Held(m)
  <2>2. PICK map \in Places(m) : x \in DOMAIN map
    BY DEF Held, Places
  <2>3. Lasting(m, x, map[x])
    BY <2>2, HeldFacts
  <2> QED
    BY <2>3 DEF Lasting
<1> QED
  BY <1>1 DEF EnvOf, SameAccounts, TypesInv

(* A token that is drawn was nowhere.                                      *)
LEMMA Drawn ==
    ASSUME TypesInv, PlacesInv, NEW t, drawn(t)
    PROVE  /\ t \in Bearers /\ t # Blank /\ t \notin handedOut /\ t \notin Watched /\ t \notin finished
           /\ \A m \in Managers : t \notin Held(m)
           /\ \A u \in EndUsers : t # accounts[u].invite /\ t # identityFile.accounts[u].invite
<1>1. t \in Bearers /\ t \notin inUse
  BY DEF drawn
<1> DEFINE open == UNION {DOMAIN browsing[m] \cup DOMAIN sessionFile[m].sessions : m \in Managers}
           invites == {accounts[u].invite : u \in EndUsers}
           filed == {identityFile.accounts[u].invite : u \in EndUsers}
           asked == {requests[r].token : r \in Requests}
<1>2. /\ t \notin handedOut /\ t \notin open /\ t \notin invites /\ t \notin filed /\ t \notin asked
  <2>1. inUse = handedOut \cup open \cup invites \cup filed \cup asked
    BY DEF inUse
  <2> HIDE DEF open, invites, filed, asked
  <2> QED
    BY <1>1, <2>1
<1>3. \A m \in Managers : t \notin DOMAIN browsing[m] /\ t \notin DOMAIN sessionFile[m].sessions
  BY <1>2
<1>4. \A m \in Managers : DOMAIN activity[m].snapshot \subseteq DOMAIN browsing[m] \cup handedOut
  BY DEF PlacesInv
<1>5. \A m \in Managers : t \notin Held(m)
  BY <1>2, <1>3, <1>4 DEF Held
<1> QED
  BY <1>1, <1>2, <1>5, Limits DEF TypesInv, Watched

(* A manager that is not writing the deadlines has no snapshot.            *)
LEMMA NoSnapshotNow ==
    ASSUME TypesInv, NEW m \in Managers, lifecycleFree(m)
    PROVE  activity[m].snapshot = NoSessions /\ DOMAIN activity[m].snapshot = {}
BY Emptied DEF TypesInv, lifecycleFree

LEMMA ScheduledSnapshots ==
    ASSUME TypesInv, NEW m \in Managers, activity' \in scheduled(m)
    PROVE  /\ \A k \in Managers : activity'[k].snapshot = activity[k].snapshot
           /\ DOMAIN activity' = Managers
           /\ \A k \in Managers :
                 /\ activity'[k] = [phase |-> activity'[k].phase, snapshot |-> activity'[k].snapshot]
                 /\ activity'[k].phase \in {"none", "due", "writing"}
                 /\ activity'[k].phase # "writing" => activity'[k].snapshot = NoSessions
<1>1. CASE activity' = activity
  BY <1>1 DEF TypesInv
<1>2. CASE activity[m].phase = "none" /\ activity' = [activity EXCEPT ![m].phase = "due"]
  <2>1. activity[m] = [phase |-> activity[m].phase, snapshot |-> activity[m].snapshot] /\ DOMAIN activity = Managers
        /\ activity[m].snapshot = NoSessions
    BY <1>2 DEF TypesInv
  <2>2. activity'[m] = [activity[m] EXCEPT !.phase = "due"] /\ DOMAIN activity' = Managers
        /\ \A k \in Managers \ {m} : activity'[k] = activity[k]
    BY <1>2, <2>1
  <2>3. activity'[m] = [phase |-> "due", snapshot |-> NoSessions]
    BY <2>1, <2>2
  <2> QED
    BY <2>1, <2>2, <2>3 DEF TypesInv
<1> QED
  BY <1>1, <1>2 DEF scheduled

LEMMA Touched ==
    ASSUME TypesInv, NEW m \in Managers, NEW t \in DOMAIN browsing[m], browsing[m][t] \in SessionRecord
    PROVE  /\ DOMAIN touched(m, t) = Managers
           /\ \A k \in Managers \ {m} : touched(m, t)[k] = browsing[k]
           /\ DOMAIN touched(m, t)[m] = DOMAIN browsing[m]
           /\ \A x \in DOMAIN browsing[m] \ {t} : touched(m, t)[m][x] = browsing[m][x]
           /\ touched(m, t)[m][t] = [browsing[m][t] EXCEPT !.seen = hour]
           /\ touched(m, t)[m][t] \in SessionRecord
           /\ touched(m, t)[m][t].seen = hour
           /\ touched(m, t)[m][t].owner = browsing[m][t].owner
           /\ touched(m, t)[m][t].rev = browsing[m][t].rev
           /\ touched(m, t)[m][t].secret = browsing[m][t].secret
<1>1. DOMAIN browsing = Managers /\ hour \in Nat
  BY DEF TypesInv
<1>2. touched(m, t) = [browsing EXCEPT ![m] = [browsing[m] EXCEPT ![t] = [browsing[m][t] EXCEPT !.seen = hour]]]
  BY DEF touched
<1>3. touched(m, t)[m] = [browsing[m] EXCEPT ![t] = [browsing[m][t] EXCEPT !.seen = hour]]
      /\ DOMAIN touched(m, t) = Managers
      /\ \A k \in Managers \ {m} : touched(m, t)[k] = browsing[k]
  BY <1>1, <1>2
<1>4. DOMAIN touched(m, t)[m] = DOMAIN browsing[m]
      /\ touched(m, t)[m][t] = [browsing[m][t] EXCEPT !.seen = hour]
      /\ \A x \in DOMAIN browsing[m] \ {t} : touched(m, t)[m][x] = browsing[m][x]
  BY <1>3
<1>5. /\ [browsing[m][t] EXCEPT !.seen = hour] \in SessionRecord
      /\ [browsing[m][t] EXCEPT !.seen = hour].seen = hour
      /\ [browsing[m][t] EXCEPT !.seen = hour].owner = browsing[m][t].owner
      /\ [browsing[m][t] EXCEPT !.seen = hour].rev = browsing[m][t].rev
      /\ [browsing[m][t] EXCEPT !.seen = hour].secret = browsing[m][t].secret
  BY <1>1 DEF SessionRecord
<1> QED
  BY <1>3, <1>4, <1>5

(* A deadline that is renewed is not earlier than it was.                  *)
LEMMA Renewed ==
    ASSUME TypesInv, NEW t \in Bearers, promised' = renewed(t), hour' = hour
    PROVE  /\ promised' \in [Bearers -> Nat] /\ promised'[t] = hour + IdleTimeout
           /\ \A x \in Bearers : promised[x] <= promised'[x] /\ promised'[x] <= hour' + IdleTimeout
BY Limits DEF TypesInv, renewed

(* A manager opens a session, or fails to write that it has.               *)
LEMMA CreateStep ==
    ASSUME TypesInv, PlacesInv, NEW m \in Managers, NEW t, drawn(t), NEW s \in SessionRecord, s.seen <= hour,
           NEW outcome, createSession(m, t, s, outcome), lifecycleFree(m), activity' = activity, hour' = hour
    PROVE  /\ StepOf(m, t, s) /\ \A k \in Managers \ {m} : Quiet(k)
           /\ promised' \in [Bearers -> Nat]
           /\ \A x \in Bearers : promised'[x] <= hour' + IdleTimeout
           /\ \A x \in Bearers \ {t} : promised'[x] = promised[x]
           /\ outcome = "written" => promised'[t] = expiresAt(s)
           /\ outcome # "written" => t \notin DOMAIN browsing'[m]
           /\ DOMAIN browsing' = Managers /\ DOMAIN sessionFile' = Managers
           /\ \A k \in Managers :
                 sessionFile'[k] = [binding |-> sessionFile'[k].binding, sessions |-> sessionFile'[k].sessions]
<1>t. /\ DOMAIN browsing = Managers /\ DOMAIN sessionFile = Managers /\ promised \in [Bearers -> Nat]
      /\ \A x \in Bearers : promised[x] <= hour + IdleTimeout
      /\ \A k \in Managers :
            sessionFile[k] = [binding |-> sessionFile[k].binding, sessions |-> sessionFile[k].sessions]
  BY DEF TypesInv
<1>d. t \in Bearers /\ \A k \in Managers : t \notin Held(k)
  BY Drawn
<1>1. PICK room \in roomIn(purged(browsing[m], s.seen)) :
         /\ persistSessionSnapshot(m, outcome, Admits(room, t, s), boundTo(m))
         /\ browsing' = [browsing EXCEPT ![m] = IF outcome = "written" THEN Admits(room, t, s)
                                                ELSE IF m = "user" THEN room ELSE @]
         /\ promised' = [promised EXCEPT ![t] = IF outcome = "written" THEN expiresAt(s) ELSE @]
  BY DEF createSession, Admits
<1>2. Sized(browsing[m])
  BY HeldFacts DEF Places
<1>3. /\ Follows(Admits(room, t, s), browsing[m], t, s) /\ Sized(Admits(room, t, s)) /\ Descends(room, browsing[m]) /\ Sized(room)
  BY <1>1, <1>2, Admitted
<1>4. /\ DOMAIN browsing' = Managers /\ \A k \in Managers \ {m} : browsing'[k] = browsing[k]
      /\ \/ outcome = "written" /\ browsing'[m] = Admits(room, t, s)
         \/ outcome # "written" /\ browsing'[m] = room
         \/ outcome # "written" /\ browsing'[m] = browsing[m]
  BY <1>1, <1>t
<1>5. /\ Follows(browsing'[m], browsing[m], t, s) /\ Sized(browsing'[m])
      /\ outcome # "written" => t \notin DOMAIN browsing'[m]
  BY <1>2, <1>3, <1>4, <1>d, DescendsFollows DEF Follows, Held, Descends
<1>6. /\ DOMAIN sessionFile' = Managers /\ \A k \in Managers \ {m} : sessionFile'[k] = sessionFile[k]
      /\ \/ sessionFile'[m] = sessionFile[m]
         \/ sessionFile'[m] = [binding |-> boundTo(m), sessions |-> Admits(room, t, s)]
  BY <1>1, <1>t DEF persistSessionSnapshot, replaced
<1>7. \/ /\ sessionFile'[m].binding = sessionFile[m].binding
         /\ Descends(sessionFile'[m].sessions, sessionFile[m].sessions)
      \/ /\ sessionFile'[m].binding = boundTo(m) /\ Sized(sessionFile'[m].sessions)
         /\ Follows(sessionFile'[m].sessions, browsing[m], t, s)
  BY <1>6, <1>3 DEF Descends
<1>8. activity'[m].snapshot = activity[m].snapshot /\ DOMAIN activity'[m].snapshot = {}
  BY NoSnapshotNow
<1>9. StepOf(m, t, s)
  BY <1>5, <1>7, <1>8 DEF StepOf, Descends
<1>10. \A k \in Managers \ {m} : Quiet(k)
  BY <1>4, <1>6 DEF Quiet
<1>11. expiresAt(s) \in Nat /\ expiresAt(s) <= hour + IdleTimeout /\ hour \in Nat
  BY Limits DEF expiresAt, SessionRecord, TypesInv
<1>12. /\ promised' \in [Bearers -> Nat]
       /\ \A x \in Bearers : promised'[x] <= hour' + IdleTimeout
       /\ \A x \in Bearers \ {t} : promised'[x] = promised[x]
       /\ outcome = "written" => promised'[t] = expiresAt(s)
  BY <1>1, <1>t, <1>d, <1>11
<1>13. \A k \in Managers :
          sessionFile'[k] = [binding |-> sessionFile'[k].binding, sessions |-> sessionFile'[k].sessions]
  BY <1>6, <1>t
<1> QED
  BY <1>4, <1>5, <1>6, <1>9, <1>10, <1>12, <1>13

(* A session that is seen.                                                 *)
LEMMA SeenStep ==
    ASSUME TypesInv, PlacesInv, NEW m \in Managers, NEW t \in DOMAIN browsing[m],
           browsing' = touched(m, t), activity' \in scheduled(m), sessionFile' = sessionFile,
           handedOut \subseteq handedOut'
    PROVE  /\ StepOf(m, t, touched(m, t)[m][t]) /\ \A k \in Managers \ {m} : Quiet(k)
           /\ DOMAIN browsing' = Managers
<1>1. Sized(browsing[m]) /\ browsing[m][t] \in SessionRecord
  BY HeldFacts DEF Places
<1>2. /\ DOMAIN browsing' = Managers /\ DOMAIN browsing'[m] = DOMAIN browsing[m]
      /\ \A k \in Managers \ {m} : browsing'[k] = browsing[k]
      /\ \A x \in DOMAIN browsing[m] \ {t} : browsing'[m][x] = browsing[m][x]
  BY <1>1, Touched
<1>3. \A k \in Managers : activity'[k].snapshot = activity[k].snapshot
  BY ScheduledSnapshots
<1>4. DOMAIN activity[m].snapshot \subseteq DOMAIN browsing[m] \cup handedOut
  BY DEF PlacesInv
<1>5. Sized(browsing'[m])
  BY <1>1, <1>2 DEF Sized
<1> QED
  BY <1>1, <1>2, <1>3, <1>4, <1>5 DEF StepOf, Quiet, Follows, Descends

(* A session that is logged out, or fails to be.                           *)
LEMMA RemovedStep ==
    ASSUME TypesInv, PlacesInv, NEW m \in Managers, NEW t \in DOMAIN browsing[m], NEW outcome,
           Removed(m, t, outcome), handedOut' = handedOut
    PROVE  /\ StepOf(m, t, touched(m, t)[m][t]) /\ \A k \in Managers \ {m} : Quiet(k)
           /\ outcome = "written" => t \notin Held(m)'
           /\ DOMAIN browsing' = Managers /\ DOMAIN sessionFile' = Managers
           /\ \A k \in Managers :
                 sessionFile'[k] = [binding |-> sessionFile'[k].binding, sessions |-> sessionFile'[k].sessions]
<1>t. /\ DOMAIN browsing = Managers /\ DOMAIN sessionFile = Managers
      /\ \A k \in Managers :
            sessionFile[k] = [binding |-> sessionFile[k].binding, sessions |-> sessionFile[k].sessions]
  BY DEF TypesInv
<1> DEFINE seen == touched(m, t)
           kept == without(seen[m], {t})
<1>1. Sized(browsing[m]) /\ browsing[m][t] \in SessionRecord
  BY HeldFacts DEF Places
<1>2. /\ DOMAIN seen = Managers /\ DOMAIN seen[m] = DOMAIN browsing[m]
      /\ \A k \in Managers \ {m} : seen[k] = browsing[k]
      /\ \A x \in DOMAIN browsing[m] \ {t} : seen[m][x] = browsing[m][x]
  BY <1>1, Touched
<1>3. Descends(kept, seen[m]) /\ DOMAIN kept = DOMAIN seen[m] \ {t}
  BY WithoutDescends
<1>4. persistSessionSnapshot(m, outcome, kept, boundTo(m)) /\ lifecycleFree(m) /\ activity' \in scheduled(m)
      /\ browsing' = [seen EXCEPT ![m] = IF outcome = "written" THEN kept ELSE seen[m]]
  BY DEF Removed
<1> HIDE DEF seen
<1>5. /\ DOMAIN browsing' = Managers /\ \A k \in Managers \ {m} : browsing'[k] = browsing[k]
      /\ browsing'[m] = IF outcome = "written" THEN kept ELSE seen[m]
  BY <1>2, <1>4
<1> HIDE DEF kept
<1>6. /\ DOMAIN sessionFile' = Managers /\ \A k \in Managers \ {m} : sessionFile'[k] = sessionFile[k]
      /\ \/ outcome # "written" /\ sessionFile'[m] = sessionFile[m]
         \/ sessionFile'[m] = [binding |-> boundTo(m), sessions |-> kept]
  BY <1>4, <1>t DEF persistSessionSnapshot, replaced
<1>7. \A k \in Managers : activity'[k].snapshot = activity[k].snapshot
  BY <1>4, ScheduledSnapshots
<1>8. DOMAIN activity[m].snapshot = {}
  BY <1>4, NoSnapshotNow
<1>9. Descends(kept, browsing[m]) /\ Sized(kept)
  BY <1>1, <1>2, <1>3, DescendsSized DEF Descends
<1>10. /\ Follows(browsing'[m], browsing[m], t, touched(m, t)[m][t]) /\ Sized(browsing'[m])
       /\ outcome = "written" => t \notin DOMAIN browsing'[m]
  BY <1>1, <1>2, <1>3, <1>5, <1>9 DEF Follows, Descends, Sized, seen
<1>11. \/ /\ sessionFile'[m].binding = sessionFile[m].binding
          /\ Descends(sessionFile'[m].sessions, sessionFile[m].sessions)
       \/ /\ sessionFile'[m].binding = boundTo(m) /\ Sized(sessionFile'[m].sessions)
          /\ Follows(sessionFile'[m].sessions, browsing[m], t, touched(m, t)[m][t])
  BY <1>6, <1>9, DescendsFollows DEF Descends
<1>12. StepOf(m, t, touched(m, t)[m][t])
  BY <1>7, <1>8, <1>10, <1>11 DEF StepOf, Descends
<1>13. \A k \in Managers \ {m} : Quiet(k)
  BY <1>5, <1>6, <1>7 DEF Quiet
<1>14. outcome = "written" => t \notin DOMAIN sessionFile'[m].sessions
  BY <1>3, <1>6
<1>15. outcome = "written" => t \notin Held(m)'
  BY <1>7, <1>8, <1>10, <1>14 DEF Held
<1>16. \A k \in Managers :
          sessionFile'[k] = [binding |-> sessionFile'[k].binding, sessions |-> sessionFile'[k].sessions]
  BY <1>6, <1>t
<1> QED
  BY <1>5, <1>6, <1>12, <1>13, <1>15, <1>16

-----------------------------------------------------------------------------
(* The requests and the gate of the derivation.                            *)

LEMMA IdleRequest ==
    /\ noRequest \in RequestRecord /\ RequestOk(noRequest) /\ RequestOk(noRequest)'
    /\ noRequest.stage = "none" /\ noRequest.token = Blank
BY DEF noRequest, RequestRecord, RequestOk

(* What a request knows stays true while others run.                       *)
RequestsMay ==
    /\ hour' \in Nat /\ hour <= hour' /\ operator' = operator
    /\ storeUsers' \subseteq storeUsers /\ handedOut \subseteq handedOut'

LEMMA RequestStays ==
    ASSUME TypesInv, RequestsMay, NEW req \in RequestRecord, RequestOk(req)
    PROVE  RequestOk(req)'
<1>1. req.now \in Nat /\ hour \in Nat
  BY DEF RequestRecord, TypesInv
<1>2. req.now <= hour => req.now <= hour'
  BY <1>1 DEF RequestsMay
<1>3. req.token \in handedOut => req.token \in handedOut'
  BY DEF RequestsMay
<1>4. req.owner \notin storeUsers => req.owner \notin storeUsers'
  BY DEF RequestsMay
<1> QED
  BY <1>2, <1>3, <1>4 DEF RequestOk, RequestsMay

LEMMA RequestsStay ==
    ASSUME TypesInv, RequestsInv, RequestsMay, requests' = requests
    PROVE  RequestsInv'
BY RequestStays DEF RequestsInv, TypesInv

(* One request goes on.                                                    *)
LEMMA RequestStep ==
    ASSUME TypesInv, RequestsInv, RequestsMay, NEW r \in Requests, NEW req \in RequestRecord,
           request(r, req), RequestOk(req)'
    PROVE  /\ RequestsInv' /\ requests' \in [Requests -> RequestRecord]
           /\ Watched' \subseteq Watched \cup handedOut' \cup {req.token}
<1>1. requests' = [requests EXCEPT ![r] = req] /\ requests \in [Requests -> RequestRecord]
  BY DEF request, TypesInv
<1>2. requests' \in [Requests -> RequestRecord] /\ requests'[r] = req
      /\ \A q \in Requests \ {r} : requests'[q] = requests[q]
  BY <1>1
<1>3. \A q \in Requests \ {r} : RequestOk(requests[q])'
  <2>1. TAKE q \in Requests \ {r}
  <2>2. requests[q] \in RequestRecord /\ RequestOk(requests[q]) /\ requests'[q] = requests[q]
    BY <1>1, <1>2 DEF RequestsInv
  <2>3. ASSUME NEW x \in RequestRecord, RequestOk(x)
        PROVE  RequestOk(x)'
    BY <2>3, RequestStays
  <2>4. PICK x \in RequestRecord : x = requests[q] /\ RequestOk(x)
    BY <2>2
  <2>5. RequestOk(x)' /\ requests'[q] = x
    BY <2>2, <2>3, <2>4
  <2> QED
    BY <2>5 DEF RequestOk
<1>4. RequestsInv'
  BY <1>2, <1>3 DEF RequestsInv, RequestOk
<1>5. Watched' \subseteq Watched \cup handedOut' \cup {req.token}
  BY <1>2 DEF Watched
<1> QED
  BY <1>2, <1>4, <1>5

(* The gate and the request that goes on.                                  *)
LEMMA GateStep ==
    ASSUME TypesInv, GateInv, NEW r \in Requests, NEW req \in RequestRecord, request(r, req),
           \/ gate' = gate /\ requests[r].stage # "deriving" /\ req.stage # "deriving"
           \/ gate = 0 /\ gate' = 1 /\ req.stage = "deriving"
           \/ requests[r].stage = "deriving" /\ gate' = 0 /\ req.stage # "deriving"
    PROVE  GateInv'
<1>1. /\ \A q \in Requests \ {r} : requests'[q] = requests[q]
      /\ requests'[r] = req
  BY DEF request, TypesInv
<1>2. CASE gate' = gate /\ requests[r].stage # "deriving" /\ req.stage # "deriving"
  <2>1. Deriving' = Deriving
    BY <1>1, <1>2 DEF Deriving
  <2> QED
    BY <1>2, <2>1 DEF GateInv
<1>3. CASE gate = 0 /\ gate' = 1 /\ req.stage = "deriving"
  <2>1. Deriving = {}
    BY <1>3 DEF GateInv
  <2>2. Deriving' = {r}
    BY <1>1, <1>3, <2>1 DEF Deriving
  <2> QED
    BY <1>3, <2>2 DEF GateInv
<1>4. CASE requests[r].stage = "deriving" /\ gate' = 0 /\ req.stage # "deriving"
  <2>1. r \in Deriving
    BY <1>4 DEF Deriving
  <2>2. Deriving = {r}
    BY <2>1 DEF GateInv
  <2>3. Deriving' = {}
    BY <1>1, <1>4, <2>2 DEF Deriving
  <2> QED
    BY <1>4, <2>3 DEF GateInv
<1> QED
  BY <1>2, <1>3, <1>4

(* A request waits for the gate, enters it or is refused.                  *)
LEMMA AcquireStep ==
    ASSUME TypesInv, GateInv, RequestsInv, RequestsMay, NEW r \in Requests, NEW req \in RequestRecord,
           requests[r].stage # "deriving", acquirePasswordKDF(r, req),
           \A st \in {"waiting", "deriving"} : RequestOk([req EXCEPT !.stage = st])'
    PROVE  /\ RequestsInv' /\ GateInv' /\ requests' \in [Requests -> RequestRecord]
           /\ Watched' \subseteq Watched \cup handedOut' \cup {req.token, Blank}
<1>1. \A st \in {"waiting", "deriving"} :
         /\ [req EXCEPT !.stage = st] \in RequestRecord
         /\ [req EXCEPT !.stage = st].stage = st /\ [req EXCEPT !.stage = st].token = req.token
  BY DEF RequestRecord
<1>2. CASE gate = 0
  <2>1. gate' = 1 /\ request(r, [req EXCEPT !.stage = "deriving"])
    BY <1>2 DEF acquirePasswordKDF
  <2>2. GateInv'
    BY <1>1, <1>2, <2>1, GateStep
  <2> QED
    BY <1>1, <2>1, <2>2, RequestStep
<1>3. CASE gate # 0
  <2>1. gate' = gate /\ \/ request(r, [req EXCEPT !.stage = "waiting"])
                        \/ request(r, noRequest)
    BY <1>3 DEF acquirePasswordKDF
  <2>2. CASE request(r, [req EXCEPT !.stage = "waiting"])
    <3>1. GateInv'
      BY <1>1, <2>1, <2>2, GateStep
    <3> QED
      BY <1>1, <2>2, <3>1, RequestStep
  <2>3. CASE request(r, noRequest)
    <3>1. GateInv'
      BY <2>1, <2>3, GateStep, IdleRequest
    <3> QED
      BY <2>3, <3>1, RequestStep, IdleRequest
  <2> QED
    BY <2>1, <2>2, <2>3
<1> QED
  BY <1>2, <1>3

-----------------------------------------------------------------------------
(* A step of the running Master that leaves the identities alone.          *)

KeepsIdentity ==
    /\ serving /\ serving' /\ hour' = hour
    /\ identityFile' = identityFile /\ legacyFile' = legacyFile /\ accounts' = accounts
    /\ operator' = operator /\ binding' = binding

LEMMA StandingKept ==
    ASSUME TypesInv, StandingInv, KeepsIdentity, storeUsers' \subseteq storeUsers,
           \A t \in finished', u \in EndUsers : t # accounts[u].invite /\ t # identityFile.accounts[u].invite
    PROVE  StandingInv'
BY DEF StandingInv, KeepsIdentity, unifiedDocument, loadUnifiedIdentities, Known

MapsTyped ==
    /\ DOMAIN browsing = Managers /\ DOMAIN sessionFile = Managers /\ DOMAIN activity = Managers
    /\ \A m \in Managers :
          /\ sessionFile[m] = [binding |-> sessionFile[m].binding, sessions |-> sessionFile[m].sessions]
          /\ activity[m] = [phase |-> activity[m].phase, snapshot |-> activity[m].snapshot]
          /\ activity[m].phase \in {"none", "due", "writing"}
          /\ activity[m].phase # "writing" => activity[m].snapshot = NoSessions

LEMMA TypesKept ==
    ASSUME TypesInv, KeepsIdentity, storeUsers' \subseteq storeUsers,
           handedOut' \subseteq Bearers, finished' \subseteq handedOut', promised' \in [Bearers -> Nat],
           \A t \in Bearers : promised'[t] <= hour' + IdleTimeout,
           requests' \in [Requests -> RequestRecord], MapsTyped'
    PROVE  TypesInv'
BY DEF TypesInv, KeepsIdentity, MapsTyped, IsBook, IsAccounts

(* The session that is opened or seen has its owner's credential.          *)
NewCredential(m, t, s) ==
    t \in Held(m)' =>
        IF m = "admin" THEN s.secret = operator.secret /\ s.rev = operator.rev
        ELSE /\ s.owner \in storeUsers =>
                   Vouched(s, identityFile.accounts[s.owner]) /\ Vouched(s, accounts[s.owner])
             /\ accounts[s.owner].rev = 0 \/ Vouched(s, accounts[s.owner])

LEMMA CredentialKept ==
    ASSUME TypesInv, StandingInv, CredentialInv, KeepsIdentity, storeUsers' \subseteq storeUsers,
           NEW m \in Managers, NEW t, NEW s, StepOf(m, t, s), NewCredential(m, t, s),
           \A k \in Managers \ {m} : Quiet(k)
    PROVE  CredentialInv'
<1>s. /\ serving /\ serving' /\ identityFile' = identityFile /\ accounts' = accounts
      /\ operator' = operator /\ binding' = binding
  BY DEF KeepsIdentity
<1>h. /\ DOMAIN browsing'[m] \subseteq Held(m)' /\ DOMAIN activity'[m].snapshot \subseteq Held(m)'
      /\ DOMAIN sessionFile'[m].sessions \subseteq Held(m)'
  BY DEF Held
<1>p. Places(m) = {browsing[m], sessionFile[m].sessions, activity[m].snapshot}
      /\ Places(m)' = {browsing'[m], sessionFile'[m].sessions, activity'[m].snapshot}
  BY DEF Places
<1>f. \A map \in Places(m)' : /\ DOMAIN map \subseteq Held(m)'
                              /\ \E old \in Places(m) : Follows(map, old, t, s)
  <2>1. \E old \in Places(m) : Follows(browsing'[m], old, t, s)
    BY <1>p DEF StepOf
  <2>2. \E old \in Places(m) : Follows(sessionFile'[m].sessions, old, t, s)
    BY <1>p, DescendsFollows DEF StepOf
  <2>3. \E old \in Places(m) : Follows(activity'[m].snapshot, old, t, s)
    BY <1>p, DescendsFollows DEF StepOf
  <2> QED
    BY <1>h, <1>p, <2>1, <2>2, <2>3
<1>a. /\ \A map \in {browsing["admin"], activity["admin"].snapshot} : \A x \in DOMAIN map :
            map[x].secret = operator.secret /\ map[x].rev = operator.rev
      /\ \A x \in DOMAIN sessionFile["admin"].sessions :
            BoundTo(sessionFile["admin"].binding, sessionFile["admin"].sessions[x])
      /\ \A map \in Places("user") : \A x \in DOMAIN map : map[x].owner \in storeUsers =>
            Vouched(map[x], identityFile.accounts[map[x].owner]) /\ Vouched(map[x], accounts[map[x].owner])
      /\ \A x \in DOMAIN browsing["user"] :
            \/ accounts[browsing["user"][x].owner].rev = 0
            \/ Vouched(browsing["user"][x], accounts[browsing["user"][x].owner])
  BY <1>s DEF CredentialInv
<1>1. \A map \in {browsing["admin"], activity["admin"].snapshot}' : \A x \in DOMAIN map :
          map[x].secret = operator'.secret /\ map[x].rev = operator'.rev
  <2>1. CASE m = "admin"
    <3>1. Follows(browsing'["admin"], browsing["admin"], t, s)
      BY <2>1 DEF StepOf
    <3>2. \/ Follows(activity'["admin"].snapshot, browsing["admin"], t, s)
          \/ Follows(activity'["admin"].snapshot, activity["admin"].snapshot, t, s)
      BY <2>1, DescendsFollows DEF StepOf
    <3>3. t \in Held("admin")' => s.secret = operator.secret /\ s.rev = operator.rev
      BY <2>1 DEF NewCredential
    <3> QED
      BY <1>a, <1>s, <1>h, <2>1, <3>1, <3>2, <3>3 DEF Follows
  <2>2. CASE m = "user"
    BY <1>a, <1>s, <2>2, TwoManagers DEF Quiet
  <2> QED
    BY <2>1, <2>2, TwoManagers
<1>2. \A x \in DOMAIN sessionFile'["admin"].sessions :
          BoundTo(sessionFile["admin"].binding, sessionFile["admin"].sessions[x])'
  <2>1. CASE /\ m = "admin" /\ sessionFile'[m].binding = sessionFile[m].binding
             /\ Descends(sessionFile'[m].sessions, sessionFile[m].sessions)
    BY <1>a, <1>s, <2>1 DEF Descends, BoundTo
  <2>2. CASE /\ m = "admin" /\ sessionFile'[m].binding = boundTo(m)
             /\ \/ Follows(sessionFile'[m].sessions, browsing[m], t, s)
                \/ Descends(sessionFile'[m].sessions, activity[m].snapshot)
    <3>1. binding = <<binding[1], operator, binding[3]>> /\ binding[1] \in {2, 3}
          /\ (binding[1] = 3 => binding[3] = NoAccounts) /\ identityFile.admin = operator
      BY <1>s DEF StandingInv
    <3>2. operator.rev \in Nat
      BY DEF TypesInv, AdminRecord
    <3>3. \/ Follows(sessionFile'["admin"].sessions, browsing["admin"], t, s)
          \/ Follows(sessionFile'["admin"].sessions, activity["admin"].snapshot, t, s)
      BY <2>2, DescendsFollows
    <3>4. t \in Held("admin")' => s.secret = operator.secret /\ s.rev = operator.rev
      BY <2>2 DEF NewCredential
    <3>5. \A x \in DOMAIN sessionFile'["admin"].sessions :
             /\ sessionFile'["admin"].sessions[x].secret = operator.secret
             /\ sessionFile'["admin"].sessions[x].rev = operator.rev
      BY <1>a, <1>h, <2>2, <3>3, <3>4 DEF Follows
    <3>6. binding[2] = operator
      BY <3>1
    <3>7. sessionFile'["admin"].binding = binding
      BY <2>2 DEF boundTo
    <3> QED
      BY <1>s, <3>1, <3>2, <3>5, <3>6, <3>7 DEF BoundTo
  <2>3. CASE m = "user"
    <3>1. sessionFile'["admin"] = sessionFile["admin"]
      BY <2>3, TwoManagers DEF Quiet
    <3> QED
      BY <1>a, <1>s, <3>1 DEF BoundTo
  <2> QED
    BY <2>1, <2>2, <2>3, TwoManagers DEF StepOf
<1>3. \A map \in Places("user")' : \A x \in DOMAIN map : map[x].owner \in storeUsers' =>
          /\ Vouched(map[x], identityFile.accounts[map[x].owner])
          /\ Vouched(map[x], accounts[map[x].owner])
  <2>1. CASE m = "user"
    <3>1. TAKE map \in Places("user")'
    <3>2. TAKE x \in DOMAIN map
    <3>3. PICK old \in Places("user") : Follows(map, old, t, s)
      BY <1>f, <2>1
    <3>4. CASE x \in DOMAIN old /\ map[x] = old[x]
      BY <1>a, <3>4
    <3>5. CASE x = t /\ map[x] = s
      <4>1. t \in Held("user")'
        BY <1>f, <2>1, <3>5
      <4> QED
        BY <2>1, <3>5, <4>1 DEF NewCredential
    <3> QED
      BY <3>3, <3>4, <3>5 DEF Follows
  <2>2. CASE m = "admin"
    <3>1. Places("user")' = Places("user")
      BY <2>2, TwoManagers DEF Quiet, Places
    <3> QED
      BY <1>a, <3>1
  <2> QED
    BY <2>1, <2>2, TwoManagers
<1>4. \A x \in DOMAIN browsing'["user"] :
          \/ accounts[browsing'["user"][x].owner].rev = 0
          \/ Vouched(browsing'["user"][x], accounts[browsing'["user"][x].owner])
  <2>1. CASE m = "user"
    <3>1. Follows(browsing'["user"], browsing["user"], t, s)
      BY <2>1 DEF StepOf
    <3>2. t \in Held("user")' => accounts[s.owner].rev = 0 \/ Vouched(s, accounts[s.owner])
      BY <2>1 DEF NewCredential
    <3> QED
      BY <1>a, <1>h, <2>1, <3>1, <3>2 DEF Follows
  <2>2. CASE m = "admin"
    BY <1>a, <2>2, TwoManagers DEF Quiet
  <2> QED
    BY <2>1, <2>2, TwoManagers
<1>5. \A map \in Places("user")' : \A x \in DOMAIN map : map[x].owner \in storeUsers' =>
          /\ Vouched(map[x], identityFile'.accounts[map[x].owner])
          /\ serving' => Vouched(map[x], accounts'[map[x].owner])
  BY <1>3, <1>s
<1>6. \A x \in DOMAIN browsing'["user"] :
          LET z == browsing'["user"][x]
          IN  accounts'[z.owner].rev = 0 \/ Vouched(z, accounts'[z.owner])
  BY <1>4, <1>s
<1> QED
  BY <1>1, <1>2, <1>5, <1>6 DEF CredentialInv, Vouched

(* The running Master's step as a whole: one manager's sessions, some      *)
(* requests, and deleted users.                                            *)
LEMMA RunningStep ==
    ASSUME WebInv, KeepsIdentity, storeUsers' \subseteq storeUsers,
           handedOut \subseteq handedOut', handedOut' \subseteq Bearers, finished' \subseteq handedOut',
           promised' \in [Bearers -> Nat], \A x \in Bearers : promised'[x] <= hour' + IdleTimeout,
           requests' \in [Requests -> RequestRecord], MapsTyped', RequestsInv', GateInv',
           NEW m \in Managers, NEW t, NEW s, StepOf(m, t, s), \A k \in Managers \ {m} : Quiet(k),
           NewOk(m, t, s), NewCredential(m, t, s),
           t \in Held(m)' => \A k \in Managers \ {m} : t \notin Held(k),
           \A x \in finished' \ finished : x \in Held("admin") \cup Held("user"),
           \A k \in Managers : \A x \in Held(k) \cap Held(k)' :
              /\ x \notin finished' \ finished
              /\ x \in Watched' => x \in Watched /\ promised[x] <= promised'[x]
    PROVE  WebInv'
<1>0. TypesInv /\ StandingInv /\ PlacesInv /\ CredentialInv
  BY DEF WebInv
<1>1. hour' = hour /\ SameAccounts
  BY DEF KeepsIdentity, SameAccounts
<1>2. \A k \in Managers : EnvOf(k)
  BY <1>0, <1>1, EnvKept
<1>3. PlacesInv'
  BY <1>0, <1>2, OneStep
<1>4. \A x \in finished', u \in EndUsers : x # accounts[u].invite /\ x # identityFile.accounts[u].invite
  <2>1. TAKE x \in finished', u \in EndUsers
  <2>2. CASE x \in finished
    BY <1>0, <2>2 DEF StandingInv
  <2>3. CASE x \notin finished
    <3>1. PICK k \in Managers : x \in Held(k)
      BY <2>1, <2>3, TwoManagers
    <3>2. PICK map \in Places(k) : x \in DOMAIN map
      BY <3>1 DEF Held, Places
    <3>3. Lasting(k, x, map[x])
      BY <1>0, <3>2, HeldFacts
    <3> QED
      BY <3>3 DEF Lasting
  <2> QED
    BY <2>2, <2>3
<1>5. StandingInv'
  BY <1>0, <1>4, StandingKept
<1>6. TypesInv'
  BY <1>0, TypesKept
<1>7. CredentialInv'
  BY <1>0, CredentialKept
<1> QED
  BY <1>3, <1>5, <1>6, <1>7 DEF WebInv

(* Requests go on and no session changes.                                  *)
LEMMA RequestsRun ==
    ASSUME WebInv, serving, kdfFrame, requests' \in [Requests -> RequestRecord],
           RequestsInv', GateInv', Watched' \subseteq Watched \cup {Blank}
    PROVE  WebInv'
<1>0. TypesInv /\ StandingInv /\ PlacesInv /\ CredentialInv
  BY DEF WebInv
<1>1. /\ KeepsIdentity /\ storeUsers' = storeUsers /\ handedOut' = handedOut /\ finished' = finished
      /\ promised' = promised /\ browsing' = browsing /\ sessionFile' = sessionFile /\ activity' = activity
  BY DEF kdfFrame, KeepsIdentity
<1>2. \A k \in Managers : Quiet(k)
  BY <1>1 DEF Quiet
<1>3. StepOf("user", Blank, Blank) /\ Blank \notin Held("user")'
  BY <1>0, <1>1, <1>2, QuietIsStep, TwoManagers
<1>4. NewOk("user", Blank, Blank) /\ NewCredential("user", Blank, Blank)
  BY <1>3 DEF NewOk, NewCredential
<1>5. /\ MapsTyped' /\ handedOut' \subseteq Bearers /\ finished' \subseteq handedOut' /\ promised' \in [Bearers -> Nat]
      /\ \A x \in Bearers : promised'[x] <= hour' + IdleTimeout
  BY <1>0, <1>1 DEF TypesInv, MapsTyped, KeepsIdentity
<1>6. \A k \in Managers : \A x \in Held(k) \cap Held(k)' :
         /\ x \notin finished' \ finished
         /\ x \in Watched' => x \in Watched /\ promised[x] <= promised'[x]
  <2>1. \A k \in Managers : Held(k) \subseteq Bearers
    BY <1>0, HeldFacts
  <2>2. \A x \in Bearers : promised[x] \in Nat
    BY <1>0 DEF TypesInv
  <2> QED
    BY <1>1, <2>1, <2>2, Limits
<1> QED
  BY <1>1, <1>2, <1>3, <1>4, <1>5, <1>6, RunningStep, TwoManagers

-----------------------------------------------------------------------------
(* Logins and claims until the password is derived.                        *)

LEMMA KdfKeeps ==
    ASSUME TypesInv, kdfFrame
    PROVE  /\ RequestsMay /\ hour' = hour /\ operator' = operator /\ storeUsers' = storeUsers
           /\ handedOut' = handedOut
BY DEF TypesInv, kdfFrame, RequestsMay

(* A request that is not idle runs in a Master that does.                  *)
LEMMA RequestRuns ==
    ASSUME TypesInv, StandingInv, NEW r \in Requests, requests[r].stage # "none"
    PROVE  serving
BY IdleRequest DEF StandingInv, TypesInv

(* A fresh request.                                                        *)
AskedAt(op, n, k, x) == [noRequest EXCEPT !.op = op, !.name = n, !.secret = k, !.now = x]
AskedWith(op, n, k, x) == [noRequest EXCEPT !.op = op, !.name = n, !.secret = k, !.token = x]

LEMMA Asked ==
    ASSUME NEW op, NEW n, NEW k, NEW x
    PROVE  /\ AskedAt(op, n, k, x)
                = [stage |-> "none", op |-> op, name |-> n, secret |-> k, owner |-> Blank,
                   rev |-> 0, hash |-> Blank, token |-> Blank, now |-> x]
           /\ AskedWith(op, n, k, x)
                = [stage |-> "none", op |-> op, name |-> n, secret |-> k, owner |-> Blank,
                   rev |-> 0, hash |-> Blank, token |-> x, now |-> 0]
<1>1. PICK one : one = [noRequest EXCEPT !.op = op]
  BY Zenon
<1>2. PICK two : two = [one EXCEPT !.name = n]
  BY Zenon
<1>3. PICK three : three = [two EXCEPT !.secret = k]
  BY Zenon
<1>4. AskedAt(op, n, k, x) = [three EXCEPT !.now = x] /\ AskedWith(op, n, k, x) = [three EXCEPT !.token = x]
  BY <1>1, <1>2, <1>3, Zenon DEF AskedAt, AskedWith
<1>5. one = [stage |-> "none", op |-> op, name |-> Blank, secret |-> Blank, owner |-> Blank,
             rev |-> 0, hash |-> Blank, token |-> Blank, now |-> 0]
  BY <1>1 DEF noRequest
<1>6. two = [stage |-> "none", op |-> op, name |-> n, secret |-> Blank, owner |-> Blank,
             rev |-> 0, hash |-> Blank, token |-> Blank, now |-> 0]
  BY <1>2, <1>5
<1>7. three = [stage |-> "none", op |-> op, name |-> n, secret |-> k, owner |-> Blank,
               rev |-> 0, hash |-> Blank, token |-> Blank, now |-> 0]
  BY <1>3, <1>6
<1>8. [three EXCEPT !.now = x] = [stage |-> "none", op |-> op, name |-> n, secret |-> k, owner |-> Blank,
                                  rev |-> 0, hash |-> Blank, token |-> Blank, now |-> x]
  BY <1>7
<1>9. [three EXCEPT !.token = x] = [stage |-> "none", op |-> op, name |-> n, secret |-> k, owner |-> Blank,
                                    rev |-> 0, hash |-> Blank, token |-> x, now |-> 0]
  BY <1>7
<1> QED
  BY <1>4, <1>8, <1>9

LEMMA AttemptFacts ==
    ASSUME TypesInv, NEW n \in Logins \cup {Blank}, NEW k \in Passwords
    PROVE  LET a == attempt(n, k)
           IN  /\ a \in RequestRecord /\ a.op = "login" /\ a.stage = "none" /\ a.name = n /\ a.secret = k
               /\ a.now = hour /\ a.token = Blank /\ (a.owner \in EndUsers => a.rev > 0)
<1> DEFINE asked == [noRequest EXCEPT !.op = "login", !.name = n, !.secret = k, !.now = hour]
           named == {u \in Known(accounts) : accounts[u].name = n}
<1>1. hour \in Nat /\ operator \in AdminRecord /\ IsAccounts(accounts)
  BY DEF TypesInv, IsBook
<1>2. asked = [stage |-> "none", op |-> "login", name |-> n, secret |-> k, owner |-> Blank,
               rev |-> 0, hash |-> Blank, token |-> Blank, now |-> hour]
  <2>1. asked = AskedAt("login", n, k, hour)
    BY Zenon DEF AskedAt
  <2> HIDE DEF asked
  <2> QED
    BY <2>1, Asked
<1> HIDE DEF asked
<1>3. CASE operator.name = n
  <2>1. attempt(n, k) = [asked EXCEPT !.owner = Administrator, !.rev = operator.rev, !.hash = operator.secret]
    BY <1>3 DEF attempt, asked
  <2>2. attempt(n, k) = [stage |-> "none", op |-> "login", name |-> n, secret |-> k, owner |-> Administrator,
                         rev |-> operator.rev, hash |-> operator.secret, token |-> Blank, now |-> hour]
    BY <1>2, <2>1
  <2> QED
    BY <1>1, <2>2, Limits DEF RequestRecord, AdminRecord
<1>4. CASE operator.name # n /\ named # {}
  <2> DEFINE u == CHOOSE x \in named : TRUE
  <2>1. u \in named
    BY <1>4
  <2>2. u \in EndUsers /\ accounts[u].rev > 0
    BY <2>1 DEF Known
  <2>3. attempt(n, k) = [asked EXCEPT !.owner = u, !.rev = accounts[u].rev, !.hash = accounts[u].secret]
    BY <1>4 DEF attempt, asked
  <2> HIDE DEF u, named
  <2>4. attempt(n, k) = [stage |-> "none", op |-> "login", name |-> n, secret |-> k, owner |-> u,
                         rev |-> accounts[u].rev, hash |-> accounts[u].secret, token |-> Blank, now |-> hour]
    BY <1>2, <2>3
  <2>5. accounts[u].rev \in Nat /\ accounts[u].secret \in Passwords \cup {Blank}
    BY <1>1, <2>2 DEF IsAccounts
  <2> QED
    BY <1>1, <2>2, <2>4, <2>5, Limits DEF RequestRecord
<1>5. CASE operator.name # n /\ named = {}
  <2>1. attempt(n, k) = asked
    BY <1>5 DEF attempt, asked
  <2> QED
    BY <1>1, <1>2, <2>1, Limits DEF RequestRecord
<1> QED
  BY <1>3, <1>4, <1>5

LEMMA LoginStep ==
    ASSUME WebInv, NEW r \in Requests, NEW n \in Logins \cup {Blank}, NEW k \in Passwords,
           LoginIdentityForClient(r, n, k)
    PROVE  WebInv'
<1>0. TypesInv /\ GateInv /\ RequestsInv /\ serving /\ requests[r].stage = "none" /\ kdfFrame
  BY DEF WebInv, LoginIdentityForClient, free_
<1>1. RequestsMay /\ hour' = hour /\ operator' = operator /\ hour \in Nat
  BY <1>0, KdfKeeps DEF TypesInv
<1>2. PICK a \in RequestRecord :
         /\ a = attempt(n, k) /\ a.op = "login" /\ a.stage = "none" /\ a.name = n /\ a.secret = k
         /\ a.now = hour /\ a.token = Blank /\ (a.owner \in EndUsers => a.rev > 0)
  BY <1>0, AttemptFacts
<1>3. CASE n # Blank /\ acquirePasswordKDF(r, a)
  <2>1. ASSUME NEW st \in {"waiting", "deriving"}
        PROVE  RequestOk([a EXCEPT !.stage = st])'
    <3>1. PICK b : b = [a EXCEPT !.stage = st]
      OBVIOUS
    <3>2. /\ b.op = "login" /\ b.stage = st /\ b.name = n /\ b.secret = k
          /\ b.now = hour /\ b.token = Blank /\ (b.owner \in EndUsers => b.rev > 0)
      BY <1>2, <3>1 DEF RequestRecord
    <3>3. RequestOk(b)'
      BY <1>1, <1>3, <3>2 DEF RequestOk
    <3> QED
      BY <3>1, <3>3
  <2>2. /\ RequestsInv' /\ GateInv' /\ requests' \in [Requests -> RequestRecord]
        /\ Watched' \subseteq Watched \cup handedOut' \cup {a.token, Blank}
    BY <1>0, <1>1, <1>2, <1>3, <2>1, AcquireStep
  <2>3. Watched' \subseteq Watched \cup {Blank}
    BY <1>0, <1>2, <2>2 DEF kdfFrame, Watched
  <2> QED
    BY <1>0, <2>2, <2>3, RequestsRun
<1>4. CASE n = Blank /\ operator.name = Blank /\ gate' = gate
           /\ request(r, IF operator.secret = k THEN [a EXCEPT !.stage = "verified"] ELSE noRequest)
  <2>1. PICK req \in RequestRecord : request(r, req) /\ RequestOk(req)' /\ req.stage # "deriving" /\ req.token = Blank
    <3>1. CASE operator.secret = k
      <4>0. PICK b : b = [a EXCEPT !.stage = "verified"]
        OBVIOUS
      <4>1. /\ b \in RequestRecord /\ b.op = "login" /\ b.stage = "verified" /\ b.secret = k
            /\ b.now = hour /\ b.token = Blank /\ (b.owner \in EndUsers => b.rev > 0)
        BY <1>2, <4>0 DEF RequestRecord
      <4>2. request(r, b)
        BY <1>4, <3>1, <4>0
      <4>3. RequestOk(b)'
        BY <1>1, <3>1, <4>1 DEF RequestOk
      <4> QED
        BY <4>1, <4>2, <4>3
    <3>2. CASE operator.secret # k
      BY <1>4, <3>2, IdleRequest
    <3> QED
      BY <3>1, <3>2
  <2>2. /\ RequestsInv' /\ requests' \in [Requests -> RequestRecord]
        /\ Watched' \subseteq Watched \cup handedOut' \cup {req.token}
    BY <1>0, <1>1, <2>1, RequestStep
  <2>3. GateInv'
    BY <1>0, <1>4, <2>1, GateStep
  <2>4. Watched' \subseteq Watched \cup {Blank}
    BY <1>0, <2>1, <2>2 DEF kdfFrame, Watched
  <2> QED
    BY <1>0, <2>2, <2>3, <2>4, RequestsRun
<1> QED
  BY <1>2, <1>3, <1>4 DEF LoginIdentityForClient

LEMMA ClaimAskedStep ==
    ASSUME WebInv, NEW r \in Requests, NEW t \in Bearers, NEW n \in Logins, NEW k \in Passwords,
           endUserClaim(r, t, n, k)
    PROVE  WebInv'
<1>2. PICK a : a = [noRequest EXCEPT !.op = "claim", !.name = n, !.secret = k, !.token = t]
  OBVIOUS
<1>0. /\ TypesInv /\ GateInv /\ RequestsInv /\ serving /\ requests[r].stage = "none" /\ kdfFrame
      /\ t \in handedOut /\ acquirePasswordKDF(r, a)
  BY <1>2 DEF WebInv, endUserClaim, free_
<1>1. RequestsMay /\ hour' = hour /\ handedOut' = handedOut /\ hour \in Nat
  BY <1>0, KdfKeeps DEF TypesInv
<1>a. a = [stage |-> "none", op |-> "claim", name |-> n, secret |-> k, owner |-> Blank,
           rev |-> 0, hash |-> Blank, token |-> t, now |-> 0]
  <2>1. a = AskedWith("claim", n, k, t)
    BY <1>2, Zenon DEF AskedWith
  <2> QED
    BY <2>1, Asked
<1>3. a \in RequestRecord /\ a.token = t
  BY <1>a DEF RequestRecord
<1>4. ASSUME NEW st \in {"waiting", "deriving"}
      PROVE  RequestOk([a EXCEPT !.stage = st])'
  <2>0. PICK b : b = [a EXCEPT !.stage = st]
    OBVIOUS
  <2>1. /\ b.op = "claim" /\ b.stage = st /\ b.name = n /\ b.secret = k /\ b.now = 0 /\ b.token = t
    BY <1>a, <2>0
  <2>2. RequestOk(b)'
    BY <1>0, <1>1, <2>1 DEF RequestOk
  <2> QED
    BY <2>0, <2>2
<1>5. /\ RequestsInv' /\ GateInv' /\ requests' \in [Requests -> RequestRecord]
      /\ Watched' \subseteq Watched \cup handedOut' \cup {a.token, Blank}
  BY <1>0, <1>1, <1>3, <1>4, AcquireStep
<1>6. Watched' \subseteq Watched \cup {Blank}
  BY <1>0, <1>1, <1>3, <1>5 DEF Watched
<1> QED
  BY <1>0, <1>5, <1>6, RequestsRun

(* A request that changes, once it is known what it becomes.               *)
LEMMA RequestGoes ==
    ASSUME WebInv, NEW r \in Requests, serving, kdfFrame,
           NEW req \in RequestRecord, request(r, req), RequestOk(req)',
           req.token \in Watched \cup {Blank}, GateInv'
    PROVE  WebInv'
<1>0. TypesInv /\ RequestsInv
  BY DEF WebInv
<1>1. RequestsMay /\ handedOut' = handedOut
  BY <1>0, KdfKeeps
<1>2. /\ RequestsInv' /\ requests' \in [Requests -> RequestRecord]
      /\ Watched' \subseteq Watched \cup handedOut' \cup {req.token}
  BY <1>0, <1>1, RequestStep
<1>3. Watched' \subseteq Watched \cup {Blank}
  BY <1>1, <1>2 DEF Watched
<1> QED
  BY <1>2, <1>3, RequestsRun

(* The next stage of a request keeps all else of it.                       *)
LEMMA NextStage ==
    ASSUME NEW req \in RequestRecord, NEW st \in {"deriving", "derived", "verified"}
    PROVE  /\ [req EXCEPT !.stage = st] \in RequestRecord
           /\ [req EXCEPT !.stage = st].stage = st
           /\ [req EXCEPT !.stage = st].op = req.op /\ [req EXCEPT !.stage = st].name = req.name
           /\ [req EXCEPT !.stage = st].secret = req.secret /\ [req EXCEPT !.stage = st].owner = req.owner
           /\ [req EXCEPT !.stage = st].rev = req.rev /\ [req EXCEPT !.stage = st].hash = req.hash
           /\ [req EXCEPT !.stage = st].token = req.token /\ [req EXCEPT !.stage = st].now = req.now
BY DEF RequestRecord

LEMMA TakeGateStep ==
    ASSUME WebInv, NEW r \in Requests, TakeGate(r)
    PROVE  WebInv'
<1>0. /\ TypesInv /\ GateInv /\ RequestsInv /\ StandingInv /\ kdfFrame
      /\ requests[r].stage = "waiting" /\ gate = 0 /\ gate' = 1
  BY DEF WebInv, TakeGate
<1>1. serving /\ RequestsMay
  BY <1>0, RequestRuns, KdfKeeps
<1>2. PICK old \in RequestRecord : old = requests[r] /\ RequestOk(old)
  BY <1>0 DEF TypesInv, RequestsInv
<1>3. PICK req : req = [old EXCEPT !.stage = "deriving"]
  BY Zenon
<1>4. request(r, req)
  BY <1>2, <1>3 DEF TakeGate
<1>5. /\ req \in RequestRecord /\ req.stage = "deriving" /\ req.op = old.op /\ req.name = old.name
      /\ req.secret = old.secret /\ req.owner = old.owner /\ req.rev = old.rev /\ req.hash = old.hash
      /\ req.token = old.token /\ req.now = old.now
  BY <1>3, NextStage
<1>6. RequestOk(req)
  BY <1>0, <1>2, <1>5 DEF RequestOk
<1>7. RequestOk(req)'
  BY <1>0, <1>1, <1>5, <1>6, RequestStays
<1>8. GateInv'
  BY <1>0, <1>4, <1>5, GateStep
<1>9. req.token \in Watched \cup {Blank}
  BY <1>2, <1>5 DEF Watched
<1> QED
  BY <1>0, <1>1, <1>4, <1>5, <1>7, <1>8, <1>9, RequestGoes

LEMMA GiveUpStep ==
    ASSUME WebInv, NEW r \in Requests, GiveUpWaiting(r)
    PROVE  WebInv'
<1>0. /\ TypesInv /\ GateInv /\ RequestsInv /\ StandingInv /\ kdfFrame
      /\ requests[r].stage = "waiting" /\ gate' = gate /\ request(r, noRequest)
  BY DEF WebInv, GiveUpWaiting
<1>1. serving
  BY <1>0, RequestRuns
<1>2. GateInv'
  BY <1>0, GateStep, IdleRequest
<1> QED
  BY <1>0, <1>1, <1>2, RequestGoes, IdleRequest

LEMMA DeriveStep ==
    ASSUME WebInv, NEW r \in Requests, derivePassword(r)
    PROVE  WebInv'
<1>0. /\ TypesInv /\ GateInv /\ RequestsInv /\ StandingInv /\ kdfFrame
      /\ requests[r].stage = "deriving" /\ gate' = 0
  BY DEF WebInv, derivePassword
<1>1. serving /\ RequestsMay
  BY <1>0, RequestRuns, KdfKeeps
<1>2. PICK old \in RequestRecord : old = requests[r] /\ RequestOk(old)
  BY <1>0 DEF TypesInv, RequestsInv
<1>3. PICK req : req = [old EXCEPT !.stage = "derived"]
  BY Zenon
<1>4. \/ request(r, noRequest)
      \/ request(r, req) /\ (old.op = "login" => old.owner # Blank /\ old.secret = old.hash)
  BY <1>2, <1>3 DEF derivePassword
<1>5. CASE request(r, noRequest)
  <2>1. GateInv'
    BY <1>0, <1>5, GateStep, IdleRequest
  <2> QED
    BY <1>0, <1>1, <1>5, <2>1, RequestGoes, IdleRequest
<1>6. CASE request(r, req) /\ (old.op = "login" => old.owner # Blank /\ old.secret = old.hash)
  <2>1. /\ req \in RequestRecord /\ req.stage = "derived" /\ req.op = old.op /\ req.name = old.name
        /\ req.secret = old.secret /\ req.owner = old.owner /\ req.rev = old.rev /\ req.hash = old.hash
        /\ req.token = old.token /\ req.now = old.now
    BY <1>3, NextStage
  <2>2. RequestOk(req)
    BY <1>0, <1>2, <1>6, <2>1 DEF RequestOk
  <2>3. RequestOk(req)'
    BY <1>0, <1>1, <2>1, <2>2, RequestStays
  <2>4. GateInv'
    BY <1>0, <1>6, <2>1, GateStep
  <2>5. req.token \in Watched \cup {Blank}
    BY <1>2, <2>1 DEF Watched
  <2> QED
    BY <1>0, <1>1, <1>6, <2>1, <2>3, <2>4, <2>5, RequestGoes
<1> QED
  BY <1>4, <1>5, <1>6

-----------------------------------------------------------------------------
(* Sessions that a login opens.                                            *)

LEMMA OpenedStep ==
    ASSUME WebInv, KeepsIdentity, storeUsers' = storeUsers, finished' = finished, activity' = activity, gate' = gate,
           NEW r \in Requests, requests[r].stage # "deriving", request(r, noRequest),
           NEW m \in Managers, lifecycleFree(m), NEW t, drawn(t), NEW outcome,
           NEW s \in SessionRecord, createSession(m, t, s, outcome),
           handedOut' = IF outcome = "written" THEN handedOut \cup {t} ELSE handedOut,
           s.seen <= hour, s.owner \in OwnersOf(m), m = "user" => s.rev > 0, NewCredential(m, t, s)
    PROVE  WebInv'
<1>0. TypesInv /\ GateInv /\ RequestsInv /\ PlacesInv
  BY DEF WebInv
<1>1. /\ hour' = hour /\ hour \in Nat /\ handedOut \subseteq Bearers /\ finished \subseteq handedOut
      /\ RequestsMay /\ handedOut \subseteq handedOut'
      /\ SameAccounts
  BY <1>0 DEF KeepsIdentity, TypesInv, RequestsMay, SameAccounts
<1>2. /\ t \in Bearers /\ t # Blank /\ t \notin Watched /\ t \notin finished
      /\ \A k \in Managers : t \notin Held(k)
      /\ \A u \in EndUsers : t # accounts[u].invite /\ t # identityFile.accounts[u].invite
  BY <1>0, Drawn
<1>3. /\ RequestsInv' /\ requests' \in [Requests -> RequestRecord]
      /\ Watched' \subseteq Watched \cup handedOut' \cup {Blank}
  BY <1>0, <1>1, RequestStep, IdleRequest
<1>4. GateInv'
  BY <1>0, GateStep, IdleRequest
<1>5. /\ StepOf(m, t, s) /\ \A k \in Managers \ {m} : Quiet(k)
      /\ promised' \in [Bearers -> Nat]
      /\ \A x \in Bearers : promised'[x] <= hour' + IdleTimeout
      /\ \A x \in Bearers \ {t} : promised'[x] = promised[x]
      /\ outcome = "written" => promised'[t] = expiresAt(s)
      /\ DOMAIN browsing' = Managers /\ DOMAIN sessionFile' = Managers
      /\ \A k \in Managers :
            sessionFile'[k] = [binding |-> sessionFile'[k].binding, sessions |-> sessionFile'[k].sessions]
  BY <1>0, <1>1, CreateStep
<1>6. MapsTyped'
  BY <1>0, <1>5 DEF TypesInv, MapsTyped
<1>7. Watched' \subseteq Watched \cup {Blank} \cup (IF outcome = "written" THEN {t} ELSE {})
  BY <1>3 DEF Watched
<1>8. t \in Watched' => expiresAt(s) <= promised'[t]
  <2>1. t \in Watched' => outcome = "written"
    BY <1>2, <1>7
  <2>2. expiresAt(s) \in Nat
    BY Limits DEF SessionRecord, expiresAt
  <2> QED
    BY <1>5, <2>1, <2>2
<1>9. Lasting(m, t, s)'
  BY <1>1, <1>2, <1>8 DEF Lasting, KeepsIdentity, expiresAt, OwnersOf
<1>10. NewOk(m, t, s)
  BY <1>2, <1>9 DEF NewOk
<1>11. \A k \in Managers : \A x \in Held(k) \cap Held(k)' :
          /\ x \notin finished' \ finished
          /\ x \in Watched' => x \in Watched /\ promised[x] <= promised'[x]
  <2>1. \A k \in Managers : Held(k) \subseteq Bearers
    BY <1>0, HeldFacts
  <2>2. \A x \in Bearers : promised[x] \in Nat
    BY <1>0 DEF TypesInv
  <2>3. \A k \in Managers : \A x \in Held(k) : x # t /\ x # Blank /\ promised'[x] = promised[x] /\ promised[x] \in Nat
    BY <1>2, <1>5, <2>1, <2>2, Limits
  <2> QED
    BY <1>7, <2>3
<1>12. handedOut' \subseteq Bearers /\ finished' \subseteq handedOut'
  BY <1>1, <1>2
<1> QED
  BY <1>1, <1>2, <1>3, <1>4, <1>5, <1>6, <1>10, <1>11, <1>12, RunningStep

LEMMA FinishLoginStep ==
    ASSUME WebInv, NEW r \in Requests, NEW outcome, FinishLogin(r, outcome)
    PROVE  WebInv'
<1>0. /\ TypesInv /\ GateInv /\ RequestsInv /\ StandingInv
      /\ requests[r].stage = "derived" /\ requests[r].op = "login" /\ lifecycleFree("user")
      /\ UNCHANGED <<serving, hour, storeUsers, identityFile, legacyFile, accounts, operator, binding, activity, gate, finished>>
  BY DEF WebInv, FinishLogin
<1>1. serving
  BY <1>0, RequestRuns
<1>2. PICK req \in RequestRecord : req = requests[r] /\ RequestOk(req)
  BY <1>0 DEF TypesInv, RequestsInv
<1>3. /\ req.name # Blank /\ (req.owner \in EndUsers => req.rev > 0) /\ req.secret \in Passwords /\ req.now <= hour
      /\ req.owner # Blank /\ req.secret = req.hash
  BY <1>0, <1>2 DEF RequestOk
<1>4. CASE /\ ~stillCurrent(req) \/ req.owner = Administrator
           /\ request(r, IF stillCurrent(req) THEN [req EXCEPT !.stage = "verified"] ELSE noRequest)
           /\ UNCHANGED <<browsing, sessionFile, promised, handedOut, webLeft>>
  <2>1. kdfFrame
    BY <1>0, <1>4 DEF kdfFrame
  <2>2. RequestsMay
    BY <1>0, <2>1, KdfKeeps
  <2>3. CASE stillCurrent(req)
    <3>1. PICK new : new = [req EXCEPT !.stage = "verified"]
      BY Zenon
    <3>2. request(r, new)
      BY <1>4, <2>3, <3>1
    <3>3. /\ new \in RequestRecord /\ new.stage = "verified" /\ new.op = req.op /\ new.name = req.name
          /\ new.secret = req.secret /\ new.owner = req.owner /\ new.rev = req.rev /\ new.hash = req.hash
          /\ new.token = req.token /\ new.now = req.now
      BY <3>1, NextStage
    <3>4. operator.secret = req.secret
      BY <1>3, <1>4, <2>3 DEF stillCurrent
    <3>5. RequestOk(new)
      BY <1>0, <1>2, <3>3, <3>4 DEF RequestOk
    <3>6. RequestOk(new)'
      BY <1>0, <2>2, <3>3, <3>5, RequestStays
    <3>7. GateInv'
      BY <1>0, <3>2, <3>3, GateStep
    <3>8. new.token \in Watched \cup {Blank}
      BY <1>2, <3>3 DEF Watched
    <3> QED
      BY <1>1, <2>1, <3>2, <3>3, <3>6, <3>7, <3>8, RequestGoes
  <2>4. CASE ~stillCurrent(req)
    <3>1. request(r, noRequest)
      BY <1>4, <2>4
    <3>2. GateInv'
      BY <1>0, <3>1, GateStep, IdleRequest
    <3> QED
      BY <1>1, <2>1, <3>1, <3>2, RequestGoes, IdleRequest
  <2> QED
    BY <2>3, <2>4
<1>5. ASSUME stillCurrent(req), req.owner # Administrator, request(r, noRequest), NEW t \in Bearers, drawn(t),
             createSession("user", t, sessionFor(req.owner, accounts[req.owner].rev, req.secret, req.now), outcome),
             handedOut' = IF outcome = "written" THEN handedOut \cup {t} ELSE handedOut
      PROVE  WebInv'
  <2>1. req.owner \in EndUsers /\ req.now \in Nat
    BY <1>3, <1>5 DEF RequestRecord
  <2>2. PICK acc : acc = accounts[req.owner]
    OBVIOUS
  <2>3. acc.rev = req.rev /\ acc.name = req.name /\ acc.secret = req.hash /\ acc.rev \in Nat
    BY <1>0, <1>5, <2>1, <2>2 DEF stillCurrent, TypesInv, IsBook, IsAccounts
  <2>4. PICK s : s = [owner |-> req.owner, rev |-> acc.rev, secret |-> req.secret, seen |-> req.now]
    OBVIOUS
  <2>5. createSession("user", t, s, outcome)
    BY <1>5, <2>2, <2>4 DEF sessionFor
  <2>6. s \in SessionRecord /\ s.seen <= hour /\ s.owner \in OwnersOf("user") /\ s.rev > 0
    BY <1>3, <2>1, <2>3, <2>4 DEF SessionRecord, OwnersOf
  <2>7. Vouched(s, acc)
    BY <1>3, <2>3, <2>4 DEF Vouched
  <2>8. s.owner \in storeUsers => Vouched(s, identityFile.accounts[s.owner])
    <3>1. SUFFICES ASSUME s.owner \in storeUsers
                   PROVE  Vouched(s, identityFile.accounts[s.owner])
      OBVIOUS
    <3>2. Ahead(acc, identityFile.accounts[s.owner]) /\ identityFile.accounts[s.owner].rev \in Nat
      BY <1>0, <1>1, <2>1, <2>2, <2>4, <3>1 DEF StandingInv, TypesInv, IsBook, IsAccounts
    <3> QED
      BY <2>3, <2>4, <2>7, <3>2, <1>3 DEF Ahead, Vouched
  <2>9. NewCredential("user", t, s)
    BY <2>2, <2>4, <2>7, <2>8 DEF NewCredential
  <2>10. KeepsIdentity
    BY <1>0, <1>1 DEF KeepsIdentity
  <2> QED
    BY <1>0, <1>5, <2>5, <2>6, <2>9, <2>10, OpenedStep, TwoManagers
<1> QED
  BY <1>2, <1>4, <1>5 DEF FinishLogin

LEMMA UnifiedLoginStep ==
    ASSUME WebInv, NEW r \in Requests, NEW outcome, unifiedLogin(r, outcome)
    PROVE  WebInv'
<1>0. /\ TypesInv /\ GateInv /\ RequestsInv /\ StandingInv
      /\ requests[r].stage = "verified" /\ lifecycleFree("admin") /\ request(r, noRequest)
      /\ UNCHANGED <<serving, hour, storeUsers, identityFile, legacyFile, accounts, operator, binding, activity, gate, finished>>
  BY DEF WebInv, unifiedLogin
<1>1. serving
  BY <1>0, RequestRuns
<1>2. requests[r].secret = operator.secret /\ requests[r].secret \in Passwords /\ operator.rev \in Nat /\ hour \in Nat
  BY <1>0 DEF RequestsInv, RequestOk, TypesInv, AdminRecord
<1>3. PICK s : s = [owner |-> Administrator, rev |-> operator.rev, secret |-> requests[r].secret, seen |-> hour]
  OBVIOUS
<1>4. PICK t \in Bearers :
         /\ drawn(t) /\ createSession("admin", t, s, outcome)
         /\ handedOut' = IF outcome = "written" THEN handedOut \cup {t} ELSE handedOut
  BY <1>3 DEF unifiedLogin, sessionFor
<1>5. s \in SessionRecord /\ s.seen <= hour /\ s.owner \in OwnersOf("admin")
  BY <1>2, <1>3 DEF SessionRecord, OwnersOf
<1>6. NewCredential("admin", t, s)
  BY <1>2, <1>3 DEF NewCredential
<1>7. KeepsIdentity
  BY <1>0, <1>1 DEF KeepsIdentity
<1> QED
  BY <1>0, <1>4, <1>5, <1>6, <1>7, OpenedStep, TwoManagers

-----------------------------------------------------------------------------
(* Requests under a session.                                               *)

LEMMA PresentsFacts ==
    ASSUME TypesInv, PlacesInv, NEW m \in Managers, NEW t, presents(m, t)
    PROVE  /\ serving /\ t \in handedOut /\ t \in Watched /\ t \in DOMAIN browsing[m] /\ t \in Bearers
           /\ browsing[m][t] \in SessionRecord /\ Lasting(m, t, browsing[m][t]) /\ t \in Held(m)
           /\ \A k \in Managers \ {m} : t \notin Held(k)
<1>1. serving /\ t \in handedOut /\ t \in DOMAIN browsing[m] /\ t \in Bearers
  BY DEF presents, TypesInv
<1>2. browsing[m] \in Places(m)
  BY DEF Places
<1>3. browsing[m][t] \in SessionRecord /\ Lasting(m, t, browsing[m][t]) /\ t \in Held(m)
  BY <1>1, <1>2, HeldFacts
<1>4. \A k \in Managers \ {m} : t \notin Held(k)
  BY <1>3, PlacesApart, TwoManagers
<1> QED
  BY <1>1, <1>3, <1>4 DEF Watched

(* The session that is seen keeps its owner and credential.                *)
LEMMA SeenSession ==
    ASSUME TypesInv, PlacesInv, CredentialInv, KeepsIdentity, NEW m \in Managers, NEW t, presents(m, t),
           NEW s, s = touched(m, t)[m][t], promised' = renewed(t),
           finished' = finished \/ t \notin Held(m)'
    PROVE  NewOk(m, t, s) /\ NewCredential(m, t, s)
<1> DEFINE old == browsing[m][t]
<1>1. /\ serving /\ t \in DOMAIN browsing[m] /\ t \in Bearers /\ old \in SessionRecord /\ Lasting(m, t, old)
  BY PresentsFacts
<1>2. /\ s \in SessionRecord /\ s.seen = hour /\ s.owner = old.owner /\ s.rev = old.rev /\ s.secret = old.secret
  BY <1>1, Touched
<1>3. hour' = hour /\ accounts' = accounts /\ identityFile' = identityFile /\ hour \in Nat
  BY DEF KeepsIdentity, TypesInv
<1>4. promised'[t] = hour + IdleTimeout
  BY <1>1, <1>3, Renewed
<1>5. expiresAt(s) = hour + IdleTimeout
  BY <1>2 DEF expiresAt
<1>6. expiresAt(s) <= promised'[t]
  BY <1>3, <1>4, <1>5, Limits
<1>7. finished' = finished => Lasting(m, t, s)'
  BY <1>1, <1>2, <1>3, <1>6 DEF Lasting, expiresAt, OwnersOf
<1>8. NewOk(m, t, s)
  BY <1>1, <1>2, <1>7 DEF NewOk
<1>9. m = "admin" => old.secret = operator.secret /\ old.rev = operator.rev
  BY <1>1 DEF CredentialInv
<1>10. m = "user" =>
          /\ old.owner \in storeUsers =>
                Vouched(old, identityFile.accounts[old.owner]) /\ Vouched(old, accounts[old.owner])
          /\ accounts[old.owner].rev = 0 \/ Vouched(old, accounts[old.owner])
  BY <1>1 DEF CredentialInv, Places
<1>11. NewCredential(m, t, s)
  <2> HIDE DEF old
  <2> QED
    BY <1>2, <1>9, <1>10, TwoManagers DEF NewCredential, Vouched
<1> QED
  BY <1>8, <1>11

LEMMA SeenRun ==
    ASSUME WebInv, KeepsIdentity, storeUsers' \subseteq storeUsers, finished' = finished, handedOut' = handedOut,
           sessionFile' = sessionFile, NEW m \in Managers, NEW t, presents(m, t),
           browsing' = touched(m, t), promised' = renewed(t), activity' \in scheduled(m),
           RequestsInv', GateInv', requests' \in [Requests -> RequestRecord], Watched' \subseteq Watched \cup {Blank}
    PROVE  WebInv'
<1>0. TypesInv /\ PlacesInv /\ CredentialInv
  BY DEF WebInv
<1>1. /\ t \in DOMAIN browsing[m] /\ t \in Bearers /\ t \in Held(m)
      /\ \A k \in Managers \ {m} : t \notin Held(k)
  BY <1>0, PresentsFacts
<1>2. hour' = hour /\ handedOut' \subseteq Bearers /\ finished' \subseteq handedOut'
  BY <1>0 DEF KeepsIdentity, TypesInv
<1>3. PICK s : s = touched(m, t)[m][t]
  OBVIOUS
<1>4. StepOf(m, t, s) /\ (\A k \in Managers \ {m} : Quiet(k)) /\ DOMAIN browsing' = Managers
  BY <1>0, <1>1, <1>3, SeenStep
<1>5. NewOk(m, t, s) /\ NewCredential(m, t, s)
  BY <1>0, <1>3, SeenSession
<1>6. /\ promised' \in [Bearers -> Nat]
      /\ \A x \in Bearers : promised[x] <= promised'[x] /\ promised'[x] <= hour' + IdleTimeout
  BY <1>0, <1>1, <1>2, Renewed
<1>7. MapsTyped'
  BY <1>0, <1>4, ScheduledSnapshots DEF MapsTyped, TypesInv
<1>8. \A k \in Managers : \A x \in Held(k) \cap Held(k)' :
          /\ x \notin finished' \ finished
          /\ x \in Watched' => x \in Watched /\ promised[x] <= promised'[x]
  BY <1>0, <1>6, HeldFacts, Limits
<1> QED
  BY <1>1, <1>2, <1>3, <1>4, <1>5, <1>6, <1>7, <1>8, RunningStep

LEMMA SameRequests ==
    ASSUME WebInv, requests' = requests, gate' = gate, handedOut' = handedOut, hour' = hour, operator' = operator,
           storeUsers' = storeUsers
    PROVE  RequestsInv' /\ GateInv' /\ requests' \in [Requests -> RequestRecord] /\ Watched' = Watched
<1>1. TypesInv /\ RequestsInv /\ GateInv
  BY DEF WebInv
<1>2. RequestsMay
  BY <1>1 DEF RequestsMay, TypesInv
<1>3. RequestsInv'
  BY <1>1, <1>2, RequestsStay
<1>4. Deriving' = Deriving
  BY DEF Deriving
<1> QED
  BY <1>1, <1>3, <1>4 DEF GateInv, TypesInv, Watched

LEMMA VisitKeeps ==
    ASSUME visitFrame, serving, serving' = serving
    PROVE  /\ KeepsIdentity /\ storeUsers' = storeUsers /\ handedOut' = handedOut
           /\ requests' = requests /\ gate' = gate /\ hour' = hour /\ operator' = operator
BY DEF visitFrame, KeepsIdentity

LEMMA VisitStep ==
    ASSUME WebInv, NEW t \in Bearers, requireAuthentication(t)
    PROVE  WebInv'
<1>1. /\ presents("admin", t) /\ browsing' = touched("admin", t) /\ promised' = renewed(t)
      /\ activity' \in scheduled("admin") /\ visitFrame /\ sessionFile' = sessionFile /\ finished' = finished
  BY DEF requireAuthentication, authorizeProxyMutation
<1>2. serving /\ serving' = serving
  BY <1>1 DEF presents, visitFrame
<1>3. /\ KeepsIdentity /\ storeUsers' = storeUsers /\ handedOut' = handedOut
      /\ requests' = requests /\ gate' = gate /\ hour' = hour /\ operator' = operator
  BY <1>1, <1>2, VisitKeeps
<1>4. RequestsInv' /\ GateInv' /\ requests' \in [Requests -> RequestRecord] /\ Watched' = Watched
  BY <1>3, SameRequests
<1> QED
  BY <1>1, <1>3, <1>4, SeenRun, TwoManagers

(* The administrator asks for something to be done about a user.           *)
LEMMA AuthorizedStep ==
    ASSUME WebInv, NEW r \in Requests, NEW t, NEW req \in RequestRecord, free_(r),
           authorizeProxyMutation(t), request(r, req), RequestOk(req)', req.token = Blank, req.stage # "deriving",
           storeUsers' \subseteq storeUsers,
           UNCHANGED <<serving, hour, identityFile, legacyFile, accounts, operator, binding, sessionFile, gate,
                       handedOut, finished>>
    PROVE  WebInv'
<1>0. TypesInv /\ RequestsInv /\ GateInv /\ requests[r].stage = "none" /\ serving
  BY DEF WebInv, free_
<1>1. /\ presents("admin", t) /\ browsing' = touched("admin", t) /\ promised' = renewed(t)
      /\ activity' \in scheduled("admin")
  BY DEF authorizeProxyMutation
<1>2. KeepsIdentity /\ RequestsMay /\ handedOut' = handedOut
  BY <1>0 DEF KeepsIdentity, RequestsMay, TypesInv
<1>3. /\ RequestsInv' /\ requests' \in [Requests -> RequestRecord]
      /\ Watched' \subseteq Watched \cup handedOut' \cup {req.token}
  BY <1>0, <1>2, RequestStep
<1>4. GateInv'
  BY <1>0, GateStep
<1>5. Watched' \subseteq Watched \cup {Blank}
  BY <1>2, <1>3 DEF Watched
<1> QED
  BY <1>1, <1>2, <1>3, <1>4, <1>5, SeenRun, TwoManagers

LEMMA InvitingStep ==
    ASSUME WebInv, NEW r \in Requests, NEW t \in Bearers, NEW u \in EndUsers, issueEndUserInvitation(r, t, u)
    PROVE  WebInv'
<1>1. PICK req : req = [noRequest EXCEPT !.stage = "inviting", !.owner = u]
  BY Zenon
<1>2. req = [stage |-> "inviting", op |-> "none", name |-> Blank, secret |-> Blank, owner |-> u,
             rev |-> 0, hash |-> Blank, token |-> Blank, now |-> 0]
  BY <1>1 DEF noRequest
<1>3. req \in RequestRecord /\ RequestOk(req)'
  BY <1>2 DEF RequestRecord, RequestOk
<1> QED
  BY <1>1, <1>2, <1>3, AuthorizedStep DEF issueEndUserInvitation

LEMMA DeletingStep ==
    ASSUME WebInv, NEW r \in Requests, NEW t \in Bearers, NEW u \in EndUsers, deleteEndUser(r, t, u)
    PROVE  WebInv'
<1>1. PICK req : req = [noRequest EXCEPT !.stage = "removing", !.owner = u]
  BY Zenon
<1>2. req = [stage |-> "removing", op |-> "none", name |-> Blank, secret |-> Blank, owner |-> u,
             rev |-> 0, hash |-> Blank, token |-> Blank, now |-> 0]
  BY <1>1 DEF noRequest
<1>3. u \notin storeUsers'
  BY DEF deleteEndUser
<1>4. req \in RequestRecord /\ RequestOk(req)'
  BY <1>2, <1>3 DEF RequestRecord, RequestOk
<1> QED
  BY <1>1, <1>2, <1>4, AuthorizedStep DEF deleteEndUser

LEMMA RemovedRun ==
    ASSUME WebInv, KeepsIdentity, visitFrame, NEW m \in Managers, NEW t, presents(m, t), NEW outcome,
           Removed(m, t, outcome)
    PROVE  WebInv'
<1>0. TypesInv /\ PlacesInv /\ CredentialInv
  BY DEF WebInv
<1>1. /\ t \in DOMAIN browsing[m] /\ t \in Bearers /\ t \in Held(m) /\ t \in handedOut
      /\ \A k \in Managers \ {m} : t \notin Held(k)
  BY <1>0, PresentsFacts
<1>2. /\ KeepsIdentity /\ storeUsers' = storeUsers /\ handedOut' = handedOut
      /\ requests' = requests /\ gate' = gate /\ hour' = hour /\ operator' = operator
  BY VisitKeeps DEF KeepsIdentity
<1>3. PICK s : s = touched(m, t)[m][t]
  OBVIOUS
<1>4. /\ StepOf(m, t, s) /\ (\A k \in Managers \ {m} : Quiet(k))
      /\ outcome = "written" => t \notin Held(m)'
      /\ DOMAIN browsing' = Managers /\ DOMAIN sessionFile' = Managers
      /\ \A k \in Managers :
            sessionFile'[k] = [binding |-> sessionFile'[k].binding, sessions |-> sessionFile'[k].sessions]
  BY <1>0, <1>1, <1>2, <1>3, RemovedStep
<1>5. /\ promised' = renewed(t) /\ activity' \in scheduled(m)
      /\ finished' = IF outcome = "written" THEN finished \cup {t} ELSE finished
  BY DEF Removed
<1>6. NewOk(m, t, s) /\ NewCredential(m, t, s)
  BY <1>0, <1>3, <1>4, <1>5, SeenSession
<1>7. /\ promised' \in [Bearers -> Nat]
      /\ \A x \in Bearers : promised[x] <= promised'[x] /\ promised'[x] <= hour' + IdleTimeout
  BY <1>0, <1>1, <1>2, <1>5, Renewed
<1>8. MapsTyped'
  BY <1>0, <1>4, <1>5, ScheduledSnapshots DEF MapsTyped, TypesInv
<1>9. RequestsInv' /\ GateInv' /\ requests' \in [Requests -> RequestRecord] /\ Watched' = Watched
  BY <1>2, SameRequests
<1>10. \A k \in Managers : \A x \in Held(k) \cap Held(k)' :
          /\ x \notin finished' \ finished
          /\ x \in Watched' => x \in Watched /\ promised[x] <= promised'[x]
  BY <1>0, <1>1, <1>4, <1>5, <1>7, <1>9, HeldFacts
<1>11. handedOut' \subseteq Bearers /\ finished' \subseteq handedOut'
       /\ \A x \in finished' \ finished : x \in Held("admin") \cup Held("user")
  BY <1>0, <1>1, <1>2, <1>5, TwoManagers DEF TypesInv
<1> QED
  BY <1>1, <1>2, <1>3, <1>4, <1>6, <1>7, <1>8, <1>9, <1>10, <1>11, RunningStep

LEMMA LogoutStep ==
    ASSUME WebInv, NEW t, NEW outcome, \/ logout(t, outcome)
                                       \/ endUserLogout(t, outcome)
    PROVE  WebInv'
<1>1. PICK m \in Managers : presents(m, t) /\ Removed(m, t, outcome) /\ visitFrame
  BY TwoManagers DEF logout, endUserLogout
<1>2. KeepsIdentity
  BY <1>1 DEF presents, visitFrame, KeepsIdentity
<1> QED
  BY <1>1, <1>2, RemovedRun

(* Sessions end or move between the places, and none is opened or seen.    *)
LEMMA EndedRun ==
    ASSUME WebInv, serving, serving' = serving, visitFrame, finished' = finished, promised' = promised,
           MapsTyped', NEW m \in Managers, StepOf(m, Blank, Blank), Blank \notin Held(m)',
           \A k \in Managers \ {m} : Quiet(k)
    PROVE  WebInv'
<1>0. TypesInv /\ PlacesInv
  BY DEF WebInv
<1>1. /\ KeepsIdentity /\ storeUsers' = storeUsers /\ handedOut' = handedOut
      /\ requests' = requests /\ gate' = gate /\ hour' = hour /\ operator' = operator
  BY VisitKeeps
<1>2. RequestsInv' /\ GateInv' /\ requests' \in [Requests -> RequestRecord] /\ Watched' = Watched
  BY <1>1, SameRequests
<1>3. NewOk(m, Blank, Blank) /\ NewCredential(m, Blank, Blank)
  BY DEF NewOk, NewCredential
<1>4. /\ handedOut' \subseteq Bearers /\ finished' \subseteq handedOut' /\ promised' \in [Bearers -> Nat]
      /\ \A x \in Bearers : promised[x] \in Nat /\ promised'[x] <= hour' + IdleTimeout
  BY <1>0, <1>1 DEF TypesInv
<1>5. \A k \in Managers : \A x \in Held(k) \cap Held(k)' :
         /\ x \notin finished' \ finished
         /\ x \in Watched' => x \in Watched /\ promised[x] <= promised'[x]
  <2>1. \A k \in Managers : Held(k) \subseteq Bearers
    BY <1>0, HeldFacts
  <2> QED
    BY <1>2, <1>4, <2>1
<1> QED
  BY <1>1, <1>2, <1>3, <1>4, <1>5, RunningStep

LEMMA PortalStep ==
    ASSUME WebInv, NEW t \in Bearers, NEW outcome, endUserPortal(t, outcome)
    PROVE  WebInv'
<1>0. /\ TypesInv /\ PlacesInv /\ serving /\ visitFrame
      /\ t \in handedOut /\ t \in DOMAIN browsing["user"] /\ serving' = serving /\ KeepsIdentity
  BY DEF WebInv, endUserPortal, visitFrame, KeepsIdentity
<1>1. \/ /\ browsing' = [browsing EXCEPT !["user"] = without(@, {t})]
         /\ UNCHANGED <<sessionFile, activity, finished, promised>>
      \/ /\ presents("user", t)
         /\ browsing' = touched("user", t) /\ promised' = renewed(t)
         /\ activity' \in scheduled("user")
         /\ UNCHANGED <<sessionFile, finished>>
      \/ presents("user", t) /\ Removed("user", t, outcome)
  BY DEF endUserPortal
<1>2. CASE /\ browsing' = [browsing EXCEPT !["user"] = without(@, {t})]
           /\ UNCHANGED <<sessionFile, activity, finished, promised>>
  <2>1. /\ DOMAIN browsing' = Managers /\ browsing'["user"] = without(browsing["user"], {t})
        /\ \A k \in Managers \ {"user"} : browsing'[k] = browsing[k]
    BY <1>0, <1>2, TwoManagers DEF TypesInv
  <2>2. /\ Descends(browsing'["user"], browsing["user"])
        /\ DOMAIN browsing'["user"] = DOMAIN browsing["user"] \ {t}
    <3>1. /\ Descends(without(browsing["user"], {t}), browsing["user"])
          /\ DOMAIN without(browsing["user"], {t}) = DOMAIN browsing["user"] \ {t}
      BY WithoutDescends
    <3> QED
      BY <2>1, <3>1
  <2>3. Sized(browsing["user"]) /\ Held("user") \subseteq Bearers
    BY <1>0, HeldFacts, TwoManagers DEF Places
  <2>4. Sized(browsing'["user"]) /\ Follows(browsing'["user"], browsing["user"], Blank, Blank)
    BY <2>2, <2>3, DescendsSized, DescendsFollows
  <2>5. DOMAIN activity'["user"].snapshot \subseteq DOMAIN browsing'["user"] \cup handedOut'
    BY <1>0, <1>2, <2>2, TwoManagers DEF PlacesInv, visitFrame
  <2>6. StepOf("user", Blank, Blank)
    BY <1>2, <2>4, <2>5 DEF StepOf, Descends
  <2>7. Blank \notin Held("user")'
    BY <1>2, <2>2, <2>3, Limits DEF Held
  <2>8. MapsTyped' /\ \A k \in Managers \ {"user"} : Quiet(k)
    BY <1>0, <1>2, <2>1 DEF MapsTyped, TypesInv, Quiet
  <2> QED
    BY <1>0, <1>2, <2>6, <2>7, <2>8, EndedRun, TwoManagers
<1>3. CASE /\ presents("user", t)
           /\ browsing' = touched("user", t) /\ promised' = renewed(t)
           /\ activity' \in scheduled("user")
           /\ UNCHANGED <<sessionFile, finished>>
  <2>1. /\ KeepsIdentity /\ storeUsers' = storeUsers /\ handedOut' = handedOut
        /\ requests' = requests /\ gate' = gate /\ hour' = hour /\ operator' = operator
    BY <1>0, VisitKeeps
  <2>2. RequestsInv' /\ GateInv' /\ requests' \in [Requests -> RequestRecord] /\ Watched' = Watched
    BY <2>1, SameRequests
  <2> QED
    BY <1>3, <2>1, <2>2, SeenRun, TwoManagers
<1>4. CASE presents("user", t) /\ Removed("user", t, outcome)
  BY <1>0, <1>4, RemovedRun, TwoManagers
<1> QED
  BY <1>1, <1>2, <1>3, <1>4

LEMMA BeginActivityStep ==
    ASSUME WebInv, NEW m \in Managers, beginActivity(m)
    PROVE  WebInv'
<1>0. /\ TypesInv /\ PlacesInv /\ serving /\ visitFrame /\ serving' = serving
      /\ UNCHANGED <<browsing, sessionFile, finished, promised>>
      /\ activity' = [activity EXCEPT ![m] = [phase |-> "writing", snapshot |-> browsing[m]]]
  BY DEF WebInv, beginActivity, visitFrame
<1>1. /\ DOMAIN activity' = Managers /\ activity'[m] = [phase |-> "writing", snapshot |-> browsing[m]]
      /\ \A k \in Managers \ {m} : activity'[k] = activity[k]
  BY <1>0 DEF TypesInv
<1>2. MapsTyped' /\ \A k \in Managers \ {m} : Quiet(k)
  BY <1>0, <1>1 DEF TypesInv, MapsTyped, Quiet
<1>3. Sized(browsing[m]) /\ Held(m) \subseteq Bearers
  BY <1>0, HeldFacts DEF Places
<1>4. StepOf(m, Blank, Blank)
  BY <1>0, <1>1, <1>3 DEF StepOf, Descends, Follows
<1>5. Blank \notin Held(m)'
  BY <1>0, <1>1, <1>3, Limits DEF Held
<1> QED
  BY <1>0, <1>2, <1>4, <1>5, EndedRun

LEMMA PersistActivityStep ==
    ASSUME WebInv, NEW m \in Managers, NEW outcome, persistSessionActivity(m, outcome)
    PROVE  WebInv'
<1>0. /\ TypesInv /\ StandingInv /\ PlacesInv /\ visitFrame /\ activity[m].phase = "writing"
      /\ UNCHANGED <<browsing, finished, promised>>
      /\ persistSessionSnapshot(m, outcome, activity[m].snapshot, boundTo(m))
      /\ activity' = [activity EXCEPT ![m] = asleep]
  BY DEF WebInv, persistSessionActivity, activityDone
<1>1. serving /\ serving' = serving
  BY <1>0 DEF StandingInv, Asleep, asleep, visitFrame
<1>2. /\ DOMAIN activity' = Managers /\ activity'[m] = [phase |-> "none", snapshot |-> NoSessions]
      /\ \A k \in Managers \ {m} : activity'[k] = activity[k]
  BY <1>0 DEF TypesInv, asleep
<1>3. /\ DOMAIN sessionFile' = Managers
      /\ \/ sessionFile'[m] = sessionFile[m]
         \/ sessionFile'[m] = [binding |-> boundTo(m), sessions |-> activity[m].snapshot]
      /\ \A k \in Managers \ {m} : sessionFile'[k] = sessionFile[k]
  BY <1>0 DEF TypesInv, persistSessionSnapshot, replaced
<1>4. MapsTyped' /\ \A k \in Managers \ {m} : Quiet(k)
  BY <1>0, <1>2, <1>3 DEF TypesInv, MapsTyped, Quiet
<1>5. Sized(browsing[m]) /\ Sized(activity[m].snapshot) /\ Held(m) \subseteq Bearers
  BY <1>0, HeldFacts DEF Places
<1>6. DOMAIN activity'[m].snapshot = {}
  BY <1>2, Emptied
<1>7. StepOf(m, Blank, Blank)
  BY <1>0, <1>3, <1>5, <1>6 DEF StepOf, Descends, Follows
<1>8. Blank \notin Held(m)'
  BY <1>0, <1>3, <1>5, <1>6, Limits DEF Held
<1> QED
  BY <1>0, <1>1, <1>4, <1>7, <1>8, EndedRun

-----------------------------------------------------------------------------
(* An account changes, in memory and in the file or, when the write fails  *)
(* or is not known to have worked, in neither or in the file alone.        *)

(* No session that was vouched for is one of the account as it becomes.    *)
Succeeds(a, b) == a.rev < b.rev \/ (a.rev = b.rev /\ a.name = Blank)

AccountStep(u, a) ==
    LET accs == [accounts EXCEPT ![u] = a]
    IN  /\ serving /\ serving' /\ hour' = hour /\ storeUsers' = storeUsers
        /\ legacyFile' = legacyFile /\ operator' = operator /\ binding' = binding
        /\ IsBook(accs) /\ loadUnifiedIdentities(unifiedDocument(accs, operator))
        /\ Succeeds(accounts[u], a) \/ (u \notin storeUsers /\ a.rev = 0)
        /\ \/ accounts' = accs /\ identityFile' = unifiedDocument(accs, operator)
           \/ accounts' = accounts /\ identityFile' = unifiedDocument(accs, operator)
           \/ accounts' = accounts /\ identityFile' = identityFile

LEMMA SucceedsVouched ==
    ASSUME NEW s, NEW a, NEW b, s.rev \in Nat, a.rev \in Nat, b.rev \in Nat, Succeeds(a, b), Vouched(s, a)
    PROVE  Vouched(s, b)
BY DEF Succeeds, Vouched

LEMMA AccountsAfter ==
    ASSUME TypesInv, StandingInv, NEW u \in EndUsers, NEW a, AccountStep(u, a)
    PROVE  /\ IsBook(accounts') /\ IsBook(identityFile'.accounts)
           /\ identityFile' \in [version : {2, 3}, admin : AdminRecord, accounts : {identityFile'.accounts}]
           /\ identityFile'.version = 3 /\ identityFile'.admin = operator /\ identityFile.admin = operator
           /\ \A v \in EndUsers \ {u} :
                 accounts'[v] = accounts[v] /\ identityFile'.accounts[v] \in {identityFile.accounts[v], accounts[v]}
           /\ \/ accounts'[u] = a /\ identityFile'.accounts[u] = a
              \/ accounts'[u] = accounts[u] /\ identityFile'.accounts[u] \in {identityFile.accounts[u], a}
           /\ \A v \in EndUsers :
                 accounts[v].rev \in Nat /\ identityFile.accounts[v].rev \in Nat
                 /\ accounts'[v].rev \in Nat /\ identityFile'.accounts[v].rev \in Nat
           /\ a.rev \in Nat
<1> DEFINE accs == [accounts EXCEPT ![u] = a]
<1>1. /\ serving /\ IsBook(accs) /\ IsBook(accounts) /\ IsBook(identityFile.accounts)
      /\ \/ accounts' = accs /\ identityFile' = unifiedDocument(accs, operator)
         \/ accounts' = accounts /\ identityFile' = unifiedDocument(accs, operator)
         \/ accounts' = accounts /\ identityFile' = identityFile
      /\ identityFile.version = 3 /\ identityFile.admin = operator /\ operator \in AdminRecord
      /\ identityFile \in [version : {2, 3}, admin : AdminRecord, accounts : {identityFile.accounts}]
  BY DEF AccountStep, TypesInv, StandingInv
<1>2. DOMAIN accounts = EndUsers
  BY <1>1 DEF IsBook, IsAccounts
<1>3. accs[u] = a /\ \A v \in EndUsers \ {u} : accs[v] = accounts[v]
  BY <1>2
<1> HIDE DEF accs
<1>4. PICK doc : doc = unifiedDocument(accs, operator)
  OBVIOUS
<1>5. doc.version = 3 /\ doc.admin = operator /\ doc.accounts = accs
      /\ doc \in [version : {2, 3}, admin : AdminRecord, accounts : {doc.accounts}]
  BY <1>1, <1>4 DEF unifiedDocument
<1>6. /\ IsBook(accounts') /\ IsBook(identityFile'.accounts)
      /\ identityFile' \in [version : {2, 3}, admin : AdminRecord, accounts : {identityFile'.accounts}]
      /\ identityFile'.version = 3 /\ identityFile'.admin = operator
  BY <1>1, <1>4, <1>5
<1>7. \A v \in EndUsers \ {u} :
          accounts'[v] = accounts[v] /\ identityFile'.accounts[v] \in {identityFile.accounts[v], accounts[v]}
  BY <1>1, <1>3, <1>4, <1>5
<1>8. \/ accounts'[u] = a /\ identityFile'.accounts[u] = a
      \/ accounts'[u] = accounts[u] /\ identityFile'.accounts[u] \in {identityFile.accounts[u], a}
  BY <1>1, <1>3, <1>4, <1>5
<1>9. \A v \in EndUsers :
          accounts[v].rev \in Nat /\ identityFile.accounts[v].rev \in Nat
          /\ accounts'[v].rev \in Nat /\ identityFile'.accounts[v].rev \in Nat
  BY <1>1, <1>6 DEF IsBook, IsAccounts
<1>10. a.rev \in Nat
  BY <1>1, <1>3 DEF IsBook, IsAccounts
<1> QED
  BY <1>1, <1>6, <1>7, <1>8, <1>9, <1>10

LEMMA AccountsStanding ==
    ASSUME TypesInv, StandingInv, NEW u \in EndUsers, NEW a, AccountStep(u, a),
           \A x \in finished', v \in EndUsers : x # accounts'[v].invite /\ x # identityFile'.accounts[v].invite
    PROVE  StandingInv'
<1>1. /\ identityFile'.version = 3 /\ identityFile'.admin = operator /\ identityFile.admin = operator
      /\ \A v \in EndUsers \ {u} :
            accounts'[v] = accounts[v] /\ identityFile'.accounts[v] \in {identityFile.accounts[v], accounts[v]}
      /\ \/ accounts'[u] = a /\ identityFile'.accounts[u] = a
         \/ accounts'[u] = accounts[u] /\ identityFile'.accounts[u] \in {identityFile.accounts[u], a}
      /\ \A v \in EndUsers :
            accounts[v].rev \in Nat /\ identityFile.accounts[v].rev \in Nat
            /\ accounts'[v].rev \in Nat /\ identityFile'.accounts[v].rev \in Nat
      /\ a.rev \in Nat
  BY AccountsAfter
<1>2. /\ serving /\ serving' /\ operator' = operator /\ binding' = binding /\ storeUsers' = storeUsers
      /\ storeUsers \subseteq EndUsers /\ (u \in storeUsers => Succeeds(accounts[u], a))
      /\ \A v \in storeUsers : Ahead(accounts[v], identityFile.accounts[v])
  BY DEF AccountStep, StandingInv, TypesInv
<1>3. Ahead(accounts[u], identityFile.accounts[u]) /\ u \in storeUsers => Ahead(accounts[u], a)
  BY <1>1, <1>2 DEF Ahead, Succeeds
<1>4. \A v \in storeUsers' : Ahead(accounts'[v], identityFile'.accounts[v])
  <2>1. TAKE v \in storeUsers'
  <2>2. v \in EndUsers /\ v \in storeUsers
    BY <1>2
  <2>3. CASE v # u
    BY <1>1, <1>2, <2>2, <2>3 DEF Ahead
  <2>4. CASE v = u
    BY <1>1, <1>2, <1>3, <2>2, <2>4 DEF Ahead
  <2> QED
    BY <2>3, <2>4
<1>5. loadUnifiedIdentities(unifiedDocument(accounts', operator'))
      /\ loadUnifiedIdentities(identityFile')
  BY <1>2 DEF AccountStep, StandingInv
<1>6. /\ binding' = <<binding'[1], operator', binding'[3]>> /\ binding'[1] \in {2, 3}
      /\ (binding'[1] = 3 => binding'[3] = NoAccounts)
  BY <1>2 DEF StandingInv
<1>7. (loadUnifiedIdentities(unifiedDocument(accounts, operator)))' /\ (loadUnifiedIdentities(identityFile))'
  BY <1>5 DEF loadUnifiedIdentities, unifiedDocument, Known
<1>8. \A v \in storeUsers' : (Ahead(accounts[v], identityFile.accounts[v]))'
  BY <1>4 DEF Ahead
<1> QED
  BY <1>1, <1>2, <1>6, <1>7, <1>8 DEF StandingInv

(* The session that is opened has the credential of the account as it is   *)
(* now.                                                                    *)
NewAccountCredential(t, s) ==
    t \in Held("user")' =>
        /\ s.owner \in storeUsers =>
              Vouched(s, identityFile'.accounts[s.owner]) /\ Vouched(s, accounts'[s.owner])
        /\ accounts'[s.owner].rev = 0 \/ Vouched(s, accounts'[s.owner])

LEMMA AccountsCredential ==
    ASSUME TypesInv, StandingInv, PlacesInv, CredentialInv, NEW u \in EndUsers, NEW a, AccountStep(u, a),
           NEW t, NEW s, StepOf("user", t, s), Quiet("admin"), NewAccountCredential(t, s),
           \/ accounts[u].rev > 0 \/ a.rev = 0
           \/ \A x \in DOMAIN browsing'["user"] : browsing'["user"][x].owner # u
    PROVE  CredentialInv'
<1>1. /\ identityFile'.version = 3 /\ identityFile'.admin = operator /\ identityFile.admin = operator
      /\ \A v \in EndUsers \ {u} :
            accounts'[v] = accounts[v] /\ identityFile'.accounts[v] \in {identityFile.accounts[v], accounts[v]}
      /\ \/ accounts'[u] = a /\ identityFile'.accounts[u] = a
         \/ accounts'[u] = accounts[u] /\ identityFile'.accounts[u] \in {identityFile.accounts[u], a}
      /\ \A v \in EndUsers :
            accounts[v].rev \in Nat /\ identityFile.accounts[v].rev \in Nat
            /\ accounts'[v].rev \in Nat /\ identityFile'.accounts[v].rev \in Nat
      /\ a.rev \in Nat
  BY AccountsAfter
<1>2. /\ serving /\ serving' /\ operator' = operator /\ storeUsers' = storeUsers /\ storeUsers \subseteq EndUsers
      /\ Succeeds(accounts[u], a) \/ (u \notin storeUsers /\ a.rev = 0)
  BY DEF AccountStep, TypesInv
<1>3. /\ \A map \in Places("user") : Sized(map)
      /\ \A map \in Places("user") : \A x \in DOMAIN map :
            map[x] \in SessionRecord /\ map[x].owner \in EndUsers /\ map[x].rev > 0 /\ map[x].rev \in Nat
  BY HeldFacts, TwoManagers DEF Lasting, OwnersOf, SessionRecord
<1>4. ASSUME NEW z \in SessionRecord, z.owner \in storeUsers,
             Vouched(z, identityFile.accounts[z.owner]), Vouched(z, accounts[z.owner])
      PROVE  Vouched(z, identityFile'.accounts[z.owner]) /\ Vouched(z, accounts'[z.owner])
  <2>1. z.owner \in EndUsers /\ z.rev \in Nat
    BY <1>2, <1>4 DEF SessionRecord
  <2>2. CASE z.owner # u
    BY <1>1, <1>4, <2>1, <2>2
  <2>3. CASE z.owner = u
    <3>1. Vouched(z, a)
      BY <1>1, <1>2, <1>4, <2>1, <2>3, SucceedsVouched
    <3> QED
      BY <1>1, <1>4, <2>3, <3>1
  <2> QED
    BY <2>2, <2>3
<1>5. \A map \in Places("user")' : /\ DOMAIN map \subseteq Held("user")'
                                   /\ \E old \in Places("user") : Follows(map, old, t, s)
  <2>1. /\ DOMAIN browsing'["user"] \subseteq Held("user")' /\ DOMAIN activity'["user"].snapshot \subseteq Held("user")'
        /\ DOMAIN sessionFile'["user"].sessions \subseteq Held("user")'
    BY DEF Held
  <2>2. \E old \in Places("user") : Follows(browsing'["user"], old, t, s)
    BY DEF StepOf, Places
  <2>3. \E old \in Places("user") : Follows(sessionFile'["user"].sessions, old, t, s)
    BY DescendsFollows DEF StepOf, Places
  <2>4. \E old \in Places("user") : Follows(activity'["user"].snapshot, old, t, s)
    BY DescendsFollows DEF StepOf, Places
  <2> QED
    BY <2>1, <2>2, <2>3, <2>4 DEF Places
<1>6. \A map \in Places("user")' : \A x \in DOMAIN map : map[x].owner \in storeUsers =>
          /\ Vouched(map[x], identityFile'.accounts[map[x].owner])
          /\ Vouched(map[x], accounts'[map[x].owner])
  <2>1. TAKE map \in Places("user")'
  <2>2. TAKE x \in DOMAIN map
  <2>3. HAVE map[x].owner \in storeUsers
  <2>4. PICK old \in Places("user") : Follows(map, old, t, s)
    BY <1>5
  <2>5. CASE x \in DOMAIN old /\ map[x] = old[x]
    <3>1. old[x] \in SessionRecord
      BY <1>3, <2>5
    <3>2. Vouched(old[x], identityFile.accounts[old[x].owner]) /\ Vouched(old[x], accounts[old[x].owner])
      BY <1>2, <2>3, <2>5 DEF CredentialInv
    <3> QED
      BY <1>4, <2>3, <2>5, <3>1, <3>2
  <2>6. CASE x = t /\ map[x] = s
    <3>1. t \in Held("user")'
      BY <1>5, <2>6
    <3> QED
      BY <2>3, <2>6, <3>1 DEF NewAccountCredential
  <2> QED
    BY <2>4, <2>5, <2>6 DEF Follows
<1>7. \A x \in DOMAIN browsing'["user"] :
          \/ accounts'[browsing'["user"][x].owner].rev = 0
          \/ Vouched(browsing'["user"][x], accounts'[browsing'["user"][x].owner])
  <2>1. TAKE x \in DOMAIN browsing'["user"]
  <2> DEFINE z == browsing'["user"][x]
  <2>2. Follows(browsing'["user"], browsing["user"], t, s) /\ browsing["user"] \in Places("user")
    BY DEF StepOf, Places
  <2>3. CASE x \in DOMAIN browsing["user"] /\ z = browsing["user"][x]
    <3>1. z.owner \in EndUsers /\ z.rev > 0 /\ z.rev \in Nat
      BY <1>3, <2>2, <2>3
    <3>2. accounts[z.owner].rev = 0 \/ Vouched(z, accounts[z.owner])
      BY <2>3 DEF CredentialInv
    <3>3. CASE accounts'[z.owner] = accounts[z.owner]
      BY <3>2, <3>3
    <3>4. CASE accounts'[z.owner] # accounts[z.owner]
      <4>1. z.owner = u /\ accounts'[u] = a
        BY <1>1, <3>1, <3>4
      <4>2. a.rev = 0 \/ accounts[u].rev > 0
        BY <2>1, <4>1
      <4>3. CASE a.rev = 0
        BY <4>1, <4>3
      <4>4. CASE a.rev # 0
        <5>1. Vouched(z, accounts[u]) /\ Succeeds(accounts[u], a)
          BY <1>1, <1>2, <3>2, <4>1, <4>2, <4>4
        <5> QED
          BY <1>1, <3>1, <4>1, <5>1, SucceedsVouched
      <4> QED
        BY <4>3, <4>4
    <3> QED
      BY <3>3, <3>4
  <2>4. CASE x = t /\ z = s
    <3>1. t \in Held("user")'
      BY <2>1, <2>4 DEF Held
    <3> QED
      BY <2>4, <3>1 DEF NewAccountCredential
  <2> QED
    BY <2>2, <2>3, <2>4 DEF Follows
<1>8. /\ \A map \in {browsing["admin"], activity["admin"].snapshot}' : \A x \in DOMAIN map :
            map[x].secret = operator'.secret /\ map[x].rev = operator'.rev
      /\ \A x \in DOMAIN sessionFile'["admin"].sessions :
            BoundTo(sessionFile["admin"].binding, sessionFile["admin"].sessions[x])'
  BY <1>1, <1>2 DEF CredentialInv, Quiet, BoundTo
<1>9. \A map \in Places("user")' : \A x \in DOMAIN map : map[x].owner \in storeUsers' =>
          /\ Vouched(map[x], identityFile'.accounts[map[x].owner])
          /\ serving' => Vouched(map[x], accounts'[map[x].owner])
  BY <1>2, <1>6
<1>10. \A x \in DOMAIN browsing'["user"] :
          LET z == browsing'["user"][x]
          IN  accounts'[z.owner].rev = 0 \/ Vouched(z, accounts'[z.owner])
  BY <1>7
<1> QED
  BY <1>8, <1>9, <1>10 DEF CredentialInv, Vouched

LEMMA AccountsRun ==
    ASSUME WebInv, NEW u \in EndUsers, NEW a, AccountStep(u, a),
           handedOut \subseteq handedOut', handedOut' \subseteq Bearers, finished' \subseteq handedOut',
           promised' \in [Bearers -> Nat], \A x \in Bearers : promised'[x] <= hour' + IdleTimeout,
           requests' \in [Requests -> RequestRecord], MapsTyped', RequestsInv', GateInv',
           NEW t, NEW s, StepOf("user", t, s), Quiet("admin"), NewOk("user", t, s), NewAccountCredential(t, s),
           t \in Held("user")' => t \notin Held("admin"),
           \/ accounts[u].rev > 0 \/ a.rev = 0
           \/ \A x \in DOMAIN browsing'["user"] : browsing'["user"][x].owner # u,
           \A x \in finished', v \in EndUsers : x # accounts'[v].invite /\ x # identityFile'.accounts[v].invite,
           \A k \in Managers : \A x \in Held(k) \cap Held(k)' :
              /\ x \notin finished' \ finished /\ x # a.invite
              /\ x \in Watched' => x \in Watched /\ promised[x] <= promised'[x]
    PROVE  WebInv'
<1>0. TypesInv /\ StandingInv /\ PlacesInv /\ CredentialInv
  BY DEF WebInv
<1>1. /\ IsBook(accounts') /\ IsBook(identityFile'.accounts)
      /\ identityFile' \in [version : {2, 3}, admin : AdminRecord, accounts : {identityFile'.accounts}]
      /\ \A v \in EndUsers \ {u} :
            accounts'[v] = accounts[v] /\ identityFile'.accounts[v] \in {identityFile.accounts[v], accounts[v]}
      /\ \/ accounts'[u] = a /\ identityFile'.accounts[u] = a
         \/ accounts'[u] = accounts[u] /\ identityFile'.accounts[u] \in {identityFile.accounts[u], a}
  BY <1>0, AccountsAfter
<1>2. /\ serving /\ serving' /\ hour' = hour /\ storeUsers' = storeUsers
      /\ legacyFile' = legacyFile /\ operator' = operator /\ hour \in Nat
  BY <1>0 DEF AccountStep, TypesInv
<1>3. TypesInv'
  BY <1>0, <1>1, <1>2 DEF TypesInv, MapsTyped, IsBook, IsAccounts
<1>4. ASSUME NEW k \in Managers
      PROVE  EnvOf(k)
  <2>1. ASSUME NEW x \in Held(k) \cap Held(k)'
        PROVE  /\ x \notin finished'
               /\ \A v \in EndUsers : x # accounts'[v].invite /\ x # identityFile'.accounts[v].invite
               /\ x \in Watched' => x \in Watched /\ promised[x] <= promised'[x]
    <3>1. PICK map \in Places(k) : x \in DOMAIN map
      BY <2>1 DEF Held, Places
    <3>2. Lasting(k, x, map[x])
      BY <1>0, <3>1, HeldFacts
    <3>3. /\ x \notin finished
          /\ \A v \in EndUsers : x # accounts[v].invite /\ x # identityFile.accounts[v].invite
      BY <3>2 DEF Lasting
    <3>4. /\ x \notin finished' \ finished /\ x # a.invite
          /\ x \in Watched' => x \in Watched /\ promised[x] <= promised'[x]
      BY <2>1
    <3> QED
      BY <1>1, <3>3, <3>4
  <2> QED
    BY <1>2, <2>1 DEF EnvOf
<1>5. PlacesInv'
  BY <1>0, <1>4, OneStep, TwoManagers
<1>6. StandingInv'
  BY <1>0, AccountsStanding
<1>7. CredentialInv'
  BY <1>0, AccountsCredential
<1> QED
  BY <1>3, <1>5, <1>6, <1>7 DEF WebInv

-----------------------------------------------------------------------------
(* Invitations, claims and removals.                                       *)

LEMMA BookChanged ==
    ASSUME IsBook(accounts), NEW u \in EndUsers,
           NEW a \in [rev : Nat, name : Logins \cup {Blank}, secret : Passwords \cup {Blank},
                      invite : Bearers \cup {Blank}, until : Nat],
           a.rev = 0 => a = NoAccount,
           a.invite = Blank \/ \A v \in EndUsers \ {u} : accounts[v].invite # a.invite
    PROVE  IsBook([accounts EXCEPT ![u] = a])
<1> DEFINE accs == [accounts EXCEPT ![u] = a]
<1>1. /\ accs[u] = a /\ \A v \in EndUsers \ {u} : accs[v] = accounts[v]
      /\ IsAccounts(accs)
  BY DEF IsBook, IsAccounts
<1> HIDE DEF accs
<1>2. \A v \in EndUsers : accs[v].rev = 0 => accs[v] = NoAccount
  BY <1>1 DEF IsBook
<1>3. \A v, w \in EndUsers : v # w /\ accs[v].invite # Blank => accs[v].invite # accs[w].invite
  BY <1>1 DEF IsBook
<1>4. IsBook(accs)
  BY <1>1, <1>2, <1>3 DEF IsBook
<1> QED
  BY <1>4 DEF accs

LEMMA NamesChanged ==
    ASSUME TypesInv, StandingInv, serving, NEW u \in EndUsers, NEW a,
           a.name = Blank \/ (a.invite = Blank /\ ~nameTaken(u, a.name))
    PROVE  loadUnifiedIdentities(unifiedDocument([accounts EXCEPT ![u] = a], operator))
<1> DEFINE accs == [accounts EXCEPT ![u] = a]
<1>1. DOMAIN accounts = EndUsers /\ loadUnifiedIdentities(unifiedDocument(accounts, operator))
  BY DEF TypesInv, IsBook, IsAccounts, StandingInv
<1>2. accs[u] = a /\ \A v \in EndUsers \ {u} : accs[v] = accounts[v]
  BY <1>1
<1> HIDE DEF accs
<1>3. /\ \A v \in Known(accounts) : accounts[v].name # Blank => accounts[v].name # operator.name
      /\ \A v, w \in Known(accounts) : v # w /\ accounts[v].name # Blank => accounts[v].name # accounts[w].name
      /\ \A v \in Known(accounts) : accounts[v].name = Blank \/ accounts[v].invite = Blank
  BY <1>1 DEF loadUnifiedIdentities, unifiedDocument
<1>4. \A v \in Known(accs) \ {u} : v \in Known(accounts) /\ accs[v] = accounts[v] /\ v \in EndUsers
  BY <1>2 DEF Known
<1>5. a.name # Blank => /\ a.invite = Blank /\ a.name # operator.name
                        /\ \A v \in Known(accounts) \ {u} : accounts[v].name # a.name
  BY DEF nameTaken
<1>6. /\ \A v \in Known(accs) : accs[v].name # Blank => accs[v].name # operator.name
      /\ \A v \in Known(accs) : accs[v].name = Blank \/ accs[v].invite = Blank
  BY <1>2, <1>3, <1>4, <1>5
<1>7. \A v, w \in Known(accs) : v # w /\ accs[v].name # Blank => accs[v].name # accs[w].name
  BY <1>2, <1>3, <1>4, <1>5
<1>8. loadUnifiedIdentities(unifiedDocument(accs, operator))
  BY <1>6, <1>7 DEF loadUnifiedIdentities, unifiedDocument
<1> QED
  BY <1>8 DEF accs

(* The write of the accounts: both, the file alone or neither.             *)
LEMMA AccountsWritten ==
    ASSUME NEW u, NEW a, NEW outcome, persistAccounts(outcome, [accounts EXCEPT ![u] = a]),
           accounts' = IF outcome = "written" THEN [accounts EXCEPT ![u] = a] ELSE accounts
    PROVE  \/ /\ accounts' = [accounts EXCEPT ![u] = a]
              /\ identityFile' = unifiedDocument([accounts EXCEPT ![u] = a], operator)
           \/ accounts' = accounts /\ identityFile' = unifiedDocument([accounts EXCEPT ![u] = a], operator)
           \/ accounts' = accounts /\ identityFile' = identityFile
BY DEF persistAccounts, replaced

(* A user's sessions end, in memory, in the file or in neither.            *)
LEMMA UserSessionsEnd ==
    ASSUME TypesInv, PlacesInv, lifecycleFree("user"), activity' = activity, handedOut \subseteq handedOut',
           NEW u, NEW kept, kept = without(browsing["user"], sessionsOf(browsing["user"], u)),
           \/ browsing' = [browsing EXCEPT !["user"] = kept]
           \/ browsing' = [browsing EXCEPT !["user"] = browsing["user"]],
           NEW outcome, \/ sessionFile' = sessionFile
                        \/ persistSessionSnapshot("user", outcome, kept, Blank)
    PROVE  /\ StepOf("user", Blank, Blank) /\ Quiet("admin") /\ MapsTyped' /\ Blank \notin Held("user")'
           /\ browsing' = [browsing EXCEPT !["user"] = kept] =>
                 \A x \in DOMAIN browsing'["user"] : browsing'["user"][x].owner # u
<1>1. /\ Descends(kept, browsing["user"])
      /\ DOMAIN kept = DOMAIN browsing["user"] \ sessionsOf(browsing["user"], u)
  <2>1. /\ Descends(without(browsing["user"], sessionsOf(browsing["user"], u)), browsing["user"])
        /\ DOMAIN without(browsing["user"], sessionsOf(browsing["user"], u))
             = DOMAIN browsing["user"] \ sessionsOf(browsing["user"], u)
    BY WithoutDescends
  <2> QED
    BY <2>1
<1>2. Sized(browsing["user"]) /\ Held("user") \subseteq Bearers
  BY HeldFacts, TwoManagers DEF Places
<1>3. Sized(kept)
  BY <1>1, <1>2, DescendsSized
<1>4. /\ DOMAIN browsing' = Managers /\ browsing'["admin"] = browsing["admin"]
      /\ browsing'["user"] = kept \/ browsing'["user"] = browsing["user"]
      /\ browsing' = [browsing EXCEPT !["user"] = kept] => browsing'["user"] = kept
  BY TwoManagers DEF TypesInv
<1>5. /\ DOMAIN sessionFile' = Managers /\ sessionFile'["admin"] = sessionFile["admin"]
      /\ \/ sessionFile'["user"] = sessionFile["user"]
         \/ sessionFile'["user"] = [binding |-> Blank, sessions |-> kept]
  BY TwoManagers DEF TypesInv, persistSessionSnapshot, replaced
<1>6. activity["user"].snapshot = NoSessions /\ DOMAIN activity'["user"].snapshot = {}
  BY NoSnapshotNow, TwoManagers
<1>7. Follows(browsing'["user"], browsing["user"], Blank, Blank) /\ Sized(browsing'["user"])
  BY <1>1, <1>2, <1>3, <1>4 DEF Follows, Descends
<1>8. \/ /\ sessionFile'["user"].binding = sessionFile["user"].binding
         /\ Descends(sessionFile'["user"].sessions, sessionFile["user"].sessions)
      \/ /\ sessionFile'["user"].binding = boundTo("user") /\ Sized(sessionFile'["user"].sessions)
         /\ Follows(sessionFile'["user"].sessions, browsing["user"], Blank, Blank)
  BY <1>1, <1>3, <1>5, DescendsFollows DEF Descends, boundTo
<1>9. StepOf("user", Blank, Blank)
  BY <1>6, <1>7, <1>8 DEF StepOf, Descends
<1>10. Quiet("admin") /\ MapsTyped'
  BY <1>4, <1>5, TwoManagers DEF Quiet, MapsTyped, TypesInv
<1>11. Blank \notin Held("user")'
  BY <1>1, <1>2, <1>4, <1>5, <1>6, Limits DEF Held, Descends
<1>12. \A x \in DOMAIN kept : kept[x].owner # u
  BY <1>1 DEF Descends, sessionsOf
<1> QED
  BY <1>4, <1>9, <1>10, <1>11, <1>12

LEMMA RemoveUserStep ==
    ASSUME WebInv, serving, NEW r \in Requests, requests[r].stage # "deriving", request(r, noRequest),
           NEW u \in EndUsers, u \notin storeUsers, NEW outcomes, RemoveUser(u, outcomes), lifecycleFree("user"),
           UNCHANGED <<serving, hour, storeUsers, legacyFile, operator, binding, activity, gate, handedOut, finished,
                       promised>>
    PROVE  WebInv'
<1>0. TypesInv /\ GateInv /\ RequestsInv /\ StandingInv /\ PlacesInv
  BY DEF WebInv
<1> DEFINE kept == without(browsing["user"], sessionsOf(browsing["user"], u))
<1>1. /\ NoAccount.rev = 0 /\ NoAccount.name = Blank /\ NoAccount.invite = Blank
      /\ NoAccount \in [rev : Nat, name : Logins \cup {Blank}, secret : Passwords \cup {Blank},
                        invite : Bearers \cup {Blank}, until : Nat]
  BY DEF NoAccount
<1>2. /\ persistAccounts(outcomes[1], [accounts EXCEPT ![u] = NoAccount])
      /\ accounts' = IF outcomes[1] = "written" THEN [accounts EXCEPT ![u] = NoAccount] ELSE accounts
      /\ sessionFile' = sessionFile \/ persistSessionSnapshot("user", outcomes[2], kept, Blank)
      /\ browsing' = [browsing EXCEPT !["user"] = kept] \/ browsing' = [browsing EXCEPT !["user"] = @]
  BY DEF RemoveUser
<1>3. AccountStep(u, NoAccount)
  <2>1. IsBook([accounts EXCEPT ![u] = NoAccount])
    BY <1>0, <1>1, BookChanged DEF TypesInv
  <2>2. loadUnifiedIdentities(unifiedDocument([accounts EXCEPT ![u] = NoAccount], operator))
    BY <1>0, <1>1, NamesChanged
  <2> QED
    BY <1>1, <1>2, <2>1, <2>2, AccountsWritten DEF AccountStep
<1>4. /\ StepOf("user", Blank, Blank) /\ Quiet("admin") /\ MapsTyped' /\ Blank \notin Held("user")'
  <2>2. PICK end : end = kept
    OBVIOUS
  <2> HIDE DEF kept
  <2>3. /\ \/ browsing' = [browsing EXCEPT !["user"] = end]
           \/ browsing' = [browsing EXCEPT !["user"] = browsing["user"]]
        /\ sessionFile' = sessionFile \/ persistSessionSnapshot("user", outcomes[2], end, Blank)
    BY <1>2, <2>2
  <2>4. end = without(browsing["user"], sessionsOf(browsing["user"], u))
    BY <2>2 DEF kept
  <2> QED
    BY <1>0, <2>3, <2>4, UserSessionsEnd
<1>5. RequestsMay /\ handedOut' \subseteq Bearers /\ finished' \subseteq handedOut' /\ promised' \in [Bearers -> Nat]
      /\ \A x \in Bearers : promised[x] \in Nat /\ promised'[x] <= hour' + IdleTimeout
  BY <1>0 DEF RequestsMay, TypesInv
<1>6. /\ RequestsInv' /\ requests' \in [Requests -> RequestRecord]
      /\ Watched' \subseteq Watched \cup handedOut' \cup {Blank}
  BY <1>0, <1>5, RequestStep, IdleRequest
<1>7. GateInv'
  BY <1>0, GateStep, IdleRequest
<1>8. NewOk("user", Blank, Blank) /\ NewAccountCredential(Blank, Blank)
  BY <1>4 DEF NewOk, NewAccountCredential
<1>9. \A x \in finished', v \in EndUsers : x # accounts'[v].invite /\ x # identityFile'.accounts[v].invite
  <2>1. /\ \A v \in EndUsers \ {u} :
              accounts'[v] = accounts[v] /\ identityFile'.accounts[v] \in {identityFile.accounts[v], accounts[v]}
        /\ \/ accounts'[u] = NoAccount /\ identityFile'.accounts[u] = NoAccount
           \/ accounts'[u] = accounts[u] /\ identityFile'.accounts[u] \in {identityFile.accounts[u], NoAccount}
    BY <1>0, <1>3, AccountsAfter
  <2>2. \A x \in finished : x # Blank /\ \A v \in EndUsers :
           x # accounts[v].invite /\ x # identityFile.accounts[v].invite
    BY <1>0, <1>5, Limits DEF StandingInv, TypesInv
  <2> QED
    BY <1>1, <2>1, <2>2
<1>10. \A k \in Managers : \A x \in Held(k) \cap Held(k)' :
          /\ x \notin finished' \ finished /\ x # NoAccount.invite
          /\ x \in Watched' => x \in Watched /\ promised[x] <= promised'[x]
  <2>1. \A k \in Managers : Held(k) \subseteq Bearers
    BY <1>0, HeldFacts
  <2>2. \A k \in Managers : \A x \in Held(k) : x \in Bearers /\ x # Blank
    BY <2>1, Limits
  <2> QED
    BY <1>1, <1>5, <1>6, <2>2 DEF Watched
<1> QED
  BY <1>0, <1>1, <1>3, <1>4, <1>5, <1>6, <1>7, <1>8, <1>9, <1>10, AccountsRun

LEMMA FinishDeleteStep ==
    ASSUME WebInv, NEW r \in Requests, NEW outcomes, finishDelete(r, outcomes)
    PROVE  WebInv'
<1>0. /\ TypesInv /\ StandingInv /\ RequestsInv /\ requests[r].stage = "removing" /\ lifecycleFree("user")
      /\ RemoveUser(requests[r].owner, outcomes) /\ request(r, noRequest)
      /\ UNCHANGED <<serving, hour, storeUsers, legacyFile, operator, binding, activity, gate, handedOut, finished,
                     promised>>
  BY DEF WebInv, finishDelete
<1>1. serving
  BY <1>0, RequestRuns
<1>2. PICK u : u = requests[r].owner
  OBVIOUS
<1>3. u \in EndUsers /\ u \notin storeUsers
  BY <1>0, <1>2 DEF RequestsInv, RequestOk
<1> QED
  BY <1>0, <1>1, <1>2, <1>3, RemoveUserStep

LEMMA FinishClaimStep ==
    ASSUME WebInv, NEW r \in Requests, NEW outcomes, finishClaim(r, outcomes)
    PROVE  WebInv'
<1>0. /\ TypesInv /\ GateInv /\ StandingInv /\ RequestsInv /\ PlacesInv
      /\ requests[r].stage = "claimed" /\ request(r, noRequest)
      /\ UNCHANGED <<serving, hour, storeUsers, legacyFile, operator, binding, activity, gate, finished, promised>>
  BY DEF WebInv, finishClaim
<1>1. serving
  BY <1>0, RequestRuns
<1>2. requests[r].owner \in EndUsers /\ requests[r].token \in Bearers /\ requests[r].token \in Watched
  BY <1>0 DEF RequestsInv, RequestOk, Watched
<1>3. CASE requests[r].owner \notin storeUsers
  <2>1. PICK u : u = requests[r].owner
    OBVIOUS
  <2>2. lifecycleFree("user") /\ RemoveUser(u, outcomes) /\ handedOut' = handedOut
    BY <1>3, <2>1 DEF finishClaim
  <2> QED
    BY <1>0, <1>1, <1>2, <1>3, <2>1, <2>2, RemoveUserStep
<1>4. CASE requests[r].owner \in storeUsers
  <2>1. /\ handedOut' = handedOut \cup {requests[r].token}
        /\ UNCHANGED <<accounts, identityFile, browsing, sessionFile, webLeft>>
    BY <1>4 DEF finishClaim
  <2>2. /\ KeepsIdentity /\ RequestsMay /\ handedOut' \subseteq Bearers /\ finished' \subseteq handedOut'
        /\ promised' \in [Bearers -> Nat]
        /\ \A x \in Bearers : promised[x] \in Nat /\ promised'[x] <= hour' + IdleTimeout
    BY <1>0, <1>1, <1>2, <2>1 DEF KeepsIdentity, RequestsMay, TypesInv
  <2>3. /\ RequestsInv' /\ requests' \in [Requests -> RequestRecord]
        /\ Watched' \subseteq Watched \cup handedOut' \cup {Blank}
    BY <1>0, <2>2, RequestStep, IdleRequest
  <2>4. Watched' \subseteq Watched \cup {Blank}
    BY <1>2, <2>1, <2>3 DEF Watched
  <2>5. GateInv'
    BY <1>0, GateStep, IdleRequest
  <2>6. MapsTyped' /\ \A k \in Managers : Quiet(k)
    BY <1>0, <2>1 DEF MapsTyped, TypesInv, Quiet
  <2>7. StepOf("user", Blank, Blank) /\ Blank \notin Held("user")'
    BY <1>0, <2>2, <2>6, QuietIsStep, TwoManagers DEF RequestsMay
  <2>8. NewOk("user", Blank, Blank) /\ NewCredential("user", Blank, Blank)
    BY <2>7 DEF NewOk, NewCredential
  <2>9. \A k \in Managers : \A x \in Held(k) \cap Held(k)' :
           /\ x \notin finished' \ finished
           /\ x \in Watched' => x \in Watched /\ promised[x] <= promised'[x]
    <3>1. \A k \in Managers : Held(k) \subseteq Bearers
      BY <1>0, HeldFacts
    <3> QED
      BY <1>0, <2>2, <2>4, <3>1, Limits
  <2> QED
    BY <1>0, <2>2, <2>3, <2>5, <2>6, <2>7, <2>8, <2>9, RunningStep, TwoManagers DEF RequestsMay
<1> QED
  BY <1>3, <1>4

LEMMA IssueStep ==
    ASSUME WebInv, NEW r \in Requests, NEW outcomes, IssueInvitation(r, outcomes)
    PROVE  WebInv'
<1>0. /\ TypesInv /\ GateInv /\ StandingInv /\ RequestsInv /\ PlacesInv
      /\ requests[r].stage = "inviting" /\ lifecycleFree("user") /\ request(r, noRequest)
      /\ UNCHANGED <<serving, hour, storeUsers, legacyFile, operator, binding, activity, gate, finished, promised>>
  BY DEF WebInv, IssueInvitation
<1>1. serving
  BY <1>0, RequestRuns
<1>2. PICK u \in EndUsers : u = requests[r].owner
  BY <1>0 DEF RequestsInv, RequestOk
<1>3. PICK kept : kept = without(browsing["user"], sessionsOf(browsing["user"], u))
  OBVIOUS
<1>t. PICK t \in Bearers :
         /\ drawn(t)
         /\ persistAccounts(outcomes[1], [accounts EXCEPT ![u] = invited(@, t)])
         /\ accounts' = IF outcomes[1] = "written" THEN [accounts EXCEPT ![u] = invited(@, t)] ELSE accounts
         /\ sessionFile' = sessionFile \/ persistSessionSnapshot("user", outcomes[2], kept, Blank)
         /\ handedOut' = handedOut \/ handedOut' = handedOut \cup {t}
  BY <1>2, <1>3 DEF IssueInvitation
<1>a. PICK a : a = invited(accounts[u], t)
  OBVIOUS
<1>4. /\ drawn(t) /\ a = invited(accounts[u], t)
      /\ persistAccounts(outcomes[1], [accounts EXCEPT ![u] = a])
      /\ accounts' = IF outcomes[1] = "written" THEN [accounts EXCEPT ![u] = a] ELSE accounts
      /\ sessionFile' = sessionFile \/ persistSessionSnapshot("user", outcomes[2], kept, Blank)
      /\ handedOut' = handedOut \/ handedOut' = handedOut \cup {t}
      /\ browsing' = [browsing EXCEPT !["user"] = kept]
  <2>1. browsing' = [browsing EXCEPT !["user"] = kept]
    BY <1>2, <1>3 DEF IssueInvitation
  <2> QED
    BY <1>t, <1>a, <2>1
<1>5. /\ t # Blank /\ t \notin handedOut /\ t \notin finished /\ \A k \in Managers : t \notin Held(k)
      /\ \A v \in EndUsers : t # accounts[v].invite /\ t # identityFile.accounts[v].invite
  BY <1>0, <1>4, Drawn
<1>6. /\ a = [rev |-> accounts[u].rev + 1, name |-> Blank, secret |-> Blank, invite |-> t,
              until |-> hour + InviteLifetime]
      /\ accounts[u].rev \in Nat /\ hour \in Nat
  BY <1>0, <1>4 DEF invited, TypesInv, IsBook, IsAccounts
<1>7. /\ a \in [rev : Nat, name : Logins \cup {Blank}, secret : Passwords \cup {Blank},
                invite : Bearers \cup {Blank}, until : Nat]
      /\ a.rev # 0 /\ a.rev = accounts[u].rev + 1 /\ a.name = Blank /\ a.invite = t
  BY <1>6, Limits
<1>8. AccountStep(u, a)
  <2>1. IsBook([accounts EXCEPT ![u] = a])
    BY <1>0, <1>5, <1>7, BookChanged DEF TypesInv
  <2>2. loadUnifiedIdentities(unifiedDocument([accounts EXCEPT ![u] = a], operator))
    BY <1>0, <1>1, <1>7, NamesChanged
  <2>3. Succeeds(accounts[u], a)
    BY <1>6, <1>7 DEF Succeeds
  <2>4. serving /\ serving' /\ hour' = hour /\ storeUsers' = storeUsers /\ legacyFile' = legacyFile
        /\ operator' = operator /\ binding' = binding
    BY <1>0, <1>1
  <2>5. \/ /\ accounts' = [accounts EXCEPT ![u] = a]
           /\ identityFile' = unifiedDocument([accounts EXCEPT ![u] = a], operator)
        \/ accounts' = accounts /\ identityFile' = unifiedDocument([accounts EXCEPT ![u] = a], operator)
        \/ accounts' = accounts /\ identityFile' = identityFile
    BY <1>4, AccountsWritten
  <2> QED
    BY <2>1, <2>2, <2>3, <2>4, <2>5 DEF AccountStep
<1>9. /\ StepOf("user", Blank, Blank) /\ Quiet("admin") /\ MapsTyped' /\ Blank \notin Held("user")'
      /\ \A x \in DOMAIN browsing'["user"] : browsing'["user"][x].owner # u
  BY <1>0, <1>3, <1>4, UserSessionsEnd
<1>10. /\ RequestsMay /\ handedOut' \subseteq Bearers /\ finished' \subseteq handedOut' /\ promised' \in [Bearers -> Nat]
       /\ \A x \in Bearers : promised[x] \in Nat /\ promised'[x] <= hour' + IdleTimeout
  BY <1>0, <1>4 DEF RequestsMay, TypesInv
<1>11. /\ RequestsInv' /\ requests' \in [Requests -> RequestRecord]
       /\ Watched' \subseteq Watched \cup handedOut' \cup {Blank}
  BY <1>0, <1>10, RequestStep, IdleRequest
<1>12. GateInv'
  BY <1>0, GateStep, IdleRequest
<1>13. NewOk("user", Blank, Blank) /\ NewAccountCredential(Blank, Blank)
  BY <1>9 DEF NewOk, NewAccountCredential
<1>14. \A x \in finished', v \in EndUsers : x # accounts'[v].invite /\ x # identityFile'.accounts[v].invite
  <2>1. /\ \A v \in EndUsers \ {u} :
              accounts'[v] = accounts[v] /\ identityFile'.accounts[v] \in {identityFile.accounts[v], accounts[v]}
        /\ \/ accounts'[u] = a /\ identityFile'.accounts[u] = a
           \/ accounts'[u] = accounts[u] /\ identityFile'.accounts[u] \in {identityFile.accounts[u], a}
    BY <1>0, <1>8, AccountsAfter
  <2>2. \A x \in finished : x # t /\ \A v \in EndUsers :
           x # accounts[v].invite /\ x # identityFile.accounts[v].invite
    BY <1>0, <1>5 DEF StandingInv
  <2> QED
    BY <1>0, <1>7, <2>1, <2>2
<1>15. \A k \in Managers : \A x \in Held(k) \cap Held(k)' :
          /\ x \notin finished' \ finished /\ x # a.invite
          /\ x \in Watched' => x \in Watched /\ promised[x] <= promised'[x]
  <2>1. \A k \in Managers : Held(k) \subseteq Bearers
    BY <1>0, HeldFacts
  <2>2. \A k \in Managers : \A x \in Held(k) : x \in Bearers /\ x # Blank /\ x # t
    BY <1>5, <2>1, Limits
  <2>3. Watched' \subseteq Watched \cup {Blank, t}
    BY <1>4, <1>11 DEF Watched
  <2> QED
    BY <1>0, <1>7, <1>10, <2>2, <2>3
<1> QED
  BY <1>8, <1>9, <1>10, <1>11, <1>12, <1>13, <1>14, <1>15, AccountsRun DEF RequestsMay

LEMMA ClaimedRecord ==
    ASSUME NEW acc, NEW n, NEW k,
           acc = [rev |-> acc.rev, name |-> acc.name, secret |-> acc.secret, invite |-> acc.invite, until |-> acc.until]
    PROVE  claimed(acc, n, k) = [rev |-> acc.rev, name |-> n, secret |-> k, invite |-> Blank, until |-> 0]
<1>1. PICK one : one = [acc EXCEPT !.name = n]
  BY Zenon
<1>2. PICK two : two = [one EXCEPT !.secret = k]
  BY Zenon
<1>3. PICK three : three = [two EXCEPT !.invite = Blank]
  BY Zenon
<1>4. claimed(acc, n, k) = [three EXCEPT !.until = 0]
  BY <1>1, <1>2, <1>3, Zenon DEF claimed
<1>5. one = [rev |-> acc.rev, name |-> n, secret |-> acc.secret, invite |-> acc.invite, until |-> acc.until]
  BY <1>1
<1>6. two = [rev |-> acc.rev, name |-> n, secret |-> k, invite |-> acc.invite, until |-> acc.until]
  BY <1>2, <1>5
<1>7. three = [rev |-> acc.rev, name |-> n, secret |-> k, invite |-> Blank, until |-> acc.until]
  BY <1>3, <1>6
<1>8. [three EXCEPT !.until = 0] = [rev |-> acc.rev, name |-> n, secret |-> k, invite |-> Blank, until |-> 0]
  BY <1>7
<1> QED
  BY <1>4, <1>8

AccountsWith(u, a) == [accounts EXCEPT ![u] = a]

(* The account that is claimed, and its invitation that is used up.        *)
LEMMA ClaimedAccount ==
    ASSUME WebInv, serving, hour' = hour, storeUsers' = storeUsers, legacyFile' = legacyFile, operator' = operator,
           binding' = binding, serving' = serving,
           NEW req \in RequestRecord, req.op = "claim", req.stage = "derived", RequestOk(req),
           NEW u \in accountForInvite(accounts, req.token), ~nameTaken(u, req.name),
           NEW a, a = claimed(accounts[u], req.name, req.secret), NEW outcome,
           persistAccounts(outcome, AccountsWith(u, a)),
           accounts' = IF outcome = "written" THEN AccountsWith(u, a) ELSE accounts
    PROVE  /\ u \in EndUsers /\ AccountStep(u, a) /\ accounts[u].rev > 0 /\ a.rev = accounts[u].rev /\ a.rev \in Nat
           /\ a.name = req.name /\ a.secret = req.secret /\ a.invite = Blank
           /\ a.name # Blank /\ a.secret \in Passwords
           /\ accounts[u].invite = req.token /\ req.token \in handedOut /\ req.token \in Bearers
           /\ outcome = "written" => \A v \in EndUsers :
                 req.token # accounts'[v].invite /\ req.token # identityFile'.accounts[v].invite
           /\ \A x \in finished, v \in EndUsers : x # accounts'[v].invite /\ x # identityFile'.accounts[v].invite
<1>0. TypesInv /\ StandingInv /\ IsBook(accounts)
  BY DEF WebInv, TypesInv
<1>w. AccountsWith(u, a) = [accounts EXCEPT ![u] = a]
  BY DEF AccountsWith
<1>1. u \in EndUsers /\ accounts[u].rev > 0 /\ accounts[u].invite = req.token
  BY DEF accountForInvite, Known
<1>2. req.token \in handedOut /\ req.name \in Logins /\ req.secret \in Passwords /\ req.token \in Bearers
  BY <1>0 DEF RequestOk, TypesInv
<1>3. /\ accounts[u] \in [rev : Nat, name : Logins \cup {Blank}, secret : Passwords \cup {Blank},
                          invite : Bearers \cup {Blank}, until : Nat]
      /\ accounts[u] = [rev |-> accounts[u].rev, name |-> accounts[u].name, secret |-> accounts[u].secret,
                        invite |-> accounts[u].invite, until |-> accounts[u].until]
  BY <1>0, <1>1 DEF IsBook, IsAccounts
<1>4. a = [rev |-> accounts[u].rev, name |-> req.name, secret |-> req.secret, invite |-> Blank, until |-> 0]
  <2>1. PICK acc : acc = accounts[u]
    OBVIOUS
  <2> QED
    BY <1>3, <2>1, ClaimedRecord
<1>5. /\ a \in [rev : Nat, name : Logins \cup {Blank}, secret : Passwords \cup {Blank},
                invite : Bearers \cup {Blank}, until : Nat]
      /\ a.rev = accounts[u].rev /\ a.name = req.name /\ a.secret = req.secret /\ a.invite = Blank /\ a.rev # 0
  BY <1>1, <1>2, <1>3, <1>4
<1>6. AccountStep(u, a)
  <2>1. IsBook([accounts EXCEPT ![u] = a])
    BY <1>0, <1>1, <1>5, BookChanged
  <2>2. loadUnifiedIdentities(unifiedDocument([accounts EXCEPT ![u] = a], operator))
    BY <1>0, <1>1, <1>5, NamesChanged
  <2>3. accounts[u].name = Blank
    <3>1. \A v \in Known(accounts) : accounts[v].name = Blank \/ accounts[v].invite = Blank
      BY <1>0 DEF StandingInv, loadUnifiedIdentities, unifiedDocument
    <3> QED
      BY <1>1, <1>2, <3>1, Limits DEF Known
  <2>4. Succeeds(accounts[u], a)
    BY <1>5, <2>3 DEF Succeeds
  <2>5. \/ /\ accounts' = [accounts EXCEPT ![u] = a]
           /\ identityFile' = unifiedDocument([accounts EXCEPT ![u] = a], operator)
        \/ accounts' = accounts /\ identityFile' = unifiedDocument([accounts EXCEPT ![u] = a], operator)
        \/ accounts' = accounts /\ identityFile' = identityFile
    <3>1. /\ persistAccounts(outcome, [accounts EXCEPT ![u] = a])
          /\ accounts' = IF outcome = "written" THEN [accounts EXCEPT ![u] = a] ELSE accounts
      BY <1>w
    <3> QED
      BY <3>1, AccountsWritten
  <2> QED
    BY <2>1, <2>2, <2>4, <2>5 DEF AccountStep
<1>7. /\ \A v \in EndUsers \ {u} :
            accounts'[v] = accounts[v] /\ identityFile'.accounts[v] \in {identityFile.accounts[v], accounts[v]}
      /\ \/ accounts'[u] = a /\ identityFile'.accounts[u] = a
         \/ accounts'[u] = accounts[u] /\ identityFile'.accounts[u] \in {identityFile.accounts[u], a}
  BY <1>0, <1>1, <1>6, AccountsAfter
<1>8. \A x \in finished, v \in EndUsers : x # accounts'[v].invite /\ x # identityFile'.accounts[v].invite
  <2>1. \A x \in finished : x # Blank /\ \A v \in EndUsers :
           x # accounts[v].invite /\ x # identityFile.accounts[v].invite
    BY <1>0, Limits DEF StandingInv, TypesInv
  <2> QED
    BY <1>5, <1>7, <2>1
<1>9. outcome = "written" => \A v \in EndUsers :
         req.token # accounts'[v].invite /\ req.token # identityFile'.accounts[v].invite
  <2>1. SUFFICES ASSUME outcome = "written", NEW v \in EndUsers
                 PROVE  req.token # accounts'[v].invite /\ req.token # identityFile'.accounts[v].invite
    OBVIOUS
  <2>2. accounts' = [accounts EXCEPT ![u] = a] /\ identityFile' = unifiedDocument([accounts EXCEPT ![u] = a], operator)
    BY <1>w, <2>1 DEF persistAccounts, replaced
  <2>3. identityFile'.accounts = accounts'
    BY <2>2 DEF unifiedDocument
  <2>4. DOMAIN accounts = EndUsers
    BY <1>0 DEF IsBook, IsAccounts
  <2>5. v # u => accounts'[v] = accounts[v] /\ accounts[v].invite # req.token
    BY <1>0, <1>1, <1>2, <2>2, <2>4, Limits DEF IsBook
  <2>6. accounts'[u] = a
    BY <1>1, <2>2, <2>4
  <2> QED
    BY <1>2, <1>5, <2>3, <2>5, <2>6, Limits
<1> QED
  BY <1>1, <1>2, <1>5, <1>6, <1>8, <1>9, Limits

ClaimReply(u, t, outcome) ==
    IF outcome = "written" THEN [noRequest EXCEPT !.stage = "claimed", !.owner = u, !.token = t] ELSE noRequest

LEMMA ClaimReplyOk ==
    ASSUME NEW u \in EndUsers, NEW t \in Bearers, NEW outcome
    PROVE  \E new \in RequestRecord :
              /\ new = ClaimReply(u, t, outcome) /\ RequestOk(new)' /\ new.stage # "deriving"
              /\ new.token = IF outcome = "written" THEN t ELSE Blank
<1>1. CASE outcome = "written"
  <2>1. PICK new : new = [noRequest EXCEPT !.stage = "claimed", !.owner = u, !.token = t]
    BY Zenon
  <2>2. new = [stage |-> "claimed", op |-> "none", name |-> Blank, secret |-> Blank, owner |-> u,
               rev |-> 0, hash |-> Blank, token |-> t, now |-> 0]
    BY <2>1 DEF noRequest
  <2>3. new \in RequestRecord /\ RequestOk(new)' /\ new.stage = "claimed" /\ new.token = t
    BY <2>2 DEF RequestRecord, RequestOk
  <2>4. new = ClaimReply(u, t, outcome)
    BY <1>1, <2>1, Zenon DEF ClaimReply
  <2> QED
    BY <1>1, <2>3, <2>4
<1>2. CASE outcome # "written"
  <2>1. ClaimReply(u, t, outcome) = noRequest
    BY <1>2, Zenon DEF ClaimReply
  <2> QED
    BY <1>2, <2>1, IdleRequest
<1> QED
  BY <1>1, <1>2

(* The claim as it was decided: what is written and what is answered.      *)
LEMMA ClaimDecided ==
    ASSUME NEW r, NEW outcomes, ClaimInvitation(r, outcomes), NEW req, req = requests[r],
           NEW u, u = CHOOSE x \in accountForInvite(accounts, req.token) : TRUE,
           accountForInvite(accounts, req.token) # {}, ~nameTaken(u, req.name),
           NEW a, a = claimed(accounts[u], req.name, req.secret),
           NEW accs, accs = AccountsWith(u, a)
    PROVE  /\ persistAccounts(outcomes[1], accs)
           /\ accounts' = IF outcomes[1] = "written" THEN accs ELSE accounts
           /\ outcomes[1] = "written" =>
                 \E t \in Bearers :
                    /\ drawn(t)
                    /\ createSession("user", t, sessionFor(u, accs[u].rev, req.secret, hour), outcomes[2])
                    /\ request(r, ClaimReply(u, t, outcomes[2]))
                    /\ finished' = IF outcomes[2] = "written" THEN finished \cup {req.token} ELSE finished
           /\ outcomes[1] # "written" =>
                 request(r, noRequest) /\ UNCHANGED <<browsing, sessionFile, promised, finished>>
BY Zenon DEF ClaimInvitation, ClaimReply, AccountsWith

LEMMA ClaimStep ==
    ASSUME WebInv, NEW r \in Requests, NEW outcomes, ClaimInvitation(r, outcomes)
    PROVE  WebInv'
<1>0. /\ TypesInv /\ GateInv /\ StandingInv /\ RequestsInv /\ PlacesInv
      /\ requests[r].stage = "derived" /\ requests[r].op = "claim" /\ lifecycleFree("user")
      /\ UNCHANGED <<serving, hour, storeUsers, legacyFile, operator, binding, activity, gate, handedOut>>
  BY Zenon DEF WebInv, ClaimInvitation
<1>1. serving /\ RequestsMay
  BY <1>0, RequestRuns DEF RequestsMay, TypesInv
<1>2. PICK req \in RequestRecord : req = requests[r] /\ RequestOk(req)
  BY <1>0 DEF TypesInv, RequestsInv
<1> DEFINE holders == accountForInvite(accounts, req.token)
<1>3. PICK u : u = CHOOSE x \in holders : TRUE
  OBVIOUS
<1>4. PICK a : a = claimed(accounts[u], req.name, req.secret)
  OBVIOUS
<1>5. CASE holders = {} \/ nameTaken(u, req.name)
  <2>1. request(r, noRequest) /\ UNCHANGED <<accounts, identityFile, browsing, sessionFile, promised, finished>>
    BY <1>2, <1>3, <1>5, Zenon DEF ClaimInvitation
  <2>2. kdfFrame
    BY <1>0, <2>1 DEF kdfFrame
  <2>3. GateInv'
    BY <1>0, <2>1, GateStep, IdleRequest
  <2> QED
    BY <1>1, <2>1, <2>2, <2>3, RequestGoes, IdleRequest
<1>6. CASE holders # {} /\ ~nameTaken(u, req.name)
  <2> DEFINE done == outcomes[1] = "written"
  <2>1. u \in holders
    BY <1>3, <1>6
  <2>a. PICK accs : accs = AccountsWith(u, a)
    OBVIOUS
  <2>e. accs = [accounts EXCEPT ![u] = a]
    BY <2>a DEF AccountsWith
  <2>b. /\ persistAccounts(outcomes[1], accs)
        /\ accounts' = IF done THEN accs ELSE accounts
        /\ done => \E t \in Bearers :
              /\ drawn(t)
              /\ createSession("user", t, sessionFor(u, accs[u].rev, req.secret, hour), outcomes[2])
              /\ request(r, ClaimReply(u, t, outcomes[2]))
              /\ finished' = IF outcomes[2] = "written" THEN finished \cup {req.token} ELSE finished
        /\ ~done => request(r, noRequest) /\ UNCHANGED <<browsing, sessionFile, promised, finished>>
    <3>1. req = requests[r] /\ holders # {} /\ ~nameTaken(u, req.name)
      BY <1>2, <1>6
    <3> QED
      BY <1>3, <1>4, <2>a, <3>1, ClaimDecided
  <2>2. /\ persistAccounts(outcomes[1], accs)
        /\ accounts' = IF done THEN accs ELSE accounts
    BY <2>b
  <2>3. /\ u \in EndUsers /\ AccountStep(u, a) /\ accounts[u].rev > 0 /\ a.rev = accounts[u].rev /\ a.rev \in Nat
        /\ a.name = req.name /\ a.secret = req.secret /\ a.invite = Blank
        /\ a.name # Blank /\ a.secret \in Passwords
        /\ accounts[u].invite = req.token /\ req.token \in handedOut /\ req.token \in Bearers
        /\ done => \A v \in EndUsers :
              req.token # accounts'[v].invite /\ req.token # identityFile'.accounts[v].invite
        /\ \A x \in finished, v \in EndUsers : x # accounts'[v].invite /\ x # identityFile'.accounts[v].invite
    <3>1. /\ serving /\ hour' = hour /\ storeUsers' = storeUsers /\ legacyFile' = legacyFile
          /\ operator' = operator /\ binding' = binding /\ serving' = serving
      BY <1>0, <1>1
    <3>2. req \in RequestRecord /\ req.op = "claim" /\ req.stage = "derived" /\ RequestOk(req)
      BY <1>0, <1>2
    <3>3. u \in accountForInvite(accounts, req.token) /\ ~nameTaken(u, req.name)
      BY <1>6, <2>1
    <3>4. /\ persistAccounts(outcomes[1], AccountsWith(u, a))
          /\ accounts' = IF outcomes[1] = "written" THEN AccountsWith(u, a) ELSE accounts
      BY <2>2, <2>a
    <3> HIDE DEF holders, done
    <3>5. /\ u \in EndUsers /\ AccountStep(u, a) /\ accounts[u].rev > 0 /\ a.rev = accounts[u].rev /\ a.rev \in Nat
          /\ a.name = req.name /\ a.secret = req.secret /\ a.invite = Blank
          /\ a.name # Blank /\ a.secret \in Passwords
          /\ accounts[u].invite = req.token /\ req.token \in handedOut /\ req.token \in Bearers
          /\ outcomes[1] = "written" => \A v \in EndUsers :
                req.token # accounts'[v].invite /\ req.token # identityFile'.accounts[v].invite
          /\ \A x \in finished, v \in EndUsers : x # accounts'[v].invite /\ x # identityFile'.accounts[v].invite
      BY <1>4, <3>1, <3>2, <3>3, <3>4, ClaimedAccount
    <3> QED
      BY <3>5 DEF done
  <2>4. /\ handedOut' \subseteq Bearers /\ hour' = hour /\ hour \in Nat /\ handedOut' = handedOut
        /\ finished \subseteq handedOut'
        /\ \A x \in Bearers : promised[x] \in Nat /\ promised[x] <= hour' + IdleTimeout
    BY <1>0 DEF TypesInv
  <2>5. \A k \in Managers : Held(k) \subseteq Bearers
    BY <1>0, HeldFacts
  <2>6. \A k \in Managers : req.token \notin Held(k)
    <3>1. SUFFICES ASSUME NEW k \in Managers, req.token \in Held(k)
                   PROVE  FALSE
      OBVIOUS
    <3>2. PICK map \in Places(k) : req.token \in DOMAIN map
      BY <3>1 DEF Held, Places
    <3>3. Lasting(k, req.token, map[req.token])
      BY <1>0, <3>2, HeldFacts
    <3> QED
      BY <2>3, <3>3 DEF Lasting
  <2>7. CASE ~done
    <3>1. request(r, noRequest) /\ UNCHANGED <<browsing, sessionFile, promised, finished>>
      BY <2>b, <2>7
    <3>2. MapsTyped' /\ \A k \in Managers : Quiet(k)
      BY <1>0, <3>1 DEF MapsTyped, TypesInv, Quiet
    <3>3. StepOf("user", Blank, Blank) /\ Blank \notin Held("user")'
      BY <1>0, <2>4, <3>2, QuietIsStep, TwoManagers
    <3>4. NewOk("user", Blank, Blank) /\ NewAccountCredential(Blank, Blank)
      BY <3>3 DEF NewOk, NewAccountCredential
    <3>5. /\ RequestsInv' /\ requests' \in [Requests -> RequestRecord]
          /\ Watched' \subseteq Watched \cup handedOut' \cup {Blank}
      BY <1>0, <1>1, <3>1, RequestStep, IdleRequest
    <3>6. GateInv'
      BY <1>0, <3>1, GateStep, IdleRequest
    <3>7. \A k \in Managers : \A x \in Held(k) \cap Held(k)' :
             /\ x \notin finished' \ finished /\ x # a.invite
             /\ x \in Watched' => x \in Watched /\ promised[x] <= promised'[x]
      <4>1. \A k \in Managers : \A x \in Held(k) : x \in Bearers /\ x # Blank
        BY <2>5, Limits
      <4>2. Watched' \subseteq Watched \cup {Blank}
        BY <2>4, <3>5 DEF Watched
      <4> QED
        BY <2>3, <2>4, <3>1, <4>1, <4>2
    <3>8. promised' \in [Bearers -> Nat] /\ \A x \in Bearers : promised'[x] <= hour' + IdleTimeout
      BY <1>0, <2>4, <3>1 DEF TypesInv
    <3> QED
      BY <2>3, <2>4, <3>1, <3>2, <3>3, <3>4, <3>5, <3>6, <3>7, <3>8, AccountsRun, TwoManagers
  <2>8. CASE done
    <3>0. accs[u] = a /\ accounts' = accs /\ accounts'[u] = a /\ identityFile'.accounts[u] = a
      <4>1. DOMAIN accounts = EndUsers
        BY <1>0 DEF TypesInv, IsBook, IsAccounts
      <4>2. identityFile' = unifiedDocument(accs, operator)
        BY <2>2, <2>8 DEF persistAccounts, replaced
      <4> QED
        BY <2>e, <2>2, <2>3, <2>8, <4>1, <4>2 DEF unifiedDocument
    <3>1. PICK s : s = [owner |-> u, rev |-> a.rev, secret |-> req.secret, seen |-> hour]
      OBVIOUS
    <3>2. PICK t \in Bearers :
             /\ drawn(t) /\ createSession("user", t, s, outcomes[2])
             /\ request(r, ClaimReply(u, t, outcomes[2]))
             /\ finished' = IF outcomes[2] = "written" THEN finished \cup {req.token} ELSE finished
      <4>1. s = sessionFor(u, accs[u].rev, req.secret, hour)
        BY <3>0, <3>1 DEF sessionFor
      <4> QED
        BY <2>b, <2>8, <4>1, Zenon
    <3>3. /\ t # Blank /\ t \notin handedOut /\ t \notin Watched /\ t \notin finished
          /\ \A k \in Managers : t \notin Held(k)
          /\ \A v \in EndUsers : t # accounts[v].invite /\ t # identityFile.accounts[v].invite
      BY <1>0, <3>2, Drawn
    <3>4. s \in SessionRecord /\ s.seen <= hour /\ s.owner = u /\ s.rev = a.rev /\ s.secret = a.secret /\ s.rev > 0
      BY <2>3, <2>4, <3>1 DEF SessionRecord
    <3>5. /\ StepOf("user", t, s) /\ \A k \in Managers \ {"user"} : Quiet(k)
          /\ promised' \in [Bearers -> Nat]
          /\ \A x \in Bearers : promised'[x] <= hour' + IdleTimeout
          /\ \A x \in Bearers \ {t} : promised'[x] = promised[x]
          /\ outcomes[2] = "written" => promised'[t] = expiresAt(s)
          /\ DOMAIN browsing' = Managers /\ DOMAIN sessionFile' = Managers
          /\ \A k \in Managers :
                sessionFile'[k] = [binding |-> sessionFile'[k].binding, sessions |-> sessionFile'[k].sessions]
      BY <1>0, <2>4, <3>2, <3>4, CreateStep, TwoManagers
    <3>6. MapsTyped' /\ Quiet("admin")
      BY <1>0, <3>5, TwoManagers DEF TypesInv, MapsTyped
    <3>7. PICK new \in RequestRecord :
             /\ request(r, new) /\ RequestOk(new)' /\ new.stage # "deriving"
             /\ new.token = IF outcomes[2] = "written" THEN t ELSE Blank
      BY <2>3, <3>2, ClaimReplyOk
    <3>8. /\ RequestsInv' /\ requests' \in [Requests -> RequestRecord]
          /\ Watched' \subseteq Watched \cup handedOut' \cup {new.token}
      BY <1>0, <1>1, <3>7, RequestStep
    <3>9. GateInv'
      BY <1>0, <3>7, GateStep
    <3>10. t \in Watched' => expiresAt(s) <= promised'[t]
      <4>1. t \in Watched' => outcomes[2] = "written"
        BY <2>4, <3>3, <3>7, <3>8 DEF Watched
      <4>2. expiresAt(s) \in Nat
        BY <3>4, Limits DEF SessionRecord, expiresAt
      <4> QED
        BY <3>5, <4>1, <4>2
    <3>11. \A v \in EndUsers : t # accounts'[v].invite /\ t # identityFile'.accounts[v].invite
      <4>1. /\ \A v \in EndUsers \ {u} :
                  accounts'[v] = accounts[v] /\ identityFile'.accounts[v] \in {identityFile.accounts[v], accounts[v]}
        BY <1>0, <2>3, AccountsAfter
      <4> QED
        BY <2>3, <3>0, <3>3, <4>1
    <3>12. t \notin finished'
      BY <2>3, <3>2, <3>3
    <3>13. Lasting("user", t, s)'
      BY <2>3, <2>4, <3>4, <3>10, <3>11, <3>12, TwoManagers DEF Lasting, OwnersOf, expiresAt
    <3>14. NewOk("user", t, s)
      BY <3>2, <3>4, <3>13 DEF NewOk
    <3>15. NewAccountCredential(t, s)
      <4>1. Vouched(s, a)
        BY <2>3, <3>4 DEF Vouched
      <4> QED
        BY <3>0, <3>4, <4>1 DEF NewAccountCredential
    <3>16. \A x \in finished', v \in EndUsers : x # accounts'[v].invite /\ x # identityFile'.accounts[v].invite
      BY <2>3, <2>8, <3>2
    <3>17. \A k \in Managers : \A x \in Held(k) \cap Held(k)' :
             /\ x \notin finished' \ finished /\ x # a.invite
             /\ x \in Watched' => x \in Watched /\ promised[x] <= promised'[x]
      <4>1. \A k \in Managers : \A x \in Held(k) : x \in Bearers /\ x # Blank /\ x # t /\ x # req.token
        BY <2>5, <2>6, <3>3, Limits
      <4>2. Watched' \subseteq Watched \cup {Blank, t}
        BY <2>4, <3>7, <3>8 DEF Watched
      <4> QED
        BY <2>3, <2>4, <3>2, <3>5, <4>1, <4>2
    <3>18. finished' \subseteq handedOut'
      BY <2>3, <2>4, <3>2
    <3> QED
      BY <2>3, <2>4, <3>3, <3>5, <3>6, <3>8, <3>9, <3>14, <3>15, <3>16, <3>17, <3>18, AccountsRun, TwoManagers
  <2> QED
    BY <2>7, <2>8
<1> QED
  BY <1>5, <1>6

-----------------------------------------------------------------------------
(* The clock, a stop or crash.                                             *)

LEMMA HeldApart ==
    ASSUME PlacesInv, NEW m \in Managers, NEW x \in Held(m)
    PROVE  /\ x \in Bearers /\ x # Blank /\ x \notin finished
           /\ \A u \in EndUsers : x # accounts[u].invite /\ x # identityFile.accounts[u].invite
<1>1. PICK map \in Places(m) : x \in DOMAIN map
  BY DEF Held, Places
<1>2. Lasting(m, x, map[x]) /\ x \in Bearers
  BY <1>1, HeldFacts
<1> QED
  BY <1>2, Limits DEF Lasting

LEMMA HourStep ==
    ASSUME WebInv, HourPasses
    PROVE  WebInv'
<1>0. /\ TypesInv /\ GateInv /\ RequestsInv /\ StandingInv /\ PlacesInv /\ CredentialInv
      /\ hour \in Nat /\ hour' = hour + 1
      /\ UNCHANGED <<serving, storeUsers, identityFile, legacyFile, accounts, operator, binding, browsing, sessionFile,
                     activity, gate, requests, handedOut, finished, promised>>
  BY DEF WebInv, HourPasses, TypesInv
<1>1. TypesInv'
  BY <1>0, Limits DEF TypesInv
<1>2. GateInv'
  BY <1>0 DEF GateInv, Deriving
<1>3. RequestsInv'
  BY <1>0 DEF RequestsInv, RequestOk, TypesInv, RequestRecord
<1>4. StandingInv'
  BY <1>0 DEF StandingInv, Asleep, unifiedDocument
<1>5. \A k \in Managers : Quiet(k)
  BY <1>0 DEF Quiet
<1>6. \A k \in Managers : StepOf(k, Blank, Blank) /\ Blank \notin Held(k)'
  BY <1>0, <1>5, QuietIsStep
<1>7. ASSUME NEW k \in Managers
      PROVE  EnvOf(k)
  <2>1. \A x \in Held(k) : x \in Bearers /\ x \notin finished /\ promised[x] \in Nat
           /\ \A u \in EndUsers : x # accounts[u].invite /\ x # identityFile.accounts[u].invite
    BY <1>0, HeldApart DEF TypesInv
  <2>2. Watched' = Watched
    BY <1>0 DEF Watched
  <2>3. promised' \in [Bearers -> Nat]
    BY <1>0 DEF TypesInv
  <2> QED
    BY <1>0, <2>1, <2>2, <2>3 DEF EnvOf
<1>8. PlacesInv'
  BY <1>0, <1>6, <1>7, NoStep
<1>9. CredentialInv'
  <2>1. CredentialInv
    BY <1>0
  <2>2. /\ serving' = serving /\ storeUsers' = storeUsers /\ identityFile' = identityFile /\ accounts' = accounts
        /\ operator' = operator /\ browsing' = browsing /\ sessionFile' = sessionFile /\ activity' = activity
    BY <1>0
  <2>3. /\ \A m : Places(m)' = Places(m)
        /\ \A b, s : BoundTo(b, s)' <=> BoundTo(b, s)
    BY <2>2 DEF Places, BoundTo
  <2> QED
    BY <2>1, <2>2, <2>3 DEF CredentialInv, Places
<1> QED
  BY <1>1, <1>2, <1>3, <1>4, <1>8, <1>9 DEF WebInv

LEMMA NothingStutters ==
    ASSUME WebInv, UNCHANGED webVars
    PROVE  WebInv'
BY DEF WebInv, webVars, TypesInv, GateInv, Deriving, RequestsInv, RequestOk, StandingInv, Asleep, unifiedDocument,
       PlacesInv, Places, Lasting, Watched, CredentialInv, BoundTo

LEMMA NoBook ==
    /\ IsBook(NoAccounts) /\ \A u \in EndUsers : NoAccounts[u] = NoAccount /\ NoAccounts[u].invite = Blank
    /\ NoOperator \in AdminRecord
BY DEF IsBook, IsAccounts, NoAccounts, NoAccount, NoOperator, AdminRecord

LEMMA HaltStep ==
    ASSUME WebInv, serving, halt,
           \/ sessionFile' = sessionFile
           \/ \E outcome : persistSessionSnapshot("user", outcome, browsing["user"], Blank)
    PROVE  WebInv'
<1>0. /\ TypesInv /\ GateInv /\ RequestsInv /\ StandingInv /\ PlacesInv /\ CredentialInv
      /\ serving' = FALSE /\ accounts' = NoAccounts /\ operator' = NoOperator /\ gate' = 0
      /\ browsing' = [m \in Managers |-> NoSessions] /\ activity' = [m \in Managers |-> asleep]
      /\ requests' = [r \in Requests |-> noRequest]
      /\ UNCHANGED <<hour, storeUsers, identityFile, legacyFile, handedOut, finished, promised>>
  BY DEF WebInv, halt
<1>1. /\ DOMAIN sessionFile' = Managers /\ sessionFile'["admin"] = sessionFile["admin"]
      /\ sessionFile'["user"] \in {sessionFile["user"], [binding |-> Blank, sessions |-> browsing["user"]]}
  <2>1. DOMAIN sessionFile = Managers
    BY <1>0 DEF TypesInv
  <2> QED
    BY <2>1, TwoManagers DEF persistSessionSnapshot, replaced
<1>2. /\ \A k \in Managers : browsing'[k] = NoSessions /\ activity'[k].snapshot = NoSessions
                             /\ activity'[k].phase = "none" /\ activity'[k] = asleep
      /\ \A k \in Managers :
            activity'[k] = [phase |-> activity'[k].phase, snapshot |-> activity'[k].snapshot]
  BY <1>0 DEF asleep
<1>3. \A k \in Managers :
         sessionFile'[k] = [binding |-> sessionFile'[k].binding, sessions |-> sessionFile'[k].sessions]
  BY <1>0, <1>1, TwoManagers DEF TypesInv
<1>4. requests' \in [Requests -> RequestRecord] /\ \A r \in Requests : requests'[r] = noRequest
  BY <1>0, IdleRequest
<1>5. TypesInv'
  BY <1>0, <1>1, <1>2, <1>3, <1>4, NoBook DEF TypesInv
<1>6. Deriving' = {}
  BY <1>4 DEF Deriving, noRequest
<1>7. GateInv'
  BY <1>0, <1>6 DEF GateInv
<1>8. RequestsInv'
  BY <1>4, IdleRequest DEF RequestsInv
<1>9. Watched' \subseteq Watched \cup {Blank}
  BY <1>0, <1>4 DEF Watched, noRequest
<1>10. StandingInv'
  <2>1. \A m \in Managers : Asleep(m)'
    BY <1>0, <1>2 DEF Asleep
  <2>2. \A t \in finished : t # Blank
    BY <1>0, Limits DEF TypesInv
  <2> QED
    BY <1>0, <1>4, <2>1, <2>2, NoBook DEF StandingInv
<1>11. \A k \in Managers : StepOf(k, Blank, Blank) /\ Blank \notin Held(k)'
  <2>1. \A old : DOMAIN NoSessions = {} /\ Descends(NoSessions, old) /\ Sized(NoSessions)
                 /\ Follows(NoSessions, old, Blank, Blank)
    BY Emptied, DescendsFollows
  <2>2. \A k \in Managers : Blank \notin Held(k) /\ Sized(browsing[k])
    BY <1>0, HeldFacts, Limits DEF Places
  <2>3. ASSUME NEW k \in Managers
        PROVE  \/ sessionFile'[k] = sessionFile[k]
               \/ sessionFile'[k].binding = boundTo(k) /\ sessionFile'[k].sessions = browsing[k]
    BY <1>1, TwoManagers DEF boundTo
  <2>4. ASSUME NEW k \in Managers
        PROVE  Blank \notin Held(k)'
    BY <1>2, <2>1, <2>2, <2>3 DEF Held
  <2>5. \A map : Descends(map, map) /\ Follows(map, map, Blank, Blank)
    BY DEF Descends, Follows
  <2>6. ASSUME NEW k \in Managers
        PROVE  StepOf(k, Blank, Blank)
    BY <1>2, <2>1, <2>2, <2>3, <2>5 DEF StepOf
  <2> QED
    BY <2>4, <2>6
<1>12. ASSUME NEW k \in Managers
       PROVE  EnvOf(k)
  <2>1. \A x \in Held(k) : x \in Bearers /\ x # Blank /\ x \notin finished /\ promised[x] \in Nat
           /\ \A u \in EndUsers : x # accounts[u].invite /\ x # identityFile.accounts[u].invite
    BY <1>0, HeldApart DEF TypesInv
  <2>2. promised' \in [Bearers -> Nat] /\ hour \in Nat
    BY <1>0 DEF TypesInv
  <2> QED
    BY <1>0, <1>9, <2>1, <2>2, NoBook DEF EnvOf
<1>13. PlacesInv'
  BY <1>0, <1>11, <1>12, NoStep
<1>14. CredentialInv'
  <2>1. DOMAIN NoSessions = {}
    BY Emptied
  <2>2. \A t \in DOMAIN sessionFile'["admin"].sessions :
           BoundTo(sessionFile["admin"].binding, sessionFile["admin"].sessions[t])'
    BY <1>0, <1>1 DEF CredentialInv, BoundTo
  <2>3. \A map \in Places("user")' : map = NoSessions \/ map \in Places("user")
    BY <1>1, <1>2, TwoManagers DEF Places
  <2>4. \A map \in Places("user")' : \A t \in DOMAIN map : map[t].owner \in storeUsers' =>
           Vouched(map[t], identityFile'.accounts[map[t].owner])
    BY <1>0, <2>1, <2>3 DEF CredentialInv
  <2> QED
    BY <1>0, <1>2, <2>1, <2>2, <2>4, TwoManagers DEF CredentialInv, Vouched
<1> QED
  BY <1>5, <1>7, <1>8, <1>10, <1>13, <1>14 DEF WebInv

-----------------------------------------------------------------------------
(* A start: the documents it may leave and the sessions it reads back.     *)

StartDocument(doc) ==
    /\ doc = [version |-> 3, admin |-> identityFile.admin, accounts |-> doc.accounts]
    /\ IsBook(doc.accounts) /\ loadUnifiedIdentities(doc)
    /\ \A t \in finished, u \in EndUsers : t # doc.accounts[u].invite
    /\ identityFile.version = 3 => \A u \in EndUsers :
          doc.accounts[u] = identityFile.accounts[u] \/ (u \notin storeUsers /\ doc.accounts[u] = NoAccount)

LEMMA OpenedDocument ==
    ASSUME TypesInv, StandingInv, loadUnifiedIdentities(openedDocument)
    PROVE  StartDocument(openedDocument)
<1>1. /\ identityFile = [version |-> identityFile.version, admin |-> identityFile.admin, accounts |-> identityFile.accounts]
      /\ identityFile.version \in {2, 3} /\ IsBook(identityFile.accounts) /\ IsBook(legacyFile)
  BY DEF TypesInv
<1>2. CASE identityFile.version = 3
  <2>1. openedDocument = identityFile
    BY <1>2 DEF openedDocument
  <2>2. \A t \in finished, u \in EndUsers : t # identityFile.accounts[u].invite
    BY DEF StandingInv
  <2> QED
    BY <1>1, <1>2, <2>1, <2>2 DEF StartDocument
<1>3. CASE identityFile.version = 2
  <2>1. openedDocument = [version |-> 3, admin |-> identityFile.admin, accounts |-> legacyFile]
    BY <1>3 DEF openedDocument, unifiedDocument
  <2>2. finished = {}
    BY <1>3 DEF StandingInv, TypesInv
  <2> QED
    BY <1>1, <1>3, <2>1, <2>2 DEF StartDocument
<1> QED
  BY <1>1, <1>2, <1>3

LEMMA ReconciledBook ==
    ASSUME NEW accs, IsBook(accs), NEW adm, loadUnifiedIdentities([version |-> 3, admin |-> adm, accounts |-> accs])
    PROVE  /\ IsBook(ReconcileUsers(accs))
           /\ loadUnifiedIdentities([version |-> 3, admin |-> adm, accounts |-> ReconcileUsers(accs)])
           /\ \A u \in EndUsers : \/ ReconcileUsers(accs)[u] = accs[u]
                                  \/ u \notin storeUsers /\ ReconcileUsers(accs)[u] = NoAccount
<1> DEFINE rec == ReconcileUsers(accs)
<1>1. /\ DOMAIN rec = EndUsers
      /\ \A u \in EndUsers : rec[u] = IF u \in storeUsers THEN accs[u] ELSE NoAccount
      /\ rec = [u \in EndUsers |-> rec[u]]
  BY DEF ReconcileUsers
<1> HIDE DEF rec
<1>2. /\ NoAccount.rev = 0 /\ NoAccount.invite = Blank
      /\ NoAccount \in [rev : Nat, name : Logins \cup {Blank}, secret : Passwords \cup {Blank},
                        invite : Bearers \cup {Blank}, until : Nat]
  BY DEF NoAccount
<1>3. /\ \A u \in EndUsers : accs[u] \in [rev : Nat, name : Logins \cup {Blank}, secret : Passwords \cup {Blank},
                                          invite : Bearers \cup {Blank}, until : Nat]
      /\ \A u \in EndUsers : accs[u].rev = 0 => accs[u] = NoAccount
      /\ \A u, v \in EndUsers : u # v /\ accs[u].invite # Blank => accs[u].invite # accs[v].invite
  BY DEF IsBook, IsAccounts
<1>4. IsBook(rec)
  <2>1. IsAccounts(rec)
    BY <1>1, <1>2, <1>3 DEF IsAccounts
  <2>2. \A u, v \in EndUsers : u # v /\ rec[u].invite # Blank => rec[u].invite # rec[v].invite
    BY <1>1, <1>2, <1>3
  <2> QED
    BY <1>1, <1>2, <1>3, <2>1, <2>2 DEF IsBook
<1>5. \A u \in EndUsers : rec[u] = accs[u] \/ (u \notin storeUsers /\ rec[u] = NoAccount)
  BY <1>1
<1>6. loadUnifiedIdentities([version |-> 3, admin |-> adm, accounts |-> rec])
  <2>1. \A u \in Known(rec) : u \in Known(accs) /\ rec[u] = accs[u]
    BY <1>2, <1>5 DEF Known
  <2> QED
    <3>1. PICK doc : doc = [version |-> 3, admin |-> adm, accounts |-> accs]
      OBVIOUS
    <3>2. PICK new : new = [version |-> 3, admin |-> adm, accounts |-> rec]
      OBVIOUS
    <3>3. doc.accounts = accs /\ doc.admin = adm /\ new.accounts = rec /\ new.admin = adm
      BY <3>1, <3>2
    <3>4. loadUnifiedIdentities(new)
      BY <2>1, <3>1, <3>3 DEF loadUnifiedIdentities
    <3> QED
      BY <3>2, <3>4
<1> QED
  BY <1>4, <1>5, <1>6 DEF rec

LEMMA ReconciledDocument ==
    ASSUME TypesInv, StandingInv, loadUnifiedIdentities(openedDocument)
    PROVE  /\ StartDocument(reconciledDocument)
           /\ \A u \in EndUsers : u \in storeUsers => reconciledDocument.accounts[u] = openedDocument.accounts[u]
<1>1. StartDocument(openedDocument)
  BY OpenedDocument
<1>2. PICK accs : accs = openedDocument.accounts
  OBVIOUS
<1>3. PICK adm : adm = identityFile.admin
  OBVIOUS
<1>4. openedDocument = [version |-> 3, admin |-> adm, accounts |-> accs]
  BY <1>1, <1>2, <1>3 DEF StartDocument
<1>5. /\ IsBook(ReconcileUsers(accs))
      /\ loadUnifiedIdentities([version |-> 3, admin |-> adm, accounts |-> ReconcileUsers(accs)])
      /\ \A u \in EndUsers : \/ ReconcileUsers(accs)[u] = accs[u]
                             \/ u \notin storeUsers /\ ReconcileUsers(accs)[u] = NoAccount
  <2>1. IsBook(accs) /\ loadUnifiedIdentities([version |-> 3, admin |-> adm, accounts |-> accs])
    BY <1>1, <1>2, <1>4 DEF StartDocument
  <2> QED
    BY <2>1, ReconciledBook
<1>6. reconciledDocument = [version |-> 3, admin |-> adm, accounts |-> ReconcileUsers(accs)]
  BY <1>4 DEF reconciledDocument, unifiedDocument
<1>7. \A t \in finished, u \in EndUsers : t # ReconcileUsers(accs)[u].invite
  <2>1. \A t \in finished : t # Blank /\ \A u \in EndUsers : t # accs[u].invite
    BY <1>1, <1>2, Limits DEF StartDocument, TypesInv
  <2> QED
    BY <1>5, <2>1 DEF NoAccount
<1>8. identityFile.version = 3 => \A u \in EndUsers : \/ ReconcileUsers(accs)[u] = identityFile.accounts[u]
                                                      \/ u \notin storeUsers /\ ReconcileUsers(accs)[u] = NoAccount
  BY <1>1, <1>2, <1>5 DEF StartDocument
<1>9. \A u \in EndUsers : u \in storeUsers => ReconcileUsers(accs)[u] = accs[u]
  BY <1>5
<1> QED
  BY <1>2, <1>3, <1>5, <1>6, <1>7, <1>8, <1>9 DEF StartDocument

(* The session files a start may leave hold what they held, or less.       *)
StartFile(new) ==
    /\ DOMAIN new = Managers
    /\ \A m \in Managers : new[m] = [binding |-> new[m].binding, sessions |-> new[m].sessions]
    /\ \A m \in Managers : Descends(new[m].sessions, sessionFile[m].sessions)
    /\ new["admin"].binding = sessionFile["admin"].binding \/ new["admin"].sessions = NoSessions

LEMMA ResetFile ==
    ASSUME TypesInv
    PROVE  /\ StartFile(resetSessionFile) /\ resetSessionFile["user"] = sessionFile["user"]
           /\ \A m \in Managers : resetSessionFile[m].sessions \in {sessionFile[m].sessions, NoSessions}
<1>1. /\ DOMAIN sessionFile = Managers
      /\ \A m \in Managers : sessionFile[m] = [binding |-> sessionFile[m].binding, sessions |-> sessionFile[m].sessions]
  BY DEF TypesInv
<1>2. \A map : Descends(map, map) /\ Descends(NoSessions, map)
  BY Emptied DEF Descends
<1>3. CASE resetSessionFile = sessionFile
  BY <1>1, <1>2, <1>3, TwoManagers DEF StartFile
<1>4. CASE resetSessionFile # sessionFile
  <2>1. PICK b : b = credentialBinding(identityFile)
    OBVIOUS
  <2>2. resetSessionFile = [sessionFile EXCEPT !["admin"] = [binding |-> b, sessions |-> NoSessions]]
    BY <1>4, <2>1, Zenon DEF resetSessionFile
  <2>3. /\ DOMAIN resetSessionFile = Managers
        /\ resetSessionFile["admin"] = [binding |-> b, sessions |-> NoSessions]
        /\ resetSessionFile["user"] = sessionFile["user"]
    BY <1>1, <2>2, TwoManagers
  <2>4. ASSUME NEW m \in Managers
        PROVE  /\ resetSessionFile[m] = [binding |-> resetSessionFile[m].binding, sessions |-> resetSessionFile[m].sessions]
               /\ Descends(resetSessionFile[m].sessions, sessionFile[m].sessions)
               /\ resetSessionFile[m].sessions \in {sessionFile[m].sessions, NoSessions}
    <3>1. CASE m = "admin"
      BY <1>2, <2>3, <3>1
    <3>2. CASE m = "user"
      BY <1>1, <1>2, <2>3, <3>2
    <3> QED
      BY <3>1, <3>2, TwoManagers
  <2> QED
    BY <2>3, <2>4 DEF StartFile
<1> QED
  BY <1>3, <1>4

LEMMA SessionsRead ==
    ASSUME NEW doc, NEW accs, NEW file
    PROVE  /\ Descends(adminLoadSessions(doc, file), file.sessions)
           /\ Descends(userLoadSessions(accs, file), file.sessions)
           /\ \A t \in DOMAIN adminLoadSessions(doc, file) : file.binding = credentialBinding(doc)
<1>1. PICK map : map = file.sessions
  OBVIOUS
<1>2. \A kept : kept \subseteq DOMAIN map => Descends([t \in kept |-> map[t]], map)
  BY DEF Descends
<1>3. Descends(userLoadSessions(accs, file), map)
  <2>1. PICK kept : kept = {t \in DOMAIN map : accs[map[t].owner].rev > 0 /\ accs[map[t].owner].rev = map[t].rev /\ live(map[t], hour)}
    OBVIOUS
  <2>2. userLoadSessions(accs, file) = [t \in kept |-> map[t]]
    BY <1>1, <2>1, Zenon DEF userLoadSessions, loaded
  <2> QED
    BY <1>2, <2>1, <2>2
<1>4. CASE file.binding # credentialBinding(doc)
  <2>1. adminLoadSessions(doc, file) = NoSessions
    BY <1>4 DEF adminLoadSessions
  <2> QED
    BY <1>1, <1>3, <2>1, Emptied
<1>5. CASE file.binding = credentialBinding(doc)
  <2>1. PICK kept : kept = {t \in DOMAIN map : live(map[t], hour)}
    OBVIOUS
  <2>2. adminLoadSessions(doc, file) = [t \in kept |-> map[t]]
    BY <1>1, <1>5, <2>1, Zenon DEF adminLoadSessions, loaded
  <2> QED
    BY <1>1, <1>2, <1>3, <1>5, <2>1, <2>2
<1> QED
  BY <1>4, <1>5

LEMMA UserSessionsRead ==
    /\ Descends(openedUserSessions, resetSessionFile["user"].sessions)
    /\ Descends(reconciledUserSessions, openedUserSessions)
    /\ \A t \in DOMAIN reconciledUserSessions : reconciledUserSessions[t].owner \in storeUsers
<1>1. Descends(openedUserSessions, resetSessionFile["user"].sessions)
  BY SessionsRead DEF openedUserSessions
<1>2. PICK map : map = openedUserSessions
  OBVIOUS
<1>3. reconciledUserSessions = Restrict(map, {t \in DOMAIN map : map[t].owner \in storeUsers})
  BY <1>2 DEF reconciledUserSessions
<1>4. /\ Descends(reconciledUserSessions, map)
      /\ \A t \in DOMAIN reconciledUserSessions : reconciledUserSessions[t].owner \in storeUsers
  BY <1>3 DEF Restrict, Descends
<1> QED
  BY <1>1, <1>2, <1>4

LEMMA ReconciledFile ==
    ASSUME TypesInv
    PROVE  StartFile(reconciledSessionFile)
<1>1. StartFile(resetSessionFile)
  BY ResetFile
<1>2. CASE reconciledSessionFile = resetSessionFile
  BY <1>1, <1>2
<1>3. CASE reconciledSessionFile # resetSessionFile
  <2>1. PICK reset : reset = resetSessionFile
    OBVIOUS
  <2>2. PICK map : map = reconciledUserSessions
    OBVIOUS
  <2>3. reconciledSessionFile = [reset EXCEPT !["user"].sessions = map]
    BY <1>3, <2>1, <2>2, Zenon DEF reconciledSessionFile
  <2>4. DOMAIN reset = Managers /\ reset["user"] = [binding |-> reset["user"].binding, sessions |-> reset["user"].sessions]
    BY <1>1, <2>1, TwoManagers DEF StartFile
  <2>5. /\ DOMAIN reconciledSessionFile = Managers /\ reconciledSessionFile["admin"] = reset["admin"]
        /\ reconciledSessionFile["user"] = [binding |-> reset["user"].binding, sessions |-> map]
    BY <2>3, <2>4, TwoManagers
  <2>6. Descends(map, sessionFile["user"].sessions)
    <3>1. Descends(map, reset["user"].sessions)
      BY <2>1, <2>2, UserSessionsRead, DescendsTwice
    <3>2. Descends(reset["user"].sessions, sessionFile["user"].sessions)
      BY <1>1, <2>1, TwoManagers DEF StartFile
    <3> QED
      BY <3>1, <3>2, DescendsTwice
  <2>7. ASSUME NEW m \in Managers
        PROVE  /\ reconciledSessionFile[m] = [binding |-> reconciledSessionFile[m].binding,
                                              sessions |-> reconciledSessionFile[m].sessions]
               /\ Descends(reconciledSessionFile[m].sessions, sessionFile[m].sessions)
    <3>1. CASE m = "admin"
      BY <1>1, <2>1, <2>5, <3>1 DEF StartFile
    <3>2. CASE m = "user"
      BY <2>5, <2>6, <3>2
    <3> QED
      BY <3>1, <3>2, TwoManagers
  <2> QED
    BY <1>1, <2>1, <2>5, <2>7 DEF StartFile
<1> QED
  BY <1>2, <1>3

(* What a stopped Master has are the two files.                            *)
LEMMA StoppedPlaces ==
    ASSUME WebInv, ~serving, NEW m \in Managers
    PROVE  /\ browsing[m] = NoSessions /\ activity[m] = asleep /\ activity[m].snapshot = NoSessions
           /\ activity[m].phase = "none"
           /\ sessionFile[m].sessions \in Places(m) /\ Sized(sessionFile[m].sessions)
           /\ Held(m) = DOMAIN sessionFile[m].sessions
           /\ Held(m) # {} => identityFile.version = 3
<1>1. /\ browsing[m] = NoSessions /\ activity[m] = asleep
      /\ identityFile.version = 2 => sessionFile[m].sessions = NoSessions
      /\ identityFile.version \in {2, 3}
  BY DEF WebInv, StandingInv, Asleep, TypesInv
<1>2. activity[m].snapshot = NoSessions /\ activity[m].phase = "none"
  BY <1>1 DEF asleep
<1>3. sessionFile[m].sessions \in Places(m)
  BY DEF Places
<1>4. Sized(sessionFile[m].sessions)
  BY <1>3, HeldFacts DEF WebInv
<1>5. Held(m) = DOMAIN sessionFile[m].sessions
  BY <1>1, <1>2, Emptied DEF Held
<1> QED
  BY <1>1, <1>2, <1>3, <1>4, <1>5, Emptied

(* The sessions of a Master that starts, or fails to, come from the files. *)
Reloads ==
    /\ UNCHANGED <<hour, storeUsers, gate, requests, handedOut, finished, promised, activity>>
    /\ StartFile(sessionFile')
    /\ DOMAIN browsing' = Managers
    /\ \A m \in Managers : Descends(browsing'[m], sessionFile[m].sessions)
    /\ \E doc : StartDocument(doc) /\ identityFile' \in {doc, identityFile}
    /\ accounts' \in {accounts, identityFile'.accounts}

LEMMA ReloadedPlaces ==
    ASSUME WebInv, ~serving, Reloads
    PROVE  PlacesInv' /\ \A m \in Managers : \A map \in Places(m)' : Descends(map, sessionFile[m].sessions)
<1>0. /\ TypesInv /\ StandingInv /\ PlacesInv /\ hour' = hour /\ hour \in Nat /\ accounts = NoAccounts
      /\ UNCHANGED <<requests, handedOut, finished, promised, activity>>
  BY DEF WebInv, Reloads, TypesInv, StandingInv
<1>1. ASSUME NEW m \in Managers
      PROVE  /\ sessionFile[m].sessions \in Places(m) /\ Sized(sessionFile[m].sessions)
             /\ Held(m) = DOMAIN sessionFile[m].sessions
             /\ \A map \in Places(m)' : Descends(map, sessionFile[m].sessions)
  <2>1. /\ activity'[m].snapshot = NoSessions /\ Descends(NoSessions, sessionFile[m].sessions)
        /\ Descends(browsing'[m], sessionFile[m].sessions)
        /\ Descends(sessionFile'[m].sessions, sessionFile[m].sessions)
    BY <1>0, StoppedPlaces, Emptied DEF Reloads, StartFile
  <2> QED
    BY <2>1, StoppedPlaces DEF Places
<1>2. ASSUME NEW m \in Managers
      PROVE  EnvOf(m)
  <2>1. \A x \in Held(m) : x \in Bearers /\ x # Blank /\ x \notin finished /\ promised[x] \in Nat
           /\ identityFile.version = 3
           /\ \A u \in EndUsers : x # accounts[u].invite /\ x # identityFile.accounts[u].invite
    BY <1>0, HeldApart, StoppedPlaces DEF TypesInv
  <2>2. promised' \in [Bearers -> Nat] /\ Watched' = Watched
    BY <1>0 DEF TypesInv, Watched
  <2>3. NoAccount.invite = Blank /\ \A u \in EndUsers : NoAccounts[u] = NoAccount
    BY NoBook DEF NoAccount
  <2>4. \A x \in Held(m), u \in EndUsers : x # identityFile'.accounts[u].invite
    BY <2>1, <2>3 DEF Reloads, StartDocument
  <2>5. \A x \in Held(m), u \in EndUsers : x # accounts'[u].invite
    BY <2>1, <2>4 DEF Reloads
  <2> QED
    BY <1>0, <2>1, <2>2, <2>4, <2>5 DEF EnvOf
<1>3. ASSUME NEW m \in Managers, NEW map \in Places(m)'
      PROVE  /\ IsFiniteSet(DOMAIN map) /\ IsSessions(map) /\ DOMAIN map \subseteq Held(m)
             /\ \A x \in DOMAIN map : Lasting(m, x, map[x])'
  <2>1. PICK old \in Places(m) : Descends(map, old) /\ Sized(old) /\ DOMAIN old = Held(m)
    BY <1>1, <1>3
  <2>2. Sized(map) /\ DOMAIN map \subseteq Held(m)
    BY <2>1, DescendsSized DEF Descends
  <2>3. DOMAIN map \subseteq Held(m)'
    BY <1>3 DEF Places, Held
  <2>4. ASSUME NEW x \in DOMAIN map
        PROVE  x \in Bearers /\ map[x] \in SessionRecord /\ Lasting(m, x, map[x])'
    <3>1. map[x] = old[x] /\ x \in DOMAIN old /\ x \in Held(m) \cap Held(m)'
      BY <2>1, <2>2, <2>3, <2>4 DEF Descends
    <3>2. x \in Bearers /\ old[x] \in SessionRecord /\ Lasting(m, x, old[x])
      BY <1>0, <2>1, <3>1, HeldFacts
    <3>3. Lasting(m, x, old[x])'
      BY <1>0, <1>2, <3>1, <3>2, LastingStep
    <3> QED
      BY <3>1, <3>2, <3>3
  <2> QED
    BY <2>2, <2>4 DEF IsSessions, Sized
<1>4. \A m \in Managers : Held(m)' \subseteq Held(m)
  BY <1>3 DEF Held, Places
<1>5. (Held("admin") \cap Held("user"))' = {}
  BY <1>0, <1>4, PlacesApart, TwoManagers
<1>6. \A m \in Managers : DOMAIN activity'[m].snapshot = {}
  BY <1>0, StoppedPlaces, Emptied
<1>7. \A m \in Managers : PlacesOf(m)'
  BY <1>3, <1>6 DEF PlacesOf
<1> QED
  BY <1>1, <1>5, <1>7, PlacesApart, TwoManagers DEF PlacesInv, PlacesOf, Places, Held

LEMMA ReloadedTypes ==
    ASSUME WebInv, ~serving, Reloads, serving' \in BOOLEAN, IsBook(legacyFile'), operator' \in AdminRecord
    PROVE  TypesInv' /\ GateInv'
<1>0. /\ TypesInv /\ GateInv
      /\ UNCHANGED <<hour, storeUsers, gate, requests, handedOut, finished, promised, activity>>
  BY DEF WebInv, Reloads
<1>1. GateInv'
  BY <1>0 DEF GateInv, Deriving
<1>2. /\ identityFile' \in [version : {2, 3}, admin : AdminRecord, accounts : {identityFile'.accounts}]
      /\ IsBook(identityFile'.accounts)
  BY <1>0 DEF Reloads, StartDocument, TypesInv
<1>3. IsBook(accounts')
  BY <1>0, <1>2 DEF Reloads, TypesInv
<1>4. DOMAIN browsing' = Managers /\ DOMAIN sessionFile' = Managers
      /\ \A m \in Managers :
            sessionFile'[m] = [binding |-> sessionFile'[m].binding, sessions |-> sessionFile'[m].sessions]
  BY DEF Reloads, StartFile
<1>5. TypesInv'
  BY <1>0, <1>2, <1>3, <1>4 DEF TypesInv
<1> QED
  BY <1>1, <1>5

(* What a session of the files proves, it proves of the documents a start  *)
(* leaves.                                                                 *)
LEMMA ReloadedCredentials ==
    ASSUME WebInv, ~serving, Reloads
    PROVE  /\ \A t \in DOMAIN sessionFile'["admin"].sessions :
                 BoundTo(sessionFile["admin"].binding, sessionFile["admin"].sessions[t])'
           /\ \A map \in Places("user")' : \A t \in DOMAIN map : map[t].owner \in storeUsers' =>
                 Vouched(map[t], identityFile'.accounts[map[t].owner])
<1>0. /\ TypesInv /\ CredentialInv /\ storeUsers' = storeUsers
  BY DEF WebInv, Reloads
<1>1. identityFile'.admin = identityFile.admin
  BY DEF Reloads, StartDocument
<1>2. ASSUME NEW t \in DOMAIN sessionFile'["admin"].sessions
      PROVE  BoundTo(sessionFile["admin"].binding, sessionFile["admin"].sessions[t])'
  <2>1. sessionFile'["admin"].binding = sessionFile["admin"].binding
    BY <1>2, Emptied DEF Reloads, StartFile
  <2>2. /\ t \in DOMAIN sessionFile["admin"].sessions
        /\ sessionFile'["admin"].sessions[t] = sessionFile["admin"].sessions[t]
    BY <1>2, TwoManagers DEF Reloads, StartFile, Descends
  <2>3. BoundTo(sessionFile["admin"].binding, sessionFile["admin"].sessions[t])
    BY <1>0, <2>2 DEF CredentialInv
  <2> QED
    BY <1>1, <2>1, <2>2, <2>3 DEF BoundTo
<1>3. ASSUME NEW map \in Places("user")', NEW t \in DOMAIN map, map[t].owner \in storeUsers'
      PROVE  Vouched(map[t], identityFile'.accounts[map[t].owner])
  <2>1. PICK old : old = sessionFile["user"].sessions
    OBVIOUS
  <2>2. Descends(map, old)
    BY <2>1, ReloadedPlaces, TwoManagers
  <2>3. t \in DOMAIN old /\ map[t] = old[t] /\ t \in Held("user") /\ old \in Places("user")
    BY <2>1, <2>2 DEF Descends, Held, Places
  <2>4. old[t].owner \in storeUsers /\ Vouched(old[t], identityFile.accounts[old[t].owner])
    BY <1>0, <1>3, <2>3 DEF CredentialInv
  <2>5. identityFile.version = 3 /\ old[t].owner \in EndUsers
    BY <1>0, <2>3, <2>4, StoppedPlaces, TwoManagers DEF TypesInv
  <2>6. identityFile'.accounts[old[t].owner] = identityFile.accounts[old[t].owner]
    BY <2>4, <2>5 DEF Reloads, StartDocument
  <2> QED
    BY <2>3, <2>4, <2>6
<1> QED
  BY <1>2, <1>3

LEMMA StartFailsStep ==
    ASSUME WebInv, startFails
    PROVE  WebInv'
<1>0. /\ TypesInv /\ RequestsInv /\ StandingInv /\ CredentialInv /\ ~serving /\ loadUnifiedIdentities(openedDocument)
      /\ UNCHANGED <<serving, hour, storeUsers, legacyFile, accounts, operator, binding, browsing, activity,
                     gate, requests, handedOut, finished, promised>>
      /\ \/ identityFile' = identityFile /\ sessionFile' = resetSessionFile
         \/ identityFile' \in {openedDocument, reconciledDocument}
            /\ sessionFile' \in {resetSessionFile, reconciledSessionFile}
  BY DEF WebInv, startFails
<1>1. StartFile(resetSessionFile) /\ StartFile(reconciledSessionFile)
  BY <1>0, ResetFile, ReconciledFile
<1>2. StartDocument(openedDocument) /\ StartDocument(reconciledDocument)
  BY <1>0, OpenedDocument, ReconciledDocument
<1>3. \A m \in Managers : browsing[m] = NoSessions /\ activity[m].snapshot = NoSessions
  BY <1>0, StoppedPlaces
<1>4. Reloads
  <2>1. StartFile(sessionFile')
    BY <1>0, <1>1
  <2>2. \E doc : StartDocument(doc) /\ identityFile' \in {doc, identityFile}
    BY <1>0, <1>2
  <2>3. DOMAIN browsing' = Managers /\ \A m \in Managers : Descends(browsing'[m], sessionFile[m].sessions)
    BY <1>0, <1>3, Emptied DEF TypesInv
  <2> QED
    BY <1>0, <2>1, <2>2, <2>3 DEF Reloads
<1>5. PlacesInv'
  BY <1>0, <1>4, ReloadedPlaces
<1>6. TypesInv' /\ GateInv'
  BY <1>0, <1>4, ReloadedTypes DEF TypesInv
<1>7. RequestsInv'
  BY <1>0 DEF RequestsInv, RequestOk
<1>8. StandingInv'
  <2>1. accounts' = NoAccounts /\ \A m \in Managers : Asleep(m)'
    BY <1>0 DEF StandingInv, Asleep
  <2>2. \A r \in Requests : requests'[r] = noRequest
    BY <1>0 DEF StandingInv
  <2>3. \A t \in finished', u \in EndUsers : t # accounts'[u].invite /\ t # identityFile'.accounts[u].invite
    BY <1>0, <1>2 DEF StandingInv, StartDocument
  <2>4. identityFile'.version = 3 => loadUnifiedIdentities(identityFile')
    BY <1>0, <1>2 DEF StandingInv, StartDocument
  <2>5. identityFile'.version = 2 => handedOut' = {} /\ \A m \in Managers : sessionFile'[m].sessions = NoSessions
    <3>1. SUFFICES ASSUME identityFile'.version = 2
                   PROVE  handedOut' = {} /\ \A m \in Managers : sessionFile'[m].sessions = NoSessions
      OBVIOUS
    <3>2. identityFile' = identityFile /\ sessionFile' = resetSessionFile
      BY <1>0, <1>2, <3>1 DEF StartDocument
    <3> QED
      BY <1>0, <3>1, <3>2, ResetFile DEF StandingInv
  <2> QED
    BY <1>0, <2>1, <2>2, <2>3, <2>4, <2>5 DEF StandingInv
<1>9. CredentialInv'
  <2>1. \A m \in Managers : DOMAIN browsing'[m] = {} /\ DOMAIN activity'[m].snapshot = {}
    BY <1>0, <1>3, Emptied
  <2> QED
    BY <1>0, <1>4, <2>1, ReloadedCredentials, TwoManagers DEF CredentialInv
<1> QED
  BY <1>5, <1>6, <1>7, <1>8, <1>9 DEF WebInv

LEMMA OpenStep ==
    ASSUME WebInv, OpenUnifiedWebAccess
    PROVE  WebInv'
<1>0. /\ TypesInv /\ RequestsInv /\ StandingInv /\ CredentialInv /\ ~serving /\ loadUnifiedIdentities(openedDocument)
      /\ serving' = TRUE /\ identityFile' = reconciledDocument /\ sessionFile' = reconciledSessionFile
      /\ accounts' = reconciledDocument.accounts /\ operator' = identityFile.admin
      /\ binding' = credentialBinding(identityFile)
      /\ legacyFile' \in {legacyFile, NoAccounts}
      /\ UNCHANGED <<hour, storeUsers, activity, gate, requests, handedOut, finished, promised>>
  BY DEF WebInv, OpenUnifiedWebAccess
<1>1. DOMAIN browsing' = Managers /\ browsing'["user"] = reconciledUserSessions
      /\ browsing'["admin"] = adminLoadSessions(identityFile, sessionFile["admin"])
  BY TwoManagers DEF OpenUnifiedWebAccess
<1>2. StartDocument(reconciledDocument) /\ StartFile(reconciledSessionFile)
  BY <1>0, ReconciledDocument, ReconciledFile
<1>3. Descends(browsing'["user"], sessionFile["user"].sessions)
  <2>1. Descends(openedUserSessions, sessionFile["user"].sessions)
    BY <1>0, UserSessionsRead, ResetFile
  <2> QED
    BY <1>1, <2>1, UserSessionsRead, DescendsTwice
<1>4. Descends(browsing'["admin"], sessionFile["admin"].sessions)
  BY <1>1, SessionsRead
<1>5. Reloads
  <2>1. \A m \in Managers : Descends(browsing'[m], sessionFile[m].sessions)
    BY <1>3, <1>4, TwoManagers
  <2> QED
    BY <1>0, <1>1, <1>2, <2>1 DEF Reloads
<1>6. PlacesInv'
  BY <1>0, <1>5, ReloadedPlaces
<1>7. operator' \in AdminRecord /\ IsBook(legacyFile')
  BY <1>0, NoBook DEF TypesInv
<1>8. TypesInv' /\ GateInv'
  BY <1>0, <1>5, <1>7, ReloadedTypes
<1>9. \A r \in Requests : requests'[r] = noRequest
  BY <1>0 DEF StandingInv
<1>10. RequestsInv'
  BY <1>9, IdleRequest DEF RequestsInv
<1>11. /\ identityFile'.version = 3 /\ identityFile'.admin = operator' /\ identityFile'.accounts = accounts'
       /\ identityFile' = unifiedDocument(accounts', operator') /\ loadUnifiedIdentities(identityFile')
  BY <1>0, <1>2 DEF StartDocument, unifiedDocument
<1>12. /\ binding' = <<binding'[1], operator', binding'[3]>> /\ binding'[1] \in {2, 3}
       /\ binding'[1] = 3 => binding'[3] = NoAccounts
  BY <1>0 DEF credentialBinding, TypesInv
<1>13. StandingInv'
  <2>1. \A u \in storeUsers : accounts'[u].rev \in Nat
    <3>1. IsBook(accounts')
      BY <1>0, <1>2 DEF StartDocument
    <3>2. storeUsers \subseteq EndUsers
      BY <1>0 DEF TypesInv
    <3> QED
      BY <3>1, <3>2 DEF IsBook, IsAccounts
  <2>2. \A u \in storeUsers : Ahead(accounts'[u], identityFile'.accounts[u])
    BY <1>11, <2>1 DEF Ahead
  <2>3. \A t \in finished', u \in EndUsers : t # accounts'[u].invite /\ t # identityFile'.accounts[u].invite
    BY <1>0, <1>2 DEF StartDocument
  <2>4. loadUnifiedIdentities(unifiedDocument(accounts, operator))'
    BY <1>11 DEF loadUnifiedIdentities, unifiedDocument, Known
  <2> QED
    BY <1>0, <1>11, <1>12, <2>2, <2>3, <2>4 DEF StandingInv
<1>14. CredentialInv'
  <2>1. \A m \in Managers : DOMAIN activity'[m].snapshot = {}
    BY <1>0, StoppedPlaces, Emptied
  <2>2. ASSUME NEW t \in DOMAIN browsing'["admin"]
        PROVE  browsing'["admin"][t].secret = operator'.secret /\ browsing'["admin"][t].rev = operator'.rev
    <3>1. /\ t \in DOMAIN sessionFile["admin"].sessions
          /\ browsing'["admin"][t] = sessionFile["admin"].sessions[t]
      BY <1>4, <2>2 DEF Descends
    <3>2. identityFile.version = 3
      BY <1>0, <3>1, StoppedPlaces, TwoManagers
    <3>3. sessionFile["admin"].binding = <<3, identityFile.admin, NoAccounts>>
      BY <1>1, <2>2, <3>2, SessionsRead DEF credentialBinding
    <3>4. BoundTo(sessionFile["admin"].binding, sessionFile["admin"].sessions[t])
      BY <1>0, <3>1 DEF CredentialInv
    <3>5. sessionFile["admin"].binding[2] = identityFile.admin
      BY <3>3
    <3> QED
      BY <1>0, <3>1, <3>4, <3>5 DEF BoundTo
  <2>3. \A map \in Places("user")' : \A t \in DOMAIN map : map[t].owner \in storeUsers' =>
           Vouched(map[t], identityFile'.accounts[map[t].owner]) /\ Vouched(map[t], accounts'[map[t].owner])
    BY <1>0, <1>5, <1>11, ReloadedCredentials
  <2>4. \A t \in DOMAIN browsing'["user"] :
           Vouched(browsing'["user"][t], accounts'[browsing'["user"][t].owner])
    <3>1. \A t \in DOMAIN browsing'["user"] : browsing'["user"][t].owner \in storeUsers'
      BY <1>0, <1>1, UserSessionsRead
    <3>2. browsing'["user"] \in Places("user")'
      BY DEF Places
    <3> QED
      BY <2>3, <3>1, <3>2
  <2>5. \A t \in DOMAIN sessionFile'["admin"].sessions :
           BoundTo(sessionFile["admin"].binding, sessionFile["admin"].sessions[t])'
    BY <1>0, <1>5, ReloadedCredentials
  <2>6. \A map \in {browsing["admin"], activity["admin"].snapshot}' : \A t \in DOMAIN map :
           map[t].secret = operator'.secret /\ map[t].rev = operator'.rev
    BY <2>1, <2>2, TwoManagers
  <2> QED
    BY <2>3, <2>4, <2>5, <2>6 DEF CredentialInv, Vouched
<1> QED
  BY <1>6, <1>8, <1>10, <1>13, <1>14 DEF WebInv

(* The administrator's credential is replaced while the Master is stopped. *)
LEMMA ReplaceStep ==
    ASSUME WebInv, NEW n \in Logins, NEW k \in Passwords, NEW outcome, ReplaceAdminAccess(n, k, outcome)
    PROVE  WebInv'
<1>0. /\ TypesInv /\ GateInv /\ RequestsInv /\ StandingInv /\ PlacesInv /\ CredentialInv /\ ~serving
      /\ identityFile.version = 3 => \A u \in EndUsers : identityFile.accounts[u].name # n
      /\ UNCHANGED <<serving, hour, storeUsers, legacyFile, accounts, operator, binding, browsing, sessionFile,
                     activity, gate, requests, handedOut, finished, promised>>
  BY DEF WebInv, ReplaceAdminAccess
<1>1. PICK adm : adm = [name |-> n, secret |-> k,
                        rev |-> IF identityFile.version = 3 THEN identityFile.admin.rev + 1 ELSE 1]
  OBVIOUS
<1>2. /\ identityFile = [version |-> identityFile.version, admin |-> identityFile.admin, accounts |-> identityFile.accounts]
      /\ identityFile.version \in {2, 3} /\ identityFile.admin \in AdminRecord /\ identityFile.admin.rev \in Nat
      /\ IsBook(identityFile.accounts)
  BY <1>0 DEF TypesInv, AdminRecord
<1>3. \/ identityFile' = identityFile
      \/ identityFile' = [version |-> identityFile.version, admin |-> adm, accounts |-> identityFile.accounts]
  <2>1. identityFile' = identityFile \/ identityFile' = [identityFile EXCEPT !.admin = adm]
    BY <1>1, Zenon DEF ReplaceAdminAccess, replaced, replacementAdminAccessDocument
  <2> QED
    BY <1>2, <2>1
<1>4. /\ adm \in AdminRecord /\ adm.name = n /\ adm.rev \in Nat
      /\ identityFile.version = 3 => adm.rev = identityFile.admin.rev + 1
  BY <1>1, <1>2 DEF AdminRecord
<1>5. identityFile'.version = identityFile.version /\ identityFile'.accounts = identityFile.accounts
      /\ identityFile'.admin \in {identityFile.admin, adm}
  BY <1>2, <1>3
<1>6. TypesInv'
  <2>1. identityFile' \in [version : {2, 3}, admin : AdminRecord, accounts : {identityFile'.accounts}]
        /\ IsBook(identityFile'.accounts)
    <3>1. PICK v, old, accs : v = identityFile.version /\ old = identityFile.admin /\ accs = identityFile.accounts
      OBVIOUS
    <3>2. PICK now \in AdminRecord : identityFile' = [version |-> v, admin |-> now, accounts |-> accs]
      <4>1. CASE identityFile' = identityFile
        BY <1>2, <3>1, <4>1
      <4>2. CASE identityFile' # identityFile
        BY <1>3, <1>4, <3>1, <4>2
      <4> QED
        BY <4>1, <4>2
    <3>3. v \in {2, 3} /\ IsBook(accs)
      BY <1>2, <3>1
    <3>4. identityFile'.accounts = accs
      BY <3>2
    <3> QED
      BY <3>2, <3>3, <3>4
  <2> QED
    BY <1>0, <2>1 DEF TypesInv
<1>7. GateInv'
  BY <1>0 DEF GateInv, Deriving
<1>8. RequestsInv'
  BY <1>0 DEF RequestsInv, RequestOk
<1>9. identityFile.version = 3 => loadUnifiedIdentities(identityFile')
  <2>1. identityFile.version = 3 => loadUnifiedIdentities(identityFile)
    BY <1>0 DEF StandingInv
  <2>2. \A u \in Known(identityFile.accounts) : u \in EndUsers
    BY DEF Known
  <2> QED
    <3>1. CASE identityFile' = identityFile
      BY <2>1, <3>1
    <3>2. CASE identityFile' # identityFile
      <4>1. identityFile'.admin.name = n /\ identityFile'.accounts = identityFile.accounts
        BY <1>3, <1>4, <3>2
      <4>2. PICK accs : accs = identityFile.accounts
        OBVIOUS
      <4>3. identityFile.version = 3 =>
               /\ \A u \in Known(accs) : accs[u].name # n
               /\ \A u, v \in Known(accs) : u # v /\ accs[u].name # Blank => accs[u].name # accs[v].name
               /\ \A u \in Known(accs) : accs[u].name = Blank \/ accs[u].invite = Blank
        BY <1>0, <2>1, <2>2, <4>2 DEF loadUnifiedIdentities
      <4>4. PICK new : new = identityFile'
        OBVIOUS
      <4>5. identityFile.version = 3 => loadUnifiedIdentities(new)
        BY <4>1, <4>2, <4>3, <4>4 DEF loadUnifiedIdentities
      <4> QED
        BY <4>4, <4>5
    <3> QED
      BY <3>1, <3>2
<1>10. StandingInv'
  <2>1. \A m \in Managers : Asleep(m) /\ Asleep(m)'
    BY <1>0 DEF StandingInv, Asleep
  <2> QED
    BY <1>0, <1>5, <1>9, <2>1 DEF StandingInv
<1>11. \A k_1 \in Managers : Quiet(k_1)
  BY <1>0 DEF Quiet
<1>12. \A m \in Managers : StepOf(m, Blank, Blank) /\ Blank \notin Held(m)'
  BY <1>0, <1>11, QuietIsStep
<1>13. \A m \in Managers : EnvOf(m)
  <2>1. SameAccounts /\ hour' = hour /\ finished' = finished /\ promised' = promised /\ Watched' = Watched
        /\ promised \in [Bearers -> Nat]
    BY <1>0, <1>5 DEF SameAccounts, Watched, TypesInv
  <2>2. \A m \in Managers : \A x \in Held(m) : promised[x] \in Nat
    BY <1>0, <2>1, HeldApart
  <2> QED
    BY <1>0, <2>1, <2>2, EnvKept
<1>14. PlacesInv'
  BY <1>0, <1>12, <1>13, NoStep
<1>15. CredentialInv'
  <2>1. \A m \in Managers : DOMAIN browsing[m] = {} /\ DOMAIN activity[m].snapshot = {}
    BY <1>0, StoppedPlaces, Emptied
  <2>2. ASSUME NEW t \in DOMAIN sessionFile["admin"].sessions
        PROVE  BoundTo(sessionFile["admin"].binding, sessionFile["admin"].sessions[t])'
    <3>1. PICK b : b = sessionFile["admin"].binding
      OBVIOUS
    <3>2. PICK s : s = sessionFile["admin"].sessions[t]
      OBVIOUS
    <3>3. BoundTo(b, s)
      BY <1>0, <2>2, <3>1, <3>2 DEF CredentialInv
    <3>4. identityFile.version = 3 /\ s.rev \in Nat
      <4>1. s \in SessionRecord
        BY <1>0, <2>2, <3>2, HeldFacts, TwoManagers DEF Places
      <4> QED
        BY <1>0, <2>2, <4>1, StoppedPlaces, TwoManagers DEF SessionRecord
    <3>5. b[2].rev \in Nat
      BY <3>3, <3>4 DEF BoundTo
    <3>6. BoundTo(b, s)'
      <4>1. PICK before : before = identityFile.admin
        OBVIOUS
      <4>2. PICK after : after = identityFile'.admin
        OBVIOUS
      <4>3. b[1] = 3 => /\ b[2].rev <= before.rev
                        /\ b[2].rev = before.rev => b[2] = before
        BY <3>3, <4>1 DEF BoundTo
      <4>4. after = before \/ after.rev = before.rev + 1
        BY <1>4, <1>5, <3>4, <4>1, <4>2
      <4>5. before.rev \in Nat
        BY <1>2, <4>1
      <4>6. b[1] = 3 => /\ b[2].rev <= after.rev
                        /\ b[2].rev = after.rev => b[2] = after
        BY <3>5, <4>3, <4>4, <4>5
      <4> QED
        BY <3>3, <4>2, <4>6 DEF BoundTo
    <3>7. sessionFile' = sessionFile
      BY <1>0
    <3> QED
      BY <3>1, <3>2, <3>6, <3>7
  <2>3. sessionFile' = sessionFile /\ storeUsers' = storeUsers /\ browsing' = browsing /\ activity' = activity
        /\ serving' = serving
    BY <1>0
  <2>4. \A map \in Places("user")' : map \in Places("user")
    BY <2>3 DEF Places
  <2> QED
    BY <1>0, <1>5, <2>1, <2>2, <2>3, <2>4, TwoManagers DEF CredentialInv, Vouched
<1> QED
  BY <1>6, <1>7, <1>8, <1>10, <1>14, <1>15 DEF WebInv

-----------------------------------------------------------------------------
(* The invariant.                                                          *)

LEMMA WebInvInit ==
    ASSUME WebInit
    PROVE  WebInv
<1>1. PICK seed \in Seeds : identityFile = seed.identity /\ legacyFile = seed.legacy
  BY DEF WebInit
<1>2. /\ identityFile \in [version : {2, 3}, admin : AdminRecord, accounts : {identityFile.accounts}]
      /\ IsBook(identityFile.accounts) /\ IsBook(legacyFile)
      /\ identityFile.version = 3 => loadUnifiedIdentities(identityFile)
  BY <1>1, FirstIdentitiesAreSound
<1>3. /\ serving = FALSE /\ hour = 0 /\ storeUsers = EndUsers /\ accounts = NoAccounts /\ operator = NoOperator
      /\ browsing = [m \in Managers |-> NoSessions] /\ activity = [m \in Managers |-> asleep] /\ gate = 0
      /\ sessionFile = [m \in Managers |-> [binding |-> Blank, sessions |-> NoSessions]]
      /\ requests = [r \in Requests |-> noRequest] /\ handedOut = {} /\ finished = {}
      /\ promised = [t \in Bearers |-> 0]
  BY DEF WebInit
<1>4. \A m \in Managers : /\ browsing[m] = NoSessions /\ activity[m] = asleep /\ activity[m].snapshot = NoSessions
                          /\ activity[m].phase = "none"
                          /\ activity[m] = [phase |-> activity[m].phase, snapshot |-> activity[m].snapshot]
  BY <1>3 DEF asleep
<1>s. ASSUME NEW m \in Managers
      PROVE  /\ sessionFile[m].sessions = NoSessions
             /\ sessionFile[m] = [binding |-> sessionFile[m].binding, sessions |-> sessionFile[m].sessions]
  <2>1. PICK fl : fl = sessionFile[m]
    OBVIOUS
  <2>2. fl = [binding |-> Blank, sessions |-> NoSessions]
    BY <1>3, <2>1
  <2>3. fl.sessions = NoSessions /\ fl = [binding |-> fl.binding, sessions |-> fl.sessions]
    BY <2>2
  <2> QED
    BY <2>1, <2>3
<1>5. \A r \in Requests : requests[r] = noRequest
  BY <1>3
<1>6. TypesInv
  <2>1. storeUsers \subseteq EndUsers /\ IsBook(accounts) /\ operator \in AdminRecord
    BY <1>3, NoBook
  <2>2. /\ promised \in [Bearers -> Nat] /\ \A t \in Bearers : promised[t] <= hour + IdleTimeout
        /\ handedOut \subseteq Bearers /\ finished \subseteq handedOut
    BY <1>3, Limits
  <2>3. requests \in [Requests -> RequestRecord]
    BY <1>3, IdleRequest
  <2>4. DOMAIN browsing = Managers /\ DOMAIN sessionFile = Managers /\ DOMAIN activity = Managers
    BY <1>3
  <2>5. \A m \in Managers :
           sessionFile[m] = [binding |-> sessionFile[m].binding, sessions |-> sessionFile[m].sessions]
    BY <1>s
  <2>6. serving \in BOOLEAN /\ hour \in Nat
    BY <1>3
  <2> QED
    BY <1>2, <1>4, <2>1, <2>2, <2>3, <2>4, <2>5, <2>6 DEF TypesInv
<1>7. GateInv
  BY <1>3, <1>5, IdleRequest DEF GateInv, Deriving
<1>8. RequestsInv
  BY <1>5, IdleRequest DEF RequestsInv
<1>9. StandingInv
  BY <1>2, <1>3, <1>4, <1>5, <1>s DEF StandingInv, Asleep
<1>10. \A m \in Managers : \A map \in Places(m) : map = NoSessions
  <2>1. \A m \in Managers : browsing[m] = NoSessions /\ sessionFile[m].sessions = NoSessions
                            /\ activity[m].snapshot = NoSessions
    BY <1>4, <1>s
  <2> QED
    BY <2>1 DEF Places
<1>11. DOMAIN NoSessions = {} /\ Sized(NoSessions)
  BY Emptied
<1>12. PlacesInv
  BY <1>4, <1>10, <1>11, TwoManagers DEF PlacesInv, IsSessions, Sized
<1>13. CredentialInv
  BY <1>3, <1>4, <1>10, <1>11, <1>s, TwoManagers DEF CredentialInv
<1> QED
  BY <1>6, <1>7, <1>8, <1>9, <1>12, <1>13 DEF WebInv

LEMMA WebInvNext ==
    ASSUME WebInv, [WebNext]_webVars
    PROVE  WebInv'
<1>1. ASSUME NEW r \in Requests, NEW n \in Logins \cup {Blank}, NEW k \in Passwords, LoginIdentityForClient(r, n, k)
      PROVE  WebInv'
  BY <1>1, LoginStep
<1>2. ASSUME NEW r \in Requests, NEW t \in Bearers, NEW u \in EndUsers,
             issueEndUserInvitation(r, t, u) \/ deleteEndUser(r, t, u)
      PROVE  WebInv'
  BY <1>2, InvitingStep, DeletingStep
<1>3. ASSUME NEW r \in Requests, NEW t \in Bearers, NEW n \in Logins, NEW k \in Passwords, endUserClaim(r, t, n, k)
      PROVE  WebInv'
  BY <1>3, ClaimAskedStep
<1>4. ASSUME NEW r \in Requests, proceed(r)
      PROVE  WebInv'
  <2>1. CASE TakeGate(r) \/ GiveUpWaiting(r) \/ derivePassword(r)
    BY <2>1, TakeGateStep, GiveUpStep, DeriveStep
  <2>2. ASSUME NEW w, FinishLogin(r, w) \/ unifiedLogin(r, w)
        PROVE  WebInv'
    BY <2>2, FinishLoginStep, UnifiedLoginStep
  <2>3. ASSUME NEW w, IssueInvitation(r, w) \/ ClaimInvitation(r, w) \/ finishClaim(r, w) \/ finishDelete(r, w)
        PROVE  WebInv'
    BY <2>3, IssueStep, ClaimStep, FinishClaimStep, FinishDeleteStep
  <2> QED
    BY <1>4, <2>1, <2>2, <2>3, Zenon DEF proceed
<1>5. ASSUME NEW t \in Bearers, requireAuthentication(t)
      PROVE  WebInv'
  BY <1>5, VisitStep
<1>6. ASSUME NEW t \in Bearers, NEW w, endUserPortal(t, w) \/ logout(t, w) \/ endUserLogout(t, w)
      PROVE  WebInv'
  BY <1>6, PortalStep, LogoutStep
<1>7. ASSUME NEW m \in Managers, background(m)
      PROVE  WebInv'
  BY <1>7, BeginActivityStep, PersistActivityStep DEF background
<1>8. ASSUME NEW w, Close(w)
      PROVE  WebInv'
  <2>1. serving /\ halt /\ persistSessionSnapshot("user", w, browsing["user"], Blank)
    BY <1>8 DEF Close
  <2> QED
    BY <2>1, HaltStep
<1>9. CASE MasterCrashes
  <2>1. serving /\ halt /\ sessionFile' = sessionFile
    BY <1>9 DEF MasterCrashes
  <2> QED
    BY <2>1, HaltStep
<1>10. CASE OpenUnifiedWebAccess
  BY <1>10, OpenStep
<1>11. CASE startFails
  BY <1>11, StartFailsStep
<1>12. CASE HourPasses
  BY <1>12, HourStep
<1>13. ASSUME NEW n \in Logins, NEW k \in Passwords, NEW w, ReplaceAdminAccess(n, k, w)
       PROVE  WebInv'
  BY <1>13, ReplaceStep
<1>14. CASE UNCHANGED webVars
  BY <1>14, NothingStutters
<1> QED
  BY <1>1, <1>2, <1>3, <1>4, <1>5, <1>6, <1>7, <1>8, <1>9, <1>10, <1>11, <1>12, <1>13, <1>14, Zenon DEF WebNext

(* The sessions, the files and the requests stay as WebInv says.           *)
THEOREM WebInvariant == WebSpec => []WebInv
<1>1. WebInit => WebInv
  BY WebInvInit
<1>2. WebInv /\ [WebNext]_webVars => WebInv'
  BY WebInvNext
<1> QED
  BY <1>1, <1>2, PTL DEF WebSpec

-----------------------------------------------------------------------------
(* The promise to the browsers.                                            *)

LEMMA ReopenedSessions ==
    ASSUME WebInv
    PROVE  /\ \A m \in Managers : Descends(reopened[m], sessionFile[m].sessions) /\ Held(m) \subseteq Bearers
           /\ \A t \in DOMAIN reopened["admin"] : sessionFile["admin"].binding = credentialBinding(identityFile)
           /\ \A t \in DOMAIN reopened["user"] : reopened["user"][t].owner \in storeUsers
<1>0. TypesInv /\ PlacesInv
  BY DEF WebInv
<1>1. /\ reopened["admin"] = adminLoadSessions(identityFile, sessionFile["admin"])
      /\ reopened["user"] = reconciledUserSessions
  BY TwoManagers DEF reopened
<1>2. Descends(reconciledUserSessions, sessionFile["user"].sessions)
  <2>1. Descends(openedUserSessions, sessionFile["user"].sessions)
    BY <1>0, UserSessionsRead, ResetFile
  <2> QED
    BY <2>1, UserSessionsRead, DescendsTwice
<1>3. Descends(reopened["admin"], sessionFile["admin"].sessions) /\ Descends(reopened["user"], sessionFile["user"].sessions)
  BY <1>1, <1>2, SessionsRead
<1>4. \A t \in DOMAIN reopened["admin"] : sessionFile["admin"].binding = credentialBinding(identityFile)
  BY <1>1, SessionsRead
<1>5. \A t \in DOMAIN reopened["user"] : reopened["user"][t].owner \in storeUsers
  BY <1>1, UserSessionsRead
<1> QED
  BY <1>0, <1>3, <1>4, <1>5, HeldFacts, TwoManagers

LEMMA UserSessionsOpened ==
    ASSUME NEW map, map = resetSessionFile["user"].sessions, NEW accs, accs = openedDocument.accounts
    PROVE  \A t : /\ t \in DOMAIN openedUserSessions <=>
                        /\ t \in DOMAIN map /\ live(map[t], hour)
                        /\ accs[map[t].owner].rev > 0 /\ accs[map[t].owner].rev = map[t].rev
                  /\ t \in DOMAIN openedUserSessions => openedUserSessions[t] = map[t]
<1>1. PICK kept : kept = {x \in DOMAIN map : /\ accs[map[x].owner].rev > 0 /\ accs[map[x].owner].rev = map[x].rev
                                             /\ live(map[x], hour)}
  OBVIOUS
<1>2. openedUserSessions = [x \in kept |-> map[x]]
  BY <1>1, Zenon DEF openedUserSessions, userLoadSessions, loaded
<1>3. DOMAIN openedUserSessions = kept /\ \A t \in kept : openedUserSessions[t] = map[t]
  BY <1>2
<1>4. \A t : t \in kept <=> /\ t \in DOMAIN map /\ live(map[t], hour)
                           /\ accs[map[t].owner].rev > 0 /\ accs[map[t].owner].rev = map[t].rev
  BY <1>1
<1> QED
  BY <1>3, <1>4, Zenon

LEMMA UserSessionOpened ==
    ASSUME NEW t \in DOMAIN reopened["user"]
    PROVE  openedDocument.accounts[reopened["user"][t].owner].rev = reopened["user"][t].rev
<1>1. reopened["user"] = reconciledUserSessions
  BY TwoManagers DEF reopened
<1>2. PICK accs : accs = openedDocument.accounts
  OBVIOUS
<1>3. PICK map : map = resetSessionFile["user"].sessions
  OBVIOUS
<1>4. t \in DOMAIN openedUserSessions /\ reconciledUserSessions[t] = openedUserSessions[t]
  BY <1>1, UserSessionsRead DEF Descends
<1>5. openedUserSessions[t] = map[t] /\ accs[map[t].owner].rev = map[t].rev
  BY <1>2, <1>3, <1>4, UserSessionsOpened
<1> QED
  BY <1>1, <1>2, <1>4, <1>5

LEMMA PlacesLast ==
    ASSUME WebInv, NEW m \in Managers, NEW map, \/ map = browsing[m]
                                                \/ map = reopened[m],
           NEW t \in DOMAIN map
    PROVE  /\ Lasting(m, t, map[t]) /\ map[t] \in SessionRecord
           /\ \E old \in Places(m) : t \in DOMAIN old /\ old[t] = map[t]
<1>1. PICK old \in Places(m) : t \in DOMAIN old /\ old[t] = map[t]
  BY ReopenedSessions DEF Places, Descends
<1> QED
  BY <1>1, HeldFacts DEF WebInv

LEMMA TypesShown ==
    ASSUME WebInv
    PROVE  WebTypeOK
<1>0. TypesInv /\ GateInv /\ PlacesInv
  BY DEF WebInv
<1>1. gate \in {0, 1} /\ gate = Cardinality(Deriving)
  <2>1. Cardinality({}) = 0 /\ \A r : Cardinality({r}) = 1
    BY FS_EmptySet, FS_Singleton
  <2> QED
    BY <1>0, <2>1 DEF GateInv
<1>2. \A m \in Managers : IsSessions(browsing[m]) /\ IsSessions(sessionFile[m].sessions)
  BY <1>0 DEF PlacesInv, Places
<1>3. IsAccounts(accounts) /\ IsAccounts(identityFile.accounts) /\ IsAccounts(legacyFile)
  BY <1>0 DEF TypesInv, IsBook
<1>4. identityFile.version \in {2, 3}
  BY <1>0 DEF TypesInv
<1> QED
  BY <1>0, <1>1, <1>2, <1>3, <1>4 DEF WebTypeOK, TypesInv, Deriving

LEMMA LogoutShown ==
    ASSUME WebInv
    PROVE  LoggedOutStaysOut
<1>1. SUFFICES ASSUME NEW t \in finished, NEW m \in Managers,
                      t \in DOMAIN browsing[m] \/ t \in DOMAIN reopened[m]
               PROVE  FALSE
  BY DEF LoggedOutStaysOut
<1>2. PICK map : (map = browsing[m] \/ map = reopened[m]) /\ t \in DOMAIN map
  BY <1>1
<1>3. Lasting(m, t, map[t])
  BY <1>2, PlacesLast
<1> QED
  BY <1>1, <1>3 DEF Lasting

LEMMA ClaimShown ==
    ASSUME WebInv
    PROVE  ClaimedOnlyOnce
<1>1. TypesInv /\ StandingInv
  BY DEF WebInv
<1>2. CASE identityFile.version = 3
  <2>1. openedDocument = identityFile
    BY <1>2 DEF openedDocument
  <2> QED
    BY <1>1, <2>1 DEF StandingInv, ClaimedOnlyOnce
<1>3. CASE identityFile.version # 3
  <2>1. finished = {}
    BY <1>1, <1>3 DEF StandingInv, TypesInv
  <2> QED
    BY <2>1 DEF ClaimedOnlyOnce
<1> QED
  BY <1>2, <1>3

LEMMA ProofShown ==
    ASSUME WebInv
    PROVE  SessionsProveCredential
<1>0. TypesInv /\ StandingInv /\ PlacesInv /\ CredentialInv
  BY DEF WebInv
<1>1. ASSUME NEW m \in Managers, NEW t \in DOMAIN browsing[m], authentic(browsing[m][t])
      PROVE  browsing[m][t].secret = IF m = "admin" THEN operator.secret ELSE accounts[browsing[m][t].owner].secret
  <2>1. CASE m = "admin"
    BY <1>0, <1>1, <2>1 DEF CredentialInv
  <2>2. CASE m = "user"
    <3>1. PICK s : s = browsing["user"][t]
      OBVIOUS
    <3>2. s.owner \in EndUsers
      BY <1>1, <2>2, <3>1, PlacesLast DEF Lasting, OwnersOf
    <3>3. accounts[s.owner].rev = s.rev /\ accounts[s.owner].rev > 0
      BY <1>1, <2>2, <3>1, <3>2, Limits DEF authentic
    <3>4. accounts[s.owner].rev = 0 \/ Vouched(s, accounts[s.owner])
      BY <1>0, <1>1, <2>2, <3>1 DEF CredentialInv
    <3> QED
      BY <2>2, <3>1, <3>3, <3>4 DEF Vouched
  <2> QED
    BY <2>1, <2>2, TwoManagers
<1>2. ASSUME NEW t \in DOMAIN reopened["admin"]
      PROVE  reopened["admin"][t].secret = identityFile.admin.secret
  <2>1. /\ t \in DOMAIN sessionFile["admin"].sessions /\ reopened["admin"][t] = sessionFile["admin"].sessions[t]
        /\ sessionFile["admin"].binding = credentialBinding(identityFile)
    BY <1>2, ReopenedSessions, TwoManagers DEF Descends
  <2>2. BoundTo(sessionFile["admin"].binding, sessionFile["admin"].sessions[t])
    BY <1>0, <2>1 DEF CredentialInv
  <2>3. sessionFile["admin"].binding[2] = identityFile.admin
    BY <2>1 DEF credentialBinding
  <2> QED
    BY <2>1, <2>2, <2>3 DEF BoundTo
<1>3. ASSUME NEW t \in DOMAIN reopened["user"], reconciledDocument.accounts[reopened["user"][t].owner].name # Blank
      PROVE  reopened["user"][t].secret = reconciledDocument.accounts[reopened["user"][t].owner].secret
  <2>1. PICK s : s = reopened["user"][t]
    OBVIOUS
  <2>2. PICK old \in Places("user") : t \in DOMAIN old /\ old[t] = s
    BY <1>3, <2>1, PlacesLast, TwoManagers
  <2>3. s.owner \in storeUsers /\ s.owner \in EndUsers
    BY <1>0, <1>3, <2>1, ReopenedSessions DEF TypesInv
  <2>4. Vouched(s, identityFile.accounts[s.owner])
    BY <1>0, <2>2, <2>3 DEF CredentialInv
  <2>5. identityFile.version = 3
    <3>1. t \in DOMAIN sessionFile["user"].sessions
      BY <1>3, ReopenedSessions, TwoManagers DEF Descends
    <3>2. identityFile.version = 2 => sessionFile["user"].sessions = NoSessions
      BY <1>0, TwoManagers DEF StandingInv
    <3> QED
      BY <1>0, <3>1, <3>2, Emptied DEF TypesInv
  <2>6. openedDocument = identityFile
    BY <2>5 DEF openedDocument
  <2>7. reconciledDocument.accounts[s.owner] = identityFile.accounts[s.owner]
    BY <2>3, <2>6 DEF reconciledDocument, unifiedDocument, ReconcileUsers
  <2>8. openedDocument.accounts[s.owner].rev = s.rev
    BY <1>3, <2>1, UserSessionOpened
  <2> QED
    BY <2>1, <2>4, <2>6, <2>7, <2>8 DEF Vouched
<1> QED
  BY <1>1, <1>2, <1>3, TwoManagers, Zenon DEF SessionsProveCredential

LEMMA DeadlineShown ==
    ASSUME WebInv
    PROVE  NeverOutlivesDeadline
<1>1. SUFFICES ASSUME NEW m \in Managers, NEW t \in handedOut
               PROVE  /\ t \in DOMAIN browsing[m] => expiresAt(browsing[m][t]) <= promised[t]
                      /\ t \in DOMAIN reopened[m] => expiresAt(reopened[m][t]) <= promised[t]
  BY DEF NeverOutlivesDeadline
<1>2. t \in Watched
  BY DEF Watched
<1>3. t \in DOMAIN browsing[m] => Lasting(m, t, browsing[m][t])
  BY PlacesLast
<1>4. t \in DOMAIN reopened[m] => Lasting(m, t, reopened[m][t])
  BY PlacesLast
<1> QED
  BY <1>2, <1>3, <1>4 DEF Lasting

(* What a browser may do with its session is what it should: a session     *)
(* that ended stays ended, an invitation is used once, every session       *)
(* proves the credential its owner has, the file of identities can be      *)
(* opened again, and no session outlives the deadline it was given.        *)
THEOREM SessionsStayCurrent == WebSpec => []SessionsAreCurrent
<1>1. WebInv => SessionsAreCurrent
  <2>1. WebInv => IdentitiesReopen
    BY DEF WebInv, StandingInv, IdentitiesReopen
  <2> QED
    BY <2>1, TypesShown, LogoutShown, ClaimShown, ProofShown, DeadlineShown DEF SessionsAreCurrent
<1> QED
  BY <1>1, WebInvariant, PTL

-----------------------------------------------------------------------------
(* What a restart keeps.                                                   *)

LEMMA OnlyOpens ==
    ASSUME WebNext, ~serving, serving'
    PROVE  OpenUnifiedWebAccess
<1>1. ASSUME NEW r, proceed(r)
      PROVE  FALSE
  <2>1. CASE TakeGate(r) \/ GiveUpWaiting(r) \/ derivePassword(r)
    <3>1. kdfFrame
      BY <2>1, Zenon DEF TakeGate, GiveUpWaiting, derivePassword
    <3> QED
      BY <3>1 DEF kdfFrame
  <2>2. ASSUME NEW w, FinishLogin(r, w) \/ unifiedLogin(r, w)
        PROVE  FALSE
    <3>1. serving' = serving
      BY <2>2, Zenon DEF FinishLogin, unifiedLogin
    <3> QED
      BY <3>1
  <2>3. ASSUME NEW w, IssueInvitation(r, w) \/ ClaimInvitation(r, w) \/ finishClaim(r, w) \/ finishDelete(r, w)
        PROVE  FALSE
    <3>1. serving' = serving
      BY <2>3, Zenon DEF IssueInvitation, ClaimInvitation, finishClaim, finishDelete
    <3> QED
      BY <3>1
  <2> QED
    BY <1>1, <2>1, <2>2, <2>3, Zenon DEF proceed
<1>2. ASSUME NEW m, background(m)
      PROVE  FALSE
  BY <1>2 DEF background, beginActivity, persistSessionActivity, visitFrame
<1>3. ASSUME NEW t, NEW w, endUserPortal(t, w) \/ logout(t, w) \/ endUserLogout(t, w) \/ requireAuthentication(t)
      PROVE  FALSE
  BY <1>3 DEF endUserPortal, logout, endUserLogout, presents, requireAuthentication, authorizeProxyMutation
<1>4. ASSUME NEW r, NEW t, NEW u, issueEndUserInvitation(r, t, u) \/ deleteEndUser(r, t, u)
      PROVE  FALSE
  BY <1>4 DEF issueEndUserInvitation, deleteEndUser, free_
<1>5. ASSUME NEW r, NEW t, NEW n, NEW k, endUserClaim(r, t, n, k) \/ LoginIdentityForClient(r, n, k)
      PROVE  FALSE
  BY <1>5 DEF endUserClaim, LoginIdentityForClient, free_
<1>6. ASSUME NEW n, NEW k, NEW w, ReplaceAdminAccess(n, k, w) \/ Close(w) \/ MasterCrashes \/ startFails \/ HourPasses
      PROVE  FALSE
  BY <1>6 DEF ReplaceAdminAccess, Close, MasterCrashes, startFails, HourPasses
<1> QED
  BY <1>1, <1>2, <1>3, <1>4, <1>5, <1>6, Zenon DEF WebNext

LEMMA OpenKeeps ==
    ASSUME WebInv, OpenUnifiedWebAccess, NEW m \in Managers, NEW t \in DOMAIN sessionFile[m].sessions,
           NEW s, s = sessionFile[m].sessions[t], live(s, hour),
           NEW now, now = IF m = "admin" THEN identityFile.admin ELSE reconciledDocument.accounts[s.owner],
           now.rev = s.rev, m = "admin" => sessionFile[m].binding[1] = identityFile.version
    PROVE  t \in DOMAIN browsing'[m]
<1>0. TypesInv /\ PlacesInv /\ CredentialInv /\ ~serving
  BY DEF WebInv, OpenUnifiedWebAccess
<1>1. /\ browsing'["user"] = reconciledUserSessions
      /\ browsing'["admin"] = adminLoadSessions(identityFile, sessionFile["admin"])
  BY TwoManagers DEF OpenUnifiedWebAccess
<1>2. identityFile.version = 3
  BY <1>0, StoppedPlaces, Emptied
<1>3. CASE m = "admin"
  <2>1. PICK b : b = sessionFile["admin"].binding
    OBVIOUS
  <2>2. BoundTo(b, s)
    BY <1>0, <1>3, <2>1 DEF CredentialInv
  <2>3. b[1] = 3 /\ b[2].rev = identityFile.admin.rev
    BY <1>2, <1>3, <2>1, <2>2 DEF BoundTo
  <2>4. b = <<3, identityFile.admin, NoAccounts>>
    BY <2>2, <2>3 DEF BoundTo
  <2>5. b = credentialBinding(identityFile)
    BY <1>2, <2>4 DEF credentialBinding
  <2>6. PICK map : map = sessionFile["admin"].sessions
    OBVIOUS
  <2>7. PICK kept : kept = {x \in DOMAIN map : live(map[x], hour)}
    OBVIOUS
  <2>8. browsing'["admin"] = [x \in kept |-> map[x]]
    BY <1>1, <2>1, <2>5, <2>6, <2>7, Zenon DEF adminLoadSessions, loaded
  <2> QED
    BY <1>3, <2>6, <2>7, <2>8
<1>4. CASE m = "user"
  <2>1. s.owner \in EndUsers /\ s.rev > 0
    BY <1>0, <1>4, HeldFacts DEF Places, Lasting, OwnersOf
  <2>2. PICK accs : accs = openedDocument.accounts
    OBVIOUS
  <2>3. reconciledDocument.accounts = ReconcileUsers(accs)
    BY <2>2 DEF reconciledDocument, unifiedDocument
  <2>4. s.owner \in storeUsers /\ accs[s.owner].rev = s.rev
    BY <1>4, <2>1, <2>3, TwoManagers DEF ReconcileUsers, NoAccount
  <2>5. PICK map : map = sessionFile["user"].sessions
    OBVIOUS
  <2>7. resetSessionFile["user"].sessions = map
    BY <1>0, <2>5, ResetFile
  <2>8. s = map[t] /\ t \in DOMAIN map
    BY <1>4, <2>5
  <2>9. PICK opened : opened = openedUserSessions
    OBVIOUS
  <2>10. t \in DOMAIN opened /\ opened[t] = s
    <3>1. accs[map[t].owner].rev > 0 /\ accs[map[t].owner].rev = map[t].rev /\ live(map[t], hour)
      BY <2>1, <2>4, <2>8
    <3> QED
      BY <2>2, <2>7, <2>8, <2>9, <3>1, UserSessionsOpened
  <2>11. reconciledUserSessions = Restrict(opened, {x \in DOMAIN opened : opened[x].owner \in storeUsers})
    BY <2>9 DEF reconciledUserSessions
  <2>12. t \in DOMAIN reconciledUserSessions
    BY <2>4, <2>10, <2>11 DEF Restrict
  <2> QED
    BY <1>1, <1>4, <2>12
<1> QED
  BY <1>3, <1>4, TwoManagers

(* Who is signed in with a credential that still stands stays signed in    *)
(* through a restart.                                                      *)
THEOREM RestartKeepsSessions == WebSpec => SessionsSurviveRestart
<1>1. WebInv /\ [WebNext]_webVars =>
        [~serving /\ serving' =>
           \A m \in Managers : \A t \in DOMAIN sessionFile[m].sessions :
             LET s == sessionFile[m].sessions[t]
                 now == IF m = "admin" THEN identityFile.admin ELSE reconciledDocument.accounts[s.owner]
             IN  /\ live(s, hour)
                 /\ now.rev = s.rev /\ now.secret = s.secret
                 /\ m = "admin" => sessionFile[m].binding[1] = identityFile.version
                 => t \in DOMAIN browsing'[m]]_webVars
  <2>1. SUFFICES ASSUME WebInv, WebNext, ~serving, serving'
                 PROVE  \A m \in Managers : \A t \in DOMAIN sessionFile[m].sessions :
                          LET s == sessionFile[m].sessions[t]
                              now == IF m = "admin" THEN identityFile.admin ELSE reconciledDocument.accounts[s.owner]
                          IN  /\ live(s, hour)
                              /\ now.rev = s.rev /\ now.secret = s.secret
                              /\ m = "admin" => sessionFile[m].binding[1] = identityFile.version
                              => t \in DOMAIN browsing'[m]
    BY Zenon
  <2>2. OpenUnifiedWebAccess
    BY <2>1, OnlyOpens
  <2> QED
    BY <2>1, <2>2, OpenKeeps, Zenon
<1> QED
  BY <1>1, WebInvariant, PTL DEF WebSpec, SessionsSurviveRestart

=============================================================================
