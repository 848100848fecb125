-------------------------- MODULE UserPlaneProofs --------------------------
(***************************************************************************)
(* A revocation that the Master was told of holds, proved for every number *)
(* of members, graphs, addresses and events of UserPlane.                  *)
(*                                                                         *)
(* The Agent never decides by itself whom it serves: every configuration   *)
(* passes the filter of the authority it keeps (applyCandidate), so that   *)
(* any bound on the users of that authority and of the configuration that  *)
(* runs (Served) is a bound on whatever is activated later.  The invariant *)
(* follows such a bound from the compilation of an authority to its report:*)
(* sync.seen bounds its variants until it is sent (SyncInv), while it is on*)
(* its way to the Agent and while its report is on the way back (QueueInv),*)
(* and the Agent once it has said "applied".  An older authority cannot be *)
(* answered in its stead: at most one is under way, its revision is that of*)
(* the sync, and the Agent's is not later.                                 *)
(***************************************************************************)
EXTENDS UserPlane, FiniteSetTheorems, SequenceTheorems, TLAPS

-----------------------------------------------------------------------------
(* The records of the jobs, the synchronisation and the two queues.        *)

Transactions == [open : {TRUE}, touched : BOOLEAN, rollback : Confs]

Numbered == [pc : {"deploy", "await", "confirm", "commit", "publish", "undo", "undone"},
             plane : {"topology", "refresh", "recovery"}, conf : Confs, urev : Nat, id : Nat]

Compiling == [pc : {"compile"}, inFlight : Confs \cup {NoConf}, pending : Confs \cup {NoConf}, epoch : Nat]

Sending == [pc : {"send", "await", "reported"}, urev : Nat, epoch : Nat, seen : SUBSET Members, here : BOOLEAN,
            answer : {"none", "applied", "refused", "mismatch"}, variants : Seq(Confs)]

Commands == [kind : {"deploy"}, id : Nat, conf : Confs]
                \cup [kind : {"authority"}, id : Nat, urev : Nat, variants : Seq(Confs)]

Answers == [kind : {"deploy"}, id : Nat, answer : {"applied", "failed"}]
               \cup [kind : {"authority"}, id : Nat, answer : {"applied", "refused", "mismatch"}]

-----------------------------------------------------------------------------
(* The inductive invariant.                                                *)

StoreType ==
    /\ roster \in [on : SUBSET Members, urev : Nat, desired : Graphs, applied : Graphs, place : Places \cup {Unknown}]
    /\ entitled \subseteq Members

JobType ==
    /\ journaled \in {NoJournal} \cup Transactions
    /\ flight \in Confs \cup {NoConf}
    /\ settled \in [conf : Confs \cup {NoConf}, epoch : Nat]
    /\ rollout \in {NoRollout} \cup Numbered
    /\ dispatch \in [id : Nat, status : {"applied", "deploying", "failed"}, conf : Confs, last : Confs]
    /\ rollout.pc = "undo" => journaled.open
    /\ rollout.pc \in {"deploy", "await", "confirm"} /\ rollout.plane = "topology" => journaled.open

SessionType ==
    /\ sync \in {NoSync} \cup Compiling \cup Sending
    /\ wants \in [sync : BOOLEAN, refresh : BOOLEAN]
    /\ linked \in BOOLEAN
    /\ downlink \in Seq(Commands) /\ uplink \in Seq(Answers)
    /\ proxy \in [active : Confs, running : BOOLEAN, urev : Nat, variants : Seq(Confs)]

(* What a set of variants, and what the Agent, can make it serve.          *)
Within(V, S) == \A i \in DOMAIN V : V[i].members \subseteq S

(* The report of an authority would find its waiter.                       *)
Awaited == sync.pc = "await" /\ sync.here

Served(S) == proxy.active.members \subseteq S /\ Within(proxy.variants, S)

(* The Agent serves no one else than who is entitled.                      *)
StoreInv ==
    /\ roster.on \subseteq entitled
    /\ Served(entitled)
    /\ proxy.urev <= roster.urev

(* What was enabled since the synchronisation was compiled.                *)
SyncInv ==
    sync.pc \in {"send", "await", "reported"} =>
       /\ roster.on \subseteq sync.seen /\ sync.seen \subseteq entitled
       /\ proxy.urev <= sync.urev /\ sync.urev <= roster.urev
       /\ sync.pc = "send" => sync.here /\ Within(sync.variants, sync.seen)
       /\ sync.pc = "reported" /\ sync.answer = "applied" => Served(sync.seen)

(* One authority is on its way, or its report.                             *)
QueueInv ==
    /\ \A i \in DOMAIN downlink : downlink[i].kind = "authority" =>
          Awaited /\ downlink[i].urev = sync.urev /\ Within(downlink[i].variants, sync.seen)
    /\ \A i, j \in DOMAIN downlink : downlink[i].kind = "authority" /\ downlink[j].kind = "authority" => i = j
    /\ \A i \in DOMAIN uplink : uplink[i].kind = "authority" =>
          /\ Awaited
          /\ \A j \in DOMAIN downlink : downlink[j].kind # "authority"
          /\ uplink[i].answer = "applied" => Served(sync.seen)
    /\ \A i, j \in DOMAIN uplink : uplink[i].kind = "authority" /\ uplink[j].kind = "authority" => i = j

PlaneInv == StoreType /\ JobType /\ SessionType /\ StoreInv /\ SyncInv /\ QueueInv

-----------------------------------------------------------------------------
(* Configurations and variants.                                            *)

LEMMA NotAConf == \A c \in Confs : c # NoConf
BY PlaneAssumption

LEMMA OpenIsFull ==
    ASSUME JobType, journaled.open
    PROVE  journaled \in Transactions /\ journaled.rollback \in Confs
<1>1. CASE journaled = [open |-> FALSE]
  BY <1>1, Zenon
<1>2. CASE journaled \in Transactions
  BY <1>2 DEF Transactions
<1> QED BY <1>1, <1>2 DEF JobType, NoJournal

LEMMA ConfirmedIsConf ==
    ASSUME JobType
    PROVE  Confirmed(dispatch) \in Confs
BY DEF JobType, Confirmed

LEMMA CompiledIsConf ==
    ASSUME StoreType, JobType, NEW g \in Graphs
    PROVE  CompileFor(g) \in Confs /\ CompileFor(g).members = roster.on
<1>1. Confirmed(dispatch) \in Confs
  BY ConfirmedIsConf
<1>2. journaled.open => journaled.rollback \in Confs
  BY OpenIsFull
<1>3. retainedAddress(g) \in Places \cup {Unknown}
  BY <1>1, <1>2 DEF retainedAddress, Confs
<1>4. Resolve(g) \in Places \cup {Unknown}
  BY <1>3 DEF Resolve, StoreType
<1>5. roster.on \subseteq Members
  BY DEF StoreType
<1>6. Shape(g, Resolve(g)) \in [graph : Graphs, place : Places \cup {Unknown}]
  BY <1>4 DEF Shape
<1> QED BY <1>5, <1>6 DEF CompileFor, Conf, Confs

LEMMA ReplayedIsConf ==
    ASSUME StoreType, JobType
    PROVE  ReplayedConf \in Confs
<1>1. roster.applied \in Graphs
  BY DEF StoreType
<1> QED BY <1>1, CompiledIsConf, ConfirmedIsConf DEF ReplayedConf

LEMMA AppendedWithin ==
    ASSUME NEW V \in Seq(Confs), NEW S, Within(V, S), NEW c \in Confs, c.members \subseteq S
    PROVE  addAuthorityVariant(V, c) \in Seq(Confs) /\ Within(addAuthorityVariant(V, c), S)
<1>1. Append(V, c) \in Seq(Confs) /\ Within(Append(V, c), S)
  BY DEF Within
<1> QED BY <1>1 DEF addAuthorityVariant

(* Every variant that is compiled describes users that are enabled.        *)
LEMMA VariantsWithin ==
    ASSUME StoreType, JobType, NEW inFlight \in Confs \cup {NoConf}, NEW pending \in Confs \cup {NoConf}
    PROVE  /\ compileUserAuthorities(inFlight, pending) \in Seq(Confs)
           /\ Within(compileUserAuthorities(inFlight, pending), roster.on)
<1> DEFINE applied == <<CompileFor(roster.applied)>>
           second == IF Compiles(roster.desired) THEN CompileFor(roster.desired)
                     ELSE refreshAuthorityVariantUsers(inFlight)
           reserved == IF inFlight = NoConf THEN applied ELSE addAuthorityVariant(applied, second)
<1>1. /\ CompileFor(roster.applied) \in Confs /\ CompileFor(roster.applied).members = roster.on
      /\ CompileFor(roster.desired) \in Confs /\ CompileFor(roster.desired).members = roster.on
  <2>1. roster.applied \in Graphs /\ roster.desired \in Graphs
    BY DEF StoreType
  <2> QED BY <2>1, CompiledIsConf
<1>2. applied \in Seq(Confs) /\ Within(applied, roster.on)
  BY <1>1 DEF Within
<1>3. \A c \in Confs : /\ refreshAuthorityVariantUsers(c) \in Confs
                       /\ refreshAuthorityVariantUsers(c).members \subseteq roster.on
  BY DEF refreshAuthorityVariantUsers, Confs
<1>4. inFlight # NoConf => second \in Confs /\ second.members \subseteq roster.on
  BY <1>1, <1>3
<1> HIDE DEF applied, second
<1>5. reserved \in Seq(Confs) /\ Within(reserved, roster.on)
  BY <1>2, <1>4, AppendedWithin
<1> HIDE DEF reserved
<1>6. compileUserAuthorities(inFlight, pending) =
        IF pending = NoConf THEN reserved ELSE addAuthorityVariant(reserved, refreshAuthorityVariantUsers(pending))
  BY Zenon DEF compileUserAuthorities, reserved, applied, second
<1> QED BY <1>3, <1>5, <1>6, AppendedWithin

LEMMA ChosenWithin ==
    ASSUME NEW V \in Seq(Confs), NEW S, Within(V, S), NEW s, Describes(V, s)
    PROVE  VariantOf(V, s) \in Confs /\ VariantOf(V, s).members \subseteq S
<1>1. PICK i \in DOMAIN V : V[i].shape = s
  BY DEF Describes
<1>2. VariantOf(V, s) \in {V[j] : j \in DOMAIN V}
  BY <1>1 DEF VariantOf
<1>3. PICK j \in DOMAIN V : VariantOf(V, s) = V[j]
  BY <1>2
<1>4. V[j] \in Confs
  OBVIOUS
<1> QED BY <1>3, <1>4 DEF Within

(* What the membership filter leaves of a configuration.                   *)
LEMMA FilteredWithin ==
    ASSUME SessionType, NEW c \in Confs
    PROVE  Filtered(c) \in Confs /\ \A S : Served(S) => Filtered(c).members \subseteq S
<1>1. proxy.variants \in Seq(Confs) /\ proxy.active \in Confs
  BY DEF SessionType
<1>2. CASE Describes(proxy.variants, c.shape)
  <2>1. Filtered(c) = VariantOf(proxy.variants, c.shape)
    BY <1>2 DEF Filtered
  <2>2. Within(proxy.variants, Members)
    <3>1. \A i \in DOMAIN proxy.variants : proxy.variants[i] \in Confs
      BY <1>1
    <3> QED BY <3>1 DEF Within, Confs
  <2>3. Filtered(c) \in Confs
    BY <1>1, <1>2, <2>1, <2>2, ChosenWithin
  <2>4. ASSUME NEW S, Served(S) PROVE Filtered(c).members \subseteq S
    BY <1>1, <1>2, <2>1, <2>4, ChosenWithin DEF Served
  <2> QED BY <2>3, <2>4
<1>3. CASE ~Describes(proxy.variants, c.shape)
  <2>1. Filtered(c) = [c EXCEPT !.members = @ \cap proxy.active.members]
    BY <1>1, <1>3, NotAConf DEF Filtered
  <2> QED BY <2>1, <1>1 DEF Confs, Served
<1> QED BY <1>2, <1>3

-----------------------------------------------------------------------------
(* Deployment numbers and queues.                                          *)

LEMMA NumbersFinite ==
    ASSUME NEW D, NEW q \in Seq(D), \A d \in D : d.id \in Nat
    PROVE  IsFiniteSet({q[i].id : i \in DOMAIN q}) /\ {q[i].id : i \in DOMAIN q} \subseteq Nat
<1> DEFINE f == [i \in DOMAIN q |-> q[i].id]
           T == {q[i].id : i \in DOMAIN q}
<1>1. DOMAIN q = 1 .. Len(q) /\ Len(q) \in Nat
  OBVIOUS
<1>2. IsFiniteSet(DOMAIN q)
  BY <1>1, FS_Interval
<1>3. f \in Surjection(DOMAIN q, T)
  BY DEF Surjection
<1>4. IsFiniteSet(T)
  BY <1>2, <1>3, FS_Surjection
<1> QED BY <1>4

LEMMA NewNumberType ==
    ASSUME JobType, SessionType
    PROVE  NewNumber \in Nat
<1> DEFINE sent == {downlink[i].id : i \in DOMAIN downlink}
           told == {uplink[i].id : i \in DOMAIN uplink}
           awaited == IF rollout.pc \in {"await", "undone"} THEN {rollout.id} ELSE {}
<1>1. IsFiniteSet(sent)
  <2>1. downlink \in Seq(Commands) /\ \A d \in Commands : d.id \in Nat
    BY DEF SessionType, Commands
  <2> QED BY <2>1, NumbersFinite
<1>2. IsFiniteSet(told)
  <2>1. uplink \in Seq(Answers) /\ \A d \in Answers : d.id \in Nat
    BY DEF SessionType, Answers
  <2> QED BY <2>1, NumbersFinite
<1>3. IsFiniteSet(awaited) /\ IsFiniteSet({dispatch.id})
  BY FS_EmptySet, FS_Singleton
<1> HIDE DEF sent, told, awaited
<1>4. IsFiniteSet(({dispatch.id} \cup sent) \cup told)
  BY <1>1, <1>2, <1>3, FS_Union
<1>5. IsFiniteSet((({dispatch.id} \cup sent) \cup told) \cup awaited)
  BY <1>3, <1>4, FS_Union
<1>6. IsFiniteSet(UsedNumbers)
  BY <1>5 DEF UsedNumbers, sent, told, awaited
<1> DEFINE n == Cardinality(UsedNumbers)
<1>7. n \in Nat
  BY <1>6, FS_CardinalityType
<1>8. ~(1 .. (n + 1) \subseteq UsedNumbers)
  <2>1. Cardinality(1 .. (n + 1)) = n + 1
    BY <1>7, FS_Interval
  <2>2. ASSUME 1 .. (n + 1) \subseteq UsedNumbers PROVE n + 1 <= n
    BY <2>1, <2>2, <1>6, FS_Subset
  <2> QED BY <2>2, <1>7
<1>9. NewNumber \in 1 .. (n + 1)
  BY <1>8 DEF NewNumber
<1> QED BY <1>7, <1>9

LEMMA Appended ==
    ASSUME NEW D, NEW q \in Seq(D), NEW d \in D
    PROVE  /\ Append(q, d) \in Seq(D)
           /\ \A i \in DOMAIN Append(q, d) :
                 (i \in DOMAIN q /\ Append(q, d)[i] = q[i]) \/ (i = Len(q) + 1 /\ Append(q, d)[i] = d)
           /\ Len(q) \in Nat /\ DOMAIN q = 1 .. Len(q)
<1>1. /\ Append(q, d) \in Seq(D) /\ Len(Append(q, d)) = Len(q) + 1
      /\ \A i \in 1 .. Len(q) : Append(q, d)[i] = q[i]
      /\ Append(q, d)[Len(q) + 1] = d
  BY AppendProperties
<1>2. Len(q) \in Nat /\ DOMAIN q = 1 .. Len(q) /\ DOMAIN Append(q, d) = 1 .. (Len(q) + 1)
  BY <1>1, LenProperties
<1>3. \A n \in Nat : \A i \in 1 .. (n + 1) : i \in 1 .. n \/ i = n + 1
  OBVIOUS
<1>4. \A i \in DOMAIN Append(q, d) : i \in DOMAIN q \/ i = Len(q) + 1
  BY <1>2, <1>3, Zenon
<1> QED BY <1>1, <1>2, <1>4

LEMMA Consumed ==
    ASSUME NEW D, NEW q \in Seq(D), q # <<>>
    PROVE  /\ Head(q) \in D /\ Tail(q) \in Seq(D)
           /\ 1 \in DOMAIN q /\ Head(q) = q[1]
           /\ \A i \in DOMAIN Tail(q) : i \in Nat /\ i # 0 /\ i + 1 \in DOMAIN q /\ Tail(q)[i] = q[i + 1]
<1>1. Head(q) \in D /\ Tail(q) \in Seq(D) /\ 1 \in DOMAIN q /\ Head(q) = q[1]
  OBVIOUS
<1>2. Len(q) \in Nat \ {0} /\ DOMAIN q = 1 .. Len(q) /\ Len(Tail(q)) = Len(q) - 1
  OBVIOUS
<1>3. DOMAIN Tail(q) = 1 .. (Len(q) - 1)
  BY <1>1, <1>2
<1>4. \A i \in 1 .. (Len(q) - 1) : Tail(q)[i] = q[i + 1]
  BY <1>2
<1> QED BY <1>1, <1>2, <1>3, <1>4

-----------------------------------------------------------------------------
(* Frames.                                                                 *)

LEMMA QueuedStep ==
    ASSUME JobType, SessionType, NEW c \in Confs, QueueConf(c)
    PROVE  /\ dispatch' \in [id : Nat, status : {"applied", "deploying", "failed"}, conf : Confs, last : Confs]
           /\ \E n \in Nat : downlink' = Append(downlink, DeployCommand(n, c))
<1>1. NewNumber \in Nat /\ Confirmed(dispatch) \in Confs
  BY NewNumberType, ConfirmedIsConf
<1> QED BY <1>1 DEF QueueConf

(* A command to deploy joins the queue.                                    *)
LEMMA DeployQueued ==
    ASSUME SessionType, QueueInv, NEW c \in Confs, NEW n \in Nat,
           downlink' = Append(downlink, DeployCommand(n, c)), UNCHANGED <<sync, uplink, proxy>>
    PROVE  downlink' \in Seq(Commands) /\ QueueInv'
<1> DEFINE d == DeployCommand(n, c)
<1>1. d \in Commands /\ d.kind = "deploy"
  BY DEF DeployCommand, Commands
<1> HIDE DEF d
<1>2. /\ downlink' \in Seq(Commands)
      /\ \A i \in DOMAIN downlink' : (i \in DOMAIN downlink /\ downlink'[i] = downlink[i]) \/ downlink'[i] = d
  <2>1. downlink' = Append(downlink, d) /\ downlink \in Seq(Commands)
    BY DEF SessionType, d
  <2> QED BY <1>1, <2>1, Appended
<1>3. \A i \in DOMAIN downlink' : downlink'[i].kind = "authority" => i \in DOMAIN downlink /\ downlink'[i] = downlink[i]
  BY <1>1, <1>2
<1>4. \A i \in DOMAIN downlink' : downlink'[i].kind = "authority" =>
          Awaited' /\ downlink'[i].urev = sync'.urev /\ Within(downlink'[i].variants, sync'.seen)
  BY <1>3 DEF QueueInv, Awaited
<1>5. \A i, j \in DOMAIN downlink' : downlink'[i].kind = "authority" /\ downlink'[j].kind = "authority" => i = j
  BY <1>3 DEF QueueInv
<1>6. \A i \in DOMAIN uplink' : uplink'[i].kind = "authority" =>
          /\ Awaited'
          /\ \A j \in DOMAIN downlink' : downlink'[j].kind # "authority"
          /\ uplink'[i].answer = "applied" => Served(sync.seen)'
  BY <1>3 DEF QueueInv, Awaited, Served
<1>7. \A i, j \in DOMAIN uplink' : uplink'[i].kind = "authority" /\ uplink'[j].kind = "authority" => i = j
  BY DEF QueueInv
<1> QED BY <1>2, <1>4, <1>5, <1>6, <1>7 DEF QueueInv

(* A step of a job sends configurations at most.                           *)
LEMMA JobStep ==
    ASSUME PlaneInv, JobType', UNCHANGED <<roster, sync, linked, uplink, proxy, entitled>>,
           wants' \in [sync : BOOLEAN, refresh : BOOLEAN],
           \/ downlink' = downlink
           \/ \E c \in Confs, n \in Nat : downlink' = Append(downlink, DeployCommand(n, c))
    PROVE  PlaneInv'
<1>i. StoreType /\ SessionType /\ StoreInv /\ SyncInv /\ QueueInv
  BY DEF PlaneInv
<1>1. downlink' \in Seq(Commands) /\ QueueInv'
  <2>1. CASE downlink' = downlink
    BY <2>1, <1>i DEF SessionType, QueueInv, Awaited, Served
  <2>2. ASSUME NEW c \in Confs, NEW n \in Nat, downlink' = Append(downlink, DeployCommand(n, c))
        PROVE  downlink' \in Seq(Commands) /\ QueueInv'
    BY <2>2, <1>i, DeployQueued
  <2> QED BY <2>1, <2>2
<1>2. StoreType' /\ StoreInv' /\ SyncInv'
  BY <1>i DEF StoreType, StoreInv, SyncInv, Served
<1>3. SessionType'
  BY <1>i, <1>1 DEF SessionType
<1> QED BY <1>1, <1>2, <1>3 DEF PlaneInv

-----------------------------------------------------------------------------
(* Jobs.                                                                   *)

LEMMA WantsMore ==
    ASSUME SessionType, NEW b \in BOOLEAN
    PROVE  /\ [wants EXCEPT !.sync = b] \in [sync : BOOLEAN, refresh : BOOLEAN]
           /\ [wants EXCEPT !.refresh = b] \in [sync : BOOLEAN, refresh : BOOLEAN]
           /\ wants \in [sync : BOOLEAN, refresh : BOOLEAN]
BY DEF SessionType

LEMMA Ended ==
    ASSUME JobType, SessionType, NEW again, JobEnds(again)
    PROVE  /\ rollout' = NoRollout /\ flight' \in Confs \cup {NoConf}
           /\ wants' \in [sync : BOOLEAN, refresh : BOOLEAN]
<1>1. flight' \in {flight, NoConf} /\ wants' \in {wants, [wants EXCEPT !.refresh = TRUE]} /\ rollout' = NoRollout
  BY DEF JobEnds
<1> QED BY <1>1, WantsMore DEF JobType

LEMMA Failed ==
    ASSUME JobType, SessionType, JobFails, rollout.pc \in {"deploy", "await", "confirm"}
    PROVE  /\ rollout' \in {NoRollout} \cup Numbered
           /\ rollout'.pc \in {"idle", "undo"}
           /\ rollout'.pc = "undo" => journaled.open
           /\ flight' \in Confs \cup {NoConf}
           /\ wants' \in [sync : BOOLEAN, refresh : BOOLEAN]
<1>1. CASE rollout.plane = "topology"
  <2>1. rollout' = [rollout EXCEPT !.pc = "undo"] /\ UNCHANGED <<flight, wants>>
    BY <1>1, Zenon DEF JobFails
  <2>2. rollout \in Numbered /\ journaled.open
    BY <1>1 DEF JobType, NoRollout
  <2>3. rollout' \in Numbered /\ rollout'.pc = "undo"
    BY <2>1, <2>2 DEF Numbered
  <2> QED BY <2>1, <2>2, <2>3, WantsMore DEF JobType
<1>2. CASE rollout.plane # "topology"
  <2>1. JobEnds(rollout.plane = "refresh")
    BY <1>2, Zenon DEF JobFails
  <2> QED BY <2>1, Ended DEF NoRollout
<1> QED BY <1>1, <1>2

LEMMA StartGraphStep ==
    ASSUME PlaneInv, StartGraph
    PROVE  PlaneInv'
<1> DEFINE cand == CompileFor(roster.desired)
           changed == Confirmed(dispatch) = NoConf \/ Confirmed(dispatch).shape # cand.shape
<1>i. StoreType /\ JobType /\ SessionType
  BY DEF PlaneInv
<1>1. /\ journaled' = IF changed THEN [open |-> TRUE, touched |-> FALSE, rollback |-> Confirmed(dispatch)]
                      ELSE NoJournal
      /\ rollout' = [PlaneJob("topology", cand, roster.urev) EXCEPT !.pc = IF changed THEN "deploy" ELSE "commit"]
      /\ flight' = cand
      /\ UNCHANGED <<roster, settled, sync, wants, dispatch, sessionPlane, proxy, entitled, reserve>>
  BY Zenon DEF StartGraph
<1>2. cand \in Confs /\ Confirmed(dispatch) \in Confs /\ roster.urev \in Nat
  BY <1>i, CompiledIsConf, ConfirmedIsConf DEF StoreType
<1> HIDE DEF cand, changed
<1>3. journaled' \in {NoJournal} \cup Transactions /\ (changed => journaled'.open)
  BY <1>1, <1>2 DEF Transactions
<1>4. /\ rollout' \in Numbered /\ rollout'.pc \in {"deploy", "commit"}
      /\ rollout'.pc = "deploy" => changed
  BY <1>1, <1>2 DEF PlaneJob, Numbered
<1>5. JobType'
  BY <1>i, <1>1, <1>2, <1>3, <1>4 DEF JobType
<1> QED BY <1>i, <1>1, <1>5, JobStep, WantsMore DEF sessionPlane

LEMMA StartRefreshStep ==
    ASSUME PlaneInv, StartRefresh
    PROVE  PlaneInv'
<1> DEFINE cand == CompileFor(roster.applied)
           changed == dispatch.status # "applied" \/ dispatch.conf # cand
<1>i. StoreType /\ JobType /\ SessionType
  BY DEF PlaneInv
<1>1. /\ rollout' = IF changed THEN PlaneJob("refresh", cand, roster.urev) ELSE NoRollout
      /\ wants' = [wants EXCEPT !.refresh = FALSE]
      /\ UNCHANGED <<roster, journaled, flight, settled, sync, dispatch, sessionPlane, proxy, entitled, reserve>>
  BY Zenon DEF StartRefresh
<1>2. cand \in Confs /\ roster.urev \in Nat
  BY <1>i, CompiledIsConf DEF StoreType
<1> HIDE DEF cand, changed
<1>3. /\ rollout' \in {NoRollout} \cup Numbered /\ rollout'.pc \in {"idle", "deploy"}
      /\ rollout'.pc = "deploy" => rollout'.plane = "refresh"
  BY <1>1, <1>2 DEF PlaneJob, NoRollout, Numbered
<1>4. JobType'
  BY <1>i, <1>1, <1>3 DEF JobType
<1> QED BY <1>i, <1>1, <1>4, JobStep, WantsMore DEF sessionPlane

LEMMA StartUndoStep ==
    ASSUME PlaneInv, StartUndo
    PROVE  PlaneInv'
<1>i. StoreType /\ JobType /\ SessionType
  BY DEF PlaneInv
<1>1. /\ journaled.open /\ rollout.pc = "idle"
      /\ UNCHANGED <<roster, flight, settled, sync, wants, dispatch, sessionPlane, proxy, entitled, reserve>>
  BY DEF StartUndo
<1>2. journaled.rollback \in Confs /\ roster.urev \in Nat
  BY <1>i, <1>1, OpenIsFull DEF StoreType
<1>3. JobType'
  <2>1. CASE journaled.touched
    <3>1. /\ rollout' = [PlaneJob("recovery", journaled.rollback, roster.urev) EXCEPT !.pc = "undo"]
          /\ UNCHANGED journaled
      BY <2>1, Zenon DEF StartUndo
    <3>2. rollout' \in Numbered /\ rollout'.pc = "undo"
      BY <3>1, <1>2 DEF PlaneJob, Numbered
    <3> QED BY <3>1, <3>2, <1>i, <1>1 DEF JobType
  <2>2. CASE ~journaled.touched
    <3>1. journaled' = NoJournal /\ UNCHANGED rollout
      BY <2>2, Zenon DEF StartUndo
    <3> QED BY <3>1, <1>i, <1>1 DEF JobType
  <2> QED BY <2>1, <2>2
<1> QED BY <1>i, <1>1, <1>3, JobStep, WantsMore DEF sessionPlane

LEMMA DeploysStep ==
    ASSUME PlaneInv, RolloutDeploys
    PROVE  PlaneInv'
<1>i. StoreType /\ JobType /\ SessionType
  BY DEF PlaneInv
<1>1. /\ rollout.pc = "deploy"
      /\ journaled' = IF rollout.plane = "topology" THEN [journaled EXCEPT !.touched = TRUE] ELSE journaled
      /\ UNCHANGED <<roster, settled, sync, linked, uplink, proxy, entitled, reserve>>
  BY DEF RolloutDeploys
<1>2. rollout \in Numbered
  BY <1>i, <1>1 DEF JobType, NoRollout
<1>3. journaled' \in {NoJournal} \cup Transactions /\ (journaled.open => journaled'.open)
  <2>1. CASE rollout.plane = "topology"
    <3>1. journaled \in Transactions
      BY <2>1, <1>i, <1>1, OpenIsFull DEF JobType
    <3> QED BY <2>1, <3>1, <1>1 DEF Transactions
  <2>2. CASE rollout.plane # "topology"
    BY <2>2, <1>i, <1>1 DEF JobType
  <2> QED BY <2>1, <2>2
<1>4. CASE CanDispatch /\ QueueConf(rollout.conf) /\ rollout' = [rollout EXCEPT !.pc = "await", !.id = NewNumber]
           /\ UNCHANGED <<flight, wants>>
  <2>1. rollout.conf \in Confs /\ NewNumber \in Nat
    BY <1>i, <1>2, NewNumberType DEF Numbered
  <2>2. rollout' \in Numbered /\ rollout'.pc = "await" /\ rollout'.plane = rollout.plane
    BY <1>2, <1>4, <2>1 DEF Numbered
  <2>3. /\ dispatch' \in [id : Nat, status : {"applied", "deploying", "failed"}, conf : Confs, last : Confs]
        /\ \E n \in Nat : downlink' = Append(downlink, DeployCommand(n, rollout.conf))
    BY <1>i, <1>4, <2>1, QueuedStep
  <2>4. JobType'
    BY <1>i, <1>1, <1>3, <1>4, <2>2, <2>3 DEF JobType
  <2> QED BY <1>i, <1>1, <1>4, <2>1, <2>3, <2>4, JobStep, WantsMore
<1>5. CASE JobFails /\ UNCHANGED <<dispatch, downlink>>
  <2>1. /\ rollout' \in {NoRollout} \cup Numbered
        /\ rollout'.pc \in {"idle", "undo"}
        /\ rollout'.pc = "undo" => journaled.open
        /\ flight' \in Confs \cup {NoConf}
        /\ wants' \in [sync : BOOLEAN, refresh : BOOLEAN]
    BY <1>i, <1>1, <1>5, Failed
  <2>2. JobType'
    BY <1>i, <1>1, <1>3, <1>5, <2>1 DEF JobType
  <2> QED BY <1>1, <1>5, <2>1, <2>2, JobStep
<1> QED BY <1>4, <1>5, Zenon DEF RolloutDeploys

LEMMA AnsweredStep ==
    ASSUME PlaneInv, RolloutAnswered \/ RolloutConfirms
    PROVE  PlaneInv'
<1>i. StoreType /\ JobType /\ SessionType
  BY DEF PlaneInv
<1>1. /\ rollout.pc \in {"await", "confirm"}
      /\ UNCHANGED <<roster, journaled, settled, sync, dispatch, sessionPlane, proxy, entitled, reserve>>
  BY DEF RolloutAnswered, RolloutConfirms
<1>2. rollout \in Numbered
  BY <1>i, <1>1 DEF JobType, NoRollout
<1>3. ASSUME NEW to \in {"confirm", "commit"}, rollout' = [rollout EXCEPT !.pc = to], UNCHANGED <<flight, wants>>
      PROVE  PlaneInv'
  <2>1. rollout' \in Numbered /\ rollout'.pc = to /\ rollout'.plane = rollout.plane
    BY <1>2, <1>3 DEF Numbered
  <2>2. JobType'
    BY <1>i, <1>1, <1>3, <2>1 DEF JobType
  <2> QED BY <1>i, <1>1, <1>3, <2>2, JobStep, WantsMore DEF sessionPlane
<1>4. ASSUME JobFails \/ JobEnds(rollout.urev # roster.urev)
      PROVE  PlaneInv'
  <2>1. /\ rollout' \in {NoRollout} \cup Numbered
        /\ rollout'.pc \in {"idle", "undo"}
        /\ rollout'.pc = "undo" => journaled.open
        /\ flight' \in Confs \cup {NoConf}
        /\ wants' \in [sync : BOOLEAN, refresh : BOOLEAN]
    BY <1>i, <1>1, <1>4, Failed, Ended DEF NoRollout
  <2>2. JobType'
    BY <1>i, <1>1, <2>1 DEF JobType
  <2> QED BY <1>1, <2>1, <2>2, JobStep DEF sessionPlane
<1> QED BY <1>3, <1>4, Zenon DEF RolloutAnswered, RolloutConfirms

LEMMA UndoesStep ==
    ASSUME PlaneInv, RolloutUndoes
    PROVE  PlaneInv'
<1>i. StoreType /\ JobType /\ SessionType
  BY DEF PlaneInv
<1>1. /\ rollout.pc = "undo"
      /\ UNCHANGED <<roster, settled, sync, linked, uplink, proxy, entitled, reserve>>
  BY DEF RolloutUndoes
<1>2. rollout \in Numbered /\ journaled \in Transactions /\ journaled.rollback \in Confs
  BY <1>i, <1>1, OpenIsFull DEF JobType, NoRollout
<1>3. ASSUME JobEnds(FALSE), journaled' \in {journaled, NoJournal}, UNCHANGED <<dispatch, downlink>>
      PROVE  PlaneInv'
  <2>1. /\ rollout' = NoRollout /\ flight' \in Confs \cup {NoConf}
        /\ wants' \in [sync : BOOLEAN, refresh : BOOLEAN]
    BY <1>i, <1>3, Ended
  <2>2. JobType'
    BY <1>i, <1>1, <1>3, <2>1 DEF JobType, NoRollout
  <2> QED BY <1>1, <1>3, <2>1, <2>2, JobStep
<1>4. ASSUME QueueConf(journaled.rollback), rollout' = [rollout EXCEPT !.pc = "undone", !.id = NewNumber],
             UNCHANGED <<journaled, flight, wants>>
      PROVE  PlaneInv'
  <2>1. NewNumber \in Nat
    BY <1>i, NewNumberType
  <2>2. rollout' \in Numbered /\ rollout'.pc = "undone"
    BY <1>2, <1>4, <2>1 DEF Numbered
  <2>3. /\ dispatch' \in [id : Nat, status : {"applied", "deploying", "failed"}, conf : Confs, last : Confs]
        /\ \E n \in Nat : downlink' = Append(downlink, DeployCommand(n, journaled.rollback))
    BY <1>i, <1>2, <1>4, QueuedStep
  <2>4. JobType'
    BY <1>i, <1>1, <1>4, <2>2, <2>3 DEF JobType
  <2> QED BY <1>i, <1>1, <1>2, <1>4, <2>3, <2>4, JobStep, WantsMore
<1> QED BY <1>3, <1>4, Zenon DEF RolloutUndoes

LEMMA UndoneStep ==
    ASSUME PlaneInv, RolloutUndone
    PROVE  PlaneInv'
<1>i. StoreType /\ JobType /\ SessionType
  BY DEF PlaneInv
<1>1. /\ journaled' \in {journaled, NoJournal} /\ JobEnds(FALSE)
      /\ UNCHANGED <<roster, settled, sync, dispatch, sessionPlane, proxy, entitled, reserve>>
  BY DEF RolloutUndone
<1>2. /\ rollout' = NoRollout /\ flight' \in Confs \cup {NoConf}
      /\ wants' \in [sync : BOOLEAN, refresh : BOOLEAN]
  BY <1>i, <1>1, Ended
<1>3. JobType'
  BY <1>i, <1>1, <1>2 DEF JobType, NoRollout
<1> QED BY <1>1, <1>2, <1>3, JobStep DEF sessionPlane

(* A fresh revision, and nobody who is not enabled.                        *)
LEMMA CommitsStep ==
    ASSUME PlaneInv, RolloutCommits
    PROVE  PlaneInv'
<1>i. StoreType /\ JobType /\ SessionType /\ StoreInv /\ SyncInv /\ QueueInv
  BY DEF PlaneInv
<1>1. /\ rollout.pc = "commit"
      /\ roster' = [roster EXCEPT !.applied = roster.desired, !.urev = @ + 1]
      /\ journaled' = NoJournal
      /\ rollout' = [rollout EXCEPT !.pc = "publish"]
      /\ UNCHANGED <<flight, settled, sync, wants, dispatch, sessionPlane, proxy, entitled, reserve>>
  BY DEF RolloutCommits
<1>2. /\ StoreType' /\ roster'.on = roster.on
      /\ roster.urev \in Nat /\ roster'.urev = roster.urev + 1
  <2>1. roster.urev \in Nat /\ roster.urev + 1 \in Nat /\ roster.desired \in Graphs
    BY <1>i DEF StoreType
  <2> DEFINE n == roster.urev + 1
  <2>2. roster' = [roster EXCEPT !.applied = roster.desired, !.urev = n]
    BY <1>1
  <2>3. n \in Nat /\ n = roster.urev + 1
    BY <2>1
  <2> HIDE DEF n
  <2>4. roster'.on = roster.on /\ roster'.urev = n /\ StoreType'
    BY <1>i, <1>1, <2>1, <2>2, <2>3 DEF StoreType
  <2> QED BY <2>1, <2>3, <2>4
<1>3. JobType'
  <2>1. rollout \in Numbered
    BY <1>i, <1>1 DEF JobType, NoRollout
  <2>2. rollout' \in Numbered /\ rollout'.pc = "publish"
    BY <1>1, <2>1 DEF Numbered
  <2> QED BY <1>i, <1>1, <2>2 DEF JobType
<1>4. SessionType' /\ QueueInv'
  BY <1>i, <1>1 DEF sessionPlane, SessionType, QueueInv, Awaited, Served
<1>5. proxy.urev \in Nat
  BY <1>i DEF SessionType
<1>6. StoreInv'
  BY <1>i, <1>1, <1>2, <1>5 DEF StoreInv, Served
<1>7. SyncInv'
  <2>1. ASSUME sync.pc \in {"send", "await", "reported"} PROVE sync.urev <= roster.urev + 1
    <3>1. sync.urev \in Nat /\ sync.urev <= roster.urev
      BY <2>1, <1>i DEF SessionType, SyncInv, Sending, Compiling, NoSync
    <3> QED BY <3>1, <1>2
  <2> QED BY <2>1, <1>i, <1>1, <1>2 DEF SyncInv, Served
<1> QED BY <1>2, <1>3, <1>4, <1>6, <1>7 DEF PlaneInv

LEMMA PublishesStep ==
    ASSUME PlaneInv, RolloutPublishes
    PROVE  PlaneInv'
<1>i. StoreType /\ JobType /\ SessionType
  BY DEF PlaneInv
<1>1. /\ settled' = [conf |-> flight, epoch |-> settled.epoch + 1]
      /\ flight' = NoConf /\ rollout' = NoRollout
      /\ wants' = [wants EXCEPT !.sync = TRUE]
      /\ UNCHANGED <<roster, journaled, sync, dispatch, sessionPlane, proxy, entitled, reserve>>
  BY DEF RolloutPublishes
<1>2. settled' \in [conf : Confs \cup {NoConf}, epoch : Nat]
  BY <1>i, <1>1 DEF JobType
<1>3. JobType'
  BY <1>i, <1>1, <1>2 DEF JobType, NoRollout
<1> QED BY <1>i, <1>1, <1>3, JobStep, WantsMore DEF sessionPlane

-----------------------------------------------------------------------------
(* The operator and the relay.                                             *)

LEMMA MemberStep ==
    ASSUME PlaneInv, NEW u \in Members, ChangeMember(u)
    PROVE  PlaneInv'
<1>i. StoreType /\ JobType /\ SessionType /\ StoreInv /\ SyncInv /\ QueueInv
  BY DEF PlaneInv
<1>1. /\ roster' = [roster EXCEPT !.on = IF u \in @ THEN @ \ {u} ELSE @ \cup {u}, !.urev = @ + 1]
      /\ wants' = [wants EXCEPT !.sync = TRUE]
      /\ entitled' = entitled \cup {u}
      /\ sync' = IF sync.pc \in {"send", "await", "reported"} THEN [sync EXCEPT !.seen = @ \cup {u}] ELSE sync
      /\ UNCHANGED <<journaled, flight, settled, rollout, dispatch, sessionPlane, proxy>>
  BY Zenon DEF ChangeMember
<1>2. /\ StoreType' /\ roster'.on \subseteq roster.on \cup {u}
      /\ roster.urev \in Nat /\ roster'.urev = roster.urev + 1
  <2> DEFINE n == roster.urev + 1
             O == IF u \in roster.on THEN roster.on \ {u} ELSE roster.on \cup {u}
  <2>1. roster.urev \in Nat /\ roster.on \subseteq Members
    BY <1>i DEF StoreType
  <2>2. O \subseteq Members /\ O \subseteq roster.on \cup {u}
    BY <2>1
  <2>3. roster' = [roster EXCEPT !.on = O, !.urev = n]
    BY <1>1, Zenon
  <2>4. n \in Nat /\ n = roster.urev + 1
    BY <2>1
  <2> HIDE DEF n, O
  <2>5. /\ roster'.on = O /\ roster'.urev = n
        /\ roster' \in [on : SUBSET Members, urev : Nat, desired : Graphs, applied : Graphs,
                        place : Places \cup {Unknown}]
    BY <1>i, <2>2, <2>3, <2>4 DEF StoreType
  <2>6. entitled' \subseteq Members
    BY <1>i, <1>1 DEF StoreType
  <2> QED BY <2>1, <2>2, <2>4, <2>5, <2>6 DEF StoreType
<1>3. JobType'
  BY <1>i, <1>1 DEF JobType
<1>4. /\ sync' \in {NoSync} \cup Compiling \cup Sending
      /\ sync'.pc = sync.pc
      /\ sync.pc \in {"send", "await", "reported"} =>
            /\ sync'.here = sync.here /\ sync'.urev = sync.urev /\ sync'.variants = sync.variants
            /\ sync'.answer = sync.answer /\ sync'.seen = sync.seen \cup {u}
            /\ sync.urev \in Nat
  <2>1. CASE sync.pc \in {"send", "await", "reported"}
    <3>1. sync \in Sending
      BY <2>1, <1>i DEF SessionType, Compiling, NoSync
    <3>2. sync' = [sync EXCEPT !.seen = @ \cup {u}]
      BY <2>1, <1>1, Zenon
    <3> QED BY <3>1, <3>2 DEF Sending
  <2>2. CASE sync.pc \notin {"send", "await", "reported"}
    <3>1. sync' = sync
      BY <2>2, <1>1, Zenon
    <3> QED BY <2>2, <3>1, <1>i DEF SessionType
  <2> QED BY <2>1, <2>2
<1>5. /\ linked' = linked /\ downlink' = downlink /\ uplink' = uplink /\ proxy' = proxy
  BY <1>1 DEF sessionPlane
<1>6. SessionType'
  BY <1>i, <1>1, <1>4, <1>5, WantsMore DEF SessionType
<1>7. proxy.urev \in Nat
  BY <1>i DEF SessionType
<1>8. StoreInv'
  BY <1>i, <1>1, <1>2, <1>5, <1>7 DEF StoreInv, Served, Within
<1>9. SyncInv'
  <2>1. ASSUME sync.pc \in {"send", "await", "reported"} PROVE sync.urev <= roster.urev + 1
    <3>1. sync.urev \in Nat /\ sync.urev <= roster.urev
      BY <2>1, <1>i, <1>4 DEF SyncInv
    <3> QED BY <3>1, <1>2
  <2> QED BY <2>1, <1>i, <1>1, <1>2, <1>4, <1>5 DEF SyncInv, Served, Within
<1>10. QueueInv'
  <2>1. Awaited => Awaited' /\ sync'.urev = sync.urev /\ sync.seen \subseteq sync'.seen
    BY <1>4 DEF Awaited
  <2> QED BY <2>1, <1>i, <1>5 DEF QueueInv, Served, Within
<1> QED BY <1>2, <1>3, <1>6, <1>8, <1>9, <1>10 DEF PlaneInv

LEMMA StoreStep ==
    ASSUME PlaneInv, (\E g \in Graphs : EditGraph(g)) \/ (\E p \in Places \cup {Unknown} : MoveRelay(p))
    PROVE  PlaneInv'
<1>i. StoreType /\ JobType /\ SessionType /\ StoreInv /\ SyncInv /\ QueueInv
  BY DEF PlaneInv
<1>1. /\ \/ \E g \in Graphs : roster' = [roster EXCEPT !.desired = g]
         \/ \E p \in Places \cup {Unknown} : roster' = [roster EXCEPT !.place = p]
      /\ wants' \in {wants, [wants EXCEPT !.refresh = TRUE]}
      /\ UNCHANGED <<journaled, flight, settled, rollout, sync, dispatch, sessionPlane, proxy, entitled>>
  BY DEF EditGraph, MoveRelay, masterPlane
<1>2. StoreType' /\ roster'.on = roster.on /\ roster'.urev = roster.urev
  BY <1>i, <1>1 DEF StoreType
<1>3. JobType'
  BY <1>i, <1>1 DEF JobType
<1>4. SessionType'
  BY <1>i, <1>1, WantsMore DEF SessionType, sessionPlane
<1>5. StoreInv' /\ SyncInv' /\ QueueInv'
  BY <1>i, <1>1, <1>2 DEF StoreInv, SyncInv, QueueInv, Awaited, Served, sessionPlane
<1> QED BY <1>2, <1>3, <1>4, <1>5 DEF PlaneInv

-----------------------------------------------------------------------------
(* The user synchronisation.                                               *)

LEMMA NothingAwaited ==
    ASSUME QueueInv, ~Awaited
    PROVE  /\ \A i \in DOMAIN downlink : downlink[i].kind # "authority"
           /\ \A i \in DOMAIN uplink : uplink[i].kind # "authority"
BY DEF QueueInv

(* The synchronisation is at rest again, or reads its variants.            *)
LEMMA RestedStep ==
    ASSUME PlaneInv, ~Awaited, JobType', StoreType',
           sync' \in {NoSync} \cup Compiling, wants' \in [sync : BOOLEAN, refresh : BOOLEAN],
           UNCHANGED <<roster, linked, uplink, proxy>>,
           roster.on \subseteq entitled', Served(entitled'),
           \/ downlink' = downlink
           \/ \E c \in Confs, n \in Nat : downlink' = Append(downlink, DeployCommand(n, c))
    PROVE  PlaneInv'
<1>i. SessionType /\ StoreInv /\ QueueInv
  BY DEF PlaneInv
<1>1. sync'.pc \in {"idle", "compile"}
  BY DEF NoSync, Compiling
<1>2. /\ downlink' \in Seq(Commands)
      /\ \A i \in DOMAIN downlink' : downlink'[i].kind # "authority"
  <2>1. downlink \in Seq(Commands) /\ \A i \in DOMAIN downlink : downlink[i].kind # "authority"
    BY <1>i, NothingAwaited DEF SessionType
  <2>2. ASSUME NEW c \in Confs, NEW n \in Nat, downlink' = Append(downlink, DeployCommand(n, c))
        PROVE  /\ downlink' \in Seq(Commands)
               /\ \A i \in DOMAIN downlink' : downlink'[i].kind # "authority"
    <3> DEFINE d == DeployCommand(n, c)
    <3>1. d \in Commands /\ d.kind = "deploy" /\ downlink' = Append(downlink, d)
      BY <2>2 DEF DeployCommand, Commands
    <3> HIDE DEF d
    <3> QED BY <2>1, <3>1, Appended
  <2> QED BY <2>1, <2>2
<1>3. QueueInv'
  BY <1>i, <1>2, NothingAwaited DEF QueueInv
<1>4. SyncInv'
  BY <1>1 DEF SyncInv
<1>5. StoreInv'
  BY <1>i DEF StoreInv, Served
<1>6. SessionType'
  BY <1>i, <1>2 DEF SessionType
<1> QED BY <1>3, <1>4, <1>5, <1>6 DEF PlaneInv

LEMMA SyncType ==
    ASSUME SessionType
    PROVE  /\ sync.pc = "idle" => sync = NoSync
           /\ sync.pc = "compile" => sync \in Compiling
           /\ sync.pc \in {"send", "await", "reported"} => sync \in Sending
BY DEF SessionType, NoSync, Compiling, Sending

LEMMA StartSyncStep ==
    ASSUME PlaneInv, StartSync
    PROVE  PlaneInv'
<1>i. StoreType /\ JobType /\ SessionType /\ StoreInv
  BY DEF PlaneInv
<1>1. /\ sync.pc = "idle"
      /\ sync' = [pc |-> "compile", inFlight |-> flight, pending |-> settled.conf, epoch |-> settled.epoch]
      /\ wants' = [wants EXCEPT !.sync = FALSE]
      /\ UNCHANGED <<roster, journaled, flight, settled, rollout, dispatch, sessionPlane, proxy, entitled>>
  BY DEF StartSync
<1>2. sync' \in Compiling
  BY <1>i, <1>1 DEF JobType, Compiling
<1>3. JobType' /\ StoreType'
  BY <1>i, <1>1 DEF JobType, StoreType
<1>4. roster.on \subseteq entitled' /\ Served(entitled')
  BY <1>i, <1>1 DEF StoreInv, Served
<1> QED BY <1>i, <1>1, <1>2, <1>3, <1>4, RestedStep, WantsMore DEF Awaited, sessionPlane

(* The users of the variants are those of the store, of which no authority *)
(* has a later revision.                                                   *)
LEMMA CompileSyncStep ==
    ASSUME PlaneInv, CompileSync
    PROVE  PlaneInv'
<1>i. StoreType /\ JobType /\ SessionType /\ StoreInv /\ QueueInv
  BY DEF PlaneInv
<1>1. /\ sync.pc = "compile"
      /\ UNCHANGED <<roster, journaled, flight, settled, rollout, dispatch, sessionPlane, proxy, entitled>>
  BY DEF CompileSync
<1>2. sync \in Compiling /\ ~Awaited
  BY <1>i, <1>1, SyncType DEF Awaited
<1>3. JobType' /\ StoreType'
  BY <1>i, <1>1 DEF JobType, StoreType
<1>4. CASE Compiles(roster.applied)
  <2> DEFINE V == compileUserAuthorities(sync.inFlight, sync.pending)
  <2>1. /\ sync' = [pc |-> "send", urev |-> roster.urev, epoch |-> sync.epoch, seen |-> roster.on,
                    here |-> TRUE, answer |-> "none", variants |-> V]
        /\ UNCHANGED wants
    BY <1>4, Zenon DEF CompileSync
  <2>2. V \in Seq(Confs) /\ Within(V, roster.on)
    BY <1>i, <1>2, VariantsWithin DEF Compiling
  <2> HIDE DEF V
  <2>3. /\ sync' \in Sending /\ sync'.pc = "send" /\ sync'.seen = roster.on /\ sync'.here
        /\ sync'.urev = roster.urev /\ sync'.variants = V
    BY <1>i, <1>2, <2>1, <2>2 DEF Sending, Compiling, StoreType
  <2>4. SessionType' /\ StoreInv'
    BY <1>i, <1>1, <2>1, <2>3 DEF SessionType, StoreInv, Served, sessionPlane
  <2>5. SyncInv'
    <3>1. roster.urev <= roster.urev
      BY <1>i DEF StoreType
    <3> QED BY <1>i, <1>1, <2>2, <2>3, <3>1 DEF StoreInv, SyncInv, Within
  <2>6. QueueInv'
    BY <1>i, <1>1, <1>2, NothingAwaited DEF QueueInv, sessionPlane
  <2> QED BY <1>3, <2>4, <2>5, <2>6 DEF PlaneInv
<1>5. CASE ~Compiles(roster.applied)
  <2>1. sync' = NoSync /\ wants' = [wants EXCEPT !.sync = TRUE]
    BY <1>5, Zenon DEF CompileSync
  <2>2. roster.on \subseteq entitled' /\ Served(entitled')
    BY <1>i, <1>1 DEF StoreInv, Served
  <2> QED BY <1>i, <1>1, <1>2, <1>3, <2>1, <2>2, RestedStep, WantsMore DEF sessionPlane
<1> QED BY <1>4, <1>5

LEMMA SendStep ==
    ASSUME PlaneInv, SendAuthority
    PROVE  PlaneInv'
<1>i. StoreType /\ JobType /\ SessionType /\ StoreInv /\ SyncInv /\ QueueInv
  BY DEF PlaneInv
<1>1. /\ sync.pc = "send"
      /\ UNCHANGED <<roster, journaled, flight, settled, rollout, dispatch, linked, uplink, proxy, entitled>>
  BY DEF SendAuthority
<1>2. sync \in Sending /\ ~Awaited
  BY <1>i, <1>1, SyncType DEF Awaited
<1>3. JobType' /\ StoreType' /\ StoreInv'
  BY <1>i, <1>1 DEF JobType, StoreType, StoreInv, Served
<1>4. CASE linked
  <2> DEFINE d == [kind |-> "authority", id |-> 0, urev |-> sync.urev, variants |-> sync.variants]
  <2>1. /\ downlink' = Append(downlink, d)
        /\ sync' = [sync EXCEPT !.pc = "await", !.variants = <<>>]
        /\ UNCHANGED wants
    BY <1>4, Zenon DEF SendAuthority
  <2>2. d \in Commands /\ d.urev = sync.urev /\ Within(d.variants, sync.seen)
    <3>1. sync.urev \in Nat /\ sync.variants \in Seq(Confs) /\ Within(sync.variants, sync.seen)
      BY <1>i, <1>1, <1>2 DEF Sending, SyncInv
    <3> QED BY <3>1 DEF Commands
  <2> HIDE DEF d
  <2>3. /\ sync' \in Sending /\ sync'.pc = "await" /\ sync'.urev = sync.urev /\ sync'.seen = sync.seen
        /\ sync'.here = sync.here /\ sync'.answer = sync.answer
    <3>1. <<>> \in Seq(Confs)
      OBVIOUS
    <3> QED BY <1>2, <2>1, <3>1 DEF Sending
  <2>4. /\ downlink' \in Seq(Commands)
        /\ \A i \in DOMAIN downlink' :
              \/ i \in DOMAIN downlink /\ downlink'[i] = downlink[i]
              \/ i = Len(downlink) + 1 /\ downlink'[i] = d
    BY <1>i, <2>1, <2>2, Appended DEF SessionType
  <2>5. \A i \in DOMAIN downlink' : downlink'[i].kind = "authority" => i = Len(downlink) + 1 /\ downlink'[i] = d
    BY <1>i, <1>2, <2>4, NothingAwaited
  <2>6. SessionType'
    BY <1>i, <1>1, <2>1, <2>3, <2>4 DEF SessionType
  <2>7. SyncInv'
    BY <1>i, <1>1, <2>3 DEF SyncInv, Served
  <2>8. sync.here => QueueInv'
    <3>1. \A i \in DOMAIN uplink' : uplink'[i].kind # "authority"
      BY <1>i, <1>1, <1>2, NothingAwaited
    <3> QED BY <2>2, <2>3, <2>5, <3>1 DEF QueueInv, Awaited
  <2> QED BY <1>1, <1>3, <2>6, <2>7, <2>8, <1>i DEF PlaneInv, SyncInv
<1>5. CASE ~linked
  <2>1. sync' = NoSync /\ wants' = [wants EXCEPT !.sync = TRUE] /\ UNCHANGED downlink
    BY <1>5, Zenon DEF SendAuthority, SyncDefers
  <2>2. roster.on \subseteq entitled' /\ Served(entitled')
    BY <1>i, <1>1 DEF StoreInv, Served
  <2> QED BY <1>i, <1>1, <1>2, <1>3, <2>1, <2>2, RestedStep, WantsMore
<1> QED BY <1>4, <1>5

LEMMA TimesOutStep ==
    ASSUME PlaneInv, SyncTimesOut
    PROVE  PlaneInv'
<1>i. StoreType /\ JobType /\ SessionType /\ StoreInv
  BY DEF PlaneInv
<1>1. /\ ~sync.here /\ sync' = NoSync /\ wants' = [wants EXCEPT !.sync = TRUE]
      /\ UNCHANGED <<roster, journaled, flight, settled, rollout, dispatch, sessionPlane, proxy, entitled>>
  BY DEF SyncTimesOut, SyncDefers
<1>2. JobType' /\ StoreType'
  BY <1>i, <1>1 DEF JobType, StoreType
<1>3. roster.on \subseteq entitled' /\ Served(entitled')
  BY <1>i, <1>1 DEF StoreInv, Served
<1> QED BY <1>i, <1>1, <1>2, <1>3, RestedStep, WantsMore DEF Awaited, sessionPlane

(* What the report says is served becomes what the memberships entitle to. *)
LEMMA ConcludesStep ==
    ASSUME PlaneInv, SyncConcludes
    PROVE  PlaneInv'
<1>i. StoreType /\ JobType /\ SessionType /\ StoreInv /\ SyncInv
  BY DEF PlaneInv
<1>1. /\ sync.pc = "reported"
      /\ sync' = NoSync
      /\ wants' \in {wants, [wants EXCEPT !.sync = TRUE]}
      /\ settled' \in {settled, [settled EXCEPT !.conf = NoConf]}
      /\ entitled' = IF sync.answer = "applied" THEN sync.seen ELSE entitled
      /\ UNCHANGED <<roster, journaled, flight, rollout, dispatch, sessionPlane, proxy, reserve>>
  BY DEF SyncConcludes, SyncDefers
<1>2. sync.seen \subseteq Members
  BY <1>i, <1>1, SyncType DEF Sending
<1>3. StoreType'
  BY <1>i, <1>1, <1>2 DEF StoreType
<1>4. JobType'
  <2>1. settled' \in [conf : Confs \cup {NoConf}, epoch : Nat]
    BY <1>i, <1>1 DEF JobType
  <2> QED BY <1>i, <1>1, <2>1 DEF JobType
<1>5. roster.on \subseteq entitled' /\ Served(entitled')
  <2>1. CASE sync.answer = "applied"
    BY <2>1, <1>i, <1>1 DEF SyncInv
  <2>2. CASE sync.answer # "applied"
    BY <2>2, <1>i, <1>1 DEF StoreInv
  <2> QED BY <2>1, <2>2
<1> QED BY <1>i, <1>1, <1>3, <1>4, <1>5, RestedStep, WantsMore DEF Awaited, sessionPlane

LEMMA RepairStep ==
    ASSUME PlaneInv, RepairProfile
    PROVE  PlaneInv'
<1>i. StoreType /\ JobType /\ SessionType /\ StoreInv
  BY DEF PlaneInv
<1>1. /\ sync.pc = "reported"
      /\ sync' = NoSync /\ wants' = [wants EXCEPT !.sync = TRUE]
      /\ UNCHANGED <<roster, journaled, flight, settled, rollout, linked, uplink, proxy, entitled>>
      /\ QueueConf(ReplayedConf) \/ UNCHANGED <<dispatch, downlink>>
  BY DEF RepairProfile, SyncDefers
<1>2. StoreType'
  BY <1>i, <1>1 DEF StoreType
<1>3. roster.on \subseteq entitled' /\ Served(entitled')
  BY <1>i, <1>1 DEF StoreInv, Served
<1>4. ReplayedConf \in Confs
  BY <1>i, ReplayedIsConf
<1>5. /\ dispatch' \in [id : Nat, status : {"applied", "deploying", "failed"}, conf : Confs, last : Confs]
      /\ \/ downlink' = downlink
         \/ \E n \in Nat : downlink' = Append(downlink, DeployCommand(n, ReplayedConf))
  BY <1>i, <1>1, <1>4, QueuedStep DEF JobType
<1>6. JobType'
  BY <1>i, <1>1, <1>5 DEF JobType
<1> QED BY <1>i, <1>1, <1>2, <1>3, <1>4, <1>5, <1>6, RestedStep, WantsMore DEF Awaited

-----------------------------------------------------------------------------
(* Sessions and restarts.                                                  *)

(* What is on its way is lost, and the report of an authority with it.     *)
LEMMA UnlinkedStep ==
    ASSUME PlaneInv, Unlinked, JobType',
           UNCHANGED <<roster, wants, entitled>>,
           proxy' \in [active : Confs, running : BOOLEAN, urev : Nat, variants : Seq(Confs)],
           proxy'.urev = proxy.urev, proxy'.variants = proxy.variants,
           \A S : Served(S) => proxy'.active.members \subseteq S
    PROVE  PlaneInv'
<1>i. StoreType /\ SessionType /\ StoreInv /\ SyncInv
  BY DEF PlaneInv
<1>1. linked' = FALSE /\ downlink' = <<>> /\ uplink' = <<>>
  BY DEF Unlinked
<1>2. StoreType'
  BY <1>i DEF StoreType
<1>3. \A S : Served(S) => proxy'.active.members \subseteq S /\ Within(proxy'.variants, S)
  BY DEF Served
<1>4. StoreInv'
  BY <1>i, <1>3 DEF StoreInv, Served
<1>5. /\ sync' \in {NoSync} \cup Compiling \cup Sending /\ sync'.pc = sync.pc
      /\ sync.pc = "send" => sync' = sync
      /\ sync.pc \in {"await", "reported"} =>
            /\ sync'.urev = sync.urev /\ sync'.seen = sync.seen /\ sync'.answer = sync.answer
  <2>1. CASE sync.pc \in {"await", "reported"}
    <3>1. sync' = [sync EXCEPT !.here = FALSE]
      BY <2>1, Zenon DEF Unlinked, SyncUnlinked
    <3>2. sync \in Sending
      BY <2>1, <1>i, SyncType
    <3> QED BY <2>1, <3>1, <3>2 DEF Sending
  <2>2. CASE sync.pc \notin {"await", "reported"}
    <3>1. sync' = sync
      BY <2>2, Zenon DEF Unlinked, SyncUnlinked
    <3> QED BY <2>2, <3>1, <1>i DEF SessionType
  <2> QED BY <2>1, <2>2
<1>6. SyncInv'
  BY <1>i, <1>3, <1>5 DEF SyncInv, Served
<1>7. <<>> \in Seq(Commands) /\ <<>> \in Seq(Answers) /\ DOMAIN <<>> = {}
  OBVIOUS
<1>8. SessionType'
  BY <1>i, <1>1, <1>5, <1>7 DEF SessionType
<1>9. QueueInv'
  BY <1>1, <1>7 DEF QueueInv
<1> QED BY <1>2, <1>4, <1>6, <1>8, <1>9 DEF PlaneInv

LEMMA DropLinkStep ==
    ASSUME PlaneInv, DropLink
    PROVE  PlaneInv'
<1>i. JobType /\ SessionType
  BY DEF PlaneInv
<1>1. Unlinked /\ UNCHANGED <<roster, journaled, flight, settled, rollout, wants, dispatch, proxy, entitled>>
  BY DEF DropLink
<1>2. JobType'
  BY <1>i, <1>1 DEF JobType
<1> QED BY <1>i, <1>1, <1>2, UnlinkedStep DEF SessionType, Served

LEMMA RestartAgentStep ==
    ASSUME PlaneInv, RestartAgent
    PROVE  PlaneInv'
<1>i. JobType /\ SessionType
  BY DEF PlaneInv
<1> DEFINE chosen == VariantOf(proxy.variants, proxy.active.shape)
           described == proxy.active # NoConf /\ Describes(proxy.variants, proxy.active.shape)
<1>1. /\ Unlinked /\ UNCHANGED <<roster, journaled, flight, settled, rollout, wants, dispatch, entitled>>
      /\ proxy' = IF described THEN [proxy EXCEPT !.active = chosen, !.running = TRUE]
                  ELSE [proxy EXCEPT !.running = FALSE]
  BY Zenon DEF RestartAgent
<1>2. JobType'
  BY <1>i, <1>1 DEF JobType
<1>3. proxy.variants \in Seq(Confs) /\ Within(proxy.variants, Members)
  <2>1. proxy.variants \in Seq(Confs)
    BY <1>i DEF SessionType
  <2>2. \A i \in DOMAIN proxy.variants : proxy.variants[i] \in Confs
    BY <2>1
  <2> QED BY <2>1, <2>2 DEF Within, Confs
<1>4. described => chosen \in Confs
  BY <1>3, ChosenWithin
<1>5. \A S : Served(S) /\ described => chosen.members \subseteq S
  BY <1>3, ChosenWithin DEF Served
<1> HIDE DEF chosen, described
<1>6. /\ proxy' \in [active : Confs, running : BOOLEAN, urev : Nat, variants : Seq(Confs)]
      /\ proxy'.urev = proxy.urev /\ proxy'.variants = proxy.variants
      /\ proxy'.active = IF described THEN chosen ELSE proxy.active
  BY <1>i, <1>1, <1>4 DEF SessionType
<1>7. \A S : Served(S) => proxy'.active.members \subseteq S
  BY <1>5, <1>6 DEF Served
<1> QED BY <1>1, <1>2, <1>6, <1>7, UnlinkedStep

LEMMA RestartMasterStep ==
    ASSUME PlaneInv, RestartMaster
    PROVE  PlaneInv'
<1>i. StoreType /\ JobType /\ SessionType /\ StoreInv
  BY DEF PlaneInv
<1>1. /\ linked' = FALSE /\ downlink' = <<>> /\ uplink' = <<>>
      /\ rollout' = NoRollout /\ sync' = NoSync
      /\ flight' = NoConf /\ settled' = [conf |-> NoConf, epoch |-> 0]
      /\ wants' = [sync |-> TRUE, refresh |-> FALSE]
      /\ UNCHANGED <<roster, journaled, dispatch, proxy, entitled>>
  BY DEF RestartMaster
<1>2. StoreType' /\ StoreInv'
  BY <1>i, <1>1 DEF StoreType, StoreInv, Served
<1>3. JobType'
  BY <1>i, <1>1 DEF JobType, NoRollout
<1>4. <<>> \in Seq(Commands) /\ <<>> \in Seq(Answers) /\ DOMAIN <<>> = {}
  OBVIOUS
<1>5. SessionType'
  BY <1>i, <1>1, <1>4 DEF SessionType
<1>6. SyncInv' /\ QueueInv'
  BY <1>1, <1>4 DEF SyncInv, QueueInv, NoSync
<1> QED BY <1>2, <1>3, <1>5, <1>6 DEF PlaneInv

LEMMA LinkStep ==
    ASSUME PlaneInv, LinkAgent
    PROVE  PlaneInv'
<1>i. StoreType /\ JobType /\ SessionType /\ StoreInv /\ SyncInv /\ QueueInv
  BY DEF PlaneInv
<1>1. /\ linked' = TRUE /\ QueueConf(ReplayedConf) /\ wants' = [wants EXCEPT !.sync = TRUE]
      /\ UNCHANGED <<roster, journaled, flight, settled, rollout, sync, uplink, proxy, entitled>>
  BY DEF LinkAgent
<1>2. ReplayedConf \in Confs
  BY <1>i, ReplayedIsConf
<1>3. PICK n \in Nat : downlink' = Append(downlink, DeployCommand(n, ReplayedConf))
  BY <1>i, <1>1, <1>2, QueuedStep
<1>4. dispatch' \in [id : Nat, status : {"applied", "deploying", "failed"}, conf : Confs, last : Confs]
  BY <1>i, <1>1, <1>2, QueuedStep
<1>5. downlink' \in Seq(Commands) /\ QueueInv'
  BY <1>i, <1>1, <1>2, <1>3, DeployQueued
<1>6. StoreType' /\ StoreInv' /\ SyncInv'
  BY <1>i, <1>1 DEF StoreType, StoreInv, SyncInv, Served
<1>7. JobType'
  BY <1>i, <1>1, <1>4 DEF JobType
<1>8. SessionType'
  BY <1>i, <1>1, <1>5, WantsMore DEF SessionType
<1> QED BY <1>5, <1>6, <1>7, <1>8 DEF PlaneInv

LEMMA HandleStep ==
    ASSUME PlaneInv, HandleUplink
    PROVE  PlaneInv'
<1> DEFINE r == Head(uplink)
<1>i. StoreType /\ JobType /\ SessionType /\ StoreInv /\ SyncInv /\ QueueInv
  BY DEF PlaneInv
<1>1. /\ uplink # <<>>
      /\ UNCHANGED <<roster, journaled, flight, settled, rollout, wants, proxy, entitled, reserve>>
  BY DEF HandleUplink
<1>2. /\ r \in Answers /\ Tail(uplink) \in Seq(Answers)
      /\ 1 \in DOMAIN uplink /\ r = uplink[1]
      /\ \A i \in DOMAIN Tail(uplink) :
            i \in Nat /\ i # 0 /\ i + 1 \in DOMAIN uplink /\ Tail(uplink)[i] = uplink[i + 1]
  BY <1>i, <1>1, Consumed DEF SessionType
<1>3. StoreType' /\ StoreInv'
  BY <1>i, <1>1 DEF StoreType, StoreInv, Served
<1>4. CASE /\ r.kind = "deploy"
           /\ dispatch' = [dispatch EXCEPT !.status = r.answer]
           /\ uplink' = Tail(uplink)
           /\ UNCHANGED <<sync, linked, downlink>>
  <2>1. r.answer \in {"applied", "failed"}
    BY <1>2, <1>4 DEF Answers
  <2>2. dispatch' \in [id : Nat, status : {"applied", "deploying", "failed"}, conf : Confs, last : Confs]
    BY <1>i, <1>4, <2>1 DEF JobType
  <2>3. JobType'
    BY <1>i, <1>1, <2>2 DEF JobType
  <2>4. SessionType'
    BY <1>i, <1>1, <1>2, <1>4 DEF SessionType
  <2>5. SyncInv'
    BY <1>i, <1>1, <1>4 DEF SyncInv, Served
  <2>6. QueueInv'
    <3>1. \A i, j \in DOMAIN uplink' : i # j => i + 1 # j + 1
      BY <1>2, <1>4
    <3>2. \A i, j \in DOMAIN uplink' : uplink'[i].kind = "authority" /\ uplink'[j].kind = "authority" => i = j
      BY <1>2, <1>4, <3>1, <1>i DEF QueueInv
    <3>3. \A i \in DOMAIN uplink' : \E j \in DOMAIN uplink : uplink'[i] = uplink[j]
      BY <1>2, <1>4
    <3>4. \A i \in DOMAIN uplink' : uplink'[i].kind = "authority" =>
            /\ Awaited'
            /\ \A j \in DOMAIN downlink' : downlink'[j].kind # "authority"
            /\ uplink'[i].answer = "applied" => Served(sync.seen)'
      BY <3>3, <1>i, <1>1, <1>4 DEF QueueInv, Awaited, Served
    <3>5. \A i \in DOMAIN downlink' : downlink'[i].kind = "authority" =>
            Awaited' /\ downlink'[i].urev = sync'.urev /\ Within(downlink'[i].variants, sync'.seen)
      BY <1>i, <1>4 DEF QueueInv, Awaited
    <3>6. \A i, j \in DOMAIN downlink' : downlink'[i].kind = "authority" /\ downlink'[j].kind = "authority" => i = j
      BY <1>i, <1>4 DEF QueueInv
    <3> QED BY <3>2, <3>4, <3>5, <3>6 DEF QueueInv
  <2> QED BY <1>3, <2>3, <2>4, <2>5, <2>6 DEF PlaneInv
<1>5. CASE Unlinked /\ UNCHANGED dispatch
  <2>1. JobType'
    BY <1>i, <1>1, <1>5 DEF JobType
  <2> QED BY <1>i, <1>1, <1>5, <2>1, UnlinkedStep DEF SessionType, Served
<1>6. CASE /\ r.kind = "authority"
           /\ sync' = [sync EXCEPT !.pc = "reported", !.answer = r.answer]
           /\ uplink' = Tail(uplink)
           /\ UNCHANGED <<dispatch, linked, downlink>>
  <2>1. /\ Awaited /\ \A j \in DOMAIN downlink : downlink[j].kind # "authority"
        /\ r.answer = "applied" => Served(sync.seen)
    BY <1>i, <1>2, <1>6 DEF QueueInv
  <2>2. \A i \in DOMAIN uplink' : uplink'[i].kind # "authority"
    <3>1. \A i \in Nat : i # 0 => i + 1 # 1
      OBVIOUS
    <3> QED BY <1>i, <1>2, <1>6, <3>1 DEF QueueInv
  <2>3. r.answer \in {"applied", "refused", "mismatch"}
    BY <1>2, <1>6 DEF Answers
  <2>4. sync \in Sending /\ sync.pc = "await"
    BY <1>i, <2>1, SyncType DEF Awaited
  <2>5. /\ sync' \in Sending /\ sync'.pc = "reported" /\ sync'.answer = r.answer
        /\ sync'.seen = sync.seen /\ sync'.urev = sync.urev
    BY <1>6, <2>3, <2>4 DEF Sending
  <2>6. JobType'
    BY <1>i, <1>1, <1>6 DEF JobType
  <2>7. SessionType'
    BY <1>i, <1>1, <1>2, <1>6, <2>5 DEF SessionType
  <2>8. SyncInv'
    BY <1>i, <1>1, <2>1, <2>4, <2>5 DEF SyncInv, Served
  <2>9. QueueInv'
    BY <1>6, <2>1, <2>2 DEF QueueInv
  <2> QED BY <1>3, <2>6, <2>7, <2>8, <2>9 DEF PlaneInv
<1> QED BY <1>4, <1>5, <1>6, Zenon DEF HandleUplink

-----------------------------------------------------------------------------
(* The Agent.                                                              *)

(* The head of the commands is taken and answered.                         *)
LEMMA AnswerStep ==
    ASSUME SessionType, QueueInv, downlink # <<>>, downlink' = Tail(downlink),
           NEW a \in Answers, uplink' = Append(uplink, a)
    PROVE  /\ downlink' \in Seq(Commands) /\ uplink' \in Seq(Answers)
           /\ \A i \in DOMAIN downlink' : downlink'[i].kind = "authority" =>
                 \E j \in DOMAIN downlink : j # 1 /\ downlink'[i] = downlink[j]
           /\ \A i, j \in DOMAIN downlink' : downlink'[i].kind = "authority" /\ downlink'[j].kind = "authority" => i = j
           /\ \A i \in DOMAIN uplink' :
                 \/ i \in DOMAIN uplink /\ uplink'[i] = uplink[i]
                 \/ i = Len(uplink) + 1 /\ uplink'[i] = a
           /\ Head(downlink) \in Commands /\ 1 \in DOMAIN downlink /\ Head(downlink) = downlink[1]
<1>1. downlink \in Seq(Commands) /\ uplink \in Seq(Answers)
  BY DEF SessionType
<1>2. /\ Head(downlink) \in Commands /\ downlink' \in Seq(Commands)
      /\ 1 \in DOMAIN downlink /\ Head(downlink) = downlink[1]
      /\ \A i \in DOMAIN downlink' :
            i \in Nat /\ i # 0 /\ i + 1 \in DOMAIN downlink /\ downlink'[i] = downlink[i + 1]
  BY <1>1, Consumed
<1>3. \A i, j \in DOMAIN downlink' : i # j => i + 1 # j + 1
  BY <1>2
<1>4. \A i \in DOMAIN downlink' : i + 1 # 1
  BY <1>2
<1>5. \A i, j \in DOMAIN downlink' : downlink'[i].kind = "authority" /\ downlink'[j].kind = "authority" => i = j
  BY <1>2, <1>3 DEF QueueInv
<1>6. /\ uplink' \in Seq(Answers)
      /\ \A i \in DOMAIN uplink' :
            \/ i \in DOMAIN uplink /\ uplink'[i] = uplink[i]
            \/ i = Len(uplink) + 1 /\ uplink'[i] = a
  BY <1>1, Appended
<1> QED BY <1>2, <1>4, <1>5, <1>6

LEMMA ActivateStep ==
    ASSUME PlaneInv, ActivateConf
    PROVE  PlaneInv'
<1> DEFINE d == Head(downlink)
<1>i. StoreType /\ JobType /\ SessionType /\ StoreInv /\ SyncInv /\ QueueInv
  BY DEF PlaneInv
<1>1. /\ downlink # <<>> /\ d.kind = "deploy" /\ downlink' = Tail(downlink)
      /\ UNCHANGED <<roster, masterPlane, linked, entitled>>
      /\ \/ proxy' = [proxy EXCEPT !.active = Filtered(d.conf), !.running = TRUE]
         \/ UNCHANGED proxy
  BY Zenon DEF ActivateConf
<1>2. PICK a \in Answers : a.kind = "deploy" /\ uplink' = Append(uplink, a)
  <2>1. d \in Commands
    BY <1>i, <1>1, Consumed DEF SessionType
  <2>2. d.id \in Nat
    BY <2>1 DEF Commands
  <2> DEFINE yes == [kind |-> "deploy", id |-> d.id, answer |-> "applied"]
             no == [kind |-> "deploy", id |-> d.id, answer |-> "failed"]
  <2>3. yes \in Answers /\ no \in Answers /\ yes.kind = "deploy" /\ no.kind = "deploy"
    BY <2>2 DEF Answers
  <2>4. uplink' = Append(uplink, yes) \/ uplink' = Append(uplink, no)
    BY Zenon DEF ActivateConf, Reports
  <2> QED BY <2>3, <2>4
<1> DEFINE sent == \A i \in DOMAIN downlink' : downlink'[i].kind = "authority" =>
                      \E j \in DOMAIN downlink : j # 1 /\ downlink'[i] = downlink[j]
           told == \A i \in DOMAIN uplink' : \/ i \in DOMAIN uplink /\ uplink'[i] = uplink[i]
                                             \/ i = Len(uplink) + 1 /\ uplink'[i] = a
<1>3. /\ downlink' \in Seq(Commands) /\ uplink' \in Seq(Answers) /\ sent /\ told
      /\ \A i, j \in DOMAIN downlink' : downlink'[i].kind = "authority" /\ downlink'[j].kind = "authority" => i = j
      /\ d \in Commands
  BY <1>i, <1>1, <1>2, AnswerStep
<1>4. d.conf \in Confs
  BY <1>1, <1>3 DEF Commands
<1>5. Filtered(d.conf) \in Confs /\ \A S : Served(S) => Filtered(d.conf).members \subseteq S
  BY <1>i, <1>4, FilteredWithin
<1>6. /\ proxy' \in [active : Confs, running : BOOLEAN, urev : Nat, variants : Seq(Confs)]
      /\ proxy'.urev = proxy.urev /\ proxy'.variants = proxy.variants
      /\ proxy'.active \in {proxy.active, Filtered(d.conf)}
  <2> DEFINE f == Filtered(d.conf)
  <2>1. f \in Confs /\ (proxy' = [proxy EXCEPT !.active = f, !.running = TRUE] \/ proxy' = proxy)
    BY <1>1, <1>5
  <2> HIDE DEF f
  <2>2. /\ proxy' \in [active : Confs, running : BOOLEAN, urev : Nat, variants : Seq(Confs)]
        /\ proxy'.urev = proxy.urev /\ proxy'.variants = proxy.variants
        /\ proxy'.active \in {proxy.active, f}
    BY <1>i, <2>1 DEF SessionType
  <2> QED BY <2>2 DEF f
<1>7. \A S : Served(S) => proxy'.active.members \subseteq S /\ Within(proxy'.variants, S)
  BY <1>5, <1>6 DEF Served
<1>8. StoreType' /\ StoreInv'
  BY <1>i, <1>1, <1>6, <1>7 DEF StoreType, StoreInv, Served
<1>9. JobType'
  BY <1>i, <1>1 DEF JobType, masterPlane
<1>10. SessionType'
  BY <1>i, <1>1, <1>3, <1>6 DEF SessionType, masterPlane
<1>11. SyncInv'
  BY <1>i, <1>1, <1>6, <1>7 DEF SyncInv, Served, masterPlane
<1>12. QueueInv'
  <2>1. \A i \in DOMAIN downlink' : downlink'[i].kind = "authority" =>
            Awaited' /\ downlink'[i].urev = sync'.urev /\ Within(downlink'[i].variants, sync'.seen)
    BY <1>i, <1>1, <1>3 DEF QueueInv, Awaited, masterPlane
  <2>2. \A i \in DOMAIN uplink' : uplink'[i].kind = "authority" => i \in DOMAIN uplink /\ uplink'[i] = uplink[i]
    BY <1>2, <1>3
  <2>3. \A i \in DOMAIN uplink' : uplink'[i].kind = "authority" =>
            /\ Awaited'
            /\ \A j \in DOMAIN downlink' : downlink'[j].kind # "authority"
            /\ uplink'[i].answer = "applied" => Served(sync.seen)'
    BY <2>2, <1>i, <1>1, <1>3, <1>7 DEF QueueInv, Awaited, Served, masterPlane
  <2>4. \A i, j \in DOMAIN uplink' : uplink'[i].kind = "authority" /\ uplink'[j].kind = "authority" => i = j
    BY <2>2, <1>i DEF QueueInv
  <2> QED BY <1>3, <2>1, <2>3, <2>4 DEF QueueInv
<1> QED BY <1>8, <1>9, <1>10, <1>11, <1>12 DEF PlaneInv

(* An authority that is reported as applied bounds all that the Agent      *)
(* serves: what runs, and what every later configuration is given.         *)
LEMMA ApplyStep ==
    ASSUME PlaneInv, ApplyAuthority
    PROVE  PlaneInv'
<1> DEFINE d == Head(downlink)
           kept == [proxy EXCEPT !.urev = d.urev, !.variants = d.variants]
           chosen == VariantOf(d.variants, proxy.active.shape)
           yes == [kind |-> "authority", id |-> 0, answer |-> "applied"]
           no == [kind |-> "authority", id |-> 0, answer |-> "refused"]
           stop == [kind |-> "authority", id |-> 0, answer |-> "mismatch"]
<1>i. StoreType /\ JobType /\ SessionType /\ StoreInv /\ SyncInv /\ QueueInv
  BY DEF PlaneInv
<1>1. /\ downlink # <<>> /\ d.kind = "authority" /\ downlink' = Tail(downlink)
      /\ UNCHANGED <<roster, masterPlane, linked, entitled>>
  BY DEF ApplyAuthority
<1>2. /\ d \in Commands /\ 1 \in DOMAIN downlink /\ d = downlink[1]
  BY <1>i, <1>1, Consumed DEF SessionType
<1>3. d.urev \in Nat /\ d.variants \in Seq(Confs)
  BY <1>1, <1>2 DEF Commands
<1>4. /\ Awaited /\ d.urev = sync.urev /\ Within(d.variants, sync.seen)
      /\ \A i \in DOMAIN uplink : uplink[i].kind # "authority"
  BY <1>i, <1>1, <1>2 DEF QueueInv
<1>5. /\ sync \in Sending /\ sync.pc = "await" /\ sync.seen \subseteq entitled
      /\ proxy.urev <= sync.urev /\ sync.urev <= roster.urev
  BY <1>i, <1>4, SyncType DEF SyncInv, Awaited
<1>6. ~Older(d)
  <2>1. proxy.urev \in Nat /\ sync.urev \in Nat
    BY <1>i, <1>5 DEF SessionType, Sending
  <2> QED BY <2>1, <1>4, <1>5 DEF Older
<1>7. yes \in Answers /\ no \in Answers /\ stop \in Answers
  BY DEF Answers
<1>8. \/ uplink' = Append(uplink, no) /\ UNCHANGED proxy
      \/ /\ Describes(d.variants, proxy.active.shape)
         /\ proxy' = [kept EXCEPT !.active = chosen, !.running = @ \/ chosen # proxy.active]
         /\ uplink' = Append(uplink, yes)
      \/ proxy' = [kept EXCEPT !.running = FALSE] /\ uplink' = Append(uplink, stop)
  <2>1. proxy.active # NoConf
    BY <1>i, NotAConf DEF SessionType
  <2> QED BY <1>6, <2>1, Zenon DEF ApplyAuthority, Reports
<1>9. Describes(d.variants, proxy.active.shape) => chosen \in Confs /\ chosen.members \subseteq sync.seen
  BY <1>3, <1>4, ChosenWithin
<1>10. UNCHANGED <<journaled, flight, settled, rollout, sync, wants, dispatch>>
  BY <1>1 DEF masterPlane
<1>11. Within(d.variants, entitled)
  BY <1>4, <1>5 DEF Within
<1>12. /\ kept \in [active : Confs, running : BOOLEAN, urev : Nat, variants : Seq(Confs)]
       /\ kept.urev = d.urev /\ kept.variants = d.variants /\ kept.active = proxy.active
  BY <1>i, <1>3 DEF SessionType
<1> DEFINE Fine(a) ==
             /\ a \in Answers /\ a.kind = "authority" /\ uplink' = Append(uplink, a)
             /\ proxy' \in [active : Confs, running : BOOLEAN, urev : Nat, variants : Seq(Confs)]
             /\ proxy'.urev <= sync.urev
             /\ proxy'.active.members \subseteq entitled /\ Within(proxy'.variants, entitled)
             /\ a.answer = "applied" =>
                   proxy'.active.members \subseteq sync.seen /\ Within(proxy'.variants, sync.seen)
<1>13. yes.kind = "authority" /\ no.kind = "authority" /\ stop.kind = "authority"
       /\ no.answer # "applied" /\ stop.answer # "applied"
  OBVIOUS
<1>14. d.urev <= sync.urev
  BY <1>3, <1>4
<1> HIDE DEF d, kept, chosen, yes, no, stop
<1>15. \E a : Fine(a)
  <2>1. CASE uplink' = Append(uplink, no) /\ UNCHANGED proxy
    <3>1. Fine(no)
      BY <2>1, <1>i, <1>5, <1>7, <1>13 DEF SessionType, StoreInv, Served
    <3> QED BY <3>1
  <2>2. CASE /\ Describes(d.variants, proxy.active.shape)
             /\ proxy' = [kept EXCEPT !.active = chosen, !.running = @ \/ chosen # proxy.active]
             /\ uplink' = Append(uplink, yes)
    <3> DEFINE runs == kept.running \/ chosen # proxy.active
    <3>1. chosen \in Confs /\ chosen.members \subseteq sync.seen
      BY <2>2, <1>9
    <3>2. runs \in BOOLEAN /\ proxy' = [kept EXCEPT !.active = chosen, !.running = runs]
      BY <2>2, Zenon
    <3> HIDE DEF runs
    <3>3. /\ proxy' \in [active : Confs, running : BOOLEAN, urev : Nat, variants : Seq(Confs)]
          /\ proxy'.active = chosen /\ proxy'.urev = d.urev /\ proxy'.variants = d.variants
      BY <3>1, <3>2, <1>12
    <3>4. Fine(yes)
      BY <2>2, <3>1, <3>3, <1>4, <1>5, <1>7, <1>11, <1>13, <1>14
    <3> QED BY <3>4
  <2>3. CASE proxy' = [kept EXCEPT !.running = FALSE] /\ uplink' = Append(uplink, stop)
    <3>1. /\ proxy' \in [active : Confs, running : BOOLEAN, urev : Nat, variants : Seq(Confs)]
          /\ proxy'.active = proxy.active /\ proxy'.urev = d.urev /\ proxy'.variants = d.variants
      BY <2>3, <1>12
    <3>2. proxy.active.members \subseteq entitled
      BY <1>i DEF StoreInv, Served
    <3>3. Fine(stop)
      BY <2>3, <3>1, <3>2, <1>7, <1>11, <1>13, <1>14
    <3> QED BY <3>3
  <2> QED BY <2>1, <2>2, <2>3, <1>8
<1>16. PICK a : Fine(a)
  BY <1>15
<1> DEFINE told == \A i \in DOMAIN uplink' : \/ i \in DOMAIN uplink /\ uplink'[i] = uplink[i]
                                             \/ i = Len(uplink) + 1 /\ uplink'[i] = a
<1>17. /\ downlink' \in Seq(Commands) /\ uplink' \in Seq(Answers) /\ told
       /\ \A i \in DOMAIN downlink' : downlink'[i].kind = "authority" =>
             \E j \in DOMAIN downlink : j # 1 /\ downlink'[i] = downlink[j]
  BY <1>i, <1>1, <1>16, AnswerStep
<1>18. \A i \in DOMAIN downlink' : downlink'[i].kind # "authority"
  BY <1>i, <1>1, <1>2, <1>17 DEF QueueInv
<1>19. StoreType' /\ StoreInv'
  <2>1. proxy'.urev <= roster.urev
    <3>1. proxy'.urev \in Nat /\ sync.urev \in Nat /\ roster.urev \in Nat
      BY <1>i, <1>5, <1>16 DEF Sending, StoreType
    <3> QED BY <3>1, <1>5, <1>16
  <2> QED BY <2>1, <1>i, <1>1, <1>16 DEF StoreType, StoreInv, Served
<1>20. JobType'
  BY <1>i, <1>10 DEF JobType
<1>21. SessionType'
  BY <1>i, <1>1, <1>10, <1>16, <1>17 DEF SessionType
<1>22. SyncInv'
  BY <1>i, <1>1, <1>5, <1>10, <1>16 DEF SyncInv
<1>23. QueueInv'
  <2>1. \A i \in DOMAIN uplink' : uplink'[i].kind = "authority" => i = Len(uplink) + 1 /\ uplink'[i] = a
    BY <1>4, <1>17
  <2>2. Awaited' /\ (a.answer = "applied" => Served(sync.seen)')
    BY <1>4, <1>10, <1>16 DEF Awaited, Served
  <2> QED BY <2>1, <2>2, <1>18 DEF QueueInv
<1> QED BY <1>19, <1>20, <1>21, <1>22, <1>23 DEF PlaneInv

-----------------------------------------------------------------------------
(* The specification.                                                      *)

LEMMA PlaneStarts ==
    ASSUME PlaneInit
    PROVE  PlaneInv
<1>1. PICK g \in Graphs :
        LET p == CHOOSE q \in Places : TRUE
            c == Conf(Shape(g, p), Members)
        IN  /\ roster = [on |-> Members, urev |-> 1, desired |-> g, applied |-> g, place |-> p]
            /\ journaled = NoJournal /\ flight = NoConf /\ settled = [conf |-> NoConf, epoch |-> 0]
            /\ rollout = NoRollout /\ sync = NoSync
            /\ wants = [sync |-> FALSE, refresh |-> FALSE]
            /\ dispatch = [id |-> 0, status |-> "applied", conf |-> c, last |-> c]
            /\ linked = TRUE /\ downlink = <<>> /\ uplink = <<>>
            /\ proxy = [active |-> c, running |-> TRUE, urev |-> 1, variants |-> <<c>>]
            /\ entitled = Members
            /\ reserve \in PlaneBudgets
  BY Zenon DEF PlaneInit
<1> DEFINE p == CHOOSE q \in Places : TRUE
           c == Conf(Shape(g, p), Members)
<1>2. p \in Places
  BY PlaneAssumption
<1>3. c \in Confs /\ c.members = Members
  BY <1>2 DEF Conf, Shape, Confs
<1> HIDE DEF p, c
<1>4. /\ roster = [on |-> Members, urev |-> 1, desired |-> g, applied |-> g, place |-> p]
      /\ journaled = NoJournal /\ flight = NoConf /\ settled = [conf |-> NoConf, epoch |-> 0]
      /\ rollout = NoRollout /\ sync = NoSync
      /\ wants = [sync |-> FALSE, refresh |-> FALSE]
      /\ dispatch = [id |-> 0, status |-> "applied", conf |-> c, last |-> c]
      /\ linked = TRUE /\ downlink = <<>> /\ uplink = <<>>
      /\ proxy = [active |-> c, running |-> TRUE, urev |-> 1, variants |-> <<c>>]
      /\ entitled = Members
  BY <1>1, Zenon DEF p, c
<1>5. StoreType
  BY <1>2, <1>4 DEF StoreType
<1>6. JobType
  BY <1>3, <1>4 DEF JobType, NoRollout
<1>7. /\ <<>> \in Seq(Commands) /\ <<>> \in Seq(Answers) /\ DOMAIN <<>> = {}
      /\ <<c>> \in Seq(Confs) /\ Within(<<c>>, Members)
  BY <1>3 DEF Within
<1>8. SessionType
  BY <1>3, <1>4, <1>7 DEF SessionType
<1>9. StoreInv
  BY <1>3, <1>4, <1>7 DEF StoreInv, Served
<1>10. SyncInv /\ QueueInv
  BY <1>4, <1>7 DEF SyncInv, QueueInv, NoSync
<1> QED BY <1>5, <1>6, <1>8, <1>9, <1>10 DEF PlaneInv

LEMMA PlaneSteps ==
    ASSUME PlaneInv, [PlaneNext]_planeVars
    PROVE  PlaneInv'
<1>1. CASE PlaneNext
  <2>1. ASSUME RolloutStep PROVE PlaneInv'
    BY <2>1, DeploysStep, AnsweredStep, CommitsStep, PublishesStep, UndoesStep, UndoneStep, Zenon DEF RolloutStep
  <2>2. ASSUME SyncStep PROVE PlaneInv'
    BY <2>2, StartSyncStep, CompileSyncStep, SendStep, TimesOutStep, ConcludesStep, RepairStep, Zenon DEF SyncStep
  <2> QED BY <1>1, <2>1, <2>2, MemberStep, StoreStep, StartGraphStep, StartUndoStep, StartRefreshStep, HandleStep,
             ActivateStep, ApplyStep, LinkStep, DropLinkStep, RestartAgentStep, RestartMasterStep, Zenon
          DEF PlaneNext, RolloutStart
<1>2. CASE UNCHANGED planeVars
  <2>1. UNCHANGED <<roster, sync, linked, uplink, downlink, proxy, entitled, wants>>
    BY <1>2 DEF planeVars
  <2>2. JobType'
    BY <1>2 DEF planeVars, JobType, PlaneInv
  <2> QED BY <2>1, <2>2, JobStep, WantsMore DEF PlaneInv
<1> QED BY <1>1, <1>2

(* ReportedRevocationHolds: once the Master was told that an authority is  *)
(* applied, the Agent serves nobody who was not enabled at its revision or *)
(* later, for every number of members, graphs, addresses and events, and   *)
(* whatever configurations rollouts, refreshes, replays, restarts and lost *)
(* sessions put on the Agent (applyCandidate filters the members of each   *)
(* by the authority it keeps).                                             *)
THEOREM RevocationHolds == PlaneSpec => []ReportedRevocationHolds
<1>1. PlaneInv => ReportedRevocationHolds
  BY DEF PlaneInv, StoreInv, Served, ReportedRevocationHolds, Serving
<1>2. PlaneInit => PlaneInv
  BY PlaneStarts
<1>3. PlaneInv /\ [PlaneNext]_planeVars => PlaneInv'
  BY PlaneSteps
<1> QED BY <1>1, <1>2, <1>3, PTL DEF PlaneSpec

=============================================================================
