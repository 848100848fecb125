------------------------------ MODULE ProxyTree ------------------------------
(***************************************************************************)
(* The routing tree of one Proxy Node and the editor of its relay map.     *)
(*                                                                         *)
(* A Proxy Node is a rooted tree of Hops joined by Links.  Traffic that    *)
(* reaches a Hop is matched against the ordered Rules of that Hop: a Rule  *)
(* of a Link hands it to the Link's child, a Rule of a BLOCK branch        *)
(* rejects it; unmatched traffic takes the fallback Link, or the terminal  *)
(* of the Hop.  internal/proxynode/store.go edits the tree, validation.go  *)
(* decides whether the result may be saved, compiler.go gives it its       *)
(* meaning, and internal/webui/proxynodes.go has one handler per edit.     *)
(*                                                                         *)
(* The mutations of the store are operators from a tree to a tree; the     *)
(* handlers are the actions.  Identities are numbers, the least unused one *)
(* being the next; the listeners of the Links are modelled elsewhere.      *)
(***************************************************************************)
EXTENDS Integers, FiniteSets, Sequences

CONSTANTS
    TreeAgents,     \* Agents a Hop may be assigned to
    Matches,        \* match clauses; a flow satisfies a set of them
    All,            \* MatchNone, offered as ALL: the fallback of a Hop
    Unrouted,       \* the Rule of a Link without Rules
    MaxEntities,    \* maxTopologyEntities
    MaxEdits,       \* bound on the number of edits of a behaviour
    InitialTrees    \* trees the runs start from

ASSUME TreeConstants ==
    /\ All \notin Matches /\ Unrouted \notin [order : Nat, match : Matches]
    /\ MaxEntities \in Nat /\ MaxEdits \in Nat

Finals == {"direct", "reject"}
TreeIds == 1..MaxEntities
Entrance == 1

Rule == [order : 0..MaxEntities, match : Matches]
Hop == [id : TreeIds, agent : TreeAgents, final : Finals]
Link == [id : TreeIds, parent : TreeIds, child : TreeIds, order : 0..MaxEntities,
         fallback : BOOLEAN, rule : Rule \cup {Unrouted}]
Block == [id : TreeIds, parent : TreeIds, order : 0..MaxEntities, match : Matches]
Tree == [hops : SUBSET Hop, links : SUBSET Link, blocks : SUBSET Block]

-----------------------------------------------------------------------------
(* Reading a tree.                                                         *)

IdsOf(S) == {x.id : x \in S}
HopOf(t, h) == CHOOSE x \in t.hops : x.id = h
LinkOf(t, l) == CHOOSE x \in t.links : x.id = l
Siblings(t, h) == {l \in t.links : l.parent = h}
Routed(S) == {l \in S : l.rule # Unrouted}
BlocksAt(t, h) == {b \in t.blocks : b.parent = h}

\* the position of x in S under the strict order lt
Rank(S, lt(_, _), x) == Cardinality({y \in S : lt(y, x)})

\* the Rules of a Hop, those of its Links and those of its BLOCK branches, in
\* the one priority space they share
orderedRulesForHop(t, h) ==
    {[order |-> l.rule.order, match |-> l.rule.match, kind |-> "link", id |-> l.id] :
        l \in Routed(Siblings(t, h))}
    \cup {[order |-> b.order, match |-> b.match, kind |-> "block", id |-> b.id] :
        b \in BlocksAt(t, h)}

ruleCountForHop(t, h) == Cardinality(orderedRulesForHop(t, h))

descendantHops(t, root) ==
    LET Below[h \in IdsOf(t.hops)] ==
            {h} \cup UNION {Below[l.child] : l \in Siblings(t, h)}
    IN  Below[root]

AncestorAgentIDs(t, hop) ==
    {HopOf(t, h).agent : h \in {x \in IdsOf(t.hops) : hop \in descendantHops(t, x)}}

-----------------------------------------------------------------------------
(* Restoring contiguous orders after an edit.                              *)

\* the children of every Hop in their order, the fallback last
normalizeLinkOrders(t) ==
    LET before(a, b) == \/ ~a.fallback /\ b.fallback
                        \/ a.fallback = b.fallback /\ a.order < b.order
    IN  [t EXCEPT !.links =
            {[l EXCEPT !.order = Rank(Siblings(t, l.parent), before, l)] : l \in t.links}]

\* the Rules of every Hop get the given positions
applyRuleOrder(t, position(_, _)) ==
    [t EXCEPT
       !.links = {IF l.rule = Unrouted THEN l
                  ELSE [l EXCEPT !.rule.order = position(l.parent,
                           [order |-> l.rule.order, match |-> l.rule.match, kind |-> "link", id |-> l.id])] :
                  l \in t.links},
       !.blocks = {[b EXCEPT !.order = position(b.parent,
                       [order |-> b.order, match |-> b.match, kind |-> "block", id |-> b.id])] :
                   b \in t.blocks}]

Earlier(a, b) == a.order < b.order

normalizeRuleOrders(t) ==
    applyRuleOrder(t, LAMBDA h, r : Rank(orderedRulesForHop(t, h), Earlier, r))

-----------------------------------------------------------------------------
(* Fresh identities: the k-th smallest unused one for the k-th new entity. *)

Unused(S) == TreeIds \ IdsOf(S)
Less(a, b) == a < b
Nth(free, k) == CHOOSE i \in free : Rank(free, Less, i) = k
Fresh(S) == Nth(Unused(S), 0)
FreshFor(S, new) == [x \in new |-> Nth(Unused(S), Rank(new, Less, x))]

\* mutant: the copied Hops get the default terminal
cloneLinkBranchDefaultFinal(t, l) ==
    LET old == descendantHops(t, l.child)
        inner == {x \in t.links : x.parent \in old}
        stale == {b \in t.blocks : b.parent \in old}
        hop == FreshFor(t.hops, old)
        link == FreshFor(t.links, IdsOf(inner) \cup {l.id})
        block == FreshFor(t.blocks, IdsOf(stale))
    IN  [hops |-> {[x EXCEPT !.id = hop[x.id], !.final = "direct"] : x \in {y \in t.hops : y.id \in old}},
         links |-> {[x EXCEPT !.id = link[x.id], !.parent = hop[x.parent], !.child = hop[x.child]] :
                    x \in inner},
         blocks |-> {[b EXCEPT !.id = block[b.id], !.parent = hop[b.parent]] : b \in stale},
         root |-> [l EXCEPT !.id = link[l.id], !.child = hop[l.child]]]

\* what must be added to clone the subtree below a Link: its Hops, the Links
\* among them and the root, and their BLOCK branches, all under new identities
cloneLinkBranch(t, l) ==
    LET old == descendantHops(t, l.child)
        inner == {x \in t.links : x.parent \in old}
        stale == {b \in t.blocks : b.parent \in old}
        hop == FreshFor(t.hops, old)
        link == FreshFor(t.links, IdsOf(inner) \cup {l.id})
        block == FreshFor(t.blocks, IdsOf(stale))
    IN  [hops |-> {[x EXCEPT !.id = hop[x.id]] : x \in {y \in t.hops : y.id \in old}},
         links |-> {[x EXCEPT !.id = link[x.id], !.parent = hop[x.parent], !.child = hop[x.child]] :
                    x \in inner},
         blocks |-> {[b EXCEPT !.id = block[b.id], !.parent = hop[b.parent]] : b \in stale},
         root |-> [l EXCEPT !.id = link[l.id], !.child = hop[l.child]]]

Graft(t, clone, root) ==
    [hops |-> t.hops \cup clone.hops, links |-> t.links \cup clone.links \cup {root},
     blocks |-> t.blocks \cup clone.blocks]

CloneSize(t, l) ==
    LET old == descendantHops(t, l.child)
    IN  2 * Cardinality(old) + Cardinality({b \in t.blocks : b.parent \in old})

-----------------------------------------------------------------------------
(* What may be saved.                                                      *)

Contiguous(S) == {r.order : r \in S} = 0..(Cardinality(S) - 1)

HasParents(t) ==
    \A h \in IdsOf(t.hops) :
        Cardinality({l \in t.links : l.child = h}) = IF h = Entrance THEN 0 ELSE 1

validateReachability(t) == descendantHops(t, Entrance) = IdsOf(t.hops)

validateOrders(t) ==
    \A h \in IdsOf(t.hops) :
        /\ Contiguous(orderedRulesForHop(t, h)) /\ Contiguous(Siblings(t, h))
        /\ \A l \in Siblings(t, h) :
              l.fallback => l.rule = Unrouted /\ l.order = Cardinality(Siblings(t, h)) - 1

Size(t) == Cardinality(t.hops) + Cardinality(t.links) + Cardinality(t.blocks)

validateProxyNode(t) ==
    /\ \A l \in t.links : {l.parent, l.child} \subseteq IdsOf(t.hops) /\ l.parent # l.child
    /\ \A l \in Routed(t.links) : l.rule.match # All
    /\ \A b \in t.blocks : b.parent \in IdsOf(t.hops) /\ b.match # All
    /\ HasParents(t) /\ validateReachability(t) /\ validateOrders(t)

-----------------------------------------------------------------------------
(* What a tree means: the route of a flow, from the entrance to its end.   *)

\* the first Rule of a Hop that a flow satisfies
Selected(t, h, flow) ==
    {r \in orderedRulesForHop(t, h) :
        /\ r.match \in flow
        /\ \A x \in orderedRulesForHop(t, h) : x.match \in flow => r.order <= x.order}

FallbackAt(t, h) == {l \in Siblings(t, h) : l.fallback}

\* the Hops a flow visits below h and where it ends
renderHopRules(t, flow) ==
    LET Route[h \in IdsOf(t.hops)] ==
            LET hit == Selected(t, h, flow)
                taken == IF hit # {} THEN {l \in Siblings(t, h) : \E r \in hit : r.kind = "link" /\ r.id = l.id}
                         ELSE FallbackAt(t, h)
                end == IF \E r \in hit : r.kind = "block"
                       THEN <<"block", (CHOOSE r \in hit : TRUE).id>>
                       ELSE <<HopOf(t, h).final, 0>>
            IN  IF taken = {} THEN <<<<h>>, end>>
                ELSE LET rest == Route[(CHOOSE l \in taken : TRUE).child]
                     IN  << <<h>> \o rest[1], rest[2] >>
    IN  Route

-----------------------------------------------------------------------------
(* The mutations of the store.                                             *)

addLink(t, h, rule, fallback, agent, final) ==
    LET hop == Fresh(t.hops)
        last == FallbackAt(t, h)
        order == IF last = {} THEN Cardinality(Siblings(t, h))
                 ELSE (CHOOSE f \in last : TRUE).order
        link == [id |-> Fresh(t.links), parent |-> h, child |-> hop, order |-> order,
                 fallback |-> fallback, rule |-> rule]
    IN  [t EXCEPT !.hops = @ \cup {[id |-> hop, agent |-> agent, final |-> final]},
                  !.links = {IF l \in last THEN [l EXCEPT !.order = @ + 1] ELSE l : l \in @} \cup {link}]

AddBranch(t, h, m, agent, final) ==
    IF m = All THEN addLink(t, h, Unrouted, TRUE, agent, final)
    ELSE addLink(t, h, [order |-> ruleCountForHop(t, h), match |-> m], FALSE, agent, final)

AddBlockBranch(t, h, m) ==
    [t EXCEPT !.blocks = @ \cup {[id |-> Fresh(t.blocks), parent |-> h,
                                  order |-> ruleCountForHop(t, h), match |-> m]}]

\* a second Rule on a Link: a sibling Link over a clone of its subtree
AddRule(t, l, m) ==
    LET rule == [order |-> ruleCountForHop(t, l.parent), match |-> m]
        clone == cloneLinkBranch(t, l)
        last == FallbackAt(t, l.parent)
        size == Cardinality(Siblings(t, l.parent))
    IN  CASE m = All /\ l.rule = Unrouted ->
               normalizeLinkOrders([t EXCEPT !.links =
                   (@ \ {l}) \cup {[l EXCEPT !.fallback = TRUE]}])
          [] m = All /\ l.rule # Unrouted ->
               normalizeLinkOrders(Graft(t, clone,
                   [clone.root EXCEPT !.rule = Unrouted, !.fallback = TRUE, !.order = size]))
          [] m # All /\ l.rule = Unrouted ->
               [t EXCEPT !.links = (@ \ {l}) \cup {[l EXCEPT !.rule = rule]}]
          [] OTHER ->
               Graft([t EXCEPT !.links = {IF x \in last THEN [x EXCEPT !.order = @ + 1] ELSE x : x \in @}],
                     clone,
                     [clone.root EXCEPT !.rule = rule,
                        !.order = IF last = {} THEN size ELSE (CHOOSE f \in last : TRUE).order])

UpdateRule(t, l, m) ==
    IF m = All
    THEN normalizeRuleOrders(normalizeLinkOrders([t EXCEPT !.links =
             (@ \ {l}) \cup {[l EXCEPT !.rule = Unrouted, !.fallback = TRUE]}]))
    ELSE [t EXCEPT !.links = (@ \ {l}) \cup {[l EXCEPT !.rule.match = m]}]

UpdateBlockBranch(t, b, m) ==
    [t EXCEPT !.blocks = (@ \ {b}) \cup {[b EXCEPT !.match = m]}]

\* mutant: the Rules that remain are not renumbered
DeleteLinkLeavesGap(t, l) ==
    LET gone == descendantHops(t, l.child)
    IN  normalizeLinkOrders(
            [hops |-> {x \in t.hops : x.id \notin gone},
             links |-> {x \in t.links : x # l /\ {x.parent, x.child} \cap gone = {}},
             blocks |-> {b \in t.blocks : b.parent \notin gone}])

DeleteLink(t, l) ==
    LET gone == descendantHops(t, l.child)
    IN  normalizeRuleOrders(normalizeLinkOrders(
            [hops |-> {x \in t.hops : x.id \notin gone},
             links |-> {x \in t.links : x # l /\ {x.parent, x.child} \cap gone = {}},
             blocks |-> {b \in t.blocks : b.parent \notin gone}]))

DeleteBlockBranch(t, b) == normalizeRuleOrders([t EXCEPT !.blocks = @ \ {b}])

\* everything below the Link is replaced by one Hop; the Link keeps its place
ReplaceLinkDestination(t, l, agent, final) ==
    LET gone == descendantHops(t, l.child)
        kept == {x \in t.hops : x.id \notin gone}
        hop == [id |-> Fresh(t.hops), agent |-> agent, final |-> final]
    IN  normalizeRuleOrders(normalizeLinkOrders(
            [hops |-> kept \cup {hop},
             links |-> {x \in t.links : x # l /\ {x.parent, x.child} \cap gone = {}}
                       \cup {[l EXCEPT !.child = hop.id]},
             blocks |-> {b \in t.blocks : b.parent \notin gone}]))

\* the Rule and the neighbour it trades places with, when there is one
MoveRule(t, h, r, delta) ==
    LET rules == orderedRulesForHop(t, h)
        target == r.order + delta
        moved(q) == IF q = r THEN target ELSE IF q.order = target THEN r.order ELSE q.order
    IN  IF target \notin {q.order : q \in rules} THEN t
        ELSE applyRuleOrder(t, LAMBDA p, q : IF p = h THEN moved(q) ELSE q.order)

ReorderRules(t, h, position) ==
    applyRuleOrder(t, LAMBDA p, q : IF p = h THEN position[q] ELSE q.order)

MoveLink(t, l, delta) ==
    [t EXCEPT !.links = {IF x = l THEN [x EXCEPT !.order = @ + delta]
                         ELSE IF x.parent = l.parent /\ x.order = l.order + delta
                              THEN [x EXCEPT !.order = l.order] ELSE x : x \in @}]

SetLinkFallback(t, l, fallback) ==
    IF fallback
    THEN normalizeRuleOrders(normalizeLinkOrders([t EXCEPT !.links =
             {IF x = l THEN [x EXCEPT !.rule = Unrouted, !.fallback = TRUE]
              ELSE IF x.parent = l.parent THEN [x EXCEPT !.fallback = FALSE] ELSE x : x \in @}]))
    ELSE [t EXCEPT !.links = (@ \ {l}) \cup {[l EXCEPT !.fallback = FALSE]}]

SetFinal(t, h, final) ==
    [t EXCEPT !.hops = {IF x.id = h THEN [x EXCEPT !.final = final] ELSE x : x \in @}]

MoveHop(t, h, agent) ==
    [t EXCEPT !.hops = {IF x.id = h THEN [x EXCEPT !.agent = agent] ELSE x : x \in @}]

-----------------------------------------------------------------------------
(* The handlers of the relay map.  Their early returns and the checks of   *)
(* the mutation are guards; a result over the entity limit is refused,     *)
(* which is the bound of the model; any other refusal is remembered.       *)

VARIABLES
    tree,         \* the stored tree
    editRefused,  \* validation refused an edit that had passed its own checks
    edits         \* edits so far

treeVars == <<tree, editRefused, edits>>

Save(t) ==
    /\ edits' = edits + 1
    /\ Size(t) <= MaxEntities
    /\ editRefused' = ~validateProxyNode(t)
    /\ tree' = IF validateProxyNode(t) THEN t ELSE tree

addProxyLink(h, m, agent, final) ==
    /\ Size(tree) + 2 <= MaxEntities
    /\ agent \notin AncestorAgentIDs(tree, h)
    /\ m = All => FallbackAt(tree, h) = {}
    /\ Save(AddBranch(tree, h, m, agent, final))

addProxyBlockRule(h, m) ==
    /\ Size(tree) < MaxEntities
    /\ Save(AddBlockBranch(tree, h, m))

addProxyRule(l, m) ==
    /\ ~l.fallback
    /\ m = All => FallbackAt(tree, l.parent) = {}
    /\ l.rule # Unrouted => Size(tree) + CloneSize(tree, l) <= MaxEntities
    /\ Save(AddRule(tree, l, m))

updateProxyRule(l, m) ==
    /\ l.rule # Unrouted
    /\ m = All => FallbackAt(tree, l.parent) = {}
    /\ Save(UpdateRule(tree, l, m))

updateProxyBlockRule(b, m) == Save(UpdateBlockBranch(tree, b, m))

deleteProxyBlockRule(b) == Save(DeleteBlockBranch(tree, b))

deleteProxyLink(l) == Save(DeleteLink(tree, l))

\* deleting the Rule of a Link deletes the whole branch
deleteProxyRule(l) == l.rule # Unrouted /\ Save(DeleteLink(tree, l))

updateProxyLinkDestination(l, agent, final) ==
    /\ agent \notin AncestorAgentIDs(tree, l.parent)
    /\ Save(ReplaceLinkDestination(tree, l, agent, final))

moveProxyRule(l, delta) ==
    /\ l.rule # Unrouted
    /\ Save(MoveRule(tree, l.parent,
                     [order |-> l.rule.order, match |-> l.rule.match, kind |-> "link", id |-> l.id], delta))

moveProxyBlockRule(b, delta) ==
    Save(MoveRule(tree, b.parent, [order |-> b.order, match |-> b.match, kind |-> "block", id |-> b.id], delta))

reorderProxyRules(h) ==
    LET rules == orderedRulesForHop(tree, h)
    IN  \E position \in [rules -> 0..(Cardinality(rules) - 1)] :
            /\ \A q, r \in rules : position[q] = position[r] => q = r
            /\ Save(ReorderRules(tree, h, position))

moveProxyLink(l, delta) ==
    LET target == {x \in Siblings(tree, l.parent) : x.order = l.order + delta}
    IN  /\ target # {}
        /\ ~(l.fallback /\ delta < 0) /\ ~(delta > 0 /\ \E x \in target : x.fallback)
        /\ Save(MoveLink(tree, l, delta))

updateProxyLinkFallback(l, fallback) == Save(SetLinkFallback(tree, l, fallback))

updateProxyFinal(h, final) == Save(SetFinal(tree, h, final))

updateProxyHop(h, agent) == Save(MoveHop(tree, h, agent))

TreeInit ==
    /\ tree \in InitialTrees
    /\ editRefused = FALSE /\ edits = 0

Edit ==
    \/ \E h \in IdsOf(tree.hops) :
        \/ \E m \in Matches \cup {All}, a \in TreeAgents, f \in Finals : addProxyLink(h, m, a, f)
        \/ \E m \in Matches : addProxyBlockRule(h, m)
        \/ reorderProxyRules(h)
        \/ \E f \in Finals : updateProxyFinal(h, f)
        \/ \E a \in TreeAgents : updateProxyHop(h, a)
    \/ \E l \in tree.links :
        \/ \E m \in Matches \cup {All} : addProxyRule(l, m) \/ updateProxyRule(l, m)
        \/ deleteProxyLink(l) \/ deleteProxyRule(l)
        \/ \E a \in TreeAgents, f \in Finals : updateProxyLinkDestination(l, a, f)
        \/ \E delta \in {-1, 1} : moveProxyRule(l, delta) \/ moveProxyLink(l, delta)
        \/ \E fallback \in BOOLEAN : updateProxyLinkFallback(l, fallback)
    \/ \E b \in tree.blocks :
        \/ \E m \in Matches : updateProxyBlockRule(b, m)
        \/ deleteProxyBlockRule(b)
        \/ \E delta \in {-1, 1} : moveProxyBlockRule(b, delta)

TreeNext == edits < MaxEdits /\ Edit

TreeSpec == TreeInit /\ [][TreeNext]_treeVars

-----------------------------------------------------------------------------
(* Properties.                                                             *)

\* The stored tree is a tree record over the constants.
TreeTypeOK == tree \in Tree /\ editRefused \in BOOLEAN /\ edits \in 0..MaxEdits

\* No handler leaves an edit to be refused by the validation of the store once
\* it has passed the checks of its own mutation: every sequence of edits keeps
\* the tree rooted, without merges, its Rules and Links contiguously ordered
\* and its fallbacks last (validateProxyNode after every Store mutation).
EditsValidate == TreeTypeOK /\ ~editRefused

Flows == SUBSET Matches
RouteIn(t, h, flow) == renderHopRules(t, flow)[h]

\* Adding a branch or a BLOCK, deleting one, duplicating one and replacing a
\* destination leave the traffic of all other branches alone: a flow whose route
\* changes has lost a Hop or a BLOCK of that route or has found a new one
\* (AddBranch, AddBlockBranch, AddRule, DeleteLink, ReplaceLinkDestination and
\* the renumbering of Rules and Links they rely on).
EditsAreLocal ==
    [][(IdsOf(tree.hops) # IdsOf(tree'.hops) \/ IdsOf(tree.blocks) # IdsOf(tree'.blocks)) =>
         \A flow \in Flows :
            LET old == RouteIn(tree, Entrance, flow)
                new == RouteIn(tree', Entrance, flow)
                Passes(r, t) == /\ \A i \in 1..Len(r[1]) : r[1][i] \in IdsOf(t.hops)
                                /\ r[2][1] = "block" => r[2][2] \in IdsOf(t.blocks)
            IN  old = new \/ ~Passes(old, tree') \/ ~Passes(new, tree)]_treeVars

\* A Rule added to a Link that has one is served by an independent copy: what
\* the new branch accepts goes through the same Agents to the same kind of end
\* as through the branch it was copied from (AddRule, cloneLinkBranch).
Path(t, h, flow) ==
    LET r == RouteIn(t, h, flow)
    IN  <<[i \in 1..Len(r[1]) |-> HopOf(t, r[1][i]).agent], r[2][1]>>

CopiesRouteAlike ==
    [][\A l \in tree.links : \A m \in Matches \cup {All} : \A k \in tree'.links :
         (/\ l.rule # Unrouted /\ k.id \notin IdsOf(tree.links) /\ k.parent = l.parent
          /\ Size(tree') = Size(tree) + CloneSize(tree, l)
          /\ tree' = AddRule(tree, l, m))
         => /\ \A flow \in Flows : Path(tree', k.child, flow) = Path(tree, l.child, flow)
            /\ descendantHops(tree', k.child) \cap IdsOf(tree.hops) = {}]_treeVars

\* Every sequence of edits passes validation, and an edit of one branch changes
\* no route but those it is about: all of the above.
EditsAreSound == []EditsValidate /\ EditsAreLocal /\ CopiesRouteAlike
=============================================================================
