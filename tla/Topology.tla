------------------------------ MODULE Topology ------------------------------
(***************************************************************************)
(* The coordinator's TopologySet: the workspace tree with its owner and    *)
(* originator indices, the visibility graph, the escalation router and the *)
(* port rights, and the request handler's checks over them.  The whole set *)
(* is one record, because the compound operations (create, terminate,      *)
(* transfer) and the dispatcher's loop update all of it in one call.       *)
(*                                                                         *)
(* A child list is a set: the order of siblings decides nothing.  A right  *)
(* id is its position in the sequence `rights', as next_id numbers them.   *)
(***************************************************************************)
EXTENDS WorkspaceFsm, Integers, FiniteSets, Sequences

CONSTANTS
  Nodes,        \* workspace ids
  Root,         \* the coordinator's own workspace
  Users,        \* owners
  NoNode,       \* HashMap::get returned None
  System,       \* Originator::System; any other originator is a user
  TaskIds,      \* tasks a workspace may be created for
  MaxRights,    \* bound on created port rights
  MaxEnvelopes  \* bound on accepted envelopes

\* WorkspaceNode
NodeRecord ==
  [parent : Nodes \cup {NoNode}, children : SUBSET Nodes, owner : Users,
   originator : Users \cup {System}, status : WorkspaceStates,
   task : TaskIds \cup {NoNode}]

ASSUME TopologyAssumption ==
  /\ Root \in Nodes /\ NoNode \notin Nodes \cup NodeRecord
  /\ System \notin Users

VARIABLES
  topo,         \* the TopologySet
  nextEnvelope  \* RequestHandler::next_envelope_id

topologyVars == <<topo, nextEnvelope>>

Exists(tp, w) == tp.node[w] # NoNode
Live(tp) == {w \in Nodes : Exists(tp, w)}

(* ------------------------------ the tree -------------------------------- *)
NewNode(parent, owner, orig, status, task) ==
  [parent |-> parent, children |-> {}, owner |-> owner, originator |-> orig,
   status |-> status, task |-> task]

\* WorkspaceTree::insert: the parent must exist, the id must be new.
TreeInsert(tp, w, n) ==
  [tp EXCEPT !.node = [tp.node EXCEPT ![w] = n, ![n.parent].children = @ \cup {w}],
             !.originatorIndex[n.originator] = @ \cup {w},
             !.ownerIndex[n.owner] = @ \cup {w}]

Children(tp, w) == IF Exists(tp, w) THEN tp.node[w].children ELSE {}

\* WorkspaceTree::descendants: what the breadth-first walk from w collects is
\* the least set that holds w's children and the children of its members.
Descendants(tp, w) ==
  LET closed(S) == \A x \in S : Children(tp, x) \subseteq S
  IN  {d \in Nodes : \A S \in SUBSET Nodes :
                        Children(tp, w) \subseteq S /\ closed(S) => d \in S}

\* Mutant: the old parent keeps the child in its list.
Mutant_KeepInOldParent(tp, kids, parent) ==
  [tp EXCEPT !.node =
     [x \in Nodes |->
        IF ~Exists(tp, x) THEN NoNode
        ELSE [tp.node[x] EXCEPT
                !.parent = IF x \in kids THEN parent ELSE @,
                !.children = @ \cup (IF x = parent THEN kids ELSE {})]]]

\* WorkspaceTree::reparent, for a set of children.
Reparent(tp, kids, parent) ==
  [tp EXCEPT !.node =
     [x \in Nodes |->
        IF ~Exists(tp, x) THEN NoNode
        ELSE [tp.node[x] EXCEPT
                !.parent = IF x \in kids THEN parent ELSE @,
                !.children = (@ \ kids) \cup (IF x = parent THEN kids ELSE {})]]]

SetStatus(tp, ws, status) ==
  [tp EXCEPT !.node = [x \in Nodes |->
     IF x \in ws /\ Exists(tp, x) THEN [tp.node[x] EXCEPT !.status = status]
     ELSE tp.node[x]]]

\* Mutant: the cascade does not look at owners.
Mutant_CascadeEverybody(tp, w) ==
  SetStatus(tp, {w} \cup Descendants(tp, w), "Failed")

\* WorkspaceTree::cascade_failure: w and its descendants of the same owner
\* fail, whatever their status; every other descendant moves to the root.
CascadeFailure(tp, w) ==
  LET below   == Descendants(tp, w)
      foreign == {d \in below : tp.node[d].owner # tp.node[w].owner}
  IN  SetStatus(Reparent(tp, foreign, Root), {w} \cup (below \ foreign), "Failed")

\* WorkspaceTree::active_workspaces.
ActiveWorkspaces(tp) ==
  {w \in Live(tp) : tp.node[w].status \notin TerminalStates}

\* WorkspaceTree::causal_descendants and causal_impact.
CausalDescendants(tp, w, orig) == Descendants(tp, w) \cap tp.originatorIndex[orig]
CausalImpact(tp, u) == tp.originatorIndex[u] \cap ActiveWorkspaces(tp)

\* WorkspaceTree::is_causal_boundary.
IsCausalBoundary(tp, w) ==
  /\ Exists(tp, w)
  /\ tp.node[w].parent # NoNode
  /\ tp.node[w].originator # tp.node[tp.node[w].parent].originator

(* ------------------------- visibility, escalation ----------------------- *)
CanSee(tp, viewer, target) == viewer = target \/ target \in tp.canSee[viewer]

\* VisibilityGraph::grant: self-visibility is never stored.
Grant(tp, viewer, target) ==
  IF viewer = target THEN tp
  ELSE [tp EXCEPT !.canSee[viewer] = @ \cup {target},
                  !.seenBy[target] = @ \cup {viewer}]

\* EscalationRouter::register and update.
RouteTo(tp, w, owner) == [tp EXCEPT !.route[w] = owner]

(* ------------------------------ port rights ----------------------------- *)
CreateRight(tp, holder, target, kind) ==
  LET id == Len(tp.rights) + 1
  IN  [tp EXCEPT !.rights = Append(@, [holder |-> holder, target |-> target,
                                       kind |-> kind, status |-> "Active"]),
                 !.byHolder[holder] = @ \cup {id},
                 !.byTarget[target] = @ \cup {id}]

\* Mutant: the right stays listed under its old holder.
Mutant_KeepOldHolder(tp, id, holder) ==
  [tp EXCEPT !.byHolder[holder] = @ \cup {id}, !.rights[id].holder = holder]

\* PortRightsGraph::transfer, on an active right that is not a receive right.
TransferRight(tp, id, holder) ==
  LET old     == tp.rights[id].holder
      dropped == [tp.byHolder EXCEPT ![old] = @ \ {id}]
  IN  [tp EXCEPT !.byHolder = [dropped EXCEPT ![holder] = @ \cup {id}],
                 !.rights[id].holder = holder]

\* Mutant: a right that already ended gets a new status.
Mutant_OverwriteEnded(tp, ids, status) ==
  [tp EXCEPT !.rights = [i \in DOMAIN tp.rights |->
     IF i \in ids THEN [tp.rights[i] EXCEPT !.status = status]
     ELSE tp.rights[i]]]

SetRight(tp, ids, status) ==
  [tp EXCEPT !.rights = [i \in DOMAIN tp.rights |->
     IF i \in ids /\ tp.rights[i].status = "Active"
     THEN [tp.rights[i] EXCEPT !.status = status] ELSE tp.rights[i]]]

\* PortRightsGraph::expire_workspace, for a set of workspaces.
ExpireWorkspaces(tp, ws) ==
  SetRight(tp, UNION {tp.byHolder[w] \cup tp.byTarget[w] : w \in ws}, "Expired")

\* PortRightsGraph::validate_send.
ValidateSend(tp, sender, target) ==
  \E i \in tp.byHolder[sender] :
     /\ tp.rights[i].target = target
     /\ tp.rights[i].status = "Active"
     /\ tp.rights[i].kind \in {"Send", "SendOnce"}

(* --------------------------- compound operations ------------------------ *)
\* Mutant: the parent is given sight of the new workspace, not the root.
Mutant_ParentSees(tp, w, parent, owner, orig, status, task) ==
  LET inTree  == TreeInsert(tp, w, NewNode(parent, owner, orig, status, task))
      routed  == RouteTo(Grant(inTree, parent, w), w, owner)
  IN  CreateRight(CreateRight(CreateRight(routed,
        parent, w, "Send"), w, parent, "Send"), w, w, "Receive")

\* TopologySet::create_workspace on an id that is new and a known parent.
CreateWorkspace(tp, w, parent, owner, orig, status, task) ==
  LET inTree  == TreeInsert(tp, w, NewNode(parent, owner, orig, status, task))
      routed  == RouteTo(Grant(inTree, Root, w), w, owner)
  IN  CreateRight(CreateRight(CreateRight(routed,
        parent, w, "Send"), w, parent, "Send"), w, w, "Receive")

\* TopologySet::terminate_workspace: the cascade runs before the second
\* expiry, which looks only at the descendants w still has.
Terminate(tp, w, status) ==
  LET closed   == ExpireWorkspaces(SetStatus(tp, {w}, status), {w})
      cascaded == CascadeFailure(closed, w)
      failed   == {d \in Descendants(cascaded, w) :
                      cascaded.node[d].status = "Failed"}
  IN  IF status = "Failed" THEN ExpireWorkspaces(cascaded, failed) ELSE closed

\* TopologySet::transfer_ownership to a different owner.
TransferOwnership(tp, w, owner) ==
  LET old     == tp.node[w].owner
      dropped == [tp.ownerIndex EXCEPT ![old] = @ \ {w}]
  IN  RouteTo([tp EXCEPT !.node[w].owner = owner,
                         !.ownerIndex = [dropped EXCEPT ![owner] = @ \cup {w}]],
              w, owner)

\* resolve_owner and resolve_originator: an explicit owner or the parent's; an
\* injecting user or the parent's originator.
ResolveOwner(tp, parent, explicit) ==
  IF explicit \in Users THEN explicit ELSE tp.node[parent].owner
ResolveOriginator(tp, parent, injector) ==
  IF injector \in Users THEN injector ELSE tp.node[parent].originator

(* -------------------------------- actions ------------------------------- *)
NewTopology(owner) ==
  [node |-> [w \in Nodes |-> IF w = Root
               THEN NewNode(NoNode, owner, System, "Active", NoNode) ELSE NoNode],
   originatorIndex |-> [o \in Users \cup {System} |->
                          IF o = System THEN {Root} ELSE {}],
   ownerIndex |-> [u \in Users |-> IF u = owner THEN {Root} ELSE {}],
   canSee |-> [w \in Nodes |-> {}],
   seenBy |-> [w \in Nodes |-> {}],
   route |-> [w \in Nodes |-> IF w = Root THEN owner ELSE NoNode],
   rights |-> << >>,
   byHolder |-> [w \in Nodes |-> {}],
   byTarget |-> [w \in Nodes |-> {}]]

TopologyInit ==
  /\ topo \in {NewTopology(u) : u \in Users}
  /\ nextEnvelope = 1

\* A new workspace takes the next id, as the dispatcher numbers them.
Create(w, parent, explicit, injector) ==
  /\ w = Cardinality(Live(topo))
  /\ ~Exists(topo, w) /\ Exists(topo, parent)
  /\ Len(topo.rights) + 3 <= MaxRights
  /\ topo' = CreateWorkspace(topo, w, parent, ResolveOwner(topo, parent, explicit),
                             ResolveOriginator(topo, parent, injector), "Idle", NoNode)
  /\ UNCHANGED nextEnvelope

End(w, status) ==
  /\ Exists(topo, w)
  /\ topo' = Terminate(topo, w, status)
  /\ UNCHANGED nextEnvelope

ChangeOwner(w, owner) ==
  /\ Exists(topo, w) /\ topo.node[w].owner # owner
  /\ topo' = TransferOwnership(topo, w, owner)
  /\ UNCHANGED nextEnvelope

\* VisibilityGraph::grant_checked.
GrantChecked(viewer, target, grantor) ==
  /\ {viewer, target, grantor} \subseteq Live(topo)
  /\ CanSee(topo, grantor, target)
  /\ topo' = Grant(topo, viewer, target)
  /\ UNCHANGED nextEnvelope

NewRight(holder, target, kind) ==
  /\ {holder, target} \subseteq Live(topo)
  /\ Len(topo.rights) < MaxRights
  /\ topo' = CreateRight(topo, holder, target, kind)
  /\ UNCHANGED nextEnvelope

PassRight(id, holder) ==
  /\ Exists(topo, holder)
  /\ topo.rights[id].status = "Active"
  /\ topo.rights[id].kind # "Receive"
  /\ topo' = TransferRight(topo, id, holder)
  /\ UNCHANGED nextEnvelope

ConsumeRight(id) ==
  /\ topo.rights[id].kind = "SendOnce" /\ topo.rights[id].status = "Active"
  /\ topo' = SetRight(topo, {id}, "Consumed")
  /\ UNCHANGED nextEnvelope

RevokeRight(id) ==
  /\ topo.rights[id].status = "Active"
  /\ topo' = SetRight(topo, {id}, "Revoked")
  /\ UNCHANGED nextEnvelope

\* RequestHandler::handle_send_envelope: validates, numbers, consumes nothing.
HandleSendEnvelope(from, to) ==
  /\ Exists(topo, from) /\ Exists(topo, to)
  /\ ValidateSend(topo, from, to)
  /\ nextEnvelope <= MaxEnvelopes
  /\ nextEnvelope' = nextEnvelope + 1
  /\ UNCHANGED topo

\* RequestHandler::handle_inject_envelope: only the target must exist.
HandleInjectEnvelope(to) ==
  /\ Exists(topo, to)
  /\ nextEnvelope <= MaxEnvelopes
  /\ nextEnvelope' = nextEnvelope + 1
  /\ UNCHANGED topo

TopologyNext ==
  \/ \E w, parent \in Nodes, explicit, injector \in Users \cup {NoNode} :
        Create(w, parent, explicit, injector)
  \/ \E w \in Nodes \ {Root}, status \in TerminalStates : End(w, status)
  \/ \E w \in Nodes, owner \in Users : ChangeOwner(w, owner)
  \/ \E viewer, target, grantor \in Nodes : GrantChecked(viewer, target, grantor)
  \/ \E holder, target \in Nodes : NewRight(holder, target, "SendOnce")
  \/ \E id \in DOMAIN topo.rights, holder \in Nodes : PassRight(id, holder)
  \/ \E id \in DOMAIN topo.rights : ConsumeRight(id)
  \/ \E id \in DOMAIN topo.rights : RevokeRight(id)
  \/ \E from, to \in Nodes : HandleSendEnvelope(from, to)
  \/ \E to \in Nodes : HandleInjectEnvelope(to)

TopologySpec == TopologyInit /\ [][TopologyNext]_topologyVars

(* ------------------------------- properties ----------------------------- *)
\* Parent pointers and child lists describe one tree that hangs from the root:
\* after any sequence of insertions, cascades and reparentings every workspace
\* is in the child list of exactly its parent, and reachable from the root.
TreeIsATree ==
  /\ \A w \in Live(topo) \ {Root} : topo.node[w].parent \in Live(topo)
  /\ \A w, p \in Live(topo) :
        w \in topo.node[p].children <=> (w # Root /\ topo.node[w].parent = p)
  /\ Descendants(topo, Root) = Live(topo) \ {Root}

\* Every index agrees with the entries it indexes: owners, originators and
\* escalation routes with the tree, the two directions of visibility with each
\* other, and rights by holder and by target with the rights.
IndicesAgree ==
  /\ \A u \in Users :
        topo.ownerIndex[u] = {w \in Live(topo) : topo.node[w].owner = u}
  /\ \A o \in Users \cup {System} :
        topo.originatorIndex[o] = {w \in Live(topo) : topo.node[w].originator = o}
  /\ \A w \in Live(topo) : topo.route[w] = topo.node[w].owner
  /\ \A v, w \in Nodes : w \in topo.canSee[v] <=> v \in topo.seenBy[w]
  /\ \A i \in DOMAIN topo.rights, w \in Nodes :
        /\ i \in topo.byHolder[w] <=> topo.rights[i].holder = w
        /\ i \in topo.byTarget[w] <=> topo.rights[i].target = w

\* The coordinator's root sees every workspace, whatever is granted or ends.
RootSeesAll == \A w \in Live(topo) : CanSee(topo, Root, w)

\* A failure stays inside an ownership boundary: a workspace that fails in a
\* step has above it, or is, a workspace of its own owner that fails with it
\* and was the subject of the termination; another owner's workspace is only
\* moved, never failed.
FailureStaysInOwner ==
  [][\A w \in Live(topo) :
       topo'.node[w].status = "Failed" /\ topo.node[w].status # "Failed"
       => \E top \in Live(topo) :
            /\ w = top \/ w \in Descendants(topo, top)
            /\ topo.node[top].owner = topo.node[w].owner
            /\ \A x \in Live(topo) : topo'.node[x].status # topo.node[x].status
                  => x = top \/ x \in Descendants(topo, top)]_topologyVars

\* A right that has been consumed, revoked or expired stays so, and no step
\* changes what a right is for: only its holder moves.
RightsAreFinal ==
  [][\A i \in DOMAIN topo.rights :
       /\ topo.rights[i].status # "Active" => topo'.rights[i] = topo.rights[i]
       /\ topo'.rights[i].target = topo.rights[i].target
       /\ topo'.rights[i].kind = topo.rights[i].kind]_topologyVars

\* What terminate_workspace says of its cascade (topology.rs:123-125, "Collect
\* same-owner children that were failed by cascade ... We need to expire their
\* port rights too"): whoever fails in a step is left with no active right.
FailedLosesRights ==
  [][\A w \in Live(topo) :
       topo'.node[w].status = "Failed" /\ topo.node[w].status # "Failed"
       => \A i \in DOMAIN topo'.rights :
            topo'.rights[i].status = "Active"
            => w \notin {topo'.rights[i].holder, topo'.rights[i].target}]_topologyVars

\* The topology holds together over any sequence of its operations: one tree,
\* indices that agree with it, a root that sees all, failures that stay inside
\* an ownership boundary and rights that stay ended (TopologySet).
TopologyHolds ==
  /\ [](TreeIsATree /\ IndicesAgree /\ RootSeesAll)
  /\ FailureStaysInOwner
  /\ RightsAreFinal
=============================================================================
