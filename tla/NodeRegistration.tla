-------------------------- MODULE NodeRegistration --------------------------
(***************************************************************************)
(* How a Node object is tied to its group and to a Kubernetes node: the    *)
(* admission webhook (internal/webhook/infra/v1alpha1), the first half of  *)
(* the node controller's Reconcile (labels, owner reference, provider ID;  *)
(* internal/controller/infra), the Group controller, and the queries of    *)
(* the autoscaler that read these ties (internal/grpcserver).  Everybody   *)
(* reads from an informer cache that lags behind the API server, while     *)
(* administrators edit and delete Nodes and Groups, Kubernetes nodes come  *)
(* and go, and the garbage collector removes the Nodes of deleted Groups.  *)
(***************************************************************************)
EXTENDS Naturals, FiniteSets

CONSTANTS
    Nodes,      \* names of Node objects
    Kubes,      \* names of Kubernetes nodes
    Groups,     \* group names
    Namesake,   \* Namesake[n]: the Kubernetes node that has the name of Node object n
    None,       \* the absence of an object, a label, an owner or a provider ID
    MaxEdits    \* bound on what administrators and kubelets do

ASSUME NoneAssumption == None \notin Nodes \union Kubes \union Groups
ASSUME NamesakeAssumption == Namesake \in [Nodes -> Kubes]
ASSUME EditsAssumption == MaxEdits \in Nat

VARIABLES
    group, cr, kube,    \* Group, Node and Kubernetes node objects in the API server
    seenGroup, seenCr, seenKube,    \* their copies in the informer cache
    latest,     \* the Nodes whose cached copy is of the latest version
    work,       \* where the node controller's worker is
    edits       \* how much of the bound is used

api == <<group, cr, kube>>
cache == <<seenGroup, seenCr, seenKube>>
vars == <<group, cr, kube, seenGroup, seenCr, seenKube, latest, work, edits>>

\* A Group that is deleted and created again has another UID.
GroupObjects == [exists : BOOLEAN, uid : Nat, loaded : BOOLEAN]
Owners == [group : Groups, uid : Nat]
NodeObjects == [group : Groups, kube : Kubes, owner : Owners \union {None}]
KubeObjects == [group : Groups \union {None}, node : Nodes \union {None},
                provider : Nodes \union {None}]

\* copy: the Node as it was read; current: whether that is the latest version; uid: of
\* the Group as it was read.
Idle == [pc |-> "idle", node |-> None, copy |-> None, current |-> FALSE, uid |-> 0]
Works == [pc : {"idle", "labelGroup", "labelNode", "group", "own", "provider", "operate"},
          node : Nodes \union {None}, copy : NodeObjects \union {None}, current : BOOLEAN,
          uid : Nat]

TypeOK ==
    /\ group \in [Groups -> GroupObjects] /\ seenGroup \in [Groups -> GroupObjects]
    /\ cr \in [Nodes -> NodeObjects \union {None}]
    /\ seenCr \in [Nodes -> NodeObjects \union {None}]
    /\ kube \in [Kubes -> KubeObjects \union {None}]
    /\ seenKube \in [Kubes -> KubeObjects \union {None}]
    /\ latest \in SUBSET Nodes
    /\ work \in Works
    /\ edits \in 0..MaxEdits

\* The controllers start in a cluster of some Groups and Node objects, whose webhook has
\* seen the Groups and the Kubernetes nodes that they name.
NewKube == [group |-> None, node |-> None, provider |-> None]
NewNode(g, k) == [group |-> g, kube |-> k, owner |-> None]
Init ==
    /\ group \in [Groups -> [exists : BOOLEAN, uid : {0}, loaded : BOOLEAN]]
    /\ \A g \in Groups : group[g].loaded => group[g].exists
    /\ cr \in [Nodes -> {NewNode(g, k) : g \in {h \in Groups : group[h].exists}, k \in Kubes}
                           \union {None}]
    /\ kube = [k \in Kubes |-> NewKube]
    /\ seenGroup = group /\ seenCr = cr /\ seenKube = kube
    /\ latest = Nodes
    /\ work = Idle
    /\ edits = 0

----------------------------------------------------------------------------
(* The API server, the cache and the garbage collector *)

\* Node n becomes v (None: is deleted).
Put(n, v) == cr' = [cr EXCEPT ![n] = v] /\ latest' = latest \ {n}

\* The same by somebody else than the worker, whose copy of n is then outdated.
PutByOther(n, v) ==
    /\ Put(n, v)
    /\ work' = [work EXCEPT !.current = @ /\ work.node # n]

WatchGroup(g) ==
    /\ seenGroup[g] # group[g]
    /\ seenGroup' = [seenGroup EXCEPT ![g] = group[g]]
    /\ UNCHANGED <<api, seenCr, seenKube, latest, work, edits>>

WatchNode(n) ==
    /\ n \notin latest
    /\ seenCr' = [seenCr EXCEPT ![n] = cr[n]]
    /\ latest' = latest \union {n}
    /\ UNCHANGED <<api, seenGroup, seenKube, work, edits>>

WatchKube(k) ==
    /\ seenKube[k] # kube[k]
    /\ seenKube' = [seenKube EXCEPT ![k] = kube[k]]
    /\ UNCHANGED <<api, seenGroup, seenCr, latest, work, edits>>

\* A Node whose owner, identified by its UID, is gone.
GarbageCollect(n) ==
    /\ cr[n] # None /\ cr[n].owner # None
    /\ LET o == cr[n].owner
       IN  ~(group[o.group].exists /\ group[o.group].uid = o.uid)
    /\ PutByOther(n, None)
    /\ UNCHANGED <<group, kube, cache, edits>>

----------------------------------------------------------------------------
(* The webhook *)

validateGroupLabel(g) == seenGroup[g].exists

validateKubernetesNode(k) == seenKube[k] # None

\* Faulty variant: the Kubernetes node is never looked up successfully again once the
\* Node has an owner.
ValidateRefusesOwned(v) ==
    validateGroupLabel(v.group) /\ validateKubernetesNode(v.kube) /\ v.owner = None

\* ValidateCreate and ValidateUpdate.  Deletions are always admitted, and updates of the
\* status do not pass here.
Validate(v) == validateGroupLabel(v.group) /\ validateKubernetesNode(v.kube)

----------------------------------------------------------------------------
(* Administrators and machines *)

Edit == edits < MaxEdits /\ edits' = edits + 1

CreateNode(n, g, k) ==
    LET v == NewNode(g, k)
    IN  /\ Edit
        /\ cr[n] = None /\ Validate(v)
        /\ PutByOther(n, v)
        /\ UNCHANGED <<group, kube, cache>>

\* The group label or kubernetesNodeName changes.
UpdateNode(n, g, k) ==
    LET v == [cr[n] EXCEPT !.group = g, !.kube = k]
    IN  /\ Edit
        /\ cr[n] # None /\ v # cr[n] /\ Validate(v)
        /\ PutByOther(n, v)
        /\ UNCHANGED <<group, kube, cache>>

DeleteNode(n) ==
    /\ Edit
    /\ cr[n] # None
    /\ PutByOther(n, None)
    /\ UNCHANGED <<group, kube, cache>>

CreateGroup(g) ==
    /\ Edit
    /\ ~group[g].exists
    /\ group' = [group EXCEPT ![g] = [exists |-> TRUE, uid |-> @.uid + 1, loaded |-> FALSE]]
    /\ UNCHANGED <<cr, kube, cache, latest, work>>

DeleteGroup(g) ==
    /\ Edit
    /\ group[g].exists
    /\ group' = [group EXCEPT ![g].exists = FALSE, ![g].loaded = FALSE]
    /\ UNCHANGED <<cr, kube, cache, latest, work>>

\* A kubelet registers anew, without our labels and provider ID, or its node is deleted.
RegisterKube(k) ==
    /\ Edit
    /\ kube' = [kube EXCEPT ![k] = IF @ = None THEN NewKube ELSE None]
    /\ UNCHANGED <<group, cr, cache, latest, work>>

----------------------------------------------------------------------------
(* The node controller: Reconcile, up to the point where NodeLifecycle goes on *)

Goto(pc) == work' = [work EXCEPT !.pc = pc]

\* Get, from the cache.
ReconcileBegins(n) ==
    /\ work.pc = "idle"
    /\ seenCr[n] # None
    /\ work' = [pc |-> "labelGroup", node |-> n, copy |-> seenCr[n],
                current |-> n \in latest, uid |-> 0]
    /\ UNCHANGED <<api, cache, latest, edits>>

\* A merge patch of the cached copy: empty if that has the value already, and without
\* effect if there is no such node.  Errors are only logged.
PatchKube(k, label, value) ==
    LET effect == /\ seenKube[k] # None /\ kube[k] # None
                  /\ seenKube[k][label] # value
    IN  kube' = IF effect THEN [kube EXCEPT ![k][label] = value] ELSE kube

\* Faulty variant: labels are written until the Node has an owner only.
LabelGroupOfUnowned ==
    /\ work.pc = "labelGroup"
    /\ IF work.copy.owner = None THEN PatchKube(work.copy.kube, "group", work.copy.group)
                                 ELSE UNCHANGED kube
    /\ Goto("labelNode")
    /\ UNCHANGED <<group, cr, cache, latest, edits>>

\* addLabelToKubernetesNodeWithPatch, twice.  The condition in front of it compares two
\* labels of the Node, one of which nobody sets: it always holds.
LabelGroup ==
    /\ work.pc = "labelGroup"
    /\ PatchKube(work.copy.kube, "group", work.copy.group)
    /\ Goto("labelNode")
    /\ UNCHANGED <<group, cr, cache, latest, edits>>

LabelNode ==
    /\ work.pc = "labelNode"
    /\ PatchKube(work.copy.kube, "node", work.node)
    /\ Goto("group")
    /\ UNCHANGED <<group, cr, cache, latest, edits>>

\* The Group of the label, from the cache; without it the Node is requeued.
GetGroup ==
    /\ work.pc = "group"
    /\ LET seen == seenGroup[work.copy.group]
       IN  work' = IF seen.exists THEN [work EXCEPT !.pc = "own", !.uid = seen.uid] ELSE Idle
    /\ UNCHANGED <<api, cache, latest, edits>>

Owner == [group |-> work.copy.group, uid |-> work.uid]

\* ctrl.SetControllerReference refuses a Node that a Group of another name owns; the
\* reference to an earlier Group of the same name is replaced.
AlreadyOwned == work.copy.owner # None /\ work.copy.owner.group # work.copy.group

\* The UID and the version are not used after this.
ToProvider == [work EXCEPT !.pc = "provider", !.uid = 0, !.current = FALSE]

\* Faulty variant: the owner is written whatever the version.
SetOwnerAnyway ==
    LET v == [cr[work.node] EXCEPT !.owner = Owner]
    IN  /\ work.pc = "own" /\ work.copy.owner # Owner /\ ~AlreadyOwned
        /\ cr[work.node] # None /\ Validate(v)
        /\ Put(work.node, v)
        /\ work' = [ToProvider EXCEPT !.copy.owner = Owner]
        /\ UNCHANGED <<group, kube, cache, edits>>

\* SetControllerReference when there is something to write.
SetControllerReference ==
    LET v == [work.copy EXCEPT !.owner = Owner]
    IN  /\ work.pc = "own" /\ work.copy.owner # Owner /\ ~AlreadyOwned
        /\ work.current /\ Validate(v)
        /\ Put(work.node, v)
        /\ work' = [ToProvider EXCEPT !.copy = v]
        /\ UNCHANGED <<group, kube, cache, edits>>

\* When there is not, or when it fails: refused, of an old version, or not admitted.
OwnerIsSet ==
    /\ work.pc = "own" /\ work.copy.owner = Owner
    /\ work' = ToProvider
    /\ UNCHANGED <<api, cache, latest, edits>>

OwnerFails ==
    /\ work.pc = "own" /\ work.copy.owner # Owner
    /\ AlreadyOwned \/ ~work.current \/ ~Validate([work.copy EXCEPT !.owner = Owner])
    /\ work' = Idle
    /\ UNCHANGED <<api, cache, latest, edits>>

\* Faulty variant: the provider ID bears the name of the Kubernetes node.
ProviderIDOfKube ==
    /\ work.pc = "provider"
    /\ LET k == work.copy.kube
           unset == kube[k] # None /\ kube[k].provider = None
       IN  kube' = IF unset THEN [kube EXCEPT ![k].provider = k] ELSE kube
    /\ Goto("operate")
    /\ UNCHANGED <<group, cr, cache, latest, edits>>

\* Only an empty provider ID is set, and the API server lets no other be changed.
SetProviderID ==
    /\ work.pc = "provider"
    /\ LET k == work.copy.kube
           unset == /\ seenKube[k] # None /\ seenKube[k].provider = None
                    /\ kube[k] # None /\ kube[k].provider = None
       IN  kube' = IF unset THEN [kube EXCEPT ![k].provider = work.node] ELSE kube
    /\ Goto("operate")
    /\ UNCHANGED <<group, cr, cache, latest, edits>>

\* validateStateTransition and the power operations, which are the matter of NodeLifecycle.
Operate ==
    /\ work.pc = "operate"
    /\ work' = Idle
    /\ UNCHANGED <<api, cache, latest, edits>>

ReconcileGoesOn ==
    \/ LabelGroup \/ LabelNode \/ GetGroup
    \/ SetControllerReference \/ OwnerIsSet \/ OwnerFails
    \/ SetProviderID \/ Operate

----------------------------------------------------------------------------
(* The Group controller *)

\* Sets the condition Loaded, in every pass; an update of an older version fails and is
\* retried.  On a Group that is loaded the pass renews the time stamp of the condition, which
\* is not modelled, and may so trigger the next one.
ReconcileGroup(g) ==
    /\ seenGroup[g].exists /\ seenGroup[g] = group[g]
    /\ group' = [group EXCEPT ![g].loaded = TRUE]
    /\ UNCHANGED <<cr, kube, cache, latest, work, edits>>

----------------------------------------------------------------------------
Edits ==
    \/ \E n \in Nodes : \/ \E g \in Groups, k \in Kubes : CreateNode(n, g, k) \/ UpdateNode(n, g, k)
                        \/ DeleteNode(n)
    \/ \E g \in Groups : CreateGroup(g) \/ DeleteGroup(g)
    \/ \E k \in Kubes : RegisterKube(k)

Next ==
    \/ Edits
    \/ \E n \in Nodes : WatchNode(n) \/ GarbageCollect(n) \/ ReconcileBegins(n)
    \/ \E g \in Groups : WatchGroup(g) \/ ReconcileGroup(g)
    \/ \E k \in Kubes : WatchKube(k)
    \/ ReconcileGoesOn

\* Informers catch up, garbage is collected, the worker goes on and, its queue being fair,
\* comes back to every Node: a Reconcile ends in an error or a RequeueAfter, or leaves an
\* operation behind whose writes to the Node trigger the next.
Fairness ==
    /\ \A n \in Nodes : WF_vars(WatchNode(n)) /\ WF_vars(GarbageCollect(n))
                        /\ SF_vars(ReconcileBegins(n))
    /\ \A g \in Groups : WF_vars(WatchGroup(g)) /\ WF_vars(ReconcileGroup(g))
    /\ \A k \in Kubes : WF_vars(WatchKube(k))
    /\ WF_vars(ReconcileGoesOn)

Spec == Init /\ [][Next]_vars
FairSpec == Spec /\ Fairness

----------------------------------------------------------------------------
(* The queries of the autoscaler, answered from the cache *)

Members(g) == {n \in Nodes : seenCr[n] # None /\ seenCr[n].group = g}

NodeGroups == {[id |-> g, maxSize |-> Cardinality(Members(g))] :
                  g \in {h \in Groups : seenGroup[h].exists}}

\* By the label of the Kubernetes node.
NodeGroupForNode(k) ==
    LET g == IF seenKube[k] = None THEN None ELSE seenKube[k].group
    IN  IF g = None THEN None ELSE IF seenGroup[g].exists THEN g ELSE None

\* Faulty variant: the instances are the Kubernetes nodes that bear the label of the group.
InstancesByLabel(g) == {seenKube[k].provider : k \in {l \in Kubes : seenKube[l] # None /\ seenKube[l].group = g}}

\* By the label of the Node objects: the provider IDs of their Kubernetes nodes, empty for
\* one that is gone.
NodeGroupNodes(g) ==
    {IF seenKube[k] = None THEN None ELSE seenKube[k].provider : k \in {seenCr[n].kube : n \in Members(g)}}

\* The group label of a template made from Node n: a copy of the Kubernetes node with the
\* name of the Node object, whichever the Node names; without one, a placeholder with the
\* label of the Node.
templateLabel(n) ==
    LET k == Namesake[n]
    IN  IF seenKube[k] = None THEN seenCr[n].group ELSE seenKube[k].group

\* Faulty variant: the Nodes are listed without regard to their group.
TemplateOfAnyNode(g) == {templateLabel(n) : n \in {m \in Nodes : seenCr[m] # None}}

\* Which Node of the group it is depends on their power, and is left open.
NodeGroupTemplateNodeInfo(g) == {templateLabel(n) : n \in Members(g)}

\* The Node object that the controller of Kubernetes nodes updates for k.
NodeOf(k) ==
    LET n == IF seenKube[k] = None THEN None ELSE seenKube[k].node
    IN  IF n = None THEN None ELSE IF seenCr[n] = None THEN None ELSE n

----------------------------------------------------------------------------
(* Properties *)

\* An owner reference is only ever written to a Node that carries the label of that Group
\* at that moment: a Node moved to another group while it is being reconciled is not
\* handed to its old one, with which it would be deleted.
OwnerFollowsLabel ==
    [][\A n \in Nodes :
          cr'[n] # None /\ cr'[n].owner # None /\ (cr[n] = None \/ cr[n].owner # cr'[n].owner)
             => cr'[n].owner.group = cr'[n].group]_vars

\* The Group and the Kubernetes node that Node n names are there; its owner, if it has one,
\* bears the name of that Group; no other Node names the same Kubernetes node.
Registered(n) ==
    /\ cr[n] # None
    /\ group[cr[n].group].exists
    /\ kube[cr[n].kube] # None
Accepted(n) == cr[n].owner # None => cr[n].owner.group = cr[n].group
Sole(n) == \A m \in Nodes \ {n} : cr[m] # None => cr[m].kube # cr[n].kube

\* "NodeGroupForNode returns the node group for the given node", "NodeGroupNodes returns a
\* list of all nodes that belong to this node group" (externalgrpc.proto): once the edits
\* are over, both answers, which come from different objects, and the Node whose power
\* follows the Kubernetes node are what the Node object says.  A Node that was moved away
\* from the group that owns it gets no provider ID, and is not operated any more.
Agree(n) ==
    LET k == cr[n].kube
        g == cr[n].group
    IN  /\ NodeGroupForNode(k) = g
        /\ Accepted(n) => seenKube[k].provider \in NodeGroupNodes(g) \ {None}
        /\ NodeOf(k) = n
ViewsAgree ==
    \A n \in Nodes : <>[](Registered(n) /\ Sole(n) => Agree(n))

\* "a structure of an empty (as if just started) node" (externalgrpc.proto): as long as all
\* Nodes of a group name the Kubernetes node of their own name, its template carries the
\* label of the group in the end, so that the autoscaler can tell what a new Node adds.
Namesakes(g) ==
    \A n \in Nodes : cr[n] # None /\ cr[n].group = g =>
                       Registered(n) /\ Sole(n) /\ cr[n].kube = Namesake[n]
TemplatesFit ==
    \A g \in Groups : <>[](Namesakes(g) => NodeGroupTemplateNodeInfo(g) \subseteq {g})

\* Two Nodes never tell the autoscaler the same provider ID, unless one of them names a
\* Kubernetes node that got its ID from another Node, which SetProviderID leaves as it is.
OwnProvider(n) == kube[cr[n].kube].provider \in {None, n}

\* The size NodeGroups gives for a group, counted from Node objects, is in the end the number
\* of instances that NodeGroupNodes lets the autoscaler tell apart, which it takes from the
\* Kubernetes nodes: none is counted that has no instance, and none shares one with another.
SizesAgree ==
    \A g \in Groups :
       <>[](/\ group[g].exists
            /\ \A n \in Nodes : cr[n] # None /\ cr[n].group = g =>
                                Registered(n) /\ Sole(n) /\ Accepted(n) /\ OwnProvider(n)
            => [id |-> g, maxSize |-> Cardinality(NodeGroupNodes(g) \ {None})] \in NodeGroups)

\* A registered Node whose owner, if it has one, bears the name of its group is operated
\* again and again, and the lock its operations write passes the webhook.
Operates(n) ==
    work.pc = "operate" /\ work.node = n /\ Validate(work.copy)
Operable ==
    \A n \in Nodes :
       <>[](Registered(n) /\ Accepted(n)) => []<>Operates(n)
=============================================================================
