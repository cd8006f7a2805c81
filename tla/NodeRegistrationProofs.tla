----------------------- MODULE NodeRegistrationProofs -----------------------
(***************************************************************************)
(* For any Nodes, Kubernetes nodes and Groups and any number of edits: the *)
(* types of NodeRegistration, that an owner reference follows the label,   *)
(* and that reconciling Nodes that are as they should be changes none. The *)
(* second rests on optimistic concurrency: the worker writes the owner of  *)
(* the group whose label it has read, and the write passes only if the     *)
(* copy that was read is still what the API server holds.                  *)
(***************************************************************************)
EXTENDS NodeRegistration, TLAPS

\* A cached copy taken for the latest version is what the API server holds.
LatestIsTrue == \A n \in latest : seenCr[n] = cr[n]

\* Under way, the worker holds the copy of a Node; and what the Node is, if current.
WorkOk ==
    work.pc # "idle" =>
       /\ work.node \in Nodes /\ work.copy \in NodeObjects
       /\ work.current => work.copy = cr[work.node]

Inv == TypeOK /\ LatestIsTrue /\ WorkOk

----------------------------------------------------------------------------
\* A new Node object has the type of one.
LEMMA NewNodeType ==
    ASSUME NEW g \in Groups, NEW k \in Kubes
    PROVE  NewNode(g, k) \in NodeObjects
BY DEF NewNode, NodeObjects

\* The invariant holds when the controllers start.
LEMMA InitInv == Init => Inv
<1> SUFFICES ASSUME Init PROVE Inv
    OBVIOUS
<1>1. group \in [Groups -> GroupObjects]
    BY DEF Init, GroupObjects
<1>2. cr \in [Nodes -> NodeObjects \union {None}]
    BY NewNodeType DEF Init
<1>3. kube \in [Kubes -> KubeObjects \union {None}]
    BY DEF Init, NewKube, KubeObjects
<1>4. work \in Works
    BY DEF Init, Idle, Works
<1>5. edits \in 0..MaxEdits /\ latest \in SUBSET Nodes
    BY EditsAssumption DEF Init
<1>6. TypeOK
    BY <1>1, <1>2, <1>3, <1>4, <1>5 DEF Init, TypeOK
<1>7. LatestIsTrue
    BY DEF Init, LatestIsTrue
<1>8. WorkOk
    BY DEF Init, Idle, WorkOk
<1> QED BY <1>6, <1>7, <1>8 DEF Inv

\* Somebody else's write of Node n keeps the invariant.
LEMMA PutByOtherInv ==
    ASSUME Inv, NEW n \in Nodes, NEW v \in NodeObjects \union {None}, PutByOther(n, v),
           UNCHANGED <<group, kube, cache>>, edits' \in 0..MaxEdits
    PROVE  Inv'
<1> USE DEF PutByOther, Put, cache
<1>1. cr' \in [Nodes -> NodeObjects \union {None}] /\ latest' \in SUBSET Nodes
    BY DEF Inv, TypeOK
<1>2. work' \in Works
    BY DEF Inv, TypeOK, Works
<1>3. TypeOK'
    BY <1>1, <1>2 DEF Inv, TypeOK
<1>4. LatestIsTrue'
    BY DEF Inv, TypeOK, LatestIsTrue
<1>5. WorkOk'
  <2>1. /\ work'.pc = work.pc /\ work'.node = work.node /\ work'.copy = work.copy
        /\ work'.current => work.current /\ work.node # n
      BY DEF Inv, TypeOK, Works
  <2> QED BY <2>1 DEF Inv, TypeOK, WorkOk
<1> QED BY <1>3, <1>4, <1>5 DEF Inv

\* Edits by administrators and machines keep the invariant.
LEMMA EditsInv == Inv /\ Edits => Inv'
<1> SUFFICES ASSUME Inv, Edits PROVE Inv'
    OBVIOUS
<1>0. edits' \in 0..MaxEdits
  <2>1. Edit
      BY Zenon DEF Edits, CreateNode, UpdateNode, DeleteNode, CreateGroup, DeleteGroup, RegisterKube
  <2> QED BY <2>1, EditsAssumption DEF Edit, Inv, TypeOK
<1>1. ASSUME NEW n \in Nodes, NEW g \in Groups, NEW k \in Kubes, CreateNode(n, g, k)
      PROVE  Inv'
    BY <1>0, <1>1, NewNodeType, PutByOtherInv DEF CreateNode
<1>2. ASSUME NEW n \in Nodes, NEW g \in Groups, NEW k \in Kubes, UpdateNode(n, g, k)
      PROVE  Inv'
  <2>1. [cr[n] EXCEPT !.group = g, !.kube = k] \in NodeObjects
      BY <1>2 DEF UpdateNode, Inv, TypeOK, NodeObjects
  <2> QED BY <1>0, <1>2, <2>1, PutByOtherInv DEF UpdateNode
<1>3. ASSUME NEW n \in Nodes, DeleteNode(n)
      PROVE  Inv'
    BY <1>0, <1>3, PutByOtherInv DEF DeleteNode
<1>4. ASSUME NEW g \in Groups, CreateGroup(g)
      PROVE  Inv'
  <2>1. group' \in [Groups -> GroupObjects]
      BY <1>4 DEF CreateGroup, Inv, TypeOK, GroupObjects
  <2> QED BY <1>0, <1>4, <2>1 DEF CreateGroup, Inv, TypeOK, LatestIsTrue, WorkOk, cache
<1>5. ASSUME NEW g \in Groups, DeleteGroup(g)
      PROVE  Inv'
  <2>1. group' \in [Groups -> GroupObjects]
      BY <1>5 DEF DeleteGroup, Inv, TypeOK, GroupObjects
  <2> QED BY <1>0, <1>5, <2>1 DEF DeleteGroup, Inv, TypeOK, LatestIsTrue, WorkOk, cache
<1>6. ASSUME NEW k \in Kubes, RegisterKube(k)
      PROVE  Inv'
  <2>1. kube' \in [Kubes -> KubeObjects \union {None}]
      BY <1>6 DEF RegisterKube, NewKube, Inv, TypeOK, KubeObjects
  <2> QED BY <1>0, <1>6, <2>1 DEF RegisterKube, Inv, TypeOK, LatestIsTrue, WorkOk, cache
<1> QED BY <1>1, <1>2, <1>3, <1>4, <1>5, <1>6 DEF Edits

\* The cache, the garbage collector and the Group controller keep the invariant.
LEMMA ClusterInv ==
    ASSUME Inv,
           \/ \E n \in Nodes : WatchNode(n) \/ GarbageCollect(n)
           \/ \E g \in Groups : WatchGroup(g) \/ ReconcileGroup(g)
           \/ \E k \in Kubes : WatchKube(k)
    PROVE  Inv'
<1>1. ASSUME NEW n \in Nodes, WatchNode(n)
      PROVE  Inv'
  <2>1. TypeOK' /\ WorkOk'
      BY <1>1 DEF WatchNode, api, Inv, TypeOK, WorkOk
  <2>2. LatestIsTrue'
      BY <1>1 DEF WatchNode, api, Inv, TypeOK, LatestIsTrue
  <2> QED BY <2>1, <2>2 DEF Inv
<1>2. ASSUME NEW n \in Nodes, GarbageCollect(n)
      PROVE  Inv'
    BY <1>2, PutByOtherInv DEF GarbageCollect, Inv, TypeOK
<1>3. ASSUME NEW g \in Groups, WatchGroup(g)
      PROVE  Inv'
    BY <1>3 DEF WatchGroup, api, Inv, TypeOK, LatestIsTrue, WorkOk
<1>4. ASSUME NEW g \in Groups, ReconcileGroup(g)
      PROVE  Inv'
  <2>1. group' \in [Groups -> GroupObjects]
      BY <1>4 DEF ReconcileGroup, Inv, TypeOK, GroupObjects
  <2> QED BY <1>4, <2>1 DEF ReconcileGroup, Inv, TypeOK, LatestIsTrue, WorkOk, cache
<1>5. ASSUME NEW k \in Kubes, WatchKube(k)
      PROVE  Inv'
    BY <1>5 DEF WatchKube, api, Inv, TypeOK, LatestIsTrue, WorkOk
<1> QED BY <1>1, <1>2, <1>3, <1>4, <1>5

\* A patch of a label keeps Kubernetes nodes typed.
LEMMA PatchType ==
    ASSUME Inv, NEW k \in Kubes,
           \/ \E g \in Groups : PatchKube(k, "group", g)
           \/ \E n \in Nodes : PatchKube(k, "node", n)
    PROVE  kube' \in [Kubes -> KubeObjects \union {None}]
BY DEF Inv, TypeOK, PatchKube, KubeObjects

\* The worker moves on from one step of Reconcile to the next.
LEMMA GotoInv ==
    ASSUME Inv, work.pc # "idle", kube' \in [Kubes -> KubeObjects \union {None}],
           NEW pc \in {"labelGroup", "labelNode", "group", "own", "provider", "operate"},
           Goto(pc), UNCHANGED <<group, cr, cache, latest, edits>>
    PROVE  Inv'
<1>1. /\ work' \in Works
      /\ work'.node = work.node /\ work'.copy = work.copy /\ work'.current = work.current
    BY DEF Goto, Inv, TypeOK, Works
<1> QED BY <1>1 DEF Inv, TypeOK, LatestIsTrue, WorkOk, cache

\* It ends.
LEMMA EndsInv ==
    ASSUME Inv, work' = Idle, UNCHANGED <<api, cache, latest, edits>>
    PROVE  Inv'
<1>1. work' \in Works /\ work'.pc = "idle"
    BY DEF Idle, Works
<1> QED BY <1>1 DEF Inv, TypeOK, LatestIsTrue, WorkOk, api, cache

\* Reconcile begins with a copy that is of the latest version if the cache is.
LEMMA BeginsInv ==
    ASSUME Inv, NEW n \in Nodes, ReconcileBegins(n)
    PROVE  Inv'
<1>1. /\ work' \in Works /\ work'.node = n /\ work'.copy = seenCr[n]
      /\ work'.current = (n \in latest) /\ seenCr[n] \in NodeObjects
    BY DEF ReconcileBegins, Inv, TypeOK, Works
<1> QED BY <1>1 DEF ReconcileBegins, Inv, TypeOK, LatestIsTrue, WorkOk, api, cache

\* The owner that is about to be written has the type of one.
LEMMA OwnerType ==
    ASSUME Inv, work.pc = "own"
    PROVE  Owner \in Owners
BY DEF Inv, TypeOK, WorkOk, Works, Owner, Owners, NodeObjects

\* The Update of SetControllerReference keeps the invariant.
LEMMA SetOwnerInv == Inv /\ SetControllerReference => Inv'
<1> SUFFICES ASSUME Inv, SetControllerReference PROVE Inv'
    OBVIOUS
<1> DEFINE v == [work.copy EXCEPT !.owner = Owner]
<1>1. work.pc = "own" /\ work.node \in Nodes /\ work.copy \in NodeObjects
    BY DEF SetControllerReference, Inv, WorkOk
<1>2. v \in NodeObjects
    BY <1>1, OwnerType DEF NodeObjects
<1>3. cr' = [cr EXCEPT ![work.node] = v] /\ latest' = latest \ {work.node}
    BY DEF SetControllerReference, Put
<1>4. work' = [ToProvider EXCEPT !.copy = v]
    BY DEF SetControllerReference
<1> HIDE DEF v
<1>5. /\ work' \in Works /\ work'.node = work.node
      /\ work'.copy = v /\ work'.current = FALSE
    BY <1>1, <1>2, <1>4 DEF ToProvider, Inv, TypeOK, Works
<1>6. UNCHANGED <<group, kube, cache, edits>>
    BY DEF SetControllerReference
<1>7. TypeOK'
    BY <1>1, <1>2, <1>3, <1>5, <1>6 DEF Inv, TypeOK, cache
<1>8. LatestIsTrue'
    BY <1>1, <1>3, <1>6 DEF Inv, TypeOK, LatestIsTrue, cache
<1>9. WorkOk'
    BY <1>1, <1>2, <1>5 DEF WorkOk
<1> QED BY <1>7, <1>8, <1>9 DEF Inv

\* The steps of Reconcile keep the invariant.
LEMMA ReconcileInv == Inv /\ ReconcileGoesOn => Inv'
<1> SUFFICES ASSUME Inv, ReconcileGoesOn PROVE Inv'
    OBVIOUS
<1>0. work.pc # "idle" => work.node \in Nodes /\ work.copy \in NodeObjects
    BY DEF Inv, WorkOk
<1>1. CASE LabelGroup
  <2>1. kube' \in [Kubes -> KubeObjects \union {None}]
      BY <1>0, <1>1, PatchType DEF LabelGroup, NodeObjects
  <2> QED BY <1>1, <2>1, GotoInv DEF LabelGroup
<1>2. CASE LabelNode
  <2>1. kube' \in [Kubes -> KubeObjects \union {None}]
      BY <1>0, <1>2, PatchType DEF LabelNode, NodeObjects
  <2> QED BY <1>2, <2>1, GotoInv DEF LabelNode
<1>3. CASE GetGroup
  <2> DEFINE seen == seenGroup[work.copy.group]
  <2>1. CASE seen.exists
    <3>1. /\ work' \in Works /\ work'.node = work.node
          /\ work'.copy = work.copy /\ work'.current = work.current
        BY <1>0, <1>3, <2>1 DEF GetGroup, Inv, TypeOK, Works, NodeObjects, GroupObjects
    <3> QED BY <1>0, <1>3, <3>1 DEF GetGroup, Inv, TypeOK, LatestIsTrue, WorkOk, api, cache
  <2>2. CASE ~seen.exists
      BY <1>3, <2>2, EndsInv DEF GetGroup
  <2> QED BY <2>1, <2>2
<1>4. CASE SetControllerReference
    BY <1>4, SetOwnerInv
<1>5. CASE OwnerIsSet
  <2>1. /\ work' \in Works /\ work'.node = work.node
        /\ work'.copy = work.copy /\ work'.current = FALSE
      BY <1>5 DEF OwnerIsSet, ToProvider, Inv, TypeOK, Works
  <2> QED BY <1>0, <1>5, <2>1 DEF OwnerIsSet, Inv, TypeOK, LatestIsTrue, WorkOk, api, cache
<1>6. CASE OwnerFails
    BY <1>6, EndsInv DEF OwnerFails
<1>7. CASE SetProviderID
  <2>1. kube' \in [Kubes -> KubeObjects \union {None}]
      BY <1>0, <1>7 DEF SetProviderID, Inv, TypeOK, NodeObjects, KubeObjects
  <2> QED BY <1>7, <2>1, GotoInv DEF SetProviderID
<1>8. CASE Operate
    BY <1>8, EndsInv DEF Operate
<1> QED BY <1>1, <1>2, <1>3, <1>4, <1>5, <1>6, <1>7, <1>8 DEF ReconcileGoesOn

\* Every step keeps the invariant.
LEMMA NextInv == Inv /\ [Next]_vars => Inv'
<1> SUFFICES ASSUME Inv, [Next]_vars PROVE Inv'
    OBVIOUS
<1>1. CASE UNCHANGED vars
    BY <1>1 DEF vars, Inv, TypeOK, LatestIsTrue, WorkOk
<1>2. CASE Next
    BY <1>2, EditsInv, ClusterInv, BeginsInv, ReconcileInv DEF Next
<1> QED BY <1>1, <1>2

\* The invariant holds throughout.
LEMMA InvAlways == Spec => []Inv
<1>1. Init => Inv
    BY InitInv
<1>2. Inv /\ [Next]_vars => Inv'
    BY NextInv
<1> QED BY <1>1, <1>2, PTL DEF Spec

\* Every variable keeps its type: the objects, their cached copies and the worker, for
\* any number of Nodes, Kubernetes nodes, Groups and edits.
THEOREM TypeCorrect == Spec => []TypeOK
<1>1. Inv => TypeOK
    BY DEF Inv
<1> QED BY <1>1, InvAlways, PTL

----------------------------------------------------------------------------
OwnerStep ==
    \A n \in Nodes :
       cr'[n] # None /\ cr'[n].owner # None /\ (cr[n] = None \/ cr[n].owner # cr'[n].owner)
          => cr'[n].owner.group = cr'[n].group

\* A write that leaves the owner of Node m alone, or writes none.
LEMMA OwnerKept ==
    ASSUME Inv, NEW m \in Nodes, NEW v, Put(m, v),
           v = None \/ v.owner = None \/ (cr[m] # None /\ v.owner = cr[m].owner)
    PROVE  OwnerStep
BY DEF Inv, TypeOK, Put, OwnerStep

\* The owner of a Node changes in the Update of SetControllerReference only, whose copy
\* is then what the API server holds.
LEMMA NextOwner == Inv /\ [Next]_vars => OwnerStep
<1> SUFFICES ASSUME Inv, [Next]_vars PROVE OwnerStep
    OBVIOUS
<1>1. CASE UNCHANGED cr
    BY <1>1 DEF OwnerStep
<1>2. ASSUME NEW n \in Nodes, NEW g \in Groups, NEW k \in Kubes, CreateNode(n, g, k)
      PROVE  OwnerStep
    BY <1>2, OwnerKept DEF CreateNode, PutByOther, NewNode
<1>3. ASSUME NEW n \in Nodes, NEW g \in Groups, NEW k \in Kubes, UpdateNode(n, g, k)
      PROVE  OwnerStep
  <2>1. /\ cr[n] # None
        /\ [cr[n] EXCEPT !.group = g, !.kube = k].owner = cr[n].owner
      BY <1>3 DEF UpdateNode, Inv, TypeOK, NodeObjects
  <2> QED BY <1>3, <2>1, OwnerKept DEF UpdateNode, PutByOther
<1>4. ASSUME NEW n \in Nodes, DeleteNode(n) \/ GarbageCollect(n)
      PROVE  OwnerStep
    BY <1>4, OwnerKept DEF DeleteNode, GarbageCollect, PutByOther
<1>5. CASE SetControllerReference
  <2> DEFINE v == [work.copy EXCEPT !.owner = Owner]
  <2>1. work.node \in Nodes /\ work.copy \in NodeObjects
      BY <1>5 DEF SetControllerReference, Inv, WorkOk
  <2>2. cr' = [cr EXCEPT ![work.node] = v]
      BY <1>5 DEF SetControllerReference, Put
  <2>3. v.owner.group = v.group
      BY <2>1 DEF Owner, NodeObjects
  <2> QED BY <2>1, <2>2, <2>3 DEF Inv, TypeOK, OwnerStep
<1>6. CASE \/ UNCHANGED vars
           \/ LabelGroup \/ LabelNode \/ GetGroup \/ OwnerIsSet \/ OwnerFails
           \/ SetProviderID \/ Operate
    BY <1>1, <1>6
       DEF vars, LabelGroup, LabelNode, GetGroup, OwnerIsSet, OwnerFails, SetProviderID,
           Operate, api
<1>7. CASE \/ \E n \in Nodes : WatchNode(n) \/ ReconcileBegins(n)
           \/ \E g \in Groups : \/ CreateGroup(g) \/ DeleteGroup(g)
                                \/ WatchGroup(g) \/ ReconcileGroup(g)
           \/ \E k \in Kubes : RegisterKube(k) \/ WatchKube(k)
    BY <1>1, <1>7
       DEF WatchNode, ReconcileBegins, CreateGroup, DeleteGroup, WatchGroup, ReconcileGroup,
           RegisterKube, WatchKube, api
<1> QED BY <1>2, <1>3, <1>4, <1>5, <1>6, <1>7 DEF Next, Edits, ReconcileGoesOn

\* An owner reference is only ever written to a Node that carries the label of that Group
\* at that moment, however stale the copies are that the worker reads.
THEOREM OwnerIsOfLabel == Spec => OwnerFollowsLabel
<1>1. Inv /\ [Next]_vars => [OwnerStep]_vars
    BY NextOwner
<1>2. [][OwnerStep]_vars => OwnerFollowsLabel
    BY PTL DEF OwnerStep, OwnerFollowsLabel
<1> QED BY <1>1, <1>2, InvAlways, PTL DEF Spec
----------------------------------------------------------------------------
(* Reconciling Nodes is idempotent *)

\* Node n is owned by the Group of its label, as that is now, and its Kubernetes node bears
\* its labels and a provider ID.
Tied(n) ==
    LET k == kube[cr[n].kube]
        g == cr[n].group
    IN  /\ Registered(n) /\ Sole(n)
        /\ cr[n].owner = [group |-> g, uid |-> group[g].uid]
        /\ k.group = g /\ k.node = n /\ k.provider # None

\* Every Node is tied, every Group is loaded, and caches and worker have seen it.
Synced == seenGroup = group /\ seenCr = cr /\ seenKube = kube /\ latest = Nodes
AtFixpoint ==
    /\ Synced
    /\ \A n \in Nodes : cr[n] # None => Tied(n)
    /\ \A g \in Groups : group[g].exists => group[g].loaded
    /\ work.pc # "idle" => cr[work.node] # None /\ work.copy = cr[work.node]
    /\ work.pc = "own" => work.uid = group[work.copy.group].uid

\* No pass of a controller changes a Node or a Kubernetes node any more.  Nothing is said of
\* the Groups: each pass of their controller renews a time stamp.
FixpointStep == AtFixpoint /\ edits' = edits => AtFixpoint' /\ UNCHANGED <<cr, kube>>

\* Only the worker moves, and what it holds of Node and Group is what they are.
LEMMA WorkerMoves ==
    ASSUME AtFixpoint, UNCHANGED <<api, cache, latest>>,
           work'.pc # "idle" => cr[work'.node] # None /\ work'.copy = cr[work'.node],
           work'.pc = "own" => work'.uid = group[work'.copy.group].uid
    PROVE  AtFixpoint' /\ UNCHANGED <<cr, kube>>
<1>1. UNCHANGED <<group, cr, kube>> /\ Synced'
    BY DEF AtFixpoint, Synced, api, cache
<1>2. \A n \in Nodes : cr[n] # None => Tied(n)'
    BY <1>1 DEF AtFixpoint, Tied, Registered, Sole
<1> QED BY <1>1, <1>2 DEF AtFixpoint, api

\* A step to another place in Reconcile than the one where the owner is set.
LEMMA WorkerGoes ==
    ASSUME Inv, AtFixpoint, work.pc # "idle", kube' = kube,
           NEW pc \in {"labelNode", "group", "operate"}, Goto(pc),
           UNCHANGED <<group, cr, cache, latest, edits>>
    PROVE  AtFixpoint' /\ UNCHANGED <<cr, kube>>
<1>1. work'.pc = pc /\ work'.node = work.node /\ work'.copy = work.copy
    BY DEF Goto, Inv, TypeOK, Works
<1>2. UNCHANGED <<api, cache, latest>>
    BY DEF api
<1> QED BY <1>1, <1>2, WorkerMoves DEF AtFixpoint

\* The end of a Reconcile.
LEMMA WorkerEnds ==
    ASSUME AtFixpoint, work' = Idle, UNCHANGED <<api, cache, latest, edits>>
    PROVE  AtFixpoint' /\ UNCHANGED <<cr, kube>>
<1>1. work'.pc = "idle"
    BY DEF Idle
<1> QED BY <1>1, WorkerMoves

\* What the worker has in its hands: the copy is the Node, and its ties are as they should
\* be, in the API server and in the cache.
LEMMA CopyIsTied ==
    ASSUME Inv, AtFixpoint, work.pc # "idle"
    PROVE  /\ work.node \in Nodes /\ work.copy = cr[work.node]
           /\ work.copy \in NodeObjects /\ cr[work.node] # None
           /\ group[work.copy.group].exists
           /\ work.copy.owner = [group |-> work.copy.group, uid |-> group[work.copy.group].uid]
           /\ seenGroup = group /\ seenKube = kube /\ kube[work.copy.kube] # None
           /\ kube[work.copy.kube].group = work.copy.group
           /\ kube[work.copy.kube].node = work.node
           /\ kube[work.copy.kube].provider # None
<1>1. work.node \in Nodes /\ work.copy \in NodeObjects
    BY DEF Inv, WorkOk
<1>2. work.copy = cr[work.node] /\ cr[work.node] # None /\ Tied(work.node)
    BY <1>1 DEF AtFixpoint
<1> QED BY <1>1, <1>2 DEF Tied, Registered, AtFixpoint, Synced

\* At a fixpoint nobody has anything to write.  The patches are empty, the owner reference
\* is there already, and the provider ID is set; informers and garbage collector have nothing
\* to do, and the Group controller marks as loaded what is.
LEMMA NextAtFixpoint == Inv /\ [Next]_vars => FixpointStep
<1> SUFFICES ASSUME Inv, [Next]_vars, AtFixpoint, edits' = edits
             PROVE  AtFixpoint' /\ UNCHANGED <<cr, kube>>
    BY DEF FixpointStep
<1>1. CASE UNCHANGED vars
  <2>1. UNCHANGED <<api, cache, latest>> /\ work' = work
      BY <1>1 DEF vars, api, cache
  <2> QED BY <2>1, WorkerMoves DEF AtFixpoint
<1>2. ~Edits
  <2>1. SUFFICES ASSUME Edit PROVE FALSE
      BY <2>1, Zenon
         DEF Edits, CreateNode, UpdateNode, DeleteNode, CreateGroup, DeleteGroup, RegisterKube
  <2>2. edits \in Nat /\ edits' = edits + 1
      BY <2>1, EditsAssumption DEF Edit, Inv, TypeOK
  <2> QED BY <2>2
<1>3. ASSUME NEW n \in Nodes
      PROVE  ~WatchNode(n) /\ ~GarbageCollect(n)
  <2>1. ~WatchNode(n)
      BY DEF WatchNode, AtFixpoint, Synced
  <2>2. cr[n] # None =>
          /\ cr[n].owner = [group |-> cr[n].group, uid |-> group[cr[n].group].uid]
          /\ group[cr[n].group].exists
      BY Zenon DEF AtFixpoint, Tied, Registered
  <2> QED BY <2>1, <2>2 DEF GarbageCollect
<1>4. \A g \in Groups : ~WatchGroup(g)
    BY DEF WatchGroup, AtFixpoint, Synced
<1>15. ASSUME NEW g \in Groups, ReconcileGroup(g)
       PROVE  AtFixpoint' /\ UNCHANGED <<cr, kube>>
  <2>1. group[g] \in GroupObjects /\ group[g].loaded /\ group \in [Groups -> GroupObjects]
      BY <1>15 DEF ReconcileGroup, AtFixpoint, Inv, TypeOK
  <2>2. group' = group
      BY <1>15, <2>1 DEF ReconcileGroup, GroupObjects
  <2>3. UNCHANGED <<api, cache, latest>> /\ work' = work
      BY <1>15, <2>2 DEF ReconcileGroup, api
  <2> QED BY <2>3, WorkerMoves DEF AtFixpoint
<1>5. \A k \in Kubes : ~WatchKube(k)
    BY DEF WatchKube, AtFixpoint, Synced
<1>6. ASSUME NEW n \in Nodes, ReconcileBegins(n)
      PROVE  AtFixpoint' /\ UNCHANGED <<cr, kube>>
  <2>1. /\ work'.pc = "labelGroup" /\ work'.node = n /\ work'.copy = seenCr[n]
        /\ seenCr[n] # None
      BY <1>6 DEF ReconcileBegins
  <2>2. seenCr = cr /\ UNCHANGED <<api, cache, latest>>
      BY <1>6 DEF ReconcileBegins, AtFixpoint, Synced
  <2> QED BY <2>1, <2>2, WorkerMoves
<1>7. CASE LabelGroup
  <2>1. work.pc # "idle" /\ kube' = kube
      BY <1>7, CopyIsTied DEF LabelGroup, PatchKube
  <2> QED BY <1>7, <2>1, WorkerGoes DEF LabelGroup
<1>8. CASE LabelNode
  <2>1. work.pc # "idle" /\ kube' = kube
      BY <1>8, CopyIsTied DEF LabelNode, PatchKube
  <2> QED BY <1>8, <2>1, WorkerGoes DEF LabelNode
<1>9. CASE GetGroup
  <2>1. /\ seenGroup = group /\ group[work.copy.group].exists
        /\ work.copy = cr[work.node] /\ cr[work.node] # None
      BY <1>9, CopyIsTied DEF GetGroup
  <2>2. work' = [work EXCEPT !.pc = "own", !.uid = group[work.copy.group].uid]
      BY <1>9, <2>1 DEF GetGroup
  <2>3. /\ work'.node = work.node /\ work'.copy = work.copy
        /\ work'.uid = group[work.copy.group].uid
      BY <2>2 DEF Inv, TypeOK, Works
  <2> QED BY <1>9, <2>1, <2>3, WorkerMoves DEF GetGroup
<1>10. work.pc = "own" => work.copy.owner = Owner
    BY CopyIsTied DEF Owner, AtFixpoint
<1>11. CASE SetControllerReference \/ OwnerFails
    BY <1>10, <1>11 DEF SetControllerReference, OwnerFails
<1>12. CASE OwnerIsSet
  <2>1. work.pc # "idle" /\ work' = ToProvider
      BY <1>12 DEF OwnerIsSet
  <2>2. work'.pc = "provider" /\ work'.node = work.node /\ work'.copy = work.copy
      BY <2>1 DEF ToProvider, Inv, TypeOK, Works
  <2> QED BY <1>12, <2>1, <2>2, CopyIsTied, WorkerMoves DEF OwnerIsSet
<1>13. CASE SetProviderID
  <2>1. work.pc # "idle" /\ kube' = kube
      BY <1>13, CopyIsTied DEF SetProviderID
  <2> QED BY <1>13, <2>1, WorkerGoes DEF SetProviderID
<1>14. CASE Operate
    BY <1>14, WorkerEnds DEF Operate
<1> QED BY <1>1, <1>2, <1>3, <1>4, <1>5, <1>6, <1>7, <1>8, <1>9, <1>11, <1>12, <1>13, <1>14,
       <1>15 DEF Next, ReconcileGoesOn

\* Once all ties are as the Nodes and Groups ask for, Nodes and Kubernetes nodes stay as they
\* are until somebody edits one, wherever in a Reconcile the worker is: the node controller
\* sends only empty patches and finds owner and provider ID set, so that it does not trigger
\* itself, and neither the garbage collector nor the Group controller disturbs it.
NodesSettle == [][FixpointStep]_vars
THEOREM ReconcileSettles == Spec => NodesSettle
<1>1. Inv /\ [Next]_vars => [FixpointStep]_vars
    BY NextAtFixpoint
<1> QED BY <1>1, InvAlways, PTL DEF Spec, NodesSettle
=============================================================================
