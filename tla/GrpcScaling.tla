---------------------------- MODULE GrpcScaling ----------------------------
(***************************************************************************)
(* The gRPC calls that resize groups of Nodes                              *)
(* (internal/grpcserver/server.go) over an API server that versions its    *)
(* objects and an informer cache that lags behind it.  A call lists or     *)
(* gets Nodes from the cache and updates them one by one; each update is   *)
(* conditional on the version that was read.  Meanwhile the controllers    *)
(* write power and progress (as NodeObject allows them to), Nodes are      *)
(* moved between groups, and other calls run, the abandoned ones of a      *)
(* client that has timed out included.                                     *)
(***************************************************************************)
EXTENDS NodeFsm, Integers, FiniteSets

CONSTANTS
    Nodes,      \* names of Node objects
    Groups,     \* group names
    Calls,      \* handlers that may run at the same time
    None,       \* neither a Node nor a Group
    Deltas,     \* sizes of a decrease
    MaxCalls,   \* bound on the calls made
    MaxWrites   \* bound on the updates by controllers and administrators

ASSUME NoneAssumption == None \notin Nodes \union Groups
ASSUME DeltasAssumption == Deltas \subseteq Nat \ {0}
ASSUME BoundsAssumption == MaxCalls \in Nat /\ MaxWrites \in Nat
ASSUME NodesAssumption == IsFiniteSet(Nodes)

VARIABLES
    node,       \* node[n]: the Node object in the API server
    cache,      \* cache[n]: its copy in the informer cache
    synced,     \* the Nodes whose cached copy is of the latest version
    call,       \* call[c]: where handler c is
    calls, writes   \* how much of each bound is used

vars == <<node, cache, synced, call, calls, writes>>

NodeObjects == [group : Groups, desired : PowerStates, power : PowerStates \union {""},
                progress : Progresses]

\* todo: Nodes still to be dealt with; cur: the one being dealt with; left: how many of
\* todo are to be told off; current: the copies held that are of the latest version.
Call(op, group, todo, cur, left, current) ==
    [op |-> op, group |-> group, todo |-> todo, cur |-> cur, left |-> left,
     current |-> current]
NoCall == Call("none", None, {}, None, 0, {})
CallRecords == [op : {"none", "increase", "delete", "decrease"}, group : Groups \union {None},
                todo : SUBSET Nodes, cur : Nodes \union {None}, left : Nat,
                current : SUBSET Nodes]

TypeOK ==
    /\ node \in [Nodes -> NodeObjects]
    /\ cache \in [Nodes -> NodeObjects]
    /\ synced \in SUBSET Nodes
    /\ call \in [Calls -> CallRecords]
    /\ calls \in 0..MaxCalls /\ writes \in 0..MaxWrites

\* A Node between two operations, in one, or just created.
Resting == {<<PowerStateOn, PowerStateOn, StateReady>>,
            <<PowerStateOff, PowerStateOff, StateShutdown>>,
            <<PowerStateOn, PowerStateOff, StateStartingUp>>,
            <<PowerStateOn, "", NoProgress>>}

Init ==
    /\ node \in [Nodes -> {[group |-> g, desired |-> r[1], power |-> r[2], progress |-> r[3]] :
                             g \in Groups, r \in Resting}]
    /\ cache = node /\ synced = Nodes
    /\ call = [c \in Calls |-> NoCall]
    /\ calls = 0 /\ writes = 0

----------------------------------------------------------------------------
(* The API server and the cache *)

\* n becomes v.  If that changes anything, the cached copy and those that calls hold
\* are no longer the latest; c, which wrote, goes on as "after" and got the new version.
Put(n, v, c, after) ==
    LET changed == IF v = node[n] THEN {} ELSE {n}
    IN  /\ node' = [node EXCEPT ![n] = v]
        /\ synced' = synced \ changed
        /\ call' = [d \in Calls |-> IF d = c THEN after
                                    ELSE [call[d] EXCEPT !.current = @ \ changed]]

\* The version test of an Update: the copy written back must be the latest.
IsCurrent(c, n) == n \in call[c].current

\* The informer hears of the latest version.
Watch(n) ==
    /\ n \notin synced
    /\ cache' = [cache EXCEPT ![n] = node[n]]
    /\ synced' = synced \union {n}
    /\ UNCHANGED <<node, call, calls, writes>>

\* Faulty variant: the list has no label selector.
AllNodes(g) == Nodes

\* Nodes with the label group = g, as List finds them in the cache.
Members(g) == {n \in Nodes : cache[n].group = g}

Begin(c) == call[c].op = "none" /\ calls < MaxCalls /\ calls' = calls + 1

----------------------------------------------------------------------------
(* NodeGroupTargetSize: counts whatever is not shut down or shutting down *)

\* Faulty variant: the Nodes listed are counted without regard to their progress.
TargetSizeCountsAll(g) == Cardinality(Members(g))

NodeGroupTargetSize(g) ==
    Cardinality({n \in Members(g) : cache[n].progress \notin {StateShuttingDown, StateShutdown}})

----------------------------------------------------------------------------
(* NodeGroupIncreaseSize: one powered-off Node is asked to start; of delta only *)
(* the sign is looked at.                                                       *)

\* Faulty variant: the recorded power is not looked at.
OffByProgress(v) == v.desired = PowerStateOff /\ v.progress = StateShutdown

PoweredOff(v) == /\ v.desired = PowerStateOff
                 /\ v.power = PowerStateOff
                 /\ v.progress = StateShutdown

\* List gives the Nodes in no particular order, the first that fits is taken.  Without
\* one the call fails and changes nothing.
NodeGroupIncreaseSize(c, g) ==
    /\ Begin(c)
    /\ \E n \in Members(g) :
          /\ PoweredOff(cache[n])
          /\ call' = [call EXCEPT ![c] = Call("increase", g, {}, n, 0, {n} \intersect synced)]
    /\ UNCHANGED <<node, cache, synced, writes>>

IncreaseUpdates(c) ==
    LET n == call[c].cur
    IN  /\ call[c].op = "increase"
        /\ IsCurrent(c, n)
        /\ Put(n, [node[n] EXCEPT !.desired = PowerStateOn], c, NoCall)
        /\ UNCHANGED <<cache, calls, writes>>

----------------------------------------------------------------------------
(* NodeGroupDeleteNodes: a Get and an Update for each Node named *)

\* Whether the Nodes named are in the group named is not looked at.
NodeGroupDeleteNodes(c, g, names) ==
    /\ Begin(c)
    /\ call' = [call EXCEPT ![c] = Call("delete", g, names, None, 0, {})]
    /\ UNCHANGED <<node, cache, synced, writes>>

DeleteGets(c) ==
    /\ call[c].op = "delete" /\ call[c].cur = None
    /\ \E n \in call[c].todo :
          call' = [call EXCEPT ![c].todo = @ \ {n}, ![c].cur = n,
                               ![c].current = {n} \intersect synced]
    /\ UNCHANGED <<node, cache, synced, calls, writes>>

DeleteUpdates(c) ==
    LET n == call[c].cur
    IN  /\ call[c].op = "delete" /\ n # None
        /\ IsCurrent(c, n)
        /\ Put(n, [node[n] EXCEPT !.desired = PowerStateOff], c,
               IF call[c].todo = {} THEN NoCall
               ELSE Call("delete", call[c].group, call[c].todo, None, 0, {}))
        /\ UNCHANGED <<cache, calls, writes>>

----------------------------------------------------------------------------
(* NodeGroupDecreaseTargetSize: Nodes that are starting up are told off *)

Running(v) == /\ v.desired = PowerStateOn
              /\ v.power = PowerStateOn
              /\ v.progress = StateReady

\* Faulty variant: the recorded power is not looked at.
StartingByProgress(v) == v.desired = PowerStateOn /\ v.progress = StateStartingUp

Starting(v) == /\ v.desired = PowerStateOn
               /\ v.power = PowerStateOff
               /\ v.progress = StateStartingUp

AtLeast0(i) == IF i < 0 THEN 0 ELSE i

\* How many of s starting Nodes go, with r Nodes running and delta = -d.
nodesToShutdown(r, s, d) ==
    LET newDesiredSize == AtLeast0(r - d)
    IN  AtLeast0(s - newDesiredSize)

NodeGroupDecreaseTargetSize(c, g, d) ==
    LET poweredOnNodes == {n \in Members(g) : Running(cache[n])}
        startingUpNodes == {n \in Members(g) : Starting(cache[n])}
        toShutdown == nodesToShutdown(Cardinality(poweredOnNodes),
                                      Cardinality(startingUpNodes), d)
    IN  /\ Begin(c)
        /\ toShutdown > 0
        /\ call' = [call EXCEPT ![c] = Call("decrease", g, startingUpNodes, None, toShutdown,
                                            startingUpNodes \intersect synced)]
        /\ UNCHANGED <<node, cache, synced, writes>>

\* First the spec of one of them.  The code takes the oldest LastStartupTime first; which
\* of them that is is left open.
DecreaseUpdatesSpec(c) ==
    /\ call[c].op = "decrease" /\ call[c].cur = None
    /\ \E n \in call[c].todo :
          /\ IsCurrent(c, n)
          /\ Put(n, [node[n] EXCEPT !.desired = PowerStateOff], c,
                 [call[c] EXCEPT !.todo = @ \ {n}, !.cur = n])
    /\ UNCHANGED <<cache, calls, writes>>

\* Faulty variant: the power state is written where the progress belongs.
DecreaseWritesPower(c) ==
    LET n == call[c].cur
    IN  /\ call[c].op = "decrease" /\ n # None
        /\ IsCurrent(c, n)
        /\ Put(n, [node[n] EXCEPT !.progress = PowerStateOff], c,
               IF call[c].left = 1 THEN NoCall
               ELSE [call[c] EXCEPT !.left = @ - 1, !.cur = None])
        /\ UNCHANGED <<cache, calls, writes>>

\* Then its status, with the version the first update returned.  If this fails, of whatever
\* reason, the call ends with the spec written alone (ReturnsError).
DecreaseUpdatesStatus(c) ==
    LET n == call[c].cur
    IN  /\ call[c].op = "decrease" /\ n # None
        /\ IsCurrent(c, n)
        /\ Put(n, [node[n] EXCEPT !.progress = StateShuttingDown], c,
               IF call[c].left = 1 THEN NoCall
               ELSE [call[c] EXCEPT !.left = @ - 1, !.cur = None])
        /\ UNCHANGED <<cache, calls, writes>>

\* Any call may end with an error between two updates, and what it has done stays: a
\* version conflict, a Node that is not there, a refusal by the webhook, the context of
\* the client, the answer to an update that was applied, a restart.
ReturnsError(c) ==
    /\ call[c].op # "none"
    /\ call' = [call EXCEPT ![c] = NoCall]
    /\ UNCHANGED <<node, cache, synced, calls, writes>>

----------------------------------------------------------------------------
(* Everybody else.  These updates reread and retry, so each is one step. *)

OtherUpdate(n, v) ==
    /\ writes < MaxWrites /\ writes' = writes + 1
    /\ v # node[n]
    /\ Put(n, v, None, NoCall)
    /\ UNCHANGED <<cache, calls>>

\* The hooks of the state machine.
WriteProgress(n) ==
    \E s \in States :
       /\ IsTransitionalState(s) => ~IsTransitionalState(node[n].progress)
       /\ OtherUpdate(n, [node[n] EXCEPT !.progress = s])

\* The controller of Kubernetes nodes.
Mirror(n) ==
    \E p \in PowerStates \ {node[n].power} :
       OtherUpdate(n, [node[n] EXCEPT !.power = p,
                          !.progress = IF IsTransitionalState(@) THEN @
                                       ELSE IF p = PowerStateOn THEN StateReady
                                       ELSE StateShutdown])

\* An administrator changes the group label.
Relabel(n) == \E g \in Groups : OtherUpdate(n, [node[n] EXCEPT !.group = g])

----------------------------------------------------------------------------
CallBegins(c) ==
    \E g \in Groups :
       \/ NodeGroupIncreaseSize(c, g)
       \/ \E names \in SUBSET Nodes \ {{}} : NodeGroupDeleteNodes(c, g, names)
       \/ \E d \in Deltas : NodeGroupDecreaseTargetSize(c, g, d)

CallGoesOn(c) ==
    \/ IncreaseUpdates(c)
    \/ DeleteGets(c) \/ DeleteUpdates(c)
    \/ DecreaseUpdatesSpec(c) \/ DecreaseUpdatesStatus(c)
    \/ ReturnsError(c)

Next ==
    \/ \E c \in Calls : CallBegins(c) \/ CallGoesOn(c)
    \/ \E n \in Nodes : Watch(n) \/ WriteProgress(n) \/ Mirror(n) \/ Relabel(n)

Spec == Init /\ [][Next]_vars

\* Informers catch up and handlers return; nobody has to call or to write.
FairSpec ==
    /\ Spec
    /\ \A n \in Nodes : WF_vars(Watch(n))
    /\ \A c \in Calls : WF_vars(CallGoesOn(c))

----------------------------------------------------------------------------
(* Properties *)

\* "This function doesn't permit to delete any existing node" (externalgrpc.proto,
\* NodeGroupDecreaseTargetSize): a Node whose power has been seen on, or whose startup has
\* ended, since the call listed it is not touched.
RunningNotDecreased ==
    [][\A c \in Calls :
          DecreaseUpdatesSpec(c) \/ DecreaseUpdatesStatus(c) =>
             \A n \in Nodes : node'[n] # node[n] =>
                node[n].power = PowerStateOff /\ node[n].progress = StateStartingUp]_vars

\* An increase and a decrease change Nodes of the group they name only, also when Nodes
\* change groups while they run.
OwnGroupOnly ==
    [][\A c \in Calls :
          IncreaseUpdates(c) \/ DecreaseUpdatesSpec(c) \/ DecreaseUpdatesStatus(c) =>
             \A n \in Nodes : node'[n] # node[n] => node[n].group = call[c].group]_vars

\* Each Node only goes through the updates of NodeObject: no two increases are granted
\* the same Node, and none switches on a Node that is not off.
Object(n) == INSTANCE NodeObject WITH desired <- node[n].desired, power <- node[n].power,
                                      progress <- node[n].progress
ObjectSpec ==
    /\ \A n \in Nodes : Object(n)!Init
    /\ [][\A n \in Nodes : [Object(n)!Next]_(Object(n)!vars)]_vars

\* "should be equal to the size of a node group once everything stabilizes"
\* (externalgrpc.proto, NodeGroupTargetSize): when the Nodes of a group have come to rest
\* as desired, the size reported is the number of those that are on.
AtRest(v) == /\ v.power = v.desired
             /\ v.progress = IF v.desired = PowerStateOn THEN StateReady ELSE StateShutdown
Stable(g) == \A n \in Nodes : node[n].group = g => AtRest(node[n])
Size(g) == Cardinality({n \in Nodes : node[n].group = g /\ node[n].power = PowerStateOn})
TargetSizeStabilizes ==
    \A g \in Groups : <>[]Stable(g) => <>[](NodeGroupTargetSize(g) = Size(g))

\* "Number of nodes to delete" (externalgrpc.proto, delta of the decrease): no more Nodes
\* are told off than the caller asks for.
NoMoreThanAsked ==
    [][\A c \in Calls, g \in Groups, d \in Deltas :
          NodeGroupDecreaseTargetSize(c, g, d) => call'[c].left <= d]_vars
=============================================================================
