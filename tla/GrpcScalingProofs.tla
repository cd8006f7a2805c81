------------------------ MODULE GrpcScalingProofs ------------------------
(***************************************************************************)
(* Proofs about GrpcScaling, for any number of Nodes, groups and calls.    *)
(***************************************************************************)
EXTENDS GrpcScaling, FiniteSetTheorems, TLAPS

(***************************************************************************)
(* What a call may rely on: a copy it holds that is still the latest shows *)
(* the Node as it is, hence as it was when it was chosen.                  *)
(***************************************************************************)

CacheIsTrue == \A n \in synced : cache[n] = node[n]

\* The Node chosen by an increase.
IncreaseOk(c) ==
    call[c].op = "increase" =>
        /\ call[c].cur \in Nodes
        /\ call[c].cur \in call[c].current =>
              PoweredOff(node[call[c].cur]) /\ node[call[c].cur].group = call[c].group

\* The Nodes a decrease has still to deal with, and the one between its two updates.
DecreaseOk(c) ==
    call[c].op = "decrease" =>
        /\ call[c].left > 0
        /\ call[c].cur \notin call[c].todo
        /\ \A n \in call[c].todo \intersect call[c].current :
              Starting(node[n]) /\ node[n].group = call[c].group
        /\ call[c].cur \in call[c].current =>
              /\ node[call[c].cur].desired = PowerStateOff
              /\ node[call[c].cur].power = PowerStateOff
              /\ node[call[c].cur].progress = StateStartingUp
              /\ node[call[c].cur].group = call[c].group

CallOk(c) == IncreaseOk(c) /\ DecreaseOk(c)

Inv == TypeOK /\ CacheIsTrue /\ \A c \in Calls : CallOk(c)

(***************************************************************************)
(* Records and sizes                                                       *)
(***************************************************************************)

LEMMA MembersFinite == \A S \in SUBSET Nodes : Cardinality(S) \in Nat
BY NodesAssumption, FS_Subset, FS_CardinalityType

LEMMA ToShutdownType ==
    ASSUME NEW r \in Nat, NEW s \in Nat, NEW d \in Nat
    PROVE  nodesToShutdown(r, s, d) \in Nat
BY DEF nodesToShutdown, AtLeast0

LEMMA CallType ==
    ASSUME NEW op \in {"increase", "delete", "decrease"}, NEW g \in Groups,
           NEW todo \in SUBSET Nodes, NEW cur \in Nodes \union {None}, NEW left \in Nat,
           NEW current \in SUBSET Nodes
    PROVE  Call(op, g, todo, cur, left, current) \in CallRecords
BY DEF Call, CallRecords

LEMMA NoCallType == NoCall \in CallRecords /\ NoCall.op = "none"
BY DEF NoCall, Call, CallRecords

LEMMA DesiredType ==
    ASSUME NEW o \in NodeObjects, NEW p \in PowerStates
    PROVE  [o EXCEPT !.desired = p] \in NodeObjects
BY DEF NodeObjects

(***************************************************************************)
(* Updates                                                                 *)
(***************************************************************************)

\* A call that keeps its fields, and whose latest copies are among the earlier ones and
\* of Nodes that have not changed, may still rely on them.
LEMMA KeepsOk ==
    ASSUME NEW c \in Calls, TypeOK, CallOk(c),
           \E cur \in SUBSET call[c].current :
              /\ call'[c] = [call[c] EXCEPT !.current = cur]
              /\ \A m \in cur : node'[m] = node[m]
    PROVE  CallOk(c)'
<1>1. PICK cur \in SUBSET call[c].current :
              /\ call'[c] = [call[c] EXCEPT !.current = cur]
              /\ \A m \in cur : node'[m] = node[m]
  OBVIOUS
<1>2. call[c] \in CallRecords
  BY DEF TypeOK
<1>3. /\ call'[c].op = call[c].op /\ call'[c].group = call[c].group
      /\ call'[c].todo = call[c].todo /\ call'[c].cur = call[c].cur
      /\ call'[c].left = call[c].left /\ call'[c].current = cur
  BY <1>1, <1>2 DEF CallRecords
<1>4. IncreaseOk(c)'
  BY <1>1, <1>3 DEF CallOk, IncreaseOk, PoweredOff
<1>5. DecreaseOk(c)'
  BY <1>1, <1>3 DEF CallOk, DecreaseOk, Starting
<1> QED
  BY <1>4, <1>5 DEF CallOk

LEMMA PutLemma ==
    ASSUME Inv, NEW n \in Nodes, NEW v \in NodeObjects, NEW c \in Calls \union {None},
           NEW after \in CallRecords, Put(n, v, c, after), cache' = cache
    PROVE  /\ node' \in [Nodes -> NodeObjects] /\ node' = [node EXCEPT ![n] = v]
           /\ synced' \in SUBSET Nodes
           /\ call' \in [Calls -> CallRecords]
           /\ CacheIsTrue'
           /\ \A d \in Calls \ {c} : CallOk(d)'
           /\ c \in Calls => call'[c] = after
<1> USE DEF Inv
<1> DEFINE changed == IF v = node[n] THEN {} ELSE {n}
<1>1. /\ node' = [node EXCEPT ![n] = v]
      /\ synced' = synced \ changed
      /\ call' = [d \in Calls |-> IF d = c THEN after
                                  ELSE [call[d] EXCEPT !.current = @ \ changed]]
  BY DEF Put
<1>2. \A m \in Nodes \ changed : node'[m] = node[m]
  BY <1>1 DEF TypeOK
<1>3. node' \in [Nodes -> NodeObjects] /\ synced' \in SUBSET Nodes
  BY <1>1 DEF TypeOK
<1>4. \A d \in Calls : [call[d] EXCEPT !.current = @ \ changed] \in CallRecords
  BY DEF TypeOK, CallRecords
<1>5. call' \in [Calls -> CallRecords]
  BY <1>1, <1>4
<1>6. CacheIsTrue'
  BY <1>1, <1>2 DEF CacheIsTrue, TypeOK
<1>7. ASSUME NEW d \in Calls \ {c} PROVE CallOk(d)'
  <2>1. call'[d] = [call[d] EXCEPT !.current = call[d].current \ changed]
    BY <1>1
  <2>2. call[d].current \in SUBSET Nodes
    BY DEF TypeOK, CallRecords
  <2>3. \A m \in call[d].current \ changed : node'[m] = node[m]
    BY <1>2, <2>2
  <2> QED
    BY <2>1, <2>3, KeepsOk
<1>8. c \in Calls => call'[c] = after
  BY <1>1
<1> QED
  BY <1>1, <1>3, <1>5, <1>6, <1>7, <1>8

\* A step that changes the record of one call only.
LEMMA OneCall ==
    ASSUME Inv, NEW c \in Calls, NEW after \in CallRecords,
           call' = [call EXCEPT ![c] = after], UNCHANGED <<node, cache, synced>>,
           calls' \in 0..MaxCalls, writes' \in 0..MaxWrites, CallOk(c)'
    PROVE  Inv'
<1> USE DEF Inv
<1>1. TypeOK'
  BY DEF TypeOK
<1>2. CacheIsTrue'
  BY DEF CacheIsTrue
<1>3. ASSUME NEW d \in Calls, d # c PROVE CallOk(d)'
  <2>1. call'[d] = call[d]
    BY <1>3 DEF TypeOK
  <2> QED
    BY <2>1 DEF CallOk, IncreaseOk, DecreaseOk
<1> QED
  BY <1>1, <1>2, <1>3

\* A step that updates one Node, on behalf of call c or of nobody.
LEMMA OneUpdate ==
    ASSUME Inv, NEW n \in Nodes, NEW v \in NodeObjects, NEW c \in Calls \union {None},
           NEW after \in CallRecords, Put(n, v, c, after), cache' = cache,
           calls' \in 0..MaxCalls, writes' \in 0..MaxWrites, c \in Calls => CallOk(c)'
    PROVE  Inv'
BY PutLemma DEF Inv, TypeOK

\* A call that is not an increase or a decrease relies on nothing.
LEMMA OtherCallOk ==
    ASSUME NEW c \in Calls, call'[c].op \in {"none", "delete"}
    PROVE  CallOk(c)'
BY DEF CallOk, IncreaseOk, DecreaseOk

(***************************************************************************)
(* The actions                                                             *)
(***************************************************************************)

LEMMA IncreaseStep ==
    ASSUME Inv, NEW c \in Calls, NEW g \in Groups, NodeGroupIncreaseSize(c, g)
    PROVE  Inv'
<1>1. PICK n \in Members(g) :
         /\ PoweredOff(cache[n])
         /\ call' = [call EXCEPT ![c] = Call("increase", g, {}, n, 0, {n} \intersect synced)]
  BY DEF NodeGroupIncreaseSize
<1> DEFINE after == Call("increase", g, {}, n, 0, {n} \intersect synced)
<1>2. n \in Nodes /\ cache[n].group = g
  BY DEF Members
<1>3. after \in CallRecords
  BY <1>2, CallType DEF Inv, TypeOK
<1>4. call'[c] = after
  BY <1>1 DEF Inv, TypeOK
<1>5. n \in synced => cache[n] = node[n]
  BY DEF Inv, CacheIsTrue
<1>6. CallOk(c)'
  <2>1. UNCHANGED node
    BY DEF NodeGroupIncreaseSize
  <2>2. IncreaseOk(c)'
    BY <1>1, <1>2, <1>4, <1>5, <2>1 DEF IncreaseOk, Call
  <2>3. DecreaseOk(c)'
    BY <1>4 DEF DecreaseOk, Call
  <2> QED
    BY <2>2, <2>3 DEF CallOk
<1>7. calls' \in 0..MaxCalls /\ writes' \in 0..MaxWrites
  BY BoundsAssumption DEF NodeGroupIncreaseSize, Begin, Inv, TypeOK
<1> QED
  BY <1>1, <1>3, <1>6, <1>7, OneCall DEF NodeGroupIncreaseSize

LEMMA IncreaseUpdatesStep ==
    ASSUME Inv, NEW c \in Calls, IncreaseUpdates(c)
    PROVE  Inv'
<1> DEFINE n == call[c].cur
<1> DEFINE v == [node[n] EXCEPT !.desired = PowerStateOn]
<1>1. n \in Nodes /\ Put(n, v, c, NoCall)
  BY DEF IncreaseUpdates, Inv, CallOk, IncreaseOk
<1>2. v \in NodeObjects
  BY <1>1, DesiredType DEF Inv, TypeOK, PowerStates
<1>3. cache' = cache /\ calls' \in 0..MaxCalls /\ writes' \in 0..MaxWrites
  BY DEF IncreaseUpdates, Inv, TypeOK
<1>4. call'[c] = NoCall
  BY <1>1, <1>2, <1>3, NoCallType, PutLemma
<1>5. CallOk(c)'
  BY <1>4, NoCallType, OtherCallOk
<1> QED
  BY <1>1, <1>2, <1>3, <1>5, NoCallType, OneUpdate

LEMMA DeleteStep ==
    ASSUME Inv, NEW c \in Calls, NEW g \in Groups, NEW names \in SUBSET Nodes \ {{}},
           NodeGroupDeleteNodes(c, g, names)
    PROVE  Inv'
<1> DEFINE after == Call("delete", g, names, None, 0, {})
<1>1. after \in CallRecords /\ after.op = "delete"
  BY CallType DEF Call
<1>2. call' = [call EXCEPT ![c] = after] /\ UNCHANGED <<node, cache, synced>>
  BY DEF NodeGroupDeleteNodes
<1>3. call'[c] = after
  BY <1>2 DEF Inv, TypeOK
<1>4. calls' \in 0..MaxCalls /\ writes' \in 0..MaxWrites
  BY BoundsAssumption DEF NodeGroupDeleteNodes, Begin, Inv, TypeOK
<1>5. CallOk(c)'
  BY <1>1, <1>3, OtherCallOk
<1> QED
  BY <1>1, <1>2, <1>4, <1>5, OneCall

LEMMA DeleteGetsStep ==
    ASSUME Inv, NEW c \in Calls, DeleteGets(c)
    PROVE  Inv'
<1>1. PICK n \in call[c].todo :
         call' = [call EXCEPT ![c].todo = @ \ {n}, ![c].cur = n,
                              ![c].current = {n} \intersect synced]
  BY DEF DeleteGets
<1> DEFINE after == [call[c] EXCEPT !.todo = @ \ {n}, !.cur = n,
                                    !.current = {n} \intersect synced]
<1>2. call[c] \in CallRecords
  BY DEF Inv, TypeOK
<1>3. after \in CallRecords /\ after.op = "delete"
  BY <1>2 DEF CallRecords, DeleteGets
<1>4. call' = [call EXCEPT ![c] = after]
  BY <1>1 DEF Inv, TypeOK
<1>5. call'[c] = after
  BY <1>4 DEF Inv, TypeOK
<1>6. CallOk(c)'
  BY <1>3, <1>5, OtherCallOk
<1>7. /\ UNCHANGED <<node, cache, synced>>
      /\ calls' \in 0..MaxCalls /\ writes' \in 0..MaxWrites
  BY DEF DeleteGets, Inv, TypeOK
<1> QED
  BY <1>3, <1>4, <1>6, <1>7, OneCall

LEMMA DeleteUpdatesStep ==
    ASSUME Inv, NEW c \in Calls, DeleteUpdates(c)
    PROVE  Inv'
<1> DEFINE n == call[c].cur
<1> DEFINE v == [node[n] EXCEPT !.desired = PowerStateOff]
<1> DEFINE after == IF call[c].todo = {} THEN NoCall
                    ELSE Call("delete", call[c].group, call[c].todo, None, 0, {})
<1>1. call[c] \in CallRecords
  BY DEF Inv, TypeOK
<1>2. n \in Nodes /\ Put(n, v, c, after)
  BY <1>1 DEF DeleteUpdates, IsCurrent, CallRecords
<1>3. v \in NodeObjects
  BY <1>2, DesiredType DEF Inv, TypeOK, PowerStates
<1>4. after \in CallRecords /\ after.op \in {"none", "delete"}
  BY <1>1, NoCallType DEF Call, CallRecords
<1>5. cache' = cache /\ calls' \in 0..MaxCalls /\ writes' \in 0..MaxWrites
  BY DEF DeleteUpdates, Inv, TypeOK
<1>6. call'[c] = after
  BY <1>2, <1>3, <1>4, <1>5, PutLemma
<1>7. CallOk(c)'
  BY <1>4, <1>6, OtherCallOk
<1> QED
  BY <1>2, <1>3, <1>4, <1>5, <1>7, OneUpdate

LEMMA DecreaseStep ==
    ASSUME Inv, NEW c \in Calls, NEW g \in Groups, NEW d \in Deltas,
           NodeGroupDecreaseTargetSize(c, g, d)
    PROVE  Inv'
<1> DEFINE starting == {n \in Members(g) : Starting(cache[n])}
<1> DEFINE count == nodesToShutdown(Cardinality({n \in Members(g) : Running(cache[n])}),
                                    Cardinality(starting), d)
<1> DEFINE after == Call("decrease", g, starting, None, count, starting \intersect synced)
<1>1. /\ count > 0
      /\ call' = [call EXCEPT ![c] = after]
      /\ UNCHANGED <<node, cache, synced>>
  BY DEF NodeGroupDecreaseTargetSize
<1>2. starting \in SUBSET Nodes /\ {n \in Members(g) : Running(cache[n])} \in SUBSET Nodes
  BY DEF Members
<1>3. count \in Nat
  BY <1>2, MembersFinite, ToShutdownType, DeltasAssumption
<1>4. \A n \in starting : Starting(cache[n]) /\ cache[n].group = g
  BY DEF Members
<1> HIDE DEF starting, count
<1>5. after \in CallRecords
  BY <1>2, <1>3, CallType DEF Inv, TypeOK
<1>6. call'[c] = after
  BY <1>1 DEF Inv, TypeOK
<1>7. \A n \in starting \intersect synced : Starting(node[n]) /\ node[n].group = g
  BY <1>2, <1>4 DEF Inv, CacheIsTrue
<1>8. CallOk(c)'
  <2>1. /\ after.op = "decrease" /\ after.left = count /\ after.todo = starting
        /\ after.current = starting \intersect synced /\ after.cur = None /\ after.group = g
    BY DEF Call
  <2>2. None \notin starting
    BY <1>2, NoneAssumption
  <2>3. UNCHANGED node
    BY <1>1
  <2>4. IncreaseOk(c)'
    BY <1>6, <2>1 DEF IncreaseOk
  <2>5. DecreaseOk(c)'
    BY <1>1, <1>6, <1>7, <2>1, <2>2, <2>3 DEF DecreaseOk, Starting
  <2> QED
    BY <2>4, <2>5 DEF CallOk
<1>9. calls' \in 0..MaxCalls /\ writes' \in 0..MaxWrites
  BY BoundsAssumption DEF NodeGroupDecreaseTargetSize, Begin, Inv, TypeOK
<1> QED
  BY <1>1, <1>5, <1>8, <1>9, OneCall

LEMMA DecreaseUpdatesSpecStep ==
    ASSUME Inv, NEW c \in Calls, DecreaseUpdatesSpec(c)
    PROVE  Inv'
<1>1. call[c] \in CallRecords /\ call[c].op = "decrease"
  BY DEF Inv, TypeOK, DecreaseUpdatesSpec
<1>2. PICK n \in call[c].todo :
         /\ IsCurrent(c, n)
         /\ Put(n, [node[n] EXCEPT !.desired = PowerStateOff], c,
                [call[c] EXCEPT !.todo = @ \ {n}, !.cur = n])
  BY DEF DecreaseUpdatesSpec
<1> DEFINE v == [node[n] EXCEPT !.desired = PowerStateOff]
<1> DEFINE after == [call[c] EXCEPT !.todo = call[c].todo \ {n}, !.cur = n]
<1>3. n \in Nodes /\ call[c].todo \in SUBSET Nodes
  BY <1>1 DEF CallRecords
<1>4. v \in NodeObjects
  BY <1>3, DesiredType DEF Inv, TypeOK, PowerStates
<1>5. /\ after \in CallRecords /\ after.op = "decrease" /\ after.cur = n
      /\ after.left = call[c].left /\ after.todo = call[c].todo \ {n}
      /\ after.current = call[c].current /\ after.group = call[c].group
  BY <1>1, <1>3 DEF CallRecords
<1>6. cache' = cache /\ calls' \in 0..MaxCalls /\ writes' \in 0..MaxWrites
  BY DEF DecreaseUpdatesSpec, Inv, TypeOK
<1>7. Put(n, v, c, after)
  BY <1>2
<1>8. call'[c] = after /\ node' = [node EXCEPT ![n] = v]
  BY <1>3, <1>4, <1>5, <1>6, <1>7, PutLemma
<1>9. DecreaseOk(c)
  BY DEF Inv, CallOk
<1>10. /\ call[c].left > 0
       /\ \A m \in call[c].todo \intersect call[c].current :
             Starting(node[m]) /\ node[m].group = call[c].group
  BY <1>1, <1>9 DEF DecreaseOk
<1>11. /\ node'[n].desired = PowerStateOff
       /\ node'[n].power = PowerStateOff
       /\ node'[n].progress = StateStartingUp
       /\ node'[n].group = call[c].group
  <2>1. Starting(node[n]) /\ node[n].group = call[c].group
    BY <1>2, <1>10 DEF IsCurrent
  <2>2. node[n] \in NodeObjects
    BY <1>3 DEF Inv, TypeOK
  <2>3. node'[n] = v
    BY <1>3, <1>8 DEF Inv, TypeOK
  <2> QED
    BY <2>1, <2>2, <2>3 DEF Starting, NodeObjects
<1>12. \A m \in call[c].todo \ {n} : node'[m] = node[m]
  BY <1>3, <1>8 DEF Inv, TypeOK
<1> HIDE DEF v, after
<1>13. CallOk(c)'
  <2>1. IncreaseOk(c)'
    BY <1>5, <1>8 DEF IncreaseOk
  <2>2. DecreaseOk(c)'
    BY <1>5, <1>8, <1>10, <1>11, <1>12 DEF DecreaseOk, Starting
  <2> QED
    BY <2>1, <2>2 DEF CallOk
<1> QED
  BY <1>3, <1>4, <1>5, <1>6, <1>7, <1>13, OneUpdate

LEMMA DecreaseUpdatesStatusStep ==
    ASSUME Inv, NEW c \in Calls, DecreaseUpdatesStatus(c)
    PROVE  Inv'
<1> DEFINE n == call[c].cur
<1> DEFINE v == [node[n] EXCEPT !.progress = StateShuttingDown]
<1> DEFINE after == IF call[c].left = 1 THEN NoCall
                    ELSE [call[c] EXCEPT !.left = @ - 1, !.cur = None]
<1>1. call[c] \in CallRecords /\ call[c].op = "decrease" /\ DecreaseOk(c)
  BY DEF Inv, TypeOK, DecreaseUpdatesStatus, CallOk
<1>2. n \in Nodes /\ Put(n, v, c, after) /\ IsCurrent(c, n)
  BY <1>1 DEF DecreaseUpdatesStatus, CallRecords
<1>3. v \in NodeObjects
  <2>1. node[n] \in NodeObjects
    BY <1>2 DEF Inv, TypeOK
  <2> HIDE DEF n
  <2> QED
    BY <2>1 DEF NodeObjects, Progresses, States
<1>4. call[c].left \in Nat /\ call[c].left > 0
  BY <1>1 DEF DecreaseOk, CallRecords
<1>5. CASE call[c].left = 1
  <2>1. after = NoCall
    BY <1>5
  <2>2. cache' = cache /\ calls' \in 0..MaxCalls /\ writes' \in 0..MaxWrites
    BY DEF DecreaseUpdatesStatus, Inv, TypeOK
  <2>3. call'[c] = NoCall
    BY <1>2, <1>3, <2>1, <2>2, NoCallType, PutLemma
  <2>4. CallOk(c)'
    BY <2>3, NoCallType, OtherCallOk
  <2> QED
    BY <1>2, <1>3, <2>1, <2>2, <2>4, NoCallType, OneUpdate
<1>6. CASE call[c].left # 1
  <2>1. after = [call[c] EXCEPT !.left = call[c].left - 1, !.cur = None]
    BY <1>6
  <2>2. call[c].left - 1 \in Nat /\ call[c].left - 1 > 0
    BY <1>4, <1>6
  <2>3. /\ after \in CallRecords /\ after.op = "decrease" /\ after.cur = None
        /\ after.left = call[c].left - 1 /\ after.todo = call[c].todo
        /\ after.current = call[c].current /\ after.group = call[c].group
    BY <1>1, <2>1, <2>2 DEF CallRecords
  <2>4. cache' = cache /\ calls' \in 0..MaxCalls /\ writes' \in 0..MaxWrites
    BY DEF DecreaseUpdatesStatus, Inv, TypeOK
  <2>5. call'[c] = after /\ node' = [node EXCEPT ![n] = v]
    BY <1>2, <1>3, <2>3, <2>4, PutLemma
  <2>6. call[c].current \in SUBSET Nodes /\ None \notin call[c].current
    BY <1>1, NoneAssumption DEF CallRecords
  <2>7. IncreaseOk(c)'
    BY <2>3, <2>5 DEF IncreaseOk
  <2>8. \A m \in call[c].todo : node'[m] = node[m]
    <3>1. n \notin call[c].todo /\ call[c].todo \in SUBSET Nodes
      BY <1>1 DEF DecreaseOk, CallRecords
    <3> QED
      BY <3>1, <2>5 DEF Inv, TypeOK
  <2>9. \A m \in call[c].todo \intersect call[c].current :
           Starting(node[m]) /\ node[m].group = call[c].group
    BY <1>1 DEF DecreaseOk
  <2>10. None \notin call[c].todo
    BY <1>1, NoneAssumption DEF CallRecords
  <2> HIDE DEF after, v, n
  <2>11. DecreaseOk(c)'
    BY <2>2, <2>3, <2>5, <2>6, <2>8, <2>9, <2>10 DEF DecreaseOk, Starting
  <2>12. CallOk(c)'
    BY <2>7, <2>11 DEF CallOk
  <2> QED
    BY <1>2, <1>3, <2>3, <2>4, <2>12, OneUpdate
<1> QED
  BY <1>5, <1>6

LEMMA ReturnsErrorStep ==
    ASSUME Inv, NEW c \in Calls, ReturnsError(c)
    PROVE  Inv'
<1>1. call' = [call EXCEPT ![c] = NoCall] /\ UNCHANGED <<node, cache, synced>>
  BY DEF ReturnsError
<1>2. call'[c] = NoCall
  BY <1>1 DEF Inv, TypeOK
<1>3. CallOk(c)'
  BY <1>2, NoCallType, OtherCallOk
<1>4. calls' \in 0..MaxCalls /\ writes' \in 0..MaxWrites
  BY DEF ReturnsError, Inv, TypeOK
<1> QED
  BY <1>1, <1>3, <1>4, NoCallType, OneCall

LEMMA OtherUpdateStep ==
    ASSUME Inv, NEW n \in Nodes, NEW v \in NodeObjects, OtherUpdate(n, v)
    PROVE  Inv'
<1>1. Put(n, v, None, NoCall) /\ cache' = cache
  BY DEF OtherUpdate
<1>2. calls' \in 0..MaxCalls /\ writes' \in 0..MaxWrites
  BY BoundsAssumption DEF OtherUpdate, Inv, TypeOK
<1>3. None \in Calls => call'[None] = NoCall
  BY <1>1, NoCallType, PutLemma
<1>4. None \in Calls => CallOk(None)'
  BY <1>3, NoCallType, OtherCallOk
<1> QED
  BY <1>1, <1>2, <1>4, NoCallType, OneUpdate

LEMMA WatchStep ==
    ASSUME Inv, NEW n \in Nodes, Watch(n)
    PROVE  Inv'
<1> USE DEF Inv
<1>1. TypeOK'
  BY DEF Watch, TypeOK
<1>2. CacheIsTrue'
  BY DEF Watch, CacheIsTrue, TypeOK
<1>3. \A c \in Calls : CallOk(c)'
  BY DEF Watch, CallOk, IncreaseOk, DecreaseOk
<1> QED
  BY <1>1, <1>2, <1>3

LEMMA OthersStep ==
    ASSUME Inv, NEW n \in Nodes, WriteProgress(n) \/ Mirror(n) \/ Relabel(n)
    PROVE  Inv'
<1>1. node[n] \in NodeObjects
  BY DEF Inv, TypeOK
<1>2. CASE WriteProgress(n)
  <2>1. PICK s \in States : OtherUpdate(n, [node[n] EXCEPT !.progress = s])
    BY <1>2 DEF WriteProgress
  <2>2. [node[n] EXCEPT !.progress = s] \in NodeObjects
    BY <1>1 DEF NodeObjects, Progresses
  <2> QED
    BY <2>1, <2>2, OtherUpdateStep
<1>3. CASE Mirror(n)
  <2> DEFINE v(p) == [node[n] EXCEPT !.power = p,
                         !.progress = IF IsTransitionalState(@) THEN @
                                      ELSE IF p = PowerStateOn THEN StateReady
                                      ELSE StateShutdown]
  <2>1. PICK p \in PowerStates : OtherUpdate(n, v(p))
    BY <1>3 DEF Mirror
  <2>2. v(p) \in NodeObjects
    BY <1>1 DEF NodeObjects, Progresses, States
  <2> QED
    BY <2>1, <2>2, OtherUpdateStep
<1>4. CASE Relabel(n)
  <2>1. PICK g \in Groups : OtherUpdate(n, [node[n] EXCEPT !.group = g])
    BY <1>4 DEF Relabel
  <2>2. [node[n] EXCEPT !.group = g] \in NodeObjects
    BY <1>1 DEF NodeObjects
  <2> QED
    BY <2>1, <2>2, OtherUpdateStep
<1> QED
  BY <1>2, <1>3, <1>4

(***************************************************************************)
(* The invariant                                                           *)
(***************************************************************************)

LEMMA InitInv == Init => Inv
<1> SUFFICES ASSUME Init PROVE Inv
  OBVIOUS
<1>1. TypeOK
  <2>1. \A g \in Groups, r \in Resting :
           [group |-> g, desired |-> r[1], power |-> r[2], progress |-> r[3]] \in NodeObjects
    <3>1. ASSUME NEW r \in Resting
          PROVE  /\ r[1] \in PowerStates /\ r[2] \in PowerStates \union {""}
                 /\ r[3] \in Progresses
      <4>1. CASE r = <<PowerStateOn, PowerStateOn, StateReady>>
        BY <4>1 DEF PowerStates, Progresses, States
      <4>2. CASE r = <<PowerStateOff, PowerStateOff, StateShutdown>>
        BY <4>2 DEF PowerStates, Progresses, States
      <4>3. CASE r = <<PowerStateOn, PowerStateOff, StateStartingUp>>
        BY <4>3 DEF PowerStates, Progresses, States
      <4>4. CASE r = <<PowerStateOn, "", NoProgress>>
        BY <4>4 DEF PowerStates, Progresses
      <4> QED
        BY <4>1, <4>2, <4>3, <4>4 DEF Resting
    <3> QED
      BY <3>1 DEF NodeObjects
  <2>2. node \in [Nodes -> NodeObjects]
    BY <2>1 DEF Init
  <2>3. call \in [Calls -> CallRecords]
    BY NoCallType DEF Init
  <2>4. calls \in 0..MaxCalls /\ writes \in 0..MaxWrites
    BY BoundsAssumption DEF Init
  <2> QED
    BY <2>2, <2>3, <2>4 DEF Init, TypeOK
<1>2. CacheIsTrue
  BY DEF Init, CacheIsTrue
<1>3. \A c \in Calls : CallOk(c)
  BY NoCallType DEF Init, CallOk, IncreaseOk, DecreaseOk
<1> QED
  BY <1>1, <1>2, <1>3 DEF Inv

LEMMA NextInv == Inv /\ [Next]_vars => Inv'
<1> SUFFICES ASSUME Inv, [Next]_vars PROVE Inv'
  OBVIOUS
<1>1. ASSUME NEW c \in Calls, CallBegins(c) PROVE Inv'
  BY <1>1, IncreaseStep, DeleteStep, DecreaseStep DEF CallBegins
<1>2. ASSUME NEW c \in Calls, CallGoesOn(c) PROVE Inv'
  BY <1>2, IncreaseUpdatesStep, DeleteGetsStep, DeleteUpdatesStep, DecreaseUpdatesSpecStep,
     DecreaseUpdatesStatusStep, ReturnsErrorStep DEF CallGoesOn
<1>3. ASSUME NEW n \in Nodes, Watch(n) \/ WriteProgress(n) \/ Mirror(n) \/ Relabel(n)
      PROVE  Inv'
  BY <1>3, WatchStep, OthersStep
<1>4. CASE UNCHANGED vars
  BY <1>4 DEF vars, Inv, TypeOK, CacheIsTrue, CallOk, IncreaseOk, DecreaseOk
<1> QED
  BY <1>1, <1>2, <1>3, <1>4 DEF Next

LEMMA Invariance == Spec => []Inv
BY InitInv, NextInv, PTL DEF Spec

(***************************************************************************)
(* The theorems                                                            *)
(***************************************************************************)

\* Nodes, copies and calls are always of their types: in particular the number of Nodes
\* that a decrease has still to tell off never drops below zero.
THEOREM TypeCorrect == Spec => []TypeOK
BY Invariance, PTL DEF Inv

\* How many of s starting Nodes a decrease by d tells off in a group with r running ones:
\* never more than there are, more than asked exactly when more are starting than are
\* running and than were asked for, and none, so that the call changes nothing, exactly when
\* none is starting or those that are would not outnumber the running ones less d.
THEOREM DecreaseAsAsked ==
    ASSUME NEW r \in Nat, NEW s \in Nat, NEW d \in Nat \ {0}
    PROVE  /\ nodesToShutdown(r, s, d) \in 0..s
           /\ nodesToShutdown(r, s, d) <= d <=> s <= r \/ s <= d
           /\ nodesToShutdown(r, s, d) = 0 <=> s = 0 \/ s + d <= r
BY DEF nodesToShutdown, AtLeast0

\* What an update of Node n on behalf of a decrease finds.
LEMMA DecreaseFinds ==
    ASSUME Inv, NEW c \in Calls, DecreaseUpdatesSpec(c) \/ DecreaseUpdatesStatus(c),
           NEW n \in Nodes, node'[n] # node[n]
    PROVE  /\ node[n].power = PowerStateOff /\ node[n].progress = StateStartingUp
           /\ node[n].group = call[c].group
<1>1. DecreaseOk(c)
  BY DEF Inv, CallOk
<1>2. node \in [Nodes -> NodeObjects]
  BY DEF Inv, TypeOK
<1>3. CASE DecreaseUpdatesSpec(c)
  <2>1. PICK m \in call[c].todo :
           /\ m \in call[c].current
           /\ node' = [node EXCEPT ![m] = [node[m] EXCEPT !.desired = PowerStateOff]]
    BY <1>3 DEF DecreaseUpdatesSpec, Put, IsCurrent
  <2>2. n = m
    BY <1>2, <2>1
  <2> QED
    BY <1>1, <1>3, <2>1, <2>2 DEF DecreaseUpdatesSpec, DecreaseOk, Starting
<1>4. CASE DecreaseUpdatesStatus(c)
  <2>1. /\ call[c].op = "decrease" /\ call[c].cur \in call[c].current
        /\ node' = [node EXCEPT ![call[c].cur] =
                       [node[call[c].cur] EXCEPT !.progress = StateShuttingDown]]
    BY <1>4 DEF DecreaseUpdatesStatus, Put, IsCurrent
  <2>2. n = call[c].cur
    BY <1>2, <2>1
  <2> QED
    BY <1>1, <2>1, <2>2 DEF DecreaseOk
<1> QED
  BY <1>3, <1>4

\* What an update of Node n on behalf of an increase finds.
LEMMA IncreaseFinds ==
    ASSUME Inv, NEW c \in Calls, IncreaseUpdates(c), NEW n \in Nodes, node'[n] # node[n]
    PROVE  /\ PoweredOff(node[n]) /\ node[n].group = call[c].group
           /\ node'[n] = [node[n] EXCEPT !.desired = PowerStateOn]
<1>1. IncreaseOk(c)
  BY DEF Inv, CallOk
<1>2. node \in [Nodes -> NodeObjects]
  BY DEF Inv, TypeOK
<1>3. /\ call[c].op = "increase" /\ call[c].cur \in call[c].current
      /\ node' = [node EXCEPT ![call[c].cur] =
                     [node[call[c].cur] EXCEPT !.desired = PowerStateOn]]
  BY DEF IncreaseUpdates, Put, IsCurrent
<1>4. n = call[c].cur
  BY <1>2, <1>3
<1> QED
  BY <1>1, <1>2, <1>3, <1>4 DEF IncreaseOk

\* A Node that has been seen running, or is past its startup, by the time a decrease comes
\* to it is spared, whatever the cache showed when the decrease chose it.
THEOREM RunningIsSpared == Spec => RunningNotDecreased
<1>1. Inv /\ [Next]_vars =>
         [\A c \in Calls :
             DecreaseUpdatesSpec(c) \/ DecreaseUpdatesStatus(c) =>
                \A n \in Nodes : node'[n] # node[n] =>
                   node[n].power = PowerStateOff /\ node[n].progress = StateStartingUp]_vars
  BY DecreaseFinds
<1> QED
  BY <1>1, Invariance, PTL DEF Spec, RunningNotDecreased

\* Increases and decreases stay in the group they were called for, whoever moves Nodes
\* between groups in the meantime.
THEOREM StaysInGroup == Spec => OwnGroupOnly
<1>1. Inv /\ [Next]_vars =>
         [\A c \in Calls :
             IncreaseUpdates(c) \/ DecreaseUpdatesSpec(c) \/ DecreaseUpdatesStatus(c) =>
                \A n \in Nodes : node'[n] # node[n] => node[n].group = call[c].group]_vars
  BY DecreaseFinds, IncreaseFinds
<1> QED
  BY <1>1, Invariance, PTL DEF Spec, OwnGroupOnly

(***************************************************************************)
(* Every update, seen through NodeObject                                   *)
(***************************************************************************)

LEMMA AskOffStep ==
    ASSUME NEW n \in Nodes, node[n] \in NodeObjects,
           node'[n] = [node[n] EXCEPT !.desired = PowerStateOff]
    PROVE  Object(n)!Next
<1>1. /\ node'[n].desired = "off" /\ node'[n].power = node[n].power
      /\ node'[n].progress = node[n].progress
  BY DEF NodeObjects, PowerStateOff
<1> QED
  BY <1>1 DEF Object!Next, Object!AskOff, Object!PowerStateOff

LEMMA WriteProgressStep ==
    ASSUME NEW n \in Nodes, node[n] \in NodeObjects, NEW s \in States,
           IsTransitionalState(s) => ~IsTransitionalState(node[n].progress),
           node'[n] = [node[n] EXCEPT !.progress = s]
    PROVE  Object(n)!Next
<1>1. /\ node'[n].desired = node[n].desired /\ node'[n].power = node[n].power
      /\ node'[n].progress = s
  BY DEF NodeObjects
<1>2. s \in Object(n)!States
  BY DEF Object!States, States, Object!StateShutdown, Object!StateStartingUp, Object!StateReady,
         Object!StateShuttingDown, StateShutdown, StateStartingUp, StateReady, StateShuttingDown
<1>3. Object(n)!IsTransitionalState(s) => ~Object(n)!IsTransitionalState(node[n].progress)
  BY DEF IsTransitionalState, Object!IsTransitionalState, StateStartingUp, StateShuttingDown,
         Object!StateStartingUp, Object!StateShuttingDown
<1> QED
  BY <1>1, <1>2, <1>3 DEF Object!Next, Object!WriteProgress

LEMMA TurnBackStep ==
    ASSUME NEW n \in Nodes, node[n] \in NodeObjects,
           node[n].desired = PowerStateOff, node[n].power = PowerStateOff,
           node[n].progress = StateStartingUp,
           node'[n] = [node[n] EXCEPT !.progress = StateShuttingDown]
    PROVE  Object(n)!Next
<1>1. /\ node'[n].desired = node[n].desired /\ node'[n].power = node[n].power
      /\ node'[n].progress = StateShuttingDown
  BY DEF NodeObjects
<1> QED
  BY <1>1 DEF Object!Next, Object!TurnBack, PowerStateOff, StateStartingUp, StateShuttingDown,
              Object!PowerStateOff, Object!StateStartingUp, Object!StateShuttingDown

LEMMA AskOnStep ==
    ASSUME NEW n \in Nodes, node[n] \in NodeObjects, PoweredOff(node[n]),
           node'[n] = [node[n] EXCEPT !.desired = PowerStateOn]
    PROVE  Object(n)!Next
<1>1. /\ node'[n].desired = "on" /\ node'[n].power = node[n].power
      /\ node'[n].progress = node[n].progress
  BY DEF NodeObjects, PowerStateOn
<1>2. node[n].desired = "off" /\ node[n].power = "off" /\ node[n].progress = "shutdown"
  BY DEF PoweredOff, PowerStateOff, StateShutdown
<1> QED
  BY <1>1, <1>2 DEF Object!Next, Object!AskOn, Object!PoweredOff, Object!PowerStateOff,
                    Object!PowerStateOn, Object!StateShutdown

LEMMA MirrorStep ==
    ASSUME NEW n \in Nodes, node[n] \in NodeObjects, NEW p \in PowerStates,
           node'[n] = [node[n] EXCEPT !.power = p,
                          !.progress = IF IsTransitionalState(@) THEN @
                                       ELSE IF p = PowerStateOn THEN StateReady
                                       ELSE StateShutdown]
    PROVE  Object(n)!Next
<1>1. /\ node'[n].desired = node[n].desired /\ node'[n].power = p
      /\ node'[n].progress = IF IsTransitionalState(node[n].progress) THEN node[n].progress
                             ELSE IF p = PowerStateOn THEN StateReady
                             ELSE StateShutdown
  BY DEF NodeObjects
<1>2. p \in Object(n)!PowerStates
  BY DEF PowerStates, PowerStateOn, PowerStateOff, Object!PowerStates, Object!PowerStateOn,
         Object!PowerStateOff
<1>3. Object(n)!IsTransitionalState(node[n].progress) = IsTransitionalState(node[n].progress)
  BY DEF IsTransitionalState, Object!IsTransitionalState, StateStartingUp, StateShuttingDown,
         Object!StateStartingUp, Object!StateShuttingDown
<1>4. Object(n)!PowerStateOn = PowerStateOn /\ Object(n)!StateReady = StateReady
      /\ Object(n)!StateShutdown = StateShutdown
  BY DEF PowerStateOn, StateReady, StateShutdown, Object!PowerStateOn, Object!StateReady,
         Object!StateShutdown
<1> QED
  BY <1>1, <1>2, <1>3, <1>4 DEF Object!Next, Object!Mirror

LEMMA NextIsObjectStep ==
    ASSUME Inv, [Next]_vars, NEW n \in Nodes
    PROVE  [Object(n)!Next]_(Object(n)!vars)
<1> SUFFICES ASSUME <<node'[n].desired, node'[n].power, node'[n].progress>>
                     # <<node[n].desired, node[n].power, node[n].progress>>
             PROVE  Object(n)!Next
  BY DEF Object!vars
<1>1. node \in [Nodes -> NodeObjects] /\ node[n] \in NodeObjects
  BY DEF Inv, TypeOK
<1>2. ASSUME NEW m \in Nodes, NEW v, node' = [node EXCEPT ![m] = v] PROVE n = m /\ node'[n] = v
  BY <1>1, <1>2
<1>3. ASSUME NEW c \in Calls, IncreaseUpdates(c) PROVE Object(n)!Next
  BY <1>1, <1>3, IncreaseFinds, AskOnStep
<1>4. ASSUME NEW c \in Calls, DeleteUpdates(c) PROVE Object(n)!Next
  <2>1. call[c].cur \in Nodes
    BY <1>4 DEF Inv, TypeOK, CallRecords, DeleteUpdates
  <2> QED
    BY <1>1, <1>2, <1>4, <2>1, AskOffStep DEF DeleteUpdates, Put
<1>5. ASSUME NEW c \in Calls, DecreaseUpdatesSpec(c) PROVE Object(n)!Next
  <2>1. PICK m \in call[c].todo : node' = [node EXCEPT ![m] = [node[m] EXCEPT !.desired = PowerStateOff]]
    BY <1>5 DEF DecreaseUpdatesSpec, Put
  <2>2. m \in Nodes
    BY DEF Inv, TypeOK, CallRecords
  <2> QED
    BY <1>1, <1>2, <2>1, <2>2, AskOffStep
<1>6. ASSUME NEW c \in Calls, DecreaseUpdatesStatus(c) PROVE Object(n)!Next
  <2>1. call[c].cur \in Nodes
    BY <1>6 DEF Inv, TypeOK, CallRecords, DecreaseUpdatesStatus
  <2>2. n = call[c].cur /\ node'[n] = [node[n] EXCEPT !.progress = StateShuttingDown]
    BY <1>1, <1>2, <1>6, <2>1 DEF DecreaseUpdatesStatus, Put
  <2>3. DecreaseOk(c) /\ call[c].op = "decrease" /\ n \in call[c].current
    BY <1>6, <2>2 DEF DecreaseUpdatesStatus, IsCurrent, Inv, CallOk
  <2> QED
    BY <1>1, <2>2, <2>3, TurnBackStep DEF DecreaseOk
<1>7. ASSUME NEW m \in Nodes, WriteProgress(m) PROVE Object(n)!Next
  <2>1. PICK s \in States :
           /\ IsTransitionalState(s) => ~IsTransitionalState(node[m].progress)
           /\ node' = [node EXCEPT ![m] = [node[m] EXCEPT !.progress = s]]
    BY <1>7 DEF WriteProgress, OtherUpdate, Put
  <2> QED
    BY <1>1, <1>2, <2>1, WriteProgressStep
<1>8. ASSUME NEW m \in Nodes, Mirror(m) PROVE Object(n)!Next
  <2>1. PICK p \in PowerStates :
           node' = [node EXCEPT ![m] =
                      [node[m] EXCEPT !.power = p,
                          !.progress = IF IsTransitionalState(@) THEN @
                                       ELSE IF p = PowerStateOn THEN StateReady
                                       ELSE StateShutdown]]
    BY <1>8 DEF Mirror, OtherUpdate, Put
  <2> QED
    BY <1>1, <1>2, <2>1, MirrorStep
<1>9. ASSUME NEW m \in Nodes, Relabel(m) PROVE Object(n)!Next
  <2>1. PICK g \in Groups : node' = [node EXCEPT ![m] = [node[m] EXCEPT !.group = g]]
    BY <1>9 DEF Relabel, OtherUpdate, Put
  <2>2. n = m /\ node'[n] = [node[n] EXCEPT !.group = g]
    BY <1>1, <1>2, <2>1
  <2> QED
    BY <1>1, <2>2 DEF NodeObjects
<1> QED
  BY <1>3, <1>4, <1>5, <1>6, <1>7, <1>8, <1>9
     DEF Next, CallBegins, CallGoesOn, NodeGroupIncreaseSize, NodeGroupDeleteNodes,
         NodeGroupDecreaseTargetSize, DeleteGets, ReturnsError, Watch, vars

LEMMA InitIsObjectInit ==
    ASSUME Inv, NEW n \in Nodes
    PROVE  Object(n)!Init
<1>1. /\ node[n].desired \in PowerStates /\ node[n].power \in PowerStates \union {""}
      /\ node[n].progress \in Progresses
  BY DEF Inv, TypeOK, NodeObjects
<1>2. Object(n)!PowerStates = PowerStates /\ Object(n)!Progresses = Progresses
  BY DEF PowerStates, PowerStateOn, PowerStateOff, Object!PowerStates, Object!PowerStateOn,
         Object!PowerStateOff, Progresses, States, NoProgress, StateShutdown, StateStartingUp,
         StateReady, StateShuttingDown, Object!Progresses, Object!States, Object!NoProgress,
         Object!StateShutdown, Object!StateStartingUp, Object!StateReady,
         Object!StateShuttingDown
<1> QED
  BY <1>1, <1>2 DEF Object!Init

\* Whatever the calls, the controllers and the administrators do, each Node only goes
\* through the updates of NodeObject: a Node is asked to start only when it is off in every
\* respect, and so by one increase only.
THEOREM ImplementsObject == Spec => ObjectSpec
<1>1. Init => \A n \in Nodes : Object(n)!Init
  BY InitInv, InitIsObjectInit
<1>2. Inv /\ [Next]_vars => [\A n \in Nodes : [Object(n)!Next]_(Object(n)!vars)]_vars
  BY NextIsObjectStep
<1> QED
  BY <1>1, <1>2, Invariance, PTL DEF Spec, ObjectSpec

(***************************************************************************)
(* The size reported                                                       *)
(***************************************************************************)

\* The safety half of TargetSizeStabilizes: once the informer has caught up, the size that is
\* reported of a group whose Nodes have come to rest is the number of those that are on; a
\* wrong size is never more than the delay of the cache, or a Node that is not at rest.
THEOREM TargetSizeIsTrue ==
    Spec => [](synced = Nodes =>
                  \A g \in Groups : Stable(g) => NodeGroupTargetSize(g) = Size(g))
<1>1. ASSUME Inv, synced = Nodes, NEW g \in Groups, Stable(g)
      PROVE  NodeGroupTargetSize(g) = Size(g)
  <2>1. \A n \in Nodes : cache[n] = node[n]
    BY <1>1 DEF Inv, CacheIsTrue
  <2>2. \A n \in Nodes : node[n].group = g =>
           (node[n].progress \notin {StateShuttingDown, StateShutdown}
              <=> node[n].power = PowerStateOn)
    <3> SUFFICES ASSUME NEW n \in Nodes, node[n].group = g
                 PROVE  node[n].progress \notin {StateShuttingDown, StateShutdown}
                           <=> node[n].power = PowerStateOn
      OBVIOUS
    <3>1. AtRest(node[n])
      BY <1>1 DEF Stable
    <3> QED
      BY <3>1 DEF AtRest, StateReady, StateShutdown, StateShuttingDown
  <2>3. {n \in Members(g) : cache[n].progress \notin {StateShuttingDown, StateShutdown}}
          = {n \in Nodes : node[n].group = g /\ node[n].power = PowerStateOn}
    BY <2>1, <2>2 DEF Members
  <2> QED
    BY <2>3 DEF NodeGroupTargetSize, Size
<1>2. Inv => (synced = Nodes =>
                 \A g \in Groups : Stable(g) => NodeGroupTargetSize(g) = Size(g))
  BY <1>1
<1> QED
  BY <1>2, Invariance, PTL

=============================================================================
