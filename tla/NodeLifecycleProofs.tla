------------------------ MODULE NodeLifecycleProofs ------------------------
(***************************************************************************)
(* Proofs about NodeLifecycle, for any number of monitors and every value  *)
(* of the timeouts and bounds: type correctness, at most one pending       *)
(* Job per Node, no transition without a goroutine that will end it, that  *)
(* the Node goes through the updates of NodeObject only, and that it stays *)
(* as desired once it is.                                                  *)
(***************************************************************************)
EXTENDS NodeLifecycle, NodeFsmProofs

\* Where a state machine is in the hooks of an event about its Job.
Hooks == {"enterStable", "uncordon", "release", "final"}

\* The hooks run for an event about a Job: only then is Dst meaningful.
EventKnown == \A p \in Procs : proc[p].pc \in Hooks => proc[p].event \in JobEvents

\* Between the cleanup and the creation of the Job there is no pending Job.
WorkerCleaned ==
    ~Failed("cleanup") /\ proc[Worker].pc \in {"cordon", "acquire", "enter", "create"} =>
        \A m \in Monitors : job[m].status # "active"

\* The copy the second update of NodeGroupDecreaseTargetSize is based on is of a Node that
\* is starting up and has been told off, as long as the update can succeed.
FreshAskedOff ==
    grpc = "fresh" => /\ desired = PowerStateOff /\ power = PowerStateOff
                      /\ progress = StateStartingUp

\* Where the worker is between its look at the Node and the update that begins an operation.
Preparing == {"clean", "cordon", "acquire", "enter"}

\* The Node the worker has found at rest still is when the operation begins: nobody else
\* begins one.
WorkerSettled == proc[Worker].pc \in Preparing => ~IsTransitionalState(progress)

TypeInv == TypeOK /\ EventKnown
JobInv == WorkerCleaned /\ OnePendingJob
ObjectInv == FreshAskedOff /\ WorkerSettled
SettleInv == FreshAskedOff /\ NoOrphanedTransition

----------------------------------------------------------------------------
(* Jobs *)

\* A Job that is deleted is not pending any more, whether its Pod runs on or not.
LEMMA DeletedLemma ==
    ASSUME NEW j \in Jobs
    PROVE  Deleted(j) \in Jobs /\ Deleted(j).status # "active"
  BY DEF Deleted, NoJob, Jobs, JobStatuses, Operations

\* Nor is one whose Pod has ended, whatever its outcome.
LEMMA EndLemma ==
    ASSUME TypeOK, NEW m \in Monitors, JobEnds(m)
    PROVE  \E j \in Jobs : job' = [job EXCEPT ![m] = j] /\ j.status # "active"
  <1>1. job[m] \in Jobs
    BY DEF TypeOK
  <1>2. PICK outcome \in JobOutcomes :
           job' = [job EXCEPT ![m] = CASE @.status = "orphaned" -> NoJob
                                       [] outcome = "retrying" -> [@ EXCEPT !.status = outcome]
                                       [] OTHER -> [NoJob EXCEPT !.status = outcome]]
    BY DEF JobEnds
  <1> DEFINE j == CASE job[m].status = "orphaned" -> NoJob
                    [] outcome = "retrying" -> [job[m] EXCEPT !.status = outcome]
                    [] OTHER -> [NoJob EXCEPT !.status = outcome]
  <1>3. outcome \in {"succeeded", "failed", "retrying"}
    BY OutcomesAssumption
  <1>4. j \in Jobs /\ j.status # "active"
    BY <1>1, <1>3 DEF NoJob, Jobs, JobStatuses, Operations
  <1>5. job' = [job EXCEPT ![m] = j]
    BY <1>2
  <1> QED BY <1>4, <1>5

----------------------------------------------------------------------------
(* Helpers *)

\* The worker writes on entry what the table has for the event it has chosen, and the Job of
\* an operation aims at the power that goes with the state the table reaches when it is done.
THEOREM OperationsFollowTable ==
    ASSUME NEW e \in {EventStartNode, EventShutdownNode},
           ValidateEventTransition(getCurrentState(progress), e)
    PROVE  LET op == GetOperationForEvent(e)
           IN  /\ GetDestinationState(getCurrentState(progress), e) = Source(op)
               /\ GetDestinationState(Source(op), EventJobCompleted)
                     = IF Target(op) = PowerStateOn THEN StateReady ELSE StateShutdown
  <1>1. \/ e = EventStartNode /\ getCurrentState(progress) = StateShutdown
        \/ e = EventShutdownNode /\ getCurrentState(progress) = StateReady
    BY EventsFitStates
  <1> QED BY <1>1, Destinations
          DEF GetOperationForEvent, Source, Target, EventStartNode, EventShutdownNode,
              OperationScaleUp, OperationScaleDown, PowerStateOn, PowerStateOff

\* What the hooks write is a stable progress.
LEMMA DstLemma ==
    ASSUME TypeInv, NEW p \in Procs, proc[p].pc \in Hooks
    PROVE  /\ Dst(p) \in States /\ Dst(p) \in Progresses
           /\ ~IsTransitionalState(Dst(p))
  <1>1. proc[p].event \in JobEvents
    BY DEF TypeInv, EventKnown
  <1>2. Source(proc[p].op) \in {StateStartingUp, StateShuttingDown}
    BY DEF Source
  <1>3. IsStableState(Dst(p))
    BY <1>1, <1>2, DestinationLemma DEF Dst
  <1> QED BY <1>3 DEF IsStableState, IsTransitionalState, Progresses, States, StateReady,
                      StateShutdown, StateStartingUp, StateShuttingDown

\* A record built by At is a process state.
LEMMA AtLemma ==
    ASSUME NEW pc \in Labels, NEW op \in Operations,
           NEW e \in JobEvents \union {NoEvent}, NEW t \in Nat
    PROVE  /\ At(pc, op, e, t) \in ProcStates
           /\ At(pc, op, e, t).pc = pc /\ At(pc, op, e, t).event = e
           /\ At(pc, op, e, t).op = op
  BY DEF At, ProcStates

\* The same, of a process that handles no event.
LEMMA AtNoEventLemma ==
    ASSUME NEW pc \in Labels, NEW op \in Operations, NEW t \in Nat
    PROVE  At(pc, op, NoEvent, t) \in ProcStates /\ At(pc, op, NoEvent, t).pc = pc
  BY DEF At, ProcStates

\* The initial process state.
LEMMA IdleLemma == Idle \in ProcStates /\ Idle.pc = "idle"
  BY AtLemma DEF Idle, Operations, Labels

\* Moving p to another label changes nothing else of the processes.
LEMMA GotoLemma ==
    ASSUME TypeOK, NEW p \in Procs, NEW label \in Labels, Goto(p, label)
    PROVE  /\ proc' \in [Procs -> ProcStates]
           /\ proc'[p].pc = label /\ proc'[p].event = proc[p].event
           /\ proc'[p].op = proc[p].op
           /\ \A q \in Procs \ {p} : proc'[q] = proc[q]
  BY DEF Goto, TypeOK, ProcStates

\* Giving p a new state changes nothing else of the processes.
LEMMA SetLemma ==
    ASSUME TypeOK, NEW p \in Procs, NEW r \in ProcStates, proc' = [proc EXCEPT ![p] = r]
    PROVE  /\ proc' \in [Procs -> ProcStates]
           /\ proc'[p] = r
           /\ \A q \in Procs \ {p} : proc'[q] = proc[q]
  BY DEF TypeOK

----------------------------------------------------------------------------
(* Type correctness *)

\* A failing call is remembered, within the bound, and no other is.
LEMMA FailsLemma ==
    ASSUME TypeOK, NEW what \in Failures, Fails(what)
    PROVE  /\ errors' \in ErrorRecords
           /\ Failed(what)'
           /\ \A w : Failed(w) => Failed(w)'
  <1>1. MaxErrors \in Nat
    BY BoundsAssumption
  <1>2. errors.count \in 0..MaxErrors /\ errors.of \in SUBSET Failures
    BY DEF TypeOK, ErrorRecords
  <1>3. errors' = [count |-> errors.count + 1, of |-> errors.of \union {what}]
    BY DEF Fails
  <1>4. errors.count + 1 \in 0..MaxErrors
    BY <1>1, <1>2 DEF Fails
  <1>5. errors' \in ErrorRecords
    BY <1>2, <1>3, <1>4 DEF ErrorRecords
  <1> QED BY <1>3, <1>5 DEF Failed

\* The kinds of calls that fail.
LEMMA FailuresLemma ==
    {"cleanup", "cordon", "lock", "create", "progress"} \subseteq Failures
  BY DEF Failures

\* Writing to the Node makes the held copy stale, if there is one.
LEMMA TouchLemma ==
    ASSUME TypeOK, Touch
    PROVE  grpc' \in {"idle", "stale"}
  BY DEF TypeOK, Touch

\* updateNodeProgress writes s and one timestamp, or fails and writes nothing.
LEMMA UpdateLemma ==
    ASSUME TypeOK, NEW s \in Progresses, updateNodeProgress(s)
    PROVE  /\ progress' \in Progresses
           /\ startupAge' \in Nat \union {Never} /\ shutdownAge' \in Nat \union {Never}
           /\ grpc' \in {"idle", "fresh", "stale"}
           /\ errors' \in ErrorRecords
           /\ ~Failed("progress")' => progress' = s /\ grpc' # "fresh"
           /\ \A w : Failed(w) => Failed(w)'
           /\ grpc' = "fresh" => progress' = progress /\ grpc = "fresh"
           /\ progress' \in {s, progress}
  <1>1. CASE Fails("progress") /\ UNCHANGED <<progress, startupAge, shutdownAge, grpc>>
    BY <1>1, FailsLemma, FailuresLemma DEF TypeOK
  <1>2. CASE /\ progress' = s
             /\ startupAge' = IF s = StateStartingUp THEN 0 ELSE startupAge
             /\ shutdownAge' = IF s = StateShuttingDown THEN 0 ELSE shutdownAge
             /\ Touch
             /\ UNCHANGED errors
    BY <1>2, TouchLemma DEF TypeOK, Failed
  <1> QED BY <1>1, <1>2 DEF updateNodeProgress

\* removeLock leaves no lock or, when the update fails, everything as it was.
LEMMA RemoveLemma ==
    ASSUME TypeOK, removeLock
    PROVE  /\ lock' \in Operations \union {Unlocked} /\ lockAge' \in Nat
           /\ grpc' \in {"idle", "fresh", "stale"} /\ (grpc' = "fresh" => grpc = "fresh")
           /\ errors' \in ErrorRecords /\ (\A w : Failed(w) => Failed(w)')
  <1>1. CASE lock # Unlocked /\ lock' = Unlocked /\ lockAge' = 0 /\ Touch /\ UNCHANGED errors
    BY <1>1, TouchLemma DEF TypeOK, Failed
  <1>2. CASE lock = Unlocked /\ UNCHANGED <<lock, lockAge, grpc, errors>>
    BY <1>2 DEF TypeOK, Failed
  <1>3. CASE Fails("lock") /\ UNCHANGED <<lock, lockAge, grpc>>
    BY <1>3, FailsLemma, FailuresLemma DEF TypeOK
  <1> QED BY <1>1, <1>2, <1>3 DEF removeLock

\* The state an operation passes through is a progress.
LEMMA SourceLemma == \A op : Source(op) \in Progresses /\ IsTransitionalState(Source(op))
  BY DEF Source, Progresses, States, IsTransitionalState

\* GetOperationForEvent is defined on the events the worker raises.
LEMMA OperationLemma ==
    /\ GetOperationForEvent(EventStartNode) \in Operations
    /\ GetOperationForEvent(EventShutdownNode) \in Operations
  BY DEF GetOperationForEvent, Operations, EventStartNode, EventShutdownNode

\* Ages stay ages.
LEMMA OlderLemma ==
    ASSUME NEW a \in Nat \union {Never}, NEW limit
    PROVE  Older(a, limit) \in Nat \union {Never} /\ (a \in Nat => Older(a, limit) \in Nat)
  BY DEF Older, Never

\* The events the monitors and the worker raise.
LEMMA RaiseLemma ==
    ASSUME TypeOK, NEW p \in Procs, NEW e \in JobEvents, Raise(p, e)
    PROVE  /\ proc' \in [Procs -> ProcStates]
           /\ proc'[p].pc = "enterStable" /\ proc'[p].event = e
           /\ \A q \in Procs \ {p} : proc'[q] = proc[q]
  <1>1. proc[p].op \in Operations
    BY DEF TypeOK, ProcStates
  <1> DEFINE r == At("enterStable", proc[p].op, e, 0)
  <1>2. r \in ProcStates /\ r.pc = "enterStable" /\ r.event = e
    BY <1>1, AtLemma DEF Labels
  <1>3. proc' = [proc EXCEPT ![p] = r]
    BY DEF Raise
  <1> HIDE DEF r
  <1> QED BY <1>2, <1>3, SetLemma

\* The end of an operation or a reconciliation.
LEMMA FinishLemma ==
    ASSUME TypeOK, NEW p \in Procs, Finish(p)
    PROVE  /\ proc' \in [Procs -> ProcStates]
           /\ proc'[p].pc = "idle"
           /\ \A q \in Procs \ {p} : proc'[q] = proc[q]
  BY IdleLemma, SetLemma DEF Finish

\* Moving to another label within or outside the hooks.
LEMMA GotoKnown ==
    ASSUME TypeInv, NEW p \in Procs, NEW label \in Labels, Goto(p, label),
           label \notin Hooks \/ proc[p].pc \in Hooks
    PROVE  proc' \in [Procs -> ProcStates] /\ EventKnown'
  BY GotoLemma DEF TypeInv, EventKnown

\* A new process state outside the hooks, or one with a Job event.
LEMMA SetKnown ==
    ASSUME TypeInv, NEW p \in Procs, NEW r \in ProcStates, proc' = [proc EXCEPT ![p] = r],
           r.pc \notin Hooks \/ r.event \in JobEvents
    PROVE  proc' \in [Procs -> ProcStates] /\ EventKnown'
  BY SetLemma DEF TypeInv, EventKnown

\* A process that is idle runs no hooks.
LEMMA FinishKnown ==
    ASSUME TypeInv, NEW p \in Procs, Finish(p)
    PROVE  proc' \in [Procs -> ProcStates] /\ EventKnown'
  BY FinishLemma DEF TypeInv, EventKnown, Hooks

\* The events that are raised are Job events.
LEMMA RaiseKnown ==
    ASSUME TypeInv, NEW p \in Procs, NEW e \in JobEvents, Raise(p, e)
    PROVE  proc' \in [Procs -> ProcStates] /\ EventKnown'
  BY RaiseLemma DEF TypeInv, EventKnown

\* Every step of the worker before the Job exists keeps the types.
LEMMA WorkerType == TypeInv /\ WorkerNext => TypeInv'
  <1> SUFFICES ASSUME TypeInv, WorkerNext PROVE TypeInv'
    OBVIOUS
  <1>0. TypeOK /\ EventKnown /\ Worker \in Procs /\ Monitors \subseteq Procs
    BY DEF TypeInv, Procs
  <1>a. proc[Worker].op \in Operations /\ proc[Worker] \in ProcStates
    BY <1>0 DEF TypeOK, ProcStates
  <1> USE <1>0 DEF node, world, counters
  <1>1. CASE CleanupExpiredLocks
    <2>1. proc' \in [Procs -> ProcStates] /\ EventKnown'
      BY <1>1, GotoKnown DEF CleanupExpiredLocks, Labels, Hooks
    <2>2. removeLock \/ UNCHANGED <<lock, lockAge, grpc, errors>>
      BY <1>1 DEF CleanupExpiredLocks
    <2>3. TypeOK'
      BY <1>1, <2>1, <2>2, RemoveLemma DEF TypeOK, CleanupExpiredLocks
    <2> QED BY <2>1, <2>3 DEF TypeInv
  <1>2. CASE ValidateTransitional
    <2>1. proc' \in [Procs -> ProcStates] /\ EventKnown'
      BY <1>2, FinishKnown DEF ValidateTransitional
    <2>2. removeLock \/ UNCHANGED <<lock, lockAge, grpc, errors>>
      BY <1>2 DEF ValidateTransitional
    <2>3. TypeOK'
      BY <1>2, <2>1, <2>2, RemoveLemma DEF TypeOK, ValidateTransitional
    <2> QED BY <2>1, <2>3 DEF TypeInv
  <1>3. CASE HandleStateTransitions
    <2>1. CASE Finish(Worker)
      <3>1. proc' \in [Procs -> ProcStates] /\ EventKnown'
        BY <2>1, FinishKnown
      <3> QED BY <1>3, <3>1 DEF TypeOK, TypeInv, HandleStateTransitions
    <2>2. CASE ~Finish(Worker)
      <3>1. PICK e \in {EventStartNode, EventShutdownNode} :
               proc' = [proc EXCEPT ![Worker] = At("clean", GetOperationForEvent(e), NoEvent, ageRead)]
        BY <1>3, <2>2 DEF HandleStateTransitions
      <3>2. ageRead \in Nat
        <4>1. LockTimeout \in Nat
          BY TimeoutsAssumption
        <4>2. lockAge \in Nat
          BY DEF TypeOK
        <4> QED BY <4>1, <4>2 DEF ageRead
      <3> DEFINE r == At("clean", GetOperationForEvent(e), NoEvent, ageRead)
      <3>3. r \in ProcStates /\ r.pc = "clean"
        <4>1. GetOperationForEvent(e) \in Operations
          BY OperationLemma
        <4> QED BY <3>2, <4>1, AtNoEventLemma DEF Labels
      <3>4. proc' = [proc EXCEPT ![Worker] = r]
        BY <3>1
      <3> HIDE DEF r
      <3>5. proc' \in [Procs -> ProcStates] /\ EventKnown'
        BY <3>3, <3>4, SetKnown DEF Hooks
      <3> QED BY <1>3, <3>5 DEF TypeOK, TypeInv, HandleStateTransitions
    <2> QED BY <2>1, <2>2
  <1>4. CASE CleanupPendingJobs
    <2>1. proc' \in [Procs -> ProcStates] /\ EventKnown'
      BY <1>4, GotoKnown DEF CleanupPendingJobs, Labels, Hooks
    <2>2. errors' \in ErrorRecords
      BY <1>4, FailsLemma, FailuresLemma DEF CleanupPendingJobs, TypeOK
    <2>3. job' \in [Monitors -> Jobs]
      <3>1. PICK deleted \in SUBSET Monitors :
               job' = [m \in Monitors |-> IF m \in deleted THEN Deleted(job[m]) ELSE job[m]]
        BY <1>4 DEF CleanupPendingJobs
      <3> QED BY <3>1, DeletedLemma DEF TypeOK
    <2> QED BY <1>4, <2>1, <2>2, <2>3 DEF TypeOK, TypeInv, CleanupPendingJobs
  <1>5. CASE SetNodeUnschedulable
    <2>1. proc' \in [Procs -> ProcStates] /\ EventKnown'
      BY <1>5, GotoKnown DEF SetNodeUnschedulable, Labels, Hooks
    <2>2. errors' \in ErrorRecords /\ unschedulable' \in BOOLEAN
      BY <1>5, FailsLemma, FailuresLemma DEF SetNodeUnschedulable, TypeOK
    <2> QED BY <1>5, <2>1, <2>2 DEF TypeOK, TypeInv, SetNodeUnschedulable
  <1>6. CASE AcquireLock
    <2> DEFINE r == At("enter", proc[Worker].op, NoEvent, 0)
    <2>1. r \in ProcStates /\ r.pc = "enter"
      BY <1>a, AtNoEventLemma DEF Labels
    <2>2. \/ proc' = [proc EXCEPT ![Worker] = r] /\ UNCHANGED errors
          \/ Finish(Worker) /\ Fails("lock")
      BY <1>6 DEF AcquireLock
    <2> HIDE DEF r
    <2>3. proc' \in [Procs -> ProcStates] /\ EventKnown' /\ errors' \in ErrorRecords
      BY <2>1, <2>2, SetKnown, FinishKnown, FailsLemma, FailuresLemma DEF Hooks, TypeOK
    <2>4. lock' \in Operations /\ lockAge' \in Nat /\ grpc' \in {"idle", "stale"}
      BY <1>a, <1>6, TouchLemma DEF AcquireLock
    <2> QED BY <1>6, <2>3, <2>4 DEF TypeOK, TypeInv, AcquireLock
  <1>7. CASE AcquireRefused
    <2>1. proc' \in [Procs -> ProcStates] /\ EventKnown'
      BY <1>7, FinishKnown DEF AcquireRefused
    <2>2. errors' \in ErrorRecords
      BY <1>7, FailsLemma, FailuresLemma DEF AcquireRefused, TypeOK
    <2> QED BY <1>7, <2>1, <2>2 DEF TypeOK, TypeInv, AcquireRefused
  <1>8. CASE EnterTransitional
    <2>1. proc' \in [Procs -> ProcStates] /\ EventKnown'
      BY <1>8, GotoKnown DEF EnterTransitional, Labels, Hooks
    <2> QED BY <1>8, <2>1, SourceLemma, UpdateLemma DEF TypeOK, TypeInv, EnterTransitional
  <1>9. CASE CreateJob
    <2>1. CASE Fails("create") /\ Raise(Worker, EventJobFailed)
      <3>1. proc' \in [Procs -> ProcStates] /\ EventKnown'
        BY <2>1, RaiseKnown DEF JobEvents
      <3>2. errors' \in ErrorRecords
        BY <2>1, FailsLemma, FailuresLemma
      <3>3. newJob(proc[Worker].op) \in Jobs
        BY <1>a DEF newJob, Jobs, JobStatuses
      <3>4. job' = job \/ \E m \in Monitors : job' = [job EXCEPT ![m] = newJob(proc[Worker].op)]
        BY <1>9 DEF CreateJob, Submit, FreeMonitors
      <3>5. job' \in [Monitors -> Jobs]
        BY <3>3, <3>4 DEF TypeOK
      <3> QED BY <1>9, <3>1, <3>2, <3>5 DEF TypeOK, TypeInv, CreateJob
    <2>2. ASSUME NEW m \in FreeMonitors,
                 job' = [job EXCEPT ![m] = newJob(proc[Worker].op)],
                 proc' = [proc EXCEPT ![m] = At("poll", proc[Worker].op, NoEvent, 0),
                                      ![Worker] = Idle],
                 UNCHANGED errors
          PROVE  TypeInv'
      <3>1. m \in Monitors /\ m \in Procs
        BY DEF FreeMonitors
      <3> DEFINE r == At("poll", proc[Worker].op, NoEvent, 0)
      <3>2. r \in ProcStates /\ r.pc = "poll"
        BY <1>a, AtNoEventLemma DEF Labels
      <3>3. proc' = [proc EXCEPT ![m] = r, ![Worker] = Idle]
        BY <2>2
      <3> HIDE DEF r
      <3>4. proc' \in [Procs -> ProcStates] /\ EventKnown'
        BY <3>1, <3>2, <3>3, IdleLemma DEF TypeOK, EventKnown, Hooks
      <3>5. job' \in [Monitors -> Jobs]
        BY <1>a, <2>2, <3>1 DEF TypeOK, Jobs, JobStatuses, newJob
      <3> QED BY <1>9, <2>2, <3>4, <3>5 DEF TypeOK, TypeInv, CreateJob
    <2> QED BY <1>9, <2>1, <2>2 DEF CreateJob, Submit
  <1> QED BY <1>1, <1>2, <1>3, <1>4, <1>5, <1>6, <1>7, <1>8, <1>9 DEF WorkerNext

\* Every step of the hooks keeps the types: the progress they write is one.
LEMMA HookType == \A p \in Procs : TypeInv /\ HookNext(p) => TypeInv'
  <1> SUFFICES ASSUME NEW p \in Procs, TypeInv, HookNext(p) PROVE TypeInv'
    OBVIOUS
  <1>0. TypeOK /\ EventKnown
    BY DEF TypeInv
  <1> USE <1>0 DEF node, world, counters
  <1>1. CASE EnterStable(p)
    <2>1. Finish(p) \/ Goto(p, "uncordon") \/ Goto(p, "release")
      BY <1>1 DEF EnterStable
    <2>2. proc' \in [Procs -> ProcStates] /\ EventKnown'
      BY <1>1, <2>1, FinishKnown, GotoKnown DEF EnterStable, Labels, Hooks
    <2>3. Dst(p) \in Progresses /\ updateNodeProgress(Dst(p))
      BY <1>1, DstLemma DEF EnterStable, Hooks
    <2> QED BY <1>1, <2>2, <2>3, UpdateLemma DEF TypeOK, TypeInv, EnterStable
  <1>2. CASE SetNodeSchedulable(p)
    <2> DEFINE r == At("release", proc[p].op, proc[p].event, 0)
    <2>1. proc[p].op \in Operations /\ proc[p].event \in JobEvents
      BY <1>2 DEF SetNodeSchedulable, TypeOK, ProcStates, EventKnown, Hooks
    <2>2. r \in ProcStates /\ r.pc = "release" /\ r.event \in JobEvents
      BY <2>1, AtLemma DEF Labels
    <2>3. proc' = [proc EXCEPT ![p] = r]
      BY <1>2 DEF SetNodeSchedulable
    <2> HIDE DEF r
    <2>4. proc' \in [Procs -> ProcStates] /\ EventKnown'
      BY <2>2, <2>3, SetKnown
    <2> QED BY <1>2, <2>4 DEF TypeOK, TypeInv, SetNodeSchedulable
  <1>3. CASE ReleaseLock(p)
    <2>1. proc' \in [Procs -> ProcStates] /\ EventKnown'
      BY <1>3, GotoKnown DEF ReleaseLock, Labels, Hooks
    <2> QED BY <1>3, <2>1, RemoveLemma DEF TypeOK, TypeInv, ReleaseLock
  <1>4. CASE UpdateProgressAgain(p)
    <2>1. proc' \in [Procs -> ProcStates] /\ EventKnown'
      BY <1>4, FinishKnown DEF UpdateProgressAgain
    <2>2. Dst(p) \in Progresses /\ updateNodeProgress(Dst(p))
      BY <1>4, DstLemma DEF UpdateProgressAgain, Hooks
    <2> QED BY <1>4, <2>1, <2>2, UpdateLemma DEF TypeOK, TypeInv, UpdateProgressAgain
  <1> QED BY <1>1, <1>2, <1>3, <1>4 DEF HookNext

\* So do the gRPC calls, which count against their bound.
LEMMA GrpcType == TypeInv /\ (GrpcNext \/ DecreaseUpdatesStatus) => TypeInv'
  <1> SUFFICES ASSUME TypeInv, GrpcNext \/ DecreaseUpdatesStatus PROVE TypeInv'
    OBVIOUS
  <1>0. TypeOK /\ EventKnown
    BY DEF TypeInv
  <1>1. CASE DecreaseUpdatesStatus
    BY <1>0, <1>1
       DEF TypeOK, EventKnown, TypeInv, DecreaseUpdatesStatus, Progresses, States, world, counters
  <1>2. CASE GrpcNext
    <2>1. Request /\ proc' = proc
      BY <1>2 DEF GrpcNext, NodeGroupIncreaseSize, NodeGroupDeleteNodes,
                  NodeGroupDecreaseTargetSize
    <2>2. MaxRequests \in Nat
      BY BoundsAssumption
    <2>3. requests \in 0..MaxRequests
      BY <1>0 DEF TypeOK
    <2>4. requests' \in 0..MaxRequests
      BY <2>1, <2>2, <2>3 DEF Request
    <2>5. EventKnown'
      BY <1>0, <2>1 DEF EventKnown
    <2>6. desired' \in PowerStates /\ grpc' \in {"idle", "fresh", "stale"}
      BY <1>0, <1>2, TouchLemma
         DEF GrpcNext, NodeGroupIncreaseSize, NodeGroupDeleteNodes,
             NodeGroupDecreaseTargetSize, PowerStates
    <2>7. /\ UNCHANGED <<power, progress, lock, lockAge, startupAge, shutdownAge>>
          /\ UNCHANGED <<job, machine, kubeReady, unschedulable, errors, crashes>>
      BY <1>2 DEF GrpcNext, NodeGroupIncreaseSize, NodeGroupDeleteNodes,
                  NodeGroupDecreaseTargetSize, world
    <2> QED BY <1>0, <2>1, <2>4, <2>5, <2>6, <2>7 DEF TypeOK, TypeInv
  <1> QED BY <1>1, <1>2

\* So do Jobs, machine, kubelet, mirror controller, monitors, time and restarts.
LEMMA WorldType ==
    ASSUME TypeInv,
           \/ \E m \in Monitors : MonitorJobCompletion(m) \/ JobActs(m) \/ JobEnds(m)
           \/ ReconcileKubernetesNode \/ KubeletReports \/ Tick \/ Crash
    PROVE  TypeInv'
  <1>0. TypeOK /\ EventKnown /\ Monitors \subseteq Procs
    BY DEF TypeInv, Procs
  <1> USE <1>0 DEF node, world, counters
  <1>1. ASSUME NEW m \in Monitors, MonitorJobCompletion(m) PROVE TypeInv'
    <2>1. \E e \in JobEvents : Raise(m, e)
      BY <1>1 DEF MonitorJobCompletion, JobEvents
    <2>2. proc' \in [Procs -> ProcStates] /\ EventKnown'
      BY <2>1, RaiseKnown
    <2> QED BY <1>1, <2>2 DEF TypeOK, TypeInv, MonitorJobCompletion
  <1>2. ASSUME NEW m \in Monitors, JobActs(m) PROVE TypeInv'
    <2>1. machine' \in PowerStates
      BY <1>2 DEF JobActs, Target, PowerStates
    <2> QED BY <1>2, <2>1 DEF TypeOK, TypeInv, EventKnown, JobActs
  <1>3. ASSUME NEW m \in Monitors, JobEnds(m) PROVE TypeInv'
    <2>1. job' \in [Monitors -> Jobs]
      BY <1>3, EndLemma DEF TypeOK
    <2> QED BY <1>3, <2>1 DEF TypeOK, TypeInv, EventKnown, JobEnds
  <1>4. CASE ReconcileKubernetesNode
    <2>1. power' \in PowerStates
      BY <1>4 DEF ReconcileKubernetesNode, getNodeStatus, PowerStates
    <2>2. progress' \in Progresses
      BY <1>4 DEF ReconcileKubernetesNode, TypeOK, Progresses, States
    <2> QED BY <1>4, <2>1, <2>2, TouchLemma DEF TypeOK, TypeInv, EventKnown, ReconcileKubernetesNode
  <1>5. CASE KubeletReports
    BY <1>5 DEF TypeOK, TypeInv, EventKnown, KubeletReports
  <1>6. CASE Tick
    <2>1. ASSUME NEW p \in Procs
          PROVE  \E t \in Nat : proc'[p] = [proc[p] EXCEPT !.timer = t]
      <3>1. proc[p].timer \in Nat
        BY DEF TypeOK, ProcStates
      <3>2. PICK t \in {proc[p].timer, proc[p].timer + 1} :
               proc'[p] = [proc[p] EXCEPT !.timer = t]
        BY <1>6 DEF Tick
      <3> QED BY <3>1, <3>2
    <2>2. DOMAIN proc' = Procs /\ proc' = [p \in Procs |-> proc'[p]]
      BY <1>6 DEF Tick
    <2>3. proc' \in [Procs -> ProcStates] /\ EventKnown'
      <3>1. ASSUME NEW p \in Procs
            PROVE  /\ proc'[p] \in ProcStates
                   /\ proc'[p].pc = proc[p].pc /\ proc'[p].event = proc[p].event
        <4>1. proc[p] \in ProcStates
          BY DEF TypeOK
        <4> QED BY <2>1, <4>1 DEF ProcStates
      <3> QED BY <2>2, <3>1 DEF EventKnown
    <2>4. /\ lockAge' \in Nat
          /\ startupAge' \in Nat \union {Never} /\ shutdownAge' \in Nat \union {Never}
      <3>1. /\ lockAge \in Nat
            /\ startupAge \in Nat \union {Never} /\ shutdownAge \in Nat \union {Never}
        BY DEF TypeOK
      <3>2. /\ lockAge' = IF lock = Unlocked THEN 0 ELSE Older(lockAge, LockTimeout)
            /\ startupAge' = Older(startupAge, StuckAfter)
            /\ shutdownAge' = Older(shutdownAge, StuckAfter)
        BY <1>6 DEF Tick
      <3> QED BY <3>1, <3>2, OlderLemma
    <2> QED BY <1>6, <2>3, <2>4 DEF TypeOK, TypeInv, Tick
  <1>7. CASE Crash
    <2>1. proc' \in [Procs -> ProcStates] /\ EventKnown'
      BY <1>7, IdleLemma DEF Crash, EventKnown, Hooks
    <2>2. MaxCrashes \in Nat
      BY BoundsAssumption
    <2>3. crashes' \in 0..MaxCrashes
      <3>1. crashes \in 0..MaxCrashes
        BY DEF TypeOK
      <3> QED BY <1>7, <2>2, <3>1 DEF Crash
    <2> QED BY <1>7, <2>1, <2>3 DEF TypeOK, TypeInv, Crash
  <1> QED BY <1>1, <1>2, <1>3, <1>4, <1>5, <1>6, <1>7

\* The initial states are well typed, and every step keeps them so.
LEMMA TypeInit == Init => TypeInv
  <1> SUFFICES ASSUME Init PROVE TypeInv
    OBVIOUS
  <1>1. NoJob \in Jobs
    BY DEF NoJob, Jobs, JobStatuses, Operations
  <1>2. requests \in 0..MaxRequests /\ errors \in ErrorRecords /\ crashes \in 0..MaxCrashes
    <2>1. MaxRequests \in Nat
      BY BoundsAssumption
    <2>2. MaxErrors \in Nat
      BY BoundsAssumption
    <2>3. MaxCrashes \in Nat
      BY BoundsAssumption
    <2>4. requests = 0 /\ errors = NoErrors /\ crashes = 0
      BY DEF Init
    <2> QED BY <2>1, <2>2, <2>3, <2>4 DEF ErrorRecords, NoErrors
  <1>3. EventKnown
    BY IdleLemma DEF Init, EventKnown, Hooks
  <1> QED BY <1>1, <1>2, <1>3, IdleLemma DEF Init, TypeInv, TypeOK, PowerStates, Progresses

\* Every step keeps the types.
LEMMA TypeStep == TypeInv /\ [Next]_vars => TypeInv'
  <1> SUFFICES ASSUME TypeInv, [Next]_vars PROVE TypeInv'
    OBVIOUS
  <1>1. CASE UNCHANGED vars
    BY <1>1 DEF vars, TypeInv, TypeOK, EventKnown
  <1>2. CASE WorkerNext
    BY <1>2, WorkerType
  <1>3. CASE \E p \in Procs : HookNext(p)
    BY <1>3, HookType
  <1>4. CASE GrpcNext \/ DecreaseUpdatesStatus
    BY <1>4, GrpcType
  <1>5. CASE \/ \E m \in Monitors : MonitorJobCompletion(m) \/ JobActs(m) \/ JobEnds(m)
             \/ ReconcileKubernetesNode \/ KubeletReports \/ Tick \/ Crash
    BY <1>5, WorldType
  <1> QED BY <1>1, <1>2, <1>3, <1>4, <1>5 DEF Next

\* The state always is what the CRD, the labels of the model and its bounds allow; in
\* particular the hooks always find a row of the transition table for their event, and
\* Progress never holds anything else than one of the four FSM states or nothing.
THEOREM TypeCorrect == Spec => []TypeOK
  <1>1. TypeInv => TypeOK
    BY DEF TypeInv
  <1> QED BY <1>1, TypeInit, TypeStep, PTL DEF Spec

----------------------------------------------------------------------------
(* At most one pending Job *)

\* Once a call has failed, that is remembered.
LEMMA ErrorsStay == TypeInv /\ [Next]_vars => \A w : Failed(w) => Failed(w)'
  <1> SUFFICES ASSUME TypeInv, [Next]_vars, NEW w, Failed(w) PROVE Failed(w)'
    OBVIOUS
  <1>1. ASSUME NEW what \in Failures, Fails(what) PROVE Failed(w)'
    BY <1>1, FailsLemma DEF TypeInv
  <1>0. ASSUME UNCHANGED errors PROVE Failed(w)'
    BY <1>0 DEF Failed
  <1>2. CASE removeLock
    BY <1>2, RemoveLemma DEF TypeInv
  <1>3. ASSUME NEW t \in Progresses, updateNodeProgress(t) PROVE Failed(w)'
    BY <1>3, UpdateLemma DEF TypeInv
  <1>4. CASE UNCHANGED vars
    BY <1>0, <1>4 DEF vars
  <1>5. CASE WorkerNext
    <2>1. CASE CleanupExpiredLocks \/ ValidateTransitional
      BY <1>0, <1>2, <2>1 DEF CleanupExpiredLocks, ValidateTransitional
    <2>2. CASE HandleStateTransitions
      BY <1>0, <2>2 DEF HandleStateTransitions, counters
    <2>3. CASE CleanupPendingJobs
      <3>1. UNCHANGED errors \/ Fails("cleanup")
        BY <2>3 DEF CleanupPendingJobs
      <3> QED BY <1>0, <1>1, <3>1, FailuresLemma
    <2>4. CASE SetNodeUnschedulable
      <3>1. UNCHANGED errors \/ Fails("cordon")
        BY <2>4 DEF SetNodeUnschedulable
      <3> QED BY <1>0, <1>1, <3>1, FailuresLemma
    <2>5. CASE AcquireLock \/ AcquireRefused
      <3>1. UNCHANGED errors \/ Fails("lock")
        BY <2>5 DEF AcquireLock, AcquireRefused
      <3> QED BY <1>0, <1>1, <3>1, FailuresLemma
    <2>6. CASE EnterTransitional
      BY <1>3, <2>6, SourceLemma DEF EnterTransitional
    <2>7. CASE CreateJob
      <3>1. UNCHANGED errors \/ Fails("create")
        BY <2>7 DEF CreateJob
      <3> QED BY <1>0, <1>1, <3>1, FailuresLemma
    <2> QED BY <1>5, <2>1, <2>2, <2>3, <2>4, <2>5, <2>6, <2>7 DEF WorkerNext
  <1>6. ASSUME NEW p \in Procs, HookNext(p) PROVE Failed(w)'
    <2>1. CASE EnterStable(p)
      <3>1. Dst(p) \in Progresses /\ updateNodeProgress(Dst(p))
        BY <2>1, DstLemma DEF EnterStable, Hooks, TypeInv
      <3> QED BY <1>3, <3>1
    <2>2. CASE SetNodeSchedulable(p)
      BY <1>0, <2>2 DEF SetNodeSchedulable, counters
    <2>3. CASE ReleaseLock(p)
      BY <1>2, <2>3 DEF ReleaseLock
    <2>4. CASE UpdateProgressAgain(p)
      <3>1. Dst(p) \in Progresses /\ updateNodeProgress(Dst(p))
        BY <2>4, DstLemma DEF UpdateProgressAgain, Hooks, TypeInv
      <3> QED BY <1>3, <3>1
    <2> QED BY <1>6, <2>1, <2>2, <2>3, <2>4 DEF HookNext
  <1>7. CASE GrpcNext \/ DecreaseUpdatesStatus
    BY <1>0, <1>7 DEF GrpcNext, DecreaseUpdatesStatus, NodeGroupIncreaseSize,
                NodeGroupDeleteNodes, NodeGroupDecreaseTargetSize, counters
  <1>8. ASSUME NEW m \in Monitors, MonitorJobCompletion(m) \/ JobActs(m) \/ JobEnds(m)
        PROVE  Failed(w)'
    BY <1>0, <1>8 DEF MonitorJobCompletion, JobActs, JobEnds, counters
  <1>9. CASE ReconcileKubernetesNode \/ KubeletReports \/ Tick \/ Crash
    BY <1>0, <1>9 DEF ReconcileKubernetesNode, KubeletReports, Tick, Crash, counters
  <1> QED BY <1>4, <1>5, <1>6, <1>7, <1>8, <1>9 DEF Next

\* A step of the hooks: the Jobs stay as they are, p stays in the hooks or is done, and
\* nobody else moves.
LEMMA HookFrame ==
    ASSUME TypeInv, NEW p \in Procs, HookNext(p)
    PROVE  /\ job' = job /\ crashes' = crashes
           /\ proc'[p].pc \in Hooks \union {"idle"}
           /\ \A q \in Procs \ {p} : proc'[q] = proc[q]
  <1>0. TypeOK
    BY DEF TypeInv
  <1>1. CASE EnterStable(p)
    <2>1. Finish(p) \/ Goto(p, "uncordon") \/ Goto(p, "release")
      BY <1>1 DEF EnterStable
    <2>2. /\ proc'[p].pc \in Hooks \union {"idle"}
          /\ \A q \in Procs \ {p} : proc'[q] = proc[q]
      BY <1>0, <2>1, FinishLemma, GotoLemma DEF Hooks, Labels
    <2> QED BY <1>1, <2>2 DEF EnterStable, world
  <1>2. CASE SetNodeSchedulable(p)
    BY <1>0, <1>2 DEF SetNodeSchedulable, TypeOK, At, Hooks, counters
  <1>3. CASE ReleaseLock(p)
    <2>1. Goto(p, "final")
      BY <1>3 DEF ReleaseLock
    <2> QED BY <1>0, <1>3, <2>1, GotoLemma DEF ReleaseLock, Hooks, Labels, world
  <1>4. CASE UpdateProgressAgain(p)
    BY <1>0, <1>4, FinishLemma DEF UpdateProgressAgain, world
  <1> QED BY <1>1, <1>2, <1>3, <1>4 DEF HookNext

\* Time moves nobody to another place; timers go up by at most one.
LEMMA TickFrame ==
    ASSUME TypeInv, Tick, NEW p \in Procs
    PROVE  /\ proc'[p].pc = proc[p].pc /\ proc'[p].event = proc[p].event
           /\ proc'[p].op = proc[p].op
           /\ proc'[p].timer \in {proc[p].timer, proc[p].timer + 1}
  <1>1. proc[p] \in ProcStates
    BY DEF TypeInv, TypeOK
  <1>2. PICK t \in {proc[p].timer, proc[p].timer + 1} :
           proc'[p] = [proc[p] EXCEPT !.timer = t]
    BY DEF Tick
  <1> QED BY <1>1, <1>2 DEF ProcStates

\* The worker has done its part when the Job is submitted, or handles the failure.
LEMMA CreateFrame ==
    ASSUME TypeOK, CreateJob
    PROVE  /\ proc'[Worker].pc \in {"idle", "enterStable"}
           /\ proc'[Worker].pc = "enterStable" => Raise(Worker, EventJobFailed)
           /\ Raise(Worker, EventJobFailed) \/ \E m \in FreeMonitors :
                 proc' = [proc EXCEPT ![m] = At("poll", proc[Worker].op, NoEvent, 0),
                                      ![Worker] = Idle]
  <1>0. Worker \in Procs
    BY DEF Procs
  <1>1. CASE Raise(Worker, EventJobFailed)
    BY <1>0, <1>1, RaiseLemma DEF JobEvents
  <1>2. CASE ~Raise(Worker, EventJobFailed)
    BY <1>0, <1>2, IdleLemma DEF CreateJob, TypeOK
  <1> QED BY <1>1, <1>2

\* Where the worker is between the cleanup of pending Jobs and its own Job.
Cleaned == {"cordon", "acquire", "enter", "create"}

\* A step that starts no Job and does not bring the worker past the cleanup.
LEMMA JobQuiet ==
    ASSUME JobInv, \A w : Failed(w) => Failed(w)',
           \A m \in Monitors : job'[m].status = "active" => job[m].status = "active",
           proc'[Worker].pc \in Cleaned => proc[Worker].pc \in Cleaned
    PROVE  JobInv'
  BY DEF JobInv, WorkerCleaned, OnePendingJob, Cleaned

\* Every step keeps the number of pending Jobs at one.
LEMMA JobStep == TypeInv /\ JobInv /\ [Next]_vars => JobInv'
  <1> SUFFICES ASSUME TypeInv, JobInv, [Next]_vars PROVE JobInv'
    OBVIOUS
  <1>0. TypeOK /\ Worker \in Procs /\ Monitors \subseteq Procs /\ Worker \notin Monitors
    BY WorkerAssumption DEF TypeInv, Procs
  <1>1. \A w : Failed(w) => Failed(w)'
    BY ErrorsStay
  <1>2. CASE UNCHANGED vars
    BY <1>1, <1>2, JobQuiet DEF vars
  <1>3. CASE CleanupExpiredLocks
    <2>1. proc'[Worker].pc = "get" /\ job' = job
      BY <1>0, <1>3, GotoLemma DEF CleanupExpiredLocks, Labels, world
    <2> QED BY <1>1, <2>1, JobQuiet DEF Cleaned
  <1>4. CASE ValidateTransitional
    <2>1. proc'[Worker].pc = "idle" /\ job' = job
      BY <1>0, <1>4, FinishLemma DEF ValidateTransitional, world
    <2> QED BY <1>1, <2>1, JobQuiet DEF Cleaned
  <1>5. CASE HandleStateTransitions
    <2>1. proc'[Worker].pc \in {"clean", "idle"}
      <3>1. CASE Finish(Worker)
        BY <1>0, <3>1, FinishLemma
      <3>2. CASE ~Finish(Worker)
        <4>1. \E op : proc' = [proc EXCEPT ![Worker] = At("clean", op, NoEvent, ageRead)]
          BY <1>5, <3>2 DEF HandleStateTransitions
        <4>2. \A op : At("clean", op, NoEvent, ageRead).pc = "clean"
          BY DEF At
        <4> QED BY <1>0, <4>1, <4>2 DEF TypeOK
      <3> QED BY <3>1, <3>2
    <2>2. job' = job
      BY <1>5 DEF HandleStateTransitions, world
    <2> QED BY <1>1, <2>1, <2>2, JobQuiet DEF Cleaned
  <1>6. CASE CleanupPendingJobs
    <2> DEFINE there == {m \in Monitors : job[m].status \notin {"none", "orphaned"}}
               pending == {m \in there : job[m].status = "active"}
    <2>1. PICK deleted \in SUBSET there :
             /\ job' = [m \in Monitors |-> IF m \in deleted THEN Deleted(job[m]) ELSE job[m]]
             /\ IF deleted = pending THEN UNCHANGED errors ELSE Fails("cleanup")
      BY <1>6 DEF CleanupPendingJobs
    <2>2. ~Failed("cleanup")' => \A m \in Monitors : job'[m].status # "active"
      <3> SUFFICES ASSUME ~Failed("cleanup")', NEW m \in Monitors PROVE job'[m].status # "active"
        OBVIOUS
      <3>1. deleted = pending
        BY <1>0, <2>1, FailsLemma, FailuresLemma
      <3>2. job[m] \in Jobs
        BY <1>0 DEF TypeOK
      <3> QED BY <2>1, <3>1, <3>2, DeletedLemma
    <2> QED BY <2>2 DEF JobInv, WorkerCleaned, OnePendingJob
  <1>7. CASE SetNodeUnschedulable
    BY <1>1, <1>7, JobQuiet DEF SetNodeUnschedulable, Cleaned
  <1>8. CASE AcquireLock
    BY <1>1, <1>8, JobQuiet DEF AcquireLock, Cleaned, world
  <1>9. CASE AcquireRefused
    BY <1>1, <1>9, JobQuiet DEF AcquireRefused, Cleaned, world
  <1>10. CASE EnterTransitional
    BY <1>1, <1>10, JobQuiet DEF EnterTransitional, Cleaned, world
  <1>11. CASE CreateJob
    <2>1. ~Failed("cleanup")' => \A m \in Monitors : job[m].status # "active"
      BY <1>1, <1>11 DEF JobInv, WorkerCleaned, CreateJob
    <2>2. job' = job \/ \E n \in FreeMonitors : job' = [job EXCEPT ![n] = newJob(proc[Worker].op)]
      BY <1>11 DEF CreateJob, Submit
    <2>3. ~Failed("cleanup")' => \A m, n \in Monitors :
             job'[m].status = "active" /\ job'[n].status = "active" => m = n
      BY <1>0, <2>1, <2>2 DEF TypeOK, FreeMonitors
    <2>4. proc'[Worker].pc \in {"idle", "enterStable"}
      BY <1>0, <1>11, CreateFrame
    <2> QED BY <2>3, <2>4 DEF JobInv, WorkerCleaned, OnePendingJob
  <1>12. ASSUME NEW p \in Procs, HookNext(p) PROVE JobInv'
    <2>1. job' = job /\ (proc'[Worker].pc \in Cleaned => proc'[Worker] = proc[Worker])
      BY <1>0, <1>12, HookFrame DEF Cleaned, Hooks
    <2> QED BY <1>1, <2>1, JobQuiet
  <1>13. ASSUME NEW m \in Monitors, MonitorJobCompletion(m) PROVE JobInv'
    <2>1. PICK e \in JobEvents : Raise(m, e)
      BY <1>13 DEF MonitorJobCompletion, JobEvents
    <2>2. proc'[Worker] = proc[Worker]
      BY <1>0, <2>1, RaiseLemma
    <2>3. job' = job
      BY <1>13 DEF MonitorJobCompletion, world
    <2> QED BY <1>1, <2>2, <2>3, JobQuiet
  <1>14. ASSUME NEW m \in Monitors, JobActs(m) PROVE JobInv'
    BY <1>1, <1>14, JobQuiet DEF JobActs
  <1>15. ASSUME NEW m \in Monitors, JobEnds(m) PROVE JobInv'
    <2>1. \A n \in Monitors : job'[n].status = "active" => job[n].status = "active"
      BY <1>0, <1>15, EndLemma DEF TypeOK
    <2> QED BY <1>1, <1>15, <2>1, JobQuiet DEF JobEnds
  <1>16. CASE ReconcileKubernetesNode \/ KubeletReports
    BY <1>1, <1>16, JobQuiet DEF ReconcileKubernetesNode, KubeletReports, world
  <1>17. CASE GrpcNext \/ DecreaseUpdatesStatus
    BY <1>1, <1>17, JobQuiet
       DEF GrpcNext, DecreaseUpdatesStatus, NodeGroupIncreaseSize, NodeGroupDeleteNodes,
           NodeGroupDecreaseTargetSize, world
  <1>18. CASE Tick
    <2>1. proc'[Worker].pc = proc[Worker].pc /\ job' = job
      BY <1>0, <1>18, TickFrame DEF Tick, world
    <2> QED BY <1>1, <2>1, JobQuiet
  <1>19. CASE Crash
    <2>1. proc'[Worker].pc = "idle" /\ job' = job
      BY <1>0, <1>19, IdleLemma DEF Crash, world
    <2> QED BY <1>1, <2>1, JobQuiet DEF Cleaned
  <1> QED BY <1>2, <1>3, <1>4, <1>5, <1>6, <1>7, <1>8, <1>9, <1>10, <1>11, <1>12, <1>13,
             <1>14, <1>15, <1>16, <1>17, <1>18, <1>19 DEF Next, WorkerNext

\* As long as no deletion of a Job failed and no list of them was too old, a Node never has
\* two Jobs that cleanupPendingJobs takes for pending: however operations, refused locks,
\* other failing calls, lost monitors and restarts interleave, it has run since the last Job
\* was created and before the next one is.  Nothing is said of the Pods it leaves behind.
THEOREM AtMostOnePendingJob == Spec => []OnePendingJob
  <1>1. Init => JobInv
    <2>1. Init => \A m \in Monitors : job[m].status # "active"
      <3>1. NoJob.status # "active"
        BY DEF NoJob
      <3> QED BY <3>1 DEF Init
    <2> QED BY <2>1 DEF JobInv, WorkerCleaned, OnePendingJob
  <1>2. JobInv => OnePendingJob
    BY DEF JobInv
  <1> QED BY <1>1, <1>2, TypeInit, TypeStep, JobStep, PTL DEF Spec

----------------------------------------------------------------------------
(* Nobody is stranded in a transition *)

\* A step of the hooks that cannot have failed either leaves the progress alone and p in
\* the hooks, or writes a stable progress.
LEMMA HookSettles ==
    ASSUME TypeInv, NEW p \in Procs, HookNext(p)
    PROVE  /\ UNCHANGED <<desired, power>>
           /\ grpc' = "fresh" => grpc = "fresh" /\ progress' = progress
           /\ IsTransitionalState(progress') => IsTransitionalState(progress)
           /\ ~Failed("progress")' =>
                             \/ progress' = progress /\ proc'[p].pc \in Hooks
                             \/ ~IsTransitionalState(progress')
  <1>0. TypeOK
    BY DEF TypeInv
  <1>1. CASE EnterStable(p)
    <2>1. Dst(p) \in Progresses /\ ~IsTransitionalState(Dst(p)) /\ updateNodeProgress(Dst(p))
      BY <1>1, DstLemma DEF EnterStable, Hooks
    <2> QED BY <1>0, <1>1, <2>1, UpdateLemma DEF EnterStable
  <1>2. CASE SetNodeSchedulable(p)
    <2>1. proc'[p].pc = "release"
      BY <1>0, <1>2 DEF SetNodeSchedulable, TypeOK, At
    <2> QED BY <1>2, <2>1 DEF SetNodeSchedulable, node, Hooks
  <1>3. CASE ReleaseLock(p)
    <2>1. proc'[p].pc = "final"
      BY <1>0, <1>3, GotoLemma DEF ReleaseLock, Labels
    <2> QED BY <1>0, <1>3, <2>1, RemoveLemma DEF ReleaseLock, Hooks
  <1>4. CASE UpdateProgressAgain(p)
    <2>1. Dst(p) \in Progresses /\ ~IsTransitionalState(Dst(p)) /\ updateNodeProgress(Dst(p))
      BY <1>4, DstLemma DEF UpdateProgressAgain, Hooks
    <2> QED BY <1>0, <1>4, <2>1, UpdateLemma DEF UpdateProgressAgain
  <1> QED BY <1>1, <1>2, <1>3, <1>4 DEF HookNext

\* Every step keeps the copy that may still be written back one of a Node that is starting
\* up and has been told off: whoever changes these makes it stale.
LEMMA FreshStep == TypeInv /\ FreshAskedOff /\ [Next]_vars => FreshAskedOff'
  <1> SUFFICES ASSUME TypeInv, FreshAskedOff, [Next]_vars, grpc' = "fresh"
               PROVE  /\ desired' = PowerStateOff /\ power' = PowerStateOff
                      /\ progress' = StateStartingUp
    BY DEF FreshAskedOff
  <1> DEFINE Kept == /\ desired' = PowerStateOff /\ power' = PowerStateOff
                     /\ progress' = StateStartingUp
  <1>0. TypeOK
    BY DEF TypeInv
  <1>1. Touch => FALSE
    BY <1>0, TouchLemma
  <1>2. removeLock => grpc = "fresh"
    BY <1>0, RemoveLemma
  <1>3. CASE grpc = "fresh" /\ UNCHANGED <<desired, power, progress>>
    BY <1>3 DEF FreshAskedOff
  <1>4. CASE UNCHANGED vars
    BY <1>3, <1>4 DEF vars
  <1>5. CASE WorkerNext
    <2>1. CASE EnterTransitional
      <3>1. updateNodeProgress(Source(proc[Worker].op)) /\ Source(proc[Worker].op) \in Progresses
        BY <2>1, SourceLemma DEF EnterTransitional
      <3> QED BY <1>0, <1>3, <2>1, <3>1, UpdateLemma DEF EnterTransitional
    <2>2. CASE ~EnterTransitional
      BY <1>1, <1>2, <1>3, <1>5, <2>2
         DEF WorkerNext, CleanupExpiredLocks, ValidateTransitional, HandleStateTransitions,
             CleanupPendingJobs, SetNodeUnschedulable, AcquireLock, AcquireRefused, CreateJob,
             node
    <2> QED BY <2>1, <2>2
  <1>6. ASSUME NEW p \in Procs, HookNext(p) PROVE Kept
    BY <1>3, <1>6, HookSettles
  <1>7. CASE GrpcNext \/ DecreaseUpdatesStatus
    <2>1. CASE NodeGroupDecreaseTargetSize
      BY <2>1 DEF NodeGroupDecreaseTargetSize
    <2>2. CASE ~NodeGroupDecreaseTargetSize
      BY <1>1, <1>7, <2>2
         DEF GrpcNext, NodeGroupIncreaseSize, NodeGroupDeleteNodes, DecreaseUpdatesStatus
    <2> QED BY <2>1, <2>2
  <1>8. ASSUME NEW m \in Monitors, MonitorJobCompletion(m) \/ JobActs(m) \/ JobEnds(m)
        PROVE  Kept
    BY <1>3, <1>8 DEF MonitorJobCompletion, JobActs, JobEnds, node
  <1>9. CASE ReconcileKubernetesNode
    BY <1>1, <1>9 DEF ReconcileKubernetesNode
  <1>10. CASE KubeletReports \/ Tick \/ Crash
    BY <1>3, <1>10 DEF KubeletReports, Tick, Crash, node
  <1> QED BY <1>4, <1>5, <1>6, <1>7, <1>8, <1>9, <1>10 DEF Next

\* A step that makes no progress transitional and stops nobody who will settle.
LEMMA SettleQuiet ==
    ASSUME NoOrphanedTransition, \A w : Failed(w) => Failed(w)', crashes' = crashes,
           IsTransitionalState(progress') => IsTransitionalState(progress),
           \A p \in Procs : WillSettle(p) => WillSettle(p)'
    PROVE  NoOrphanedTransition'
  BY DEF NoOrphanedTransition

\* A step that leaves the progress alone, and of the processes moves only one that
\* would not have settled anything.
LEMMA SettleMoved ==
    ASSUME NoOrphanedTransition, \A w : Failed(w) => Failed(w)', crashes' = crashes,
           progress' = progress, NEW p \in Procs, ~WillSettle(p),
           \A q \in Procs \ {p} : proc'[q] = proc[q]
    PROVE  NoOrphanedTransition'
  <1>1. \A q \in Procs : WillSettle(q) => WillSettle(q)'
    BY DEF WillSettle
  <1> QED BY <1>1, SettleQuiet

\* Every step leaves a transitional Node with somebody to settle it.
LEMMA SettleStep == TypeInv /\ SettleInv /\ [Next]_vars => SettleInv'
  <1> SUFFICES ASSUME TypeInv, SettleInv, [Next]_vars PROVE NoOrphanedTransition'
    BY FreshStep DEF SettleInv
  <1>0. /\ TypeOK /\ FreshAskedOff /\ NoOrphanedTransition
        /\ Worker \in Procs /\ Monitors \subseteq Procs /\ Worker \notin Monitors
    BY WorkerAssumption DEF TypeInv, SettleInv, Procs
  <1>1. \A w : Failed(w) => Failed(w)'
    BY ErrorsStay
  <1>2. CASE UNCHANGED vars
    BY <1>0, <1>1, <1>2, SettleQuiet DEF vars, WillSettle
  <1>3. ASSUME proc[Worker].pc \in {"idle", "get", "clean", "cordon", "acquire"},
               progress' = progress, crashes' = crashes,
               \A q \in Procs \ {Worker} : proc'[q] = proc[q]
        PROVE  NoOrphanedTransition'
    <2>1. ~WillSettle(Worker)
      BY <1>3 DEF WillSettle
    <2> QED BY <1>0, <1>1, <1>3, <2>1, SettleMoved
  <1>4. CASE CleanupExpiredLocks
    <2>1. \A q \in Procs \ {Worker} : proc'[q] = proc[q]
      BY <1>0, <1>4, GotoLemma DEF CleanupExpiredLocks, Labels
    <2> QED BY <1>3, <1>4, <2>1 DEF CleanupExpiredLocks
  <1>5. CASE ValidateTransitional
    <2>1. \A q \in Procs \ {Worker} : proc'[q] = proc[q]
      BY <1>0, <1>5, FinishLemma DEF ValidateTransitional
    <2> QED BY <1>3, <1>5, <2>1 DEF ValidateTransitional
  <1>6. CASE HandleStateTransitions
    <2>1. \E r : proc' = [proc EXCEPT ![Worker] = r]
      BY <1>6 DEF HandleStateTransitions, Finish
    <2>2. \A q \in Procs \ {Worker} : proc'[q] = proc[q]
      BY <1>0, <2>1 DEF TypeOK
    <2> QED BY <1>3, <1>6, <2>2 DEF HandleStateTransitions, node, counters
  <1>7. CASE CleanupPendingJobs
    <2>1. \A q \in Procs \ {Worker} : proc'[q] = proc[q]
      BY <1>0, <1>7, GotoLemma DEF CleanupPendingJobs, Labels
    <2> QED BY <1>3, <1>7, <2>1 DEF CleanupPendingJobs, node
  <1>8. CASE SetNodeUnschedulable
    <2>1. \A q \in Procs \ {Worker} : proc'[q] = proc[q]
      BY <1>0, <1>8, GotoLemma DEF SetNodeUnschedulable, Labels
    <2> QED BY <1>3, <1>8, <2>1 DEF SetNodeUnschedulable, node
  <1>9. CASE AcquireLock
    <2>1. \E r : proc' = [proc EXCEPT ![Worker] = r]
      BY <1>9 DEF AcquireLock, Finish
    <2>2. \A q \in Procs \ {Worker} : proc'[q] = proc[q]
      BY <1>0, <2>1 DEF TypeOK
    <2> QED BY <1>3, <1>9, <2>2 DEF AcquireLock
  <1>10. CASE AcquireRefused
    <2>1. \A q \in Procs \ {Worker} : proc'[q] = proc[q]
      BY <1>0, <1>10, FinishLemma DEF AcquireRefused
    <2> QED BY <1>3, <1>10, <2>1 DEF AcquireRefused, node
  <1>11. CASE EnterTransitional
    <2>1. proc'[Worker].pc = "create"
      BY <1>0, <1>11, GotoLemma DEF EnterTransitional, Labels
    <2> QED BY <1>0, <2>1 DEF NoOrphanedTransition, WillSettle
  <1>12. CASE CreateJob
    <2>1. CASE Raise(Worker, EventJobFailed)
      <3>1. proc'[Worker].pc = "enterStable"
        BY <1>0, <2>1, RaiseLemma DEF JobEvents
      <3> QED BY <1>0, <3>1 DEF NoOrphanedTransition, WillSettle
    <2>2. CASE ~Raise(Worker, EventJobFailed)
      <3>1. PICK n \in FreeMonitors :
               proc' = [proc EXCEPT ![n] = At("poll", proc[Worker].op, NoEvent, 0),
                                    ![Worker] = Idle]
        BY <1>12, <2>2 DEF CreateJob
      <3>2. n \in Monitors /\ n # Worker
        BY <1>0 DEF FreeMonitors
      <3>3. proc'[n].pc = "poll"
        BY <1>0, <3>1, <3>2 DEF TypeOK, At
      <3> QED BY <1>0, <3>2, <3>3 DEF NoOrphanedTransition, WillSettle
    <2> QED BY <2>1, <2>2
  <1>13. ASSUME NEW p \in Procs, HookNext(p) PROVE NoOrphanedTransition'
    <2> SUFFICES ASSUME ~Failed("progress")', IsTransitionalState(progress')
                 PROVE  \E q \in Procs : WillSettle(q)'
      BY DEF NoOrphanedTransition
    <2>1. proc'[p].pc \in Hooks
      BY <1>13, HookSettles
    <2> QED BY <2>1 DEF WillSettle, Hooks
  <1>14. ASSUME NEW m \in Monitors, MonitorJobCompletion(m) PROVE NoOrphanedTransition'
    <2>1. PICK e \in JobEvents : Raise(m, e)
      BY <1>14 DEF MonitorJobCompletion, JobEvents
    <2>2. proc'[m].pc = "enterStable"
      BY <1>0, <2>1, RaiseLemma
    <2> QED BY <1>0, <2>2 DEF NoOrphanedTransition, WillSettle
  <1>15. ASSUME NEW m \in Monitors, JobActs(m) \/ JobEnds(m) PROVE NoOrphanedTransition'
    BY <1>0, <1>1, <1>15, SettleQuiet DEF JobActs, JobEnds, node, counters, WillSettle
  <1>16. CASE ReconcileKubernetesNode
    <2>1. IsTransitionalState(progress') => IsTransitionalState(progress)
      BY <1>16 DEF ReconcileKubernetesNode, IsTransitionalState, StateReady, StateShutdown,
                   StateStartingUp, StateShuttingDown
    <2> QED BY <1>0, <1>1, <1>16, <2>1, SettleQuiet
            DEF ReconcileKubernetesNode, counters, WillSettle
  <1>17. CASE GrpcNext
    BY <1>0, <1>1, <1>17, SettleQuiet
       DEF GrpcNext, NodeGroupIncreaseSize, NodeGroupDeleteNodes, NodeGroupDecreaseTargetSize,
           WillSettle
  <1>18. CASE DecreaseUpdatesStatus
    <2>1. IsTransitionalState(progress') => IsTransitionalState(progress)
      BY <1>0, <1>18 DEF DecreaseUpdatesStatus, FreshAskedOff, IsTransitionalState
    <2> QED BY <1>0, <1>1, <1>18, <2>1, SettleQuiet
            DEF DecreaseUpdatesStatus, counters, WillSettle
  <1>19. CASE KubeletReports
    BY <1>0, <1>1, <1>19, SettleQuiet DEF KubeletReports, node, counters, WillSettle
  <1>20. CASE Tick
    <2>1. \A p \in Procs : WillSettle(p) => WillSettle(p)'
      BY <1>20, TickFrame DEF WillSettle
    <2> QED BY <1>0, <1>1, <1>20, <2>1, SettleQuiet DEF Tick, counters
  <1>21. CASE Crash
    <2>1. crashes \in 0..MaxCrashes
      BY <1>0 DEF TypeOK
    <2>2. crashes' # 0
      BY <1>21, <2>1 DEF Crash
    <2> QED BY <2>2 DEF NoOrphanedTransition
  <1> QED BY <1>2, <1>4, <1>5, <1>6, <1>7, <1>8, <1>9, <1>10, <1>11, <1>12, <1>13, <1>14,
             <1>15, <1>16, <1>17, <1>18, <1>19, <1>20, <1>21 DEF Next, WorkerNext

\* Without restarts, and as long as the updates of the progress succeed whatever else
\* fails, a Node that is starting up or shutting down always
\* has a goroutine (the worker about to create the Job, a monitor, or the hooks) that
\* will still write ready or shutdown, also after NodeGroupDecreaseTargetSize has
\* turned a startup into a shutdown behind its back.
THEOREM TransitionsAreWatched == Spec => []NoOrphanedTransition
  <1>1. Init => SettleInv
    <2>1. Init => ~IsTransitionalState(progress) /\ grpc # "fresh"
      BY DEF Init, IsTransitionalState, NoProgress, StateStartingUp, StateShuttingDown
    <2> QED BY <2>1 DEF SettleInv, FreshAskedOff, NoOrphanedTransition
  <1>2. SettleInv => NoOrphanedTransition
    BY DEF SettleInv
  <1> QED BY <1>1, <1>2, TypeInit, TypeStep, SettleStep, PTL DEF Spec

----------------------------------------------------------------------------
(* The Node object *)

\* A step that makes no progress transitional and does not bring the worker to where it
\* prepares an operation.
LEMMA SettledQuiet ==
    ASSUME WorkerSettled, IsTransitionalState(progress') => IsTransitionalState(progress),
           proc'[Worker].pc \in Preparing => proc[Worker].pc \in Preparing
    PROVE  WorkerSettled'
  BY DEF WorkerSettled

\* Every step leaves the Node at rest while the worker prepares an operation on it.
LEMMA WorkerSettledStep == TypeInv /\ ObjectInv /\ [Next]_vars => WorkerSettled'
  <1> SUFFICES ASSUME TypeInv, ObjectInv, [Next]_vars PROVE WorkerSettled'
    OBVIOUS
  <1>0. /\ TypeOK /\ FreshAskedOff /\ WorkerSettled
        /\ Worker \in Procs /\ Monitors \subseteq Procs /\ Worker \notin Monitors
    BY WorkerAssumption DEF TypeInv, ObjectInv, Procs
  <1>1. CASE UNCHANGED <<progress, proc>>
    BY <1>0, <1>1, SettledQuiet
  <1>2. CASE WorkerNext
    <2>1. CASE CleanupExpiredLocks
      <3>1. proc'[Worker].pc = "get"
        BY <1>0, <2>1, GotoLemma DEF CleanupExpiredLocks, Labels
      <3> QED BY <3>1 DEF WorkerSettled, Preparing
    <2>2. CASE ValidateTransitional \/ AcquireRefused
      <3>1. proc'[Worker].pc = "idle"
        BY <1>0, <2>2, FinishLemma DEF ValidateTransitional, AcquireRefused
      <3> QED BY <3>1 DEF WorkerSettled, Preparing
    <2>3. CASE HandleStateTransitions
      BY <2>3 DEF HandleStateTransitions, node, WorkerSettled
    <2>4. CASE CleanupPendingJobs \/ SetNodeUnschedulable \/ AcquireLock
      <3>1. proc[Worker].pc \in Preparing /\ progress' = progress
        BY <2>4 DEF CleanupPendingJobs, SetNodeUnschedulable, AcquireLock, Preparing, node
      <3> QED BY <1>0, <3>1 DEF WorkerSettled
    <2>5. CASE EnterTransitional
      <3>1. proc'[Worker].pc = "create"
        BY <1>0, <2>5, GotoLemma DEF EnterTransitional, Labels
      <3> QED BY <3>1 DEF WorkerSettled, Preparing
    <2>6. CASE CreateJob
      <3>1. proc'[Worker].pc \in {"idle", "enterStable"}
        BY <1>0, <2>6, CreateFrame
      <3> QED BY <3>1 DEF WorkerSettled, Preparing
    <2> QED BY <1>2, <2>1, <2>2, <2>3, <2>4, <2>5, <2>6 DEF WorkerNext
  <1>3. ASSUME NEW p \in Procs, HookNext(p) PROVE WorkerSettled'
    <2>1. proc'[Worker].pc \in Preparing => proc'[Worker] = proc[Worker]
      BY <1>0, <1>3, HookFrame DEF Hooks, Preparing
    <2> QED BY <1>0, <1>3, <2>1, HookSettles, SettledQuiet
  <1>4. ASSUME NEW m \in Monitors, MonitorJobCompletion(m) PROVE WorkerSettled'
    <2>1. PICK e \in JobEvents : Raise(m, e)
      BY <1>4 DEF MonitorJobCompletion, JobEvents
    <2>2. proc'[Worker] = proc[Worker] /\ progress' = progress
      BY <1>0, <1>4, <2>1, RaiseLemma DEF MonitorJobCompletion, node
    <2> QED BY <1>0, <2>2, SettledQuiet
  <1>5. CASE ReconcileKubernetesNode
    <2>1. IsTransitionalState(progress') => IsTransitionalState(progress)
      BY <1>5 DEF ReconcileKubernetesNode, IsTransitionalState, StateReady, StateShutdown,
                  StateStartingUp, StateShuttingDown
    <2> QED BY <1>0, <1>5, <2>1, SettledQuiet DEF ReconcileKubernetesNode
  <1>6. CASE DecreaseUpdatesStatus
    <2>1. IsTransitionalState(progress') => IsTransitionalState(progress)
      BY <1>0, <1>6 DEF DecreaseUpdatesStatus, FreshAskedOff, IsTransitionalState
    <2> QED BY <1>0, <1>6, <2>1, SettledQuiet DEF DecreaseUpdatesStatus
  <1>7. CASE GrpcNext \/ KubeletReports \/ \E m \in Monitors : JobActs(m) \/ JobEnds(m)
    BY <1>1, <1>7 DEF GrpcNext, NodeGroupIncreaseSize, NodeGroupDeleteNodes,
                      NodeGroupDecreaseTargetSize, KubeletReports, JobActs, JobEnds, node
  <1>8. CASE Tick
    <2>1. proc'[Worker].pc = proc[Worker].pc /\ progress' = progress
      BY <1>0, <1>8, TickFrame DEF Tick
    <2> QED BY <1>0, <2>1, SettledQuiet
  <1>9. CASE Crash
    <2>1. proc'[Worker].pc = "idle"
      BY <1>0, <1>9, IdleLemma DEF Crash
    <2> QED BY <2>1 DEF WorkerSettled, Preparing
  <1>10. CASE UNCHANGED vars
    BY <1>1, <1>10 DEF vars
  <1> QED BY <1>2, <1>3, <1>4, <1>5, <1>6, <1>7, <1>8, <1>9, <1>10 DEF Next

\* Together: what the two writers that make a Node transitional count on.
LEMMA ObjectInvInit == Init => ObjectInv
  <1>1. Init => proc[Worker].pc = "idle" /\ grpc = "idle"
    BY IdleLemma DEF Init, Procs
  <1> QED BY <1>1 DEF ObjectInv, FreshAskedOff, WorkerSettled, Preparing

LEMMA ObjectInvStep == TypeInv /\ ObjectInv /\ [Next]_vars => ObjectInv'
  BY FreshStep, WorkerSettledStep DEF ObjectInv

\* NodeObject has its own copies of the names of NodeFsm.
LEMMA SameNames ==
    /\ Object!States = States
    /\ Object!StateStartingUp = StateStartingUp /\ Object!StateShuttingDown = StateShuttingDown
    /\ Object!StateReady = StateReady /\ Object!StateShutdown = StateShutdown
    /\ Object!PowerStateOn = PowerStateOn /\ Object!PowerStateOff = PowerStateOff
    /\ Object!PowerStates = PowerStates
    /\ \A s : Object!IsTransitionalState(s) <=> IsTransitionalState(s)
  BY DEF States, StateShutdown, StateStartingUp, StateReady, StateShuttingDown,
         PowerStates, PowerStateOn, PowerStateOff, IsTransitionalState,
         Object!States, Object!StateShutdown, Object!StateStartingUp, Object!StateReady,
         Object!StateShuttingDown, Object!PowerStates, Object!PowerStateOn,
         Object!PowerStateOff, Object!IsTransitionalState

\* The hooks write a state or, when the update fails, nothing; a transitional state they
\* write on a Node at rest only.
LEMMA UpdateIsObjectStep ==
    ASSUME TypeOK, NEW s \in States, updateNodeProgress(s), UNCHANGED <<desired, power>>,
           IsTransitionalState(s) => ~IsTransitionalState(progress)
    PROVE  [Object!Next]_(Object!vars)
  <1>1. CASE progress' = s
    BY <1>1, SameNames DEF Object!Next, Object!WriteProgress
  <1>2. CASE progress' = progress
    BY <1>2 DEF Object!vars
  <1> QED BY <1>1, <1>2 DEF updateNodeProgress

\* Every step is one of NodeObject, or leaves the Node object as its readers see it.
LEMMA StepIsObjectStep == TypeInv /\ ObjectInv /\ [Next]_vars => [Object!Next]_(Object!vars)
  <1> SUFFICES ASSUME TypeInv, ObjectInv, [Next]_vars PROVE [Object!Next]_(Object!vars)
    OBVIOUS
  <1>0. TypeOK /\ FreshAskedOff /\ WorkerSettled
    BY DEF TypeInv, ObjectInv
  <1>1. ASSUME UNCHANGED <<desired, power, progress>> PROVE [Object!Next]_(Object!vars)
    BY <1>1 DEF Object!vars
  <1>2. CASE UNCHANGED vars
    BY <1>1, <1>2 DEF vars
  <1>3. CASE WorkerNext
    <2>1. CASE EnterTransitional
      <3>1. Source(proc[Worker].op) \in States /\ ~IsTransitionalState(progress)
        BY <1>0, <2>1 DEF EnterTransitional, Source, States, WorkerSettled, Preparing
      <3> QED BY <1>0, <2>1, <3>1, UpdateIsObjectStep DEF EnterTransitional
    <2>2. CASE ~EnterTransitional
      BY <1>1, <1>3, <2>2
         DEF WorkerNext, CleanupExpiredLocks, ValidateTransitional, HandleStateTransitions,
             CleanupPendingJobs, SetNodeUnschedulable, AcquireLock, AcquireRefused, CreateJob,
             node
    <2> QED BY <2>1, <2>2
  <1>4. ASSUME NEW p \in Procs, HookNext(p) PROVE [Object!Next]_(Object!vars)
    <2>1. CASE EnterStable(p) \/ UpdateProgressAgain(p)
      <3>1. Dst(p) \in States /\ ~IsTransitionalState(Dst(p))
        BY <2>1, DstLemma DEF EnterStable, UpdateProgressAgain, Hooks
      <3> QED BY <1>0, <2>1, <3>1, UpdateIsObjectStep DEF EnterStable, UpdateProgressAgain
    <2>2. CASE SetNodeSchedulable(p) \/ ReleaseLock(p)
      BY <1>1, <2>2 DEF SetNodeSchedulable, ReleaseLock, node
    <2> QED BY <1>4, <2>1, <2>2 DEF HookNext
  <1>5. CASE NodeGroupIncreaseSize
    BY <1>5, SameNames DEF NodeGroupIncreaseSize, Object!Next, Object!AskOn, Object!PoweredOff
  <1>6. CASE NodeGroupDeleteNodes \/ NodeGroupDecreaseTargetSize
    BY <1>6, SameNames
       DEF NodeGroupDeleteNodes, NodeGroupDecreaseTargetSize, Object!Next, Object!AskOff
  <1>7. CASE DecreaseUpdatesStatus
    <2>1. CASE grpc = "fresh" /\ progress' = StateShuttingDown
      BY <1>0, <1>7, <2>1, SameNames
         DEF DecreaseUpdatesStatus, FreshAskedOff, Object!Next, Object!TurnBack
    <2>2. CASE UNCHANGED progress
      BY <1>1, <1>7, <2>2 DEF DecreaseUpdatesStatus
    <2> QED BY <1>7, <2>1, <2>2 DEF DecreaseUpdatesStatus
  <1>8. CASE ReconcileKubernetesNode
    <2>1. power' \in PowerStates
      BY <1>8 DEF ReconcileKubernetesNode, getNodeStatus, PowerStates
    <2>2. progress' = IF IsTransitionalState(progress) THEN progress
                      ELSE IF power' = PowerStateOn THEN StateReady ELSE StateShutdown
      BY <1>8 DEF ReconcileKubernetesNode, getNodeStatus, PowerStateOn, PowerStateOff
    <2>3. UNCHANGED desired
      BY <1>8 DEF ReconcileKubernetesNode
    <2> QED BY <2>1, <2>2, <2>3, SameNames DEF Object!Next, Object!Mirror
  <1>9. ASSUME NEW m \in Monitors, MonitorJobCompletion(m) \/ JobActs(m) \/ JobEnds(m)
        PROVE  [Object!Next]_(Object!vars)
    BY <1>1, <1>9 DEF MonitorJobCompletion, JobActs, JobEnds, node
  <1>10. CASE KubeletReports \/ Tick \/ Crash
    BY <1>1, <1>10 DEF KubeletReports, Tick, Crash, node
  <1> QED BY <1>2, <1>3, <1>4, <1>5, <1>6, <1>7, <1>8, <1>9, <1>10 DEF Next, GrpcNext

\* Worker, hooks, mirror, gRPC calls and restarts together take the Node object through
\* the updates of NodeObject only, those GrpcScaling allows for: no operation begins on a
\* Node in transition, and what it has in progress is overruled by nobody but its hooks and
\* NodeGroupDecreaseTargetSize, which turns back startups it has told off only.
THEOREM ImplementsObject == Spec => ObjectSpec
  <1>1. Init => Object!Init
    <2>1. Init => /\ desired \in Object!PowerStates
                  /\ power \in Object!PowerStates \union {""}
                  /\ progress \in Object!Progresses
      BY DEF Init, PowerStates, PowerStateOn, PowerStateOff, NoProgress, Object!PowerStates,
             Object!PowerStateOn, Object!PowerStateOff, Object!Progresses, Object!NoProgress
    <2> QED BY <2>1 DEF Object!Init
  <1> QED BY <1>1, TypeInit, TypeStep, ObjectInvInit, ObjectInvStep, StepIsObjectStep, PTL
          DEF Spec, ObjectSpec, Object!Spec
----------------------------------------------------------------------------
(* Rest *)

\* The Node is as desired, the mirror has seen the machine, no Pod runs, not even that of a
\* deleted Job, and nobody is in the middle of an operation.
AtRest ==
    /\ Settled
    /\ kubeReady = (machine = PowerStateOn)
    /\ \A m \in Monitors : ~PodRuns(m)
    /\ \A p \in Procs : proc[p].pc \in {"idle", "get"}
RestStep == AtRest /\ requests' = requests => AtRest'
RestIsStable == [][RestStep]_vars

\* A Node at rest is in the stable state that goes with its power, and its worker finds
\* nothing to do: neither condition of handleStateTransitionsWithFSM holds.
LEMMA RestQuiet ==
    ASSUME TypeInv, AtRest
    PROVE  /\ ~IsTransitionalState(progress) /\ ~WantsStart /\ ~WantsShutdown
           /\ power = getNodeStatus
  <1>1. power = desired
    BY DEF AtRest, Settled
  <1>2. ~IsTransitionalState(progress)
    BY DEF AtRest, Settled, IsTransitionalState, StateReady, StateShutdown,
           StateStartingUp, StateShuttingDown
  <1>4. power = getNodeStatus
    <2>1. machine = power /\ machine \in {PowerStateOn, PowerStateOff}
      BY DEF AtRest, Settled, TypeInv, TypeOK, PowerStates
    <2>2. kubeReady <=> machine = PowerStateOn
      BY DEF AtRest
    <2> QED BY <2>1, <2>2 DEF getNodeStatus
  <1>3. ~WantsStart /\ ~WantsShutdown
    BY <1>1 DEF WantsStart, WantsShutdown, PowerStateOn, PowerStateOff
  <1> QED BY <1>2, <1>3, <1>4

\* Nothing but the worker's own place, time and the count of restarts moves.
LEMMA RestKept ==
    ASSUME AtRest, UNCHANGED <<desired, power, progress, lock, job, machine, kubeReady>>,
           \A p \in Procs : proc'[p].pc \in {"idle", "get"}
    PROVE  AtRest'
  BY DEF AtRest, Settled, PodRuns

\* At rest, no step but a gRPC call changes the Node, its Jobs or its machine.
LEMMA RestNext == TypeInv /\ FreshAskedOff /\ [Next]_vars => RestStep
  <1> SUFFICES ASSUME TypeInv, FreshAskedOff, [Next]_vars, AtRest, requests' = requests
               PROVE  AtRest'
    BY DEF RestStep
  <1>0. TypeOK
    BY DEF TypeInv
  <1>1. \A p \in Procs : proc[p].pc \in {"idle", "get"}
    BY DEF AtRest
  <1>2. Worker \in Procs /\ Monitors \subseteq Procs
    BY DEF Procs
  <1>3. lock = Unlocked /\ \A m \in Monitors : ~PodRuns(m)
    BY DEF AtRest, Settled
  <1>4. CASE UNCHANGED vars
    BY <1>1, <1>4, RestKept DEF vars
  <1>5. CASE CleanupExpiredLocks
    <2>1. UNCHANGED lock /\ Goto(Worker, "get")
      BY <1>3, <1>5 DEF CleanupExpiredLocks
    <2>2. \A p \in Procs : proc'[p].pc \in {"idle", "get"}
      BY <1>0, <1>1, <1>2, <2>1, GotoLemma DEF Labels
    <2> QED BY <1>5, <2>1, <2>2, RestKept DEF CleanupExpiredLocks, world
  <1>6. CASE HandleStateTransitions
    <2>1. Finish(Worker)
      BY <1>6, RestQuiet DEF HandleStateTransitions
    <2>2. \A p \in Procs : proc'[p].pc \in {"idle", "get"}
      BY <1>0, <1>1, <1>2, <2>1, FinishLemma
    <2> QED BY <1>6, <2>2, RestKept DEF HandleStateTransitions, node, world
  <1>7. ~(\/ ValidateTransitional \/ CleanupPendingJobs \/ SetNodeUnschedulable
          \/ AcquireLock \/ AcquireRefused \/ EnterTransitional \/ CreateJob)
    BY <1>1, <1>2, RestQuiet
       DEF ValidateTransitional, CleanupPendingJobs, SetNodeUnschedulable, AcquireLock,
           AcquireRefused, EnterTransitional, CreateJob
  <1>8. \A p \in Procs : ~HookNext(p)
    BY <1>1 DEF HookNext, EnterStable, SetNodeSchedulable, ReleaseLock, UpdateProgressAgain
  <1>9. \A m \in Monitors : ~MonitorJobCompletion(m) /\ ~JobActs(m) /\ ~JobEnds(m)
    BY <1>1, <1>2, <1>3 DEF MonitorJobCompletion, JobActs, JobEnds
  <1>10. ~ReconcileKubernetesNode /\ ~KubeletReports
    <2>1. kubeReady = (machine = PowerStateOn)
      BY DEF AtRest
    <2> QED BY <2>1, RestQuiet DEF ReconcileKubernetesNode, KubeletReports
  <1>11. ~GrpcNext
    <2>1. SUFFICES ASSUME Request PROVE FALSE
      BY <2>1, Zenon DEF GrpcNext, NodeGroupIncreaseSize, NodeGroupDeleteNodes,
                         NodeGroupDecreaseTargetSize
    <2>2. MaxRequests \in Nat /\ requests \in 0..MaxRequests
      BY <1>0, BoundsAssumption DEF TypeOK
    <2>3. requests' = requests + 1
      BY <2>1 DEF Request
    <2> QED BY <2>2, <2>3
  <1>12. CASE DecreaseUpdatesStatus
    <2>1. grpc # "fresh"
      <3>1. ~IsTransitionalState(progress)
        BY RestQuiet
      <3> QED BY <3>1 DEF FreshAskedOff, IsTransitionalState
    <2> QED BY <1>1, <1>12, <2>1, RestKept DEF DecreaseUpdatesStatus, world
  <1>13. CASE Tick
    <2>1. \A p \in Procs : proc'[p].pc \in {"idle", "get"}
      BY <1>1, <1>13, TickFrame
    <2> QED BY <1>13, <2>1, RestKept DEF Tick, world
  <1>14. CASE Crash
    <2>1. \A p \in Procs : proc'[p].pc \in {"idle", "get"}
      BY <1>14, IdleLemma DEF Crash
    <2> QED BY <1>14, <2>1, RestKept DEF Crash, node, world
  <1> QED BY <1>4, <1>5, <1>6, <1>7, <1>8, <1>9, <1>10, <1>11, <1>12, <1>13, <1>14
          DEF Next, WorkerNext

\* The safety half of Converges: a Node that is as desired stays so until gRPC is called,
\* whatever the controllers do, across restarts and with a NodeGroupDecreaseTargetSize still
\* under way, whose second update can no longer turn the Node back.
THEOREM RestStays == Spec => RestIsStable
  <1>1. TypeInv /\ ObjectInv /\ [Next]_vars => [RestStep]_vars
    BY RestNext DEF ObjectInv
  <1> QED BY <1>1, TypeInit, TypeStep, ObjectInvInit, ObjectInvStep, PTL DEF Spec, RestIsStable
=============================================================================
