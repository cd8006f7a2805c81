--------------------------- MODULE NodeLifecycle ---------------------------
(***************************************************************************)
(* The life of one Node: the worker of the node controller                 *)
(* (internal/controller/infra/node_controller.go) that runs the state      *)
(* machine, the goroutine each power operation leaves behind to watch its  *)
(* Job (internal/fsm), the controller that mirrors the Kubernetes node     *)
(* (internal/controller/core), the gRPC calls that change what is desired  *)
(* and the Job, machine and kubelet they act on.  All of them meet in the  *)
(* Node object and interleave at every API call.  Get-modify-update loops  *)
(* under RetryOnConflict are single steps here; CoordinationLock opens     *)
(* them up and is shown to implement the single-step lock.                 *)
(***************************************************************************)
EXTENDS NodeFsm, Integers, FiniteSets

CONSTANTS
    Monitors,         \* slots for monitorJobCompletion goroutines and their Jobs
    Worker,           \* the reconcile worker (MaxConcurrentReconciles is 1)
    LockTimeout, JobTimeout, UncordonTimeout, StuckAfter,   \* in ticks
    JobOutcomes,      \* what may become of a Job's Pod, and of the Job with it
    Prompt,           \* TRUE: API calls take no time, Jobs end within JobTimeout
    MaxRequests,      \* bound on gRPC calls that change the Node
    MaxErrors,        \* bound on failing API calls
    MaxCrashes        \* bound on restarts of the controller process

Procs == Monitors \union {Worker}

ASSUME WorkerAssumption == Worker \notin Monitors
ASSUME TimeoutsAssumption ==
    {LockTimeout, JobTimeout, UncordonTimeout, StuckAfter} \subseteq Nat \ {0}
ASSUME StuckAssumption == LockTimeout <= StuckAfter
ASSUME OutcomesAssumption ==
    JobOutcomes \subseteq {"succeeded", "failed", "retrying"} /\ Prompt \in BOOLEAN
ASSUME BoundsAssumption == {MaxRequests, MaxErrors, MaxCrashes} \subseteq Nat

Unlocked == ""      \* no operation-lock annotation
NoEvent == ""       \* no FSM event under way
Never == -1         \* LastStartupTime / LastShutdownTime is nil

VARIABLES
    desired,        \* Spec.DesiredPowerState
    power,          \* Status.PowerState
    progress,       \* Status.Progress
    lock,           \* operation-lock annotation; the owner is the node controller
    lockAge,        \* time since lock-timestamp
    startupAge,     \* time since Status.LastStartupTime
    shutdownAge,    \* time since Status.LastShutdownTime
    job,            \* job[m]: the Job watched in slot m, and its Pod
    machine,        \* whether the machine really runs
    kubeReady,      \* the Ready condition of the Kubernetes node
    unschedulable,  \* its Spec.Unschedulable
    proc,           \* proc[p]: where worker and monitors are
    grpc,           \* NodeGroupDecreaseTargetSize between its two updates
    requests, crashes,   \* how much of each bound is used
    errors          \* how many API calls failed or read too old a copy, by kind

node == <<desired, power, progress, lock, lockAge, startupAge, shutdownAge>>
world == <<job, machine, kubeReady, unschedulable>>
counters == <<requests, errors, crashes>>
vars == <<desired, power, progress, lock, lockAge, startupAge, shutdownAge,
          job, machine, kubeReady, unschedulable, proc, grpc, requests, errors, crashes>>

Failures == {"cleanup", "cordon", "lock", "create", "progress"}
ErrorRecords == [count : 0..MaxErrors, of : SUBSET Failures]
NoErrors == [count |-> 0, of |-> {}]

\* active: no Pod has ended yet (Succeeded and Failed are 0); retrying: a Pod has failed
\* and the Job controller runs another; orphaned: the Job is deleted, its Pod runs on.
JobStatuses == {"none", "active", "retrying", "orphaned", "succeeded", "failed"}
NoJob == [op |-> OperationScaleUp, status |-> "none"]
Jobs == [op : Operations, status : JobStatuses]

\* op: the operation of the state machine p runs; event: the event being processed;
\* timer: time since monitoring, or the uncordon loop, began; in the worker, the age of
\* the lock on the Node as it was read.
At(pc, op, event, timer) == [pc |-> pc, op |-> op, event |-> event, timer |-> timer]
Idle == At("idle", OperationScaleUp, NoEvent, 0)
Labels == {"idle", "get", "clean", "cordon", "acquire", "enter", "create",
           "poll", "enterStable", "uncordon", "release", "final"}
ProcStates ==
    [pc : Labels, op : Operations, event : JobEvents \union {NoEvent}, timer : Nat]

TypeOK ==
    /\ desired \in PowerStates
    /\ power \in PowerStates \union {""}
    /\ progress \in Progresses
    /\ lock \in Operations \union {Unlocked}
    /\ lockAge \in Nat
    /\ startupAge \in Nat \union {Never} /\ shutdownAge \in Nat \union {Never}
    /\ job \in [Monitors -> Jobs]
    /\ machine \in PowerStates
    /\ kubeReady \in BOOLEAN /\ unschedulable \in BOOLEAN
    /\ proc \in [Procs -> ProcStates]
    /\ grpc \in {"idle", "fresh", "stale"}
    /\ requests \in 0..MaxRequests /\ errors \in ErrorRecords /\ crashes \in 0..MaxCrashes

\* A Node that was just created, on a machine that runs or does not.
Init ==
    /\ desired \in PowerStates
    /\ power = "" /\ progress = NoProgress
    /\ lock = Unlocked /\ lockAge = 0
    /\ startupAge = Never /\ shutdownAge = Never
    /\ job = [m \in Monitors |-> NoJob]
    /\ machine \in PowerStates
    /\ kubeReady = (machine = PowerStateOn) /\ unschedulable = FALSE
    /\ proc = [p \in Procs |-> Idle]
    /\ grpc = "idle"
    /\ requests = 0 /\ errors = NoErrors /\ crashes = 0

----------------------------------------------------------------------------
(* Helpers *)

Goto(p, label) == proc' = [proc EXCEPT ![p].pc = label]
Finish(p) == proc' = [proc EXCEPT ![p] = Idle]
\* The state machine of p is given an event about its Job.
Raise(p, e) == proc' = [proc EXCEPT ![p] = At("enterStable", proc[p].op, e, 0)]

\* An API call of ours fails, or decides on a cached copy that is too old; the callers
\* log it, or do not notice, and go on.
Fails(what) ==
    /\ errors.count < MaxErrors
    /\ errors' = [count |-> errors.count + 1, of |-> errors.of \union {what}]
Failed(what) == what \in errors.of

\* Any write to the Node makes the copy NodeGroupDecreaseTargetSize holds stale.
Touch == grpc' = IF grpc = "fresh" THEN "stale" ELSE grpc

\* The state an operation passes through, the event's destination, the power it aims at.
Source(op) == IF op = OperationScaleUp THEN StateStartingUp ELSE StateShuttingDown
Dst(p) == GetDestinationState(Source(proc[p].op), proc[p].event)
Target(op) == IF op = OperationScaleUp THEN PowerStateOn ELSE PowerStateOff

isLockExpired == lockAge > LockTimeout
Locked == lock # Unlocked /\ ~isLockExpired

\* Faulty variant: a timestamp is set when there is none only.
UpdateKeepsTimestamp(s) ==
    \/ /\ progress' = s
       /\ startupAge' = IF s = StateStartingUp /\ startupAge = Never THEN 0 ELSE startupAge
       /\ shutdownAge' = IF s = StateShuttingDown /\ shutdownAge = Never THEN 0 ELSE shutdownAge
       /\ Touch
       /\ UNCHANGED errors
    \/ Fails("progress") /\ UNCHANGED <<progress, startupAge, shutdownAge, grpc>>

\* Status().Update with the given progress and its timestamp (updateNodeProgress),
\* or the failure of it, which is only logged.
updateNodeProgress(s) ==
    \/ /\ progress' = s
       /\ startupAge' = IF s = StateStartingUp THEN 0 ELSE startupAge
       /\ shutdownAge' = IF s = StateShuttingDown THEN 0 ELSE shutdownAge
       /\ Touch
       /\ UNCHANGED errors
    \/ Fails("progress") /\ UNCHANGED <<progress, startupAge, shutdownAge, grpc>>

\* forceReleaseLock and ReleaseLock: a lock is removed, or the update fails and is
\* logged.  Without a lock nothing is written.
removeLock ==
    \/ lock # Unlocked /\ lock' = Unlocked /\ lockAge' = 0 /\ Touch /\ UNCHANGED errors
    \/ lock = Unlocked /\ UNCHANGED <<lock, lockAge, grpc, errors>>
    \/ Fails("lock") /\ UNCHANGED <<lock, lockAge, grpc>>

----------------------------------------------------------------------------
(* The reconcile worker *)

\* Faulty variant: locks are cleaned up on transitional Nodes only.
CleanupTransitionalOnly ==
    /\ proc[Worker].pc = "idle"
    /\ Goto(Worker, "get")
    /\ IF lock # Unlocked /\ isLockExpired /\ IsTransitionalState(progress)
         THEN removeLock
         ELSE UNCHANGED <<lock, lockAge, grpc, errors>>
    /\ UNCHANGED <<desired, power, progress, startupAge, shutdownAge, world, requests, crashes>>

\* cleanupExpiredLocks, first thing in Reconcile.
CleanupExpiredLocks ==
    /\ proc[Worker].pc = "idle"
    /\ Goto(Worker, "get")
    /\ IF lock # Unlocked /\ isLockExpired
         THEN removeLock
         ELSE UNCHANGED <<lock, lockAge, grpc, errors>>
    /\ UNCHANGED <<desired, power, progress, startupAge, shutdownAge, world, requests, crashes>>

\* How long validateStateTransition takes the transition to have lasted.
transitionDuration == IF progress = StateStartingUp THEN startupAge ELSE shutdownAge

\* validateStateTransition on a transitional Node: an expired lock is removed, any
\* lock is when the transition looks stuck; the Node is then left alone, because the
\* state machine built for it has no transition to make and no backoff to be stuck by.
ValidateTransitional ==
    /\ proc[Worker].pc = "get"
    /\ IsTransitionalState(progress)
    /\ IF lock # Unlocked /\ (isLockExpired \/ transitionDuration > StuckAfter)
         THEN removeLock
         ELSE UNCHANGED <<lock, lockAge, grpc, errors>>
    /\ Finish(Worker)
    /\ UNCHANGED <<desired, power, progress, startupAge, shutdownAge, world, requests, crashes>>

\* The branches of handleStateTransitionsWithFSM.
WantsStart == /\ desired = PowerStateOn
              /\ power \in {PowerStateOff, ""}
              /\ ValidateEventTransition(getCurrentState(progress), EventStartNode)
WantsShutdown == /\ desired = PowerStateOff
                 /\ power = PowerStateOn
                 /\ ValidateEventTransition(getCurrentState(progress), EventShutdownNode)

\* A Pod of slot m may still act.
PodRuns(m) == job[m].status \in {"active", "retrying", "orphaned"}

FreeMonitors == {m \in Monitors : proc[m].pc = "idle" /\ ~PodRuns(m)}

\* The age of the lock on the Node being read; no lock is as good as an expired one.
ageRead == IF lock = Unlocked THEN LockTimeout + 1 ELSE lockAge

\* The branch is chosen on the Node as read here and not looked at again.
HandleStateTransitions ==
    /\ proc[Worker].pc = "get"
    /\ ~IsTransitionalState(progress)
    /\ \/ /\ WantsStart \/ WantsShutdown
          /\ FreeMonitors # {}      \* bound: the number of slots
          /\ LET event == IF WantsStart THEN EventStartNode ELSE EventShutdownNode
             IN  proc' = [proc EXCEPT ![Worker] =
                             At("clean", GetOperationForEvent(event), NoEvent, ageRead)]
       \/ ~WantsStart /\ ~WantsShutdown /\ Finish(Worker)
    /\ UNCHANGED <<node, world, grpc, counters>>

\* Delete without a propagation policy: a batch/v1 Job leaves its Pod behind.
Deleted(j) == IF j.status \in {"active", "retrying"} THEN [j EXCEPT !.status = "orphaned"]
              ELSE NoJob

\* Faulty variant: only Jobs of the same type are deleted.
CleanupSameTypeOnly ==
    /\ proc[Worker].pc = "clean"
    /\ job' = [m \in Monitors |->
                 IF job[m].status = "active" /\ job[m].op = proc[Worker].op
                   THEN Deleted(job[m]) ELSE job[m]]
    /\ Goto(Worker, IF proc[Worker].op = OperationScaleDown THEN "cordon" ELSE "acquire")
    /\ UNCHANGED <<node, machine, kubeReady, unschedulable, grpc, counters>>

\* Faulty variant: a Job of the same type is kept.
CleanupOtherTypeOnly ==
    /\ proc[Worker].pc = "clean"
    /\ job' = [m \in Monitors |->
                 IF job[m].status = "active" /\ job[m].op # proc[Worker].op
                   THEN Deleted(job[m]) ELSE job[m]]
    /\ Goto(Worker, IF proc[Worker].op = OperationScaleDown THEN "cordon" ELSE "acquire")
    /\ UNCHANGED <<node, machine, kubeReady, unschedulable, grpc, counters>>

\* StartNode and ShutdownNode begin by deleting the Node's pending Jobs, before they hold
\* the lock.  Pending is a Job without an ended Pod, so that one being retried is left
\* alone.  A deletion may fail, and the cached list may miss a Job or show one as pending
\* that is not any more.  The taint that StartNode removes next is not modelled.
CleanupPendingJobs ==
    /\ proc[Worker].pc = "clean"
    /\ LET there == {m \in Monitors : job[m].status \notin {"none", "orphaned"}}
           pending == {m \in there : job[m].status = "active"}
       IN  \E deleted \in SUBSET there :
              /\ job' = [m \in Monitors |-> IF m \in deleted THEN Deleted(job[m]) ELSE job[m]]
              /\ IF deleted = pending THEN UNCHANGED errors ELSE Fails("cleanup")
    /\ Goto(Worker, IF proc[Worker].op = OperationScaleDown THEN "cordon" ELSE "acquire")
    /\ UNCHANGED <<node, machine, kubeReady, unschedulable, grpc, requests, crashes>>

\* ShutdownNode cordons the Kubernetes node, also before it holds the lock.  Nothing is
\* written, and no error returned, if the cached copy is an old one that was cordoned, or
\* is not there; this counts as a failed call here.
SetNodeUnschedulable ==
    /\ proc[Worker].pc = "cordon"
    /\ \/ unschedulable' = TRUE /\ UNCHANGED errors
       \/ Fails("cordon") /\ UNCHANGED unschedulable
    /\ Goto(Worker, "acquire")
    /\ UNCHANGED <<node, job, machine, kubeReady, grpc, requests, crashes>>

\* Faulty variant: a lock of the same operation is taken for one's own.
LockGrantedAgain == ~Locked \/ lock = proc[Worker].op

\* AcquireLock checks the lock on the Node as the worker read it and on a fresh copy: a
\* lock that was read and is gone since is still an error, until it would have expired.
LockGranted == proc[Worker].timer > LockTimeout /\ ~Locked

\* beforeStartNode, beforeShutdownNode.  The update may also be applied although its
\* answer is lost; the event is then cancelled and the lock stays.
AcquireLock ==
    /\ proc[Worker].pc = "acquire"
    /\ LockGranted
    /\ lock' = proc[Worker].op /\ lockAge' = 0 /\ Touch
    /\ \/ /\ proc' = [proc EXCEPT ![Worker] = At("enter", proc[Worker].op, NoEvent, 0)]
          /\ UNCHANGED errors
       \/ Finish(Worker) /\ Fails("lock")
    /\ UNCHANGED <<desired, power, progress, startupAge, shutdownAge, world, requests, crashes>>

AcquireRefused ==
    /\ proc[Worker].pc = "acquire"
    /\ \/ ~LockGranted /\ UNCHANGED errors
       \/ Fails("lock")
    /\ Finish(Worker)
    /\ UNCHANGED <<node, world, grpc, requests, crashes>>

\* enterStartingUp, enterShuttingDown
EnterTransitional ==
    /\ proc[Worker].pc = "enter"
    /\ updateNodeProgress(Source(proc[Worker].op))
    /\ Goto(Worker, "create")
    /\ UNCHANGED <<desired, power, lock, lockAge, world, requests, crashes>>

\* createStartupJob, createShutdownJob: the Job of an operation, as submitted.
newJob(op) == [op |-> op, status |-> "active"]

\* The Job is there, in a free slot.
Submit(m) == job' = [job EXCEPT ![m] = newJob(proc[Worker].op)]

\* Faulty variant: no event is raised when the call fails.
CreateJobGivesUp ==
    /\ proc[Worker].pc = "create"
    /\ \/ \E m \in FreeMonitors :
             /\ Submit(m)
             /\ proc' = [proc EXCEPT ![m] = At("poll", proc[Worker].op, NoEvent, 0),
                                     ![Worker] = Idle]
             /\ UNCHANGED errors
       \/ Fails("create") /\ Finish(Worker) /\ UNCHANGED job
    /\ UNCHANGED <<node, machine, kubeReady, unschedulable, grpc, requests, crashes>>

\* A Job that was created gets a monitor.  When the call fails, which it may do although
\* the Job was created, nobody watches and the worker itself raises JobFailed.
CreateJob ==
    /\ proc[Worker].pc = "create"
    /\ \/ \E m \in FreeMonitors :
             /\ Submit(m)
             /\ proc' = [proc EXCEPT ![m] = At("poll", proc[Worker].op, NoEvent, 0),
                                     ![Worker] = Idle]
             /\ UNCHANGED errors
       \/ /\ Fails("create")
          /\ Raise(Worker, EventJobFailed)
          /\ UNCHANGED job \/ \E m \in FreeMonitors : Submit(m)
    /\ UNCHANGED <<node, machine, kubeReady, unschedulable, grpc, requests, crashes>>

----------------------------------------------------------------------------
(* monitorJobCompletion and the hooks of the event it raises.  The hooks also *)
(* run in the worker, after CreateJob failed.                                 *)

\* Faulty variant: the monitor returns on timeout without raising the event.
MonitorGivesUp(m) ==
    /\ proc[m].pc = "poll"
    /\ \/ job[m].status = "succeeded" /\ Raise(m, EventJobCompleted)
       \/ job[m].status \in {"retrying", "failed"} /\ Raise(m, EventJobFailed)
       \/ proc[m].timer >= JobTimeout /\ Finish(m)
    /\ UNCHANGED <<node, world, grpc, counters>>

\* A poll finds that a Pod of the Job has ended, or the context of the monitor has expired.
\* One failed Pod is enough, also when the Job controller retries.  A Job that was deleted
\* is an error of Get, and the polling goes on.
MonitorJobCompletion(m) ==
    /\ proc[m].pc = "poll"
    /\ \/ job[m].status = "succeeded" /\ Raise(m, EventJobCompleted)
       \/ job[m].status \in {"retrying", "failed"} /\ Raise(m, EventJobFailed)
       \/ proc[m].timer >= JobTimeout /\ Raise(m, EventJobTimeout)
    /\ UNCHANGED <<node, world, grpc, counters>>

\* Faulty variant: a Job that failed has no after_ hook.
EnterStableUnhooked(p) ==
    /\ proc[p].pc = "enterStable"
    /\ updateNodeProgress(Dst(p))
    /\ CASE proc[p].event = EventJobCompleted /\ Dst(p) = StateReady -> Goto(p, "uncordon")
         [] proc[p].event = EventJobCompleted /\ Dst(p) # StateReady -> Goto(p, "release")
         [] OTHER -> Finish(p)
    /\ UNCHANGED <<desired, power, lock, lockAge, world, requests, crashes>>

\* enterReady, enterShutdown; then the after_ hook of the event.  JobTimeout has none:
\* its lock stays until it expires.
EnterStable(p) ==
    /\ proc[p].pc = "enterStable"
    /\ updateNodeProgress(Dst(p))
    /\ CASE proc[p].event = EventJobTimeout -> Finish(p)
         [] proc[p].event = EventJobCompleted /\ Dst(p) = StateReady ->
              Goto(p, "uncordon")
         [] OTHER -> Goto(p, "release")
    /\ UNCHANGED <<desired, power, lock, lockAge, world, requests, crashes>>

\* setNodeSchedulableWithRetry: until the node is Ready and uncordoned, or time is up.
SetNodeSchedulable(p) ==
    /\ proc[p].pc = "uncordon"
    /\ \/ kubeReady /\ unschedulable' = FALSE
       \/ proc[p].timer >= UncordonTimeout /\ UNCHANGED unschedulable
    /\ proc' = [proc EXCEPT ![p] = At("release", proc[p].op, proc[p].event, 0)]
    /\ UNCHANGED <<node, job, machine, kubeReady, grpc, counters>>

\* ReleaseLock in afterJobCompleted and afterJobFailed: the owner is the same for all
\* operations of the node controller, so whatever lock is there goes.
ReleaseLock(p) ==
    /\ proc[p].pc = "release"
    /\ removeLock
    /\ Goto(p, "final")
    /\ UNCHANGED <<desired, power, progress, startupAge, shutdownAge, world, requests, crashes>>

\* Faulty variant: the source of the event is written for its destination.
UpdateProgressToSource(p) ==
    /\ proc[p].pc = "final"
    /\ updateNodeProgress(Source(proc[p].op))
    /\ Finish(p)
    /\ UNCHANGED <<desired, power, lock, lockAge, world, requests, crashes>>

\* The hooks write the progress once more, after the lock is gone.
UpdateProgressAgain(p) ==
    /\ proc[p].pc = "final"
    /\ updateNodeProgress(Dst(p))
    /\ Finish(p)
    /\ UNCHANGED <<desired, power, lock, lockAge, world, requests, crashes>>

----------------------------------------------------------------------------
(* The controller of Kubernetes nodes (internal/controller/core) *)

getNodeStatus == IF kubeReady THEN PowerStateOn ELSE PowerStateOff

\* Faulty variant: the power state is written where the progress belongs.
ReconcileCopiesPower ==
    /\ power # getNodeStatus
    /\ power' = getNodeStatus
    /\ progress' = IF IsTransitionalState(progress) THEN progress ELSE getNodeStatus
    /\ Touch
    /\ UNCHANGED <<desired, lock, lockAge, startupAge, shutdownAge, world, proc, counters>>

\* Faulty variant: the progress follows the Ready condition also during an operation.
ReconcileOverwritesTransition ==
    /\ power # getNodeStatus
    /\ power' = getNodeStatus
    /\ progress' = IF kubeReady THEN StateReady ELSE StateShutdown
    /\ Touch
    /\ UNCHANGED <<desired, lock, lockAge, startupAge, shutdownAge, world, proc, counters>>

\* A conflicting update is an error and the reconciliation runs again.
ReconcileKubernetesNode ==
    /\ power # getNodeStatus
    /\ power' = getNodeStatus
    /\ progress' = IF IsTransitionalState(progress) THEN progress
                   ELSE IF kubeReady THEN StateReady ELSE StateShutdown
    /\ Touch
    /\ UNCHANGED <<desired, lock, lockAge, startupAge, shutdownAge, world, proc, counters>>

----------------------------------------------------------------------------
(* gRPC calls of the cluster autoscaler (internal/grpcserver/server.go), as   *)
(* they act on this Node.                                                     *)

Request == requests < MaxRequests /\ requests' = requests + 1

NodeGroupIncreaseSize ==
    /\ Request
    /\ desired = PowerStateOff /\ power = PowerStateOff /\ progress = StateShutdown
    /\ desired' = PowerStateOn /\ Touch
    /\ UNCHANGED <<power, progress, lock, lockAge, startupAge, shutdownAge, world, proc,
                   errors, crashes>>

NodeGroupDeleteNodes ==
    /\ Request
    /\ desired' = PowerStateOff /\ Touch
    /\ UNCHANGED <<power, progress, lock, lockAge, startupAge, shutdownAge, world, proc,
                   errors, crashes>>

\* A Node that is starting up is told to be off: first the spec ...
NodeGroupDecreaseTargetSize ==
    /\ Request
    /\ grpc = "idle"
    /\ desired = PowerStateOn /\ power = PowerStateOff /\ progress = StateStartingUp
    /\ desired' = PowerStateOff /\ grpc' = "fresh"
    /\ UNCHANGED <<power, progress, lock, lockAge, startupAge, shutdownAge, world, proc,
                   errors, crashes>>

\* ... then the status, with the resource version of the first update; the timestamps
\* are not touched.  The update fails if that version is old, and may fail anyway (the
\* caller has given up, an API error); the spec stays as it was written.
DecreaseUpdatesStatus ==
    /\ \/ grpc = "fresh" /\ progress' = StateShuttingDown
       \/ grpc # "idle" /\ UNCHANGED progress
    /\ grpc' = "idle"
    /\ UNCHANGED <<desired, power, lock, lockAge, startupAge, shutdownAge, world, proc, counters>>

----------------------------------------------------------------------------
(* The world: Jobs, the machine, the kubelet, time, and the controller's host *)

\* A Pod switches the machine, of a Job that was deleted too; it may then hang, or end
\* later.
JobActs(m) ==
    /\ PodRuns(m) /\ machine # Target(job[m].op)
    /\ machine' = Target(job[m].op)
    /\ UNCHANGED <<node, job, kubeReady, unschedulable, proc, grpc, counters>>

\* A Pod ends, and its Job with it unless that is retried.  A Pod that succeeds has done
\* its work; one that fails may or may not have.  What a Job was for is forgotten once it is
\* over: nobody asks.
JobEnds(m) ==
    /\ PodRuns(m)
    /\ \E outcome \in JobOutcomes :
          /\ outcome = "succeeded" => machine = Target(job[m].op)
          /\ outcome = "retrying" => job[m].status = "active"
          /\ job' = [job EXCEPT ![m] = CASE @.status = "orphaned" -> NoJob
                                         [] outcome = "retrying" -> [@ EXCEPT !.status = outcome]
                                         [] OTHER -> [NoJob EXCEPT !.status = outcome]]
    /\ UNCHANGED <<node, machine, kubeReady, unschedulable, proc, grpc, counters>>

KubeletReports ==
    /\ kubeReady # (machine = PowerStateOn)
    /\ kubeReady' = (machine = PowerStateOn)
    /\ UNCHANGED <<node, job, machine, unschedulable, proc, grpc, counters>>

\* The process dies: goroutines and calls are gone, the cluster keeps its objects.
Crash ==
    /\ crashes < MaxCrashes
    /\ crashes' = crashes + 1
    /\ proc' = [p \in Procs |-> Idle]
    /\ grpc' = "idle"
    /\ UNCHANGED <<node, world, requests, errors>>

\* Ages stop where the code's comparisons can no longer tell them apart.
Older(age, limit) == IF age = Never \/ age > limit THEN age ELSE age + 1

TimerLimit(p) == CASE proc[p].pc = "poll" -> JobTimeout
                   [] proc[p].pc = "uncordon" -> UncordonTimeout
                   [] proc[p].pc \in {"clean", "cordon", "acquire"} -> LockTimeout + 1
                   [] OTHER -> 0

\* With Prompt, time passes only while everybody waits for it, and no Job is late.
Waiting(p) ==
    \/ proc[p].pc \in {"idle", "get"}
    \/ proc[p].pc = "uncordon" /\ ~kubeReady /\ proc[p].timer < UncordonTimeout
    \/ /\ p \in Monitors /\ proc[p].pc = "poll"
       /\ IF job[p].status \in {"none", "orphaned"} THEN proc[p].timer < JobTimeout
                                                    ELSE proc[p].timer + 1 < JobTimeout

Tick ==
    /\ Prompt => \A p \in Procs : Waiting(p)
    /\ lockAge' = IF lock = Unlocked THEN 0 ELSE Older(lockAge, LockTimeout)
    /\ startupAge' = Older(startupAge, StuckAfter)
    /\ shutdownAge' = Older(shutdownAge, StuckAfter)
    /\ proc' = [p \in Procs |->
          [proc[p] EXCEPT !.timer = IF @ < TimerLimit(p) THEN @ + 1 ELSE @]]
    /\ UNCHANGED <<desired, power, progress, lock, world, grpc, counters>>

----------------------------------------------------------------------------
WorkerNext ==
    \/ CleanupExpiredLocks \/ ValidateTransitional \/ HandleStateTransitions
    \/ CleanupPendingJobs \/ SetNodeUnschedulable \/ AcquireLock \/ AcquireRefused
    \/ EnterTransitional \/ CreateJob

HookNext(p) ==
    EnterStable(p) \/ SetNodeSchedulable(p) \/ ReleaseLock(p) \/ UpdateProgressAgain(p)

GrpcNext == NodeGroupIncreaseSize \/ NodeGroupDeleteNodes \/ NodeGroupDecreaseTargetSize

Next ==
    \/ WorkerNext
    \/ \E p \in Procs : HookNext(p)
    \/ \E m \in Monitors : MonitorJobCompletion(m) \/ JobActs(m) \/ JobEnds(m)
    \/ ReconcileKubernetesNode
    \/ GrpcNext \/ DecreaseUpdatesStatus
    \/ KubeletReports
    \/ Tick
    \/ Crash

\* The goroutines run, the two controllers are requeued, kubelets report and time
\* passes.  Nobody has to call gRPC, fail or crash, and a Job may hang for ever.
Fairness ==
    /\ WF_vars(WorkerNext)
    /\ \A p \in Procs : WF_vars(HookNext(p))
    /\ \A m \in Monitors : WF_vars(MonitorJobCompletion(m))
    /\ WF_vars(ReconcileKubernetesNode)
    /\ WF_vars(DecreaseUpdatesStatus)
    /\ WF_vars(KubeletReports)
    /\ SF_vars(Tick)

\* Jobs do their work and end, as Prompt has them do.
JobFairness == \A m \in Monitors : WF_vars(JobActs(m)) /\ WF_vars(JobEnds(m))

Spec == Init /\ [][Next]_vars
FairSpec == Spec /\ Fairness
PromptSpec == FairSpec /\ JobFairness

----------------------------------------------------------------------------
(* Properties *)

\* cleanupPendingJobs keeps startup and shutdown Jobs of a Node from being pending at the
\* same time, also across restarts, expired locks, lost monitors and failing calls: as
\* long as every deletion of a Job works and its list is not too old, there is at most one
\* Job that it would have to delete.  The Pods of deleted and of retried Jobs, which it
\* does not see, may run beside that Job.
OnePendingJob ==
    ~Failed("cleanup") => \A m, n \in Monitors :
        job[m].status = "active" /\ job[n].status = "active" => m = n

\* The goroutines that will still write a stable progress.
WillSettle(p) == proc[p].pc \in {"create", "poll", "enterStable", "uncordon", "release", "final"}

\* Without a restart and as long as every update of the progress succeeds, a transitional
\* Progress always has a goroutine that will end it (hooks.go, monitorJobCompletion): no
\* interleaving of operations, refused locks, gRPC calls and failing calls, the creation
\* of the Job included, strands the Node in startingup or shuttingdown.
NoOrphanedTransition ==
    ~Failed("progress") /\ crashes = 0 /\ IsTransitionalState(progress) =>
        \E p \in Procs : WillSettle(p)

\* No lock outlives its operation for good, whether its holder times out (which
\* releases nothing), dies, or fails to release it: it is removed or, once expired,
\* replaced (cleanupExpiredLocks, "to prevent stale locks from blocking operations").
LockNeverLeaks == lock # Unlocked /\ lockAge > 0 ~> lock = Unlocked \/ lockAge = 0

\* Every startup and shutdown comes to an end.
TransitionEnds == IsTransitionalState(progress) ~> ~IsTransitionalState(progress)

\* When nobody asks for anything more, the Node ends up, and stays, as desired: the
\* machine, the recorded power and progress, and the lock free ("Coordination locks
\* prevent race conditions", docs/architecture/state.md).
Settled ==
    /\ machine = desired /\ power = desired
    /\ progress = IF desired = PowerStateOn THEN StateReady ELSE StateShutdown
    /\ lock = Unlocked
Converges == <>[]Settled

\* The Node goes through the updates of NodeObject only, which is what GrpcScaling takes
\* the controllers to do: the mirror never overrules an operation, a hook never writes a
\* progress that is not a state, and no controller changes what is desired.
Object == INSTANCE NodeObject
ObjectSpec == Object!Spec

\* While a shutdown holds the lock and its Job runs, the Kubernetes node takes no new
\* pods ("Cordon the Kubernetes node before shutdown", node_state_machine.go).
CordonedDuringShutdown ==
    \A m \in Monitors :
        /\ lock = OperationScaleDown /\ ~Failed("cordon")
        /\ job[m] = [op |-> OperationScaleDown, status |-> "active"]
        /\ proc[m].pc = "poll"
        => unschedulable

\* A lock is removed as that of a stuck transition only when it has expired anyway
\* ("Stuck transitions (>15 min)", node_controller.go): the timestamps are never older than
\* the operation they are for.  The one exception is a startup that
\* NodeGroupDecreaseTargetSize has turned into a shutdown, without a new timestamp: the age
\* of an earlier shutdown then ends the lock of the startup's Job.
StuckMeansOld ==
    [][ValidateTransitional /\ lock' # lock /\ lockAge <= LockTimeout =>
          lock = OperationScaleUp /\ progress = StateShuttingDown]_vars

\* An operation releases the lock it has taken (afterJobCompleted, afterJobFailed): without
\* a restart, and as long as no update of the lock fails, a lock younger than the timeouts
\* always has a goroutine that will release it, whatever other operations, that time out
\* late or run without a lock any more, do meanwhile.
Holds(p) ==
    /\ proc[p].op = lock
    /\ \/ proc[p].pc \in {"enter", "create", "poll", "uncordon", "release"}
       \/ proc[p].pc = "enterStable" /\ proc[p].event # EventJobTimeout
LockHasHolder ==
    /\ crashes = 0 /\ ~Failed("lock")
    /\ lock # Unlocked /\ lockAge <= LockTimeout /\ lockAge < JobTimeout
    => \E p \in Procs : Holds(p)

\* Worker, hooks and time treat the lock as LeaseLock says, which CoordinationLock shows of
\* the annotations: it is taken only when it is free or expired.
NodeController == "node-controller"
Lease == INSTANCE LeaseLock WITH
            lock <- [operation |-> lock,
                     owner |-> IF lock = Unlocked THEN "" ELSE NodeController],
            age <- lockAge,
            Owners <- {NodeController}, Second <- 1
LeaseSpec == Lease!Spec
=============================================================================
