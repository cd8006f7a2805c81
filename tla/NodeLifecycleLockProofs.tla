---------------------- MODULE NodeLifecycleLockProofs ----------------------
(***************************************************************************)
(* Proofs about the operation lock in NodeLifecycle, for any number of     *)
(* monitors and every value of the timeouts and bounds: worker, hooks and  *)
(* time use it as LeaseLock promises, a lock has a goroutine that will     *)
(* release it, and a transition is taken for stuck only when it is old.    *)
(***************************************************************************)
EXTENDS NodeLifecycleProofs

\* The age of the lock starts when the lock does.
FreeIsNew == lock = Unlocked => lockAge = 0

\* The lock the worker has taken is its own, or gone, when it begins the operation.
EnterLock == proc[Worker].pc = "enter" => lock \in {Unlocked, proc[Worker].op}

\* Nobody takes the lock of a Node that is starting up for a shutdown.
StartupLock == progress = StateStartingUp => lock \in {Unlocked, OperationScaleUp}

\* A transition is no older than the lock that is held, unless the lock is that of a startup
\* that has been turned back.
TurnedBack == progress = StateShuttingDown /\ lock = OperationScaleUp
TransitionIsNewer ==
    lock # Unlocked /\ IsTransitionalState(progress) /\ lockAge <= LockTimeout =>
        transitionDuration <= lockAge \/ TurnedBack

LockInv == FreeIsNew /\ EnterLock /\ StartupLock /\ TransitionIsNewer

\* A goroutine that holds the lock has watched its Job no longer than the lock is old.
Keeps(p) == Holds(p) /\ (proc[p].pc = "poll" => proc[p].timer <= lockAge)
HolderInv ==
    /\ crashes = 0 /\ ~Failed("lock")
    /\ lock # Unlocked /\ lockAge <= LockTimeout /\ lockAge < JobTimeout
    => \E p \in Procs : Keeps(p)

----------------------------------------------------------------------------
(* Who writes the lock, and what *)

\* A lock is removed, or nothing happens, and then it is known to have failed.
LEMMA RemoveLockLemma ==
    ASSUME TypeOK, removeLock
    PROVE  /\ \/ UNCHANGED <<lock, lockAge>>
              \/ lock # Unlocked /\ lock' = Unlocked /\ lockAge' = 0
           /\ lock' = Unlocked \/ Failed("lock")'
  <1>1. Fails("lock") => Failed("lock")'
    BY FailsLemma, FailuresLemma
  <1> QED BY <1>1 DEF removeLock

\* The lock is taken by AcquireLock, grows older with time, and is otherwise removed.
LEMMA LockSteps ==
    ASSUME TypeInv, [Next]_vars
    PROVE  \/ UNCHANGED <<lock, lockAge>>
           \/ lock # Unlocked /\ lock' = Unlocked /\ lockAge' = 0
           \/ AcquireLock
           \/ Tick
  <1>1. TypeOK
    BY DEF TypeInv
  <1>2. CASE CleanupExpiredLocks \/ ValidateTransitional \/ \E p \in Procs : ReleaseLock(p)
    BY <1>1, <1>2, RemoveLockLemma DEF CleanupExpiredLocks, ValidateTransitional, ReleaseLock
  <1>3. CASE WorkerNext /\ ~CleanupExpiredLocks /\ ~ValidateTransitional
    BY <1>3 DEF WorkerNext, HandleStateTransitions, CleanupPendingJobs, SetNodeUnschedulable,
                AcquireRefused, EnterTransitional, CreateJob, node
  <1>4. ASSUME NEW p \in Procs, HookNext(p) PROVE ReleaseLock(p) \/ UNCHANGED <<lock, lockAge>>
    BY <1>4 DEF HookNext, EnterStable, SetNodeSchedulable, UpdateProgressAgain, node
  <1>5. ASSUME NEW m \in Monitors, MonitorJobCompletion(m) \/ JobActs(m) \/ JobEnds(m)
        PROVE  UNCHANGED <<lock, lockAge>>
    BY <1>5 DEF MonitorJobCompletion, JobActs, JobEnds, node
  <1>6. CASE ReconcileKubernetesNode \/ KubeletReports \/ Crash \/ UNCHANGED vars
    BY <1>6 DEF ReconcileKubernetesNode, KubeletReports, Crash, node, vars
  <1>7. CASE GrpcNext \/ DecreaseUpdatesStatus
    BY <1>7 DEF GrpcNext, NodeGroupIncreaseSize, NodeGroupDeleteNodes,
                NodeGroupDecreaseTargetSize, DecreaseUpdatesStatus
  <1> QED BY <1>2, <1>3, <1>4, <1>5, <1>6, <1>7 DEF Next

\* A Node in transition was so before, with the same timestamps but for time, or an
\* operation begins and sets them, or a startup is turned back.
LEMMA TransitionSteps ==
    ASSUME TypeInv, ObjectInv, [Next]_vars, IsTransitionalState(progress')
    PROVE  \/ UNCHANGED <<progress, startupAge, shutdownAge>>
           \/ /\ EnterTransitional
              /\ progress' = Source(proc[Worker].op)
              /\ startupAge' = IF progress' = StateStartingUp THEN 0 ELSE startupAge
              /\ shutdownAge' = IF progress' = StateShuttingDown THEN 0 ELSE shutdownAge
           \/ /\ progress = StateStartingUp /\ progress' = StateShuttingDown
              /\ UNCHANGED <<lock, lockAge>>
           \/ Tick
  <1> DEFINE Kept == UNCHANGED <<progress, startupAge, shutdownAge>>
  <1>0. TypeOK /\ FreshAskedOff /\ Worker \in Procs
    BY DEF TypeInv, ObjectInv, Procs
  <1>1. CASE EnterTransitional
    BY <1>1 DEF EnterTransitional, updateNodeProgress
  <1>2. CASE WorkerNext /\ ~EnterTransitional
    BY <1>2 DEF WorkerNext, CleanupExpiredLocks, ValidateTransitional, HandleStateTransitions,
                CleanupPendingJobs, SetNodeUnschedulable, AcquireLock, AcquireRefused, CreateJob,
                node
  <1>3. ASSUME NEW p \in Procs, HookNext(p) PROVE Kept
    <2>1. CASE EnterStable(p) \/ UpdateProgressAgain(p)
      <3>1. ~IsTransitionalState(Dst(p)) /\ updateNodeProgress(Dst(p))
        BY <2>1, DstLemma DEF EnterStable, UpdateProgressAgain, Hooks
      <3> QED BY <3>1 DEF updateNodeProgress
    <2>2. CASE SetNodeSchedulable(p) \/ ReleaseLock(p)
      BY <2>2 DEF SetNodeSchedulable, ReleaseLock, node
    <2> QED BY <1>3, <2>1, <2>2 DEF HookNext
  <1>4. ASSUME NEW m \in Monitors, MonitorJobCompletion(m) \/ JobActs(m) \/ JobEnds(m)
        PROVE  Kept
    BY <1>4 DEF MonitorJobCompletion, JobActs, JobEnds, node
  <1>5. CASE ReconcileKubernetesNode
    BY <1>5 DEF ReconcileKubernetesNode, IsTransitionalState, StateReady, StateShutdown,
                StateStartingUp, StateShuttingDown
  <1>6. CASE KubeletReports \/ Crash \/ UNCHANGED vars
    BY <1>6 DEF KubeletReports, Crash, node, vars
  <1>7. CASE GrpcNext
    BY <1>7 DEF GrpcNext, NodeGroupIncreaseSize, NodeGroupDeleteNodes,
                NodeGroupDecreaseTargetSize
  <1>8. CASE DecreaseUpdatesStatus
    BY <1>0, <1>8 DEF DecreaseUpdatesStatus, FreshAskedOff
  <1> QED BY <1>1, <1>2, <1>3, <1>4, <1>5, <1>6, <1>7, <1>8 DEF Next

\* The worker comes to the update that begins an operation with AcquireLock only.
LEMMA EnterSteps ==
    ASSUME TypeInv, [Next]_vars, proc'[Worker].pc = "enter"
    PROVE  \/ AcquireLock
           \/ proc[Worker].pc = "enter" /\ proc'[Worker].op = proc[Worker].op
  <1>0. TypeOK /\ Worker \in Procs /\ Worker \notin Monitors /\ Monitors \subseteq Procs
    BY WorkerAssumption DEF TypeInv, Procs
  <1>1. CASE UNCHANGED proc
    BY <1>1
  <1>2. CASE WorkerNext
    <2>1. CASE CleanupExpiredLocks
      BY <1>0, <2>1, GotoLemma DEF CleanupExpiredLocks, Labels
    <2>2. CASE ValidateTransitional \/ AcquireRefused
      BY <1>0, <2>2, FinishLemma DEF ValidateTransitional, AcquireRefused
    <2>3. CASE HandleStateTransitions
      <3>1. CASE Finish(Worker)
        BY <1>0, <3>1, FinishLemma
      <3>2. CASE ~Finish(Worker)
        <4>1. \E op : proc' = [proc EXCEPT ![Worker] = At("clean", op, NoEvent, ageRead)]
          BY <2>3, <3>2 DEF HandleStateTransitions
        <4>2. \A op : At("clean", op, NoEvent, ageRead).pc = "clean"
          BY DEF At
        <4> QED BY <1>0, <4>1, <4>2 DEF TypeOK
      <3> QED BY <3>1, <3>2
    <2>4. CASE CleanupPendingJobs \/ SetNodeUnschedulable
      <3>1. PICK label \in {"cordon", "acquire"} : Goto(Worker, label)
        BY <2>4 DEF CleanupPendingJobs, SetNodeUnschedulable
      <3> QED BY <1>0, <3>1, GotoLemma DEF Labels
    <2>5. CASE EnterTransitional
      BY <1>0, <2>5, GotoLemma DEF EnterTransitional, Labels
    <2>6. CASE CreateJob
      BY <1>0, <2>6, CreateFrame
    <2> QED BY <1>2, <2>1, <2>2, <2>3, <2>4, <2>5, <2>6 DEF WorkerNext
  <1>3. ASSUME NEW p \in Procs, HookNext(p) PROVE proc'[Worker] = proc[Worker]
    BY <1>0, <1>3, HookFrame DEF Hooks
  <1>4. ASSUME NEW m \in Monitors, MonitorJobCompletion(m) PROVE proc'[Worker] = proc[Worker]
    <2>1. PICK e \in JobEvents : Raise(m, e)
      BY <1>4 DEF MonitorJobCompletion, JobEvents
    <2> QED BY <1>0, <2>1, RaiseLemma
  <1>5. CASE Tick
    BY <1>0, <1>5, TickFrame
  <1>6. CASE Crash
    BY <1>0, <1>6, IdleLemma DEF Crash
  <1>7. CASE \/ GrpcNext \/ DecreaseUpdatesStatus \/ ReconcileKubernetesNode \/ KubeletReports
             \/ \E m \in Monitors : JobActs(m) \/ JobEnds(m)
             \/ UNCHANGED vars
    BY <1>1, <1>7 DEF GrpcNext, NodeGroupIncreaseSize, NodeGroupDeleteNodes,
                NodeGroupDecreaseTargetSize, DecreaseUpdatesStatus, ReconcileKubernetesNode,
                KubeletReports, JobActs, JobEnds, vars
  <1> QED BY <1>2, <1>3, <1>4, <1>5, <1>6, <1>7 DEF Next

----------------------------------------------------------------------------
(* The lock and the transition it protects *)

LEMMA LockInvInit == Init => LockInv
  <1>1. Init => /\ lock = Unlocked /\ lockAge = 0
                /\ ~IsTransitionalState(progress) /\ progress # StateStartingUp
    BY DEF Init, IsTransitionalState, NoProgress, StateStartingUp, StateShuttingDown
  <1> QED BY <1>1 DEF LockInv, FreeIsNew, EnterLock, StartupLock, TransitionIsNewer

\* Ages and the limits they are compared with are numbers.
LEMMA AgesLemma ==
    ASSUME TypeOK
    PROVE  /\ LockTimeout \in Nat /\ JobTimeout \in Nat /\ StuckAfter \in Nat
           /\ lockAge \in Nat /\ startupAge \in Int /\ shutdownAge \in Int
  <1>1. LockTimeout \in Nat /\ JobTimeout \in Nat /\ StuckAfter \in Nat
    BY TimeoutsAssumption
  <1>2. lockAge \in Nat /\ startupAge \in Nat \union {-1} /\ shutdownAge \in Nat \union {-1}
    BY DEF TypeOK, Never
  <1> QED BY <1>1, <1>2

\* Time makes lock and transition older alike.
LEMMA TickIsNewer ==
    ASSUME TypeOK, TransitionIsNewer, Tick
    PROVE  TransitionIsNewer'
  <1> SUFFICES ASSUME lock' # Unlocked, IsTransitionalState(progress'), lockAge' <= LockTimeout
               PROVE  transitionDuration' <= lockAge' \/ TurnedBack'
    BY DEF TransitionIsNewer
  <1>1. /\ LockTimeout \in Nat /\ StuckAfter \in Nat /\ lockAge \in Nat
        /\ startupAge \in Int /\ shutdownAge \in Int
    BY AgesLemma
  <1>2. lock' = lock /\ progress' = progress /\ lockAge' = Older(lockAge, LockTimeout)
    BY DEF Tick
  <1>3. lockAge' = lockAge + 1 /\ lockAge <= LockTimeout
    BY <1>1, <1>2 DEF Older, Never
  <1>4. startupAge' <= startupAge + 1 /\ shutdownAge' <= shutdownAge + 1
    <2>1. \A a, limit \in Int : Older(a, limit) \in {a, a + 1}
      BY DEF Older
    <2>2. startupAge' = Older(startupAge, StuckAfter) /\ shutdownAge' = Older(shutdownAge, StuckAfter)
      BY DEF Tick
    <2> QED BY <1>1, <2>1, <2>2
  <1>5. transitionDuration <= lockAge \/ TurnedBack
    BY <1>2, <1>3 DEF TransitionIsNewer
  <1>6. transitionDuration \in Int /\ transitionDuration' \in Int
        /\ transitionDuration' <= transitionDuration + 1
    <2>1. startupAge' \in Int /\ shutdownAge' \in Int
      BY <1>1 DEF Tick, Older
    <2> QED BY <1>1, <1>2, <1>4, <2>1 DEF transitionDuration
  <1> QED BY <1>1, <1>2, <1>3, <1>5, <1>6 DEF TurnedBack

LEMMA LockInvStep == TypeInv /\ ObjectInv /\ LockInv /\ [Next]_vars => LockInv'
  <1> SUFFICES ASSUME TypeInv, ObjectInv, LockInv, [Next]_vars PROVE LockInv'
    OBVIOUS
  <1>0. /\ TypeOK /\ WorkerSettled /\ FreeIsNew /\ EnterLock /\ StartupLock /\ TransitionIsNewer
        /\ Worker \in Procs
    BY DEF TypeInv, ObjectInv, LockInv, Procs
  <1> DEFINE Kept == UNCHANGED <<lock, lockAge>>
             Removed == lock # Unlocked /\ lock' = Unlocked /\ lockAge' = 0
  <1>1. Kept \/ Removed \/ AcquireLock \/ Tick
    BY LockSteps
  <1>2. AcquireLock => lock' = proc[Worker].op /\ lock' # Unlocked
    BY <1>0 DEF AcquireLock, TypeOK, ProcStates, Operations, OperationScaleUp,
                OperationScaleDown, Unlocked
  <1>3. AcquireLock => progress' = progress /\ ~IsTransitionalState(progress)
    BY <1>0 DEF AcquireLock, WorkerSettled, Preparing
  <1>4. FreeIsNew'
    BY <1>0, <1>1, <1>2 DEF FreeIsNew, Tick
  <1>5. EnterLock'
    <2> SUFFICES ASSUME proc'[Worker].pc = "enter" PROVE lock' \in {Unlocked, proc'[Worker].op}
      BY DEF EnterLock
    <2>1. CASE AcquireLock
      <3>1. ~Finish(Worker)
        BY <1>0, FinishLemma
      <3>2. proc' = [proc EXCEPT ![Worker] = At("enter", proc[Worker].op, NoEvent, 0)]
        BY <2>1, <3>1 DEF AcquireLock
      <3>3. proc'[Worker].op = proc[Worker].op
        BY <1>0, <3>2 DEF TypeOK, At
      <3> QED BY <1>2, <2>1, <3>3
    <2>2. CASE ~AcquireLock
      <3>1. lock' \in {Unlocked, lock}
        BY <1>1, <2>2 DEF Tick
      <3>2. proc[Worker].pc = "enter" /\ proc'[Worker].op = proc[Worker].op
        BY <2>2, EnterSteps
      <3> QED BY <1>0, <3>1, <3>2 DEF EnterLock
    <2> QED BY <2>1, <2>2
  <1>6. ASSUME IsTransitionalState(progress')
        PROVE  \/ lock' \in {Unlocked, lock} /\ UNCHANGED <<progress, startupAge, shutdownAge>>
               \/ /\ EnterTransitional
                  /\ progress' = Source(proc[Worker].op)
                  /\ startupAge' = IF progress' = StateStartingUp THEN 0 ELSE startupAge
                  /\ shutdownAge' = IF progress' = StateShuttingDown THEN 0 ELSE shutdownAge
               \/ /\ progress = StateStartingUp /\ progress' = StateShuttingDown
                  /\ UNCHANGED <<lock, lockAge>>
               \/ Tick
    BY <1>1, <1>3, <1>6, TransitionSteps
  <1>7. EnterTransitional => lock \in {Unlocked, proc[Worker].op} /\ UNCHANGED <<lock, lockAge>>
    BY <1>0 DEF EnterTransitional, EnterLock
  <1>8. StartupLock'
    <2> SUFFICES ASSUME progress' = StateStartingUp
                 PROVE  lock' \in {Unlocked, OperationScaleUp}
      BY DEF StartupLock
    <2>1. IsTransitionalState(progress')
      BY DEF IsTransitionalState
    <2>2. CASE EnterTransitional /\ progress' = Source(proc[Worker].op)
      <3>1. proc[Worker].op = OperationScaleUp
        BY <2>2 DEF Source, StateStartingUp, StateShuttingDown
      <3> QED BY <1>7, <2>2, <3>1
    <2>3. CASE lock' \in {Unlocked, lock} /\ progress' = progress
      BY <1>0, <2>3 DEF StartupLock
    <2>4. CASE Tick
      BY <1>0, <2>4 DEF Tick, StartupLock
    <2> QED BY <1>6, <2>1, <2>2, <2>3, <2>4 DEF StateStartingUp, StateShuttingDown
  <1>9. TransitionIsNewer'
    <2> SUFFICES ASSUME lock' # Unlocked, IsTransitionalState(progress'),
                        lockAge' <= LockTimeout, ~Tick
                 PROVE  transitionDuration' <= lockAge' \/ TurnedBack'
      BY <1>0, TickIsNewer DEF TransitionIsNewer
    <2>1. CASE lock' \in {Unlocked, lock} /\ UNCHANGED <<progress, startupAge, shutdownAge>>
      <3>1. UNCHANGED <<lock, lockAge>>
        BY <1>1, <1>3, <2>1
      <3> QED BY <1>0, <2>1, <3>1 DEF TransitionIsNewer, transitionDuration, TurnedBack
    <2>2. CASE /\ EnterTransitional
               /\ progress' = Source(proc[Worker].op)
               /\ startupAge' = IF progress' = StateStartingUp THEN 0 ELSE startupAge
               /\ shutdownAge' = IF progress' = StateShuttingDown THEN 0 ELSE shutdownAge
      <3>1. transitionDuration' = 0
        BY <2>2 DEF transitionDuration, Source
      <3>2. lockAge' \in Nat
        BY <1>0, <1>7, <2>2 DEF TypeOK
      <3> QED BY <3>1, <3>2
    <2>3. CASE /\ progress = StateStartingUp /\ progress' = StateShuttingDown
               /\ UNCHANGED <<lock, lockAge>>
      BY <1>0, <2>3 DEF StartupLock, TurnedBack
    <2> QED BY <1>6, <2>1, <2>2, <2>3
  <1> QED BY <1>4, <1>5, <1>8, <1>9 DEF LockInv

\* A lock that has not expired is removed, as that of a stuck transition, only when it is a
\* startup's and NodeGroupDecreaseTargetSize has turned the startup back: in every other
\* interleaving of operations, failing updates, gRPC calls and restarts the timestamps are
\* no older than the lock.  Needed is that a transition counts as stuck no sooner than a
\* lock expires.
THEOREM StuckLocksAreOld == Spec => StuckMeansOld
  <1>1. TypeInv /\ LockInv =>
           (ValidateTransitional /\ lock' # lock /\ lockAge <= LockTimeout =>
               lock = OperationScaleUp /\ progress = StateShuttingDown)
    <2> SUFFICES ASSUME TypeInv, LockInv, ValidateTransitional, lock' # lock,
                        lockAge <= LockTimeout
                 PROVE  lock = OperationScaleUp /\ progress = StateShuttingDown
      OBVIOUS
    <2>1. /\ LockTimeout \in Nat /\ StuckAfter \in Nat /\ LockTimeout <= StuckAfter
          /\ lockAge \in Nat /\ startupAge \in Int /\ shutdownAge \in Int
      BY AgesLemma, StuckAssumption DEF TypeInv
    <2>2. lock # Unlocked /\ IsTransitionalState(progress) /\ transitionDuration > StuckAfter
      BY <2>1 DEF ValidateTransitional, isLockExpired
    <2>3. transitionDuration \in Int
      BY <2>1 DEF transitionDuration
    <2>4. ~(transitionDuration <= lockAge)
      BY <2>1, <2>2, <2>3
    <2> QED BY <2>2, <2>4 DEF LockInv, TransitionIsNewer, TurnedBack
  <1>2. TypeInv /\ LockInv /\ [Next]_vars =>
           [ValidateTransitional /\ lock' # lock /\ lockAge <= LockTimeout =>
               lock = OperationScaleUp /\ progress = StateShuttingDown]_vars
    BY <1>1
  <1> QED BY <1>2, TypeInit, TypeStep, ObjectInvInit, ObjectInvStep, LockInvInit, LockInvStep,
             PTL DEF Spec, StuckMeansOld

----------------------------------------------------------------------------
(* The lock as LeaseLock has it *)

\* An absent lock is the absent lock of LeaseLock, and an operation of the worker is one
\* that can be held.
LEMMA LeaseNames ==
    /\ Lease!NoLock = [operation |-> Unlocked, owner |-> ""]
    /\ Lease!HeldLocks = [operation : Operations, owner : {NodeController}]
  BY DEF Lease!NoLock, Unlocked, Lease!HeldLocks, Lease!Operations, Lease!OperationScaleUp,
         Lease!OperationScaleDown, Operations, OperationScaleUp, OperationScaleDown

\* The worker takes the lock, hooks and cleanups remove it, time makes it older, and nothing
\* else touches it: in particular the worker never takes a lock that is held.  With
\* CoordinationLock, which opens up the reads, caches and conflicting updates, LeaseLock
\* joins the two views of the lock.
THEOREM ImplementsLease == Spec => LeaseSpec
  <1> DEFINE rec == [operation |-> lock,
                     owner |-> IF lock = Unlocked THEN "" ELSE NodeController]
  <1>1. Init => Lease!Init
    <2>1. Init => lock = Unlocked /\ lockAge = 0
      BY DEF Init
    <2> QED BY <2>1, LeaseNames DEF Lease!Init
  <1>2. TypeInv /\ LockInv /\ [Next]_vars => [Lease!Next]_<<rec, lockAge>>
    <2> SUFFICES ASSUME TypeInv, LockInv, [Next]_vars
                 PROVE  [Lease!Next]_<<rec, lockAge>>
      OBVIOUS
    <2>1. CASE UNCHANGED <<lock, lockAge>>
      BY <2>1
    <2>2. CASE lock # Unlocked /\ lock' = Unlocked /\ lockAge' = 0
      BY <2>2, LeaseNames DEF Lease!Next, Lease!Release
    <2>3. CASE AcquireLock
      <3>1. lock' = proc[Worker].op /\ lockAge' = 0 /\ (lock = Unlocked \/ lockAge > LockTimeout)
        BY <2>3 DEF AcquireLock, LockGranted, Locked, isLockExpired
      <3>2. lock' \in Operations /\ lock' # Unlocked
        BY <3>1 DEF TypeInv, TypeOK, ProcStates, Procs, Operations, OperationScaleUp,
                    OperationScaleDown, Unlocked
      <3>3. rec' \in Lease!HeldLocks /\ (lock = Unlocked => rec = Lease!NoLock)
        BY <3>2, LeaseNames
      <3>4. lockAge' \in 0..(1 - 1)
        BY <3>1
      <3>5. Lease!Acquire
        BY <3>1, <3>3, <3>4 DEF Lease!Acquire
      <3> QED BY <3>5 DEF Lease!Next
    <2>4. CASE Tick
      <3>1. CASE lock = Unlocked
        BY <2>4, <3>1 DEF Tick, LockInv, FreeIsNew
      <3>2. CASE lock # Unlocked
        <4>1. rec # Lease!NoLock /\ rec' = rec
          BY <2>4, <3>2, LeaseNames DEF Tick
        <4>2. lockAge' \in {lockAge, lockAge + 1}
          BY <2>4, <3>2 DEF Tick, Older
        <4> QED BY <4>1, <4>2 DEF Lease!Next, Lease!Tick
      <3> QED BY <3>1, <3>2
    <2> QED BY <2>1, <2>2, <2>3, <2>4, LockSteps
  <1> QED BY <1>1, <1>2, TypeInit, TypeStep, ObjectInvInit, ObjectInvStep, LockInvInit,
             LockInvStep, PTL DEF Spec, LeaseSpec, Lease!Spec

----------------------------------------------------------------------------
(* The holder of the lock *)

\* A step that leaves a lock alone or removes it, and of the processes moves only one, which
\* goes on to hold the lock if it did.
LEMMA HolderMoved ==
    ASSUME HolderInv, \A w : Failed(w) => Failed(w)', crashes' = crashes,
           UNCHANGED <<lock, lockAge>> \/ lock' = Unlocked,
           NEW p \in Procs, Keeps(p) => Keeps(p)',
           \A q \in Procs \ {p} : proc'[q] = proc[q]
    PROVE  HolderInv'
  <1> SUFFICES ASSUME crashes = 0, ~Failed("lock"), lock # Unlocked, lockAge <= LockTimeout,
                      lockAge < JobTimeout, UNCHANGED <<lock, lockAge>>
               PROVE  \E q \in Procs : Keeps(q)'
    BY DEF HolderInv
  <1>1. PICK q \in Procs : Keeps(q)
    BY DEF HolderInv
  <1>2. CASE q = p
    BY <1>1, <1>2
  <1>3. CASE q # p
    BY <1>1, <1>3 DEF Keeps, Holds
  <1> QED BY <1>2, <1>3

\* A step of nobody, which leaves the lock alone.
LEMMA HolderQuiet ==
    ASSUME HolderInv, \A w : Failed(w) => Failed(w)', UNCHANGED <<lock, lockAge, proc, crashes>>
    PROVE  HolderInv'
  BY DEF HolderInv, Keeps, Holds

\* A step that is a removal of the lock leaves none, or is known to have failed.
LEMMA HolderRemoved ==
    ASSUME lock' = Unlocked \/ Failed("lock")'
    PROVE  HolderInv'
  BY DEF HolderInv

\* The hooks of p go on until they release the lock.
LEMMA HookKeeps ==
    ASSUME TypeInv, NEW p \in Procs, EnterStable(p) \/ SetNodeSchedulable(p), Keeps(p)
    PROVE  Keeps(p)'
  <1>0. TypeOK
    BY DEF TypeInv
  <1>1. proc[p].op = lock /\ UNCHANGED <<lock, lockAge>>
    BY DEF Keeps, Holds, EnterStable, SetNodeSchedulable, node
  <1>2. CASE EnterStable(p)
    <2>1. proc[p].event # EventJobTimeout
      BY <1>2 DEF EnterStable, Keeps, Holds
    <2>2. Goto(p, "uncordon") \/ Goto(p, "release")
      BY <1>2, <2>1 DEF EnterStable
    <2>3. proc'[p].op = proc[p].op /\ proc'[p].pc \in {"uncordon", "release"}
      BY <1>0, <2>2, GotoLemma DEF Labels
    <2> QED BY <1>1, <2>3 DEF Keeps, Holds
  <1>3. CASE SetNodeSchedulable(p)
    <2> DEFINE r == At("release", proc[p].op, proc[p].event, 0)
    <2>1. r.pc = "release" /\ r.op = proc[p].op
      BY DEF At
    <2>2. proc'[p] = r
      BY <1>0, <1>3 DEF SetNodeSchedulable, TypeOK
    <2> QED BY <1>1, <2>1, <2>2 DEF Keeps, Holds
  <1> QED BY <1>2, <1>3

\* A monitor that keeps the lock has time left for its Job, and releases it after an event
\* that is not a timeout.
LEMMA MonitorKeeps ==
    ASSUME TypeInv, NEW m \in Monitors, MonitorJobCompletion(m), lockAge < JobTimeout, Keeps(m)
    PROVE  Keeps(m)'
  <1>0. TypeOK /\ m \in Procs
    BY DEF TypeInv, Procs
  <1>1. proc[m].op = lock /\ proc[m].timer <= lockAge /\ UNCHANGED <<lock, lockAge>>
    BY DEF Keeps, Holds, MonitorJobCompletion, node
  <1>2. ~(proc[m].timer >= JobTimeout)
    <2>1. proc[m].timer \in Nat
      BY <1>0 DEF TypeOK, ProcStates
    <2> QED BY <1>0, <1>1, <2>1, AgesLemma
  <1>3. PICK e \in {EventJobCompleted, EventJobFailed} : Raise(m, e)
    BY <1>2 DEF MonitorJobCompletion
  <1> DEFINE r == At("enterStable", proc[m].op, e, 0)
  <1>4. r.pc = "enterStable" /\ r.op = proc[m].op /\ r.event = e
    BY DEF At
  <1>5. proc'[m] = r
    BY <1>0, <1>3 DEF Raise, TypeOK
  <1>6. e # EventJobTimeout
    BY DEF EventJobCompleted, EventJobFailed, EventJobTimeout
  <1> QED BY <1>1, <1>4, <1>5, <1>6 DEF Keeps, Holds

\* The Job of the operation is watched in its worker's stead, or the worker handles the
\* failure itself.
LEMMA CreateKeeps ==
    ASSUME TypeInv, HolderInv, \A w : Failed(w) => Failed(w)', CreateJob
    PROVE  HolderInv'
  <1>0. /\ TypeOK /\ Worker \in Procs /\ Monitors \subseteq Procs /\ Worker \notin Monitors
        /\ UNCHANGED <<lock, lockAge, crashes>> /\ proc[Worker].pc = "create"
    BY WorkerAssumption DEF TypeInv, Procs, CreateJob, node
  <1>1. CASE Raise(Worker, EventJobFailed)
    <2> DEFINE r == At("enterStable", proc[Worker].op, EventJobFailed, 0)
    <2>1. r.pc = "enterStable" /\ r.op = proc[Worker].op /\ r.event = EventJobFailed
      BY DEF At
    <2>2. proc'[Worker] = r /\ \A q \in Procs \ {Worker} : proc'[q] = proc[q]
      BY <1>0, <1>1 DEF Raise, TypeOK
    <2>3. Keeps(Worker) => Keeps(Worker)'
      BY <1>0, <2>1, <2>2 DEF Keeps, Holds, EventJobFailed, EventJobTimeout
    <2> QED BY <1>0, <2>2, <2>3, HolderMoved
  <1>2. CASE ~Raise(Worker, EventJobFailed)
    <2>1. PICK m \in FreeMonitors :
             proc' = [proc EXCEPT ![m] = At("poll", proc[Worker].op, NoEvent, 0),
                                  ![Worker] = Idle]
      BY <1>0, <1>2, CreateFrame
    <2>2. m \in Procs /\ m # Worker /\ proc[m].pc = "idle"
      BY <1>0 DEF FreeMonitors
    <2>3. /\ proc'[m] = At("poll", proc[Worker].op, NoEvent, 0)
          /\ \A q \in Procs \ {m, Worker} : proc'[q] = proc[q]
      BY <1>0, <2>1, <2>2 DEF TypeOK
    <2>4. proc'[m].pc = "poll" /\ proc'[m].op = proc[Worker].op /\ proc'[m].timer = 0
      BY <2>3 DEF At
    <2>5. lockAge \in Nat
      BY <1>0, AgesLemma
    <2> SUFFICES ASSUME NEW q \in Procs, Keeps(q) PROVE \E p \in Procs : Keeps(p)'
      BY <1>0 DEF HolderInv
    <2>6. q # m
      BY <2>2 DEF Keeps, Holds
    <2>7. CASE q = Worker
      BY <1>0, <2>2, <2>4, <2>5, <2>7 DEF Keeps, Holds
    <2>8. CASE q # Worker
      BY <1>0, <2>3, <2>6, <2>8 DEF Keeps, Holds
    <2> QED BY <2>7, <2>8
  <1> QED BY <1>1, <1>2

\* Time makes the lock and the watch over its Job older alike.
LEMMA TickKeeps ==
    ASSUME TypeInv, HolderInv, Tick
    PROVE  HolderInv'
  <1>0. /\ TypeOK /\ UNCHANGED <<lock, errors, crashes>>
        /\ LockTimeout \in Nat /\ JobTimeout \in Nat /\ lockAge \in Nat
    BY AgesLemma DEF TypeInv, Tick, counters
  <1> SUFFICES ASSUME crashes = 0, ~Failed("lock"), lock # Unlocked, lockAge' <= LockTimeout,
                      lockAge' < JobTimeout
               PROVE  \E p \in Procs : Keeps(p)'
    BY <1>0 DEF HolderInv, Failed
  <1>1. lockAge' = Older(lockAge, LockTimeout)
    BY DEF Tick
  <1>2. lockAge' = lockAge + 1
    BY <1>0, <1>1 DEF Older, Never
  <1>3. PICK p \in Procs : Keeps(p)
    BY <1>0, <1>2 DEF HolderInv
  <1>4. /\ proc'[p].pc = proc[p].pc /\ proc'[p].op = proc[p].op
        /\ proc'[p].event = proc[p].event
        /\ proc'[p].timer \in {proc[p].timer, proc[p].timer + 1}
    BY TickFrame
  <1>5. proc[p].timer \in Nat
    BY <1>0 DEF TypeOK, ProcStates
  <1>6. Holds(p)'
    BY <1>0, <1>3, <1>4 DEF Keeps, Holds
  <1>7. proc[p].pc = "poll" => proc'[p].timer <= lockAge'
    BY <1>0, <1>2, <1>3, <1>4, <1>5 DEF Keeps
  <1> QED BY <1>4, <1>6, <1>7 DEF Keeps

\* The worker takes the lock for the operation it begins, or the answer is lost.
LEMMA AcquireKeeps ==
    ASSUME TypeInv, AcquireLock
    PROVE  HolderInv'
  <1>0. TypeOK /\ Worker \in Procs
    BY DEF TypeInv, Procs
  <1>1. CASE Fails("lock")
    BY <1>0, <1>1, FailsLemma, FailuresLemma, HolderRemoved
  <1>2. CASE ~Fails("lock")
    <2> DEFINE r == At("enter", proc[Worker].op, NoEvent, 0)
    <2>1. r.pc = "enter" /\ r.op = proc[Worker].op
      BY DEF At
    <2>2. proc'[Worker] = r /\ lock' = proc[Worker].op
      BY <1>0, <1>2 DEF AcquireLock, TypeOK
    <2>3. Keeps(Worker)'
      BY <2>1, <2>2 DEF Keeps, Holds
    <2> QED BY <1>0, <2>3 DEF HolderInv
  <1> QED BY <1>1, <1>2

\* Every step leaves a young lock with a goroutine that will release it.
LEMMA HolderStep == TypeInv /\ HolderInv /\ [Next]_vars => HolderInv'
  <1> SUFFICES ASSUME TypeInv, HolderInv, [Next]_vars PROVE HolderInv'
    OBVIOUS
  <1>0. /\ TypeOK /\ Worker \in Procs /\ Monitors \subseteq Procs
        /\ \A w : Failed(w) => Failed(w)'
    BY ErrorsStay DEF TypeInv, Procs
  <1>1. ASSUME proc[Worker].pc \in {"idle", "get", "clean", "cordon", "acquire"},
               UNCHANGED <<lock, lockAge, crashes>>,
               \A q \in Procs \ {Worker} : proc'[q] = proc[q]
        PROVE  HolderInv'
    <2>1. ~Keeps(Worker)
      BY <1>1 DEF Keeps, Holds
    <2> QED BY <1>0, <1>1, <2>1, HolderMoved
  <1>2. CASE WorkerNext
    <2>1. CASE CleanupExpiredLocks
      <3>1. \A q \in Procs \ {Worker} : proc'[q] = proc[q]
        BY <1>0, <2>1, GotoLemma DEF CleanupExpiredLocks, Labels
      <3> QED BY <1>0, <1>1, <2>1, <3>1, RemoveLockLemma, HolderRemoved DEF CleanupExpiredLocks
    <2>2. CASE ValidateTransitional
      <3>1. \A q \in Procs \ {Worker} : proc'[q] = proc[q]
        BY <1>0, <2>2, FinishLemma DEF ValidateTransitional
      <3> QED BY <1>0, <1>1, <2>2, <3>1, RemoveLockLemma, HolderRemoved DEF ValidateTransitional
    <2>3. CASE HandleStateTransitions
      <3>1. \E r : proc' = [proc EXCEPT ![Worker] = r]
        BY <2>3 DEF HandleStateTransitions, Finish
      <3>2. \A q \in Procs \ {Worker} : proc'[q] = proc[q]
        BY <1>0, <3>1 DEF TypeOK
      <3> QED BY <1>1, <2>3, <3>2 DEF HandleStateTransitions, node, counters
    <2>4. CASE CleanupPendingJobs \/ SetNodeUnschedulable
      <3>1. PICK label \in {"cordon", "acquire"} : Goto(Worker, label)
        BY <2>4 DEF CleanupPendingJobs, SetNodeUnschedulable
      <3>2. \A q \in Procs \ {Worker} : proc'[q] = proc[q]
        BY <1>0, <3>1, GotoLemma DEF Labels
      <3> QED BY <1>1, <2>4, <3>2 DEF CleanupPendingJobs, SetNodeUnschedulable, node
    <2>5. CASE AcquireLock
      BY <2>5, AcquireKeeps
    <2>6. CASE AcquireRefused
      <3>1. \A q \in Procs \ {Worker} : proc'[q] = proc[q]
        BY <1>0, <2>6, FinishLemma DEF AcquireRefused
      <3> QED BY <1>1, <2>6, <3>1 DEF AcquireRefused, node
    <2>7. CASE EnterTransitional
      <3>1. /\ proc'[Worker].pc = "create" /\ proc'[Worker].op = proc[Worker].op
            /\ \A q \in Procs \ {Worker} : proc'[q] = proc[q]
        BY <1>0, <2>7, GotoLemma DEF EnterTransitional, Labels
      <3>2. UNCHANGED <<lock, lockAge, crashes>>
        BY <2>7 DEF EnterTransitional
      <3>3. Keeps(Worker) => Keeps(Worker)'
        BY <3>1, <3>2 DEF Keeps, Holds
      <3> QED BY <1>0, <3>1, <3>2, <3>3, HolderMoved
    <2>8. CASE CreateJob
      BY <1>0, <2>8, CreateKeeps
    <2> QED BY <1>2, <2>1, <2>2, <2>3, <2>4, <2>5, <2>6, <2>7, <2>8 DEF WorkerNext
  <1>3. ASSUME NEW p \in Procs, HookNext(p) PROVE HolderInv'
    <2>1. crashes' = crashes /\ \A q \in Procs \ {p} : proc'[q] = proc[q]
      BY <1>3, HookFrame
    <2>2. CASE EnterStable(p) \/ SetNodeSchedulable(p)
      <3>1. UNCHANGED <<lock, lockAge>>
        BY <2>2 DEF EnterStable, SetNodeSchedulable, node
      <3> QED BY <1>0, <2>1, <2>2, <3>1, HookKeeps, HolderMoved
    <2>3. CASE ReleaseLock(p)
      BY <1>0, <2>3, RemoveLockLemma, HolderRemoved DEF ReleaseLock
    <2>4. CASE UpdateProgressAgain(p)
      <3>1. ~Keeps(p) /\ UNCHANGED <<lock, lockAge>>
        BY <2>4 DEF UpdateProgressAgain, Keeps, Holds
      <3> QED BY <1>0, <2>1, <3>1, HolderMoved
    <2> QED BY <1>3, <2>2, <2>3, <2>4 DEF HookNext
  <1>4. ASSUME NEW m \in Monitors, MonitorJobCompletion(m) PROVE HolderInv'
    <2>1. PICK e \in JobEvents : Raise(m, e)
      BY <1>4 DEF MonitorJobCompletion, JobEvents
    <2>2. m \in Procs /\ \A q \in Procs \ {m} : proc'[q] = proc[q]
      BY <1>0, <2>1, RaiseLemma
    <2>3. UNCHANGED <<lock, lockAge, crashes>>
      BY <1>4 DEF MonitorJobCompletion, node, counters
    <2>4. CASE lockAge < JobTimeout
      BY <1>0, <1>4, <2>2, <2>3, <2>4, MonitorKeeps, HolderMoved
    <2>5. CASE ~(lockAge < JobTimeout)
      BY <2>3, <2>5 DEF HolderInv
    <2> QED BY <2>4, <2>5
  <1>5. CASE Tick
    BY <1>5, TickKeeps
  <1>6. CASE Crash
    <2>1. crashes \in 0..MaxCrashes
      BY <1>0 DEF TypeOK
    <2>2. crashes' # 0
      BY <1>6, <2>1 DEF Crash
    <2> QED BY <2>2 DEF HolderInv
  <1>7. CASE \/ GrpcNext \/ DecreaseUpdatesStatus \/ ReconcileKubernetesNode \/ KubeletReports
             \/ \E m \in Monitors : JobActs(m) \/ JobEnds(m)
             \/ UNCHANGED vars
    <2>1. UNCHANGED <<lock, lockAge, proc, crashes>>
      BY <1>7 DEF GrpcNext, NodeGroupIncreaseSize, NodeGroupDeleteNodes,
                  NodeGroupDecreaseTargetSize, DecreaseUpdatesStatus, ReconcileKubernetesNode,
                  KubeletReports, JobActs, JobEnds, node, counters, vars
    <2> QED BY <1>0, <2>1, HolderQuiet
  <1> QED BY <1>2, <1>3, <1>4, <1>5, <1>6, <1>7 DEF Next

\* Without restarts, and as long as the updates of the lock succeed, a lock that is younger
\* than its own timeout and that of a Job always has a goroutine, of the same operation,
\* that will release it: no operation that comes to its end late takes the lock of another,
\* and no failure to create the Job or of the Job itself leaves a lock behind.  Until it is
\* released or times out the lock is that of a monitor whose watch is no longer than the
\* lock is old, which is why no monitor times out while it still needs a young lock.
THEOREM LocksAreHeld == Spec => []LockHasHolder
  <1>1. Init => HolderInv
    BY DEF Init, HolderInv
  <1>2. HolderInv => LockHasHolder
    BY DEF HolderInv, Keeps, LockHasHolder
  <1> QED BY <1>1, <1>2, TypeInit, TypeStep, HolderStep, PTL DEF Spec
=============================================================================
