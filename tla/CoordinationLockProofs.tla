----------------------- MODULE CoordinationLockProofs -----------------------
(***************************************************************************)
(* Proofs about CoordinationLock for any number of clients, cleaners and   *)
(* owners, any timeout and any bounds.                                     *)
(***************************************************************************)
EXTENDS CoordinationLock, TLAPS

\* FormatTimestamp loses less than a second and never leaves the naturals.
LEMMA FormatLemma ==
    ASSUME NEW t \in Nat
    PROVE  /\ FormatTimestamp(t) \in Nat
           /\ FormatTimestamp(t) <= t
           /\ t - FormatTimestamp(t) <= Second - 1
  <1>1. t % Second \in 0..(Second - 1)
    BY SecondAssumption
  <1>2. t % Second <= t
    BY SecondAssumption
  <1> QED BY <1>1, <1>2, SecondAssumption DEF FormatTimestamp

\* The annotations AcquireLock writes are a lock in force, at the time of writing.
LEMMA LockForLemma ==
    ASSUME NEW c \in Clients, NEW t \in Nat
    PROVE  LET l == LockFor(Operation[c], Owner[c], t)
           IN  /\ l \in Locks
               /\ CheckLock(l)
               /\ l.timestamp = FormatTimestamp(t)
  <1>1. Operation[c] \in Operations /\ Operation[c] # ""
    BY OperationAssumption DEF Operations, OperationScaleUp, OperationScaleDown
  <1>2. Owner[c] \in Owners /\ Owner[c] # ""
    BY OwnerAssumption, OwnersAssumption DEF Procs
  <1> QED BY <1>1, <1>2, FormatLemma DEF LockFor, Locks, CheckLock

\* The absence of the annotations is one of the states of the lock.
LEMMA NoLockLemma == NoLock \in Locks
  BY DEF NoLock, Locks

\* A lock that is available stays available as time passes.
LEMMA AvailableLater ==
    ASSUME NEW l \in Locks, NEW t \in Nat, NEW u \in Nat, u >= t,
           Available(l, t)
    PROVE  Available(l, u)
  <1>1. CASE l = NoLock
    BY <1>1 DEF NoLock, Available, CheckLock
  <1>2. CASE l \in [operation : Operations, owner : Owners, timestamp : Nat]
    <2>1. l.timestamp \in Nat
      BY <1>2
    <2> QED BY <2>1, LockTimeoutAssumption DEF Available, IsLockExpired
  <1> QED BY <1>1, <1>2 DEF Locks

\* A write appends one version, and a read sees an existing one.
LEMMA AppendLemma ==
    ASSUME TypeOK, NEW l \in Locks, versions' = Append(versions, l)
    PROVE  /\ versions' \in Seq(Locks) /\ versions' # << >>
           /\ resourceVersion' = resourceVersion + 1
           /\ current' = l
           /\ \A v \in 1..resourceVersion : versions'[v] = versions[v]
  BY DEF TypeOK, resourceVersion, current

\* The cache of a process shows an existing version of the object.
LEMMA ReadLemma ==
    ASSUME TypeOK
    PROVE  /\ resourceVersion \in Nat \ {0}
           /\ current \in Locks
           /\ \A v \in 1..resourceVersion : versions[v] \in Locks
           /\ \A p \in Procs : cache[Owner[p]] \in 1..resourceVersion
  BY OwnerAssumption DEF TypeOK, resourceVersion, current

----------------------------------------------------------------------------
(* Type correctness *)

\* The end of a call leaves everything well formed.
LEMMA ReturnType ==
    ASSUME TypeOK, NEW p \in Procs, Return(p), UNCHANGED <<now, versions, cache>>
    PROVE  TypeOK'
  BY ReadLemma, BoundsAssumption DEF TypeOK, Return, Idle, Calls, resourceVersion

\* Moving on within a call leaves everything well formed.
LEMMA GotoType ==
    ASSUME TypeOK, NEW p \in Procs,
           NEW label \in {"get", "update", "releaseGet", "releaseUpdate"},
           Goto(p, label) \/ Get(p, label),
           UNCHANGED <<now, versions, cache, inForce, lost>>
    PROVE  TypeOK'
  <1> USE ReadLemma
  <1>1. CASE Goto(p, label)
    BY <1>1 DEF TypeOK, Goto, Calls, resourceVersion
  <1>2. CASE Get(p, label)
    BY <1>2 DEF TypeOK, Get, Calls, resourceVersion
  <1> QED BY <1>1, <1>2

\* A conflict, retried or not, stays within the attempts RetryOnConflict has.
LEMMA ConflictType ==
    ASSUME TypeOK, NEW p \in Procs, NEW again \in {"get", "releaseGet"}, Conflict(p, again)
    PROVE  TypeOK'
  <1>1. CASE proc[p].tries + 1 < RetrySteps
    <2>1. proc' = [proc EXCEPT ![p] = [pc |-> again, copy |-> proc[p].copy,
                                       tries |-> proc[p].tries + 1, since |-> proc[p].since]]
      BY <1>1, BoundsAssumption DEF Conflict, TypeOK, Calls
    <2> QED BY <1>1, <2>1, BoundsAssumption
            DEF Conflict, TypeOK, Calls, resourceVersion
  <1>2. CASE ~(proc[p].tries + 1 < RetrySteps)
    BY <1>2, ReturnType DEF Conflict
  <1> QED BY <1>1, <1>2

\* A step of p that writes l and leaves p idle or holding.
LEMMA WriteType ==
    ASSUME TypeOK, NEW p \in Procs, NEW l \in Locks, Write(p, l),
           NEW r \in {Idle, Granted(now)},
           proc' = [proc EXCEPT ![p] = r],
           inForce' \in SUBSET Clients, lost' \in SUBSET Clients, UNCHANGED <<now, cache>>
    PROVE  TypeOK'
  <1>1. r \in Calls /\ r.copy = 1
    BY BoundsAssumption DEF TypeOK, Idle, Granted, Calls
  <1>2. /\ versions' \in Seq(Locks) /\ versions' # << >>
        /\ resourceVersion' = resourceVersion + 1
        /\ resourceVersion \in Nat \ {0}
    BY AppendLemma, ReadLemma DEF Write
  <1> QED BY <1>1, <1>2 DEF TypeOK

\* Removing the annotations (ReleaseLock, forceReleaseLock) leaves everything well formed.
LEMMA RemoveType ==
    ASSUME TypeOK, NEW p \in Procs, RemoveLock(p)
    PROVE  TypeOK'
  <1>1. lost' \in SUBSET Clients /\ inForce' \in SUBSET Clients
    BY DEF TypeOK, RemoveLock
  <1> QED BY <1>1, NoLockLemma, WriteType DEF RemoveLock

\* Init and every step keep the object, the caches and the calls well formed.
THEOREM TypeCorrect == Spec => []TypeOK
  <1>1. Init => TypeOK
    <2> SUFFICES ASSUME Init PROVE TypeOK
      OBVIOUS
    <2>1. versions \in Seq(Locks) /\ versions # << >> /\ resourceVersion = 1
      BY NoLockLemma DEF Init, resourceVersion
    <2> QED BY <2>1, BoundsAssumption DEF Init, TypeOK, Idle, Calls
  <1>2. TypeOK /\ [Next]_vars => TypeOK'
    <2> SUFFICES ASSUME TypeOK, [Next]_vars PROVE TypeOK'
      OBVIOUS
    <2>1. CASE UNCHANGED vars
      BY <2>1 DEF vars, TypeOK, resourceVersion
    <2>2. CASE Tick
      BY <2>2 DEF Tick, TypeOK, resourceVersion
    <2>3. CASE OtherUpdate
      <3>1. /\ versions' \in Seq(Locks) /\ versions' # << >>
            /\ resourceVersion' = resourceVersion + 1
            /\ resourceVersion \in Nat \ {0}
        BY <2>3, AppendLemma, ReadLemma DEF OtherUpdate
      <3> QED BY <2>3, <3>1 DEF OtherUpdate, TypeOK
    <2>4. ASSUME NEW o \in Owners, Watch(o) PROVE TypeOK'
      BY <2>4, ReadLemma DEF Watch, TypeOK, resourceVersion
    <2>5. ASSUME NEW p \in Procs, ApiError(p) PROVE TypeOK'
      BY <2>5, ReturnType DEF ApiError
    <2>6. ASSUME NEW c \in Clients, ClientNext(c) PROVE TypeOK'
      <3>0. c \in Procs
        BY DEF Procs
      <3>1. CASE AcquireStart(c)
        BY <3>0, <3>1, GotoType DEF AcquireStart
      <3>2. CASE AcquireGet(c)
        BY <3>0, <3>2, GotoType, ReturnType DEF AcquireGet
      <3>3. CASE AcquireUpdate(c) \/ AcquireAnswerLost(c)
        <4>1. inForce' \in SUBSET Clients /\ lost' \in SUBSET Clients
          BY <3>3 DEF AcquireUpdate, AcquireAnswerLost, TypeOK
        <4>2. LockFor(Operation[c], Owner[c], now) \in Locks
          BY LockForLemma DEF TypeOK
        <4> QED BY <3>0, <3>3, <4>1, <4>2, WriteType DEF AcquireUpdate, AcquireAnswerLost
      <3>4. CASE AcquireConflict(c)
        BY <3>0, <3>4, ConflictType DEF AcquireConflict
      <3>5. CASE ReleaseStart(c)
        BY <3>0, <3>5, GotoType DEF ReleaseStart
      <3>6. CASE ReleaseGet(c)
        BY <3>0, <3>6, GotoType, ReturnType DEF ReleaseGet
      <3>7. CASE ReleaseUpdate(c)
        BY <3>0, <3>7, RemoveType DEF ReleaseUpdate
      <3>8. CASE ReleaseConflict(c)
        BY <3>0, <3>8, ConflictType DEF ReleaseConflict
      <3> QED BY <2>6, <3>1, <3>2, <3>3, <3>4, <3>5, <3>6, <3>7, <3>8 DEF ClientNext
    <2>7. ASSUME NEW k \in Cleaners, CleanerNext(k) PROVE TypeOK'
      <3>0. k \in Procs
        BY DEF Procs
      <3>1. CASE CleanupStart(k) \/ ForceGet(k)
        BY <3>0, <3>1, GotoType DEF CleanupStart, ForceGet
      <3>2. CASE ForceUpdate(k)
        BY <3>0, <3>2, RemoveType DEF ForceUpdate
      <3>3. CASE ForceConflict(k)
        BY <3>0, <3>3, ConflictType DEF ForceConflict
      <3> QED BY <2>7, <3>1, <3>2, <3>3 DEF CleanerNext
    <2> QED BY <2>1, <2>2, <2>3, <2>4, <2>5, <2>6, <2>7 DEF Next
  <1> QED BY <1>1, <1>2, PTL DEF Spec

----------------------------------------------------------------------------
(* Mutual exclusion *)

\* While a lease runs and the lock was not removed, AcquireLock's check fails.
LEMMA LeaseNotAvailable ==
    ASSUME LockInv, NEW c \in Clients, Leased(c), c \notin lost
    PROVE  ~Available(current, now)
  <1>1. proc[c].since \in Nat /\ now \in Nat
    BY DEF LockInv, TypeOK, Calls, Procs
  <1>2. now - current.timestamp <= LockTimeout
    BY <1>1, FormatLemma, LockTimeoutAssumption, SecondAssumption
       DEF LockInv, HolderInForce, Leased
  <1> QED BY <1>1, <1>2, FormatLemma, LockTimeoutAssumption
          DEF LockInv, HolderInForce, Available, IsLockExpired

\* A step that leaves the annotations alone and starts no lease keeps HolderInForce.
LEMMA HolderKept ==
    ASSUME LockInv, TypeOK', current' = current, now' >= now,
           \A c \in Clients : Holding(c)' =>
              /\ Holding(c)
              /\ proc'[c].since = proc[c].since
              /\ (c \in lost) => (c \in lost')
              /\ (inForce = {c}) => (inForce' = {c})
    PROVE  HolderInForce'
  <1> SUFFICES ASSUME NEW c \in Clients, Leased(c)', c \notin lost'
               PROVE  /\ inForce' = {c}
                      /\ CheckLock(current)'
                      /\ current'.timestamp = FormatTimestamp(proc[c].since)'
    BY DEF HolderInForce
  <1>1. now \in Nat /\ now' \in Nat /\ proc[c].since \in Nat
    BY DEF LockInv, TypeOK, Calls, Procs
  <1>2. Leased(c) /\ c \notin lost
    BY <1>1, LockTimeoutAssumption, SecondAssumption DEF Leased, Holding
  <1>3. /\ inForce = {c}
        /\ CheckLock(current)
        /\ current.timestamp = FormatTimestamp(proc[c].since)
    BY <1>2 DEF LockInv, HolderInForce
  <1>4. proc'[c].since = proc[c].since /\ inForce' = {c}
    BY <1>3 DEF Leased, Holding
  <1> QED BY <1>3, <1>4 DEF CheckLock, FormatTimestamp

\* A step that adds a version keeps what the writers saw, and so does time.
LEMMA WritersKept ==
    ASSUME LockInv, TypeOK', now' >= now,
           \A v \in 1..resourceVersion : versions'[v] = versions[v],
           \A c \in Clients : proc'[c].pc = "update" =>
              /\ proc[c].pc = "update"
              /\ proc'[c].copy = proc[c].copy
    PROVE  WriterSawAvailable'
  <1> SUFFICES ASSUME NEW c \in Clients, proc'[c].pc = "update"
               PROVE  Available(versions'[proc'[c].copy], now')
    BY DEF WriterSawAvailable, Available, CheckLock, IsLockExpired
  <1>1. c \in Procs
    BY DEF Procs
  <1>2. /\ proc[c].copy \in 1..resourceVersion
        /\ versions[proc[c].copy] \in Locks
        /\ now \in Nat /\ now' \in Nat
    BY <1>1, ReadLemma DEF LockInv, TypeOK
  <1>4. proc[c].pc = "update" /\ proc'[c].copy = proc[c].copy
    OBVIOUS
  <1>5. Available(versions[proc[c].copy], now)
    BY <1>4 DEF LockInv, WriterSawAvailable
  <1>6. versions'[proc'[c].copy] = versions[proc[c].copy]
    BY <1>2, <1>4
  <1> QED BY <1>2, <1>5, <1>6, AvailableLater

\* A client's successful write finds the lock available, so no lease is running.
LEMMA WriteFindsAvailable ==
    ASSUME LockInv, NEW c \in Clients, NEW l, proc[c].pc = "update", Write(c, l)
    PROVE  /\ Available(current, now)
           /\ \A d \in Clients : Leased(d) => d \in lost
  <1>1. Available(current, now)
    BY DEF LockInv, WriterSawAvailable, Write, current
  <1> QED BY <1>1, LeaseNotAvailable

\* The steps that write nothing: time, reads, the ends of calls.
LEMMA ReturnInv ==
    ASSUME LockInv, TypeOK', NEW p \in Procs, Return(p), UNCHANGED <<now, versions, cache>>
    PROVE  WriterSawAvailable' /\ HolderInForce'
  <1>1. now' >= now /\ current' = current
    BY DEF LockInv, TypeOK, current, resourceVersion
  <1>2. \A c \in Clients : c # p => proc'[c] = proc[c]
    BY DEF Return, LockInv, TypeOK, Procs
  <1>3. proc'[p].pc = "idle"
    BY DEF Return, LockInv, TypeOK, Idle
  <1>4. WriterSawAvailable'
    BY <1>1, <1>2, <1>3, WritersKept
  <1>5. HolderInForce'
    <2>1. ASSUME NEW c \in Clients, Holding(c)'
          PROVE  /\ Holding(c)
                 /\ proc'[c].since = proc[c].since
                 /\ (c \in lost) => (c \in lost')
                 /\ (inForce = {c}) => (inForce' = {c})
      <3>1. c # p
        BY <1>3, <2>1 DEF Holding
      <3> QED BY <3>1, <1>2, <2>1 DEF Holding, Return
    <2> QED BY <1>1, <2>1, HolderKept
  <1> QED BY <1>4, <1>5

\* Moving on within a call, without writing, keeps the facts mutual exclusion rests on.
LEMMA StepInv ==
    ASSUME LockInv, TypeOK', NEW p \in Procs, NEW label,
           Goto(p, label) \/ Get(p, label),
           UNCHANGED <<now, versions, cache, inForce, lost>>,
           label \in {"releaseGet", "releaseUpdate"} => Holding(p),
           label # "held",
           (p \in Clients /\ label = "update") =>
               Get(p, label) /\ Available(Cached(p), now)
    PROVE  WriterSawAvailable' /\ HolderInForce'
  <1>1. now' >= now /\ current' = current
    BY DEF LockInv, TypeOK, current, resourceVersion
  <1>2. \A c \in Clients : c # p => proc'[c] = proc[c]
    BY DEF Goto, Get, LockInv, TypeOK, Procs
  <1>3. proc'[p].pc = label /\ proc'[p].since = proc[p].since
    BY DEF Goto, Get, LockInv, TypeOK, Calls
  <1>4. WriterSawAvailable'
    <2>1. CASE p \in Clients /\ label = "update"
      <3>1. proc'[p].copy = cache[Owner[p]]
        BY <2>1 DEF Get, LockInv, TypeOK
      <3>2. Available(versions[proc'[p].copy], now)
        BY <2>1, <3>1 DEF Cached
      <3> QED BY <1>2, <3>2 DEF WriterSawAvailable, LockInv, Available,
                                CheckLock, IsLockExpired
    <2>2. CASE ~(p \in Clients /\ label = "update")
      BY <1>1, <1>2, <1>3, <2>2, WritersKept
    <2> QED BY <2>1, <2>2
  <1>5. HolderInForce'
    <2>1. ASSUME NEW c \in Clients, Holding(c)'
          PROVE  Holding(c) /\ proc'[c].since = proc[c].since
      BY <1>2, <1>3, <2>1 DEF Holding
    <2> QED BY <1>1, <2>1, HolderKept
  <1> QED BY <1>4, <1>5

\* A conflicting Update changes no annotation and keeps those facts.
LEMMA ConflictInv ==
    ASSUME LockInv, TypeOK', NEW p \in Procs, NEW again \in {"get", "releaseGet"},
           Conflict(p, again), again = "releaseGet" => Holding(p)
    PROVE  WriterSawAvailable' /\ HolderInForce'
  <1>1. CASE Return(p)
    BY <1>1, ReturnInv DEF Conflict
  <1>2. CASE ~Return(p)
    <2>0. /\ proc' = [proc EXCEPT ![p] = [pc |-> again, copy |-> proc[p].copy,
                                         tries |-> proc[p].tries + 1, since |-> proc[p].since]]
          /\ UNCHANGED <<now, versions, cache, inForce, lost>>
      BY <1>2 DEF Conflict
    <2>1. now' >= now /\ current' = current
      BY <2>0 DEF LockInv, TypeOK, current, resourceVersion
    <2>2. \A c \in Clients : c # p => proc'[c] = proc[c]
      BY <2>0 DEF LockInv, TypeOK, Procs
    <2>3. proc'[p].pc = again /\ proc'[p].since = proc[p].since
      BY <2>0 DEF LockInv, TypeOK, Calls
    <2>4. WriterSawAvailable'
      BY <2>0, <2>1, <2>2, <2>3, WritersKept
    <2>5. ASSUME NEW c \in Clients, Holding(c)'
          PROVE  Holding(c) /\ proc'[c].since = proc[c].since
      BY <2>2, <2>3, <2>5 DEF Holding
    <2> QED BY <2>0, <2>1, <2>4, <2>5, HolderKept
  <1> QED BY <1>1, <1>2

\* Removing the annotations, by ReleaseLock or by force: a holder whose lease runs
\* is the remover itself, or is recorded in lost.
LEMMA RemoveInv ==
    ASSUME LockInv, TypeOK', NEW p \in Procs, RemoveLock(p)
    PROVE  WriterSawAvailable' /\ HolderInForce'
  <1>1. \A c \in Clients : c # p => proc'[c] = proc[c]
    BY DEF RemoveLock, LockInv, TypeOK, Procs
  <1>2. proc'[p].pc = "idle"
    BY DEF RemoveLock, LockInv, TypeOK, Idle
  <1>3. WriterSawAvailable'
    <2>1. \A v \in 1..resourceVersion : versions'[v] = versions[v]
      BY NoLockLemma, AppendLemma DEF RemoveLock, Write, LockInv
    <2>2. now' >= now
      BY DEF RemoveLock, LockInv, TypeOK
    <2> QED BY <1>1, <1>2, <2>1, <2>2, WritersKept
  <1>4. HolderInForce'
    <2> SUFFICES ASSUME NEW c \in Clients, Leased(c)', c \notin lost' PROVE FALSE
      BY DEF HolderInForce
    <2>1. c # p
      BY <1>2 DEF Leased, Holding
    <2>2. Leased(c) /\ c \notin lost
      BY <1>1, <2>1 DEF Leased, Holding, RemoveLock
    <2>3. ~Available(current, now) /\ inForce = {c}
      BY <2>2, LeaseNotAvailable DEF LockInv, HolderInForce
    <2> QED BY <2>1, <2>3 DEF RemoveLock
  <1> QED BY <1>3, <1>4

\* AcquireLock's update: nobody else's lease runs, and c's begins.
LEMMA AcquireInv ==
    ASSUME LockInv, TypeOK', NEW c \in Clients, AcquireUpdate(c) \/ AcquireAnswerLost(c)
    PROVE  WriterSawAvailable' /\ HolderInForce'
  <1> DEFINE l == LockFor(Operation[c], Owner[c], now)
  <1>1. proc[c].pc = "update" /\ Write(c, l) /\ c \in Procs /\ now \in Nat
    BY DEF AcquireUpdate, AcquireAnswerLost, Procs, LockInv, TypeOK
  <1>2. l \in Locks /\ CheckLock(l) /\ l.timestamp = FormatTimestamp(now)
    BY <1>1, LockForLemma
  <1>3. current' = l /\ \A v \in 1..resourceVersion : versions'[v] = versions[v]
    BY <1>1, <1>2, AppendLemma DEF Write, LockInv
  <1>4. \A d \in Clients : d # c => proc'[d] = proc[d]
    BY <1>1 DEF AcquireUpdate, AcquireAnswerLost, LockInv, TypeOK, Procs
  <1>5. /\ proc'[c].pc \in {"held", "idle"}
        /\ proc'[c].pc = "held" => proc'[c].since = now /\ inForce' = {c}
        /\ now' = now /\ lost' = lost
    BY <1>1 DEF AcquireUpdate, AcquireAnswerLost, LockInv, TypeOK, Idle, Granted
  <1>6. WriterSawAvailable'
    BY <1>1, <1>3, <1>4, <1>5, WritersKept
  <1>7. HolderInForce'
    <2> SUFFICES ASSUME NEW d \in Clients, Leased(d)', d \notin lost'
                 PROVE  /\ inForce' = {d}
                        /\ CheckLock(current)'
                        /\ current'.timestamp = FormatTimestamp(proc'[d].since)
      BY DEF HolderInForce, FormatTimestamp
    <2>1. CASE d # c
      <3>1. Leased(d) /\ d \notin lost
        BY <1>4, <1>5, <2>1 DEF Leased, Holding
      <3> QED BY <1>1, <3>1, WriteFindsAvailable
    <2>2. CASE d = c
      <3>1. proc'[c].since = now /\ inForce' = {c}
        BY <1>5, <2>2 DEF Leased, Holding
      <3>2. CheckLock(current')
        BY <1>2, <1>3
      <3> QED BY <1>2, <1>3, <2>2, <3>1, <3>2 DEF CheckLock
    <2> QED BY <2>1, <2>2
  <1> QED BY <1>6, <1>7

\* Every step keeps the facts mutual exclusion rests on.
LEMMA LockInvStep == LockInv /\ TypeOK' /\ [Next]_vars => LockInv'
  <1> SUFFICES ASSUME LockInv, TypeOK', [Next]_vars
               PROVE  WriterSawAvailable' /\ HolderInForce'
    BY DEF LockInv
  <1>1. CASE UNCHANGED vars
    BY <1>1, WritersKept, HolderKept
       DEF vars, LockInv, TypeOK, current, resourceVersion, Holding
  <1>2. CASE Tick
    <2>1. now' >= now /\ current' = current /\ UNCHANGED <<versions, proc, inForce, lost>>
      BY <1>2 DEF Tick, LockInv, TypeOK, current, resourceVersion
    <2> QED BY <2>1, WritersKept, HolderKept DEF Holding
  <1>3. CASE OtherUpdate
    <2>1. now' >= now /\ UNCHANGED <<proc, inForce, lost>>
      BY <1>3 DEF OtherUpdate, LockInv, TypeOK
    <2>2. current' = current /\ \A v \in 1..resourceVersion : versions'[v] = versions[v]
      BY <1>3, AppendLemma, ReadLemma DEF OtherUpdate, LockInv
    <2> QED BY <2>1, <2>2, WritersKept, HolderKept DEF Holding
  <1>4. ASSUME NEW o \in Owners, Watch(o) PROVE WriterSawAvailable' /\ HolderInForce'
    <2>1. now' >= now /\ current' = current /\ UNCHANGED <<versions, proc, inForce, lost>>
      BY <1>4 DEF Watch, LockInv, TypeOK, current, resourceVersion
    <2> QED BY <2>1, WritersKept, HolderKept DEF Holding
  <1>5. ASSUME NEW p \in Procs, ApiError(p) PROVE WriterSawAvailable' /\ HolderInForce'
    BY <1>5, ReturnInv DEF ApiError
  <1>6. ASSUME NEW c \in Clients, ClientNext(c) PROVE WriterSawAvailable' /\ HolderInForce'
    <2>0. c \in Procs
      BY DEF Procs
    <2>1. CASE AcquireStart(c)
      BY <2>0, <2>1, StepInv DEF AcquireStart
    <2>2. CASE AcquireGet(c)
      BY <2>0, <2>2, StepInv, ReturnInv DEF AcquireGet
    <2>3. CASE AcquireUpdate(c) \/ AcquireAnswerLost(c)
      BY <2>3, AcquireInv
    <2>4. CASE AcquireConflict(c)
      BY <2>0, <2>4, ConflictInv DEF AcquireConflict
    <2>5. CASE ReleaseStart(c)
      BY <2>0, <2>5, StepInv DEF ReleaseStart, Holding
    <2>6. CASE ReleaseGet(c)
      BY <2>0, <2>6, StepInv, ReturnInv DEF ReleaseGet, Holding
    <2>7. CASE ReleaseUpdate(c)
      BY <2>0, <2>7, RemoveInv DEF ReleaseUpdate
    <2>8. CASE ReleaseConflict(c)
      BY <2>0, <2>8, ConflictInv DEF ReleaseConflict, Holding
    <2> QED BY <1>6, <2>1, <2>2, <2>3, <2>4, <2>5, <2>6, <2>7, <2>8 DEF ClientNext
  <1>7. ASSUME NEW k \in Cleaners, CleanerNext(k) PROVE WriterSawAvailable' /\ HolderInForce'
    <2>0. k \in Procs /\ k \notin Clients
      BY DisjointAssumption DEF Procs
    <2>1. CASE CleanupStart(k) \/ ForceGet(k)
      BY <2>0, <2>1, StepInv DEF CleanupStart, ForceGet
    <2>2. CASE ForceUpdate(k)
      BY <2>0, <2>2, RemoveInv DEF ForceUpdate
    <2>3. CASE ForceConflict(k)
      BY <2>0, <2>3, ConflictInv DEF ForceConflict
    <2> QED BY <1>7, <2>1, <2>2, <2>3 DEF CleanerNext
  <1> QED BY <1>1, <1>2, <1>3, <1>4, <1>5, <1>6, <1>7 DEF Next

\* What writers saw and whom the annotations stand for: the inductive invariant behind
\* mutual exclusion, of which AcquireLock's double check is the reason.
THEOREM LockInvariant == Spec => []LockInv
  <1>1. Init /\ TypeOK => LockInv
    BY DEF Init, LockInv, WriterSawAvailable, HolderInForce, Leased, Holding, Idle, Procs
  <1> QED BY <1>1, TypeCorrect, LockInvStep, PTL DEF Spec

\* No two clients hold the lock within their leases unless a third party removed one
\* of the locks: for every set of clients, owners and cleaners and every timeout.
THEOREM MutualExclusion == Spec => []Exclusive
  <1>1. LockInv => Exclusive
    BY DEF LockInv, HolderInForce, Exclusive
  <1> QED BY <1>1, LockInvariant, PTL

----------------------------------------------------------------------------
(* Only the owner releases *)

\* A client about to remove the annotations has seen its own owner string in the
\* version its Update is conditional on.
ReleaserSawOwner ==
    \A c \in Clients : proc[c].pc = "releaseUpdate" => versions[proc[c].copy].owner = Owner[c]

\* Where a step that is not a read for a release leaves the releasers: where they were.
LEMMA ReleasersKept ==
    ASSUME TypeOK, ReleaserSawOwner,
           \A v \in 1..resourceVersion : versions'[v] = versions[v],
           \A c \in Clients : proc'[c].pc = "releaseUpdate" =>
              /\ proc[c].pc = "releaseUpdate"
              /\ proc'[c].copy = proc[c].copy
    PROVE  ReleaserSawOwner'
  <1> SUFFICES ASSUME NEW c \in Clients, proc'[c].pc = "releaseUpdate"
               PROVE  versions'[proc'[c].copy].owner = Owner[c]
    BY DEF ReleaserSawOwner
  <1>1. proc[c].copy \in 1..resourceVersion
    BY DEF TypeOK, Procs
  <1> QED BY <1>1 DEF ReleaserSawOwner

\* A step of p alone that leaves it elsewhere than before the removal.
LEMMA ReleasersKeptBy ==
    ASSUME TypeOK, ReleaserSawOwner, NEW p \in Procs, NEW r,
           proc' = [proc EXCEPT ![p] = r], r.pc # "releaseUpdate",
           \A v \in 1..resourceVersion : versions'[v] = versions[v]
    PROVE  ReleaserSawOwner'
  <1>1. proc'[p].pc # "releaseUpdate" /\ \A q \in Procs \ {p} : proc'[q] = proc[q]
    BY DEF TypeOK
  <1>2. \A c \in Clients : proc'[c].pc = "releaseUpdate" =>
           proc[c].pc = "releaseUpdate" /\ proc'[c].copy = proc[c].copy
    BY <1>1 DEF Procs
  <1> QED BY <1>2, ReleasersKept

\* The ends of calls, reads for other purposes, and conflicts.
LEMMA ReleasersReturn ==
    ASSUME TypeOK, ReleaserSawOwner, NEW p \in Procs, Return(p), UNCHANGED versions
    PROVE  ReleaserSawOwner'
  <1>1. Idle.pc # "releaseUpdate"
    BY DEF Idle
  <1>2. proc' = [proc EXCEPT ![p] = Idle] /\ \A v \in 1..resourceVersion : versions'[v] = versions[v]
    BY DEF Return
  <1> QED BY <1>1, <1>2, ReleasersKeptBy

LEMMA ReleasersGoto ==
    ASSUME TypeOK, ReleaserSawOwner, NEW p \in Procs,
           NEW label \in {"get", "update", "releaseGet"},
           Goto(p, label) \/ Get(p, label), UNCHANGED versions
    PROVE  ReleaserSawOwner'
  <1>1. \E r : proc' = [proc EXCEPT ![p] = r] /\ r.pc = label
    <2>1. CASE Goto(p, label)
      <3> DEFINE r == [proc[p] EXCEPT !.pc = label]
      <3>1. r.pc = label
        BY DEF TypeOK, Calls
      <3> QED BY <2>1, <3>1 DEF Goto
    <2>2. CASE Get(p, label)
      <3> DEFINE r == [pc |-> label, copy |-> cache[Owner[p]],
                       tries |-> proc[p].tries, since |-> proc[p].since]
      <3>1. r.pc = label /\ proc' = [proc EXCEPT ![p] = r]
        BY <2>2 DEF Get
      <3> HIDE DEF r
      <3> QED BY <3>1
    <2> QED BY <2>1, <2>2
  <1> QED BY <1>1, ReleasersKeptBy

LEMMA ReleasersConflict ==
    ASSUME TypeOK, ReleaserSawOwner, NEW p \in Procs, NEW again \in {"get", "releaseGet"},
           Conflict(p, again)
    PROVE  ReleaserSawOwner'
  <1>1. CASE Return(p)
    BY <1>1, ReleasersReturn DEF Conflict
  <1>2. CASE ~Return(p)
    <2> DEFINE r == [pc |-> again, copy |-> proc[p].copy,
                     tries |-> proc[p].tries + 1, since |-> proc[p].since]
    <2>1. proc' = [proc EXCEPT ![p] = r] /\ UNCHANGED versions
      BY <1>2 DEF Conflict
    <2>2. r.pc # "releaseUpdate"
      OBVIOUS
    <2> HIDE DEF r
    <2> QED BY <2>1, <2>2, ReleasersKeptBy
  <1> QED BY <1>1, <1>2

\* A removal is one more version, and its author is done.
LEMMA ReleasersRemove ==
    ASSUME TypeOK, ReleaserSawOwner, NEW p \in Procs, RemoveLock(p)
    PROVE  ReleaserSawOwner'
  <1>1. \A v \in 1..resourceVersion : versions'[v] = versions[v]
    BY NoLockLemma, AppendLemma DEF RemoveLock, Write
  <1>2. Idle.pc # "releaseUpdate" /\ proc' = [proc EXCEPT ![p] = Idle]
    BY DEF RemoveLock, Idle
  <1> QED BY <1>1, <1>2, ReleasersKeptBy

\* Every step keeps what the releasers saw.
LEMMA ReleaserStep == TypeOK /\ ReleaserSawOwner /\ [Next]_vars => ReleaserSawOwner'
  <1> SUFFICES ASSUME TypeOK, ReleaserSawOwner, [Next]_vars PROVE ReleaserSawOwner'
    OBVIOUS
  <1>1. CASE UNCHANGED <<versions, proc>>
    BY <1>1, ReleasersKept
  <1>2. CASE UNCHANGED vars \/ Tick \/ \E o \in Owners : Watch(o)
    BY <1>1, <1>2 DEF vars, Tick, Watch
  <1>3. CASE OtherUpdate
    <2>1. \A v \in 1..resourceVersion : versions'[v] = versions[v]
      BY <1>3, AppendLemma, ReadLemma DEF OtherUpdate
    <2> QED BY <1>3, <2>1, ReleasersKept DEF OtherUpdate
  <1>4. ASSUME NEW p \in Procs, ApiError(p) PROVE ReleaserSawOwner'
    BY <1>4, ReleasersReturn DEF ApiError
  <1>5. ASSUME NEW c \in Clients, ClientNext(c) PROVE ReleaserSawOwner'
    <2>0. c \in Procs
      BY DEF Procs
    <2>1. CASE AcquireStart(c) \/ AcquireGet(c)
      BY <2>0, <2>1, ReleasersGoto, ReleasersReturn DEF AcquireStart, AcquireGet
    <2>2. CASE AcquireUpdate(c) \/ AcquireAnswerLost(c)
      <3> DEFINE l == LockFor(Operation[c], Owner[c], now)
      <3>1. l \in Locks
        BY LockForLemma DEF TypeOK
      <3>2. versions' = Append(versions, l)
        BY <2>2 DEF AcquireUpdate, AcquireAnswerLost, Write
      <3>3. \A v \in 1..resourceVersion : versions'[v] = versions[v]
        BY <3>1, <3>2, AppendLemma
      <3>4. \E r \in {Idle, Granted(now)} : proc' = [proc EXCEPT ![c] = r]
        BY <2>2 DEF AcquireUpdate, AcquireAnswerLost
      <3>5. Idle.pc # "releaseUpdate" /\ Granted(now).pc # "releaseUpdate"
        BY DEF Idle, Granted
      <3> QED BY <2>0, <3>3, <3>4, <3>5, ReleasersKeptBy
    <2>3. CASE ReleaseStart(c)
      BY <2>0, <2>3, ReleasersGoto DEF ReleaseStart
    <2>4. CASE ReleaseGet(c)
      <3>1. CASE Return(c)
        BY <2>0, <2>4, <3>1, ReleasersReturn DEF ReleaseGet
      <3>2. CASE ~Return(c)
        <4>1. /\ Cached(c).owner = Owner[c] /\ Get(c, "releaseUpdate")
              /\ UNCHANGED versions
          BY <2>4, <3>2 DEF ReleaseGet
        <4>2. /\ proc'[c].copy = cache[Owner[c]]
              /\ \A q \in Procs \ {c} : proc'[q] = proc[q]
          BY <2>0, <4>1 DEF Get, TypeOK
        <4> QED BY <4>1, <4>2 DEF ReleaserSawOwner, Cached, Procs
      <3> QED BY <3>1, <3>2
    <2>5. CASE ReleaseUpdate(c)
      BY <2>0, <2>5, ReleasersRemove DEF ReleaseUpdate
    <2>6. CASE AcquireConflict(c) \/ ReleaseConflict(c)
      BY <2>0, <2>6, ReleasersConflict DEF AcquireConflict, ReleaseConflict
    <2> QED BY <1>5, <2>1, <2>2, <2>3, <2>4, <2>5, <2>6 DEF ClientNext
  <1>6. ASSUME NEW k \in Cleaners, CleanerNext(k) PROVE ReleaserSawOwner'
    <2>0. k \in Procs
      BY DEF Procs
    <2>1. CASE CleanupStart(k) \/ ForceGet(k)
      BY <2>0, <2>1, ReleasersGoto DEF CleanupStart, ForceGet
    <2>2. CASE ForceUpdate(k)
      BY <2>0, <2>2, ReleasersRemove DEF ForceUpdate
    <2>3. CASE ForceConflict(k)
      BY <2>0, <2>3, ReleasersConflict DEF ForceConflict
    <2> QED BY <1>6, <2>1, <2>2, <2>3 DEF CleanerNext
  <1> QED BY <1>2, <1>3, <1>4, <1>5, <1>6 DEF Next

\* What a step may do to an unexpired lock.
LockKept ==
    ~Available(current, now) /\ current' # current =>
       \/ \E k \in Cleaners : ForceUpdate(k)
       \/ \E c \in Clients : ReleaseUpdate(c) /\ Owner[c] = current.owner

LEMMA LockKeptStep == LockInv /\ ReleaserSawOwner /\ [Next]_vars => LockKept
  <1> SUFFICES ASSUME LockInv, ReleaserSawOwner, [Next]_vars,
                      ~Available(current, now), current' # current
               PROVE  \/ \E k \in Cleaners : ForceUpdate(k)
                      \/ \E c \in Clients : ReleaseUpdate(c) /\ Owner[c] = current.owner
    BY DEF LockKept
  <1>0. TypeOK
    BY DEF LockInv
  <1>1. ~UNCHANGED versions
    BY DEF current, resourceVersion
  <1>2. ~OtherUpdate
    BY <1>0, AppendLemma, ReadLemma DEF OtherUpdate
  <1>3. ASSUME NEW c \in Clients, ClientNext(c)
        PROVE  ReleaseUpdate(c) /\ Owner[c] = current.owner
    <2>1. ~(AcquireUpdate(c) \/ AcquireAnswerLost(c))
      BY WriteFindsAvailable DEF AcquireUpdate, AcquireAnswerLost
    <2>2. ReleaseUpdate(c)
      BY <1>1, <1>3, <2>1
         DEF ClientNext, AcquireStart, AcquireGet, AcquireConflict, ReleaseStart, ReleaseGet,
             ReleaseConflict, Conflict
    <2> QED BY <2>2 DEF ReleaseUpdate, RemoveLock, Write, ReleaserSawOwner, current
  <1>4. ASSUME NEW k \in Cleaners, CleanerNext(k) PROVE ForceUpdate(k)
    BY <1>1, <1>4 DEF CleanerNext, CleanupStart, ForceGet, ForceConflict, Conflict
  <1>5. CASE UNCHANGED vars \/ Tick \/ (\E o \in Owners : Watch(o)) \/ \E p \in Procs : ApiError(p)
    BY <1>1, <1>5 DEF vars, Tick, Watch, ApiError
  <1> QED BY <1>2, <1>3, <1>4, <1>5 DEF Next

\* The owner check of ReleaseLock and the resource version protect an unexpired lock from
\* every client with another owner string, whatever the caches show: only a forced
\* cleanup, or the owner's own ReleaseLock, ends it.
THEOREM OwnersOnlyRelease == Spec => OthersLockKept
  <1>1. Init => ReleaserSawOwner
    BY DEF Init, ReleaserSawOwner, Idle, Procs
  <1>2. LockInv => TypeOK
    BY DEF LockInv
  <1>3. LockInv /\ ReleaserSawOwner /\ [Next]_vars =>
           [~Available(current, now) /\ current' # current =>
              \/ \E k \in Cleaners : ForceUpdate(k)
              \/ \E c \in Clients : ReleaseUpdate(c) /\ Owner[c] = current.owner]_vars
    BY LockKeptStep DEF LockKept
  <1> QED BY <1>1, <1>2, <1>3, ReleaserStep, LockInvariant, PTL DEF Spec, OthersLockKept

----------------------------------------------------------------------------
(* Refinement *)

\* The lock of the abstract specification and its age.
absLock == [operation |-> current.operation, owner |-> current.owner]
abs == <<absLock, lockAge>>

\* The empty annotations are the free lock.
LEMMA FreeLemma == current = NoLock => absLock = Lease!NoLock /\ lockAge = 0
  <1>1. NoLock.operation = "" /\ NoLock.owner = ""
    BY DEF NoLock
  <1> QED BY <1>1 DEF absLock, lockAge, Lease!NoLock

\* Annotations that are not empty are a lock that is held, and checked by its age.
LEMMA HeldLemma ==
    ASSUME TypeOK, current # NoLock
    PROVE  /\ absLock \in Lease!HeldLocks /\ absLock # Lease!NoLock
           /\ lockAge = now - current.timestamp
           /\ Available(current, now) => lockAge > LockTimeout
  <1>1. current \in [operation : Operations, owner : Owners, timestamp : Nat]
    BY ReadLemma DEF Locks
  <1>2. current.operation # "" /\ current.owner # ""
    BY <1>1, OwnersAssumption DEF Operations, OperationScaleUp, OperationScaleDown
  <1>3. current.operation \in Lease!Operations
    BY <1>1 DEF Operations, OperationScaleUp, OperationScaleDown,
                Lease!Operations, Lease!OperationScaleUp, Lease!OperationScaleDown
  <1>4. absLock \in Lease!HeldLocks /\ absLock # Lease!NoLock
    BY <1>1, <1>2, <1>3 DEF absLock, Lease!HeldLocks, Lease!NoLock
  <1>5. lockAge = now - current.timestamp
    BY DEF lockAge
  <1> QED BY <1>2, <1>4, <1>5 DEF Available, CheckLock, IsLockExpired

\* Removing the annotations is the Release of the lease lock.
LEMMA RemoveRefines ==
    ASSUME TypeOK, NEW p \in Procs, RemoveLock(p)
    PROVE  [Lease!Next]_abs
  <1>1. current' = NoLock
    BY NoLockLemma, AppendLemma DEF RemoveLock, Write
  <1>2. absLock' = Lease!NoLock /\ lockAge' = 0
    <2>1. NoLock.operation = "" /\ NoLock.owner = ""
      BY DEF NoLock
    <2> QED BY <1>1, <2>1 DEF absLock, lockAge, Lease!NoLock
  <1> QED BY <1>2 DEF Lease!Next, Lease!Release, absLock

\* AcquireLock's update is the Acquire of the lease lock.
LEMMA AcquireRefines ==
    ASSUME LockInv, TypeOK', NEW c \in Clients, AcquireUpdate(c) \/ AcquireAnswerLost(c)
    PROVE  [Lease!Next]_abs
  <1> DEFINE l == LockFor(Operation[c], Owner[c], now)
  <1>1. proc[c].pc = "update" /\ now' = now /\ now \in Nat /\ Write(c, l)
    BY DEF AcquireUpdate, AcquireAnswerLost, LockInv, TypeOK
  <1>2. current' = l /\ CheckLock(l) /\ l.timestamp = FormatTimestamp(now)
    BY <1>1, LockForLemma, AppendLemma DEF Write, LockInv
  <1>3. absLock = Lease!NoLock \/ lockAge > LockTimeout
    BY <1>1, WriteFindsAvailable, FreeLemma, HeldLemma DEF LockInv
  <1>4. current' # NoLock
    <2>1. ~CheckLock(NoLock)
      BY DEF CheckLock, NoLock
    <2> QED BY <1>2, <2>1
  <1>5. absLock' \in Lease!HeldLocks /\ lockAge' = now - FormatTimestamp(now)
    <2>1. /\ l.operation \in Operations /\ l.owner \in Owners
      BY OperationAssumption, OwnerAssumption DEF LockFor, Procs
    <2>2. Operations = Lease!Operations
      BY DEF Operations, OperationScaleUp, OperationScaleDown,
             Lease!Operations, Lease!OperationScaleUp, Lease!OperationScaleDown
    <2> QED BY <1>1, <1>2, <1>4, <2>1, <2>2 DEF absLock, lockAge, Lease!HeldLocks
  <1>6. lockAge' \in 0..(Second - 1)
    BY <1>1, <1>5, FormatLemma, SecondAssumption
  <1> QED BY <1>3, <1>5, <1>6 DEF Lease!Next, Lease!Acquire, absLock

\* A tick makes the lock that is held older.
LEMMA TickRefines ==
    ASSUME TypeOK, Tick
    PROVE  [Lease!Next]_abs
  <1>1. now \in Nat /\ now' = now + 1 /\ current' = current
    BY DEF TypeOK, Tick, current, resourceVersion
  <1>2. CASE current = NoLock
    BY <1>1, <1>2 DEF abs, absLock, lockAge
  <1>3. CASE current # NoLock
    <2>1. current.timestamp \in Nat
      BY <1>3, ReadLemma DEF Locks
    <2>2. lockAge' = lockAge + 1 /\ absLock' = absLock
      BY <1>1, <1>3, <2>1 DEF lockAge, absLock
    <2> QED BY <1>3, <2>2, HeldLemma DEF Lease!Next, Lease!Tick, absLock
  <1> QED BY <1>2, <1>3

\* Reads, conflicts, retries, caches and lost answers are invisible at the level of
\* the lock: every behaviour is one of an atomic lease lock.
THEOREM LeaseRefinement == Spec => LeaseSpec
  <1>1. Init => Lease!Init
    <2>1. Init => current = NoLock
      BY DEF Init, current, resourceVersion
    <2> QED BY <2>1, FreeLemma DEF Lease!Init, absLock
  <1>2. LockInv /\ TypeOK' /\ [Next]_vars => [Lease!Next]_abs
    <2> SUFFICES ASSUME LockInv, TypeOK', [Next]_vars PROVE [Lease!Next]_abs
      OBVIOUS
    <2>0. TypeOK
      BY DEF LockInv
    <2>1. CASE UNCHANGED <<now, versions>>
      BY <2>1 DEF abs, absLock, lockAge, current, resourceVersion
    <2>2. CASE Tick
      BY <2>0, <2>2, TickRefines
    <2>3. CASE OtherUpdate
      BY <2>0, <2>3, ReadLemma, AppendLemma DEF OtherUpdate, abs, absLock, lockAge
    <2>4. ASSUME NEW c \in Clients, ClientNext(c) PROVE [Lease!Next]_abs
      <3>1. CASE AcquireUpdate(c) \/ AcquireAnswerLost(c)
        BY <3>1, AcquireRefines
      <3>2. CASE ReleaseUpdate(c)
        BY <2>0, <3>2, RemoveRefines DEF ReleaseUpdate, Procs
      <3>3. CASE AcquireStart(c) \/ AcquireGet(c) \/ AcquireConflict(c)
        BY <2>1, <3>3 DEF AcquireStart, AcquireGet, AcquireConflict, Conflict
      <3>4. CASE ReleaseStart(c) \/ ReleaseGet(c) \/ ReleaseConflict(c)
        BY <2>1, <3>4 DEF ReleaseStart, ReleaseGet, ReleaseConflict, Conflict
      <3> QED BY <2>4, <3>1, <3>2, <3>3, <3>4 DEF ClientNext
    <2>5. ASSUME NEW k \in Cleaners, CleanerNext(k) PROVE [Lease!Next]_abs
      <3>1. CASE ForceUpdate(k)
        BY <2>0, <3>1, RemoveRefines DEF ForceUpdate, Procs
      <3>2. CASE CleanupStart(k) \/ ForceGet(k) \/ ForceConflict(k)
        BY <2>1, <3>2 DEF CleanupStart, ForceGet, ForceConflict, Conflict
      <3> QED BY <2>5, <3>1, <3>2 DEF CleanerNext
    <2>6. CASE (\E o \in Owners : Watch(o)) \/ (\E p \in Procs : ApiError(p))
      BY <2>1, <2>6 DEF Watch, ApiError
    <2>7. CASE UNCHANGED vars
      BY <2>1, <2>7 DEF vars
    <2> QED BY <2>2, <2>3, <2>4, <2>5, <2>6, <2>7 DEF Next
  <1> QED BY <1>1, <1>2, TypeCorrect, LockInvariant, PTL
          DEF Spec, LeaseSpec, Lease!Spec, abs, absLock
=============================================================================
