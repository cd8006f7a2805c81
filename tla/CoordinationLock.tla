-------------------------- MODULE CoordinationLock --------------------------
(***************************************************************************)
(* The coordination manager (internal/fsm/coordination.go) and the node    *)
(* controller's own lock cleanup, on one Node object.  The lock is a set   *)
(* of annotations on the object; the API server accepts an Update only if  *)
(* it carries the latest resource version; reads are served by the         *)
(* informer cache of the process and may be old.  AcquireLock, ReleaseLock *)
(* and forceReleaseLock are each a Get followed by an Update, retried on   *)
(* conflict, so other writers run between the two.                         *)
(***************************************************************************)
EXTENDS NodeFsm, Integers, Sequences

CONSTANTS Clients,      \* goroutines that take and give back the lock
          Cleaners,     \* reconcile loops that run cleanupExpiredLocks
          Owner,        \* Owner[p]: the controller (process) p belongs to
          Operation,    \* Operation[c]: the operation client c takes the lock for
          Owners, LockTimeout, Second,
          RetrySteps,   \* attempts of retry.DefaultRetry
          MaxVersion,   \* bound on the writes to the object
          MaxTime       \* bound on the clock

Procs == Clients \union Cleaners

ASSUME OwnersAssumption == Owners \subseteq STRING /\ "" \notin Owners
ASSUME OwnerAssumption == Owner \in [Procs -> Owners]
ASSUME OperationAssumption == Operation \in [Clients -> Operations]
ASSUME DisjointAssumption == Clients \intersect Cleaners = {}
ASSUME LockTimeoutAssumption == LockTimeout \in Nat
ASSUME SecondAssumption == Second \in Nat \ {0}
ASSUME BoundsAssumption == RetrySteps \in Nat \ {0} /\ MaxVersion \in Nat /\ MaxTime \in Nat

VARIABLES
    now,       \* the clock
    versions,  \* versions[v]: the lock annotations at resource version v
    cache,     \* cache[o]: the version the informer cache of process o shows
    proc,      \* proc[p]: the call p is in: pc, the version its Get returned,
               \* its attempts so far, and when its AcquireLock succeeded
    inForce,   \* history: {c} while the annotations are those c holds the lock by
    lost       \* history: holders whose unexpired lock somebody else removed

vars == <<now, versions, cache, proc, inForce, lost>>

resourceVersion == Len(versions)
current == versions[resourceVersion]

\* An absent annotation reads as the empty string.
NoLock == [operation |-> "", owner |-> "", timestamp |-> 0]
Locks == [operation : Operations, owner : Owners, timestamp : Nat] \union {NoLock}

\* time.Now().Format(time.RFC3339) drops the fraction of the second.
FormatTimestamp(t) == t - (t % Second)

\* CheckLock: the annotations are all there.
CheckLock(l) == l.operation # "" /\ l.owner # ""

\* IsLockExpired
IsLockExpired(l, t) == t - l.timestamp > LockTimeout

\* The condition under which AcquireLock goes ahead.
Available(l, t) == CheckLock(l) => IsLockExpired(l, t)

LockFor(op, o, t) == [operation |-> op, owner |-> o, timestamp |-> FormatTimestamp(t)]

Idle == [pc |-> "idle", copy |-> 1, tries |-> 0, since |-> 0]
Granted(t) == [pc |-> "held", copy |-> 1, tries |-> 0, since |-> t]
Calls == [pc : {"idle", "get", "update", "held", "releaseGet", "releaseUpdate"},
          copy : Nat, tries : 0..(RetrySteps - 1), since : Nat]

TypeOK ==
    /\ now \in Nat
    /\ versions \in Seq(Locks) /\ versions # << >>
    /\ cache \in [Owners -> Nat] /\ \A o \in Owners : cache[o] \in 1..resourceVersion
    /\ proc \in [Procs -> Calls] /\ \A p \in Procs : proc[p].copy \in 1..resourceVersion
    /\ inForce \in SUBSET Clients
    /\ lost \in SUBSET Clients

Init ==
    /\ now = 0
    /\ versions = <<NoLock>>
    /\ cache = [o \in Owners |-> 1]
    /\ proc = [p \in Procs |-> Idle]
    /\ inForce = {}
    /\ lost = {}

\* Between the success of AcquireLock and the end of ReleaseLock.
Holding(c) == proc[c].pc \in {"held", "releaseGet", "releaseUpdate"}

----------------------------------------------------------------------------
(* The API server, the informer cache and RetryOnConflict. *)

Goto(p, label) == proc' = [proc EXCEPT ![p].pc = label]

\* The call of p ends (whatever it returns).
Return(p) == /\ proc' = [proc EXCEPT ![p] = Idle]
             /\ inForce' = inForce \ {p}
             /\ lost' = lost \ {p}

\* An Update that reaches the server with the latest resource version.
Write(p, l) == /\ proc[p].copy = resourceVersion
               /\ resourceVersion < MaxVersion
               /\ versions' = Append(versions, l)

\* client.Get: the object as the cache of p's process shows it.
Cached(p) == versions[cache[Owner[p]]]
Get(p, label) ==
    proc' = [proc EXCEPT ![p] = [pc |-> label, copy |-> cache[Owner[p]],
                                 tries |-> proc[p].tries, since |-> proc[p].since]]

\* Conflict: RetryOnConflict runs the closure again, or gives up.
Conflict(p, again) ==
    /\ proc[p].copy # resourceVersion
    /\ \/ /\ proc[p].tries + 1 < RetrySteps
          /\ proc' = [proc EXCEPT ![p] = [pc |-> again, copy |-> proc[p].copy,
                                       tries |-> proc[p].tries + 1, since |-> proc[p].since]]
          /\ UNCHANGED <<inForce, lost>>
       \/ /\ proc[p].tries + 1 >= RetrySteps
          /\ Return(p)
    /\ UNCHANGED <<now, versions, cache>>

\* The watch delivers newer versions, in order, possibly several at once.
Watch(o) == /\ \E v \in (cache[o] + 1)..resourceVersion : cache' = [cache EXCEPT ![o] = v]
            /\ UNCHANGED <<now, versions, proc, inForce, lost>>

\* Anybody else's update of the Node: status, spec, labels.
OtherUpdate == /\ resourceVersion < MaxVersion
               /\ versions' = Append(versions, current)
               /\ UNCHANGED <<now, cache, proc, inForce, lost>>

Tick == /\ now < MaxTime
        /\ now' = now + 1
        /\ UNCHANGED <<versions, cache, proc, inForce, lost>>

----------------------------------------------------------------------------
(* AcquireLock *)

\* CheckLock on the object the caller passed: a live lock is an error (no step).
AcquireStart(c) ==
    /\ proc[c].pc = "idle"
    /\ Available(Cached(c), now)
    /\ Goto(c, "get")
    /\ UNCHANGED <<now, versions, cache, inForce, lost>>

\* Faulty variant: the fresh copy is not checked again.
AcquireGetUnchecked(c) ==
    /\ proc[c].pc = "get"
    /\ Get(c, "update")
    /\ UNCHANGED <<now, versions, cache, inForce, lost>>

\* The fresh Get and the second check.
AcquireGet(c) ==
    /\ proc[c].pc = "get"
    /\ \/ /\ Available(Cached(c), now)
          /\ Get(c, "update")
          /\ UNCHANGED <<inForce, lost>>
       \/ /\ ~Available(Cached(c), now)
          /\ Return(c)
    /\ UNCHANGED <<now, versions, cache>>

\* Faulty variant: the operation annotation is forgotten.
AcquireUpdateUnnamed(c) ==
    /\ proc[c].pc = "update"
    /\ Write(c, LockFor("", Owner[c], now))
    /\ proc' = [proc EXCEPT ![c] = Granted(now)]
    /\ inForce' = {c}
    /\ UNCHANGED <<now, cache, lost>>

\* The annotations are written on the copy that was checked.
AcquireUpdate(c) ==
    /\ proc[c].pc = "update"
    /\ Write(c, LockFor(Operation[c], Owner[c], now))
    /\ proc' = [proc EXCEPT ![c] = Granted(now)]
    /\ inForce' = {c}
    /\ UNCHANGED <<now, cache, lost>>

\* The server applied the update and the answer was lost: AcquireLock reports an
\* error, and the annotations stay.
AcquireAnswerLost(c) ==
    /\ proc[c].pc = "update"
    /\ Write(c, LockFor(Operation[c], Owner[c], now))
    /\ proc' = [proc EXCEPT ![c] = Idle]
    /\ inForce' = {}
    /\ UNCHANGED <<now, cache, lost>>

AcquireConflict(c) == proc[c].pc = "update" /\ Conflict(c, "get")

----------------------------------------------------------------------------
(* ReleaseLock *)

ReleaseStart(c) ==
    /\ proc[c].pc = "held"
    /\ Goto(c, "releaseGet")
    /\ UNCHANGED <<now, versions, cache, inForce, lost>>

\* Faulty variant: whose lock it is is not looked at.
ReleaseGetAnyway(c) ==
    /\ proc[c].pc = "releaseGet"
    /\ Get(c, "releaseUpdate")
    /\ UNCHANGED <<now, versions, cache, inForce, lost>>

\* Only the owner string is compared: nobody's lock, or a foreign one, ends the call.
ReleaseGet(c) ==
    /\ proc[c].pc = "releaseGet"
    /\ \/ /\ Cached(c).owner = Owner[c]
          /\ Get(c, "releaseUpdate")
          /\ UNCHANGED <<inForce, lost>>
       \/ /\ Cached(c).owner # Owner[c]
          /\ Return(c)
    /\ UNCHANGED <<now, versions, cache>>

\* Faulty variant: only the operation annotation is deleted.
RemoveOperationOnly(p) ==
    /\ Write(p, [current EXCEPT !.operation = ""])
    /\ proc' = [proc EXCEPT ![p] = Idle]
    /\ inForce' = {}
    /\ lost' = (IF Available(current, now) THEN lost ELSE lost \union inForce) \ {p}
    /\ UNCHANGED <<now, cache>>

\* The annotations are deleted; whose unexpired lock went with them is remembered.
RemoveLock(p) ==
    /\ Write(p, NoLock)
    /\ proc' = [proc EXCEPT ![p] = Idle]
    /\ inForce' = {}
    /\ lost' = (IF Available(current, now) THEN lost ELSE lost \union inForce) \ {p}
    /\ UNCHANGED <<now, cache>>

ReleaseUpdate(c) == proc[c].pc = "releaseUpdate" /\ RemoveLock(c)
ReleaseConflict(c) == proc[c].pc = "releaseUpdate" /\ Conflict(c, "releaseGet")

----------------------------------------------------------------------------
(* cleanupExpiredLocks and forceReleaseLock of the node controller; the     *)
(* manager's ForceReleaseLock is the same code.                             *)

\* The listed copy (from the cache) carries an expired lock.
CleanupStart(k) ==
    /\ proc[k].pc = "idle"
    /\ CheckLock(Cached(k)) /\ IsLockExpired(Cached(k), now)
    /\ Goto(k, "get")
    /\ UNCHANGED <<now, versions, cache, inForce, lost>>

\* Neither expiry nor ownership is looked at again.
ForceGet(k) ==
    /\ proc[k].pc = "get"
    /\ Get(k, "update")
    /\ UNCHANGED <<now, versions, cache, inForce, lost>>

ForceUpdate(k) == proc[k].pc = "update" /\ RemoveLock(k)
ForceConflict(k) == proc[k].pc = "update" /\ Conflict(k, "get")

\* Any call may also fail at the server or on the way (timeout, admission webhook).
ApiError(p) ==
    /\ proc[p].pc \notin {"idle", "held"}
    /\ Return(p)
    /\ UNCHANGED <<now, versions, cache>>

----------------------------------------------------------------------------
ClientNext(c) ==
    \/ AcquireStart(c) \/ AcquireGet(c) \/ AcquireUpdate(c)
    \/ AcquireAnswerLost(c) \/ AcquireConflict(c)
    \/ ReleaseStart(c) \/ ReleaseGet(c) \/ ReleaseUpdate(c) \/ ReleaseConflict(c)

CleanerNext(k) == CleanupStart(k) \/ ForceGet(k) \/ ForceUpdate(k) \/ ForceConflict(k)

Next ==
    \/ Tick
    \/ OtherUpdate
    \/ \E o \in Owners : Watch(o)
    \/ \E p \in Procs : ApiError(p)
    \/ \E c \in Clients : ClientNext(c)
    \/ \E k \in Cleaners : CleanerNext(k)

Spec == Init /\ [][Next]_vars

----------------------------------------------------------------------------
(* Properties *)

\* The part of the lease a holder can count on: the annotation drops the fraction
\* of the second, so up to Second - 1 ticks of the timeout are gone when it is written.
Leased(c) == Holding(c) /\ now - proc[c].since <= LockTimeout - (Second - 1)

\* AcquireLock's two checks and the resource version of the Update keep two clients
\* from holding the lock at once, whatever the caches show and however often the
\* update conflicts: only a lock that somebody else removed (a forced cleanup, or a
\* ReleaseLock that saw its own owner string) can be handed out a second time.
Exclusive ==
    \A c, d \in Clients : c # d /\ Leased(c) /\ Leased(d) => c \in lost \/ d \in lost

\* The two facts Exclusive rests on.  A client about to write saw an available lock
\* in the version its Update is conditional on; and a holder whose lease runs, and
\* whose lock was not removed, is the one the annotations stand for.
WriterSawAvailable ==
    \A c \in Clients : proc[c].pc = "update" =>
        Available(versions[proc[c].copy], now)
HolderInForce ==
    \A c \in Clients : Leased(c) /\ c \notin lost =>
        /\ inForce = {c}
        /\ CheckLock(current)
        /\ current.timestamp = FormatTimestamp(proc[c].since)
LockInv == TypeOK /\ WriterSawAvailable /\ HolderInForce

\* AcquireLock, ReleaseLock and the cleanup change the annotations only as an atomic
\* lease lock does: an Update over a stale read never gets through.
lockAge == IF current = NoLock THEN 0 ELSE now - current.timestamp
Lease == INSTANCE LeaseLock WITH
            lock <- [operation |-> current.operation, owner |-> current.owner],
            age <- lockAge
LeaseSpec == Lease!Spec

\* "Check if we own the lock before releasing" (coordination.go): an unexpired lock is
\* replaced or removed by a forced cleanup or by a ReleaseLock of a client with the same
\* owner string only, also when the release read an older version of the Node, or when
\* the lock has changed hands in between.
OthersLockKept ==
    [][~Available(current, now) /\ current' # current =>
          \/ \E k \in Cleaners : ForceUpdate(k)
          \/ \E c \in Clients : ReleaseUpdate(c) /\ Owner[c] = current.owner]_vars
=============================================================================
