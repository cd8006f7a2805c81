----------------------------- MODULE LeaseLock -----------------------------
(***************************************************************************)
(* What the coordination lock of a Node promises its users, with every     *)
(* read, conflict and retry of the implementation hidden: one lock, taken  *)
(* in one step when it is free or expired, and given back or removed in    *)
(* one step.  CoordinationLock implements this with the reads, caches and  *)
(* conflicting updates of the code; the operations of NodeLifecycle, which *)
(* take the lock in single steps, implement it too.  Time is kept as the   *)
(* age of the lock, since that is all IsLockExpired looks at.              *)
(***************************************************************************)
EXTENDS NodeFsm, Integers

CONSTANTS Owners,       \* the names clients write in the lock-owner annotation
          LockTimeout,  \* DefaultLockTimeout, in clock ticks
          Second        \* ticks per second: the resolution of an RFC3339 timestamp

VARIABLES lock,         \* the annotations operation-lock and lock-owner
          age           \* how old lock-timestamp is; 0 without a lock

\* An absent annotation reads as the empty string.
NoLock == [operation |-> "", owner |-> ""]
HeldLocks == [operation : Operations, owner : Owners]

----------------------------------------------------------------------------
Init == lock = NoLock /\ age = 0

\* A lock may be some fraction of a second old when it is written.
Acquire == /\ lock = NoLock \/ age > LockTimeout
           /\ lock' \in HeldLocks
           /\ age' \in 0..(Second - 1)

\* The owner's release and the forced one leave the same trace on the annotations.
Release == lock' = NoLock /\ age' = 0

Tick == lock # NoLock /\ age' = age + 1 /\ UNCHANGED lock

Next == Acquire \/ Release \/ Tick

Spec == Init /\ [][Next]_<<lock, age>>
=============================================================================
