--------------------------- MODULE NodeFsmProofs ---------------------------
(***************************************************************************)
(* What the transition table of the node state machine promises those who  *)
(* look things up in it.  The code goes through a list and takes the first *)
(* row that fits, looplab's machine keeps a map, and NodeFsm has a set: it *)
(* takes these theorems for the three to be the same.                      *)
(***************************************************************************)
EXTENDS NodeFsm, TLAPS

\* The rows, one name expanded at a time.
LEMMA RowCases ==
    ASSUME NEW t \in GetFSMTransitions
    PROVE  \/ t.name = "StartNode" /\ t.src = {"shutdown"} /\ t.dst = "startingup"
           \/ t.name = "ShutdownNode" /\ t.src = {"ready"} /\ t.dst = "shuttingdown"
           \/ t.name = "JobCompleted" /\ t.src = {"startingup"} /\ t.dst = "ready"
           \/ t.name = "JobCompleted" /\ t.src = {"shuttingdown"} /\ t.dst = "shutdown"
           \/ t.name = "JobFailed" /\ t.src = {"startingup"} /\ t.dst = "shutdown"
           \/ t.name = "JobFailed" /\ t.src = {"shuttingdown"} /\ t.dst = "ready"
           \/ t.name = "JobTimeout" /\ t.src = {"startingup"} /\ t.dst = "shutdown"
           \/ t.name = "JobTimeout" /\ t.src = {"shuttingdown"} /\ t.dst = "ready"
           \/ t.name = "ForceCleanup" /\ t.src = {"startingup", "shuttingdown"} /\ t.dst = "shutdown"
  BY DEF GetFSMTransitions, EventStartNode, EventShutdownNode, EventJobCompleted, EventJobFailed,
         EventJobTimeout, EventForceCleanup, StateShutdown, StateStartingUp, StateReady,
         StateShuttingDown

\* No event has two destinations from one state: the order of the rows does not matter.
THEOREM TableIsDeterministic ==
    ASSUME NEW t \in GetFSMTransitions, NEW u \in GetFSMTransitions,
           t.name = u.name, t.src \intersect u.src # {}
    PROVE  t.dst = u.dst
  BY RowCases

\* Every event leads from rest into an operation or back: from stable states to a
\* transitional one or from transitional states to a stable one.
THEOREM TableAlternates ==
    ASSUME NEW t \in GetFSMTransitions, NEW s \in t.src
    PROVE  \/ IsStableState(s) /\ IsTransitionalState(t.dst)
           \/ IsTransitionalState(s) /\ IsStableState(t.dst)
  BY RowCases
     DEF IsStableState, IsTransitionalState, StateShutdown, StateStartingUp, StateReady,
         StateShuttingDown

\* A look-up finds the destination of whichever row fits.
LEMMA LookUp ==
    ASSUME NEW t \in GetFSMTransitions, NEW s \in t.src
    PROVE  ValidateEventTransition(s, t.name) /\ GetDestinationState(s, t.name) = t.dst
  <1> DEFINE Fits(u) == u.name = t.name /\ s \in u.src
             found == CHOOSE u \in GetFSMTransitions : Fits(u)
  <1>1. found \in GetFSMTransitions /\ Fits(found)
    OBVIOUS
  <1>2. found.dst = t.dst
    <2> HIDE DEF found
    <2> QED BY <1>1, TableIsDeterministic
  <1> QED BY <1>2 DEF ValidateEventTransition, GetDestinationState

\* What may happen to a machine in state s: a start when it is shut down, a shutdown when it
\* is ready, and what becomes of a Job, or the forced cleanup, whenever an operation is under
\* way.  So a Job that completes, fails or is given up always finds a row.
THEOREM EventsFitStates ==
    ASSUME NEW s
    PROVE  /\ ValidateEventTransition(s, EventStartNode) <=> s = StateShutdown
           /\ ValidateEventTransition(s, EventShutdownNode) <=> s = StateReady
           /\ \A e \in JobEvents \union {EventForceCleanup} :
                 ValidateEventTransition(s, e) <=> IsTransitionalState(s)
  BY DEF ValidateEventTransition, GetFSMTransitions, IsTransitionalState, JobEvents,
         EventStartNode, EventShutdownNode, EventJobCompleted, EventJobFailed, EventJobTimeout,
         EventForceCleanup, StateShutdown, StateStartingUp, StateReady, StateShuttingDown

\* The destinations the operations pass through.
LEMMA Destinations ==
    /\ GetDestinationState(StateShutdown, EventStartNode) = StateStartingUp
    /\ GetDestinationState(StateStartingUp, EventJobCompleted) = StateReady
    /\ GetDestinationState(StateStartingUp, EventJobFailed) = StateShutdown
    /\ GetDestinationState(StateStartingUp, EventJobTimeout) = StateShutdown
    /\ GetDestinationState(StateReady, EventShutdownNode) = StateShuttingDown
    /\ GetDestinationState(StateShuttingDown, EventJobCompleted) = StateShutdown
    /\ GetDestinationState(StateShuttingDown, EventJobFailed) = StateReady
    /\ GetDestinationState(StateShuttingDown, EventJobTimeout) = StateReady
  <1> DEFINE Row(n, q, d) == [name |-> n, src |-> {q}, dst |-> d]
  <1>1. ASSUME NEW n, NEW q, NEW d, Row(n, q, d) \in GetFSMTransitions
        PROVE  GetDestinationState(q, n) = d
    <2>1. q \in Row(n, q, d).src /\ Row(n, q, d).name = n /\ Row(n, q, d).dst = d
      OBVIOUS
    <2> HIDE DEF Row
    <2> QED BY <1>1, <2>1, LookUp
  <1>2. /\ Row(EventStartNode, StateShutdown, StateStartingUp) \in GetFSMTransitions
        /\ Row(EventJobCompleted, StateStartingUp, StateReady) \in GetFSMTransitions
        /\ Row(EventJobFailed, StateStartingUp, StateShutdown) \in GetFSMTransitions
        /\ Row(EventJobTimeout, StateStartingUp, StateShutdown) \in GetFSMTransitions
        /\ Row(EventShutdownNode, StateReady, StateShuttingDown) \in GetFSMTransitions
        /\ Row(EventJobCompleted, StateShuttingDown, StateShutdown) \in GetFSMTransitions
        /\ Row(EventJobFailed, StateShuttingDown, StateReady) \in GetFSMTransitions
        /\ Row(EventJobTimeout, StateShuttingDown, StateReady) \in GetFSMTransitions
    BY DEF GetFSMTransitions
  <1> HIDE DEF Row
  <1> QED BY <1>1, <1>2

\* Every Job event leads from a transitional state to a stable one; in particular the
\* table has a row for it.
LEMMA DestinationLemma ==
    ASSUME NEW s \in {StateStartingUp, StateShuttingDown}, NEW e \in JobEvents
    PROVE  IsStableState(GetDestinationState(s, e))
  <1>1. IsTransitionalState(s) /\ ~IsStableState(s)
    BY DEF IsTransitionalState, IsStableState, StateShutdown, StateStartingUp, StateReady,
           StateShuttingDown
  <1>2. PICK t \in GetFSMTransitions : t.name = e /\ s \in t.src
    BY <1>1, EventsFitStates DEF ValidateEventTransition
  <1>3. GetDestinationState(s, e) = t.dst
    BY <1>2, LookUp
  <1> QED BY <1>1, <1>2, <1>3, TableAlternates

\* A Job that completes takes the Node on to the other stable state; one that fails, or is
\* given up, takes it back to where the operation found it, startups and shutdowns alike.
THEOREM FailureUndoes ==
    ASSUME NEW s \in {StateShutdown, StateReady}, NEW e \in {EventStartNode, EventShutdownNode},
           ValidateEventTransition(s, e)
    PROVE  LET during == GetDestinationState(s, e)
           IN  /\ GetDestinationState(during, EventJobCompleted) \in {StateShutdown, StateReady} \ {s}
               /\ GetDestinationState(during, EventJobFailed) = s
               /\ GetDestinationState(during, EventJobTimeout) = s
  <1>1. (s = StateShutdown /\ e = EventStartNode) \/ (s = StateReady /\ e = EventShutdownNode)
    BY EventsFitStates
  <1> QED BY <1>1, Destinations DEF StateShutdown, StateReady
=============================================================================
