------------------------------ MODULE NodeFsm ------------------------------
(***************************************************************************)
(* The transition table of the node state machine (internal/fsm/events.go) *)
(* and the helpers that read it.  The table is data in the code, a slice   *)
(* of fsm.EventDesc; here it is a set of records with the same fields.     *)
(* The module has no variables: NodeLifecycle runs the table.              *)
(***************************************************************************)
EXTENDS Naturals

\* types.go: FSM states; the Progress values of the CRD are the same strings.
StateShutdown == "shutdown"
StateStartingUp == "startingup"
StateReady == "ready"
StateShuttingDown == "shuttingdown"
States == {StateShutdown, StateStartingUp, StateReady, StateShuttingDown}

\* Status.Progress of a freshly created Node is the empty string.
NoProgress == ""
Progresses == States \union {NoProgress}

\* PowerState of the API: what is desired of a Node, and what was last seen of it.
PowerStateOn == "on"
PowerStateOff == "off"
PowerStates == {PowerStateOn, PowerStateOff}

\* types.go: FSM events.
EventStartNode == "StartNode"
EventShutdownNode == "ShutdownNode"
EventJobCompleted == "JobCompleted"
EventJobFailed == "JobFailed"
EventJobTimeout == "JobTimeout"
EventForceCleanup == "ForceCleanup"
JobEvents == {EventJobCompleted, EventJobFailed, EventJobTimeout}
Events == JobEvents \union {EventStartNode, EventShutdownNode, EventForceCleanup}

\* types.go: operations recorded in the lock annotation.
OperationScaleUp == "scale-up"
OperationScaleDown == "scale-down"
Operations == {OperationScaleUp, OperationScaleDown}

----------------------------------------------------------------------------

\* The comment above the JobTimeout rows of the code says "stay in same state
\* for shutting down"; the row itself goes to ready, and the row is what runs.
GetFSMTransitions ==
    { [name |-> EventStartNode,    src |-> {StateShutdown},     dst |-> StateStartingUp],
      [name |-> EventShutdownNode, src |-> {StateReady},        dst |-> StateShuttingDown],
      [name |-> EventJobCompleted, src |-> {StateStartingUp},   dst |-> StateReady],
      [name |-> EventJobCompleted, src |-> {StateShuttingDown}, dst |-> StateShutdown],
      [name |-> EventJobFailed,    src |-> {StateStartingUp},   dst |-> StateShutdown],
      [name |-> EventJobFailed,    src |-> {StateShuttingDown}, dst |-> StateReady],
      [name |-> EventJobTimeout,   src |-> {StateStartingUp},   dst |-> StateShutdown],
      [name |-> EventJobTimeout,   src |-> {StateShuttingDown}, dst |-> StateReady],
      [name |-> EventForceCleanup, src |-> {StateStartingUp, StateShuttingDown},
                                                                dst |-> StateShutdown] }

\* Also what looplab's fsm.Can answers, which CanTransition returns.
ValidateEventTransition(currentState, event) ==
    \E t \in GetFSMTransitions : t.name = event /\ currentState \in t.src

\* The code's second result (false) is the caller's guard ValidateEventTransition.
GetDestinationState(srcState, event) ==
    (CHOOSE t \in GetFSMTransitions : t.name = event /\ srcState \in t.src).dst

IsTransitionalState(state) == state \in {StateStartingUp, StateShuttingDown}
IsStableState(state) == state \in {StateReady, StateShutdown}

GetOperationForEvent(event) ==
    CASE event = EventStartNode    -> OperationScaleUp
      [] event = EventShutdownNode -> OperationScaleDown

\* NewNodeStateMachine starts the machine in the state the Progress field names;
\* an empty (or unknown) Progress counts as shutdown.
getCurrentState(progress) == IF progress \in States THEN progress ELSE StateShutdown
=============================================================================
