---------------------------- MODULE NodeObject ----------------------------
(***************************************************************************)
(* One Node object as its readers see it: what is desired, the power last  *)
(* seen and the progress, and the updates these three can go through.      *)
(* Two specifications implement it.  NodeLifecycle opens up the controller *)
(* side (operations, Jobs, the mirror) for one Node, GrpcScaling the gRPC  *)
(* side for groups of Nodes; each takes the other side to be the steps     *)
(* below.                                                                  *)
(***************************************************************************)
EXTENDS NodeFsm

VARIABLES
    desired,    \* Spec.DesiredPowerState
    power,      \* Status.PowerState
    progress    \* Status.Progress

vars == <<desired, power, progress>>

Init ==
    /\ desired \in PowerStates
    /\ power \in PowerStates \union {""}
    /\ progress \in Progresses

\* A Node may be asked to start only when it is off in every respect.
PoweredOff == /\ desired = PowerStateOff
              /\ power = PowerStateOff
              /\ progress = StateShutdown

\* gRPC: NodeGroupIncreaseSize; NodeGroupDeleteNodes and NodeGroupDecreaseTargetSize.
AskOn == PoweredOff /\ desired' = PowerStateOn /\ UNCHANGED <<power, progress>>
AskOff == desired' = PowerStateOff /\ UNCHANGED <<power, progress>>

\* The state machine's hooks.  An operation never begins on a Node that is already in
\* transition.
WriteProgress == /\ progress' \in States
                 /\ IsTransitionalState(progress') => ~IsTransitionalState(progress)
                 /\ UNCHANGED <<desired, power>>

\* gRPC: the second update of NodeGroupDecreaseTargetSize turns a startup, whose Node has
\* been told off and was not seen on, into a shutdown.
TurnBack == /\ desired = PowerStateOff /\ power = PowerStateOff
            /\ progress = StateStartingUp /\ progress' = StateShuttingDown
            /\ UNCHANGED <<desired, power>>

\* The mirror takes over the power; the progress follows unless an operation is under way.
Mirror ==
    /\ power' \in PowerStates
    /\ progress' = IF IsTransitionalState(progress) THEN progress
                   ELSE IF power' = PowerStateOn THEN StateReady ELSE StateShutdown
    /\ UNCHANGED desired

Next == AskOn \/ AskOff \/ WriteProgress \/ TurnBack \/ Mirror

Spec == Init /\ [][Next]_vars
=============================================================================
