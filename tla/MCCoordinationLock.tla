------------------------- MODULE MCCoordinationLock -------------------------
(* Small instances of CoordinationLock for TLC. *)
EXTENDS CoordinationLock, TLC

CONSTANTS c1, c2, k1

NodeController == "node-controller"
Autoscaler == "cluster-autoscaler"

\* Two controllers with a client each; the node controller also cleans up.
TwoControllers == c1 :> NodeController @@ c2 :> Autoscaler @@ k1 :> NodeController
OneOperationEach == c1 :> OperationScaleUp @@ c2 :> OperationScaleDown
=============================================================================
