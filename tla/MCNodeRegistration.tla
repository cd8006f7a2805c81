------------------------ MODULE MCNodeRegistration ------------------------
(* A small instance of NodeRegistration for TLC.  It starts with all Groups *)
(* loaded and one Node, for the Kubernetes node of its own name; which Node  *)
(* and in which Group makes no difference.                                  *)
EXTENDS NodeRegistration, TLC

CONSTANTS n1, n2, k1, k2

NameByName == n1 :> k1 @@ n2 :> k2

MCInit ==
    /\ Init
    /\ \A g \in Groups : group[g].loaded
    /\ LET g == CHOOSE g \in Groups : TRUE
       IN  cr = n1 :> NewNode(g, k1) @@ n2 :> None

MCSpec == MCInit /\ [][Next]_vars /\ Fairness
=============================================================================
