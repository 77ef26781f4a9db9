-------------------------- MODULE MCTraversalQueue --------------------------
EXTENDS TraversalQueue, TLC

CONSTANTS n1, n2, s1, s2, s3, s4

MCTargetOf == s1 :> None @@ s2 :> n1 @@ s3 :> n1 @@ s4 :> n2
=============================================================================
