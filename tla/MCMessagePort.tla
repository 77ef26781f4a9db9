---------------------------- MODULE MCMessagePort ----------------------------
EXTENDS MessagePort, TLC
CONSTANTS main, worker
TwoToPort1 == "port1" :> 2 @@ "port2" :> 0
Port1Twice == "port1" :> 2 @@ "port2" :> 1
=============================================================================
