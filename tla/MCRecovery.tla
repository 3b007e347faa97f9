----------------------------- MODULE MCRecovery -----------------------------
EXTENDS RecoveryInv
\* The last object leaves this node at epoch 2 and comes back at epoch 3, where
\* a strict cluster has too few zones to write; at epoch 4 the node is gateway.
MCLocalAt == [e \in 1..MaxEpoch |-> CASE e = 2 -> {1} [] e = 4 -> {}
                                      [] OTHER -> {1, 2}]
MCGatewayAt == {4} \cap 1..MaxEpoch
MCHaltAt == [e \in 1..MaxEpoch |-> IF e = 3 THEN {"write", "create"} ELSE {}]
MCLocalOne == [e \in 1..MaxEpoch |-> Oids]
MCNone == {}
=============================================================================
