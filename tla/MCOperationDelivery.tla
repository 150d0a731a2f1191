-------------------------- MODULE MCOperationDelivery --------------------------
(* Instances of the composed Hub, Agent and transport for TLC.             *)
EXTENDS OperationDelivery, TLC

OpSymmetry == Permutations(OpId)
================================================================================
