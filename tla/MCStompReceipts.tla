--------------------------- MODULE MCStompReceipts ----------------------------
(* StompReceipts for TLC: the calls a configuration chooses from.            *)
EXTENDS StompReceipts

OperationCalls == {[op |-> "operation", header |-> TRUE]}
=============================================================================
