---------------------------- MODULE MCServeLoop ----------------------------
(* A small instance of ServeLoop for TLC.                                   *)
EXTENDS ServeLoop

CONSTANT p1

MCOne      == {p1}
MCCallIds  == {1}
MCPolicies == {[capacity |-> 1, reject |-> TRUE]}
=============================================================================
