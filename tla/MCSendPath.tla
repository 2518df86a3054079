----------------------------- MODULE MCSendPath -----------------------------
(* Small instances of SendPath for TLC.                                     *)
EXTENDS SendPath

MCPolicies == {[capacity |-> 1, policy |-> "DropOldest"],
               [capacity |-> 2, policy |-> "Reject"]}
MCDropOldest == {[capacity |-> 1, policy |-> "DropOldest"]}
MCNoPolicies == {}
=============================================================================
