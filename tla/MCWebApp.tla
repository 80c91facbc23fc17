----------------------------- MODULE MCWebApp ------------------------------
(* An instance of WebApp for TLC.                                          *)
EXTENDS WebApp

Old == [min |-> 1, max |-> 2, step |-> 1, rate |-> 2]
New == [min |-> 2, max |-> 3, step |-> 1, rate |-> 3]
MCPolicies == {Old, New}
=============================================================================
