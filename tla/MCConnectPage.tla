--------------------------- MODULE MCConnectPage ---------------------------
(* Instances of ConnectPage for TLC.                                       *)
EXTENDS ConnectPage, TLC

\* No two members of these sets are told apart by the specification.
Symmetric == Permutations(Tabs) \union Permutations(Requests)
=============================================================================
