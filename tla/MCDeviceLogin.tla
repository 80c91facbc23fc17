--------------------------- MODULE MCDeviceLogin ---------------------------
(* Instances of DeviceLogin for TLC.                                       *)
EXTENDS DeviceLogin, TLC

\* No two members of these sets are told apart by the specification.
Symmetric == Permutations(Requests) \union Permutations(Sessions)
               \union Permutations(Uids) \union Permutations(Calls)
               \union Permutations(Browsers) \union Permutations(Approvals)
=============================================================================
