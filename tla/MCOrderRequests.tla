-------------------------- MODULE MCOrderRequests --------------------------
(* An instance of OrderRequests for TLC.                                   *)
EXTENDS OrderRequests, TLC

CONSTANTS a1, a2, ip

MCSubjects == {a1, a2, ip}
MCLimit == [k \in MCSubjects |-> IF k = ip THEN 2 ELSE 1]

\* No two members of these sets are told apart by the specification.
Symmetric == Permutations(Orders) \union Permutations(Keys)
               \union Permutations(Accounts) \union Permutations(Prices)
               \union Permutations(Calls)
=============================================================================
