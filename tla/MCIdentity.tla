----------------------------- MODULE MCIdentity -----------------------------
(* Instances of Identity for TLC. *)
EXTENDS Identity, TLC

MCOrgOf == [u \in Users |-> CHOOSE o \in Orgs : TRUE]

\* Requests of a kind are alike.
Symmetry == Permutations(OrgRequests) \cup Permutations(Requests) \cup Permutations(Operators)
=============================================================================
