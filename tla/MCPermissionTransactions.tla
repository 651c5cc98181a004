---------------------- MODULE MCPermissionTransactions ----------------------
(***************************************************************************)
(* Finite instances of PermissionTransactions.                             *)
(***************************************************************************)
EXTENDS PermissionTransactions, TLC

\* Ids are opaque UUIDs, and connections are interchangeable.
Symmetry ==
    Permutations(Domains) \cup Permutations(Users) \cup Permutations(Groups)
    \cup Permutations(Resources) \cup Permutations(Permissions) \cup Permutations(Conns)

=============================================================================
