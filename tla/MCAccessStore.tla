--------------------------- MODULE MCAccessStore ---------------------------
(***************************************************************************)
(* A finite instance of AccessStore.                                       *)
(***************************************************************************)
EXTENDS AccessStore, TLC

\* Ids are opaque UUIDs.
Symmetry ==
    Permutations(Domains) \cup Permutations(Users) \cup Permutations(Groups)
    \cup Permutations(Resources) \cup Permutations(Permissions)

\* What is there at a time: one domain, with two groups and two permissions, and
\* drift; or two domains, with three groups and one permission.
Live(table) == { i \in DOMAIN table : table[i] # NoRow }
OneDomain ==
    /\ Cardinality(domains \cup { k[1] : k \in Live(user_resource_masks) }) <= 1
    /\ Cardinality(Live(groups)) <= 2
TwoDomains == Cardinality(Live(permissions)) <= 1 /\ edits = 0

MCSpec == Init /\ [][Next /\ (OneDomain \/ TwoDomains)']_vars

=============================================================================
