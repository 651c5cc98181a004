--------------------------- MODULE MCAuthzListings ---------------------------
(***************************************************************************)
(* Finite instances of AuthzListings.                                      *)
(***************************************************************************)
EXTENDS AuthzListings, TLC

\* Ids are opaque UUIDs, and no query tells the bits below the sign apart.
Symmetry ==
    Permutations(Users) \cup Permutations(Groups) \cup Permutations(Resources)
    \cup Permutations(Permissions) \cup Permutations(Bits \ {SignBit})

=============================================================================
