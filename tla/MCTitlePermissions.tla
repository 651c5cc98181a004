------------------------- MODULE MCTitlePermissions -------------------------
(***************************************************************************)
(* Finite instances of TitlePermissions.                                   *)
(***************************************************************************)
EXTENDS TitlePermissions, TLC

\* Ids are opaque UUIDs.
Symmetry == Permutations(Ids) \cup Permutations(Perms)

\* Values for SentBits: single bits.
SingleBits == { {b} : b \in Bits }

=============================================================================
