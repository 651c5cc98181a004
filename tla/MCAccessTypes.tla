---------------------------- MODULE MCAccessTypes ----------------------------
(***************************************************************************)
(* Finite instances of AccessTypePatches.                                  *)
(***************************************************************************)
EXTENDS AccessTypePatches, TLC

\* Ids are opaque UUIDs, and clients are interchangeable.  Titles are ordered.
Symmetry == Permutations(Ids) \cup Permutations(Clients) \cup Permutations(Patchers)

\* The value of SentBits: clients send single bits.
SingleBits == { {b} : b \in Bits }

\* A pooled patch or a v2 create is under way, not both: to the creates a pooled
\* patch is an AccessTypePatch, as PooledPatchIsPatch says.
OneKind == (\A c \in Clients : ~ Running(c)) \/ (\A w \in Patchers : ~ Patching(w))

MCSpec == PatchInit /\ [][PatchNext /\ OneKind']_patchVars

=============================================================================
