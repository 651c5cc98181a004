---------------------------- MODULE MCPagedLists ----------------------------
(***************************************************************************)
(* A finite instance of PagedLists.                                        *)
(***************************************************************************)
EXTENDS PagedLists

\* No search term, and one that misses some titles.
MCSearches == {Titles, {1}}

=============================================================================
