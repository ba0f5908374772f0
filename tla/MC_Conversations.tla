--------------------------- MODULE MC_Conversations ---------------------------
(* Small instances of Conversations for TLC. *)
EXTENDS Conversations, TLC

(* Pages, keys and rows are interchangeable. *)
MC_Symmetry ==
  Permutations(Page) \cup Permutations(ContextKey)
    \cup Permutations(FreshKey) \cup Permutations(RowId)
=============================================================================
