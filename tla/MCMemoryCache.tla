--------------------------- MODULE MCMemoryCache ---------------------------
(* MemoryCache for TLC, with as many racing Gets as there can be. *)
EXTENDS MemoryCache, TLC

(* Keys, values, cells and, as all of them call Get, threads are alike. *)
Symmetry == Permutations(Keys) \cup Permutations(Values)
              \cup Permutations(Elements) \cup Permutations(Threads)
=============================================================================
