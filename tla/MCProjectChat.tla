--------------------------- MODULE MCProjectChat ---------------------------
(* Small instances of ProjectChat for TLC. *)
EXTENDS ProjectChat, TLC

Symmetry == Permutations(Calls) \union Permutations(Projects)
              \union Permutations(Keys) \union Permutations(Messages)
=============================================================================
