----------------------- MODULE MC_ArtifactStorage -----------------------
(* Small instance of ArtifactStorage for TLC. *)
EXTENDS ArtifactStorage, TLC

Symmetric == Permutations(Handle) \union Permutations(Thread)
                \union Permutations(Content) \union Permutations(Party)
=============================================================================
