----------------------- MODULE MC_ArtifactMappings -----------------------
(* Small instance of ArtifactMappings for TLC. *)
EXTENDS ArtifactMappings, TLC

\* One handle comes up again.
OneReusable == {CHOOSE h \in Handle : TRUE}

\* Threads, contents and parties are interchangeable.
Symmetric == Permutations(Thread) \union Permutations(Content) \union Permutations(Party)
=============================================================================
