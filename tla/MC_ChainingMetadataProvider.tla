-------------------- MODULE MC_ChainingMetadataProvider --------------------
(* Small instances of ChainingMetadataProvider for TLC. *)
EXTENDS ChainingMetadataProvider, TLC

CONSTANTS p1, p2

TwoChildren == <<p1, p2>>

Symmetric == Permutations(Thread)
=============================================================================
