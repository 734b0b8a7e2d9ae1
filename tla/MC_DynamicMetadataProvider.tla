-------------------- MODULE MC_DynamicMetadataProvider --------------------
(* Small instances of DynamicMetadataProvider for TLC. *)
EXTENDS DynamicMetadataProvider, TLC

\* Long-lived, short-lived, and about to expire.
MCDocuments ==
    { [life |-> SAMLTIME_MAX, cacheDuration |-> SAMLTIME_MAX],
      [life |-> 2, cacheDuration |-> SAMLTIME_MAX],
      [life |-> 0, cacheDuration |-> SAMLTIME_MAX] }

\* For liveness: long-lived documents only.
LongLived == { [life |-> SAMLTIME_MAX, cacheDuration |-> SAMLTIME_MAX] }

Symmetric == Permutations(Thread) \union Permutations(Entity)
=============================================================================
