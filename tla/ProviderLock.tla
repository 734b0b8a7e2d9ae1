--------------------------- MODULE ProviderLock ---------------------------
(***************************************************************************)
(* What a metadata provider promises about its lock and its metadata,      *)
(* whatever kind of provider it is (saml/saml2/metadata/MetadataProvider.h *)
(* and the Lockable it extends).  A thread enters by locking, looks        *)
(* entities up, and leaves by unlocking.  During a lookup it may give its  *)
(* read lock up to write, alone, and enter again; nobody else sees the     *)
(* metadata while they change, and they change only then.                  *)
(***************************************************************************)
CONSTANTS Thread

VARIABLES
    mode,       \* mode[t]: the lock t holds
    stage,      \* stage[t]: "out", "in", "asking", "waiting" or "writing"
    metadata    \* what the provider offers

lockVars == <<mode, stage, metadata>>

Init ==
    /\ mode = [t \in Thread |-> "none"]
    /\ stage = [t \in Thread |-> "out"]

Go(t, from, to, m) ==
    /\ stage[t] = from
    /\ stage' = [stage EXCEPT ![t] = to]
    /\ mode' = [mode EXCEPT ![t] = m]

Enter(t) ==
    /\ \A u \in Thread : mode[u] # "write"
    /\ \/ Go(t, "out", "in", "read")
       \/ Go(t, "waiting", "asking", "read")
    /\ UNCHANGED metadata

Leave(t) == Go(t, "in", "out", "none") /\ UNCHANGED metadata
Ask(t) == Go(t, "in", "asking", mode[t]) /\ UNCHANGED metadata
Answer(t) == Go(t, "asking", "in", mode[t]) /\ UNCHANGED metadata
GiveUp(t) == Go(t, "asking", "waiting", "none") /\ UNCHANGED metadata

Write(t) ==
    /\ \A u \in Thread : mode[u] = "none"
    /\ Go(t, "waiting", "writing", "write")
    /\ UNCHANGED metadata

\* The only step that may change the metadata, by the only thread inside.
Change(t) ==
    /\ mode[t] = "write" /\ \A u \in Thread \ {t} : mode[u] = "none"
    /\ Go(t, "writing", "waiting", "none")

\* The writer gives up; the caller gets its answer with the write lock held.
Abandon(t) == Go(t, "writing", "in", "write") /\ UNCHANGED metadata

Step ==
    \E t \in Thread :
        \/ Enter(t) \/ Leave(t) \/ Ask(t) \/ Answer(t) \/ GiveUp(t)
        \/ Write(t) \/ Change(t) \/ Abandon(t)

Spec == Init /\ [][Step]_lockVars
=============================================================================
