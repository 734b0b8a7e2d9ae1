------------------------- MODULE OneTimeArtifacts -------------------------
(***************************************************************************)
(* What an artifact map promises to its callers, seen from the XML content *)
(* that is put in (saml/binding/ArtifactMap.h).  A content is issued once, *)
(* for one relying party or for anybody, with a deadline.  It then leaves  *)
(* the pending state exactly once: it is delivered, before its deadline,   *)
(* to a party it was issued for, or it is dropped.  Neither end is left.   *)
(*                                                                         *)
(* Several contents may move in one step: storing a content also sweeps    *)
(* the expired ones.                                                       *)
(***************************************************************************)
EXTENDS Naturals

CONSTANTS
    Content,    \* the XML objects put into the map
    Party,      \* entityIDs of relying parties
    NoParty     \* "no relying party" / "unknown requester" (a null pointer)

VARIABLES
    clock,      \* wall clock, in seconds
    stage,      \* stage[c]: where c is in its life
    issued,     \* issued[c]: the party c was issued for and its deadline
    recipient   \* recipient[c]: who received c, once it is delivered

absVars == <<clock, stage, issued, recipient>>

Requester == Party \union {NoParty}

Init ==
    /\ clock = 0
    /\ stage = [c \in Content |-> "fresh"]
    /\ issued = [c \in Content |-> [party |-> NoParty, deadline |-> 0]]
    /\ recipient = [c \in Content |-> NoParty]

Idle(c) ==
    /\ stage'[c] = stage[c]
    /\ issued'[c] = issued[c]
    /\ recipient'[c] = recipient[c]

Issue(c) ==
    /\ stage[c] = "fresh" /\ stage'[c] = "pending"
    /\ issued'[c].deadline >= clock
    /\ recipient'[c] = recipient[c]

Deliver(c) ==
    /\ stage[c] = "pending" /\ stage'[c] = "delivered"
    /\ clock < issued[c].deadline
    /\ issued[c].party \in {NoParty, recipient'[c]}
    /\ issued'[c] = issued[c]

Drop(c) ==
    /\ stage[c] = "pending" /\ stage'[c] = "dropped"
    /\ issued'[c] = issued[c]
    /\ recipient'[c] = recipient[c]

\* One step of the whole map; the clock never runs backwards.
Step ==
    /\ clock' >= clock
    /\ \A c \in Content : Idle(c) \/ Issue(c) \/ Deliver(c) \/ Drop(c)

Spec == Init /\ [][Step]_absVars
=============================================================================
