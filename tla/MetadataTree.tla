---------------------------- MODULE MetadataTree ----------------------------
(***************************************************************************)
(* A metadata instance and what the providers do with it before they offer *)
(* it: the metadata filters (saml/saml2/metadata/impl/*MetadataFilter.cpp) *)
(* and the entity matchers they use, the index with its propagation of     *)
(* validUntil (AbstractMetadataProvider.cpp), and the discovery feed       *)
(* (DiscoverableMetadataProvider.cpp).                                     *)
(*                                                                         *)
(* A tree has a root, which is a group or a single entity; every other     *)
(* node is in a group, and above[n] are the groups that getParent() leads  *)
(* to from n, up to the root.  An entity has a set of roles, records with  *)
(* a type, a signature, a validUntil, the protocols supported, the keys of *)
(* artifacts beside the entityID's, and the kinds of names to display; it   *)
(* may have an AffiliationDescriptor, whose signature affiliation[s] is.   *)
(* Times are absolute; what has no validUntil is valid until SAMLTIME_MAX. *)
(***************************************************************************)
EXTENDS Integers, Sequences, FiniteSetsExt

CONSTANTS
    None,           \* no name, no matcher, no object
    SAMLTIME_MAX    \* the validity of what has no validUntil

ASSUME LimitAssumption == SAMLTIME_MAX \in Nat

StandardRoles ==
    {"IDPSSODescriptor", "SPSSODescriptor", "AuthnAuthorityDescriptor",
     "AttributeAuthorityDescriptor", "PDPDescriptor", "AuthnQueryDescriptorType",
     "AttributeQueryDescriptorType", "AuthzDecisionQueryDescriptorType"}

Nodes(t) == t.groups \union t.sites

Ancestors(t, n) == {t.above[n][i] : i \in DOMAIN t.above[n]}
Path(t, n) == {n} \union Ancestors(t, n)
Parent(t, n) == Head(t.above[n])
Children(t, n) == {m \in Nodes(t) \ {t.root} : Parent(t, m) = n}
Named(t, n, names) == t.name[n] # None /\ t.name[n] \in names

\* What unmarshalling makes of a document that the schema validators accept.
TreeFields ==
    {"root", "groups", "sites", "above", "name", "validUntil", "signature", "tags",
     "asserted", "roles", "affiliation", "organization"}
WellFormed(t) ==
    /\ DOMAIN t = TreeFields
    /\ IsFiniteSet(Nodes(t)) /\ t.groups \intersect t.sites = {} /\ t.root \in Nodes(t)
    /\ t.above \in [Nodes(t) -> Seq(t.groups)] /\ t.above[t.root] = <<>>
    /\ \A n \in Nodes(t) \ {t.root} :
          t.above[n] # <<>> /\ Tail(t.above[n]) = t.above[Parent(t, n)]
    /\ t.root \in t.sites => t.groups = {}
    /\ t.validUntil \in [Nodes(t) -> 0 .. SAMLTIME_MAX]
    /\ DOMAIN t.tags = Nodes(t) /\ DOMAIN t.roles = t.sites
    /\ \A s \in t.sites : t.name[s] # None

\* Removing a child takes everything below it away.
Prune(t, gone) ==
    LET kept == {n \in Nodes(t) : Path(t, n) \intersect gone = {}}
    IN [t EXCEPT !.groups = @ \intersect kept, !.sites = @ \intersect kept]

-----------------------------------------------------------------------------
(* Entity matchers *)

\* The entity or a group it is in has the name.
NameMatches(m, t, s) == \E n \in Path(t, s) : Named(t, n, {m.name})

\* One of the attributes looked for has all its values in the tags of the
\* entity, or in those of one group it is in.
TagsMatch(m, t, s) ==
    \E wanted \in m.tags : wanted # {} /\ \E n \in Path(t, s) : wanted \subseteq t.tags[n]

Matches(m, t, s) ==
    \/ m.by = "Name" /\ NameMatches(m, t, s)
    \/ m.by = "EntityAttributes" /\ TagsMatch(m, t, s)

\* An entity is included in a list by its entityID or by the matcher.
Included(f, t, s) ==
    Named(t, s, f.names) \/ (f.matcher # None /\ Matches(f.matcher, t, s))

-----------------------------------------------------------------------------
(* Metadata filters.  A filter edits entities and removes nodes, unless it  *)
(* rejects the whole instance with an exception.                           *)

Rejects(f, t, now) ==
    \/ /\ f.kind = "Blacklist"
       /\ IF t.root \in t.groups THEN Named(t, t.root, f.names) ELSE Included(f, t, t.root)
    \/ f.kind = "Whitelist" /\ t.root \in t.sites /\ ~Included(f, t, t.root)
    \/ f.kind = "Signature" /\ t.signature[t.root] # "good"
    \/ /\ f.kind = "RequireValidUntil"
       /\ \/ t.validUntil[t.root] = SAMLTIME_MAX
          \/ t.validUntil[t.root] - now > f.maxValidityInterval

\* The roles that a filter leaves.  EntityRole clears the lists of the standard
\* roles that are not retained; of the other roles it erases those without a
\* type, and those of the types to retain.
KeepsRole(f, role) ==
    /\ f.kind = "EntityRole" =>
          IF role.type \in StandardRoles THEN role.type \in f.roles
          ELSE role.type \notin f.roles \union {"untyped"}
    /\ f.kind = "Signature" /\ f.verifyRoles => role.signature # "bad"

\* The tags that a filter adds to an entity.
Applied(f, t, n) ==
    IF f.kind = "EntityAttributes" /\ n \in t.sites /\ t.name[n] \in DOMAIN f.apply
    THEN f.apply[t.name[n]] ELSE {}

Edit(f, t) ==
    [t EXCEPT !.roles = [s \in DOMAIN @ |-> {r \in @[s] : KeepsRole(f, r)}],
              !.tags = [n \in DOMAIN @ |-> @[n] \union Applied(f, t, n)],
              !.affiliation = [s \in DOMAIN @ |->
                  IF f.kind = "Signature" /\ f.verifyRoles /\ @[s] = "bad" THEN None ELSE @[s]]]

\* What goes.  Variant: a group goes that has no entities of its own, whatever
\* its subgroups have.
Roleless(f, t) ==
    {s \in t.sites : f.removeRolelessEntityDescriptors /\ t.roles[s] = {}}
Emptied_Flat(f, t) ==
    {g \in t.groups : f.removeEmptyEntitiesDescriptors
        /\ ~\E s \in (t.sites \ Roleless(f, t)) \ {t.root} : Parent(t, s) = g}
Emptied(f, t) ==
    {g \in t.groups : f.removeEmptyEntitiesDescriptors
        /\ ~\E s \in t.sites \ Roleless(f, t) : g \in Ancestors(t, s)}
Removed(f, t) ==
    CASE f.kind = "Blacklist" ->
           {s \in t.sites : Included(f, t, s)} \union {g \in t.groups : Named(t, g, f.names)}
      [] f.kind = "Whitelist" -> {s \in t.sites : ~Included(f, t, s)}
      [] f.kind = "EntityRole" -> Roleless(f, t) \union Emptied(f, t)
      [] f.kind = "Signature" -> {n \in Nodes(t) : t.signature[n] = "bad"}
      [] OTHER -> {}

doFilter(f, t) == LET edited == Edit(f, t) IN Prune(edited, Removed(f, edited) \ {t.root})

\* The filters run one after the other, each on what the last one left: the
\* tree after each of them.
doFilters(filters, t) ==
    LET after[i \in 0 .. Len(filters)] ==
            IF i = 0 THEN t ELSE doFilter(filters[i], after[i - 1])
    IN after
Filterable(filters, t, now) ==
    \A i \in DOMAIN filters : ~Rejects(filters[i], doFilters(filters, t)[i - 1], now)

\* What the filters are for, without the trees that they leave one to another: a
\* document as the first i of them edit it, and what each thinks of an entity.
Edited(filters, t, i) ==
    [t EXCEPT !.roles = [s \in DOMAIN @ |-> {r \in @[s] : \A j \in 1 .. i : KeepsRole(filters[j], r)}],
              !.tags = [n \in DOMAIN @ |-> @[n] \union UNION {Applied(filters[j], t, n) : j \in 1 .. i}]]
Admits(f, t, s) ==
    CASE f.kind = "Blacklist" ->
           ~Included(f, t, s) /\ \A g \in Ancestors(t, s) \ {t.root} : ~Named(t, g, f.names)
      [] f.kind = "Whitelist" -> Included(f, t, s)
      [] f.kind = "EntityRole" ->
           s = t.root \/ (f.removeRolelessEntityDescriptors => \E r \in t.roles[s] : KeepsRole(f, r))
      [] f.kind = "Signature" -> \A n \in Path(t, s) : t.signature[n] # "bad"
      [] OTHER -> TRUE
AdmittedBy(filters, t) ==
    {s \in t.sites :
        \A i \in DOMAIN filters : Admits(filters[i], Edited(filters, t, i - 1), s)}

-----------------------------------------------------------------------------
(* The index *)

Sooner(a, b) == IF a < b THEN a ELSE b

\* indexEntity and indexGroup: a child lives no longer than its group.
\* Variant: the limit that one child lowers is handed to the next.
Fences_Leak(t) ==
    [n \in Nodes(t) |->
        Min({t.validUntil[m] : m \in Path(t, n) \union UNION {Children(t, g) : g \in Ancestors(t, n)}})]
Fences(t) ==
    LET fence[n \in Nodes(t)] ==
            IF n = t.root THEN Sooner(SAMLTIME_MAX, t.validUntil[n])
            ELSE Sooner(fence[Parent(t, n)], t.validUntil[n])
    IN fence

\* What indexing passes back up: the soonest end of validity in the tree.
Soonest(t) ==
    LET fences == Fences(t)
        below[n \in Nodes(t)] == Min({fences[n]} \union {below[c] : c \in Children(t, n)})
    IN below[t.root]

IdPs(t, s) == {r \in t.roles[s] : r.type = "IDPSSODescriptor"}

\* Artifacts are sourced by identity providers: by the hash of the entityID,
\* and for SAML 1 also by a SourceID and the locations of resolution services.
RoleKeys(t, s, role) ==
    (IF role.support # {} THEN {<<"SHA1", t.name[s]>>} ELSE {})
    \union (IF "SAML1" \in role.support THEN role.artifactKeys ELSE {})
SourceKeys(t, s) == UNION {RoleKeys(t, s, role) : role \in IdPs(t, s)}

\* Pointers are into the tree of a version.
IndexOf(t, version) ==
    [sites |-> {<<t.name[s], version, s>> : s \in t.sites},
     sources |-> UNION {SourceKeys(t, s) \X {version} \X {s} : s \in t.sites},
     groups |-> {<<t.name[g], version, g>> : g \in {g \in t.groups : t.name[g] # None}},
     until |-> Fences(t)]

-----------------------------------------------------------------------------
(* The discovery feed *)

\* An entity that is valid is listed if every whitelist matches it and no
\* blacklist does, and it is an identity provider.
Listed(filters, t, s, now) ==
    /\ now <= Fences(t)[s]
    /\ \A f \in filters : (f.kind = "Whitelist") <=> Matches(f.matcher, t, s)
    /\ IdPs(t, s) # {}

\* Where its display names come from: the UIInfo of a role that is valid, the
\* Organization of such a role, or that of the entity.
DisplayedBy(legacyOrgNames, t, s, now) ==
    LET ByRole(kind) == \E r \in IdPs(t, s) : now <= r.validUntil /\ kind \in r.names
    IN IF ByRole("UIInfo") THEN "UIInfo"
       ELSE IF ~legacyOrgNames THEN None
       ELSE IF ByRole("Organization") THEN "Organization of a role"
       ELSE IF t.organization[s] THEN "Organization" ELSE None

\* The attributes of the entity and of the groups it is in, those in assertions
\* included.
FeedTags(tagsInFeed, t, s) ==
    IF tagsInFeed THEN UNION {t.tags[n] \union t.asserted[n] : n \in Path(t, s)} ELSE {}

\* generateFeed: an entry for each entity that is listed.
FeedOf(config, t, now) ==
    [s \in {s \in t.sites : Listed(config.filters, t, s, now)} |->
        [entityID |-> t.name[s],
         names |-> DisplayedBy(config.legacyOrgNames, t, s, now),
         tags |-> FeedTags(config.tagsInFeed, t, s)]]
=============================================================================
