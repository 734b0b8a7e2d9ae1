----------------------- MODULE MC_XMLMetadataProvider -----------------------
(* Small instances of XMLMetadataProvider for TLC. *)
EXTENDS XMLMetadataProvider, TLC

\* A federation with an identity provider, a group of partners, and an empty
\* group; the partners have a service of their own and a subgroup of others.
Groups == {"federation", "partners", "others", "empty"}
Sites == {"idp", "old", "sp"}
All == Groups \union Sites
Role(type, names) ==
    [type |-> type, signature |-> "none", validUntil |-> SAMLTIME_MAX, support |-> {"SAML1", "SAML2"},
     artifactKeys |-> {<<"location", type>>}, names |-> names]
Base ==
    [root |-> "federation", groups |-> Groups, sites |-> Sites,
     above |-> ("federation" :> <<>> @@ "partners" :> <<"federation">>
                @@ "others" :> <<"partners", "federation">> @@ "empty" :> <<"federation">>
                @@ "idp" :> <<"federation">> @@ "old" :> <<"others", "partners", "federation">>
                @@ "sp" :> <<"partners", "federation">>),
     name |-> [n \in All |-> IF n = "others" THEN None ELSE n],
     validUntil |-> [n \in All |-> IF n = "federation" THEN 50 ELSE SAMLTIME_MAX],
     roles |-> ("idp" :> {[Role("IDPSSODescriptor", {"UIInfo"}) EXCEPT !.validUntil = 1],
                          Role("IDPSSODescriptor", {"Organization"}), Role("AttributeAuthorityDescriptor", {})}
                @@ "old" :> {Role("IDPSSODescriptor", {}), Role("untyped", {})}
                @@ "sp" :> {Role("SPSSODescriptor", {}), Role("ServiceType", {})}),
     affiliation |-> [s \in Sites |-> IF s = "sp" THEN "bad" ELSE None],
     tags |-> [n \in All |-> IF n = "sp" THEN {"legacy"} ELSE {}],
     asserted |-> [n \in All |-> IF n = "others" THEN {"assured"} ELSE {}],
     organization |-> [s \in Sites |-> s = "old"],
     signature |-> [n \in All |-> IF n = "federation" THEN "good" ELSE "none"]]

Single ==
    LET Of(f) == [n \in {"sp"} |-> f[n]]
    IN [Base EXCEPT !.root = "sp", !.groups = {}, !.sites = {"sp"}, !.above = "sp" :> <<>>,
                    !.name = Of(@), !.validUntil = "sp" :> 2, !.roles = Of(@), !.affiliation = Of(@),
                    !.tags = "sp" :> {}, !.asserted = Of(@), !.organization = Of(@), !.signature = "sp" :> "good"]

\* In the first version the service is a legacy one; in the second the partners
\* expire early, the service before them, one signature is bad, and so is that
\* of one role of the other provider; the third is a single entity.
MCContent(v) ==
    CASE v = 1 -> Base
      [] v = 2 -> [Base EXCEPT !.validUntil = [@ EXCEPT !["partners"] = 2, !["sp"] = 1],
                               !.signature = [@ EXCEPT !["idp"] = "bad"],
                               !.roles = [@ EXCEPT !["old"] = @ \union {[Role("IDPSSODescriptor", {"UIInfo"}) EXCEPT !.signature = "bad"]}],
                               !.tags = [@ EXCEPT !["sp"] = {}, !["partners"] = {"partner"}]]
      [] v = 3 -> Single
MCAcceptable(v) == TRUE
MCCacheDuration(v) == IF v = 1 THEN 3 ELSE SAMLTIME_MAX

Signed == [kind |-> "Signature", verifyRoles |-> TRUE]
ValidUntil == [kind |-> "RequireValidUntil", maxValidityInterval |-> 60]
Tagged == [kind |-> "EntityAttributes", apply |-> ("sp" :> {"tagged"})]
NoLegacy == [kind |-> "Blacklist", names |-> {"nobody"},
             matcher |-> [by |-> "EntityAttributes", tags |-> {{"legacy"}}]]
Known == [kind |-> "Whitelist", names |-> {"idp", "old"},
          matcher |-> [by |-> "EntityAttributes", tags |-> {{"tagged"}}]]
WithRoles(roles) == [kind |-> "EntityRole", roles |-> roles,
              removeRolelessEntityDescriptors |-> TRUE, removeEmptyEntitiesDescriptors |-> TRUE]
MCFilters == <<Signed, ValidUntil, Tagged, NoLegacy, Known, WithRoles({"IDPSSODescriptor", "SPSSODescriptor"})>>
\* An extension type is among the roles to retain.
RetainingFilters ==
    <<WithRoles({"IDPSSODescriptor", "SPSSODescriptor", "ServiceType"})>>

MCFeedConfig ==
    [discoveryFeed |-> TRUE, legacyOrgNames |-> TRUE, tagsInFeed |-> TRUE,
     filters |-> {[kind |-> "Blacklist", matcher |-> [by |-> "Name", name |-> "idp"]]}]
=============================================================================
