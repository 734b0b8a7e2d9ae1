------------------------ MODULE MC_SecurityPolicy ------------------------
EXTENDS SecurityPolicy, TLC

CONSTANTS idp, stranger, m1, m2, q1, art, art2, p1, p2

IdP == EntityIssuer(idp)
Stranger == EntityIssuer(stranger)
Pseudonym == [name |-> idp, entityFormat |-> FALSE]

Response == [saml |-> 2, kind |-> "Response", id |-> m1, issued |-> 1, issuer |-> IdP,
             asserted |-> NoIssuer, signer |-> idp, destination |-> "here", answers |-> TRUE]
Unnamed == [Response EXCEPT !.issuer = NoIssuer, !.asserted = IdP, !.destination = "missing"]
Forged == [Response EXCEPT !.id = m2, !.signer = stranger, !.issued = 2]
Query2 == [Response EXCEPT !.id = q1, !.kind = "Request", !.signer = NoEntity, !.issued = 2]
Strange == [Response EXCEPT !.id = m2, !.issuer = Stranger, !.signer = stranger, !.issued = 3]
Pseudo == [Response EXCEPT !.id = m2, !.issuer = Pseudonym]
Response1 == [Response EXCEPT !.saml = 1, !.issuer = NoIssuer, !.asserted = IdP]
Uncorrelated == [Response EXCEPT !.id = q1, !.answers = FALSE]
Query1 == [Query2 EXCEPT !.saml = 1, !.issuer = NoIssuer]

mcMessages == {Response, Unnamed, Forged, Query2, Strange, Pseudo, Response1, Uncorrelated, Query1}

Carries(b, m, k, c) == [binding |-> b, method |-> "POST", message |-> m, signer |-> k, certificate |-> c]
Resolves(v, e, a) == [binding |-> v, artifacts |-> a, source |-> e, signer |-> NoEntity, certificate |-> NoEntity]
Answers(m, pl, s) == [message |-> m, payload |-> pl, server |-> s]

Post == Carries("SAML2POST", Response, NoEntity, NoEntity)
mcTraffics ==
    {[requests |-> {Post, Carries("SAML2Redirect", Forged, idp, NoEntity)}, replies |-> {}],
     [requests |-> {Carries("SAML2Redirect", Unnamed, stranger, NoEntity),
                    Carries("SAML2POST", Pseudo, NoEntity, NoEntity),
                    Carries("SAML2POST", Strange, NoEntity, NoEntity)}, replies |-> {}],
     [requests |-> {Carries("SAML2SOAP", Query2, NoEntity, idp),
                    Carries("SAML2ECP", Response, NoEntity, NoEntity)}, replies |-> {}],
     [requests |-> {Carries("SAML1POST", Response1, NoEntity, stranger),
                    Carries("SAML1SOAP", Query1, NoEntity, idp),
                    Carries("SAML1POST", Query1, NoEntity, NoEntity)}, replies |-> {}],
     [requests |-> {Resolves("SAML2Artifact", idp, <<art>>)},
      replies |-> {Answers(Unnamed, Strange, idp)}],
     [requests |-> {Resolves("SAML2Artifact", idp, <<art>>)},
      replies |-> {Answers(Unnamed, Response1, stranger)}],
     [requests |-> {Resolves("SAML1Artifact", idp, <<art, art2>>),
                    Resolves("SAML1Artifact", stranger, <<art2, art>>),
                    Resolves("SAML2Artifact", idp, <<art>>)}, replies |-> {}],
     [requests |-> {Resolves("SAML1Artifact", idp, <<art>>)},
      replies |-> {Answers(Response1, NoMessage, idp)}],
     [requests |-> {}, replies |-> {Answers(Uncorrelated, NoMessage, idp)}],
     [requests |-> {Post}, replies |-> {Answers(Response, NoMessage, idp)}]}
mcRequests == UNION {t.requests : t \in mcTraffics}
mcReplies == UNION {t.replies : t \in mcTraffics}

mcRules == <<"MessageFlow", "SimpleSigning", "XMLSigning", "ClientCertAuth">>
mcErrorFatal == [t \in RuleTypes |-> t = "XMLSigning"]
Threads == Permutations(Policies)
=============================================================================
