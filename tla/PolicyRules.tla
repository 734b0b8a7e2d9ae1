---------------------------- MODULE PolicyRules ----------------------------
(***************************************************************************)
(* What an incoming message does to one SecurityPolicy object: the setters *)
(* of SecurityPolicy.cpp, what the decoders and the SOAP clients extract   *)
(* from a message, which requests a decoder takes, and the decisions of    *)
(* the rules.  Nothing here has state; SecurityPolicy.tla runs it.         *)
(* An entity stands for its entityID, its metadata role and its keys; what *)
(* a trust engine verifies against a role is the key of that entity.  The  *)
(* policies have a metadata provider, a role and a trust engine: without   *)
(* one of them nobody is Known, or every evidence is NoEntity.             *)
(***************************************************************************)
EXTENDS Integers, Sequences

CONSTANTS
    Entities,       \* peers
    Known,          \* those whose metadata has the policy's role and protocol
    IDs,            \* message IDs
    Messages,       \* SAML messages that peers have sent
    Requests,       \* requests and SOAP replies that can reach this side
    Replies,
    Artifacts,      \* encoded artifacts
    NoEntity, NoID, NoIssuer, NoMessage,
    Rules,          \* m_rules
    ErrorFatal,     \* m_errorFatal of each authenticating rule
    EntityOnly,     \* m_entityOnly
    CheckReplay,    \* m_checkReplay of the MessageFlow rule, and a ReplayCache
    Skew,           \* clock_skew_secs
    Expires         \* m_expires of the MessageFlow rule

RuleTypes == {"MessageFlow", "SimpleSigning", "XMLSigning", "ClientCertAuth"}
Bindings == {"SAML2POST", "SAML2Redirect", "SAML2SOAP", "SAML2ECP", "SAML1POST", "SAML1SOAP"}
Credential == Entities \union {NoEntity}

Issuers == [name : Entities, entityFormat : BOOLEAN]
EntityIssuer(e) == [name |-> e, entityFormat |-> TRUE]

\* issuer is the message's own, asserted that of its first assertion; signer
\* made its XML signature; answers: it names the request it is a reply to.
Message == [saml : {1, 2}, kind : {"Request", "Response"}, id : IDs, issued : Nat \ {0},
            issuer : Issuers \union {NoIssuer}, asserted : Issuers \union {NoIssuer},
            signer : Credential, destination : {"missing", "here", "elsewhere"},
            answers : BOOLEAN]

\* The SOAP envelope around a message: a layer without SAML content.
Envelope == [saml |-> 0, kind |-> "Envelope", id |-> NoID, issued |-> 0,
             issuer |-> NoIssuer, asserted |-> NoIssuer, signer |-> NoEntity,
             destination |-> "missing", answers |-> TRUE]

\* signer made the Signature parameter, certificate is the TLS client's.
MessageRequest == [binding : Bindings, method : {"GET", "POST"}, message : Messages,
                   signer : Credential, certificate : Credential]
\* A SAML 1 request may have several artifacts; source is that of the first.
ArtifactRequest == [binding : {"SAML1Artifact", "SAML2Artifact"}, artifacts : Seq(Artifacts),
                    source : Entities, signer : Credential, certificate : Credential]

\* server is whose certificate the TLS server showed.
Reply == [message : Messages, payload : Messages \union {NoMessage}, server : Credential]

\* Each artifact decoder has a context of its own in the replay cache.
ArtifactKeys == {1, 2} \X Artifacts

ASSUME NullAssumption ==
    /\ Known \subseteq Entities /\ NoEntity \notin Entities
    /\ NoID \notin IDs /\ NoIssuer \notin Issuers /\ NoMessage \notin Message
    /\ IDs \intersect ArtifactKeys = {}
ASSUME DataAssumption ==
    /\ Messages \subseteq Message
    /\ Requests \subseteq MessageRequest \union ArtifactRequest
    /\ Replies \subseteq Reply
ASSUME ConfigurationAssumption ==
    /\ Rules \in Seq(RuleTypes) /\ ErrorFatal \in [RuleTypes -> BOOLEAN]
    /\ EntityOnly \in BOOLEAN /\ CheckReplay \in BOOLEAN /\ Skew \in Nat /\ Expires \in Nat

-----------------------------------------------------------------------------
(* SecurityPolicy.  Decisions have a variant that a slip would give.         *)

PolicyState == [m_messageID : IDs \union {NoID}, m_issueInstant : Nat,
                m_issuer : Issuers \union {NoIssuer}, m_issuerRole : Known \union {NoEntity},
                m_authenticated : BOOLEAN, m_ts : Nat]

NewPolicy == [m_messageID |-> NoID, m_issueInstant |-> 0, m_issuer |-> NoIssuer,
              m_issuerRole |-> NoEntity, m_authenticated |-> FALSE, m_ts |-> 0]

\* reset(messageOnly): the time of the first use, m_ts, is not touched.
\* Variant: a full reset forgets that the last peer was authenticated.
_reset_KeepsAuthenticated(P, messageOnly) ==
    IF messageOnly THEN [P EXCEPT !.m_messageID = NoID, !.m_issueInstant = 0]
    ELSE [NewPolicy EXCEPT !.m_ts = P.m_ts, !.m_authenticated = P.m_authenticated]
_reset(P, messageOnly) ==
    IF messageOnly THEN [P EXCEPT !.m_messageID = NoID, !.m_issueInstant = 0]
    ELSE [NewPolicy EXCEPT !.m_ts = P.m_ts]

\* A missing issuer matches anything.  Variant: any name does.
issuerMatches_Any(i, j) == TRUE
issuerMatches(i, j) == i = NoIssuer \/ j = NoIssuer \/ i = j

\* The first issuer is kept, and whatever metadata was there is not.
setIssuerThrows(P, i) ==
    \/ ~issuerMatches(P.m_issuer, i)
    \/ P.m_issuer = NoIssuer /\ EntityOnly /\ ~i.entityFormat
setIssuer(P, i) ==
    IF P.m_issuer # NoIssuer THEN P
    ELSE [P EXCEPT !.m_issuerRole = NoEntity, !.m_issuer = i]
setIssuerMetadata(P, r) == [P EXCEPT !.m_issuerRole = r]

-----------------------------------------------------------------------------
(* What a decoder or a SOAP client puts into the policy before the rules run *)

setMessage(P, m) == [P EXCEPT !.m_messageID = m.id, !.m_issueInstant = m.issued]

\* extractMessageDetails of the SAML 2 and the SAML 1 decoders: who sent m.  A
\* SAML 1 assertion names its issuer by an entityID.
SAML2Issuer(m) ==
    IF m.issuer = NoIssuer /\ m.kind = "Response" THEN m.asserted ELSE m.issuer
SAML1Issuer(m) ==
    IF m.kind = "Response" /\ m.asserted # NoIssuer THEN EntityIssuer(m.asserted.name)
    ELSE NoIssuer

\* receiveSAML of the SOAP clients: the peer is known, an assertion's issuer
\* does not count.
ReceivedIssuer(m) == IF m.saml = 2 THEN m.issuer ELSE NoIssuer

\* The metadata of an issuer.  Variant: a role for any issuer.
Lookup_Anyone(i) == i.name
Lookup(i) == IF i.entityFormat /\ i.name \in Known THEN i.name ELSE NoEntity

\* A layer and who has it evaluated: a decoder for one version of SAML or a
\* SOAP client.
Layer == [by : {"SAML1", "SAML2", "client"}, message : Messages \union {Envelope, NoMessage}]
SAML1Layer(m) == [by |-> "SAML1", message |-> m]
SAML2Layer(m) == [by |-> "SAML2", message |-> m]
Received(m) == [by |-> "client", message |-> m]

\* A decoder passes over what is not of its version, without an error.
Understood(l) ==
    l.message.saml \in CASE l.by = "SAML1" -> {1} [] l.by = "SAML2" -> {2} [] OTHER -> {1, 2}
LayerIssuer(l) ==
    IF ~Understood(l) THEN NoIssuer
    ELSE CASE l.by = "client" -> ReceivedIssuer(l.message)
           [] l.by = "SAML1"  -> SAML1Issuer(l.message)
           [] OTHER           -> SAML2Issuer(l.message)

\* The policy when the details of a layer are in it.
Described(P, l) == IF Understood(l) THEN setMessage(P, l.message) ELSE P

\* The issuer and, when a decoder set none before, its metadata.
Extracted(P, l) ==
    LET i == LayerIssuer(l)
        Q == IF i = NoIssuer THEN Described(P, l) ELSE setIssuer(Described(P, l), i)
    IN  IF i = NoIssuer \/ l.by = "client" \/ Q.m_issuerRole # NoEntity THEN Q
        ELSE setIssuerMetadata(Q, Lookup(i))
ExtractionThrows(P, l) == LayerIssuer(l) # NoIssuer /\ setIssuerThrows(P, LayerIssuer(l))

-----------------------------------------------------------------------------
(* The decoders: what a request must be to reach the policy, the layers the  *)
(* policy sees, and whether the message came to the place it was meant for,  *)
(* which is looked at when the policy is done with it.                       *)

Signed(r) == r.message.signer # NoEntity
RightPlace(m, mustSay) ==
    m.destination = "here" \/ (m.destination = "missing" /\ ~mustSay)

SAML2POSTDecoder(r) ==
    [takes |-> r.method = "POST" /\ r.message.saml = 2,
     layers |-> <<SAML2Layer(r.message)>>,
     lands |-> RightPlace(r.message, Signed(r) \/ r.signer # NoEntity)]
SAML2RedirectDecoder(r) ==
    [takes |-> r.message.saml = 2,
     layers |-> <<SAML2Layer(r.message)>>,
     lands |-> RightPlace(r.message, Signed(r) \/ r.signer # NoEntity)]
SAML2SOAPDecoder(r) ==
    [takes |-> r.message.saml = 2 /\ r.message.kind = "Request",
     layers |-> <<SAML2Layer(Envelope), SAML2Layer(r.message)>>,
     lands |-> TRUE]
SAML2ECPDecoder(r) ==
    [takes |-> r.message.saml = 2 /\ r.message.kind = "Response",
     layers |-> <<SAML2Layer(Envelope), SAML2Layer(r.message)>>,
     lands |-> RightPlace(r.message, Signed(r))]
SAML1POSTDecoder(r) ==
    [takes |-> r.method = "POST" /\ r.message.saml = 1 /\ r.message.kind = "Response",
     layers |-> <<SAML1Layer(r.message)>>,
     lands |-> RightPlace(r.message, TRUE)]
SAML1SOAPDecoder(r) ==
    [takes |-> r.message.saml = 1 /\ r.message.kind = "Request",
     layers |-> <<SAML1Layer(Envelope), SAML1Layer(r.message)>>,
     lands |-> TRUE]

Decoder(r) ==
    CASE r.binding = "SAML2POST" -> SAML2POSTDecoder(r)
      [] r.binding = "SAML2Redirect" -> SAML2RedirectDecoder(r)
      [] r.binding = "SAML2SOAP" -> SAML2SOAPDecoder(r)
      [] r.binding = "SAML2ECP" -> SAML2ECPDecoder(r)
      [] r.binding = "SAML1POST" -> SAML1POSTDecoder(r)
      [] OTHER -> SAML1SOAPDecoder(r)

-----------------------------------------------------------------------------
(* The MessageFlow rule *)

\* Which timestamps pass at a given time.  An undated message counts as new.
InWindow(issued, now) ==
    issued = 0 \/ (issued <= now + Skew /\ issued >= now - Skew - Expires)

\* How long the replay cache has to remember.  Variant: the skew is left out.
RememberUntil_NoSkew(issued, now) == (IF issued = 0 THEN now ELSE issued) + Expires
RememberUntil(issued, now) == (IF issued = 0 THEN now ELSE issued) + Skew + Expires

=============================================================================
