-------------------------- MODULE SecurityPolicy --------------------------
(***************************************************************************)
(* Threads that process incoming messages, each with a SecurityPolicy of   *)
(* its own: message decoders, the artifact decoders on top of the SOAP     *)
(* clients, and SOAP queries.  An exchange evaluates one or more layers    *)
(* (SOAP envelope, SAML message, artifact payload) rule by rule.  Threads  *)
(* share the clock and the replay cache.  The network delivers any message *)
(* any number of times and in any order; a peer may never answer.          *)
(***************************************************************************)
EXTENDS PolicyRules, FiniteSets

CONSTANTS
    Policies,       \* SecurityPolicy objects, one per thread
    NoRequest,
    Traffics,       \* the requests and replies the network has, one set a behaviour
    MaxTime         \* bound on the clock, for TLC only

ASSUME ThreadAssumption ==
    /\ NoRequest \notin Requests
    /\ Traffics \subseteq [requests : SUBSET Requests, replies : SUBSET Replies]
    /\ MaxTime \in Nat \ {0}

VARIABLES
    traffic,        \* what the network delivers, over and over
    policy,         \* policy[p]: the fields of the SecurityPolicy object
    status,         \* status[p]: how far its exchange is
    exchange,       \* exchange[p]: what it decodes, or whom it asks
    todo,           \* todo[p]: the layers still to evaluate
    rule,           \* rule[p]: the next rule for the first of them, 0 before
    clock,          \* time(nullptr)
    replayCache,    \* records of the ReplayCache
    verified,       \* verified[p]: whose credentials were verified since
                    \*   the policy was made or fully reset (history)
    passed,         \* messages the replay check let through (history)
    replayed        \* for a message let through again, whether the policy's time
                    \*   was behind the clock, and whether it was the second in
                    \*   which the record of the message expires (history)

vars == <<traffic, policy, status, exchange, todo, rule, clock, replayCache, verified,
          passed, replayed>>
history == <<passed, replayed>>

Statuses == {"fresh", "checking", "waiting", "busy", "accepted", "refused"}
Exchange == [request : Requests \union {NoRequest}, saml : {1, 2}, peer : Known \union {NoEntity},
             unchecked : Seq(Artifacts)]
NoExchange == [request |-> NoRequest, saml |-> 2, peer |-> NoEntity, unchecked |-> <<>>]
CacheRecord == [key : IDs \union ArtifactKeys, expires : Nat]

Init ==
    /\ traffic \in Traffics
    /\ policy = [p \in Policies |-> NewPolicy]
    /\ status = [p \in Policies |-> "fresh"]
    /\ exchange = [p \in Policies |-> NoExchange]
    /\ todo = [p \in Policies |-> <<>>]
    /\ rule = [p \in Policies |-> 0]
    /\ clock = 1
    /\ replayCache = {}
    /\ verified = [p \in Policies |-> {}]
    /\ passed = {}
    /\ replayed = {}

-----------------------------------------------------------------------------
(* The replay cache: a storage record per key, created only if none shows.   *)

Shows(r, now) == now < r.expires
Recorded(k) == \E r \in replayCache : r.key = k /\ Shows(r, clock)
Remember(k, until) ==
    replayCache' = {r \in replayCache : r.key # k} \union {[key |-> k, expires |-> until]}

-----------------------------------------------------------------------------
(* How an exchange begins *)

\* An exchange that is over, by its result or by an exception, leaves only the
\* policy behind.
Start(p, P, state, x, layers) ==
    /\ policy' = [policy EXCEPT ![p] = P]
    /\ status' = [status EXCEPT ![p] = state]
    /\ exchange' = [exchange EXCEPT ![p] = x]
    /\ todo' = [todo EXCEPT ![p] = layers]
    /\ rule' = [rule EXCEPT ![p] = 0]
End(p, P, state) == Start(p, P, state, NoExchange, <<>>)

\* decode of a binding that carries the message itself
Decode(p, r) ==
    /\ status[p] = "fresh" /\ r.binding \in Bindings
    /\ \/ /\ Decoder(r).takes
          /\ Start(p, policy[p], "busy", [NoExchange EXCEPT !.request = r], Decoder(r).layers)
       \/ /\ ~Decoder(r).takes
          /\ End(p, policy[p], "refused")
    /\ UNCHANGED <<traffic, clock, replayCache, verified, history>>

\* SOAPClient::send: a full reset, then the peer is the expected issuer.
Expecting(P, peer) ==
    setIssuerMetadata(setIssuer(_reset(P, FALSE), EntityIssuer(peer)), peer)
Query(p, peer, version) ==
    /\ status[p] = "fresh"
    /\ Start(p, Expecting(policy[p], peer), "waiting",
             [NoExchange EXCEPT !.saml = version, !.peer = peer], <<>>)
    /\ verified' = [verified EXCEPT ![p] = {}]
    /\ UNCHANGED <<traffic, clock, replayCache, history>>

\* decode of the artifact bindings: each artifact of the request is good for
\* one try, also when it or a later one then turns out to be of no use.
ArtifactVersion(r) == IF r.binding = "SAML1Artifact" THEN 1 ELSE 2
DecodeArtifact(p, r) ==
    /\ status[p] = "fresh" /\ r.binding \notin Bindings
    /\ Start(p, policy[p], "checking",
             [NoExchange EXCEPT !.request = r, !.saml = ArtifactVersion(r),
                                !.unchecked = r.artifacts], <<>>)
    /\ UNCHANGED <<traffic, clock, replayCache, verified, history>>

CheckArtifact(p) ==
    LET unchecked == exchange[p].unchecked
        artifact == <<exchange[p].saml, Head(unchecked)>>
        rest == [exchange[p] EXCEPT !.unchecked = Tail(@)]
    IN  /\ status[p] = "checking" /\ unchecked # <<>>
        /\ \/ /\ Recorded(artifact)
              /\ End(p, policy[p], "refused")
              /\ UNCHANGED replayCache
           \/ /\ ~Recorded(artifact)
              /\ Remember(artifact, clock + 2 * Skew)
              /\ \/ Start(p, policy[p], "checking", rest, <<>>)
                 \/ End(p, policy[p], "refused")     \* does not parse, or the wrong type
        /\ UNCHANGED <<traffic, clock, verified, history>>

\* The source of the (first) artifact must have a role in the metadata; the
\* resolver, which is the application's, asks it with a SOAP client on this policy.
Resolve(p) ==
    LET source == exchange[p].request.source
    IN  /\ status[p] = "checking" /\ exchange[p].unchecked = <<>>
        /\ \/ /\ source \notin Known
              /\ End(p, policy[p], "refused")
              /\ UNCHANGED verified
           \/ /\ source \in Known
              /\ Start(p, Expecting(policy[p], source), "waiting",
                       [exchange[p] EXCEPT !.peer = source], <<>>)
              /\ verified' = [verified EXCEPT ![p] = {}]
        /\ UNCHANGED <<traffic, clock, replayCache, history>>

\* SOAPClient::receive: the transport has authenticated the peer if it is the
\* one that was asked; with m_force it gives no answer otherwise.  The payload
\* of an ArtifactResponse is a layer more.
Answer(p, a) ==
    LET x == exchange[p]
        payload == IF x.request # NoRequest /\ x.saml = 2 THEN <<SAML2Layer(a.payload)>> ELSE <<>>
        isAuthenticated == a.server = x.peer
    IN  /\ status[p] = "waiting"
        /\ Start(p, [policy[p] EXCEPT !.m_authenticated = @ \/ isAuthenticated], "busy", x,
                 <<Received(Envelope), Received(a.message)>> \o payload)
        /\ verified' = [verified EXCEPT ![p] = @ \union (IF isAuthenticated THEN {x.peer} ELSE {})]
        /\ UNCHANGED <<traffic, clock, replayCache, history>>

NoAnswer(p) ==
    /\ status[p] = "waiting"
    /\ End(p, policy[p], "refused")
    /\ UNCHANGED <<traffic, clock, replayCache, verified, history>>

-----------------------------------------------------------------------------
(* How a layer is evaluated *)

Refuse(p, P) == End(p, P, "refused")

\* receiveSAML wants a Response of its protocol that answers its request; the
\* payload of an ArtifactResponse only has to exist.
Unwanted(p, l) ==
    \/ l.message = NoMessage
    \/ /\ l.by = "client" /\ l.message # Envelope
       /\ \/ l.message.saml # exchange[p].saml \/ l.message.kind # "Response"
          \/ ~l.message.answers

\* The details of the layer go into the policy.
BeginLayer(p) ==
    LET l == Head(todo[p])
    IN  /\ status[p] = "busy" /\ todo[p] # <<>> /\ rule[p] = 0
        /\ \/ /\ Unwanted(p, l)
              /\ Refuse(p, policy[p])
           \/ /\ ~Unwanted(p, l) /\ ExtractionThrows(policy[p], l)
              /\ Refuse(p, Described(policy[p], l))
           \/ /\ ~Unwanted(p, l) /\ ~ExtractionThrows(policy[p], l)
              /\ policy' = [policy EXCEPT ![p] = Extracted(@, l)]
              /\ rule' = [rule EXCEPT ![p] = 1]
              /\ UNCHANGED <<status, exchange, todo>>
        /\ UNCHANGED <<traffic, clock, replayCache, verified, history>>

\* Between two layers only the message is reset.
EndLayer(p) ==
    /\ status[p] = "busy" /\ todo[p] # <<>> /\ rule[p] = Len(Rules) + 1
    /\ policy' = [policy EXCEPT ![p] = IF Len(todo[p]) > 1 THEN _reset(@, TRUE) ELSE @]
    /\ todo' = [todo EXCEPT ![p] = Tail(@)]
    /\ rule' = [rule EXCEPT ![p] = 0]
    /\ UNCHANGED <<traffic, status, exchange, clock, replayCache, verified, history>>

\* receiveSAML looks at the Status as soon as the policy has passed the reply: an
\* error may be fatal, before the payload of an ArtifactResponse is looked at.
ErrorStatus(p) ==
    /\ status[p] = "busy" /\ todo[p] # <<>> /\ rule[p] = Len(Rules) + 1
    /\ Head(todo[p]).by = "client" /\ Head(todo[p]).message # Envelope
    /\ Refuse(p, policy[p])
    /\ UNCHANGED <<traffic, clock, replayCache, verified, history>>

Evaluating(p, type) ==
    status[p] = "busy" /\ todo[p] # <<>> /\ rule[p] \in DOMAIN Rules /\ Rules[rule[p]] = type
Proceed(p, P) ==
    /\ policy' = [policy EXCEPT ![p] = P]
    /\ rule' = [rule EXCEPT ![p] = @ + 1]
    /\ UNCHANGED <<status, exchange, todo>>

\* getTime: the first use of a policy fixes its time.
getTime(p) == IF policy[p].m_ts = 0 THEN clock ELSE policy[p].m_ts

\* The last second in which a message passes.
Deadline(m) == m.issued + Skew + Expires

MessageFlowRule(p) ==
    LET now == getTime(p)
        P == [policy[p] EXCEPT !.m_ts = now]
        m == Head(todo[p]).message
        unidentified == P.m_messageID = NoID \/ ~CheckReplay
    IN  /\ Evaluating(p, "MessageFlow")
        /\ \/ /\ ~InWindow(P.m_issueInstant, now)
              /\ Refuse(p, P)
              /\ UNCHANGED <<replayCache, history>>
           \/ /\ InWindow(P.m_issueInstant, now) /\ unidentified
              /\ Proceed(p, P)
              /\ UNCHANGED <<replayCache, history>>
           \/ /\ InWindow(P.m_issueInstant, now) /\ ~unidentified
              /\ Recorded(P.m_messageID)
              /\ Refuse(p, P)
              /\ UNCHANGED <<replayCache, history>>
           \/ /\ InWindow(P.m_issueInstant, now) /\ ~unidentified
              /\ ~Recorded(P.m_messageID)
              /\ Proceed(p, P)
              /\ Remember(P.m_messageID, RememberUntil(P.m_issueInstant, now))
              /\ passed' = passed \union {m}
              /\ replayed' = IF m \notin passed THEN replayed
                             ELSE replayed \union {[late |-> now < clock, last |-> clock = Deadline(m)]}
        /\ UNCHANGED <<traffic, clock, verified>>

\* Whose evidence a rule sees in the first layer: the XML signature, and for a
\* decoder the Signature parameter and the client's certificate.
Evidence(p, type) ==
    LET l == Head(todo[p])
    IN  IF type = "XMLSigning" THEN l.message.signer
        ELSE IF l.by = "client" THEN NoEntity
        ELSE IF type = "SimpleSigning" THEN exchange[p].request.signer
        ELSE exchange[p].request.certificate

\* SimpleSigningRule, XMLSigningRule and ClientCertAuthRule differ in the
\* evidence only.  Without metadata there is nothing to verify against.
AuthenticatingRule(p, type) ==
    LET role == policy[p].m_issuerRole
        evidence == Evidence(p, type)
    IN  /\ Evaluating(p, type)
        /\ \/ /\ role = NoEntity \/ evidence = NoEntity
              /\ Proceed(p, policy[p])
              /\ UNCHANGED verified
           \/ /\ role # NoEntity /\ evidence = role
              /\ Proceed(p, [policy[p] EXCEPT !.m_authenticated = TRUE])
              /\ verified' = [verified EXCEPT ![p] = @ \union {evidence}]
           \/ /\ role # NoEntity /\ evidence \notin {NoEntity, role} /\ ErrorFatal[type]
              /\ Refuse(p, policy[p])
              /\ UNCHANGED verified
           \/ /\ role # NoEntity /\ evidence \notin {NoEntity, role} /\ ~ErrorFatal[type]
              /\ Proceed(p, policy[p])
              /\ UNCHANGED verified
        /\ UNCHANGED <<traffic, clock, replayCache, history>>

SimpleSigningRule(p) == AuthenticatingRule(p, "SimpleSigning")
XMLSigningRule(p) == AuthenticatingRule(p, "XMLSigning")
ClientCertAuthRule(p) == AuthenticatingRule(p, "ClientCertAuth")

-----------------------------------------------------------------------------
(* How an exchange ends *)

\* A decoder of a binding that carries the message itself looks at its destination.
Lands(p) ==
    LET r == exchange[p].request
    IN  r \in Requests /\ r.binding \in Bindings => Decoder(r).lands
Finish(p) ==
    /\ status[p] = "busy" /\ todo[p] = <<>>
    /\ End(p, policy[p], IF Lands(p) THEN "accepted" ELSE "refused")
    /\ UNCHANGED <<traffic, clock, replayCache, verified, history>>

\* The caller takes a new policy for its next message, or resets the old one.
NextPolicy(p, P) ==
    /\ status[p] \in {"accepted", "refused"}
    /\ End(p, P, "fresh")
    /\ verified' = [verified EXCEPT ![p] = {}]
    /\ UNCHANGED <<traffic, clock, replayCache, history>>
Renew(p) == NextPolicy(p, NewPolicy)
Reset(p) == NextPolicy(p, _reset(policy[p], FALSE))

\* Time passes; the storage forgets what it no longer shows.
Tick ==
    /\ clock < MaxTime
    /\ clock' = clock + 1
    /\ replayCache' = {r \in replayCache : Shows(r, clock')}
    /\ UNCHANGED <<traffic, policy, status, exchange, todo, rule, verified, history>>

Next ==
    \/ \E p \in Policies :
        \/ \E r \in traffic.requests : Decode(p, r) \/ DecodeArtifact(p, r)
        \/ \E peer \in Known, version \in {1, 2} : Query(p, peer, version)
        \/ \E a \in traffic.replies : Answer(p, a)
        \/ CheckArtifact(p) \/ Resolve(p) \/ NoAnswer(p)
        \/ BeginLayer(p) \/ EndLayer(p) \/ ErrorStatus(p)
        \/ MessageFlowRule(p) \/ SimpleSigningRule(p)
        \/ XMLSigningRule(p) \/ ClientCertAuthRule(p)
        \/ Finish(p) \/ Renew(p) \/ Reset(p)
    \/ Tick

Spec == Init /\ [][Next]_vars

-----------------------------------------------------------------------------
(* Properties *)

\* Every variable keeps its type.
TypeOK ==
    /\ traffic \in Traffics
    /\ policy \in [Policies -> PolicyState]
    /\ status \in [Policies -> Statuses]
    /\ exchange \in [Policies -> Exchange]
    /\ todo \in [Policies -> Seq(Layer)]
    /\ rule \in [Policies -> 0..Len(Rules) + 1]
    /\ clock \in Nat \ {0}
    /\ replayCache \subseteq CacheRecord
    /\ verified \in [Policies -> SUBSET Known]
    /\ passed \subseteq Messages
    /\ replayed \subseteq [late : BOOLEAN, last : BOOLEAN]

\* What the rules judge comes from the issuer they judge it by: the issuer a
\* layer names is the one in the policy, and the metadata is that issuer's,
\* across layers that name issuers of their own, SOAP exchanges and resets.
RulesJudgeTheIssuer ==
    \A p \in Policies :
        /\ policy[p].m_issuerRole # NoEntity => policy[p].m_issuer = EntityIssuer(policy[p].m_issuerRole)
        /\ rule[p] > 0 => LayerIssuer(Head(todo[p])) \in {NoIssuer, policy[p].m_issuer}

\* A policy says it is authenticated only when credentials of the peer whose
\* metadata it holds now were verified in this very exchange: not those of an
\* earlier exchange, nor of whoever else took part in this one.
AuthenticatedByIssuer ==
    \A p \in Policies : policy[p].m_authenticated => policy[p].m_issuerRole \in verified[p]

\* The replay check lets no message through again, on any thread, but in the
\* one second in which the record expires and the message still passes, and to
\* a policy whose time has fallen behind the clock.
NoTimelyReplay == \A r \in replayed : r.late \/ r.last

\* The replay check lets no message through again.  The code does not keep
\* this: for the two exceptions above see the README.
NoReplay == replayed = {}
=============================================================================
