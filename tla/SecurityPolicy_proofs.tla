------------------------ MODULE SecurityPolicy_proofs ------------------------
(* Proofs about the security policy, for any peers, messages, traffic, rules *)
(* and threads.                                                              *)
EXTENDS SecurityPolicy, TLAPS

-----------------------------------------------------------------------------
(* The inductive invariant *)

\* The metadata are the issuer's.
Consistent(P) == P.m_issuerRole # NoEntity => P.m_issuer = EntityIssuer(P.m_issuerRole)

\* What holds of one policy: RulesJudgeTheIssuer, AuthenticatedByIssuer, a time
\* not ahead of the clock, an expected peer while it waits, no message before
\* a layer is begun, and that of the layer afterwards.
JudgesTheIssuer(p) ==
    /\ Consistent(policy[p])
    /\ rule[p] > 0 => LayerIssuer(Head(todo[p])) \in {NoIssuer, policy[p].m_issuer}
Knows(p) ==
    /\ policy[p].m_authenticated => policy[p].m_issuerRole \in verified[p]
    /\ policy[p].m_ts <= clock
    /\ status[p] = "waiting" => policy[p].m_issuerRole = exchange[p].peer /\ exchange[p].peer \in Known
    /\ status[p] \in {"fresh", "checking", "waiting"} => policy[p].m_messageID = NoID
    /\ status[p] # "busy" => rule[p] = 0
HasTheMessage(p) ==
    /\ rule[p] = 0 /\ todo[p] # <<>> => policy[p].m_messageID = NoID
    /\ rule[p] > 0 => todo[p] # <<>> /\ Head(todo[p]).message \in Messages \union {Envelope}
    /\ rule[p] > 0 /\ policy[p].m_messageID # NoID =>
          /\ Head(todo[p]).message \in Messages
          /\ policy[p].m_messageID = Head(todo[p]).message.id
          /\ policy[p].m_issueInstant = Head(todo[p]).message.issued
PolicyInv(p) == JudgesTheIssuer(p) /\ Knows(p) /\ HasTheMessage(p)

\* The same of all policies, with the types of what belongs to one.
PoliciesInv ==
    /\ policy \in [Policies -> PolicyState]
    /\ status \in [Policies -> Statuses]
    /\ exchange \in [Policies -> Exchange]
    /\ todo \in [Policies -> Seq(Layer)]
    /\ rule \in [Policies -> 0..Len(Rules) + 1]
    /\ \A p \in Policies : PolicyInv(p)

\* The types of what the policies share.
SharedType ==
    /\ traffic \in Traffics
    /\ clock \in Nat \ {0}
    /\ replayCache \subseteq CacheRecord
    /\ verified \in [Policies -> SUBSET Known]
    /\ passed \subseteq Messages
    /\ replayed \subseteq [late : BOOLEAN, last : BOOLEAN]

\* The replay cache shows each message that passed for as long as it would
\* pass again, but for the last second.
Remembered ==
    \A m \in passed : clock < Deadline(m) =>
        \E r \in replayCache : r.key = m.id /\ r.expires >= Deadline(m)

IInv ==
    /\ TypeOK
    /\ \A p \in Policies : PolicyInv(p)
    /\ Remembered
    /\ NoTimelyReplay

-----------------------------------------------------------------------------
(* Policies and layers *)

LEMMA MessageType ==
    ASSUME NEW m \in Messages
    PROVE  /\ m.id \in IDs /\ m.id # NoID /\ m.issued \in Nat /\ m.issued # 0 /\ m.saml \in {1, 2}
           /\ m.issuer \in Issuers \union {NoIssuer} /\ m.asserted \in Issuers \union {NoIssuer}
           /\ m.asserted # NoIssuer => EntityIssuer(m.asserted.name) \in Issuers
           /\ m # Envelope /\ m # NoMessage
BY DataAssumption, NullAssumption DEF Message, Envelope, EntityIssuer, Issuers

LEMMA NewPolicyType ==
    /\ NewPolicy \in PolicyState /\ Consistent(NewPolicy)
    /\ NewPolicy.m_authenticated = FALSE /\ NewPolicy.m_messageID = NoID
    /\ NewPolicy.m_ts = 0
BY DEF NewPolicy, PolicyState, Consistent

LEMMA EntityIssuerType ==
    ASSUME NEW e \in Known
    PROVE  EntityIssuer(e) \in Issuers /\ EntityIssuer(e) # NoIssuer
<1>1. EntityIssuer(e) \in Issuers
  BY NullAssumption DEF EntityIssuer, Issuers
<1>. QED
  BY <1>1, NullAssumption

\* A full reset forgets everything but the time, one of the message only that.
LEMMA ResetType ==
    ASSUME NEW P \in PolicyState
    PROVE  /\ _reset(P, FALSE) \in PolicyState /\ _reset(P, TRUE) \in PolicyState
           /\ _reset(P, FALSE) = [NewPolicy EXCEPT !.m_ts = P.m_ts]
           /\ _reset(P, TRUE) = [P EXCEPT !.m_messageID = NoID, !.m_issueInstant = 0]
BY DEF _reset, PolicyState, NewPolicy

\* The policy of a SOAP client expects the peer.
LEMMA ExpectingType ==
    ASSUME NEW P \in PolicyState, NEW e \in Known
    PROVE  /\ Expecting(P, e) \in PolicyState /\ Consistent(Expecting(P, e))
           /\ Expecting(P, e).m_issuerRole = e /\ Expecting(P, e).m_authenticated = FALSE
           /\ Expecting(P, e).m_messageID = NoID /\ Expecting(P, e).m_ts = P.m_ts
<1>1. EntityIssuer(e) \in Issuers
  BY EntityIssuerType
<1>. QED
  BY <1>1, NullAssumption
     DEF Expecting, setIssuerMetadata, setIssuer, _reset, NewPolicy, PolicyState, Consistent

LEMMA LayerIssuerType ==
    ASSUME NEW l \in Layer, l.message # NoMessage
    PROVE  /\ l.message \in Messages \union {Envelope}
           /\ LayerIssuer(l) \in Issuers \union {NoIssuer}
<1>1. l.message \in Messages \union {Envelope}
  BY DEF Layer
<1>2. CASE l.message = Envelope
  <2>1. l.message.saml = 0
    BY <1>2 DEF Envelope
  <2>2. ~Understood(l)
    BY <2>1 DEF Understood, Layer
  <2>. QED
    BY <1>1, <2>2 DEF LayerIssuer
<1>3. CASE l.message \in Messages
  BY <1>3, MessageType DEF LayerIssuer, ReceivedIssuer, SAML2Issuer, SAML1Issuer
<1>. QED
  BY <1>1, <1>2, <1>3

LEMMA DescribedType ==
    ASSUME NEW P \in PolicyState, NEW l \in Layer, l.message # NoMessage
    PROVE  /\ Described(P, l) \in PolicyState
           /\ \A f \in {"m_issuer", "m_issuerRole", "m_authenticated", "m_ts"} : Described(P, l)[f] = P[f]
           /\ ~Understood(l) => Described(P, l).m_messageID = P.m_messageID
           /\ Understood(l) =>
                 /\ l.message \in Messages
                 /\ Described(P, l).m_messageID = l.message.id
                 /\ Described(P, l).m_issueInstant = l.message.issued
<1>1. l.message \in Messages \union {Envelope}
  BY LayerIssuerType
<1>2. l.message = Envelope => ~Understood(l)
  BY DEF Understood, Envelope
<1>3. CASE ~Understood(l)
  BY <1>3 DEF Described
<1>4. CASE Understood(l)
  <2>1. l.message \in Messages /\ l.message.id \in IDs /\ l.message.issued \in Nat
    BY <1>1, <1>2, <1>4, MessageType
  <2>. QED
    BY <1>4, <2>1 DEF Described, setMessage, PolicyState
<1>. QED
  BY <1>3, <1>4

\* What the extraction leaves in a policy: the issuer of the layer, if it names
\* one, and metadata of no other; metadata that were there stay.
LEMMA ExtractedType ==
    ASSUME NEW P \in PolicyState, Consistent(P), NEW l \in Layer, l.message # NoMessage,
           ~ExtractionThrows(P, l)
    PROVE  /\ Extracted(P, l) \in PolicyState /\ Consistent(Extracted(P, l))
           /\ LayerIssuer(l) \in {NoIssuer, Extracted(P, l).m_issuer}
           /\ P.m_issuerRole # NoEntity => Extracted(P, l).m_issuerRole = P.m_issuerRole
           /\ Extracted(P, l).m_authenticated = P.m_authenticated
           /\ Extracted(P, l).m_ts = P.m_ts
           /\ Extracted(P, l).m_messageID = Described(P, l).m_messageID
           /\ Extracted(P, l).m_issueInstant = Described(P, l).m_issueInstant
<1>. DEFINE i == LayerIssuer(l)
            D == Described(P, l)
            Q == IF i = NoIssuer THEN D ELSE setIssuer(D, i)
<1>1. i \in Issuers \union {NoIssuer} /\ D \in PolicyState
      /\ D.m_issuer = P.m_issuer /\ D.m_issuerRole = P.m_issuerRole
      /\ D.m_authenticated = P.m_authenticated /\ D.m_ts = P.m_ts
  BY LayerIssuerType, DescribedType
<1>2. /\ i # NoIssuer => P.m_issuer \in {NoIssuer, i}
  BY DEF ExtractionThrows, setIssuerThrows, issuerMatches
<1>3. P.m_issuerRole # NoEntity => P.m_issuer # NoIssuer
  BY EntityIssuerType DEF Consistent, PolicyState
<1>. HIDE DEF i, D
<1>4. /\ Q \in PolicyState /\ Consistent(Q)
      /\ i \in {NoIssuer, Q.m_issuer}
      /\ P.m_issuerRole # NoEntity => Q.m_issuerRole = P.m_issuerRole
      /\ Q.m_authenticated = P.m_authenticated /\ Q.m_ts = P.m_ts
      /\ Q.m_messageID = D.m_messageID /\ Q.m_issueInstant = D.m_issueInstant
  BY <1>1, <1>2, <1>3 DEF setIssuer, PolicyState, Consistent
<1>. HIDE DEF Q
<1>5. CASE i = NoIssuer \/ l.by = "client" \/ Q.m_issuerRole # NoEntity
  <2>1. Extracted(P, l) = Q
    BY <1>5 DEF Extracted, i, D, Q
  <2>. QED
    BY <2>1, <1>4 DEF i, D
<1>6. CASE ~(i = NoIssuer \/ l.by = "client" \/ Q.m_issuerRole # NoEntity)
  <2>1. Extracted(P, l) = [Q EXCEPT !.m_issuerRole = Lookup(i)]
    BY <1>6 DEF Extracted, i, D, Q, setIssuerMetadata
  <2>2. /\ Lookup(i) \in Known \union {NoEntity}
        /\ Lookup(i) # NoEntity => i = EntityIssuer(Lookup(i))
    BY <1>1, <1>6 DEF Lookup, EntityIssuer, Issuers
  <2>3. Q.m_issuer = i
    BY <1>4, <1>6
  <2>. QED
    BY <2>1, <2>2, <2>3, <1>4, <1>6 DEF PolicyState, Consistent, i, D
<1>. QED
  BY <1>5, <1>6

LEMMA DecoderType ==
    ASSUME NEW r \in Requests, r.binding \in Bindings
    PROVE  /\ r \in MessageRequest
           /\ Decoder(r).layers \in Seq(Layer)
<1>1. r \in MessageRequest
  BY DataAssumption DEF ArtifactRequest, Bindings
<1>2. /\ SAML1Layer(r.message) \in Layer /\ SAML1Layer(Envelope) \in Layer
      /\ SAML2Layer(r.message) \in Layer /\ SAML2Layer(Envelope) \in Layer
  BY <1>1 DEF MessageRequest, SAML1Layer, SAML2Layer, Layer
<1>. QED
  BY <1>1, <1>2 DEF Decoder, SAML2POSTDecoder, SAML2RedirectDecoder, SAML2SOAPDecoder,
     SAML2ECPDecoder, SAML1POSTDecoder, SAML1SOAPDecoder

-----------------------------------------------------------------------------
(* One policy at a time *)

\* What another policy does leaves a policy's part of the invariant alone.
LEMMA OthersKeep ==
    ASSUME TypeOK, NEW q \in Policies, PolicyInv(q), clock' \in Nat, clock <= clock',
           policy'[q] = policy[q], status'[q] = status[q], exchange'[q] = exchange[q],
           todo'[q] = todo[q], rule'[q] = rule[q], verified'[q] = verified[q]
    PROVE  PolicyInv(q)'
<1>1. policy[q].m_ts \in Nat /\ clock \in Nat
  BY DEF TypeOK, PolicyState
<1>. QED
  BY <1>1 DEF PolicyInv, JudgesTheIssuer, Knows, HasTheMessage

\* An exchange begins, goes on with new layers, or ends.
LEMMA StartInv ==
    ASSUME IInv, NEW p \in Policies, NEW P \in PolicyState, NEW state \in Statuses,
           NEW x \in Exchange, NEW layers \in Seq(Layer),
           Start(p, P, state, x, layers), clock' = clock,
           verified' \in [Policies -> SUBSET Known],
           \A q \in Policies \ {p} : verified'[q] = verified[q],
           Consistent(P), P.m_authenticated => P.m_issuerRole \in verified'[p], P.m_ts <= clock,
           state = "waiting" => P.m_issuerRole = x.peer /\ x.peer \in Known,
           state \in {"fresh", "checking", "waiting"} \/ layers # <<>> => P.m_messageID = NoID
    PROVE  PoliciesInv'
<1>0. TypeOK /\ clock' \in Nat /\ clock <= clock' /\ Len(Rules) \in Nat
  BY ConfigurationAssumption DEF IInv, TypeOK
<1>1. /\ policy' = [policy EXCEPT ![p] = P] /\ status' = [status EXCEPT ![p] = state]
      /\ exchange' = [exchange EXCEPT ![p] = x] /\ todo' = [todo EXCEPT ![p] = layers]
      /\ rule' = [rule EXCEPT ![p] = 0]
  BY DEF Start
<1>2. /\ policy' \in [Policies -> PolicyState] /\ status' \in [Policies -> Statuses]
      /\ exchange' \in [Policies -> Exchange] /\ todo' \in [Policies -> Seq(Layer)]
      /\ rule' \in [Policies -> 0..Len(Rules) + 1]
  BY <1>0, <1>1 DEF TypeOK
<1>3. ASSUME NEW q \in Policies
      PROVE  PolicyInv(q)'
  <2>1. CASE q = p
    <3>1. /\ policy'[p] = P /\ status'[p] = state /\ exchange'[p] = x /\ todo'[p] = layers
          /\ rule'[p] = 0
      BY <1>0, <1>1 DEF TypeOK
    <3>. QED
      BY <2>1, <3>1 DEF PolicyInv, JudgesTheIssuer, Knows, HasTheMessage
  <2>2. CASE q # p
    <3>1. /\ policy'[q] = policy[q] /\ status'[q] = status[q] /\ exchange'[q] = exchange[q]
          /\ todo'[q] = todo[q] /\ rule'[q] = rule[q] /\ verified'[q] = verified[q]
      BY <1>0, <1>1, <2>2 DEF TypeOK
    <3>2. PolicyInv(q)
      BY DEF IInv
    <3>. QED
      BY <1>0, <3>1, <3>2, OthersKeep
  <2>. QED
    BY <2>1, <2>2
<1>. QED
  BY <1>2, <1>3 DEF PoliciesInv

LEMMA NoExchangeType == NoExchange \in Exchange
BY DEF NoExchange, Exchange

LEMMA EmptyLayers == <<>> \in Seq(Layer)
OBVIOUS

\* An exchange ends, and the policy says no more than before.
LEMMA EndInv ==
    ASSUME IInv, NEW p \in Policies, NEW P \in PolicyState, NEW state \in {"accepted", "refused"},
           End(p, P, state), clock' = clock, verified' = verified,
           Consistent(P), P.m_authenticated => P.m_issuerRole \in verified[p], P.m_ts <= clock
    PROVE  PoliciesInv'
<1>1. /\ Start(p, P, state, NoExchange, <<>>) /\ NoExchange \in Exchange /\ <<>> \in Seq(Layer)
      /\ state \in Statuses /\ state \notin {"fresh", "checking", "waiting"}
      /\ verified' \in [Policies -> SUBSET Known]
  BY NoExchangeType, EmptyLayers DEF End, Statuses, IInv, TypeOK
<1>2. \A q \in Policies \ {p} : verified'[q] = verified[q]
  OBVIOUS
<1>. QED
  BY <1>1, <1>2, StartInv

\* A rule lets the message pass: the next one is up.
LEMMA ProceedInv ==
    ASSUME IInv, NEW p \in Policies, NEW P \in PolicyState, Proceed(p, P), clock' = clock,
           rule[p] \in DOMAIN Rules,
           verified' \in [Policies -> SUBSET Known],
           \A q \in Policies \ {p} : verified'[q] = verified[q],
           P.m_issuer = policy[p].m_issuer, P.m_issuerRole = policy[p].m_issuerRole,
           P.m_messageID = policy[p].m_messageID, P.m_issueInstant = policy[p].m_issueInstant,
           P.m_authenticated => P.m_issuerRole \in verified'[p], P.m_ts <= clock,
           status[p] = "busy"
    PROVE  PoliciesInv'
<1>0. /\ TypeOK /\ clock' \in Nat /\ clock <= clock' /\ Len(Rules) \in Nat /\ PolicyInv(p)
      /\ rule[p] \in 1 .. Len(Rules)
  BY ConfigurationAssumption DEF IInv, TypeOK
<1>1. /\ policy' = [policy EXCEPT ![p] = P] /\ rule' = [rule EXCEPT ![p] = @ + 1]
      /\ status' = status /\ exchange' = exchange /\ todo' = todo
  BY DEF Proceed
<1>2. policy' \in [Policies -> PolicyState] /\ rule' \in [Policies -> 0..Len(Rules) + 1]
  BY <1>0, <1>1 DEF TypeOK
<1>3. ASSUME NEW q \in Policies
      PROVE  PolicyInv(q)'
  <2>1. CASE q = p
    <3>1. policy'[p] = P /\ rule'[p] = rule[p] + 1 /\ rule[p] > 0 /\ rule[p] + 1 > 0 /\ rule[p] + 1 # 0
      BY <1>0, <1>1 DEF TypeOK
    <3>. QED
      BY <1>0, <1>1, <2>1, <3>1 DEF PolicyInv, JudgesTheIssuer, Knows, HasTheMessage, Consistent
  <2>2. CASE q # p
    <3>1. /\ policy'[q] = policy[q] /\ rule'[q] = rule[q] /\ verified'[q] = verified[q] /\ PolicyInv(q)
      BY <1>0, <1>1, <2>2 DEF TypeOK, IInv
    <3>. QED
      BY <1>0, <1>1, <3>1, OthersKeep
  <2>. QED
    BY <2>1, <2>2
<1>. QED
  BY <1>0, <1>1, <1>2, <1>3 DEF PoliciesInv, TypeOK

-----------------------------------------------------------------------------
(* The actions *)

LEMMA DecodeInv ==
    ASSUME IInv, NEW p \in Policies, NEW r \in Requests, Decode(p, r)
    PROVE  PoliciesInv' /\ SharedType'
<1>0. /\ TypeOK /\ PolicyInv(p) /\ policy[p] \in PolicyState /\ clock' = clock
      /\ verified' = verified /\ verified' \in [Policies -> SUBSET Known]
      /\ Consistent(policy[p]) /\ policy[p].m_ts <= clock
      /\ policy[p].m_authenticated => policy[p].m_issuerRole \in verified[p]
      /\ policy[p].m_messageID = NoID
      /\ UNCHANGED <<traffic, replayCache, history>>
  BY DEF IInv, TypeOK, Decode, PolicyInv, JudgesTheIssuer, Knows
<1>1. CASE Decoder(r).takes
  <2>1. /\ Start(p, policy[p], "busy", [NoExchange EXCEPT !.request = r], Decoder(r).layers)
        /\ [NoExchange EXCEPT !.request = r] \in Exchange /\ Decoder(r).layers \in Seq(Layer)
        /\ "busy" \in Statuses
    BY <1>1, DecoderType, NoExchangeType DEF Decode, Exchange, Statuses
  <2>2. PoliciesInv'
    BY <1>0, <2>1, StartInv
  <2>. QED
    BY <1>0, <2>2 DEF SharedType, TypeOK, history
<1>2. CASE ~Decoder(r).takes
  <2>1. End(p, policy[p], "refused")
    BY <1>2 DEF Decode
  <2>2. PoliciesInv'
    BY <1>0, <2>1, EndInv
  <2>. QED
    BY <1>0, <2>2 DEF SharedType, TypeOK, history
<1>. QED
  BY <1>1, <1>2

\* A SOAP exchange with a known peer begins.
LEMMA AskInv ==
    ASSUME IInv, NEW p \in Policies, NEW e \in Known, NEW x \in Exchange, x.peer = e,
           Start(p, Expecting(policy[p], e), "waiting", x, <<>>),
           verified' = [verified EXCEPT ![p] = {}], clock' = clock
    PROVE  PoliciesInv' /\ verified' \in [Policies -> SUBSET Known]
<1>0. /\ policy[p] \in PolicyState /\ policy[p].m_ts <= clock /\ verified \in [Policies -> SUBSET Known]
  BY DEF IInv, TypeOK, PolicyInv, Knows
<1>1. /\ Expecting(policy[p], e) \in PolicyState /\ Consistent(Expecting(policy[p], e))
      /\ Expecting(policy[p], e).m_issuerRole = e
      /\ Expecting(policy[p], e).m_authenticated = FALSE
      /\ Expecting(policy[p], e).m_messageID = NoID
      /\ Expecting(policy[p], e).m_ts <= clock
  BY <1>0, ExpectingType
<1>2. /\ verified' \in [Policies -> SUBSET Known] /\ "waiting" \in Statuses /\ <<>> \in Seq(Layer)
      /\ \A q \in Policies \ {p} : verified'[q] = verified[q]
  BY <1>0, EmptyLayers DEF Statuses
<1>3. PoliciesInv'
  BY <1>1, <1>2, StartInv
<1>. QED
  BY <1>2, <1>3

LEMMA QueryInv ==
    ASSUME IInv, NEW p \in Policies, NEW e \in Known, NEW version \in {1, 2}, Query(p, e, version)
    PROVE  PoliciesInv' /\ SharedType'
<1>. DEFINE x == [NoExchange EXCEPT !.saml = version, !.peer = e]
<1>1. x \in Exchange /\ x.peer = e
  BY NoExchangeType DEF Exchange
<1>2. /\ Start(p, Expecting(policy[p], e), "waiting", x, <<>>)
      /\ verified' = [verified EXCEPT ![p] = {}] /\ clock' = clock
      /\ UNCHANGED <<traffic, replayCache, history>>
  BY DEF Query
<1>. HIDE DEF x
<1>3. PoliciesInv' /\ verified' \in [Policies -> SUBSET Known]
  BY <1>1, <1>2, AskInv
<1>. QED
  BY <1>2, <1>3 DEF SharedType, IInv, TypeOK, history

LEMMA RememberType ==
    ASSUME TypeOK, NEW k \in IDs \union ArtifactKeys, NEW until \in Nat, Remember(k, until)
    PROVE  replayCache' \subseteq CacheRecord
BY DEF Remember, TypeOK, CacheRecord

\* What keeps the policy of a thread that decodes an artifact.
LEMMA ArtifactInv ==
    ASSUME IInv, NEW p \in Policies, NEW x \in Exchange, policy[p].m_messageID = NoID,
           Start(p, policy[p], "checking", x, <<>>), clock' = clock, verified' = verified
    PROVE  PoliciesInv'
<1>1. /\ policy[p] \in PolicyState /\ Consistent(policy[p]) /\ policy[p].m_ts <= clock
      /\ policy[p].m_authenticated => policy[p].m_issuerRole \in verified'[p]
      /\ verified' \in [Policies -> SUBSET Known]
      /\ "checking" \in Statuses /\ <<>> \in Seq(Layer)
      /\ \A q \in Policies \ {p} : verified'[q] = verified[q]
  BY EmptyLayers DEF IInv, TypeOK, PolicyInv, JudgesTheIssuer, Knows, Statuses
<1>. QED
  BY <1>1, StartInv

LEMMA DecodeArtifactInv ==
    ASSUME IInv, NEW p \in Policies, NEW r \in Requests, DecodeArtifact(p, r)
    PROVE  PoliciesInv' /\ SharedType'
<1>. DEFINE x == [NoExchange EXCEPT !.request = r, !.saml = ArtifactVersion(r),
                                    !.unchecked = r.artifacts]
<1>1. r.artifacts \in Seq(Artifacts)
  BY DataAssumption DEF DecodeArtifact, MessageRequest, ArtifactRequest
<1>2. x \in Exchange
  BY <1>1 DEF NoExchange, Exchange, ArtifactVersion
<1>3. /\ Start(p, policy[p], "checking", x, <<>>) /\ policy[p].m_messageID = NoID
      /\ UNCHANGED <<traffic, clock, replayCache, verified, history>>
  BY DEF DecodeArtifact, IInv, PolicyInv, Knows
<1>. HIDE DEF x
<1>4. PoliciesInv'
  BY <1>2, <1>3, ArtifactInv
<1>. QED
  BY <1>3, <1>4 DEF IInv, SharedType, TypeOK, history

LEMMA CheckArtifactInv ==
    ASSUME IInv, NEW p \in Policies, CheckArtifact(p)
    PROVE  /\ PoliciesInv' /\ SharedType' /\ UNCHANGED <<clock, history>>
           /\ \/ UNCHANGED replayCache
              \/ \E a \in ArtifactKeys : Remember(a, clock + 2 * Skew)
<1>. DEFINE a == <<exchange[p].saml, Head(exchange[p].unchecked)>>
            rest == [exchange[p] EXCEPT !.unchecked = Tail(@)]
<1>0. /\ TypeOK /\ exchange[p] \in Exchange /\ clock \in Nat /\ clock + 2 * Skew \in Nat
      /\ exchange[p].unchecked # <<>> /\ policy[p].m_messageID = NoID
      /\ UNCHANGED <<traffic, clock, verified, history>>
  BY ConfigurationAssumption DEF IInv, TypeOK, CheckArtifact, PolicyInv, Knows
<1>1. a \in ArtifactKeys /\ rest \in Exchange
  <2>1. exchange[p].unchecked \in Seq(Artifacts)
    BY <1>0 DEF Exchange
  <2>2. Head(exchange[p].unchecked) \in Artifacts /\ Tail(exchange[p].unchecked) \in Seq(Artifacts)
    BY <1>0, <2>1
  <2>. QED
    BY <1>0, <2>2 DEF Exchange, ArtifactKeys
<1>2. UNCHANGED replayCache \/ Remember(a, clock + 2 * Skew)
  BY DEF CheckArtifact
<1>3. Start(p, policy[p], "checking", rest, <<>>) \/ End(p, policy[p], "refused")
  BY DEF CheckArtifact
<1>. HIDE DEF a, rest
<1>4. replayCache' \subseteq CacheRecord
  BY <1>0, <1>1, <1>2, RememberType DEF TypeOK
<1>5. CASE Start(p, policy[p], "checking", rest, <<>>)
  <2>1. PoliciesInv'
    BY <1>0, <1>1, <1>5, ArtifactInv
  <2>. QED
    BY <1>0, <1>1, <1>2, <1>4, <2>1 DEF SharedType, TypeOK, history
<1>6. CASE End(p, policy[p], "refused")
  <2>1. /\ policy[p] \in PolicyState /\ Consistent(policy[p]) /\ policy[p].m_ts <= clock
        /\ policy[p].m_authenticated => policy[p].m_issuerRole \in verified[p]
    BY DEF IInv, TypeOK, PolicyInv, JudgesTheIssuer, Knows
  <2>2. PoliciesInv'
    BY <1>0, <1>6, <2>1, EndInv
  <2>. QED
    BY <1>0, <1>1, <1>2, <1>4, <2>2 DEF SharedType, TypeOK, history
<1>. QED
  BY <1>3, <1>5, <1>6

LEMMA ResolveInv ==
    ASSUME IInv, NEW p \in Policies, Resolve(p)
    PROVE  PoliciesInv' /\ SharedType'
<1>. DEFINE source == exchange[p].request.source
            x == [exchange[p] EXCEPT !.peer = source]
<1>0. TypeOK /\ exchange[p] \in Exchange /\ UNCHANGED <<traffic, clock, replayCache, history>>
  BY DEF IInv, TypeOK, Resolve
<1>1. CASE End(p, policy[p], "refused") /\ UNCHANGED verified
  <2>1. /\ policy[p] \in PolicyState /\ Consistent(policy[p]) /\ policy[p].m_ts <= clock
        /\ policy[p].m_authenticated => policy[p].m_issuerRole \in verified[p]
    BY DEF IInv, TypeOK, PolicyInv, JudgesTheIssuer, Knows
  <2>2. PoliciesInv'
    BY <1>0, <1>1, <2>1, EndInv
  <2>. QED
    BY <1>0, <1>1, <2>2 DEF SharedType, TypeOK, history
<1>2. CASE /\ source \in Known /\ Start(p, Expecting(policy[p], source), "waiting", x, <<>>)
           /\ verified' = [verified EXCEPT ![p] = {}]
  <2>1. x \in Exchange /\ x.peer = source
    BY <1>0, <1>2 DEF Exchange
  <2>. HIDE DEF x, source
  <2>2. PoliciesInv' /\ verified' \in [Policies -> SUBSET Known]
    BY <1>0, <1>2, <2>1, AskInv
  <2>. QED
    BY <1>0, <2>2 DEF SharedType, TypeOK, history
<1>. QED
  BY <1>1, <1>2 DEF Resolve

LEMMA AnswerInv ==
    ASSUME IInv, NEW p \in Policies, NEW a \in Replies, Answer(p, a)
    PROVE  PoliciesInv' /\ SharedType'
<1>. DEFINE x == exchange[p]
            payload == IF x.request # NoRequest /\ x.saml = 2 THEN <<SAML2Layer(a.payload)>> ELSE <<>>
            layers == <<Received(Envelope), Received(a.message)>> \o payload
            P == [policy[p] EXCEPT !.m_authenticated = @ \/ a.server = x.peer]
<1>0. /\ TypeOK /\ PolicyInv(p) /\ policy[p] \in PolicyState /\ x \in Exchange
      /\ clock' = clock /\ UNCHANGED <<traffic, replayCache, history>> /\ status[p] = "waiting"
      /\ Start(p, P, "busy", x, layers)
      /\ verified' = [verified EXCEPT ![p] = @ \union (IF a.server = x.peer THEN {x.peer} ELSE {})]
  BY DEF IInv, TypeOK, Answer
<1>1. layers \in Seq(Layer)
  <2>1. a.message \in Messages /\ a.payload \in Messages \union {NoMessage}
    BY DataAssumption DEF Reply
  <2>2. Received(Envelope) \in Layer /\ Received(a.message) \in Layer /\ SAML2Layer(a.payload) \in Layer
    BY <2>1 DEF Received, SAML2Layer, Layer
  <2>3. payload \in Seq(Layer)
    BY <2>2
  <2>. QED
    BY <2>2, <2>3
<1>2. /\ x.peer \in Known /\ policy[p].m_issuerRole = x.peer
      /\ Consistent(policy[p]) /\ policy[p].m_ts <= clock /\ policy[p].m_messageID = NoID
      /\ policy[p].m_authenticated => policy[p].m_issuerRole \in verified[p]
  BY <1>0 DEF PolicyInv, JudgesTheIssuer, Knows
<1>3. /\ verified' \in [Policies -> SUBSET Known]
      /\ \A q \in Policies \ {p} : verified'[q] = verified[q]
      /\ verified'[p] = verified[p] \union (IF a.server = x.peer THEN {x.peer} ELSE {})
  BY <1>0, <1>2 DEF TypeOK
<1>4. /\ P \in PolicyState /\ P.m_issuerRole = x.peer /\ P.m_issuer = policy[p].m_issuer
      /\ P.m_ts <= clock /\ P.m_messageID = NoID
      /\ P.m_authenticated = (policy[p].m_authenticated \/ a.server = x.peer)
  BY <1>0, <1>2 DEF PolicyState
<1>. HIDE DEF P, layers, x
<1>5. Consistent(P) /\ (P.m_authenticated => P.m_issuerRole \in verified'[p]) /\ "busy" \in Statuses
  BY <1>2, <1>3, <1>4 DEF Consistent, Statuses
<1>6. PoliciesInv'
  BY <1>0, <1>1, <1>3, <1>4, <1>5, StartInv
<1>. QED
  BY <1>0, <1>3, <1>6 DEF SharedType, TypeOK, history

\* What ends an exchange and leaves the policy as it is.
LEMMA OverInv ==
    ASSUME IInv, NEW p \in Policies, NEW state \in {"accepted", "refused"}, End(p, policy[p], state),
           UNCHANGED <<traffic, clock, replayCache, verified, history>>
    PROVE  PoliciesInv' /\ SharedType'
<1>0. /\ TypeOK /\ PolicyInv(p) /\ policy[p] \in PolicyState
  BY DEF IInv, TypeOK
<1>1. /\ Consistent(policy[p]) /\ policy[p].m_ts <= clock
      /\ policy[p].m_authenticated => policy[p].m_issuerRole \in verified[p]
  BY <1>0 DEF PolicyInv, JudgesTheIssuer, Knows
<1>2. PoliciesInv'
  BY <1>0, <1>1, EndInv
<1>. QED
  BY <1>0, <1>2 DEF SharedType, TypeOK, history

LEMMA BeginLayerInv ==
    ASSUME IInv, NEW p \in Policies, BeginLayer(p)
    PROVE  PoliciesInv' /\ SharedType'
<1>. DEFINE l == Head(todo[p])
<1>0. /\ TypeOK /\ PolicyInv(p) /\ policy[p] \in PolicyState /\ l \in Layer
      /\ status[p] = "busy" /\ todo[p] # <<>> /\ rule[p] = 0 /\ policy[p].m_messageID = NoID
      /\ Consistent(policy[p]) /\ policy[p].m_ts <= clock
      /\ policy[p].m_authenticated => policy[p].m_issuerRole \in verified[p]
      /\ verified' \in [Policies -> SUBSET Known]
      /\ UNCHANGED <<traffic, clock, replayCache, verified, history>>
  BY DEF IInv, TypeOK, BeginLayer, PolicyInv, JudgesTheIssuer, Knows, HasTheMessage
<1>1. SharedType'
  BY <1>0 DEF SharedType, TypeOK, history
<1>2. CASE Unwanted(p, l) /\ Refuse(p, policy[p])
  BY <1>0, <1>2, OverInv DEF Refuse
<1>3. CASE ~Unwanted(p, l) /\ ExtractionThrows(policy[p], l) /\ Refuse(p, Described(policy[p], l))
  <2>1. l.message # NoMessage
    BY <1>3 DEF Unwanted
  <2>. DEFINE D == Described(policy[p], l)
  <2>2. /\ D \in PolicyState /\ D.m_issuer = policy[p].m_issuer /\ D.m_issuerRole = policy[p].m_issuerRole
        /\ D.m_authenticated = policy[p].m_authenticated /\ D.m_ts = policy[p].m_ts
    BY <1>0, <2>1, DescribedType
  <2>. HIDE DEF D
  <2>3. /\ Consistent(D) /\ D.m_ts <= clock /\ (D.m_authenticated => D.m_issuerRole \in verified[p])
        /\ End(p, D, "refused") /\ clock' = clock /\ verified' = verified
    BY <1>0, <1>3, <2>2 DEF Consistent, Refuse, D
  <2>. QED
    BY <1>1, <2>2, <2>3, EndInv
<1>4. CASE /\ ~Unwanted(p, l) /\ ~ExtractionThrows(policy[p], l)
           /\ policy' = [policy EXCEPT ![p] = Extracted(@, l)]
           /\ rule' = [rule EXCEPT ![p] = 1]
           /\ UNCHANGED <<status, exchange, todo>>
  <2>. DEFINE E == Extracted(policy[p], l)
  <2>1. l.message # NoMessage /\ l.message \in Messages \union {Envelope}
    BY <1>0, <1>4, LayerIssuerType DEF Unwanted
  <2>2. /\ E \in PolicyState /\ Consistent(E) /\ LayerIssuer(l) \in {NoIssuer, E.m_issuer}
        /\ policy[p].m_issuerRole # NoEntity => E.m_issuerRole = policy[p].m_issuerRole
        /\ E.m_authenticated = policy[p].m_authenticated /\ E.m_ts = policy[p].m_ts
        /\ E.m_messageID = Described(policy[p], l).m_messageID
        /\ E.m_issueInstant = Described(policy[p], l).m_issueInstant
    BY <1>0, <1>4, <2>1, ExtractedType
  <2>3. /\ ~Understood(l) => E.m_messageID = NoID
        /\ Understood(l) =>
              l.message \in Messages /\ E.m_messageID = l.message.id /\ E.m_issueInstant = l.message.issued
    BY <1>0, <2>1, <2>2, DescribedType
  <2>4. E.m_authenticated => E.m_issuerRole \in verified[p]
    <3>1. policy[p].m_authenticated => policy[p].m_issuerRole # NoEntity
      BY <1>0, NullAssumption DEF TypeOK
    <3>. QED
      BY <1>0, <2>2, <3>1
  <2>. HIDE DEF E
  <2>5. /\ policy' = [policy EXCEPT ![p] = E] /\ rule' = [rule EXCEPT ![p] = 1]
        /\ status' = status /\ exchange' = exchange /\ todo' = todo
        /\ 1 \in 0 .. Len(Rules) + 1
    BY <1>4, ConfigurationAssumption DEF E
  <2>6. /\ policy' \in [Policies -> PolicyState] /\ rule' \in [Policies -> 0..Len(Rules) + 1]
        /\ policy'[p] = E /\ rule'[p] = 1
    BY <1>0, <2>2, <2>5 DEF TypeOK
  <2>7. ASSUME NEW q \in Policies
        PROVE  PolicyInv(q)'
    <3>1. CASE q = p
      <4>1. /\ JudgesTheIssuer(p)' /\ Knows(p)'
        BY <1>0, <2>2, <2>4, <2>5, <2>6 DEF JudgesTheIssuer, Knows
      <4>2. HasTheMessage(p)'
        BY <1>0, <2>1, <2>3, <2>5, <2>6 DEF HasTheMessage
      <4>. QED
        BY <3>1, <4>1, <4>2 DEF PolicyInv
    <3>2. CASE q # p
      <4>1. /\ policy'[q] = policy[q] /\ rule'[q] = rule[q] /\ PolicyInv(q)
            /\ clock \in Nat /\ clock' = clock
        BY <1>0, <2>5, <3>2 DEF TypeOK, IInv
      <4>. QED
        BY <1>0, <2>5, <4>1, OthersKeep
    <3>. QED
      BY <3>1, <3>2
  <2>. QED
    BY <1>0, <1>1, <2>5, <2>6, <2>7 DEF PoliciesInv, TypeOK
<1>. QED
  BY <1>2, <1>3, <1>4 DEF BeginLayer

LEMMA EndLayerInv ==
    ASSUME IInv, NEW p \in Policies, EndLayer(p)
    PROVE  PoliciesInv' /\ SharedType'
<1>. DEFINE P == IF Len(todo[p]) > 1 THEN _reset(policy[p], TRUE) ELSE policy[p]
<1>0. /\ TypeOK /\ PolicyInv(p) /\ policy[p] \in PolicyState /\ todo[p] \in Seq(Layer)
      /\ status[p] = "busy" /\ todo[p] # <<>>
      /\ Consistent(policy[p]) /\ policy[p].m_ts <= clock
      /\ policy[p].m_authenticated => policy[p].m_issuerRole \in verified[p]
      /\ UNCHANGED <<traffic, status, exchange, clock, replayCache, verified, history>>
  BY DEF IInv, TypeOK, EndLayer, PolicyInv, JudgesTheIssuer, Knows
<1>1. /\ P \in PolicyState /\ P.m_issuer = policy[p].m_issuer /\ P.m_issuerRole = policy[p].m_issuerRole
      /\ P.m_authenticated = policy[p].m_authenticated /\ P.m_ts = policy[p].m_ts
      /\ Tail(todo[p]) # <<>> => P.m_messageID = NoID
  <2>1. Tail(todo[p]) # <<>> => Len(todo[p]) > 1
    BY <1>0
  <2>2. CASE Len(todo[p]) > 1
    <3>1. P = [policy[p] EXCEPT !.m_messageID = NoID, !.m_issueInstant = 0] /\ P \in PolicyState
      BY <1>0, <2>2, ResetType
    <3>. QED
      BY <1>0, <3>1 DEF PolicyState
  <2>3. CASE ~(Len(todo[p]) > 1)
    BY <1>0, <2>1, <2>3
  <2>. QED
    BY <2>2, <2>3
<1>2. Consistent(P)
  BY <1>0, <1>1 DEF Consistent
<1>3. /\ policy' = [policy EXCEPT ![p] = P] /\ todo' = [todo EXCEPT ![p] = Tail(todo[p])]
      /\ rule' = [rule EXCEPT ![p] = 0]
  BY DEF EndLayer
<1>. HIDE DEF P
<1>4. /\ policy' \in [Policies -> PolicyState] /\ rule' \in [Policies -> 0..Len(Rules) + 1]
      /\ todo' \in [Policies -> Seq(Layer)]
      /\ policy'[p] = P /\ rule'[p] = 0 /\ todo'[p] = Tail(todo[p])
  BY <1>0, <1>1, <1>3, ConfigurationAssumption DEF TypeOK
<1>5. ASSUME NEW q \in Policies
      PROVE  PolicyInv(q)'
  <2>1. CASE q = p
    <3>1. JudgesTheIssuer(p)' /\ Knows(p)'
      BY <1>0, <1>1, <1>2, <1>4 DEF JudgesTheIssuer, Knows
    <3>2. HasTheMessage(p)'
      BY <1>1, <1>4 DEF HasTheMessage
    <3>. QED
      BY <2>1, <3>1, <3>2 DEF PolicyInv
  <2>2. CASE q # p
    <3>1. /\ policy'[q] = policy[q] /\ rule'[q] = rule[q] /\ todo'[q] = todo[q] /\ PolicyInv(q)
          /\ clock \in Nat /\ clock' = clock
      BY <1>0, <1>3, <2>2 DEF TypeOK, IInv
    <3>. QED
      BY <1>0, <3>1, OthersKeep
  <2>. QED
    BY <2>1, <2>2
<1>. QED
  BY <1>0, <1>4, <1>5 DEF PoliciesInv, SharedType, TypeOK, history

\* What a rule leaves of the policy when it refuses or lets pass.
LEMMA MessageFlowPolicyInv ==
    ASSUME IInv, NEW p \in Policies, MessageFlowRule(p)
    PROVE  PoliciesInv'
<1>. DEFINE P == [policy[p] EXCEPT !.m_ts = getTime(p)]
<1>0. /\ TypeOK /\ PolicyInv(p) /\ policy[p] \in PolicyState /\ clock \in Nat
      /\ status[p] = "busy" /\ rule[p] \in DOMAIN Rules
      /\ Consistent(policy[p]) /\ policy[p].m_ts <= clock
      /\ policy[p].m_authenticated => policy[p].m_issuerRole \in verified[p]
      /\ UNCHANGED <<traffic, clock, verified>>
      /\ verified' \in [Policies -> SUBSET Known]
      /\ Refuse(p, P) \/ Proceed(p, P)
  BY DEF IInv, TypeOK, MessageFlowRule, Evaluating, PolicyInv, JudgesTheIssuer, Knows
<1>1. getTime(p) \in Nat /\ getTime(p) <= clock
  BY <1>0 DEF getTime, PolicyState
<1>2. /\ P \in PolicyState /\ P.m_issuer = policy[p].m_issuer /\ P.m_issuerRole = policy[p].m_issuerRole
      /\ P.m_authenticated = policy[p].m_authenticated /\ P.m_ts <= clock
      /\ P.m_messageID = policy[p].m_messageID /\ P.m_issueInstant = policy[p].m_issueInstant
  BY <1>0, <1>1 DEF PolicyState
<1>. HIDE DEF P
<1>3. Consistent(P) /\ (P.m_authenticated => P.m_issuerRole \in verified[p])
  BY <1>0, <1>2 DEF Consistent
<1>4. CASE Refuse(p, P)
  <2>1. End(p, P, "refused")
    BY <1>4 DEF Refuse
  <2>. QED
    BY <1>0, <1>2, <1>3, <2>1, EndInv
<1>5. CASE Proceed(p, P)
  BY <1>0, <1>2, <1>3, <1>5, ProceedInv
<1>. QED
  BY <1>0, <1>4, <1>5

LEMMA AuthenticatingInv ==
    ASSUME IInv, NEW p \in Policies, NEW type, AuthenticatingRule(p, type)
    PROVE  PoliciesInv' /\ SharedType'
<1>. DEFINE role == policy[p].m_issuerRole
            P == [policy[p] EXCEPT !.m_authenticated = TRUE]
<1>0. /\ TypeOK /\ PolicyInv(p) /\ policy[p] \in PolicyState /\ clock \in Nat
      /\ status[p] = "busy" /\ rule[p] \in DOMAIN Rules
      /\ Consistent(policy[p]) /\ policy[p].m_ts <= clock
      /\ policy[p].m_authenticated => policy[p].m_issuerRole \in verified[p]
      /\ UNCHANGED <<traffic, clock, replayCache, history>>
      /\ verified \in [Policies -> SUBSET Known]
  BY DEF IInv, TypeOK, AuthenticatingRule, Evaluating, PolicyInv, JudgesTheIssuer, Knows
<1>1. CASE Refuse(p, policy[p]) /\ UNCHANGED verified
  BY <1>0, <1>1, OverInv DEF Refuse
<1>2. CASE Proceed(p, policy[p]) /\ UNCHANGED verified
  <2>1. PoliciesInv'
    BY <1>0, <1>2, ProceedInv
  <2>. QED
    BY <1>0, <1>2, <2>1 DEF SharedType, TypeOK, history
<1>3. CASE /\ role # NoEntity /\ Proceed(p, P)
           /\ verified' = [verified EXCEPT ![p] = @ \union {role}]
  <2>1. role \in Known
    BY <1>0, <1>3 DEF PolicyState
  <2>2. /\ verified' \in [Policies -> SUBSET Known] /\ role \in verified'[p]
        /\ \A q \in Policies \ {p} : verified'[q] = verified[q]
    BY <1>0, <1>3, <2>1
  <2>3. /\ P \in PolicyState /\ P.m_issuer = policy[p].m_issuer /\ P.m_issuerRole = role
        /\ P.m_ts = policy[p].m_ts
        /\ P.m_messageID = policy[p].m_messageID /\ P.m_issueInstant = policy[p].m_issueInstant
    BY <1>0 DEF PolicyState
  <2>. HIDE DEF P
  <2>4. PoliciesInv'
    BY <1>0, <1>3, <2>2, <2>3, ProceedInv
  <2>. QED
    BY <1>0, <2>2, <2>4 DEF SharedType, TypeOK, history
<1>. QED
  BY <1>1, <1>2, <1>3 DEF AuthenticatingRule

LEMMA NextPolicyInv ==
    ASSUME IInv, NEW p \in Policies, Renew(p) \/ Reset(p)
    PROVE  PoliciesInv' /\ SharedType'
<1>. DEFINE P == IF Renew(p) THEN NewPolicy ELSE _reset(policy[p], FALSE)
<1>0. /\ TypeOK /\ policy[p] \in PolicyState /\ policy[p].m_ts <= clock /\ clock \in Nat
      /\ verified \in [Policies -> SUBSET Known]
  BY DEF IInv, TypeOK, PolicyInv, Knows
<1>1. /\ P \in PolicyState /\ Consistent(P) /\ P.m_authenticated = FALSE /\ P.m_messageID = NoID
      /\ P.m_ts <= clock
  <2>1. CASE Renew(p)
    BY <1>0, <2>1, NewPolicyType
  <2>2. CASE ~Renew(p)
    <3>1. P \in PolicyState /\ P = [NewPolicy EXCEPT !.m_ts = policy[p].m_ts]
      BY <1>0, <2>2, ResetType
    <3>. QED
      BY <1>0, <3>1 DEF NewPolicy, Consistent
  <2>. QED
    BY <2>1, <2>2
<1>2. NextPolicy(p, P)
  BY DEF Renew, Reset
<1>. HIDE DEF P
<1>3. /\ Start(p, P, "fresh", NoExchange, <<>>) /\ verified' = [verified EXCEPT ![p] = {}]
      /\ NoExchange \in Exchange /\ <<>> \in Seq(Layer) /\ "fresh" \in Statuses
      /\ UNCHANGED <<traffic, clock, replayCache, history>>
  BY <1>2, NoExchangeType, EmptyLayers DEF NextPolicy, End, Statuses
<1>4. /\ verified' \in [Policies -> SUBSET Known]
      /\ \A q \in Policies \ {p} : verified'[q] = verified[q]
  BY <1>0, <1>3
<1>5. PoliciesInv'
  BY <1>1, <1>3, <1>4, StartInv
<1>. QED
  BY <1>0, <1>3, <1>4, <1>5 DEF SharedType, TypeOK, history

LEMMA TickInv ==
    ASSUME IInv, Tick
    PROVE  PoliciesInv' /\ SharedType'
<1>0. /\ TypeOK /\ clock \in Nat /\ clock' = clock + 1 /\ clock' \in Nat /\ clock <= clock'
      /\ UNCHANGED <<traffic, policy, status, exchange, todo, rule, verified, history>>
  BY DEF IInv, TypeOK, Tick
<1>1. ASSUME NEW q \in Policies
      PROVE  PolicyInv(q)'
  BY <1>0, OthersKeep DEF IInv
<1>2. replayCache' \subseteq CacheRecord
  BY <1>0 DEF Tick, TypeOK
<1>. QED
  BY <1>0, <1>1, <1>2 DEF PoliciesInv, SharedType, TypeOK, history

-----------------------------------------------------------------------------
(* The replay cache *)

LEMMA DeadlineType ==
    ASSUME NEW m \in Messages
    PROVE  Deadline(m) \in Nat
BY MessageType, ConfigurationAssumption DEF Deadline

\* A message that would pass again before its last second is recorded.
LEMMA PassedIsRecorded ==
    ASSUME IInv, NEW m \in passed, clock < Deadline(m)
    PROVE  Recorded(m.id)
<1>1. PICK r \in replayCache : r.key = m.id /\ r.expires >= Deadline(m)
  BY DEF IInv, Remembered
<1>2. clock \in Nat /\ Deadline(m) \in Nat /\ r.expires \in Nat
  BY DeadlineType DEF IInv, TypeOK, CacheRecord
<1>. QED
  BY <1>1, <1>2 DEF Recorded, Shows

LEMMA RememberedKept ==
    ASSUME IInv, UNCHANGED <<replayCache, clock, history>>
    PROVE  Remembered' /\ NoTimelyReplay'
BY DEF IInv, Remembered, NoTimelyReplay, history

\* An artifact is no message ID.
LEMMA RememberedArtifact ==
    ASSUME IInv, NEW a \in ArtifactKeys, NEW until, Remember(a, until), UNCHANGED <<clock, history>>
    PROVE  Remembered' /\ NoTimelyReplay'
<1>1. ASSUME NEW m \in passed, clock < Deadline(m)
      PROVE  \E r \in replayCache' : r.key = m.id /\ r.expires >= Deadline(m)
  <2>1. PICK r \in replayCache : r.key = m.id /\ r.expires >= Deadline(m)
    BY <1>1 DEF IInv, Remembered
  <2>2. m.id # a
    BY MessageType, NullAssumption DEF IInv, TypeOK
  <2>. QED
    BY <2>1, <2>2 DEF Remember
<1>. QED
  BY <1>1 DEF IInv, Remembered, NoTimelyReplay, history

LEMMA RememberedTick ==
    ASSUME IInv, Tick
    PROVE  Remembered' /\ NoTimelyReplay'
<1>1. ASSUME NEW m \in passed, clock' < Deadline(m)
      PROVE  \E r \in replayCache' : r.key = m.id /\ r.expires >= Deadline(m)
  <2>1. /\ clock \in Nat /\ clock' = clock + 1 /\ Deadline(m) \in Nat
        /\ replayCache' = {r \in replayCache : Shows(r, clock')}
        /\ \A r \in replayCache : r.expires \in Nat
    BY DeadlineType DEF IInv, TypeOK, Tick, CacheRecord
  <2>2. PICK r \in replayCache : r.key = m.id /\ r.expires >= Deadline(m)
    BY <1>1, <2>1 DEF IInv, Remembered
  <2>3. Shows(r, clock')
    BY <1>1, <2>1, <2>2 DEF Shows
  <2>. QED
    BY <2>1, <2>2, <2>3
<1>. QED
  BY <1>1 DEF IInv, Remembered, NoTimelyReplay, Tick, history

LEMMA MessageFlowInv ==
    ASSUME IInv, NEW p \in Policies, MessageFlowRule(p)
    PROVE  SharedType' /\ Remembered' /\ NoTimelyReplay'
<1>. DEFINE now == getTime(p)
            m == Head(todo[p]).message
<1>0. /\ TypeOK /\ PolicyInv(p) /\ policy[p] \in PolicyState /\ clock \in Nat
      /\ status[p] = "busy" /\ todo[p] # <<>> /\ rule[p] > 0 /\ policy[p].m_ts <= clock
      /\ UNCHANGED <<traffic, clock, verified>>
  <2>1. rule[p] \in 1 .. Len(Rules)
    BY ConfigurationAssumption DEF MessageFlowRule, Evaluating
  <2>. QED
    BY <2>1, ConfigurationAssumption DEF IInv, TypeOK, MessageFlowRule, Evaluating, PolicyInv, Knows
<1>1. now \in Nat /\ now <= clock
  BY <1>0 DEF getTime, PolicyState
<1>2. CASE UNCHANGED <<replayCache, history>>
  <2>1. Remembered' /\ NoTimelyReplay'
    BY <1>0, <1>2, RememberedKept
  <2>. QED
    BY <1>0, <1>2, <2>1 DEF SharedType, TypeOK, history
<1>3. CASE ~UNCHANGED <<replayCache, history>>
  <2>1. /\ InWindow(policy[p].m_issueInstant, now) /\ policy[p].m_messageID # NoID
        /\ ~Recorded(policy[p].m_messageID)
        /\ Remember(policy[p].m_messageID, RememberUntil(policy[p].m_issueInstant, now))
        /\ passed' = passed \union {m}
        /\ replayed' = IF m \notin passed THEN replayed
                       ELSE replayed \union {[late |-> now < clock, last |-> clock = Deadline(m)]}
    BY <1>0, <1>3 DEF MessageFlowRule, PolicyState
  <2>2. /\ m \in Messages /\ policy[p].m_messageID = m.id /\ policy[p].m_issueInstant = m.issued
    BY <1>0, <2>1 DEF PolicyInv, HasTheMessage
  <2>3. /\ m.id \in IDs /\ m.issued \in Nat /\ m.issued # 0 /\ Skew \in Nat /\ Expires \in Nat
        /\ Deadline(m) \in Nat /\ Deadline(m) = m.issued + Skew + Expires
    BY <2>2, MessageType, DeadlineType, ConfigurationAssumption DEF Deadline
  <2>. HIDE DEF m, now
  <2>4. Remember(m.id, Deadline(m)) /\ ~Recorded(m.id)
    BY <2>1, <2>2, <2>3 DEF RememberUntil
  <2>5. SharedType'
    <3>1. replayCache' \subseteq CacheRecord
      BY <1>0, <2>3, <2>4, RememberType
    <3>2. [late |-> now < clock, last |-> clock = Deadline(m)] \in [late : BOOLEAN, last : BOOLEAN]
      <4>1. (now < clock) \in BOOLEAN /\ (clock = Deadline(m)) \in BOOLEAN
        OBVIOUS
      <4>. QED
        BY <4>1
    <3>. HIDE DEF Deadline
    <3>3. passed' \subseteq Messages
      BY <1>0, <2>1, <2>2 DEF TypeOK
    <3>4. replayed' \subseteq [late : BOOLEAN, last : BOOLEAN]
      BY <1>0, <2>1, <3>2 DEF TypeOK
    <3>. QED
      BY <1>0, <3>1, <3>3, <3>4 DEF SharedType, TypeOK
  <2>6. ASSUME NEW n \in passed', clock < Deadline(n)
        PROVE  \E r \in replayCache' : r.key = n.id /\ r.expires >= Deadline(n)
    <3>1. CASE n = m
      <4>1. [key |-> m.id, expires |-> Deadline(m)] \in replayCache'
        BY <2>4 DEF Remember
      <4>. QED
        BY <2>3, <3>1, <4>1
    <3>2. CASE n # m
      <4>1. n \in passed
        BY <2>1, <3>2
      <4>2. n.id # m.id
        BY <2>4, <2>6, <4>1, PassedIsRecorded
      <4>3. PICK r \in replayCache : r.key = n.id /\ r.expires >= Deadline(n)
        BY <2>6, <4>1 DEF IInv, Remembered
      <4>. QED
        BY <2>4, <4>2, <4>3 DEF Remember
    <3>. QED
      BY <3>1, <3>2
  <2>7. NoTimelyReplay'
    <3>1. m \in passed => now < clock \/ clock = Deadline(m)
      <4>1. CASE m \in passed /\ now = clock
        <5>1. clock <= Deadline(m)
          BY <1>0, <2>1, <2>2, <2>3, <4>1 DEF InWindow
        <5>2. ~(clock < Deadline(m))
          BY <2>4, <4>1, PassedIsRecorded
        <5>. QED
          BY <1>0, <2>3, <5>1, <5>2
      <4>. QED
        BY <1>0, <1>1, <4>1
    <3>2. CASE m \notin passed
      BY <2>1, <3>2 DEF IInv, NoTimelyReplay
    <3>3. CASE m \in passed
      <4>1. ASSUME NEW r \in replayed'
            PROVE  r.late \/ r.last
        <5>1. CASE r \in replayed
          BY <5>1 DEF IInv, NoTimelyReplay
        <5>2. CASE r = [late |-> now < clock, last |-> clock = Deadline(m)]
          <6>1. CASE now < clock
            BY <5>2, <6>1
          <6>2. CASE clock = Deadline(m)
            BY <5>2, <6>2
          <6>. QED
            BY <3>1, <3>3, <6>1, <6>2
        <5>. QED
          BY <2>1, <3>3, <4>1, <5>1, <5>2
      <4>. QED
        BY <4>1 DEF NoTimelyReplay
    <3>. QED
      BY <3>2, <3>3
  <2>. QED
    BY <1>0, <2>5, <2>6, <2>7 DEF Remembered, Deadline
<1>. QED
  BY <1>2, <1>3

-----------------------------------------------------------------------------
(* The theorems *)

LEMMA InvariantInit == Init => IInv
<1>. SUFFICES ASSUME Init
     PROVE  IInv
  OBVIOUS
<1>1. TypeOK
  BY NewPolicyType, NoExchangeType, EmptyLayers, ConfigurationAssumption DEF Init, TypeOK, Statuses
<1>2. \A p \in Policies : PolicyInv(p)
  BY NewPolicyType DEF Init, PolicyInv, JudgesTheIssuer, Knows, HasTheMessage
<1>. QED
  BY <1>1, <1>2 DEF Init, IInv, Remembered, NoTimelyReplay

LEMMA InvariantStep ==
    ASSUME IInv, [Next]_vars
    PROVE  IInv'
<1>. SUFFICES PoliciesInv' /\ SharedType' /\ Remembered' /\ NoTimelyReplay'
  BY DEF IInv, TypeOK, PoliciesInv, SharedType
<1>0. traffic.requests \subseteq Requests /\ traffic.replies \subseteq Replies
  BY ThreadAssumption DEF IInv, TypeOK
<1>1. ASSUME NEW p \in Policies, NEW r \in traffic.requests, Decode(p, r)
      PROVE  PoliciesInv' /\ SharedType' /\ Remembered' /\ NoTimelyReplay'
  BY <1>0, <1>1, DecodeInv, RememberedKept DEF Decode
<1>2. ASSUME NEW p \in Policies, NEW r \in traffic.requests, DecodeArtifact(p, r)
      PROVE  PoliciesInv' /\ SharedType' /\ Remembered' /\ NoTimelyReplay'
  BY <1>0, <1>2, DecodeArtifactInv, RememberedKept DEF DecodeArtifact
<1>3. ASSUME NEW p \in Policies, NEW peer \in Known, NEW version \in {1, 2}, Query(p, peer, version)
      PROVE  PoliciesInv' /\ SharedType' /\ Remembered' /\ NoTimelyReplay'
  BY <1>3, QueryInv, RememberedKept DEF Query
<1>4. ASSUME NEW p \in Policies, NEW a \in traffic.replies, Answer(p, a)
      PROVE  PoliciesInv' /\ SharedType' /\ Remembered' /\ NoTimelyReplay'
  BY <1>0, <1>4, AnswerInv, RememberedKept DEF Answer
<1>5. ASSUME NEW p \in Policies, NoAnswer(p)
      PROVE  PoliciesInv' /\ SharedType' /\ Remembered' /\ NoTimelyReplay'
  BY <1>5, OverInv, RememberedKept DEF NoAnswer
<1>6. ASSUME NEW p \in Policies, BeginLayer(p)
      PROVE  PoliciesInv' /\ SharedType' /\ Remembered' /\ NoTimelyReplay'
  BY <1>6, BeginLayerInv, RememberedKept DEF BeginLayer
<1>7. ASSUME NEW p \in Policies, EndLayer(p)
      PROVE  PoliciesInv' /\ SharedType' /\ Remembered' /\ NoTimelyReplay'
  BY <1>7, EndLayerInv, RememberedKept DEF EndLayer
<1>8. ASSUME NEW p \in Policies, MessageFlowRule(p)
      PROVE  PoliciesInv' /\ SharedType' /\ Remembered' /\ NoTimelyReplay'
  BY <1>8, MessageFlowPolicyInv, MessageFlowInv
<1>9. ASSUME NEW p \in Policies, SimpleSigningRule(p) \/ XMLSigningRule(p) \/ ClientCertAuthRule(p)
      PROVE  PoliciesInv' /\ SharedType' /\ Remembered' /\ NoTimelyReplay'
  <2>1. PICK type \in RuleTypes : AuthenticatingRule(p, type)
    BY <1>9 DEF SimpleSigningRule, XMLSigningRule, ClientCertAuthRule, RuleTypes
  <2>2. UNCHANGED <<replayCache, clock, history>>
    BY <2>1 DEF AuthenticatingRule
  <2>. QED
    BY <2>1, <2>2, AuthenticatingInv, RememberedKept
<1>10. ASSUME NEW p \in Policies, Finish(p)
       PROVE  PoliciesInv' /\ SharedType' /\ Remembered' /\ NoTimelyReplay'
  BY <1>10, OverInv, RememberedKept DEF Finish
<1>11. ASSUME NEW p \in Policies, Renew(p) \/ Reset(p)
       PROVE  PoliciesInv' /\ SharedType' /\ Remembered' /\ NoTimelyReplay'
  <2>1. UNCHANGED <<replayCache, clock, history>>
    BY <1>11 DEF Renew, Reset, NextPolicy
  <2>. QED
    BY <1>11, <2>1, NextPolicyInv, RememberedKept
<1>12. CASE Tick
  BY <1>12, TickInv, RememberedTick
<1>13. ASSUME NEW p \in Policies, CheckArtifact(p)
       PROVE  PoliciesInv' /\ SharedType' /\ Remembered' /\ NoTimelyReplay'
  <2>1. /\ PoliciesInv' /\ SharedType' /\ UNCHANGED <<clock, history>>
        /\ \/ UNCHANGED replayCache
           \/ \E a \in ArtifactKeys : Remember(a, clock + 2 * Skew)
    BY <1>13, CheckArtifactInv
  <2>2. CASE UNCHANGED replayCache
    BY <2>1, <2>2, RememberedKept
  <2>3. CASE \E a \in ArtifactKeys : Remember(a, clock + 2 * Skew)
    BY <2>1, <2>3, RememberedArtifact
  <2>. QED
    BY <2>1, <2>2, <2>3
<1>14. ASSUME NEW p \in Policies, Resolve(p)
       PROVE  PoliciesInv' /\ SharedType' /\ Remembered' /\ NoTimelyReplay'
  BY <1>14, ResolveInv, RememberedKept DEF Resolve
<1>15. ASSUME NEW p \in Policies, ErrorStatus(p)
       PROVE  PoliciesInv' /\ SharedType' /\ Remembered' /\ NoTimelyReplay'
  BY <1>15, OverInv, RememberedKept DEF ErrorStatus, Refuse
<1>16. CASE UNCHANGED vars
  <2>1. Remembered' /\ NoTimelyReplay'
    BY <1>16, RememberedKept DEF vars, history
  <2>2. ASSUME NEW q \in Policies
        PROVE  PolicyInv(q)'
    <3>1. clock' \in Nat /\ clock <= clock'
      BY <1>16 DEF vars, IInv, TypeOK
    <3>. QED
      BY <1>16, <3>1, OthersKeep DEF vars, IInv
  <2>. QED
    BY <1>16, <2>1, <2>2 DEF vars, IInv, TypeOK, PoliciesInv, SharedType, history
<1>. QED
  BY <1>1, <1>2, <1>3, <1>4, <1>5, <1>6, <1>7, <1>8, <1>9, <1>10, <1>11, <1>12, <1>13,
     <1>14, <1>15, <1>16 DEF Next

\* Whatever the network delivers to any number of threads, in any order, every
\* policy keeps to its issuer and its message, and the replay cache remembers.
THEOREM InvariantCorrect == Spec => []IInv
<1>1. IInv /\ [Next]_vars => IInv'
  BY InvariantStep
<1>. QED
  BY InvariantInit, <1>1, PTL DEF Spec

\* Every variable keeps its type; above all, the metadata in a policy are of a
\* peer that is known.
THEOREM TypeCorrect == Spec => []TypeOK
<1>1. IInv => TypeOK
  BY DEF IInv
<1>. QED
  BY InvariantCorrect, <1>1, PTL

\* The rules judge every layer by the issuer it names and by that issuer's
\* metadata.
THEOREM IssuerJudged == Spec => []RulesJudgeTheIssuer
<1>1. IInv => RulesJudgeTheIssuer
  BY DEF IInv, PolicyInv, JudgesTheIssuer, Consistent, RulesJudgeTheIssuer
<1>. QED
  BY InvariantCorrect, <1>1, PTL

\* An authenticated policy holds the metadata of a peer whose credentials were
\* verified in the same exchange.
THEOREM PeerAuthenticated == Spec => []AuthenticatedByIssuer
<1>1. IInv => AuthenticatedByIssuer
  BY DEF IInv, PolicyInv, Knows, AuthenticatedByIssuer
<1>. QED
  BY InvariantCorrect, <1>1, PTL

\* A message passes the replay check once, but for the second in which its
\* record expires and for policies whose time has fallen behind.
THEOREM ReplaysStopped == Spec => []NoTimelyReplay
<1>1. IInv => NoTimelyReplay
  BY DEF IInv
<1>. QED
  BY InvariantCorrect, <1>1, PTL
=============================================================================
