---------------------------- MODULE SAML2Protocols ----------------------------
(*****************************************************************************)
(* The XML object classes of saml/saml2/core: the SAML 2.0 protocol. For     *)
(* each class: its interface (the declarations of the header), its           *)
(* implementation (the slots, fences, copies and reads of its Impl class),   *)
(* and what its schema validator demands.                                    *)
(*****************************************************************************)
EXTENDS XMLElementClasses

Schema == INSTANCE SAML2Schemas
saml2 == INSTANCE SAML2Assertions

-----------------------------------------------------------------------------
(* Interfaces.                                                               *)
Asynchronous == XMLObject
Extensions == ElementExtensibleXMLObject
RequestAbstractType ==
  Inherits({SignableObject}, Has({"Extensions", "Issuer"}, {}, {"Consent",
    "Destination", "ID", "IssueInstant", "Version"}))
StatusCode == Has({"StatusCode"}, {}, {"Value"})
StatusDetail == ElementExtensibleXMLObject
Status == Has({"StatusCode", "StatusDetail", "StatusMessage"}, {}, {})
StatusResponseType ==
  Inherits({SignableObject}, Has({"Extensions", "Issuer", "Status"}, {},
    {"Consent", "Destination", "ID", "InResponseTo", "IssueInstant",
    "Version"}))
AssertionIDRequest ==
  Inherits({RequestAbstractType}, Has({}, {"AssertionIDRef"}, {}))
SubjectQuery == Inherits({RequestAbstractType}, Has({"Subject"}, {}, {}))
RequestedAuthnContext ==
  Has({}, {"AuthnContextClassRef", "AuthnContextDeclRef"}, {"Comparison"})
AuthnQuery ==
  Inherits({SubjectQuery}, Has({"RequestedAuthnContext"}, {},
    {"SessionIndex"}))
AttributeQuery == Inherits({SubjectQuery}, Has({}, {"Attribute"}, {}))
AuthzDecisionQuery ==
  Inherits({SubjectQuery}, Has({"Evidence"}, {"Action"}, {"Resource"}))
NameIDPolicy == Has({}, {}, {"AllowCreate", "Format", "SPNameQualifier"})
IDPEntry == Has({}, {}, {"Loc", "Name", "ProviderID"})
IDPList == Has({"GetComplete"}, {"IDPEntry"}, {})
Scoping == Has({"IDPList"}, {"RequesterID"}, {"ProxyCount"})
AuthnRequest ==
  Inherits({RequestAbstractType}, Has({"Conditions", "NameIDPolicy",
    "RequestedAuthnContext", "Scoping", "Subject"}, {},
    {"AssertionConsumerServiceIndex", "AssertionConsumerServiceURL",
    "AttributeConsumingServiceIndex", "ForceAuthn", "IsPassive",
    "ProtocolBinding", "ProviderName"}))
Response ==
  Inherits({StatusResponseType}, Has({}, {"Assertion",
    "EncryptedAssertion"}, {}))
ArtifactResolve == Inherits({RequestAbstractType}, Has({"Artifact"}, {}, {}))
ArtifactResponse == Inherits({StatusResponseType}, Has({"Payload"}, {}, {}))
Terminate == XMLObject
NewID == Has({}, {}, {"TextContent"})
NewEncryptedID == saml2!EncryptedElementType
ManageNameIDRequest ==
  Inherits({RequestAbstractType}, Has({"EncryptedID", "NameID",
    "NewEncryptedID", "NewID", "Terminate"}, {}, {}))
ManageNameIDResponse == StatusResponseType
LogoutRequest ==
  Inherits({RequestAbstractType}, Has({"BaseID", "EncryptedID", "NameID"},
    {"SessionIndex"}, {"NotOnOrAfter", "Reason"}))
LogoutResponse == StatusResponseType
NameIDMappingRequest ==
  Inherits({RequestAbstractType}, Has({"BaseID", "EncryptedID", "NameID",
    "NameIDPolicy"}, {}, {}))
NameIDMappingResponse ==
  Inherits({StatusResponseType}, Has({"EncryptedID", "NameID"}, {}, {}))
SimpleElements ==
  {"Artifact", "GetComplete", "RequesterID", "RespondTo", "SessionIndex",
    "StatusMessage"}

-----------------------------------------------------------------------------
(* Implementations.                                                          *)
AsynchronousImpl == Leaf(Attrs({}))
ExtensionsImpl ==
  Complex(
    <<>>, AtEnd({"UnknownXMLObject"}), Each(<<"UnknownXMLObject">>),
    Foreign(SAML20P_NS), Attrs({}))
StatusCodeImpl ==
  Complex(
    <<"StatusCode">>, {}, Each(<<"StatusCode">>),
    Named(SAML20P_NS, <<"StatusCode">>), Attrs({"Value"}))
StatusDetailImpl ==
  Complex(
    <<>>, AtEnd({"UnknownXMLObject"}), Each(<<"UnknownXMLObject">>),
    AnyChild("UnknownXMLObject"), Attrs({}))
StatusImpl ==
  Complex(
    <<"StatusCode", "StatusMessage", "StatusDetail">>, {},
    Each(<<"StatusCode", "StatusMessage", "StatusDetail">>),
    Named(SAML20P_NS, <<"StatusCode", "StatusMessage", "StatusDetail">>),
    Attrs({}))
RequestAbstractTypeImpl ==
  Complex(
    <<"Issuer", "Signature", "Extensions">>, {},
    Each(<<"Issuer", "Signature", "Extensions">>),
    Named(SAML20_NS, <<"Issuer">>) \o Named(XMLSIG_NS, <<"Signature">>) \o
      Named(SAML20P_NS, <<"Extensions">>),
    Filling({"Consent", "Destination", "ID", "IssueInstant", "Version"},
      {"ID", "IssueInstant", "Version"}))
AssertionIDRequestImpl ==
  Derive(RequestAbstractTypeImpl, Complex(
    <<>>, AtEnd({"AssertionIDRef"}), Each(<<"AssertionIDRef">>),
    Named(SAML20_NS, <<"AssertionIDRef">>), Attrs({})))
SubjectQueryImpl ==
  Derive(RequestAbstractTypeImpl, Complex(
    <<"Subject">>, {}, Each(<<"Subject">>), Named(SAML20_NS, <<"Subject">>),
    Attrs({})))
RequestedAuthnContextImpl ==
  Complex(
    <<>>, AtEnd({"AuthnContextClassRef", "AuthnContextDeclRef"}),
    Bag(<<"AuthnContextClassRef", "AuthnContextDeclRef">>),
    Named(SAML20_NS, <<"AuthnContextClassRef", "AuthnContextDeclRef">>),
    Attrs({"Comparison"}))
AuthnQueryImpl ==
  Derive(SubjectQueryImpl, Complex(
    <<"RequestedAuthnContext">>, {}, Each(<<"RequestedAuthnContext">>),
    Named(SAML20P_NS, <<"RequestedAuthnContext">>), Attrs({"SessionIndex"})))
AttributeQueryImpl ==
  Derive(SubjectQueryImpl, Complex(
    <<>>, AtEnd({"Attribute"}), Each(<<"Attribute">>),
    Named(SAML20_NS, <<"Attribute">>), Attrs({})))
AuthzDecisionQueryImpl ==
  Derive(SubjectQueryImpl, Complex(
    <<"Evidence">>, Before("Evidence", {"Action"}),
    Each(<<"Evidence", "Action">>), Named(SAML20_NS, <<"Evidence", "Action">>),
    Attrs({"Resource"})))
NameIDPolicyImpl == Leaf(Attrs({"AllowCreate", "Format", "SPNameQualifier"}))
IDPEntryImpl == Leaf(Attrs({"Loc", "Name", "ProviderID"}))
IDPListImpl ==
  Complex(
    <<"GetComplete">>, Before("GetComplete", {"IDPEntry"}),
    Each(<<"GetComplete", "IDPEntry">>),
    Named(SAML20P_NS, <<"IDPEntry", "GetComplete">>), Attrs({}))
ScopingImpl ==
  Complex(
    <<"IDPList">>, AtEnd({"RequesterID"}), Each(<<"IDPList", "RequesterID">>),
    Named(SAML20P_NS, <<"IDPList", "RequesterID">>), Attrs({"ProxyCount"}))
AuthnRequestImpl ==
  Derive(RequestAbstractTypeImpl, Complex(
    <<"Subject", "NameIDPolicy", "Conditions", "RequestedAuthnContext",
      "Scoping">>, {},
    Each(<<"Subject", "NameIDPolicy", "Conditions", "RequestedAuthnContext",
      "Scoping">>),
    Named(SAML20_NS, <<"Subject">>) \o Named(SAML20P_NS, <<"NameIDPolicy">>)
      \o Named(SAML20_NS, <<"Conditions">>) \o Named(SAML20P_NS,
      <<"RequestedAuthnContext", "Scoping">>),
    Attrs({"AssertionConsumerServiceIndex", "AssertionConsumerServiceURL",
      "AttributeConsumingServiceIndex", "ForceAuthn", "IsPassive",
      "ProtocolBinding", "ProviderName"})))
StatusResponseTypeImpl ==
  Complex(
    <<"Issuer", "Signature", "Extensions", "Status">>, {},
    Each(<<"Issuer", "Signature", "Extensions", "Status">>),
    Named(SAML20_NS, <<"Issuer">>) \o Named(XMLSIG_NS, <<"Signature">>) \o
      Named(SAML20P_NS, <<"Extensions", "Status">>),
    Filling({"Consent", "Destination", "ID", "InResponseTo", "IssueInstant",
      "Version"}, {"ID", "IssueInstant", "Version"}))
ResponseImpl ==
  Derive(StatusResponseTypeImpl, Complex(
    <<>>, AtEnd({"Assertion", "EncryptedAssertion"}),
    Bag(<<"Assertion", "EncryptedAssertion">>),
    Named(SAML20_NS, <<"Assertion", "EncryptedAssertion">>), Attrs({})))
ArtifactResolveImpl ==
  Derive(RequestAbstractTypeImpl, Complex(
    <<"Artifact">>, {}, Each(<<"Artifact">>), Named(SAML20P_NS, <<"Artifact">>),
    Attrs({})))
ArtifactResponseImpl ==
  Derive(StatusResponseTypeImpl, Complex(
    <<"Payload">>, {}, Each(<<"Payload">>),
    Except("Payload", {"Issuer", "Signature", "Extensions", "Status"}),
    Attrs({})))
NewEncryptedIDImpl ==
  Complex(
    <<"EncryptedData">>, AtEnd({"EncryptedKey"}),
    Each(<<"EncryptedData", "EncryptedKey">>),
    Named(XMLENC_NS, <<"EncryptedData", "EncryptedKey">>), Attrs({}))
TerminateImpl == Leaf(Attrs({}))
ManageNameIDRequestImpl ==
  Derive(RequestAbstractTypeImpl, Complex(
    <<"NameID", "EncryptedID", "NewID", "NewEncryptedID", "Terminate">>, {},
    Each(<<"NameID", "EncryptedID", "NewID", "NewEncryptedID", "Terminate">>),
    Named(SAML20_NS, <<"NameID", "EncryptedID">>) \o Named(SAML20P_NS,
      <<"NewID", "NewEncryptedID", "Terminate">>), Attrs({})))
ManageNameIDResponseImpl == StatusResponseTypeImpl
LogoutRequestImpl ==
  Derive(RequestAbstractTypeImpl, Complex(
    <<"BaseID", "NameID", "EncryptedID">>, AtEnd({"SessionIndex"}),
    Each(<<"BaseID", "NameID", "EncryptedID", "SessionIndex">>),
    Named(SAML20_NS, <<"BaseID", "NameID", "EncryptedID">>) \o
      Named(SAML20P_NS, <<"SessionIndex">>), Attrs({"NotOnOrAfter", "Reason"})))
LogoutResponseImpl == StatusResponseTypeImpl
NameIDMappingRequestImpl ==
  Derive(RequestAbstractTypeImpl, Complex(
    <<"BaseID", "NameID", "EncryptedID", "NameIDPolicy">>, {},
    Each(<<"BaseID", "NameID", "EncryptedID", "NameIDPolicy">>),
    Named(SAML20_NS, <<"BaseID", "NameID", "EncryptedID">>) \o
      Named(SAML20P_NS, <<"NameIDPolicy">>), Attrs({})))
NameIDMappingResponseImpl ==
  Derive(StatusResponseTypeImpl, Complex(
    <<"NameID", "EncryptedID">>, {}, Each(<<"NameID", "EncryptedID">>),
    Named(SAML20_NS, <<"NameID", "EncryptedID">>), Attrs({})))
SimpleElementImpl == Leaf(Attrs({"TextContent"}))
NewIDImpl == SimpleElementImpl

-----------------------------------------------------------------------------
(* The other families' elements that occur here.                             *)
Imported ==
  [Action |-> SAML20_NS, Assertion |-> SAML20_NS,
    AssertionIDRef |-> SAML20_NS, Attribute |-> SAML20_NS,
    AuthnContextClassRef |-> SAML20_NS, AuthnContextDeclRef |-> SAML20_NS,
    BaseID |-> SAML20_NS, Conditions |-> SAML20_NS,
    EncryptedAssertion |-> SAML20_NS, EncryptedData |-> XMLENC_NS,
    EncryptedID |-> SAML20_NS, EncryptedKey |-> XMLENC_NS,
    Evidence |-> SAML20_NS, Foreign |-> OTHER_NS, Issuer |-> SAML20_NS,
    NameID |-> SAML20_NS, Signature |-> XMLSIG_NS, Subject |-> SAML20_NS]

(* What the application may build: the classes with a builder, and the rest. *)
Classes ==
  [Asynchronous |-> Class(Asynchronous, AsynchronousImpl, Schema!TerminateType),
   Extensions |-> Class(Extensions, ExtensionsImpl, Schema!ExtensionsType),
   RequestAbstractType |->
     Class(RequestAbstractType, RequestAbstractTypeImpl, Schema!RequestAbstractType),
   StatusCode |-> Class(StatusCode, StatusCodeImpl, Schema!StatusCodeType),
   StatusDetail |->
     Class(StatusDetail, StatusDetailImpl, Schema!StatusDetailType),
   Status |-> Class(Status, StatusImpl, Schema!StatusType),
   StatusResponseType |->
     Class(StatusResponseType, StatusResponseTypeImpl, Schema!StatusResponseType),
   AssertionIDRequest |->
     Class(AssertionIDRequest, AssertionIDRequestImpl, Schema!AssertionIDRequestType),
   SubjectQuery |->
     Class(SubjectQuery, SubjectQueryImpl, Schema!SubjectQueryAbstractType),
   RequestedAuthnContext |->
     Class(RequestedAuthnContext, RequestedAuthnContextImpl,
           Schema!RequestedAuthnContextType),
   AuthnQuery |-> Class(AuthnQuery, AuthnQueryImpl, Schema!AuthnQueryType),
   AttributeQuery |->
     Class(AttributeQuery, AttributeQueryImpl, Schema!AttributeQueryType),
   AuthzDecisionQuery |->
     Class(AuthzDecisionQuery, AuthzDecisionQueryImpl, Schema!AuthzDecisionQueryType),
   NameIDPolicy |->
     Class(NameIDPolicy, NameIDPolicyImpl, Schema!NameIDPolicyType),
   IDPEntry |-> Class(IDPEntry, IDPEntryImpl, Schema!IDPEntryType),
   IDPList |-> Class(IDPList, IDPListImpl, Schema!IDPListType),
   Scoping |-> Class(Scoping, ScopingImpl, Schema!ScopingType),
   AuthnRequest |->
     Class(AuthnRequest, AuthnRequestImpl, Schema!AuthnRequestType),
   Response |-> Class(Response, ResponseImpl, Schema!ResponseType),
   ArtifactResolve |->
     Class(ArtifactResolve, ArtifactResolveImpl, Schema!ArtifactResolveType),
   ArtifactResponse |->
     Class(ArtifactResponse, ArtifactResponseImpl, Schema!ArtifactResponseType),
   Terminate |-> Class(Terminate, TerminateImpl, Schema!TerminateType),
   NewID |-> Class(NewID, NewIDImpl, Schema!string),
   NewEncryptedID |->
     Class(NewEncryptedID, NewEncryptedIDImpl, Schema!EncryptedElementType),
   ManageNameIDRequest |->
     Class(ManageNameIDRequest, ManageNameIDRequestImpl,
           Schema!ManageNameIDRequestType),
   ManageNameIDResponse |->
     Class(ManageNameIDResponse, ManageNameIDResponseImpl, Schema!StatusResponseType),
   LogoutRequest |->
     Class(LogoutRequest, LogoutRequestImpl, Schema!LogoutRequestType),
   LogoutResponse |->
     Class(LogoutResponse, LogoutResponseImpl, Schema!StatusResponseType),
   NameIDMappingRequest |->
     Class(NameIDMappingRequest, NameIDMappingRequestImpl,
           Schema!NameIDMappingRequestType),
   NameIDMappingResponse |->
     Class(NameIDMappingResponse, NameIDMappingResponseImpl,
           Schema!NameIDMappingResponseType)]
Unregistered == {"RequestAbstractType", "StatusResponseType", "SubjectQuery"}

-----------------------------------------------------------------------------
(* Element names: the namespace a builder gives an element, the family's own *)
(* unless listed, and the names of the builders written by hand.             *)
LocalNames == [class \in DOMAIN Classes \cup SimpleElements |-> class]
Namespaces == [Asynchronous |-> OTHER_NS, RespondTo |-> OTHER_NS]
TypedElements == <<>>
Subclasses ==
  [RequestAbstractType |-> {"ArtifactResolve", "AssertionIDRequest",
     "AttributeQuery", "AuthnQuery", "AuthnRequest", "AuthzDecisionQuery",
     "LogoutRequest", "ManageNameIDRequest", "NameIDMappingRequest",
     "SubjectQuery"},
   StatusResponseType |-> {"ArtifactResponse", "LogoutResponse",
     "ManageNameIDResponse", "NameIDMappingResponse", "Response"},
   SubjectQuery |-> {"AttributeQuery", "AuthnQuery", "AuthzDecisionQuery"}]
Untyped ==
  [UnknownXMLObject |-> {"Foreign"}, Payload |-> {"LogoutRequest",
    "Response"}]
Definitions ==
  [namespace |-> SAML20P_NS, localNames |-> LocalNames, namespaces |-> Namespaces,
   typed |-> TypedElements, imported |-> Imported, classes |-> Classes, simple |-> SimpleElements,
   concrete |-> (DOMAIN Classes \cup SimpleElements) \ (Unregistered),
   subclasses |-> Subclasses, untyped |-> Untyped]

-----------------------------------------------------------------------------
(* Schema validators.  Enumerated values are only present or absent here,    *)
(* and an extension element is always of a foreign namespace.                *)
RequestAbstractTypeSchemaValidator(e) ==
  Requires(e, {"ID", "Version", "IssueInstant"})
SubjectQuerySchemaValidator(e) ==
  /\ RequestAbstractTypeSchemaValidator(e)
  /\ Requires(e, {"Subject"})
StatusResponseTypeSchemaValidator(e) ==
  Requires(e, {"ID", "Version", "IssueInstant", "Status"})
ExtensionsSchemaValidator(e) == HasChildren(e)
StatusCodeSchemaValidator(e) == Requires(e, {"Value"})
StatusSchemaValidator(e) == Requires(e, {"StatusCode"})
AssertionIDRequestSchemaValidator(e) ==
  /\ RequestAbstractTypeSchemaValidator(e)
  /\ Requires(e, {"AssertionIDRef"})
RequestedAuthnContextSchemaValidator(e) ==
  OnlyOneOf(e, {"AuthnContextClassRef", "AuthnContextDeclRef"}) /\
    Requires(e, {"Comparison"})
AuthnQuerySchemaValidator(e) == SubjectQuerySchemaValidator(e)
AttributeQuerySchemaValidator(e) == SubjectQuerySchemaValidator(e)
AuthzDecisionQuerySchemaValidator(e) ==
  /\ SubjectQuerySchemaValidator(e)
  /\ Requires(e, {"Resource", "Action"})
IDPEntrySchemaValidator(e) == Requires(e, {"ProviderID"})
IDPListSchemaValidator(e) == Requires(e, {"IDPEntry"})
ScopingSchemaValidator(e) == TRUE
AuthnRequestSchemaValidator(e) ==
  /\ RequestAbstractTypeSchemaValidator(e)
  /\ Given(e, "AssertionConsumerServiceIndex") =>
       ~OneOf(e, {"AssertionConsumerServiceURL", "ProtocolBinding"})
ResponseSchemaValidator(e) == StatusResponseTypeSchemaValidator(e)
ArtifactResolveSchemaValidator(e) ==
  /\ RequestAbstractTypeSchemaValidator(e)
  /\ Requires(e, {"Artifact"})
ArtifactResponseSchemaValidator(e) == StatusResponseTypeSchemaValidator(e)
NewEncryptedIDSchemaValidator(e) == Requires(e, {"EncryptedData"})
ManageNameIDRequestSchemaValidator(e) ==
  /\ RequestAbstractTypeSchemaValidator(e)
  /\ OnlyOneOf(e, {"NameID", "EncryptedID"})
  /\ OnlyOneOf(e, {"NewID", "NewEncryptedID", "Terminate"})
ManageNameIDResponseSchemaValidator(e) == StatusResponseTypeSchemaValidator(e)
LogoutRequestSchemaValidator(e) ==
  /\ RequestAbstractTypeSchemaValidator(e)
  /\ OnlyOneOf(e, {"BaseID", "NameID", "EncryptedID"})
LogoutResponseSchemaValidator(e) == StatusResponseTypeSchemaValidator(e)
NameIDMappingRequestSchemaValidator(e) ==
  /\ RequestAbstractTypeSchemaValidator(e)
  /\ Requires(e, {"NameIDPolicy"})
  /\ OnlyOneOf(e, {"BaseID", "NameID", "EncryptedID"})
NameIDMappingResponseSchemaValidator(e) ==
  /\ StatusResponseTypeSchemaValidator(e)
  /\ OnlyOneOf(e, {"NameID", "EncryptedID"})
SimpleSchemaValidator(e) == Requires(e, {"TextContent"})

(* The validators registered for a class, run on one element.                *)
Validates(class, e) ==
  /\ class \in {"Artifact", "GetComplete", "NewID", "RequesterID",
       "RespondTo", "SessionIndex", "StatusMessage"} =>
       SimpleSchemaValidator(e)
  /\ class = "Extensions" => ExtensionsSchemaValidator(e)
  /\ class = "StatusCode" => StatusCodeSchemaValidator(e)
  /\ class = "Status" => StatusSchemaValidator(e)
  /\ class = "AssertionIDRequest" => AssertionIDRequestSchemaValidator(e)
  /\ class = "RequestedAuthnContext" =>
       RequestedAuthnContextSchemaValidator(e)
  /\ class = "AuthnQuery" => AuthnQuerySchemaValidator(e)
  /\ class = "AttributeQuery" => AttributeQuerySchemaValidator(e)
  /\ class = "AuthzDecisionQuery" => AuthzDecisionQuerySchemaValidator(e)
  /\ class = "IDPEntry" => IDPEntrySchemaValidator(e)
  /\ class = "IDPList" => IDPListSchemaValidator(e)
  /\ class = "Scoping" => ScopingSchemaValidator(e)
  /\ class = "AuthnRequest" => AuthnRequestSchemaValidator(e)
  /\ class = "Response" => ResponseSchemaValidator(e)
  /\ class = "ArtifactResolve" => ArtifactResolveSchemaValidator(e)
  /\ class = "ArtifactResponse" => ArtifactResponseSchemaValidator(e)
  /\ class = "NewEncryptedID" => NewEncryptedIDSchemaValidator(e)
  /\ class = "ManageNameIDRequest" => ManageNameIDRequestSchemaValidator(e)
  /\ class = "ManageNameIDResponse" => ManageNameIDResponseSchemaValidator(e)
  /\ class = "LogoutRequest" => LogoutRequestSchemaValidator(e)
  /\ class = "LogoutResponse" => LogoutResponseSchemaValidator(e)
  /\ class = "NameIDMappingRequest" => NameIDMappingRequestSchemaValidator(e)
  /\ class = "NameIDMappingResponse" =>
       NameIDMappingResponseSchemaValidator(e)
=============================================================================
