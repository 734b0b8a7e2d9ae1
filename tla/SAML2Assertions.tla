---------------------------- MODULE SAML2Assertions ----------------------------
(*****************************************************************************)
(* The XML object classes of saml/saml2/core: SAML 2.0 assertions. For       *)
(* each class: its interface (the declarations of the header), its           *)
(* implementation (the slots, fences, copies and reads of its Impl class),   *)
(* and what its schema validator demands.                                    *)
(*****************************************************************************)
EXTENDS XMLElementClasses

Schema == INSTANCE SAML2Schemas

-----------------------------------------------------------------------------
(* Interfaces.                                                               *)
EncryptedElementType == Has({"EncryptedData"}, {"EncryptedKey"}, {})
EncryptedID == EncryptedElementType
BaseID == Has({}, {}, {"NameQualifier", "SPNameQualifier"})
NameIDType ==
  Has({}, {}, {"Format", "NameQualifier", "SPNameQualifier", "SPProvidedID",
    "TextContent"})
NameID == NameIDType
Issuer == NameIDType
Condition == XMLObject
AudienceRestriction == Inherits({Condition}, Has({}, {"Audience"}, {}))
OneTimeUse == Condition
ProxyRestriction == Inherits({Condition}, Has({}, {"Audience"}, {"Count"}))
Delegate ==
  Has({"BaseID", "EncryptedID", "NameID"}, {}, {"ConfirmationMethod",
    "DelegationInstant"})
DelegationRestrictionType == Inherits({Condition}, Has({}, {"Delegate"}, {}))
Conditions ==
  Has({}, {"AudienceRestriction", "Condition", "OneTimeUse",
    "ProxyRestriction"}, {"NotBefore", "NotOnOrAfter"})
SubjectConfirmationDataType ==
  Has({}, {}, {"Address", "InResponseTo", "NotBefore", "NotOnOrAfter",
    "Recipient"})
SubjectConfirmationData ==
  Inherits({SubjectConfirmationDataType, ElementProxy}, Has({}, {}, {}))
KeyInfoConfirmationDataType ==
  Inherits({SubjectConfirmationDataType, AttributeExtensibleXMLObject},
    Has({}, {"KeyInfo"}, {}))
SubjectConfirmation ==
  Has({"BaseID", "EncryptedID", "NameID", "SubjectConfirmationData"}, {},
    {"Method"})
Subject == Has({"BaseID", "EncryptedID", "NameID"}, {"SubjectConfirmation"}, {})
Statement == XMLObject
SubjectLocality == Has({}, {}, {"Address", "DNSName"})
AuthnContextDecl == ElementProxy
AuthnContext ==
  Has({"AuthnContextClassRef", "AuthnContextDecl", "AuthnContextDeclRef"},
    {"AuthenticatingAuthority"}, {})
AuthnStatement ==
  Inherits({Statement}, Has({"AuthnContext", "SubjectLocality"}, {},
    {"AuthnInstant", "SessionIndex", "SessionNotOnOrAfter"}))
Action == Has({}, {}, {"Namespace", "TextContent"})
Evidence ==
  Has({}, {"Assertion", "AssertionIDRef", "AssertionURIRef",
    "EncryptedAssertion"}, {})
AuthzDecisionStatement ==
  Inherits({Statement}, Has({"Evidence"}, {"Action"}, {"Decision",
    "Resource"}))
AttributeValue == ElementProxy
Attribute ==
  Inherits({AttributeExtensibleXMLObject}, Has({}, {"AttributeValue"},
    {"FriendlyName", "Name", "NameFormat"}))
EncryptedAttribute == EncryptedElementType
AttributeStatement ==
  Inherits({Statement}, Has({}, {"Attribute", "EncryptedAttribute"}, {}))
EncryptedAssertion == EncryptedElementType
Advice ==
  Inherits({ElementExtensibleXMLObject}, Has({}, {"Assertion",
    "AssertionIDRef", "AssertionURIRef", "EncryptedAssertion"}, {}))
Assertion ==
  Inherits({SignableObject}, Has({"Advice", "Conditions", "Issuer",
    "Subject"}, {"AttributeStatement", "AuthnStatement",
    "AuthzDecisionStatement", "Statement"}, {"ID", "IssueInstant",
    "Version"}))
SimpleElements ==
  {"AssertionIDRef", "AssertionURIRef", "Audience",
    "AuthenticatingAuthority", "AuthnContextClassRef",
    "AuthnContextDeclRef"}

-----------------------------------------------------------------------------
(* Implementations.                                                          *)
NameIDTypeImpl ==
  Leaf(
    Attrs({"Format", "NameQualifier", "SPNameQualifier", "SPProvidedID",
      "TextContent"}))
NameIDImpl == NameIDTypeImpl
IssuerImpl == NameIDTypeImpl
EncryptedElementTypeImpl ==
  Complex(
    <<"EncryptedData">>, AtEnd({"EncryptedKey"}),
    Each(<<"EncryptedData", "EncryptedKey">>),
    Named(XMLENC_NS, <<"EncryptedData", "EncryptedKey">>), Attrs({}))
EncryptedIDImpl == EncryptedElementTypeImpl
(* Cloned by the macro of the classes whose copy constructor copies the      *)
(* children: AnyElementImpl leaves them to its _clone, which is not called.  *)
ConditionImpl == [AnyElementImpl EXCEPT !.copies = <<>>]
AudienceRestrictionImpl ==
  Complex(
    <<>>, AtEnd({"Audience"}), Each(<<"Audience">>),
    Named(SAML20_NS, <<"Audience">>), Attrs({}))
OneTimeUseImpl == Leaf(Attrs({}))
ProxyRestrictionImpl ==
  Complex(
    <<>>, AtEnd({"Audience"}), Each(<<"Audience">>),
    Named(SAML20_NS, <<"Audience">>), Attrs({"Count"}))
DelegateImpl ==
  Complex(
    <<"BaseID", "NameID", "EncryptedID">>, {},
    Each(<<"BaseID", "NameID", "EncryptedID">>),
    Named(SAML20_NS, <<"BaseID", "NameID", "EncryptedID">>),
    Attrs({"ConfirmationMethod", "DelegationInstant"}))
DelegationRestrictionTypeImpl ==
  Complex(
    <<>>, AtEnd({"Delegate"}), Each(<<"Delegate">>),
    Named(SAML20_DELEGATION_CONDITION_NS, <<"Delegate">>), Attrs({}))
ConditionsImpl ==
  Complex(
    <<>>,
    AtEnd({"AudienceRestriction", "Condition", "OneTimeUse", "ProxyRestriction"}),
    Bag(<<"AudienceRestriction", "OneTimeUse", "ProxyRestriction", "Condition">>),
    Named(SAML20_NS, <<"AudienceRestriction", "OneTimeUse",
      "ProxyRestriction", "Condition">>), Attrs({"NotBefore", "NotOnOrAfter"}))
SubjectConfirmationDataTypeImpl ==
  Leaf(
    Attrs({"Address", "InResponseTo", "NotBefore", "NotOnOrAfter", "Recipient"}))
SubjectConfirmationDataImpl ==
  Derive(AnyElementImpl, SubjectConfirmationDataTypeImpl)
KeyInfoConfirmationDataTypeImpl ==
  Derive(SubjectConfirmationDataTypeImpl, Complex(
    <<>>, AtEnd({"KeyInfo"}), Each(<<"KeyInfo">>),
    Named(XMLSIG_NS, <<"KeyInfo">>), Open({})))
SubjectConfirmationImpl ==
  Complex(
    <<"BaseID", "NameID", "EncryptedID", "SubjectConfirmationData">>, {},
    Each(<<"BaseID", "NameID", "EncryptedID", "SubjectConfirmationData">>),
    Named(SAML20_NS, <<"BaseID", "NameID", "EncryptedID">>) \o
      NamedOnly(SAML20_NS, <<"SubjectConfirmationData">>), Attrs({"Method"}))
SubjectImpl ==
  Complex(
    <<"BaseID", "NameID", "EncryptedID">>, AtEnd({"SubjectConfirmation"}),
    Each(<<"BaseID", "NameID", "EncryptedID", "SubjectConfirmation">>),
    Named(SAML20_NS, <<"BaseID", "NameID", "EncryptedID",
      "SubjectConfirmation">>), Attrs({}))
SubjectLocalityImpl == Leaf(Attrs({"Address", "DNSName"}))
StatementImpl == AnyElementImpl
AuthnContextDeclImpl == AnyElementImpl
AuthnContextImpl ==
  Complex(
    <<"AuthnContextClassRef", "AuthnContextDecl", "AuthnContextDeclRef">>,
    AtEnd({"AuthenticatingAuthority"}),
    Each(<<"AuthnContextClassRef", "AuthnContextDecl", "AuthnContextDeclRef",
      "AuthenticatingAuthority">>),
    Named(SAML20_NS, <<"AuthnContextClassRef">>) \o NamedOnly(SAML20_NS,
      <<"AuthnContextDecl">>) \o Named(SAML20_NS, <<"AuthnContextDeclRef",
      "AuthenticatingAuthority">>), Attrs({}))
AuthnStatementImpl ==
  Complex(
    <<"SubjectLocality", "AuthnContext">>, {},
    Each(<<"SubjectLocality", "AuthnContext">>),
    Named(SAML20_NS, <<"SubjectLocality", "AuthnContext">>),
    Attrs({"AuthnInstant", "SessionIndex", "SessionNotOnOrAfter"}))
ActionImpl == Leaf(Attrs({"Namespace", "TextContent"}))
EvidenceImpl ==
  Complex(
    <<>>,
    AtEnd({"Assertion", "AssertionIDRef", "AssertionURIRef",
      "EncryptedAssertion"}),
    Bag(<<"AssertionIDRef", "AssertionURIRef", "Assertion",
      "EncryptedAssertion">>),
    Named(SAML20_NS, <<"AssertionIDRef", "AssertionURIRef", "Assertion",
      "EncryptedAssertion">>), Attrs({}))
AuthzDecisionStatementImpl ==
  Complex(
    <<"Evidence">>, Before("Evidence", {"Action"}),
    Each(<<"Evidence", "Action">>), Named(SAML20_NS, <<"Evidence", "Action">>),
    Attrs({"Decision", "Resource"}))
AttributeValueImpl == AnyElementImpl
AttributeImpl ==
  Complex(
    <<>>, AtEnd({"AttributeValue"}), Each(<<"AttributeValue">>),
    AnyChild("AttributeValue"), Open({"FriendlyName", "Name", "NameFormat"}))
EncryptedAttributeImpl == EncryptedElementTypeImpl
AttributeStatementImpl ==
  Complex(
    <<>>, AtEnd({"Attribute", "EncryptedAttribute"}),
    Bag(<<"Attribute", "EncryptedAttribute">>),
    Named(SAML20_NS, <<"Attribute", "EncryptedAttribute">>), Attrs({}))
AdviceImpl ==
  Complex(
    <<>>,
    AtEnd({"Assertion", "AssertionIDRef", "AssertionURIRef",
      "EncryptedAssertion", "UnknownXMLObject"}),
    Bag(<<"AssertionIDRef", "AssertionURIRef", "Assertion",
      "EncryptedAssertion", "UnknownXMLObject">>),
    Named(SAML20_NS, <<"AssertionIDRef", "AssertionURIRef", "Assertion",
      "EncryptedAssertion">>) \o Foreign(SAML20_NS), Attrs({}))
EncryptedAssertionImpl == EncryptedElementTypeImpl
AssertionImpl ==
  Complex(
    <<"Issuer", "Signature", "Subject", "Conditions", "Advice">>,
    AtEnd({"AttributeStatement", "AuthnStatement", "AuthzDecisionStatement",
      "Statement"}),
    Each(<<"Issuer", "Signature", "Subject", "Conditions", "Advice">>) \o
      Bag(<<"AuthnStatement", "AttributeStatement", "AuthzDecisionStatement",
      "Statement">>),
    Named(SAML20_NS, <<"Issuer">>) \o Named(XMLSIG_NS, <<"Signature">>) \o
      Named(SAML20_NS, <<"Subject", "Conditions", "Advice", "AuthnStatement",
      "AttributeStatement", "AuthzDecisionStatement", "Statement">>),
    Filling({"ID", "IssueInstant", "Version"}, {"ID", "IssueInstant", "Version"}))
SimpleElementImpl == Leaf(Attrs({"TextContent"}))

-----------------------------------------------------------------------------
(* The other families' elements that occur here.                             *)
Imported ==
  [BaseID |-> SAML20_NS, EncryptedData |-> XMLENC_NS,
    EncryptedKey |-> XMLENC_NS, Foreign |-> OTHER_NS, KeyInfo |-> XMLSIG_NS,
    Signature |-> XMLSIG_NS]

(* What the application may build: the classes with a builder, and the rest. *)
Classes ==
  [EncryptedElementType |->
     Class(EncryptedElementType, EncryptedElementTypeImpl, Schema!EncryptedElementType),
   EncryptedID |->
     Class(EncryptedID, EncryptedIDImpl, Schema!EncryptedElementType),
   NameIDType |-> Class(NameIDType, NameIDTypeImpl, Schema!NameIDType),
   NameID |-> Class(NameID, NameIDImpl, Schema!NameIDType),
   Issuer |-> Class(Issuer, IssuerImpl, Schema!NameIDType),
   Condition |-> Class(AsElementProxy(Condition), ConditionImpl, Schema!anyType),
   AudienceRestriction |->
     Class(AudienceRestriction, AudienceRestrictionImpl,
           Schema!AudienceRestrictionType),
   OneTimeUse |-> Class(OneTimeUse, OneTimeUseImpl, Schema!OneTimeUseType),
   ProxyRestriction |->
     Class(ProxyRestriction, ProxyRestrictionImpl, Schema!ProxyRestrictionType),
   Delegate |-> Class(Delegate, DelegateImpl, Schema!DelegateType),
   DelegationRestrictionType |->
     Class(DelegationRestrictionType, DelegationRestrictionTypeImpl,
           Schema!DelegationRestrictionType),
   Conditions |-> Class(Conditions, ConditionsImpl, Schema!ConditionsType),
   SubjectConfirmationDataType |->
     Class(SubjectConfirmationDataType, SubjectConfirmationDataTypeImpl,
           Schema!SubjectConfirmationDataType),
   SubjectConfirmationData |->
     Class(SubjectConfirmationData, SubjectConfirmationDataImpl,
           Schema!SubjectConfirmationDataType),
   KeyInfoConfirmationDataType |->
     Class(KeyInfoConfirmationDataType, KeyInfoConfirmationDataTypeImpl,
           Schema!KeyInfoConfirmationDataType),
   SubjectConfirmation |->
     Class(SubjectConfirmation, SubjectConfirmationImpl,
           Schema!SubjectConfirmationType),
   Subject |-> Class(Subject, SubjectImpl, Schema!SubjectType),
   Statement |-> Class(AsElementProxy(Statement), StatementImpl, Schema!anyType),
   SubjectLocality |->
     Class(SubjectLocality, SubjectLocalityImpl, Schema!SubjectLocalityType),
   AuthnContextDecl |->
     Class(AuthnContextDecl, AuthnContextDeclImpl, Schema!anyType),
   AuthnContext |->
     Class(AuthnContext, AuthnContextImpl, Schema!AuthnContextType),
   AuthnStatement |->
     Class(AuthnStatement, AuthnStatementImpl, Schema!AuthnStatementType),
   Action |-> Class(Action, ActionImpl, Schema!ActionType),
   Evidence |-> Class(Evidence, EvidenceImpl, Schema!EvidenceType),
   AuthzDecisionStatement |->
     Class(AuthzDecisionStatement, AuthzDecisionStatementImpl,
           Schema!AuthzDecisionStatementType),
   AttributeValue |-> Class(AttributeValue, AttributeValueImpl, Schema!anyType),
   Attribute |-> Class(Attribute, AttributeImpl, Schema!AttributeType),
   EncryptedAttribute |->
     Class(EncryptedAttribute, EncryptedAttributeImpl, Schema!EncryptedElementType),
   AttributeStatement |->
     Class(AttributeStatement, AttributeStatementImpl, Schema!AttributeStatementType),
   EncryptedAssertion |->
     Class(EncryptedAssertion, EncryptedAssertionImpl, Schema!EncryptedElementType),
   Advice |-> Class(Advice, AdviceImpl, Schema!AdviceType),
   Assertion |-> Class(Assertion, AssertionImpl, Schema!AssertionType)]
Unregistered == {"EncryptedElementType", "SubjectConfirmationDataType"}

-----------------------------------------------------------------------------
(* Element names: the namespace a builder gives an element, the family's own *)
(* unless listed, and the names of the builders written by hand.             *)
LocalNames ==
  [class \in DOMAIN Classes \cup SimpleElements |->
     CASE class = "DelegationRestrictionType" -> "Condition"
       [] class = "KeyInfoConfirmationDataType" -> "SubjectConfirmationData"
       [] OTHER -> class]
Namespaces == [Delegate |-> SAML20_DELEGATION_CONDITION_NS]
TypedElements ==
  [DelegationRestrictionType |-> <<SAML20_DELEGATION_CONDITION_NS, LocalNames["DelegationRestrictionType"]>>,
   KeyInfoConfirmationDataType |-> <<SAML20_NS, LocalNames["KeyInfoConfirmationDataType"]>>]
(* Types whose builder makes the caller name the element.                    *)
Nameless == {"NameIDType"}
Subclasses ==
  [Condition |-> {"AudienceRestriction", "DelegationRestrictionType",
     "OneTimeUse", "ProxyRestriction"},
   EncryptedElementType |-> {"EncryptedAssertion", "EncryptedAttribute",
     "EncryptedID"},
   NameIDType |-> {"Issuer", "NameID"},
   Statement |-> {"AttributeStatement", "AuthnStatement",
     "AuthzDecisionStatement"},
   SubjectConfirmationDataType |-> {"KeyInfoConfirmationDataType",
     "SubjectConfirmationData"}]
Untyped ==
  [UnknownXMLObject |-> {"Foreign"}, AttributeValue |-> {"AttributeValue"},
    AuthnContextDecl |-> {"AuthnContextDecl"},
    SubjectConfirmationData |-> {"KeyInfoConfirmationDataType",
    "SubjectConfirmationData"}]
Definitions ==
  [namespace |-> SAML20_NS, localNames |-> LocalNames, namespaces |-> Namespaces,
   typed |-> TypedElements, imported |-> Imported, classes |-> Classes, simple |-> SimpleElements,
   concrete |-> (DOMAIN Classes \cup SimpleElements) \ (Unregistered \cup Nameless),
   subclasses |-> Subclasses, untyped |-> Untyped]

-----------------------------------------------------------------------------
(* Schema validators.  Enumerated values are only present or absent here,    *)
(* and an extension element is always of a foreign namespace.                *)
EncryptedElementTypeSchemaValidator(e) == Requires(e, {"EncryptedData"})
EncryptedIDSchemaValidator(e) == EncryptedElementTypeSchemaValidator(e)
EncryptedAttributeSchemaValidator(e) == EncryptedElementTypeSchemaValidator(e)
EncryptedAssertionSchemaValidator(e) == EncryptedElementTypeSchemaValidator(e)
AudienceRestrictionSchemaValidator(e) == Requires(e, {"Audience"})
ProxyRestrictionSchemaValidator(e) == OneOf(e, {"Audience", "Count"})
DelegateSchemaValidator(e) == OnlyOneOf(e, {"BaseID", "NameID", "EncryptedID"})
DelegationRestrictionTypeSchemaValidator(e) == Requires(e, {"Delegate"})
ConditionsSchemaValidator(e) ==
  IF HasChildren(e)
  THEN Count(e, "OneTimeUse") <= 1 /\ Count(e, "ProxyRestriction") <= 1
  ELSE OneOf(e, {"NotBefore", "NotOnOrAfter"})
KeyInfoConfirmationDataTypeSchemaValidator(e) == Requires(e, {"KeyInfo"})
SubjectConfirmationSchemaValidator(e) ==
  Requires(e, {"Method"}) /\ AtMostOneOf(e, {"BaseID", "NameID",
    "EncryptedID"})
SubjectSchemaValidator(e) == AtMostOneOf(e, {"BaseID", "NameID", "EncryptedID"})
SubjectLocalitySchemaValidator(e) == OneOf(e, {"Address", "DNSName"})
AuthnContextSchemaValidator(e) ==
  Given(e, "AuthnContextClassRef") \/
  OnlyOneOf(e, {"AuthnContextDeclRef", "AuthnContextDecl"})
AuthnStatementSchemaValidator(e) ==
  Requires(e, {"AuthnInstant", "AuthnContext"})
EvidenceSchemaValidator(e) == HasChildren(e)
AuthzDecisionStatementSchemaValidator(e) ==
  Requires(e, {"Resource", "Decision", "Action"})
AttributeSchemaValidator(e) == Requires(e, {"Name"})
AttributeStatementSchemaValidator(e) == Requires(e, {"Attribute"})
AssertionSchemaValidator(e) ==
  /\ Requires(e, {"Version", "ID", "IssueInstant", "Issuer"})
  /\ OneOf(e, {"AuthnStatement", "AttributeStatement", "AuthzDecisionStatement"}) =>
       Given(e, "Subject")
AdviceSchemaValidator(e) == TRUE
SimpleSchemaValidator(e) == Requires(e, {"TextContent"})

(* The validators registered for a class, run on one element.                *)
Validates(class, e) ==
  /\ class \in {"Action", "AssertionIDRef", "AssertionURIRef", "Audience",
       "AuthenticatingAuthority", "AuthnContextClassRef",
       "AuthnContextDeclRef", "Issuer", "NameID", "NameIDType"} =>
       SimpleSchemaValidator(e)
  /\ class = "EncryptedID" => EncryptedIDSchemaValidator(e)
  /\ class = "EncryptedAttribute" => EncryptedAttributeSchemaValidator(e)
  /\ class = "EncryptedAssertion" => EncryptedAssertionSchemaValidator(e)
  /\ class = "AudienceRestriction" => AudienceRestrictionSchemaValidator(e)
  /\ class = "ProxyRestriction" => ProxyRestrictionSchemaValidator(e)
  /\ class = "Delegate" => DelegateSchemaValidator(e)
  /\ class = "DelegationRestrictionType" =>
       DelegationRestrictionTypeSchemaValidator(e)
  /\ class = "Conditions" => ConditionsSchemaValidator(e)
  /\ class = "KeyInfoConfirmationDataType" =>
       KeyInfoConfirmationDataTypeSchemaValidator(e)
  /\ class = "SubjectConfirmation" => SubjectConfirmationSchemaValidator(e)
  /\ class = "Subject" => SubjectSchemaValidator(e)
  /\ class = "SubjectLocality" => SubjectLocalitySchemaValidator(e)
  /\ class = "AuthnContext" => AuthnContextSchemaValidator(e)
  /\ class = "AuthnStatement" => AuthnStatementSchemaValidator(e)
  /\ class = "Evidence" => EvidenceSchemaValidator(e)
  /\ class = "AuthzDecisionStatement" =>
       AuthzDecisionStatementSchemaValidator(e)
  /\ class = "Attribute" => AttributeSchemaValidator(e)
  /\ class = "AttributeStatement" => AttributeStatementSchemaValidator(e)
  /\ class = "Assertion" => AssertionSchemaValidator(e)
  /\ class = "Advice" => AdviceSchemaValidator(e)
=============================================================================
