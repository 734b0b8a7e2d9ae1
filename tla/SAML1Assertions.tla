---------------------------- MODULE SAML1Assertions ----------------------------
(*****************************************************************************)
(* The XML object classes of saml/saml1/core: SAML 1.x assertions. For       *)
(* each class: its interface (the declarations of the header), its           *)
(* implementation (the slots, fences, copies and reads of its Impl class),   *)
(* and what its schema validator demands.                                    *)
(*****************************************************************************)
EXTENDS XMLElementClasses

Schema == INSTANCE SAML1Schemas

-----------------------------------------------------------------------------
(* Interfaces.                                                               *)
Condition == XMLObject
AudienceRestrictionCondition == Inherits({Condition}, Has({}, {"Audience"}, {}))
DoNotCacheCondition == Condition
Conditions ==
  Has({}, {"AudienceRestrictionCondition", "Condition",
    "DoNotCacheCondition"}, {"NotBefore", "NotOnOrAfter"})
NameIdentifier == Has({}, {}, {"Format", "NameQualifier", "TextContent"})
SubjectConfirmationData == ElementProxy
SubjectConfirmation ==
  Has({"KeyInfo", "SubjectConfirmationData"}, {"ConfirmationMethod"}, {})
Subject == Has({"NameIdentifier", "SubjectConfirmation"}, {}, {})
Statement == XMLObject
SubjectStatement == Inherits({Statement}, Has({"Subject"}, {}, {}))
SubjectLocality == Has({}, {}, {"DNSAddress", "IPAddress"})
AuthorityBinding == Has({}, {}, {"AuthorityKind", "Binding", "Location"})
AuthenticationStatement ==
  Inherits({SubjectStatement}, Has({"SubjectLocality"},
    {"AuthorityBinding"}, {"AuthenticationInstant",
    "AuthenticationMethod"}))
Action == Has({}, {}, {"Namespace", "TextContent"})
Evidence == Has({}, {"Assertion", "AssertionIDReference"}, {})
AuthorizationDecisionStatement ==
  Inherits({SubjectStatement}, Has({"Evidence"}, {"Action"}, {"Decision",
    "Resource"}))
AttributeDesignator == Has({}, {}, {"AttributeName", "AttributeNamespace"})
Attribute == Inherits({AttributeDesignator}, Has({}, {"AttributeValue"}, {}))
AttributeValue == ElementProxy
AttributeStatement == Inherits({SubjectStatement}, Has({}, {"Attribute"}, {}))
Advice ==
  Inherits({ElementExtensibleXMLObject}, Has({}, {"Assertion",
    "AssertionIDReference"}, {}))
Assertion ==
  Inherits({SignableObject}, Has({"Advice", "Conditions"},
    {"AttributeStatement", "AuthenticationStatement",
    "AuthorizationDecisionStatement", "Statement", "SubjectStatement"},
    {"AssertionID", "IssueInstant", "Issuer", "MinorVersion"}))
SimpleElements == {"AssertionIDReference", "Audience", "ConfirmationMethod"}

-----------------------------------------------------------------------------
(* Implementations.                                                          *)
ConditionImpl == AnyElementImpl
AudienceRestrictionConditionImpl ==
  Complex(
    <<>>, AtEnd({"Audience"}), Each(<<"Audience">>),
    Named(SAML1_NS, <<"Audience">>), Attrs({}))
DoNotCacheConditionImpl == Leaf(Attrs({}))
ConditionsImpl_BaseFirst ==
  Complex(
    <<>>,
    AtEnd({"AudienceRestrictionCondition", "Condition", "DoNotCacheCondition"}),
    Bag(<<"AudienceRestrictionCondition", "DoNotCacheCondition", "Condition">>),
    Typed(<<"Condition", "AudienceRestrictionCondition", "DoNotCacheCondition">>),
    Attrs({"NotBefore", "NotOnOrAfter"}))
ConditionsImpl ==
  Complex(
    <<>>,
    AtEnd({"AudienceRestrictionCondition", "Condition", "DoNotCacheCondition"}),
    Bag(<<"AudienceRestrictionCondition", "DoNotCacheCondition", "Condition">>),
    Typed(<<"AudienceRestrictionCondition", "DoNotCacheCondition", "Condition">>),
    Attrs({"NotBefore", "NotOnOrAfter"}))
NameIdentifierImpl == Leaf(Attrs({"Format", "NameQualifier", "TextContent"}))
SubjectConfirmationDataImpl == AnyElementImpl
SubjectConfirmationImpl ==
  Complex(
    <<"SubjectConfirmationData", "KeyInfo">>,
    Before("SubjectConfirmationData", {"ConfirmationMethod"}),
    Each(<<"ConfirmationMethod", "SubjectConfirmationData", "KeyInfo">>),
    Named(SAML1_NS, <<"ConfirmationMethod">>) \o Named(XMLSIG_NS,
      <<"KeyInfo">>) \o AnyChild("SubjectConfirmationData"), Attrs({}))
SubjectImpl ==
  Complex(
    <<"NameIdentifier", "SubjectConfirmation">>, {},
    Each(<<"NameIdentifier", "SubjectConfirmation">>),
    Typed(<<"NameIdentifier", "SubjectConfirmation">>), Attrs({}))
StatementImpl == AnyElementImpl
SubjectStatementImpl ==
  Complex(
    <<"Subject">>, {}, Each(<<"Subject">>), Typed(<<"Subject">>), Attrs({}))
SubjectLocalityImpl == Leaf(Attrs({"DNSAddress", "IPAddress"}))
AuthorityBindingImpl == Leaf(Attrs({"AuthorityKind", "Binding", "Location"}))
AuthenticationStatementImpl ==
  Derive(SubjectStatementImpl, Complex(
    <<"SubjectLocality">>, AtEnd({"AuthorityBinding"}),
    Each(<<"SubjectLocality", "AuthorityBinding">>),
    Named(SAML1_NS, <<"SubjectLocality", "AuthorityBinding">>),
    Attrs({"AuthenticationInstant", "AuthenticationMethod"})))
ActionImpl == Leaf(Attrs({"Namespace", "TextContent"}))
EvidenceImpl ==
  Complex(
    <<>>, AtEnd({"Assertion", "AssertionIDReference"}),
    Bag(<<"AssertionIDReference", "Assertion">>),
    Named(SAML1_NS, <<"AssertionIDReference">>) \o Typed(<<"Assertion">>),
    Attrs({}))
AuthorizationDecisionStatementImpl ==
  Derive(SubjectStatementImpl, Complex(
    <<"Evidence">>, Before("Evidence", {"Action"}),
    Each(<<"Action", "Evidence">>), Named(SAML1_NS, <<"Evidence", "Action">>),
    Attrs({"Decision", "Resource"})))
AttributeDesignatorImpl == Leaf(Attrs({"AttributeName", "AttributeNamespace"}))
AttributeImpl ==
  Complex(
    <<>>, AtEnd({"AttributeValue"}), Each(<<"AttributeValue">>),
    AnyChild("AttributeValue"), Attrs({"AttributeName", "AttributeNamespace"}))
AttributeValueImpl == AnyElementImpl
AttributeStatementImpl ==
  Derive(SubjectStatementImpl, Complex(
    <<>>, AtEnd({"Attribute"}), Each(<<"Attribute">>), Typed(<<"Attribute">>),
    Attrs({})))
AdviceImpl ==
  Complex(
    <<>>, AtEnd({"Assertion", "AssertionIDReference", "UnknownXMLObject"}),
    Bag(<<"AssertionIDReference", "Assertion", "UnknownXMLObject">>),
    Named(SAML1_NS, <<"AssertionIDReference">>) \o Typed(<<"Assertion">>) \o
      Foreign(SAML1_NS), Attrs({}))
AssertionImpl ==
  Complex(
    <<"Conditions", "Advice", "Signature">>,
    Before("Signature", {"AttributeStatement", "AuthenticationStatement",
      "AuthorizationDecisionStatement", "Statement", "SubjectStatement"}),
    Each(<<"Conditions", "Advice", "Signature">>) \o
      Bag(<<"AuthenticationStatement", "AttributeStatement",
      "AuthorizationDecisionStatement", "SubjectStatement", "Statement">>),
    Named(SAML1_NS, <<"Conditions", "Advice">>) \o Named(XMLSIG_NS,
      <<"Signature">>) \o Named(SAML1_NS, <<"AuthenticationStatement",
      "AttributeStatement", "AuthorizationDecisionStatement">>) \o
      Typed(<<"SubjectStatement", "Statement">>),
    Filling({"AssertionID", "IssueInstant", "Issuer", "MinorVersion"},
      {"AssertionID", "IssueInstant", "MinorVersion"}))
SimpleElementImpl == Leaf(Attrs({"TextContent"}))

-----------------------------------------------------------------------------
(* The other families' elements that occur here.                             *)
Imported ==
  [Foreign |-> OTHER_NS, KeyInfo |-> XMLSIG_NS, Signature |-> XMLSIG_NS,
    SubjectStatement |-> SAML1_NS]

(* What the application may build: the classes with a builder, and the rest. *)
Classes ==
  [Condition |-> Class(AsElementProxy(Condition), ConditionImpl, Schema!anyType),
   AudienceRestrictionCondition |->
     Class(AudienceRestrictionCondition, AudienceRestrictionConditionImpl,
           Schema!AudienceRestrictionConditionType),
   DoNotCacheCondition |->
     Class(DoNotCacheCondition, DoNotCacheConditionImpl,
           Schema!DoNotCacheConditionType),
   Conditions |-> Class(Conditions, ConditionsImpl, Schema!ConditionsType),
   NameIdentifier |->
     Class(NameIdentifier, NameIdentifierImpl, Schema!NameIdentifierType),
   SubjectConfirmationData |->
     Class(SubjectConfirmationData, SubjectConfirmationDataImpl, Schema!anyType),
   SubjectConfirmation |->
     Class(SubjectConfirmation, SubjectConfirmationImpl,
           Schema!SubjectConfirmationType),
   Subject |-> Class(Subject, SubjectImpl, Schema!SubjectType),
   Statement |-> Class(AsElementProxy(Statement), StatementImpl, Schema!anyType),
   SubjectStatement |->
     Class(SubjectStatement, SubjectStatementImpl, Schema!SubjectStatementAbstractType),
   SubjectLocality |->
     Class(SubjectLocality, SubjectLocalityImpl, Schema!SubjectLocalityType),
   AuthorityBinding |->
     Class(AuthorityBinding, AuthorityBindingImpl, Schema!AuthorityBindingType),
   AuthenticationStatement |->
     Class(AuthenticationStatement, AuthenticationStatementImpl,
           Schema!AuthenticationStatementType),
   Action |-> Class(Action, ActionImpl, Schema!ActionType),
   Evidence |-> Class(Evidence, EvidenceImpl, Schema!EvidenceType),
   AuthorizationDecisionStatement |->
     Class(AuthorizationDecisionStatement, AuthorizationDecisionStatementImpl,
           Schema!AuthorizationDecisionStatementType),
   AttributeDesignator |->
     Class(AttributeDesignator, AttributeDesignatorImpl,
           Schema!AttributeDesignatorType),
   Attribute |-> Class(Attribute, AttributeImpl, Schema!AttributeType),
   AttributeValue |-> Class(AttributeValue, AttributeValueImpl, Schema!anyType),
   AttributeStatement |->
     Class(AttributeStatement, AttributeStatementImpl, Schema!AttributeStatementType),
   Advice |-> Class(Advice, AdviceImpl, Schema!AdviceType),
   Assertion |-> Class(Assertion, AssertionImpl, Schema!AssertionType)]
Unregistered == {"SubjectStatement"}

-----------------------------------------------------------------------------
(* Element names: the namespace a builder gives an element, the family's own *)
(* unless listed, and the names of the builders written by hand.             *)
LocalNames == [class \in DOMAIN Classes \cup SimpleElements |-> class]
Namespaces == <<>>
TypedElements == <<>>
Subclasses ==
  [AttributeDesignator |-> {"Attribute"},
   Condition |-> {"AudienceRestrictionCondition", "DoNotCacheCondition"},
   Statement |-> {"AttributeStatement", "AuthenticationStatement",
     "AuthorizationDecisionStatement", "SubjectStatement"},
   SubjectStatement |-> {"AttributeStatement", "AuthenticationStatement",
     "AuthorizationDecisionStatement"}]
Untyped ==
  [UnknownXMLObject |-> {"Foreign"}, AttributeValue |-> {"AttributeValue"},
    SubjectConfirmationData |-> {"SubjectConfirmationData"}]
Definitions ==
  [namespace |-> SAML1_NS, localNames |-> LocalNames, namespaces |-> Namespaces,
   typed |-> TypedElements, imported |-> Imported, classes |-> Classes, simple |-> SimpleElements,
   concrete |-> (DOMAIN Classes \cup SimpleElements) \ (Unregistered),
   subclasses |-> Subclasses, untyped |-> Untyped]

-----------------------------------------------------------------------------
(* Schema validators.  Enumerated values are only present or absent here,    *)
(* and an extension element is always of a foreign namespace.                *)
AudienceRestrictionConditionSchemaValidator(e) == Requires(e, {"Audience"})
ConditionsSchemaValidator(e) ==
  IF HasChildren(e) THEN Count(e, "DoNotCacheCondition") <= 1
  ELSE OneOf(e, {"NotBefore", "NotOnOrAfter"})
SubjectConfirmationSchemaValidator(e) == Requires(e, {"ConfirmationMethod"})
SubjectSchemaValidator(e) == OneOf(e, {"NameIdentifier", "SubjectConfirmation"})
SubjectLocalitySchemaValidator(e) == OneOf(e, {"IPAddress", "DNSAddress"})
AuthorityBindingSchemaValidator(e) ==
  Requires(e, {"AuthorityKind", "Location", "Binding"})
AuthenticationStatementSchemaValidator(e) ==
  Requires(e, {"AuthenticationMethod", "AuthenticationInstant", "Subject"})
EvidenceSchemaValidator(e) == HasChildren(e)
AuthorizationDecisionStatementSchemaValidator(e) ==
  Requires(e, {"Resource", "Decision", "Subject", "Action"})
AttributeDesignatorSchemaValidator(e) ==
  Requires(e, {"AttributeName", "AttributeNamespace"})
AttributeSchemaValidator(e) ==
  Requires(e, {"AttributeName", "AttributeNamespace", "AttributeValue"})
AttributeStatementSchemaValidator(e) == Requires(e, {"Attribute"})
AssertionSchemaValidator(e) ==
  /\ Requires(e, {"AssertionID", "Issuer", "IssueInstant", "MinorVersion"})
  /\ OneOf(e, {"AuthenticationStatement", "AttributeStatement",
               "AuthorizationDecisionStatement", "SubjectStatement", "Statement"})
AdviceSchemaValidator(e) == TRUE
SimpleSchemaValidator(e) == Requires(e, {"TextContent"})

(* The validators registered for a class, run on one element.                *)
Validates(class, e) ==
  /\ class \in {"Action", "AssertionIDReference", "Audience",
       "ConfirmationMethod", "NameIdentifier"} => SimpleSchemaValidator(e)
  /\ class = "AudienceRestrictionCondition" =>
       AudienceRestrictionConditionSchemaValidator(e)
  /\ class = "Conditions" => ConditionsSchemaValidator(e)
  /\ class = "SubjectConfirmation" => SubjectConfirmationSchemaValidator(e)
  /\ class = "Subject" => SubjectSchemaValidator(e)
  /\ class = "SubjectLocality" => SubjectLocalitySchemaValidator(e)
  /\ class = "AuthorityBinding" => AuthorityBindingSchemaValidator(e)
  /\ class = "AuthenticationStatement" =>
       AuthenticationStatementSchemaValidator(e)
  /\ class = "Evidence" => EvidenceSchemaValidator(e)
  /\ class = "AuthorizationDecisionStatement" =>
       AuthorizationDecisionStatementSchemaValidator(e)
  /\ class = "AttributeDesignator" => AttributeDesignatorSchemaValidator(e)
  /\ class = "Attribute" => AttributeSchemaValidator(e)
  /\ class = "AttributeStatement" => AttributeStatementSchemaValidator(e)
  /\ class = "Assertion" => AssertionSchemaValidator(e)
  /\ class = "Advice" => AdviceSchemaValidator(e)
=============================================================================
