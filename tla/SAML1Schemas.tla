---------------------------- MODULE SAML1Schemas ----------------------------
(*****************************************************************************)
(* The content models of schemas/*.xsd for SAML 1.1: what the documents      *)
(* the library writes are held against.  A string or URI is taken to be      *)
(* non-empty.                                                                *)
(*****************************************************************************)
EXTENDS XMLElementClasses

anyType == Content(<<ZeroOrMore({"Foreign"})>>, {})
string == Content(<<>>, {"TextContent"})

Queries ==
  {"Query", "SubjectQuery", "AuthenticationQuery", "AttributeQuery",
   "AuthorizationDecisionQuery"}

AssertionType ==
  Content(<<Optional({"Conditions"}), Optional({"Advice"}),
    OneOrMore({"Statement", "SubjectStatement", "AuthenticationStatement",
    "AuthorizationDecisionStatement", "AttributeStatement"}),
    Optional({"Signature"})>>, {"AssertionID", "IssueInstant", "Issuer",
    "MinorVersion"})
ConditionsType ==
  Content(<<ZeroOrMore({"AudienceRestrictionCondition",
    "DoNotCacheCondition", "Condition"})>>, {})
ConditionAbstractType == Content(<<>>, {})
AudienceRestrictionConditionType ==
  ExtendContent(ConditionAbstractType, <<OneOrMore({"Audience"})>>, {})
DoNotCacheConditionType == ConditionAbstractType
AdviceType ==
  Content(<<ZeroOrMore({"AssertionIDReference", "Assertion", "Foreign"})>>,
    {})
StatementAbstractType == Content(<<>>, {})
SubjectStatementAbstractType ==
  ExtendContent(StatementAbstractType, <<One({"Subject"})>>, {})
SubjectType ==
  Choice(Content(<<Optional({"NameIdentifier"}),
    Optional({"SubjectConfirmation"})>>, {}), {{"NameIdentifier",
    "SubjectConfirmation"}}, {})
NameIdentifierType == Content(<<>>, {"TextContent"})
SubjectConfirmationType ==
  Content(<<OneOrMore({"ConfirmationMethod"}),
    Optional({"SubjectConfirmationData"}), Optional({"KeyInfo"})>>, {})
AuthenticationStatementType ==
  ExtendContent(SubjectStatementAbstractType,
    <<Optional({"SubjectLocality"}), ZeroOrMore({"AuthorityBinding"})>>,
    {"AuthenticationInstant", "AuthenticationMethod"})
SubjectLocalityType == Content(<<>>, {})
AuthorityBindingType == Content(<<>>, {"AuthorityKind", "Binding", "Location"})
AuthorizationDecisionStatementType ==
  ExtendContent(SubjectStatementAbstractType, <<OneOrMore({"Action"}),
    Optional({"Evidence"})>>, {"Decision", "Resource"})
ActionType == Content(<<>>, {"TextContent"})
EvidenceType ==
  Content(<<OneOrMore({"AssertionIDReference", "Assertion"})>>, {})
AttributeStatementType ==
  ExtendContent(SubjectStatementAbstractType, <<OneOrMore({"Attribute"})>>,
    {})
AttributeDesignatorType ==
  Content(<<>>, {"AttributeName", "AttributeNamespace"})
AttributeType ==
  ExtendContent(AttributeDesignatorType, <<OneOrMore({"AttributeValue"})>>,
    {})
RequestAbstractType ==
  Content(<<ZeroOrMore({"RespondWith"}), Optional({"Signature"})>>,
    {"IssueInstant", "MinorVersion", "RequestID"})
RequestType ==
  Choice(ExtendContent(RequestAbstractType, <<Optional(Queries),
    ZeroOrMore({"AssertionIDReference"}),
    ZeroOrMore({"AssertionArtifact"})>>, {}), {Queries \cup
    {"AssertionIDReference", "AssertionArtifact"}}, {<<Queries,
    {"AssertionIDReference"}>>, <<Queries, {"AssertionArtifact"}>>,
    <<{"AssertionIDReference"}, {"AssertionArtifact"}>>})
QueryAbstractType == Content(<<>>, {})
SubjectQueryAbstractType ==
  ExtendContent(QueryAbstractType, <<One({"Subject"})>>, {})
AuthenticationQueryType == SubjectQueryAbstractType
AttributeQueryType ==
  ExtendContent(SubjectQueryAbstractType,
    <<ZeroOrMore({"AttributeDesignator"})>>, {})
AuthorizationDecisionQueryType ==
  ExtendContent(SubjectQueryAbstractType, <<OneOrMore({"Action"}),
    Optional({"Evidence"})>>, {"Resource"})
ResponseAbstractType ==
  Content(<<Optional({"Signature"})>>, {"IssueInstant", "MinorVersion",
    "ResponseID"})
ResponseType ==
  ExtendContent(ResponseAbstractType, <<One({"Status"}),
    ZeroOrMore({"Assertion"})>>, {})
StatusType ==
  Content(<<One({"StatusCode"}), Optional({"StatusMessage"}),
    Optional({"StatusDetail"})>>, {})
StatusCodeType == Content(<<Optional({"StatusCode"})>>, {"Value"})
StatusDetailType == Content(<<ZeroOrMore({"Foreign"})>>, {})
=============================================================================
