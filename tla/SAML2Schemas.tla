---------------------------- MODULE SAML2Schemas ----------------------------
(*****************************************************************************)
(* The content models of schemas/*.xsd for SAML 2.0: what the documents      *)
(* the library writes are held against.  A string or URI is taken to be      *)
(* non-empty.                                                                *)
(*****************************************************************************)
EXTENDS XMLElementClasses

anyType == Content(<<ZeroOrMore({"Foreign"})>>, {})
string == Content(<<>>, {"TextContent"})

RoleElements ==
  {"RoleDescriptor", "IDPSSODescriptor", "SPSSODescriptor", "AuthnAuthorityDescriptor",
   "AttributeAuthorityDescriptor", "PDPDescriptor"}
Identifiers == {"BaseID", "NameID", "EncryptedID"}

localizedNameType == Content(<<>>, {"Lang", "TextContent"})
localizedURIType == Content(<<>>, {"Lang", "TextContent"})
ExtensionsType == Content(<<OneOrMore({"Foreign"})>>, {})
EndpointType == Content(<<ZeroOrMore({"Foreign"})>>, {"Binding", "Location"})
IndexedEndpointType == ExtendContent(EndpointType, <<>>, {"Index"})
EntitiesDescriptorType ==
  Content(<<Optional({"Signature"}), Optional({"Extensions"}),
    OneOrMore({"EntityDescriptor", "EntitiesDescriptor"})>>, {})
EntityDescriptorType ==
  Choice(Content(<<Optional({"Signature"}), Optional({"Extensions"}),
    ZeroOrMore(RoleElements), Optional({"AffiliationDescriptor"}),
    Optional({"Organization"}), ZeroOrMore({"ContactPerson"}),
    ZeroOrMore({"AdditionalMetadataLocation"})>>, {"EntityID"}),
    {RoleElements \cup {"AffiliationDescriptor"}}, {<<RoleElements,
    {"AffiliationDescriptor"}>>})
OrganizationType ==
  Content(<<Optional({"Extensions"}), OneOrMore({"OrganizationName"}),
    OneOrMore({"OrganizationDisplayName"}),
    OneOrMore({"OrganizationURL"})>>, {})
ContactType ==
  Content(<<Optional({"Extensions"}), Optional({"Company"}),
    Optional({"GivenName"}), Optional({"SurName"}),
    ZeroOrMore({"EmailAddress"}), ZeroOrMore({"TelephoneNumber"})>>,
    {"ContactType"})
AdditionalMetadataLocationType == Content(<<>>, {"Namespace", "TextContent"})
RoleDescriptorType ==
  Content(<<Optional({"Signature"}), Optional({"Extensions"}),
    ZeroOrMore({"KeyDescriptor"}), Optional({"Organization"}),
    ZeroOrMore({"ContactPerson"})>>, {"ProtocolSupportEnumeration"})
RoleDescriptorExtension ==
  ExtendContent(RoleDescriptorType, <<ZeroOrMore({"Foreign"})>>, {})
KeyDescriptorType ==
  Content(<<One({"KeyInfo"}), ZeroOrMore({"EncryptionMethod"})>>, {})
SSODescriptorType ==
  ExtendContent(RoleDescriptorType,
    <<ZeroOrMore({"ArtifactResolutionService"}),
    ZeroOrMore({"SingleLogoutService"}),
    ZeroOrMore({"ManageNameIDService"}), ZeroOrMore({"NameIDFormat"})>>, {})
IDPSSODescriptorType ==
  ExtendContent(SSODescriptorType, <<OneOrMore({"SingleSignOnService"}),
    ZeroOrMore({"NameIDMappingService"}),
    ZeroOrMore({"AssertionIDRequestService"}),
    ZeroOrMore({"AttributeProfile"}), ZeroOrMore({"Attribute"})>>, {})
SPSSODescriptorType ==
  ExtendContent(SSODescriptorType,
    <<OneOrMore({"AssertionConsumerService"}),
    ZeroOrMore({"AttributeConsumingService"})>>, {})
AttributeConsumingServiceType ==
  Content(<<OneOrMore({"ServiceName"}), ZeroOrMore({"ServiceDescription"}),
    OneOrMore({"RequestedAttribute"})>>, {"Index"})
AttributeType == Content(<<ZeroOrMore({"AttributeValue"})>>, {"Name"})
RequestedAttributeType == AttributeType
AuthnAuthorityDescriptorType ==
  ExtendContent(RoleDescriptorType, <<OneOrMore({"AuthnQueryService"}),
    ZeroOrMore({"AssertionIDRequestService"}),
    ZeroOrMore({"NameIDFormat"})>>, {})
PDPDescriptorType ==
  ExtendContent(RoleDescriptorType, <<OneOrMore({"AuthzService"}),
    ZeroOrMore({"AssertionIDRequestService"}),
    ZeroOrMore({"NameIDFormat"})>>, {})
AttributeAuthorityDescriptorType ==
  ExtendContent(RoleDescriptorType, <<OneOrMore({"AttributeService"}),
    ZeroOrMore({"AssertionIDRequestService"}), ZeroOrMore({"NameIDFormat"}),
    ZeroOrMore({"AttributeProfile"}), ZeroOrMore({"Attribute"})>>, {})
AffiliationDescriptorType ==
  Content(<<Optional({"Signature"}), Optional({"Extensions"}),
    OneOrMore({"AffiliateMember"}), ZeroOrMore({"KeyDescriptor"})>>,
    {"AffiliationOwnerID"})
EntityAttributesType == Content(<<OneOrMore({"Attribute", "Assertion"})>>, {})
DigestMethodType == Content(<<ZeroOrMore({"Foreign"})>>, {"Algorithm"})
SigningMethodType == Content(<<ZeroOrMore({"Foreign"})>>, {"Algorithm"})
QueryDescriptorType ==
  ExtendContent(RoleDescriptorType, <<ZeroOrMore({"NameIDFormat"})>>, {})
AuthnQueryDescriptorType == QueryDescriptorType
AttributeQueryDescriptorType ==
  ExtendContent(QueryDescriptorType,
    <<ZeroOrMore({"AttributeConsumingService"})>>, {})
AuthzDecisionQueryDescriptorType ==
  ExtendContent(QueryDescriptorType, <<ZeroOrMore({"ActionNamespace"})>>,
    {})
UIInfoType ==
  Content(<<ZeroOrMore({"DisplayName", "Description", "Keywords", "Logo",
    "InformationURL", "PrivacyStatementURL", "Foreign"})>>, {})
KeywordsType == Content(<<>>, {"Lang", "TextContent"})
LogoType == Content(<<>>, {"Height", "TextContent", "Width"})
DiscoHintsType ==
  Content(<<ZeroOrMore({"IPHint", "DomainHint", "GeolocationHint",
    "Foreign"})>>, {})
BaseIDAbstractType == Content(<<>>, {})
NameIDType == Content(<<>>, {"TextContent"})
EncryptedElementType ==
  Content(<<One({"EncryptedData"}), ZeroOrMore({"EncryptedKey"})>>, {})
AssertionType ==
  Content(<<One({"Issuer"}), Optional({"Signature"}), Optional({"Subject"}),
    Optional({"Conditions"}), Optional({"Advice"}), ZeroOrMore({"Statement",
    "AuthnStatement", "AuthzDecisionStatement", "AttributeStatement"})>>,
    {"ID", "IssueInstant", "Version"})
SubjectType ==
  Choice(Content(<<Optional(Identifiers),
    ZeroOrMore({"SubjectConfirmation"})>>, {}), {Identifiers \cup
    {"SubjectConfirmation"}}, {})
SubjectConfirmationType ==
  Content(<<Optional(Identifiers), Optional({"SubjectConfirmationData"})>>,
    {"Method"})
SubjectConfirmationDataType == Content(<<ZeroOrMore({"Foreign"})>>, {})
KeyInfoConfirmationDataType == Content(<<OneOrMore({"KeyInfo"})>>, {})
ConditionsType ==
  Content(<<ZeroOrMore({"Condition", "AudienceRestriction", "OneTimeUse",
    "ProxyRestriction"})>>, {})
ConditionAbstractType == Content(<<>>, {})
AudienceRestrictionType ==
  ExtendContent(ConditionAbstractType, <<OneOrMore({"Audience"})>>, {})
OneTimeUseType == ConditionAbstractType
ProxyRestrictionType ==
  ExtendContent(ConditionAbstractType, <<ZeroOrMore({"Audience"})>>, {})
AdviceType ==
  Content(<<ZeroOrMore({"AssertionIDRef", "AssertionURIRef", "Assertion",
    "EncryptedAssertion", "Foreign"})>>, {})
StatementAbstractType == Content(<<>>, {})
AuthnStatementType ==
  ExtendContent(StatementAbstractType, <<Optional({"SubjectLocality"}),
    One({"AuthnContext"})>>, {"AuthnInstant"})
SubjectLocalityType == Content(<<>>, {})
AuthnContextType ==
  Choice(Content(<<Optional({"AuthnContextClassRef"}),
    Optional({"AuthnContextDecl", "AuthnContextDeclRef"}),
    ZeroOrMore({"AuthenticatingAuthority"})>>, {}),
    {{"AuthnContextClassRef", "AuthnContextDecl", "AuthnContextDeclRef"}},
    {})
AuthzDecisionStatementType ==
  ExtendContent(StatementAbstractType, <<OneOrMore({"Action"}),
    Optional({"Evidence"})>>, {"Decision", "Resource"})
ActionType == Content(<<>>, {"Namespace", "TextContent"})
EvidenceType ==
  Content(<<OneOrMore({"AssertionIDRef", "AssertionURIRef", "Assertion",
    "EncryptedAssertion"})>>, {})
AttributeStatementType ==
  ExtendContent(StatementAbstractType, <<OneOrMore({"Attribute",
    "EncryptedAttribute"})>>, {})
DelegationRestrictionType ==
  ExtendContent(ConditionAbstractType, <<OneOrMore({"Delegate"})>>, {})
DelegateType == Content(<<One(Identifiers)>>, {})
RequestAbstractType ==
  Content(<<Optional({"Issuer"}), Optional({"Signature"}),
    Optional({"Extensions"})>>, {"ID", "IssueInstant", "Version"})
StatusResponseType ==
  Content(<<Optional({"Issuer"}), Optional({"Signature"}),
    Optional({"Extensions"}), One({"Status"})>>, {"ID", "IssueInstant",
    "Version"})
StatusType ==
  Content(<<One({"StatusCode"}), Optional({"StatusMessage"}),
    Optional({"StatusDetail"})>>, {})
StatusCodeType == Content(<<Optional({"StatusCode"})>>, {"Value"})
StatusDetailType == Content(<<ZeroOrMore({"Foreign"})>>, {})
AssertionIDRequestType ==
  ExtendContent(RequestAbstractType, <<OneOrMore({"AssertionIDRef"})>>, {})
SubjectQueryAbstractType ==
  ExtendContent(RequestAbstractType, <<One({"Subject"})>>, {})
AuthnQueryType ==
  ExtendContent(SubjectQueryAbstractType,
    <<Optional({"RequestedAuthnContext"})>>, {})
RequestedAuthnContextType ==
  Choice(Content(<<ZeroOrMore({"AuthnContextClassRef"}),
    ZeroOrMore({"AuthnContextDeclRef"})>>, {}), {{"AuthnContextClassRef",
    "AuthnContextDeclRef"}}, {<<{"AuthnContextClassRef"},
    {"AuthnContextDeclRef"}>>})
AttributeQueryType ==
  ExtendContent(SubjectQueryAbstractType, <<ZeroOrMore({"Attribute"})>>, {})
AuthzDecisionQueryType ==
  ExtendContent(SubjectQueryAbstractType, <<OneOrMore({"Action"}),
    Optional({"Evidence"})>>, {"Resource"})
AuthnRequestType ==
  ExtendContent(RequestAbstractType, <<Optional({"Subject"}),
    Optional({"NameIDPolicy"}), Optional({"Conditions"}),
    Optional({"RequestedAuthnContext"}), Optional({"Scoping"})>>, {})
NameIDPolicyType == Content(<<>>, {})
ScopingType ==
  Content(<<Optional({"IDPList"}), ZeroOrMore({"RequesterID"})>>, {})
IDPListType ==
  Content(<<OneOrMore({"IDPEntry"}), Optional({"GetComplete"})>>, {})
IDPEntryType == Content(<<>>, {"ProviderID"})
ResponseType ==
  ExtendContent(StatusResponseType, <<ZeroOrMore({"Assertion",
    "EncryptedAssertion"})>>, {})
ArtifactResolveType ==
  ExtendContent(RequestAbstractType, <<One({"Artifact"})>>, {})
ArtifactResponseType ==
  Choice(ExtendContent(StatusResponseType, <<Optional({"Response",
    "LogoutRequest", "Foreign"})>>, {}), {}, {})
ManageNameIDRequestType ==
  ExtendContent(RequestAbstractType, <<One({"NameID", "EncryptedID"}),
    One({"NewID", "NewEncryptedID", "Terminate"})>>, {})
TerminateType == Content(<<>>, {})
LogoutRequestType ==
  ExtendContent(RequestAbstractType, <<One(Identifiers),
    ZeroOrMore({"SessionIndex"})>>, {})
NameIDMappingRequestType ==
  ExtendContent(RequestAbstractType, <<One(Identifiers),
    One({"NameIDPolicy"})>>, {})
NameIDMappingResponseType ==
  ExtendContent(StatusResponseType, <<One({"NameID", "EncryptedID"})>>, {})
=============================================================================
