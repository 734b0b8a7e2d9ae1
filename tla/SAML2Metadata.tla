----------------------------- MODULE SAML2Metadata -----------------------------
(*****************************************************************************)
(* The XML object classes of saml/saml2/metadata: SAML 2.0 metadata and      *)
(* its extensions. For each class: its interface (the declarations of the    *)
(* header), its implementation (the slots, fences, copies and reads of its   *)
(* Impl class), and what its schema validator demands.                       *)
(*****************************************************************************)
EXTENDS XMLElementClasses

Schema == INSTANCE SAML2Schemas
saml2 == INSTANCE SAML2Assertions

-----------------------------------------------------------------------------
(* Interfaces.                                                               *)
CacheableSAMLObject == Has({}, {}, {"CacheDuration"})
TimeBoundSAMLObject == Has({}, {}, {"ValidUntil"})
localizedNameType == Has({}, {}, {"Lang", "TextContent"})
localizedURIType == Has({}, {}, {"Lang", "TextContent"})
OrganizationName == localizedNameType
OrganizationDisplayName == localizedNameType
OrganizationURL == localizedURIType
Extensions == ElementExtensibleXMLObject
Organization ==
  Inherits({AttributeExtensibleXMLObject}, Has({"Extensions"},
    {"OrganizationDisplayName", "OrganizationName", "OrganizationURL"}, {}))
ContactPerson ==
  Inherits({AttributeExtensibleXMLObject}, Has({"Company", "Extensions",
    "GivenName", "SurName"}, {"EmailAddress", "TelephoneNumber"},
    {"ContactType"}))
AdditionalMetadataLocation == Has({}, {}, {"Namespace", "TextContent"})
KeyDescriptor == Has({"KeyInfo"}, {"EncryptionMethod"}, {"Use"})
RoleDescriptor ==
  Inherits({AttributeExtensibleXMLObject, SignableObject,
    CacheableSAMLObject, TimeBoundSAMLObject}, Has({"Extensions",
    "Organization"}, {"ContactPerson", "KeyDescriptor"}, {"ErrorURL", "ID",
    "ProtocolSupportEnumeration"}))
RoleDescriptorType ==
  Inherits({RoleDescriptor, ElementExtensibleXMLObject}, Has({}, {}, {}))
EndpointType ==
  Inherits({ElementProxy}, Has({}, {}, {"Binding", "Location",
    "ResponseLocation"}))
IndexedEndpointType ==
  Inherits({EndpointType}, Has({}, {}, {"Index", "isDefault"}))
ArtifactResolutionService == IndexedEndpointType
SingleLogoutService == EndpointType
ManageNameIDService == EndpointType
SSODescriptorType ==
  Inherits({RoleDescriptor}, Has({}, {"ArtifactResolutionService",
    "ManageNameIDService", "NameIDFormat", "SingleLogoutService"}, {}))
SingleSignOnService == EndpointType
NameIDMappingService == EndpointType
AssertionIDRequestService == EndpointType
IDPSSODescriptor ==
  Inherits({SSODescriptorType}, Has({}, {"AssertionIDRequestService",
    "Attribute", "AttributeProfile", "NameIDMappingService",
    "SingleSignOnService"}, {"WantAuthnRequestsSigned"}))
ServiceName == localizedNameType
ServiceDescription == localizedNameType
RequestedAttribute == Inherits({saml2!Attribute}, Has({}, {}, {"isRequired"}))
AttributeConsumingService ==
  Has({}, {"RequestedAttribute", "ServiceDescription", "ServiceName"},
    {"Index", "isDefault"})
AssertionConsumerService == IndexedEndpointType
SPSSODescriptor ==
  Inherits({SSODescriptorType}, Has({}, {"AssertionConsumerService",
    "AttributeConsumingService"}, {"AuthnRequestsSigned",
    "WantAssertionsSigned"}))
AuthnQueryService == EndpointType
AuthnAuthorityDescriptor ==
  Inherits({RoleDescriptor}, Has({}, {"AssertionIDRequestService",
    "AuthnQueryService", "NameIDFormat"}, {}))
AuthzService == EndpointType
PDPDescriptor ==
  Inherits({RoleDescriptor}, Has({}, {"AssertionIDRequestService",
    "AuthzService", "NameIDFormat"}, {}))
AttributeService == EndpointType
AttributeAuthorityDescriptor ==
  Inherits({RoleDescriptor}, Has({}, {"AssertionIDRequestService",
    "Attribute", "AttributeProfile", "AttributeService", "NameIDFormat"},
    {}))
QueryDescriptorType ==
  Inherits({RoleDescriptor}, Has({}, {"NameIDFormat"},
    {"WantAssertionsSigned"}))
AuthnQueryDescriptorType == QueryDescriptorType
AttributeQueryDescriptorType ==
  Inherits({QueryDescriptorType}, Has({}, {"AttributeConsumingService"},
    {}))
AuthzDecisionQueryDescriptorType ==
  Inherits({QueryDescriptorType}, Has({}, {"ActionNamespace"}, {}))
AffiliationDescriptor ==
  Inherits({AttributeExtensibleXMLObject, SignableObject,
    CacheableSAMLObject, TimeBoundSAMLObject}, Has({"Extensions"},
    {"AffiliateMember", "KeyDescriptor"}, {"AffiliationOwnerID", "ID"}))
EntityDescriptor ==
  Inherits({AttributeExtensibleXMLObject, SignableObject,
    CacheableSAMLObject, TimeBoundSAMLObject}, Has({"AffiliationDescriptor",
    "Extensions", "Organization"}, {"AdditionalMetadataLocation",
    "AttributeAuthorityDescriptor", "AttributeQueryDescriptorType",
    "AuthnAuthorityDescriptor", "AuthnQueryDescriptorType",
    "AuthzDecisionQueryDescriptorType", "ContactPerson", "IDPSSODescriptor",
    "PDPDescriptor", "RoleDescriptor", "SPSSODescriptor"}, {"EntityID",
    "ID"}))
EntitiesDescriptor ==
  Inherits({SignableObject, CacheableSAMLObject, TimeBoundSAMLObject},
    Has({"Extensions"}, {"EntitiesDescriptor", "EntityDescriptor"}, {"ID",
    "Name"}))
DiscoveryResponse == IndexedEndpointType
RequestInitiator == EndpointType
EntityAttributes == Has({}, {"Assertion", "Attribute"}, {})
DigestMethod ==
  Inherits({ElementExtensibleXMLObject}, Has({}, {}, {"Algorithm"}))
SigningMethod ==
  Inherits({ElementExtensibleXMLObject}, Has({}, {}, {"Algorithm",
    "MaxKeySize", "MinKeySize"}))
DisplayName == localizedNameType
Description == localizedNameType
Keywords == Has({}, {}, {"Lang", "TextContent"})
Logo == Has({}, {}, {"Height", "Lang", "TextContent", "Width"})
InformationURL == localizedURIType
PrivacyStatementURL == localizedURIType
UIInfo ==
  Inherits({ElementExtensibleXMLObject}, Has({}, {"Description",
    "DisplayName", "InformationURL", "Keywords", "Logo",
    "PrivacyStatementURL"}, {}))
DiscoHints ==
  Inherits({ElementExtensibleXMLObject}, Has({}, {"DomainHint",
    "GeolocationHint", "IPHint"}, {}))
SimpleElements ==
  {"ActionNamespace", "AffiliateMember", "AttributeProfile", "Company",
    "DomainHint", "EmailAddress", "GeolocationHint", "GivenName", "IPHint",
    "NameIDFormat", "SourceID", "SurName", "TelephoneNumber"}

-----------------------------------------------------------------------------
(* Implementations.                                                          *)
localizedNameTypeImpl == Leaf(Attrs({"Lang", "TextContent"}))
localizedURITypeImpl == Leaf(Attrs({"Lang", "TextContent"}))
OrganizationNameImpl == localizedNameTypeImpl
OrganizationDisplayNameImpl == localizedNameTypeImpl
OrganizationURLImpl == localizedURITypeImpl
ServiceNameImpl == localizedNameTypeImpl
ServiceDescriptionImpl == localizedNameTypeImpl
ExtensionsImpl ==
  Complex(
    <<>>, AtEnd({"UnknownXMLObject"}), Each(<<"UnknownXMLObject">>),
    Foreign(SAML20MD_NS), Attrs({}))
OrganizationImpl ==
  Complex(
    <<"Extensions", "OrganizationDisplayName", "OrganizationURL">>,
    Before("OrganizationDisplayName", {"OrganizationName"}) \cup
      Before("OrganizationURL", {"OrganizationDisplayName"}) \cup
      AtEnd({"OrganizationURL"}),
    Each(<<"Extensions", "OrganizationName", "OrganizationDisplayName",
      "OrganizationURL">>),
    Named(SAML20MD_NS, <<"Extensions", "OrganizationName",
      "OrganizationDisplayName", "OrganizationURL">>), Open({}))
ContactPersonImpl ==
  Complex(
    <<"Extensions", "Company", "GivenName", "SurName", "TelephoneNumber">>,
    Before("TelephoneNumber", {"EmailAddress"}) \cup AtEnd({"TelephoneNumber"}),
    Each(<<"Extensions", "Company", "GivenName", "SurName", "EmailAddress",
      "TelephoneNumber">>),
    Named(SAML20MD_NS, <<"Extensions", "Company", "GivenName", "SurName",
      "EmailAddress", "TelephoneNumber">>), Open({"ContactType"}))
AdditionalMetadataLocationImpl == Leaf(Attrs({"Namespace", "TextContent"}))
KeyDescriptorImpl ==
  Complex(
    <<"KeyInfo">>, AtEnd({"EncryptionMethod"}),
    Each(<<"KeyInfo", "EncryptionMethod">>),
    Named(XMLSIG_NS, <<"KeyInfo">>) \o Named(SAML20MD_NS, <<"EncryptionMethod">>),
    Attrs({"Use"}))
EndpointTypeImpl ==
  Complex(
    <<>>, AtEnd({"UnknownXMLObject"}), Each(<<"UnknownXMLObject">>),
    Foreign(SAML20MD_NS), Open({"Binding", "Location", "ResponseLocation"}))
IndexedEndpointTypeImpl ==
  Derive(EndpointTypeImpl, Leaf(
    Attrs({"Index", "isDefault"})))
ArtifactResolutionServiceImpl == IndexedEndpointTypeImpl
SingleLogoutServiceImpl == EndpointTypeImpl
ManageNameIDServiceImpl == EndpointTypeImpl
SingleSignOnServiceImpl == EndpointTypeImpl
NameIDMappingServiceImpl == EndpointTypeImpl
AssertionIDRequestServiceImpl == EndpointTypeImpl
AssertionConsumerServiceImpl == IndexedEndpointTypeImpl
AuthnQueryServiceImpl == EndpointTypeImpl
AuthzServiceImpl == EndpointTypeImpl
AttributeServiceImpl == EndpointTypeImpl
RoleDescriptorImpl_KeysLast ==
  Complex(
    <<"Signature", "Extensions", "Organization", "ContactPerson">>,
    AtEnd({"KeyDescriptor"}) \cup OwnPlace({"ContactPerson"}),
    Each(<<"Signature", "Extensions", "Organization", "KeyDescriptor",
      "ContactPerson">>),
    Named(XMLSIG_NS, <<"Signature">>) \o Named(SAML20MD_NS, <<"Extensions",
      "KeyDescriptor", "Organization", "ContactPerson">>),
    Open({"CacheDuration", "ErrorURL", "ID", "ProtocolSupportEnumeration",
      "ValidUntil"}))
RoleDescriptorImpl ==
  Complex(
    <<"Signature", "Extensions", "Organization", "ContactPerson">>,
    Before("Organization", {"KeyDescriptor"}) \cup OwnPlace({"ContactPerson"}),
    Each(<<"Signature", "Extensions", "Organization", "KeyDescriptor",
      "ContactPerson">>),
    Named(XMLSIG_NS, <<"Signature">>) \o Named(SAML20MD_NS, <<"Extensions",
      "KeyDescriptor", "Organization", "ContactPerson">>),
    Open({"CacheDuration", "ErrorURL", "ID", "ProtocolSupportEnumeration",
      "ValidUntil"}))
RoleDescriptorTypeImpl ==
  Derive(RoleDescriptorImpl, Complex(
    <<>>, AtEnd({"UnknownXMLObject"}), Each(<<"UnknownXMLObject">>),
    AnyChild("UnknownXMLObject"), Attrs({})))
SSODescriptorTypeImpl ==
  Derive(RoleDescriptorImpl, Complex(
    <<"ArtifactResolutionService", "SingleLogoutService",
      "ManageNameIDService", "NameIDFormat">>,
    OwnPlace({"ArtifactResolutionService", "ManageNameIDService",
      "NameIDFormat", "SingleLogoutService"}),
    Each(<<"ArtifactResolutionService", "SingleLogoutService",
      "ManageNameIDService", "NameIDFormat">>),
    Named(SAML20MD_NS, <<"ArtifactResolutionService", "SingleLogoutService",
      "ManageNameIDService", "NameIDFormat">>), Attrs({})))
IDPSSODescriptorImpl ==
  Derive(SSODescriptorTypeImpl, Complex(
    <<"SingleSignOnService", "NameIDMappingService",
      "AssertionIDRequestService", "AttributeProfile">>,
    OwnPlace({"AssertionIDRequestService", "AttributeProfile",
      "NameIDMappingService", "SingleSignOnService"}) \cup
      AtEnd({"Attribute"}),
    Each(<<"SingleSignOnService", "NameIDMappingService",
      "AssertionIDRequestService", "AttributeProfile", "Attribute">>),
    Named(SAML20MD_NS, <<"SingleSignOnService", "NameIDMappingService",
      "AssertionIDRequestService", "AttributeProfile">>) \o Named(SAML20_NS,
      <<"Attribute">>), Attrs({"WantAuthnRequestsSigned"})))
RequestedAttributeImpl ==
  Complex(
    <<>>, AtEnd({"AttributeValue"}), Each(<<"AttributeValue">>),
    AnyChild("AttributeValue"),
    Open({"FriendlyName", "Name", "NameFormat", "isRequired"}))
AttributeConsumingServiceImpl ==
  Complex(
    <<"ServiceDescription", "RequestedAttribute">>,
    Before("ServiceDescription", {"ServiceName"}) \cup
      Before("RequestedAttribute", {"ServiceDescription"}) \cup
      AtEnd({"RequestedAttribute"}),
    Each(<<"ServiceName", "ServiceDescription", "RequestedAttribute">>),
    Named(SAML20MD_NS, <<"ServiceName", "ServiceDescription",
      "RequestedAttribute">>), Attrs({"Index", "isDefault"}))
SPSSODescriptorImpl_ServicesUnread ==
  Derive(SSODescriptorTypeImpl, Complex(
    <<"AssertionConsumerService">>,
    OwnPlace({"AssertionConsumerService"}) \cup
      AtEnd({"AttributeConsumingService"}),
    Each(<<"AssertionConsumerService", "AttributeConsumingService">>),
    <<>>, Attrs({"AuthnRequestsSigned", "WantAssertionsSigned"})))
SPSSODescriptorImpl ==
  Derive(SSODescriptorTypeImpl, Complex(
    <<"AssertionConsumerService">>,
    OwnPlace({"AssertionConsumerService"}) \cup
      AtEnd({"AttributeConsumingService"}),
    Each(<<"AssertionConsumerService", "AttributeConsumingService">>),
    Named(SAML20MD_NS, <<"AssertionConsumerService",
      "AttributeConsumingService">>),
    Attrs({"AuthnRequestsSigned", "WantAssertionsSigned"})))
AuthnAuthorityDescriptorImpl ==
  Derive(RoleDescriptorImpl, Complex(
    <<"AuthnQueryService", "AssertionIDRequestService">>,
    OwnPlace({"AssertionIDRequestService", "AuthnQueryService"}) \cup
      AtEnd({"NameIDFormat"}),
    Each(<<"AuthnQueryService", "AssertionIDRequestService", "NameIDFormat">>),
    Named(SAML20MD_NS, <<"AuthnQueryService", "AssertionIDRequestService",
      "NameIDFormat">>), Attrs({})))
PDPDescriptorImpl ==
  Derive(RoleDescriptorImpl, Complex(
    <<"AuthzService", "AssertionIDRequestService">>,
    OwnPlace({"AssertionIDRequestService", "AuthzService"}) \cup
      AtEnd({"NameIDFormat"}),
    Each(<<"AuthzService", "AssertionIDRequestService", "NameIDFormat">>),
    Named(SAML20MD_NS, <<"AuthzService", "AssertionIDRequestService",
      "NameIDFormat">>), Attrs({})))
AttributeAuthorityDescriptorImpl ==
  Derive(RoleDescriptorImpl, Complex(
    <<"AttributeService", "AssertionIDRequestService", "NameIDFormat",
      "AttributeProfile">>,
    OwnPlace({"AssertionIDRequestService", "AttributeProfile",
      "AttributeService", "NameIDFormat"}) \cup AtEnd({"Attribute"}),
    Each(<<"AttributeService", "AssertionIDRequestService", "NameIDFormat",
      "AttributeProfile", "Attribute">>),
    Named(SAML20MD_NS, <<"AttributeService", "AssertionIDRequestService",
      "NameIDFormat", "AttributeProfile">>) \o Named(SAML20_NS,
      <<"Attribute">>), Attrs({})))
QueryDescriptorTypeImpl ==
  Derive(RoleDescriptorImpl, Complex(
    <<"NameIDFormat">>, OwnPlace({"NameIDFormat"}), Each(<<"NameIDFormat">>),
    Named(SAML20MD_NS, <<"NameIDFormat">>), Attrs({"WantAssertionsSigned"})))
AuthnQueryDescriptorTypeImpl == QueryDescriptorTypeImpl
AttributeQueryDescriptorTypeImpl ==
  Derive(QueryDescriptorTypeImpl, Complex(
    <<>>, AtEnd({"AttributeConsumingService"}),
    Each(<<"AttributeConsumingService">>),
    Named(SAML20MD_NS, <<"AttributeConsumingService">>), Attrs({})))
AuthzDecisionQueryDescriptorTypeImpl ==
  Derive(QueryDescriptorTypeImpl, Complex(
    <<>>, AtEnd({"ActionNamespace"}), Each(<<"ActionNamespace">>),
    Named(SAML20MD_QUERY_EXT_NS, <<"ActionNamespace">>), Attrs({})))
AffiliationDescriptorImpl ==
  Complex(
    <<"Signature", "Extensions", "AffiliateMember">>,
    OwnPlace({"AffiliateMember"}) \cup AtEnd({"KeyDescriptor"}),
    Each(<<"Signature", "Extensions", "KeyDescriptor", "AffiliateMember">>),
    Named(XMLSIG_NS, <<"Signature">>) \o Named(SAML20MD_NS, <<"Extensions",
      "AffiliateMember", "KeyDescriptor">>),
    Open({"AffiliationOwnerID", "CacheDuration", "ID", "ValidUntil"}))
EntityDescriptorImpl ==
  Complex(
    <<"Signature", "Extensions", "AffiliationDescriptor", "Organization",
      "ContactPerson">>,
    Before("AffiliationDescriptor", {"AttributeAuthorityDescriptor",
      "AttributeQueryDescriptorType", "AuthnAuthorityDescriptor",
      "AuthnQueryDescriptorType", "AuthzDecisionQueryDescriptorType",
      "IDPSSODescriptor", "PDPDescriptor", "RoleDescriptor",
      "SPSSODescriptor"}) \cup OwnPlace({"ContactPerson"}) \cup
      AtEnd({"AdditionalMetadataLocation"}),
    Each(<<"Signature", "Extensions", "AffiliationDescriptor",
      "Organization">>) \o Bag(<<"IDPSSODescriptor", "SPSSODescriptor",
      "AuthnAuthorityDescriptor", "AttributeAuthorityDescriptor",
      "PDPDescriptor", "AuthnQueryDescriptorType",
      "AttributeQueryDescriptorType", "AuthzDecisionQueryDescriptorType",
      "RoleDescriptor">>) \o Each(<<"ContactPerson",
      "AdditionalMetadataLocation">>),
    Named(XMLSIG_NS, <<"Signature">>) \o Named(SAML20MD_NS, <<"Extensions",
      "IDPSSODescriptor", "SPSSODescriptor", "AuthnAuthorityDescriptor",
      "AttributeAuthorityDescriptor", "PDPDescriptor">>) \o
      Named(SAML20MD_QUERY_EXT_NS, <<"AuthnQueryDescriptorType",
      "AttributeQueryDescriptorType", "AuthzDecisionQueryDescriptorType">>) \o
      Named(SAML20MD_NS, <<"RoleDescriptor", "AffiliationDescriptor",
      "Organization", "ContactPerson", "AdditionalMetadataLocation">>),
    Open({"CacheDuration", "EntityID", "ID", "ValidUntil"}))
EntitiesDescriptorImpl_GroupsFirst ==
  Complex(
    <<"Signature", "Extensions">>,
    AtEnd({"EntitiesDescriptor", "EntityDescriptor"}),
    Each(<<"Signature", "Extensions", "EntitiesDescriptor", "EntityDescriptor">>),
    Named(XMLSIG_NS, <<"Signature">>) \o Named(SAML20MD_NS, <<"Extensions",
      "EntityDescriptor", "EntitiesDescriptor">>),
    Attrs({"CacheDuration", "ID", "Name", "ValidUntil"}))
EntitiesDescriptorImpl ==
  Complex(
    <<"Signature", "Extensions">>,
    AtEnd({"EntitiesDescriptor", "EntityDescriptor"}),
    Each(<<"Signature", "Extensions">>) \o Bag(<<"EntityDescriptor",
      "EntitiesDescriptor">>),
    Named(XMLSIG_NS, <<"Signature">>) \o Named(SAML20MD_NS, <<"Extensions",
      "EntityDescriptor", "EntitiesDescriptor">>),
    Attrs({"CacheDuration", "ID", "Name", "ValidUntil"}))
DiscoveryResponseImpl == IndexedEndpointTypeImpl
RequestInitiatorImpl == EndpointTypeImpl
EntityAttributesImpl ==
  Complex(
    <<>>, AtEnd({"Assertion", "Attribute"}), Bag(<<"Attribute", "Assertion">>),
    Named(SAML20_NS, <<"Attribute", "Assertion">>), Attrs({}))
DigestMethodImpl ==
  Complex(
    <<>>, AtEnd({"UnknownXMLObject"}), Each(<<"UnknownXMLObject">>),
    AnyChild("UnknownXMLObject"), Attrs({"Algorithm"}))
SigningMethodImpl ==
  Complex(
    <<>>, AtEnd({"UnknownXMLObject"}), Each(<<"UnknownXMLObject">>),
    AnyChild("UnknownXMLObject"),
    Attrs({"Algorithm", "MaxKeySize", "MinKeySize"}))
DisplayNameImpl == localizedNameTypeImpl
DescriptionImpl == localizedNameTypeImpl
InformationURLImpl == localizedURITypeImpl
PrivacyStatementURLImpl == localizedURITypeImpl
KeywordsImpl == Leaf(Attrs({"Lang", "TextContent"}))
LogoImpl == Leaf(Attrs({"Height", "Lang", "TextContent", "Width"}))
UIInfoImpl ==
  Complex(
    <<>>,
    AtEnd({"Description", "DisplayName", "InformationURL", "Keywords", "Logo",
      "PrivacyStatementURL", "UnknownXMLObject"}),
    Bag(<<"DisplayName", "Description", "Keywords", "Logo", "InformationURL",
      "PrivacyStatementURL", "UnknownXMLObject">>),
    Named(SAML20MD_UI_NS, <<"DisplayName", "Description", "Keywords", "Logo",
      "InformationURL", "PrivacyStatementURL">>) \o Foreign(SAML20MD_UI_NS),
    Attrs({}))
DiscoHintsImpl ==
  Complex(
    <<>>, AtEnd({"DomainHint", "GeolocationHint", "IPHint", "UnknownXMLObject"}),
    Bag(<<"IPHint", "DomainHint", "GeolocationHint", "UnknownXMLObject">>),
    Named(SAML20MD_UI_NS, <<"IPHint", "DomainHint", "GeolocationHint">>) \o
      Foreign(SAML20MD_UI_NS), Attrs({}))
SimpleElementImpl == Leaf(Attrs({"TextContent"}))

-----------------------------------------------------------------------------
(* The other families' elements that occur here.                             *)
Imported ==
  [Assertion |-> SAML20_NS, Attribute |-> SAML20_NS,
    AttributeValue |-> SAML20_NS, EncryptionMethod |-> SAML20MD_NS,
    Foreign |-> OTHER_NS, KeyInfo |-> XMLSIG_NS, Signature |-> XMLSIG_NS]

(* What the application may build: the classes with a builder, and the rest. *)
Classes ==
  [localizedNameType |->
     Class(localizedNameType, localizedNameTypeImpl, Schema!localizedNameType),
   localizedURIType |->
     Class(localizedURIType, localizedURITypeImpl, Schema!localizedURIType),
   OrganizationName |->
     Class(OrganizationName, OrganizationNameImpl, Schema!localizedNameType),
   OrganizationDisplayName |->
     Class(OrganizationDisplayName, OrganizationDisplayNameImpl,
           Schema!localizedNameType),
   OrganizationURL |->
     Class(OrganizationURL, OrganizationURLImpl, Schema!localizedURIType),
   Extensions |-> Class(Extensions, ExtensionsImpl, Schema!ExtensionsType),
   Organization |->
     Class(Organization, OrganizationImpl, Schema!OrganizationType),
   ContactPerson |-> Class(ContactPerson, ContactPersonImpl, Schema!ContactType),
   AdditionalMetadataLocation |->
     Class(AdditionalMetadataLocation, AdditionalMetadataLocationImpl,
           Schema!AdditionalMetadataLocationType),
   KeyDescriptor |->
     Class(KeyDescriptor, KeyDescriptorImpl, Schema!KeyDescriptorType),
   RoleDescriptorType |->
     Class(RoleDescriptorType, RoleDescriptorTypeImpl, Schema!RoleDescriptorExtension),
   EndpointType |-> Class(EndpointType, EndpointTypeImpl, Schema!EndpointType),
   IndexedEndpointType |->
     Class(IndexedEndpointType, IndexedEndpointTypeImpl, Schema!IndexedEndpointType),
   ArtifactResolutionService |->
     Class(ArtifactResolutionService, ArtifactResolutionServiceImpl,
           Schema!IndexedEndpointType),
   SingleLogoutService |->
     Class(SingleLogoutService, SingleLogoutServiceImpl, Schema!EndpointType),
   ManageNameIDService |->
     Class(ManageNameIDService, ManageNameIDServiceImpl, Schema!EndpointType),
   SSODescriptorType |->
     Class(SSODescriptorType, SSODescriptorTypeImpl, Schema!SSODescriptorType),
   SingleSignOnService |->
     Class(SingleSignOnService, SingleSignOnServiceImpl, Schema!EndpointType),
   NameIDMappingService |->
     Class(NameIDMappingService, NameIDMappingServiceImpl, Schema!EndpointType),
   AssertionIDRequestService |->
     Class(AssertionIDRequestService, AssertionIDRequestServiceImpl,
           Schema!EndpointType),
   IDPSSODescriptor |->
     Class(IDPSSODescriptor, IDPSSODescriptorImpl, Schema!IDPSSODescriptorType),
   ServiceName |-> Class(ServiceName, ServiceNameImpl, Schema!localizedNameType),
   ServiceDescription |->
     Class(ServiceDescription, ServiceDescriptionImpl, Schema!localizedNameType),
   RequestedAttribute |->
     Class(RequestedAttribute, RequestedAttributeImpl, Schema!RequestedAttributeType),
   AttributeConsumingService |->
     Class(AttributeConsumingService, AttributeConsumingServiceImpl,
           Schema!AttributeConsumingServiceType),
   AssertionConsumerService |->
     Class(AssertionConsumerService, AssertionConsumerServiceImpl,
           Schema!IndexedEndpointType),
   SPSSODescriptor |->
     Class(SPSSODescriptor, SPSSODescriptorImpl, Schema!SPSSODescriptorType),
   AuthnQueryService |->
     Class(AuthnQueryService, AuthnQueryServiceImpl, Schema!EndpointType),
   AuthnAuthorityDescriptor |->
     Class(AuthnAuthorityDescriptor, AuthnAuthorityDescriptorImpl,
           Schema!AuthnAuthorityDescriptorType),
   AuthzService |-> Class(AuthzService, AuthzServiceImpl, Schema!EndpointType),
   PDPDescriptor |->
     Class(PDPDescriptor, PDPDescriptorImpl, Schema!PDPDescriptorType),
   AttributeService |->
     Class(AttributeService, AttributeServiceImpl, Schema!EndpointType),
   AttributeAuthorityDescriptor |->
     Class(AttributeAuthorityDescriptor, AttributeAuthorityDescriptorImpl,
           Schema!AttributeAuthorityDescriptorType),
   QueryDescriptorType |->
     Class(QueryDescriptorType, QueryDescriptorTypeImpl, Schema!QueryDescriptorType),
   AuthnQueryDescriptorType |->
     Class(AuthnQueryDescriptorType, AuthnQueryDescriptorTypeImpl,
           Schema!AuthnQueryDescriptorType),
   AttributeQueryDescriptorType |->
     Class(AttributeQueryDescriptorType, AttributeQueryDescriptorTypeImpl,
           Schema!AttributeQueryDescriptorType),
   AuthzDecisionQueryDescriptorType |->
     Class(AuthzDecisionQueryDescriptorType, AuthzDecisionQueryDescriptorTypeImpl,
           Schema!AuthzDecisionQueryDescriptorType),
   AffiliationDescriptor |->
     Class(AffiliationDescriptor, AffiliationDescriptorImpl,
           Schema!AffiliationDescriptorType),
   EntityDescriptor |->
     Class(EntityDescriptor, EntityDescriptorImpl, Schema!EntityDescriptorType),
   EntitiesDescriptor |->
     Class(EntitiesDescriptor, EntitiesDescriptorImpl, Schema!EntitiesDescriptorType),
   DiscoveryResponse |->
     Class(DiscoveryResponse, DiscoveryResponseImpl, Schema!IndexedEndpointType),
   RequestInitiator |->
     Class(RequestInitiator, RequestInitiatorImpl, Schema!EndpointType),
   EntityAttributes |->
     Class(EntityAttributes, EntityAttributesImpl, Schema!EntityAttributesType),
   DigestMethod |->
     Class(DigestMethod, DigestMethodImpl, Schema!DigestMethodType),
   SigningMethod |->
     Class(SigningMethod, SigningMethodImpl, Schema!SigningMethodType),
   DisplayName |-> Class(DisplayName, DisplayNameImpl, Schema!localizedNameType),
   Description |-> Class(Description, DescriptionImpl, Schema!localizedNameType),
   Keywords |-> Class(Keywords, KeywordsImpl, Schema!KeywordsType),
   Logo |-> Class(Logo, LogoImpl, Schema!LogoType),
   InformationURL |->
     Class(InformationURL, InformationURLImpl, Schema!localizedURIType),
   PrivacyStatementURL |->
     Class(PrivacyStatementURL, PrivacyStatementURLImpl, Schema!localizedURIType),
   UIInfo |-> Class(UIInfo, UIInfoImpl, Schema!UIInfoType),
   DiscoHints |-> Class(DiscoHints, DiscoHintsImpl, Schema!DiscoHintsType)]
Unregistered == {"QueryDescriptorType", "SSODescriptorType"}

-----------------------------------------------------------------------------
(* Element names: the namespace a builder gives an element, the family's own *)
(* unless listed, and the names of the builders written by hand.             *)
LocalNames ==
  [class \in DOMAIN Classes \cup SimpleElements |->
     CASE class \in {"AttributeQueryDescriptorType", "AuthnQueryDescriptorType",
            "AuthzDecisionQueryDescriptorType", "RoleDescriptorType"} ->
            "RoleDescriptor"
       [] OTHER -> class]
Namespaces ==
  [ActionNamespace |-> SAML20MD_QUERY_EXT_NS,
    Description |-> SAML20MD_UI_NS, DigestMethod |-> OTHER_NS,
    DiscoHints |-> SAML20MD_UI_NS, DiscoveryResponse |-> OTHER_NS,
    DisplayName |-> SAML20MD_UI_NS, DomainHint |-> SAML20MD_UI_NS,
    EntityAttributes |-> OTHER_NS, GeolocationHint |-> SAML20MD_UI_NS,
    IPHint |-> SAML20MD_UI_NS, InformationURL |-> SAML20MD_UI_NS,
    Keywords |-> SAML20MD_UI_NS, Logo |-> SAML20MD_UI_NS,
    PrivacyStatementURL |-> SAML20MD_UI_NS, RequestInitiator |-> OTHER_NS,
    SigningMethod |-> OTHER_NS, SourceID |-> OTHER_NS,
    UIInfo |-> SAML20MD_UI_NS]
TypedElements ==
  [RoleDescriptorType |-> <<SAML20MD_NS, LocalNames["RoleDescriptorType"]>>,
   AuthnQueryDescriptorType |-> <<SAML20MD_NS, LocalNames["AuthnQueryDescriptorType"]>>,
   AttributeQueryDescriptorType |-> <<SAML20MD_NS, LocalNames["AttributeQueryDescriptorType"]>>,
   AuthzDecisionQueryDescriptorType |-> <<SAML20MD_NS, LocalNames["AuthzDecisionQueryDescriptorType"]>>]
(* Types whose builder makes the caller name the element.                    *)
Nameless == {"EndpointType", "IndexedEndpointType", "localizedNameType", "localizedURIType"}
Subclasses ==
  [EndpointType |-> {"ArtifactResolutionService", "AssertionConsumerService",
     "AssertionIDRequestService", "AttributeService", "AuthnQueryService",
     "AuthzService", "DiscoveryResponse", "IndexedEndpointType",
     "ManageNameIDService", "NameIDMappingService", "RequestInitiator",
     "SingleLogoutService", "SingleSignOnService"},
   IndexedEndpointType |-> {"ArtifactResolutionService",
     "AssertionConsumerService", "DiscoveryResponse"},
   QueryDescriptorType |-> {"AttributeQueryDescriptorType",
     "AuthnQueryDescriptorType", "AuthzDecisionQueryDescriptorType"},
   RoleDescriptor |-> {"AttributeAuthorityDescriptor",
     "AttributeQueryDescriptorType", "AuthnAuthorityDescriptor",
     "AuthnQueryDescriptorType", "AuthzDecisionQueryDescriptorType",
     "IDPSSODescriptor", "PDPDescriptor", "QueryDescriptorType",
     "RoleDescriptorType", "SPSSODescriptor", "SSODescriptorType"},
   SSODescriptorType |-> {"IDPSSODescriptor", "SPSSODescriptor"},
   localizedNameType |-> {"Description", "DisplayName",
     "OrganizationDisplayName", "OrganizationName", "ServiceDescription",
     "ServiceName"},
   localizedURIType |-> {"InformationURL", "OrganizationURL",
     "PrivacyStatementURL"}]
Untyped ==
  [UnknownXMLObject |-> {"Foreign"}, AttributeValue |-> {"AttributeValue"}]
Definitions ==
  [namespace |-> SAML20MD_NS, localNames |-> LocalNames, namespaces |-> Namespaces,
   typed |-> TypedElements, imported |-> Imported, classes |-> Classes, simple |-> SimpleElements,
   concrete |-> (DOMAIN Classes \cup SimpleElements) \ (Unregistered \cup Nameless),
   subclasses |-> Subclasses, untyped |-> Untyped]

-----------------------------------------------------------------------------
(* Schema validators.  Enumerated values are only present or absent here,    *)
(* and an extension element is always of a foreign namespace.                *)
localizedNameTypeSchemaValidator(e) == Requires(e, {"TextContent", "Lang"})
localizedURITypeSchemaValidator(e) == Requires(e, {"TextContent", "Lang"})
OrganizationNameSchemaValidator(e) == Requires(e, {"TextContent", "Lang"})
OrganizationDisplayNameSchemaValidator(e) ==
  Requires(e, {"TextContent", "Lang"})
OrganizationURLSchemaValidator(e) == Requires(e, {"TextContent", "Lang"})
ExtensionsSchemaValidator(e) == HasChildren(e)
OrganizationSchemaValidator(e) ==
  Requires(e, {"OrganizationName", "OrganizationDisplayName",
    "OrganizationURL"})
ContactPersonSchemaValidator(e) == Requires(e, {"ContactType"})
AdditionalMetadataLocationSchemaValidator(e) ==
  Requires(e, {"Namespace", "TextContent"})
KeyDescriptorSchemaValidator_WithUse(e) == Requires(e, {"KeyInfo", "Use"})
KeyDescriptorSchemaValidator(e) == Requires(e, {"KeyInfo"})
RoleDescriptorSchemaValidator(e) == Requires(e, {"ProtocolSupportEnumeration"})
EndpointTypeSchemaValidator(e) == Requires(e, {"Binding", "Location"})
IndexedEndpointTypeSchemaValidator(e) ==
  EndpointTypeSchemaValidator(e) /\ Requires(e, {"Index"})
ArtifactResolutionServiceSchemaValidator(e) ==
  IndexedEndpointTypeSchemaValidator(e)
SingleLogoutServiceSchemaValidator(e) == EndpointTypeSchemaValidator(e)
ManageNameIDServiceSchemaValidator(e) == EndpointTypeSchemaValidator(e)
SingleSignOnServiceSchemaValidator(e) == EndpointTypeSchemaValidator(e)
NameIDMappingServiceSchemaValidator(e) == EndpointTypeSchemaValidator(e)
AssertionIDRequestServiceSchemaValidator(e) == EndpointTypeSchemaValidator(e)
IDPSSODescriptorSchemaValidator_RoleOnly(e) == RoleDescriptorSchemaValidator(e)
IDPSSODescriptorSchemaValidator(e) ==
  /\ RoleDescriptorSchemaValidator(e)
  /\ Requires(e, {"SingleSignOnService"})
ServiceNameSchemaValidator(e) == Requires(e, {"TextContent", "Lang"})
ServiceDescriptionSchemaValidator(e) == Requires(e, {"TextContent", "Lang"})
RequestedAttributeSchemaValidator(e) == Requires(e, {"Name"})
AttributeConsumingServiceSchemaValidator(e) ==
  Requires(e, {"Index", "ServiceName", "RequestedAttribute"})
AssertionConsumerServiceSchemaValidator(e) ==
  IndexedEndpointTypeSchemaValidator(e)
SPSSODescriptorSchemaValidator(e) ==
  /\ RoleDescriptorSchemaValidator(e)
  /\ Requires(e, {"AssertionConsumerService"})
AuthnQueryServiceSchemaValidator(e) == EndpointTypeSchemaValidator(e)
AuthnAuthorityDescriptorSchemaValidator(e) ==
  /\ RoleDescriptorSchemaValidator(e)
  /\ Requires(e, {"AuthnQueryService"})
AuthzServiceSchemaValidator(e) == EndpointTypeSchemaValidator(e)
PDPDescriptorSchemaValidator(e) ==
  /\ RoleDescriptorSchemaValidator(e)
  /\ Requires(e, {"AuthzService"})
AttributeServiceSchemaValidator(e) == EndpointTypeSchemaValidator(e)
AttributeAuthorityDescriptorSchemaValidator(e) ==
  /\ RoleDescriptorSchemaValidator(e)
  /\ Requires(e, {"AttributeService"})
AffiliationDescriptorSchemaValidator(e) ==
  Requires(e, {"AffiliationOwnerID", "AffiliateMember"})
EntityDescriptorSchemaValidator(e) ==
  /\ Requires(e, {"EntityID"})
  /\ IF OneOf(e, {"RoleDescriptor", "IDPSSODescriptor", "SPSSODescriptor",
                  "AuthnAuthorityDescriptor", "AttributeAuthorityDescriptor",
                  "PDPDescriptor"})
     THEN ~Given(e, "AffiliationDescriptor")
     ELSE Given(e, "AffiliationDescriptor")
EntitiesDescriptorSchemaValidator(e) ==
  OneOf(e, {"EntityDescriptor", "EntitiesDescriptor"})
DiscoveryResponseSchemaValidator(e) == IndexedEndpointTypeSchemaValidator(e)
RequestInitiatorSchemaValidator(e) == EndpointTypeSchemaValidator(e)
EntityAttributesSchemaValidator(e) == HasChildren(e)
DigestMethodSchemaValidator(e) == Requires(e, {"Algorithm"})
SigningMethodSchemaValidator(e) == Requires(e, {"Algorithm"})
DisplayNameSchemaValidator(e) == Requires(e, {"TextContent", "Lang"})
DescriptionSchemaValidator(e) == Requires(e, {"TextContent", "Lang"})
KeywordsSchemaValidator(e) == Requires(e, {"TextContent", "Lang"})
LogoSchemaValidator(e) == Requires(e, {"TextContent", "Height", "Width"})
InformationURLSchemaValidator(e) == Requires(e, {"TextContent", "Lang"})
PrivacyStatementURLSchemaValidator(e) == Requires(e, {"TextContent", "Lang"})
SimpleSchemaValidator(e) == Requires(e, {"TextContent"})

(* The validators registered for a class, run on one element.                *)
Validates(class, e) ==
  /\ class \in {"ActionNamespace", "AffiliateMember", "AttributeProfile",
       "Company", "DomainHint", "EmailAddress", "GeolocationHint",
       "GivenName", "IPHint", "NameIDFormat", "SourceID", "SurName",
       "TelephoneNumber"} => SimpleSchemaValidator(e)
  /\ class \in {"AuthnQueryDescriptorType", "AttributeQueryDescriptorType",
       "AuthzDecisionQueryDescriptorType", "RoleDescriptorType"} =>
       RoleDescriptorSchemaValidator(e)
  /\ class = "localizedNameType" => localizedNameTypeSchemaValidator(e)
  /\ class = "localizedURIType" => localizedURITypeSchemaValidator(e)
  /\ class = "OrganizationName" => OrganizationNameSchemaValidator(e)
  /\ class = "OrganizationDisplayName" =>
       OrganizationDisplayNameSchemaValidator(e)
  /\ class = "OrganizationURL" => OrganizationURLSchemaValidator(e)
  /\ class = "Extensions" => ExtensionsSchemaValidator(e)
  /\ class = "Organization" => OrganizationSchemaValidator(e)
  /\ class = "ContactPerson" => ContactPersonSchemaValidator(e)
  /\ class = "AdditionalMetadataLocation" =>
       AdditionalMetadataLocationSchemaValidator(e)
  /\ class = "KeyDescriptor" => KeyDescriptorSchemaValidator(e)
  /\ class = "EndpointType" => EndpointTypeSchemaValidator(e)
  /\ class = "IndexedEndpointType" => IndexedEndpointTypeSchemaValidator(e)
  /\ class = "ArtifactResolutionService" =>
       ArtifactResolutionServiceSchemaValidator(e)
  /\ class = "SingleLogoutService" => SingleLogoutServiceSchemaValidator(e)
  /\ class = "ManageNameIDService" => ManageNameIDServiceSchemaValidator(e)
  /\ class = "SingleSignOnService" => SingleSignOnServiceSchemaValidator(e)
  /\ class = "NameIDMappingService" => NameIDMappingServiceSchemaValidator(e)
  /\ class = "AssertionIDRequestService" =>
       AssertionIDRequestServiceSchemaValidator(e)
  /\ class = "IDPSSODescriptor" => IDPSSODescriptorSchemaValidator(e)
  /\ class = "ServiceName" => ServiceNameSchemaValidator(e)
  /\ class = "ServiceDescription" => ServiceDescriptionSchemaValidator(e)
  /\ class = "RequestedAttribute" => RequestedAttributeSchemaValidator(e)
  /\ class = "AttributeConsumingService" =>
       AttributeConsumingServiceSchemaValidator(e)
  /\ class = "AssertionConsumerService" =>
       AssertionConsumerServiceSchemaValidator(e)
  /\ class = "SPSSODescriptor" => SPSSODescriptorSchemaValidator(e)
  /\ class = "AuthnQueryService" => AuthnQueryServiceSchemaValidator(e)
  /\ class = "AuthnAuthorityDescriptor" =>
       AuthnAuthorityDescriptorSchemaValidator(e)
  /\ class = "AuthzService" => AuthzServiceSchemaValidator(e)
  /\ class = "PDPDescriptor" => PDPDescriptorSchemaValidator(e)
  /\ class = "AttributeService" => AttributeServiceSchemaValidator(e)
  /\ class = "AttributeAuthorityDescriptor" =>
       AttributeAuthorityDescriptorSchemaValidator(e)
  /\ class = "AffiliationDescriptor" =>
       AffiliationDescriptorSchemaValidator(e)
  /\ class = "EntityDescriptor" => EntityDescriptorSchemaValidator(e)
  /\ class = "EntitiesDescriptor" => EntitiesDescriptorSchemaValidator(e)
  /\ class = "DiscoveryResponse" => DiscoveryResponseSchemaValidator(e)
  /\ class = "RequestInitiator" => RequestInitiatorSchemaValidator(e)
  /\ class = "EntityAttributes" => EntityAttributesSchemaValidator(e)
  /\ class = "DigestMethod" => DigestMethodSchemaValidator(e)
  /\ class = "SigningMethod" => SigningMethodSchemaValidator(e)
  /\ class = "DisplayName" => DisplayNameSchemaValidator(e)
  /\ class = "Description" => DescriptionSchemaValidator(e)
  /\ class = "Keywords" => KeywordsSchemaValidator(e)
  /\ class = "Logo" => LogoSchemaValidator(e)
  /\ class = "InformationURL" => InformationURLSchemaValidator(e)
  /\ class = "PrivacyStatementURL" => PrivacyStatementURLSchemaValidator(e)
=============================================================================
