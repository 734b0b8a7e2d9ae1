---------------------------- MODULE SAML1Protocols ----------------------------
(*****************************************************************************)
(* The XML object classes of saml/saml1/core: the SAML 1.x protocol. For     *)
(* each class: its interface (the declarations of the header), its           *)
(* implementation (the slots, fences, copies and reads of its Impl class),   *)
(* and what its schema validator demands.                                    *)
(*****************************************************************************)
EXTENDS XMLElementClasses

Schema == INSTANCE SAML1Schemas

-----------------------------------------------------------------------------
(* Interfaces.                                                               *)
RespondWith == Has({}, {}, {"TextContent"})
Query == XMLObject
SubjectQuery == Inherits({Query}, Has({"Subject"}, {}, {}))
AuthenticationQuery ==
  Inherits({SubjectQuery}, Has({}, {}, {"AuthenticationMethod"}))
AttributeQuery ==
  Inherits({SubjectQuery}, Has({}, {"AttributeDesignator"}, {"Resource"}))
AuthorizationDecisionQuery ==
  Inherits({SubjectQuery}, Has({"Evidence"}, {"Action"}, {"Resource"}))
RequestAbstractType ==
  Inherits({SignableObject}, Has({}, {"RespondWith"}, {"IssueInstant",
    "MinorVersion", "RequestID"}))
Request ==
  Inherits({RequestAbstractType}, Has({"Query"}, {"AssertionArtifact",
    "AssertionIDReference"}, {}))
StatusCode == Has({"StatusCode"}, {}, {"Value"})
StatusDetail == ElementExtensibleXMLObject
Status == Has({"StatusCode", "StatusDetail", "StatusMessage"}, {}, {})
ResponseAbstractType ==
  Inherits({SignableObject}, Has({}, {}, {"InResponseTo", "IssueInstant",
    "MinorVersion", "Recipient", "ResponseID"}))
Response == Inherits({ResponseAbstractType}, Has({"Status"}, {"Assertion"}, {}))
SimpleElements == {"AssertionArtifact", "StatusMessage"}

-----------------------------------------------------------------------------
(* Implementations.                                                          *)
RespondWithImpl == Leaf(Attrs({"TextContent"}))
QueryImpl == AnyElementImpl
SubjectQueryImpl ==
  Complex(
    <<"Subject">>, {}, Each(<<"Subject">>), Typed(<<"Subject">>), Attrs({}))
AuthenticationQueryImpl ==
  Derive(SubjectQueryImpl, Leaf(
    Attrs({"AuthenticationMethod"})))
AttributeQueryImpl ==
  Derive(SubjectQueryImpl, Complex(
    <<>>, AtEnd({"AttributeDesignator"}), Each(<<"AttributeDesignator">>),
    Typed(<<"AttributeDesignator">>), Attrs({"Resource"})))
AuthorizationDecisionQueryImpl ==
  Derive(SubjectQueryImpl, Complex(
    <<"Evidence">>, Before("Evidence", {"Action"}),
    Each(<<"Action", "Evidence">>), Named(SAML1_NS, <<"Evidence", "Action">>),
    Attrs({"Resource"})))
RequestAbstractTypeImpl ==
  Complex(
    <<"Signature">>, Before("Signature", {"RespondWith"}),
    Each(<<"Signature", "RespondWith">>),
    Named(SAML1P_NS, <<"RespondWith">>) \o Named(XMLSIG_NS, <<"Signature">>),
    Filling({"IssueInstant", "MinorVersion", "RequestID"}, {"IssueInstant",
      "MinorVersion", "RequestID"}))
RequestImpl ==
  Derive(RequestAbstractTypeImpl, Complex(
    <<"Query">>, AtEnd({"AssertionArtifact", "AssertionIDReference"}),
    Each(<<"Query", "AssertionIDReference", "AssertionArtifact">>),
    Typed(<<"Query">>) \o Named(SAML1_NS, <<"AssertionIDReference">>) \o
      Named(SAML1P_NS, <<"AssertionArtifact">>), Attrs({})))
StatusCodeImpl ==
  Complex(
    <<"StatusCode">>, {}, Each(<<"StatusCode">>), Typed(<<"StatusCode">>),
    Attrs({"Value"}))
StatusDetailImpl ==
  Complex(
    <<>>, AtEnd({"UnknownXMLObject"}), Each(<<"UnknownXMLObject">>),
    AnyChild("UnknownXMLObject"), Attrs({}))
StatusImpl ==
  Complex(
    <<"StatusCode", "StatusMessage", "StatusDetail">>, {},
    Each(<<"StatusCode", "StatusMessage", "StatusDetail">>),
    Named(SAML1P_NS, <<"StatusCode", "StatusMessage", "StatusDetail">>),
    Attrs({}))
ResponseAbstractTypeImpl ==
  Complex(
    <<"Signature">>, {}, Each(<<"Signature">>), Named(XMLSIG_NS, <<"Signature">>),
    Filling({"InResponseTo", "IssueInstant", "MinorVersion", "Recipient",
      "ResponseID"}, {"IssueInstant", "MinorVersion", "ResponseID"}))
ResponseImpl ==
  Derive(ResponseAbstractTypeImpl, Complex(
    <<"Status">>, AtEnd({"Assertion"}), Each(<<"Status", "Assertion">>),
    Named(SAML1P_NS, <<"Status">>) \o Typed(<<"Assertion">>), Attrs({})))
SimpleElementImpl == Leaf(Attrs({"TextContent"}))

-----------------------------------------------------------------------------
(* The other families' elements that occur here.                             *)
Imported ==
  [Action |-> SAML1_NS, Assertion |-> SAML1_NS,
    AssertionIDReference |-> SAML1_NS, AttributeDesignator |-> SAML1_NS,
    Evidence |-> SAML1_NS, Foreign |-> OTHER_NS, Signature |-> XMLSIG_NS,
    Subject |-> SAML1_NS]

(* What the application may build: the classes with a builder, and the rest. *)
Classes ==
  [RespondWith |-> Class(RespondWith, RespondWithImpl, Schema!string),
   Query |-> Class(AsElementProxy(Query), QueryImpl, Schema!anyType),
   SubjectQuery |->
     Class(SubjectQuery, SubjectQueryImpl, Schema!SubjectQueryAbstractType),
   AuthenticationQuery |->
     Class(AuthenticationQuery, AuthenticationQueryImpl,
           Schema!AuthenticationQueryType),
   AttributeQuery |->
     Class(AttributeQuery, AttributeQueryImpl, Schema!AttributeQueryType),
   AuthorizationDecisionQuery |->
     Class(AuthorizationDecisionQuery, AuthorizationDecisionQueryImpl,
           Schema!AuthorizationDecisionQueryType),
   RequestAbstractType |->
     Class(RequestAbstractType, RequestAbstractTypeImpl, Schema!RequestAbstractType),
   Request |-> Class(Request, RequestImpl, Schema!RequestType),
   StatusCode |-> Class(StatusCode, StatusCodeImpl, Schema!StatusCodeType),
   StatusDetail |->
     Class(StatusDetail, StatusDetailImpl, Schema!StatusDetailType),
   Status |-> Class(Status, StatusImpl, Schema!StatusType),
   ResponseAbstractType |->
     Class(ResponseAbstractType, ResponseAbstractTypeImpl, Schema!ResponseAbstractType),
   Response |-> Class(Response, ResponseImpl, Schema!ResponseType)]
Unregistered == {"RequestAbstractType", "ResponseAbstractType", "SubjectQuery"}

-----------------------------------------------------------------------------
(* Element names: the namespace a builder gives an element, the family's own *)
(* unless listed, and the names of the builders written by hand.             *)
LocalNames == [class \in DOMAIN Classes \cup SimpleElements |-> class]
Namespaces == <<>>
TypedElements == <<>>
Subclasses ==
  [Query |-> {"AttributeQuery", "AuthenticationQuery",
     "AuthorizationDecisionQuery", "SubjectQuery"},
   RequestAbstractType |-> {"Request"},
   ResponseAbstractType |-> {"Response"},
   SubjectQuery |-> {"AttributeQuery", "AuthenticationQuery",
     "AuthorizationDecisionQuery"}]
Untyped == [UnknownXMLObject |-> {"Foreign"}]
Definitions ==
  [namespace |-> SAML1P_NS, localNames |-> LocalNames, namespaces |-> Namespaces,
   typed |-> TypedElements, imported |-> Imported, classes |-> Classes, simple |-> SimpleElements,
   concrete |-> (DOMAIN Classes \cup SimpleElements) \ (Unregistered),
   subclasses |-> Subclasses, untyped |-> Untyped]

-----------------------------------------------------------------------------
(* Schema validators.  Enumerated values are only present or absent here,    *)
(* and an extension element is always of a foreign namespace.                *)
RespondWithSchemaValidator(e) == Requires(e, {"TextContent"})
AuthenticationQuerySchemaValidator(e) ==
  Requires(e, {"AuthenticationMethod", "Subject"})
AttributeQuerySchemaValidator(e) == Requires(e, {"Subject"})
AuthorizationDecisionQuerySchemaValidator(e) ==
  Requires(e, {"Subject", "Resource", "Action"})
RequestSchemaValidator(e) ==
  /\ Requires(e, {"RequestID", "IssueInstant", "MinorVersion"})
  /\ OnlyOneOf(e, {"Query", "AssertionIDReference", "AssertionArtifact"})
StatusCodeSchemaValidator(e) == Requires(e, {"Value"})
StatusSchemaValidator(e) == Requires(e, {"StatusCode"})
ResponseSchemaValidator(e) ==
  Requires(e, {"ResponseID", "IssueInstant", "Status", "MinorVersion"})
SimpleSchemaValidator(e) == Requires(e, {"TextContent"})

(* The validators registered for a class, run on one element.                *)
Validates(class, e) ==
  /\ class \in {"AssertionArtifact", "StatusMessage"} =>
       SimpleSchemaValidator(e)
  /\ class = "RespondWith" => RespondWithSchemaValidator(e)
  /\ class = "AuthenticationQuery" => AuthenticationQuerySchemaValidator(e)
  /\ class = "AttributeQuery" => AttributeQuerySchemaValidator(e)
  /\ class = "AuthorizationDecisionQuery" =>
       AuthorizationDecisionQuerySchemaValidator(e)
  /\ class = "Request" => RequestSchemaValidator(e)
  /\ class = "StatusCode" => StatusCodeSchemaValidator(e)
  /\ class = "Status" => StatusSchemaValidator(e)
  /\ class = "Response" => ResponseSchemaValidator(e)
=============================================================================
