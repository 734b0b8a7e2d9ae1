------------------------------ MODULE SAMLLibrary ------------------------------
(***************************************************************************)
(* The XML object classes of the library, by family: what the five         *)
(* register functions (registerSAML1Assertions, ...) leave registered.     *)
(***************************************************************************)
EXTENDS XMLElementClasses
LOCAL INSTANCE TLC

md == INSTANCE SAML2Metadata
saml2 == INSTANCE SAML2Assertions
saml2p == INSTANCE SAML2Protocols
saml1 == INSTANCE SAML1Assertions
saml1p == INSTANCE SAML1Protocols

SimpleElement == Class(Has({}, {}, {"TextContent"}), md!SimpleElementImpl, md!Schema!string)

(* The children a family knows, by the name that marks their elements. *)
KnownChildren(family) == family.concrete \cup DOMAIN family.imported

NameOf(family, token) ==
  IF token \in DOMAIN family.typed THEN family.typed[token]
  ELSE << IF token \in DOMAIN family.imported THEN family.imported[token]
          ELSE IF token \in DOMAIN family.namespaces THEN family.namespaces[token]
          ELSE family.namespace,
          IF token \in DOMAIN family.localNames THEN family.localNames[token] ELSE token >>

(* The members the unmarshallers of a family ask for. *)
MembersRead(family) ==
  UNION {{class.impl.reads[i].member : i \in DOMAIN class.impl.reads} :
           class \in {family.classes[c] : c \in DOMAIN family.classes}}

(* The classes of a family, each with what it sees of its family; the       *)
(* simple elements share one description.                                   *)
Described(family) ==
  LET vocabulary ==
        [children |-> KnownChildren(family),
         names |-> [token \in KnownChildren(family) \cup MembersRead(family) |->
                      NameOf(family, token)],
         subclasses |-> family.subclasses, untyped |-> family.untyped]
  IN [class \in family.concrete |->
        [family |-> vocabulary] @@
        (IF class \in family.simple THEN SimpleElement ELSE family.classes[class])]

Registered ==
  [md |-> Described(md!Definitions), saml2 |-> Described(saml2!Definitions),
   saml2p |-> Described(saml2p!Definitions), saml1 |-> Described(saml1!Definitions),
   saml1p |-> Described(saml1p!Definitions)]

(* SchemaValidatorSuite: every validator registered for the class must accept. *)
AcceptedBySuite(class, e) ==
  /\ class[1] = "md" => md!Validates(class[2], e)
  /\ class[1] = "saml2" => saml2!Validates(class[2], e)
  /\ class[1] = "saml2p" => saml2p!Validates(class[2], e)
  /\ class[1] = "saml1" => saml1!Validates(class[2], e)
  /\ class[1] = "saml1p" => saml1p!Validates(class[2], e)
=============================================================================
