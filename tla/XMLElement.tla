------------------------------- MODULE XMLElement -------------------------------
(***************************************************************************)
(* One XML object in the hands of the application: built empty or read     *)
(* from a document, then changed through the setters and the typed lists   *)
(* of its interface, and at any moment written out, read back or cloned.   *)
(***************************************************************************)
EXTENDS XMLElementClasses

CONSTANTS
  Library,          \* the registered classes: their descriptions, by family and name
  Accepted(_, _),   \* the schema validators: does a class accept an element
  Families,         \* the families whose classes the application builds
  MaxChanges        \* a bound on the changes made to one object

ASSUME FamiliesDefined == Families \subseteq DOMAIN Library
ASSUME ChangesBounded == MaxChanges \in Nat

Roots == UNION {{<<f, c>> : c \in DOMAIN Library[f]} : f \in Families}

VARIABLES
  xmlClass,      \* <<family, class name>>
  m_children,    \* its cells
  m_attributes,  \* the attributes that have a value
  changes        \* changes made so far

vars == <<xmlClass, m_children, m_attributes, changes>>

-----------------------------------------------------------------------------
(* Names and types of children, as the family of a class sees them.         *)
Tokens(class) == class.family.children
ElementName(class, token) == class.family.names[token]
LocalName(class, token) == ElementName(class, token)[2]

(* dynamic_cast *)
Subtypes(class, type) ==
  {type} \cup IF type \in DOMAIN class.family.subclasses
              THEN class.family.subclasses[type] ELSE {}
IsA(class, token, type) == token \in Subtypes(class, type)

Members(class) == class.interface.singles \cup class.interface.lists

(* What a caller that knows the types hands to a member: an object whose    *)
(* class the member names, and no member names more closely.                *)
Candidates(class, member) ==
  IF member \in DOMAIN class.family.untyped THEN class.family.untyped[member]
  ELSE LET Closer == (Members(class) \cap Subtypes(class, member)) \ {member} IN
       (Subtypes(class, member) \cap Tokens(class))
         \ UNION {Subtypes(class, closer) : closer \in Closer}

-----------------------------------------------------------------------------
(* processChildElement: the first test that accepts the child takes it; a   *)
(* typed test of a singleton that is already there passes the child on.     *)
Accepts(class, step, child) ==
  /\ step.how \in {"named and typed", "named"} =>
       ElementName(class, child) = <<step.ns, LocalName(class, step.member)>>
  /\ step.how \in {"named and typed", "typed"} => IsA(class, child, step.member)
  /\ step.how = "foreign" => ElementName(class, child)[1] # step.ns
  /\ step.how = "except" => LocalName(class, child) \notin step.names

Readers(class, child) ==
  {i \in DOMAIN class.impl.reads : Accepts(class, class.impl.reads[i], child)}
Takers(class, into, child) ==
  {i \in Readers(class, child) :
     \/ class.impl.reads[i].how = "except"
     \/ IsList(class.impl, class.impl.reads[i].member)
     \/ HasSlotFree(into, class.impl.reads[i].member)}

First(indices) == CHOOSE i \in indices : \A j \in indices : i <= j

ProcessChild(class, into, child) ==
  Put(class.impl, into, class.impl.reads[First(Takers(class, into, child))].member, child)

(* unmarshall: a document's children in order; one that no test accepts     *)
(* raises UnmarshallingException.                                           *)
Rejected == <<Cell(None, None, FALSE)>>
ReadChild(class, into, child) ==
  IF into = Rejected \/ Takers(class, into, child) = {} THEN Rejected
  ELSE ProcessChild(class, into, child)
Unmarshall(class, document) ==
  LET read[n \in 0..Len(document)] ==
        IF n = 0 THEN Fresh(class.impl) ELSE ReadChild(class, read[n - 1], document[n])
  IN read[Len(document)]

MarshallAttributes(class, given) ==
  (given \cap class.impl.attributes.written) \cup class.impl.attributes.filled
UnmarshallAttributes(class, given) == given \cap class.impl.attributes.read

-----------------------------------------------------------------------------
(* The copy constructor: group after group; the members of a group in the   *)
(* order of the source's children, each to the first list that casts it.    *)
(* An object that still has its DOM is cloned through a copy of the DOM     *)
(* instead; this is the clone of one that has none.                         *)
Target(class, group, cell) ==
  LET fits == {i \in DOMAIN group : IsA(class, cell.child, group[i])}
  IN IF Len(group) = 1 \/ fits = {} THEN cell.member ELSE group[First(fits)]

CopyChild(class, group, into, cell) ==
  IF cell.member \in ToSet(group)
  THEN Put(class.impl, into, Target(class, group, cell), cell.child)
  ELSE into
CopyGroup(class, group, into, children) ==
  LET copied[n \in 0..Len(children)] ==
        IF n = 0 THEN into ELSE CopyChild(class, group, copied[n - 1], children[n])
  IN copied[Len(children)]
Clone(class, from) ==
  LET groups == class.impl.copies
      children == Filled(from)
      copied[n \in 0..Len(groups)] ==
        IF n = 0 THEN Fresh(class.impl) ELSE CopyGroup(class, groups[n], copied[n - 1], children)
  IN copied[Len(groups)]
CloneAttributes(class, given) == given \cap class.impl.attributes.copied

-----------------------------------------------------------------------------
(* The schema: the place of each name in the content model, and whether a   *)
(* sequence of children with these attributes is valid.                     *)
Declares(content, name) == \E i \in DOMAIN content.order : name \in content.order[i].names
PlaceOf(content, name) == CHOOSE i \in DOMAIN content.order : name \in content.order[i].names
Names(class, children) == [i \in DOMAIN children |-> LocalName(class, children[i])]

InSchemaOrder(content, names) ==
  \A i, j \in DOMAIN names :
    i < j /\ Declares(content, names[i]) /\ Declares(content, names[j]) =>
      PlaceOf(content, names[i]) <= PlaceOf(content, names[j])

Conforms(content, names, given) ==
  LET Occurs(set) == \E i \in DOMAIN names : names[i] \in set
      Times(set) == Cardinality({i \in DOMAIN names : names[i] \in set})
  IN /\ \A i \in DOMAIN names : Declares(content, names[i])
     /\ InSchemaOrder(content, names)
     /\ \A i \in DOMAIN content.order :
          /\ Times(content.order[i].names) >= content.order[i].min
          /\ content.order[i].many \/ Times(content.order[i].names) <= 1
     /\ \A set \in content.some : Occurs(set)
     /\ \A pair \in content.apart : ~(Occurs(pair[1]) /\ Occurs(pair[2]))
     /\ content.required \subseteq given

(* The smallest document of a class: of what its schema demands, one each.  *)
Demanded(content) ==
  {content.order[i].names : i \in {j \in DOMAIN content.order : content.order[j].min = 1}}
    \cup content.some
SmallestDocument(class) ==
  LET NamedAs(name) == {token \in Tokens(class) : LocalName(class, token) = name}
      chosen == {CHOOSE name \in names : NamedAs(name) # {} : names \in Demanded(class.content)}
      inOrder == SetToSortSeq(chosen, LAMBDA a, b :
                   PlaceOf(class.content, a) < PlaceOf(class.content, b))
  IN [i \in DOMAIN inOrder |-> CHOOSE token \in NamedAs(inOrder[i]) : TRUE]

-----------------------------------------------------------------------------
(* A new object, or one read from the smallest document of its class. *)
Built(class) ==
  \/ m_children = Fresh(class.impl) /\ m_attributes = {}
  \/ /\ m_children = Unmarshall(class, SmallestDocument(class))
     /\ m_attributes = class.content.required

Init ==
  /\ xmlClass \in Roots
  /\ Built(Library[xmlClass[1]][xmlClass[2]])
  /\ changes = 0

Change(newCells, newAttributes) ==
  /\ changes < MaxChanges
  /\ changes' = changes + 1
  /\ m_children' = newCells
  /\ m_attributes' = newAttributes
  /\ UNCHANGED xmlClass

(* set<Child>(child) and set<Child>(nullptr). *)
SetSingleton(class, member) ==
  \E child \in Candidates(class, member) :
    Change(SetChild(m_children, member, child), m_attributes)
ClearSingleton(member) ==
  /\ ~HasSlotFree(m_children, member)
  /\ Change(SetChild(m_children, member, None), m_attributes)

(* get<Child>s().push_back(child) and get<Child>s().erase(position). *)
PushBack(class, list) ==
  \E child \in Candidates(class, list) :
    Change(AddChild(class.impl, m_children, list, child), m_attributes)
Erase(list) ==
  \E i \in DOMAIN m_children :
    /\ m_children[i].member = list /\ ~m_children[i].fixed
    /\ Change(RemoveAt(m_children, i), m_attributes)

SetAttribute(name) == name \notin m_attributes /\ Change(m_children, m_attributes \cup {name})
ClearAttribute(name) == name \in m_attributes /\ Change(m_children, m_attributes \ {name})

Step(class) ==
  \/ \E member \in class.interface.singles : SetSingleton(class, member) \/ ClearSingleton(member)
  \/ \E list \in class.interface.lists : PushBack(class, list) \/ Erase(list)
  \/ \E name \in class.interface.attributes : SetAttribute(name) \/ ClearAttribute(name)

Next == Step(Library[xmlClass[1]][xmlClass[2]])

Spec == Init /\ [][Next]_vars

-----------------------------------------------------------------------------
(* The class of the object; the operators below take it as an argument.     *)
ClassOfObject == Library[xmlClass[1]][xmlClass[2]]

(* The layout a class asks for.  A cell belongs to the place of its slot or,  *)
(* in a list, to that of the list's fence, which stands behind the members.   *)
PlaceIn(impl, cell) ==
  LET slot == IF cell.fixed THEN cell.member ELSE FenceOf(impl, cell.member)
  IN IF slot = END THEN Len(impl.slots) + 1
     ELSE CHOOSE k \in DOMAIN impl.slots : impl.slots[k] = slot
MayPrecede(impl, a, b) ==
  \/ PlaceIn(impl, a) < PlaceIn(impl, b)
  \/ PlaceIn(impl, a) = PlaceIn(impl, b) /\ ~a.fixed

SlotCells(class) ==
  UNION {{Cell(m, child, TRUE) : child \in Candidates(class, m)} : m \in class.interface.singles}
ListCells(class) ==
  UNION {{Cell(m, child, FALSE) : child \in Candidates(class, m)} : m \in class.interface.lists}
FilledCells(class) == SlotCells(class) \cup ListCells(class)
EmptyCells(class) ==
  {Cell(class.impl.slots[k], None, TRUE) : k \in DOMAIN class.impl.slots}

LaidOut(class, cells) ==
  /\ cells \in Seq(FilledCells(class) \cup EmptyCells(class))
  /\ \A i, j \in DOMAIN cells : i < j => MayPrecede(class.impl, cells[i], cells[j])
  /\ \A k \in DOMAIN class.impl.slots :
       \E i \in DOMAIN cells : cells[i].fixed /\ cells[i].member = class.impl.slots[k]

(* What makes a description sound: the members of the interface have their  *)
(* slots and fences; in the order of the places nothing comes before what   *)
(* the schema puts first, unless the two are alternatives; and the smallest *)
(* document is read into that layout.                                       *)
HasPlaces(class) ==
  /\ class.impl.slots \in Seq(ToSet(class.impl.slots))
  /\ \A i, j \in DOMAIN class.impl.slots :
       class.impl.slots[i] = class.impl.slots[j] => i = j
  /\ \A pair \in class.impl.lists : pair[2] = END \/ IsSlot(class.impl, pair[2])
  /\ ~IsSlot(class.impl, END)
  /\ \A member \in class.interface.singles :
       IsSlot(class.impl, member) /\ ~IsList(class.impl, member)
  /\ \A list \in class.interface.lists : IsList(class.impl, list)
  /\ \A member \in Members(class) : Candidates(class, member) \subseteq Tokens(class)
  /\ None \notin Tokens(class)

Alternatives(content, a, b) ==
  \E pair \in content.apart : (a \in pair[1] /\ b \in pair[2]) \/ (a \in pair[2] /\ b \in pair[1])
FollowsSchema(class) ==
  \A a, b \in FilledCells(class) :
    LET first == LocalName(class, a.child)
        next == LocalName(class, b.child)
    IN MayPrecede(class.impl, a, b) /\ Declares(class.content, first)
         /\ Declares(class.content, next) /\ ~Alternatives(class.content, first, next)
       => PlaceOf(class.content, first) <= PlaceOf(class.content, next)

ReadsItsSmallest(class) ==
  /\ LaidOut(class, Unmarshall(class, SmallestDocument(class)))
  /\ class.content.required \subseteq class.interface.attributes

(* A child is copied once, to where it was; two lists that share a place    *)
(* are copied in one pass, unless only one of the two may have members.     *)
CopiesItsOwn(class) ==
  LET groups == class.impl.copies
      Copies(g, cell) == cell.member \in ToSet(groups[g])
  IN /\ groups \in Seq(ToSet(groups))
     /\ \A cell \in FilledCells(class) : \E g \in DOMAIN groups :
          /\ Copies(g, cell) /\ Target(class, groups[g], cell) = cell.member
          /\ \A h \in DOMAIN groups : Copies(h, cell) => h = g
     /\ \A a, b \in FilledCells(class) :
          ~a.fixed /\ ~b.fixed /\ PlaceIn(class.impl, a) = PlaceIn(class.impl, b) =>
            \/ \E g \in DOMAIN groups : Copies(g, a) /\ Copies(g, b)
            \/ Alternatives(class.content, LocalName(class, a.child), LocalName(class, b.child))
     /\ class.interface.attributes \subseteq class.impl.attributes.copied

(* Some test accepts each child, and the first that does puts it where it   *)
(* was, or at least at the same place; or all go to one list, which keeps   *)
(* them in the order of the document.                                       *)
Reader(class, child) == class.impl.reads[First(Readers(class, child))].member

Unread == {"DelegationRestrictionType"}
QueryRoles ==
  {"AuthnQueryDescriptorType", "AttributeQueryDescriptorType",
   "AuthzDecisionQueryDescriptorType"}

Readable(class) == {cell \in FilledCells(class) : cell.child \notin Unread}
KeepsPlace(class, cell) ==
  LET member == Reader(class, cell.child) IN
  IF cell.fixed THEN member = cell.member
  ELSE /\ IsList(class.impl, member)
       /\ PlaceIn(class.impl, Cell(member, cell.child, FALSE)) = PlaceIn(class.impl, cell)
ReadsItsOwn(class) ==
  /\ class.impl.reads \in Seq(ToSet(class.impl.reads))
  /\ \A cell \in Readable(class) : Readers(class, cell.child) # {}
  /\ \/ \A cell \in Readable(class) : KeepsPlace(class, cell)
     \/ \E pair \in class.impl.lists :
          \A cell \in Readable(class) : Reader(class, cell.child) = pair[1]
  /\ class.interface.attributes \subseteq
       class.impl.attributes.written \cap class.impl.attributes.read
ReadsIntoItsMembers(class) ==
  \A cell \in Readable(class) :
    cell.child \notin QueryRoles => Reader(class, cell.child) = cell.member

(* The class whose clone leaves its children out. *)
Uncopied == {<<"saml2", "Condition">>}

Sound == {root \in Roots :
            LET class == Library[root[1]][root[2]]
            IN /\ HasPlaces(class) /\ FollowsSchema(class) /\ ReadsItsSmallest(class)
               /\ ReadsItsOwn(class)
               /\ root \notin Uncopied => CopiesItsOwn(class)
               /\ root # <<"md", "RoleDescriptorType">> => ReadsIntoItsMembers(class)}

TypeOK ==
  /\ xmlClass \in Sound
  /\ LaidOut(ClassOfObject, m_children)
  /\ m_attributes \subseteq ClassOfObject.interface.attributes
  /\ changes \in 0..MaxChanges

Document == Serialize(m_children)
Holds(types) == \E i \in DOMAIN m_children : m_children[i].child \in types

Valid(class) == Conforms(class.content, Names(class, Document), m_attributes)
ChoseOnce(class) ==
  LET Occurs(set) == \E i \in DOMAIN Document : LocalName(class, Document[i]) \in set
  IN \A pair \in class.content.apart : ~(Occurs(pair[1]) /\ Occurs(pair[2]))
OrderedAsIn(class) ==
  ChoseOnce(class) => InSchemaOrder(class.content, Names(class, Document))
CopiedAsIn(class) ==
  /\ ChoseOnce(class) => Filled(Clone(class, m_children)) = Filled(m_children)
  /\ CloneAttributes(class, m_attributes) = m_attributes
ReadBackAsIn(class) ==
  LET readBack == Unmarshall(class, Document) IN
  /\ readBack # Rejected
  /\ Serialize(readBack) = Document
  /\ m_attributes \subseteq
       UnmarshallAttributes(class, MarshallAttributes(class, m_attributes))
SameMembersAsIn(class) == Filled(Unmarshall(class, Document)) = Filled(m_children)

(* In whatever order the caller adds children, the document lists them in   *)
(* the order of the schema, unless the caller mixed two alternatives of a   *)
(* choice.  The code relies on a slot pushed per list and on the iterator   *)
(* each list inserts before.                                                *)
ChildrenInOrder == OrderedAsIn(ClassOfObject)

(* A clone has the children of the original, in the same order and in the   *)
(* same members, and its attributes: the copy constructors re-add children  *)
(* list by list, and one pass too many or too few reorders or loses some.   *)
(* Excepted is the Condition of SAML 2.0: see EveryCloneIsEqual.            *)
CloneIsEqual == xmlClass \notin Uncopied => CopiedAsIn(ClassOfObject)

(* What is written can be read: the same children in the same order and     *)
(* every attribute, and every child is put back in the member it was in, so *)
(* that the typed getters still find it.  Excepted are a delegation         *)
(* restriction, whose builder names an element its parent does not know,    *)
(* and, from the members, the three query roles of an entity and the        *)
(* children of an unknown role.                                             *)
DocumentSurvives ==
  ~Holds(Unread) =>
    /\ ReadBackAsIn(ClassOfObject)
    /\ xmlClass # <<"md", "RoleDescriptorType">> /\ ~Holds(QueryRoles) =>
          SameMembersAsIn(ClassOfObject)

(* The schema validators accept no element the schema forbids.  Excepted:   *)
(* an empty Subject, an AuthnContext with both a declaration and a          *)
(* reference to one, a SAML 1 AttributeStatement without its Subject, an    *)
(* Action without a Namespace, and an affiliation that also has query roles. *)
LaxerClasses ==
  {<<"saml2", "Subject">>, <<"saml2", "AuthnContext">>, <<"saml2", "Action">>,
   <<"saml1", "AttributeStatement">>}
Element == [cells |-> m_children, attributes |-> m_attributes]
ValidatorsSound ==
  xmlClass \notin LaxerClasses /\ ~Holds(QueryRoles) =>
    (Accepted(xmlClass, Element) => Valid(ClassOfObject))

(* The schema validators accept every element the schema allows.  Excepted  *)
(* are the classes whose validator asks for more: something inside          *)
(* Conditions, ProxyRestriction and SubjectLocality; one Attribute that is  *)
(* not encrypted; an AuthenticationMethod; a Comparison; one way to name    *)
(* the assertion consumer service; the Subject that standard statements     *)
(* are about; a role that is not a query role.                              *)
StricterClasses ==
  {<<"saml2", "Conditions">>, <<"saml2", "ProxyRestriction">>,
   <<"saml2", "SubjectLocality">>, <<"saml2", "AttributeStatement">>,
   <<"saml2", "Assertion">>, <<"saml2p", "RequestedAuthnContext">>,
   <<"saml2p", "AuthnRequest">>, <<"saml1", "Conditions">>,
   <<"saml1", "SubjectLocality">>, <<"saml1p", "AuthenticationQuery">>}
ValidatorsComplete ==
  xmlClass \notin StricterClasses /\ ~Holds(QueryRoles) =>
    (Valid(ClassOfObject) => Accepted(xmlClass, Element))

(* What the unit tests of the library require of every class they build: a  *)
(* clone is written as its original is.  The code does not keep this for    *)
(* the Condition of SAML 2.0, whose clone has none of its children.         *)
EveryCloneIsEqual == CopiedAsIn(ClassOfObject)

(* What the library says of the objects the customized builders return:     *)
(* they are RoleDescriptor elements with the xsi:type of the query role, so *)
(* an entity read back still has them in the list of that role.  The code   *)
(* does not keep this: see the README.                                      *)
QueryRolesSurvive ==
  xmlClass = <<"md", "EntityDescriptor">> => SameMembersAsIn(ClassOfObject)
=============================================================================
