---------------------------- MODULE XMLElementClasses ----------------------------
(***************************************************************************)
(* The vocabulary in which the XML object classes of the library are       *)
(* described, and what the xmltooling base classes and macros do with such *)
(* a description.  Every class of saml/saml*/**/impl keeps its children in *)
(* one list, m_children: a slot for each singleton child at a fixed place, *)
(* and the members of each typed list inserted before that list's fence.   *)
(* A class is then data: its slots, the fences of its lists, the order in  *)
(* which its copy constructor copies, the tests its unmarshaller applies   *)
(* to a child, and its attributes.  The values of attributes and the text  *)
(* of elements are left out: only presence is kept.                        *)
(***************************************************************************)
EXTENDS Naturals, Sequences, FiniteSets, SequencesExt

None == "-"
END == "end"

(* The namespaces of samlconstants and xmlconstants. *)
SAML1_NS == "saml1"
SAML1P_NS == "saml1p"
SAML20_NS == "saml2"
SAML20P_NS == "saml2p"
SAML20MD_NS == "md"
SAML20MD_QUERY_EXT_NS == "query"
SAML20MD_UI_NS == "mdui"
SAML20_DELEGATION_CONDITION_NS == "del"
XMLSIG_NS == "ds"
XMLENC_NS == "xenc"
OTHER_NS == "other"

-----------------------------------------------------------------------------
(* Interfaces: the singletons a caller may set, the lists it may fill and  *)
(* the attributes it may set.                                              *)
Has(singles, lists, attributes) ==
  [singles |-> singles, lists |-> lists, attributes |-> attributes]
Inherits(bases, own) ==
  Has(own.singles \cup UNION {base.singles : base \in bases},
      own.lists \cup UNION {base.lists : base \in bases},
      own.attributes \cup UNION {base.attributes : base \in bases})

XMLObject == Has({}, {}, {})
SignableObject == Has({"Signature"}, {}, {})
ElementExtensibleXMLObject == Has({}, {"UnknownXMLObject"}, {})
AttributeExtensibleXMLObject == Has({}, {}, {"AnyAttribute"})
ElementProxy ==
  Inherits({ElementExtensibleXMLObject, AttributeExtensibleXMLObject}, XMLObject)
(* What a caller can do with an object of a class whose header promises     *)
(* less than the AnyElementImpl its builder returns.                        *)
AsElementProxy(interface) == Inherits({interface, ElementProxy}, XMLObject)

-----------------------------------------------------------------------------
(* Implementations.  A fence is the slot a list's members are inserted     *)
(* before, END when they are appended.                                     *)
AtEnd(members) == {<<m, END>> : m \in members}
Before(slot, members) == {<<m, slot>> : m \in members}
OwnPlace(members) == {<<m, m>> : m \in members}

(* What the copy constructor copies: member by member, or a bag of lists in *)
(* one pass over the children, each going to the first list that fits it.   *)
Each(members) == [i \in DOMAIN members |-> <<members[i]>>]
Bag(members) == <<members>>

(* What the unmarshaller tests a child for, in order. *)
ReadStep(how, ns, member) == [how |-> how, ns |-> ns, member |-> member, names |-> {}]
Named(ns, members) == [i \in DOMAIN members |-> ReadStep("named and typed", ns, members[i])]
Typed(members) == [i \in DOMAIN members |-> ReadStep("typed", None, members[i])]
NamedOnly(ns, members) == [i \in DOMAIN members |-> ReadStep("named", ns, members[i])]
Foreign(ns) == <<ReadStep("foreign", ns, "UnknownXMLObject")>>
AnyChild(member) == <<ReadStep("any", None, member)>>
Except(member, names) == <<[ReadStep("except", None, member) EXCEPT !.names = names]>>

(* Attributes copied, marshalled, unmarshalled, and filled in by the       *)
(* marshaller when the caller left them out.                               *)
Attrs(names) == [copied |-> names, written |-> names, read |-> names, filled |-> {}]
Open(names) == Attrs(names \cup {"AnyAttribute"})
Filling(names, filled) == [Attrs(names) EXCEPT !.filled = filled]

Complex(slots, lists, copies, reads, attributes) ==
  [slots |-> slots, lists |-> lists, copies |-> copies, reads |-> reads,
   attributes |-> attributes]
Leaf(attributes) == Complex(<<>>, {}, <<>>, <<>>, attributes)

(* A derived class: its constructor and copy constructor run after those   *)
(* of its base, its unmarshaller tries its own tests first.                *)
Derive(base, own) ==
  [slots |-> base.slots \o own.slots,
   lists |-> base.lists \cup own.lists,
   copies |-> base.copies \o own.copies,
   reads |-> own.reads \o base.reads,
   attributes |-> [copied |-> base.attributes.copied \cup own.attributes.copied,
                   written |-> base.attributes.written \cup own.attributes.written,
                   read |-> base.attributes.read \cup own.attributes.read,
                   filled |-> base.attributes.filled \cup own.attributes.filled]]

(* xmltooling's class for an element it knows nothing of. *)
AnyElementImpl ==
  Complex(<<>>, AtEnd({"UnknownXMLObject"}), Each(<<"UnknownXMLObject">>),
          AnyChild("UnknownXMLObject"), Open({}))

-----------------------------------------------------------------------------
(* Content models of the schemas: particles in order, required attributes, *)
(* sets of names of which one at least must occur, and sets of alternatives *)
(* of which one at most may occur.  "Foreign" is an element of a namespace *)
(* none of the schemas declares.                                           *)
Particle(names, min, many) == [names |-> names, min |-> min, many |-> many]
One(names) == Particle(names, 1, FALSE)
Optional(names) == Particle(names, 0, FALSE)
OneOrMore(names) == Particle(names, 1, TRUE)
ZeroOrMore(names) == Particle(names, 0, TRUE)

Content(order, required) ==
  [order |-> order, required |-> required, some |-> {}, apart |-> {}]
Choice(content, some, apart) == [content EXCEPT !.some = some, !.apart = apart]
ExtendContent(base, order, required) ==
  [base EXCEPT !.order = @ \o order, !.required = @ \cup required]

Class(interface, impl, content) ==
  [interface |-> interface, impl |-> impl, content |-> content]

-----------------------------------------------------------------------------
(* m_children.  A slot is a fixed cell, empty or not; a list member is a   *)
(* cell of its own, tagged with the list that owns it.                     *)
Cell(member, child, fixed) == [member |-> member, child |-> child, fixed |-> fixed]
Fresh(impl) == [i \in DOMAIN impl.slots |-> Cell(impl.slots[i], None, TRUE)]

IsSlot(impl, member) == \E i \in DOMAIN impl.slots : impl.slots[i] = member
SlotOf(cells, slot) == CHOOSE i \in DOMAIN cells : cells[i].fixed /\ cells[i].member = slot
FenceOf(impl, list) == (CHOOSE pair \in impl.lists : pair[1] = list)[2]
IsList(impl, member) == \E pair \in impl.lists : pair[1] = member

SetChild(cells, member, child) == [cells EXCEPT ![SlotOf(cells, member)].child = child]

InsertionPoint(impl, cells, list) ==
  IF FenceOf(impl, list) = END THEN Len(cells) + 1
  ELSE SlotOf(cells, FenceOf(impl, list))

AddChild(impl, cells, list, child) ==
  InsertAt(cells, InsertionPoint(impl, cells, list), Cell(list, child, FALSE))

(* A child goes to the list of that name, or into the slot when there is   *)
(* no such list.                                                           *)
Put(impl, cells, member, child) ==
  IF IsList(impl, member) THEN AddChild(impl, cells, member, child)
  ELSE SetChild(cells, member, child)

(* The cells that hold a child, in their order, and the document they make. *)
Filled(cells) ==
  LET filled == {i \in DOMAIN cells : cells[i].child # None}
      Nth(k) == CHOOSE i \in filled : Cardinality({j \in filled : j <= i}) = k
  IN [k \in 1..Cardinality(filled) |-> cells[Nth(k)]]
Serialize(cells) == [i \in DOMAIN Filled(cells) |-> Filled(cells)[i].child]

HasSlotFree(cells, member) == cells[SlotOf(cells, member)].child = None

-----------------------------------------------------------------------------
(* What a validator may ask of an element: its cells and its attributes.   *)
Count(e, list) == Cardinality({i \in DOMAIN e.cells : e.cells[i].member = list})
Given(e, name) ==
  \/ name \in e.attributes
  \/ \E i \in DOMAIN e.cells : e.cells[i].member = name /\ e.cells[i].child # None
HasChildren(e) == \E i \in DOMAIN e.cells : e.cells[i].child # None
Requires(e, names) == \A name \in names : Given(e, name)
OneOf(e, names) == \E name \in names : Given(e, name)
AtMostOneOf(e, names) == \A a, b \in names : Given(e, a) /\ Given(e, b) => a = b
OnlyOneOf(e, names) == OneOf(e, names) /\ AtMostOneOf(e, names)
=============================================================================
