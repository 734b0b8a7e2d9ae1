CONSTANTS
  Library <- Registered
  Accepted <- AcceptedBySuite
  Families = {"md", "saml2", "saml2p", "saml1", "saml1p"}
  MaxChanges = 3
SPECIFICATION Spec
INVARIANTS
  TypeOK
  ChildrenInOrder
  CloneIsEqual
  DocumentSurvives
  ValidatorsSound
  ValidatorsComplete
CHECK_DEADLOCK FALSE
