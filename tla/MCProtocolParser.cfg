SPECIFICATION Spec
CONSTANTS
  Lines <- MCLines
  MaxLines = 5
INVARIANTS
  AcceptedIsCanonical
  CanonicalIsAccepted
  EvidenceConsistent
PROPERTIES
  EvidenceLatches
CHECK_DEADLOCK FALSE
