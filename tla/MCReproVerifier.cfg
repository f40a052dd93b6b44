SPECIFICATION FairSpec
CONSTANTS
  NOTHING = NOTHING
  Verifiers = {verifier}
  Versions = {old, new}
  Setups <- MCSetups
INVARIANTS
  ReportDescribesSource
  ReportDescribesOutputs
  RemappingSuffices
PROPERTIES
  PublishesReproduced
  Terminates
CHECK_DEADLOCK FALSE
