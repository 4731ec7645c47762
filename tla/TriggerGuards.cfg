\* The right arm owns a relation that guards the only boundary of the left one.
CONSTANTS
  Arms = {"left", "right"}
  Relations = {1}
  Owner <- OwnerOf
  Learned = {1}
  Verifiable = {1}
  Guards <- PeerGuard
  LastSkill <- MCLastSkill
  Persist <- MCPersist
  BoundaryPersist = 2
  MaxSpell = 1
SPECIFICATION Spec
INVARIANTS
  TypeOK
  OneRealignmentPerBoundary
  GuardsRefutedConsecutively
PROPERTIES
  VerificationsSettle
  RefutedGuardsRecover
CHECK_DEADLOCK FALSE
