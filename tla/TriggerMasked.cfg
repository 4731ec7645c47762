\* One arm with two relations: one it can repair, one it can verify.
CONSTANTS
  Arms = {"left"}
  Relations = {1, 2}
  Owner <- OwnerOf
  Learned = {1}
  Verifiable = {2}
  Guards = {}
  LastSkill <- MCLastSkill
  Persist <- MCPersist
  BoundaryPersist = 2
  MaxSpell = 1
SPECIFICATION Spec
PROPERTY MismatchesRecover
CHECK_DEADLOCK FALSE
