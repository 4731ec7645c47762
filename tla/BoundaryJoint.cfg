\* Both arms share the transaction group of their joint boundary.
CONSTANTS
  Arms = {"left", "right"}
  LastSkill <- MCLastSkill
  Group <- JointGroup
  NoGroup = "none"
  Conditions <- MCConditions
  Confirm <- MCConfirm
  MaxTick = 5
  MaxGap = 2
SPECIFICATION Spec
INVARIANTS
  TypeOK
  GroupAtomic
  ConfirmedCrossing
  CursorMatchesBelief
  TaskActsCommit
PROPERTY AtomicCrossingSpec
CHECK_DEADLOCK FALSE
