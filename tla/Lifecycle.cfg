\* The interval of the LINK event is entered by a crossing; the link lasts over the next.
CONSTANTS
  LastState = 6
  Skill <- MCSkill
  Events = {"grasp"}
  Entry <- MCEntry
  Owned <- MCOwned
  Releases = {6}
  Selected = {0, 1, 6}
  Alone = {0}
  Window = {1, 4}
  Persist = 2
SPECIFICATION Spec
INVARIANTS
  TypeOK
  GraceIsBounded
  MemoryIsVerifiedFirst
  LostMustBeTested
PROPERTIES
  NormalExecutionMovesForward
