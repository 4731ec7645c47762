\* One arm recovers while its partner in the group still executes its task.
CONSTANTS
  Arms = {"left", "right"}
  LastSkill <- MCLastSkill
  Group <- JointGroup
  NoGroup = "none"
  Conditions <- MCConditions
  Confirm <- MCConfirm
  MaxTick = 5
  MaxGap = 2
SPECIFICATION Spec
INVARIANT JointReentryCommits
CHECK_DEADLOCK FALSE
