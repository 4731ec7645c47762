\* One Pending and one formal event, each verified at most once.
CONSTANTS
  Events = {1, 2}
  Pending = {1}
  Contexts = {"first"}
  MaxProbe = 2
  MaxReturn = 3
  MinMotion = 2
  MinSamples = 2
  Tolerance = 0
  Top = 3
  Reach = 2
SPECIFICATION Spec
INVARIANTS
  TypeOK
  VerdictRestsOnResponses
  BeliefSupportsDecision
PROPERTIES
  ArmIsBroughtBack
  VerificationEnds
