SPECIFICATION Spec
CONSTANTS
  Objects <- TwoObjects
  Graspable <- OneGraspable
  Kinds <- AllKinds
  Earliest = 1
  Duration = 2
  CloseOccurrence = 1
  MinGrasped = 2
  Segments = 1
  Episodes = 2
INVARIANT OpenGripperAttachesNothing
