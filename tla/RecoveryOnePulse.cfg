\* Recoveries of one relation whose grasp is probed.
CONSTANTS
  Frames = {1}
  Learned <- OneFrameLearned
  Pending = {1}
  Directed = {1}
  Waypoints = 2
  FirstClosing = 2
  MaxTotal = 12
  MaxWaypoint = 1
  MaxVerify = 1
  MaxAttempts = 2
  MaxReentry = 2
  MinConfirm = 2
  OpenCycles = 1
  StableCycles = 2
  MaxProbe = 2
  MaxReturn = 2
  MinMotion = 1
  Tolerance = 0
  Reach = 1
SPECIFICATION Spec
INVARIANT CompletedOnConsecutiveEvidence
