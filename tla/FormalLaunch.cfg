SPECIFICATION Spec
CONSTANTS
  Section <- TwoCells
  Episodes <- EpisodesOfCells
  ShardSize = 2
  Gpus <- TwoGpus
  Node <- OneNode
  Cores = 3
  Workers = 2
  Launchers = {L1, L2}
  Finished <- FaultCell
  Retained <- FaultAtFirstCommit
  LastCommit = 2
  MaxKilled = 1
  NoOne = NoOne
INVARIANTS TypeOK SuccessIsComplete WorkersHaveLanes
PROPERTIES MatrixSpec LaunchEnds
CHECK_DEADLOCK FALSE
