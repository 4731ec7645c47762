\* Two arms, two episodes of up to four steps; the scene moves in two segments, at the
\* steps 1 and 2, and stands still at the steps 0 and 3.
CONSTANTS
  Arms = {left, right}
  Horizon = 4
  Episodes = 2
  Trigger = 1
  Motion = 2
SPECIFICATION Spec
INVARIANTS
  TypeOK
  RollbackIsExact
  FeedbackIsTrue
  ClocksAgree
PROPERTY EvaluationEnds
CHECK_DEADLOCK FALSE
