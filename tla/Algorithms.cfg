\* Pure algorithms over every input up to the bounds given in MCAlgorithms.
SPECIFICATION Spec
CONSTANTS
  Unknown = Unknown
  None = None
INVARIANTS
  QueriesReadAsWritten
  PlansAreComplete
  RanksFollowTheGrammar
  CommentsAreShown
CHECK_DEADLOCK FALSE
