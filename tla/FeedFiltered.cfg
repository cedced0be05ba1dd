\* One source behind a policy that removes posts from its pages.
SPECIFICATION Spec
CONSTANTS
  Posts = {1, 2, 3, 4, 5}
  Over18 = {3}
  Verdict <- Verdicts
  Bytes <- Sizes
  RankValue <- Values
  Created <- Times
  Cursors = {10, 11, 12}
  TooLong = 11
  None = 0
  NoValue = 99
  Sources = 1
  IncludeNsfw = FALSE
  AllowNsfw = FALSE
  MaxCandidates = 6
  MaxMatchBytes = 3
  PageLimit = 2
  Limit = 2
INVARIANT
  ExhaustedMeansRead
