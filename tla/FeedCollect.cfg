\* Two sources that share a window of four posts, pages of two, and seven posts
\* of which four can be shown, all but the last within the byte budget.
SPECIFICATION Spec
CONSTANTS
  Posts = {1, 2, 3, 4, 5, 6, 7}
  Over18 = {3}
  Verdict <- Verdicts
  Bytes <- Sizes
  RankValue <- Values
  Created <- Times
  Cursors = {10, 11, 12}
  TooLong = 11
  None = 0
  NoValue = 99
  Sources = 2
  IncludeNsfw = FALSE
  AllowNsfw = TRUE
  MaxCandidates = 4
  MaxMatchBytes = 4
  PageLimit = 2
  Limit = 2
INVARIANTS
  CandidatesAreBest
  StopsAreNoticed
  PagesShowTheRanking
