\* Each part of MCProcesses on the instance given there, three callers of the
\* video resolver with two permits.
SPECIFICATION AllSpec
CONSTANTS
  Callers = {c1, c2, c3}
  Videos = {v1}
  MaxExtractors = 2
  Ttl = 1
  MaxSources = 2
  MaxU32 = 100
  Outputs <- MCOutputs
  MaxTime = 2
  Items = {1, 2, 3, 4}
  Time <- MCTime
  Score <- MCScore
  Bytes <- MCBytes
  ItemVerdict <- MCVerdict
  ParentOf <- MCParentOf
  Parents = {11, 12}
  WithParent <- MCWithParent
  Cursors = {"c1", "c2", "c3"}
  Sorts = {"new", "top", "relevance", "name"}
  Limit = 1
  BatchLimit = 2
  ChunkSize = 2
  MaxPages = 2
  MaxSourcePages = 3
  MaxSourceCalls = 6
  MaxCandidates = 6
  MaxSessionBytes = 6
  MaxParents = 1
  Kinds = {"json", "html", "graphql"}
  CallResponses <- MCCallResponses
  MaxHops = 2
  MaxBytes = 2
  MaxRemaining = 5
  MaxGeneration = 2
  Attempts = 2
  Timeout = 1
  Inputs <- MCInputs
  Scopes <- MCScopes
  Listings <- MCListings
  Cards <- MCCards
  Comments <- MCComments
  BatchSize = 1
  Urls <- MCUrls
  MediaDomains <- MCMediaDomains
  NavigationDomains <- MCNavigationDomains
  ShortlinkDomains <- MCShortlinkDomains
  Responses <- MCResponses
  MaxRedirects = 2
  Configs <- MCConfigs
  MaxStarts = 2
  Data = Data
  Invalid = Invalid
  None = None
INVARIANTS
  SessionsKeepTheirOrder PagesAreExact RequestsAreHonest AuthenticationIsSound ResolverIsSound ServiceIsSafe ProxyIsSound StartIsOrderly
PROPERTIES
  ExtractsOnlyMissing
CHECK_DEADLOCK FALSE
