SPECIFICATION ShardSpec
CONSTANTS
  NgramSize = 2
  HEAD <- MCHEAD
  Shards <- MCShards
  Queries <- MCQueries
  Limits <- MCLimits
  Others <- MCOthers
  RepoQueries <- MCRepoQueries
  VarintBase = 4
  BucketSize = 4
  V = 2
  RuneFreq = 5
  Gram = 2
  Mod32 = 16384
  Mod16 = 2
  MaxBranches = 4
  IdBits = 2
  maxMessageSize = 5
  SampleEvery = 2
  Branches <- MCBranches
  Paths <- MCPaths
  IgnoreFile = "ignore"
  GitModules = "modules"
  Ignores <- MCIgnores
  Modules <- MCModules
  SubTree <- MCSubTree
  Big = {9}
  LargeFiles = {}
  FirstTree <- MCFirstTree
  Edits <- MCEdits
  GitOptions <- MCGitOptions
  MaxCommits = 3
  MaxBuilds = 3
INVARIANT SearchExact
INVARIANT MatchesInOrder
INVARIANT SelectExact
INVARIANT QueriesMean
INVARIANT WireExact
 
INVARIANT FormatExact
INVARIANT GitExact
