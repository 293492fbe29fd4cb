CONSTANTS
  MaxCommits = 1
  MaxDatabases = 3
  MaxSeconds = 2
  Mishaps = {"kill", "interrupt", "mv"}
SPECIFICATION FileSpec
INVARIANTS
  ServesWholeSchema
  RestoreReplacesTheDatabase
  CommitsAreKept
