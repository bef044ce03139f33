SPECIFICATION Spec
CONSTANTS
  Tables <- MCTables
  Versions = {1, 2, 3}
  Window = 2
  MaxHeight = 4
  MaxMixed = 2
INVARIANTS
  VersionFollowsSchedule
  WindowMatchesChain
  RestartKeepsFork
  ForksWereVotedIn
