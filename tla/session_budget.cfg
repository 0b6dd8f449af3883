\* A migrated table over the budget of its release is persisted and then refused.
CONSTANTS
  MinInteger <- MCMinInteger
  MaxInteger = 1
  Strings = {"a", "bbbb", "long"}
  StringSize <- MCStringSize
  Damaged = Damaged
  MaxText = 20
  None = None
  Hosts = {"iOS", "Harmony"}
  Releases <- TwoReleases
  Written <- MCWritten
  Answers = {"a", "long"}
  MaxSessions = 2
  MaxTaskId = 2
  MaxGeneration = 1
  MaxAnswers = 2
  MaxPosted = 1
SPECIFICATION Spec
INVARIANTS MatchingStateRestored
CHECK_DEADLOCK FALSE
