\* A release that shares no id with the one before is installed, and deletes its snapshot.
CONSTANTS
  MinInteger <- MCMinInteger
  MaxInteger = 1
  Strings = {"a", "bbbb", "long"}
  StringSize <- MCStringSize
  Damaged = Damaged
  MaxText = 20
  None = None
  Hosts = {"iOS", "Harmony"}
  Releases <- Unrelated
  Written <- MCWritten
  Answers = {"a", "long"}
  MaxSessions = 2
  MaxTaskId = 2
  MaxGeneration = 1
  MaxAnswers = 2
  MaxPosted = 1
SPECIFICATION Spec
INVARIANTS SnapshotRetained
CHECK_DEADLOCK FALSE
