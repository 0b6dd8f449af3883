\* Two sessions on each host, with late, repeated and oversized answers, kills and upgrades.
CONSTANTS
  MinInteger <- MCMinInteger
  MaxInteger = 1
  Strings = {"a", "bbbb", "long"}
  StringSize <- MCStringSize
  Damaged = Damaged
  MaxText = 20
  None = None
  Hosts = {"iOS", "Harmony"}
  Releases <- Upgrades
  Written <- MCWritten
  Answers = {"a", "long"}
  MaxSessions = 2
  MaxTaskId = 2
  MaxGeneration = 1
  MaxAnswers = 2
  MaxPosted = 1
SPECIFICATION FairSpec
INVARIANTS StateSurvives
PROPERTIES LateAnswersHarmless AnsweredEnds
CHECK_DEADLOCK FALSE
