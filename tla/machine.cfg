\* Every program of up to three instructions to its verdict, what is accepted to its end, and
\* handlers that meet in callbacks and suspensions, with a host that refuses and re-enters.
CONSTANTS
  MinInteger <- MCMinInteger
  MaxInteger = 2
  Strings = {"", "a", "long"}
  StringSize <- MCStringSize
  MaxCode = 3
  Modules <- AllModules
  Results = {"a", "long"}
  RestoredTables <- MCTables
  ReentrantIn = {"invoke", "begin", "render"}
  HostMayFail = TRUE
  MaxNesting = 2
  MaxTaskId = 2
SPECIFICATION FairSpec
INVARIANTS LoadTypeOK Soundness Completeness RunTypeOK NoRuledOutFault PageShown FramesTyped TaskBudget
PROPERTIES VisitedOnce Verdict CallsReturn NoRevival
CHECK_DEADLOCK FALSE
