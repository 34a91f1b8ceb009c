SPECIFICATION Spec
CONSTANTS
  Job = {"a", "b", "c", "d"}
  Handler = {h1, h2}
  Launcher = h1
  NoJob = NoJob
  NoStamp = NoStamp
  Rank <- MCRank
  Needs <- Fork
  UsesNeeds = {}
  Strict = {}
  CondReads <- NoJobs
  Transitions <- AToBOrC
  Special = {"a", "c", "d"}
  Savers = {"b"}
  MaxLoops = 10
  MaxCancels = 0
INVARIANTS
  TypeOK
  DispatchedOnce
  OneCompletionPerJob
  CompletedMeansAllJobs
  NoDriverlessRun
PROPERTIES
  DependenciesFirst
  SkipIsFinal
