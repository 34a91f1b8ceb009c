SPECIFICATION Spec
CONSTANTS
  Job = {"a", "b", "c"}
  Handler = {h1, h2, h3}
  Launcher = h1
  NoJob = NoJob
  NoStamp = NoStamp
  Rank <- MCRank
  Needs <- Staggered
  UsesNeeds = {}
  Strict = {}
  CondReads <- NoJobs
  Transitions <- AToC
  Special = {"b", "c"}
  Savers = {}
  MaxLoops = 0
  MaxCancels = 1
SYMMETRY HandlerSymmetry
INVARIANTS
  CompletedMeansNoWork
  NoDriverlessRun
