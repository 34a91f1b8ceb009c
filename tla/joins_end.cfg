SPECIFICATION FairSpec
CONSTANTS
  Job = {"a", "b", "c", "d"}
  Handler = {h1, h2}
  Launcher = h1
  NoJob = NoJob
  NoStamp = NoStamp
  Rank <- MCRank
  Needs <- TwoJoins
  UsesNeeds = {"c"}
  Strict = {"c"}
  CondReads <- DTestsA
  Transitions <- NoJobs
  Special = {"a", "b", "c"}
  Savers = {}
  MaxLoops = 10
  MaxCancels = 0
PROPERTIES
  RunEnds
