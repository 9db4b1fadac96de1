SPECIFICATION FairSpec
CONSTANTS
  w1 = w1  w2 = w2  s1 = s1  s2 = s2
  Build = {1, 2}
  Task <- TwinBuilds
  BuildOf <- MCBuildOf
  Compile <- MCCompile
  Deps <- MCDeps
  Rank <- MCRank
  Key <- MCKey
  Output <- MCOutput
  Input <- MCInput
  Broken <- SecondArchive
  Worker = {w1, w2}
  Slot = {s1, s2}
  Mortal = {w1}
  WorkerOf <- MCWorkerOf
  Toolchain <- MCToolchain
  MaxAttempts = 2
  Faults = {"io", "crash", "hangup"}
  MaxFaults = 2
  NoWorker = NoWorker
  NoJob = NoJob
INVARIANTS VerdictPrompt ClientServed
PROPERTIES RefinesBuildGraph BuildSettles
