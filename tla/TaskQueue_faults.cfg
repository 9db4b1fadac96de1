SPECIFICATION Spec
CONSTANTS
  w1 = w1  w2 = w2  s1 = s1  s2 = s2
  Build = {1}
  Task <- OneBuild
  BuildOf <- MCBuildOf
  Compile <- MCCompile
  Deps <- MCDeps
  Rank <- MCRank
  Key <- MCKey
  Output <- MCOutput
  Input <- MCInput
  Broken = {}
  Worker = {w1, w2}
  Slot = {s1, s2}
  Mortal = {w1, w2}
  WorkerOf <- MCWorkerOf
  Toolchain <- MCToolchain
  MaxAttempts = 2
  Faults = {"slow", "io", "run", "repeat", "giveup", "lostclaim", "crash", "restart", "coordinator", "hangup"}
  MaxFaults = 3
  NoWorker = NoWorker
  NoJob = NoJob
SYMMETRY SwapWorkers
INVARIANTS TypeOK PendingExact InputsReady AttemptUnique FailurePaid VerdictSound
PROPERTIES RefinesBuildGraph AttemptRevoked TerminalFinal
