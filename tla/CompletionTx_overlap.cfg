SPECIFICATION Spec
CONSTANTS
  Task = {1, 2, 3, 4, 5, 6, 7}
  Deps <- Crossed
  MayHit = {3, 4, 7}
  MayFail = {2}
  Tx = {1, 2, 3, 5, 6, 7, 102}
  TaskOf <- MCTaskOf
  BuildRow = BuildRow
  None = None
  MaxAborts = 1
INVARIANTS CountExact OutputsVisible VerdictReached
PROPERTIES AtomicSteps AllReported
