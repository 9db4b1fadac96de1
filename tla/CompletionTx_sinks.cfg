SPECIFICATION Spec
CONSTANTS
  Task = {1, 2, 3}
  Deps <- TwoBinaries
  MayHit = {}
  MayFail = {}
  Tx = {1, 2, 3}
  TaskOf <- MCTaskOf
  BuildRow = BuildRow
  None = None
  MaxAborts = 0
INVARIANTS VerdictReached
