SPECIFICATION Spec
CONSTANTS
  r1 = r1
  r2 = r2
  Claimer = {c1, c2}
  Submitter = submitter
  Mortal = {c2}
  Row = {r1, r2}
  Wish <- MCWish
  None = None
  MaxRequeues = 1
  MaxRestarts = 1
INVARIANTS NoMissedWakeup PartAgrees
PROPERTIES ReadyIsClaimed
