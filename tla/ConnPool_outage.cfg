SPECIFICATION Spec
CONSTANTS
  Handler = {h1, h2, h3}
  Size = 2
  MaxReruns = 1
  MaxCalls = 1
  Outages = {"bounce", "down", "refuse"}
  MaxOutages = 2
  None = None
INVARIANTS NoLostWakeup
PROPERTIES PoolServes
