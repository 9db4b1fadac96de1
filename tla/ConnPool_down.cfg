SPECIFICATION Spec
CONSTANTS
  Handler = {h1, h2, h3}
  Size = 2
  MaxReruns = 1
  MaxCalls = 1
  Outages = {"down"}
  MaxOutages = 1
  None = None
PROPERTIES PoolRecovers
