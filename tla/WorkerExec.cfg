SPECIFICATION Spec
CONSTANTS
  Thread = {1, 2}
  Writer = {1, 2}
  Volume <- MCVolume
  PipeSize = 1
  Unlucky = {1}
  Store = {"cas", "cache"}
  Blob = {"input", "output", "garbled"}
  Buffered = {"input", "output"}
  MaxFills = 1
  Input = "input"
  Output = "output"
  Garbled = "garbled"
  NoHash = ""
INVARIANTS OutputComplete WholeUnlessFull AcceptedRight AcceptedStored
PROPERTIES TimeoutEarned CallReturns
CHECK_DEADLOCK FALSE
