SPECIFICATION Spec
CONSTANTS
  Lines <- MCLines
  MaxLines = 3
  Expand <- MCExpand
  Colon = ":"
  Cxx = {"c"}
  PpFlags = {"-I", "-Iinc"}
  Separate = {"-I"}
  Text <- MCText
  NoText = "none"
  Cost <- MCCost
  ArchiveCost = 3
  LinkCost = 5
  Foreign <- MCForeign
  Parts = {1, 2, 3}
INVARIANTS OrderRight RankRight ObjectsTogether LoadsBalanced TargetsCovered ManifestSubmits FlagsSplit
