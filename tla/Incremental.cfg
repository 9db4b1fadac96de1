SPECIFICATION Spec
CONSTANTS
  Unit = {"a", "b"}
  Header = {"near", "far"}
  Search <- MCSearch
  Content = {1, 2, 3}
  Meaning <- MCMeaning
  Normalized = {"a"}
  Config = {1, 2}
  Edits <- MCEdits
  MaxEdits = 2
  MaxBuilds = 2
INVARIANTS StateSound FreshEnough PairRight RefusalExplained
CHECK_DEADLOCK FALSE
