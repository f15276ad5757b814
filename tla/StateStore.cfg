SPECIFICATION Spec
CONSTANTS
  Values = {"x", "y"}
  MaxGeneration = 3
INVARIANTS
  NeverTorn
  ShownIsDurable
  NotCommittedIsTrue
PROPERTIES
  RegisterRefined
