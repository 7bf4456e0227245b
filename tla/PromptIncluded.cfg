SPECIFICATION Spec
CONSTANTS
  Clients = {c1, c2}
  MaxMsg = 4
  MaxRuns = 1
  Kinds = {"text"}
SYMMETRY Symmetry
INVARIANTS PromptIncluded
CHECK_DEADLOCK FALSE
