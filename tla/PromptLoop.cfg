SPECIFICATION Spec
CONSTANTS
  Clients = {c1, c2}
  MaxMsg = 4
  MaxRuns = 2
  Kinds = {"text", "subtask", "compaction"}
SYMMETRY Symmetry
INVARIANTS TypeOK PromptServed AssistantsClosed
PROPERTIES ClosedStays
CHECK_DEADLOCK FALSE
