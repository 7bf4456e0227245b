SPECIFICATION Spec
CONSTANTS
  a = a b = b c = c quest = quest
  p1 = p1 p2 = p2 p3 = p3
  s1 = s1 s2 = s2
  Requests = {a, b, c, quest}
  Questions = {quest}
  Repliers = {f1, f2}
  None = None
  MaxInterrupts = 1
  Session <- MCSession
  Needs <- MCNeeds
  Always <- MCAlways
  Rule <- MCRule
INVARIANTS TypeOK NoLostAsker AnswersJustified CoveredIsAnswered
CHECK_DEADLOCK FALSE
