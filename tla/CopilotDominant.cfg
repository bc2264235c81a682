CONSTANTS
  s1 = s1  s2 = s2  a1 = a1  a2 = a2  c1 = c1  d1 = d1  r1 = r1  r2 = r2
  t1 = t1  t2 = t2  opened = opened  closed = closed  t0 = t0
  Results <- SmallResults
  Phrases <- SmallPhrases
  NoEntity = NoEntity
  MaxFacts = 8
  MaxListed = 2
SPECIFICATION CopilotSpec
INVARIANT DominantIsLargest
CHECK_DEADLOCK FALSE
