SPECIFICATION Spec
CONSTANTS
  NumCommits = 6
  q1 = q1
  q2 = q2
  q3 = q3
  s1 = s1
  s2 = s2
  Samples = {s1, s2}
  Queries = {q1, q2, q3}
  NoSample = NoSample
  NoQuery = NoQuery
  SelectsOf <- TwoSamples
  PatternsOf <- OnePattern
  Worlds <- Mixed
INVARIANTS ReportsAreRight LedgerConsistent
PROPERTIES BracketSpec Settled
CHECK_DEADLOCK FALSE
