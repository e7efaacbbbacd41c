SPECIFICATION AnchoredSpec
CONSTANTS
  NumCommits = 5
  q1 = q1
  q2 = q2
  Queries = {q1, q2}
  NoQuery = NoQuery
  Tags <- TagSet
  Behaviours = {"agree", "differ", "late", "crash"}
  Histories <- AllOracles
  BrokenSets <- AtMostOne
  MaxRestarts <- KillOnTlp
INVARIANTS TypeOK SearchBounds BracketSound ExactOnMonotone EvidenceMatches LedgerConsistent
PROPERTIES BracketSpec NeverRebuilt Settled
CHECK_DEADLOCK FALSE
