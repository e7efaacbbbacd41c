SPECIFICATION Spec
CONSTANTS
  NumCommits = 3
  q1 = q1
  q2 = q2
  Queries = {q1}
  NoQuery = NoQuery
  Tags <- TagEnds
  Behaviours = {"agree", "differ", "crash"}
  Histories <- OnlyNorec
  BrokenSets <- AtMostOne
  MaxRestarts <- NoKill
INVARIANT CorrectPrecedesBuggy
CHECK_DEADLOCK FALSE
