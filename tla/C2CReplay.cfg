CONSTANTS
  t1 = t1
  r1 = r1
  r2 = r2
  junior = junior
  c0 = c0
  m1 = m1
  m2 = m2
  a1 = a1
  a2 = a2
  d1 = d1
  d2 = d2
  codex = codex
  o1 = o1
  o2 = o2
  w1 = w1
  w2 = w2
  cli = cli
  None = None
  Tasks = {t1}
  TypeOf <- MCTypeOf
  Runs = {r1, r2}
  Workers = {}
  RoleOf <- MCRoleOf
  Commits = {c0}
  MaxRevision <- MCTwoRounds
  Requests <- MCReplays
  Controllers = {o1}
  Attempts = {w1, w2}
  MaxFailures = 1
SPECIFICATION FairSpec
PROPERTY ImplementsLedger
PROPERTY LaunchEnds
CHECK_DEADLOCK FALSE
