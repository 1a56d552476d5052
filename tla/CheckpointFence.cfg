CONSTANTS
  t1 = t1
  t2 = t2
  junior = junior
  other = other
  c0 = c0
  None = None
  Tasks = {t1}
  TypeOf <- MCTypeOf
  Runs = {}
  Workers = {junior}
  RoleOf <- MCRoleOf
  Commits = {c0}
  MaxRevision <- MCTwoRounds
  Owners = {a, b}
  Root = c0
  Trees = {clean, work}
  RootTree = clean
  MaxCrashes = 0
  MaxEdits = 0
SPECIFICATION Spec
INVARIANT RetryMayProceed
CHECK_DEADLOCK FALSE
