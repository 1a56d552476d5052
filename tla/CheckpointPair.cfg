CONSTANTS
  t1 = t1
  t2 = t2
  junior = junior
  other = other
  c0 = c0
  None = None
  Tasks = {t1, t2}
  TypeOf <- MCTypeOf
  Runs = {}
  Workers = {junior}
  RoleOf <- MCRoleOf
  Commits = {c0}
  MaxRevision <- MCOneRound
  Owners = {a, b}
  Root = c0
  Trees = {clean, work}
  RootTree = clean
  MaxCrashes = 0
  MaxEdits = 0
SPECIFICATION Spec
INVARIANT PreparedCanConverge
CHECK_DEADLOCK FALSE
