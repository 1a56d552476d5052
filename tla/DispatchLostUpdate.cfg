CONSTANTS
  t1 = t1
  r1 = r1
  r2 = r2
  junior = junior
  c0 = c0
  None = None
  Tasks = {t1}
  TypeOf <- MCTypeOf
  Runs = {r1}
  Workers = {}
  RoleOf <- MCRoleOf
  Commits = {c0}
  MaxRevision <- MCMaxRevision
  MaxDispatcherCrashes = 0
SPECIFICATION Spec
INVARIANT OutcomeIsShown
CHECK_DEADLOCK FALSE
