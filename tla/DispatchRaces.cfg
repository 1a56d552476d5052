CONSTANTS
  t1 = t1
  r1 = r1
  r2 = r2
  junior = junior
  c0 = c0
  None = None
  Tasks = {t1}
  TypeOf <- MCTypeOf
  Runs = {r1, r2}
  Workers = {junior}
  RoleOf <- MCRoleOf
  Commits = {c0}
  MaxRevision <- MCMaxRevision
  MaxDispatcherCrashes = 1
SPECIFICATION FairSpec
INVARIANT ExecutionIsVisible
INVARIANT OutcomeIsEarned
INVARIANT ExecutesOwnDelegation
PROPERTY ImplementsLedger
PROPERTY OrphanEnds
CHECK_DEADLOCK FALSE
