CONSTANTS
  t1 = t1
  t2 = t2
  r1 = r1
  r2 = r2
  junior = junior
  principal = principal
  c0 = c0
  None = None
  Tasks = {t1, t2}
  TypeOf <- MCTypeOf
  Runs = {r1, r2}
  Workers = {junior, principal}
  RoleOf <- MCRoleOf
  Commits = {c0}
  MaxRevision <- MCMaxRevision
SPECIFICATION Spec
INVARIANT TypeOK
INVARIANT ResultFromClaimant
INVARIANT SingleExecution
INVARIANT IntentExclusive
INVARIANT IntentPinsTask
INVARIANT ReservationHolds
PROPERTY CheckpointProgress
PROPERTY BaseIsPinned
PROPERTY ImplementsLifecycle
SYMMETRY RunSymmetry
CHECK_DEADLOCK FALSE
