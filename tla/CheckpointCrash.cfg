CONSTANTS
  t1 = t1
  t2 = t2
  junior = junior
  other = other
  c0 = c0
  None = None
  Tasks = {t1}
  TypeOf <- MCTypeOf
  Runs = {}
  Workers = {junior}
  RoleOf <- MCRoleOf
  Commits = {c0, c1}
  MaxRevision <- MCOneRound
  Owners = {a, b}
  Root = c0
  Trees = {clean, work}
  RootTree = clean
  MaxCrashes = 1
  MaxEdits = 1
SPECIFICATION FairSpec
INVARIANT GitFollowsIntent
INVARIANT BaseIsHeld
PROPERTY BranchMoves
PROPERTY IntentHoldsGit
PROPERTY Converges
PROPERTY ImplementsLedger
CHECK_DEADLOCK FALSE
