CONSTANTS
  o1 = o1
  o2 = o2
  n1 = n1
  n2 = n2
  here = here
  there = there
  None = None
  Tasks = {t1, t2}
  Runs = {r1}
  Old = {o1, o2}
  New = {n1, n2}
  Home <- MCHome
  Releases = {1, 3, 5, 6, 7, 8, 9, 10, 11}
  MaxGeneration = 16
SPECIFICATION Spec
INVARIANT MigratedIsWhole
INVARIANT UpgradeIsOpen
PROPERTY OldWritersAreFenced
PROPERTY BindingStays
SYMMETRY TaskSymmetry
CHECK_DEADLOCK FALSE
