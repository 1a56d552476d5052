CONSTANTS
  r1 = r1
  r2 = r2
  rules = rules
  cache = cache
  extra = extra
  old = old
  new = new
  None = None
  Runs = {r1, r2}
  Paths = {rules, cache, extra}
  Content <- MCContent
  Rules = rules
  IgnoredUnder <- MCIgnoredUnder
  Under <- MCUnder
  AllowedScope <- MCAllowedScope
  ForbiddenScope <- MCForbiddenScope
  AdaptersOf <- MCAdaptersOf
  Root <- MCRoot
  Present <- MCPresent
  Flagged = {}
  MaxCommits = 1
  MaxWrites = 2
SPECIFICATION Spec
 
 
PROPERTY ResultIsOwn
CHECK_DEADLOCK FALSE
