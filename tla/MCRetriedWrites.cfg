SPECIFICATION Spec
CONSTANTS
  r1 = r1
  r2 = r2
  c1 = c1
  c2 = c2
  k1 = k1
  k2 = k2
  Repos = {r1, r2}
  SeedHead = feat
  BaseBranch = main
  NewBranches = {topic}
  BadBranch = bad
  NoBranch = nobranch
  Keys = {k1, k2}
  NoKey = nokey
  Callers = {c1, c2}
  Calls <- MCCalls
  MaxAttempts = 2
  MaxOthers = 1
INVARIANTS
  OneEffectPerKey
  RetryReturnsTheOriginal
  SuccessNamesItsEffect
PROPERTIES
  EveryCallIsTold
