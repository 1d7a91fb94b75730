SPECIFICATION Spec
CONSTANTS
  Repos = {r1, r2}
  KnownRepos = {r1, r2}
  URLs = {u1, u2}
  MaxSeq = 2
  Permissions <- MCPermissions
  Happenings <- MCHappenings
  Triggers <- MCTriggers
  MaxHappenings = 2
SYMMETRY MCSymmetry
INVARIANTS
  OneEventPerHappening
  EventsSayWhatHappened
  OldRefsAreHarmless
  StateWorksOnce
