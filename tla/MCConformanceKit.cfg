SPECIFICATION Spec
CHECK_DEADLOCK FALSE
CONSTANTS
  Repos = {"acme/web"}
  KnownRepos = {"acme/web"}
  Repo = "acme/web"
  SeedHead = "feat/x"
  BaseBranch = "main"
  NewBranches <- MCNewBranches
  BadBranch = "bad name~^"
  NoBranch = ""
  Keys = {"k1", "c1", "b1"}
  NoKey = ""
  Files = {"src/main.go", "README.md"}
  Permissions <- MCPermissions
  MaxSeq = 4
  MaxItems = 3
  MaxPages = 3
  Texts <- MCTexts
  LongDiff = 4
  DiffBytes = 3
  TailBytes = 2
  FileBytes = 2
INVARIANTS
  ReferencePasses
  DefectsAreCaught
  CutsKeepWhatFits
PROPERTY
  SuiteEnds
