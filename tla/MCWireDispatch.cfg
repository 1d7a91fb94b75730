SPECIFICATION Spec
CONSTANTS
  RequiredOps = {"comment"}
  OptionalOps = {"merge_change_request", "get_branch", "create_branch"}
  UnknownOp = "unknown"
  Capabilities = {"merge", "branches"}
  CapabilityOf <- MCCapabilityOf
  MaxHint = 1
INVARIANTS
  OnlyServedOpsRun
  UnavailableIsUnsupported
  KitAcceptsTheWire
  AnswerTellsTheOutcome
PROPERTY
  EveryRequestAnswered
