SPECIFICATION Spec
CONSTANTS
  Methods <- MCMethods
  Segments <- MCSegments
  ParamSegments <- MCParams
  Patterns <- MCPatterns
  Paths <- MCPaths
  HostParams <- MCHostParams
  Registrations <- MCRegistrations
INVARIANTS
  BestCandidateWins
  LiteralBeatsParam
  HandlerGetsItsParams
