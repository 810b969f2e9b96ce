\* Every tree over five paths, any three calls in any order.  The callers may
\* stop reading at any time, so the bound on the calls is not a deadlock.
CONSTANTS
    Paths <- MCPaths
    Fold <- MCFold
    LinkText <- MCLinkText
    Asked <- MCAsked
    Tracked <- MCTracked
    KindsAt <- MCKindsAt
    MaxCalls = 3
SPECIFICATION Spec
INVARIANTS
    AbsenceExplained
    OrderIndependentEscapes
    AliasesUnambiguous
CHECK_DEADLOCK FALSE
