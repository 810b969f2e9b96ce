\* Every tree over six paths.
CONSTANTS
    Paths <- MCPaths
    Fold <- MCFold
    LinkText <- MCLinkText
    OwnConfig <- Yml
    Reads <- MCReads
    Tracked <- MCTracked
    KindsAt <- MCKindsAt
SPECIFICATION RunSpec
INVARIANTS
    NothingGoesQuiet
    CompleteOrExit2
    EveryLeavingLinkReported
