\* Two hops, so that a chain of three imports reaches the limit.
CONSTANTS
    Files <- MCFiles
    Instructions <- MCInstructions
    Roots <- MCRoots
    Elsewhere = "~"
    ImportsAt <- MCImportsAt
    MaxImportHops = 2
SPECIFICATION Spec
INVARIANTS
    OneTargetPerFile
    ShortestChain
    NothingMissed
    ExternalImportsComplete
