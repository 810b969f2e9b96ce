CONSTANTS
    Paths <- MCPaths
    Dir <- MCDir
    Ext <- MCExt
    Trees <- MCTrees
    TargetLists <- MCTargetLists
    PackageLists <- MCPackageLists
    None = "none"
SPECIFICATION Spec
INVARIANTS
    StartedScriptsReadInFull
    LaunchersAreStarters
    OneStepFurther
    EverySkillFileReadOnce
