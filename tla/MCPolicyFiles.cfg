\* Two deny entries, in either list, both or none, and files that are absent.
CONSTANTS
    Procs = {"apply1", "apply2", "generate"}
    Command <- MCCommand
    Entries = {x, y}
    None = None
    Torn = Torn
SPECIFICATION Spec
INVARIANTS
    WholeFiles
    ModeKept
    SuccessLasts
PROPERTIES
    ImplementsPolicySync
