SPECIFICATION Spec
CONSTANTS
    SettingsContents <- MCSettings
    Texts <- MCTexts
    MaxEdits = 2
    MaxCommands = 3
INVARIANTS PassMeansAccepted ProseIsFree EveryChangeIsNamed
CHECK_DEADLOCK FALSE
