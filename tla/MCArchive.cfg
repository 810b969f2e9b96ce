\* Archives of up to five entries; the limits are reached by two of them.
CONSTANTS
    Names <- MCNames
    Outside = Outside
    DotDot = DotDot
    Sizes = {0, 2, 3, 4}
    MaxEntries = 4
    MaxFile = 2
    MaxTotal = 5
    MaxRead = 5
SPECIFICATION Spec
INVARIANTS
    CopyBounded
    NothingDropped
PROPERTIES
    FirstOneWins
