\* Up to two findings of a kind, and up to three entries in the file.
CONSTANTS
    Fingerprints <- MCFingerprints
    Secrets = {"secret"}
    Severity <- MCSeverity
    Configs <- MCConfigs
    MaxCount = 2
    MaxEntries = 3
SPECIFICATION Spec
INVARIANTS
    OnlyAcceptedDropped
    PassMeansNothingNew
    StaleEntriesAreUnused
