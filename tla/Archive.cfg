SPECIFICATION Spec
CONSTANTS
    Writers = {w1}
    Digests = {d1, d2}
    Faults = TRUE
    NoDigest = NoDigest
INVARIANT RowHasFile
INVARIANT BackupCoversRows
INVARIANT BackupMatchesVolume
