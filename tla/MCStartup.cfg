\* Two workers, failures and deletions, one configuration of each kind.
CONSTANTS
    w1 = w1
    w2 = w2
    Worker = {w1, w2}
    MayStop = TRUE
    MayRemove = TRUE
    Configs <- TypicalConfigs
SPECIFICATION StartupSpec
INVARIANTS
    StartupTypeOK
    FileInv
    QuietFileIsWhole
    CleanBootServesWhole
    ServesOnlyAdmissible
PROPERTIES
    BootKeepsQuietFile
    FileSpec
CHECK_DEADLOCK FALSE
