\* Every tree, "files", "main" and ignore file of the MC module, and one thing that cannot be read.
SPECIFICATION Spec
CONSTANTS
    Name <- MCName
    Lower <- MCLower
    Glob <- MCGlob
    Source <- MCSource
    FilesField <- MCFilesField
    Main <- MCMain
INVARIANTS
    NothingIsLost
    NothingReserved
    SecretsNeedConsent
    CheckAgreesWithPack
CHECK_DEADLOCK FALSE
