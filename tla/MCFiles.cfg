SPECIFICATION MCSpec
CONSTANTS
    Boards = {"config", "settings", "bundle", "build", "manager", "registration", "jdict", "seqopen", "hanjadict", "lattice"}
    NCats = 1
    BuiltIn <- MCBuiltIn
    DefaultOn = {"en", "ko"}
    Addable = {"my"}
    FileOf <- MCFileOf
    Imported <- MCImported
    Bundle = {"pack"}
    MaxCopies = 2
    MaxSteps = 6
    Folders <- MCFolders
    MaxRuns = 2
INVARIANTS FilesAreWhole DictionariesAnswer NoHalfRegistration
    BlocksAccountedFor RestartKeepsTheApplied
PROPERTY KeepsWhatIsNotOurs
\* A behaviour of a part may end: the text is typed, the bounds are used up.
CHECK_DEADLOCK FALSE
