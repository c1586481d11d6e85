SPECIFICATION MCSpec
CONSTANTS
    Boards = {"seqopen"}
    NCats = 1
    BuiltIn <- MCBuiltIn
    DefaultOn = {"en", "ko"}
    Addable = {"my"}
    FileOf <- MCFileOf
    Imported <- MCImported
    Bundle = {"pack"}
    MaxCopies = 2
    MaxSteps = 6
    Folders <- MCFolders
    MaxRuns = 2
INVARIANT FailedEatsNothing
\* A behaviour of a part may end: the text is typed, the bounds are used up.
CHECK_DEADLOCK FALSE
