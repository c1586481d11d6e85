\* Three layouts, one Latin and two Hangul: rotation and the choice among several; the
\* body of the last is read at its first use and may turn out broken then.
SPECIFICATION Spec
CONSTANTS
    N = 3
    HangulLayouts = {1, 2}
    DeferredLayouts = {2}
    Choices = {{}, {0, 2}, {1, 2}, {0, 1, 2}}
    FullWidths = {TRUE}
    AskedConvs = {8, 9}
    MaxNest = 2
INVARIANTS
    ConvCacheCoherent
    OpenCacheCoherent
    ActiveIsEnabled
    CompartmentsAgree
    LockedPublishIsCurrent
PROPERTIES
    OutsideMovesOnlyToWanted
