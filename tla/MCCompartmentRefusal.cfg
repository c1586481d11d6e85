\* Two layouts, the Hangul one read at its first use: a refused OPENCLOSE request is not
\* written back.
SPECIFICATION Spec
CONSTANTS
    N = 2
    HangulLayouts = {1}
    DeferredLayouts = {1}
    Choices = {{0}, {0, 1}}
    FullWidths = {TRUE, FALSE}
    AskedConvs = {8, 9}
    MaxNest = 2
INVARIANTS
    RefusalRestored
