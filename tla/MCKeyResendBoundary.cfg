\* A boundary key outside a composition overtakes the waiting one.
SPECIFICATION Spec
CONSTANTS
    edit = edit
    terminal = terminal
    tip1 = tip1
    tip2 = tip2
    NoWindow = NoWindow
    NoService = NoService
    Windows = {edit}
    Services = {tip1, tip2}
    ServiceOf <- MCServiceOf
    EditFamily = {edit}
    Queued = {}
    MaxEvents = 3
    MayFail = FALSE
INVARIANTS
    BoundaryInOrder
