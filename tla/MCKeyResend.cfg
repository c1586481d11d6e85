\* Any call may fail: no key is lost, doubled or, if none failed, astray.
SPECIFICATION FairSpec
CONSTANTS
    edit = edit
    terminal = terminal
    tip1 = tip1
    tip2 = tip2
    NoWindow = NoWindow
    NoService = NoService
    Windows = {edit, terminal}
    Services = {tip1, tip2}
    ServiceOf <- MCServiceOf
    EditFamily = {edit}
    Queued = {edit}
    MaxEvents = 4
    MayFail = TRUE
INVARIANTS
    EachKeyOnce
    TimerHasOwner
    EditKeyStaysHome
    KeysArriveInOrder
PROPERTIES
    EveryKeySettles
