SPECIFICATION DeliverySpec
CONSTANTS
    edit = edit
    terminal = terminal
    NoCtx = NoCtx
    Ctxs = {edit, terminal}
    EditCtxs = {edit}
    InlineCtxs = {}
    Layouts = {"chord"}
    MaxUnits = 2
INVARIANTS
    ChordNeverFolded
