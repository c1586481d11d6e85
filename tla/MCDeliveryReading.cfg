SPECIFICATION DeliverySpec
CONSTANTS
    edit = edit
    terminal = terminal
    NoCtx = NoCtx
    Ctxs = {edit, terminal}
    EditCtxs = {edit}
    InlineCtxs = {}
    Layouts = {"syllable", "reading"}
    MaxUnits = 2
INVARIANTS
    ReadingNeverFolded
