\* The automaton: a layout file with Composition = dubeol, its own rules and final keys.
SPECIFICATION MCSpec
CONSTANTS
    Cho <- MCCho
    Jung <- MCJung
    Jong <- MCJong
    Keys <- MCFileKeys
    DirectJong = FALSE
    BuiltinDubeol = FALSE
    CombineCho <- MCCombineCho
    CombineJung <- MCCombineJung
    CombineJongPair <- MCFileJongPair
    CombineJong <- MCCombineJong
    ChoToJong <- MCChoToJong
    SplitJong <- MCSplitJong
    Letters <- MCLetters
    SpellCho <- MCSpellCho
    SpellJung <- MCSpellJung
    SpellJong <- MCSpellJong
    edit = edit
    terminal = terminal
    notepad = notepad
    word = word
    NoCtx = NoCtx
    Ctxs = {edit, terminal, notepad, word}
    EditCtxs = {edit, notepad}
    InlineCtxs = {notepad, word}
    Layouts = {"syllable", "chord", "reading"}
    MaxUnits = 2
    d1 = d1
    d2 = d2
    Docs = {d1, d2}
    NoDoc = NoDoc
    SeqLayouts <- MCSeqLayouts
    Printable <- MCPrintable
    WindowKinds = {"own", "none"}
    MaxReading = 2
    MaxWaiting = 2
    Boards = {"automaton", "delivery", "reading"}
INVARIANTS
    ShownIsPending
    ExactlyOnePlace
    RightDocument
    ComposedWhereStarted
    KeptInOrder
    TypedInOrder
    WindowIsCurrent
    ChipIsWhatWaits
    NoKeyOvertakesTheReading
PROPERTIES
    ComposesTheStream
    ScreenIsKept
SYMMETRY Renaming
\* A behaviour of a part may end: the bounds are used up.
CHECK_DEADLOCK FALSE
