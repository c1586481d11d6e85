SPECIFICATION MCSpec
CONSTANTS Boards = {"typing", "hanja", "code", "inline", "control", "route", "lab", "trybox"}
          Letters = {"a", "b"}  FrontKeys = {"a"}  MaxEvents = 6  MaxLost = 1
          Strokes <- MCStrokes  Shortcuts <- MCShortcuts  Rotation <- MCRotation
          Docs = {"d1", "d2"}  Kinds = {"edit", "native", "terminal"}  Reporting = {"native"}
          Hosts <- MCHanjaHosts  Keys = {"h", "f"}  Hex = {"f"}  Dict <- MCDict  MaxActs = 4
          Chars = {"h", "f", "H", "K", "W", "U"}
          Threads = {"t1", "t2"}  Digits = {0, 13}  MaxDigits = 6  MaxKeys = 7
          Programs <- MCPrograms
          Controls <- MCControls  Texts <- MCTexts  Strings <- MCWords  MaxLen = 3  MaxText = 3
          Ctxs = {"c1", "c2"}  NoCtx = "none"  InlineCtxs = {"c1"}  DemoteLimit = 2
          MayFail <- MCCalls  Late = FALSE  MaxUnits = 3  MaxFaults = 2  MaxQueue = 2
INVARIANTS TypesTheText WritesWhatWasTyped OnlyWhatWasChecked KeysKeepTheirWay
PROPERTIES ConversionIsExact TextIsAsTyped
\* A behaviour of a part may end: the bounds are used up.
CHECK_DEADLOCK FALSE
