------------------------------ MODULE MCInput --------------------------------
(***************************************************************************)
(* The ways from a key to a text, each on a small instance: the built-in    *)
(* keyboards, Hanja conversion, code points, the composition call by call,  *)
(* edit controls, the key sink, the laboratory's text service and the       *)
(* manager's try box.                                                       *)
(* A behaviour keeps to one part.  The key sink, conversion, code points,   *)
(* edit controls and the composition have the variables of their modules,   *)
(* which rest elsewhere; the other parts share v1, v2, ...                  *)
(***************************************************************************)
EXTENDS KeyRoute, Hanja, CodeInput, EditControl, InlineComp, Integers, Sequences, TLC

CONSTANT Boards   \* the parts that are checked

VARIABLES board,  \* the part of this behaviour
          v1, v2, v3, v4, v5, v6, v7, v8, v9, v10, v11, v12, v13
shared == <<v1, v2, v3, v4, v5, v6, v7, v8, v9, v10, v11, v12, v13>>
mcVars == <<vars, hanjaVars, codeVars, editVars, compVars, board, shared>>

------------------------------------------------------------------------------
(* Hanja: a plain host, one that shows its list in a process of its own, and  *)
(* one whose list has no window                                               *)
HanjaHost(appContainer, ownWindow, helper, cycles) ==
    [appContainer |-> appContainer, ownWindow |-> ownWindow, helper |-> helper, cycle |-> cycles]
MCHanjaHosts == {HanjaHost(FALSE, TRUE, FALSE, FALSE), HanjaHost(TRUE, FALSE, TRUE, TRUE),
                 HanjaHost(TRUE, TRUE, FALSE, FALSE)}
MCDict == (<<"h">> :> <<<<"H">>, <<"K">>>>) @@ (<<"h", "h">> :> <<<<"W", "W">>>>)

(* Code points: the same kinds of hosts, and one that draws the input itself  *)
CodeHost(appContainer, ownWindow, helper, draws) ==
    [appContainer |-> appContainer, ownWindow |-> ownWindow, helper |-> helper, draws |-> draws]
MCPrograms == {CodeHost(TRUE, TRUE, TRUE, FALSE), CodeHost(FALSE, TRUE, FALSE, FALSE),
                CodeHost(TRUE, FALSE, TRUE, FALSE), CodeHost(FALSE, TRUE, FALSE, TRUE)}

(* Composition: every call of TSF, in the events that make it *)
MCCalls ==
    {"letter"} \X {"request", "start", "range", "setText", "select", "shift", "insert",
                    "terminated"}
    \cup {"backspace"} \X {"request", "range", "setText", "select", "end"}
    \cup {"boundary", "escape", "outside"} \X {"request", "range", "setText", "end"}
    \cup {<<"boundary", "insert">>}

(* Edit controls: RichEdit, one that takes no text, AkelPad's that counts     *)
(* bytes, plain EDIT of both countings, Scintilla, and a terminal             *)
MCControls ==
    {Control("edit", TRUE, TRUE, 1, TRUE), Control("edit", TRUE, FALSE, 1, FALSE),
     Control("edit", TRUE, FALSE, 2, TRUE), Control("edit", FALSE, TRUE, 1, TRUE),
     Control("edit", FALSE, TRUE, 2, TRUE), Control("scintilla", TRUE, TRUE, 3, TRUE),
     Control("other", FALSE, FALSE, 1, TRUE)}
TextsUpTo(n) == UNION {[1..k -> Widths] : k \in 0..n}
MCTexts == TextsUpTo(3)
MCWords == TextsUpTo(2) \ {<<>>}

(* The key sink: the default shortcuts (config.c:63-76), every kind of layout,*)
(* of the two letters one belongs to the chord layout in front                *)
Struck(vk, mods) == [vk |-> vk, mods |-> mods]
Shortcut(fn, vk, mods) == [fn |-> fn, vk |-> vk, mods |-> mods]
MCShortcuts ==
    {Shortcut("rotate", "hangul", {}), Shortcut("rotate", "ralt", {}),
     Shortcut("rotate", "space", {"shift"}), Shortcut("hanja", "hanja", {}),
     Shortcut("code", "u", {"ctrl", "alt"}), Shortcut("settings", "k", {"ctrl", "alt"}),
     Shortcut("passthrough", "p", {"ctrl", "alt"})}
MCStrokes ==
    {Struck(sc.vk, sc.mods) : sc \in {s \in MCShortcuts : s.vk # "ralt"}}
    \cup {Struck(vk, {}) : vk \in {"a", "b", "space", "enter", "back", "esc"}}
    \cup {Struck("ralt", {"alt"}), Struck("shift", {"shift"}), Struck("a", {"ctrl"})}
MCRotation ==
    ("hangul" :> "moachigi") @@ ("moachigi" :> "front") @@ ("front" :> "static")
    @@ ("static" :> "seqfront") @@ ("seqfront" :> "pass") @@ ("pass" :> "hangul")

(* The laboratory: two letters, and the other kinds of keys.  A boundary key   *)
(* does as a shortcut does while the keyboard is open and as a letter does    *)
(* while it is closed, and is left out                                        *)
LabKey(k) == [kind |-> k, index |-> 0]
MCLabKeys == {LabKey(key) : key \in {"initial", "vowel", "shortcut", "back", "toggle"}}
MCLabFails ==
    {"step"} \X {"request", "range", "start", "setText", "selection", "shift", "terminated"}
    \cup {"finalize"} \X {"request", "range", "end"}
    \cup {"cancel"} \X {"request", "range", "setText", "end"} \cup {<<"open", "write">>}

------------------------------------------------------------------------------
(* The parts, each on the variables it needs *)

Typing == INSTANCE MCHangulTyping WITH
    board <- v1, ctx <- v2, res <- v3, input <- v4, wanted <- v5, todo <- v6, text <- v7
TypingInit == Typing!MCInit /\ v8 = 0 /\ v9 = 0 /\ v10 = 0 /\ v11 = 0 /\ v12 = 0 /\ v13 = 0
TypingNext == Typing!MCNext /\ UNCHANGED <<v8, v9, v10, v11, v12, v13>>

Lab == INSTANCE LabTip WITH
    Keys <- MCLabKeys, MayFail <- MCLabFails, MaxKeys <- 3,
    MaxFaults <- 1, active <- v1, open <- v2, cell <- v3, disabled <- v4, states <- v5,
    hangul <- v6, known <- v7, alive <- v8, doc <- v9, typed <- v10, faults <- v11,
    crashed <- v12, upset <- v13

Box == INSTANCE TryBox WITH
    Layouts <- {"hangul", "sequence", "static", "pass"}, MaxKeys <- 3, MaxTurns <- 3,
    text <- v1, sel <- v2, focus <- v3, target <- v4, comp <- v5, fsm <- v6, seq <- v7,
    layout <- v8, file <- v9, testMode <- v10, typed <- v11, upset <- v12, turns <- v13

OwnVars == {"route", "hanja", "code", "control", "inline"}
SharedAtRest == v1 = 0 /\ v2 = 0 /\ v3 = 0 /\ v4 = 0 /\ v5 = 0 /\ v6 = 0 /\ v7 = 0 /\ v8 = 0
                /\ v9 = 0 /\ v10 = 0 /\ v11 = 0 /\ v12 = 0 /\ v13 = 0

\* In the other parts the sink rests in a document whose keyboard is off.
RouteAtRest ==
    /\ svc = [layout |-> "pass", fullWidth |-> FALSE, passthrough |-> FALSE, disabled |-> TRUE,
              popup |-> "none", comp |-> 0, reading |-> 0, hit |-> NoChord, front |-> {}, last |-> 0]
    /\ preserved = {} /\ pressed = {} /\ ghosts = {} /\ clock = 1 /\ lost = 0

\* The others rest as they began.
HanjaAtRest == HanjaInit /\ kind = [d \in Docs |-> "edit"] /\ focus = "d1"
               /\ host = HanjaHost(FALSE, TRUE, FALSE, FALSE)
CodeAtRest == CodeInit /\ focusTid = "t1" /\ program = CodeHost(FALSE, TRUE, FALSE, FALSE)
CompAtRest == CompInit /\ focusCtx = "c1"
EditAtRest == EditInit /\ ctlText = <<>> /\ control = Control("edit", FALSE, TRUE, 1, TRUE)

------------------------------------------------------------------------------
ASSUME MCInputAssumption ==
    /\ Typing!MCHangulTypingAssumption
    /\ HanjaAssumption
    /\ CodeInputAssumption
    /\ InlineCompAssumption
    /\ EditControlAssumption
    /\ KeyRouteAssumption /\ HanjaMakesNoText

MCInit ==
    /\ board \in Boards
    /\ IF board = "route" THEN Init ELSE RouteAtRest
    /\ IF board = "hanja" THEN HanjaInit ELSE HanjaAtRest
    /\ IF board = "code" THEN CodeInit ELSE CodeAtRest
    /\ IF board = "control" THEN EditInit ELSE EditAtRest
    /\ IF board = "inline" THEN CompInit ELSE CompAtRest
    /\ \/ board \in OwnVars /\ SharedAtRest
       \/ board = "typing" /\ TypingInit
       \/ board = "lab" /\ Lab!Init
       \/ board = "trybox" /\ Box!Init
MCNext ==
    /\ UNCHANGED board
    /\ board # "route" => UNCHANGED vars
    /\ board # "hanja" => UNCHANGED hanjaVars
    /\ board # "code" => UNCHANGED codeVars
    /\ board # "control" => UNCHANGED editVars
    /\ board # "inline" => UNCHANGED compVars
    /\ board \in OwnVars => UNCHANGED shared
    /\ \/ board = "route" /\ Next
       \/ board = "hanja" /\ HanjaNext
       \/ board = "code" /\ CodeNext
       \/ board = "control" /\ EditNext
       \/ board = "typing" /\ TypingNext
       \/ board = "inline" /\ CompNext
       \/ board = "lab" /\ Lab!Next
       \/ board = "trybox" /\ Box!Next
MCSpec == MCInit /\ [][MCNext]_mcVars

------------------------------------------------------------------------------
(* Properties *)

(* What is typed is in the text, once.  The built-in keyboards type every     *)
(* syllable as it is spelled, without ever committing what a later key takes  *)
(* back, and the laboratory's automaton agrees with the product's; whatever   *)
(* is refused or forgotten, each key is in the text once in the laboratory's  *)
(* service, where it is also shown while it is composed, and in the manager's *)
(* boxes.                                                                     *)
TypesTheText ==
    /\ board = "typing" =>
          Typing!CommitsAPrefix /\ Typing!TypesTheText /\ Typing!AgreesWithTheLab
    /\ board = "lab" => Lab!EveryKeyOnce /\ Lab!ComposedIsShown
    /\ board = "trybox" => Box!TypedIsThere
==============================================================================
