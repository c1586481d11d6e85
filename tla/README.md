# Formal models of Jamotong IME

TLA+ modules, TLC configurations and TLAPS proofs about Jamotong, a Korean input method
for Windows (a TSF text input processor in C, with layouts for other languages). Line
numbers below are those of the sources in `src/src/` unless a path says otherwise.

Contents

1. [The system](#1-the-system): its parts, state, operations and hazards
2. [Modules](#2-modules): which module models what, and how to read it against the code
3. [Runs](#3-runs): what TLC checks, the bounds and why they are enough, fairness
4. [Proofs](#4-proofs): what TLAPS proves, from which assumptions and how
5. [Disagreements found](#5-disagreements-found)
6. [Abstractions](#6-abstractions)
7. [Not modelled](#7-not-modelled)
8. [Plan](#8-plan)

To check: `tlc -workers 2 -config MCInput.cfg MCInput`, `tlapm CompartmentProofs.tla`.

## 1. The system

Windows loads the service (a DLL) into every application that takes text. TSF
calls it on the application's input thread: key events (`ITfKeyEventSink`), focus
changes, compartment changes, edit sessions it asked for, the language bar. One
handler runs at a time, but handlers nest (a `SetValue` or an edit session may call
other people's sinks, and these call ours), and edit sessions may be granted later.
A settings window runs on a thread of its own in the same process and exchanges the
configuration under `g_configLock`; other processes have their own copy of the
service and share the settings file, the layout folder and the dictionaries. A helper
process draws for hosts in which the service cannot open windows. A manager, a setup
command and a removal tool work on the same files and on the registry.

| Part | State it keeps | Operations | With whom it interacts |
|---|---|---|---|
| Hangul automaton (`fsm.c`, `layout.c`) | `FsmContext`: one of five states, three jamo indices | process key/symbol, flush, backspace, peek | key sink; tables of `layout.c` or of a layout file |
| Key sink (`text_service.c`) | preserved keys, pass-through, the engines | test key, key down/up, preserved key | TSF, every engine |
| Delivery (`text_service.c`, `transition.c`) | `compTargetCtx/Hwnd`, `cpPending*` | transitions, fold, pending retry, deactivate | everything |
| Inline composition (`comp_inline.c`, `comp_path.c`) | `pComposition`, `pCompContext`, demerits | apply, finalize, cancel, termination by the host | edit sessions of TSF |
| Edit controls (`edit_session.c`, `edit_verdict.c`) | none | read, select, replace by messages | Hanja, delivery |
| Moachigi (`chord.c`) | `cho/jung/jong`, `keyDown[]`, `activeKeys` | key down, key up, heal | key sink |
| Key resend (`text_service.c` 904-1002, 1165-1179) | one slot (key, window, owner), timer | schedule, flush, timer, route | key sink, other windows and instances |
| Hanja (`hanja_txn.c`, `hanja_dict.c`) | `hanjaCycle`, candidates, tables of the process | look up, choose, cycle, load | edit sessions, candidate window, helper |
| Candidate window (`candidate_ui.c`, `ui_element.c`) | list, selection, page, hook, element | show, key, mouse, dismiss | Hanja, sequence layouts, the host |
| Sequence layouts (`seq_layout.c`, `jdict.c`) | pending keys, reading, segments, open dictionaries | key, flush, convert, choose, open | delivery, candidate window |
| Chord layouts (`chord_layout.c`) | keys down, layers, held modifiers, macro, timers | key down/up, tick, release all | key sink, `SendInput` |
| Code input (`code_input.c`) | digits, owner thread, element | open, key, hide | key sink, helper, the host |
| Compartments (`compartment.c`, `comp_state.c`) | `cpLastOpen`, `cpLastConv`, `cpSelfWrite` | attach, detach, publish, `CES_OnChange` | other TSF components |
| Layout list (`config.c`) | `layouts`, `enabled`, `currentLayoutIndex`, late bodies | rotate, ensure body, merge, apply edited | all of the above, settings thread |
| Settings (`settings_ui.c`, `config.c`, `plugin_loader.c`) | a copy of the list, staged files | add, remove, reset, import, Apply, Cancel; save, load | layout list, files |
| Built layouts (`jlay_build.c`, `jlay.c`), dictionaries (`jdict_build.c`) | files | build, prune, list, load; bake, map, search | layout list, sequence layouts |
| Manager (`tray_app.c`) | open file, try box | open, save, check, export, install, try | files |
| Helper (`ui_client.c`, `ui_server.c`) | pipe, what is drawn, selection | show, update, hide, restart | candidate window, code input |
| DLL and service (`dllmain.c`, `text_service.c`, `langbar.c`) | reference counts, sinks, timers, item | create, activate, deactivate, unload | COM, TSF, settings thread |
| Setup, removal (`setup_cmd.c`, `register.c`, `install_acl.c`, `cleanup_tool.c`) | folder, registry, pending deletions | register, undo, unregister; scan, remove | Windows |

What is hard, and what makes each part correct:

* **Automaton.** A two-set keyboard does not say whether a consonant ends a syllable
  or begins the next one; the automaton guesses and corrects. Correct: no sequence of keys,
  flushes and backspaces loses, doubles or reorders a jamo, and the screen shows what a
  flush commits.
* **Key sink.** TSF asks first (`OnTestKeyDown`) and delivers only what was claimed; the first
  half already has effects. Correct: both halves agree, and no key, chord or shortcut arrives
  in front of the syllable that was typed before it.
* **Delivery and composition.** A focus change is reported after the new window has the focus; the
  host may end a composition at any moment; sessions are granted later or not at
  all, and each call in one may fail. Correct: each unit of text goes to the document in which
  it was begun, once, in order, and what was shown stays.
* **Readings and lists.** The keys of an open list come through a keyboard hook, posted, while
  other keys come directly. Correct: order is kept, a pick is of the list that was seen.
* **Late choices.** A Hanja, or a character by its number, is chosen when the caret, the
  focus, the thread may be others. Correct: only the original is replaced.
* **Compartments, layout list.** Everyone can write, and there are two threads. Correct: cached values are
  the compartment's, what is published is current, the active layout is an enabled one.
* **Key resend.** Correct: a key comes after the text it followed, to the window it was
  typed in, once, and no timer calls into a service that is gone.
* **Files.** Processes of several versions write and die at any step. Correct: a reader finds a whole
  file, no version takes away what another needs, what was applied is there after a restart.
* **Helper, timers, DLL.** Correct: nothing stays on the screen or held down for nobody, nothing calls
  into what was freed or unloaded.

`PROJECT.json` lists each hazard at its line with the properties that cover it.

## 2. Modules

| Module | What it is | Run |
|---|---|---|
| `HangulTables` | tables of `layout.c`, composition formula of `fsm.c` | all with Hangul |
| `JamoStream` | abstract input automaton: a stream of letters, a part of it pending | typing |
| `HangulFsm` | `fsm.c`, one action per call; refines `JamoStream` | typing |
| `HangulTyping`, `MCHangulTyping` | `HangulFsm` driven by the keys of a text, on both built-in keyboards | input |
| `Hangul2` | the laboratory's automaton (`examples/standard-tsf-lab/src/hangul2.c`), written apart | input |
| `Delivery` | the journey of composed text through `text_service.c`, `transition.c`, `comp_inline.c` | typing |
| `TypingProofs` | proofs about `HangulFsm` and `Delivery` | |
| `TypedText` | abstract: what a user may expect of composing | input |
| `InlineComp` | `comp_inline.c` call by call, with a failing call; refines `TypedText` | input |
| `KeyRoute` | the two phases of the key sink, shortcuts, preserved keys, `chord.c`, chords in front | input |
| `EditControl` | reading, selecting, replacing in a control by messages | input |
| `Hanja` | Hanja key, the three ways to choose, what is replaced | input |
| `CodeInput` | a character by its number, in three shapes | input |
| `LabTip` | the laboratory's text service | input |
| `TryBox` | the manager's editor and try box | input |
| `InputProofs` | proofs about `KeyRoute`, `CodeInput`, `EditControl`, `Hanja`, `InlineComp` | |
| `SeqKb` | the engine of sequence layouts (`seq_layout.c`), as operators | typing |
| `SeqInput` | the service, the candidate window with its hook, and the documents around `SeqKb` | typing |
| `SeqKbProofs` | lemmas about `SeqKb` | |
| `SeqProofs` | proofs about `SeqInput`, from these | |
| `Compartment`, `CompartmentProofs` | `compartment.c`, `comp_state.c`, rotation of `config.c` | compartment |
| `KeyResend`, `KeyResendProofs`, `MCKeyResend` | the boundary key that is sent again | resend |
| `Settings` | the layout list, the window's copy, staged files, restart | files |
| `ConfigFile` | the settings file, saved by two versions | files |
| `LayoutBundle` | layout files carried by an exported settings file | files |
| `LayoutBuild` | `x.jmt` to `x.v<n>.jmb`, versions side by side | files |
| `ManagerFiles` | open, save, check, export, install in the manager | files |
| `JDict`, `SeqOpen`, `HanjaDict`, `JaLattice` | dictionaries: baked and searched; opened; Hanja tables; the Japanese cut | files |
| `Registration` | both DLLs registered in steps, undone when one fails | files |
| `DiskProofs` | proofs about `Registration`, `Settings`, `ConfigFile`, `LayoutBuild`, `SeqOpen`, `ManagerFiles` | |
| `ServiceLife` | DLL, services, sinks, item, timer, settings thread | life |
| `UiHelper` | the pipe to the helper and what it draws | life |
| `ChordKeys` | `chord_layout.c` with its timer | life |
| `Cleanup` | the removal tool | life |
| `LifeProofs` | proofs about `ServiceLife`, `UiHelper`, `Cleanup` | |
| `MCTyping`, `MCInput`, `MCFiles`, `MCLife` | small instances side by side, see 3; they extend the modules in 3 | |

**HangulFsm.** `ctx` is `FsmContext`, `res` the last `FsmResult`; a character is the
record of the jamos it is made of, `NoGlyph` the code's 0 (`TypingProofs`
shows that the formula that turns the record into a character loses nothing). The
combination tables are CONSTANTS, with two flags for the code's branches: `DirectJong`
(finals have keys of their own, so an initial never becomes a final) and
`BuiltinDubeol`. `SpellAssumption` is what the tables must satisfy: a combination is
spelled by its parts, a final that splits by what stays and what moves. `StepEmpty`
... `StepChoJungJong` are the five cases of `fsm_step`. `JamoStream!TypeWord` is the promise
(what is emitted and then pending is what was pending and then typed); `DropFinal` is the one
exception the code makes: a final typed after a bare initial or vowel is ignored.

**Compartment.** A handler (rotation, pass-through, activation, focus,
request) ends in `Compart_Publish`, which is three steps (`PublishRead`,
`WriteOpen`, `WriteConv`), because the settings thread runs between any two of them
unless the service holds `g_configLock` (`locked`: a key event does, the language
bar does not), and because applications' sinks run inside the writes. A request from outside
is two steps more: `CES_OnChange` reads the value, switches the layout (the end of its edit sessions may
call an application that writes again: `waiting` is the stack of such requests), and stores in `Switched` what it
had read. `has` are the compartments the service obtained, `advised` those among them whose sink was taken. `body` is the layout's body,
read at its first use and possibly unreadable, which changes the published kind.
`stale`, `missed`, `refused` are history, set where the code gives up
agreement: a failed write or a settings change; a notification swallowed by
`cpSelfWrite`, stored over by the handler around it, or of a value that could not be read; a refused request.

**Delivery.** A *unit* is a syllable of the automaton, a moachigi syllable or a
reading, numbered in the order of their beginning. `held` is the
unit in an engine, `comp` the inline composition (`Ending` when it no longer shows what is held and
its finalize is queued), `pending` the slot
`cpPendingCommit`, `queue[c]` the insertions of asynchronous sessions accepted for a
document, `docs[c]` what its text holds. `origin` and `gone` are history: where each
unit began, and why it is in no document. `TransitionOutside` is `Jamotong_Transition` outside
key events, with `FlushComposition`, `LeftToComposition`, `FlushSeq` and `FoldedAway` its ways to
dispose of the unit, and `Fold` the clearing that always follows. `JamoKeyElsewhere` is a key in one document while
another one's composition still ends.

**InlineComp** opens the sessions that Delivery takes as one call: start, set text, set the selection,
shift the start past what is confirmed, end. Each event meets at most one call that fails,
and the recovery the code makes (cancel, demote, fall back to insertion) is part of the handler.
The property is a refinement: `Text` (document, composition, and the syllable that waits in the
automaton) may only grow at the end of the document that has the keys, or lose the syllable that is held: to Backspace, to
Esc, and, while it is in no composition, to a boundary key whose insertion fails or a deactivation, which folds without a flush
(`TakesBack`).

**KeyRoute.** A key is followed through `TestKeyDown` and `KeyDown`, operators on the record `svc`;
what is composed is represented by the moment its oldest key was struck (`comp`), what has reached
the application by the newest (`last`). A lost key-up is a ghost until the key is healed.

**SeqKb, SeqInput.** A unit is the sequence of keys it stands for, so readings, candidates and
text all say which keys they came from. The service is one record `w`, since its handlers call one
another. Keys of an open window of our own take the hook's way (`posted`), the others the thread's input queue (`inbox`).
Operators with the prefix `SeqKb_` are the engine's functions of that name; a name in the past tense (`Opened`, `Chosen`,
`Bounded`) is the second half of a handler, what it makes of the engine's answer. `SeqLayoutType` and `SeqAssumption` say what
the parser lets through (`seq_parse.c`).

**Hanja, CodeInput.** Both ask now and write later; between, the caret, the selection,
the focus, the thread or the host may change. The hosts of the model differ in who draws: our window, the
helper, the host itself, nobody (the cycle).

**KeyResend.** `slot` and `timer` are the globals `g_pendResend*`; `input` is the
system's input queue, in which `SendInput` puts a marked key, `posted[w]` the messages
posted to a window, `docs[w]` what it has received. Every event
of the user has a number; a syllable has the number of its first jamo. `MayFail` opens
the error branches. An EDIT window is one that answers
`EM_GETSEL`; a `Queued` window gets committed text as a message of its own queue (CUAS),
the case for which the code posts keys instead of injecting them.

**Settings.** A layout is a name and the heap block behind it, which the code compares to know whether two
entries are the same layout. `live` is the service's list, `temp` the window's copy, `saved` what Cancel
returns to, `staged` and `pending` files that wait for Apply. `Loaded` is what a process that
starts later makes of the files.

**ServiceLife.** A sink advised with TSF (with the manager, a compartment or a document) holds a reference; the language bar item, the
settings window and the timers hold none, so their order in `TIP_Deactivate` matters (`Shutdown`). `resend` and `chord` are the owners of the
two timers that the globals know, `stray` the threads in which a timer goes on whose id was overwritten or that another thread tried
to take back, `outlived` the settings threads that no `SettingsUI_Shutdown` could end.

**Registration, Cleanup, LayoutBuild, ConfigFile.** Each step of the program is an action and the process may
die between two; a later process begins with what is on disk. A `regsvr32` outlives the setup program that was killed and goes on;
the next run is taken to start when it has ended.

## 3. Runs

An instance of one module is small, and the interesting questions are many; so the runs `typing`, `input`,
`files` and `life` put several instances side by side. The variable `board` names the part a behaviour
belongs to and never changes. Their modules extend the parts about which most is proved (`MCTyping`: `HangulFsm`,
`Delivery`, `SeqInput`; `MCInput`: `KeyRoute`, `Hanja`, `CodeInput`, `EditControl`, `InlineComp`; `MCFiles`: `Registration`, `Settings`;
`MCLife`: `ServiceLife`, `UiHelper`, `Cleanup`), whose variables rest in their initial values on the
other boards, so the run checks the very property the theorem states; the other parts share variables `v1`, `v2`, ... which
mean what each INSTANCE substitutes them for. A property over several boards is a conjunction, each part implied by its
`board`, and the parts do not influence one another.

| Run | Distinct states | Boards | Properties |
|---|---|---|---|
| `typing` | 376,702 (up to the symmetry of two documents) | automaton, delivery, reading | 11 |
| `compartment` | 2,793,924 | – | 6 |
| `resend` | 341,488 | – | 5 |
| `input` | 1,821,694 | typing, hanja, code, inline, control, route, lab, trybox | 6 |
| `files` | 1,408,264 | config, settings, bundle, build, manager, registration, jdict, seqopen, hanjadict, lattice | 6 |
| `life` | 115,667 | service, helper, chord, cleanup | 6 |
| `compartment_refusal`, `delivery_reading`, `delivery_chord`, `resend_boundary`, `files_failed`, `files_half` | – | | violations, see 5 |

What each property says:

* **typing** — `ShownIsPending` (the display is what a flush commits) and `ComposesTheStream`
  (refinement of `JamoStream`) on board automaton. On delivery: `ExactlyOnePlace` (a unit is in
  exactly one place: engine, slot, queue, a document, or accounted as lost), `RightDocument` (no unit is, or is on its
  way, in a document it was not begun in), `ComposedWhereStarted` (a composition and its target are where the unit
  was begun), `KeptInOrder` (with prompt sessions documents in the order of typing and no syllable of the automaton
  is dropped for another document's composition; with any sessions none is folded away). On reading: `TypedInOrder`
  (what the user typed is in the text or waits, in order, whatever was converted, cut, cancelled,
  picked or folded), `WindowIsCurrent` (the window holds the focused document, and its list is of
  the present reading), `ChipIsWhatWaits` (the chip has the keys that wait, a segmented sentence included, and is what a flush commits), `NoKeyOvertakesTheReading`, and the step property
  `ScreenIsKept` (a posted key meets the list its presser saw; a boundary key leaves the sentence
  that was shown).
* **compartment** — `OpenCacheCoherent`, `ConvCacheCoherent`, `CompartmentsAgree`,
  `LockedPublishIsCurrent`, `ActiveIsEnabled` (while any layout is on), `OutsideMovesOnlyToWanted`.
* **resend** — `EachKeyOnce`, `TimerHasOwner`, `EditKeyStaysHome`, `KeysArriveInOrder` (after the text
  before it, and among each other), and the liveness property `EveryKeySettles`.
* **input** — `TypesTheText` (every vowel and final beside every initial, on both built-in keyboards with the
  full tables: the text comes out, no wrong prefix is ever committed, and the laboratory's
  automaton makes the same of it; in the laboratory's service and in the try box each key is
  in the document or composed, whichever call failed of those the service makes up for, and in every other document
  whichever failed); `WritesWhatWasTyped` (the code input writes the number its
  own thread typed, never half a pair); `OnlyWhatWasChecked` (a control's text is replaced, and called selected or read, only where the
  read-back agreed, in every control whose read-back tells); `KeysKeepTheirWay` (the halves of the key sink agree, nothing overtakes the syllable,
  a struck syllable ends with its keys); `ConversionIsExact` (a late choice replaces the original and nothing else; asking
  changes nothing); `TextIsAsTyped` (refinement of `TypedText`: a
  step types at the document of the keys, and only what `TakesBack` names takes the held syllable away).
* **files** — `FilesAreWhole` (settings file, bundle and its import, body of the listed kind, what is
  installed was checked before it was copied), `DictionariesAnswer` (a baked dictionary answers as its source, an opened layout is whole, Hanja tables
  answer as the files, the Japanese cut is whole and the cheapest the beam allows),
  `NoHalfRegistration`, `BlocksAccountedFor` (no freed block in use, none unowned),
  `RestartKeepsTheApplied` (what Apply put into force is what later starts show first, but for a layout the user
  was warned about and that is not there), and the step property `KeepsWhatIsNotOurs` (a save keeps other versions'
  keys, pruning keeps other versions' builds, only Apply installs).
* **life** — `NoCallbackIntoTheVoid` (item, timers, sinks, settings threads and the count of the DLL, each against the service or
  DLL it would call), `ScreenIsAskedFor`, `KeysAreCounted` (counters agree with the
  keys, nothing stays held by itself), `DoneMeansGone`, `OnlyOursGoes`, and the liveness property `PartsEnd` (`Begun ~> ~Begun`: a list
  nobody asks for goes, a macro ends, a removal that is repeated ends clean).

*Bounds.* They are chosen so that each resource is contested and each branch taken:

* Automaton: alphabets with at least one jamo of each class the tables tell apart; the whole tables
  enter board typing, where every syllable is followed and preceded by each class of neighbour.
* Delivery: one slot, one target, one composition and one engine unit at a time, so two units make each
  contested; four documents are the four kinds the code tells apart: an EDIT control, a terminal that takes only commits, one with
  standard compositions, and one with both (the editor of Windows 11's Notepad answers `EM_*` too). So "some other document" differs from the
  focused one and from the one where a composition still ends. More units are the theorems' business.
* Reading: four layouts (Japanese with a two-key word whose first key is a word too, Chinese with live
  lists, a plain one, one with candidates and no style), two documents, a reading of at most two units and two keys on the way: a full
  reading, a stale list and a key behind another all occur.
* Compartment: three layouts, so that "the next enabled one" and "one of the wanted kind" differ from each other and
  from the current one; one body read late; the user may have switched on none, a Latin and a Hangul one, two Hangul ones, or all
  (`Choices`). The width is full (`FullWidths`), since it only adds a bit to each mode, and applications write the two modes of that width, Latin and native
  (`AskedConvs`). A request within a request (`MaxNest` 2) already has its value stored over. The theorems bound none of these.
* KeyResend: two windows with an instance each give the three routes, a key of another instance in the slot, a
  focus that has moved; four events make a second key meet the waiting one.
* KeyRoute: all default shortcuts of `config.c`, every kind of layout in the rotation, two letters of which one belongs
  to the chord in front, six events, one lost key-up. A third letter adds states of the same kind.
* Hanja: a document and another, words of one and two letters, four acts between asking and choosing.
  CodeInput: two threads, digits 0 and D (surrogates, U+DDDD, U+D000 and beyond 10FFFF when six are typed), seven keys.
* InlineComp: every call of TSF in every event that makes it may fail, two faults in a behaviour; a demerit limit of
  two, so that a host is demoted within the bound. LabTip: every call of every command may fail;
  boundary keys are left out, which the lab treats as a shortcut key while its keyboard is open and as a letter while it is closed.
* Files: two processes of two versions, two saves, two edits and any death; three formats; sources
  of up to three dictionary rows; texts of up to four characters with a line buffer of five, so that
  lines are cut; six commands of the settings window.
* Registration: two runs and one category step, folders safe and unsafe. ServiceLife: two services, so that a timer has another owner, with
  one document and one settings thread; the locks and the services with a further reference together are bounded by one (they only add to the
  count of the DLL, which the theorem bounds nowhere); of what an activation may miss, the edit sink (the rest of it is in the theorem: the bits are independent). Helper: two applications, two deaths, three keys. Chord layout: two
  keys with every kind of entry, one lost key-up. Removal: every set of leftovers, one refused step.

*Fairness.* `EveryKeySettles` assumes weak fairness of taking the
next input, of the timer's callback and of each window's posted messages: what a
thread that pumps its messages does, and the code needs such a thread
to be called at all. Nothing is assumed of the user, of applications that move the focus or destroy
windows, or of activation. `PartsEnd` assumes weak fairness of the helper's two threads
(`ReadPipe`, `ClientGone`, `SrvWndProc`: loops without an exit while the process lives), of time
and the tick timer of a chord layout, and strong fairness of the steps a user of the removal tool takes
(open, remove, restart when told to): its claim is that a user who goes on ends clean, not that
the tool runs by itself. The other properties need no fairness.

*Deadlock.* `compartment` and `resend` check it. The boards' behaviours end when their text is typed or
their bounds are used up (`CHECK_DEADLOCK FALSE`).

*`prompt`.* With asynchronous sessions granted arbitrarily late, order within a
document cannot hold (a key typed on return is inserted synchronously while the
older insertion still waits), and the code does not claim it. `prompt`, chosen at the start, is whether TSF grants
an accepted session before the next event; order is claimed where it does, all else in both cases; what is shown then is that the service's own slot keeps
the order. Likewise `Late` is FALSE on board inline (a session granted after
the focus has come back confirms out of order).

Each property has at least one mutant of the code that it catches (`PROJECT.json`, `mutants`); a property
over several boards has one for most of them. The mutated operators stand beside the original.

## 4. Proofs

All theorems hold for every value of the constants that satisfies the modules' named assumptions: any number
of documents, windows, services, layouts, folders or processes, any bound on faults and events. Each invariant below was
first checked by TLC on the instance of its run.

| Module | Theorems | Property of a run they state |
|---|---|---|
| `TypingProofs` (HangulFsm) | `ComposeInBlock`, `ComposeInjective`, `TypeCorrect`, `ContextWellShaped`, `ShownIsWhatFlushCommits`, `ImplementsJamoStream` | `ShownIsPending`, `ComposesTheStream` |
| `TypingProofs` (Delivery) | `DeliveryTypes`, `UnitsInExactlyOnePlace`, `UnitsInTheRightDocument`, `ComposedWhereItStarted`, `SyllablesAreNotFolded`, `UnitsStandInOrder`, `UnitsAreKeptInOrder` | `ExactlyOnePlace`, `RightDocument`, `ComposedWhereStarted`, `KeptInOrder` |
| `SeqProofs` | `TypedInOrderAlways`, `NoKeyOvertakesAlways`, `WindowIsCurrentAlways`, `ChipIsWhatWaitsAlways`, `ScreenIsKeptAlways` | all five of board reading |
| `InputProofs` | `EveryStepTypesOrErases`, `KeysAlwaysKeepTheirWay`, `WhatIsTypedIsWritten`, `OnlyTheCheckedWord`, `ChoiceReplacesTheOriginal` | `TextIsAsTyped`, `KeysKeepTheirWay`, `WritesWhatWasTyped`, `OnlyWhatWasChecked`, `ConversionIsExact` |
| `KeyResendProofs` | `TypeCorrect`, `TimersAreOwned`, `KeysStayHome`, `KeysAreKeptOnce`, `KeysComeInOrder` | `TimerHasOwner`, `EditKeyStaysHome`, `EachKeyOnce`, `KeysArriveInOrder` |
| `CompartmentProofs` | `CompartmentTypes`, `NeverAnUnwantedLayout`, `CacheIsCoherent`, `OpenCacheIsCoherent`, `CompartmentsShowTheLayout`, `KeyPublishesTheTruth`, `OutsideMovesRightly` | all six of `compartment` |
| `LifeProofs` | `NothingCallsIntoTheVoid`, `ScreenShowsWhatIsAsked`, `WhatIsDoneIsGone`, `OthersFilesStay` | `NoCallbackIntoTheVoid`, `ScreenIsAskedFor`, `DoneMeansGone`, `OnlyOursGoes` |
| `DiskProofs` | `NoRunLeavesAHalf`; `EveryBlockHasItsOwner`, `StartsKeepTheApplied`, `OnlyApplyCopies`; `SettingsFileIsWhole`, `SavesKeepAndWin`, `BodiesFitTheirKind`, `OldBuildsAreKept`; `OnlyWholeOnesAreUsed`, `OnlyCheckedIsInstalled` | `NoHalfRegistration`, `BlocksAccountedFor`, `RestartKeepsTheApplied`; parts of `FilesAreWhole`, `KeepsWhatIsNotOurs`, `DictionariesAnswer` |

* **HangulFsm.** The invariant is the type invariant with `ContextShape` (each state sets exactly its
  indices) and `ShownIsPending`; the refinement of `JamoStream` needs all three, because the stream's `pending` is computed
  from the context and its step from the shape of the context before the key. The step lemmas go
  state by state of `fsm_step`, and each uses the row of `SpellAssumption` for the table it consults.
  The one state that the shape of the context leaves open is a final without its split entry, which `TableAssumption` excludes.
* **Delivery.** `Inv` has two halves. `Attending` says what one moment needs: what is composed
  was begun in the focused document and with the current layout, the target is that document or none, and a composition
  that does not show it (`Ending`) is in another document, where its finalize comes before the next key. `Standing` says where the units are: all that is held, composed, pending, queued
  or written is in its own document (`Homed`), and each unit that no failed composition has left behind has one
  holder (`Single`). Dozens of branches of the code come down to five moves of units (`Moves`: nothing moves; a key begins or takes up a unit; a
  composition ends; a unit leaves its holder and lands; deactivation), each after what happens to a composition that ends elsewhere (`Rest`:
  nothing, its text stays, or a key has it removed), so `Standing` and the order are shown for the moves, and
  each action is shown to be one. Where sessions are prompt there is no such composition (`Alone`), hence nothing is dropped for it. `OrderInv` is only about prompt sessions: what may still come to a
  document is at most one unit, and later than all that stands there.
* **InlineComp.** The refinement of `TypedText` maps a session's document, the composition in it and the waiting
  syllable to one text. `InlineInv`: a composition that no accepted session is about to end stands in the focused document and shows
  exactly the automaton's syllable (`Standing`); while sessions wait, the automaton is empty. So whatever call
  of a session fails, the text a user sees (`Seen`) is the documents with the held syllable at the end of the focused one, and a lemma
  for each call (start, set text, confirm a prefix, end, forget) says what it adds. `~Late` is assumed, see 3: no key in any document
  comes before a session that waits. `Delivery` has the keys that do.
* **KeyRoute.** That the halves of the sink agree follows from the types, branch by branch. The order
  needs to know where a syllable can be at all: `Sound` says that one is composed only by the automaton's layouts and in a service
  that takes keys, that keys of the chord in front are down only where there is one, and struck keys
  only in a moachigi layout. It also needs `HanjaMakesNoText`: a Hanja key that finds nothing is passed on with the
  syllable still composed (`text_service.c:1587` and after), which is harmless for the default key and not for
  a key that makes text.
* **CodeInput.** `ShownIsTyped`: while the line is up, the digits in it are those of the thread that may type into it now,
  through every thread that comes and goes (`ownerTid`). The rest is arithmetic: the number of at most six hexadecimal digits is
  in range, and a pair of UTF-16 units decodes to the character it was made of (`UnitsDecode`).
* **EditControl.** A control counts characters, bytes or UTF-16 units, so the module speaks of positions (`Pos`); that they grow with the letters
  makes the place of the caret among the letters well defined (`Edge`), and a text read back between two positions
  is the word that stands there. Whoever then replaces only where the read-back agrees replaces that word. `ReadsExactly` is what a control must
  satisfy for that: it copies its selection itself, or it counts the text that stands in it as letters.
* **Hanja.** Between the key and the choice anything may happen, so the invariant says for each moment where the original is.
  `InlineAtCaret`: a composition of ours stands before the caret of the focused document. `OwnListFits`: our own list belongs to the focused
  document, what was kept for the choice agrees with it, and in a document that reports changes the original still `Stands` where the
  choice will look. In one that reports none the choice compares the text itself. Asking for candidates changes the text only by
  ending the composition, which leaves the whole text as it reads (`AskingKeeps`). The dictionary is any function of words to lists of
  candidates.
* **SeqInput.** A handler of the service is a dozen of the engine's operations deep, so the proof has two floors. The lower one is the engine (`SeqKbProofs`):
  each operation, from any `Good` state (at most `MaxReading` units, pending keys the dictionary can still extend), returns one, and says
  what happened to the keys (a cut buffer, a delivered unit, a flush neither loses nor doubles one), to the generation (a list of before is of
  this reading or has an older number), and to the list (`IsConverted`, `IsChoice`, `IsSynced`). These functions are recursive over
  sequences. The induction theorems cannot be used (see below), but induction over a *set* can: `UpTo` (a set of numbers that
  has 0 and with each number the next has all) and from it `Recursion` and `Iteration` (a function that is defined by its values at smaller numbers
  exists), which come from the least element of a set. The upper floor is the service (`SeqProofs`): `Sound` says of the record `w` that the chip is what waits
  (or the sentence of the segments, whose lengths add up to the reading), that an open window holds the focused document and a list of the
  present reading, and that nothing is held otherwise; each handler, and each of the second halves it shares with others, keeps it. `SeqIInv` adds
  what lies between presser and handler (`SeenIsShown`: a posted key was pressed on the list that is shown now) and is closed under the
  renumbering of generations at the end of a step.

  The order of the keys (`TypedInOrder`, `NoKeyOvertakesTheReading`) is a second invariant on top of that one, the `Ledger`: between two steps each
  document agrees with the keys typed for it but for what waits in the engine (`Told`). No single operation keeps it, so each is given a statement of
  what it *moves*: `Whole` is a document's text and then what waits; `Moves(v, u, o)` says that a handler leaves it as it was,
  `Writes(v, u, o, x)` that it becomes x, and both that what the handler inserted is ours. Converting, cutting, choosing, opening and closing lists,
  flushing and folding move; a key writes what is `Due`: the keys so far and the new one, or without the newest (Backspace), without
  all that waits (Esc), or without the pending ones (a layout that cancels an unmatched sequence). Of the engine's operations the same is shown of `Typed`: a
  key that is delivered, cut from a buffer, or pushed out by a full reading stands where it stood. `Owed`, in the model, says what
  is due in terms of the user (what is open, what was pressed); that the handlers' branches come to the same is `OnKeyDownIs`, `HandledKeeps` and `AfterWindowIs`.
  Layouts that have candidates and no style (not `Styled`) are included: a printed key they do not know passes the reading, see 5, and
  the ledger starts over there (`Passed`). What the three losses of `TypedInOrder` except (`spilled`) stays excepted.
* **KeyResend.** `TypeInv`: the timer has an active owner and counts as a place in the input queue, since its
  key was taken from there and may come back. `PlaceInv` follows a key on its whole way, while
  `EditKeyStaysHome` speaks of received keys only: numbers in the input queue are distinct and new, a posted or injected
  key was eaten before, the waiting key has the window it was typed in, and an EDIT window's key is never in the input queue.
  `OnceInv`: each eaten key has exactly one place among slot, queues, texts and what was given up, at one position.
  `FreshInv` and `OrderInv`: what the user is about to do is later than every eaten key, the slot holds the last of these, and
  in what a window has received and will receive keys and text stand in order; the lemma for a call that sends a key (`ResendKeyNow`: a loss, a marked
  key at the end of the input queue, or a message at the end of its window's) serves the timer, `Deactivate` and both halves
  of `ScheduleKeyResend`.
* **Compartment.** `CompartmentsAgree` is not inductive: it speaks of idle states, and a handler passes three
  steps in between. The inductive invariant adds what each step of `Compart_Publish` has established:
  after the read, `want` is the configuration unless `stale`; after each write, the cache holds the
  wanted value unless `stale`; and each cache is its compartment unless `missed` (or `refused`). Rotation and picking need
  that the nearest candidate exists: a lemma on the least element of a non-empty set of naturals, applied to distances around the ring.
  Of requests nested in one another the stack `waiting` says, for any depth, what each handler will store: the outermost stores what
  stands in the compartment unless something came since (`StoresWhatIsThere`), and whatever came is in `missed`.
* **ServiceLife.** `Counted`: the DLL's count is the sum of factories, locks and live services (their number: the cardinality of
  a finite set), and who holds a reference holds a live service. `Owned`: the item, the two timers and the settings thread,
  which hold none, belong to an active service (a thread that no `Shutdown` could end apart); an unloaded DLL has no timer that the globals know. That no code runs
  that is gone follows from both together.
* **UiHelper.** A property of the screen when nothing is under way needs an invariant of everything under way. `Asked` says what the
  helper will hold when it has read the pipe: the last message that opens a list or a line is what the application asks for now, the last
  message of all carries its selection; `DrawnIsShared` says the same of the messages posted from the reading thread to
  the window's. Each write, read, post, paint, death and reconnection is shown to keep both, for pipes of any length.
* **Cleanup.** `RemovalInv`: only programs and their DLLs are ever held, so only those
  wait for a restart; and what was called done stays so.
* **Registration.** `NoHalfRegistration` speaks of the end of a run. `RegInv` says for each phase what the
  steps behind it have left (`Reached`: what a job's stage implies about the registry), that the 64-bit job is over once the other has begun,
  and that a side whose undo succeeded stays empty: the one job that can still run beside the undo
  is a `regsvr32` that was given up on (`late`), and a job that a killed program has left
  behind runs only while nothing else does. It is this, not any single step, that the claim rests on.
* **Settings.** Under both theorems lies what the merge of a saved list does (`MergeReorders`): the result is the old list in another
  order, switches apart, and begins with the lines that found a layout. `Ranks` is the counting behind it: the n-th
  place of a finite set of places exists and is the only one. `OwnersInv` then says that within a list no two entries share a block (`OneOwner`),
  that a copy says of a layout's tables what the service's list says of them or said before it read them (`Older`), and that
  Revert can only go back to blocks the service has (`RevertIsSafe`). What is allocated is exactly what the service and the copy hold, so
  giving up the copy leaves the service's blocks and no other; that Apply keeps the tables read meanwhile rests on `Older`. `KeepInv` follows a name from Add to the built file: while the window is open each entry of
  the copy is known (built in, in the store, or warned about) or its copy still waits under its own block (`Accounted`: the pair is
  what makes Delete drop the right one); once the copies are made every name is known, and after the build it is found.
  `StartShowsTheSaved` gives the rest: a start that finds the lines shows them. The restart theorem assumes `FilesDiffer`: two layouts
  whose source files have one base name replace each other in the folder (`settings_ui.c` asks first), and the one replaced is gone.
* **The other files** (`DiskProofs`, instances on variables of their own). `FileInv`: who is about to move its temporary file
  finds it there, complete, because nobody else uses its name. `BuildInv`: a builder writes only into a build that cannot be read until it is
  closed, and what is listed and read is of one kind. `KeepsInv` adds to `FileInv` what each process in a save holds: the lines it
  kept are those of the file it started from, and at its commit its temporary file is its whole save. A key of the later version stands
  at most once in any file (`FileFits`), so the limit of `KEEP_MAX` lines, which is 256 and assumed to be at least one, cannot cut it off; what is kept of a section is
  counted with `Ranks` again (`ChosenOnes`, `HavingThese`). `OpenInv`: what a layout holds is open, and is good wherever everything is opened at once.
  `OnlyCheckedIsInstalled` has the write that a full disk cuts short, which the code does not notice (`tray_app.c:326`-`330`): what was checked is
  then installed in part, and a file cut short is taken not to load.

Only model-checked, and why:

* `EveryKeySettles` and `PartsEnd` are liveness; the prover has neither fairness nor `ENABLED` here.
* `TypesTheText` is about the concrete tables of two keyboards, and about `LabTip` and `TryBox`, which have no proof yet.
  All three parts of `KeepsWhatIsNotOurs` are proved, each as a theorem about its own module, and so are the parts of `FilesAreWhole` but for
  `LayoutBundle`, whose names and marks are put together and taken apart again. `DictionariesAnswer` rests on recursive
  functions over rows and words (`JDict`, `JaLattice`); its part about the files a layout opens is proved. The library's induction theorems take an operator as a parameter, which the provers at hand cannot instantiate, so each such function
  needs its own set of numbers, as in `SeqKbProofs`; where the definition is a RECURSIVE operator
  (`KeysAreCounted`: the macros of `ChordKeys`) there is no proof at all.

## 5. Disagreements found

Runs that find what a comment or document of the repository says violated:

1. `compartment_refusal`: a refused request through `KEYBOARD_OPENCLOSE` is not undone
   although comments at `compartment.c:103` and `:124` say so. The cache still holds our
   own value, so publishing skips the write. The conversion-mode path does undo it.
2. `delivery_reading`: a switch through a compartment changes the current layout first;
   the flush of a reading then looks at the new layout and does nothing
   (`compartment.c:115`, `text_service.c:231`), although `text_service.c:228` says the reading is not lost.
   The language bar, which flushes first, is right.
3. `delivery_chord`: a moachigi syllable whose keys are down is dropped when the focus
   leaves; `transition.h:3` says that the remaining syllable is confirmed.
4. `resend_boundary`: a boundary key typed while another waits for its 30 ms, and with
   nothing composed, is not eaten and arrives first; `text_service.c:927` says that a
   new boundary key sends the waiting one first. Only `ScheduleKeyResend` does (1168).
5. `files_failed`: when the first dictionary of a sequence layout opens and a later one does not, `sl->dict` stays
   set; the next key is eaten by a layout marked as failed. `seq_layout.c:1441` says it eats none.
6. `files_half`: `EnsureHanjaDicts` reads `s_tried` outside the lock, and the loading thread sets it first; another thread
   then searches tables that are being filled, which is what the comment at `text_service.c:883` sets out to exclude.

What the proofs about readings showed, beside what they prove (no comment or document is at odds with it, so it is no run's):

* `seq_parse.c:195`-`217` accepts a candidate dictionary in a layout that is neither Chinese nor Japanese. There a printable key the table does not
  know goes to the application (`text_service.c:1414`; `:1896` handles such keys for the two languages only) with the reading before it still waiting,
  although `text_service.c:1873` says, of the two languages, that the key comes after the reading. `README.md:724` of the repository shows how to write such a
  layout; none comes with the program. `NoKeyOvertakesTheReading` excepts that key, `TypedInOrder` counts its place as a loss (`Passed`), and both are claimed of these
  layouts otherwise; the run has one.
* In V mode with a full reading a digit is taken and dropped (`seq_layout.c:138`), and Backspace in segment editing returns to the reading and takes no key back (`text_service.c:690`). `Owed` says so of
  both, and of a key an unmatched sequence is cancelled with.
* When `CandidateUI_Show` finds no window (`candidate_ui.c:522`-`528`) it takes back its callbacks but `g_onKey` and `g_onSegKey`, so the
  next list may have the callback of segment editing (Enter then closes it and chooses nothing), although the comment at
  `candidate_ui.c:55` has it for segments only. The keys' order and the chip do not depend on it, and the theorems cover such states.

What the code loses or leaves apart, and the properties and their history variables name instead of excluding:

* An application that writes a compartment while a request switches the layout (`compartment.c:120`) is told nothing wrong, but `cpLastOpen` then gets the
  value read before (121): cache and compartment differ until the next change (`missed`). The same where `AdviseSink` failed (149-158, `advised`): the compartment is
  kept and written, and its changes are never told.
* `TIP_Deactivate` folds without a flush (`text_service.c:2502`-`2507`), and a boundary flush ignores that the insertion failed (2046, 2057): the held syllable is gone
  when no composition shows it (`InlineComp!TakesBack`).
* A plain EDIT control that counts a wide letter as two may be said to have the word selected when other letters are: the read-back (`edit_session.c:509`, which means
  to cover controls that count bytes) uses the same count twice. `EditControl!OnlyWhatWasChecked` claims the word for the other controls (`ReadsExactly`), and of this one
  that nothing is selected after a refusal.
* The laboratory's service makes nothing up when a session that ends a composition is refused (`composition.c:720`-`728` of `examples/standard-tsf-lab/src`: the automaton is reset, the composition stays, the
  next letter overwrites it) and when a step fails after its text was written (the key goes to the application too): `LabTip!Unmended`. What is claimed in the run is that
  every other failing call is made up for, and that no other document suffers.
* A disk that fills up leaves part of a file the manager saves, exports or installs (`tray_app.c:326`-`330`).
* The name of a character is one of its sounds (`hanja_dict.c:220`): the comment has the first mapping kept, but `qsort` with a comparison of the character
  alone does not say which that is, so the model allows each.

Properties that are stated in the modules but checked by no run, because the code does not keep them; each names the
sentence it takes from the repository:

| Property | Where | What happens |
|---|---|---|
| `Hanja!AnotherKeyEndsTheCycle` | `text_service.c:1582` | keys that do not come to `OnKeyDown` leave the cycle running |
| `CodeInput!RefusedIsPassed` | `text_service.c:1512`, `code_input.c:226` | a key refused because of its thread is eaten all the same |
| `CodeInput!EveryElementEnds` | `candidate_ui.c:578` | the second service's `BeginUIElement` forgets the first's |
| `UiHelper!KeysAreTakenOnlyWhileDrawn` | `text_service.c:1440` | after the pipe broke the code input takes keys undrawn |
| `ChordKeys!HoldsLastWhileHeld` | `chord_layout.c:386` | a lock or an interrupting hold lets modifiers go early |
| `SeqInput!NoListWithoutReading` | `candidate_ui.c` | a list may stay when its reading went another way |
| `InlineComp!NoneLeftOpen`, `NeverANullComposition` | `comp_inline.c` `JamoComp_Release` | with a late session, or an end inside a transaction |
| `LabTip!ClosedHasNoComposition` | the laboratory's `text_service.c:155` | closing the keyboard finalizes in the context of its key only; another document keeps its composition |
| `LabTip!NeverANullComposition` | the laboratory's `composition.c:749` | the host may end the composition while it is being written |
| `Settings!RestartIsTheApplied` | `config.c:1024` | layouts the file does not name come back, switched on |
| `Settings!OneLayoutOn` | `config.c:283`, `1051` | a merged list may have every layout off; the first is active then though it is off |
| `Delivery!SyllableNeverDropped` | `text_service.c:209`, `2038`; `transition.h:3` | any composition is taken for the syllable's own: when another document's is still to end, the held syllable is dropped |
| `ServiceLife!NoStrayIntoTheVoid` | `text_service.c:1165` | a timer whose id was overwritten or that another thread tried to take back goes on, and nothing keeps the DLL |
| `ConfigFile!OurValuesWin` | `config.c:640`, `677` | a key kept from another version is written after ours |
| `LayoutBuild!WhatIsKeptIsWhole` | `jlay_build.c:255` | freshness looks at the stamp, not at the checksum |
| `ManagerFiles!InstalledLoads` | `tray_app.c` | a layout that extends a neighbour is checked in its own folder |
| `JDict!AcceptedIsReadable` | `jdict_build.c`, `klay_cli.c:208` | a `Type` line after the rows is accepted, and the reader refuses the file |
| `SeqOpen!NothingLeftOpen` | `jlay.c:199` | a failed load leaves a dictionary mapped |
| `ServiceLife!WindowHasItsService` | `text_service.c:2493` | the window outlives the wait for it |
| `Registration!UnregisterTellsWhatIsLeft` | `register.c:98`, `dllmain.c:179` | a removal that failed reports success |

## 6. Abstractions

* Characters are records of jamos, keys or unit numbers; wording, drawing, logging, icons and
  caret rectangles are left out.
* A destroyed window or document is one whose sessions and `EM_REPLACESEL` fail from then on.
* One document per EDIT window in Delivery.
* `Settled`: TSF grants a queued *finalize* before the next key event in the document of its composition
  (the code itself relies on it: the next key would otherwise update the composition
  that is about to end). Keys in other documents come before it at will, and what they then find is in the model. A session for one
  document may not write in another (TSF refuses its cookie), and a queued finalize or cancel finds the composition it was queued for.
* When a composition session fails and the cancelling session too, the text the
  composition showed stays (`stranded`), and may be committed again by the fallback;
  `ExactlyOnePlace` and `KeptInOrder` leave such units out.
* The settings thread's replacement of the layouts does not fold the input
  (`text_service.c:260`: the settings window has taken the focus, so the fold has run);
  Delivery therefore has no such action.
* `malloc` fails where a step is taken back because of it (`Settings`); elsewhere exhaustion is left out.
* `Fsm_ProcessSymbol` is a `ProcessKey` with the jamo its symbol names. Guards of a
  layout file choose among jamos by the state; in the model any key may come next.
* KeyResend has no clock: the timer may fire at any moment, so nothing depends on the 30 ms.
  A posted key goes to its window and not through the service again (CUAS hooks hardware
  input, not posted messages). Two input threads of one process do not interleave inside a handler;
  `g_pendResend*` has no lock, and the hazard is listed without a property. ChordKeys counts time in ticks.
* `SendInput` reaches whichever window has the focus when the input is taken, so nothing is claimed of
  the place of a terminal's key.
* KeyRoute takes a syllable as one text with the moment of its oldest key. It claims order for the
  automaton's syllable; two ways by which a key passes a *reading* (a chord in front,
  `text_service.c:1398`; a Ctrl shortcut, 1334) and one by which it passes a moachigi syllable whose keys are
  down are in the model and outside the claim.
* A dictionary value is the keys, or the line, it was found by; files are sequences of lines or entries, and
  offsets, alignment and checksums are "whole" or not.
* COM, TSF, the registry, the installer and the file system are external: a call succeeds, fails, or
  is granted later. A rename is atomic.

## 7. Not modelled

* Lexers, parsers and checkers of layout files, importers of foreign formats (`hangul_parse.c`, `lowlay_*`,
  `klay*`, `*_import.c`): functions of one file without state; what they accept enters the modules as constants.
* Drawing: preview overlay, icons, popup styles, accessibility. They show state and decide nothing.
* Tables of data: kana forms, punctuation, special characters, fuzzy pinyin, dates; the file of remembered
  phrases; per-application profiles; pages of options that copy one value.
* The guard machine of layout files and which jamos a moachigi syllable is put together from.
* The minimal and the probing example services.

## 8. Plan

Done: automaton, compartments, delivery, resend, key sink and chords, composition call by call, sequence layouts with their
lists and the order of their keys, DLL life and registration with their proofs; conversion and candidates, dictionaries, code input, chord layouts, helper, settings and
their files, built layouts, removal, the laboratory's service.

Next, most important first:

1. `LabTip` and `TryBox`: types, then the invariant of who owns the syllable.
2. `LayoutBundle` and `JDict`: text that is put together and taken apart again, with sets of numbers in place of induction.
3. Moachigi's jamos and the guard machine (`chord.c`, `hangul_layout.c`) as a refinement of a unit in Delivery.
4. Statement-level interleaving of two input threads over `g_pendResend*` and `g_chordTimer`.
