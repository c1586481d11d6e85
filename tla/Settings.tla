------------------------------ MODULE Settings ------------------------------
(***************************************************************************)
(* The layout list of a text service and the settings window that edits a  *)
(* copy of it: config.c (who owns the resources of a layout, merging a     *)
(* file into a list, adopting an edited list), plugin_loader.c (layouts    *)
(* found on disk) and the commands of settings_ui.c.                       *)
(*                                                                         *)
(* A layout is known by its name; `res' is the heap block behind the name  *)
(* pointer, which the code compares to decide whether two entries are the  *)
(* same layout.  `body' says what is known of the tables of the layout:    *)
(*   "own"    they came with the entry (built in, or loaded by Add)        *)
(*   "later"  only the header was read; the file is read on first use      *)
(*   "read"   read on first use                                            *)
(*   "bad"    the file was spoiled: the keys go to the application         *)
(***************************************************************************)
EXTENDS Naturals, SequencesExt, FiniteSetsExt

CONSTANTS
    BuiltIn,     \* sequence of the names of the built in layouts
    DefaultOn,   \* those of them that are on when nothing was saved
    Addable,     \* user layouts the user may pick a source file of
    FileOf,      \* the base name of that source file
    Imported,    \* a configuration file to import: sequence of [name, on]
    Bundle,      \* user layouts bundled in it
    MaxCopies,   \* bound: blocks of one name that exist at a time
    MaxSteps     \* bound: process starts, window openings and edits together

Names == ToSet(BuiltIn) \union Addable \union Bundle
Files == {FileOf[n] : n \in Addable \union Bundle}
NoFile == "nothing"

\* The built in layouts have different names, and there is one at least; the user's are finitely
\* many.
SettingsAssumption ==
    /\ BuiltIn \in Seq(Names) /\ BuiltIn # <<>> /\ IsInjective(BuiltIn)
    /\ IsFiniteSet(Addable \union Bundle) /\ NoFile \notin Names
    /\ Imported \in Seq([name : {Imported[i].name : i \in DOMAIN Imported}, on : BOOLEAN])
    /\ MaxCopies \in Nat \ {0} /\ MaxSteps \in Nat

\* The source files of different layouts have different names: no layout is replaced by another.
FilesDiffer == \A m, n \in Addable \union Bundle : FileOf[m] = FileOf[n] => m = n

VARIABLES
    live,     \* [list, cur]: the list of the text service and its current layout
    temp,     \* [list, cur]: the copy the window edits
    saved,    \* [list, cur]: what the Revert button goes back to
    window,   \* "closed", "open", or how far Apply has come: "save", "files", "bake"
    heap,     \* the blocks that are allocated
    bodies,   \* the blocks whose tables were read on first use and are allocated
    pending,  \* layouts added and not yet copied: sequence of [name, res]
    staged,   \* bundled layouts this window restored into the staging folder
    staging,  \* the files in the staging folder
    store,    \* the source file of each base name in the user's layout folder
    baked,    \* the built file of it, the only one a text service reads
    ini,      \* the saved settings: sequence of [name, on], empty as long as there are none
    steps,    \* process starts, window openings and edits so far
    warned,   \* added layouts whose copy failed, as the user was told
    applied   \* what the last Apply put into force, empty once a step failed

settingsVars ==
    <<live, temp, saved, window, heap, bodies, pending, staged, staging, store, baked, ini, steps,
      warned, applied>>
disk == <<staging, store, baked, ini, warned>>

-----------------------------------------------------------------------------
(* Lists of layouts.                                                        *)

Blocks(list) == {list[i].res : i \in DOMAIN list}
AnyOn(list) == \E i \in DOMAIN list : list[i].on
FirstOn(list) == IF AnyOn(list) THEN Min({i \in DOMAIN list : list[i].on}) ELSE 1
Lines(list) == [i \in DOMAIN list |-> [name |-> list[i].name, on |-> list[i].on]]

\* How far along some places a place is, and the n-th of them.
Rank(places, i) == Cardinality({j \in places : j <= i})
Nth(places, n) == CHOOSE i \in places : Rank(places, i) = n

\* What the user sees of a list, without the layouts that are `gone': later entries of a name
\* he already saw count for nothing.
Seen(lines, gone) ==
    LET fresh == {i \in DOMAIN lines : /\ lines[i].name \notin gone
                                       /\ \A j \in 1 .. i - 1 : lines[j].name # lines[i].name}
    IN  [k \in 1 .. Cardinality(fresh) |-> lines[Nth(fresh, k)]]

\* The names a fresh list has, in order: the built in ones, then what is on disk.
Available(files) ==
    LET found == {files[f] : f \in Files} \ ({NoFile} \union ToSet(BuiltIn))
    IN  BuiltIn \o SetToSeq(found)

\* Config_LoadDefault with PluginLoader_LoadAll, into blocks that are not `taken'.
NewBlock(name, taken) == <<name, Min({n \in 1 .. MaxCopies : <<name, n>> \notin taken})>>

Defaults(files, taken) ==
    LET names == Available(files)
    IN  [i \in DOMAIN names |->
            [name |-> names[i], res |-> NewBlock(names[i], taken), on |-> names[i] \in DefaultOn,
             body |-> IF names[i] \in ToSet(BuiltIn) THEN "own" ELSE "later"]]

\* A merge that takes the switches of the file and leaves the order alone.
MergeSwitches(list, lines) ==
    [i \in DOMAIN list |->
        LET said == {l \in ToSet(lines) : l.name = list[i].name}
        IN  IF said = {} THEN list[i] ELSE [list[i] EXCEPT !.on = (CHOOSE l \in said : TRUE).on]]

\* The merge of Config_LoadFromFileEx: the order and the switches of the file, the layouts of
\* the list.  Each line takes the first layout of its name that no line before it took, so the
\* n-th line of a name takes the n-th.  A line without a layout is passed over, a layout
\* without a line goes last.
Named(seq, name) == {j \in DOMAIN seq : seq[j].name = name}
Turn(lines, i) == Rank(Named(lines, lines[i].name), i)
Taking(list, lines) ==
    {i \in DOMAIN lines : Turn(lines, i) <= Cardinality(Named(list, lines[i].name))}
Taken(list, lines, i) == Nth(Named(list, lines[i].name), Turn(lines, i))
Merge(list, lines) ==
    LET taking == Taking(list, lines)
        rest == DOMAIN list \ {Taken(list, lines, i) : i \in taking}
        switched(i) == [list[Taken(list, lines, i)] EXCEPT !.on = lines[i].on]
    IN  [k \in 1 .. Cardinality(taking) |-> switched(Nth(taking, k))]
        \o [k \in 1 .. Cardinality(rest) |-> list[Nth(rest, k)]]

\* JamotongTextService_Create: the defaults, merged with the saved settings.
Loaded(files, lines) == Merge(Defaults(files, {}), lines)

Empty == [list |-> <<>>, cur |-> 1]

\* A block no list knows.  The bound on copies is a bound of the model.
Referenced == heap \union Blocks(live.list) \union Blocks(temp.list) \union Blocks(saved.list)
CanAllocate(name) == \E n \in 1 .. MaxCopies : <<name, n>> \notin Referenced
Fresh(name) == NewBlock(name, Referenced)

-----------------------------------------------------------------------------
(* The text service.                                                        *)

StartService(files, lines) ==
    LET list == Loaded(files, lines)
    IN  /\ live' = [list |-> list, cur |-> FirstOn(list)]
        /\ heap' = Blocks(list)
        /\ bodies' = {}

SettingsInit ==
    LET list == Loaded([f \in Files |-> NoFile], <<>>)
    IN  /\ live = [list |-> list, cur |-> FirstOn(list)]
        /\ heap = Blocks(list)
        /\ bodies = {}
        /\ temp = Empty /\ saved = Empty
        /\ window = "closed"
        /\ pending = <<>> /\ staged = {} /\ staging = {}
        /\ store = [f \in Files |-> NoFile] /\ baked = store
        /\ ini = <<>>
        /\ steps = 0
        /\ warned = {} /\ applied = <<>>

\* The process ends, in good order or not, and another one starts.
Restart ==
    /\ StartService(baked, ini)
    /\ temp' = Empty /\ saved' = Empty
    /\ window' = "closed"
    /\ pending' = <<>> /\ staged' = {}
    /\ applied' = IF window \in {"closed", "open"} THEN applied ELSE <<>>
    /\ UNCHANGED disk

\* Config_RotateLayout
Rotate ==
    LET n == Len(live.list)
        after(k) == ((live.cur - 1 + k) % n) + 1
        ons == {k \in 1 .. n : live.list[after(k)].on}
    IN  /\ ons # {}
        /\ live' = [live EXCEPT !.cur = after(Min(ons))]
        /\ UNCHANGED <<temp, saved, window, heap, bodies, pending, staged, applied, disk>>

\* Config_GetCurrentLayout: the body of the current layout is read when it is first needed.
UseCurrent ==
    /\ live.list[live.cur].body = "later"
    /\ \E body \in {"read", "bad"} :
        /\ live' = [live EXCEPT !.list[live.cur].body = body]
        /\ bodies' = bodies \union {live.list[i].res : i \in {j \in {live.cur} : body = "read"}}
    /\ UNCHANGED <<temp, saved, window, heap, pending, staged, applied, disk>>

-----------------------------------------------------------------------------
(* The settings window.  Its commands run one at a time on its own thread;  *)
(* those of the text service come in between.                               *)

OnlyTemp == UNCHANGED <<live, saved, window, heap, bodies, pending, staged, applied, disk>>

\* SettingsThreadProc
Show ==
    /\ window = "closed"
    /\ window' = "open"
    /\ temp' = live
    /\ saved' = live
    /\ pending' = <<>> /\ staged' = {}
    /\ UNCHANGED <<live, heap, bodies, applied, disk>>

\* ToggleLayoutEnabled: the last layout that is on stays on.
Toggle(i) ==
    /\ window = "open"
    /\ temp.list[i].on => \E j \in DOMAIN temp.list \ {i} : temp.list[j].on
    /\ temp' = [temp EXCEPT !.list[i].on = ~@]
    /\ OnlyTemp

\* ID_BTN_LAYOUT_UP and ID_BTN_LAYOUT_DOWN
MoveUp(i) ==
    /\ window = "open"
    /\ i > 1
    /\ temp' = [temp EXCEPT !.list[i - 1] = temp.list[i], !.list[i] = temp.list[i - 1]]
    /\ OnlyTemp

\* ID_BTN_LAYOUT_DEL with Config_RemoveEditedLayout
Delete(i) ==
    LET gone == temp.list[i]
        mine == {k \in DOMAIN pending : pending[k].res = gone.res}
    IN  /\ window = "open"
        /\ Len(temp.list) > 1
        /\ gone.on => \E j \in DOMAIN temp.list \ {i} : temp.list[j].on
        /\ temp' = [temp EXCEPT !.list = RemoveAt(@, i)]
        /\ heap' = IF gone.res \in Blocks(live.list) THEN heap ELSE heap \ {gone.res}
        /\ pending' = IF mine = {} THEN pending
                      ELSE Front([pending EXCEPT ![Min(mine)] = Last(pending)])
        /\ UNCHANGED <<live, saved, window, bodies, staged, applied, disk>>

\* ID_BTN_LAYOUT_ADD, once the user agreed to replace a file of that name in the store and the
\* management program built the layout.  The copy waits for Apply.
Add(name) ==
    /\ window = "open"
    /\ CanAllocate(name)
    /\ temp' = [temp EXCEPT !.list =
                    Append(@, [name |-> name, res |-> Fresh(name), on |-> TRUE, body |-> "own"])]
    /\ heap' = heap \union {Fresh(name)}
    /\ pending' = Append(pending, [name |-> name, res |-> Fresh(name)])
    /\ UNCHANGED <<live, saved, window, bodies, staged, applied, disk>>

\* ID_BTN_IMPORT: a bundled layout goes to the staging folder unless a file of that name is there.
Import ==
    LET restored == {n \in Bundle : FileOf[n] \notin {FileOf[m] : m \in staging}}
        list == Merge(temp.list, Imported)
    IN  /\ window = "open"
        /\ temp' = [list |-> list, cur |-> FirstOn(list)]
        /\ staging' = staging \union restored
        /\ staged' = staged \union restored
        /\ UNCHANGED <<live, saved, window, heap, bodies, pending, store, baked, ini, warned, applied>>

\* Forgetting what was staged without removing it.
ForgetPending ==
    /\ pending' = <<>>
    /\ staged' = {}
    /\ UNCHANGED staging

\* DiscardPendingFileOps
DiscardPending ==
    /\ pending' = <<>>
    /\ staging' = staging \ staged
    /\ staged' = {}

\* Config_DiscardEdited: only what the text service does not own is freed.
KeptByLive == heap \ (Blocks(temp.list) \ Blocks(live.list))

\* ID_BTN_RESET
Reset ==
    /\ window = "open"
    /\ \A n \in ToSet(Available(baked)) : CanAllocate(n)
    /\ DiscardPending
    /\ temp' = [list |-> Defaults(baked, Referenced), cur |-> 1]
    /\ heap' = KeptByLive \union Blocks(temp'.list)
    /\ UNCHANGED <<live, saved, window, bodies, store, baked, ini, warned, applied>>

\* ID_BTN_REVERT
Revert ==
    /\ window = "open"
    /\ DiscardPending
    /\ temp' = saved
    /\ heap' = KeptByLive
    /\ UNCHANGED <<live, saved, window, bodies, store, baked, ini, warned, applied>>

\* WM_DESTROY without Apply
Close ==
    /\ window = "open"
    /\ DiscardPending
    /\ heap' = KeptByLive
    /\ temp' = Empty /\ saved' = Empty
    /\ window' = "closed"
    /\ UNCHANGED <<live, bodies, store, baked, ini, warned, applied>>

-----------------------------------------------------------------------------
(* ID_BTN_APPLY.  Each part holds the lock of the list by itself.           *)

\* Adopting the copy as it was when the window opened.
AsCopied(entry) == entry

\* What ApplyEdited carries over: the tables read since the window copied the list.
WithBody(entry) ==
    LET read == {e \in ToSet(live.list) : e.res = entry.res /\ e.body \in {"read", "bad"}}
    IN  IF entry.body = "later" /\ read # {}
        THEN [entry EXCEPT !.body = (CHOOSE e \in read : TRUE).body]
        ELSE entry

\* Config_ApplyEdited adopts the list: one layout is on and the current layout is on.
Adopted ==
    LET list == [i \in DOMAIN temp.list |-> WithBody(temp.list[i])]
        on == IF list = <<>> \/ AnyOn(list) THEN list ELSE [list EXCEPT ![1].on = TRUE]
        kept == temp.cur \in DOMAIN on /\ on[temp.cur].on
    IN  [list |-> on, cur |-> IF kept THEN temp.cur ELSE FirstOn(on)]

Apply ==
    LET dropped == Blocks(live.list) \ Blocks(temp.list)
    IN  /\ window = "open"
        /\ live' = Adopted
        /\ heap' = heap \ dropped
        /\ bodies' = bodies \ dropped
        /\ applied' = Lines(live'.list)
        /\ window' = "save"
        /\ UNCHANGED <<temp, saved, pending, staged, disk>>

\* The list is written to the settings file, or writing fails and the old file stays.
Save ==
    /\ window = "save"
    /\ window' = "files"
    /\ saved' = live
    /\ \/ ini' = Lines(live.list) /\ applied' = applied
       \/ ini' = ini /\ applied' = <<>>
    /\ UNCHANGED <<live, temp, heap, bodies, pending, staged, staging, store, baked, warned>>

\* CommitPendingFileOps: the copies one by one, then the staged files, which replace nothing.
CopyAdded ==
    /\ window = "files"
    /\ pending # <<>>
    /\ pending' = Tail(pending)
    /\ \/ /\ store' = [store EXCEPT ![FileOf[Head(pending).name]] = Head(pending).name]
          /\ warned' = warned \ {Head(pending).name}
       \/ /\ store' = store
          /\ warned' = warned \union ({Head(pending).name} \ {store[FileOf[Head(pending).name]]})
    /\ UNCHANGED applied
    /\ UNCHANGED <<live, temp, saved, window, heap, bodies, staged, staging, baked, ini>>

CommitStaged ==
    /\ window = "files"
    /\ pending = <<>>
    /\ store' = [f \in Files |->
                    IF store[f] = NoFile /\ f \in {FileOf[n] : n \in staged}
                    THEN CHOOSE n \in staged : FileOf[n] = f ELSE store[f]]
    /\ staging' = staging \ staged
    /\ staged' = {}
    /\ window' = "bake"
    /\ UNCHANGED <<live, temp, saved, heap, bodies, pending, baked, ini, warned, applied>>

\* The management program builds what is in the store, or fails; then the window goes.
BakeAndClose ==
    /\ window = "bake"
    /\ \/ baked' = store /\ applied' = applied
       \/ baked' = baked /\ applied' = <<>>
    /\ window' = "closed"
    /\ heap' = KeptByLive
    /\ temp' = Empty /\ saved' = Empty
    /\ UNCHANGED <<live, bodies, pending, staged, staging, store, ini, warned>>

Edit ==
    \/ \E i \in DOMAIN temp.list : Toggle(i) \/ MoveUp(i) \/ Delete(i)
    \/ \E n \in Addable : Add(n)
    \/ Import \/ Reset \/ Revert

SettingsNext ==
    \/ /\ Restart \/ Show \/ Edit
       /\ steps < MaxSteps
       /\ steps' = steps + 1
    \/ /\ \/ Rotate \/ UseCurrent
          \/ Close \/ Apply \/ Save \/ CopyAdded \/ CommitStaged \/ BakeAndClose
       /\ UNCHANGED steps

SettingsSpec == SettingsInit /\ [][SettingsNext]_settingsVars
-----------------------------------------------------------------------------
(* Properties.                                                              *)

\* The blocks of the layouts have one owner (config.c, the ownership rule above
\* Layout_FreeResources): every list that may still be used names allocated blocks only, every
\* allocated block is in the list of the text service or in the one being edited, and the
\* tables read on first use are still reachable from the list of the text service.
BlocksAccountedFor ==
    /\ Blocks(live.list) \union Blocks(temp.list) \subseteq heap
    /\ window = "open" => Blocks(saved.list) \subseteq heap
    /\ heap \subseteq Blocks(live.list) \union Blocks(temp.list)
    /\ bodies = {e.res : e \in {d \in ToSet(live.list) : d.body = "read"}}

\* What the user was warned about and no start finds.
ForOneSession == warned \ ToSet(Available(baked))

\* Once an Apply went through, a process that starts later has the layouts it put into force:
\* first, in the order and with the switches it gave them.  A layout the
\* user was warned about is for one session only.
RestartKeepsTheApplied ==
    window = "closed" /\ applied # <<>> =>
        IsPrefix(Seen(applied, ForOneSession), Seen(Lines(Loaded(baked, ini)), {}))

\* ... and no others: README.ko.md, the settings are saved by Apply and loaded by every start.
RestartIsTheApplied ==
    window = "closed" /\ applied # <<>> =>
        Seen(applied, {}) = Seen(Lines(Loaded(baked, ini)), {})

\* Only Apply installs a layout file (B8): the store changes while Apply copies, and a window
\* that closes in good order leaves nothing it staged behind.
OnlyApplyInstalls ==
    /\ store' # store => window = "files"
    /\ window # "closed" /\ window' = "closed" /\ UNCHANGED steps => staging' \cap staged = {}

\* The list of a text service never has every layout off, with rotation going nowhere
\* (the comment of Config_ApplyEdited).
OneLayoutOn == AnyOn(live.list)
=============================================================================
