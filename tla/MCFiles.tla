------------------------------ MODULE MCFiles --------------------------------
(***************************************************************************)
(* The parts that live on files, each on a small instance: settings,       *)
(* layouts and their bundles, built layouts, dictionaries, the files of   *)
(* the manager and the registration.  A behaviour keeps to one part.  The   *)
(* variables of the settings and of the registration are their own, and     *)
(* rest elsewhere; the other parts share v1, v2, ... which mean what they   *)
(* are put for.                                                             *)
(***************************************************************************)
EXTENDS Registration, Settings, TLC

CONSTANT Boards   \* the parts that are checked

VARIABLES board,  \* the part of this behaviour
          v1, v2, v3, v4, v5, v6, v7, v8, v9, v10, v11
partVars == <<v1, v2, v3, v4, v5, v6, v7, v8, v9, v10, v11>>
mcVars == <<vars, settingsVars, board, partVars>>
NoParts == /\ v1 = 0 /\ v2 = 0 /\ v3 = 0 /\ v4 = 0 /\ v5 = 0 /\ v6 = 0
           /\ v7 = 0 /\ v8 = 0 /\ v9 = 0 /\ v10 = 0 /\ v11 = 0

------------------------------------------------------------------------------
(* A configuration: two built in layouts, one to add, one in a bundle *)
MCBuiltIn == <<"en", "ko">>
MCFileOf == ("my" :> "my.jmt") @@ ("pack" :> "pack.jmt")
MCImported == <<[name |-> "pack", on |-> TRUE], [name |-> "ko", on |-> FALSE]>>

(* Layout files: names with the characters the encoding knows, texts of up to *)
(* four characters, "E" the sentinel and "n" the end of a line                *)
MCNames == {<<"a">>, <<"%">>, <<"]">>, <<"a", "%", "2", "5">>, 
            <<"%", "5", "D">>, <<"/">>, <<"%", "%">>}
MCTexts == UNION {[1..n -> {"a", " ", "E", "n"}] : n \in 0..4}

(* Folders: safe, owned by someone, a link, and with an entry of each right *)
Folder(link, owner, aces) == [link |-> link, owner |-> owner, aces |-> aces]
Ace(sid, right, inheritOnly) ==
    [sid |-> sid, right |-> right, allow |-> TRUE, inheritOnly |-> inheritOnly]
MCFolders == {Folder(FALSE, "trusted", {}),
              Folder(FALSE, "trusted", 
                     {Ace("user", "delete", FALSE), Ace("user", "control", TRUE)})}

(* Sources of a dictionary: up to three rows and the Type line before, after  *)
(* or twice; <<9, 1>> has a letter of two bytes                               *)
MCKeys == {<<1>>, <<1, 2>>, <<2>>, <<9, 1>>}
DictRow(key, cost, pos) == [kind |-> "row", key |-> key, cost |-> cost, pos |-> pos]
DictType(kind) == [kind |-> kind, key |-> <<>>, cost |-> -1, pos |-> FALSE]
MCRows == {DictRow(k, c, FALSE) : k \in MCKeys, c \in {-1, 0, 1}}
          \cup {DictRow(<<1>>, 0, TRUE), DictRow(<<1, 2>>, 1, TRUE), DictRow(<<9>>, -1, FALSE)}
MCTypes == {DictType("sequence"), DictType("candidates")}
MCSources == {<<t>> \o rows : t \in MCTypes, rows \in UNION {[1..n -> MCRows] : n \in 1..3}}
             \cup {<<r, t>> : r \in MCRows, t \in MCTypes}
             \cup {<<t, r, u>> : t, u \in MCTypes, r \in MCRows}
MCProbes == MCKeys \cup {<<9>>, <<1, 2, 1>>, <<3>>, <<2, 1>>}

(* Hanja: every file of two of these lines, one of four, and the flawed files *)
Entry(key, pieces) == [kind |-> "entry", key |-> key, pieces |-> pieces]
HanjaFile(encoding, flaw, lines) == [encoding |-> encoding, flaw |-> flaw, lines |-> lines]
MCLines == {Entry(<<1>>, <<<<5>>, <<6>>>>), Entry(<<1>>, <<<<6>>>>), Entry(<<2>>, <<<<5>>, <<>>>>),
            Entry(<<2, 1>>, <<<<5, 6>>, <<>>, <<6>>>>), Entry(<<2>>, <<<<>>>>),
            [kind |-> "note", key |-> <<>>, pieces |-> <<>>]}
MCHanja ==
    {HanjaFile("utf8", "none", lines) : lines \in UNION {[1..n -> MCLines] : n \in 0..2}}
    \cup {HanjaFile("utf8", "none",
              <<Entry(<<2, 1>>, <<<<5, 6>>>>), Entry(<<2>>, <<<<5>>>>),
                Entry(<<1>>, <<<<6>>, <<5>>>>), Entry(<<2>>, <<<<6>>>>)>>)}
    \cup {HanjaFile(e, f, <<Entry(<<1>>, <<<<5>>>>)>>) :
              e \in {"utf8", "utf16"}, f \in {"badCode", "odd", "nul"}}
MCHunum ==
    {HanjaFile("utf8", "none", lines) :
        lines \in {<<>>, <<Entry(<<5>>, <<<<7>>>>), Entry(<<5>>, <<<<8>>>>)>>,
                   <<Entry(<<6>>, <<<<>>>>)>>}}

(* Japanese: words of one and two letters, and tables with and without the    *)
(* numbers that a rounded cell changes                                        *)
Word(cost, lid, rid) == [cost |-> cost, lid |-> lid, rid |-> rid]
MCDictionaries ==
    {(<<"a">> :> <<Word(2, 1, 1), Word(x, 2, 2)>>) @@ (<<"a", "b">> :> <<Word(y, 2, 1)>>)
        @@ (<<"b">> :> <<Word(1, 2, 2), Word(3, 1, 1)>>) : x \in {1, 3}, y \in {2, 5}}
    \cup {(<<"a", "a">> :> <<Word(3, 1, 2), Word(4, 2, 1)>>)
             @@ (<<"b", "a">> :> <<Word(z, 1, 1)>>) : z \in {2, 9}}
MCTables ==
    {[p \in (0..2) \X (0..2) |-> 0]}
    \cup {[p \in (0..2) \X (0..2) |->
              CASE p = <<1, 2>> -> 7 [] p = <<2, 1>> -> 1 [] p = <<0, 2>> -> x [] OTHER -> 3] :
          x \in {0, 5}}

------------------------------------------------------------------------------
(* The parts, each on the variables it needs *)

Config == INSTANCE ConfigFile WITH
    Procs <- {"old", "new"}, Newer <- {"new"}, KeepMax <- 2, MaxSaves <- 2, MaxEdits <- 2,
    file <- v1, temps <- v2, cfg <- v3, pc <- v4, kept <- v5, basis <- v6, saves <- v7,
    edits <- v8
ConfigInit == Config!Init /\ v9 = 0 /\ v10 = 0 /\ v11 = 0
ConfigNext == Config!Next /\ UNCHANGED <<v9, v10, v11>>

WindowInit == SettingsInit /\ NoParts
WindowNext == SettingsNext /\ UNCHANGED partVars

Exported == INSTANCE LayoutBundle WITH
    Names <- MCNames, Texts <- MCTexts, LineCap <- 5, store <- v1, bundle <- v2,
    staged <- v3, phase <- v4
BundleInit == Exported!Init /\ v5 = 0 /\ v6 = 0 /\ v7 = 0 /\ v8 = 0 /\ v9 = 0 /\ v10 = 0
               /\ v11 = 0
BundleNext == Exported!Next /\ UNCHANGED <<v5, v6, v7, v8, v9, v10, v11>>

Build == INSTANCE LayoutBuild WITH
    Formats <- 1..3, Kinds <- {"chord", "hangul"}, MaxEdits <- 2, MaxDeaths <- 1,
    source <- v1, built <- v2, program <- v3, builder <- v4, entry <- v5, died <- v6
BuildInit == Build!Init /\ v7 = 0 /\ v8 = 0 /\ v9 = 0 /\ v10 = 0 /\ v11 = 0
BuildNext == Build!Next /\ UNCHANGED <<v7, v8, v9, v10, v11>>

Manager == INSTANCE ManagerFiles WITH
    Files <- {"f1", "f2"}, MayFail <- {"refused", "torn"}, MaxFaults <- 1, MaxSteps <- 5,
    text <- v1, curFile <- v2, work <- v3, installed <- v4, exported <- v5, trying <- v6,
    told <- v7, faults <- v8, steps <- v9
ManagerInit == Manager!Init /\ v10 = 0 /\ v11 = 0
ManagerNext == Manager!Next /\ UNCHANGED <<v10, v11>>

SetupInit == Init /\ NoParts
SetupNext == Next /\ UNCHANGED partVars

\* Elsewhere nothing is registered.
SetupRests ==
    /\ Init /\ path = [role \in {"root", "ancestor"} |-> Folder(FALSE, "trusted", {})]

Dictionary == INSTANCE JDict WITH
    Sources <- MCSources, Probes <- MCProbes, Wide <- {9}, Readers <- {1, 4}, MaxSeq <- 2,
    MaxCand <- 4, MaxRows <- 3, MaxBakes <- 2, source <- v1, file <- v2, mapped <- v3,
    known <- v4, bakes <- v5
DictionaryInit == Dictionary!Init /\ v6 = 0 /\ v7 = 0 /\ v8 = 0 /\ v9 = 0 /\ v10 = 0 /\ v11 = 0
DictionaryNext == Dictionary!Next /\ UNCHANGED <<v6, v7, v8, v9, v10, v11>>

Opening == INSTANCE SeqOpen WITH
    Parts <- {"dict", "cand", "conn"}, Places <- <<"beside", "user">>,
    FileKinds <- {"good", "otherKind", "bad", "spoilt"}, MaxChanges <- 2, MaxOpen <- 2,
    disk <- v1, lazy <- v2, sl <- v3, openFiles <- v4, eaten <- v5, changes <- v6
OpeningInit == Opening!Init /\ v7 = 0 /\ v8 = 0 /\ v9 = 0 /\ v10 = 0 /\ v11 = 0
OpeningNext == Opening!Next /\ UNCHANGED <<v7, v8, v9, v10, v11>>

HanjaFiles == INSTANCE HanjaDict WITH
    Threads <- {"t1", "t2"}, Files <- MCHanja, HunumFiles <- MCHunum,
    Words <- {<<>>, <<1>>, <<2>>, <<2, 1>>, <<1, 2>>, <<3>>, <<4>>},
    Chars <- {1, 2, 5, 6, 7}, Special <- {3}, Double <- 4 :> 3, MaxCands <- 2,
    MaxAsks <- 2, files <- v1, tried <- v2, lock <- v3, stage <- v4, line <- v5,
    dict <- v6, reading <- v7, hunum <- v8, at <- v9, answer <- v10, asks <- v11
HanjaFilesInit == HanjaFiles!Init
HanjaFilesNext == HanjaFiles!Next

Lattice == INSTANCE JaLattice WITH
    Letters <- {"a", "b"}, Dictionaries <- MCDictionaries, Tables <- MCTables, MaxId <- 2,
    Steps <- {1, 2}, Cell <- 4, UnkId <- 2, UnkCost <- 9, Beams <- {2, 10}, MaxSeg <- 2,
    SegCands <- 2, MaxReading <- 4, reading <- v1, dict <- v2, table <- v3, step <- v4,
    beam <- v5, left <- v6, words <- v7
LatticeInit == Lattice!Init /\ v8 = 0 /\ v9 = 0 /\ v10 = 0 /\ v11 = 0
LatticeNext == Lattice!Next /\ UNCHANGED <<v8, v9, v10, v11>>

------------------------------------------------------------------------------
ASSUME MCFilesAssumption ==
    /\ Config!ConfigFileAssumption
    /\ Exported!LayoutBundleAssumption
    /\ Build!LayoutBuildAssumption
    /\ RegistrationAssumption
    /\ SettingsAssumption /\ FilesDiffer
    /\ Dictionary!JDictAssumption
    /\ Opening!SeqOpenAssumption
    /\ HanjaFiles!HanjaDictAssumption
    /\ Lattice!JaLatticeAssumption

MCInit ==
    /\ board \in Boards
    /\ \/ board = "registration" /\ SetupInit /\ SettingsInit
       \/ board = "settings" /\ WindowInit /\ SetupRests
       \/ /\ SetupRests /\ SettingsInit
          /\ \/ board = "config" /\ ConfigInit
             \/ board = "bundle" /\ BundleInit
             \/ board = "build" /\ BuildInit
             \/ board = "manager" /\ ManagerInit
             \/ board = "jdict" /\ DictionaryInit
             \/ board = "seqopen" /\ OpeningInit
             \/ board = "hanjadict" /\ HanjaFilesInit
             \/ board = "lattice" /\ LatticeInit
MCNext ==
    /\ UNCHANGED board
    /\ \/ board = "registration" /\ SetupNext /\ UNCHANGED settingsVars
       \/ board = "settings" /\ WindowNext /\ UNCHANGED vars
       \/ /\ UNCHANGED <<vars, settingsVars>>
          /\ \/ board = "config" /\ ConfigNext
             \/ board = "bundle" /\ BundleNext
             \/ board = "build" /\ BuildNext
             \/ board = "manager" /\ ManagerNext
             \/ board = "jdict" /\ DictionaryNext
             \/ board = "seqopen" /\ OpeningNext
             \/ board = "hanjadict" /\ HanjaFilesNext
             \/ board = "lattice" /\ LatticeNext
MCSpec == MCInit /\ [][MCNext]_mcVars

------------------------------------------------------------------------------
(* Properties *)

(* A file is whole or is not there, and what comes out of it is what went in: *)
(* the settings file, a layout out of a bundle, a built layout that joins the *)
(* list later, and a layout that is installed from the editor                 *)
FilesAreWhole ==
    /\ board = "config" => Config!FileIsWhole
    /\ board = "bundle" => Exported!RestoredAsExported
    /\ board = "build" => Build!BodyFitsItsKind
    /\ board = "manager" => Manager!InstalledWasChecked

(* A dictionary answers what its source says, and only a whole one is used *)
DictionariesAnswer ==
    /\ board = "jdict" => Dictionary!BakedAnswersItsSource
    /\ board = "seqopen" => Opening!OnlyWholeLayouts
    /\ board = "hanjadict" => HanjaFiles!WholeTablesAnswer
    /\ board = "lattice" => Lattice!CutIsWholeAndCheapest

(* No step takes away what belongs to another version or waits for Apply *)
KeepsWhatIsNotOurs ==
    [][/\ board = "config" => Config!SaveKeepsAndWins
       /\ board = "build" => Build!OldProgramsKeepTheirBuild
       /\ board = "settings" => OnlyApplyInstalls]_mcVars

(* "상한 사전 — 그 자판은 글쇠를 먹지 않는다" (seq_layout.c:1441): a layout whose   *)
(* dictionary could not be opened lets the keys pass                          *)
FailedEatsNothing == board = "seqopen" => Opening!FailedEatsNothing

(* No thread reads the tables while another fills them (text_service.c:883)   *)
NoneReadsAHalf == board = "hanjadict" => HanjaFiles!NoneReadsAHalf
==============================================================================
