------------------------------ MODULE HanjaDict ------------------------------
(***************************************************************************)
(* The Hanja dictionaries (hanja_dict.c): hanja.txt gives words and their  *)
(* candidates, hanja_hunum.txt a meaning for single characters.  Both are  *)
(* read once, by the first input thread that asks (EnsureHanjaDicts of     *)
(* text_service.c), into tables of the process that every thread searches. *)
(* A character is a number, a word a sequence of them.                     *)
(***************************************************************************)
EXTENDS Naturals, Sequences, FiniteSets, SequencesExt, Functions

CONSTANTS Threads,     \* input threads
          Files,       \* what hanja.txt can be
          HunumFiles,  \* what hanja_hunum.txt can be
          Words,       \* words that are looked up
          Chars,       \* characters whose name is shown
          Special,     \* the consonants special_char.c has a table for
          Double,      \* a function: the doubled consonants that share one
          MaxCands,    \* 1000: candidates of a line
          MaxAsks      \* bound: questions asked

HanjaDictAssumption ==
  /\ MaxCands \in Nat \ {0} /\ MaxAsks \in Nat
  /\ Range(Double) \subseteq Special

(* A file is a record [encoding, flaw, lines]: how it is encoded, its flaw if it has one, and its lines.  A     *)
(* line is its key and, if it has a colon, the pieces between its commas;   *)
(* "note" is a comment or a blank line.                                     *)

(* A file that cannot be read as a whole is not used at all: half a        *)
(* dictionary is none.  Only UTF-8 is checked for what it encodes, only     *)
(* UTF-16 for an odd length.                                                *)
LoadDictText(file) ==
  LET spoils == {"missing", "empty", "tooLarge", "short", "nul"}
                  \cup (IF file.encoding = "utf16" THEN {"odd"} ELSE {"badCode"})
  IN  IF file.flaw \in spoils THEN <<>> ELSE file.lines

-----------------------------------------------------------------------------
(* Tables *)

(* wcscmp, and among equal keys the line that came first *)
WordBefore(a, b) == \/ IsStrictPrefix(a, b)
                    \/ \E i \in DOMAIN a \cap DOMAIN b :
                         a[i] < b[i] /\ SubSeq(a, 1, i - 1) = SubSeq(b, 1, i - 1)
(* Mutant of CompareHanjaEntry: the key alone, any line of it may come first *)
CompareKeyOnly(x, y) == WordBefore(x.key, y.key) \/ (x.key = y.key /\ x.at > y.at)
CompareHanjaEntry(x, y) == WordBefore(x.key, y.key) \/ (x.key = y.key /\ x.at < y.at)

(* The pieces between commas; an empty one at the end is none *)
Candidates(pieces) ==
  IF Len(pieces) > MaxCands THEN SubSeq(pieces, 1, MaxCands)
  ELSE Front(pieces) \o (IF Last(pieces) = <<>> THEN <<>> ELSE <<Last(pieces)>>)
Parsed(line, at) ==
  IF line.kind # "entry" \/ Candidates(line.pieces) = <<>> THEN <<>>
  ELSE <<[key |-> line.key, cands |-> Candidates(line.pieces), at |-> at]>>

(* Of neighbours with one key the first stays *)
FirstOfKey(table) ==
  FoldLeft(LAMBDA kept, i : IF i > 1 /\ table[i - 1].key = table[i].key THEN kept
                            ELSE Append(kept, table[i]),
           <<>>, [i \in DOMAIN table |-> i])

(* Every single character of an entry of one syllable has that sound.  The  *)
(* sort looks at the character alone: of two sounds either may come first.  *)
Sounds(dict) ==
  {<<e.cands[c][1], e.key[1]>> :
     <<e, c>> \in {<<x, y>> \in Range(dict) \X (1..MaxCands) :
                     /\ Len(x.key) = 1 /\ y \in DOMAIN x.cands /\ Len(x.cands[y]) = 1}}
ReadingTables(dict) ==
  LET chars == {s[1] : s \in Sounds(dict)}
  IN  {f \in [chars -> {s[2] : s \in Sounds(dict)}] : \A h \in chars : <<h, f[h]>> \in Sounds(dict)}

(* One character, a colon, a meaning; the first line of a character stays *)
Hunums(lines) ==
  LET says(h) == {i \in DOMAIN lines : /\ lines[i].kind = "entry" /\ lines[i].key = <<h>>
                                       /\ lines[i].pieces # <<<<>>>>}
  IN  [h \in {c \in Chars : says(c) # {}} |-> CHOOSE i \in says(h) : \A j \in says(h) : i <= j]

(* Binary search; 0 when the word is not there *)
Find(table, word) ==
  LET find[left \in 1..(Len(table) + 1), right \in 0..Len(table)] ==
        IF left > right THEN 0
        ELSE LET mid == left + (right - left) \div 2
             IN  IF table[mid].key = word THEN mid
                 ELSE IF WordBefore(table[mid].key, word) THEN find[mid + 1, right]
                 ELSE find[left, mid - 1]
  IN  IF word = <<>> THEN 0 ELSE find[1, Len(table)]

HanjaDict_Find(table, word) ==
  LET i == Find(table, word) IN IF i = 0 THEN <<>> ELSE table[i].cands
(* A single consonant that is no word has the table of its signs *)
SpecialChar_Find(word) ==
  IF Len(word) # 1 THEN "none"
  ELSE IF word[1] \in Special THEN word[1]
  ELSE IF word[1] \in DOMAIN Double THEN Double[word[1]] ELSE "none"

-----------------------------------------------------------------------------
VARIABLES files,       \* the two files
          tried,       \* s_tried
          lock,        \* who holds g_configLock, or "none"
          stage,       \* of the load: "none", "lines", "sort", "first", "readings", "hunum", "whole"
          line,        \* lines parsed
          dict,        \* g_HanjaDict
          reading,     \* g_Reading, a function
          hunum,       \* g_Hunum, a function
          at,          \* at[t]: "idle", "waits", "loads", "looks"
          answer,      \* the last answer, and whether the tables were whole
          asks         \* bound
vars == <<files, tried, lock, stage, line, dict, reading, hunum, at, answer, asks>>

NoAnswer == [of |-> "nothing"]

Init == /\ files \in [hanja : Files, hunum : HunumFiles]
        /\ tried = FALSE /\ lock = "none" /\ stage = "none" /\ line = 0
        /\ dict = <<>> /\ reading = <<>> /\ hunum = <<>>
        /\ at = [t \in Threads |-> "idle"]
        /\ answer = NoAnswer /\ asks = 0

(* EnsureHanjaDicts: the flag is looked at without the lock, then with it, *)
(* and is set before the files are read                                    *)
Ask(t) == /\ at[t] = "idle" /\ asks < MaxAsks
          /\ asks' = asks + 1
          /\ at' = [at EXCEPT ![t] = IF tried THEN "looks" ELSE "waits"]
          /\ UNCHANGED <<files, tried, lock, stage, line, dict, reading, hunum, answer>>
Enter(t) == /\ at[t] = "waits" /\ lock = "none"
            /\ IF tried THEN at' = [at EXCEPT ![t] = "looks"] /\ UNCHANGED <<tried, lock, stage>>
               ELSE /\ at' = [at EXCEPT ![t] = "loads"]
                    /\ tried' = TRUE /\ lock' = t /\ stage' = "lines"
            /\ UNCHANGED <<files, line, dict, reading, hunum, answer, asks>>

(* HanjaDict_Load, then HunumDict_Load (which is one step here) *)
ParseLine == LET lines == LoadDictText(files.hanja)
             IN  /\ line < Len(lines) /\ line' = line + 1
                 /\ dict' = dict \o Parsed(lines[line'], line')
                 /\ UNCHANGED <<stage, reading, hunum>>
Sort == /\ line = Len(LoadDictText(files.hanja))
        /\ dict' = SortSeq(dict, CompareHanjaEntry) /\ stage' = "first"
        /\ UNCHANGED <<line, reading, hunum>>
Dedupe == /\ dict' = FirstOfKey(dict) /\ stage' = "readings"
          /\ UNCHANGED <<line, reading, hunum>>
IndexReadings == /\ reading' \in ReadingTables(dict) /\ stage' = "hunum"
                 /\ UNCHANGED <<line, dict, hunum>>
LoadHunum == /\ hunum' = Hunums(LoadDictText(files.hunum)) /\ stage' = "whole"
             /\ UNCHANGED <<line, dict, reading>>
Load(t) == /\ at[t] = "loads"
           /\ \/ stage = "lines" /\ (ParseLine \/ Sort)
              \/ stage = "first" /\ Dedupe
              \/ stage = "readings" /\ IndexReadings
              \/ stage = "hunum" /\ LoadHunum
           /\ IF stage' = "whole" THEN at' = [at EXCEPT ![t] = "looks"] /\ lock' = "none"
              ELSE UNCHANGED <<at, lock>>
           /\ UNCHANGED <<files, tried, answer, asks>>

(* The word that is to be converted, and the name of a candidate: its      *)
(* meaning, else its sound (CandNote, CodepointName)                       *)
FindWord(t) == \E word \in Words :
  answer' = [of |-> "word", word |-> word, cands |-> HanjaDict_Find(dict, word),
             signs |-> IF Find(dict, word) = 0 THEN SpecialChar_Find(word) ELSE "none",
             whole |-> stage = "whole"]
NameChar(t) == \E h \in Chars :
  answer' = [of |-> "name", char |-> h, whole |-> stage = "whole",
             by |-> IF h \in DOMAIN hunum THEN "hunum" ELSE IF h \in DOMAIN reading THEN "sound" ELSE "code",
             name |-> IF h \in DOMAIN hunum THEN hunum[h]
                      ELSE IF h \in DOMAIN reading THEN reading[h] ELSE 0]
Look(t) == /\ at[t] = "looks" /\ at' = [at EXCEPT ![t] = "idle"]
           /\ FindWord(t) \/ NameChar(t)
           /\ UNCHANGED <<files, tried, lock, stage, line, dict, reading, hunum, asks>>

Next == \E t \in Threads : Ask(t) \/ Enter(t) \/ Load(t) \/ Look(t)
Spec == Init /\ [][Next]_vars

-----------------------------------------------------------------------------
(* Properties *)

(* What the files say of a word: its first line that has a candidate *)
LinesOf(word) == {i \in DOMAIN LoadDictText(files.hanja) :
                    LET l == LoadDictText(files.hanja)[i]
                    IN  l.kind = "entry" /\ l.key = word /\ l.pieces # <<<<>>>>}
CandsOf(word) == IF LinesOf(word) = {} \/ word = <<>> THEN <<>>
                 ELSE LET i == CHOOSE n \in LinesOf(word) : \A m \in LinesOf(word) : n <= m
                          p == LoadDictText(files.hanja)[i].pieces
                      IN  SubSeq(p, 1, Cardinality({n \in DOMAIN p : n <= MaxCands
                                                      /\ (n < Len(p) \/ p[n] # <<>>)}))
SoundsOf(h) == {k \in Chars : \E n \in DOMAIN CandsOf(<<k>>) : CandsOf(<<k>>)[n] = <<h>>}
HasMeaning(h) == \E i \in DOMAIN LoadDictText(files.hunum) :
                   LET l == LoadDictText(files.hunum)[i]
                   IN  l.kind = "entry" /\ l.key = <<h>> /\ l.pieces # <<<<>>>>

AnswersAsTheFiles ==
  /\ answer.of = "word" =>
       /\ answer.cands = CandsOf(answer.word)
       /\ answer.cands # <<>> => answer.signs = "none"
  /\ answer.of = "name" =>
       /\ answer.by = "hunum" <=> HasMeaning(answer.char)
       /\ answer.by = "sound" => answer.name \in SoundsOf(answer.char)
       /\ answer.by = "code" => SoundsOf(answer.char) = {}

(* Once the tables are whole every question is answered as the files say:   *)
(* the first line of a word, in the order it gives its candidates; the      *)
(* meaning of a character, or one of its sounds (HanjaDict_Load,            *)
(* HunumDict_Load, HanjaDict_Find, HanjaDict_ReadingOf, HunumDict_Find)     *)
WholeTablesAnswer == answer.of # "nothing" /\ answer.whole => AnswersAsTheFiles

(* No thread is answered from tables that another is still filling, which   *)
(* is what the lock is for (EnsureHanjaDicts)                               *)
NoneReadsAHalf == answer.of # "nothing" => AnswersAsTheFiles
=============================================================================
