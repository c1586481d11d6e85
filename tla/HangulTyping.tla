---------------------------- MODULE HangulTyping ----------------------------
(***************************************************************************)
(* Typing whole syllables on the built-in keyboards: the automaton of      *)
(* HangulFsm fed with the keys of a text, one at a time, then flushed (a   *)
(* space, a focus change).  The full tables and key maps of layout.c are   *)
(* checked against the orthography: every modern syllable can be typed,    *)
(* and comes out the same whatever syllable follows it.                    *)
(***************************************************************************)
EXTENDS HangulFsm

CONSTANTS
    Texts,            \* the texts to type: sequences of syllable glyphs
    KeyOf             \* jamo -> the keys that type it, a sequence of [type, index]

VARIABLES
    wanted,           \* the text being typed
    todo,             \* the keys still to press
    text              \* what has been committed so far

typingVars == <<ctx, res, input, wanted, todo, text>>

KeysFor(g) ==
    KeyOf["cho"][g.cho] \o KeyOf["jung"][g.jung]
    \o (IF g.jong = None THEN <<>> ELSE KeyOf["jong"][g.jong])

TypingInit == /\ Init
              /\ wanted \in Texts
              /\ todo = KeysFor(wanted[1]) \o KeysFor(wanted[2])
              /\ text = <<>>

\* The committed character goes to the document (OutputResult, CommitText).
Deliver == text' = IF res'.commit = NoGlyph THEN text ELSE Append(text, res'.commit)

Press == /\ todo # <<>>
         /\ ProcessKey(Head(todo))
         /\ todo' = Tail(todo)
         /\ Deliver
         /\ UNCHANGED wanted

Finish == /\ todo = <<>> /\ ctx.state # "EMPTY"
          /\ Flush
          /\ Deliver
          /\ UNCHANGED <<wanted, todo>>

TypingNext == Press \/ Finish

TypingSpec == TypingInit /\ [][TypingNext]_typingVars

(***************************************************************************)
(* Nothing is ever committed that the rest of the typing contradicts: the  *)
(* document is always a prefix of the text, although the two-set automaton *)
(* has to guess whether a consonant ends a syllable or starts the next.    *)
(***************************************************************************)
CommitsAPrefix == /\ Len(text) <= Len(wanted)
                  /\ text = SubSeq(wanted, 1, Len(text))

(***************************************************************************)
(* When the keys are typed and the composition is flushed, the document    *)
(* holds the text, complete.                                               *)
(***************************************************************************)
TypesTheText == todo = <<>> /\ ctx.state = "EMPTY" => text = wanted
=============================================================================
