------------------------------ MODULE MCTyping -------------------------------
(***************************************************************************)
(* From the keys to the documents: the automaton on its layout file, the    *)
(* delivery of composed units, and sequence layouts with their windows.  A  *)
(* behaviour keeps to one of them.                                          *)
(*                                                                         *)
(* Delivery has four documents, the kinds of host the source tells apart:  *)
(* an EDIT control (AkelPad), a terminal that takes only commits (PuTTY),  *)
(* one with standard compositions (Word) and one that is both: its control *)
(* answers the messages of an EDIT control too (Notepad of Windows 11).    *)
(***************************************************************************)
EXTENDS HangulFsm, Delivery, SeqInput, TLC

CONSTANTS edit, terminal, notepad, word, d1, d2, Boards

VARIABLE board

mcVars == <<board, vars, deliveryVars, seqVars>>

------------------------------------------------------------------------------
(* The automaton: the tables of layout.c on a set of jamos that is closed     *)
(* under them (g, gg, bb, s, ss as initials; a, o, oa as vowels; g, gg, gs,   *)
(* s, ss as finals): it has combining and non-combining pairs, a simple, a    *)
(* tensed and a compound final, and an initial (bb) that can be no final      *)
Tables == INSTANCE HangulTables

MCCho  == {0, 1, 8, 9, 10}
MCJung == {0, 8, 9}
MCJong == {1, 2, 3, 19, 20}

Within(S, r) == IF r \in S THEN r ELSE None

MCCombineCho      == [p \in MCCho \X MCCho |-> Within(MCCho, Tables!LayoutCombineCho(p[1], p[2]))]
MCCombineJung     == [p \in MCJung \X MCJung |-> Within(MCJung, Tables!LayoutCombineJung(p[1], p[2]))]
MCCombineJong     == [p \in MCJong \X MCCho |-> Within(MCJong, Tables!LayoutCombineJong(p[1], p[2]))]
MCCombineJongPair == [p \in MCJong \X MCJong |-> Within(MCJong, Tables!LayoutCombineJongPair(p[1], p[2]))]
MCChoToJong       == [c \in MCCho |-> Within(MCJong, Tables!LayoutChoToJong[c])]
MCSplitJong       == [t \in MCJong |-> Tables!LayoutSplitJong(t)]

\* A layout file's own final rules (Combine T ...): also g+g and s+s.
MCFileJongPair == [p \in MCJong \X MCJong |->
    CASE p = <<1, 1>> -> 2 [] p = <<19, 19>> -> 20 [] OTHER -> MCCombineJongPair[p]]

MCLetters   == {"g", "s", "b", "a", "o"}
MCSpellCho  == (0 :> <<"g">>) @@ (1 :> <<"g", "g">>) @@ (8 :> <<"b", "b">>)
               @@ (9 :> <<"s">>) @@ (10 :> <<"s", "s">>)
MCSpellJung == (0 :> <<"a">>) @@ (8 :> <<"o">>) @@ (9 :> <<"o", "a">>)
MCSpellJong == (1 :> <<"g">>) @@ (2 :> <<"g", "g">>) @@ (3 :> <<"g", "s">>)
               @@ (19 :> <<"s">>) @@ (20 :> <<"s", "s">>)

MCKeysOf(type, S) == [type : {type}, index : S]

\* The two-set keys, and keys for the finals.
MCDubeolKeys == Tables!DubeolKeys \intersect Jamos
MCFileKeys   == MCDubeolKeys \union MCKeysOf("jong", MCJong)

------------------------------------------------------------------------------
(* Sequence layouts: `ja' has a two-key word whose first key is a word of     *)
(* its own when nothing follows, segments and candidates; `zh' live           *)
(* candidates, and a separator; `plain' no candidates; the last has           *)
(* candidates and no style                                                    *)
n == <<"n">>
na == <<"n", "a">>
a == <<"a">>
NoFlags == [cand |-> FALSE, zh |-> FALSE, ja |-> FALSE, conn |-> FALSE, cancel |-> FALSE]
Ja == [NoFlags EXCEPT !.cand = TRUE, !.ja = TRUE, !.conn = TRUE]
        @@ [words |-> {n, na, a}, known |-> {<<n>>, <<na>>, <<a>>, <<na, a>>}]
Zh == [NoFlags EXCEPT !.cand = TRUE, !.zh = TRUE]
        @@ [words |-> {n, na}, known |-> {<<n>>, <<na>>, <<n, na>>}]
Plain == [NoFlags EXCEPT !.cancel = TRUE] @@ [words |-> {na, <<"a", "n">>}, known |-> {}]
Styleless == [NoFlags EXCEPT !.cand = TRUE]
        @@ [words |-> {n, na}, known |-> {<<n>>, <<n, na>>}]

MCPrintable  == {"n", "a", "'"}
MCSeqLayouts == {Ja, Zh, Plain, Styleless}
Renaming == Permutations({d1, d2})

------------------------------------------------------------------------------
ASSUME MCTypingAssumption == edit \in Ctxs /\ "syllable" \in Layouts

\* Delivery before anything was typed.
AtRest == DeliveryInit /\ prompt = TRUE /\ focus = edit /\ layout = "syllable"

MCInit ==
    /\ board \in Boards /\ Init
    /\ IF board = "delivery" THEN DeliveryInit ELSE AtRest
    /\ SeqInit /\ (board # "reading" => lay = Ja)

MCNext ==
    /\ UNCHANGED board
    /\ \/ board = "automaton" /\ Next /\ UNCHANGED <<deliveryVars, seqVars>>
       \/ board = "delivery" /\ DeliveryNext /\ UNCHANGED <<vars, seqVars>>
       \/ board = "reading" /\ SeqNext /\ UNCHANGED <<vars, deliveryVars>>

MCSpec == MCInit /\ [][MCNext]_mcVars

------------------------------------------------------------------------------
(* The properties are those of HangulFsm, Delivery and SeqInput.              *)
==============================================================================
