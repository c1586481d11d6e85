----------------------------- MODULE MCKeyResend -----------------------------
(***************************************************************************)
(* Instances of KeyResend: an EDIT window (its text travels as messages)   *)
(* and a terminal, each with an instance of the service of its own.        *)
(***************************************************************************)
EXTENDS KeyResend

CONSTANTS edit, terminal, tip1, tip2

MCServiceOf ==
    [w \in Windows |-> CASE w = edit -> tip1 [] OTHER -> tip2]
=============================================================================
