---------------------------- MODULE MCCalcServer ----------------------------
(***************************************************************************)
(* CalcServer with the parser of CalcParser.  Either one client asks any   *)
(* text of a large set, or all clients ask and each request is a good one, *)
(* one the parser rejects, or nothing.                                     *)
(***************************************************************************)
EXTENDS CalcServer, CalcParser

CONSTANTS First,         \* the client that asks the texts
          MaxLength      \* bound on the texts of arbitrary characters

\* All texts up to the bound.
ShortTexts == UNION {[1 .. n -> {"1", " ", "+", "-", "*", "/", "(", ")"}] : n \in 0 .. MaxLength}

\* Three operands and two operators with parentheses, matched or not, around the
\* first two or the last two.
LongTexts == {<<p1, "1", op1, p2, "2", p3, op2, "1", p4>> :
                p1 \in {"(", "-"}, p2 \in {"(", " "}, p3, p4 \in {")", " "},
                op1, op2 \in {"+", "-", "*", "/"}}

\* Texts that the buffer cuts off: with the character lost they would mean something else.
CutTexts == {<<"1", op1, "(", "2", op2, "1", ")", " ", " ", lost>> :
               op1, op2 \in {"+", "-", "*", "/"}, lost \in {"1", ")"}}

Samples == {<<"1", "+", "2">>, <<"1", "+">>, << >>}

MCLoads == [Clients -> Samples] \cup
           {[c \in Clients |-> IF c = First THEN text ELSE NoRequest] :
                                  text \in ShortTexts \cup LongTexts \cup CutTexts}
=============================================================================
