----------------------------- MODULE CalcParser -----------------------------
(***************************************************************************)
(* The expression parser of Sockets/unix_calc_server.c.  A request is the  *)
(* sequence of its characters, `expr' a position in it.  The parser        *)
(* computes with doubles as it goes; here it builds the term of what it    *)
(* computes, so that precedence and grouping are visible and rounding is   *)
(* not.  A function returns the set of its result, and the empty set when  *)
(* it calls die().  strtod is external: an optional + and as many digits   *)
(* as there are, which stand for the other forms of a number too;          *)
(* errno == ERANGE is left out.                                            *)
(***************************************************************************)
LOCAL INSTANCE Integers
LOCAL INSTANCE Sequences
LOCAL INSTANCE FiniteSets

\* Characters and terms.
Digits == {"1", "2"}
Spaces == {" "}
Number(digits) == <<"num", digits>>
Negated(t) == <<"neg", t>>
Binary(op, l, r) == <<op, l, r>>

Died == {}
Parsed(k, t) == [expr |-> k, term |-> t]

\* The character at position k: *expr.
Char(s, k) == IF k <= Len(s) THEN s[k] ELSE "NUL"

\* The first position from k on whose character is not in C.
SkipAll(s, k, C) == CHOOSE m \in k .. Len(s) + 1 : /\ Char(s, m) \notin C
                                                   /\ \A x \in k .. m - 1 : s[x] \in C
SkipSpaces(s, k) == SkipAll(s, k, Spaces)

Strtod(s, k) == LET first == IF Char(s, k) = "+" THEN k + 1 ELSE k
                    end == SkipAll(s, first, Digits)
                IN  IF end = first THEN Died ELSE {Parsed(end, Number(SubSeq(s, first, end - 1)))}

-----------------------------------------------------------------------------
(* The parser.                                                             *)

RECURSIVE ParseFactor(_, _), TermLoop(_, _), ExpressionLoop(_, _)

ParseTerm(s, k) == UNION {TermLoop(s, left) : left \in ParseFactor(s, k)}
ParseExpression(s, k) == UNION {ExpressionLoop(s, left) : left \in ParseTerm(s, k)}

\* The position after the closing parenthesis that follows k, if it does.
Closing(s, k) == LET here == SkipSpaces(s, k)
                 IN  IF Char(s, here) = ")" THEN {here + 1} ELSE Died

ParseFactor(s, k) ==
  LET here == SkipSpaces(s, k)
  IN  CASE Char(s, here) = "(" -> UNION {{Parsed(m, inner.term) : m \in Closing(s, inner.expr)} :
                                           inner \in ParseExpression(s, here + 1)}
        [] Char(s, here) = "-" -> {Parsed(operand.expr, Negated(operand.term)) :
                                     operand \in ParseFactor(s, here + 1)}
        [] OTHER -> Strtod(s, here)

\* Mutant of TermLoop: the right operand takes the rest of the product.
TermLoopRight(s, left) ==
  LET here == SkipSpaces(s, left.expr)
  IN  IF Char(s, here) \notin {"*", "/"} THEN {Parsed(here, left.term)}
      ELSE {Parsed(right.expr, Binary(Char(s, here), left.term, right.term)) :
              right \in ParseTerm(s, here + 1)}

\* The loop of parse_term: the operands are combined from the left.
TermLoop(s, left) ==
  LET here == SkipSpaces(s, left.expr)
  IN  IF Char(s, here) \notin {"*", "/"} THEN {Parsed(here, left.term)}
      ELSE UNION {TermLoop(s, Parsed(right.expr, Binary(Char(s, here), left.term, right.term))) :
                    right \in ParseFactor(s, here + 1)}

\* The loop of parse_expression.
ExpressionLoop(s, left) ==
  LET here == SkipSpaces(s, left.expr)
  IN  IF Char(s, here) \notin {"+", "-"} THEN {Parsed(here, left.term)}
      ELSE UNION {ExpressionLoop(s, Parsed(right.expr, Binary(Char(s, here), left.term, right.term))) :
                    right \in ParseTerm(s, here + 1)}

\* The set of the term that evaluate() computes.  Its test for a newline never
\* matters: isspace() holds of one, so that skip_spaces has passed it.
EvaluateText(s) == {r.term : r \in {q \in ParseExpression(s, 1) : Char(s, SkipSpaces(s, q.expr)) = "NUL"}}

-----------------------------------------------------------------------------
(* The reference: the usual grammar, as the set of the terms a text has.   *)

RECURSIVE Trim(_)
Trim(s) == IF s # << >> /\ s[1] \in Spaces THEN Trim(Tail(s))
           ELSE IF s # << >> /\ s[Len(s)] \in Spaces THEN Trim(SubSeq(s, 1, Len(s) - 1))
           ELSE s

IsDigits(s) == s # << >> /\ \A k \in DOMAIN s : s[k] \in Digits

RECURSIVE Factors(_), Terms(_), Expressions(_)

\* factor ::= digits | + digits | - factor | ( expression )
Factors(text) ==
  LET s == Trim(text)
      n == Len(s)
  IN  CASE IsDigits(s) -> {Number(s)}
        [] n > 1 /\ s[1] = "+" -> IF IsDigits(Tail(s)) THEN {Number(Tail(s))} ELSE {}
        [] n > 1 /\ s[1] = "-" -> {Negated(t) : t \in Factors(Tail(s))}
        [] n > 2 /\ s[1] = "(" /\ s[n] = ")" -> Expressions(SubSeq(s, 2, n - 1))
        [] OTHER -> {}

\* All ways to cut s at an operator of ops.
Cuts(s, ops) == {k \in 2 .. Len(s) - 1 : s[k] \in ops}
Left(s, k) == SubSeq(s, 1, k - 1)
Right(s, k) == SubSeq(s, k + 1, Len(s))

\* term ::= factor | term * factor | term / factor
Terms(s) == Factors(s) \cup
            UNION {{Binary(s[k], l, r) : l \in Terms(Left(s, k)), r \in Factors(Right(s, k))} :
                     k \in Cuts(s, {"*", "/"})}

\* expression ::= term | expression + term | expression - term
Expressions(s) == Terms(s) \cup
                  UNION {{Binary(s[k], l, r) : l \in Expressions(Left(s, k)), r \in Terms(Right(s, k))} :
                           k \in Cuts(s, {"+", "-"})}
=============================================================================
