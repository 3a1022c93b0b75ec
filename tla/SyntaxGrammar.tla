--------------------------- MODULE SyntaxGrammar ---------------------------
(***************************************************************************)
(* The grammar the comments of src/src/cr-parser.c give for selectors and  *)
(* declarations, over tokens: where what is derived from a set of          *)
(* positions may end.                                                      *)
(***************************************************************************)
EXTENDS CSSText, Derivations

S(t, X) == Many(t, Blank, X)

-----------------------------------------------------------------------------
(* Selectors. *)

\* attrib ::= '[' S* IDENT S* [ [ '=' | INCLUDES | DASHMATCH ] S* [ IDENT | STRING ] S* ]? ']'.
\* The code takes any token for the operator.
Attrib(t, X) ==
    LET name  == S(t, One(t, {"IDENT"}, S(t, One(t, {"["}, X))))
        op    == One(t, Tokens \ (Blank \cup {"]"}), name)
        value == One(t, {"IDENT", "STRING"}, S(t, op))
    IN  One(t, {"]"}, name \cup S(t, value))

Class(t, X) == One(t, {"IDENT"}, One(t, {"."}, X))

\* pseudo ::= ':' [ IDENT | FUNCTION S* IDENT S* ')' ].  The code takes no blank in
\* front of the parenthesis.
Pseudo(t, X) ==
    LET colon == One(t, {":"}, X)
        arg   == One(t, {"IDENT"}, S(t, One(t, {"FUNCTION"}, colon)))
    IN  One(t, {"IDENT"}, colon) \cup One(t, {")"}, arg)

\* simple_selector ::= element_name? [ HASH | class | attrib | pseudo ]* S*, and not
\* nothing.
SimpleSelector(t, X) ==
    LET Another(Y) == One(t, {"HASH"}, Y) \cup Class(t, Y) \cup Attrib(t, Y) \cup Pseudo(t, Y)
        named == One(t, {"IDENT", "*"}, X)
    IN  S(t, Star(Another, named \cup Another(X), Len(t)))

\* selector ::= simple_selector [ combinator simple_selector ]*, the combinators being
\* '+' S*, '>' S* and nothing.  The code lets one end a selector.
Selector1(t, X) ==
    LET Combined(Y) == Y \cup S(t, One(t, {"+", ">"}, Y))
        Another(Y)  == SimpleSelector(t, Combined(Y))
    IN  Combined(Star(Another, SimpleSelector(t, X), Len(t)))

\* selector [ ',' S* selector ]*
SelectorList(t, X) ==
    LET Another(Y) == Selector1(t, S(t, One(t, {","}, Y)))
    IN  Star(Another, Selector1(t, X), Len(t))

-----------------------------------------------------------------------------
(* Declarations. *)

\* expr ::= term [ operator term ]*, the operators being '/' S*, ',' S* and nothing;
\* term ::= unary_operator? function | [ STRING | IDENT | hexcolor ] S*;
\* function ::= FUNCTION S* expr ')' S*.  The code lets an operator end an expression,
\* a sign stand before any term, and blanks behind it.
Expr(t) ==
    LET ends[p \in 0..Len(t)] ==
            LET signed == {p} \cup S(t, One(t, {"+"}, {p}))
                args   == S(t, One(t, {"FUNCTION"}, signed))
                call   == One(t, {")"}, UNION {ends[q] : q \in args})
                term   == S(t, call \cup One(t, {"IDENT", "STRING", "HASH"}, signed))
                begun  == term \cup S(t, One(t, {"/", ","}, term))
            IN  begun \cup UNION {ends[q] : q \in begun}
    IN  ends

\* declaration ::= property ':' S* expr prio?
DeclarationEnds(t, X) ==
    LET property == S(t, One(t, {"IDENT"}, X))
        value    == UNION {Expr(t)[q] : q \in S(t, One(t, {":"}, property))}
    IN  value \cup S(t, One(t, {"IMPORTANT_SYM"}, value))
============================================================================
