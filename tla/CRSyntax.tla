------------------------------ MODULE CRSyntax ------------------------------
(***************************************************************************)
(* The parser with the productions of CRGrammar, against the grammar their *)
(* comments give.                                                          *)
(***************************************************************************)
EXTENDS CRParser, CRGrammar, SyntaxGrammar

\* A production that reports r and may end at ends, in front of one of follow.
Agree(r, ends, follow) ==
    {q \in ends : At(text, q) \in follow} =
        IF r.status = "CR_OK" /\ At(text, r.pos) \in follow THEN {r.pos} ELSE {}

\* Wherever a selector or a declaration may be looked for, it is found in front of what
\* must follow it exactly where the grammar derives one: the routines, which never go
\* back over an alternative, which peek at characters and unget tokens, and of which some
\* call one another, refuse nothing and accept nothing else (parse_selector,
\* parse_declaration and all they call).
AcceptsTheGrammar ==
    pc = "start" =>
        \A p \in {q \in Places : At(text, q) \notin Blank} :
            /\ Agree(Selector(text, p), SelectorList(text, {p}), {"{"})
            /\ Agree(Declaration(text, p), DeclarationEnds(text, {p}), {";", "}"})
============================================================================
