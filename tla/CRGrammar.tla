----------------------------- MODULE CRGrammar -----------------------------
(***************************************************************************)
(* The productions of cr-parser.c that call no handler: what each finds    *)
(* from a position of a text, and where it leaves the position.  The core  *)
(* grammar (the *_core functions) is what the parser recovers with.        *)
(***************************************************************************)
EXTENDS CSSText, FiniteSetsExt

\* cr_parser_try_to_skip_spaces_and_comments
SkipBlanks(t, p) == Min({q \in p..Len(t) : At(t, q) \notin Blank})

-----------------------------------------------------------------------------
(* The core grammar.  0 stands for a failure: no production ends there.    *)

AnyTokens == {"IDENT", "STRING", "HASH", "INCLUDES", "IMPORTANT_SYM"} \cup Delims \cup Blank
Closing == [open \in {"(", "FUNCTION", "["} |-> IF open = "[" THEN "]" ELSE ")"]

\* any_core, a run of them, block_core and its content, and value_core.  A value
\* fails at the end of the input whatever it has found; an empty one is accepted.
Core(t) ==
    LET core[x \in {"any", "any*", "block", "content", "value"} \X (0..Len(t))] ==
        LET p == x[2]
            Then(kind, q, rest) == LET end == core[<<kind, q>>]
                                   IN  IF end = 0 THEN 0 ELSE core[<<rest, end>>]
        IN
        CASE x[1] = "any" ->
               IF At(t, p) \in AnyTokens THEN p + 1
               ELSE IF At(t, p) \in DOMAIN Closing
                       /\ At(t, core[<<"any*", p + 1>>]) = Closing[At(t, p)]
                    THEN core[<<"any*", p + 1>>] + 1
               ELSE 0
          [] x[1] = "any*" ->
               IF core[<<"any", p>>] = 0 THEN p ELSE Then("any", p, "any*")
          [] x[1] = "block" ->
               IF At(t, p) = "{" THEN core[<<"content", p + 1>>] ELSE 0
          [] x[1] = "content" ->
               LET q == SkipBlanks(t, p)
               IN  CASE At(t, q) = "}"                -> SkipBlanks(t, q + 1)
                     [] At(t, q) \in {";", "ATKEYWORD"} -> core[<<"content", q + 1>>]
                     [] At(t, q) = "{"                -> Then("block", q, "content")
                     [] OTHER                         -> Then("any", q, "content")
          [] x[1] = "value" ->
               CASE At(t, p) = NoMore      -> 0
                 [] At(t, p) = "{"         -> Then("block", p, "value")
                 [] At(t, p) = "ATKEYWORD" -> core[<<"value", SkipBlanks(t, p + 1)>>]
                 [] OTHER -> IF core[<<"any", p>>] = 0 THEN p
                             ELSE Then("any", p, "value")
    IN core

AnyRun(t, p) == Core(t)[<<"any*", p>>]

Parsed(p, end) == IF end = 0 THEN Malformed(p) ELSE Ok(end)

\* Mutant: the end of the input is success.
ParseAtruleCoreEndless(t, p) ==
    LET q == AnyRun(t, SkipBlanks(t, p + 1))
    IN  CASE At(t, p) \notin AtRules -> Malformed(p)
          [] At(t, q) = "{"          -> Parsed(p, Core(t)[<<"block", q>>])
          [] At(t, q) = ";"          -> Ok(q + 1)
          [] OTHER                   -> Ok(p)

ParseAtruleCore(t, p) ==
    LET q == AnyRun(t, SkipBlanks(t, p + 1))
    IN  CASE At(t, p) \notin AtRules -> Malformed(p)
          [] At(t, q) = "{"          -> Parsed(p, Core(t)[<<"block", q>>])
          [] At(t, q) = ";"          -> Ok(q + 1)
          [] OTHER                   -> Malformed(p)

ParseProperty(t, p) ==
    CASE At(t, p) = "IDENT" -> Ok(SkipBlanks(t, p + 1))
      [] At(t, p) = NoMore  -> Ended(p)
      [] OTHER              -> Malformed(p)

ParseDeclarationCore(t, p) ==
    LET q == ParseProperty(t, p).pos
    IN  IF At(t, p) = "IDENT" /\ At(t, q) = ":"
        THEN Parsed(p, Core(t)[<<"value", SkipBlanks(t, q + 1)>>])
        ELSE Malformed(p)

\* The failure of a declaration is ignored: what must follow it decides.
ParseRulesetCore(t, p) ==
    LET Declared(q) == ParseDeclarationCore(t, SkipBlanks(t, q + 1)).pos
        list[q \in 0..Len(t)] ==
            CASE At(t, q) = "}" -> q + 1
              [] At(t, q) = ";" ->
                   IF At(t, Declared(q)) = "}" THEN SkipBlanks(t, Declared(q) + 1)
                   ELSE list[Declared(q)]
              [] OTHER          -> 0
        open == AnyRun(t, p)
    IN  IF At(t, open) = "{" THEN Parsed(p, list[Declared(open)]) ELSE Malformed(p)

ParseStatementCore(t, p) ==
    IF At(t, p) \in AtRules THEN ParseAtruleCore(t, p) ELSE ParseRulesetCore(t, p)

-----------------------------------------------------------------------------
(* Declarations. *)

\* A function whose name is at p and whose expression ends at close.
ParseFunction(t, p, close) ==
    IF At(t, p) = "FUNCTION" /\ close # 0 /\ At(t, close) = ")" THEN close + 1 ELSE 0

\* Terms, expressions and what may follow the first term, which call one another; 0
\* is a failure.  An operator after which no term is found stays consumed.
Terms(t) ==
    LET found[x \in {"term", "expr", "more"} \X (0..Len(t))] ==
        LET p == x[2]
            signed  == IF At(t, p) = "+" THEN SkipBlanks(t, p + 1) ELSE p
            operand == SkipBlanks(t, IF At(t, p) \in {"/", ","} THEN p + 1 ELSE p)
            Then(q, otherwise) == LET end == found[<<"term", q>>]
                                  IN  IF end = 0 THEN otherwise ELSE found[<<"more", end>>]
        IN
        CASE x[1] = "term" ->
               LET end == IF At(t, signed) \in {"IDENT", "STRING", "HASH"} THEN signed + 1
                          ELSE ParseFunction(t, signed, found[<<"expr", SkipBlanks(t, signed + 1)>>])
               IN  IF end = 0 THEN 0 ELSE SkipBlanks(t, end)
          [] x[1] = "expr" -> Then(p, 0)
          [] x[1] = "more" -> Then(operand, operand)
    IN found

ParseExpr(t, p) == Parsed(p, Terms(t)[<<"expr", p>>])

ParsePrio(t, p) == IF At(t, p) = "IMPORTANT_SYM" THEN SkipBlanks(t, p + 1) ELSE p

ParseDeclaration(t, p) ==
    LET prop == ParseProperty(t, p)
        expr == ParseExpr(t, SkipBlanks(t, prop.pos + 1))
    IN  CASE prop.status # "CR_OK"     -> prop
          [] At(t, prop.pos) = NoMore  -> Ended(p)
          [] At(t, prop.pos) # ":"     -> Malformed(p)
          [] expr.status # "CR_OK"     -> Malformed(p)
          [] OTHER                     -> Ok(ParsePrio(t, SkipBlanks(t, expr.pos)))

-----------------------------------------------------------------------------
(* Selectors. *)

\* Mutant: blanks after the value are not skipped.
ParseAttributeSelectorTight(t, p) ==
    LET name  == SkipBlanks(t, p + 1)
        op    == SkipBlanks(t, name + 1)
        value == SkipBlanks(t, op + 1)
    IN  CASE At(t, name) # "IDENT" -> 0
          [] At(t, op) = "]"       -> op + 1
          [] At(t, op) = NoMore    -> 0
          [] OTHER -> IF At(t, value) \in {"IDENT", "STRING"} /\ At(t, value + 1) = "]"
                      THEN value + 2 ELSE 0

\* Whatever stands between the name and the value is taken for the operator.
ParseAttributeSelector(t, p) ==
    LET name  == SkipBlanks(t, p + 1)
        op    == SkipBlanks(t, name + 1)
        value == SkipBlanks(t, op + 1)
        close == SkipBlanks(t, value + 1)
    IN  CASE At(t, name) # "IDENT" -> 0
          [] At(t, op) = "]"       -> op + 1
          [] At(t, op) = NoMore    -> 0
          [] OTHER -> IF At(t, value) \in {"IDENT", "STRING"} /\ At(t, close) = "]"
                      THEN close + 1 ELSE 0

\* The parenthesis must follow the argument at once.
ParsePseudo(t, p) ==
    LET arg == SkipBlanks(t, p + 2)
    IN  CASE At(t, p + 1) = "IDENT" -> p + 2
          [] At(t, p + 1) = "FUNCTION" ->
               IF At(t, arg) = "IDENT" /\ At(t, arg + 1) = ")" THEN arg + 2 ELSE 0
          [] OTHER -> 0

\* An id, a class, an attribute or a pseudo-class.
AdditionalSelector(t, p) ==
    CASE At(t, p) = "HASH" -> p + 1
      [] At(t, p) = "."    -> IF At(t, p + 1) = "IDENT" THEN p + 2 ELSE 0
      [] At(t, p) = "["    -> ParseAttributeSelector(t, p)
      [] At(t, p) = ":"    -> ParsePseudo(t, p)

\* A simple selector is only accepted in front of another token.
ParseSimpleSelector(t, p) ==
    LET named == At(t, p) \in {"*", "IDENT"}
        begin == SkipBlanks(t, IF named THEN p + 1 ELSE p)
        more[q \in 0..Len(t)] ==
            CASE At(t, q) = NoMore -> Ended(p)
              [] At(t, q) \in {"HASH", ".", "[", ":"} ->
                   LET end == AdditionalSelector(t, q)
                   IN  IF end = 0 THEN Malformed(p) ELSE more[end]
              [] named \/ q > begin -> Ok(SkipBlanks(t, q))
              [] OTHER             -> Malformed(p)
    IN  IF At(t, p) = NoMore THEN Ended(p) ELSE more[begin]

\* At the end of the input the position is restored and CR_OK returned: the
\* macro PEEK_NEXT_CHAR leaves the function without setting its status.
ParseSimpleSels(t, p) ==
    LET Next(q) == ParseSimpleSelector(t, IF At(t, q) \in {"+", ">"}
                                          THEN SkipBlanks(t, q + 1) ELSE q)
        more[q \in 0..Len(t)] ==
            CASE At(t, q) = NoMore         -> Ok(p)
              [] Next(q).status = "CR_OK"  -> more[Next(q).pos]
              [] OTHER                     -> Ok(Next(q).pos)
        first == ParseSimpleSelector(t, p)
    IN  IF first.status = "CR_OK" THEN more[first.pos] ELSE Malformed(p)

ParseSelector(t, p) ==
    LET more[q \in 0..Len(t)] ==
            IF At(t, q) # "," THEN Ok(SkipBlanks(t, q))
            ELSE LET sels == ParseSimpleSels(t, SkipBlanks(t, q + 1))
                 IN  IF sels.status = "CR_OK" THEN more[sels.pos] ELSE Malformed(p)
        first == ParseSimpleSels(t, p)
    IN  IF first.status = "CR_OK" THEN more[first.pos] ELSE Malformed(p)

-----------------------------------------------------------------------------
(* At-rules: the whole of @charset and @import, and the others up to the     *)
(* brace that opens their block.                                             *)

ParseCharset(t, p) ==
    LET string == SkipBlanks(t, p + 1)
        close  == SkipBlanks(t, string + 1)
    IN  IF At(t, p) = "CHARSET_SYM" /\ At(t, string) = "STRING" /\ At(t, close) = ";"
        THEN Ok(close + 1) ELSE Malformed(p)

\* One or more media names, up to the token after the last: the position, or
\* 0 where a comma is followed by something else.
MediaNames(t, p) ==
    LET names[q \in 0..Len(t)] ==
            LET r == SkipBlanks(t, q)
                next == SkipBlanks(t, r + 1)
            IN  CASE At(t, r) # ","        -> r
                  [] At(t, next) = "IDENT" -> names[next + 1]
                  [] OTHER                 -> 0
    IN  names[p + 1]

\* CR_OK without progress at the end of the input (PEEK_NEXT_CHAR again); after
\* a medium the end of the input stands for the semicolon.
ParseImport(t, p) ==
    LET string == SkipBlanks(t, p + 1)
        medium == SkipBlanks(t, string + 1)
        close  == IF At(t, medium) = "IDENT" THEN MediaNames(t, medium) ELSE medium
    IN  CASE At(t, p) # "IMPORT_SYM"      -> Malformed(p)
          [] At(t, string) = NoMore       -> Ok(p)
          [] At(t, string) # "STRING"     -> Malformed(p)
          [] close = 0                    -> Malformed(p)
          [] At(t, close) = NoMore        -> IF close > medium THEN Ok(close) ELSE Ended(p)
          [] At(t, close) = ";"           -> Ok(SkipBlanks(t, close + 1))
          [] OTHER                        -> Malformed(p)

ParseMediaPrelude(t, p) ==
    LET medium == SkipBlanks(t, p + 1)
        open   == MediaNames(t, medium)
    IN  CASE At(t, p) # "MEDIA_SYM" \/ At(t, medium) # "IDENT" -> Malformed(p)
          [] open = 0              -> Malformed(p)
          [] At(t, open) = NoMore  -> Ok(p)
          [] At(t, open) = "{"     -> Ok(open + 1)
          [] OTHER                 -> Malformed(p)

ParsePagePrelude(t, p) ==
    LET name   == SkipBlanks(t, p + 1)
        colon  == SkipBlanks(t, IF At(t, name) = "IDENT" THEN name + 1 ELSE name)
        pseudo == At(t, colon) = ":"
        open   == SkipBlanks(t, IF pseudo THEN colon + 2 ELSE colon)
    IN  IF /\ At(t, p) = "PAGE_SYM"
           /\ pseudo => At(t, colon + 1) = "IDENT"
           /\ At(t, open) = "{"
        THEN Ok(open + 1) ELSE Malformed(p)

ParseFontFacePrelude(t, p) ==
    LET open == SkipBlanks(t, p + 1)
    IN  IF At(t, p) = "FONT_FACE_SYM" /\ At(t, open) = "{"
        THEN Ok(open + 1) ELSE Malformed(p)
============================================================================
