------------------------------ MODULE CRParser ------------------------------
(***************************************************************************)
(* The statement level of CRParser (cr-parser.c): parse_stylesheet and the *)
(* routines it calls that call a document handler back.  A step runs up to *)
(* the next call of the handler, iteration of a loop or return.  What the  *)
(* other productions find in a text is given by constant operators.        *)
(***************************************************************************)
EXTENDS CSSText, FiniteSets

CONSTANTS Texts,                   \* the stylesheets
          Skip(_, _),              \* the position after spaces and comments
          Selector(_, _), Declaration(_, _),
          MediaPrelude(_, _), PagePrelude(_, _), FontFacePrelude(_, _),
          Charset(_, _), Import(_, _),
          AtruleCore(_, _), RulesetCore(_, _), StatementCore(_, _)

Results(t, p) == {r \in [status: Statuses, pos: p..Len(t)] :
                     r.status # "CR_OK" => r.pos = p}

Found(t, p) == {Selector(t, p), Declaration(t, p), MediaPrelude(t, p),
                PagePrelude(t, p), FontFacePrelude(t, p), Charset(t, p),
                Import(t, p), AtruleCore(t, p), RulesetCore(t, p),
                StatementCore(t, p)}

ASSUME ParserAssumption ==
    /\ Texts \subseteq Seq(Tokens)
    /\ \A t \in Texts : \A p \in 0..Len(t) :
         /\ Skip(t, p) \in p..Len(t)
         /\ Found(t, p) \subseteq Results(t, p)
         /\ \A r \in {PagePrelude(t, p), FontFacePrelude(t, p)} :
              r.status = "CR_OK" => r.pos > p

\* No declaration ends its text: at least the brace that closes the block, or the
\* next declaration, comes after it.
DeclarationsAreFollowed ==
    \A t \in Texts : \A p \in 0..Len(t) :
        Declaration(t, p).status = "CR_OK" => Declaration(t, p).pos < Len(t)

\* Braces opened and not closed before position p.
CBO == "{"
CBC == "}"
Upto(t, b, p) == {i \in 1..p : t[i] = b}
DepthIn(t, p) == Cardinality(Upto(t, CBO, p)) - Cardinality(Upto(t, CBC, p))

NoBraces(t, p, q) == \A i \in (p + 1)..q : t[i] \notin {CBO, CBC}

\* The blocks of a text as the productions see them: what stands within a statement has
\* no braces, a prelude opens its block, the core grammar ends where as many blocks
\* are open as where it began, and it reads an @media rule past its prelude.
BlocksAreRead ==
    \A t \in Texts : \A p \in 0..Len(t) :
         /\ NoBraces(t, p, Skip(t, p))
         /\ \A r \in {Selector(t, p), Declaration(t, p), Charset(t, p), Import(t, p)} :
              NoBraces(t, p, r.pos)
         /\ \A r \in {MediaPrelude(t, p), PagePrelude(t, p), FontFacePrelude(t, p)} :
              r.pos > p => DepthIn(t, r.pos) = DepthIn(t, p) + 1
         /\ \A r \in {AtruleCore(t, p), RulesetCore(t, p), StatementCore(t, p)} :
              r.status = "CR_OK" => DepthIn(t, r.pos) = DepthIn(t, p)

\* A rule of one statement that is read moves on, and skipping an @media rule goes past
\* the brace that opens it.
StatementsMoveOn ==
    \A t \in Texts : \A p \in 0..Len(t) :
         /\ Charset(t, p).status = "CR_OK" => Charset(t, p).pos > p
         /\ AtruleCore(t, p).status = "CR_OK" => AtruleCore(t, p).pos >= MediaPrelude(t, p).pos

VARIABLES text,
          pos,      \* the position of the tokenizer
          pc,       \* where the routine that is running stands
          media,    \* the frame of parse_media, if it is active
          rule,     \* the frame of parse_ruleset, parse_page or parse_font_face
          status,   \* the local "status" of that routine, or what it returned
          sac       \* the handler function this step called

vars == <<text, pos, pc, media, rule, status, sac>>

\* "from" is the routine's init_pos; "started" is TRUE between the start_*
\* function of the handler and the end of the rule.
NoFrame == [fn |-> "none", from |-> 0, started |-> FALSE]
Frame(fn, p) == [fn |-> fn, from |-> p, started |-> FALSE]

NoCall == [call |-> "none", at |-> 0]
Call(f, p) == sac' = [call |-> f, at |-> p]
Silent == sac' = NoCall

Here == At(text, pos)

Init == /\ text \in Texts
        /\ pos = 0
        /\ pc = "start"
        /\ media = NoFrame /\ rule = NoFrame
        /\ status = "CR_OK"
        /\ sac = NoCall

-----------------------------------------------------------------------------
(* parse_stylesheet, up to the first statement that is not an import.        *)

Leave(label, s) == /\ pc' = label
                   /\ status' = s
                   /\ UNCHANGED <<text, media, rule>>

StartDocument ==
    /\ pc = "start"
    /\ Call("start_document", 0)
    /\ Leave("charset", status)
    /\ UNCHANGED pos

CharsetStatement ==
    /\ pc = "charset"
    /\ LET p       == Skip(text, pos)
           found   == Charset(text, p)
           skipped == AtruleCore(text, p)
       IN  \/ /\ At(text, p) = NoMore
              /\ pos' = p /\ Silent /\ Leave("done", NoMore)
           \/ /\ At(text, p) = "CHARSET_SYM" /\ found.status = "CR_OK"
              /\ pos' = found.pos /\ Call("charset", p) /\ Leave("skip_cdo", "CR_OK")
           \/ /\ At(text, p) = "CHARSET_SYM" /\ found.status # "CR_OK"
              /\ pos' = skipped.pos /\ Silent
              /\ IF skipped.status = "CR_OK" THEN Leave("skip_cdo", "CR_OK")
                 ELSE Leave("error", "CR_PARSING_ERROR")
           \/ /\ At(text, p) \notin {NoMore, "CHARSET_SYM"}
              /\ pos' = p /\ Silent /\ Leave("skip_cdo", "CR_OK")

SkipCDO ==
    /\ pc = "skip_cdo"
    /\ Silent
    /\ LET p == Skip(text, pos)
       IN  CASE At(text, p) = NoMore -> pos' = p /\ Leave("done", NoMore)
             [] At(text, p) = "CDO"  -> pos' = p + 1 /\ Leave("skip_cdo", "CR_OK")
             [] OTHER                -> pos' = p /\ Leave("imports", "CR_OK")

\* import_string is not set where parse_import returns CR_OK without progress.
ImportStatement ==
    /\ pc = "imports" /\ Here = "IMPORT_SYM"
    /\ LET r == Import(text, pos)
       IN  \/ /\ r.status = "CR_OK"
              /\ IF r.pos > pos THEN Call("import_style", pos) ELSE Silent
              /\ pos' = Skip(text, r.pos)
              /\ Leave("imports", "CR_OK")
           \/ /\ r.status = NoMore
              /\ Silent /\ Leave("error", NoMore) /\ UNCHANGED pos
           \/ /\ r.status \notin {"CR_OK", NoMore}
              /\ Call("error", pos) /\ Leave("recover_import", r.status)
              /\ UNCHANGED pos

RecoverImport ==
    /\ pc = "recover_import"
    /\ Silent
    /\ LET r == AtruleCore(text, pos)
       IN  IF r.status = "CR_OK"
           THEN pos' = Skip(text, r.pos) /\ Leave("imports", "CR_OK")
           ELSE pos' = r.pos /\ Leave("error", r.status)

\* After an import, the token that ends a run of CDO is still in "token" when
\* the next one is asked for, which cr_tknzr_get_next_token refuses.
SkipCDOAfterImport ==
    /\ pc = "imports" /\ Here \in {"S", "CDO"}
    /\ Silent
    /\ IF \A q \in pos..(Len(text) - 1) : At(text, q) \in {"S", "CDO"}
       THEN pos' = Len(text) /\ Leave("done", NoMore)
       ELSE UNCHANGED pos /\ Leave("error", "CR_BAD_PARAM_ERROR")

EndOfImports ==
    /\ pc = "imports" /\ Here \notin {"IMPORT_SYM", "S", "CDO"}
    /\ Silent
    /\ IF Here = NoMore THEN UNCHANGED pos /\ Leave("done", NoMore)
       ELSE pos' = Skip(text, pos) /\ Leave("rules", "CR_OK")

-----------------------------------------------------------------------------
(* parse_stylesheet, the statements. *)

RulesetStart == {"HASH", ".", ":", "*", "[", "IDENT"}

\* A routine is entered at the current position.
EnterRule(fn, p) == rule' = Frame(fn, p)

NextStatement ==
    /\ pc = "rules"
    /\ Silent
    /\ UNCHANGED text
    /\ \/ /\ Here = NoMore
          /\ pc' = "done" /\ status' = NoMore
          /\ UNCHANGED <<pos, media, rule>>
       \/ /\ Here \in {"S", "CDO"}
          /\ pos' = Skip(text, pos + 1)
          /\ UNCHANGED <<pc, media, rule, status>>
       \/ /\ Here \in RulesetStart
          /\ EnterRule("selector", pos) /\ pc' = "ruleset"
          /\ UNCHANGED <<pos, media, status>>
       \/ /\ Here = "MEDIA_SYM"
          /\ media' = Frame("media", pos) /\ pc' = "media"
          /\ UNCHANGED <<pos, rule, status>>
       \/ /\ Here = "PAGE_SYM"
          /\ EnterRule("page", pos) /\ pc' = "page"
          /\ UNCHANGED <<pos, media, status>>
       \/ /\ Here = "FONT_FACE_SYM"
          /\ EnterRule("font_face", pos) /\ pc' = "font_face"
          /\ UNCHANGED <<pos, media, status>>
       \/ /\ Here \notin RulesetStart \cup
                {NoMore, "S", "CDO", "MEDIA_SYM", "PAGE_SYM", "FONT_FACE_SYM"}
          /\ LET r == StatementCore(text, pos)
             IN  /\ pos' = r.pos
                 /\ status' = r.status
                 /\ pc' = IF r.status = "CR_OK" THEN "rules" ELSE "done"
          /\ UNCHANGED <<media, rule>>

\* A statement routine has returned to parse_stylesheet.
Returned ==
    /\ pc = "return" /\ ~(media.fn = "media" /\ rule.fn = "selector")
    /\ media' = NoFrame /\ rule' = NoFrame
    /\ IF status = "CR_OK" THEN Silent /\ pc' = "rules"
       ELSE /\ Call("error", pos)
            /\ pc' = IF rule.fn = "selector" THEN "recover_ruleset" ELSE "recover_atrule"
    /\ UNCHANGED <<text, pos, status>>

\* Mutant: one token more is skipped.
RecoverTooFar ==
    /\ pc \in {"recover_ruleset", "recover_atrule"}
    /\ Silent
    /\ LET r == IF pc = "recover_ruleset" THEN RulesetCore(text, pos)
                ELSE AtruleCore(text, pos)
       IN  /\ pos' = r.pos + 1
           /\ Leave(IF r.status = "CR_OK" THEN "rules" ELSE "done", r.status)

Recover ==
    /\ pc \in {"recover_ruleset", "recover_atrule"}
    /\ Silent
    /\ LET r == IF pc = "recover_ruleset" THEN RulesetCore(text, pos)
                ELSE AtruleCore(text, pos)
       IN  /\ pos' = r.pos
           /\ Leave(IF r.status = "CR_OK" THEN "rules" ELSE "done", r.status)

\* The labels "done" and "error".
EndDocument ==
    /\ pc = "done" /\ status \in {"CR_OK", NoMore}
    /\ Call("end_document", 0)
    /\ Leave("finished", "CR_OK")
    /\ UNCHANGED pos

GiveUp ==
    /\ \/ pc = "done" /\ status \notin {"CR_OK", NoMore} /\ UNCHANGED pos
       \/ pc = "error" /\ pos' = 0
    /\ Call("unrecoverable_error", 0)
    /\ Leave("failed", status)

-----------------------------------------------------------------------------
(* parse_ruleset, parse_page and parse_font_face. *)

\* Mutant: the handler is not told that its ruleset has failed.
FailSilently(s) ==
    /\ pos' = rule.from
    /\ status' = s
    /\ pc' = "return"
    /\ UNCHANGED <<text, media, rule>>
    /\ Silent

\* Mutant: the position is not set back to where the routine began.
FailInPlace(s) ==
    /\ status' = s
    /\ pc' = "return"
    /\ UNCHANGED <<text, pos, media>>
    /\ IF rule.fn = "selector" /\ rule.started
       THEN Call("error", rule.from) /\ rule' = [rule EXCEPT !.started = FALSE]
       ELSE Silent /\ UNCHANGED rule

\* The label "error" of a routine.  parse_ruleset alone tells the handler.
Fail(s) ==
    /\ pos' = rule.from
    /\ status' = s
    /\ pc' = "return"
    /\ UNCHANGED <<text, media>>
    /\ IF rule.fn = "selector" /\ rule.started
       THEN Call("error", rule.from) /\ rule' = [rule EXCEPT !.started = FALSE]
       ELSE Silent /\ UNCHANGED rule

\* The handler is told of the rule; its declarations follow.
Started(call, p) ==
    /\ Call(call, rule.from)
    /\ rule' = [rule EXCEPT !.started = TRUE]
    /\ pos' = Skip(text, p)
    /\ status' = "CR_OK"
    /\ pc' = "first"
    /\ UNCHANGED <<text, media>>

StartSelector ==
    /\ pc = "ruleset"
    /\ LET r == Selector(text, pos)
       IN  CASE r.status # "CR_OK"       -> Fail("CR_PARSING_ERROR")
             [] At(text, r.pos) = "{"    -> Started("start_selector", r.pos + 1)
             [] At(text, r.pos) = NoMore -> Fail(NoMore)
             [] OTHER                    -> Fail("CR_PARSING_ERROR")

StartPage ==
    /\ pc = "page"
    /\ LET r == PagePrelude(text, pos)
       IN  IF r.status = "CR_OK" THEN Started("start_page", r.pos) ELSE Fail(r.status)

StartFontFace ==
    /\ pc = "font_face"
    /\ LET r == FontFacePrelude(text, pos)
       IN  IF r.status = "CR_OK" THEN Started("start_font_face", r.pos)
           ELSE Fail(r.status)

Declared(label, d, p) ==
    /\ IF d.status = "CR_OK" THEN Call("property", p) ELSE Silent
    /\ pos' = d.pos
    /\ pc' = label
    /\ UNCHANGED <<text, media, rule>>

\* The first declaration.  In a ruleset its failure is replaced by the status of
\* the peek for a closing brace.
FirstDeclaration ==
    /\ pc = "first"
    /\ LET d == Declaration(text, pos)
       IN  CASE d.status = "CR_OK" -> status' = "CR_OK" /\ Declared("next", d, pos)
             [] d.status # "CR_OK" /\ rule.fn = "selector" ->
                   IF Here = NoMore THEN Fail("CR_PARSING_ERROR")
                   ELSE status' = "CR_OK" /\ Declared("next", d, pos)
             [] d.status # "CR_OK" /\ rule.fn = "page" -> Fail("CR_PARSING_ERROR")
             [] d.status # "CR_OK" /\ rule.fn = "font_face" ->
                   status' = d.status /\ Declared("next", d, pos)

\* The loop over the others.  At the end of the input, PEEK_NEXT_CHAR goes to
\* "error" with whatever status the routine had.
NextDeclaration ==
    /\ pc = "next"
    /\ LET p == Skip(text, pos + 1)
           d == Declaration(text, p)
       IN  CASE Here = ";" ->
                   /\ status' = d.status
                   /\ Declared(IF d.status = "CR_OK" \/ rule.fn = "selector"
                               THEN "next" ELSE "end", d, p)
             [] Here = NoMore -> Fail(IF rule.fn = "page" THEN "CR_PARSING_ERROR"
                                      ELSE status)
             [] OTHER -> /\ pc' = "end"
                         /\ Silent
                         /\ UNCHANGED <<text, pos, media, rule, status>>

EndOf(fn) == CASE fn = "selector"  -> "end_selector"
               [] fn = "page"      -> "end_page"
               [] fn = "font_face" -> "end_font_face"

EndRule ==
    /\ pc = "end"
    /\ LET p == Skip(text, pos)
       IN  CASE At(text, p) = "}" ->
                   /\ Call(EndOf(rule.fn), rule.from)
                   /\ rule' = [rule EXCEPT !.started = FALSE]
                   /\ pos' = IF rule.fn = "selector" THEN p + 1 ELSE Skip(text, p + 1)
                   /\ status' = "CR_OK"
                   /\ pc' = "return"
                   /\ UNCHANGED <<text, media>>
             [] At(text, p) = NoMore /\ rule.fn # "page" -> Fail(NoMore)
             [] OTHER -> Fail("CR_PARSING_ERROR")

-----------------------------------------------------------------------------
(* parse_media, around the rulesets it calls parse_ruleset for. *)

FailMedia(s) ==
    /\ pos' = media.from
    /\ status' = s
    /\ pc' = "return"
    /\ rule' = NoFrame
    /\ Silent
    /\ UNCHANGED <<text, media>>

\* As for @import, CR_OK without progress is the end of the input.
StartMedia ==
    /\ pc = "media"
    /\ LET r == MediaPrelude(text, pos)
           p == Skip(text, r.pos)
       IN  IF r.status = "CR_OK" /\ r.pos > pos
           THEN /\ Call("start_media", media.from)
                /\ media' = [media EXCEPT !.started = TRUE]
                /\ EnterRule("selector", p)
                /\ pos' = p
                /\ status' = "CR_OK"
                /\ pc' = "ruleset"
                /\ UNCHANGED text
           ELSE FailMedia(r.status)

\* parse_ruleset has returned to parse_media.
NextInMedia ==
    /\ pc = "return" /\ media.fn = "media" /\ rule.fn = "selector"
    /\ LET p == Skip(text, pos)
       IN  /\ pos' = p
           /\ IF status = "CR_OK"
              THEN pc' = "ruleset" /\ EnterRule("selector", p)
              ELSE pc' = "end_media" /\ rule' = NoFrame
    /\ Silent
    /\ UNCHANGED <<text, media, status>>

EndMedia ==
    /\ pc = "end_media"
    /\ CASE Here = "}" ->
               /\ Call("end_media", media.from)
               /\ media' = [media EXCEPT !.started = FALSE]
               /\ pos' = Skip(text, pos + 1)
               /\ status' = "CR_OK"
               /\ pc' = "return"
               /\ UNCHANGED <<text, rule>>
         [] Here = NoMore -> FailMedia(NoMore)
         [] OTHER -> FailMedia("CR_PARSING_ERROR")

-----------------------------------------------------------------------------
Next == \/ StartDocument \/ CharsetStatement \/ SkipCDO \/ ImportStatement
        \/ RecoverImport \/ SkipCDOAfterImport \/ EndOfImports
        \/ NextStatement \/ Returned \/ Recover \/ EndDocument \/ GiveUp
        \/ StartSelector \/ StartPage \/ StartFontFace
        \/ FirstDeclaration \/ NextDeclaration \/ EndRule
        \/ StartMedia \/ NextInMedia \/ EndMedia

\* The parser runs in one thread and waits for nothing.
Spec == Init /\ [][Next]_vars /\ WF_vars(Next)

-----------------------------------------------------------------------------
Calls == {"none", "start_document", "end_document", "unrecoverable_error",
          "error", "charset", "import_style", "property",
          "start_selector", "end_selector", "start_media", "end_media",
          "start_page", "end_page", "start_font_face", "end_font_face"}

Labels == {"start", "charset", "skip_cdo", "imports", "recover_import", "rules",
           "ruleset", "page", "font_face", "media", "first", "next", "end",
           "end_media", "return", "recover_ruleset", "recover_atrule",
           "done", "error", "finished", "failed"}

Places == 0..Len(text)
Frames(fns) == [fn: fns, from: Places, started: BOOLEAN]
Rules == {"selector", "page", "font_face"}

\* Type invariant.
TypeOK ==
    /\ text \in Seq(Tokens)
    /\ pos \in Places
    /\ pc \in Labels
    /\ media \in Frames({"none", "media"})
    /\ rule \in Frames({"none"} \cup Rules)
    /\ status \in Statuses
    /\ sac \in [call: Calls, at: Places]

\* The handler is called in the order cr-doc-handler.h announces: a rule that
\* was started is ended or dropped before anything else begins beside it.
OpenMedia == [kind |-> "media", at |-> media.from]
OpenRule  == [kind |-> rule.fn, at |-> rule.from]
OpenRules == CASE media.started /\ rule.started  -> <<OpenMedia, OpenRule>>
               [] media.started /\ ~rule.started -> <<OpenMedia>>
               [] ~media.started /\ rule.started -> <<OpenRule>>
               [] OTHER                          -> <<>>

Phase == CASE pc = "start"                  -> "before"
           [] pc = "charset"                -> "charset"
           [] pc \in {"skip_cdo", "imports", "recover_import", "error"} -> "imports"
           [] pc \in {"finished", "failed"} -> "after"
           [] OTHER                         -> "rules"

Protocol == INSTANCE SacProtocol
               WITH open  <- OpenRules,
                    phase <- Phase

ImplementsSacProtocol == Protocol!Spec

Depth(p) == DepthIn(text, p)

\* However a statement was read, or skipped by the core grammar after an error,
\* parsing goes on outside every block, or directly inside the @media block that
\* is open: recovery never resumes in the middle of what it skips.
ResumesBetweenStatements ==
    /\ pc = "rules" => Depth(pos) = 0
    /\ pc = "ruleset" => Depth(pos) = IF media.fn = "media" THEN 1 ELSE 0

\* A document is parsed to an end.
Terminates == <>(pc \in {"finished", "failed"})

=============================================================================
