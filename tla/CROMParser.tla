----------------------------- MODULE CROMParser -----------------------------
(***************************************************************************)
(* CROMParser (cr-om-parser.c): the document handler that builds a         *)
(* CRStyleSheet, called back by the parser.  A statement is known by its   *)
(* kind and the place it was read from.                                    *)
(***************************************************************************)
EXTENDS CRParser

CONSTANTS NoStmt, NoContext, NoSheet

Kinds    == {"selector", "media", "page", "font_face", "charset", "import"}
Rulesets == [kind: Kinds, at: Nat, decls: Seq(Nat), rules: {<<>>}]
Stmts    == [kind: Kinds, at: Nat, decls: Seq(Nat), rules: Seq(Rulesets)]
Contexts == [sheet: Seq(Stmts), cur: Rulesets \cup {NoStmt}, media: Stmts \cup {NoStmt}]

ASSUME OMAssumption ==
    NoStmt \notin Stmts /\ NoContext \notin Contexts /\ NoSheet \notin Seq(Stmts)

VARIABLES ctxt,      \* the ParsingContext the handler holds
          result,    \* the handler's result: a list of statements
          refused    \* whether a g_return_if_fail of a handler has failed

omVars == <<text, pos, pc, media, rule, status, sac, ctxt, result, refused>>

Stmt(kind, p) == [kind |-> kind, at |-> p, decls |-> <<>>, rules |-> <<>>]

Context == [sheet |-> <<>>, cur |-> NoStmt, media |-> NoStmt]

OMInit == Init /\ ctxt = NoContext /\ result = NoSheet /\ refused = FALSE

-----------------------------------------------------------------------------
(* The handlers.  Each starts with the conditions its g_return_if_fail lines *)
(* state; where they fail it does nothing.                                   *)

Called(f) == sac'.call = f

Expect(condition, update) ==
    /\ IF ctxt # NoContext /\ condition THEN update
       ELSE refused' = TRUE /\ UNCHANGED ctxt
    /\ UNCHANGED result

Set(c) == ctxt' = c /\ UNCHANGED refused

start_document ==
    /\ Called("start_document")
    /\ Set(Context)
    /\ UNCHANGED result

\* start_font_face and start_page
StartBlock(f, kind) ==
    /\ Called(f)
    /\ Expect(ctxt.cur = NoStmt, Set([ctxt EXCEPT !.cur = Stmt(kind, sac'.at)]))

\* end_font_face and end_page
EndBlock(f, kind) ==
    /\ Called(f)
    /\ Expect(ctxt.cur # NoStmt /\ ctxt.cur.kind = kind,
              Set([ctxt EXCEPT !.sheet = Append(@, ctxt.cur), !.cur = NoStmt]))

start_media ==
    /\ Called("start_media")
    /\ Expect(ctxt.cur = NoStmt /\ ctxt.media = NoStmt,
              Set([ctxt EXCEPT !.media = Stmt("media", sac'.at)]))

\* Mutant: the wrong statement is kept.
end_mediaOfCurrent ==
    /\ Called("end_media")
    /\ Expect(ctxt.media # NoStmt,
              Set([ctxt EXCEPT !.sheet = Append(@, ctxt.cur),
                               !.cur = NoStmt, !.media = NoStmt]))

end_media ==
    /\ Called("end_media")
    /\ Expect(ctxt.media # NoStmt,
              Set([ctxt EXCEPT !.sheet = Append(@, ctxt.media),
                               !.cur = NoStmt, !.media = NoStmt]))

\* A ruleset appended to the list of an @media rule.
WithRuleset(m, r) == [m EXCEPT !.rules = Append(@, r)]

\* A statement that is still there is destroyed.
start_selector ==
    /\ Called("start_selector")
    /\ Expect(TRUE, Set([ctxt EXCEPT !.cur = Stmt("selector", sac'.at)]))

\* Mutants: the @media rule around a ruleset is overlooked; the ruleset stays the
\* current statement.
end_selectorAtTop ==
    /\ Called("end_selector")
    /\ Expect(ctxt.cur # NoStmt,
              Set([ctxt EXCEPT !.sheet = Append(@, ctxt.cur), !.cur = NoStmt]))
end_selectorUnreset ==
    /\ Called("end_selector")
    /\ Expect(ctxt.cur # NoStmt,
              Set(IF ctxt.media # NoStmt
                  THEN [ctxt EXCEPT !.media = WithRuleset(@, ctxt.cur)]
                  ELSE [ctxt EXCEPT !.sheet = Append(@, ctxt.cur)]))

end_selector ==
    /\ Called("end_selector")
    /\ Expect(ctxt.cur # NoStmt,
              Set(IF ctxt.media # NoStmt
                  THEN [ctxt EXCEPT !.media = WithRuleset(@, ctxt.cur), !.cur = NoStmt]
                  ELSE [ctxt EXCEPT !.sheet = Append(@, ctxt.cur), !.cur = NoStmt]))

property ==
    /\ Called("property")
    /\ Expect(ctxt.cur # NoStmt /\ ctxt.cur.kind \in {"selector", "font_face", "page"},
              Set([ctxt EXCEPT !.cur.decls = Append(@, sac'.at)]))

charset ==
    /\ Called("charset")
    /\ Expect(TRUE, Set([ctxt EXCEPT !.sheet = Append(@, Stmt("charset", sac'.at))]))

\* The branch for an import inside a statement is never taken: imports are read
\* before every other rule.
import_style ==
    /\ Called("import_style")
    /\ Expect(ctxt.cur = NoStmt,
              Set([ctxt EXCEPT !.sheet = Append(@, Stmt("import", sac'.at))]))

\* Mutant: the statement that failed is kept.
errorKeepingStatement == Called("error") /\ UNCHANGED <<ctxt, result, refused>>

\* The statement being built is destroyed, the @media rule around it is not.
error ==
    /\ Called("error")
    /\ Expect(TRUE, Set([ctxt EXCEPT !.cur = NoStmt]))

\* With a statement that is still open the context is freed, but the handler
\* keeps it.
end_document ==
    /\ Called("end_document")
    /\ IF ctxt # NoContext /\ ctxt.cur = NoStmt
       THEN /\ result' = ctxt.sheet
            /\ ctxt' = NoContext
            /\ UNCHANGED refused
       ELSE refused' = TRUE /\ UNCHANGED <<ctxt, result>>

unrecoverable_error ==
    /\ Called("unrecoverable_error")
    /\ IF ctxt # NoContext THEN result' = ctxt.sheet ELSE UNCHANGED result
    /\ ctxt' = NoContext
    /\ UNCHANGED refused

NotCalled == Called("none") /\ UNCHANGED <<ctxt, result, refused>>

Handle == \/ start_document \/ end_document \/ unrecoverable_error \/ error
          \/ charset \/ import_style \/ start_media \/ end_media
          \/ start_selector \/ end_selector \/ property \/ NotCalled
          \/ StartBlock("start_page", "page") \/ EndBlock("end_page", "page")
          \/ StartBlock("start_font_face", "font_face")
          \/ EndBlock("end_font_face", "font_face")

OMNext == Next /\ Handle

OMSpec == OMInit /\ [][OMNext]_omVars

\* The parser is code that runs on.
OMFairSpec == OMSpec /\ WF_omVars(OMNext)

-----------------------------------------------------------------------------
\* Type invariant of the handler's state.
OMTypeOK ==
    /\ ctxt \in Contexts \cup {NoContext}
    /\ result \in Seq(Stmts) \cup {NoSheet}
    /\ refused \in BOOLEAN

Opened(stmt) == IF stmt = NoStmt THEN <<>> ELSE <<stmt>>

\* The statement under construction is the rule the parser is in: a property is
\* never added to another one, and end_document never finds one left.
CurrentStatementIsOpenRule ==
    ctxt # NoContext =>
        IF rule.started
        THEN /\ ctxt.cur # NoStmt
             /\ ctxt.cur.kind = rule.fn /\ ctxt.cur.at = rule.from
        ELSE ctxt.cur = NoStmt

\* Every statement has one owner: the sheet, an @media rule of the sheet, or one
\* of the two fields of the context.  Freeing the owners frees it once.
Owned(s) == UNION {{<<s[i].at, i, 0>>} \cup {<<s[i].rules[j].at, i, j>> :
                       j \in DOMAIN s[i].rules} : i \in DOMAIN s}

OneOwner ==
    ctxt # NoContext =>
        LET places == Owned(ctxt.sheet \o Opened(ctxt.media) \o Opened(ctxt.cur))
        IN  \A x, y \in places : x[1] = y[1] => x = y

\* The statements under construction, outermost first, and those that are complete.
OpenStmts  == IF ctxt = NoContext THEN <<>> ELSE Opened(ctxt.media) \o Opened(ctxt.cur)
SheetSoFar == IF ctxt # NoContext THEN ctxt.sheet
              ELSE IF result # NoSheet THEN result ELSE <<>>

\* The sheet that is delivered is the rules the parser has read, in their order
\* and each in the @media rule it stands in.
Sheet == INSTANCE RuleSheet WITH open <- OpenStmts, sheet <- SheetSoFar

ImplementsRuleSheet == Sheet!Spec

\* The @media rule the handler keeps is the one the parser is in.  This is so until
\* an @media rule fails.
MediaInStep == ctxt # NoContext /\ ctxt.media # NoStmt => media.started

\* As long as it is, every call changes the sheet as a handler should, and no
\* handler meets a call it refuses.
SheetFollowsRules ==
    [][MediaInStep /\ MediaInStep' => [Sheet!Next]_(Sheet!sheetVars) /\ refused' = refused]_omVars
=============================================================================
