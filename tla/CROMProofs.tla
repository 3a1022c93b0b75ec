----------------------------- MODULE CROMProofs -----------------------------
(***************************************************************************)
(* The document handler of CROMParser builds the rule the parser is in.    *)
(***************************************************************************)
EXTENDS CROMParser, CRParserProofs

LEMMA RulesetsAreStatements == Rulesets \subseteq Stmts
<1> SUFFICES ASSUME NEW r \in Rulesets PROVE r \in Stmts
  OBVIOUS
<1>1. <<>> \in Seq(Rulesets)
  OBVIOUS
<1> QED
  BY <1>1 DEF Rulesets, Stmts

LEMMA WithDeclaration ==
    ASSUME NEW r \in Rulesets, NEW n \in Nat
    PROVE  [r EXCEPT !.decls = Append(@, n)] \in Rulesets
<1>1. Append(r.decls, n) \in Seq(Nat)
  BY DEF Rulesets
<1> QED
  BY <1>1 DEF Rulesets

LEMMA RulesetAdded ==
    ASSUME NEW m \in Stmts, NEW r \in Rulesets
    PROVE  WithRuleset(m, r) \in Stmts
<1>1. m.rules \in Seq(Rulesets)
  BY DEF Stmts
<1>2. Append(m.rules, r) \in Seq(Rulesets)
  BY <1>1
<1> QED
  BY <1>2 DEF Stmts, WithRuleset

LEMMA NewStatement ==
    ASSUME NEW kind \in Kinds, NEW n \in Nat
    PROVE  Stmt(kind, n) \in Rulesets /\ Stmt(kind, n) # NoStmt
<1>1. Stmt(kind, n) \in Rulesets
  BY DEF Stmt, Rulesets
<1> QED
  BY <1>1, OMAssumption, RulesetsAreStatements

-----------------------------------------------------------------------------
(* Type correctness of the handler's state.                                  *)

LEMMA InitialOMTypes == OMInit => OMTypeOK
  BY DEF OMInit, OMTypeOK

\* The parser is itself typed, so that what the handler is told of is typed.  Only
\* the end of a document takes the context away.
Closing == Called("end_document") \/ Called("unrecoverable_error")

LEMMA OMTypesPreserved ==
    ASSUME TInv', OMTypeOK, Handle
    PROVE  /\ OMTypeOK'
           /\ ctxt \in Contexts /\ ~Closing => ctxt' \in Contexts
<1>1. sac'.at \in Nat
  <2>1. Len(text') \in Nat
    BY DEF TInv, TypeOK
  <2> QED
    BY <2>1 DEF TInv, TypeOK, Places
<1>2. \A kind \in Kinds : Stmt(kind, sac'.at) \in Rulesets
  BY <1>1, NewStatement
<1>3. ASSUME ctxt # NoContext
      PROVE  /\ ctxt.sheet \in Seq(Stmts)
             /\ ctxt.cur \in Rulesets \cup {NoStmt} /\ ctxt.media \in Stmts \cup {NoStmt}
             /\ \A s \in Stmts : Append(ctxt.sheet, s) \in Seq(Stmts)
  BY <1>3 DEF OMTypeOK, Contexts
<1>4. ASSUME ctxt # NoContext
      PROVE  /\ \A c \in Rulesets \cup {NoStmt} : [ctxt EXCEPT !.cur = c] \in Contexts
             /\ \A m \in Stmts \cup {NoStmt} : [ctxt EXCEPT !.media = m] \in Contexts
             /\ \A s \in Seq(Stmts) : [ctxt EXCEPT !.sheet = s] \in Contexts
  BY <1>4 DEF OMTypeOK, Contexts
<1>5. \A s \in Rulesets : s \in Stmts
  BY RulesetsAreStatements
<1>6. ASSUME ctxt # NoContext
      PROVE  /\ \A s \in Seq(Stmts) : [ctxt EXCEPT !.sheet = s, !.cur = NoStmt] \in Contexts
             /\ \A m \in Stmts : [ctxt EXCEPT !.media = m, !.cur = NoStmt] \in Contexts
             /\ \A s \in Seq(Stmts) :
                  [ctxt EXCEPT !.sheet = s, !.cur = NoStmt, !.media = NoStmt] \in Contexts
  BY <1>6 DEF OMTypeOK, Contexts
<1>7. \/ ctxt' \in Contexts
      \/ ctxt' = NoContext /\ (ctxt = NoContext \/ Closing)
  <2>1. CASE start_document
    BY <2>1 DEF start_document, Set, Context, Contexts
  <2>2. CASE end_document \/ unrecoverable_error \/ NotCalled
    BY <2>2 DEF end_document, unrecoverable_error, NotCalled, OMTypeOK, Closing
  <2>3. CASE ctxt' = ctxt
    BY <2>3 DEF OMTypeOK
  <2>4. CASE /\ ctxt # NoContext
             /\ \E c \in Rulesets \cup {NoStmt} : ctxt' = [ctxt EXCEPT !.cur = c]
    BY <1>4, <2>4
  <2>5. CASE error \/ start_selector
    BY <1>2, <2>3, <2>4, <2>5 DEF error, start_selector, Expect, Set, Kinds
  <2>6. CASE \/ StartBlock("start_page", "page")
             \/ StartBlock("start_font_face", "font_face")
    BY <1>2, <2>3, <2>4, <2>6 DEF StartBlock, Expect, Set, Kinds
  <2>7. CASE property
    <3>1. CASE ctxt # NoContext /\ ctxt.cur # NoStmt
      BY <1>1, <1>3, <1>4, <2>3, <2>7, <3>1, WithDeclaration
      DEF property, Expect, Set
    <3>2. CASE ~(ctxt # NoContext /\ ctxt.cur # NoStmt)
      BY <2>3, <2>7, <3>2 DEF property, Expect
    <3> QED
      BY <3>1, <3>2
  <2>8. CASE charset \/ import_style
    <3> DEFINE kinds == {"charset", "import"}
    <3>1. CASE /\ ctxt # NoContext
               /\ \E kind \in kinds : ctxt' =
                     [ctxt EXCEPT !.sheet = Append(@, Stmt(kind, sac'.at))]
      BY <1>2, <1>3, <1>4, <1>5, <3>1 DEF Kinds
    <3> QED
      BY <2>3, <2>8, <3>1 DEF charset, import_style, Expect, Set
  <2>9. CASE start_media
    BY <1>2, <1>4, <1>5, <2>3, <2>9 DEF start_media, Expect, Set, Kinds
  <2>10. CASE \/ EndBlock("end_page", "page")
              \/ EndBlock("end_font_face", "font_face")
    <3>1. CASE ctxt # NoContext /\ ctxt.cur # NoStmt
      <4>1. Append(ctxt.sheet, ctxt.cur) \in Seq(Stmts)
        BY <1>3, <1>5, <3>1
      <4>2. [ctxt EXCEPT !.sheet = Append(ctxt.sheet, ctxt.cur), !.cur = NoStmt]
               \in Contexts
        BY <1>6, <3>1, <4>1
      <4> QED
        BY <2>3, <2>10, <3>1, <4>2 DEF EndBlock, Expect, Set
    <3>2. CASE ~(ctxt # NoContext /\ ctxt.cur # NoStmt)
      BY <2>3, <2>10, <3>2 DEF EndBlock, Expect
    <3> QED
      BY <3>1, <3>2
  <2>11. CASE end_media
    <3>1. CASE ctxt # NoContext /\ ctxt.media # NoStmt
      <4>1. Append(ctxt.sheet, ctxt.media) \in Seq(Stmts)
        BY <1>3, <3>1
      <4>2. [ctxt EXCEPT !.sheet = Append(ctxt.sheet, ctxt.media), !.cur = NoStmt,
                         !.media = NoStmt] \in Contexts
        BY <1>6, <3>1, <4>1
      <4> QED
        BY <2>11, <3>1, <4>2 DEF end_media, Expect, Set
    <3>2. CASE ~(ctxt # NoContext /\ ctxt.media # NoStmt)
      BY <2>3, <2>11, <3>2 DEF end_media, Expect
    <3> QED
      BY <3>1, <3>2
  <2>12. CASE end_selector
    <3>1. CASE ~(ctxt # NoContext /\ ctxt.cur # NoStmt)
      BY <2>3, <2>12, <3>1 DEF end_selector, Expect
    <3>2. CASE ctxt # NoContext /\ ctxt.cur # NoStmt /\ ctxt.media = NoStmt
      <4>1. Append(ctxt.sheet, ctxt.cur) \in Seq(Stmts)
        BY <1>3, <1>5, <3>2
      <4>2. [ctxt EXCEPT !.sheet = Append(ctxt.sheet, ctxt.cur), !.cur = NoStmt]
               \in Contexts
        BY <1>6, <3>2, <4>1
      <4> QED
        BY <2>12, <3>2, <4>2 DEF end_selector, Expect, Set
    <3>3. CASE ctxt # NoContext /\ ctxt.cur # NoStmt /\ ctxt.media # NoStmt
      <4> DEFINE m == WithRuleset(ctxt.media, ctxt.cur)
      <4>1. m \in Stmts
        BY <1>3, <3>3, RulesetAdded
      <4>2. [ctxt EXCEPT !.media = m, !.cur = NoStmt] \in Contexts
        BY <1>6, <3>3, <4>1
      <4>3. ctxt' = [ctxt EXCEPT !.media = m, !.cur = NoStmt]
        BY <2>12, <3>3 DEF end_selector, Expect, Set
      <4> QED
        BY <4>2, <4>3
    <3> QED
      BY <3>1, <3>2, <3>3
  <2> QED
    BY <2>1, <2>2, <2>5, <2>6, <2>7, <2>8, <2>9, <2>10, <2>11, <2>12 DEF Handle
<1>8. result' \in Seq(Stmts) \cup {NoSheet}
  <2>1. CASE end_document \/ unrecoverable_error
    BY <1>3, <2>1 DEF end_document, unrecoverable_error, OMTypeOK
  <2>2. CASE ~(end_document \/ unrecoverable_error)
    <3>1. result' = result
      BY <2>2 DEF Handle, start_document, NotCalled, error, start_selector, end_selector,
         StartBlock, EndBlock, start_media, end_media, property, charset, import_style,
         Expect
    <3> QED
      BY <3>1 DEF OMTypeOK
  <2> QED
    BY <2>1, <2>2
<1>9. refused' \in BOOLEAN
  BY DEF Handle, start_document, end_document, unrecoverable_error, NotCalled, error,
     start_selector, end_selector, StartBlock, EndBlock, start_media, end_media, property,
     charset, import_style, Expect, Set, OMTypeOK
<1> QED
  BY <1>7, <1>8, <1>9, OMAssumption DEF OMTypeOK

\* Type correctness of the sheet that is built, for every parser and text.
THEOREM OMTypeCorrect == OMSpec => []OMTypeOK
<1>1. OMInit => TInv /\ OMTypeOK
  BY InitialTypes, InitialOMTypes DEF OMInit
<1>2. TInv /\ OMTypeOK /\ [OMNext]_omVars => TInv' /\ OMTypeOK'
  <2>1. TInv /\ OMTypeOK /\ OMNext => TInv' /\ OMTypeOK'
    BY TypesPreserved, OMTypesPreserved DEF OMNext
  <2>2. TInv /\ OMTypeOK /\ UNCHANGED omVars => TInv' /\ OMTypeOK'
    <3>1. UNCHANGED omVars => UNCHANGED vars
      BY DEF omVars, vars
    <3> QED
      BY <3>1, TypesPreserved DEF omVars, OMTypeOK
  <2> QED
    BY <2>1, <2>2
<1> QED
  BY <1>1, <1>2, PTL DEF OMSpec

-----------------------------------------------------------------------------
(* What the parser's steps do to the rule that is open, by the call they     *)
(* make.                                                                     *)

SameRule == /\ rule'.started <=> rule.started
            /\ rule.started => rule'.fn = rule.fn /\ rule'.from = rule.from

Beginning == pc = "start" /\ pc' = "charset" /\ Called("start_document")

Ending == /\ pc \notin {"start", "finished", "failed"} /\ pc' \in {"finished", "failed"}
          /\ Called("end_document") \/ Called("unrecoverable_error")

Outside == {"start", "finished", "failed"}

RuleStep ==
    \/ Beginning /\ SameRule
    \/ Ending /\ ~rule.started /\ SameRule
    \/ /\ pc \notin Outside /\ pc' \notin Outside
       /\ \/ Called("none") /\ SameRule
          \/ sac'.call \in {"charset", "import_style"} /\ SameRule
          \/ sac'.call \in {"start_media", "end_media"} /\ ~rule.started /\ SameRule
          \/ Called("property") /\ rule.started /\ rule.fn \in Rules /\ SameRule
          \/ Called("error") /\ ~rule'.started
          \/ /\ ~rule.started /\ rule'.started /\ rule'.fn \in Rules
             /\ sac' = [call |-> StartOf(rule'.fn), at |-> rule'.from]
          \/ /\ rule.started /\ ~rule'.started /\ rule.fn \in Rules
             /\ Called(EndOf(rule.fn))

LEMMA Unmoved == rule' = rule => SameRule
  BY DEF SameRule

LEMMA FailRule ==
    ASSUME TInv, pc \in RuleLabels, NEW s, Fail(s)
    PROVE  RuleStep
<1>1. pc \notin Outside /\ pc' \notin Outside
  BY DEF Fail, Outside, RuleLabels
<1>2. CASE rule.fn = "selector" /\ rule.started
  BY <1>1, <1>2 DEF Fail, Call, RuleStep, Called, TInv, TypeOK, Frames
<1>3. CASE ~(rule.fn = "selector" /\ rule.started)
  BY <1>1, <1>3, Unmoved DEF Fail, Silent, NoCall, RuleStep, Called
<1> QED
  BY <1>2, <1>3

LEMMA StartedRule ==
    ASSUME TInv, Control, pc \in {"ruleset", "page", "font_face"}, NEW p,
           Started(StartOf(rule.fn), p)
    PROVE  RuleStep
<1>1. pc \notin Outside /\ pc' \notin Outside /\ ~rule.started /\ rule.fn \in Rules
  BY DEF Started, Outside, Control, RuleControl, TInv, TypeOK, Frames, InRule, RuleLabels
<1>2. /\ rule'.started /\ rule'.fn = rule.fn /\ rule'.from = rule.from
      /\ sac' = [call |-> StartOf(rule.fn), at |-> rule.from]
  BY DEF Started, Call, TInv, TypeOK, Frames
<1> QED
  BY <1>1, <1>2 DEF RuleStep

LEMMA DeclaredRule ==
    ASSUME TInv, Control, pc \in {"first", "next"}, NEW l \in {"next", "end"},
           NEW d, NEW p, Declared(l, d, p)
    PROVE  RuleStep
<1>1. /\ pc \notin Outside /\ pc' \notin Outside /\ SameRule
      /\ rule.started /\ rule.fn \in Rules
  BY Unmoved DEF Declared, Outside, Control, RuleControl, TInv, TypeOK, Frames, InRule,
     RuleLabels
<1> QED
  BY <1>1 DEF Declared, Call, Silent, NoCall, RuleStep, Called

LEMMA FailMediaRule ==
    ASSUME Control, pc \in {"media", "end_media"}, NEW s, FailMedia(s)
    PROVE  RuleStep
<1>1. /\ pc \notin Outside /\ pc' \notin Outside /\ Called("none")
      /\ ~rule.started /\ ~rule'.started
  BY DEF FailMedia, NoFrame, Silent, NoCall, Called, Outside, Control, RuleControl,
         MediaControl
<1> QED
  BY <1>1 DEF RuleStep, SameRule

LEMMA RuleSteps ==
    ASSUME TInv, Control, Next
    PROVE  RuleStep
<1> USE DEF Outside
<1>1. CASE StartDocument
  BY <1>1, Unmoved DEF StartDocument, Leave, Call, RuleStep, Beginning, Called
<1>2. CASE CharsetStatement \/ ImportStatement
  <2>1. /\ ~rule.started /\ rule' = rule
        /\ pc \notin Outside /\ pc' \notin Outside
        /\ sac'.call \in {"none", "charset", "import_style", "error"}
    BY <1>2 DEF CharsetStatement, ImportStatement, Leave, Call, Silent, NoCall, Control,
       RuleControl
  <2> QED
    BY <2>1, Unmoved DEF RuleStep, Called
<1>3. CASE SkipCDO \/ RecoverImport \/ SkipCDOAfterImport \/ EndOfImports \/ Recover
  <2>1. /\ rule' = rule /\ Called("none")
        /\ pc \notin Outside /\ pc' \notin Outside
    BY <1>3 DEF SkipCDO, RecoverImport, SkipCDOAfterImport, EndOfImports, Recover, Leave,
       Silent, NoCall, Called
  <2> QED
    BY <2>1, Unmoved DEF RuleStep
<1>4. CASE NextStatement \/ NextInMedia
  <2>1. /\ ~rule.started /\ ~rule'.started /\ Called("none")
        /\ pc \notin Outside /\ pc' \notin Outside
    BY <1>4 DEF NextStatement, NextInMedia, EnterRule, Frame, NoFrame, Silent, NoCall,
       Called, Control, RuleControl, MediaControl, RuleLabels
  <2> QED
    BY <2>1 DEF RuleStep, SameRule
<1>5. CASE Returned
  <2>1. pc \notin Outside /\ pc' \notin Outside /\ ~rule'.started
    BY <1>5 DEF Returned, NoFrame
  <2>2. CASE status = "CR_OK"
    BY <1>5, <2>1, <2>2 DEF Returned, Silent, NoCall, Called, RuleStep, SameRule, Control,
       RuleControl
  <2>3. CASE status # "CR_OK"
    BY <1>5, <2>1, <2>3 DEF Returned, Call, Called, RuleStep
  <2> QED
    BY <2>2, <2>3
<1>6. CASE EndDocument \/ GiveUp
  <2>1. /\ rule' = rule /\ ~rule.started
        /\ pc \in {"done", "error"} /\ pc' \in {"finished", "failed"}
        /\ sac'.call \in {"end_document", "unrecoverable_error"}
    BY <1>6 DEF EndDocument, GiveUp, Leave, Call, Control, RuleControl
  <2> QED
    BY <2>1, Unmoved DEF RuleStep, Ending, Called
<1>7. CASE StartSelector
  <2>1. pc = "ruleset" /\ rule.fn = "selector"
    BY <1>7 DEF StartSelector, Control, RuleControl
  <2>2. (\E s : Fail(s)) \/ \E p : Started(StartOf(rule.fn), p)
    BY <1>7, <2>1 DEF StartSelector, StartOf
  <2> QED
    BY <2>1, <2>2, FailRule, StartedRule DEF RuleLabels
<1>8. CASE StartPage
  <2>1. pc = "page" /\ rule.fn = "page"
    BY <1>8 DEF StartPage, Control, RuleControl
  <2>2. (\E s : Fail(s)) \/ \E p : Started(StartOf(rule.fn), p)
    BY <1>8, <2>1 DEF StartPage, StartOf
  <2> QED
    BY <2>1, <2>2, FailRule, StartedRule DEF RuleLabels
<1>9. CASE StartFontFace
  <2>1. pc = "font_face" /\ rule.fn = "font_face"
    BY <1>9 DEF StartFontFace, Control, RuleControl
  <2>2. (\E s : Fail(s)) \/ \E p : Started(StartOf(rule.fn), p)
    BY <1>9, <2>1 DEF StartFontFace, StartOf
  <2> QED
    BY <2>1, <2>2, FailRule, StartedRule DEF RuleLabels
<1>10. CASE FirstDeclaration
  <2>1. pc = "first" /\ rule.fn \in Rules
    BY <1>10 DEF FirstDeclaration, TInv, TypeOK, InRule, RuleLabels, Frames
  <2>2. (\E s : Fail(s)) \/ Declared("next", Declaration(text, pos), pos)
    BY <1>10, <2>1 DEF FirstDeclaration, Rules
  <2> QED
    BY <2>1, <2>2, FailRule, DeclaredRule DEF RuleLabels
<1>11. CASE NextDeclaration
  <2> DEFINE p == Skip(text, pos + 1)
  <2>1. pc = "next"
    BY <1>11 DEF NextDeclaration
  <2>2. \/ \E l \in {"next", "end"} : Declared(l, Declaration(text, p), p)
        \/ \E s : Fail(s)
        \/ pc' = "end" /\ Silent /\ rule' = rule
    BY <1>11 DEF NextDeclaration
  <2>3. CASE pc' = "end" /\ Silent /\ rule' = rule
    BY <2>1, <2>3, Unmoved DEF RuleStep, Silent, NoCall, Called
  <2> QED
    BY <2>1, <2>2, <2>3, FailRule, DeclaredRule DEF RuleLabels
<1>12. CASE EndRule
  <2>1. pc = "end" /\ rule.started /\ rule.fn \in Rules
    BY <1>12 DEF EndRule, Control, RuleControl, TInv, TypeOK, Frames, InRule, RuleLabels
  <2>2. CASE \E s : Fail(s)
    BY <2>1, <2>2, FailRule DEF RuleLabels
  <2>3. CASE /\ Call(EndOf(rule.fn), rule.from) /\ pc' = "return"
             /\ rule' = [rule EXCEPT !.started = FALSE]
    BY <2>1, <2>3 DEF Call, Called, RuleStep, TInv, TypeOK, Frames
  <2> QED
    BY <1>12, <2>2, <2>3 DEF EndRule
<1>13. CASE StartMedia
  <2>1. pc = "media" /\ ~rule.started
    BY <1>13 DEF StartMedia, Control, RuleControl, MediaControl
  <2> DEFINE r == MediaPrelude(text, pos)
             begun == r.status = "CR_OK" /\ r.pos > pos
  <2>2. CASE ~begun
    BY <1>13, <2>1, <2>2, FailMediaRule DEF StartMedia
  <2>3. CASE begun
    <3>1. Called("start_media") /\ ~rule'.started /\ pc' = "ruleset"
      BY <1>13, <2>3 DEF StartMedia, EnterRule, Frame, Call, Called
    <3> QED
      BY <2>1, <3>1 DEF RuleStep, SameRule, Called
  <2> QED
    BY <2>2, <2>3
<1>14. CASE EndMedia
  <2>1. pc = "end_media" /\ ~rule.started
    BY <1>14 DEF EndMedia, Control, RuleControl, MediaControl
  <2>2. CASE \E s : FailMedia(s)
    BY <2>1, <2>2, FailMediaRule
  <2>3. CASE Call("end_media", media.from) /\ rule' = rule /\ pc' = "return"
    BY <2>1, <2>3, Unmoved DEF Call, Called, RuleStep
  <2> QED
    BY <1>14, <2>2, <2>3 DEF EndMedia
<1> QED
  BY <1>1, <1>2, <1>3, <1>4, <1>5, <1>6, <1>7, <1>8, <1>9, <1>10, <1>11, <1>12, <1>13,
     <1>14 DEF Next

-----------------------------------------------------------------------------
(* The handler keeps the statement it builds in step with the rule.          *)

LEMMA Dispatch ==
    ASSUME Handle
    PROVE  /\ Called("none") => NotCalled
           /\ Called("start_document") => start_document
           /\ Called("end_document") => end_document
           /\ Called("unrecoverable_error") => unrecoverable_error
           /\ Called("error") => error
           /\ Called("charset") => charset
           /\ Called("import_style") => import_style
           /\ Called("start_media") => start_media
           /\ Called("end_media") => end_media
           /\ Called("property") => property
           /\ Called("start_selector") => start_selector
           /\ Called("end_selector") => end_selector
           /\ Called("start_page") => StartBlock("start_page", "page")
           /\ Called("end_page") => EndBlock("end_page", "page")
           /\ Called("start_font_face") => StartBlock("start_font_face", "font_face")
           /\ Called("end_font_face") => EndBlock("end_font_face", "font_face")
  BY DEF Called, Handle, start_document, end_document, unrecoverable_error, error, charset,
     import_style, start_media, end_media, start_selector, end_selector, property,
     NotCalled, StartBlock, EndBlock

HasContext == pc \notin Outside => ctxt # NoContext

LEMMA HandlerFollows ==
    ASSUME TInv, TInv', OMTypeOK, Control, HasContext, CurrentStatementIsOpenRule,
           RuleStep, Handle
    PROVE  HasContext' /\ CurrentStatementIsOpenRule'
<1>1. \A kind \in Kinds : LET s == Stmt(kind, sac'.at)
                          IN  s # NoStmt /\ s.kind = kind /\ s.at = sac'.at
  <2>1. sac'.at \in Nat
    <3>1. Len(text') \in Nat
      BY DEF TInv, TypeOK
    <3> QED
      BY <3>1 DEF TInv, TypeOK, Places
  <2> QED
    BY <2>1, NewStatement DEF Stmt
<1>2. CASE Beginning /\ SameRule
  <2>1. ~rule.started /\ ~rule'.started
    BY <1>2 DEF Beginning, SameRule, Control, RuleControl
  <2>2. ctxt' = Context /\ ctxt'.cur = NoStmt
    BY <1>2, Dispatch DEF Beginning, start_document, Set, Context
  <2>3. ctxt' # NoContext
    <3>1. Context \in Contexts
      BY DEF Context, Contexts
    <3> QED
      BY <2>2, <3>1, OMAssumption
  <2> QED
    BY <2>1, <2>2, <2>3 DEF HasContext, CurrentStatementIsOpenRule
<1>3. CASE Ending /\ ~rule.started
  <2>1. ctxt # NoContext /\ ctxt.cur = NoStmt
    BY <1>3 DEF Ending, HasContext, CurrentStatementIsOpenRule, Outside
  <2>2. ctxt' = NoContext
    BY <1>3, <2>1, Dispatch DEF Ending, end_document, unrecoverable_error
  <2> QED
    BY <1>3, <2>2 DEF Ending, HasContext, CurrentStatementIsOpenRule, Outside
<1>4. CASE pc \notin Outside /\ pc' \notin Outside
  <2>1. /\ ctxt # NoContext
        /\ IF rule.started
           THEN /\ ctxt.cur # NoStmt
                /\ ctxt.cur.kind = rule.fn /\ ctxt.cur.at = rule.from
           ELSE ctxt.cur = NoStmt
    BY <1>4 DEF HasContext, CurrentStatementIsOpenRule
  <2>2. ctxt \in Contexts /\ (~Closing => ctxt' # NoContext)
    BY <2>1, OMTypesPreserved, OMAssumption DEF OMTypeOK
  <2>3. SUFFICES /\ ctxt' # NoContext
                 /\ IF rule'.started
                    THEN /\ ctxt'.cur # NoStmt
                         /\ ctxt'.cur.kind = rule'.fn /\ ctxt'.cur.at = rule'.from
                    ELSE ctxt'.cur = NoStmt
    BY DEF HasContext, CurrentStatementIsOpenRule
  <2>4. /\ \A c : [ctxt EXCEPT !.cur = c].cur = c
        /\ \A s : [ctxt EXCEPT !.sheet = s].cur = ctxt.cur
        /\ \A m : [ctxt EXCEPT !.media = m].cur = ctxt.cur
        /\ \A s : [ctxt EXCEPT !.sheet = s, !.cur = NoStmt].cur = NoStmt
        /\ \A m : [ctxt EXCEPT !.media = m, !.cur = NoStmt].cur = NoStmt
    BY <2>2 DEF Contexts
  <2>5. CASE Called("none") /\ SameRule
    BY <2>1, <2>5, Dispatch DEF SameRule, NotCalled
  <2>6. CASE sac'.call \in {"charset", "import_style"} /\ SameRule
    <3>1. \/ ctxt'.cur = ctxt.cur
          \/ \E s : ctxt' = [ctxt EXCEPT !.sheet = s]
      BY <2>1, <2>6, Dispatch DEF Called, charset, import_style, Expect, Set
    <3> QED
      BY <2>1, <2>2, <2>4, <2>6, <3>1 DEF SameRule, Closing, Called
  <2>7. CASE sac'.call \in {"start_media", "end_media"} /\ ~rule.started /\ SameRule
    <3>1. CASE ctxt'.cur = ctxt.cur \/ ctxt'.cur = NoStmt
      BY <2>1, <2>2, <2>7, <3>1 DEF SameRule, Closing, Called
    <3>2. CASE start_media
      <4>1. ctxt' = ctxt \/ ctxt' = [ctxt EXCEPT !.media = Stmt("media", sac'.at)]
        BY <2>1, <3>2 DEF start_media, Expect, Set
      <4> QED
        BY <2>4, <3>1, <4>1
    <3>3. CASE end_media
      <4>1. \/ ctxt' = ctxt
            \/ ctxt' = [ctxt EXCEPT !.sheet = Append(ctxt.sheet, ctxt.media),
                                    !.cur = NoStmt, !.media = NoStmt]
        BY <2>1, <3>3 DEF end_media, Expect, Set
      <4>2. \A s : [ctxt EXCEPT !.sheet = s, !.cur = NoStmt, !.media = NoStmt].cur
                      = NoStmt
        BY <2>2 DEF Contexts
      <4> QED
        BY <3>1, <4>1, <4>2
    <3> QED
      BY <2>7, <3>2, <3>3, Dispatch DEF Called
  <2>8. CASE Called("property") /\ rule.started /\ rule.fn \in Rules /\ SameRule
    <3>1. ctxt.cur \in Rulesets
      BY <2>1, <2>2, <2>8 DEF Contexts
    <3>2. ctxt' = [ctxt EXCEPT !.cur = [ctxt.cur EXCEPT !.decls = Append(@, sac'.at)]]
      BY <2>1, <2>8, Dispatch DEF property, Expect, Set, Rules
    <3>3. /\ [ctxt.cur EXCEPT !.decls = Append(@, sac'.at)].kind = ctxt.cur.kind
          /\ [ctxt.cur EXCEPT !.decls = Append(@, sac'.at)].at = ctxt.cur.at
      BY <3>1 DEF Rulesets
    <3>4. [ctxt.cur EXCEPT !.decls = Append(@, sac'.at)] # NoStmt
      <4>1. sac'.at \in Nat
        <5>1. Len(text') \in Nat
          BY DEF TInv, TypeOK
        <5> QED
          BY <5>1 DEF TInv, TypeOK, Places
      <4> QED
        BY <3>1, <4>1, WithDeclaration, RulesetsAreStatements, OMAssumption
    <3> QED
      BY <2>1, <2>2, <2>4, <2>8, <3>2, <3>3, <3>4 DEF SameRule, Closing, Called
  <2>9. CASE Called("error") /\ ~rule'.started
    <3>1. ctxt' = [ctxt EXCEPT !.cur = NoStmt]
      BY <2>1, <2>9, Dispatch DEF error, Expect, Set
    <3> QED
      BY <2>2, <2>4, <2>9, <3>1 DEF Closing, Called
  <2>10. CASE /\ ~rule.started /\ rule'.started /\ rule'.fn \in Rules
              /\ sac' = [call |-> StartOf(rule'.fn), at |-> rule'.from]
    <3>1. sac'.call = StartOf(rule'.fn) /\ sac'.at = rule'.from
      BY <2>10
    <3>2. ctxt' = [ctxt EXCEPT !.cur = Stmt(rule'.fn, sac'.at)]
      <4>1. CASE rule'.fn = "selector"
        BY <2>1, <3>1, <4>1, Dispatch DEF StartOf, Called, start_selector, Expect, Set
      <4>2. CASE rule'.fn \in {"page", "font_face"}
        BY <2>1, <2>10, <3>1, <4>2, Dispatch DEF StartOf, Called, StartBlock, Expect, Set
      <4> QED
        BY <2>10, <4>1, <4>2 DEF Rules
    <3>3. rule'.fn \in Kinds
      BY <2>10 DEF Rules, Kinds
    <3>4. ctxt'.cur = Stmt(rule'.fn, sac'.at)
      BY <2>4, <3>2
    <3> QED
      BY <1>1, <2>2, <2>10, <3>1, <3>3, <3>4 DEF Closing, Called, StartOf, Rules
  <2>11. CASE /\ rule.started /\ ~rule'.started /\ rule.fn \in Rules
              /\ Called(EndOf(rule.fn))
    <3>1. ctxt'.cur = NoStmt
      <4>1. CASE rule.fn = "selector"
        <5>1. end_selector
          BY <2>11, <4>1, Dispatch DEF EndOf
        <5>2. \/ ctxt' = [ctxt EXCEPT !.media = WithRuleset(ctxt.media, ctxt.cur),
                                      !.cur = NoStmt]
              \/ ctxt' = [ctxt EXCEPT !.sheet = Append(ctxt.sheet, ctxt.cur),
                                      !.cur = NoStmt]
          BY <2>1, <2>11, <5>1 DEF end_selector, Expect, Set
        <5> QED
          BY <2>4, <5>2
      <4>2. CASE rule.fn \in {"page", "font_face"}
        <5>1. EndBlock(EndOf(rule.fn), rule.fn)
          BY <2>11, <4>2, Dispatch DEF EndOf
        <5>2. ctxt' = [ctxt EXCEPT !.sheet = Append(ctxt.sheet, ctxt.cur), !.cur = NoStmt]
          BY <2>1, <2>11, <5>1 DEF EndBlock, Expect, Set
        <5> QED
          BY <2>4, <5>2
      <4> QED
        BY <2>11, <4>1, <4>2 DEF Rules
    <3> QED
      BY <2>2, <2>11, <3>1 DEF Closing, Called, EndOf, Rules
  <2>12. \/ Called("none") /\ SameRule
         \/ sac'.call \in {"charset", "import_style"} /\ SameRule
         \/ sac'.call \in {"start_media", "end_media"} /\ ~rule.started /\ SameRule
         \/ Called("property") /\ rule.started /\ rule.fn \in Rules /\ SameRule
         \/ Called("error") /\ ~rule'.started
         \/ /\ ~rule.started /\ rule'.started /\ rule'.fn \in Rules
            /\ sac' = [call |-> StartOf(rule'.fn), at |-> rule'.from]
         \/ /\ rule.started /\ ~rule'.started /\ rule.fn \in Rules
            /\ Called(EndOf(rule.fn))
    BY <1>4 DEF RuleStep, Beginning, Ending, Outside
  <2> QED
    BY <2>5, <2>6, <2>7, <2>8, <2>9, <2>10, <2>11, <2>12
<1> QED
  BY <1>2, <1>3, <1>4 DEF RuleStep

\* The statement the handler builds is the rule the parser is in, on every set of
\* texts in which no declaration is cut off by the end of the input: no property is
\* ever added to another rule, and none is left over when the document ends.
THEOREM StatementIsOpenRule ==
    ASSUME DeclarationsAreFollowed
    PROVE  OMSpec => []CurrentStatementIsOpenRule
<1> DEFINE I == /\ TInv /\ OMTypeOK /\ Control
                /\ HasContext /\ CurrentStatementIsOpenRule
<1>1. OMInit => I
  <2>1. OMInit => HasContext /\ CurrentStatementIsOpenRule
    BY DEF OMInit, Init, HasContext, Outside, CurrentStatementIsOpenRule
  <2> QED
    BY <2>1, InitialTypes, InitialOMTypes, InitialControl DEF OMInit
<1>2. I /\ [OMNext]_omVars => I'
  <2>1. ASSUME I, OMNext PROVE I'
    <3>1. TInv' /\ Control'
      BY <2>1, TypesPreserved, ControlPreserved DEF OMNext
    <3>2. OMTypeOK'
      BY <2>1, <3>1, OMTypesPreserved DEF OMNext
    <3>3. HasContext' /\ CurrentStatementIsOpenRule'
      BY <2>1, <3>1, RuleSteps, HandlerFollows DEF OMNext
    <3> QED
      BY <3>1, <3>2, <3>3
  <2>2. ASSUME I, UNCHANGED omVars PROVE I'
    <3>1. UNCHANGED vars
      BY <2>2 DEF omVars, vars
    <3>2. TInv'
      BY <2>2, <3>1, TypesPreserved
    <3>3. Control'
      BY <2>2 DEF omVars, Control, RuleControl, MediaControl
    <3> QED
      BY <2>2, <3>2, <3>3
      DEF omVars, OMTypeOK, HasContext, CurrentStatementIsOpenRule
  <2> QED
    BY <2>1, <2>2
<1>3. I => CurrentStatementIsOpenRule
  OBVIOUS
<1> QED
  BY <1>1, <1>2, <1>3, PTL DEF OMSpec
-----------------------------------------------------------------------------
(* The sheet is that of the rules.  The protocol tells when an @media rule   *)
(* is open; the handler keeps one exactly then, until an @media rule fails.  *)

LEMMA PairsOfRules ==
    ASSUME NEW x, NEW y, NEW z
    PROVE  /\ <<>> \o <<>> = <<>> /\ <<x>> \o <<>> = <<x>> /\ <<>> \o <<y>> = <<y>>
           /\ <<x>> \o <<y>> = <<x, y>>
           /\ [<<x>> EXCEPT ![1] = z] = <<z>>
           /\ [<<x, y>> EXCEPT ![2] = z] = <<x, z>>
<1>1. <<x>> \o <<y>> = <<x, y>>
  <2>1. <<x>> \o <<y>> \in Seq({x, y}) /\ Len(<<x>> \o <<y>>) = 2
    OBVIOUS
  <2>2. \A i \in 1..2 : (<<x>> \o <<y>>)[i] = <<x, y>>[i]
    OBVIOUS
  <2>3. <<x, y>> \in Seq({x, y}) /\ Len(<<x, y>>) = 2
    OBVIOUS
  <2> QED
    BY <2>1, <2>2, <2>3, SeqEqual
<1>2. [<<x, y>> EXCEPT ![2] = z] = <<x, z>>
  <2>1. <<x, y>> \in Seq({x, y, z}) /\ <<x, z>> \in Seq({x, y, z})
    OBVIOUS
  <2>2. /\ [<<x, y>> EXCEPT ![2] = z] \in Seq({x, y, z})
        /\ Len([<<x, y>> EXCEPT ![2] = z]) = 2 /\ Len(<<x, z>>) = 2
    BY <2>1
  <2>3. \A i \in 1..2 : [<<x, y>> EXCEPT ![2] = z][i] = <<x, z>>[i]
    OBVIOUS
  <2> QED
    BY <2>1, <2>2, <2>3, SeqEqual
<1>3. [<<x>> EXCEPT ![1] = z] = <<z>>
  <2>1. [<<x>> EXCEPT ![1] = z] \in Seq({x, z}) /\ Len([<<x>> EXCEPT ![1] = z]) = 1
    OBVIOUS
  <2>2. \A i \in 1..1 : [<<x>> EXCEPT ![1] = z][i] = <<z>>[i]
    OBVIOUS
  <2> QED
    BY <2>1, <2>2, SeqEqual
<1>4. <<>> \o <<>> = <<>> /\ <<x>> \o <<>> = <<x>> /\ <<>> \o <<y>> = <<y>>
  BY ConcatEmptySeq
<1> QED
  BY <1>1, <1>2, <1>3, <1>4

MediaStep ==
    /\ Called("start_media") => ~media.started /\ ~rule.started /\ media'.started
    /\ Called("end_media") => media.started /\ ~rule.started /\ ~media'.started
    /\ sac'.call \in {"start_page", "end_page", "start_font_face", "end_font_face",
                      "charset", "import_style", "start_document", "end_document",
                      "unrecoverable_error"} => ~media.started
    /\ sac'.call \in {"charset", "import_style"} => ~rule.started
    /\ Called("error") => rule.started \/ ~media'.started
    /\ media'.started => media.started \/ Called("start_media")

\* What the open rules tell of the two frames.
LEMMA OpenRulesTell ==
    ASSUME TInv
    PROVE  /\ media.started <=> OpenRules # <<>> /\ OpenRules[1].kind = "media"
           /\ rule.started <=> OpenRules # <<>> /\ OpenRules[Len(OpenRules)].kind # "media"
           /\ \/ OpenRules = <<>>
              \/ \E x : OpenRules = <<x>>
              \/ media.started /\ rule.started /\ OpenRules = <<OpenMedia, OpenRule>>
<1>1. OpenRule.kind # "media" /\ OpenMedia.kind = "media"
  BY DEF OpenRule, OpenMedia, TInv, TypeOK, Frames, Rules
<1>2. media.started \in BOOLEAN /\ rule.started \in BOOLEAN
  BY DEF TInv, TypeOK, Frames
<1> QED
  BY <1>1, <1>2, OpenRulesAre, ShortSequences

LEMMA MediaSteps ==
    ASSUME TInv, TInv', Control, Protocol!Next
    PROVE  MediaStep
<1>1. /\ OpenRules = <<>> <=> ~media.started /\ ~rule.started
      /\ OpenRules' = <<>> <=> ~media'.started /\ ~rule'.started
  BY DEF OpenRules
<1>2. Phase \in {"before", "charset", "imports"} => ~media.started /\ ~rule.started
  BY DEF Phase, Control, RuleControl, MediaControl, RuleLabels
<1>3. media'.started <=> OpenRules' # <<>> /\ OpenRules'[1].kind = "media"
  <2>1. OpenRule'.kind # "media" /\ OpenMedia'.kind = "media"
    BY DEF OpenRule, OpenMedia, TInv, TypeOK, Frames, Rules
  <2>2. media'.started \in BOOLEAN /\ rule'.started \in BOOLEAN
    BY DEF TInv, TypeOK, Frames
  <2> QED
    BY <2>1, <2>2, ShortSequences DEF OpenRules
<1>4. CASE \/ Protocol!StartDocument \/ Protocol!EndDocument
           \/ Protocol!CharsetRule \/ Protocol!ImportRule
  BY <1>1, <1>2, <1>4 DEF Protocol!StartDocument, Protocol!EndDocument,
     Protocol!CharsetRule, Protocol!ImportRule, Protocol!Called, Called, MediaStep
<1>5. CASE Protocol!Property \/ Protocol!Quiet
  <2>1. OpenRules' = OpenRules /\ sac'.call \in {"property", "none"}
    BY <1>5 DEF Protocol!Property, Protocol!Quiet, Protocol!Called
  <2> QED
    BY <1>3, <2>1, OpenRulesTell DEF Called, MediaStep
<1>6. CASE Protocol!Error
  <2>1. /\ OpenRules' = IF OpenRules = <<>> THEN <<>>
                        ELSE SubSeq(OpenRules, 1, Len(OpenRules) - 1)
        /\ sac'.call = "error"
    BY <1>6 DEF Protocol!Error, Protocol!Called
  <2>2. OpenRules' = <<>> \/ (media.started /\ rule.started)
    BY <2>1, OpenRulesTell, ShortSequences
  <2> QED
    BY <1>3, <2>1, <2>2 DEF Called, MediaStep
<1>7. ASSUME NEW call, NEW kind, Protocol!Start(call, kind),
             <<call, kind>> \in {<<"start_selector", "selector">>, <<"start_media", "media">>,
                                 <<"start_page", "page">>, <<"start_font_face", "font_face">>}
      PROVE  MediaStep
  <2> DEFINE r == [kind |-> kind, at |-> sac'.at]
  <2>1. sac'.call = call /\ OpenRules' = Append(OpenRules, r)
    BY <1>7 DEF Protocol!Start, Protocol!Called
  <2>2. CASE OpenRules = <<>>
    <3>1. OpenRules' = <<r>>
      BY <2>1, <2>2, ShortSequences
    <3>2. media'.started <=> kind = "media"
      BY <1>3, <3>1, ShortSequences
    <3>3. ~media.started /\ ~rule.started
      BY <1>1, <2>2
    <3> QED
      BY <1>7, <2>1, <3>2, <3>3 DEF Called, MediaStep
  <2>3. CASE OpenRules # <<>>
    <3>1. kind = "selector" /\ OpenRules[1].kind = "media"
      BY <1>7, <2>3 DEF Protocol!Start
    <3>2. media.started /\ call = "start_selector"
      BY <1>7, <2>3, <3>1, OpenRulesTell
    <3> QED
      BY <2>1, <3>2 DEF Called, MediaStep
  <2> QED
    BY <2>2, <2>3
<1>8. ASSUME NEW call, NEW kind, Protocol!End(call, kind),
             <<call, kind>> \in {<<"end_selector", "selector">>, <<"end_media", "media">>,
                                 <<"end_page", "page">>, <<"end_font_face", "font_face">>}
      PROVE  MediaStep
  <2>1. /\ sac'.call = call /\ OpenRules # <<>>
        /\ OpenRules[Len(OpenRules)].kind = kind
        /\ OpenRules' = SubSeq(OpenRules, 1, Len(OpenRules) - 1)
    BY <1>8 DEF Protocol!End, Protocol!Called, Protocol!Innermost
  <2>2. OpenRules' = <<>> \/ (media.started /\ rule.started)
    BY <2>1, OpenRulesTell, ShortSequences
  <2>3. rule.started <=> kind # "media"
    BY <2>1, OpenRulesTell
  <2>4. kind # "media" /\ media.started => kind = "selector"
    <3>1. CASE media.started /\ rule.started
      <4>1. OpenRules = <<OpenMedia, OpenRule>>
        BY <3>1, OpenRulesAre
      <4>2. kind = rule.fn
        BY <2>1, <4>1, ShortSequences DEF OpenRule
      <4> QED
        BY <1>8, <3>1, <4>2 DEF Control, MediaControl
    <3> QED
      BY <2>3, <3>1
  <2>5. kind = "media" => media.started
    BY <2>1, <2>3, <1>1
  <2>6. media'.started => media.started /\ rule.started
    BY <1>3, <2>2
  <2>7. CASE kind = "media"
    BY <1>8, <2>1, <2>3, <2>5, <2>6, <2>7 DEF Called, MediaStep
  <2>8. CASE kind # "media"
    BY <1>8, <2>1, <2>4, <2>6, <2>8 DEF Called, MediaStep
  <2> QED
    BY <2>7, <2>8
<1> QED
  BY <1>4, <1>5, <1>6, <1>7, <1>8 DEF Protocol!Next

\* What the handler does with the @media rule it keeps.
LEMMA HandlerKeepsMedia ==
    ASSUME OMTypeOK, Handle, ctxt # NoContext, ctxt' # NoContext
    PROVE  \/ ctxt'.media = ctxt.media
           \/ (Called("start_document") \/ Called("end_media")) /\ ctxt'.media = NoStmt
           \/ /\ Called("start_media") /\ ctxt.media = NoStmt
              /\ ctxt'.media = Stmt("media", sac'.at)
           \/ /\ Called("end_selector") /\ ctxt.media # NoStmt /\ ctxt.cur # NoStmt
              /\ ctxt'.media = WithRuleset(ctxt.media, ctxt.cur)
<1>1. ctxt \in Contexts
  BY DEF OMTypeOK
<1>2. /\ \A c : [ctxt EXCEPT !.cur = c].media = ctxt.media
      /\ \A s : [ctxt EXCEPT !.sheet = s].media = ctxt.media
      /\ \A s : [ctxt EXCEPT !.sheet = s, !.cur = NoStmt].media = ctxt.media
      /\ \A m : [ctxt EXCEPT !.media = m].media = m
      /\ \A m : [ctxt EXCEPT !.media = m, !.cur = NoStmt].media = m
      /\ \A s : [ctxt EXCEPT !.sheet = s, !.cur = NoStmt, !.media = NoStmt].media = NoStmt
  BY <1>1 DEF Contexts
<1>3. CASE \/ start_document \/ end_document \/ unrecoverable_error \/ NotCalled
  BY <1>3 DEF start_document, Set, Context, end_document, unrecoverable_error, NotCalled
<1>4. CASE \/ error \/ start_selector \/ charset \/ import_style \/ property
           \/ StartBlock("start_page", "page") \/ StartBlock("start_font_face", "font_face")
  <2>1. \/ ctxt' = ctxt
        \/ \E c : ctxt' = [ctxt EXCEPT !.cur = c]
        \/ \E s : ctxt' = [ctxt EXCEPT !.sheet = s]
    BY <1>4 DEF error, start_selector, charset, import_style, property, StartBlock,
       Expect, Set
  <2> QED
    BY <1>2, <2>1
<1>5. CASE EndBlock("end_page", "page") \/ EndBlock("end_font_face", "font_face")
  <2>1. \/ ctxt' = ctxt
        \/ \E s : ctxt' = [ctxt EXCEPT !.sheet = s, !.cur = NoStmt]
    BY <1>5 DEF EndBlock, Expect, Set
  <2> QED
    BY <1>2, <2>1
<1>6. CASE start_media
  <2>1. \/ ctxt' = ctxt
        \/ ctxt.media = NoStmt /\ ctxt' = [ctxt EXCEPT !.media = Stmt("media", sac'.at)]
    BY <1>6 DEF start_media, Expect, Set
  <2> QED
    BY <1>2, <1>6, <2>1 DEF start_media
<1>7. CASE end_media
  <2>1. \/ ctxt' = ctxt
        \/ \E s : ctxt' = [ctxt EXCEPT !.sheet = s, !.cur = NoStmt, !.media = NoStmt]
    BY <1>7 DEF end_media, Expect, Set
  <2> QED
    BY <1>2, <1>7, <2>1 DEF end_media
<1>8. CASE end_selector
  <2>1. \/ ctxt' = ctxt
        \/ /\ ctxt.media # NoStmt /\ ctxt.cur # NoStmt
           /\ ctxt' = [ctxt EXCEPT !.media = WithRuleset(ctxt.media, ctxt.cur),
                                   !.cur = NoStmt]
        \/ \E s : ctxt' = [ctxt EXCEPT !.sheet = s, !.cur = NoStmt]
    BY <1>8 DEF end_selector, Expect, Set
  <2> QED
    BY <1>2, <1>8, <2>1 DEF end_selector
<1> QED
  BY <1>3, <1>4, <1>5, <1>6, <1>7, <1>8 DEF Handle

\* Before a document nothing is kept; while an @media rule is open one is, and what
\* is kept in its place is always one.
MediaIsKept ==
    /\ pc = "start" => ctxt = NoContext /\ result = NoSheet
    /\ ctxt # NoContext => /\ media.started => ctxt.media # NoStmt
                           /\ ctxt.media # NoStmt => ctxt.media.kind = "media"

LEMMA MediaIsKeptPreserved ==
    ASSUME TInv', OMTypeOK, HasContext, CurrentStatementIsOpenRule, MediaIsKept,
           RuleStep, MediaStep, Handle
    PROVE  MediaIsKept'
<1>1. pc' # "start"
  BY DEF RuleStep, Beginning, Ending, Outside
<1>2. Called("start_document") => ~media'.started
  BY DEF MediaStep, Called
<1>3. CASE ctxt' = NoContext
  BY <1>1, <1>3 DEF MediaIsKept
<1>4. CASE ctxt = NoContext /\ ctxt' # NoContext
  <2>1. Called("start_document") /\ ctxt'.media = NoStmt
    BY <1>4 DEF Handle, start_document, Set, Context, end_document, unrecoverable_error,
       NotCalled, error, start_selector, end_selector, charset, import_style, property,
       start_media, end_media, StartBlock, EndBlock, Expect
  <2> QED
    BY <1>1, <1>2, <2>1 DEF MediaIsKept
<1>5. CASE ctxt # NoContext /\ ctxt' # NoContext
  <2>1. CASE ctxt'.media = ctxt.media
    <3>1. media'.started /\ ~media.started => ctxt.media # NoStmt
      <4>1. SUFFICES ASSUME Called("start_media"), ctxt.media = NoStmt PROVE FALSE
        BY DEF MediaStep
      <4>2. ctxt.cur = NoStmt
        BY <1>5, <4>1 DEF MediaStep, CurrentStatementIsOpenRule
      <4>3. ctxt' = [ctxt EXCEPT !.media = Stmt("media", sac'.at)]
        BY <1>5, <4>1, <4>2, Dispatch DEF start_media, Expect, Set
      <4>4. ctxt'.media = Stmt("media", sac'.at)
        BY <1>5, <4>3 DEF OMTypeOK, Contexts
      <4>5. sac'.at \in Nat
        <5>1. Len(text') \in Nat
          BY DEF TInv, TypeOK
        <5> QED
          BY <5>1 DEF TInv, TypeOK, Places
      <4> QED
        BY <2>1, <4>1, <4>4, <4>5, NewStatement DEF Kinds
    <3> QED
      BY <1>1, <1>5, <2>1, <3>1 DEF MediaIsKept
  <2>2. CASE (Called("start_document") \/ Called("end_media")) /\ ctxt'.media = NoStmt
    BY <1>1, <1>2, <2>2 DEF MediaIsKept, MediaStep
  <2>3. CASE ctxt'.media = Stmt("media", sac'.at)
    <3>1. sac'.at \in Nat
      <4>1. Len(text') \in Nat
        BY DEF TInv, TypeOK
      <4> QED
        BY <4>1 DEF TInv, TypeOK, Places
    <3>2. Stmt("media", sac'.at) # NoStmt
      BY <3>1, NewStatement DEF Kinds
    <3> QED
      BY <1>1, <2>3, <3>2 DEF MediaIsKept, Stmt
  <2>4. CASE /\ Called("end_selector") /\ ctxt.media # NoStmt /\ ctxt.cur # NoStmt
             /\ ctxt'.media = WithRuleset(ctxt.media, ctxt.cur)
    <3>1. ctxt.media \in Stmts /\ ctxt.cur \in Rulesets
      BY <1>5, <2>4 DEF OMTypeOK, Contexts
    <3>2. WithRuleset(ctxt.media, ctxt.cur) # NoStmt
      BY <3>1, RulesetAdded, OMAssumption
    <3>3. WithRuleset(ctxt.media, ctxt.cur).kind = ctxt.media.kind
      BY <3>1 DEF WithRuleset, Stmts
    <3> QED
      BY <1>1, <1>5, <2>4, <3>2, <3>3 DEF MediaIsKept
  <2> QED
    BY <1>5, <2>1, <2>2, <2>3, <2>4, HandlerKeepsMedia
<1> QED
  BY <1>3, <1>4, <1>5

\* The statements under construction, by the two fields of the context.
LEMMA OpenStmtsAre ==
    ASSUME ctxt # NoContext
    PROVE  /\ ctxt.media = NoStmt /\ ctxt.cur = NoStmt => OpenStmts = <<>>
           /\ ctxt.media = NoStmt /\ ctxt.cur # NoStmt => OpenStmts = <<ctxt.cur>>
           /\ ctxt.media # NoStmt /\ ctxt.cur = NoStmt => OpenStmts = <<ctxt.media>>
           /\ ctxt.media # NoStmt /\ ctxt.cur # NoStmt =>
                 OpenStmts = <<ctxt.media, ctxt.cur>>
           /\ SheetSoFar = ctxt.sheet
  BY PairsOfRules DEF OpenStmts, Opened, SheetSoFar

LEMMA OpenStmtsWillBe ==
    ASSUME ctxt' # NoContext
    PROVE  /\ ctxt'.media = NoStmt /\ ctxt'.cur = NoStmt => OpenStmts' = <<>>
           /\ ctxt'.media = NoStmt /\ ctxt'.cur # NoStmt => OpenStmts' = <<ctxt'.cur>>
           /\ ctxt'.media # NoStmt /\ ctxt'.cur = NoStmt => OpenStmts' = <<ctxt'.media>>
           /\ ctxt'.media # NoStmt /\ ctxt'.cur # NoStmt =>
                 OpenStmts' = <<ctxt'.media, ctxt'.cur>>
           /\ SheetSoFar' = ctxt'.sheet
  BY PairsOfRules DEF OpenStmts, Opened, SheetSoFar

SheetStep == [Sheet!Next]_(Sheet!sheetVars) /\ refused' = refused

\* A step of the sheet is known by what becomes of the innermost rule.
LEMMA SheetStarts ==
    ASSUME NEW kind \in {"selector", "media", "page", "font_face"},
           Called(CASE kind = "media" -> "start_media" [] OTHER -> StartOf(kind)),
           OpenStmts' = Append(OpenStmts, Stmt(kind, sac'.at)), SheetSoFar' = SheetSoFar
    PROVE  Sheet!Next
<1>1. Sheet!Rule(kind) = Stmt(kind, sac'.at)
  BY DEF Sheet!Rule, Stmt
<1> QED
  BY <1>1 DEF Sheet!Next, Sheet!Start, Sheet!Called, Called, StartOf

LEMMA SheetEnds ==
    ASSUME NEW kind \in {"selector", "media", "page", "font_face"},
           Called(CASE kind = "media" -> "end_media" [] OTHER -> EndOf(kind)),
           NEW r, r.kind = kind,
           \/ OpenStmts = <<r>> /\ OpenStmts' = <<>> /\ SheetSoFar' = Append(SheetSoFar, r)
           \/ \E m : /\ OpenStmts = <<m, r>> /\ OpenStmts' = <<WithRuleset(m, r)>>
                     /\ SheetSoFar' = SheetSoFar
    PROVE  Sheet!Next
<1>1. Sheet!End(CASE kind = "media" -> "end_media" [] OTHER -> EndOf(kind), kind)
  <2>1. CASE OpenStmts = <<r>> /\ OpenStmts' = <<>> /\ SheetSoFar' = Append(SheetSoFar, r)
    <3>1. Sheet!Last = r /\ Sheet!Outer = <<>> /\ OpenStmts # <<>>
      BY <2>1, ShortSequences DEF Sheet!Last, Sheet!Outer
    <3> QED
      BY <2>1, <3>1 DEF Sheet!End, Sheet!Called, Called
  <2>2. ASSUME NEW m, OpenStmts = <<m, r>>, OpenStmts' = <<WithRuleset(m, r)>>,
               SheetSoFar' = SheetSoFar
        PROVE  Sheet!End(CASE kind = "media" -> "end_media" [] OTHER -> EndOf(kind), kind)
    <3>1. Sheet!Last = r /\ Sheet!Outer = <<m>> /\ OpenStmts # <<>>
      BY <2>2, ShortSequences DEF Sheet!Last, Sheet!Outer
    <3>2. <<m>> # <<>> /\ Len(<<m>>) = 1 /\ <<m>>[1] = m
      BY ShortSequences
    <3>3. [<<m>> EXCEPT ![1] = WithRuleset(m, r)] = <<WithRuleset(m, r)>>
      BY PairsOfRules
    <3> QED
      BY <2>2, <3>1, <3>2, <3>3 DEF Sheet!End, Sheet!Becoming, Sheet!Called, Called, WithRuleset
  <2> QED
    BY <2>1, <2>2
<1> QED
  BY <1>1 DEF Sheet!Next, EndOf

LEMMA SheetFollows ==
    ASSUME TInv, TInv', OMTypeOK, OMTypeOK', Control, HasContext,
           CurrentStatementIsOpenRule, MediaIsKept, MediaInStep, MediaInStep',
           RuleStep, MediaStep, Handle
    PROVE  SheetStep
<1>1. \A kind \in Kinds : Stmt(kind, sac'.at) \in Rulesets /\ Stmt(kind, sac'.at) # NoStmt
  <2>1. sac'.at \in Nat
    <3>1. Len(text') \in Nat
      BY DEF TInv, TypeOK
    <3> QED
      BY <3>1 DEF TInv, TypeOK, Places
  <2> QED
    BY <2>1, NewStatement
<1>2. CASE Beginning /\ SameRule
  <2>1. ctxt = NoContext /\ result = NoSheet
    BY <1>2 DEF Beginning, MediaIsKept
  <2>2. ctxt' = Context /\ UNCHANGED <<result, refused>>
    BY <1>2, Dispatch DEF Beginning, start_document, Set
  <2>3. ctxt' # NoContext
    <3>1. Context \in Contexts
      BY DEF Context, Contexts
    <3> QED
      BY <2>2, <3>1, OMAssumption
  <2>4. OpenStmts = <<>> /\ SheetSoFar = <<>>
    BY <2>1 DEF OpenStmts, SheetSoFar
  <2>5. OpenStmts' = <<>> /\ SheetSoFar' = <<>>
    BY <2>2, <2>3, OpenStmtsWillBe DEF Context
  <2> QED
    BY <1>2, <2>2, <2>4, <2>5
    DEF Beginning, Called, SheetStep, Sheet!Next, Sheet!Other
<1>3. CASE Ending /\ ~rule.started
  <2>1. ctxt # NoContext /\ ctxt.cur = NoStmt
    BY <1>3 DEF Ending, HasContext, CurrentStatementIsOpenRule, Outside
  <2>2. ctxt' = NoContext /\ result' = ctxt.sheet /\ UNCHANGED refused
    BY <1>3, <2>1, Dispatch DEF Ending, end_document, unrecoverable_error
  <2>3. ctxt.media = NoStmt
    BY <1>3, <2>1 DEF Ending, Called, MediaStep, MediaInStep
  <2>4. result' # NoSheet
    BY <2>1, <2>2, OMAssumption DEF OMTypeOK, Contexts
  <2>5. OpenStmts = <<>> /\ OpenStmts' = <<>> /\ SheetSoFar' = SheetSoFar
    BY <2>1, <2>2, <2>3, <2>4, OpenStmtsAre DEF OpenStmts, SheetSoFar
  <2> QED
    BY <1>3, <2>2, <2>5 DEF Ending, Called, SheetStep, Sheet!Next, Sheet!Other
<1>4. CASE pc \notin Outside /\ pc' \notin Outside
  <2>1. /\ ctxt # NoContext
        /\ rule.started => /\ ctxt.cur # NoStmt
                           /\ ctxt.cur.kind = rule.fn /\ ctxt.cur.at = rule.from
        /\ ~rule.started => ctxt.cur = NoStmt
        /\ media.started => ctxt.media # NoStmt
        /\ ~media.started => ctxt.media = NoStmt
        /\ ctxt.media # NoStmt => ctxt.media.kind = "media"
    BY <1>4 DEF HasContext, CurrentStatementIsOpenRule, MediaIsKept, MediaInStep
  <2>2. ctxt \in Contexts
    BY <2>1 DEF OMTypeOK
  <2>3. ~Closing => ctxt' # NoContext
    BY <2>2, OMTypesPreserved, OMAssumption
  <2>4. \A c, m, s :
          /\ [ctxt EXCEPT !.cur = c].cur = c
          /\ [ctxt EXCEPT !.cur = c].media = ctxt.media
          /\ [ctxt EXCEPT !.cur = c].sheet = ctxt.sheet
          /\ [ctxt EXCEPT !.sheet = s].cur = ctxt.cur
          /\ [ctxt EXCEPT !.sheet = s].media = ctxt.media
          /\ [ctxt EXCEPT !.sheet = s].sheet = s
          /\ [ctxt EXCEPT !.media = m].cur = ctxt.cur
          /\ [ctxt EXCEPT !.media = m].media = m
          /\ [ctxt EXCEPT !.media = m].sheet = ctxt.sheet
          /\ [ctxt EXCEPT !.sheet = s, !.cur = c].cur = c
          /\ [ctxt EXCEPT !.sheet = s, !.cur = c].media = ctxt.media
          /\ [ctxt EXCEPT !.sheet = s, !.cur = c].sheet = s
          /\ [ctxt EXCEPT !.media = m, !.cur = c].cur = c
          /\ [ctxt EXCEPT !.media = m, !.cur = c].media = m
          /\ [ctxt EXCEPT !.media = m, !.cur = c].sheet = ctxt.sheet
          /\ [ctxt EXCEPT !.sheet = s, !.cur = c, !.media = m].cur = c
          /\ [ctxt EXCEPT !.sheet = s, !.cur = c, !.media = m].media = m
          /\ [ctxt EXCEPT !.sheet = s, !.cur = c, !.media = m].sheet = s
    BY <2>2 DEF Contexts
  <2>5. CASE Called("none") /\ SameRule
    <3>1. UNCHANGED <<ctxt, result, refused>>
      BY <2>5, Dispatch DEF NotCalled
    <3>2. OpenStmts' = OpenStmts /\ SheetSoFar' = SheetSoFar
      BY <3>1 DEF OpenStmts, SheetSoFar
    <3> QED
      BY <2>5, <3>1, <3>2 DEF Called, SheetStep, Sheet!Next, Sheet!Other
  <2>6. CASE Called("charset")
    <3>1. /\ ctxt' = [ctxt EXCEPT !.sheet = Append(ctxt.sheet, Stmt("charset", sac'.at))]
          /\ UNCHANGED refused
      BY <2>1, <2>6, Dispatch DEF charset, Expect, Set
    <3>2. /\ ctxt' # NoContext
          /\ ctxt'.cur = ctxt.cur /\ ctxt'.media = ctxt.media
          /\ ctxt'.sheet = Append(ctxt.sheet, Stmt("charset", sac'.at))
      BY <2>3, <2>4, <2>6, <3>1 DEF Closing, Called
    <3>3. /\ OpenStmts' = OpenStmts
          /\ SheetSoFar' = Append(SheetSoFar, Stmt("charset", sac'.at))
      BY <2>1, <3>2 DEF OpenStmts, SheetSoFar
    <3> QED
      BY <2>6, <3>1, <3>3
      DEF Called, SheetStep, Sheet!Next, Sheet!Single, Sheet!Called, Sheet!Rule, Stmt
  <2>7. CASE Called("import_style")
    <3>1. ctxt.cur = NoStmt
      BY <2>1, <2>7 DEF Called, MediaStep
    <3>2. /\ ctxt' = [ctxt EXCEPT !.sheet = Append(ctxt.sheet, Stmt("import", sac'.at))]
          /\ UNCHANGED refused
      BY <2>1, <2>7, <3>1, Dispatch DEF import_style, Expect, Set
    <3>3. /\ ctxt' # NoContext
          /\ ctxt'.cur = ctxt.cur /\ ctxt'.media = ctxt.media
          /\ ctxt'.sheet = Append(ctxt.sheet, Stmt("import", sac'.at))
      BY <2>3, <2>4, <2>7, <3>2 DEF Closing, Called
    <3>4. /\ OpenStmts' = OpenStmts
          /\ SheetSoFar' = Append(SheetSoFar, Stmt("import", sac'.at))
      BY <2>1, <3>3 DEF OpenStmts, SheetSoFar
    <3> QED
      BY <2>7, <3>2, <3>4
      DEF Called, SheetStep, Sheet!Next, Sheet!Single, Sheet!Called, Sheet!Rule, Stmt
  <2>8. CASE Called("start_media")
    <3>1. ctxt.cur = NoStmt /\ ctxt.media = NoStmt
      BY <2>1, <2>8 DEF MediaStep
    <3>2. /\ ctxt' = [ctxt EXCEPT !.media = Stmt("media", sac'.at)]
          /\ UNCHANGED refused
      BY <2>1, <2>8, <3>1, Dispatch DEF start_media, Expect, Set
    <3>3. /\ ctxt' # NoContext
          /\ ctxt'.cur = NoStmt /\ ctxt'.media = Stmt("media", sac'.at)
          /\ ctxt'.sheet = ctxt.sheet
      BY <2>3, <2>4, <2>8, <3>1, <3>2 DEF Closing, Called
    <3>4. Stmt("media", sac'.at) # NoStmt
      BY <1>1 DEF Kinds
    <3>5. OpenStmts = <<>> /\ OpenStmts' = <<Stmt("media", sac'.at)>>
      BY <2>1, <3>1, <3>3, <3>4, OpenStmtsAre, OpenStmtsWillBe
    <3>6. OpenStmts' = Append(OpenStmts, Stmt("media", sac'.at))
      BY <3>5, ShortSequences
    <3>7. SheetSoFar' = SheetSoFar
      BY <2>1, <3>3 DEF SheetSoFar
    <3> QED
      BY <2>8, <3>2, <3>6, <3>7, SheetStarts DEF SheetStep
  <2>9. CASE Called("end_media")
    <3>1. ctxt.cur = NoStmt /\ ctxt.media # NoStmt
      BY <2>1, <2>9 DEF MediaStep
    <3>2. /\ ctxt' = [ctxt EXCEPT !.sheet = Append(ctxt.sheet, ctxt.media),
                                  !.cur = NoStmt, !.media = NoStmt]
          /\ UNCHANGED refused
      BY <2>1, <2>9, <3>1, Dispatch DEF end_media, Expect, Set
    <3>3. /\ ctxt' # NoContext
          /\ ctxt'.cur = NoStmt /\ ctxt'.media = NoStmt
          /\ ctxt'.sheet = Append(ctxt.sheet, ctxt.media)
      BY <2>3, <2>4, <2>9, <3>2 DEF Closing, Called
    <3>4. OpenStmts = <<ctxt.media>> /\ OpenStmts' = <<>>
      BY <2>1, <3>1, <3>3, OpenStmtsAre, OpenStmtsWillBe
    <3>5. SheetSoFar' = Append(SheetSoFar, ctxt.media)
      BY <2>1, <3>3 DEF SheetSoFar
    <3>6. ctxt.media.kind = "media"
      BY <2>1, <3>1
    <3> QED
      BY <2>9, <3>2, <3>4, <3>5, <3>6, SheetEnds DEF SheetStep
  <2>10. CASE Called("property") /\ rule.started /\ rule.fn \in Rules
    <3> DEFINE r == [ctxt.cur EXCEPT !.decls = Append(ctxt.cur.decls, sac'.at)]
    <3>1. ctxt' = [ctxt EXCEPT !.cur = r] /\ UNCHANGED refused
      BY <2>1, <2>10, Dispatch DEF property, Expect, Set, Rules
    <3>2. r \in Rulesets /\ r # NoStmt
      <4>1. sac'.at \in Nat
        <5>1. Len(text') \in Nat
          BY DEF TInv, TypeOK
        <5> QED
          BY <5>1 DEF TInv, TypeOK, Places
      <4>2. ctxt.cur \in Rulesets
        BY <2>1, <2>2, <2>10 DEF Contexts
      <4> QED
        BY <4>1, <4>2, WithDeclaration, RulesetsAreStatements, OMAssumption
    <3>3. /\ ctxt' # NoContext
          /\ ctxt'.cur = r /\ ctxt'.media = ctxt.media /\ ctxt'.sheet = ctxt.sheet
      BY <2>3, <2>4, <2>10, <3>1 DEF Closing, Called
    <3>4. SheetSoFar' = SheetSoFar
      BY <2>1, <3>3 DEF SheetSoFar
    <3> HIDE DEF r
    <3>5. /\ OpenStmts # <<>> /\ Sheet!Last = ctxt.cur
          /\ OpenStmts' = Sheet!Becoming(OpenStmts, r)
      <4>1. CASE ctxt.media = NoStmt
        <5>1. OpenStmts = <<ctxt.cur>> /\ OpenStmts' = <<r>>
          BY <2>1, <2>10, <3>2, <3>3, <4>1, OpenStmtsAre, OpenStmtsWillBe
        <5>2. [<<ctxt.cur>> EXCEPT ![1] = r] = <<r>>
          BY PairsOfRules
        <5>3. <<ctxt.cur>> # <<>> /\ Len(<<ctxt.cur>>) = 1 /\ <<ctxt.cur>>[1] = ctxt.cur
          BY ShortSequences
        <5> QED
          BY <5>1, <5>2, <5>3 DEF Sheet!Last, Sheet!Becoming
      <4>2. CASE ctxt.media # NoStmt
        <5>1. OpenStmts = <<ctxt.media, ctxt.cur>> /\ OpenStmts' = <<ctxt.media, r>>
          BY <2>1, <2>10, <3>2, <3>3, <4>2, OpenStmtsAre, OpenStmtsWillBe
        <5> DEFINE both == <<ctxt.media, ctxt.cur>>
        <5>2. [both EXCEPT ![2] = r] = <<ctxt.media, r>>
          BY PairsOfRules
        <5>3. both # <<>> /\ Len(both) = 2 /\ both[2] = ctxt.cur
          BY ShortSequences
        <5> QED
          BY <5>1, <5>2, <5>3 DEF Sheet!Last, Sheet!Becoming
      <4> QED
        BY <4>1, <4>2
    <3>6. r = [Sheet!Last EXCEPT !.decls = Append(@, sac'.at)]
      BY <3>5 DEF r
    <3> QED
      BY <2>10, <3>1, <3>4, <3>5, <3>6
      DEF SheetStep, Sheet!Next, Sheet!Property, Sheet!Called, Called
  <2>11. CASE Called("error") /\ ~rule'.started
    <3>1. ctxt' = [ctxt EXCEPT !.cur = NoStmt] /\ UNCHANGED refused
      BY <2>1, <2>11, Dispatch DEF error, Expect, Set
    <3>2. /\ ctxt' # NoContext
          /\ ctxt'.cur = NoStmt /\ ctxt'.media = ctxt.media /\ ctxt'.sheet = ctxt.sheet
      BY <2>3, <2>4, <2>11, <3>1 DEF Closing, Called
    <3>3. SheetSoFar' = SheetSoFar
      BY <2>1, <3>2 DEF SheetSoFar
    <3>4. OpenStmts' = IF OpenStmts = <<>> THEN <<>> ELSE Sheet!Outer
      <4>1. CASE rule.started /\ ctxt.media = NoStmt
        <5>1. OpenStmts = <<ctxt.cur>> /\ OpenStmts' = <<>>
          BY <2>1, <3>2, <4>1, OpenStmtsAre, OpenStmtsWillBe
        <5> QED
          BY <5>1, ShortSequences DEF Sheet!Outer
      <4>2. CASE rule.started /\ ctxt.media # NoStmt
        <5>1. OpenStmts = <<ctxt.media, ctxt.cur>> /\ OpenStmts' = <<ctxt.media>>
          BY <2>1, <3>2, <4>2, OpenStmtsAre, OpenStmtsWillBe
        <5> QED
          BY <5>1, ShortSequences DEF Sheet!Outer
      <4>3. CASE ~rule.started
        <5>1. ctxt'.media = NoStmt
          BY <2>11, <3>2, <4>3 DEF MediaStep, MediaInStep
        <5>2. OpenStmts = <<>> /\ OpenStmts' = <<>>
          BY <2>1, <3>2, <4>3, <5>1, OpenStmtsAre, OpenStmtsWillBe
        <5> QED
          BY <5>2
      <4> QED
        BY <4>1, <4>2, <4>3
    <3> QED
      BY <2>11, <3>1, <3>3, <3>4
      DEF SheetStep, Sheet!Next, Sheet!Error, Sheet!Called, Called
  <2>12. CASE /\ ~rule.started /\ rule'.started /\ rule'.fn \in Rules
              /\ sac' = [call |-> StartOf(rule'.fn), at |-> rule'.from]
    <3> DEFINE r == Stmt(rule'.fn, sac'.at)
    <3>1. sac'.call = StartOf(rule'.fn) /\ ctxt.cur = NoStmt
      BY <2>1, <2>12
    <3>2. ctxt' = [ctxt EXCEPT !.cur = r] /\ UNCHANGED refused
      <4>1. CASE rule'.fn = "selector"
        BY <2>1, <3>1, <4>1, Dispatch DEF StartOf, Called, start_selector, Expect, Set
      <4>2. CASE rule'.fn \in {"page", "font_face"}
        BY <2>1, <3>1, <4>2, Dispatch DEF StartOf, Called, StartBlock, Expect, Set
      <4> QED
        BY <2>12, <4>1, <4>2 DEF Rules
    <3>3. r # NoStmt
      BY <1>1, <2>12 DEF Rules, Kinds
    <3>4. /\ ctxt' # NoContext
          /\ ctxt'.cur = r /\ ctxt'.media = ctxt.media /\ ctxt'.sheet = ctxt.sheet
      BY <2>3, <2>4, <2>12, <3>1, <3>2 DEF Closing, Called, StartOf, Rules
    <3>5. SheetSoFar' = SheetSoFar
      BY <2>1, <3>4 DEF SheetSoFar
    <3> HIDE DEF r
    <3>6. OpenStmts' = Append(OpenStmts, r)
      <4>1. CASE ctxt.media = NoStmt
        <5>1. OpenStmts = <<>> /\ OpenStmts' = <<r>>
          BY <2>1, <3>1, <3>3, <3>4, <4>1, OpenStmtsAre, OpenStmtsWillBe
        <5> QED
          BY <5>1, ShortSequences
      <4>2. CASE ctxt.media # NoStmt
        <5>1. OpenStmts = <<ctxt.media>> /\ OpenStmts' = <<ctxt.media, r>>
          BY <2>1, <3>1, <3>3, <3>4, <4>2, OpenStmtsAre, OpenStmtsWillBe
        <5> QED
          BY <5>1, ShortSequences
      <4> QED
        BY <4>1, <4>2
    <3>7. /\ rule'.fn \in {"selector", "media", "page", "font_face"} /\ rule'.fn # "media"
          /\ Called(StartOf(rule'.fn))
      BY <2>12, <3>1 DEF Rules, Called
    <3> QED
      BY <3>2, <3>5, <3>6, <3>7, SheetStarts DEF SheetStep, r
  <2>13. CASE /\ rule.started /\ ~rule'.started /\ rule.fn \in Rules
              /\ Called(EndOf(rule.fn))
    <3>1. /\ rule.fn \in {"selector", "media", "page", "font_face"} /\ rule.fn # "media"
          /\ ctxt.cur # NoStmt /\ ctxt.cur.kind = rule.fn
      BY <2>1, <2>13 DEF Rules
    <3>2. ctxt' # NoContext
      BY <2>3, <2>13 DEF Closing, Called, EndOf, Rules
    <3>3. CASE ctxt.media = NoStmt
      <4>1. /\ ctxt' = [ctxt EXCEPT !.sheet = Append(ctxt.sheet, ctxt.cur), !.cur = NoStmt]
            /\ UNCHANGED refused
        <5>1. CASE rule.fn = "selector"
          BY <2>1, <2>13, <3>1, <3>3, <5>1, Dispatch DEF EndOf, end_selector, Expect, Set
        <5>2. CASE rule.fn \in {"page", "font_face"}
          BY <2>1, <2>13, <3>1, <5>2, Dispatch DEF EndOf, EndBlock, Expect, Set
        <5> QED
          BY <2>13, <5>1, <5>2 DEF Rules
      <4>2. /\ ctxt'.cur = NoStmt /\ ctxt'.media = NoStmt
            /\ ctxt'.sheet = Append(ctxt.sheet, ctxt.cur)
        BY <2>4, <3>3, <4>1
      <4>3. OpenStmts = <<ctxt.cur>> /\ OpenStmts' = <<>>
        BY <2>1, <3>1, <3>2, <3>3, <4>2, OpenStmtsAre, OpenStmtsWillBe
      <4>4. SheetSoFar' = Append(SheetSoFar, ctxt.cur)
        BY <2>1, <3>2, <4>2 DEF SheetSoFar
      <4> QED
        BY <2>13, <3>1, <4>1, <4>3, <4>4, SheetEnds DEF SheetStep
    <3>4. CASE ctxt.media # NoStmt
      <4>1. rule.fn = "selector"
        <5>1. media.started
          BY <2>1, <3>4
        <5> QED
          BY <2>13, <5>1 DEF MediaStep, Called, EndOf, Rules
      <4>2. /\ ctxt' = [ctxt EXCEPT !.media = WithRuleset(ctxt.media, ctxt.cur),
                                    !.cur = NoStmt]
            /\ UNCHANGED refused
        BY <2>1, <2>13, <3>1, <3>4, <4>1, Dispatch DEF EndOf, end_selector, Expect, Set
      <4>3. /\ ctxt'.cur = NoStmt /\ ctxt'.media = WithRuleset(ctxt.media, ctxt.cur)
            /\ ctxt'.sheet = ctxt.sheet
        BY <2>4, <4>2
      <4>4. WithRuleset(ctxt.media, ctxt.cur) # NoStmt
        BY <2>2, <3>1, <3>4, RulesetAdded, OMAssumption DEF Contexts
      <4>5. /\ OpenStmts = <<ctxt.media, ctxt.cur>>
            /\ OpenStmts' = <<WithRuleset(ctxt.media, ctxt.cur)>>
        BY <2>1, <3>1, <3>2, <3>4, <4>3, <4>4, OpenStmtsAre, OpenStmtsWillBe
      <4>6. SheetSoFar' = SheetSoFar
        BY <2>1, <3>2, <4>3 DEF SheetSoFar
      <4> QED
        BY <2>13, <3>1, <4>2, <4>5, <4>6, SheetEnds DEF SheetStep
    <3> QED
      BY <3>3, <3>4
  <2> QED
    BY <1>4, <2>5, <2>6, <2>7, <2>8, <2>9, <2>10, <2>11, <2>12, <2>13
    DEF RuleStep, Beginning, Ending, Outside, Called
<1> QED
  BY <1>2, <1>3, <1>4 DEF RuleStep

\* The handler answers every call as a handler should, and refuses none, for as long
\* as the @media rule it keeps is the one the parser is in, on every set of texts in
\* which no declaration is cut off by the end of the input.
THEOREM SheetIsThatOfTheRules ==
    ASSUME DeclarationsAreFollowed
    PROVE  OMSpec => SheetFollowsRules
<1> DEFINE I == /\ TInv /\ OMTypeOK /\ Control
                /\ HasContext /\ CurrentStatementIsOpenRule /\ MediaIsKept
<1>1. OMInit => I
  <2>1. OMInit => HasContext /\ CurrentStatementIsOpenRule /\ MediaIsKept
    BY DEF OMInit, Init, HasContext, Outside, CurrentStatementIsOpenRule, MediaIsKept
  <2> QED
    BY <2>1, InitialTypes, InitialOMTypes, InitialControl DEF OMInit
<1>2. ASSUME I, OMNext
      PROVE  I' /\ (MediaInStep /\ MediaInStep' => SheetStep)
  <2>1. TInv' /\ Control'
    BY <1>2, TypesPreserved, ControlPreserved DEF OMNext
  <2>2. OMTypeOK'
    BY <1>2, <2>1, OMTypesPreserved DEF OMNext
  <2>3. RuleStep /\ Handle
    BY <1>2, <2>1, RuleSteps DEF OMNext
  <2>4. Protocol!Next
    BY <1>2, <2>1, ProtocolStep DEF OMNext
  <2>5. MediaStep
    BY <1>2, <2>1, <2>4, MediaSteps
  <2>6. HasContext' /\ CurrentStatementIsOpenRule'
    BY <1>2, <2>1, <2>3, HandlerFollows
  <2>7. MediaIsKept'
    BY <1>2, <2>1, <2>3, <2>5, MediaIsKeptPreserved
  <2>8. MediaInStep /\ MediaInStep' => SheetStep
    BY <1>2, <2>1, <2>2, <2>3, <2>5, SheetFollows
  <2> QED
    BY <2>1, <2>2, <2>6, <2>7, <2>8
<1>3. ASSUME I, UNCHANGED omVars PROVE I'
  <2>1. UNCHANGED vars
    BY <1>3 DEF omVars, vars
  <2>2. TInv'
    BY <1>3, <2>1, TypesPreserved
  <2>3. Control'
    BY <1>3 DEF omVars, Control, RuleControl, MediaControl
  <2> QED
    BY <1>3, <2>2, <2>3
    DEF omVars, OMTypeOK, HasContext, CurrentStatementIsOpenRule, MediaIsKept
<1>4. I /\ [OMNext]_omVars
         => I' /\ [MediaInStep /\ MediaInStep' => SheetStep]_omVars
  BY <1>2, <1>3
<1> QED
  BY <1>1, <1>4, PTL DEF OMSpec, SheetFollowsRules, SheetStep

-----------------------------------------------------------------------------
(* Every statement has one owner.  A statement is known by where it began;   *)
(* the places of the statements kept are apart, and behind the parser.       *)

\* The places of a statement and of the rulesets it holds.
Marks(s) == {s.at} \cup {s.rules[j].at : j \in DOMAIN s.rules}

Neat(s) == \A j \in DOMAIN s.rules :
              /\ s.rules[j].at # s.at
              /\ \A k \in DOMAIN s.rules : s.rules[j].at = s.rules[k].at => j = k

Beside(q, s) == \A i \in DOMAIN q : Marks(q[i]) \cap Marks(s) = {}

AllApart(q) ==
    \A i \in DOMAIN q :
       Neat(q[i]) /\ \A j \in DOMAIN q : i # j => Marks(q[i]) \cap Marks(q[j]) = {}

\* A sheet q and the @media rule m that is kept beside it, if any.
KeptApart(q, m) == AllApart(q) /\ (m # NoStmt => Neat(m) /\ Beside(q, m))
MarksIn(q, m) == (UNION {Marks(q[i]) : i \in DOMAIN q}) \cup (IF m = NoStmt THEN {} ELSE Marks(m))

LEMMA AppendApart ==
    ASSUME NEW S, NEW q \in Seq(S), NEW s, AllApart(q), Neat(s), Beside(q, s)
    PROVE  AllApart(Append(q, s))
<1>1. /\ DOMAIN Append(q, s) = 1..(Len(q) + 1) /\ DOMAIN q = 1..Len(q) /\ Len(q) \in Nat
      /\ \A i \in 1..Len(q) : Append(q, s)[i] = q[i]
      /\ Append(q, s)[Len(q) + 1] = s
  OBVIOUS
<1>2. \A i \in 1..(Len(q) + 1) : i \in 1..Len(q) \/ i = Len(q) + 1
  BY <1>1
<1> DEFINE a == Append(q, s)
<1> HIDE DEF a
<1>3. \A i \in DOMAIN q : Neat(q[i])
  BY DEF AllApart
<1>4. \A i, j \in DOMAIN q : i # j => Marks(q[i]) \cap Marks(q[j]) = {}
  BY Zenon DEF AllApart
<1>5. \A i \in DOMAIN q : Marks(q[i]) \cap Marks(s) = {}
  BY Zenon DEF Beside
<1>6. \A i \in DOMAIN a : (i \in DOMAIN q /\ a[i] = q[i]) \/ (i = Len(q) + 1 /\ a[i] = s)
  BY <1>1, <1>2 DEF a
<1>7. ASSUME NEW i \in DOMAIN a PROVE Neat(a[i])
  BY <1>3, <1>6, <1>7
<1>8. ASSUME NEW i \in DOMAIN a, NEW j \in DOMAIN a, i # j
      PROVE  Marks(a[i]) \cap Marks(a[j]) = {}
  BY <1>4, <1>5, <1>6, <1>8
<1> QED
  BY <1>7, <1>8 DEF AllApart, a

\* A statement is added to the sheet.
LEMMA AddToSheet ==
    ASSUME NEW q \in Seq(Stmts), NEW m, NEW s, KeptApart(q, m), Neat(s),
           MarksIn(q, m) \cap Marks(s) = {}
    PROVE  /\ KeptApart(Append(q, s), m)
           /\ MarksIn(Append(q, s), m) = MarksIn(q, m) \cup Marks(s)
<1>1. /\ DOMAIN Append(q, s) = 1..(Len(q) + 1) /\ DOMAIN q = 1..Len(q) /\ Len(q) \in Nat
      /\ \A i \in 1..Len(q) : Append(q, s)[i] = q[i]
      /\ Append(q, s)[Len(q) + 1] = s
  OBVIOUS
<1>2. \A i : i \in 1..(Len(q) + 1) <=> i \in 1..Len(q) \/ i = Len(q) + 1
  BY <1>1
<1> DEFINE a == Append(q, s)
<1> HIDE DEF a
<1>3. /\ DOMAIN q \subseteq DOMAIN a /\ Len(q) + 1 \in DOMAIN a /\ a[Len(q) + 1] = s
      /\ \A i \in DOMAIN q : a[i] = q[i]
      /\ \A i \in DOMAIN a : i \in DOMAIN q \/ i = Len(q) + 1
  BY <1>1, <1>2 DEF a
<1>4. Beside(q, s)
  <2> SUFFICES ASSUME NEW i \in DOMAIN q PROVE Marks(q[i]) \cap Marks(s) = {}
    BY DEF Beside
  <2>1. Marks(q[i]) \subseteq MarksIn(q, m)
    BY DEF MarksIn
  <2> QED
    BY <2>1
<1>5. AllApart(a)
  BY <1>4, AppendApart DEF KeptApart, a
<1>6. ASSUME m # NoStmt PROVE Neat(m) /\ Beside(a, m)
  <2>1. Neat(m) /\ Beside(q, m)
    BY <1>6 DEF KeptApart
  <2>2. Marks(m) \cap Marks(s) = {}
    BY <1>6 DEF MarksIn
  <2>3. \A i \in DOMAIN q : Marks(q[i]) \cap Marks(m) = {}
    BY <2>1, Zenon DEF Beside
  <2>4. \A i \in DOMAIN a : Marks(a[i]) \cap Marks(m) = {}
    BY <1>3, <2>2, <2>3
  <2> QED
    BY <2>1, <2>4 DEF Beside
<1>7. UNION {Marks(a[i]) : i \in DOMAIN a}
         = (UNION {Marks(q[i]) : i \in DOMAIN q}) \cup Marks(s)
  <2> DEFINE A == UNION {Marks(a[i]) : i \in DOMAIN a}
             Q == UNION {Marks(q[i]) : i \in DOMAIN q}
  <2>1. ASSUME NEW x \in A PROVE x \in Q \cup Marks(s)
    <3>1. PICK i \in DOMAIN a : x \in Marks(a[i])
      BY <2>1
    <3> QED
      BY <1>3, <3>1
  <2>2. ASSUME NEW x \in Q PROVE x \in A
    <3>1. PICK i \in DOMAIN q : x \in Marks(q[i])
      BY <2>2
    <3> QED
      BY <1>3, <3>1
  <2>3. ASSUME NEW x \in Marks(s) PROVE x \in A
    BY <1>3, <2>3
  <2> QED
    BY <2>1, <2>2, <2>3
<1> QED
  BY <1>5, <1>6, <1>7 DEF KeptApart, MarksIn, a

\* The @media rule that is kept becomes a statement of the sheet.
LEMMA MediaToSheet ==
    ASSUME NEW q \in Seq(Stmts), NEW m, KeptApart(q, m), m # NoStmt
    PROVE  /\ KeptApart(Append(q, m), NoStmt)
           /\ MarksIn(Append(q, m), NoStmt) = MarksIn(q, m)
<1>1. KeptApart(q, NoStmt) /\ Neat(m)
  BY DEF KeptApart
<1>2. MarksIn(q, m) = MarksIn(q, NoStmt) \cup Marks(m)
  BY DEF MarksIn
<1>3. MarksIn(q, NoStmt) \cap Marks(m) = {}
  <2> SUFFICES ASSUME NEW x \in MarksIn(q, NoStmt) PROVE x \notin Marks(m)
    OBVIOUS
  <2>1. PICK i \in DOMAIN q : x \in Marks(q[i])
    BY DEF MarksIn
  <2> QED
    BY <2>1 DEF KeptApart, Beside
<1> QED
  BY <1>1, <1>2, <1>3, AddToSheet

\* A ruleset is added to the @media rule.
LEMMA AddToMedia ==
    ASSUME NEW q \in Seq(Stmts), NEW m \in Stmts, NEW r \in Rulesets, KeptApart(q, m),
           m # NoStmt, r.at \notin MarksIn(q, m)
    PROVE  /\ KeptApart(q, WithRuleset(m, r))
           /\ MarksIn(q, WithRuleset(m, r)) = MarksIn(q, m) \cup {r.at}
<1> DEFINE w == WithRuleset(m, r)
<1>1. /\ m.rules \in Seq(Rulesets) /\ w.at = m.at /\ w.rules = Append(m.rules, r)
  BY DEF Stmts, WithRuleset
<1>2. /\ Len(m.rules) \in Nat /\ DOMAIN m.rules = 1..Len(m.rules)
      /\ DOMAIN w.rules = 1..(Len(m.rules) + 1)
      /\ \A j \in 1..Len(m.rules) : w.rules[j] = m.rules[j]
      /\ w.rules[Len(m.rules) + 1] = r
  BY <1>1
<1>3. \A j : j \in 1..(Len(m.rules) + 1) <=> j \in 1..Len(m.rules) \/ j = Len(m.rules) + 1
  BY <1>2
<1>4. Neat(m) /\ Beside(q, m) /\ AllApart(q)
  BY DEF KeptApart
<1>5. Marks(w) = Marks(m) \cup {r.at}
  BY <1>1, <1>2, <1>3 DEF Marks
<1>6. r.at \notin Marks(m) /\ \A i \in DOMAIN q : r.at \notin Marks(q[i])
  <2>1. Marks(m) \subseteq MarksIn(q, m)
    BY DEF MarksIn
  <2>2. \A i \in DOMAIN q : Marks(q[i]) \subseteq MarksIn(q, m)
    BY DEF MarksIn
  <2> QED
    BY <2>1, <2>2
<1>7. Neat(w)
  <2>1. r.at # m.at /\ \A j \in DOMAIN m.rules : m.rules[j].at # r.at
    BY <1>6 DEF Marks
  <2>2. \A j \in DOMAIN m.rules :
           /\ m.rules[j].at # m.at
           /\ \A k \in DOMAIN m.rules : m.rules[j].at = m.rules[k].at => j = k
    BY <1>4, Zenon DEF Neat
  <2>3. \A j \in DOMAIN w.rules :
           \/ j \in DOMAIN m.rules /\ w.rules[j] = m.rules[j]
           \/ j = Len(m.rules) + 1 /\ w.rules[j] = r
    BY <1>2, <1>3
  <2> HIDE DEF w
  <2>4. ASSUME NEW j \in DOMAIN w.rules, NEW k \in DOMAIN w.rules,
               w.rules[j].at = w.rules[k].at
        PROVE  j = k
    BY <2>1, <2>2, <2>3, <2>4
  <2>5. ASSUME NEW j \in DOMAIN w.rules PROVE w.rules[j].at # w.at
    BY <1>1, <2>1, <2>2, <2>3, <2>5
  <2> QED
    BY <2>4, <2>5 DEF Neat
<1>8. Beside(q, w)
  <2>1. \A i \in DOMAIN q : Marks(q[i]) \cap Marks(m) = {}
    BY <1>4, Zenon DEF Beside
  <2>2. \A i \in DOMAIN q : Marks(q[i]) \cap Marks(w) = {}
    BY <1>5, <1>6, <2>1
  <2> QED
    BY <2>2 DEF Beside
<1>9. w # NoStmt
  BY RulesetAdded, OMAssumption
<1> QED
  BY <1>4, <1>5, <1>7, <1>8, <1>9 DEF KeptApart, MarksIn

\* A statement that is new, or a ruleset: it holds no other.
LEMMA AloneIsNeat ==
    ASSUME NEW s, s.rules = <<>>
    PROVE  Neat(s) /\ Marks(s) = {s.at}
<1>1. DOMAIN s.rules = {}
  OBVIOUS
<1> QED
  BY <1>1 DEF Neat, Marks

\* What the handler does with the sheet and the @media rule it keeps.
Kept(c, q, m) == c.sheet = q /\ c.media = m

LEMMA SheetChanges ==
    ASSUME OMTypeOK, Handle, ctxt # NoContext, ctxt' # NoContext
    PROVE  \/ Kept(ctxt', ctxt.sheet, ctxt.media)
           \/ Kept(ctxt', <<>>, NoStmt)
           \/ /\ StartsRule
              /\ \E kind \in Kinds :
                    Kept(ctxt', Append(ctxt.sheet, Stmt(kind, sac'.at)), ctxt.media)
           \/ /\ StartsRule /\ ctxt.media = NoStmt
              /\ Kept(ctxt', ctxt.sheet, Stmt("media", sac'.at))
           \/ /\ ctxt.media # NoStmt
              /\ Kept(ctxt', Append(ctxt.sheet, ctxt.media), NoStmt)
           \/ /\ EndsRule /\ ctxt.cur # NoStmt
              /\ Kept(ctxt', Append(ctxt.sheet, ctxt.cur), ctxt.media)
           \/ /\ EndsRule /\ ctxt.cur # NoStmt /\ ctxt.media # NoStmt
              /\ Kept(ctxt', ctxt.sheet, WithRuleset(ctxt.media, ctxt.cur))
<1>1. ctxt \in Contexts
  BY DEF OMTypeOK
<1>2. /\ \A c : Kept([ctxt EXCEPT !.cur = c], ctxt.sheet, ctxt.media)
      /\ \A s : Kept([ctxt EXCEPT !.sheet = s], s, ctxt.media)
      /\ \A s : Kept([ctxt EXCEPT !.sheet = s, !.cur = NoStmt], s, ctxt.media)
      /\ \A m : Kept([ctxt EXCEPT !.media = m], ctxt.sheet, m)
      /\ \A m : Kept([ctxt EXCEPT !.media = m, !.cur = NoStmt], ctxt.sheet, m)
      /\ \A s : Kept([ctxt EXCEPT !.sheet = s, !.cur = NoStmt, !.media = NoStmt], s, NoStmt)
      /\ Kept(ctxt, ctxt.sheet, ctxt.media)
      /\ Kept(Context, <<>>, NoStmt)
  BY <1>1 DEF Contexts, Kept, Context
<1>3. CASE \/ start_document \/ end_document \/ unrecoverable_error \/ NotCalled
  <2>1. ctxt' = ctxt \/ ctxt' = Context
    BY <1>3 DEF start_document, Set, end_document, unrecoverable_error, NotCalled
  <2> QED
    BY <1>2, <2>1
<1>4. CASE \/ error \/ start_selector \/ property
           \/ StartBlock("start_page", "page") \/ StartBlock("start_font_face", "font_face")
  <2>1. \/ ctxt' = ctxt
        \/ \E c : ctxt' = [ctxt EXCEPT !.cur = c]
    BY <1>4 DEF error, start_selector, property, StartBlock, Expect, Set
  <2> QED
    BY <1>2, <2>1
<1>5. CASE charset \/ import_style
  <2>1. StartsRule
    BY <1>5 DEF charset, import_style, Called, StartsRule
  <2>2. \/ ctxt' = ctxt
        \/ \E kind \in Kinds :
              ctxt' = [ctxt EXCEPT !.sheet = Append(ctxt.sheet, Stmt(kind, sac'.at))]
    BY <1>5 DEF charset, import_style, Expect, Set, Kinds
  <2> QED
    BY <1>2, <2>1, <2>2
<1>6. CASE EndBlock("end_page", "page") \/ EndBlock("end_font_face", "font_face")
  <2>1. EndsRule
    BY <1>6 DEF EndBlock, Called, EndsRule
  <2>2. \/ ctxt' = ctxt
        \/ /\ ctxt.cur # NoStmt
           /\ ctxt' = [ctxt EXCEPT !.sheet = Append(ctxt.sheet, ctxt.cur), !.cur = NoStmt]
    BY <1>6 DEF EndBlock, Expect, Set
  <2> QED
    BY <1>2, <2>1, <2>2
<1>7. CASE start_media
  <2>1. StartsRule
    BY <1>7 DEF start_media, Called, StartsRule
  <2>2. \/ ctxt' = ctxt
        \/ ctxt.media = NoStmt /\ ctxt' = [ctxt EXCEPT !.media = Stmt("media", sac'.at)]
    BY <1>7 DEF start_media, Expect, Set
  <2> QED
    BY <1>2, <2>1, <2>2
<1>8. CASE end_media
  <2>1. \/ ctxt' = ctxt
        \/ /\ ctxt.media # NoStmt
           /\ ctxt' = [ctxt EXCEPT !.sheet = Append(ctxt.sheet, ctxt.media),
                                   !.cur = NoStmt, !.media = NoStmt]
    <3>1. \/ ctxt' = ctxt
          \/ /\ ctxt.media # NoStmt
             /\ ctxt' = [ctxt EXCEPT !.sheet = Append(@, ctxt.media),
                                     !.cur = NoStmt, !.media = NoStmt]
      BY <1>8 DEF end_media, Expect, Set
    <3> QED
      BY <3>1
  <2> QED
    BY <1>2, <2>1
<1>9. CASE end_selector
  <2>1. EndsRule
    BY <1>9 DEF end_selector, Called, EndsRule
  <2>2. \/ ctxt' = ctxt
        \/ /\ ctxt.cur # NoStmt /\ ctxt.media # NoStmt
           /\ ctxt' = [ctxt EXCEPT !.media = WithRuleset(ctxt.media, ctxt.cur),
                                   !.cur = NoStmt]
        \/ /\ ctxt.cur # NoStmt
           /\ ctxt' = [ctxt EXCEPT !.sheet = Append(ctxt.sheet, ctxt.cur), !.cur = NoStmt]
    BY <1>9 DEF end_selector, Expect, Set
  <2> QED
    BY <1>2, <2>1, <2>2
<1> QED
  BY <1>3, <1>4, <1>5, <1>6, <1>7, <1>8, <1>9 DEF Handle

\* The statements kept are apart, and the parser is past all of them.
Apart ==
    ctxt # NoContext =>
        /\ KeptApart(ctxt.sheet, ctxt.media)
        /\ \A a \in MarksIn(ctxt.sheet, ctxt.media) : Reached(a)

LEMMA MarksAreNumbers ==
    ASSUME OMTypeOK, ctxt # NoContext
    PROVE  MarksIn(ctxt.sheet, ctxt.media) \subseteq Nat
<1>1. ctxt.sheet \in Seq(Stmts) /\ ctxt.media \in Stmts \cup {NoStmt}
  BY DEF OMTypeOK, Contexts
<1>2. ASSUME NEW s \in Stmts PROVE Marks(s) \subseteq Nat
  <2>1. s.at \in Nat /\ s.rules \in Seq(Rulesets)
    BY DEF Stmts
  <2>2. \A j \in DOMAIN s.rules : s.rules[j] \in Rulesets
    BY <2>1
  <2>3. \A j \in DOMAIN s.rules : s.rules[j].at \in Nat
    BY <2>2 DEF Rulesets
  <2> QED
    BY <2>1, <2>3 DEF Marks
<1>3. \A i \in DOMAIN ctxt.sheet : ctxt.sheet[i] \in Stmts
  BY <1>1
<1>4. \A i \in DOMAIN ctxt.sheet : Marks(ctxt.sheet[i]) \subseteq Nat
  BY <1>2, <1>3
<1>5. ctxt.media # NoStmt => Marks(ctxt.media) \subseteq Nat
  BY <1>1, <1>2
<1> QED
  BY <1>4, <1>5 DEF MarksIn

\* A rule that is open began behind every statement kept.
LEMMA OpenRuleIsBeyond ==
    ASSUME TInv, Control, rule.started, NEW a, Reached(a)
    PROVE  a < rule.from
<1>1. /\ pc \in {"first", "next", "end", "return"} /\ rule.fn # "none"
      /\ rule.started
  BY DEF Control, RuleControl, TInv, TypeOK, Frames
<1>2. ~Rewound
  BY <1>1 DEF Rewound
<1> QED
  BY <1>1, <1>2 DEF Reached, RuleLabels, Lost

LEMMA ApartPreserved ==
    ASSUME TInv, TInv', Control, OMTypeOK, CurrentStatementIsOpenRule, Apart, Passing,
           Handle
    PROVE  Apart'
<1>1. sac'.at \in Nat
  <2>1. Len(text') \in Nat
    BY DEF TInv, TypeOK
  <2> QED
    BY <2>1 DEF TInv, TypeOK, Places
<1>2. /\ KeptApart(<<>>, NoStmt) /\ MarksIn(<<>>, NoStmt) = {}
  BY DEF KeptApart, MarksIn, AllApart
<1> SUFFICES ASSUME ctxt' # NoContext
             PROVE  /\ KeptApart(ctxt'.sheet, ctxt'.media)
                    /\ \A a \in MarksIn(ctxt'.sheet, ctxt'.media) : Reached(a)'
  BY DEF Apart
<1>3. CASE ctxt = NoContext
  <2>1. ctxt' = Context
    BY <1>3 DEF Handle, start_document, Set, Context, end_document, unrecoverable_error,
       NotCalled, error, start_selector, end_selector, charset, import_style, property,
       start_media, end_media, StartBlock, EndBlock, Expect
  <2> QED
    BY <1>2, <2>1 DEF Context
<1>4. CASE ctxt # NoContext
  <2> DEFINE q == ctxt.sheet
             m == ctxt.media
  <2>1. /\ q \in Seq(Stmts) /\ m \in Stmts \cup {NoStmt} /\ ctxt.cur \in Rulesets \cup {NoStmt}
        /\ KeptApart(q, m) /\ \A a \in MarksIn(q, m) : Reached(a) /\ a \in Int
    <3>1. MarksIn(q, m) \subseteq Nat
      BY <1>4, MarksAreNumbers
    <3> QED
      BY <1>4, <3>1 DEF OMTypeOK, Contexts, Apart
  <2>2. \A a \in MarksIn(q, m) : Reached(a)'
    BY <2>1 DEF Passing
  <2>3. ASSUME StartsRule
        PROVE  /\ sac'.at \notin MarksIn(q, m)
               /\ \A a : a = sac'.at => Reached(a)'
    <3>1. \A a \in MarksIn(q, m) : a < sac'.at
      BY <2>1, <2>3 DEF Passing
    <3>2. sac'.at \notin MarksIn(q, m)
      BY <1>1, <3>1
    <3> QED
      BY <2>3, <3>2 DEF Passing
  <2>4. ASSUME EndsRule, ctxt.cur # NoStmt
        PROVE  /\ ctxt.cur.at \notin MarksIn(q, m)
               /\ \A a : a = ctxt.cur.at => Reached(a)'
               /\ ctxt.cur \in Rulesets /\ Neat(ctxt.cur) /\ Marks(ctxt.cur) = {ctxt.cur.at}
    <3>1. rule.started /\ ctxt.cur.at = rule.from
      BY <1>4, <2>4 DEF CurrentStatementIsOpenRule
    <3>2. \A a \in MarksIn(q, m) : a < rule.from
      BY <2>1, <3>1, OpenRuleIsBeyond
    <3>3. rule.from \in Int
      BY Positions
    <3>4. ctxt.cur \in Rulesets /\ ctxt.cur.rules = <<>>
      BY <2>1, <2>4 DEF Rulesets
    <3> QED
      BY <2>4, <3>1, <3>2, <3>3, <3>4, AloneIsNeat DEF Passing
  <2>5. \A kind : Stmt(kind, sac'.at).rules = <<>> /\ Stmt(kind, sac'.at).at = sac'.at
    BY DEF Stmt
  <2>6. \A kind : Neat(Stmt(kind, sac'.at)) /\ Marks(Stmt(kind, sac'.at)) = {sac'.at}
    BY <2>5, AloneIsNeat
  <2>7. CASE Kept(ctxt', q, m)
    BY <2>1, <2>2, <2>7 DEF Kept
  <2>8. CASE Kept(ctxt', <<>>, NoStmt)
    BY <1>2, <2>8 DEF Kept
  <2>9. CASE StartsRule /\ \E kind \in Kinds : Kept(ctxt', Append(q, Stmt(kind, sac'.at)), m)
    <3>1. PICK kind \in Kinds : Kept(ctxt', Append(q, Stmt(kind, sac'.at)), m)
      BY <2>9
    <3>2. /\ KeptApart(Append(q, Stmt(kind, sac'.at)), m)
          /\ MarksIn(Append(q, Stmt(kind, sac'.at)), m) = MarksIn(q, m) \cup {sac'.at}
      <4>1. MarksIn(q, m) \cap Marks(Stmt(kind, sac'.at)) = {}
        BY <2>3, <2>6, <2>9
      <4> QED
        BY <2>1, <2>6, <4>1, AddToSheet
    <3> QED
      BY <2>2, <2>3, <2>9, <3>1, <3>2 DEF Kept
  <2>10. CASE StartsRule /\ m = NoStmt /\ Kept(ctxt', q, Stmt("media", sac'.at))
    <3> DEFINE s == Stmt("media", sac'.at)
    <3>1. s # NoStmt
      BY <1>1, NewStatement DEF Kinds
    <3>2. Beside(q, s)
      <4> SUFFICES ASSUME NEW i \in DOMAIN q PROVE Marks(q[i]) \cap Marks(s) = {}
        BY DEF Beside
      <4>1. Marks(q[i]) \subseteq MarksIn(q, m)
        BY DEF MarksIn
      <4> QED
        BY <2>3, <2>6, <2>10, <4>1
    <3>3. KeptApart(q, s)
      BY <2>1, <2>6, <3>2 DEF KeptApart
    <3>4. MarksIn(q, s) = MarksIn(q, m) \cup {sac'.at}
      BY <2>6, <2>10, <3>1 DEF MarksIn
    <3> QED
      BY <2>2, <2>3, <2>10, <3>3, <3>4 DEF Kept
  <2>11. CASE m # NoStmt /\ Kept(ctxt', Append(q, m), NoStmt)
    <3>1. /\ KeptApart(Append(q, m), NoStmt)
          /\ MarksIn(Append(q, m), NoStmt) = MarksIn(q, m)
      BY <2>1, <2>11, MediaToSheet
    <3> QED
      BY <2>2, <2>11, <3>1 DEF Kept
  <2>12. CASE EndsRule /\ ctxt.cur # NoStmt /\ Kept(ctxt', Append(q, ctxt.cur), m)
    <3>1. /\ KeptApart(Append(q, ctxt.cur), m)
          /\ MarksIn(Append(q, ctxt.cur), m) = MarksIn(q, m) \cup {ctxt.cur.at}
      <4>1. MarksIn(q, m) \cap Marks(ctxt.cur) = {}
        BY <2>4, <2>12
      <4> QED
        BY <2>1, <2>4, <2>12, <4>1, AddToSheet
    <3> QED
      BY <2>2, <2>4, <2>12, <3>1 DEF Kept
  <2>13. CASE /\ EndsRule /\ ctxt.cur # NoStmt /\ m # NoStmt
              /\ Kept(ctxt', q, WithRuleset(m, ctxt.cur))
    <3>1. /\ KeptApart(q, WithRuleset(m, ctxt.cur))
          /\ MarksIn(q, WithRuleset(m, ctxt.cur)) = MarksIn(q, m) \cup {ctxt.cur.at}
      BY <2>1, <2>4, <2>13, AddToMedia
    <3> QED
      BY <2>2, <2>4, <2>13, <3>1 DEF Kept
  <2> QED
    BY <1>4, <2>7, <2>8, <2>9, <2>10, <2>11, <2>12, <2>13, SheetChanges
<1> QED
  BY <1>3, <1>4

\* Statements that are apart have one owner each.
LEMMA ApartHaveOneOwner ==
    ASSUME NEW s, AllApart(s)
    PROVE  \A x, y \in Owned(s) : x[1] = y[1] => x = y
<1>1. ASSUME NEW x \in Owned(s)
      PROVE  \E i \in DOMAIN s :
                /\ x[1] \in Marks(s[i])
                /\ \/ x = <<s[i].at, i, 0>>
                   \/ \E j \in DOMAIN s[i].rules : x = <<s[i].rules[j].at, i, j>>
  <2>1. PICK i \in DOMAIN s :
           x \in {<<s[i].at, i, 0>>} \cup {<<s[i].rules[j].at, i, j>> : j \in DOMAIN s[i].rules}
    BY DEF Owned
  <2> QED
    BY <2>1 DEF Marks
<1> SUFFICES ASSUME NEW x \in Owned(s), NEW y \in Owned(s), x[1] = y[1]
             PROVE  x = y
  OBVIOUS
<1>2. PICK i \in DOMAIN s :
         /\ x[1] \in Marks(s[i])
         /\ \/ x = <<s[i].at, i, 0>>
            \/ \E j \in DOMAIN s[i].rules : x = <<s[i].rules[j].at, i, j>>
  BY <1>1
<1>3. PICK k \in DOMAIN s :
         /\ y[1] \in Marks(s[k])
         /\ \/ y = <<s[k].at, k, 0>>
            \/ \E j \in DOMAIN s[k].rules : y = <<s[k].rules[j].at, k, j>>
  BY <1>1
<1>4. i = k
  BY <1>2, <1>3 DEF AllApart
<1>5. \A j \in DOMAIN s[i].rules :
         /\ s[i].rules[j].at # s[i].at
         /\ \A l \in DOMAIN s[i].rules : s[i].rules[j].at = s[i].rules[l].at => j = l
  BY DEF AllApart, Neat
<1>6. CASE x = <<s[i].at, i, 0>>
  BY <1>3, <1>4, <1>5, <1>6
<1>7. CASE \E j \in DOMAIN s[i].rules : x = <<s[i].rules[j].at, i, j>>
  BY <1>3, <1>4, <1>5, <1>7
<1> QED
  BY <1>2, <1>6, <1>7

LEMMA ApartIsOwned ==
    ASSUME TInv, Control, OMTypeOK, CurrentStatementIsOpenRule, Apart
    PROVE  OneOwner
<1> SUFFICES ASSUME ctxt # NoContext
             PROVE  AllApart(ctxt.sheet \o Opened(ctxt.media) \o Opened(ctxt.cur))
  BY ApartHaveOneOwner, Zenon DEF OneOwner
<1> DEFINE q == ctxt.sheet
           m == ctxt.media
           c == ctxt.cur
<1>1. /\ q \in Seq(Stmts) /\ m \in Stmts \cup {NoStmt} /\ c \in Rulesets \cup {NoStmt}
      /\ KeptApart(q, m) /\ \A a \in MarksIn(q, m) : Reached(a)
  BY DEF OMTypeOK, Contexts, Apart
<1> DEFINE w == q \o Opened(m)
<1>2. w \in Seq(Stmts) /\ w = IF m = NoStmt THEN q ELSE Append(q, m)
  <2>1. CASE m = NoStmt
    BY <1>1, <2>1 DEF Opened
  <2>2. CASE m # NoStmt
    BY <1>1, <2>2 DEF Opened
  <2> QED
    BY <2>1, <2>2
<1>3. KeptApart(w, NoStmt) /\ MarksIn(w, NoStmt) = MarksIn(q, m)
  BY <1>1, <1>2, MediaToSheet
<1> HIDE DEF w
<1>4. CASE c = NoStmt
  <2>1. w \o Opened(c) = w
    BY <1>2, <1>4 DEF Opened
  <2> QED
    BY <1>3, <2>1 DEF KeptApart, w
<1>5. CASE c # NoStmt
  <2>1. w \o Opened(c) = Append(w, c)
    BY <1>2, <1>5 DEF Opened
  <2>2. rule.started /\ c.at = rule.from /\ rule.from \in Int
    BY <1>5, Positions DEF CurrentStatementIsOpenRule
  <2>3. \A a \in MarksIn(q, m) : a < c.at
    BY <1>1, <2>2, OpenRuleIsBeyond
  <2>4. MarksIn(q, m) \subseteq Nat
    BY MarksAreNumbers
  <2>5. c.at \notin MarksIn(q, m)
    BY <2>2, <2>3, <2>4
  <2>6. c.rules = <<>>
    BY <1>1, <1>5 DEF Rulesets
  <2>7. Neat(c) /\ Marks(c) = {c.at}
    BY <2>6, AloneIsNeat
  <2>8. MarksIn(w, NoStmt) \cap Marks(c) = {}
    BY <1>3, <2>5, <2>7
  <2>9. KeptApart(Append(w, c), NoStmt)
    BY <1>2, <1>3, <2>7, <2>8, AddToSheet
  <2> QED
    BY <2>1, <2>9 DEF KeptApart, w
<1> QED
  BY <1>4, <1>5

\* However a text is broken and wherever parsing resumes, every statement is owned
\* once: by the sheet, by an @media rule or by a field of the context, on every set of
\* texts whose blocks are read as blocks and whose statements are read past.
THEOREM StatementsHaveOneOwner ==
    ASSUME DeclarationsAreFollowed, BlocksAreRead, StatementsMoveOn
    PROVE  OMSpec => []OneOwner
<1> DEFINE I == /\ TInv /\ OMTypeOK /\ Control /\ Blocks
                /\ HasContext /\ CurrentStatementIsOpenRule /\ Apart
<1>1. OMInit => I
  <2>1. OMInit => HasContext /\ CurrentStatementIsOpenRule /\ Apart
    BY DEF OMInit, Init, HasContext, Outside, CurrentStatementIsOpenRule, Apart
  <2> QED
    BY <2>1, InitialTypes, InitialOMTypes, InitialControl, InitialBlocks DEF OMInit
<1>2. ASSUME I, OMNext PROVE I'
  <2>1. TInv' /\ Control'
    BY <1>2, TypesPreserved, ControlPreserved DEF OMNext
  <2>2. Blocks'
    BY <1>2, <2>1, BlocksPreserved DEF OMNext
  <2>3. OMTypeOK'
    BY <1>2, <2>1, OMTypesPreserved DEF OMNext
  <2>4. HasContext' /\ CurrentStatementIsOpenRule'
    BY <1>2, <2>1, RuleSteps, HandlerFollows DEF OMNext
  <2>5. Passing
    BY <1>2, EveryStepPasses DEF OMNext
  <2>6. Apart'
    BY <1>2, <2>1, <2>5, ApartPreserved DEF OMNext
  <2> QED
    BY <2>1, <2>2, <2>3, <2>4, <2>6
<1>3. ASSUME I, UNCHANGED omVars PROVE I'
  <2>1. UNCHANGED vars
    BY <1>3 DEF omVars, vars
  <2>2. TInv'
    BY <1>3, <2>1, TypesPreserved
  <2>3. Control'
    BY <1>3 DEF omVars, Control, RuleControl, MediaControl
  <2>4. Blocks'
    BY <1>3 DEF omVars, Blocks, OuterBlocks, RuleBlocks, MediaBlocks, InMedia, Above, Opening,
                BlocksAround, Depth
  <2>5. Apart'
    BY <1>3 DEF omVars, Apart, Reached, Rewound, Past
  <2> QED
    BY <1>3, <2>2, <2>3, <2>4, <2>5
    DEF omVars, OMTypeOK, HasContext, CurrentStatementIsOpenRule
<1>4. I => OneOwner
  BY ApartIsOwned
<1> HIDE DEF I
<1>5. I /\ [OMNext]_omVars => I'
  BY <1>2, <1>3
<1> QED
  BY <1>1, <1>4, <1>5, PTL DEF OMSpec
=============================================================================
