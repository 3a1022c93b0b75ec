--------------------------- MODULE CRParserProofs ---------------------------
(***************************************************************************)
(* Proofs about CRParser, for every set of texts and every behaviour of    *)
(* the productions that the assumption of CRParser allows: that its        *)
(* variables have their types, and, where no declaration is cut off by the *)
(* end of the input, that it calls the document handler as SacProtocol     *)
(* demands.                                                                *)
(***************************************************************************)
EXTENDS CRParser, TLAPS, SequenceTheorems, FiniteSetTheorems

\* Skipping blanks stays in the text, and so does what a production consumes.
LEMMA SkipStays ==
    ASSUME NEW t \in Texts, NEW p \in 0..Len(t)
    PROVE  Skip(t, p) \in 0..Len(t) /\ Skip(t, p) >= p
<1>1. Len(t) \in Nat
  BY ParserAssumption
<1>2. Skip(t, p) \in p..Len(t)
  BY ParserAssumption
<1> QED
  BY <1>1, <1>2

LEMMA FoundStays ==
    ASSUME NEW t \in Texts, NEW p \in 0..Len(t), NEW r \in Found(t, p)
    PROVE  /\ r.status \in Statuses
           /\ r.pos \in 0..Len(t) /\ r.pos >= p
           /\ r.status # "CR_OK" => r.pos = p
<1>1. Len(t) \in Nat
  BY ParserAssumption
<1>2. r \in Results(t, p)
  BY ParserAssumption
<1> QED
  BY <1>1, <1>2 DEF Results

-----------------------------------------------------------------------------
(* Type correctness.  Positions stay in the text because a routine steps over *)
(* a token only where it has found one, and the frame of a rule says which    *)
(* function of the handler ends it.                                           *)

\* parse_ruleset, parse_page and parse_font_face run in the frame of their rule.
RuleLabels == {"ruleset", "page", "font_face", "first", "next", "end"}
InRule == pc \in RuleLabels => rule.fn # "none"

TInv == text \in Texts /\ TypeOK /\ InRule

LEMMA InitialTypes == Init => TInv
<1> SUFFICES ASSUME Init PROVE TInv
  OBVIOUS
<1>1. text \in Seq(Tokens) /\ Len(text) \in Nat
  BY ParserAssumption DEF Init
<1> QED
  BY <1>1 DEF Init, TInv, TypeOK, InRule, RuleLabels, Places, Frames, NoFrame, NoCall, Calls, Labels, Statuses

\* The token at a position is there to be stepped over.
LEMMA TokenThere ==
    ASSUME NEW t \in Texts, NEW p \in 0..Len(t), At(t, p) # NoMore
    PROVE  p + 1 \in 0..Len(t)
<1>1. Len(t) \in Nat
  BY ParserAssumption
<1> QED
  BY <1>1 DEF At

\* What a typed state gives the steps: the place a routine moves to is one.
LEMMA PlacesToGo ==
    ASSUME TInv
    PROVE  /\ 0 \in Places /\ pos \in Places
           /\ \A p \in Places : Skip(text, p) \in Places
           /\ \A p \in Places : At(text, p) # NoMore => p + 1 \in Places
           /\ \A p \in Places : \A r \in Found(text, p) :
                 r.status \in Statuses /\ r.pos \in Places
           /\ Len(text) \in Places
<1>1. Len(text) \in Nat /\ text \in Texts /\ pos \in Places
  BY ParserAssumption DEF TInv, TypeOK
<1>2. \A p \in Places : Skip(text, p) \in Places
  BY <1>1, SkipStays DEF Places
<1>3. \A p \in Places : At(text, p) # NoMore => p + 1 \in Places
  BY <1>1, TokenThere DEF Places
<1>4. \A p \in Places : \A r \in Found(text, p) :
           r.status \in Statuses /\ r.pos \in Places
  BY <1>1, FoundStays DEF Places
<1> QED
  BY <1>1, <1>2, <1>3, <1>4 DEF Places

\* A call of the handler is typed, and so is a step without one.
LEMMA CallTyped ==
    ASSUME TInv, text' = text, NEW f \in Calls, NEW p \in Places, Call(f, p)
    PROVE  sac' \in [call: Calls, at: Places]'
  BY DEF Call, Places

LEMMA SilentTyped ==
    ASSUME TInv, text' = text, Silent
    PROVE  sac' \in [call: Calls, at: Places]'
<1>1. 0 \in Places
  BY PlacesToGo
<1> QED
  BY <1>1 DEF Silent, NoCall, Calls, Places

\* A frame that is made, or whose rule is started or ended.
LEMMA FrameTyped ==
    ASSUME TInv, NEW p \in Places, NEW b \in BOOLEAN
    PROVE  /\ NoFrame \in Frames({"none", "media"})
           /\ NoFrame \in Frames({"none"} \cup Rules)
           /\ Frame("media", p) \in Frames({"none", "media"})
           /\ \A fn \in Rules : /\ Frame(fn, p) \in Frames({"none"} \cup Rules)
                                /\ Frame(fn, p).fn = fn
           /\ [rule EXCEPT !.started = b] \in Frames({"none"} \cup Rules)
           /\ [rule EXCEPT !.started = b].fn = rule.fn
           /\ [media EXCEPT !.started = b] \in Frames({"none", "media"})
<1>1. 0 \in Places
  BY PlacesToGo
<1> QED
  BY <1>1 DEF NoFrame, Frame, Frames, TInv, TypeOK

\* The part of a step that only changes label, status, position and call.
LEMMA LeaveTyped ==
    ASSUME TInv, NEW l \in Labels, NEW s \in Statuses, Leave(l, s),
           l \notin RuleLabels,
           pos' \in Places, sac' \in [call: Calls, at: Places]'
    PROVE  TInv'
  BY DEF TInv, TypeOK, InRule, RuleLabels, Leave, Places, Frames

LEMMA FailTyped ==
    ASSUME TInv, NEW s \in Statuses, Fail(s)
    PROVE  TInv'
<1>1. rule.from \in Places /\ rule' \in Frames({"none"} \cup Rules)
  BY FrameTyped, PlacesToGo DEF Fail, TInv, TypeOK, Frames
<1>2. sac' \in [call: Calls, at: Places]'
  BY <1>1, CallTyped, SilentTyped DEF Fail, Calls
<1> QED
  BY <1>1, <1>2 DEF Fail, TInv, TypeOK, InRule, RuleLabels, Places, Frames, Labels

LEMMA StartedTyped ==
    ASSUME TInv, rule.fn # "none", NEW f \in Calls, NEW p \in Places, Started(f, p)
    PROVE  TInv'
<1>1. rule.from \in Places /\ rule' \in Frames({"none"} \cup Rules)
      /\ rule'.fn # "none"
  BY FrameTyped, PlacesToGo DEF Started, TInv, TypeOK, Frames
<1>2. sac' \in [call: Calls, at: Places]'
  BY <1>1, CallTyped DEF Started
<1>3. pos' \in Places
  BY PlacesToGo DEF Started
<1> QED
  BY <1>1, <1>2, <1>3
  DEF Started, TInv, TypeOK, InRule, RuleLabels, Places, Frames, Labels, Statuses

LEMMA DeclaredTyped ==
    ASSUME TInv, rule.fn # "none", NEW l \in {"next", "end"}, NEW p \in Places,
           Declared(l, Declaration(text, p), p), status' \in Statuses
    PROVE  TInv'
<1>1. Declaration(text, p).pos \in Places
  BY PlacesToGo DEF Found
<1>2. sac' \in [call: Calls, at: Places]'
  BY CallTyped, SilentTyped DEF Declared, Calls
<1> QED
  BY <1>1, <1>2 DEF Declared, TInv, TypeOK, InRule, RuleLabels, Places, Frames, Labels

LEMMA FailMediaTyped ==
    ASSUME TInv, NEW s \in Statuses, FailMedia(s)
    PROVE  TInv'
<1>1. media.from \in Places /\ rule' \in Frames({"none"} \cup Rules)
  BY FrameTyped, PlacesToGo DEF FailMedia, TInv, TypeOK, Frames
<1>2. sac' \in [call: Calls, at: Places]'
  BY SilentTyped DEF FailMedia
<1> QED
  BY <1>1, <1>2 DEF FailMedia, TInv, TypeOK, InRule, RuleLabels, Places, Frames, Labels

LEMMA TypesPreserved == TInv /\ [Next]_vars => TInv'
<1> SUFFICES ASSUME TInv, [Next]_vars PROVE TInv'
  OBVIOUS
<1> DEFINE SacOK == sac' \in [call: Calls, at: Places]'
<1>1. /\ 0 \in Places /\ pos \in Places /\ Len(text) \in Places
      /\ \A p \in Places : Skip(text, p) \in Places
      /\ \A p \in Places : At(text, p) # NoMore => p + 1 \in Places
      /\ \A p \in Places : \A r \in Found(text, p) :
            r.status \in Statuses /\ r.pos \in Places
  BY PlacesToGo
<1>2. /\ status \in Statuses
      /\ media.from \in Places /\ rule.from \in Places
      /\ rule.fn \in {"none"} \cup Rules
  BY DEF TInv, TypeOK, Frames
<1>3. {"CR_OK", "CR_PARSING_ERROR", "CR_BAD_PARAM_ERROR", NoMore} \subseteq Statuses
  BY DEF Statuses, NoMore
<1>4. ASSUME text' = text, NEW f \in Calls, NEW p \in Places, Call(f, p) PROVE SacOK
  BY <1>4, CallTyped
<1>5. ASSUME text' = text, Silent PROVE SacOK
  BY <1>5, SilentTyped
<1> HIDE DEF SacOK
<1>10. CASE StartDocument
  <2>1. SacOK
    BY <1>1, <1>4, <1>10 DEF StartDocument, Leave, Calls
  <2> QED
    BY <1>1, <1>2, <1>10, <2>1, LeaveTyped DEF StartDocument, SacOK, Labels, RuleLabels
<1>11. CASE CharsetStatement
  <2> DEFINE p == Skip(text, pos)
  <2>1. p \in Places
    BY <1>1
  <2>2. Charset(text, p).pos \in Places /\ AtruleCore(text, p).pos \in Places
    BY <1>1, <2>1 DEF Found
  <2>3. SacOK
    BY <1>4, <1>5, <1>11, <2>1 DEF CharsetStatement, Leave, Calls
  <2>4. pos' \in Places
    BY <1>11, <2>1, <2>2 DEF CharsetStatement
  <2>5. \E l \in {"done", "skip_cdo", "error"}, s \in Statuses : Leave(l, s)
    BY <1>3, <1>11 DEF CharsetStatement
  <2> QED
    BY <2>3, <2>4, <2>5, LeaveTyped DEF SacOK, Labels, RuleLabels
<1>12. CASE SkipCDO
  <2>1. SacOK
    BY <1>5, <1>12 DEF SkipCDO, Leave
  <2>2. pos' \in Places
    BY <1>1, <1>12 DEF SkipCDO, NoMore
  <2>3. \E l \in {"done", "skip_cdo", "imports"}, s \in Statuses : Leave(l, s)
    BY <1>3, <1>12 DEF SkipCDO
  <2> QED
    BY <2>1, <2>2, <2>3, LeaveTyped DEF SacOK, Labels, RuleLabels
<1>13. CASE ImportStatement
  <2>1. Import(text, pos).pos \in Places /\ Import(text, pos).status \in Statuses
    BY <1>1 DEF Found
  <2>2. SacOK
    BY <1>1, <1>4, <1>5, <1>13 DEF ImportStatement, Leave, Calls
  <2>3. pos' \in Places
    BY <1>1, <1>13, <2>1 DEF ImportStatement
  <2>4. \E l \in {"imports", "error", "recover_import"}, s \in Statuses : Leave(l, s)
    BY <1>3, <1>13, <2>1 DEF ImportStatement
  <2> QED
    BY <2>2, <2>3, <2>4, LeaveTyped DEF SacOK, Labels, RuleLabels
<1>14. CASE RecoverImport
  <2>1. AtruleCore(text, pos).pos \in Places /\ AtruleCore(text, pos).status \in Statuses
    BY <1>1 DEF Found
  <2>2. SacOK
    BY <1>5, <1>14 DEF RecoverImport, Leave
  <2>3. pos' \in Places
    BY <1>1, <1>14, <2>1 DEF RecoverImport
  <2>4. \E l \in {"imports", "error"}, s \in Statuses : Leave(l, s)
    BY <1>3, <1>14, <2>1 DEF RecoverImport
  <2> QED
    BY <2>2, <2>3, <2>4, LeaveTyped DEF SacOK, Labels, RuleLabels
<1>15. CASE SkipCDOAfterImport
  <2>1. SacOK
    BY <1>5, <1>15 DEF SkipCDOAfterImport, Leave
  <2>2. pos' \in Places
    BY <1>1, <1>15 DEF SkipCDOAfterImport
  <2>3. \E l \in {"done", "error"}, s \in Statuses : Leave(l, s)
    BY <1>3, <1>15 DEF SkipCDOAfterImport
  <2> QED
    BY <2>1, <2>2, <2>3, LeaveTyped DEF SacOK, Labels, RuleLabels
<1>16. CASE EndOfImports
  <2>1. SacOK
    BY <1>5, <1>16 DEF EndOfImports, Leave
  <2>2. pos' \in Places
    BY <1>1, <1>16 DEF EndOfImports
  <2>3. \E l \in {"done", "rules"}, s \in Statuses : Leave(l, s)
    BY <1>3, <1>16 DEF EndOfImports
  <2> QED
    BY <2>1, <2>2, <2>3, LeaveTyped DEF SacOK, Labels, RuleLabels
<1>17. CASE NextStatement
  <2>1. SacOK /\ text' = text
    BY <1>5, <1>17 DEF NextStatement
  <2>2. StatementCore(text, pos).pos \in Places
        /\ StatementCore(text, pos).status \in Statuses
    BY <1>1 DEF Found
  <2>3. pos' \in Places
    BY <1>1, <1>17, <2>2 DEF NextStatement, Here, NoMore
  <2>4. status' \in Statuses
    BY <1>2, <1>3, <1>17, <2>2 DEF NextStatement
  <2>5. pc' \in {"rules", "done", "ruleset", "media", "page", "font_face"}
    BY <1>17 DEF NextStatement
  <2>6. media' \in Frames({"none", "media"})
    BY <1>1, <1>17, FrameTyped DEF NextStatement, TInv, TypeOK
  <2>7. rule' \in Frames({"none"} \cup Rules) /\ (pc' \in RuleLabels => rule'.fn # "none")
    BY <1>1, <1>17, FrameTyped
    DEF NextStatement, EnterRule, Rules, RuleLabels, TInv, TypeOK
  <2> QED
    BY <2>1, <2>3, <2>4, <2>5, <2>6, <2>7
    DEF TInv, TypeOK, InRule, RuleLabels, SacOK, Labels, Places, Frames
<1>18. CASE Returned
  <2>1. SacOK
    BY <1>1, <1>4, <1>5, <1>18 DEF Returned, Calls
  <2>2. pc' \in {"rules", "recover_ruleset", "recover_atrule"}
    BY <1>18 DEF Returned
  <2>3. NoFrame \in Frames({"none", "media"}) /\ NoFrame \in Frames({"none"} \cup Rules)
    BY <1>1, FrameTyped
  <2> QED
    BY <1>18, <2>1, <2>2, <2>3
    DEF Returned, TInv, TypeOK, InRule, RuleLabels, SacOK, Labels, Places, Frames
<1>19. CASE Recover
  <2>1. /\ RulesetCore(text, pos).pos \in Places
        /\ RulesetCore(text, pos).status \in Statuses
        /\ AtruleCore(text, pos).pos \in Places
        /\ AtruleCore(text, pos).status \in Statuses
    BY <1>1 DEF Found
  <2>2. SacOK
    BY <1>5, <1>19 DEF Recover, Leave
  <2>3. pos' \in Places
    BY <1>19, <2>1 DEF Recover
  <2>4. \E l \in {"rules", "done"}, s \in Statuses : Leave(l, s)
    BY <1>19, <2>1 DEF Recover
  <2> QED
    BY <2>2, <2>3, <2>4, LeaveTyped DEF SacOK, Labels, RuleLabels
<1>20. CASE EndDocument
  <2>1. SacOK
    BY <1>1, <1>4, <1>20 DEF EndDocument, Leave, Calls
  <2> QED
    BY <1>1, <1>3, <1>20, <2>1, LeaveTyped DEF EndDocument, SacOK, Labels, RuleLabels
<1>21. CASE GiveUp
  <2>1. SacOK
    BY <1>1, <1>4, <1>21 DEF GiveUp, Leave, Calls
  <2> QED
    BY <1>1, <1>2, <1>21, <2>1, LeaveTyped DEF GiveUp, SacOK, Labels, RuleLabels
<1>22. CASE StartSelector
  <2> DEFINE r == Selector(text, pos)
  <2>1. r.pos \in Places
    BY <1>1 DEF Found
  <2>2. CASE Started("start_selector", r.pos + 1) /\ At(text, r.pos) = "{"
    BY <1>1, <1>22, <2>1, <2>2, StartedTyped
    DEF NoMore, Calls, StartSelector, TInv, InRule, RuleLabels
  <2>3. CASE Fail("CR_PARSING_ERROR") \/ Fail(NoMore)
    BY <1>3, <2>3, FailTyped
  <2> QED
    BY <1>22, <2>2, <2>3 DEF StartSelector
<1>23. CASE StartPage
  <2>1. PagePrelude(text, pos).pos \in Places /\ PagePrelude(text, pos).status \in Statuses
    BY <1>1 DEF Found
  <2> QED
    BY <1>23, <2>1, StartedTyped, FailTyped DEF StartPage, Calls, TInv, InRule, RuleLabels
<1>24. CASE StartFontFace
  <2>1. FontFacePrelude(text, pos).pos \in Places
        /\ FontFacePrelude(text, pos).status \in Statuses
    BY <1>1 DEF Found
  <2> QED
    BY <1>24, <2>1, StartedTyped, FailTyped DEF StartFontFace, Calls, TInv, InRule, RuleLabels
<1>25. CASE FirstDeclaration
  <2> DEFINE d == Declaration(text, pos)
  <2>1. rule.fn # "none" /\ d.status \in Statuses
    BY <1>1, <1>25 DEF FirstDeclaration, TInv, InRule, RuleLabels, Found
  <2>2. CASE Declared("next", d, pos) /\ status' \in {"CR_OK", d.status}
    BY <1>1, <1>3, <2>1, <2>2, DeclaredTyped
  <2>3. CASE Fail("CR_PARSING_ERROR")
    BY <1>3, <2>3, FailTyped
  <2> QED
    BY <1>2, <1>25, <2>1, <2>2, <2>3 DEF FirstDeclaration, Rules
<1>26. CASE NextDeclaration
  <2> DEFINE p == Skip(text, pos + 1)
             d == Declaration(text, p)
  <2>1. rule.fn # "none"
    BY <1>26 DEF NextDeclaration, TInv, InRule, RuleLabels
  <2>2. CASE Here = ";"
    <3>1. p \in Places
      <4>1. pos + 1 \in Places
        BY <1>1, <2>2 DEF Here, NoMore
      <4> QED
        BY <1>1, <4>1
    <3>2. d.status \in Statuses
      BY <1>1, <3>1 DEF Found
    <3>3. status' = d.status /\ \E l \in {"next", "end"} : Declared(l, d, p)
      BY <1>26, <2>2 DEF NextDeclaration, NoMore
    <3> QED
      BY <2>1, <3>1, <3>2, <3>3, DeclaredTyped
  <2>3. CASE Here = NoMore
    <3>1. \E s \in Statuses : Fail(s)
      BY <1>2, <1>3, <1>26, <2>3 DEF NextDeclaration, NoMore
    <3> QED
      BY <3>1, FailTyped
  <2>4. CASE Here \notin {";", NoMore}
    <3>1. pc' = "end" /\ Silent /\ UNCHANGED <<text, pos, media, rule, status>>
      BY <1>26, <2>4 DEF NextDeclaration
    <3>2. SacOK
      BY <1>5, <3>1
    <3> QED
      BY <2>1, <3>1, <3>2 DEF TInv, TypeOK, InRule, RuleLabels, SacOK, Labels, Places, Frames
  <2> QED
    BY <2>2, <2>3, <2>4
<1>27. CASE EndRule
  <2> DEFINE p == Skip(text, pos)
  <2>1. p \in Places /\ rule.fn \in Rules
    BY <1>1, <1>2, <1>27 DEF EndRule, TInv, InRule, RuleLabels
  <2>2. CASE At(text, p) = "}"
    <3>1. p + 1 \in Places /\ Skip(text, p + 1) \in Places
      <4>1. p + 1 \in Places
        BY <1>1, <2>1, <2>2 DEF NoMore
      <4> QED
        BY <1>1, <4>1
    <3>2. /\ Call(EndOf(rule.fn), rule.from)
          /\ rule' = [rule EXCEPT !.started = FALSE]
          /\ pos' \in {p + 1, Skip(text, p + 1)}
          /\ status' = "CR_OK" /\ pc' = "return"
          /\ text' = text /\ media' = media
      BY <1>27, <2>2 DEF EndRule, NoMore
    <3>3. EndOf(rule.fn) \in Calls
      BY <2>1 DEF EndOf, Calls, Rules
    <3>4. SacOK
      BY <1>2, <1>4, <3>2, <3>3
    <3>5. rule' \in Frames({"none"} \cup Rules)
      BY <1>1, <3>2, FrameTyped
    <3> QED
      BY <1>3, <3>1, <3>2, <3>4, <3>5
      DEF TInv, TypeOK, InRule, RuleLabels, SacOK, Labels, Places, Frames
  <2>3. CASE At(text, p) # "}"
    BY <1>3, <1>27, <2>3, FailTyped DEF EndRule
  <2> QED
    BY <2>2, <2>3
<1>28. CASE StartMedia
  <2> DEFINE r == MediaPrelude(text, pos)
             p == Skip(text, r.pos)
  <2>1. r.status \in Statuses /\ p \in Places
    BY <1>1 DEF Found
  <2>2. CASE r.status = "CR_OK" /\ r.pos > pos
    <3>1. /\ Call("start_media", media.from)
          /\ media' = [media EXCEPT !.started = TRUE]
          /\ rule' = Frame("selector", p)
          /\ pos' = p /\ status' = "CR_OK" /\ pc' = "ruleset" /\ text' = text
      BY <1>28, <2>2 DEF StartMedia, EnterRule
    <3>2. SacOK
      BY <1>2, <1>4, <3>1 DEF Calls
    <3>3. /\ media' \in Frames({"none", "media"})
          /\ rule' \in Frames({"none"} \cup Rules) /\ rule'.fn # "none"
      BY <2>1, <3>1, FrameTyped DEF Rules
    <3> QED
      BY <1>3, <2>1, <3>1, <3>2, <3>3
      DEF TInv, TypeOK, InRule, RuleLabels, SacOK, Labels, Places, Frames
  <2>3. CASE ~(r.status = "CR_OK" /\ r.pos > pos)
    BY <1>28, <2>1, <2>3, FailMediaTyped DEF StartMedia
  <2> QED
    BY <2>2, <2>3
<1>29. CASE NextInMedia
  <2> DEFINE p == Skip(text, pos)
  <2>1. SacOK
    BY <1>5, <1>29 DEF NextInMedia
  <2>2. p \in Places /\ pos' = p
    BY <1>1, <1>29 DEF NextInMedia
  <2>3. /\ rule' \in Frames({"none"} \cup Rules)
        /\ pc' = "ruleset" => rule'.fn # "none"
    BY <1>29, <2>2, FrameTyped DEF NextInMedia, EnterRule, Rules
  <2>4. pc' \in {"ruleset", "end_media"}
    BY <1>29 DEF NextInMedia
  <2> QED
    BY <1>29, <2>1, <2>2, <2>3, <2>4
    DEF NextInMedia, TInv, TypeOK, InRule, RuleLabels, SacOK, Labels, Places, Frames
<1>30. CASE EndMedia
  <2>1. CASE Here = "}"
    <3>1. /\ Call("end_media", media.from)
          /\ media' = [media EXCEPT !.started = FALSE]
          /\ pos' = Skip(text, pos + 1) /\ status' = "CR_OK" /\ pc' = "return"
          /\ text' = text /\ rule' = rule
      BY <1>30, <2>1 DEF EndMedia, NoMore
    <3>2. SacOK
      BY <1>2, <1>4, <3>1 DEF Calls
    <3>3. pos + 1 \in Places
      BY <1>1, <2>1 DEF Here, NoMore
    <3>4. pos' \in Places /\ media' \in Frames({"none", "media"})
      BY <1>1, <3>1, <3>3, FrameTyped
    <3> QED
      BY <1>3, <3>1, <3>2, <3>4
      DEF TInv, TypeOK, InRule, RuleLabels, SacOK, Labels, Places, Frames
  <2>2. CASE Here # "}"
    BY <1>3, <1>30, <2>2, FailMediaTyped DEF EndMedia
  <2> QED
    BY <2>1, <2>2
<1>31. CASE UNCHANGED vars
  BY <1>31 DEF vars, TInv, TypeOK, InRule, RuleLabels, Places, Frames
<1> QED
  BY <1>10, <1>11, <1>12, <1>13, <1>14, <1>15, <1>16, <1>17, <1>18, <1>19, <1>20,
     <1>21, <1>22, <1>23, <1>24, <1>25, <1>26, <1>27, <1>28, <1>29, <1>30, <1>31
  DEF Next

\* Type correctness: every position, label, frame and call is one of those
\* cr-parser.c can be in or make, on every text and for any productions.
THEOREM TypeCorrect == Spec => []TypeOK
<1>1. Init => TInv
  BY InitialTypes
<1>2. TInv /\ [Next]_vars => TInv'
  BY TypesPreserved
<1>3. TInv => TypeOK
  BY DEF TInv
<1> QED
  BY <1>1, <1>2, <1>3, PTL DEF Spec

-----------------------------------------------------------------------------
\* The refinement of SacProtocol.

\* The frame of a rule.  It is open while its declarations are read; where the
\* routine returns and it is still open, the routine has failed.
RuleControl ==
    /\ rule.fn = "none" => ~rule.started
    /\ pc = "ruleset" => rule.fn = "selector"
    /\ pc = "page" => rule.fn = "page"
    /\ pc = "font_face" => rule.fn = "font_face"
    /\ pc \in {"ruleset", "page", "font_face"} => rule.from = pos
    /\ pc \in {"first", "next", "end"} => rule.started /\ rule.from < pos
    /\ rule.started => pc \in {"first", "next", "end", "return"}
    /\ rule.started /\ pc = "return" => rule.fn # "selector" /\ status # "CR_OK"
    /\ rule.fn = "font_face" /\ pc = "next" /\ status = "CR_OK" => pos < Len(text)

\* The frame of @media.  Only rulesets are read in it.
MediaControl ==
    /\ media.started => media.fn = "media"
    /\ media.fn = "media" => rule.fn \in {"none", "selector"}
    /\ media.fn = "media" /\ rule.fn = "selector" => media.started
    /\ media.started => pc \in {"ruleset", "first", "next", "end", "return", "end_media"}
    /\ media.started /\ pc = "return" /\ rule.fn = "none" => status # "CR_OK"
    /\ pc = "end_media" => media.started /\ rule.fn = "none"
    /\ pc = "media" => media.fn = "media" /\ rule.fn = "none"
    /\ pc \notin RuleLabels \cup {"media", "return", "end_media"} =>
          media.fn = "none" /\ rule.fn = "none"

Control == RuleControl /\ MediaControl

-----------------------------------------------------------------------------
(* The control invariant is inductive.                                       *)

\* How far a routine gets.
LEMMA Forward ==
    ASSUME TInv
    PROVE  /\ Places \subseteq Nat /\ pos \in Places /\ Len(text) \in Nat
           /\ \A p \in Places : Skip(text, p) \in Places /\ Skip(text, p) >= p
           /\ \A p \in Places : At(text, p) # NoMore => p < Len(text) /\ p + 1 \in Places
           /\ \A p \in Places : \A r \in Found(text, p) :
                 /\ r.pos \in Places /\ r.pos >= p
                 /\ r.status # "CR_OK" => r.pos = p
           /\ \A p \in Places : \A r \in {PagePrelude(text, p), FontFacePrelude(text, p)} :
                 r.status = "CR_OK" => r.pos > p
<1>1. Len(text) \in Nat /\ text \in Texts /\ pos \in Places
  BY ParserAssumption DEF TInv, TypeOK
<1>2. \A p \in Places : Skip(text, p) \in Places /\ Skip(text, p) >= p
  BY <1>1, SkipStays DEF Places
<1>3. \A p \in Places : At(text, p) # NoMore => p < Len(text) /\ p + 1 \in Places
  BY <1>1 DEF At, Places
<1>4. \A p \in Places : \A r \in Found(text, p) :
           /\ r.pos \in Places /\ r.pos >= p
           /\ r.status # "CR_OK" => r.pos = p
  BY <1>1, FoundStays DEF Places
<1>5. \A p \in Places : \A r \in {PagePrelude(text, p), FontFacePrelude(text, p)} :
           r.status = "CR_OK" => r.pos > p
  BY <1>1, ParserAssumption DEF Places
<1> QED
  BY <1>1, <1>2, <1>3, <1>4, <1>5 DEF Places

\* parse_stylesheet between statements: no routine has a frame.
Outer == Labels \ (RuleLabels \cup {"media", "return", "end_media"})

LEMMA OuterStep ==
    ASSUME TInv, Control, pc \in Outer, pc' \in Outer, UNCHANGED <<media, rule>>
    PROVE  Control'
  BY DEF TInv, TypeOK, Frames, Control, RuleControl, MediaControl, Outer, RuleLabels, Labels

LEMMA InitialControl == Init => Control
  BY DEF Init, NoFrame, Control, RuleControl, MediaControl, RuleLabels

LEMMA FailControl ==
    ASSUME TInv, Control, pc \in RuleLabels, NEW s \in Statuses, Fail(s),
           s # "CR_OK" \/ rule.fn = "selector"
    PROVE  Control'
<1>1. rule.fn \in Rules
  BY DEF TInv, TypeOK, InRule, Frames
<1>2. /\ rule'.fn = rule.fn /\ rule'.started \in BOOLEAN
      /\ rule'.started => rule.fn # "selector"
  BY DEF Fail, TInv, TypeOK, Frames
<1> QED
  BY <1>1, <1>2 DEF Fail, Control, RuleControl, MediaControl, RuleLabels, Rules

LEMMA StartedControl ==
    ASSUME TInv, Control, pc \in {"ruleset", "page", "font_face"},
           NEW f, NEW p \in Places, p > pos, Started(f, p)
    PROVE  Control'
<1>1. /\ rule.from = pos /\ rule.fn \in Rules /\ rule.from \in Nat
      /\ media.fn = "media" => rule.fn = "selector" /\ media.started
  BY Forward DEF Control, RuleControl, MediaControl, Rules, TInv, TypeOK, Frames, InRule,
                 RuleLabels
<1>2. rule'.fn = rule.fn /\ rule'.from = rule.from /\ rule'.started
  BY DEF Started, TInv, TypeOK, Frames
<1>3. pos' > pos /\ pos' \in Nat
  BY Forward DEF Started
<1> QED
  BY <1>1, <1>2, <1>3 DEF Started, Control, RuleControl, MediaControl, RuleLabels, Rules

\* Only the hypothesis on declarations keeps @font-face from being left, without
\* an error, at the end of the input.
LEMMA DeclaredControl ==
    ASSUME TInv, Control, DeclarationsAreFollowed, pc \in {"first", "next"},
           NEW l \in {"next", "end"}, NEW p \in Places, p >= pos,
           Declared(l, Declaration(text, p), p),
           status' = Declaration(text, p).status \/ rule.fn # "font_face"
    PROVE  Control'
<1> DEFINE d == Declaration(text, p)
<1>1. /\ rule.from < pos /\ rule.started /\ rule.fn \in Rules
      /\ media.fn = "media" => rule.fn = "selector" /\ media.started
  BY DEF Control, RuleControl, MediaControl, Rules, TInv, TypeOK, Frames, InRule,
         RuleLabels
<1>2. d.pos \in Nat /\ d.pos >= pos /\ rule.from \in Nat /\ pos \in Nat
  BY Forward DEF Found, TInv, TypeOK, Frames
<1>3. d.status = "CR_OK" => d.pos < Len(text)
  BY DEF DeclarationsAreFollowed, TInv, Places
<1> QED
  BY <1>1, <1>2, <1>3
  DEF Declared, Control, RuleControl, MediaControl, RuleLabels, Rules

LEMMA FailMediaControl ==
    ASSUME TInv, Control, NEW s, FailMedia(s),
           \/ pc = "media"
           \/ pc = "end_media" /\ s # "CR_OK"
    PROVE  Control'
  BY DEF FailMedia, NoFrame, Control, RuleControl, MediaControl, RuleLabels

LEMMA ControlPreserved ==
    ASSUME TInv, Control, DeclarationsAreFollowed, Next
    PROVE  Control'
<1> USE Forward
<1>1. pc \in Labels /\ status \in Statuses
  BY DEF TInv, TypeOK
<1>2. CASE \/ StartDocument \/ CharsetStatement \/ SkipCDO \/ ImportStatement
           \/ RecoverImport \/ SkipCDOAfterImport \/ EndOfImports \/ Recover
           \/ EndDocument \/ GiveUp
  <2>1. /\ pc \in Outer /\ pc' \in Outer
        /\ UNCHANGED <<media, rule>>
    <3>1. pc \in Outer
      BY <1>2 DEF StartDocument, CharsetStatement, SkipCDO, ImportStatement,
            RecoverImport, SkipCDOAfterImport, EndOfImports, Recover, EndDocument,
            GiveUp, Outer, Labels, RuleLabels
    <3>2. \E l \in Outer : \E s : Leave(l, s)
      BY <1>2 DEF StartDocument, CharsetStatement, SkipCDO, ImportStatement,
            RecoverImport, SkipCDOAfterImport, EndOfImports, Recover, EndDocument,
            GiveUp, Outer, Labels, RuleLabels
    <3> QED
      BY <3>1, <3>2 DEF Leave
  <2> QED
    BY <2>1, OuterStep
<1>3. CASE NextStatement
  <2>1. ~rule.started /\ ~media.started /\ media.fn = "none" /\ rule.fn = "none"
    BY <1>3 DEF NextStatement, Control, RuleControl, MediaControl, RuleLabels
  <2> QED
    BY <1>3, <2>1 DEF NextStatement, EnterRule, Frame, RulesetStart,
       Control, RuleControl, MediaControl, RuleLabels
<1>4. CASE Returned
  BY <1>4 DEF Returned, NoFrame, Control, RuleControl, MediaControl, RuleLabels
<1>5. CASE StartSelector
  <2> DEFINE r == Selector(text, pos)
  <2>1. r.pos >= pos /\ r.pos \in Places
    BY DEF Found
  <2>2. pc = "ruleset" /\ rule.fn = "selector"
    BY <1>5 DEF StartSelector, Control, RuleControl
  <2>3. CASE Started("start_selector", r.pos + 1) /\ At(text, r.pos) = "{"
    <3>1. r.pos + 1 \in Places
      BY <2>1, <2>3 DEF NoMore
    <3>2. r.pos + 1 > pos
      BY <2>1
    <3> QED
      BY <2>2, <2>3, <3>1, <3>2, StartedControl
  <2>4. CASE Fail("CR_PARSING_ERROR") \/ Fail(NoMore)
    BY <2>2, <2>4, FailControl DEF RuleLabels, Statuses, NoMore
  <2> QED
    BY <1>5, <2>3, <2>4 DEF StartSelector
<1>6. CASE StartPage
  <2> DEFINE r == PagePrelude(text, pos)
  <2>1. r.pos \in Places /\ (r.status = "CR_OK" => r.pos > pos) /\ r.status \in Statuses
    BY FoundStays DEF Found, TInv, Places
  <2>2. pc = "page"
    BY <1>6 DEF StartPage
  <2> QED
    BY <1>6, <2>1, <2>2, StartedControl, FailControl DEF StartPage, RuleLabels
<1>7. CASE StartFontFace
  <2> DEFINE r == FontFacePrelude(text, pos)
  <2>1. r.pos \in Places /\ (r.status = "CR_OK" => r.pos > pos) /\ r.status \in Statuses
    BY FoundStays DEF Found, TInv, Places
  <2>2. pc = "font_face"
    BY <1>7 DEF StartFontFace
  <2> QED
    BY <1>7, <2>1, <2>2, StartedControl, FailControl DEF StartFontFace, RuleLabels
<1>8. CASE FirstDeclaration
  <2> DEFINE d == Declaration(text, pos)
  <2>1. pc = "first" /\ rule.fn \in Rules
    BY <1>8 DEF FirstDeclaration, TInv, TypeOK, InRule, RuleLabels, Frames
  <2>2. CASE Declared("next", d, pos)
             /\ (status' = d.status \/ rule.fn # "font_face")
    BY <2>1, <2>2, DeclaredControl
  <2>3. CASE Fail("CR_PARSING_ERROR")
    BY <2>1, <2>3, FailControl DEF RuleLabels, Statuses
  <2> QED
    BY <1>8, <2>1, <2>2, <2>3 DEF FirstDeclaration, Rules
<1>9. CASE NextDeclaration
  <2> DEFINE p == Skip(text, pos + 1)
             d == Declaration(text, p)
  <2>1. pc = "next" /\ rule.fn \in Rules
    BY <1>9 DEF NextDeclaration, TInv, TypeOK, InRule, RuleLabels, Frames
  <2>2. CASE Here = ";"
    <3>1. pos + 1 \in Places
      BY <2>2 DEF Here, NoMore
    <3>2. p \in Places /\ p >= pos
      BY <3>1
    <3>3. status' = d.status /\ \E l \in {"next", "end"} : Declared(l, d, p)
      BY <1>9, <2>2 DEF NextDeclaration, NoMore
    <3> QED
      BY <2>1, <3>2, <3>3, DeclaredControl
  <2>3. CASE Here = NoMore
    <3>1. rule.fn = "font_face" => status # "CR_OK"
      <4>1. pos < Len(text) => At(text, pos) \in Tokens
        BY DEF At, TInv, TypeOK
      <4> QED
        BY <2>1, <2>3, <4>1 DEF Control, RuleControl, Here, NoMore, Tokens, Blank, Delims,
                                AtRules
    <3>2. \E s \in Statuses : Fail(s) /\ (s # "CR_OK" \/ rule.fn = "selector")
      BY <1>1, <1>9, <2>1, <2>3, <3>1 DEF NextDeclaration, NoMore, Statuses, Rules
    <3> QED
      BY <2>1, <3>2, FailControl DEF RuleLabels
  <2>4. CASE Here \notin {";", NoMore}
    <3>1. pc' = "end" /\ UNCHANGED <<text, pos, media, rule, status>>
      BY <1>9, <2>4 DEF NextDeclaration
    <3> QED
      BY <2>1, <3>1 DEF Control, RuleControl, MediaControl, RuleLabels, Rules
  <2> QED
    BY <2>2, <2>3, <2>4
<1>10. CASE EndRule
  <2>1. pc = "end"
    BY <1>10 DEF EndRule
  <2>2. CASE At(text, Skip(text, pos)) = "}"
    <3>1. /\ rule' = [rule EXCEPT !.started = FALSE]
          /\ pc' = "return" /\ media' = media
      BY <1>10, <2>2 DEF EndRule, NoMore
    <3>2. rule'.fn = rule.fn /\ ~rule'.started
      BY <3>1 DEF TInv, TypeOK, Frames
    <3>3. rule.fn \in Rules
      BY <2>1 DEF TInv, TypeOK, Frames, InRule, RuleLabels
    <3> QED
      BY <2>1, <3>1, <3>2, <3>3 DEF Control, RuleControl, MediaControl, RuleLabels, Rules
  <2>3. CASE At(text, Skip(text, pos)) # "}"
    BY <1>10, <2>1, <2>3, FailControl DEF EndRule, RuleLabels, Statuses, NoMore
  <2> QED
    BY <2>2, <2>3
<1>11. CASE StartMedia
  <2> DEFINE r == MediaPrelude(text, pos)
             p == Skip(text, r.pos)
  <2>1. pc = "media" /\ ~rule.started
    BY <1>11 DEF StartMedia, Control, RuleControl, MediaControl
  <2>2. CASE r.status = "CR_OK" /\ r.pos > pos
    <3>1. /\ media' = [media EXCEPT !.started = TRUE]
          /\ rule' = Frame("selector", p)
          /\ pos' = p /\ pc' = "ruleset"
      BY <1>11, <2>2 DEF StartMedia, EnterRule
    <3>2. media'.started /\ media'.fn = media.fn
      BY <3>1 DEF TInv, TypeOK, Frames
    <3>3. media.fn = "media"
      BY <2>1 DEF Control, MediaControl
    <3> QED
      BY <3>1, <3>2, <3>3 DEF Frame, Control, RuleControl, MediaControl, RuleLabels
  <2>3. CASE ~(r.status = "CR_OK" /\ r.pos > pos)
    BY <1>11, <2>1, <2>3, FailMediaControl DEF StartMedia
  <2> QED
    BY <2>2, <2>3
<1>12. CASE NextInMedia
  <2>1. media.started /\ ~rule.started /\ media.fn = "media"
    BY <1>12 DEF NextInMedia, Control, RuleControl, MediaControl
  <2> QED
    BY <1>12, <2>1 DEF NextInMedia, EnterRule, Frame, NoFrame, Control, RuleControl,
                       MediaControl, RuleLabels
<1>13. CASE EndMedia
  <2>1. pc = "end_media"
    BY <1>13 DEF EndMedia
  <2>2. CASE Here = "}"
    <3>1. /\ media' = [media EXCEPT !.started = FALSE]
          /\ pc' = "return" /\ rule' = rule
      BY <1>13, <2>2 DEF EndMedia, NoMore
    <3>2. ~media'.started /\ media'.fn = media.fn
      BY <3>1 DEF TInv, TypeOK, Frames
    <3> QED
      BY <2>1, <3>1, <3>2 DEF Control, RuleControl, MediaControl, RuleLabels
  <2>3. CASE Here # "}"
    BY <1>13, <2>1, <2>3, FailMediaControl DEF EndMedia, NoMore
  <2> QED
    BY <2>2, <2>3
<1> QED
  BY <1>2, <1>3, <1>4, <1>5, <1>6, <1>7, <1>8, <1>9, <1>10, <1>11, <1>12, <1>13 DEF Next

-----------------------------------------------------------------------------
(* Every step of the parser is a step of the protocol.                       *)

LEMMA ShortSequences ==
    ASSUME NEW x, NEW y
    PROVE  /\ Append(<<>>, x) = <<x>> /\ Append(<<x>>, y) = <<x, y>>
           /\ SubSeq(<<x>>, 1, Len(<<x>>) - 1) = <<>>
           /\ SubSeq(<<x, y>>, 1, Len(<<x, y>>) - 1) = <<x>>
           /\ Len(<<x>>) = 1 /\ Len(<<x, y>>) = 2
           /\ <<x>>[1] = x /\ <<x, y>>[2] = y
           /\ <<x>> # <<>> /\ <<x, y>> # <<>>
<1>1. <<x>> \in Seq({x, y}) /\ <<x, y>> \in Seq({x, y})
  OBVIOUS
<1>2. Append(<<x>>, y) = <<x, y>>
  <2>1. Append(<<x>>, y) \in Seq({x, y}) /\ Len(Append(<<x>>, y)) = 2
    BY <1>1
  <2>2. \A i \in 1..2 : Append(<<x>>, y)[i] = <<x, y>>[i]
    OBVIOUS
  <2> QED
    BY <1>1, <2>1, <2>2, SeqEqual
<1>3. SubSeq(<<x, y>>, 1, 1) = <<x>>
  <2>1. SubSeq(<<x, y>>, 1, 1) \in Seq({x, y}) /\ Len(SubSeq(<<x, y>>, 1, 1)) = 1
    BY <1>1
  <2>2. \A i \in 1..1 : SubSeq(<<x, y>>, 1, 1)[i] = <<x>>[i]
    OBVIOUS
  <2> QED
    BY <1>1, <2>1, <2>2, SeqEqual
<1>4. Len(<<x, y>>) - 1 = 1
  OBVIOUS
<1>5. /\ Append(<<>>, x) = <<x>>
      /\ SubSeq(<<x>>, 1, Len(<<x>>) - 1) = <<>>
      /\ Len(<<x>>) = 1 /\ Len(<<x, y>>) = 2
      /\ <<x>>[1] = x /\ <<x, y>>[2] = y
  OBVIOUS
<1>6. <<x>> # <<>> /\ <<x, y>> # <<>>
  OBVIOUS
<1> QED
  BY <1>2, <1>3, <1>4, <1>5, <1>6

\* The rules that are open, by the frames that are started.
LEMMA OpenRulesAre ==
    /\ ~media.started /\ ~rule.started => OpenRules = <<>>
    /\ media.started /\ ~rule.started => OpenRules = <<OpenMedia>>
    /\ ~media.started /\ rule.started => OpenRules = <<OpenRule>>
    /\ media.started /\ rule.started => OpenRules = <<OpenMedia, OpenRule>>
  BY DEF OpenRules

LEMMA QuietStep ==
    ASSUME Silent, OpenRules' = OpenRules, Phase' \in Protocol!Later(Phase)
    PROVE  Protocol!Next
  BY DEF Silent, NoCall, Protocol!Next, Protocol!Quiet, Protocol!Called

\* Where the handler is told of an error, the innermost rule is dropped, if any.
LEMMA ErrorStep ==
    ASSUME NEW p, Call("error", p), Phase \in Protocol!Inside, Phase' = Phase,
           \/ OpenRules = <<>> /\ OpenRules' = <<>>
           \/ \E x : OpenRules = <<x>> /\ OpenRules' = <<>>
           \/ \E x, y : OpenRules = <<x, y>> /\ OpenRules' = <<x>>
    PROVE  Protocol!Next
<1>1. OpenRules' = IF OpenRules = <<>> THEN <<>>
                   ELSE SubSeq(OpenRules, 1, Len(OpenRules) - 1)
  BY ShortSequences
<1> QED
  BY <1>1 DEF Call, Protocol!Next, Protocol!Error, Protocol!Called

\* A step that starts no rule and ends none leaves the open rules alone.
LEMMA SameOpenRules ==
    ASSUME UNCHANGED <<media, rule>>
    PROVE  OpenRules' = OpenRules
  BY DEF OpenRules, OpenMedia, OpenRule

LEMMA FailStep ==
    ASSUME TInv, Control, pc \in RuleLabels, NEW s, Fail(s)
    PROVE  Protocol!Next
<1>1. Phase = "rules" /\ Phase' = "rules"
  BY DEF Phase, Fail, RuleLabels
<1>2. CASE rule.fn = "selector" /\ rule.started
  <2>1. Call("error", rule.from) /\ rule' = [rule EXCEPT !.started = FALSE]
        /\ media' = media
    BY <1>2 DEF Fail
  <2>2. ~rule'.started
    BY <2>1 DEF TInv, TypeOK, Frames
  <2>3. OpenMedia' = OpenMedia
    BY <2>1 DEF OpenMedia
  <2>4. \/ OpenRules = <<OpenRule>> /\ OpenRules' = <<>>
        \/ OpenRules = <<OpenMedia, OpenRule>> /\ OpenRules' = <<OpenMedia>>
    BY <1>2, <2>1, <2>2, <2>3 DEF OpenRules, TInv, TypeOK, Frames
  <2> QED
    BY <1>1, <2>1, <2>4, ErrorStep DEF Protocol!Inside
<1>3. CASE ~(rule.fn = "selector" /\ rule.started)
  BY <1>1, <1>3, QuietStep, SameOpenRules DEF Fail, Protocol!Later
<1> QED
  BY <1>2, <1>3

\* What starts a rule, for each of its three kinds.
StartOf(fn) == CASE fn = "selector"  -> "start_selector"
                 [] fn = "page"      -> "start_page"
                 [] fn = "font_face" -> "start_font_face"

LEMMA StartedStep ==
    ASSUME TInv, Control, pc \in {"ruleset", "page", "font_face"}, NEW p,
           Started(StartOf(rule.fn), p)
    PROVE  Protocol!Next
<1>1. /\ Phase = "rules" /\ Phase' = "rules"
      /\ ~rule.started /\ rule.fn \in Rules
  BY DEF Phase, Started, Control, RuleControl, TInv, TypeOK, Frames, InRule, RuleLabels
<1>2. /\ rule'.started /\ rule'.fn = rule.fn /\ rule'.from = rule.from
      /\ media' = media
      /\ sac' = [call |-> StartOf(rule.fn), at |-> rule.from]
  BY DEF Started, Call, TInv, TypeOK, Frames
<1>3. /\ OpenMedia' = OpenMedia
      /\ OpenRule' = [kind |-> rule.fn, at |-> rule.from]
  BY <1>2 DEF OpenMedia, OpenRule
<1>4. OpenRules' = Append(OpenRules, OpenRule')
  <2>1. CASE media.started
    <3>1. OpenRules = <<OpenMedia>> /\ OpenRules' = <<OpenMedia, OpenRule'>>
      BY <1>1, <1>2, <1>3, <2>1 DEF OpenRules
    <3> QED
      BY <3>1, ShortSequences
  <2>2. CASE ~media.started
    <3>1. OpenRules = <<>> /\ OpenRules' = <<OpenRule'>>
      BY <1>1, <1>2, <1>3, <2>2 DEF OpenRules
    <3> QED
      BY <3>1, ShortSequences
  <2> QED
    BY <2>1, <2>2
<1>5. \/ OpenRules = <<>>
      \/ /\ rule.fn = "selector" /\ Len(OpenRules) = 1
         /\ OpenRules[1].kind = "media"
  <2>1. media.started => rule.fn = "selector"
    BY <1>1 DEF Control, MediaControl, Rules
  <2> QED
    BY <1>1, <2>1, ShortSequences DEF OpenRules, OpenMedia, TInv, TypeOK, Frames
<1>6. Protocol!Start(StartOf(rule.fn), rule.fn)
  BY <1>1, <1>2, <1>3, <1>4, <1>5 DEF Protocol!Start, Protocol!Called
<1> QED
  BY <1>1, <1>6 DEF StartOf, Protocol!Next, Rules

LEMMA DeclaredStep ==
    ASSUME TInv, Control, pc \in {"first", "next"},
           NEW l \in {"next", "end"}, NEW p \in Places, p >= pos,
           Declared(l, Declaration(text, p), p)
    PROVE  Protocol!Next
<1>1. Phase = "rules" /\ Phase' = "rules" /\ OpenRules' = OpenRules
  BY SameOpenRules DEF Phase, Declared
<1>2. CASE Silent
  BY <1>1, <1>2, QuietStep DEF Protocol!Later
<1>3. CASE Call("property", p)
  <2>1. rule.started /\ rule.fn \in Rules /\ rule.from < p
    BY Forward DEF Control, RuleControl, TInv, TypeOK, Frames, InRule, RuleLabels
  <2>2. /\ OpenRules # <<>>
        /\ OpenRules[Len(OpenRules)] = OpenRule
    BY <2>1, ShortSequences DEF OpenRules, TInv, TypeOK, Frames
  <2> QED
    BY <1>1, <1>3, <2>1, <2>2 DEF Call, OpenRule, Protocol!Next, Protocol!Property,
       Protocol!Called, Protocol!Innermost, Rules
<1> QED
  BY <1>2, <1>3 DEF Declared

LEMMA FailMediaStep ==
    ASSUME TInv, Control, pc \in {"media", "end_media"}, NEW s, FailMedia(s)
    PROVE  Protocol!Next
<1>1. Phase = "rules" /\ Phase' = "rules"
  BY DEF Phase, FailMedia
<1>2. ~rule.started /\ ~rule'.started /\ media' = media
  BY DEF Control, RuleControl, MediaControl, FailMedia, NoFrame
<1>3. OpenRules' = OpenRules
  BY <1>2 DEF OpenRules, OpenMedia
<1> QED
  BY <1>1, <1>3, QuietStep DEF FailMedia, Protocol!Later

\* What ends a rule, whose frame has named it since it was started.
LEMMA EndStep ==
    ASSUME TInv, Control, pc = "end", Call(EndOf(rule.fn), rule.from),
           rule' = [rule EXCEPT !.started = FALSE], media' = media, pc' = "return"
    PROVE  Protocol!Next
<1>1. /\ Phase = "rules" /\ Phase' = "rules"
      /\ rule.started /\ rule.fn \in Rules
  BY DEF Phase, Control, RuleControl, TInv, TypeOK, Frames, InRule, RuleLabels
<1>2. ~rule'.started /\ OpenMedia' = OpenMedia
  BY DEF TInv, TypeOK, Frames, OpenMedia
<1>3. /\ OpenRules # <<>>
      /\ OpenRules[Len(OpenRules)] = OpenRule
      /\ OpenRules' = SubSeq(OpenRules, 1, Len(OpenRules) - 1)
  <2>1. CASE media.started
    <3>1. OpenRules = <<OpenMedia, OpenRule>> /\ OpenRules' = <<OpenMedia>>
      BY <1>1, <1>2, <2>1 DEF OpenRules
    <3> QED
      BY <3>1, ShortSequences
  <2>2. CASE ~media.started
    <3>1. OpenRules = <<OpenRule>> /\ OpenRules' = <<>>
      BY <1>1, <1>2, <2>2 DEF OpenRules
    <3> QED
      BY <3>1, ShortSequences
  <2> QED
    BY <2>1, <2>2
<1>4. Protocol!End(EndOf(rule.fn), rule.fn)
  BY <1>1, <1>3 DEF Protocol!End, Protocol!Called, Protocol!Innermost, Call, OpenRule
<1> QED
  BY <1>1, <1>4 DEF EndOf, Protocol!Next, Rules

LEMMA ProtocolStep ==
    ASSUME TInv, Control, DeclarationsAreFollowed, Next
    PROVE  Protocol!Next
<1> USE Forward
<1>1. CASE StartDocument
  BY <1>1, SameOpenRules DEF StartDocument, Leave, Call, Phase, Protocol!Next,
     Protocol!StartDocument, Protocol!Called
<1>2. CASE CharsetStatement
  <2>1. OpenRules' = OpenRules /\ Phase = "charset"
    BY <1>2, SameOpenRules DEF CharsetStatement, Leave, Phase
  <2>2. CASE Silent
    <3>1. Phase' \in {"rules", "imports"}
      BY <1>2 DEF CharsetStatement, Leave, Phase
    <3> QED
      BY <2>1, <2>2, <3>1, QuietStep DEF Protocol!Later, Protocol!Inside
  <2>3. CASE /\ Call("charset", Skip(text, pos)) /\ Leave("skip_cdo", "CR_OK")
    BY <2>1, <2>3 DEF Call, Leave, Phase, Protocol!Next, Protocol!CharsetRule,
       Protocol!Called
  <2> QED
    BY <1>2, <2>2, <2>3 DEF CharsetStatement
<1>3. CASE SkipCDO \/ RecoverImport \/ SkipCDOAfterImport \/ EndOfImports
  <2>1. /\ OpenRules' = OpenRules /\ Silent
        /\ Phase = "imports" /\ Phase' \in {"imports", "rules"}
    BY <1>3, SameOpenRules
    DEF SkipCDO, RecoverImport, SkipCDOAfterImport, EndOfImports, Leave, Phase
  <2> QED
    BY <2>1, QuietStep DEF Protocol!Later
<1>4. CASE ImportStatement
  <2>1. OpenRules' = OpenRules /\ Phase = "imports" /\ Phase' = "imports"
    BY <1>4, SameOpenRules DEF ImportStatement, Leave, Phase
  <2>2. CASE Silent
    BY <2>1, <2>2, QuietStep DEF Protocol!Later
  <2>3. CASE Call("import_style", pos)
    BY <2>1, <2>3 DEF Call, Protocol!Next, Protocol!ImportRule, Protocol!Called
  <2>4. CASE Call("error", pos)
    <3>1. OpenRules = <<>>
      BY <1>4, OpenRulesAre
      DEF ImportStatement, Control, RuleControl, MediaControl, RuleLabels
    <3> QED
      BY <2>1, <2>4, <3>1, ErrorStep DEF Protocol!Inside
  <2> QED
    BY <1>4, <2>2, <2>3, <2>4 DEF ImportStatement
<1>5. CASE NextStatement
  <2>1. ~media.started /\ ~rule.started /\ ~media'.started /\ ~rule'.started
    BY <1>5 DEF NextStatement, EnterRule, Frame, Control, RuleControl, MediaControl,
                RuleLabels
  <2>2. OpenRules' = OpenRules
    BY <2>1 DEF OpenRules
  <2>3. Silent /\ Phase = "rules" /\ Phase' = "rules"
    BY <1>5 DEF NextStatement, Phase
  <2> QED
    BY <2>2, <2>3, QuietStep DEF Protocol!Later
<1>6. CASE Returned
  <2>1. /\ Phase = "rules" /\ Phase' = "rules" /\ OpenRules' = <<>>
    BY <1>6 DEF Returned, Phase, NoFrame, OpenRules
  <2>2. ~(media.started /\ rule.started)
    BY <1>6 DEF Returned, Control, RuleControl, MediaControl
  <2>3. CASE status = "CR_OK"
    <3>1. ~media.started /\ ~rule.started
      BY <1>6, <2>3 DEF Returned, Control, RuleControl, MediaControl
    <3>2. OpenRules = <<>>
      BY <3>1, OpenRulesAre
    <3> QED
      BY <1>6, <2>1, <2>3, <3>2, QuietStep DEF Returned, Protocol!Later
  <2>4. CASE status # "CR_OK"
    <3>1. OpenRules = <<>> \/ \E x : OpenRules = <<x>>
      BY <2>2 DEF OpenRules
    <3> QED
      BY <1>6, <2>1, <2>4, <3>1, ErrorStep DEF Returned, Protocol!Inside
  <2> QED
    BY <2>3, <2>4
<1>7. CASE Recover
  <2>1. OpenRules' = OpenRules /\ Silent /\ Phase = "rules" /\ Phase' = "rules"
    BY <1>7, SameOpenRules DEF Recover, Leave, Phase
  <2> QED
    BY <2>1, QuietStep DEF Protocol!Later
<1>8. CASE EndDocument \/ GiveUp
  <2>1. pc \in {"done", "error"} /\ Phase \in {"imports", "rules"} /\ Phase' = "after"
    BY <1>8 DEF EndDocument, GiveUp, Leave, Phase
  <2>2. OpenRules = <<>>
    BY <2>1, OpenRulesAre DEF Control, RuleControl, MediaControl, RuleLabels
  <2>3. OpenRules' = OpenRules /\ sac'.call \in {"end_document", "unrecoverable_error"}
    BY <1>8, SameOpenRules DEF EndDocument, GiveUp, Leave, Call
  <2> QED
    BY <2>1, <2>2, <2>3 DEF Protocol!Next, Protocol!EndDocument, Protocol!Called,
       Protocol!Inside
<1>9. CASE StartSelector
  <2>1. pc = "ruleset" /\ rule.fn = "selector"
    BY <1>9 DEF StartSelector, Control, RuleControl
  <2>2. (\E s : Fail(s)) \/ \E p : Started(StartOf(rule.fn), p)
    BY <1>9, <2>1 DEF StartSelector, StartOf
  <2> QED
    BY <2>1, <2>2, FailStep, StartedStep DEF RuleLabels
<1>10. CASE StartPage
  <2>1. pc = "page" /\ rule.fn = "page"
    BY <1>10 DEF StartPage, Control, RuleControl
  <2>2. (\E s : Fail(s)) \/ \E p : Started(StartOf(rule.fn), p)
    BY <1>10, <2>1 DEF StartPage, StartOf
  <2> QED
    BY <2>1, <2>2, FailStep, StartedStep DEF RuleLabels
<1>11. CASE StartFontFace
  <2>1. pc = "font_face" /\ rule.fn = "font_face"
    BY <1>11 DEF StartFontFace, Control, RuleControl
  <2>2. (\E s : Fail(s)) \/ \E p : Started(StartOf(rule.fn), p)
    BY <1>11, <2>1 DEF StartFontFace, StartOf
  <2> QED
    BY <2>1, <2>2, FailStep, StartedStep DEF RuleLabels
<1>12. CASE FirstDeclaration
  <2>1. pc = "first" /\ rule.fn \in Rules
    BY <1>12 DEF FirstDeclaration, TInv, TypeOK, InRule, RuleLabels, Frames
  <2>2. (\E s : Fail(s)) \/ Declared("next", Declaration(text, pos), pos)
    BY <1>12, <2>1 DEF FirstDeclaration, Rules
  <2>3. pos \in Places /\ pos >= pos
    OBVIOUS
  <2> QED
    BY <2>1, <2>2, <2>3, FailStep, DeclaredStep DEF RuleLabels
<1>13. CASE NextDeclaration
  <2> DEFINE p == Skip(text, pos + 1)
  <2>1. pc = "next"
    BY <1>13 DEF NextDeclaration
  <2>2. CASE Here = ";"
    <3>1. pos + 1 \in Places
      BY <2>2 DEF Here, NoMore
    <3>2. p \in Places /\ p >= pos
      BY <3>1
    <3>3. \E l \in {"next", "end"} : Declared(l, Declaration(text, p), p)
      BY <1>13, <2>2 DEF NextDeclaration, NoMore
    <3> QED
      BY <2>1, <3>2, <3>3, DeclaredStep
  <2>3. CASE Here = NoMore
    <3>1. \E s : Fail(s)
      BY <1>13, <2>3 DEF NextDeclaration, NoMore
    <3> QED
      BY <2>1, <3>1, FailStep DEF RuleLabels
  <2>4. CASE Here \notin {";", NoMore}
    <3>1. pc' = "end" /\ Silent /\ UNCHANGED <<media, rule>>
      BY <1>13, <2>4 DEF NextDeclaration
    <3>2. OpenRules' = OpenRules /\ Phase = "rules" /\ Phase' = "rules"
      BY <2>1, <3>1, SameOpenRules DEF Phase
    <3> QED
      BY <3>1, <3>2, QuietStep DEF Protocol!Later
  <2> QED
    BY <2>2, <2>3, <2>4
<1>14. CASE EndRule
  <2>1. pc = "end"
    BY <1>14 DEF EndRule
  <2>2. CASE At(text, Skip(text, pos)) = "}"
    BY <1>14, <2>1, <2>2, EndStep DEF EndRule, NoMore
  <2>3. CASE At(text, Skip(text, pos)) # "}"
    <3>1. \E s : Fail(s)
      BY <1>14, <2>3 DEF EndRule
    <3> QED
      BY <2>1, <3>1, FailStep DEF RuleLabels
  <2> QED
    BY <2>2, <2>3
<1>15. CASE StartMedia
  <2>1. pc = "media"
    BY <1>15 DEF StartMedia
  <2> DEFINE r == MediaPrelude(text, pos)
             begun == r.status = "CR_OK" /\ r.pos > pos
  <2>2. CASE ~begun
    BY <1>15, <2>1, <2>2, FailMediaStep DEF StartMedia
  <2>3. CASE begun
    <3>0. /\ Call("start_media", media.from)
          /\ media' = [media EXCEPT !.started = TRUE]
          /\ rule'.started = FALSE /\ pc' = "ruleset"
      BY <1>15, <2>3 DEF StartMedia, EnterRule, Frame
    <3>1. ~media.started /\ ~rule.started /\ media'.started
      BY <2>1, <3>0 DEF Control, RuleControl, MediaControl, TInv, TypeOK, Frames
    <3>2. OpenRules = <<>> /\ OpenRules' = <<[kind |-> "media", at |-> media.from]>>
      BY <3>0, <3>1 DEF OpenRules, OpenMedia, TInv, TypeOK, Frames
    <3>3. Phase = "rules" /\ Phase' = "rules"
      BY <2>1, <3>0 DEF Phase
    <3>4. Protocol!Start("start_media", "media")
      BY <3>0, <3>2, <3>3, ShortSequences DEF Protocol!Start, Protocol!Called, Call
    <3> QED
      BY <3>4 DEF Protocol!Next
  <2> QED
    BY <2>2, <2>3
<1>16. CASE NextInMedia
  <2>1. media' = media /\ Silent /\ ~rule.started /\ ~rule'.started
    BY <1>16 DEF NextInMedia, EnterRule, Frame, NoFrame, Control, RuleControl
  <2>2. Phase = "rules" /\ Phase' = "rules"
    BY <1>16 DEF NextInMedia, Phase
  <2>3. OpenRules' = OpenRules
    BY <2>1 DEF OpenRules, OpenMedia
  <2> QED
    BY <2>1, <2>2, <2>3, QuietStep DEF Protocol!Later
<1>17. CASE EndMedia
  <2>1. pc = "end_media"
    BY <1>17 DEF EndMedia
  <2>2. CASE Here = "}"
    <3>1. /\ Call("end_media", media.from)
          /\ media' = [media EXCEPT !.started = FALSE]
          /\ rule' = rule /\ pc' = "return"
      BY <1>17, <2>2 DEF EndMedia, NoMore
    <3>2. media.started /\ ~rule.started /\ ~media'.started
      BY <2>1, <3>1 DEF Control, RuleControl, MediaControl, TInv, TypeOK, Frames
    <3>3. OpenRules = <<OpenMedia>> /\ OpenRules' = <<>>
      BY <3>1, <3>2 DEF OpenRules
    <3>4. Phase = "rules" /\ Phase' = "rules"
      BY <2>1, <3>1 DEF Phase
    <3>5. Protocol!End("end_media", "media")
      BY <3>1, <3>3, <3>4, ShortSequences
      DEF Protocol!End, Protocol!Called, Protocol!Innermost, Call, OpenMedia
    <3> QED
      BY <3>5 DEF Protocol!Next
  <2>3. CASE Here # "}"
    <3>1. \E s : FailMedia(s)
      BY <1>17, <2>3 DEF EndMedia
    <3> QED
      BY <2>1, <3>1, FailMediaStep
  <2> QED
    BY <2>2, <2>3
<1> QED
  BY <1>1, <1>2, <1>3, <1>4, <1>5, <1>6, <1>7, <1>8, <1>9, <1>10, <1>11, <1>12, <1>13,
     <1>14, <1>15, <1>16, <1>17 DEF Next

\* The handler is called as cr-doc-handler.h announces, on every set of texts in
\* which no declaration is cut off by the end of the input: rules open and close
\* in pairs, nest only in @media, and every failed rule is dropped by error.
THEOREM ParserFollowsProtocol ==
    ASSUME DeclarationsAreFollowed
    PROVE  Spec => ImplementsSacProtocol
<1>1. Init => Protocol!Init
  BY DEF Init, NoFrame, NoCall, Protocol!Init, Phase, OpenRules
<1>2. TInv /\ Control /\ [Next]_vars => Control'
  <2>1. TInv /\ Control /\ Next => Control'
    BY ControlPreserved
  <2>2. Control /\ UNCHANGED vars => Control'
    BY DEF vars, Control, RuleControl, MediaControl
  <2> QED
    BY <2>1, <2>2
<1>3. TInv /\ Control /\ [Next]_vars => [Protocol!Next]_(Protocol!protocolVars)
  <2>1. TInv /\ Control /\ Next => Protocol!Next
    BY ProtocolStep
  <2>2. UNCHANGED vars => UNCHANGED Protocol!protocolVars
    BY DEF vars, Protocol!protocolVars, Phase, OpenRules, OpenMedia, OpenRule
  <2> QED
    BY <2>1, <2>2
<1> QED
  BY <1>1, <1>2, <1>3, InitialTypes, TypesPreserved, InitialControl, PTL
  DEF Spec, ImplementsSacProtocol, Protocol!Spec

-----------------------------------------------------------------------------
(* Parsing goes on between statements.                                       *)

LEMMA UptoIs ==
    ASSUME NEW t \in Seq(Tokens), NEW b, NEW q \in 0..Len(t)
    PROVE  /\ Cardinality(Upto(t, b, q)) \in Nat
           /\ Cardinality(Upto(t, b, 0)) = 0
           /\ q < Len(t) => Cardinality(Upto(t, b, q + 1))
                 = IF t[q + 1] = b THEN Cardinality(Upto(t, b, q)) + 1
                                   ELSE Cardinality(Upto(t, b, q))
<1>1. IsFiniteSet(Upto(t, b, q))
  <2>1. IsFiniteSet(1..q)
    BY FS_Interval
  <2>2. Upto(t, b, q) \subseteq 1..q
    BY DEF Upto
  <2> QED
    BY <2>1, <2>2, FS_Subset
<1>2. Upto(t, b, 0) = {}
  BY DEF Upto
<1>3. ASSUME q < Len(t)
      PROVE  Cardinality(Upto(t, b, q + 1))
                = IF t[q + 1] = b THEN Cardinality(Upto(t, b, q)) + 1
                                  ELSE Cardinality(Upto(t, b, q))
  <2>1. Upto(t, b, q + 1)
           = IF t[q + 1] = b THEN Upto(t, b, q) \cup {q + 1} ELSE Upto(t, b, q)
    BY DEF Upto
  <2>2. q + 1 \notin Upto(t, b, q)
    BY DEF Upto
  <2> QED
    BY <1>1, <2>1, <2>2, FS_AddElement
<1> QED
  BY <1>1, <1>2, <1>3, FS_CardinalityType, FS_EmptySet

\* A brace opens or closes one block, and nothing else does.
LEMMA Braces ==
    ASSUME NEW t \in Seq(Tokens), NEW p \in 0..Len(t)
    PROVE  /\ DepthIn(t, p) \in Int /\ DepthIn(t, 0) = 0
           /\ \A q \in p..Len(t) : NoBraces(t, p, q) => DepthIn(t, q) = DepthIn(t, p)
           /\ At(t, p) = CBO => DepthIn(t, p + 1) = DepthIn(t, p) + 1
           /\ At(t, p) = CBC => DepthIn(t, p + 1) = DepthIn(t, p) - 1
           /\ At(t, p) \notin {CBO, CBC, NoMore} => NoBraces(t, p, p + 1)
<1>1. Len(t) \in Nat /\ CBO # CBC
  BY Zenon, LenProperties DEF CBO, CBC
<1>2. \A q : DepthIn(t, q) = Cardinality(Upto(t, CBO, q)) - Cardinality(Upto(t, CBC, q))
  BY DEF DepthIn
<1>3. ASSUME NEW q \in p..Len(t), NoBraces(t, p, q)
      PROVE  DepthIn(t, q) = DepthIn(t, p)
  <2>1. ASSUME NEW i \in 1..q, t[i] \in {CBO, CBC} PROVE i \in 1..p
    BY <1>1, <1>3, <2>1 DEF NoBraces
  <2>2. ASSUME NEW b \in {CBO, CBC} PROVE Upto(t, b, q) = Upto(t, b, p)
    BY <1>1, <2>1 DEF Upto
  <2> QED
    BY <1>2, <2>2
<1>4. At(t, p) \in {CBO, CBC} => p < Len(t) /\ t[p + 1] = At(t, p)
  <2>1. CBO # NoMore /\ CBC # NoMore
    BY Zenon DEF CBO, CBC, NoMore
  <2> QED
    BY <1>1, <2>1 DEF At
<1>5. At(t, p) \notin {CBO, CBC, NoMore} => NoBraces(t, p, p + 1)
  <2> SUFFICES ASSUME At(t, p) \notin {CBO, CBC, NoMore}, NEW i \in (p + 1)..(p + 1)
               PROVE  t[i] \notin {CBO, CBC}
    BY DEF NoBraces
  <2> QED
    BY <1>1 DEF At
<1>6. \A b : /\ Cardinality(Upto(t, b, p)) \in Nat /\ Cardinality(Upto(t, b, 0)) = 0
             /\ p < Len(t) => Cardinality(Upto(t, b, p + 1))
                   = IF t[p + 1] = b THEN Cardinality(Upto(t, b, p)) + 1
                                     ELSE Cardinality(Upto(t, b, p))
  BY UptoIs
<1>7. DepthIn(t, p) \in Int /\ DepthIn(t, 0) = 0
  BY <1>2, <1>6
<1>8. /\ At(t, p) = CBO => DepthIn(t, p + 1) = DepthIn(t, p) + 1
      /\ At(t, p) = CBC => DepthIn(t, p + 1) = DepthIn(t, p) - 1
  BY <1>1, <1>2, <1>4, <1>6
<1> QED
  BY <1>3, <1>5, <1>7, <1>8

\* From p to q no brace is passed.
Level(p, q) == p <= q /\ \A i \in p..q : Depth(i) = Depth(p)

\* What a typed state and the productions give the steps.
LEMMA Depths ==
    ASSUME TInv, BlocksAreRead
    PROVE  /\ \A p \in Places : Depth(p) \in Int
           /\ 0 \in Places /\ Depth(0) = 0
           /\ \A p \in Places : Skip(text, p) \in Places /\ Level(p, Skip(text, p))
           /\ \A p \in Places : At(text, p) # NoMore => p + 1 \in Places
           /\ \A p \in Places : At(text, p) \notin {CBO, CBC, NoMore} => Level(p, p + 1)
           /\ \A p \in Places : At(text, p) = CBO => Depth(p + 1) = Depth(p) + 1
           /\ \A p \in Places : At(text, p) = CBC => Depth(p + 1) = Depth(p) - 1
           /\ \A p \in Places : \A r \in Found(text, p) : r.pos \in Places /\ r.pos >= p
           /\ \A p \in Places :
                 \A r \in {Selector(text, p), Declaration(text, p), Charset(text, p),
                           Import(text, p)} : Level(p, r.pos)
           /\ \A p \in Places :
                 \A r \in {MediaPrelude(text, p), PagePrelude(text, p),
                           FontFacePrelude(text, p)} :
                    r.pos > p => Depth(r.pos) = Depth(p) + 1
           /\ \A p \in Places :
                 \A r \in {AtruleCore(text, p), RulesetCore(text, p),
                           StatementCore(text, p)} :
                    r.status = "CR_OK" => Depth(r.pos) = Depth(p)
<1>1. text \in Texts /\ text \in Seq(Tokens) /\ Len(text) \in Nat
  BY DEF TInv, TypeOK
<1>2. /\ Places = 0..Len(text) /\ Places \subseteq Nat /\ 0 \in Places
      /\ \A p \in Places : Skip(text, p) \in Places /\ Skip(text, p) >= p
      /\ \A p \in Places : At(text, p) # NoMore => p < Len(text) /\ p + 1 \in Places
      /\ \A p \in Places : \A r \in Found(text, p) : r.pos \in Places /\ r.pos >= p
  BY <1>1, Forward DEF Places
<1>3. /\ \A p \in Places : Depth(p) \in Int
      /\ Depth(0) = 0
      /\ \A p \in Places : At(text, p) = CBO => Depth(p + 1) = Depth(p) + 1
      /\ \A p \in Places : At(text, p) = CBC => Depth(p + 1) = Depth(p) - 1
      /\ \A p \in Places : At(text, p) \notin {CBO, CBC, NoMore} => NoBraces(text, p, p + 1)
  BY <1>1, <1>2, Braces DEF Depth
<1>4. ASSUME NEW p \in Places, NEW q \in Places, p <= q, NoBraces(text, p, q)
      PROVE  Level(p, q)
  <2> SUFFICES ASSUME NEW i \in p..q PROVE Depth(i) = Depth(p)
    BY <1>4 DEF Level
  <2>1. NoBraces(text, p, i) /\ i \in p..Len(text)
    BY <1>1, <1>2, <1>4 DEF NoBraces
  <2> QED
    BY <1>1, <1>2, <2>1, Braces DEF Depth
<1>5. ASSUME NEW p \in Places
      PROVE  /\ NoBraces(text, p, Skip(text, p))
             /\ \A r \in {Selector(text, p), Declaration(text, p), Charset(text, p),
                          Import(text, p)} : NoBraces(text, p, r.pos)
             /\ \A r \in {MediaPrelude(text, p), PagePrelude(text, p),
                          FontFacePrelude(text, p)} :
                   r.pos > p => Depth(r.pos) = Depth(p) + 1
             /\ \A r \in {AtruleCore(text, p), RulesetCore(text, p),
                          StatementCore(text, p)} :
                   r.status = "CR_OK" => Depth(r.pos) = Depth(p)
  BY <1>1, <1>2 DEF BlocksAreRead, Depth
<1>6. ASSUME NEW p \in Places
      PROVE  Level(p, Skip(text, p))
  BY <1>2, <1>4, <1>5
<1>7. ASSUME NEW p \in Places, At(text, p) \notin {CBO, CBC, NoMore}
      PROVE  Level(p, p + 1)
  BY <1>2, <1>3, <1>4, <1>7
<1>8. ASSUME NEW p \in Places,
             NEW r \in {Selector(text, p), Declaration(text, p), Charset(text, p),
                        Import(text, p)}
      PROVE  Level(p, r.pos)
  BY <1>2, <1>4, <1>5, <1>8 DEF Found
<1> QED
  BY <1>2, <1>3, <1>5, <1>6, <1>7, <1>8

\* The positions from a to b are inside a block.
Above(a, b) == a <= b /\ \A i \in a..b : Depth(i) >= 1

LEMMA AboveOn ==
    ASSUME NEW a \in Int, NEW p \in Int, NEW q \in Int, Above(a, p), Above(p, q)
    PROVE  Above(a, q)
  BY DEF Above

LEMMA AboveLevel ==
    ASSUME NEW p \in Int, NEW q \in Int, Level(p, q), Depth(p) >= 1
    PROVE  Above(p, q)
  BY DEF Above, Level

\* Labels that are reached where parsing has been given up, or ends.
Lost == {"done", "error", "finished", "failed"}

\* The blocks a ruleset of parse_media is in, and a rule of parse_stylesheet.
BlocksAround == IF media.fn = "media" THEN 1 ELSE 0

\* Where parse_media has found its prelude to end.
Opening == MediaPrelude(text, media.from).pos

LEMMA Positions ==
    ASSUME TInv
    PROVE  /\ Places \subseteq Int
           /\ pos \in Places /\ rule.from \in Places /\ media.from \in Places
           /\ Opening \in Places /\ Opening >= media.from
<1>1. pos \in Places /\ rule.from \in Places /\ media.from \in Places
  BY DEF TInv, TypeOK, Frames
<1>2. MediaPrelude(text, media.from) \in Found(text, media.from)
  BY DEF Found
<1> QED
  BY <1>1, <1>2, Forward DEF Opening

\* parse_media is reading its rulesets.
InMedia == /\ media.fn = "media"
           /\ \/ pc \in RuleLabels \cup {"end_media"}
              \/ pc = "return" /\ rule.fn = "selector"

\* How many blocks are open at each label; and that an @media block, once it is open,
\* stays so for as long as parse_media reads rulesets.
OuterBlocks ==
    /\ pc \in Outer => media.fn = "none" /\ rule.fn = "none"
    /\ pc \in Outer \ Lost => Depth(pos) = 0
RuleBlocks ==
    /\ rule.fn # "none" => Depth(rule.from) = BlocksAround
    /\ pc \in {"ruleset", "page", "font_face"} => rule.from = pos
    /\ pc \in {"page", "font_face"} => media.fn = "none"
    /\ pc \in {"first", "next", "end"} => Depth(pos) = BlocksAround + 1
    /\ pc = "return" =>
          Depth(pos) = IF media.fn = "media" /\ rule.fn = "selector" THEN 1 ELSE 0
MediaBlocks ==
    /\ media.fn = "media" => Depth(media.from) = 0 /\ rule.fn \in {"none", "selector"}
    /\ pc = "media" => media.from = pos /\ media.fn = "media" /\ rule.fn = "none"
    /\ pc = "end_media" => Depth(pos) = 1 /\ media.fn = "media" /\ rule.fn = "none"
    /\ InMedia => /\ media.from < Opening /\ Above(Opening, pos)
                  /\ rule.fn = "selector" => Above(Opening, rule.from)

Blocks == OuterBlocks /\ RuleBlocks /\ MediaBlocks

LEMMA InitialBlocks == Init => Blocks
<1> SUFFICES ASSUME Init PROVE Blocks
  OBVIOUS
<1>1. text \in Seq(Tokens) /\ 0 \in 0..Len(text)
  BY ParserAssumption DEF Init
<1>2. Depth(pos) = 0
  BY <1>1, Braces DEF Init, Depth
<1> QED
  BY <1>2 DEF Init, NoFrame, Blocks, OuterBlocks, RuleBlocks, MediaBlocks, InMedia, RuleLabels

\* A step to a label of parse_stylesheet.
LEMMA ToOuter ==
    ASSUME text' = text, pc' \in Outer, media'.fn = "none", rule'.fn = "none",
           pc' \in Lost \/ Depth(pos') = 0
    PROVE  Blocks'
<1>1. pc' \notin RuleLabels \cup {"media", "return", "end_media"}
  BY DEF Outer
<1> QED
  BY <1>1 DEF Blocks, OuterBlocks, RuleBlocks, MediaBlocks, InMedia, RuleLabels, Depth

\* A step within the block of a rule.
LEMMA ToDeclaration ==
    ASSUME TInv, BlocksAreRead, Blocks, pc \in {"first", "next"},
           pc' \in {"next", "end"}, Level(pos, pos'), pos' \in Places,
           UNCHANGED <<text, media, rule>>
    PROVE  Blocks'
<1>1. /\ Depth(pos) = BlocksAround + 1 /\ rule.fn # "none" /\ pos \in Int /\ pos' \in Int
      /\ Depth(pos') = Depth(pos) /\ Opening \in Int
      /\ rule.fn # "none" => Depth(rule.from) = BlocksAround
  <2>1. pos <= pos' /\ pos \in Int /\ pos' \in Int /\ Opening \in Int
    BY Positions DEF Level
  <2>2. Depth(pos') = Depth(pos)
    BY <2>1 DEF Level
  <2> QED
    BY <2>1, <2>2 DEF Blocks, RuleBlocks, TInv, InRule, RuleLabels
<1>2. ASSUME InMedia
      PROVE  /\ media.from < Opening /\ Above(Opening, pos')
             /\ rule.fn = "selector" => Above(Opening, rule.from)
  <2>1. Above(pos, pos')
    BY <1>1, <1>2, AboveLevel DEF InMedia, BlocksAround
  <2> QED
    BY <1>1, <1>2, <2>1, AboveOn DEF Blocks, MediaBlocks
<1>3. InMedia' => InMedia
  BY DEF InMedia, RuleLabels
<1>4. /\ media.from < Opening => (media.from < Opening)'
      /\ Above(Opening, pos') => Above(Opening, pos)'
      /\ Above(Opening, rule.from) => Above(Opening, rule.from)'
      /\ Depth(pos)' = Depth(pos') /\ Depth(rule.from)' = Depth(rule.from)
      /\ Depth(media.from)' = Depth(media.from) /\ BlocksAround' = BlocksAround
  BY DEF Opening, Above, Depth, BlocksAround
<1>5. OuterBlocks'
  BY DEF OuterBlocks, Outer, RuleLabels
<1>6. RuleBlocks'
  BY <1>1, <1>4 DEF RuleBlocks
<1>7. MediaBlocks'
  BY <1>2, <1>3, <1>4 DEF MediaBlocks, Blocks
<1> QED
  BY <1>5, <1>6, <1>7 DEF Blocks

\* What a step leaves alone keeps its value where the text is the same.
LEMMA SameText ==
    ASSUME text' = text
    PROVE  /\ Depth(pos)' = Depth(pos') /\ Depth(rule.from)' = Depth(rule'.from)
           /\ Depth(media.from)' = Depth(media'.from)
           /\ media'.from = media.from => Opening' = Opening
           /\ media'.fn = media.fn => BlocksAround' = BlocksAround
           /\ \A a : Above(a, pos') => Above(a, pos)'
           /\ \A a : Above(a, rule'.from) => Above(a, rule.from)'
  BY DEF Depth, Above, Opening, BlocksAround

LEMMA FailBlocks ==
    ASSUME TInv, Blocks, pc \in RuleLabels, NEW s, Fail(s)
    PROVE  Blocks'
<1>1. /\ rule.fn # "none" /\ Depth(rule.from) = BlocksAround
      /\ media.fn = "media" => rule.fn = "selector"
  BY DEF Blocks, RuleBlocks, MediaBlocks, TInv, InRule
<1>2. /\ pos' = rule.from /\ pc' = "return" /\ text' = text /\ media' = media
      /\ rule'.fn = rule.fn /\ rule'.from = rule.from
  BY DEF Fail, TInv, TypeOK, Frames
<1>3. OuterBlocks'
  BY <1>2 DEF OuterBlocks, Outer
<1>4. RuleBlocks'
  BY <1>1, <1>2, SameText DEF RuleBlocks, BlocksAround
<1>5. InMedia' => InMedia
  BY <1>2 DEF InMedia
<1>6. InMedia /\ rule.fn = "selector"
         => media.from < Opening /\ Above(Opening, rule.from)
  BY DEF Blocks, MediaBlocks
<1>7. MediaBlocks'
  BY <1>1, <1>2, <1>5, <1>6, SameText DEF MediaBlocks, Blocks, InMedia
<1> QED
  BY <1>3, <1>4, <1>7 DEF Blocks

LEMMA StartedBlocks ==
    ASSUME TInv, BlocksAreRead, Blocks, pc \in {"ruleset", "page", "font_face"},
           NEW f, NEW p \in Places, Started(f, p),
           Depth(p) = Depth(pos) + 1, media.fn = "media" => Above(pos, p)
    PROVE  Blocks'
<1>1. /\ rule.fn # "none" /\ rule.from = pos /\ Depth(pos) = BlocksAround
      /\ media.fn = "media" => rule.fn = "selector"
  BY DEF Blocks, RuleBlocks, MediaBlocks, TInv, InRule, RuleLabels
<1>2. /\ pos' = Skip(text, p) /\ pc' = "first" /\ text' = text /\ media' = media
      /\ rule'.fn = rule.fn /\ rule'.from = rule.from
  BY DEF Started, TInv, TypeOK, Frames
<1>3. /\ pos' \in Places /\ Level(p, pos') /\ Depth(pos') = Depth(p)
      /\ Depth(pos) \in Int /\ Depth(pos') \in Int
  <2>1. pos' \in Places /\ Level(p, pos')
    BY <1>2, Depths
  <2>2. Depth(pos') = Depth(p)
    BY <2>1, Positions DEF Level
  <2> QED
    BY <2>1, <2>2, Depths, Positions
<1>4. OuterBlocks'
  BY <1>2 DEF OuterBlocks, Outer, RuleLabels
<1>5. RuleBlocks'
  BY <1>1, <1>2, <1>3, SameText DEF RuleBlocks
<1>6. ASSUME InMedia
      PROVE  /\ media.from < Opening /\ Above(Opening, pos')
             /\ rule.fn = "selector" => Above(Opening, rule.from)
  <2>1. Above(p, pos')
    BY <1>1, <1>3, <1>6, AboveLevel, Positions DEF InMedia, BlocksAround
  <2>2. Above(pos, p)
    BY <1>6 DEF InMedia
  <2> QED
    BY <1>3, <1>6, <2>1, <2>2, AboveOn, Positions DEF Blocks, MediaBlocks
<1>7. InMedia' => InMedia
  BY <1>2 DEF InMedia, RuleLabels
<1>8. MediaBlocks'
  BY <1>1, <1>2, <1>6, <1>7, SameText DEF MediaBlocks, Blocks
<1> QED
  BY <1>4, <1>5, <1>8 DEF Blocks

LEMMA FailMediaBlocks ==
    ASSUME TInv, Blocks, pc \in {"media", "end_media"}, NEW s, FailMedia(s)
    PROVE  Blocks'
<1>1. /\ pos' = media.from /\ pc' = "return" /\ text' = text /\ media' = media
      /\ rule'.fn = "none"
  BY DEF FailMedia, NoFrame
<1>2. Depth(media.from) = 0
  BY DEF Blocks, MediaBlocks
<1>3. OuterBlocks'
  BY <1>1 DEF OuterBlocks, Outer
<1>4. RuleBlocks'
  BY <1>1, <1>2, SameText DEF RuleBlocks
<1>5. MediaBlocks'
  BY <1>1, <1>2, SameText DEF MediaBlocks, InMedia, RuleLabels
<1> QED
  BY <1>3, <1>4, <1>5 DEF Blocks

\* Between places.
LEMMA Inside ==
    ASSUME TInv
    PROVE  /\ \A p, q \in Places : Level(p, q) /\ Depth(p) >= 1 => Above(p, q)
           /\ \A p \in Places : Depth(p) >= 1 /\ Depth(p + 1) >= 1 => Above(p, p + 1)
           /\ \A a, p, q \in Places : Above(a, p) /\ Above(p, q) => Above(a, q)
           /\ \A p \in Places : Level(p, p)
<1>1. Places \subseteq Int
  BY Positions
<1>2. ASSUME NEW p \in Places, Depth(p) >= 1, Depth(p + 1) >= 1
      PROVE  Above(p, p + 1)
  <2>1. p \in Int
    BY <1>1
  <2>2. p <= p + 1 /\ \A i \in p..(p + 1) : i = p \/ i = p + 1
    BY <2>1
  <2> QED
    BY <1>2, <2>2, Zenon DEF Above
<1>3. ASSUME NEW p \in Places
      PROVE  Level(p, p)
  <2>1. p \in Int
    BY <1>1
  <2>2. p <= p /\ \A i \in p..p : i = p
    BY <2>1
  <2> QED
    BY <2>2, Zenon DEF Level
<1>4. ASSUME NEW p \in Places, NEW q \in Places, Level(p, q), Depth(p) >= 1
      PROVE  Above(p, q)
  BY <1>1, <1>4, AboveLevel
<1>5. ASSUME NEW a \in Places, NEW p \in Places, NEW q \in Places, Above(a, p), Above(p, q)
      PROVE  Above(a, q)
  BY <1>1, <1>5, AboveOn
<1> QED
  BY <1>2, <1>3, <1>4, <1>5

LEMMA BlocksPreserved ==
    ASSUME TInv, TInv', BlocksAreRead, Blocks, Next
    PROVE  Blocks'
<1>1. /\ \A p \in Places : Depth(p) \in Int
      /\ 0 \in Places /\ Depth(0) = 0 /\ Places \subseteq Int
      /\ \A p \in Places : Skip(text, p) \in Places /\ Level(p, Skip(text, p))
      /\ \A p \in Places : At(text, p) # NoMore => p + 1 \in Places
      /\ \A p \in Places : At(text, p) \notin {CBO, CBC, NoMore} => Level(p, p + 1)
      /\ \A p \in Places : At(text, p) = CBO => Depth(p + 1) = Depth(p) + 1
      /\ \A p \in Places : At(text, p) = CBC => Depth(p + 1) = Depth(p) - 1
      /\ \A p \in Places : \A r \in Found(text, p) : r.pos \in Places /\ r.pos >= p
      /\ \A p \in Places :
            \A r \in {Selector(text, p), Declaration(text, p), Charset(text, p),
                      Import(text, p)} : Level(p, r.pos)
      /\ \A p \in Places :
            \A r \in {MediaPrelude(text, p), PagePrelude(text, p),
                      FontFacePrelude(text, p)} : r.pos > p => Depth(r.pos) = Depth(p) + 1
      /\ \A p \in Places :
            \A r \in {AtruleCore(text, p), RulesetCore(text, p), StatementCore(text, p)} :
               r.status = "CR_OK" => Depth(r.pos) = Depth(p)
  BY Depths, Positions
<1>2. /\ pos \in Places /\ rule.from \in Places /\ media.from \in Places
      /\ Opening \in Places /\ Opening >= media.from
  BY Positions
<1>3. \A p, q \in Places : Level(p, q) => p <= q /\ Depth(q) = Depth(p)
  BY <1>1 DEF Level
<1>4. \A p \in Places : Depth(Skip(text, p)) = Depth(p)
  BY <1>1, <1>3
<1>5. \A p, q, r \in Places : Level(p, q) /\ Level(q, r) => Level(p, r)
  BY <1>1 DEF Level
<1>i. /\ \A p, q \in Places : Level(p, q) /\ Depth(p) >= 1 => Above(p, q)
      /\ \A p \in Places : Depth(p) >= 1 /\ Depth(p + 1) >= 1 => Above(p, p + 1)
      /\ \A a, p, q \in Places : Above(a, p) /\ Above(p, q) => Above(a, q)
      /\ \A p \in Places : Level(p, p)
  BY Inside
<1>6. /\ pc \in Outer => media.fn = "none" /\ rule.fn = "none"
      /\ pc \in Outer \ Lost => Depth(pos) = 0
  BY DEF Blocks, OuterBlocks
<1>7. CASE StartDocument
  BY <1>6, <1>7, ToOuter DEF StartDocument, Leave, Outer, RuleLabels, Labels, Lost
<1>8. CASE CharsetStatement
  <2> DEFINE p == Skip(text, pos)
  <2>1. pc \in Outer \ Lost /\ Depth(p) = 0 /\ p \in Places
    BY <1>1, <1>2, <1>4, <1>6, <1>8 DEF CharsetStatement, Outer, RuleLabels, Labels, Lost
  <2>2. Depth(Charset(text, p).pos) = 0
    BY <1>1, <1>3, <2>1 DEF Found
  <2>3. AtruleCore(text, p).status = "CR_OK" => Depth(AtruleCore(text, p).pos) = 0
    BY <1>1, <2>1
  <2>4. /\ pc' \in {"done", "skip_cdo", "error"} /\ UNCHANGED <<text, media, rule>>
        /\ pc' \in Lost \/ Depth(pos') = 0
    BY <1>8, <2>1, <2>2, <2>3 DEF CharsetStatement, Leave, Lost
  <2> QED
    BY <1>6, <2>1, <2>4, ToOuter DEF Outer, RuleLabels, Labels, Lost
<1>9. CASE SkipCDO
  <2> DEFINE p == Skip(text, pos)
  <2>1. pc \in Outer \ Lost /\ Depth(p) = 0 /\ p \in Places
    BY <1>1, <1>2, <1>4, <1>6, <1>9 DEF SkipCDO, Outer, RuleLabels, Labels, Lost
  <2>2. At(text, p) = "CDO" => Depth(p + 1) = 0
    <3>1. At(text, p) = "CDO" => At(text, p) \notin {CBO, CBC, NoMore}
      BY Zenon DEF CBO, CBC, NoMore
    <3> QED
      BY <1>1, <1>3, <2>1, <3>1
  <2>3. /\ pc' \in {"done", "skip_cdo", "imports"} /\ UNCHANGED <<text, media, rule>>
        /\ pc' \in Lost \/ Depth(pos') = 0
    BY <1>9, <2>1, <2>2 DEF SkipCDO, Leave, Lost
  <2> QED
    BY <1>6, <2>1, <2>3, ToOuter DEF Outer, RuleLabels, Labels, Lost
<1>10. CASE ImportStatement \/ RecoverImport
  <2>1. pc \in Outer \ Lost /\ Depth(pos) = 0
    BY <1>6, <1>10 DEF ImportStatement, RecoverImport, Outer, RuleLabels, Labels, Lost
  <2>2. Depth(Skip(text, Import(text, pos).pos)) = 0
    <3>1. Import(text, pos).pos \in Places /\ Level(pos, Import(text, pos).pos)
      BY <1>1, <1>2 DEF Found
    <3> QED
      BY <1>2, <1>3, <1>4, <2>1, <3>1
  <2>3. AtruleCore(text, pos).status = "CR_OK"
           => Depth(Skip(text, AtruleCore(text, pos).pos)) = 0
    BY <1>1, <1>2, <1>4, <2>1 DEF Found
  <2>4. /\ pc' \in {"error", "imports", "recover_import"} /\ UNCHANGED <<text, media, rule>>
        /\ pc' \in Lost \/ Depth(pos') = 0
    BY <1>10, <2>1, <2>2, <2>3 DEF ImportStatement, RecoverImport, Leave, Lost
  <2> QED
    BY <1>6, <2>1, <2>4, ToOuter DEF Outer, RuleLabels, Labels, Lost
<1>11. CASE SkipCDOAfterImport \/ EndOfImports
  <2>1. pc \in Outer \ Lost /\ Depth(Skip(text, pos)) = 0
    BY <1>2, <1>4, <1>6, <1>11 DEF SkipCDOAfterImport, EndOfImports, Outer, RuleLabels, Labels, Lost
  <2>2. /\ pc' \in {"error", "done", "rules"} /\ UNCHANGED <<text, media, rule>>
        /\ pc' \in Lost \/ Depth(pos') = 0
    BY <1>11, <2>1 DEF SkipCDOAfterImport, EndOfImports, Leave, Lost
  <2> QED
    BY <1>6, <2>1, <2>2, ToOuter DEF Outer, RuleLabels, Labels, Lost
<1>12. CASE Recover
  <2>1. pc \in Outer \ Lost /\ Depth(pos) = 0
    BY <1>6, <1>12 DEF Recover, Outer, RuleLabels, Labels, Lost
  <2>2. /\ pc' \in {"done", "rules"} /\ UNCHANGED <<text, media, rule>>
        /\ pc' \in Lost \/ Depth(pos') = 0
    BY <1>1, <1>2, <1>12, <2>1 DEF Recover, Leave, Lost
  <2> QED
    BY <1>6, <2>1, <2>2, ToOuter DEF Outer, RuleLabels, Labels, Lost
<1>13. CASE EndDocument \/ GiveUp
  <2>1. pc \in Outer /\ pc' \in {"finished", "failed"} /\ UNCHANGED <<text, media, rule>>
    BY <1>13 DEF EndDocument, GiveUp, Leave, Outer, RuleLabels, Labels
  <2> QED
    BY <1>6, <2>1, ToOuter DEF Outer, RuleLabels, Labels, Lost
<1>14. CASE NextStatement
  <2>1. pc = "rules" /\ Depth(pos) = 0 /\ media.fn = "none" /\ rule.fn = "none" /\ text' = text
    BY <1>6, <1>14 DEF NextStatement, Outer, RuleLabels, Labels, Lost
  <2>2. CASE Here = NoMore
    <3>1. pc' = "done" /\ UNCHANGED <<media, rule>>
      BY <1>14, <2>2 DEF NextStatement, RulesetStart, NoMore
    <3> QED
      BY <2>1, <3>1, ToOuter DEF Outer, RuleLabels, Labels, Lost
  <2>3. CASE Here \in {"S", "CDO"}
    <3>1. pos' = Skip(text, pos + 1) /\ UNCHANGED <<pc, media, rule>>
      BY <1>14, <2>3 DEF NextStatement, RulesetStart, NoMore
    <3>2. Here \notin {CBO, CBC, NoMore}
      BY <2>3, Zenon DEF CBO, CBC, NoMore
    <3>3. Depth(pos') = 0
      BY <1>1, <1>2, <1>3, <1>4, <2>1, <3>1, <3>2 DEF Here
    <3> QED
      BY <2>1, <3>1, <3>3, ToOuter DEF Outer, RuleLabels, Labels, Lost
  <2>4. CASE /\ \/ pc' = "ruleset" /\ rule'.fn = "selector"
                \/ pc' = "page" /\ rule'.fn = "page"
                \/ pc' = "font_face" /\ rule'.fn = "font_face"
             /\ rule'.from = pos /\ pos' = pos /\ media' = media
    <3>1. OuterBlocks' /\ MediaBlocks'
      BY <2>1, <2>4 DEF OuterBlocks, MediaBlocks, InMedia, Outer, RuleLabels
    <3>2. RuleBlocks'
      BY <2>1, <2>4, SameText DEF RuleBlocks, BlocksAround
    <3> QED
      BY <3>1, <3>2 DEF Blocks
  <2>5. CASE pc' = "media" /\ media' = Frame("media", pos) /\ pos' = pos /\ rule' = rule
    <3>1. media'.fn = "media" /\ media'.from = pos
      BY <2>5 DEF Frame
    <3>2. OuterBlocks' /\ RuleBlocks'
      BY <2>1, <2>5 DEF OuterBlocks, RuleBlocks, Outer
    <3>3. MediaBlocks'
      BY <2>1, <2>5, <3>1, SameText DEF MediaBlocks, InMedia, RuleLabels
    <3> QED
      BY <3>2, <3>3 DEF Blocks
  <2>6. CASE /\ pos' = StatementCore(text, pos).pos /\ UNCHANGED <<media, rule>>
             /\ pc' = IF StatementCore(text, pos).status = "CR_OK" THEN "rules" ELSE "done"
    <3>1. pc' \in {"rules", "done"} /\ (pc' \in Lost \/ Depth(pos') = 0)
      BY <1>1, <1>2, <2>1, <2>6 DEF Lost
    <3> QED
      BY <2>1, <2>6, <3>1, ToOuter DEF Outer, RuleLabels, Labels, Lost
  <2>7. \/ Here = NoMore \/ Here \in {"S", "CDO"}
        \/ /\ \/ pc' = "ruleset" /\ rule'.fn = "selector"
              \/ pc' = "page" /\ rule'.fn = "page"
              \/ pc' = "font_face" /\ rule'.fn = "font_face"
           /\ rule'.from = pos /\ pos' = pos /\ media' = media
        \/ pc' = "media" /\ media' = Frame("media", pos) /\ pos' = pos /\ rule' = rule
        \/ /\ pos' = StatementCore(text, pos).pos /\ UNCHANGED <<media, rule>>
           /\ pc' = IF StatementCore(text, pos).status = "CR_OK" THEN "rules" ELSE "done"
    BY <1>14 DEF NextStatement, EnterRule, Frame
  <2> QED
    BY <2>2, <2>3, <2>4, <2>5, <2>6, <2>7
<1>15. CASE Returned
  <2>1. Depth(pos) = 0 /\ pos' = pos /\ text' = text
    BY <1>15 DEF Returned, Blocks, RuleBlocks
  <2>2. pc' \in Outer /\ media'.fn = "none" /\ rule'.fn = "none"
    BY <1>15 DEF Returned, NoFrame, Outer, RuleLabels, Labels
  <2> QED
    BY <2>1, <2>2, ToOuter
<1>16. CASE StartSelector
  <2> DEFINE r == Selector(text, pos)
  <2>1. pc = "ruleset" /\ rule.from = pos /\ Depth(pos) = BlocksAround
    BY <1>16 DEF StartSelector, Blocks, RuleBlocks, TInv, InRule, RuleLabels
  <2>2. CASE Started("start_selector", r.pos + 1) /\ At(text, r.pos) = "{"
    <3>1. At(text, r.pos) = CBO /\ CBO # NoMore
      BY <2>2, Zenon DEF CBO, NoMore
    <3>2. r.pos \in Places /\ r.pos + 1 \in Places /\ Level(pos, r.pos) /\ Depth(r.pos) = Depth(pos)
      BY <1>1, <1>2, <1>3, <3>1 DEF Found
    <3>3. Depth(r.pos + 1) = Depth(pos) + 1
      BY <1>1, <3>1, <3>2
    <3>4. ASSUME media.fn = "media" PROVE Above(pos, r.pos + 1)
      <4>1. Depth(pos) = 1
        BY <2>1, <3>4 DEF BlocksAround
      <4>2. Above(pos, r.pos) /\ Above(r.pos, r.pos + 1)
        BY <1>i, <1>2, <3>2, <3>3, <4>1
      <4> QED
        BY <1>i, <1>2, <3>2, <4>2
    <3> QED
      BY <2>1, <2>2, <3>2, <3>3, <3>4, StartedBlocks
  <2>3. CASE Fail("CR_PARSING_ERROR") \/ Fail(NoMore)
    BY <2>1, <2>3, FailBlocks DEF RuleLabels
  <2> QED
    BY <1>16, <2>2, <2>3 DEF StartSelector
<1>17. CASE StartPage \/ StartFontFace
  <2>1. /\ pc \in {"page", "font_face"} /\ rule.fn # "none"
        /\ \E r \in {PagePrelude(text, pos), FontFacePrelude(text, pos)} :
              IF r.status = "CR_OK" THEN \E f : Started(f, r.pos) ELSE Fail(r.status)
    BY <1>17 DEF StartPage, StartFontFace, TInv, InRule, RuleLabels
  <2>2. PICK r \in {PagePrelude(text, pos), FontFacePrelude(text, pos)} :
              IF r.status = "CR_OK" THEN \E f : Started(f, r.pos) ELSE Fail(r.status)
    BY <2>1
  <2>3. CASE r.status = "CR_OK"
    <3>1. r.pos > pos /\ r.pos \in Places /\ Depth(r.pos) = Depth(pos) + 1
      BY <1>1, <1>2, <2>3, Forward DEF Found
    <3>2. media.fn = "none"
      BY <2>1 DEF Blocks, RuleBlocks
    <3> QED
      BY <2>1, <2>2, <2>3, <3>1, <3>2, StartedBlocks
  <2>4. CASE r.status # "CR_OK"
    BY <2>1, <2>2, <2>4, FailBlocks DEF RuleLabels
  <2> QED
    BY <2>3, <2>4
<1>18. ASSUME NEW l \in {"next", "end"}, NEW p \in Places, Level(pos, p),
              pc \in {"first", "next"}, Declared(l, Declaration(text, p), p)
       PROVE  Blocks'
  <2>1. Level(pos, Declaration(text, p).pos) /\ Declaration(text, p).pos \in Places
    BY <1>1, <1>2, <1>5, <1>18 DEF Found
  <2>2. pos' = Declaration(text, p).pos /\ pc' = l /\ UNCHANGED <<text, media, rule>>
    BY <1>18 DEF Declared
  <2> QED
    BY <1>18, <2>1, <2>2, ToDeclaration
<1>19. CASE FirstDeclaration
  <2>1. pc = "first" /\ Level(pos, pos) /\ rule.fn \in Rules
    BY <1>1, <1>2, <1>19 DEF FirstDeclaration, Level, TInv, TypeOK, Frames, InRule, RuleLabels
  <2>2. \/ Declared("next", Declaration(text, pos), pos)
        \/ Fail("CR_PARSING_ERROR")
    BY <1>19, <2>1 DEF FirstDeclaration, Rules
  <2> QED
    BY <1>2, <1>18, <2>1, <2>2, FailBlocks DEF RuleLabels
<1>20. CASE NextDeclaration
  <2> DEFINE p == Skip(text, pos + 1)
  <2>1. pc = "next"
    BY <1>20 DEF NextDeclaration
  <2>2. CASE Here = ";"
    <3>1. Here \notin {CBO, CBC, NoMore}
      BY <2>2, Zenon DEF CBO, CBC, NoMore
    <3>2. p \in Places /\ Level(pos, p)
      <4>1. pos + 1 \in Places /\ Level(pos, pos + 1)
        BY <1>1, <1>2, <3>1 DEF Here
      <4> QED
        BY <1>1, <1>2, <1>5, <4>1
    <3>3. \E l \in {"next", "end"} : Declared(l, Declaration(text, p), p)
      <4>1. Declared(IF Declaration(text, p).status = "CR_OK" \/ rule.fn = "selector"
                     THEN "next" ELSE "end", Declaration(text, p), p)
        BY <1>20, <2>2, <3>1 DEF NextDeclaration
      <4> QED
        BY <4>1, Zenon
    <3> QED
      BY <1>18, <2>1, <3>2, <3>3
  <2>3. CASE \E s : Fail(s)
    BY <2>1, <2>3, FailBlocks DEF RuleLabels
  <2>4. CASE pc' = "end" /\ UNCHANGED <<text, pos, media, rule>>
    <3>1. Level(pos, pos') /\ pos' \in Places
      BY <1>1, <1>2, <2>4 DEF Level
    <3> QED
      BY <2>1, <2>4, <3>1, ToDeclaration
  <2> QED
    BY <1>20, <2>2, <2>3, <2>4, Zenon DEF NextDeclaration
<1>21. CASE EndRule
  <2> DEFINE p == Skip(text, pos)
  <2>1. /\ pc = "end" /\ rule.fn # "none" /\ Depth(pos) = BlocksAround + 1
        /\ media.fn = "media" => rule.fn = "selector"
    BY <1>21 DEF EndRule, Blocks, RuleBlocks, MediaBlocks, TInv, InRule, RuleLabels
  <2>2. CASE /\ At(text, p) = "}" /\ rule' = [rule EXCEPT !.started = FALSE]
             /\ pos' \in {p + 1, Skip(text, p + 1)} /\ pc' = "return"
             /\ UNCHANGED <<text, media>>
    <3>1. At(text, p) = CBC /\ CBC # NoMore
      BY <2>2, Zenon DEF CBC, NoMore
    <3>2. /\ p \in Places /\ p + 1 \in Places /\ Level(pos, p) /\ Depth(p) = Depth(pos)
          /\ Depth(p + 1) = Depth(p) - 1
      BY <1>1, <1>2, <1>3, <3>1
    <3>3. /\ pos' \in Places /\ Level(p + 1, pos') /\ Depth(pos') = BlocksAround
          /\ rule'.fn = rule.fn /\ rule'.from = rule.from
      <4>1. Level(p + 1, p + 1)
        BY <1>i, <3>2
      <4>2. pos' \in Places /\ Level(p + 1, pos')
        BY <1>1, <2>2, <3>2, <4>1
      <4>3. Depth(pos') = Depth(p + 1)
        BY <1>3, <3>2, <4>2
      <4>4. rule'.fn = rule.fn /\ rule'.from = rule.from
        BY <2>2 DEF TInv, TypeOK, Frames
      <4>5. Depth(pos') = BlocksAround
        BY <2>1, <3>2, <4>3 DEF BlocksAround
      <4> QED
        BY <4>2, <4>4, <4>5
    <3>4. OuterBlocks'
      BY <2>2 DEF OuterBlocks, Outer
    <3>5. RuleBlocks'
      BY <2>1, <2>2, <3>3, SameText DEF RuleBlocks, Blocks, BlocksAround
    <3>6. ASSUME InMedia
          PROVE  /\ media.from < Opening /\ Above(Opening, pos')
                 /\ rule.fn = "selector" => Above(Opening, rule.from)
      <4>1. BlocksAround = 1
        BY <3>6 DEF InMedia, BlocksAround
      <4>2. Depth(pos) = 2 /\ Depth(p) = 2 /\ Depth(p + 1) = 1
        BY <2>1, <3>2, <4>1
      <4>3. Above(pos, p) /\ Above(p, p + 1) /\ Above(p + 1, pos')
        BY <1>i, <1>2, <3>2, <3>3, <4>2
      <4>4. Above(Opening, p)
        BY <1>i, <1>2, <3>2, <3>6, <4>3 DEF Blocks, MediaBlocks
      <4>5. Above(Opening, p + 1)
        BY <1>i, <1>2, <3>2, <4>3, <4>4
      <4>8. Above(Opening, pos')
        BY <1>i, <1>2, <3>2, <3>3, <4>3, <4>5
      <4> QED
        BY <3>6, <4>8 DEF Blocks, MediaBlocks
    <3>7. InMedia' => InMedia
      BY <2>1, <2>2 DEF InMedia, RuleLabels
    <3>8. MediaBlocks'
      BY <2>1, <2>2, <3>3, <3>6, <3>7, SameText DEF MediaBlocks, Blocks
    <3> QED
      BY <3>4, <3>5, <3>8 DEF Blocks
  <2>3. CASE \E s : Fail(s)
    BY <2>1, <2>3, FailBlocks DEF RuleLabels
  <2>4. \/ /\ At(text, p) = "}" /\ rule' = [rule EXCEPT !.started = FALSE]
           /\ pos' \in {p + 1, Skip(text, p + 1)} /\ pc' = "return"
           /\ UNCHANGED <<text, media>>
        \/ \E s : Fail(s)
    BY <1>21, Zenon DEF EndRule
  <2> QED
    BY <2>2, <2>3, <2>4
<1>22. CASE StartMedia
  <2> DEFINE r == MediaPrelude(text, pos)
             p == Skip(text, r.pos)
  <2>1. /\ pc = "media" /\ media.from = pos /\ media.fn = "media" /\ Opening = r.pos
        /\ Depth(pos) = 0
    BY <1>22 DEF StartMedia, Blocks, MediaBlocks, Opening
  <2>2. CASE /\ r.pos > pos /\ media' = [media EXCEPT !.started = TRUE]
             /\ EnterRule("selector", p) /\ pos' = p /\ pc' = "ruleset" /\ text' = text
    <3>1. r.pos \in Places /\ p \in Places /\ Level(r.pos, p) /\ Depth(r.pos) = 1 /\ Depth(p) = 1
      BY <1>1, <1>2, <1>3, <2>1, <2>2 DEF Found
    <3>2. /\ media'.fn = media.fn /\ media'.from = media.from
          /\ rule'.fn = "selector" /\ rule'.from = p
      BY <2>2 DEF EnterRule, Frame, TInv, TypeOK, Frames
    <3>3. Above(Opening, p)
      BY <1>i, <2>1, <3>1
    <3>4. OuterBlocks'
      BY <2>2 DEF OuterBlocks, Outer, RuleLabels
    <3>5. RuleBlocks'
      BY <2>1, <2>2, <3>1, <3>2, SameText DEF RuleBlocks, BlocksAround
    <3>6. MediaBlocks'
      BY <2>1, <2>2, <3>1, <3>2, <3>3, SameText DEF MediaBlocks
    <3> QED
      BY <3>4, <3>5, <3>6 DEF Blocks
  <2>3. CASE FailMedia(r.status)
    BY <2>1, <2>3, FailMediaBlocks
  <2> QED
    BY <1>22, <2>2, <2>3 DEF StartMedia
<1>23. CASE NextInMedia
  <2>1. /\ pc = "return" /\ media.fn = "media" /\ rule.fn = "selector" /\ Depth(pos) = 1
        /\ Depth(media.from) = 0 /\ media.from < Opening /\ Above(Opening, pos)
    BY <1>23 DEF NextInMedia, Blocks, RuleBlocks, MediaBlocks, InMedia
  <2>2. /\ pos' = Skip(text, pos) /\ text' = text /\ media' = media
        /\ \/ pc' = "ruleset" /\ rule'.fn = "selector" /\ rule'.from = pos'
           \/ pc' = "end_media" /\ rule'.fn = "none"
    BY <1>23 DEF NextInMedia, EnterRule, Frame, NoFrame
  <2>3. pos' \in Places /\ Level(pos, pos') /\ Depth(pos') = 1
    BY <1>1, <1>2, <1>3, <2>1, <2>2
  <2>4. Above(Opening, pos')
    <3>1. Above(pos, pos')
      BY <1>1, <1>2, <2>1, <2>3, AboveLevel
    <3> QED
      BY <1>1, <1>2, <2>1, <2>3, <3>1, AboveOn
  <2>5. OuterBlocks'
    BY <2>2 DEF OuterBlocks, Outer, RuleLabels
  <2>6. RuleBlocks'
    BY <2>1, <2>2, <2>3, SameText DEF RuleBlocks, BlocksAround
  <2>7. MediaBlocks'
    BY <2>1, <2>2, <2>3, <2>4, SameText DEF MediaBlocks
  <2> QED
    BY <2>5, <2>6, <2>7 DEF Blocks
<1>24. CASE EndMedia
  <2>1. pc = "end_media" /\ Depth(pos) = 1 /\ Depth(media.from) = 0 /\ rule.fn = "none"
    BY <1>24 DEF EndMedia, Blocks, MediaBlocks
  <2>2. CASE /\ Here = "}" /\ media' = [media EXCEPT !.started = FALSE]
             /\ pos' = Skip(text, pos + 1) /\ pc' = "return" /\ UNCHANGED <<text, rule>>
    <3>1. At(text, pos) = CBC /\ CBC # NoMore
      BY <2>2, Zenon DEF CBC, NoMore, Here
    <3>2. Depth(pos') = 0 /\ media'.from = media.from
      <4>1. media'.from = media.from
        BY <2>2 DEF TInv, TypeOK, Frames
      <4>2. pos + 1 \in Places /\ Depth(pos + 1) = 0
        BY <1>1, <1>2, <2>1, <3>1
      <4> QED
        BY <1>4, <2>2, <4>1, <4>2
    <3>3. OuterBlocks'
      BY <2>2 DEF OuterBlocks, Outer
    <3>4. RuleBlocks'
      BY <2>1, <2>2, <3>2, SameText DEF RuleBlocks
    <3>5. MediaBlocks'
      BY <2>1, <2>2, <3>2, SameText DEF MediaBlocks, InMedia, RuleLabels
    <3> QED
      BY <3>3, <3>4, <3>5 DEF Blocks
  <2>3. CASE \E s : FailMedia(s)
    BY <2>1, <2>3, FailMediaBlocks
  <2>4. \/ /\ Here = "}" /\ media' = [media EXCEPT !.started = FALSE]
           /\ pos' = Skip(text, pos + 1) /\ pc' = "return" /\ UNCHANGED <<text, rule>>
        \/ \E s : FailMedia(s)
    BY <1>24, Zenon DEF EndMedia
  <2> QED
    BY <2>2, <2>3, <2>4
<1> QED
  BY <1>7, <1>8, <1>9, <1>10, <1>11, <1>12, <1>13, <1>14, <1>15, <1>16, <1>17, <1>19,
     <1>20, <1>21, <1>22, <1>23, <1>24 DEF Next

\* After an error parsing resumes between two statements: at each of these labels as
\* many braces have been closed as were opened (the init_pos the routines go back to,
\* and the blocks the core productions match).
THEOREM ParsingResumesBetweenStatements ==
    ASSUME BlocksAreRead
    PROVE  Spec => []ResumesBetweenStatements
<1>1. Init => TInv /\ Blocks
  BY InitialTypes, InitialBlocks
<1>2. TInv /\ Blocks /\ [Next]_vars => (TInv /\ Blocks)'
  <2> SUFFICES ASSUME TInv, Blocks, [Next]_vars PROVE (TInv /\ Blocks)'
    OBVIOUS
  <2>1. TInv'
    BY TypesPreserved
  <2>2. CASE Next
    BY <2>1, <2>2, BlocksPreserved
  <2>3. CASE UNCHANGED vars
    BY <2>1, <2>3 DEF vars, Blocks, OuterBlocks, RuleBlocks, MediaBlocks, InMedia, Above,
                      Opening, BlocksAround, Depth
  <2> QED
    BY <2>2, <2>3
<1>3. TInv /\ Blocks => ResumesBetweenStatements
  <2> SUFFICES ASSUME TInv, Blocks PROVE ResumesBetweenStatements
    OBVIOUS
  <2>1. pc = "rules" => Depth(pos) = 0
    BY DEF Blocks, OuterBlocks, Outer, RuleLabels, Labels, Lost
  <2>2. pc = "ruleset" => Depth(pos) = BlocksAround
    BY DEF Blocks, RuleBlocks, TInv, InRule, RuleLabels
  <2> QED
    BY <2>1, <2>2 DEF ResumesBetweenStatements, BlocksAround
<1> QED
  BY <1>1, <1>2, <1>3, PTL DEF Spec

-----------------------------------------------------------------------------
(* No statement is read twice: the places where statements began that have   *)
(* been read are behind the parser, or will be when it has recovered.        *)

\* An at-rule has failed and its routine has gone back to where it began.
Rewound == \/ pc = "recover_atrule"
           \/ pc = "return" /\ media.fn = "media" /\ rule.fn = "none" /\ status # "CR_OK"

\* Recovery, from here, goes past a.
Past(a) == LET r == AtruleCore(text, pos) IN r.status = "CR_OK" => a < r.pos

Reached(a) ==
    /\ pc \in RuleLabels => a < rule.from
    /\ Rewound => Past(a)
    /\ pc \notin RuleLabels \cup Lost /\ ~Rewound =>
          a < pos /\ (rule.started => a < rule.from)

\* The places that matter to a handler which keeps statements: where an at-rule that
\* stands alone, or an @media rule, begins; and where a rule began that ends.
StartsRule == sac'.call \in {"charset", "import_style", "start_media"}
EndsRule == sac'.call \in {"end_selector", "end_page", "end_font_face"}

Passing ==
    /\ \A a \in Int : Reached(a) => Reached(a)'
    /\ \A b : StartsRule /\ b = sac'.at => Reached(b)' /\ \A a \in Int : Reached(a) => a < b
    /\ \A b : EndsRule /\ b = rule.from => Reached(b)'

LEMMA ToLabel ==
    ASSUME NEW a, pc' \notin RuleLabels \cup {"return", "recover_atrule"},
           a < pos', ~rule'.started
    PROVE  Reached(a)'
  BY DEF Reached, Rewound, RuleLabels

LEMMA ToTheEnd ==
    ASSUME NEW a, pc' \in Lost
    PROVE  Reached(a)'
  BY DEF Reached, Rewound, RuleLabels, Lost

LEMMA ToRule ==
    ASSUME NEW a, pc' \in RuleLabels, a < rule'.from
    PROVE  Reached(a)'
  BY DEF Reached, Rewound, RuleLabels

LEMMA Back ==
    ASSUME NEW a, pc' = "return", rule'.fn # "none" \/ media'.fn # "media" \/ status' = "CR_OK",
           a < pos', rule'.started => a < rule'.from
    PROVE  Reached(a)'
  BY DEF Reached, Rewound, RuleLabels, Lost

\* A label that is not in a rule and is not reached by going back.
LEMMA Ahead ==
    ASSUME NEW a, Reached(a), ~Rewound, pc \notin RuleLabels \cup Lost
    PROVE  a < pos
  BY DEF Reached

LEMMA FailPasses ==
    ASSUME TInv, Control, pc \in RuleLabels, NEW s, Fail(s), NEW a, Reached(a)
    PROVE  Reached(a)'
<1>1. a < rule.from /\ rule.fn # "none"
  BY DEF Reached, TInv, InRule
<1>2. pos' = rule.from /\ pc' = "return" /\ rule'.fn = rule.fn /\ rule'.from = rule.from
  BY DEF Fail, TInv, TypeOK, Frames
<1> QED
  BY <1>1, <1>2, Back

LEMMA After ==
    ASSUME TInv
    PROVE  /\ \A p, q, r \in Places : q >= p /\ r >= q => r >= p
           /\ \A p \in Places : p >= p /\ p + 1 >= p
<1>1. Places \subseteq Int
  BY Positions
<1>2. ASSUME NEW p \in Places PROVE p >= p /\ p + 1 >= p
  <2>1. p \in Int
    BY <1>1
  <2> QED
    BY <2>1
<1>3. ASSUME NEW p \in Places, NEW q \in Places, NEW r \in Places, q >= p, r >= q
      PROVE  r >= p
  <2>1. p \in Int /\ q \in Int /\ r \in Int
    BY <1>1
  <2> QED
    BY <1>3, <2>1
<1> QED
  BY <1>2, <1>3

LEMMA PassingOuter ==
    ASSUME TInv, Control, StatementsMoveOn,
           StartDocument \/ CharsetStatement \/ SkipCDO \/ ImportStatement
           \/ RecoverImport \/ SkipCDOAfterImport \/ EndOfImports
    PROVE  Passing
<1>1. /\ Places \subseteq Int /\ pos \in Places
      /\ \A p \in Places : Skip(text, p) \in Places /\ Skip(text, p) >= p
      /\ \A p \in Places : At(text, p) # NoMore => p + 1 \in Places
      /\ \A p \in Places : \A r \in Found(text, p) : r.pos \in Places /\ r.pos >= p
      /\ Len(text) \in Places /\ \A p \in Places : p <= Len(text)
  <2>1. Len(text) \in Nat
    BY Forward
  <2>2. Len(text) \in Places /\ \A p \in Places : p <= Len(text)
    BY <2>1 DEF Places
  <2> QED
    BY <2>2, Forward, Positions
<1>2. /\ pc \notin RuleLabels \cup Lost /\ ~Rewound /\ rule' = rule /\ ~rule.started
      /\ pc' \in Outer \ {"recover_atrule"}
  BY DEF StartDocument, CharsetStatement, SkipCDO, ImportStatement, RecoverImport,
     SkipCDOAfterImport, EndOfImports, Leave, Rewound, Control, RuleControl, MediaControl,
     RuleLabels, Lost, Outer, Labels
<1>3. \A p : pos' > p => Reached(p)'
  BY <1>2, ToLabel DEF Outer
<1>4. pos' \in Places /\ (pos' >= pos \/ pc' \in Lost)
  <2> DEFINE p == Skip(text, pos)
  <2>1. p \in Places /\ p >= pos /\ p <= Len(text) /\ pos \in Places /\ pos >= pos
    BY <1>1, After
  <2>2. CASE StartDocument \/ SkipCDOAfterImport \/ EndOfImports
    BY <1>1, <2>1, <2>2, After DEF StartDocument, SkipCDOAfterImport, EndOfImports
  <2>3. CASE CharsetStatement
    <3>1. /\ Charset(text, p).pos \in Places /\ Charset(text, p).pos >= p
          /\ AtruleCore(text, p).pos \in Places /\ AtruleCore(text, p).pos >= p
      BY <1>1, <2>1 DEF Found
    <3>2. pos' \in {p, Charset(text, p).pos, AtruleCore(text, p).pos}
      BY <2>3 DEF CharsetStatement
    <3> QED
      BY <2>1, <3>1, <3>2, After
  <2>4. CASE SkipCDO
    <3>1. At(text, p) # NoMore => p + 1 \in Places
      BY <1>1, <2>1
    <3>2. \/ pos' = p
          \/ At(text, p) # NoMore /\ pos' = p + 1
      BY <2>4 DEF SkipCDO, NoMore
    <3>3. At(text, p) # NoMore => p + 1 >= p
      BY <2>1, After
    <3> QED
      BY <2>1, <3>1, <3>2, <3>3, After
  <2>5. CASE ImportStatement
    <3>1. Import(text, pos).pos \in Places /\ Import(text, pos).pos >= pos
      BY <1>1 DEF Found
    <3>2. /\ Skip(text, Import(text, pos).pos) \in Places
          /\ Skip(text, Import(text, pos).pos) >= Import(text, pos).pos
      BY <1>1, <3>1
    <3>3. pos' \in {pos, Skip(text, Import(text, pos).pos)}
      BY <2>5 DEF ImportStatement
    <3> QED
      BY <2>1, <3>1, <3>2, <3>3, After
  <2>6. CASE RecoverImport
    <3>1. AtruleCore(text, pos).pos \in Places /\ AtruleCore(text, pos).pos >= pos
      BY <1>1 DEF Found
    <3>2. /\ Skip(text, AtruleCore(text, pos).pos) \in Places
          /\ Skip(text, AtruleCore(text, pos).pos) >= AtruleCore(text, pos).pos
      BY <1>1, <3>1
    <3>3. pos' \in {AtruleCore(text, pos).pos, Skip(text, AtruleCore(text, pos).pos)}
      BY <2>6 DEF RecoverImport
    <3> QED
      BY <2>1, <3>1, <3>2, <3>3, After
  <2> QED
    BY <2>2, <2>3, <2>4, <2>5, <2>6
<1>5. ASSUME NEW a \in Int, Reached(a) PROVE Reached(a)'
  <2>1. a < pos
    BY <1>2, <1>5, Ahead
  <2>2. pc' \in Lost \/ a < pos'
    BY <1>1, <1>4, <2>1
  <2> QED
    BY <1>3, <2>2, ToTheEnd
<1>6. ~EndsRule
  BY DEF StartDocument, CharsetStatement, SkipCDO, ImportStatement, RecoverImport,
     SkipCDOAfterImport, EndOfImports, Call, Silent, NoCall, EndsRule
<1>7. ASSUME NEW b, StartsRule, b = sac'.at
      PROVE  Reached(b)' /\ \A a \in Int : Reached(a) => a < b
  <2>1. sac'.at \in Int /\ sac'.at >= pos /\ pos' > sac'.at
    <3>1. CASE CharsetStatement
      <4> DEFINE p == Skip(text, pos)
      <4>1. p \in Places /\ p >= pos
        BY <1>1
      <4>2. Charset(text, p).status = "CR_OK" => Charset(text, p).pos > p
        BY <4>1 DEF StatementsMoveOn, TInv, Places
      <4>3. Charset(text, p).status = "CR_OK" /\ pos' = Charset(text, p).pos /\ sac'.at = p
        BY <1>7, <3>1 DEF CharsetStatement, StartsRule, Call, Silent, NoCall
      <4>4. pos \in Int /\ p \in Int
        BY <1>1, <4>1
      <4> QED
        BY <4>1, <4>2, <4>3, <4>4
    <3>2. CASE ImportStatement
      <4>1. Import(text, pos).pos \in Places
        BY <1>1 DEF Found
      <4>2. /\ Skip(text, Import(text, pos).pos) \in Places
            /\ Skip(text, Import(text, pos).pos) >= Import(text, pos).pos
        BY <1>1, <4>1
      <4>3. /\ Import(text, pos).pos > pos /\ sac'.at = pos
            /\ pos' = Skip(text, Import(text, pos).pos)
        BY <1>7, <3>2 DEF ImportStatement, StartsRule, Call, Silent, NoCall
      <4>4. pos \in Int /\ Import(text, pos).pos \in Int /\ pos' \in Int
        BY <1>1, <4>1, <4>2, <4>3
      <4> QED
        BY <4>2, <4>3, <4>4
    <3> QED
      BY <1>7, <3>1, <3>2
      DEF StartDocument, SkipCDO, RecoverImport, SkipCDOAfterImport, EndOfImports,
          Call, Silent, NoCall, StartsRule
  <2>2. \A a \in Int : Reached(a) => a < b
    <3> SUFFICES ASSUME NEW a \in Int, Reached(a) PROVE a < b
      OBVIOUS
    <3>1. a < pos
      BY <1>2, Ahead
    <3> QED
      BY <1>1, <1>7, <2>1, <3>1
  <2> QED
    BY <1>3, <1>7, <2>1, <2>2
<1> QED
  BY <1>5, <1>6, <1>7 DEF Passing

LEMMA PassingStatements ==
    ASSUME TInv, Control, NextStatement \/ Returned \/ Recover \/ EndDocument \/ GiveUp
    PROVE  Passing
<1>1. /\ Places \subseteq Int /\ pos \in Places /\ pos \in Int
      /\ \A p \in Places : Skip(text, p) \in Places /\ Skip(text, p) >= p
      /\ \A p \in Places : At(text, p) # NoMore => p + 1 \in Places
      /\ \A p \in Places : \A r \in Found(text, p) : r.pos \in Places /\ r.pos >= p
  BY Forward, Positions
<1>2. /\ pc \in Outer \/ pc = "return"
      /\ pc \in Outer => rule.fn = "none" /\ ~rule.started /\ media.fn = "none"
  BY DEF NextStatement, Returned, Recover, EndDocument, GiveUp, Control, RuleControl,
     MediaControl, Outer, RuleLabels, Labels
<1>3. ~StartsRule /\ ~EndsRule
  BY DEF NextStatement, Returned, Recover, EndDocument, GiveUp, StartsRule, EndsRule, Call,
     Silent, NoCall
<1> SUFFICES ASSUME NEW a \in Int, Reached(a) PROVE Reached(a)'
  BY <1>3 DEF Passing
<1>4. CASE EndDocument \/ GiveUp
  <2>1. pc' \in Lost
    BY <1>4 DEF EndDocument, GiveUp, Leave, Lost
  <2> QED
    BY <2>1, ToTheEnd
<1>5. CASE Recover
  <2>1. CASE pc' = "done"
    BY <2>1, ToTheEnd DEF Lost
  <2>2. CASE pc' # "done"
    <3>1. pc' = "rules" /\ rule' = rule /\ ~rule.started
      BY <1>2, <1>5, <2>2 DEF Recover, Leave, Outer, RuleLabels, Labels
    <3>2. CASE pc = "recover_ruleset"
      <4>1. RulesetCore(text, pos).pos \in Places /\ RulesetCore(text, pos).pos >= pos
        BY <1>1 DEF Found
      <4>2. a < pos /\ pos' = RulesetCore(text, pos).pos
        BY <1>5, <3>2, Ahead DEF Recover, Rewound, RuleLabels, Lost
      <4>3. pos' \in Int
        BY <1>1, <4>1, <4>2
      <4>4. a < pos'
        BY <1>1, <4>1, <4>2, <4>3
      <4> QED
        BY <3>1, <4>4, ToLabel DEF RuleLabels
    <3>3. CASE pc = "recover_atrule"
      <4>1. a < AtruleCore(text, pos).pos /\ pos' = AtruleCore(text, pos).pos
        BY <1>5, <2>2, <3>3 DEF Recover, Leave, Reached, Rewound, Past
      <4> QED
        BY <3>1, <4>1, ToLabel DEF RuleLabels
    <3> QED
      BY <1>5, <3>2, <3>3 DEF Recover
  <2> QED
    BY <2>1, <2>2
<1>6. CASE NextStatement
  <2>1. pc = "rules" /\ a < pos /\ ~rule.started
    BY <1>2, <1>6, Ahead DEF NextStatement, Rewound, RuleLabels, Lost, Outer, Labels
  <2>2. CASE pc' \in Lost
    BY <2>2, ToTheEnd
  <2>3. CASE pc' \in RuleLabels
    <3>1. rule'.from = pos
      BY <1>6, <2>1, <2>3 DEF NextStatement, EnterRule, Frame, RuleLabels
    <3> QED
      BY <2>1, <2>3, <3>1, ToRule
  <2>4. CASE pc' \notin RuleLabels \cup Lost
    <3>1. pc' \in {"rules", "media"} /\ rule' = rule
      BY <1>6, <2>1, <2>4 DEF NextStatement, RuleLabels, Lost
    <3>2. \/ pos' = pos
          \/ Here \in {"S", "CDO"} /\ pos' = Skip(text, pos + 1)
          \/ pos' = StatementCore(text, pos).pos
      BY <1>6 DEF NextStatement
    <3>3. CASE pos' = pos
      BY <2>1, <3>1, <3>3, ToLabel DEF RuleLabels
    <3>4. CASE Here \in {"S", "CDO"} /\ pos' = Skip(text, pos + 1)
      <4>1. Here # NoMore
        BY <3>4 DEF NoMore
      <4>2. pos + 1 \in Places /\ pos' \in Places /\ pos' >= pos + 1
        BY <1>1, <3>4, <4>1 DEF Here
      <4>3. pos' \in Int
        BY <1>1, <4>2
      <4>4. a < pos'
        BY <1>1, <2>1, <4>2, <4>3
      <4> QED
        BY <2>1, <3>1, <4>4, ToLabel DEF RuleLabels
    <3>5. CASE pos' = StatementCore(text, pos).pos
      <4>1. pos' \in Places /\ pos' >= pos
        BY <1>1, <3>5 DEF Found
      <4>2. pos' \in Int
        BY <1>1, <4>1
      <4>3. a < pos'
        BY <1>1, <2>1, <4>1, <4>2
      <4> QED
        BY <2>1, <3>1, <4>3, ToLabel DEF RuleLabels
    <3> QED
      BY <3>2, <3>3, <3>4, <3>5
  <2> QED
    BY <2>2, <2>3, <2>4
<1>7. CASE Returned
  <2>1. /\ pc = "return" /\ pos' = pos /\ text' = text /\ ~rule'.started /\ rule'.fn = "none"
        /\ media'.fn = "none" /\ ~(media.fn = "media" /\ rule.fn = "selector")
        /\ pc' = IF status = "CR_OK" THEN "rules"
                 ELSE IF rule.fn = "selector" THEN "recover_ruleset" ELSE "recover_atrule"
    BY <1>7 DEF Returned, NoFrame
  <2>2. CASE Rewound
    <3>1. pc' = "recover_atrule" /\ Past(a)
      BY <2>1, <2>2 DEF Rewound, Reached
    <3>2. Past(a)'
      BY <2>1, <3>1 DEF Past
    <3> QED
      BY <3>1, <3>2 DEF Reached, Rewound, RuleLabels
  <2>3. CASE ~Rewound
    <3>1. a < pos'
      BY <2>1, <2>3, Ahead DEF RuleLabels, Lost
    <3>2. CASE pc' = "recover_atrule"
      <4>1. AtruleCore(text, pos).pos \in Places /\ AtruleCore(text, pos).pos >= pos
        BY <1>1 DEF Found
      <4>2. AtruleCore(text, pos).pos \in Int
        BY <1>1, <4>1
      <4>3. a < AtruleCore(text, pos).pos
        BY <1>1, <2>1, <3>1, <4>1, <4>2
      <4>4. Past(a)'
        BY <2>1, <4>3 DEF Past
      <4> QED
        BY <3>2, <4>4 DEF Reached, Rewound, RuleLabels
    <3>3. CASE pc' # "recover_atrule"
      BY <2>1, <3>1, <3>3, ToLabel DEF RuleLabels
    <3> QED
      BY <3>2, <3>3
  <2> QED
    BY <2>2, <2>3
<1> QED
  BY <1>4, <1>5, <1>6, <1>7

LEMMA PassingRules ==
    ASSUME TInv, Control,
           StartSelector \/ StartPage \/ StartFontFace
           \/ FirstDeclaration \/ NextDeclaration \/ EndRule
    PROVE  Passing
<1>1. pc \in RuleLabels /\ rule.fn # "none" /\ rule.fn \in Rules
  BY DEF StartSelector, StartPage, StartFontFace, FirstDeclaration, NextDeclaration, EndRule,
     RuleLabels, TInv, TypeOK, Frames, InRule, Rules
<1>2. ASSUME NEW s, Fail(s) PROVE Passing
  <2>1. ~StartsRule /\ ~EndsRule
    BY <1>2 DEF Fail, StartsRule, EndsRule, Call, Silent, NoCall
  <2>2. \A a \in Int : Reached(a) => Reached(a)'
    BY <1>1, <1>2, FailPasses
  <2> QED
    BY <2>1, <2>2 DEF Passing
<1>3. ASSUME pc' \in RuleLabels, rule'.from = rule.from, ~StartsRule, ~EndsRule PROVE Passing
  <2>1. ASSUME NEW a \in Int, Reached(a) PROVE Reached(a)'
    <3>1. a < rule.from
      BY <1>1, <2>1 DEF Reached
    <3> QED
      BY <1>3, <3>1, ToRule
  <2> QED
    BY <1>3, <2>1 DEF Passing
<1>4. ASSUME NEW f \in {"start_selector", "start_page", "start_font_face"}, NEW p, Started(f, p)
      PROVE  Passing
  BY <1>3, <1>4 DEF Started, TInv, TypeOK, Frames, StartsRule, EndsRule, Call, RuleLabels
<1>5. ASSUME NEW l \in {"next", "end"}, NEW d, NEW p, Declared(l, d, p) PROVE Passing
  BY <1>3, <1>5 DEF Declared, StartsRule, EndsRule, Call, Silent, NoCall, RuleLabels
<1>6. CASE StartSelector
  BY <1>2, <1>4, <1>6, Zenon DEF StartSelector
<1>7. CASE StartPage \/ StartFontFace
  BY <1>2, <1>4, <1>7 DEF StartPage, StartFontFace
<1>8. CASE FirstDeclaration
  <2>1. \/ \E s : Fail(s)
        \/ Declared("next", Declaration(text, pos), pos)
    BY <1>1, <1>8 DEF FirstDeclaration, Rules
  <2> QED
    BY <1>2, <1>5, <2>1
<1>9. CASE NextDeclaration
  <2>1. \/ \E s : Fail(s)
        \/ \E d, p : \E l \in {"next", "end"} : Declared(l, d, p)
        \/ pc' = "end" /\ Silent /\ UNCHANGED rule
    BY <1>9, Zenon DEF NextDeclaration
  <2>2. ASSUME pc' = "end", Silent, UNCHANGED rule PROVE Passing
    BY <1>3, <2>2 DEF StartsRule, EndsRule, Silent, NoCall, RuleLabels
  <2> QED
    BY <1>2, <1>5, <2>1, <2>2
<1>10. CASE EndRule
  <2> DEFINE q == Skip(text, pos)
  <2>1. \/ \E s : Fail(s)
        \/ /\ At(text, q) = "}" /\ Call(EndOf(rule.fn), rule.from)
           /\ rule' = [rule EXCEPT !.started = FALSE]
           /\ pos' = IF rule.fn = "selector" THEN q + 1 ELSE Skip(text, q + 1)
           /\ pc' = "return"
    BY <1>10, Zenon DEF EndRule
  <2>2. ASSUME At(text, q) = "}", Call(EndOf(rule.fn), rule.from),
               rule' = [rule EXCEPT !.started = FALSE], pc' = "return",
               pos' = IF rule.fn = "selector" THEN q + 1 ELSE Skip(text, q + 1)
        PROVE  Passing
    <3>1. At(text, q) # NoMore
      BY <2>2, Zenon DEF NoMore
    <3>2. /\ Places \subseteq Int /\ pos \in Places /\ q \in Places /\ q + 1 \in Places
          /\ q >= pos /\ Skip(text, q + 1) \in Places /\ Skip(text, q + 1) >= q + 1
      BY <3>1, Forward, Positions
    <3>3. pos \in Int /\ q \in Int /\ Skip(text, q + 1) \in Int /\ rule.from \in Int
      BY <3>2, Positions
    <3>4. rule.from < pos
      BY <1>10 DEF EndRule, Control, RuleControl
    <3>5. pos' > rule.from /\ pos' \in Int
      <4>1. pos' \in {q + 1, Skip(text, q + 1)}
        BY <2>2
      <4> QED
        BY <3>2, <3>3, <3>4, <4>1
    <3>6. rule'.fn # "none" /\ ~rule'.started
      BY <1>1, <2>2 DEF TInv, TypeOK, Frames
    <3>7. ~StartsRule
      BY <1>1, <2>2 DEF StartsRule, Call, EndOf, Rules
    <3>8. ASSUME NEW a \in Int, Reached(a) PROVE Reached(a)'
      <4>1. a < rule.from
        BY <1>1, <3>8 DEF Reached
      <4>2. a < pos'
        BY <3>3, <3>5, <4>1
      <4> QED
        BY <2>2, <3>6, <4>2, Back
    <3>9. ASSUME NEW b, b = rule.from PROVE Reached(b)'
      BY <2>2, <3>5, <3>6, <3>9, Back
    <3> QED
      BY <3>7, <3>8, <3>9 DEF Passing
  <2> QED
    BY <1>2, <2>1, <2>2
<1> QED
  BY <1>6, <1>7, <1>8, <1>9, <1>10

LEMMA PassingMedia ==
    ASSUME TInv, Control, Blocks, BlocksAreRead, StatementsMoveOn,
           StartMedia \/ NextInMedia \/ EndMedia
    PROVE  Passing
<1>1. /\ Places \subseteq Int /\ pos \in Places /\ media.from \in Places /\ Opening \in Places
      /\ \A p \in Places : Skip(text, p) \in Places /\ Skip(text, p) >= p
      /\ \A p \in Places : At(text, p) # NoMore => p + 1 \in Places
      /\ \A p \in Places : \A r \in Found(text, p) : r.pos \in Places /\ r.pos >= p
  BY Forward, Positions
<1>2. pos \in Int /\ media.from \in Int /\ Opening \in Int
  BY <1>1
<1>3. /\ ~Rewound /\ pc \notin RuleLabels \cup Lost /\ ~EndsRule
      /\ pc \in {"media", "end_media"} => rule.fn = "none" /\ ~rule.started
  <2>1. pc \in {"media", "end_media"} \/ (pc = "return" /\ rule.fn = "selector")
    BY DEF StartMedia, NextInMedia, EndMedia
  <2>2. \/ Silent
        \/ Call("start_media", media.from) \/ Call("end_media", media.from)
    BY Zenon DEF StartMedia, NextInMedia, EndMedia, FailMedia
  <2> QED
    BY <2>1, <2>2 DEF Rewound, RuleLabels, Lost, EndsRule, Call, Silent, NoCall, Control,
                      RuleControl, MediaControl
<1>4. CASE StartMedia
  <2> DEFINE r == MediaPrelude(text, pos)
             p == Skip(text, r.pos)
  <2>1. pc = "media" /\ media.from = pos /\ media.fn = "media"
    BY <1>4 DEF StartMedia, Blocks, MediaBlocks
  <2>2. ASSUME r.pos > pos, Call("start_media", media.from), EnterRule("selector", p),
               pc' = "ruleset"
        PROVE  Passing
    <3>1. r.pos \in Places /\ p \in Places /\ p >= r.pos
      BY <1>1 DEF Found
    <3>2. r.pos \in Int /\ p \in Int
      BY <1>1, <3>1
    <3>3. p > pos /\ rule'.from = p /\ sac'.at = pos
      BY <1>2, <2>1, <2>2, <3>1, <3>2 DEF EnterRule, Frame, Call
    <3>4. \A a \in Int : a <= pos => Reached(a)'
      <4> SUFFICES ASSUME NEW a \in Int, a <= pos PROVE Reached(a)'
        OBVIOUS
      <4>1. a < rule'.from
        BY <1>2, <3>2, <3>3
      <4> QED
        BY <2>2, <4>1, ToRule DEF RuleLabels
    <3>5. \A a \in Int : Reached(a) => a < pos
      BY <1>3, Ahead
    <3>6. \A a \in Int : Reached(a) => Reached(a)'
      BY <1>2, <3>4, <3>5
    <3>7. \A b : b = sac'.at => Reached(b)' /\ \A a \in Int : Reached(a) => a < b
      BY <1>2, <3>3, <3>4, <3>5
    <3> QED
      BY <1>3, <3>6, <3>7 DEF Passing
  <2>3. ASSUME FailMedia(r.status) PROVE Passing
    <3>1. /\ pos' = pos /\ pc' = "return" /\ text' = text /\ media' = media
          /\ rule'.fn = "none" /\ ~rule'.started /\ ~StartsRule
      BY <2>1, <2>3 DEF FailMedia, NoFrame, StartsRule, Silent, NoCall
    <3>2. ASSUME NEW a \in Int, Reached(a) PROVE Reached(a)'
      <4>1. a < pos
        BY <1>3, <3>2, Ahead
      <4>2. CASE status' = "CR_OK"
        BY <3>1, <4>1, <4>2, Back
      <4>3. CASE status' # "CR_OK"
        <5>1. AtruleCore(text, pos).pos \in Places /\ AtruleCore(text, pos).pos >= pos
          BY <1>1 DEF Found
        <5>2. AtruleCore(text, pos).pos \in Int
          BY <1>1, <5>1
        <5>3. a < AtruleCore(text, pos).pos
          BY <1>2, <4>1, <5>1, <5>2
        <5>4. Past(a)'
          BY <3>1, <5>3 DEF Past
        <5>5. Rewound'
          BY <2>1, <3>1, <4>3 DEF Rewound
        <5> QED
          BY <3>1, <5>4, <5>5 DEF Reached, RuleLabels
      <4> QED
        BY <4>2, <4>3
    <3> QED
      BY <1>3, <3>1, <3>2 DEF Passing
  <2> QED
    BY <1>4, <2>2, <2>3 DEF StartMedia
<1>5. CASE NextInMedia
  <2>1. pos' \in Places /\ pos' >= pos
    BY <1>1, <1>5 DEF NextInMedia
  <2>2. pos' \in Int /\ ~StartsRule
    BY <1>1, <1>5, <2>1 DEF NextInMedia, StartsRule, Silent, NoCall
  <2>3. ASSUME NEW a \in Int, Reached(a) PROVE Reached(a)'
    <3>1. a < pos
      BY <1>3, <2>3, Ahead
    <3>2. a < pos'
      BY <1>2, <2>1, <2>2, <3>1
    <3>3. \/ pc' = "ruleset" /\ rule'.from = pos'
          \/ pc' = "end_media" /\ ~rule'.started
      BY <1>5 DEF NextInMedia, EnterRule, Frame, NoFrame
    <3> QED
      BY <3>2, <3>3, ToRule, ToLabel DEF RuleLabels
  <2> QED
    BY <1>3, <2>2, <2>3 DEF Passing
<1>6. CASE EndMedia
  <2>1. /\ pc = "end_media" /\ media.fn = "media" /\ Depth(media.from) = 0
        /\ Above(Opening, pos) /\ ~rule.started /\ rule.fn = "none"
    BY <1>3, <1>6 DEF EndMedia, Blocks, MediaBlocks, InMedia
  <2>2. ASSUME Here = "}", Call("end_media", media.from), pos' = Skip(text, pos + 1),
               status' = "CR_OK", pc' = "return", UNCHANGED rule
        PROVE  Passing
    <3>1. Here # NoMore
      BY <2>2, Zenon DEF NoMore
    <3>2. pos + 1 \in Places /\ pos' \in Places /\ pos' >= pos + 1
      BY <1>1, <2>2, <3>1 DEF Here
    <3>3. pos' \in Int /\ ~StartsRule
      BY <1>1, <2>2, <3>2 DEF StartsRule, Call
    <3>4. ASSUME NEW a \in Int, Reached(a) PROVE Reached(a)'
      <4>1. a < pos
        BY <1>3, <3>4, Ahead
      <4>2. a < pos'
        BY <1>2, <3>2, <3>3, <4>1
      <4> QED
        BY <2>1, <2>2, <4>2, Back
    <3> QED
      BY <1>3, <3>3, <3>4 DEF Passing
  <2>3. ASSUME NEW s, s # "CR_OK", FailMedia(s) PROVE Passing
    <3>1. /\ pos' = media.from /\ pc' = "return" /\ text' = text /\ media' = media
          /\ rule'.fn = "none" /\ ~rule'.started /\ ~StartsRule /\ status' # "CR_OK"
      BY <2>1, <2>3 DEF FailMedia, NoFrame, StartsRule, Silent, NoCall
    <3>2. ASSUME NEW a \in Int, Reached(a) PROVE Reached(a)'
      <4> DEFINE r == AtruleCore(text, media.from)
      <4>1. a < pos
        BY <1>3, <3>2, Ahead
      <4>2. ASSUME r.status = "CR_OK" PROVE a < r.pos
        <5>1. r.pos \in Places /\ r.pos >= Opening
          <6>1. r.pos \in Places
            BY <1>1 DEF Found
          <6>2. r.pos >= Opening
            BY <1>1, <4>2 DEF StatementsMoveOn, TInv, Places, Opening
          <6> QED
            BY <6>1, <6>2
        <5>2. Depth(r.pos) = 0
          BY <1>1, <2>1, <4>2, Depths
        <5>3. r.pos \in Int
          BY <1>1, <5>1
        <5>4. r.pos \notin Opening..pos
          BY <2>1, <5>2 DEF Above
        <5> QED
          BY <1>2, <4>1, <5>1, <5>3, <5>4
      <4>3. Past(a)'
        BY <3>1, <4>2 DEF Past
      <4>4. Rewound'
        BY <2>1, <3>1 DEF Rewound
      <4> QED
        BY <3>1, <4>3, <4>4 DEF Reached, RuleLabels
    <3> QED
      BY <1>3, <3>1, <3>2 DEF Passing
  <2>4. NoMore # "CR_OK" /\ "CR_PARSING_ERROR" # "CR_OK"
    BY DEF NoMore
  <2> QED
    BY <1>6, <2>2, <2>3, <2>4, Zenon DEF EndMedia
<1> QED
  BY <1>4, <1>5, <1>6

\* The parser never tells a handler of a place it has told of before.
LEMMA EveryStepPasses ==
    ASSUME TInv, Control, Blocks, BlocksAreRead, StatementsMoveOn, Next
    PROVE  Passing
  BY PassingOuter, PassingStatements, PassingRules, PassingMedia DEF Next
=============================================================================
