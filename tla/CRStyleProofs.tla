--------------------------- MODULE CRStyleProofs ---------------------------
(***************************************************************************)
(* Styles that are filled, resolved, copied and given up in any order.     *)
(***************************************************************************)
EXTENDS CRStyle, InductionLemmas, FiniteSetTheorems, SequenceTheorems

-----------------------------------------------------------------------------
(* What is remembered of the calls.                                          *)

IsStyle(st) == st = [sv |-> st.sv, cv |-> st.cv, parent |-> st.parent, family |-> st.family,
                     resolved |-> st.resolved, refs |-> st.refs]

Shapes ==
    /\ live \subseteq Styles
    /\ style = [s \in Styles |-> style[s]]
    /\ \A s \in Styles : IsStyle(style[s])
    /\ declared = [s \in Styles |-> declared[s]]
    /\ \A s \in live : style[s].parent \in live \cup {NoStyle}

Inherited(s) ==
    \A f \in KeyFields \ {Whole("white-space")} :
        style[s].sv[f] = IF declared[s][f] = "inherit"
                         THEN style[style[s].parent].sv[f] ELSE declared[s][f]

\* A style that is not resolved has what was declared for it; one that is, after its
\* parent, stays so until something above it changes.
History ==
    /\ pending \subseteq live /\ settled \subseteq live /\ pending \cap settled = {}
    /\ \A s \in live : s \in pending <=> ~style[s].resolved
    /\ \A s \in pending : \A f \in KeyFields : style[s].sv[f] = declared[s][f]
    /\ \A s \in settled :
          /\ style[s].parent \in live
          /\ style[s].parent \in settled \/ style[style[s].parent].parent = NoStyle
          /\ Inherited(s)

LEMMA UnderIs ==
    ASSUME NEW s
    PROVE  s \in Under(s) /\ \A k \in live : style[k].parent \in Under(s) => k \in Under(s)
  BY DEF Under, Closed

LEMMA FillKeeps ==
    ASSUME Shapes, History, NEW s \in Styles, NEW st, Fill(s, st),
           IsStyle(st), st.parent \in live \cup {NoStyle},
           pending' \subseteq live', pending' \ {s} = pending \ {s},
           s \in pending' <=> ~st.resolved
    PROVE  Shapes' /\ History'
<1>1. /\ live' = live \cup {s} /\ settled' = settled \ Under(s)
      /\ style' = [style EXCEPT ![s] = st]
      /\ declared' = [declared EXCEPT ![s] = Keywords(st)]
  BY DEF Fill
<1>2. /\ style'[s] = st /\ \A t \in Styles \ {s} : style'[t] = style[t]
      /\ \A f \in KeyFields : declared'[s][f] = st.sv[f]
      /\ \A t \in Styles \ {s} : declared'[t] = declared[t]
      /\ NoStyle \notin Styles
  BY <1>1, StyleAssumption DEF Shapes, Keywords
<1>3. Shapes'
  BY <1>1, <1>2 DEF Shapes
<1>4. ASSUME NEW t \in settled'
      PROVE  /\ t \in settled /\ t # s /\ t \notin pending'
             /\ style'[t].parent \in live'
             /\ style'[t].parent \in settled' \/ style'[style'[t].parent].parent = NoStyle
             /\ Inherited(t)'
  <2>1. t \in settled /\ t \notin Under(s) /\ t \in live
    BY <1>1, <1>4 DEF History
  <2>2. t # s
    BY <2>1, UnderIs
  <2>3. style[t].parent \in live /\ style[t].parent \notin Under(s)
    BY <2>1, UnderIs DEF History
  <2>4. style[t].parent # s
    BY <2>3, UnderIs
  <2>5. style'[t] = style[t] /\ style'[style[t].parent] = style[style[t].parent]
        /\ declared'[t] = declared[t]
    BY <1>2, <2>1, <2>2, <2>3, <2>4 DEF Shapes
  <2> QED
    BY <1>1, <2>1, <2>2, <2>3, <2>5 DEF History, Inherited
<1>5. settled' \subseteq live' /\ pending' \cap settled' = {}
  BY <1>1, <1>4 DEF History
<1>6. \A t \in live' : t \in pending' <=> ~style'[t].resolved
  BY <1>1, <1>2 DEF History, Shapes
<1>7. \A t \in pending' : \A f \in KeyFields : style'[t].sv[f] = declared'[t][f]
  BY <1>1, <1>2 DEF History, Shapes
<1> QED
  BY <1>3, <1>4, <1>5, <1>6, <1>7 DEF History

\* What is left of the styles is as it was, apart from their counts.
LEMMA SameHistory ==
    ASSUME Shapes, History, Shapes', live' \subseteq live,
           pending' = pending \cap live', settled' = settled \cap live',
           \A t \in live' : /\ style'[t].sv = style[t].sv /\ style'[t].parent = style[t].parent
                            /\ style'[t].resolved = style[t].resolved
                            /\ declared'[t] = declared[t],
           \A t \in settled' : style[t].parent \in live'
    PROVE  History'
<1>1. /\ pending' \subseteq live' /\ settled' \subseteq live' /\ pending' \cap settled' = {}
      /\ \A t \in live' : t \in pending' <=> ~style'[t].resolved
      /\ \A t \in pending' : \A f \in KeyFields : style'[t].sv[f] = declared'[t][f]
  BY DEF History
<1>2. ASSUME NEW t \in settled'
      PROVE  /\ style'[t].parent \in live'
             /\ style'[t].parent \in settled' \/ style'[style'[t].parent].parent = NoStyle
             /\ Inherited(t)'
  <2>1. t \in settled /\ t \in live' /\ style[t].parent \in live'
    OBVIOUS
  <2>2. /\ style[t].parent \in settled \/ style[style[t].parent].parent = NoStyle
        /\ Inherited(t)
    BY <2>1 DEF History
  <2> QED
    BY <2>1, <2>2 DEF Inherited
<1> QED
  BY <1>1, <1>2 DEF History

LEMMA FreeKeeps ==
    ASSUME Shapes, History, NEW s \in live, Free(s), Childless(s)
    PROVE  Shapes' /\ History'
<1>1. /\ live' = live \ {s} /\ settled' = settled \ {s} /\ pending' = pending \ {s}
      /\ style' = [style EXCEPT ![s] = ZeroStyle]
      /\ declared' = [declared EXCEPT ![s] = Keywords(ZeroStyle)]
  BY DEF Free
<1>2. /\ \A t \in Styles \ {s} : style'[t] = style[t] /\ declared'[t] = declared[t]
      /\ style'[s] = ZeroStyle
      /\ \A t \in live : style[t].parent # s
  BY <1>1 DEF Shapes, Childless
<1>3. Shapes'
  BY <1>1, <1>2 DEF Shapes, IsStyle, ZeroStyle
<1>4. \A t \in settled' : /\ style'[t] = style[t] /\ declared'[t] = declared[t]
                          /\ style'[style[t].parent] = style[style[t].parent]
                          /\ style[t].parent \in live'
  BY <1>1, <1>2 DEF History, Shapes
<1> QED
  BY <1>1, <1>2, <1>3, <1>4, SameHistory DEF History, Shapes

\* The reference count is no part of what is remembered.
LEMMA CountKeeps ==
    ASSUME Shapes, History, NEW s \in live, NEW n,
           style' = [style EXCEPT ![s].refs = n],
           UNCHANGED <<live, declared, pending, settled>>
    PROVE  Shapes' /\ History'
<1>1. \A t \in Styles : /\ IsStyle(style'[t]) /\ style'[t].sv = style[t].sv
                        /\ style'[t].parent = style[t].parent
                        /\ style'[t].resolved = style[t].resolved
  <2> TAKE t \in Styles
  <2>1. IsStyle(style[t]) /\ s \in Styles
    BY DEF Shapes
  <2>2. CASE t = s
    <3>1. style'[t] = [style[t] EXCEPT !.refs = n]
      BY <2>1, <2>2 DEF Shapes
    <3> QED
      BY <2>1, <3>1 DEF IsStyle
  <2>3. CASE t # s
    BY <2>1, <2>3 DEF Shapes
  <2> QED
    BY <2>2, <2>3
<1>2. style' = [t \in Styles |-> style'[t]]
  BY DEF Shapes
<1>3. Shapes'
  BY <1>1, <1>2 DEF Shapes
<1>4. \A t \in live : t \in Styles
  BY DEF Shapes
<1> QED
  BY <1>1, <1>3, <1>4, SameHistory DEF History

\* Nothing is settled below a style that is yet to be resolved.
LEMMA NoneSettledUnder ==
    ASSUME Shapes, History, NEW s \in live, s \notin settled, style[s].parent # NoStyle
    PROVE  Under(s) \cap settled = {}
<1> DEFINE S == {k \in live : k \notin settled /\ style[k].parent # NoStyle}
<1>1. s \in S /\ S \in SUBSET (live \cup {s}) /\ NoStyle \notin live
  BY StyleAssumption DEF Shapes
<1>2. Closed(S)
  BY <1>1 DEF Closed, History
<1>3. Under(s) \subseteq S
  BY <1>1, <1>2 DEF Under
<1> QED
  BY <1>3

LEMMA ResolveKeeps ==
    ASSUME Shapes, History, NEW s \in Styles, ResolveInheritedProperties(s)
    PROVE  Shapes' /\ History'
<1> DEFINE up == style[s].parent
           inOrder == up \in settled \/ style[up].parent = NoStyle
<1>1. /\ s \in live /\ up # NoStyle
      /\ style' = IF style[s].resolved THEN style
                  ELSE [style EXCEPT ![s] = Resolved(@, style[up])]
      /\ settled' = IF s \in pending
                    THEN (settled \ Under(s)) \cup (IF inOrder THEN {s} ELSE {})
                    ELSE settled
      /\ pending' = pending \ {s}
      /\ UNCHANGED <<live, declared>>
  BY DEF ResolveInheritedProperties
<1>2. up \in live /\ up \in Styles
  BY <1>1 DEF Shapes
<1>3. CASE s \notin pending
  <2>1. style' = style /\ settled' = settled /\ pending' = pending
    BY <1>1, <1>3 DEF History
  <2>2. Shapes'
    BY <1>1, <2>1 DEF Shapes
  <2> QED
    BY <1>1, <2>1, <2>2, SameHistory DEF History
<1>4. CASE s \in pending
  <2>1. style' = [style EXCEPT ![s] = Resolved(style[s], style[up])] /\ s \notin settled
    BY <1>1, <1>4 DEF History
  <2> DEFINE new == Resolved(style[s], style[up])
  <2>2. /\ IsStyle(new) /\ new.parent = up /\ new.resolved = TRUE
        /\ \A f \in KeyFields \ {Whole("white-space")} :
              new.sv[f] = IF style[s].sv[f] = "inherit" THEN style[up].sv[f] ELSE style[s].sv[f]
    <3> DEFINE a == style[s]
               b == style[up]
    <3>1. IsStyle(a) /\ new = Resolved(a, b)
      BY DEF Shapes
    <3> HIDE DEF a, b, new
    <3>3. /\ IsStyle(new) /\ new.parent = a.parent /\ new.resolved = TRUE
          /\ new.sv = [f \in Fields |-> IF f \in InheritedKeys /\ a.sv[f] = "inherit"
                                        THEN b.sv[f] ELSE a.sv[f]]
      BY <3>1 DEF Resolved, IsStyle
    <3>2. \A f \in KeyFields \ {Whole("white-space")} : f \in Fields /\ f \in InheritedKeys
      BY DEF Fields, InheritedKeys
    <3> QED
      BY <3>2, <3>3 DEF a, b
  <2> HIDE DEF new
  <2>3. style'[s] = new /\ \A t \in Styles \ {s} : style'[t] = style[t]
    BY <2>1 DEF Shapes, new
  <2>4. Shapes'
    BY <1>1, <1>2, <2>1, <2>2, <2>3 DEF Shapes
  <2>5. ASSUME NEW t \in settled \ Under(s)
        PROVE  /\ t \notin pending' /\ style'[t].parent \in live'
               /\ style'[t].parent \in settled' \/ style'[style'[t].parent].parent = NoStyle
               /\ Inherited(t)'
    <3>1. t \in live /\ t # s /\ style[t].parent \in live
      BY UnderIs DEF History
    <3>2. style[t].parent \notin Under(s) /\ style[t].parent # s
      BY <3>1, UnderIs
    <3>3. style'[t] = style[t] /\ style'[style[t].parent] = style[style[t].parent]
      BY <2>3, <3>1, <3>2 DEF Shapes
    <3> QED
      BY <1>1, <1>4, <3>1, <3>2, <3>3 DEF History, Inherited
  <2>6. ASSUME inOrder
        PROVE  /\ style'[s].parent \in live' /\ Inherited(s)'
               /\ style'[s].parent \in settled' \/ style'[style'[s].parent].parent = NoStyle
    <3>1. up # s
      BY <1>1, <2>1, <2>6
    <3>2. style'[up] = style[up]
      BY <1>2, <2>3, <3>1
    <3>3. \A f \in KeyFields : style[s].sv[f] = declared[s][f]
      BY <1>4 DEF History
    <3>4. Inherited(s)'
      BY <1>1, <2>2, <2>3, <3>2, <3>3 DEF Inherited
    <3>5. up \in settled => up \in settled'
      BY <1>1, <1>4, <2>1, NoneSettledUnder
    <3> QED
      BY <1>1, <1>2, <2>2, <2>3, <2>6, <3>2, <3>4, <3>5
  <2>7. settled' \subseteq (settled \ Under(s)) \cup {s} /\ (s \in settled' => inOrder)
    BY <1>1, <1>4, <2>1
  <2>8. \A t \in live' : t \in pending' <=> ~style'[t].resolved
    BY <1>1, <2>2, <2>3 DEF History, Shapes
  <2>9. \A t \in pending' : \A f \in KeyFields : style'[t].sv[f] = declared'[t][f]
    BY <1>1, <2>3 DEF History, Shapes
  <2> QED
    BY <1>1, <2>4, <2>5, <2>6, <2>7, <2>8, <2>9 DEF History
<1> QED
  BY <1>3, <1>4

LEMMA ResetIs ==
    ASSUME NEW st, IsStyle(st), NEW initial
    PROVE  /\ IsStyle(Reset(st, initial)) /\ Reset(st, initial).resolved = FALSE
           /\ Reset(st, initial).parent \in {st.parent, NoStyle}
           /\ Reset(st, initial).refs = st.refs
  BY DEF Reset, IsStyle

Filled(st, sv, family) == [st EXCEPT !.sv = sv, !.family = family]

LEMMA PopulatedIs ==
    ASSUME NEW st, IsStyle(st), NEW sv, NEW family
    PROVE  LET new == Filled(st, sv, family)
           IN  /\ IsStyle(new) /\ new.sv = sv /\ new.family = family
               /\ new.resolved = st.resolved /\ new.parent = st.parent
               /\ new.cv = st.cv /\ new.refs = st.refs
<1> DEFINE q == [st EXCEPT !.sv = sv]
<1>1. q = [sv |-> sv, cv |-> st.cv, parent |-> st.parent, family |-> st.family,
           resolved |-> st.resolved, refs |-> st.refs]
  BY DEF IsStyle
<1> HIDE DEF q
<1>2. [q EXCEPT !.family = family] =
         [sv |-> sv, cv |-> st.cv, parent |-> st.parent, family |-> family,
          resolved |-> st.resolved, refs |-> st.refs]
  BY <1>1
<1>3. Filled(st, sv, family) =
         [sv |-> sv, cv |-> st.cv, parent |-> st.parent, family |-> family,
          resolved |-> st.resolved, refs |-> st.refs]
  BY <1>2 DEF q, Filled
<1> QED
  BY <1>3 DEF IsStyle

LEMMA GivenParent ==
    ASSUME NEW st, IsStyle(st), NEW parent
    PROVE  /\ IsStyle([st EXCEPT !.parent = parent])
           /\ [st EXCEPT !.parent = parent].resolved = st.resolved
           /\ [st EXCEPT !.parent = parent].parent = parent
           /\ [st EXCEPT !.parent = parent].sv = st.sv
           /\ [st EXCEPT !.parent = parent].cv = st.cv
           /\ [st EXCEPT !.parent = parent].family = st.family
           /\ [st EXCEPT !.parent = parent].refs = st.refs
<1>1. [st EXCEPT !.parent = parent] =
         [sv |-> st.sv, cv |-> st.cv, parent |-> parent, family |-> st.family,
          resolved |-> st.resolved, refs |-> st.refs]
  BY DEF IsStyle
<1> QED
  BY <1>1 DEF IsStyle

\* A style that is filled by a step of the program, and with what.
LEMMA NextKeeps ==
    ASSUME Shapes, History, [Next]_vars
    PROVE  Shapes' /\ History'
<1>1. IsStyle(ZeroStyle) /\ ZeroStyle.parent = NoStyle
  BY DEF IsStyle, ZeroStyle
<1>2. /\ \A s \in Styles : IsStyle(style[s])
      /\ \A s \in live : s \in Styles /\ style[s].parent \in live \cup {NoStyle}
      /\ \A s \in live : s \in pending <=> ~style[s].resolved
      /\ pending \subseteq live
  BY DEF Shapes, History
<1>3. ASSUME NEW s \in Styles, NEW initial, New(s, initial) PROVE Shapes' /\ History'
  <2> DEFINE st == Reset(ZeroStyle, initial)
  <2>1. IsStyle(st) /\ st.resolved = FALSE /\ st.parent = NoStyle
    BY <1>1, ResetIs
  <2>2. Fill(s, st) /\ pending' = pending \cup {s} /\ live' = live \cup {s}
    BY <1>3 DEF New, Fill
  <2> HIDE DEF st
  <2> QED
    BY <1>2, <2>1, <2>2, FillKeeps
<1>4. ASSUME NEW s \in Styles, NEW initial, NEW props, GetMatchedStyle(s, initial, props)
      PROVE  Shapes' /\ History'
  <2>1. CASE props = <<>>
    <3>1. UNCHANGED <<live, style, declared, pending, settled>>
      BY <1>4, <2>1 DEF GetMatchedStyle
    <3> QED
      BY <3>1, SameHistory DEF Shapes, History
  <2>2. CASE props # <<>>
    <3> DEFINE old == IF s \in live THEN style[s] ELSE ZeroStyle
               st == [Reset(old, initial) EXCEPT !.parent = ParentOf[s]]
               target == Applied(Target(st, families), props)
               sv == target.sv
               family == target.family
               new == Filled(st, sv, family)
    <3>1. Fill(s, new) /\ pending' = pending \cup {s} /\ live' = live \cup {s}
          /\ ParentOf[s] \in live \cup {NoStyle}
      BY <1>4, <2>2 DEF GetMatchedStyle, Populate, Fill, Filled
    <3>2. IsStyle(Reset(old, initial)) /\ Reset(old, initial).resolved = FALSE
      BY <1>1, <1>2, ResetIs
    <3> HIDE DEF old, target, sv, family
    <3>3. IsStyle(new) /\ new.resolved = FALSE /\ new.parent = ParentOf[s]
      <4>1. IsStyle(st) /\ st.resolved = FALSE /\ st.parent = ParentOf[s]
        BY <3>2, GivenParent
      <4> HIDE DEF st
      <4> QED
        BY <4>1, PopulatedIs
    <3> HIDE DEF new
    <3> QED
      BY <1>2, <3>1, <3>3, FillKeeps
  <2> QED
    BY <2>1, <2>2
<1>5. ASSUME NEW s \in Styles, NEW decl, SetStyleFromDecl(s, decl) PROVE Shapes' /\ History'
  <2> DEFINE st == style[s]
             target == Applied(Target(st, families), <<decl>>)
             sv == target.sv
             family == target.family
             new == Filled(st, sv, family)
  <2>1. s \in live /\ Fill(s, new) /\ pending' = pending /\ live' = live \cup {s}
    BY <1>5 DEF SetStyleFromDecl, Populate, Fill, Filled
  <2> HIDE DEF sv, family
  <2>2. IsStyle(new) /\ new.resolved = st.resolved /\ new.parent = st.parent
    <3>1. IsStyle(st)
      BY <1>2
    <3> HIDE DEF st
    <3> QED
      BY <3>1, PopulatedIs
  <2> HIDE DEF new
  <2> QED
    BY <1>2, <2>1, <2>2, FillKeeps
<1>6. ASSUME NEW s \in Styles, NEW t \in Styles, Copy(s, t) \/ Dup(s, t)
      PROVE  Shapes' /\ History'
  <2>1. /\ t \in live /\ Fill(s, style[t]) /\ live' = live \cup {s}
        /\ pending' = IF t \in pending THEN pending \cup {s} ELSE pending \ {s}
    BY <1>6 DEF Copy, Dup, Fill
  <2> QED
    BY <1>2, <2>1, FillKeeps
<1>7. ASSUME NEW s \in Styles, Ref(s) PROVE Shapes' /\ History'
  BY <1>7, CountKeeps DEF Ref
<1>8. ASSUME NEW s \in Styles, Unref(s) PROVE Shapes' /\ History'
  <2>1. CASE Childless(s) /\ Free(s)
    BY <1>8, <2>1, FreeKeeps DEF Unref
  <2>2. CASE ~(Childless(s) /\ Free(s))
    BY <1>8, <2>2, CountKeeps DEF Unref
  <2> QED
    BY <2>1, <2>2
<1>9. ASSUME NEW s \in Styles, Destroy(s) PROVE Shapes' /\ History'
  BY <1>9, FreeKeeps DEF Destroy
<1>10. ASSUME NEW s \in Styles, ResolveInheritedProperties(s) PROVE Shapes' /\ History'
  BY <1>10, ResolveKeeps
<1>11. CASE UNCHANGED vars
  BY <1>11, SameHistory DEF vars, Shapes, History
<1> QED
  BY <1>3, <1>4, <1>5, <1>6, <1>7, <1>8, <1>9, <1>10, <1>11 DEF Next

LEMMA InitialHistory == Init => Shapes /\ History
<1> SUFFICES ASSUME Init PROVE Shapes /\ History
  OBVIOUS
<1>1. IsStyle(ZeroStyle)
  BY DEF IsStyle, ZeroStyle
<1> QED
  BY <1>1 DEF Init, Shapes, History

\* cr_style_resolve_inherited_properties passes over no keyword field, for any number of
\* styles, any tree of them and any declarations, however often a style was used before.
THEOREM KeywordsFollowTheParent == Spec => []KeywordsAreInherited
<1>1. Shapes /\ History => KeywordsAreInherited
  BY DEF History, Inherited, KeywordsAreInherited
<1> QED
  BY <1>1, InitialHistory, NextKeeps, PTL DEF Spec

-----------------------------------------------------------------------------
(* What one declaration does to the values.                                  *)

AllWords == UNION {WordsOf(f[1]) : f \in KeyFields}

Values == {sv \in [Fields -> Nums \cup Colours \cup AllWords \cup Sizes] :
              \A f \in Fields : Held(sv[f], f)}

LEMMA FieldKinds ==
    /\ NumFields \cap RgbFields = {} /\ NumFields \cap KeyFields = {} /\ FontSize \notin NumFields
    /\ RgbFields \cap KeyFields = {} /\ FontSize \notin RgbFields /\ FontSize \notin KeyFields
    /\ \A dir \in Sides : /\ \A g \in {"offset", "padding", "border-width", "margin"} :
                                <<g, dir>> \in NumFields
                          /\ <<"border-color", dir>> \in RgbFields
                          /\ <<"border-style", dir>> \in KeyFields
    /\ Whole("width") \in NumFields
    /\ Whole("color") \in RgbFields /\ Whole("background-color") \in RgbFields
    /\ \A g \in {"display", "position", "float", "font-style", "font-variant",
                 "font-weight", "font-stretch", "white-space"} : Whole(g) \in KeyFields
    /\ \A f \in NumFields : f[1] \in {"width", "offset", "padding", "border-width", "margin"}
    /\ \A f \in RgbFields :
          \/ f[1] = "border-color"
          \/ f[1] \in {"color", "background-color"} /\ f = Whole(f[1])
    /\ \A f \in KeyFields :
          \/ f[1] = "border-style"
          \/ /\ f[1] \in {"display", "position", "float", "font-style", "font-variant",
                         "font-weight", "font-stretch", "white-space"}
             /\ f = Whole(f[1])
    /\ FontSize[1] = "font-size"
<1>1. \A f : f \in NumFields <=> \/ f = <<"width", "">>
                                  \/ \E g \in {"offset", "padding", "border-width", "margin"},
                                        dir \in Sides : f = <<g, dir>>
  BY DEF NumFields, Sided, Whole
<1>2. \A f : f \in RgbFields <=> \/ f = <<"color", "">> \/ f = <<"background-color", "">>
                                  \/ \E dir \in Sides : f = <<"border-color", dir>>
  BY DEF RgbFields, Sided, Whole
<1>3. \A f : f \in KeyFields <=>
                \/ \E dir \in Sides : f = <<"border-style", dir>>
                \/ \E g \in {"display", "position", "float", "font-style", "font-variant",
                            "font-weight", "font-stretch", "white-space"} : f = <<g, "">>
  BY DEF KeyFields, Sided, Whole
<1>4. FontSize = <<"font-size", "">>
  BY DEF FontSize, Whole
<1> DEFINE Group(f) == f[1]
<1>10. Group(FontSize) = "font-size" /\ \A a, b : Group(<<a, b>>) = a
  BY <1>4
<1> HIDE DEF Group
<1>5. \A f \in NumFields : Group(f) \in {"width", "offset", "padding", "border-width", "margin"}
  <2> TAKE f \in NumFields
  <2>1. CASE f = <<"width", "">>
    BY <1>10, <2>1
  <2>2. CASE f # <<"width", "">>
    <3>1. PICK g \in {"offset", "padding", "border-width", "margin"}, dir \in Sides :
              f = <<g, dir>>
      BY <1>1, <2>2
    <3> QED
      BY <1>10, <3>1
  <2> QED
    BY <2>1, <2>2
<1>6. \A f \in RgbFields :
         \/ Group(f) = "border-color"
         \/ Group(f) \in {"color", "background-color"} /\ f = <<Group(f), "">>
  <2> TAKE f \in RgbFields
  <2>1. CASE f = <<"color", "">> \/ f = <<"background-color", "">>
    BY <1>10, <2>1
  <2>2. CASE \E dir \in Sides : f = <<"border-color", dir>>
    BY <1>10, <2>2
  <2> QED
    BY <1>2, <2>1, <2>2
<1>7. \A f \in KeyFields :
         \/ Group(f) = "border-style"
         \/ /\ Group(f) \in {"display", "position", "float", "font-style", "font-variant",
                            "font-weight", "font-stretch", "white-space"}
            /\ f = <<Group(f), "">>
  <2> TAKE f \in KeyFields
  <2>1. CASE \E dir \in Sides : f = <<"border-style", dir>>
    BY <1>10, <2>1
  <2>2. CASE ~ \E dir \in Sides : f = <<"border-style", dir>>
    <3>1. PICK g \in {"display", "position", "float", "font-style", "font-variant",
                     "font-weight", "font-stretch", "white-space"} : f = <<g, "">>
      BY <1>3, <2>2
    <3> QED
      BY <1>10, <3>1
  <2> QED
    BY <2>1, <2>2
<1>8. \A dir \in Sides : /\ \A g \in {"offset", "padding", "border-width", "margin"} :
                                <<g, dir>> \in NumFields
                          /\ <<"border-color", dir>> \in RgbFields
                          /\ <<"border-style", dir>> \in KeyFields
  BY <1>1, <1>2, <1>3
<1>9. /\ Whole("width") \in NumFields
      /\ Whole("color") \in RgbFields /\ Whole("background-color") \in RgbFields
      /\ \A g \in {"display", "position", "float", "font-style", "font-variant",
                   "font-weight", "font-stretch", "white-space"} : Whole(g) \in KeyFields
  BY <1>1, <1>2, <1>3 DEF Whole
<1>11. /\ NumFields \cap RgbFields = {} /\ NumFields \cap KeyFields = {} /\ FontSize \notin NumFields
       /\ RgbFields \cap KeyFields = {} /\ FontSize \notin RgbFields /\ FontSize \notin KeyFields
  BY <1>10, <1>5, <1>6, <1>7
<1>12. Whole("font-size") = <<"font-size", "">> /\ \A g : Whole(g) = <<g, "">>
  BY DEF Whole
<1> QED
  BY <1>5, <1>6, <1>7, <1>8, <1>9, <1>10, <1>11, <1>12 DEF Group

LEMMA HeldOf ==
    ASSUME NEW f \in Fields, NEW v
    PROVE  /\ f \in NumFields /\ v \in Nums => Held(v, f)
           /\ f \in RgbFields /\ v \in Colours => Held(v, f)
           /\ f \in KeyFields /\ v \in WordsOf(f[1]) => Held(v, f)
           /\ f = FontSize /\ v \in Sizes => Held(v, f)
  BY FieldKinds DEF Held

\* What a setter makes of the values sv in the field f, when it makes q of others.
Agree(r, sv, q, other, f) ==
    /\ r.sv \in Values
    /\ \A g \in Fields \ {f} : r.sv[g] = sv[g]
    /\ r.status = q.status
    /\ Same(sv, other, f) => Same(r.sv, q.sv, f)

\* It changes nothing when it refuses, and what it sets does not depend on the values.
Strict(r, sv, q, f) ==
    /\ r.status # "OK" => r.sv = sv
    /\ r.status = "OK" => r.sv[f] = q.sv[f]

LEMMA PutAgrees ==
    ASSUME NEW sv \in Values, NEW other \in Values, NEW f \in Fields, NEW v, Held(v, f)
    PROVE  /\ Agree(Put(sv, f, v), sv, Put(other, f, v), other, f)
           /\ Strict(Put(sv, f, v), sv, Put(other, f, v), f)
           /\ Put(sv, f, v).status = "OK" /\ Put(sv, f, v).sv[f] = v
<1>1. v \in Nums \cup Colours \cup AllWords \cup Sizes
  BY DEF Held, Fields, AllWords
<1>2. [sv EXCEPT ![f] = v] \in Values
  BY <1>1 DEF Values
<1>3. /\ [sv EXCEPT ![f] = v][f] = v /\ [other EXCEPT ![f] = v][f] = v
      /\ \A g \in Fields \ {f} : [sv EXCEPT ![f] = v][g] = sv[g]
  BY DEF Values
<1> QED
  BY <1>2, <1>3 DEF Put, Agree, Strict, Same

LEMMA RefuseAgrees ==
    ASSUME NEW sv \in Values, NEW other \in Values, NEW f \in Fields, NEW status
    PROVE  /\ Agree(Refuse(sv, status), sv, Refuse(other, status), other, f)
           /\ status # "OK" => Strict(Refuse(sv, status), sv, Refuse(other, status), f)
           /\ Refuse(sv, status).status = status /\ Refuse(sv, status).sv = sv
  BY DEF Refuse, Agree, Strict

LEMMA NumHeld ==
    /\ \A type \in NumTypes, n \in Int : Num(type, n) \in Nums
    /\ \A t : IsTerm(t) => t.num \in Nums
    /\ {"auto", "inherit", "px"} \subseteq NumTypes
  BY DEF Num, Nums, NumTypes, IsTerm

LEMMA PaddingSets ==
    ASSUME NEW sv \in Values, NEW other \in Values, NEW t, IsTerm(t), NEW dir \in Sides
    PROVE  /\ Agree(PaddingX(sv, t, dir), sv, PaddingX(other, t, dir), other, <<"padding", dir>>)
           /\ Strict(PaddingX(sv, t, dir), sv, PaddingX(other, t, dir), <<"padding", dir>>)
<1>1. <<"padding", dir>> \in NumFields /\ <<"padding", dir>> \in Fields
  BY FieldKinds DEF Fields
<1>2. Held(t.num, <<"padding", dir>>) /\ Held(Num("inherit", 0), <<"padding", dir>>)
  BY <1>1, HeldOf, NumHeld
<1> QED
  BY <1>1, <1>2, PutAgrees, RefuseAgrees DEF PaddingX

\* SelectInSeq
LEMMA FirstWordIs ==
    ASSUME NEW table, Len(table) \in Nat, NEW t
    PROVE  FirstWord(table, t) \in 0..Len(table)
<1> DEFINE I == {i \in 1..Len(table) : BeginsWith(t, table[i])}
<1>1. FirstWord(table, t) = IF I # {} THEN Min(I) ELSE 0
  BY DEF SelectInSeq, FirstWord
<1>2. I # {} => Min(I) \in I
  <2>1. I \subseteq Nat
    OBVIOUS
  <2> HIDE DEF I
  <2> QED
    BY <2>1, Least
<1> QED
  BY <1>1, <1>2

LEMMA FirstWordSets ==
    ASSUME NEW sv \in Values, NEW other \in Values, NEW t, NEW f \in KeyFields,
           NEW table, Len(table) \in Nat, DOMAIN table = 1..Len(table),
           Range(table) \subseteq WordsOf(f[1]), NEW otherwise
    PROVE  LET r == PutFirst(sv, f, t, table, otherwise)
               q == PutFirst(other, f, t, table, otherwise)
           IN  Agree(r, sv, q, other, f) /\ (otherwise # "OK" => Strict(r, sv, q, f))
               /\ r.status \in {"OK", otherwise} /\ (r.status = "OK" \/ r.sv = sv)
<1> DEFINE i == FirstWord(table, t)
<1>1. i \in 0..Len(table) /\ f \in Fields
  BY FirstWordIs DEF Fields
<1>2. i # 0 => Held(table[i], f)
  BY <1>1, HeldOf DEF Range
<1>3. /\ PutFirst(sv, f, t, table, otherwise) =
            IF i # 0 THEN Put(sv, f, table[i]) ELSE Refuse(sv, otherwise)
      /\ PutFirst(other, f, t, table, otherwise) =
            IF i # 0 THEN Put(other, f, table[i]) ELSE Refuse(other, otherwise)
  BY DEF PutFirst
<1> HIDE DEF i
<1> QED
  BY <1>1, <1>2, <1>3, PutAgrees, RefuseAgrees

LEMMA BorderWidthSets ==
    ASSUME NEW sv \in Values, NEW other \in Values, NEW t, IsTerm(t), NEW dir \in Sides
    PROVE  LET f == <<"border-width", dir>>
               r == BorderXWidth(sv, t, dir)
               q == BorderXWidth(other, t, dir)
           IN  Agree(r, sv, q, other, f) /\ Strict(r, sv, q, f)
<1> DEFINE f == <<"border-width", dir>>
           i == FirstWord(BorderWords, t)
<1>1. f \in NumFields /\ f \in Fields
  BY FieldKinds DEF Fields
<1>2. Len(BorderWords) = 3 /\ i \in 0..Len(BorderWords)
  BY FirstWordIs DEF BorderWords
<1>3. i # 0 => Held(Num("px", BorderPx[i]), f)
  BY <1>1, <1>2, HeldOf, NumHeld DEF BorderPx
<1>4. Held(t.num, f)
  BY <1>1, HeldOf, NumHeld
<1>5. \A v : BorderXWidth(v, t, dir) =
         IF i # 0 THEN Put(v, f, Num("px", BorderPx[i]))
         ELSE IF t.kind = "number" THEN Put(v, f, t.num) ELSE Refuse(v, "UNKNOWN_TYPE")
  BY DEF BorderXWidth
<1> HIDE DEF i, f
<1>6. LET r == BorderXWidth(sv, t, dir)
          q == BorderXWidth(other, t, dir)
      IN  Agree(r, sv, q, other, f) /\ Strict(r, sv, q, f)
  BY <1>1, <1>3, <1>4, <1>5, PutAgrees, RefuseAgrees
<1> QED
  BY <1>6 DEF f

LEMMA BorderStyleSets ==
    ASSUME NEW sv \in Values, NEW other \in Values, NEW t, NEW dir \in Sides
    PROVE  LET f == <<"border-style", dir>>
               r == BorderXStyle(sv, t, dir)
               q == BorderXStyle(other, t, dir)
           IN  Agree(r, sv, q, other, f) /\ Strict(r, sv, q, f)
<1>1. Len(BorderStyles) \in Nat /\ DOMAIN BorderStyles = 1..Len(BorderStyles)
  BY DEF BorderStyles
<1>2. /\ <<"border-style", dir>> \in KeyFields
      /\ WordsOf(<<"border-style", dir>>[1]) = Range(BorderStyles)
  BY FieldKinds DEF WordsOf
<1> QED
  BY <1>1, <1>2, FirstWordSets DEF BorderXStyle

LEMMA MarginSets ==
    ASSUME NEW sv \in Values, NEW other \in Values, NEW t, IsTerm(t), NEW dir \in Sides
    PROVE  LET f == <<"margin", dir>>
               r == MarginX(sv, t, dir)
               q == MarginX(other, t, dir)
           IN  Agree(r, sv, q, other, f) /\ Strict(r, sv, q, f)
<1>1. <<"margin", dir>> \in NumFields /\ <<"margin", dir>> \in Fields
  BY FieldKinds DEF Fields
<1>2. /\ Held(t.num, <<"margin", dir>>)
      /\ t.val \in {"inherit", "auto"} => Held(Num(t.val, 0), <<"margin", dir>>)
  BY <1>1, HeldOf, NumHeld
<1>3. IsWord(t, "inherit") \/ IsWord(t, "auto") => t.val \in {"inherit", "auto"}
  BY DEF IsWord
<1> QED
  BY <1>1, <1>2, <1>3, PutAgrees, RefuseAgrees DEF MarginX

LEMMA OffsetSets ==
    ASSUME NEW sv \in Values, NEW other \in Values, NEW t, IsTerm(t), NEW dir \in Sides
    PROVE  LET f == <<"offset", dir>>
               r == OffsetX(sv, t, dir)
               q == OffsetX(other, t, dir)
           IN  Agree(r, sv, q, other, f) /\ (r.status # "OK" => r.sv = sv)
<1> DEFINE f == <<"offset", dir>>
           auto(v) == [v[f] EXCEPT !.type = "auto"]
<1>1. f \in NumFields /\ f \in Fields /\ f \notin RgbFields
  BY FieldKinds DEF Fields
<1>2. Held(t.num, f) /\ Held(Num("inherit", 0), f)
  BY <1>1, HeldOf, NumHeld
<1>3. ASSUME NEW v \in Values PROVE auto(v) \in Nums /\ Held(auto(v), f)
  <2>1. v[f] \in Nums
    BY <1>1 DEF Values, Held
  <2>2. auto(v) \in Nums
    BY <2>1 DEF Nums, NumTypes
  <2> QED
    BY <1>1, <2>2, HeldOf
<1>4. Agree(Put(sv, f, auto(sv)), sv, Put(other, f, auto(other)), other, f)
  <2>1. /\ Agree(Put(sv, f, auto(sv)), sv, Put(other, f, auto(sv)), other, f)
        /\ Put(sv, f, auto(sv)).sv[f] = auto(sv) /\ Put(other, f, auto(other)).sv[f] = auto(other)
        /\ Put(sv, f, auto(sv)).status = "OK" /\ Put(other, f, auto(other)).status = "OK"
    BY <1>1, <1>3, PutAgrees
  <2>2. Same(sv, other, f) => auto(sv) = auto(other)
    BY <1>1 DEF Same
  <2> HIDE DEF auto, f
  <2> QED
    BY <2>1, <2>2 DEF Agree, Same
<1>5. \A v : OffsetX(v, t, dir) =
         IF t.kind \notin {"number", "ident"} THEN Refuse(v, "UNKNOWN_PROP_VAL")
         ELSE IF t.kind = "number" THEN Put(v, f, t.num)
         ELSE IF BeginsWith(t, "inherit") THEN Put(v, f, Num("inherit", 0))
         ELSE Put(v, f, auto(v))
  BY DEF OffsetX
<1>6. Put(sv, f, auto(sv)).status = "OK"
  BY DEF Put
<1> HIDE DEF auto, f
<1>7. LET r == OffsetX(sv, t, dir)
          q == OffsetX(other, t, dir)
      IN  Agree(r, sv, q, other, f) /\ (r.status # "OK" => r.sv = sv)
  BY <1>1, <1>2, <1>4, <1>5, <1>6, PutAgrees, RefuseAgrees
<1> QED
  BY <1>7 DEF f

LEMMA TintHeld ==
    /\ \A c \in Tints, inherit \in BOOLEAN, clear \in BOOLEAN : Rgb(c, inherit, clear) \in Colours
    /\ ZeroRgb \in Colours
    /\ \A name \in DOMAIN StandardColors : StandardColors[name] \in Colours
    /\ "black" \in DOMAIN StandardColors
    /\ DOMAIN StandardColors = {"black", "red", "transparent"}
<1>1. \A c \in Tints, inherit \in BOOLEAN, clear \in BOOLEAN : Rgb(c, inherit, clear) \in Colours
  BY DEF Rgb, Colours
<1>2. {"black", "red", "white"} \subseteq Tints
  BY TintsAssumption
<1>3. ZeroRgb \in Colours
  BY <1>1, <1>2 DEF ZeroRgb
<1>4. /\ DOMAIN StandardColors = {"black", "red", "transparent"}
      /\ StandardColors["black"] = Rgb("black", FALSE, FALSE)
      /\ StandardColors["red"] = Rgb("red", FALSE, FALSE)
      /\ StandardColors["transparent"] = Rgb("white", FALSE, TRUE)
  BY DEF StandardColors
<1>5. Rgb("red", FALSE, FALSE) \in Colours /\ Rgb("white", FALSE, TRUE) \in Colours
  BY <1>1, <1>2
<1> QED
  BY <1>1, <1>2, <1>3, <1>4, <1>5

LEMMA NameSets ==
    ASSUME NEW sv \in Values, NEW other \in Values, NEW f \in RgbFields, NEW name
    PROVE  LET r == FromName(sv, f, name)
               q == FromName(other, f, name)
           IN  /\ Agree(r, sv, q, other, f) /\ Strict(r, sv, q, f)
               /\ name \in DOMAIN StandardColors => r.status = "OK" /\ r.sv[f] = q.sv[f]
<1>1. f \in Fields
  BY DEF Fields
<1>2. name \in DOMAIN StandardColors => Held(StandardColors[name], f)
  BY <1>1, TintHeld, HeldOf
<1> QED
  BY <1>1, <1>2, PutAgrees, RefuseAgrees DEF FromName

LEMMA TermSets ==
    ASSUME NEW sv \in Values, NEW other \in Values, NEW f \in RgbFields, NEW t, IsTerm(t)
    PROVE  LET r == FromTerm(sv, f, t)
               q == FromTerm(other, f, t)
           IN  Agree(r, sv, q, other, f) /\ (r.status # "OK" => r.sv = sv)
<1> DEFINE inherited(v) == Rgb(v[f].c, TRUE, FALSE)
           given == Rgb(t.val, FALSE, FALSE)
<1>1. f \in Fields
  BY DEF Fields
<1>2. t.kind = "rgb" \/ (t.kind = "hash" /\ t.val # "bad") => Held(given, f)
  BY <1>1, TintHeld, HeldOf DEF IsTerm
<1>3. ASSUME NEW v \in Values PROVE Held(inherited(v), f) /\ inherited(v).inherit = TRUE
  <2>1. v[f] \in Colours
    BY <1>1 DEF Values, Held
  <2>2. v[f].c \in Tints
    BY <2>1 DEF Colours
  <2>3. inherited(v) \in Colours
    BY <2>2, TintHeld
  <2> QED
    BY <1>1, <2>3, HeldOf DEF Rgb
<1>4. Agree(Put(sv, f, inherited(sv)), sv, Put(other, f, inherited(other)), other, f)
  <2>1. /\ Agree(Put(sv, f, inherited(sv)), sv, Put(other, f, inherited(sv)), other, f)
        /\ Put(sv, f, inherited(sv)).sv[f] = inherited(sv)
        /\ Put(other, f, inherited(other)).sv[f] = inherited(other)
        /\ Put(sv, f, inherited(sv)).status = "OK" /\ Put(other, f, inherited(other)).status = "OK"
    <3>1. Held(inherited(sv), f) /\ Held(inherited(other), f)
      BY <1>3
    <3> HIDE DEF inherited
    <3>2. /\ Agree(Put(sv, f, inherited(sv)), sv, Put(other, f, inherited(sv)), other, f)
          /\ Put(sv, f, inherited(sv)).sv[f] = inherited(sv)
          /\ Put(sv, f, inherited(sv)).status = "OK"
      BY <1>1, <3>1, PutAgrees
    <3>3. /\ Put(other, f, inherited(other)).sv[f] = inherited(other)
          /\ Put(other, f, inherited(other)).status = "OK"
      BY <1>1, <3>1, PutAgrees
    <3> QED
      BY <3>2, <3>3
  <2>2. inherited(sv).inherit /\ inherited(other).inherit
    BY <1>3
  <2> HIDE DEF inherited
  <2> QED
    BY <2>1, <2>2 DEF Agree, Same
<1>5. \A v : FromTerm(v, f, t) =
         IF t.kind = "rgb" THEN Put(v, f, given)
         ELSE IF BeginsWith(t, "inherit") THEN Put(v, f, inherited(v))
         ELSE IF t.kind = "ident" THEN FromName(v, f, t.val)
         ELSE IF t.kind = "hash" /\ t.val # "bad" THEN Put(v, f, given)
         ELSE Refuse(v, "UNKNOWN_TYPE")
  BY DEF FromTerm
<1>6. Put(sv, f, inherited(sv)).status = "OK"
  BY DEF Put
<1>7. LET r == FromName(sv, f, t.val)
          q == FromName(other, f, t.val)
      IN  Agree(r, sv, q, other, f) /\ (r.status # "OK" => r.sv = sv)
  BY NameSets DEF Strict
<1> HIDE DEF inherited, given
<1> QED
  BY <1>1, <1>2, <1>4, <1>5, <1>6, <1>7, PutAgrees, RefuseAgrees DEF Strict

LEMMA BorderColorSets ==
    ASSUME NEW sv \in Values, NEW other \in Values, NEW t, IsTerm(t), NEW dir \in Sides
    PROVE  LET f == <<"border-color", dir>>
               r == BorderXColor(sv, t, dir)
               q == BorderXColor(other, t, dir)
           IN  Agree(r, sv, q, other, f)
<1> DEFINE f == <<"border-color", dir>>
           given == Rgb(t.val, FALSE, FALSE)
<1>1. f \in RgbFields /\ f \in Fields
  BY FieldKinds DEF Fields
<1>2. t.kind = "rgb" => Held(given, f)
  BY <1>1, TintHeld, HeldOf DEF IsTerm
<1>3. \A v : BorderXColor(v, t, dir) =
         IF t.kind = "rgb" THEN Put(v, f, given)
         ELSE IF t.kind # "ident" THEN Refuse(v, "UNKNOWN_PROP_VAL")
         ELSE IF FromName(v, f, t.val).status = "OK" THEN FromName(v, f, t.val)
         ELSE Refuse(FromName(v, f, "black").sv, FromName(v, f, t.val).status)
  BY DEF BorderXColor
<1>4. "black" \in DOMAIN StandardColors
  BY TintHeld
<1> HIDE DEF f, given
<1>5. Agree(FromName(sv, f, t.val), sv, FromName(other, f, t.val), other, f)
  BY <1>1, NameSets
<1>6. /\ FromName(sv, f, "black").sv \in Values
      /\ \A g \in Fields \ {f} : FromName(sv, f, "black").sv[g] = sv[g]
      /\ FromName(sv, f, "black").sv[f] = FromName(other, f, "black").sv[f]
  BY <1>1, <1>4, NameSets DEF Agree
<1>7. LET r == Refuse(FromName(sv, f, "black").sv, FromName(sv, f, t.val).status)
          q == Refuse(FromName(other, f, "black").sv, FromName(other, f, t.val).status)
      IN  Agree(r, sv, q, other, f)
  BY <1>5, <1>6 DEF Agree, Refuse, Same
<1>8. FromName(sv, f, t.val).status = FromName(other, f, t.val).status
  BY <1>5 DEF Agree
<1>9. Agree(BorderXColor(sv, t, dir), sv, BorderXColor(other, t, dir), other, f)
  BY <1>1, <1>2, <1>3, <1>5, <1>7, <1>8, PutAgrees, RefuseAgrees
<1> QED
  BY <1>9 DEF f

LEMMA PutWordSets ==
    ASSUME NEW sv \in Values, NEW other \in Values, NEW f \in KeyFields, NEW t, NEW words,
           words \subseteq WordsOf(f[1])
    PROVE  LET r == PutWord(sv, f, t, words)
               q == PutWord(other, f, t, words)
           IN  Agree(r, sv, q, other, f) /\ Strict(r, sv, q, f)
<1>1. f \in Fields
  BY DEF Fields
<1>2. t.val \in words => Held(t.val, f)
  BY <1>1, HeldOf
<1> QED
  BY <1>1, <1>2, PutAgrees, RefuseAgrees DEF PutWord

LEMMA FloatSets ==
    ASSUME NEW sv \in Values, NEW other \in Values, NEW t
    PROVE  LET f == Whole("float")
               r == Float(sv, t)
               q == Float(other, t)
           IN  Agree(r, sv, q, other, f) /\ r.status = "OK"
<1> DEFINE f == Whole("float")
           a == Put(sv, f, "none").sv
           b == Put(other, f, "none").sv
           r == PutFirst(a, f, t, FloatWords, "OK")
           q == PutFirst(b, f, t, FloatWords, "OK")
<1>1. f \in KeyFields /\ f \in Fields /\ f[1] = "float"
  BY FieldKinds DEF Fields, Whole
<1>2. /\ Len(FloatWords) \in Nat /\ DOMAIN FloatWords = 1..Len(FloatWords)
      /\ Range(FloatWords) = WordsOf("float") /\ "none" \in Range(FloatWords)
  <2>1. Len(FloatWords) = 4 /\ DOMAIN FloatWords = 1..4 /\ FloatWords[1] = "none"
    BY DEF FloatWords
  <2>2. WordsOf("float") = Range(FloatWords)
    BY DEF WordsOf
  <2> QED
    BY <2>1, <2>2 DEF Range
<1>3. Held("none", f)
  BY <1>1, <1>2, HeldOf
<1>4. Float(sv, t) = r /\ Float(other, t) = q
  BY DEF Float
<1> HIDE DEF f
<1>5. /\ a \in Values /\ b \in Values /\ Same(a, b, f)
      /\ \A g \in Fields \ {f} : a[g] = sv[g]
  <2>1. /\ Agree(Put(sv, f, "none"), sv, Put(other, f, "none"), other, f)
        /\ Agree(Put(other, f, "none"), other, Put(sv, f, "none"), sv, f)
        /\ Put(sv, f, "none").sv[f] = "none" /\ Put(other, f, "none").sv[f] = "none"
    BY <1>1, <1>3, PutAgrees
  <2> QED
    BY <2>1 DEF Agree, Same
<1> HIDE DEF a, b
<1>6. Agree(r, a, q, b, f) /\ r.status = "OK"
  BY <1>1, <1>2, <1>5, FirstWordSets
<1> HIDE DEF r, q
<1>7. Agree(r, sv, q, other, f)
  BY <1>5, <1>6 DEF Agree
<1> QED
  BY <1>4, <1>6, <1>7 DEF f

LEMMA FontWeightSets ==
    ASSUME NEW sv \in Values, NEW other \in Values, NEW t, IsTerm(t)
    PROVE  LET f == Whole("font-weight")
               r == FontWeight(sv, t)
               q == FontWeight(other, t)
           IN  Agree(r, sv, q, other, f) /\ (r.status # "OK" => r.sv = sv)
<1> DEFINE f == Whole("font-weight")
           n == t.num.val
           round == CHOOSE w \in 1..9 : /\ w = 9 \/ n <= 100 * w + 50
                                        /\ w = 1 \/ n > 100 * w - 50
<1>1. f \in KeyFields /\ f \in Fields /\ f[1] = "font-weight"
  BY FieldKinds DEF Fields, Whole
<1>2. FontWeights \subseteq WordsOf(f[1]) /\ Range(Weights) \subseteq WordsOf(f[1])
  BY <1>1 DEF WordsOf
<1>3. n \in Int
  BY DEF IsTerm, Nums
<1>4. round \in 1..9
  <2> DEFINE T == {w \in 1..9 : w = 9 \/ n <= 100 * w + 50}
  <2>1. T \subseteq Nat /\ T # {}
    <3>1. 9 \in T
      OBVIOUS
    <3> QED
      BY <3>1
  <2>2. PICK w \in T : \A y \in T : w <= y
    BY <2>1, LeastElement
  <2>3. w = 1 \/ n > 100 * w - 50
    <3>1. CASE w # 1
      <4>1. w - 1 \in 1..9 /\ w - 1 \notin T
        BY <2>2, <3>1
      <4> QED
        BY <1>3, <2>2, <4>1
    <3> QED
      BY <3>1
  <2> QED
    BY <2>2, <2>3
<1>5. Held(Weights[round], f)
  <2>1. DOMAIN Weights = 1..9
    BY DEF Weights
  <2>2. Weights[round] \in Range(Weights)
    BY <1>4, <2>1 DEF Range
  <2> QED
    BY <1>1, <1>2, <2>2, HeldOf
<1>6. \A v : FontWeight(v, t) =
         IF t.kind # "number" THEN PutWord(v, f, t, FontWeights)
         ELSE IF t.num.type \notin {"generic", "auto"} THEN Refuse(v, "OK")
         ELSE Put(v, f, Weights[round])
  BY DEF FontWeight
<1> HIDE DEF f, round
<1>7. LET r == FontWeight(sv, t)
          q == FontWeight(other, t)
      IN  Agree(r, sv, q, other, f) /\ (r.status # "OK" => r.sv = sv)
  BY <1>1, <1>2, <1>5, <1>6, PutWordSets, PutAgrees, RefuseAgrees DEF Strict
<1> QED
  BY <1>7 DEF f

LEMMA FontSizeSets ==
    ASSUME NEW sv \in Values, NEW other \in Values, NEW t, IsTerm(t)
    PROVE  Agree(SetFontSize(sv, t), sv, SetFontSize(other, t), other, FontSize)
<1>1. FontSize \in Fields
  BY DEF Fields
<1>2. /\ t.val \in FontSizeWords => Held(Num(t.val, 0), FontSize)
      /\ Held(t.num, FontSize) /\ Held(ZeroSize, FontSize)
  <2>1. \A type \in FontSizeWords : Num(type, 0) \in Sizes
    BY DEF Num, Sizes
  <2>2. t.num \in Sizes
    BY DEF IsTerm, Nums, Sizes
  <2>3. ZeroSize \in Sizes
    BY <2>1 DEF ZeroSize, FontSizeWords
  <2> QED
    BY <1>1, <2>1, <2>2, <2>3, HeldOf
<1>3. Agree(Refuse(Put(sv, FontSize, ZeroSize).sv, "UNKNOWN_PROP_VAL"), sv,
            Refuse(Put(other, FontSize, ZeroSize).sv, "UNKNOWN_PROP_VAL"), other, FontSize)
  <2>1. /\ Agree(Put(sv, FontSize, ZeroSize), sv, Put(other, FontSize, ZeroSize), other, FontSize)
    BY <1>1, <1>2, PutAgrees
  <2> QED
    BY <2>1 DEF Agree, Refuse
<1> QED
  BY <1>1, <1>2, <1>3, PutAgrees DEF SetFontSize

LEMMA WholeSets ==
    ASSUME NEW sv \in Values, NEW other \in Values, NEW t, IsTerm(t), NEW group,
           group \in {"display", "position", "float", "width", "color", "background-color",
                      "font-size", "font-style", "font-weight", "white-space"}
    PROVE  LET r == SetWhole(sv, group, t)
               q == SetWhole(other, group, t)
           IN  /\ Agree(r, sv, q, other, Whole(group))
               /\ group # "font-size" => (r.status # "OK" => r.sv = sv)
<1> DEFINE Good(r, q) == /\ Agree(r, sv, q, other, Whole(group))
                         /\ group # "font-size" => (r.status # "OK" => r.sv = sv)
<1> SUFFICES Good(SetWhole(sv, group, t), SetWhole(other, group, t))
  OBVIOUS
<1>1. CASE group = "display"
  <2>1. Whole(group) \in KeyFields /\ WordsOf(Whole(group)[1]) = Range(DisplayWords)
    BY <1>1, FieldKinds DEF Whole, WordsOf
  <2>2. Len(DisplayWords) \in Nat /\ DOMAIN DisplayWords = 1..Len(DisplayWords)
    BY DEF DisplayWords
  <2>3. \A v : SetWhole(v, group, t) = PutFirst(v, Whole(group), t, DisplayWords, "OK")
    BY <1>1 DEF SetWhole, Display
  <2> QED
    BY <2>1, <2>2, <2>3, FirstWordSets
<1>2. CASE group = "position"
  <2>1. Whole(group) \in KeyFields /\ WordsOf(Whole(group)[1]) = Range(PositionWords)
    BY <1>2, FieldKinds DEF Whole, WordsOf
  <2>2. Len(PositionWords) \in Nat /\ DOMAIN PositionWords = 1..Len(PositionWords)
    BY DEF PositionWords
  <2>3. \A v : SetWhole(v, group, t) =
                  PutFirst(v, Whole(group), t, PositionWords, "UNKNOWN_PROP_VAL")
    BY <1>2 DEF SetWhole, Position
  <2> QED
    BY <2>1, <2>2, <2>3, FirstWordSets
<1>3. CASE group = "float"
  <2>1. \A v : SetWhole(v, group, t) = Float(v, t)
    BY <1>3 DEF SetWhole
  <2> QED
    BY <1>3, <2>1, FloatSets
<1>4. CASE group = "width"
  <2>1. Whole(group) \in NumFields /\ Whole(group) \in Fields
    BY <1>4, FieldKinds DEF Fields
  <2> DEFINE n == IF t.kind = "number" THEN t.num
                  ELSE IF BeginsWith(t, "inherit") THEN Num("inherit", 0) ELSE Num("auto", 0)
  <2>2. Held(n, Whole(group))
    BY <2>1, HeldOf, NumHeld
  <2>3. \A v : SetWhole(v, group, t) = Put(v, Whole(group), n)
    BY <1>4 DEF SetWhole, Width
  <2> HIDE DEF n
  <2> QED
    BY <2>1, <2>2, <2>3, PutAgrees
<1>5. CASE group \in {"color", "background-color"}
  <2>1. Whole(group) \in RgbFields
    BY <1>5, FieldKinds
  <2>2. \A v : SetWhole(v, group, t) = FromTerm(v, Whole(group), t)
    BY <1>5 DEF SetWhole
  <2> QED
    BY <2>1, <2>2, TermSets
<1>6. CASE group = "font-size"
  <2>1. \A v : SetWhole(v, group, t) = SetFontSize(v, t)
    BY <1>6 DEF SetWhole
  <2>2. Whole(group) = FontSize
    BY <1>6 DEF FontSize
  <2> QED
    BY <1>6, <2>1, <2>2, FontSizeSets
<1>7. CASE group = "font-style"
  <2>1. Whole(group) \in KeyFields /\ WordsOf(Whole(group)[1]) = FontStyles
    BY <1>7, FieldKinds DEF Whole, WordsOf
  <2>2. \A v : SetWhole(v, group, t) = PutWord(v, Whole(group), t, FontStyles)
    BY <1>7 DEF SetWhole, FontStyle
  <2> QED
    BY <2>1, <2>2, PutWordSets DEF Strict
<1>8. CASE group = "font-weight"
  <2>1. \A v : SetWhole(v, group, t) = FontWeight(v, t)
    BY <1>8 DEF SetWhole
  <2> QED
    BY <1>8, <2>1, FontWeightSets
<1>9. CASE group = "white-space"
  <2>1. Whole(group) \in KeyFields /\ WordsOf(Whole(group)[1]) = WhiteSpaces
    BY <1>9, FieldKinds DEF Whole, WordsOf
  <2>2. \A v : SetWhole(v, group, t) = PutWord(v, Whole(group), t, WhiteSpaces)
    BY <1>9 DEF SetWhole, WhiteSpace
  <2> QED
    BY <2>1, <2>2, PutWordSets DEF Strict
<1> HIDE DEF Good
<1> QED
  BY <1>1, <1>2, <1>3, <1>4, <1>5, <1>6, <1>7, <1>8, <1>9

-----------------------------------------------------------------------------
(* Shorthands, and whole declarations.                                       *)

SideGroups == {"padding", "border-width", "border-style", "margin"}

LEMMA SideSets ==
    ASSUME NEW group \in SideGroups, NEW sv \in Values, NEW other \in Values,
           NEW t, IsTerm(t), NEW dir \in Sides
    PROVE  LET r == SetSide(group, sv, t, dir)
               q == SetSide(group, other, t, dir)
           IN  Agree(r, sv, q, other, <<group, dir>>) /\ Strict(r, sv, q, <<group, dir>>)
<1>1. CASE group = "padding"
  <2>1. \A v : SetSide(group, v, t, dir) = PaddingX(v, t, dir)
    BY <1>1 DEF SetSide
  <2> QED
    BY <1>1, <2>1, PaddingSets
<1>2. CASE group = "border-width"
  <2>1. \A v : SetSide(group, v, t, dir) = BorderXWidth(v, t, dir)
    BY <1>2 DEF SetSide
  <2> QED
    BY <1>2, <2>1, BorderWidthSets
<1>3. CASE group = "border-style"
  <2>1. \A v : SetSide(group, v, t, dir) = BorderXStyle(v, t, dir)
    BY <1>3 DEF SetSide
  <2> QED
    BY <1>3, <2>1, BorderStyleSets
<1>4. CASE group = "margin"
  <2>1. \A v : SetSide(group, v, t, dir) = MarginX(v, t, dir)
    BY <1>4 DEF SetSide
  <2> QED
    BY <1>4, <2>1, MarginSets
<1> QED
  BY <1>1, <1>2, <1>3, <1>4 DEF SideGroups

\* From the values sv and other a setter of the fields F gets to r and q.
Moves(r, sv, q, other, F) ==
    /\ r \in Values /\ q \in Values
    /\ \A g \in Fields \ F : r[g] = sv[g] /\ q[g] = other[g]
    /\ \A g \in Fields : Same(sv, other, g) => Same(r, q, g)

LEMMA AgreeMoves ==
    ASSUME NEW r, NEW sv, NEW q, NEW other, NEW f,
           Agree(r, sv, q, other, f), Agree(q, other, r, sv, f)
    PROVE  Moves(r.sv, sv, q.sv, other, {f})
  BY DEF Agree, Moves, Same

LEMMA MovesOn ==
    ASSUME NEW F, NEW G, F \subseteq G, NEW a, NEW b, NEW c, NEW x, NEW y, NEW z,
           Moves(b, a, y, x, G), Moves(c, b, z, y, F)
    PROVE  Moves(c, a, z, x, G)
  BY DEF Moves

LEMMA Stays ==
    ASSUME NEW sv \in Values, NEW other \in Values, NEW F
    PROVE  Moves(sv, sv, other, other, F)
  BY DEF Moves

\* The sides and terms of a shorthand.
Written(ts, writes) ==
    /\ Len(writes) \in Nat
    /\ \A i \in 1..Len(writes) : writes[i].dir \in Sides /\ IsTerm(ts[writes[i].term])

\* What Spread goes through.
Through(after, group, sv, ts, writes) ==
    /\ after \in [0..Len(writes) -> Values] /\ after[0] = sv
    /\ \A i \in 1..Len(writes) :
          after[i] = SetSide(group, after[i - 1], ts[writes[i].term], writes[i].dir).sv
    /\ Spread(group, sv, ts, writes) = after[Len(writes)]

LEMMA SpreadIs ==
    ASSUME NEW group \in SideGroups, NEW sv \in Values, NEW ts, NEW writes, Written(ts, writes)
    PROVE  \E after : Through(after, group, sv, ts, writes)
<1> DEFINE n == Len(writes)
           Side(v, i) == SetSide(group, v, ts[writes[i].term], writes[i].dir).sv
           step == [x \in (1..n) \X Values |-> Side(x[2], x[1])]
           Solves(f) == f = [i \in 0..n |-> IF i = 0 THEN sv ELSE Side(f[i - 1], i)]
           after == CHOOSE f : Solves(f)
<1>1. n \in Nat /\ \A i \in 1..n, v \in Values : Side(v, i) \in Values
  BY SideSets DEF Written, Agree
<1>2. Spread(group, sv, ts, writes) = after[n]
  BY DEF Spread
<1> HIDE DEF n, Side
<1>3. step \in [(1..n) \X Values -> Values]
  BY <1>1
<1>4. PICK f : f \in Recursion(n, Values, sv, step)
  BY <1>1, <1>3, RecursionHasSolution
<1>5. f \in [0..n -> Values] /\ f[0] = sv /\ \A i \in 1..n : f[i] = Side(f[i - 1], i)
  <2>1. f \in [0..n -> Values] /\ f[0] = sv /\ \A i \in 1..n : f[i] = step[<<i, f[i - 1]>>]
    BY <1>4 DEF Recursion
  <2>2. \A i \in 1..n : f[i - 1] \in Values
    BY <1>1, <2>1
  <2> QED
    BY <2>1, <2>2
<1>6. Solves(f)
  <2>1. \A i \in 0..n : f[i] = IF i = 0 THEN sv ELSE Side(f[i - 1], i)
    BY <1>1, <1>5
  <2> QED
    BY <1>5, <2>1
<1> HIDE DEF step
<1>7. Solves(after)
  <2> HIDE DEF Solves
  <2> QED
    BY <1>6
<1> HIDE DEF after
<1>8. DOMAIN after = 0..n /\ after[0] = sv /\ \A i \in 1..n : after[i] = Side(after[i - 1], i)
  BY <1>1, <1>7
<1>9. 0..n \subseteq {i \in 0..n : after[i] \in Values}
  <2> DEFINE T == {i \in 0..n : after[i] \in Values}
  <2>1. 0 \in T /\ \A i \in 0..n-1 : i \in T => i + 1 \in T
    BY <1>1, <1>8
  <2> HIDE DEF T
  <2> QED
    BY <1>1, <2>1, InductionUpTo DEF T
<1>10. after \in [0..n -> Values]
  BY <1>7, <1>9
<1> QED
  BY <1>2, <1>8, <1>10 DEF Through, n, Side

LEMMA SpreadSets ==
    ASSUME NEW group \in SideGroups, NEW sv \in Values, NEW other \in Values,
           NEW ts, NEW writes, Written(ts, writes)
    PROVE  Moves(Spread(group, sv, ts, writes), sv, Spread(group, other, ts, writes), other,
                 Sided(group))
<1> DEFINE n == Len(writes)
<1>1. PICK a : Through(a, group, sv, ts, writes)
  BY SpreadIs
<1>2. PICK b : Through(b, group, other, ts, writes)
  BY SpreadIs
<1> DEFINE T == {i \in 0..n : Moves(a[i], sv, b[i], other, Sided(group))}
<1>3. n \in Nat
  BY DEF Written
<1>4. 0 \in T
  BY <1>1, <1>2, <1>3, Stays DEF Through
<1>5. ASSUME NEW i \in 0..n-1, i \in T PROVE i + 1 \in T
  <2> DEFINE t == ts[writes[i + 1].term]
             dir == writes[i + 1].dir
  <2>1. i + 1 \in 1..n /\ i \in 0..n /\ i + 1 - 1 = i
    BY <1>3
  <2>2. IsTerm(t) /\ dir \in Sides
    BY <2>1 DEF Written
  <2>3. /\ a[i] \in Values /\ b[i] \in Values
        /\ a[i + 1] = SetSide(group, a[i], t, dir).sv /\ b[i + 1] = SetSide(group, b[i], t, dir).sv
    BY <1>1, <1>2, <2>1 DEF Through
  <2> HIDE DEF t, dir
  <2>4. Moves(a[i + 1], a[i], b[i + 1], b[i], {<<group, dir>>})
    <3>1. /\ Agree(SetSide(group, a[i], t, dir), a[i], SetSide(group, b[i], t, dir), b[i],
                   <<group, dir>>)
          /\ Agree(SetSide(group, b[i], t, dir), b[i], SetSide(group, a[i], t, dir), a[i],
                   <<group, dir>>)
      BY <2>2, <2>3, SideSets
    <3> QED
      BY <2>3, <3>1, AgreeMoves
  <2>5. {<<group, dir>>} \subseteq Sided(group)
    BY <2>2 DEF Sided
  <2>6. Moves(a[i + 1], sv, b[i + 1], other, Sided(group))
    BY <1>5, <2>4, <2>5, MovesOn
  <2> QED
    BY <2>1, <2>6
<1>6. n \in T
  <2>1. 0..n \subseteq T
    <3> HIDE DEF T
    <3> QED
      BY <1>3, <1>4, <1>5, InductionUpTo
  <2> QED
    BY <1>3, <2>1
<1> QED
  BY <1>1, <1>2, <1>6 DEF Through

\* A side has in the end what was written to it last.
LEMMA SpreadGives ==
    ASSUME NEW group \in SideGroups, NEW sv \in Values, NEW other \in Values,
           NEW ts, NEW writes, Written(ts, writes), NEW k \in 1..Len(writes),
           \A j \in k + 1..Len(writes) : writes[j].dir # writes[k].dir,
           \A v \in Values :
               SetSide(group, v, ts[writes[k].term], writes[k].dir).status = "OK"
    PROVE  LET f == <<group, writes[k].dir>>
           IN  Spread(group, sv, ts, writes)[f] =
                  SetSide(group, other, ts[writes[k].term], writes[k].dir).sv[f]
<1> DEFINE n == Len(writes)
           f == <<group, writes[k].dir>>
           given == SetSide(group, other, ts[writes[k].term], writes[k].dir).sv[f]
<1>1. PICK a : Through(a, group, sv, ts, writes)
  BY SpreadIs
<1>2. n \in Nat /\ k \in 0..n /\ k - 1 \in 0..n /\ writes[k].dir \in Sides
      /\ IsTerm(ts[writes[k].term])
  BY DEF Written
<1>3. a[k][f] = given
  <2>1. a[k - 1] \in Values /\ a[k] = SetSide(group, a[k - 1], ts[writes[k].term], writes[k].dir).sv
    BY <1>1, <1>2 DEF Through
  <2> QED
    BY <1>2, <2>1, SideSets DEF Strict
<1>4. f \in Fields
  BY <1>2, FieldKinds DEF Fields, SideGroups
<1> DEFINE T == {i \in 0..n : i >= k => a[i][f] = given}
<1>5. 0 \in T
  BY <1>2
<1>6. ASSUME NEW i \in 0..n-1, i \in T PROVE i + 1 \in T
  <2> DEFINE t == ts[writes[i + 1].term]
             dir == writes[i + 1].dir
  <2>1. i + 1 \in 1..n /\ i \in 0..n /\ i + 1 - 1 = i
    BY <1>2
  <2>2. IsTerm(t) /\ dir \in Sides
    BY <2>1 DEF Written
  <2>3. a[i] \in Values /\ a[i + 1] = SetSide(group, a[i], t, dir).sv
    BY <1>1, <2>1 DEF Through
  <2>4. i + 1 > k => a[i + 1][f] = a[i][f]
    <3>1. i + 1 > k => dir # writes[k].dir
      BY <2>1
    <3>2. dir # writes[k].dir => <<group, dir>> # f
      OBVIOUS
    <3> HIDE DEF t, dir, f
    <3>3. \A g \in Fields \ {<<group, dir>>} : a[i + 1][g] = a[i][g]
      <4>1. Agree(SetSide(group, a[i], t, dir), a[i], SetSide(group, a[i], t, dir), a[i],
                  <<group, dir>>)
        BY <2>2, <2>3, SideSets
      <4> QED
        BY <2>3, <4>1 DEF Agree
    <3> QED
      BY <1>4, <3>1, <3>2, <3>3
  <2>5. i + 1 >= k => (i + 1 = k \/ (i + 1 > k /\ i >= k))
    BY <1>2
  <2> HIDE DEF f, given, t, dir
  <2>6. i + 1 >= k => a[i + 1][f] = given
    BY <1>3, <1>6, <2>4, <2>5
  <2> QED
    BY <2>1, <2>6
<1>7. 0..n \subseteq T
  <2> HIDE DEF T
  <2> QED
    BY <1>2, <1>5, <1>6, InductionUpTo
<1>8. n \in T
  BY <1>2, <1>7
<1> QED
  BY <1>1, <1>2, <1>8 DEF Through

LEMMA FourSides ==
    ASSUME NEW m \in Nat \ {0}
    PROVE  /\ All(1) \in Seq([dir : Sides, term : 1..m]) /\ Len(All(1)) = 4
           /\ \A i \in 1..4 : All(1)[i] = Write(Dirs[i], 1)
<1>1. \A i \in 1..4 : Write(Dirs[i], 1) \in [dir : Sides, term : 1..m]
  BY DEF Write, Dirs, Sides
<1> QED
  BY <1>1, IsASeq DEF All

LEMMA WritesOf ==
    ASSUME NEW ts, NEW m \in Nat, NEW writes \in Seq([dir : Sides, term : 1..m]),
           \A i \in 1..m : IsTerm(ts[i])
    PROVE  Written(ts, writes)
<1>1. Len(writes) \in Nat /\ \A i \in 1..Len(writes) : writes[i] \in [dir : Sides, term : 1..m]
  BY LenProperties
<1> QED
  BY <1>1 DEF Written

LEMMA BorderWritesAre ==
    ASSUME NEW n \in Nat \ {0}
    PROVE  BorderWrites(n) \in Seq([dir : Sides, term : 1..n])
<1> DEFINE W == [dir : Sides, term : 1..n]
           two == IF n >= 2 THEN <<Write("right", 2), Write("left", 2)>> ELSE <<>>
           three == IF n >= 3 THEN <<Write("bottom", 3)>> ELSE <<>>
           four == IF n >= 4 THEN <<Write("left", 4)>> ELSE <<>>
<1>1. All(1) \in Seq(W)
  BY FourSides
<1>2. two \in Seq(W)
  <2>1. n >= 2 => Write("right", 2) \in W /\ Write("left", 2) \in W
    BY DEF Write, Sides
  <2> HIDE DEF W
  <2> QED
    BY <2>1
<1>3. three \in Seq(W)
  <2>1. n >= 3 => Write("bottom", 3) \in W
    BY DEF Write, Sides
  <2> HIDE DEF W
  <2> QED
    BY <2>1
<1>4. four \in Seq(W)
  <2>1. n >= 4 => Write("left", 4) \in W
    BY DEF Write, Sides
  <2> HIDE DEF W
  <2> QED
    BY <2>1
<1>5. BorderWrites(n) = All(1) \o two \o three \o four
  BY DEF BorderWrites
<1> HIDE DEF W, two, three, four
<1>6. BorderWrites(n) \in Seq(W)
  BY <1>1, <1>2, <1>3, <1>4, <1>5, ConcatProperties
<1> QED
  BY <1>6 DEF W

LEMMA BoxWritesAre ==
    ASSUME NEW n \in {1, 2}
    PROVE  BoxWrites(n) \in Seq([dir : Sides, term : 1..n])
<1> DEFINE W == [dir : Sides, term : 1..n]
           two == IF n >= 2 THEN <<Write("right", 2), Write("left", 2), Write("bottom", 2),
                                   Write("left", 2)>>
                  ELSE <<>>
<1>1. All(1) \in Seq(W)
  BY FourSides
<1>2. two \in Seq(W)
  <2>1. n >= 2 => Write("right", 2) \in W /\ Write("left", 2) \in W /\ Write("bottom", 2) \in W
    BY DEF Write, Sides
  <2> HIDE DEF W
  <2> QED
    BY <2>1
<1>3. BoxWrites(n) = All(1) \o two
  BY DEF BoxWrites
<1> HIDE DEF W, two
<1>4. BoxWrites(n) \in Seq(W)
  BY <1>1, <1>2, <1>3, ConcatProperties
<1> QED
  BY <1>4 DEF W

\* The terms of a declaration.
Terms(ts) == Len(ts) \in Nat \ {0} /\ DOMAIN ts = 1..Len(ts) /\ \A i \in 1..Len(ts) : IsTerm(ts[i])

LEMMA BoxSets ==
    ASSUME NEW group \in {"padding", "margin"}, NEW sv \in Values, NEW other \in Values,
           NEW ts, Terms(ts), NEW without
    PROVE  LET r == Box(group, sv, ts, without)
               q == Box(group, other, ts, without)
           IN  /\ Moves(r.sv, sv, q.sv, other, Sided(group))
               /\ r.status = "OK" \/ r.sv = sv \/ group = "padding"
<1> DEFINE numbers == {i \in DOMAIN ts : ts[i].kind = "number"}
           first == Min(numbers)
           second == Min(numbers \ {first})
           one == numbers = {first}
           us == IF one THEN <<ts[first]>> ELSE <<ts[first], ts[second]>>
           m == IF one THEN 1 ELSE 2
           writes == BoxWrites(m)
           status(v) == IF one THEN "OK" ELSE SetSide(group, v, ts[second], "left").status
<1>0. group \in SideGroups
  BY DEF SideGroups
<1>1. \A v : Box(group, v, ts, without) =
         IF numbers = {} THEN Refuse(v, without)
         ELSE [sv |-> Spread(group, v, us, writes), status |-> status(v)]
  BY DEF Box
<1>2. CASE numbers = {}
  BY <1>1, <1>2, Stays DEF Refuse
<1>3. CASE numbers # {}
  <2>1. numbers \subseteq Nat /\ numbers \subseteq 1..Len(ts)
    BY DEF Terms
  <2>2. first \in numbers
    <3> HIDE DEF numbers
    <3> QED
      BY <1>3, <2>1, Least
  <2>3. ~one => second \in numbers
    <3>1. ~one => numbers \ {first} # {} /\ numbers \ {first} \subseteq Nat
      BY <2>1, <2>2
    <3> HIDE DEF numbers, first
    <3> QED
      BY <3>1, Least
  <2>4. \A i \in 1..m : IsTerm(us[i])
    <3>1. IsTerm(ts[first]) /\ (~one => IsTerm(ts[second]))
      BY <2>1, <2>2, <2>3 DEF Terms
    <3> HIDE DEF first, second, one
    <3> QED
      BY <3>1
  <2>5. ~one => ts[second].kind = "number"
    BY <2>3
  <2> HIDE DEF numbers, first, second, one, us, m, writes
  <2>6. Written(us, writes)
    <3>1. m \in {1, 2}
      BY DEF m
    <3>2. writes \in Seq([dir : Sides, term : 1..m])
      BY <3>1, BoxWritesAre DEF writes
    <3> QED
      BY <2>4, <3>1, <3>2, WritesOf
  <2>7. Moves(Spread(group, sv, us, writes), sv, Spread(group, other, us, writes), other, Sided(group))
    BY <1>0, <2>6, SpreadSets
  <2>8. group = "margin" => status(sv) = "OK"
    BY <2>5 DEF SetSide, MarginX, IsWord, Put
  <2> HIDE DEF status
  <2> QED
    BY <1>1, <1>3, <2>7, <2>8
<1> QED
  BY <1>2, <1>3

LEMMA BorderSpreads ==
    ASSUME NEW group \in {"border-width", "border-style"}, NEW sv \in Values, NEW other \in Values,
           NEW ts, Terms(ts), NEW n \in 1..Len(ts)
    PROVE  /\ Written(ts, BorderWrites(n))
           /\ Moves(Spread(group, sv, ts, BorderWrites(n)), sv,
                    Spread(group, other, ts, BorderWrites(n)), other, Sided(group))
<1>1. n \in Nat \ {0} /\ \A i \in 1..n : IsTerm(ts[i])
  BY DEF Terms
<1>2. Written(ts, BorderWrites(n))
  BY <1>1, BorderWritesAre, WritesOf
<1>3. group \in SideGroups
  BY DEF SideGroups
<1> QED
  BY <1>2, <1>3, SpreadSets

LEMMA BorderStyleSpreads ==
    ASSUME NEW sv \in Values, NEW other \in Values, NEW ts, Terms(ts)
    PROVE  LET r == BorderStyle(sv, ts)
               q == BorderStyle(other, ts)
           IN  /\ Moves(r.sv, sv, q.sv, other, Sided("border-style"))
               /\ r.status = "OK" \/ r.sv = sv
<1> DEFINE elsewhere == SelectInSeq(ts, LAMBDA t : t.kind # "ident")
           I == {i \in 1..Len(ts) : ts[i].kind # "ident"}
           n == IF elsewhere = 0 THEN Len(ts) ELSE elsewhere - 1
<1>1. elsewhere = IF I # {} THEN Min(I) ELSE 0
  BY DEF SelectInSeq
<1>2. I # {} => Min(I) \in I
  <2>1. I \subseteq Nat
    BY DEF Terms
  <2> HIDE DEF I
  <2> QED
    BY <2>1, Least
<1>3. \A v : BorderStyle(v, ts) =
         IF n = 0 THEN Refuse(v, "ERROR")
         ELSE [sv |-> Spread("border-style", v, ts, BorderWrites(n)), status |-> "OK"]
  BY DEF BorderStyle
<1> HIDE DEF elsewhere
<1>4. n \in 0..Len(ts)
  <2>1. Len(ts) \in Nat /\ I \subseteq 1..Len(ts)
    BY DEF Terms
  <2> HIDE DEF I
  <2>2. elsewhere \in 0..Len(ts)
    <3>1. CASE I = {}
      BY <1>1, <2>1, <3>1
    <3>2. CASE I # {}
      <4>1. elsewhere \in I
        BY <1>1, <1>2, <3>2
      <4> QED
        BY <2>1, <4>1
    <3> QED
      BY <3>1, <3>2
  <2> QED
    BY <2>1, <2>2
<1> HIDE DEF n, I
<1>5. CASE n = 0
  BY <1>3, <1>5, Stays DEF Refuse
<1>6. CASE n # 0
  <2>1. n \in 1..Len(ts)
    BY <1>4, <1>6 DEF Terms
  <2> QED
    BY <1>3, <1>6, <2>1, BorderSpreads
<1> QED
  BY <1>5, <1>6

\* The three values of one side of the border.
BorderOf(dir) == {<<"border-width", dir>>, <<"border-style", dir>>, <<"border-color", dir>>}

LEMMA BorderTermSets ==
    ASSUME NEW sv \in Values, NEW other \in Values, NEW t, IsTerm(t), NEW dir \in Sides
    PROVE  Moves(BorderTerm(sv, t, dir), sv, BorderTerm(other, t, dir), other, BorderOf(dir))
<1>1. /\ Moves(BorderXWidth(sv, t, dir).sv, sv, BorderXWidth(other, t, dir).sv, other,
               {<<"border-width", dir>>})
      /\ BorderXWidth(sv, t, dir).status = BorderXWidth(other, t, dir).status
  <2>1. /\ Agree(BorderXWidth(sv, t, dir), sv, BorderXWidth(other, t, dir), other,
                 <<"border-width", dir>>)
        /\ Agree(BorderXWidth(other, t, dir), other, BorderXWidth(sv, t, dir), sv,
                 <<"border-width", dir>>)
    BY BorderWidthSets
  <2>2. BorderXWidth(sv, t, dir).status = BorderXWidth(other, t, dir).status
    BY <2>1 DEF Agree
  <2> QED
    BY <2>1, <2>2, AgreeMoves
<1>2. /\ Moves(BorderXStyle(sv, t, dir).sv, sv, BorderXStyle(other, t, dir).sv, other,
               {<<"border-style", dir>>})
      /\ BorderXStyle(sv, t, dir).status = BorderXStyle(other, t, dir).status
  <2>1. /\ Agree(BorderXStyle(sv, t, dir), sv, BorderXStyle(other, t, dir), other,
                 <<"border-style", dir>>)
        /\ Agree(BorderXStyle(other, t, dir), other, BorderXStyle(sv, t, dir), sv,
                 <<"border-style", dir>>)
    BY BorderStyleSets
  <2>2. BorderXStyle(sv, t, dir).status = BorderXStyle(other, t, dir).status
    BY <2>1 DEF Agree
  <2> QED
    BY <2>1, <2>2, AgreeMoves
<1>3. Moves(BorderXColor(sv, t, dir).sv, sv, BorderXColor(other, t, dir).sv, other,
            {<<"border-color", dir>>})
  BY BorderColorSets, AgreeMoves
<1>4. \A v : BorderTerm(v, t, dir) =
         IF BorderXWidth(v, t, dir).status = "OK" THEN BorderXWidth(v, t, dir).sv
         ELSE IF BorderXStyle(v, t, dir).status = "OK" THEN BorderXStyle(v, t, dir).sv
         ELSE BorderXColor(v, t, dir).sv
  BY DEF BorderTerm
<1>5. Moves(sv, sv, other, other, BorderOf(dir))
  BY Stays
<1>6. /\ Moves(BorderXWidth(sv, t, dir).sv, sv, BorderXWidth(other, t, dir).sv, other, BorderOf(dir))
      /\ Moves(BorderXStyle(sv, t, dir).sv, sv, BorderXStyle(other, t, dir).sv, other, BorderOf(dir))
      /\ Moves(BorderXColor(sv, t, dir).sv, sv, BorderXColor(other, t, dir).sv, other, BorderOf(dir))
  BY <1>1, <1>2, <1>3, <1>5, MovesOn DEF BorderOf
<1> QED
  BY <1>1, <1>2, <1>4, <1>6

ThroughTerms(after, sv, ts, dir) ==
    /\ after \in [0..Len(ts) -> Values] /\ after[0] = sv
    /\ \A i \in 1..Len(ts) : after[i] = BorderTerm(after[i - 1], ts[i], dir)
    /\ BorderX(sv, ts, dir) = [sv |-> after[Len(ts)], status |-> "OK"]

LEMMA BorderXIs ==
    ASSUME NEW sv \in Values, NEW ts, Terms(ts), NEW dir \in Sides
    PROVE  \E after : ThroughTerms(after, sv, ts, dir)
<1> DEFINE n == Len(ts)
           Tried(v, i) == BorderTerm(v, ts[i], dir)
           step == [x \in (1..n) \X Values |-> Tried(x[2], x[1])]
           Solves(f) == f = [i \in 0..n |-> IF i = 0 THEN sv ELSE Tried(f[i - 1], i)]
           after == CHOOSE f : Solves(f)
<1>1. n \in Nat /\ \A i \in 1..n, v \in Values : Tried(v, i) \in Values
  BY BorderTermSets DEF Terms, Moves
<1>2. BorderX(sv, ts, dir) = [sv |-> after[n], status |-> "OK"]
  BY DEF BorderX
<1> HIDE DEF n, Tried
<1>3. step \in [(1..n) \X Values -> Values]
  BY <1>1
<1>4. PICK f : f \in Recursion(n, Values, sv, step)
  BY <1>1, <1>3, RecursionHasSolution
<1>5. f \in [0..n -> Values] /\ f[0] = sv /\ \A i \in 1..n : f[i] = Tried(f[i - 1], i)
  <2>1. f \in [0..n -> Values] /\ f[0] = sv /\ \A i \in 1..n : f[i] = step[<<i, f[i - 1]>>]
    BY <1>4 DEF Recursion
  <2>2. \A i \in 1..n : f[i - 1] \in Values
    BY <1>1, <2>1
  <2> QED
    BY <2>1, <2>2
<1>6. Solves(f)
  <2>1. \A i \in 0..n : f[i] = IF i = 0 THEN sv ELSE Tried(f[i - 1], i)
    BY <1>1, <1>5
  <2> QED
    BY <1>5, <2>1
<1> HIDE DEF step
<1>7. Solves(after)
  <2> HIDE DEF Solves
  <2> QED
    BY <1>6
<1> HIDE DEF after
<1>8. DOMAIN after = 0..n /\ after[0] = sv /\ \A i \in 1..n : after[i] = Tried(after[i - 1], i)
  BY <1>1, <1>7
<1>9. 0..n \subseteq {i \in 0..n : after[i] \in Values}
  <2> DEFINE T == {i \in 0..n : after[i] \in Values}
  <2>1. 0 \in T /\ \A i \in 0..n-1 : i \in T => i + 1 \in T
    BY <1>1, <1>8
  <2> HIDE DEF T
  <2> QED
    BY <1>1, <2>1, InductionUpTo DEF T
<1>10. after \in [0..n -> Values]
  BY <1>7, <1>9
<1> QED
  BY <1>2, <1>8, <1>10 DEF ThroughTerms, n, Tried

LEMMA BorderXSets ==
    ASSUME NEW sv \in Values, NEW other \in Values, NEW ts, Terms(ts), NEW dir \in Sides
    PROVE  /\ Moves(BorderX(sv, ts, dir).sv, sv, BorderX(other, ts, dir).sv, other, BorderOf(dir))
           /\ BorderX(sv, ts, dir).status = "OK"
<1> DEFINE n == Len(ts)
<1>1. PICK a : ThroughTerms(a, sv, ts, dir)
  BY BorderXIs
<1>2. PICK b : ThroughTerms(b, other, ts, dir)
  BY BorderXIs
<1> DEFINE T == {i \in 0..n : Moves(a[i], sv, b[i], other, BorderOf(dir))}
<1>3. n \in Nat
  BY DEF Terms
<1>4. 0 \in T
  BY <1>1, <1>2, <1>3, Stays DEF ThroughTerms
<1>5. ASSUME NEW i \in 0..n-1, i \in T PROVE i + 1 \in T
  <2>1. i + 1 \in 1..n /\ i \in 0..n /\ i + 1 - 1 = i
    BY <1>3
  <2>2. /\ IsTerm(ts[i + 1]) /\ a[i] \in Values /\ b[i] \in Values
        /\ a[i + 1] = BorderTerm(a[i], ts[i + 1], dir)
        /\ b[i + 1] = BorderTerm(b[i], ts[i + 1], dir)
    BY <1>1, <1>2, <2>1 DEF ThroughTerms, Terms
  <2>3. Moves(a[i + 1], a[i], b[i + 1], b[i], BorderOf(dir))
    BY <2>2, BorderTermSets
  <2>4. Moves(a[i + 1], sv, b[i + 1], other, BorderOf(dir))
    BY <1>5, <2>3, MovesOn
  <2> QED
    BY <2>1, <2>4
<1>6. n \in T
  <2>1. 0..n \subseteq T
    <3> HIDE DEF T
    <3> QED
      BY <1>3, <1>4, <1>5, InductionUpTo
  <2> QED
    BY <1>3, <2>1
<1> QED
  BY <1>1, <1>2, <1>6 DEF ThroughTerms

LEMMA BorderSets ==
    ASSUME NEW sv \in Values, NEW other \in Values, NEW ts, Terms(ts)
    PROVE  /\ Moves(Border(sv, ts).sv, sv, Border(other, ts).sv, other,
                    UNION {BorderOf(dir) : dir \in Sides})
           /\ Border(sv, ts).status = "OK"
<1> DEFINE F == UNION {BorderOf(dir) : dir \in Sides}
           a == BorderX(sv, ts, "top").sv
           b == BorderX(a, ts, "right").sv
           c == BorderX(b, ts, "bottom").sv
           x == BorderX(other, ts, "top").sv
           y == BorderX(x, ts, "right").sv
           z == BorderX(y, ts, "bottom").sv
<1>1. "top" \in Sides /\ "right" \in Sides /\ "bottom" \in Sides /\ "left" \in Sides
  BY DEF Sides
<1>2. Border(sv, ts) = BorderX(c, ts, "left") /\ Border(other, ts) = BorderX(z, ts, "left")
  BY DEF Border
<1>3. \A dir \in Sides : BorderOf(dir) \subseteq F
  OBVIOUS
<1> HIDE DEF F, a, b, c, x, y, z
<1>4. Moves(a, sv, x, other, F)
  BY <1>1, <1>3, BorderXSets, Stays, MovesOn DEF a, x
<1>5. Moves(b, sv, y, other, F)
  <2>1. Moves(b, a, y, x, BorderOf("right"))
    BY <1>1, <1>4, BorderXSets DEF b, y, Moves
  <2> QED
    BY <1>1, <1>3, <1>4, <2>1, MovesOn
<1>6. Moves(c, sv, z, other, F)
  <2>1. Moves(c, b, z, y, BorderOf("bottom"))
    BY <1>1, <1>5, BorderXSets DEF c, z, Moves
  <2> QED
    BY <1>1, <1>3, <1>5, <2>1, MovesOn
<1>7. c \in Values /\ z \in Values
  BY <1>6 DEF Moves
<1>8. /\ Moves(BorderX(c, ts, "left").sv, c, BorderX(z, ts, "left").sv, z, BorderOf("left"))
      /\ BorderX(c, ts, "left").status = "OK"
  BY <1>1, <1>7, BorderXSets
<1>9. Moves(Border(sv, ts).sv, sv, Border(other, ts).sv, other, F)
  BY <1>1, <1>2, <1>3, <1>6, <1>8, MovesOn
<1> QED
  BY <1>2, <1>8, <1>9 DEF F

LEMMA MovesIn ==
    ASSUME NEW F, NEW G, F \subseteq G, NEW r, NEW sv, NEW q, NEW other, Moves(r, sv, q, other, F)
    PROVE  Moves(r, sv, q, other, G)
  BY DEF Moves

LEMMA ValueTerms ==
    ASSUME NEW decl, HasValue(decl)
    PROVE  Terms(decl.value)
<1>1. decl.value \in Seq(Range(decl.value)) /\ decl.value # <<>>
  BY DEF HasValue, IsSequence
<1>2. /\ Len(decl.value) \in Nat /\ DOMAIN decl.value = 1..Len(decl.value)
      /\ Len(decl.value) # 0
  BY <1>1, LenProperties, EmptySeq
<1> QED
  BY <1>2 DEF Terms, HasValue

\* The fields a declaration may change.
Reached(name) == IF name = <<"border-color", "left">> THEN {<<"border-color", "bottom">>}
                 ELSE Covered(name)

Unchanged(name, r, sv) == r.status # "OK" /\ name \notin Halfway => r.sv = sv

LEMMA CoveredAre ==
    /\ \A dir \in Sides :
          /\ \A g \in {"padding", "border-width", "border-style", "border-color", "margin", "offset"} :
                <<g, dir>> \in Covered(<<g, dir>>)
          /\ BorderOf(dir) \subseteq Covered(<<"border", dir>>)
          /\ BorderOf(dir) \subseteq Covered(<<"border", "all">>)
    /\ \A g \in SideGroups : Sided(g) \subseteq Covered(<<g, "all">>)
    /\ \A g \in {"display", "position", "float", "width", "color", "background-color",
                 "font-size", "font-style", "font-weight", "white-space"} :
          Whole(g) \in Covered(Whole(g))
<1>1. \A g, dir : <<g, dir>>[1] = g /\ <<g, dir>>[2] = dir
  OBVIOUS
<1>2. \A dir \in Sides :
         \A g \in {"padding", "border-width", "border-style", "border-color", "margin", "offset"} :
            <<g, dir>> \in Fields
  BY FieldKinds DEF Fields
<1>3. \A g \in {"display", "position", "float", "width", "color", "background-color",
                "font-size", "font-style", "font-weight", "white-space"} : <<g, "">> \in Fields
  BY FieldKinds DEF Fields, Whole, FontSize
<1>4. \A dir \in Sides :
         \A g \in {"padding", "border-width", "border-style", "border-color", "margin", "offset"} :
            <<g, dir>> \in Covered(<<g, dir>>)
  BY <1>2 DEF Covered
<1>5. \A dir \in Sides : /\ BorderOf(dir) \subseteq Covered(<<"border", dir>>)
                         /\ BorderOf(dir) \subseteq Covered(<<"border", "all">>)
  <2> TAKE dir \in Sides
  <2>1. /\ <<"border-width", dir>> \in Fields /\ <<"border-style", dir>> \in Fields
        /\ <<"border-color", dir>> \in Fields
    BY <1>2
  <2>2. \A g \in {"border-width", "border-style", "border-color"} :
           <<g, dir>> \in Fields =>
              <<g, dir>> \in Covered(<<"border", dir>>) /\ <<g, dir>> \in Covered(<<"border", "all">>)
    BY DEF Covered
  <2> QED
    BY <2>1, <2>2 DEF BorderOf
<1>6. \A g \in SideGroups : Sided(g) \subseteq Covered(<<g, "all">>)
  <2> TAKE g \in SideGroups
  <2>1. \A dir \in Sides : <<g, dir>> \in Fields /\ <<g, dir>>[1] = g
    BY <1>2 DEF SideGroups
  <2>2. \A dir \in Sides : <<g, dir>> \in Covered(<<g, "all">>)
    BY <2>1 DEF Covered, SideGroups
  <2> QED
    BY <2>2 DEF Sided
<1>7. \A g \in {"display", "position", "float", "width", "color", "background-color",
                "font-size", "font-style", "font-weight", "white-space"} :
         Whole(g) \in Covered(Whole(g))
  BY <1>3 DEF Covered, Whole
<1> QED
  BY <1>4, <1>5, <1>6, <1>7

LEMMA ShorthandSets ==
    ASSUME NEW sv \in Values, NEW other \in Values, NEW ts, Terms(ts),
           NEW g \in SideGroups \cup {"border"}
    PROVE  LET r == SetSided(sv, <<g, "all">>, ts)
               q == SetSided(other, <<g, "all">>, ts)
           IN  /\ Moves(r.sv, sv, q.sv, other, Covered(<<g, "all">>))
               /\ Unchanged(<<g, "all">>, r, sv)
<1> DEFINE Good(r, q) == /\ Moves(r.sv, sv, q.sv, other, Covered(<<g, "all">>))
                         /\ Unchanged(<<g, "all">>, r, sv)
<1> SUFFICES Good(SetSided(sv, <<g, "all">>, ts), SetSided(other, <<g, "all">>, ts))
  OBVIOUS
<1>1. CASE g = "padding"
  <2>1. \A v : SetSided(v, <<g, "all">>, ts) = Box("padding", v, ts, "ERROR")
    BY <1>1 DEF SetSided, Padding
  <2>2. Sided("padding") \subseteq Covered(<<"padding", "all">>) /\ <<"padding", "all">> \in Halfway
    BY CoveredAre DEF SideGroups, Halfway
  <2> QED
    BY <1>1, <2>1, <2>2, BoxSets, MovesIn DEF Unchanged
<1>2. CASE g = "margin"
  <2>1. \A v : SetSided(v, <<g, "all">>, ts) = Box("margin", v, ts, "OK")
    BY <1>2 DEF SetSided, Margin
  <2>2. Sided("margin") \subseteq Covered(<<"margin", "all">>)
    BY CoveredAre DEF SideGroups
  <2> QED
    BY <1>2, <2>1, <2>2, BoxSets, MovesIn DEF Unchanged
<1>3. CASE g = "border-width"
  <2>1. \A v : SetSided(v, <<g, "all">>, ts) =
                  [sv |-> Spread("border-width", v, ts, BorderWrites(Len(ts))), status |-> "OK"]
    BY <1>3 DEF SetSided, BorderWidth
  <2>2. Sided("border-width") \subseteq Covered(<<"border-width", "all">>)
    BY CoveredAre DEF SideGroups
  <2>3. Len(ts) \in 1..Len(ts)
    BY DEF Terms
  <2>4. Moves(Spread("border-width", sv, ts, BorderWrites(Len(ts))), sv,
              Spread("border-width", other, ts, BorderWrites(Len(ts))), other,
              Covered(<<"border-width", "all">>))
    BY <2>2, <2>3, BorderSpreads, MovesIn
  <2> DEFINE w(v) == Spread("border-width", v, ts, BorderWrites(Len(ts)))
  <2>5. /\ SetSided(sv, <<g, "all">>, ts) = [sv |-> w(sv), status |-> "OK"]
        /\ SetSided(other, <<g, "all">>, ts) = [sv |-> w(other), status |-> "OK"]
        /\ Moves(w(sv), sv, w(other), other, Covered(<<g, "all">>))
    BY <1>3, <2>1, <2>4
  <2> HIDE DEF w
  <2> QED
    BY <2>5 DEF Unchanged
<1>4. CASE g = "border-style"
  <2>1. \A v : SetSided(v, <<g, "all">>, ts) = BorderStyle(v, ts)
    BY <1>4 DEF SetSided
  <2>2. Sided("border-style") \subseteq Covered(<<"border-style", "all">>)
    BY CoveredAre DEF SideGroups
  <2> QED
    BY <1>4, <2>1, <2>2, BorderStyleSpreads, MovesIn DEF Unchanged
<1>5. CASE g = "border"
  <2>1. \A v : SetSided(v, <<g, "all">>, ts) = Border(v, ts)
    BY <1>5 DEF SetSided
  <2>2. UNION {BorderOf(dir) : dir \in Sides} \subseteq Covered(<<"border", "all">>)
    BY CoveredAre
  <2>3. /\ Moves(Border(sv, ts).sv, sv, Border(other, ts).sv, other, Covered(<<"border", "all">>))
        /\ Border(sv, ts).status = "OK"
    BY <2>2, BorderSets, MovesIn
  <2> QED
    BY <1>5, <2>1, <2>3 DEF Unchanged
<1> HIDE DEF Good
<1> QED
  BY <1>1, <1>2, <1>3, <1>4, <1>5 DEF SideGroups

SideNames == {"padding", "border-width", "border-style", "border-color", "border", "margin", "offset"}

LEMMA OneSideSets ==
    ASSUME NEW sv \in Values, NEW other \in Values, NEW ts, Terms(ts),
           NEW g \in SideNames, NEW dir \in Sides
    PROVE  LET r == SetSided(sv, <<g, dir>>, ts)
               q == SetSided(other, <<g, dir>>, ts)
           IN  /\ Moves(r.sv, sv, q.sv, other, Reached(<<g, dir>>))
               /\ Unchanged(<<g, dir>>, r, sv)
<1> DEFINE Good(r, q) == /\ Moves(r.sv, sv, q.sv, other, Reached(<<g, dir>>))
                         /\ Unchanged(<<g, dir>>, r, sv)
           t == ts[1]
<1> SUFFICES Good(SetSided(sv, <<g, dir>>, ts), SetSided(other, <<g, dir>>, ts))
  OBVIOUS
<1>0. dir # "all" /\ IsTerm(t) /\ <<g, dir>>[1] = g /\ <<g, dir>>[2] = dir
  BY DEF Sides, Terms
<1>1. CASE g \in SideGroups
  <2>1. \A v : SetSided(v, <<g, dir>>, ts) = SetSide(g, v, t, dir)
    BY <1>0, <1>1 DEF SetSided, SetSide, SideGroups
  <2>2. Reached(<<g, dir>>) = Covered(<<g, dir>>) /\ <<g, dir>> \in Covered(<<g, dir>>)
    <3>1. <<g, dir>> # <<"border-color", "left">>
      BY <1>1 DEF SideGroups
    <3>2. <<g, dir>> \in Covered(<<g, dir>>)
      BY <1>1, CoveredAre DEF SideGroups
    <3> QED
      BY <3>1, <3>2 DEF Reached
  <2> HIDE DEF t
  <2>3. /\ Agree(SetSide(g, sv, t, dir), sv, SetSide(g, other, t, dir), other, <<g, dir>>)
        /\ Agree(SetSide(g, other, t, dir), other, SetSide(g, sv, t, dir), sv, <<g, dir>>)
        /\ SetSide(g, sv, t, dir).status # "OK" => SetSide(g, sv, t, dir).sv = sv
    BY <1>0, <1>1, SideSets DEF Strict
  <2>4. Moves(SetSide(g, sv, t, dir).sv, sv, SetSide(g, other, t, dir).sv, other, {<<g, dir>>})
    BY <2>3, AgreeMoves
  <2> QED
    BY <2>1, <2>2, <2>3, <2>4, MovesIn DEF Unchanged
<1>2. CASE g = "offset"
  <2>1. \A v : SetSided(v, <<g, dir>>, ts) = OffsetX(v, t, dir)
    BY <1>0, <1>2 DEF SetSided
  <2>2. Reached(<<g, dir>>) = Covered(<<g, dir>>) /\ <<g, dir>> \in Covered(<<g, dir>>)
    <3>1. <<g, dir>> # <<"border-color", "left">>
      BY <1>2
    <3>2. <<g, dir>> \in Covered(<<g, dir>>)
      BY <1>2, CoveredAre
    <3> QED
      BY <3>1, <3>2 DEF Reached
  <2> HIDE DEF t
  <2>3. /\ Agree(OffsetX(sv, t, dir), sv, OffsetX(other, t, dir), other, <<g, dir>>)
        /\ Agree(OffsetX(other, t, dir), other, OffsetX(sv, t, dir), sv, <<g, dir>>)
        /\ OffsetX(sv, t, dir).status # "OK" => OffsetX(sv, t, dir).sv = sv
    BY <1>0, <1>2, OffsetSets
  <2>4. Moves(OffsetX(sv, t, dir).sv, sv, OffsetX(other, t, dir).sv, other, {<<g, dir>>})
    BY <2>3, AgreeMoves
  <2> QED
    BY <2>1, <2>2, <2>3, <2>4, MovesIn DEF Unchanged
<1>3. CASE g = "border-color"
  <2> DEFINE to == IF dir = "left" THEN "bottom" ELSE dir
  <2>1. \A v : SetSided(v, <<g, dir>>, ts) = BorderXColor(v, t, to)
    BY <1>0, <1>3 DEF SetSided
  <2>2. to \in Sides /\ <<"border-color", to>> \in Reached(<<g, dir>>)
    <3>1. <<g, dir>> = <<"border-color", "left">> <=> dir = "left"
      BY <1>3
    <3>2. <<g, dir>> \in Covered(<<g, dir>>)
      BY <1>3, CoveredAre
    <3> QED
      BY <1>3, <3>1, <3>2 DEF Reached, Sides
  <2>3. <<g, dir>> \in Halfway
    BY <1>3 DEF Halfway, Sided
  <2> HIDE DEF t, to
  <2>4. /\ Agree(BorderXColor(sv, t, to), sv, BorderXColor(other, t, to), other, <<"border-color", to>>)
        /\ Agree(BorderXColor(other, t, to), other, BorderXColor(sv, t, to), sv, <<"border-color", to>>)
    BY <1>0, <2>2, BorderColorSets
  <2>5. Moves(BorderXColor(sv, t, to).sv, sv, BorderXColor(other, t, to).sv, other,
              {<<"border-color", to>>})
    BY <2>4, AgreeMoves
  <2> QED
    BY <2>1, <2>2, <2>3, <2>5, MovesIn DEF Unchanged
<1>4. CASE g = "border"
  <2>1. \A v : SetSided(v, <<g, dir>>, ts) = BorderX(v, ts, dir)
    BY <1>0, <1>4 DEF SetSided
  <2>2. BorderOf(dir) \subseteq Reached(<<g, dir>>)
    <3>1. <<g, dir>> # <<"border-color", "left">>
      BY <1>4
    <3> QED
      BY <1>4, <3>1, CoveredAre DEF Reached
  <2>3. /\ Moves(BorderX(sv, ts, dir).sv, sv, BorderX(other, ts, dir).sv, other, Reached(<<g, dir>>))
        /\ BorderX(sv, ts, dir).status = "OK"
    BY <2>2, BorderXSets, MovesIn
  <2> QED
    BY <2>1, <2>3 DEF Unchanged
<1> HIDE DEF Good
<1> QED
  BY <1>1, <1>2, <1>3, <1>4 DEF SideNames, SideGroups

\* What a declaration of any property but font-family does to the values.
LEMMA DeclarationSets ==
    ASSUME NEW sv \in Values, NEW other \in Values, NEW decl, HasValue(decl)
    PROVE  LET r == SetValues(sv, decl)
               q == SetValues(other, decl)
           IN  /\ Moves(r.sv, sv, q.sv, other, Reached(decl.name))
               /\ Unchanged(decl.name, r, sv)
<1> DEFINE name == decl.name
           ts == decl.value
           Good(r, q) == Moves(r.sv, sv, q.sv, other, Reached(name)) /\ Unchanged(name, r, sv)
<1> SUFFICES Good(SetValues(sv, decl), SetValues(other, decl))
  OBVIOUS
<1>0. Terms(ts)
  BY ValueTerms
<1>1. CASE name \in Shorthands
  <2>1. PICK g \in SideGroups \cup {"border"} : name = <<g, "all">>
    BY <1>1 DEF Shorthands, SideGroups
  <2>2. \A v : SetValues(v, decl) = SetSided(v, <<g, "all">>, ts)
    BY <1>1, <2>1 DEF SetValues, SidedNames
  <2>3. Reached(<<g, "all">>) = Covered(<<g, "all">>)
    BY DEF Reached
  <2> HIDE DEF name, ts
  <2> QED
    BY <1>0, <2>1, <2>2, <2>3, ShorthandSets
<1>2. CASE name \in UNION {Sided(g) : g \in SideNames}
  <2>1. PICK g \in SideNames, dir \in Sides : name = <<g, dir>>
    BY <1>2 DEF Sided
  <2>2. \A v : SetValues(v, decl) = SetSided(v, <<g, dir>>, ts)
    BY <1>2, <2>1 DEF SetValues, SidedNames, SideNames
  <2> HIDE DEF name, ts
  <2> QED
    BY <1>0, <2>1, <2>2, OneSideSets
<1>3. CASE name \in WholeNames /\ name \notin SidedNames
  <2>1. PICK g \in {"display", "position", "float", "width", "color", "background-color",
                   "font-size", "font-style", "font-weight", "white-space"} : name = Whole(g)
    BY <1>3 DEF WholeNames
  <2>2. name[1] = g /\ name # <<"border-color", "left">>
    <3>1. <<g, "">>[1] = g /\ <<g, "">> # <<"border-color", "left">>
      OBVIOUS
    <3> HIDE DEF name
    <3> QED
      BY <2>1, <3>1 DEF Whole
  <2>3. \A v : SetValues(v, decl) = SetWhole(v, g, ts[1])
    BY <1>3, <2>2 DEF SetValues
  <2>4. Whole(g) \in Reached(name)
    BY <2>1, <2>2, CoveredAre DEF Reached
  <2>5. g = "font-size" => name \in Halfway
    BY <2>1 DEF Halfway, FontSize
  <2>6. IsTerm(ts[1])
    BY <1>0 DEF Terms
  <2> HIDE DEF name, ts
  <2>7. /\ Agree(SetWhole(sv, g, ts[1]), sv, SetWhole(other, g, ts[1]), other, Whole(g))
        /\ Agree(SetWhole(other, g, ts[1]), other, SetWhole(sv, g, ts[1]), sv, Whole(g))
        /\ g # "font-size" => (SetWhole(sv, g, ts[1]).status # "OK" => SetWhole(sv, g, ts[1]).sv = sv)
    BY <2>6, WholeSets
  <2>8. Moves(SetWhole(sv, g, ts[1]).sv, sv, SetWhole(other, g, ts[1]).sv, other, {Whole(g)})
    BY <2>7, AgreeMoves
  <2> QED
    BY <2>3, <2>4, <2>5, <2>7, <2>8, MovesIn DEF Unchanged
<1>4. CASE name \notin SidedNames /\ name \notin WholeNames
  <2>1. \A v : SetValues(v, decl) = Refuse(v, "UNKNOWN_TYPE")
    BY <1>4 DEF SetValues
  <2> HIDE DEF name, ts
  <2> QED
    BY <2>1, Stays DEF Refuse, Unchanged
<1>5. name \in SidedNames => name \in Shorthands \/ name \in UNION {Sided(g) : g \in SideNames}
  BY DEF SidedNames, SideNames
<1> HIDE DEF Good, name
<1> QED
  BY <1>1, <1>2, <1>3, <1>4, <1>5

-----------------------------------------------------------------------------
(* Lists of declarations, applied to a style.                                *)

\* The families that declarations make of those on a heap, freed or not.
Heaped(heap, decls) ==
    LET made == {[list |-> FamilyOf(decls[i].value).list, loop |-> FamilyOf(decls[i].value).loop,
                  live |-> TRUE] : i \in 1..Len(decls)}
        all  == Range(heap) \cup made
    IN  all \cup {[x EXCEPT !.live = FALSE] : x \in all}

Targets(heap, decls) ==
    {target \in [sv     : Values,
                 family : Nat,
                 heap   : Seq(Heaped(heap, decls)),
                 end    : {"ok", "stuck", "undefined"},
                 status : {"OK"} \cup
                          {SetValues(v, decls[i]).status : v \in Values, i \in 1..Len(decls)}] :
        target.family <= Len(target.heap) /\ Len(target.heap) >= Len(heap)}

Declarations(decls) == Len(decls) \in Nat /\ \A i \in 1..Len(decls) : HasValue(decls[i])

IsTarget(t) == t = [sv |-> t.sv, family |-> t.family, heap |-> t.heap, end |-> t.end,
                    status |-> t.status]

Valued(t, sv, status) == [t EXCEPT !.sv = sv, !.status = status]
Lengthened(t, family, heap) == [t EXCEPT !.status = "OK", !.family = family, !.heap = heap]

LEMMA TargetsAre ==
    ASSUME NEW t, IsTarget(t), NEW sv, NEW status, NEW family, NEW heap
    PROVE  /\ Valued(t, sv, status) = [sv |-> sv, family |-> t.family, heap |-> t.heap,
                                       end |-> t.end, status |-> status]
           /\ Lengthened(t, family, heap) = [sv |-> t.sv, family |-> family, heap |-> heap,
                                             end |-> t.end, status |-> "OK"]
<1> DEFINE a == [t EXCEPT !.sv = sv]
           b == [t EXCEPT !.status = "OK"]
           c == [b EXCEPT !.family = family]
<1>1. a = [sv |-> sv, family |-> t.family, heap |-> t.heap, end |-> t.end, status |-> t.status]
  BY DEF IsTarget
<1>2. b = [sv |-> t.sv, family |-> t.family, heap |-> t.heap, end |-> t.end, status |-> "OK"]
  BY DEF IsTarget
<1>3. Valued(t, sv, status) = [a EXCEPT !.status = status]
  BY DEF Valued
<1>4. Lengthened(t, family, heap) = [c EXCEPT !.heap = heap]
  BY DEF Lengthened
<1> HIDE DEF a, b
<1>5. c = [sv |-> t.sv, family |-> family, heap |-> t.heap, end |-> t.end, status |-> "OK"]
  BY <1>2
<1> HIDE DEF c
<1> QED
  BY <1>1, <1>3, <1>4, <1>5

LEMMA FontFamilyKeeps ==
    ASSUME NEW heap, NEW decls, Declarations(decls), NEW i \in 1..Len(decls),
           NEW target \in Targets(heap, decls)
    PROVE  LET r == SetFontFamily(target, decls[i].value)
           IN  /\ r \in Targets(heap, decls) /\ r.sv = target.sv
               /\ r.status \in {target.status, "OK"}
<1> DEFINE made == FamilyOf(decls[i].value)
           r == SetFontFamily(target, decls[i].value)
           H == Heaped(heap, decls)
           old == target.family
           h == target.heap
           new == [list |-> made.list, loop |-> made.loop, live |-> TRUE]
           freed == IF old = NoFamily THEN h ELSE [h EXCEPT ![old].live = FALSE]
           last == Lengthened(target, Len(h) + 1, Append(freed, new))
<1>1. /\ r = IF made.stuck THEN [target EXCEPT !.end = "stuck"]
             ELSE IF made.list = <<>> THEN [target EXCEPT !.status = "OK"]
             ELSE IF old # NoFamily /\ ~h[old].live THEN [target EXCEPT !.end = "undefined"]
             ELSE IF old # NoFamily /\ h[old].loop THEN [target EXCEPT !.end = "stuck"]
             ELSE last
  BY DEF SetFontFamily, Lengthened
<1>2. /\ h \in Seq(H) /\ old \in Nat /\ old <= Len(h) /\ Len(h) >= Len(heap)
      /\ target.status \in {"OK"} \cup
                          {SetValues(v, decls[j]).status : v \in Values, j \in 1..Len(decls)}
  BY DEF Targets
<1>3. new \in H
  BY DEF Heaped
<1>4. \A x \in H : [x EXCEPT !.live = FALSE] \in H
  BY DEF Heaped
<1> HIDE DEF H, made, new
<1>5. freed \in Seq(H) /\ Len(freed) = Len(h)
  <2>1. CASE old = NoFamily
    BY <1>2, <2>1
  <2>2. CASE old # NoFamily
    <3>1. old \in 1..Len(h)
      BY <1>2, <2>2 DEF NoFamily
    <3>2. h[old] \in H /\ [h[old] EXCEPT !.live = FALSE] \in H
      BY <1>2, <1>4, <3>1
    <3>3. freed = [h EXCEPT ![old] = [h[old] EXCEPT !.live = FALSE]]
      BY <2>2
    <3> QED
      BY <1>2, <3>1, <3>2, <3>3
  <2> QED
    BY <2>1, <2>2
<1> HIDE DEF freed
<1>6. Append(freed, new) \in Seq(H) /\ Len(Append(freed, new)) = Len(h) + 1 /\ Len(h) \in Nat
  BY <1>2, <1>3, <1>5
<1> DEFINE longer == Append(freed, new)
<1> HIDE DEF longer
<1>7. last \in Targets(heap, decls) /\ last.sv = target.sv /\ last.status = "OK"
  <2>1. last = [sv |-> target.sv, family |-> Len(h) + 1, heap |-> longer, end |-> target.end,
                status |-> "OK"]
    <3>1. IsTarget(target)
      BY DEF IsTarget, Targets
    <3> QED
      BY <3>1, TargetsAre DEF longer
  <2>2. longer \in Seq(Heaped(heap, decls)) /\ Len(longer) = Len(h) + 1
    BY <1>6 DEF longer, H
  <2> HIDE DEF last
  <2> QED
    BY <1>2, <1>6, <2>1, <2>2 DEF Targets
<1>8. /\ [target EXCEPT !.end = "stuck"] \in Targets(heap, decls)
      /\ [target EXCEPT !.end = "undefined"] \in Targets(heap, decls)
      /\ [target EXCEPT !.status = "OK"] \in Targets(heap, decls)
  BY DEF Targets
<1>9. /\ [target EXCEPT !.end = "stuck"].sv = target.sv
      /\ [target EXCEPT !.end = "stuck"].status = target.status
      /\ [target EXCEPT !.end = "undefined"].sv = target.sv
      /\ [target EXCEPT !.end = "undefined"].status = target.status
      /\ [target EXCEPT !.status = "OK"].sv = target.sv
      /\ [target EXCEPT !.status = "OK"].status = "OK"
  BY DEF Targets
<1> HIDE DEF r, last
<1> QED
  BY <1>1, <1>7, <1>8, <1>9 DEF r

LEMMA ApplyKeeps ==
    ASSUME NEW heap, NEW decls, Declarations(decls), NEW i \in 1..Len(decls),
           NEW target \in Targets(heap, decls)
    PROVE  Apply(target, decls[i]) \in Targets(heap, decls)
<1> DEFINE decl == decls[i]
           r == SetValues(target.sv, decl)
<1>1. HasValue(decl) /\ target.sv \in Values
  BY DEF Declarations, Targets
<1>2. r.sv \in Values
  <2> HIDE DEF decl
  <2> QED
    BY <1>1, DeclarationSets DEF Moves
<1>3. r.status \in {SetValues(v, decls[j]).status : v \in Values, j \in 1..Len(decls)}
  BY <1>1
<1>4. Apply(target, decl) = IF target.end # "ok" THEN target
        ELSE IF decl.name = Whole("font-family") THEN SetFontFamily(target, decl.value)
        ELSE Valued(target, r.sv, r.status)
  BY DEF Apply, Valued
<1> HIDE DEF r
<1>5. Valued(target, r.sv, r.status) \in Targets(heap, decls)
  <2>1. IsTarget(target)
    BY DEF IsTarget, Targets
  <2>2. Valued(target, r.sv, r.status) = [sv |-> r.sv, family |-> target.family,
           heap |-> target.heap, end |-> target.end, status |-> r.status]
    BY <2>1, TargetsAre
  <2> QED
    BY <1>2, <1>3, <2>2 DEF Targets
<1> QED
  BY <1>4, <1>5, FontFamilyKeeps

ThroughAll(after, target, decls, heap) ==
    /\ after \in [0..Len(decls) -> Targets(heap, decls)] /\ after[0] = target
    /\ \A i \in 1..Len(decls) : after[i] = Apply(after[i - 1], decls[i])
    /\ Applied(target, decls) = after[Len(decls)]

LEMMA AppliedIs ==
    ASSUME NEW heap, NEW decls, Declarations(decls), NEW target \in Targets(heap, decls)
    PROVE  \E after : ThroughAll(after, target, decls, heap)
<1> DEFINE n == Len(decls)
           V == Targets(heap, decls)
           One(v, i) == Apply(v, decls[i])
           step == [x \in (1..n) \X V |-> One(x[2], x[1])]
           Solves(f) == f = [i \in 0..n |-> IF i = 0 THEN target ELSE One(f[i - 1], i)]
           after == CHOOSE f : Solves(f)
<1>1. n \in Nat /\ \A i \in 1..n, v \in V : One(v, i) \in V
  BY ApplyKeeps DEF Declarations
<1>2. Applied(target, decls) = after[n]
  BY DEF Applied
<1>3. target \in V
  OBVIOUS
<1> HIDE DEF n, V, One
<1>4. step \in [(1..n) \X V -> V]
  BY <1>1
<1>5. PICK f : f \in Recursion(n, V, target, step)
  BY <1>1, <1>3, <1>4, RecursionHasSolution
<1>6. f \in [0..n -> V] /\ f[0] = target /\ \A i \in 1..n : f[i] = One(f[i - 1], i)
  <2>1. f \in [0..n -> V] /\ f[0] = target /\ \A i \in 1..n : f[i] = step[<<i, f[i - 1]>>]
    BY <1>5 DEF Recursion
  <2>2. \A i \in 1..n : f[i - 1] \in V
    BY <1>1, <2>1
  <2> QED
    BY <2>1, <2>2
<1>7. Solves(f)
  <2>1. \A i \in 0..n : f[i] = IF i = 0 THEN target ELSE One(f[i - 1], i)
    BY <1>1, <1>6
  <2> QED
    BY <1>6, <2>1
<1> HIDE DEF step
<1>8. Solves(after)
  <2> HIDE DEF Solves
  <2> QED
    BY <1>7
<1> HIDE DEF after
<1>9. DOMAIN after = 0..n /\ after[0] = target /\ \A i \in 1..n : after[i] = One(after[i - 1], i)
  BY <1>1, <1>8
<1>10. 0..n \subseteq {i \in 0..n : after[i] \in V}
  <2> DEFINE T == {i \in 0..n : after[i] \in V}
  <2>1. 0 \in T /\ \A i \in 0..n-1 : i \in T => i + 1 \in T
    BY <1>1, <1>3, <1>9
  <2> HIDE DEF T
  <2> QED
    BY <1>1, <2>1, InductionUpTo DEF T
<1>11. after \in [0..n -> V]
  BY <1>8, <1>10
<1> QED
  BY <1>2, <1>9, <1>11 DEF ThroughAll, n, V, One

-----------------------------------------------------------------------------
(* Types.                                                                    *)

Computed == {cv \in [ComputedFields -> Nums \cup Colours \cup Sizes] :
                \A f \in ComputedFields : Held(cv[f], f)}

Typed(st, n) == /\ st.sv \in Values /\ st.cv \in Computed
                /\ st.family \in 0..n /\ st.refs \in 0..MaxRefs

Types ==
    /\ IsSequence(families)
    /\ calls \in 0..MaxCalls
    /\ \A s \in live : Typed(style[s], Len(families))

LEMMA FirstWords ==
    /\ "none" \in WordsOf("border-style") /\ "none" \in WordsOf("display")
    /\ "none" \in WordsOf("float")
    /\ "inline" \in WordsOf("display") /\ "block" \in WordsOf("display")
    /\ "static" \in WordsOf("position")
    /\ {"unset", "normal", "inherit"} \subseteq WordsOf("font-weight")
    /\ \A g \in {"font-style", "font-variant", "font-stretch", "white-space"} :
          {"normal", "inherit"} \subseteq WordsOf(g)
<1>1. /\ 1 \in DOMAIN BorderStyles /\ BorderStyles[1] = "none"
      /\ 1 \in DOMAIN DisplayWords /\ DisplayWords[1] = "none"
      /\ 2 \in DOMAIN DisplayWords /\ DisplayWords[2] = "inline"
      /\ 3 \in DOMAIN DisplayWords /\ DisplayWords[3] = "block"
      /\ 1 \in DOMAIN PositionWords /\ PositionWords[1] = "static"
      /\ 1 \in DOMAIN FloatWords /\ FloatWords[1] = "none"
  BY DEF BorderStyles, DisplayWords, PositionWords, FloatWords
<1>2. /\ "none" \in Range(BorderStyles) /\ "none" \in Range(FloatWords)
      /\ {"none", "inline", "block"} \subseteq Range(DisplayWords)
      /\ "static" \in Range(PositionWords)
  BY <1>1 DEF Range
<1>3. {"unset", "normal", "inherit"} \subseteq WordsOf("font-weight")
  BY DEF WordsOf, FontWeights
<1>4. \A g \in {"font-style", "font-variant", "font-stretch", "white-space"} :
         {"normal", "inherit"} \subseteq WordsOf(g)
  BY DEF WordsOf, FontStyles, WhiteSpaces
<1> QED
  BY <1>2, <1>3, <1>4 DEF WordsOf

LEMMA SizeHeld ==
    /\ ZeroSize \in Sizes
    /\ Num("inherit", 0) \in Sizes /\ Num("medium", 0) \in Sizes
  BY DEF ZeroSize, Num, Sizes, NumTypes, FontSizeWords

LEMMA ValuesFrom ==
    ASSUME NEW sv, sv = [f \in Fields |-> sv[f]], \A f \in Fields : Held(sv[f], f)
    PROVE  sv \in Values
<1>1. \A f \in Fields : sv[f] \in Nums \cup Colours \cup AllWords \cup Sizes
  BY DEF Held, Fields, AllWords
<1> QED
  BY <1>1 DEF Values

LEMMA ZeroTyped == ZeroValues \in Values
<1>1. ASSUME NEW f \in Fields PROVE Held(ZeroValues[f], f)
  <2>1. CASE f \in NumFields
    <3>1. /\ f \notin RgbFields /\ f # FontSize
          /\ f[1] \in {"width", "offset", "padding", "border-width", "margin"}
      BY <2>1, FieldKinds
    <3>2. ZeroValues[f] = ZeroNum
      BY <1>1, <2>1, <3>1 DEF ZeroValues
    <3> QED
      BY <1>1, <2>1, <3>2, HeldOf, NumHeld DEF ZeroNum
  <2>2. CASE f \in RgbFields
    <3>1. /\ f \notin NumFields /\ f # FontSize /\ ZeroRgb \in Colours
          /\ f[1] \in {"color", "background-color", "border-color"}
      BY <2>2, FieldKinds, TintHeld
    <3>2. ZeroValues[f] = ZeroRgb
      BY <1>1, <2>2, <3>1 DEF ZeroValues
    <3> QED
      BY <1>1, <2>2, <3>1, <3>2, HeldOf
  <2>3. CASE f = FontSize
    <3>1. f \notin NumFields /\ f \notin RgbFields /\ f[1] = "font-size"
      BY <2>3, FieldKinds
    <3>2. ZeroValues[f] = ZeroSize
      BY <1>1, <2>3, <3>1 DEF ZeroValues
    <3> QED
      BY <1>1, <2>3, <3>2, HeldOf, SizeHeld
  <2>4. CASE f \in KeyFields
    <3>1. f \notin NumFields /\ f \notin RgbFields /\ f # FontSize
      BY <2>4, FieldKinds
    <3>2. f[1] \in {"border-style", "display", "position", "float", "font-style", "font-variant",
                    "font-weight", "font-stretch", "white-space"}
      BY <2>4, FieldKinds
    <3>3. ZeroValues[f] = CASE f[1] \in {"border-style", "display", "float"} -> "none"
          [] f[1] = "position"    -> "static"
          [] f[1] = "font-weight" -> "unset"
          [] OTHER -> "normal"
      BY <1>1, <3>1, <3>2 DEF ZeroValues
    <3>4. ZeroValues[f] \in WordsOf(f[1])
      BY <3>2, <3>3, FirstWords
    <3> QED
      BY <1>1, <2>4, <3>4, HeldOf
  <2> QED
    BY <1>1, <2>1, <2>2, <2>3, <2>4 DEF Fields
<1>2. ZeroValues = [f \in Fields |-> ZeroValues[f]]
  BY DEF ZeroValues
<1> QED
  BY <1>1, <1>2, ValuesFrom

LEMMA DefaultsHeld ==
    ASSUME NEW f \in Fields \ Kept
    PROVE  Held(Defaults[f], f)
<1>0. Defaults[f] =
        CASE f[1] \in {"offset", "width"} -> Num("auto", 0)
          [] f[1] \in {"padding", "border-width", "margin"} -> Num("px", 0)
          [] f[1] = "background-color" -> StandardColors["transparent"]
          [] f[1] \in {"border-color", "color"} -> ZeroRgb
          [] f[1] \in {"border-style", "float"} -> "none"
          [] f[1] = "display"  -> "inline"
          [] f[1] = "position" -> "static"
          [] f[1] \in {"font-style", "font-variant", "font-weight"} -> "inherit"
          [] f[1] = "font-size" -> Num("inherit", 0)
  BY DEF Defaults
<1>1. CASE f \in NumFields
  <2>1. f[1] \in {"width", "offset", "padding", "border-width", "margin"}
    BY <1>1, FieldKinds
  <2>2. Defaults[f] \in Nums
    BY <1>0, <2>1, NumHeld
  <2> QED
    BY <1>1, <2>2, HeldOf
<1>2. CASE f \in RgbFields
  <2>1. f[1] \in {"color", "background-color", "border-color"}
    BY <1>2, FieldKinds
  <2>2. Defaults[f] \in Colours
    BY <1>0, <2>1, TintHeld
  <2> QED
    BY <1>2, <2>2, HeldOf
<1>3. CASE f = FontSize
  <2>1. f[1] = "font-size"
    BY <1>3, FieldKinds
  <2>2. Defaults[f] = Num("inherit", 0)
    BY <1>0, <2>1
  <2> QED
    BY <1>3, <2>2, HeldOf, SizeHeld
<1>4. CASE f \in KeyFields
  <2>1. f[1] \in {"border-style", "display", "position", "float", "font-style", "font-variant",
                  "font-weight"}
    BY <1>4, FieldKinds DEF Kept
  <2>2. Defaults[f] \in WordsOf(f[1])
    BY <1>0, <2>1, FirstWords
  <2> QED
    BY <1>4, <2>2, HeldOf
<1> QED
  BY <1>1, <1>2, <1>3, <1>4 DEF Fields

LEMMA DefaultTyped ==
    ASSUME NEW sv \in Values
    PROVE  /\ DefaultValues(sv) \in Values
           /\ \A other \in Values : \A f \in Fields \ Kept :
                 Same(DefaultValues(sv), DefaultValues(other), f)
<1> DEFINE d == DefaultValues(sv)
<1>1. /\ Whole("color") \in RgbFields /\ Whole("color") \in Fields /\ Whole("color") \notin Kept
      /\ Kept \subseteq Fields
  <2>1. Whole("color") \in RgbFields /\ Kept \subseteq KeyFields
    BY FieldKinds DEF Kept
  <2> QED
    BY <2>1, FieldKinds DEF Fields
<1>2. \A v : DefaultValues(v) = [f \in Fields |->
        IF f \in Kept THEN v[f]
        ELSE IF f = Whole("color") THEN [v[f] EXCEPT !.inherit = TRUE]
        ELSE Defaults[f]]
  BY DEF DefaultValues
<1>3. \A v \in Values : /\ [v[Whole("color")] EXCEPT !.inherit = TRUE] \in Colours
                        /\ [v[Whole("color")] EXCEPT !.inherit = TRUE].inherit = TRUE
  <2> TAKE v \in Values
  <2>1. v[Whole("color")] \in Colours
    BY <1>1 DEF Values, Held
  <2> QED
    BY <2>1 DEF Colours
<1>4. ASSUME NEW f \in Fields PROVE Held(d[f], f)
  <2>1. CASE f \in Kept
    BY <1>2, <1>4, <2>1 DEF Values
  <2>2. CASE f = Whole("color")
    BY <1>1, <1>2, <1>3, <1>4, <2>2, HeldOf
  <2>3. CASE f \notin Kept /\ f # Whole("color")
    BY <1>2, <1>4, <2>3, DefaultsHeld
  <2> QED
    BY <2>1, <2>2, <2>3
<1>5. d = [f \in Fields |-> d[f]]
  BY <1>2
<1>6. ASSUME NEW other \in Values, NEW f \in Fields \ Kept
      PROVE  Same(d, DefaultValues(other), f)
  <2>1. CASE f = Whole("color")
    <3>1. /\ d[f] = [sv[Whole("color")] EXCEPT !.inherit = TRUE]
          /\ DefaultValues(other)[f] = [other[Whole("color")] EXCEPT !.inherit = TRUE]
      BY <1>1, <1>2, <2>1
    <3>2. d[f].inherit /\ DefaultValues(other)[f].inherit
      BY <1>3, <3>1
    <3> QED
      BY <1>1, <2>1, <3>2 DEF Same
  <2>2. CASE f # Whole("color")
    BY <1>2, <1>6, <2>2 DEF Same
  <2> QED
    BY <2>1, <2>2
<1> HIDE DEF d
<1> QED
  BY <1>4, <1>5, <1>6, ValuesFrom DEF d

LEMMA InitialTyped == InitialValues \in Values
<1>1. ASSUME NEW f \in Fields PROVE Held(InitialValues[f], f)
  <2>0. InitialValues[f] =
        CASE f[1] = "width" -> Num("px", 800)
          [] f[1] = "display" -> "block"
          [] f[1] \in {"font-style", "font-variant", "font-weight", "font-stretch", "white-space"}
               -> "normal"
          [] f[1] = "font-size" -> Num("medium", 0)
          [] OTHER -> Defaults[f]
    BY <1>1 DEF InitialValues
  <2>1. CASE f[1] = "width"
    <3>1. f \in NumFields
      BY <1>1, <2>1, FieldKinds DEF Fields
    <3> QED
      BY <1>1, <2>0, <2>1, <3>1, HeldOf, NumHeld
  <2>2. CASE f[1] \in {"display", "font-style", "font-variant", "font-weight", "font-stretch",
                       "white-space"}
    <3>1. f \in KeyFields
      BY <1>1, <2>2, FieldKinds DEF Fields
    <3>2. InitialValues[f] \in WordsOf(f[1])
      BY <2>0, <2>2, FirstWords
    <3> QED
      BY <1>1, <3>1, <3>2, HeldOf
  <2>3. CASE f[1] = "font-size"
    <3>1. f = FontSize
      BY <1>1, <2>3, FieldKinds DEF Fields
    <3> QED
      BY <1>1, <2>0, <2>3, <3>1, HeldOf, SizeHeld
  <2>4. CASE f[1] \notin {"width", "display", "font-style", "font-variant", "font-weight",
                          "font-stretch", "white-space", "font-size"}
    <3>1. f \notin Kept
      <4>1. <<"white-space", "">>[1] = "white-space" /\ <<"font-stretch", "">>[1] = "font-stretch"
        OBVIOUS
      <4>2. f # <<"white-space", "">> /\ f # <<"font-stretch", "">>
        BY <2>4, <4>1
      <4> QED
        BY <4>2 DEF Kept, Whole
    <3>2. InitialValues[f] = Defaults[f]
      BY <2>0, <2>4
    <3> QED
      BY <1>1, <3>1, <3>2, DefaultsHeld
  <2> QED
    BY <2>1, <2>2, <2>3, <2>4
<1>2. InitialValues = [f \in Fields |-> InitialValues[f]]
  BY DEF InitialValues
<1> QED
  BY <1>1, <1>2, ValuesFrom

LEMMA HeapIs ==
    ASSUME NEW H, NEW heap \in Seq(H)
    PROVE  IsSequence(heap) /\ Len(heap) \in Nat
<1>1. /\ Len(heap) \in Nat /\ heap = [i \in 1..Len(heap) |-> heap[i]]
      /\ \A i \in 1..Len(heap) : heap[i] \in Range(heap)
  BY DEF Range
<1> HIDE DEF Range
<1>2. [i \in 1..Len(heap) |-> heap[i]] \in Seq(Range(heap))
  BY <1>1, IsASeq
<1> QED
  BY <1>1, <1>2 DEF IsSequence

LEMMA HeapGrows ==
    ASSUME NEW H, NEW heap, IsSequence(heap), Range(heap) \subseteq H
    PROVE  heap \in Seq(H)
<1>1. /\ Len(heap) \in Nat /\ heap = [i \in 1..Len(heap) |-> heap[i]]
      /\ \A i \in 1..Len(heap) : heap[i] \in H
  BY DEF IsSequence, Range
<1>2. [i \in 1..Len(heap) |-> heap[i]] \in Seq(H)
  BY <1>1, IsASeq
<1> QED
  BY <1>1, <1>2

LEMMA ZeroStyleTyped ==
    ASSUME NEW n \in Nat
    PROVE  Typed(ZeroStyle, n) /\ IsStyle(ZeroStyle)
<1>1. ZeroValues \in Values /\ \A f \in ComputedFields : Held(ZeroValues[f], f)
  BY ZeroTyped DEF ComputedFields, Values, Fields
<1>2. \A f \in ComputedFields : ZeroValues[f] \in Nums \cup Colours \cup Sizes
  BY <1>1 DEF ComputedFields, Held
<1>3. [f \in ComputedFields |-> ZeroValues[f]] \in Computed
  BY <1>1, <1>2 DEF Computed
<1>4. 0 \in 0..MaxRefs /\ 0 \in 0..n
  BY StyleAssumption
<1> QED
  BY <1>1, <1>3, <1>4 DEF Typed, IsStyle, ZeroStyle, NoFamily

LEMMA ResetTyped ==
    ASSUME NEW n \in Nat, NEW st, IsStyle(st), Typed(st, n), NEW initial
    PROVE  Typed(Reset(st, initial), n)
<1> DEFINE r == Reset(st, initial)
           cv == [st.cv EXCEPT ![FontSize] = ZeroSize]
<1>1. CASE initial
  <2>1. r = [sv |-> InitialValues, cv |-> st.cv, parent |-> st.parent, family |-> st.family,
             resolved |-> FALSE, refs |-> st.refs]
    BY <1>1 DEF Reset, IsStyle
  <2> HIDE DEF r
  <2>2. Typed(r, n)
    BY <2>1, InitialTyped DEF Typed
  <2> QED
    BY <2>2 DEF r
<1>2. CASE ~initial
  <2>1. r = [sv |-> DefaultValues(st.sv), cv |-> cv, parent |-> NoStyle, family |-> NoFamily,
             resolved |-> FALSE, refs |-> st.refs]
    BY <1>2 DEF Reset, IsStyle
  <2>2. cv \in Computed
    <3>1. FontSize \in ComputedFields /\ FontSize \in Fields
      BY DEF ComputedFields, Fields
    <3>2. Held(ZeroSize, FontSize)
      BY <3>1, SizeHeld, HeldOf
    <3> QED
      BY <3>1, <3>2, SizeHeld DEF Typed, Computed
  <2>3. DefaultValues(st.sv) \in Values
    BY DefaultTyped DEF Typed
  <2> HIDE DEF r, cv
  <2>4. Typed(r, n)
    BY <2>1, <2>2, <2>3 DEF Typed, NoFamily
  <2> QED
    BY <2>4 DEF r
<1> QED
  BY <1>1, <1>2

TakenOver(st, sv, cv, family) ==
    [st EXCEPT !.sv = sv, !.cv = cv, !.family = family, !.resolved = TRUE]

LEMMA TakenOverIs ==
    ASSUME NEW st, IsStyle(st), NEW sv, NEW cv, NEW family
    PROVE  TakenOver(st, sv, cv, family) =
              [sv |-> sv, cv |-> cv, parent |-> st.parent, family |-> family, resolved |-> TRUE,
               refs |-> st.refs]
<1> DEFINE a == [st EXCEPT !.sv = sv]
           b == [a EXCEPT !.cv = cv]
           c == [b EXCEPT !.family = family]
<1>1. TakenOver(st, sv, cv, family) = [c EXCEPT !.resolved = TRUE]
  BY DEF TakenOver
<1>2. a = [sv |-> sv, cv |-> st.cv, parent |-> st.parent, family |-> st.family,
           resolved |-> st.resolved, refs |-> st.refs]
  BY DEF IsStyle
<1> HIDE DEF a
<1>3. b = [sv |-> sv, cv |-> cv, parent |-> st.parent, family |-> st.family,
           resolved |-> st.resolved, refs |-> st.refs]
  BY <1>2
<1> HIDE DEF b
<1>4. c = [sv |-> sv, cv |-> cv, parent |-> st.parent, family |-> family,
           resolved |-> st.resolved, refs |-> st.refs]
  BY <1>3
<1> HIDE DEF c
<1> QED
  BY <1>1, <1>4

LEMMA ResolvedTyped ==
    ASSUME NEW n \in Nat, NEW st, IsStyle(st), Typed(st, n), NEW up, IsStyle(up), Typed(up, n)
    PROVE  Typed(Resolved(st, up), n)
<1> DEFINE r == Resolved(st, up)
           Inherits(f) ==
               IF f \in RgbFields THEN st.sv[f].inherit ELSE st.sv[f].type = "inherit"
           sv == [f \in Fields |-> IF f \in InheritedKeys /\ st.sv[f] = "inherit"
                                   THEN up.sv[f] ELSE st.sv[f]]
           cv == [f \in ComputedFields |-> IF Inherits(f) THEN up.cv[f] ELSE st.cv[f]]
           family == IF st.family = NoFamily THEN up.family ELSE st.family
<1>1. r = TakenOver(st, sv, cv, family)
  BY DEF Resolved, TakenOver
<1>2. sv \in Values
  BY DEF Typed, Values
<1> HIDE DEF Inherits
<1>3. cv \in Computed
  BY DEF Typed, Computed
<1>4. family \in 0..n /\ st.refs \in 0..MaxRefs
  BY DEF Typed
<1> HIDE DEF sv, cv, r, family
<1>5. Typed(r, n)
  BY <1>1, <1>2, <1>3, <1>4, TakenOverIs DEF Typed
<1> QED
  BY <1>5 DEF r

LEMMA TargetHeld ==
    ASSUME NEW st, st.sv \in Values, NEW heap, IsSequence(heap), st.family \in 0..Len(heap),
           NEW decls
    PROVE  Target(st, heap) \in Targets(heap, decls)
<1> DEFINE H == Heaped(heap, decls)
<1>1. Range(heap) \subseteq H
  BY DEF Heaped
<1> HIDE DEF H
<1>2. heap \in Seq(H) /\ Len(heap) \in Nat
  BY <1>1, HeapGrows, HeapIs DEF IsSequence
<1> QED
  BY <1>2 DEF H, Target, Targets

LEMMA PopulateTyped ==
    ASSUME IsSequence(families), NEW st, IsStyle(st), Typed(st, Len(families)),
           NEW decls, Declarations(decls), NEW s, Populate(s, st, decls)
    PROVE  /\ IsSequence(families') /\ Len(families') \in Nat /\ Len(families') >= Len(families)
           /\ \E new : Fill(s, new) /\ IsStyle(new) /\ Typed(new, Len(families'))
                       /\ new.parent = st.parent
<1> DEFINE target == Applied(Target(st, families), decls)
           new == Filled(st, target.sv, target.family)
<1>1. target \in Targets(families, decls)
  <2>1. Target(st, families) \in Targets(families, decls)
    BY TargetHeld DEF Typed
  <2>2. PICK after : ThroughAll(after, Target(st, families), decls, families)
    BY <2>1, AppliedIs
  <2> QED
    BY <2>2 DEF ThroughAll, Declarations
<1>2. families' = target.heap /\ Fill(s, new)
  BY DEF Populate, Filled
<1> HIDE DEF target, new
<1>3. IsSequence(families') /\ Len(families') \in Nat /\ Len(families') >= Len(families)
  BY <1>1, <1>2, HeapIs DEF Targets
<1>4. /\ IsStyle(new) /\ new.sv = target.sv /\ new.family = target.family
      /\ new.parent = st.parent /\ new.cv = st.cv /\ new.refs = st.refs
  BY PopulatedIs DEF new
<1>5. target.sv \in Values /\ target.family \in 0..Len(families')
  BY <1>1, <1>2, <1>3 DEF Targets
<1>6. Typed(new, Len(families'))
  BY <1>4, <1>5 DEF Typed
<1> QED
  BY <1>2, <1>3, <1>4, <1>6

LEMMA StaysTyped ==
    ASSUME NEW st, NEW m \in Nat, Typed(st, m), NEW n \in Nat, n >= m
    PROVE  Typed(st, n)
  BY DEF Typed

LEMMA FillTyped ==
    ASSUME Shapes, Types, NEW s \in Styles, NEW st, Fill(s, st), IsSequence(families'),
           Len(families') \in Nat, Len(families') >= Len(families), Typed(st, Len(families')),
           calls' \in 0..MaxCalls
    PROVE  Types'
<1>1. /\ live' = live \cup {s} /\ style'[s] = st
      /\ \A t \in live \ {s} : style'[t] = style[t] /\ Typed(style[t], Len(families))
  BY DEF Fill, Shapes, Types
<1>2. Len(families) \in Nat
  BY HeapIs DEF Types, IsSequence
<1>3. \A t \in live' : Typed(style'[t], Len(families'))
  BY <1>1, <1>2, StaysTyped
<1> QED
  BY <1>3 DEF Types, IsSequence, Typed

LEMMA SameTypes ==
    ASSUME Shapes, Types, UNCHANGED families, calls' \in 0..MaxCalls,
           live' \subseteq live, \A s \in live' : Typed(style'[s], Len(families))
    PROVE  Types'
  BY DEF Types, IsSequence, Typed

LEMMA CountTyped ==
    ASSUME Shapes, NEW s \in Styles, NEW m \in Nat, Typed(style[s], m), NEW n \in 0..MaxRefs
    PROVE  Typed([style EXCEPT ![s].refs = n][s], m)
<1>1. [style EXCEPT ![s].refs = n][s] = [style[s] EXCEPT !.refs = n] /\ IsStyle(style[s])
  BY DEF Shapes
<1> DEFINE st == style[s]
           new == [st EXCEPT !.refs = n]
<1>2. new = [sv |-> st.sv, cv |-> st.cv, parent |-> st.parent, family |-> st.family,
             resolved |-> st.resolved, refs |-> n]
  BY <1>1 DEF IsStyle
<1>3. Typed(st, m)
  OBVIOUS
<1> HIDE DEF st, new
<1>4. Typed(new, m)
  BY <1>2, <1>3 DEF Typed
<1> QED
  BY <1>1, <1>4 DEF new, st

LEMMA ListsAre ==
    /\ \A s \in Styles : \A props \in PropLists[s] : Declarations(props)
    /\ \A s \in Styles : \A decl \in Decls[s] : Declarations(<<decl>>)
<1>1. ASSUME NEW s \in Styles, NEW props \in PropLists[s] PROVE Declarations(props)
  <2>1. props \in Seq(Range(props)) /\ \A i \in DOMAIN props : HasValue(props[i])
    BY StyleAssumption DEF IsSequence
  <2> HIDE DEF HasValue
  <2>2. Len(props) \in Nat /\ DOMAIN props = 1..Len(props)
    BY <2>1, LenProperties
  <2> QED
    BY <2>1, <2>2 DEF Declarations
<1>2. ASSUME NEW s \in Styles, NEW decl \in Decls[s] PROVE Declarations(<<decl>>)
  <2>1. HasValue(decl)
    BY StyleAssumption
  <2>2. Len(<<decl>>) = 1 /\ <<decl>>[1] = decl
    OBVIOUS
  <2> QED
    BY <2>1, <2>2 DEF Declarations
<1> QED
  BY <1>1, <1>2

LEMMA NextTyped ==
    ASSUME Shapes, Types, [Next]_vars
    PROVE  Types'
<1>1. /\ \A s \in Styles : IsStyle(style[s])
      /\ \A s \in live : s \in Styles /\ Typed(style[s], Len(families))
      /\ IsSequence(families) /\ Len(families) \in Nat /\ calls \in 0..MaxCalls
  BY HeapIs DEF Shapes, Types, IsSequence
<1>2. Typed(ZeroStyle, Len(families)) /\ IsStyle(ZeroStyle)
  BY <1>1, ZeroStyleTyped
<1>3. MaxCalls \in Nat /\ MaxRefs \in Nat
  BY StyleAssumption
<1>4. Counted => calls' \in 0..MaxCalls
  BY <1>1, <1>3 DEF Counted
<1>5. ASSUME NEW s \in Styles, NEW initial, New(s, initial) PROVE Types'
  <2> DEFINE st == Reset(ZeroStyle, initial)
  <2>1. Fill(s, st) /\ Counted /\ families' = families
    BY <1>5 DEF New
  <2>2. Typed(st, Len(families'))
    BY <1>1, <1>2, <2>1, ResetTyped
  <2> HIDE DEF st
  <2> QED
    BY <1>1, <1>4, <2>1, <2>2, FillTyped DEF IsSequence
<1>6. ASSUME NEW s \in Styles, NEW initial, NEW props \in PropLists[s],
             GetMatchedStyle(s, initial, props)
      PROVE  Types'
  <2>1. CASE props = <<>>
    <3>1. UNCHANGED <<live, style, families, calls>>
      BY <1>6, <2>1 DEF GetMatchedStyle
    <3> QED
      BY <1>1, <3>1, SameTypes
  <2>2. CASE props # <<>>
    <3> DEFINE old == IF s \in live THEN style[s] ELSE ZeroStyle
               reset == Reset(old, initial)
               st == [reset EXCEPT !.parent = ParentOf[s]]
    <3>1. Populate(s, st, props) /\ calls' = calls
      BY <1>6, <2>2 DEF GetMatchedStyle
    <3>2. IsStyle(old) /\ Typed(old, Len(families))
      BY <1>1, <1>2
    <3> HIDE DEF old
    <3>3. IsStyle(reset) /\ Typed(reset, Len(families))
      BY <1>1, <3>2, ResetIs, ResetTyped
    <3> HIDE DEF reset
    <3>4. IsStyle(st) /\ Typed(st, Len(families))
      BY <3>3, GivenParent DEF Typed
    <3> HIDE DEF st
    <3>5. Declarations(props)
      BY ListsAre
    <3>6. /\ IsSequence(families') /\ Len(families') \in Nat /\ Len(families') >= Len(families)
          /\ \E new : Fill(s, new) /\ Typed(new, Len(families'))
      BY <1>1, <3>1, <3>4, <3>5, PopulateTyped
    <3> QED
      BY <1>1, <3>1, <3>6, FillTyped
  <2> QED
    BY <2>1, <2>2
<1>7. ASSUME NEW s \in Styles, NEW decl \in Decls[s], SetStyleFromDecl(s, decl) PROVE Types'
  <2>1. Populate(s, style[s], <<decl>>) /\ Counted /\ s \in live
    BY <1>7 DEF SetStyleFromDecl
  <2>2. Declarations(<<decl>>)
    BY ListsAre
  <2>3. /\ IsSequence(families') /\ Len(families') \in Nat /\ Len(families') >= Len(families)
        /\ \E new : Fill(s, new) /\ Typed(new, Len(families'))
    BY <1>1, <2>1, <2>2, PopulateTyped
  <2> QED
    BY <1>4, <2>1, <2>3, FillTyped
<1>8. ASSUME NEW s \in Styles, ResolveInheritedProperties(s) PROVE Types'
  <2> DEFINE up == style[s].parent
  <2>1. /\ s \in live /\ UNCHANGED <<live, families, calls>> /\ up \in live
        /\ style' = IF style[s].resolved THEN style
                    ELSE [style EXCEPT ![s] = Resolved(@, style[up])]
    BY <1>8 DEF ResolveInheritedProperties, Shapes
  <2>2. Typed(Resolved(style[s], style[up]), Len(families))
    BY <1>1, <2>1, ResolvedTyped
  <2>3. \A t \in live' : Typed(style'[t], Len(families))
    BY <1>1, <2>1, <2>2 DEF Shapes
  <2> QED
    BY <1>1, <2>1, <2>3, SameTypes
<1>9. ASSUME NEW s \in Styles, NEW t \in Styles, Copy(s, t) \/ Dup(s, t) PROVE Types'
  <2>1. t \in live /\ Fill(s, style[t]) /\ Counted /\ families' = families
    BY <1>9 DEF Copy, Dup
  <2>2. Typed(style[t], Len(families'))
    BY <1>1, <2>1
  <2> QED
    BY <1>1, <1>4, <2>1, <2>2, FillTyped DEF IsSequence
<1>10. ASSUME NEW s \in live, NEW n \in 0..MaxRefs, style' = [style EXCEPT ![s].refs = n],
              UNCHANGED <<live, families>>, calls' \in 0..MaxCalls
       PROVE  Types'
  <2>1. Typed(style'[s], Len(families))
    BY <1>1, <1>10, CountTyped
  <2>2. \A t \in live' : Typed(style'[t], Len(families))
    BY <1>1, <1>10, <2>1 DEF Shapes
  <2> QED
    BY <1>10, <2>2, SameTypes
<1>11. ASSUME NEW s \in Styles, Free(s), UNCHANGED <<families, calls>> PROVE Types'
  <2>1. live' \subseteq live /\ \A t \in live' : style'[t] = style[t]
    BY <1>1, <1>11 DEF Free, Shapes
  <2> QED
    BY <1>1, <1>11, <2>1, SameTypes
<1>12. ASSUME NEW s \in Styles, Ref(s) PROVE Types'
  <2>1. /\ s \in live /\ style[s].refs < MaxRefs /\ style[s].refs \in 0..MaxRefs
        /\ style' = [style EXCEPT ![s].refs = style[s].refs + 1]
        /\ Counted /\ UNCHANGED <<live, families>>
    BY <1>1, <1>12 DEF Ref, Typed, Shapes
  <2>2. style[s].refs + 1 \in 0..MaxRefs
    BY <1>3, <2>1
  <2> QED
    BY <1>4, <1>10, <2>1, <2>2
<1>13. ASSUME NEW s \in Styles, Unref(s) PROVE Types'
  <2> DEFINE left == Dropped(style[s].refs)
  <2>1. s \in live /\ UNCHANGED <<families, calls>>
    BY <1>13 DEF Unref
  <2>2. CASE left = 0
    BY <1>11, <1>13, <2>1, <2>2 DEF Unref
  <2>3. CASE left # 0
    <3>1. style[s].refs \in 0..MaxRefs
      BY <1>1, <2>1 DEF Typed
    <3>2. left \in 0..MaxRefs
      BY <1>3, <3>1 DEF Dropped
    <3>3. style' = [style EXCEPT ![s].refs = left] /\ live' = live
      BY <1>13, <2>3 DEF Unref
    <3> HIDE DEF left
    <3> QED
      BY <1>1, <1>10, <2>1, <3>2, <3>3
  <2> QED
    BY <2>2, <2>3
<1>14. ASSUME NEW s \in Styles, Destroy(s) PROVE Types'
  BY <1>11, <1>14 DEF Destroy
<1>15. CASE UNCHANGED vars
  BY <1>1, <1>15, SameTypes DEF vars
<1> QED
  BY <1>5, <1>6, <1>7, <1>8, <1>9, <1>12, <1>13, <1>14, <1>15 DEF Next

LEMMA InitialTypes == Init => Types
<1> SUFFICES ASSUME Init PROVE Types
  OBVIOUS
<1>1. live = {} /\ families = <<>> /\ calls = 0 /\ 0 \in 0..MaxCalls
  BY StyleAssumption DEF Init
<1>2. IsSequence(<<>>)
  BY EmptySeq DEF IsSequence
<1> QED
  BY <1>1, <1>2 DEF Types

\* Whatever is declared, a style holds values of its fields and a count in range, however
\* often it is filled, resolved, copied and given up.
THEOREM StylesAreTyped == Spec => []TypeOK
<1>1. Shapes /\ History /\ Types => TypeOK
  <2> SUFFICES ASSUME Shapes, History, Types PROVE TypeOK
    OBVIOUS
  <2>1. settled \cup pending \subseteq live /\ calls \in 0..MaxCalls
    BY DEF History, Types
  <2>2. ASSUME NEW s \in live
        PROVE  /\ DOMAIN style[s].sv = Fields /\ \A f \in Fields : Held(style[s].sv[f], f)
               /\ DOMAIN style[s].cv = ComputedFields
               /\ \A f \in ComputedFields : Held(style[s].cv[f], f)
               /\ style[s].parent \in Styles \cup {NoStyle}
               /\ style[s].family \in 0..Len(families)
               /\ style[s].refs \in 0..MaxRefs
    <3>1. style[s].parent \in Styles \cup {NoStyle}
      BY DEF Shapes
    <3> QED
      BY <3>1 DEF Types, Typed, Values, Computed
  <2> QED
    BY <2>1, <2>2 DEF TypeOK
<1>2. Init => Shapes /\ History /\ Types
  BY InitialHistory, InitialTypes
<1>3. Shapes /\ History /\ Types /\ [Next]_vars => (Shapes /\ History /\ Types)'
  BY NextKeeps, NextTyped
<1> QED
  BY <1>1, <1>2, <1>3, PTL DEF Spec

-----------------------------------------------------------------------------
(* The sides of a border.                                                    *)

LEMMA BorderWritesList ==
    ASSUME NEW n \in 1..4
    PROVE  LET w == BorderWrites(n)
           IN  /\ Len(w) = IF n = 1 THEN 4 ELSE n + 4
               /\ \A i \in 1..4 : w[i] = Write(Dirs[i], 1)
               /\ n >= 2 => w[5] = Write("right", 2) /\ w[6] = Write("left", 2)
               /\ n >= 3 => w[7] = Write("bottom", 3)
               /\ n >= 4 => w[8] = Write("left", 4)
<1> DEFINE S == [dir : Sides, term : 1..4]
           two == IF n >= 2 THEN <<Write("right", 2), Write("left", 2)>> ELSE <<>>
           three == IF n >= 3 THEN <<Write("bottom", 3)>> ELSE <<>>
           four == IF n >= 4 THEN <<Write("left", 4)>> ELSE <<>>
           a == All(1) \o two
           b == a \o three
           c == b \o four
<1>1. /\ All(1) \in Seq(S) /\ Len(All(1)) = 4
      /\ \A i \in 1..4 : All(1)[i] = Write(Dirs[i], 1)
  BY FourSides
<1>2. /\ Write("right", 2) \in S /\ Write("left", 2) \in S /\ Write("bottom", 3) \in S
      /\ Write("left", 4) \in S
  BY DEF Write, Sides
<1>3. BorderWrites(n) = c
  BY DEF BorderWrites
<1> HIDE DEF S
<1>4. /\ two \in Seq(S) /\ Len(two) = IF n >= 2 THEN 2 ELSE 0
      /\ n >= 2 => two[1] = Write("right", 2) /\ two[2] = Write("left", 2)
  BY <1>2
<1>5. /\ three \in Seq(S) /\ Len(three) = IF n >= 3 THEN 1 ELSE 0
      /\ n >= 3 => three[1] = Write("bottom", 3)
  BY <1>2
<1>6. /\ four \in Seq(S) /\ Len(four) = IF n >= 4 THEN 1 ELSE 0
      /\ n >= 4 => four[1] = Write("left", 4)
  BY <1>2
<1> HIDE DEF two, three, four
<1>7. /\ a \in Seq(S) /\ Len(a) = IF n >= 2 THEN 6 ELSE 4
      /\ \A i \in 1..4 : a[i] = Write(Dirs[i], 1)
      /\ n >= 2 => a[5] = Write("right", 2) /\ a[6] = Write("left", 2)
  <2>1. /\ a \in Seq(S) /\ Len(a) = Len(All(1)) + Len(two)
        /\ \A i \in 1..Len(All(1)) + Len(two) :
              a[i] = IF i <= Len(All(1)) THEN All(1)[i] ELSE two[i - Len(All(1))]
    BY <1>1, <1>4, ConcatProperties
  <2>2. \A i \in 1..4 : i <= Len(All(1)) /\ i \in 1..Len(All(1)) + Len(two)
    BY <1>1, <1>4
  <2>3. n >= 2 => /\ 5 \in 1..Len(All(1)) + Len(two) /\ 6 \in 1..Len(All(1)) + Len(two)
                  /\ 5 - Len(All(1)) = 1 /\ 6 - Len(All(1)) = 2
                  /\ ~(5 <= Len(All(1))) /\ ~(6 <= Len(All(1)))
    <3> SUFFICES ASSUME n >= 2
                 PROVE  /\ 5 \in 1..Len(All(1)) + Len(two) /\ 6 \in 1..Len(All(1)) + Len(two)
                        /\ 5 - Len(All(1)) = 1 /\ 6 - Len(All(1)) = 2
                        /\ ~(5 <= Len(All(1))) /\ ~(6 <= Len(All(1)))
      OBVIOUS
    <3>1. Len(All(1)) = 4 /\ Len(two) = 2
      BY <1>1, <1>4
    <3>2. 5 \in 1..4 + 2 /\ 6 \in 1..4 + 2 /\ 5 - 4 = 1 /\ 6 - 4 = 2 /\ ~(5 <= 4) /\ ~(6 <= 4)
      OBVIOUS
    <3> QED
      BY <3>1, <3>2
  <2> HIDE DEF a
  <2>4. n >= 2 => a[5] = Write("right", 2) /\ a[6] = Write("left", 2)
    BY <1>4, <2>1, <2>3
  <2>5. \A i \in 1..4 : a[i] = Write(Dirs[i], 1)
    BY <1>1, <2>1, <2>2
  <2> QED
    BY <1>1, <1>4, <2>1, <2>4, <2>5
<1> HIDE DEF a
<1>8. /\ b \in Seq(S) /\ Len(b) = IF n >= 3 THEN 7 ELSE IF n = 2 THEN 6 ELSE 4
      /\ \A i \in 1..4 : b[i] = Write(Dirs[i], 1)
      /\ n >= 2 => b[5] = Write("right", 2) /\ b[6] = Write("left", 2)
      /\ n >= 3 => b[7] = Write("bottom", 3)
  <2>1. /\ b \in Seq(S) /\ Len(b) = Len(a) + Len(three)
        /\ \A i \in 1..Len(a) + Len(three) :
              b[i] = IF i <= Len(a) THEN a[i] ELSE three[i - Len(a)]
    BY <1>5, <1>7, ConcatProperties
  <2> HIDE DEF b
  <2> QED
    BY <1>5, <1>7, <2>1
<1> HIDE DEF b
<1>9. /\ Len(c) = IF n = 1 THEN 4 ELSE n + 4
      /\ \A i \in 1..4 : c[i] = Write(Dirs[i], 1)
      /\ n >= 2 => c[5] = Write("right", 2) /\ c[6] = Write("left", 2)
      /\ n >= 3 => c[7] = Write("bottom", 3)
      /\ n >= 4 => c[8] = Write("left", 4)
  <2>1. /\ c \in Seq(S) /\ Len(c) = Len(b) + Len(four)
        /\ \A i \in 1..Len(b) + Len(four) :
              c[i] = IF i <= Len(b) THEN b[i] ELSE four[i - Len(b)]
    BY <1>6, <1>8, ConcatProperties
  <2> HIDE DEF c
  <2> QED
    BY <1>6, <1>8, <2>1
<1> HIDE DEF c
<1> QED
  BY <1>3, <1>9

\* What is written to a side last is the term CSS2 gives it.
LEMMA LastWrite ==
    ASSUME NEW n \in 1..4, NEW dir \in Sides
    PROVE  LET w == BorderWrites(n)
           IN  \E k \in 1..Len(w) : /\ w[k].dir = dir /\ w[k].term = SideTerm(dir, n)
                                    /\ \A j \in k + 1..Len(w) : w[j].dir # dir
<1> DEFINE w == BorderWrites(n)
           k == CASE dir = "top" -> 1
                  [] dir = "right" -> IF n = 1 THEN 2 ELSE 5
                  [] dir = "bottom" -> IF n >= 3 THEN 7 ELSE 3
                  [] dir = "left" -> IF n = 1 THEN 4 ELSE IF n = 4 THEN 8 ELSE 6
<1>1. /\ w[1].dir = "top" /\ w[2].dir = "right" /\ w[3].dir = "bottom" /\ w[4].dir = "left"
      /\ \A i \in 1..4 : w[i].term = 1
      /\ n >= 2 => w[5].dir = "right" /\ w[5].term = 2 /\ w[6].dir = "left" /\ w[6].term = 2
      /\ n >= 3 => w[7].dir = "bottom" /\ w[7].term = 3
      /\ n >= 4 => w[8].dir = "left" /\ w[8].term = 4
      /\ Len(w) = IF n = 1 THEN 4 ELSE n + 4
  <2>1. /\ Len(w) = IF n = 1 THEN 4 ELSE n + 4
        /\ \A i \in 1..4 : w[i] = Write(Dirs[i], 1)
        /\ n >= 2 => w[5] = Write("right", 2) /\ w[6] = Write("left", 2)
        /\ n >= 3 => w[7] = Write("bottom", 3)
        /\ n >= 4 => w[8] = Write("left", 4)
    BY BorderWritesList
  <2> HIDE DEF w
  <2> QED
    BY <2>1 DEF Write, Dirs
<1> HIDE DEF w
<1>2. CASE dir = "top"
  <2>1. k = 1 /\ SideTerm(dir, n) = 1
    BY <1>2 DEF SideTerm
  <2>2. \A j \in 2..Len(w) : w[j].dir # "top"
    BY <1>1
  <2> QED
    BY <1>1, <1>2, <2>1, <2>2 DEF w
<1>3. CASE dir = "right"
  <2>1. SideTerm(dir, n) = IF n = 1 THEN 1 ELSE 2
    BY <1>3 DEF SideTerm
  <2>2. /\ n = 1 => \A j \in 3..Len(w) : w[j].dir # "right"
        /\ n # 1 => \A j \in 6..Len(w) : w[j].dir # "right"
    BY <1>1
  <2>3. CASE n = 1
    <3>1. 2 \in 1..Len(w) /\ 2 + 1 = 3
      BY <1>1, <2>3
    <3> QED
      BY <1>1, <1>3, <2>1, <2>2, <2>3, <3>1 DEF w
  <2>4. CASE n # 1
    <3>1. 5 \in 1..Len(w) /\ 5 + 1 = 6
      BY <1>1, <2>4
    <3> QED
      BY <1>1, <1>3, <2>1, <2>2, <2>4, <3>1 DEF w
  <2> QED
    BY <2>3, <2>4
<1>4. CASE dir = "bottom"
  <2>1. SideTerm(dir, n) = IF n <= 2 THEN 1 ELSE 3
    BY <1>4 DEF SideTerm
  <2>2. /\ n <= 2 => \A j \in 4..Len(w) : w[j].dir # "bottom"
        /\ n > 2 => \A j \in 8..Len(w) : w[j].dir # "bottom"
    BY <1>1
  <2>3. CASE n <= 2
    <3>1. 3 \in 1..Len(w) /\ 3 + 1 = 4
      BY <1>1, <2>3
    <3> QED
      BY <1>1, <1>4, <2>1, <2>2, <2>3, <3>1 DEF w
  <2>4. CASE n > 2
    <3>1. 7 \in 1..Len(w) /\ 7 + 1 = 8 /\ n >= 3
      BY <1>1, <2>4
    <3> QED
      BY <1>1, <1>4, <2>1, <2>2, <2>4, <3>1 DEF w
  <2> QED
    BY <2>3, <2>4
<1>5. CASE dir = "left"
  <2>1. SideTerm(dir, n) = IF n = 1 THEN 1 ELSE IF n = 4 THEN 4 ELSE 2
    BY <1>5 DEF SideTerm
  <2>2. /\ n = 1 => \A j \in 5..Len(w) : w[j].dir # "left"
        /\ n \in {2, 3} => \A j \in 7..Len(w) : w[j].dir # "left"
        /\ n = 4 => \A j \in 9..Len(w) : w[j].dir # "left"
    BY <1>1
  <2>3. CASE n = 1
    <3>1. 4 \in 1..Len(w) /\ 4 + 1 = 5
      BY <1>1, <2>3
    <3> QED
      BY <1>1, <1>5, <2>1, <2>2, <2>3, <3>1 DEF w
  <2>4. CASE n \in {2, 3}
    <3>1. 6 \in 1..Len(w) /\ 6 + 1 = 7 /\ n >= 2
      BY <1>1, <2>4
    <3> QED
      BY <1>1, <1>5, <2>1, <2>2, <2>4, <3>1 DEF w
  <2>5. CASE n = 4
    <3>1. 8 \in 1..Len(w) /\ 8 + 1 = 9 /\ n >= 4
      BY <1>1, <2>5
    <3> QED
      BY <1>1, <1>5, <2>1, <2>2, <2>5, <3>1 DEF w
  <2> QED
    BY <2>3, <2>4, <2>5
<1> QED
  BY <1>2, <1>3, <1>4, <1>5 DEF Sides

\* Whether a side accepts a term depends on the term alone.
LEMMA AcceptedTerms ==
    ASSUME NEW group \in {"border-width", "border-style"}, NEW t,
           SetSide(group, ZeroValues, t, "top").status = "OK"
    PROVE  /\ \A sv, dir : SetSide(group, sv, t, dir).status = "OK"
           /\ group = "border-style" => t.kind = "ident"
<1>1. CASE group = "border-width"
  <2>1. \A sv, dir : SetSide(group, sv, t, dir) = BorderXWidth(sv, t, dir)
    BY <1>1 DEF SetSide
  <2> DEFINE i == FirstWord(BorderWords, t)
  <2>2. \A sv, dir : BorderXWidth(sv, t, dir).status =
           IF i # 0 THEN "OK" ELSE IF t.kind = "number" THEN "OK" ELSE "UNKNOWN_TYPE"
    BY DEF BorderXWidth, Put, Refuse
  <2> HIDE DEF i
  <2> QED
    BY <1>1, <2>1, <2>2
<1>2. CASE group = "border-style"
  <2>1. \A sv, dir : SetSide(group, sv, t, dir) = BorderXStyle(sv, t, dir)
    BY <1>2 DEF SetSide
  <2> DEFINE i == FirstWord(BorderStyles, t)
             I == {j \in 1..Len(BorderStyles) : BeginsWith(t, BorderStyles[j])}
  <2>2. \A sv, dir : BorderXStyle(sv, t, dir).status = IF i # 0 THEN "OK" ELSE "UNKNOWN_TYPE"
    BY DEF BorderXStyle, PutFirst, Put, Refuse
  <2>3. i = IF I # {} THEN Min(I) ELSE 0
    BY DEF SelectInSeq, FirstWord
  <2>4. I # {} => t.kind = "ident"
    BY DEF BeginsWith
  <2> HIDE DEF i, I
  <2> QED
    BY <1>2, <2>1, <2>2, <2>3, <2>4
<1> QED
  BY <1>1, <1>2

LEMMA BorderSides ==
    ASSUME NEW sv \in Values, NEW group \in {"border-width", "border-style"},
           NEW decl, HasValue(decl), decl.name = <<group, "all">>, Len(decl.value) <= 4,
           \A i \in DOMAIN decl.value :
               SetSide(group, ZeroValues, decl.value[i], "top").status = "OK",
           NEW dir \in Sides
    PROVE  SetValues(sv, decl).sv[<<group, dir>>] =
              SetSide(group, ZeroValues, decl.value[SideTerm(dir, Len(decl.value))], dir)
                 .sv[<<group, dir>>]
<1> DEFINE ts == decl.value
           n == Len(ts)
           w == BorderWrites(n)
<1>0. Terms(ts)
  BY ValueTerms
<1>1. Terms(ts) /\ n \in 1..4 /\ DOMAIN ts = 1..n /\ n \in 1..Len(ts)
  <2>1. n \in Nat \ {0} /\ DOMAIN ts = 1..n /\ n <= 4
    BY <1>0 DEF Terms
  <2> HIDE DEF n
  <2>2. n \in 1..4 /\ n \in 1..n
    BY <2>1
  <2> QED
    BY <1>0, <2>1, <2>2 DEF n
<1>2. /\ \A i \in 1..n : \A v, d : SetSide(group, v, ts[i], d).status = "OK"
      /\ group = "border-style" => \A i \in 1..n : ts[i].kind = "ident"
  BY <1>1, AcceptedTerms
<1>3. SetValues(sv, decl) = SetSided(sv, <<group, "all">>, ts)
  BY DEF SetValues, SidedNames, Shorthands
<1>4. SetValues(sv, decl).sv = Spread(group, sv, ts, w)
  <2>0. <<group, "all">>[1] = group /\ <<group, "all">>[2] = "all"
    OBVIOUS
  <2>1. CASE group = "border-width"
    <3>1. SetSided(sv, <<group, "all">>, ts) = BorderWidth(sv, ts)
      BY <2>0, <2>1 DEF SetSided
    <3> QED
      BY <1>3, <2>1, <3>1 DEF BorderWidth
  <2>2. CASE group = "border-style"
    <3>1. SetSided(sv, <<group, "all">>, ts) = BorderStyle(sv, ts)
      BY <2>0, <2>2 DEF SetSided
    <3> DEFINE other == SelectInSeq(ts, LAMBDA t : t.kind # "ident")
    <3>2. other = 0
      <4>1. {i \in 1..Len(ts) : ts[i].kind # "ident"} = {}
        BY <1>2, <2>2
      <4> QED
        BY <4>1 DEF SelectInSeq
    <3>3. BorderStyle(sv, ts) = [sv |-> Spread("border-style", sv, ts, w), status |-> "OK"]
      BY <1>1, <3>2 DEF BorderStyle
    <3> QED
      BY <1>3, <2>2, <3>1, <3>3
  <2> QED
    BY <2>1, <2>2
<1>5. Written(ts, w) /\ group \in SideGroups
  BY <1>1, BorderSpreads DEF SideGroups
<1> HIDE DEF ts, n
<1>6. PICK k \in 1..Len(w) : /\ w[k].dir = dir /\ w[k].term = SideTerm(dir, n)
                             /\ \A j \in k + 1..Len(w) : w[j].dir # dir
  BY <1>1, LastWrite
<1>7. SideTerm(dir, n) \in 1..n
  BY <1>1 DEF SideTerm, Sides
<1> HIDE DEF w
<1>8. \A v \in Values : SetSide(group, v, ts[w[k].term], w[k].dir).status = "OK"
  BY <1>2, <1>6, <1>7
<1>9. ZeroValues \in Values
  BY ZeroTyped
<1>10. Spread(group, sv, ts, w)[<<group, w[k].dir>>] =
          SetSide(group, ZeroValues, ts[w[k].term], w[k].dir).sv[<<group, w[k].dir>>]
  BY <1>5, <1>6, <1>8, <1>9, SpreadGives
<1> QED
  BY <1>4, <1>6, <1>10 DEF ts, n

-----------------------------------------------------------------------------
(* One declaration, set on a style.                                          *)

LEMMA AppliedOne ==
    ASSUME NEW heap, NEW decl, Declarations(<<decl>>), NEW target \in Targets(heap, <<decl>>)
    PROVE  Applied(target, <<decl>>) = Apply(target, decl)
<1>1. PICK after : ThroughAll(after, target, <<decl>>, heap)
  BY AppliedIs
<1>2. Len(<<decl>>) = 1 /\ <<decl>>[1] = decl /\ 1 \in 1..1 /\ 1 - 1 = 0
  OBVIOUS
<1>3. /\ after[0] = target /\ after[1] = Apply(after[0], decl)
      /\ Applied(target, <<decl>>) = after[1]
  BY <1>1, <1>2 DEF ThroughAll
<1> QED
  BY <1>3

\* What one declaration makes of a style and of the families.
LEMMA ApplyIs ==
    ASSUME NEW st, st.sv \in Values, NEW heap, IsSequence(heap), st.family \in 0..Len(heap),
           NEW decl, Declarations(<<decl>>)
    PROVE  LET t == Apply(Target(st, heap), decl)
               r == SetValues(st.sv, decl)
           IN  IF decl.name = Whole("font-family")
               THEN t.sv = st.sv /\ t.status = "OK"
               ELSE t.sv = r.sv /\ t.status = r.status /\ t.heap = heap /\ t.family = st.family
<1> DEFINE target == Target(st, heap)
           t == Apply(target, decl)
           r == SetValues(st.sv, decl)
<1>1. target \in Targets(heap, <<decl>>)
  BY TargetHeld
<1>2. /\ target.sv = st.sv /\ target.family = st.family /\ target.heap = heap
      /\ target.end = "ok" /\ target.status = "OK" /\ IsTarget(target)
  BY DEF Target, IsTarget
<1>3. Len(<<decl>>) = 1 /\ <<decl>>[1] = decl /\ 1 \in 1..1
  OBVIOUS
<1> HIDE DEF target
<1>4. CASE decl.name = Whole("font-family")
  <2>1. t = SetFontFamily(target, decl.value)
    BY <1>2, <1>4 DEF Apply
  <2>2. /\ SetFontFamily(target, decl.value).sv = target.sv
        /\ SetFontFamily(target, decl.value).status \in {target.status, "OK"}
    <3> DEFINE decls == <<decl>>
    <3>1. /\ 1 \in 1..Len(decls) /\ decls[1] = decl /\ Declarations(decls)
          /\ target \in Targets(heap, decls)
      BY <1>1, <1>3
    <3> HIDE DEF decls
    <3> QED
      BY <3>1, FontFamilyKeeps
  <2> QED
    BY <1>2, <1>4, <2>1, <2>2 DEF target
<1>5. CASE decl.name # Whole("font-family")
  <2>1. t = Valued(target, r.sv, r.status)
    BY <1>2, <1>5 DEF Apply, Valued
  <2>2. Valued(target, r.sv, r.status) = [sv |-> r.sv, family |-> target.family,
           heap |-> target.heap, end |-> target.end, status |-> r.status]
    BY <1>2, TargetsAre
  <2> HIDE DEF r
  <2> QED
    BY <1>2, <1>5, <2>1, <2>2 DEF target, r
<1> QED
  BY <1>4, <1>5

LEMMA SetIs ==
    ASSUME Shapes, Types, NEW s \in Styles, NEW decl \in Decls[s], SetStyleFromDecl(s, decl)
    PROVE  LET t == Apply(Target(style[s], families), decl)
           IN  /\ style' = [style EXCEPT ![s] = Filled(style[s], t.sv, t.family)]
               /\ families' = t.heap
               /\ call' = [op |-> "set", style |-> s, decl |-> decl, status |-> t.status]
               /\ style'[s].sv = t.sv
               /\ IsStyle(style[s]) /\ style[s].sv \in Values /\ HasValue(decl)
               /\ IsSequence(families) /\ style[s].family \in 0..Len(families)
               /\ Declarations(<<decl>>)
<1> DEFINE t == Apply(Target(style[s], families), decl)
           target == Applied(Target(style[s], families), <<decl>>)
<1>1. /\ s \in live /\ IsStyle(style[s]) /\ style[s].sv \in Values /\ HasValue(decl)
      /\ IsSequence(families) /\ style[s].family \in 0..Len(families)
  BY StyleAssumption DEF SetStyleFromDecl, Shapes, Types, Typed
<1>2. Declarations(<<decl>>)
  BY ListsAre
<1>3. target = t
  <2>1. Target(style[s], families) \in Targets(families, <<decl>>)
    BY <1>1, TargetHeld
  <2> QED
    BY <1>2, <2>1, AppliedOne
<1>4. /\ style' = [style EXCEPT ![s] = Filled(style[s], target.sv, target.family)]
      /\ families' = target.heap
      /\ call' = [op |-> "set", style |-> s, decl |-> decl, status |-> t.status]
  BY DEF SetStyleFromDecl, Populate, Fill, Filled
<1> HIDE DEF t, target
<1>5. style'[s].sv = t.sv
  BY <1>1, <1>3, <1>4, PopulatedIs DEF Shapes
<1> QED
  BY <1>1, <1>2, <1>3, <1>4, <1>5 DEF t

\* The step that calls cr_style_set_style_from_decl is the only one noted so.
LEMMA OnlySetIsNoted ==
    ASSUME [Next]_vars, call'.op = "set"
    PROVE  \/ UNCHANGED vars
           \/ \E s \in Styles : \E decl \in Decls[s] : SetStyleFromDecl(s, decl)
<1>1. call' # Unnoted
  BY DEF Unnoted
<1>2. \A s, initial, props : ~GetMatchedStyle(s, initial, props)
  BY DEF GetMatchedStyle
<1>3. \A s, t, initial :
         ~New(s, initial) /\ ~ResolveInheritedProperties(s) /\ ~Copy(s, t) /\ ~Dup(s, t)
         /\ ~Ref(s) /\ ~Unref(s) /\ ~Destroy(s)
  BY <1>1 DEF New, ResolveInheritedProperties, Copy, Dup, Ref, Unref, Destroy
<1> QED
  BY <1>2, <1>3 DEF Next

LEMMA SpreadsHold ==
    ASSUME Shapes, Types, BordersAreSpreadAsCSS, [Next]_vars
    PROVE  BordersAreSpreadAsCSS'
<1> SUFFICES ASSUME call'.op = "set" PROVE BordersAreSpreadAsCSS'
  BY DEF BordersAreSpreadAsCSS
<1>1. CASE UNCHANGED vars
  BY <1>1 DEF vars, BordersAreSpreadAsCSS
<1>2. ASSUME NEW s \in Styles, NEW decl \in Decls[s], SetStyleFromDecl(s, decl)
      PROVE  BordersAreSpreadAsCSS'
  <2>1. /\ call'.style = s /\ call'.decl = decl
        /\ style'[s].sv = Apply(Target(style[s], families), decl).sv
        /\ style[s].sv \in Values /\ HasValue(decl)
        /\ IsSequence(families) /\ style[s].family \in 0..Len(families)
        /\ Declarations(<<decl>>)
    <3> DEFINE t == Apply(Target(style[s], families), decl)
    <3>1. call' = [op |-> "set", style |-> s, decl |-> decl, status |-> t.status]
      BY <1>2, SetIs
    <3> HIDE DEF t
    <3>2. call'.style = s /\ call'.decl = decl
      BY <3>1
    <3> QED
      BY <1>2, <3>2, SetIs
  <2>2. ASSUME NEW group \in {"border-width", "border-style"},
               decl.name = <<group, "all">>, Len(decl.value) <= 4,
               \A i \in DOMAIN decl.value :
                   SetSide(group, ZeroValues, decl.value[i], "top").status = "OK",
               NEW dir \in Sides
        PROVE  style'[s].sv[<<group, dir>>] =
                  SetSide(group, ZeroValues, decl.value[SideTerm(dir, Len(decl.value))], dir)
                     .sv[<<group, dir>>]
    <3>1. decl.name # Whole("font-family")
      BY <2>2 DEF Whole
    <3>2. style'[s].sv = SetValues(style[s].sv, decl).sv
      BY <2>1, <3>1, ApplyIs
    <3> QED
      BY <2>1, <2>2, <3>2, BorderSides
  <2> QED
    BY <2>1, <2>2 DEF BordersAreSpreadAsCSS
<1> QED
  BY <1>1, <1>2, OnlySetIsNoted

\* set_prop_border_width_from_value and set_prop_border_style_from_value write the first
\* term to all sides and the others over it: for one to four terms of any kind, and
\* whatever the style had before, each side ends with the term CSS2 gives it.
THEOREM SidesGetTheirTerms == Spec => []BordersAreSpreadAsCSS
<1>1. Init => Shapes /\ History /\ Types /\ BordersAreSpreadAsCSS
  <2>1. Init => BordersAreSpreadAsCSS
    BY DEF Init, Unnoted, BordersAreSpreadAsCSS
  <2> QED
    BY <2>1, InitialHistory, InitialTypes
<1>2. Shapes /\ History /\ Types /\ BordersAreSpreadAsCSS /\ [Next]_vars
         => (Shapes /\ History /\ Types /\ BordersAreSpreadAsCSS)'
  BY NextKeeps, NextTyped, SpreadsHold
<1> QED
  BY <1>1, <1>2, PTL DEF Spec

\* cr_style_set_style_from_decl changes no field but those of the property it names, and
\* nothing at all when it refuses, apart from the properties named in Halfway: for every
\* property and every list of terms.
THEOREM NoOtherFieldChanges == Spec => OnlyTheNamedFieldsChange
<1> DEFINE Changes ==
        call'.op = "set" /\ call'.decl.name # <<"border-color", "left">> =>
          LET refused == call'.status # "OK" /\ call'.decl.name \notin Halfway
          IN  /\ \A f \in Fields \ Covered(call'.decl.name) :
                   style'[call'.style].sv[f] = style[call'.style].sv[f]
              /\ refused => style' = style /\ families' = families
<1>1. Shapes /\ Types /\ [Next]_vars => [Changes]_vars
  <2> SUFFICES ASSUME Shapes, Types, Next, call'.op = "set",
                      call'.decl.name # <<"border-color", "left">>
               PROVE  \/ UNCHANGED vars
                      \/ /\ \A f \in Fields \ Covered(call'.decl.name) :
                              style'[call'.style].sv[f] = style[call'.style].sv[f]
                         /\ call'.status # "OK" /\ call'.decl.name \notin Halfway
                               => style' = style /\ families' = families
    OBVIOUS
  <2>1. CASE UNCHANGED vars
    BY <2>1
  <2>2. ASSUME NEW s \in Styles, NEW decl \in Decls[s], SetStyleFromDecl(s, decl)
        PROVE  /\ \A f \in Fields \ Covered(call'.decl.name) :
                     style'[call'.style].sv[f] = style[call'.style].sv[f]
               /\ call'.status # "OK" /\ call'.decl.name \notin Halfway
                     => style' = style /\ families' = families
    <3> DEFINE t == Apply(Target(style[s], families), decl)
               r == SetValues(style[s].sv, decl)
    <3>1. /\ style' = [style EXCEPT ![s] = Filled(style[s], t.sv, t.family)]
          /\ families' = t.heap
          /\ call' = [op |-> "set", style |-> s, decl |-> decl, status |-> t.status]
          /\ style'[s].sv = t.sv
          /\ IsStyle(style[s]) /\ style[s].sv \in Values /\ HasValue(decl)
          /\ IsSequence(families) /\ style[s].family \in 0..Len(families)
          /\ Declarations(<<decl>>)
      BY <2>2, SetIs
    <3>2. IF decl.name = Whole("font-family")
          THEN t.sv = style[s].sv /\ t.status = "OK"
          ELSE t.sv = r.sv /\ t.status = r.status /\ t.heap = families
               /\ t.family = style[s].family
      BY <3>1, ApplyIs
    <3>3. Moves(r.sv, style[s].sv, r.sv, style[s].sv, Reached(decl.name))
          /\ Unchanged(decl.name, r, style[s].sv)
      BY <3>1, DeclarationSets
    <3> HIDE DEF t, r
    <3>4. call'.style = s /\ call'.decl = decl /\ call'.status = t.status
      BY <3>1
    <3>5. decl.name # <<"border-color", "left">> /\ Reached(decl.name) = Covered(decl.name)
      BY <3>4 DEF Reached
    <3>6. \A f \in Fields \ Covered(decl.name) : style'[s].sv[f] = style[s].sv[f]
      BY <3>1, <3>2, <3>3, <3>5 DEF Moves
    <3>7. ASSUME t.status # "OK", decl.name \notin Halfway
          PROVE  style' = style /\ families' = families
      <4>1. /\ t.sv = style[s].sv /\ t.heap = families /\ t.family = style[s].family
        BY <3>2, <3>3, <3>7 DEF Unchanged
      <4>2. Filled(style[s], t.sv, t.family) = style[s]
        <5> DEFINE st == style[s]
        <5>1. IsStyle(st) /\ t.sv = st.sv /\ t.family = st.family
          BY <3>1, <4>1
        <5> HIDE DEF st
        <5>2. LET new == Filled(st, t.sv, t.family)
              IN  /\ IsStyle(new) /\ new.sv = st.sv /\ new.family = st.family
                  /\ new.resolved = st.resolved /\ new.parent = st.parent
                  /\ new.cv = st.cv /\ new.refs = st.refs
          BY <5>1, PopulatedIs
        <5>3. Filled(st, t.sv, t.family) = st
          BY <5>1, <5>2 DEF IsStyle
        <5> QED
          BY <5>3 DEF st
      <4> QED
        BY <3>1, <4>1, <4>2 DEF Shapes
    <3> QED
      BY <3>4, <3>6, <3>7
  <2> QED
    BY <2>1, <2>2, OnlySetIsNoted
<1>2. Init => Shapes /\ History /\ Types
  BY InitialHistory, InitialTypes
<1>3. Shapes /\ History /\ Types /\ [Next]_vars => (Shapes /\ History /\ Types)'
  BY NextKeeps, NextTyped
<1> QED
  BY <1>1, <1>2, <1>3, PTL DEF Spec, OnlyTheNamedFieldsChange

-----------------------------------------------------------------------------
(* A style that is filled again.                                             *)

\* A loop over families, or a family freed twice, ends what is done to a style.
LEMMA OkBefore ==
    ASSUME NEW target, NEW decl, Apply(target, decl).end = "ok"
    PROVE  target.end = "ok"
  BY DEF Apply

LEMMA OkThroughout ==
    ASSUME NEW heap, NEW decls, Declarations(decls), NEW target \in Targets(heap, decls),
           Applied(target, decls).end = "ok"
    PROVE  \E after : /\ ThroughAll(after, target, decls, heap)
                      /\ \A i \in 0..Len(decls) : after[i].end = "ok"
<1>0. PICK after : ThroughAll(after, target, decls, heap)
  BY AppliedIs
<1> DEFINE n == Len(decls)
           T == {i \in 0..n : after[n - i].end = "ok"}
<1>1. n \in Nat
  BY DEF Declarations
<1>2. 0 \in T
  BY <1>0, <1>1 DEF ThroughAll
<1>3. ASSUME NEW i \in 0..n-1, i \in T PROVE i + 1 \in T
  <2>1. n - i \in 1..n /\ n - i - 1 = n - (i + 1) /\ i + 1 \in 0..n
    BY <1>1
  <2>2. after[n - i] = Apply(after[n - i - 1], decls[n - i]) /\ after[n - i].end = "ok"
    BY <1>0, <1>3, <2>1 DEF ThroughAll
  <2>3. after[n - i - 1].end = "ok"
    BY <2>2, OkBefore
  <2> QED
    BY <2>1, <2>3
<1>4. 0..n \subseteq T
  <2> HIDE DEF T
  <2> QED
    BY <1>1, <1>2, <1>3, InductionUpTo
<1>5. ASSUME NEW i \in 0..n PROVE after[i].end = "ok"
  <2>1. n - i \in 0..n /\ n - (n - i) = i
    BY <1>1
  <2> QED
    BY <1>4, <2>1
<1> QED
  BY <1>0, <1>5

\* A family for a style that has none: the values stay, and only the terms decide whether
\* the loop over them ends.
LEMMA FirstFamily ==
    ASSUME NEW target, IsTarget(target), target.family = NoFamily, target.end = "ok",
           NEW ts, ~FamilyOf(ts).stuck
    PROVE  SetFontFamily(target, ts).end = "ok"
<1> DEFINE made == FamilyOf(ts)
           new == [list |-> made.list, loop |-> made.loop, live |-> TRUE]
           last == Lengthened(target, Len(target.heap) + 1, Append(target.heap, new))
<1>1. SetFontFamily(target, ts) = IF made.list = <<>> THEN [target EXCEPT !.status = "OK"]
                                  ELSE last
  BY DEF SetFontFamily, Lengthened, NoFamily
<1>2. [target EXCEPT !.status = "OK"].end = "ok"
  BY DEF IsTarget
<1> HIDE DEF made, new
<1>3. last.end = "ok"
  BY TargetsAre
<1> HIDE DEF last
<1> QED
  BY <1>1, <1>2, <1>3

\* The same declarations, of as many properties, on two styles: where the values began
\* alike they end alike, and what ends on the one ends on the one without families.
LEMMA RunsAgree ==
    ASSUME NEW props, Declarations(props),
           \A i, j \in 1..Len(props) : props[i].name = props[j].name => i = j,
           NEW heap, NEW target \in Targets(heap, props), Applied(target, props).end = "ok",
           NEW clean, NEW new \in Targets(clean, props), new.end = "ok", new.family = NoFamily,
           \A f \in Fields \ Kept : Same(target.sv, new.sv, f)
    PROVE  \A f \in Fields \ Kept : Same(Applied(target, props).sv, Applied(new, props).sv, f)
<1> DEFINE n == Len(props)
<1>1. PICK a : ThroughAll(a, target, props, heap) /\ \A i \in 0..n : a[i].end = "ok"
  BY OkThroughout
<1>2. PICK b : ThroughAll(b, new, props, clean)
  BY AppliedIs
<1>3. n \in Nat /\ \A i \in 0..n : a[i].end = "ok"
  BY <1>1 DEF Declarations
<1> DEFINE Alike(i) == /\ b[i].end = "ok"
                       /\ b[i].family = NoFamily
                            \/ \E j \in 1..i : props[j].name = Whole("font-family")
                       /\ \A f \in Fields \ Kept : Same(a[i].sv, b[i].sv, f)
           T == {i \in 0..n : Alike(i)}
<1>4. 0 \in T
  BY <1>1, <1>2, <1>3 DEF ThroughAll
<1>5. ASSUME NEW i \in 0..n-1, i \in T PROVE i + 1 \in T
  <2> DEFINE decl == props[i + 1]
             x == a[i]
             y == b[i]
  <2>1. i + 1 \in 1..n /\ i \in 0..n /\ i + 1 \in 0..n /\ i + 1 - 1 = i
    BY <1>3
  <2>2. /\ x \in Targets(heap, props) /\ y \in Targets(clean, props)
        /\ a[i + 1] = Apply(x, decl) /\ b[i + 1] = Apply(y, decl)
    BY <1>1, <1>2, <2>1 DEF ThroughAll
  <2>3. /\ x.end = "ok" /\ Apply(x, decl).end = "ok" /\ y.end = "ok"
        /\ \A f \in Fields \ Kept : Same(x.sv, y.sv, f)
        /\ y.family = NoFamily \/ \E j \in 1..i : props[j].name = Whole("font-family")
    BY <1>3, <1>5, <2>1, <2>2
  <2>4. /\ x.sv \in Values /\ y.sv \in Values /\ IsTarget(x) /\ IsTarget(y)
    BY <2>2 DEF Targets, IsTarget
  <2>5. HasValue(decl)
    BY <2>1 DEF Declarations
  <2> HIDE DEF x, y
  <2>6. CASE decl.name = Whole("font-family")
    <3>1. Apply(x, decl) = SetFontFamily(x, decl.value) /\ Apply(y, decl) = SetFontFamily(y, decl.value)
      BY <2>3, <2>6 DEF Apply
    <3>2. SetFontFamily(x, decl.value).sv = x.sv /\ SetFontFamily(y, decl.value).sv = y.sv
      BY <2>1, <2>2, FontFamilyKeeps
    <3>3. y.family = NoFamily
      <4>1. \A j \in 1..i : j \in 1..n /\ j # i + 1
        BY <1>3
      <4> QED
        BY <2>1, <2>3, <2>6, <4>1
    <3>4. ~FamilyOf(decl.value).stuck
      <4>1. FamilyOf(decl.value).stuck => SetFontFamily(x, decl.value) = [x EXCEPT !.end = "stuck"]
        BY DEF SetFontFamily
      <4>2. [x EXCEPT !.end = "stuck"].end = "stuck"
        BY <2>4 DEF IsTarget
      <4> QED
        BY <2>3, <3>1, <4>1, <4>2
    <3>5. Apply(y, decl).end = "ok"
      BY <2>3, <2>4, <3>1, <3>3, <3>4, FirstFamily
    <3>6. \E j \in 1..i + 1 : props[j].name = Whole("font-family")
      BY <2>1, <2>6
    <3> HIDE DEF decl
    <3>7. Alike(i + 1)
      BY <2>2, <2>3, <3>1, <3>2, <3>5, <3>6
    <3> QED
      BY <2>1, <3>7
  <2>7. CASE decl.name # Whole("font-family")
    <3> DEFINE r == SetValues(x.sv, decl)
               q == SetValues(y.sv, decl)
    <3>1. Apply(x, decl) = Valued(x, r.sv, r.status) /\ Apply(y, decl) = Valued(y, q.sv, q.status)
      BY <2>3, <2>7 DEF Apply, Valued
    <3>2. Moves(r.sv, x.sv, q.sv, y.sv, Reached(decl.name))
      BY <2>4, <2>5, DeclarationSets
    <3> HIDE DEF r, q
    <3>3. /\ Apply(x, decl).sv = r.sv /\ Apply(y, decl).sv = q.sv
          /\ Apply(y, decl).end = y.end /\ Apply(y, decl).family = y.family
      BY <2>4, <3>1, TargetsAre
    <3>4. \A f \in Fields \ Kept : Same(r.sv, q.sv, f)
      BY <2>3, <3>2 DEF Moves
    <3>5. (\E j \in 1..i : props[j].name = Whole("font-family"))
            => \E j \in 1..i + 1 : props[j].name = Whole("font-family")
      BY <1>3
    <3> HIDE DEF decl
    <3>6. Alike(i + 1)
      BY <2>2, <2>3, <3>3, <3>4, <3>5
    <3> QED
      BY <2>1, <3>6
  <2> QED
    BY <2>6, <2>7
<1>6. n \in T
  <2>1. 0..n \subseteq T
    <3> HIDE DEF T
    <3> QED
      BY <1>3, <1>4, <1>5, InductionUpTo
  <2> QED
    BY <1>3, <2>1
<1> QED
  BY <1>1, <1>2, <1>6 DEF ThroughAll

\* Default and initial values leave nothing of what a style had, apart from the fields of
\* Kept and the components of a colour that is inherited.
LEMMA ResetForgets ==
    ASSUME NEW old, IsStyle(old), old.sv \in Values, NEW initial
    PROVE  \A f \in Fields \ Kept :
              Same(Reset(old, initial).sv, Reset(ZeroStyle, initial).sv, f)
<1>1. IsStyle(ZeroStyle) /\ ZeroStyle.sv = ZeroValues /\ ZeroValues \in Values
  BY ZeroTyped DEF IsStyle, ZeroStyle
<1>2. CASE initial
  <2>1. \A st : IsStyle(st) => Reset(st, initial).sv = InitialValues
    BY <1>2 DEF Reset, IsStyle
  <2> QED
    BY <1>1, <2>1 DEF Same
<1>3. CASE ~initial
  <2>1. \A st : IsStyle(st) => Reset(st, initial).sv = DefaultValues(st.sv)
    BY <1>3 DEF Reset, IsStyle
  <2> QED
    BY <1>1, <2>1, DefaultTyped
<1> QED
  BY <1>2, <1>3

\* cr_sel_eng_get_matched_style on a style that is used again: with default or initial
\* values set first, the declarations give every field but those of Kept what they would
\* give it in a new style, whatever the style went through before.
THEOREM RefilledAsNew == Spec => RefillingForgets
<1> DEFINE Forgets ==
        call'.op = "match" /\ call'.props # <<>> /\ ~stuck' =>
          LET s    == call'.style
              new  == Reset(ZeroStyle, call'.initial)
              want == Applied(Target(new, <<>>), call'.props)
          IN  \A f \in Fields \ Kept : Same(style'[s].sv, want.sv, f)
<1>1. Shapes /\ Types /\ [Next]_vars => [Forgets]_vars
  <2> SUFFICES ASSUME Shapes, Types, Next, call'.op = "match", call'.props # <<>>, ~stuck'
               PROVE  LET new  == Reset(ZeroStyle, call'.initial)
                          want == Applied(Target(new, <<>>), call'.props)
                      IN  \A f \in Fields \ Kept : Same(style'[call'.style].sv, want.sv, f)
    OBVIOUS
  <2>1. \E s \in Styles : \E initial, props :
           props \in PropLists[s] /\ GetMatchedStyle(s, initial, props)
    <3>1. call' # Unnoted
      BY DEF Unnoted
    <3>2. \A s, decl : ~SetStyleFromDecl(s, decl)
      BY DEF SetStyleFromDecl
    <3>3. \A s, t, initial :
             ~New(s, initial) /\ ~ResolveInheritedProperties(s) /\ ~Copy(s, t) /\ ~Dup(s, t)
             /\ ~Ref(s) /\ ~Unref(s) /\ ~Destroy(s)
      BY <3>1 DEF New, ResolveInheritedProperties, Copy, Dup, Ref, Unref, Destroy
    <3> QED
      BY <3>2, <3>3 DEF Next
  <2>2. PICK s \in Styles : \E initial, props :
           props \in PropLists[s] /\ GetMatchedStyle(s, initial, props)
    BY <2>1
  <2>3. PICK initial, props : props \in PropLists[s] /\ GetMatchedStyle(s, initial, props)
    BY <2>2
  <2>4. call'.style = s /\ call'.initial = initial /\ call'.props = props /\ props # <<>>
    BY <2>3 DEF GetMatchedStyle
  <2> DEFINE old == IF s \in live THEN style[s] ELSE ZeroStyle
             reset == Reset(old, initial)
             st == [reset EXCEPT !.parent = ParentOf[s]]
             target == Applied(Target(st, families), props)
             clean == Reset(ZeroStyle, initial)
  <2>5. /\ style' = [style EXCEPT ![s] = Filled(st, target.sv, target.family)]
        /\ target.end # "undefined" /\ target.end # "stuck"
    BY <2>4, <2>3 DEF GetMatchedStyle, Populate, Fill, Filled
  <2>6. /\ IsStyle(old) /\ Typed(old, Len(families)) /\ IsSequence(families)
        /\ Len(families) \in Nat /\ IsStyle(ZeroStyle) /\ Typed(ZeroStyle, 0)
    BY HeapIs, ZeroStyleTyped DEF Shapes, Types, IsSequence
  <2> HIDE DEF old
  <2>7. IsStyle(reset) /\ Typed(reset, Len(families)) /\ Typed(clean, 0)
    BY <2>6, ResetIs, ResetTyped
  <2>8. \A f \in Fields \ Kept : Same(reset.sv, clean.sv, f)
    BY <2>6, ResetForgets DEF Typed
  <2> HIDE DEF reset, clean
  <2>9. /\ IsStyle(st) /\ st.sv = reset.sv /\ st.sv \in Values /\ st.family \in 0..Len(families)
    BY <2>7, GivenParent DEF Typed
  <2> HIDE DEF st
  <2>10. Declarations(props) /\ \A i, j \in 1..Len(props) : props[i].name = props[j].name => i = j
    <3>1. Declarations(props)
      BY <2>3, ListsAre
    <3>2. props \in Seq(Range(props))
          /\ \A i, j \in DOMAIN props : props[i].name = props[j].name => i = j
      BY <2>3, StyleAssumption DEF IsSequence
    <3>3. DOMAIN props = 1..Len(props)
      BY <3>2, LenProperties
    <3> QED
      BY <3>1, <3>2, <3>3
  <2>11. Target(st, families) \in Targets(families, props)
         /\ Target(st, families).sv = st.sv
    BY <2>6, <2>9, TargetHeld DEF Target
  <2>12. /\ Target(clean, <<>>) \in Targets(<<>>, props)
         /\ Target(clean, <<>>).sv = clean.sv /\ Target(clean, <<>>).end = "ok"
         /\ Target(clean, <<>>).family = NoFamily
    <3>1. clean.sv \in Values /\ clean.family = 0 /\ clean.family \in 0..Len(<<>>)
      BY <2>7 DEF Typed
    <3>2. IsSequence(<<>>)
      BY EmptySeq DEF IsSequence
    <3> QED
      BY <3>1, <3>2, TargetHeld DEF Target, NoFamily
  <2>13. target.end = "ok"
    <3>1. PICK after : ThroughAll(after, Target(st, families), props, families)
      BY <2>10, <2>11, AppliedIs
    <3>2. target \in Targets(families, props)
      BY <2>10, <3>1 DEF ThroughAll, Declarations
    <3> HIDE DEF target
    <3> QED
      BY <2>5, <3>2 DEF Targets
  <2>14. \A f \in Fields \ Kept : Same(target.sv, Applied(Target(clean, <<>>), props).sv, f)
    BY <2>8, <2>9, <2>10, <2>11, <2>12, <2>13, RunsAgree
  <2>15. style'[s].sv = target.sv
    <3> HIDE DEF target
    <3> QED
      BY <2>5, <2>9, PopulatedIs DEF Shapes
  <2> QED
    BY <2>4, <2>14, <2>15 DEF clean
<1>2. Init => Shapes /\ History /\ Types
  BY InitialHistory, InitialTypes
<1>3. Shapes /\ History /\ Types /\ [Next]_vars => (Shapes /\ History /\ Types)'
  BY NextKeeps, NextTyped
<1> QED
  BY <1>1, <1>2, <1>3, PTL DEF Spec, RefillingForgets
=============================================================================
