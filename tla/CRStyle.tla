------------------------------ MODULE CRStyle ------------------------------
(***************************************************************************)
(* CRStyle (cr-style.c, with cr_sel_eng_get_matched_style of               *)
(* cr-sel-eng.c): styles that are made, filled from declarations, filled   *)
(* again for another document, copied, counted and destroyed, and that     *)
(* take over the values of a parent style.  Font families are on a heap,   *)
(* as several styles may hold one.                                         *)
(***************************************************************************)
EXTENDS StyleValues, FiniteSets

CONSTANTS Styles,           \* addresses of styles
          NoStyle,          \* NULL
          ParentOf,         \* the parent style the application gives for each style
          InitialFor,       \* for each style, whether it may be set to initial values (the
                            \* root's), to default values, or both
          PropLists,        \* for each style, the declarations that may match its node
          Decls,            \* for each style, the declarations set one by one
          MaxCalls,         \* bound on the calls an application makes by itself, matching,
                            \* resolving and giving up styles apart
          MaxFamilies,      \* bound on the font families ever made
          MaxRefs           \* bound on a reference count

\* Sequences, over whatever they hold; a declaration has a value of one term or more.
IsSequence(s) == s \in Seq(Range(s))
HasValue(decl) ==
    /\ IsSequence(decl.value) /\ decl.value # <<>>
    /\ \A i \in DOMAIN decl.value : IsTerm(decl.value[i])

\* A node has one parent; a CRPropList holds at most one declaration of a name.
ASSUME StyleAssumption ==
    /\ NoStyle \notin Styles
    /\ \A s \in Styles : ParentOf[s] \in Styles \cup {NoStyle}
    /\ MaxCalls \in Nat /\ MaxRefs \in Nat
    /\ \A s \in Styles : \A props \in PropLists[s] :
          /\ IsSequence(props)
          /\ \A i \in DOMAIN props : HasValue(props[i])
          /\ \A i, j \in DOMAIN props : props[i].name = props[j].name => i = j
    /\ \A s \in Styles : \A decl \in Decls[s] : HasValue(decl)

VARIABLES live,         \* the styles that are allocated
          style,        \* CRStyle
          families,     \* the heap of font families
          stuck,        \* a loop over a list of families never ends
          call,         \* the last call and its status
          calls,        \* those calls so far
          declared,     \* history: the keyword fields as last filled
          pending,      \* history: filled from scratch and not resolved since
          settled       \* history: resolved, and nothing changed from here to the root

vars == <<live, style, families, stuck, call, calls, declared, pending, settled>>

ComputedFields == NumFields \cup RgbFields \cup {FontSize}

\* s and the styles that have it above them.
Closed(S) == \A k \in live : style[k].parent \in S => k \in S
Under(s) == {k \in live \cup {s} : \A S \in SUBSET (live \cup {s}) : s \in S /\ Closed(S) => k \in S}

-----------------------------------------------------------------------------
(* Font families.                                                            *)

NoFamily == 0
Generic == {"serif", "sans-serif", "cursive", "fantasy", "monospace"}

\* A term that makes no family appends the last one once more, which then is its own
\* successor: the next append never gets to the end of the list.
FamilyStep(acc, t) ==
    IF t.kind = "ident" /\ t.val \notin Generic THEN acc
    ELSE IF t.kind \notin {"ident", "string"}
         THEN [acc EXCEPT !.stuck = @ \/ acc.loop, !.loop = acc.list # <<>>]
    ELSE [acc EXCEPT !.stuck = @ \/ acc.loop, !.list = Append(@, t.val)]

FamilyOf(ts) ==
    LET none == [list |-> <<>>, loop |-> FALSE, stuck |-> FALSE]
    IN  IF IsWord(ts[1], "inherit") THEN [none EXCEPT !.list = <<"inherit">>]
        ELSE FoldLeft(FamilyStep, none, ts)

\* What a declaration is applied to: values, the family held, the heap, and whether the
\* program still runs as C defines it ("ok"), loops ("stuck") or frees twice ("undefined").
Target(st, heap) ==
    [sv |-> st.sv, family |-> st.family, heap |-> heap, end |-> "ok", status |-> "OK"]

SetFontFamily(target, ts) ==
    LET made == FamilyOf(ts)
        old  == target.family
        heap == target.heap
        freed == IF old = NoFamily THEN heap ELSE [heap EXCEPT ![old].live = FALSE]
    IN  IF made.stuck THEN [target EXCEPT !.end = "stuck"]
        ELSE IF made.list = <<>> THEN [target EXCEPT !.status = "OK"]
        ELSE IF old # NoFamily /\ ~heap[old].live THEN [target EXCEPT !.end = "undefined"]
        ELSE IF old # NoFamily /\ heap[old].loop THEN [target EXCEPT !.end = "stuck"]
        ELSE [target EXCEPT !.status = "OK",
                            !.family = Len(heap) + 1,
                            !.heap = Append(freed, [list |-> made.list, loop |-> made.loop,
                                                    live |-> TRUE])]

\* cr_style_set_style_from_decl
Apply(target, decl) ==
    IF target.end # "ok" THEN target
    ELSE IF decl.name = Whole("font-family") THEN SetFontFamily(target, decl.value)
    ELSE LET r == SetValues(target.sv, decl)
         IN  [target EXCEPT !.sv = r.sv, !.status = r.status]

\* The declarations one after the other.
Applied(target, decls) ==
    LET after[i \in 0..Len(decls)] == IF i = 0 THEN target ELSE Apply(after[i - 1], decls[i])
    IN  after[Len(decls)]

-----------------------------------------------------------------------------
(* Default and initial values.                                               *)

Kept == {Whole("white-space"), Whole("font-stretch")}

Defaults ==
    [f \in Fields \ Kept |->
        CASE f[1] \in {"offset", "width"} -> Num("auto", 0)
          [] f[1] \in {"padding", "border-width", "margin"} -> Num("px", 0)
          [] f[1] = "background-color" -> StandardColors["transparent"]
          [] f[1] \in {"border-color", "color"} -> ZeroRgb
          [] f[1] \in {"border-style", "float"} -> "none"
          [] f[1] = "display"  -> "inline"
          [] f[1] = "position" -> "static"
          [] f[1] \in {"font-style", "font-variant", "font-weight"} -> "inherit"
          [] f[1] = "font-size" -> Num("inherit", 0)]

\* Mutant: float is kept as well.
DefaultValuesKeepFloat(sv) ==
    [f \in Fields |->
        IF f \in Kept \cup {Whole("float")} THEN sv[f]
        ELSE IF f = Whole("color") THEN [sv[f] EXCEPT !.inherit = TRUE]
        ELSE Defaults[f]]

\* cr_style_set_props_to_default_values; white-space and font-stretch keep what they hold.
DefaultValues(sv) ==
    [f \in Fields |->
        IF f \in Kept THEN sv[f]
        ELSE IF f = Whole("color") THEN [sv[f] EXCEPT !.inherit = TRUE]
        ELSE Defaults[f]]

\* cr_style_set_props_to_initial_values
InitialValues ==
    [f \in Fields |->
        CASE f[1] = "width" -> Num("px", 800)
          [] f[1] = "display" -> "block"
          [] f[1] \in {"font-style", "font-variant", "font-weight", "font-stretch", "white-space"}
               -> "normal"
          [] f[1] = "font-size" -> Num("medium", 0)
          [] OTHER -> Defaults[f]]

\* Mutant: the flag of an earlier resolution is kept.
ResetKeepsFlag(st, initial) ==
    IF initial
    THEN [st EXCEPT !.sv = InitialValues]
    ELSE [st EXCEPT !.sv = DefaultValues(@), !.parent = NoStyle, !.family = NoFamily,
                    !.cv = [@ EXCEPT ![FontSize] = ZeroSize]]

\* Only the default values forget the parent and the families, and clear the computed size.
Reset(st, initial) ==
    IF initial
    THEN [st EXCEPT !.sv = InitialValues, !.resolved = FALSE]
    ELSE [st EXCEPT !.sv = DefaultValues(@), !.resolved = FALSE, !.parent = NoStyle,
                    !.family = NoFamily, !.cv = [@ EXCEPT ![FontSize] = ZeroSize]]

ZeroStyle ==
    [sv |-> ZeroValues, cv |-> [f \in ComputedFields |-> ZeroValues[f]], parent |-> NoStyle,
     family |-> NoFamily, resolved |-> FALSE, refs |-> 0]

Keywords(st) == [f \in KeyFields |-> st.sv[f]]

-----------------------------------------------------------------------------

Unnoted == [op |-> "none"]     \* calls no property asks for

Init ==
    /\ live = {}
    /\ style = [s \in Styles |-> ZeroStyle]
    /\ families = <<>>
    /\ stuck = FALSE
    /\ call = Unnoted
    /\ calls = 0
    /\ declared = [s \in Styles |-> Keywords(ZeroStyle)]
    /\ pending = {}
    /\ settled = {}

\* s holds st now.
Fill(s, st) ==
    /\ live' = live \cup {s}
    /\ style' = [style EXCEPT ![s] = st]
    /\ declared' = [declared EXCEPT ![s] = Keywords(st)]
    /\ settled' = settled \ Under(s)

Counted ==
    /\ calls < MaxCalls
    /\ calls' = calls + 1

\* cr_style_new
New(s, initial) ==
    /\ ~stuck /\ s \notin live
    /\ Fill(s, Reset(ZeroStyle, initial))
    /\ pending' = pending \cup {s}
    /\ call' = Unnoted
    /\ Counted
    /\ UNCHANGED <<families, stuck>>

\* What set_style_from_props makes of st: the program goes on, or loops.
Populate(s, st, decls) ==
    \E target \in {Applied(Target(st, families), decls)} :
        /\ target.end # "undefined"
        /\ Len(target.heap) <= MaxFamilies
        /\ stuck' = (target.end = "stuck")
        /\ families' = target.heap
        /\ Fill(s, [st EXCEPT !.sv = target.sv, !.family = target.family])

\* cr_sel_eng_get_matched_style, for a node with the declarations props
GetMatchedStyle(s, initial, props) ==
    /\ ~stuck
    /\ ParentOf[s] \in live \cup {NoStyle}
    /\ LET old == IF s \in live THEN style[s] ELSE ZeroStyle
       IN  IF props = <<>>
           THEN UNCHANGED <<live, style, declared, pending, settled, families, stuck>>
           ELSE /\ Populate(s, [Reset(old, initial) EXCEPT !.parent = ParentOf[s]], props)
                /\ pending' = pending \cup {s}
    /\ call' = [op |-> "match", style |-> s, initial |-> initial, props |-> props]
    /\ UNCHANGED calls

SetStyleFromDecl(s, decl) ==
    /\ ~stuck /\ s \in live
    /\ Counted
    /\ Populate(s, style[s], <<decl>>)
    /\ call' = [op |-> "set", style |-> s, decl |-> decl,
                status |-> Apply(Target(style[s], families), decl).status]
    /\ UNCHANGED pending

InheritedKeys == KeyFields \ {Whole("white-space")}

\* A keyword is replaced by the parent's; of the other values the parent's computed value
\* is taken.  white-space is not looked at.
Resolved(st, up) ==
    LET Inherits(f) ==
            IF f \in RgbFields THEN st.sv[f].inherit ELSE st.sv[f].type = "inherit"
    IN  [st EXCEPT
            !.sv = [f \in Fields |->
                      IF f \in InheritedKeys /\ st.sv[f] = "inherit"
                      THEN up.sv[f] ELSE st.sv[f]],
            !.cv = [f \in ComputedFields |-> IF Inherits(f) THEN up.cv[f] ELSE st.cv[f]],
            !.family = IF @ = NoFamily THEN up.family ELSE @,
            !.resolved = TRUE]

\* cr_style_resolve_inherited_properties
ResolveInheritedProperties(s) ==
    /\ ~stuck /\ s \in live
    /\ style[s].parent # NoStyle
    /\ LET up == style[s].parent
           inOrder == up \in settled \/ style[up].parent = NoStyle
       IN  /\ style' = IF style[s].resolved THEN style
                       ELSE [style EXCEPT ![s] = Resolved(@, style[up])]
           /\ settled' = IF s \in pending
                         THEN (settled \ Under(s)) \cup (IF inOrder THEN {s} ELSE {})
                         ELSE settled
    /\ pending' = pending \ {s}
    /\ call' = Unnoted
    /\ UNCHANGED <<live, families, stuck, calls, declared>>

\* cr_style_copy: memcpy, with the parent, the families and the reference count.
Copy(dest, src) ==
    /\ ~stuck /\ dest \in live /\ src \in live /\ dest # src
    /\ src \notin Under(dest)
    /\ Fill(dest, style[src])
    /\ pending' = IF src \in pending THEN pending \cup {dest} ELSE pending \ {dest}
    /\ call' = Unnoted
    /\ Counted
    /\ UNCHANGED <<families, stuck>>

\* cr_style_dup
Dup(dest, src) ==
    /\ ~stuck /\ dest \notin live /\ src \in live
    /\ Fill(dest, style[src])
    /\ pending' = IF src \in pending THEN pending \cup {dest} ELSE pending \ {dest}
    /\ call' = Unnoted
    /\ Counted
    /\ UNCHANGED <<families, stuck>>

Ref(s) ==
    /\ ~stuck /\ s \in live
    /\ style[s].refs < MaxRefs
    /\ style' = [style EXCEPT ![s].refs = @ + 1]
    /\ call' = Unnoted
    /\ Counted
    /\ UNCHANGED <<live, families, stuck, declared, pending, settled>>

\* A style that is the parent of another is not given up: it holds no reference on it.
Childless(s) == \A k \in live : style[k].parent # s

Free(s) ==
    /\ live' = live \ {s}
    /\ style' = [style EXCEPT ![s] = ZeroStyle]
    /\ settled' = settled \ {s}
    /\ pending' = pending \ {s}
    /\ declared' = [declared EXCEPT ![s] = Keywords(ZeroStyle)]

\* cr_style_destroy; the families stay on the heap.
Destroy(s) ==
    /\ ~stuck /\ s \in live /\ Childless(s)
    /\ Free(s)
    /\ call' = Unnoted
    /\ UNCHANGED <<families, stuck, calls>>

\* Mutant: the count goes below zero.
DroppedBelow(refs) == refs - 1

Dropped(refs) == IF refs > 0 THEN refs - 1 ELSE 0

Unref(s) ==
    /\ ~stuck /\ s \in live
    /\ LET left == Dropped(style[s].refs)
       IN  IF left = 0
           THEN Childless(s) /\ Free(s)
           ELSE /\ style' = [style EXCEPT ![s].refs = left]
                /\ UNCHANGED <<live, declared, pending, settled>>
    /\ call' = Unnoted
    /\ UNCHANGED <<families, stuck, calls>>

Next ==
    \E s \in Styles :
        \/ \E initial \in InitialFor[s] : New(s, initial)
        \/ \E initial \in InitialFor[s], props \in PropLists[s] : GetMatchedStyle(s, initial, props)
        \/ \E decl \in Decls[s] : SetStyleFromDecl(s, decl)
        \/ ResolveInheritedProperties(s)
        \/ \E t \in Styles : Copy(s, t) \/ Dup(s, t)
        \/ Ref(s)
        \/ Unref(s)
        \/ Destroy(s)

Spec == Init /\ [][Next]_vars

-----------------------------------------------------------------------------
(* Properties.                                                               *)

\* Styles hold values of their fields, families that were made, and counts in range
\* (cr_style_unref stops at 0).
TypeOK ==
    /\ settled \cup pending \subseteq live
    /\ calls \in 0..MaxCalls
    /\ \A s \in live :
         /\ DOMAIN style[s].sv = Fields /\ \A f \in Fields : Held(style[s].sv[f], f)
         /\ DOMAIN style[s].cv = ComputedFields
         /\ \A f \in ComputedFields : Held(style[s].cv[f], f)
         /\ style[s].parent \in Styles \cup {NoStyle}
         /\ style[s].family \in 0..Len(families)
         /\ style[s].refs \in 0..MaxRefs

\* A style that was filled and then resolved, after its parent and with no change above it
\* since, has in each keyword field what was declared for it or, where that was
\* "inherit", what its parent has, up to the root: however often the style was used
\* before, none is passed over (cr_style_resolve_inherited_properties).
KeywordsAreInherited ==
    \A s \in settled : \A f \in KeyFields \ {Whole("white-space")} :
        style[s].sv[f] = IF declared[s][f] = "inherit"
                         THEN style[style[s].parent].sv[f] ELSE declared[s][f]

\* The same of the values that are numbers or colours, as the comment of the function
\* has it: an inheriting style's value is the one its parent has.
Effective(st, f) ==
    IF (f \in RgbFields /\ st.sv[f].inherit) \/ (f \notin RgbFields /\ st.sv[f].type = "inherit")
    THEN st.cv[f] ELSE st.sv[f]

ValuesAreInherited ==
    \A s \in settled : \A f \in ComputedFields :
        Effective(style[s], f) # style[s].sv[f] =>
            Effective(style[s], f) = Effective(style[style[s].parent], f)

\* The term that gives a side its value when there are n of them, as CSS2 has it.
SideTerm(dir, n) ==
    CASE dir = "top"    -> 1
      [] dir = "right"  -> IF n = 1 THEN 1 ELSE 2
      [] dir = "bottom" -> IF n <= 2 THEN 1 ELSE 3
      [] dir = "left"   -> IF n = 1 THEN 1 ELSE IF n = 4 THEN 4 ELSE 2

\* Each side of a border gets the term CSS2 gives it, though the code writes the first
\* to all sides and the others over it (set_prop_border_width_from_value and
\* set_prop_border_style_from_value).
BordersAreSpreadAsCSS ==
    call.op = "set" =>
        \A group \in {"border-width", "border-style"} :
            LET ts == call.decl.value
                From(t, dir) == SetSide(group, ZeroValues, t, dir)
            IN  /\ call.decl.name = <<group, "all">>
                /\ Len(ts) <= 4
                /\ \A i \in DOMAIN ts : From(ts[i], "top").status = "OK"
                => \A dir \in Sides : style[call.style].sv[<<group, dir>>] =
                      From(ts[SideTerm(dir, Len(ts))], dir).sv[<<group, dir>>]

\* The fields a property is about.
Covered(name) ==
    LET groups == IF name[1] = "border" THEN {"border-width", "border-style", "border-color"}
                  ELSE {name[1]}
    IN  {f \in Fields : f[1] \in groups /\ (name[2] = "all" \/ f[2] = name[2])}

\* Properties that may be refused halfway: the colours of borders, which become black,
\* the size of the font, which is cleared, and a padding whose second number is refused
\* when the first is set.
Halfway == Sided("border-color") \cup {FontSize, <<"padding", "all">>}

\* A declaration changes the fields of its property only, and of the side it names; one
\* that is refused with an error has changed nothing, apart from those of Halfway.  Of
\* the left border's colour neither is true, and nothing is claimed.
OnlyTheNamedFieldsChange ==
    [][ call'.op = "set" /\ call'.decl.name # <<"border-color", "left">> =>
          LET refused == call'.status # "OK" /\ call'.decl.name \notin Halfway
          IN  /\ \A f \in Fields \ Covered(call'.decl.name) :
                   style'[call'.style].sv[f] = style[call'.style].sv[f]
              /\ refused => style' = style /\ families' = families ]_vars

\* A style filled again, for another node, with its default values has the values a new
\* one would have: nothing is left of the node before.  white-space and font-stretch
\* are left, and so are the components of a color that is set to inherit.
Same(sv, other, f) ==
    \/ sv[f] = other[f]
    \/ f \in RgbFields /\ sv[f].inherit /\ other[f].inherit

RefillingForgets ==
    [][ call'.op = "match" /\ call'.props # <<>> /\ ~stuck' =>
          LET s    == call'.style
              new  == Reset(ZeroStyle, call'.initial)
              want == Applied(Target(new, <<>>), call'.props)
          IN  \A f \in Fields \ Kept :
                  Same(style'[s].sv, want.sv, f) ]_vars

=============================================================================
