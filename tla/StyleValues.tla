---------------------------- MODULE StyleValues ----------------------------
(***************************************************************************)
(* How one declaration sets the specified values of a style                *)
(* (cr_style_set_style_from_decl and the set_prop_ functions of cr-style.c,*)
(* with the colours of cr-rgb.c).  The specified values are a function of  *)
(* fields, a field being a pair of a group and a side; every setter gives  *)
(* the values after it and its status.  Font families are in CRStyle.      *)
(***************************************************************************)
EXTENDS Integers, Sequences, SequencesExt, FiniteSetsExt, TLC

CONSTANT Tints      \* the colours of the documents

\* Those of gv_standard_colors that are told apart.
ASSUME TintsAssumption == {"black", "red", "white"} \subseteq Tints

Dirs == <<"top", "right", "bottom", "left">>     \* DIR_TOP, ...
Sides == {"top", "right", "bottom", "left"}

Sided(group) == {<<group, dir>> : dir \in Sides}
Whole(group) == <<group, "">>

\* CRNumProp, CRRgbProp, and the fields that hold a keyword only.
NumFields == {Whole("width")}
                \cup UNION {Sided(g) : g \in {"offset", "padding", "border-width", "margin"}}
RgbFields == Sided("border-color") \cup {Whole("color"), Whole("background-color")}
KeyFields == Sided("border-style") \cup
    {Whole(g) : g \in {"display", "position", "float", "font-style", "font-variant",
                       "font-weight", "font-stretch", "white-space"}}
FontSize  == Whole("font-size")
Fields    == NumFields \cup RgbFields \cup KeyFields \cup {FontSize}

\* The words of the keyword fields; "inline" and "table" come before the longer words of
\* disp_vals_map that they begin.
BorderStyles == <<"none", "hidden", "dotted", "dashed", "solid", "double", "groove",
                  "ridge", "inset", "outset", "inherit">>
DisplayWords == <<"none", "inline", "block", "run-in", "compact", "marker", "table",
                  "inline-table", "table-row", "table-cell", "inherit">>
PositionWords == <<"static", "relative", "absolute", "fixed", "inherit">>
FloatWords  == <<"none", "left", "right", "inherit">>
FontStyles  == {"normal", "italic", "oblique", "inherit"}
FontWeights == {"normal", "bold", "bolder", "lighter", "inherit"}
Weights     == <<"100", "200", "300", "400", "500", "600", "700", "800", "900">>
WhiteSpaces == {"normal", "pre", "nowrap", "inherit"}
FontSizeWords == {"xx-small", "x-small", "small", "medium", "large", "x-large", "xx-large",
                  "larger", "smaller", "inherit"}

WordsOf(group) ==
    CASE group = "border-style" -> Range(BorderStyles)
      [] group = "display"      -> Range(DisplayWords)
      [] group = "position"     -> Range(PositionWords)
      [] group = "float"        -> Range(FloatWords)
      [] group = "font-style"   -> FontStyles
      [] group = "font-weight"  -> {"unset"} \cup FontWeights \cup Range(Weights)
      [] group = "white-space"  -> WhiteSpaces
      [] group \in {"font-variant", "font-stretch"} -> {"normal", "inherit"}

\* What the fields hold: numbers, colours, words, and the size of the font.
NumTypes == {"auto", "inherit", "px", "em", "percentage", "generic", "deg"}
Nums    == [type : NumTypes, val : Int]
Colours == [c : Tints, inherit : BOOLEAN, clear : BOOLEAN]
Sizes   == [type : NumTypes \cup FontSizeWords, val : Int]

Held(v, f) == /\ f \in NumFields => v \in Nums
              /\ f \in RgbFields => v \in Colours
              /\ f \in KeyFields => v \in WordsOf(f[1])
              /\ f = FontSize => v \in Sizes

Num(type, val) == [type |-> type, val |-> val]
Rgb(c, inherit, clear) == [c |-> c, inherit |-> inherit, clear |-> clear]

\* What memset leaves: the first member of each enumeration.
ZeroNum == Num("auto", 0)
ZeroRgb == Rgb("black", FALSE, FALSE)
ZeroSize == Num("xx-small", 0)
ZeroValues ==
    [f \in Fields |->
        CASE f \in NumFields -> ZeroNum
          [] f \in RgbFields -> ZeroRgb
          [] f = FontSize    -> ZeroSize
          [] f[1] \in {"border-style", "display", "float"} -> "none"
          [] f[1] = "position"    -> "static"
          [] f[1] = "font-weight" -> "unset"
          [] OTHER -> "normal"]

-----------------------------------------------------------------------------
(* Terms: a kind, a word, name or colour, and a number.  Most keywords are   *)
(* compared with strncmp and the length of the keyword: a longer word that   *)
(* begins with one is taken for it.                                          *)

Longer == {<<"inline-table", "inline">>, <<"table-row", "table">>, <<"table-cell", "table">>,
           <<"inherited", "inherit">>, <<"solidus", "solid">>, <<"thinner", "thin">>}

IsTerm(t) == /\ t.num \in Nums
             /\ t.kind = "rgb" \/ (t.kind = "hash" /\ t.val # "bad") => t.val \in Tints

Begins(word, key) == word = key \/ <<word, key>> \in Longer

IsWord(t, key)    == t.kind = "ident" /\ t.val = key
BeginsWith(t, key) == t.kind = "ident" /\ Begins(t.val, key)

Put(sv, f, v)      == [sv |-> [sv EXCEPT ![f] = v], status |-> "OK"]
Refuse(sv, status) == [sv |-> sv, status |-> status]

\* Where the first word of the table is that t begins with, or 0.
FirstWord(table, t) == SelectInSeq(table, LAMBDA key : BeginsWith(t, key))

\* Sets f to that word, if there is one.
PutFirst(sv, f, t, table, otherwise) ==
    LET i == FirstWord(table, t)
    IN  IF i # 0 THEN Put(sv, f, table[i]) ELSE Refuse(sv, otherwise)

-----------------------------------------------------------------------------
(* One side.                                                                 *)

Lengths == {"px", "em", "percentage"}      \* the types of number padding accepts

PaddingX(sv, t, dir) ==
    LET f == <<"padding", dir>>
    IN  IF t.kind \notin {"number", "ident"} THEN Refuse(sv, "BAD_PARAM")
        ELSE IF BeginsWith(t, "inherit") THEN Put(sv, f, Num("inherit", 0))
        ELSE IF t.kind = "number" /\ t.num.type \in Lengths THEN Put(sv, f, t.num)
        ELSE Refuse(sv, "UNKNOWN_TYPE")

\* BORDER_THIN, BORDER_MEDIUM, BORDER_THICK
BorderWords == <<"thin", "medium", "thick">>
BorderPx    == <<2, 4, 6>>

BorderXWidth(sv, t, dir) ==
    LET f == <<"border-width", dir>>
        i == FirstWord(BorderWords, t)
    IN  IF i # 0 THEN Put(sv, f, Num("px", BorderPx[i]))
        ELSE IF t.kind = "number" THEN Put(sv, f, t.num)
        ELSE Refuse(sv, "UNKNOWN_TYPE")

BorderXStyle(sv, t, dir) ==
    PutFirst(sv, <<"border-style", dir>>, t, BorderStyles, "UNKNOWN_TYPE")

MarginX(sv, t, dir) ==
    LET f == <<"margin", dir>>
    IN  IF IsWord(t, "inherit") \/ IsWord(t, "auto") THEN Put(sv, f, Num(t.val, 0))
        ELSE IF t.kind = "number" THEN Put(sv, f, t.num)
        ELSE Refuse(sv, "UNKNOWN_TYPE")

\* set_prop_x_from_value: an unknown word leaves the field with the type "auto".
OffsetX(sv, t, dir) ==
    LET f == <<"offset", dir>>
    IN  IF t.kind \notin {"number", "ident"} THEN Refuse(sv, "UNKNOWN_PROP_VAL")
        ELSE IF t.kind = "number" THEN Put(sv, f, t.num)
        ELSE IF BeginsWith(t, "inherit") THEN Put(sv, f, Num("inherit", 0))
        ELSE Put(sv, f, [sv[f] EXCEPT !.type = "auto"])

-----------------------------------------------------------------------------
(* Colours.                                                                  *)

\* gv_standard_colors; "transparent" is one of them.
StandardColors ==
    [name \in {"black", "red", "transparent"} |->
        IF name = "transparent" THEN Rgb("white", FALSE, TRUE) ELSE Rgb(name, FALSE, FALSE)]

\* cr_rgb_set_from_name
FromName(sv, f, name) ==
    IF name \in DOMAIN StandardColors THEN Put(sv, f, StandardColors[name])
    ELSE Refuse(sv, "UNKNOWN_TYPE")

\* cr_rgb_set_from_term; of a hash term, val is the colour or "bad".
FromTerm(sv, f, t) ==
    IF t.kind = "rgb" THEN Put(sv, f, Rgb(t.val, FALSE, FALSE))
    ELSE IF BeginsWith(t, "inherit") THEN Put(sv, f, Rgb(sv[f].c, TRUE, FALSE))
    ELSE IF t.kind = "ident" THEN FromName(sv, f, t.val)
    ELSE IF t.kind = "hash" /\ t.val # "bad" THEN Put(sv, f, Rgb(t.val, FALSE, FALSE))
    ELSE Refuse(sv, "UNKNOWN_TYPE")

\* An unknown name is refused and makes the border black.
BorderXColor(sv, t, dir) ==
    LET f == <<"border-color", dir>>
    IN  IF t.kind = "rgb" THEN Put(sv, f, Rgb(t.val, FALSE, FALSE))
        ELSE IF t.kind # "ident" THEN Refuse(sv, "UNKNOWN_PROP_VAL")
        ELSE LET named == FromName(sv, f, t.val)
             IN  IF named.status = "OK" THEN named
                 ELSE Refuse(FromName(sv, f, "black").sv, named.status)

-----------------------------------------------------------------------------
(* Shorthands.                                                               *)

\* One side of what a shorthand sets.
SetSide(group, sv, t, dir) ==
    CASE group = "padding"      -> PaddingX(sv, t, dir)
      [] group = "border-width" -> BorderXWidth(sv, t, dir)
      [] group = "border-style" -> BorderXStyle(sv, t, dir)
      [] group = "margin"       -> MarginX(sv, t, dir)

\* Sets sides one after the other, each from a term, as writes says.
Spread(group, sv, ts, writes) ==
    LET after[i \in 0..Len(writes)] ==
            IF i = 0 THEN sv
            ELSE SetSide(group, after[i - 1], ts[writes[i].term], writes[i].dir).sv
    IN  after[Len(writes)]

Write(dir, term) == [dir |-> dir, term |-> term]
All(term) == [i \in 1..4 |-> Write(Dirs[i], term)]

\* Mutant: two terms also set the bottom.
BorderWritesBottom(n) ==
    All(1) \o (IF n >= 2 THEN <<Write("right", 2), Write("bottom", 2), Write("left", 2)>> ELSE <<>>)
           \o (IF n >= 3 THEN <<Write("bottom", 3)>> ELSE <<>>)
           \o (IF n >= 4 THEN <<Write("left", 4)>> ELSE <<>>)

\* The sides that 1, 2, 3, and 4 or more terms set.
BorderWrites(n) ==
    All(1) \o (IF n >= 2 THEN <<Write("right", 2), Write("left", 2)>> ELSE <<>>)
           \o (IF n >= 3 THEN <<Write("bottom", 3)>> ELSE <<>>)
           \o (IF n >= 4 THEN <<Write("left", 4)>> ELSE <<>>)

BorderWidth(sv, ts) ==
    [sv |-> Spread("border-width", sv, ts, BorderWrites(Len(ts))), status |-> "OK"]

\* The words before the first other term.
BorderStyle(sv, ts) ==
    LET other == SelectInSeq(ts, LAMBDA t : t.kind # "ident")
        n     == IF other = 0 THEN Len(ts) ELSE other - 1
    IN  IF n = 0 THEN Refuse(sv, "ERROR")
        ELSE [sv |-> Spread("border-style", sv, ts, BorderWrites(n)), status |-> "OK"]

\* The loops behind the second number find it again: it is also the third and fourth.
BoxWrites(n) ==
    All(1) \o (IF n >= 2 THEN <<Write("right", 2), Write("left", 2), Write("bottom", 2),
                                Write("left", 2)>>
               ELSE <<>>)

Box(group, sv, ts, without) ==
    LET numbers == {i \in DOMAIN ts : ts[i].kind = "number"}
        first   == Min(numbers)
        second  == Min(numbers \ {first})
        one     == numbers = {first}
    IN  IF numbers = {} THEN Refuse(sv, without)
        ELSE [sv     |-> Spread(group, sv, IF one THEN <<ts[first]>> ELSE <<ts[first], ts[second]>>,
                                BoxWrites(IF one THEN 1 ELSE 2)),
              status |-> IF one THEN "OK" ELSE SetSide(group, sv, ts[second], "left").status]

Padding(sv, ts) == Box("padding", sv, ts, "ERROR")
Margin(sv, ts)  == Box("margin", sv, ts, "OK")

\* Each term is tried as a width, as a style and as a colour.
BorderTerm(sv, t, dir) ==
    LET width == BorderXWidth(sv, t, dir)
        line  == BorderXStyle(sv, t, dir)
    IN  IF width.status = "OK" THEN width.sv
        ELSE IF line.status = "OK" THEN line.sv
        ELSE BorderXColor(sv, t, dir).sv

BorderX(sv, ts, dir) ==
    LET after[i \in 0..Len(ts)] ==
            IF i = 0 THEN sv ELSE BorderTerm(after[i - 1], ts[i], dir)
    IN  [sv |-> after[Len(ts)], status |-> "OK"]

Border(sv, ts) ==
    LET top   == BorderX(sv, ts, "top").sv
        right == BorderX(top, ts, "right").sv
        below == BorderX(right, ts, "bottom").sv
    IN  BorderX(below, ts, "left")

-----------------------------------------------------------------------------
(* Words.                                                                    *)

Display(sv, t) == PutFirst(sv, Whole("display"), t, DisplayWords, "OK")

\* Mutant: the default first, as for "float".
PositionStaticFirst(sv, t) ==
    PutFirst(Put(sv, Whole("position"), "static").sv, Whole("position"), t, PositionWords,
             "UNKNOWN_PROP_VAL")

Position(sv, t) == PutFirst(sv, Whole("position"), t, PositionWords, "UNKNOWN_PROP_VAL")

\* What is no word of the table means "none".
Float(sv, t) ==
    PutFirst(Put(sv, Whole("float"), "none").sv, Whole("float"), t, FloatWords, "OK")

Width(sv, t) ==
    Put(sv, Whole("width"),
        IF t.kind = "number" THEN t.num
        ELSE IF BeginsWith(t, "inherit") THEN Num("inherit", 0)
        ELSE Num("auto", 0))

PutWord(sv, f, t, words) ==
    IF t.kind = "ident" /\ t.val \in words THEN Put(sv, f, t.val)
    ELSE Refuse(sv, "UNKNOWN_PROP_VAL")

FontStyle(sv, t) == PutWord(sv, Whole("font-style"), t, FontStyles)

\* A number without a unit is rounded to hundreds.
FontWeight(sv, t) ==
    LET f == Whole("font-weight")
    IN  IF t.kind # "number"
        THEN PutWord(sv, f, t, FontWeights)
        ELSE IF t.num.type \notin {"generic", "auto"} THEN Refuse(sv, "OK")
        ELSE Put(sv, f, Weights[CHOOSE w \in 1..9 :
                                    /\ w = 9 \/ t.num.val <= 100 * w + 50
                                    /\ w = 1 \/ t.num.val > 100 * w - 50])

WhiteSpace(sv, t) == PutWord(sv, Whole("white-space"), t, WhiteSpaces)

\* What is refused has cleared the field (init_style_font_size_field).
SetFontSize(sv, t) ==
    IF t.kind = "ident" /\ t.val \in FontSizeWords THEN Put(sv, FontSize, Num(t.val, 0))
    ELSE IF t.kind = "number" THEN Put(sv, FontSize, t.num)
    ELSE Refuse(Put(sv, FontSize, ZeroSize).sv, "UNKNOWN_PROP_VAL")

-----------------------------------------------------------------------------

\* cr_style_set_style_from_decl for the names with a side or a shorthand: the left
\* border's colour goes to the bottom border.
SetSided(sv, name, ts) ==
    LET group == name[1]
        dir   == name[2]
        all   == dir = "all"
        t     == ts[1]
    IN  CASE group = "padding"      -> IF all THEN Padding(sv, ts) ELSE PaddingX(sv, t, dir)
          [] group = "border-width" -> IF all THEN BorderWidth(sv, ts) ELSE BorderXWidth(sv, t, dir)
          [] group = "border-style" -> IF all THEN BorderStyle(sv, ts) ELSE BorderXStyle(sv, t, dir)
          [] group = "border-color" -> BorderXColor(sv, t, IF dir = "left" THEN "bottom" ELSE dir)
          [] group = "border"       -> IF all THEN Border(sv, ts) ELSE BorderX(sv, ts, dir)
          [] group = "margin"       -> IF all THEN Margin(sv, ts) ELSE MarginX(sv, t, dir)
          [] group = "offset"       -> OffsetX(sv, t, dir)

SetWhole(sv, group, t) ==
    CASE group = "display"          -> Display(sv, t)
      [] group = "position"         -> Position(sv, t)
      [] group = "float"            -> Float(sv, t)
      [] group = "width"            -> Width(sv, t)
      [] group \in {"color", "background-color"} -> FromTerm(sv, Whole(group), t)
      [] group = "font-size"        -> SetFontSize(sv, t)
      [] group = "font-style"       -> FontStyle(sv, t)
      [] group = "font-weight"      -> FontWeight(sv, t)
      [] group = "white-space"      -> WhiteSpace(sv, t)

\* gv_prop_table
Shorthands == {<<g, "all">> : g \in {"padding", "border-width", "border-style", "border", "margin"}}
SidedNames == Shorthands \cup
    UNION {Sided(g) : g \in {"padding", "border-width", "border-style", "border-color", "border",
                             "margin", "offset"}}
WholeNames == {Whole(g) : g \in {"display", "position", "float", "width", "color",
                                 "background-color", "font-size", "font-style", "font-weight",
                                 "white-space"}}

\* A declaration of any property but font-family.
SetValues(sv, decl) ==
    IF decl.name \in SidedNames THEN SetSided(sv, decl.name, decl.value)
    ELSE IF decl.name \in WholeNames THEN SetWhole(sv, decl.name[1], decl.value[1])
    ELSE Refuse(sv, "UNKNOWN_TYPE")

=============================================================================
