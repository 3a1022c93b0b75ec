------------------------------ MODULE MCStyle ------------------------------
(***************************************************************************)
(* Three styles in a row, each the parent of the next, filled from a few   *)
(* lists of declarations; and a style on its own for declarations of every *)
(* property with values of every kind.                                     *)
(***************************************************************************)
EXTENDS CRStyle

CONSTANTS Root, Child, Leaf, Lone

Term(kind, val) == [kind |-> kind, val |-> val, num |-> ZeroNum]
Number(type, n) == [kind |-> "number", val |-> "", num |-> Num(type, n)]

Word(w)   == Term("ident", w)
Px(n)     == Number("px", n)
Plain(n)  == Number("generic", n)
Degrees   == Number("deg", 1)
Quoted(w) == Term("string", w)
Colour(c) == Term("rgb", c)
Hash(c)   == Term("hash", c)
Other     == Term("other", "")

Decl(name, terms) == [name |-> name, value |-> terms]
One(group, t) == Decl(Whole(group), <<t>>)

Parents == Root :> NoStyle @@ Child :> Root @@ Leaf :> Child @@ Lone :> NoStyle

\* Values with one term, right or wrong, for every property.
Terms == {Word("inherit"), Word("auto"), Word("none"), Word("solid"), Word("thin"),
          Word("table-row"), Word("red"), Word("unknown"), Px(1), Plain(450), Degrees,
          Colour("red"), Hash("bad"), Other}

Singles == {Decl(name, <<t>>) : name \in SidedNames \cup WholeNames \cup {Whole("unknown")},
                                t \in Terms}

Words == {Decl(name, <<Word(w)>>) : name \in WholeNames,
             w \in {"left", "fixed", "bold", "italic", "pre", "inline-table", "larger",
                    "transparent", "inherited"}}

\* Lists of terms for the shorthands.
Lists(T, n) == UNION {[1..k -> T] : k \in 2..n}

Spreads ==
    {Decl(<<"border-width", "all">>, ts) : ts \in Lists({Px(1), Word("thin"), Word("thick")}, 4)}
    \cup {Decl(<<"border-style", "all">>, ts) :
             ts \in Lists({Word("solid"), Word("none"), Px(1)}, 4)}
    \cup {Decl(<<g, "all">>, ts) : g \in {"padding", "margin"},
             ts \in Lists({Px(1), Px(2), Degrees, Word("auto")}, 3)}
    \cup {Decl(<<"border", dir>>, ts) : dir \in {"all", "left"},
             ts \in Lists({Px(1), Word("solid"), Word("red"), Word("unknown")}, 3)}

FamilyDecls ==
    {Decl(Whole("font-family"), ts) :
        ts \in UNION {[1..k -> {Word("serif"), Word("inherit"), Quoted("Times"), Other}] : k \in 1..3}}

AllDecls == Singles \cup Words \cup Spreads \cup FamilyDecls

\* What is set for the styles below, and on them one by one.
Serif == Decl(Whole("font-family"), <<Word("serif")>>)
Inheriting ==
    <<One("display", Word("inherit")), Decl(<<"border-style", "all">>, <<Word("inherit")>>), Serif>>
Mixed ==
    <<One("position", Word("inherit")), One("float", Word("inherit")), One("color", Word("red"))>>

RootLists ==
    {<<>>, <<One("font-weight", Word("bold")), One("white-space", Word("pre"))>>,
     <<One("position", Word("fixed")), One("font-size", Px(1)),
       Decl(Whole("font-family"), <<Word("serif"), Other>>)>>}

SmallInitial == Root :> BOOLEAN @@ Child :> {FALSE} @@ Leaf :> {FALSE} @@ Lone :> BOOLEAN
SmallLists == Root :> RootLists @@ Child :> {Inheriting} @@ Leaf :> {Mixed} 
                @@ Lone :> {<<One("display", Word("block")), One("position", Word("fixed"))>>}
SmallDecls == Root :> {} @@ Child :> {Serif, One("display", Word("inherit"))} @@ Leaf :> {}
                @@ Lone :> AllDecls

\* Bound: the style on its own meets no other.
OnItsOwn == Lone \in live => live = {Lone}

=============================================================================
