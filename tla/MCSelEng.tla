------------------------------ MODULE MCSelEng ------------------------------
(***************************************************************************)
(* The selection engine on small documents and cascades, with the matching *)
(* of CRSelMatch.                                                          *)
(***************************************************************************)
EXTENDS CRSelection, TLC

CONSTANTS MaxSimple,        \* simple selectors in a selector
          MaxRules          \* statements in a cascade

\* 0 is the document and 1 its root; 2 and 3 are the children of the root, 4, 5 (a
\* text) and 6 those of 3, and 7 is in 6.
TreeParent == <<0, 1, 1, 3, 3, 3, 6>> @@ 0 :> NoNode
TreePrev   == <<NoNode, NoNode, 2, NoNode, 4, 5, NoNode>> @@ 0 :> NoNode
TreeKind   == 0 :> "document" @@ 5 :> "text"

NoAttrs == [a \in {} |-> <<>>]

Tree(names, attrs) ==
    [parent |-> TreeParent, prev |-> TreePrev,
     kind   |-> TreeKind @@ [n \in Nodes |-> "element"],
     name   |-> names @@ [n \in Nodes |-> "-"],
     attrs  |-> attrs @@ [n \in Nodes |-> NoAttrs]]

\* Every way to name four of the elements; 7 is named b.
NamedTrees == {Tree(names @@ 1 :> "a" @@ 7 :> "b", <<>>) :
                  names \in [{2, 3, 4, 6} -> {"a", "b"}]}

\* Attributes with words that contain one another, and languages.
AttributeTree(attrs) ==
    Tree(1 :> "a" @@ 2 :> "b" @@ 3 :> "a" @@ 4 :> "b" @@ 6 :> "a" @@ 7 :> "a",
         attrs
      @@ 1 :> ("lang" :> <<"e", "n">>)
      @@ 3 :> ("class" :> <<"x", " ", "x", "y">> @@ "lang" :> <<"f", "r">>)
      @@ 4 :> ("class" :> <<"x", "y", "x">> @@ "id" :> <<"i">>)
      @@ 6 :> ("class" :> <<" ", "y", " ", "x">> @@ "lang" :> <<"e", "n", "-", "u">>)
      @@ 7 :> ("class" :> <<"y", "x", " ", "x", "y">> @@ "id" :> <<"i">>))

BaseTree == AttributeTree(<<>>)

\* A word of its own, behind one that begins with it, inside, at both ends, at the end.
Classes == {<<"x">>, <<"x", "y", " ", "x">>, <<"y", "x", "y">>, <<"x", "y", "x">>,
            <<"y", "x", " ">>, <<>>}

\* A language, with more to it, behind another, in a longer one, at the end of one.
Langs == {<<"e", "n">>, <<"e", "n", "-", "u">>, <<"u", "-", "e", "n">>, <<"e", "n", "u">>,
          <<"u", "e", "n">>, <<"e", "-", "n">>, <<"-">>, <<>>}

Valued(n) == {AttributeTree(n :> ("class" :> c)) : c \in Classes}
             \cup {AttributeTree(n :> ("lang" :> l)) : l \in Langs}

PlainSel(type, name, comb) == [type |-> type, name |-> name, comb |-> comb, adds |-> <<>>]

TypeSels(comb) == {PlainSel("type", name, comb) : name \in {"a", "b"}}

RECURSIVE TypeSelectors(_)
TypeSelectors(n) ==
    IF n = 1 THEN {<<s>> : s \in TypeSels("none")}
    ELSE {Append(sel, s) : sel \in TypeSelectors(n - 1),
                           s \in UNION {TypeSels(c) : c \in {"ws", "plus", "gt"}}}

Add(kind, name, way, value) == [kind |-> kind, name |-> name, way |-> way, value |-> value]

ValueAdds == {Add("class", "class", "class", <<"x">>), Add("class", "class", "class", <<"x", "y">>),
              Add("attr", "class", "includes", <<"x">>),
              Add("attr", "class", "includes", <<"x", "y">>),
              Add("attr", "lang", "dashmatch", <<"e", "n">>),
              Add("attr", "lang", "dashmatch", <<"e", "n", "-", "u">>),
              Add("attr", "lang", "dashmatch", <<>>)}

Adds == ValueAdds \cup
        {Add("id", "id", "equals", <<"i">>), Add("attr", "class", "set", <<>>),
         Add("pseudo", "lang", "function", <<"e", "n">>),
         Add("pseudo", "first-child", "ident", <<>>)}

Bare(comb, adds) == [type |-> "none", name |-> "", comb |-> comb, adds |-> adds]

\* Two additional selectors, one on the node, one on another.
AddSelectors ==
    {<<[type |-> "type", name |-> "a", comb |-> "none", adds |-> <<x, y>>]>> : x, y \in Adds}
    \cup {<<PlainSel("universal", "*", "none"), Bare(c, <<x>>)>> :
               x \in Adds, c \in {"ws", "plus", "gt"}}

Ruleset(sels, decls) == [type |-> "ruleset", sels |-> sels, decls |-> decls]

\* One ruleset, in the author's sheet.
OneRule(sel) == 0 :> NoSheet @@ 1 :> NoSheet @@ 2 :> <<Ruleset(<<sel>>, <<>>)>>

\* Names, to the last of them that of the node; additional selectors; and values, at the
\* node asked for or at its parent.
Matching == NamedTrees \X {OneRule(sel) : sel \in {s \in TypeSelectors(MaxSimple) : Last(s).name = "b"}}
            \cup {BaseTree} \X {OneRule(sel) : sel \in AddSelectors}
            \cup Valued(7) \X {OneRule(<<Bare("none", <<x>>)>>) : x \in ValueAdds}
            \cup Valued(6) \X
                  {OneRule(<<Bare("none", <<x>>), PlainSel("universal", "*", "gt")>>) : x \in ValueAdds}

\* Statements that match an element named a once or twice, and one named b not at all or
\* twice: what matches last is not the same.
Decl(p, important) == [prop |-> p, important |-> important]

Once  == <<<<PlainSel("type", "a", "none")>>>>
Twice == <<<<PlainSel("type", "a", "none")>>, <<PlainSel("universal", "*", "none")>>,
           <<PlainSel("type", "b", "none")>>>>

Rulesets == {Ruleset(Once, <<Decl("p", FALSE)>>), Ruleset(Once, <<Decl("p", TRUE)>>),
             Ruleset(Twice, <<Decl("q", FALSE), Decl("p", FALSE)>>)}

\* An @media rule with one other statement at most.
Rules(n) == IF n > 2 THEN Rulesets
            ELSE Rulesets \cup {[type |-> "media", sels |-> Once, decls |-> <<>>]}

\* The statements, each with its origin, shared out to the sheets.
Cascade(rules, from) ==
    [o \in Origins |->
        IF from[1] > o THEN NoSheet
        ELSE LET at == SetToSortSeq({i \in DOMAIN rules : from[i] = o}, <)
             IN  [j \in DOMAIN at |-> rules[at[j]]]]

Cascading ==
    {BaseTree} \X
    UNION {{Cascade(rules, from) : rules \in [1..n -> Rules(n)],
               from \in {f \in [1..n -> Origins] : \A i \in 2..n : f[i - 1] <= f[i]}} :
              n \in 1..MaxRules}

SmallInstances == Matching \cup Cascading

\* A ruleset with more selectors that match a node than the table has room for.
LongList ==
    {BaseTree} \X
    {0 :> NoSheet @@ 1 :> NoSheet
     @@ 2 :> <<Ruleset([i \in 1..Chunk + 1 |-> Once[1]], <<Decl("p", FALSE)>>)>>}

FirstChild == [name |-> "first-child", type |-> "ident", fn |-> "first_child"]
Lang       == [name |-> "lang", type |-> "function", fn |-> "lang"]
AnyLang    == [name |-> "lang", type |-> "function", fn |-> "any"]
Registrable == {AnyLang}
BuiltinHandlers == <<FirstChild, Lang>>
=============================================================================
