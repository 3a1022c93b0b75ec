----------------------------- MODULE CRSelMatch -----------------------------
(***************************************************************************)
(* How the selection engine (cr-sel-eng.c) decides whether a selector      *)
(* matches a node, how specific a selector is (cr-simple-sel.c), and the   *)
(* relation of CSS2 both are meant to compute.                             *)
(*                                                                         *)
(* Nodes are numbered in document order.  A document d gives each node its *)
(* kind, parent, previous sibling, name and attributes; the value of an    *)
(* attribute is a sequence of characters.  A selector is a sequence of     *)
(* simple selectors, each with the combinator before it and the sequence   *)
(* of its additional selectors.                                            *)
(***************************************************************************)
EXTENDS Integers, Sequences, FiniteSets, SequencesExt, FiniteSetsExt

CONSTANTS Nodes, NoNode

-----------------------------------------------------------------------------
(* Words: attribute values against the name or value in a selector.          *)

\* The longest non-empty runs of v without the character sep.
Runs(v, sep) ==
    {SubSeq(v, r[1], r[2]) : r \in
        {q \in (DOMAIN v) \X (DOMAIN v) :
            /\ q[1] <= q[2]
            /\ \A k \in q[1]..q[2] : v[k] # sep
            /\ q[1] = 1 \/ v[q[1] - 1] = sep
            /\ q[2] = Len(v) \/ v[q[2] + 1] = sep}}

Words(v) == Runs(v, " ")

SkipSpaces(v, i) == Min({j \in i..Len(v) + 1 : j > Len(v) \/ v[j] # " "})
SkipWord(v, i)   == Min({j \in i..Len(v) + 1 : j > Len(v) \/ v[j] = " "})

StartsAt(w, v, i) == IsPrefix(w, SubSeq(v, i, Len(v)))

\* Mutant: a word that begins with w and goes on ends the search.
ClassMatchesFirst(w, v) ==
    LET From[i \in 1..Len(v) + 2] ==
            /\ i <= Len(v)
            /\ LET start == SkipSpaces(v, i)
                   found == StartsAt(w, v, start)
                   end   == IF found THEN start + Len(w) ELSE SkipWord(v, start)
               IN  IF found THEN end > Len(v) \/ v[end] = " " ELSE From[end + 1]
    IN  From[1]

\* A word that begins with w and goes on is not skipped: the search continues
\* behind its next character.
ClassMatches(w, v) ==
    LET From[i \in 1..Len(v) + 2] ==
            /\ i <= Len(v)
            /\ LET start == SkipSpaces(v, i)
                   found == StartsAt(w, v, start)
                   end   == IF found THEN start + Len(w) ELSE SkipWord(v, start)
               IN  \/ found /\ (end > Len(v) \/ v[end] = " ")
                   \/ From[end + 1]
    IN  From[1]

\* A word is compared up to its own length only.
IncludesMatches(w, v) == \E x \in Words(v) : IsPrefix(x, w)

\* Mutant: wherever in a part.
DashMatchesAnywhere(w, v) == \E i \in DOMAIN v : StartsAt(w, v, i)

\* Any part of the value between hyphens will do.  A w with a hyphen is in no part.
DashMatches(w, v) == \/ w = <<>> /\ v # <<>>
                     \/ \E x \in Runs(v, "-") : IsPrefix(w, x)

\* Class and id selectors are attribute selectors in all but their spelling.
AttributeMatches(d, add, n) ==
    /\ add.name \in DOMAIN d.attrs[n]
    /\ LET v == d.attrs[n][add.name]
       IN  \/ add.way = "set"
           \/ add.way = "equals"    /\ v = add.value
           \/ add.way = "class"     /\ ClassMatches(add.value, v)
           \/ add.way = "includes"  /\ IncludesMatches(add.value, v)
           \/ add.way = "dashmatch" /\ DashMatches(add.value, v)

-----------------------------------------------------------------------------
(* The tree.                                                                 *)

Element(d, n) == d.kind[n] = "element"

Ancestors(d, n) ==
    LET Above[m \in Nodes] == IF d.parent[m] = NoNode THEN {}
                              ELSE {d.parent[m]} \cup Above[d.parent[m]]
    IN  Above[n]

get_prev_element_node(d, n) ==
    LET Before[m \in Nodes] ==
            IF d.prev[m] = NoNode \/ Element(d, d.prev[m]) THEN d.prev[m]
            ELSE Before[d.prev[m]]
    IN  Before[n]

get_next_parent_element_node(d, n) ==
    LET Above[m \in Nodes] ==
            IF d.parent[m] = NoNode \/ Element(d, d.parent[m]) THEN d.parent[m]
            ELSE Above[d.parent[m]]
    IN  Above[n]

-----------------------------------------------------------------------------
(* Pseudo-classes: the handler registered first for a name and a type.  The  *)
(* two handlers of the library refuse any other pseudo-class with an error   *)
(* code, which is not TRUE.                                                  *)

first_child(d, add, n) ==
    /\ add.name = "first-child" /\ add.way = "ident"
    /\ d.parent[n] # NoNode
    /\ get_prev_element_node(d, n) = NoNode

\* Every language on the way up is as good as the nearest one.
lang(d, add, n) ==
    /\ add.name = "lang" /\ add.way = "function"
    /\ Len(add.value) >= 2
    /\ \E m \in {n} \cup {a \in Ancestors(d, n) : Element(d, a)} :
          "lang" \in DOMAIN d.attrs[m] /\ d.attrs[m]["lang"] = add.value

HandlerFor(handlers, name, type) ==
    SelectInSeq(handlers, LAMBDA e : e.name = name /\ e.type = type)

\* A handler of the application ("any") is one that always says yes.
PseudoMatches(d, handlers, add, n) ==
    LET i == HandlerFor(handlers, add.name, add.way)
    IN  /\ i # 0
        /\ \/ handlers[i].fn = "first_child" /\ first_child(d, add, n)
           \/ handlers[i].fn = "lang" /\ lang(d, add, n)
           \/ handlers[i].fn = "any"

-----------------------------------------------------------------------------
(* Selectors.                                                                *)

\* The additional selectors are looked at from the last to the first, and a
\* pseudo-class ends the search whatever stands before it.
AddSelsMatch(d, handlers, adds, n) ==
    LET p == SelectLastInSeq(adds, LAMBDA a : a.kind = "pseudo")
    IN  /\ p = 0 \/ PseudoMatches(d, handlers, adds[p], n)
        /\ \A j \in p + 1 .. Len(adds) : AttributeMatches(d, adds[j], n)

TypeMatches(d, s, n) == \/ s.type = "type" /\ s.name = d.name[n]
                        \/ s.type = "universal"
                        \/ s.type = "none" /\ s.adds # <<>>

SimpleSelMatches(d, handlers, s, n) ==
    /\ Element(d, n)
    /\ TypeMatches(d, s, n)
    /\ s.adds = <<>> \/ AddSelsMatch(d, handlers, s.adds, n)

\* Mutant: before a blank only the nearest ancestor that fits is tried.
SelMatchesGreedily(d, handlers, sel, n) ==
    LET Back[i \in DOMAIN sel, m \in Nodes] ==
            LET fits == IF i = 1 THEN {}
                        ELSE {a \in Ancestors(d, m) :
                                 SimpleSelMatches(d, handlers, sel[i - 1], a)}
            IN  /\ SimpleSelMatches(d, handlers, sel[i], m)
                /\ \/ i = 1
                   \/ sel[i].comb = "ws" /\ fits # {} /\ Back[i - 1, Max(fits)]
                   \/ /\ sel[i].comb = "gt"
                      /\ get_next_parent_element_node(d, m) # NoNode
                      /\ Back[i - 1, get_next_parent_element_node(d, m)]
    IN  Back[Len(sel), n]

\* From the last simple selector to the first.  Before a blank the selectors in
\* front are tried on every ancestor, nearest first.
SelMatchesNode(d, handlers, sel, n) ==
    LET Back[i \in DOMAIN sel, m \in Nodes] ==
            /\ SimpleSelMatches(d, handlers, sel[i], m)
            /\ \/ i = 1
               \/ /\ sel[i].comb = "ws"
                  /\ \E a \in Ancestors(d, m) : Back[i - 1, a]
               \/ /\ sel[i].comb = "plus"
                  /\ get_prev_element_node(d, m) # NoNode
                  /\ Back[i - 1, get_prev_element_node(d, m)]
               \/ /\ sel[i].comb = "gt"
                  /\ get_next_parent_element_node(d, m) # NoNode
                  /\ Back[i - 1, get_next_parent_element_node(d, m)]
    IN  Back[Len(sel), n]

\* A simple selector without an element name that begins with a pseudo-class is
\* taken for a pseudo-element and left out.
Counted(s) == s.type # "none" \/ s.adds[1].kind # "pseudo"

SelSpecificity(sel) ==
    LET counted == {i \in DOMAIN sel : Counted(sel[i])}
        adds    == {<<i, j>> \in counted \X (1..Max({Len(sel[k].adds) : k \in DOMAIN sel})) :
                        j <= Len(sel[i].adds)}
        ids     == {q \in adds : sel[q[1]].adds[q[2]].kind = "id"}
        types   == {i \in counted : sel[i].type = "type"}
    IN  1000000 * Cardinality(ids) + 1000 * Cardinality(adds \ ids) + Cardinality(types)

-----------------------------------------------------------------------------
(* CSS2.                                                                     *)

CSSAddMatches(d, handlers, add, n) ==
    IF add.kind = "pseudo" THEN PseudoMatches(d, handlers, add, n)
    ELSE /\ add.name \in DOMAIN d.attrs[n]
         /\ LET v == d.attrs[n][add.name]
            IN  \/ add.way = "set"
                \/ add.way = "equals" /\ v = add.value
                \/ add.way \in {"class", "includes"} /\ add.value \in Words(v)
                \/ add.way = "dashmatch"
                   /\ (v = add.value \/ IsPrefix(Append(add.value, "-"), v))

CSSSimpleMatches(d, handlers, s, n) ==
    /\ Element(d, n)
    /\ s.type = "type" => s.name = d.name[n]
    /\ \A j \in DOMAIN s.adds : CSSAddMatches(d, handlers, s.adds[j], n)

Siblings(d, n) == {m \in Nodes : Element(d, m) /\ d.parent[m] = d.parent[n]}

Related(d, comb, m, n) ==
    \/ comb = "ws"   /\ m \in Ancestors(d, n)
    \/ comb = "gt"   /\ m = d.parent[n]
    \/ comb = "plus" /\ m < n /\ {k \in Siblings(d, n) : m <= k /\ k < n} = {m}

\* There are nodes for all simple selectors, each related to the next.
MatchesBy(Fits(_, _), d, sel, n) ==
    \E at \in [DOMAIN sel -> Nodes] :
        /\ at[Len(sel)] = n
        /\ \A i \in DOMAIN sel : Fits(sel[i], at[i])
        /\ \A i \in 2..Len(sel) : Related(d, sel[i].comb, at[i - 1], at[i])

CSSMatches(d, handlers, sel, n) ==
    MatchesBy(LAMBDA s, m : CSSSimpleMatches(d, handlers, s, m), d, sel, n)

-----------------------------------------------------------------------------
(* The differences.                                                          *)

\* A |= with a hyphen in its value, or none at all, is not looked for as CSS2 has it.
Findable(sel) ==
    \A i \in DOMAIN sel : \A j \in DOMAIN sel[i].adds :
        LET add == sel[i].adds[j]
        IN  add.way = "dashmatch" => add.value # <<>> /\ "-" \notin Range(add.value)

\* What is taken for a value w although it is not: of a class, a longer word that begins
\* and ends with it; of ~=, a word that it begins with; of |=, what begins with it, or
\* has it behind a hyphen, however that goes on.
Confused(d, add, n) ==
    /\ add.kind # "pseudo"
    /\ add.name \in DOMAIN d.attrs[n]
    /\ LET v == d.attrs[n][add.name]
           w == add.value
       IN  \/ /\ add.way = "class"
              /\ \E x \in Words(v) : Len(x) > 2 * Len(w) /\ IsPrefix(w, x) /\ IsSuffix(w, x)
           \/ add.way = "includes" /\ \E x \in Words(v) : IsStrictPrefix(x, w)
           \/ /\ add.way = "dashmatch" /\ v # <<>>
              /\ StartsAt(w, v, 1) \/ \E i \in DOMAIN v : v[i] = "-" /\ StartsAt(w, v, i + 1)

\* CSS2, but for these, and for what stands in front of a pseudo-class.
NearlyMatches(d, handlers, s, n) ==
    /\ Element(d, n)
    /\ s.type = "type" => s.name = d.name[n]
    /\ \A j \in DOMAIN s.adds :
          \/ CSSAddMatches(d, handlers, s.adds[j], n)
          \/ Confused(d, s.adds[j], n)
          \/ \E k \in j + 1 .. Len(s.adds) : s.adds[k].kind = "pseudo"
=============================================================================
