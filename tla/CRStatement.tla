---------------------------- MODULE CRStatement ----------------------------
(***************************************************************************)
(* Statements, declarations, sheets and a cascade (cr-statement.c,         *)
(* cr-declaration.c, cr-stylesheet.c, cr-cascade.c) as objects on a heap,  *)
(* with the pointers and counts the code keeps in them, and an application *)
(* that builds, takes apart and gives up lists of them.                    *)
(***************************************************************************)
EXTENDS Integers, Sequences, SequencesExt, FiniteSets

CONSTANTS Decls, Stmts, Sheets,   \* addresses
          Null,
          NB_ORIGINS,             \* the slots of the cascade
          MaxLive,                \* bound on the objects allocated at a time
          MaxRefs                 \* bound on the references an application counts

ASSUME StatementAssumption ==
    /\ Decls \cap Stmts = {} /\ Sheets \cap (Decls \cup Stmts) = {}
    /\ Null \notin Decls \cup Stmts \cup Sheets
    /\ NB_ORIGINS \in Nat /\ MaxLive \in Nat /\ MaxRefs \in Nat

Nodes   == Decls \cup Stmts      \* what is in lists
Owners  == Stmts \cup Sheets     \* what has a list
Objects == Nodes \cup Sheets

Origins == 0..(NB_ORIGINS - 1)

Kinds     == {"ruleset", "page", "font_face", "media", "import"}  \* "import": or charset
Declaring == {"ruleset", "page", "font_face"}

VARIABLES heap,     \* the objects that are allocated, and their fields
          held,     \* the lists, by their first node, and sheets the application owns
          counted,  \* the references it has counted on each sheet
          slots     \* the sheets of the cascade

vars == <<heap, held, counted, slots>>

\* next and prev of a node; parent_statement of a declaration, parent_sheet of a
\* statement; first: decl_list, rulesets or statements; of a ruleset, whether it has a
\* sel_list, and parent_media_rule.
EmptyHeap ==
    [live   |-> {},
     kind   |-> [s \in Stmts |-> "none"],
     sel    |-> [s \in Stmts |-> FALSE],
     media  |-> [s \in Stmts |-> Null],
     next   |-> [n \in Nodes |-> Null],
     prev   |-> [n \in Nodes |-> Null],
     parent |-> [n \in Nodes |-> Null],
     first  |-> [o \in Owners |-> Null],
     refs   |-> [x \in Decls \cup Sheets |-> 0]]

Init == /\ heap = EmptyHeap
        /\ held = {}
        /\ counted = [t \in Sheets |-> 0]
        /\ slots = [o \in Origins |-> Null]

-----------------------------------------------------------------------------
(* Lists.                                                                    *)

\* The nodes found from x on.
From(h, x) ==
    LET at[n \in Nodes \cup {Null}] == IF n = Null THEN <<>> ELSE <<n>> \o at[h.next[n]]
    IN  at[x]

ListOf(h, o) == From(h, h.first[o])

\* Mutant: behind the first node of the list instead of the last.
AppendedBehindFirst(h, a, n) ==
    IF a = Null THEN h
    ELSE LET second == h.next[a]
             last   == Last(From(h, n))
             h1     == [h EXCEPT !.next[a] = n, !.prev[n] = a]
         IN  IF second = Null THEN h1 ELSE [h1 EXCEPT !.next[last] = second, !.prev[second] = last]

\* cr_declaration_append, cr_statement_append
Appended(h, a, n) ==
    IF a = Null THEN h
    ELSE LET tail == Last(From(h, a))
         IN  [h EXCEPT !.next[tail] = n, !.prev[n] = tail]
FirstOf(a, n) == IF a = Null THEN n ELSE a

AppendedIn(h, o, n) == [Appended(h, h.first[o], n) EXCEPT !.first[o] = FirstOf(@, n)]

\* cr_declaration_prepend, cr_statement_prepend
Prepended(h, a, n) == [h EXCEPT !.next[n] = a, !.prev[a] = n]

\* Mutant: the node before does not learn of the one behind.
UnlinkedForwards(h, x) ==
    LET next == h.next[x]
        prev == h.prev[x]
        o    == h.parent[x]
        h1   == IF prev = Null THEN h ELSE [h EXCEPT !.next[prev] = next]
        h2   == IF o # Null /\ h.first[o] = x THEN [h1 EXCEPT !.first[o] = next] ELSE h1
    IN  [h2 EXCEPT !.next[x] = Null, !.prev[x] = Null, !.parent[x] = Null]

\* cr_declaration_unlink, cr_statement_unlink.  parent_media_rule stays as it is.
Unlinked(h, x) ==
    LET next == h.next[x]
        prev == h.prev[x]
        o    == h.parent[x]
        h1   == IF prev = Null THEN h ELSE [h EXCEPT !.next[prev] = next]
        h2   == IF next = Null THEN h1 ELSE [h1 EXCEPT !.prev[next] = prev]
        h3   == IF o # Null /\ h.first[o] = x THEN [h2 EXCEPT !.first[o] = next] ELSE h2
    IN  [h3 EXCEPT !.next[x] = Null, !.prev[x] = Null, !.parent[x] = Null]

Allocated(h, x) == [h EXCEPT !.live = @ \cup {x}]

\* What was freed is forgotten by the model; pointers to it stay.
Freed(h, S) ==
    LET Cleared(f, v) == [x \in DOMAIN f |-> IF x \in S THEN v ELSE f[x]]
    IN  [live   |-> h.live \ S,
         kind   |-> Cleared(h.kind, "none"),
         sel    |-> Cleared(h.sel, FALSE),
         media  |-> Cleared(h.media, Null),
         next   |-> Cleared(h.next, Null),
         prev   |-> Cleared(h.prev, Null),
         parent |-> Cleared(h.parent, Null),
         first  |-> Cleared(h.first, Null),
         refs   |-> Cleared(h.refs, 0)]

\* cr_declaration_destroy
DeclsDestroyed(h, d) == Freed(h, Range(From(h, d)))

\* cr_declaration_unref
DeclsUnrefed(h, d) ==
    LET left == IF h.refs[d] > 0 THEN h.refs[d] - 1 ELSE 0
    IN  IF left = 0 THEN DeclsDestroyed(h, d) ELSE [h EXCEPT !.refs[d] = left]

\* cr_statement_clear for all statements of a list, and their memory.  An @media rule
\* destroys its rulesets, every other statement its declarations; what an @font-face
\* rule lists is only unreferenced, and no one else has counted it.
Contents(h, S) == S \cup UNION {Range(ListOf(h, o)) : o \in S \cap Owners}

\* Mutant: an @media rule forgets its rulesets.
StmtsDestroyedAlone(h, s) ==
    LET all == Range(From(h, s))
        no  == {m \in all : h.kind[m] = "media"}
    IN  Freed(h, Contents(h, all \ no) \cup no)

StmtsDestroyed(h, s) == Freed(h, Contents(h, Contents(h, Range(From(h, s)))))

\* cr_stylesheet_destroy
SheetDestroyed(h, t) ==
    LET h1 == IF h.first[t] = Null THEN h ELSE StmtsDestroyed(h, h.first[t])
    IN  Freed(h1, {t})

\* cr_stylesheet_unref
SheetUnrefed(h, t) ==
    LET left == IF h.refs[t] > 0 THEN h.refs[t] - 1 ELSE 0
    IN  IF left = 0 THEN SheetDestroyed(h, t) ELSE [h EXCEPT !.refs[t] = left]

-----------------------------------------------------------------------------
(* The application.  It hands over lists it owns, by their first node, and   *)
(* to the statement or sheet they were made for.                             *)

Fresh(x) == x \notin heap.live /\ Cardinality(heap.live) < MaxLive
Loose(C) == held \cap C

MadeFor(x, o) == \A n \in Range(From(heap, x)) : heap.parent[n] \in {Null, o}

Declares(s) == s \in heap.live /\ heap.kind[s] \in Declaring
Is(s, kind) == s \in heap.live /\ heap.kind[s] = kind
SheetOrNull(t) == t = Null \/ t \in heap.live

\* Nothing outside S was made for one of S.
NoOrphans(S) == \A n \in (heap.live \cap Nodes) \ S : heap.parent[n] \notin S

SameSheets == UNCHANGED <<counted, slots>>

\* cr_declaration_new; s is the statement it belongs to, or Null.
NewDeclaration(d, s) ==
    /\ Fresh(d)
    /\ s = Null \/ Declares(s)
    /\ heap' = [Allocated(heap, d) EXCEPT !.parent[d] = s]
    /\ held' = held \cup {d}
    /\ SameSheets

\* cr_declaration_append, cr_statement_append
AppendList(C, a, n) ==
    /\ a \in Loose(C) /\ n \in Loose(C) /\ a # n
    /\ n \in Decls => heap.refs[n] = 0
    /\ heap' = Appended(heap, a, n)
    /\ held' = held \ {n}
    /\ SameSheets

\* cr_declaration_append2
AppendNewDeclaration(a, d) ==
    /\ a \in Loose(Decls) /\ Fresh(d)
    /\ heap' = Appended([Allocated(heap, d) EXCEPT !.parent[d] = heap.parent[a]], a, d)
    /\ SameSheets /\ UNCHANGED held

\* Prepending overwrites the successor of the new node: it must be alone.
PrependNode(C, a, n) ==
    /\ a \in Loose(C) /\ n \in Loose(C) /\ a # n
    /\ a \in Decls => heap.refs[a] = 0
    /\ heap.next[n] = Null
    /\ heap' = Prepended(heap, a, n)
    /\ held' = held \ {a}
    /\ SameSheets

\* Unwritten: the first node of a list is unlinked only where its parent pointer names
\* the owner of the list.
MayUnlink(x) == \A o \in Owners : heap.first[o] = x => heap.parent[x] = o

Unlink(x) ==
    /\ x \in heap.live \cap Nodes
    /\ MayUnlink(x)
    /\ heap' = Unlinked(heap, x)
    /\ held' = held \cup {x} \cup (IF x \in held /\ heap.next[x] # Null THEN {heap.next[x]} ELSE {})
    /\ SameSheets

RefDeclaration(d) ==
    /\ d \in Loose(Decls) /\ heap.refs[d] < MaxRefs
    /\ heap' = [heap EXCEPT !.refs[d] = @ + 1]
    /\ SameSheets /\ UNCHANGED held

UnrefDeclaration(d) ==
    /\ d \in Loose(Decls)
    /\ heap' = DeclsUnrefed(heap, d)
    /\ held' = held \cap heap'.live
    /\ SameSheets

DestroyDeclaration(d) ==
    /\ d \in Loose(Decls)
    /\ heap' = DeclsDestroyed(heap, d)
    /\ held' = held \ {d}
    /\ SameSheets

-----------------------------------------------------------------------------
(* Statements.                                                               *)

\* A list of declarations that is handed over, or none.
Given(l, s) == l = Null \/ (l \in Loose(Decls) /\ heap.refs[l] = 0 /\ MadeFor(l, s))

Statement(s, kind, t, l) ==
    [Allocated(heap, s) EXCEPT !.kind[s] = kind, !.parent[s] = t, !.first[s] = l]

\* cr_statement_new_ruleset
NewRuleset(s, t, l) ==
    /\ Fresh(s) /\ SheetOrNull(t) /\ Given(l, s)
    /\ heap' = [Statement(s, "ruleset", t, l) EXCEPT !.sel[s] = TRUE]
    /\ held' = (held \ {l}) \cup {s}
    /\ SameSheets

\* The same in an @media rule.
NewRulesetInMedia(s, t, l, m) ==
    /\ Fresh(s) /\ SheetOrNull(t) /\ Given(l, s) /\ Is(m, "media")
    /\ heap' = AppendedIn([Statement(s, "ruleset", t, l) EXCEPT !.sel[s] = TRUE, !.media[s] = m],
                          m, s)
    /\ held' = held \ {l}
    /\ SameSheets

\* cr_statement_new_at_page_rule counts the list, cr_statement_new_at_font_face_rule
\* does not.
NewPage(s, t, l) ==
    /\ Fresh(s) /\ SheetOrNull(t) /\ Given(l, s)
    /\ LET h == Statement(s, "page", t, l)
       IN  heap' = IF l = Null THEN h ELSE [h EXCEPT !.refs[l] = @ + 1]
    /\ held' = (held \ {l}) \cup {s}
    /\ SameSheets

NewFontFace(s, t, l) ==
    /\ Fresh(s) /\ SheetOrNull(t) /\ Given(l, s)
    /\ heap' = Statement(s, "font_face", t, l)
    /\ held' = (held \ {l}) \cup {s}
    /\ SameSheets

\* cr_statement_new_at_media_rule, with a list of rulesets, which all learn of it
NewMedia(s, t, r) ==
    /\ Fresh(s) /\ SheetOrNull(t)
    /\ r # Null => r \in Loose(Stmts) /\ \A q \in Range(From(heap, r)) : Is(q, "ruleset")
    /\ heap' = [Statement(s, "media", t, r) EXCEPT
                  !.media = [q \in Stmts |-> IF q \in Range(From(heap, r)) THEN s ELSE @[q]]]
    /\ held' = (held \ {r}) \cup {s}
    /\ SameSheets

NewImport(s, t) ==
    /\ Fresh(s) /\ SheetOrNull(t)
    /\ heap' = Statement(s, "import", t, Null)
    /\ held' = held \cup {s}
    /\ SameSheets

\* cr_statement_set_parent_sheet, of a statement that is in no sheet
SetParentSheet(s, t) ==
    /\ s \in Loose(Stmts) /\ SheetOrNull(t)
    /\ heap' = [heap EXCEPT !.parent[s] = t]
    /\ SameSheets /\ UNCHANGED held

\* cr_statement_ruleset_append_decl; the object model parser does the same with each
\* statement that declares.
AppendDeclaration(s, d) ==
    /\ Declares(s) /\ Given(d, s)
    /\ heap' = AppendedIn(heap, s, d)
    /\ held' = held \ {d}
    /\ SameSheets

\* cr_statement_ruleset_append_decl2 and cr_statement_at_font_face_rule_add_decl: the
\* new declaration belongs to the statement of the first, or to none; an @font-face rule
\* counts the first.
AddDeclaration(s, d) ==
    /\ Is(s, "ruleset") \/ Is(s, "font_face")
    /\ Fresh(d)
    /\ LET a  == heap.first[s]
           h1 == [Allocated(heap, d) EXCEPT !.parent[d] = IF a = Null THEN Null ELSE heap.parent[a]]
           h2 == AppendedIn(h1, s, d)
       IN  heap' = IF a = Null /\ Is(s, "font_face") THEN [h2 EXCEPT !.refs[d] = @ + 1] ELSE h2
    /\ SameSheets /\ UNCHANGED held

\* cr_statement_ruleset_set_sel_list
SetSelList(s, some) ==
    /\ Is(s, "ruleset")
    /\ heap' = [heap EXCEPT !.sel[s] = some]
    /\ SameSheets /\ UNCHANGED held

\* cr_statement_ruleset_set_decl_list destroys the declarations that are there, if there
\* are selectors, forgets the selectors and takes nothing.  Unwritten: it is not called
\* where it would leave a pointer to what it destroys.
MaySetDeclList(s, l) == l # heap.first[s] => heap.first[s] = Null \/ ~heap.sel[s]

SetDeclList(s, l) ==
    /\ Is(s, "ruleset")
    /\ l \in Loose(Decls) \cup {heap.first[s], Null}
    /\ MaySetDeclList(s, l)
    /\ LET h == IF heap.sel[s] /\ heap.first[s] # Null
                THEN DeclsDestroyed(heap, heap.first[s]) ELSE heap
       IN  heap' = IF l = heap.first[s] THEN heap ELSE [h EXCEPT !.sel[s] = FALSE]
    /\ SameSheets /\ UNCHANGED held

\* cr_statement_at_page_rule_set_declarations and
\* cr_statement_at_font_face_rule_set_decls (never given NULL)
SetDeclarations(s, l) ==
    /\ Is(s, "page") \/ (Is(s, "font_face") /\ l # Null)
    /\ Given(l, s)
    /\ LET h1 == IF heap.first[s] = Null THEN heap ELSE DeclsUnrefed(heap, heap.first[s])
           h2 == [h1 EXCEPT !.first[s] = l]
       IN  heap' = IF l = Null THEN h2 ELSE [h2 EXCEPT !.refs[l] = @ + 1]
    /\ held' = held \ {l}
    /\ SameSheets

\* The callbacks end_selector and end_media of the object model parser append a
\* statement to an @media rule, and to a sheet.
AppendToMedia(m, s) ==
    /\ Is(m, "media") /\ s \in Loose(Stmts) /\ m \notin Range(From(heap, s))
    /\ \A q \in Range(From(heap, s)) : Is(q, "ruleset")
    /\ heap' = AppendedIn(heap, m, s)
    /\ held' = held \ {s}
    /\ SameSheets

DestroyStatement(s) ==
    /\ s \in Loose(Stmts)
    /\ heap' = StmtsDestroyed(heap, s)
    /\ NoOrphans(heap.live \ heap'.live)
    /\ held' = held \ {s}
    /\ SameSheets

-----------------------------------------------------------------------------
(* Sheets and the cascade.                                                   *)

NewSheet(t, s) ==
    /\ Fresh(t)
    /\ s # Null => s \in Loose(Stmts) /\ MadeFor(s, t)
    /\ heap' = [Allocated(heap, t) EXCEPT !.first[t] = s]
    /\ held' = (held \ {s}) \cup {t}
    /\ SameSheets

AppendToSheet(t, s) ==
    /\ t \in heap.live /\ s \in Loose(Stmts) /\ MadeFor(s, t)
    /\ heap' = AppendedIn(heap, t, s)
    /\ held' = held \ {s}
    /\ SameSheets

\* The first reference takes the place of the ownership.
RefSheet(t) ==
    /\ counted[t] < MaxRefs
    /\ t \in held \/ counted[t] > 0
    /\ heap' = [heap EXCEPT !.refs[t] = @ + 1]
    /\ counted' = [counted EXCEPT ![t] = @ + 1]
    /\ held' = held \ {t}
    /\ UNCHANGED slots

UnrefSheet(t) ==
    /\ t \in held \/ counted[t] > 0
    /\ heap' = SheetUnrefed(heap, t)
    /\ NoOrphans(heap.live \ heap'.live)
    /\ counted' = [counted EXCEPT ![t] = IF @ > 0 THEN @ - 1 ELSE 0]
    /\ held' = held \ {t}
    /\ UNCHANGED slots

DestroySheet(t) ==
    /\ t \in held \cap Sheets
    /\ heap' = SheetDestroyed(heap, t)
    /\ NoOrphans(heap.live \ heap'.live)
    /\ held' = held \ {t}
    /\ SameSheets

\* Mutant: the sheet that is replaced keeps its reference.
SetSheetKeeping(t, o) ==
    /\ t \in held \/ heap.refs[t] > 0
    /\ slots[o] = t => heap.refs[t] > 1
    /\ heap' = [heap EXCEPT !.refs[t] = @ + 1]
    /\ held' = held \ {t}
    /\ slots' = [slots EXCEPT ![o] = t]
    /\ UNCHANGED counted

\* cr_cascade_set_sheet, of a new sheet or one that is held already, if only by a cascade,
\* gives up the old sheet's reference first.  Unwritten: where it is given the sheet that
\* is there, that is not the last reference.
SetSheet(t, o) ==
    /\ t \in held \/ heap.refs[t] > 0
    /\ slots[o] = t => heap.refs[t] > 1
    /\ LET h == IF slots[o] = Null THEN heap ELSE SheetUnrefed(heap, slots[o])
       IN  heap' = [h EXCEPT !.refs[t] = @ + 1]
    /\ NoOrphans(heap.live \ heap'.live)
    /\ held' = held \ {t}
    /\ slots' = [slots EXCEPT ![o] = t]
    /\ UNCHANGED counted

\* cr_cascade_destroy, one origin after the other
SlotsUnrefed ==
    LET after[i \in 0..NB_ORIGINS] ==
            IF i = 0 THEN heap
            ELSE IF slots[i - 1] = Null THEN after[i - 1]
            ELSE SheetUnrefed(after[i - 1], slots[i - 1])
    IN  after[NB_ORIGINS]

DestroyCascade ==
    /\ \E o \in Origins : slots[o] # Null
    /\ heap' = SlotsUnrefed
    /\ NoOrphans(heap.live \ heap'.live)
    /\ slots' = [o \in Origins |-> Null]
    /\ UNCHANGED <<held, counted>>

-----------------------------------------------------------------------------

DeclStep ==
    \E d \in Decls :
        \/ \E s \in Stmts \cup {Null} : NewDeclaration(d, s)
        \/ \E a \in Decls : AppendList(Decls, a, d) \/ AppendNewDeclaration(a, d)
                              \/ PrependNode(Decls, a, d)
        \/ Unlink(d) \/ RefDeclaration(d) \/ UnrefDeclaration(d) \/ DestroyDeclaration(d)

StmtStep ==
    \E s \in Stmts :
        \/ \E t \in Sheets \cup {Null} :
              \/ \E l \in Decls \cup {Null} :
                    \/ NewRuleset(s, t, l) \/ NewPage(s, t, l) \/ NewFontFace(s, t, l)
                    \/ \E m \in Stmts : NewRulesetInMedia(s, t, l, m)
              \/ \E r \in Stmts \cup {Null} : NewMedia(s, t, r)
              \/ NewImport(s, t) \/ SetParentSheet(s, t)
        \/ \E d \in Decls : AppendDeclaration(s, d) \/ AddDeclaration(s, d)
        \/ \E l \in Decls \cup {Null} : SetDeclList(s, l) \/ SetDeclarations(s, l)
        \/ \E some \in BOOLEAN : SetSelList(s, some)
        \/ \E r \in Stmts : AppendToMedia(s, r) \/ AppendList(Stmts, s, r) \/ PrependNode(Stmts, s, r)
        \/ Unlink(s) \/ DestroyStatement(s)

SheetStep ==
    \E t \in Sheets :
        \/ \E s \in Stmts \cup {Null} : NewSheet(t, s)
        \/ \E s \in Stmts : AppendToSheet(t, s)
        \/ RefSheet(t) \/ UnrefSheet(t) \/ DestroySheet(t)
        \/ \E o \in Origins : SetSheet(t, o)

Next == DeclStep \/ StmtStep \/ SheetStep \/ DestroyCascade

Spec == Init /\ [][Next]_vars

-----------------------------------------------------------------------------
(* What must hold.                                                           *)

\* The pointers of a list agree in both directions, and none of those that lists are
\* walked by, to a neighbour, a first node, and the statement or sheet a node was made
\* for, is to what has been freed.  Every function of cr-declaration.c and cr-statement.c
\* follows them, and the checks of cr_declaration_unlink and the assertion of
\* cr_declaration_destroy rely on it.  Of parent_media_rule see MediaRuleIsKept.
LinksAgree ==
    /\ \A x \in heap.live \cap Nodes :
          /\ heap.next[x] # Null => heap.next[x] \in heap.live /\ heap.prev[heap.next[x]] = x
          /\ heap.prev[x] # Null => heap.prev[x] \in heap.live /\ heap.next[heap.prev[x]] = x
          /\ heap.parent[x] \in heap.live \cup {Null}
    /\ \A o \in heap.live \cap Owners : heap.first[o] \in heap.live \cup {Null}
    /\ held \cup Range(slots) \subseteq heap.live \cup {Null}

\* Whether a ruleset is where its parent_media_rule says, if it says anything.
InItsMediaRule(s) ==
    heap.media[s] # Null => s \in Range(ListOf(heap, heap.media[s]))

\* A ruleset that names the @media rule it is in stays in it, and names it, while both are
\* there and whatever is done to the lists around it: only cr_statement_unlink takes it
\* out.  That function leaves the name, so from then on the ruleset may name a rule it is
\* not in, and one that is freed.
MediaRuleIsKept ==
    [][\A s \in Stmts : InItsMediaRule(s) => InItsMediaRule(s)' \/ Unlink(s)]_vars

\* The lists of owners, and of the application, that a node is found in.
Holders(x) == {o \in heap.live \cap Owners : x \in Range(ListOf(heap, o))}
HeldLists(x) == {a \in held \cap Nodes : x \in Range(From(heap, a))}

\* Every node is in one list of one owner, where destruction finds it once: not leaked,
\* and not freed twice.  A sheet is there as long as the application owns it or someone
\* has counted it, and its count is that of the cascade and the application together.
OwnedExactlyOnce ==
    /\ \A x \in heap.live \cap Nodes : Cardinality(Holders(x)) + Cardinality(HeldLists(x)) = 1
    /\ \A t \in Sheets :
          /\ heap.refs[t] = counted[t] + Cardinality({o \in Origins : slots[o] = t})
          /\ t \in heap.live <=> t \in held \/ heap.refs[t] > 0

Lists == INSTANCE OwnedLists WITH
            nodes    <- heap.live \cap Nodes,
            contents <- [o \in Owners |-> ListOf(heap, o)],
            loose    <- {From(heap, a) : a \in held \cap Nodes}

\* Each call is one operation on sequences with one owner each, or none, and what that
\* operation does not speak of stays: the pointer manipulations implement them.
ImplementsOwnedLists == Lists!Spec
=============================================================================
