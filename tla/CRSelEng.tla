------------------------------ MODULE CRSelEng ------------------------------
(***************************************************************************)
(* CRSelEng (cr-sel-eng.c): the registry of pseudo-class handlers, the     *)
(* collection of the rulesets that match a node, which goes through the    *)
(* sheets of a cascade in pieces of a table that grows, and the choice of  *)
(* one declaration for each property.  Whether a selector matches, and     *)
(* how specific it is, are operators of the instance.                      *)
(***************************************************************************)
EXTENDS Integers, Sequences, SequencesExt, FiniteSetsExt

CONSTANTS Instances,        \* documents, each with a cascade: for each origin NoSheet or
                            \* a sequence of statements
          Queried,          \* the nodes asked for
          Entries,          \* handlers an application may register
          Builtin,          \* the handlers cr_sel_eng_new registers
          MaxHandlers,      \* bound on the handlers registered at a time
          Chunk,            \* stmts_chunck_size
          NoSheet,
          Matches(_, _, _, _),
          Specificity(_)

ORIGIN_UA == 0
Origins   == 0..2       \* ORIGIN_UA, ORIGIN_USER, ORIGIN_AUTHOR
NB_ORIGINS == 3

\* Sequences, over whatever they hold.
IsSequence(s) == s \in Seq(Range(s))

IsStatement(st) ==
    /\ IsSequence(st.sels) /\ \A i \in DOMAIN st.sels : Specificity(st.sels[i]) \in Nat
    /\ IsSequence(st.decls)
    /\ \A j \in DOMAIN st.decls : /\ st.decls[j].prop \in STRING
                                  /\ st.decls[j].important \in BOOLEAN

\* What the engine relies on: sheets are lists of statements, handlers are a list,
\* and a piece of the table has room for an entry.
ASSUME SelEngAssumption ==
    /\ \A i \in Instances :
          /\ i = <<i[1], i[2]>>
          /\ \A o \in 0..2 :
                \/ i[2][o] = NoSheet
                \/ /\ IsSequence(i[2][o])
                   /\ \A k \in DOMAIN i[2][o] : IsStatement(i[2][o][k])
    /\ NoSheet \notin 0..2
    /\ IsSequence(Builtin)
    /\ Queried # {}
    /\ Chunk \in Nat \ {0}

VARIABLES doc, cascade,     \* the document and the sheets, which the engine only reads
          handlers,         \* pcs_handlers
          sheet, cur_stmt,  \* where the collection is to go on; cur_stmt is 0 at the end
          specificity,      \* the field of each statement
          pc, query,        \* what runs, and what was asked
          origin,           \* the sheet that is visited
          tab, room,        \* stmts_tab and the entries left in it
          props             \* the declarations chosen, as a CRPropList

engine == <<sheet, cur_stmt, specificity, pc, query, origin, tab, room, props>>
vars   == <<doc, cascade, handlers, engine>>

Statements(o) == IF cascade[o] = NoSheet THEN <<>> ELSE cascade[o]

Init ==
    /\ \E i \in Instances : doc = i[1] /\ cascade = i[2]
    /\ handlers = Builtin
    /\ sheet = NoSheet
    /\ cur_stmt = 0
    /\ specificity = [o \in Origins |-> [k \in DOMAIN Statements(o) |-> 0]]
    /\ pc = "idle"
    /\ query = [of |-> "none", node |-> CHOOSE n \in Queried : TRUE]
    /\ origin = 0
    /\ tab = <<>>
    /\ room = 0
    /\ props = <<>>

-----------------------------------------------------------------------------
(* The registry.                                                             *)

Register(e) ==
    /\ pc = "idle"
    /\ Len(handlers) < MaxHandlers
    /\ handlers' = Append(handlers, e)
    /\ UNCHANGED <<doc, cascade, engine>>

\* The entry found first goes; without one nothing changes.  The code reads the list
\* node, and frees it, once more after it is freed: this is the outcome in which
\* the node still holds the entry.
Unregister(name, type) ==
    /\ pc = "idle"
    /\ LET i == SelectInSeq(handlers, LAMBDA e : e.name = name /\ e.type = type)
       IN  /\ i # 0
           /\ handlers' = RemoveAt(handlers, i)
    /\ UNCHANGED <<doc, cascade, engine>>

UnregisterAll ==
    /\ pc = "idle"
    /\ handlers' = <<>>
    /\ UNCHANGED <<doc, cascade, engine>>

-----------------------------------------------------------------------------
(* Queries.                                                                  *)

\* cr_sel_eng_get_matched_properties_from_cascade
AskProperties(n) ==
    /\ pc = "idle"
    /\ query' = [of |-> "properties", node |-> n]
    /\ pc' = "sheet"
    /\ origin' = ORIGIN_UA
    /\ room' = 0
    /\ UNCHANGED <<doc, cascade, handlers, sheet, cur_stmt, specificity, tab, props>>

\* cr_sel_eng_get_matched_rulesets, for one sheet
AskRulesets(o, n) ==
    /\ pc = "idle"
    /\ cascade[o] # NoSheet
    /\ query' = [of |-> "rulesets", node |-> n]
    /\ pc' = "call"
    /\ origin' = o
    /\ room' = Chunk
    /\ UNCHANGED <<doc, cascade, handlers, sheet, cur_stmt, specificity, tab, props>>

NextSheet ==
    /\ pc = "sheet"
    /\ \/ /\ origin = NB_ORIGINS
          /\ pc' = "apply"
          /\ UNCHANGED <<origin, room>>
       \/ /\ origin < NB_ORIGINS
          /\ cascade[origin] = NoSheet
          /\ origin' = origin + 1
          /\ UNCHANGED <<pc, room>>
       \/ /\ origin < NB_ORIGINS
          /\ cascade[origin] # NoSheet
          /\ room' = IF room < 1 THEN Chunk ELSE room
          /\ pc' = "call"
          /\ UNCHANGED origin
    /\ UNCHANGED <<doc, cascade, handlers, sheet, cur_stmt, specificity, query, tab, props>>

\* What follows a call that returned CR_OK.
Collected == /\ pc' = IF query.of = "properties" THEN "sheet" ELSE "done"
             /\ origin' = IF query.of = "properties" THEN origin + 1 ELSE origin

\* The start of cr_sel_eng_get_matched_rulesets_real: a sheet other than the one
\* remembered is begun at its first statement.
StartCall ==
    /\ pc = "call"
    /\ IF cascade[origin] = <<>>
       THEN Collected /\ UNCHANGED <<sheet, cur_stmt>>
       ELSE /\ pc' = "walk"
            /\ sheet' = origin
            /\ cur_stmt' = IF sheet # origin THEN 1 ELSE cur_stmt
            /\ UNCHANGED origin
    /\ UNCHANGED <<doc, cascade, handlers, specificity, query, tab, room, props>>

\* The selectors of a statement that match: those of a ruleset, or of the first
\* ruleset of an @media rule.
Hits(o, k) == {i \in DOMAIN cascade[o][k].sels :
                  Matches(doc, handlers, cascade[o][k].sels[i], query.node)}

\* The first n of these.
FirstOf(hits, n) == {i \in hits : Cardinality({j \in hits : j <= i}) <= n}

\* What the statement weighs when its ith selector is the last that was stored.
Weighing(o, k, i) == Specificity(cascade[o][k].sels[i])

Following(o, k) == IF k < Len(cascade[o]) THEN k + 1 ELSE 0

\* The table after n more entries for one statement.  To apply a statement a third
\* time in a row changes nothing: the third copy is left out.
Entered(t, place, n) ==
    LET copies == Cardinality({i \in DOMAIN t : t[i] = place})
    IN  t \o [i \in 1..Min({n, 2 - copies}) |-> place]

\* Mutants: the next statement is remembered before this one has found room; room
\* is not looked at.
VisitForgetting ==
    /\ pc = "walk"
    /\ cur_stmt # 0
    /\ LET hits   == Hits(origin, cur_stmt)
           stored == FirstOf(hits, room)
       IN  /\ tab' = Entered(tab, <<origin, cur_stmt>>, Cardinality(stored))
           /\ room' = room - Cardinality(stored)
           /\ pc' = IF stored = hits THEN "walk" ELSE "grow"
    /\ cur_stmt' = Following(origin, cur_stmt)
    /\ UNCHANGED <<doc, cascade, handlers, sheet, specificity, query, origin, props>>
VisitUnchecked ==
    /\ pc = "walk"
    /\ cur_stmt # 0
    /\ LET n == Cardinality(Hits(origin, cur_stmt))
       IN  /\ tab' = Entered(tab, <<origin, cur_stmt>>, n)
           /\ room' = room - n
    /\ cur_stmt' = Following(origin, cur_stmt)
    /\ UNCHANGED <<doc, cascade, handlers, sheet, specificity, pc, query, origin, props>>

\* One statement.  A selector that finds no room ends the call, and the next
\* call begins with the same statement.
Visit ==
    /\ pc = "walk"
    /\ cur_stmt # 0
    /\ LET hits   == Hits(origin, cur_stmt)
           stored == FirstOf(hits, room)
       IN  /\ tab' = Entered(tab, <<origin, cur_stmt>>, Cardinality(stored))
           /\ room' = room - Cardinality(stored)
           /\ specificity' =
                 IF stored = {} THEN specificity
                 ELSE [specificity EXCEPT ![origin][cur_stmt] =
                                             Weighing(origin, cur_stmt, Max(stored))]
           /\ IF stored = hits
              THEN cur_stmt' = Following(origin, cur_stmt) /\ UNCHANGED pc
              ELSE pc' = "grow" /\ UNCHANGED cur_stmt
    /\ UNCHANGED <<doc, cascade, handlers, sheet, query, origin, props>>

\* Mutant: the room in the larger table is not computed anew.
GrowInVain ==
    /\ pc = "grow"
    /\ pc' = "call"
    /\ UNCHANGED <<doc, cascade, handlers, sheet, cur_stmt, specificity, query, origin,
                   tab, room, props>>

\* CR_OUTPUT_TOO_SHORT_ERROR
Grow ==
    /\ pc = "grow"
    /\ room' = room + Chunk
    /\ pc' = "call"
    /\ UNCHANGED <<doc, cascade, handlers, sheet, cur_stmt, specificity, query, origin,
                   tab, props>>

\* Mutant: the sheet is still remembered.
EndOfSheetRemembered ==
    /\ pc = "walk"
    /\ cur_stmt = 0
    /\ Collected
    /\ UNCHANGED <<doc, cascade, handlers, sheet, cur_stmt, specificity, query, tab, room,
                   props>>

EndOfSheet ==
    /\ pc = "walk"
    /\ cur_stmt = 0
    /\ sheet' = NoSheet
    /\ Collected
    /\ UNCHANGED <<doc, cascade, handlers, cur_stmt, specificity, query, tab, room, props>>

-----------------------------------------------------------------------------
(* put_css_properties_in_props_list                                          *)

Weight(d) == specificity[d.origin][d.stmt]

\* Mutants: of two that weigh the same the first wins; importance is forgotten
\* within an origin.
OverridesIfHeavier(d, old) ==
    \/ old.origin < d.origin /\ (~old.important \/ old.origin = ORIGIN_UA)
    \/ old.origin = d.origin /\ Weight(d) > Weight(old) /\ ~old.important
OverridesImportant(d, old) ==
    \/ old.origin < d.origin /\ (~old.important \/ old.origin = ORIGIN_UA)
    \/ old.origin = d.origin /\ Weight(d) >= Weight(old)

\* Whether a declaration takes the place of the one chosen before.
Overrides(d, old) ==
    \/ old.origin < d.origin /\ (~old.important \/ old.origin = ORIGIN_UA)
    \/ old.origin = d.origin /\ Weight(d) >= Weight(old) /\ ~old.important

With(list, d) ==
    LET i == SelectInSeq(list, LAMBDA e : e.prop = d.prop)
    IN  IF i = 0 THEN Append(list, d)
        ELSE IF Overrides(d, list[i]) THEN Append(RemoveAt(list, i), d)
        ELSE list

Declaration(o, k, j) ==
    [origin |-> o, stmt |-> k, nth |-> j, prop |-> cascade[o][k].decls[j].prop,
     important |-> cascade[o][k].decls[j].important]

\* The declarations of a statement, put into a list one after the other.
Put(list, o, k) ==
    LET n == Len(cascade[o][k].decls)
        put[j \in 0..n] == IF j = 0 THEN list ELSE With(put[j - 1], Declaration(o, k, j))
    IN  put[n]

\* An @media rule is in the table but declares nothing.
Apply ==
    /\ pc = "apply"
    /\ tab # <<>>
    /\ LET o == Head(tab)[1]
           k == Head(tab)[2]
       IN  props' = IF cascade[o][k].type = "ruleset"
                    THEN Put(props, o, k)
                    ELSE props
    /\ tab' = Tail(tab)
    /\ UNCHANGED <<doc, cascade, handlers, sheet, cur_stmt, specificity, pc, query,
                   origin, room>>

EndApply ==
    /\ pc = "apply"
    /\ tab = <<>>
    /\ pc' = "done"
    /\ UNCHANGED <<doc, cascade, handlers, sheet, cur_stmt, specificity, query, origin,
                   tab, room, props>>

\* The caller has read the answer.
Return ==
    /\ pc = "done"
    /\ pc' = "idle"
    /\ tab' = <<>>
    /\ props' = <<>>
    /\ room' = 0
    /\ origin' = 0
    /\ UNCHANGED <<doc, cascade, handlers, sheet, cur_stmt, specificity, query>>

Step == NextSheet \/ StartCall \/ Visit \/ Grow \/ EndOfSheet \/ Apply \/ EndApply

Next ==
    \/ Step
    \/ Return
    \/ \E n \in Queried : AskProperties(n)
    \/ \E n \in Queried, o \in Origins : AskRulesets(o, n)
    \/ \E e \in Entries : Register(e)
    \/ \E e \in Entries : Unregister(e.name, e.type)
    \/ UnregisterAll

\* The engine runs to the end of what it was asked.
Spec == Init /\ [][Next]_vars /\ WF_vars(Step)

-----------------------------------------------------------------------------
Chosen == [origin : Origins, stmt : Nat \ {0}, nth : Nat \ {0}, prop : STRING,
           important : BOOLEAN]

\* Type invariant of the engine.
TypeOK ==
    /\ <<doc, cascade>> \in Instances
    /\ handlers \in Seq(Entries \cup Range(Builtin))
    /\ sheet \in Origins \cup {NoSheet}
    /\ cur_stmt \in Nat
    /\ \A o \in Origins : specificity[o] \in [DOMAIN Statements(o) -> Nat]
    /\ pc \in {"idle", "sheet", "call", "walk", "grow", "apply", "done"}
    /\ query \in [of : {"none", "properties", "rulesets"}, node : Queried]
    /\ origin \in 0..NB_ORIGINS
    /\ tab \in Seq(Origins \X (Nat \ {0}))
    /\ room \in Nat
    /\ props \in Seq(Chosen)

\* The statements of a sheet with a selector that matches the node asked for.
Matched(o) == {k \in DOMAIN Statements(o) : Hits(o, k) # {}}

Asked == IF query.of = "properties" THEN Origins ELSE {origin}

AllCollected == \/ pc = "sheet" /\ origin = NB_ORIGINS
                \/ pc = "done" /\ query.of = "rulesets"

\* However often the table had to grow in the middle of a sheet, or of a selector
\* list, the statements collected are those that match, in the order of the
\* origins and of the sheets.
CollectionIsComplete ==
    AllCollected =>
        /\ Range(tab) = UNION {{<<o, k>> : k \in Matched(o)} : o \in Asked}
        /\ \A i, j \in DOMAIN tab :
              i < j => \/ tab[i][1] < tab[j][1]
                       \/ tab[i][1] = tab[j][1] /\ tab[i][2] <= tab[j][2]

\* A sheet is remembered only while it is being visited: what one query leaves
\* behind never makes the next one begin in the middle of a sheet.
NothingRemembered == pc \in {"idle", "sheet", "apply", "done"} => sheet = NoSheet

\* The declarations in the rulesets that match.
Candidates ==
    UNION {UNION {{Declaration(o, k, j) : j \in DOMAIN cascade[o][k].decls} :
                    k \in {m \in Matched(o) : cascade[o][m].type = "ruleset"}} :
              o \in Origins}

\* A ruleset weighs what the last of its matching selectors weighs.
Weighs(o, k) == Weighing(o, k, Max(Hits(o, k)))

Heavier(d, e) ==
    LET w == Weighs(d.origin, d.stmt)
        v == Weighs(e.origin, e.stmt)
    IN  \/ d.origin > e.origin
        \/ d.origin = e.origin /\ w > v
        \/ d.origin = e.origin /\ w = v /\ d.stmt > e.stmt
        \/ d.origin = e.origin /\ w = v /\ d.stmt = e.stmt /\ d.nth > e.nth

\* A query for properties gives one declaration for each property that a matching
\* ruleset declares; where none of the candidates is important it is the last of
\* those that weigh most, as the engine weighs, in the highest origin.
CascadeOrder ==
    pc = "done" /\ query.of = "properties" =>
        /\ Range(props) \subseteq Candidates
        /\ \A i, j \in DOMAIN props : props[i].prop = props[j].prop => i = j
        /\ \A d \in Candidates :
              LET rivals == {e \in Candidates : e.prop = d.prop}
              IN  \E i \in DOMAIN props :
                     /\ props[i].prop = d.prop
                     /\ (\A e \in rivals : ~e.important) =>
                            \A e \in rivals : e = props[i] \/ Heavier(props[i], e)

\* An important declaration that was chosen is never overridden, unless it is the
\* user agent's.
ImportantIsKept ==
    [][pc = "apply" => \A i \in DOMAIN props :
          props[i].important /\ props[i].origin # ORIGIN_UA =>
              \E j \in DOMAIN props' : props'[j] = props[i]]_vars

\* Every query is answered, as long as no selector list has more matching selectors
\* than a piece of the table has entries: each growth gets the collection past the
\* statement that found no room.
QueriesEnd == (pc = "call") ~> (pc = "done")
=============================================================================
