--------------------------- MODULE CRSelEngProofs ---------------------------
(***************************************************************************)
(* What the selection engine collects, and what it chooses, for every      *)
(* cascade, way of matching and piece of the table.                        *)
(***************************************************************************)
EXTENDS CRSelEng, InductionLemmas, FiniteSetTheorems, SequenceTheorems

-----------------------------------------------------------------------------
(* Sequences, positions in them, and the first of a set of positions.        *)

LEMMA Greatest ==
    ASSUME NEW n \in Nat, NEW T, T \subseteq 1..n, T # {}
    PROVE  Max(T) \in T /\ \A y \in T : y <= Max(T)
<1> DEFINE R == {r \in 0..n : n - r \in T}
<1>1. R \subseteq Nat /\ R # {}
  <2>1. PICK x \in T : TRUE
    OBVIOUS
  <2>2. n - (n - x) = x /\ n - x \in 0..n
    BY <2>1
  <2>3. n - x \in R
    BY <2>1, <2>2
  <2>4. R \subseteq 0..n
    OBVIOUS
  <2> HIDE DEF R
  <2> QED
    BY <2>3, <2>4
<1>2. PICK r \in R : \A y \in R : r <= y
  BY <1>1, LeastElement
<1>3. \A y \in T : n - r >= y
  <2> SUFFICES ASSUME NEW y \in T PROVE n - r >= y
    OBVIOUS
  <2>1. n - (n - y) = y /\ n - y \in 0..n
    OBVIOUS
  <2>2. r <= n - y
    BY <1>2, <2>1
  <2> QED
    BY <2>1, <2>2
<1>4. n - r \in T
  OBVIOUS
<1> HIDE DEF R
<1> QED
  BY <1>3, <1>4 DEF Max

LEMMA SmallerOf ==
    ASSUME NEW n \in Int, NEW m \in Int
    PROVE  Min({n, m}) = IF n <= m THEN n ELSE m
<1>1. \E x \in {n, m} : \A y \in {n, m} : x <= y
  OBVIOUS
<1>2. Min({n, m}) \in {n, m} /\ \A y \in {n, m} : Min({n, m}) <= y
  BY <1>1 DEF Min
<1> QED
  BY <1>2

LEMMA SequenceHas ==
    ASSUME NEW s, IsSequence(s)
    PROVE  /\ Len(s) \in Nat /\ DOMAIN s = 1..Len(s)
           /\ s = <<>> <=> Len(s) = 0
<1>1. s \in Seq(Range(s))
  BY DEF IsSequence
<1> QED
  BY <1>1, LenProperties, EmptySeq

\* The first n of a set of positions are at most n, and they are a part of it that
\* is empty only when nothing fits or there is nothing.
LEMMA FirstFew ==
    ASSUME NEW n \in Nat, NEW hits, hits \subseteq 1..n, NEW few \in Nat
    PROVE  /\ FirstOf(hits, few) \subseteq hits
           /\ Cardinality(FirstOf(hits, few)) \in 0..few
           /\ FirstOf(hits, few) = {} <=> Cardinality(FirstOf(hits, few)) = 0
<1> DEFINE F == FirstOf(hits, few)
           upTo(i) == {j \in hits : j <= i}
<1>1. IsFiniteSet(hits)
  <2>1. IsFiniteSet(1..n)
    BY FS_Interval
  <2> QED
    BY <2>1, FS_Subset
<1>2. F \subseteq hits /\ IsFiniteSet(F)
  BY <1>1, FS_Subset DEF FirstOf
<1>3. Cardinality(F) \in Nat /\ (F = {} <=> Cardinality(F) = 0)
  BY <1>2, FS_CardinalityType, FS_EmptySet
<1>4. Cardinality(F) <= few
  <2>1. CASE F = {}
    BY <1>3, <2>1
  <2>2. CASE F # {}
    <3>1. Max(F) \in F /\ \A y \in F : y <= Max(F)
      BY <1>2, <2>2, Greatest
    <3>2. Cardinality(upTo(Max(F))) <= few
      BY <3>1 DEF FirstOf
    <3>3. F \in SUBSET upTo(Max(F))
      BY <1>2, <3>1
    <3>4. IsFiniteSet(upTo(Max(F)))
      BY <1>1, FS_Subset
    <3>5. Cardinality(F) <= Cardinality(upTo(Max(F)))
      BY <3>3, <3>4, FS_Subset
    <3>6. Cardinality(upTo(Max(F))) \in Nat
      BY <3>4, FS_CardinalityType
    <3> QED
      BY <1>3, <3>2, <3>5, <3>6
  <2> QED
    BY <2>1, <2>2
<1> QED
  BY <1>2, <1>3, <1>4

\* What is in the table after n more entries for a statement.
LEMMA EnteredHolds ==
    ASSUME NEW S, NEW t \in Seq(S), NEW place \in S, NEW n \in Nat
    PROVE  /\ Entered(t, place, n) \in Seq(S)
           /\ Len(Entered(t, place, n)) >= Len(t)
           /\ \A i \in 1..Len(Entered(t, place, n)) :
                 Entered(t, place, n)[i] = IF i <= Len(t) THEN t[i] ELSE place
           /\ Range(Entered(t, place, n)) = IF n = 0 THEN Range(t) ELSE Range(t) \cup {place}
<1> DEFINE at == {i \in DOMAIN t : t[i] = place}
           copies == Cardinality(at)
           more == Min({n, 2 - copies})
           e == [i \in 1..more |-> place]
<1>1. Len(t) \in Nat /\ DOMAIN t = 1..Len(t)
  BY LenProperties
<1>2. IsFiniteSet(at)
  <2>1. IsFiniteSet(1..Len(t))
    BY <1>1, FS_Interval
  <2>2. at \in SUBSET (1..Len(t))
    BY <1>1
  <2> HIDE DEF at
  <2> QED
    BY <2>1, <2>2, FS_Subset
<1>3. copies \in Nat /\ (copies = 0 <=> at = {})
  BY <1>2, FS_CardinalityType, FS_EmptySet
<1>4. more = IF n <= 2 - copies THEN n ELSE 2 - copies
  BY <1>3, SmallerOf
<1> HIDE DEF copies
<1>5. more \in Int /\ (n = 0 => more <= 0) /\ (n # 0 /\ at = {} => more >= 1)
  BY <1>3, <1>4
<1> HIDE DEF more
<1>6. /\ e \in Seq(S) /\ Len(e) = (IF more > 0 THEN more ELSE 0)
      /\ \A i \in 1..Len(e) : e[i] = place
  <2>1. CASE more > 0
    <3>1. e \in [1..more -> S] /\ more \in Nat
      BY <1>5, <2>1
    <3> QED
      BY <2>1, <3>1
  <2>2. CASE ~(more > 0)
    <3>1. 1..more = {} /\ 1..0 = {}
      BY <1>5, <2>2
    <3>2. e = [i \in 1..0 |-> place]
      BY <3>1
    <3>3. e = <<>>
      BY <3>2
    <3>4. <<>> \in Seq(S) /\ Len(<<>>) = 0
      BY EmptySeq
    <3>5. \A i \in 1..0 : FALSE
      OBVIOUS
    <3> HIDE DEF e
    <3> QED
      BY <2>2, <3>3, <3>4, <3>5
  <2> QED
    BY <2>1, <2>2
<1>7. Entered(t, place, n) = t \o e
  BY DEF Entered, more, copies
<1> HIDE DEF e
<1>8. /\ t \o e \in Seq(S) /\ Len(t \o e) = Len(t) + Len(e)
      /\ \A i \in 1..Len(t) + Len(e) : (t \o e)[i] = IF i <= Len(t) THEN t[i] ELSE place
  <2>1. /\ t \o e \in Seq(S) /\ Len(t \o e) = Len(t) + Len(e)
        /\ \A i \in 1..Len(t) + Len(e) :
              (t \o e)[i] = IF i <= Len(t) THEN t[i] ELSE e[i - Len(t)]
    BY <1>6, ConcatProperties
  <2>2. \A i \in 1..Len(t) + Len(e) : ~(i <= Len(t)) => i - Len(t) \in 1..Len(e)
    BY <1>1, <1>5, <1>6
  <2> QED
    BY <1>6, <2>1, <2>2
<1>9. DOMAIN (t \o e) = 1..Len(t) + Len(e) /\ Len(e) \in Nat
  BY <1>5, <1>6, <1>8, LenProperties
<1>10. Range(t \o e) = Range(t) \cup (IF Len(e) = 0 THEN {} ELSE {place})
  <2>1. \A i \in DOMAIN t : i \in 1..Len(t) + Len(e) /\ (t \o e)[i] = t[i]
    BY <1>1, <1>8, <1>9
  <2>2. Len(e) # 0 => /\ Len(t) + 1 \in 1..Len(t) + Len(e)
                      /\ (t \o e)[Len(t) + 1] = place
    BY <1>1, <1>8, <1>9
  <2>3. \A i \in 1..Len(t) + Len(e) :
          i \in DOMAIN t \/ (Len(e) # 0 /\ (t \o e)[i] = place)
    BY <1>1, <1>8, <1>9
  <2> QED
    BY <1>9, <2>1, <2>2, <2>3 DEF Range
<1>11. at # {} => place \in Range(t)
  BY DEF Range
<1> QED
  BY <1>1, <1>5, <1>6, <1>7, <1>8, <1>9, <1>10, <1>11

LEMMA NothingEntered ==
    ASSUME NEW S, NEW t \in Seq(S), NEW place
    PROVE  Entered(t, place, 0) = t
<1> DEFINE copies == Cardinality({i \in DOMAIN t : t[i] = place})
           more == Min({0, 2 - copies})
<1>1. {i \in DOMAIN t : t[i] = place} \in SUBSET (1..Len(t)) /\ Len(t) \in Nat
  OBVIOUS
<1>2. IsFiniteSet(1..Len(t))
  BY <1>1, FS_Interval
<1>3. copies \in Nat
  BY <1>1, <1>2, FS_Subset, FS_CardinalityType
<1> HIDE DEF copies
<1>4. more \in Int /\ more <= 0
  BY <1>3, SmallerOf
<1> HIDE DEF more
<1>5. [i \in 1..more |-> place] = <<>>
  BY <1>4
<1>6. Entered(t, place, 0) = t \o [i \in 1..more |-> place]
  BY DEF Entered, more, copies
<1> QED
  BY <1>5, <1>6, ConcatEmptySeq

-----------------------------------------------------------------------------
(* The inductive invariant.                                                  *)

Place(d) == <<d.origin, d.stmt>>

Before(p, q)   == p[1] < q[1] \/ (p[1] = q[1] /\ p[2] < q[2])
NotAfter(p, q) == p[1] < q[1] \/ (p[1] = q[1] /\ p[2] <= q[2])

Sorted(t) == \A i, j \in DOMAIN t : i < j => NotAfter(t[i], t[j])

\* The engine is in the middle of the sheet it remembers.
Visiting == pc \in {"walk", "grow"} \/ (pc = "call" /\ sheet = origin)

Control ==
    /\ specificity = [o \in Origins |-> specificity[o]]
    /\ pc \in {"idle", "sheet", "apply", "done"} => sheet = NoSheet
    /\ pc \in {"walk", "grow"} => sheet = origin
    /\ pc = "call" => sheet \in {NoSheet, origin}
    /\ pc \in {"call", "walk", "grow"} => origin \in Origins /\ cascade[origin] # NoSheet
    /\ Visiting => cascade[origin] # <<>> /\ cur_stmt \in 0..Len(cascade[origin])
    /\ Visiting /\ pc # "walk" => cur_stmt # 0
    /\ pc \in {"sheet", "apply"} => query.of = "properties"
    /\ pc # "idle" => query.of \in {"properties", "rulesets"}
    /\ pc = "done" /\ query.of = "rulesets" => origin \in Origins
    /\ pc = "idle" => tab = <<>>
    /\ pc = "done" /\ query.of = "properties" => tab = <<>>
    /\ pc \notin {"apply", "done"} => props = <<>>

\* The statements the query that runs has been past.
Passed(o, k) == \/ query.of = "properties" /\ o < origin
                \/ Visiting /\ o = origin /\ (cur_stmt = 0 \/ k < cur_stmt)
                \/ pc = "done" /\ o = origin

Collecting == \/ pc \in {"sheet", "call", "walk", "grow"}
              \/ pc = "done" /\ query.of = "rulesets"

\* The table holds the statements passed that match, and may hold the one that
\* found no room.
Collection ==
    Collecting =>
        /\ \A o \in Origins, k \in Nat \ {0} : <<o, k>> \in Range(tab) =>
              /\ k \in Matched(o)
              /\ Passed(o, k) \/ (Visiting /\ o = origin /\ k = cur_stmt)
        /\ \A o \in Origins : \A k \in Matched(o) :
              Passed(o, k) => <<o, k>> \in Range(tab) /\ specificity[o][k] = Weighs(o, k)
        /\ Sorted(tab)

Applying == pc = "apply" \/ (pc = "done" /\ query.of = "properties")

\* The candidates that have been put into the list for good.
Behind == {d \in Candidates : Place(d) \notin Range(tab)}

Unique(list) == \A i, j \in DOMAIN list : list[i].prop = list[j].prop => i = j

Quiet(q) == \A e \in Candidates : e.prop = q => ~e.important

Best(c, e) == e = c \/ Heavier(c, e)

ToApply ==
    Applying =>
        /\ \A o \in Origins : \A k \in Matched(o) : specificity[o][k] = Weighs(o, k)
        /\ \A o \in Origins, k \in Nat \ {0} :
              <<o, k>> \in Range(tab) => k \in Matched(o)
        /\ Sorted(tab)
        /\ \A d \in Behind : \A i \in DOMAIN tab : Before(Place(d), tab[i])

Choice ==
    Applying =>
        /\ \A c \in Range(props) :
              c \in Candidates /\ \A i \in DOMAIN tab : NotAfter(Place(c), tab[i])
        /\ Unique(props)
        /\ \A d \in Behind : \E c \in Range(props) : c.prop = d.prop
        /\ \A c \in Range(props) : Quiet(c.prop) =>
              \A e \in Behind : e.prop = c.prop => Best(c, e)

-----------------------------------------------------------------------------
(* The list of the declarations chosen.                                      *)

LEMMA PartOf ==
    ASSUME NEW S, NEW s \in Seq(S), NEW m \in 1..Len(s) + 1, NEW n \in m - 1..Len(s)
    PROVE  /\ SubSeq(s, m, n) \in Seq(S) /\ Len(SubSeq(s, m, n)) = n - m + 1
           /\ \A j \in 1..n - m + 1 : SubSeq(s, m, n)[j] = s[m + j - 1]
  OBVIOUS

\* The entry for a property is unlinked.
LEMMA Unlinked ==
    ASSUME NEW S, NEW s \in Seq(S), NEW i \in 1..Len(s)
    PROVE  /\ RemoveAt(s, i) \in Seq(S) /\ Len(RemoveAt(s, i)) = Len(s) - 1
           /\ \A j \in 1..Len(s) - 1 :
                 RemoveAt(s, i)[j] = IF j < i THEN s[j] ELSE s[j + 1]
<1> DEFINE a == SubSeq(s, 1, i - 1)
           b == SubSeq(s, i + 1, Len(s))
<1>1. Len(s) \in Nat /\ \A j \in 1..Len(s) : s[j] \in S
  BY LenProperties, ElementOfSeq
<1>2. /\ a \in Seq(S) /\ Len(a) = i - 1
      /\ \A j \in 1..i - 1 : a[j] = s[j]
  <2>1. 1 \in 1..Len(s) + 1 /\ i - 1 \in 1 - 1..Len(s)
    BY <1>1
  <2>2. \A j \in Int : 1 + j - 1 = j
    OBVIOUS
  <2> QED
    BY <2>1, <2>2, PartOf
<1>3. /\ b \in Seq(S) /\ Len(b) = Len(s) - i
      /\ \A j \in 1..Len(s) - i : b[j] = s[i + j]
  <2>1. i + 1 \in 1..Len(s) + 1 /\ Len(s) \in i + 1 - 1..Len(s)
    BY <1>1
  <2>2. \A j \in Int : i + 1 + j - 1 = i + j
    OBVIOUS
  <2>3. Len(s) - (i + 1) + 1 = Len(s) - i
    BY <1>1
  <2>4. /\ b \in Seq(S) /\ Len(b) = Len(s) - (i + 1) + 1
        /\ \A j \in 1..Len(s) - (i + 1) + 1 : b[j] = s[i + 1 + j - 1]
    BY <2>1, PartOf
  <2> HIDE DEF b
  <2> QED
    BY <2>2, <2>3, <2>4
<1>4. RemoveAt(s, i) = a \o b
  BY DEF RemoveAt
<1> HIDE DEF a, b
<1>5. /\ a \o b \in Seq(S) /\ Len(a \o b) = Len(a) + Len(b)
      /\ \A j \in 1..Len(a) + Len(b) :
            (a \o b)[j] = IF j <= Len(a) THEN a[j] ELSE b[j - Len(a)]
  BY <1>2, <1>3, ConcatProperties
<1>6. \A j \in 1..Len(s) - 1 : ~(j < i) => j - (i - 1) \in 1..Len(s) - i
                                         /\ i + (j - (i - 1)) = j + 1
  BY <1>1
<1> QED
  BY <1>1, <1>2, <1>3, <1>4, <1>5, <1>6

\* cr_prop_list_lookup_prop
Found(list, d) == SelectInSeq(list, LAMBDA e : e.prop = d.prop)

LEMMA Lookup ==
    ASSUME NEW list \in Seq(Chosen), NEW d
    PROVE  /\ Found(list, d) \in 0..Len(list)
           /\ Found(list, d) = 0 => \A i \in 1..Len(list) : list[i].prop # d.prop
           /\ Found(list, d) # 0 => list[Found(list, d)].prop = d.prop
<1> DEFINE I == {i \in 1..Len(list) : list[i].prop = d.prop}
<1>1. Found(list, d) = IF I # {} THEN Min(I) ELSE 0
  BY DEF Found, SelectInSeq
<1>2. I \subseteq Nat /\ Len(list) \in Nat
  OBVIOUS
<1>3. I # {} => Min(I) \in I
  <2> HIDE DEF I
  <2> QED
    BY <1>2, Least
<1> QED
  BY <1>1, <1>2, <1>3

\* What becomes of a list when a declaration is put into it.
LEMMA WithIs ==
    ASSUME NEW list \in Seq(Chosen), NEW d \in Chosen
    PROVE  /\ With(list, d) \in Seq(Chosen)
           /\ \/ /\ \A i \in 1..Len(list) : list[i].prop # d.prop
                 /\ Len(With(list, d)) = Len(list) + 1
                 /\ \A i \in 1..Len(list) : With(list, d)[i] = list[i]
                 /\ With(list, d)[Len(list) + 1] = d
              \/ \E i \in 1..Len(list) :
                    /\ list[i].prop = d.prop
                    /\ ~Overrides(d, list[i])
                    /\ With(list, d) = list
              \/ \E i \in 1..Len(list) :
                    /\ list[i].prop = d.prop
                    /\ Overrides(d, list[i])
                    /\ Len(With(list, d)) = Len(list)
                    /\ \A j \in 1..Len(list) - 1 :
                          With(list, d)[j] = IF j < i THEN list[j] ELSE list[j + 1]
                    /\ With(list, d)[Len(list)] = d
<1> DEFINE i == Found(list, d)
<1>1. With(list, d) = IF i = 0 THEN Append(list, d)
                      ELSE IF Overrides(d, list[i]) THEN Append(RemoveAt(list, i), d)
                      ELSE list
  BY DEF With, Found
<1>2. Len(list) \in Nat
  OBVIOUS
<1> HIDE DEF i
<1>3. /\ i \in 0..Len(list)
      /\ i = 0 => \A j \in 1..Len(list) : list[j].prop # d.prop
      /\ i # 0 => list[i].prop = d.prop
  BY Lookup DEF i
<1>4. CASE i = 0
  BY <1>1, <1>2, <1>3, <1>4
<1>5. CASE i # 0 /\ ~Overrides(d, list[i])
  <2>1. i \in 1..Len(list) /\ With(list, d) = list
    BY <1>1, <1>3, <1>5
  <2> QED
    BY <1>3, <1>5, <2>1
<1>6. CASE i # 0 /\ Overrides(d, list[i])
  <2>1. i \in 1..Len(list)
    BY <1>3, <1>6
  <2> DEFINE r == RemoveAt(list, i)
  <2>2. /\ r \in Seq(Chosen) /\ Len(r) = Len(list) - 1
        /\ \A j \in 1..Len(list) - 1 : r[j] = IF j < i THEN list[j] ELSE list[j + 1]
    BY <2>1, Unlinked
  <2>3. With(list, d) = Append(r, d)
    BY <1>1, <1>6
  <2> HIDE DEF r
  <2>4. /\ Append(r, d) \in Seq(Chosen) /\ Len(Append(r, d)) = Len(list)
        /\ \A j \in 1..Len(list) - 1 : Append(r, d)[j] = r[j]
        /\ Append(r, d)[Len(list)] = d
    BY <1>2, <2>1, <2>2
  <2> QED
    BY <1>3, <1>6, <2>1, <2>2, <2>3, <2>4
<1> QED
  BY <1>4, <1>5, <1>6

LEMMA Inputs ==
    ASSUME TypeOK, NEW o \in Origins
    PROVE  /\ IsSequence(Statements(o))
           /\ \A k \in DOMAIN Statements(o) : IsStatement(Statements(o)[k])
           /\ cascade[o] # NoSheet => Statements(o) = cascade[o]
           /\ NoSheet \notin Origins
<1>1. <<doc, cascade>> \in Instances
  BY DEF TypeOK
<1>2. \/ cascade[o] = NoSheet
      \/ /\ IsSequence(cascade[o])
         /\ \A k \in DOMAIN cascade[o] : IsStatement(cascade[o][k])
  BY <1>1, SelEngAssumption DEF Origins
<1>3. IsSequence(<<>>) /\ DOMAIN <<>> = {}
  BY EmptySeq DEF IsSequence
<1> QED
  BY <1>2, <1>3, SelEngAssumption DEF Statements, Origins

LEMMA StatementHas ==
    ASSUME TypeOK, NEW o \in Origins, NEW k \in DOMAIN Statements(o)
    PROVE  /\ cascade[o] # NoSheet /\ Statements(o) = cascade[o]
           /\ k \in Nat \ {0} /\ k <= Len(cascade[o])
           /\ Len(cascade[o][k].decls) \in Nat
           /\ DOMAIN cascade[o][k].decls = 1..Len(cascade[o][k].decls)
           /\ \A j \in 1..Len(cascade[o][k].decls) : Declaration(o, k, j) \in Chosen
           /\ Len(cascade[o][k].sels) \in Nat
           /\ DOMAIN cascade[o][k].sels = 1..Len(cascade[o][k].sels)
           /\ \A i \in DOMAIN cascade[o][k].sels : Weighing(o, k, i) \in Nat
<1>1. cascade[o] # NoSheet /\ Statements(o) = cascade[o]
  BY Inputs DEF Statements
<1>2. IsSequence(cascade[o]) /\ IsStatement(cascade[o][k])
  BY <1>1, Inputs
<1>3. k \in Nat \ {0} /\ k <= Len(cascade[o])
  BY <1>1, <1>2, SequenceHas
<1>4. /\ IsSequence(cascade[o][k].sels) /\ IsSequence(cascade[o][k].decls)
      /\ \A i \in DOMAIN cascade[o][k].sels : Weighing(o, k, i) \in Nat
      /\ \A j \in DOMAIN cascade[o][k].decls :
            /\ cascade[o][k].decls[j].prop \in STRING
            /\ cascade[o][k].decls[j].important \in BOOLEAN
  BY <1>2 DEF IsStatement, Weighing
<1>5. /\ Len(cascade[o][k].decls) \in Nat
      /\ DOMAIN cascade[o][k].decls = 1..Len(cascade[o][k].decls)
      /\ Len(cascade[o][k].sels) \in Nat
      /\ DOMAIN cascade[o][k].sels = 1..Len(cascade[o][k].sels)
  BY <1>4, SequenceHas
<1>6. \A j \in 1..Len(cascade[o][k].decls) : Declaration(o, k, j) \in Chosen
  BY <1>3, <1>4, <1>5 DEF Declaration, Chosen
<1> QED
  BY <1>1, <1>3, <1>4, <1>5, <1>6

\* The list after each declaration of a statement.
Puts(put, list, o, k) ==
    /\ put \in [0..Len(cascade[o][k].decls) -> Seq(Chosen)]
    /\ put[0] = list
    /\ \A j \in 1..Len(cascade[o][k].decls) : put[j] = With(put[j - 1], Declaration(o, k, j))
    /\ Put(list, o, k) = put[Len(cascade[o][k].decls)]

LEMMA PutIs ==
    ASSUME TypeOK, NEW o \in Origins, NEW k \in DOMAIN Statements(o),
           NEW list \in Seq(Chosen)
    PROVE  \E put : Puts(put, list, o, k)
<1> DEFINE n == Len(cascade[o][k].decls)
           V == Seq(Chosen)
           step == [x \in (1..n) \X V |-> With(x[2], Declaration(o, k, x[1]))]
           Solves(f) == f = [j \in 0..n |-> IF j = 0 THEN list
                                            ELSE With(f[j - 1], Declaration(o, k, j))]
           put == CHOOSE f : Solves(f)
<1>1. n \in Nat /\ \A j \in 1..n : Declaration(o, k, j) \in Chosen
  BY StatementHas
<1> HIDE DEF n, V
<1>2. step \in [(1..n) \X V -> V]
  BY <1>1, WithIs DEF V
<1>3. PICK f : f \in Recursion(n, V, list, step)
  BY <1>1, <1>2, RecursionHasSolution DEF V
<1>4. /\ f \in [0..n -> V] /\ f[0] = list
      /\ \A j \in 1..n : f[j] = With(f[j - 1], Declaration(o, k, j))
  <2>1. f \in [0..n -> V] /\ f[0] = list /\ \A j \in 1..n : f[j] = step[<<j, f[j - 1]>>]
    BY <1>3 DEF Recursion
  <2>2. \A j \in 1..n : j - 1 \in 0..n /\ f[j - 1] \in V
    BY <1>1, <2>1
  <2> QED
    BY <2>1, <2>2
<1>5. Solves(f)
  <2>1. \A j \in 0..n : j # 0 => j \in 1..n
    BY <1>1
  <2>2. \A j \in 0..n : f[j] = IF j = 0 THEN list
                               ELSE With(f[j - 1], Declaration(o, k, j))
    BY <1>4, <2>1
  <2> QED
    BY <1>4, <2>2
<1>6. Solves(put)
  <2> HIDE DEF Solves
  <2> QED
    BY <1>5
<1>7. /\ \A j \in 0..n : put[j] = IF j = 0 THEN list
                                  ELSE With(put[j - 1], Declaration(o, k, j))
      /\ DOMAIN put = 0..n /\ put = [j \in 0..n |-> put[j]]
  <2> HIDE DEF put
  <2> QED
    BY <1>6
<1>8. Put(list, o, k) = put[n]
  BY DEF Put, n
<1> HIDE DEF put
<1>9. put[0] = list /\ \A j \in 1..n : put[j] = With(put[j - 1], Declaration(o, k, j))
  BY <1>1, <1>7
<1>10. \A j \in 0..n : put[j] \in V
  <2> DEFINE T == {j \in 0..n : put[j] \in V}
  <2>1. 0 \in T
    BY <1>1, <1>9 DEF V
  <2>2. \A j \in 0..n-1 : j \in T => j + 1 \in T
    <3> SUFFICES ASSUME NEW j \in 0..n-1, put[j] \in V PROVE put[j + 1] \in V
      BY <1>1
    <3>1. j + 1 \in 0..n /\ j + 1 # 0 /\ j + 1 - 1 = j /\ j + 1 \in 1..n
      BY <1>1
    <3>2. put[j + 1] = With(put[j], Declaration(o, k, j + 1))
      BY <1>9, <3>1
    <3> QED
      BY <1>1, <3>1, <3>2, WithIs DEF V
  <2>3. 0..n \subseteq T
    <3> HIDE DEF T
    <3> QED
      BY <1>1, <2>1, <2>2, InductionUpTo
  <2> QED
    BY <2>3
<1>11. put \in [0..n -> V]
  BY <1>7, <1>10
<1> QED
  BY <1>8, <1>9, <1>11 DEF Puts, n, V

-----------------------------------------------------------------------------
(* Type correctness, and where the engine is.                                *)

LEMMA InitialTypes == Init => TypeOK /\ Control
<1> SUFFICES ASSUME Init PROVE TypeOK /\ Control
  OBVIOUS
<1>1. <<doc, cascade>> \in Instances
  BY SelEngAssumption DEF Init
<1>2. handlers \in Seq(Entries \cup Range(Builtin))
  <2>1. Builtin \in Seq(Range(Builtin)) /\ Range(Builtin) \subseteq Entries \cup Range(Builtin)
    BY SelEngAssumption DEF IsSequence
  <2>2. Builtin \in Seq(Entries \cup Range(Builtin))
    BY <2>1, SeqMonotonic
  <2> QED
    BY <2>2 DEF Init
<1>3. /\ specificity = [o \in Origins |-> specificity[o]]
      /\ \A o \in Origins : specificity[o] \in [DOMAIN Statements(o) -> Nat]
  BY DEF Init
<1>4. query \in [of : {"none", "properties", "rulesets"}, node : Queried]
  BY SelEngAssumption DEF Init
<1>5. /\ sheet = NoSheet /\ cur_stmt = 0 /\ pc = "idle" /\ origin = 0
      /\ tab = <<>> /\ room = 0 /\ props = <<>>
  BY DEF Init
<1>6. tab \in Seq(Origins \X (Nat \ {0})) /\ props \in Seq(Chosen)
  BY <1>5, EmptySeq
<1>7. TypeOK
  BY <1>1, <1>2, <1>3, <1>4, <1>5, <1>6 DEF TypeOK, NB_ORIGINS
<1>8. Control
  BY <1>3, <1>5 DEF Control, Visiting
<1> QED
  BY <1>7, <1>8

\* What a visit finds.
Stored == FirstOf(Hits(origin, cur_stmt), room)

LEMMA Visited ==
    ASSUME TypeOK, Control, pc = "walk", cur_stmt # 0
    PROVE  /\ origin \in Origins /\ cur_stmt \in DOMAIN Statements(origin)
           /\ Statements(origin) = cascade[origin] /\ cascade[origin] # <<>>
           /\ cur_stmt \in 1..Len(cascade[origin]) /\ Len(cascade[origin]) \in Nat
           /\ Stored \subseteq Hits(origin, cur_stmt)
           /\ Hits(origin, cur_stmt) \subseteq DOMAIN cascade[origin][cur_stmt].sels
           /\ Cardinality(Stored) \in 0..room
           /\ Stored = {} <=> Cardinality(Stored) = 0
           /\ Stored # {} => /\ Max(Stored) \in Stored
                             /\ Weighing(origin, cur_stmt, Max(Stored)) \in Nat
           /\ <<origin, cur_stmt>> \in Origins \X (Nat \ {0})
<1>1. /\ origin \in Origins /\ cascade[origin] # NoSheet
      /\ cascade[origin] # <<>> /\ cur_stmt \in 0..Len(cascade[origin])
  BY DEF Control, Visiting
<1>2. Statements(origin) = cascade[origin] /\ IsSequence(cascade[origin])
  BY <1>1, Inputs
<1>3. /\ Len(cascade[origin]) \in Nat /\ cur_stmt \in 1..Len(cascade[origin])
      /\ cur_stmt \in DOMAIN Statements(origin)
  BY <1>1, <1>2, SequenceHas
<1> DEFINE sels == cascade[origin][cur_stmt].sels
<1>4. /\ Len(sels) \in Nat /\ DOMAIN sels = 1..Len(sels)
      /\ \A i \in DOMAIN sels : Weighing(origin, cur_stmt, i) \in Nat
  BY <1>1, <1>3, StatementHas
<1>5. Hits(origin, cur_stmt) \subseteq DOMAIN sels
  BY DEF Hits
<1> HIDE DEF sels
<1>6. room \in Nat
  BY DEF TypeOK
<1>7. /\ Stored \subseteq Hits(origin, cur_stmt) /\ Cardinality(Stored) \in 0..room
      /\ Stored = {} <=> Cardinality(Stored) = 0
  <2>1. Hits(origin, cur_stmt) \subseteq 1..Len(sels)
    BY <1>4, <1>5
  <2> QED
    BY <1>4, <1>6, <2>1, FirstFew DEF Stored
<1>8. Stored # {} => Max(Stored) \in Stored
  <2>1. Stored \subseteq 1..Len(sels)
    BY <1>4, <1>5, <1>7
  <2> QED
    BY <1>4, <2>1, Greatest
<1>9. Stored # {} => Weighing(origin, cur_stmt, Max(Stored)) \in Nat
  BY <1>4, <1>5, <1>7, <1>8
<1> QED
  BY <1>1, <1>2, <1>3, <1>5, <1>7, <1>8, <1>9 DEF sels

LEMMA VisitTyped ==
    ASSUME TypeOK, Control, Visit
    PROVE  TypeOK' /\ Control'
<1>1. pc = "walk" /\ cur_stmt # 0
  BY DEF Visit
<1>2. /\ origin \in Origins /\ cur_stmt \in DOMAIN Statements(origin)
      /\ cascade[origin] # <<>>
      /\ cur_stmt \in 1..Len(cascade[origin]) /\ Len(cascade[origin]) \in Nat
      /\ Cardinality(Stored) \in 0..room
      /\ Stored # {} => Weighing(origin, cur_stmt, Max(Stored)) \in Nat
      /\ <<origin, cur_stmt>> \in Origins \X (Nat \ {0})
  BY <1>1, Visited
<1>3. /\ tab' = Entered(tab, <<origin, cur_stmt>>, Cardinality(Stored))
      /\ room' = room - Cardinality(Stored)
      /\ specificity' =
            IF Stored = {} THEN specificity
            ELSE [specificity EXCEPT ![origin][cur_stmt] =
                                        Weighing(origin, cur_stmt, Max(Stored))]
      /\ IF Stored = Hits(origin, cur_stmt)
         THEN cur_stmt' = Following(origin, cur_stmt) /\ UNCHANGED pc
         ELSE pc' = "grow" /\ UNCHANGED cur_stmt
      /\ UNCHANGED <<doc, cascade, handlers, sheet, query, origin, props>>
  BY DEF Visit, Stored
<1>4. tab' \in Seq(Origins \X (Nat \ {0})) /\ room' \in Nat
  <2>1. tab \in Seq(Origins \X (Nat \ {0})) /\ room \in Nat
    BY DEF TypeOK
  <2>2. Cardinality(Stored) \in Nat
    BY <1>2, <2>1
  <2>3. tab' \in Seq(Origins \X (Nat \ {0}))
    BY <1>2, <1>3, <2>1, <2>2, EnteredHolds
  <2> QED
    BY <1>2, <1>3, <2>1, <2>3
<1>5. Statements(origin)' = Statements(origin) /\ \A o \in Origins : Statements(o)' = Statements(o)
  BY <1>3 DEF Statements
<1>6. /\ specificity' = [o \in Origins |-> specificity'[o]]
      /\ \A o \in Origins : specificity'[o] \in [DOMAIN Statements(o) -> Nat]
  <2>1. /\ specificity = [o \in Origins |-> specificity[o]]
        /\ \A o \in Origins : specificity[o] \in [DOMAIN Statements(o) -> Nat]
    BY DEF Control, TypeOK
  <2>2. CASE Stored = {}
    BY <1>3, <2>1, <2>2
  <2>3. CASE Stored # {}
    <3> DEFINE w == Weighing(origin, cur_stmt, Max(Stored))
               sp == [specificity[origin] EXCEPT ![cur_stmt] = w]
    <3>1. w \in Nat /\ specificity' = [specificity EXCEPT ![origin] = sp]
      BY <1>2, <1>3, <2>3
    <3>2. sp \in [DOMAIN Statements(origin) -> Nat]
      BY <1>2, <2>1, <3>1
    <3> HIDE DEF sp
    <3>3. /\ specificity' = [o \in Origins |-> IF o = origin THEN sp ELSE specificity[o]]
      BY <2>1, <3>1
    <3> QED
      BY <1>2, <2>1, <3>2, <3>3
  <2> QED
    BY <2>2, <2>3
<1>7. cur_stmt' \in 0..Len(cascade[origin]) /\ pc' \in {"walk", "grow"}
      /\ (pc' # "walk" => cur_stmt' # 0)
  BY <1>1, <1>2, <1>3 DEF Following
<1>8. TypeOK'
  <2>1. cur_stmt' \in Nat
    BY <1>2, <1>7
  <2> QED
    BY <1>3, <1>4, <1>5, <1>6, <1>7, <2>1 DEF TypeOK
<1>9. Control'
  BY <1>1, <1>2, <1>3, <1>6, <1>7 DEF Control, Visiting
<1> QED
  BY <1>8, <1>9

\* The statement that is applied is one that matches.
LEMMA HeadApplied ==
    ASSUME TypeOK, ToApply, pc = "apply", tab # <<>>
    PROVE  \E o \in Origins : \E k \in Matched(o) :
              /\ Head(tab) = <<o, k>> /\ tab[1] = <<o, k>>
              /\ k \in DOMAIN Statements(o) /\ k \in Nat \ {0}
<1>1. 1 \in DOMAIN tab /\ Head(tab) = tab[1] /\ tab[1] \in Origins \X (Nat \ {0})
  BY DEF TypeOK
<1>2. PICK o \in Origins, k \in Nat \ {0} : tab[1] = <<o, k>>
  BY <1>1
<1>3. <<o, k>> \in Range(tab)
  BY <1>1, <1>2 DEF Range
<1>4. k \in Matched(o)
  BY <1>3 DEF ToApply, Applying
<1> QED
  BY <1>1, <1>2, <1>4 DEF Matched

LEMMA TypesPreserved ==
    ASSUME TypeOK, Control, ToApply, [Next]_vars
    PROVE  TypeOK' /\ Control'
<1>1. ~Visit => /\ UNCHANGED <<doc, cascade, specificity>>
                /\ pc' \in {"idle", "sheet", "call", "walk", "grow", "apply", "done"}
  BY DEF Next, Step, Register, Unregister, UnregisterAll, engine, AskProperties, AskRulesets,
     NextSheet, StartCall, Collected, Grow, EndOfSheet, Apply, EndApply, Return, vars, TypeOK
<1>2. CASE ~Visit
  <2>1. /\ \A o \in Origins : specificity'[o] \in [DOMAIN Statements(o)' -> Nat]
        /\ <<doc, cascade>>' \in Instances
        /\ specificity' = [o \in Origins |-> specificity'[o]]
    BY <1>1, <1>2 DEF TypeOK, Control, Statements
  <2>2. CASE \/ \E e \in Entries : Register(e)
             \/ \E e \in Entries : Unregister(e.name, e.type)
             \/ UnregisterAll
    <3> DEFINE H == Entries \cup Range(Builtin)
    <3>1. handlers' \in Seq(H)
      <4>1. handlers \in Seq(H)
        BY DEF TypeOK
      <4>2. CASE \E e \in Entries : Register(e)
        BY <4>1, <4>2 DEF Register
      <4>3. ASSUME NEW e \in Entries, Unregister(e.name, e.type) PROVE handlers' \in Seq(H)
        <5> DEFINE I == {i \in 1..Len(handlers) : /\ handlers[i].name = e.name
                                                  /\ handlers[i].type = e.type}
                   found == IF I # {} THEN Min(I) ELSE 0
        <5>1. found # 0 /\ handlers' = RemoveAt(handlers, found)
          BY <4>3 DEF Unregister, SelectInSeq
        <5>2. I # {} => Min(I) \in I
          <6>1. I \subseteq Nat
            BY <4>1
          <6> HIDE DEF I
          <6> QED
            BY <6>1, Least
        <5>3. found \in 1..Len(handlers)
          BY <5>1, <5>2
        <5> HIDE DEF found
        <5> QED
          BY <4>1, <5>1, <5>3, Unlinked
      <4>4. CASE UnregisterAll
        BY <4>4, EmptySeq DEF UnregisterAll
      <4> QED
        BY <2>2, <4>2, <4>3, <4>4
    <3>2. UNCHANGED <<doc, cascade, engine>>
      BY <2>2 DEF Register, Unregister, UnregisterAll
    <3> QED
      BY <2>1, <3>1, <3>2 DEF TypeOK, Control, Visiting, engine
  <2>3. CASE \E n \in Queried : AskProperties(n)
    BY <2>1, <2>3 DEF AskProperties, TypeOK, Control, Visiting, Origins, ORIGIN_UA, NB_ORIGINS
  <2>4. CASE \E n \in Queried, o \in Origins : AskRulesets(o, n)
    <3>1. Chunk \in Nat /\ \A o \in Origins : o \in 0..NB_ORIGINS /\ o # NoSheet
      BY SelEngAssumption DEF Origins, NB_ORIGINS
    <3> QED
      BY <2>1, <2>4, <3>1 DEF AskRulesets, TypeOK, Control, Visiting
  <2>5. CASE NextSheet
    <3>1. Chunk \in Nat /\ NoSheet \notin Origins
      BY SelEngAssumption DEF Origins
    <3>2. CASE origin = NB_ORIGINS /\ pc' = "apply" /\ UNCHANGED <<origin, room>>
      BY <2>1, <2>5, <3>2 DEF NextSheet, TypeOK, Control, Visiting
    <3>3. CASE origin < NB_ORIGINS /\ origin' = origin + 1 /\ UNCHANGED <<pc, room>>
      BY <2>1, <2>5, <3>3 DEF NextSheet, TypeOK, Control, Visiting, NB_ORIGINS
    <3>4. CASE /\ origin < NB_ORIGINS /\ cascade[origin] # NoSheet
               /\ room' = IF room < 1 THEN Chunk ELSE room
               /\ pc' = "call" /\ UNCHANGED origin
      <4>1. origin \in Origins /\ room' \in Nat
        BY <3>1, <3>4 DEF TypeOK, Origins, NB_ORIGINS
      <4> QED
        BY <2>1, <2>5, <3>1, <3>4, <4>1 DEF NextSheet, TypeOK, Control, Visiting
    <3> QED
      BY <2>5, <3>2, <3>3, <3>4 DEF NextSheet
  <2>6. CASE StartCall
    <3>1. origin \in Origins /\ cascade[origin] # NoSheet
      BY <2>6 DEF StartCall, Control
    <3>2. IsSequence(cascade[origin]) /\ NoSheet \notin Origins
      BY <3>1, Inputs
    <3>3. CASE cascade[origin] = <<>>
      <4>1. sheet = NoSheet
        BY <2>6, <3>1, <3>3 DEF StartCall, Control, Visiting
      <4> QED
        BY <2>1, <2>6, <3>1, <3>3, <4>1
        DEF StartCall, Collected, TypeOK, Control, Visiting, Origins, NB_ORIGINS
    <3>4. CASE cascade[origin] # <<>>
      <4>1. cur_stmt' \in 0..Len(cascade[origin]) /\ cur_stmt' \in Nat
        <5>1. Len(cascade[origin]) \in Nat /\ Len(cascade[origin]) # 0
          BY <3>2, <3>4, SequenceHas
        <5> QED
          BY <2>6, <3>1, <3>4, <5>1 DEF StartCall, Control, Visiting
      <4> QED
        BY <2>1, <2>6, <3>1, <3>4, <4>1 DEF StartCall, TypeOK, Control, Visiting
    <3> QED
      BY <3>3, <3>4
  <2>7. CASE Grow
    <3>1. room' \in Nat
      BY <2>7, SelEngAssumption DEF Grow, TypeOK
    <3> QED
      BY <2>1, <2>7, <3>1 DEF Grow, TypeOK, Control, Visiting
  <2>8. CASE EndOfSheet
    <3>1. origin \in Origins /\ NoSheet \notin Origins
      BY <2>8, SelEngAssumption DEF EndOfSheet, Control, Origins
    <3> QED
      BY <2>1, <2>8, <3>1
      DEF EndOfSheet, Collected, TypeOK, Control, Visiting, Origins, NB_ORIGINS
  <2>9. CASE Apply
    <3>1. tab' \in Seq(Origins \X (Nat \ {0}))
      BY <2>9 DEF Apply, TypeOK
    <3>2. props' \in Seq(Chosen)
      <4>1. PICK o \in Origins, k \in Nat \ {0} :
                    Head(tab) = <<o, k>> /\ k \in DOMAIN Statements(o)
        BY <2>9, HeadApplied DEF Apply
      <4>0. props \in Seq(Chosen)
        BY DEF TypeOK
      <4>2. PICK put : Puts(put, props, o, k)
        BY <4>0, <4>1, PutIs
      <4>3. Put(props, o, k) \in Seq(Chosen)
        BY <4>1, <4>2, StatementHas DEF Puts
      <4> QED
        BY <2>9, <4>0, <4>1, <4>3 DEF Apply
    <3> QED
      BY <2>1, <2>9, <3>1, <3>2 DEF Apply, TypeOK, Control, Visiting
  <2>10. CASE EndApply
    BY <2>1, <2>10 DEF EndApply, TypeOK, Control, Visiting
  <2>11. CASE Return
    <3>1. tab' \in Seq(Origins \X (Nat \ {0})) /\ props' \in Seq(Chosen)
      BY <2>11, EmptySeq DEF Return
    <3> QED
      BY <2>1, <2>11, <3>1 DEF Return, TypeOK, Control, Visiting, NB_ORIGINS
  <2>12. CASE UNCHANGED vars
    BY <2>12 DEF vars, engine, TypeOK, Control, Visiting, Statements
  <2> QED
    BY <1>2, <2>2, <2>3, <2>4, <2>5, <2>6, <2>7, <2>8, <2>9, <2>10, <2>11, <2>12
    DEF Next, Step
<1> QED
  BY <1>2, VisitTyped

-----------------------------------------------------------------------------
(* The table holds what matches.                                             *)

LEMMA SameMatches ==
    ASSUME UNCHANGED <<doc, cascade, handlers, query>>
    PROVE  /\ \A o : /\ Statements(o)' = Statements(o)
                     /\ Matched(o)' = Matched(o)
                     /\ \A k : Weighs(o, k)' = Weighs(o, k)
           /\ Candidates' = Candidates
<1>1. \A o : Statements(o)' = Statements(o)
  BY DEF Statements
<1>2. \A o, k : Hits(o, k)' = Hits(o, k)
  BY DEF Hits
<1>3. \A o : Matched(o)' = Matched(o)
  BY <1>1, <1>2 DEF Matched
<1>4. \A o, k : Weighs(o, k)' = Weighs(o, k)
  BY <1>2 DEF Weighs, Weighing
<1>6. Candidates' = Candidates
  BY <1>3 DEF Candidates, Declaration
<1> QED
  BY <1>1, <1>3, <1>4, <1>6

LEMMA MatchedAre ==
    ASSUME TypeOK, NEW o \in Origins, NEW k \in Matched(o)
    PROVE  /\ k \in DOMAIN Statements(o) /\ k \in Nat \ {0}
           /\ cascade[o] # NoSheet /\ cascade[o] # <<>> /\ k <= Len(cascade[o])
<1>1. k \in DOMAIN Statements(o)
  BY DEF Matched
<1>2. cascade[o] # NoSheet /\ k \in Nat \ {0} /\ k <= Len(cascade[o])
  BY <1>1, StatementHas
<1>3. IsSequence(cascade[o])
  BY <1>2, Inputs
<1>4. cascade[o] # <<>>
  BY <1>2, <1>3, SequenceHas
<1> QED
  BY <1>1, <1>2, <1>4

LEMMA SortedAfter ==
    ASSUME NEW t \in Seq(Origins \X (Nat \ {0})), NEW place \in Origins \X (Nat \ {0}),
           NEW n \in Nat, Sorted(t), \A i \in DOMAIN t : NotAfter(t[i], place)
    PROVE  Sorted(Entered(t, place, n))
<1> DEFINE e == Entered(t, place, n)
           P == Origins \X (Nat \ {0})
<1>1. e \in Seq(P) /\ \A i \in 1..Len(e) : e[i] = IF i <= Len(t) THEN t[i] ELSE place
  <2>1. t \in Seq(P) /\ place \in P
    OBVIOUS
  <2> HIDE DEF P
  <2> QED
    BY <2>1, EnteredHolds
<1> HIDE DEF e
<1>2. /\ Len(t) \in Nat /\ DOMAIN t = 1..Len(t) /\ DOMAIN e = 1..Len(e) /\ Len(e) \in Nat
  BY <1>1, LenProperties
<1>3. NotAfter(place, place)
  BY DEF NotAfter, Origins
<1>4. ASSUME NEW i \in DOMAIN e, NEW j \in DOMAIN e, i < j
      PROVE  NotAfter(e[i], e[j])
  <2>1. CASE j <= Len(t)
    BY <1>1, <1>2, <1>4, <2>1 DEF Sorted
  <2>2. CASE i <= Len(t) /\ ~(j <= Len(t))
    BY <1>1, <1>2, <2>2
  <2>3. CASE ~(i <= Len(t))
    BY <1>1, <1>2, <1>3, <1>4, <2>3
  <2> QED
    BY <1>2, <1>4, <2>1, <2>2, <2>3
<1> QED
  BY <1>4 DEF Sorted, e

LEMMA VisitCollects ==
    ASSUME TypeOK, Control, TypeOK', Control', Collection, Visit
    PROVE  Collection'
<1>1. pc = "walk" /\ cur_stmt # 0 /\ Visiting /\ Collecting
  BY DEF Visit, Visiting, Collecting
<1> DEFINE place == <<origin, cur_stmt>>
           n == Cardinality(Stored)
           hits == Hits(origin, cur_stmt)
<1>2. /\ origin \in Origins /\ cur_stmt \in DOMAIN Statements(origin)
      /\ cur_stmt \in 1..Len(cascade[origin]) /\ Len(cascade[origin]) \in Nat
      /\ Stored \subseteq hits
      /\ n \in Nat /\ (Stored = {} <=> n = 0)
      /\ place \in Origins \X (Nat \ {0})
  BY <1>1, Visited DEF TypeOK
<1>3. /\ tab' = Entered(tab, place, n)
      /\ specificity' =
            IF Stored = {} THEN specificity
            ELSE [specificity EXCEPT ![origin][cur_stmt] =
                                        Weighing(origin, cur_stmt, Max(Stored))]
      /\ IF Stored = hits
         THEN cur_stmt' = Following(origin, cur_stmt) /\ UNCHANGED pc
         ELSE pc' = "grow" /\ UNCHANGED cur_stmt
      /\ UNCHANGED <<doc, cascade, handlers, sheet, query, origin, props>>
  BY DEF Visit, Stored
<1>4. \A o : Matched(o)' = Matched(o) /\ \A k : Weighs(o, k)' = Weighs(o, k)
  BY <1>3, SameMatches
<1>5. tab \in Seq(Origins \X (Nat \ {0})) /\ DOMAIN tab = 1..Len(tab) /\ Len(tab) \in Nat
  BY LenProperties DEF TypeOK
<1>6. Range(tab') = IF n = 0 THEN Range(tab) ELSE Range(tab) \cup {place}
  <2> DEFINE P == Origins \X (Nat \ {0})
  <2>1. tab \in Seq(P) /\ place \in P
    BY <1>2, <1>5
  <2> HIDE DEF P, place, n
  <2>2. Range(Entered(tab, place, n)) =
           IF n = 0 THEN Range(tab) ELSE Range(tab) \cup {place}
    BY <1>2, <2>1, EnteredHolds
  <2> QED
    BY <1>3, <2>2
<1>7. Visiting' /\ (pc' = "walk" \/ pc' = "grow") /\ pc # "done" /\ pc' # "done"
  BY <1>1, <1>3 DEF Visiting
<1>8. cur_stmt \in Matched(origin) <=> hits # {}
  BY <1>2 DEF Matched
<1>9. /\ \A o \in Origins, k \in Nat \ {0} : <<o, k>> \in Range(tab) =>
            k \in Matched(o) /\ (Passed(o, k) \/ (o = origin /\ k = cur_stmt))
      /\ \A o \in Origins : \A k \in Matched(o) :
            Passed(o, k) => <<o, k>> \in Range(tab) /\ specificity[o][k] = Weighs(o, k)
      /\ Sorted(tab)
  BY <1>1 DEF Collection
<1>10. \A o, k : Passed(o, k) <=> \/ query.of = "properties" /\ o < origin
                                  \/ o = origin /\ k < cur_stmt
  BY <1>1 DEF Passed
<1>11. \A o, k : Passed(o, k)' <=> \/ query.of = "properties" /\ o < origin
                                   \/ o = origin /\ (cur_stmt' = 0 \/ k < cur_stmt')
  BY <1>3, <1>7 DEF Passed
<1>12. /\ Stored # hits => cur_stmt' = cur_stmt
       /\ Stored = hits => \A k \in Matched(origin) :
                              (cur_stmt' = 0 \/ k < cur_stmt') <=> k <= cur_stmt
  <2>1. \A k \in Matched(origin) : k \in Nat /\ k <= Len(cascade[origin])
    BY <1>2, MatchedAre
  <2> QED
    BY <1>2, <1>3, <2>1 DEF Following
<1>13. Sorted(tab')
  <2>1. \A i \in DOMAIN tab : NotAfter(tab[i], place)
    <3> SUFFICES ASSUME NEW i \in DOMAIN tab PROVE NotAfter(tab[i], place)
      OBVIOUS
    <3>1. PICK o \in Origins, k \in Nat \ {0} : tab[i] = <<o, k>>
      BY <1>5
    <3>2. <<o, k>> \in Range(tab)
      BY <3>1 DEF Range
    <3> QED
      BY <1>2, <1>9, <1>10, <3>1, <3>2 DEF NotAfter, Origins
  <2> HIDE DEF place, n
  <2> QED
    BY <1>2, <1>3, <1>5, <1>9, <2>1, SortedAfter
<1>16. ASSUME NEW o \in Origins, NEW k \in Nat \ {0}, <<o, k>> \in Range(tab')
       PROVE  k \in Matched(o) /\ (Passed(o, k)' \/ (o = origin' /\ k = cur_stmt'))
  <2>1. k \in Matched(o) /\ (Passed(o, k) \/ (o = origin /\ k = cur_stmt))
    <3>1. CASE <<o, k>> \in Range(tab)
      BY <1>9, <3>1
    <3>2. CASE <<o, k>> \notin Range(tab)
      <4>1. n # 0 /\ <<o, k>> = place
        BY <1>6, <1>16, <3>2
      <4> QED
        BY <1>2, <1>8, <4>1
    <3> QED
      BY <3>1, <3>2
  <2>2. CASE Stored # hits
    BY <1>3, <1>10, <1>11, <1>12, <2>1, <2>2
  <2>3. CASE Stored = hits
    <3>1. CASE o = origin
      <4>1. k <= cur_stmt
        BY <1>2, <1>10, <2>1, <3>1 DEF Origins
      <4>2. cur_stmt' = 0 \/ k < cur_stmt'
        BY <1>12, <2>1, <2>3, <3>1, <4>1
      <4> QED
        BY <1>11, <2>1, <3>1, <4>2
    <3>2. CASE o # origin
      BY <1>10, <1>11, <2>1, <3>2
    <3> QED
      BY <3>1, <3>2
  <2> QED
    BY <2>2, <2>3
<1>17. ASSUME NEW o \in Origins, NEW k \in Matched(o), Passed(o, k)'
       PROVE  <<o, k>> \in Range(tab') /\ specificity'[o][k] = Weighs(o, k)
  <2>1. k \in Nat
    BY MatchedAre
  <2>2. CASE Passed(o, k)
    <3>1. <<o, k>> \in Range(tab) /\ specificity[o][k] = Weighs(o, k)
      BY <1>9, <2>2
    <3>2. o # origin \/ k # cur_stmt
      BY <1>2, <1>10, <2>2 DEF Origins
    <3>3. specificity'[o][k] = specificity[o][k]
      BY <1>2, <1>3, <3>2 DEF Control, TypeOK
    <3> QED
      BY <1>6, <3>1, <3>3
  <2>3. CASE ~Passed(o, k)
    <3>1. o = origin /\ k = cur_stmt /\ Stored = hits
      BY <1>2, <1>10, <1>11, <1>12, <1>17, <2>1, <2>3
    <3>2. hits # {} /\ n # 0
      BY <1>2, <1>8, <3>1
    <3>3. place \in Range(tab')
      BY <1>6, <3>2
    <3>4. specificity'[o][k] = Weighing(origin, cur_stmt, Max(Stored))
      <4>1. specificity = [x \in Origins |-> specificity[x]]
            /\ specificity[origin] \in [DOMAIN Statements(origin) -> Nat]
        BY <1>2 DEF Control, TypeOK
      <4> QED
        BY <1>2, <1>3, <3>1, <3>2, <4>1
    <3> QED
      BY <3>1, <3>3, <3>4 DEF Weighs
  <2> QED
    BY <2>2, <2>3
<1> HIDE DEF place, n, hits
<1> QED
  BY <1>4, <1>7, <1>13, <1>16, <1>17 DEF Collection

LEMMA CollectionKept ==
    ASSUME TypeOK, Control, TypeOK', Control', Collection, [Next]_vars
    PROVE  Collection'
<1>1. Sorted(<<>>) /\ Range(<<>>) = {}
  BY EmptySeq DEF Sorted, Range
<1>2. \A o : \A k \in Matched(o) : o \in Origins => k \in Nat \ {0} /\ k <= Len(cascade[o])
                                                    /\ cascade[o] # NoSheet /\ cascade[o] # <<>>
  BY MatchedAre
\* A step that reads no statement, and what is to be shown of it.
<1>3. ASSUME UNCHANGED <<doc, cascade, handlers, query, tab, specificity>>, Collecting,
             \A o \in Origins, k \in Nat \ {0} : k \in Matched(o) =>
                /\ Passed(o, k) \/ (Visiting /\ o = origin /\ k = cur_stmt)
                   => Passed(o, k)' \/ (Visiting' /\ o = origin' /\ k = cur_stmt')
                /\ Passed(o, k)' => Passed(o, k)
      PROVE  Collection'
  <2>1. \A o : Matched(o)' = Matched(o) /\ \A k : Weighs(o, k)' = Weighs(o, k)
    BY <1>3, SameMatches
  <2>2. /\ \A o \in Origins, k \in Nat \ {0} : <<o, k>> \in Range(tab) =>
              /\ k \in Matched(o)
              /\ Passed(o, k) \/ (Visiting /\ o = origin /\ k = cur_stmt)
        /\ \A o \in Origins : \A k \in Matched(o) :
              Passed(o, k) => <<o, k>> \in Range(tab) /\ specificity[o][k] = Weighs(o, k)
        /\ Sorted(tab)
    BY <1>3 DEF Collection
  <2> QED
    BY <1>2, <1>3, <2>1, <2>2 DEF Collection
<1>4. ASSUME NEW n \in Queried, AskProperties(n) PROVE Collection'
  <2>1. tab' = <<>> /\ pc' = "sheet" /\ origin' = 0
    BY <1>4 DEF AskProperties, Control, ORIGIN_UA
  <2>2. \A o \in Origins : \A k : ~Passed(o, k)'
    BY <2>1 DEF Passed, Visiting, Origins
  <2> QED
    BY <1>1, <2>1, <2>2 DEF Collection
<1>5. ASSUME NEW n \in Queried, NEW x \in Origins, AskRulesets(x, n) PROVE Collection'
  <2>1. /\ tab' = <<>> /\ pc' = "call" /\ origin' = x /\ query'.of = "rulesets"
        /\ sheet' = NoSheet
    BY <1>5 DEF AskRulesets, Control
  <2>2. \A o \in Origins : \A k : ~Passed(o, k)'
    BY <2>1, SelEngAssumption DEF Passed, Visiting, Origins
  <2> QED
    BY <1>1, <2>1, <2>2 DEF Collection
<1>6. CASE NextSheet
  <2>1. /\ pc = "sheet" /\ query.of = "properties" /\ sheet = NoSheet
        /\ UNCHANGED <<doc, cascade, handlers, query, tab, specificity, sheet, cur_stmt>>
        /\ origin \in Nat
    BY <1>6 DEF NextSheet, Control, TypeOK
  <2>2. Collecting /\ ~Visiting
    BY <2>1 DEF Collecting, Visiting
  <2>3. CASE pc' = "apply"
    BY <2>1, <2>3 DEF Collection, Collecting
  <2>4. CASE origin' = origin + 1 /\ UNCHANGED pc /\ cascade[origin] = NoSheet
    <3>1. \A o, k : Passed(o, k) <=> o < origin
      BY <2>1, <2>2 DEF Passed
    <3>2. \A o, k : Passed(o, k)' <=> o < origin + 1
      BY <2>1, <2>4 DEF Passed, Visiting
    <3>3. \A o \in Origins, k \in Nat \ {0} : k \in Matched(o) => o # origin
      BY <1>2, <2>4
    <3>4. \A o \in Origins : o # origin => (o < origin <=> o < origin + 1)
      BY <2>1 DEF Origins
    <3> QED
      BY <1>3, <2>1, <2>2, <3>1, <3>2, <3>3, <3>4
  <2>5. CASE pc' = "call" /\ UNCHANGED origin /\ origin < NB_ORIGINS
    <3>1. NoSheet # origin
      BY <2>1, <2>5, SelEngAssumption DEF NB_ORIGINS
    <3>2. ~Visiting'
      BY <2>1, <2>5, <3>1 DEF Visiting
    <3>3. \A o, k : Passed(o, k)' <=> Passed(o, k)
      BY <2>1, <2>2, <2>5, <3>2 DEF Passed
    <3> QED
      BY <1>3, <2>1, <2>2, <3>3
  <2> QED
    BY <1>6, <2>3, <2>4, <2>5 DEF NextSheet
<1>7. CASE StartCall
  <2>1. /\ pc = "call" /\ origin \in Origins /\ sheet \in {NoSheet, origin}
        /\ UNCHANGED <<doc, cascade, handlers, query, tab, specificity>>
        /\ query.of \in {"properties", "rulesets"} /\ origin \in Nat
    BY <1>7 DEF StartCall, Control, Origins
  <2>2. Collecting
    BY <2>1 DEF Collecting
  <2>3. CASE cascade[origin] = <<>>
    <3>1. ~Visiting /\ Collected
      BY <1>7, <2>3 DEF StartCall, Control
    <3>2. \A o, k : Passed(o, k) <=> query.of = "properties" /\ o < origin
      BY <2>1, <3>1 DEF Passed
    <3>3. \A o, k : o # origin =>
             (Passed(o, k)' <=> query.of = "properties" /\ o < origin')
      BY <2>1, <3>1 DEF Passed, Visiting, Collected
    <3>4. \A o \in Origins, k \in Nat \ {0} : k \in Matched(o) => o # origin
      BY <1>2, <2>3
    <3>5. \A o \in Origins : o # origin /\ query.of = "properties" =>
             (o < origin <=> o < origin')
      BY <2>1, <3>1 DEF Collected, Origins
    <3> QED
      BY <1>3, <2>1, <2>2, <3>1, <3>2, <3>3, <3>4, <3>5
  <2>4. CASE cascade[origin] # <<>>
    <3>1. /\ pc' = "walk" /\ UNCHANGED origin
          /\ cur_stmt' = IF sheet # origin THEN 1 ELSE cur_stmt
      BY <1>7, <2>4 DEF StartCall
    <3>2. Visiting'
      BY <3>1 DEF Visiting
    <3>3. CASE sheet = origin
      <4>1. Visiting
        BY <2>1, <3>3 DEF Visiting
      <4>2. \A o, k : Passed(o, k)' <=> Passed(o, k)
        BY <2>1, <3>1, <3>2, <3>3, <4>1 DEF Passed
      <4> QED
        BY <1>3, <2>1, <2>2, <3>1, <3>2, <3>3, <4>1, <4>2
    <3>4. CASE sheet # origin
      <4>1. ~Visiting
        BY <2>1, <3>4 DEF Visiting
      <4>2. \A o, k : Passed(o, k) <=> query.of = "properties" /\ o < origin
        BY <2>1, <4>1 DEF Passed
      <4>3. \A o : \A k \in Nat \ {0} :
               Passed(o, k)' <=> query.of = "properties" /\ o < origin
        BY <2>1, <3>1, <3>2, <3>4 DEF Passed
      <4> QED
        BY <1>3, <2>1, <2>2, <4>1, <4>2, <4>3
    <3> QED
      BY <3>3, <3>4
  <2> QED
    BY <2>3, <2>4
<1>8. CASE Visit
  BY <1>8, VisitCollects
<1>9. CASE Grow
  <2>1. /\ pc = "grow" /\ pc' = "call" /\ sheet = origin /\ sheet' = sheet
        /\ UNCHANGED <<doc, cascade, handlers, query, tab, specificity, origin, cur_stmt>>
    BY <1>9 DEF Grow, Control
  <2>2. Visiting /\ Visiting' /\ Collecting
    BY <2>1 DEF Visiting, Collecting
  <2>3. \A o, k : Passed(o, k)' <=> Passed(o, k)
    BY <2>1, <2>2 DEF Passed
  <2> QED
    BY <1>3, <2>1, <2>2, <2>3
<1>10. CASE EndOfSheet
  <2>1. /\ pc = "walk" /\ cur_stmt = 0 /\ Collected /\ origin \in Origins /\ origin \in Nat
        /\ UNCHANGED <<doc, cascade, handlers, query, tab, specificity>>
        /\ query.of \in {"properties", "rulesets"}
    BY <1>10 DEF EndOfSheet, Control, Origins
  <2>2. Visiting /\ Collecting
    BY <2>1 DEF Visiting, Collecting
  <2>3. \A o, k : Passed(o, k) <=> (query.of = "properties" /\ o < origin) \/ o = origin
    BY <2>1, <2>2 DEF Passed
  <2>4. \A o \in Origins : \A k :
           Passed(o, k)' <=> (query.of = "properties" /\ o < origin) \/ o = origin
    BY <2>1 DEF Passed, Visiting, Collected, Origins
  <2> QED
    BY <1>3, <2>1, <2>2, <2>3, <2>4
<1>11. CASE \/ Apply \/ EndApply \/ Return
            \/ \E e \in Entries : Register(e)
            \/ \E e \in Entries : Unregister(e.name, e.type)
            \/ UnregisterAll
  <2>1. ~Collecting'
    BY <1>11 DEF Apply, EndApply, Return, Register, Unregister, UnregisterAll, engine,
       Collecting, Control
  <2> QED
    BY <2>1 DEF Collection
<1>12. CASE UNCHANGED vars
  <2>1. \A o, k : Passed(o, k)' <=> Passed(o, k)
    BY <1>12 DEF vars, engine, Passed, Visiting
  <2>2. (Visiting' <=> Visiting) /\ (Collecting' <=> Collecting)
    BY <1>12 DEF vars, engine, Visiting, Collecting
  <2>3. UNCHANGED <<doc, cascade, handlers, query, tab, specificity, origin, cur_stmt>>
    BY <1>12 DEF vars, engine
  <2> QED
    BY <1>3, <2>1, <2>2, <2>3 DEF Collection
<1> QED
  BY <1>4, <1>5, <1>6, <1>7, <1>8, <1>9, <1>10, <1>11, <1>12 DEF Next, Step

-----------------------------------------------------------------------------
(* What is in the list is the choice among what has been put into it.        *)

\* One declaration more: what stays, what goes, and that a property is there once.
LEMMA WithHolds ==
    ASSUME NEW list \in Seq(Chosen), NEW d \in Chosen, Unique(list)
    PROVE  /\ With(list, d) \in Seq(Chosen)
           /\ Unique(With(list, d))
           /\ Range(With(list, d)) \subseteq Range(list) \cup {d}
           /\ \E c \in Range(With(list, d)) : c.prop = d.prop
           /\ \A c \in Range(list) :
                 c \in Range(With(list, d)) \/ (c.prop = d.prop /\ Overrides(d, c))
           /\ \A c \in Range(With(list, d)) : c.prop = d.prop /\ c # d =>
                 c \in Range(list) /\ ~Overrides(d, c)
           /\ d \in Range(With(list, d)) =>
                 \A c \in Range(list) : c.prop = d.prop => c = d \/ Overrides(d, c)
<1> DEFINE w == With(list, d)
<1>1. /\ w \in Seq(Chosen)
      /\ \/ /\ \A i \in 1..Len(list) : list[i].prop # d.prop
            /\ Len(w) = Len(list) + 1
            /\ \A i \in 1..Len(list) : w[i] = list[i]
            /\ w[Len(list) + 1] = d
         \/ \E i \in 1..Len(list) :
               /\ list[i].prop = d.prop
               /\ ~Overrides(d, list[i])
               /\ w = list
         \/ \E i \in 1..Len(list) :
               /\ list[i].prop = d.prop
               /\ Overrides(d, list[i])
               /\ Len(w) = Len(list)
               /\ \A j \in 1..Len(list) - 1 : w[j] = IF j < i THEN list[j] ELSE list[j + 1]
               /\ w[Len(list)] = d
  BY WithIs
<1> HIDE DEF w
<1>2. /\ DOMAIN list = 1..Len(list) /\ Len(list) \in Nat
      /\ DOMAIN w = 1..Len(w) /\ Len(w) \in Nat
  BY <1>1, LenProperties
<1>3. \A i, j \in 1..Len(list) : list[i].prop = list[j].prop => i = j
  BY <1>2 DEF Unique
<1>4. /\ \A c : c \in Range(list) <=> \E i \in 1..Len(list) : c = list[i]
      /\ \A c : c \in Range(w) <=> \E i \in 1..Len(w) : c = w[i]
  BY <1>2 DEF Range
<1> DEFINE Goal == /\ \A i, j \in 1..Len(w) : w[i].prop = w[j].prop => i = j
                   /\ \A c \in Range(w) : c \in Range(list) \/ c = d
                   /\ \E c \in Range(w) : c.prop = d.prop
                   /\ \A c \in Range(list) :
                         c \in Range(w) \/ (c.prop = d.prop /\ Overrides(d, c))
                   /\ \A c \in Range(w) : c.prop = d.prop /\ c # d =>
                         c \in Range(list) /\ ~Overrides(d, c)
                   /\ d \in Range(w) =>
                         \A c \in Range(list) : c.prop = d.prop => c = d \/ Overrides(d, c)
<1>5. ASSUME \A i \in 1..Len(list) : list[i].prop # d.prop, Len(w) = Len(list) + 1,
             \A i \in 1..Len(list) : w[i] = list[i], w[Len(list) + 1] = d
      PROVE  Goal
  <2>1. \A c \in Range(list) : c.prop # d.prop /\ c \in Range(w)
    BY <1>2, <1>4, <1>5
  <2>2. \A c \in Range(w) : c \in Range(list) \/ c = d
    BY <1>2, <1>4, <1>5
  <2>3. d \in Range(w)
    BY <1>2, <1>4, <1>5
  <2>4. \A i, j \in 1..Len(w) : w[i].prop = w[j].prop => i = j
    <3> SUFFICES ASSUME NEW i \in 1..Len(w), NEW j \in 1..Len(w), w[i].prop = w[j].prop
                 PROVE  i = j
      OBVIOUS
    <3>1. CASE i \in 1..Len(list) /\ j \in 1..Len(list)
      BY <1>3, <1>5, <3>1
    <3>2. CASE i \notin 1..Len(list) \/ j \notin 1..Len(list)
      <4>1. \A x \in 1..Len(w) : x \notin 1..Len(list) => x = Len(list) + 1 /\ w[x] = d
        BY <1>2, <1>5
      <4>2. \A x \in 1..Len(list) : w[x].prop # d.prop
        BY <1>5
      <4> QED
        BY <3>2, <4>1, <4>2
    <3> QED
      BY <3>1, <3>2
  <2> QED
    BY <2>1, <2>2, <2>3, <2>4
<1>6. ASSUME NEW i \in 1..Len(list), list[i].prop = d.prop, ~Overrides(d, list[i]), w = list
      PROVE  Goal
  <2>1. \A c \in Range(list) : c.prop = d.prop => c = list[i]
    BY <1>3, <1>4, <1>6
  <2>2. list[i] \in Range(w)
    BY <1>4, <1>6
  <2> QED
    BY <1>3, <1>6, <2>1, <2>2
<1>7. ASSUME NEW i \in 1..Len(list), list[i].prop = d.prop, Overrides(d, list[i]),
             Len(w) = Len(list),
             \A j \in 1..Len(list) - 1 : w[j] = IF j < i THEN list[j] ELSE list[j + 1],
             w[Len(list)] = d
      PROVE  Goal
  <2>1. \A c \in Range(list) : c.prop = d.prop => c = list[i]
    BY <1>3, <1>4, <1>7
  <2>2. d \in Range(w)
    BY <1>2, <1>4, <1>7
  <2> DEFINE from(j) == IF j < i THEN j ELSE j + 1
  <2>3. \A j \in 1..Len(list) - 1 : /\ from(j) \in 1..Len(list) /\ from(j) # i
                                    /\ w[j] = list[from(j)]
    BY <1>2, <1>7
  <2>4. \A x \in 1..Len(w) : x \notin 1..Len(list) - 1 => x = Len(list)
    <3>1. \A n \in Nat : \A x \in 1..n : x \notin 1..n - 1 => x = n
      OBVIOUS
    <3> QED
      BY <1>2, <1>7, <3>1
  <2>5. \A c \in Range(w) : c = d \/ (c \in Range(list) /\ c # list[i] /\ c.prop # d.prop)
    <3> SUFFICES ASSUME NEW x \in 1..Len(w), w[x] # d
                 PROVE  w[x] \in Range(list) /\ w[x] # list[i] /\ w[x].prop # d.prop
      BY <1>4
    <3>1. x \in 1..Len(list) - 1
      BY <1>7, <2>4
    <3>2. from(x) \in 1..Len(list) /\ from(x) # i /\ w[x] = list[from(x)]
      BY <2>3, <3>1
    <3> HIDE DEF from
    <3> QED
      BY <1>3, <1>4, <1>7, <3>2
  <2>6. \A c \in Range(list) : c = list[i] \/ c \in Range(w)
    <3> SUFFICES ASSUME NEW y \in 1..Len(list), y # i PROVE list[y] \in Range(w)
      BY <1>4
    <3>1. CASE y < i
      BY <1>2, <1>4, <1>7, <3>1
    <3>2. CASE y > i
      <4>1. y - 1 \in 1..Len(list) - 1 /\ ~(y - 1 < i) /\ y - 1 + 1 = y /\ y - 1 \in 1..Len(w)
        BY <1>2, <1>7, <3>2
      <4>2. w[y - 1] = list[y]
        BY <1>7, <4>1
      <4> QED
        BY <1>4, <4>1, <4>2
    <3> QED
      BY <1>2, <3>1, <3>2
  <2>7. \A x, y \in 1..Len(w) : w[x].prop = w[y].prop => x = y
    <3> SUFFICES ASSUME NEW x \in 1..Len(w), NEW y \in 1..Len(w), w[x].prop = w[y].prop
                 PROVE  x = y
      OBVIOUS
    <3>1. CASE x \in 1..Len(list) - 1 /\ y \in 1..Len(list) - 1
      <4>1. from(x) = from(y)
        BY <1>3, <2>3, <3>1
      <4> QED
        BY <1>2, <3>1, <4>1
    <3>2. CASE x \notin 1..Len(list) - 1 \/ y \notin 1..Len(list) - 1
      <4>1. \A z \in 1..Len(list) - 1 : w[z].prop # d.prop
        BY <1>3, <1>7, <2>3
      <4> QED
        BY <1>7, <2>4, <3>2, <4>1
    <3> QED
      BY <3>1, <3>2
  <2> QED
    BY <1>7, <2>1, <2>2, <2>5, <2>6, <2>7
<1>8. Goal
  <2> HIDE DEF Goal
  <2> QED
    BY <1>1, <1>5, <1>6, <1>7
<1>9. Unique(w)
  BY <1>2, <1>8 DEF Unique
<1>10. Range(w) \subseteq Range(list) \cup {d}
  BY <1>8
<1> QED
  BY <1>1, <1>8, <1>9, <1>10 DEF w

LEMMA CandidatesAre ==
    ASSUME TypeOK
    PROVE  /\ \A d \in Candidates :
                 /\ d \in Chosen /\ d.origin \in Origins /\ d.stmt \in Matched(d.origin)
                 /\ cascade[d.origin][d.stmt].type = "ruleset"
                 /\ d.nth \in 1..Len(cascade[d.origin][d.stmt].decls)
                 /\ d = Declaration(d.origin, d.stmt, d.nth)
           /\ \A o \in Origins : \A k \in Matched(o) :
                 cascade[o][k].type = "ruleset" =>
                    \A j \in 1..Len(cascade[o][k].decls) : Declaration(o, k, j) \in Candidates
<1>1. \A o \in Origins : \A k \in Matched(o) :
         /\ DOMAIN cascade[o][k].decls = 1..Len(cascade[o][k].decls)
         /\ \A j \in 1..Len(cascade[o][k].decls) : Declaration(o, k, j) \in Chosen
  BY MatchedAre, StatementHas
<1>2. ASSUME NEW d \in Candidates
      PROVE  \E o \in Origins : \E k \in Matched(o) :
                /\ cascade[o][k].type = "ruleset"
                /\ \E j \in DOMAIN cascade[o][k].decls : d = Declaration(o, k, j)
  BY DEF Candidates
<1>3. \A o, k, j : /\ Declaration(o, k, j).origin = o /\ Declaration(o, k, j).stmt = k
                   /\ Declaration(o, k, j).nth = j
  BY DEF Declaration
<1>4. ASSUME NEW o \in Origins, NEW k \in Matched(o), cascade[o][k].type = "ruleset",
             NEW j \in 1..Len(cascade[o][k].decls)
      PROVE  Declaration(o, k, j) \in Candidates
  <2>1. j \in DOMAIN cascade[o][k].decls
    BY <1>1
  <2> QED
    BY <1>4, <2>1 DEF Candidates
<1>5. ASSUME NEW d \in Candidates
      PROVE  /\ d \in Chosen /\ d.origin \in Origins /\ d.stmt \in Matched(d.origin)
             /\ cascade[d.origin][d.stmt].type = "ruleset"
             /\ d.nth \in 1..Len(cascade[d.origin][d.stmt].decls)
             /\ d = Declaration(d.origin, d.stmt, d.nth)
  <2>0. PICK o \in Origins : \E m \in Matched(o) :
                /\ cascade[o][m].type = "ruleset"
                /\ \E i \in DOMAIN cascade[o][m].decls : d = Declaration(o, m, i)
    BY <1>2
  <2>1. PICK k \in Matched(o) :
                /\ cascade[o][k].type = "ruleset"
                /\ \E j \in DOMAIN cascade[o][k].decls : d = Declaration(o, k, j)
    BY <2>0
  <2>3. PICK j \in DOMAIN cascade[o][k].decls : d = Declaration(o, k, j)
    BY <2>1
  <2>2. d.origin = o /\ d.stmt = k /\ d.nth = j
    BY <1>3, <2>3
  <2> QED
    BY <1>1, <2>1, <2>2, <2>3
<1> QED
  BY <1>4, <1>5

\* The weights the engine has stored are those of the matching selectors.
Weighed == \A o \in Origins : \A k \in Matched(o) : specificity[o][k] = Weighs(o, k)

\* A list holds the choice among declarations of which none comes after a statement.
Settled(list, of, place) ==
    /\ \A c \in Range(list) : c \in Candidates /\ NotAfter(Place(c), place)
    /\ Unique(list)
    /\ \A d \in of : \E c \in Range(list) : c.prop = d.prop
    /\ \A c \in Range(list) : Quiet(c.prop) => \A e \in of : e.prop = c.prop => Best(c, e)

LEMMA Weights ==
    ASSUME TypeOK, Weighed, NEW d \in Candidates
    PROVE  /\ d.origin \in Int /\ d.stmt \in Int /\ d.nth \in Int
           /\ Weight(d) = Weighs(d.origin, d.stmt) /\ Weight(d) \in Int
<1>1. d.origin \in Origins /\ d.stmt \in Matched(d.origin) /\ d \in Chosen
  BY CandidatesAre
<1>2. d.stmt \in DOMAIN Statements(d.origin)
  BY <1>1, MatchedAre
<1>3. Weight(d) \in Nat
  BY <1>1, <1>2 DEF TypeOK, Weight
<1> QED
  BY <1>1, <1>3 DEF Weighed, Weight, Chosen, Origins

\* One declaration more, of a statement none of the others comes after.
LEMMA StillSettled ==
    ASSUME TypeOK, Weighed, NEW list \in Seq(Chosen), NEW d \in Candidates,
           NEW of, of \subseteq Candidates, Settled(list, of, Place(d)),
           \A e \in of : Before(Place(e), Place(d)) \/ (Place(e) = Place(d) /\ e.nth < d.nth)
    PROVE  Settled(With(list, d), of \cup {d}, Place(d))
<1> DEFINE w == With(list, d)
<1>1. d \in Chosen
  BY CandidatesAre
<1>2. /\ Unique(w)
      /\ Range(w) \subseteq Range(list) \cup {d}
      /\ \E c \in Range(w) : c.prop = d.prop
      /\ \A c \in Range(list) : c \in Range(w) \/ (c.prop = d.prop /\ Overrides(d, c))
      /\ \A c \in Range(w) : c.prop = d.prop /\ c # d => c \in Range(list) /\ ~Overrides(d, c)
      /\ d \in Range(w) => \A c \in Range(list) : c.prop = d.prop => c = d \/ Overrides(d, c)
  BY <1>1, WithHolds DEF Settled
<1> HIDE DEF w
<1>3. /\ \A c \in Range(list) : c \in Candidates /\ NotAfter(Place(c), Place(d))
      /\ \A e \in of : \E c \in Range(list) : c.prop = e.prop
      /\ \A c \in Range(list) : Quiet(c.prop) => \A e \in of : e.prop = c.prop => Best(c, e)
  BY DEF Settled
<1>4. /\ d.origin \in Int /\ d.stmt \in Int /\ d.nth \in Int
      /\ Weight(d) = Weighs(d.origin, d.stmt) /\ Weight(d) \in Int
  BY Weights
<1>5. \A c \in Range(w) : c \in Candidates /\ NotAfter(Place(c), Place(d))
  <2>1. NotAfter(Place(d), Place(d))
    BY <1>4 DEF NotAfter, Place
  <2> QED
    BY <1>2, <1>3, <2>1
<1>6. \A e \in of \cup {d} : \E c \in Range(w) : c.prop = e.prop
  BY <1>2, <1>3
<1>7. ASSUME NEW c \in Range(w), Quiet(c.prop), NEW e \in of \cup {d}, e.prop = c.prop
      PROVE  Best(c, e)
  <2>1. c \in Candidates /\ ~c.important
    BY <1>5, <1>7 DEF Quiet
  <2>2. /\ c.origin \in Int /\ c.stmt \in Int /\ c.nth \in Int
        /\ Weight(c) = Weighs(c.origin, c.stmt) /\ Weight(c) \in Int
    BY <2>1, Weights
  <2>3. CASE e = d /\ c # d
    <3>1. ~Overrides(d, c)
      BY <1>2, <1>7, <2>3
    <3>2. c.origin <= d.origin
      BY <1>4, <1>5, <2>2 DEF NotAfter, Place
    <3>3. c.origin = d.origin /\ Weight(d) < Weight(c)
      BY <1>4, <2>1, <2>2, <3>1, <3>2 DEF Overrides
    <3> QED
      BY <1>4, <2>2, <2>3, <3>3 DEF Best, Heavier
  <2>4. CASE e \in of /\ c \in Range(list)
    BY <1>3, <1>7, <2>4
  <2>5. CASE e \in of /\ c \notin Range(list)
    <3>1. c = d
      BY <1>2, <2>5
    <3>2. PICK old \in Range(list) : old.prop = e.prop
      BY <1>3, <2>5
    <3>3. Overrides(d, old)
      BY <1>2, <1>7, <2>5, <3>1, <3>2
    <3>4. Quiet(old.prop) /\ old \in Candidates /\ e \in Candidates
      BY <1>3, <1>7, <2>5, <3>2
    <3>5. Best(old, e)
      BY <1>3, <2>5, <3>2, <3>4
    <3>6. /\ old.origin \in Int /\ old.stmt \in Int /\ old.nth \in Int
          /\ Weight(old) = Weighs(old.origin, old.stmt) /\ Weight(old) \in Int
      BY <3>4, Weights
    <3>7. /\ e.origin \in Int /\ e.stmt \in Int /\ e.nth \in Int
          /\ Weight(e) = Weighs(e.origin, e.stmt) /\ Weight(e) \in Int
      BY <3>4, Weights
    <3>8. \/ e.origin < d.origin \/ (e.origin = d.origin /\ e.stmt < d.stmt)
          \/ (e.origin = d.origin /\ e.stmt = d.stmt /\ e.nth < d.nth)
      BY <2>5 DEF Before, Place
    <3>9. \/ old = e \/ old.origin > e.origin
          \/ (old.origin = e.origin /\ Weight(old) >= Weight(e))
      BY <3>5, <3>6, <3>7 DEF Best, Heavier
    <3>10. old.origin < d.origin \/ (old.origin = d.origin /\ Weight(d) >= Weight(old))
      BY <3>3 DEF Overrides
    <3>11. d.origin > e.origin \/ (d.origin = e.origin /\ Weight(d) >= Weight(e))
      BY <1>4, <3>6, <3>7, <3>8, <3>9, <3>10
    <3> QED
      BY <1>4, <3>1, <3>7, <3>8, <3>11 DEF Best, Heavier
  <2> QED
    BY <2>3, <2>4, <2>5 DEF Best
<1> QED
  BY <1>2, <1>5, <1>6, <1>7 DEF Settled, w

LEMMA PutSettles ==
    ASSUME TypeOK, Weighed, NEW o \in Origins, NEW k \in Matched(o),
           cascade[o][k].type = "ruleset", NEW list \in Seq(Chosen),
           NEW of, of \subseteq Candidates, Settled(list, of, <<o, k>>),
           \A e \in of : Before(Place(e), <<o, k>>)
    PROVE  Settled(Put(list, o, k),
                   of \cup {Declaration(o, k, j) : j \in 1..Len(cascade[o][k].decls)}, <<o, k>>)
<1> DEFINE n == Len(cascade[o][k].decls)
           so(j) == of \cup {Declaration(o, k, i) : i \in 1..j}
<1>1. /\ k \in DOMAIN Statements(o) /\ n \in Nat
      /\ \A j \in 1..n : Declaration(o, k, j) \in Candidates
  BY MatchedAre, StatementHas, CandidatesAre
<1>2. PICK put : Puts(put, list, o, k)
  BY <1>1, PutIs
<1>3. /\ put \in [0..n -> Seq(Chosen)] /\ put[0] = list /\ Put(list, o, k) = put[n]
      /\ \A j \in 1..n : put[j] = With(put[j - 1], Declaration(o, k, j))
  BY <1>2 DEF Puts
<1> HIDE DEF n
<1> DEFINE T == {j \in 0..n : Settled(put[j], so(j), <<o, k>>)}
<1>4. 0 \in T
  <2>1. so(0) = of
    OBVIOUS
  <2> HIDE DEF so
  <2> QED
    BY <1>1, <1>3, <2>1
<1>5. ASSUME NEW j \in 0..n-1, j \in T PROVE j + 1 \in T
  <2> DEFINE d == Declaration(o, k, j + 1)
  <2>1. j + 1 \in 1..n /\ j + 1 - 1 = j /\ j \in 0..n /\ d \in Candidates
    BY <1>1
  <2>2. put[j + 1] = With(put[j], d) /\ put[j] \in Seq(Chosen)
    BY <1>3, <2>1
  <2>3. so(j + 1) = so(j) \cup {d}
    <3>1. \A i : i \in 1..j + 1 <=> i \in 1..j \/ i = j + 1
      BY <2>1
    <3> QED
      BY <3>1
  <2>4. \A i : /\ Place(Declaration(o, k, i)) = <<o, k>> /\ Declaration(o, k, i).nth = i
    BY DEF Place, Declaration
  <2>5. so(j) \subseteq Candidates
    BY <1>1
  <2>6. \A e \in so(j) : Before(Place(e), Place(d)) \/ (Place(e) = Place(d) /\ e.nth < d.nth)
    BY <2>1, <2>4
  <2>7. Place(d) = <<o, k>>
    BY <2>4
  <2>8. Settled(put[j], so(j), <<o, k>>) /\ j + 1 \in 0..n
    BY <1>1, <1>5
  <2> HIDE DEF d, so
  <2>9. Settled(put[j + 1], so(j + 1), <<o, k>>)
    BY <2>1, <2>2, <2>3, <2>5, <2>6, <2>7, <2>8, StillSettled
  <2> QED
    BY <2>8, <2>9
<1>6. n \in T
  <2> HIDE DEF T
  <2>1. 0..n \subseteq T
    BY <1>1, <1>4, <1>5, InductionUpTo
  <2> QED
    BY <1>1, <2>1
<1> QED
  BY <1>3, <1>6 DEF n

LEMMA NotAfterAll ==
    ASSUME NEW p \in Origins \X (Nat \ {0}), NEW q \in Origins \X (Nat \ {0}),
           NEW r \in Origins \X (Nat \ {0})
    PROVE  /\ NotAfter(p, q) /\ NotAfter(q, r) => NotAfter(p, r)
           /\ Before(p, q) /\ NotAfter(q, r) => Before(p, r)
           /\ NotAfter(p, q) => Before(p, q) \/ p = q
<1>1. p[1] \in Int /\ q[1] \in Int /\ r[1] \in Int /\ p[2] \in Int /\ q[2] \in Int /\ r[2] \in Int
  BY DEF Origins
<1>2. p = <<p[1], p[2]>> /\ q = <<q[1], q[2]>>
  OBVIOUS
<1> QED
  BY <1>1, <1>2 DEF NotAfter, Before

\* What a step of the application leaves to apply, and behind.
LEMMA HeadLeaves ==
    ASSUME TypeOK, ToApply, Apply
    PROVE  /\ tab' \in Seq(Origins \X (Nat \ {0}))
           /\ \A i \in DOMAIN tab' : i + 1 \in DOMAIN tab /\ tab'[i] = tab[i + 1]
           /\ \A i \in DOMAIN tab' : NotAfter(tab[1], tab'[i])
           /\ Range(tab) = Range(tab') \cup {tab[1]}
           /\ Sorted(tab')
<1>1. /\ tab \in Seq(Origins \X (Nat \ {0})) /\ tab # <<>> /\ tab' = Tail(tab)
      /\ Sorted(tab)
  BY DEF TypeOK, Apply, ToApply, Applying
<1>2. /\ DOMAIN tab = 1..Len(tab) /\ Len(tab) \in Nat /\ Len(tab) # 0
      /\ tab' \in Seq(Origins \X (Nat \ {0})) /\ DOMAIN tab' = 1..Len(tab) - 1
      /\ \A i \in 1..Len(tab) - 1 : tab'[i] = tab[i + 1]
  BY <1>1
<1>3. \A i \in DOMAIN tab' : i + 1 \in DOMAIN tab /\ tab'[i] = tab[i + 1] /\ i \in Nat /\ 1 < i + 1
  BY <1>2
<1>4. 1 \in DOMAIN tab
  BY <1>2
<1>5. \A i \in DOMAIN tab' : NotAfter(tab[1], tab'[i])
  BY <1>1, <1>3, <1>4 DEF Sorted
<1>6. Range(tab) = Range(tab') \cup {tab[1]}
  <2>1. \A i \in DOMAIN tab : i = 1 \/ (i - 1 \in DOMAIN tab' /\ tab'[i - 1] = tab[i])
    BY <1>2
  <2> QED
    BY <1>3, <1>4, <2>1 DEF Range
<1>7. Sorted(tab')
  <2>1. \A i, j \in DOMAIN tab' : i < j => i + 1 < j + 1
    BY <1>2
  <2> QED
    BY <1>1, <1>3, <2>1 DEF Sorted
<1> QED
  BY <1>2, <1>3, <1>5, <1>6, <1>7

\* The application begins with everything that matches in the table.
LEMMA ApplyBegins ==
    ASSUME TypeOK, Control, TypeOK', Control', Collection, NextSheet, pc' = "apply"
    PROVE  ToApply' /\ Choice'
<1>1. /\ pc = "sheet" /\ origin = NB_ORIGINS /\ query.of = "properties" /\ props = <<>>
      /\ UNCHANGED <<doc, cascade, handlers, query, tab, specificity, props>>
  BY DEF NextSheet, Control
<1>2. \A o \in Origins : \A k : Passed(o, k)
  BY <1>1 DEF Passed, Origins, NB_ORIGINS
<1>3. /\ \A o \in Origins, k \in Nat \ {0} : <<o, k>> \in Range(tab) => k \in Matched(o)
      /\ \A o \in Origins : \A k \in Matched(o) :
            <<o, k>> \in Range(tab) /\ specificity[o][k] = Weighs(o, k)
      /\ Sorted(tab)
  BY <1>1, <1>2 DEF Collection, Collecting
<1>4. /\ \A o : Matched(o)' = Matched(o) /\ \A k : Weighs(o, k)' = Weighs(o, k)
      /\ Candidates' = Candidates
  BY <1>1, SameMatches
<1>5. Behind' = {}
  <2>1. \A d \in Candidates : Place(d) \in Range(tab)
    BY <1>3, CandidatesAre DEF Place
  <2> QED
    BY <1>1, <1>4, <2>1 DEF Behind
<1>6. Range(props') = {} /\ DOMAIN props' = {}
  BY <1>1, EmptySeq DEF Range
<1>7. ToApply'
  BY <1>1, <1>3, <1>4, <1>5 DEF ToApply
<1>8. Choice'
  BY <1>5, <1>6 DEF Choice, Unique
<1> QED
  BY <1>7, <1>8

LEMMA AppliesOne ==
    ASSUME TypeOK, Control, TypeOK', Control', ToApply, Choice, Apply
    PROVE  ToApply' /\ Choice'
<1>1. /\ pc = "apply" /\ pc' = "apply" /\ tab # <<>> /\ tab' = Tail(tab)
      /\ UNCHANGED <<doc, cascade, handlers, query, specificity>>
  BY DEF Apply
<1>2. PICK o \in Origins : \E m \in Matched(o) :
         Head(tab) = <<o, m>> /\ tab[1] = <<o, m>> /\ m \in DOMAIN Statements(o) /\ m \in Nat \ {0}
  BY <1>1, HeadApplied
<1>3. PICK k \in Matched(o) :
         Head(tab) = <<o, k>> /\ tab[1] = <<o, k>> /\ k \in DOMAIN Statements(o) /\ k \in Nat \ {0}
  BY <1>2
<1> DEFINE p == <<o, k>>
           P == Origins \X (Nat \ {0})
<1>4. props' = IF cascade[o][k].type = "ruleset" THEN Put(props, o, k) ELSE props
  BY <1>3 DEF Apply
<1>5. /\ \A a : Matched(a)' = Matched(a) /\ \A b : Weighs(a, b)' = Weighs(a, b)
      /\ Candidates' = Candidates
  BY <1>1, SameMatches
<1>6. /\ Weighed
      /\ \A a \in Origins, b \in Nat \ {0} : <<a, b>> \in Range(tab) => b \in Matched(a)
      /\ \A d \in Behind : \A i \in DOMAIN tab : Before(Place(d), tab[i])
  BY <1>1 DEF ToApply, Applying, Weighed
<1>7. /\ \A c \in Range(props) :
            c \in Candidates /\ \A i \in DOMAIN tab : NotAfter(Place(c), tab[i])
      /\ Unique(props)
      /\ \A d \in Behind : \E c \in Range(props) : c.prop = d.prop
      /\ \A c \in Range(props) : Quiet(c.prop) =>
            \A e \in Behind : e.prop = c.prop => Best(c, e)
  BY <1>1 DEF Choice, Applying
<1>8. /\ tab' \in Seq(P)
      /\ \A i \in DOMAIN tab' : i + 1 \in DOMAIN tab /\ tab'[i] = tab[i + 1]
      /\ \A i \in DOMAIN tab' : NotAfter(p, tab'[i])
      /\ Range(tab) = Range(tab') \cup {p}
      /\ Sorted(tab')
  BY <1>3, HeadLeaves
<1>9. 1 \in DOMAIN tab /\ p \in P
  BY <1>1, <1>3 DEF TypeOK
<1>10. \A i \in DOMAIN tab' : tab'[i] \in P /\ tab'[i] \in Range(tab')
  BY <1>8 DEF Range
<1>11. \A d \in Candidates : Place(d) \in P
  BY CandidatesAre DEF Place, Chosen
<1>12. Behind' = Behind \cup {d \in Candidates : Place(d) = p /\ p \notin Range(tab')}
  BY <1>5, <1>8 DEF Behind
<1> DEFINE mine == {Declaration(o, k, j) : j \in 1..Len(cascade[o][k].decls)}
<1>13. \A d \in Candidates : Place(d) = p => cascade[o][k].type = "ruleset" /\ d \in mine
  <2> SUFFICES ASSUME NEW d \in Candidates, Place(d) = p
               PROVE  cascade[o][k].type = "ruleset" /\ d \in mine
    OBVIOUS
  <2>1. d.origin = o /\ d.stmt = k
    BY DEF Place
  <2> QED
    BY <2>1, CandidatesAre
<1>14. Behind' \subseteq Behind \cup mine /\ Behind \subseteq Candidates
  BY <1>12, <1>13 DEF Behind
<1>15. \A d \in Behind' : \A i \in DOMAIN tab' : Before(Place(d), tab'[i])
  <2> SUFFICES ASSUME NEW d \in Behind', NEW i \in DOMAIN tab' PROVE Before(Place(d), tab'[i])
    OBVIOUS
  <2>1. CASE d \in Behind
    BY <1>6, <1>8, <2>1
  <2>2. CASE Place(d) = p /\ p \notin Range(tab')
    <3>1. tab'[i] # p /\ tab'[i] \in P
      BY <1>10, <2>2
    <3> HIDE DEF p, P
    <3> QED
      BY <1>8, <1>9, <2>2, <3>1, NotAfterAll DEF P
  <2> QED
    BY <1>12, <2>1, <2>2
<1>16. ToApply'
  <2>1. \A a \in Origins, b \in Nat \ {0} : <<a, b>> \in Range(tab') => b \in Matched(a)
    BY <1>6, <1>8
  <2>2. \A a \in Origins : \A b \in Matched(a) : specificity'[a][b] = Weighs(a, b)
    BY <1>1, <1>6 DEF Weighed
  <2> HIDE DEF p, P
  <2> QED
    BY <1>5, <1>8, <1>15, <2>1, <2>2 DEF ToApply
<1>17. CASE cascade[o][k].type = "ruleset"
  <2>1. Settled(props, Behind, p)
    BY <1>3, <1>7, <1>9 DEF Settled
  <2>2. \A e \in Behind : Before(Place(e), p)
    BY <1>3, <1>6, <1>9
  <2>3. Settled(props', Behind \cup mine, p)
    <3>1. props \in Seq(Chosen) /\ props' = Put(props, o, k)
      BY <1>4, <1>17 DEF TypeOK
    <3> QED
      BY <1>6, <1>14, <1>17, <2>1, <2>2, <3>1, PutSettles
  <2> HIDE DEF mine
  <2>4. /\ \A c \in Range(props') : c \in Candidates /\ NotAfter(Place(c), p)
        /\ Unique(props')
        /\ \A d \in Behind \cup mine : \E c \in Range(props') : c.prop = d.prop
        /\ \A c \in Range(props') : Quiet(c.prop) =>
              \A e \in Behind \cup mine : e.prop = c.prop => Best(c, e)
    BY <2>3 DEF Settled
  <2>5. \A c \in Range(props') : \A i \in DOMAIN tab' : NotAfter(Place(c), tab'[i])
    <3> SUFFICES ASSUME NEW c \in Range(props'), NEW i \in DOMAIN tab'
                 PROVE  NotAfter(Place(c), tab'[i])
      OBVIOUS
    <3>1. NotAfter(Place(c), p) /\ Place(c) \in P /\ tab'[i] \in P /\ NotAfter(p, tab'[i])
      BY <1>8, <1>10, <1>11, <2>4
    <3> HIDE DEF p, P
    <3> QED
      BY <1>9, <3>1, NotAfterAll DEF P
  <2>6. \A q : Quiet(q)' <=> Quiet(q)
    BY <1>5 DEF Quiet
  <2>7. \A c, e : Best(c, e)' <=> Best(c, e)
    BY <1>5 DEF Best, Heavier
  <2> HIDE DEF p
  <2> QED
    BY <1>5, <1>14, <1>16, <2>4, <2>5, <2>6, <2>7 DEF Choice
<1>18. CASE cascade[o][k].type # "ruleset"
  <2>1. props' = props /\ Behind' \subseteq Behind
    BY <1>4, <1>12, <1>13, <1>18
  <2>2. \A c \in Range(props') : \A i \in DOMAIN tab' : NotAfter(Place(c), tab'[i])
    BY <1>7, <1>8, <2>1
  <2>6. \A q : Quiet(q)' <=> Quiet(q)
    BY <1>5 DEF Quiet
  <2>7. \A c, e : Best(c, e)' <=> Best(c, e)
    BY <1>5 DEF Best, Heavier
  <2> QED
    BY <1>5, <1>7, <1>16, <2>1, <2>2, <2>6, <2>7 DEF Choice
<1> QED
  BY <1>17, <1>18

LEMMA ChoiceKept ==
    ASSUME TypeOK, Control, TypeOK', Control', Collection, ToApply, Choice, [Next]_vars
    PROVE  ToApply' /\ Choice'
<1>1. CASE NextSheet /\ pc' = "apply"
  BY <1>1, ApplyBegins
<1>2. CASE Apply
  BY <1>2, AppliesOne
<1>3. CASE EndApply \/ UNCHANGED vars
  <2>1. /\ UNCHANGED <<doc, cascade, handlers, query, specificity, tab, props>>
        /\ Applying' => Applying
    BY <1>3 DEF EndApply, vars, engine, Applying
  <2>2. /\ \A a : Matched(a)' = Matched(a) /\ \A b : Weighs(a, b)' = Weighs(a, b)
        /\ Candidates' = Candidates
    BY <2>1, SameMatches
  <2>3. Behind' = Behind
    BY <2>1, <2>2 DEF Behind
  <2>4. \A q : Quiet(q)' <=> Quiet(q)
    BY <2>2 DEF Quiet
  <2>5. \A c, e : Best(c, e)' <=> Best(c, e)
    BY <2>2 DEF Best, Heavier
  <2> QED
    BY <2>1, <2>2, <2>3, <2>4, <2>5 DEF ToApply, Choice
<1>4. CASE \/ NextSheet /\ pc' # "apply"
           \/ StartCall \/ Visit \/ Grow \/ EndOfSheet \/ Return
           \/ \E n \in Queried : AskProperties(n)
           \/ \E n \in Queried, o \in Origins : AskRulesets(o, n)
           \/ \E e \in Entries : Register(e)
           \/ \E e \in Entries : Unregister(e.name, e.type)
           \/ UnregisterAll
  <2>1. ~Applying'
    BY <1>4 DEF NextSheet, StartCall, Collected, Visit, Grow, EndOfSheet, Return, AskProperties,
       AskRulesets, Register, Unregister, UnregisterAll, engine, Applying
  <2> QED
    BY <2>1 DEF ToApply, Choice
<1> QED
  BY <1>1, <1>2, <1>3, <1>4 DEF Next, Step

\* An important declaration stays while a statement is put into the list.
LEMMA PutKeeps ==
    ASSUME TypeOK, NEW o \in Origins, NEW k \in DOMAIN Statements(o), NEW list \in Seq(Chosen),
           NEW c \in Range(list), c.important, c.origin # ORIGIN_UA, Unique(list)
    PROVE  c \in Range(Put(list, o, k))
<1> DEFINE n == Len(cascade[o][k].decls)
<1>1. PICK put : Puts(put, list, o, k)
  BY PutIs
<1>2. /\ put \in [0..n -> Seq(Chosen)] /\ put[0] = list /\ Put(list, o, k) = put[n]
      /\ \A j \in 1..n : put[j] = With(put[j - 1], Declaration(o, k, j))
  BY <1>1 DEF Puts
<1>3. n \in Nat /\ \A j \in 1..n : Declaration(o, k, j) \in Chosen
  BY StatementHas
<1>4. c \in Chosen
  BY DEF Range
<1>5. \A d \in Chosen : ~Overrides(d, c)
  BY <1>4 DEF Overrides, Chosen
<1> HIDE DEF n
<1> DEFINE T == {j \in 0..n : c \in Range(put[j]) /\ Unique(put[j])}
<1>6. 0 \in T
  BY <1>2, <1>3
<1>7. ASSUME NEW j \in 0..n-1, j \in T PROVE j + 1 \in T
  <2>1. j + 1 \in 1..n /\ j + 1 - 1 = j /\ j \in 0..n /\ j + 1 \in 0..n
    BY <1>3
  <2>2. put[j + 1] = With(put[j], Declaration(o, k, j + 1)) /\ put[j] \in Seq(Chosen)
    BY <1>2, <2>1
  <2>3. Unique(put[j]) /\ c \in Range(put[j])
    BY <1>7
  <2>4. Unique(put[j + 1]) /\ c \in Range(put[j + 1])
    BY <1>3, <1>5, <2>1, <2>2, <2>3, WithHolds
  <2> QED
    BY <2>1, <2>4
<1>8. n \in T
  <2> HIDE DEF T
  <2>1. 0..n \subseteq T
    BY <1>3, <1>6, <1>7, InductionUpTo
  <2> QED
    BY <1>3, <2>1
<1> QED
  BY <1>2, <1>8

-----------------------------------------------------------------------------
(* The theorems.                                                             *)

IInv == TypeOK /\ Control /\ Collection /\ ToApply /\ Choice

LEMMA Inductive == (Init => IInv) /\ (IInv /\ [Next]_vars => IInv')
<1>1. ASSUME Init PROVE IInv
  <2>1. TypeOK /\ Control
    BY <1>1, InitialTypes
  <2>2. ~Collecting /\ ~Applying
    BY <1>1 DEF Init, Collecting, Applying
  <2> QED
    BY <2>1, <2>2 DEF IInv, Collection, ToApply, Choice
<1>2. ASSUME IInv, [Next]_vars PROVE IInv'
  <2>1. TypeOK' /\ Control'
    BY <1>2, TypesPreserved DEF IInv
  <2>2. Collection'
    BY <1>2, <2>1, CollectionKept DEF IInv
  <2>3. ToApply' /\ Choice'
    BY <1>2, <2>1, ChoiceKept DEF IInv
  <2> QED
    BY <2>1, <2>2, <2>3 DEF IInv
<1> QED
  BY <1>1, <1>2

\* The type invariant: what cr_sel_eng_new, the registry and the queries assign is
\* always what the state holds.
THEOREM TypeCorrect == Spec => []TypeOK
<1>1. IInv => TypeOK
  BY DEF IInv
<1> QED
  BY <1>1, Inductive, PTL DEF Spec

\* cr_sel_eng_get_matched_rulesets_real forgets the sheet whenever it is done with
\* it, whatever the cascade, the handlers and the order of the queries.
THEOREM NoSheetIsRemembered == Spec => []NothingRemembered
<1>1. IInv => NothingRemembered
  BY DEF IInv, Control, NothingRemembered
<1> QED
  BY <1>1, Inductive, PTL DEF Spec

\* However small the pieces of the table, and however often a call ends in the middle
\* of a sheet or of a selector list, what is collected is what matches, in order.
THEOREM AllThatMatches == Spec => []CollectionIsComplete
<1>1. IInv => CollectionIsComplete
  <2> SUFFICES ASSUME IInv, AllCollected
               PROVE  /\ Range(tab) = UNION {{<<o, k>> : k \in Matched(o)} : o \in Asked}
                      /\ \A i, j \in DOMAIN tab :
                            i < j => \/ tab[i][1] < tab[j][1]
                                     \/ tab[i][1] = tab[j][1] /\ tab[i][2] <= tab[j][2]
    BY DEF CollectionIsComplete
  <2>1. TypeOK /\ Control /\ Collection /\ Collecting
    BY DEF IInv, AllCollected, Collecting
  <2>2. /\ \A o \in Origins, k \in Nat \ {0} : <<o, k>> \in Range(tab) =>
              /\ k \in Matched(o)
              /\ Passed(o, k) \/ (Visiting /\ o = origin /\ k = cur_stmt)
        /\ \A o \in Origins : \A k \in Matched(o) : Passed(o, k) => <<o, k>> \in Range(tab)
        /\ Sorted(tab)
    BY <2>1 DEF Collection
  <2>3. ~Visiting /\ Asked \subseteq Origins
    BY <2>1 DEF AllCollected, Visiting, Asked, Control
  <2>4. \A o \in Origins : \A k : Passed(o, k) <=> o \in Asked
    BY <2>1, <2>3 DEF AllCollected, Passed, Asked, Control, Visiting, Origins, NB_ORIGINS
  <2>5. \A t \in Range(tab) : \E o \in Origins : \E k \in Nat \ {0} : t = <<o, k>>
    BY <2>1 DEF TypeOK, Range
  <2>6. \A o \in Origins : \A k \in Matched(o) : k \in Nat \ {0}
    BY <2>1, MatchedAre
  <2>7. Range(tab) = UNION {{<<o, k>> : k \in Matched(o)} : o \in Asked}
    <3>1. ASSUME NEW t \in Range(tab)
          PROVE  t \in UNION {{<<o, k>> : k \in Matched(o)} : o \in Asked}
      <4>1. PICK o \in Origins : \E k \in Nat \ {0} : t = <<o, k>>
        BY <2>5
      <4>2. PICK k \in Nat \ {0} : t = <<o, k>>
        BY <4>1
      <4>3. k \in Matched(o) /\ o \in Asked
        BY <2>2, <2>3, <2>4, <4>2
      <4> QED
        BY <4>2, <4>3
    <3>2. ASSUME NEW o \in Asked, NEW k \in Matched(o) PROVE <<o, k>> \in Range(tab)
      BY <2>2, <2>3, <2>4
    <3> QED
      BY <3>1, <3>2
  <2> QED
    BY <2>2, <2>7 DEF Sorted, NotAfter
<1> QED
  BY <1>1, Inductive, PTL DEF Spec

\* put_css_properties_in_props_list, over all that was collected: one declaration for
\* each property, and without important ones the first by origin, by the weight the engine
\* gives a statement, which is that of the last selector that matches, and by order.
THEOREM TheCascadeFollowsTheWeights == Spec => []CascadeOrder
<1>1. IInv => CascadeOrder
  <2> SUFFICES ASSUME IInv, pc = "done", query.of = "properties"
               PROVE  CascadeOrder
    BY DEF CascadeOrder
  <2>1. TypeOK /\ tab = <<>> /\ Applying /\ Choice
    BY DEF IInv, Control, Applying
  <2>2. Behind = Candidates
    BY <2>1, EmptySeq DEF Behind, Range
  <2>3. /\ \A c \in Range(props) : c \in Candidates
        /\ Unique(props)
        /\ \A d \in Candidates : \E c \in Range(props) : c.prop = d.prop
        /\ \A c \in Range(props) : Quiet(c.prop) =>
              \A e \in Candidates : e.prop = c.prop => Best(c, e)
    BY <2>1, <2>2 DEF Choice
  <2>4. ASSUME NEW d \in Candidates
        PROVE  LET rivals == {e \in Candidates : e.prop = d.prop}
               IN  \E i \in DOMAIN props :
                      /\ props[i].prop = d.prop
                      /\ (\A e \in rivals : ~e.important) =>
                             \A e \in rivals : e = props[i] \/ Heavier(props[i], e)
    <3>1. PICK i \in DOMAIN props : props[i].prop = d.prop /\ props[i] \in Range(props)
      BY <2>3 DEF Range
    <3>2. (\A e \in Candidates : e.prop = d.prop => ~e.important) =>
             \A e \in Candidates : e.prop = d.prop => e = props[i] \/ Heavier(props[i], e)
      BY <2>3, <3>1 DEF Quiet, Best
    <3> QED
      BY <3>1, <3>2
  <2> QED
    BY <2>3, <2>4 DEF CascadeOrder, Unique
<1> QED
  BY <1>1, Inductive, PTL DEF Spec

\* No statement, applied once or again, puts another declaration in the place of an
\* important one of the user or the author.
THEOREM ImportantStays == Spec => ImportantIsKept
<1>1. ASSUME IInv, [Next]_vars, pc = "apply", NEW i \in DOMAIN props,
             props[i].important, props[i].origin # ORIGIN_UA
      PROVE  \E j \in DOMAIN props' : props'[j] = props[i]
  <2>1. TypeOK /\ ToApply /\ props \in Seq(Chosen) /\ props[i] \in Range(props)
    BY <1>1 DEF IInv, TypeOK, Range
  <2>2. CASE Apply
    <3>1. PICK o \in Origins : \E m \in Matched(o) :
             Head(tab) = <<o, m>> /\ tab[1] = <<o, m>> /\ m \in DOMAIN Statements(o) /\ m \in Nat \ {0}
      BY <2>1, <2>2, HeadApplied DEF Apply
    <3>2. PICK k \in DOMAIN Statements(o) : Head(tab) = <<o, k>>
      BY <3>1
    <3>3. props' = IF cascade[o][k].type = "ruleset" THEN Put(props, o, k) ELSE props
      BY <2>2, <3>2 DEF Apply
    <3>4. Unique(props)
      BY <1>1 DEF IInv, Choice, Applying
    <3>5. props[i] \in Range(props')
      BY <1>1, <2>1, <3>3, <3>4, PutKeeps
    <3> QED
      BY <3>5 DEF Range
  <2>3. CASE ~Apply
    <3>1. props' = props
      BY <1>1, <2>3 DEF Next, Step, NextSheet, StartCall, Visit, Grow, EndOfSheet, EndApply,
         Return, AskProperties, AskRulesets, Register, Unregister, UnregisterAll, vars, engine
    <3> QED
      BY <3>1
  <2> QED
    BY <2>2, <2>3
<1>2. IInv /\ [Next]_vars =>
         [pc = "apply" => \A i \in DOMAIN props :
             props[i].important /\ props[i].origin # ORIGIN_UA =>
                 \E j \in DOMAIN props' : props'[j] = props[i]]_vars
  BY <1>1
<1> QED
  BY <1>2, Inductive, PTL DEF Spec, ImportantIsKept
=============================================================================
