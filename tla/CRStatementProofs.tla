------------------------- MODULE CRStatementProofs -------------------------
(***************************************************************************)
(* The pointers of declarations, statements and sheets implement lists     *)
(* with one owner each: the refinement of OwnedLists.                      *)
(***************************************************************************)
EXTENDS CRStatement, InductionLemmas, FiniteSetTheorems, SequenceTheorems

-----------------------------------------------------------------------------
(* The invariant.                                                            *)

Heaps == [live   : SUBSET Objects,
          kind   : [Stmts -> Kinds \cup {"none"}],
          sel    : [Stmts -> BOOLEAN],
          media  : [Stmts -> Stmts \cup {Null}],
          next   : [Nodes -> Nodes \cup {Null}],
          prev   : [Nodes -> Nodes \cup {Null}],
          parent : [Nodes -> Owners \cup {Null}],
          first  : [Owners -> Nodes \cup {Null}],
          refs   : [Decls \cup Sheets -> Nat]]

Members(h) == h.live \cap Nodes
Heads(h)   == {x \in Members(h) : h.prev[x] = Null}

\* The nodes are those of the sequences of K, each in one place, with its neighbours.
Chained(h, K) ==
    /\ K \subseteq Seq(Nodes) \ {<<>>}
    /\ \A x \in Members(h) : \E c \in K : \E i \in 1..Len(c) : c[i] = x
    /\ \A c \in K : \A i \in 1..Len(c) :
          /\ c[i] \in h.live
          /\ h.next[c[i]] = IF i = Len(c) THEN Null ELSE c[i + 1]
          /\ h.prev[c[i]] = IF i = 1 THEN Null ELSE c[i - 1]
    /\ \A c, d \in K : \A i \in 1..Len(c), j \in 1..Len(d) : c[i] = d[j] => c = d /\ i = j
    /\ \A x \in Nodes \ h.live : h.next[x] = Null /\ h.prev[x] = Null

\* The lists: of each owner, in ct, and loose, in lo.
Listed(ct, lo) == lo \cup ({ct[o] : o \in Owners} \ {<<>>})

\* The pointers represent these lists.
Represents(h, hl, ct, lo) ==
    /\ ct \in [Owners -> Seq(Nodes)]
    /\ Chained(h, Listed(ct, lo))
    /\ \A o \in Owners : h.first[o] = IF ct[o] = <<>> THEN Null ELSE ct[o][1]
    /\ \A o \in Owners : ct[o] # <<>> => o \in h.live /\ ct[o] \notin lo
    /\ \A o, p \in Owners : ct[o] = ct[p] /\ ct[o] # <<>> => o = p
    /\ hl \cap Nodes = {b[1] : b \in lo}

ContentsIn(h)  == [o \in Owners |-> ListOf(h, o)]
LooseIn(h, hl) == {From(h, a) : a \in hl \cap Nodes}

\* What a list may hold.
MayHold(h, o) ==
    IF o \in Sheets THEN Stmts
    ELSE IF h.kind[o] \in Declaring THEN Decls
    ELSE IF h.kind[o] = "media" THEN {q \in Stmts : h.kind[q] = "ruleset"}
    ELSE {}

Sorted(h, ct, lo) ==
    /\ \A o \in Owners : Range(ct[o]) \subseteq MayHold(h, o)
    /\ \A b \in lo : Range(b) \subseteq Decls \/ Range(b) \subseteq Stmts

\* No parent is named that was freed, and what is not allocated is blank.
ParentsLive(h) == \A x \in Members(h) : h.parent[x] \in h.live \cup {Null}
Blank(h) == /\ \A s \in Stmts \ h.live : h.kind[s] = "none"
            /\ \A x \in (Decls \cup Sheets) \ h.live : h.refs[x] = 0
Named(h) == ParentsLive(h) /\ Blank(h)

\* The count of a list that a statement has is its own.
ListCounts(h, hl) == \A d \in Decls \ hl : h.refs[d] <= 1

SheetCounts(h, hl, cn, sl) ==
    \A t \in Sheets :
        /\ h.refs[t] = cn[t] + Cardinality({o \in Origins : sl[o] = t})
        /\ t \in h.live <=> t \in hl \/ h.refs[t] > 0
        /\ t \in hl => h.refs[t] = 0

Consistent(h, hl, cn, sl, ct, lo) ==
    /\ h \in Heaps /\ hl \subseteq h.live
    /\ cn \in [Sheets -> Nat] /\ sl \in [Origins -> Sheets \cup {Null}]
    /\ Represents(h, hl, ct, lo)
    /\ Sorted(h, ct, lo)
    /\ Named(h)
    /\ ListCounts(h, hl)
    /\ SheetCounts(h, hl, cn, sl)

\* The same while a cascade is taken apart: parents may have been freed.
Intact(h, hl, cn, sl, ct, lo) ==
    /\ h \in Heaps /\ hl \subseteq h.live
    /\ cn \in [Sheets -> Nat] /\ sl \in [Origins -> Sheets \cup {Null}]
    /\ Represents(h, hl, ct, lo)
    /\ Sorted(h, ct, lo)
    /\ Blank(h)
    /\ ListCounts(h, hl)
    /\ SheetCounts(h, hl, cn, sl)

IInv == Consistent(heap, held, counted, slots, ContentsIn(heap), LooseIn(heap, held))

-----------------------------------------------------------------------------
(* The list found from a node.                                               *)

LEMMA SubSeqIs ==
    ASSUME NEW S, NEW c \in Seq(S), NEW i \in 1..Len(c) + 1
    PROVE  /\ SubSeq(c, i, Len(c)) \in Seq(S)
           /\ Len(SubSeq(c, i, Len(c))) = Len(c) - i + 1
           /\ \A j \in 1..Len(c) - i + 1 : SubSeq(c, i, Len(c))[j] = c[i + j - 1]
<1>1. Len(c) \in Nat
  OBVIOUS
<1>2. CASE i <= Len(c)
  BY <1>1, <1>2, SubSeqProperties
<1>3. CASE i = Len(c) + 1
  BY <1>1, <1>3, SubSeqProperties
<1> QED
  BY <1>1, <1>2, <1>3

\* The equation of From.
FoundFrom(h, at) ==
    at = [n \in Nodes \cup {Null} |-> IF n = Null THEN <<>> ELSE <<n>> \o at[h.next[n]]]

LEMMA ChainIsFound ==
    ASSUME NEW h, NEW K, Chained(h, K), NEW at, FoundFrom(h, at),
           NEW c \in K, NEW i \in 1..Len(c)
    PROVE  at[c[i]] = SubSeq(c, i, Len(c))
<1> DEFINE n == Len(c)
           T == {k \in 0..n-1 : at[c[n - k]] = SubSeq(c, n - k, n)}
<1>1. c \in Seq(Nodes) /\ n \in Nat /\ n > 0 /\ Null \notin Nodes /\ n-1 \in Nat
  <2>1. c \in Seq(Nodes) /\ c # <<>>
    BY DEF Chained
  <2> QED
    BY <2>1, EmptySeq, LenProperties, StatementAssumption DEF Nodes
<1>2. \A j \in 1..n : /\ c[j] \in Nodes
                      /\ h.next[c[j]] = IF j = n THEN Null ELSE c[j + 1]
                      /\ at[c[j]] = <<c[j]>> \o at[h.next[c[j]]]
  <2> SUFFICES ASSUME NEW j \in 1..n
               PROVE  /\ c[j] \in Nodes
                      /\ h.next[c[j]] = IF j = n THEN Null ELSE c[j + 1]
                      /\ at[c[j]] = <<c[j]>> \o at[h.next[c[j]]]
    OBVIOUS
  <2>1. c[j] \in Nodes
    BY <1>1, ElementOfSeq
  <2>2. h.next[c[j]] = IF j = n THEN Null ELSE c[j + 1]
    BY DEF Chained
  <2>3. at[c[j]] = <<c[j]>> \o at[h.next[c[j]]]
    BY <1>1, <2>1 DEF FoundFrom
  <2> QED
    BY <2>1, <2>2, <2>3
<1>3. at[Null] = <<>>
  BY DEF FoundFrom
<1>4. 0 \in T
  <2>a. n \in 1..n
    BY <1>1
  <2>b. h.next[c[n]] = Null /\ at[c[n]] = <<c[n]>> \o at[h.next[c[n]]]
    BY <1>2, <2>a
  <2>1. at[c[n]] = <<c[n]>> \o <<>>
    BY <1>3, <2>b
  <2>2. <<c[n]>> \o SubSeq(c, n + 1, n) = SubSeq(c, n, n)
    BY <1>1, SubSeqRecursiveFirst
  <2>3. SubSeq(c, n + 1, n) = <<>>
    BY <1>1, SubSeqIs, EmptySeq
  <2> QED
    BY <1>1, <2>1, <2>2, <2>3
<1>5. ASSUME NEW k \in 0..n-1-1, k \in T PROVE k + 1 \in T
  <2> DEFINE j == n - (k + 1)
  <2>1. j \in 1..n /\ j # n /\ j + 1 = n - k /\ k + 1 \in 0..n-1
    BY <1>1
  <2>2. at[c[j]] = <<c[j]>> \o at[c[j + 1]]
    BY <1>2, <2>1
  <2>3. at[c[j + 1]] = SubSeq(c, j + 1, n)
    BY <1>5, <2>1
  <2>4. n \in j..n
    <3>0. j \in 1..n /\ n \in Nat
      BY <1>1, <2>1
    <3> HIDE DEF j, n
    <3>1. j \in Int /\ n \in Int /\ j <= n
      BY <3>0
    <3> QED
      BY <3>1
  <2>5. <<c[j]>> \o SubSeq(c, j + 1, n) = SubSeq(c, j, n)
    BY <1>1, <2>1, <2>4, SubSeqRecursiveFirst
  <2>6. at[c[j]] = SubSeq(c, j, n)
    BY <2>2, <2>3, <2>5
  <2> QED
    BY <2>1, <2>6
<1>6. 0..n-1 \subseteq T
  <2> HIDE DEF T
  <2> QED
    BY <1>1, <1>4, <1>5, InductionUpTo
<1>7. n - i \in 0..n-1 /\ n - (n - i) = i
  BY <1>1
<1> QED
  BY <1>6, <1>7

LEMMA SomethingIsFound ==
    ASSUME NEW h, NEW K, Chained(h, K)
    PROVE  FoundFrom(h, CHOOSE at : FoundFrom(h, at))
<1> DEFINE Rest(n) == CHOOSE s : \E c \in K : \E i \in 1..Len(c) :
                                    c[i] = n /\ s = SubSeq(c, i, Len(c))
           at == [n \in Nodes \cup {Null} |->
                     IF n = Null THEN <<>> ELSE IF n \in h.live THEN Rest(n) ELSE <<n>> \o <<>>]
<1>1. Null \notin Nodes
  BY StatementAssumption DEF Nodes
<1>2. ASSUME NEW c \in K, NEW i \in 1..Len(c)
      PROVE  /\ c[i] \in Nodes /\ c[i] \in h.live
             /\ Rest(c[i]) = SubSeq(c, i, Len(c))
  <2>1. c \in Seq(Nodes)
    BY DEF Chained
  <2>2. c[i] \in Nodes /\ c[i] \in h.live
    BY <2>1, ElementOfSeq DEF Chained
  <2>3. \A d \in K : \A j \in 1..Len(d) : c[i] = d[j] => c = d /\ i = j
    BY DEF Chained
  <2>4. \A s : (\E d \in K : \E j \in 1..Len(d) : d[j] = c[i] /\ s = SubSeq(d, j, Len(d)))
                 <=> s = SubSeq(c, i, Len(c))
    BY <2>3
  <2> QED
    BY <2>2, <2>4
<1>3. ASSUME NEW n \in Nodes PROVE at[n] = <<n>> \o at[h.next[n]]
  <2>1. CASE n \in h.live
    <3>1. PICK c \in K : \E i \in 1..Len(c) : c[i] = n
      BY <2>1 DEF Chained, Members
    <3>2. PICK i \in 1..Len(c) : c[i] = n
      BY <3>1
    <3>3. c \in Seq(Nodes) /\ Len(c) \in Nat /\ i \in Nat
      BY LenProperties DEF Chained
    <3>4. at[n] = SubSeq(c, i, Len(c))
      <4> HIDE DEF Rest
      <4>1. at[n] = Rest(n)
        BY <1>1, <2>1
      <4>2. Rest(c[i]) = SubSeq(c, i, Len(c))
        BY <1>2
      <4> QED
        BY <3>2, <4>1, <4>2
    <3>5. <<n>> \o SubSeq(c, i + 1, Len(c)) = SubSeq(c, i, Len(c))
      BY <3>2, <3>3, SubSeqRecursiveFirst
    <3>6. CASE i = Len(c)
      <4>1. h.next[n] = Null
        BY <3>2, <3>6 DEF Chained
      <4>2. at[Null] = <<>>
        OBVIOUS
      <4>3. SubSeq(c, i + 1, Len(c)) = <<>>
        BY <3>3, <3>6, SubSeqIs, EmptySeq
      <4> QED
        BY <3>4, <3>5, <4>1, <4>2, <4>3
    <3>7. CASE i # Len(c)
      <4>1. i + 1 \in 1..Len(c)
        BY <3>3, <3>7
      <4>2. h.next[n] = c[i + 1]
        BY <3>2, <3>7 DEF Chained
      <4>3. at[c[i + 1]] = SubSeq(c, i + 1, Len(c))
        BY <1>1, <1>2, <4>1
      <4> QED
        BY <3>4, <3>5, <4>2, <4>3
    <3> QED
      BY <3>6, <3>7
  <2>2. CASE n \notin h.live
    <3>1. h.next[n] = Null
      BY <2>2 DEF Chained
    <3> QED
      BY <1>1, <2>2, <3>1
  <2> QED
    BY <2>1, <2>2
<1>4. at[Null] = <<>>
  OBVIOUS
<1> HIDE DEF Rest
<1>5. DOMAIN at = Nodes \cup {Null} /\ at = [n \in Nodes \cup {Null} |-> at[n]]
  OBVIOUS
<1>6. FoundFrom(h, at)
  <2> HIDE DEF at
  <2> QED
    BY <1>1, <1>3, <1>4, <1>5 DEF FoundFrom
<1> QED
  BY <1>6

\* A chain is the list found from its first node, and from nothing nothing is found.
LEMMA FromIs ==
    ASSUME NEW h, NEW K, Chained(h, K)
    PROVE  /\ From(h, Null) = <<>>
           /\ \A c \in K : \A i \in 1..Len(c) : From(h, c[i]) = SubSeq(c, i, Len(c))
<1> DEFINE at == CHOOSE f : FoundFrom(h, f)
<1>1. FoundFrom(h, at)
  BY SomethingIsFound
<1>2. \A x : From(h, x) = at[x]
  BY DEF From, FoundFrom
<1> HIDE DEF at
<1>3. at[Null] = <<>>
  BY <1>1 DEF FoundFrom
<1> QED
  BY <1>1, <1>2, <1>3, ChainIsFound

LEMMA HeadOfChain ==
    ASSUME NEW h, NEW K, Chained(h, K), NEW c \in K
    PROVE  /\ c \in Seq(Nodes) /\ Len(c) \in Nat \ {0}
           /\ c[1] \in Heads(h) /\ From(h, c[1]) = c
<1>1. c \in Seq(Nodes) /\ c # <<>>
  BY DEF Chained
<1>2. Len(c) \in Nat \ {0}
  BY <1>1, LenProperties, EmptySeq
<1>3. c[1] \in Nodes
  BY <1>1, <1>2, ElementOfSeq
<1>4. c[1] \in Heads(h)
  BY <1>2, <1>3 DEF Chained, Heads, Members
<1>5. SubSeq(c, 1, Len(c)) = c
  BY <1>1, <1>2, SubSeqFull
<1>6. From(h, c[1]) = SubSeq(c, 1, Len(c))
  BY <1>2, FromIs
<1> QED
  BY <1>1, <1>2, <1>4, <1>5, <1>6

\* What the pointers represent is what is found along them.
LEMMA Represented ==
    ASSUME NEW h, NEW hl, NEW ct, NEW lo, Represents(h, hl, ct, lo)
    PROVE  /\ ct = ContentsIn(h) /\ lo = LooseIn(h, hl)
           /\ \A o \in Owners : ListOf(h, o) = ct[o]
           /\ \A a \in hl \cap Nodes : From(h, a) \in lo /\ From(h, a)[1] = a
           /\ \A b \in lo : b[1] \in hl \cap Nodes /\ From(h, b[1]) = b
<1>1. /\ From(h, Null) = <<>>
      /\ \A c \in Listed(ct, lo) : c \in Seq(Nodes) /\ Len(c) \in Nat \ {0} /\ From(h, c[1]) = c
  BY FromIs, HeadOfChain DEF Represents
<1>2. ASSUME NEW o \in Owners PROVE From(h, h.first[o]) = ct[o]
  <2>1. CASE ct[o] = <<>>
    BY <1>1, <2>1 DEF Represents
  <2>2. CASE ct[o] # <<>>
    <3>1. ct[o] \in Listed(ct, lo)
      BY <2>2 DEF Listed
    <3> QED
      BY <1>1, <2>2, <3>1 DEF Represents
  <2> QED
    BY <2>1, <2>2
<1>3. ct = ContentsIn(h)
  BY <1>2 DEF Represents, ContentsIn, ListOf
<1>4. \A b \in lo : b[1] \in hl \cap Nodes /\ From(h, b[1]) = b
  BY <1>1 DEF Represents, Listed
<1>5. \A a \in hl \cap Nodes : \E b \in lo : a = b[1]
  BY DEF Represents
<1>6. lo = LooseIn(h, hl)
  BY <1>4, <1>5 DEF LooseIn
<1> QED
  BY <1>2, <1>3, <1>4, <1>5, <1>6 DEF ListOf

LEMMA RangeIs ==
    ASSUME NEW S, NEW c \in Seq(S)
    PROVE  /\ Range(c) \subseteq S
           /\ \A x : x \in Range(c) <=> \E i \in 1..Len(c) : c[i] = x
           /\ Range(c) = {} <=> c = <<>>
<1>1. Range(c) \subseteq S /\ Range(c) = {c[i] : i \in 1..Len(c)}
  BY RangeEquality, RangeOfSeq
<1>2. c # <<>> => 1 \in 1..Len(c)
  BY EmptySeq
<1>3. c = <<>> => Len(c) = 0
  BY EmptySeq
<1>4. Range(c) = {} <=> c = <<>>
  BY <1>1, <1>2, <1>3
<1> QED
  BY <1>1, <1>4

\* The lists, and their nodes.
LEMMA ListsKnown ==
    ASSUME NEW h, NEW hl, NEW ct, NEW lo, Represents(h, hl, ct, lo)
    PROVE  /\ \A o \in Owners : ct[o] \in Seq(Nodes) /\ Range(ct[o]) \subseteq Members(h)
           /\ \A b \in lo : /\ b \in Seq(Nodes) /\ Len(b) \in Nat \ {0} /\ b # <<>>
                            /\ Range(b) \subseteq Members(h) /\ b[1] \in Range(b) /\ b[1] \in hl
           /\ \A b, c \in lo : Range(b) \cap Range(c) # {} => b = c
           /\ \A b \in lo : \A o \in Owners : Range(b) \cap Range(ct[o]) = {}
           /\ \A o, p \in Owners : Range(ct[o]) \cap Range(ct[p]) # {} => o = p
           /\ \A x \in Members(h) :
                 (\E b \in lo : x \in Range(b)) \/ (\E o \in Owners : x \in Range(ct[o]))
<1> DEFINE K == Listed(ct, lo)
<1>1. /\ K \subseteq Seq(Nodes) \ {<<>>}
      /\ \A x \in Members(h) : \E c \in K : \E i \in 1..Len(c) : c[i] = x
      /\ \A c \in K : \A i \in 1..Len(c) : c[i] \in h.live
      /\ \A c, d \in K : \A i \in 1..Len(c), j \in 1..Len(d) : c[i] = d[j] => c = d /\ i = j
  BY DEF Represents, Chained
<1>2. /\ ct \in [Owners -> Seq(Nodes)]
      /\ \A o \in Owners : ct[o] # <<>> => ct[o] \in K /\ ct[o] \notin lo
      /\ lo \subseteq K
      /\ \A c \in K : c \in lo \/ \E o \in Owners : c = ct[o]
      /\ \A o, p \in Owners : ct[o] = ct[p] /\ ct[o] # <<>> => o = p
  BY DEF Represents, Listed
<1>a. \A b \in lo : b[1] \in hl
  BY DEF Represents
<1> HIDE DEF K
<1>3. ASSUME NEW c \in K
      PROVE  /\ c \in Seq(Nodes) /\ c # <<>> /\ Len(c) \in Nat \ {0} /\ c[1] \in Range(c)
             /\ Range(c) \subseteq Members(h)
             /\ \A x : x \in Range(c) <=> \E i \in 1..Len(c) : c[i] = x
  <2>1. c \in Seq(Nodes) /\ c # <<>>
    BY <1>1
  <2>2. Len(c) \in Nat \ {0}
    BY <2>1, EmptySeq
  <2>3. Range(c) \subseteq Nodes /\ \A x : x \in Range(c) <=> \E i \in 1..Len(c) : c[i] = x
    BY <2>1, RangeIs
  <2>4. 1 \in 1..Len(c)
    BY <2>2
  <2>5. Range(c) \subseteq h.live
    BY <1>1, <2>3
  <2> QED
    BY <2>1, <2>2, <2>3, <2>4, <2>5 DEF Members
<1>4. \A c, d \in K : Range(c) \cap Range(d) # {} => c = d
  BY <1>1, <1>3
<1>5. Range(<<>>) = {}
  <2>1. <<>> \in Seq(Nodes)
    BY EmptySeq
  <2> QED
    BY <2>1, RangeIs
<1>6. \A o \in Owners : ct[o] \in Seq(Nodes) /\ Range(ct[o]) \subseteq Members(h)
  BY <1>2, <1>3, <1>5
<1>7. \A b \in lo : \A o \in Owners : Range(b) \cap Range(ct[o]) = {}
  BY <1>2, <1>4, <1>5
<1>8. \A o, p \in Owners : Range(ct[o]) \cap Range(ct[p]) # {} => o = p
  BY <1>2, <1>4, <1>5
<1>9. \A x \in Members(h) :
         (\E b \in lo : x \in Range(b)) \/ (\E o \in Owners : x \in Range(ct[o]))
  BY <1>1, <1>2, <1>3
<1> QED
  BY <1>2, <1>3, <1>4, <1>6, <1>7, <1>8, <1>9, <1>a

-----------------------------------------------------------------------------
(* What a change of pointers does to the sequences of nodes.                 *)

\* The links of h, at the nodes.
SameLinks(h, h2) == /\ Members(h2) = Members(h)
                    /\ \A x \in Nodes : h2.next[x] = h.next[x] /\ h2.prev[x] = h.prev[x]

LEMMA ChainsKept ==
    ASSUME NEW h, NEW h2, NEW K, Chained(h, K), SameLinks(h, h2)
    PROVE  Chained(h2, K)
<1>1. \A x \in Nodes : x \in h2.live <=> x \in h.live
  BY DEF SameLinks, Members
<1>2. \A c \in K : \A i \in 1..Len(c) : c[i] \in Nodes
  BY ElementOfSeq DEF Chained
<1> QED
  BY <1>1, <1>2 DEF Chained, SameLinks

LEMMA ChainMade ==
    ASSUME NEW h, NEW h2, NEW K, Chained(h, K), NEW n \in Nodes, n \notin h.live,
           Members(h2) = Members(h) \cup {n},
           \A x \in Nodes : h2.next[x] = h.next[x] /\ h2.prev[x] = h.prev[x]
    PROVE  Chained(h2, K \cup {<<n>>})
<1>1. \A x \in Nodes : x \in h2.live <=> x \in h.live \/ x = n
  BY DEF Members
<1>2. \A c \in K : \A i \in 1..Len(c) : c[i] \in Nodes /\ c[i] # n
  BY ElementOfSeq DEF Chained
<1>3. <<n>> \in Seq(Nodes) /\ <<n>> # <<>> /\ Len(<<n>>) = 1 /\ <<n>>[1] = n
  OBVIOUS
<1>4. h.next[n] = Null /\ h.prev[n] = Null
  BY DEF Chained
<1> DEFINE e == <<n>>
<1>5. e \in Seq(Nodes) /\ e # <<>> /\ Len(e) = 1 /\ e[1] = n
  BY <1>3
<1> HIDE DEF e
<1>6. Chained(h2, K \cup {e})
  <2>1. K \cup {e} \subseteq Seq(Nodes) \ {<<>>}
    BY <1>5 DEF Chained
  <2>2. \A x \in Members(h2) : \E c \in K \cup {e} : \E i \in 1..Len(c) : c[i] = x
    BY <1>5 DEF Chained
  <2>3. ASSUME NEW c \in K \cup {e}, NEW i \in 1..Len(c)
        PROVE  /\ c[i] \in h2.live
               /\ h2.next[c[i]] = IF i = Len(c) THEN Null ELSE c[i + 1]
               /\ h2.prev[c[i]] = IF i = 1 THEN Null ELSE c[i - 1]
    <3>1. CASE c \in K
      BY <1>1, <1>2, <3>1 DEF Chained
    <3>2. CASE c = e
      <4>0. Len(c) = 1 /\ c[1] = n
        BY <1>5, <3>2
      <4>1. i = 1 /\ i = Len(c) /\ c[i] = n
        BY <4>0
      <4> QED
        BY <1>1, <1>4, <4>1
    <3> QED
      BY <3>1, <3>2
  <2>4. \A c, d \in K \cup {e} : \A i \in 1..Len(c), j \in 1..Len(d) : c[i] = d[j] => c = d /\ i = j
    <3>1. \A i \in 1..Len(e) : i = 1
      BY <1>5
    <3> QED
      BY <1>2, <1>5, <3>1 DEF Chained
  <2>5. \A x \in Nodes \ h2.live : h2.next[x] = Null /\ h2.prev[x] = Null
    BY <1>1 DEF Chained
  <2> QED
    BY <2>1, <2>2, <2>3, <2>4, <2>5 DEF Chained
<1> QED
  BY <1>6 DEF e

LEMMA ChainsJoined ==
    ASSUME NEW h, NEW h2, NEW K, Chained(h, K), NEW a \in K, NEW b \in K, a # b,
           Members(h2) = Members(h),
           \A x \in Nodes : /\ h2.next[x] = IF x = a[Len(a)] THEN b[1] ELSE h.next[x]
                            /\ h2.prev[x] = IF x = b[1] THEN a[Len(a)] ELSE h.prev[x]
    PROVE  Chained(h2, (K \ {a, b}) \cup {a \o b})
<1> DEFINE e == a \o b
           m == Len(a)
           n == Len(b)
           K2 == (K \ {a, b}) \cup {e}
<1>1. a \in Seq(Nodes) /\ b \in Seq(Nodes) /\ m \in Nat \ {0} /\ n \in Nat \ {0}
  BY HeadOfChain
<1>2. /\ e \in Seq(Nodes) /\ Len(e) = m + n
      /\ \A i \in 1..m+n : e[i] = IF i <= m THEN a[i] ELSE b[i - m]
  BY <1>1, ConcatProperties
<1>3. /\ \A c \in K : \A i \in 1..Len(c) :
            /\ c[i] \in Nodes /\ c[i] \in h.live
            /\ h.next[c[i]] = IF i = Len(c) THEN Null ELSE c[i + 1]
            /\ h.prev[c[i]] = IF i = 1 THEN Null ELSE c[i - 1]
      /\ \A c, d \in K : \A i \in 1..Len(c), j \in 1..Len(d) : c[i] = d[j] => c = d /\ i = j
      /\ \A x \in Nodes : x \in h2.live <=> x \in h.live
  BY ElementOfSeq DEF Chained, Members
<1> HIDE DEF e, m, n
<1>4. m \in 1..m /\ 1 \in 1..n /\ m = Len(a) /\ n = Len(b)
  BY <1>1 DEF m, n
<1>a. \A i \in 1..m : /\ a[i] \in Nodes /\ a[i] \in h.live
                      /\ h.next[a[i]] = IF i = m THEN Null ELSE a[i + 1]
                      /\ h.prev[a[i]] = IF i = 1 THEN Null ELSE a[i - 1]
                      /\ \A j \in 1..m : a[i] = a[j] => i = j
                      /\ \A j \in 1..n : a[i] # b[j]
  BY <1>3, <1>4
<1>b. \A i \in 1..n : /\ b[i] \in Nodes /\ b[i] \in h.live
                      /\ h.next[b[i]] = IF i = n THEN Null ELSE b[i + 1]
                      /\ h.prev[b[i]] = IF i = 1 THEN Null ELSE b[i - 1]
                      /\ \A j \in 1..n : b[i] = b[j] => i = j
  BY <1>3, <1>4
<1>c. \A x \in Nodes : /\ x \in h2.live <=> x \in h.live
                       /\ h2.next[x] = IF x = a[m] THEN b[1] ELSE h.next[x]
                       /\ h2.prev[x] = IF x = b[1] THEN a[m] ELSE h.prev[x]
  BY <1>3, <1>4
<1>5. ASSUME NEW c \in K \ {a, b}, NEW i \in 1..Len(c)
      PROVE  /\ c[i] \in h2.live
             /\ h2.next[c[i]] = IF i = Len(c) THEN Null ELSE c[i + 1]
             /\ h2.prev[c[i]] = IF i = 1 THEN Null ELSE c[i - 1]
  <2>1. c[i] # a[m] /\ c[i] # b[1] /\ c[i] \in Nodes
    BY <1>3, <1>4
  <2> QED
    BY <1>3, <1>4, <2>1
<1>6. ASSUME NEW i \in 1..m+n
      PROVE  /\ e[i] \in h2.live /\ e[i] \in Nodes
             /\ h2.next[e[i]] = IF i = m + n THEN Null ELSE e[i + 1]
             /\ h2.prev[e[i]] = IF i = 1 THEN Null ELSE e[i - 1]
  <2>1. CASE i <= m
    <3>1. i \in 1..m /\ e[i] = a[i] /\ i # m + n
      BY <1>1, <1>2, <2>1
    <3>2. a[i] \in Nodes /\ a[i] \in h2.live /\ a[i] # b[1]
      BY <1>4, <1>a, <1>c, <3>1
    <3>3. h2.prev[a[i]] = IF i = 1 THEN Null ELSE e[i - 1]
      <4>1. h2.prev[a[i]] = h.prev[a[i]]
        BY <1>c, <3>2
      <4>2. i # 1 => i - 1 \in 1..m+n /\ i - 1 <= m
        BY <1>1, <3>1
      <4> QED
        BY <1>2, <1>a, <3>1, <4>1, <4>2
    <3>4. h2.next[a[i]] = e[i + 1]
      <4>1. i + 1 \in 1..m+n
        BY <1>1, <3>1
      <4>2. CASE i = m
        <5>1. e[i + 1] = b[1]
          BY <1>1, <1>2, <4>1, <4>2
        <5> QED
          BY <1>c, <3>2, <4>2, <5>1
      <4>3. CASE i # m
        <5>1. e[i + 1] = a[i + 1]
          BY <1>1, <1>2, <3>1, <4>1, <4>3
        <5>2. a[i] # a[m]
          BY <1>4, <1>a, <3>1, <4>3
        <5>3. h.next[a[i]] = a[i + 1]
          BY <1>a, <3>1, <4>3
        <5> QED
          BY <1>c, <3>2, <5>1, <5>2, <5>3
      <4> QED
        BY <4>2, <4>3
    <3> QED
      BY <3>1, <3>2, <3>3, <3>4
  <2>2. CASE i > m
    <3> DEFINE j == i - m
    <3>1. j \in 1..n /\ e[i] = b[j] /\ i # 1 /\ (j = n <=> i = m + n)
      BY <1>1, <1>2, <2>2
    <3>a. j \in Int /\ i = j + m
      BY <1>1
    <3> HIDE DEF j
    <3>2. b[j] \in Nodes /\ b[j] \in h2.live /\ b[j] # a[m]
      BY <1>4, <1>a, <1>b, <1>c, <3>1
    <3>3. h2.next[b[j]] = IF i = m + n THEN Null ELSE e[i + 1]
      <4>1. h2.next[b[j]] = h.next[b[j]]
        BY <1>c, <3>2
      <4>2. i # m + n => e[i + 1] = b[j + 1]
        <5>1. i # m + n => i + 1 \in 1..m+n /\ ~(i + 1 <= m) /\ (i + 1) - m = j + 1
          BY <1>1, <2>2, <3>a
        <5> QED
          BY <1>2, <5>1
      <4> QED
        BY <1>b, <3>1, <4>1, <4>2
    <3>4. h2.prev[b[j]] = e[i - 1]
      <4>1. i - 1 \in 1..m+n
        BY <1>1, <2>2
      <4>2. CASE j = 1
        <5>1. i - 1 = m
          BY <1>1, <3>a, <4>2
        <5>2. e[i - 1] = a[m]
          BY <1>1, <1>2, <4>1, <5>1
        <5> QED
          BY <1>c, <3>2, <4>2, <5>2
      <4>3. CASE j # 1
        <5>1. ~(i - 1 <= m) /\ (i - 1) - m = j - 1
          BY <1>1, <3>1, <3>a, <4>3
        <5>2. e[i - 1] = b[j - 1]
          BY <1>2, <4>1, <5>1
        <5>3. b[j] # b[1]
          BY <1>4, <1>b, <3>1, <4>3
        <5>4. h.prev[b[j]] = b[j - 1]
          BY <1>b, <3>1, <4>3
        <5> QED
          BY <1>c, <3>2, <5>2, <5>3, <5>4
      <4> QED
        BY <4>2, <4>3
    <3> QED
      BY <3>1, <3>2, <3>3, <3>4
  <2> QED
    BY <1>1, <2>1, <2>2
<1>7. \A c \in K2 : \A i \in 1..Len(c) :
         /\ c[i] \in h2.live
         /\ h2.next[c[i]] = IF i = Len(c) THEN Null ELSE c[i + 1]
         /\ h2.prev[c[i]] = IF i = 1 THEN Null ELSE c[i - 1]
  BY <1>2, <1>5, <1>6
<1>8. K2 \subseteq Seq(Nodes) \ {<<>>}
  <2>1. e # <<>>
    BY <1>1, <1>2, EmptySeq
  <2> QED
    BY <1>2, <2>1 DEF Chained
<1>9. \A x \in Members(h2) : \E c \in K2 : \E i \in 1..Len(c) : c[i] = x
  <2> SUFFICES ASSUME NEW x \in Members(h2) PROVE \E c \in K2 : \E i \in 1..Len(c) : c[i] = x
    OBVIOUS
  <2>1. PICK c \in K : \E i \in 1..Len(c) : c[i] = x
    BY DEF Chained
  <2>2. PICK i \in 1..Len(c) : c[i] = x
    BY <2>1
  <2>3. CASE c = a
    <3>1. i \in 1..m+n /\ e[i] = a[i]
      BY <1>1, <1>2, <1>4, <2>2, <2>3
    <3> QED
      BY <1>2, <2>2, <2>3, <3>1
  <2>4. CASE c = b
    <3>a. i \in 1..n
      BY <1>4, <2>4
    <3>b. m + i \in 1..m+n /\ ~(m + i <= m) /\ (m + i) - m = i
      BY <1>1, <3>a
    <3>1. m + i \in 1..m+n /\ e[m + i] = b[i]
      BY <1>2, <3>b
    <3> QED
      BY <1>2, <2>2, <2>4, <3>1
  <2>5. CASE c \notin {a, b}
    BY <2>1, <2>5
  <2> QED
    BY <2>3, <2>4, <2>5
<1>10. \A c, d \in K2 : \A i \in 1..Len(c), j \in 1..Len(d) : c[i] = d[j] => c = d /\ i = j
  <2>1. ASSUME NEW i \in 1..m+n, NEW j \in 1..m+n, e[i] = e[j] PROVE i = j
    <3>1. CASE i <= m /\ j <= m
      <4>1. i \in 1..m /\ j \in 1..m /\ a[i] = a[j]
        BY <1>1, <1>2, <2>1, <3>1
      <4> QED
        BY <1>3, <1>4, <4>1
    <3>2. CASE i <= m /\ j > m
      <4>1. i \in 1..m /\ j - m \in 1..n /\ a[i] = b[j - m]
        BY <1>1, <1>2, <2>1, <3>2
      <4> QED
        BY <1>3, <1>4, <4>1
    <3>3. CASE i > m /\ j <= m
      <4>1. j \in 1..m /\ i - m \in 1..n /\ a[j] = b[i - m]
        BY <1>1, <1>2, <2>1, <3>3
      <4> QED
        BY <1>3, <1>4, <4>1
    <3>4. CASE i > m /\ j > m
      <4>1. j - m \in 1..n /\ i - m \in 1..n /\ b[j - m] = b[i - m]
        BY <1>1, <1>2, <2>1, <3>4
      <4>2. j - m = i - m
        BY <1>3, <1>4, <4>1
      <4> QED
        BY <1>1, <4>2
    <3> QED
      BY <1>1, <3>1, <3>2, <3>3, <3>4
  <2>2. ASSUME NEW c \in K \ {a, b}, NEW i \in 1..Len(c), NEW j \in 1..m+n, c[i] = e[j] PROVE FALSE
    <3>1. CASE j <= m
      <4>1. j \in 1..m /\ e[j] = a[j]
        BY <1>1, <1>2, <3>1
      <4> QED
        BY <1>3, <1>4, <2>2, <4>1
    <3>2. CASE j > m
      <4>1. j - m \in 1..n /\ e[j] = b[j - m]
        BY <1>1, <1>2, <3>2
      <4> QED
        BY <1>3, <1>4, <2>2, <4>1
    <3> QED
      BY <1>1, <3>1, <3>2
  <2> QED
    BY <1>2, <1>3, <2>1, <2>2
<1>11. \A x \in Nodes \ h2.live : h2.next[x] = Null /\ h2.prev[x] = Null
  BY <1>1, <1>3, <1>4 DEF Chained
<1>12. Chained(h2, K2)
  BY <1>7, <1>8, <1>9, <1>10, <1>11 DEF Chained
<1> QED
  BY <1>12 DEF e

LEMMA ChainParted ==
    ASSUME NEW h, NEW h2, NEW K, Chained(h, K),
           NEW c \in K, NEW i \in 1..Len(c), NEW w \in Seq(Nodes), Len(w) = Len(c) - 1,
           \A j \in 1..Len(w) : w[j] = IF j < i THEN c[j] ELSE c[j + 1],
           Members(h2) = Members(h),
           \A y \in Nodes :
              /\ h2.next[y] = IF y = c[i] THEN Null
                              ELSE IF y = h.prev[c[i]] THEN h.next[c[i]] ELSE h.next[y]
              /\ h2.prev[y] = IF y = c[i] THEN Null
                              ELSE IF y = h.next[c[i]] THEN h.prev[c[i]] ELSE h.prev[y]
    PROVE  Chained(h2, (K \ {c}) \cup ({w} \ {<<>>}) \cup {<<c[i]>>})
<1> DEFINE m == Len(c)
           x == c[i]
           e == <<x>>
           K2 == (K \ {c}) \cup ({w} \ {<<>>}) \cup {e}
<1>1. c \in Seq(Nodes) /\ m \in Nat \ {0} /\ i \in 1..m /\ Null \notin Nodes
  BY HeadOfChain, StatementAssumption DEF Nodes
<1>2. /\ \A d \in K : \A j \in 1..Len(d) :
            /\ d[j] \in Nodes /\ d[j] \in h.live
            /\ h.next[d[j]] = IF j = Len(d) THEN Null ELSE d[j + 1]
            /\ h.prev[d[j]] = IF j = 1 THEN Null ELSE d[j - 1]
      /\ \A d, f \in K : \A j \in 1..Len(d), k \in 1..Len(f) : d[j] = f[k] => d = f /\ j = k
      /\ \A y \in Nodes : y \in h2.live <=> y \in h.live
  BY ElementOfSeq DEF Chained, Members
<1>3. \A j \in 1..m : /\ c[j] \in Nodes /\ c[j] \in h2.live
                      /\ h.next[c[j]] = IF j = m THEN Null ELSE c[j + 1]
                      /\ h.prev[c[j]] = IF j = 1 THEN Null ELSE c[j - 1]
                      /\ \A k \in 1..m : c[j] = c[k] => j = k
  <2> SUFFICES ASSUME NEW j \in 1..m
               PROVE  /\ c[j] \in Nodes /\ c[j] \in h2.live
                      /\ h.next[c[j]] = IF j = m THEN Null ELSE c[j + 1]
                      /\ h.prev[c[j]] = IF j = 1 THEN Null ELSE c[j - 1]
                      /\ \A k \in 1..m : c[j] = c[k] => j = k
    OBVIOUS
  <2>1. /\ c[j] \in Nodes /\ c[j] \in h.live
        /\ h.next[c[j]] = IF j = m THEN Null ELSE c[j + 1]
        /\ h.prev[c[j]] = IF j = 1 THEN Null ELSE c[j - 1]
    BY <1>2
  <2>2. \A k \in 1..m : c[j] = c[k] => j = k
    BY <1>2
  <2> QED
    BY <1>2, <2>1, <2>2
<1>4. e \in Seq(Nodes) /\ Len(e) = 1 /\ e[1] = x /\ e # <<>>
  <2>1. x \in Nodes
    BY <1>1, <1>3
  <2> QED
    BY <2>1
<1>5. /\ Len(w) = m - 1
      /\ \A j \in 1..m-1 : w[j] = IF j < i THEN c[j] ELSE c[j + 1]
  BY <1>1
<1>6. /\ x \in Nodes /\ x = c[i] /\ x \in h2.live
      /\ h.next[x] = IF i = m THEN Null ELSE c[i + 1]
      /\ h.prev[x] = IF i = 1 THEN Null ELSE c[i - 1]
  BY <1>1, <1>3
<1>7. \A y \in Nodes :
         /\ h2.next[y] = IF y = x THEN Null ELSE IF y = h.prev[x] THEN h.next[x] ELSE h.next[y]
         /\ h2.prev[y] = IF y = x THEN Null ELSE IF y = h.next[x] THEN h.prev[x] ELSE h.prev[y]
  OBVIOUS
<1> HIDE DEF m, x, e
<1>8. ASSUME NEW d \in K \ {c}, NEW j \in 1..Len(d)
      PROVE  /\ d[j] \in h2.live
             /\ h2.next[d[j]] = IF j = Len(d) THEN Null ELSE d[j + 1]
             /\ h2.prev[d[j]] = IF j = 1 THEN Null ELSE d[j - 1]
  <2>1. d[j] \in Nodes /\ \A k \in 1..Len(c) : d[j] # c[k]
    BY <1>2
  <2>2. \A k \in 1..m : d[j] # c[k]
    BY <2>1 DEF m
  <2>3. i = m \/ i + 1 \in 1..m
    BY <1>1
  <2>4. i = 1 \/ i - 1 \in 1..m
    BY <1>1
  <2>5. d[j] # x /\ d[j] # h.next[x] /\ d[j] # h.prev[x]
    BY <1>1, <1>6, <2>1, <2>2, <2>3, <2>4
  <2>6. /\ d[j] \in h.live
        /\ h.next[d[j]] = IF j = Len(d) THEN Null ELSE d[j + 1]
        /\ h.prev[d[j]] = IF j = 1 THEN Null ELSE d[j - 1]
    BY <1>2
  <2>7. h2.next[d[j]] = h.next[d[j]] /\ h2.prev[d[j]] = h.prev[d[j]] /\ d[j] \in h2.live
    BY <1>2, <1>7, <2>1, <2>5, <2>6
  <2> QED
    BY <2>6, <2>7
<1>9. ASSUME NEW j \in 1..m-1
      PROVE  /\ w[j] \in h2.live
             /\ h2.next[w[j]] = IF j = m - 1 THEN Null ELSE w[j + 1]
             /\ h2.prev[w[j]] = IF j = 1 THEN Null ELSE w[j - 1]
  <2>1. j \in 1..m /\ j + 1 \in 1..m /\ j # m /\ m \in Int /\ i \in Int /\ j \in Int
    BY <1>1
  <2>2. CASE j < i
    <3>1. w[j] = c[j] /\ c[j] \in Nodes /\ c[j] # x
      BY <1>1, <1>3, <1>5, <1>6, <2>1, <2>2
    <3>2. h2.prev[c[j]] = IF j = 1 THEN Null ELSE w[j - 1]
      <4>1. c[j] # h.next[x]
        <5>1. i # m => i + 1 \in 1..m /\ i + 1 # j
          BY <1>1, <2>2
        <5> QED
          BY <1>1, <1>3, <1>6, <2>1, <3>1, <5>1
      <4>2. h2.prev[c[j]] = h.prev[c[j]]
        BY <1>7, <3>1, <4>1
      <4>3. j # 1 => j - 1 \in 1..m-1 /\ j - 1 < i
        BY <2>1, <2>2
      <4> QED
        BY <1>3, <1>5, <2>1, <4>2, <4>3
    <3>3. h2.next[c[j]] = IF j = m - 1 THEN Null ELSE w[j + 1]
      <4>1. CASE j = i - 1
        <5>1. c[j] = h.prev[x]
          BY <1>1, <1>6, <2>1, <4>1
        <5>2. h2.next[c[j]] = h.next[x]
          BY <1>7, <3>1, <5>1
        <5>3. i # m => j + 1 \in 1..m-1 /\ ~(j + 1 < i) /\ j + 1 = i
          BY <1>1, <4>1
        <5>4. j = m - 1 <=> i = m
          BY <1>1, <4>1
        <5>5. i # m => w[j + 1] = c[i + 1]
          BY <1>5, <5>3
        <5> QED
          BY <1>6, <5>2, <5>4, <5>5
      <4>2. CASE j # i - 1
        <5>1. c[j] # h.prev[x]
          <6>1. i # 1 => i - 1 \in 1..m /\ i - 1 # j
            BY <1>1, <4>2
          <6> QED
            BY <1>1, <1>3, <1>6, <2>1, <3>1, <6>1
        <5>2. h2.next[c[j]] = c[j + 1]
          BY <1>3, <1>7, <2>1, <3>1, <5>1
        <5>3. j + 1 \in 1..m-1 /\ j + 1 < i /\ j # m - 1
          BY <1>1, <2>1, <2>2, <4>2
        <5> QED
          BY <1>5, <5>2, <5>3
      <4> QED
        BY <4>1, <4>2
    <3> QED
      BY <1>3, <2>1, <3>1, <3>2, <3>3
  <2>3. CASE ~(j < i)
    <3>1. w[j] = c[j + 1] /\ c[j + 1] \in Nodes /\ c[j + 1] # x
      <4>1. j + 1 # i
        BY <2>1, <2>3
      <4> QED
        BY <1>1, <1>3, <1>5, <1>6, <2>1, <2>3, <4>1
    <3>2. h2.next[c[j + 1]] = IF j = m - 1 THEN Null ELSE w[j + 1]
      <4>1. c[j + 1] # h.prev[x]
        <5>1. i # 1 => i - 1 \in 1..m /\ i - 1 # j + 1
          BY <1>1, <2>3
        <5> QED
          BY <1>1, <1>3, <1>6, <2>1, <3>1, <5>1
      <4>2. h2.next[c[j + 1]] = h.next[c[j + 1]]
        BY <1>7, <3>1, <4>1
      <4>3. j # m - 1 => j + 1 \in 1..m-1 /\ ~(j + 1 < i)
        BY <2>1, <2>3
      <4>4. j = m - 1 <=> j + 1 = m
        BY <2>1
      <4>5. j # m - 1 => w[j + 1] = c[(j + 1) + 1]
        BY <1>5, <4>3
      <4> QED
        BY <1>3, <2>1, <4>2, <4>4, <4>5
    <3>3. h2.prev[c[j + 1]] = IF j = 1 THEN Null ELSE w[j - 1]
      <4>1. CASE j = i
        <5>1. c[j + 1] = h.next[x]
          BY <1>6, <2>1, <4>1
        <5>2. h2.prev[c[j + 1]] = h.prev[x]
          BY <1>7, <3>1, <5>1
        <5>3. j # 1 => j - 1 \in 1..m-1 /\ j - 1 < i
          BY <2>1, <4>1
        <5>4. j # 1 => w[j - 1] = c[i - 1]
          BY <1>5, <4>1, <5>3
        <5> QED
          BY <1>6, <4>1, <5>2, <5>4
      <4>2. CASE j # i
        <5>1. c[j + 1] # h.next[x]
          <6>1. i # m => i + 1 \in 1..m /\ i + 1 # j + 1
            BY <1>1, <2>1, <4>2
          <6> QED
            BY <1>1, <1>3, <1>6, <2>1, <3>1, <6>1
        <5>2. h2.prev[c[j + 1]] = h.prev[c[j + 1]]
          BY <1>7, <3>1, <5>1
        <5>3. j + 1 # 1 /\ (j + 1) - 1 = j
          BY <2>1
        <5>4. h2.prev[c[j + 1]] = c[j]
          BY <1>3, <2>1, <5>2, <5>3
        <5>5. j # 1 /\ j - 1 \in 1..m-1 /\ ~(j - 1 < i) /\ (j - 1) + 1 = j
          BY <1>1, <2>1, <2>3, <4>2
        <5> QED
          BY <1>5, <5>4, <5>5
      <4> QED
        BY <4>1, <4>2
    <3> QED
      BY <1>3, <2>1, <3>1, <3>2, <3>3
  <2> QED
    BY <2>2, <2>3
<1>10. h2.next[x] = Null /\ h2.prev[x] = Null
  BY <1>6, <1>7
<1>11. ASSUME NEW d \in K2, NEW j \in 1..Len(d)
       PROVE  /\ d[j] \in h2.live
              /\ h2.next[d[j]] = IF j = Len(d) THEN Null ELSE d[j + 1]
              /\ h2.prev[d[j]] = IF j = 1 THEN Null ELSE d[j - 1]
  <2>1. CASE d \in K \ {c}
    BY <1>8, <2>1
  <2>2. CASE d = w
    <3>1. Len(d) = m - 1
      BY <1>5, <2>2
    <3>2. j \in 1..m-1
      BY <3>1
    <3> QED
      BY <1>9, <2>2, <3>1, <3>2
  <2>3. CASE d = e
    <3>0. Len(d) = 1 /\ d[1] = x
      BY <1>4, <2>3
    <3>1. j = 1 /\ Len(d) = 1 /\ d[j] = x
      BY <3>0
    <3> QED
      BY <1>6, <1>10, <3>1
  <2> QED
    BY <2>1, <2>2, <2>3
<1>12. K2 \subseteq Seq(Nodes) \ {<<>>}
  BY <1>4 DEF Chained
<1>13. \A y \in Members(h2) : \E d \in K2 : \E j \in 1..Len(d) : d[j] = y
  <2> SUFFICES ASSUME NEW y \in Members(h2) PROVE \E d \in K2 : \E j \in 1..Len(d) : d[j] = y
    OBVIOUS
  <2>1. PICK d \in K : \E j \in 1..Len(d) : d[j] = y
    BY DEF Chained
  <2>2. PICK j \in 1..Len(d) : d[j] = y
    BY <2>1
  <2>3. CASE d # c
    BY <2>1, <2>3
  <2>4. CASE d = c
    <3>1. j \in 1..m
      BY <2>4 DEF m
    <3>a. w # <<>> => w \in K2
      OBVIOUS
    <3>b. ASSUME NEW k \in 1..m-1, w[k] = y PROVE \E f \in K2 : \E l \in 1..Len(f) : f[l] = y
      <4>1. w # <<>>
        <5>1. Len(w) # 0
          BY <1>1, <1>5
        <5> QED
          BY <5>1, EmptySeq
      <4>2. k \in 1..Len(w)
        BY <1>5
      <4> QED
        BY <3>a, <3>b, <4>1, <4>2
    <3>2. CASE j = i
      <4>1. e \in K2 /\ e[1] = y /\ 1 \in 1..Len(e)
        BY <1>4, <1>6, <2>2, <2>4, <3>2
      <4> QED
        BY <4>1
    <3>3. CASE j < i
      <4>1. j \in 1..m-1 /\ w[j] = c[j]
        BY <1>1, <1>5, <3>1, <3>3
      <4> QED
        BY <2>2, <2>4, <3>b, <4>1
    <3>4. CASE j > i
      <4>1. j - 1 \in 1..m-1 /\ ~(j - 1 < i) /\ (j - 1) + 1 = j
        BY <1>1, <3>1, <3>4
      <4>2. w[j - 1] = c[j]
        BY <1>5, <4>1
      <4> QED
        BY <2>2, <2>4, <3>b, <4>1, <4>2
    <3> QED
      BY <1>1, <3>1, <3>2, <3>3, <3>4
  <2> QED
    BY <2>3, <2>4
<1>14. \A d, f \in K2 : \A j \in 1..Len(d), k \in 1..Len(f) : d[j] = f[k] => d = f /\ j = k
  <2>1. \A j \in 1..m-1 : \E k \in 1..m : /\ k = (IF j < i THEN j ELSE j + 1) /\ k # i
                                          /\ w[j] = c[k] /\ w[j] # x
    <3> SUFFICES ASSUME NEW j \in 1..m-1
                 PROVE  \E k \in 1..m : /\ k = (IF j < i THEN j ELSE j + 1) /\ k # i
                                        /\ w[j] = c[k] /\ w[j] # x
      OBVIOUS
    <3>1. j \in 1..m /\ j + 1 \in 1..m /\ (j < i => j # i) /\ (~(j < i) => j + 1 # i)
      BY <1>1
    <3>2. \A k \in 1..m : k # i => c[k] # x
      BY <1>1, <1>3, <1>6
    <3> QED
      BY <1>5, <3>1, <3>2
  <2>2. ASSUME NEW j \in 1..m-1, NEW k \in 1..m-1, w[j] = w[k] PROVE j = k
    <3>1. (IF j < i THEN j ELSE j + 1) = (IF k < i THEN k ELSE k + 1)
      BY <1>3, <2>1, <2>2
    <3> QED
      BY <1>1, <3>1
  <2>3. \A j \in 1..Len(w) : j \in 1..m-1
    BY <1>5
  <2>4. \A j \in 1..Len(e) : j = 1 /\ e[j] = x
    BY <1>4
  <2>5. ASSUME NEW d \in K \ {c}, NEW j \in 1..Len(d) PROVE \A k \in 1..m : d[j] # c[k]
    BY <1>2 DEF m
  <2>6. ASSUME NEW d \in K \ {c}, NEW j \in 1..Len(d)
        PROVE  d[j] # x /\ \A k \in 1..Len(w) : d[j] # w[k]
    BY <1>1, <1>6, <2>1, <2>3, <2>5
  <2>7. \A d, f \in K \ {c} : \A j \in 1..Len(d), k \in 1..Len(f) : d[j] = f[k] => d = f /\ j = k
    BY <1>2
  <2>8. \A j \in 1..Len(w) : w[j] # x
    BY <2>1, <2>3
  <2>9. \A j, k \in 1..Len(w) : w[j] = w[k] => j = k
    BY <2>2, <2>3
  <2> SUFFICES ASSUME NEW d \in K2, NEW f \in K2, NEW j \in 1..Len(d), NEW k \in 1..Len(f), d[j] = f[k]
               PROVE  d = f /\ j = k
    OBVIOUS
  <2>10. CASE d \in K \ {c} /\ f \in K \ {c}
    BY <2>7, <2>10
  <2>11. CASE d \in K \ {c} /\ f \in {w, e}
    BY <2>4, <2>6, <2>11
  <2>12. CASE d \in {w, e} /\ f \in K \ {c}
    BY <2>4, <2>6, <2>12
  <2>13. CASE d \in {w, e} /\ f \in {w, e}
    BY <2>4, <2>8, <2>9, <2>13
  <2> QED
    BY <2>10, <2>11, <2>12, <2>13
<1>15. \A y \in Nodes \ h2.live : h2.next[y] = Null /\ h2.prev[y] = Null
  <2> SUFFICES ASSUME NEW y \in Nodes \ h2.live PROVE h2.next[y] = Null /\ h2.prev[y] = Null
    OBVIOUS
  <2>1. y \notin h.live /\ h.next[y] = Null /\ h.prev[y] = Null
    BY <1>2 DEF Chained
  <2>2. y # x /\ (i = m \/ y # c[i + 1]) /\ (i = 1 \/ y # c[i - 1])
    <3>1. i # m => i + 1 \in 1..m
      BY <1>1
    <3>2. i # 1 => i - 1 \in 1..m
      BY <1>1
    <3> QED
      BY <1>3, <1>6, <3>1, <3>2
  <2>3. y # h.prev[x] /\ y # h.next[x]
    BY <1>1, <1>6, <2>2
  <2> QED
    BY <1>7, <2>1, <2>2, <2>3
<1>16. Chained(h2, K2)
  BY <1>11, <1>12, <1>13, <1>14, <1>15 DEF Chained
<1> QED
  BY <1>16 DEF e, x

LEMMA ChainsFreed ==
    ASSUME NEW h, NEW h2, NEW K, Chained(h, K), NEW D \in SUBSET K,
           \A x \in Nodes : x \in h2.live <=> x \in h.live /\ \A c \in D : x \notin Range(c),
           \A x \in Nodes : IF x \in h.live /\ x \notin h2.live
                            THEN h2.next[x] = Null /\ h2.prev[x] = Null
                            ELSE h2.next[x] = h.next[x] /\ h2.prev[x] = h.prev[x]
    PROVE  Chained(h2, K \ D)
<1>1. \A c \in K : \A x : x \in Range(c) <=> \E i \in 1..Len(c) : c[i] = x
  BY RangeIs DEF Chained
<1>2. \A c \in K : \A i \in 1..Len(c) : c[i] \in Nodes
  BY ElementOfSeq DEF Chained
<1>3. ASSUME NEW c \in K \ D, NEW i \in 1..Len(c) PROVE c[i] \in h2.live
  <2>1. c[i] \in h.live /\ c[i] \in Nodes
    BY <1>2 DEF Chained
  <2>2. ASSUME NEW d \in D, c[i] \in Range(d) PROVE FALSE
    <3>1. PICK j \in 1..Len(d) : d[j] = c[i]
      BY <1>1, <2>2
    <3>2. d = c
      BY <3>1 DEF Chained
    <3> QED
      BY <3>2
  <2> QED
    BY <2>1, <2>2
<1>4. \A x \in Members(h2) : \E c \in K \ D : \E i \in 1..Len(c) : c[i] = x
  BY <1>1 DEF Chained, Members
<1>5. \A x \in Nodes \ h2.live : h2.next[x] = Null /\ h2.prev[x] = Null
  BY DEF Chained
<1> QED
  BY <1>2, <1>3, <1>4, <1>5 DEF Chained

-----------------------------------------------------------------------------
(* What it does to the lists.                                                *)

\* The lists and their places.
LEMMA ListsApart ==
    ASSUME NEW h, NEW hl, NEW ct, NEW lo, Represents(h, hl, ct, lo)
    PROVE  /\ \A c, d \in Listed(ct, lo) : c[1] = d[1] => c = d
           /\ \A b \in lo : b \in Listed(ct, lo) /\ \A o \in Owners : b # ct[o]
           /\ \A o \in Owners : ct[o] # <<>> => ct[o] \in Listed(ct, lo)
           /\ \A c \in Listed(ct, lo) : /\ c \in Seq(Nodes) /\ c # <<>>
                                        /\ Len(c) \in Nat \ {0} /\ 1 \in 1..Len(c)
                                        /\ c[1] \in Members(h) /\ c[1] \in Nodes
           /\ Chained(h, Listed(ct, lo)) /\ <<>> \notin lo
           /\ \A c : c \in Listed(ct, lo) <=> c \in lo \/ (c # <<>> /\ \E o \in Owners : c = ct[o])
<1> DEFINE K == Listed(ct, lo)
<1>1. Chained(h, K)
  BY DEF Represents
<1>2. \A c : c \in K <=> c \in lo \/ (c # <<>> /\ \E o \in Owners : c = ct[o])
  BY DEF Listed
<1>3. \A o \in Owners : ct[o] # <<>> => ct[o] \notin lo
  BY DEF Represents
<1> HIDE DEF K
<1>4. \A c \in K : c \in Seq(Nodes) /\ c # <<>> /\ Len(c) \in Nat \ {0}
  BY <1>1, EmptySeq DEF Chained
<1>5. \A c \in K : 1 \in 1..Len(c)
  BY <1>4
<1>6. \A c \in K : c[1] \in h.live /\ c[1] \in Nodes
  BY <1>1, <1>4, <1>5, ElementOfSeq DEF Chained
<1>7. \A c, d \in K : c[1] = d[1] => c = d
  BY <1>1, <1>5 DEF Chained
<1>8. <<>> \notin lo
  BY <1>2, <1>4
<1> QED
  BY <1>1, <1>2, <1>3, <1>4, <1>5, <1>6, <1>7, <1>8 DEF K, Members

LEMMA ListsKept ==
    ASSUME NEW h, NEW hl, NEW ct, NEW lo, Represents(h, hl, ct, lo), NEW h2, NEW hl2,
           SameLinks(h, h2), \A o \in Owners : h2.first[o] = h.first[o],
           \A o \in Owners : o \in h.live => o \in h2.live,
           hl2 \cap Nodes = hl \cap Nodes
    PROVE  Represents(h2, hl2, ct, lo)
<1>1. Chained(h2, Listed(ct, lo))
  BY ChainsKept DEF Represents
<1> QED
  BY <1>1 DEF Represents

LEMMA ListMade ==
    ASSUME NEW h, NEW hl, NEW ct, NEW lo, Represents(h, hl, ct, lo), NEW h2, NEW hl2,
           NEW n \in Nodes, n \notin h.live, h2.live = h.live \cup {n},
           \A x \in Nodes : h2.next[x] = h.next[x] /\ h2.prev[x] = h.prev[x],
           \A o \in Owners : h2.first[o] = h.first[o],
           hl2 \cap Nodes = (hl \cap Nodes) \cup {n}
    PROVE  Represents(h2, hl2, ct, lo \cup {<<n>>})
<1>1. Members(h2) = Members(h) \cup {n}
  BY DEF Members
<1>2. Chained(h2, Listed(ct, lo) \cup {<<n>>})
  <2>1. Chained(h, Listed(ct, lo))
    BY DEF Represents
  <2> QED
    BY <1>1, <2>1, ChainMade
<1>3. Listed(ct, lo) \cup {<<n>>} = Listed(ct, lo \cup {<<n>>})
  BY DEF Listed
<1>4. \A o \in Owners : ct[o] # <<n>>
  <2> SUFFICES ASSUME NEW o \in Owners, ct[o] = <<n>> PROVE FALSE
    OBVIOUS
  <2>1. ct[o] # <<>> /\ ct[o][1] = n
    OBVIOUS
  <2> QED
    BY <2>1, ListsApart DEF Members
<1>5. <<n>>[1] = n
  OBVIOUS
<1>6. hl2 \cap Nodes = {b[1] : b \in lo \cup {<<n>>}}
  <2> DEFINE e == <<n>>
  <2>1. e[1] = n
    BY <1>5
  <2> HIDE DEF e
  <2>2. hl2 \cap Nodes = {b[1] : b \in lo \cup {e}}
    BY <2>1 DEF Represents
  <2> QED
    BY <2>2 DEF e
<1> QED
  BY <1>2, <1>3, <1>4, <1>6 DEF Represents

LEMMA ListOwned ==
    ASSUME NEW h, NEW hl, NEW ct, NEW lo, Represents(h, hl, ct, lo), NEW h2, NEW hl2,
           NEW o \in Owners, NEW b \in lo, ct[o] = <<>>, o \in h2.live, SameLinks(h, h2),
           \A p \in Owners : h2.first[p] = IF p = o THEN b[1] ELSE h.first[p],
           \A p \in Owners : p \in h.live => p \in h2.live,
           hl2 \cap Nodes = (hl \cap Nodes) \ {b[1]}
    PROVE  Represents(h2, hl2, [ct EXCEPT ![o] = b], lo \ {b})
<1> DEFINE ct2 == [ct EXCEPT ![o] = b]
           lo2 == lo \ {b}
<1>1. /\ ct \in [Owners -> Seq(Nodes)] /\ b \in Seq(Nodes) /\ b # <<>>
      /\ \A p \in Owners : b # ct[p]
  <2>1. b \in Listed(ct, lo) /\ \A p \in Owners : b # ct[p]
    BY ListsApart
  <2>2. b \in Seq(Nodes) /\ b # <<>>
    BY <2>1, ListsApart
  <2>3. ct \in [Owners -> Seq(Nodes)]
    BY DEF Represents
  <2> QED
    BY <2>1, <2>2, <2>3
<1>2. ct2 \in [Owners -> Seq(Nodes)] /\ \A p \in Owners : ct2[p] = IF p = o THEN b ELSE ct[p]
  BY <1>1
<1> HIDE DEF ct2
<1>3. Listed(ct2, lo2) = Listed(ct, lo)
  <2>1. \A c : c \in Listed(ct2, lo2) <=> c \in lo2 \/ (c # <<>> /\ \E p \in Owners : c = ct2[p])
    BY DEF Listed
  <2>2. \A c : c \in Listed(ct, lo) <=> c \in lo \/ (c # <<>> /\ \E p \in Owners : c = ct[p])
    BY ListsApart
  <2>3. ASSUME NEW c, c \in Listed(ct2, lo2) PROVE c \in Listed(ct, lo)
    BY <1>1, <1>2, <2>1, <2>2, <2>3
  <2>4. ASSUME NEW c, c \in Listed(ct, lo) PROVE c \in Listed(ct2, lo2)
    <3>1. CASE c \in lo
      <4>1. c = b => ct2[o] = c /\ c # <<>>
        BY <1>1, <1>2
      <4> QED
        BY <2>1, <3>1, <4>1
    <3>2. CASE c \notin lo
      <4>1. PICK p \in Owners : c = ct[p]
        BY <2>2, <2>4, <3>2
      <4>2. c # <<>> /\ p # o
        BY <2>2, <2>4, <3>2, <4>1
      <4>3. ct2[p] = c
        BY <1>2, <4>1, <4>2
      <4> QED
        BY <2>1, <4>2, <4>3
    <3> QED
      BY <3>1, <3>2
  <2> QED
    BY <2>3, <2>4
<1>4. Chained(h2, Listed(ct2, lo2))
  BY <1>3, ChainsKept DEF Represents
<1>5. hl2 \cap Nodes = {c[1] : c \in lo2}
  <2>1. \A c \in lo : c[1] = b[1] => c = b
    BY ListsApart
  <2> QED
    BY <2>1 DEF Represents
<1>6. \A p \in Owners : h2.first[p] = IF ct2[p] = <<>> THEN Null ELSE ct2[p][1]
  BY <1>1, <1>2 DEF Represents
<1>7. \A p \in Owners : ct2[p] # <<>> => p \in h2.live /\ ct2[p] \notin lo2
  BY <1>1, <1>2 DEF Represents
<1>8. \A p, q \in Owners : ct2[p] = ct2[q] /\ ct2[p] # <<>> => p = q
  BY <1>1, <1>2 DEF Represents
<1>9. Represents(h2, hl2, ct2, lo2)
  BY <1>2, <1>4, <1>5, <1>6, <1>7, <1>8 DEF Represents
<1> QED
  BY <1>9 DEF ct2

LEMMA ListDisowned ==
    ASSUME NEW h, NEW hl, NEW ct, NEW lo, Represents(h, hl, ct, lo), NEW h2, NEW hl2,
           NEW o \in Owners, ct[o] # <<>>, SameLinks(h, h2),
           \A p \in Owners : h2.first[p] = IF p = o THEN Null ELSE h.first[p],
           \A p \in Owners : p \in h.live => p \in h2.live,
           hl2 \cap Nodes = (hl \cap Nodes) \cup {ct[o][1]}
    PROVE  Represents(h2, hl2, [ct EXCEPT ![o] = <<>>], lo \cup {ct[o]})
<1> DEFINE ct2 == [ct EXCEPT ![o] = <<>>]
           lo2 == lo \cup {ct[o]}
<1>1. /\ ct \in [Owners -> Seq(Nodes)] /\ <<>> \in Seq(Nodes)
      /\ \A p \in Owners : ct[p] = ct[o] => p = o
      /\ \A p \in Owners : ct[p] # <<>> => p \in h.live /\ ct[p] \notin lo
  BY EmptySeq DEF Represents
<1>2. ct2 \in [Owners -> Seq(Nodes)] /\ \A p \in Owners : ct2[p] = IF p = o THEN <<>> ELSE ct[p]
  BY <1>1
<1> HIDE DEF ct2
<1>3. Listed(ct2, lo2) = Listed(ct, lo)
  <2>1. \A c : c \in Listed(ct2, lo2) <=> c \in lo2 \/ (c # <<>> /\ \E p \in Owners : c = ct2[p])
    BY DEF Listed
  <2>2. \A c : c \in Listed(ct, lo) <=> c \in lo \/ (c # <<>> /\ \E p \in Owners : c = ct[p])
    BY ListsApart
  <2>3. ASSUME NEW c, c \in Listed(ct2, lo2) PROVE c \in Listed(ct, lo)
    <3>1. CASE c \in lo
      BY <2>2, <3>1
    <3>2. CASE c = ct[o]
      BY <2>2, <3>2
    <3>3. CASE c \notin lo2
      <4>1. PICK p \in Owners : c = ct2[p]
        BY <2>1, <2>3, <3>3
      <4>2. c # <<>>
        BY <2>1, <2>3, <3>3
      <4>3. c = ct[p]
        BY <1>2, <4>1, <4>2
      <4> QED
        BY <2>2, <4>2, <4>3
    <3> QED
      BY <3>1, <3>2, <3>3
  <2>4. ASSUME NEW c, c \in Listed(ct, lo) PROVE c \in Listed(ct2, lo2)
    <3>1. CASE c \in lo
      BY <2>1, <3>1
    <3>2. CASE c \notin lo
      <4>1. PICK p \in Owners : c = ct[p]
        BY <2>2, <2>4, <3>2
      <4>2. c # <<>>
        BY <2>2, <2>4, <3>2
      <4>3. p # o => ct2[p] = c
        BY <1>2, <4>1
      <4> QED
        BY <2>1, <4>1, <4>2, <4>3
    <3> QED
      BY <3>1, <3>2
  <2> QED
    BY <2>3, <2>4
<1>4. Chained(h2, Listed(ct2, lo2))
  BY <1>3, ChainsKept DEF Represents
<1>5. hl2 \cap Nodes = {c[1] : c \in lo2}
  BY DEF Represents
<1>6. \A p \in Owners : h2.first[p] = IF ct2[p] = <<>> THEN Null ELSE ct2[p][1]
  BY <1>2 DEF Represents
<1>7. \A p \in Owners : ct2[p] # <<>> => p \in h2.live /\ ct2[p] \notin lo2
  BY <1>1, <1>2
<1>8. \A p, q \in Owners : ct2[p] = ct2[q] /\ ct2[p] # <<>> => p = q
  BY <1>2 DEF Represents
<1>9. Represents(h2, hl2, ct2, lo2)
  BY <1>2, <1>4, <1>5, <1>6, <1>7, <1>8 DEF Represents
<1> QED
  BY <1>9 DEF ct2

\* The links of h2 are those of h with b behind a.
LinkedBehind(h, h2, a, b) ==
    /\ Members(h2) = Members(h)
    /\ \A x \in Nodes : /\ h2.next[x] = IF x = a[Len(a)] THEN b[1] ELSE h.next[x]
                        /\ h2.prev[x] = IF x = b[1] THEN a[Len(a)] ELSE h.prev[x]

LEMMA ListsJoined ==
    ASSUME NEW h, NEW hl, NEW ct, NEW lo, Represents(h, hl, ct, lo), NEW h2, NEW hl2,
           NEW a \in lo, NEW b \in lo, a # b, LinkedBehind(h, h2, a, b),
           \A p \in Owners : h2.first[p] = h.first[p],
           \A p \in Owners : p \in h.live => p \in h2.live,
           hl2 \cap Nodes = (hl \cap Nodes) \ {b[1]}
    PROVE  Represents(h2, hl2, ct, (lo \ {a, b}) \cup {a \o b})
<1> DEFINE K == Listed(ct, lo)
           e == a \o b
           lo2 == (lo \ {a, b}) \cup {e}
<1>1. /\ a \in K /\ b \in K /\ Chained(h, K) /\ a \in Seq(Nodes) /\ b \in Seq(Nodes)
      /\ Len(a) \in Nat \ {0} /\ Len(b) \in Nat \ {0}
      /\ \A c, d \in K : c[1] = d[1] => c = d
      /\ \A c : c \in K <=> c \in lo \/ (c # <<>> /\ \E p \in Owners : c = ct[p])
      /\ \A p \in Owners : a # ct[p] /\ b # ct[p]
  BY ListsApart
<1>2. e \in Seq(Nodes) /\ e # <<>> /\ e[1] = a[1]
  <2>1. /\ e \in Seq(Nodes) /\ Len(e) = Len(a) + Len(b)
        /\ \A i \in 1..Len(a) + Len(b) : e[i] = IF i <= Len(a) THEN a[i] ELSE b[i - Len(a)]
    BY <1>1, ConcatProperties
  <2>2. 1 \in 1..Len(a) + Len(b) /\ 1 <= Len(a)
    BY <1>1
  <2>3. Len(e) # 0
    BY <1>1, <2>1
  <2> QED
    BY <2>1, <2>2, <2>3, EmptySeq
<1>3. Chained(h2, (K \ {a, b}) \cup {e})
  BY <1>1, ChainsJoined DEF LinkedBehind
<1> HIDE DEF K, e
<1>4. \A p \in Owners : ct[p] # e
  BY <1>1, <1>2
<1>5. (K \ {a, b}) \cup {e} = Listed(ct, lo2)
  <2>1. \A c : c \in Listed(ct, lo2) <=> c \in lo2 \/ (c # <<>> /\ \E p \in Owners : c = ct[p])
    BY DEF Listed
  <2>2. \A c : c \in Listed(ct, lo2) <=> c \in (K \ {a, b}) \cup {e}
    BY <1>1, <1>2, <2>1
  <2> QED
    BY <2>2
<1>6. hl2 \cap Nodes = {c[1] : c \in lo2}
  <2>1. hl \cap Nodes = {c[1] : c \in lo}
    BY DEF Represents
  <2>2. \A c, d \in lo : c[1] = d[1] => c = d
    BY <1>1
  <2>3. \A y : y \in {c[1] : c \in lo2} <=> y \in {c[1] : c \in lo} /\ y # b[1]
    BY <1>2, <2>2
  <2> QED
    BY <2>1, <2>3
<1>7. \A p \in Owners : ct[p] # <<>> => p \in h2.live /\ ct[p] \notin lo2
  BY <1>4 DEF Represents
<1>8. Represents(h2, hl2, ct, lo2)
  BY <1>3, <1>5, <1>6, <1>7 DEF Represents
<1> QED
  BY <1>8 DEF e

LEMMA ListExtended ==
    ASSUME NEW h, NEW hl, NEW ct, NEW lo, Represents(h, hl, ct, lo), NEW h2, NEW hl2,
           NEW o \in Owners, ct[o] # <<>>, NEW b \in lo, LinkedBehind(h, h2, ct[o], b),
           \A p \in Owners : h2.first[p] = h.first[p],
           \A p \in Owners : p \in h.live => p \in h2.live,
           hl2 \cap Nodes = (hl \cap Nodes) \ {b[1]}
    PROVE  Represents(h2, hl2, [ct EXCEPT ![o] = @ \o b], lo \ {b})
<1> DEFINE K == Listed(ct, lo)
           a == ct[o]
           e == a \o b
           ct2 == [ct EXCEPT ![o] = e]
           lo2 == lo \ {b}
<1>1. /\ a \in K /\ b \in K /\ Chained(h, K) /\ a \in Seq(Nodes) /\ b \in Seq(Nodes)
      /\ Len(a) \in Nat \ {0} /\ Len(b) \in Nat \ {0}
      /\ \A c, d \in K : c[1] = d[1] => c = d
      /\ \A c : c \in K <=> c \in lo \/ (c # <<>> /\ \E p \in Owners : c = ct[p])
      /\ \A p \in Owners : b # ct[p]
      /\ \A p \in Owners : ct[p] = a => p = o
      /\ a # b /\ a # <<>> /\ a \notin lo
      /\ ct \in [Owners -> Seq(Nodes)]
  <2>1. ct \in [Owners -> Seq(Nodes)] /\ (\A p \in Owners : ct[p] = a => p = o) /\ a \notin lo
    BY DEF Represents
  <2>2. /\ \A c, d \in K : c[1] = d[1] => c = d
        /\ b \in K /\ \A p \in Owners : b # ct[p]
        /\ a \in K
        /\ \A c \in K : c \in Seq(Nodes) /\ Len(c) \in Nat \ {0}
        /\ Chained(h, K)
        /\ \A c : c \in K <=> c \in lo \/ (c # <<>> /\ \E p \in Owners : c = ct[p])
    BY ListsApart
  <2> QED
    BY <2>1, <2>2
<1>2. e \in Seq(Nodes) /\ e # <<>> /\ e[1] = a[1]
  <2>1. /\ e \in Seq(Nodes) /\ Len(e) = Len(a) + Len(b)
        /\ \A i \in 1..Len(a) + Len(b) : e[i] = IF i <= Len(a) THEN a[i] ELSE b[i - Len(a)]
    BY <1>1, ConcatProperties
  <2>2. 1 \in 1..Len(a) + Len(b) /\ 1 <= Len(a)
    BY <1>1
  <2>3. Len(e) # 0
    BY <1>1, <2>1
  <2> QED
    BY <2>1, <2>2, <2>3, EmptySeq
<1>3. Chained(h2, (K \ {a, b}) \cup {e})
  <2>1. /\ Members(h2) = Members(h)
        /\ \A x \in Nodes : /\ h2.next[x] = IF x = a[Len(a)] THEN b[1] ELSE h.next[x]
                            /\ h2.prev[x] = IF x = b[1] THEN a[Len(a)] ELSE h.prev[x]
    BY DEF LinkedBehind
  <2> HIDE DEF K, a
  <2> QED
    BY <1>1, <2>1, ChainsJoined
<1>a. a = ct[o]
  OBVIOUS
<1>b. /\ ct2 \in [Owners -> Seq(Nodes)]
      /\ \A p \in Owners : ct2[p] = IF p = o THEN e ELSE ct[p]
  BY <1>1, <1>2
<1> HIDE DEF K, e, a, ct2
<1>4. e \notin lo /\ \A p \in Owners : p # o => ct[p] # e
  BY <1>1, <1>2, <1>a
<1>5. (K \ {a, b}) \cup {e} = Listed(ct2, lo2)
  <2>1. \A c : c \in Listed(ct2, lo2) <=> c \in lo2 \/ (c # <<>> /\ \E p \in Owners : c = ct2[p])
    BY DEF Listed
  <2>2. \A c : c \in Listed(ct2, lo2) <=> c \in (K \ {a, b}) \cup {e}
    <3>1. ASSUME NEW c, c \in Listed(ct2, lo2) PROVE c \in (K \ {a, b}) \cup {e}
      BY <1>1, <1>a, <1>b, <2>1, <3>1
    <3>2. ASSUME NEW c, c \in (K \ {a, b}) \cup {e} PROVE c \in Listed(ct2, lo2)
      <4>1. CASE c = e
        <5>1. ct2[o] = c
          BY <1>b, <4>1
        <5> QED
          BY <1>2, <2>1, <4>1, <5>1
      <4>2. CASE c \in lo
        BY <2>1, <3>2, <1>2, <4>1, <4>2
      <4>3. CASE c # e /\ c \notin lo
        <5>1. PICK p \in Owners : c = ct[p]
          BY <1>1, <3>2, <4>3
        <5>2. c # <<>> /\ p # o
          BY <1>1, <1>a, <3>2, <4>3, <5>1
        <5>3. ct2[p] = c
          BY <1>b, <5>1, <5>2
        <5> QED
          BY <2>1, <5>2, <5>3
      <4> QED
        BY <4>1, <4>2, <4>3
    <3> QED
      BY <3>1, <3>2
  <2> QED
    BY <2>2
<1>6. hl2 \cap Nodes = {c[1] : c \in lo2}
  <2>1. hl \cap Nodes = {c[1] : c \in lo}
    BY DEF Represents
  <2>2. \A c, d \in lo : c[1] = d[1] => c = d
    BY <1>1
  <2>3. \A y : y \in {c[1] : c \in lo2} <=> y \in {c[1] : c \in lo} /\ y # b[1]
    BY <2>2
  <2> QED
    BY <2>1, <2>3
<1>7. \A p \in Owners : ct2[p] # <<>> => p \in h2.live /\ ct2[p] \notin lo2
  BY <1>1, <1>4, <1>a, <1>b DEF Represents
<1>8. \A p, q \in Owners : ct2[p] = ct2[q] /\ ct2[p] # <<>> => p = q
  BY <1>4, <1>b DEF Represents
<1>9. \A p \in Owners : h2.first[p] = IF ct2[p] = <<>> THEN Null ELSE ct2[p][1]
  BY <1>1, <1>2, <1>a, <1>b DEF Represents
<1>10. Represents(h2, hl2, ct2, lo2)
  BY <1>3, <1>5, <1>6, <1>7, <1>8, <1>9, <1>b DEF Represents
<1> QED
  BY <1>10 DEF ct2, e, a

LEMMA WithoutIs ==
    ASSUME NEW c \in Seq(Nodes), NEW i \in 1..Len(c),
           \A j \in 1..Len(c) : c[j] = c[i] => j = i
    PROVE  /\ Lists!Without(c, c[i]) \in Seq(Nodes)
           /\ Len(Lists!Without(c, c[i])) = Len(c) - 1
           /\ \A j \in 1..Len(c) - 1 : Lists!Without(c, c[i])[j] = IF j < i THEN c[j] ELSE c[j + 1]
<1>1. Len(c) \in Nat /\ DOMAIN c = 1..Len(c) /\ i \in Nat
  BY LenProperties
<1>2. c[i] \in Range(c)
  BY RangeIs
<1>3. (CHOOSE j \in DOMAIN c : c[j] = c[i]) = i
  BY <1>1
<1>4. Lists!Without(c, c[i]) = SubSeq(c, 1, i-1) \o SubSeq(c, i+1, Len(c))
  BY <1>2, <1>3 DEF Lists!Without, Lists!RemoveAt, Lists!Range, Range
<1> DEFINE s == SubSeq(c, 1, i-1)
           t == SubSeq(c, i+1, Len(c))
<1>5. /\ s \in Seq(Nodes) /\ Len(s) = i - 1
      /\ \A j \in 1..i-1 : s[j] = c[j]
  <2>1. \A j \in 1..i-1 : c[j] \in Nodes
    BY <1>1, ElementOfSeq
  <2>2. /\ s \in Seq(Nodes) /\ Len(s) = IF 1 <= i-1 THEN (i-1) - 1 + 1 ELSE 0
        /\ \A j \in 1..(i-1) - 1 + 1 : s[j] = c[1 + j - 1]
    BY <1>1, <2>1, SubSeqProperties
  <2>3. (i-1) - 1 + 1 = i - 1 /\ \A j \in 1..i-1 : 1 + j - 1 = j
    BY <1>1
  <2> QED
    BY <1>1, <2>2, <2>3
<1>6. /\ t \in Seq(Nodes) /\ Len(t) = Len(c) - i
      /\ \A j \in 1..Len(c) - i : t[j] = c[i + j]
  <2>1. i + 1 \in 1..Len(c) + 1
    BY <1>1
  <2>2. /\ t \in Seq(Nodes) /\ Len(t) = Len(c) - (i + 1) + 1
        /\ \A j \in 1..Len(c) - (i + 1) + 1 : t[j] = c[(i + 1) + j - 1]
    BY <2>1, SubSeqIs
  <2>3. Len(c) - (i + 1) + 1 = Len(c) - i
    BY <1>1
  <2>4. \A j \in 1..Len(c) - i : (i + 1) + j - 1 = i + j
    BY <1>1
  <2> QED
    BY <2>2, <2>3, <2>4
<1> HIDE DEF s, t
<1>7. /\ s \o t \in Seq(Nodes) /\ Len(s \o t) = Len(s) + Len(t)
      /\ \A j \in 1..Len(s) + Len(t) : (s \o t)[j] = IF j <= Len(s) THEN s[j] ELSE t[j - Len(s)]
  BY <1>5, <1>6, ConcatProperties
<1>8. Len(s) + Len(t) = Len(c) - 1
  BY <1>1, <1>5, <1>6
<1>9. ASSUME NEW j \in 1..Len(c) - 1 PROVE (s \o t)[j] = IF j < i THEN c[j] ELSE c[j + 1]
  <2>1. CASE j < i
    <3>1. j <= i - 1 /\ j \in 1..i-1
      BY <1>1, <2>1
    <3> QED
      BY <1>5, <1>7, <1>8, <2>1, <3>1
  <2>2. CASE ~(j < i)
    <3>1. ~(j <= i - 1) /\ j - (i - 1) \in 1..Len(c) - i /\ i + (j - (i - 1)) = j + 1
      BY <1>1, <2>2
    <3> QED
      BY <1>6, <1>7, <1>8, <2>2, <3>1
  <2> QED
    BY <2>1, <2>2
<1> QED
  BY <1>4, <1>7, <1>8, <1>9 DEF s, t

LEMMA WithoutOther ==
    ASSUME NEW c, NEW x, x \notin Range(c)
    PROVE  Lists!Without(c, x) = c
BY DEF Lists!Without, Lists!Range, Range

LEMMA ListsFreed ==
    ASSUME NEW h, NEW hl, NEW ct, NEW lo, Represents(h, hl, ct, lo), NEW h2, NEW hl2, NEW S,
           h2.live = h.live \ S,
           \A x \in Nodes : /\ h2.next[x] = IF x \in S THEN Null ELSE h.next[x]
                            /\ h2.prev[x] = IF x \in S THEN Null ELSE h.prev[x],
           \A o \in Owners : h2.first[o] = IF o \in S THEN Null ELSE h.first[o],
           hl2 \cap Nodes = (hl \cap Nodes) \ S,
           \A o \in Owners : o \in S => Range(ct[o]) \subseteq S,
           \A o \in Owners : Range(ct[o]) \cap S # {} => o \in S,
           \A b \in lo : Range(b) \cap S # {} => Range(b) \subseteq S
    PROVE  Represents(h2, hl2, [o \in Owners |-> IF o \in S THEN <<>> ELSE ct[o]],
                      {b \in lo : Range(b) \cap S = {}})
<1> DEFINE K == Listed(ct, lo)
           ct2 == [o \in Owners |-> IF o \in S THEN <<>> ELSE ct[o]]
           lo2 == {b \in lo : Range(b) \cap S = {}}
           D == {c \in K : Range(c) \subseteq S}
<1>1. /\ \A c, d \in K : c[1] = d[1] => c = d
      /\ \A c \in K : c \in Seq(Nodes) /\ c # <<>> /\ 1 \in 1..Len(c)
      /\ Chained(h, K)
      /\ \A c : c \in K <=> c \in lo \/ (c # <<>> /\ \E o \in Owners : c = ct[o])
  BY ListsApart
<1>2. ct \in [Owners -> Seq(Nodes)] /\ <<>> \in Seq(Nodes)
  BY EmptySeq DEF Represents
<1>3. ct2 \in [Owners -> Seq(Nodes)] /\ \A o \in Owners : ct2[o] = IF o \in S THEN <<>> ELSE ct[o]
  BY <1>2
<1> HIDE DEF K, ct2
<1>4. \A c \in K : c[1] \in Range(c) /\ Range(c) # {} /\ Range(c) \subseteq Nodes
  BY <1>1, RangeIs
<1>5. \A c \in K : Range(c) \cap S # {} => Range(c) \subseteq S
  BY <1>1
<1>6. \A x \in Members(h) : \E c \in K : x \in Range(c)
  BY <1>1, RangeIs DEF Chained
<1>7. \A x \in Nodes : x \in h2.live <=> x \in h.live /\ \A c \in D : x \notin Range(c)
  BY <1>5, <1>6 DEF Members
<1>8. \A x \in Nodes : IF x \in h.live /\ x \notin h2.live
                       THEN h2.next[x] = Null /\ h2.prev[x] = Null
                       ELSE h2.next[x] = h.next[x] /\ h2.prev[x] = h.prev[x]
  BY <1>1 DEF Chained
<1>9. Chained(h2, K \ D)
  <2> HIDE DEF D
  <2>1. D \in SUBSET K
    BY DEF D
  <2> QED
    BY <1>1, <1>7, <1>8, <2>1, ChainsFreed
<1>10. Listed(ct2, lo2) = K \ D
  <2>1. \A c : c \in Listed(ct2, lo2) <=> c \in lo2 \/ (c # <<>> /\ \E o \in Owners : c = ct2[o])
    BY DEF Listed
  <2>2. \A c \in K : c \in D <=> Range(c) \cap S # {}
    BY <1>4, <1>5
  <2>3. ASSUME NEW c, c \in Listed(ct2, lo2) PROVE c \in K \ D
    <3>1. CASE c \in lo2
      BY <1>1, <2>2, <3>1
    <3>2. CASE c \notin lo2
      <4>1. c # <<>> /\ \E o \in Owners : c = ct2[o]
        BY <2>1, <2>3, <3>2
      <4>2. PICK o \in Owners : c = ct2[o]
        BY <4>1
      <4>3. c = ct[o] /\ o \notin S
        BY <1>3, <4>1, <4>2
      <4> QED
        BY <1>1, <2>2, <4>1, <4>3
    <3> QED
      BY <3>1, <3>2
  <2>4. ASSUME NEW c, c \in K \ D PROVE c \in Listed(ct2, lo2)
    <3>1. CASE c \in lo
      BY <2>1, <2>2, <2>4, <3>1
    <3>2. CASE c \notin lo
      <4>1. c # <<>> /\ \E o \in Owners : c = ct[o]
        BY <1>1, <2>4, <3>2
      <4>2. PICK o \in Owners : c = ct[o]
        BY <4>1
      <4>3. o \notin S
        BY <2>4, <4>2
      <4>4. c = ct2[o]
        BY <1>3, <4>2, <4>3
      <4> QED
        BY <2>1, <4>1, <4>4
    <3> QED
      BY <3>1, <3>2
  <2> QED
    BY <2>3, <2>4
<1>11. \A o \in Owners : h2.first[o] = IF ct2[o] = <<>> THEN Null ELSE ct2[o][1]
  BY <1>3 DEF Represents
<1>12. \A o \in Owners : ct2[o] # <<>> => o \in h2.live /\ ct2[o] \notin lo2
  BY <1>3 DEF Represents
<1>13. \A o, p \in Owners : ct2[o] = ct2[p] /\ ct2[o] # <<>> => o = p
  BY <1>3 DEF Represents
<1>14. hl2 \cap Nodes = {b[1] : b \in lo2}
  <2>1. \A b \in lo : b[1] \in S <=> Range(b) \cap S # {}
    BY <1>1, <1>4, <1>5
  <2>2. hl \cap Nodes = {b[1] : b \in lo}
    BY DEF Represents
  <2> QED
    BY <2>1, <2>2
<1>15. Represents(h2, hl2, ct2, lo2)
  BY <1>3, <1>9, <1>10, <1>11, <1>12, <1>13, <1>14 DEF Represents
<1> QED
  BY <1>15 DEF ct2

\* The links of h2 are those of h without x.
LinkedWithout(h, h2, x) ==
    /\ Members(h2) = Members(h)
    /\ \A y \in Nodes :
          /\ h2.next[y] = IF y = x THEN Null
                          ELSE IF y = h.prev[x] THEN h.next[x] ELSE h.next[y]
          /\ h2.prev[y] = IF y = x THEN Null
                          ELSE IF y = h.next[x] THEN h.prev[x] ELSE h.prev[y]

LEMMA ListParted ==
    ASSUME NEW h, NEW hl, NEW ct, NEW lo, Represents(h, hl, ct, lo), NEW h2, NEW hl2,
           NEW x \in Members(h), LinkedWithout(h, h2, x),
           \A o \in Owners : h2.first[o] = IF h.first[o] = x THEN h.next[x] ELSE h.first[o],
           \A o \in Owners : o \in h.live => o \in h2.live,
           hl2 \cap Nodes = (hl \cap Nodes) \cup {x}
                             \cup (IF x \in hl /\ h.next[x] # Null THEN {h.next[x]} ELSE {})
    PROVE  Represents(h2, hl2, [o \in Owners |-> Lists!Without(ct[o], x)],
                      ({Lists!Without(b, x) : b \in lo} \ {<<>>}) \cup {<<x>>})
<1> DEFINE K == Listed(ct, lo)
           W(s) == Lists!Without(s, x)
           e == <<x>>
           ct2 == [o \in Owners |-> W(ct[o])]
           lo2 == ({W(b) : b \in lo} \ {<<>>}) \cup {e}
<1>1. /\ \A a, d \in K : a[1] = d[1] => a = d
      /\ \A b \in lo : b \in K /\ \A o \in Owners : b # ct[o]
      /\ \A d \in K : /\ d \in Seq(Nodes) /\ d # <<>> /\ Len(d) \in Nat \ {0} /\ 1 \in 1..Len(d)
                      /\ d[1] \in Nodes
      /\ Chained(h, K) /\ <<>> \notin lo
      /\ \A d : d \in K <=> d \in lo \/ (d # <<>> /\ \E o \in Owners : d = ct[o])
  BY ListsApart
<1>2. /\ ct \in [Owners -> Seq(Nodes)] /\ <<>> \in Seq(Nodes) /\ Null \notin Nodes
      /\ \A o, p \in Owners : ct[o] = ct[p] /\ ct[o] # <<>> => o = p
      /\ \A o \in Owners : h.first[o] = IF ct[o] = <<>> THEN Null ELSE ct[o][1]
      /\ \A o \in Owners : ct[o] # <<>> => o \in h.live /\ ct[o] \notin lo
      /\ hl \cap Nodes = {b[1] : b \in lo}
  BY EmptySeq, StatementAssumption DEF Represents, Nodes
<1> HIDE DEF K
<1>3. PICK c \in K : \E j \in 1..Len(c) : c[j] = x
  BY <1>1 DEF Chained
<1>4. PICK i \in 1..Len(c) : c[i] = x
  BY <1>3
<1>5. /\ \A j \in 1..Len(c) : c[j] = c[i] => j = i
      /\ \A d \in K : \A j \in 1..Len(d) : \A k \in 1..Len(c) : d[j] = c[k] => d = c /\ j = k
      /\ h.next[x] = IF i = Len(c) THEN Null ELSE c[i + 1]
  BY <1>1, <1>4 DEF Chained
<1>b. Len(c) \in Nat \ {0} /\ (i # 1 => Len(c) # 1)
  <2>1. Len(c) \in Nat \ {0}
    BY <1>1, <1>3
  <2> QED
    BY <2>1
<1> DEFINE w == W(c)
<1>6. /\ w \in Seq(Nodes) /\ Len(w) = Len(c) - 1
      /\ \A j \in 1..Len(c) - 1 : w[j] = IF j < i THEN c[j] ELSE c[j + 1]
  BY <1>1, <1>3, <1>4, <1>5, WithoutIs
<1>7. \A d \in K : d # c => W(d) = d
  <2> SUFFICES ASSUME NEW d \in K, d # c PROVE W(d) = d
    OBVIOUS
  <2>1. \A j \in 1..Len(d) : d[j] # x
    BY <1>4, <1>5
  <2>2. x \notin Range(d)
    BY <1>1, <2>1, RangeIs
  <2> QED
    BY <2>2, WithoutOther
<1>8. W(<<>>) = <<>>
  <2>1. x \notin Range(<<>>)
    BY <1>2, RangeIs
  <2> QED
    BY <2>1, WithoutOther
<1>9. e \in Seq(Nodes) /\ e # <<>> /\ Len(e) = 1 /\ e[1] = x
  BY DEF Members
<1> HIDE DEF e, W, w
<1>a. w = W(c)
  BY DEF w
<1>10. /\ w = <<>> <=> Len(c) = 1
       /\ w # <<>> => w[1] = IF i = 1 THEN c[2] ELSE c[1]
       /\ w # <<>> => \E k \in 1..Len(c) : w[1] = c[k] /\ k # i
       /\ w # <<>> => 2 \in 1..Len(c)
  <2>1. w = <<>> <=> Len(c) = 1
    <3>1. w = <<>> <=> Len(w) = 0
      BY <1>6, EmptySeq
    <3> QED
      BY <1>1, <1>6, <3>1
  <2>2. w # <<>> => 1 \in 1..Len(c) - 1 /\ 2 \in 1..Len(c)
    <3>1. \A k \in Nat \ {0} : k # 1 => 1 \in 1..k - 1 /\ 2 \in 1..k
      OBVIOUS
    <3>2. Len(c) # 1 => 1 \in 1..Len(c) - 1 /\ 2 \in 1..Len(c)
      BY <1>b, <3>1
    <3> QED
      BY <2>1, <3>2, Zenon
  <2>3. w # <<>> => w[1] = IF 1 < i THEN c[1] ELSE c[1 + 1]
    BY <1>6, <2>2
  <2>4. (1 < i) <=> i # 1
    OBVIOUS
  <2>5. w # <<>> => w[1] = IF i = 1 THEN c[2] ELSE c[1]
    BY <2>3, <2>4
  <2>6. w # <<>> => \E k \in 1..Len(c) : w[1] = c[k] /\ k # i
    BY <1>1, <2>2, <2>5
  <2> QED
    BY <2>1, <2>2, <2>5, <2>6
<1>11. /\ \A d \in K : d # c => (w # <<>> => w[1] # d[1]) /\ d[1] # x
       /\ w # <<>> => w[1] # x
  BY <1>1, <1>4, <1>5, <1>10
<1>12. ct2 \in [Owners -> Seq(Nodes)] /\ \A o \in Owners : ct2[o] = IF ct[o] = c THEN w ELSE ct[o]
  <2>1. \A o \in Owners : W(ct[o]) = IF ct[o] = c THEN w ELSE ct[o]
    BY <1>1, <1>7, <1>8, <1>a
  <2>2. \A o \in Owners : W(ct[o]) \in Seq(Nodes)
    BY <1>2, <1>6, <2>1
  <2> QED
    BY <2>1, <2>2
<1>13. \A d : d \in lo2 <=> (d \in lo /\ d # c) \/ (c \in lo /\ d = w /\ w # <<>>) \/ d = e
  <2>1. \A b \in lo : W(b) = IF b = c THEN w ELSE b
    BY <1>1, <1>7, <1>a
  <2> QED
    BY <1>1, <1>9, <2>1
<1> HIDE DEF ct2, lo2
<1>14. Chained(h2, (K \ {c}) \cup ({w} \ {<<>>}) \cup {<<c[i]>>})
  <2>1. /\ Members(h2) = Members(h)
        /\ \A y \in Nodes :
              /\ h2.next[y] = IF y = c[i] THEN Null
                              ELSE IF y = h.prev[c[i]] THEN h.next[c[i]] ELSE h.next[y]
              /\ h2.prev[y] = IF y = c[i] THEN Null
                              ELSE IF y = h.next[c[i]] THEN h.prev[c[i]] ELSE h.prev[y]
    BY <1>4 DEF LinkedWithout
  <2>2. \A j \in 1..Len(w) : w[j] = IF j < i THEN c[j] ELSE c[j + 1]
    BY <1>6
  <2>3. Chained(h, K) /\ w \in Seq(Nodes) /\ Len(w) = Len(c) - 1 /\ Members(h2) = Members(h)
    BY <1>1, <1>6, <2>1
  <2> QED
    BY <2>1, <2>2, <2>3, ChainParted
<1>15. Listed(ct2, lo2) = (K \ {c}) \cup ({w} \ {<<>>}) \cup {<<c[i]>>}
  <2>1. \A d : d \in Listed(ct2, lo2) <=> d \in lo2 \/ (d # <<>> /\ \E o \in Owners : d = ct2[o])
    BY DEF Listed
  <2>2. e = <<c[i]>>
    BY <1>4 DEF e
  <2>3. ASSUME NEW d, d \in Listed(ct2, lo2) PROVE d \in (K \ {c}) \cup ({w} \ {<<>>}) \cup {e}
    <3>1. CASE d \in lo2
      BY <1>1, <1>13, <3>1
    <3>2. CASE d \notin lo2
      <4>1. d # <<>> /\ \E o \in Owners : d = ct2[o]
        BY <2>1, <2>3, <3>2
      <4>2. PICK o \in Owners : d = ct2[o]
        BY <4>1
      <4>3. d = IF ct[o] = c THEN w ELSE ct[o]
        BY <1>12, <4>2
      <4>4. ct[o] # c => d = ct[o] /\ d \in K
        BY <1>1, <4>1, <4>3
      <4> QED
        BY <4>1, <4>3, <4>4
    <3> QED
      BY <3>1, <3>2
  <2>4. ASSUME NEW d, d \in (K \ {c}) \cup ({w} \ {<<>>}) \cup {e} PROVE d \in Listed(ct2, lo2)
    <3>1. CASE d = e
      BY <1>13, <2>1, <3>1
    <3>2. CASE d \in K \ {c}
      <4>1. CASE d \in lo
        BY <1>13, <2>1, <3>2, <4>1
      <4>2. CASE d \notin lo
        <5>1. d # <<>> /\ \E o \in Owners : d = ct[o]
          BY <1>1, <3>2, <4>2
        <5>2. PICK o \in Owners : d = ct[o]
          BY <5>1
        <5>3. d = ct2[o]
          BY <1>12, <3>2, <5>2
        <5> QED
          BY <2>1, <5>1, <5>3
      <4> QED
        BY <4>1, <4>2
    <3>3. CASE d = w /\ w # <<>>
      <4>1. CASE c \in lo
        BY <1>13, <2>1, <3>3, <4>1
      <4>2. CASE c \notin lo
        <5>1. PICK o \in Owners : c = ct[o]
          BY <1>1, <1>3, <4>2
        <5>2. d = ct2[o]
          BY <1>12, <3>3, <5>1
        <5> QED
          BY <2>1, <3>3, <5>2
      <4> QED
        BY <4>1, <4>2
    <3> QED
      BY <2>4, <3>1, <3>2, <3>3
  <2> QED
    BY <2>2, <2>3, <2>4
<1>16. \A o \in Owners : ct2[o] # <<>> => o \in h2.live /\ ct2[o] \notin lo2
  <2> SUFFICES ASSUME NEW o \in Owners, ct2[o] # <<>> PROVE o \in h2.live /\ ct2[o] \notin lo2
    OBVIOUS
  <2>1. CASE ct[o] = c
    <3>1. ct2[o] = w /\ w # <<>> /\ ct[o] # <<>> /\ c \notin lo
      BY <1>1, <1>2, <1>3, <1>12, <2>1
    <3>2. w # e
      BY <1>9, <1>11, <3>1
    <3>3. w \notin lo
      <4>1. \A b \in lo : b # c => b[1] # w[1]
        BY <1>1, <1>11, <3>1
      <4> QED
        BY <3>1, <4>1
    <3> QED
      BY <1>2, <1>13, <3>1, <3>2, <3>3
  <2>2. CASE ct[o] # c
    <3>1. ct2[o] = ct[o] /\ ct[o] \in K /\ ct[o] \notin lo /\ o \in h.live
      BY <1>1, <1>2, <1>12, <2>2
    <3>2. w # <<>> => ct[o] # w
      BY <1>11, <2>2, <3>1
    <3>3. ct[o] # e
      BY <1>9, <1>11, <2>2, <3>1
    <3> QED
      BY <1>13, <3>1, <3>2, <3>3
  <2> QED
    BY <2>1, <2>2
<1>17. \A o, p \in Owners : ct2[o] = ct2[p] /\ ct2[o] # <<>> => o = p
  <2> SUFFICES ASSUME NEW o \in Owners, NEW p \in Owners, ct2[o] = ct2[p], ct2[o] # <<>> PROVE o = p
    OBVIOUS
  <2>1. \A q \in Owners : ct[q] # c /\ ct2[q] # <<>> => ct2[q] = ct[q] /\ ct[q] \in K
    BY <1>1, <1>12
  <2>2. \A q \in Owners : ct[q] = c => ct2[q] = w
    BY <1>12
  <2>3. CASE ct[o] = c /\ ct[p] = c
    BY <1>1, <1>2, <1>3, <2>3
  <2>4. CASE ct[o] = c /\ ct[p] # c
    BY <1>11, <2>1, <2>2, <2>4
  <2>5. CASE ct[o] # c /\ ct[p] = c
    BY <1>11, <2>1, <2>2, <2>5
  <2>6. CASE ct[o] # c /\ ct[p] # c
    BY <1>2, <2>1, <2>6
  <2> QED
    BY <2>3, <2>4, <2>5, <2>6
<1>18. \A o \in Owners : h2.first[o] = IF ct2[o] = <<>> THEN Null ELSE ct2[o][1]
  <2> SUFFICES ASSUME NEW o \in Owners
               PROVE  h2.first[o] = IF ct2[o] = <<>> THEN Null ELSE ct2[o][1]
    OBVIOUS
  <2>1. h2.first[o] = IF h.first[o] = x THEN h.next[x] ELSE h.first[o]
    OBVIOUS
  <2>2. CASE ct[o] = c
    <3>1. ct2[o] = w /\ h.first[o] = c[1] /\ (c[1] = x <=> i = 1)
      BY <1>1, <1>2, <1>3, <1>4, <1>5, <1>12, <2>2
    <3>2. CASE i = 1
      <4>1. h2.first[o] = IF Len(c) = 1 THEN Null ELSE c[2]
        BY <1>5, <2>1, <3>1, <3>2
      <4> QED
        BY <1>10, <3>1, <3>2, <4>1
    <3>3. CASE i # 1
      <4>1. Len(c) # 1
        BY <1>b, <3>3
      <4> QED
        BY <1>10, <2>1, <3>1, <3>3, <4>1
    <3> QED
      BY <3>2, <3>3
  <2>3. CASE ct[o] # c
    <3>1. ct2[o] = ct[o]
      BY <1>12, <2>3
    <3>2. ct[o] # <<>> => ct[o] \in K /\ ct[o][1] # x
      BY <1>1, <1>11, <2>3
    <3>3. h.first[o] # x
      BY <1>2, <3>2 DEF Members
    <3> QED
      BY <1>2, <2>1, <3>1, <3>3
  <2> QED
    BY <2>2, <2>3
<1>19. hl2 \cap Nodes = {b[1] : b \in lo2}
  <2>1. x \in hl <=> c \in lo /\ i = 1
    <3>1. x \in hl <=> \E b \in lo : b[1] = x
      BY <1>2 DEF Members
    <3>2. c[1] = x <=> i = 1
      BY <1>1, <1>3, <1>4, <1>5
    <3> QED
      BY <1>1, <1>11, <3>1, <3>2
  <2>2. h.next[x] = IF i = Len(c) THEN Null ELSE c[i + 1]
    BY <1>5
  <2>3. \A y : y \in {b[1] : b \in lo2} <=>
              (\E b \in lo : b # c /\ y = b[1]) \/ (c \in lo /\ w # <<>> /\ y = w[1]) \/ y = x
    BY <1>9, <1>13
  <2>4. \A y : y \in {b[1] : b \in lo} <=> (\E b \in lo : b # c /\ y = b[1]) \/ (c \in lo /\ y = c[1])
    OBVIOUS
  <2>5. CASE c \notin lo
    BY <1>2, <2>1, <2>3, <2>4, <2>5
  <2>6. CASE c \in lo /\ i = 1
    <3>1. c[1] = x /\ (Len(c) = 1 => h.next[x] = Null) /\ (Len(c) # 1 => h.next[x] = c[2] /\ c[2] # Null)
      <4>1. Len(c) # 1 => 2 \in 1..Len(c)
        BY <1>10
      <4>2. Len(c) # 1 => c[2] \in Nodes
        BY <1>1, <1>3, <4>1, ElementOfSeq
      <4> QED
        BY <1>2, <1>4, <2>2, <2>6, <4>2
    <3>2. hl2 \cap Nodes = (hl \cap Nodes) \cup {x} \cup (IF Len(c) # 1 THEN {c[2]} ELSE {})
      BY <2>1, <2>6, <3>1
    <3>3. w # <<>> <=> Len(c) # 1
      BY <1>10
    <3>4. w # <<>> => w[1] = c[2]
      BY <1>10, <2>6
    <3> QED
      BY <1>2, <2>3, <2>4, <2>6, <3>1, <3>2, <3>3, <3>4
  <2>7. CASE c \in lo /\ i # 1
    <3>1. w # <<>> /\ w[1] = c[1]
      BY <1>b, <1>10, <2>7
    <3>2. hl2 \cap Nodes = (hl \cap Nodes) \cup {x}
      BY <2>1, <2>7
    <3> QED
      BY <1>2, <2>3, <2>4, <2>7, <3>1, <3>2
  <2> QED
    BY <2>5, <2>6, <2>7
<1>20. Chained(h2, Listed(ct2, lo2))
  BY <1>14, <1>15
<1>21. Represents(h2, hl2, ct2, lo2)
  BY <1>12, <1>16, <1>17, <1>18, <1>19, <1>20 DEF Represents
<1> QED
  BY <1>21 DEF ct2, lo2, W, e

-----------------------------------------------------------------------------
(* What the operators on the heap do to the lists.                           *)

LEMMA Disjoint ==
    /\ Decls \cap Stmts = {} /\ Sheets \cap Nodes = {} /\ Sheets \cap Decls = {}
    /\ Sheets \cap Stmts = {} /\ Null \notin Objects /\ Null \notin Nodes /\ Null \notin Owners
    /\ Nodes \subseteq Objects /\ Owners \subseteq Objects /\ Sheets \subseteq Owners
    /\ Stmts = Owners \cap Nodes /\ Decls \cap Owners = {}
BY StatementAssumption DEF Nodes, Owners, Objects

\* The fields that are no links.
SameData(h, h2) == /\ h2.live = h.live /\ h2.kind = h.kind /\ h2.sel = h.sel
                   /\ h2.parent = h.parent /\ h2.refs = h.refs

LEMMA AppendedIs ==
    ASSUME NEW h \in Heaps, NEW hl, NEW ct, NEW lo, Represents(h, hl, ct, lo),
           NEW a \in Listed(ct, lo), NEW b \in Listed(ct, lo), a # b
    PROVE  /\ Appended(h, a[1], b[1]) \in Heaps /\ LinkedBehind(h, Appended(h, a[1], b[1]), a, b)
           /\ SameData(h, Appended(h, a[1], b[1]))
           /\ Appended(h, a[1], b[1]).first = h.first
<1>1. /\ a \in Seq(Nodes) /\ Len(a) \in Nat \ {0} /\ a[1] \in Nodes /\ b[1] \in Nodes
      /\ Chained(h, Listed(ct, lo))
  BY ListsApart
<1>2. From(h, a[1]) = a
  BY <1>1, HeadOfChain
<1> DEFINE t == a[Len(a)]
           n == b[1]
           h2 == [h EXCEPT !.next[t] = n, !.prev[n] = t]
<1>3. t \in Nodes
  <2>1. Len(a) \in 1..Len(a)
    BY <1>1
  <2> QED
    BY <1>1, <2>1, ElementOfSeq
<1>4. Appended(h, a[1], b[1]) = h2
  BY <1>1, <1>2, Disjoint DEF Appended, Last
<1> HIDE DEF t
<1>5. /\ h2 \in Heaps /\ h2.first = h.first /\ SameData(h, h2)
      /\ h2.next = [h.next EXCEPT ![t] = n] /\ h2.prev = [h.prev EXCEPT ![n] = t]
  BY <1>1, <1>3 DEF Heaps, SameData
<1>6. LinkedBehind(h, h2, a, b)
  BY <1>1, <1>3, <1>5 DEF LinkedBehind, SameData, Members, Heaps, t
<1> QED
  BY <1>4, <1>5, <1>6

LEMMA JoinedIs ==
    ASSUME NEW h \in Heaps, NEW hl, NEW ct, NEW lo, Represents(h, hl, ct, lo),
           NEW a \in lo, NEW b \in lo, a # b
    PROVE  /\ Appended(h, a[1], b[1]) \in Heaps /\ SameData(h, Appended(h, a[1], b[1]))
           /\ Represents(Appended(h, a[1], b[1]), hl \ {b[1]}, ct, (lo \ {a, b}) \cup {a \o b})
<1> DEFINE h2 == Appended(h, a[1], b[1])
<1>1. a \in Listed(ct, lo) /\ b \in Listed(ct, lo)
  BY ListsApart
<1>2. h2 \in Heaps /\ LinkedBehind(h, h2, a, b) /\ SameData(h, h2) /\ h2.first = h.first
  BY <1>1, AppendedIs
<1> HIDE DEF h2
<1>3. \A p \in Owners : h2.first[p] = h.first[p]
  BY <1>2
<1>4. \A p \in Owners : p \in h.live => p \in h2.live
  BY <1>2 DEF SameData
<1>5. (hl \ {b[1]}) \cap Nodes = (hl \cap Nodes) \ {b[1]}
  OBVIOUS
<1>6. Represents(h2, hl \ {b[1]}, ct, (lo \ {a, b}) \cup {a \o b})
  BY <1>2, <1>3, <1>4, <1>5, ListsJoined
<1> QED
  BY <1>2, <1>6 DEF h2

LEMMA GivenIs ==
    ASSUME NEW h \in Heaps, NEW hl, NEW ct, NEW lo, Represents(h, hl, ct, lo),
           NEW o \in Owners, o \in h.live, NEW b \in lo
    PROVE  /\ AppendedIn(h, o, b[1]) \in Heaps /\ SameData(h, AppendedIn(h, o, b[1]))
           /\ Represents(AppendedIn(h, o, b[1]), hl \ {b[1]}, [ct EXCEPT ![o] = @ \o b], lo \ {b})
           /\ AppendedIn(h, o, b[1]).next[b[1]] = h.next[b[1]]
<1> DEFINE h2 == AppendedIn(h, o, b[1])
<1>1. /\ b \in Listed(ct, lo) /\ b \in Seq(Nodes) /\ b[1] \in Nodes
      /\ \A p \in Owners : b # ct[p]
      /\ ct[o] # <<>> => ct[o] \in Listed(ct, lo)
      /\ Len(b) \in Nat \ {0}
  BY ListsApart
<1>2. (hl \ {b[1]}) \cap Nodes = (hl \cap Nodes) \ {b[1]}
  OBVIOUS
<1>a. \A p \in Owners : h.first[p] = IF ct[p] = <<>> THEN Null ELSE ct[p][1]
  BY DEF Represents
<1>b. ct \in [Owners -> Seq(Nodes)]
  BY DEF Represents
<1>3. CASE ct[o] = <<>>
  <2>1. h.first[o] = Null
    BY <1>3, <1>a
  <2>2. h2 = [h EXCEPT !.first[o] = b[1]]
    BY <2>1 DEF AppendedIn, Appended, FirstOf
  <2>3. /\ h2 \in Heaps /\ SameData(h, h2) /\ h2.next = h.next /\ h2.prev = h.prev
        /\ h2.first = [h.first EXCEPT ![o] = b[1]]
    <3> DEFINE e == [h EXCEPT !.first[o] = b[1]]
    <3>1. /\ e \in Heaps /\ SameData(h, e) /\ e.next = h.next /\ e.prev = h.prev
          /\ e.first = [h.first EXCEPT ![o] = b[1]]
      BY <1>1 DEF Heaps, SameData
    <3> HIDE DEF h2
    <3> QED
      BY <2>2, <3>1
  <2> HIDE DEF h2
  <2>4. /\ SameLinks(h, h2) /\ o \in h2.live
        /\ \A p \in Owners : p \in h.live => p \in h2.live
    BY <2>3 DEF SameLinks, SameData, Members
  <2>5. \A p \in Owners : h2.first[p] = IF p = o THEN b[1] ELSE h.first[p]
    BY <2>3 DEF Heaps
  <2>6. Represents(h2, hl \ {b[1]}, [ct EXCEPT ![o] = b], lo \ {b})
    BY <1>2, <1>3, <2>4, <2>5, ListOwned
  <2>7. <<>> \o b = b
    BY <1>1, ConcatEmptySeq
  <2>8. [ct EXCEPT ![o] = b] = [ct EXCEPT ![o] = @ \o b]
    BY <1>3, <2>7
  <2> QED
    BY <2>3, <2>6, <2>8 DEF h2
<1>4. CASE ct[o] # <<>>
  <2> DEFINE h1 == Appended(h, h.first[o], b[1])
  <2>1. h.first[o] = ct[o][1] /\ ct[o] # b
    BY <1>1, <1>4, <1>a
  <2>2. h1 \in Heaps /\ LinkedBehind(h, h1, ct[o], b) /\ SameData(h, h1) /\ h1.first = h.first
    BY <1>1, <1>4, <2>1, AppendedIs
  <2>3. h.first[o] # Null
    <3>1. ct[o][1] \in Nodes
      BY <1>1, <1>4, ListsApart
    <3> QED
      BY <2>1, <3>1, Disjoint
  <2> HIDE DEF h1
  <2>4. h2 = [h1 EXCEPT !.first[o] = h.first[o]]
    BY <2>2, <2>3 DEF AppendedIn, FirstOf, h1
  <2>5. /\ h2 \in Heaps /\ SameData(h, h2) /\ h2.first = h.first
        /\ h2.next = h1.next /\ h2.prev = h1.prev /\ h2.live = h1.live
    BY <2>2, <2>4 DEF Heaps, SameData
  <2> HIDE DEF h2
  <2>6. LinkedBehind(h, h2, ct[o], b)
    BY <2>2, <2>5 DEF LinkedBehind, Members
  <2>7. /\ \A p \in Owners : h2.first[p] = h.first[p]
        /\ \A p \in Owners : p \in h.live => p \in h2.live
    BY <2>5 DEF SameData
  <2>8. Represents(h2, hl \ {b[1]}, [ct EXCEPT ![o] = @ \o b], lo \ {b})
    BY <1>2, <1>4, <2>6, <2>7, ListExtended
  <2>9. h2.next[b[1]] = h.next[b[1]]
    <3>1. ct[o] \in Listed(ct, lo) /\ Chained(h, Listed(ct, lo)) /\ 1 \in 1..Len(b) /\ Len(ct[o]) \in 1..Len(ct[o])
      <4>1. ct[o] \in Listed(ct, lo) /\ Chained(h, Listed(ct, lo)) /\ 1 \in 1..Len(b)
        BY <1>1, <1>4, ListsApart
      <4>2. Len(ct[o]) \in Nat \ {0}
        BY <4>1, ListsApart
      <4> QED
        BY <4>1, <4>2
    <3>2. b[1] # ct[o][Len(ct[o])]
      BY <1>1, <2>1, <3>1 DEF Chained
    <3> QED
      BY <1>1, <2>6, <3>2 DEF LinkedBehind
  <2> QED
    BY <2>5, <2>8, <2>9 DEF h2
<1> QED
  BY <1>3, <1>4

LEMMA UnlinkedIs ==
    ASSUME NEW h \in Heaps, NEW hl, NEW ct, NEW lo, Represents(h, hl, ct, lo),
           NEW x \in Members(h), \A o \in Owners : h.first[o] = x => h.parent[x] = o
    PROVE  /\ Unlinked(h, x) \in Heaps
           /\ Unlinked(h, x).live = h.live /\ Unlinked(h, x).kind = h.kind
           /\ Unlinked(h, x).refs = h.refs
           /\ \A y \in Nodes : Unlinked(h, x).parent[y] = IF y = x THEN Null ELSE h.parent[y]
           /\ Represents(Unlinked(h, x),
                         hl \cup {x} \cup (IF x \in hl /\ h.next[x] # Null THEN {h.next[x]} ELSE {}),
                         [o \in Owners |-> Lists!Without(ct[o], x)],
                         ({Lists!Without(b, x) : b \in lo} \ {<<>>}) \cup {<<x>>})
<1> DEFINE next == h.next[x]
           prev == h.prev[x]
           own == h.parent[x]
           h1 == IF prev = Null THEN h ELSE [h EXCEPT !.next[prev] = next]
           h2 == IF next = Null THEN h1 ELSE [h1 EXCEPT !.prev[next] = prev]
           h3 == IF own # Null /\ h.first[own] = x THEN [h2 EXCEPT !.first[own] = next] ELSE h2
           h4 == [h3 EXCEPT !.next[x] = Null, !.prev[x] = Null, !.parent[x] = Null]
<1>1. Unlinked(h, x) = h4
  BY DEF Unlinked
<1>2. /\ x \in Nodes /\ next \in Nodes \cup {Null} /\ prev \in Nodes \cup {Null}
      /\ own \in Owners \cup {Null} /\ Null \notin Nodes /\ Null \notin Owners
  BY Disjoint DEF Heaps, Members
<1> HIDE DEF next, prev, own
<1>3. /\ h1 \in Heaps /\ h1.live = h.live /\ h1.kind = h.kind /\ h1.refs = h.refs
      /\ h1.first = h.first /\ h1.prev = h.prev /\ h1.parent = h.parent
      /\ \A y \in Nodes : h1.next[y] = IF y = prev THEN next ELSE h.next[y]
  <2>1. CASE prev = Null
    BY <1>2, <2>1
  <2>2. CASE prev # Null
    BY <1>2, <2>2 DEF Heaps
  <2> QED
    BY <2>1, <2>2
<1> HIDE DEF h1
<1>4. /\ h2 \in Heaps /\ h2.live = h.live /\ h2.kind = h.kind /\ h2.refs = h.refs
      /\ h2.first = h.first /\ h2.next = h1.next /\ h2.parent = h.parent
      /\ \A y \in Nodes : h2.prev[y] = IF y = next THEN prev ELSE h.prev[y]
  <2>1. CASE next = Null
    BY <1>2, <1>3, <2>1
  <2>2. CASE next # Null
    BY <1>2, <1>3, <2>2 DEF Heaps
  <2> QED
    BY <2>1, <2>2
<1> HIDE DEF h2
<1>5. /\ h3 \in Heaps /\ h3.live = h.live /\ h3.kind = h.kind /\ h3.refs = h.refs
      /\ h3.prev = h2.prev /\ h3.next = h2.next /\ h3.parent = h.parent
      /\ \A o \in Owners : h3.first[o] = IF h.first[o] = x THEN next ELSE h.first[o]
  <2>1. CASE own # Null /\ h.first[own] = x
    <3>1. /\ own \in Owners
          /\ \A o \in Owners : h.first[o] = x <=> o = own
      BY <1>2, <2>1 DEF own
    <3>2. h3 = [h2 EXCEPT !.first[own] = next]
      BY <2>1
    <3>a. h2.first = h.first /\ h2.first \in [Owners -> Nodes \cup {Null}]
      BY <1>4 DEF Heaps
    <3>3. /\ h3 \in Heaps /\ h3.first = [h2.first EXCEPT ![own] = next]
          /\ h3.live = h2.live /\ h3.kind = h2.kind /\ h3.refs = h2.refs
          /\ h3.prev = h2.prev /\ h3.next = h2.next /\ h3.parent = h2.parent
      BY <1>2, <1>4, <3>1, <3>2 DEF Heaps
    <3>4. \A o \in Owners : h3.first[o] = IF h.first[o] = x THEN next ELSE h.first[o]
      BY <3>1, <3>3, <3>a
    <3> QED
      BY <1>4, <3>3, <3>4
  <2>2. CASE ~(own # Null /\ h.first[own] = x)
    <3>1. \A o \in Owners : h.first[o] # x
      BY <1>2, <2>2 DEF own
    <3> QED
      BY <1>4, <2>2, <3>1
  <2> QED
    BY <2>1, <2>2
<1> HIDE DEF h3
<1>6. /\ h4 \in Heaps /\ h4.live = h.live /\ h4.kind = h.kind /\ h4.refs = h.refs
      /\ h4.first = h3.first
      /\ h4.next = [h3.next EXCEPT ![x] = Null] /\ h4.prev = [h3.prev EXCEPT ![x] = Null]
      /\ h4.parent = [h3.parent EXCEPT ![x] = Null]
  BY <1>2, <1>5 DEF Heaps
<1> HIDE DEF h4
<1>7. LinkedWithout(h, h4, x)
  <2>1. \A y \in Nodes : /\ h4.next[y] = IF y = x THEN Null ELSE h3.next[y]
                         /\ h4.prev[y] = IF y = x THEN Null ELSE h3.prev[y]
    BY <1>5, <1>6 DEF Heaps
  <2> QED
    BY <1>3, <1>4, <1>5, <1>6, <2>1 DEF LinkedWithout, Members, next, prev
<1>8. \A y \in Nodes : h4.parent[y] = IF y = x THEN Null ELSE h.parent[y]
  BY <1>5, <1>6 DEF Heaps
<1> DEFINE hl2 == hl \cup {x} \cup (IF x \in hl /\ h.next[x] # Null THEN {h.next[x]} ELSE {})
<1>9. hl2 \cap Nodes = (hl \cap Nodes) \cup {x}
                          \cup (IF x \in hl /\ h.next[x] # Null THEN {h.next[x]} ELSE {})
  BY <1>2 DEF next
<1>10. \A o \in Owners : h4.first[o] = IF h.first[o] = x THEN h.next[x] ELSE h.first[o]
  BY <1>5, <1>6 DEF next
<1>11. \A o \in Owners : o \in h.live => o \in h4.live
  BY <1>6
<1> HIDE DEF hl2
<1>12. Represents(h4, hl2, [o \in Owners |-> Lists!Without(ct[o], x)],
                  ({Lists!Without(b, x) : b \in lo} \ {<<>>}) \cup {<<x>>})
  BY <1>7, <1>9, <1>10, <1>11, ListParted
<1> QED
  BY <1>1, <1>6, <1>8, <1>12 DEF hl2

LEMMA FreedIs ==
    ASSUME NEW h \in Heaps, NEW S
    PROVE  /\ Freed(h, S) \in Heaps /\ Freed(h, S).live = h.live \ S
           /\ \A s \in Stmts :
                 /\ Freed(h, S).kind[s] = IF s \in S THEN "none" ELSE h.kind[s]
                 /\ Freed(h, S).media[s] = IF s \in S THEN Null ELSE h.media[s]
           /\ \A x \in Nodes :
                 /\ Freed(h, S).next[x] = IF x \in S THEN Null ELSE h.next[x]
                 /\ Freed(h, S).prev[x] = IF x \in S THEN Null ELSE h.prev[x]
                 /\ Freed(h, S).parent[x] = IF x \in S THEN Null ELSE h.parent[x]
           /\ \A o \in Owners : Freed(h, S).first[o] = IF o \in S THEN Null ELSE h.first[o]
           /\ \A x \in Decls \cup Sheets : Freed(h, S).refs[x] = IF x \in S THEN 0 ELSE h.refs[x]
<1> DEFINE C(f, v) == [x \in DOMAIN f |-> IF x \in S THEN v ELSE f[x]]
<1>1. ASSUME NEW X, NEW Y, NEW f \in [X -> Y], NEW v \in Y
      PROVE  C(f, v) \in [X -> Y] /\ \A x \in X : C(f, v)[x] = IF x \in S THEN v ELSE f[x]
  OBVIOUS
<1>2. Freed(h, S) = [live |-> h.live \ S, kind |-> C(h.kind, "none"), sel |-> C(h.sel, FALSE),
                     media |-> C(h.media, Null), next |-> C(h.next, Null), prev |-> C(h.prev, Null),
                     parent |-> C(h.parent, Null), first |-> C(h.first, Null),
                     refs |-> C(h.refs, 0)]
  BY DEF Freed
<1>3. /\ h.live \subseteq Objects /\ h.kind \in [Stmts -> Kinds \cup {"none"}]
      /\ h.sel \in [Stmts -> BOOLEAN] /\ h.media \in [Stmts -> Stmts \cup {Null}]
      /\ h.next \in [Nodes -> Nodes \cup {Null}]
      /\ h.prev \in [Nodes -> Nodes \cup {Null}] /\ h.parent \in [Nodes -> Owners \cup {Null}]
      /\ h.first \in [Owners -> Nodes \cup {Null}] /\ h.refs \in [Decls \cup Sheets -> Nat]
  BY DEF Heaps
<1>4. /\ C(h.kind, "none") \in [Stmts -> Kinds \cup {"none"}]
      /\ \A x \in Stmts : C(h.kind, "none")[x] = IF x \in S THEN "none" ELSE h.kind[x]
  BY <1>3
<1>5. /\ C(h.sel, FALSE) \in [Stmts -> BOOLEAN]
      /\ C(h.media, Null) \in [Stmts -> Stmts \cup {Null}]
      /\ \A x \in Stmts : C(h.media, Null)[x] = IF x \in S THEN Null ELSE h.media[x]
  BY <1>3
<1>6. /\ C(h.next, Null) \in [Nodes -> Nodes \cup {Null}]
      /\ \A x \in Nodes : C(h.next, Null)[x] = IF x \in S THEN Null ELSE h.next[x]
  BY <1>3
<1>7. /\ C(h.prev, Null) \in [Nodes -> Nodes \cup {Null}]
      /\ \A x \in Nodes : C(h.prev, Null)[x] = IF x \in S THEN Null ELSE h.prev[x]
  BY <1>3
<1>8. /\ C(h.parent, Null) \in [Nodes -> Owners \cup {Null}]
      /\ \A x \in Nodes : C(h.parent, Null)[x] = IF x \in S THEN Null ELSE h.parent[x]
  BY <1>3
<1>9. /\ C(h.first, Null) \in [Owners -> Nodes \cup {Null}]
      /\ \A x \in Owners : C(h.first, Null)[x] = IF x \in S THEN Null ELSE h.first[x]
  BY <1>3
<1>10. /\ C(h.refs, 0) \in [Decls \cup Sheets -> Nat]
       /\ \A x \in Decls \cup Sheets : C(h.refs, 0)[x] = IF x \in S THEN 0 ELSE h.refs[x]
  BY <1>3
<1> HIDE DEF C
<1>11. Freed(h, S) \in Heaps
  <2>1. /\ h.live \ S \in SUBSET Objects
        /\ C(h.kind, "none") \in [Stmts -> Kinds \cup {"none"}]
        /\ C(h.sel, FALSE) \in [Stmts -> BOOLEAN]
        /\ C(h.media, Null) \in [Stmts -> Stmts \cup {Null}]
        /\ C(h.next, Null) \in [Nodes -> Nodes \cup {Null}]
        /\ C(h.prev, Null) \in [Nodes -> Nodes \cup {Null}]
        /\ C(h.parent, Null) \in [Nodes -> Owners \cup {Null}]
        /\ C(h.first, Null) \in [Owners -> Nodes \cup {Null}]
        /\ C(h.refs, 0) \in [Decls \cup Sheets -> Nat]
    BY <1>3, <1>4, <1>5, <1>6, <1>7, <1>8, <1>9, <1>10
  <2>2. ASSUME NEW l \in SUBSET Objects, NEW k \in [Stmts -> Kinds \cup {"none"}],
               NEW e \in [Stmts -> BOOLEAN], NEW m \in [Stmts -> Stmts \cup {Null}],
               NEW n \in [Nodes -> Nodes \cup {Null}],
               NEW p \in [Nodes -> Nodes \cup {Null}], NEW o \in [Nodes -> Owners \cup {Null}],
               NEW f \in [Owners -> Nodes \cup {Null}], NEW r \in [Decls \cup Sheets -> Nat]
        PROVE  [live |-> l, kind |-> k, sel |-> e, media |-> m, next |-> n,
                prev |-> p, parent |-> o, first |-> f, refs |-> r] \in Heaps
    BY DEF Heaps
  <2>3. [live |-> h.live \ S, kind |-> C(h.kind, "none"), sel |-> C(h.sel, FALSE),
         media |-> C(h.media, Null), next |-> C(h.next, Null), prev |-> C(h.prev, Null), parent |-> C(h.parent, Null),
         first |-> C(h.first, Null), refs |-> C(h.refs, 0)] \in Heaps
    BY <2>1, <2>2
  <2> QED
    BY <1>2, <2>3, Zenon
<1> QED
  BY <1>2, <1>4, <1>5, <1>6, <1>7, <1>8, <1>9, <1>10, <1>11

-----------------------------------------------------------------------------
(* What keeps the heap consistent.                                           *)

LEMMA SheetsKept ==
    ASSUME NEW h, NEW hl, NEW cn, NEW sl, SheetCounts(h, hl, cn, sl), NEW h2, NEW hl2,
           \A t \in Sheets : /\ h2.refs[t] = h.refs[t] /\ (t \in hl2 <=> t \in hl)
                             /\ t \in h2.live <=> t \in h.live
    PROVE  SheetCounts(h2, hl2, cn, sl)
BY DEF SheetCounts

\* No pointer of a list is changed, and no count that must not be.
DataOnly(h, hl, h2) ==
    /\ h2.live = h.live /\ h2.kind = h.kind
    /\ h2.next = h.next /\ h2.prev = h.prev /\ h2.first = h.first
    /\ \A x \in Members(h) : h2.parent[x] \in h.live \cup {Null}
    /\ \A d \in Decls : IF d \in h.live \ hl THEN h2.refs[d] <= 1
                         ELSE d \notin h.live => h2.refs[d] = 0

LEMMA DataChanged ==
    ASSUME NEW h, NEW hl, NEW cn, NEW sl, NEW ct, NEW lo, Consistent(h, hl, cn, sl, ct, lo),
           NEW h2 \in Heaps, NEW hl2, NEW cn2 \in [Sheets -> Nat],
           NEW sl2 \in [Origins -> Sheets \cup {Null}],
           DataOnly(h, hl, h2), hl2 \subseteq h.live, hl2 \cap Nodes = hl \cap Nodes,
           SheetCounts(h2, hl2, cn2, sl2)
    PROVE  Consistent(h2, hl2, cn2, sl2, ct, lo)
<1>0. /\ h2.live = h.live /\ h2.kind = h.kind
      /\ h2.next = h.next /\ h2.prev = h.prev /\ h2.first = h.first
      /\ \A x \in Members(h) : h2.parent[x] \in h.live \cup {Null}
      /\ \A d \in Decls : IF d \in h.live \ hl THEN h2.refs[d] <= 1
                           ELSE d \notin h.live => h2.refs[d] = 0
  BY DEF DataOnly
<1>1. SameLinks(h, h2)
  BY <1>0 DEF SameLinks, Members
<1>2. Represents(h2, hl2, ct, lo)
  <2>1. /\ \A o \in Owners : h2.first[o] = h.first[o]
        /\ \A o \in Owners : o \in h.live => o \in h2.live
    BY <1>0
  <2>2. Represents(h, hl, ct, lo)
    BY DEF Consistent
  <2> QED
    BY <1>1, <2>1, <2>2, ListsKept
<1>3. Sorted(h2, ct, lo)
  <2>1. \A o \in Owners : MayHold(h2, o) = MayHold(h, o)
    BY <1>0 DEF MayHold
  <2> QED
    BY <2>1 DEF Consistent, Sorted
<1>4. Named(h2)
  <2>1. \A s \in Stmts \ h.live : h2.kind[s] = "none"
    BY <1>0 DEF Consistent, Named, ParentsLive, Blank
  <2>2. \A t \in Sheets : t \notin h.live => h2.refs[t] = 0
    <3>1. \A t \in Sheets : h2.refs[t] \in Nat
      BY DEF Heaps
    <3>2. \A t \in Sheets : t \notin h.live => ~(h2.refs[t] > 0)
      BY <1>0 DEF SheetCounts
    <3> QED
      BY <3>1, <3>2
  <2> QED
    BY <1>0, <2>1, <2>2 DEF Named, ParentsLive, Blank, Members
<1>5. ListCounts(h2, hl2)
  <2>1. \A d \in Decls : d \in hl2 <=> d \in hl
    BY Disjoint DEF Nodes
  <2> QED
    BY <1>0, <2>1 DEF ListCounts, Heaps
<1> QED
  BY <1>0, <1>2, <1>3, <1>4, <1>5 DEF Consistent

LEMMA NodeMade ==
    ASSUME NEW h, NEW hl, NEW cn, NEW sl, NEW ct, NEW lo, Consistent(h, hl, cn, sl, ct, lo),
           NEW d \in Decls, d \notin h.live, NEW p \in h.live \cup {Null}, p \in Owners \cup {Null}
    PROVE  Consistent([Allocated(h, d) EXCEPT !.parent[d] = p],
                      hl \cup {d}, cn, sl, ct, lo \cup {<<d>>})
<1> DEFINE h2 == [Allocated(h, d) EXCEPT !.parent[d] = p]
           hl2 == hl \cup {d}
           lo2 == lo \cup {<<d>>}
<1>1. /\ h \in Heaps /\ hl \subseteq h.live /\ Represents(h, hl, ct, lo)
      /\ Sorted(h, ct, lo) /\ Named(h) /\ ListCounts(h, hl) /\ SheetCounts(h, hl, cn, sl)
      /\ cn \in [Sheets -> Nat] /\ sl \in [Origins -> Sheets \cup {Null}]
  BY DEF Consistent
<1>2. d \in Nodes /\ d \in Objects /\ d \notin Sheets /\ d \notin Stmts
  BY Disjoint DEF Nodes
<1>3. /\ h2 \in Heaps /\ h2.live = h.live \cup {d} /\ h2.kind = h.kind
      /\ h2.next = h.next /\ h2.prev = h.prev /\ h2.first = h.first
      /\ h2.refs = h.refs
      /\ \A x \in Nodes : h2.parent[x] = IF x = d THEN p ELSE h.parent[x]
  BY <1>1, <1>2 DEF Allocated, Heaps
<1> HIDE DEF h2, hl2
<1>4. Represents(h2, hl2, ct, lo2)
  <2>1. hl2 \cap Nodes = (hl \cap Nodes) \cup {d}
    BY <1>2 DEF hl2
  <2>2. /\ \A x \in Nodes : h2.next[x] = h.next[x] /\ h2.prev[x] = h.prev[x]
        /\ \A o \in Owners : h2.first[o] = h.first[o]
    BY <1>3
  <2>3. h2.live = h.live \cup {d} /\ Represents(h, hl, ct, lo)
    BY <1>1, <1>3
  <2> QED
    BY <1>2, <2>1, <2>2, <2>3, ListMade
<1>5. Sorted(h2, ct, lo2)
  <2>1. \A o \in Owners : MayHold(h2, o) = MayHold(h, o)
    BY <1>3 DEF MayHold
  <2>2. <<d>> \in Seq(Decls)
    OBVIOUS
  <2>3. Range(<<d>>) \subseteq Decls
    BY <2>2, RangeIs
  <2> QED
    BY <1>1, <2>1, <2>3 DEF Sorted
<1>6. Named(h2)
  BY <1>1, <1>2, <1>3 DEF Named, ParentsLive, Blank, Members
<1>7. ListCounts(h2, hl2)
  BY <1>1, <1>3 DEF ListCounts, hl2
<1>8. SheetCounts(h2, hl2, cn, sl)
  <2>1. \A t \in Sheets : /\ h2.refs[t] = h.refs[t] /\ (t \in hl2 <=> t \in hl)
                          /\ t \in h2.live <=> t \in h.live
    BY <1>2, <1>3 DEF hl2
  <2> QED
    BY <1>1, <2>1, SheetsKept
<1>9. hl2 \subseteq h2.live
  BY <1>1, <1>3 DEF hl2
<1> QED
  BY <1>1, <1>3, <1>4, <1>5, <1>6, <1>7, <1>8, <1>9 DEF Consistent, h2, hl2

\* The list with first node x loses its place at the application.
LEMMA HandedOver ==
    ASSUME NEW h, NEW hl, NEW cn, NEW sl, NEW ct, NEW lo, Consistent(h, hl, cn, sl, ct, lo),
           NEW h2, SameData(h, h2), NEW x \in Nodes, x \in Decls => h.refs[x] <= 1
    PROVE  /\ Named(h2) /\ ListCounts(h2, hl \ {x}) /\ SheetCounts(h2, hl \ {x}, cn, sl)
           /\ hl \ {x} \subseteq h2.live
           /\ \A o \in Owners : MayHold(h2, o) = MayHold(h, o)
<1>1. /\ hl \subseteq h.live /\ Named(h) /\ ListCounts(h, hl) /\ SheetCounts(h, hl, cn, sl)
  BY DEF Consistent
<1>2. Named(h2)
  BY <1>1 DEF Named, ParentsLive, Blank, SameData, Members
<1>3. ListCounts(h2, hl \ {x})
  BY <1>1 DEF ListCounts, SameData
<1>4. x \notin Sheets
  BY Disjoint
<1>5. SheetCounts(h2, hl \ {x}, cn, sl)
  <2>1. \A t \in Sheets : /\ h2.refs[t] = h.refs[t] /\ (t \in hl \ {x} <=> t \in hl)
                          /\ t \in h2.live <=> t \in h.live
    BY <1>4 DEF SameData
  <2> QED
    BY <1>1, <2>1, SheetsKept
<1>6. hl \ {x} \subseteq h2.live
  BY <1>1 DEF SameData
<1>7. \A o \in Owners : MayHold(h2, o) = MayHold(h, o)
  BY DEF MayHold, SameData
<1> QED
  BY <1>2, <1>3, <1>5, <1>6, <1>7

LEMMA JoinedConsistent ==
    ASSUME NEW h, NEW hl, NEW cn, NEW sl, NEW ct, NEW lo, Consistent(h, hl, cn, sl, ct, lo),
           NEW a \in lo, NEW b \in lo, a # b, b[1] \in Decls => h.refs[b[1]] <= 1,
           NEW C \in {Decls, Stmts}, a[1] \in C, b[1] \in C
    PROVE  Consistent(Appended(h, a[1], b[1]), hl \ {b[1]}, cn, sl,
                      ct, (lo \ {a, b}) \cup {a \o b})
<1> DEFINE h2 == Appended(h, a[1], b[1])
           e == a \o b
           lo2 == (lo \ {a, b}) \cup {e}
<1>1. /\ h \in Heaps /\ Represents(h, hl, ct, lo) /\ Sorted(h, ct, lo)
      /\ cn \in [Sheets -> Nat] /\ sl \in [Origins -> Sheets \cup {Null}]
  BY DEF Consistent
<1>2. /\ h2 \in Heaps /\ SameData(h, h2)
      /\ Represents(h2, hl \ {b[1]}, ct, lo2)
  BY <1>1, JoinedIs
<1>3. /\ a \in Seq(Nodes) /\ b \in Seq(Nodes) /\ b[1] \in Nodes /\ b[1] \in Range(b) /\ a[1] \in Range(a)
  <2>1. a \in Seq(Nodes) /\ a[1] \in Range(a) /\ b \in Seq(Nodes) /\ b[1] \in Range(b)
    BY <1>1, ListsKnown
  <2> QED
    BY <2>1, RangeIs
<1>4. Range(e) = Range(a) \cup Range(b)
  BY <1>3, RangeConcatenation
<1> HIDE DEF h2, e
<1>5. /\ Named(h2) /\ ListCounts(h2, hl \ {b[1]}) /\ SheetCounts(h2, hl \ {b[1]}, cn, sl)
      /\ hl \ {b[1]} \subseteq h2.live
      /\ \A o \in Owners : MayHold(h2, o) = MayHold(h, o)
  BY <1>2, <1>3, HandedOver
<1>6. Sorted(h2, ct, lo2)
  <2>1. \A c \in lo : Range(c) \subseteq Decls \/ Range(c) \subseteq Stmts
    BY <1>1 DEF Sorted
  <2>2. Range(a) \subseteq C /\ Range(b) \subseteq C
    BY <1>3, <2>1, Disjoint
  <2>3. Range(e) \subseteq Decls \/ Range(e) \subseteq Stmts
    BY <1>4, <2>2
  <2> QED
    BY <1>1, <1>5, <2>1, <2>3 DEF Sorted
<1> QED
  BY <1>1, <1>2, <1>5, <1>6 DEF Consistent, h2, e

LEMMA GivenConsistent ==
    ASSUME NEW h, NEW hl, NEW cn, NEW sl, NEW ct, NEW lo, Consistent(h, hl, cn, sl, ct, lo),
           NEW o \in Owners, o \in h.live, NEW b \in lo, Range(b) \subseteq MayHold(h, o),
           b[1] \in Decls => h.refs[b[1]] <= 1
    PROVE  Consistent(AppendedIn(h, o, b[1]), hl \ {b[1]}, cn, sl,
                      [ct EXCEPT ![o] = @ \o b], lo \ {b})
<1> DEFINE h2 == AppendedIn(h, o, b[1])
           ct2 == [ct EXCEPT ![o] = @ \o b]
<1>1. /\ h \in Heaps /\ Represents(h, hl, ct, lo) /\ Sorted(h, ct, lo)
      /\ cn \in [Sheets -> Nat] /\ sl \in [Origins -> Sheets \cup {Null}]
      /\ ct \in [Owners -> Seq(Nodes)]
  BY DEF Consistent, Represents
<1>2. /\ h2 \in Heaps /\ SameData(h, h2)
      /\ Represents(h2, hl \ {b[1]}, ct2, lo \ {b})
  BY <1>1, GivenIs
<1>3. b \in Seq(Nodes) /\ b[1] \in Nodes
  <2>1. b \in Seq(Nodes) /\ b[1] \in Range(b)
    BY <1>1, ListsKnown
  <2> QED
    BY <2>1, RangeIs
<1>4. Range(ct[o] \o b) = Range(ct[o]) \cup Range(b)
  BY <1>1, <1>3, RangeConcatenation
<1> HIDE DEF h2
<1>5. /\ Named(h2) /\ ListCounts(h2, hl \ {b[1]}) /\ SheetCounts(h2, hl \ {b[1]}, cn, sl)
      /\ hl \ {b[1]} \subseteq h2.live
      /\ \A p \in Owners : MayHold(h2, p) = MayHold(h, p)
  BY <1>2, <1>3, HandedOver
<1>6. Sorted(h2, ct2, lo \ {b})
  <2>1. \A p \in Owners : ct2[p] = IF p = o THEN ct[o] \o b ELSE ct[p]
    BY <1>1
  <2> QED
    BY <1>1, <1>4, <1>5, <2>1 DEF Sorted
<1> QED
  BY <1>1, <1>2, <1>5, <1>6 DEF Consistent, h2

LEMMA WithoutRange ==
    ASSUME NEW h, NEW K, Chained(h, K), NEW c \in K, NEW x \in Range(c)
    PROVE  Range(Lists!Without(c, x)) \subseteq Range(c)
<1>1. c \in Seq(Nodes)
  BY DEF Chained
<1>2. PICK i \in 1..Len(c) : c[i] = x
  BY <1>1, RangeIs
<1>3. \A j \in 1..Len(c) : c[j] = c[i] => j = i
  BY DEF Chained
<1> DEFINE w == Lists!Without(c, x)
<1>4. /\ w \in Seq(Nodes) /\ Len(w) = Len(c) - 1
      /\ \A j \in 1..Len(c) - 1 : w[j] = IF j < i THEN c[j] ELSE c[j + 1]
  BY <1>1, <1>2, <1>3, WithoutIs
<1> HIDE DEF w
<1>5. SUFFICES ASSUME NEW y \in Range(w) PROVE y \in Range(c)
  BY DEF w
<1>6. PICK j \in 1..Len(w) : w[j] = y
  BY <1>4, RangeIs
<1>7. Len(c) \in Nat /\ j \in 1..Len(c) - 1
  BY <1>1, <1>4, <1>6
<1>8. y = c[j] \/ y = c[j + 1]
  BY <1>4, <1>6, <1>7
<1>9. j \in 1..Len(c) /\ j + 1 \in 1..Len(c)
  BY <1>7
<1> QED
  BY <1>1, <1>8, <1>9, RangeIs

LEMMA UnlinkedConsistent ==
    ASSUME NEW h, NEW hl, NEW cn, NEW sl, NEW ct, NEW lo, Consistent(h, hl, cn, sl, ct, lo),
           NEW x \in Members(h), \A o \in Owners : h.first[o] = x => h.parent[x] = o
    PROVE  Consistent(Unlinked(h, x),
                      hl \cup {x} \cup (IF x \in hl /\ h.next[x] # Null THEN {h.next[x]} ELSE {}),
                      cn, sl, [o \in Owners |-> Lists!Without(ct[o], x)],
                      ({Lists!Without(b, x) : b \in lo} \ {<<>>}) \cup {<<x>>})
<1> DEFINE h2 == Unlinked(h, x)
           hl2 == hl \cup {x} \cup (IF x \in hl /\ h.next[x] # Null THEN {h.next[x]} ELSE {})
           ct2 == [o \in Owners |-> Lists!Without(ct[o], x)]
           lo2 == ({Lists!Without(b, x) : b \in lo} \ {<<>>}) \cup {<<x>>}
<1>1. /\ h \in Heaps /\ hl \subseteq h.live /\ Represents(h, hl, ct, lo)
      /\ Sorted(h, ct, lo) /\ Named(h) /\ ListCounts(h, hl) /\ SheetCounts(h, hl, cn, sl)
      /\ cn \in [Sheets -> Nat] /\ sl \in [Origins -> Sheets \cup {Null}]
  BY DEF Consistent
<1>2. /\ h2 \in Heaps /\ h2.live = h.live /\ h2.kind = h.kind /\ h2.refs = h.refs
      /\ \A y \in Nodes : h2.parent[y] = IF y = x THEN Null ELSE h.parent[y]
      /\ Represents(h2, hl2, ct2, lo2)
  BY <1>1, UnlinkedIs
<1>3. x \in Nodes /\ x \in h.live /\ x \notin Sheets
  BY Disjoint DEF Members
<1>4. h.next[x] # Null => h.next[x] \in Nodes /\ h.next[x] \in h.live
  <2>1. Chained(h, Listed(ct, lo))
    BY <1>1 DEF Represents
  <2>2. PICK c \in Listed(ct, lo) : \E i \in 1..Len(c) : c[i] = x
    BY <2>1 DEF Chained
  <2>3. PICK i \in 1..Len(c) : c[i] = x
    BY <2>2
  <2>4. c \in Seq(Nodes) /\ Len(c) \in Nat \ {0}
    BY <2>1, HeadOfChain
  <2>5. h.next[x] = IF i = Len(c) THEN Null ELSE c[i + 1]
    BY <2>1, <2>3 DEF Chained
  <2>6. CASE i # Len(c)
    <3>1. i + 1 \in 1..Len(c)
      BY <2>4, <2>6
    <3> QED
      BY <2>1, <2>4, <2>5, <2>6, <3>1, ElementOfSeq DEF Chained
  <2> QED
    BY <2>5, <2>6
<1>5. hl \subseteq hl2 /\ hl2 \subseteq h2.live /\ \A t \in Sheets : t \in hl2 <=> t \in hl
  <2>1. h.next[x] # Null => h.next[x] \notin Sheets
    BY <1>4, Disjoint
  <2> QED
    BY <1>1, <1>2, <1>3, <1>4, <2>1
<1> HIDE DEF h2, hl2
<1>6. Sorted(h2, ct2, lo2)
  <2>1. \A o \in Owners : MayHold(h2, o) = MayHold(h, o)
    BY <1>2 DEF MayHold
  <2>2. \A o \in Owners : Range(ct2[o]) \subseteq Range(ct[o])
    <3> TAKE o \in Owners
    <3>1. ct[o] = <<>> \/ ct[o] \in Listed(ct, lo)
      BY DEF Listed
    <3>2. Range(Lists!Without(ct[o], x)) \subseteq Range(ct[o])
      <4>1. CASE x \in Range(ct[o])
        <5>1. ct[o] \in Listed(ct, lo)
          BY <3>1, <4>1, RangeIs, EmptySeq
        <5> QED
          BY <1>1, <4>1, <5>1, WithoutRange DEF Represents
      <4> QED
        BY <4>1, WithoutOther
    <3> QED
      BY <3>2
  <2>3. \A b \in lo : Range(Lists!Without(b, x)) \subseteq Range(b)
    <3> TAKE b \in lo
    <3>1. b \in Listed(ct, lo)
      BY DEF Listed
    <3>2. CASE x \in Range(b)
      BY <1>1, <3>1, <3>2, WithoutRange DEF Represents
    <3> QED
      BY <3>2, WithoutOther
  <2>4. Range(<<x>>) \subseteq Decls \/ Range(<<x>>) \subseteq Stmts
    <3>1. x \in Decls => <<x>> \in Seq(Decls)
      OBVIOUS
    <3>2. x \in Stmts => <<x>> \in Seq(Stmts)
      OBVIOUS
    <3>3. x \in Decls \/ x \in Stmts
      BY <1>3 DEF Nodes
    <3>4. x \in Decls => Range(<<x>>) \subseteq Decls
      BY <3>1, RangeIs
    <3>5. x \in Stmts => Range(<<x>>) \subseteq Stmts
      BY <3>2, RangeIs
    <3> QED
      BY <3>3, <3>4, <3>5
  <2>5. \A o \in Owners : Range(ct[o]) \subseteq MayHold(h, o)
    BY <1>1 DEF Sorted
  <2>6. \A b \in lo : Range(b) \subseteq Decls \/ Range(b) \subseteq Stmts
    BY <1>1 DEF Sorted
  <2>7. \A c \in lo2 : c = <<x>> \/ \E b \in lo : c = Lists!Without(b, x)
    OBVIOUS
  <2> HIDE DEF ct2, lo2
  <2>8. \A o \in Owners : Range(ct2[o]) \subseteq MayHold(h2, o)
    BY <2>1, <2>2, <2>5
  <2>9. \A c \in lo2 : Range(c) \subseteq Decls \/ Range(c) \subseteq Stmts
    <3> TAKE c \in lo2
    <3>1. CASE c = <<x>>
      BY <2>4, <3>1
    <3>2. ASSUME NEW b \in lo, c = Lists!Without(b, x)
          PROVE  Range(c) \subseteq Decls \/ Range(c) \subseteq Stmts
      BY <2>3, <2>6, <3>2
    <3> QED
      BY <2>7, <3>1, <3>2
  <2> QED
    BY <2>8, <2>9 DEF Sorted
<1>7. Named(h2)
  <2>1. \A y \in Members(h2) : h2.parent[y] \in h2.live \cup {Null}
    BY <1>1, <1>2 DEF Named, ParentsLive, Blank, Members
  <2> QED
    BY <1>1, <1>2, <2>1 DEF Named, ParentsLive, Blank
<1>8. ListCounts(h2, hl2)
  BY <1>1, <1>2, <1>5 DEF ListCounts
<1>9. SheetCounts(h2, hl2, cn, sl)
  <2>1. \A t \in Sheets : /\ h2.refs[t] = h.refs[t] /\ (t \in hl2 <=> t \in hl)
                          /\ t \in h2.live <=> t \in h.live
    BY <1>2, <1>5
  <2> QED
    BY <1>1, <2>1, SheetsKept
<1> QED
  BY <1>1, <1>2, <1>5, <1>6, <1>7, <1>8, <1>9 DEF Consistent, h2, hl2

\* What a statement of a kind may be made with.
Fits(h, kind, b) ==
    b # <<>> => IF kind \in Declaring THEN Range(b) \subseteq Decls
                ELSE kind = "media" /\ \A q \in Range(b) : q \in Stmts /\ h.kind[q] = "ruleset"

\* A new statement s, with the list that begins at l.
NewStatement(h, h2, s, kind, t, l) ==
    /\ h2.live = h.live \cup {s} /\ h2.next = h.next /\ h2.prev = h.prev
    /\ \A q \in Stmts : h2.kind[q] = IF q = s THEN kind ELSE h.kind[q]
    /\ \A x \in Nodes : h2.parent[x] = IF x = s THEN t ELSE h.parent[x]
    /\ \A o \in Owners : h2.first[o] = IF o = s THEN l ELSE h.first[o]
    /\ \A x \in Decls \cup Sheets : IF x = l THEN h2.refs[x] <= 1 ELSE h2.refs[x] = h.refs[x]

\* A statement is made, with a loose list in it or none.
LEMMA StatementMade ==
    ASSUME NEW h, NEW hl, NEW cn, NEW sl, NEW ct, NEW lo, Consistent(h, hl, cn, sl, ct, lo),
           NEW s \in Stmts, s \notin h.live, NEW kind \in Kinds,
           NEW t \in Sheets \cup {Null}, t \in h.live \cup {Null},
           NEW b \in lo \cup {<<>>}, NEW l, l = IF b = <<>> THEN Null ELSE b[1],
           Fits(h, kind, b), NEW h2 \in Heaps, NewStatement(h, h2, s, kind, t, l)
    PROVE  Consistent(h2, (hl \ {l}) \cup {s}, cn, sl,
                      IF b = <<>> THEN ct ELSE [ct EXCEPT ![s] = b], (lo \ {b}) \cup {<<s>>})
<1> DEFINE hl2 == (hl \ {l}) \cup {s}
           ct2 == IF b = <<>> THEN ct ELSE [ct EXCEPT ![s] = b]
           lo2 == (lo \ {b}) \cup {<<s>>}
<1>a. /\ h2.live = h.live \cup {s} /\ h2.next = h.next /\ h2.prev = h.prev
      /\ \A q \in Stmts : h2.kind[q] = IF q = s THEN kind ELSE h.kind[q]
      /\ \A x \in Nodes : h2.parent[x] = IF x = s THEN t ELSE h.parent[x]
      /\ \A o \in Owners : h2.first[o] = IF o = s THEN l ELSE h.first[o]
      /\ \A x \in Decls \cup Sheets : IF x = l THEN h2.refs[x] <= 1 ELSE h2.refs[x] = h.refs[x]
      /\ b # <<>> => IF kind \in Declaring THEN Range(b) \subseteq Decls
                     ELSE kind = "media" /\ \A q \in Range(b) : q \in Stmts /\ h.kind[q] = "ruleset"
  BY DEF NewStatement, Fits
<1>1. /\ h \in Heaps /\ hl \subseteq h.live /\ Represents(h, hl, ct, lo)
      /\ Sorted(h, ct, lo) /\ Named(h) /\ ListCounts(h, hl) /\ SheetCounts(h, hl, cn, sl)
      /\ cn \in [Sheets -> Nat] /\ sl \in [Origins -> Sheets \cup {Null}]
      /\ ct \in [Owners -> Seq(Nodes)]
  BY DEF Consistent, Represents
<1> USE <1>a
<1>2. /\ s \in Nodes /\ s \in Owners /\ s \in Objects /\ s \notin Sheets /\ s \notin Decls
  BY Disjoint DEF Nodes, Owners
<1>3. b \in lo => /\ b[1] \in Members(h) /\ b[1] \in Nodes /\ b[1] \in hl /\ b # <<>>
                  /\ Range(b) \subseteq Members(h) /\ b[1] \in Range(b)
  <2>1. b \in lo => /\ b[1] \in hl /\ b # <<>> /\ Range(b) \subseteq Members(h) /\ b[1] \in Range(b)
    BY <1>1, ListsKnown
  <2> QED
    BY <2>1 DEF Members
<1>4. l \notin Sheets /\ l # s
  <2>1. CASE b \in lo
    BY <1>2, <1>3, <2>1, Disjoint DEF Members
  <2>2. CASE b = <<>>
    BY <1>2, <2>2, Disjoint
  <2> QED
    BY <2>1, <2>2
<1>5. ct[s] = <<>> /\ h.first[s] = Null
  BY <1>1, <1>2 DEF Represents
<1>6. <<>> \notin lo
  BY <1>1, ListsApart
<1>7. Represents(h2, hl2, ct2, lo2)
  <2>1. CASE b = <<>>
    <3>1. hl2 \cap Nodes = (hl \cap Nodes) \cup {s}
      BY <1>1, <1>2, <2>1, Disjoint
    <3>2. /\ \A x \in Nodes : h2.next[x] = h.next[x] /\ h2.prev[x] = h.prev[x]
          /\ \A o \in Owners : h2.first[o] = h.first[o]
      BY <1>5, <2>1
    <3> HIDE DEF hl2
    <3>3. Represents(h2, hl2, ct, lo \cup {<<s>>})
      BY <1>1, <1>2, <3>1, <3>2, ListMade
    <3>4. lo2 = lo \cup {<<s>>} /\ ct2 = ct
      BY <1>6, <2>1
    <3> QED
      BY <3>3, <3>4
  <2>2. CASE b \in lo
    <3> DEFINE h1 == [h2 EXCEPT !.first = h.first]
               hl1 == hl \cup {s}
               lo1 == lo \cup {<<s>>}
    <3>1. /\ h1.live = h.live \cup {s} /\ h1.first = h.first
          /\ h1.next = h.next /\ h1.prev = h.prev
      BY DEF Heaps
    <3>2. hl1 \cap Nodes = (hl \cap Nodes) \cup {s}
      BY <1>2
    <3> HIDE DEF h1, hl1
    <3>3. /\ \A x \in Nodes : h1.next[x] = h.next[x] /\ h1.prev[x] = h.prev[x]
          /\ \A o \in Owners : h1.first[o] = h.first[o]
      BY <3>1
    <3>4. Represents(h1, hl1, ct, lo1)
      BY <1>1, <1>2, <3>1, <3>2, <3>3, ListMade
    <3>5. SameLinks(h1, h2)
      BY <3>1 DEF SameLinks, Members
    <3>6. \A p \in Owners : h2.first[p] = IF p = s THEN b[1] ELSE h1.first[p]
      BY <1>3, <2>2, <3>1
    <3>7. hl2 \cap Nodes = (hl1 \cap Nodes) \ {b[1]}
      BY <1>2, <1>3, <1>4, <2>2, <3>2
    <3>8. /\ s \in h2.live /\ b \in lo1 /\ \A p \in Owners : p \in h1.live => p \in h2.live
      BY <2>2, <3>1
    <3>9. Represents(h2, hl2, [ct EXCEPT ![s] = b], lo1 \ {b})
      <4> HIDE DEF hl2, lo1
      <4> QED
        BY <1>2, <1>5, <3>4, <3>5, <3>6, <3>7, <3>8, ListOwned
    <3>10. b # <<s>>
      <4>1. <<s>>[1] = s
        OBVIOUS
      <4> QED
        BY <1>3, <2>2, <4>1 DEF Members
    <3>11. lo1 \ {b} = lo2
      BY <3>10
    <3>12. ct2 = [ct EXCEPT ![s] = b]
      BY <1>3, <2>2
    <3> QED
      BY <3>9, <3>11, <3>12
  <2> QED
    BY <2>1, <2>2
<1>8. Sorted(h2, ct2, lo2)
  <2>1. h.kind[s] = "none"
    BY <1>1 DEF Named, ParentsLive, Blank
  <2>2. \A o \in Owners : MayHold(h, o) \subseteq MayHold(h2, o)
    <3> TAKE o \in Owners
    <3>1. CASE o \in Sheets
      BY <3>1 DEF MayHold
    <3>2. CASE o = s
      BY <1>2, <2>1, <3>2 DEF MayHold, Declaring
    <3>3. CASE o \notin Sheets /\ o # s
      <4>1. o \in Stmts /\ h2.kind[o] = h.kind[o]
        BY <3>3 DEF Owners
      <4>2. \A q \in Stmts : h.kind[q] = "ruleset" => h2.kind[q] = "ruleset"
        BY <2>1
      <4> QED
        BY <3>3, <4>1, <4>2 DEF MayHold
    <3> QED
      BY <3>1, <3>2, <3>3
  <2>3. b # <<>> => Range(b) \subseteq MayHold(h2, s)
    <3>1. h2.kind[s] = kind
      OBVIOUS
    <3>2. CASE kind \in Declaring
      BY <1>2, <3>1, <3>2 DEF MayHold
    <3>3. CASE kind \notin Declaring
      <4>1. \A q \in Stmts : h.kind[q] = "ruleset" => h2.kind[q] = "ruleset"
        BY <2>1
      <4> QED
        BY <1>2, <3>1, <3>3, <4>1 DEF MayHold
    <3> QED
      BY <3>2, <3>3
  <2>4. \A o \in Owners : Range(ct2[o]) \subseteq MayHold(h2, o)
    <3>1. \A o \in Owners : Range(ct[o]) \subseteq MayHold(h2, o)
      BY <1>1, <2>2 DEF Sorted
    <3>2. CASE b = <<>>
      BY <3>1, <3>2
    <3>3. CASE b # <<>>
      <4>1. \A o \in Owners : ct2[o] = IF o = s THEN b ELSE ct[o]
        BY <1>1, <3>3
      <4> QED
        BY <2>3, <3>1, <3>3, <4>1
    <3> QED
      BY <3>2, <3>3
  <2>5. Range(<<s>>) \subseteq Stmts
    <3>1. <<s>> \in Seq(Stmts)
      OBVIOUS
    <3> QED
      BY <3>1, RangeIs
  <2>6. \A c \in lo2 : Range(c) \subseteq Decls \/ Range(c) \subseteq Stmts
    BY <1>1, <2>5 DEF Sorted
  <2> QED
    BY <2>4, <2>6 DEF Sorted
<1>9. Named(h2)
  <2>1. \A x \in Members(h2) : h2.parent[x] \in h2.live \cup {Null}
    BY <1>1, <1>2 DEF Named, ParentsLive, Blank, Members
  <2>2. \A q \in Stmts \ h2.live : h2.kind[q] = "none"
    BY <1>1 DEF Named, ParentsLive, Blank
  <2>3. \A x \in (Decls \cup Sheets) \ h2.live : h2.refs[x] = 0
    <3>1. l \in Decls => l \in h.live
      <4>1. CASE b \in lo
        BY <1>3, <4>1 DEF Members
      <4>2. CASE b = <<>>
        BY <4>2, Disjoint DEF Nodes
      <4> QED
        BY <4>1, <4>2
    <3> QED
      BY <1>1, <1>4, <3>1 DEF Named, ParentsLive, Blank
  <2> QED
    BY <2>1, <2>2, <2>3 DEF Named, ParentsLive, Blank
<1>10. ListCounts(h2, hl2)
  <2> SUFFICES ASSUME NEW d \in Decls, d \notin hl2 PROVE h2.refs[d] <= 1
    BY DEF ListCounts
  <2>1. CASE d = l
    BY <2>1
  <2>2. CASE d # l
    BY <1>1, <2>2 DEF ListCounts
  <2> QED
    BY <2>1, <2>2
<1>11. SheetCounts(h2, hl2, cn, sl)
  <2>1. \A x \in Sheets : /\ h2.refs[x] = h.refs[x] /\ (x \in hl2 <=> x \in hl)
                          /\ x \in h2.live <=> x \in h.live
    BY <1>2, <1>4
  <2> QED
    BY <1>1, <2>1, SheetsKept
<1>12. hl2 \subseteq h2.live
  BY <1>1
<1> HIDE DEF hl2, ct2, lo2
<1>13. Consistent(h2, hl2, cn, sl, ct2, lo2)
  BY <1>1, <1>7, <1>8, <1>9, <1>10, <1>11, <1>12 DEF Consistent
<1> QED
  BY <1>13 DEF hl2, ct2, lo2

\* A sheet is made, with a loose list of statements in it or none.
LEMMA SheetMade ==
    ASSUME NEW h, NEW hl, NEW cn, NEW sl, NEW ct, NEW lo, Consistent(h, hl, cn, sl, ct, lo),
           NEW t \in Sheets, t \notin h.live,
           NEW b \in lo \cup {<<>>}, NEW l, l = IF b = <<>> THEN Null ELSE b[1],
           b # <<>> => Range(b) \subseteq Stmts
    PROVE  Consistent([Allocated(h, t) EXCEPT !.first[t] = l], (hl \ {l}) \cup {t}, cn, sl,
                      IF b = <<>> THEN ct ELSE [ct EXCEPT ![t] = b], lo \ {b})
<1> DEFINE h2 == [Allocated(h, t) EXCEPT !.first[t] = l]
           hl2 == (hl \ {l}) \cup {t}
           ct2 == IF b = <<>> THEN ct ELSE [ct EXCEPT ![t] = b]
           lo2 == lo \ {b}
<1>1. /\ h \in Heaps /\ hl \subseteq h.live /\ Represents(h, hl, ct, lo)
      /\ Sorted(h, ct, lo) /\ Named(h) /\ ListCounts(h, hl) /\ SheetCounts(h, hl, cn, sl)
      /\ cn \in [Sheets -> Nat] /\ sl \in [Origins -> Sheets \cup {Null}]
      /\ ct \in [Owners -> Seq(Nodes)]
  BY DEF Consistent, Represents
<1>2. t \in Owners /\ t \in Objects /\ t \notin Nodes
  BY Disjoint DEF Objects
<1>3. b \in lo => /\ b[1] \in Members(h) /\ b[1] \in Nodes /\ b[1] \in hl /\ b # <<>>
                  /\ Range(b) \subseteq Members(h) /\ b[1] \in Range(b)
  <2>1. b \in lo => /\ b[1] \in hl /\ b # <<>> /\ Range(b) \subseteq Members(h) /\ b[1] \in Range(b)
    BY <1>1, ListsKnown
  <2> QED
    BY <2>1 DEF Members
<1>4. l \notin Sheets /\ l \notin Decls /\ l \in Nodes \cup {Null}
  <2>1. CASE b \in lo
    BY <1>3, <2>1, Disjoint DEF Members
  <2>2. CASE b = <<>>
    BY <2>2, Disjoint DEF Nodes
  <2> QED
    BY <2>1, <2>2
<1>5. /\ h2 \in Heaps /\ h2.live = h.live \cup {t} /\ h2.next = h.next /\ h2.prev = h.prev
      /\ h2.kind = h.kind /\ h2.parent = h.parent /\ h2.refs = h.refs
      /\ \A o \in Owners : h2.first[o] = IF o = t THEN l ELSE h.first[o]
  BY <1>1, <1>2, <1>4 DEF Allocated, Heaps
<1>6. ct[t] = <<>> /\ h.first[t] = Null /\ <<>> \notin lo
  <2>1. <<>> \notin lo
    BY <1>1, ListsApart
  <2> QED
    BY <1>1, <1>2, <2>1 DEF Represents
<1> HIDE DEF h2
<1>7. SameLinks(h, h2) /\ \A p \in Owners : p \in h.live => p \in h2.live
  BY <1>2, <1>5 DEF SameLinks, Members
<1>8. Represents(h2, hl2, ct2, lo2)
  <2>1. CASE b = <<>>
    <3>1. hl2 \cap Nodes = hl \cap Nodes
      BY <1>1, <1>2, <2>1, Disjoint
    <3>2. \A o \in Owners : h2.first[o] = h.first[o]
      BY <1>5, <1>6, <2>1
    <3> HIDE DEF hl2
    <3>3. Represents(h2, hl2, ct, lo)
      BY <1>1, <1>7, <3>1, <3>2, ListsKept
    <3>4. lo2 = lo /\ ct2 = ct
      BY <1>6, <2>1
    <3> QED
      BY <3>3, <3>4
  <2>2. CASE b \in lo
    <3>1. \A p \in Owners : h2.first[p] = IF p = t THEN b[1] ELSE h.first[p]
      BY <1>3, <1>5, <2>2
    <3>2. hl2 \cap Nodes = (hl \cap Nodes) \ {b[1]}
      BY <1>2, <1>3, <2>2
    <3>3. t \in h2.live
      BY <1>5
    <3> HIDE DEF hl2
    <3>4. Represents(h2, hl2, [ct EXCEPT ![t] = b], lo \ {b})
      BY <1>1, <1>2, <1>6, <1>7, <2>2, <3>1, <3>2, <3>3, ListOwned
    <3>5. ct2 = [ct EXCEPT ![t] = b]
      BY <1>3, <2>2
    <3> QED
      BY <3>4, <3>5
  <2> QED
    BY <2>1, <2>2
<1>9. Sorted(h2, ct2, lo2)
  <2>1. \A o \in Owners : MayHold(h2, o) = MayHold(h, o)
    BY <1>5 DEF MayHold
  <2>2. b # <<>> => Range(b) \subseteq MayHold(h2, t)
    BY DEF MayHold
  <2>3. \A o \in Owners : Range(ct2[o]) \subseteq MayHold(h2, o)
    <3>1. \A o \in Owners : Range(ct[o]) \subseteq MayHold(h2, o)
      BY <1>1, <2>1 DEF Sorted
    <3>2. CASE b = <<>>
      BY <3>1, <3>2
    <3>3. CASE b # <<>>
      <4>1. \A o \in Owners : ct2[o] = IF o = t THEN b ELSE ct[o]
        BY <1>1, <3>3
      <4> QED
        BY <2>2, <3>1, <3>3, <4>1
    <3> QED
      BY <3>2, <3>3
  <2> QED
    BY <1>1, <2>3 DEF Sorted
<1>10. Named(h2)
  BY <1>1, <1>2, <1>5 DEF Named, ParentsLive, Blank, Members
<1>11. ListCounts(h2, hl2)
  <2>1. \A d \in Decls : d \notin hl2 => d \notin hl
    BY <1>4
  <2> HIDE DEF hl2
  <2> QED
    BY <1>1, <1>5, <2>1 DEF ListCounts
<1>12. SheetCounts(h2, hl2, cn, sl)
  <2>1. \A x \in Sheets : x # t => (x \in hl2 <=> x \in hl) /\ (x \in h2.live <=> x \in h.live)
    BY <1>4, <1>5
  <2>2. t \in hl2 /\ t \in h2.live /\ h2.refs[t] = 0
    BY <1>1, <1>5 DEF Named, ParentsLive, Blank
  <2> HIDE DEF hl2
  <2>3. \A x \in Sheets : h2.refs[x] = h.refs[x]
    BY <1>5
  <2>4. \A x \in Sheets : h2.refs[x] = cn[x] + Cardinality({o \in Origins : sl[o] = x})
    BY <1>1, <2>3 DEF SheetCounts
  <2>5. \A x \in Sheets : /\ x \in h.live <=> x \in hl \/ h.refs[x] > 0
                          /\ x \in hl => h.refs[x] = 0
    BY <1>1 DEF SheetCounts
  <2>6. \A x \in Sheets : /\ x \in h2.live <=> x \in hl2 \/ h2.refs[x] > 0
                          /\ x \in hl2 => h2.refs[x] = 0
    BY <2>1, <2>2, <2>3, <2>5
  <2> QED
    BY <2>4, <2>6 DEF SheetCounts
<1>13. hl2 \subseteq h2.live
  BY <1>1, <1>5
<1> HIDE DEF hl2, ct2, lo2
<1>14. Consistent(h2, hl2, cn, sl, ct2, lo2)
  BY <1>1, <1>5, <1>8, <1>9, <1>10, <1>11, <1>12, <1>13 DEF Consistent
<1> QED
  BY <1>14 DEF h2, hl2, ct2, lo2

LEMMA ConsistentIs ==
    ASSUME NEW h, NEW hl, NEW cn, NEW sl, NEW ct, NEW lo
    PROVE  Consistent(h, hl, cn, sl, ct, lo) <=> Intact(h, hl, cn, sl, ct, lo) /\ ParentsLive(h)
BY DEF Consistent, Intact, Named

\* The owner gives up its list to the application.
LEMMA DisownedConsistent ==
    ASSUME NEW h, NEW hl, NEW cn, NEW sl, NEW ct, NEW lo, Consistent(h, hl, cn, sl, ct, lo),
           NEW o \in Owners, ct[o] # <<>>
    PROVE  Consistent([h EXCEPT !.first[o] = Null], hl \cup {ct[o][1]}, cn, sl,
                      [ct EXCEPT ![o] = <<>>], lo \cup {ct[o]})
<1> DEFINE h2 == [h EXCEPT !.first[o] = Null]
           x == ct[o][1]
           hl2 == hl \cup {x}
           ct2 == [ct EXCEPT ![o] = <<>>]
           lo2 == lo \cup {ct[o]}
<1>1. /\ h \in Heaps /\ hl \subseteq h.live /\ Represents(h, hl, ct, lo)
      /\ Sorted(h, ct, lo) /\ Named(h) /\ ListCounts(h, hl) /\ SheetCounts(h, hl, cn, sl)
      /\ cn \in [Sheets -> Nat] /\ sl \in [Origins -> Sheets \cup {Null}]
      /\ ct \in [Owners -> Seq(Nodes)]
  BY DEF Consistent, Represents
<1>2. /\ h2 \in Heaps /\ h2.live = h.live /\ h2.next = h.next /\ h2.prev = h.prev
      /\ h2.kind = h.kind /\ h2.parent = h.parent /\ h2.refs = h.refs
      /\ \A p \in Owners : h2.first[p] = IF p = o THEN Null ELSE h.first[p]
  BY <1>1 DEF Heaps
<1>3. x \in Members(h) /\ x \in Nodes /\ x \notin Sheets
  <2>1. ct[o] \in Listed(ct, lo)
    BY DEF Listed
  <2>2. x \in Members(h) /\ x \in Nodes
    BY <1>1, <2>1, ListsApart
  <2> QED
    BY <2>2, Disjoint
<1> HIDE DEF h2
<1>4. Represents(h2, hl2, ct2, lo2)
  <2>1. SameLinks(h, h2)
    BY <1>2 DEF SameLinks, Members
  <2>2. hl2 \cap Nodes = (hl \cap Nodes) \cup {x}
    BY <1>3
  <2>3. \A p \in Owners : p \in h.live => p \in h2.live
    BY <1>2
  <2> HIDE DEF hl2
  <2> QED
    BY <1>1, <1>2, <2>1, <2>2, <2>3, ListDisowned
<1>5. Sorted(h2, ct2, lo2)
  <2>1. \A p \in Owners : MayHold(h2, p) = MayHold(h, p)
    BY <1>2 DEF MayHold
  <2>2. Range(ct[o]) \subseteq Decls \/ Range(ct[o]) \subseteq Stmts
    BY <1>1 DEF Sorted, MayHold
  <2>3. Range(<<>>) = {}
    BY RangeIs, EmptySeq
  <2>4. \A p \in Owners : ct2[p] = IF p = o THEN <<>> ELSE ct[p]
    BY <1>1
  <2>5. \A p \in Owners : Range(ct2[p]) \subseteq MayHold(h2, p)
    BY <1>1, <2>1, <2>3, <2>4 DEF Sorted
  <2> QED
    BY <1>1, <2>2, <2>5 DEF Sorted
<1>6. Named(h2)
  BY <1>1, <1>2 DEF Named, ParentsLive, Blank, Members
<1>7. ListCounts(h2, hl2)
  BY <1>1, <1>2 DEF ListCounts
<1>8. SheetCounts(h2, hl2, cn, sl)
  <2>1. \A t \in Sheets : /\ h2.refs[t] = h.refs[t] /\ (t \in hl2 <=> t \in hl)
                          /\ t \in h2.live <=> t \in h.live
    BY <1>2, <1>3
  <2> QED
    BY <1>1, <2>1, SheetsKept
<1>9. hl2 \subseteq h2.live
  BY <1>1, <1>2, <1>3 DEF Members
<1> HIDE DEF hl2, ct2, lo2
<1>10. Consistent(h2, hl2, cn, sl, ct2, lo2)
  BY <1>1, <1>2, <1>4, <1>5, <1>6, <1>7, <1>8, <1>9 DEF Consistent
<1> QED
  BY <1>10 DEF h2, hl2, ct2, lo2

\* S has all that its owners have, the owners of all it has, and loose lists entirely.
Severable(ct, lo, S) ==
    /\ \A o \in Owners : o \in S => Range(ct[o]) \subseteq S
    /\ \A o \in Owners : Range(ct[o]) \cap S # {} => o \in S
    /\ \A b \in lo : Range(b) \cap S # {} => Range(b) \subseteq S

\* Freed, but for the counts of sheets.
FreedBut(h, h2, S) ==
    /\ h2.live = h.live \ S
    /\ \A s \in Stmts : h2.kind[s] = IF s \in S THEN "none" ELSE h.kind[s]
    /\ \A x \in Nodes :
          /\ h2.next[x] = IF x \in S THEN Null ELSE h.next[x]
          /\ h2.prev[x] = IF x \in S THEN Null ELSE h.prev[x]
          /\ h2.parent[x] = IF x \in S THEN Null ELSE h.parent[x]
    /\ \A o \in Owners : h2.first[o] = IF o \in S THEN Null ELSE h.first[o]
    /\ \A d \in Decls : h2.refs[d] = IF d \in S THEN 0 ELSE h.refs[d]

Spared(ct, S)      == [o \in Owners |-> IF o \in S THEN <<>> ELSE ct[o]]
LooseSpared(lo, S) == {b \in lo : Range(b) \cap S = {}}

LEMMA FreedIntact ==
    ASSUME NEW h, NEW hl, NEW cn, NEW sl, NEW ct, NEW lo, Intact(h, hl, cn, sl, ct, lo),
           NEW S, Severable(ct, lo, S), NEW h2 \in Heaps, FreedBut(h, h2, S),
           NEW hl2, hl2 \cap Nodes = (hl \cap Nodes) \ S, hl2 \subseteq h2.live,
           NEW cn2 \in [Sheets -> Nat], NEW sl2 \in [Origins -> Sheets \cup {Null}],
           SheetCounts(h2, hl2, cn2, sl2)
    PROVE  Intact(h2, hl2, cn2, sl2, Spared(ct, S), LooseSpared(lo, S))
<1>1. /\ h \in Heaps /\ hl \subseteq h.live /\ Represents(h, hl, ct, lo)
      /\ Sorted(h, ct, lo) /\ Blank(h) /\ ListCounts(h, hl)
  BY DEF Intact
<1>2. Represents(h2, hl2, Spared(ct, S), LooseSpared(lo, S))
  <2>1. /\ \A x \in Nodes : /\ h2.next[x] = IF x \in S THEN Null ELSE h.next[x]
                            /\ h2.prev[x] = IF x \in S THEN Null ELSE h.prev[x]
        /\ \A o \in Owners : h2.first[o] = IF o \in S THEN Null ELSE h.first[o]
        /\ h2.live = h.live \ S
    BY DEF FreedBut
  <2>2. /\ \A o \in Owners : o \in S => Range(ct[o]) \subseteq S
        /\ \A o \in Owners : Range(ct[o]) \cap S # {} => o \in S
        /\ \A b \in lo : Range(b) \cap S # {} => Range(b) \subseteq S
    BY DEF Severable
  <2>3. Represents(h2, hl2, [o \in Owners |-> IF o \in S THEN <<>> ELSE ct[o]],
                   {b \in lo : Range(b) \cap S = {}})
    BY <1>1, <2>1, <2>2, ListsFreed
  <2> QED
    BY <2>3 DEF Spared, LooseSpared
<1>3. Sorted(h2, Spared(ct, S), LooseSpared(lo, S))
  <2>1. \A o \in Owners : Range(Spared(ct, S)[o]) \subseteq MayHold(h2, o)
    <3> TAKE o \in Owners
    <3>1. CASE o \in S
      <4>1. Spared(ct, S)[o] = <<>>
        BY <3>1 DEF Spared
      <4>2. Range(<<>>) = {}
        BY RangeIs, EmptySeq
      <4> QED
        BY <4>1, <4>2
    <3>2. CASE o \notin S
      <4>1. Spared(ct, S)[o] = ct[o] /\ Range(ct[o]) \subseteq MayHold(h, o)
        BY <1>1, <3>2 DEF Spared, Sorted
      <4>2. Range(ct[o]) \cap S = {}
        BY <3>2 DEF Severable
      <4>3. \A q \in Stmts : q \notin S => h2.kind[q] = h.kind[q]
        BY DEF FreedBut
      <4>4. CASE o \in Sheets
        BY <4>1, <4>4 DEF MayHold
      <4>5. CASE o \notin Sheets
        <5>1. h2.kind[o] = h.kind[o]
          BY <3>2, <4>3, <4>5 DEF Owners
        <5>2. \A q \in MayHold(h, o) : q \notin S => q \in MayHold(h2, o)
          BY <4>3, <4>5, <5>1 DEF MayHold
        <5> QED
          BY <4>1, <4>2, <5>2
      <4> QED
        BY <4>4, <4>5
    <3> QED
      BY <3>1, <3>2
  <2> QED
    BY <1>1, <2>1 DEF Sorted, LooseSpared
<1>4. Blank(h2)
  <2>1. \A s \in Stmts \ h2.live : h2.kind[s] = "none"
    BY <1>1 DEF Blank, FreedBut
  <2>2. \A d \in Decls \ h2.live : h2.refs[d] = 0
    BY <1>1 DEF Blank, FreedBut
  <2>3. \A t \in Sheets \ h2.live : h2.refs[t] = 0
    <3>1. \A t \in Sheets : h2.refs[t] \in Nat
      BY DEF Heaps
    <3>2. \A t \in Sheets : t \notin h2.live => ~(h2.refs[t] > 0)
      BY DEF SheetCounts
    <3> QED
      BY <3>1, <3>2
  <2> QED
    BY <2>1, <2>2, <2>3 DEF Blank
<1>5. ListCounts(h2, hl2)
  <2> SUFFICES ASSUME NEW d \in Decls, d \notin hl2 PROVE h2.refs[d] <= 1
    BY DEF ListCounts
  <2>1. h2.refs[d] = IF d \in S THEN 0 ELSE h.refs[d]
    BY DEF FreedBut
  <2>2. d \in Nodes
    BY DEF Nodes
  <2>3. CASE d \notin S
    <3>1. d \notin hl
      BY <2>2, <2>3
    <3> QED
      BY <1>1, <2>1, <2>3, <3>1 DEF ListCounts
  <2> QED
    BY <2>1, <2>3
<1> QED
  BY <1>2, <1>3, <1>4, <1>5 DEF Intact

-----------------------------------------------------------------------------
(* What a list or an owner contains.                                         *)

Within(ct, S)   == S \cup UNION {Range(ct[o]) : o \in S \cap Owners}
Entirely(ct, S) == Within(ct, Within(ct, Within(ct, S)))

Complete(ct, S) == \A o \in Owners : o \in S => Range(ct[o]) \subseteq S

LEMMA WithinIs ==
    ASSUME NEW ct, NEW S
    PROVE  \A x : x \in Within(ct, S) <=> x \in S \/ \E o \in Owners : o \in S /\ x \in Range(ct[o])
BY DEF Within

LEMMA WithinUnion ==
    ASSUME NEW ct, NEW S, NEW T
    PROVE  Within(ct, S \cup T) = Within(ct, S) \cup Within(ct, T)
<1>1. \A x : x \in Within(ct, S \cup T) <=> x \in Within(ct, S) \/ x \in Within(ct, T)
  BY WithinIs
<1> QED
  BY <1>1

LEMMA EntirelyUnion ==
    ASSUME NEW ct, NEW S, NEW T
    PROVE  Entirely(ct, S \cup T) = Entirely(ct, S) \cup Entirely(ct, T)
<1> DEFINE A == Within(ct, S)
           B == Within(ct, T)
           C == Within(ct, A)
           D == Within(ct, B)
<1>1. Within(ct, S \cup T) = A \cup B
  BY WithinUnion
<1> HIDE DEF A, B
<1>2. Within(ct, A \cup B) = C \cup D
  BY WithinUnion
<1> HIDE DEF C, D
<1>3. Within(ct, C \cup D) = Within(ct, C) \cup Within(ct, D)
  BY WithinUnion
<1> QED
  BY <1>1, <1>2, <1>3 DEF Entirely, A, B, C, D

LEMMA WithinComplete ==
    ASSUME NEW ct, NEW S, Complete(ct, S)
    PROVE  Within(ct, S) = S
<1>1. \A x : x \in Within(ct, S) <=> x \in S
  BY WithinIs DEF Complete
<1> QED
  BY <1>1

LEMMA EntirelyComplete ==
    ASSUME NEW ct, NEW S, Complete(ct, S)
    PROVE  Entirely(ct, S) = S
BY WithinComplete DEF Entirely

LEMMA CompleteUnion ==
    ASSUME NEW ct, NEW S, NEW T, Complete(ct, S), Complete(ct, T)
    PROVE  Complete(ct, S \cup T)
BY DEF Complete

\* What an owner contains that is itself an owner contains less.
LEMMA Shallow ==
    ASSUME NEW h, NEW ct, NEW lo, Sorted(h, ct, lo)
    PROVE  /\ \A o, p, q \in Owners : o \in Stmts /\ p \in Range(ct[o]) => q \notin Range(ct[p])
           /\ \A o, p \in Owners : p \in Range(ct[o]) => p \in Stmts
<1>1. \A o \in Owners : \A x \in Range(ct[o]) : x \in MayHold(h, o)
  BY DEF Sorted
<1>2. ASSUME NEW o \in Owners, NEW p \in Owners, p \in Range(ct[o]) PROVE p \in Stmts
  <2>1. p \in MayHold(h, o)
    BY <1>1, <1>2
  <2>2. p \in Stmts \/ p \in Decls
    BY <2>1 DEF MayHold
  <2> QED
    BY <2>2, Disjoint
<1>3. ASSUME NEW o \in Owners, NEW p \in Owners, NEW q \in Owners,
             o \in Stmts, p \in Range(ct[o]), q \in Range(ct[p])
      PROVE  FALSE
  <2>1. p \in Stmts /\ q \in Stmts
    BY <1>2, <1>3
  <2>2. o \notin Sheets /\ p \notin Sheets /\ q \notin Decls /\ p \notin Decls
    BY <1>3, <2>1, Disjoint
  <2>3. p \in MayHold(h, o)
    BY <1>1, <1>3
  <2>4. h.kind[p] = "ruleset"
    BY <2>2, <2>3 DEF MayHold
  <2>5. MayHold(h, p) = Decls
    BY <2>2, <2>4 DEF MayHold, Declaring
  <2> QED
    BY <1>1, <1>3, <2>2, <2>5
<1> QED
  BY <1>2, <1>3

LEMMA StatementsComplete ==
    ASSUME NEW h, NEW ct, NEW lo, Sorted(h, ct, lo), NEW S, S \cap Sheets = {}
    PROVE  Complete(ct, Within(ct, Within(ct, S)))
<1> DEFINE A == Within(ct, S)
           B == Within(ct, A)
<1>1. \A x : x \in A <=> x \in S \/ \E o \in Owners : o \in S /\ x \in Range(ct[o])
  BY WithinIs
<1>2. \A x : x \in B <=> x \in A \/ \E o \in Owners : o \in A /\ x \in Range(ct[o])
  BY WithinIs
<1>3. \A o \in Owners : o \in S => o \in Stmts
  BY DEF Owners
<1>4. /\ \A o, p, q \in Owners : o \in Stmts /\ p \in Range(ct[o]) => q \notin Range(ct[p])
      /\ \A o, p \in Owners : p \in Range(ct[o]) => p \in Stmts
  BY Shallow
<1> HIDE DEF A, B
<1>5. ASSUME NEW o \in Owners, o \in B, NEW x \in Range(ct[o]) PROVE x \in B
  <2>1. CASE o \in A
    BY <1>2, <1>5, <2>1
  <2>2. CASE o \notin A
    <3>1. PICK p \in Owners : p \in A /\ o \in Range(ct[p])
      BY <1>2, <1>5, <2>2
    <3>2. p \notin S
      BY <1>1, <2>2, <3>1
    <3>3. PICK q \in Owners : q \in S /\ p \in Range(ct[q])
      BY <1>1, <3>1, <3>2
    <3> QED
      BY <1>3, <1>4, <3>1, <3>3
  <2> QED
    BY <2>1, <2>2
<1> QED
  BY <1>5 DEF Complete, A, B

LEMMA EntirelyIsComplete ==
    ASSUME NEW h, NEW ct, NEW lo, Sorted(h, ct, lo), NEW S
    PROVE  Complete(ct, Entirely(ct, S)) /\ S \subseteq Entirely(ct, S)
<1> DEFINE A == Within(ct, S)
           T == UNION {Range(ct[o]) : o \in S \cap Owners}
<1>1. A = S \cup T /\ \A x \in T : \E o \in Owners : o \in S /\ x \in Range(ct[o])
  BY DEF Within
<1>2. T \cap Sheets = {}
  <2>1. ASSUME NEW t \in Sheets, t \in T PROVE FALSE
    <3>1. PICK o \in Owners : t \in Range(ct[o])
      BY <1>1, <2>1
    <3>2. t \in MayHold(h, o)
      BY <3>1 DEF Sorted
    <3>3. t \notin Stmts /\ t \notin Decls
      BY <2>1, Disjoint
    <3> QED
      BY <3>2, <3>3 DEF MayHold
  <2> QED
    BY <2>1
<1> HIDE DEF T
<1>3. Complete(ct, Within(ct, Within(ct, T)))
  BY <1>2, StatementsComplete
<1>4. Entirely(ct, S) = Within(ct, A) \cup Within(ct, Within(ct, T))
  <2>1. Within(ct, S \cup T) = A \cup Within(ct, T)
    BY WithinUnion
  <2>2. Within(ct, A \cup Within(ct, T)) = Within(ct, A) \cup Within(ct, Within(ct, T))
    BY WithinUnion
  <2> QED
    BY <1>1, <2>1, <2>2 DEF Entirely
<1>5. Within(ct, A) = A \cup Within(ct, T)
  BY <1>1, WithinUnion
<1>6. Within(ct, T) \subseteq Within(ct, Within(ct, T))
  BY WithinIs
<1>7. Entirely(ct, S) = S \cup Within(ct, Within(ct, T))
  <2>1. T \subseteq Within(ct, T)
    BY WithinIs
  <2> QED
    BY <1>1, <1>4, <1>5, <1>6, <2>1
<1>8. ASSUME NEW o \in Owners, o \in S, NEW x \in Range(ct[o]) PROVE x \in Within(ct, Within(ct, T))
  <2>1. x \in T
    BY <1>8 DEF T
  <2>2. T \subseteq Within(ct, T)
    BY WithinIs
  <2> QED
    BY <1>6, <2>1, <2>2
<1> QED
  BY <1>3, <1>7, <1>8 DEF Complete

\* To the depth of a list of statements, and of declarations.
LEMMA EntirelyStatements ==
    ASSUME NEW h, NEW ct, NEW lo, Sorted(h, ct, lo), NEW S, S \cap Sheets = {}
    PROVE  Entirely(ct, S) = Within(ct, Within(ct, S))
BY StatementsComplete, WithinComplete DEF Entirely

LEMMA EntirelyDeclarations ==
    ASSUME NEW ct, NEW S, S \subseteq Decls
    PROVE  Entirely(ct, S) = S
<1>1. Complete(ct, S)
  BY Disjoint DEF Complete
<1> QED
  BY <1>1, EntirelyComplete

LEMMA EntirelySheet ==
    ASSUME NEW h, NEW ct, NEW lo, Sorted(h, ct, lo), NEW t \in Sheets
    PROVE  Entirely(ct, {t}) = {t} \cup Within(ct, Within(ct, Range(ct[t])))
<1> DEFINE R == Range(ct[t])
<1>1. Within(ct, {t}) = {t} \cup R
  <2>1. t \in Owners
    BY Disjoint
  <2> QED
    BY <2>1 DEF Within
<1> HIDE DEF R
<1>2. R \subseteq Within(ct, R) /\ Within(ct, R) \subseteq Within(ct, Within(ct, R))
  BY WithinIs
<1>3. Within(ct, {t} \cup R) = ({t} \cup R) \cup Within(ct, R)
  BY <1>1, WithinUnion
<1>4. Within(ct, {t} \cup R) = {t} \cup Within(ct, R)
  BY <1>2, <1>3
<1>5. Within(ct, {t} \cup Within(ct, R)) = ({t} \cup R) \cup Within(ct, Within(ct, R))
  BY <1>1, WithinUnion
<1> QED
  BY <1>1, <1>2, <1>4, <1>5 DEF Entirely, R

\* Whole loose lists, and sheets, are severable with what they contain.
LEMMA EntirelySeverable ==
    ASSUME NEW h, NEW hl, NEW ct, NEW lo, Represents(h, hl, ct, lo), Sorted(h, ct, lo),
           NEW S, \A o \in Owners : Range(ct[o]) \cap S = {},
           \A b \in lo : Range(b) \cap S # {} => Range(b) \subseteq S
    PROVE  /\ Severable(ct, lo, Entirely(ct, S))
           /\ \A b \in lo : Range(b) \cap Entirely(ct, S) # {} => Range(b) \cap S # {}
           /\ \A x \in Entirely(ct, S) : x \in S \/ \E o \in Owners : x \in Range(ct[o])
<1> DEFINE D == Entirely(ct, S)
<1>1. Complete(ct, D) /\ S \subseteq D
  BY EntirelyIsComplete
<1>2. \A x \in D : x \in S \/ \E o \in Owners : o \in D /\ x \in Range(ct[o])
  <2> DEFINE A == Within(ct, S)
             B == Within(ct, A)
  <2>1. \A x : x \in A <=> x \in S \/ \E o \in Owners : o \in S /\ x \in Range(ct[o])
    BY WithinIs
  <2>2. \A x : x \in B <=> x \in A \/ \E o \in Owners : o \in A /\ x \in Range(ct[o])
    BY WithinIs
  <2>3. \A x : x \in D <=> x \in B \/ \E o \in Owners : o \in B /\ x \in Range(ct[o])
    BY WithinIs DEF Entirely
  <2> HIDE DEF A, B, D
  <2> QED
    BY <2>1, <2>2, <2>3
<1> HIDE DEF D
<1>3. \A o \in Owners : Range(ct[o]) \cap D # {} => o \in D
  <2> SUFFICES ASSUME NEW o \in Owners, NEW x \in Range(ct[o]), x \in D PROVE o \in D
    OBVIOUS
  <2>1. x \notin S
    OBVIOUS
  <2>2. PICK p \in Owners : p \in D /\ x \in Range(ct[p])
    BY <1>2, <2>1
  <2>3. Range(ct[o]) \cap Range(ct[p]) # {}
    BY <2>2
  <2>4. o = p
    BY <2>3, ListsKnown
  <2> QED
    BY <2>2, <2>4
<1>4. \A b \in lo : Range(b) \cap D # {} => Range(b) \cap S # {}
  <2> SUFFICES ASSUME NEW b \in lo, NEW x \in Range(b), x \in D PROVE x \in S
    OBVIOUS
  <2>1. \A o \in Owners : x \notin Range(ct[o])
    <3>1. \A o \in Owners : Range(b) \cap Range(ct[o]) = {}
      BY ListsKnown
    <3> QED
      BY <3>1
  <2> QED
    BY <1>2, <2>1
<1> QED
  BY <1>1, <1>2, <1>3, <1>4 DEF Severable, Complete, D

-----------------------------------------------------------------------------
(* What is freed.                                                            *)

LEMMA FreedTwice ==
    ASSUME NEW h \in Heaps, NEW S, NEW T
    PROVE  Freed(Freed(h, S), T) = Freed(h, S \cup T)
BY DEF Freed, Heaps

LEMMA ContentsIs ==
    ASSUME NEW h, NEW hl, NEW ct, NEW lo, Represents(h, hl, ct, lo), NEW S
    PROVE  Contents(h, S) = Within(ct, S)
<1>1. \A o \in Owners : ListOf(h, o) = ct[o]
  BY Represented
<1> QED
  BY <1>1 DEF Contents, Within

LEMMA StmtsDestroyedIs ==
    ASSUME NEW h, NEW hl, NEW ct, NEW lo, Represents(h, hl, ct, lo), Sorted(h, ct, lo),
           NEW c \in Listed(ct, lo), Range(c) \subseteq Stmts
    PROVE  StmtsDestroyed(h, c[1]) = Freed(h, Within(ct, Within(ct, Range(c))))
<1>1. From(h, c[1]) = c
  BY HeadOfChain DEF Represents
<1>2. Contents(h, Range(c)) = Within(ct, Range(c))
  BY ContentsIs
<1>3. Contents(h, Within(ct, Range(c))) = Within(ct, Within(ct, Range(c)))
  BY ContentsIs
<1> QED
  BY <1>1, <1>2, <1>3 DEF StmtsDestroyed

LEMMA SheetDestroyedIs ==
    ASSUME NEW h \in Heaps, NEW hl, NEW ct, NEW lo, Represents(h, hl, ct, lo), Sorted(h, ct, lo),
           NEW t \in Sheets
    PROVE  SheetDestroyed(h, t) = Freed(h, Entirely(ct, {t}))
<1>1. t \in Owners /\ h.first[t] = IF ct[t] = <<>> THEN Null ELSE ct[t][1]
  BY Disjoint DEF Represents
<1>2. Entirely(ct, {t}) = {t} \cup Within(ct, Within(ct, Range(ct[t])))
  BY EntirelySheet
<1>3. CASE ct[t] = <<>>
  <2>1. Range(ct[t]) = {}
    BY <1>3, RangeIs, EmptySeq
  <2>2. Within(ct, {}) = {}
    BY DEF Within
  <2>3. SheetDestroyed(h, t) = Freed(h, {t})
    BY <1>1, <1>3 DEF SheetDestroyed
  <2> QED
    BY <1>2, <2>1, <2>2, <2>3
<1>4. CASE ct[t] # <<>>
  <2>1. ct[t] \in Listed(ct, lo)
    BY <1>1, <1>4 DEF Listed
  <2>2. Range(ct[t]) \subseteq Stmts
    BY <1>1 DEF Sorted, MayHold
  <2>3. ct[t][1] # Null
    <3>1. ct[t][1] \in Nodes
      BY <2>1, ListsApart
    <3> QED
      BY <3>1, Disjoint
  <2> DEFINE D == Within(ct, Within(ct, Range(ct[t])))
  <2>4. StmtsDestroyed(h, ct[t][1]) = Freed(h, D)
    BY <2>1, <2>2, StmtsDestroyedIs
  <2> HIDE DEF D
  <2>5. SheetDestroyed(h, t) = Freed(Freed(h, D), {t})
    BY <1>1, <1>4, <2>3, <2>4 DEF SheetDestroyed
  <2>6. Freed(Freed(h, D), {t}) = Freed(h, D \cup {t})
    BY FreedTwice
  <2>7. D \cup {t} = {t} \cup D
    OBVIOUS
  <2> QED
    BY <1>2, <2>5, <2>6, <2>7 DEF D
<1> QED
  BY <1>3, <1>4

\* Nothing outside S was made for one of S.
Parentless(h, S) == \A x \in Members(h) \ S : h.parent[x] \notin S \cap h.live

\* A loose list is freed with what it contains.
LEMMA LooseFreed ==
    ASSUME NEW h, NEW hl, NEW cn, NEW sl, NEW ct, NEW lo, Consistent(h, hl, cn, sl, ct, lo),
           NEW b \in lo, NEW S, S = Entirely(ct, Range(b)),
           Parentless(h, S)
    PROVE  /\ Consistent(Freed(h, S), hl \ {b[1]}, cn, sl, Spared(ct, S), LooseSpared(lo, S))
           /\ hl \ {b[1]} = hl \ S
<1> DEFINE h2 == Freed(h, S)
           hl2 == hl \ {b[1]}
<1>1. /\ h \in Heaps /\ hl \subseteq h.live /\ Represents(h, hl, ct, lo)
      /\ Sorted(h, ct, lo) /\ SheetCounts(h, hl, cn, sl) /\ ParentsLive(h)
      /\ cn \in [Sheets -> Nat] /\ sl \in [Origins -> Sheets \cup {Null}]
      /\ Intact(h, hl, cn, sl, ct, lo)
  BY ConsistentIs DEF Intact
<1>2. /\ \A o \in Owners : Range(ct[o]) \cap Range(b) = {}
      /\ \A c \in lo : Range(c) \cap Range(b) # {} => c = b
      /\ b[1] \in Range(b) /\ Range(b) \subseteq Members(h)
      /\ \A o \in Owners : Range(ct[o]) \subseteq Members(h)
  <2>1. /\ \A c \in lo : \A o \in Owners : Range(c) \cap Range(ct[o]) = {}
        /\ \A c, d \in lo : Range(c) \cap Range(d) # {} => c = d
        /\ b[1] \in Range(b) /\ Range(b) \subseteq Members(h)
        /\ \A o \in Owners : Range(ct[o]) \subseteq Members(h)
    BY <1>1, ListsKnown
  <2> QED
    BY <2>1
<1>3. /\ Severable(ct, lo, S)
      /\ \A c \in lo : Range(c) \cap S # {} => Range(c) \cap Range(b) # {}
      /\ \A x \in S : x \in Range(b) \/ \E o \in Owners : x \in Range(ct[o])
  <2>1. \A c \in lo : Range(c) \cap Range(b) # {} => Range(c) \subseteq Range(b)
    BY <1>2
  <2> QED
    BY <1>1, <1>2, <2>1, EntirelySeverable
<1>4. S \subseteq Members(h) /\ b[1] \in S
  <2>1. Range(b) \subseteq S
    BY <1>1, EntirelyIsComplete
  <2> QED
    BY <1>2, <1>3, <2>1
<1>5. \A a \in hl : a \in S <=> a = b[1]
  <2> SUFFICES ASSUME NEW a \in hl, a \in S PROVE a = b[1]
    BY <1>4
  <2>1. a \in hl \cap Nodes
    BY <1>4 DEF Members
  <2>2. From(h, a) \in lo /\ From(h, a)[1] = a
    BY <1>1, <2>1, Represented
  <2>3. a \in Range(From(h, a))
    <3>1. \A c \in lo : c[1] \in Range(c)
      BY <1>1, ListsKnown
    <3> QED
      BY <2>2, <3>1
  <2>4. From(h, a) = b
    BY <1>2, <1>3, <2>2, <2>3
  <2> QED
    BY <2>2, <2>4
<1>6. hl2 = hl \ S
  BY <1>5
<1>7. /\ h2 \in Heaps /\ h2.live = h.live \ S /\ FreedBut(h, h2, S)
      /\ \A t \in Sheets : h2.refs[t] = h.refs[t]
  <2>1. \A t \in Sheets : t \notin S
    BY <1>4, Disjoint DEF Members
  <2>2. FreedBut(h, h2, S) /\ h2 \in Heaps
    BY <1>1, FreedIs DEF FreedBut
  <2>3. \A t \in Sheets : h2.refs[t] = IF t \in S THEN 0 ELSE h.refs[t]
    BY <1>1, FreedIs
  <2> QED
    BY <2>1, <2>2, <2>3 DEF FreedBut
<1> HIDE DEF h2
<1>8. SheetCounts(h2, hl2, cn, sl)
  <2>1. \A t \in Sheets : t \notin S
    BY <1>4, Disjoint DEF Members
  <2>2. \A t \in Sheets : /\ h2.refs[t] = h.refs[t] /\ (t \in hl2 <=> t \in hl)
                          /\ t \in h2.live <=> t \in h.live
    BY <1>6, <1>7, <2>1
  <2> QED
    BY <1>1, <2>2, SheetsKept
<1>9. hl2 \cap Nodes = (hl \cap Nodes) \ S /\ hl2 \subseteq h2.live
  BY <1>1, <1>6, <1>7
<1>10. Intact(h2, hl2, cn, sl, Spared(ct, S), LooseSpared(lo, S))
  <2> HIDE DEF hl2
  <2> QED
    BY <1>1, <1>3, <1>7, <1>8, <1>9, FreedIntact
<1>11. ParentsLive(h2)
  <2>1. \A x \in Members(h2) : x \in Members(h) /\ x \notin S /\ h2.parent[x] = h.parent[x]
    BY <1>7 DEF Members, FreedBut
  <2>2. \A x \in Members(h) : h.parent[x] \in h.live \cup {Null}
    BY <1>1 DEF ParentsLive
  <2> QED
    BY <1>7, <2>1, <2>2 DEF ParentsLive, Parentless
<1> QED
  BY <1>6, <1>10, <1>11, ConsistentIs DEF h2

\* Nothing names a declaration as its parent.
LEMMA NoParent ==
    ASSUME NEW h \in Heaps, NEW S, S \subseteq Decls, NEW x \in Nodes
    PROVE  h.parent[x] \notin S
<1>1. h.parent[x] \in Owners \cup {Null}
  BY DEF Heaps
<1> QED
  BY <1>1, Disjoint DEF Nodes

-----------------------------------------------------------------------------
(* Sheets and the cascade.                                                   *)

\* The slots of a sheet.
SlotsOf(sl, t) == {o \in Origins : sl[o] = t}

OtherSlots(sl, sl2, o) == \A p \in Origins : p # o => sl2[p] = sl[p]

LEMMA SlotCounts ==
    ASSUME NEW sl, NEW sl2, NEW o \in Origins, NEW t, OtherSlots(sl, sl2, o)
    PROVE  /\ Cardinality(SlotsOf(sl, t)) \in Nat
           /\ sl[o] = t => Cardinality(SlotsOf(sl, t)) > 0
           /\ Cardinality(SlotsOf(sl2, t)) = Cardinality(SlotsOf(sl, t))
                                             - (IF sl[o] = t THEN 1 ELSE 0) + (IF sl2[o] = t THEN 1 ELSE 0)
<1> DEFINE A == SlotsOf(sl, t)
           B == SlotsOf(sl2, t)
<1>1. IsFiniteSet(Origins)
  BY FS_Interval, StatementAssumption DEF Origins
<1>2. A \in SUBSET Origins /\ B \in SUBSET Origins
  BY DEF SlotsOf
<1>3. IsFiniteSet(A)
  BY <1>1, <1>2, FS_Subset
<1>4. o \in A <=> sl[o] = t
  BY DEF SlotsOf
<1>5. B = IF sl2[o] = t THEN (A \ {o}) \cup {o} ELSE A \ {o}
  BY DEF SlotsOf, OtherSlots
<1> HIDE DEF A, B
<1>6. Cardinality(A) \in Nat
  BY <1>3, FS_CardinalityType
<1>7. IsFiniteSet(A \ {o}) /\ Cardinality(A \ {o}) = IF o \in A THEN Cardinality(A) - 1 ELSE Cardinality(A)
  BY <1>3, FS_RemoveElement
<1>8. Cardinality((A \ {o}) \cup {o}) = Cardinality(A \ {o}) + 1
  BY <1>7, FS_AddElement
<1>9. o \in A => Cardinality(A) > 0
  <2>1. Cardinality(A) = 0 <=> A = {}
    BY <1>3, FS_EmptySet
  <2> QED
    BY <1>6, <2>1
<1>10. Cardinality(B) = Cardinality(A) - (IF sl[o] = t THEN 1 ELSE 0) + (IF sl2[o] = t THEN 1 ELSE 0)
  BY <1>4, <1>5, <1>6, <1>7, <1>8
<1> QED
  BY <1>4, <1>6, <1>9, <1>10 DEF A, B

LEMMA SlotsEmpty ==
    ASSUME NEW sl, NEW t, \A o \in Origins : sl[o] # t
    PROVE  Cardinality(SlotsOf(sl, t)) = 0
<1>1. SlotsOf(sl, t) = {}
  BY DEF SlotsOf
<1> QED
  BY <1>1, FS_EmptySet

LEMMA SlotsFinite ==
    ASSUME NEW sl, NEW t
    PROVE  Cardinality(SlotsOf(sl, t)) \in Nat
<1>1. IsFiniteSet(Origins)
  BY FS_Interval, StatementAssumption DEF Origins
<1>2. SlotsOf(sl, t) \in SUBSET Origins
  BY DEF SlotsOf
<1> QED
  BY <1>1, <1>2, FS_Subset, FS_CardinalityType

LEMMA SheetUnrefedIs ==
    ASSUME NEW h \in Heaps, NEW u \in Sheets
    PROVE  /\ h.refs[u] > 1 => SheetUnrefed(h, u) = [h EXCEPT !.refs[u] = h.refs[u] - 1]
           /\ ~(h.refs[u] > 1) => SheetUnrefed(h, u) = SheetDestroyed(h, u)
           /\ SheetUnrefed(h, u) \in Heaps
<1>1. h.refs[u] \in Nat
  BY DEF Heaps
<1>2. h.refs[u] > 1 => SheetUnrefed(h, u) = [h EXCEPT !.refs[u] = h.refs[u] - 1]
  BY <1>1 DEF SheetUnrefed
<1>3. ~(h.refs[u] > 1) => SheetUnrefed(h, u) = SheetDestroyed(h, u)
  BY <1>1 DEF SheetUnrefed
<1>4. SheetDestroyed(h, u) \in Heaps
  <2> DEFINE h1 == IF h.first[u] = Null THEN h ELSE StmtsDestroyed(h, h.first[u])
  <2>1. h1 \in Heaps
    BY FreedIs DEF StmtsDestroyed
  <2>2. SheetDestroyed(h, u) = Freed(h1, {u})
    BY DEF SheetDestroyed
  <2> HIDE DEF h1
  <2> QED
    BY <2>1, <2>2, FreedIs
<1>5. h.refs[u] > 1 => [h EXCEPT !.refs[u] = h.refs[u] - 1] \in Heaps
  BY <1>1 DEF Heaps
<1> QED
  BY <1>2, <1>3, <1>4, <1>5

\* What cr_stylesheet_unref gives up: the sheet, or no more than a count.
GivenUp(h, u) == IF h.refs[u] > 1 THEN {} ELSE {u}

\* One reference to u is given up, if it was counted.
OneLess(h, u, cn, sl, cn2, sl2) ==
    \A t \in Sheets : cn2[t] + Cardinality(SlotsOf(sl2, t)) =
                         IF t # u THEN cn[t] + Cardinality(SlotsOf(sl, t))
                         ELSE IF h.refs[u] > 0 THEN h.refs[u] - 1 ELSE 0

LEMMA SheetGivenUp ==
    ASSUME NEW h, NEW hl, NEW cn, NEW sl, NEW ct, NEW lo, Intact(h, hl, cn, sl, ct, lo),
           NEW u \in Sheets, u \in h.live,
           NEW cn2 \in [Sheets -> Nat], NEW sl2 \in [Origins -> Sheets \cup {Null}],
           OneLess(h, u, cn, sl, cn2, sl2),
           NEW S, S = Entirely(ct, GivenUp(h, u))
    PROVE  /\ Intact(SheetUnrefed(h, u), hl \ {u}, cn2, sl2, Spared(ct, S), LooseSpared(lo, S))
           /\ FreedBut(h, SheetUnrefed(h, u), S)
<1> DEFINE h2 == SheetUnrefed(h, u)
           T == GivenUp(h, u)
           hl2 == hl \ {u}
<1>1. /\ h \in Heaps /\ hl \subseteq h.live /\ Represents(h, hl, ct, lo)
      /\ Sorted(h, ct, lo) /\ SheetCounts(h, hl, cn, sl)
  BY DEF Intact
<1>2. T \subseteq {u} /\ T \subseteq Sheets /\ (u \in T <=> ~(h.refs[u] > 1))
  BY DEF GivenUp
<1>3. /\ \A o \in Owners : Range(ct[o]) \subseteq Members(h) /\ Range(ct[o]) \cap T = {}
      /\ \A b \in lo : Range(b) \cap T = {}
  <2>1. \A x \in T : x \notin Nodes
    BY <1>2, Disjoint
  <2>2. \A o \in Owners : Range(ct[o]) \subseteq Members(h)
    BY <1>1, ListsKnown
  <2>3. \A b \in lo : Range(b) \subseteq Members(h)
    BY <1>1, ListsKnown
  <2> QED
    BY <2>1, <2>2, <2>3 DEF Members
<1>4. /\ Severable(ct, lo, S)
      /\ \A b \in lo : Range(b) \cap S = {}
      /\ \A x \in Sheets : x \in S => x \in T
      /\ T \subseteq S
  <2>1. /\ Severable(ct, lo, S)
        /\ \A b \in lo : Range(b) \cap S # {} => Range(b) \cap T # {}
        /\ \A x \in S : x \in T \/ \E o \in Owners : x \in Range(ct[o])
    BY <1>1, <1>3, EntirelySeverable
  <2>2. \A x \in Sheets : x \notin Members(h)
    BY Disjoint DEF Members
  <2>3. T \subseteq S
    BY <1>1, EntirelyIsComplete
  <2> QED
    BY <1>3, <2>1, <2>2, <2>3
<1>5. h.refs[u] \in Nat /\ u \in Owners /\ u \notin Nodes /\ u \notin Decls
  BY <1>1, Disjoint DEF Heaps
<1>6. /\ h2 \in Heaps /\ FreedBut(h, h2, S)
      /\ \A t \in Sheets : h2.refs[t] = IF t # u THEN h.refs[t]
                                        ELSE IF h.refs[u] > 0 THEN h.refs[u] - 1 ELSE 0
  <2>1. h2 \in Heaps
    BY <1>1, SheetUnrefedIs
  <2>2. CASE h.refs[u] > 1
    <3>1. S = {}
      <4>1. Complete(ct, {})
        BY DEF Complete
      <4> QED
        BY <2>2, <4>1, EntirelyComplete DEF GivenUp
    <3>2. h2 = [h EXCEPT !.refs[u] = h.refs[u] - 1]
      BY <1>1, <2>2, SheetUnrefedIs
    <3> HIDE DEF h2
    <3>3. \A x \in Decls \cup Sheets : h2.refs[x] = IF x = u THEN h.refs[u] - 1 ELSE h.refs[x]
      BY <1>1, <3>2 DEF Heaps
    <3>4. FreedBut(h, h2, {})
      BY <1>1, <1>5, <3>2, <3>3 DEF FreedBut, Heaps
    <3> QED
      BY <1>5, <2>1, <2>2, <3>1, <3>3, <3>4
  <2>3. CASE ~(h.refs[u] > 1)
    <3>1. S = Entirely(ct, {u})
      BY <2>3 DEF GivenUp
    <3>2. h2 = Freed(h, S)
      BY <1>1, <2>3, <3>1, SheetUnrefedIs, SheetDestroyedIs
    <3>3. u \in S
      BY <1>2, <1>4, <2>3
    <3> HIDE DEF h2
    <3>4. FreedBut(h, h2, S) /\ \A t \in Sheets : h2.refs[t] = IF t \in S THEN 0 ELSE h.refs[t]
      BY <1>1, <3>2, FreedIs DEF FreedBut
    <3>5. \A t \in Sheets : t \in S <=> t = u
      BY <1>2, <1>4, <3>3
    <3> QED
      BY <1>5, <2>1, <2>3, <3>4, <3>5
  <2> QED
    BY <2>2, <2>3
<1> HIDE DEF h2, T
<1>7. h2.live = h.live \ S
  BY <1>6 DEF FreedBut
<1>8. SheetCounts(h2, hl2, cn2, sl2)
  <2> SUFFICES ASSUME NEW t \in Sheets
               PROVE  /\ h2.refs[t] = cn2[t] + Cardinality({o \in Origins : sl2[o] = t})
                      /\ t \in h2.live <=> t \in hl2 \/ h2.refs[t] > 0
                      /\ t \in hl2 => h2.refs[t] = 0
    BY DEF SheetCounts
  <2>1. /\ h.refs[t] = cn[t] + Cardinality(SlotsOf(sl, t))
        /\ t \in h.live <=> t \in hl \/ h.refs[t] > 0
        /\ t \in hl => h.refs[t] = 0
    BY <1>1 DEF SheetCounts, SlotsOf
  <2>2. cn2[t] + Cardinality({o \in Origins : sl2[o] = t}) =
            IF t # u THEN cn[t] + Cardinality(SlotsOf(sl, t))
            ELSE IF h.refs[u] > 0 THEN h.refs[u] - 1 ELSE 0
    BY DEF SlotsOf, OneLess
  <2>3. h2.refs[t] = cn2[t] + Cardinality({o \in Origins : sl2[o] = t})
    BY <1>6, <2>1, <2>2
  <2>4. CASE t # u
    <3>1. t \in h2.live <=> t \in h.live
      BY <1>2, <1>4, <1>7, <2>4
    <3>2. h2.refs[t] = h.refs[t] /\ (t \in hl2 <=> t \in hl)
      BY <1>6, <2>4
    <3> QED
      BY <2>1, <2>3, <3>1, <3>2
  <2>5. CASE t = u /\ h.refs[u] > 1
    <3>1. t \in h2.live /\ t \notin hl2
      BY <1>2, <1>4, <1>7, <2>5
    <3>2. h2.refs[t] > 0
      BY <1>5, <1>6, <2>5
    <3> QED
      BY <2>3, <3>1, <3>2
  <2>6. CASE t = u /\ ~(h.refs[u] > 1)
    <3>1. t \notin h2.live /\ t \notin hl2
      BY <1>2, <1>4, <1>7, <2>6
    <3>2. h2.refs[t] = 0
      BY <1>5, <1>6, <2>6
    <3> QED
      BY <2>3, <3>1, <3>2
  <2> QED
    BY <2>4, <2>5, <2>6
<1>9. \A a \in hl \cap Nodes : a \notin S
  <2> SUFFICES ASSUME NEW a \in hl \cap Nodes, a \in S PROVE FALSE
    OBVIOUS
  <2>1. From(h, a) \in lo /\ From(h, a)[1] = a
    BY <1>1, Represented
  <2>2. \A b \in lo : b[1] \in Range(b)
    BY <1>1, ListsKnown
  <2> QED
    BY <1>4, <2>1, <2>2
<1>10. hl2 \cap Nodes = (hl \cap Nodes) \ S
  BY <1>5, <1>9
<1>11. hl2 \subseteq h2.live
  <2> SUFFICES ASSUME NEW a \in hl2 PROVE a \in h2.live
    OBVIOUS
  <2>1. a \in hl /\ a \in h.live /\ a # u
    BY <1>1
  <2>2. a \in Nodes \/ a \in Sheets
    BY <1>1, <2>1 DEF Heaps, Objects
  <2>3. a \notin S
    BY <1>2, <1>4, <1>9, <2>1, <2>2
  <2> QED
    BY <1>7, <2>1, <2>3
<1>12. Intact(h2, hl2, cn2, sl2, Spared(ct, S), LooseSpared(lo, S))
  <2> HIDE DEF hl2
  <2> QED
    BY <1>4, <1>6, <1>8, <1>10, <1>11, FreedIntact
<1> QED
  BY <1>6, <1>12 DEF h2

\* Parents that are left are alive.
LEMMA ParentsSpared ==
    ASSUME NEW h \in Heaps, NEW h2, NEW S, FreedBut(h, h2, S), ParentsLive(h),
           \A n \in (h.live \cap Nodes) \ (h.live \ h2.live) : h.parent[n] \notin h.live \ h2.live
    PROVE  ParentsLive(h2)
<1>1. h2.live = h.live \ S /\ \A x \in Nodes : h2.parent[x] = IF x \in S THEN Null ELSE h.parent[x]
  BY DEF FreedBut
<1>2. ASSUME NEW x \in Members(h2) PROVE h2.parent[x] \in h2.live \cup {Null}
  <2>1. x \in h.live /\ x \in Nodes /\ x \notin S /\ h2.parent[x] = h.parent[x]
    BY <1>1 DEF Members
  <2>2. h.parent[x] \in h.live \cup {Null}
    BY <2>1 DEF ParentsLive, Members
  <2>3. h.parent[x] \notin h.live \ h2.live
    BY <1>1, <2>1
  <2> QED
    BY <2>1, <2>2, <2>3
<1> QED
  BY <1>2 DEF ParentsLive

\* What is freed in two turns is freed in one.
LEMMA FreedInTurn ==
    ASSUME NEW h \in Heaps, NEW h1, NEW h2, NEW S, NEW T, FreedBut(h, h1, S), FreedBut(h1, h2, T)
    PROVE  FreedBut(h, h2, S \cup T)
BY DEF FreedBut

LEMMA SparedInTurn ==
    ASSUME NEW ct, NEW lo, NEW S, NEW T
    PROVE  /\ Spared(Spared(ct, S), T) = Spared(ct, S \cup T)
           /\ LooseSpared(LooseSpared(lo, S), T) = LooseSpared(lo, S \cup T)
BY DEF Spared, LooseSpared

LEMMA EntirelyInTurn ==
    ASSUME NEW ct, NEW S, Complete(ct, S), NEW T
    PROVE  S \cup Entirely(Spared(ct, S), T) = S \cup Entirely(ct, T)
<1> DEFINE k == Spared(ct, S)
<1>1. /\ \A o \in Owners : o \in S => Range(k[o]) \subseteq S /\ Range(ct[o]) \subseteq S
      /\ \A o \in Owners : o \notin S => k[o] = ct[o]
  <2>1. Range(<<>>) = {}
    BY RangeIs, EmptySeq
  <2> QED
    BY <2>1 DEF Spared, Complete
<1> HIDE DEF k
<1>2. ASSUME NEW A, NEW B, S \cup A = S \cup B
      PROVE  S \cup Within(k, A) = S \cup Within(ct, B)
  <2>1. \A x : x \in A => x \in S \/ x \in B
    BY <1>2
  <2>2. \A x : x \in B => x \in S \/ x \in A
    BY <1>2
  <2>3. \A x : x \in Within(k, A) <=> x \in A \/ \E o \in Owners : o \in A /\ x \in Range(k[o])
    BY WithinIs
  <2>4. \A x : x \in Within(ct, B) <=> x \in B \/ \E o \in Owners : o \in B /\ x \in Range(ct[o])
    BY WithinIs
  <2>5. ASSUME NEW x, x \notin S, x \in Within(k, A) PROVE x \in Within(ct, B)
    <3>1. CASE x \in A
      BY <2>1, <2>4, <2>5, <3>1
    <3>2. ASSUME NEW o \in Owners, o \in A, x \in Range(k[o]) PROVE x \in Within(ct, B)
      <4>1. o \notin S
        BY <1>1, <2>5, <3>2
      <4> QED
        BY <1>1, <2>1, <2>4, <3>2, <4>1
    <3> QED
      BY <2>3, <2>5, <3>1, <3>2
  <2>6. ASSUME NEW x, x \notin S, x \in Within(ct, B) PROVE x \in Within(k, A)
    <3>1. CASE x \in B
      BY <2>2, <2>3, <2>6, <3>1
    <3>2. ASSUME NEW o \in Owners, o \in B, x \in Range(ct[o]) PROVE x \in Within(k, A)
      <4>1. o \notin S
        BY <1>1, <2>6, <3>2
      <4> QED
        BY <1>1, <2>2, <2>3, <3>2, <4>1
    <3> QED
      BY <2>4, <2>6, <3>1, <3>2
  <2> QED
    BY <2>5, <2>6
<1>3. S \cup Within(k, T) = S \cup Within(ct, T)
  BY <1>2
<1>4. S \cup Within(k, Within(k, T)) = S \cup Within(ct, Within(ct, T))
  BY <1>2, <1>3
<1>5. S \cup Within(k, Within(k, Within(k, T))) = S \cup Within(ct, Within(ct, Within(ct, T)))
  BY <1>2, <1>4
<1> QED
  BY <1>5 DEF Entirely, k

\* One slot is emptied, after S was freed.
LEMMA SlotGivenUp ==
    ASSUME NEW h0 \in Heaps, NEW h, NEW hl, NEW cn, NEW sl, NEW ct, NEW lo, NEW S, Complete(ct, S),
           Intact(h, hl, cn, sl, Spared(ct, S), LooseSpared(lo, S)), FreedBut(h0, h, S),
           NEW o \in Origins, NEW u \in Sheets, sl[o] = u,
           NEW sl2 \in [Origins -> Sheets \cup {Null}],
           sl2[o] = Null, OtherSlots(sl, sl2, o),
           NEW R, R = S \cup Entirely(ct, GivenUp(h, u))
    PROVE  /\ Intact(SheetUnrefed(h, u), hl, cn, sl2, Spared(ct, R), LooseSpared(lo, R))
           /\ FreedBut(h0, SheetUnrefed(h, u), R)
<1> DEFINE k == Spared(ct, S)
           m == LooseSpared(lo, S)
           D == Entirely(k, GivenUp(h, u))
<1>1. Intact(h, hl, cn, sl, k, m) /\ SheetCounts(h, hl, cn, sl) /\ cn \in [Sheets -> Nat]
  BY DEF Intact
<1>2. /\ h.refs[u] = cn[u] + Cardinality(SlotsOf(sl, u))
      /\ u \in h.live <=> u \in hl \/ h.refs[u] > 0
      /\ u \in hl => h.refs[u] = 0
  BY <1>1 DEF SheetCounts, SlotsOf
<1>3. \A t \in Sheets :
         /\ Cardinality(SlotsOf(sl, t)) \in Nat
         /\ u = t => Cardinality(SlotsOf(sl, t)) > 0
         /\ Cardinality(SlotsOf(sl2, t)) = Cardinality(SlotsOf(sl, t)) - (IF u = t THEN 1 ELSE 0)
  <2> TAKE t \in Sheets
  <2>1. Null # t
    BY Disjoint
  <2>2. /\ Cardinality(SlotsOf(sl, t)) \in Nat
        /\ sl[o] = t => Cardinality(SlotsOf(sl, t)) > 0
        /\ Cardinality(SlotsOf(sl2, t)) = Cardinality(SlotsOf(sl, t))
                                          - (IF sl[o] = t THEN 1 ELSE 0) + (IF sl2[o] = t THEN 1 ELSE 0)
    BY SlotCounts
  <2> QED
    BY <2>1, <2>2
<1>4. cn[u] \in Nat /\ h.refs[u] > 0
  <2>1. cn[u] \in Nat
    BY <1>1
  <2> QED
    BY <1>2, <1>3, <2>1
<1>5. u \in h.live /\ hl \ {u} = hl
  BY <1>2, <1>4
<1>6. OneLess(h, u, cn, sl, cn, sl2)
  <2> SUFFICES ASSUME NEW t \in Sheets
               PROVE  cn[t] + Cardinality(SlotsOf(sl2, t)) =
                         IF t # u THEN cn[t] + Cardinality(SlotsOf(sl, t))
                         ELSE IF h.refs[u] > 0 THEN h.refs[u] - 1 ELSE 0
    BY DEF OneLess
  <2>1. cn[t] \in Nat
    BY <1>1
  <2> QED
    BY <1>2, <1>3, <1>4, <2>1
<1>7. /\ Intact(SheetUnrefed(h, u), hl \ {u}, cn, sl2, Spared(k, D), LooseSpared(m, D))
      /\ FreedBut(h, SheetUnrefed(h, u), D)
  <2>1. D = Entirely(k, GivenUp(h, u))
    OBVIOUS
  <2> HIDE DEF k, m, D
  <2> QED
    BY <1>1, <1>5, <1>6, <2>1, SheetGivenUp
<1>8. S \cup D = R
  BY EntirelyInTurn
<1> HIDE DEF D
<1>9. FreedBut(h0, SheetUnrefed(h, u), S \cup D)
  BY <1>7, FreedInTurn
<1>10. Spared(k, D) = Spared(ct, S \cup D) /\ LooseSpared(m, D) = LooseSpared(lo, S \cup D)
  BY SparedInTurn
<1> HIDE DEF k, m
<1> QED
  BY <1>5, <1>7, <1>8, <1>9, <1>10

\* The heap after the first i slots have been given up.
Unrefed(h, sl, after) ==
    after = [i \in 0..NB_ORIGINS |->
               IF i = 0 THEN h
               ELSE IF sl[i - 1] = Null THEN after[i - 1]
               ELSE SheetUnrefed(after[i - 1], sl[i - 1])]

LEMMA UnrefedExists ==
    ASSUME NEW h \in Heaps, NEW sl \in [Origins -> Sheets \cup {Null}]
    PROVE  Unrefed(h, sl, CHOOSE after : Unrefed(h, sl, after))
<1> DEFINE n == NB_ORIGINS
           step == [p \in (1..n) \X Heaps |->
                      IF sl[p[1] - 1] = Null THEN p[2] ELSE SheetUnrefed(p[2], sl[p[1] - 1])]
<1>1. n \in Nat
  BY StatementAssumption
<1>2. step \in [(1..n) \X Heaps -> Heaps]
  <2> SUFFICES ASSUME NEW i \in 1..n, NEW g \in Heaps
               PROVE  (IF sl[i - 1] = Null THEN g ELSE SheetUnrefed(g, sl[i - 1])) \in Heaps
    OBVIOUS
  <2>1. i - 1 \in Origins
    BY <1>1 DEF Origins
  <2>2. sl[i - 1] \in Sheets \cup {Null}
    BY <2>1
  <2> QED
    BY <2>2, SheetUnrefedIs
<1>3. \A i \in 1..n, g \in Heaps :
         step[<<i, g>>] = IF sl[i - 1] = Null THEN g ELSE SheetUnrefed(g, sl[i - 1])
  OBVIOUS
<1> HIDE DEF step
<1>4. PICK f : f \in Recursion(n, Heaps, h, step)
  BY <1>1, <1>2, RecursionHasSolution
<1>5. f \in [0..n -> Heaps] /\ f[0] = h /\ \A i \in 1..n : f[i] = step[<<i, f[i-1]>>]
  BY <1>4 DEF Recursion
<1>6. \A i \in 1..n : f[i] = IF sl[i - 1] = Null THEN f[i - 1] ELSE SheetUnrefed(f[i - 1], sl[i - 1])
  <2> TAKE i \in 1..n
  <2>1. f[i - 1] \in Heaps
    BY <1>1, <1>5
  <2> QED
    BY <1>3, <1>5, <2>1
<1>7. f = [i \in 0..n |-> f[i]]
  BY <1>5
<1>8. \A i \in 0..n : f[i] = IF i = 0 THEN h
                             ELSE IF sl[i - 1] = Null THEN f[i - 1]
                             ELSE SheetUnrefed(f[i - 1], sl[i - 1])
  BY <1>1, <1>5, <1>6
<1>9. Unrefed(h, sl, f)
  BY <1>7, <1>8 DEF Unrefed
<1> QED
  BY <1>9

\* The slots, with the first i given up.
Emptied(sl, i) == [o \in Origins |-> IF o < i THEN Null ELSE sl[o]]

LEMMA CascadeGivenUp ==
    ASSUME NEW h, NEW hl, NEW cn, NEW sl, NEW ct, NEW lo, Intact(h, hl, cn, sl, ct, lo),
           NEW after, Unrefed(h, sl, after)
    PROVE  \E T \in SUBSET Sheets :
              /\ Intact(after[NB_ORIGINS], hl, cn, [o \in Origins |-> Null],
                        Spared(ct, Entirely(ct, T)), LooseSpared(lo, Entirely(ct, T)))
              /\ FreedBut(h, after[NB_ORIGINS], Entirely(ct, T))
<1> DEFINE n == NB_ORIGINS
           Turn(i, T) == /\ Intact(after[i], hl, cn, Emptied(sl, i),
                                   Spared(ct, Entirely(ct, T)), LooseSpared(lo, Entirely(ct, T)))
                         /\ FreedBut(h, after[i], Entirely(ct, T))
           G == {i \in 0..n : \E T \in SUBSET Sheets : Turn(i, T)}
<1>1. /\ h \in Heaps /\ sl \in [Origins -> Sheets \cup {Null}]
      /\ cn \in [Sheets -> Nat] /\ Sorted(h, ct, lo) /\ n \in Nat
      /\ Intact(h, hl, cn, sl, ct, lo) /\ ct \in [Owners -> Seq(Nodes)]
  BY StatementAssumption DEF Intact, Represents
<1>4. after[0] = h /\ \A i \in 0..n-1 : after[i + 1] = IF sl[i] = Null THEN after[i]
                                                         ELSE SheetUnrefed(after[i], sl[i])
  <2>1. after[0] = h
    BY <1>1 DEF Unrefed
  <2>2. ASSUME NEW i \in 0..n-1
        PROVE  after[i + 1] = IF sl[i] = Null THEN after[i] ELSE SheetUnrefed(after[i], sl[i])
    <3>1. i + 1 \in 0..n /\ i + 1 # 0 /\ (i + 1) - 1 = i
      BY <1>1
    <3> QED
      BY <3>1 DEF Unrefed
  <2> QED
    BY <2>1, <2>2
<1>5. Emptied(sl, 0) = sl /\ Emptied(sl, n) = [o \in Origins |-> Null]
  BY <1>1 DEF Emptied, Origins
<1>6. 0 \in G
  <2>1. Complete(ct, {})
    BY DEF Complete
  <2>2. Entirely(ct, {}) = {}
    BY <2>1, EntirelyComplete
  <2>3. Spared(ct, {}) = ct /\ LooseSpared(lo, {}) = lo
    BY <1>1 DEF Spared, LooseSpared
  <2>4. FreedBut(h, h, {})
    BY <1>1 DEF FreedBut
  <2>5. Turn(0, {})
    BY <1>1, <1>4, <1>5, <2>2, <2>3, <2>4
  <2> HIDE DEF Turn
  <2> QED
    BY <1>1, <2>5
<1>7. \A i \in 0..n-1 : i \in G => i + 1 \in G
  <2> SUFFICES ASSUME NEW i \in 0..n-1, NEW T \in SUBSET Sheets, Turn(i, T)
               PROVE  \E U \in SUBSET Sheets : Turn(i + 1, U)
    BY <1>1
  <2>1. i \in Origins /\ sl[i] \in Sheets \cup {Null}
    BY <1>1 DEF Origins
  <2>2. OtherSlots(Emptied(sl, i), Emptied(sl, i + 1), i) /\ Emptied(sl, i + 1)[i] = Null
    BY <1>1 DEF OtherSlots, Emptied, Origins
  <2>3. Emptied(sl, i)[i] = sl[i] /\ Emptied(sl, i + 1) \in [Origins -> Sheets \cup {Null}]
    BY <1>1, <2>1 DEF Emptied
  <2>4. /\ Intact(after[i], hl, cn, Emptied(sl, i),
                  Spared(ct, Entirely(ct, T)), LooseSpared(lo, Entirely(ct, T)))
        /\ FreedBut(h, after[i], Entirely(ct, T))
    OBVIOUS
  <2>5. CASE sl[i] = Null
    <3>1. Emptied(sl, i + 1) = Emptied(sl, i)
      <4>1. \A p \in Origins : Emptied(sl, i + 1)[p] = Emptied(sl, i)[p]
        BY <2>2, <2>3, <2>5 DEF OtherSlots
      <4>2. Emptied(sl, i) \in [Origins -> Sheets \cup {Null}]
        BY <2>4 DEF Intact
      <4> QED
        BY <2>3, <4>1, <4>2
    <3>2. after[i + 1] = after[i]
      BY <1>4, <2>5
    <3>3. Turn(i + 1, T)
      BY <3>1, <3>2
    <3> QED
      BY <3>3
  <2>6. CASE sl[i] # Null
    <3>1. sl[i] \in Sheets
      BY <2>1, <2>6
    <3>2. Complete(ct, Entirely(ct, T))
      BY <1>1, EntirelyIsComplete
    <3> DEFINE V == GivenUp(after[i], sl[i])
               S == Entirely(ct, T)
               R == S \cup Entirely(ct, V)
               e == Emptied(sl, i)
               f == Emptied(sl, i + 1)
               g == after[i]
               u == sl[i]
    <3>3. /\ Intact(SheetUnrefed(g, u), hl, cn, f, Spared(ct, R), LooseSpared(lo, R))
          /\ FreedBut(h, SheetUnrefed(g, u), R)
      <4>1. Intact(g, hl, cn, e, Spared(ct, S), LooseSpared(lo, S)) /\ FreedBut(h, g, S)
        BY <2>4
      <4>2. /\ e[i] = u /\ u \in Sheets /\ f \in [Origins -> Sheets \cup {Null}]
            /\ OtherSlots(e, f, i) /\ f[i] = Null /\ Complete(ct, S)
        BY <2>2, <2>3, <3>1, <3>2
      <4>3. R = S \cup Entirely(ct, GivenUp(g, u))
        OBVIOUS
      <4> HIDE DEF S, R, e, f, g, u
      <4> QED
        BY <1>1, <2>1, <4>1, <4>2, <4>3, SlotGivenUp
    <3>4. R = Entirely(ct, T \cup V)
      BY EntirelyUnion
    <3> HIDE DEF R
    <3>5. after[i + 1] = SheetUnrefed(after[i], sl[i])
      BY <1>4, <2>6
    <3>6. T \cup V \in SUBSET Sheets
      BY <3>1 DEF GivenUp
    <3> HIDE DEF V
    <3>7. Turn(i + 1, T \cup V)
      BY <3>3, <3>4, <3>5
    <3> HIDE DEF Turn
    <3> QED
      BY <3>6, <3>7
  <2> QED
    BY <2>5, <2>6
<1>8. 0..n \subseteq G
  <2> HIDE DEF G
  <2> QED
    BY <1>1, <1>6, <1>7, InductionUpTo
<1>9. PICK T \in SUBSET Sheets : Turn(n, T)
  BY <1>1, <1>8
<1> QED
  BY <1>5, <1>9

-----------------------------------------------------------------------------
(* The steps: the invariant, and the step of the abstract lists.             *)

ListsStep == Lists!Next \/ UNCHANGED Lists!listVars

LEMMA Departed ==
    ASSUME IInv
    PROVE  /\ Consistent(heap, held, counted, slots, ContentsIn(heap), LooseIn(heap, held))
           /\ [o \in Owners |-> ListOf(heap, o)] = ContentsIn(heap)
           /\ {From(heap, a) : a \in held \cap Nodes} = LooseIn(heap, held)
           /\ heap \in Heaps /\ held \subseteq heap.live
           /\ Represents(heap, held, ContentsIn(heap), LooseIn(heap, held))
           /\ Sorted(heap, ContentsIn(heap), LooseIn(heap, held))
           /\ Named(heap) /\ ListCounts(heap, held) /\ SheetCounts(heap, held, counted, slots)
           /\ counted \in [Sheets -> Nat] /\ slots \in [Origins -> Sheets \cup {Null}]
BY DEF IInv, Consistent, ContentsIn, LooseIn

LEMMA Arrived ==
    ASSUME NEW ct, NEW lo, Consistent(heap', held', counted', slots', ct, lo)
    PROVE  /\ IInv'
           /\ [o \in Owners |-> ListOf(heap, o)]' = ct
           /\ {From(heap, a) : a \in held \cap Nodes}' = lo
<1>1. Represents(heap', held', ct, lo)
  BY DEF Consistent
<1>2. ct = ContentsIn(heap') /\ lo = LooseIn(heap', held')
  BY <1>1, Represented
<1> QED
  BY <1>2 DEF IInv, ContentsIn, LooseIn

\* A list that is handed over, by its first node.
LEMMA LooseList ==
    ASSUME IInv, NEW a \in held \cap Nodes
    PROVE  /\ From(heap, a) \in LooseIn(heap, held) /\ From(heap, a)[1] = a
           /\ From(heap, a) # <<>>
           /\ From(heap, a) \in Seq(Nodes) /\ Len(From(heap, a)) \in Nat \ {0}
           /\ Range(From(heap, a)) \subseteq Members(heap) /\ a \in Range(From(heap, a))
           /\ a \in Decls => Range(From(heap, a)) \subseteq Decls
           /\ a \in Stmts => Range(From(heap, a)) \subseteq Stmts
<1> DEFINE b == From(heap, a)
<1>1. b \in LooseIn(heap, held) /\ b[1] = a
  BY Departed, Represented
<1>2. /\ b # <<>> /\ b \in Seq(Nodes) /\ Len(b) \in Nat \ {0} /\ Range(b) \subseteq Members(heap)
      /\ b[1] \in Range(b)
  BY <1>1, Departed, ListsKnown
<1> HIDE DEF b
<1>3. Range(b) \subseteq Decls \/ Range(b) \subseteq Stmts
  BY <1>1, Departed DEF Sorted
<1> QED
  BY <1>1, <1>2, <1>3, Disjoint DEF b

\* A step that arrives at these lists is one of the abstract lists.
LEMMA StutterStep ==
    ASSUME IInv, Members(heap') = Members(heap),
           Consistent(heap', held', counted', slots', ContentsIn(heap), LooseIn(heap, held))
    PROVE  IInv' /\ ListsStep
<1>1. /\ IInv'
      /\ [o \in Owners |-> ListOf(heap, o)]' = ContentsIn(heap)
      /\ {From(heap, a) : a \in held \cap Nodes}' = LooseIn(heap, held)
  BY Arrived
<1>2. UNCHANGED Lists!listVars
  BY <1>1, Departed DEF Lists!listVars, Members
<1> QED
  BY <1>1, <1>2 DEF ListsStep

LEMMA MakeStep ==
    ASSUME IInv, NEW n \in Nodes, n \notin heap.live, NEW b \in LooseIn(heap, held) \cup {<<>>},
           Members(heap') = Members(heap) \cup {n},
           Consistent(heap', held', counted', slots',
                      IF b = <<>> THEN ContentsIn(heap) ELSE [ContentsIn(heap) EXCEPT ![n] = b],
                      (LooseIn(heap, held) \ {b}) \cup {<<n>>})
    PROVE  IInv' /\ ListsStep
<1>1. /\ IInv'
      /\ [o \in Owners |-> ListOf(heap, o)]' =
            IF b = <<>> THEN ContentsIn(heap) ELSE [ContentsIn(heap) EXCEPT ![n] = b]
      /\ {From(heap, a) : a \in held \cap Nodes}' = (LooseIn(heap, held) \ {b}) \cup {<<n>>}
  BY Arrived
<1>2. Lists!Make(n, b)
  BY <1>1, Departed DEF Lists!Make, Members
<1> QED
  BY <1>1, <1>2, Departed DEF ListsStep, Lists!Next, Lists!Nothing

Inserted(ct, ct2, o, n, b) ==
    /\ ct2 = [p \in Owners |-> ct2[p]]
    /\ \A p \in Owners : ct2[p] = IF p = o THEN Append(ct[o], n) ELSE IF p = n THEN b ELSE ct[p]

LEMMA MakeInStep ==
    ASSUME IInv, NEW n \in Nodes, n \notin heap.live, NEW b \in LooseIn(heap, held) \cup {<<>>},
           NEW o \in Owners, o # n, Members(heap') = Members(heap) \cup {n},
           NEW ct, Inserted(ContentsIn(heap), ct, o, n, b),
           Consistent(heap', held', counted', slots', ct, LooseIn(heap, held) \ {b})
    PROVE  IInv' /\ ListsStep
<1>1. /\ IInv'
      /\ [p \in Owners |-> ListOf(heap, p)]' = ct
      /\ {From(heap, a) : a \in held \cap Nodes}' = LooseIn(heap, held) \ {b}
  BY Arrived
<1>2. ct = [p \in Owners |-> CASE p = o -> Append(ContentsIn(heap)[o], n)
                               [] p = n -> b
                               [] OTHER -> ContentsIn(heap)[p]]
  BY Zenon DEF Inserted
<1>3. Lists!MakeIn(o, n, b)
  BY <1>1, <1>2, Departed DEF Lists!MakeIn, Members
<1> QED
  BY <1>1, <1>3, Departed DEF ListsStep, Lists!Next, Lists!Nothing

LEMMA MakeBehindStep ==
    ASSUME IInv, NEW n \in Nodes, n \notin heap.live, NEW a \in LooseIn(heap, held),
           Members(heap') = Members(heap) \cup {n},
           Consistent(heap', held', counted', slots', ContentsIn(heap),
                      (LooseIn(heap, held) \ {a}) \cup {Append(a, n)})
    PROVE  IInv' /\ ListsStep
<1>1. /\ IInv'
      /\ [o \in Owners |-> ListOf(heap, o)]' = ContentsIn(heap)
      /\ {From(heap, x) : x \in held \cap Nodes}' = (LooseIn(heap, held) \ {a}) \cup {Append(a, n)}
  BY Arrived
<1>2. Lists!MakeBehind(a, n)
  BY <1>1, Departed DEF Lists!MakeBehind, Members
<1> QED
  BY <1>1, <1>2, Departed DEF ListsStep, Lists!Next

LEMMA JoinStep ==
    ASSUME IInv, NEW a \in LooseIn(heap, held), NEW b \in LooseIn(heap, held), a # b,
           Members(heap') = Members(heap),
           Consistent(heap', held', counted', slots', ContentsIn(heap),
                      (LooseIn(heap, held) \ {a, b}) \cup {a \o b})
    PROVE  IInv' /\ ListsStep
<1>1. /\ IInv'
      /\ [o \in Owners |-> ListOf(heap, o)]' = ContentsIn(heap)
      /\ {From(heap, x) : x \in held \cap Nodes}' = (LooseIn(heap, held) \ {a, b}) \cup {a \o b}
  BY Arrived
<1>2. Lists!Join(a, b)
  BY <1>1, Departed DEF Lists!Join, Members
<1> QED
  BY <1>1, <1>2, Departed DEF ListsStep, Lists!Next

LEMMA GiveStep ==
    ASSUME IInv, NEW o \in Owners, NEW b \in LooseIn(heap, held),
           Members(heap') = Members(heap),
           Consistent(heap', held', counted', slots',
                      [ContentsIn(heap) EXCEPT ![o] = @ \o b], LooseIn(heap, held) \ {b})
    PROVE  IInv' /\ ListsStep
<1>1. /\ IInv'
      /\ [p \in Owners |-> ListOf(heap, p)]' = [ContentsIn(heap) EXCEPT ![o] = @ \o b]
      /\ {From(heap, x) : x \in held \cap Nodes}' = LooseIn(heap, held) \ {b}
  BY Arrived
<1>2. Lists!Give(o, b)
  BY <1>1, Departed DEF Lists!Give, Members
<1> QED
  BY <1>1, <1>2, Departed DEF ListsStep, Lists!Next

LEMMA ReplaceStep ==
    ASSUME IInv, NEW o \in Owners, NEW b \in LooseIn(heap, held) \cup {<<>>},
           Members(heap') = Members(heap) \ Range(ContentsIn(heap)[o]),
           Consistent(heap', held', counted', slots',
                      [ContentsIn(heap) EXCEPT ![o] = b], LooseIn(heap, held) \ {b})
    PROVE  IInv' /\ ListsStep
<1>1. /\ IInv'
      /\ [p \in Owners |-> ListOf(heap, p)]' = [ContentsIn(heap) EXCEPT ![o] = b]
      /\ {From(heap, x) : x \in held \cap Nodes}' = LooseIn(heap, held) \ {b}
  BY Arrived
<1>2. Lists!Replace(o, b)
  <2>1. (heap.live \cap Nodes)' =
           (heap.live \cap Nodes) \ Lists!Range([p \in Owners |-> ListOf(heap, p)][o])
    <3>1. [p \in Owners |-> ListOf(heap, p)][o] = ContentsIn(heap)[o]
      BY Departed
    <3>2. Lists!Range(ContentsIn(heap)[o]) = Range(ContentsIn(heap)[o])
      BY DEF Lists!Range, Range
    <3> QED
      BY <3>1, <3>2 DEF Members
  <2> QED
    BY <1>1, <2>1, Departed DEF Lists!Replace
<1> QED
  BY <1>1, <1>2, Departed DEF ListsStep, Lists!Next, Lists!Nothing

LEMMA TakeStep ==
    ASSUME IInv, NEW n \in Members(heap), Members(heap') = Members(heap),
           Consistent(heap', held', counted', slots',
                      [o \in Owners |-> Lists!Without(ContentsIn(heap)[o], n)],
                      ({Lists!Without(b, n) : b \in LooseIn(heap, held)} \ {<<>>}) \cup {<<n>>})
    PROVE  IInv' /\ ListsStep
<1>1. /\ IInv'
      /\ [o \in Owners |-> ListOf(heap, o)]' =
            [o \in Owners |-> Lists!Without(ContentsIn(heap)[o], n)]
      /\ {From(heap, x) : x \in held \cap Nodes}' =
            ({Lists!Without(b, n) : b \in LooseIn(heap, held)} \ {<<>>}) \cup {<<n>>}
  BY Arrived
<1>2. Lists!Take(n)
  BY <1>1, Departed DEF Lists!Take, Members, Lists!Nothing
<1> QED
  BY <1>1, <1>2, Departed DEF ListsStep, Lists!Next, Members

LEMMA DeepIs ==
    ASSUME IInv, NEW S
    PROVE  Lists!Deep(S) = Entirely(ContentsIn(heap), S)
BY Departed DEF Lists!Deep, Lists!Inside, Entirely, Within, Lists!Range, Range

LEMMA FreeStep ==
    ASSUME IInv, NEW S, NEW D, D = Entirely(ContentsIn(heap), S),
           (\E b \in LooseIn(heap, held) : S = Range(b)) \/ S \in SUBSET Sheets,
           heap'.live = heap.live \ D,
           Consistent(heap', held', counted', slots',
                      Spared(ContentsIn(heap), D), LooseSpared(LooseIn(heap, held), D))
    PROVE  IInv' /\ ListsStep
<1>1. /\ IInv'
      /\ [o \in Owners |-> ListOf(heap, o)]' = Spared(ContentsIn(heap), D)
      /\ {From(heap, x) : x \in held \cap Nodes}' = LooseSpared(LooseIn(heap, held), D)
  BY Arrived
<1>2. Lists!Deep(S) = D
  BY DeepIs
<1>3. Lists!Free(S)
  <2>1. (heap.live \cap Nodes)' = (heap.live \cap Nodes) \ D
    OBVIOUS
  <2>2. [o \in Owners |-> ListOf(heap, o)]' =
           [o \in Owners |-> IF o \in D THEN <<>> ELSE [p \in Owners |-> ListOf(heap, p)][o]]
    BY <1>1, Departed DEF Spared
  <2>3. {From(heap, x) : x \in held \cap Nodes}' =
           {b \in {From(heap, x) : x \in held \cap Nodes} : Range(b) \cap D = {}}
    BY <1>1, Departed DEF LooseSpared
  <2> QED
    BY <1>2, <2>1, <2>2, <2>3 DEF Lists!Free, Lists!Range, Range
<1>4. CASE S \in SUBSET Sheets
  <2>1. S \in SUBSET (Owners \ Nodes)
    BY <1>4, Disjoint
  <2> QED
    BY <1>1, <1>3, <2>1 DEF ListsStep, Lists!Next
<1>5. CASE \E b \in LooseIn(heap, held) : S = Range(b)
  <2>1. PICK b \in {From(heap, x) : x \in held \cap Nodes} : S = Range(b)
    BY <1>5, Departed
  <2>2. Lists!Free(Lists!Range(b))
    BY <1>3, <2>1 DEF Lists!Range, Range
  <2> QED
    BY <1>1, <2>1, <2>2 DEF ListsStep, Lists!Next
<1> QED
  BY <1>4, <1>5

\* The application's lists.
LEMMA LooseHeads ==
    ASSUME IInv, NEW a \in held \cap Nodes, NEW n \in held \cap Nodes, a # n
    PROVE  From(heap, a) # From(heap, n)
BY LooseList

-----------------------------------------------------------------------------
(* The operations on declarations.                                           *)

LEMMA NewDeclarationStep ==
    ASSUME IInv, NEW d \in Decls, NEW s \in Stmts \cup {Null}, NewDeclaration(d, s)
    PROVE  IInv' /\ ListsStep
<1> DEFINE ct == ContentsIn(heap)
           lo == LooseIn(heap, held)
<1>1. /\ Consistent(heap, held, counted, slots, ct, lo) /\ <<>> \notin lo
  BY Departed, ListsApart
<1>2. /\ d \notin heap.live /\ s \in heap.live \cup {Null} /\ s \in Owners \cup {Null}
      /\ heap' = [Allocated(heap, d) EXCEPT !.parent[d] = s]
      /\ held' = held \cup {d} /\ counted' = counted /\ slots' = slots
  BY DEF NewDeclaration, Fresh, Declares, SameSheets, Owners
<1> HIDE DEF ct, lo
<1>3. Consistent(heap', held', counted', slots', ct, lo \cup {<<d>>})
  BY <1>1, <1>2, NodeMade
<1>4. Members(heap') = Members(heap) \cup {d} /\ d \in Nodes
  <2>1. heap'.live = heap.live \cup {d}
    BY <1>2, Departed DEF Allocated, Heaps
  <2> QED
    BY <2>1 DEF Members, Nodes
<1>5. lo \cup {<<d>>} = (lo \ {<<>>}) \cup {<<d>>}
  BY <1>1
<1> QED
  BY <1>2, <1>3, <1>4, <1>5, MakeStep DEF ct, lo

LEMMA AppendListStep ==
    ASSUME IInv, NEW C \in {Decls, Stmts}, NEW a \in C, NEW n \in C, AppendList(C, a, n)
    PROVE  IInv' /\ ListsStep
<1> DEFINE ct == ContentsIn(heap)
           lo == LooseIn(heap, held)
<1>1. /\ Consistent(heap, held, counted, slots, ct, lo) /\ C \subseteq Nodes
  BY Departed DEF Nodes
<1>2. /\ a \in held \cap Nodes /\ n \in held \cap Nodes /\ a # n
      /\ n \in Decls => heap.refs[n] = 0
      /\ heap' = Appended(heap, a, n)
      /\ held' = held \ {n} /\ counted' = counted /\ slots' = slots
  BY <1>1 DEF AppendList, Loose, SameSheets
<1>3. PICK b \in lo : b = From(heap, a) /\ b[1] = a
  BY <1>2, LooseList
<1>4. PICK c \in lo : c = From(heap, n) /\ c[1] = n
  BY <1>2, LooseList
<1>5. b # c
  BY <1>2, <1>3, <1>4
<1> HIDE DEF ct, lo
<1>6. Consistent(Appended(heap, b[1], c[1]), held \ {c[1]}, counted, slots, ct, (lo \ {b, c}) \cup {b \o c})
  <2>1. b[1] \in C /\ c[1] \in C /\ (c[1] \in Decls => heap.refs[c[1]] <= 1)
    BY <1>2, <1>3, <1>4
  <2> QED
    BY <1>1, <1>5, <2>1, JoinedConsistent
<1>7. Members(heap') = Members(heap)
  BY <1>2, Departed DEF Appended, Members, Heaps
<1> QED
  BY <1>2, <1>3, <1>4, <1>5, <1>6, <1>7, JoinStep DEF ct, lo

LEMMA AppendNewDeclarationStep ==
    ASSUME IInv, NEW a \in Decls, NEW d \in Decls, AppendNewDeclaration(a, d)
    PROVE  IInv' /\ ListsStep
<1> DEFINE ct == ContentsIn(heap)
           lo == LooseIn(heap, held)
           h1 == [Allocated(heap, d) EXCEPT !.parent[d] = heap.parent[a]]
<1>1. /\ Consistent(heap, held, counted, slots, ct, lo) /\ d \in Nodes /\ a \in Nodes
      /\ held \subseteq heap.live /\ heap \in Heaps
  BY Departed DEF Nodes
<1>2. /\ a \in held \cap Nodes /\ d \notin heap.live
      /\ heap' = Appended(h1, a, d)
      /\ held' = held /\ counted' = counted /\ slots' = slots
  BY <1>1 DEF AppendNewDeclaration, Loose, SameSheets, Fresh
<1>3. heap.parent[a] \in heap.live \cup {Null} /\ heap.parent[a] \in Owners \cup {Null}
  <2>1. a \in Members(heap)
    BY <1>1, <1>2 DEF Members
  <2> QED
    BY <1>1, <2>1, Departed DEF Named, ParentsLive, Heaps
<1>4. Consistent(h1, held \cup {d}, counted, slots, ct, lo \cup {<<d>>})
  <2> HIDE DEF ct, lo
  <2> QED
    BY <1>1, <1>2, <1>3, NodeMade
<1>5. h1.live = heap.live \cup {d} /\ h1.refs[d] = 0 /\ h1 \in Heaps
  <2>1. heap.refs[d] = 0
    BY <1>2, Departed DEF Named, Blank
  <2> QED
    BY <1>1, <2>1, <1>4 DEF Allocated, Heaps, Consistent
<1>6. PICK b \in lo : b = From(heap, a) /\ b[1] = a /\ b \in Seq(Nodes) /\ Range(b) \subseteq Members(heap)
  BY <1>2, LooseList
<1>7. b # <<d>> /\ <<d>>[1] = d /\ <<d>> \notin lo
  <2>1. \A c \in lo : c[1] \in Members(heap)
    <3>1. \A c \in lo : c[1] \in Range(c) /\ Range(c) \subseteq Members(heap)
      BY Departed, ListsKnown
    <3> QED
      BY <3>1
  <2>2. <<d>>[1] = d
    OBVIOUS
  <2> HIDE DEF lo
  <2> QED
    BY <1>2, <2>1, <2>2 DEF Members
<1>8. (h1 = h1 /\ b \o <<d>> = Append(b, d)) /\ held = (held \cup {d}) \ {d}
  BY <1>1, <1>2, <1>6
<1> HIDE DEF ct, lo, h1
<1>9. Consistent(Appended(h1, b[1], <<d>>[1]), (held \cup {d}) \ {<<d>>[1]}, counted, slots, ct,
                 ((lo \cup {<<d>>}) \ {b, <<d>>}) \cup {b \o <<d>>})
  <2>1. b[1] \in Decls /\ <<d>>[1] \in Decls /\ (<<d>>[1] \in Decls => h1.refs[<<d>>[1]] <= 1)
    BY <1>5, <1>6, <1>7
  <2>2. b \in lo \cup {<<d>>} /\ <<d>> \in lo \cup {<<d>>}
    BY <1>6
  <2> DEFINE lo1 == lo \cup {<<d>>}
             e == <<d>>
  <2>3. /\ b[1] \in Decls /\ e[1] \in Decls /\ (e[1] \in Decls => h1.refs[e[1]] <= 1)
        /\ b \in lo1 /\ e \in lo1 /\ b # e
        /\ Consistent(h1, held \cup {d}, counted, slots, ct, lo1)
    BY <1>4, <1>7, <2>1, <2>2
  <2> HIDE DEF lo1, e
  <2>4. Consistent(Appended(h1, b[1], e[1]), (held \cup {d}) \ {e[1]}, counted, slots, ct,
                   (lo1 \ {b, e}) \cup {b \o e})
    BY <2>3, JoinedConsistent
  <2> QED
    BY <2>4 DEF lo1, e
<1>10. ((lo \cup {<<d>>}) \ {b, <<d>>}) \cup {b \o <<d>>} = (lo \ {b}) \cup {Append(b, d)}
  BY <1>7, <1>8
<1>11. Consistent(heap', held', counted', slots', ct, (lo \ {b}) \cup {Append(b, d)})
  BY <1>2, <1>6, <1>7, <1>8, <1>9, <1>10
<1>12. Members(heap') = Members(heap) \cup {d}
  BY <1>1, <1>2, <1>5 DEF Appended, Members, Heaps
<1> QED
  BY <1>1, <1>2, <1>11, <1>12, MakeBehindStep DEF ct, lo

LEMMA PrependNodeStep ==
    ASSUME IInv, NEW C \in {Decls, Stmts}, NEW a \in C, NEW n \in C, PrependNode(C, a, n)
    PROVE  IInv' /\ ListsStep
<1> DEFINE ct == ContentsIn(heap)
           lo == LooseIn(heap, held)
<1>1. /\ Consistent(heap, held, counted, slots, ct, lo) /\ C \subseteq Nodes
  BY Departed DEF Nodes
<1>2. /\ a \in held \cap Nodes /\ n \in held \cap Nodes /\ a # n
      /\ a \in Decls => heap.refs[a] = 0
      /\ heap.next[n] = Null
      /\ heap' = Prepended(heap, a, n)
      /\ held' = held \ {a} /\ counted' = counted /\ slots' = slots
  BY <1>1 DEF PrependNode, Loose, SameSheets
<1>3. PICK b \in lo : b = From(heap, a) /\ b[1] = a
  BY <1>2, LooseList
<1>4. PICK c \in lo : c = From(heap, n) /\ c[1] = n /\ c \in Seq(Nodes) /\ Len(c) \in Nat \ {0}
  BY <1>2, LooseList
<1>5. b # c
  BY <1>2, <1>3, <1>4
<1>6. Len(c) = 1
  <2>1. c \in Listed(ct, lo) /\ Chained(heap, Listed(ct, lo))
    BY Departed DEF Listed, Represents
  <2>2. 1 \in 1..Len(c)
    BY <1>4
  <2>3. heap.next[c[1]] = IF 1 = Len(c) THEN Null ELSE c[1 + 1]
    BY <2>1, <2>2 DEF Chained
  <2>4. CASE 1 # Len(c)
    <3>1. 1 + 1 \in 1..Len(c)
      <4>1. Len(c) \in Nat /\ Len(c) # 0 /\ Len(c) # 1
        BY <1>4, <2>4
      <4> QED
        BY <4>1
    <3>2. c[1 + 1] \in Nodes
      BY <1>4, <3>1, ElementOfSeq
    <3> QED
      BY <1>2, <1>4, <2>3, <2>4, <3>2, Disjoint
  <2> QED
    BY <2>4
<1>7. Appended(heap, n, a) = Prepended(heap, a, n)
  <2>1. Last(From(heap, n)) = n
    BY <1>4, <1>6 DEF Last
  <2>2. n # Null
    BY <1>2, Disjoint
  <2> QED
    BY <2>1, <2>2 DEF Appended, Prepended
<1> HIDE DEF ct, lo
<1>8. Consistent(Appended(heap, c[1], b[1]), held \ {b[1]}, counted, slots, ct, (lo \ {c, b}) \cup {c \o b})
  <2>1. b[1] \in C /\ c[1] \in C /\ (b[1] \in Decls => heap.refs[b[1]] <= 1)
    BY <1>2, <1>3, <1>4
  <2> QED
    BY <1>1, <1>5, <2>1, JoinedConsistent
<1>9. Members(heap') = Members(heap)
  BY <1>2, Departed DEF Prepended, Members, Heaps
<1>10. Consistent(heap', held', counted', slots', ct, (lo \ {c, b}) \cup {c \o b})
  BY <1>2, <1>3, <1>4, <1>7, <1>8
<1> QED
  BY <1>5, <1>9, <1>10, JoinStep DEF ct, lo

LEMMA UnlinkStep ==
    ASSUME IInv, NEW x \in Nodes, Unlink(x)
    PROVE  IInv' /\ ListsStep
<1> DEFINE ct == ContentsIn(heap)
           lo == LooseIn(heap, held)
<1>1. Consistent(heap, held, counted, slots, ct, lo)
  BY Departed
<1>2. /\ x \in Members(heap) /\ \A o \in Owners : heap.first[o] = x => heap.parent[x] = o
      /\ heap' = Unlinked(heap, x)
      /\ held' = held \cup {x} \cup (IF x \in held /\ heap.next[x] # Null THEN {heap.next[x]} ELSE {})
      /\ counted' = counted /\ slots' = slots
  BY DEF Unlink, MayUnlink, SameSheets, Members
<1>3. Members(heap') = Members(heap)
  BY <1>2, Departed, UnlinkedIs DEF Members
<1> HIDE DEF ct, lo
<1>4. Consistent(heap', held', counted', slots', [o \in Owners |-> Lists!Without(ct[o], x)],
                 ({Lists!Without(b, x) : b \in lo} \ {<<>>}) \cup {<<x>>})
  BY <1>1, <1>2, UnlinkedConsistent
<1> QED
  BY <1>2, <1>3, <1>4, TakeStep DEF ct, lo

LEMMA RefDeclarationStep ==
    ASSUME IInv, NEW d \in Decls, RefDeclaration(d)
    PROVE  IInv' /\ ListsStep
<1> DEFINE ct == ContentsIn(heap)
           lo == LooseIn(heap, held)
<1>1. /\ Consistent(heap, held, counted, slots, ct, lo) /\ heap \in Heaps /\ held \subseteq heap.live
      /\ Named(heap) /\ ListCounts(heap, held) /\ SheetCounts(heap, held, counted, slots)
      /\ counted \in [Sheets -> Nat] /\ slots \in [Origins -> Sheets \cup {Null}]
  BY Departed
<1>2. /\ d \in held /\ heap' = [heap EXCEPT !.refs[d] = @ + 1]
      /\ held' = held /\ counted' = counted /\ slots' = slots
  BY DEF RefDeclaration, Loose, SameSheets
<1>3. /\ heap' \in Heaps /\ heap'.live = heap.live /\ heap'.kind = heap.kind /\ heap'.next = heap.next
      /\ heap'.prev = heap.prev /\ heap'.first = heap.first /\ heap'.parent = heap.parent
      /\ \A x \in Decls \cup Sheets : heap'.refs[x] = IF x = d THEN heap.refs[x] + 1 ELSE heap.refs[x]
  BY <1>1, <1>2 DEF Heaps
<1>4. \A x \in Decls : IF x \in heap.live \ held THEN heap'.refs[x] <= 1
                       ELSE x \notin heap.live => heap'.refs[x] = 0
  BY <1>1, <1>2, <1>3 DEF ListCounts, Named, Blank
<1>5. SheetCounts(heap', held', counted', slots')
  <2>1. \A t \in Sheets : /\ heap'.refs[t] = heap.refs[t] /\ (t \in held' <=> t \in held)
                          /\ t \in heap'.live <=> t \in heap.live
    BY <1>2, <1>3, Disjoint
  <2> QED
    BY <1>1, <1>2, <2>1, SheetsKept
<1>6. \A x \in Members(heap) : heap'.parent[x] \in heap.live \cup {Null}
  BY <1>1, <1>3 DEF Named, ParentsLive
<1> HIDE DEF ct, lo
<1>7. Consistent(heap', held', counted', slots', ct, lo)
  <2>1. DataOnly(heap, held, heap')
    BY <1>3, <1>4, <1>6 DEF DataOnly
  <2>2. held' \subseteq heap.live /\ held' \cap Nodes = held \cap Nodes
    BY <1>1, <1>2
  <2> QED
    BY <1>1, <1>2, <1>3, <1>5, <2>1, <2>2, DataChanged
<1>8. Members(heap') = Members(heap)
  BY <1>3 DEF Members
<1> QED
  BY <1>7, <1>8, StutterStep DEF ct, lo

\* A loose list of declarations is freed.
LEMMA LooseDeclarations ==
    ASSUME NEW h, NEW hl, NEW cn, NEW sl, NEW ct, NEW lo, Consistent(h, hl, cn, sl, ct, lo),
           NEW b \in lo, Range(b) \subseteq Decls
    PROVE  /\ Consistent(Freed(h, Range(b)), hl \ {b[1]}, cn, sl,
                         Spared(ct, Range(b)), LooseSpared(lo, Range(b)))
           /\ hl \ {b[1]} = hl \ Range(b)
<1> DEFINE D == Entirely(ct, Range(b))
<1>1. h \in Heaps
  BY DEF Consistent
<1>2. D = Range(b)
  BY EntirelyDeclarations
<1>3. \A x \in Nodes : h.parent[x] \notin D
  BY <1>1, <1>2, NoParent
<1>4. D = Entirely(ct, Range(b))
  OBVIOUS
<1> HIDE DEF D
<1>5. Parentless(h, D)
  BY <1>3 DEF Members, Parentless
<1>6. /\ Consistent(Freed(h, D), hl \ {b[1]}, cn, sl, Spared(ct, D), LooseSpared(lo, D))
      /\ hl \ {b[1]} = hl \ D
  BY <1>4, <1>5, LooseFreed
<1> QED
  BY <1>2, <1>6

LEMMA DeclarationsFreed ==
    ASSUME IInv, NEW d \in Decls, d \in held, heap' = DeclsDestroyed(heap, d),
           held' = held \ {d}, counted' = counted, slots' = slots
    PROVE  IInv' /\ ListsStep
<1> DEFINE ct == ContentsIn(heap)
           lo == LooseIn(heap, held)
<1>1. Consistent(heap, held, counted, slots, ct, lo) /\ heap \in Heaps /\ d \in held \cap Nodes
  BY Departed DEF Nodes
<1>2. PICK b \in lo : b = From(heap, d) /\ b[1] = d /\ Range(b) \subseteq Decls
  BY <1>1, LooseList
<1>3. Entirely(ct, Range(b)) = Range(b)
  BY <1>2, EntirelyDeclarations
<1>4. heap' = Freed(heap, Range(b))
  BY <1>2 DEF DeclsDestroyed
<1>5. heap'.live = heap.live \ Range(b)
  BY <1>1, <1>4, FreedIs
<1> HIDE DEF ct, lo
<1>7. Consistent(Freed(heap, Range(b)), held \ {b[1]}, counted, slots,
                 Spared(ct, Range(b)), LooseSpared(lo, Range(b)))
  BY <1>1, <1>2, LooseDeclarations
<1>8. Consistent(heap', held', counted', slots', Spared(ct, Range(b)), LooseSpared(lo, Range(b)))
  BY <1>2, <1>4, <1>7
<1> QED
  BY <1>3, <1>5, <1>8, FreeStep DEF ct, lo

LEMMA DestroyDeclarationStep ==
    ASSUME IInv, NEW d \in Decls, DestroyDeclaration(d)
    PROVE  IInv' /\ ListsStep
BY DeclarationsFreed DEF DestroyDeclaration, Loose, SameSheets

LEMMA UnrefDeclarationStep ==
    ASSUME IInv, NEW d \in Decls, UnrefDeclaration(d)
    PROVE  IInv' /\ ListsStep
<1> DEFINE ct == ContentsIn(heap)
           lo == LooseIn(heap, held)
           left == IF heap.refs[d] > 0 THEN heap.refs[d] - 1 ELSE 0
<1>1. /\ Consistent(heap, held, counted, slots, ct, lo) /\ heap \in Heaps /\ held \subseteq heap.live
      /\ Named(heap) /\ ListCounts(heap, held) /\ SheetCounts(heap, held, counted, slots)
      /\ counted \in [Sheets -> Nat] /\ slots \in [Origins -> Sheets \cup {Null}]
      /\ Represents(heap, held, ct, lo)
  BY Departed
<1>2. /\ d \in held /\ heap' = DeclsUnrefed(heap, d) /\ held' = held \cap heap'.live
      /\ counted' = counted /\ slots' = slots /\ d \in held \cap Nodes
  BY DEF UnrefDeclaration, Loose, SameSheets, Nodes
<1>3. left \in Nat
  BY <1>1 DEF Heaps
<1>4. CASE left = 0
  <2>1. heap' = DeclsDestroyed(heap, d)
    BY <1>2, <1>4 DEF DeclsUnrefed
  <2>2. PICK b \in lo : b = From(heap, d) /\ b[1] = d /\ Range(b) \subseteq Decls
    BY <1>2, LooseList
  <2>4. /\ Consistent(Freed(heap, Range(b)), held \ {b[1]}, counted, slots,
                      Spared(ct, Range(b)), LooseSpared(lo, Range(b)))
        /\ held \ {b[1]} = held \ Range(b)
    <3> HIDE DEF ct, lo
    <3> QED
      BY <1>1, <2>2, LooseDeclarations
  <2>5. held \ {b[1]} = held \ Range(b)
    BY <2>4
  <2>6. heap'.live = heap.live \ Range(b)
    BY <1>1, <2>1, <2>2, FreedIs DEF DeclsDestroyed
  <2>7. held' = held \ {d}
    BY <1>1, <1>2, <2>2, <2>5, <2>6
  <2> QED
    BY <1>2, <2>1, <2>7, DeclarationsFreed
<1>5. CASE left # 0
  <2>1. heap' = [heap EXCEPT !.refs[d] = left]
    BY <1>2, <1>5 DEF DeclsUnrefed
  <2> HIDE DEF left
  <2>2. /\ heap' \in Heaps /\ heap'.live = heap.live /\ heap'.kind = heap.kind /\ heap'.next = heap.next
        /\ heap'.prev = heap.prev /\ heap'.first = heap.first /\ heap'.parent = heap.parent
        /\ \A x \in Decls \cup Sheets : heap'.refs[x] = IF x = d THEN left ELSE heap.refs[x]
    BY <1>1, <1>3, <2>1 DEF Heaps
  <2>3. \A x \in Decls : IF x \in heap.live \ held THEN heap'.refs[x] <= 1
                         ELSE x \notin heap.live => heap'.refs[x] = 0
    BY <1>1, <1>2, <2>2 DEF ListCounts, Named, Blank
  <2>4. held' = held
    BY <1>1, <1>2, <2>2
  <2>5. SheetCounts(heap', held', counted', slots')
    <3>1. \A t \in Sheets : /\ heap'.refs[t] = heap.refs[t] /\ (t \in held' <=> t \in held)
                            /\ t \in heap'.live <=> t \in heap.live
      BY <2>2, <2>4, Disjoint
    <3> QED
      BY <1>1, <1>2, <3>1, SheetsKept
  <2>6. \A x \in Members(heap) : heap'.parent[x] \in heap.live \cup {Null}
    BY <1>1, <2>2 DEF Named, ParentsLive
  <2> HIDE DEF ct, lo
  <2>7. Consistent(heap', held', counted', slots', ct, lo)
    <3>1. DataOnly(heap, held, heap')
      BY <2>2, <2>3, <2>6 DEF DataOnly
    <3>2. held' \subseteq heap.live /\ held' \cap Nodes = held \cap Nodes
      BY <1>1, <2>4
    <3> QED
      BY <1>1, <1>2, <2>2, <2>5, <3>1, <3>2, DataChanged
  <2>8. Members(heap') = Members(heap)
    BY <2>2 DEF Members
  <2> QED
    BY <2>7, <2>8, StutterStep DEF ct, lo
<1> QED
  BY <1>4, <1>5

-----------------------------------------------------------------------------
(* The operations on statements.                                             *)

LEMMA GivenList ==
    ASSUME IInv, NEW s, NEW l \in Decls \cup {Null}, Given(l, s)
    PROVE  \E b \in LooseIn(heap, held) \cup {<<>>} :
              /\ l = IF b = <<>> THEN Null ELSE b[1]
              /\ b # <<>> => /\ b \in LooseIn(heap, held) /\ Range(b) \subseteq Decls
                             /\ heap.refs[l] = 0 /\ l \in Decls /\ l # Null
<1>1. CASE l = Null
  BY <1>1
<1>2. CASE l # Null
  <2>1. l \in held \cap Nodes /\ heap.refs[l] = 0 /\ l \in Decls
    BY <1>2 DEF Given, Loose, Nodes
  <2>2. PICK b \in LooseIn(heap, held) : b = From(heap, l) /\ b[1] = l /\ Range(b) \subseteq Decls /\ b # <<>>
    BY <2>1, LooseList
  <2> QED
    BY <1>2, <2>1, <2>2
<1> QED
  BY <1>1, <1>2

LEMMA StatementStep ==
    ASSUME IInv, NEW s \in Stmts, s \notin heap.live, NEW kind \in Kinds,
           NEW t \in Sheets \cup {Null}, t \in heap.live \cup {Null},
           NEW b \in LooseIn(heap, held) \cup {<<>>}, NEW l, l = IF b = <<>> THEN Null ELSE b[1],
           Fits(heap, kind, b), NEW h \in Heaps, heap' = h, NewStatement(heap, h, s, kind, t, l),
           held' = (held \ {l}) \cup {s}, counted' = counted, slots' = slots
    PROVE  IInv' /\ ListsStep
<1> DEFINE ct == ContentsIn(heap)
           lo == LooseIn(heap, held)
<1>1. Consistent(heap, held, counted, slots, ct, lo) /\ s \in Nodes
  BY Departed DEF Nodes
<1>2. Members(heap') = Members(heap) \cup {s}
  BY <1>1 DEF NewStatement, Members
<1> HIDE DEF ct, lo
<1>3. Consistent(heap', (held \ {l}) \cup {s}, counted, slots,
                 IF b = <<>> THEN ct ELSE [ct EXCEPT ![s] = b], (lo \ {b}) \cup {<<s>>})
  BY <1>1, StatementMade DEF lo
<1>4. Consistent(heap', held', counted', slots',
                 IF b = <<>> THEN ct ELSE [ct EXCEPT ![s] = b], (lo \ {b}) \cup {<<s>>})
  BY <1>3
<1> QED
  BY <1>1, <1>2, <1>4, MakeStep DEF ct, lo

\* The record that a new statement begins as.
LEMMA StatementIs ==
    ASSUME heap \in Heaps, NEW s \in Stmts, NEW kind \in Kinds, NEW t \in Sheets \cup {Null},
           NEW l \in Nodes \cup {Null}
    PROVE  /\ Statement(s, kind, t, l) \in Heaps
           /\ Statement(s, kind, t, l).live = heap.live \cup {s}
           /\ Statement(s, kind, t, l).next = heap.next /\ Statement(s, kind, t, l).prev = heap.prev
           /\ Statement(s, kind, t, l).refs = heap.refs
           /\ \A q \in Stmts : Statement(s, kind, t, l).kind[q] = IF q = s THEN kind ELSE heap.kind[q]
           /\ \A x \in Nodes : Statement(s, kind, t, l).parent[x] = IF x = s THEN t ELSE heap.parent[x]
           /\ \A o \in Owners : Statement(s, kind, t, l).first[o] = IF o = s THEN l ELSE heap.first[o]
<1>1. s \in Nodes /\ s \in Owners /\ s \in Objects /\ t \in Owners \cup {Null}
  BY DEF Nodes, Owners, Objects
<1> QED
  BY <1>1 DEF Statement, Allocated, Heaps

LEMMA NewRulesetStep ==
    ASSUME IInv, NEW s \in Stmts, NEW t \in Sheets \cup {Null}, NEW l \in Decls \cup {Null},
           NewRuleset(s, t, l)
    PROVE  IInv' /\ ListsStep
<1>1. /\ s \notin heap.live /\ t \in heap.live \cup {Null} /\ Given(l, s)
      /\ heap' = [Statement(s, "ruleset", t, l) EXCEPT !.sel[s] = TRUE]
      /\ held' = (held \ {l}) \cup {s} /\ counted' = counted /\ slots' = slots
  BY DEF NewRuleset, Fresh, SheetOrNull, SameSheets
<1>2. PICK b \in LooseIn(heap, held) \cup {<<>>} :
              /\ l = IF b = <<>> THEN Null ELSE b[1]
              /\ b # <<>> => /\ b \in LooseIn(heap, held) /\ Range(b) \subseteq Decls
                             /\ heap.refs[l] = 0 /\ l \in Decls /\ l # Null
  BY <1>1, GivenList
<1>3. heap \in Heaps /\ l \in Nodes \cup {Null} /\ "ruleset" \in Kinds
  BY Departed DEF Nodes, Kinds
<1>4. Fits(heap, "ruleset", b)
  BY <1>2 DEF Fits, Declaring
<1> DEFINE h == Statement(s, "ruleset", t, l)
           g == [h EXCEPT !.sel[s] = TRUE]
<1>5. g \in Heaps /\ NewStatement(heap, g, s, "ruleset", t, l)
  <2>1. /\ h \in Heaps /\ h.live = heap.live \cup {s} /\ h.next = heap.next /\ h.prev = heap.prev
        /\ h.refs = heap.refs
        /\ \A q \in Stmts : h.kind[q] = IF q = s THEN "ruleset" ELSE heap.kind[q]
        /\ \A x \in Nodes : h.parent[x] = IF x = s THEN t ELSE heap.parent[x]
        /\ \A o \in Owners : h.first[o] = IF o = s THEN l ELSE heap.first[o]
    BY <1>3, StatementIs
  <2> HIDE DEF h
  <2>3. /\ g \in Heaps /\ g.live = h.live /\ g.next = h.next /\ g.prev = h.prev
        /\ g.kind = h.kind /\ g.parent = h.parent /\ g.first = h.first /\ g.refs = h.refs
    BY <2>1 DEF Heaps
  <2>4. \A x \in Decls \cup Sheets : IF x = l THEN heap.refs[x] <= 1 ELSE heap.refs[x] = heap.refs[x]
    BY <1>2, Disjoint DEF Nodes
  <2> HIDE DEF g
  <2> QED
    BY <2>1, <2>3, <2>4 DEF NewStatement
<1>6. heap' = g
  BY <1>1
<1> HIDE DEF g
<1> QED
  BY <1>1, <1>2, <1>3, <1>4, <1>5, <1>6, StatementStep

LEMMA NewPageStep ==
    ASSUME IInv, NEW s \in Stmts, NEW t \in Sheets \cup {Null}, NEW l \in Decls \cup {Null},
           NewPage(s, t, l)
    PROVE  IInv' /\ ListsStep
<1> DEFINE h == Statement(s, "page", t, l)
<1>1. /\ s \notin heap.live /\ t \in heap.live \cup {Null} /\ Given(l, s)
      /\ heap' = IF l = Null THEN h ELSE [h EXCEPT !.refs[l] = @ + 1]
      /\ held' = (held \ {l}) \cup {s} /\ counted' = counted /\ slots' = slots
  BY DEF NewPage, Fresh, SheetOrNull, SameSheets
<1>2. PICK b \in LooseIn(heap, held) \cup {<<>>} :
              /\ l = IF b = <<>> THEN Null ELSE b[1]
              /\ b # <<>> => /\ b \in LooseIn(heap, held) /\ Range(b) \subseteq Decls
                             /\ heap.refs[l] = 0 /\ l \in Decls /\ l # Null
  BY <1>1, GivenList
<1>3. heap \in Heaps /\ l \in Nodes \cup {Null} /\ "page" \in Kinds
  BY Departed DEF Nodes, Kinds
<1>4. Fits(heap, "page", b)
  BY <1>2 DEF Fits, Declaring
<1>5. /\ h \in Heaps /\ h.live = heap.live \cup {s} /\ h.next = heap.next /\ h.prev = heap.prev
      /\ h.refs = heap.refs
      /\ \A q \in Stmts : h.kind[q] = IF q = s THEN "page" ELSE heap.kind[q]
      /\ \A x \in Nodes : h.parent[x] = IF x = s THEN t ELSE heap.parent[x]
      /\ \A o \in Owners : h.first[o] = IF o = s THEN l ELSE heap.first[o]
  BY <1>3, StatementIs
<1> HIDE DEF h
<1>6. CASE l = Null
  <2>1. \A x \in Decls \cup Sheets : x # l
    BY <1>6, Disjoint DEF Objects, Nodes
  <2>2. NewStatement(heap, h, s, "page", t, l) /\ heap' = h
    BY <1>1, <1>5, <1>6, <2>1 DEF NewStatement
  <2> QED
    BY <1>1, <1>2, <1>3, <1>4, <1>5, <2>2, StatementStep
<1>7. CASE l # Null
  <2> DEFINE g == [h EXCEPT !.refs[l] = h.refs[l] + 1]
  <2>1. heap' = g /\ l \in Decls /\ heap.refs[l] = 0
    BY <1>1, <1>2, <1>7
  <2>2. /\ g \in Heaps /\ g.live = h.live /\ g.next = h.next /\ g.prev = h.prev
        /\ g.kind = h.kind /\ g.parent = h.parent /\ g.first = h.first
        /\ \A x \in Decls \cup Sheets : g.refs[x] = IF x = l THEN h.refs[x] + 1 ELSE h.refs[x]
    <3>1. h.refs \in [Decls \cup Sheets -> Nat] /\ l \in Decls \cup Sheets /\ h.refs[l] + 1 \in Nat
      BY <1>5, <2>1 DEF Heaps
    <3>2. [h.refs EXCEPT ![l] = h.refs[l] + 1] \in [Decls \cup Sheets -> Nat]
      BY <3>1
    <3>3. g = [h EXCEPT !.refs = [h.refs EXCEPT ![l] = h.refs[l] + 1]]
      BY <1>5 DEF Heaps
    <3> HIDE DEF g
    <3> QED
      BY <1>5, <3>1, <3>2, <3>3 DEF Heaps
  <2> HIDE DEF g
  <2>3. NewStatement(heap, g, s, "page", t, l)
    BY <1>5, <2>1, <2>2 DEF NewStatement
  <2> QED
    BY <1>1, <1>2, <1>3, <1>4, <2>1, <2>2, <2>3, StatementStep
<1> QED
  BY <1>6, <1>7

LEMMA NewFontFaceStep ==
    ASSUME IInv, NEW s \in Stmts, NEW t \in Sheets \cup {Null}, NEW l \in Decls \cup {Null},
           NewFontFace(s, t, l)
    PROVE  IInv' /\ ListsStep
<1>1. /\ s \notin heap.live /\ t \in heap.live \cup {Null} /\ Given(l, s)
      /\ heap' = Statement(s, "font_face", t, l)
      /\ held' = (held \ {l}) \cup {s} /\ counted' = counted /\ slots' = slots
  BY DEF NewFontFace, Fresh, SheetOrNull, SameSheets
<1>2. PICK b \in LooseIn(heap, held) \cup {<<>>} :
              /\ l = IF b = <<>> THEN Null ELSE b[1]
              /\ b # <<>> => /\ b \in LooseIn(heap, held) /\ Range(b) \subseteq Decls
                             /\ heap.refs[l] = 0 /\ l \in Decls /\ l # Null
  BY <1>1, GivenList
<1>3. heap \in Heaps /\ l \in Nodes \cup {Null} /\ "font_face" \in Kinds
  BY Departed DEF Nodes, Kinds
<1>4. Fits(heap, "font_face", b)
  BY <1>2 DEF Fits, Declaring
<1> DEFINE h == Statement(s, "font_face", t, l)
<1>5. h \in Heaps /\ NewStatement(heap, h, s, "font_face", t, l)
  <2>1. \A x \in Decls \cup Sheets : x = l => heap.refs[x] = 0
    BY <1>2, Disjoint DEF Objects, Nodes
  <2> QED
    BY <1>1, <1>3, <2>1, StatementIs DEF NewStatement
<1>6. heap' = h
  BY <1>1
<1> HIDE DEF h
<1> QED
  BY <1>1, <1>2, <1>3, <1>4, <1>5, <1>6, StatementStep

LEMMA NewMediaStep ==
    ASSUME IInv, NEW s \in Stmts, NEW t \in Sheets \cup {Null}, NEW r \in Stmts \cup {Null},
           NewMedia(s, t, r)
    PROVE  IInv' /\ ListsStep
<1> DEFINE h     == Statement(s, "media", t, r)
           named == [q \in Stmts |-> IF q \in Range(From(heap, r)) THEN s ELSE h.media[q]]
           g     == [h EXCEPT !.media = named]
<1>1. /\ s \notin heap.live /\ t \in heap.live \cup {Null}
      /\ r # Null => r \in held /\ \A q \in Range(From(heap, r)) : Is(q, "ruleset")
      /\ heap' = g
      /\ held' = (held \ {r}) \cup {s} /\ counted' = counted /\ slots' = slots
  BY DEF NewMedia, Fresh, SheetOrNull, SameSheets, Loose
<1>2. \E b \in LooseIn(heap, held) \cup {<<>>} :
              /\ r = IF b = <<>> THEN Null ELSE b[1]
              /\ Fits(heap, "media", b)
  <2>1. CASE r = Null
    BY <2>1 DEF Fits
  <2>2. CASE r # Null
    <3>1. r \in held \cap Nodes /\ r \in Stmts
      BY <1>1, <2>2 DEF Nodes
    <3>2. PICK b \in LooseIn(heap, held) : b = From(heap, r) /\ b[1] = r /\ Range(b) \subseteq Stmts /\ b # <<>>
      BY <3>1, LooseList
    <3>3. Fits(heap, "media", b)
      BY <1>1, <2>2, <3>2 DEF Fits, Declaring, Is
    <3> QED
      BY <3>2, <3>3
  <2> QED
    BY <2>1, <2>2
<1>3. PICK b \in LooseIn(heap, held) \cup {<<>>} :
              /\ r = IF b = <<>> THEN Null ELSE b[1]
              /\ Fits(heap, "media", b)
  BY <1>2
<1>4. heap \in Heaps /\ r \in Nodes \cup {Null} /\ "media" \in Kinds
  BY Departed DEF Nodes, Kinds
<1>5. g \in Heaps /\ NewStatement(heap, g, s, "media", t, r)
  <2>1. \A x \in Decls \cup Sheets : x # r
    BY Disjoint DEF Objects, Nodes
  <2>2. h \in Heaps /\ NewStatement(heap, h, s, "media", t, r)
    BY <1>1, <1>4, <2>1, StatementIs DEF NewStatement
  <2> HIDE DEF h
  <2>3. named \in [Stmts -> Stmts \cup {Null}]
    BY <2>2 DEF Heaps
  <2> HIDE DEF named
  <2>4. /\ g \in Heaps /\ g.live = h.live /\ g.next = h.next /\ g.prev = h.prev
        /\ g.kind = h.kind /\ g.parent = h.parent /\ g.first = h.first /\ g.refs = h.refs
    BY <2>2, <2>3 DEF Heaps
  <2> HIDE DEF g
  <2> QED
    BY <2>2, <2>4 DEF NewStatement
<1>6. heap' = g
  BY <1>1
<1> HIDE DEF g
<1> QED
  BY <1>1, <1>3, <1>4, <1>5, <1>6, StatementStep

LEMMA NewImportStep ==
    ASSUME IInv, NEW s \in Stmts, NEW t \in Sheets \cup {Null}, NewImport(s, t)
    PROVE  IInv' /\ ListsStep
<1>1. /\ s \notin heap.live /\ t \in heap.live \cup {Null}
      /\ heap' = Statement(s, "import", t, Null)
      /\ held' = (held \ {Null}) \cup {s} /\ counted' = counted /\ slots' = slots
  <2>1. Null \notin held
    BY Departed, Disjoint DEF Heaps
  <2> QED
    BY <2>1 DEF NewImport, Fresh, SheetOrNull, SameSheets
<1>2. heap \in Heaps /\ "import" \in Kinds /\ Fits(heap, "import", <<>>)
  BY Departed DEF Kinds, Fits
<1> DEFINE h == Statement(s, "import", t, Null)
<1>3. h \in Heaps /\ NewStatement(heap, h, s, "import", t, Null)
  <2>1. \A x \in Decls \cup Sheets : x # Null
    BY Disjoint DEF Objects, Nodes
  <2> QED
    BY <1>1, <1>2, <2>1, StatementIs DEF NewStatement
<1>4. heap' = h /\ <<>> \in LooseIn(heap, held) \cup {<<>>}
  BY <1>1
<1> HIDE DEF h
<1> QED
  BY <1>1, <1>2, <1>3, <1>4, StatementStep

LEMMA AppendIs ==
    ASSUME NEW S, NEW c \in Seq(S), NEW x \in S
    PROVE  c \o <<x>> = Append(c, x)
OBVIOUS

\* A node that is made at the end of a list.
LEMMA InsertedStep ==
    ASSUME IInv, NEW n \in Nodes, n \notin heap.live, NEW b \in LooseIn(heap, held) \cup {<<>>},
           n \notin Owners => b = <<>>,
           NEW o \in Owners, o \in heap.live, NEW ct1,
           ct1 = IF b = <<>> THEN ContentsIn(heap) ELSE [ContentsIn(heap) EXCEPT ![n] = b],
           Members(heap') = Members(heap) \cup {n},
           NEW lo2, lo2 = ((LooseIn(heap, held) \ {b}) \cup {<<n>>}) \ {<<n>>},
           Consistent(heap', held', counted', slots', [ct1 EXCEPT ![o] = @ \o <<n>>], lo2)
    PROVE  IInv' /\ ListsStep
<1> DEFINE ct  == ContentsIn(heap)
           lo  == LooseIn(heap, held)
           ct2 == [ct1 EXCEPT ![o] = @ \o <<n>>]
<1>1. Represents(heap, held, ct, lo)
  BY Departed
<1>2. /\ ct \in [Owners -> Seq(Nodes)]
      /\ \A p \in Owners : p \notin heap.live => ct[p] = <<>>
      /\ \A c \in lo : c \in Seq(Nodes) /\ Len(c) \in Nat \ {0} /\ c[1] \in heap.live
  <2>1. \A c \in lo : c \in Seq(Nodes) /\ Len(c) \in Nat \ {0} /\ c[1] \in Range(c) /\ Range(c) \subseteq Members(heap)
    BY <1>1, ListsKnown
  <2> HIDE DEF ct, lo
  <2> QED
    BY <1>1, <2>1 DEF Represents, Members
<1>3. lo2 = lo \ {b}
  <2>1. <<n>> \notin lo
    <3>1. <<n>>[1] = n
      OBVIOUS
    <3> HIDE DEF lo
    <3> QED
      BY <1>2, <3>1
  <2> HIDE DEF lo
  <2> QED
    BY <2>1 DEF lo
<1>4. o # n
  OBVIOUS
<1> HIDE DEF ct, lo
<1>5. ct1 \in [Owners -> Seq(Nodes)] /\ \A p \in Owners : ct1[p] = IF p = n THEN b ELSE ct[p]
  <2>1. CASE b = <<>>
    <3>1. ct1 = ct
      BY <2>1 DEF ct
    <3> QED
      BY <1>2, <2>1, <3>1
  <2>2. CASE b # <<>>
    <3>1. ct1 = [ct EXCEPT ![n] = b] /\ n \in Owners /\ b \in Seq(Nodes)
      BY <1>2, <2>2 DEF ct, lo
    <3> QED
      BY <1>2, <3>1
  <2> QED
    BY <2>1, <2>2
<1>6. ct1[o] = ct[o] /\ ct[o] \in Seq(Nodes)
  BY <1>2, <1>4, <1>5
<1>7. ct[o] \o <<n>> = Append(ct[o], n)
  BY <1>6, AppendIs
<1>8. /\ \A p \in Owners : ct2[p] = IF p = o THEN Append(ct[o], n) ELSE IF p = n THEN b ELSE ct[p]
      /\ ct2 = [p \in Owners |-> ct2[p]]
  BY <1>4, <1>5, <1>6, <1>7
<1>9. Consistent(heap', held', counted', slots', ct2, lo \ {b})
  BY <1>3
<1> HIDE DEF ct2
<1>10. /\ Inserted(ContentsIn(heap), ct2, o, n, b)
       /\ Consistent(heap', held', counted', slots', ct2, LooseIn(heap, held) \ {b})
  BY <1>8, <1>9 DEF ct, lo, Inserted
<1> QED
  BY <1>4, <1>10, MakeInStep

LEMMA NewRulesetInMediaStep ==
    ASSUME IInv, NEW s \in Stmts, NEW t \in Sheets \cup {Null}, NEW l \in Decls \cup {Null},
           NEW m \in Stmts, NewRulesetInMedia(s, t, l, m)
    PROVE  IInv' /\ ListsStep /\ s \in Range(ListOf(heap', m))
<1> DEFINE h   == Statement(s, "ruleset", t, l)
           g   == [h EXCEPT !.sel[s] = TRUE, !.media[s] = m]
           ct  == ContentsIn(heap)
           lo  == LooseIn(heap, held)
<1>1. /\ s \notin heap.live /\ t \in heap.live \cup {Null} /\ Given(l, s)
      /\ m \in heap.live /\ heap.kind[m] = "media"
      /\ heap' = AppendedIn(g, m, s)
      /\ held' = held \ {l} /\ counted' = counted /\ slots' = slots
  BY DEF NewRulesetInMedia, Fresh, SheetOrNull, SameSheets, Is
<1>2. PICK b \in LooseIn(heap, held) \cup {<<>>} :
              /\ l = IF b = <<>> THEN Null ELSE b[1]
              /\ b # <<>> => /\ b \in LooseIn(heap, held) /\ Range(b) \subseteq Decls
                             /\ heap.refs[l] = 0 /\ l \in Decls /\ l # Null
  BY <1>1, GivenList
<1>3. /\ heap \in Heaps /\ l \in Nodes \cup {Null} /\ "ruleset" \in Kinds
      /\ held \subseteq heap.live
      /\ Consistent(heap, held, counted, slots, ct, lo) /\ s \in Nodes /\ m \in Owners /\ s \notin Decls
      /\ s \in Owners
  BY Departed, Disjoint DEF Nodes, Kinds, Owners
<1>4. Fits(heap, "ruleset", b)
  BY <1>2 DEF Fits, Declaring
<1>5. g \in Heaps /\ NewStatement(heap, g, s, "ruleset", t, l)
  <2>1. /\ h \in Heaps /\ h.live = heap.live \cup {s} /\ h.next = heap.next /\ h.prev = heap.prev
        /\ h.refs = heap.refs
        /\ \A q \in Stmts : h.kind[q] = IF q = s THEN "ruleset" ELSE heap.kind[q]
        /\ \A x \in Nodes : h.parent[x] = IF x = s THEN t ELSE heap.parent[x]
        /\ \A o \in Owners : h.first[o] = IF o = s THEN l ELSE heap.first[o]
    BY <1>3, StatementIs
  <2> HIDE DEF h
  <2>3. /\ g \in Heaps /\ g.live = h.live /\ g.next = h.next /\ g.prev = h.prev
        /\ g.kind = h.kind /\ g.parent = h.parent /\ g.first = h.first /\ g.refs = h.refs
    BY <2>1 DEF Heaps
  <2>4. \A x \in Decls \cup Sheets : IF x = l THEN heap.refs[x] <= 1 ELSE heap.refs[x] = heap.refs[x]
    BY <1>2, Disjoint DEF Nodes
  <2> HIDE DEF g
  <2> QED
    BY <2>1, <2>3, <2>4 DEF NewStatement
<1> DEFINE ct1 == IF b = <<>> THEN ct ELSE [ct EXCEPT ![s] = b]
           lo1 == (lo \ {b}) \cup {<<s>>}
           hl1 == (held \ {l}) \cup {s}
           c   == <<s>>
<1>6. c[1] = s /\ Range(c) = {s} /\ c \in lo1
  <2>1. c \in Seq(Nodes) /\ Len(c) = 1 /\ c[1] = s
    BY <1>3
  <2> HIDE DEF c
  <2>2. \A x : x \in Range(c) <=> \E i \in 1..Len(c) : c[i] = x
    BY <2>1, RangeIs DEF c
  <2>3. Range(c) = {s}
    BY <2>1, <2>2 DEF c
  <2> QED
    BY <2>1, <2>3 DEF c
<1>7. /\ g.live = heap.live \cup {s} /\ g.kind[m] = "media" /\ g.kind[s] = "ruleset"
  <2> HIDE DEF g
  <2> QED
    BY <1>1, <1>5 DEF NewStatement
<1>8. hl1 \ {s} = held \ {l}
  BY <1>1, <1>3
<1> HIDE DEF g, ct, lo
<1>9. Consistent(g, hl1, counted, slots, ct1, lo1)
  BY <1>1, <1>2, <1>3, <1>4, <1>5, StatementMade DEF lo
<1>10. Range(c) \subseteq MayHold(g, m)
  <2>1. m \notin Sheets /\ "media" \notin Declaring
    BY Disjoint DEF Declaring
  <2> QED
    BY <1>6, <1>7, <2>1 DEF MayHold
<1> HIDE DEF ct1, lo1, hl1, c
<1>11. Consistent(AppendedIn(g, m, c[1]), hl1 \ {c[1]}, counted, slots,
                  [ct1 EXCEPT ![m] = @ \o c], lo1 \ {c})
  <2>1. m \in g.live /\ c[1] \notin Decls
    BY <1>1, <1>3, <1>6, <1>7
  <2> QED
    BY <1>3, <1>6, <1>9, <1>10, <2>1, GivenConsistent
<1>12. Consistent(heap', held', counted', slots', [ct1 EXCEPT ![m] = @ \o c], lo1 \ {c})
  BY <1>1, <1>6, <1>8, <1>11
<1>13. Members(heap') = Members(heap) \cup {s}
  <2>1. SameData(g, AppendedIn(g, m, c[1]))
    <3>1. Represents(g, hl1, ct1, lo1) /\ m \in g.live
      BY <1>1, <1>7, <1>9 DEF Consistent
    <3> QED
      BY <1>3, <1>5, <1>6, <3>1, GivenIs
  <2> QED
    BY <1>1, <1>3, <1>6, <1>7, <2>1 DEF SameData, Members
<1>14. Consistent(heap', held', counted', slots', [ct1 EXCEPT ![m] = @ \o <<s>>],
                  ((LooseIn(heap, held) \ {b}) \cup {<<s>>}) \ {<<s>>})
  BY <1>12 DEF c, lo1, lo
<1>15. ct1 = IF b = <<>> THEN ContentsIn(heap) ELSE [ContentsIn(heap) EXCEPT ![s] = b]
  BY DEF ct1, ct
<1>16. s \in Range(ListOf(heap', m))
  <2> DEFINE c1 == ct1[m]
             c2 == c1 \o <<s>>
  <2>1. ct1 \in [Owners -> Seq(Nodes)]
    BY <1>9 DEF Consistent, Represents
  <2>2. c1 \in Seq(Nodes) /\ c2 = Append(c1, s)
    BY <1>3, <2>1, AppendIs
  <2>3. ContentsIn(heap')[m] = c2
    <3> DEFINE ct3 == [ct1 EXCEPT ![m] = @ \o <<s>>]
               lo3 == ((LooseIn(heap, held) \ {b}) \cup {<<s>>}) \ {<<s>>}
    <3>1. Represents(heap', held', ct3, lo3)
      BY <1>14 DEF Consistent
    <3>2. ct3[m] = c2
      BY <1>3, <2>1
    <3> HIDE DEF ct3, lo3, c2
    <3>3. ct3 = ContentsIn(heap')
      BY <3>1, Represented
    <3> QED
      BY <3>2, <3>3
  <2>4. c2 \in Seq(Nodes) /\ Len(c2) = Len(c1) + 1 /\ c2[Len(c1) + 1] = s /\ Len(c1) \in Nat
    <3> HIDE DEF c1
    <3> QED
      BY <1>3, <2>2
  <2> HIDE DEF c2
  <2>5. s \in Range(c2)
    BY <2>4, RangeIs
  <2> QED
    BY <1>3, <2>3, <2>5 DEF ContentsIn
<1> QED
  BY <1>1, <1>3, <1>13, <1>14, <1>15, <1>16, InsertedStep

\* A loose list is handed over to an owner.
LEMMA GivenStep ==
    ASSUME IInv, NEW o \in Owners, o \in heap.live, NEW a \in held \cap Nodes,
           Range(From(heap, a)) \subseteq MayHold(heap, o), a \in Decls => heap.refs[a] <= 1,
           heap' = AppendedIn(heap, o, a), held' = held \ {a}, counted' = counted, slots' = slots
    PROVE  IInv' /\ ListsStep
<1> DEFINE ct == ContentsIn(heap)
           lo == LooseIn(heap, held)
<1>1. Consistent(heap, held, counted, slots, ct, lo) /\ heap \in Heaps /\ Represents(heap, held, ct, lo)
  BY Departed
<1>2. PICK b \in lo : b = From(heap, a) /\ b[1] = a
  BY LooseList
<1> HIDE DEF ct, lo
<1>3. Consistent(AppendedIn(heap, o, b[1]), held \ {b[1]}, counted, slots,
                 [ct EXCEPT ![o] = @ \o b], lo \ {b})
  <2>1. Range(b) \subseteq MayHold(heap, o) /\ (b[1] \in Decls => heap.refs[b[1]] <= 1)
    BY <1>2
  <2> QED
    BY <1>1, <2>1, GivenConsistent
<1>4. Consistent(heap', held', counted', slots', [ct EXCEPT ![o] = @ \o b], lo \ {b})
  BY <1>2, <1>3
<1>5. Members(heap') = Members(heap)
  <2>1. SameData(heap, AppendedIn(heap, o, b[1]))
    BY <1>1, GivenIs
  <2> QED
    BY <1>2, <2>1 DEF SameData, Members
<1> QED
  BY <1>4, <1>5, GiveStep DEF ct, lo

LEMMA AppendDeclarationStep ==
    ASSUME IInv, NEW s \in Stmts, NEW d \in Decls, AppendDeclaration(s, d)
    PROVE  IInv' /\ ListsStep
<1>1. /\ s \in heap.live /\ heap.kind[s] \in Declaring
      /\ d \in held \cap Nodes /\ heap.refs[d] = 0
      /\ heap' = AppendedIn(heap, s, d) /\ held' = held \ {d} /\ counted' = counted /\ slots' = slots
  BY Disjoint DEF AppendDeclaration, Declares, Given, Loose, SameSheets, Nodes, Objects
<1>2. MayHold(heap, s) = Decls /\ s \in Owners
  BY <1>1, Disjoint DEF MayHold, Owners
<1>3. Range(From(heap, d)) \subseteq Decls
  BY <1>1, LooseList
<1> QED
  BY <1>1, <1>2, <1>3, GivenStep

LEMMA AppendToMediaStep ==
    ASSUME IInv, NEW m \in Stmts, NEW s \in Stmts, AppendToMedia(m, s)
    PROVE  IInv' /\ ListsStep
<1>1. /\ m \in heap.live /\ heap.kind[m] = "media"
      /\ s \in held \cap Nodes /\ s \notin Decls
      /\ \A q \in Range(From(heap, s)) : heap.kind[q] = "ruleset"
      /\ heap' = AppendedIn(heap, m, s) /\ held' = held \ {s} /\ counted' = counted /\ slots' = slots
  BY Disjoint DEF AppendToMedia, Is, Loose, SameSheets, Nodes
<1>2. MayHold(heap, m) = {q \in Stmts : heap.kind[q] = "ruleset"} /\ m \in Owners
  BY <1>1, Disjoint DEF MayHold, Owners, Declaring
<1>3. Range(From(heap, s)) \subseteq Stmts
  BY <1>1, LooseList
<1>4. Range(From(heap, s)) \subseteq MayHold(heap, m)
  BY <1>1, <1>2, <1>3
<1> QED
  BY <1>1, <1>2, <1>4, GivenStep

LEMMA AppendToSheetStep ==
    ASSUME IInv, NEW t \in Sheets, NEW s \in Stmts, AppendToSheet(t, s)
    PROVE  IInv' /\ ListsStep
<1>1. /\ t \in heap.live /\ s \in held \cap Nodes /\ s \notin Decls
      /\ heap' = AppendedIn(heap, t, s) /\ held' = held \ {s} /\ counted' = counted /\ slots' = slots
  BY Disjoint DEF AppendToSheet, Loose, SameSheets, Nodes
<1>2. MayHold(heap, t) = Stmts /\ t \in Owners
  BY DEF MayHold, Owners
<1>3. Range(From(heap, s)) \subseteq Stmts
  BY <1>1, LooseList
<1> QED
  BY <1>1, <1>2, <1>3, GivenStep

LEMMA AddDeclarationStep ==
    ASSUME IInv, NEW s \in Stmts, NEW d \in Decls, AddDeclaration(s, d)
    PROVE  IInv' /\ ListsStep
<1> DEFINE a  == heap.first[s]
           p  == IF a = Null THEN Null ELSE heap.parent[a]
           h1 == [Allocated(heap, d) EXCEPT !.parent[d] = p]
           h2 == AppendedIn(h1, s, d)
           ct == ContentsIn(heap)
           lo == LooseIn(heap, held)
           c  == <<d>>
<1>1. /\ s \in heap.live /\ heap.kind[s] \in {"ruleset", "font_face"} /\ d \notin heap.live
      /\ heap' = IF a = Null /\ Is(s, "font_face") THEN [h2 EXCEPT !.refs[d] = @ + 1] ELSE h2
      /\ held' = held /\ counted' = counted /\ slots' = slots
  BY DEF AddDeclaration, Is, Fresh, SameSheets
<1>2. /\ Consistent(heap, held, counted, slots, ct, lo) /\ heap \in Heaps /\ held \subseteq heap.live
      /\ Represents(heap, held, ct, lo) /\ Named(heap)
      /\ SheetCounts(heap, held, counted, slots)
      /\ counted \in [Sheets -> Nat] /\ slots \in [Origins -> Sheets \cup {Null}]
      /\ s \in Owners /\ d \in Nodes /\ d \notin Owners /\ d \in Objects /\ s # d
  BY Departed, Disjoint DEF Owners, Nodes, Objects
<1>3. p \in heap.live \cup {Null} /\ p \in Owners \cup {Null}
  <2>1. CASE a = Null
    BY <2>1
  <2>2. CASE a # Null
    <3> HIDE DEF ct, lo
    <3>1. ct[s] # <<>> /\ a = ct[s][1]
      BY <1>2, <2>2 DEF Represents
    <3>2. ct[s] \in Listed(ct, lo)
      BY <1>2, <3>1, ListsApart
    <3>3. a \in Members(heap) /\ a \in Nodes
      BY <1>2, <3>1, <3>2, ListsApart
    <3> QED
      BY <1>2, <2>2, <3>3 DEF Named, ParentsLive, Heaps
  <2> QED
    BY <2>1, <2>2
<1>4. /\ h1 \in Heaps /\ h1.live = heap.live \cup {d} /\ h1.kind = heap.kind /\ h1.refs = heap.refs
  BY <1>2, <1>3 DEF Allocated, Heaps
<1>5. heap.refs[d] = 0
  BY <1>1, <1>2 DEF Named, Blank
<1>6. c[1] = d /\ Range(c) = {d} /\ c \in lo \cup {<<d>>}
  <2>1. c \in Seq(Nodes) /\ Len(c) = 1 /\ c[1] = d
    BY <1>2
  <2> HIDE DEF c
  <2>2. \A x : x \in Range(c) <=> \E i \in 1..Len(c) : c[i] = x
    BY <2>1, RangeIs DEF c
  <2>3. Range(c) = {d}
    BY <2>1, <2>2
  <2> QED
    BY <2>1, <2>3 DEF c
<1> HIDE DEF p, ct, lo
<1>7. Consistent(h1, held \cup {d}, counted, slots, ct, lo \cup {<<d>>})
  BY <1>1, <1>2, <1>3, NodeMade
<1> HIDE DEF h1, c
<1>8. Range(c) \subseteq MayHold(h1, s)
  <2>1. s \notin Sheets /\ h1.kind[s] \in Declaring
    BY <1>1, <1>4, Disjoint DEF Declaring
  <2> QED
    BY <1>6, <2>1 DEF MayHold
<1> DEFINE lo1 == lo \cup {<<d>>}
           hl1 == held \cup {d}
<1>9. hl1 \ {d} = held
  BY <1>1, <1>2
<1>10. c \in lo1 /\ s \in h1.live /\ h1.refs[c[1]] <= 1
  BY <1>1, <1>4, <1>5, <1>6
<1> HIDE DEF lo1, hl1
<1>11. Consistent(h1, hl1, counted, slots, ct, lo1)
  BY <1>7 DEF lo1, hl1
<1>12. Consistent(AppendedIn(h1, s, c[1]), hl1 \ {c[1]}, counted, slots,
                 [ct EXCEPT ![s] = @ \o c], lo1 \ {c})
  BY <1>2, <1>8, <1>10, <1>11, GivenConsistent
<1>13. Consistent(h2, held, counted, slots, [ct EXCEPT ![s] = @ \o c], lo1 \ {c})
  BY <1>6, <1>9, <1>12
<1>14. h2 \in Heaps /\ SameData(h1, h2)
  <2>1. AppendedIn(h1, s, c[1]) \in Heaps /\ SameData(h1, AppendedIn(h1, s, c[1]))
    <3>1. Represents(h1, hl1, ct, lo1)
      BY <1>11 DEF Consistent
    <3> QED
      BY <1>2, <1>4, <1>10, <3>1, GivenIs
  <2> QED
    BY <1>6, <2>1
<1> DEFINE ct2 == [ct EXCEPT ![s] = @ \o c]
           lo2 == lo1 \ {c}
<1> HIDE DEF h2, ct2, lo2
<1>15. Consistent(heap', held', counted', slots', ct2, lo2) /\ heap'.live = heap.live \cup {d}
  <2>1. Consistent(h2, held, counted, slots, ct2, lo2)
    BY <1>13 DEF ct2, lo2
  <2>2. CASE heap' = h2
    BY <1>1, <1>4, <1>14, <2>1, <2>2 DEF SameData
  <2>3. CASE heap' = [h2 EXCEPT !.refs[d] = @ + 1]
    <3> DEFINE g == [h2 EXCEPT !.refs[d] = h2.refs[d] + 1]
    <3>1. /\ g \in Heaps /\ g.live = h2.live /\ g.kind = h2.kind /\ g.next = h2.next
          /\ g.prev = h2.prev /\ g.first = h2.first /\ g.parent = h2.parent
          /\ \A x \in Decls \cup Sheets : g.refs[x] = IF x = d THEN h2.refs[x] + 1 ELSE h2.refs[x]
      BY <1>14 DEF Heaps
    <3>2. heap' = g
      BY <2>3
    <3> HIDE DEF g
    <3>3. Named(h2) /\ ListCounts(h2, held) /\ SheetCounts(h2, held, counted, slots)
      BY <2>1 DEF Consistent
    <3>4. h2.refs[d] = 0 /\ d \in h2.live /\ h2.live = heap.live \cup {d}
      BY <1>4, <1>5, <1>14 DEF SameData
    <3>5. \A x \in Decls : IF x \in h2.live \ held THEN g.refs[x] <= 1
                           ELSE x \notin h2.live => g.refs[x] = 0
      BY <3>1, <3>3, <3>4 DEF ListCounts, Named, Blank
    <3>6. \A x \in Members(h2) : g.parent[x] \in h2.live \cup {Null}
      BY <3>1, <3>3 DEF Named, ParentsLive
    <3>7. DataOnly(h2, held, g)
      BY <3>1, <3>5, <3>6 DEF DataOnly
    <3>8. SheetCounts(g, held, counted, slots)
      <4>1. \A t \in Sheets : /\ g.refs[t] = h2.refs[t] /\ (t \in held <=> t \in held)
                              /\ t \in g.live <=> t \in h2.live
        BY <3>1, Disjoint
      <4> QED
        BY <3>3, <4>1, SheetsKept
    <3>9. held \subseteq h2.live
      BY <1>2, <3>4
    <3>10. Consistent(g, held, counted, slots, ct2, lo2)
      BY <1>2, <2>1, <3>1, <3>7, <3>8, <3>9, DataChanged
    <3> QED
      BY <1>1, <3>1, <3>2, <3>4, <3>10
  <2> QED
    BY <1>1, <2>2, <2>3
<1>16. Members(heap') = Members(heap) \cup {d}
  BY <1>2, <1>15 DEF Members
<1>17. lo2 = ((LooseIn(heap, held) \ {<<>>}) \cup {<<d>>}) \ {<<d>>}
  <2>1. <<>> \notin lo
    BY <1>2, ListsApart
  <2> QED
    BY <2>1 DEF lo2, lo1, lo, c
<1>18. Consistent(heap', held', counted', slots', [ct EXCEPT ![s] = @ \o <<d>>], lo2)
  BY <1>15 DEF ct2, c
<1> QED
  BY <1>1, <1>2, <1>16, <1>17, <1>18, InsertedStep DEF ct

\* Only the data of nodes changes, and no list.
LEMMA DataStep ==
    ASSUME IInv, NEW g \in Heaps, heap' = g, DataOnly(heap, held, g),
           \A t \in Sheets : g.refs[t] = heap.refs[t],
           held' = held, counted' = counted, slots' = slots
    PROVE  IInv' /\ ListsStep
<1> DEFINE ct == ContentsIn(heap)
           lo == LooseIn(heap, held)
<1>1. /\ Consistent(heap, held, counted, slots, ct, lo) /\ held \subseteq heap.live
      /\ counted \in [Sheets -> Nat] /\ slots \in [Origins -> Sheets \cup {Null}]
      /\ SheetCounts(heap, held, counted, slots)
  BY Departed
<1>2. SheetCounts(g, held, counted, slots)
  <2>1. \A t \in Sheets : /\ g.refs[t] = heap.refs[t] /\ (t \in held <=> t \in held)
                          /\ t \in g.live <=> t \in heap.live
    BY DEF DataOnly
  <2> QED
    BY <1>1, <2>1, SheetsKept
<1> HIDE DEF ct, lo
<1>3. Consistent(g, held, counted, slots, ct, lo)
  BY <1>1, <1>2, DataChanged
<1>4. Members(heap') = Members(heap)
  BY DEF DataOnly, Members
<1>5. Consistent(heap', held', counted', slots', ct, lo)
  BY <1>3
<1> QED
  BY <1>4, <1>5, StutterStep DEF ct, lo

LEMMA SetParentSheetStep ==
    ASSUME IInv, NEW s \in Stmts, NEW t \in Sheets \cup {Null}, SetParentSheet(s, t)
    PROVE  IInv' /\ ListsStep
<1> DEFINE g == [heap EXCEPT !.parent[s] = t]
<1>1. /\ s \in held /\ t \in heap.live \cup {Null} /\ heap' = g
      /\ held' = held /\ counted' = counted /\ slots' = slots
  BY DEF SetParentSheet, Loose, SheetOrNull, SameSheets
<1>2. heap \in Heaps /\ Named(heap) /\ ListCounts(heap, held) /\ t \in Owners \cup {Null} /\ s \in Nodes
  BY Departed DEF Owners, Nodes
<1>3. /\ g \in Heaps /\ g.live = heap.live /\ g.kind = heap.kind /\ g.next = heap.next
      /\ g.prev = heap.prev /\ g.first = heap.first /\ g.refs = heap.refs
      /\ \A x \in Nodes : g.parent[x] = IF x = s THEN t ELSE heap.parent[x]
  BY <1>2 DEF Heaps
<1> HIDE DEF g
<1>4. \A x \in Members(heap) : g.parent[x] \in heap.live \cup {Null}
  BY <1>1, <1>2, <1>3 DEF Named, ParentsLive, Members
<1>5. \A d \in Decls : IF d \in heap.live \ held THEN g.refs[d] <= 1
                       ELSE d \notin heap.live => g.refs[d] = 0
  BY <1>2, <1>3 DEF ListCounts, Named, Blank
<1>6. DataOnly(heap, held, g)
  BY <1>3, <1>4, <1>5 DEF DataOnly
<1> QED
  BY <1>1, <1>3, <1>6, DataStep

\* Whether a ruleset has selectors is told in no list.
LEMMA SelectorsSet ==
    ASSUME IInv, NEW s \in Stmts, NEW some \in BOOLEAN, heap' = [heap EXCEPT !.sel[s] = some],
           held' = held, counted' = counted, slots' = slots
    PROVE  IInv' /\ ListsStep
<1> DEFINE g == [heap EXCEPT !.sel[s] = some]
<1>2. heap \in Heaps /\ Named(heap) /\ ListCounts(heap, held)
  BY Departed
<1>3. /\ g \in Heaps /\ g.live = heap.live /\ g.kind = heap.kind /\ g.next = heap.next
      /\ g.prev = heap.prev /\ g.first = heap.first /\ g.refs = heap.refs
      /\ g.parent = heap.parent
  BY <1>2 DEF Heaps
<1> HIDE DEF g
<1>4. \A x \in Members(heap) : g.parent[x] \in heap.live \cup {Null}
  BY <1>2, <1>3 DEF Named, ParentsLive
<1>5. \A d \in Decls : IF d \in heap.live \ held THEN g.refs[d] <= 1
                       ELSE d \notin heap.live => g.refs[d] = 0
  BY <1>2, <1>3 DEF ListCounts, Named, Blank
<1>6. DataOnly(heap, held, g)
  BY <1>3, <1>4, <1>5 DEF DataOnly
<1>7. heap' = g
  BY DEF g
<1> QED
  BY <1>3, <1>6, <1>7, DataStep

LEMMA SetSelListStep ==
    ASSUME IInv, NEW s \in Stmts, NEW some \in BOOLEAN, SetSelList(s, some)
    PROVE  IInv' /\ ListsStep
BY SelectorsSet DEF SetSelList, SameSheets

\* Where the call destroys the declarations it leaves a pointer to them, and it is not
\* called there: otherwise it forgets the selectors, or does nothing.
LEMMA SetDeclListStep ==
    ASSUME IInv, NEW s \in Stmts, NEW l \in Decls \cup {Null}, SetDeclList(s, l)
    PROVE  IInv' /\ ListsStep
<1>1. held' = held /\ counted' = counted /\ slots' = slots
  BY DEF SetDeclList, SameSheets
<1>2. CASE l = heap.first[s]
  <2>1. heap' = heap
    BY <1>2 DEF SetDeclList
  <2>2. heap \in Heaps /\ Consistent(heap, held, counted, slots, ContentsIn(heap), LooseIn(heap, held))
    BY Departed
  <2>3. /\ Members(heap') = Members(heap)
        /\ Consistent(heap', held', counted', slots', ContentsIn(heap), LooseIn(heap, held))
    BY <1>1, <2>1, <2>2
  <2> QED
    BY <2>3, StutterStep
<1>3. CASE l # heap.first[s]
  <2>1. heap' = [heap EXCEPT !.sel[s] = FALSE]
    BY <1>3 DEF SetDeclList, MaySetDeclList
  <2> QED
    BY <1>1, <2>1, SelectorsSet
<1> QED
  BY <1>2, <1>3

LEMMA RefSheetStep ==
    ASSUME IInv, NEW t \in Sheets, RefSheet(t)
    PROVE  IInv' /\ ListsStep
<1> DEFINE g  == [heap EXCEPT !.refs[t] = heap.refs[t] + 1]
           ct == ContentsIn(heap)
           lo == LooseIn(heap, held)
<1>1. /\ t \in held \/ counted[t] > 0
      /\ heap' = g /\ held' = held \ {t} /\ slots' = slots
      /\ counted' = [counted EXCEPT ![t] = counted[t] + 1]
  BY DEF RefSheet
<1>2. /\ heap \in Heaps /\ Named(heap) /\ ListCounts(heap, held) /\ held \subseteq heap.live
      /\ Consistent(heap, held, counted, slots, ct, lo) /\ SheetCounts(heap, held, counted, slots)
      /\ counted \in [Sheets -> Nat] /\ slots \in [Origins -> Sheets \cup {Null}]
  BY Departed
<1>3. /\ g \in Heaps /\ g.live = heap.live /\ g.kind = heap.kind /\ g.next = heap.next
      /\ g.prev = heap.prev /\ g.first = heap.first /\ g.parent = heap.parent
      /\ \A x \in Decls \cup Sheets : g.refs[x] = IF x = t THEN heap.refs[x] + 1 ELSE heap.refs[x]
  BY <1>2 DEF Heaps
<1> HIDE DEF g, ct, lo
<1>4. \A x \in Members(heap) : g.parent[x] \in heap.live \cup {Null}
  BY <1>2, <1>3 DEF Named, ParentsLive
<1>5. \A d \in Decls : IF d \in heap.live \ held THEN g.refs[d] <= 1
                       ELSE d \notin heap.live => g.refs[d] = 0
  BY <1>2, <1>3, Disjoint DEF ListCounts, Named, Blank
<1>6. DataOnly(heap, held, g)
  BY <1>3, <1>4, <1>5 DEF DataOnly
<1>7. /\ counted' \in [Sheets -> Nat]
      /\ \A u \in Sheets : counted'[u] = IF u = t THEN counted[u] + 1 ELSE counted[u]
  BY <1>1, <1>2
<1>8. SheetCounts(g, held', counted', slots)
  <2>1. SUFFICES ASSUME NEW u \in Sheets
                 PROVE  /\ g.refs[u] = counted'[u] + Cardinality(SlotsOf(slots, u))
                        /\ u \in g.live <=> u \in held' \/ g.refs[u] > 0
                        /\ u \in held' => g.refs[u] = 0
    BY DEF SheetCounts, SlotsOf
  <2>2. /\ heap.refs[u] = counted[u] + Cardinality(SlotsOf(slots, u))
        /\ u \in heap.live <=> u \in held \/ heap.refs[u] > 0
        /\ u \in held => heap.refs[u] = 0
    BY <1>2 DEF SheetCounts, SlotsOf
  <2>3. Cardinality(SlotsOf(slots, u)) \in Nat /\ counted[u] \in Nat /\ heap.refs[u] \in Nat
    BY <1>2, SlotsFinite DEF Heaps
  <2>4. u \in held' <=> u \in held /\ u # t
    BY <1>1
  <2>5. g.refs[u] = IF u = t THEN heap.refs[u] + 1 ELSE heap.refs[u]
    BY <1>3
  <2> QED
    BY <1>1, <1>3, <1>7, <2>2, <2>3, <2>4, <2>5
<1>9. held' \subseteq heap.live /\ held' \cap Nodes = held \cap Nodes
  BY <1>1, <1>2, Disjoint
<1>10. Consistent(g, held', counted', slots, ct, lo)
  BY <1>2, <1>3, <1>6, <1>7, <1>8, <1>9, DataChanged
<1>11. /\ Consistent(heap', held', counted', slots', ct, lo)
       /\ Members(heap') = Members(heap)
  BY <1>1, <1>3, <1>10 DEF Members
<1> QED
  BY <1>11, StutterStep DEF ct, lo

LEMMA NewSheetStep ==
    ASSUME IInv, NEW t \in Sheets, NEW s \in Stmts \cup {Null}, NewSheet(t, s)
    PROVE  IInv' /\ ListsStep
<1> DEFINE ct == ContentsIn(heap)
           lo == LooseIn(heap, held)
           g  == [Allocated(heap, t) EXCEPT !.first[t] = s]
<1>1. /\ t \notin heap.live /\ (s # Null => s \in held \cap Nodes /\ s \in Stmts)
      /\ heap' = g
      /\ held' = (held \ {s}) \cup {t} /\ counted' = counted /\ slots' = slots
  BY DEF NewSheet, Fresh, Loose, SameSheets, Nodes
<1>2. /\ Consistent(heap, held, counted, slots, ct, lo) /\ Represents(heap, held, ct, lo)
      /\ heap \in Heaps /\ t \in Owners /\ t \notin Nodes /\ t \in Objects
  BY Departed, Disjoint
<1>3. \E b \in lo \cup {<<>>} : /\ s = IF b = <<>> THEN Null ELSE b[1]
                                /\ b # <<>> => Range(b) \subseteq Stmts
  <2>1. CASE s = Null
    BY <2>1
  <2>2. CASE s # Null
    <3>1. PICK b \in lo : b = From(heap, s) /\ b[1] = s /\ Range(b) \subseteq Stmts /\ b # <<>>
      BY <1>1, <2>2, LooseList
    <3> QED
      BY <3>1
  <2> QED
    BY <2>1, <2>2
<1>4. PICK b \in lo \cup {<<>>} : /\ s = IF b = <<>> THEN Null ELSE b[1]
                                  /\ b # <<>> => Range(b) \subseteq Stmts
  BY <1>3
<1>5. Members(heap') = Members(heap)
  <2>1. g.live = heap.live \cup {t}
    BY <1>2 DEF Allocated, Heaps
  <2> QED
    BY <1>1, <1>2, <2>1 DEF Members
<1> HIDE DEF ct, lo
<1>6. Consistent(g, (held \ {s}) \cup {t}, counted, slots,
                 IF b = <<>> THEN ct ELSE [ct EXCEPT ![t] = b], lo \ {b})
  BY <1>1, <1>2, <1>4, SheetMade
<1> HIDE DEF g
<1>7. Consistent(heap', held', counted', slots',
                 IF b = <<>> THEN ct ELSE [ct EXCEPT ![t] = b], lo \ {b})
  BY <1>1, <1>6
<1>8. CASE b = <<>>
  <2>1. lo \ {b} = lo
    BY <1>2, <1>8, ListsApart
  <2>2. Consistent(heap', held', counted', slots', ct, lo)
    BY <1>7, <1>8, <2>1
  <2> QED
    BY <1>5, <2>2, StutterStep DEF ct, lo
<1>9. CASE b # <<>>
  <2>1. ct[t] = <<>>
    BY <1>1, <1>2 DEF Represents
  <2>2. b \in Seq(Nodes) /\ b \in lo
    BY <1>2, <1>4, <1>9, ListsKnown
  <2>3. <<>> \o b = b
    BY <2>2
  <2>4. [ct EXCEPT ![t] = b] = [ct EXCEPT ![t] = @ \o b]
    BY <2>1, <2>3
  <2>5. Consistent(heap', held', counted', slots', [ct EXCEPT ![t] = @ \o b], lo \ {b})
    BY <1>7, <1>9, <2>4
  <2> QED
    BY <1>2, <1>5, <2>2, <2>5, GiveStep DEF ct, lo
<1> QED
  BY <1>8, <1>9

LEMMA DestroyStatementStep ==
    ASSUME IInv, NEW s \in Stmts, DestroyStatement(s)
    PROVE  IInv' /\ ListsStep
<1> DEFINE ct == ContentsIn(heap)
           lo == LooseIn(heap, held)
<1>1. /\ s \in held \cap Nodes /\ heap' = StmtsDestroyed(heap, s)
      /\ held' = held \ {s} /\ counted' = counted /\ slots' = slots
      /\ \A n \in (heap.live \cap Nodes) \ (heap.live \ heap'.live) :
            heap.parent[n] \notin heap.live \ heap'.live
  BY DEF DestroyStatement, Loose, SameSheets, NoOrphans, Nodes
<1>2. /\ Consistent(heap, held, counted, slots, ct, lo) /\ heap \in Heaps
      /\ Represents(heap, held, ct, lo) /\ Sorted(heap, ct, lo)
  BY Departed
<1>3. PICK b \in lo : b = From(heap, s) /\ b[1] = s /\ Range(b) \subseteq Stmts
  BY <1>1, LooseList
<1> HIDE DEF ct, lo
<1> DEFINE D == Entirely(ct, Range(b))
<1>4. D = Within(ct, Within(ct, Range(b)))
  <2>1. Range(b) \cap Sheets = {}
    BY <1>3, Disjoint
  <2> QED
    BY <1>2, <2>1, EntirelyStatements
<1>5. StmtsDestroyed(heap, b[1]) = Freed(heap, Within(ct, Within(ct, Range(b))))
  <2>1. b \in Listed(ct, lo)
    BY <1>2, ListsApart
  <2> QED
    BY <1>2, <1>3, <2>1, StmtsDestroyedIs
<1>6. D = Entirely(ct, Range(b))
  OBVIOUS
<1> HIDE DEF D
<1>7. heap' = Freed(heap, D)
  BY <1>1, <1>3, <1>4, <1>5
<1>8. heap'.live = heap.live \ D
  BY <1>2, <1>7, FreedIs
<1>9. Parentless(heap, D)
  BY <1>1, <1>8 DEF Parentless, Members
<1>10. /\ Consistent(Freed(heap, D), held \ {b[1]}, counted, slots, Spared(ct, D), LooseSpared(lo, D))
       /\ held \ {b[1]} = held \ D
  BY <1>2, <1>6, <1>9, LooseFreed
<1>11. Consistent(heap', held', counted', slots', Spared(ct, D), LooseSpared(lo, D))
  BY <1>1, <1>3, <1>7, <1>10
<1> QED
  BY <1>6, <1>8, <1>11, FreeStep DEF ct, lo

-----------------------------------------------------------------------------
(* The operations on sheets and the cascade.                                 *)

\* No parent dangles after a step of the application.
LEMMA Orphanless ==
    ASSUME IInv, NEW h2, heap' = h2, NoOrphans(heap.live \ heap'.live),
           NEW S, FreedBut(heap, h2, S)
    PROVE  ParentsLive(h2)
<1>1. /\ heap \in Heaps /\ ParentsLive(heap)
      /\ \A n \in (heap.live \cap Nodes) \ (heap.live \ h2.live) : heap.parent[n] \notin heap.live \ h2.live
  BY Departed DEF Named, NoOrphans
<1> QED
  BY <1>1, ParentsSpared

\* A reference to a sheet is given up, and the sheet where it was the last.
LEMMA SheetUnrefedStep ==
    ASSUME IInv, NEW t \in Sheets, t \in heap.live, heap' = SheetUnrefed(heap, t),
           NoOrphans(heap.live \ heap'.live), held' = held \ {t},
           NEW cn \in [Sheets -> Nat], counted' = cn, slots' = slots,
           OneLess(heap, t, counted, slots, cn, slots)
    PROVE  IInv' /\ ListsStep
<1> DEFINE ct == ContentsIn(heap)
           lo == LooseIn(heap, held)
           U  == GivenUp(heap, t)
           D  == Entirely(ct, U)
           g  == SheetUnrefed(heap, t)
<1>1. /\ Intact(heap, held, counted, slots, ct, lo) /\ heap \in Heaps
      /\ slots \in [Origins -> Sheets \cup {Null}]
  BY Departed, ConsistentIs
<1> HIDE DEF ct, lo
<1>2. D = Entirely(ct, GivenUp(heap, t))
  OBVIOUS
<1> HIDE DEF D
<1>3. /\ Intact(g, held \ {t}, cn, slots, Spared(ct, D), LooseSpared(lo, D))
      /\ FreedBut(heap, g, D)
  BY <1>1, <1>2, SheetGivenUp
<1>4. heap' = g
  OBVIOUS
<1> HIDE DEF g
<1>5. ParentsLive(g)
  BY <1>3, <1>4, Orphanless
<1>6. Consistent(g, held \ {t}, cn, slots, Spared(ct, D), LooseSpared(lo, D))
  BY <1>3, <1>5, ConsistentIs
<1>7. Consistent(heap', held', counted', slots', Spared(ct, D), LooseSpared(lo, D))
  BY <1>4, <1>6
<1>8. heap'.live = heap.live \ D
  BY <1>3, <1>4 DEF FreedBut
<1>9. U \in SUBSET Sheets /\ D = Entirely(ct, U)
  BY <1>2 DEF GivenUp
<1> HIDE DEF U
<1> QED
  BY <1>7, <1>8, <1>9, FreeStep DEF ct, lo

\* What the counts say of a sheet.
LEMMA SheetIs ==
    ASSUME NEW h \in Heaps, NEW hl, NEW cn \in [Sheets -> Nat], NEW sl,
           SheetCounts(h, hl, cn, sl), NEW t \in Sheets
    PROVE  /\ h.refs[t] = cn[t] + Cardinality(SlotsOf(sl, t))
           /\ Cardinality(SlotsOf(sl, t)) \in Nat /\ cn[t] \in Nat /\ h.refs[t] \in Nat
           /\ t \in h.live <=> t \in hl \/ h.refs[t] > 0
           /\ t \in hl => h.refs[t] = 0 /\ cn[t] = 0
<1>1. Cardinality(SlotsOf(sl, t)) \in Nat /\ cn[t] \in Nat /\ h.refs[t] \in Nat
  BY SlotsFinite DEF Heaps
<1>2. /\ h.refs[t] = cn[t] + Cardinality(SlotsOf(sl, t))
      /\ t \in h.live <=> t \in hl \/ h.refs[t] > 0
      /\ t \in hl => h.refs[t] = 0
  BY DEF SheetCounts, SlotsOf
<1> QED
  BY <1>1, <1>2

LEMMA UnrefSheetStep ==
    ASSUME IInv, NEW t \in Sheets, UnrefSheet(t)
    PROVE  IInv' /\ ListsStep
<1> DEFINE cn == [counted EXCEPT ![t] = IF counted[t] > 0 THEN counted[t] - 1 ELSE 0]
<1>1. /\ t \in held \/ counted[t] > 0
      /\ heap' = SheetUnrefed(heap, t) /\ NoOrphans(heap.live \ heap'.live)
      /\ counted' = cn /\ held' = held \ {t} /\ slots' = slots
  BY DEF UnrefSheet
<1>2. /\ heap \in Heaps /\ counted \in [Sheets -> Nat] /\ SheetCounts(heap, held, counted, slots)
  BY Departed
<1>3. /\ heap.refs[t] = counted[t] + Cardinality(SlotsOf(slots, t))
      /\ Cardinality(SlotsOf(slots, t)) \in Nat /\ counted[t] \in Nat /\ heap.refs[t] \in Nat
      /\ t \in heap.live <=> t \in held \/ heap.refs[t] > 0
      /\ t \in held => heap.refs[t] = 0 /\ counted[t] = 0
  BY <1>2, SheetIs
<1>4. t \in heap.live
  BY <1>1, <1>3
<1>5. /\ cn \in [Sheets -> Nat]
      /\ \A u \in Sheets : cn[u] = IF u # t THEN counted[u]
                                   ELSE IF counted[t] > 0 THEN counted[t] - 1 ELSE 0
  BY <1>2, <1>3
<1> HIDE DEF cn
<1>6. cn[t] + Cardinality(SlotsOf(slots, t)) = IF heap.refs[t] > 0 THEN heap.refs[t] - 1 ELSE 0
  BY <1>1, <1>3, <1>5
<1>7. OneLess(heap, t, counted, slots, cn, slots)
  BY <1>5, <1>6 DEF OneLess
<1> QED
  BY <1>1, <1>4, <1>5, <1>7, SheetUnrefedStep

LEMMA DestroySheetStep ==
    ASSUME IInv, NEW t \in Sheets, DestroySheet(t)
    PROVE  IInv' /\ ListsStep
<1>1. /\ t \in held
      /\ heap' = SheetDestroyed(heap, t) /\ NoOrphans(heap.live \ heap'.live)
      /\ counted' = counted /\ held' = held \ {t} /\ slots' = slots
  BY DEF DestroySheet, SameSheets
<1>2. /\ heap \in Heaps /\ counted \in [Sheets -> Nat] /\ SheetCounts(heap, held, counted, slots)
  BY Departed
<1>3. /\ heap.refs[t] = counted[t] + Cardinality(SlotsOf(slots, t))
      /\ t \in heap.live <=> t \in held \/ heap.refs[t] > 0
      /\ t \in held => heap.refs[t] = 0 /\ counted[t] = 0
  BY <1>2, SheetIs
<1>4. t \in heap.live /\ heap.refs[t] = 0
  BY <1>1, <1>3
<1>5. heap' = SheetUnrefed(heap, t)
  BY <1>1, <1>2, <1>4, SheetUnrefedIs
<1>6. OneLess(heap, t, counted, slots, counted, slots)
  BY <1>3, <1>4 DEF OneLess
<1> QED
  BY <1>1, <1>2, <1>4, <1>5, <1>6, SheetUnrefedStep

\* A sheet takes an empty slot, and is counted once more.
LEMMA SlotTaken ==
    ASSUME NEW h, NEW hl, NEW cn, NEW sl, NEW ct, NEW lo, Consistent(h, hl, cn, sl, ct, lo),
           NEW t \in Sheets, t \in hl \/ h.refs[t] > 0, NEW o \in Origins, sl[o] = Null,
           NEW sl2 \in [Origins -> Sheets \cup {Null}], sl2[o] = t, OtherSlots(sl, sl2, o)
    PROVE  /\ Consistent([h EXCEPT !.refs[t] = @ + 1], hl \ {t}, cn, sl2, ct, lo)
           /\ [h EXCEPT !.refs[t] = @ + 1].live = h.live
<1> DEFINE g == [h EXCEPT !.refs[t] = h.refs[t] + 1]
<1>1. /\ h \in Heaps /\ hl \subseteq h.live /\ cn \in [Sheets -> Nat] /\ Named(h)
      /\ ListCounts(h, hl) /\ SheetCounts(h, hl, cn, sl)
  BY DEF Consistent
<1>2. /\ g \in Heaps /\ g.live = h.live /\ g.kind = h.kind /\ g.next = h.next
      /\ g.prev = h.prev /\ g.first = h.first /\ g.parent = h.parent
      /\ \A x \in Decls \cup Sheets : g.refs[x] = IF x = t THEN h.refs[x] + 1 ELSE h.refs[x]
  BY <1>1 DEF Heaps
<1>3. g = [h EXCEPT !.refs[t] = @ + 1]
  OBVIOUS
<1> HIDE DEF g
<1>4. \A x \in Members(h) : g.parent[x] \in h.live \cup {Null}
  BY <1>1, <1>2 DEF Named, ParentsLive
<1>5. \A d \in Decls : IF d \in h.live \ hl THEN g.refs[d] <= 1
                       ELSE d \notin h.live => g.refs[d] = 0
  BY <1>1, <1>2, Disjoint DEF ListCounts, Named, Blank
<1>6. DataOnly(h, hl, g)
  BY <1>2, <1>4, <1>5 DEF DataOnly
<1>7. SheetCounts(g, hl \ {t}, cn, sl2)
  <2>1. SUFFICES ASSUME NEW u \in Sheets
                 PROVE  /\ g.refs[u] = cn[u] + Cardinality(SlotsOf(sl2, u))
                        /\ u \in g.live <=> u \in hl \ {t} \/ g.refs[u] > 0
                        /\ u \in hl \ {t} => g.refs[u] = 0
    BY DEF SheetCounts, SlotsOf
  <2>2. /\ h.refs[u] = cn[u] + Cardinality(SlotsOf(sl, u))
        /\ Cardinality(SlotsOf(sl, u)) \in Nat /\ cn[u] \in Nat /\ h.refs[u] \in Nat
        /\ u \in h.live <=> u \in hl \/ h.refs[u] > 0
        /\ u \in hl => h.refs[u] = 0 /\ cn[u] = 0
    BY <1>1, SheetIs
  <2>3. Cardinality(SlotsOf(sl2, u)) = Cardinality(SlotsOf(sl, u))
                                        - (IF sl[o] = u THEN 1 ELSE 0) + (IF sl2[o] = u THEN 1 ELSE 0)
    BY SlotCounts
  <2>4. sl[o] # u
    BY Disjoint DEF Objects
  <2>5. g.refs[u] = IF u = t THEN h.refs[u] + 1 ELSE h.refs[u]
    BY <1>2
  <2>6. Cardinality(SlotsOf(sl2, u)) = Cardinality(SlotsOf(sl, u)) + (IF u = t THEN 1 ELSE 0)
    BY <2>2, <2>3, <2>4
  <2>7. CASE u = t
    <3>1. t \in h.live /\ g.refs[u] = h.refs[u] + 1 /\ u \notin hl \ {t}
      BY <2>2, <2>5, <2>7
    <3> QED
      BY <1>2, <2>2, <2>6, <2>7, <3>1
  <2>8. CASE u # t
    BY <1>2, <2>2, <2>5, <2>6, <2>8
  <2> QED
    BY <2>7, <2>8
<1>8. hl \ {t} \subseteq h.live /\ (hl \ {t}) \cap Nodes = hl \cap Nodes
  BY <1>1, Disjoint
<1>9. Consistent(g, hl \ {t}, cn, sl2, ct, lo)
  BY <1>1, <1>2, <1>6, <1>7, <1>8, DataChanged
<1> QED
  BY <1>2, <1>3, <1>9

LEMMA SetSheetStep ==
    ASSUME IInv, NEW t \in Sheets, NEW o \in Origins, SetSheet(t, o)
    PROVE  IInv' /\ ListsStep
<1> DEFINE ct == ContentsIn(heap)
           lo == LooseIn(heap, held)
           h  == IF slots[o] = Null THEN heap ELSE SheetUnrefed(heap, slots[o])
           s1 == [slots EXCEPT ![o] = Null]
           s2 == [slots EXCEPT ![o] = t]
           g  == [h EXCEPT !.refs[t] = @ + 1]
<1>1. /\ t \in held \/ heap.refs[t] > 0
      /\ slots[o] = t => heap.refs[t] > 1
      /\ heap' = g /\ NoOrphans(heap.live \ heap'.live)
      /\ held' = held \ {t} /\ slots' = s2 /\ counted' = counted
  BY DEF SetSheet
<1>2. /\ Consistent(heap, held, counted, slots, ct, lo) /\ heap \in Heaps
      /\ counted \in [Sheets -> Nat] /\ slots \in [Origins -> Sheets \cup {Null}]
      /\ SheetCounts(heap, held, counted, slots)
  BY Departed
<1>3. /\ s1 \in [Origins -> Sheets \cup {Null}] /\ s1[o] = Null /\ OtherSlots(slots, s1, o)
      /\ s2 \in [Origins -> Sheets \cup {Null}] /\ s2[o] = t /\ OtherSlots(slots, s2, o)
      /\ OtherSlots(s1, s2, o)
  BY <1>2 DEF OtherSlots
<1> HIDE DEF ct, lo
<1>4. CASE slots[o] = Null
  <2>1. h = heap
    BY <1>4
  <2> HIDE DEF s1, s2, h
  <2>2. /\ Consistent([heap EXCEPT !.refs[t] = @ + 1], held \ {t}, counted, s2, ct, lo)
        /\ [heap EXCEPT !.refs[t] = @ + 1].live = heap.live
    BY <1>1, <1>2, <1>3, <1>4, SlotTaken
  <2>3. heap' = [heap EXCEPT !.refs[t] = @ + 1]
    BY <1>1, <2>1
  <2>4. Consistent(heap', held', counted', slots', ct, lo) /\ Members(heap') = Members(heap)
    BY <1>1, <2>2, <2>3 DEF Members
  <2> QED
    BY <2>4, StutterStep DEF ct, lo
<1>5. CASE slots[o] # Null
  <2> DEFINE u == slots[o]
             D == Entirely(ct, GivenUp(heap, u))
  <2>1. u \in Sheets
    BY <1>2, <1>5
  <2>2. h = SheetUnrefed(heap, u)
    BY <1>5
  <2>3. D = Entirely(ct, GivenUp(heap, u)) /\ slots[o] = u
    OBVIOUS
  <2> HIDE DEF s1, s2, h, u, D
  <2>4. /\ heap.refs[u] = counted[u] + Cardinality(SlotsOf(slots, u))
        /\ Cardinality(SlotsOf(slots, u)) \in Nat /\ counted[u] \in Nat /\ heap.refs[u] \in Nat
        /\ u \in heap.live <=> u \in held \/ heap.refs[u] > 0
        /\ u \in held => heap.refs[u] = 0
    BY <1>2, <2>1, SheetIs
  <2>5. Cardinality(SlotsOf(slots, u)) > 0
    BY <1>3, <2>3, SlotCounts
  <2>6. heap.refs[u] > 0 /\ u \in heap.live /\ u \notin held /\ held \ {u} = held
    BY <2>4, <2>5
  <2>7. OneLess(heap, u, counted, slots, counted, s1)
    <3>1. SUFFICES ASSUME NEW v \in Sheets
                   PROVE  counted[v] + Cardinality(SlotsOf(s1, v)) =
                             IF v # u THEN counted[v] + Cardinality(SlotsOf(slots, v))
                             ELSE IF heap.refs[u] > 0 THEN heap.refs[u] - 1 ELSE 0
      BY DEF OneLess
    <3>2. Cardinality(SlotsOf(s1, v)) = Cardinality(SlotsOf(slots, v))
                                        - (IF slots[o] = v THEN 1 ELSE 0) + (IF s1[o] = v THEN 1 ELSE 0)
      BY <1>3, SlotCounts
    <3>3. s1[o] # v /\ Cardinality(SlotsOf(slots, v)) \in Nat
      BY <1>3, SlotsFinite, Disjoint DEF Objects
    <3>4. CASE v = u
      BY <2>3, <2>4, <2>6, <3>2, <3>3, <3>4
    <3>5. CASE v # u
      BY <2>3, <3>2, <3>3, <3>5
    <3> QED
      BY <3>4, <3>5
  <2>8. /\ Intact(h, held \ {u}, counted, s1, Spared(ct, D), LooseSpared(lo, D))
        /\ FreedBut(heap, h, D)
    <3>1. Intact(heap, held, counted, slots, ct, lo)
      BY <1>2, ConsistentIs
    <3>2. /\ Intact(SheetUnrefed(heap, u), held \ {u}, counted, s1, Spared(ct, D), LooseSpared(lo, D))
          /\ FreedBut(heap, SheetUnrefed(heap, u), D)
      BY <1>2, <1>3, <2>1, <2>3, <2>6, <2>7, <3>1, SheetGivenUp
    <3> QED
      BY <2>2, <3>2
  <2>9. Intact(h, held, counted, s1, Spared(ct, D), LooseSpared(lo, D)) /\ h \in Heaps
    BY <2>6, <2>8 DEF Intact
  <2>10. heap'.live = h.live
    BY <1>1, <2>9 DEF Heaps
  <2>11. ParentsLive(h)
    <3>1. \A n \in (heap.live \cap Nodes) \ (heap.live \ h.live) : heap.parent[n] \notin heap.live \ h.live
      BY <1>1, <2>10 DEF NoOrphans
    <3>2. ParentsLive(heap)
      BY Departed DEF Named
    <3> QED
      BY <1>2, <2>8, <3>1, <3>2, ParentsSpared
  <2>12. Consistent(h, held, counted, s1, Spared(ct, D), LooseSpared(lo, D))
    BY <2>9, <2>11, ConsistentIs
  <2>13. Consistent([h EXCEPT !.refs[t] = @ + 1], held \ {t}, counted, s2,
                    Spared(ct, D), LooseSpared(lo, D))
    <3>1. /\ h.refs[t] = counted[t] + Cardinality(SlotsOf(s1, t))
          /\ heap.refs[t] = counted[t] + Cardinality(SlotsOf(slots, t))
          /\ heap.refs[t] \in Nat
      BY <1>2, <2>9, <2>12, SheetIs DEF Consistent
    <3>2. h.refs[t] = IF t # u THEN heap.refs[t]
                      ELSE IF heap.refs[u] > 0 THEN heap.refs[u] - 1 ELSE 0
      BY <2>7, <3>1 DEF OneLess
    <3>3. t \in held \/ h.refs[t] > 0
      BY <1>1, <2>3, <2>6, <3>1, <3>2
    <3> QED
      BY <1>3, <2>12, <3>3, SlotTaken
  <2>14. Consistent(heap', held', counted', slots', Spared(ct, D), LooseSpared(lo, D))
    BY <1>1, <2>13
  <2>15. heap'.live = heap.live \ D
    BY <2>8, <2>10 DEF FreedBut
  <2>16. GivenUp(heap, u) \in SUBSET Sheets
    BY <2>1 DEF GivenUp
  <2> QED
    BY <2>3, <2>14, <2>15, <2>16, FreeStep DEF ct, lo
<1> QED
  BY <1>4, <1>5

LEMMA DestroyCascadeStep ==
    ASSUME IInv, DestroyCascade
    PROVE  IInv' /\ ListsStep
<1> DEFINE ct == ContentsIn(heap)
           lo == LooseIn(heap, held)
           after == CHOOSE f : Unrefed(heap, slots, f)
           none  == [o \in Origins |-> Null]
<1>1. /\ heap' = SlotsUnrefed /\ NoOrphans(heap.live \ heap'.live)
      /\ slots' = none /\ held' = held /\ counted' = counted
  BY DEF DestroyCascade
<1>2. /\ Intact(heap, held, counted, slots, ct, lo) /\ heap \in Heaps
      /\ slots \in [Origins -> Sheets \cup {Null}]
  BY Departed, ConsistentIs
<1>3. SlotsUnrefed = after[NB_ORIGINS]
  BY DEF SlotsUnrefed, Unrefed
<1>4. Unrefed(heap, slots, after)
  BY <1>2, UnrefedExists
<1> HIDE DEF ct, lo, after
<1> DEFINE h2 == after[NB_ORIGINS]
<1>5. PICK T \in SUBSET Sheets :
         /\ Intact(h2, held, counted, none, Spared(ct, Entirely(ct, T)), LooseSpared(lo, Entirely(ct, T)))
         /\ FreedBut(heap, h2, Entirely(ct, T))
  BY <1>2, <1>4, CascadeGivenUp
<1> DEFINE D == Entirely(ct, T)
<1>6. D = Entirely(ct, T) /\ heap' = h2
  BY <1>1, <1>3
<1>7. /\ Intact(h2, held, counted, none, Spared(ct, D), LooseSpared(lo, D))
      /\ FreedBut(heap, h2, D)
  BY <1>5
<1> HIDE DEF h2, D, none
<1>8. ParentsLive(h2)
  BY <1>1, <1>6, <1>7, Orphanless
<1>9. Consistent(h2, held, counted, none, Spared(ct, D), LooseSpared(lo, D))
  BY <1>7, <1>8, ConsistentIs
<1>10. Consistent(heap', held', counted', slots', Spared(ct, D), LooseSpared(lo, D))
  BY <1>1, <1>6, <1>9
<1>11. heap'.live = heap.live \ D
  BY <1>6, <1>7 DEF FreedBut
<1> QED
  BY <1>6, <1>10, <1>11, FreeStep DEF ct, lo

-----------------------------------------------------------------------------
(* Declarations that take the place of others.                               *)

\* The heap in which l is the list of s, and counted.
Declared(k, s, l) ==
    IF l = Null THEN [k EXCEPT !.first[s] = l]
    ELSE [[k EXCEPT !.first[s] = l] EXCEPT !.refs[l] = @ + 1]

\* The statement s declares nothing, and l is the list b of declarations, or none.
Receives(k, ct, s, b, l) ==
    /\ s \in k.live /\ k.kind[s] \in Declaring /\ ct[s] = <<>>
    /\ l = IF b = <<>> THEN Null ELSE b[1]
    /\ b # <<>> => Range(b) \subseteq Decls /\ k.refs[b[1]] = 0 /\ b[1] \in Decls

LEMMA DeclarationsSet ==
    ASSUME NEW k, NEW hl, NEW cn, NEW sl, NEW ct, NEW lo, Consistent(k, hl, cn, sl, ct, lo),
           NEW s \in Stmts, NEW b \in lo \cup {<<>>}, NEW l, Receives(k, ct, s, b, l)
    PROVE  /\ Consistent(Declared(k, s, l), hl \ {l}, cn, sl, [ct EXCEPT ![s] = b], lo \ {b})
           /\ Declared(k, s, l).live = k.live
<1> USE DEF Receives
<1>1. /\ k \in Heaps /\ hl \subseteq k.live /\ cn \in [Sheets -> Nat] /\ Named(k)
      /\ sl \in [Origins -> Sheets \cup {Null}] /\ Represents(k, hl, ct, lo)
      /\ ListCounts(k, hl) /\ SheetCounts(k, hl, cn, sl) /\ s \in Owners
  BY DEF Consistent, Owners
<1>2. ct \in [Owners -> Seq(Nodes)] /\ k.first[s] = Null
  BY <1>1 DEF Represents
<1>3. CASE b = <<>>
  <2>1. [k EXCEPT !.first[s] = Null] = k
    BY <1>1, <1>2 DEF Heaps
  <2>2. Declared(k, s, l) = k
    BY <1>3, <2>1 DEF Declared
  <2>3. hl \ {l} = hl
    BY <1>1, <1>3, Disjoint DEF Heaps
  <2>4. [ct EXCEPT ![s] = b] = ct
    BY <1>2, <1>3
  <2>5. lo \ {b} = lo
    BY <1>1, <1>3, ListsApart
  <2> QED
    BY <2>2, <2>3, <2>4, <2>5
<1>4. CASE b # <<>>
  <2>1. /\ b \in lo /\ l = b[1] /\ Range(b) \subseteq Decls /\ k.refs[l] = 0 /\ l \in Decls
        /\ b \in Seq(Nodes) /\ l \in hl /\ l # Null /\ l \in k.live
    BY <1>1, <1>4, ListsKnown, Disjoint DEF Objects, Nodes
  <2> DEFINE g == [k EXCEPT !.first[s] = l]
             f == [g EXCEPT !.refs[l] = g.refs[l] + 1]
  <2>2. AppendedIn(k, s, b[1]) = g
    BY <1>1, <1>2, <2>1 DEF AppendedIn, Appended, FirstOf, Heaps
  <2>3. Range(b) \subseteq MayHold(k, s)
    BY <2>1, Disjoint DEF MayHold
  <2>4. Consistent(AppendedIn(k, s, b[1]), hl \ {b[1]}, cn, sl, [ct EXCEPT ![s] = @ \o b], lo \ {b})
    <3>1. b[1] \in Decls => k.refs[b[1]] <= 1
      BY <2>1
    <3> QED
      BY <1>1, <2>1, <2>3, <3>1, GivenConsistent
  <2>5. [ct EXCEPT ![s] = @ \o b] = [ct EXCEPT ![s] = b]
    <3>1. <<>> \o b = b
      BY <2>1
    <3> QED
      BY <3>1
  <2>6. g \in Heaps /\ g.live = k.live /\ g.refs = k.refs
    BY <1>1, <2>1 DEF Heaps, Nodes
  <2>7. Declared(k, s, l) = f
    BY <2>1 DEF Declared
  <2> HIDE DEF g
  <2> DEFINE ct2 == [ct EXCEPT ![s] = b]
             lo2 == lo \ {b}
             hl2 == hl \ {l}
  <2>8. Consistent(g, hl2, cn, sl, ct2, lo2)
    BY <2>1, <2>2, <2>4, <2>5
  <2>9. /\ f \in Heaps /\ f.live = g.live /\ f.kind = g.kind /\ f.next = g.next
        /\ f.prev = g.prev /\ f.first = g.first /\ f.parent = g.parent
        /\ \A x \in Decls \cup Sheets : f.refs[x] = IF x = l THEN g.refs[x] + 1 ELSE g.refs[x]
    <3> DEFINE r == [g.refs EXCEPT ![l] = g.refs[l] + 1]
    <3>1. /\ r \in [Decls \cup Sheets -> Nat]
          /\ \A x \in Decls \cup Sheets : r[x] = IF x = l THEN g.refs[x] + 1 ELSE g.refs[x]
      BY <2>1, <2>6 DEF Heaps
    <3>2. f = [g EXCEPT !.refs = r]
      OBVIOUS
    <3> HIDE DEF r, f
    <3> QED
      BY <2>6, <3>1, <3>2 DEF Heaps
  <2> HIDE DEF f, ct2, lo2
  <2>10. Named(g) /\ ListCounts(g, hl2) /\ SheetCounts(g, hl2, cn, sl) /\ hl2 \subseteq g.live
    BY <2>8 DEF Consistent
  <2>11. \A d \in Decls : IF d \in g.live \ hl2 THEN f.refs[d] <= 1
                          ELSE d \notin g.live => f.refs[d] = 0
    BY <2>1, <2>6, <2>9, <2>10 DEF ListCounts, Named, Blank
  <2>12. \A x \in Members(g) : f.parent[x] \in g.live \cup {Null}
    BY <2>9, <2>10 DEF Named, ParentsLive
  <2>13. DataOnly(g, hl2, f)
    BY <2>9, <2>11, <2>12 DEF DataOnly
  <2>14. SheetCounts(f, hl2, cn, sl)
    <3>1. \A t \in Sheets : /\ f.refs[t] = g.refs[t] /\ (t \in hl2 <=> t \in hl2)
                            /\ t \in f.live <=> t \in g.live
      BY <2>1, <2>9, Disjoint
    <3> QED
      BY <2>10, <3>1, SheetsKept
  <2> HIDE DEF hl2
  <2>15. Consistent(f, hl2, cn, sl, ct2, lo2)
    BY <1>1, <2>8, <2>9, <2>10, <2>13, <2>14, DataChanged
  <2> QED
    BY <2>6, <2>7, <2>9, <2>15 DEF ct2, lo2, hl2
<1> QED
  BY <1>3, <1>4

\* The declarations of a statement are freed.
LEMMA DeclarationsCleared ==
    ASSUME NEW h, NEW hl, NEW cn, NEW sl, NEW ct, NEW lo, Consistent(h, hl, cn, sl, ct, lo),
           NEW s \in Stmts, NEW c, c = ct[s], c # <<>>, Range(c) \subseteq Decls,
           NEW k, k = [Freed(h, Range(c)) EXCEPT !.first[s] = Null]
    PROVE  Consistent(k, hl, cn, sl, [ct EXCEPT ![s] = <<>>], lo)
<1> DEFINE g   == [h EXCEPT !.first[s] = Null]
           ct1 == [ct EXCEPT ![s] = <<>>]
           lo1 == lo \cup {c}
           hl1 == hl \cup {c[1]}
<1>1. /\ h \in Heaps /\ Represents(h, hl, ct, lo) /\ s \in Owners
      /\ hl \cap Nodes = {b[1] : b \in lo}
  BY DEF Consistent, Owners, Represents
<1>2. Consistent(g, hl1, cn, sl, ct1, lo1)
  <2>1. ct[s] # <<>> /\ s \in Owners
    BY <1>1
  <2>2. Consistent([h EXCEPT !.first[s] = Null], hl \cup {ct[s][1]}, cn, sl,
                   [ct EXCEPT ![s] = <<>>], lo \cup {ct[s]})
    BY <2>1, DisownedConsistent
  <2> QED
    BY <2>2
<1>3. /\ c \in Listed(ct, lo) /\ c \notin lo /\ c[1] \in Nodes /\ c \in Seq(Nodes)
      /\ \A b \in lo : Range(b) \cap Range(c) = {} /\ b # <<>>
      /\ \A d, e \in Listed(ct, lo) : d[1] = e[1] => d = e
  BY <1>1, ListsApart, ListsKnown
<1>4. c[1] \notin hl
  BY <1>1, <1>3, ListsApart
<1>5. hl1 \ {c[1]} = hl
  BY <1>4
<1>6. Spared(ct1, Range(c)) = ct1
  <2>1. \A o \in Owners : o \notin Range(c)
    BY Disjoint
  <2>2. ct1 \in [Owners -> Seq(Nodes)]
    BY <1>1 DEF Represents
  <2> HIDE DEF ct1
  <2> QED
    BY <2>1, <2>2 DEF Spared
<1>7. LooseSpared(lo1, Range(c)) = lo
  <2>1. Range(c) # {}
    BY <1>3, RangeIs
  <2> QED
    BY <1>3, <2>1 DEF LooseSpared
<1>8. Freed(g, Range(c)) = k
  BY <1>1 DEF Freed, Heaps
<1> HIDE DEF g, ct1, lo1, hl1
<1>9. c \in lo1
  BY DEF lo1
<1>10. Consistent(Freed(g, Range(c)), hl1 \ {c[1]}, cn, sl, Spared(ct1, Range(c)), LooseSpared(lo1, Range(c)))
  BY <1>2, <1>9, LooseDeclarations
<1> QED
  BY <1>5, <1>6, <1>7, <1>8, <1>10 DEF ct1

LEMMA SetDeclarationsStep ==
    ASSUME IInv, NEW s \in Stmts, NEW l \in Decls \cup {Null}, SetDeclarations(s, l)
    PROVE  IInv' /\ ListsStep
<1> DEFINE ct == ContentsIn(heap)
           lo == LooseIn(heap, held)
           a  == heap.first[s]
           h1 == IF a = Null THEN heap ELSE DeclsUnrefed(heap, a)
<1>1. /\ s \in heap.live /\ heap.kind[s] \in Declaring /\ Given(l, s)
      /\ heap' = Declared(h1, s, l)
      /\ held' = held \ {l} /\ counted' = counted /\ slots' = slots
  BY DEF SetDeclarations, Is, Declaring, SameSheets, Declared
<1>2. PICK b \in lo \cup {<<>>} :
              /\ l = IF b = <<>> THEN Null ELSE b[1]
              /\ b # <<>> => /\ b \in lo /\ Range(b) \subseteq Decls
                             /\ heap.refs[l] = 0 /\ l \in Decls /\ l # Null
  BY <1>1, GivenList
<1>3. /\ Consistent(heap, held, counted, slots, ct, lo) /\ heap \in Heaps
      /\ Represents(heap, held, ct, lo) /\ Sorted(heap, ct, lo) /\ ListCounts(heap, held) /\ s \in Owners
  BY Departed DEF Owners
<1> HIDE DEF ct, lo
<1>4. ct \in [Owners -> Seq(Nodes)] /\ a = IF ct[s] = <<>> THEN Null ELSE ct[s][1]
  BY <1>3 DEF Represents
<1>5. b # <<>> => Range(b) \subseteq Decls /\ heap.refs[b[1]] = 0 /\ b[1] \in Decls
  BY <1>2
<1>6. CASE ct[s] = <<>>
  <2>1. h1 = heap
    BY <1>4, <1>6
  <2>2. /\ Consistent(Declared(heap, s, l), held \ {l}, counted, slots, [ct EXCEPT ![s] = b], lo \ {b})
        /\ Declared(heap, s, l).live = heap.live
    <3>1. Receives(heap, ct, s, b, l)
      BY <1>1, <1>2, <1>5, <1>6 DEF Receives
    <3> QED
      BY <1>2, <1>3, <3>1, DeclarationsSet
  <2>3. Consistent(heap', held', counted', slots', [ct EXCEPT ![s] = b], lo \ {b})
    BY <1>1, <2>1, <2>2
  <2>4. Members(heap') = Members(heap) \ Range(ct[s])
    <3>1. Range(ct[s]) = {}
      BY <1>3, <1>4, <1>6, RangeIs
    <3> QED
      BY <1>1, <2>1, <2>2, <3>1 DEF Members
  <2> QED
    BY <1>2, <1>3, <2>3, <2>4, ReplaceStep DEF ct, lo
<1>7. CASE ct[s] # <<>>
  <2> DEFINE c == ct[s]
             k == [Freed(heap, Range(c)) EXCEPT !.first[s] = Null]
             ct1 == [ct EXCEPT ![s] = <<>>]
  <2>1. /\ c \in Listed(ct, lo) /\ c \in Seq(Nodes) /\ c[1] \in Nodes /\ Range(c) \subseteq Members(heap)
        /\ 1 \in 1..Len(c) /\ c[1] = a /\ a # Null
    BY <1>3, <1>4, <1>7, ListsApart, ListsKnown, Disjoint
  <2>2. Range(c) \subseteq Decls
    <3>1. MayHold(heap, s) = Decls
      BY <1>1, Disjoint DEF MayHold
    <3> QED
      BY <1>3, <3>1 DEF Sorted
  <2>3. a \in Decls /\ a \notin held /\ heap.refs[a] \in Nat /\ heap.refs[a] <= 1
    <3>1. a \in Range(c)
      BY <2>1, RangeIs
    <3>2. \A x \in lo : x[1] # a
      BY <1>3, <1>7, <2>1, ListsApart
    <3>3. a \notin held
      BY <1>3, <2>1, <3>2 DEF Represents
    <3> QED
      BY <1>3, <2>2, <3>1, <3>3 DEF ListCounts, Heaps
  <2>4. h1 = Freed(heap, Range(c))
    <3>1. From(heap, c[1]) = c
      <4>1. Chained(heap, Listed(ct, lo))
        BY <1>3 DEF Represents
      <4> HIDE DEF c
      <4> QED
        BY <2>1, <4>1, HeadOfChain
    <3>2. (IF heap.refs[a] > 0 THEN heap.refs[a] - 1 ELSE 0) = 0
      BY <2>3
    <3>3. DeclsUnrefed(heap, a) = DeclsDestroyed(heap, a)
      BY <3>2 DEF DeclsUnrefed
    <3> QED
      BY <2>1, <3>1, <3>3 DEF DeclsDestroyed
  <2>5. c = ct[s] /\ k = [Freed(heap, Range(c)) EXCEPT !.first[s] = Null]
    OBVIOUS
  <2>6. /\ Freed(heap, Range(c)) \in Heaps /\ Freed(heap, Range(c)).live = heap.live \ Range(c)
        /\ Freed(heap, Range(c)).kind[s] = heap.kind[s]
        /\ b # <<>> => Freed(heap, Range(c)).refs[b[1]] = 0
    <3>1. s \notin Range(c)
      BY <2>2, Disjoint
    <3> HIDE DEF c
    <3> QED
      BY <1>3, <1>5, <3>1, FreedIs
  <2>7. /\ k.live = heap.live \ Range(c) /\ k.kind[s] = heap.kind[s]
        /\ b # <<>> => k.refs[b[1]] = 0
    <3> DEFINE f == Freed(heap, Range(c))
    <3>1. f \in Heaps
      BY <2>6
    <3>2. k = [f EXCEPT !.first[s] = Null]
      OBVIOUS
    <3> HIDE DEF f, k
    <3>3. k.live = f.live /\ k.kind = f.kind /\ k.refs = f.refs
      BY <3>1, <3>2 DEF Heaps
    <3> QED
      BY <2>6, <3>3 DEF f
  <2>8. Declared(h1, s, l) = Declared(k, s, l)
    <3> DEFINE f == Freed(heap, Range(c))
    <3>1. f \in Heaps
      BY <2>6
    <3>2. h1 = f
      BY <2>4
    <3>3. k = [f EXCEPT !.first[s] = Null]
      OBVIOUS
    <3> HIDE DEF f, k, h1
    <3>4. [k EXCEPT !.first[s] = l] = [f EXCEPT !.first[s] = l]
      BY <3>1, <3>3 DEF Heaps
    <3> QED
      BY <3>2, <3>4 DEF Declared
  <2> HIDE DEF c, k
  <2>9. Consistent(k, held, counted, slots, ct1, lo)
    BY <1>3, <1>7, <2>2, <2>5, DeclarationsCleared
  <2>10. ct1[s] = <<>> /\ [ct1 EXCEPT ![s] = b] = [ct EXCEPT ![s] = b]
    BY <1>3, <1>4
  <2> HIDE DEF ct1
  <2>11. /\ s \in k.live /\ k.kind[s] \in Declaring
         /\ b # <<>> => Range(b) \subseteq Decls /\ k.refs[b[1]] = 0 /\ b[1] \in Decls
    <3>1. s \notin Range(c)
      BY <2>2, Disjoint
    <3> QED
      BY <1>1, <1>5, <2>7, <3>1
  <2>12. /\ Consistent(Declared(k, s, l), held \ {l}, counted, slots, [ct1 EXCEPT ![s] = b], lo \ {b})
         /\ Declared(k, s, l).live = k.live
    <3>1. Receives(k, ct1, s, b, l)
      BY <1>2, <2>10, <2>11 DEF Receives
    <3> QED
      BY <1>2, <2>9, <3>1, DeclarationsSet
  <2>13. Consistent(heap', held', counted', slots', [ct EXCEPT ![s] = b], lo \ {b})
    BY <1>1, <2>8, <2>10, <2>12
  <2>14. Members(heap') = Members(heap) \ Range(ct[s])
    BY <1>1, <2>5, <2>7, <2>8, <2>12 DEF Members
  <2> QED
    BY <1>2, <1>3, <2>13, <2>14, ReplaceStep DEF ct, lo
<1> QED
  BY <1>6, <1>7

-----------------------------------------------------------------------------
(* The specification.                                                        *)

LEMMA InitConsistent == Init => IInv /\ Lists!Init
<1> SUFFICES ASSUME Init PROVE IInv /\ Lists!Init
  OBVIOUS
<1> DEFINE ct == [o \in Owners |-> <<>>]
<1>1. /\ heap = EmptyHeap /\ held = {} /\ counted = [t \in Sheets |-> 0]
      /\ slots = [o \in Origins |-> Null]
  BY DEF Init
<1>2. /\ heap \in Heaps /\ heap.live = {}
      /\ \A n \in Nodes : heap.next[n] = Null /\ heap.prev[n] = Null /\ heap.parent[n] = Null
      /\ \A o \in Owners : heap.first[o] = Null
      /\ \A s \in Stmts : heap.kind[s] = "none"
      /\ \A x \in Decls \cup Sheets : heap.refs[x] = 0
  BY <1>1 DEF EmptyHeap, Heaps
<1>3. ct \in [Owners -> Seq(Nodes)] /\ \A o \in Owners : ct[o] = <<>>
  OBVIOUS
<1> HIDE DEF ct
<1>4. Represents(heap, held, ct, {})
  <2>1. Listed(ct, {}) = {}
    BY <1>3 DEF Listed
  <2>2. Chained(heap, {})
    BY <1>2 DEF Chained, Members
  <2>3. held \cap Nodes = {b[1] : b \in {}}
    BY <1>1
  <2> QED
    BY <1>2, <1>3, <2>1, <2>2, <2>3 DEF Represents
<1>5. Sorted(heap, ct, {})
  <2>1. Range(<<>>) = {}
    BY DEF Range
  <2> QED
    BY <1>3, <2>1 DEF Sorted
<1>6. SheetCounts(heap, held, counted, slots)
  <2> SUFFICES ASSUME NEW t \in Sheets
               PROVE  /\ heap.refs[t] = counted[t] + Cardinality(SlotsOf(slots, t))
                      /\ t \in heap.live <=> t \in held \/ heap.refs[t] > 0
                      /\ t \in held => heap.refs[t] = 0
    BY DEF SheetCounts, SlotsOf
  <2>1. \A o \in Origins : slots[o] # t
    BY <1>1, Disjoint DEF Objects
  <2>2. Cardinality(SlotsOf(slots, t)) = 0
    BY <2>1, SlotsEmpty
  <2> QED
    BY <1>1, <1>2, <2>2
<1>7. Named(heap) /\ ListCounts(heap, held)
  BY <1>2 DEF Named, ParentsLive, Blank, ListCounts, Members
<1>8. ct = ContentsIn(heap) /\ {} = LooseIn(heap, held)
  BY <1>4, Represented
<1>9. /\ held \subseteq heap.live /\ counted \in [Sheets -> Nat]
      /\ slots \in [Origins -> Sheets \cup {Null}]
  BY <1>1, <1>2
<1>10. Consistent(heap, held, counted, slots, ct, {})
  BY <1>2, <1>4, <1>5, <1>6, <1>7, <1>9 DEF Consistent
<1>11. IInv
  BY <1>8, <1>10 DEF IInv
<1>12. Lists!Init
  <2>1. heap.live \cap Nodes = {}
    BY <1>2
  <2>2. [o \in Owners |-> ListOf(heap, o)] = [o \in Owners |-> <<>>]
    BY <1>8 DEF ContentsIn, ct
  <2>3. {From(heap, a) : a \in held \cap Nodes} = {}
    BY <1>1
  <2> QED
    BY <2>1, <2>2, <2>3 DEF Lists!Init
<1> QED
  BY <1>11, <1>12

LEMMA DeclarationSteps ==
    ASSUME IInv, DeclStep
    PROVE  IInv' /\ ListsStep
<1>1. PICK d \in Decls :
        \/ \E s \in Stmts \cup {Null} : NewDeclaration(d, s)
        \/ \E a \in Decls : AppendList(Decls, a, d) \/ AppendNewDeclaration(a, d)
                              \/ PrependNode(Decls, a, d)
        \/ Unlink(d) \/ RefDeclaration(d) \/ UnrefDeclaration(d) \/ DestroyDeclaration(d)
  BY DEF DeclStep
<1>2. ASSUME NEW s \in Stmts \cup {Null}, NewDeclaration(d, s) PROVE IInv' /\ ListsStep
  BY <1>2, NewDeclarationStep
<1>3. ASSUME NEW a \in Decls, AppendList(Decls, a, d) PROVE IInv' /\ ListsStep
  BY <1>3, AppendListStep
<1>4. ASSUME NEW a \in Decls, AppendNewDeclaration(a, d) PROVE IInv' /\ ListsStep
  BY <1>4, AppendNewDeclarationStep
<1>5. ASSUME NEW a \in Decls, PrependNode(Decls, a, d) PROVE IInv' /\ ListsStep
  BY <1>5, PrependNodeStep
<1>6. CASE Unlink(d)
  <2>1. d \in Nodes
    BY DEF Nodes
  <2> QED
    BY <1>6, <2>1, UnlinkStep
<1>7. CASE RefDeclaration(d)
  BY <1>7, RefDeclarationStep
<1>8. CASE UnrefDeclaration(d)
  BY <1>8, UnrefDeclarationStep
<1>9. CASE DestroyDeclaration(d)
  BY <1>9, DestroyDeclarationStep
<1> QED
  BY <1>1, <1>2, <1>3, <1>4, <1>5, <1>6, <1>7, <1>8, <1>9

LEMMA StatementSteps ==
    ASSUME IInv, StmtStep
    PROVE  IInv' /\ ListsStep
<1>1. PICK s \in Stmts :
        \/ \E t \in Sheets \cup {Null} :
              \/ \E l \in Decls \cup {Null} :
                    \/ NewRuleset(s, t, l) \/ NewPage(s, t, l) \/ NewFontFace(s, t, l)
                    \/ \E m \in Stmts : NewRulesetInMedia(s, t, l, m)
              \/ \E r \in Stmts \cup {Null} : NewMedia(s, t, r)
              \/ NewImport(s, t) \/ SetParentSheet(s, t)
        \/ \E d \in Decls : AppendDeclaration(s, d) \/ AddDeclaration(s, d)
        \/ \E l \in Decls \cup {Null} : SetDeclList(s, l) \/ SetDeclarations(s, l)
        \/ \E some \in BOOLEAN : SetSelList(s, some)
        \/ \E r \in Stmts : AppendToMedia(s, r) \/ AppendList(Stmts, s, r) \/ PrependNode(Stmts, s, r)
        \/ Unlink(s) \/ DestroyStatement(s)
  BY DEF StmtStep
<1>2. ASSUME NEW t \in Sheets \cup {Null}, NEW l \in Decls \cup {Null},
             \/ NewRuleset(s, t, l) \/ NewPage(s, t, l) \/ NewFontFace(s, t, l)
             \/ \E m \in Stmts : NewRulesetInMedia(s, t, l, m)
      PROVE  IInv' /\ ListsStep
  BY <1>2, NewRulesetStep, NewPageStep, NewFontFaceStep, NewRulesetInMediaStep
<1>3. ASSUME NEW t \in Sheets \cup {Null}, NEW r \in Stmts \cup {Null}, NewMedia(s, t, r)
      PROVE  IInv' /\ ListsStep
  BY <1>3, NewMediaStep
<1>4. ASSUME NEW t \in Sheets \cup {Null}, NewImport(s, t) \/ SetParentSheet(s, t)
      PROVE  IInv' /\ ListsStep
  BY <1>4, NewImportStep, SetParentSheetStep
<1>5. ASSUME NEW d \in Decls, AppendDeclaration(s, d) \/ AddDeclaration(s, d)
      PROVE  IInv' /\ ListsStep
  BY <1>5, AppendDeclarationStep, AddDeclarationStep
<1>6. ASSUME NEW l \in Decls \cup {Null}, SetDeclList(s, l) \/ SetDeclarations(s, l)
      PROVE  IInv' /\ ListsStep
  BY <1>6, SetDeclListStep, SetDeclarationsStep
<1>7. ASSUME NEW some \in BOOLEAN, SetSelList(s, some) PROVE IInv' /\ ListsStep
  BY <1>7, SetSelListStep
<1>8. ASSUME NEW r \in Stmts,
             AppendToMedia(s, r) \/ AppendList(Stmts, s, r) \/ PrependNode(Stmts, s, r)
      PROVE  IInv' /\ ListsStep
  BY <1>8, AppendToMediaStep, AppendListStep, PrependNodeStep
<1>9. CASE Unlink(s)
  <2>1. s \in Nodes
    BY DEF Nodes
  <2> QED
    BY <1>9, <2>1, UnlinkStep
<1>10. CASE DestroyStatement(s)
  BY <1>10, DestroyStatementStep
<1> QED
  BY <1>1, <1>2, <1>3, <1>4, <1>5, <1>6, <1>7, <1>8, <1>9, <1>10

LEMMA SheetSteps ==
    ASSUME IInv, SheetStep
    PROVE  IInv' /\ ListsStep
<1>1. PICK t \in Sheets :
        \/ \E s \in Stmts \cup {Null} : NewSheet(t, s)
        \/ \E s \in Stmts : AppendToSheet(t, s)
        \/ RefSheet(t) \/ UnrefSheet(t) \/ DestroySheet(t)
        \/ \E o \in Origins : SetSheet(t, o)
  BY DEF SheetStep
<1> QED
  BY <1>1, NewSheetStep, AppendToSheetStep, RefSheetStep, UnrefSheetStep, DestroySheetStep, SetSheetStep

LEMMA StepConsistent == IInv /\ [Next]_vars => IInv' /\ ListsStep
<1> SUFFICES ASSUME IInv, [Next]_vars PROVE IInv' /\ ListsStep
  OBVIOUS
<1>1. CASE DeclStep
  BY <1>1, DeclarationSteps
<1>2. CASE StmtStep
  BY <1>2, StatementSteps
<1>3. CASE SheetStep
  BY <1>3, SheetSteps
<1>4. CASE DestroyCascade
  BY <1>4, DestroyCascadeStep
<1>5. CASE UNCHANGED vars
  <2>1. heap' = heap /\ held' = held /\ counted' = counted /\ slots' = slots
    BY <1>5 DEF vars
  <2>2. /\ Members(heap') = Members(heap)
        /\ Consistent(heap', held', counted', slots', ContentsIn(heap), LooseIn(heap, held))
    BY <2>1, Departed
  <2> QED
    BY <2>2, StutterStep
<1> QED
  BY <1>1, <1>2, <1>3, <1>4, <1>5 DEF Next

\* After every call the lists that the pointers make end and have no node in common, are
\* of one sort and hold what their owners may hold; the parent_statement or parent_sheet
\* of a node, if any, is allocated; a declaration that is not the first of a loose list is
\* counted once at most; and a sheet is counted as often as slots and application hold it.
THEOREM ListsAreApart == Spec => []IInv
<1>1. Init => IInv
  BY InitConsistent
<1>2. IInv /\ [Next]_vars => IInv'
  BY StepConsistent
<1> QED
  BY <1>1, <1>2, PTL DEF Spec

LEMMA LinksAgreeThen == IInv => LinksAgree
<1> SUFFICES ASSUME IInv PROVE LinksAgree
  OBVIOUS
<1> DEFINE ct == ContentsIn(heap)
           lo == LooseIn(heap, held)
           K  == Listed(ct, lo)
<1>1. /\ Represents(heap, held, ct, lo) /\ heap \in Heaps /\ held \subseteq heap.live /\ Named(heap)
      /\ counted \in [Sheets -> Nat] /\ slots \in [Origins -> Sheets \cup {Null}]
      /\ SheetCounts(heap, held, counted, slots)
  BY Departed
<1> HIDE DEF ct, lo
<1>2. /\ Chained(heap, K)
      /\ \A c \in K : c \in Seq(Nodes) /\ c[1] \in Members(heap)
      /\ \A o \in Owners : ct[o] # <<>> => ct[o] \in K
  BY <1>1, ListsApart
<1>3. ASSUME NEW x \in heap.live \cap Nodes
      PROVE  /\ heap.next[x] # Null => heap.next[x] \in heap.live /\ heap.prev[heap.next[x]] = x
             /\ heap.prev[x] # Null => heap.prev[x] \in heap.live /\ heap.next[heap.prev[x]] = x
             /\ heap.parent[x] \in heap.live \cup {Null}
  <2> HIDE DEF K
  <2>0. PICK c \in K : \E i \in 1..Len(c) : c[i] = x
    BY <1>2, <1>3 DEF Chained, Members
  <2>1. PICK i \in 1..Len(c) : c[i] = x
    BY <2>0
  <2>2. /\ Len(c) \in Nat
        /\ heap.next[x] = IF i = Len(c) THEN Null ELSE c[i + 1]
        /\ heap.prev[x] = IF i = 1 THEN Null ELSE c[i - 1]
    BY <1>2, <2>1 DEF Chained
  <2>3. ASSUME i # Len(c)
        PROVE  heap.next[x] \in heap.live /\ heap.prev[heap.next[x]] = x
    <3>1. i + 1 \in 1..Len(c) /\ i + 1 # 1 /\ (i + 1) - 1 = i
      BY <2>2, <2>3
    <3> QED
      BY <1>2, <2>1, <2>2, <2>3, <3>1 DEF Chained
  <2>4. ASSUME i # 1
        PROVE  heap.prev[x] \in heap.live /\ heap.next[heap.prev[x]] = x
    <3>1. i - 1 \in 1..Len(c) /\ i - 1 # Len(c) /\ (i - 1) + 1 = i
      BY <2>2, <2>4
    <3> QED
      BY <1>2, <2>1, <2>2, <2>4, <3>1 DEF Chained
  <2>5. heap.parent[x] \in heap.live \cup {Null}
    BY <1>1, <1>3 DEF Named, ParentsLive, Members
  <2> QED
    BY <2>2, <2>3, <2>4, <2>5
<1>4. \A o \in heap.live \cap Owners : heap.first[o] \in heap.live \cup {Null}
  <2> HIDE DEF K
  <2> QED
    BY <1>1, <1>2 DEF Represents, Members
<1>5. held \cup Range(slots) \subseteq heap.live \cup {Null}
  <2>1. ASSUME NEW o \in Origins PROVE slots[o] \in heap.live \cup {Null}
    <3>1. CASE slots[o] = Null
      BY <3>1
    <3>2. CASE slots[o] # Null
      <4> DEFINE t == slots[o]
      <4>1. t \in Sheets
        BY <1>1, <3>2
      <4>2. slots[o] = t /\ OtherSlots(slots, slots, o)
        BY DEF OtherSlots
      <4> HIDE DEF t
      <4>3. /\ heap.refs[t] = counted[t] + Cardinality(SlotsOf(slots, t))
            /\ Cardinality(SlotsOf(slots, t)) \in Nat /\ counted[t] \in Nat
            /\ t \in heap.live <=> t \in held \/ heap.refs[t] > 0
        BY <1>1, <4>1, SheetIs
      <4>4. Cardinality(SlotsOf(slots, t)) > 0
        BY <4>2, SlotCounts
      <4> QED
        BY <4>2, <4>3, <4>4
    <3> QED
      BY <3>1, <3>2
  <2>2. \A y \in Range(slots) : \E o \in Origins : y = slots[o]
    BY <1>1 DEF Range
  <2> QED
    BY <1>1, <2>1, <2>2
<1> QED
  BY <1>3, <1>4, <1>5 DEF LinksAgree

\* Whatever an application does with declarations, statements, sheets and a cascade, next
\* and prev agree in both directions, and they, the first nodes of owners and the parents
\* of nodes are never what was freed.  (parent_media_rule may be.)
THEOREM LinksAlwaysAgree == Spec => []LinksAgree
  BY ListsAreApart, LinksAgreeThen, PTL

LEMMA OwnedThen == IInv => OwnedExactlyOnce
<1> SUFFICES ASSUME IInv PROVE OwnedExactlyOnce
  OBVIOUS
<1> DEFINE ct == ContentsIn(heap)
           lo == LooseIn(heap, held)
<1>1. /\ Represents(heap, held, ct, lo) /\ heap \in Heaps
      /\ counted \in [Sheets -> Nat] /\ SheetCounts(heap, held, counted, slots)
  BY Departed
<1> HIDE DEF ct, lo
<1>2. /\ \A o \in Owners : ListOf(heap, o) = ct[o] /\ (o \notin heap.live => ct[o] = <<>>)
      /\ \A a \in held \cap Nodes : From(heap, a) \in lo /\ From(heap, a)[1] = a
      /\ \A b \in lo : b[1] \in held \cap Nodes /\ From(heap, b[1]) = b
  <2>1. /\ \A o \in Owners : ListOf(heap, o) = ct[o]
        /\ \A a \in held \cap Nodes : From(heap, a) \in lo /\ From(heap, a)[1] = a
        /\ \A b \in lo : b[1] \in held \cap Nodes /\ From(heap, b[1]) = b
    BY <1>1, Represented
  <2>2. \A o \in Owners : o \notin heap.live => ct[o] = <<>>
    BY <1>1 DEF Represents
  <2> QED
    BY <2>1, <2>2
<1>3. /\ \A b, c \in lo : Range(b) \cap Range(c) # {} => b = c
      /\ \A b \in lo : \A o \in Owners : Range(b) \cap Range(ct[o]) = {}
      /\ \A o, p \in Owners : Range(ct[o]) \cap Range(ct[p]) # {} => o = p
      /\ \A x \in Members(heap) : (\E b \in lo : x \in Range(b)) \/ (\E o \in Owners : x \in Range(ct[o]))
      /\ Range(<<>>) = {}
  <2>1. Range(<<>>) = {}
    BY DEF Range
  <2>2. Represents(heap, held, ct, lo)
    BY <1>1
  <2>3. /\ \A b, c \in lo : Range(b) \cap Range(c) # {} => b = c
        /\ \A b \in lo : \A o \in Owners : Range(b) \cap Range(ct[o]) = {}
    BY <2>2, ListsKnown
  <2>4. \A o, p \in Owners : Range(ct[o]) \cap Range(ct[p]) # {} => o = p
    BY <2>2, ListsKnown, Zenon
  <2>5. \A x \in Members(heap) : (\E b \in lo : x \in Range(b)) \/ (\E o \in Owners : x \in Range(ct[o]))
    BY <2>2, ListsKnown
  <2> QED
    BY <2>1, <2>3, <2>4, <2>5, Zenon
<1>4. ASSUME NEW x \in heap.live \cap Nodes
      PROVE  Cardinality(Holders(x)) + Cardinality(HeldLists(x)) = 1
  <2>1. \A o : o \in Holders(x) <=> o \in Owners /\ x \in Range(ct[o])
    BY <1>2, <1>3 DEF Holders
  <2>2. \A a : a \in HeldLists(x) <=> \E b \in lo : x \in Range(b) /\ a = b[1]
    BY <1>2 DEF HeldLists
  <2>3. CASE \E b \in lo : x \in Range(b)
    <3>1. PICK b \in lo : x \in Range(b)
      BY <2>3
    <3>2. Holders(x) = {}
      BY <1>3, <2>1, <3>1
    <3>3. HeldLists(x) = {b[1]}
      BY <1>3, <2>2, <3>1
    <3>4. Cardinality({}) = 0 /\ \A y : Cardinality({y}) = 1
      BY FS_EmptySet, FS_Singleton
    <3>5. Cardinality(Holders(x)) = 0 /\ Cardinality(HeldLists(x)) = 1
      BY <3>2, <3>3, <3>4
    <3> QED
      BY <3>5
  <2>4. CASE \E o \in Owners : x \in Range(ct[o])
    <3>1. PICK o \in Owners : x \in Range(ct[o])
      BY <2>4
    <3>2. HeldLists(x) = {}
      BY <1>3, <2>2, <3>1
    <3>3. Holders(x) = {o}
      BY <1>3, <2>1, <3>1
    <3>4. Cardinality({}) = 0 /\ \A y : Cardinality({y}) = 1
      BY FS_EmptySet, FS_Singleton
    <3>5. Cardinality(Holders(x)) = 1 /\ Cardinality(HeldLists(x)) = 0
      BY <3>2, <3>3, <3>4
    <3> QED
      BY <3>5
  <2> QED
    BY <1>3, <1>4, <2>3, <2>4 DEF Members
<1>5. \A t \in Sheets :
          /\ heap.refs[t] = counted[t] + Cardinality({o \in Origins : slots[o] = t})
          /\ t \in heap.live <=> t \in held \/ heap.refs[t] > 0
  BY <1>1 DEF SheetCounts
<1> QED
  BY <1>4, <1>5 DEF OwnedExactlyOnce

\* Every declaration and statement that is allocated is found in one list, once: of one
\* owner or in the hands of the application.  A sheet is allocated while it is owned or
\* counted, and its count is that of its holders.
THEOREM OwnedAlwaysOnce == Spec => []OwnedExactlyOnce
  BY ListsAreApart, OwnedThen, PTL

\* The calls on pointers implement the abstract lists: each does to the sequences what
\* OwnedLists says of it, or nothing.
THEOREM ListsAreImplemented == Spec => ImplementsOwnedLists
<1>1. Init => Lists!Init
  BY InitConsistent
<1>2. IInv /\ [Next]_vars => [Lists!Next]_(Lists!listVars)
  BY StepConsistent DEF ListsStep
<1> QED
  BY <1>1, <1>2, ListsAreApart, PTL DEF Spec, ImplementsOwnedLists, Lists!Spec

-----------------------------------------------------------------------------
(* The @media rules that rulesets name.                                      *)

\* A record with these fields at least.
Recorded(h) == {"live", "media"} \subseteq DOMAIN h /\ DOMAIN h.media = Stmts

\* Names are kept or lost, and those of what is freed are lost.
Forgets(h, h2) ==
    /\ Recorded(h2)
    /\ \A q \in Stmts : /\ h2.media[q] \in {h.media[q], Null}
                        /\ q \in h.live \ h2.live => h2.media[q] = Null

Keeps(h, h2) == Recorded(h2) /\ h2.media = h.media /\ h.live \subseteq h2.live

LEMMA ForgetsOn ==
    ASSUME NEW h, NEW h1, NEW h2, Forgets(h, h1), Forgets(h1, h2)
    PROVE  Forgets(h, h2)
BY DEF Forgets

LEMMA KeepsOn ==
    ASSUME NEW h, NEW h1, NEW h2, Keeps(h, h1), Keeps(h1, h2)
    PROVE  Keeps(h, h2)
BY DEF Keeps

LEMMA KeepsForgets ==
    ASSUME NEW h, NEW h2, Keeps(h, h2)
    PROVE  Forgets(h, h2)
BY DEF Keeps, Forgets

\* A change to other fields, or more that is live.
LEMMA FieldsSet ==
    ASSUME NEW h, Recorded(h), NEW x, NEW n, NEW v
    PROVE  /\ Keeps(h, h)
           /\ Keeps(h, [h EXCEPT !.live = @ \cup {x}])
           /\ Keeps(h, [h EXCEPT !.next[x] = v])
           /\ Keeps(h, [h EXCEPT !.prev[x] = v])
           /\ Keeps(h, [h EXCEPT !.parent[x] = v])
           /\ Keeps(h, [h EXCEPT !.first[x] = v])
           /\ Keeps(h, [h EXCEPT !.refs[x] = v])
           /\ Keeps(h, [h EXCEPT !.sel[x] = v])
           /\ Keeps(h, [h EXCEPT !.kind[x] = v])
BY DEF Recorded, Keeps

LEMMA ListsSet ==
    ASSUME NEW h, Recorded(h), NEW x, NEW n, NEW a, NEW o, NEW t, NEW k
    PROVE  /\ Keeps(h, Allocated(h, x))
           /\ Keeps(h, Appended(h, a, n))
           /\ Keeps(h, AppendedIn(h, o, n))
           /\ Keeps(h, Prepended(h, a, n))
           /\ Keeps(h, Unlinked(h, x))
<1>1. Keeps(h, Allocated(h, x))
  BY FieldsSet DEF Allocated
<1>2. ASSUME NEW b PROVE Keeps(h, Appended(h, b, n))
  <2> DEFINE tail == Last(From(h, b))
             h1   == [h EXCEPT !.next[tail] = n]
             h2   == [h1 EXCEPT !.prev[n] = tail]
  <2>1. [h EXCEPT !.next[tail] = n, !.prev[n] = tail] = h2
    OBVIOUS
  <2>2. Keeps(h, h1)
    BY FieldsSet
  <2>3. Recorded(h1)
    BY <2>2 DEF Keeps
  <2> HIDE DEF tail, h1
  <2>4. Keeps(h1, h2)
    BY <2>3, FieldsSet
  <2>5. Keeps(h, h2)
    BY <2>2, <2>4, KeepsOn
  <2> QED
    BY <2>1, <2>5, FieldsSet DEF Appended, tail
<1>3. Keeps(h, AppendedIn(h, o, n))
  <2> DEFINE g == Appended(h, h.first[o], n)
  <2>1. Keeps(h, g) /\ Recorded(g)
    BY <1>2 DEF Keeps
  <2> HIDE DEF g
  <2>2. Keeps(g, [g EXCEPT !.first[o] = FirstOf(@, n)])
    BY <2>1, FieldsSet
  <2> QED
    BY <2>1, <2>2, KeepsOn DEF AppendedIn, g
<1>4. Keeps(h, Prepended(h, a, n))
  <2> DEFINE g == [h EXCEPT !.next[n] = a]
  <2>1. Keeps(h, g)
    BY FieldsSet
  <2>2. Prepended(h, a, n) = [g EXCEPT !.prev[a] = n]
    BY DEF Prepended
  <2> HIDE DEF g
  <2>3. Keeps(g, [g EXCEPT !.prev[a] = n])
    <3>1. Recorded(g)
      BY <2>1 DEF Keeps
    <3> QED
      BY <3>1, FieldsSet
  <2> QED
    BY <2>1, <2>2, <2>3, KeepsOn
<1>5. Keeps(h, Unlinked(h, x))
  <2> DEFINE nx == h.next[x]
             pv == h.prev[x]
             ow == h.parent[x]
             h1 == IF pv = Null THEN h ELSE [h EXCEPT !.next[pv] = nx]
             h2 == IF nx = Null THEN h1 ELSE [h1 EXCEPT !.prev[nx] = pv]
             h3 == IF ow # Null /\ h.first[ow] = x THEN [h2 EXCEPT !.first[ow] = nx] ELSE h2
             h4 == [h3 EXCEPT !.next[x] = Null]
             h5 == [h4 EXCEPT !.prev[x] = Null]
             h6 == [h5 EXCEPT !.parent[x] = Null]
  <2>1. Unlinked(h, x) = h6
    BY DEF Unlinked
  <2> HIDE DEF nx, pv, ow
  <2>2. Keeps(h, h1)
    BY FieldsSet
  <2>3. Recorded(h1)
    BY <2>2 DEF Keeps
  <2> HIDE DEF h1
  <2>4. Keeps(h1, h2)
    BY <2>3, FieldsSet
  <2>5. Recorded(h2)
    BY <2>4 DEF Keeps
  <2> HIDE DEF h2
  <2>6. Keeps(h2, h3)
    BY <2>5, FieldsSet
  <2>7. Recorded(h3)
    BY <2>6 DEF Keeps
  <2> HIDE DEF h3
  <2>8. Keeps(h3, h4)
    BY <2>7, FieldsSet
  <2>9. Recorded(h4)
    BY <2>8 DEF Keeps
  <2> HIDE DEF h4
  <2>10. Keeps(h4, h5)
    BY <2>9, FieldsSet
  <2>11. Recorded(h5)
    BY <2>10 DEF Keeps
  <2> HIDE DEF h5
  <2>12. Keeps(h5, h6)
    BY <2>11, FieldsSet
  <2> HIDE DEF h6
  <2> QED
    BY <2>1, <2>2, <2>4, <2>6, <2>8, <2>10, <2>12 DEF Keeps
<1> QED
  BY <1>1, <1>2, <1>3, <1>4, <1>5

LEMMA StatementKeeps ==
    ASSUME NEW h, Recorded(h), NEW s, NEW k, NEW t, NEW l,
           NEW g, g = [[[[h EXCEPT !.live = @ \cup {s}] EXCEPT !.kind[s] = k]
                          EXCEPT !.parent[s] = t] EXCEPT !.first[s] = l]
    PROVE  Keeps(h, g)
<1> DEFINE h1 == [h EXCEPT !.live = @ \cup {s}]
           h2 == [h1 EXCEPT !.kind[s] = k]
           h3 == [h2 EXCEPT !.parent[s] = t]
<1>1. Keeps(h, h1)
  BY FieldsSet
<1>2. g = [h3 EXCEPT !.first[s] = l] /\ Recorded(h1)
  BY <1>1 DEF Keeps
<1> HIDE DEF h1
<1>3. Keeps(h1, h2)
  BY <1>2, FieldsSet
<1>4. Recorded(h2)
  BY <1>3 DEF Keeps
<1> HIDE DEF h2
<1>5. Keeps(h2, h3)
  BY <1>4, FieldsSet
<1>6. Recorded(h3)
  BY <1>5 DEF Keeps
<1> HIDE DEF h3
<1>7. Keeps(h3, [h3 EXCEPT !.first[s] = l])
  BY <1>6, FieldsSet
<1>8. Keeps(h3, g)
  BY <1>2, <1>7
<1> QED
  BY <1>1, <1>3, <1>5, <1>8 DEF Keeps

LEMMA NewStatementKeeps ==
    ASSUME Recorded(heap), NEW s, NEW k, NEW t, NEW l
    PROVE  Keeps(heap, Statement(s, k, t, l))
BY StatementKeeps DEF Statement, Allocated

LEMMA FreedForgets ==
    ASSUME NEW h, Recorded(h), NEW S
    PROVE  Forgets(h, Freed(h, S))
BY DEF Freed, Forgets, Recorded

LEMMA DestroyedForgets ==
    ASSUME NEW h, Recorded(h), NEW x
    PROVE  /\ Forgets(h, DeclsDestroyed(h, x)) /\ Forgets(h, DeclsUnrefed(h, x))
           /\ Forgets(h, StmtsDestroyed(h, x)) /\ Forgets(h, SheetDestroyed(h, x))
           /\ Forgets(h, SheetUnrefed(h, x))
<1>1. \A v : Forgets(h, [h EXCEPT !.refs[x] = v])
  BY FieldsSet, KeepsForgets
<1>2. ASSUME NEW y PROVE Forgets(h, DeclsDestroyed(h, y)) /\ Forgets(h, StmtsDestroyed(h, y))
  BY FreedForgets DEF DeclsDestroyed, StmtsDestroyed
<1>3. Forgets(h, SheetDestroyed(h, x))
  <2> DEFINE h1 == IF h.first[x] = Null THEN h ELSE StmtsDestroyed(h, h.first[x])
  <2>1. Forgets(h, h)
    BY FieldsSet, KeepsForgets
  <2>2. Forgets(h, h1) /\ Recorded(h1)
    BY <1>2, <2>1 DEF Forgets
  <2> HIDE DEF h1
  <2>3. Forgets(h1, Freed(h1, {x}))
    BY <2>2, FreedForgets
  <2>4. Forgets(h, Freed(h1, {x}))
    BY <2>2, <2>3, ForgetsOn
  <2> QED
    BY <2>4 DEF SheetDestroyed, h1
<1>4. Forgets(h, DeclsUnrefed(h, x)) /\ Forgets(h, SheetUnrefed(h, x))
  BY <1>1, <1>2, <1>3 DEF DeclsUnrefed, SheetUnrefed
<1> QED
  BY <1>2, <1>3, <1>4
LEMMA SlotsForget ==
    ASSUME NEW after, heap \in Heaps, slots \in [Origins -> Sheets \cup {Null}],
           Unrefed(heap, slots, after)
    PROVE  Forgets(heap, after[NB_ORIGINS])
<1> DEFINE n == NB_ORIGINS
           G == {i \in 0..n : Forgets(heap, after[i])}
<1>1. n \in Nat /\ Recorded(heap)
  BY StatementAssumption DEF Recorded, Heaps
<1>2. \A i \in 0..n : after[i] = IF i = 0 THEN heap
                                ELSE IF slots[i - 1] = Null THEN after[i - 1]
                                ELSE SheetUnrefed(after[i - 1], slots[i - 1])
  BY Zenon DEF Unrefed
<1>3. 0 \in G
  <2>1. Forgets(heap, heap)
    BY <1>1, FieldsSet, KeepsForgets
  <2>2. 0 \in 0..n /\ after[0] = heap
    BY <1>1, <1>2
  <2> QED
    BY <2>1, <2>2
<1>4. ASSUME NEW i \in 0..n-1, i \in G PROVE i + 1 \in G
  <2>1. i + 1 \in 0..n /\ i + 1 # 0 /\ (i + 1) - 1 = i
    BY <1>1
  <2>2. after[i + 1] = IF slots[i] = Null THEN after[i] ELSE SheetUnrefed(after[i], slots[i])
    BY <1>2, <2>1
  <2>3. Forgets(heap, after[i]) /\ Recorded(after[i])
    BY <1>4 DEF Forgets
  <2>4. Forgets(after[i], SheetUnrefed(after[i], slots[i]))
    BY <2>3, DestroyedForgets
  <2>5. Forgets(heap, SheetUnrefed(after[i], slots[i]))
    BY <2>3, <2>4, ForgetsOn
  <2> QED
    BY <2>1, <2>2, <2>3, <2>5
<1>5. 0..n \subseteq G
  <2> HIDE DEF G
  <2> QED
    BY <1>1, <1>3, <1>4, InductionUpTo
<1> QED
  BY <1>1, <1>5

\* A call that makes no ruleset of an @media rule.
LEMMA DeclStepForgets ==
    ASSUME IInv, DeclStep
    PROVE  Forgets(heap, heap')
<1>1. heap \in Heaps /\ Recorded(heap)
  BY Departed DEF Recorded, Heaps
<1>2. PICK d \in Decls :
        \/ \E s \in Stmts \cup {Null} : NewDeclaration(d, s)
        \/ \E a \in Decls : AppendList(Decls, a, d) \/ AppendNewDeclaration(a, d)
                              \/ PrependNode(Decls, a, d)
        \/ Unlink(d) \/ RefDeclaration(d) \/ UnrefDeclaration(d) \/ DestroyDeclaration(d)
  BY DEF DeclStep
<1>3. ASSUME NEW v PROVE /\ Keeps(heap, [Allocated(heap, d) EXCEPT !.parent[d] = v])
                         /\ Recorded([Allocated(heap, d) EXCEPT !.parent[d] = v])
  <2> DEFINE g == Allocated(heap, d)
  <2>1. Keeps(heap, g) /\ Recorded(g)
    BY <1>1, ListsSet DEF Keeps
  <2> HIDE DEF g
  <2>2. Keeps(g, [g EXCEPT !.parent[d] = v])
    BY <2>1, FieldsSet
  <2> QED
    BY <2>1, <2>2, KeepsOn DEF g, Keeps
<1>4. ASSUME NEW s, NewDeclaration(d, s) PROVE Forgets(heap, heap')
  BY <1>3, <1>4, KeepsForgets DEF NewDeclaration
<1>5. ASSUME NEW a, AppendList(Decls, a, d) \/ PrependNode(Decls, a, d) PROVE Forgets(heap, heap')
  BY <1>1, <1>5, ListsSet, KeepsForgets DEF AppendList, PrependNode
<1>6. ASSUME NEW a, AppendNewDeclaration(a, d) PROVE Forgets(heap, heap')
  <2> DEFINE g == [Allocated(heap, d) EXCEPT !.parent[d] = heap.parent[a]]
  <2>1. heap' = Appended(g, a, d)
    BY <1>6 DEF AppendNewDeclaration
  <2>2. Keeps(heap, g) /\ Recorded(g)
    BY <1>3
  <2> HIDE DEF g
  <2>3. Keeps(g, Appended(g, a, d))
    BY <2>2, ListsSet
  <2> QED
    BY <2>1, <2>2, <2>3, KeepsOn, KeepsForgets
<1>7. CASE Unlink(d)
  BY <1>1, <1>7, ListsSet, KeepsForgets DEF Unlink
<1>8. CASE RefDeclaration(d)
  BY <1>1, <1>8, FieldsSet, KeepsForgets DEF RefDeclaration
<1>9. CASE UnrefDeclaration(d) \/ DestroyDeclaration(d)
  BY <1>1, <1>9, DestroyedForgets DEF UnrefDeclaration, DestroyDeclaration
<1> QED
  BY <1>2, <1>4, <1>5, <1>6, <1>7, <1>8, <1>9

LEMMA SheetStepForgets ==
    ASSUME IInv, SheetStep \/ DestroyCascade
    PROVE  Forgets(heap, heap')
<1>1. heap \in Heaps /\ Recorded(heap) /\ slots \in [Origins -> Sheets \cup {Null}]
  BY Departed DEF Recorded, Heaps
<1>2. ASSUME NEW t, NEW s, NewSheet(t, s) PROVE Forgets(heap, heap')
  <2> DEFINE g == Allocated(heap, t)
  <2>1. Keeps(heap, g) /\ Recorded(g)
    BY <1>1, ListsSet DEF Keeps
  <2>2. heap' = [g EXCEPT !.first[t] = s]
    BY <1>2 DEF NewSheet
  <2> HIDE DEF g
  <2>3. Keeps(g, [g EXCEPT !.first[t] = s])
    BY <2>1, FieldsSet
  <2> QED
    BY <2>1, <2>2, <2>3, KeepsOn, KeepsForgets
<1>3. ASSUME NEW t, NEW s, AppendToSheet(t, s) PROVE Forgets(heap, heap')
  BY <1>1, <1>3, ListsSet, KeepsForgets DEF AppendToSheet
<1>4. ASSUME NEW t, RefSheet(t) PROVE Forgets(heap, heap')
  BY <1>1, <1>4, FieldsSet, KeepsForgets DEF RefSheet
<1>5. ASSUME NEW t, UnrefSheet(t) \/ DestroySheet(t) PROVE Forgets(heap, heap')
  BY <1>1, <1>5, DestroyedForgets DEF UnrefSheet, DestroySheet
<1>6. ASSUME NEW t, NEW o, SetSheet(t, o) PROVE Forgets(heap, heap')
  <2> DEFINE g == IF slots[o] = Null THEN heap ELSE SheetUnrefed(heap, slots[o])
  <2>1. heap' = [g EXCEPT !.refs[t] = @ + 1]
    BY <1>6 DEF SetSheet
  <2>2. Forgets(heap, heap)
    BY <1>1, FieldsSet, KeepsForgets
  <2>3. Forgets(heap, g) /\ Recorded(g)
    BY <1>1, <2>2, DestroyedForgets DEF Forgets
  <2> HIDE DEF g
  <2>4. Forgets(g, [g EXCEPT !.refs[t] = @ + 1])
    BY <2>3, FieldsSet, KeepsForgets
  <2> QED
    BY <2>1, <2>3, <2>4, ForgetsOn
<1>7. CASE DestroyCascade
  <2> DEFINE after == CHOOSE f : Unrefed(heap, slots, f)
  <2>1. heap' = after[NB_ORIGINS]
    BY <1>7 DEF DestroyCascade, SlotsUnrefed, Unrefed
  <2>2. Unrefed(heap, slots, after)
    BY <1>1, UnrefedExists
  <2> HIDE DEF after
  <2> QED
    BY <1>1, <2>1, <2>2, SlotsForget
<1> QED
  BY <1>2, <1>3, <1>4, <1>5, <1>6, <1>7 DEF SheetStep
MakesRulesetOfMedia ==
    \E s \in Stmts, t \in Sheets \cup {Null}, l \in Decls \cup {Null}, m \in Stmts :
        NewRulesetInMedia(s, t, l, m)

MakesMedia == \E s \in Stmts, t \in Sheets \cup {Null}, r \in Stmts \cup {Null} : NewMedia(s, t, r)

LEMMA StmtStepForgets ==
    ASSUME IInv, StmtStep, ~MakesRulesetOfMedia, ~MakesMedia
    PROVE  Forgets(heap, heap')
<1>1. heap \in Heaps /\ Recorded(heap)
  BY Departed DEF Recorded, Heaps
<1>2. PICK s \in Stmts :
        \/ \E t \in Sheets \cup {Null} :
              \/ \E l \in Decls \cup {Null} : NewRuleset(s, t, l) \/ NewPage(s, t, l) \/ NewFontFace(s, t, l)
              \/ NewImport(s, t) \/ SetParentSheet(s, t)
        \/ \E d \in Decls : AppendDeclaration(s, d) \/ AddDeclaration(s, d)
        \/ \E l \in Decls \cup {Null} : SetDeclList(s, l) \/ SetDeclarations(s, l)
        \/ \E some \in BOOLEAN : SetSelList(s, some)
        \/ \E r \in Stmts : AppendToMedia(s, r) \/ AppendList(Stmts, s, r) \/ PrependNode(Stmts, s, r)
        \/ Unlink(s) \/ DestroyStatement(s)
  BY DEF StmtStep, MakesRulesetOfMedia, MakesMedia
<1>3. ASSUME NEW t, NEW l, NewRuleset(s, t, l) \/ NewPage(s, t, l) \/ NewFontFace(s, t, l)
      PROVE  Forgets(heap, heap')
  <2>1. PICK kind : \/ heap' = [Statement(s, kind, t, l) EXCEPT !.sel[s] = TRUE]
                    \/ heap' = [Statement(s, kind, t, l) EXCEPT !.refs[l] = @ + 1]
                    \/ heap' = Statement(s, kind, t, l)
    BY <1>3 DEF NewRuleset, NewPage, NewFontFace
  <2> DEFINE g == Statement(s, kind, t, l)
  <2>2. Keeps(heap, g) /\ Recorded(g)
    BY <1>1, NewStatementKeeps DEF Keeps
  <2> HIDE DEF g
  <2>3. /\ Keeps(g, g) /\ Keeps(g, [g EXCEPT !.sel[s] = TRUE])
        /\ Keeps(g, [g EXCEPT !.refs[l] = @ + 1])
    BY <2>2, FieldsSet
  <2>4. Keeps(g, heap')
    BY <2>1, <2>3 DEF g
  <2> QED
    BY <2>2, <2>4, KeepsOn, KeepsForgets
<1>4. ASSUME NEW t, NewImport(s, t) PROVE Forgets(heap, heap')
  BY <1>1, <1>4, NewStatementKeeps, KeepsForgets DEF NewImport
<1>5. ASSUME NEW t, SetParentSheet(s, t) PROVE Forgets(heap, heap')
  BY <1>1, <1>5, FieldsSet, KeepsForgets DEF SetParentSheet
<1>6. ASSUME NEW d, AppendDeclaration(s, d) PROVE Forgets(heap, heap')
  BY <1>1, <1>6, ListsSet, KeepsForgets DEF AppendDeclaration
<1>7. ASSUME NEW d, AddDeclaration(s, d) PROVE Forgets(heap, heap')
  <2> DEFINE a  == heap.first[s]
             h0 == Allocated(heap, d)
             h1 == [h0 EXCEPT !.parent[d] = IF a = Null THEN Null ELSE heap.parent[a]]
             h2 == AppendedIn(h1, s, d)
             h3 == [h2 EXCEPT !.refs[d] = @ + 1]
  <2>1. heap' = h3 \/ heap' = h2
    BY <1>7 DEF AddDeclaration
  <2>2. Keeps(heap, h0) /\ Recorded(h0)
    BY <1>1, ListsSet DEF Keeps
  <2> HIDE DEF h0, a
  <2>3. Keeps(h0, h1)
    BY <2>2, FieldsSet
  <2>4. Recorded(h1)
    BY <2>3 DEF Keeps
  <2> HIDE DEF h1
  <2>5. Keeps(h1, h2)
    BY <2>4, ListsSet
  <2>6. Recorded(h2)
    BY <2>5 DEF Keeps
  <2> HIDE DEF h2
  <2>7. Keeps(h2, h3) /\ Keeps(h2, h2)
    BY <2>6, FieldsSet
  <2> HIDE DEF h3
  <2>8. Keeps(h2, heap')
    BY <2>1, <2>7
  <2>9. Keeps(heap, heap')
    BY <2>2, <2>3, <2>5, <2>8 DEF Keeps
  <2> QED
    BY <2>9, KeepsForgets
<1>8. ASSUME NEW l, SetDeclList(s, l) PROVE Forgets(heap, heap')
  <2> DEFINE h == IF heap.sel[s] /\ heap.first[s] # Null
                  THEN DeclsDestroyed(heap, heap.first[s]) ELSE heap
  <2>1. heap' = heap \/ heap' = [h EXCEPT !.sel[s] = FALSE]
    BY <1>8 DEF SetDeclList
  <2>2. Forgets(heap, heap)
    BY <1>1, FieldsSet, KeepsForgets
  <2>3. Forgets(heap, h) /\ Recorded(h)
    BY <1>1, <2>2, DestroyedForgets DEF Forgets
  <2> HIDE DEF h
  <2> DEFINE g == [h EXCEPT !.sel[s] = FALSE]
  <2>4. Forgets(h, g)
    BY <2>3, FieldsSet, KeepsForgets
  <2> HIDE DEF g
  <2>5. Forgets(heap, g)
    BY <2>3, <2>4, ForgetsOn
  <2> QED
    BY <2>1, <2>2, <2>5 DEF g
<1>9. ASSUME NEW l, SetDeclarations(s, l) PROVE Forgets(heap, heap')
  <2> DEFINE h1 == IF heap.first[s] = Null THEN heap ELSE DeclsUnrefed(heap, heap.first[s])
             h2 == [h1 EXCEPT !.first[s] = l]
             h3 == [h2 EXCEPT !.refs[l] = @ + 1]
  <2>1. heap' = h2 \/ heap' = h3
    BY <1>9 DEF SetDeclarations
  <2>2. Forgets(heap, heap)
    BY <1>1, FieldsSet, KeepsForgets
  <2>3. Forgets(heap, h1) /\ Recorded(h1)
    BY <1>1, <2>2, DestroyedForgets DEF Forgets
  <2> HIDE DEF h1
  <2>4. Keeps(h1, h2)
    BY <2>3, FieldsSet
  <2>5. Recorded(h2)
    BY <2>4 DEF Keeps
  <2> HIDE DEF h2
  <2>6. Keeps(h2, h3)
    BY <2>5, FieldsSet
  <2> HIDE DEF h3
  <2>7. Forgets(h1, heap')
    BY <2>1, <2>4, <2>6, KeepsOn, KeepsForgets
  <2> QED
    BY <2>3, <2>7, ForgetsOn
<1>10. ASSUME NEW some, SetSelList(s, some) PROVE Forgets(heap, heap')
  BY <1>1, <1>10, FieldsSet, KeepsForgets DEF SetSelList
<1>11. ASSUME NEW r, AppendToMedia(s, r) \/ AppendList(Stmts, s, r) \/ PrependNode(Stmts, s, r)
       PROVE  Forgets(heap, heap')
  BY <1>1, <1>11, ListsSet, KeepsForgets DEF AppendToMedia, AppendList, PrependNode
<1>12. CASE Unlink(s)
  BY <1>1, <1>12, ListsSet, KeepsForgets DEF Unlink
<1>13. CASE DestroyStatement(s)
  BY <1>1, <1>13, DestroyedForgets DEF DestroyStatement
<1> QED
  BY <1>2, <1>3, <1>4, <1>5, <1>6, <1>7, <1>8, <1>9, <1>10, <1>11, <1>12, <1>13

LEMMA FromNext ==
    ASSUME NEW h, NEW h2, NEW x, h2.next = h.next
    PROVE  From(h2, x) = From(h, x)
BY DEF From

\* A ruleset that gets a name gets that of the list it is in.
Naming == \A q \in Stmts :
    \/ /\ heap'.media[q] \in {heap.media[q], Null}
       /\ q \in heap.live \ heap'.live => heap'.media[q] = Null
    \/ q \in heap'.live /\ q \in Range(ListOf(heap', heap'.media[q]))

LEMMA NewMediaNames ==
    ASSUME IInv, NEW s \in Stmts, NEW t \in Sheets \cup {Null}, NEW r \in Stmts \cup {Null},
           NewMedia(s, t, r)
    PROVE  Naming
<1> DEFINE h  == Statement(s, "media", t, r)
           in == Range(From(heap, r))
<1>1. /\ r # Null => \A q \in in : q \in heap.live
      /\ heap' = [h EXCEPT !.media = [q \in Stmts |-> IF q \in in THEN s ELSE @[q]]]
  BY DEF NewMedia, Is
<1>2. heap \in Heaps /\ Recorded(heap) /\ "media" \in Kinds /\ r \in Nodes \cup {Null} /\ s \in Owners
  BY Departed DEF Recorded, Heaps, Kinds, Nodes, Owners
<1>3. \A q \in in : q \in heap.live
  <2>1. From(heap, Null) = <<>>
    BY Departed, FromIs DEF Represents
  <2>2. r = Null => in = {}
    BY <2>1, EmptySeq, RangeIs
  <2> QED
    BY <1>1, <2>2
<1>4. /\ h \in Heaps /\ h.live = heap.live \cup {s} /\ h.next = heap.next
      /\ h.first[s] = r /\ h.media = heap.media
  BY <1>2, StatementIs, NewStatementKeeps DEF Keeps
<1> HIDE DEF h, in
<1>5. /\ heap'.live = h.live /\ heap'.next = h.next /\ heap'.first = h.first
      /\ \A q \in Stmts : heap'.media[q] = IF q \in in THEN s ELSE heap.media[q]
  BY <1>1, <1>4 DEF Heaps
<1>6. ListOf(heap', s) = From(heap, r)
  <2>1. From(heap', r) = From(heap, r)
    BY <1>4, <1>5, FromNext
  <2> QED
    BY <1>4, <1>5, <2>1 DEF ListOf
<1> QED
  BY <1>3, <1>4, <1>5, <1>6 DEF Naming, in

LEMMA NewRulesetNames ==
    ASSUME IInv, NEW s \in Stmts, NEW t \in Sheets \cup {Null}, NEW l \in Decls \cup {Null},
           NEW m \in Stmts, NewRulesetInMedia(s, t, l, m), s \in Range(ListOf(heap', m))
    PROVE  Naming
<1> DEFINE h  == Statement(s, "ruleset", t, l)
           h1 == [h EXCEPT !.sel[s] = TRUE]
           g  == [h1 EXCEPT !.media[s] = m]
<1>1. heap' = AppendedIn(g, m, s)
  BY DEF NewRulesetInMedia
<1>2. heap \in Heaps /\ Recorded(heap) /\ "ruleset" \in Kinds /\ l \in Nodes \cup {Null}
  BY Departed DEF Recorded, Heaps, Kinds, Nodes
<1>3. h.live = heap.live \cup {s} /\ h.media = heap.media /\ Recorded(h)
  BY <1>2, StatementIs, NewStatementKeeps DEF Keeps
<1> HIDE DEF h
<1>4. h1.media = heap.media /\ h.live \subseteq h1.live /\ Recorded(h1)
  <2>1. Keeps(h, h1)
    BY <1>3, FieldsSet
  <2> HIDE DEF h1
  <2> QED
    BY <1>3, <2>1 DEF Keeps
<1> HIDE DEF h1
<1>5. /\ g.live = h1.live /\ Recorded(g)
      /\ \A q \in Stmts : g.media[q] = IF q = s THEN m ELSE heap.media[q]
  BY <1>2, <1>4 DEF Recorded
<1> HIDE DEF g
<1>6. heap'.media = g.media /\ g.live \subseteq heap'.live
  BY <1>1, <1>5, ListsSet DEF Keeps
<1> QED
  BY <1>3, <1>4, <1>5, <1>6 DEF Naming

LEMMA StepNames == IInv /\ [Next]_vars => Naming
<1> SUFFICES ASSUME IInv, [Next]_vars PROVE Naming
  OBVIOUS
<1>1. CASE Forgets(heap, heap')
  BY <1>1 DEF Forgets, Naming
<1>2. CASE MakesMedia
  BY <1>2, NewMediaNames DEF MakesMedia
<1>3. CASE MakesRulesetOfMedia
  <2>1. PICK s \in Stmts, t \in Sheets \cup {Null}, l \in Decls \cup {Null}, m \in Stmts :
           NewRulesetInMedia(s, t, l, m)
    BY <1>3 DEF MakesRulesetOfMedia
  <2>2. s \in Range(ListOf(heap', m))
    BY <2>1, NewRulesetInMediaStep
  <2> QED
    BY <2>1, <2>2, NewRulesetNames
<1>4. CASE UNCHANGED vars
  BY <1>4 DEF vars, Naming
<1> QED
  BY <1>1, <1>2, <1>3, <1>4, DeclStepForgets, StmtStepForgets, SheetStepForgets DEF Next

\* Only cr_statement_unlink gives a statement that is there to the application.
LEMMA HeldIs ==
    ASSUME IInv, Next, NEW s \in Stmts, s \in heap.live, s \notin held, s \in held'
    PROVE  \E x \in Nodes : Unlink(x) /\ (x = s \/ (x \in held /\ heap.next[x] = s))
<1>1. s \in Nodes /\ s \notin Decls /\ s \notin Sheets /\ Null \notin Stmts
  BY Disjoint DEF Nodes
<1>2. ASSUME NEW x \in Nodes, Unlink(x) PROVE x = s \/ (x \in held /\ heap.next[x] = s)
  BY <1>2 DEF Unlink
<1>3. CASE DeclStep
  <2>1. PICK d \in Decls :
          \/ \E p \in Stmts \cup {Null} : NewDeclaration(d, p)
          \/ \E a \in Decls : AppendList(Decls, a, d) \/ AppendNewDeclaration(a, d)
                                \/ PrependNode(Decls, a, d)
          \/ Unlink(d) \/ RefDeclaration(d) \/ UnrefDeclaration(d) \/ DestroyDeclaration(d)
    BY <1>3 DEF DeclStep
  <2>2. d \in Nodes /\ d # s
    BY <1>1 DEF Nodes
  <2>3. Unlink(d)
    BY <2>1, <2>2 DEF NewDeclaration, AppendList, AppendNewDeclaration, PrependNode, RefDeclaration,
                      UnrefDeclaration, DestroyDeclaration
  <2> QED
    BY <1>2, <2>2, <2>3
<1>4. CASE StmtStep
  <2>1. PICK q \in Stmts :
        \/ \E t \in Sheets \cup {Null} :
              \/ \E l \in Decls \cup {Null} :
                    \/ NewRuleset(q, t, l) \/ NewPage(q, t, l) \/ NewFontFace(q, t, l)
                    \/ \E m \in Stmts : NewRulesetInMedia(q, t, l, m)
              \/ \E r \in Stmts \cup {Null} : NewMedia(q, t, r)
              \/ NewImport(q, t) \/ SetParentSheet(q, t)
        \/ \E d \in Decls : AppendDeclaration(q, d) \/ AddDeclaration(q, d)
        \/ \E l \in Decls \cup {Null} : SetDeclList(q, l) \/ SetDeclarations(q, l)
        \/ \E some \in BOOLEAN : SetSelList(q, some)
        \/ \E r \in Stmts : AppendToMedia(q, r) \/ AppendList(Stmts, q, r) \/ PrependNode(Stmts, q, r)
        \/ Unlink(q) \/ DestroyStatement(q)
    BY <1>4 DEF StmtStep
  <2>2. q \in Nodes
    BY DEF Nodes
  <2>3. ASSUME NEW t, NEW l, \/ NewRuleset(q, t, l) \/ NewPage(q, t, l) \/ NewFontFace(q, t, l)
                             \/ (\E m \in Stmts : NewRulesetInMedia(q, t, l, m))
                             \/ NewMedia(q, t, l) \/ NewImport(q, t) \/ SetParentSheet(q, t)
        PROVE  FALSE
    BY <2>3 DEF NewRuleset, NewPage, NewFontFace, NewRulesetInMedia, NewMedia, NewImport,
                SetParentSheet, Fresh
  <2>4. ASSUME NEW d, \/ AppendDeclaration(q, d) \/ AddDeclaration(q, d) \/ SetDeclList(q, d)
                      \/ SetDeclarations(q, d) \/ SetSelList(q, d) \/ AppendToMedia(q, d)
                      \/ AppendList(Stmts, q, d) \/ PrependNode(Stmts, q, d) \/ DestroyStatement(q)
        PROVE  FALSE
    BY <2>4 DEF AppendDeclaration, AddDeclaration, SetDeclList, SetDeclarations, SetSelList,
                AppendToMedia, AppendList, PrependNode, DestroyStatement
  <2>5. Unlink(q)
    BY <2>1, <2>3, <2>4
  <2> QED
    BY <1>2, <2>2, <2>5
<1>5. ASSUME SheetStep PROVE FALSE
  BY <1>1, <1>5 DEF SheetStep, NewSheet, AppendToSheet, RefSheet, UnrefSheet, DestroySheet, SetSheet
<1>6. ASSUME DestroyCascade PROVE FALSE
  BY <1>6 DEF DestroyCascade
<1> QED
  BY <1>3, <1>4, <1>5, <1>6 DEF Next

\* What is in a list of an owner is not held.
LEMMA NotLoose ==
    ASSUME NEW h, NEW hl, NEW ct, NEW lo, Represents(h, hl, ct, lo),
           NEW o \in Owners, NEW x \in Range(ct[o])
    PROVE  /\ x \in Members(h) /\ x \notin hl
           /\ \A y \in hl \cap Nodes : h.next[y] # x
<1>1. x \in Members(h) /\ \A b \in lo : x \notin Range(b)
  BY ListsKnown
<1>2. \A b \in lo : b[1] \in Range(b)
  BY ListsKnown
<1>3. \A y \in hl \cap Nodes : \E b \in lo : y = b[1]
  BY DEF Represents
<1>4. ASSUME NEW y \in hl \cap Nodes, h.next[y] = x PROVE FALSE
  <2>1. PICK b \in lo : y = b[1]
    BY <1>3
  <2>2. b \in Seq(Nodes) /\ Len(b) \in Nat \ {0} /\ Chained(h, Listed(ct, lo)) /\ b \in Listed(ct, lo)
    BY ListsApart
  <2>3. h.next[b[1]] = IF 1 = Len(b) THEN Null ELSE b[2]
    <3>1. 1 \in 1..Len(b) /\ 1 + 1 = 2
      BY <2>2
    <3>2. \A i \in 1..Len(b) : h.next[b[i]] = IF i = Len(b) THEN Null ELSE b[i + 1]
      BY <2>2 DEF Chained
    <3> QED
      BY <3>1, <3>2
  <2>4. x # Null
    BY <1>1, Disjoint DEF Members, Nodes
  <2>5. 2 \in 1..Len(b) /\ x = b[2]
    <3>1. Len(b) # 1 /\ x = b[2]
      BY <1>4, <2>1, <2>3, <2>4
    <3>2. Len(b) \in Nat \ {0}
      BY <2>2
    <3>3. \A k \in Nat \ {0} : k # 1 => 2 \in 1..k
      OBVIOUS
    <3> QED
      BY <3>1, <3>2, <3>3
  <2>6. x \in Range(b)
    BY <2>2, <2>5, RangeIs
  <2> QED
    BY <1>1, <2>6
<1> QED
  BY <1>1, <1>2, <1>3, <1>4 DEF Members

LEMMA WithoutKeeps ==
    ASSUME NEW h, NEW K, Chained(h, K), NEW c \in K, NEW x, NEW y \in Range(c), y # x
    PROVE  y \in Range(Lists!Without(c, x))
<1>1. CASE x \notin Range(c)
  BY <1>1, WithoutOther
<1>2. CASE x \in Range(c)
  <2>1. c \in Seq(Nodes)
    BY DEF Chained
  <2>2. PICK i \in 1..Len(c) : c[i] = x
    BY <1>2, <2>1, RangeIs
  <2>3. \A j \in 1..Len(c) : c[j] = c[i] => j = i
    BY DEF Chained
  <2> DEFINE w == Lists!Without(c, x)
  <2>4. /\ w \in Seq(Nodes) /\ Len(w) = Len(c) - 1
        /\ \A j \in 1..Len(c) - 1 : w[j] = IF j < i THEN c[j] ELSE c[j + 1]
    BY <2>1, <2>2, <2>3, WithoutIs
  <2> HIDE DEF w
  <2>5. PICK k \in 1..Len(c) : c[k] = y
    BY <2>1, RangeIs
  <2>6. k # i /\ Len(c) \in Nat
    BY <2>1, <2>2, <2>5
  <2>7. \E j \in 1..Len(w) : w[j] = y
    <3>1. CASE k < i
      BY <2>4, <2>5, <2>6, <3>1
    <3>2. CASE k > i
      <4>1. k - 1 \in 1..Len(w) /\ w[k - 1] = c[(k - 1) + 1] /\ (k - 1) + 1 = k
        BY <2>4, <2>5, <2>6, <3>2
      <4> QED
        BY <2>5, <4>1
    <3> QED
      BY <2>6, <3>1, <3>2
  <2> QED
    BY <2>4, <2>7, RangeIs DEF w
<1> QED
  BY <1>1, <1>2

\* A statement that is in a list stays in it, while it is there.
LEMMA ListsStay ==
    ASSUME IInv, Next, NEW o \in Owners, NEW s \in Stmts,
           s \in Range(ListOf(heap, o)), s \in heap'.live
    PROVE  s \in Range(ListOf(heap', o)) \/ Unlink(s)
<1> DEFINE ct  == ContentsIn(heap)
           ct2 == ContentsIn(heap')
           lo  == LooseIn(heap, held)
           lo2 == LooseIn(heap', held')
<1>1. IInv' /\ ListsStep
  BY StepConsistent
<1>2. /\ [p \in Owners |-> ListOf(heap, p)] = ct /\ [p \in Owners |-> ListOf(heap, p)]' = ct2
      /\ {From(heap, a) : a \in held \cap Nodes} = lo /\ {From(heap, a) : a \in held \cap Nodes}' = lo2
      /\ (heap.live \cap Nodes)' = Members(heap')
  BY DEF ContentsIn, LooseIn, Members
<1>3. /\ Represents(heap, held, ct, lo) /\ Sorted(heap, ct, lo) /\ Chained(heap, Listed(ct, lo))
      /\ Represents(heap', held', ct2, lo2) /\ ct \in [Owners -> Seq(Nodes)]
  BY <1>1 DEF IInv, Consistent, Represents
<1>4. s \in Range(ct[o]) /\ s \in Nodes /\ s \in Members(heap')
  BY DEF ContentsIn, Nodes, Members
<1>5. /\ s \in Members(heap) /\ s \in heap.live /\ s \notin held
      /\ \A y \in held \cap Nodes : heap.next[y] # s
  BY <1>3, <1>4, NotLoose DEF Members
<1>6. ct[o] \in Seq(Nodes) /\ ct[o] # <<>> /\ o \in heap.live /\ ct[o] \in Listed(ct, lo)
  <2>1. ct[o] \in Seq(Nodes)
    BY <1>3
  <2>2. ct[o] # <<>>
    BY <1>4, <2>1, RangeIs
  <2> QED
    BY <1>3, <2>1, <2>2 DEF Represents, Listed
<1>7. s \in held' => Unlink(s)
  BY <1>5, HeldIs
<1>8. ListOf(heap', o) = ct2[o]
  BY DEF ContentsIn
<1> SUFFICES ASSUME s \notin held' PROVE s \in Range(ct2[o])
  BY <1>7, <1>8
<1> HIDE DEF ct, ct2, lo, lo2
<1>9. ASSUME NEW b \in Seq(Nodes) PROVE s \in Range(ct[o] \o b)
  <2> DEFINE c == ct[o]
  <2>1. c \in Seq(Nodes)
    BY <1>6
  <2>2. PICK i \in 1..Len(c) : c[i] = s
    BY <1>4, <2>1, RangeIs
  <2> HIDE DEF c
  <2>3. c \o b \in Seq(Nodes) /\ i \in 1..Len(c \o b) /\ (c \o b)[i] = s
    BY <2>1, <2>2
  <2> QED
    BY <2>3, RangeIs DEF c
<1>10. \A b \in lo \cup {<<>>} : b \in Seq(Nodes)
  <2>1. \A b \in lo : b \in Seq(Nodes)
    BY <1>3, ListsKnown
  <2>2. <<>> \in Seq(Nodes)
    OBVIOUS
  <2> QED
    BY <2>1, <2>2
<1>11. ASSUME NEW n \in Nodes, NEW b \in lo \cup {<<>>}, Lists!Make(n, b) PROVE s \in Range(ct2[o])
  <2>1. n \notin Members(heap) /\ ct2 = IF b = <<>> THEN ct ELSE [ct EXCEPT ![n] = b]
    BY <1>2, <1>11 DEF Lists!Make, Members
  <2>2. o # n
    BY <1>6, <2>1 DEF Members
  <2> QED
    BY <1>3, <1>4, <2>1, <2>2
<1>12. ASSUME NEW n \in Nodes, NEW a \in lo, Lists!MakeBehind(a, n) PROVE s \in Range(ct2[o])
  BY <1>2, <1>4, <1>12 DEF Lists!MakeBehind
<1>13. ASSUME NEW p \in Owners, NEW n \in Nodes, NEW b \in lo \cup {<<>>}, Lists!MakeIn(p, n, b)
       PROVE  s \in Range(ct2[o])
  <2>1. n \notin Members(heap)
    BY <1>2, <1>13 DEF Lists!MakeIn, Members
  <2>2. o # n
    BY <1>6, <2>1 DEF Members
  <2>3. ct2[o] = IF o = p THEN Append(ct[o], n) ELSE ct[o]
    BY <1>2, <1>13, <2>2 DEF Lists!MakeIn
  <2>4. ct[o] \o <<n>> = Append(ct[o], n) /\ <<n>> \in Seq(Nodes)
    BY <1>6, AppendIs
  <2> QED
    BY <1>4, <1>6, <1>9, <2>3, <2>4
<1>14. ASSUME NEW a \in lo, NEW b \in lo, Lists!Join(a, b) PROVE s \in Range(ct2[o])
  BY <1>2, <1>4, <1>14 DEF Lists!Join
<1>15. ASSUME NEW p \in Owners, NEW b \in lo \cup {<<>>}, Lists!Give(p, b) PROVE s \in Range(ct2[o])
  <2>1. ct2 = [ct EXCEPT ![p] = @ \o b]
    BY <1>2, <1>15 DEF Lists!Give
  <2>2. ct2[o] = IF o = p THEN ct[o] \o b ELSE ct[o]
    BY <1>3, <2>1
  <2> QED
    BY <1>4, <1>6, <1>9, <1>10, <2>2
<1>16. ASSUME NEW p \in Owners, NEW b \in lo \cup {<<>>}, Lists!Replace(p, b) PROVE s \in Range(ct2[o])
  <2>1. ct2 = [ct EXCEPT ![p] = b] /\ Members(heap') = Members(heap) \ Range(ct[p])
    BY <1>2, <1>3, <1>16 DEF Lists!Replace, Lists!Range, Range, Members
  <2>2. o # p
    BY <1>4, <2>1
  <2> QED
    BY <1>3, <1>4, <2>1, <2>2
<1>17. ASSUME NEW n \in Nodes, Lists!Take(n) PROVE s \in Range(ct2[o])
  <2>1. <<n>> \in lo2 /\ ct2[o] = Lists!Without(ct[o], n)
    BY <1>2, <1>17 DEF Lists!Take
  <2>2. n \in held'
    <3>1. <<n>>[1] = n
      OBVIOUS
    <3> QED
      BY <1>3, <2>1, <3>1 DEF Represents
  <2> QED
    BY <1>3, <1>4, <1>6, <2>1, <2>2, WithoutKeeps
<1>18. ASSUME NEW S, Lists!Free(S) PROVE s \in Range(ct2[o])
  <2>1. Lists!Deep(S) = Entirely(ct, S)
    BY DeepIs DEF ct
  <2>2. /\ Members(heap') = Members(heap) \ Entirely(ct, S)
        /\ ct2[o] = IF o \in Entirely(ct, S) THEN <<>> ELSE ct[o]
    BY <1>2, <1>18, <2>1 DEF Lists!Free, Members
  <2>3. Complete(ct, Entirely(ct, S))
    BY <1>3, EntirelyIsComplete
  <2>4. o \notin Entirely(ct, S)
    BY <1>4, <2>2, <2>3 DEF Complete
  <2> QED
    BY <1>4, <2>2, <2>4
<1>19. CASE UNCHANGED Lists!listVars
  BY <1>2, <1>4, <1>19 DEF Lists!listVars
<1> QED
  BY <1>1, <1>2, <1>11, <1>12, <1>13, <1>14, <1>15, <1>16, <1>17, <1>18, <1>19
     DEF ListsStep, Lists!Next, Lists!Nothing

\* What is not allocated names nothing.
Unnamed == \A q \in Stmts \ heap.live : heap.media[q] = Null

LEMMA UnnamedKept ==
    ASSUME IInv, Unnamed, [Next]_vars
    PROVE  Unnamed'
BY StepNames DEF Unnamed, Naming

LEMMA RulesetsStay ==
    ASSUME IInv, Unnamed, [Next]_vars
    PROVE  [\A s \in Stmts : InItsMediaRule(s) => InItsMediaRule(s)' \/ Unlink(s)]_vars
<1> SUFFICES ASSUME Next, NEW s \in Stmts, InItsMediaRule(s), ~Unlink(s) PROVE InItsMediaRule(s)'
  BY Zenon
<1> DEFINE m == heap'.media[s]
<1>1. InItsMediaRule(s)' <=> (m # Null => s \in Range(ListOf(heap', m)))
  BY DEF InItsMediaRule
<1>2. Naming /\ Unnamed'
  BY StepNames, UnnamedKept
<1>3. CASE s \in heap'.live /\ s \in Range(ListOf(heap', m))
  BY <1>1, <1>3
<1>4. CASE m = Null
  BY <1>1, <1>4
<1>5. CASE m # Null /\ m = heap.media[s]
  <2>1. s \in Range(ListOf(heap, m))
    BY <1>5 DEF InItsMediaRule
  <2>2. s \in heap'.live
    BY <1>2, <1>5 DEF Unnamed
  <2>3. m \in Owners
    BY <1>5, Departed DEF Heaps, Owners
  <2> QED
    BY <1>1, <2>1, <2>2, <2>3, ListsStay
<1> QED
  BY <1>2, <1>3, <1>4, <1>5 DEF Naming

\* A ruleset that names the @media rule it is in stays in it and names it, until
\* cr_statement_unlink takes it out or both are freed.
THEOREM RulesetsStayInTheirMediaRule == Spec => MediaRuleIsKept
<1>1. Init => IInv /\ Unnamed
  BY InitConsistent DEF Init, EmptyHeap, Unnamed
<1>2. IInv /\ Unnamed /\ [Next]_vars => (IInv /\ Unnamed)'
  BY StepConsistent, UnnamedKept
<1>3. IInv /\ Unnamed /\ [Next]_vars =>
         [\A s \in Stmts : InItsMediaRule(s) => InItsMediaRule(s)' \/ Unlink(s)]_vars
  BY RulesetsStay
<1> QED
  BY <1>1, <1>2, <1>3, PTL DEF Spec, MediaRuleIsKept
=============================================================================
