----------------------------- MODULE OwnedLists -----------------------------
(***************************************************************************)
(* What the lists of the object model are for: sequences of nodes, each in *)
(* one place, either loose in the hands of the application or the contents *)
(* of a statement or a sheet.  What a call does not speak of stays as it   *)
(* is, and nothing is lost.                                                *)
(***************************************************************************)
EXTENDS Sequences, SequencesExt, FiniteSets

CONSTANTS Nodes, Owners     \* what is in lists, and what has a list

VARIABLES nodes,      \* the nodes that are allocated
          contents,   \* the list of each owner
          loose       \* the lists of the application

listVars == <<nodes, contents, loose>>

Init == nodes = {} /\ contents = [o \in Owners |-> <<>>] /\ loose = {}

\* The members of some lists, with what they contain, to the depth of a sheet.
Inside(S) == S \cup UNION {Range(contents[o]) : o \in S \cap Owners}
Deep(S)   == Inside(Inside(Inside(S)))

Nothing == {<<>>}
Without(s, n) ==
    IF n \in Range(s) THEN RemoveAt(s, CHOOSE i \in DOMAIN s : s[i] = n) ELSE s

\* A node is made, with a loose list in it or none, and stays loose.
Make(n, b) ==
    /\ n \notin nodes
    /\ nodes' = nodes \cup {n}
    /\ loose' = (loose \ {b}) \cup {<<n>>}
    /\ contents' = IF b = <<>> THEN contents ELSE [contents EXCEPT ![n] = b]

\* The same, at the end of a list.
MakeIn(o, n, b) ==
    /\ n \notin nodes
    /\ nodes' = nodes \cup {n}
    /\ loose' = loose \ {b}
    /\ contents' = [p \in Owners |-> CASE p = o -> Append(contents[o], n)
                                       [] p = n -> b
                                       [] OTHER -> contents[p]]

MakeBehind(a, n) ==
    /\ n \notin nodes
    /\ nodes' = nodes \cup {n}
    /\ loose' = (loose \ {a}) \cup {Append(a, n)}
    /\ UNCHANGED contents

Join(a, b) ==
    /\ a # b
    /\ UNCHANGED nodes
    /\ loose' = (loose \ {a, b}) \cup {a \o b}
    /\ UNCHANGED contents

Give(o, b) ==
    /\ UNCHANGED nodes
    /\ loose' = loose \ {b}
    /\ contents' = [contents EXCEPT ![o] = @ \o b]

\* What was there is freed.
Replace(o, b) ==
    /\ nodes' = nodes \ Range(contents[o])
    /\ loose' = loose \ {b}
    /\ contents' = [contents EXCEPT ![o] = b]

\* One node is taken out of its list, the rest of it stays where it was.
Take(n) ==
    /\ n \in nodes
    /\ UNCHANGED nodes
    /\ loose' = ({Without(b, n) : b \in loose} \ Nothing) \cup {<<n>>}
    /\ contents' = [o \in Owners |-> Without(contents[o], n)]

\* Owners, or all of a list, are freed with what they contain.
Free(S) ==
    /\ nodes' = nodes \ Deep(S)
    /\ contents' = [o \in Owners |-> IF o \in Deep(S) THEN <<>> ELSE contents[o]]
    /\ loose' = {b \in loose : Range(b) \cap Deep(S) = {}}

Next ==
    \/ \E n \in Nodes, b \in loose \cup Nothing : Make(n, b)
    \/ \E n \in Nodes, a \in loose : MakeBehind(a, n)
    \/ \E o \in Owners, n \in Nodes, b \in loose \cup Nothing : MakeIn(o, n, b)
    \/ \E a, b \in loose : Join(a, b)
    \/ \E o \in Owners, b \in loose \cup Nothing : Give(o, b) \/ Replace(o, b)
    \/ \E n \in Nodes : Take(n)
    \/ \E b \in loose : Free(Range(b))
    \/ \E S \in SUBSET (Owners \ Nodes) : Free(S)

Spec == Init /\ [][Next]_listVars
=============================================================================
