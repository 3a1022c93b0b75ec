----------------------------- MODULE CharStream -----------------------------
(***************************************************************************)
(* What a CRInput promises its callers when the buffer holds well-formed   *)
(* UTF-8: a cursor over a text of characters that can be read, peeked,     *)
(* recorded and put back, together with a line and a column that are a     *)
(* function of the text before the cursor and of nothing else.             *)
(***************************************************************************)
EXTENDS Naturals, Sequences, FiniteSets

CONSTANTS Texts,    \* the texts a stream may be opened on
          Newline,  \* the character that ends a line
          Nothing   \* what a caller holds before it reads

VARIABLES text,     \* the characters of the stream
          at,       \* how many of them have been consumed
          mark,     \* a recorded cursor
          where,    \* [line, col, eol] reported for the cursor
          got       \* the last character handed to the caller

streamVars == <<text, at, mark, where, got>>

\* Index of the last newline among the first k characters, 0 if there is none.
LastNewline(t, k) ==
    LET nl == {i \in 1..k : t[i] = Newline}
    IN  IF nl = {} THEN 0 ELSE CHOOSE i \in nl : \A j \in nl : j <= i

\* How many newlines the first k characters hold.
Newlines(t, k) == Cardinality({i \in 1..k : t[i] = Newline})

(***************************************************************************)
(* The location of the k-th character.  A line number counts the newlines  *)
(* before that character.  A newline itself keeps the column of the        *)
(* character it follows, unless it opens an empty line, where it stands    *)
(* in column 1.                                                            *)
(***************************************************************************)
LocationOf(t, k) ==
    IF k = 0 THEN [line |-> 1, col |-> 0, eol |-> FALSE]
    ELSE LET start == LastNewline(t, k - 1)
             isNl  == t[k] = Newline
         IN  [line |-> 1 + Newlines(t, k - 1),
              eol  |-> isNl,
              col  |-> IF ~isNl THEN k - start
                       ELSE IF start = k - 1 /\ k > 1 THEN 1
                       ELSE k - 1 - start]

Init == /\ text \in Texts
        /\ at = 0
        /\ mark = 0
        /\ where = LocationOf(text, 0)
        /\ got = Nothing

MoveTo(k) == at' = k /\ where' = LocationOf(text, k)

Read == /\ at < Len(text)
        /\ MoveTo(at + 1)
        /\ got' \in {got, text[at + 1]}
        /\ UNCHANGED <<text, mark>>

Peek == /\ at < Len(text)
        /\ got' = text[at + 1]
        /\ UNCHANGED <<text, at, mark, where>>

Record  == mark' = at /\ UNCHANGED <<text, at, where, got>>

Restore == MoveTo(mark) /\ UNCHANGED <<text, mark, got>>

Next == Read \/ Peek \/ Record \/ Restore

Spec == Init /\ [][Next]_streamVars
=============================================================================
