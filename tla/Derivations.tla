---------------------------- MODULE Derivations ----------------------------
(***************************************************************************)
(* Regular expressions over a sequence t, each as an operator that takes   *)
(* the positions a match may start at to those where it may end.           *)
(***************************************************************************)
EXTENDS Integers, Sequences

One(t, C, S) == {p + 1 : p \in {q \in S : q < Len(t) /\ t[q + 1] \in C}}

Opt(F(_), S) == S \cup F(S)

\* F once, twice, up to n times, or not at all.
UpTo(F(_), S, n) ==
    LET upTo[i \in 0..n] ==
            IF i = 0 THEN S ELSE LET fewer == upTo[i - 1] IN fewer \cup F(fewer)
    IN  upTo[n]

\* F any number of times, in a sequence of length n.
Star(F(_), S, n) ==
    LET grown[X \in SUBSET (0..n)] ==
            LET Y == X \cup F(X) IN IF Y = X THEN X ELSE grown[Y]
    IN  grown[S]

Many(t, C, S) == LET again(X) == One(t, C, X) IN Star(again, S, Len(t))
============================================================================
