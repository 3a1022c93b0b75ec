---------------------------- MODULE CRSelection ----------------------------
(***************************************************************************)
(* The selection engine with its own matching: what a query finds, against *)
(* the relation CSS2 defines.                                              *)
(***************************************************************************)
EXTENDS CRSelEng, CRSelMatch

\* No statement with a selector that CSS2 has match the node is missed, whatever its
\* combinators and the values of attributes, but for the |= that Findable leaves out.  A
\* pseudo-class is what the handler registered for it answers.
CSSMatchesAreFound ==
    AllCollected =>
        \A o \in Asked : \A k \in DOMAIN Statements(o) :
            (\E i \in DOMAIN cascade[o][k].sels :
                LET sel == cascade[o][k].sels[i]
                IN  Findable(sel) /\ CSSMatches(doc, handlers, sel, query.node))
            => <<o, k>> \in Range(tab)

\* Nothing is found that CSS2 does not have match, but for what the engine is known to
\* confuse at the very node: three ways to compare a value, and the additional selectors
\* in front of a pseudo-class.
OnlyCSSMatchesAreFound ==
    AllCollected =>
        \A q \in Range(tab) :
            \E i \in DOMAIN cascade[q[1]][q[2]].sels :
                MatchesBy(LAMBDA s, m : NearlyMatches(doc, handlers, s, m),
                          doc, cascade[q[1]][q[2]].sels[i], query.node)
=============================================================================
