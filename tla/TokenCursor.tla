---------------------------- MODULE TokenCursor ----------------------------
(***************************************************************************)
(* What a tokenizer promises the parser: one position in the text, from    *)
(* which tokens and characters may be taken in any mixture, and to which   *)
(* a token can be given back.  There is no lookahead at this level: a      *)
(* token given back is as if it had never been taken.                      *)
(***************************************************************************)
EXTENDS Naturals

CONSTANTS Size,      \* length of the text, in characters
          Lexers,    \* where the token that starts at a position ends
          Nothing    \* no token

VARIABLES lex,       \* the lexer of this text
          at,        \* the position
          saved,     \* a position the caller recorded
          held,      \* the token the caller has taken, if any
          sought     \* whether the position was last moved by a seek

cursorVars == <<lex, at, saved, held, sought>>

Token(p) == [start |-> p, end |-> lex[p]]

Init == /\ lex \in Lexers
        /\ at = 0
        /\ saved = 0
        /\ held = Nothing
        /\ sought = FALSE

\* A token is taken at the position, where the lexer finds one.
Take == /\ at < Size /\ lex[at] # 0
        /\ held' = Token(at)
        /\ at' = lex[at]
        /\ sought' = FALSE
        /\ UNCHANGED <<lex, saved>>

\* The token just taken is given back.
GiveBack == /\ held # Nothing
            /\ at' = held.start
            /\ held' = Nothing /\ sought' = FALSE
            /\ UNCHANGED <<lex, saved>>

\* Characters are skipped, or the whole token found there.
Skip == /\ \E k \in 0..Size : at' = at + k /\ at' <= Size
        /\ held' = Nothing /\ sought' = FALSE
        /\ UNCHANGED <<lex, saved>>

\* A seek goes anywhere, and is known as one: no other call may do so.
Seek == /\ at' \in 0..Size
        /\ held' = Nothing /\ sought' = TRUE
        /\ UNCHANGED <<lex, saved>>

Record == saved' = at /\ UNCHANGED <<lex, at, held, sought>>

Restore == /\ at' = saved
           /\ held' = Nothing /\ sought' = FALSE
           /\ UNCHANGED <<lex, saved>>

Next == Take \/ GiveBack \/ Skip \/ Seek \/ Record \/ Restore

Spec == Init /\ [][Next]_cursorVars
=============================================================================
