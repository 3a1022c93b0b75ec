------------------------------ MODULE CRTknzr ------------------------------
(***************************************************************************)
(* The token cache of CRTknzr (src/src/cr-tknzr.c): one token of lookahead *)
(* kept beside an input that has already moved past it, over which the     *)
(* character functions must still see the text the token came from.        *)
(* Characters are all one byte long here; what a token is and where it     *)
(* ends is left to a lexer, any function from positions to ends.           *)
(***************************************************************************)
EXTENDS Integers

CONSTANTS Size,      \* length of the text
          Lexers,    \* lexers: lex[p] ends the token that starts at p, or is 0
          NoToken

ASSUME TknzrAssumption ==
    /\ Size \in Nat
    /\ Lexers \subseteq [0..(Size - 1) -> 0..Size]
    /\ \A f \in Lexers : \A p \in 0..(Size - 1) : f[p] = 0 \/ f[p] > p
    /\ NoToken \notin [start: 0..Size, end: 0..Size]

VARIABLES lex,      \* the lexer
          pos,      \* the position of the input
          cache,    \* token_cache
          prev,     \* prev_pos
          saved,    \* a CRInputPos the parser recorded
          held,     \* the token the parser holds
          seen,     \* the position the last location or peek was taken from
          sought    \* history: the call that moved the position last was a seek

vars == <<lex, pos, cache, prev, saved, held, seen, sought>>

Token(p) == [start |-> p, end |-> lex[p]]

\* Where the parser is: a cached token has been given back.
Logical == IF cache = NoToken THEN pos ELSE prev

Init == /\ lex \in Lexers
        /\ pos = 0 /\ prev = 0 /\ saved = 0 /\ seen = 0
        /\ cache = NoToken /\ held = NoToken /\ sought = FALSE

-----------------------------------------------------------------------------
\* What cr_tknzr_get_next_token can do: hand out the cached token, recognise
\* one, or fail where there is none and leave the position as it was.
CanGet == cache # NoToken \/ (pos < Size /\ lex[pos] # 0)

Fetched == IF cache # NoToken THEN cache ELSE Token(pos)

GetNextToken ==
    /\ IF CanGet
       THEN /\ held' = Fetched
            /\ cache' = NoToken
            /\ IF cache # NoToken THEN UNCHANGED <<pos, prev>>
               ELSE pos' = lex[pos] /\ prev' = pos
       ELSE /\ held' = NoToken
            /\ UNCHANGED <<pos, prev, cache>>
    /\ sought' = FALSE
    /\ UNCHANGED <<lex, saved, seen>>

\* The parser gives back the token it fetched last, and only that one.
UngetToken ==
    /\ held # NoToken
    /\ IF cache = NoToken THEN cache' = held ELSE UNCHANGED cache
    /\ held' = NoToken /\ sought' = FALSE
    /\ UNCHANGED <<lex, pos, prev, saved, seen>>

\* cr_tknzr_parse_token: a token of the type asked for is consumed, another one
\* is put in the cache.
ParseToken ==
    /\ IF CanGet
       THEN /\ IF cache # NoToken THEN UNCHANGED <<pos, prev>>
               ELSE pos' = lex[pos] /\ prev' = pos
            /\ cache' \in {NoToken, Fetched}
       ELSE UNCHANGED <<pos, prev, cache>>
    /\ held' = NoToken /\ sought' = FALSE
    /\ UNCHANGED <<lex, saved, seen>>

\* Mutants: the cached token is kept; the input does not go back.
FlushKeepingToken(p) == UNCHANGED cache /\ pos' = p
FlushInPlace(p) == cache' = NoToken /\ UNCHANGED pos

\* The lines every character function starts with: the input goes back to where
\* the cached token started, and the token is destroyed.
Flush(p) == cache' = NoToken /\ pos' = p

ReadChar ==
    /\ Flush(IF Logical < Size THEN Logical + 1 ELSE Logical)
    /\ held' = NoToken /\ sought' = FALSE
    /\ UNCHANGED <<lex, prev, saved, seen>>

\* peek_char, peek_byte, get_nb_bytes_left, get_cur_byte_addr
Peek ==
    /\ Flush(Logical)
    /\ seen' = Logical
    /\ UNCHANGED <<lex, prev, saved, held, sought>>

GetCurPos ==
    /\ Flush(Logical)
    /\ saved' = Logical
    /\ UNCHANGED <<lex, prev, held, seen, sought>>

\* abs is the byte index that the origin and the offset come to.  One that is
\* not inside the buffer, or its first byte, is refused; end_of_input stays set.
SeekIndex(abs) ==
    /\ \/ Flush(IF abs \in 1..(Size - 1) THEN abs + 1 ELSE Logical)
       \/ Logical = Size /\ Flush(Size)
    /\ held' = NoToken /\ sought' = TRUE
    /\ UNCHANGED <<lex, prev, saved, seen>>

\* Mutant: the input is moved past its end.
ConsumeCharsUnbounded(n) ==
    /\ Flush(Logical + n)
    /\ held' = NoToken /\ sought' = FALSE
    /\ UNCHANGED <<lex, prev, saved, seen>>

ConsumeChars(n) ==
    /\ Flush(IF Logical + n < Size THEN Logical + n ELSE Size)
    /\ held' = NoToken /\ sought' = FALSE
    /\ UNCHANGED <<lex, prev, saved, seen>>

SetCurPos ==
    /\ Flush(saved)
    /\ held' = NoToken /\ sought' = FALSE
    /\ UNCHANGED <<lex, prev, saved, seen>>

\* These three look at the input as it is, cached token or not.  Reading the
\* last byte sets end_of_input and leaves the index: nothing more is read.
ReadByte ==
    /\ cache = NoToken          \* the one caller has just peeked
    /\ pos' = IF pos < Size THEN pos + 1 ELSE pos
    /\ held' = NoToken /\ sought' = FALSE
    /\ UNCHANGED <<lex, cache, prev, saved, seen>>

PeekByte2 ==
    /\ cache = NoToken          \* the callers have just recorded a position
    /\ seen' = pos
    /\ UNCHANGED <<lex, pos, cache, prev, saved, held, sought>>

GetParsingLocation ==
    /\ seen' = pos
    /\ UNCHANGED <<lex, pos, cache, prev, saved, held, sought>>

Next == \/ GetNextToken \/ UngetToken \/ ParseToken
        \/ ReadChar \/ Peek \/ GetCurPos \/ SetCurPos
        \/ \E n \in 1..Size : ConsumeChars(n)
        \/ \E abs \in 0..Size : SeekIndex(abs)
        \/ ReadByte \/ PeekByte2 \/ GetParsingLocation

Spec == Init /\ [][Next]_vars

-----------------------------------------------------------------------------
\* Type invariant.
TypeOK == /\ lex \in Lexers
          /\ {pos, prev, saved, seen} \subseteq 0..Size
          /\ sought \in BOOLEAN
          /\ {cache, held} \subseteq [start: 0..Size, end: 0..Size] \cup {NoToken}

\* The position to go back to is the one the cached token starts at, and the
\* input stands at its end: flushing the cache loses and repeats nothing.
CacheMatchesPosition ==
    cache # NoToken => /\ cache.start = prev
                       /\ cache.end = pos
                       /\ prev < pos /\ lex[prev] = pos

\* The other half of the induction: a token the parser can still give back is
\* the text it just moved over.  UngetToken is for no other token, so this says
\* nothing of a caller that moves the input before it gives one back.
HeldTokenIsLast ==
    held # NoToken => /\ cache = NoToken
                      /\ held.start = prev
                      /\ held.end = pos
                      /\ prev < pos /\ lex[prev] = pos

\* The tokenizer behaves as one cursor, whatever the mixture of token and
\* character calls.
Cursor == INSTANCE TokenCursor WITH Nothing <- NoToken, at <- Logical

ImplementsTokenCursor == Cursor!Spec
============================================================================
