--------------------------- MODULE CRTknzrProofs ---------------------------
(***************************************************************************)
(* The tokenizer's lookahead is invisible: for every text length and every *)
(* lexer, CRTknzr implements TokenCursor.                                  *)
(***************************************************************************)
EXTENDS CRTknzr, TLAPS

Tokens == [start: 0..Size, end: 0..Size]

IInv == TypeOK /\ CacheMatchesPosition /\ HeldTokenIsLast

\* What the invariant says, in the terms the steps need.
LEMMA Facts ==
  ASSUME IInv
  PROVE  /\ Size \in Nat /\ 0 \in 0..Size
         /\ lex \in [0..(Size - 1) -> 0..Size]
         /\ \A p \in 0..(Size - 1) : lex[p] # 0 => lex[p] > p /\ lex[p] <= Size
         /\ pos \in 0..Size /\ prev \in 0..Size /\ saved \in 0..Size /\ seen \in 0..Size
         /\ cache \in Tokens \cup {NoToken} /\ held \in Tokens \cup {NoToken}
         /\ NoToken \notin Tokens
         /\ Logical \in 0..Size
  BY TknzrAssumption DEF IInv, TypeOK, Tokens, Logical

\* A token that can be fetched is the one that starts where the parser is.
LEMMA FetchedToken ==
  ASSUME IInv, CanGet
  PROVE  /\ Fetched = [start |-> Logical, end |-> lex[Logical]]
         /\ Fetched \in Tokens /\ Fetched # NoToken
         /\ Logical \in 0..(Size - 1) /\ lex[Logical] # 0
         /\ cache # NoToken => pos = lex[Logical] /\ prev = Logical
         /\ cache = NoToken => pos = Logical
<1>1. CASE cache = NoToken
  <2>1. Logical = pos /\ pos \in 0..(Size - 1) /\ lex[pos] # 0
    BY <1>1, Facts DEF CanGet, Logical
  <2>2. Fetched = Token(pos)
    BY <1>1 DEF Fetched
  <2>3. lex[pos] \in 0..Size /\ pos \in 0..Size
    BY <2>1, Facts
  <2>. QED BY <1>1, <2>1, <2>2, <2>3, Facts DEF Token, Tokens
<1>2. CASE cache # NoToken
  <2>1. Logical = prev /\ Fetched = cache
    BY <1>2 DEF Logical, Fetched
  <2>2. cache \in Tokens /\ cache.start = prev /\ cache.end = pos
        /\ prev < pos /\ lex[prev] = pos
    BY <1>2, Facts DEF IInv, CacheMatchesPosition
  <2>3. cache = [start |-> prev, end |-> pos]
    BY <2>2 DEF Tokens
  <2>4. prev \in 0..(Size - 1) /\ pos > 0
    BY <2>2, Facts, TknzrAssumption DEF IInv, TypeOK
  <2>. QED BY <1>2, <2>1, <2>2, <2>3, <2>4, Facts
<1>. QED BY <1>1, <1>2

LEMMA InitIInv == Init => IInv
<1>. SUFFICES ASSUME Init PROVE IInv
  OBVIOUS
<1>1. sought \in BOOLEAN
  BY Zenon DEF Init
<1>2. /\ {pos, prev, saved, seen} \subseteq 0..Size
      /\ {cache, held} \subseteq [start: 0..Size, end: 0..Size] \cup {NoToken}
  BY TknzrAssumption DEF Init
<1>. QED BY <1>1, <1>2 DEF Init, IInv, TypeOK, CacheMatchesPosition, HeldTokenIsLast

-----------------------------------------------------------------------------
(* Each step keeps the lookahead consistent and is a step of the cursor.    *)

\* A step that leaves nothing cached and nothing held has little to show.
LEMMA MovedKeepsIInv ==
  ASSUME IInv, lex' = lex, cache' = NoToken, held' = NoToken, sought' \in BOOLEAN,
         pos' \in 0..Size, prev' = prev, saved' = saved, seen' = seen
  PROVE  IInv' /\ Logical' = pos'
<1>1. Logical' = pos'
  BY DEF Logical
<1>. QED BY <1>1 DEF IInv, TypeOK, CacheMatchesPosition, HeldTokenIsLast

\* A step that only flushes the cache keeps what is held.
LEMMA FlushKeepsIInv ==
  ASSUME IInv, lex' = lex, held' = held, sought' = sought, prev' = prev, Flush(Logical),
         saved' \in 0..Size, seen' \in 0..Size
  PROVE  IInv' /\ Logical' = Logical
<1>1. cache' = NoToken /\ pos' = Logical /\ Logical' = Logical
  BY DEF Flush, Logical
<1>2. held # NoToken => Logical = pos
  BY DEF IInv, HeldTokenIsLast, Logical
<1>3. pos' \in 0..Size
  BY <1>1, Facts
<1>. QED BY <1>1, <1>2, <1>3 DEF IInv, TypeOK, CacheMatchesPosition, HeldTokenIsLast

LEMMA GetStep ==
  ASSUME IInv, GetNextToken
  PROVE  IInv' /\ [Cursor!Next]_(Cursor!cursorVars)
<1>1. CASE CanGet
  <2>1. held' = Fetched /\ cache' = NoToken /\ lex' = lex /\ saved' = saved /\ seen' = seen
        /\ sought' = FALSE /\ pos' = lex[Logical] /\ prev' = Logical
    BY <1>1, FetchedToken DEF GetNextToken
  <2>2. /\ Fetched = [start |-> Logical, end |-> lex[Logical]]
        /\ Fetched \in Tokens /\ Fetched # NoToken
        /\ Logical \in 0..(Size - 1) /\ lex[Logical] # 0
        /\ lex[Logical] > Logical /\ lex[Logical] \in 0..Size
    BY <1>1, FetchedToken, Facts
  <2>3. IInv'
    <3>1. TypeOK'
      BY <2>1, <2>2, Facts DEF IInv, TypeOK, Tokens
    <3>. QED BY <2>1, <2>2, <3>1, Facts DEF IInv, CacheMatchesPosition, HeldTokenIsLast
  <2>4. Logical' = lex[Logical]
    BY <2>1 DEF Logical
  <2>5. Cursor!Take
    BY <2>1, <2>2, <2>4, Facts DEF Cursor!Take, Cursor!Token
  <2>. QED BY <2>3, <2>5 DEF Cursor!Next
<1>2. CASE ~CanGet
  <2>1. /\ held' = NoToken /\ sought' = FALSE
        /\ UNCHANGED <<pos, prev, cache, lex, saved, seen>>
        /\ cache = NoToken
    BY <1>2 DEF GetNextToken, CanGet
  <2>2. IInv' /\ Logical' = Logical
    BY <2>1, MovedKeepsIInv, Facts DEF Logical
  <2>3. Cursor!Skip
    BY <2>1, <2>2, Facts DEF Cursor!Skip
  <2>. QED BY <2>2, <2>3 DEF Cursor!Next
<1>. QED BY <1>1, <1>2

LEMMA UngetStep ==
  ASSUME IInv, UngetToken
  PROVE  IInv' /\ Cursor!GiveBack
<1>1. /\ held # NoToken /\ cache = NoToken
      /\ held.start = prev /\ held.end = pos /\ prev < pos /\ lex[prev] = pos
      /\ held \in Tokens
  BY Facts DEF UngetToken, IInv, HeldTokenIsLast
<1>2. /\ cache' = held /\ held' = NoToken /\ sought' = FALSE
      /\ UNCHANGED <<lex, pos, prev, saved, seen>>
  BY <1>1 DEF UngetToken
<1>3. IInv'
  BY <1>1, <1>2, Facts DEF IInv, TypeOK, Tokens, CacheMatchesPosition, HeldTokenIsLast
<1>4. Logical' = held.start
  BY <1>1, <1>2 DEF Logical
<1>. QED BY <1>1, <1>2, <1>3, <1>4 DEF Cursor!GiveBack

LEMMA ParseStep ==
  ASSUME IInv, ParseToken
  PROVE  IInv' /\ Cursor!Skip
<1>1. CASE CanGet
  <2>1. /\ held' = NoToken /\ cache' \in {NoToken, Fetched}
        /\ lex' = lex /\ saved' = saved /\ seen' = seen
        /\ sought' = FALSE /\ pos' = lex[Logical] /\ prev' = Logical
    BY <1>1, FetchedToken DEF ParseToken
  <2>2. /\ Fetched = [start |-> Logical, end |-> lex[Logical]]
        /\ Fetched \in Tokens /\ Fetched # NoToken
        /\ Logical \in 0..(Size - 1) /\ lex[Logical] # 0
        /\ lex[Logical] > Logical /\ lex[Logical] \in 0..Size
    BY <1>1, FetchedToken, Facts
  <2>3. IInv'
    <3>1. TypeOK'
      BY <2>1, <2>2, Facts DEF IInv, TypeOK, Tokens
    <3>. QED BY <2>1, <2>2, <3>1, Facts DEF IInv, CacheMatchesPosition, HeldTokenIsLast
  <2>4. Logical' \in {Logical, lex[Logical]}
    BY <2>1 DEF Logical
  <2>5. \E k \in 0..Size : Logical' = Logical + k /\ Logical' <= Size
    <3>1. CASE Logical' = Logical
      BY <2>2, <3>1, Facts
    <3>2. CASE Logical' = lex[Logical]
      <4>1. lex[Logical] - Logical \in 0..Size
        BY <2>2, Facts
      <4>. QED BY <2>2, <3>2, <4>1, Facts
    <3>. QED BY <2>4, <3>1, <3>2
  <2>. QED BY <2>1, <2>3, <2>5 DEF Cursor!Skip
<1>2. CASE ~CanGet
  <2>1. /\ held' = NoToken /\ sought' = FALSE
        /\ UNCHANGED <<pos, prev, cache, lex, saved, seen>>
        /\ cache = NoToken
    BY <1>2 DEF ParseToken, CanGet
  <2>2. IInv' /\ Logical' = Logical
    BY <2>1, MovedKeepsIInv, Facts DEF Logical
  <2>. QED BY <2>1, <2>2, Facts DEF Cursor!Skip
<1>. QED BY <1>1, <1>2

\* The character functions: flush the cache, then move ahead.
LEMMA AheadStep ==
  ASSUME IInv, NEW p \in 0..Size, p >= Logical, Flush(p),
         held' = NoToken, sought' = FALSE,
         UNCHANGED <<lex, prev, saved, seen>>
  PROVE  IInv' /\ Cursor!Skip
<1>1. IInv' /\ Logical' = p
  BY MovedKeepsIInv DEF Flush
<1>2. p - Logical \in 0..Size /\ p = Logical + (p - Logical)
  BY Facts
<1>. QED BY <1>1, <1>2 DEF Cursor!Skip

LEMMA NextStep ==
  ASSUME IInv, [Next]_vars
  PROVE  IInv' /\ [Cursor!Next]_(Cursor!cursorVars)
<1>1. CASE GetNextToken
  BY <1>1, GetStep
<1>2. CASE UngetToken
  BY <1>2, UngetStep DEF Cursor!Next
<1>3. CASE ParseToken
  BY <1>3, ParseStep DEF Cursor!Next
<1>4. CASE ReadChar
  <2>. DEFINE p == IF Logical < Size THEN Logical + 1 ELSE Logical
  <2>1. p \in 0..Size /\ p >= Logical
    BY Facts
  <2>2. IInv' /\ Cursor!Skip
    <3>1. /\ Flush(p) /\ held' = NoToken /\ sought' = FALSE
          /\ UNCHANGED <<lex, prev, saved, seen>>
      BY <1>4, Zenon DEF ReadChar
    <3>. HIDE DEF p
    <3>. QED BY <2>1, <3>1, AheadStep, Zenon
  <2>. QED BY <2>2 DEF Cursor!Next
<1>5. CASE Peek
  <2>1. IInv' /\ Logical' = Logical
    BY <1>5, FlushKeepsIInv, Facts DEF Peek
  <2>. QED BY <1>5, <2>1 DEF Peek, Cursor!cursorVars
<1>6. CASE GetCurPos
  <2>1. IInv' /\ Logical' = Logical
    BY <1>6, FlushKeepsIInv, Facts DEF GetCurPos
  <2>2. Cursor!Record
    BY <1>6, <2>1 DEF GetCurPos, Cursor!Record
  <2>. QED BY <2>1, <2>2 DEF Cursor!Next
<1>7. CASE SetCurPos
  <2>1. IInv' /\ Logical' = saved
    BY <1>7, MovedKeepsIInv, Facts DEF SetCurPos, Flush
  <2>2. Cursor!Restore
    BY <1>7, <2>1 DEF SetCurPos, Cursor!Restore
  <2>. QED BY <2>1, <2>2 DEF Cursor!Next
<1>8. ASSUME NEW abs \in 0..Size, SeekIndex(abs)
      PROVE  IInv' /\ [Cursor!Next]_(Cursor!cursorVars)
  <2>1. PICK p \in 0..Size : Flush(p)
    <3>1. (IF abs \in 1..(Size - 1) THEN abs + 1 ELSE Logical) \in 0..Size
      BY Facts
    <3>. QED BY <1>8, <3>1, Facts DEF SeekIndex
  <2>2. /\ held' = NoToken /\ sought' = TRUE
        /\ UNCHANGED <<lex, prev, saved, seen>>
    BY <1>8 DEF SeekIndex
  <2>3. IInv' /\ Logical' = p
    BY <2>1, <2>2, MovedKeepsIInv DEF Flush
  <2>4. Cursor!Seek
    BY <2>2, <2>3 DEF Cursor!Seek
  <2>. QED BY <2>3, <2>4 DEF Cursor!Next
<1>9. ASSUME NEW n \in 1..Size, ConsumeChars(n)
      PROVE  IInv' /\ [Cursor!Next]_(Cursor!cursorVars)
  <2>. DEFINE p == IF Logical + n < Size THEN Logical + n ELSE Size
  <2>1. p \in 0..Size /\ p >= Logical
    BY Facts
  <2>2. IInv' /\ Cursor!Skip
    <3>1. /\ Flush(p) /\ held' = NoToken /\ sought' = FALSE
          /\ UNCHANGED <<lex, prev, saved, seen>>
      BY <1>9, Zenon DEF ConsumeChars
    <3>. HIDE DEF p
    <3>. QED BY <2>1, <3>1, AheadStep, Zenon
  <2>. QED BY <2>2 DEF Cursor!Next
<1>10. CASE ReadByte
  <2>1. Logical = pos /\ cache' = NoToken
    BY <1>10 DEF ReadByte, Logical
  <2>. DEFINE p == IF pos < Size THEN pos + 1 ELSE pos
  <2>2. p \in 0..Size /\ p >= Logical
    BY <2>1, Facts
  <2>3. IInv' /\ Cursor!Skip
    <3>1. /\ Flush(p) /\ held' = NoToken /\ sought' = FALSE
          /\ UNCHANGED <<lex, prev, saved, seen>>
      BY <1>10, <2>1, Zenon DEF ReadByte, Flush
    <3>. HIDE DEF p
    <3>. QED BY <2>2, <3>1, AheadStep, Zenon
  <2>. QED BY <2>3 DEF Cursor!Next
<1>11. CASE PeekByte2
  BY <1>11, Facts DEF PeekByte2, IInv, TypeOK, CacheMatchesPosition, HeldTokenIsLast,
                      Cursor!cursorVars, Logical
<1>12. CASE GetParsingLocation
  BY <1>12, Facts DEF GetParsingLocation, IInv, TypeOK, CacheMatchesPosition,
                      HeldTokenIsLast, Cursor!cursorVars, Logical
<1>13. CASE UNCHANGED vars
  BY <1>13 DEF vars, IInv, TypeOK, CacheMatchesPosition, HeldTokenIsLast,
               Cursor!cursorVars, Logical
<1>. QED BY <1>1, <1>2, <1>3, <1>4, <1>5, <1>6, <1>7, <1>8, <1>9, <1>10, <1>11, <1>12,
            <1>13 DEF Next

\* Every field keeps its type, for every text and every lexer.
THEOREM TypeCorrect == Spec => []TypeOK
<1>1. IInv => TypeOK
  BY DEF IInv
<1>2. IInv /\ [Next]_vars => IInv'
  BY NextStep
<1>. QED BY <1>1, <1>2, InitIInv, PTL DEF Spec

\* The position a cached token is flushed to is the position it was lexed from.
THEOREM CacheIsConsistent == Spec => []CacheMatchesPosition
<1>1. IInv => CacheMatchesPosition
  BY DEF IInv
<1>2. IInv /\ [Next]_vars => IInv'
  BY NextStep
<1>. QED BY <1>1, <1>2, InitIInv, PTL DEF Spec

\* The lookahead is invisible: the tokenizer and its input are one cursor.
THEOREM TknzrImplementsCursor == Spec => ImplementsTokenCursor
<1>1. Init => IInv /\ Cursor!Init
  BY InitIInv DEF Init, Cursor!Init, Logical
<1>2. IInv /\ [Next]_vars => IInv' /\ [Cursor!Next]_(Cursor!cursorVars)
  BY NextStep
<1>. QED BY <1>1, <1>2, PTL DEF Spec, ImplementsTokenCursor, Cursor!Spec
============================================================================
