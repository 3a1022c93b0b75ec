--------------------------- MODULE CRInputProofs ---------------------------
(***************************************************************************)
(* Theorems about CRInput for every set of buffers, every width of its     *)
(* counters and every mix of byte and character calls.                     *)
(***************************************************************************)
EXTENDS CRInputText, InductionLemmas, FiniteSetTheorems

\* What an operator that reads at a position returns.
Results == [status: {"CR_OK", "CR_END_OF_INPUT_ERROR"}, consumed: Nat,
            out: Chars \cup {"unset"}]

LEMMA WidthIsNat == \A x : Width(x) \in Nat
  BY DEF Width, Ascii

\* The decoder consumes no byte after the end, whatever the bytes are.
LEMMA DecodeStaysInside ==
  ASSUME NEW i \in Nat, NEW left \in Nat
  PROVE  /\ Decode(i, left) \in Results
         /\ Decode(i, left).status = "CR_OK" => Decode(i, left).consumed <= left
<1> DEFINE x == buf[i + 1]
           w == Width(x)
<1>1. w \in Nat
  BY WidthIsNat
<1>2. CASE w > left
  BY <1>1, <1>2 DEF Decode, Results
<1>3. CASE ~(w > left)
  BY <1>1, <1>3 DEF Decode, Results
<1>. QED BY <1>2, <1>3

\* Reading and peeking find a result that leaves the index in the buffer.
LEMMA ReadStaysInside ==
  ASSUME buf \in Seq(Bytes), NEW p \in Positions, p.index <= Len(buf)
  PROVE  /\ Read(p) \in Results /\ Peeked(p) \in Results
         /\ Read(p).status = "CR_OK" => p.index + Read(p).consumed <= Len(buf)
<1>1. /\ p.index \in Nat /\ Len(buf) \in Nat
      /\ BytesLeft(p) \in Nat /\ p.index + BytesLeft(p) <= Len(buf)
  BY DEF Positions, BytesLeft
<1>2. /\ Decode(p.index, BytesLeft(p)) \in Results
      /\ Decode(p.index, BytesLeft(p)).status = "CR_OK"
            => Decode(p.index, BytesLeft(p)).consumed <= BytesLeft(p)
  BY <1>1, DecodeStaysInside
<1>3. EndOfInput \in Results /\ EndOfInput.status # "CR_OK"
  BY DEF EndOfInput, Results
<1>4. /\ Read(p) \in {EndOfInput, Decode(p.index, BytesLeft(p))}
      /\ Peeked(p) \in {EndOfInput, Decode(p.index, BytesLeft(p))}
  BY DEF Read, Peeked
<1>5. Decode(p.index, BytesLeft(p)).consumed \in Nat
  BY <1>2 DEF Results
<1>. QED BY <1>1, <1>2, <1>3, <1>4, <1>5

LEMMA WrittenIsChar ==
  ASSUME NEW out \in Chars \cup {"unset"}, NEW c \in Chars \cup {AnyChar}
  PROVE  Written(out, c) \in Chars \cup {AnyChar}
  BY DEF Written

\* Counters of WordMod values stay among them.
LEMMA WrapsAround ==
  ASSUME NEW n \in Nat
  PROVE  n % WordMod \in 0..(WordMod - 1)
  BY InputAssumption

LEMMA StartIsPosition == Start \in Positions /\ Start.index = 0
<1>1. 1 % WordMod \in 0..(WordMod - 1) /\ 0 \in 0..(WordMod - 1)
  BY WrapsAround, InputAssumption
<1>. QED BY <1>1 DEF Start, Positions

\* The position a successful read moves to is a position in the buffer.
LEMMA AfterReadStaysInside ==
  ASSUME buf \in Seq(Bytes), NEW p \in Positions, p.index <= Len(buf), NEW c
  PROVE  /\ AfterRead(p, Read(p), c) \in Positions
         /\ AfterRead(p, Read(p), c).index <= Len(buf)
<1> DEFINE r == Read(p)
<1>1. /\ r.consumed \in Nat
      /\ r.status = "CR_OK" => p.index + r.consumed <= Len(buf)
  BY ReadStaysInside DEF Results
<1>2. /\ (p.line + 1) % WordMod \in 0..(WordMod - 1)
      /\ (p.col + 1) % WordMod \in 0..(WordMod - 1)
      /\ 1 % WordMod \in 0..(WordMod - 1)
  <2>1. p.line + 1 \in Nat /\ p.col + 1 \in Nat
    BY InputAssumption DEF Positions
  <2>. QED BY <2>1, WrapsAround
<1>3. Advance(p, r.consumed, c) \in Positions
  <2> DEFINE index == p.index + r.consumed
             line  == IF p.eol THEN (p.line + 1) % WordMod ELSE p.line
             col   == IF p.eol THEN 1 % WordMod
                      ELSE IF c # "n" THEN (p.col + 1) % WordMod ELSE p.col
             eol   == c = "n"
  <2>1. index \in Nat
    BY <1>1 DEF Positions
  <2>2. line \in 0..(WordMod - 1) /\ col \in 0..(WordMod - 1)
    BY <1>2 DEF Positions
  <2>3. eol \in BOOLEAN
    OBVIOUS
  <2>4. Advance(p, r.consumed, c)
          = [p EXCEPT !.index = index, !.line = line, !.col = col, !.eol = eol]
    BY DEF Advance
  <2>. HIDE DEF index, line, col, eol
  <2>. QED BY <2>1, <2>2, <2>3, <2>4 DEF Positions
<1>4. Advance(p, r.consumed, c).index = p.index + r.consumed
  BY DEF Advance, Positions
<1>. QED BY <1>1, <1>3, <1>4 DEF AfterRead

\* cr_input_consume_char leaves the index in the buffer.
LEMMA ConsumedStaysInside ==
  ASSUME buf \in Seq(Bytes), NEW p \in Positions, p.index <= Len(buf),
         NEW a, NEW o \in Consumed(p, a)
  PROVE  /\ o.status \in Statuses
         /\ o.pos \in Positions /\ o.pos.index <= Len(buf)
         /\ o.status # "CR_OK" => o.pos = p
<1>1. Read(p).status \in Statuses /\ Peeked(p).status \in Statuses
  BY ReadStaysInside DEF Results, Statuses
<1>2. \E c : o \in {[status |-> Peeked(p).status, pos |-> p],
                    [status |-> Read(p).status,
                     pos |-> AfterRead(p, Read(p), Written(Read(p).out, c))],
                    [status |-> "CR_PARSING_ERROR", pos |-> p]}
  BY DEF Consumed
<1>3. \A c : /\ AfterRead(p, Read(p), c) \in Positions
             /\ AfterRead(p, Read(p), c).index <= Len(buf)
             /\ Read(p).status # "CR_OK" => AfterRead(p, Read(p), c) = p
  BY AfterReadStaysInside DEF AfterRead
<1>. QED BY <1>1, <1>2, <1>3 DEF Statuses

-----------------------------------------------------------------------------
(* The inductive invariant: the type and the bound of both positions. *)

IInv == TypeOK /\ IndexInBounds

LEMMA InitIInv == Init => IInv
<1> SUFFICES ASSUME Init PROVE IInv
  OBVIOUS
<1>1. Start \in Positions /\ Start.index = 0
  BY StartIsPosition
<1>2. Len(buf) \in Nat
  BY InputAssumption DEF Init
<1>. QED BY <1>1, <1>2 DEF Init, IInv, TypeOK, IndexInBounds, Idle, Statuses, Functions

\* What a step has to show of the position and of what it returns.
LEMMA CallKeepsIInv ==
  ASSUME IInv, Call,
         cur' \in Positions, cur'.index <= Len(buf),
         mark' \in Positions, mark'.index <= Len(buf),
         chr' \in Chars \cup {AnyChar},
         NEW fn \in Functions, NEW s \in Statuses, Return(fn, s, 0)
  PROVE  IInv'
<1>1. buf' = buf /\ loop' = loop
  BY DEF Call
<1>2. ret' \in [fn: Functions, status: Statuses, n: Nat]
  BY DEF Return
<1>. QED BY <1>1, <1>2 DEF IInv, TypeOK, IndexInBounds

\* Every call that returns at once preserves the invariant.
LEMMA CallsPreserve ==
  ASSUME IInv
  PROVE  /\ ReadChar => IInv'
         /\ PeekChar => IInv'
         /\ GetCurPos => IInv'
         /\ SetCurPos => IInv'
         /\ ReadByte => IInv'
         /\ \A a : ConsumeChar(a) => IInv'
         /\ \A o, off : PeekByte(o, off) => IInv'
         /\ \A o \in Origins, off \in Offsets : SeekIndex(o, off) => IInv'
<1>1. /\ buf \in Seq(Bytes) /\ Len(buf) \in Nat
      /\ cur \in Positions /\ cur.index <= Len(buf) /\ cur.index \in Nat
      /\ mark \in Positions /\ mark.index <= Len(buf)
      /\ chr \in Chars \cup {AnyChar}
  BY InputAssumption DEF IInv, TypeOK, IndexInBounds, Positions
<1>2. ASSUME ReadChar PROVE IInv'
  <2> DEFINE r == Read(cur)
             c == Written(r.out, chr)
  <2>1. c \in Chars \cup {AnyChar} /\ r.status \in Statuses
    BY <1>1, ReadStaysInside, WrittenIsChar DEF Results, Statuses
  <2>2. AfterRead(cur, r, c) \in Positions /\ AfterRead(cur, r, c).index <= Len(buf)
    BY <1>1, AfterReadStaysInside
  <2>3. Call /\ cur' = AfterRead(cur, r, c) /\ chr' = c /\ mark' = mark
        /\ Return("read_char", r.status, 0)
    BY <1>2 DEF ReadChar
  <2>. QED BY <1>1, <2>1, <2>2, <2>3, CallKeepsIInv DEF Functions
<1>3. ASSUME PeekChar PROVE IInv'
  <2>1. /\ Written(Peeked(cur).out, chr) \in Chars \cup {AnyChar}
        /\ Peeked(cur).status \in Statuses
    BY <1>1, ReadStaysInside, WrittenIsChar DEF Results, Statuses
  <2>. QED BY <1>1, <1>3, <2>1, CallKeepsIInv DEF PeekChar, Functions
<1>4. ASSUME GetCurPos PROVE IInv'
  BY <1>1, <1>4, CallKeepsIInv DEF GetCurPos, Statuses, Functions
<1>5. ASSUME SetCurPos PROVE IInv'
  BY <1>1, <1>5, CallKeepsIInv DEF SetCurPos, Statuses, Functions
<1>6. ASSUME ReadByte PROVE IInv'
  <2>1. CASE cur.eof \/ BytesLeft(cur) < 1
    BY <1>1, <1>6, <2>1, CallKeepsIInv DEF ReadByte, Statuses, Functions
  <2>2. CASE ~(cur.eof \/ BytesLeft(cur) < 1)
    <3>1. cur.index + 1 <= Len(buf)
      BY <1>1, <2>2 DEF BytesLeft
    <3>2. /\ [cur EXCEPT !.eof = TRUE] \in Positions
          /\ [cur EXCEPT !.eof = TRUE].index = cur.index
          /\ [cur EXCEPT !.index = @ + 1] \in Positions
          /\ [cur EXCEPT !.index = @ + 1].index = cur.index + 1
      <4>1. cur.index + 1 \in Nat /\ TRUE \in BOOLEAN
        BY <1>1
      <4>. QED BY <1>1, <4>1 DEF Positions
    <3>3. cur' \in {[cur EXCEPT !.eof = TRUE], [cur EXCEPT !.index = @ + 1]}
      BY <1>6, <2>2 DEF ReadByte
    <3>4. cur' \in Positions /\ cur'.index <= Len(buf)
      BY <1>1, <3>1, <3>2, <3>3
    <3>. QED BY <1>1, <1>6, <2>2, <3>4, CallKeepsIInv DEF ReadByte, Statuses, Functions
  <2>. QED BY <2>1, <2>2
<1>7. ASSUME NEW a, ConsumeChar(a) PROVE IInv'
  <2>1. PICK o \in Consumed(cur, a) : cur' = o.pos /\ Return("consume_char", o.status, 0)
    BY <1>7 DEF ConsumeChar
  <2>2. o.status \in Statuses /\ o.pos \in Positions /\ o.pos.index <= Len(buf)
    BY <1>1, ConsumedStaysInside
  <2>. QED BY <1>1, <1>7, <2>1, <2>2, CallKeepsIInv DEF ConsumeChar, Functions
<1>8. ASSUME NEW o, NEW off, PeekByte(o, off) PROVE IInv'
  BY <1>1, <1>8, CallKeepsIInv DEF PeekByte, Statuses, Functions
<1>9. ASSUME NEW o \in Origins, NEW off \in Offsets, SeekIndex(o, off) PROVE IInv'
  <2> DEFINE abs == AbsOffset(o, off)
  <2>1. abs \in Int
    BY <1>1, InputAssumption DEF AbsOffset, Origins
  <2>2. CASE abs > 0 /\ abs < Len(buf)
    <3>1. cur' = [cur EXCEPT !.index = abs + 1] /\ abs + 1 \in Nat /\ abs + 1 <= Len(buf)
      BY <1>1, <1>9, <2>1, <2>2 DEF SeekIndex
    <3>2. cur' \in Positions /\ cur'.index <= Len(buf)
      BY <1>1, <3>1 DEF Positions
    <3>. QED BY <1>1, <1>9, <2>2, <3>2, CallKeepsIInv DEF SeekIndex, Statuses, Functions
  <2>3. CASE ~(abs > 0 /\ abs < Len(buf))
    BY <1>1, <1>9, <2>3, CallKeepsIInv DEF SeekIndex, Statuses, Functions
  <2>. QED BY <2>2, <2>3
<1>. QED BY <1>2, <1>3, <1>4, <1>5, <1>6, <1>7, <1>8, <1>9

\* Entering a consuming loop preserves the invariant.
LEMMA EnterPreserves ==
  ASSUME IInv, NEW op \in {"consume_chars", "consume_white_spaces"},
         NEW limit \in Limits, NEW a \in Chars \cup {AnyChar}, Enter(op, limit, a)
  PROVE  IInv'
<1>1. limit \in Nat
  BY InputAssumption
<1>. QED BY <1>1 DEF Enter, IInv, TypeOK, IndexInBounds, Statuses

\* One iteration of a consuming loop, or its return, preserves the invariant.
LEMMA LoopPreserves ==
  ASSUME IInv, LoopStep
  PROVE  IInv'
<1>1. /\ buf \in Seq(Bytes) /\ Len(buf) \in Nat
      /\ cur \in Positions /\ cur.index <= Len(buf)
      /\ loop.n \in Nat /\ loop.status \in Statuses
      /\ loop.op \in {"none", "consume_chars", "consume_white_spaces"} /\ loop.char \in Chars \cup {AnyChar}
  BY InputAssumption DEF IInv, TypeOK, IndexInBounds
<1>2. /\ (loop.n + 1) % WordMod \in Nat
      /\ (loop.n + 1) % CounterMod \in Nat
  BY <1>1, InputAssumption
<1>3. ASSUME NEW s \in Statuses, NEW forgiven, Leave(s, forgiven),
             UNCHANGED <<buf, cur, mark, chr>>
      PROVE  IInv'
  <2>1. Idle \in [op: {"none", "consume_chars", "consume_white_spaces"},
                  n: Nat, limit: Nat, char: Chars \cup {AnyChar},
                  status: Statuses, from: Positions]
    BY StartIsPosition DEF Idle, Statuses, Functions
  <2>2. ret' \in [fn: Functions, status: Statuses, n: Nat]
    BY <1>1, <1>3 DEF Leave, Return, Statuses, Functions
  <2>. QED BY <1>3, <2>1, <2>2 DEF Leave, IInv, TypeOK, IndexInBounds
<1>4. CASE ConsumeCharsStep
  <2>1. ASSUME NEW o \in Consumed(cur, loop.char), cur' = o.pos,
               loop' = [loop EXCEPT !.n = (@ + 1) % WordMod, !.status = o.status],
               UNCHANGED <<buf, mark, chr, ret>>
        PROVE  IInv'
    <3>1. o.status \in Statuses /\ o.pos \in Positions /\ o.pos.index <= Len(buf)
      BY <1>1, ConsumedStaysInside
    <3>. QED BY <1>2, <2>1, <3>1 DEF IInv, TypeOK, IndexInBounds
  <2>. QED BY <1>1, <1>3, <1>4, <2>1 DEF ConsumeCharsStep
<1>5. CASE ConsumeWhiteSpacesStep
  <2> DEFINE pk == Peeked(cur)
             c  == Written(pk.out, loop.char)
             r  == Read(cur)
             d  == Written(r.out, c)
  <2>1. /\ pk.status \in Statuses /\ r.status \in Statuses
        /\ d \in Chars \cup {AnyChar}
    BY <1>1, ReadStaysInside, WrittenIsChar DEF Results, Statuses
  <2>2. AfterRead(cur, r, d) \in Positions /\ AfterRead(cur, r, d).index <= Len(buf)
    BY <1>1, AfterReadStaysInside
  <2>3. ASSUME cur' = AfterRead(cur, r, d),
               loop' = [loop EXCEPT !.n = (@ + 1) % CounterMod, !.char = d],
               UNCHANGED <<buf, mark, chr, ret>>
        PROVE  IInv'
    BY <1>2, <2>1, <2>2, <2>3 DEF IInv, TypeOK, IndexInBounds
  <2>4. ASSUME NEW s \in {loop.status, pk.status, r.status}, NEW forgiven,
               Leave(s, forgiven), UNCHANGED <<buf, cur, mark, chr>>
        PROVE  IInv'
    BY <1>1, <1>3, <2>1, <2>4
  <2>5. \/ /\ cur' = AfterRead(cur, r, d)
           /\ loop' = [loop EXCEPT !.n = (@ + 1) % CounterMod, !.char = d]
           /\ UNCHANGED <<buf, mark, chr, ret>>
        \/ /\ \E s \in {loop.status, pk.status, r.status} :
                 Leave(s, {"CR_END_OF_INPUT_ERROR"})
           /\ UNCHANGED <<buf, cur, mark, chr>>
    BY <1>5 DEF ConsumeWhiteSpacesStep
  <2>. QED BY <2>3, <2>4, <2>5
<1>. QED BY <1>4, <1>5 DEF LoopStep

LEMMA NextIInv == IInv /\ [Next]_vars => IInv'
<1> SUFFICES ASSUME IInv, [Next]_vars PROVE IInv'
  OBVIOUS
<1>1. CASE CharNext
  <2>1. Wanted \subseteq Chars \cup {AnyChar} /\ AnyChar \in Chars \cup {AnyChar}
    BY InputAssumption
  <2>. QED BY <1>1, <2>1, CallsPreserve, EnterPreserves, LoopPreserves DEF CharNext
<1>2. CASE ByteNext
  BY <1>2, CallsPreserve DEF ByteNext
<1>3. CASE UNCHANGED vars
  BY <1>3 DEF vars, IInv, TypeOK, IndexInBounds
<1>. QED BY <1>1, <1>2, <1>3 DEF Next

\* Every field of a position keeps its type, on every buffer.
THEOREM TypeCorrect == Spec => []TypeOK
<1>1. IInv => TypeOK
  BY DEF IInv
<1>. QED BY <1>1, InitIInv, NextIInv, PTL DEF Spec

\* No call takes the index past the buffer, well formed or not.
THEOREM IndexStaysInBounds == Spec => []IndexInBounds
<1>1. IInv => IndexInBounds
  BY DEF IInv
<1>. QED BY <1>1, InitIInv, NextIInv, PTL DEF Spec

-----------------------------------------------------------------------------
(* Peeking announces reading. *)

\* While the last call was a peek, the caller holds what a peek still finds.
PeekHolds == ~Running /\ ret.fn = "peek_char"
                => /\ ret.status = Peeked(cur).status
                   /\ chr = Written(Peeked(cur).out, chr)

PInv == IInv /\ PeekHolds

\* The two end-of-input tests, one on the flag and one on the index, agree.
LEMMA PeekIsRead ==
  ASSUME IInv
  PROVE  Read(cur) = Peeked(cur)
<1>1. cur.index \in Nat /\ Len(buf) \in Nat /\ cur.index <= Len(buf)
      /\ cur.eof \in BOOLEAN
  BY InputAssumption DEF IInv, TypeOK, IndexInBounds, Positions
<1>2. cur.eof \/ cur.index >= Len(buf) => BytesLeft(cur) < 1
  BY <1>1 DEF BytesLeft
<1>. QED BY <1>2 DEF Read, Peeked

\* An iteration of a loop returns nothing; its last step returns its own name.
LEMMA LoopStepReturns ==
  ASSUME IInv, LoopStep
  PROVE  /\ loop.op \in {"consume_chars", "consume_white_spaces"}
         /\ \/ ret' = ret /\ loop'.op = loop.op
            \/ ret'.fn = loop.op
<1>1. loop \in [op: {"none", "consume_chars", "consume_white_spaces"},
                n: Nat, limit: Nat, char: Chars \cup {AnyChar},
                status: Statuses, from: Positions]
  BY DEF IInv, TypeOK
<1>2. ASSUME NEW s, NEW f, Leave(s, f) PROVE ret'.fn = loop.op
  BY <1>2 DEF Leave, Return
<1>3. CASE ConsumeCharsStep
  <2>1. CASE loop.status = "CR_OK" /\ loop.n < loop.limit
    <3>1. PICK o \in Consumed(cur, loop.char) :
             loop' = [loop EXCEPT !.n = (@ + 1) % WordMod, !.status = o.status]
      BY <1>3, <2>1 DEF ConsumeCharsStep
    <3>2. ret' = ret /\ loop.op = "consume_chars"
      BY <1>3, <2>1 DEF ConsumeCharsStep
    <3>. QED BY <1>1, <3>1, <3>2
  <2>2. CASE ~(loop.status = "CR_OK" /\ loop.n < loop.limit)
    BY <1>2, <1>3, <2>2 DEF ConsumeCharsStep
  <2>. QED BY <2>1, <2>2
<1>4. CASE ConsumeWhiteSpacesStep
  <2>1. \/ ret' = ret /\ \E d : loop' = [loop EXCEPT !.n = (@ + 1) % CounterMod, !.char = d]
        \/ \E s, f : Leave(s, f)
    BY <1>4 DEF ConsumeWhiteSpacesStep
  <2>2. loop.op = "consume_white_spaces"
    BY <1>4 DEF ConsumeWhiteSpacesStep
  <2>. QED BY <1>1, <1>2, <2>1, <2>2
<1>. QED BY <1>3, <1>4 DEF LoopStep

LEMMA NextPInv == PInv /\ [Next]_vars => PInv'
<1> SUFFICES ASSUME PInv, [Next]_vars PROVE PInv'
  OBVIOUS
<1>1. IInv'
  BY NextIInv DEF PInv
<1>2. CASE PeekChar
  <2>1. Peeked(cur)' = Peeked(cur)
    BY <1>2 DEF PeekChar, Call, Peeked, BytesLeft, Decode
  <2>2. ret'.status = Peeked(cur).status /\ chr' = Written(Peeked(cur).out, chr)
    BY <1>2 DEF PeekChar, Return
  <2>3. chr' = Written(Peeked(cur).out, chr')
    BY <2>2 DEF Written
  <2>. QED BY <1>1, <2>1, <2>2, <2>3 DEF PInv, PeekHolds, Written
<1>3. CASE UNCHANGED vars
  <2>1. Peeked(cur)' = Peeked(cur)
    BY <1>3 DEF vars, Peeked, BytesLeft, Decode
  <2>. QED BY <1>1, <1>3, <2>1 DEF vars, PInv, PeekHolds, Running, Written
<1>4. ASSUME ret'.fn # "peek_char" \/ Running' PROVE PInv'
  BY <1>1, <1>4 DEF PInv, PeekHolds
<1>6. CASE ReadChar \/ GetCurPos \/ SetCurPos \/ ReadByte
           \/ \E a : ConsumeChar(a) \/ \E o, off : PeekByte(o, off) \/ SeekIndex(o, off)
  <2>1. ret'.fn # "peek_char"
    BY <1>6 DEF ReadChar, GetCurPos, SetCurPos, ReadByte, ConsumeChar, PeekByte,
                SeekIndex, Return
  <2>. QED BY <1>4, <2>1
<1>7. ASSUME NEW op \in {"consume_chars", "consume_white_spaces"},
             NEW n, NEW a, Enter(op, n, a)
      PROVE  PInv'
  BY <1>4, <1>7 DEF Enter, Running
<1>8. CASE LoopStep
  BY <1>4, <1>8, LoopStepReturns DEF Running, PInv
<1>. QED BY <1>2, <1>3, <1>6, <1>7, <1>8 DEF Next, CharNext, ByteNext

\* A character that was peeked is the character the next read returns, and a
\* peek that failed is a read that fails the same way.
THEOREM PeekAnnouncesRead == Spec => PeekPredictsRead
<1>1. Init => PInv
  BY InitIInv DEF Init, PInv, PeekHolds
<1>2. PInv /\ [Next]_vars =>
         [ret.fn = "peek_char" /\ ret'.fn = "read_char"
             => ret'.status = ret.status /\ chr' = chr]_vars
  <2> SUFFICES ASSUME PInv, Next, ret.fn = "peek_char", ret'.fn = "read_char"
               PROVE  ret'.status = ret.status /\ chr' = chr
    BY DEF vars
  <2>1. ReadChar
    <3>1. ~LoopStep
      BY LoopStepReturns DEF PInv
    <3>2. ASSUME NEW op, NEW n, NEW a, Enter(op, n, a) PROVE FALSE
      BY <3>2 DEF Enter
    <3>3. /\ ~PeekChar /\ ~GetCurPos /\ ~SetCurPos /\ ~ReadByte
          /\ \A a : ~ConsumeChar(a)
          /\ \A o, off : ~PeekByte(o, off) /\ ~SeekIndex(o, off)
      BY DEF PeekChar, GetCurPos, SetCurPos, ReadByte, ConsumeChar, PeekByte,
             SeekIndex, Return
    <3>. QED BY <3>1, <3>2, <3>3 DEF Next, CharNext, ByteNext
  <2>2. ~Running /\ ret'.status = Read(cur).status /\ chr' = Written(Read(cur).out, chr)
    BY <2>1 DEF ReadChar, Call, Return
  <2>. QED BY <2>2, PeekIsRead DEF PInv, PeekHolds
<1>. QED BY <1>1, <1>2, NextPInv, PTL DEF Spec, PeekPredictsRead

-----------------------------------------------------------------------------
(* A call that fails moves nothing. *)

\* A byte that opens no character and has no width: the white-space loop stands
\* before it for ever, but never sees an error there.
StandsStill == /\ cur.index < Len(buf) /\ ~cur.eof
               /\ Width(buf[cur.index + 1]) = 0

\* A running loop that has counted nothing is where it was entered, and the
\* loop that counts failures too has counted one when it has met one.
LoopKeepsCount ==
    /\ loop.op = "consume_chars" =>
          /\ loop.limit < WordMod /\ loop.n <= loop.limit
          /\ loop.status \in {"CR_OK", "CR_PARSING_ERROR", "CR_END_OF_INPUT_ERROR"}
          /\ loop.status # "CR_OK" => loop.n > 0
    /\ loop.op = "consume_white_spaces" =>
          /\ loop.status = "CR_OK"
          /\ \/ StandsStill
             \/ /\ loop.from.index + loop.n <= cur.index
                /\ loop.n = 0 => cur = loop.from

MInv == IInv /\ LoopKeepsCount

\* A decoding that succeeds moves on, or stands before a byte without width.
LEMMA ReadMovesOn ==
  ASSUME IInv, NEW c, Read(cur).status = "CR_OK"
  PROVE  \/ StandsStill /\ AfterRead(cur, Read(cur), c).index = cur.index
         \/ AfterRead(cur, Read(cur), c).index > cur.index
<1> DEFINE r == Read(cur)
<1>1. /\ cur.index \in Nat /\ Len(buf) \in Nat /\ cur \in Positions
      /\ cur.index <= Len(buf) /\ cur.eof \in BOOLEAN
  BY InputAssumption DEF IInv, TypeOK, IndexInBounds, Positions
<1>2. ~cur.eof /\ BytesLeft(cur) >= 1 /\ r = Decode(cur.index, BytesLeft(cur))
  BY <1>1 DEF Read, EndOfInput, BytesLeft
<1>3. cur.index < Len(buf)
  BY <1>1, <1>2 DEF BytesLeft
<1>4. r.consumed = Width(buf[cur.index + 1]) /\ r.consumed \in Nat
  BY <1>2, WidthIsNat DEF Decode
<1>5. AfterRead(cur, r, c).index = cur.index + r.consumed
  BY <1>1 DEF AfterRead, Advance, Positions
<1>. QED BY <1>1, <1>2, <1>3, <1>4, <1>5 DEF StandsStill

\* Before a byte without width nothing fails.
LEMMA StandingStillSucceeds ==
  ASSUME IInv, StandsStill
  PROVE  Peeked(cur).status = "CR_OK" /\ Read(cur).status = "CR_OK"
<1>1. cur.index \in Nat /\ Len(buf) \in Nat /\ BytesLeft(cur) = Len(buf) - cur.index
  BY InputAssumption DEF IInv, TypeOK, Positions, StandsStill, BytesLeft
<1>2. Decode(cur.index, BytesLeft(cur)).status = "CR_OK"
  BY <1>1 DEF Decode, StandsStill
<1>3. ~(cur.index >= Len(buf)) /\ ~(BytesLeft(cur) < 1)
  BY <1>1 DEF StandsStill
<1>. QED BY <1>2, <1>3 DEF Read, Peeked, StandsStill

\* What cr_input_consume_char returns.
LEMMA ConsumedStatus ==
  ASSUME IInv, NEW a, NEW o \in Consumed(cur, a)
  PROVE  o.status \in {"CR_OK", "CR_PARSING_ERROR", "CR_END_OF_INPUT_ERROR"}
<1>1. /\ Read(cur).status \in {"CR_OK", "CR_END_OF_INPUT_ERROR"}
      /\ Peeked(cur).status \in {"CR_OK", "CR_END_OF_INPUT_ERROR"}
  BY InputAssumption, ReadStaysInside DEF IInv, TypeOK, IndexInBounds, Results
<1>2. o.status \in {Peeked(cur).status, Read(cur).status, "CR_PARSING_ERROR"}
  BY DEF Consumed
<1>. QED BY <1>1, <1>2

LEMMA InitMInv == Init => MInv
  BY InitIInv DEF Init, MInv, LoopKeepsCount, Idle

\* An iteration of cr_input_consume_chars counts up to its limit.
LEMMA CharsKeepCount ==
  ASSUME MInv, IInv', ConsumeCharsStep
  PROVE  LoopKeepsCount'
<1>1. /\ loop \in [op: {"none", "consume_chars", "consume_white_spaces"},
                   n: Nat, limit: Nat, char: Chars \cup {AnyChar},
                   status: Statuses, from: Positions]
      /\ WordMod \in Nat \ {0} /\ loop.op = "consume_chars"
      /\ loop.limit < WordMod /\ loop.n <= loop.limit
  BY InputAssumption DEF MInv, IInv, TypeOK, LoopKeepsCount, ConsumeCharsStep
<1>2. CASE loop.status = "CR_OK" /\ loop.n < loop.limit
  <2>1. PICK o \in Consumed(cur, loop.char) :
           loop' = [loop EXCEPT !.n = (@ + 1) % WordMod, !.status = o.status]
    BY <1>2 DEF ConsumeCharsStep
  <2>2. (loop.n + 1) % WordMod = loop.n + 1
    BY <1>1, <1>2
  <2>3. o.status \in {"CR_OK", "CR_PARSING_ERROR", "CR_END_OF_INPUT_ERROR"}
    BY ConsumedStatus DEF MInv
  <2>4. /\ loop'.op = "consume_chars" /\ loop'.n = loop.n + 1
        /\ loop'.limit = loop.limit /\ loop'.status = o.status
    BY <1>1, <2>1, <2>2
  <2>. QED BY <1>1, <1>2, <2>3, <2>4 DEF LoopKeepsCount
<1>3. CASE ~(loop.status = "CR_OK" /\ loop.n < loop.limit)
  <2>1. loop'.op = "none"
    <3>1. loop' = Idle
      BY <1>3 DEF ConsumeCharsStep, Leave
    <3>. QED BY <3>1 DEF Idle
  <2>. QED BY <2>1 DEF LoopKeepsCount
<1>. QED BY <1>2, <1>3

\* An iteration of cr_input_consume_white_spaces moves by as much as it counts.
LEMMA WhiteSpacesKeepCount ==
  ASSUME ShortBuffers, MInv, IInv', ConsumeWhiteSpacesStep
  PROVE  LoopKeepsCount'
<1> DEFINE pk == Peeked(cur)
           c  == Written(pk.out, loop.char)
           r  == Read(cur)
           d  == Written(r.out, c)
<1>1. /\ loop \in [op: {"none", "consume_chars", "consume_white_spaces"},
                   n: Nat, limit: Nat, char: Chars \cup {AnyChar},
                   status: Statuses, from: Positions]
      /\ buf \in Buffers /\ Len(buf) \in Nat /\ buf' = buf
      /\ cur \in Positions /\ cur.index \in Nat /\ cur.index <= Len(buf)
      /\ loop.op = "consume_white_spaces" /\ loop.status = "CR_OK"
      /\ loop.from.index \in Nat
  <2>1. /\ loop \in [op: {"none", "consume_chars", "consume_white_spaces"},
                     n: Nat, limit: Nat, char: Chars \cup {AnyChar},
                     status: Statuses, from: Positions]
        /\ buf \in Buffers /\ cur \in Positions /\ cur.index <= Len(buf)
    BY DEF MInv, IInv, TypeOK, IndexInBounds
  <2>2. buf' = buf /\ loop.op = "consume_white_spaces" /\ loop.status = "CR_OK"
    BY DEF MInv, LoopKeepsCount, ConsumeWhiteSpacesStep
  <2>3. cur.index \in Nat /\ loop.from.index \in Nat
    BY <2>1 DEF Positions
  <2>4. Len(buf) \in Nat
    BY <2>1, InputAssumption
  <2>. QED BY <2>1, <2>2, <2>3, <2>4
<1>2. CASE r.status = "CR_OK" /\ cur' = AfterRead(cur, r, d)
           /\ loop' = [loop EXCEPT !.n = (@ + 1) % CounterMod, !.char = d]
  <2>1. /\ loop'.op = "consume_white_spaces" /\ loop'.status = "CR_OK"
        /\ loop'.n = (loop.n + 1) % CounterMod /\ loop'.from = loop.from
    BY <1>1, <1>2
  <2>2. CASE StandsStill
    <3>1. r.consumed = Width(buf[cur.index + 1]) /\ ~cur.eof
      <4>1. r = Decode(cur.index, BytesLeft(cur))
        BY <1>2 DEF Read, EndOfInput
      <4>. QED BY <4>1, <2>2 DEF Decode, StandsStill
    <3>2. cur'.index = cur.index /\ cur'.eof = cur.eof
      BY <1>1, <1>2, <2>2, <3>1 DEF AfterRead, Advance, Positions, StandsStill
    <3>3. StandsStill'
      BY <1>1, <2>2, <3>2 DEF StandsStill
    <3>. QED BY <2>1, <3>3 DEF LoopKeepsCount
  <2>3. CASE ~StandsStill
    <3>1. cur'.index > cur.index
      BY <1>2, <2>3, ReadMovesOn DEF MInv
    <3>2. loop.from.index + loop.n <= cur.index
      BY <1>1, <2>3 DEF MInv, LoopKeepsCount
    <3>3. cur'.index \in Nat /\ cur'.index <= Len(buf)
      BY <1>1 DEF IInv, TypeOK, IndexInBounds, Positions
    <3>4. Len(buf) < CounterMod
      BY <1>1 DEF ShortBuffers
    <3>5. loop.n \in Nat /\ loop.from.index \in Nat /\ CounterMod \in Nat
      BY <1>1, InputAssumption
    <3>6. loop.n + 1 < CounterMod
      BY <1>1, <3>1, <3>2, <3>3, <3>4, <3>5
    <3>7. (loop.n + 1) % CounterMod = loop.n + 1
      BY <3>5, <3>6
    <3>. QED BY <1>1, <2>1, <3>1, <3>2, <3>3, <3>5, <3>7 DEF LoopKeepsCount
  <2>. QED BY <2>2, <2>3
<1>3. CASE loop' = Idle
  BY <1>3 DEF Idle, LoopKeepsCount
<1>. QED BY <1>2, <1>3 DEF ConsumeWhiteSpacesStep, Leave

LEMMA NextMInv == ShortBuffers /\ MInv /\ [Next]_vars => MInv'
<1> SUFFICES ASSUME ShortBuffers, MInv, [Next]_vars PROVE MInv'
  OBVIOUS
<1>1. IInv'
  BY NextIInv DEF MInv
<1>2. CASE LoopStep
  BY <1>1, <1>2, CharsKeepCount, WhiteSpacesKeepCount DEF LoopStep, MInv
<1>3. ASSUME NEW op, NEW n \in Limits, NEW a, Enter(op, n, a) PROVE MInv'
  <2>1. /\ loop'.op = op /\ loop'.n = 0 /\ loop'.limit = n /\ loop'.status = "CR_OK"
        /\ loop'.from = cur /\ cur' = cur
    BY <1>3 DEF Enter
  <2>2. n \in Nat /\ n < WordMod
    BY InputAssumption
  <2>3. cur.index \in Nat
    BY DEF MInv, IInv, TypeOK, Positions
  <2>. QED BY <1>1, <2>1, <2>2, <2>3 DEF MInv, LoopKeepsCount
<1>4. CASE Call
  BY <1>1, <1>4 DEF Call, Running, MInv, LoopKeepsCount, IInv, TypeOK
<1>5. CASE UNCHANGED vars
  BY <1>1, <1>5 DEF vars, MInv, LoopKeepsCount, StandsStill
<1>6. ByteNext => Call
  BY DEF ByteNext, ReadByte, PeekByte, SeekIndex
<1>7. CharNext => Call \/ LoopStep \/ \E op, a : \E n \in Limits : Enter(op, n, a)
  BY DEF CharNext, ReadChar, PeekChar, GetCurPos, SetCurPos, ConsumeChar
<1>. QED BY <1>2, <1>3, <1>4, <1>5, <1>6, <1>7 DEF Next

\* A call that returns at once and fails has moved nothing.
LEMMA FailedCallStays ==
  ASSUME IInv, Call, Next, ret'.status # "CR_OK"
  PROVE  cur' = cur
<1>1. ~Running /\ loop' = loop
  BY DEF Call
<1>2. ~LoopStep
  BY <1>1 DEF LoopStep, ConsumeCharsStep, ConsumeWhiteSpacesStep, Running
<1>3. CASE ReadChar
  BY <1>3 DEF ReadChar, Return, AfterRead
<1>4. CASE \E a : ConsumeChar(a)
  <2>1. PICK a : \E o \in Consumed(cur, a) : cur' = o.pos /\ ret'.status = o.status
    BY <1>4 DEF ConsumeChar, Return
  <2>. QED BY <2>1, ConsumedStaysInside, InputAssumption DEF IInv, TypeOK, IndexInBounds
<1>5. CASE PeekChar \/ GetCurPos \/ SetCurPos \/ ReadByte
           \/ \E o, off : PeekByte(o, off) \/ SeekIndex(o, off)
  BY <1>5 DEF PeekChar, GetCurPos, SetCurPos, ReadByte, PeekByte, SeekIndex, Return
<1>6. CASE \E op, n, a : Enter(op, n, a)
  BY <1>6 DEF Enter
<1>. QED BY <1>2, <1>3, <1>4, <1>5, <1>6 DEF Next, CharNext, ByteNext

\* A loop that fails is where it was entered.
LEMMA FailedLoopStays ==
  ASSUME MInv, LoopStep, ret' # ret, ret'.status # "CR_OK"
  PROVE  cur' = loop.from
<1>1. CASE ConsumeCharsStep
  <2>1. Leave(loop.status, {"CR_PARSING_ERROR", "CR_END_OF_INPUT_ERROR"})
    BY <1>1 DEF ConsumeCharsStep
  <2>2. loop.status # "CR_OK"
    BY <2>1 DEF Leave, Return
  <2>3. ret'.status = "CR_OK"
    BY <1>1, <2>1, <2>2 DEF Leave, Return, MInv, LoopKeepsCount, ConsumeCharsStep
  <2>. QED BY <2>3
<1>2. CASE ConsumeWhiteSpacesStep
  <2> DEFINE pk == Peeked(cur)
             r  == Read(cur)
  <2>1. /\ pk.status \in {"CR_OK", "CR_END_OF_INPUT_ERROR"} /\ r = pk
        /\ loop.n \in Nat
    BY InputAssumption, ReadStaysInside, PeekIsRead
       DEF MInv, IInv, TypeOK, IndexInBounds, Results
  <2>2. loop.status = "CR_OK" /\ cur' = cur
    BY <1>2 DEF MInv, LoopKeepsCount, ConsumeWhiteSpacesStep
  <2>3. \E s \in {loop.status, pk.status} : Leave(s, {"CR_END_OF_INPUT_ERROR"})
    BY <1>2, <2>1 DEF ConsumeWhiteSpacesStep
  <2>4. pk.status # "CR_OK" /\ loop.n = 0
    BY <2>1, <2>2, <2>3 DEF Leave, Return
  <2>5. ~StandsStill
    BY <2>4, StandingStillSucceeds DEF MInv
  <2>. QED BY <1>2, <2>2, <2>4, <2>5 DEF MInv, LoopKeepsCount, ConsumeWhiteSpacesStep
<1>. QED BY <1>1, <1>2 DEF LoopStep

\* On buffers of less than 2^32 bytes, well formed or not, a function that reports
\* an error has consumed nothing; a consuming loop that does is back where it began.
THEOREM FailuresMoveNothing == ShortBuffers => (Spec => ErrorMovesNothing)
<1>1. ASSUME ShortBuffers, MInv, Next
      PROVE  ret' # ret /\ ret'.status # "CR_OK"
                => cur' = IF Running THEN loop.from ELSE cur
  <2> SUFFICES ASSUME ret' # ret, ret'.status # "CR_OK"
               PROVE  cur' = IF Running THEN loop.from ELSE cur
    OBVIOUS
  <2>1. CASE LoopStep
    <3>1. Running
      BY <2>1 DEF LoopStep, ConsumeCharsStep, ConsumeWhiteSpacesStep, Running
    <3>. QED BY <2>1, <3>1, FailedLoopStays, <1>1
  <2>2. CASE Call
    BY <1>1, <2>2, FailedCallStays DEF Call, MInv
  <2>3. ASSUME NEW op, NEW n, NEW a, Enter(op, n, a) PROVE FALSE
    BY <2>3 DEF Enter
  <2>4. Call \/ LoopStep \/ \E op, n, a : Enter(op, n, a)
    BY <1>1 DEF Next, CharNext, ByteNext, ReadChar, PeekChar, GetCurPos, SetCurPos,
                ConsumeChar, ReadByte, PeekByte, SeekIndex
  <2>. QED BY <2>1, <2>2, <2>3, <2>4
<1>2. ShortBuffers /\ MInv /\ [Next]_vars =>
         [ret' # ret /\ ret'.status # "CR_OK"
             => cur' = IF Running THEN loop.from ELSE cur]_vars
  BY <1>1
<1>3. ShortBuffers /\ Init /\ [][Next]_vars => ErrorMovesNothing
  <2> SUFFICES ASSUME ShortBuffers
               PROVE  Init /\ [][Next]_vars => ErrorMovesNothing
    OBVIOUS
  <2>1. MInv /\ [Next]_vars => MInv'
    BY NextMInv
  <2>2. MInv /\ [Next]_vars =>
         [ret' # ret /\ ret'.status # "CR_OK"
             => cur' = IF Running THEN loop.from ELSE cur]_vars
    BY <1>2
  <2>. QED BY <2>1, <2>2, InitMInv, PTL DEF ErrorMovesNothing
<1>. QED BY <1>3 DEF Spec

-----------------------------------------------------------------------------
(* The characters of a buffer. *)

LEMMA CharsUpToIs ==
  ASSUME NEW b \in Seq(Bytes)
  PROVE  /\ CharsUpTo(b) \in [0..Len(b) -> Seq(Bytes)]
         /\ CharsUpTo(b)[0] = <<>>
         /\ \A k \in 1..Len(b) :
               CharsUpTo(b)[k] = IF b[k] = "K" THEN CharsUpTo(b)[k - 1]
                                 ELSE Append(CharsUpTo(b)[k - 1], b[k])
<1> DEFINE n == Len(b)
           V == Seq(Bytes)
           One(v, i) == IF b[i] = "K" THEN v ELSE Append(v, b[i])
           step == [x \in (1..n) \X V |-> One(x[2], x[1])]
           Solves(f) == f = [k \in 0..n |-> IF k = 0 THEN <<>> ELSE One(f[k - 1], k)]
           chars == CHOOSE f : Solves(f)
<1>1. n \in Nat /\ <<>> \in V /\ \A i \in 1..n, v \in V : One(v, i) \in V
  OBVIOUS
<1>2. CharsUpTo(b) = chars
  BY DEF CharsUpTo
<1> HIDE DEF n, V, One
<1>3. step \in [(1..n) \X V -> V]
  BY <1>1
<1>4. PICK f : f \in Recursion(n, V, <<>>, step)
  BY <1>1, <1>3, RecursionHasSolution
<1>5. f \in [0..n -> V] /\ f[0] = <<>> /\ \A i \in 1..n : f[i] = One(f[i - 1], i)
  <2>1. f \in [0..n -> V] /\ f[0] = <<>> /\ \A i \in 1..n : f[i] = step[<<i, f[i - 1]>>]
    BY <1>4 DEF Recursion
  <2>2. \A i \in 1..n : f[i - 1] \in V
    BY <1>1, <2>1
  <2>. QED BY <2>1, <2>2
<1>6. Solves(f)
  <2>1. \A k \in 0..n : f[k] = IF k = 0 THEN <<>> ELSE One(f[k - 1], k)
    BY <1>1, <1>5
  <2>. QED BY <1>5, <2>1
<1> HIDE DEF step
<1>7. Solves(chars)
  <2> HIDE DEF Solves
  <2>. QED BY <1>6
<1> HIDE DEF chars
<1>8. /\ DOMAIN chars = 0..n /\ chars[0] = <<>>
      /\ \A i \in 1..n : chars[i] = One(chars[i - 1], i)
  BY <1>1, <1>7
<1>9. 0..n \subseteq {i \in 0..n : chars[i] \in V}
  <2> DEFINE T == {i \in 0..n : chars[i] \in V}
  <2>1. 0 \in T /\ \A i \in 0..n-1 : i \in T => i + 1 \in T
    <3>1. \A i \in 0..n-1 : i + 1 \in 1..n /\ (i + 1) - 1 = i
      BY <1>1
    <3>. QED BY <1>1, <1>8, <3>1
  <2> HIDE DEF T
  <2>2. 0..n \subseteq T
    BY <1>1, <2>1, InductionUpTo
  <2>. QED BY <2>2 DEF T
<1>10. chars \in [0..n -> V]
  <2>1. chars = [i \in 0..n |-> chars[i]]
    BY <1>7
  <2>. QED BY <1>9, <2>1
<1>. QED BY <1>2, <1>8, <1>10 DEF n, V, One

\* The characters of a part of the buffer are a prefix of those of a longer part,
\* and there are no more of them than bytes.
LEMMA CharsArePrefixes ==
  ASSUME NEW b \in Seq(Bytes), NEW i \in 0..Len(b), NEW j \in i..Len(b)
  PROVE  /\ Len(CharsUpTo(b)[i]) <= Len(CharsUpTo(b)[j])
         /\ Len(CharsUpTo(b)[j]) <= Len(CharsUpTo(b)[i]) + (j - i)
         /\ \A n \in 1..Len(CharsUpTo(b)[i]) : CharsUpTo(b)[j][n] = CharsUpTo(b)[i][n]
<1> DEFINE F == CharsUpTo(b)
           Extends(p) == /\ Len(F[i]) <= Len(F[p])
                         /\ Len(F[p]) <= Len(F[i]) + (p - i)
                         /\ \A n \in 1..Len(F[i]) : F[p][n] = F[i][n]
           d == Len(b) - i
           T == {m \in 0..d : Extends(i + m)}
<1>1. /\ F \in [0..Len(b) -> Seq(Bytes)] /\ Len(b) \in Nat /\ d \in Nat
      /\ \A k \in 1..Len(b) : F[k] = IF b[k] = "K" THEN F[k - 1] ELSE Append(F[k - 1], b[k])
  BY CharsUpToIs
<1> HIDE DEF F
<1>2. ASSUME NEW p \in i..(Len(b) - 1), Extends(p) PROVE Extends(p + 1)
  <2>1. /\ p + 1 \in 1..Len(b) /\ (p + 1) - 1 = p /\ p \in 0..Len(b)
        /\ p \in Nat /\ i \in Nat
    BY <1>1
  <2>2. /\ F[p] \in Seq(Bytes) /\ F[i] \in Seq(Bytes) /\ b[p + 1] \in Bytes
        /\ F[p + 1] = IF b[p + 1] = "K" THEN F[p] ELSE Append(F[p], b[p + 1])
    BY <1>1, <2>1
  <2>3. /\ Len(F[p]) <= Len(F[p + 1]) /\ Len(F[p + 1]) <= Len(F[p]) + 1
        /\ \A n \in 1..Len(F[p]) : F[p + 1][n] = F[p][n]
    BY <2>2
  <2>4. Len(F[i]) \in Nat /\ Len(F[p]) \in Nat /\ Len(F[p + 1]) \in Nat
    BY <2>2
  <2>5. Len(F[i]) <= Len(F[p + 1]) /\ Len(F[p + 1]) <= Len(F[i]) + ((p + 1) - i)
    <3>1. Len(F[i]) <= Len(F[p]) /\ Len(F[p]) <= Len(F[i]) + (p - i)
      BY <1>2
    <3>2. Len(F[p]) <= Len(F[p + 1]) /\ Len(F[p + 1]) <= Len(F[p]) + 1
      BY <2>3
    <3> DEFINE x == Len(F[i])
               y == Len(F[p])
               z == Len(F[p + 1])
    <3>3. x \in Nat /\ y \in Nat /\ z \in Nat /\ x <= y /\ y <= x + (p - i) /\ y <= z /\ z <= y + 1
      BY <2>4, <3>1, <3>2
    <3>4. p \in Nat /\ i \in Nat
      BY <2>1
    <3> HIDE DEF x, y, z
    <3>5. x <= z /\ z <= x + ((p + 1) - i)
      BY <3>3, <3>4
    <3>. QED BY <3>5 DEF x, z
  <2>6. \A n \in 1..Len(F[i]) : n \in 1..Len(F[p])
    BY <1>2, <2>4
  <2>. QED BY <1>2, <2>3, <2>5, <2>6
<1>3. Extends(i)
  BY <1>1
<1> HIDE DEF Extends, d
<1>4. 0 \in T
  BY <1>1, <1>3
<1>5. ASSUME NEW m \in 0..(d - 1), m \in T PROVE m + 1 \in T
  <2>1. /\ i + m \in i..(Len(b) - 1) /\ i + (m + 1) = (i + m) + 1
        /\ m + 1 \in 0..d
    BY <1>1 DEF d
  <2>. QED BY <1>2, <1>5, <2>1
<1>6. 0..d \subseteq T
  <2> HIDE DEF T
  <2>. QED BY <1>1, <1>4, <1>5, InductionUpTo
<1>7. j - i \in 0..d /\ i + (j - i) = j
  BY <1>1 DEF d
<1>8. Extends(j)
  BY <1>6, <1>7
<1>. QED BY <1>8 DEF F, Extends

LEMMA CharsHaveWidth == \A x \in Chars : Width(x) \in 1..6
  BY DEF Chars, Ascii, Leads, Width

\* Continuation bytes add no character to the one they belong to.
LEMMA ContinuationsAddNothing ==
  ASSUME NEW b \in Seq(Bytes), NEW i \in 0..(Len(b) - 1), NEW w \in Nat \ {0},
         i + w <= Len(b), b[i + 1] # "K", \A k \in 1..(w - 1) : b[i + 1 + k] = "K"
  PROVE  CharsUpTo(b)[i + w] = Append(CharsUpTo(b)[i], b[i + 1])
<1> DEFINE F == CharsUpTo(b)
           Same(p) == F[p] = Append(F[i], b[i + 1])
           d == w - 1
           T == {m \in 0..d : Same(i + 1 + m)}
<1>1. /\ F \in [0..Len(b) -> Seq(Bytes)] /\ Len(b) \in Nat /\ d \in Nat
      /\ \A k \in 1..Len(b) : F[k] = IF b[k] = "K" THEN F[k - 1] ELSE Append(F[k - 1], b[k])
  BY CharsUpToIs
<1> HIDE DEF F
<1>2. Same(i + 1)
  <2>1. i + 1 \in 1..Len(b) /\ (i + 1) - 1 = i
    OBVIOUS
  <2>. QED BY <1>1, <2>1
<1>3. ASSUME NEW m \in 0..(d - 1), Same(i + 1 + m) PROVE Same(i + 1 + (m + 1))
  <2>1. /\ i + 1 + (m + 1) \in 1..Len(b) /\ (i + 1 + (m + 1)) - 1 = i + 1 + m
        /\ m + 1 \in 1..(w - 1)
    OBVIOUS
  <2>2. b[i + 1 + (m + 1)] = "K"
    BY <2>1
  <2>3. F[i + 1 + (m + 1)] = F[i + 1 + m]
    BY <1>1, <2>1, <2>2
  <2>. QED BY <1>3, <2>3
<1> HIDE DEF Same, d
<1>4. 0 \in T
  <2>1. i + 1 + 0 = i + 1
    OBVIOUS
  <2>. QED BY <1>1, <1>2, <2>1
<1>5. ASSUME NEW m \in 0..(d - 1), m \in T PROVE m + 1 \in T
  BY <1>1, <1>3, <1>5
<1>6. 0..d \subseteq T
  <2> HIDE DEF T
  <2>. QED BY <1>1, <1>4, <1>5, InductionUpTo
<1>7. d \in 0..d /\ i + 1 + d = i + w
  BY <1>1 DEF d
<1>8. Same(i + w)
  BY <1>6, <1>7
<1>. QED BY <1>8 DEF F, Same

-----------------------------------------------------------------------------
(* Where characters begin. *)

Boundary(b, i) == i \in 0..Len(b) /\ (i = Len(b) \/ b[i + 1] \in Chars)

LEMMA StartsAtBoundary ==
  ASSUME NEW b \in Seq(Bytes), WellFormed(b)
  PROVE  Boundary(b, 0)
<1>1. CASE Len(b) = 0
  BY <1>1 DEF Boundary
<1>2. CASE Len(b) # 0
  <2>1. 1 \in 1..Len(b) /\ b[1] \in Bytes /\ b[1] \notin Unclean
    BY <1>2 DEF WellFormed
  <2>2. b[1] # "K"
    BY <2>1 DEF WellFormed
  <2>. QED BY <2>1, <2>2 DEF Boundary, Bytes, Chars
<1>. QED BY <1>1, <1>2

\* A character is followed by another or by the end.
LEMMA NextBoundary ==
  ASSUME NEW b \in Seq(Bytes), WellFormed(b), NEW i \in 0..(Len(b) - 1), b[i + 1] \in Chars
  PROVE  /\ Boundary(b, i + Width(b[i + 1]))
         /\ \A k \in 1..(Width(b[i + 1]) - 1) : b[i + 1 + k] = "K"
<1> DEFINE w == Width(b[i + 1])
<1>1. w \in 1..6 /\ i + 1 \in 1..Len(b)
  BY CharsHaveWidth
<1>2. i + 1 + w - 1 <= Len(b) /\ \A k \in 1..(w - 1) : b[i + 1 + k] = "K"
  BY <1>1 DEF WellFormed
<1> HIDE DEF w
<1>3. ASSUME i + w # Len(b) PROVE b[i + w + 1] \in Chars
  <2>1. i + w + 1 \in 1..Len(b)
    BY <1>1, <1>2, <1>3
  <2>2. b[i + w + 1] \in Bytes /\ b[i + w + 1] \notin Unclean
    BY <2>1 DEF WellFormed
  <2>3. ASSUME b[i + w + 1] = "K" PROVE FALSE
    <3> DEFINE q == i + w + 1
    <3>1. q \in 1..Len(b) /\ b[q] = "K" /\ q = i + w + 1 /\ Len(b) \in Nat
      BY <2>1, <2>3
    <3> HIDE DEF q
    <3>2. PICK j \in 1..(q - 1) : b[j] \in Chars /\ j + Width(b[j]) > q
      BY <3>1 DEF WellFormed
    <3>6. j \in 1..Len(b) /\ Width(b[j]) \in 1..6 /\ j < q
      BY <3>1, <3>2, CharsHaveWidth
    <3>3. CASE j > i + 1
      <4>1. j - (i + 1) \in 1..(w - 1) /\ i + 1 + (j - (i + 1)) = j
        BY <1>1, <3>1, <3>3, <3>6
      <4>2. b[j] = "K"
        BY <1>2, <4>1
      <4>. QED BY <3>2, <4>1, <4>2 DEF Chars, Ascii, Leads
    <3>4. CASE j = i + 1
      BY <1>1, <3>1, <3>2, <3>4 DEF w
    <3>5. CASE j < i + 1
      <4>1. i + 1 - j \in 1..(Width(b[j]) - 1) /\ j + (i + 1 - j) = i + 1
        BY <1>1, <3>1, <3>2, <3>5, <3>6
      <4>2. b[j + (i + 1 - j)] = "K"
        BY <3>2, <3>6, <4>1 DEF WellFormed
      <4>. QED BY <4>1, <4>2 DEF Chars, Ascii, Leads
    <3>. QED BY <3>3, <3>4, <3>5, <3>6
  <2>. QED BY <2>2, <2>3 DEF Bytes, Chars
<1>. QED BY <1>1, <1>2, <1>3 DEF Boundary, w

-----------------------------------------------------------------------------
(* Lines and columns. *)

\* The newlines among the first k + 1 characters are those among the first k and
\* perhaps the last one.
LEMMA NewlinesAdded ==
  ASSUME NEW t, NEW k \in Nat
  PROVE  /\ Stream!Newlines(t, k + 1) = Stream!Newlines(t, k) + (IF t[k + 1] = "n" THEN 1 ELSE 0)
         /\ Stream!Newlines(t, k) \in 0..k
<1> DEFINE nl(m) == {i \in 1..m : t[i] = "n"}
<1>1. IsFiniteSet(1..k) /\ Cardinality(1..k) = k
  BY FS_Interval
<1>2. /\ IsFiniteSet(nl(k)) /\ Cardinality(nl(k)) <= k
      /\ Cardinality(nl(k)) \in Nat
  BY <1>1, FS_Subset, FS_CardinalityType
<1>3. k + 1 \notin nl(k)
  OBVIOUS
<1>4. nl(k + 1) = IF t[k + 1] = "n" THEN nl(k) \cup {k + 1} ELSE nl(k)
  OBVIOUS
<1> HIDE DEF nl
<1>5. Cardinality(nl(k + 1)) = Cardinality(nl(k)) + (IF t[k + 1] = "n" THEN 1 ELSE 0)
  BY <1>2, <1>3, <1>4, FS_AddElement
<1>6. \A m : Stream!Newlines(t, m) = Cardinality(nl(m))
  BY DEF Stream!Newlines, nl, Stream!Cardinality, Cardinality
<1>. QED BY <1>2, <1>5, <1>6

\* The last newline among the first k characters is one of them, or there is none.
LEMMA LastNewlineIs ==
  ASSUME NEW t, NEW k \in Nat
  PROVE  /\ Stream!LastNewline(t, k) \in 0..k
         /\ t[k + 1] = "n" => Stream!LastNewline(t, k + 1) = k + 1
         /\ t[k + 1] # "n" => Stream!LastNewline(t, k + 1) = Stream!LastNewline(t, k)
<1> DEFINE nl(m) == {i \in 1..m : t[i] = "n"}
           Greatest(m) == CHOOSE i \in nl(m) : \A j \in nl(m) : j <= i
<1>1. \A m : Stream!LastNewline(t, m) = IF nl(m) = {} THEN 0 ELSE Greatest(m)
  BY DEF Stream!LastNewline
<1>2. ASSUME nl(k) # {} PROVE Greatest(k) \in 1..k
  <2> DEFINE T == {k - i : i \in nl(k)}
  <2>1. T \subseteq Nat /\ T # {}
    BY <1>2
  <2>2. PICK x \in T : \A y \in T : x <= y
    <3> HIDE DEF T
    <3>. QED BY <2>1, LeastElement
  <2>3. PICK i \in nl(k) : x = k - i
    BY <2>2
  <2>4. \A j \in nl(k) : j <= i
    <3> SUFFICES ASSUME NEW j \in nl(k) PROVE j <= i
      OBVIOUS
    <3>1. k - j \in T
      OBVIOUS
    <3>2. k - i <= k - j
      BY <2>2, <2>3, <3>1
    <3>. QED BY <3>2
  <2>5. Greatest(k) \in nl(k)
    BY <2>3, <2>4
  <2>. QED BY <2>5
<1>3. ASSUME t[k + 1] = "n" PROVE nl(k + 1) # {} /\ Greatest(k + 1) = k + 1
  <2>1. k + 1 \in nl(k + 1) /\ \A j \in nl(k + 1) : j <= k + 1
    BY <1>3
  <2>2. Greatest(k + 1) \in nl(k + 1) /\ k + 1 <= Greatest(k + 1)
    BY <2>1
  <2>. QED BY <2>1, <2>2
<1>4. ASSUME t[k + 1] # "n" PROVE nl(k + 1) = nl(k)
  BY <1>4
<1>5. t[k + 1] # "n" => Greatest(k + 1) = Greatest(k)
  <2> HIDE DEF nl
  <2>. QED BY <1>4
<1> HIDE DEF nl, Greatest
<1>. QED BY <1>1, <1>2, <1>3, <1>4, <1>5

LEMMA LocationAfter ==
  ASSUME NEW t, NEW k \in Nat \ {0}
  PROVE  LET s == Stream!LastNewline(t, k)
         IN  Stream!LocationOf(t, k + 1)
               = [line |-> 1 + Stream!Newlines(t, k), eol |-> t[k + 1] = "n",
                  col |-> IF t[k + 1] # "n" THEN (k + 1) - s
                          ELSE IF s = k THEN 1 ELSE k - s]
<1> DEFINE q == k + 1
           s == Stream!LastNewline(t, k)
<1>1. q # 0 /\ q > 1 /\ q - 1 = k
  OBVIOUS
<1> HIDE DEF q
<1>2. CASE t[q] = "n"
  <2>1. Stream!LocationOf(t, q)
          = [line |-> 1 + Stream!Newlines(t, k), eol |-> TRUE,
             col |-> IF s = k THEN 1 ELSE k - s]
    BY <1>1, <1>2 DEF Stream!LocationOf
  <2>. QED BY <1>2, <2>1 DEF q
<1>3. CASE t[q] # "n"
  <2>1. Stream!LocationOf(t, q)
          = [line |-> 1 + Stream!Newlines(t, k), eol |-> FALSE, col |-> q - s]
    BY <1>1, <1>3 DEF Stream!LocationOf
  <2>. QED BY <1>3, <2>1 DEF q
<1>. QED BY <1>2, <1>3

\* Lines and columns of a character are those of the one before it, carried on
\* as cr_input_read_char does, and in no text greater than its place.
LEMMA LocationCarriedOn ==
  ASSUME NEW t, NEW k \in Nat
  PROVE  LET old == Stream!LocationOf(t, k)
             new == Stream!LocationOf(t, k + 1)
         IN  /\ new = [line |-> IF old.eol THEN old.line + 1 ELSE old.line,
                       col  |-> IF old.eol THEN 1
                                ELSE IF t[k + 1] # "n" THEN old.col + 1 ELSE old.col,
                       eol  |-> t[k + 1] = "n"]
             /\ new.line \in 1..(k + 1) /\ new.col \in 0..(k + 1)
<1>1. CASE k = 0
  <2>1. k + 1 = 1 /\ 1 - 1 = 0 /\ 0 + 1 = 1
    BY <1>1
  <2>2. Stream!Newlines(t, 0) = 0 /\ Stream!LastNewline(t, 0) = 0
    BY NewlinesAdded, LastNewlineIs
  <2>3. Stream!LocationOf(t, 0) = [line |-> 1, col |-> 0, eol |-> FALSE]
    BY DEF Stream!LocationOf
  <2>4. Stream!LocationOf(t, 1) = [line |-> 1, eol |-> t[1] = "n",
                                   col |-> IF t[1] # "n" THEN 1 ELSE 0]
    BY <2>1, <2>2 DEF Stream!LocationOf
  <2>. QED BY <1>1, <2>1, <2>3, <2>4
<1>2. CASE k # 0
  <2> DEFINE s == Stream!LastNewline(t, k - 1)
             s2 == Stream!LastNewline(t, k)
             l == Stream!Newlines(t, k - 1)
             l2 == Stream!Newlines(t, k)
  <2>1. k - 1 \in Nat /\ (k - 1) + 1 = k /\ (k + 1) - 1 = k /\ k + 1 # 0 /\ k + 1 > 1
    BY <1>2
  <2>2. /\ s \in 0..(k - 1)
        /\ t[k] = "n" => s2 = k
        /\ t[k] # "n" => s2 = s
    BY <2>1, LastNewlineIs
  <2>3. /\ l \in Nat
        /\ t[k] = "n" => l2 = l + 1
        /\ t[k] # "n" => l2 = l
    BY <2>1, NewlinesAdded
  <2>4. Stream!LocationOf(t, k)
          = [line |-> 1 + l, eol |-> t[k] = "n",
             col |-> IF t[k] # "n" THEN k - s
                     ELSE IF s = k - 1 /\ k > 1 THEN 1 ELSE k - 1 - s]
    BY <1>2 DEF Stream!LocationOf
  <2>5. Stream!LocationOf(t, k + 1)
          = [line |-> 1 + l2, eol |-> t[k + 1] = "n",
             col |-> IF t[k + 1] # "n" THEN (k + 1) - s2
                     ELSE IF s2 = k THEN 1 ELSE k - s2]
    BY <2>1, LocationAfter DEF s2, l2
  <2> HIDE DEF s, s2, l, l2
  <2> DEFINE old == Stream!LocationOf(t, k)
             new == Stream!LocationOf(t, k + 1)
  <2>8. /\ old.line = 1 + l /\ old.eol = (t[k] = "n")
        /\ old.col = IF t[k] # "n" THEN k - s
                     ELSE IF s = k - 1 /\ k > 1 THEN 1 ELSE k - 1 - s
    BY <2>4
  <2>9. /\ new.line = 1 + l2 /\ new.eol = (t[k + 1] = "n")
        /\ new.col = IF t[k + 1] # "n" THEN (k + 1) - s2
                     ELSE IF s2 = k THEN 1 ELSE k - s2
        /\ new = [line |-> new.line, col |-> new.col, eol |-> t[k + 1] = "n"]
    BY <2>5
  <2> HIDE DEF old, new
  <2>10. new.line = IF old.eol THEN old.line + 1 ELSE old.line
    <3>1. old.line = 1 + l /\ old.eol = (t[k] = "n") /\ new.line = 1 + l2
      BY <2>8, <2>9
    <3>2. CASE t[k] = "n"
      <4>1. old.eol = TRUE /\ l2 = l + 1 /\ l \in Nat
        BY <2>3, <3>1, <3>2
      <4>. QED BY <3>1, <4>1
    <3>3. CASE t[k] # "n"
      <4>1. old.eol = FALSE /\ l2 = l /\ l \in Nat
        BY <2>3, <3>1, <3>3
      <4>. QED BY <3>1, <4>1
    <3>. QED BY <3>2, <3>3
  <2>11. new.col = IF old.eol THEN 1 ELSE IF t[k + 1] # "n" THEN old.col + 1 ELSE old.col
    <3>1. CASE t[k] = "n"
      <4>1. s2 = k /\ (k + 1) - s2 = 1
        BY <2>2, <3>1
      <4>. QED BY <2>8, <2>9, <3>1, <4>1
    <3>2. CASE t[k] # "n"
      <4>1. s2 = s /\ s # k /\ (k + 1) - s = (k - s) + 1
        BY <2>2, <3>2
      <4>. QED BY <2>8, <2>9, <3>2, <4>1
    <3>. QED BY <3>1, <3>2
  <2>12. l2 \in 0..k /\ s2 \in 0..k
    BY NewlinesAdded, LastNewlineIs DEF l2, s2
  <2>13. new.line \in 1..(k + 1) /\ new.col \in 0..(k + 1)
    BY <2>9, <2>12
  <2>. QED BY <2>9, <2>10, <2>11, <2>13 DEF old, new
<1>. QED BY <1>1, <1>2

-----------------------------------------------------------------------------
(* Reading well-formed text. *)

\* How many characters are before a position.
Place(b, p) == Len(CharsUpTo(b)[p.index])

Where(p) == [line |-> p.line, col |-> p.col, eol |-> p.eol]

\* A position is before a character, or at the end, and its line and column are
\* those of the text before it.
OnText(b, p) == /\ p \in Positions /\ p.eof = FALSE
                /\ Boundary(b, p.index)
                /\ Where(p) = Stream!LocationOf(CharsOf(b), Place(b, p))

\* The characters of the buffer, and a place among them.
LEMMA TextIs ==
  ASSUME buf \in Buffers, NEW i \in 0..Len(buf)
  PROVE  /\ CharsOf(buf) \in Seq(Bytes) /\ Len(CharsOf(buf)) <= Len(buf)
         /\ CharsUpTo(buf)[i] \in Seq(Bytes) /\ Len(CharsUpTo(buf)[i]) \in 0..Len(CharsOf(buf))
         /\ i = Len(buf) => Len(CharsUpTo(buf)[i]) = Len(CharsOf(buf))
<1>1. buf \in Seq(Bytes) /\ Len(buf) \in Nat
  BY InputAssumption
<1>2. /\ CharsUpTo(buf) \in [0..Len(buf) -> Seq(Bytes)] /\ CharsUpTo(buf)[0] = <<>>
  BY <1>1, CharsUpToIs
<1>3. CharsOf(buf) = CharsUpTo(buf)[Len(buf)] /\ CharsOf(buf) \in Seq(Bytes)
  BY <1>1, <1>2 DEF CharsOf
<1>4. /\ CharsUpTo(buf)[i] \in Seq(Bytes) /\ Len(CharsUpTo(buf)[i]) \in Nat
      /\ Len(CharsUpTo(buf)[i]) <= Len(CharsOf(buf))
  <2>1. Len(buf) \in i..Len(buf)
    BY <1>1
  <2>2. Len(CharsUpTo(buf)[i]) <= Len(CharsUpTo(buf)[Len(buf)])
    BY <1>1, <2>1, CharsArePrefixes
  <2>. QED BY <1>2, <1>3, <2>2
<1>5. Len(CharsOf(buf)) <= Len(buf)
  <2>1. 0 \in 0..Len(buf) /\ Len(buf) \in 0..Len(buf)
    BY <1>1
  <2>2. Len(CharsUpTo(buf)[Len(buf)]) <= Len(CharsUpTo(buf)[0]) + (Len(buf) - 0)
    BY <1>1, <2>1, CharsArePrefixes
  <2>3. Len(CharsUpTo(buf)[0]) = 0
    BY <1>2
  <2>. QED BY <1>1, <1>3, <2>2, <2>3
<1>. QED BY <1>3, <1>4, <1>5

\* Before a character of the text, the decoder finds it and consumes its bytes.
LEMMA NextCharacter ==
  ASSUME buf \in Buffers, WellFormed(buf), NEW i \in 0..(Len(buf) - 1), buf[i + 1] \in Chars
  PROVE  LET w == Width(buf[i + 1])
             k == Len(CharsUpTo(buf)[i])
         IN  /\ Decode(i, Len(buf) - i)
                  = [status |-> "CR_OK", consumed |-> w, out |-> buf[i + 1]]
             /\ Boundary(buf, i + w) /\ i + w \in 0..Len(buf) /\ w \in 1..6
             /\ Len(CharsUpTo(buf)[i + w]) = k + 1
             /\ k + 1 <= Len(CharsOf(buf)) /\ CharsOf(buf)[k + 1] = buf[i + 1]
<1> DEFINE w == Width(buf[i + 1])
           F == CharsUpTo(buf)
           k == Len(F[i])
<1>1. buf \in Seq(Bytes) /\ Len(buf) \in Nat /\ w \in 1..6
  BY InputAssumption, CharsHaveWidth
<1>2. Boundary(buf, i + w) /\ \A j \in 1..(w - 1) : buf[i + 1 + j] = "K"
  BY <1>1, NextBoundary
<1>3. i + w \in 0..Len(buf) /\ ~(w > Len(buf) - i)
  BY <1>1, <1>2 DEF Boundary
<1>4. buf[i + 1] # "K"
  BY DEF Chars, Ascii, Leads
<1>5. F[i + w] = Append(F[i], buf[i + 1])
  <2>1. w \in Nat \ {0} /\ i + w <= Len(buf)
    BY <1>1, <1>3
  <2> HIDE DEF w
  <2>. QED BY <1>1, <1>2, <1>4, <2>1, ContinuationsAddNothing
<1>6. F[i] \in Seq(Bytes) /\ k \in Nat /\ buf[i + 1] \in Bytes
  BY <1>1, TextIs
<1>7. Len(F[i + w]) = k + 1 /\ F[i + w][k + 1] = buf[i + 1]
  BY <1>5, <1>6
<1>8. /\ Len(F[i + w]) <= Len(F[Len(buf)])
      /\ \A n \in 1..Len(F[i + w]) : F[Len(buf)][n] = F[i + w][n]
  <2>1. Len(buf) \in (i + w)..Len(buf)
    BY <1>1, <1>3
  <2>. QED BY <1>1, <1>3, <2>1, CharsArePrefixes
<1>9. k + 1 <= Len(CharsOf(buf)) /\ CharsOf(buf)[k + 1] = buf[i + 1]
  <2>1. k + 1 \in 1..Len(F[i + w])
    BY <1>6, <1>7
  <2>. QED BY <1>7, <1>8, <2>1 DEF CharsOf
<1>10. Decode(i, Len(buf) - i)
         = [status |-> "CR_OK", consumed |-> w, out |-> buf[i + 1]]
  <2> HIDE DEF w
  <2>1. \A j \in 1..(w - 1) : buf[i + 1 + j] = "K"
    BY <1>2
  <2>. QED BY <1>3, <2>1 DEF Decode, w
<1>. QED BY <1>1, <1>2, <1>3, <1>7, <1>9, <1>10

\* At the end of the text nothing is found; before it, the next character is, and
\* the position after it is one of the text again.
LEMMA ReadOnText ==
  ASSUME buf \in Buffers, WellFormed(buf), NEW p, OnText(buf, p)
  PROVE  /\ Place(buf, p) \in 0..Len(CharsOf(buf)) /\ Peeked(p) = Read(p)
         /\ Read(p).status \in {"CR_OK", "CR_END_OF_INPUT_ERROR"}
         /\ Read(p).status # "CR_OK" => Read(p) = EndOfInput /\ Place(buf, p) = Len(CharsOf(buf))
         /\ Read(p).status = "CR_OK" =>
               /\ Place(buf, p) < Len(CharsOf(buf)) /\ Read(p).out = CharsOf(buf)[Place(buf, p) + 1] /\ Read(p).out \in Chars
               /\ OnText(buf, AfterRead(p, Read(p), Read(p).out))
               /\ Place(buf, AfterRead(p, Read(p), Read(p).out)) = Place(buf, p) + 1
               /\ AfterRead(p, Read(p), Read(p).out) # p
<1>1. /\ buf \in Seq(Bytes) /\ Len(buf) \in Nat /\ p.index \in 0..Len(buf)
      /\ BytesLeft(p) = Len(buf) - p.index /\ ~p.eof /\ p \in Positions
      /\ Len(buf) < WordMod /\ WordMod \in Nat \ {0, 1}
  BY InputAssumption DEF OnText, Boundary, BytesLeft
<1>2. Place(buf, p) \in 0..Len(CharsOf(buf)) /\ (p.index = Len(buf) => Place(buf, p) = Len(CharsOf(buf)))
      /\ Len(CharsOf(buf)) <= Len(buf) /\ Len(CharsOf(buf)) \in Nat
  BY <1>1, TextIs DEF Place
<1>3. CASE p.index = Len(buf)
  <2>1. BytesLeft(p) < 1
    BY <1>1, <1>3
  <2>. QED BY <1>1, <1>2, <1>3, <2>1 DEF Read, Peeked, EndOfInput
<1>4. CASE p.index # Len(buf)
  <2> DEFINE w == Width(buf[p.index + 1])
             c == buf[p.index + 1]
             r == Read(p)
             q == AfterRead(p, r, c)
  <2>1. p.index \in 0..(Len(buf) - 1) /\ c \in Chars
    BY <1>1, <1>4 DEF OnText, Boundary
  <2>2. r = Decode(p.index, Len(buf) - p.index) /\ Peeked(p) = r
    BY <1>1, <2>1 DEF Read, Peeked
  <2>3. /\ r = [status |-> "CR_OK", consumed |-> w, out |-> c]
        /\ Boundary(buf, p.index + w) /\ p.index + w \in 0..Len(buf) /\ w \in 1..6
        /\ Len(CharsUpTo(buf)[p.index + w]) = Place(buf, p) + 1
        /\ Place(buf, p) + 1 <= Len(CharsOf(buf)) /\ CharsOf(buf)[Place(buf, p) + 1] = c
    BY <2>1, <2>2, NextCharacter DEF Place
  <2> HIDE DEF w, c
  <2>4. q = Advance(p, w, c)
    BY <2>3 DEF AfterRead
  <2>5. /\ q.index = p.index + w /\ q.eof = FALSE /\ q.eol = (c = "n")
        /\ q.line = IF p.eol THEN (p.line + 1) % WordMod ELSE p.line
        /\ q.col = IF p.eol THEN 1 % WordMod
                   ELSE IF c # "n" THEN (p.col + 1) % WordMod ELSE p.col
    BY <1>1, <2>4 DEF Advance, Positions
  <2>6. Place(buf, q) = Place(buf, p) + 1
    BY <2>3, <2>5 DEF Place
  <2>7. q \in Positions
    <3>1. p.index <= Len(buf)
      BY <1>1
    <3>. QED BY <1>1, <3>1, AfterReadStaysInside
  <2> DEFINE old == Stream!LocationOf(CharsOf(buf), Place(buf, p))
             new == Stream!LocationOf(CharsOf(buf), Place(buf, p) + 1)
  <2>8. /\ new = [line |-> IF old.eol THEN old.line + 1 ELSE old.line,
                  col  |-> IF old.eol THEN 1
                           ELSE IF c # "n" THEN old.col + 1 ELSE old.col,
                  eol  |-> c = "n"]
        /\ new.line \in 1..(Place(buf, p) + 1) /\ new.col \in 0..(Place(buf, p) + 1)
    <3>1. Place(buf, p) \in Nat
      BY <1>2
    <3>. QED BY <2>3, <3>1, LocationCarriedOn
  <2>9. old.line = p.line /\ old.col = p.col /\ old.eol = p.eol
    BY DEF OnText, Where
  <2> HIDE DEF old, new, q, r
  <2>10. /\ new.line = IF p.eol THEN p.line + 1 ELSE p.line
         /\ new.col = IF p.eol THEN 1 ELSE IF c # "n" THEN p.col + 1 ELSE p.col
         /\ new.line < WordMod /\ new.col < WordMod
    BY <1>1, <1>2, <2>3, <2>8, <2>9
  <2>11. /\ p.line \in Nat /\ p.col \in Nat /\ p.eol \in BOOLEAN
    BY <1>1 DEF Positions
  <2>12. new.line = q.line
    BY <1>1, <2>5, <2>10, <2>11
  <2>13. new.col = q.col
    <3>1. CASE p.eol
      <4>1. 1 % WordMod = 1
        BY <1>1
      <4>. QED BY <2>5, <2>10, <3>1, <4>1
    <3>2. CASE ~p.eol /\ c # "n"
      <4>1. new.col = p.col + 1 /\ q.col = (p.col + 1) % WordMod
        BY <2>5, <2>10, <3>2
      <4>2. p.col + 1 < WordMod
        BY <2>10, <4>1
      <4>3. (p.col + 1) % WordMod = p.col + 1
        BY <1>1, <2>11, <4>2
      <4>. QED BY <4>1, <4>3
    <3>3. CASE ~p.eol /\ c = "n"
      BY <2>5, <2>10, <3>3
    <3>. QED BY <3>1, <3>2, <3>3
  <2>14. Where(q) = new
    BY <2>5, <2>8, <2>12, <2>13 DEF Where
  <2>15. OnText(buf, q)
    BY <2>3, <2>5, <2>6, <2>7, <2>14 DEF OnText, new
  <2>16. q # p
    BY <1>1, <2>3, <2>5
  <2>17. Place(buf, p) < Len(CharsOf(buf))
    BY <1>2, <2>3
  <2>18. r.status = "CR_OK" /\ r.out = c /\ c = CharsOf(buf)[Place(buf, p) + 1] /\ c \in Chars
    BY <2>1, <2>3 DEF c
  <2>. QED BY <1>2, <2>2, <2>6, <2>15, <2>16, <2>17, <2>18 DEF q, r
<1>. QED BY <1>3, <1>4

\* The same of cr_input_consume_char.
LEMMA ConsumedOnText ==
  ASSUME buf \in Buffers, WellFormed(buf), NEW p, OnText(buf, p),
         NEW a, NEW o \in Consumed(p, a)
  PROVE  \/ /\ o.status = "CR_END_OF_INPUT_ERROR" /\ o.pos = p
            /\ Place(buf, p) = Len(CharsOf(buf))
         \/ /\ o.status = "CR_PARSING_ERROR" /\ o.pos = p
            /\ a # AnyChar /\ CharsOf(buf)[Place(buf, p) + 1] # a
         \/ /\ o.status = "CR_OK" /\ OnText(buf, o.pos)
            /\ Place(buf, p) < Len(CharsOf(buf)) /\ Place(buf, o.pos) = Place(buf, p) + 1
            /\ a = AnyChar \/ CharsOf(buf)[Place(buf, p) + 1] = a
<1> DEFINE r == Read(p)
           next == AfterRead(p, r, r.out)
<1>1. /\ Peeked(p) = r /\ r.status \in {"CR_OK", "CR_END_OF_INPUT_ERROR"}
      /\ r.status # "CR_OK" => r = EndOfInput /\ Place(buf, p) = Len(CharsOf(buf))
      /\ r.status = "CR_OK" =>
            /\ Place(buf, p) < Len(CharsOf(buf)) /\ r.out = CharsOf(buf)[Place(buf, p) + 1]
            /\ r.out \in Chars
            /\ OnText(buf, next) /\ Place(buf, next) = Place(buf, p) + 1
  BY ReadOnText
<1>2. r.status = "CR_OK" => \A c : Written(r.out, c) = r.out
  <2>1. "unset" \notin Chars
    BY DEF Chars, Ascii, Leads
  <2>. QED BY <1>1, <2>1 DEF Written
<1>3. PICK junk \in Chars \cup {AnyChar} :
         LET c == Written(r.out, junk)
         IN  o = CASE r.status # "CR_OK"      -> [status |-> r.status, pos |-> p]
                   [] r.status = "CR_OK" /\ (c = a \/ a = AnyChar) ->
                          [status |-> r.status,
                           pos    |-> AfterRead(p, r, Written(r.out, c))]
                   [] OTHER                   -> [status |-> "CR_PARSING_ERROR", pos |-> p]
  BY <1>1 DEF Consumed
<1>4. CASE r.status # "CR_OK"
  BY <1>1, <1>3, <1>4
<1>5. CASE r.status = "CR_OK"
  <2>1. o = IF r.out = a \/ a = AnyChar THEN [status |-> "CR_OK", pos |-> next]
            ELSE [status |-> "CR_PARSING_ERROR", pos |-> p]
    BY <1>2, <1>3, <1>5
  <2>. QED BY <1>1, <1>5, <2>1
<1>. QED BY <1>4, <1>5

-----------------------------------------------------------------------------
(* The stream of characters. *)

\* Every position that is kept is one of the text.
TInv == IInv /\ \A p \in {cur, mark, loop.from} : OnText(buf, p)

LEMMA StartOnText ==
  ASSUME buf \in Buffers, WellFormed(buf)
  PROVE  OnText(buf, Start) /\ Place(buf, Start) = 0
<1>1. buf \in Seq(Bytes)
  BY InputAssumption
<1>2. Start \in Positions /\ Start.index = 0 /\ Start.eof = FALSE
  BY StartIsPosition DEF Start
<1>3. Boundary(buf, Start.index)
  BY <1>1, <1>2, StartsAtBoundary
<1>4. Place(buf, Start) = 0
  BY <1>1, <1>2, CharsUpToIs DEF Place
<1>5. 1 % WordMod = 1
  BY InputAssumption
<1>6. Where(Start) = Stream!LocationOf(CharsOf(buf), 0)
  BY <1>5 DEF Where, Start, Stream!LocationOf
<1>. QED BY <1>2, <1>3, <1>4, <1>6 DEF OnText

LEMMA InitTInv == WellFormedBuffers /\ Init => TInv
<1> SUFFICES ASSUME WellFormedBuffers, Init PROVE TInv
  OBVIOUS
<1>1. IInv /\ buf \in Buffers /\ WellFormed(buf)
  BY InitIInv DEF Init, WellFormedBuffers
<1>. QED BY <1>1, StartOnText DEF Init, TInv, Idle

\* What a step of a caller that uses the character functions does on the stream:
\* nothing, or one of its four operations.
Stays   == UNCHANGED <<cur, mark, chr>>
Reads   == /\ Place(buf, cur) < Len(CharsOf(buf))
           /\ OnText(buf, cur') /\ Place(buf, cur') = Place(buf, cur) + 1
           /\ chr' \in {chr, CharsOf(buf)[Place(buf, cur) + 1]} /\ mark' = mark
Peeks   == /\ Place(buf, cur) < Len(CharsOf(buf))
           /\ chr' = CharsOf(buf)[Place(buf, cur) + 1] /\ UNCHANGED <<cur, mark>>
Records  == mark' = cur /\ UNCHANGED <<cur, chr>>
Restores == cur' = mark /\ UNCHANGED <<mark, chr>>

StreamStep == Stays \/ Reads \/ Peeks \/ Records \/ Restores

\* One iteration of a consuming loop reads a character or returns.
LEMMA LoopOnText ==
  ASSUME WellFormedBuffers, TInv, LoopStep
  PROVE  /\ buf' = buf /\ (Stays \/ Reads)
         /\ loop'.from = loop.from \/ loop'.from = Start
<1> DEFINE r == Read(cur)
<1>1. buf \in Buffers /\ WellFormed(buf) /\ OnText(buf, cur)
  BY DEF TInv, IInv, TypeOK, WellFormedBuffers
<1>2. loop \in [op: {"none", "consume_chars", "consume_white_spaces"},
                n: Nat, limit: Nat, char: Chars \cup {AnyChar},
                status: Statuses, from: Positions]
  BY DEF TInv, IInv, TypeOK
<1>3. Idle.from = Start
  BY DEF Idle
<1>4. CASE ConsumeCharsStep
  <2>1. CASE loop.status = "CR_OK" /\ loop.n < loop.limit
    <3>1. PICK o \in Consumed(cur, loop.char) :
             /\ cur' = o.pos
             /\ loop' = [loop EXCEPT !.n = (@ + 1) % WordMod, !.status = o.status]
      BY <1>4, <2>1 DEF ConsumeCharsStep
    <3>2. buf' = buf /\ mark' = mark /\ chr' = chr
      BY <1>4 DEF ConsumeCharsStep
    <3>3. Stays \/ Reads
      BY <1>1, <3>1, <3>2, ConsumedOnText DEF Stays, Reads
    <3>. QED BY <1>2, <3>1, <3>2, <3>3
  <2>2. CASE ~(loop.status = "CR_OK" /\ loop.n < loop.limit)
    <3>1. loop' = Idle /\ UNCHANGED <<buf, cur, mark, chr>>
      BY <1>4, <2>2 DEF ConsumeCharsStep, Leave
    <3>. QED BY <1>3, <3>1 DEF Stays
  <2>. QED BY <2>1, <2>2
<1>5. CASE ConsumeWhiteSpacesStep
  <2>1. /\ r.status = "CR_OK" =>
            /\ Place(buf, cur) < Len(CharsOf(buf)) /\ r.out \in Chars
            /\ OnText(buf, AfterRead(cur, r, r.out))
            /\ Place(buf, AfterRead(cur, r, r.out)) = Place(buf, cur) + 1
        /\ \A c : r.out \in Chars => Written(r.out, c) = r.out
    <3>1. "unset" \notin Chars
      BY DEF Chars, Ascii, Leads
    <3>. QED BY <1>1, <3>1, ReadOnText DEF Written
  <2>2. /\ buf' = buf /\ mark' = mark /\ chr' = chr
        /\ \/ /\ r.status = "CR_OK" /\ \E c : cur' = AfterRead(cur, r, Written(r.out, c))
              /\ \E n, c : loop' = [loop EXCEPT !.n = n, !.char = c]
           \/ cur' = cur /\ loop' = Idle
    BY <1>5 DEF ConsumeWhiteSpacesStep, Leave
  <2>3. CASE cur' = cur /\ loop' = Idle
    BY <1>3, <2>2, <2>3 DEF Stays
  <2>4. CASE /\ r.status = "CR_OK" /\ \E c : cur' = AfterRead(cur, r, Written(r.out, c))
             /\ \E n, c : loop' = [loop EXCEPT !.n = n, !.char = c]
    <3>1. loop'.from = loop.from
      BY <1>2, <2>4
    <3>2. cur' = AfterRead(cur, r, r.out)
      BY <2>1, <2>4
    <3>3. Reads
      BY <2>1, <2>2, <2>4, <3>2 DEF Reads
    <3>. QED BY <2>2, <3>1, <3>3
  <2>. QED BY <2>2, <2>3, <2>4
<1>. QED BY <1>4, <1>5 DEF LoopStep

LEMMA StreamSteps ==
  ASSUME WellFormedBuffers, TInv, CharNext
  PROVE  /\ buf' = buf /\ StreamStep
         /\ loop'.from \in {loop.from, cur, Start}
<1> DEFINE r == Read(cur)
<1>1. buf \in Buffers /\ WellFormed(buf) /\ OnText(buf, cur) /\ Idle.from = Start
  BY DEF TInv, IInv, TypeOK, WellFormedBuffers, Idle
<1>2. /\ Peeked(cur) = r
      /\ r.status # "CR_OK" => r = EndOfInput
      /\ r.status = "CR_OK" =>
            /\ Place(buf, cur) < Len(CharsOf(buf))
            /\ r.out = CharsOf(buf)[Place(buf, cur) + 1] /\ r.out \in Chars
            /\ OnText(buf, AfterRead(cur, r, r.out))
            /\ Place(buf, AfterRead(cur, r, r.out)) = Place(buf, cur) + 1
  BY <1>1, ReadOnText
<1>3. Written(r.out, chr) = IF r.status = "CR_OK" THEN r.out ELSE chr
  <2>1. "unset" \notin Chars /\ EndOfInput.out = "unset"
    BY DEF Chars, Ascii, Leads, EndOfInput
  <2>. QED BY <1>2, <2>1 DEF Written
<1>4. CASE ReadChar
  <2>1. CASE r.status = "CR_OK"
    BY <1>2, <1>3, <1>4, <2>1 DEF ReadChar, Call, StreamStep, Reads
  <2>2. CASE r.status # "CR_OK"
    BY <1>3, <1>4, <2>2 DEF ReadChar, Call, StreamStep, Stays, AfterRead
  <2>. QED BY <2>1, <2>2
<1>5. CASE PeekChar
  BY <1>2, <1>3, <1>5 DEF PeekChar, Call, StreamStep, Stays, Peeks
<1>6. CASE GetCurPos
  BY <1>6 DEF GetCurPos, Call, StreamStep, Records
<1>7. CASE SetCurPos
  BY <1>7 DEF SetCurPos, Call, StreamStep, Restores
<1>8. ASSUME NEW a, ConsumeChar(a)
      PROVE  buf' = buf /\ StreamStep /\ loop' = loop
  <2>1. PICK o \in Consumed(cur, a) : cur' = o.pos
    BY <1>8 DEF ConsumeChar
  <2>. QED BY <1>1, <1>8, <2>1, ConsumedOnText
           DEF ConsumeChar, Call, StreamStep, Stays, Reads
<1>9. ASSUME NEW op, NEW n, NEW a, Enter(op, n, a)
      PROVE  buf' = buf /\ StreamStep /\ loop'.from = cur
  BY <1>9 DEF Enter, StreamStep, Stays
<1>10. CASE LoopStep
  BY <1>10, LoopOnText DEF StreamStep
<1>. QED BY <1>4, <1>5, <1>6, <1>7, <1>8, <1>9, <1>10 DEF CharNext, ReadChar, PeekChar,
            GetCurPos, SetCurPos, Call

LEMMA NextTInv == WellFormedBuffers /\ TInv /\ [CharNext]_vars => TInv'
<1> SUFFICES ASSUME WellFormedBuffers, TInv, [CharNext]_vars PROVE TInv'
  OBVIOUS
<1>1. IInv'
  BY NextIInv DEF TInv, Next
<1>2. CASE CharNext
  <2>1. buf' = buf /\ StreamStep /\ loop'.from \in {loop.from, cur, Start}
    BY <1>2, StreamSteps
  <2>2. OnText(buf, Start)
    BY StartOnText DEF TInv, IInv, TypeOK, WellFormedBuffers
  <2>3. OnText(buf, cur) /\ OnText(buf, mark) /\ OnText(buf, loop.from)
    BY DEF TInv
  <2>4. OnText(buf, cur') /\ OnText(buf, mark') /\ OnText(buf, loop'.from)
    BY <2>1, <2>2, <2>3 DEF StreamStep, Stays, Reads, Peeks, Records, Restores
  <2>. QED BY <1>1, <2>1, <2>4 DEF TInv
<1>3. CASE UNCHANGED vars
  BY <1>1, <1>3 DEF vars, TInv
<1>. QED BY <1>2, <1>3

\* Every step is one of the stream or changes nothing a caller of the stream sees.
LEMMA StreamStepOrStutter ==
  ASSUME WellFormedBuffers, TInv, TInv', [CharNext]_vars
  PROVE  [Stream!Next]_(Stream!streamVars)
<1>1. CASE UNCHANGED vars
  BY <1>1 DEF vars, Stream!streamVars, Text, At
<1>2. CASE CharNext
  <2>1. buf' = buf /\ StreamStep
    BY <1>2, StreamSteps
  <2>2. /\ Text = CharsOf(buf) /\ Text' = CharsOf(buf)
        /\ At(cur) = Place(buf, cur) /\ At(cur)' = Place(buf, cur')
        /\ At(mark) = Place(buf, mark) /\ At(mark)' = Place(buf, mark')
    BY <2>1 DEF Text, At, Place
  <2>3. /\ Where(cur) = Stream!LocationOf(CharsOf(buf), Place(buf, cur))
        /\ Where(mark) = Stream!LocationOf(CharsOf(buf), Place(buf, mark))
        /\ Where(cur') = Stream!LocationOf(CharsOf(buf), Place(buf, cur'))
    BY <2>1 DEF TInv, OnText
  <2>4. /\ [line |-> cur.line, col |-> cur.col, eol |-> cur.eol] = Where(cur)
        /\ [line |-> cur.line, col |-> cur.col, eol |-> cur.eol]' = Where(cur')
    BY DEF Where
  <2>5. CASE Stays
    BY <2>1, <2>2, <2>4, <2>5 DEF Stays, Stream!streamVars
  <2>6. CASE Reads
    BY <2>2, <2>3, <2>4, <2>6 DEF Reads, Stream!Next, Stream!Read, Stream!MoveTo
  <2>7. CASE Peeks
    BY <2>2, <2>4, <2>7 DEF Peeks, Stream!Next, Stream!Peek
  <2>8. CASE Records
    BY <2>2, <2>4, <2>8 DEF Records, Stream!Next, Stream!Record
  <2>9. CASE Restores
    BY <2>2, <2>3, <2>4, <2>9 DEF Restores, Stream!Next, Stream!Restore, Stream!MoveTo
  <2>. QED BY <2>1, <2>5, <2>6, <2>7, <2>8, <2>9 DEF StreamStep
<1>. QED BY <1>1, <1>2

\* On well-formed UTF-8, and to a caller that uses the character functions, an
\* input is a cursor over characters, with a line and a column that depend on
\* nothing but the text before it.
THEOREM InputIsCharStream == WellFormedBuffers => (CharSpec => ImplementsCharStream)
<1> SUFFICES ASSUME WellFormedBuffers PROVE CharSpec => ImplementsCharStream
  OBVIOUS
<1>1. Init => Stream!Init
  <2> SUFFICES ASSUME Init PROVE Stream!Init
    OBVIOUS
  <2>1. buf \in Buffers /\ WellFormed(buf) /\ cur = Start /\ mark = Start /\ chr = AnyChar
    BY DEF Init, WellFormedBuffers
  <2>2. /\ Place(buf, Start) = 0
        /\ Where(Start) = Stream!LocationOf(CharsOf(buf), 0)
    BY <2>1, StartOnText DEF OnText
  <2>. QED BY <2>1, <2>2 DEF Stream!Init, Text, At, Place, Where
<1>2. Init => TInv
  BY InitTInv
<1>3. TInv /\ [CharNext]_vars => TInv'
  BY NextTInv
<1>4. TInv /\ TInv' /\ [CharNext]_vars => [Stream!Next]_(Stream!streamVars)
  BY StreamStepOrStutter
<1>. QED BY <1>1, <1>2, <1>3, <1>4, PTL DEF CharSpec, ImplementsCharStream, Stream!Spec

-----------------------------------------------------------------------------
(* What the consuming loops consume. *)

\* The characters between two positions are in S.
Only(b, p, q, S) == \A i \in 1..Len(CharsOf(b)) :
    Place(b, p) < i /\ i <= Place(b, q) => CharsOf(b)[i] \in S

\* The white-space loop counts what it consumes; the other one has counted one too
\* many once it has stopped, at the end or before another character.
WhiteCounted ==
    /\ loop.status = "CR_OK" /\ loop.n <= loop.limit
    /\ Place(buf, cur) = Place(buf, loop.from) + loop.n
    /\ Only(buf, loop.from, cur, White)

CharsCounted ==
    /\ loop.limit < WordMod /\ loop.n <= loop.limit
    /\ Place(buf, loop.from) <= Place(buf, cur)
    /\ Place(buf, cur) <= Place(buf, loop.from) + loop.n
    /\ IF loop.status = "CR_OK" THEN Place(buf, cur) = Place(buf, loop.from) + loop.n
       ELSE \/ Place(buf, cur) = Len(CharsOf(buf))
            \/ loop.char # AnyChar /\ CharsOf(buf)[Place(buf, cur) + 1] # loop.char
    /\ loop.char # AnyChar => Only(buf, loop.from, cur, {loop.char})

WInv == TInv /\ (loop.op = "consume_white_spaces" => WhiteCounted)
CInv == TInv /\ (loop.op = "consume_chars" => CharsCounted)

\* Where positions are.
LEMMA PlacesOnText ==
  ASSUME TInv
  PROVE  /\ Len(CharsOf(buf)) \in Nat /\ Len(CharsOf(buf)) <= Len(buf) /\ Len(buf) \in Nat
         /\ CharsOf(buf) \in Seq(Bytes)
         /\ \A p \in {cur, mark, loop.from} : Place(buf, p) \in 0..Len(CharsOf(buf))
<1>1. buf \in Buffers /\ buf \in Seq(Bytes) /\ Len(buf) \in Nat
  BY InputAssumption DEF TInv, IInv, TypeOK
<1>2. 0 \in 0..Len(buf)
  BY <1>1
<1>3. \A p \in {cur, mark, loop.from} : p.index \in 0..Len(buf)
  BY DEF TInv, OnText, Boundary
<1>. QED BY <1>1, <1>2, <1>3, TextIs DEF Place

\* One more character.
LEMMA ConsumedOneMore ==
  ASSUME TInv, NEW p, NEW q, NEW S, Only(buf, p, cur, S),
         Place(buf, q) = Place(buf, cur) + 1, CharsOf(buf)[Place(buf, cur) + 1] \in S
  PROVE  Only(buf, p, q, S)
<1>1. Place(buf, cur) \in Nat
  BY PlacesOnText
<1>2. \A i \in Nat : i <= Place(buf, cur) + 1 => i <= Place(buf, cur) \/ i = Place(buf, cur) + 1
  BY <1>1
<1>. QED BY <1>2 DEF Only

LEMMA WhiteSpacesCounted ==
  ASSUME ShortBuffers, WellFormedBuffers, WInv, ConsumeWhiteSpacesStep, loop'.op # "none"
  PROVE  loop'.op = "consume_white_spaces" /\ WhiteCounted'
<1> DEFINE r == Read(cur)
           here == Place(buf, cur)
<1>1. /\ buf \in Buffers /\ WellFormed(buf) /\ OnText(buf, cur) /\ buf' = buf /\ TInv
      /\ loop.op = "consume_white_spaces" /\ WhiteCounted
      /\ loop \in [op: {"none", "consume_chars", "consume_white_spaces"},
                   n: Nat, limit: Nat, char: Chars \cup {AnyChar},
                   status: Statuses, from: Positions]
  BY DEF WInv, TInv, IInv, TypeOK, WellFormedBuffers, ConsumeWhiteSpacesStep
<1>2. /\ Peeked(cur) = r
      /\ r.status = "CR_OK" =>
            /\ here < Len(CharsOf(buf)) /\ r.out = CharsOf(buf)[here + 1] /\ r.out \in Chars
            /\ Place(buf, AfterRead(cur, r, r.out)) = here + 1
  BY <1>1, ReadOnText
<1>3. r.out \in Chars => \A c : Written(r.out, c) = r.out
  BY DEF Written, Chars, Ascii, Leads
<1>4. /\ loop.n < loop.limit /\ r.status = "CR_OK" /\ r.out \in White
      /\ cur' = AfterRead(cur, r, r.out)
      /\ loop' = [loop EXCEPT !.n = (@ + 1) % CounterMod, !.char = r.out]
  <2>1. loop' # Idle
    BY DEF Idle
  <2>. QED BY <1>2, <1>3, <2>1 DEF ConsumeWhiteSpacesStep, Leave
<1>5. Place(buf, cur') = here + 1 /\ CharsOf(buf)[here + 1] \in White
  BY <1>2, <1>4
<1>6. /\ loop'.op = loop.op /\ loop'.limit = loop.limit /\ loop'.status = loop.status
      /\ loop'.from = loop.from /\ loop'.n = (loop.n + 1) % CounterMod
  BY <1>1, <1>4
<1>7. /\ here \in Nat /\ Place(buf, loop.from) \in Nat /\ here = Place(buf, loop.from) + loop.n
      /\ here < Len(CharsOf(buf)) /\ Len(CharsOf(buf)) <= Len(buf)
      /\ Len(CharsOf(buf)) \in Nat /\ Len(buf) \in Nat
  BY <1>1, <1>2, <1>4, PlacesOnText DEF WhiteCounted
<1>8. (loop.n + 1) % CounterMod = loop.n + 1
  <2>1. Len(buf) < CounterMod /\ CounterMod \in Nat /\ loop.n \in Nat
    BY <1>1, InputAssumption DEF ShortBuffers
  <2> HIDE DEF here
  <2>2. loop.n + 1 < CounterMod
    BY <1>7, <2>1
  <2>. QED BY <2>1, <2>2
<1>9. Only(buf, loop'.from, cur', White)
  BY <1>1, <1>5, <1>6, ConsumedOneMore DEF WhiteCounted
<1>10. Place(buf, cur') = Place(buf, loop'.from) + loop'.n /\ loop'.n <= loop'.limit
  <2>1. loop.n \in Nat /\ loop.limit \in Nat
    BY <1>1
  <2> HIDE DEF here
  <2>. QED BY <1>4, <1>5, <1>6, <1>7, <1>8, <2>1
<1>. QED BY <1>1, <1>6, <1>9, <1>10 DEF WhiteCounted

LEMMA CharactersCounted ==
  ASSUME WellFormedBuffers, CInv, ConsumeCharsStep, loop'.op # "none"
  PROVE  loop'.op = "consume_chars" /\ CharsCounted'
<1> DEFINE here == Place(buf, cur)
           start == Place(buf, loop.from)
<1>1. /\ buf \in Buffers /\ WellFormed(buf) /\ OnText(buf, cur) /\ buf' = buf /\ TInv
      /\ loop.op = "consume_chars" /\ CharsCounted
      /\ loop \in [op: {"none", "consume_chars", "consume_white_spaces"},
                   n: Nat, limit: Nat, char: Chars \cup {AnyChar},
                   status: Statuses, from: Positions]
  BY DEF CInv, TInv, IInv, TypeOK, WellFormedBuffers, ConsumeCharsStep
<1>2. loop' # Idle
  BY DEF Idle
<1>3. loop.status = "CR_OK" /\ loop.n < loop.limit
  BY <1>2 DEF ConsumeCharsStep, Leave
<1>4. PICK o \in Consumed(cur, loop.char) :
         /\ cur' = o.pos
         /\ loop' = [loop EXCEPT !.n = (@ + 1) % WordMod, !.status = o.status]
  BY <1>3 DEF ConsumeCharsStep
<1>5. /\ loop'.op = loop.op /\ loop'.limit = loop.limit /\ loop'.char = loop.char
      /\ loop'.from = loop.from /\ loop'.status = o.status
      /\ loop'.n = (loop.n + 1) % WordMod
  BY <1>1, <1>4
<1>6. /\ here \in Nat /\ start \in Nat /\ here = start + loop.n
      /\ loop.n \in Nat /\ loop.limit \in Nat /\ loop.limit < WordMod /\ WordMod \in Nat
  BY <1>1, <1>3, PlacesOnText, InputAssumption DEF CharsCounted
<1> HIDE DEF here, start
<1>7. (loop.n + 1) % WordMod = loop.n + 1
  <2>1. loop.n + 1 < WordMod
    BY <1>3, <1>6
  <2>. QED BY <1>6, <2>1
<1>8. Place(buf, loop'.from) = start
  BY <1>5 DEF start
<1>9. \/ /\ o.status = "CR_END_OF_INPUT_ERROR" /\ o.pos = cur /\ here = Len(CharsOf(buf))
      \/ /\ o.status = "CR_PARSING_ERROR" /\ o.pos = cur
         /\ loop.char # AnyChar /\ CharsOf(buf)[here + 1] # loop.char
      \/ /\ o.status = "CR_OK" /\ Place(buf, o.pos) = here + 1
         /\ loop.char = AnyChar \/ CharsOf(buf)[here + 1] = loop.char
  BY <1>1, ConsumedOnText DEF here
<1>10. CASE o.status # "CR_OK"
  <2>1. cur' = cur /\ Place(buf, cur') = here
    BY <1>4, <1>9, <1>10 DEF here
  <2>2. loop'.char # AnyChar => Only(buf, loop'.from, cur', {loop'.char})
    BY <1>1, <1>5, <2>1 DEF CharsCounted
  <2>3. /\ loop'.limit < WordMod /\ loop'.n <= loop'.limit
        /\ Place(buf, loop'.from) <= Place(buf, cur')
        /\ Place(buf, cur') <= Place(buf, loop'.from) + loop'.n
    BY <1>3, <1>5, <1>6, <1>7, <1>8, <2>1
  <2>4. /\ loop'.status # "CR_OK"
        /\ \/ Place(buf, cur') = Len(CharsOf(buf))
           \/ loop'.char # AnyChar /\ CharsOf(buf)[Place(buf, cur') + 1] # loop'.char
    BY <1>5, <1>9, <1>10, <2>1
  <2>. QED BY <1>1, <1>5, <2>2, <2>3, <2>4 DEF CharsCounted
<1>11. CASE o.status = "CR_OK"
  <2>1. Place(buf, cur') = here + 1
    BY <1>4, <1>9, <1>11
  <2>2. loop'.char # AnyChar => Only(buf, loop'.from, cur', {loop'.char})
    <3> SUFFICES ASSUME loop.char # AnyChar
                 PROVE  Only(buf, loop.from, cur', {loop.char})
      BY <1>5
    <3>1. Only(buf, loop.from, cur, {loop.char}) /\ CharsOf(buf)[here + 1] \in {loop.char}
      BY <1>1, <1>9, <1>11 DEF CharsCounted
    <3>. QED BY <1>1, <2>1, <3>1, ConsumedOneMore DEF here
  <2>3. /\ loop'.limit < WordMod /\ loop'.n <= loop'.limit
        /\ Place(buf, loop'.from) <= Place(buf, cur')
        /\ Place(buf, cur') <= Place(buf, loop'.from) + loop'.n
        /\ Place(buf, cur') = Place(buf, loop'.from) + loop'.n
    BY <1>3, <1>5, <1>6, <1>7, <1>8, <2>1
  <2>. QED BY <1>1, <1>5, <1>11, <2>2, <2>3 DEF CharsCounted
<1>. QED BY <1>10, <1>11

\* A loop that is entered has consumed nothing.
LEMMA EnteredCounted ==
  ASSUME TInv, NEW op, NEW n \in Limits, NEW a, Enter(op, n, a)
  PROVE  WhiteCounted' /\ CharsCounted'
<1>1. /\ loop' = [op |-> op, n |-> 0, limit |-> n, char |-> a, status |-> "CR_OK",
                  from |-> cur]
      /\ cur' = cur /\ buf' = buf
  BY DEF Enter
<1>2. loop'.n = 0 /\ loop'.limit = n /\ loop'.status = "CR_OK" /\ loop'.from = cur
  BY <1>1
<1>3. Place(buf, cur) \in Nat /\ n \in Nat /\ n < WordMod
  BY PlacesOnText, InputAssumption
<1>4. \A i \in Nat : ~(Place(buf, cur) < i /\ i <= Place(buf, cur))
  BY <1>3
<1>5. \A S : Only(buf, loop'.from, cur', S)
  BY <1>1, <1>2, <1>4 DEF Only
<1>6. /\ Place(buf, cur') = Place(buf, loop'.from) + loop'.n
      /\ loop'.n <= loop'.limit /\ loop'.limit < WordMod
      /\ Place(buf, loop'.from) <= Place(buf, cur')
      /\ Place(buf, cur') <= Place(buf, loop'.from) + loop'.n
  BY <1>1, <1>2, <1>3
<1>7. WhiteCounted'
  BY <1>1, <1>2, <1>5, <1>6 DEF WhiteCounted
<1>8. CharsCounted'
  BY <1>1, <1>2, <1>5, <1>6 DEF CharsCounted
<1>. QED BY <1>7, <1>8

LEMMA LoopKeepsItsName ==
  ASSUME TInv, LoopStep
  PROVE  loop'.op \in {loop.op, "none"}
<1>1. loop \in [op: {"none", "consume_chars", "consume_white_spaces"},
                n: Nat, limit: Nat, char: Chars \cup {AnyChar},
                status: Statuses, from: Positions]
  BY DEF TInv, IInv, TypeOK
<1>2. \/ loop' = Idle
      \/ \E n, c : loop' = [loop EXCEPT !.n = n, !.char = c]
      \/ \E n, s : loop' = [loop EXCEPT !.n = n, !.status = s]
  BY DEF LoopStep, ConsumeCharsStep, ConsumeWhiteSpacesStep, Leave
<1>3. CASE loop' = Idle
  BY <1>3 DEF Idle
<1>4. CASE \E n, c : loop' = [loop EXCEPT !.n = n, !.char = c]
  BY <1>1, <1>4
<1>5. CASE \E n, s : loop' = [loop EXCEPT !.n = n, !.status = s]
  BY <1>1, <1>5
<1>. QED BY <1>2, <1>3, <1>4, <1>5

LEMMA NextWInv == ShortBuffers /\ WellFormedBuffers /\ WInv /\ [CharNext]_vars => WInv'
<1> SUFFICES ASSUME ShortBuffers, WellFormedBuffers, WInv, [CharNext]_vars PROVE WInv'
  OBVIOUS
<1>1. TInv'
  BY NextTInv DEF WInv
<1>2. CASE LoopStep
  <2>1. CASE loop'.op # "consume_white_spaces"
    BY <1>1, <2>1 DEF WInv
  <2>2. CASE loop'.op = "consume_white_spaces"
    <3>1. loop'.op \in {loop.op, "none"}
      BY <1>2, LoopKeepsItsName DEF WInv
    <3>. QED BY <1>1, <1>2, <2>2, <3>1, WhiteSpacesCounted
             DEF WInv, LoopStep, ConsumeCharsStep, ConsumeWhiteSpacesStep
  <2>. QED BY <2>1, <2>2
<1>3. ASSUME NEW op, NEW n \in Limits, NEW a, Enter(op, n, a) PROVE WInv'
  BY <1>1, <1>3, EnteredCounted DEF WInv
<1>4. CASE Call
  <2>1. loop'.op = "none"
    BY <1>4 DEF Call, Running
  <2>. QED BY <1>1, <2>1 DEF WInv
<1>5. CASE UNCHANGED vars
  BY <1>1, <1>5 DEF vars, WInv, WhiteCounted, CharsCounted
<1>6. CharNext => Call \/ LoopStep \/ \E op, a : \E n \in Limits : Enter(op, n, a)
  BY DEF CharNext, ReadChar, PeekChar, GetCurPos, SetCurPos, ConsumeChar
<1>. QED BY <1>2, <1>3, <1>4, <1>5, <1>6

LEMMA NextCInv == WellFormedBuffers /\ CInv /\ [CharNext]_vars => CInv'
<1> SUFFICES ASSUME WellFormedBuffers, CInv, [CharNext]_vars PROVE CInv'
  OBVIOUS
<1>1. TInv'
  BY NextTInv DEF CInv
<1>2. CASE LoopStep
  <2>1. CASE loop'.op # "consume_chars"
    BY <1>1, <2>1 DEF CInv
  <2>2. CASE loop'.op = "consume_chars"
    <3>1. loop'.op \in {loop.op, "none"}
      BY <1>2, LoopKeepsItsName DEF CInv
    <3>. QED BY <1>1, <1>2, <2>2, <3>1, CharactersCounted
             DEF CInv, LoopStep, ConsumeCharsStep, ConsumeWhiteSpacesStep
  <2>. QED BY <2>1, <2>2
<1>3. ASSUME NEW op, NEW n \in Limits, NEW a, Enter(op, n, a) PROVE CInv'
  BY <1>1, <1>3, EnteredCounted DEF CInv
<1>4. CASE Call
  <2>1. loop'.op = "none"
    BY <1>4 DEF Call, Running
  <2>. QED BY <1>1, <2>1 DEF CInv
<1>5. CASE UNCHANGED vars
  BY <1>1, <1>5 DEF vars, CInv, WhiteCounted, CharsCounted
<1>6. CharNext => Call \/ LoopStep \/ \E op, a : \E n \in Limits : Enter(op, n, a)
  BY DEF CharNext, ReadChar, PeekChar, GetCurPos, SetCurPos, ConsumeChar
<1>. QED BY <1>2, <1>3, <1>4, <1>5, <1>6

LEMMA InitCounts == WellFormedBuffers /\ Init => WInv /\ CInv
  BY InitTInv DEF WInv, CInv, Init, Idle

\* The characters between the entry of the running loop and the cursor.
LEMMA ConsumptionIs ==
  ASSUME TInv, Place(buf, loop.from) <= Place(buf, cur)
  PROVE  /\ Len(Consumption) = Place(buf, cur) - Place(buf, loop.from)
         /\ \A S : Only(buf, loop.from, cur, S)
                      => \A i \in DOMAIN Consumption : Consumption[i] \in S
         /\ Text = CharsOf(buf) /\ At(cur) = Place(buf, cur)
<1> DEFINE t == CharsOf(buf)
           m == Place(buf, loop.from)
           n == Place(buf, cur)
<1>1. Text = t /\ At(cur) = n /\ At(loop.from) = m
  BY DEF Text, At, Place
<1>2. t \in Seq(Bytes) /\ m \in 0..Len(t) /\ n \in 0..Len(t) /\ m <= n /\ Len(t) \in Nat
  BY PlacesOnText
<1>3. Consumption = SubSeq(t, m + 1, n)
  BY <1>1 DEF Consumption
<1>4. \A S : Only(buf, loop.from, cur, S)
                <=> \A i \in 1..Len(t) : m < i /\ i <= n => t[i] \in S
  BY DEF Only
<1> HIDE DEF t, m, n
<1>5. /\ Len(SubSeq(t, m + 1, n)) = n - m
      /\ \A i \in 1..(n - m) : SubSeq(t, m + 1, n)[i] = t[m + i]
      /\ DOMAIN SubSeq(t, m + 1, n) = 1..(n - m)
  <2>1. m + 1 \in 1..(Len(t) + 1) /\ n \in m..Len(t)
    BY <1>2
  <2>. QED BY <1>2, <2>1
<1>6. \A i \in 1..(n - m) : m + i \in 1..Len(t) /\ m < m + i /\ m + i <= n
  BY <1>2
<1>7. ASSUME NEW S, Only(buf, loop.from, cur, S), NEW i \in DOMAIN Consumption
      PROVE  Consumption[i] \in S
  <2>1. i \in 1..(n - m) /\ Consumption[i] = t[m + i]
    BY <1>3, <1>5, <1>7
  <2>. QED BY <1>4, <1>6, <1>7, <2>1
<1>. QED BY <1>1, <1>3, <1>5, <1>7 DEF t, m, n

\* Only the last step of a loop leaves it.
LEMMA LeavingIsLoopStep ==
  ASSUME CharNext, NEW op, op # "none", Leaving(op)
  PROVE  LoopStep
<1>1. ~Call
  BY DEF Call, Leaving
<1>2. ASSUME NEW o, NEW n, NEW a, Enter(o, n, a) PROVE FALSE
  BY <1>2 DEF Enter, Leaving, Running
<1>3. CharNext => Call \/ LoopStep \/ \E o, n, a : Enter(o, n, a)
  BY DEF CharNext, ReadChar, PeekChar, GetCurPos, SetCurPos, ConsumeChar
<1>. QED BY <1>1, <1>2, <1>3

LEMMA WhiteSpacesLeft ==
  ASSUME WellFormedBuffers, WInv, CharNext, Leaving("consume_white_spaces")
  PROVE  /\ ret'.n = Len(Consumption)
         /\ \A i \in DOMAIN Consumption : Consumption[i] \in White
         /\ \/ ret'.n = loop.limit
            \/ At(cur) = Len(Text)
            \/ Text[At(cur) + 1] \notin White
<1> DEFINE r == Read(cur)
           here == Place(buf, cur)
<1>1. /\ buf \in Buffers /\ WellFormed(buf) /\ OnText(buf, cur) /\ TInv
      /\ loop.op = "consume_white_spaces" /\ WhiteCounted
      /\ loop.n \in Nat /\ loop.limit \in Nat
      /\ loop \in [op: {"none", "consume_chars", "consume_white_spaces"},
                   n: Nat, limit: Nat, char: Chars \cup {AnyChar},
                   status: Statuses, from: Positions]
  BY DEF WInv, TInv, IInv, TypeOK, WellFormedBuffers, Leaving
<1>2. /\ Peeked(cur) = r /\ r.status \in {"CR_OK", "CR_END_OF_INPUT_ERROR"}
      /\ r.status # "CR_OK" => here = Len(CharsOf(buf))
      /\ r.status = "CR_OK" => r.out = CharsOf(buf)[here + 1] /\ r.out \in Chars
  BY <1>1, ReadOnText
<1>3. r.out \in Chars => \A c : Written(r.out, c) = r.out
  BY DEF Written, Chars, Ascii, Leads
<1>4. ConsumeWhiteSpacesStep
  <2>1. LoopStep
    BY LeavingIsLoopStep
  <2>. QED BY <1>1, <2>1 DEF LoopStep, ConsumeCharsStep
<1>5. ret'.n = loop.n /\ (~(loop.n < loop.limit) \/ r.status # "CR_OK" \/ r.out \notin White)
  <2>1. CASE /\ loop.n < loop.limit /\ r.status = "CR_OK" /\ r.out \in White
    <3>1. \E n, c : loop' = [loop EXCEPT !.n = n, !.char = c]
      BY <1>2, <1>3, <1>4, <2>1 DEF ConsumeWhiteSpacesStep
    <3>2. loop'.op = loop.op
      BY <1>1, <3>1
    <3>. QED BY <1>1, <3>2 DEF Leaving
  <2>2. CASE ~(loop.n < loop.limit /\ r.status = "CR_OK" /\ r.out \in White)
    <3>1. \E s : Leave(s, {"CR_END_OF_INPUT_ERROR"})
      BY <1>2, <1>3, <1>4, <2>2 DEF ConsumeWhiteSpacesStep
    <3>. QED BY <2>2, <3>1 DEF Leave, Return
  <2>. QED BY <2>1, <2>2
<1>6. /\ here \in Nat /\ Place(buf, loop.from) \in Nat
      /\ here = Place(buf, loop.from) + loop.n /\ loop.n <= loop.limit
      /\ Only(buf, loop.from, cur, White)
  BY <1>1, PlacesOnText DEF WhiteCounted
<1>7. Place(buf, loop.from) <= Place(buf, cur) /\ here - Place(buf, loop.from) = loop.n
  BY <1>1, <1>6
<1>8. /\ Len(Consumption) = loop.n
      /\ \A i \in DOMAIN Consumption : Consumption[i] \in White
      /\ Text = CharsOf(buf) /\ At(cur) = here
  BY <1>1, <1>6, <1>7, ConsumptionIs
<1>9. ret'.n = loop.limit \/ At(cur) = Len(Text) \/ Text[At(cur) + 1] \notin White
  <2>1. CASE ~(loop.n < loop.limit)
    BY <1>1, <1>5, <1>6, <2>1
  <2>2. CASE r.status # "CR_OK" \/ r.out \notin White
    BY <1>2, <1>8, <2>2
  <2>. QED BY <1>5, <2>1, <2>2
<1>. QED BY <1>5, <1>8, <1>9

LEMMA CharactersLeft ==
  ASSUME CInv, CharNext, Leaving("consume_chars")
  PROVE  /\ Len(Consumption) <= loop.limit
         /\ loop.char # AnyChar =>
               \A i \in DOMAIN Consumption : Consumption[i] = loop.char
         /\ \/ Len(Consumption) = loop.limit
            \/ At(cur) = Len(Text)
            \/ loop.char # AnyChar /\ Text[At(cur) + 1] # loop.char
<1> DEFINE here == Place(buf, cur)
           start == Place(buf, loop.from)
<1>1. /\ TInv /\ loop.op = "consume_chars" /\ CharsCounted
      /\ loop.n \in Nat /\ loop.limit \in Nat
      /\ loop \in [op: {"none", "consume_chars", "consume_white_spaces"},
                   n: Nat, limit: Nat, char: Chars \cup {AnyChar},
                   status: Statuses, from: Positions]
  BY DEF CInv, TInv, IInv, TypeOK, Leaving
<1>2. ConsumeCharsStep
  <2>1. LoopStep
    BY LeavingIsLoopStep
  <2>. QED BY <1>1, <2>1 DEF LoopStep, ConsumeWhiteSpacesStep
<1>3. loop.status # "CR_OK" \/ ~(loop.n < loop.limit)
  <2> SUFFICES ASSUME loop.status = "CR_OK", loop.n < loop.limit PROVE FALSE
    OBVIOUS
  <2>1. \E n, s : loop' = [loop EXCEPT !.n = n, !.status = s]
    BY <1>2 DEF ConsumeCharsStep
  <2>2. loop'.op = loop.op
    BY <1>1, <2>1
  <2>. QED BY <1>1, <2>2 DEF Leaving
<1>4. /\ here \in Nat /\ start \in Nat /\ start <= here /\ here <= start + loop.n
      /\ loop.n <= loop.limit
      /\ loop.status = "CR_OK" => here = start + loop.n
      /\ loop.status # "CR_OK" =>
            \/ here = Len(CharsOf(buf))
            \/ loop.char # AnyChar /\ CharsOf(buf)[here + 1] # loop.char
      /\ loop.char # AnyChar => Only(buf, loop.from, cur, {loop.char})
  BY <1>1, PlacesOnText DEF CharsCounted
<1>5. /\ Len(Consumption) = here - start
      /\ loop.char # AnyChar => \A i \in DOMAIN Consumption : Consumption[i] \in {loop.char}
      /\ Text = CharsOf(buf) /\ At(cur) = here
  BY <1>1, <1>4, ConsumptionIs
<1> HIDE DEF here, start
<1>6. Len(Consumption) <= loop.limit
  BY <1>1, <1>4, <1>5
<1>7. CASE loop.status = "CR_OK"
  <2>1. Len(Consumption) = loop.limit
    BY <1>1, <1>3, <1>4, <1>5, <1>7
  <2>. QED BY <1>5, <1>6, <2>1
<1>8. CASE loop.status # "CR_OK"
  BY <1>4, <1>5, <1>6, <1>8
<1>. QED BY <1>7, <1>8

\* On well-formed buffers of less than 2^32 bytes cr_input_consume_white_spaces
\* consumes white spaces only, counts them, and stops before its limit in front of
\* something else or at the end.
THEOREM WhiteSpacesAreExact ==
    ShortBuffers /\ WellFormedBuffers => (CharSpec => WhiteSpaceRunExact)
<1> SUFFICES ASSUME ShortBuffers, WellFormedBuffers PROVE CharSpec => WhiteSpaceRunExact
  OBVIOUS
<1>1. Init => WInv
  BY InitCounts
<1>2. WInv /\ [CharNext]_vars => WInv'
  BY NextWInv
<1>3. WInv /\ [CharNext]_vars =>
        [Leaving("consume_white_spaces") =>
            /\ ret'.n = Len(Consumption)
            /\ \A i \in DOMAIN Consumption : Consumption[i] \in White
            /\ \/ ret'.n = loop.limit
               \/ At(cur) = Len(Text)
               \/ Text[At(cur) + 1] \notin White]_vars
  BY WhiteSpacesLeft
<1>. QED BY <1>1, <1>2, <1>3, PTL DEF CharSpec, WhiteSpaceRunExact

\* On well-formed buffers cr_input_consume_chars consumes a run of the character it is
\* given that is as long as its limit and the text allow.
THEOREM RunsAreMaximal == WellFormedBuffers => (CharSpec => CharRunMaximal)
<1> SUFFICES ASSUME WellFormedBuffers PROVE CharSpec => CharRunMaximal
  OBVIOUS
<1>1. Init => CInv
  BY InitCounts
<1>2. CInv /\ [CharNext]_vars => CInv'
  BY NextCInv
<1>3. CInv /\ [CharNext]_vars =>
        [Leaving("consume_chars") =>
            /\ Len(Consumption) <= loop.limit
            /\ loop.char # AnyChar =>
                  \A i \in DOMAIN Consumption : Consumption[i] = loop.char
            /\ \/ Len(Consumption) = loop.limit
               \/ At(cur) = Len(Text)
               \/ loop.char # AnyChar /\ Text[At(cur) + 1] # loop.char]_vars
  BY CharactersLeft
<1>. QED BY <1>1, <1>2, <1>3, PTL DEF CharSpec, CharRunMaximal
=============================================================================
