------------------------------ MODULE CRInput ------------------------------
(***************************************************************************)
(* CRInput (src/src/cr-input.c): the byte buffer every parser of libcroco  *)
(* reads through, with its UTF-8 decoder (cr-utils.c).  A buffer byte is   *)
(* represented by its role in UTF-8; a decoded character by its lead byte. *)
(* The two consuming loops are taken one iteration at a time, so that a    *)
(* loop that makes no progress is a behaviour of the model.                *)
(***************************************************************************)
EXTENDS Integers, Sequences

CONSTANTS Buffers,     \* the byte sequences an input may be opened on
          WordMod,     \* values of a gulong (2^64 in the code)
          CounterMod,  \* values of a guint32 (2^32 in the code)
          Offsets,     \* offsets passed to peek_byte and seek_index
          Limits,      \* counts passed to the consuming loops
          Wanted       \* characters passed to consume_char and consume_chars

Ascii   == {"a", "s", "n"}              \* a letter, a space, a newline
Leads   == {"L2", "L3", "L4", "L5", "L6"}
\* Bytes that open no character: NUL, an overlong NUL (0xC0), a value that is
\* neither a lead nor ASCII; and a continuation byte.
Unclean == {"NUL", "R2", "BAD"}
Bytes   == Ascii \cup Leads \cup Unclean \cup {"K"}
White   == {"s", "n"}
Chars   == Ascii \cup Leads
AnyChar == "0"                          \* a_char == 0 in consume_char

ASSUME InputAssumption ==
    /\ Buffers \subseteq Seq(Bytes)
    /\ WordMod \in Nat \ {0, 1} /\ CounterMod \in Nat \ {0}
    /\ \A b \in Buffers : Len(b) < WordMod      \* in_buf_size is a gulong
    /\ Offsets \subseteq Nat
    /\ Limits \subseteq 0..(WordMod - 1)
    /\ Wanted \subseteq Chars \cup {AnyChar}

\* The largest gulong: what a caller gets by passing -1 as a count.
AllOnes == WordMod - 1

VARIABLES buf,    \* in_buf
          cur,    \* the position: every mutable field of CRInputPriv
          mark,   \* a CRInputPos a caller keeps
          chr,    \* the guint32 a caller passes as out parameter
          loop,   \* locals of the consuming loop that is running, if any
          ret     \* what the last call returned

vars == <<buf, cur, mark, chr, loop, ret>>

Positions == [index: Nat, line: 0..(WordMod - 1), col: 0..(WordMod - 1),
              eol: BOOLEAN, eof: BOOLEAN]

Start == [index |-> 0, line |-> 1 % WordMod, col |-> 0, eol |-> FALSE,
          eof |-> FALSE]

\* "from" records where the loop was entered, for the properties.
Idle == [op |-> "none", n |-> 0, limit |-> 0, char |-> AnyChar,
         status |-> "CR_OK", from |-> Start]
Running == loop.op # "none"

Functions == {"none", "read_char", "peek_char", "consume_char", "read_byte",
              "peek_byte", "seek_index", "get_cur_pos", "set_cur_pos",
              "consume_chars", "consume_white_spaces"}

Statuses == {"CR_OK", "CR_PARSING_ERROR", "CR_END_OF_INPUT_ERROR",
             "CR_OUT_OF_BOUNDS_ERROR"}

-----------------------------------------------------------------------------
(* The decoder. *)

\* nb_bytes_2_decode, from the lead byte; 0 when it is no lead byte.
Width(x) == CASE x \in Ascii \cup {"NUL"} -> 1
              [] x \in {"L2", "R2"}       -> 2
              [] x = "L3"                 -> 3
              [] x = "L4"                 -> 4
              [] x = "L5"                 -> 5
              [] x = "L6"                 -> 6
              [] OTHER                    -> 0

\* The character that starts at byte i (counted from 0), left bytes before the
\* end.  "unset" stands for an a_out that is not written: the decoder returns
\* CR_OK all the same for a byte that opens no character, for a broken
\* sequence and for a code point it refuses.
Decode(i, left) ==
    LET x     == buf[i + 1]
        w     == Width(x)
        whole == \A k \in 1..(w - 1) : buf[i + 1 + k] = "K"
    IN  IF w > left
        THEN [status |-> "CR_END_OF_INPUT_ERROR", consumed |-> w, out |-> "unset"]
        ELSE [status |-> "CR_OK", consumed |-> w,
              out |-> IF x \in Chars /\ whole THEN x ELSE "unset"]

\* Mutant: an a_out that is not written is taken for a character.
WrittenAlways(out, before) == out

\* What *a_char holds after a decoding that found "out".
Written(out, before) == IF out = "unset" THEN before ELSE out

-----------------------------------------------------------------------------
(* Results of the functions that read, as operators of a position. *)

\* Mutant: the end_of_input flag is forgotten.
BytesLeftUnflagged(p) == Len(buf) - p.index

\* cr_input_get_nb_bytes_left
BytesLeft(p) == IF p.eof THEN 0 ELSE Len(buf) - p.index

EndOfInput == [status |-> "CR_END_OF_INPUT_ERROR", consumed |-> 0, out |-> "unset"]

\* cr_input_peek_char
Peeked(p) == IF p.index >= Len(buf) \/ BytesLeft(p) < 1 THEN EndOfInput
             ELSE Decode(p.index, BytesLeft(p))

\* cr_input_read_char: what it finds and, when it succeeds, the position it
\* moves to, c being what *a_char then holds.
Read(p) == IF p.eof \/ BytesLeft(p) < 1 THEN EndOfInput
           ELSE Decode(p.index, BytesLeft(p))

\* Mutant: end_of_line is never reset.
AdvanceStayingAtEol(p, consumed, c) ==
    [p EXCEPT !.index = @ + consumed,
              !.line  = IF p.eol THEN (@ + 1) % WordMod ELSE @,
              !.col   = IF p.eol THEN 1 % WordMod
                        ELSE IF c # "n" THEN (@ + 1) % WordMod ELSE @,
              !.eol   = p.eol \/ c = "n"]

Advance(p, consumed, c) ==
    [p EXCEPT !.index = @ + consumed,
              !.line  = IF p.eol THEN (@ + 1) % WordMod ELSE @,
              !.col   = IF p.eol THEN 1 % WordMod
                        ELSE IF c # "n" THEN (@ + 1) % WordMod ELSE @,
              !.eol   = (c = "n")]

\* Mutants: the position moves although nothing was decoded; it does not move past
\* a newline.
AfterReadUnchecked(p, r, c) == Advance(p, r.consumed, c)
AfterReadStuck(p, r, c) == IF r.status = "CR_OK" /\ ~p.eol THEN Advance(p, r.consumed, c)
                           ELSE p

AfterRead(p, r, c) == IF r.status = "CR_OK" THEN Advance(p, r.consumed, c) ELSE p

Return(fn, status, n) == ret' = [fn |-> fn, status |-> status, n |-> n]

-----------------------------------------------------------------------------
Init == /\ buf \in Buffers
        /\ cur = Start
        /\ mark = Start
        /\ chr = AnyChar
        /\ loop = Idle
        /\ ret = [fn |-> "none", status |-> "CR_OK", n |-> 0]

\* A caller enters a function that returns at once.
Call == ~Running /\ UNCHANGED <<buf, loop>>

ReadChar ==
    /\ Call
    /\ LET r == Read(cur)
           c == Written(r.out, chr)
       IN  /\ chr' = c
           /\ cur' = AfterRead(cur, r, c)
           /\ Return("read_char", r.status, 0)
    /\ UNCHANGED mark

PeekChar ==
    /\ Call
    /\ LET r == Peeked(cur)
       IN  /\ chr' = Written(r.out, chr)
           /\ Return("peek_char", r.status, 0)
    /\ UNCHANGED <<cur, mark>>

\* Mutant: the character is not compared with the one asked for.
ConsumedUncompared(p, a) ==
    LET r == Peeked(p)
        Outcome(c) ==
            IF r.status # "CR_OK" THEN [status |-> r.status, pos |-> p]
            ELSE [status |-> Read(p).status,
                  pos    |-> AfterRead(p, Read(p), Written(Read(p).out, c))]
    IN  {Outcome(Written(r.out, junk)) : junk \in Chars \cup {AnyChar}}

\* cr_input_consume_char, as the set of its outcomes.  The local c is not
\* initialised: a decoding that writes nothing leaves in it what the stack held.
Consumed(p, a) ==
    LET r == Peeked(p)
        Outcome(c) ==
            CASE r.status # "CR_OK"      -> [status |-> r.status, pos |-> p]
              [] r.status = "CR_OK" /\ (c = a \/ a = AnyChar) ->
                     [status |-> Read(p).status,
                      pos    |-> AfterRead(p, Read(p), Written(Read(p).out, c))]
              [] OTHER                   -> [status |-> "CR_PARSING_ERROR", pos |-> p]
    IN  {Outcome(Written(r.out, junk)) : junk \in Chars \cup {AnyChar}}

ConsumeChar(a) ==
    /\ Call
    /\ \E o \in Consumed(cur, a) : /\ cur' = o.pos
                                  /\ Return("consume_char", o.status, 0)
    /\ UNCHANGED <<mark, chr>>

\* The last byte is returned without moving past it: only the flag is set.
ReadByte ==
    /\ Call
    /\ IF cur.eof \/ BytesLeft(cur) < 1
       THEN /\ Return("read_byte", "CR_END_OF_INPUT_ERROR", 0)
            /\ UNCHANGED cur
       ELSE /\ Return("read_byte", "CR_OK", 0)
            /\ cur' = IF Len(buf) - cur.index < 2 THEN [cur EXCEPT !.eof = TRUE]
                      ELSE [cur EXCEPT !.index = @ + 1]
    /\ UNCHANGED <<mark, chr>>

\* The absolute offset of an origin and an offset; a gulong wraps in peek_byte,
\* a glong does not in seek_index.
AbsOffset(origin, off) == CASE origin = "CR_SEEK_CUR"   -> cur.index - 1 + off
                            [] origin = "CR_SEEK_BEGIN" -> off
                            [] origin = "CR_SEEK_END"   -> Len(buf) - 1 - off

Origins == {"CR_SEEK_CUR", "CR_SEEK_BEGIN", "CR_SEEK_END"}

PeekByte(origin, off) ==
    /\ Call
    /\ Return("peek_byte",
              IF AbsOffset(origin, off) % WordMod < Len(buf) THEN "CR_OK"
              ELSE "CR_END_OF_INPUT_ERROR", 0)
    /\ UNCHANGED <<cur, mark, chr>>

\* Mutant: the offset just after the buffer is accepted.
SeekIndexPastEnd(origin, off) ==
    /\ Call
    /\ LET abs == AbsOffset(origin, off)
       IN  IF abs > 0 /\ abs <= Len(buf)
           THEN /\ cur' = [cur EXCEPT !.index = abs + 1]
                /\ Return("seek_index", "CR_OK", 0)
           ELSE /\ Return("seek_index", "CR_OUT_OF_BOUNDS_ERROR", 0)
                /\ UNCHANGED cur
    /\ UNCHANGED <<mark, chr>>

\* Neither the flag nor the line and the column follow the index.
SeekIndex(origin, off) ==
    /\ Call
    /\ LET abs == AbsOffset(origin, off)
       IN  IF abs > 0 /\ abs < Len(buf)
           THEN /\ cur' = [cur EXCEPT !.index = abs + 1]
                /\ Return("seek_index", "CR_OK", 0)
           ELSE /\ Return("seek_index", "CR_OUT_OF_BOUNDS_ERROR", 0)
                /\ UNCHANGED cur
    /\ UNCHANGED <<mark, chr>>

GetCurPos == /\ Call
             /\ mark' = cur
             /\ Return("get_cur_pos", "CR_OK", 0)
             /\ UNCHANGED <<cur, chr>>

SetCurPos == /\ Call
             /\ cur' = mark
             /\ Return("set_cur_pos", "CR_OK", 0)
             /\ UNCHANGED <<mark, chr>>

-----------------------------------------------------------------------------
(* cr_input_consume_chars and cr_input_consume_white_spaces. *)

Enter(op, limit, a) ==
    /\ ~Running
    /\ loop' = [op |-> op, n |-> 0, limit |-> limit, char |-> a,
                status |-> "CR_OK", from |-> cur]
    /\ UNCHANGED <<buf, cur, mark, chr, ret>>

\* Mutant: the limit is reported as the count.
LeaveWithLimit(status, forgiven) ==
    /\ loop' = Idle
    /\ Return(loop.op,
              IF loop.n > 0 /\ status \in forgiven THEN "CR_OK" ELSE status,
              loop.limit)

\* End of input after some progress is no error.
Leave(status, forgiven) ==
    /\ loop' = Idle
    /\ Return(loop.op,
              IF loop.n > 0 /\ status \in forgiven THEN "CR_OK" ELSE status,
              loop.n)

\* The counter is incremented whatever cr_input_consume_char returned.
ConsumeCharsStep ==
    /\ loop.op = "consume_chars"
    /\ \/ /\ loop.status = "CR_OK" /\ loop.n < loop.limit
          /\ \E o \in Consumed(cur, loop.char) :
                /\ cur' = o.pos
                /\ loop' = [loop EXCEPT !.n = (@ + 1) % WordMod, !.status = o.status]
          /\ UNCHANGED ret
       \/ /\ ~(loop.status = "CR_OK" /\ loop.n < loop.limit)
          /\ Leave(loop.status, {"CR_PARSING_ERROR", "CR_END_OF_INPUT_ERROR"})
          /\ UNCHANGED cur
    /\ UNCHANGED <<buf, mark, chr>>

\* cur_char is loop.char: a peek that writes nothing leaves the one before.
\* The counter is a guint32, the limit a gulong.
ConsumeWhiteSpacesStep ==
    /\ loop.op = "consume_white_spaces"
    /\ LET p == Peeked(cur)
           c == Written(p.out, loop.char)
           r == Read(cur)
           d == Written(r.out, c)
           more == loop.n < loop.limit
       IN  \/ /\ more /\ p.status = "CR_OK" /\ c \in White /\ r.status = "CR_OK"
              /\ cur' = AfterRead(cur, r, d)
              /\ loop' = [loop EXCEPT !.n = (@ + 1) % CounterMod, !.char = d]
              /\ UNCHANGED ret
           \/ /\ ~(more /\ p.status = "CR_OK" /\ c \in White /\ r.status = "CR_OK")
              /\ Leave(CASE ~more                 -> loop.status
                         [] p.status # "CR_OK"    -> p.status
                         [] c \in White           -> r.status
                         [] OTHER                 -> p.status,
                       {"CR_END_OF_INPUT_ERROR"})
              /\ UNCHANGED cur
    /\ UNCHANGED <<buf, mark, chr>>

LoopStep == ConsumeCharsStep \/ ConsumeWhiteSpacesStep

CharNext == \/ ReadChar \/ PeekChar \/ GetCurPos \/ SetCurPos
            \/ \E a \in Wanted : ConsumeChar(a)
            \/ \E n \in Limits, a \in Wanted :
                  Enter("consume_chars", n, a)
            \/ \E n \in Limits : Enter("consume_white_spaces", n, AnyChar)
            \/ LoopStep

ByteNext == \/ ReadByte
            \/ \E o \in Origins, off \in Offsets : PeekByte(o, off) \/ SeekIndex(o, off)

Next == CharNext \/ ByteNext

Spec == Init /\ [][Next]_vars

\* Callers that only use the character functions; a loop in C runs on.
CharSpec == Init /\ [][CharNext]_vars /\ WF_vars(LoopStep)

-----------------------------------------------------------------------------
(* Properties of every caller, on every buffer. *)

\* Type invariant.
TypeOK == /\ buf \in Buffers
          /\ cur \in Positions /\ mark \in Positions
          /\ chr \in Chars \cup {AnyChar}
          /\ loop \in [op: {"none", "consume_chars", "consume_white_spaces"},
                       n: Nat, limit: Nat, char: Chars \cup {AnyChar},
                       status: Statuses, from: Positions]
          /\ ret \in [fn: Functions, status: Statuses, n: Nat]

\* No sequence of reads, peeks, seeks and restored positions takes an index past
\* the buffer: what the decoder and read_byte dereference is in it.
IndexInBounds == \A p \in {cur, mark} : p.index <= Len(buf)

\* No buffer has as many bytes as a guint32 has values.  Without this the theorem
\* is false: the counter of cr_input_consume_white_spaces is 0 again after 2^32
\* spaces, and the end of the input after them is then reported as an error.
ShortBuffers == \A b \in Buffers : Len(b) < CounterMod

\* A call that reports an error has consumed nothing: the position is the one it
\* was entered at (the loops forgive an end met after some progress).
ErrorMovesNothing ==
    [][ret' # ret /\ ret'.status # "CR_OK"
          => cur' = IF Running THEN loop.from ELSE cur]_vars

\* cr_input_peek_char announces what the next cr_input_read_char returns, after
\* any mix of byte and character reads (doc comment of cr_input_peek_char).
PeekPredictsRead ==
    [][ret.fn = "peek_char" /\ ret'.fn = "read_char"
          => ret'.status = ret.status /\ chr' = chr]_vars

============================================================================
