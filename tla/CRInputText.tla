---------------------------- MODULE CRInputText ----------------------------
(***************************************************************************)
(* A CRInput seen as a stream of characters: what its callers rely on when *)
(* the buffer holds well-formed UTF-8 and they use the character functions *)
(* (CharSpec).                                                             *)
(***************************************************************************)
EXTENDS CRInput

\* Well-formed UTF-8: every lead byte is followed by its continuation bytes and
\* every continuation byte belongs to a lead byte.
WellFormed(b) ==
    /\ \A i \in 1..Len(b) : b[i] \notin Unclean
    /\ \A i \in 1..Len(b) :
         b[i] \in Chars => /\ i + Width(b[i]) - 1 <= Len(b)
                           /\ \A k \in 1..(Width(b[i]) - 1) : b[i + k] = "K"
    /\ \A i \in 1..Len(b) :
         b[i] = "K" => \E j \in 1..(i - 1) : /\ b[j] \in Chars
                                             /\ j + Width(b[j]) > i

\* The characters that begin in the first k bytes.
CharsUpTo(b) ==
    LET chars[k \in 0..Len(b)] ==
            IF k = 0 THEN <<>>
            ELSE IF b[k] = "K" THEN chars[k - 1] ELSE Append(chars[k - 1], b[k])
    IN  chars

CharsOf(b) == CharsUpTo(b)[Len(b)]
Text  == CharsOf(buf)
At(p) == Len(CharsUpTo(buf)[p.index])

Stream == INSTANCE CharStream
             WITH Texts   <- {CharsOf(b) : b \in Buffers},
                  Newline <- "n",
                  Nothing <- AnyChar,
                  text    <- Text,
                  at      <- At(cur),
                  mark    <- At(mark),
                  where   <- [line |-> cur.line, col |-> cur.col, eol |-> cur.eol],
                  got     <- chr

-----------------------------------------------------------------------------
Leaving(op) == loop.op = op /\ loop'.op = "none"

\* The characters between the entry of the running loop and the cursor.
Consumption == SubSeq(Text, At(loop.from) + 1, At(cur))

\* cr_input_consume_white_spaces consumes white spaces only, reports how many,
\* and stops before its limit only in front of something else.
WhiteSpaceRunExact ==
    [][Leaving("consume_white_spaces") =>
          /\ ret'.n = Len(Consumption)
          /\ \A i \in DOMAIN Consumption : Consumption[i] \in White
          /\ \/ ret'.n = loop.limit
             \/ At(cur) = Len(Text)
             \/ Text[At(cur) + 1] \notin White]_vars

\* cr_input_consume_chars consumes a maximal run of the character it is given,
\* and no more of them than it is allowed.
CharRunMaximal ==
    [][Leaving("consume_chars") =>
          /\ Len(Consumption) <= loop.limit
          /\ loop.char # AnyChar =>
                \A i \in DOMAIN Consumption : Consumption[i] = loop.char
          /\ \/ Len(Consumption) = loop.limit
             \/ At(cur) = Len(Text)
             \/ loop.char # AnyChar /\ Text[At(cur) + 1] # loop.char]_vars

\* Read, peek, record and restore behave as on a stream of characters whose line
\* and column depend on the text before the cursor alone.
ImplementsCharStream == Stream!Spec

\* What the three properties ask of the buffers.
WellFormedBuffers == \A b \in Buffers : WellFormed(b)

\* A consuming loop ends.
LoopsTerminate == Running ~> ~Running

============================================================================
