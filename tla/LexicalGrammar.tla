--------------------------- MODULE LexicalGrammar ---------------------------
(***************************************************************************)
(* The lexical grammar the comments of src/src/cr-tknzr.c give above each  *)
(* production, as the set of positions a match may end at.  Every operator *)
(* takes a text and a set of positions a match may start at.               *)
(***************************************************************************)
EXTENDS Derivations

\* A text is a sequence of characters.  A word stands for the run of letters
\* the tokenizer compares byte by byte; "7" stands for every digit, "f" and "z"
\* for the letters that are and that are not hexadecimal digits, "N" for the
\* characters above 0xC8.
Units == {"em", "px", "deg", "s", "Hz", "%"}
AtWords == {"font-face", "charset", "import", "media", "page"}
Words == AtWords \cup {"url", "rgb", "important"} \cup (Units \ {"%"})
Digits == {"7"}
Hex == Digits \cup {"f"}
Letters == {"f", "z"} \cup Words
White == {" ", "\n", "\r"}
Quotes == {"\"", "'"}
Signs == {"@", "<", "!", "-", ">", "~", "|", "=", "/", "*", ";", "{", "}", "(", ")",
          "[", "]", "#", ".", "+", ",", "%", "\\"}
Characters == Digits \cup Letters \cup White \cup Quotes \cup Signs \cup {"N"}

-----------------------------------------------------------------------------
(* The macros. *)

W(t, S) == Many(t, White, S)

\* nl ::= \n|\r\n|\r|\f
Nl(t, S) == One(t, {"\n", "\r"}, S) \cup One(t, {"\n"}, One(t, {"\r"}, S))

\* unicode ::= \\[0-9a-f]{1,6}[ \n\r\t\f]?, tail being what may follow the digits
Unicode(t, S, tail(_)) ==
    LET digit(X) == One(t, Hex, X)
    IN  tail(UpTo(digit, One(t, Hex, One(t, {"\\"}, S)), 5))

\* escape ::= {unicode}|\\[ -~\200-\4177777].  The code takes no ASCII character
\* but a space after a backslash, all the digits there are up to six, any run of
\* white space after them, and needs a character after the digits.
EscapeTaken(t, S) ==
    LET tail(X) == W(t, {p \in X : /\ p < Len(t)
                                   /\ \/ t[p + 1] \notin Hex
                                      \/ p > 6 /\ \A i \in (p - 5)..p : t[i] \in Hex})
    IN  Unicode(t, S, tail) \cup One(t, {" ", "N"}, One(t, {"\\"}, S))

NmStart(t, S) == One(t, Letters \cup {"N"}, S) \cup EscapeTaken(t, S)

NmChar(t, S) == One(t, Letters \cup Digits \cup {"-", "N"}, S) \cup EscapeTaken(t, S)

\* ident ::= -?{nmstart}{nmchar}*
Ident(t, S) ==
    LET next(X) == NmChar(t, X)
        sign(X) == One(t, {"-"}, X)
    IN  Star(next, NmStart(t, Opt(sign, S)), Len(t))

Name(t, S) == LET next(X) == NmChar(t, X) IN Star(next, NmChar(t, S), Len(t))

\* num ::= [0-9]+|[0-9]*\.[0-9]+, with an optional sign
Num(t, S) ==
    LET start == S \cup One(t, {"-", "+"}, S)
    IN  One(t, Digits, Many(t, Digits, start))
            \cup One(t, Digits, Many(t, Digits, One(t, {"."}, Many(t, Digits, start))))

Plain == Characters \ (Quotes \cup {"\\", "\n", "\r"})

\* string1 ::= \"([\t !#$%&(-~]|\\{nl}|\'|{nonascii}|{escape})*\", string2 likewise.
\* The code takes neither quote without a backslash before it.
String(t, S) ==
    LET item(X) == One(t, Plain, X) \cup Nl(t, One(t, {"\\"}, X))
                      \cup One(t, Quotes, One(t, {"\\"}, X)) \cup EscapeTaken(t, X)
    IN  UNION {One(t, {q}, Star(item, One(t, {q}, S), Len(t))) : q \in Quotes}

\* comment ::= \/\*[^*]*\*+([^/*][^*]*\*+)*\/, as CSS 2.1 corrects it
Comment(t, S) ==
    LET noStar  == Characters \ {"*"}
        stars(X) == Many(t, {"*"}, One(t, {"*"}, X))
        more(X) == stars(Many(t, noStar, One(t, Characters \ {"/", "*"}, X)))
    IN  One(t, {"/"},
            Star(more, stars(Many(t, noStar, One(t, {"*"}, One(t, {"/"}, S)))), Len(t)))

UrlChars == Characters \ (White \cup Quotes \cup {"(", ")"})

\* URI ::= url\({w}{string}{w}\) | url\({w}([!#$%&*-~]|{nonascii}|{escape})*{w}\).
\* The code lets characters follow the string.
Uri(t, S) ==
    LET open == W(t, One(t, {"("}, One(t, {"url"}, S)))
    IN  One(t, {")"}, W(t, Many(t, UrlChars, open \cup W(t, String(t, open)))))

\* rgb: rgb '('S*{num}%?S* ',' {num}#?S*,S*{num}#?S*')'.  The code takes any byte
\* for the parenthesis that closes it.
RgbClosedBy(t, S, C) ==
    LET percent(X) == One(t, {"%"}, X)
        comp(X) == W(t, Opt(percent, Num(t, W(t, X))))
    IN  One(t, C, comp(One(t, {","}, comp(One(t, {","},
            comp(One(t, {"("}, One(t, {"rgb"}, S))))))))

-----------------------------------------------------------------------------
\* Where a token of type K that starts at p may end.
Ends(t, K, p) ==
    LET S == {p}
    IN  CASE K = "S"             -> One(t, White, W(t, S))
          [] K = "IDENT"         -> Ident(t, S)
          [] K = "FUNCTION"      -> One(t, {"("}, Ident(t, S))
          [] K = "HASH"          -> Name(t, One(t, {"#"}, S))
          [] K = "ATKEYWORD"     -> Ident(t, One(t, {"@"}, S))
          [] K = "NUMBER"        -> Num(t, S)
          [] K = "DIMEN"         -> Ident(t, Num(t, S))
          [] K = "UNIT"          -> One(t, Units, Num(t, S))
          [] K = "STRING"        -> String(t, S)
          [] K = "COMMENT"       -> Comment(t, S)
          [] K = "URI"           -> Uri(t, S)
          [] K = "RGB"           -> RgbClosedBy(t, S, Characters)
          [] K = "IMPORTANT_SYM" -> One(t, {"important"}, W(t, One(t, {"!"}, S)))
          [] K = "AT_SYM"        -> One(t, AtWords, One(t, {"@"}, S))
          [] K = "CDO"           -> One(t, {"-"}, One(t, {"-"}, One(t, {"!"}, One(t, {"<"}, S))))
          [] K = "CDC"           -> One(t, {">"}, One(t, {"-"}, One(t, {"-"}, S)))
          [] K \in {"INCLUDES", "DASHMATCH"} -> One(t, {"="}, One(t, {"~", "|"}, S))
          [] OTHER               -> One(t, Characters, S)
============================================================================
