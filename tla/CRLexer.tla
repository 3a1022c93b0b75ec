------------------------------ MODULE CRLexer ------------------------------
(***************************************************************************)
(* The lexical productions of CRTknzr and cr_tknzr_get_next_token with an  *)
(* empty cache (src/src/cr-tknzr.c).  A production is given the text and   *)
(* the position it starts at, and is the position it ends at; when it      *)
(* fails it is None, and its caller goes on from where it started.         *)
(***************************************************************************)
EXTENDS LexicalGrammar, FiniteSetsExt

CONSTANTS Texts     \* the texts that are tokenized

\* A token of type "rgb" ends with one byte, whatever it belongs to; and a byte
\* of a word may be a hexadecimal digit: texts in which either would cut a
\* character of this model are left out.
Wide == Words \cup {"N"}
ASSUME TextsAssumption ==
    /\ Texts \subseteq Seq(Characters)
    /\ \A t \in Texts : \A i, j \in 1..Len(t) :
         /\ t[i] = "rgb" => t[j] \notin Wide \ {"rgb"}
         /\ t[i] = "\\" /\ j = i + 1 => t[j] \notin Words
         /\ t[i] = "@" /\ j = i + 1 => t[j] # "important"

None == -1
NUL  == "NUL"       \* what BYTE gives past the end

At(t, p) == IF p < Len(t) THEN t[p + 1] ELSE NUL

\* Where the longest run of characters of C from p on ends.
RunEnd(t, C, p) == Min({q \in p..Len(t) : At(t, q) \notin C})

\* One character of C after p.
Char(t, C, p) == IF p # None /\ At(t, p) \in C THEN p + 1 ELSE None

-----------------------------------------------------------------------------
(* White space, escapes, identifiers. *)

ParseW(t, p) == IF At(t, p) \in White THEN RunEnd(t, White, p) ELSE None

SkipSpaces(t, p) == RunEnd(t, White, p)

\* Two bytes are peeked, so that the last character of a text is no newline.
ParseNl(t, p) == IF p + 2 > Len(t) THEN None
                 ELSE IF At(t, p) = "\r" /\ At(t, p + 1) = "\n" THEN p + 2
                 ELSE Char(t, {"\n", "\r"}, p)

\* Mutant: the number of digits is not bounded.
ParseUnicodeEscapeUnbounded(t, p) ==
    LET q == RunEnd(t, Hex, p + 1)
    IN  IF q >= Len(t) THEN None ELSE RunEnd(t, White, q)

\* Six digits at most; a peek after the last one fails at the end of the text;
\* all the white space there is goes with them.
ParseUnicodeEscape(t, p) ==
    LET q == Min({RunEnd(t, Hex, p + 1), p + 1 + 6})
    IN  IF q >= Len(t) THEN None ELSE RunEnd(t, White, q)

ParseEscape(t, p) ==
    IF At(t, p) # "\\" THEN None
    ELSE IF At(t, p + 1) \in Hex THEN ParseUnicodeEscape(t, p)
    ELSE Char(t, {" ", "N"}, p + 1)

ParseNmStart(t, p) == IF At(t, p) = "\\" THEN ParseEscape(t, p)
                      ELSE Char(t, Letters \cup {"N"}, p)

ParseNmChar(t, p) == IF At(t, p) = "\\" THEN ParseEscape(t, p)
                     ELSE Char(t, Letters \cup Digits \cup {"-", "N"}, p)

NmChars(t, p) == LET end[q \in 0..Len(t)] ==
                         IF ParseNmChar(t, q) = None THEN q ELSE end[ParseNmChar(t, q)]
                 IN  end[p]

ParseIdent(t, p) ==
    LET start == IF At(t, p) = "-" THEN p + 1 ELSE p
    IN  IF ParseNmStart(t, start) = None THEN None
        ELSE NmChars(t, ParseNmStart(t, start))

ParseName(t, p) == IF ParseNmChar(t, p) = None THEN None ELSE NmChars(t, p)

ParseHash(t, p) == IF At(t, p) = "#" THEN ParseName(t, p + 1) ELSE None

ParseAtKeyword(t, p) == IF At(t, p) = "@" THEN ParseIdent(t, p + 1) ELSE None

-----------------------------------------------------------------------------
(* Comments, strings, numbers. *)

\* The four loops leave the text at the first "*/" after the opening.
ParseComment(t, p) ==
    LET closes == {q \in (p + 2)..(Len(t) - 2) : At(t, q) = "*" /\ At(t, q + 1) = "/"}
    IN  IF At(t, p + 1) # "*" \/ closes = {} THEN None ELSE Min(closes) + 2

\* One item of a string from q on, of which two bytes are peeked; a quote is
\* taken only after a backslash, and a backslash that opens no escape must stand
\* before a newline.
StringItem(t, q) ==
    IF At(t, q) # "\\" THEN Char(t, Plain, q)
    ELSE IF At(t, q + 1) \in Quotes THEN q + 2
    ELSE IF ParseEscape(t, q) # None THEN ParseEscape(t, q)
    ELSE ParseNl(t, q + 1)

\* Mutant: a third byte is peeked.
ParseStringAhead(t, p) ==
    LET delim == At(t, p)
        end[q \in 0..Len(t)] ==
            IF q + 3 > Len(t) THEN None
            ELSE IF At(t, q) = delim THEN q + 1
            ELSE IF StringItem(t, q) = None THEN None
            ELSE end[StringItem(t, q)]
    IN  IF delim \in Quotes THEN end[p + 1] ELSE None

ParseString(t, p) ==
    LET delim == At(t, p)
        end[q \in 0..Len(t)] ==
            IF q + 2 > Len(t) THEN None
            ELSE IF At(t, q) = delim THEN q + 1
            ELSE IF StringItem(t, q) = None THEN None
            ELSE end[StringItem(t, q)]
    IN  IF delim \in Quotes THEN end[p + 1] ELSE None

\* A second point makes the whole production fail.
ParseNum(t, p) ==
    LET start == IF At(t, p) \in {"+", "-"} THEN p + 1 ELSE p
        whole == RunEnd(t, Digits, start)
        frac  == RunEnd(t, Digits, whole + 1)
    IN  IF At(t, whole) = "."
        THEN IF frac > whole + 1 /\ At(t, frac) # "." THEN frac ELSE None
        ELSE IF whole > start THEN whole ELSE None

-----------------------------------------------------------------------------
(* url(), rgb() and !important. *)

\* The characters of an address that is not quoted; when a string stands before
\* them the two are put together.  A backslash is one of them.
UnquotedEnd(t, q) ==
    LET r == RunEnd(t, UrlChars, q)
    IN  IF r = Len(t) THEN None ELSE Char(t, {")"}, SkipSpaces(t, r))

ParseUri(t, p) ==
    LET open == SkipSpaces(t, p + 2)
        str  == ParseString(t, open)
        next == SkipSpaces(t, str)
    IN  IF str = None THEN UnquotedEnd(t, open)
        ELSE IF At(t, next) = ")" THEN next + 1
        ELSE UnquotedEnd(t, next)

\* A number, a "%" perhaps, and the spaces around; a byte is peeked after it.
RgbComponent(t, p) ==
    LET num == IF p = None THEN None ELSE ParseNum(t, SkipSpaces(t, p))
    IN  IF num = None \/ num = Len(t) THEN None
        ELSE SkipSpaces(t, IF At(t, num) = "%" THEN num + 1 ELSE num)

\* The byte after the third number is read and not looked at.
ParseRgb(t, p) ==
    LET red   == RgbComponent(t, p + 2)
        green == RgbComponent(t, Char(t, {","}, red))
        blue  == RgbComponent(t, Char(t, {","}, green))
    IN  Char(t, Characters, blue)

ParseImportant(t, p) == Char(t, {"important"}, SkipSpaces(t, p + 1))

-----------------------------------------------------------------------------
(* cr_tknzr_get_next_token, by the first character. *)

NoToken == [type |-> "none", start |-> 0, end |-> 0]
Named(K, p, q) == IF q = None THEN NoToken ELSE [type |-> K, start |-> p, end |-> q]

\* The words that follow "@" are looked for one by one, and nothing after them.
AtToken(t, p) == IF At(t, p + 1) \in AtWords THEN Named("AT_SYM", p, p + 2)
                 ELSE Named("ATKEYWORD", p, ParseAtKeyword(t, p))

UriToken(t, p) == Named("URI", p, IF At(t, p + 1) = "(" THEN ParseUri(t, p) ELSE None)

RgbToken(t, p) == Named("RGB", p, IF At(t, p + 1) = "(" THEN ParseRgb(t, p) ELSE None)

After(t, s, p) == IF \A i \in DOMAIN s : At(t, p + i - 1) = s[i] THEN p + Len(s) ELSE None

CdoToken(t, p) == Named("CDO", p, After(t, <<"<", "!", "-", "-">>, p))

CdcToken(t, p) == Named("CDC", p, After(t, <<"-", "-", ">">>, p))

MatchToken(t, p) ==
    Named(IF At(t, p) = "~" THEN "INCLUDES" ELSE "DASHMATCH", p, Char(t, {"="}, p + 1))

CommentToken(t, p) == Named("COMMENT", p, ParseComment(t, p))

Punctuation == {";", "{", "}", "(", ")", "[", "]"}
PunctuationToken(t, p) == Named(At(t, p), p, p + 1)

SpaceToken(t, p) == Named("S", p, ParseW(t, p))

HashToken(t, p) == Named("HASH", p, ParseHash(t, p))

StringToken(t, p) == Named("STRING", p, ParseString(t, p))

ImportantToken(t, p) == Named("IMPORTANT_SYM", p, ParseImportant(t, p))

\* The unit is whatever unit the bytes after the number begin with.
UnitOf(t, q) == IF At(t, q) \in Units THEN q + 1 ELSE None

NumberToken(t, p) ==
    LET num == ParseNum(t, p)
    IN  IF num = None THEN NoToken
        ELSE IF UnitOf(t, num) # None THEN Named("UNIT", p, UnitOf(t, num))
        ELSE IF ParseIdent(t, num) # None THEN Named("DIMEN", p, ParseIdent(t, num))
        ELSE Named("NUMBER", p, num)

\* A name that starts with a hyphen comes before a number and is no function.
HyphenToken(t, p) ==
    IF CdcToken(t, p) # NoToken THEN CdcToken(t, p) ELSE Named("IDENT", p, ParseIdent(t, p))

\* next_bytes is still empty here, so that no name starts with a character that
\* is not ASCII.
IdentToken(t, p) ==
    LET ident == IF At(t, p) \in Letters \cup {"\\"} THEN ParseIdent(t, p) ELSE None
    IN  IF ident # None /\ At(t, ident) = "(" THEN Named("FUNCTION", p, ident + 1)
        ELSE Named("IDENT", p, ident)

First(a, b) == IF a # NoToken THEN a ELSE b

\* Mutant: a character nothing was made of is not read.
DelimTokenUnread(t, p) == Named("DELIM", p, p)

DelimToken(t, p) == Named("DELIM", p, p + 1)

\* The token that starts at p: what the switch finds, or else a delimiter.
TokenAt(t, p) ==
    LET c == At(t, p)
        found ==
          CASE c = "@"                        -> AtToken(t, p)
            [] c = "url"                      -> First(UriToken(t, p), IdentToken(t, p))
            [] c = "rgb"                      -> First(RgbToken(t, p), IdentToken(t, p))
            [] c = "<"                        -> CdoToken(t, p)
            [] c = "-"                        -> First(HyphenToken(t, p), NumberToken(t, p))
            [] c \in {"~", "|"}               -> MatchToken(t, p)
            [] c = "/"                        -> CommentToken(t, p)
            [] c \in Punctuation                -> PunctuationToken(t, p)
            [] c \in White                    -> SpaceToken(t, p)
            [] c = "#"                        -> HashToken(t, p)
            [] c \in Quotes                   -> StringToken(t, p)
            [] c = "!"                        -> ImportantToken(t, p)
            [] c \in Digits \cup {".", "+"}   -> NumberToken(t, p)
            [] OTHER                          -> IdentToken(t, p)
    IN  First(found, DelimToken(t, p))

-----------------------------------------------------------------------------
VARIABLES text,     \* what is tokenized
          pos,      \* the position of the input
          tok       \* the last token returned, NoToken at the end

vars == <<text, pos, tok>>

Init == text \in Texts /\ pos = 0 /\ tok = NoToken

GetNextToken == /\ pos < Len(text)
                /\ tok' = TokenAt(text, pos)
                /\ pos' = tok'.end
                /\ UNCHANGED text

\* CR_END_OF_INPUT_ERROR: no token, and the position stays.
GetNothing == /\ pos = Len(text)
              /\ tok' = NoToken
              /\ UNCHANGED <<text, pos>>

Next == GetNextToken \/ GetNothing

Spec == Init /\ [][Next]_vars

-----------------------------------------------------------------------------
\* What each production reads by hand, with its peeks and its early returns, is
\* the longest match of the regular expression its comment gives (as far as the
\* code follows it: LexicalGrammar).
TokensAreLongestMatches ==
    tok # NoToken =>
        LET ends == Ends(text, tok.type, tok.start)
        IN  tok.end \in ends /\ \A q \in ends : q <= tok.end

\* A character comes out as a delimiter only when none of the productions that
\* may start with it match: nothing that is a comment, a hash, a number, an at
\* keyword, an identifier (not starting with "N") or a string something follows
\* is taken apart.  A number a point follows is.
NothingIsTakenApart ==
    tok.type = "DELIM" =>
        LET p == tok.start
            E(K) == Ends(text, K, p)
        IN  /\ \A K \in {"COMMENT", "HASH", "ATKEYWORD", "AT_SYM", "CDO", "CDC",
                         "IMPORTANT_SYM"} : E(K) = {}
            /\ text[p + 1] # "N" => E("IDENT") = {}
            /\ E("STRING") \subseteq {Len(text)}
            /\ E("NUMBER") # {} => \E q \in E("NUMBER") : At(text, q) = "."

\* Wherever the position is put, a token is found there that moves it on and stays
\* inside the text: the tokenizer is one of the lexers CRTknzr takes.
ALexerForTheCache ==
    tok = NoToken => \A p \in 0..(Len(text) - 1) : TokenAt(text, p).end \in (p + 1)..Len(text)

============================================================================
