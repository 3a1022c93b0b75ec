------------------------------ MODULE MCParser ------------------------------
(***************************************************************************)
(* Stylesheets put together from a few pieces, and the productions of      *)
(* CRGrammar as what CRParser finds in them.                               *)
(***************************************************************************)
EXTENDS CRSyntax, SequencesExt

CONSTANTS Pieces, HeadPieces,   \* names of the pieces
          MaxPieces, MaxHead,   \* bounds: pieces of a stylesheet
          MaxSyntax             \* bound: pieces of a selector or of a value

Piece(name) ==
    CASE name = "rule"    -> <<"IDENT", "{">>
      [] name = "sel"     -> <<"HASH">>
      [] name = "decl"    -> <<"IDENT", ":", "IDENT">>
      [] name = "name"    -> <<"IDENT">>
      [] name = "ruleset" -> <<"IDENT", "{", "IDENT", ":", "IDENT", "}">>
      [] name = "media"   -> <<"MEDIA_SYM", "S", "IDENT", "{">>
      [] name = "mediax"  -> <<"MEDIA_SYM", "S", "IDENT", ",">>
      [] name = "block"   -> <<"MEDIA_SYM", "S", "IDENT", "{", "HASH", "{", "IDENT",
                               ":", "IDENT", ";", "}", "}">>
      [] name = "page"    -> <<"PAGE_SYM", "{">>
      [] name = "pagex"   -> <<"PAGE_SYM", ":">>
      [] name = "font"    -> <<"FONT_FACE_SYM", "{">>
      [] name = "import"  -> <<"IMPORT_SYM", "STRING">>
      [] name = "charset" -> <<"CHARSET_SYM", "STRING">>
      [] name = "at"      -> <<"ATKEYWORD">>
      [] name = "attr"    -> <<"[", "IDENT", "]">>
      [] name = "pseudo"  -> <<":", "IDENT">>
      [] name = "important" -> <<"IMPORTANT_SYM">>
      [] OTHER            -> <<name>>

\* Two words, or two runs of white space, are never adjacent in a text.
Words == {"IDENT", "HASH", "IMPORTANT_SYM"} \cup AtRules
Lexable(t) == \A i \in 1..(Len(t) - 1) :
                 /\ ~(t[i] \in Words /\ t[i + 1] \in {"IDENT", "FUNCTION", "("})
                 /\ ~(t[i] = "S" /\ t[i + 1] = "S")

Between(before, pieces, n, after) ==
    {t \in {before \o FlattenSeq([i \in DOMAIN s |-> Piece(s[i])]) \o after :
                s \in SeqOf(pieces, n)} :
        Lexable(t)}
Assembled(pieces, n) == Between(<<>>, pieces, n, <<>>)
AllTexts  == Assembled(Pieces, MaxPieces)

\* Texts that do not end in the middle of a statement.
ClosedTexts == {t \in AllTexts : t = <<>> \/ t[Len(t)] = "}"}

\* Those, and texts of the head of a stylesheet that end anywhere.
ClosedAndHeads == ClosedTexts \cup Assembled(HeadPieces, MaxHead)

\* Rulesets with all the selectors, and with all the values, of a few pieces.
SyntaxTexts ==
    UNION {Between(<<>>, {"name", "sel", "attr", "pseudo", ".", "+", ",", "S"},
                   MaxSyntax, <<"{", "}">>),
           Between(<<"[", "IDENT">>, {"=", "name", "STRING", "]", "S"},
                   MaxSyntax + 1, <<"{", "}">>),
           Between(<<":", "FUNCTION">>, {"name", ")", "S", ","}, MaxSyntax, <<"{", "}">>),
           Between(<<"IDENT", "{", "IDENT", ":">>,
                   {"name", "FUNCTION", ")", ",", "+", "S", "important"},
                   MaxSyntax + 1, <<"}">>)}

ForTheBuilder == ClosedAndHeads \cup SyntaxTexts
=============================================================================
