------------------------------ MODULE CSSText ------------------------------
(***************************************************************************)
(* A stylesheet as the parser meets it: a sequence of tokens.  A token     *)
(* stands for its type; a delimiter and a one-character token for the      *)
(* character.  A position is the number of tokens before it.               *)
(***************************************************************************)
EXTENDS Integers, Sequences

Blank   == {"S", "COMMENT"}
Delims  == {".", ":", "*", ",", "+", ">", "/", "="}
AtRules == {"ATKEYWORD", "IMPORT_SYM", "PAGE_SYM", "MEDIA_SYM",
            "FONT_FACE_SYM", "CHARSET_SYM"}
Tokens  == Blank \cup Delims \cup AtRules
           \cup {"IDENT", "HASH", "STRING", "FUNCTION", "INCLUDES", "IMPORTANT_SYM",
                 "CDO", "{", "}", "(", ")", "[", "]", ";"}
NoMore  == "CR_END_OF_INPUT_ERROR"      \* what is found at the end

At(t, p) == IF p < Len(t) THEN t[p + 1] ELSE NoMore

\* What a parsing routine reports and where it leaves the position.
Statuses == {"CR_OK", "CR_PARSING_ERROR", "CR_END_OF_INPUT_ERROR",
             "CR_BAD_PARAM_ERROR"}
Ok(p)        == [status |-> "CR_OK", pos |-> p]
Malformed(p) == [status |-> "CR_PARSING_ERROR", pos |-> p]
Ended(p)     == [status |-> "CR_END_OF_INPUT_ERROR", pos |-> p]
============================================================================
