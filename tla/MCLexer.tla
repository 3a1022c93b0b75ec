------------------------------ MODULE MCLexer ------------------------------
(***************************************************************************)
(* Small instances of CRLexer: all the texts over a few small alphabets,   *)
(* one for each group of productions that compete for the same characters. *)
(***************************************************************************)
EXTENDS CRLexer

CONSTANTS Longest   \* bound: length of the texts of the larger alphabets

Over(C, k) == UNION {[1..n -> C] : n \in 0..k}

Identifiers == Over({"z", "7", "-", "\\", "N", " ", "("}, Longest)
Escapes     == {<<"\\">> \o s : s \in Over({"7", " "}, Longest + 4)}
Strings     == Over({"\"", "'", "\\", "\n", "\r", "z"}, Longest)
Comments    == Over({"/", "*", "z"}, Longest + 2)
Numbers     == Over({"7", ".", "-", "+", "px", "s", "z"}, Longest - 1)
Addresses   == {<<"url", "(">> \o s : s \in Over({" ", ")", "\"", "z"}, Longest)}
Colours     == {<<"rgb", "(", "7">> \o s : s \in Over({",", "7", ")", "%"}, Longest + 1)}
AtRules     == Over({"@", "import", "-", "z", "{"}, Longest - 1)
Marks       == Over({"<", "!", "-", ">", " "}, Longest)
Priorities  == {<<"!">> \o s : s \in Over({"important", " ", "!"}, 2)}
Signatures  == Over({"#", "~", "|", "=", "[", "7"}, Longest - 1)

AllTexts == UNION {Identifiers, Escapes, Strings, Comments, Numbers, Addresses,
                   Colours, AtRules, Marks, Priorities, Signatures}
============================================================================
