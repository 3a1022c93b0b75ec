------------------------------ MODULE MCTknzr ------------------------------
(***************************************************************************)
(* Every lexer of a short text.                                            *)
(***************************************************************************)
EXTENDS CRTknzr

AllLexers == {f \in [0..(Size - 1) -> 0..Size] :
                 \A p \in 0..(Size - 1) : f[p] = 0 \/ f[p] > p}
============================================================================
