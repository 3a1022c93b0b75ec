---------------------------- MODULE MCStatement ----------------------------
(***************************************************************************)
(* Lists of up to two declarations and three statements, two sheets and a  *)
(* cascade with two origins.                                               *)
(***************************************************************************)
EXTENDS CRStatement, TLC

CONSTANTS d1, d2, s1, s2, s3, t1, t2

\* The addresses are exchangeable.
Addresses == Permutations({d1, d2}) \cup Permutations({s1, s2, s3}) \cup Permutations({t1, t2})
=============================================================================
