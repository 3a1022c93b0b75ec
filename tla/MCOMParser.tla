----------------------------- MODULE MCOMParser -----------------------------
(***************************************************************************)
(* The parser with the object model builder as its handler, over the       *)
(* stylesheets of MCParser, none of which ends in a declaration.  In all   *)
(* of them the productions of CRGrammar are what the proofs ask of them.   *)
(***************************************************************************)
EXTENDS CROMParser, MCParser

ASSUME FollowedAssumption == DeclarationsAreFollowed
ASSUME BlocksAssumption == BlocksAreRead /\ StatementsMoveOn
=============================================================================
