------------------------------ MODULE MCInput ------------------------------
(***************************************************************************)
(* Small instances of CRInput.                                             *)
(***************************************************************************)
EXTENDS CRInputText

CONSTANTS MaxBytes, Alphabet   \* bounds: length and bytes of the buffers

AnyBuffer == UNION {[1..k -> Alphabet] : k \in 0..MaxBytes}
WfBuffers == {b \in AnyBuffer : WellFormed(b)}

\* What FailuresMoveNothing asks of the buffers.
ASSUME ShortAssumption == ShortBuffers
============================================================================
