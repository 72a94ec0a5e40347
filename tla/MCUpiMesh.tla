----------------------------- MODULE MCUpiMesh -----------------------------
(***************************************************************************)
(* Instances of UpiMesh for TLC.                                           *)
(***************************************************************************)
EXTENDS UpiMesh, TLC

CONSTANTS early, late, ahead

\* "early" and "late" are signed by demoSend at the start of the run, "ahead"
\* by a phone whose clock is ahead by more than the tolerance then, and not a
\* tick later.
MCSignedAt == [h \in Packets |-> IF h = ahead THEN 2 ELSE 0]
=============================================================================
