----------------------------- MODULE MCIngestion -----------------------------
(***************************************************************************)
(* Instances of Ingestion for TLC: a second has two "milliseconds" and a   *)
(* day one second.                                                         *)
(***************************************************************************)
EXTENDS Ingestion, TLC

CONSTANTS old, ahead, garbled

\* "old" is signed at the start of the run, "ahead" by a phone whose clock is
\* ahead by more than the tolerance.
MCSignedAt == [h \in Packets |-> IF h = ahead THEN 4 ELSE 0]

SymmetricThreads == Permutations(Threads)
=============================================================================
