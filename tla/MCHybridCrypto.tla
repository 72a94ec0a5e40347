--------------------------- MODULE MCHybridCrypto ---------------------------
(***************************************************************************)
(* An instance of HybridCrypto for TLC: ten binary digits, and all amounts *)
(* up to the power of two, in rupees, from which on some get lost.         *)
(***************************************************************************)
EXTENDS HybridCrypto

MCTyped == 0..Largest
=============================================================================
