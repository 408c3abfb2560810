------------------------------ MODULE MCHitBuffer ------------------------------
(* Small instances of HitBuffer.                                           *)
EXTENDS HitBuffer, TLC

Symmetric == Permutations(Sync)
=============================================================================
