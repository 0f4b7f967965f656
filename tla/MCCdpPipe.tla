----------------------------- MODULE MCCdpPipe -----------------------------
(***************************************************************************)
(* Two threads that send two commands each over pipes of one frame.        *)
(***************************************************************************)
EXTENDS CdpPipe, TLC

\* The callers are interchangeable in the safety runs.
Symmetry == Permutations(Callers)
=============================================================================
