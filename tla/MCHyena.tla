------------------------------ MODULE MCHyena -------------------------------
(* Instances of Hyena for TLC.                                             *)
EXTENDS Hyena, TLC

\* Safety runs only: calls are interchangeable.
MCSymmetry == Permutations(Ops)
=============================================================================
