-------------------------- MODULE MCSecretManager ---------------------------
(* Instances of SecretManager for TLC.                                     *)
EXTENDS SecretManager, TLC

\* Safety runs only: calls, and names, are interchangeable.
MCSymmetry == Permutations(Ops) \cup Permutations(Names)
=============================================================================
