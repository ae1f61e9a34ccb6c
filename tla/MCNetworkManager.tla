-------------------------- MODULE MCNetworkManager --------------------------
(* Small instances of NetworkManager for TLC.                              *)
EXTENDS NetworkManager, TLC

\* Nothing tells two workers apart.
Symmetric == Permutations(Workers)
=============================================================================
