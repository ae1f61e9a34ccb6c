-------------------------- MODULE MCConnectionPool --------------------------
(* Small instances of ConnectionPool for TLC.                              *)
EXTENDS ConnectionPool, TLC

\* Nothing tells two workers, or two addresses, apart.
Symmetric == Permutations(Workers) \cup Permutations(Handles)
=============================================================================
