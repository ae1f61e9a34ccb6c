--------------------------- MODULE MCDllInterface ---------------------------
(* Small instances of DllInterface for TLC.                                *)
EXTENDS DllInterface

\* A limit of zero seconds, one that counts, one that is out of range.
ThreeTimeouts == {500, 3000, 70000}
=============================================================================
