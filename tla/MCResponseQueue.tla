-------------------------- MODULE MCResponseQueue --------------------------
(* Small instances of ResponseQueue for TLC.                               *)
EXTENDS ResponseQueue

Config(max, timeout, auto) == [max |-> max, timeout |-> timeout, auto |-> auto]

\* A queue of two with expiry and cleanup, a queue of one without.
TwoConfigs == {Config(2, 1, TRUE), Config(1, 0, FALSE)}

OneConfig == {Config(2, 1, TRUE)}
=============================================================================
