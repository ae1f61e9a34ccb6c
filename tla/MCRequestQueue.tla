--------------------------- MODULE MCRequestQueue ---------------------------
(* Small instances of RequestQueue for TLC.                                *)
EXTENDS RequestQueue, TLC

Request(id, type, created) == [id |-> id, type |-> type, created |-> created]

\* Two low-priority requests of different age, one of normal and one of high
\* priority.
MixedRequests ==
  {Request(1, "PARAMS", 1), Request(2, "PARAMS", 2), Request(3, "EVENTS", 2),
   Request(4, "HEARTBEAT", 3)}

\* Nothing tells two producers, or two consumers, apart.
Symmetric == Permutations(Producers) \cup Permutations(Consumers)

HighRequests == {Request(1, "HEARTBEAT", 1), Request(2, "PING", 2)}

TwoTypes == {Request(1, "PARAMS", 1), Request(2, "HEARTBEAT", 1),
             Request(3, "PARAMS", 2)}
=============================================================================
