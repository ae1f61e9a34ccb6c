--------------------------- MODULE PriorityBuffer ---------------------------
(***************************************************************************)
(* What the request queue promises its users, without threads, locks,      *)
(* condition variables or counters: a bounded buffer that is served in     *)
(* priority order, first come first served within a priority, whose only   *)
(* way of making room for a newcomer is to give up a low-priority request  *)
(* for a high-priority one.                                                *)
(***************************************************************************)
EXTENDS RequestTypes, FiniteSets

CONSTANT Requests       \* the requests that can be offered

VARIABLES content,      \* the requests the buffer holds
          capacity      \* the number of requests it is willing to hold

vars == <<content, capacity>>

Init == /\ content = {}
        /\ capacity \in Nat \ {0}

\* A request enters while there is room.
Admit(r) ==
  /\ r \notin content
  /\ Cardinality(content) < capacity
  /\ content' = content \cup {r}
  /\ UNCHANGED capacity

\* A high-priority request takes the place of the low-priority request that
\* would have been served first among those of its class.
Displace(r, victim) ==
  /\ r \notin content
  /\ GetRequestPriority(r.type) = PRIORITY_HIGH
  /\ victim \in Top({x \in content : GetRequestPriority(x.type) = PRIORITY_LOW})
  /\ content' = (content \ {victim}) \cup {r}
  /\ UNCHANGED capacity

\* The request whose turn it is leaves.
Serve(r) ==
  /\ r \in Top(content)
  /\ content' = content \ {r}
  /\ UNCHANGED capacity

\* The owner empties the buffer of the requests of some types.
Discard(types) ==
  /\ content' = {r \in content : r.type \notin types}
  /\ UNCHANGED capacity

\* The owner changes the capacity; nothing is thrown away.
SetCapacity ==
  /\ capacity' \in Nat \ {0}
  /\ UNCHANGED content

Next ==
  \/ \E r \in Requests : Admit(r)
  \/ \E r \in Requests, v \in content : Displace(r, v)
  \/ \E r \in content : Serve(r)
  \/ \E types \in SUBSET RequestType : Discard(types)
  \/ SetCapacity

Spec == Init /\ [][Next]_vars
=============================================================================
