---------------------------- MODULE RequestTypes ----------------------------
(***************************************************************************)
(* The request types of the library, their priorities, and the order in    *)
(* which the priority queue serves requests.                               *)
(*                                                                         *)
(* A request is a record with (at least) the fields                        *)
(*   type     its RequestType,                                             *)
(*   created  its created_time, the steady clock read when it was built.   *)
(***************************************************************************)
EXTENDS Integers

RequestType == {"HEARTBEAT", "EVENTS", "PARAMS", "PING"}

\* enum RequestPriority: the smaller the number the sooner it is served.
PRIORITY_HIGH   == 1
PRIORITY_NORMAL == 2
PRIORITY_LOW    == 3

GetRequestPriority(type) ==
  CASE type \in {"HEARTBEAT", "PING"} -> PRIORITY_HIGH
    [] type = "PARAMS"                -> PRIORITY_LOW
    [] OTHER                          -> PRIORITY_NORMAL

(***************************************************************************)
(* RequestComparator: TRUE when a is to be served after b.  It is the      *)
(* "less than" of a max-heap, so both comparisons are reversed.            *)
(***************************************************************************)
RequestComparator(a, b) ==
  LET pa == GetRequestPriority(a.type)
      pb == GetRequestPriority(b.type)
  IN  IF pa # pb THEN pa > pb ELSE a.created > b.created

(***************************************************************************)
(* What std::priority_queue::top() may return: an element that no other    *)
(* one is served before.  Requests of equal priority and creation time are *)
(* left in whatever order the heap gives them.                             *)
(***************************************************************************)
Top(S) == {t \in S : \A x \in S : ~RequestComparator(t, x)}
=============================================================================
