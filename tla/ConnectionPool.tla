--------------------------- MODULE ConnectionPool ---------------------------
(***************************************************************************)
(* The pool of curl handles that the worker threads share                  *)
(* (include/ConnectionPool.h, src/ConnectionPool.cpp).                     *)
(*                                                                         *)
(* A ConnectionInfo and the curl handle in it are allocated and freed      *)
(* together and are one element of Handles here; an address that was freed *)
(* may be allocated again.  available_connections_ is a FIFO queue of      *)
(* pointers into which connections go with last_used = now, so its front   *)
(* is the pointer whose connection has been idle longest; it is the set    *)
(* available, and Front says which elements may be at the front.           *)
(*                                                                         *)
(* Time is the age of each connection, the seconds since its last_used.    *)
(* AcquireHandle reads the clock several times while it holds pool_mutex_, *)
(* and the two setters of limits take no lock, so the call is split where  *)
(* the clock or a limit may change under it:                               *)
(*                                                                         *)
(*   "idle"    the worker has no handle                                    *)
(*   "sweep"   has filtered the available queue, is about to sweep         *)
(*             connections_ (second half of CleanupExpiredConnections)     *)
(*   "pick"    in the loop that pops available connections                 *)
(*   "using"   has a handle                                                *)
(***************************************************************************)
EXTENDS Integers, FiniteSets

CONSTANTS
  Workers,        \* the threads that use the pool
  Handles,        \* the addresses connections are allocated at
  NoHandle,       \* nullptr
  Operations,     \* the maintenance operations that are called
  SizeArgs,       \* arguments given to Initialize and Resize
  TimeoutArgs,    \* arguments given to SetConnectionTimeout
  RequestArgs,    \* arguments given to SetMaxRequestsPerConnection
  MinTimeout,     \* 60: no connection timeout below this is accepted
  MinRequests,    \* 10: no request budget below this is accepted
  DefaultTimeout, \* 300
  DefaultRequests,\* 100
  ASYNCNET_MAX_CONNECTIONS,
  MaxAge          \* bound: ages are told apart up to this one

ASSUME HandlesAssumption == NoHandle \notin Handles

ASSUME LimitsAssumption ==
  /\ SizeArgs \subseteq Nat \ {0} /\ SizeArgs # {}
  /\ TimeoutArgs \subseteq Int /\ RequestArgs \subseteq Int
  /\ MinTimeout \in Nat /\ MinRequests \in Nat \ {0}
  /\ DefaultTimeout \in Nat /\ DefaultRequests \in Nat \ {0}
  /\ ASYNCNET_MAX_CONNECTIONS \in Nat \ {0}
  /\ MaxAge \in Nat
  /\ DefaultTimeout < MaxAge /\ MinTimeout < MaxAge
  /\ \A n \in TimeoutArgs : n < MaxAge

VARIABLES
  conns,        \* connections_
  available,    \* available_connections_, pointers that may dangle
  inUse,        \* the connections whose in_use is set
  age,          \* seconds since last_used
  requests,     \* request_count
  active,       \* active_count_
  maxConns,     \* max_connections_
  maxRequests,  \* max_requests_per_connection_
  timeout,      \* connection_timeout_seconds_
  pc,           \* where each worker is
  held,         \* the handle each worker was given
  broken        \* ghost: memory was freed that is still pointed to

limits == <<maxConns, maxRequests, timeout>>
vars   == <<conns, available, inUse, age, requests, active, limits, pc, held,
            broken>>
----------------------------------------------------------------------------
PoolFree == \A w \in Workers : pc[w] \notin {"sweep", "pick"}

AtMost(a, b)  == IF a < b THEN a ELSE b
AtLeast(a, b) == IF a > b THEN a ELSE b

\* Mutant: the upper limit is forgotten.
ClampConnections_NoLimit(n) == n

ClampConnections(n) == AtMost(n, ASYNCNET_MAX_CONNECTIONS)

IsConnectionValid(h) ==
  /\ age[h] <= timeout
  /\ requests[h] < maxRequests

\* The pointers that may be at the front of a queue with the elements S.
Front(S) == {h \in S : \A g \in S : age[g] <= age[h]}

\* Mutant: the handle is cleaned up, its entry stays in connections_.
InvalidateHandles_KeepsEntry(S) ==
  /\ conns' = conns
  /\ inUse' = inUse \ S
  /\ active' = active - Cardinality(inUse \cap S)

\* InvalidateHandle of every handle in S; handles it does not find are skipped.
InvalidateHandles(S) ==
  /\ conns' = conns \ S
  /\ inUse' = inUse \ S
  /\ active' = active - Cardinality(inUse \cap S)
----------------------------------------------------------------------------
(* AcquireHandle.                                                          *)

\* The first half of CleanupExpiredConnections: invalid connections leave the
\* available queue and are freed.
AcquireHandle(w) ==
  /\ pc[w] = "idle"
  /\ PoolFree
  /\ LET gone == {h \in available : ~IsConnectionValid(h)}
     IN  /\ available' = available \ gone
         /\ InvalidateHandles(gone)
  /\ pc' = [pc EXCEPT ![w] = "sweep"]
  /\ UNCHANGED <<age, requests, limits, held, broken>>

\* Mutant: connections that are in use are swept like the others.
Sweepable_InUseToo == conns

Sweepable == conns \ inUse

\* The second half: connections_ is swept with later clock readings, and the
\* pointers in the available queue stay.
Sweep(w) ==
  /\ pc[w] = "sweep"
  /\ LET swept == {h \in Sweepable : ~IsConnectionValid(h)}
     IN  /\ conns' = conns \ swept
         /\ broken' = (swept \cap available # {})
  /\ pc' = [pc EXCEPT ![w] = "pick"]
  /\ UNCHANGED <<available, inUse, age, requests, active, limits, held>>

\* The connection is handed out.
HandOut(w, h) ==
  /\ age' = [age EXCEPT ![h] = 0]
  /\ active' = active + 1
  /\ held' = [held EXCEPT ![w] = h]
  /\ pc' = [pc EXCEPT ![w] = "using"]
  /\ UNCHANGED <<limits, broken>>

\* The loop pops a pointer; it is handed out if it is valid ...
PickValid(w) ==
  /\ pc[w] = "pick"
  /\ \E h \in Front(available) :
       /\ IsConnectionValid(h)
       /\ available' = available \ {h}
       /\ inUse' = inUse \cup {h}
       /\ requests' = [requests EXCEPT ![h] = @ + 1]
       /\ HandOut(w, h)
  /\ UNCHANGED conns

\* ... and freed if it has become invalid in the meantime.
PickInvalid(w) ==
  /\ pc[w] = "pick"
  /\ \E h \in Front(available) :
       /\ ~IsConnectionValid(h)
       /\ available' = available \ {h}
       /\ InvalidateHandles({h})
  /\ UNCHANGED <<age, requests, limits, pc, held, broken>>

\* Mutant: "<=" for "<".
HasRoom_OneTooMany == Cardinality(conns) <= maxConns

HasRoom == Cardinality(conns) < maxConns

CreateNewConnection(w) ==
  /\ pc[w] = "pick"
  /\ available = {}
  /\ HasRoom
  /\ \E h \in Handles \ conns :
       /\ conns' = conns \cup {h}
       /\ inUse' = inUse \cup {h}
       /\ requests' = [requests EXCEPT ![h] = 1]
       /\ HandOut(w, h)
  /\ UNCHANGED available

\* nullptr: every connection is out, or curl_easy_init failed.
ReturnsNull(w) ==
  /\ pc[w] = "pick"
  /\ available = {}
  /\ HasRoom => "curl_easy_init_fails" \in Operations
  /\ pc' = [pc EXCEPT ![w] = "idle"]
  /\ UNCHANGED <<conns, available, inUse, age, requests, active, limits, held,
                 broken>>
----------------------------------------------------------------------------
(* ReleaseHandle and the maintenance operations.                           *)

\* Mutant: a connection that is freed on its release stays counted.
CountOut_OnlyIfKept(h) ==
  active' = IF requests[h] < maxRequests THEN active - 1 ELSE active

CountOut(h) == active' = active - 1

\* Mutant: the connection is not pushed into the available queue.
Returned_Lost(h) == available

Returned(h) == available \cup {h}

\* A connection whose budget is used up is freed (in_use is already reset, so
\* InvalidateHandle does not count it again).  The handle is found, because
\* the model ends before memory in use is freed: see Next.
ReleaseHandle(w) ==
  /\ pc[w] = "using"
  /\ PoolFree
  /\ LET h == held[w]
     IN  /\ inUse' = inUse \ {h}
         /\ age' = [age EXCEPT ![h] = 0]
         /\ CountOut(h)
         /\ \/ /\ requests[h] < maxRequests
               /\ available' = Returned(h)
               /\ UNCHANGED conns
            \/ /\ requests[h] >= maxRequests
               /\ conns' = conns \ {h}
               /\ UNCHANGED available
  /\ pc' = [pc EXCEPT ![w] = "idle"]
  /\ held' = [held EXCEPT ![w] = NoHandle]
  /\ UNCHANGED <<requests, limits, broken>>

\* What shrinking to n pops: the longest idle connections, until n are left or
\* none is available.
Excess(n) ==
  {gone \in SUBSET available :
     /\ \A h \in gone, g \in available \ gone : age[g] <= age[h]
     /\ IF Cardinality(conns) > n
        THEN Cardinality(conns \ gone)
               = AtLeast(n, Cardinality(conns \ available))
        ELSE gone = {}}

Resize(n) ==
  /\ PoolFree
  /\ LET new == ClampConnections(n)
     IN  /\ maxConns' = new
         /\ \/ /\ new < maxConns
               /\ \E gone \in Excess(new) :
                    /\ available' = available \ gone
                    /\ conns' = conns \ gone
            \/ /\ new >= maxConns
               /\ UNCHANGED <<available, conns>>
  /\ UNCHANGED <<inUse, age, requests, active, maxRequests, timeout, pc, held,
                 broken>>

\* The setters take no lock.
SetConnectionTimeout(n) ==
  /\ timeout' = AtLeast(MinTimeout, n)
  /\ UNCHANGED <<conns, available, inUse, age, requests, active, maxConns,
                 maxRequests, pc, held, broken>>

SetMaxRequestsPerConnection(n) ==
  /\ maxRequests' = AtLeast(MinRequests, n)
  /\ UNCHANGED <<conns, available, inUse, age, requests, active, maxConns,
                 timeout, pc, held, broken>>

\* CleanupAll, which ForceCleanup and the destructor call, frees handles that
\* are in use, too.
CleanupAll ==
  /\ PoolFree
  /\ conns' = {}
  /\ available' = {}
  /\ inUse' = {}
  /\ active' = 0
  /\ broken' = (inUse # {})
  /\ UNCHANGED <<age, requests, limits, pc, held>>

\* A second goes by.
Tick ==
  /\ age' = [h \in Handles |-> AtMost(age[h] + 1, MaxAge)]
  /\ UNCHANGED <<conns, available, inUse, requests, active, limits, pc, held,
                 broken>>
----------------------------------------------------------------------------
\* The state after Initialize, which creates one connection to see whether
\* that is possible.
Init ==
  /\ \E h \in Handles : conns = {h} /\ available = {h}
  /\ inUse = {}
  /\ age = [h \in Handles |-> 0]
  /\ requests = [h \in Handles |-> 0]
  /\ active = 0
  /\ maxConns \in {ClampConnections(n) : n \in SizeArgs}
  /\ maxRequests = DefaultRequests
  /\ timeout = DefaultTimeout
  /\ pc = [w \in Workers |-> "idle"]
  /\ held = [w \in Workers |-> NoHandle]
  /\ broken = FALSE

Acquiring(w) ==
  \/ Sweep(w)
  \/ PickValid(w)
  \/ PickInvalid(w)
  \/ CreateNewConnection(w)
  \/ ReturnsNull(w)

Maintenance ==
  \/ "Resize" \in Operations /\ \E n \in SizeArgs : Resize(n)
  \/ "SetConnectionTimeout" \in Operations
       /\ \E n \in TimeoutArgs : SetConnectionTimeout(n)
  \/ "SetMaxRequestsPerConnection" \in Operations
       /\ \E n \in RequestArgs : SetMaxRequestsPerConnection(n)
  \/ "CleanupAll" \in Operations /\ CleanupAll

\* Once memory has been freed that a worker or the queue still points to, the
\* next step of the code is undefined behaviour: the model ends there.
Next ==
  /\ ~broken
  /\ \/ \E w \in Workers : AcquireHandle(w) \/ Acquiring(w) \/ ReleaseHandle(w)
     \/ Maintenance
     \/ Tick

Spec == Init /\ [][Next]_vars
----------------------------------------------------------------------------
\* Every variable has the values the code can give it, at most one worker is
\* inside AcquireHandle, and a worker has a handle exactly while it uses one.
TypeOK ==
  /\ conns \subseteq Handles
  /\ available \subseteq Handles
  /\ inUse \subseteq conns
  /\ age \in [Handles -> 0 .. MaxAge]
  /\ requests \in [Handles -> Nat]
  /\ active \in Int
  /\ maxConns \in 1 .. ASYNCNET_MAX_CONNECTIONS
  /\ maxRequests \in Nat \ {0}
  /\ timeout \in Nat
  /\ pc \in [Workers -> {"idle", "sweep", "pick", "using"}]
  /\ held \in [Workers -> Handles \cup {NoHandle}]
  /\ broken \in BOOLEAN
  /\ \A w \in Workers : (held[w] # NoHandle) <=> (pc[w] = "using")
  /\ \A v, w \in Workers :
       /\ pc[v] \in {"sweep", "pick"}
       /\ pc[w] \in {"sweep", "pick"}
       => v = w

Users == {w \in Workers : pc[w] = "using"}

\* Until memory is freed that is still pointed to, no two workers share a curl
\* handle, and the handle a worker uses is neither freed nor on offer.
ExclusiveUse ==
  \/ broken
  \/ /\ \A w \in Users : held[w] \in inUse /\ held[w] \notin available
     /\ \A v, w \in Users : v # w => held[v] # held[w]

\* Until then no connection is lost either: each one is on offer or with the
\* worker that uses it, whatever setters, sweeps and resizes come in between.
NoLeak ==
  \/ broken
  \/ /\ conns = available \cup inUse
     /\ inUse = {held[w] : w \in Users}

\* active_count_, which is what AsyncNet_GetConnectionStatus reports, counts
\* the connections in use.
ActiveCountExact == broken \/ active = Cardinality(inUse)

\* The pool is within its limit or it is not growing: what lies above the
\* limit after Resize was there before.
GrowsWithinLimit ==
  [][Cardinality(conns') <= maxConns' \/ conns' \subseteq conns]_vars

\* AcquireHandle returns nullptr from a full pool only when each connection is
\* in some worker's hands.
NullMeansBusy ==
  [][\A w \in Workers :
       pc[w] = "pick" /\ pc'[w] = "idle" =>
         \/ broken
         \/ HasRoom
         \/ \A h \in conns : \E v \in Users : held[v] = h]_vars
=============================================================================
