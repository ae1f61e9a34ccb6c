------------------------ MODULE ConnectionPoolProofs ------------------------
(***************************************************************************)
(* What ConnectionPool guarantees for every number of workers, every pool  *)
(* size and all limits, up to the point where memory in use is freed.      *)
(***************************************************************************)
EXTENDS ConnectionPool, FiniteSetTheorems, TLAPS

USE HandlesAssumption, LimitsAssumption

\* Connections are on offer or in use, never both; those in use are the ones
\* the workers were given, one each; active_count_ counts them.
Partition ==
  /\ conns = available \cup inUse
  /\ available \cap inUse = {}
  /\ \A w \in Users : held[w] \in inUse
  /\ \A h \in inUse : \E w \in Users : held[w] = h
  /\ \A v, w \in Users : v # w => held[v] # held[w]
  /\ active = Cardinality(inUse)

\* The inductive invariant.  The finiteness makes cardinalities numbers.
PoolInv ==
  /\ TypeOK
  /\ IsFiniteSet(conns)
  /\ broken \/ Partition

\* The connections in use can be counted.
LEMMA InUseFinite ==
  ASSUME PoolInv
  PROVE  IsFiniteSet(inUse) /\ Cardinality(inUse) \in Nat
BY FS_Subset, FS_CardinalityType DEF PoolInv, TypeOK

\* Filtering the available queue drops connections that nobody uses.
LEMMA AcquireKeeps ==
  ASSUME PoolInv, ~broken, NEW w \in Workers, AcquireHandle(w)
  PROVE  PoolInv'
<1> DEFINE gone == {h \in available : ~IsConnectionValid(h)}
<1>1. /\ available' = available \ gone
      /\ conns' = conns \ gone
      /\ inUse' = inUse \ gone
      /\ active' = active - Cardinality(inUse \cap gone)
      /\ pc' = [pc EXCEPT ![w] = "sweep"]
      /\ UNCHANGED <<age, requests, limits, held, broken>>
  BY DEF AcquireHandle, InvalidateHandles
<1>2. gone \subseteq available
  OBVIOUS
<1> HIDE DEF gone
<1>3. Partition
  BY DEF PoolInv
<1>4. inUse \cap gone = {} /\ inUse' = inUse
  BY <1>1, <1>2, <1>3 DEF Partition
<1>5. active' = active
  <2>1. Cardinality(inUse \cap gone) = 0
    BY <1>4, FS_EmptySet
  <2> QED
    BY <1>1, <2>1 DEF PoolInv, TypeOK
<1>6. IsFiniteSet(conns')
  BY <1>1, FS_Difference DEF PoolInv
<1>7. TypeOK'
  BY <1>1, <1>2, <1>4, <1>5
     DEF PoolInv, TypeOK, Partition, limits, AcquireHandle, PoolFree
<1>8. Users' = Users
  BY <1>1 DEF Users, AcquireHandle, PoolInv, TypeOK
<1>9. Partition'
  BY <1>1, <1>2, <1>3, <1>4, <1>5, <1>8 DEF Partition
<1> QED
  BY <1>6, <1>7, <1>9 DEF PoolInv

\* The sweep frees no connection in use; one it frees under the queue breaks
\* the pool.
LEMMA SweepKeeps ==
  ASSUME PoolInv, ~broken, NEW w \in Workers, Sweep(w)
  PROVE  PoolInv'
<1> DEFINE swept == {h \in Sweepable : ~IsConnectionValid(h)}
<1>1. /\ conns' = conns \ swept
      /\ broken' = (swept \cap available # {})
      /\ pc' = [pc EXCEPT ![w] = "pick"]
      /\ UNCHANGED <<available, inUse, age, requests, active, limits, held>>
  BY DEF Sweep
<1>2. swept \subseteq conns \ inUse
  BY DEF Sweepable
<1> HIDE DEF swept
<1>3. IsFiniteSet(conns')
  BY <1>1, FS_Difference DEF PoolInv
<1>4. TypeOK'
  BY <1>1, <1>2 DEF PoolInv, TypeOK, limits, Sweep
<1>5. ASSUME ~broken' PROVE Partition'
  <2>1. Users' = Users
    BY <1>1 DEF Users, Sweep, PoolInv, TypeOK
  <2>2. swept = {}
    BY <1>1, <1>2, <1>5 DEF PoolInv, Partition
  <2> QED
    BY <1>1, <2>1, <2>2 DEF PoolInv, Partition
<1> QED
  BY <1>3, <1>4, <1>5 DEF PoolInv

\* Giving a worker a handle that is not in use keeps the book-keeping right.
LEMMA HandOutKeeps ==
  ASSUME PoolInv, ~broken, NEW w \in Workers, NEW h \in Handles \ inUse,
         pc[w] = "pick", HandOut(w, h),
         inUse' = inUse \cup {h},
         conns' = conns \cup {h},
         available' = available \ {h},
         requests' \in [Handles -> Nat]
  PROVE  PoolInv'
<1>1. Partition
  BY DEF PoolInv
<1>2. IsFiniteSet(conns')
  BY FS_AddElement DEF PoolInv
<1>3. TypeOK'
  <2>1. /\ age' = [age EXCEPT ![h] = 0]
        /\ active' = active + 1
        /\ held' = [held EXCEPT ![w] = h]
        /\ pc' = [pc EXCEPT ![w] = "using"]
        /\ UNCHANGED <<maxConns, maxRequests, timeout, broken>>
    BY DEF HandOut, limits
  <2>2. /\ age' \in [Handles -> 0 .. MaxAge]
        /\ held' \in [Workers -> Handles \cup {NoHandle}]
        /\ pc' \in [Workers -> {"idle", "sweep", "pick", "using"}]
        /\ active' \in Int
    BY <2>1 DEF PoolInv, TypeOK
  <2>3. \A v \in Workers : (held'[v] # NoHandle) <=> (pc'[v] = "using")
    BY <2>1 DEF PoolInv, TypeOK
  <2>4. \A u, v \in Workers :
          /\ pc'[u] \in {"sweep", "pick"}
          /\ pc'[v] \in {"sweep", "pick"}
          => u = v
    BY <2>1 DEF PoolInv, TypeOK
  <2>5. conns' \subseteq Handles /\ available' \subseteq Handles /\ inUse' \subseteq conns'
    BY DEF PoolInv, TypeOK
  <2> QED
    BY <2>1, <2>2, <2>3, <2>4, <2>5 DEF PoolInv, TypeOK
<1>4. Cardinality(inUse') = Cardinality(inUse) + 1
  BY InUseFinite, FS_AddElement
<1>5. active' = Cardinality(inUse')
  BY <1>1, <1>4 DEF Partition, HandOut
<1>6. Users' = Users \cup {w} /\ w \notin Users /\ held'[w] = h
      /\ \A v \in Users : held'[v] = held[v]
  BY DEF Users, HandOut, PoolInv, TypeOK
<1>7. Partition'
  BY <1>1, <1>5, <1>6 DEF Partition
<1> QED
  BY <1>2, <1>3, <1>7 DEF PoolInv

\* A valid connection moves from the queue to the worker.
LEMMA PickValidKeeps ==
  ASSUME PoolInv, ~broken, NEW w \in Workers, PickValid(w)
  PROVE  PoolInv'
<1> PICK h \in Front(available) :
      /\ available' = available \ {h}
      /\ inUse' = inUse \cup {h}
      /\ requests' = [requests EXCEPT ![h] = @ + 1]
      /\ HandOut(w, h)
  BY DEF PickValid
<1>1. h \in available /\ h \in conns /\ h \notin inUse
  BY DEF Front, PoolInv, Partition
<1>2. conns' = conns \cup {h}
  BY <1>1 DEF PickValid
<1>3. h \in Handles /\ requests' \in [Handles -> Nat]
  BY <1>1 DEF PoolInv, TypeOK
<1> QED
  BY <1>1, <1>2, <1>3, HandOutKeeps DEF PickValid

\* A new connection goes straight to the worker.
LEMMA CreateKeeps ==
  ASSUME PoolInv, ~broken, NEW w \in Workers, CreateNewConnection(w)
  PROVE  PoolInv'
<1> PICK h \in Handles \ conns :
      /\ conns' = conns \cup {h}
      /\ inUse' = inUse \cup {h}
      /\ requests' = [requests EXCEPT ![h] = 1]
      /\ HandOut(w, h)
  BY DEF CreateNewConnection
<1>1. h \notin inUse /\ available' = available \ {h}
  BY DEF CreateNewConnection, PoolInv, TypeOK
<1>2. requests' \in [Handles -> Nat]
  BY DEF PoolInv, TypeOK
<1> QED
  BY <1>1, <1>2, HandOutKeeps DEF CreateNewConnection

\* An invalid connection leaves the queue and the pool together.
LEMMA PickInvalidKeeps ==
  ASSUME PoolInv, ~broken, NEW w \in Workers, PickInvalid(w)
  PROVE  PoolInv'
<1> PICK h \in Front(available) :
      /\ available' = available \ {h}
      /\ InvalidateHandles({h})
  BY DEF PickInvalid
<1>1. Partition
  BY DEF PoolInv
<1>2. h \in available /\ h \notin inUse
  BY <1>1 DEF Front, Partition
<1>3. inUse \cap {h} = {} /\ inUse' = inUse /\ conns' = conns \ {h}
  BY <1>2 DEF InvalidateHandles
<1>4. active' = active
  <2>1. Cardinality(inUse \cap {h}) = 0
    BY <1>3, FS_EmptySet
  <2> QED
    BY <2>1 DEF InvalidateHandles, PoolInv, TypeOK
<1>5. IsFiniteSet(conns')
  BY <1>3, FS_RemoveElement DEF PoolInv
<1>6. UNCHANGED <<age, requests, limits, pc, held, broken>>
  BY DEF PickInvalid
<1>7. TypeOK'
  BY <1>2, <1>3, <1>4, <1>6 DEF PoolInv, TypeOK, limits
<1>8. Partition'
  BY <1>1, <1>2, <1>3, <1>4, <1>6 DEF Partition, Users
<1> QED
  BY <1>5, <1>7, <1>8 DEF PoolInv

\* Returning nullptr changes no connection.
LEMMA ReturnsNullKeeps ==
  ASSUME PoolInv, ~broken, NEW w \in Workers, ReturnsNull(w)
  PROVE  PoolInv'
<1>1. Users' = Users
  BY DEF ReturnsNull, Users, PoolInv, TypeOK
<1>2. Partition'
  BY <1>1 DEF ReturnsNull, Partition, PoolInv
<1>3. TypeOK'
  BY DEF ReturnsNull, PoolInv, TypeOK, limits
<1> QED
  BY <1>2, <1>3 DEF PoolInv, ReturnsNull

\* A released connection goes back to the queue or out of the pool.
LEMMA ReleaseKeeps ==
  ASSUME PoolInv, ~broken, NEW w \in Workers, ReleaseHandle(w)
  PROVE  PoolInv'
<1> DEFINE h == held[w]
<1>1. Partition
  BY DEF PoolInv
<1>2. w \in Users /\ h \in inUse /\ h \in conns /\ h \notin available /\ h \in Handles
  BY <1>1 DEF Partition, Users, ReleaseHandle, PoolInv, TypeOK
<1>3. /\ inUse' = inUse \ {h}
      /\ age' = [age EXCEPT ![h] = 0]
      /\ active' = active - 1
      /\ \/ conns' = conns /\ available' = available \cup {h}
         \/ conns' = conns \ {h} /\ available' = available
      /\ pc' = [pc EXCEPT ![w] = "idle"]
      /\ held' = [held EXCEPT ![w] = NoHandle]
      /\ UNCHANGED <<requests, limits, broken>>
  BY DEF ReleaseHandle, CountOut, Returned
<1>4. IsFiniteSet(conns')
  BY <1>3, FS_RemoveElement DEF PoolInv
<1>5. TypeOK'
  BY <1>1, <1>2, <1>3 DEF PoolInv, TypeOK, Partition, limits
<1>6. Cardinality(inUse') = Cardinality(inUse) - 1
  BY <1>2, <1>3, InUseFinite, FS_RemoveElement
<1>7. /\ Users' = Users \ {w}
      /\ \A v \in Users' : held'[v] = held[v]
  BY <1>3 DEF Users, PoolInv, TypeOK
<1>8. active' = Cardinality(inUse')
  BY <1>1, <1>3, <1>6 DEF Partition
<1> HIDE DEF h
<1>9. Partition'
  <2>1. conns' = available' \cup inUse' /\ available' \cap inUse' = {}
    BY <1>1, <1>2, <1>3 DEF Partition
  <2>2. \A v \in Users' : held'[v] \in inUse'
    BY <1>1, <1>2, <1>3, <1>7 DEF Partition, h
  <2>3. \A g \in inUse' : \E v \in Users' : held'[v] = g
    BY <1>1, <1>2, <1>3, <1>7 DEF Partition, h
  <2>4. \A u, v \in Users' : u # v => held'[u] # held'[v]
    BY <1>1, <1>7 DEF Partition
  <2> QED
    BY <2>1, <2>2, <2>3, <2>4, <1>8 DEF Partition
<1> QED
  BY <1>4, <1>5, <1>9 DEF PoolInv

\* Resize frees available connections only.
LEMMA ResizeKeeps ==
  ASSUME PoolInv, ~broken, NEW n \in SizeArgs, Resize(n)
  PROVE  PoolInv'
<1>1. maxConns' \in 1 .. ASYNCNET_MAX_CONNECTIONS
  BY DEF Resize, ClampConnections, AtMost
<1>2. PICK gone \in SUBSET available :
        conns' = conns \ gone /\ available' = available \ gone
  <2>1. CASE UNCHANGED <<available, conns>>
    <3>1. {} \in SUBSET available /\ conns' = conns \ {} /\ available' = available \ {}
      BY <2>1
    <3> QED
      BY <3>1
  <2>2. ASSUME NEW gone \in Excess(ClampConnections(n)),
               available' = available \ gone, conns' = conns \ gone
        PROVE  \E g \in SUBSET available :
                 conns' = conns \ g /\ available' = available \ g
    <3>1. gone \in SUBSET available
      BY DEF Excess
    <3> QED
      BY <2>2, <3>1
  <2> QED
    BY <2>1, <2>2 DEF Resize
<1>3. UNCHANGED <<inUse, age, requests, active, maxRequests, timeout, pc, held,
                  broken>>
  BY DEF Resize
<1>4. IsFiniteSet(conns')
  BY <1>2, FS_Difference DEF PoolInv
<1>5. Partition'
  BY <1>2, <1>3 DEF PoolInv, Partition, Users
<1>6. TypeOK'
  BY <1>1, <1>2, <1>3 DEF PoolInv, TypeOK, Partition
<1> QED
  BY <1>4, <1>5, <1>6 DEF PoolInv

\* The maintenance operations keep the invariant.
LEMMA MaintenanceKeeps ==
  ASSUME PoolInv, ~broken, Maintenance
  PROVE  PoolInv'
<1>1. ASSUME NEW n \in SizeArgs, Resize(n) PROVE PoolInv'
  BY <1>1, ResizeKeeps
<1>2. ASSUME NEW n \in TimeoutArgs, SetConnectionTimeout(n) PROVE PoolInv'
  <2>1. timeout' \in Nat
    BY <1>2 DEF SetConnectionTimeout, AtLeast
  <2> QED
    BY <1>2, <2>1
       DEF SetConnectionTimeout, PoolInv, TypeOK, Partition, Users
<1>3. ASSUME NEW n \in RequestArgs, SetMaxRequestsPerConnection(n)
      PROVE  PoolInv'
  <2>1. maxRequests' \in Nat \ {0}
    BY <1>3 DEF SetMaxRequestsPerConnection, AtLeast
  <2> QED
    BY <1>3, <2>1
       DEF SetMaxRequestsPerConnection, PoolInv, TypeOK, Partition, Users
<1>4. CASE CleanupAll
  <2>1. /\ conns' = {} /\ available' = {} /\ inUse' = {} /\ active' = 0
        /\ broken' = (inUse # {})
        /\ UNCHANGED <<age, requests, limits, pc, held>>
    BY <1>4 DEF CleanupAll
  <2>2. IsFiniteSet(conns') /\ Cardinality(inUse') = 0
    BY <2>1, FS_EmptySet
  <2>3. TypeOK'
    BY <2>1 DEF PoolInv, TypeOK, limits
  <2>4. ASSUME ~broken' PROVE Partition'
    BY <2>1, <2>2, <2>4 DEF PoolInv, Partition, Users
  <2> QED
    BY <2>2, <2>3, <2>4 DEF PoolInv
<1> QED
  BY <1>1, <1>2, <1>3, <1>4 DEF Maintenance

\* Time only makes connections older.
LEMMA TickKeeps ==
  ASSUME PoolInv, ~broken, Tick
  PROVE  PoolInv'
<1>1. age' \in [Handles -> 0 .. MaxAge]
  BY DEF Tick, AtMost, PoolInv, TypeOK
<1> QED
  BY <1>1 DEF Tick, PoolInv, TypeOK, Partition, Users, limits

\* Initialize leaves one available connection.
LEMMA PoolInitially == Init => PoolInv
<1> SUFFICES ASSUME Init PROVE PoolInv
  OBVIOUS
<1> PICK h \in Handles : conns = {h} /\ available = {h}
  BY DEF Init
<1>1. IsFiniteSet(conns) /\ Cardinality(inUse) = 0
  BY FS_Singleton, FS_EmptySet DEF Init
<1>2. maxConns \in 1 .. ASYNCNET_MAX_CONNECTIONS
  BY DEF Init, ClampConnections, AtMost
<1>3. TypeOK
  <2>1. age \in [Handles -> 0 .. MaxAge] /\ requests \in [Handles -> Nat]
    BY DEF Init
  <2>2. /\ pc \in [Workers -> {"idle", "sweep", "pick", "using"}]
        /\ held \in [Workers -> Handles \cup {NoHandle}]
        /\ \A w \in Workers : held[w] = NoHandle /\ pc[w] = "idle"
    BY DEF Init
  <2>3. conns \subseteq Handles /\ available \subseteq Handles /\ inUse \subseteq conns
    BY DEF Init
  <2>4. active \in Int /\ maxRequests \in Nat \ {0} /\ timeout \in Nat
    BY DEF Init
  <2>5. broken \in BOOLEAN
    BY Zenon DEF Init
  <2>6. /\ \A w \in Workers : (held[w] # NoHandle) <=> (pc[w] = "using")
        /\ \A w \in Workers : pc[w] \notin {"sweep", "pick"}
    BY <2>2
  <2> QED
    BY <1>2, <2>1, <2>2, <2>3, <2>4, <2>5, <2>6 DEF TypeOK
<1>4. Partition
  BY <1>1 DEF Init, Partition, Users
<1> QED
  BY <1>1, <1>3, <1>4 DEF PoolInv

\* The invariant is inductive.
LEMMA NextKeepsPoolInv ==
  ASSUME PoolInv, [Next]_vars
  PROVE  PoolInv'
<1>1. CASE UNCHANGED vars
  BY <1>1 DEF vars, limits, PoolInv, TypeOK, Partition, Users
<1>2. CASE Next
  <2>1. ASSUME NEW w \in Workers,
               AcquireHandle(w) \/ Acquiring(w) \/ ReleaseHandle(w)
        PROVE  PoolInv'
    BY <1>2, <2>1, AcquireKeeps, SweepKeeps, PickValidKeeps, PickInvalidKeeps,
       CreateKeeps, ReturnsNullKeeps, ReleaseKeeps DEF Acquiring, Next
  <2> QED
    BY <1>2, <2>1, MaintenanceKeeps, TickKeeps DEF Next
<1> QED
  BY <1>1, <1>2

\* The partition into available and used connections holds in every
\* reachable state, until memory in use is freed.
THEOREM PoolInvariant == Spec => []PoolInv
BY PoolInitially, NextKeepsPoolInv, PTL DEF Spec

\* Every variable keeps its type, and the critical section its single owner.
THEOREM TypeCorrect == Spec => []TypeOK
<1>1. PoolInv => TypeOK
  BY DEF PoolInv
<1> QED
  BY <1>1, PoolInvariant, PTL

\* No two workers ever share a curl handle, and none uses one that was freed
\* or is on offer, until memory in use is freed.
THEOREM HandlesExclusive == Spec => []ExclusiveUse
<1>1. PoolInv => ExclusiveUse
  BY DEF PoolInv, Partition, ExclusiveUse
<1> QED
  BY <1>1, PoolInvariant, PTL

\* No connection leaks: each is on offer or with the worker that uses it.
THEOREM NothingLeaks == Spec => []NoLeak
<1>1. PoolInv => NoLeak
  BY DEF PoolInv, Partition, NoLeak
<1> QED
  BY <1>1, PoolInvariant, PTL

\* The count of active connections is exact.
THEOREM ActiveCountCorrect == Spec => []ActiveCountExact
<1>1. PoolInv => ActiveCountExact
  BY DEF PoolInv, Partition, ActiveCountExact
<1> QED
  BY <1>1, PoolInvariant, PTL

\* Only CreateNewConnection adds to the pool, and only below the limit.
LEMMA StepGrowsWithinLimit ==
  ASSUME PoolInv, [Next]_vars
  PROVE  Cardinality(conns') <= maxConns' \/ conns' \subseteq conns
<1>1. ASSUME NEW w \in Workers, CreateNewConnection(w)
      PROVE  Cardinality(conns') <= maxConns'
  <2> PICK h \in Handles \ conns : conns' = conns \cup {h}
    BY <1>1 DEF CreateNewConnection
  <2>1. Cardinality(conns) \in Nat /\ Cardinality(conns') = Cardinality(conns) + 1
    BY FS_CardinalityType, FS_AddElement DEF PoolInv
  <2>2. Cardinality(conns) < maxConns /\ maxConns' = maxConns /\ maxConns \in Nat
    BY <1>1 DEF CreateNewConnection, HasRoom, HandOut, limits, PoolInv, TypeOK
  <2> QED
    BY <2>1, <2>2
<1>2. ASSUME NEW w \in Workers,
             \/ AcquireHandle(w) \/ Sweep(w) \/ PickValid(w) \/ PickInvalid(w)
             \/ ReturnsNull(w) \/ ReleaseHandle(w)
      PROVE  conns' \subseteq conns
  BY <1>2 DEF AcquireHandle, Sweep, PickValid, PickInvalid, ReturnsNull,
              ReleaseHandle, InvalidateHandles
<1>3. ASSUME Maintenance PROVE conns' \subseteq conns
  BY <1>3 DEF Maintenance, Resize, SetConnectionTimeout,
              SetMaxRequestsPerConnection, CleanupAll
<1>4. CASE Tick \/ UNCHANGED vars
  BY <1>4 DEF Tick, vars
<1> QED
  BY <1>1, <1>2, <1>3, <1>4 DEF Next, Acquiring

\* The pool grows only while it is within its limit.
THEOREM GrowthLimited == Spec => GrowsWithinLimit
<1>1. PoolInv /\ [Next]_vars
        => [Cardinality(conns') <= maxConns' \/ conns' \subseteq conns]_vars
  BY StepGrowsWithinLimit
<1> QED
  BY <1>1, PoolInvariant, PTL DEF Spec, GrowsWithinLimit

\* A worker that leaves the loop without a handle leaves it through
\* ReturnsNull, when nothing is on offer.
LEMMA StepNullMeansBusy ==
  ASSUME PoolInv, [Next]_vars, NEW w \in Workers,
         pc[w] = "pick", pc'[w] = "idle"
  PROVE  broken \/ HasRoom \/ \A h \in conns : \E v \in Users : held[v] = h
<1>1. pc \in [Workers -> {"idle", "sweep", "pick", "using"}]
  BY DEF PoolInv, TypeOK
<1>2. CASE available = {}
  BY <1>2 DEF PoolInv, Partition
<1>3. ASSUME NEW v \in Workers, ReturnsNull(v) PROVE available = {}
  BY <1>3 DEF ReturnsNull
<1>4. ASSUME NEW v \in Workers,
             \/ AcquireHandle(v) \/ Sweep(v) \/ PickValid(v) \/ PickInvalid(v)
             \/ CreateNewConnection(v) \/ ReleaseHandle(v)
      PROVE  FALSE
  BY <1>1, <1>4 DEF AcquireHandle, Sweep, PickValid, PickInvalid,
                    CreateNewConnection, ReleaseHandle, HandOut
<1>5. ASSUME Maintenance PROVE FALSE
  BY <1>1, <1>5 DEF Maintenance, Resize, SetConnectionTimeout,
                    SetMaxRequestsPerConnection, CleanupAll
<1>6. CASE Tick \/ UNCHANGED vars
  BY <1>1, <1>6 DEF Tick, vars
<1> QED
  BY <1>2, <1>3, <1>4, <1>5, <1>6 DEF Next, Acquiring

\* A full pool returns nullptr only when its connections are all in use.
THEOREM NullOnlyWhenBusy == Spec => NullMeansBusy
<1> DEFINE Step ==
      \A w \in Workers :
        pc[w] = "pick" /\ pc'[w] = "idle" =>
          \/ broken
          \/ HasRoom
          \/ \A h \in conns : \E v \in Users : held[v] = h
<1>1. PoolInv /\ [Next]_vars => [Step]_vars
  BY StepNullMeansBusy
<1> QED
  BY <1>1, PoolInvariant, PTL DEF Spec, NullMeansBusy
=============================================================================
