------------------------- MODULE RequestQueueProofs -------------------------
(***************************************************************************)
(* What RequestQueue guarantees for every set of threads, every set of     *)
(* requests, every size and every bound.                                   *)
(***************************************************************************)
EXTENDS RequestQueue, FiniteSetTheorems, TLAPS

USE ThreadsAssumption, RequestsAssumption, ConfigAssumption

\* The inductive strengthening of TypeOK: cardinalities of the queue are
\* numbers only because the queue is finite.
TypeInv == TypeOK /\ IsFiniteSet(queue)

\* SetMaxSize stores a size in the range the code allows.
LEMMA ClampInRange ==
  ASSUME NEW n \in Int
  PROVE  Clamp(n) \in 1 .. ASYNCNET_MAX_QUEUE_SIZE
BY DEF Clamp

\* The requests Clear takes out are finitely many.
LEMMA RemoveKeepsFinite ==
  ASSUME TypeInv, NEW types, Remove(types)
  PROVE  /\ queue' \subseteq Requests
         /\ IsFiniteSet(queue')
         /\ count' \in [RequestType -> Int]
         /\ cleared' \in Int
<1> DEFINE gone == {r \in queue : r.type \in types}
<1>1. IsFiniteSet(queue) /\ queue \subseteq Requests
  BY DEF TypeInv, TypeOK
<1>2. IsFiniteSet(gone) /\ IsFiniteSet(queue \ gone)
  BY <1>1, FS_Subset
<1>3. Cardinality(gone) \in Nat
  BY <1>2, FS_CardinalityType
<1> DEFINE number(ty) == Cardinality({r \in gone : r.type = ty})
<1>4. ASSUME NEW ty \in RequestType PROVE number(ty) \in Nat
  BY <1>2, FS_Subset, FS_CardinalityType
<1>5. /\ queue' = queue \ gone
      /\ count' = [ty \in RequestType |-> count[ty] - number(ty)]
      /\ cleared' = cleared + Cardinality(gone)
  BY DEF Remove
<1> HIDE DEF gone, number
<1>6. count \in [RequestType -> Int] /\ cleared \in Int
  BY DEF TypeInv, TypeOK
<1>7. count' \in [RequestType -> Int]
  BY <1>4, <1>5, <1>6
<1> QED
  BY <1>1, <1>2, <1>3, <1>5, <1>6, <1>7

\* The end of Push keeps the types.
LEMMA EnqueueKeepsType ==
  ASSUME TypeInv, NEW p \in Producers, NEW r \in Requests, Enqueue(p, r)
  PROVE  TypeInv'
<1>1. IsFiniteSet(queue')
  BY FS_AddElement DEF TypeInv, Enqueue
<1>2. TypeOK'
  BY DEF TypeInv, TypeOK, Enqueue, IncrementCounter, Goto, config, Threads
<1> QED
  BY <1>1, <1>2 DEF TypeInv

\* Taking a request keeps the types.
LEMMA TakeKeepsType ==
  ASSUME TypeInv, NEW c \in Consumers, Take(c)
  PROVE  TypeInv'
<1> PICK r \in Top(queue) : queue' = queue \ {r} /\ DecrementCounter(r)
  BY DEF Take
<1>1. r \in Requests
  BY DEF Top, TypeInv, TypeOK
<1>2. IsFiniteSet(queue')
  BY FS_RemoveElement DEF TypeInv
<1>3. TypeOK'
  BY <1>1 DEF TypeInv, TypeOK, Take, DecrementCounter, Goto, config, Threads
<1> QED
  BY <1>2, <1>3 DEF TypeInv

\* A step that moves one thread, whose producers keep what they hold, and
\* changes no data.
LEMMA MoveKeepsType ==
  ASSUME TypeInv, NEW t \in Threads, NEW label,
         Goto(t, label), UNCHANGED <<queue, config, counters, pending>>,
         label \in {"idle", "waiting", "awake", "expired", "notify",
                    "haveStats"},
         t \in Producers => /\ pc[t] \in {"waiting", "awake"} <=>
                                 label \in {"waiting", "awake"}
                            /\ label \in {"idle", "waiting", "awake", "notify"},
         t \in Consumers => label # "haveStats",
         t \in Admins => label \in {"idle", "haveStats"}
  PROVE  TypeInv'
BY DEF TypeInv, TypeOK, Goto, config, counters, Threads

\* Taking a request or waiting for one keeps the types.
LEMMA TakeOrKeepsType ==
  ASSUME TypeInv, NEW c \in Consumers, NEW label \in {"waiting", "idle"},
         TakeOr(c, label)
  PROVE  TypeInv'
<1>1. CASE Take(c)
  BY <1>1, TakeKeepsType
<1>2. CASE Goto(c, label) /\ UNCHANGED <<queue, config, counters, pending>>
  BY <1>2, MoveKeepsType DEF Threads
<1> QED
  BY <1>1, <1>2 DEF TakeOr

\* Displacing a low-priority request keeps the types.
LEMMA DisplaceKeepsType ==
  ASSUME TypeInv, NEW p \in Producers, NEW r \in Requests, PushDisplaces(p, r)
  PROVE  TypeInv'
<1> PICK v \in Top(InQueue(PRIORITY_LOW)) :
      queue' = (queue \ {v}) \cup {r} /\ ExchangeCounters(v, r)
  BY DEF PushDisplaces
<1>1. v \in queue /\ v \in Requests
  BY DEF Top, InQueue, TypeInv, TypeOK
<1>2. IsFiniteSet(queue \ {v})
  BY FS_RemoveElement DEF TypeInv
<1>3. IsFiniteSet(queue')
  BY <1>2, FS_AddElement
<1>4. TypeOK'
  <2>1. count' \in [RequestType -> Int]
    BY <1>1 DEF ExchangeCounters, TypeInv, TypeOK
  <2> QED
    BY <1>1, <2>1
       DEF PushDisplaces, Calls, TypeInv, TypeOK, Goto, config, Threads
<1> QED
  BY <1>3, <1>4 DEF TypeInv

\* Every way through Push keeps the types.
LEMMA PushKeepsType ==
  ASSUME TypeInv, NEW p \in Producers, NEW r \in Requests, Push(p, r)
  PROVE  TypeInv'
<1>1. CASE PushRoom(p, r)
  BY <1>1, EnqueueKeepsType DEF PushRoom
<1>2. CASE PushRefused(p, r)
  BY <1>2 DEF PushRefused, TypeInv, TypeOK, config
<1>3. CASE PushDisplaces(p, r)
  BY <1>3, DisplaceKeepsType
<1>4. CASE PushBlocks(p, r)
  BY <1>4 DEF PushBlocks, Calls, TypeInv, TypeOK, Goto, config, counters, Threads
<1> QED
  BY <1>1, <1>2, <1>3, <1>4 DEF Push

\* Clearing and waking everyone keeps the types.
LEMMA ClearKeepsType ==
  ASSUME TypeInv, NEW a \in Admins, NEW types, Remove(types),
         NEW label \in {"idle", "shutdown"},
         pc' = [t \in Threads |-> IF t = a THEN label ELSE Awoken(t)]
  PROVE  TypeInv'
<1>1. /\ queue' \subseteq Requests
      /\ IsFiniteSet(queue')
      /\ count' \in [RequestType -> Int]
      /\ cleared' \in Int
  BY RemoveKeepsFinite
<1>2. UNCHANGED <<config, total, dropped, processed, evicted, forgotten, pending>>
  BY DEF Remove
<1> QED
  BY <1>1, <1>2 DEF TypeInv, TypeOK, config, Awoken, Threads

\* Resetting the statistics does: what it stores in the ghosts are numbers.
LEMMA ResetKeepsType ==
  ASSUME TypeInv, NEW a \in Admins, ResetStatistics(a)
  PROVE  TypeInv'
<1>1. \A ty \in RequestType : Cardinality(OfType(queue, ty)) \in Nat
  BY FS_Subset, FS_CardinalityType DEF OfType, TypeInv
<1>2. Cardinality(queue) \in Nat /\ Cardinality(Leaving) \in Nat
  BY FS_Subset, FS_CardinalityType DEF Leaving, TypeInv
<1>3. /\ forgotten' = [ty \in RequestType |-> Cardinality(OfType(queue, ty))]
      /\ cleared' = 0 - Cardinality(queue) - Cardinality(Leaving)
  BY DEF ResetStatistics
<1>4. forgotten' \in [RequestType -> Nat] /\ cleared' \in Int
  BY <1>1, <1>2, <1>3
<1> QED
  BY <1>4 DEF ResetStatistics, TypeInv, TypeOK, config

\* Every step keeps the type invariant.
LEMMA CallKeepsType ==
  ASSUME TypeInv, NEW t \in Threads, Call(t)
  PROVE  TypeInv'
<1>1. ASSUME t \in Producers, NEW r \in Requests, Push(t, r) PROVE TypeInv'
  BY <1>1, PushKeepsType
<1>2. CASE t \in Consumers /\ Pop(t)
  BY <1>2, TakeKeepsType DEF Pop
<1>3. CASE t \in Consumers /\ PopTimeout(t)
  BY <1>3, TakeOrKeepsType DEF PopTimeout
<1>4. ASSUME t \in Admins, NEW types, ClearCall(t, types) PROVE TypeInv'
  <2>1. pc' = [u \in Threads |-> IF u = t THEN "idle" ELSE Awoken(u)]
    BY <1>4 DEF ClearCall, Awoken
  <2> QED
    BY <1>4, <2>1, ClearKeepsType DEF ClearCall
<1>5. CASE t \in Admins /\ Shutdown(t)
  BY <1>5, ClearKeepsType DEF Shutdown
<1>6. ASSUME t \in Admins, NEW n \in SizeArgs, SetMaxSize(t, n) PROVE TypeInv'
  BY <1>6, ClampInRange DEF SetMaxSize, TypeInv, TypeOK, counters
<1>7. ASSUME t \in Admins, NEW drop \in DropModes, SetDropOnFull(t, drop)
      PROVE  TypeInv'
  BY <1>7 DEF SetDropOnFull, TypeInv, TypeOK, counters
<1>8. CASE t \in Admins /\ GetStatistics(t)
  BY <1>8, MoveKeepsType DEF GetStatistics
<1>9. CASE t \in Admins /\ ResetStatistics(t)
  BY <1>9, ResetKeepsType
<1> QED
  BY <1>1, <1>2, <1>3, <1>4, <1>5, <1>6, <1>7, <1>8, <1>9
     DEF Call, Clear, ClearType

\* The steps inside a call keep the types.
LEMMA ContinueKeepsType ==
  ASSUME TypeInv, NEW t \in Threads, Continue(t)
  PROVE  TypeInv'
<1>1. CASE NotifyOne(t)
  <2>1. CASE Goto(t, "idle")
    BY <1>1, <2>1, MoveKeepsType DEF NotifyOne
  <2>2. ASSUME NEW w \in Waiting, pc' = [pc EXCEPT ![t] = "idle", ![w] = "awake"]
        PROVE  TypeInv'
    BY <1>1, <2>2
       DEF NotifyOne, Waiting, TypeInv, TypeOK, config, counters, Threads
  <2> QED
    BY <1>1, <2>1, <2>2 DEF NotifyOne
<1>2. CASE t \in Producers /\ ResumePush(t)
  <2>1. CASE Goto(t, "waiting") /\ UNCHANGED <<queue, config, counters, pending>>
    BY <1>2, <2>1, MoveKeepsType DEF ResumePush
  <2>2. CASE Enqueue(t, pending[t])
    <3>1. pending[t] \in Requests
      BY <1>2 DEF ResumePush, TypeInv, TypeOK
    <3> QED
      BY <1>2, <2>2, <3>1, EnqueueKeepsType
  <2> QED
    BY <1>2, <2>1, <2>2 DEF ResumePush
<1>3. CASE t \in Consumers /\ (ResumePop(t) \/ ExpirePop(t))
  BY <1>3, TakeOrKeepsType DEF ResumePop, ExpirePop
<1>4. CASE t \in Consumers /\ UpdateWaitTimeStats(t)
  BY <1>4 DEF UpdateWaitTimeStats, TypeInv, TypeOK, Goto, config, Threads
<1>5. CASE t \in Admins /\ FinishShutdown(t)
  BY <1>5 DEF FinishShutdown, TypeInv, TypeOK, Awoken, config, counters, Threads
<1>6. CASE t \in Admins /\ ReadStatistics(t)
  BY <1>6, MoveKeepsType DEF ReadStatistics
<1> QED
  BY <1>1, <1>2, <1>3, <1>4, <1>5, <1>6 DEF Continue

\* The queue a factory hands over has the types.
LEMMA TypeInitially == Init => TypeInv
<1> SUFFICES ASSUME Init PROVE TypeInv
  OBVIOUS
<1>1. maxSize \in 1 .. ASYNCNET_MAX_QUEUE_SIZE
  BY ClampInRange DEF Init
<1>2. IsFiniteSet(queue)
  BY FS_EmptySet DEF Init
<1> QED
  BY <1>1, <1>2 DEF Init, TypeInv, TypeOK, Threads

\* The type invariant is inductive.
LEMMA NextKeepsType ==
  ASSUME TypeInv, [Next]_vars
  PROVE  TypeInv'
<1>1. CASE UNCHANGED vars
  BY <1>1 DEF TypeInv, TypeOK, vars, config, counters
<1>2. ASSUME NEW t \in Threads, SpuriousWakeup(t) PROVE TypeInv'
  <2>1. t \notin Admins
    BY <1>2 DEF SpuriousWakeup, TypeInv, TypeOK
  <2> QED
    BY <1>2, <2>1, MoveKeepsType DEF SpuriousWakeup
<1>3. ASSUME NEW c \in Consumers, Timeout(c) PROVE TypeInv'
  BY <1>3, MoveKeepsType DEF Timeout, Threads
<1> QED
  BY <1>1, <1>2, <1>3, CallKeepsType, ContinueKeepsType DEF Next

\* In every behaviour every variable has the type the code gives it; in
\* particular a producer holds a request exactly while it is blocked.
THEOREM TypeCorrect == Spec => []TypeOK
<1>1. Init => TypeInv
  BY TypeInitially
<1>2. TypeInv /\ [Next]_vars => TypeInv'
  BY NextKeepsType
<1>3. TypeInv => TypeOK
  BY DEF TypeInv
<1> QED
  BY <1>1, <1>2, <1>3, PTL DEF Spec

\* The type invariant, with the finiteness the counting proofs need, holds in
\* every reachable state.
THEOREM TypeInvariant == Spec => []TypeInv
BY TypeInitially, NextKeepsType, PTL DEF Spec
-----------------------------------------------------------------------------
(***************************************************************************)
(* What a step does to the requests, whatever thread takes it.             *)
(***************************************************************************)
Enters(r) ==
  /\ queue' = queue \cup {r}
  /\ count' = [count EXCEPT ![r.type] = @ + 1]
  /\ total' = total + 1
  /\ Leaving' = Leaving
  /\ UNCHANGED <<dropped, processed, evicted, cleared, forgotten>>

Displaces(r, v) ==
  /\ queue' = (queue \ {v}) \cup {r}
  /\ ExchangeCounters(v, r)
  /\ total' = total + 1
  /\ dropped' = dropped + 1
  /\ evicted' = evicted + 1
  /\ Leaving' = Leaving
  /\ UNCHANGED <<processed, cleared, forgotten>>

Leaves(r, c) ==
  /\ queue' = queue \ {r}
  /\ count' = [count EXCEPT ![r.type] = @ - 1]
  /\ Leaving = {}
  /\ Leaving' = {c}
  /\ UNCHANGED <<total, dropped, processed, evicted, cleared, forgotten>>

Recorded(c) ==
  /\ Leaving' = Leaving \ {c}
  /\ processed' = processed + 1
  /\ UNCHANGED <<queue, count, total, dropped, evicted, cleared, forgotten>>

DataUnchanged ==
  /\ Leaving' = Leaving
  /\ UNCHANGED <<queue, count, total, processed, evicted, cleared, forgotten>>
  /\ dropped' \in {dropped, dropped + 1}

RequestStep ==
  \/ \E r \in Requests \ queue : Enters(r)
  \/ \E r \in Requests \ queue, v \in InQueue(PRIORITY_LOW) :
       /\ GetRequestPriority(r.type) = PRIORITY_HIGH
       /\ Displaces(r, v)
  \/ \E r \in queue, c \in Consumers : Leaves(r, c)
  \/ \E types : Remove(types) /\ Leaving' = Leaving
  \/ \E c \in Leaving : Recorded(c)
  \/ DataUnchanged

\* A request that a blocked producer holds is held by nobody else: not by the
\* queue, not by another producer.
Ownership ==
  /\ \A p \in Producers : pending[p] \notin queue
  /\ \A p, q \in Producers :
       p # q /\ pending[p] # NoRequest => pending[p] # pending[q]

\* Taking a request is one request leaving.
LEMMA TakeIsRequestStep ==
  ASSUME TypeInv, NEW c \in Consumers, QueueFree, Take(c)
  PROVE  \E r \in queue : Leaves(r, c)
<1> PICK r \in Top(queue) : queue' = queue \ {r} /\ DecrementCounter(r)
  BY DEF Take
<1>1. r \in queue
  BY DEF Top
<1>2. Leaving = {}
  BY DEF QueueFree, Leaving
<1>3. Leaving' = {c}
  BY <1>2 DEF Leaving, Take, Goto, TypeInv, TypeOK, Threads
<1> QED
  BY <1>1, <1>2, <1>3 DEF Take, Leaves, DecrementCounter

\* A step that only moves a thread moves no request.
LEMMA MoveIsRequestStep ==
  ASSUME TypeInv, NEW t \in Threads, NEW label, label # "stats",
         t \in Consumers => pc[t] # "stats",
         Goto(t, label), UNCHANGED <<queue, config, counters, pending>>
  PROVE  DataUnchanged
BY DEF DataUnchanged, Leaving, Goto, TypeInv, TypeOK, counters, Threads

\* Taking or waiting is one of the kinds of step.
LEMMA TakeOrIsRequestStep ==
  ASSUME TypeInv, NEW c \in Consumers, QueueFree,
         NEW label \in {"waiting", "idle"}, TakeOr(c, label)
  PROVE  RequestStep
<1>1. CASE Take(c)
  BY <1>1, TakeIsRequestStep DEF RequestStep
<1>2. CASE Goto(c, label) /\ UNCHANGED <<queue, config, counters, pending>>
  BY <1>2, MoveIsRequestStep DEF RequestStep, QueueFree, Threads
<1> QED
  BY <1>1, <1>2 DEF TakeOr

\* The end of Push is one request entering.
LEMMA EnqueueIsRequestStep ==
  ASSUME TypeInv, NEW p \in Producers, NEW r \in Requests \ queue, Enqueue(p, r)
  PROVE  Enters(r)
<1>1. Leaving' = Leaving
  BY DEF Leaving, Enqueue, Goto, TypeInv, TypeOK, Threads
<1> QED
  BY <1>1 DEF Enters, Enqueue, IncrementCounter

\* Every way through Push is one of the kinds of step.
LEMMA PushIsRequestStep ==
  ASSUME TypeInv, NEW p \in Producers, NEW r \in Requests, Push(p, r)
  PROVE  RequestStep
<1>1. CASE PushRoom(p, r)
  BY <1>1, EnqueueIsRequestStep DEF PushRoom, Calls, RequestStep
<1>2. CASE PushRefused(p, r)
  BY <1>2 DEF PushRefused, RequestStep, DataUnchanged, Leaving
<1>3. CASE PushDisplaces(p, r)
  <2>1. Leaving' = Leaving
    BY <1>3 DEF PushDisplaces, Leaving, Goto, TypeInv, TypeOK, Threads
  <2>2. \E v \in InQueue(PRIORITY_LOW) : Displaces(r, v)
    BY <1>3, <2>1 DEF PushDisplaces, Displaces, Top
  <2>3. r \notin queue /\ GetRequestPriority(r.type) = PRIORITY_HIGH
    BY <1>3 DEF PushDisplaces, Calls, Refuses
  <2> QED
    BY <2>2, <2>3 DEF RequestStep
<1>4. CASE PushBlocks(p, r)
  BY <1>4 DEF PushBlocks, RequestStep, DataUnchanged, Leaving, Goto, Calls,
              TypeInv, TypeOK, counters, Threads
<1> QED
  BY <1>1, <1>2, <1>3, <1>4 DEF Push

\* Every step is one of these, or resets the statistics.
LEMMA StepKinds ==
  ASSUME TypeInv, Ownership, Next
  PROVE  RequestStep \/ \E a \in Admins : ResetStatistics(a)
<1> PICK t \in Threads : \/ Call(t)
                         \/ Continue(t)
                         \/ SpuriousWakeup(t)
                         \/ t \in Consumers /\ Timeout(t)
  BY DEF Next
<1>1. CASE Call(t)
  <2>1. ASSUME t \in Producers, NEW r \in Requests, Push(t, r) PROVE RequestStep
    BY <2>1, PushIsRequestStep
  <2>2. CASE t \in Consumers /\ Pop(t)
    BY <2>2, TakeIsRequestStep DEF Pop, RequestStep
  <2>3. CASE t \in Consumers /\ PopTimeout(t)
    BY <2>3, TakeOrIsRequestStep DEF PopTimeout
  <2>4. ASSUME t \in Admins, NEW types, ClearCall(t, types) PROVE RequestStep
    BY <2>4 DEF ClearCall, RequestStep, Leaving, Awoken, TypeInv, TypeOK,
                Threads
  <2>5. CASE t \in Admins /\ Shutdown(t)
    <3>1. Leaving' = Leaving
      BY <2>5 DEF Shutdown, Leaving, Awoken, TypeInv, TypeOK, Threads
    <3> QED
      BY <2>5, <3>1 DEF Shutdown, RequestStep
  <2>6. ASSUME t \in Admins, NEW n \in SizeArgs, SetMaxSize(t, n)
        PROVE  RequestStep
    BY <2>6 DEF SetMaxSize, RequestStep, DataUnchanged, Leaving, counters
  <2>7. ASSUME t \in Admins, NEW drop \in DropModes, SetDropOnFull(t, drop)
        PROVE  RequestStep
    BY <2>7 DEF SetDropOnFull, RequestStep, DataUnchanged, Leaving, counters
  <2>8. CASE t \in Admins /\ GetStatistics(t)
    BY <2>8, MoveIsRequestStep DEF GetStatistics, RequestStep
  <2>9. ASSUME t \in Admins, ResetStatistics(t)
        PROVE  \E a \in Admins : ResetStatistics(a)
    BY <2>9
  <2> QED
    BY <1>1, <2>1, <2>2, <2>3, <2>4, <2>5, <2>6, <2>7, <2>8, <2>9
       DEF Call, Clear, ClearType
<1>2. CASE Continue(t)
  <2>1. CASE NotifyOne(t)
    BY <2>1 DEF NotifyOne, Waiting, RequestStep, DataUnchanged, Leaving,
                Goto, TypeInv, TypeOK, counters, Threads
  <2>2. CASE t \in Producers /\ ResumePush(t)
    <3>1. CASE Goto(t, "waiting") /\ UNCHANGED <<queue, config, counters, pending>>
      BY <2>2, <3>1, MoveIsRequestStep DEF ResumePush, RequestStep
    <3>2. CASE Enqueue(t, pending[t])
      <4>1. pending[t] \in Requests \ queue
        BY <2>2 DEF ResumePush, TypeInv, TypeOK, Ownership
      <4> QED
        BY <2>2, <3>2, <4>1, EnqueueIsRequestStep DEF RequestStep
    <3> QED
      BY <2>2, <3>1, <3>2 DEF ResumePush
  <2>3. CASE t \in Consumers /\ (ResumePop(t) \/ ExpirePop(t))
    BY <2>3, TakeOrIsRequestStep DEF ResumePop, ExpirePop
  <2>4. CASE t \in Consumers /\ UpdateWaitTimeStats(t)
    <3>1. t \in Leaving /\ Leaving' = Leaving \ {t}
      BY <2>4 DEF UpdateWaitTimeStats, Leaving, Goto, TypeInv, TypeOK, Threads
    <3> QED
      BY <2>4, <3>1 DEF UpdateWaitTimeStats, RequestStep, Recorded
  <2>5. CASE t \in Admins /\ FinishShutdown(t)
    BY <2>5 DEF FinishShutdown, Awoken, RequestStep, DataUnchanged, Leaving,
                TypeInv, TypeOK, counters, Threads
  <2>6. CASE t \in Admins /\ ReadStatistics(t)
    BY <2>6, MoveIsRequestStep DEF ReadStatistics, RequestStep
  <2> QED
    BY <1>2, <2>1, <2>2, <2>3, <2>4, <2>5, <2>6 DEF Continue
<1>3. CASE SpuriousWakeup(t)
  BY <1>3, MoveIsRequestStep DEF SpuriousWakeup, RequestStep
<1>4. CASE t \in Consumers /\ Timeout(t)
  BY <1>4, MoveIsRequestStep DEF Timeout, RequestStep
<1> QED
  BY <1>1, <1>2, <1>3, <1>4
-----------------------------------------------------------------------------
(***************************************************************************)
(* Ownership of the requests.                                              *)
(***************************************************************************)
LEMMA OwnershipInitially == Init => Ownership
BY DEF Init, Ownership

\* The queue receives no request a producer waits with, and the producers
\* go on waiting with the same ones.
LEMMA OwnershipKept ==
  ASSUME Ownership, TypeInv, UNCHANGED pending,
         \A p \in Producers : pending[p] \notin queue' \ queue
  PROVE  Ownership'
BY DEF Ownership

\* The pushed request passes from the producer to the queue.
LEMMA EnqueueKeepsOwnership ==
  ASSUME Ownership, TypeInv, NEW p \in Producers, NEW r \in Requests,
         Enqueue(p, r),
         pending[p] = r \/ pending[p] = NoRequest,
         \A q \in Producers \ {p} : pending[q] # r
  PROVE  Ownership'
<1>1. /\ queue' = queue \cup {r}
      /\ pending' = [pending EXCEPT ![p] = NoRequest]
  BY DEF Enqueue
<1>2. pending \in [Producers -> Requests \cup {NoRequest}] /\ queue \subseteq Requests
  BY DEF TypeInv, TypeOK
<1> QED
  BY <1>1, <1>2 DEF Ownership

\* Every way through Push keeps requests with one owner.
LEMMA PushKeepsOwnership ==
  ASSUME Ownership, TypeInv, NEW p \in Producers, NEW r \in Requests, Push(p, r)
  PROVE  Ownership'
<1>1. CASE PushRoom(p, r)
  <2>1. pending[p] = NoRequest
    BY <1>1 DEF PushRoom, Calls, TypeInv, TypeOK
  <2> QED
    BY <1>1, <2>1, EnqueueKeepsOwnership DEF PushRoom, Calls
<1>2. CASE PushRefused(p, r)
  BY <1>2, OwnershipKept DEF PushRefused
<1>3. CASE PushDisplaces(p, r)
  BY <1>3, OwnershipKept DEF PushDisplaces, Calls
<1>4. CASE PushBlocks(p, r)
  BY <1>4 DEF PushBlocks, Calls, Ownership, TypeInv, TypeOK
<1> QED
  BY <1>1, <1>2, <1>3, <1>4 DEF Push

\* Ownership is inductive, given the types.
LEMMA NextKeepsOwnership ==
  ASSUME Ownership, TypeInv, [Next]_vars
  PROVE  Ownership'
<1>1. CASE UNCHANGED vars
  BY <1>1 DEF Ownership, vars
<1>2. ASSUME NEW t \in Producers, NEW r \in Requests, Push(t, r)
      PROVE  Ownership'
  BY <1>2, PushKeepsOwnership
<1>3. ASSUME NEW t \in Producers, ResumePush(t) PROVE Ownership'
  <2>1. CASE Enqueue(t, pending[t])
    <3>1. pending[t] \in Requests
      BY <1>3 DEF ResumePush, TypeInv, TypeOK
    <3>2. \A q \in Producers \ {t} : pending[q] # pending[t]
      BY <3>1 DEF Ownership
    <3> QED
      BY <2>1, <3>1, <3>2, EnqueueKeepsOwnership
  <2> QED
    BY <1>3, <2>1, OwnershipKept DEF ResumePush
<1>4. ASSUME NEW c \in Consumers, NEW label, Take(c) \/ TakeOr(c, label)
      PROVE  Ownership'
  BY <1>4, OwnershipKept DEF TakeOr, Take
<1>5. ASSUME NEW types, Remove(types) PROVE Ownership'
  BY <1>5, OwnershipKept DEF Remove
<1>6. ASSUME UNCHANGED <<queue, pending>> PROVE Ownership'
  BY <1>6, OwnershipKept
<1>7. ASSUME NEW t \in Threads, Call(t) PROVE Ownership'
  BY <1>7, <1>2, <1>4, <1>5, <1>6
     DEF Call, Pop, PopTimeout, Clear, ClearType, ClearCall, Shutdown,
         SetMaxSize, SetDropOnFull, GetStatistics, ResetStatistics
<1>8. ASSUME NEW t \in Threads, Continue(t) PROVE Ownership'
  BY <1>8, <1>3, <1>4, <1>6
     DEF Continue, NotifyOne, ResumePop, ExpirePop, UpdateWaitTimeStats,
         FinishShutdown, ReadStatistics
<1> QED
  BY <1>1, <1>6, <1>7, <1>8 DEF Next, SpuriousWakeup, Timeout

\* A request object is never in two places: what a blocked producer holds is
\* neither queued nor held by another blocked producer (the unique_ptr the
\* code moves from hand to hand).
THEOREM RequestsHaveOneOwner == Spec => []Ownership
<1>1. Init => Ownership
  BY OwnershipInitially
<1>2. TypeInv /\ Ownership /\ [Next]_vars => Ownership'
  BY NextKeepsOwnership
<1> QED
  BY <1>1, <1>2, TypeInvariant, PTL DEF Spec
-----------------------------------------------------------------------------
(***************************************************************************)
(* The per-type counters.                                                  *)
(***************************************************************************)
\* Adding a request adds one to the number of its type.
LEMMA AddCountsOne ==
  ASSUME NEW S, IsFiniteSet(S), NEW r, r \notin S, NEW ty
  PROVE  Cardinality(OfType(S \cup {r}, ty)) =
           IF r.type = ty THEN Cardinality(OfType(S, ty)) + 1
                          ELSE Cardinality(OfType(S, ty))
<1>1. IsFiniteSet(OfType(S, ty)) /\ r \notin OfType(S, ty)
  BY FS_Subset DEF OfType
<1>2. CASE r.type = ty
  <2>1. OfType(S \cup {r}, ty) = OfType(S, ty) \cup {r}
    BY <1>2 DEF OfType
  <2> QED
    BY <1>1, <1>2, <2>1, FS_AddElement
<1>3. CASE r.type # ty
  <2>1. OfType(S \cup {r}, ty) = OfType(S, ty)
    BY <1>3 DEF OfType
  <2> QED
    BY <1>3, <2>1
<1> QED
  BY <1>2, <1>3

\* Removing a request takes one from the number of its type.
LEMMA RemoveCountsOne ==
  ASSUME NEW S, IsFiniteSet(S), NEW r \in S, NEW ty
  PROVE  Cardinality(OfType(S \ {r}, ty)) =
           IF r.type = ty THEN Cardinality(OfType(S, ty)) - 1
                          ELSE Cardinality(OfType(S, ty))
<1>1. IsFiniteSet(OfType(S, ty))
  BY FS_Subset DEF OfType
<1>2. CASE r.type = ty
  <2>1. OfType(S \ {r}, ty) = OfType(S, ty) \ {r} /\ r \in OfType(S, ty)
    BY <1>2 DEF OfType
  <2> QED
    BY <1>1, <1>2, <2>1, FS_RemoveElement
<1>3. CASE r.type # ty
  <2>1. OfType(S \ {r}, ty) = OfType(S, ty)
    BY <1>3 DEF OfType
  <2> QED
    BY <1>3, <2>1
<1> QED
  BY <1>2, <1>3

\* Removing requests takes their number from the number of each type.
LEMMA RemoveCountsAll ==
  ASSUME NEW S, IsFiniteSet(S), NEW T \in SUBSET S, NEW ty
  PROVE  Cardinality(OfType(S \ T, ty)) =
           Cardinality(OfType(S, ty)) - Cardinality(OfType(T, ty))
<1>1. IsFiniteSet(OfType(S, ty))
  BY FS_Subset DEF OfType
<1>2. /\ OfType(S \ T, ty) = OfType(S, ty) \ OfType(T, ty)
      /\ OfType(S, ty) \cap OfType(T, ty) = OfType(T, ty)
  BY DEF OfType
<1> QED
  BY <1>1, <1>2, FS_Difference

\* Every kind of step moves the counters with the queue.
LEMMA StepKeepsCounters ==
  ASSUME TypeInv, CountersMatchQueue, RequestStep
  PROVE  CountersMatchQueue'
<1> SUFFICES ASSUME NEW ty \in RequestType
             PROVE  count'[ty] = Cardinality(OfType(queue', ty)) - forgotten'[ty]
  BY DEF CountersMatchQueue, OfType
<1>1. /\ count[ty] = Cardinality(OfType(queue, ty)) - forgotten[ty]
      /\ forgotten[ty] \in Nat /\ UNCHANGED forgotten
      /\ Cardinality(OfType(queue, ty)) \in Nat
      /\ count[ty] \in Int
      /\ count \in [RequestType -> Int]
      /\ queue \subseteq Requests /\ IsFiniteSet(queue)
  BY FS_Subset, FS_CardinalityType
     DEF CountersMatchQueue, OfType, TypeInv, TypeOK, RequestStep, Enters,
         Displaces, Leaves, Remove, Recorded, DataUnchanged
<1>2. ASSUME NEW r \in Requests \ queue, Enters(r)
      PROVE  count'[ty] = Cardinality(OfType(queue', ty)) - forgotten'[ty]
  BY <1>1, <1>2, AddCountsOne DEF Enters
<1>3. ASSUME NEW r \in Requests \ queue, NEW v \in InQueue(PRIORITY_LOW),
             GetRequestPriority(r.type) = PRIORITY_HIGH, Displaces(r, v)
      PROVE  count'[ty] = Cardinality(OfType(queue', ty)) - forgotten'[ty]
  <2>1. v \in queue /\ v.type # r.type
    BY <1>3 DEF InQueue, PRIORITY_HIGH, PRIORITY_LOW
  <2>2. IsFiniteSet(queue \ {v}) /\ r \notin queue \ {v}
    BY <1>1, FS_RemoveElement
  <2>3. count'[ty] = IF ty = v.type THEN count[ty] - 1
                     ELSE IF ty = r.type THEN count[ty] + 1 ELSE count[ty]
    BY <1>1, <1>3, <2>1 DEF Displaces, ExchangeCounters
  <2>4. Cardinality(OfType(queue \ {v}, ty)) =
          IF v.type = ty THEN Cardinality(OfType(queue, ty)) - 1
                         ELSE Cardinality(OfType(queue, ty))
    BY <1>1, <2>1, RemoveCountsOne
  <2>5. Cardinality(OfType(queue', ty)) =
          IF r.type = ty THEN Cardinality(OfType(queue \ {v}, ty)) + 1
                         ELSE Cardinality(OfType(queue \ {v}, ty))
    BY <1>3, <2>2, AddCountsOne DEF Displaces
  <2> QED
    BY <1>1, <2>1, <2>3, <2>4, <2>5
<1>4. ASSUME NEW r \in queue, NEW c \in Consumers, Leaves(r, c)
      PROVE  count'[ty] = Cardinality(OfType(queue', ty)) - forgotten'[ty]
  BY <1>1, <1>4, RemoveCountsOne DEF Leaves
<1>5. ASSUME NEW types, Remove(types)
      PROVE  count'[ty] = Cardinality(OfType(queue', ty)) - forgotten'[ty]
  <2> DEFINE gone == {r \in queue : r.type \in types}
  <2>1. /\ queue' = queue \ gone
        /\ count'[ty] = count[ty] - Cardinality(OfType(gone, ty))
    BY <1>5 DEF Remove, OfType
  <2>2. gone \in SUBSET queue
    OBVIOUS
  <2> HIDE DEF gone
  <2>3. Cardinality(OfType(queue \ gone, ty)) =
          Cardinality(OfType(queue, ty)) - Cardinality(OfType(gone, ty))
    BY <1>1, <2>2, RemoveCountsAll
  <2>4. /\ Cardinality(OfType(queue, ty)) \in Nat
        /\ Cardinality(OfType(gone, ty)) \in Nat
    BY <1>1, <2>2, FS_Subset, FS_CardinalityType DEF OfType
  <2>5. forgotten'[ty] = forgotten[ty]
    BY <1>5 DEF Remove
  <2> QED
    BY <1>1, <2>1, <2>3, <2>4, <2>5
<1>6. ASSUME UNCHANGED <<queue, count>>
      PROVE  count'[ty] = Cardinality(OfType(queue', ty)) - forgotten'[ty]
  BY <1>1, <1>6
<1> QED
  BY <1>2, <1>3, <1>4, <1>5, <1>6 DEF RequestStep, Recorded, DataUnchanged

\* The counter of a type, the answer of GetLength(type), is the number of queued
\* requests of that type, less those that were queued when the statistics were
\* last reset.
THEOREM CountersCorrect == Spec => []CountersMatchQueue
<1>1. Init => CountersMatchQueue
  <2> SUFFICES ASSUME Init, NEW ty \in RequestType
               PROVE  count[ty] = Cardinality(OfType(queue, ty)) - forgotten[ty]
    BY DEF CountersMatchQueue
  <2>1. OfType(queue, ty) = {}
    BY DEF Init, OfType
  <2>2. Cardinality(OfType(queue, ty)) = 0
    BY <2>1, FS_EmptySet
  <2> QED
    BY <2>2 DEF Init
<1>2. TypeInv /\ Ownership /\ CountersMatchQueue /\ [Next]_vars
        => CountersMatchQueue'
  <2>1. CASE UNCHANGED vars
    BY <2>1 DEF CountersMatchQueue, OfType, vars, counters
  <2>2. ASSUME NEW a \in Admins, TypeInv, ResetStatistics(a)
        PROVE  CountersMatchQueue'
    <3>1. \A ty \in RequestType : Cardinality(OfType(queue, ty)) \in Nat
      BY <2>2, FS_Subset, FS_CardinalityType DEF OfType, TypeInv
    <3> QED
      BY <2>2, <3>1 DEF ResetStatistics, CountersMatchQueue, OfType
  <2> QED
    BY <2>1, <2>2, StepKinds, StepKeepsCounters
<1> QED
  BY <1>1, <1>2, TypeInvariant, RequestsHaveOneOwner, PTL DEF Spec
-----------------------------------------------------------------------------
(***************************************************************************)
(* Conservation of the requests.                                           *)
(***************************************************************************)

\* Conservation, and the finiteness without which it cannot be proved to last.
ConservationInv ==
  /\ total = Cardinality(queue) + processed + evicted + cleared
             + Cardinality(Leaving)
  /\ evicted <= dropped
  /\ IsFiniteSet(Leaving)

\* Every kind of step keeps the balance of accepted requests.
LEMMA StepKeepsConservation ==
  ASSUME TypeInv, ConservationInv, RequestStep
  PROVE  ConservationInv'
<1>1. /\ total = Cardinality(queue) + processed + evicted + cleared
                 + Cardinality(Leaving)
      /\ evicted <= dropped
      /\ IsFiniteSet(Leaving)
  BY DEF ConservationInv
<1>2. /\ total \in Nat /\ dropped \in Nat /\ processed \in Nat
      /\ evicted \in Nat /\ cleared \in Int
      /\ queue \subseteq Requests /\ IsFiniteSet(queue)
  BY DEF TypeInv, TypeOK
<1>3. Cardinality(queue) \in Nat /\ Cardinality(Leaving) \in Nat
  BY <1>1, <1>2, FS_CardinalityType
<1>4. ASSUME NEW r \in Requests \ queue, Enters(r) PROVE ConservationInv'
  <2>1. Cardinality(queue') = Cardinality(queue) + 1
    BY <1>2, <1>4, FS_AddElement DEF Enters
  <2> QED
    BY <1>1, <1>2, <1>3, <1>4, <2>1 DEF Enters, ConservationInv
<1>5. ASSUME NEW r \in Requests \ queue, NEW v \in InQueue(PRIORITY_LOW),
             Displaces(r, v)
      PROVE  ConservationInv'
  <2>1. v \in queue
    BY DEF InQueue
  <2>2. /\ IsFiniteSet(queue \ {v})
        /\ Cardinality(queue \ {v}) = Cardinality(queue) - 1
    BY <1>2, <2>1, FS_RemoveElement
  <2>3. queue' = (queue \ {v}) \cup {r} /\ r \notin queue \ {v}
    BY <1>5 DEF Displaces
  <2>4. Cardinality(queue') = Cardinality(queue \ {v}) + 1
    BY <2>2, <2>3, FS_AddElement
  <2>5. Cardinality(queue') = Cardinality(queue)
    BY <1>3, <2>2, <2>4
  <2> QED
    BY <1>1, <1>2, <1>3, <1>5, <2>5 DEF Displaces, ConservationInv
<1>6. ASSUME NEW r \in queue, NEW c \in Consumers, Leaves(r, c)
      PROVE  ConservationInv'
  <2>1. Cardinality(queue') = Cardinality(queue) - 1
    BY <1>2, <1>6, FS_RemoveElement DEF Leaves
  <2>2. /\ Cardinality(Leaving) = 0 /\ Cardinality(Leaving') = 1
        /\ IsFiniteSet(Leaving')
    BY <1>6, FS_EmptySet, FS_Singleton DEF Leaves
  <2>3. UNCHANGED <<total, dropped, processed, evicted, cleared, forgotten>>
    BY <1>6 DEF Leaves
  <2> QED
    BY <1>1, <1>2, <1>3, <2>1, <2>2, <2>3 DEF ConservationInv
<1>7. ASSUME NEW types, Remove(types), Leaving' = Leaving
      PROVE  ConservationInv'
  <2> DEFINE gone == {r \in queue : r.type \in types}
  <2>1. /\ queue' = queue \ gone
        /\ cleared' = cleared + Cardinality(gone)
        /\ UNCHANGED <<total, dropped, processed, evicted, forgotten>>
    BY <1>7 DEF Remove
  <2>2. queue \cap gone = gone /\ IsFiniteSet(gone)
    BY <1>2, FS_Subset
  <2> HIDE DEF gone
  <2>3. Cardinality(gone) \in Nat
    BY <2>2, FS_CardinalityType
  <2>4. Cardinality(queue') = Cardinality(queue) - Cardinality(gone)
    BY <1>2, <2>1, <2>2, FS_Difference
  <2>5. Cardinality(Leaving') = Cardinality(Leaving)
    BY <1>7
  <2> QED
    BY <1>1, <1>2, <1>3, <1>7, <2>1, <2>3, <2>4, <2>5 DEF ConservationInv
<1>8. ASSUME NEW c \in Leaving, Recorded(c) PROVE ConservationInv'
  <2>1. /\ Cardinality(Leaving') = Cardinality(Leaving) - 1
        /\ IsFiniteSet(Leaving')
    BY <1>1, <1>8, FS_RemoveElement DEF Recorded
  <2> QED
    BY <1>1, <1>2, <1>3, <1>8, <2>1 DEF Recorded, ConservationInv
<1>9. CASE DataUnchanged
  <2>1. /\ Cardinality(queue') = Cardinality(queue)
        /\ Cardinality(Leaving') = Cardinality(Leaving)
        /\ IsFiniteSet(Leaving')
    BY <1>1, <1>9 DEF DataUnchanged
  <2> QED
    BY <1>1, <1>2, <1>3, <1>9, <2>1 DEF DataUnchanged, ConservationInv
<1> QED
  BY <1>4, <1>5, <1>6, <1>7, <1>8, <1>9 DEF RequestStep

\* Every accepted request is accounted for.
THEOREM RequestsConserved == Spec => []Conservation
<1>1. Init => ConservationInv
  <2> SUFFICES ASSUME Init PROVE ConservationInv
    OBVIOUS
  <2>1. queue = {} /\ Leaving = {}
    BY DEF Init, Leaving, Threads
  <2>2. /\ Cardinality(queue) = 0 /\ Cardinality(Leaving) = 0
        /\ IsFiniteSet(Leaving)
    BY <2>1, FS_EmptySet
  <2>3. /\ total = 0 /\ processed = 0 /\ evicted = 0 /\ cleared = 0
        /\ dropped = 0
    BY DEF Init
  <2> QED
    BY <2>2, <2>3 DEF ConservationInv
<1>2. TypeInv /\ Ownership /\ ConservationInv /\ [Next]_vars => ConservationInv'
  <2>1. CASE UNCHANGED vars
    BY <2>1 DEF ConservationInv, Leaving, vars, counters
  <2>2. ASSUME NEW a \in Admins, TypeInv, ResetStatistics(a)
        PROVE  ConservationInv'
    <3>1. Cardinality(queue) \in Nat /\ Cardinality(Leaving) \in Nat
          /\ IsFiniteSet(Leaving)
      BY <2>2, FS_Subset, FS_CardinalityType DEF Leaving, TypeInv
    <3>2. /\ UNCHANGED queue /\ Leaving' = Leaving
          /\ total' = 0 /\ dropped' = 0 /\ processed' = 0 /\ evicted' = 0
          /\ cleared' = 0 - Cardinality(queue) - Cardinality(Leaving)
      BY <2>2 DEF ResetStatistics, Leaving
    <3> QED
      BY <3>1, <3>2 DEF ConservationInv
  <2> QED
    BY <2>1, <2>2, StepKinds, StepKeepsConservation
<1>3. ConservationInv => Conservation
  BY DEF ConservationInv, Conservation, Leaving
<1> QED
  BY <1>1, <1>2, <1>3, TypeInvariant, RequestsHaveOneOwner, PTL DEF Spec
-----------------------------------------------------------------------------
(***************************************************************************)
(* No lost wake-up.                                                        *)
(***************************************************************************)

\* Consumers that only call Pop never wait, so that queue_cv_ has producers as
\* its only waiters.
WakeupInv ==
  /\ NoLostWakeup
  /\ \A c \in Consumers : pc[c] \in {"idle", "stats", "notify"}

\* Without PopTimeout no consumer is ever blocked.
LEMMA ConsumersNeverWait ==
  ASSUME TypeInv, WakeupInv, "PopTimeout" \notin Operations, Next
  PROVE  \A c \in Consumers : pc'[c] \in {"idle", "stats", "notify"}
<1> SUFFICES ASSUME NEW c \in Consumers
             PROVE  pc'[c] \in {"idle", "stats", "notify"}
  OBVIOUS
<1>1. /\ pc[c] \in {"idle", "stats", "notify"}
      /\ \A d \in Consumers : pc[d] \in {"idle", "stats", "notify"}
  BY DEF WakeupInv
<1> PICK t \in Threads : \/ Call(t)
                         \/ Continue(t)
                         \/ SpuriousWakeup(t)
                         \/ t \in Consumers /\ Timeout(t)
  BY DEF Next
<1>2. CASE Call(t)
  BY <1>1, <1>2
     DEF Call, Push, PushRoom, PushRefused, PushDisplaces, PushBlocks, Enqueue,
         Pop, Take, Clear, ClearType, ClearCall, Shutdown, Awoken, SetMaxSize,
         SetDropOnFull, GetStatistics, ResetStatistics, Goto, TypeInv, TypeOK,
         Threads
<1>3. CASE Continue(t)
  BY <1>1, <1>3
     DEF Continue, NotifyOne, Waiting, ResumePush, Enqueue, ResumePop,
         ExpirePop, UpdateWaitTimeStats, FinishShutdown, Awoken,
         ReadStatistics, Goto, TypeInv, TypeOK, Threads
<1>4. CASE SpuriousWakeup(t) \/ (t \in Consumers /\ Timeout(t))
  BY <1>1, <1>4 DEF SpuriousWakeup, Timeout, Goto, TypeInv, TypeOK, Threads
<1> QED
  BY <1>2, <1>3, <1>4

\* A thread on its way to wake somebody.
Active(t) == pc[t] \in {"notify", "awake", "stats"}

\* Whatever makes room, or wakes a thread in vain, leaves a waker under way.
LEMMA WakeupKept ==
  ASSUME TypeInv, WakeupInv, Next,
         "PopTimeout" \notin Operations, "SetMaxSize" \notin Operations
  PROVE  NoLostWakeup'
<1> SUFFICES ASSUME ~Full', NEW p \in Producers, pc'[p] = "waiting"
             PROVE  \E u \in Threads : Active(u)'
  BY DEF NoLostWakeup, Active
<1>1. pc \in [Threads -> {"idle", "waiting", "awake", "expired", "stats",
                         "notify", "haveStats", "shutdown"}]
  BY DEF TypeInv, TypeOK
<1>2. ASSUME NEW t \in Threads, NEW label \in {"notify", "awake", "stats"},
             pc'[t] = label
      PROVE  \E u \in Threads : Active(u)'
  BY <1>2 DEF Active
<1>3. ASSUME UNCHANGED <<queue, maxSize>>,
             NEW t \in Admins, UNCHANGED pc \/ Goto(t, "haveStats")
                                            \/ Goto(t, "idle")
      PROVE  \E u \in Threads : Active(u)'
  <2>1. ~Full /\ pc[p] = "waiting"
    BY <1>1, <1>3 DEF Full, Goto, Threads
  <2>2. PICK u \in Threads : Active(u)
    BY <2>1 DEF WakeupInv, NoLostWakeup, Active
  <2>3. u # t
    BY <1>3, <2>2 DEF Active, TypeInv, TypeOK
  <2> QED
    BY <1>1, <1>3, <2>2, <2>3 DEF Active, Goto
<1>4. ASSUME NEW q \in Producers, NEW r, Enqueue(q, r)
      PROVE  \E u \in Threads : Active(u)'
  BY <1>1, <1>2, <1>4 DEF Enqueue, Goto, Threads
<1> PICK t \in Threads : \/ Call(t)
                         \/ Continue(t)
                         \/ SpuriousWakeup(t)
                         \/ t \in Consumers /\ Timeout(t)
  BY DEF Next
<1>5. CASE Call(t)
  <2>1. ASSUME t \in Producers, NEW r \in Requests, Push(t, r)
        PROVE  \E u \in Threads : Active(u)'
    <3>1. CASE PushRoom(t, r)
      BY <1>4, <2>1, <3>1 DEF PushRoom
    <3>2. CASE PushRefused(t, r)
      BY <3>2 DEF PushRefused, WakeupInv, NoLostWakeup, Active, Full, config
    <3>3. CASE PushDisplaces(t, r)
      BY <1>1, <1>2, <3>3 DEF PushDisplaces, Goto
    <3>4. CASE PushBlocks(t, r)
      BY <3>4 DEF PushBlocks, Full, config
    <3> QED
      BY <2>1, <3>1, <3>2, <3>3, <3>4 DEF Push
  <2>2. CASE t \in Consumers /\ Pop(t)
    BY <1>1, <1>2, <2>2 DEF Pop, Take, Goto
  <2>3. ASSUME t \in Admins, NEW types, ClearCall(t, types) PROVE FALSE
    BY <1>1, <2>3 DEF ClearCall, Awoken, Threads
  <2>4. CASE t \in Admins /\ Shutdown(t)
    BY <1>1, <2>4 DEF Shutdown, Awoken, Threads
  <2>5. ASSUME t \in Admins, NEW drop \in DropModes, SetDropOnFull(t, drop)
        PROVE  \E u \in Threads : Active(u)'
    BY <1>3, <2>5 DEF SetDropOnFull
  <2>6. CASE t \in Admins /\ GetStatistics(t)
    BY <1>3, <2>6 DEF GetStatistics, config
  <2>7. CASE t \in Admins /\ ResetStatistics(t)
    BY <1>3, <2>7 DEF ResetStatistics, config
  <2> QED
    BY <1>5, <2>1, <2>2, <2>3, <2>4, <2>5, <2>6, <2>7 DEF Call, Clear, ClearType
<1>6. CASE Continue(t)
  <2>1. CASE NotifyOne(t)
    <3>1. CASE Waiting = {} /\ Goto(t, "idle")
      BY <1>1, <3>1 DEF Waiting, Goto, Threads
    <3>2. ASSUME NEW w \in Waiting, pc' = [pc EXCEPT ![t] = "idle", ![w] = "awake"]
          PROVE  \E u \in Threads : Active(u)'
      BY <1>1, <1>2, <3>2 DEF Waiting
    <3> QED
      BY <2>1, <3>1, <3>2 DEF NotifyOne
  <2>2. CASE t \in Producers /\ ResumePush(t)
    <3>1. CASE Full /\ UNCHANGED config /\ UNCHANGED queue
      BY <3>1 DEF Full, config
    <3> QED
      BY <1>4, <2>2, <3>1 DEF ResumePush
  <2>3. CASE t \in Consumers /\ UpdateWaitTimeStats(t)
    BY <1>1, <1>2, <2>3 DEF UpdateWaitTimeStats, Goto
  <2>4. CASE t \in Consumers /\ (ResumePop(t) \/ ExpirePop(t))
    BY <2>4 DEF ResumePop, ExpirePop, WakeupInv
  <2>5. CASE t \in Admins /\ FinishShutdown(t)
    BY <1>1, <2>5 DEF FinishShutdown, Awoken, Threads
  <2>6. CASE t \in Admins /\ ReadStatistics(t)
    BY <1>3, <2>6 DEF ReadStatistics, config
  <2> QED
    BY <1>6, <2>1, <2>2, <2>3, <2>4, <2>5, <2>6 DEF Continue
<1>7. CASE SpuriousWakeup(t)
  BY <1>1, <1>2, <1>7 DEF SpuriousWakeup, Goto
<1>8. CASE t \in Consumers /\ Timeout(t)
  BY <1>8 DEF Timeout, WakeupInv
<1> QED
  BY <1>5, <1>6, <1>7, <1>8

\* While no consumer calls PopTimeout and nobody calls SetMaxSize, a producer
\* that waits although there is room is about to be woken.
THEOREM NoWakeupIsLost ==
  ASSUME "PopTimeout" \notin Operations, "SetMaxSize" \notin Operations
  PROVE  Spec => []NoLostWakeup
<1>1. Init => WakeupInv
  BY DEF Init, WakeupInv, NoLostWakeup, Threads
<1>2. TypeInv /\ WakeupInv /\ [Next]_vars => WakeupInv'
  <2>1. CASE UNCHANGED vars
    BY <2>1 DEF WakeupInv, NoLostWakeup, Full, vars, config
  <2> QED
    BY <2>1, WakeupKept, ConsumersNeverWait DEF WakeupInv
<1>3. WakeupInv => NoLostWakeup
  BY DEF WakeupInv
<1> QED
  BY <1>1, <1>2, <1>3, TypeInvariant, PTL DEF Spec
-----------------------------------------------------------------------------
(***************************************************************************)
(* The queue implements the priority buffer.                               *)
(***************************************************************************)

\* RequestComparator is what std::priority_queue asks for: a strict weak order.
THEOREM ComparatorStrictWeakOrder ==
  ASSUME NEW a \in Requests, NEW b \in Requests, NEW c \in Requests
  PROVE  /\ ~RequestComparator(a, a)
         /\ RequestComparator(a, b) => ~RequestComparator(b, a)
         /\ RequestComparator(a, b) /\ RequestComparator(b, c)
              => RequestComparator(a, c)
         /\ /\ ~RequestComparator(a, b) /\ ~RequestComparator(b, a)
            /\ ~RequestComparator(b, c) /\ ~RequestComparator(c, b)
            => ~RequestComparator(a, c) /\ ~RequestComparator(c, a)
<1>1. \A r \in Requests : GetRequestPriority(r.type) \in 1 .. 3 /\ r.created \in Int
  BY DEF GetRequestPriority, PRIORITY_HIGH, PRIORITY_NORMAL, PRIORITY_LOW
<1> QED
  BY <1>1 DEF RequestComparator

\* The abstract specification instantiates its own copy of the request types.
LEMMA SameOrder ==
  /\ \A S : Abs!Top(S) = Top(S)
  /\ \A ty : Abs!GetRequestPriority(ty) = GetRequestPriority(ty)
  /\ Abs!PRIORITY_HIGH = PRIORITY_HIGH /\ Abs!PRIORITY_LOW = PRIORITY_LOW
  /\ Abs!RequestType = RequestType
<1>1. /\ Abs!PRIORITY_HIGH = PRIORITY_HIGH
      /\ Abs!PRIORITY_LOW = PRIORITY_LOW
      /\ Abs!PRIORITY_NORMAL = PRIORITY_NORMAL
      /\ Abs!RequestType = RequestType
  BY DEF Abs!PRIORITY_HIGH, PRIORITY_HIGH, Abs!PRIORITY_LOW, PRIORITY_LOW,
         Abs!PRIORITY_NORMAL, PRIORITY_NORMAL, Abs!RequestType, RequestType
<1>2. \A ty : Abs!GetRequestPriority(ty) = GetRequestPriority(ty)
  BY <1>1 DEF Abs!GetRequestPriority, GetRequestPriority
<1>3. \A a, b : Abs!RequestComparator(a, b) <=> RequestComparator(a, b)
  BY <1>2 DEF Abs!RequestComparator, RequestComparator
<1>4. \A S : Abs!Top(S) = Top(S)
  BY <1>3 DEF Abs!Top, Top
<1> QED
  BY <1>1, <1>2, <1>4

\* Push with room is Admit.
LEMMA EnqueueAdmits ==
  ASSUME NEW p \in Producers, NEW r \in Requests \ queue, ~Full, TypeInv,
         Enqueue(p, r)
  PROVE  Abs!Next
<1>1. Cardinality(queue) < maxSize
  BY FS_CardinalityType DEF Full, TypeInv, TypeOK
<1>2. queue' = queue \cup {r} /\ maxSize' = maxSize /\ r \notin queue
  BY DEF Enqueue, config
<1>3. Abs!Cardinality(queue) = Cardinality(queue)
  BY DEF Abs!Cardinality, Cardinality
<1>4. Abs!Admit(r)
  BY <1>1, <1>2, <1>3 DEF Abs!Admit
<1> QED
  BY <1>4 DEF Abs!Next

\* Taking the top of the heap is Serve.
LEMMA TakeServes ==
  ASSUME NEW c \in Consumers, Take(c)
  PROVE  Abs!Next
<1> PICK r \in Top(queue) : queue' = queue \ {r}
  BY DEF Take
<1>1. r \in queue
  BY DEF Top
<1>2. Abs!Serve(r)
  BY SameOrder DEF Abs!Serve, Take, config
<1> QED
  BY <1>1, <1>2 DEF Abs!Next

\* Clear is Discard.
LEMMA RemoveDiscards ==
  ASSUME NEW types \in SUBSET RequestType, Remove(types)
  PROVE  Abs!Next
<1>1. Abs!Discard(types)
  BY DEF Abs!Discard, Remove, config
<1> QED
  BY <1>1, SameOrder DEF Abs!Next

\* Every way through Push is a step of the buffer or a stutter.
LEMMA PushRefines ==
  ASSUME TypeInv, NEW p \in Producers, NEW r \in Requests, Push(p, r)
  PROVE  [Abs!Next]_<<queue, maxSize>>
<1>1. CASE PushRoom(p, r)
  BY <1>1, EnqueueAdmits DEF PushRoom, Calls
<1>2. CASE PushDisplaces(p, r)
  <2>1. PICK v \in Top(InQueue(PRIORITY_LOW)) : queue' = (queue \ {v}) \cup {r}
    BY <1>2 DEF PushDisplaces
  <2>2. v \in queue
    BY DEF Top, InQueue
  <2>3. Abs!Displace(r, v)
    BY <1>2, <2>1, SameOrder
       DEF Abs!Displace, PushDisplaces, Calls, Refuses, InQueue, config
  <2> QED
    BY <2>2, <2>3 DEF Abs!Next
<1>3. CASE PushRefused(p, r) \/ PushBlocks(p, r)
  BY <1>3 DEF PushRefused, PushBlocks, config
<1> QED
  BY <1>1, <1>2, <1>3 DEF Push

\* Every call begins with a step of the buffer or a stutter.
LEMMA CallRefines ==
  ASSUME TypeInv, NEW t \in Threads, Call(t)
  PROVE  [Abs!Next]_<<queue, maxSize>>
<1>1. ASSUME t \in Producers, NEW r \in Requests, Push(t, r)
      PROVE  [Abs!Next]_<<queue, maxSize>>
  BY <1>1, PushRefines
<1>2. CASE t \in Consumers /\ (Pop(t) \/ PopTimeout(t))
  BY <1>2, TakeServes DEF Pop, PopTimeout, TakeOr, config
<1>3. CASE t \in Admins /\ (Clear(t) \/ Shutdown(t))
  BY <1>3, RemoveDiscards DEF Clear, ClearCall, Shutdown
<1>4. ASSUME NEW ty \in RequestType, ClearType(t, ty)
      PROVE  [Abs!Next]_<<queue, maxSize>>
  BY <1>4, RemoveDiscards DEF ClearType, ClearCall
<1>5. ASSUME NEW n \in SizeArgs, SetMaxSize(t, n)
      PROVE  [Abs!Next]_<<queue, maxSize>>
  <2>1. Abs!SetCapacity
    BY <1>5, ClampInRange DEF SetMaxSize, Abs!SetCapacity
  <2> QED
    BY <2>1 DEF Abs!Next
<1>6. ASSUME UNCHANGED <<queue, config>> PROVE [Abs!Next]_<<queue, maxSize>>
  BY <1>6 DEF config
<1>7. ASSUME NEW drop \in DropModes, SetDropOnFull(t, drop)
      PROVE  [Abs!Next]_<<queue, maxSize>>
  BY <1>7 DEF SetDropOnFull
<1> QED
  BY <1>1, <1>2, <1>3, <1>4, <1>5, <1>6, <1>7
     DEF Call, GetStatistics, ResetStatistics

\* Every later step of a call is a step of the buffer or a stutter.
LEMMA ContinueRefines ==
  ASSUME TypeInv, Ownership, NEW t \in Threads, Continue(t)
  PROVE  [Abs!Next]_<<queue, maxSize>>
<1>1. CASE t \in Producers /\ ResumePush(t)
  <2>1. pending[t] \in Requests \ queue
    BY <1>1 DEF ResumePush, TypeInv, TypeOK, Ownership
  <2> QED
    BY <1>1, <2>1, EnqueueAdmits DEF ResumePush, config
<1>2. CASE t \in Consumers /\ (ResumePop(t) \/ ExpirePop(t))
  BY <1>2, TakeServes DEF ResumePop, ExpirePop, TakeOr, config
<1>3. ASSUME UNCHANGED <<queue, config>> PROVE [Abs!Next]_<<queue, maxSize>>
  BY <1>3 DEF config
<1> QED
  BY <1>1, <1>2, <1>3
     DEF Continue, NotifyOne, UpdateWaitTimeStats, FinishShutdown,
         ReadStatistics

\* Every behaviour of the queue, with all its operations, is a behaviour of
\* the priority buffer.
THEOREM QueueImplementsBuffer == Spec => ImplementsBuffer
<1>1. Init => Abs!Init
  BY ClampInRange DEF Init, Abs!Init
<1>2. TypeInv /\ Ownership /\ [Next]_vars => [Abs!Next]_Abs!vars
  <2> SUFFICES ASSUME TypeInv, Ownership, [Next]_vars
               PROVE  [Abs!Next]_<<queue, maxSize>>
    BY DEF Abs!vars
  <2>1. CASE UNCHANGED vars
    BY <2>1 DEF vars, config
  <2>2. CASE \E t \in Threads : SpuriousWakeup(t) \/ Timeout(t)
    BY <2>2 DEF SpuriousWakeup, Timeout, config
  <2> QED
    BY <2>1, <2>2, CallRefines, ContinueRefines DEF Next
<1> QED
  BY <1>1, <1>2, TypeInvariant, RequestsHaveOneOwner, PTL
     DEF Spec, ImplementsBuffer, Abs!Spec
=============================================================================
