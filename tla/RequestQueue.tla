---------------------------- MODULE RequestQueue ----------------------------
(***************************************************************************)
(* The bounded priority queue between the threads that send requests and   *)
(* the worker threads (include/RequestQueue.h, src/RequestQueue.cpp).      *)
(*                                                                         *)
(* One action is one critical section of the code.  A call that releases   *)
(* queue_mutex_ in the middle (a wait on queue_cv_, the notification after *)
(* the unlock) or that takes stats_mutex_ while it holds queue_mutex_ is   *)
(* several actions, and pc says how far its thread has got:                *)
(*                                                                         *)
(*   "idle"      not in a call                                             *)
(*   "waiting"   blocked on queue_cv_                                      *)
(*   "awake"     woken, has to get queue_mutex_ and look at the predicate  *)
(*   "expired"   PopTimeout's deadline passed, has to get queue_mutex_     *)
(*   "stats"     in Pop or PopTimeout, holds queue_mutex_, is about to     *)
(*               take stats_mutex_ in UpdateWaitTimeStats                  *)
(*   "notify"    has unlocked, is about to call queue_cv_.notify_one()     *)
(*   "haveStats" in GetStatistics, holds stats_mutex_, is about to take    *)
(*               queue_mutex_                                              *)
(*   "shutdown"  in Shutdown, between Clear() and notify_all()             *)
(*                                                                         *)
(* The two mutexes are held across actions in these states only, so who    *)
(* holds them is read off pc.                                              *)
(***************************************************************************)
EXTENDS RequestTypes, FiniteSets

CONSTANTS
  Producers,    \* threads that call Push
  Consumers,    \* threads that call Pop or PopTimeout
  Admins,       \* threads that call everything else
  Requests,     \* the requests that can be pushed, records [id, type, created]
  NoRequest,    \* "this producer holds no request"
  Operations,   \* the operations of the class that its user calls
  DropModes,    \* values of drop_on_full the user asks for
  SizeArgs,     \* arguments the user gives to SetMaxSize
  ASYNCNET_MAX_QUEUE_SIZE,
  MaxPushes     \* bound on the number of Push calls explored

Threads == Producers \cup Consumers \cup Admins

ASSUME ThreadsAssumption ==
  /\ Producers \cap Consumers = {}
  /\ Producers \cap Admins = {}
  /\ Consumers \cap Admins = {}
  /\ IsFiniteSet(Consumers)

ASSUME RequestsAssumption ==
  /\ \A r \in Requests : r.type \in RequestType /\ r.created \in Int
  /\ NoRequest \notin Requests

ASSUME ConfigAssumption ==
  /\ DropModes \subseteq BOOLEAN
  /\ SizeArgs \subseteq Int
  /\ ASYNCNET_MAX_QUEUE_SIZE \in Nat \ {0}
  /\ MaxPushes \in Nat

VARIABLES
  queue,        \* queue_: the requests in the heap
  maxSize,      \* max_size_
  dropOnFull,   \* drop_on_full_
  count,        \* heartbeat_count_, events_count_, params_count_, ping_count_
  total,        \* total_requests_
  dropped,      \* dropped_requests_
  processed,    \* processed_requests_
  pc,           \* where each thread is
  pending,      \* the request a producer waits with
  evicted,      \* ghost: requests displaced by a high-priority one
  cleared,      \* ghost: requests removed by Clear, less those on their way
                \*   through the queue when the statistics were reset
  forgotten     \* ghost: per type, the requests queued at that time

counters == <<count, total, dropped, processed, evicted, cleared, forgotten>>
config   == <<maxSize, dropOnFull>>
vars     == <<queue, config, counters, pc, pending>>
----------------------------------------------------------------------------
(* The two mutexes and the condition variable.                             *)

QueueFree == \A c \in Consumers : pc[c] # "stats"
StatsFree == \A a \in Admins : pc[a] # "haveStats"

Waiting == {t \in Threads : pc[t] = "waiting"}

Goto(t, label) == pc' = [pc EXCEPT ![t] = label]

\* queue_cv_.notify_one() wakes one of the waiting threads, if any, whichever
\* predicate it waits for.
NotifyOne(t) ==
  /\ pc[t] = "notify"
  /\ \/ Waiting = {} /\ Goto(t, "idle")
     \/ \E w \in Waiting : pc' = [pc EXCEPT ![t] = "idle", ![w] = "awake"]
  /\ UNCHANGED <<queue, config, counters, pending>>

\* queue_cv_.notify_all() wakes them all.
Awoken(t) == IF pc[t] = "waiting" THEN "awake" ELSE pc[t]

\* A wait may return although nobody notified.
SpuriousWakeup(t) ==
  /\ pc[t] = "waiting"
  /\ Goto(t, "awake")
  /\ UNCHANGED <<queue, config, counters, pending>>
----------------------------------------------------------------------------
(* Push.                                                                   *)

Full == Cardinality(queue) >= maxSize

InQueue(priority) == {r \in queue : GetRequestPriority(r.type) = priority}

\* Whether a full queue turns a request of this type away at once.  The code
\* compares the ratio of two int counters, whose sum may be zero or, after
\* ResetStatistics, negative, with one half.
ShouldDropRequest(type) ==
  LET inQueue == count["HEARTBEAT"] + count["EVENTS"]
                   + count["PARAMS"] + count["PING"]
      low     == count["PARAMS"]
  IN  /\ GetRequestPriority(type) # PRIORITY_HIGH
      /\ inQueue # 0
      /\ type = "PARAMS"
      /\ IF inQueue > 0 THEN 2 * low > inQueue ELSE 2 * low < inQueue

IncrementCounter(r) == count' = [count EXCEPT ![r.type] = @ + 1]
DecrementCounter(r) == count' = [count EXCEPT ![r.type] = @ - 1]

\* The last lines of Push: the request goes in, the lock is released, one
\* waiting thread is about to be notified.
Enqueue(p, r) ==
  /\ queue' = queue \cup {r}
  /\ IncrementCounter(r)
  /\ total' = total + 1
  /\ Goto(p, "notify")
  /\ pending' = [pending EXCEPT ![p] = NoRequest]
  /\ UNCHANGED <<config, dropped, processed, evicted, cleared, forgotten>>

\* A producer calls Push with a request object that nobody else has.
Calls(p, r) ==
  /\ pc[p] = "idle"
  /\ QueueFree
  /\ total + dropped < MaxPushes
  /\ r \notin queue
  /\ \A q \in Producers : pending[q] # r

PushRoom(p, r) ==
  /\ Calls(p, r)
  /\ ~Full
  /\ Enqueue(p, r)

Refuses(r) ==
  \/ ShouldDropRequest(r.type)
  \/ GetRequestPriority(r.type) # PRIORITY_HIGH
  \/ InQueue(PRIORITY_LOW) = {}

PushRefused(p, r) ==
  /\ Calls(p, r)
  /\ Full
  /\ dropOnFull
  /\ Refuses(r)
  /\ dropped' = dropped + 1
  /\ UNCHANGED <<queue, config, count, total, processed, evicted, cleared,
                 forgotten, pc, pending>>

\* Mutant: the victim leaves the heap but is still counted.
ExchangeCounters_KeepsVictim(v, r) == count' = [count EXCEPT ![r.type] = @ + 1]

ExchangeCounters(v, r) ==
  count' = [count EXCEPT ![v.type] = @ - 1, ![r.type] = @ + 1]

PushDisplaces(p, r) ==
  /\ Calls(p, r)
  /\ Full
  /\ dropOnFull
  /\ ~Refuses(r)
  /\ \E v \in Top(InQueue(PRIORITY_LOW)) :
       /\ queue' = (queue \ {v}) \cup {r}
       /\ ExchangeCounters(v, r)
  /\ dropped' = dropped + 1
  /\ evicted' = evicted + 1
  /\ total' = total + 1
  /\ Goto(p, "notify")
  /\ UNCHANGED <<config, processed, cleared, forgotten, pending>>

PushBlocks(p, r) ==
  /\ Calls(p, r)
  /\ Full
  /\ ~dropOnFull
  /\ Goto(p, "waiting")
  /\ pending' = [pending EXCEPT ![p] = r]
  /\ UNCHANGED <<queue, config, counters>>

Push(p, r) ==
  \/ PushRoom(p, r)
  \/ PushRefused(p, r)
  \/ PushDisplaces(p, r)
  \/ PushBlocks(p, r)

\* Mutant: the predicate of the wait is not looked at again.
ResumePush_NoRecheck(p) ==
  /\ pc[p] = "awake"
  /\ QueueFree
  /\ Enqueue(p, pending[p])

\* The waiting producer has been woken: it goes on waiting or goes on pushing.
ResumePush(p) ==
  /\ pc[p] = "awake"
  /\ QueueFree
  /\ \/ /\ Full
        /\ Goto(p, "waiting")
        /\ UNCHANGED <<queue, config, counters, pending>>
     \/ /\ ~Full
        /\ Enqueue(p, pending[p])
----------------------------------------------------------------------------
(* Pop and PopTimeout.                                                     *)

\* The request leaves; queue_mutex_ stays held for UpdateWaitTimeStats.
Take(c) ==
  /\ \E r \in Top(queue) :
       /\ queue' = queue \ {r}
       /\ DecrementCounter(r)
  /\ Goto(c, "stats")
  /\ UNCHANGED <<config, total, dropped, processed, evicted, cleared, forgotten,
                 pending>>

\* Pop on an empty queue returns nullptr and changes nothing.
Pop(c) ==
  /\ pc[c] = "idle"
  /\ QueueFree
  /\ queue # {}
  /\ Take(c)

\* wait_for: looks at the predicate first, then blocks.
TakeOr(c, label) ==
  \/ /\ queue # {}
     /\ Take(c)
  \/ /\ queue = {}
     /\ Goto(c, label)
     /\ UNCHANGED <<queue, config, counters, pending>>

PopTimeout(c) ==
  /\ pc[c] = "idle"
  /\ QueueFree
  /\ TakeOr(c, "waiting")

ResumePop(c) ==
  /\ pc[c] = "awake"
  /\ QueueFree
  /\ TakeOr(c, "waiting")

\* The deadline passes while the consumer is blocked ...
Timeout(c) ==
  /\ pc[c] = "waiting"
  /\ Goto(c, "expired")
  /\ UNCHANGED <<queue, config, counters, pending>>

\* ... and wait_for looks at the predicate a last time.
ExpirePop(c) ==
  /\ pc[c] = "expired"
  /\ QueueFree
  /\ TakeOr(c, "idle")

\* Mutant: the request is not counted as processed.
UpdateWaitTimeStats_NotCounted(c) ==
  /\ pc[c] = "stats"
  /\ StatsFree
  /\ Goto(c, "notify")
  /\ UNCHANGED <<queue, config, counters, pending>>

\* Mutant: the call returns without notify_one().
UpdateWaitTimeStats_NoNotify(c) ==
  /\ pc[c] = "stats"
  /\ StatsFree
  /\ processed' = processed + 1
  /\ Goto(c, "idle")
  /\ UNCHANGED <<queue, config, count, total, dropped, evicted, cleared, forgotten,
                 pending>>

UpdateWaitTimeStats(c) ==
  /\ pc[c] = "stats"
  /\ StatsFree
  /\ processed' = processed + 1
  /\ Goto(c, "notify")
  /\ UNCHANGED <<queue, config, count, total, dropped, evicted, cleared, forgotten,
                 pending>>
----------------------------------------------------------------------------
(* Clear, Shutdown, the setters and the statistics.                        *)

\* Both overloads of Clear: the requests of the types go, everyone is woken.
Remove(types) ==
  LET gone == {r \in queue : r.type \in types}
  IN  /\ queue' = queue \ gone
      /\ count' = [ty \in RequestType |->
                     count[ty] - Cardinality({r \in gone : r.type = ty})]
      /\ cleared' = cleared + Cardinality(gone)
      /\ UNCHANGED <<config, total, dropped, processed, evicted, forgotten,
                     pending>>

ClearCall(a, types) ==
  /\ pc[a] = "idle"
  /\ QueueFree
  /\ Remove(types)
  /\ pc' = [t \in Threads |-> Awoken(t)]

Clear(a)         == ClearCall(a, RequestType)
ClearType(a, ty) == ClearCall(a, {ty})

\* Shutdown: Clear() and, without the lock, a second notify_all().  Nothing
\* marks the queue as closed.
Shutdown(a) ==
  /\ pc[a] = "idle"
  /\ QueueFree
  /\ Remove(RequestType)
  /\ pc' = [t \in Threads |-> IF t = a THEN "shutdown" ELSE Awoken(t)]

FinishShutdown(a) ==
  /\ pc[a] = "shutdown"
  /\ pc' = [t \in Threads |-> IF t = a THEN "idle" ELSE Awoken(t)]
  /\ UNCHANGED <<queue, config, counters, pending>>

\* Mutant: std::min without the std::max.
Clamp_NoLowerBound(n) ==
  IF n > ASYNCNET_MAX_QUEUE_SIZE THEN ASYNCNET_MAX_QUEUE_SIZE ELSE n

Clamp(n) ==
  IF n < 1 THEN 1
  ELSE IF n > ASYNCNET_MAX_QUEUE_SIZE THEN ASYNCNET_MAX_QUEUE_SIZE ELSE n

\* Neither setter wakes anyone.
SetMaxSize(a, n) ==
  /\ pc[a] = "idle"
  /\ QueueFree
  /\ maxSize' = Clamp(n)
  /\ UNCHANGED <<queue, dropOnFull, counters, pc, pending>>

SetDropOnFull(a, drop) ==
  /\ pc[a] = "idle"
  /\ QueueFree
  /\ dropOnFull' = drop
  /\ UNCHANGED <<queue, maxSize, counters, pc, pending>>

OfType(S, ty) == {r \in S : r.type = ty}

\* Popped, but not yet counted as processed.
Leaving == {c \in Consumers : pc[c] = "stats"}

\* GetStatistics takes stats_mutex_ ...
GetStatistics(a) ==
  /\ pc[a] = "idle"
  /\ StatsFree
  /\ Goto(a, "haveStats")
  /\ UNCHANGED <<queue, config, counters, pending>>

\* ... and then queue_mutex_, the other way round than Pop.
ReadStatistics(a) ==
  /\ pc[a] = "haveStats"
  /\ QueueFree
  /\ Goto(a, "idle")
  /\ UNCHANGED <<queue, config, counters, pending>>

\* The counters start again at zero whatever is in the queue, and
\* processed_requests_ will still count what is on its way out of it.
ResetStatistics(a) ==
  /\ pc[a] = "idle"
  /\ StatsFree
  /\ count' = [ty \in RequestType |-> 0]
  /\ total' = 0
  /\ dropped' = 0
  /\ processed' = 0
  /\ evicted' = 0
  /\ cleared' = 0 - Cardinality(queue) - Cardinality(Leaving)
  /\ forgotten' = [ty \in RequestType |-> Cardinality(OfType(queue, ty))]
  /\ UNCHANGED <<queue, config, pc, pending>>
----------------------------------------------------------------------------
(* The state in which QueueFactory::CreateQueue and its siblings hand the  *)
(* queue over: constructed, sized, its drop policy chosen.                 *)
Init ==
  /\ queue = {}
  /\ maxSize \in {Clamp(n) : n \in SizeArgs}
  /\ dropOnFull \in DropModes
  /\ count = [ty \in RequestType |-> 0]
  /\ total = 0
  /\ dropped = 0
  /\ processed = 0
  /\ pc = [t \in Threads |-> "idle"]
  /\ pending = [p \in Producers |-> NoRequest]
  /\ evicted = 0
  /\ cleared = 0
  /\ forgotten = [ty \in RequestType |-> 0]

\* What a thread does on its own once it is in a call.
Continue(t) ==
  \/ NotifyOne(t)
  \/ t \in Producers /\ ResumePush(t)
  \/ t \in Consumers /\ (ResumePop(t) \/ ExpirePop(t) \/ UpdateWaitTimeStats(t))
  \/ t \in Admins /\ (FinishShutdown(t) \/ ReadStatistics(t))

\* The calls a thread may make.
Call(t) ==
  \/ /\ t \in Producers
     /\ \E r \in Requests : Push(t, r)
  \/ /\ t \in Consumers
     /\ \/ "Pop" \in Operations /\ Pop(t)
        \/ "PopTimeout" \in Operations /\ PopTimeout(t)
  \/ /\ t \in Admins
     /\ \/ "Clear" \in Operations /\ Clear(t)
        \/ "ClearType" \in Operations /\ \E ty \in RequestType : ClearType(t, ty)
        \/ "Shutdown" \in Operations /\ Shutdown(t)
        \/ "SetMaxSize" \in Operations /\ \E n \in SizeArgs : SetMaxSize(t, n)
        \/ "SetDropOnFull" \in Operations
             /\ \E drop \in DropModes : SetDropOnFull(t, drop)
        \/ "GetStatistics" \in Operations /\ GetStatistics(t)
        \/ "ResetStatistics" \in Operations /\ ResetStatistics(t)

Next ==
  \E t \in Threads :
    \/ Call(t)
    \/ Continue(t)
    \/ SpuriousWakeup(t)
    \/ t \in Consumers /\ Timeout(t)

Spec == Init /\ [][Next]_vars

(***************************************************************************)
(* The scheduler runs every thread that can go on, a wait with a deadline  *)
(* ends, and the consumers, whose threads loop, keep calling.  Nothing is  *)
(* assumed of producers and administrators, or of spurious wake-ups.       *)
(***************************************************************************)
FairSpec ==
  /\ Spec
  /\ \A t \in Threads : WF_vars(Continue(t))
  /\ \A c \in Consumers : WF_vars(Call(c)) /\ WF_vars(Timeout(c))
----------------------------------------------------------------------------
\* Every variable has the values the code can give it; max_size_ is a size
\* the setter lets through; a producer holds a request exactly while it is
\* blocked in Push.
TypeOK ==
  /\ queue \subseteq Requests
  /\ maxSize \in 1 .. ASYNCNET_MAX_QUEUE_SIZE
  /\ dropOnFull \in BOOLEAN
  /\ count \in [RequestType -> Int]
  /\ total \in Nat /\ dropped \in Nat /\ processed \in Nat
  /\ evicted \in Nat /\ cleared \in Int
  /\ forgotten \in [RequestType -> Nat]
  /\ pc \in [Threads -> {"idle", "waiting", "awake", "expired", "stats",
                         "notify", "haveStats", "shutdown"}]
  /\ pending \in [Producers -> Requests \cup {NoRequest}]
  /\ \A p \in Producers : /\ pc[p] \in {"idle", "waiting", "awake", "notify"}
                          /\ (pending[p] # NoRequest) <=> pc[p] \in {"waiting", "awake"}
  /\ \A c \in Consumers : pc[c] \notin {"haveStats", "shutdown"}
  /\ \A a \in Admins : pc[a] \in {"idle", "haveStats", "shutdown"}

\* The counter of a type, which is what GetLength(type) returns, is the number
\* of queued requests of the type, through every push, eviction, pop and
\* clear; after ResetStatistics it is too small by what was queued then, and
\* by nothing else.
CountersMatchQueue ==
  \A ty \in RequestType :
    count[ty] = Cardinality(OfType(queue, ty)) - forgotten[ty]

\* No request disappears without a trace: each one that was accepted is still
\* queued, has been or is being handed to a consumer, was displaced by a
\* high-priority request, or was cleared by the owner.
Conservation ==
  /\ total = Cardinality(queue) + processed + evicted + cleared
              + Cardinality(Leaving)
  /\ evicted <= dropped

\* The queue is a priority buffer: nothing enters beyond the capacity, only a
\* high-priority request displaces another, its victim is the low-priority
\* request next in turn, and requests leave in their turn.
Abs == INSTANCE PriorityBuffer WITH content <- queue, capacity <- maxSize

ImplementsBuffer == Abs!Spec

\* A producer that waits for room is not forgotten: while the queue has room
\* some thread is on its way to wake a waiting producer.
NoLostWakeup ==
  (~Full /\ \E p \in Producers : pc[p] = "waiting")
    => \E t \in Threads : pc[t] \in {"notify", "awake", "stats"}

\* A blocked Push returns ("等待队列有空间": it waits until there is room).
BlockedPushReturns ==
  \A p \in Producers : pc[p] = "waiting" ~> pc[p] = "idle"
=============================================================================
