--------------------------- MODULE ResponseQueue ---------------------------
(***************************************************************************)
(* The queue between the worker threads, which push responses, and the     *)
(* threads that fetch them (include/ResponseQueue.h, src/ResponseQueue.cpp).*)
(*                                                                         *)
(* One action is one critical section.  A thread between two of them is at *)
(*   "cache"   in Push, has put the response into its queue and is about   *)
(*             to copy it into latest_responses_ through a bare pointer    *)
(*   "count"   in Push, is about to count the response, through the same   *)
(*   a type    in GetResponse of that type, found nothing in the cache     *)
(*   "holds"   has popped responses, which it destroys when it is done     *)
(*   "hung"    in GetStatistics, which locks queue_mutex_ twice            *)
(* or "idle"; the cleanup thread is at "loop", "sleeping", "clean" (the    *)
(* flag was still set after the sleep) or "exited".  Only a hung thread    *)
(* keeps a mutex between two steps.                                        *)
(***************************************************************************)
EXTENDS RequestTypes, FiniteSets

CONSTANTS
  Pushers,      \* threads that call Push: the workers
  Readers,      \* threads that call GetResponse, Pop and PopAll
  Admins,       \* threads that call everything else
  NoResponse,   \* "no response"
  Types,        \* the types of the responses that are pushed
  Stamps,       \* whether received_time is set, TRUE or FALSE
  Configs,      \* values of config_: [max, timeout, auto]
  Operations,   \* the operations that are called
  Relock,       \* what locking a mutex twice may do: "returns", "hangs"
  MaxPushes,    \* bound on the number of responses pushed
  MaxClock      \* bound on the clock

Threads == Pushers \cup Readers \cup Admins

Response == [id : 1 .. MaxPushes, type : Types, received : 0 .. MaxClock]

ASSUME ResponseAssumption ==
  /\ IsFiniteSet(Pushers)
  /\ Pushers \cap Readers = {} /\ Pushers \cap Admins = {}
  /\ Readers \cap Admins = {}
  /\ NoResponse \notin Response
  /\ Types \subseteq RequestType
  /\ Stamps \subseteq BOOLEAN
  /\ Configs \subseteq [max : Nat \ {0}, timeout : Int, auto : BOOLEAN]
  /\ Relock \subseteq {"returns", "hangs"} /\ Relock # {}
  /\ MaxPushes \in Nat /\ MaxClock \in Nat

VARIABLES
  queue,      \* type_queues_: the responses in the queues
  latest,     \* latest_responses_
  config,     \* config_
  total,      \* total_responses_
  expired,    \* expired_responses_
  pc,         \* where each thread is
  pushing,    \* response_ptr of each pusher
  holding,    \* the responses each reader has popped
  cleaner,    \* where the cleanup thread is
  stage,      \* Shutdown: "running", "joining", "stopped"
  now,        \* the steady clock, 0 when the machine was booted
  broken,     \* ghost: freed memory was read
  arrived,    \* ghost: the number of responses pushed
  newest,     \* ghost: per type, the response pushed last
  overlapped, \* ghost: per type, the last push began inside another's
  untold      \* ghost: responses whose fate the two counters do not tell

history  == <<arrived, newest, overlapped>>
contents == <<queue, latest, history>>
counters == <<total, expired, untold>>
control  == <<pc, pushing, holding>>
cleanup  == <<cleaner, stage>>
vars     == <<contents, config, counters, control, cleanup, now, broken>>
----------------------------------------------------------------------------
(* The queues, the locks and the clock.                                    *)

Of(type) == {r \in queue : r.type = type}

\* The n responses of S that were pushed last.
Newest(S, n) == {r \in S : Cardinality({s \in S : s.id > r.id}) < n}

QueueFree == \A a \in Admins : pc[a] # "hung"

Goto(t, label) == pc' = [pc EXCEPT ![t] = label]

\* A timeout of 0 or less is none.
ExpiredAt(r, time) ==
  config.timeout > 0 /\ time - r.received > config.timeout

IsResponseExpired(r) == ExpiredAt(r, now)

\* The memory of a response is freed when it leaves its queue, unless a reader
\* has taken it over, and then when the reader is done with it.
Alive(r) == r \in queue \/ \E rd \in Readers : r \in holding[rd]

\* Past the read of freed memory nothing is known: the model ends.
ReadsFreed ==
  /\ broken' = TRUE
  /\ UNCHANGED <<contents, config, counters, control, cleanup, now>>
----------------------------------------------------------------------------
(* Push, in three sections.                                                *)

\* What a queue keeps when the loop has popped its oldest responses.
MakeRoom(type) == Newest(Of(type), config.max - 1)

\* received_time stays 0, the epoch of the clock, unless the constructor with
\* five arguments was used.
NewResponse(type, stamped) ==
  [id |-> arrived + 1, type |-> type, received |-> IF stamped THEN now ELSE 0]

InCacheSection(type) ==
  \E q \in Pushers : pc[q] = "cache" /\ pushing[q].type = type

\* Mutant: the evicted responses are not counted.
Push_NotCounted(p, type, stamped) ==
  /\ pc[p] = "idle"
  /\ QueueFree
  /\ arrived < MaxPushes
  /\ LET r == NewResponse(type, stamped)
     IN  /\ queue' = (queue \ Of(type)) \cup MakeRoom(type) \cup {r}
         /\ arrived' = r.id
         /\ newest' = [newest EXCEPT ![type] = r.id]
         /\ pushing' = [pushing EXCEPT ![p] = r]
  /\ overlapped' = [overlapped EXCEPT ![type] = InCacheSection(type)]
  /\ Goto(p, "cache")
  /\ UNCHANGED <<latest, config, counters, holding, cleanup, now, broken>>

Push(p, type, stamped) ==
  /\ pc[p] = "idle"
  /\ QueueFree
  /\ arrived < MaxPushes
  /\ LET r == NewResponse(type, stamped)
     IN  /\ queue' = (queue \ Of(type)) \cup MakeRoom(type) \cup {r}
         /\ arrived' = r.id
         /\ newest' = [newest EXCEPT ![type] = r.id]
         /\ pushing' = [pushing EXCEPT ![p] = r]
  /\ expired' = expired + Cardinality(Of(type) \ MakeRoom(type))
  /\ overlapped' = [overlapped EXCEPT ![type] = InCacheSection(type)]
  /\ Goto(p, "cache")
  /\ UNCHANGED <<latest, config, total, untold, holding, cleanup, now, broken>>

\* Mutant: emplace in the place of an assignment.
UpdateCache_FirstStays(p) ==
  /\ pc[p] = "cache"
  /\ \/ /\ Alive(pushing[p])
        /\ latest' = [latest EXCEPT ![pushing[p].type] =
                        IF @ = NoResponse THEN pushing[p] ELSE @]
        /\ Goto(p, "count")
        /\ UNCHANGED <<queue, history, config, counters, pushing, holding,
                       cleanup, now, broken>>
     \/ ~Alive(pushing[p]) /\ ReadsFreed

UpdateCache(p) ==
  /\ pc[p] = "cache"
  /\ \/ /\ Alive(pushing[p])
        /\ latest' = [latest EXCEPT ![pushing[p].type] = pushing[p]]
        /\ Goto(p, "count")
        /\ UNCHANGED <<queue, history, config, counters, pushing, holding,
                       cleanup, now, broken>>
     \/ ~Alive(pushing[p]) /\ ReadsFreed

UpdateStatistics(p) ==
  /\ pc[p] = "count"
  /\ \/ /\ Alive(pushing[p])
        /\ total' = total + 1
        /\ pushing' = [pushing EXCEPT ![p] = NoResponse]
        /\ Goto(p, "idle")
        /\ UNCHANGED <<contents, config, expired, untold, holding, cleanup, now,
                       broken>>
     \/ ~Alive(pushing[p]) /\ ReadsFreed
----------------------------------------------------------------------------
(* GetResponse, Pop, PopAll.                                               *)

\* GetResponse looks into the cache first.  The cached response stays there,
\* whatever its status; an expired one is erased.
GetLatestResponse(rd, type) ==
  /\ pc[rd] = "idle"
  /\ latest[type] # NoResponse => IsResponseExpired(latest[type])
  /\ latest' = [latest EXCEPT ![type] = NoResponse]
  /\ Goto(rd, type)
  /\ UNCHANGED <<queue, history, config, counters, pushing, holding, cleanup, now,
                 broken>>

\* Mutant: the back of the queue in the place of the front.
Pop_Newest(rd, type) ==
  /\ pc[rd] \in {"idle", type}
  /\ QueueFree
  /\ \/ /\ Of(type) = {}
        /\ Goto(rd, "idle")
        /\ UNCHANGED <<contents, untold, holding>>
     \/ \E r \in Newest(Of(type), 1) :
          /\ queue' = queue \ {r}
          /\ holding' = [holding EXCEPT ![rd] = {r}]
          /\ untold' = untold + 1
          /\ Goto(rd, "holds")
          /\ UNCHANGED <<latest, history>>
  /\ UNCHANGED <<config, total, expired, pushing, cleanup, now, broken>>

\* The front of the queue becomes the reader's, who destroys it in the end.
\* GetResponse does so whether the response is a success or not.
Pop(rd, type) ==
  /\ pc[rd] \in {"idle", type}
  /\ QueueFree
  /\ \/ /\ Of(type) = {}
        /\ Goto(rd, "idle")
        /\ UNCHANGED <<contents, untold, holding>>
     \/ \E r \in Of(type) :
          /\ \A s \in Of(type) : r.id <= s.id
          /\ queue' = queue \ {r}
          /\ holding' = [holding EXCEPT ![rd] = {r}]
          /\ untold' = untold + 1
          /\ Goto(rd, "holds")
          /\ UNCHANGED <<latest, history>>
  /\ UNCHANGED <<config, total, expired, pushing, cleanup, now, broken>>

PopAll(rd, type) ==
  /\ pc[rd] = "idle"
  /\ QueueFree
  /\ Of(type) # {}
  /\ queue' = queue \ Of(type)
  /\ holding' = [holding EXCEPT ![rd] = Of(type)]
  /\ untold' = untold + Cardinality(Of(type))
  /\ Goto(rd, "holds")
  /\ UNCHANGED <<latest, history, config, total, expired, pushing, cleanup, now,
                 broken>>

\* Mutant: what was popped is never destroyed.
Destroy_Leaks(rd) ==
  /\ pc[rd] = "holds"
  /\ Goto(rd, "idle")
  /\ UNCHANGED <<contents, config, counters, pushing, holding, cleanup, now, broken>>

Destroy(rd) ==
  /\ pc[rd] = "holds"
  /\ holding' = [holding EXCEPT ![rd] = {}]
  /\ Goto(rd, "idle")
  /\ UNCHANGED <<contents, config, counters, pushing, cleanup, now, broken>>
----------------------------------------------------------------------------
(* Clear, ClearAll, ClearExpired hold both mutexes.                        *)

Remove(types) ==
  LET gone == {r \in queue : r.type \in types}
  IN  /\ queue' = queue \ gone
      /\ latest' = [ty \in RequestType |->
                      IF ty \in types THEN NoResponse ELSE latest[ty]]
      /\ untold' = untold + Cardinality(gone)
      /\ UNCHANGED <<history, config, total, expired, now, broken>>

Clear(a, types) ==
  /\ pc[a] = "idle"
  /\ QueueFree
  /\ Remove(types)
  /\ UNCHANGED <<control, cleanup>>

\* Mutant: the sweep of a queue ends at the first response that is kept.
Old_PrefixOnly(time) ==
  {r \in queue : /\ ExpiredAt(r, time)
                 /\ \A s \in Of(r.type) : s.id < r.id => ExpiredAt(s, time)}

Old(time) == {r \in queue : ExpiredAt(r, time)}

OldShown(time) == {ty \in RequestType : /\ latest[ty] # NoResponse
                                        /\ ExpiredAt(latest[ty], time)}

\* A response that expires in its queue and in the cache counts twice.
Sweep(gone, types) ==
  /\ queue' = queue \ gone
  /\ latest' = [ty \in RequestType |->
                  IF ty \in types THEN NoResponse ELSE latest[ty]]
  /\ expired' = expired + Cardinality(gone) + Cardinality(types)
  /\ untold' = untold - Cardinality(types)

\* The clock is read for every response, and may go on in the meantime: what
\* expires during the sweep is found or not.
ClearExpired ==
  /\ QueueFree
  /\ \E end \in now .. MaxClock :
       /\ now' = end
       /\ \E gone \in SUBSET Old(end), types \in SUBSET OldShown(end) :
            /\ Old(now) \subseteq gone /\ OldShown(now) \subseteq types
            /\ Sweep(gone, types)
  /\ UNCHANGED <<history, config, total, control, broken>>

ClearExpiredCall(a) ==
  /\ pc[a] = "idle"
  /\ ClearExpired
  /\ UNCHANGED cleanup
----------------------------------------------------------------------------
(* Configuration and statistics.                                           *)

SetConfig(a, c) ==
  /\ pc[a] = "idle"
  /\ QueueFree
  /\ config' = c
  /\ UNCHANGED <<contents, counters, control, cleanup, now, broken>>

\* GetStatistics holds queue_mutex_ when it calls GetQueueLength, which locks
\* it again.
GetStatistics(a) ==
  /\ pc[a] = "idle"
  /\ QueueFree
  /\ "hangs" \in Relock
  /\ Goto(a, "hung")
  /\ UNCHANGED <<contents, config, counters, pushing, holding, cleanup, now,
                 broken>>

Uncounted == Cardinality({p \in Pushers : pc[p] \in {"cache", "count"}})

\* From here on the counters tell nothing of the responses in the queues, and
\* will count those that are being pushed.
ResetStatistics(a) ==
  /\ pc[a] = "idle"
  /\ total' = 0
  /\ expired' = 0
  /\ untold' = Uncounted - Cardinality(queue)
  /\ UNCHANGED <<contents, config, control, cleanup, now, broken>>
----------------------------------------------------------------------------
(* The cleanup thread, and Shutdown by the owner of the queue.             *)

CleanerGoes(from, to) == cleaner = from /\ cleaner' = to

\* Mutant: the flag is read once, before the loop.
cleanup_running_ReadOnce == TRUE

cleanup_running == stage = "running"

CleanupThread ==
  \/ /\ \/ cleanup_running /\ CleanerGoes("loop", "sleeping")
        \/ ~cleanup_running /\ CleanerGoes("loop", "exited")
        \/ cleanup_running /\ CleanerGoes("sleeping", "clean")
        \/ ~cleanup_running /\ CleanerGoes("sleeping", "loop")
        \/ ~config.auto /\ CleanerGoes("clean", "loop")
     /\ UNCHANGED <<contents, config, counters, control, stage, now, broken>>
  \/ /\ config.auto
     /\ CleanerGoes("clean", "loop")
     /\ ClearExpired
     /\ UNCHANGED stage

StopCleaner ==
  /\ stage = "running"
  /\ stage' = "joining"
  /\ UNCHANGED <<contents, config, counters, control, cleaner, now, broken>>

JoinCleaner ==
  /\ stage = "joining"
  /\ cleaner = "exited"
  /\ QueueFree
  /\ Remove(RequestType)
  /\ stage' = "stopped"
  /\ UNCHANGED <<control, cleaner>>

Tick ==
  /\ now < MaxClock
  /\ now' = now + 1
  /\ UNCHANGED <<contents, config, counters, control, cleanup, broken>>
----------------------------------------------------------------------------
\* The constructor starts the cleanup thread if the configuration asks for it.
Init ==
  /\ queue = {}
  /\ latest = [ty \in RequestType |-> NoResponse]
  /\ config \in Configs
  /\ total = 0
  /\ expired = 0
  /\ pc = [t \in Threads |-> "idle"]
  /\ pushing = [p \in Pushers |-> NoResponse]
  /\ holding = [rd \in Readers |-> {}]
  /\ cleaner = IF config.auto THEN "loop" ELSE "exited"
  /\ stage = "running"
  /\ now = 0
  /\ broken = FALSE
  /\ arrived = 0
  /\ newest = [ty \in RequestType |-> 0]
  /\ overlapped = [ty \in RequestType |-> FALSE]
  /\ untold = 0

Call(t) ==
  \/ /\ t \in Pushers
     /\ \E ty \in Types, stamped \in Stamps : Push(t, ty, stamped)
  \/ /\ t \in Readers
     /\ \E ty \in Types :
          \/ "GetResponse" \in Operations /\ GetLatestResponse(t, ty)
          \/ "Pop" \in Operations /\ pc[t] = "idle" /\ Pop(t, ty)
          \/ "PopAll" \in Operations /\ PopAll(t, ty)
  \/ /\ t \in Admins
     /\ \/ "Clear" \in Operations /\ \E ty \in Types : Clear(t, {ty})
        \/ "ClearAll" \in Operations /\ Clear(t, RequestType)
        \/ "ClearExpired" \in Operations /\ ClearExpiredCall(t)
        \/ "SetConfig" \in Operations /\ \E c \in Configs : SetConfig(t, c)
        \/ "GetStatistics" \in Operations /\ GetStatistics(t)
        \/ "ResetStatistics" \in Operations /\ ResetStatistics(t)

Continue(t) ==
  \/ t \in Pushers /\ (UpdateCache(t) \/ UpdateStatistics(t))
  \/ /\ t \in Readers
     /\ \/ \E ty \in Types : pc[t] = ty /\ Pop(t, ty)
        \/ Destroy(t)

Next ==
  /\ ~broken
  /\ \/ \E t \in Threads : Call(t) \/ Continue(t)
     \/ CleanupThread
     \/ "Shutdown" \in Operations /\ StopCleaner
     \/ JoinCleaner
     \/ Tick

Spec == Init /\ [][Next]_vars

(***************************************************************************)
(* Calls that can go on do, and the cleanup thread's sleep ends.  Nothing  *)
(* is assumed of the calls that are made or of the clock.                  *)
(***************************************************************************)
FairSpec ==
  /\ Spec
  /\ \A t \in Threads : WF_vars(~broken /\ Continue(t))
  /\ WF_vars(~broken /\ CleanupThread)
  /\ WF_vars(~broken /\ JoinCleaner)
----------------------------------------------------------------------------
\* Every variable has the values the code can give it; a pusher has its pointer
\* exactly while it is in Push, a reader holds responses exactly after a pop.
TypeOK ==
  /\ queue \subseteq Response
  /\ latest \in [RequestType -> Response \cup {NoResponse}]
  /\ config \in Configs
  /\ total \in Nat /\ expired \in Nat /\ untold \in Int
  /\ pc \in [Threads -> {"idle", "cache", "count", "holds", "hung"} \cup Types]
  /\ \A p \in Pushers : pc[p] \in {"idle", "cache", "count"}
  /\ \A rd \in Readers : pc[rd] \in {"idle", "holds"} \cup Types
  /\ \A a \in Admins : pc[a] \in {"idle", "hung"}
  /\ pushing \in [Pushers -> Response \cup {NoResponse}]
  /\ \A p \in Pushers : pushing[p] = NoResponse <=> pc[p] = "idle"
  /\ holding \in [Readers -> SUBSET Response]
  /\ \A rd \in Readers : holding[rd] # {} <=> pc[rd] = "holds"
  /\ cleaner \in {"loop", "sleeping", "clean", "exited"}
  /\ stage \in {"running", "joining", "stopped"}
  /\ now \in 0 .. MaxClock
  /\ broken \in BOOLEAN
  /\ arrived \in 0 .. MaxPushes
  /\ newest \in [RequestType -> 0 .. MaxPushes]
  /\ overlapped \in [RequestType -> BOOLEAN]

\* No response disappears without a trace: each one pushed is still queued, or
\* was popped or cleared by the user, or is among those counted as expired,
\* where a copy swept out of the cache is counted as well.
EveryResponseCounted ==
  total + Uncounted = Cardinality(queue) + expired + untold

\* What the queue promises: the response of a type that is handed out is the one
\* that arrived first of those still queued, a full queue gives up its oldest,
\* nothing else leaves that is neither too old nor cleared, and the cache shows a
\* response that was pushed.
Board == INSTANCE ResponseBoard
           WITH content <- queue,
                handed <- UNION {holding[rd] : rd \in Readers},
                arriving <- {pushing[p] : p \in {q \in Pushers : pc[q] = "cache"}},
                capacity <- config.max, timeout <- config.timeout, clock <- now

ImplementsBoard == Board!Spec

\* When no push of a type is under way, what the cache shows is the response of
\* the type that was pushed last ("每种类型保留最新的一个"), unless two pushes of
\* the type overlapped: Push lets go of one mutex before it takes the other.
LatestIsNewestUnlessOverlap ==
  \A ty \in RequestType :
    latest[ty] # NoResponse /\ ~InCacheSection(ty) /\ ~overlapped[ty]
      => latest[ty].id = newest[ty]

\* A response that arrives is not expired yet: it is kept for the timeout
\* ("5分钟超时": a timeout of five minutes).
FreshOnArrival ==
  [][\A r \in queue' \ queue : ~IsResponseExpired(r)]_vars

Lapsed(i) == \E r \in queue : r.id = i /\ IsResponseExpired(r)

\* The cleanup thread removes what has expired, wherever it is in its queue, as
\* long as the thread runs, is told to, and no mutex hangs.
ExpiredAreSwept ==
  \A i \in 1 .. MaxPushes :
    Lapsed(i) ~> \/ ~Lapsed(i)
                 \/ ~config.auto \/ cleaner = "exited" \/ ~QueueFree \/ broken

\* Shutdown, and with it the destructor, returns: the cleanup thread sees the
\* flag, unless queue_mutex_ hangs.
ShutdownReturns ==
  stage = "joining" ~> stage = "stopped" \/ ~QueueFree \/ broken
=============================================================================
