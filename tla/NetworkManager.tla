--------------------------- MODULE NetworkManager ---------------------------
(***************************************************************************)
(* AsyncNetworkManager: the threads that call the library, the worker      *)
(* threads that perform the requests, and the thread that shuts it down    *)
(* (include/AsyncNetworkManager.h, src/AsyncNetworkManager.cpp).           *)
(*                                                                         *)
(* The request queue is used through what it promises, PriorityBuffer,     *)
(* which RequestQueue implements; the manager uses it in its dropping      *)
(* mode, the default.  Of the connection pool only the number of handles   *)
(* that are out matters here: AcquireHandle returns nullptr only when the  *)
(* limit is reached or curl_easy_init fails (ConnectionPool, NullMeansBusy *)
(* and ActiveCountExact).                                                  *)
(*                                                                         *)
(* A caller is, in SendRequest, at                                         *)
(*   "build"   about to build the URL          "hung"  blocked on the      *)
(*   "push"    about to push the request               auth_mutex_ it      *)
(*   "notify"  about to notify a worker                holds itself        *)
(*   "return"  about to read request->id                                   *)
(* or at "resume", between the store and the notification of Resume, or at *)
(* "idle".  A worker is, in WorkerThread, at                               *)
(*   "loop"     the head of the while loop                                 *)
(*   "lock"     about to get worker_mutex_ and evaluate the predicate      *)
(*   "blocking" has found the predicate FALSE, is about to wait            *)
(*   "waiting"  blocked on worker_cv_                                      *)
(*   "checked"  has found the predicate TRUE                               *)
(*   "take"     about to pop a request                                     *)
(*   "acquire"  about to acquire a connection                              *)
(*   "perform"  has a connection                                           *)
(*   "backoff"  sleeps before it queues the request again                  *)
(*   "respond"  about to push the response                                 *)
(*   "exited"   has left the thread function                               *)
(* and holds worker_mutex_ at "blocking", "checked" and "take".            *)
(***************************************************************************)
EXTENDS RequestTypes, FiniteSets

CONSTANTS
  Callers,        \* the threads that call the library
  Workers,        \* worker_threads_
  None,           \* "no request"
  Types,          \* the types of request that are sent
  Operations,     \* the operations that are called, the faults that happen
  Outcomes,       \* how a transfer may end, among AllOutcomes
  ConnectionArgs, \* connection limits, after the clamping of SetConfig
  QueueArgs,      \* queue sizes, after the clamping of SetConfig
  Relock,         \* what locking a mutex twice may do: "returns", "hangs"
  MaxRequests     \* bound on the number of requests created

\* "rejected" is an answer with the HTTP status of an authentication error.
AllOutcomes == {"ok", "timeout", "rejected", "failed"}

AllRequests == [id : 1 .. MaxRequests, type : Types, created : 1 .. MaxRequests,
                retry_count : 0 .. 5]

ASSUME ManagerAssumption ==
  /\ Types \subseteq RequestType
  /\ Outcomes \subseteq AllOutcomes
  /\ ConnectionArgs \subseteq Nat \ {0} /\ QueueArgs \subseteq Nat \ {0}
  /\ MaxRequests \in Nat
  /\ Relock \subseteq {"returns", "hangs"} /\ Relock # {}
  /\ None \notin AllRequests

VARIABLES
  queue,      \* request_queue_
  maxSize,    \* its max_size_
  maxConns,   \* the limit of connection_pool_
  auth,       \* account_, license_ and secret_key_ are all set
  paused,     \* paused_flag_
  stage,      \* Shutdown: "running", "flagged", "joining", "closed"
  nextId,     \* next_request_id_
  cpc,        \* where each caller is
  draft,      \* the request a caller builds
  wpc,        \* where each worker is
  job,        \* the request a worker executes
  status,     \* its status (PENDING while there is no request)
  responses,  \* the responses pushed to response_queue_
  stats,      \* stats_: attempts, successes and failures of each type
  tries,      \* ghost: how each attempt of a request ended
  accepted,   \* ghost: requests Push has accepted
  lost,       \* ghost: requests displaced, refused on retry, or cleared
  sincePause, \* ghost: requests taken since Pause
  missed      \* ghost: a notification found a worker about to wait

callers == <<nextId, auth, cpc, draft>>
workers == <<wpc, job, status, responses, tries, stats>>
config  == <<maxSize, maxConns>>
fate    == <<accepted, lost>>
vars    == <<queue, config, callers, paused, stage, workers, fate, sincePause,
             missed>>

shutdown == stage # "running"
----------------------------------------------------------------------------
(* Requests, the queue and the retry limits.                               *)

\* The id and the creation time are taken together: nothing compares them.
NewRequest(id, type) ==
  [id |-> id, type |-> type, created |-> id, retry_count |-> 0]

Buffer == INSTANCE PriorityBuffer
            WITH Requests <- AllRequests, content <- queue, capacity <- maxSize

Full == Cardinality(queue) >= maxSize

LowPriority == {r \in queue : GetRequestPriority(r.type) = PRIORITY_LOW}

Enters(r) ==
  \/ /\ Buffer!Admit(r)
     /\ UNCHANGED lost
  \/ /\ Full
     /\ \E v \in queue : Buffer!Displace(r, v) /\ lost' = lost \cup {v.id}

TurnedAway(r) ==
  /\ Full
  /\ GetRequestPriority(r.type) # PRIORITY_HIGH \/ LowPriority = {}
  /\ UNCHANGED <<queue, maxSize>>

max_retries == [HEARTBEAT |-> 2, EVENTS |-> 3, PARAMS |-> 5, PING |-> 1]

\* Mutant: the number of retries is compared with "<=".
ShouldRetry_OneMore(r, st) == r.retry_count <= max_retries[r.type]

\* Mutant: the first attempt is counted among the retries.
ShouldRetry_OneFewer(r, st) == r.retry_count + 1 < max_retries[r.type]

\* An AUTH_ERROR is not retried either, but nothing ever sets that status.
ShouldRetry(r, st) ==
  /\ r.retry_count < max_retries[r.type]
  /\ st # "AUTH_ERROR"

StatusOf(outcome) ==
  CASE outcome = "ok"      -> "SUCCESS"
    [] outcome = "timeout" -> "TIMEOUT"
    [] OTHER               -> "ERROR"
----------------------------------------------------------------------------
(* worker_mutex_ and worker_cv_.  The notifying threads never hold the     *)
(* mutex.                                                                  *)

\* Mutant: the worker does not take the mutex.
MutexFree_Never == TRUE

MutexFree == \A w \in Workers : wpc[w] \notin {"blocking", "checked", "take"}

Waiting == {w \in Workers : wpc[w] = "waiting"}

AboutToWait == \E w \in Workers : wpc[w] = "blocking"

notify_one ==
  \/ /\ Waiting = {}
     /\ missed' = (missed \/ AboutToWait)
     /\ UNCHANGED wpc
  \/ /\ \E w \in Waiting : wpc' = [wpc EXCEPT ![w] = "lock"]
     /\ UNCHANGED missed

\* Mutant: one worker is woken where all should be.
notify_all_JustOne == notify_one

notify_all ==
  /\ wpc' = [w \in Workers |-> IF w \in Waiting THEN "lock" ELSE wpc[w]]
  /\ missed' = (missed \/ AboutToWait)
----------------------------------------------------------------------------
(* The calls.                                                              *)

CallerGoes(c, from, to) == cpc[c] = from /\ cpc' = [cpc EXCEPT ![c] = to]

AuthFree == \A c \in Callers : cpc[c] # "hung"

\* After Shutdown has begun the call returns -1 and changes nothing.
SendRequest(c, type) ==
  /\ ~shutdown
  /\ nextId <= MaxRequests
  /\ CallerGoes(c, "idle", "build")
  /\ draft' = [draft EXCEPT ![c] = NewRequest(nextId, type)]
  /\ nextId' = nextId + 1
  /\ UNCHANGED <<queue, config, auth, paused, stage, workers, fate, sincePause,
                 missed>>

\* BuildRequestUrl returns "" without credentials; with them it calls
\* GenerateSignature, which locks auth_mutex_ a second time.
BuildRequestUrl(c) ==
  /\ AuthFree
  /\ \/ /\ ~auth
        /\ CallerGoes(c, "build", "idle")
        /\ draft' = [draft EXCEPT ![c] = None]
     \/ /\ auth
        /\ \/ "returns" \in Relock /\ CallerGoes(c, "build", "push")
           \/ "hangs" \in Relock /\ CallerGoes(c, "build", "hung")
        /\ UNCHANGED draft
  /\ UNCHANGED <<queue, config, nextId, auth, paused, stage, workers, fate,
                 sincePause, missed>>

\* The request is moved into the call: the caller's pointer is null afterwards.
\* (Once request_queue_ is gone the call is undefined: the model ends there.)
Push(c) ==
  /\ stage # "closed"
  /\ \/ /\ CallerGoes(c, "push", "notify")
        /\ Enters(draft[c])
        /\ accepted' = accepted \cup {draft[c].id}
     \/ /\ CallerGoes(c, "push", "idle")
        /\ TurnedAway(draft[c])
        /\ UNCHANGED fate
  /\ draft' = [draft EXCEPT ![c] = None]
  /\ UNCHANGED <<maxConns, nextId, auth, paused, stage, workers, sincePause,
                 missed>>

\* Mutant: the notification is forgotten.
NotifyWorker_Silent(c) ==
  /\ CallerGoes(c, "notify", "return")
  /\ UNCHANGED <<queue, config, nextId, auth, draft, paused, stage, workers, fate,
                 sincePause, missed>>

NotifyWorker(c) ==
  /\ CallerGoes(c, "notify", "return")
  /\ notify_one
  /\ UNCHANGED <<queue, config, nextId, auth, draft, paused, stage, job,
                 status, responses, tries, stats, fate, sincePause>>

\* return request->id; the model goes on with whatever value was read.
ReturnId(c) ==
  /\ CallerGoes(c, "return", "idle")
  /\ UNCHANGED <<queue, config, nextId, auth, draft, paused, stage, workers,
                 fate, sincePause, missed>>

SetAuth(c, complete) ==
  /\ cpc[c] = "idle"
  /\ AuthFree
  /\ auth' = complete
  /\ UNCHANGED <<queue, config, nextId, cpc, draft, paused, stage, workers, fate,
                 sincePause, missed>>

\* Resize and SetMaxSize are two critical sections, but no step looks at both
\* limits.  The number of workers is stored and never used again.
SetConfig(c, conns, size) ==
  /\ cpc[c] = "idle"
  /\ stage # "closed"
  /\ maxConns' = conns
  /\ maxSize' = size
  /\ UNCHANGED <<queue, callers, paused, stage, workers, fate, sincePause,
                 missed>>

Pause(c) ==
  /\ cpc[c] = "idle"
  /\ paused' = TRUE
  /\ UNCHANGED <<queue, config, callers, stage, workers, fate, sincePause, missed>>

Resume(c) ==
  /\ CallerGoes(c, "idle", "resume")
  /\ paused' = FALSE
  /\ sincePause' = 0
  /\ UNCHANGED <<queue, config, nextId, auth, draft, stage, workers, fate,
                 missed>>

NotifyResumed(c) ==
  /\ CallerGoes(c, "resume", "idle")
  /\ notify_all
  /\ UNCHANGED <<queue, config, nextId, auth, draft, paused, stage, job,
                 status, responses, tries, stats, fate, sincePause>>

ClearQueue(c, type) ==
  /\ cpc[c] = "idle"
  /\ stage # "closed"
  /\ Buffer!Discard({type})
  /\ lost' = lost \cup {r.id : r \in {x \in queue : x.type = type}}
  /\ UNCHANGED <<maxConns, callers, paused, stage, workers, accepted, sincePause,
                 missed>>
----------------------------------------------------------------------------
(* Shutdown, by a thread of its own.                                       *)

SetShutdownFlag ==
  /\ stage = "running"
  /\ stage' = "flagged"
  /\ UNCHANGED <<queue, config, callers, paused, workers, fate, sincePause,
                 missed>>

NotifyShutdown ==
  /\ stage = "flagged"
  /\ stage' = "joining"
  /\ notify_all
  /\ UNCHANGED <<queue, config, callers, paused, job, status, responses, tries,
                 stats, fate, sincePause>>

\* The workers are joined and the queues are freed with what is in them.
Join ==
  /\ stage = "joining"
  /\ \A w \in Workers : wpc[w] = "exited"
  /\ stage' = "closed"
  /\ queue' = {}
  /\ lost' = lost \cup {r.id : r \in queue}
  /\ UNCHANGED <<config, callers, paused, workers, accepted, sincePause, missed>>
----------------------------------------------------------------------------
(* WorkerThread up to the request.                                         *)

WorkerGoes(w, from, to) == wpc[w] = from /\ wpc' = [wpc EXCEPT ![w] = to]

Loop(w) ==
  /\ \/ shutdown /\ WorkerGoes(w, "loop", "exited")
     \/ ~shutdown /\ WorkerGoes(w, "loop", "lock")
  /\ UNCHANGED <<queue, config, callers, paused, stage, job, status, responses,
                 tries, stats, fate, sincePause, missed>>

Lock(w) ==
  /\ MutexFree
  /\ LET predicate == shutdown \/ (~paused /\ queue # {})
     IN  \/ predicate /\ WorkerGoes(w, "lock", "checked")
         \/ ~predicate /\ WorkerGoes(w, "lock", "blocking")
  /\ UNCHANGED <<queue, config, callers, paused, stage, job, status, responses,
                 tries, stats, fate, sincePause, missed>>

Wait(w) ==
  /\ WorkerGoes(w, "blocking", "waiting")
  /\ UNCHANGED <<queue, config, callers, paused, stage, job, status, responses,
                 tries, stats, fate, sincePause, missed>>

SpuriousWakeup(w) ==
  /\ WorkerGoes(w, "waiting", "lock")
  /\ UNCHANGED <<queue, config, callers, paused, stage, job, status, responses,
                 tries, stats, fate, sincePause, missed>>

Check(w) ==
  /\ \/ shutdown /\ WorkerGoes(w, "checked", "exited")
     \/ ~shutdown /\ paused /\ WorkerGoes(w, "checked", "loop")
     \/ ~shutdown /\ ~paused /\ WorkerGoes(w, "checked", "take")
  /\ UNCHANGED <<queue, config, callers, paused, stage, job, status, responses,
                 tries, stats, fate, sincePause, missed>>

\* Pop; the queue may have been cleared since the predicate was evaluated.
Take(w) ==
  /\ \/ /\ queue = {}
        /\ WorkerGoes(w, "take", "loop")
        /\ UNCHANGED <<queue, maxSize, job, sincePause>>
     \/ \E r \in queue :
          /\ Buffer!Serve(r)
          /\ WorkerGoes(w, "take", "acquire")
          /\ job' = [job EXCEPT ![w] = r]
          /\ sincePause' = IF paused THEN sincePause + 1 ELSE sincePause
  /\ UNCHANGED <<maxConns, callers, paused, stage, status, responses, tries,
                 stats, fate, missed>>
----------------------------------------------------------------------------
(* ExecuteRequest and the response.                                        *)

Busy == Cardinality({w \in Workers : wpc[w] = "perform"})

Attempt(r, outcome) ==
  [id |-> r.id, type |-> r.type, attempt |-> r.retry_count, outcome |-> outcome]

\* The default case of the switch: a PING is not counted.
UpdateStatistics(type, st) ==
  LET success == IF st = "SUCCESS" THEN 1 ELSE 0
  IN  stats' = [ty \in RequestType |->
                  IF ty # type \/ ty = "PING" THEN stats[ty]
                  ELSE [sent    |-> stats[ty].sent + 1,
                        success |-> stats[ty].success + success,
                        failed  |-> stats[ty].failed + 1 - success]]

\* A connection is given out below the limit, or because an earlier, higher
\* limit left more connections than the present one allows.
AcquireHandle(w) ==
  /\ \E n \in ConnectionArgs : Busy < n
  /\ WorkerGoes(w, "acquire", "perform")
  /\ status' = [status EXCEPT ![w] = "PENDING"]
  /\ UNCHANGED <<queue, config, callers, paused, stage, job, responses, tries,
                 stats, fate, sincePause, missed>>

\* "Failed to acquire connection": there is no retry on this path.
AcquireFails(w) ==
  /\ Busy >= maxConns \/ "curl_easy_init_fails" \in Operations
  /\ WorkerGoes(w, "acquire", "respond")
  /\ status' = [status EXCEPT ![w] = "ERROR"]
  /\ tries' = tries \cup {Attempt(job[w], "unconnected")}
  /\ UpdateStatistics(job[w].type, "ERROR")
  /\ UNCHANGED <<queue, config, callers, paused, stage, job, responses, fate,
                 sincePause, missed>>

\* Mutant: the status is not looked at before a retry.
Perform_AlwaysRetries(w, outcome) ==
  /\ wpc[w] = "perform"
  /\ LET st    == StatusOf(outcome)
         retry == ShouldRetry(job[w], st)
     IN  /\ status' = [status EXCEPT ![w] = st]
         /\ WorkerGoes(w, "perform", IF retry THEN "backoff" ELSE "respond")
  /\ tries' = tries \cup {Attempt(job[w], outcome)}
  /\ UpdateStatistics(job[w].type, StatusOf(outcome))
  /\ UNCHANGED <<queue, config, callers, paused, stage, job, responses, fate,
                 sincePause, missed>>

\* The transfer ends, the connection is released, a retry is decided on.
Perform(w, outcome) ==
  /\ wpc[w] = "perform"
  /\ LET st    == StatusOf(outcome)
         retry == st # "SUCCESS" /\ ShouldRetry(job[w], st)
     IN  /\ status' = [status EXCEPT ![w] = st]
         /\ WorkerGoes(w, "perform", IF retry THEN "backoff" ELSE "respond")
  /\ tries' = tries \cup {Attempt(job[w], outcome)}
  /\ UpdateStatistics(job[w].type, StatusOf(outcome))
  /\ UNCHANGED <<queue, config, callers, paused, stage, job, responses, fate,
                 sincePause, missed>>

\* Mutant: the copy is made before the counter is increased.
Again_NotCounted(r) == r

\* The copy that is queued again.
Again(r) == [r EXCEPT !.retry_count = @ + 1]

\* Mutant: the worker that has queued the retry goes on with the request.
Retry_GoesOn(w) ==
  /\ WorkerGoes(w, "backoff", "acquire")
  /\ \/ Enters(Again(job[w]))
     \/ TurnedAway(Again(job[w])) /\ lost' = lost \cup {job[w].id}
  /\ status' = [status EXCEPT ![w] = "PENDING"]
  /\ UNCHANGED <<maxConns, callers, paused, stage, job, responses, tries,
                 stats, accepted, sincePause, missed>>

\* A retry the queue refuses is gone.  No worker is notified: this one is
\* about to look at the queue.
Retry(w) ==
  /\ WorkerGoes(w, "backoff", "respond")
  /\ \/ Enters(Again(job[w]))
     \/ TurnedAway(Again(job[w])) /\ lost' = lost \cup {job[w].id}
  /\ status' = [status EXCEPT ![w] = "PENDING"]
  /\ UNCHANGED <<maxConns, callers, paused, stage, job, responses, tries,
                 stats, accepted, sincePause, missed>>

Response(w) ==
  [id |-> job[w].id, type |-> job[w].type, attempt |-> job[w].retry_count,
   status |-> status[w]]

\* Mutant: responses that are not successful are not passed on.
Respond_SuccessOnly(w) ==
  /\ WorkerGoes(w, "respond", "loop")
  /\ responses' = IF status[w] = "SUCCESS" THEN responses \cup {Response(w)}
                  ELSE responses
  /\ job' = [job EXCEPT ![w] = None]
  /\ status' = [status EXCEPT ![w] = "PENDING"]
  /\ UNCHANGED <<queue, config, callers, paused, stage, tries, stats, fate,
                 sincePause, missed>>

\* Whatever the status is, a response is pushed, and the request is destroyed.
Respond(w) ==
  /\ WorkerGoes(w, "respond", "loop")
  /\ responses' = responses \cup {Response(w)}
  /\ job' = [job EXCEPT ![w] = None]
  /\ status' = [status EXCEPT ![w] = "PENDING"]
  /\ UNCHANGED <<queue, config, callers, paused, stage, tries, stats, fate,
                 sincePause, missed>>
----------------------------------------------------------------------------
\* The state after Initialize.
Init ==
  /\ queue = {}
  /\ maxSize \in QueueArgs
  /\ maxConns \in ConnectionArgs
  /\ auth = FALSE
  /\ paused = FALSE
  /\ stage = "running"
  /\ nextId = 1
  /\ cpc = [c \in Callers |-> "idle"]
  /\ draft = [c \in Callers |-> None]
  /\ wpc = [w \in Workers |-> "loop"]
  /\ job = [w \in Workers |-> None]
  /\ status = [w \in Workers |-> "PENDING"]
  /\ responses = {}
  /\ tries = {}
  /\ stats = [ty \in RequestType |-> [sent |-> 0, success |-> 0, failed |-> 0]]
  /\ accepted = {}
  /\ lost = {}
  /\ sincePause = 0
  /\ missed = FALSE

\* The calls a caller may make ...
Call(c) ==
  \/ \E ty \in Types : SendRequest(c, ty)
  \/ "SetAuth" \in Operations /\ \E complete \in BOOLEAN : SetAuth(c, complete)
  \/ "SetConfig" \in Operations
       /\ \E n \in ConnectionArgs, m \in QueueArgs : SetConfig(c, n, m)
  \/ "Pause" \in Operations /\ (Pause(c) \/ Resume(c))
  \/ "ClearQueue" \in Operations /\ \E ty \in Types : ClearQueue(c, ty)

\* ... and what it does on its own once it is in a call.
Continue(c) ==
  \/ BuildRequestUrl(c)
  \/ Push(c)
  \/ NotifyWorker(c)
  \/ ReturnId(c)
  \/ NotifyResumed(c)

Shutdown == NotifyShutdown \/ Join

Work(w) ==
  \/ Loop(w) \/ Lock(w) \/ Wait(w) \/ Check(w) \/ Take(w)
  \/ AcquireHandle(w) \/ AcquireFails(w)
  \/ \E outcome \in Outcomes : Perform(w, outcome)
  \/ Retry(w) \/ Respond(w)

Next ==
  \/ \E c \in Callers : Call(c) \/ Continue(c)
  \/ "Shutdown" \in Operations /\ SetShutdownFlag
  \/ Shutdown
  \/ \E w \in Workers : Work(w) \/ SpuriousWakeup(w)

Spec == Init /\ [][Next]_vars

(***************************************************************************)
(* Calls return and transfers end: CURLOPT_TIMEOUT is set, in whole        *)
(* seconds, and timeout_ms_ is assumed to be a second or more (0 is no     *)
(* timeout to curl).  A worker that can go on does, and gets a mutex that  *)
(* is released again and again.  Nothing is assumed of spurious wake-ups   *)
(* or of the calls that are made.                                          *)
(***************************************************************************)
FairSpec ==
  /\ Spec
  /\ \A c \in Callers : WF_vars(Continue(c))
  /\ WF_vars(Shutdown)
  /\ \A w \in Workers : WF_vars(Work(w)) /\ SF_vars(Lock(w))
----------------------------------------------------------------------------
AtWork(w) == wpc[w] \in {"acquire", "perform", "backoff"}

\* Every variable has the values the code can give it; a worker has a request
\* exactly from the pop to the response; at most one holds worker_mutex_.
TypeOK ==
  /\ queue \subseteq AllRequests
  /\ draft \in [Callers -> AllRequests \cup {None}]
  /\ job \in [Workers -> AllRequests \cup {None}]
  /\ maxSize \in QueueArgs /\ maxConns \in ConnectionArgs
  /\ auth \in BOOLEAN /\ paused \in BOOLEAN /\ missed \in BOOLEAN
  /\ stage \in {"running", "flagged", "joining", "closed"}
  /\ nextId \in 1 .. MaxRequests + 1
  /\ cpc \in [Callers -> {"idle", "build", "hung", "push", "notify", "return",
                          "resume"}]
  /\ wpc \in [Workers -> {"loop", "lock", "blocking", "waiting", "checked",
                          "take", "acquire", "perform", "backoff", "respond",
                          "exited"}]
  /\ \A c \in Callers : (draft[c] # None) <=> cpc[c] \in {"build", "hung", "push"}
  /\ \A w \in Workers : (job[w] # None) <=> (AtWork(w) \/ wpc[w] = "respond")
  /\ status \in [Workers -> {"PENDING", "SUCCESS", "TIMEOUT", "ERROR"}]
  /\ stats \in [RequestType -> [sent : Nat, success : Nat, failed : Nat]]
  /\ lost \subseteq accepted /\ accepted \subseteq 1 .. MaxRequests
  /\ sincePause \in Nat
  /\ \A v, w \in Workers :
       /\ wpc[v] \in {"blocking", "checked", "take"}
       /\ wpc[w] \in {"blocking", "checked", "take"}
       => v = w

\* A request is never in two places, although a retry puts a copy of it back
\* into the queue while the worker still has the original: no two workers
\* perform it at once, and none performs it while it is queued.
OneOwner ==
  /\ \A v, w \in Workers :
       AtWork(v) /\ AtWork(w) /\ job[v].id = job[w].id => v = w
  /\ \A w \in Workers, r \in queue : AtWork(w) => job[w].id # r.id
  /\ \A r, s \in queue : r.id = s.id => r = s

Final == {r \in responses : r.status # "PENDING"}

\* No accepted request vanishes, however often it is retried: it is queued, is
\* executed or about to get its final response, has got it, or was lost in one
\* of the ways the code knows (displaced, cleared, refused as a retry, freed by
\* Shutdown).
NothingVanishes ==
  \A i \in accepted :
    \/ \E r \in queue : r.id = i
    \/ \E w \in Workers : /\ job[w] # None /\ job[w].id = i
                          /\ AtWork(w) \/ status[w] # "PENDING"
    \/ i \in lost
    \/ \E r \in Final : r.id = i

\* A success the client has seen is the last attempt of its request: no copy of
\* it is performed afterwards.  (What the server accepted after the client had
\* given up is a "timeout" here, and is sent again.)
SuccessIsFinal ==
  \A s, t \in tries :
    s.id = t.id /\ s.outcome = "ok" => t.attempt <= s.attempt

\* A request whose final response is a failure has had all the attempts its
\* type allows, unless it got no connection.
RetriesExhausted ==
  \A r \in Final :
    r.status # "SUCCESS" =>
      \/ [id |-> r.id, type |-> r.type, attempt |-> r.attempt,
          outcome |-> "unconnected"] \in tries
      \/ r.attempt = max_retries[r.type]

\* The attempts of the requests of a type, and the requests that were answered.
Sent(ty) == {<<t.id, t.attempt>> : t \in {u \in tries : u.type = ty}}

Answered(ty) == {t.id : t \in {u \in tries : u.type = ty /\ u.outcome = "ok"}}

\* The statistics count each attempt once, and as successes the requests that
\* were answered, however attempts, retries and the counting of several workers
\* fall together.
StatisticsExact ==
  \A ty \in RequestType \ {"PING"} :
    /\ stats[ty].sent = Cardinality(Sent(ty))
    /\ stats[ty].success = Cardinality(Answered(ty))
    /\ stats[ty].failed = stats[ty].sent - stats[ty].success

\* Pause stops the workers: however many there are, at most one request is
\* taken after Pause returns and before Resume.
PauseAdmitsAtMostOne == paused => sincePause <= 1

Queued(i) == \E r \in queue : r.id = i

\* A queued request is taken by a worker, as long as nobody pauses or shuts
\* down the manager ...
RequestIsTaken ==
  \A i \in 1 .. MaxRequests :
    Queued(i) ~> (~Queued(i) \/ paused \/ shutdown)

\* ... unless a notification was missed: the window between a worker's look
\* at the predicate and its wait is the only way to lose a wake-up.
TakenUnlessMissed == []~missed => RequestIsTaken

\* Shutdown returns ("等待工作线程结束") ...
ShutdownCompletes == stage = "flagged" ~> stage = "closed"

\* ... unless its notification was missed.
CompletesUnlessMissed == []~missed => ShutdownCompletes

\* SendRequest does not block its caller ("完全异步的网络请求，不阻塞MT4主线程").
SendReturns == \A c \in Callers : cpc[c] = "build" ~> cpc[c] = "idle"
=============================================================================
