------------------------ MODULE NetworkManagerProofs ------------------------
(***************************************************************************)
(* What NetworkManager guarantees for any number of callers, workers,      *)
(* connections and requests.                                               *)
(***************************************************************************)
EXTENDS NetworkManager, FiniteSetTheorems, TLAPS

USE ManagerAssumption

\* Ids are handed out once: the requests being built have ids of their own,
\* those that are queued or executed have ids that were accepted.
Ids ==
  /\ \A r \in queue : r.id \in accepted
  /\ \A w \in Workers : job[w] # None => job[w].id \in accepted
  /\ \A i \in accepted : i < nextId
  /\ \A c \in Callers :
       draft[c] # None => draft[c].id < nextId /\ draft[c].id \notin accepted
  /\ \A c, d \in Callers :
       draft[c] # None /\ draft[d] # None /\ draft[c].id = draft[d].id => c = d
  /\ \A w \in Workers : wpc[w] = "backoff" => job[w].retry_count < 5

\* Nobody is past the look at paused_flag_ once a request was taken after Pause.
Pausing ==
  /\ ~paused => sincePause = 0
  /\ sincePause <= 1
  /\ sincePause = 1 => \A w \in Workers : wpc[w] # "take"

\* The inductive invariant.
ManagerInv ==
  /\ TypeOK
  /\ Ids
  /\ OneOwner
  /\ NothingVanishes
  /\ Pausing

----------------------------------------------------------------------------
(* The queue.                                                              *)

\* A request that enters may displace others, which are then lost.
LEMMA EntersFacts ==
  ASSUME NEW r, Enters(r)
  PROVE  /\ maxSize' = maxSize
         /\ r \notin queue
         /\ \E gone \in SUBSET queue : /\ queue' = (queue \ gone) \cup {r}
                                       /\ lost' = lost \cup {v.id : v \in gone}
<1>1. CASE Buffer!Admit(r) /\ UNCHANGED lost
  <2>1. queue' = (queue \ {}) \cup {r} /\ lost' = lost \cup {v.id : v \in {}}
    BY <1>1 DEF Buffer!Admit
  <2> QED
    BY <1>1, <2>1 DEF Buffer!Admit
<1>2. ASSUME NEW v \in queue, Buffer!Displace(r, v), lost' = lost \cup {v.id}
      PROVE  /\ maxSize' = maxSize
             /\ r \notin queue
             /\ \E gone \in SUBSET queue : /\ queue' = (queue \ gone) \cup {r}
                                           /\ lost' = lost \cup {x.id : x \in gone}
  <2>1. queue' = (queue \ {v}) \cup {r} /\ lost' = lost \cup {x.id : x \in {v}}
    BY <1>2 DEF Buffer!Displace
  <2> QED
    BY <1>2, <2>1 DEF Buffer!Displace
<1> QED
  BY <1>1, <1>2 DEF Enters

\* The state after Initialize satisfies the invariant.
LEMMA InitHolds == Init => ManagerInv
<1> SUFFICES ASSUME Init PROVE ManagerInv
  OBVIOUS
<1>1. TypeOK
  <2>1. nextId \in 1 .. MaxRequests + 1 /\ sincePause \in Nat
    BY DEF Init
  <2>2. \A w \in Workers : wpc[w] = "loop"
    BY DEF Init
  <2>3. \A w \in Workers : (job[w] # None) <=> (AtWork(w) \/ wpc[w] = "respond")
    BY <2>2 DEF Init, AtWork
  <2> QED
    BY <2>1, <2>2, <2>3 DEF Init, TypeOK
<1>2. Ids /\ OneOwner /\ NothingVanishes /\ Pausing
  BY DEF Init, Ids, OneOwner, NothingVanishes, Pausing, AtWork
<1> QED
  BY <1>1, <1>2 DEF ManagerInv

\* The steps that move threads about and change flags, but leave the requests
\* alone: callers that hold no request go to places where they hold none,
\* workers without a request likewise, and the mutex is respected.
LEMMA MovesKeep ==
  ASSUME ManagerInv,
         UNCHANGED <<queue, nextId, draft, job, status, responses, stats, fate>>,
         maxSize' \in QueueArgs /\ maxConns' \in ConnectionArgs,
         auth' \in BOOLEAN /\ paused' \in BOOLEAN /\ missed' \in BOOLEAN,
         stage' \in {"running", "flagged", "joining", "closed"},
         cpc' \in [Callers -> {"idle", "build", "hung", "push", "notify", "return",
                               "resume"}],
         \A c \in Callers : cpc'[c] \in {"build", "hung", "push"}
                              <=> cpc[c] \in {"build", "hung", "push"},
         wpc' \in [Workers -> {"loop", "lock", "blocking", "waiting", "checked",
                               "take", "acquire", "perform", "backoff", "respond",
                               "exited"}],
         \A w \in Workers :
           \/ wpc'[w] = wpc[w]
           \/ /\ wpc[w] \notin {"acquire", "perform", "backoff", "respond"}
              /\ wpc'[w] \notin {"acquire", "perform", "backoff", "respond"},
         \A v, w \in Workers :
           /\ wpc'[v] \in {"blocking", "checked", "take"}
           /\ wpc'[w] \in {"blocking", "checked", "take"}
           => v = w,
         sincePause' \in {0, sincePause},
         Pausing'
  PROVE  ManagerInv'
<1> USE DEF fate
<1>1. \A w \in Workers : /\ AtWork(w)' = AtWork(w)
                         /\ (wpc'[w] = "respond") = (wpc[w] = "respond")
                         /\ wpc'[w] = "backoff" => wpc[w] = "backoff"
  BY DEF AtWork
<1>2. sincePause' \in Nat
  BY DEF ManagerInv, TypeOK
<1>3. TypeOK'
  BY <1>1, <1>2 DEF ManagerInv, TypeOK
<1>4. Ids'
  BY <1>1 DEF ManagerInv, Ids
<1>5. (OneOwner /\ NothingVanishes)'
  BY <1>1 DEF ManagerInv, OneOwner, NothingVanishes, Final
<1> QED
  BY <1>3, <1>4, <1>5 DEF ManagerInv

----------------------------------------------------------------------------
(* The callers.                                                            *)

\* A new request gets an id nobody has.
LEMMA SendRequestKeeps ==
  ASSUME ManagerInv, NEW c \in Callers, NEW ty \in Types, SendRequest(c, ty)
  PROVE  ManagerInv'
<1> USE DEF SendRequest, CallerGoes, NewRequest, config, fate, workers
<1>1. NewRequest(nextId, ty) \in AllRequests
  BY DEF ManagerInv, TypeOK, AllRequests
<1>2. TypeOK'
  BY <1>1 DEF ManagerInv, TypeOK, AtWork
<1> DEFINE r == NewRequest(nextId, ty)
<1>3. Ids'
  <2>1. draft' = [draft EXCEPT ![c] = r] /\ nextId' = nextId + 1 /\ nextId \in Nat
    BY DEF ManagerInv, TypeOK
  <2>2. r.id = nextId /\ nextId \notin accepted
    BY <2>1 DEF ManagerInv, Ids, TypeOK
  <2>3. UNCHANGED <<queue, accepted, job, wpc>>
    OBVIOUS
  <2>4. \A i \in accepted' : i < nextId'
    BY <2>1, <2>3 DEF ManagerInv, Ids, TypeOK
  <2> HIDE DEF r
  <2>5. \A d \in Callers : draft[d] # None => draft[d].id < nextId + 1
    BY <2>1 DEF ManagerInv, Ids, TypeOK, AllRequests
  <2>6. \A d \in Callers :
          draft'[d] # None => draft'[d].id < nextId' /\ draft'[d].id \notin accepted'
    BY <2>1, <2>2, <2>3, <2>5 DEF ManagerInv, Ids, TypeOK
  <2>7. \A d \in Callers : draft[d] # None => draft[d].id # nextId
    BY <2>1 DEF ManagerInv, Ids
  <2>8. \A d, e \in Callers :
          draft'[d] # None /\ draft'[e] # None /\ draft'[d].id = draft'[e].id => d = e
    BY <2>1, <2>2, <2>7 DEF ManagerInv, Ids, TypeOK
  <2> QED
    BY <2>3, <2>4, <2>6, <2>8 DEF ManagerInv, Ids
<1>4. (OneOwner /\ NothingVanishes /\ Pausing)'
  BY DEF ManagerInv, OneOwner, NothingVanishes, Pausing, AtWork, Final
<1> QED
  BY <1>2, <1>3, <1>4 DEF ManagerInv

\* Without credentials the request is dropped before it was accepted.
LEMMA BuildRequestUrlKeeps ==
  ASSUME ManagerInv, NEW c \in Callers, BuildRequestUrl(c)
  PROVE  ManagerInv'
<1> USE DEF BuildRequestUrl, CallerGoes, config, fate, workers
<1>1. TypeOK'
  BY DEF ManagerInv, TypeOK, AtWork
<1>2. Ids'
  BY DEF ManagerInv, Ids, TypeOK
<1>3. (OneOwner /\ NothingVanishes /\ Pausing)'
  BY DEF ManagerInv, OneOwner, NothingVanishes, Pausing, AtWork, Final
<1> QED
  BY <1>1, <1>2, <1>3 DEF ManagerInv

\* The request moves from its caller into the queue, or is refused.
LEMMA PushKeeps ==
  ASSUME ManagerInv, NEW c \in Callers, Push(c)
  PROVE  ManagerInv'
<1> DEFINE r == draft[c]
<1>1. /\ cpc[c] = "push"
      /\ draft' = [draft EXCEPT ![c] = None]
      /\ UNCHANGED <<maxConns, nextId, auth, paused, stage, workers, sincePause,
                     missed>>
  BY DEF Push, CallerGoes
<1>2. r \in AllRequests /\ r # None
  BY <1>1 DEF ManagerInv, TypeOK
<1>3. r.id \in 1 .. MaxRequests /\ r.id < nextId /\ r.id \notin accepted
  BY <1>2 DEF ManagerInv, Ids, AllRequests
<1>4. CASE /\ cpc' = [cpc EXCEPT ![c] = "notify"]
           /\ Enters(r)
           /\ accepted' = accepted \cup {r.id}
  <2>1. PICK gone \in SUBSET queue : /\ queue' = (queue \ gone) \cup {r}
                                     /\ lost' = lost \cup {v.id : v \in gone}
    BY <1>4, EntersFacts
  <2>2. maxSize' = maxSize
    BY <1>4, EntersFacts
  <2> HIDE DEF r
  <2>3. lost' \subseteq accepted'
    <3>1. {v.id : v \in gone} \subseteq accepted
      BY DEF ManagerInv, Ids
    <3> QED
      BY <1>4, <2>1, <3>1 DEF ManagerInv, TypeOK
  <2>4. TypeOK'
    BY <1>1, <1>2, <1>3, <1>4, <2>1, <2>2, <2>3 DEF ManagerInv, TypeOK, AtWork, workers
  <2>5. Ids'
    BY <1>1, <1>2, <1>3, <1>4, <2>1 DEF ManagerInv, Ids, TypeOK, workers, r
  <2>6. OneOwner'
    BY <1>1, <1>2, <1>3, <1>4, <2>1 DEF ManagerInv, Ids, OneOwner, AtWork, workers, TypeOK
  <2>7. NothingVanishes'
    BY <1>1, <1>4, <2>1 DEF ManagerInv, NothingVanishes, AtWork, Final, workers
  <2>8. Pausing'
    BY <1>1 DEF ManagerInv, Pausing, workers
  <2> QED
    BY <2>4, <2>5, <2>6, <2>7, <2>8 DEF ManagerInv
<1>5. CASE /\ cpc' = [cpc EXCEPT ![c] = "idle"]
           /\ UNCHANGED <<queue, maxSize, fate>>
  <2> USE <1>1, <1>5 DEF workers, fate
  <2>1. TypeOK'
    BY DEF ManagerInv, TypeOK, AtWork
  <2>2. Ids'
    BY DEF ManagerInv, Ids, TypeOK
  <2>3. (OneOwner /\ NothingVanishes /\ Pausing)'
    BY DEF ManagerInv, OneOwner, NothingVanishes, Pausing, AtWork, Final
  <2> QED
    BY <2>1, <2>2, <2>3 DEF ManagerInv
<1> QED
  BY <1>4, <1>5 DEF Push, CallerGoes, TurnedAway

\* notify_one moves at most one waiting worker.
LEMMA NotifyWorkerKeeps ==
  ASSUME ManagerInv, NEW c \in Callers, NotifyWorker(c)
  PROVE  ManagerInv'
<1> USE DEF ManagerInv, TypeOK
<1>1. /\ cpc[c] = "notify"
      /\ cpc' = [cpc EXCEPT ![c] = "return"]
      /\ \/ wpc' = wpc
         \/ \E w \in Workers : wpc[w] = "waiting" /\ wpc' = [wpc EXCEPT ![w] = "lock"]
      /\ missed' \in BOOLEAN
      /\ UNCHANGED <<queue, config, nextId, auth, draft, paused, stage, job, status,
                     responses, tries, stats, fate, sincePause>>
  BY DEF NotifyWorker, CallerGoes, notify_one, Waiting, AboutToWait
<1>2. Pausing'
  BY <1>1 DEF Pausing
<1> QED
  BY <1>1, <1>2, MovesKeep DEF config

\* The calls that leave requests, ids and workers alone.
LEMMA SettingsKeep ==
  ASSUME ManagerInv, NEW c \in Callers,
         \/ ReturnId(c)
         \/ \E complete \in BOOLEAN : SetAuth(c, complete)
         \/ \E n \in ConnectionArgs, m \in QueueArgs : SetConfig(c, n, m)
         \/ Pause(c)
         \/ Resume(c)
  PROVE  ManagerInv'
<1> USE DEF ManagerInv, TypeOK
<1>1. UNCHANGED <<queue, nextId, draft, workers, fate, missed, stage>>
  BY DEF ReturnId, SetAuth, SetConfig, Pause, Resume, callers
<1>2. /\ maxSize' \in QueueArgs /\ maxConns' \in ConnectionArgs
      /\ auth' \in BOOLEAN /\ paused' \in BOOLEAN
  BY DEF ReturnId, SetAuth, SetConfig, Pause, Resume, callers, config
<1>3. /\ sincePause' \in {0, sincePause}
      /\ ~paused' => sincePause' = 0
  BY DEF ReturnId, SetAuth, SetConfig, Pause, Resume, Pausing
<1>4. \/ cpc' = cpc
      \/ /\ cpc[c] \in {"return", "idle"}
         /\ \E to \in {"idle", "resume"} : cpc' = [cpc EXCEPT ![c] = to]
  BY DEF ReturnId, SetAuth, SetConfig, Pause, Resume, CallerGoes, callers
<1>5. /\ cpc' \in [Callers -> {"idle", "build", "hung", "push", "notify", "return",
                               "resume"}]
      /\ \A d \in Callers : cpc'[d] \in {"build", "hung", "push"}
                              <=> cpc[d] \in {"build", "hung", "push"}
  BY <1>4
<1>6. Pausing'
  BY <1>1, <1>3 DEF Pausing, workers
<1> QED
  BY <1>1, <1>2, <1>3, <1>5, <1>6, MovesKeep DEF workers

\* notify_all moves waiting workers only.
LEMMA NotifyResumedKeeps ==
  ASSUME ManagerInv, NEW c \in Callers, NotifyResumed(c)
  PROVE  ManagerInv'
<1> USE DEF ManagerInv, TypeOK
<1>1. /\ cpc[c] = "resume"
      /\ cpc' = [cpc EXCEPT ![c] = "idle"]
      /\ wpc' = [w \in Workers |-> IF wpc[w] = "waiting" THEN "lock" ELSE wpc[w]]
      /\ missed' \in BOOLEAN
      /\ UNCHANGED <<queue, config, nextId, auth, draft, paused, stage, job, status,
                     responses, tries, stats, fate, sincePause>>
  BY DEF NotifyResumed, CallerGoes, notify_all, Waiting, AboutToWait
<1>2. Pausing'
  BY <1>1 DEF Pausing
<1> QED
  BY <1>1, <1>2, MovesKeep DEF config

\* What ClearQueue removes is lost, and known to be.
LEMMA ClearQueueKeeps ==
  ASSUME ManagerInv, NEW c \in Callers, NEW ty \in Types, ClearQueue(c, ty)
  PROVE  ManagerInv'
<1>1. /\ queue' = {r \in queue : r.type # ty}
      /\ lost' = lost \cup {r.id : r \in {x \in queue : x.type = ty}}
      /\ UNCHANGED <<maxSize, maxConns, callers, paused, stage, workers, accepted,
                     sincePause, missed>>
  BY DEF ClearQueue, Buffer!Discard
<1> USE DEF callers, workers
<1>2. {r.id : r \in {x \in queue : x.type = ty}} \subseteq accepted
  BY DEF ManagerInv, Ids
<1>3. lost' \subseteq accepted' /\ queue' \subseteq AllRequests
  BY <1>1, <1>2 DEF ManagerInv, TypeOK
<1>4. TypeOK'
  BY <1>1, <1>3 DEF ManagerInv, TypeOK, AtWork
<1>5. Ids'
  BY <1>1 DEF ManagerInv, Ids
<1>6. (OneOwner /\ NothingVanishes /\ Pausing)'
  BY <1>1 DEF ManagerInv, OneOwner, NothingVanishes, Pausing, AtWork, Final
<1> QED
  BY <1>4, <1>5, <1>6 DEF ManagerInv

----------------------------------------------------------------------------
(* Shutdown.                                                               *)

\* The shutdown flag by itself changes nothing else.
LEMMA SetShutdownFlagKeeps ==
  ASSUME ManagerInv, SetShutdownFlag
  PROVE  ManagerInv'
BY DEF ManagerInv, SetShutdownFlag, TypeOK, Ids, OneOwner, NothingVanishes, Pausing,
       AtWork, Final, callers, config, fate, workers

\* notify_all moves waiting workers only.
LEMMA NotifyShutdownKeeps ==
  ASSUME ManagerInv, NotifyShutdown
  PROVE  ManagerInv'
<1> USE DEF ManagerInv, TypeOK
<1>1. /\ stage' = "joining"
      /\ wpc' = [w \in Workers |-> IF wpc[w] = "waiting" THEN "lock" ELSE wpc[w]]
      /\ missed' \in BOOLEAN
      /\ UNCHANGED <<queue, config, callers, paused, job, status, responses, tries, stats,
                     fate, sincePause>>
  BY DEF NotifyShutdown, notify_all, Waiting, AboutToWait
<1>2. Pausing'
  BY <1>1 DEF Pausing
<1> QED
  BY <1>1, <1>2, MovesKeep DEF config, callers

\* What is queued when the queue is freed is lost, and known to be.
LEMMA JoinKeeps ==
  ASSUME ManagerInv, Join
  PROVE  ManagerInv'
<1>1. /\ queue' = {}
      /\ stage' = "closed"
      /\ lost' = lost \cup {r.id : r \in queue}
      /\ UNCHANGED <<config, callers, paused, workers, accepted, sincePause, missed>>
  BY DEF Join
<1> USE DEF callers, config, workers
<1>2. {r.id : r \in queue} \subseteq accepted
  BY DEF ManagerInv, Ids
<1>3. lost' \subseteq accepted'
  BY <1>1, <1>2 DEF ManagerInv, TypeOK
<1>4. TypeOK'
  BY <1>1, <1>3 DEF ManagerInv, TypeOK, AtWork
<1>5. (Ids /\ OneOwner /\ NothingVanishes /\ Pausing)'
  BY <1>1 DEF ManagerInv, Ids, OneOwner, NothingVanishes, Pausing, AtWork, Final
<1> QED
  BY <1>4, <1>5 DEF ManagerInv

----------------------------------------------------------------------------
(* The workers.                                                            *)

\* The steps of a worker that has no request, but for the pop.
LEMMA LoopKeeps ==
  ASSUME ManagerInv, NEW w \in Workers,
         \/ Loop(w) \/ Lock(w) \/ Wait(w) \/ SpuriousWakeup(w) \/ Check(w)
  PROVE  ManagerInv'
<1> USE DEF ManagerInv, TypeOK
<1>1. UNCHANGED <<queue, config, callers, paused, stage, job, status, responses,
                  tries, stats, fate, sincePause, missed>>
  BY DEF Loop, Lock, Wait, SpuriousWakeup, Check
<1>2. PICK to \in {"loop", "lock", "blocking", "waiting", "checked", "take",
                   "exited"} :
        /\ wpc' = [wpc EXCEPT ![w] = to]
        /\ wpc[w] \in {"loop", "lock", "blocking", "waiting", "checked"}
        /\ to \in {"blocking", "checked", "take"} =>
             \/ wpc[w] = "checked"
             \/ \A v \in Workers : wpc[v] \notin {"blocking", "checked", "take"}
        /\ to = "take" => ~paused
  BY DEF Loop, Lock, Wait, SpuriousWakeup, Check, WorkerGoes, MutexFree
<1>3. \A u, v \in Workers :
        /\ wpc'[u] \in {"blocking", "checked", "take"}
        /\ wpc'[v] \in {"blocking", "checked", "take"}
        => u = v
  BY <1>2
<1>4. Pausing'
  BY <1>1, <1>2 DEF Pausing
<1>5. /\ wpc' \in [Workers -> {"loop", "lock", "blocking", "waiting", "checked",
                               "take", "acquire", "perform", "backoff", "respond",
                               "exited"}]
      /\ \A v \in Workers :
           \/ wpc'[v] = wpc[v]
           \/ /\ wpc[v] \notin {"acquire", "perform", "backoff", "respond"}
              /\ wpc'[v] \notin {"acquire", "perform", "backoff", "respond"}
  BY <1>2
<1> QED
  BY <1>1, <1>3, <1>4, <1>5, MovesKeep DEF config, callers

\* The popped request has one new owner, this worker.
LEMMA TakeKeeps ==
  ASSUME ManagerInv, NEW w \in Workers, Take(w)
  PROVE  ManagerInv'
<1>1. /\ wpc[w] = "take"
      /\ UNCHANGED <<maxConns, callers, paused, stage, status, responses, tries, stats,
                     fate, missed>>
  BY DEF Take, WorkerGoes
<1> USE DEF callers, fate
<1>2. CASE /\ wpc' = [wpc EXCEPT ![w] = "loop"]
           /\ UNCHANGED <<queue, maxSize, job, sincePause>>
  <2>1. TypeOK'
    BY <1>1, <1>2 DEF ManagerInv, TypeOK, AtWork
  <2>2. Ids'
    BY <1>1, <1>2 DEF ManagerInv, Ids, TypeOK
  <2>3. \A v \in Workers : AtWork(v)' = AtWork(v)
    BY <1>1, <1>2 DEF ManagerInv, TypeOK, AtWork
  <2>4. (OneOwner /\ NothingVanishes /\ Pausing)'
    BY <1>1, <1>2, <2>3 DEF ManagerInv, TypeOK, OneOwner, NothingVanishes, Pausing, Final
  <2> QED
    BY <2>1, <2>2, <2>4 DEF ManagerInv
<1>3. ASSUME NEW r \in queue,
             queue' = queue \ {r}, maxSize' = maxSize,
             wpc' = [wpc EXCEPT ![w] = "acquire"],
             job' = [job EXCEPT ![w] = r],
             sincePause' = IF paused THEN sincePause + 1 ELSE sincePause
      PROVE  ManagerInv'
  <2>1. r \in AllRequests /\ r # None /\ r.id \in accepted
    BY DEF ManagerInv, TypeOK, Ids
  <2>2. TypeOK'
    BY <1>1, <1>3, <2>1 DEF ManagerInv, TypeOK, AtWork
  <2>3. Ids'
    BY <1>1, <1>3, <2>1 DEF ManagerInv, Ids, TypeOK
  <2>4. \A v \in Workers : v # w => (AtWork(v)' = AtWork(v) /\ job'[v] = job[v])
    BY <1>1, <1>3 DEF ManagerInv, TypeOK, AtWork
  <2>5. AtWork(w)' /\ job'[w] = r
    BY <1>3 DEF ManagerInv, TypeOK, AtWork
  <2>6. OneOwner'
    BY <1>3, <2>4, <2>5 DEF ManagerInv, OneOwner
  <2>7. job[w] = None
    BY <1>1 DEF ManagerInv, TypeOK, AtWork
  <2>8. NothingVanishes'
    BY <1>1, <1>3, <2>1, <2>4, <2>5, <2>7 DEF ManagerInv, NothingVanishes, Final
  <2>9. Pausing'
    BY <1>1, <1>3 DEF ManagerInv, Pausing, TypeOK
  <2> QED
    BY <2>2, <2>3, <2>6, <2>8, <2>9 DEF ManagerInv
<1> QED
  BY <1>2, <1>3 DEF Take, WorkerGoes, Buffer!Serve, Buffer!Top, Top

\* What an attempt does to the statistics.
LEMMA CountingKeepsType ==
  ASSUME stats \in [RequestType -> [sent : Nat, success : Nat, failed : Nat]],
         NEW type, NEW st, UpdateStatistics(type, st)
  PROVE  stats' \in [RequestType -> [sent : Nat, success : Nat, failed : Nat]]
<1> DEFINE n == IF st = "SUCCESS" THEN 1 ELSE 0
<1>1. n \in Nat /\ n <= 1
  OBVIOUS
<1>2. stats' = [ty \in RequestType |->
                  IF ty # type \/ ty = "PING" THEN stats[ty]
                  ELSE [sent    |-> stats[ty].sent + 1,
                        success |-> stats[ty].success + n,
                        failed  |-> stats[ty].failed + 1 - n]]
  BY DEF UpdateStatistics
<1> HIDE DEF n
<1>3. \A ty \in RequestType : /\ stats[ty].sent + 1 \in Nat
                              /\ stats[ty].success + n \in Nat
                              /\ stats[ty].failed + 1 - n \in Nat
  BY <1>1
<1> QED
  BY <1>2, <1>3

\* The steps of a worker with a request, up to a decision about it.
LEMMA ExecuteKeeps ==
  ASSUME ManagerInv, NEW w \in Workers,
         \/ AcquireHandle(w)
         \/ AcquireFails(w)
         \/ \E outcome \in Outcomes : Perform(w, outcome)
  PROVE  ManagerInv'
<1>1. /\ wpc[w] \in {"acquire", "perform"}
      /\ UNCHANGED <<queue, config, callers, paused, stage, job, responses, fate,
                     sincePause, missed>>
  BY DEF AcquireHandle, AcquireFails, Perform, WorkerGoes
<1> USE DEF config, callers, fate
<1>2. PICK to \in {"perform", "backoff", "respond"},
           st \in {"PENDING", "SUCCESS", "TIMEOUT", "ERROR"} :
        /\ wpc' = [wpc EXCEPT ![w] = to]
        /\ status' = [status EXCEPT ![w] = st]
        /\ to = "respond" => st # "PENDING"
        /\ to = "backoff" => job[w].retry_count < max_retries[job[w].type]
  BY DEF AcquireHandle, AcquireFails, Perform, WorkerGoes, StatusOf, ShouldRetry
<1>3. job[w] \in AllRequests /\ job[w] # None /\ AtWork(w)
  BY <1>1 DEF ManagerInv, TypeOK, AtWork
<1>4. to = "backoff" => job[w].retry_count < 5
  <2>1. job[w].type \in RequestType /\ job[w].retry_count \in 0 .. 5
    BY <1>3 DEF AllRequests
  <2>2. \A ty \in RequestType : max_retries[ty] \in 0 .. 5
    BY DEF max_retries, RequestType
  <2> QED
    BY <1>2, <2>1, <2>2
<1>5. TypeOK'
  <2>1. stats' \in [RequestType -> [sent : Nat, success : Nat, failed : Nat]]
    BY CountingKeepsType DEF ManagerInv, TypeOK, AcquireHandle, AcquireFails, Perform
  <2> QED
    BY <1>1, <1>2, <1>3, <2>1 DEF ManagerInv, TypeOK, AtWork
<1>6. Ids'
  BY <1>1, <1>2, <1>3, <1>4 DEF ManagerInv, Ids, TypeOK
<1>7. \A v \in Workers : AtWork(v)' => AtWork(v)
  BY <1>1, <1>2, <1>3 DEF ManagerInv, TypeOK, AtWork
<1>8. OneOwner'
  BY <1>1, <1>7 DEF ManagerInv, OneOwner
<1>9. AtWork(w)' \/ status'[w] # "PENDING"
  BY <1>2 DEF ManagerInv, TypeOK, AtWork
<1>10. \A v \in Workers : v # w => AtWork(v)' = AtWork(v) /\ status'[v] = status[v]
  BY <1>2 DEF ManagerInv, TypeOK, AtWork
<1>11. NothingVanishes'
  BY <1>1, <1>3, <1>9, <1>10 DEF ManagerInv, NothingVanishes, Final
<1>12. Pausing'
  BY <1>1, <1>2 DEF ManagerInv, Pausing, TypeOK
<1> QED
  BY <1>5, <1>6, <1>8, <1>11, <1>12 DEF ManagerInv

\* The copy is queued and the original only answered, in one step; a copy
\* that is refused is lost.
LEMMA RetryKeeps ==
  ASSUME ManagerInv, NEW w \in Workers, Retry(w)
  PROVE  ManagerInv'
<1> DEFINE r == Again(job[w])
<1>1. /\ wpc[w] = "backoff"
      /\ wpc' = [wpc EXCEPT ![w] = "respond"]
      /\ status' = [status EXCEPT ![w] = "PENDING"]
      /\ UNCHANGED <<maxConns, callers, paused, stage, job, responses, tries, stats,
                     accepted, sincePause, missed>>
  BY DEF Retry, WorkerGoes
<1> USE DEF callers
<1>2. job[w] \in AllRequests /\ job[w] # None /\ AtWork(w) /\ job[w].retry_count < 5
  BY <1>1 DEF ManagerInv, TypeOK, Ids, AtWork
<1>3. r \in AllRequests /\ r.id = job[w].id /\ r.id \in accepted
  BY <1>2 DEF Again, AllRequests, ManagerInv, Ids
<1>4. PICK gone \in SUBSET queue, more \in SUBSET {r} :
        /\ queue' = (queue \ gone) \cup more
        /\ maxSize' = maxSize
        /\ lost' = lost \cup {v.id : v \in gone}
                        \cup (IF more = {} THEN {r.id} ELSE {})
  <2>1. CASE Enters(r)
    <3>1. PICK gone \in SUBSET queue : /\ queue' = (queue \ gone) \cup {r}
                                       /\ lost' = lost \cup {v.id : v \in gone}
      BY <2>1, EntersFacts
    <3>2. maxSize' = maxSize
      BY <2>1, EntersFacts
    <3> HIDE DEF r
    <3>3. {r} # {}
      OBVIOUS
    <3> QED
      BY <3>1, <3>2, <3>3
  <2>2. CASE TurnedAway(r) /\ lost' = lost \cup {job[w].id}
    <3>1. /\ queue' = (queue \ {}) \cup {}
          /\ maxSize' = maxSize
          /\ lost' = lost \cup {v.id : v \in {}} \cup {r.id}
      BY <2>2, <1>3 DEF TurnedAway
    <3> HIDE DEF r
    <3> QED
      BY <3>1
  <2> QED
    BY <2>1, <2>2 DEF Retry
<1> HIDE DEF r
<1>5. {v.id : v \in gone} \subseteq accepted
  BY DEF ManagerInv, Ids
<1>6. lost' \subseteq accepted' /\ queue' \subseteq AllRequests
  BY <1>1, <1>3, <1>4, <1>5 DEF ManagerInv, TypeOK
<1>7. TypeOK'
  BY <1>1, <1>2, <1>4, <1>6 DEF ManagerInv, TypeOK, AtWork
<1>8. Ids'
  BY <1>1, <1>3, <1>4 DEF ManagerInv, Ids, TypeOK
<1>9. ~AtWork(w)'
  BY <1>1 DEF ManagerInv, TypeOK, AtWork
<1>10. \A v \in Workers : v # w => AtWork(v)' = AtWork(v) /\ status'[v] = status[v]
  BY <1>1 DEF ManagerInv, TypeOK, AtWork
<1>11. \A x \in queue : x.id # r.id
  BY <1>2, <1>3 DEF ManagerInv, OneOwner
<1>12. \A v \in Workers : v # w /\ AtWork(v) => job[v].id # r.id
  BY <1>2, <1>3 DEF ManagerInv, OneOwner
<1>13. OneOwner'
  BY <1>1, <1>4, <1>9, <1>10, <1>11, <1>12 DEF ManagerInv, OneOwner
<1>14. NothingVanishes'
  <2>1. (\E x \in queue' : x.id = r.id) \/ r.id \in lost'
    BY <1>4
  <2>2. \A x \in queue : x \in queue' \/ x.id \in lost'
    BY <1>4
  <2> QED
    BY <1>1, <1>3, <1>4, <1>10, <2>1, <2>2 DEF ManagerInv, NothingVanishes, Final
<1>15. Pausing'
  BY <1>1 DEF ManagerInv, Pausing, TypeOK
<1> QED
  BY <1>7, <1>8, <1>13, <1>14, <1>15 DEF ManagerInv

\* A final status becomes a final response; a PENDING one belongs to a request
\* that lives on as its copy.
LEMMA RespondKeeps ==
  ASSUME ManagerInv, NEW w \in Workers, Respond(w)
  PROVE  ManagerInv'
<1>1. /\ wpc[w] = "respond"
      /\ wpc' = [wpc EXCEPT ![w] = "loop"]
      /\ responses' = responses \cup {Response(w)}
      /\ job' = [job EXCEPT ![w] = None]
      /\ status' = [status EXCEPT ![w] = "PENDING"]
      /\ UNCHANGED <<queue, config, callers, paused, stage, tries, stats, fate, sincePause,
                     missed>>
  BY DEF Respond, WorkerGoes
<1> USE DEF callers, config, fate
<1>2. TypeOK'
  BY <1>1 DEF ManagerInv, TypeOK, AtWork
<1>3. Ids'
  BY <1>1 DEF ManagerInv, Ids, TypeOK
<1>4. ~AtWork(w) /\ ~AtWork(w)'
  BY <1>1 DEF ManagerInv, TypeOK, AtWork
<1>5. \A v \in Workers : v # w => /\ AtWork(v)' = AtWork(v)
                                  /\ status'[v] = status[v]
                                  /\ job'[v] = job[v]
  BY <1>1 DEF ManagerInv, TypeOK, AtWork
<1>6. OneOwner'
  BY <1>1, <1>4, <1>5 DEF ManagerInv, OneOwner
<1>7. NothingVanishes'
  <2>1. status[w] # "PENDING" => \E x \in Final' : x.id = job[w].id
    <3>1. Response(w) \in responses' /\ Response(w).id = job[w].id
          /\ Response(w).status = status[w]
      BY <1>1 DEF Response
    <3> QED
      BY <3>1 DEF Final
  <2>2. Final \subseteq Final'
    BY <1>1 DEF Final
  <2> QED
    BY <1>1, <1>4, <1>5, <2>1, <2>2 DEF ManagerInv, NothingVanishes
<1>8. Pausing'
  BY <1>1 DEF ManagerInv, Pausing, TypeOK
<1> QED
  BY <1>2, <1>3, <1>6, <1>7, <1>8 DEF ManagerInv

----------------------------------------------------------------------------
\* The invariant is inductive.
LEMMA StepKeeps == ManagerInv /\ [Next]_vars => ManagerInv'
<1> SUFFICES ASSUME ManagerInv, [Next]_vars PROVE ManagerInv'
  OBVIOUS
<1>1. CASE \E c \in Callers : Call(c) \/ Continue(c)
  BY <1>1, SendRequestKeeps, SettingsKeep, ClearQueueKeeps, BuildRequestUrlKeeps,
     PushKeeps, NotifyWorkerKeeps, NotifyResumedKeeps DEF Call, Continue
<1>2. CASE SetShutdownFlag \/ Shutdown
  BY <1>2, SetShutdownFlagKeeps, NotifyShutdownKeeps, JoinKeeps DEF Shutdown
<1>3. CASE \E w \in Workers : Work(w) \/ SpuriousWakeup(w)
  BY <1>3, LoopKeeps, TakeKeeps, ExecuteKeeps, RetryKeeps, RespondKeeps DEF Work
<1>4. CASE UNCHANGED vars
  BY <1>4 DEF vars, ManagerInv, TypeOK, Ids, OneOwner, NothingVanishes, Pausing,
              AtWork, Final, callers, config, fate, workers
<1> QED
  BY <1>1, <1>2, <1>3, <1>4 DEF Next

\* ManagerInv holds in every reachable state.
THEOREM ManagerInvariant == Spec => []ManagerInv
BY InitHolds, StepKeeps, PTL DEF Spec

\* Type correctness; with it, mutual exclusion on worker_mutex_.
THEOREM TypeCorrect == Spec => []TypeOK
<1>1. ManagerInv => TypeOK
  BY DEF ManagerInv
<1> QED
  BY <1>1, ManagerInvariant, PTL

\* Retries included, no request is ever in two places.
THEOREM RequestHasOneOwner == Spec => []OneOwner
<1>1. ManagerInv => OneOwner
  BY DEF ManagerInv
<1> QED
  BY <1>1, ManagerInvariant, PTL

\* Every accepted request is on its way to its final response, has it, or was
\* lost in a way the code knows.
THEOREM NoRequestVanishes == Spec => []NothingVanishes
<1>1. ManagerInv => NothingVanishes
  BY DEF ManagerInv
<1> QED
  BY <1>1, ManagerInvariant, PTL

\* However many workers there are, one request at most is taken during a pause.
THEOREM PauseIsEffective == Spec => []PauseAdmitsAtMostOne
<1>1. ManagerInv => PauseAdmitsAtMostOne
  BY DEF ManagerInv, Pausing, PauseAdmitsAtMostOne
<1> QED
  BY <1>1, ManagerInvariant, PTL

----------------------------------------------------------------------------
(* The attempts of a request.                                              *)

\* The request has had its last attempt.
Exhausted(r) ==
  \/ Attempt(r, "unconnected") \in tries
  \/ r.retry_count = max_retries[r.type]

\* A request that is queued or executed has failed at each earlier attempt and
\* has a right to the present one; one that waits to be queued again has
\* failed at this one too, and has retries left.
Attempts ==
  /\ \A t \in tries : t.id \in accepted /\ t.attempt \in 0 .. 5
  /\ \A c \in Callers : draft[c] # None => draft[c].retry_count = 0
  /\ \A r \in queue :
       /\ r.retry_count <= max_retries[r.type]
       /\ \A t \in tries :
            t.id = r.id => t.attempt < r.retry_count /\ t.outcome # "ok"
  /\ \A w \in Workers : wpc[w] \in {"acquire", "perform"} =>
       /\ job[w].retry_count <= max_retries[job[w].type]
       /\ \A t \in tries :
            t.id = job[w].id => t.attempt < job[w].retry_count /\ t.outcome # "ok"
  /\ \A w \in Workers : wpc[w] = "backoff" =>
       /\ job[w].retry_count < max_retries[job[w].type]
       /\ \A t \in tries :
            t.id = job[w].id => t.attempt <= job[w].retry_count /\ t.outcome # "ok"
  /\ \A w \in Workers :
       wpc[w] = "respond" /\ status[w] \notin {"PENDING", "SUCCESS"}
         => Exhausted(job[w])

AttemptsInv == Attempts /\ SuccessIsFinal /\ RetriesExhausted

LEMMA RetryLimits == \A ty \in RequestType : max_retries[ty] \in 1 .. 5
BY DEF max_retries, RequestType

\* The steps that perform no attempt and give no worker a request: what enters
\* the queue has not been attempted.
NoAttempt ==
  /\ UNCHANGED <<job, status, responses, tries>>
  /\ accepted \subseteq accepted'
  /\ \A c \in Callers : draft'[c] # None => draft'[c].retry_count = 0
  /\ \A r \in queue' :
       \/ r \in queue
       \/ r \in AllRequests /\ r.retry_count = 0 /\ r.id \notin accepted
  /\ \A w \in Workers :
       \/ wpc'[w] = wpc[w]
       \/ wpc'[w] \notin {"acquire", "perform", "backoff", "respond"}

LEMMA QueueKeepsAttempts ==
  ASSUME ManagerInv, AttemptsInv, NoAttempt
  PROVE  AttemptsInv'
<1> USE DEF NoAttempt
<1>1. (SuccessIsFinal /\ RetriesExhausted)'
  BY DEF AttemptsInv, SuccessIsFinal, RetriesExhausted, Final
<1>2. \A r \in queue' :
        /\ r.retry_count <= max_retries[r.type]
        /\ \A t \in tries :
             t.id = r.id => t.attempt < r.retry_count /\ t.outcome # "ok"
  <2> TAKE r \in queue'
  <2>1. CASE r \in queue
    BY <2>1 DEF AttemptsInv, Attempts
  <2>2. CASE r \in AllRequests /\ r.retry_count = 0 /\ r.id \notin accepted
    <3>1. r.type \in RequestType
      BY <2>2 DEF AllRequests
    <3>2. \A t \in tries : t.id # r.id
      BY <2>2 DEF AttemptsInv, Attempts
    <3> QED
      BY <2>2, <3>1, <3>2, RetryLimits
  <2> QED
    BY <2>1, <2>2
<1>3. Attempts'
  BY <1>2 DEF AttemptsInv, Attempts, Exhausted, Attempt
<1> QED
  BY <1>1, <1>3 DEF AttemptsInv

\* The callers and Shutdown.
LEMMA CallersKeepAttempts ==
  ASSUME ManagerInv, AttemptsInv,
         \/ \E c \in Callers : Call(c) \/ Continue(c)
         \/ SetShutdownFlag \/ Shutdown
  PROVE  AttemptsInv'
<1>1. ASSUME NEW c \in Callers, NEW ty \in Types, SendRequest(c, ty)
      PROVE  AttemptsInv'
  <2>1. \A d \in Callers : draft'[d] # None => draft'[d].retry_count = 0
    BY <1>1 DEF SendRequest, NewRequest, ManagerInv, TypeOK, AttemptsInv, Attempts
  <2> QED
    BY <1>1, <2>1, QueueKeepsAttempts DEF NoAttempt, SendRequest, workers, fate
<1>2. ASSUME NEW c \in Callers, BuildRequestUrl(c)
      PROVE  AttemptsInv'
  <2>1. \A d \in Callers : draft'[d] # None => draft'[d].retry_count = 0
    BY <1>2 DEF BuildRequestUrl, ManagerInv, TypeOK, AttemptsInv, Attempts
  <2> QED
    BY <1>2, <2>1, QueueKeepsAttempts DEF NoAttempt, BuildRequestUrl, workers, fate
<1>3. ASSUME NEW c \in Callers, Push(c)
      PROVE  AttemptsInv'
  <2>1. /\ draft[c] \in AllRequests /\ draft[c] # None
        /\ draft[c].retry_count = 0 /\ draft[c].id \notin accepted
    BY <1>3 DEF Push, CallerGoes, ManagerInv, TypeOK, Ids, AttemptsInv, Attempts
  <2>2. queue' \subseteq queue \cup {draft[c]}
    BY <1>3, EntersFacts DEF Push, TurnedAway
  <2>3. \A d \in Callers : draft'[d] # None => draft'[d].retry_count = 0
    BY <1>3 DEF Push, ManagerInv, TypeOK, AttemptsInv, Attempts
  <2>4. accepted \subseteq accepted' /\ UNCHANGED workers
    BY <1>3 DEF Push, fate
  <2> QED
    BY <2>1, <2>2, <2>3, <2>4, QueueKeepsAttempts DEF NoAttempt, workers
<1>4. ASSUME \/ \E c \in Callers :
                  \/ NotifyWorker(c) \/ ReturnId(c) \/ NotifyResumed(c)
                  \/ \E complete \in BOOLEAN : SetAuth(c, complete)
                  \/ \E n \in ConnectionArgs, m \in QueueArgs : SetConfig(c, n, m)
                  \/ Pause(c) \/ Resume(c)
                  \/ \E ty \in Types : ClearQueue(c, ty)
             \/ SetShutdownFlag \/ NotifyShutdown \/ Join
      PROVE  AttemptsInv'
  <2> USE DEF NotifyWorker, ReturnId, NotifyResumed, SetAuth, SetConfig, Pause, Resume,
              ClearQueue, SetShutdownFlag, NotifyShutdown, Join, workers, callers, fate
  <2>1. /\ UNCHANGED <<job, status, responses, tries, accepted, draft>>
        /\ queue' \subseteq queue
    BY <1>4 DEF Buffer!Discard
  <2>2. \A w \in Workers : wpc'[w] = wpc[w] \/ wpc'[w] = "lock"
    BY <1>4 DEF notify_one, notify_all, Waiting, ManagerInv, TypeOK
  <2>3. \A c \in Callers : draft'[c] # None => draft'[c].retry_count = 0
    BY <2>1 DEF AttemptsInv, Attempts
  <2> QED
    BY <2>1, <2>2, <2>3, QueueKeepsAttempts DEF NoAttempt
<1> QED
  BY <1>1, <1>2, <1>3, <1>4 DEF Call, Continue, Shutdown

\* The popped request brings its past with it.
LEMMA TakeKeepsAttempts ==
  ASSUME ManagerInv, AttemptsInv, NEW w \in Workers, Take(w)
  PROVE  AttemptsInv'
<1>1. UNCHANGED <<callers, status, responses, tries, fate>>
  BY DEF Take
<1>2. (SuccessIsFinal /\ RetriesExhausted)'
  BY <1>1 DEF AttemptsInv, SuccessIsFinal, RetriesExhausted, Final
<1>3. CASE queue' = queue /\ job' = job /\ wpc' = [wpc EXCEPT ![w] = "loop"]
  <2>1. \A v \in Workers : wpc'[v] = wpc[v] \/ wpc'[v] = "loop"
    BY <1>3 DEF ManagerInv, TypeOK
  <2>2. \A c \in Callers : draft'[c] # None => draft'[c].retry_count = 0
    BY <1>1 DEF AttemptsInv, Attempts, callers
  <2> QED
    BY <1>1, <1>3, <2>1, <2>2, QueueKeepsAttempts DEF NoAttempt, fate
<1>4. ASSUME NEW r \in queue, queue' = queue \ {r},
             wpc' = [wpc EXCEPT ![w] = "acquire"], job' = [job EXCEPT ![w] = r]
      PROVE  AttemptsInv'
  <2>1. /\ wpc'[w] = "acquire" /\ job'[w] = r
        /\ \A v \in Workers : v # w => wpc'[v] = wpc[v] /\ job'[v] = job[v]
    BY <1>4 DEF ManagerInv, TypeOK
  <2>2. Attempts'
    BY <1>1, <1>4, <2>1 DEF AttemptsInv, Attempts, Exhausted, Attempt, callers, fate
  <2> QED
    BY <1>2, <2>2 DEF AttemptsInv
<1> QED
  BY <1>3, <1>4 DEF Take, WorkerGoes, Buffer!Serve, Buffer!Top, Top

\* An attempt is made with a number of its own.
LEMMA ExecuteKeepsAttempts ==
  ASSUME ManagerInv, AttemptsInv, NEW w \in Workers,
         \/ AcquireHandle(w)
         \/ AcquireFails(w)
         \/ \E outcome \in Outcomes : Perform(w, outcome)
  PROVE  AttemptsInv'
<1>1. /\ wpc[w] \in {"acquire", "perform"}
      /\ UNCHANGED <<queue, callers, job, responses, fate>>
  BY DEF AcquireHandle, AcquireFails, Perform, WorkerGoes
<1> DEFINE r == job[w]
<1>2. r \in AllRequests /\ r # None /\ AtWork(w) /\ r.id \in accepted
  BY <1>1 DEF ManagerInv, TypeOK, Ids, AtWork
<1>3. /\ r.retry_count \in 0 .. 5 /\ r.type \in RequestType
      /\ max_retries[r.type] \in 1 .. 5
  BY <1>2, RetryLimits DEF AllRequests
<1>4. /\ r.retry_count <= max_retries[r.type]
      /\ \A t \in tries : t.id = r.id => t.attempt < r.retry_count /\ t.outcome # "ok"
  BY <1>1 DEF AttemptsInv, Attempts
<1>5. /\ \A x \in queue : x.id # r.id
      /\ \A v \in Workers : v # w /\ AtWork(v) => job[v].id # r.id
  BY <1>2 DEF ManagerInv, OneOwner
<1>6. PICK to \in {"perform", "backoff", "respond"},
           outcome \in AllOutcomes \cup {"unconnected"},
           more \in SUBSET tries' :
        /\ wpc' = [wpc EXCEPT ![w] = to]
        /\ more \subseteq {Attempt(r, outcome)}
        /\ tries' = tries \cup more
        /\ to = "perform" => more = {}
        /\ to = "backoff" => outcome # "ok" /\ r.retry_count < max_retries[r.type]
        /\ to = "respond" /\ status'[w] # "SUCCESS" =>
             \/ Attempt(r, "unconnected") \in tries'
             \/ r.retry_count = max_retries[r.type]
  <2>1. CASE AcquireHandle(w)
    <3>1. /\ wpc' = [wpc EXCEPT ![w] = "perform"] /\ tries' = tries \cup {}
          /\ {} \in SUBSET tries' /\ {} \subseteq {Attempt(r, "unconnected")}
      BY <2>1 DEF AcquireHandle, WorkerGoes
    <3> QED
      BY <3>1
  <2>2. CASE AcquireFails(w)
    <3> DEFINE one == {Attempt(r, "unconnected")}
    <3>1. /\ wpc' = [wpc EXCEPT ![w] = "respond"]
          /\ tries' = tries \cup one /\ one \in SUBSET tries'
          /\ Attempt(r, "unconnected") \in tries'
      BY <2>2 DEF AcquireFails, WorkerGoes
    <3> QED
      BY <3>1
  <2>3. ASSUME NEW outcome \in Outcomes, Perform(w, outcome)
        PROVE  \E to \in {"backoff", "respond"} :
                 /\ wpc' = [wpc EXCEPT ![w] = to]
                 /\ tries' = tries \cup {Attempt(r, outcome)}
                 /\ to = "backoff" =>
                      outcome # "ok" /\ r.retry_count < max_retries[r.type]
                 /\ to = "respond" /\ status'[w] # "SUCCESS" =>
                      r.retry_count = max_retries[r.type]
    <3>1. status'[w] = StatusOf(outcome)
      BY <2>3 DEF Perform, ManagerInv, TypeOK
    <3>2. /\ StatusOf(outcome) # "AUTH_ERROR"
          /\ outcome = "ok" => StatusOf(outcome) = "SUCCESS"
      BY DEF StatusOf
    <3>3. ShouldRetry(r, StatusOf(outcome)) <=> r.retry_count < max_retries[r.type]
      BY <3>2 DEF ShouldRetry
    <3>4. ~(r.retry_count < max_retries[r.type]) => r.retry_count = max_retries[r.type]
      BY <1>3, <1>4
    <3>5. \E to \in {"backoff", "respond"} :
            /\ wpc' = [wpc EXCEPT ![w] = to]
            /\ to = "backoff" <=>
                 StatusOf(outcome) # "SUCCESS" /\ ShouldRetry(r, StatusOf(outcome))
      BY <2>3 DEF Perform, WorkerGoes
    <3> QED
      BY <2>3, <3>1, <3>2, <3>3, <3>4, <3>5 DEF Perform
  <2> QED
    BY <2>1, <2>2, <2>3
<1> HIDE DEF r
<1>7. \A t \in tries' : t \in tries \/ (t = Attempt(r, outcome) /\ t \in more)
  BY <1>6
<1>8. /\ Attempt(r, outcome).id = r.id /\ Attempt(r, outcome).attempt = r.retry_count
      /\ Attempt(r, outcome).outcome = outcome
  BY DEF Attempt
<1>9. wpc'[w] = to /\ \A v \in Workers : v # w => wpc'[v] = wpc[v]
  BY <1>6 DEF ManagerInv, TypeOK
<1>10. \A v \in Workers : v # w => status'[v] = status[v]
  BY DEF AcquireHandle, AcquireFails, Perform, ManagerInv, TypeOK
<1>11. Attempts'
  <2>1. \A t \in tries' : t.id \in accepted' /\ t.attempt \in 0 .. 5
    BY <1>1, <1>2, <1>3, <1>7, <1>8 DEF AttemptsInv, Attempts, fate, r
  <2>2. \A c \in Callers : draft'[c] # None => draft'[c].retry_count = 0
    BY <1>1 DEF AttemptsInv, Attempts, callers
  <2>3. \A x \in queue' :
          /\ x.retry_count <= max_retries[x.type]
          /\ \A t \in tries' :
               t.id = x.id => t.attempt < x.retry_count /\ t.outcome # "ok"
    BY <1>1, <1>5, <1>7, <1>8 DEF AttemptsInv, Attempts
  <2>4. \A v \in Workers : wpc'[v] \in {"acquire", "perform"} =>
          /\ job'[v].retry_count <= max_retries[job'[v].type]
          /\ \A t \in tries' :
               t.id = job'[v].id
                 => t.attempt < job'[v].retry_count /\ t.outcome # "ok"
    <3> TAKE v \in Workers
    <3>1. CASE v = w
      BY <1>1, <1>4, <1>6, <1>7, <1>9, <3>1 DEF r
    <3>2. CASE v # w
      BY <1>1, <1>5, <1>7, <1>8, <1>9, <3>2 DEF AttemptsInv, Attempts, AtWork
    <3> QED
      BY <3>1, <3>2
  <2>5. \A v \in Workers : wpc'[v] = "backoff" =>
          /\ job'[v].retry_count < max_retries[job'[v].type]
          /\ \A t \in tries' :
               t.id = job'[v].id
                 => t.attempt <= job'[v].retry_count /\ t.outcome # "ok"
    <3> TAKE v \in Workers
    <3>1. CASE v = w
      <4> SUFFICES ASSUME to = "backoff"
                   PROVE  /\ r.retry_count < max_retries[r.type]
                          /\ \A t \in tries' : t.id = r.id =>
                               t.attempt <= r.retry_count /\ t.outcome # "ok"
        BY <1>1, <1>9, <3>1 DEF r
      <4>1. \A t \in tries : t.id = r.id => t.attempt <= r.retry_count /\ t.outcome # "ok"
        BY <1>3, <1>4 DEF AttemptsInv, Attempts
      <4> QED
        BY <1>3, <1>6, <1>7, <1>8, <4>1
    <3>2. CASE v # w
      BY <1>1, <1>5, <1>7, <1>8, <1>9, <3>2 DEF AttemptsInv, Attempts, AtWork
    <3> QED
      BY <3>1, <3>2
  <2>6. \A v \in Workers :
          wpc'[v] = "respond" /\ status'[v] \notin {"PENDING", "SUCCESS"}
            => Exhausted(job[v])'
    <3> TAKE v \in Workers
    <3>1. CASE v = w
      BY <1>1, <1>6, <1>9, <3>1 DEF Exhausted, r, Attempt
    <3>2. CASE v # w
      BY <1>1, <1>6, <1>9, <1>10, <3>2 DEF AttemptsInv, Attempts, Exhausted, Attempt
    <3> QED
      BY <3>1, <3>2
  <2> QED
    BY <2>1, <2>2, <2>3, <2>4, <2>5, <2>6 DEF Attempts
<1>12. SuccessIsFinal'
  <2> SUFFICES ASSUME NEW s \in tries', NEW t \in tries', s.id = t.id, s.outcome = "ok"
               PROVE  t.attempt <= s.attempt
    BY DEF SuccessIsFinal
  <2>1. CASE s \in tries /\ t \in tries
    BY <2>1 DEF AttemptsInv, SuccessIsFinal
  <2>2. CASE s \in tries /\ t = Attempt(r, outcome)
    BY <1>4, <1>8, <2>2
  <2>3. CASE s = Attempt(r, outcome) /\ t \in tries
    BY <1>3, <1>4, <1>8, <2>3 DEF AttemptsInv, Attempts
  <2>4. CASE s = Attempt(r, outcome) /\ t = Attempt(r, outcome)
    BY <1>3, <1>8, <2>4
  <2> QED
    BY <1>7, <2>1, <2>2, <2>3, <2>4
<1>13. RetriesExhausted'
  BY <1>1, <1>6 DEF AttemptsInv, RetriesExhausted, Final
<1> QED
  BY <1>11, <1>12, <1>13 DEF AttemptsInv

\* The copy has one attempt more behind it.
LEMMA RetryKeepsAttempts ==
  ASSUME ManagerInv, AttemptsInv, NEW w \in Workers, Retry(w)
  PROVE  AttemptsInv'
<1> DEFINE r == Again(job[w])
<1>1. /\ wpc[w] = "backoff"
      /\ wpc' = [wpc EXCEPT ![w] = "respond"]
      /\ status' = [status EXCEPT ![w] = "PENDING"]
      /\ UNCHANGED <<callers, job, responses, tries, accepted>>
  BY DEF Retry, WorkerGoes
<1>2. job[w] \in AllRequests
  BY <1>1 DEF ManagerInv, TypeOK, AtWork
<1>3. /\ r.id = job[w].id /\ r.type = job[w].type
      /\ r.retry_count = job[w].retry_count + 1
  BY <1>2 DEF Again, AllRequests
<1>4. /\ job[w].retry_count \in 0 .. 5 /\ job[w].type \in RequestType
      /\ max_retries[job[w].type] \in 1 .. 5
  BY <1>2, RetryLimits DEF AllRequests
<1>5. queue' \subseteq queue \cup {r}
  BY EntersFacts DEF Retry, TurnedAway
<1> HIDE DEF r
<1>6. /\ job[w].retry_count < max_retries[job[w].type]
      /\ \A t \in tries :
           t.id = job[w].id => t.attempt <= job[w].retry_count /\ t.outcome # "ok"
  BY <1>1 DEF AttemptsInv, Attempts
<1>7. /\ r.retry_count <= max_retries[r.type]
      /\ \A t \in tries :
           t.id = r.id => t.attempt < r.retry_count /\ t.outcome # "ok"
  BY <1>3, <1>4, <1>6 DEF AttemptsInv, Attempts
<1>8. /\ wpc'[w] = "respond" /\ status'[w] = "PENDING"
      /\ \A v \in Workers : v # w => wpc'[v] = wpc[v] /\ status'[v] = status[v]
  BY <1>1 DEF ManagerInv, TypeOK
<1>9. Attempts'
  BY <1>1, <1>5, <1>7, <1>8 DEF AttemptsInv, Attempts, Exhausted, Attempt, callers
<1>10. (SuccessIsFinal /\ RetriesExhausted)'
  BY <1>1 DEF AttemptsInv, SuccessIsFinal, RetriesExhausted, Final
<1> QED
  BY <1>9, <1>10 DEF AttemptsInv

\* A failure that is passed on is the last one.
LEMMA RespondKeepsAttempts ==
  ASSUME ManagerInv, AttemptsInv, NEW w \in Workers, Respond(w)
  PROVE  AttemptsInv'
<1>1. /\ wpc[w] = "respond"
      /\ wpc' = [wpc EXCEPT ![w] = "loop"]
      /\ responses' = responses \cup {Response(w)}
      /\ job' = [job EXCEPT ![w] = None]
      /\ status' = [status EXCEPT ![w] = "PENDING"]
      /\ UNCHANGED <<queue, callers, tries, fate>>
  BY DEF Respond, WorkerGoes
<1>2. /\ wpc'[w] = "loop"
      /\ \A v \in Workers : v # w => /\ wpc'[v] = wpc[v]
                                     /\ status'[v] = status[v]
                                     /\ job'[v] = job[v]
  BY <1>1 DEF ManagerInv, TypeOK
<1>3. Attempts'
  BY <1>1, <1>2 DEF AttemptsInv, Attempts, Exhausted, Attempt, callers, fate
<1>4. SuccessIsFinal'
  BY <1>1 DEF AttemptsInv, SuccessIsFinal
<1>5. RetriesExhausted'
  <2> SUFFICES ASSUME NEW x \in Final', x.status # "SUCCESS"
               PROVE  \/ [id |-> x.id, type |-> x.type, attempt |-> x.attempt,
                           outcome |-> "unconnected"] \in tries
                      \/ x.attempt = max_retries[x.type]
    BY <1>1 DEF RetriesExhausted
  <2>1. CASE x \in Final
    BY <2>1 DEF AttemptsInv, RetriesExhausted
  <2>2. CASE x = Response(w)
    <3>1. status[w] \notin {"PENDING", "SUCCESS"}
      BY <2>2 DEF Final, Response
    <3>2. Exhausted(job[w])
      BY <1>1, <3>1 DEF AttemptsInv, Attempts
    <3> QED
      BY <2>2, <3>2 DEF Exhausted, Attempt, Response
  <2> QED
    BY <1>1, <2>1, <2>2 DEF Final
<1> QED
  BY <1>3, <1>4, <1>5 DEF AttemptsInv

\* The attempts are in order in every reachable state.
THEOREM AttemptsInvariant == Spec => []AttemptsInv
<1>1. Init => AttemptsInv
  BY DEF Init, AttemptsInv, Attempts, SuccessIsFinal, RetriesExhausted, Final
<1>2. ManagerInv /\ AttemptsInv /\ [Next]_vars => AttemptsInv'
  <2> SUFFICES ASSUME ManagerInv, AttemptsInv, [Next]_vars PROVE AttemptsInv'
    OBVIOUS
  <2>1. CASE \/ \E c \in Callers : Call(c) \/ Continue(c)
             \/ SetShutdownFlag \/ Shutdown
    BY <2>1, CallersKeepAttempts
  <2>2. ASSUME NEW w \in Workers,
               Loop(w) \/ Lock(w) \/ Wait(w) \/ SpuriousWakeup(w) \/ Check(w)
        PROVE  AttemptsInv'
    <3>1. /\ UNCHANGED <<queue, callers, job, status, responses, tries, fate>>
          /\ \E to \in {"loop", "lock", "blocking", "waiting", "checked", "take",
                        "exited"} : wpc' = [wpc EXCEPT ![w] = to]
      BY <2>2 DEF Loop, Lock, Wait, SpuriousWakeup, Check, WorkerGoes
    <3>2. \A v \in Workers :
            \/ wpc'[v] = wpc[v]
            \/ wpc'[v] \notin {"acquire", "perform", "backoff", "respond"}
      BY <3>1 DEF ManagerInv, TypeOK
    <3>3. \A c \in Callers : draft'[c] # None => draft'[c].retry_count = 0
      BY <3>1 DEF callers, AttemptsInv, Attempts
    <3> QED
      BY <3>1, <3>2, <3>3, QueueKeepsAttempts DEF NoAttempt, fate
  <2>3. CASE \E w \in Workers : Work(w) \/ SpuriousWakeup(w)
    BY <2>2, <2>3, TakeKeepsAttempts, ExecuteKeepsAttempts, RetryKeepsAttempts,
       RespondKeepsAttempts DEF Work
  <2>4. CASE UNCHANGED vars
    BY <2>4 DEF vars, callers, workers, fate, AttemptsInv, Attempts, Exhausted, Attempt,
                SuccessIsFinal, RetriesExhausted, Final
  <2> QED
    BY <2>1, <2>3, <2>4 DEF Next
<1> QED
  BY <1>1, <1>2, ManagerInvariant, PTL DEF Spec

\* A success that the client has seen is the last attempt of its request, however
\* often the request was retried before.
THEOREM SuccessIsLast == Spec => []SuccessIsFinal
<1>1. AttemptsInv => SuccessIsFinal
  BY DEF AttemptsInv
<1> QED
  BY <1>1, AttemptsInvariant, PTL

\* A final failure comes after all the attempts its type allows, or for want of
\* a connection.
THEOREM FailureIsLast == Spec => []RetriesExhausted
<1>1. AttemptsInv => RetriesExhausted
  BY DEF AttemptsInv
<1> QED
  BY <1>1, AttemptsInvariant, PTL

----------------------------------------------------------------------------
(* The statistics.                                                         *)

\* Cardinalities are numbers of finite sets only.
StatsInv ==
  /\ StatisticsExact
  /\ \A ty \in RequestType : IsFiniteSet(Sent(ty)) /\ IsFiniteSet(Answered(ty))

\* An attempt is made, and counted.
Made(r, outcome) ==
  /\ tries' = tries \cup {Attempt(r, outcome)}
  /\ UpdateStatistics(r.type, IF outcome = "ok" THEN "SUCCESS" ELSE "ERROR")

\* The steps that make an attempt, and all others.
LEMMA MadeOrNot ==
  ASSUME ManagerInv, [Next]_vars
  PROVE  \/ UNCHANGED <<tries, stats>>
         \/ \E w \in Workers, outcome \in AllOutcomes \cup {"unconnected"} :
              wpc[w] \in {"acquire", "perform"} /\ Made(job[w], outcome)
<1>1. ASSUME NEW w \in Workers, AcquireFails(w)
      PROVE  wpc[w] \in {"acquire", "perform"} /\ Made(job[w], "unconnected")
  BY <1>1 DEF AcquireFails, WorkerGoes, Made, UpdateStatistics
<1>2. ASSUME NEW w \in Workers, NEW outcome \in Outcomes, Perform(w, outcome)
      PROVE  wpc[w] \in {"acquire", "perform"} /\ Made(job[w], outcome)
  <2>1. StatusOf(outcome) = "SUCCESS" <=> outcome = "ok"
    BY DEF StatusOf
  <2>2. /\ wpc[w] = "perform"
        /\ tries' = tries \cup {Attempt(job[w], outcome)}
        /\ UpdateStatistics(job[w].type, StatusOf(outcome))
    BY <1>2 DEF Perform
  <2> QED
    BY <2>1, <2>2 DEF Made, UpdateStatistics
<1>3. Outcomes \subseteq AllOutcomes
  OBVIOUS
<1>4. CASE \E c \in Callers : Call(c) \/ Continue(c)
  BY <1>4 DEF Call, Continue, SendRequest, SetAuth, SetConfig, Pause, Resume, ClearQueue,
              BuildRequestUrl, Push, NotifyWorker, ReturnId, NotifyResumed, workers
<1>5. CASE SetShutdownFlag \/ Shutdown
  BY <1>5 DEF SetShutdownFlag, Shutdown, NotifyShutdown, Join, workers
<1>6. CASE \E w \in Workers : Work(w) \/ SpuriousWakeup(w)
  <2>1. ASSUME NEW w \in Workers,
               \/ Loop(w) \/ Lock(w) \/ Wait(w) \/ SpuriousWakeup(w) \/ Check(w)
               \/ Take(w) \/ AcquireHandle(w) \/ Retry(w) \/ Respond(w)
        PROVE  UNCHANGED <<tries, stats>>
    BY <2>1 DEF Loop, Lock, Wait, SpuriousWakeup, Check, Take, AcquireHandle, Retry,
                Respond
  <2> QED
    BY <1>1, <1>2, <1>3, <1>6, <2>1 DEF Work
<1>7. CASE UNCHANGED vars
  BY <1>7 DEF vars, workers
<1> QED
  BY <1>4, <1>5, <1>6, <1>7 DEF Next

\* An attempt nobody made, of a request that was not answered, adds one to the
\* right counters.
LEMMA MadeKeepsStats ==
  ASSUME StatsInv, TypeOK, NEW r \in AllRequests,
         NEW outcome \in AllOutcomes \cup {"unconnected"}, Made(r, outcome),
         \A t \in tries :
           t.id = r.id => t.attempt < r.retry_count /\ t.outcome # "ok"
  PROVE  StatsInv'
<1> DEFINE a == Attempt(r, outcome)
<1>1. /\ a.id = r.id /\ a.type = r.type
      /\ a.attempt = r.retry_count /\ a.outcome = outcome
  BY DEF Attempt
<1>2. tries' = tries \cup {a}
  BY DEF Made
<1> HIDE DEF a
<1>3. r.type \in RequestType /\ r.retry_count \in 0 .. 5
  BY DEF AllRequests
<1>4. <<r.id, r.retry_count>> \notin Sent(r.type) /\ r.id \notin Answered(r.type)
  BY <1>3 DEF Sent, Answered
<1>5. ASSUME NEW ty \in RequestType
      PROVE  /\ Sent(ty)' = IF ty = r.type THEN Sent(ty) \cup {<<r.id, r.retry_count>>}
                                           ELSE Sent(ty)
             /\ Answered(ty)' = IF ty = r.type /\ outcome = "ok"
                                  THEN Answered(ty) \cup {r.id} ELSE Answered(ty)
  BY <1>1, <1>2 DEF Sent, Answered
<1>6. \A ty \in RequestType : IsFiniteSet(Sent(ty)') /\ IsFiniteSet(Answered(ty)')
  <2> TAKE ty \in RequestType
  <2>1. IsFiniteSet(Sent(ty)) /\ IsFiniteSet(Answered(ty))
    BY DEF StatsInv
  <2>2. /\ IsFiniteSet(Sent(ty) \cup {<<r.id, r.retry_count>>})
        /\ IsFiniteSet(Answered(ty) \cup {r.id})
    BY <2>1, FS_AddElement
  <2> QED
    BY <1>5, <2>1, <2>2
<1>7. ASSUME NEW ty \in RequestType \ {"PING"}
      PROVE  /\ stats'[ty].sent = Cardinality(Sent(ty)')
             /\ stats'[ty].success = Cardinality(Answered(ty)')
             /\ stats'[ty].failed = stats'[ty].sent - stats'[ty].success
  <2> DEFINE n == IF outcome = "ok" THEN 1 ELSE 0
  <2>1. stats'[ty] = IF ty # r.type THEN stats[ty]
                     ELSE [sent    |-> stats[ty].sent + 1,
                           success |-> stats[ty].success + n,
                           failed  |-> stats[ty].failed + 1 - n]
    BY DEF Made, UpdateStatistics
  <2>2. /\ stats[ty].sent = Cardinality(Sent(ty))
        /\ stats[ty].success = Cardinality(Answered(ty))
        /\ stats[ty].failed = stats[ty].sent - stats[ty].success
    BY DEF StatsInv, StatisticsExact
  <2>3. stats[ty].sent \in Nat /\ stats[ty].success \in Nat
    BY DEF TypeOK
  <2>4. CASE ty # r.type
    BY <1>5, <2>1, <2>2, <2>4
  <2>5. CASE ty = r.type
    <3>1. Cardinality(Sent(ty) \cup {<<r.id, r.retry_count>>}) = Cardinality(Sent(ty)) + 1
      BY <1>4, <2>5, FS_AddElement DEF StatsInv
    <3>2. Cardinality(Answered(ty) \cup {r.id}) = Cardinality(Answered(ty)) + 1
      BY <1>4, <2>5, FS_AddElement DEF StatsInv
    <3>3. Cardinality(Sent(ty)') = Cardinality(Sent(ty)) + 1
      BY <1>5, <2>5, <3>1
    <3>4. Cardinality(Answered(ty)') = Cardinality(Answered(ty)) + n
      <4>1. CASE outcome = "ok"
        BY <1>5, <2>5, <3>2, <4>1
      <4>2. CASE outcome # "ok"
        BY <1>5, <2>2, <2>3, <2>5, <4>2
      <4> QED
        BY <4>1, <4>2
    <3>5. /\ stats'[ty].sent = stats[ty].sent + 1
          /\ stats'[ty].success = stats[ty].success + n
          /\ stats'[ty].failed = stats[ty].failed + 1 - n
      BY <2>1, <2>5
    <3>6. n \in Nat
      OBVIOUS
    <3> HIDE DEF n
    <3> QED
      BY <2>2, <2>3, <3>3, <3>4, <3>5, <3>6
  <2> QED
    BY <2>4, <2>5
<1> QED
  BY <1>6, <1>7 DEF StatsInv, StatisticsExact

\* The statistics count the attempts made and the requests answered, for any
\* number of workers and requests.
THEOREM StatisticsCorrect == Spec => []StatisticsExact
<1>1. Init => StatsInv
  <2> SUFFICES ASSUME Init PROVE StatsInv
    OBVIOUS
  <2>1. \A ty \in RequestType : Sent(ty) = {} /\ Answered(ty) = {}
    BY DEF Init, Sent, Answered
  <2>2. IsFiniteSet({}) /\ Cardinality({}) = 0
    BY FS_EmptySet
  <2>3. \A ty \in RequestType :
          stats[ty].sent = 0 /\ stats[ty].success = 0 /\ stats[ty].failed = 0
    BY DEF Init
  <2>4. \A ty \in RequestType :
          /\ IsFiniteSet(Sent(ty)) /\ Cardinality(Sent(ty)) = 0
          /\ IsFiniteSet(Answered(ty)) /\ Cardinality(Answered(ty)) = 0
    BY <2>1, <2>2
  <2> QED
    BY <2>3, <2>4 DEF StatsInv, StatisticsExact
<1>2. ManagerInv /\ AttemptsInv /\ StatsInv /\ [Next]_vars => StatsInv'
  <2> SUFFICES ASSUME ManagerInv, AttemptsInv, StatsInv, [Next]_vars PROVE StatsInv'
    OBVIOUS
  <2>1. CASE UNCHANGED <<tries, stats>>
    BY <2>1 DEF StatsInv, StatisticsExact, Sent, Answered
  <2>2. ASSUME NEW w \in Workers, NEW outcome \in AllOutcomes \cup {"unconnected"},
               wpc[w] \in {"acquire", "perform"}, Made(job[w], outcome)
        PROVE  StatsInv'
    <3>1. job[w] \in AllRequests
      BY <2>2 DEF ManagerInv, TypeOK, AtWork
    <3>2. \A t \in tries :
            t.id = job[w].id => t.attempt < job[w].retry_count /\ t.outcome # "ok"
      BY <2>2 DEF AttemptsInv, Attempts
    <3> QED
      BY <2>2, <3>1, <3>2, MadeKeepsStats DEF ManagerInv
  <2> QED
    BY <2>1, <2>2, MadeOrNot
<1>3. StatsInv => StatisticsExact
  BY DEF StatsInv
<1> QED
  BY <1>1, <1>2, <1>3, ManagerInvariant, AttemptsInvariant, PTL DEF Spec
=============================================================================
