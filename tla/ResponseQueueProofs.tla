------------------------ MODULE ResponseQueueProofs ------------------------
(***************************************************************************)
(* What ResponseQueue guarantees for every set of threads, every           *)
(* configuration and every bound.                                          *)
(***************************************************************************)
EXTENDS ResponseQueue, FiniteSetTheorems, TLAPS

USE ResponseAssumption

\* The inductive strengthening of TypeOK: cardinalities of the queues are
\* numbers only because the queues are finite.
TypeInv == TypeOK /\ IsFiniteSet(queue)

\* Sets of types are finite.
LEMMA TypesFinite ==
  ASSUME NEW S \in SUBSET RequestType
  PROVE  IsFiniteSet(S) /\ Cardinality(S) \in Nat
<1>1. IsFiniteSet({"HEARTBEAT"}) /\ IsFiniteSet({"HEARTBEAT", "EVENTS"})
  <2>1. IsFiniteSet({"HEARTBEAT"})
    BY FS_Singleton
  <2>2. IsFiniteSet({"HEARTBEAT"} \cup {"EVENTS"})
    BY <2>1, FS_AddElement
  <2>3. {"HEARTBEAT"} \cup {"EVENTS"} = {"HEARTBEAT", "EVENTS"}
    OBVIOUS
  <2> QED
    BY <2>1, <2>2, <2>3
<1>2. IsFiniteSet({"HEARTBEAT", "EVENTS"} \cup {"PARAMS"})
  BY <1>1, FS_AddElement
<1>3. IsFiniteSet(({"HEARTBEAT", "EVENTS"} \cup {"PARAMS"}) \cup {"PING"})
  BY <1>2, FS_AddElement
<1>4. ({"HEARTBEAT", "EVENTS"} \cup {"PARAMS"}) \cup {"PING"} = RequestType
  BY DEF RequestType
<1>5. IsFiniteSet(RequestType)
  BY <1>3, <1>4
<1> QED
  BY <1>5, FS_Subset, FS_CardinalityType

\* A push keeps the types.
LEMMA PushKeepsType ==
  ASSUME TypeInv, NEW p \in Pushers, NEW type \in Types, NEW stamped \in Stamps,
         Push(p, type, stamped)
  PROVE  TypeInv'
<1> DEFINE r == NewResponse(type, stamped)
           kept == (queue \ Of(type)) \cup MakeRoom(type)
           out == Of(type) \ MakeRoom(type)
<1>1. r \in Response
  BY DEF NewResponse, Response, Push, TypeInv, TypeOK
<1>2. kept \subseteq queue /\ out \subseteq queue
  BY DEF MakeRoom, Newest, Of
<1>3. IsFiniteSet(kept) /\ IsFiniteSet(out)
  BY <1>2, FS_Subset DEF TypeInv
<1>4. Cardinality(out) \in Nat
  BY <1>3, FS_CardinalityType
<1>5. /\ queue' = kept \cup {r}
      /\ expired' = expired + Cardinality(out)
      /\ arrived' = r.id
      /\ newest' = [newest EXCEPT ![type] = r.id]
      /\ pushing' = [pushing EXCEPT ![p] = r]
      /\ overlapped' = [overlapped EXCEPT ![type] = InCacheSection(type)]
      /\ pc[p] = "idle" /\ Goto(p, "cache")
      /\ UNCHANGED <<latest, config, total, untold, holding, cleanup, now, broken>>
  BY DEF Push
<1>6. r.id \in 1 .. MaxPushes /\ type \in RequestType
  BY <1>1 DEF Response
<1>7. InCacheSection(type) \in BOOLEAN
  BY DEF InCacheSection
<1>8. NoResponse # r
  BY <1>1
<1> HIDE DEF r, kept, out
<1>9. IsFiniteSet(queue')
  BY <1>3, <1>5, FS_AddElement
<1>10. queue' \subseteq Response
  BY <1>1, <1>2, <1>5 DEF TypeInv, TypeOK
<1>11. expired' \in Nat /\ arrived' \in 0 .. MaxPushes
  BY <1>4, <1>5, <1>6 DEF TypeInv, TypeOK
<1>12. /\ newest' \in [RequestType -> 0 .. MaxPushes]
       /\ overlapped' \in [RequestType -> BOOLEAN]
  BY <1>5, <1>6, <1>7 DEF TypeInv, TypeOK
<1>13. /\ pc' \in [Threads -> {"idle", "cache", "count", "holds", "hung"} \cup Types]
       /\ \A q \in Pushers : pc'[q] \in {"idle", "cache", "count"}
       /\ \A rd \in Readers : pc'[rd] = pc[rd]
       /\ \A a \in Admins : pc'[a] = pc[a]
       /\ pushing' \in [Pushers -> Response \cup {NoResponse}]
       /\ \A q \in Pushers : pushing'[q] = NoResponse <=> pc'[q] = "idle"
  BY <1>1, <1>5, <1>8 DEF TypeInv, TypeOK, Goto, Threads
<1> QED
  BY <1>5, <1>9, <1>10, <1>11, <1>12, <1>13 DEF TypeInv, TypeOK, cleanup

\* The later sections of Push keep the types.
LEMMA FinishPushKeepsType ==
  ASSUME TypeInv, NEW p \in Pushers, UpdateCache(p) \/ UpdateStatistics(p)
  PROVE  TypeInv'
<1>1. CASE ReadsFreed
  BY <1>1 DEF ReadsFreed, TypeInv, TypeOK, contents, history, counters, control,
              cleanup
<1>2. CASE UpdateCache(p) /\ ~ReadsFreed
  <2>1. pushing[p] \in Response /\ pc[p] = "cache"
    BY <1>2 DEF UpdateCache, TypeInv, TypeOK
  <2>2. latest' = [latest EXCEPT ![pushing[p].type] = pushing[p]]
        /\ Goto(p, "count")
        /\ UNCHANGED <<queue, history, config, counters, pushing, holding,
                       cleanup, now, broken>>
    BY <1>2 DEF UpdateCache
  <2>3. latest' \in [RequestType -> Response \cup {NoResponse}]
    BY <2>1, <2>2 DEF TypeInv, TypeOK
  <2> QED
    BY <2>1, <2>2, <2>3
       DEF TypeInv, TypeOK, Goto, Threads, history, counters, cleanup
<1>3. CASE UpdateStatistics(p) /\ ~ReadsFreed
  <2>1. /\ pc[p] = "count"
        /\ total' = total + 1
        /\ pushing' = [pushing EXCEPT ![p] = NoResponse]
        /\ Goto(p, "idle")
        /\ UNCHANGED <<contents, config, expired, untold, holding, cleanup, now,
                       broken>>
    BY <1>3 DEF UpdateStatistics
  <2> QED
    BY <2>1 DEF TypeInv, TypeOK, Goto, Threads, contents, history, cleanup
<1> QED
  BY <1>1, <1>2, <1>3

\* The steps of a reader keep the types.
LEMMA ReaderKeepsType ==
  ASSUME TypeInv, NEW rd \in Readers, NEW type \in Types,
         GetLatestResponse(rd, type) \/ Pop(rd, type) \/ PopAll(rd, type)
           \/ Destroy(rd)
  PROVE  TypeInv'
<1>0. type \in RequestType /\ rd \in Threads
  BY DEF Threads
<1>1. CASE GetLatestResponse(rd, type)
  <2>1. latest' \in [RequestType -> Response \cup {NoResponse}]
    BY <1>1 DEF GetLatestResponse, TypeInv, TypeOK
  <2> QED
    BY <1>0, <1>1, <2>1
       DEF GetLatestResponse, TypeInv, TypeOK, Goto, Threads, history, counters,
           cleanup, RequestType
<1>2. CASE Pop(rd, type)
  <2>1. CASE Goto(rd, "idle") /\ UNCHANGED <<contents, untold, holding>>
    <3>1. holding[rd] = {}
      BY <1>2 DEF Pop, TypeInv, TypeOK, RequestType
    <3> QED
      BY <1>0, <1>2, <2>1, <3>1
         DEF Pop, TypeInv, TypeOK, Goto, Threads, contents, history, cleanup
  <2>2. ASSUME NEW r \in Of(type), queue' = queue \ {r},
               holding' = [holding EXCEPT ![rd] = {r}], untold' = untold + 1,
               Goto(rd, "holds"), UNCHANGED <<latest, history>>
        PROVE  TypeInv'
    <3>1. r \in Response /\ IsFiniteSet(queue')
      BY <2>2, FS_RemoveElement DEF Of, TypeInv, TypeOK
    <3> QED
      BY <1>0, <1>2, <2>2, <3>1
         DEF Pop, TypeInv, TypeOK, Goto, Threads, history, cleanup
  <2> QED
    BY <1>2, <2>1, <2>2 DEF Pop
<1>3. CASE PopAll(rd, type)
  <2>1. Of(type) \subseteq queue /\ IsFiniteSet(Of(type)) /\ IsFiniteSet(queue \ Of(type))
    BY FS_Subset DEF Of, TypeInv
  <2>2. Cardinality(Of(type)) \in Nat
    BY <2>1, FS_CardinalityType
  <2>3. untold' \in Int /\ IsFiniteSet(queue') /\ queue' \subseteq Response
    BY <1>3, <2>1, <2>2 DEF PopAll, TypeInv, TypeOK
  <2>4. /\ holding' \in [Readers -> SUBSET Response]
        /\ \A x \in Readers : holding'[x] # {} <=> pc'[x] = "holds"
    BY <1>0, <1>3, <2>1 DEF PopAll, TypeInv, TypeOK, Goto
  <2> QED
    BY <1>0, <1>3, <2>3, <2>4
       DEF PopAll, TypeInv, TypeOK, Goto, Threads, history, cleanup
<1>4. CASE Destroy(rd)
  BY <1>0, <1>4
     DEF Destroy, TypeInv, TypeOK, Goto, Threads, contents, history, counters,
         cleanup
<1> QED
  BY <1>1, <1>2, <1>3, <1>4

\* Clearing keeps the types.
LEMMA RemoveKeepsType ==
  ASSUME TypeInv, NEW types, Remove(types)
  PROVE  /\ queue' \subseteq Response /\ IsFiniteSet(queue')
         /\ latest' \in [RequestType -> Response \cup {NoResponse}]
         /\ untold' \in Int
<1> DEFINE gone == {r \in queue : r.type \in types}
<1>1. IsFiniteSet(gone) /\ IsFiniteSet(queue \ gone)
  BY FS_Subset DEF TypeInv
<1>2. Cardinality(gone) \in Nat
  BY <1>1, FS_CardinalityType
<1>3. queue' = queue \ gone /\ untold' = untold + Cardinality(gone)
  BY DEF Remove
<1>4. latest' \in [RequestType -> Response \cup {NoResponse}]
  BY DEF Remove, TypeInv, TypeOK
<1> HIDE DEF gone
<1> QED
  BY <1>1, <1>2, <1>3, <1>4 DEF TypeInv, TypeOK

\* So does expiry.
LEMMA ExpiryKeepsType ==
  ASSUME TypeInv, ClearExpired
  PROVE  /\ queue' \subseteq Response /\ IsFiniteSet(queue')
         /\ latest' \in [RequestType -> Response \cup {NoResponse}]
         /\ untold' \in Int /\ expired' \in Nat /\ now' \in 0 .. MaxClock
<1>1. PICK gone \in SUBSET queue, types \in SUBSET RequestType : Sweep(gone, types)
  BY DEF ClearExpired, Old, OldShown
<1>2. IsFiniteSet(gone) /\ IsFiniteSet(queue \ gone)
  BY FS_Subset DEF TypeInv
<1>3. Cardinality(gone) \in Nat /\ Cardinality(types) \in Nat
  BY <1>2, FS_CardinalityType, TypesFinite
<1>4. latest' \in [RequestType -> Response \cup {NoResponse}]
  BY <1>1 DEF Sweep, TypeInv, TypeOK
<1>5. now' \in 0 .. MaxClock
  BY DEF ClearExpired, TypeInv, TypeOK
<1> QED
  BY <1>1, <1>2, <1>3, <1>4, <1>5 DEF Sweep, TypeInv, TypeOK

\* The calls of an administrator keep the types.
LEMMA AdminKeepsType ==
  ASSUME TypeInv, NEW a \in Admins, Call(a)
  PROVE  TypeInv'
<1>0. a \notin Pushers /\ a \notin Readers /\ a \in Threads
  BY DEF Threads
<1>1. ASSUME NEW types, Clear(a, types) PROVE TypeInv'
  BY <1>1, RemoveKeepsType
     DEF Clear, Remove, TypeInv, TypeOK, control, cleanup, history
<1>2. CASE ClearExpiredCall(a)
  BY <1>2, ExpiryKeepsType
     DEF ClearExpiredCall, ClearExpired, TypeInv, TypeOK, control, cleanup, history
<1>3. ASSUME NEW c \in Configs, SetConfig(a, c) PROVE TypeInv'
  BY <1>3 DEF SetConfig, TypeInv, TypeOK, contents, history, counters, control,
              cleanup
<1>4. CASE GetStatistics(a)
  BY <1>0, <1>4 DEF GetStatistics, TypeInv, TypeOK, contents, history, counters,
              cleanup, Goto, Threads
<1>5. CASE ResetStatistics(a)
  <2>1. IsFiniteSet({p \in Pushers : pc[p] \in {"cache", "count"}})
    BY FS_Subset
  <2>2. Uncounted \in Nat /\ Cardinality(queue) \in Nat
    BY <2>1, FS_CardinalityType DEF Uncounted, TypeInv
  <2>3. untold' \in Int
    BY <1>5, <2>2 DEF ResetStatistics
  <2> QED
    BY <1>5, <2>3 DEF ResetStatistics, TypeInv, TypeOK, contents, history, control,
                cleanup
<1> QED
  BY <1>0, <1>1, <1>2, <1>3, <1>4, <1>5 DEF Call

LEMMA TypeInitially == Init => TypeInv
<1> SUFFICES ASSUME Init PROVE TypeInv
  OBVIOUS
<1>1. IsFiniteSet(queue)
  BY FS_EmptySet DEF Init
<1>2. /\ pc \in [Threads -> {"idle", "cache", "count", "holds", "hung"} \cup Types]
      /\ \A t \in Threads : pc[t] = "idle"
  BY DEF Init
<1>3. cleaner \in {"loop", "sleeping", "clean", "exited"}
  BY DEF Init
<1>4. latest \in [RequestType -> Response \cup {NoResponse}]
  BY DEF Init
<1>5. /\ pushing \in [Pushers -> Response \cup {NoResponse}]
      /\ \A p \in Pushers : pushing[p] = NoResponse /\ pc[p] = "idle"
      /\ holding \in [Readers -> SUBSET Response]
      /\ \A rd \in Readers : holding[rd] = {} /\ pc[rd] = "idle"
      /\ \A a \in Admins : pc[a] = "idle"
  BY <1>2 DEF Init, Threads
<1>6. /\ newest \in [RequestType -> 0 .. MaxPushes]
      /\ overlapped \in [RequestType -> BOOLEAN]
  BY DEF Init
<1>7. 0 \in 0 .. MaxClock /\ 0 \in 0 .. MaxPushes
  OBVIOUS
<1>8. /\ \A p \in Pushers : pc[p] \in {"idle", "cache", "count"}
      /\ \A p \in Pushers : pushing[p] = NoResponse <=> pc[p] = "idle"
      /\ \A rd \in Readers : pc[rd] \in {"idle", "holds"} \cup Types
      /\ \A rd \in Readers : holding[rd] # {} <=> pc[rd] = "holds"
      /\ \A a \in Admins : pc[a] \in {"idle", "hung"}
  BY <1>5
<1>9. queue \subseteq Response /\ config \in Configs
  BY DEF Init
<1>10. total \in Nat /\ expired \in Nat /\ untold \in Int
  BY DEF Init
<1>11. /\ now \in 0 .. MaxClock /\ arrived \in 0 .. MaxPushes
       /\ broken \in BOOLEAN /\ stage \in {"running", "joining", "stopped"}
  BY <1>7 DEF Init
<1>12. TypeOK
  BY <1>2, <1>3, <1>4, <1>5, <1>6, <1>8, <1>9, <1>10, <1>11, Zenon DEF TypeOK
<1> QED
  BY <1>1, <1>12 DEF TypeInv

\* Every step keeps the type invariant.
LEMMA NextKeepsType ==
  ASSUME TypeInv, [Next]_vars
  PROVE  TypeInv'
<1>1. ASSUME NEW t \in Threads, Call(t) PROVE TypeInv'
  <2>1. CASE t \in Pushers
    BY <1>1, <2>1, PushKeepsType DEF Call
  <2>2. CASE t \in Readers
    BY <1>1, <2>2, ReaderKeepsType DEF Call
  <2>3. CASE t \in Admins
    BY <1>1, <2>3, AdminKeepsType
  <2> QED
    BY <2>1, <2>2, <2>3 DEF Threads
<1>2. ASSUME NEW t \in Threads, Continue(t) PROVE TypeInv'
  <2>1. CASE t \in Pushers /\ (UpdateCache(t) \/ UpdateStatistics(t))
    BY <2>1, FinishPushKeepsType
  <2>2. ASSUME t \in Readers, NEW ty \in Types, Pop(t, ty) PROVE TypeInv'
    BY <2>2, ReaderKeepsType
  <2>3. CASE t \in Readers /\ Destroy(t)
    BY <2>3 DEF Destroy, TypeInv, TypeOK, Goto, Threads, contents, history, counters,
         cleanup
  <2> QED
    BY <1>2, <2>1, <2>2, <2>3 DEF Continue
<1>3. CASE CleanupThread
  <2>1. CASE ClearExpired /\ CleanerGoes("clean", "loop") /\ UNCHANGED stage
    BY <2>1, ExpiryKeepsType
       DEF ClearExpired, CleanerGoes, TypeInv, TypeOK, control, history
  <2>2. CASE UNCHANGED <<contents, config, counters, control, stage, now, broken>>
    BY <1>3, <2>2
       DEF CleanupThread, CleanerGoes, TypeInv, TypeOK, contents, history, counters,
           control
  <2> QED
    BY <1>3, <2>1, <2>2 DEF CleanupThread
<1>4. CASE StopCleaner
  BY <1>4 DEF StopCleaner, TypeInv, TypeOK, contents, history, counters, control
<1>5. CASE JoinCleaner
  BY <1>5, RemoveKeepsType
     DEF JoinCleaner, Remove, TypeInv, TypeOK, control, history
<1>6. CASE Tick
  BY <1>6 DEF Tick, TypeInv, TypeOK, contents, history, counters, control, cleanup
<1>7. CASE UNCHANGED vars
  BY <1>7 DEF vars, TypeInv, TypeOK, contents, history, counters, control, cleanup
<1> QED
  BY <1>1, <1>2, <1>3, <1>4, <1>5, <1>6, <1>7 DEF Next

\* The state of the queue is well typed; a pusher has its bare pointer exactly
\* while it is in Push, and a reader has responses exactly after a pop.
THEOREM TypeCorrect == Spec => []TypeOK
<1>1. TypeInv => TypeOK
  BY DEF TypeInv
<1> QED
  BY <1>1, TypeInitially, NextKeepsType, PTL DEF Spec

\* Its inductive form, for the theorems below.
THEOREM TypeInvariant == Spec => []TypeInv
BY TypeInitially, NextKeepsType, PTL DEF Spec
----------------------------------------------------------------------------
(* The numbers of the responses: none is larger than the number of arrivals,*)
(* and no two pushers have the same.                                       *)

Ids ==
  /\ \A r \in queue : r.id <= arrived
  /\ \A p \in Pushers : pc[p] # "idle" => pushing[p].id <= arrived
  /\ \A p, q \in Pushers :
       pc[p] # "idle" /\ pc[q] # "idle" /\ p # q => pushing[p].id # pushing[q].id

\* What the steps outside of Push leave alone.
Elsewhere ==
  /\ queue' \subseteq queue
  /\ UNCHANGED <<pushing, history>>
  /\ \A p \in Pushers : pc'[p] = pc[p]
  /\ \A ty \in RequestType : latest'[ty] \in {latest[ty], NoResponse}

\* The second section of Push, when the response is still there.
CacheWritten(p) ==
  /\ pc[p] = "cache"
  /\ latest' = [latest EXCEPT ![pushing[p].type] = pushing[p]]
  /\ Goto(p, "count")
  /\ UNCHANGED <<queue, history, config, counters, pushing, holding, cleanup, now,
                 broken>>

\* The third, likewise.
PushCounted(p) ==
  /\ pc[p] = "count"
  /\ total' = total + 1
  /\ pushing' = [pushing EXCEPT ![p] = NoResponse]
  /\ Goto(p, "idle")
  /\ UNCHANGED <<contents, config, expired, untold, holding, cleanup, now, broken>>

\* A step is a section of Push or leaves all that alone.
LEMMA PushOrElsewhere ==
  ASSUME TypeInv, [Next]_vars
  PROVE  \/ \E p \in Pushers, type \in Types, stamped \in Stamps :
              Push(p, type, stamped)
         \/ \E p \in Pushers : CacheWritten(p) \/ PushCounted(p)
         \/ Elsewhere
<1>0. latest \in [RequestType -> Response \cup {NoResponse}] /\ Types \subseteq RequestType
  BY DEF TypeInv, TypeOK
<1>1. ASSUME NEW t \in Pushers, Continue(t)
      PROVE  CacheWritten(t) \/ PushCounted(t) \/ Elsewhere
  <2>1. t \notin Readers
    OBVIOUS
  <2>2. UpdateCache(t) \/ UpdateStatistics(t)
    BY <1>1, <2>1 DEF Continue
  <2>3. CASE ReadsFreed
    BY <2>3 DEF ReadsFreed, Elsewhere, contents, history, control
  <2>4. CASE UpdateCache(t) /\ ~ReadsFreed
    BY <2>4 DEF UpdateCache, CacheWritten
  <2>5. CASE UpdateStatistics(t) /\ ~ReadsFreed
    BY <2>5 DEF UpdateStatistics, PushCounted
  <2> QED
    BY <2>2, <2>3, <2>4, <2>5
<1>2. ASSUME NEW rd \in Readers, NEW type \in Types,
             GetLatestResponse(rd, type) \/ Pop(rd, type) \/ PopAll(rd, type)
               \/ Destroy(rd)
      PROVE  Elsewhere
  <2>0. \A p \in Pushers : p # rd
    OBVIOUS
  <2>1. pc \in [Threads -> {"idle", "cache", "count", "holds", "hung"} \cup Types]
    BY DEF TypeInv, TypeOK
  <2>2. ASSUME NEW label, Goto(rd, label)
        PROVE  \A p \in Pushers : pc'[p] = pc[p]
    BY <2>0, <2>1, <2>2 DEF Goto, Threads
  <2>3. CASE GetLatestResponse(rd, type)
    <3>1. \A ty \in RequestType : latest'[ty] \in {latest[ty], NoResponse}
      BY <1>0, <2>3 DEF GetLatestResponse
    <3> QED
      BY <2>2, <2>3, <3>1 DEF GetLatestResponse, Elsewhere
  <2>4. CASE Pop(rd, type)
    BY <2>2, <2>4 DEF Pop, Elsewhere, contents
  <2>5. CASE PopAll(rd, type)
    BY <2>2, <2>5 DEF PopAll, Elsewhere
  <2>6. CASE Destroy(rd)
    BY <2>2, <2>6 DEF Destroy, Elsewhere, contents
  <2> QED
    BY <1>2, <2>3, <2>4, <2>5, <2>6
<1>3. ASSUME NEW types, Remove(types), UNCHANGED control
      PROVE  Elsewhere
  BY <1>3 DEF Remove, Elsewhere, control
<1>4. ASSUME ClearExpired
      PROVE  Elsewhere
  BY <1>4 DEF ClearExpired, Sweep, Elsewhere, control
<1>5. ASSUME UNCHANGED <<contents, control>>
      PROVE  Elsewhere
  BY <1>5 DEF Elsewhere, control, contents
<1>6. ASSUME NEW t \in Threads, Call(t)
      PROVE  \/ \E p \in Pushers, type \in Types, stamped \in Stamps :
                   Push(p, type, stamped)
             \/ Elsewhere
  <2>1. CASE t \in Pushers
    BY <1>6, <2>1 DEF Call
  <2>2. CASE t \in Readers
    BY <1>2, <1>6, <2>2 DEF Call
  <2>3. CASE t \in Admins
    <3>0. t \notin Pushers /\ t \notin Readers
      BY <2>3
    <3>1. ASSUME NEW types, Clear(t, types) PROVE Elsewhere
      BY <1>3, <3>1 DEF Clear
    <3>2. CASE ClearExpiredCall(t)
      BY <1>4, <3>2 DEF ClearExpiredCall
    <3>3. ASSUME NEW c \in Configs, SetConfig(t, c) PROVE Elsewhere
      BY <1>5, <3>3 DEF SetConfig
    <3>4. CASE GetStatistics(t)
      <4>1. pc \in [Threads -> {"idle", "cache", "count", "holds", "hung"} \cup Types]
        BY DEF TypeInv, TypeOK
      <4>2. \A p \in Pushers : pc'[p] = pc[p]
        BY <3>0, <3>4, <4>1 DEF GetStatistics, Goto, Threads
      <4> QED
        BY <3>4, <4>2 DEF GetStatistics, Elsewhere, contents
    <3>5. CASE ResetStatistics(t)
      BY <1>5, <3>5 DEF ResetStatistics
    <3> QED
      BY <1>6, <2>3, <3>0, <3>1, <3>2, <3>3, <3>4, <3>5 DEF Call
  <2> QED
    BY <2>1, <2>2, <2>3 DEF Threads
<1>7. ASSUME NEW t \in Threads, Continue(t)
      PROVE  (\E p \in Pushers : CacheWritten(p) \/ PushCounted(p)) \/ Elsewhere
  <2>1. CASE t \in Pushers
    BY <1>1, <1>7, <2>1
  <2>2. CASE t \in Readers /\ Destroy(t)
    <3>1. pc \in [Threads -> {"idle", "cache", "count", "holds", "hung"} \cup Types]
      BY DEF TypeInv, TypeOK
    <3>2. \A p \in Pushers : pc'[p] = pc[p]
      BY <2>2, <3>1 DEF Destroy, Goto, Threads
    <3> QED
      BY <2>2, <3>2 DEF Destroy, Elsewhere, contents
  <2>3. CASE t \in Readers /\ ~Destroy(t)
    BY <1>2, <1>7, <2>3 DEF Continue
  <2> QED
    BY <1>7, <2>1, <2>2, <2>3 DEF Continue
<1>8. CASE CleanupThread
  BY <1>4, <1>5, <1>8 DEF CleanupThread
<1>9. CASE StopCleaner
  BY <1>5, <1>9 DEF StopCleaner
<1>10. CASE JoinCleaner
  BY <1>3, <1>10 DEF JoinCleaner
<1>11. CASE Tick
  BY <1>5, <1>11 DEF Tick
<1>12. CASE UNCHANGED vars
  BY <1>5, <1>12 DEF vars, control, contents
<1> QED
  BY <1>6, <1>7, <1>8, <1>9, <1>10, <1>11, <1>12 DEF Next

\* What a push does to the variables of Ids.
LEMMA PushFacts ==
  ASSUME TypeInv, NEW p \in Pushers, NEW type \in Types, NEW stamped \in Stamps,
         Push(p, type, stamped)
  PROVE  /\ \E r \in Response :
              /\ r.id = arrived + 1 /\ r.type = type /\ r.received <= now
              /\ queue' = (queue \ Of(type)) \cup MakeRoom(type) \cup {r}
              /\ pushing' = [pushing EXCEPT ![p] = r]
              /\ newest' = [newest EXCEPT ![type] = r.id]
         /\ arrived \in Nat /\ arrived' = arrived + 1
         /\ pc[p] = "idle" /\ pc' = [pc EXCEPT ![p] = "cache"]
         /\ overlapped' = [overlapped EXCEPT ![type] = InCacheSection(type)]
         /\ MakeRoom(type) \subseteq queue /\ Of(type) \subseteq queue
         /\ UNCHANGED latest
<1> DEFINE r == NewResponse(type, stamped)
<1>1. r \in Response /\ r.id = arrived + 1 /\ r.type = type /\ r.received <= now
  BY DEF NewResponse, Response, Push, TypeInv, TypeOK
<1>2. /\ queue' = (queue \ Of(type)) \cup MakeRoom(type) \cup {r}
      /\ arrived' = r.id
      /\ newest' = [newest EXCEPT ![type] = r.id]
      /\ pushing' = [pushing EXCEPT ![p] = r]
      /\ pc[p] = "idle" /\ pc' = [pc EXCEPT ![p] = "cache"]
      /\ overlapped' = [overlapped EXCEPT ![type] = InCacheSection(type)]
      /\ UNCHANGED latest
  BY DEF Push, Goto
<1>3. MakeRoom(type) \subseteq queue /\ Of(type) \subseteq queue
  BY DEF MakeRoom, Newest, Of
<1>4. arrived \in Nat
  BY DEF TypeInv, TypeOK
<1> QED
  BY <1>1, <1>2, <1>3, <1>4

LEMMA NextKeepsIds ==
  ASSUME TypeInv, Ids, [Next]_vars
  PROVE  Ids'
<1>0. /\ queue \subseteq Response
      /\ pc \in [Threads -> {"idle", "cache", "count", "holds", "hung"} \cup Types]
      /\ pushing \in [Pushers -> Response \cup {NoResponse}]
      /\ \A p \in Pushers : pushing[p] = NoResponse <=> pc[p] = "idle"
      /\ Pushers \subseteq Threads
  BY DEF TypeInv, TypeOK, Threads
<1>1. ASSUME NEW p \in Pushers, NEW type \in Types, NEW stamped \in Stamps,
             Push(p, type, stamped)
      PROVE  Ids'
  <2>1. PICK r \in Response :
          /\ r.id = arrived + 1
          /\ queue' = (queue \ Of(type)) \cup MakeRoom(type) \cup {r}
          /\ pushing' = [pushing EXCEPT ![p] = r]
    BY <1>1, PushFacts
  <2>2. /\ arrived \in Nat /\ arrived' = arrived + 1
        /\ pc[p] = "idle" /\ pc' = [pc EXCEPT ![p] = "cache"]
        /\ MakeRoom(type) \subseteq queue
    BY <1>1, PushFacts
  <2>3. \A s \in queue : s.id \in Nat
    BY <1>0 DEF Response
  <2>4. \A s \in queue' : s.id <= arrived'
    BY <2>1, <2>2, <2>3 DEF Ids
  <2>5. \A q \in Pushers : q # p => pushing'[q] = pushing[q] /\ pc'[q] = pc[q]
    BY <1>0, <2>1, <2>2
  <2>6. pushing'[p].id = arrived + 1
    BY <1>0, <2>1
  <2>7. \A q \in Pushers :
          q # p /\ pc'[q] # "idle" => pushing'[q].id \in Nat /\ pushing'[q].id <= arrived
    BY <1>0, <2>5 DEF Ids, Response
  <2> QED
    BY <2>2, <2>4, <2>5, <2>6, <2>7 DEF Ids
<1>2. ASSUME NEW p \in Pushers, CacheWritten(p)
      PROVE  Ids'
  <2>1. \A q \in Pushers : pc'[q] = "idle" <=> pc[q] = "idle"
    BY <1>0, <1>2 DEF CacheWritten, Goto
  <2> QED
    BY <1>2, <2>1 DEF CacheWritten, Ids, history
<1>3. ASSUME NEW p \in Pushers, PushCounted(p)
      PROVE  Ids'
  <2>1. pc'[p] = "idle"
    BY <1>0, <1>3 DEF PushCounted, Goto
  <2>2. \A q \in Pushers : q # p => pushing'[q] = pushing[q] /\ pc'[q] = pc[q]
    BY <1>0, <1>3 DEF PushCounted, Goto
  <2>3. UNCHANGED <<queue, arrived>>
    BY <1>3 DEF PushCounted, contents, history
  <2> QED
    BY <2>1, <2>2, <2>3 DEF Ids
<1>4. CASE Elsewhere
  BY <1>4 DEF Elsewhere, Ids, history
<1> QED
  BY <1>1, <1>2, <1>3, <1>4, PushOrElsewhere

\* The numbers are distinct, for the refinement below.
LEMMA IdsInvariant == Spec => []Ids
<1>1. Init => Ids
  BY DEF Init, Ids, Threads
<1> QED
  BY <1>1, TypeInvariant, NextKeepsIds, PTL DEF Spec
----------------------------------------------------------------------------
(* The cache shows the newest response.                                    *)

\* The strengthening: while the pushes of a type do not overlap, the response
\* on its way to the cache is the newest one.
LatestInv ==
  /\ LatestIsNewestUnlessOverlap
  /\ \A ty \in RequestType : ~overlapped[ty] =>
       \A p \in Pushers :
         pc[p] = "cache" /\ pushing[p].type = ty => pushing[p].id = newest[ty]

LEMMA NextKeepsLatest ==
  ASSUME TypeInv, LatestInv, [Next]_vars
  PROVE  LatestInv'
<1>0. /\ latest \in [RequestType -> Response \cup {NoResponse}]
      /\ pc \in [Threads -> {"idle", "cache", "count", "holds", "hung"} \cup Types]
      /\ pushing \in [Pushers -> Response \cup {NoResponse}]
      /\ newest \in [RequestType -> 0 .. MaxPushes]
      /\ overlapped \in [RequestType -> BOOLEAN]
      /\ \A p \in Pushers : pushing[p] = NoResponse <=> pc[p] = "idle"
      /\ Pushers \subseteq Threads /\ Types \subseteq RequestType
  BY DEF TypeInv, TypeOK, Threads
<1>1. ASSUME NEW p \in Pushers, NEW type \in Types, NEW stamped \in Stamps,
             Push(p, type, stamped)
      PROVE  LatestInv'
  <2>1. PICK r \in Response :
          /\ r.type = type
          /\ pushing' = [pushing EXCEPT ![p] = r]
          /\ newest' = [newest EXCEPT ![type] = r.id]
    BY <1>1, PushFacts
  <2>2. /\ pc[p] = "idle" /\ pc' = [pc EXCEPT ![p] = "cache"]
        /\ overlapped' = [overlapped EXCEPT ![type] = InCacheSection(type)]
        /\ UNCHANGED latest
    BY <1>1, PushFacts
  <2>3. \A q \in Pushers : q # p => pushing'[q] = pushing[q] /\ pc'[q] = pc[q]
    BY <1>0, <2>1, <2>2
  <2>4. pushing'[p] = r /\ pc'[p] = "cache"
    BY <1>0, <2>1, <2>2
  <2>5. \A ty \in RequestType : ty # type =>
          newest'[ty] = newest[ty] /\ overlapped'[ty] = overlapped[ty]
    BY <1>0, <2>1, <2>2
  <2>6. newest'[type] = r.id /\ overlapped'[type] = InCacheSection(type)
    BY <1>0, <2>1, <2>2
  <2>7. InCacheSection(type)'
    BY <2>1, <2>4 DEF InCacheSection
  <2>8. \A ty \in RequestType : ty # type => (InCacheSection(ty)' <=> InCacheSection(ty))
    BY <2>1, <2>2, <2>3, <2>4 DEF InCacheSection
  <2>9. LatestIsNewestUnlessOverlap'
    BY <2>2, <2>5, <2>7, <2>8 DEF LatestInv, LatestIsNewestUnlessOverlap
  <2>10. ASSUME NEW ty \in RequestType, ~overlapped'[ty], NEW q \in Pushers,
                pc'[q] = "cache", pushing'[q].type = ty
         PROVE  pushing'[q].id = newest'[ty]
    <3>1. CASE q = p
      BY <2>1, <2>4, <2>6, <2>10, <3>1
    <3>2. CASE q # p /\ ty = type
      BY <2>3, <2>6, <2>10, <3>2 DEF InCacheSection
    <3>3. CASE q # p /\ ty # type
      BY <2>3, <2>5, <2>10, <3>3 DEF LatestInv
    <3> QED
      BY <3>1, <3>2, <3>3
  <2> QED
    BY <2>9, <2>10 DEF LatestInv
<1>2. ASSUME NEW p \in Pushers, CacheWritten(p)
      PROVE  LatestInv'
  <2> DEFINE type == pushing[p].type
  <2>1. pushing[p] \in Response /\ type \in RequestType
    BY <1>0, <1>2 DEF CacheWritten, Response
  <2>2. /\ latest'[type] = pushing[p]
        /\ \A ty \in RequestType : ty # type => latest'[ty] = latest[ty]
        /\ UNCHANGED <<newest, overlapped, pushing>>
    BY <1>0, <1>2, <2>1 DEF CacheWritten, history
  <2>3. \A q \in Pushers : pc'[q] = (IF q = p THEN "count" ELSE pc[q])
    BY <1>0, <1>2 DEF CacheWritten, Goto
  <2>4. pc[p] = "cache"
    BY <1>2 DEF CacheWritten
  <2>5. \A ty \in RequestType : ty # type => (InCacheSection(ty)' <=> InCacheSection(ty))
    BY <2>2, <2>3 DEF InCacheSection
  <2>6. ~overlapped[type] => pushing[p].id = newest[type]
    BY <2>1, <2>4 DEF LatestInv
  <2>7. LatestIsNewestUnlessOverlap'
    BY <2>2, <2>5, <2>6 DEF LatestInv, LatestIsNewestUnlessOverlap
  <2> QED
    BY <2>2, <2>3, <2>7 DEF LatestInv
<1>3. ASSUME NEW p \in Pushers, PushCounted(p)
      PROVE  LatestInv'
  <2>1. \A q \in Pushers :
          pc'[q] = "cache" <=> pc[q] = "cache"
    BY <1>0, <1>3 DEF PushCounted, Goto
  <2>2. \A q \in Pushers : pc[q] = "cache" => pushing'[q] = pushing[q]
    BY <1>0, <1>3 DEF PushCounted
  <2>3. UNCHANGED <<latest, newest, overlapped>>
    BY <1>3 DEF PushCounted, contents, history
  <2>4. \A ty \in RequestType : InCacheSection(ty)' <=> InCacheSection(ty)
    BY <2>1, <2>2 DEF InCacheSection
  <2> QED
    BY <2>1, <2>2, <2>3, <2>4 DEF LatestInv, LatestIsNewestUnlessOverlap
<1>4. CASE Elsewhere
  <2>1. \A ty \in RequestType : InCacheSection(ty)' <=> InCacheSection(ty)
    BY <1>4 DEF Elsewhere, InCacheSection
  <2> QED
    BY <1>4, <2>1
       DEF Elsewhere, history, LatestInv, LatestIsNewestUnlessOverlap
<1> QED
  BY <1>1, <1>2, <1>3, <1>4, PushOrElsewhere

\* When no push of a type is under way and the last one did not overlap with
\* another, the cache shows the response of the type that was pushed last.
THEOREM LatestCorrect == Spec => []LatestIsNewestUnlessOverlap
<1>1. Init => LatestInv
  <2> SUFFICES ASSUME Init PROVE LatestInv
    OBVIOUS
  <2>1. \A ty \in RequestType : latest[ty] = NoResponse
    BY DEF Init
  <2>2. \A p \in Pushers : pc[p] # "cache"
    BY DEF Init, Threads
  <2> QED
    BY <2>1, <2>2 DEF LatestInv, LatestIsNewestUnlessOverlap
<1>2. LatestInv => LatestIsNewestUnlessOverlap
  BY DEF LatestInv
<1> QED
  BY <1>1, <1>2, TypeInvariant, NextKeepsLatest, PTL DEF Spec
----------------------------------------------------------------------------
(* The account of the responses.                                           *)

Busy == {p \in Pushers : pc[p] \in {"cache", "count"}}

LEMMA Removed ==
  ASSUME NEW S, IsFiniteSet(S), NEW T \in SUBSET S
  PROVE  /\ IsFiniteSet(T) /\ IsFiniteSet(S \ T)
         /\ Cardinality(S) \in Nat /\ Cardinality(T) \in Nat
         /\ Cardinality(S \ T) = Cardinality(S) - Cardinality(T)
<1>1. S \cap T = T
  OBVIOUS
<1>2. IsFiniteSet(T)
  BY FS_Subset
<1> QED
  BY <1>1, <1>2, FS_Difference, FS_CardinalityType

\* Steps of other threads than the pushers move responses from one side of the
\* account to another.
LEMMA SameBusy ==
  ASSUME \A p \in Pushers : pc'[p] = pc[p]
  PROVE  Uncounted' = Uncounted
BY DEF Uncounted

LEMMA PushKeepsCount ==
  ASSUME TypeInv, Ids, EveryResponseCounted,
         NEW p \in Pushers, NEW type \in Types, NEW stamped \in Stamps,
         Push(p, type, stamped)
  PROVE  EveryResponseCounted'
<1> DEFINE out == Of(type) \ MakeRoom(type)
<1>1. PICK r \in Response :
        /\ r.id = arrived + 1
        /\ queue' = (queue \ Of(type)) \cup MakeRoom(type) \cup {r}
  BY PushFacts
<1>2. /\ arrived \in Nat /\ pc[p] = "idle" /\ pc' = [pc EXCEPT ![p] = "cache"]
      /\ MakeRoom(type) \subseteq Of(type) /\ Of(type) \subseteq queue
  BY PushFacts DEF MakeRoom, Newest
<1>3. queue' = (queue \ out) \cup {r}
  BY <1>1, <1>2
<1>4. r \notin queue
  BY <1>1, <1>2 DEF Ids
<1>5. /\ Cardinality(queue \ out) = Cardinality(queue) - Cardinality(out)
      /\ IsFiniteSet(queue \ out)
      /\ Cardinality(queue) \in Nat /\ Cardinality(out) \in Nat
  BY <1>2, Removed DEF TypeInv
<1>6. Cardinality(queue') = Cardinality(queue) - Cardinality(out) + 1
  BY <1>3, <1>4, <1>5, FS_AddElement
<1>7. Busy' = Busy \cup {p} /\ p \notin Busy
  BY <1>2 DEF Busy, TypeInv, TypeOK, Threads
<1>8. IsFiniteSet(Busy) /\ Cardinality(Busy) \in Nat
  BY FS_Subset, FS_CardinalityType DEF Busy
<1>9. Uncounted' = Uncounted + 1 /\ Uncounted \in Nat
  BY <1>7, <1>8, FS_AddElement DEF Uncounted, Busy
<1>10. expired' = expired + Cardinality(out) /\ UNCHANGED <<total, untold>>
  BY DEF Push
<1>11. expired \in Nat /\ total \in Nat /\ untold \in Int
  BY DEF TypeInv, TypeOK
<1> HIDE DEF out
<1> QED
  BY <1>5, <1>6, <1>9, <1>10, <1>11 DEF EveryResponseCounted

LEMMA FinishPushKeepsCount ==
  ASSUME TypeInv, EveryResponseCounted,
         NEW p \in Pushers, CacheWritten(p) \/ PushCounted(p)
  PROVE  EveryResponseCounted'
<1>1. pc \in [Threads -> {"idle", "cache", "count", "holds", "hung"} \cup Types]
      /\ p \in Threads /\ total \in Nat /\ expired \in Nat /\ untold \in Int
  BY DEF TypeInv, TypeOK, Threads
<1>2. CASE CacheWritten(p)
  <2>1. Busy' = Busy
    BY <1>1, <1>2 DEF CacheWritten, Goto, Busy
  <2> QED
    BY <1>2, <2>1 DEF CacheWritten, counters, EveryResponseCounted, Uncounted, Busy
<1>3. CASE PushCounted(p)
  <2>1. Busy' = Busy \ {p} /\ p \in Busy
    BY <1>1, <1>3 DEF PushCounted, Goto, Busy
  <2>2. IsFiniteSet(Busy) /\ Cardinality(Busy) \in Nat
    BY FS_Subset, FS_CardinalityType DEF Busy
  <2>3. Uncounted' = Uncounted - 1 /\ Uncounted \in Nat
    BY <2>1, <2>2, FS_RemoveElement DEF Uncounted, Busy
  <2>4. total' = total + 1 /\ UNCHANGED <<queue, expired, untold>>
    BY <1>3 DEF PushCounted, contents
  <2> QED
    BY <1>1, <2>3, <2>4 DEF EveryResponseCounted
<1> QED
  BY <1>2, <1>3

\* Neither do responses that are removed, or swept, upset the account.
LEMMA RemoveKeepsCount ==
  ASSUME TypeInv, EveryResponseCounted, NEW types, Remove(types), UNCHANGED control
  PROVE  EveryResponseCounted'
<1> DEFINE gone == {r \in queue : r.type \in types}
<1>1. Uncounted' = Uncounted
  BY SameBusy DEF control
<1>2. /\ Cardinality(queue \ gone) = Cardinality(queue) - Cardinality(gone)
      /\ Cardinality(queue) \in Nat /\ Cardinality(gone) \in Nat
  BY Removed DEF TypeInv
<1>3. /\ queue' = queue \ gone /\ untold' = untold + Cardinality(gone)
      /\ UNCHANGED <<total, expired>>
  BY DEF Remove
<1>4. expired \in Nat /\ total \in Nat /\ untold \in Int
  BY DEF TypeInv, TypeOK
<1> HIDE DEF gone
<1> QED
  BY <1>1, <1>2, <1>3, <1>4 DEF EveryResponseCounted

LEMMA ExpiryKeepsCount ==
  ASSUME TypeInv, EveryResponseCounted, ClearExpired
  PROVE  EveryResponseCounted'
<1>1. Uncounted' = Uncounted
  BY SameBusy DEF control, ClearExpired
<1>2. PICK gone \in SUBSET queue, types \in SUBSET RequestType : Sweep(gone, types)
  BY DEF ClearExpired, Old, OldShown
<1>3. /\ Cardinality(queue \ gone) = Cardinality(queue) - Cardinality(gone)
      /\ Cardinality(queue) \in Nat /\ Cardinality(gone) \in Nat
  BY Removed DEF TypeInv
<1>4. Cardinality(types) \in Nat
  BY TypesFinite
<1>5. expired \in Nat /\ total \in Nat /\ untold \in Int
  BY DEF TypeInv, TypeOK
<1>6. UNCHANGED total
  BY DEF ClearExpired
<1> QED
  BY <1>1, <1>2, <1>3, <1>4, <1>5, <1>6 DEF EveryResponseCounted, Sweep

LEMMA ReaderKeepsCount ==
  ASSUME TypeInv, EveryResponseCounted, NEW rd \in Readers, NEW type \in Types,
         GetLatestResponse(rd, type) \/ Pop(rd, type) \/ PopAll(rd, type)
           \/ Destroy(rd)
  PROVE  EveryResponseCounted'
<1>0. expired \in Nat /\ total \in Nat /\ untold \in Int
  BY DEF TypeInv, TypeOK
<1>1. ASSUME NEW label, Goto(rd, label) PROVE Uncounted' = Uncounted
  <2>1. \A p \in Pushers : pc'[p] = pc[p]
    BY <1>1 DEF Goto, TypeInv, TypeOK, Threads
  <2> QED
    BY <2>1, SameBusy
<1>2. CASE GetLatestResponse(rd, type)
  BY <1>1, <1>2 DEF GetLatestResponse, EveryResponseCounted, counters
<1>3. CASE Destroy(rd)
  BY <1>1, <1>3 DEF Destroy, EveryResponseCounted, counters, contents
<1>4. CASE Pop(rd, type)
  <2>1. CASE Goto(rd, "idle") /\ UNCHANGED <<contents, untold, holding>>
    BY <1>1, <1>4, <2>1 DEF Pop, EveryResponseCounted, contents
  <2>2. ASSUME NEW r \in Of(type), queue' = queue \ {r}, untold' = untold + 1,
               Goto(rd, "holds")
        PROVE  EveryResponseCounted'
    <3>1. r \in queue /\ Cardinality(queue) \in Nat
      BY FS_CardinalityType DEF Of, TypeInv
    <3>2. Cardinality(queue') = Cardinality(queue) - 1
      BY <2>2, <3>1, FS_RemoveElement DEF TypeInv
    <3> QED
      BY <1>0, <1>1, <1>4, <2>2, <3>1, <3>2 DEF Pop, EveryResponseCounted
  <2> QED
    BY <1>4, <2>1, <2>2 DEF Pop
<1>5. CASE PopAll(rd, type)
  <2>1. Of(type) \subseteq queue
    BY DEF Of
  <2>2. /\ Cardinality(queue \ Of(type)) = Cardinality(queue) - Cardinality(Of(type))
        /\ Cardinality(queue) \in Nat /\ Cardinality(Of(type)) \in Nat
    BY <2>1, Removed DEF TypeInv
  <2> QED
    BY <1>0, <1>1, <1>5, <2>2 DEF PopAll, EveryResponseCounted
<1> QED
  BY <1>2, <1>3, <1>4, <1>5

LEMMA NextKeepsCount ==
  ASSUME TypeInv, Ids, EveryResponseCounted, [Next]_vars
  PROVE  EveryResponseCounted'
<1>0. expired \in Nat /\ total \in Nat /\ untold \in Int
  BY DEF TypeInv, TypeOK
<1>1. ASSUME UNCHANGED <<contents, counters, control>>
      PROVE  EveryResponseCounted'
  BY <1>1, SameBusy DEF contents, counters, control, EveryResponseCounted
<1>2. ASSUME NEW t \in Pushers, Continue(t)
      PROVE  EveryResponseCounted'
  <2>1. t \notin Readers
    OBVIOUS
  <2>2. UpdateCache(t) \/ UpdateStatistics(t)
    BY <1>2, <2>1 DEF Continue
  <2>3. CASE ReadsFreed
    BY <1>1, <2>3 DEF ReadsFreed
  <2>4. CASE ~ReadsFreed
    <3>1. CacheWritten(t) \/ PushCounted(t)
      BY <2>2, <2>4 DEF UpdateCache, UpdateStatistics, CacheWritten, PushCounted
    <3> QED
      BY <3>1, FinishPushKeepsCount
  <2> QED
    BY <2>3, <2>4
<1>3. ASSUME NEW t \in Threads, Continue(t)
      PROVE  EveryResponseCounted'
  <2>1. CASE t \in Pushers
    BY <1>2, <1>3, <2>1
  <2>2. ASSUME t \in Readers, NEW ty \in Types, Pop(t, ty)
        PROVE  EveryResponseCounted'
    BY <2>2, ReaderKeepsCount
  <2>3. CASE t \in Readers /\ Destroy(t)
    <3>1. \A p \in Pushers : pc'[p] = pc[p]
      BY <2>3 DEF Destroy, Goto, TypeInv, TypeOK, Threads
    <3> QED
      BY <2>3, <3>1, SameBusy DEF Destroy, counters, contents, EveryResponseCounted
  <2> QED
    BY <1>3, <2>1, <2>2, <2>3 DEF Continue
<1>4. ASSUME NEW t \in Admins, Call(t)
      PROVE  EveryResponseCounted'
  <2>0. t \notin Pushers /\ t \notin Readers
    OBVIOUS
  <2>1. ASSUME NEW types, Clear(t, types) PROVE EveryResponseCounted'
    BY <2>1, RemoveKeepsCount DEF Clear
  <2>2. CASE ClearExpiredCall(t)
    BY <2>2, ExpiryKeepsCount DEF ClearExpiredCall
  <2>3. ASSUME NEW c \in Configs, SetConfig(t, c) PROVE EveryResponseCounted'
    BY <1>1, <2>3 DEF SetConfig
  <2>4. CASE GetStatistics(t)
    <3>1. \A p \in Pushers : pc'[p] = pc[p]
      BY <2>0, <2>4 DEF GetStatistics, Goto, TypeInv, TypeOK, Threads
    <3> QED
      BY <2>4, <3>1, SameBusy
         DEF GetStatistics, contents, counters, EveryResponseCounted
  <2>5. CASE ResetStatistics(t)
    <3>1. Uncounted' = Uncounted /\ queue' = queue
      BY <2>5, SameBusy DEF ResetStatistics, contents, control
    <3>2. IsFiniteSet(Busy) /\ Cardinality(Busy) \in Nat /\ Cardinality(queue) \in Nat
      BY FS_Subset, FS_CardinalityType DEF Busy, TypeInv
    <3>3. Uncounted \in Nat
      BY <3>2 DEF Uncounted, Busy
    <3>4. total' = 0 /\ expired' = 0 /\ untold' = Uncounted - Cardinality(queue)
      BY <2>5 DEF ResetStatistics
    <3> QED
      BY <3>1, <3>2, <3>3, <3>4 DEF EveryResponseCounted
  <2> QED
    BY <1>4, <2>0, <2>1, <2>2, <2>3, <2>4, <2>5 DEF Call
<1>5. ASSUME NEW t \in Threads, Call(t)
      PROVE  EveryResponseCounted'
  <2>1. CASE t \in Pushers
    BY <1>5, <2>1, PushKeepsCount DEF Call
  <2>2. CASE t \in Readers
    BY <1>5, <2>2, ReaderKeepsCount DEF Call
  <2> QED
    BY <1>4, <1>5, <2>1, <2>2 DEF Threads
<1>6. CASE CleanupThread
  BY <1>1, <1>6, ExpiryKeepsCount DEF CleanupThread
<1>7. CASE StopCleaner
  BY <1>1, <1>7 DEF StopCleaner
<1>8. CASE JoinCleaner
  BY <1>8, RemoveKeepsCount DEF JoinCleaner
<1>9. CASE Tick
  BY <1>1, <1>9 DEF Tick
<1>10. CASE UNCHANGED vars
  BY <1>1, <1>10 DEF vars
<1> QED
  BY <1>3, <1>5, <1>6, <1>7, <1>8, <1>9, <1>10 DEF Next

\* No response disappears without a trace, whatever the interleaving of pushes,
\* pops, sweeps, clears and resets.
THEOREM CountCorrect == Spec => []EveryResponseCounted
<1>1. Init => EveryResponseCounted
  <2> SUFFICES ASSUME Init PROVE EveryResponseCounted
    OBVIOUS
  <2>1. {p \in Pushers : pc[p] \in {"cache", "count"}} = {} /\ queue = {}
    BY DEF Init, Threads
  <2>2. Cardinality({}) = 0
    BY FS_EmptySet
  <2>3. Uncounted = 0 /\ Cardinality(queue) = 0
    BY <2>1, <2>2 DEF Uncounted
  <2>4. total = 0 /\ expired = 0 /\ untold = 0
    BY DEF Init
  <2> QED
    BY <2>3, <2>4 DEF EveryResponseCounted
<1> QED
  BY <1>1, TypeInvariant, IdsInvariant, NextKeepsCount, PTL DEF Spec
----------------------------------------------------------------------------
(* The refinement.                                                         *)

Arriving == {pushing[p] : p \in {q \in Pushers : pc[q] = "cache"}}

Handed == UNION {holding[rd] : rd \in Readers}

\* The board's time is the queue's.
LEMMA SameExpiry ==
  ASSUME NEW r, NEW time
  PROVE  Board!Expired(r, time) <=> ExpiredAt(r, time)
BY DEF Board!Expired, ExpiredAt

\* The board counts as the queue does.
LEMMA SameCardinality ==
  ASSUME NEW S
  PROVE  Board!Cardinality(S) = Cardinality(S)
BY DEF Board!Cardinality, Cardinality

LEMMA PushDelivers ==
  ASSUME TypeInv, NEW p \in Pushers, NEW type \in Types, NEW stamped \in Stamps,
         Push(p, type, stamped)
  PROVE  \E r \in Response : Board!Deliver(r)
<1>1. PICK r \in Response :
        /\ r.id = arrived + 1 /\ r.type = type /\ r.received <= now
        /\ queue' = (queue \ Of(type)) \cup MakeRoom(type) \cup {r}
        /\ pushing' = [pushing EXCEPT ![p] = r]
  BY PushFacts
<1>2. /\ arrived' = arrived + 1
      /\ pc[p] = "idle" /\ pc' = [pc EXCEPT ![p] = "cache"]
      /\ UNCHANGED latest
  BY PushFacts
<1>3. UNCHANGED <<config, now, holding>>
  BY DEF Push
<1>4. \A q \in Pushers : q # p => pushing'[q] = pushing[q] /\ pc'[q] = pc[q]
  BY <1>1, <1>2 DEF TypeInv, TypeOK, Threads
<1>5. pushing'[p] = r /\ pc'[p] = "cache"
  BY <1>1, <1>2 DEF TypeInv, TypeOK, Threads
<1>6. Arriving' = Arriving \cup {r}
  BY <1>2, <1>4, <1>5 DEF Arriving
<1>7. queue' = (queue \ Board!Of(r.type))
                 \cup Board!Newest(Board!Of(r.type), config.max - 1) \cup {r}
  BY <1>1, SameCardinality DEF Of, MakeRoom, Newest, Board!Of, Board!Newest
<1> QED
  BY <1>1, <1>2, <1>3, <1>6, <1>7 DEF Board!Deliver, Arriving

LEMMA CacheShows ==
  ASSUME TypeInv, Ids, NEW p \in Pushers, CacheWritten(p)
  PROVE  \E r \in Arriving : Board!Show(r)
<1>0. PICK r : r = pushing[p]
  OBVIOUS
<1>1. /\ pc \in [Threads -> {"idle", "cache", "count", "holds", "hung"} \cup Types]
      /\ p \in Threads
  BY DEF TypeInv, TypeOK, Threads
<1>2. pc[p] = "cache" /\ r \in Arriving
  BY <1>0 DEF CacheWritten, Arriving
<1>3. \A q \in Pushers : pc[q] = "cache" /\ q # p => pushing[q] # r
  BY <1>0, <1>2 DEF Ids
<1>4. UNCHANGED <<pushing, queue, arrived, config, now, holding>>
  BY DEF CacheWritten, history
<1>5. \A q \in Pushers : pc'[q] = "cache" <=> pc[q] = "cache" /\ q # p
  BY <1>1 DEF CacheWritten, Goto, Threads
<1>6. Arriving' = Arriving \ {r}
  BY <1>0, <1>2, <1>3, <1>4, <1>5 DEF Arriving
<1>7. latest' = [latest EXCEPT ![r.type] = r]
  BY <1>0 DEF CacheWritten
<1>8. Board!Show(r)
  BY <1>2, <1>4, <1>6, <1>7 DEF Board!Show, Arriving
<1> QED
  BY <1>2, <1>8

\* Every step is a step of the board, or one that the board does not see.
LEMMA StepImplementsBoard ==
  ASSUME TypeInv, Ids, [Next]_vars
  PROVE  [Board!Next]_(Board!vars)
<1>0. /\ pc \in [Threads -> {"idle", "cache", "count", "holds", "hung"} \cup Types]
      /\ latest \in [RequestType -> Response \cup {NoResponse}]
      /\ holding \in [Readers -> SUBSET Response]
      /\ queue \subseteq Response
  BY DEF TypeInv, TypeOK
<1>1. ASSUME UNCHANGED pushing, \A p \in Pushers : pc'[p] = pc[p]
      PROVE  Arriving' = Arriving
  BY <1>1 DEF Arriving
<1>2. ASSUME UNCHANGED <<queue, latest, arrived, config, now, holding, Arriving>>
      PROVE  UNCHANGED Board!vars
  BY <1>2 DEF Board!vars, Arriving
<1>3. ASSUME UNCHANGED <<contents, config, now, control>>
      PROVE  UNCHANGED Board!vars
  BY <1>1, <1>2, <1>3 DEF contents, control, history
<1>4. ASSUME NEW types \in SUBSET RequestType, Remove(types),
             UNCHANGED <<pushing, pc, holding>>
      PROVE  Board!Discard(types)
  <2>1. queue' = {r \in queue : r.type \notin types}
    BY <1>4 DEF Remove
  <2>2. latest' = Board!Without(types)
    BY <1>4 DEF Remove, Board!Without, Board!RequestType, RequestType
  <2>3. UNCHANGED <<arrived, config, now, Arriving>>
    BY <1>1, <1>4 DEF Remove, history
  <2> QED
    BY <1>4, <2>1, <2>2, <2>3 DEF Board!Discard, Arriving
<1>5. ASSUME ClearExpired
      PROVE  Board!Expire
  <2>1. PICK end \in now .. MaxClock :
          /\ now' = end
          /\ \E gone \in SUBSET Old(end), types \in SUBSET OldShown(end) :
               /\ Old(now) \subseteq gone /\ OldShown(now) \subseteq types
               /\ Sweep(gone, types)
    BY <1>5 DEF ClearExpired
  <2>2. PICK gone \in SUBSET Old(end), types \in SUBSET OldShown(end) :
          /\ Old(now) \subseteq gone /\ OldShown(now) \subseteq types
          /\ Sweep(gone, types)
    BY <2>1
  <2>3. now' \in Nat /\ now' >= now
    BY <2>1 DEF TypeInv, TypeOK
  <2>4. /\ queue' \subseteq queue
        /\ \A r \in queue : /\ Board!Expired(r, now) => r \notin queue'
                            /\ r \notin queue' => Board!Expired(r, end)
    BY <2>2, SameExpiry DEF Sweep, Old
  <2>5. \A time : Board!Stale(time) = OldShown(time)
    BY SameExpiry DEF Board!Stale, OldShown, Board!RequestType, RequestType
  <2>6. latest' = Board!Without(types)
    BY <2>2 DEF Sweep, Board!Without, Board!RequestType, RequestType
  <2>7. types \in SUBSET Board!Stale(end) /\ Board!Stale(now) \subseteq types
    BY <2>2, <2>5
  <2>8. UNCHANGED <<arrived, config, holding, Arriving>>
    BY <1>1, <1>5 DEF ClearExpired, history, control
  <2> QED
    BY <2>1, <2>3, <2>4, <2>6, <2>7, <2>8 DEF Board!Expire, Arriving
<1>6. ASSUME NEW rd \in Readers, NEW label, Goto(rd, label)
      PROVE  \A p \in Pushers : pc'[p] = pc[p]
  BY <1>0, <1>6 DEF Goto, Threads
<1>7. ASSUME NEW rd \in Readers, NEW type \in Types, GetLatestResponse(rd, type)
      PROVE  Board!Forget(type) \/ UNCHANGED Board!vars
  <2>1. type \in RequestType
    OBVIOUS
  <2>2. /\ UNCHANGED <<queue, arrived, config, now, holding, Arriving>>
        /\ latest' = [latest EXCEPT ![type] = NoResponse]
    BY <1>1, <1>6, <1>7 DEF GetLatestResponse, history
  <2>3. CASE latest[type] = NoResponse
    <3>1. latest' = latest
      BY <1>0, <2>2, <2>3
    <3> QED
      BY <1>2, <2>2, <3>1
  <2>4. CASE latest[type] # NoResponse
    <3>1. Board!Expired(latest[type], now)
      BY <1>7, <2>4, SameExpiry DEF GetLatestResponse, IsResponseExpired
    <3>2. latest' = Board!Without({type})
      BY <1>0, <2>1, <2>2 DEF Board!Without, Board!RequestType, RequestType
    <3> QED
      BY <2>2, <2>4, <3>1, <3>2 DEF Board!Forget, Arriving
  <2> QED
    BY <2>3, <2>4
<1>8. ASSUME NEW rd \in Readers, NEW S, holding[rd] = {},
             holding' = [holding EXCEPT ![rd] = S]
      PROVE  Handed' = Handed \cup S
  <2>1. holding'[rd] = S /\ \A x \in Readers : x # rd => holding'[x] = holding[x]
    BY <1>0, <1>8
  <2>2. ASSUME NEW r PROVE r \in Handed' <=> r \in Handed \cup S
    <3>1. r \in Handed' <=> \E x \in Readers : r \in holding'[x]
      BY DEF Handed
    <3>2. r \in Handed <=> \E x \in Readers : r \in holding[x]
      BY DEF Handed
    <3> QED
      BY <1>8, <2>1, <3>1, <3>2
  <2> QED
    BY <2>2
<1>9. ASSUME NEW rd \in Readers, NEW type \in Types, pc[rd] \in {"idle", type}
      PROVE  holding[rd] = {}
  BY <1>9 DEF TypeInv, TypeOK, RequestType
<1>10. ASSUME NEW rd \in Readers, NEW type \in Types, Pop(rd, type)
      PROVE  (\E r \in queue : Board!Hand(r)) \/ UNCHANGED Board!vars
  <2>1. CASE Goto(rd, "idle") /\ UNCHANGED <<contents, untold, holding>>
    BY <1>1, <1>2, <1>6, <1>10, <2>1 DEF Pop, contents, history
  <2>2. ASSUME NEW r \in Of(type), \A s \in Of(type) : r.id <= s.id,
               queue' = queue \ {r}, holding' = [holding EXCEPT ![rd] = {r}],
               Goto(rd, "holds"), UNCHANGED <<latest, history>>
        PROVE  \E s \in queue : Board!Hand(s)
    <3>1. r \in queue /\ Board!Of(r.type) = Of(type)
      BY <2>2 DEF Of, Board!Of
    <3>2. UNCHANGED <<arrived, config, now, Arriving>>
      BY <1>1, <1>6, <1>10, <2>2 DEF Pop, history
    <3>3. Handed' = Handed \cup {r}
      BY <1>8, <1>9, <1>10, <2>2 DEF Pop
    <3> QED
      BY <2>2, <3>1, <3>2, <3>3 DEF Board!Hand, Arriving, Handed
  <2> QED
    BY <1>10, <2>1, <2>2 DEF Pop
<1>11. ASSUME NEW rd \in Readers, NEW type \in Types, PopAll(rd, type)
       PROVE  Board!HandAll(type)
  <2>1. queue' = queue \ Board!Of(type)
    BY <1>11 DEF PopAll, Of, Board!Of
  <2>2. UNCHANGED <<latest, arrived, config, now, Arriving>>
    BY <1>1, <1>6, <1>11 DEF PopAll, history
  <2>3. Handed' = Handed \cup Board!Of(type)
    BY <1>8, <1>9, <1>11 DEF PopAll, Of, Board!Of
  <2> QED
    BY <2>1, <2>2, <2>3 DEF Board!HandAll, Arriving, Handed
<1>12. ASSUME NEW rd \in Readers, Destroy(rd)
       PROVE  Board!Finish
  <2>1. holding' = [holding EXCEPT ![rd] = {}]
    BY <1>12 DEF Destroy
  <2>2. \A x \in Readers : holding'[x] \subseteq holding[x]
    BY <1>0, <2>1
  <2>3. Handed' \subseteq Handed
    BY <2>2 DEF Handed
  <2>4. UNCHANGED <<queue, latest, arrived, config, now, Arriving>>
    BY <1>1, <1>6, <1>12 DEF Destroy, contents, history
  <2> QED
    BY <2>3, <2>4 DEF Board!Finish, Arriving, Handed
<1>13. ASSUME NEW a \in Admins, NEW c \in Configs, SetConfig(a, c)
       PROVE  Board!Configure
  <2>1. c.max \in Nat \ {0} /\ c.timeout \in Int
    BY <1>13
  <2>2. config' = c /\ UNCHANGED <<queue, latest, arrived, now, holding, Arriving>>
    BY <1>1, <1>13 DEF SetConfig, contents, control, history
  <2> QED
    BY <2>1, <2>2 DEF Board!Configure, Arriving
<1>14. ASSUME Tick
       PROVE  Board!Tick
  <2>1. now' \in Nat /\ now' > now
    BY <1>14 DEF Tick, TypeInv, TypeOK
  <2>2. UNCHANGED <<queue, latest, arrived, config, holding, Arriving>>
    BY <1>1, <1>14 DEF Tick, contents, control, history
  <2> QED
    BY <2>1, <2>2 DEF Board!Tick, Arriving
<1>15. ASSUME NEW p \in Pushers, PushCounted(p)
       PROVE  UNCHANGED Board!vars
  <2>1. /\ p \in Threads /\ pc[p] = "count"
        /\ \A q \in Pushers : pc'[q] = "cache" <=> pc[q] = "cache"
    BY <1>0, <1>15 DEF PushCounted, Goto, Threads
  <2>2. \A q \in Pushers : pc[q] = "cache" => pushing'[q] = pushing[q]
    BY <1>15, <2>1 DEF PushCounted, TypeInv, TypeOK
  <2>3. Arriving' = Arriving
    BY <2>1, <2>2 DEF Arriving
  <2> QED
    BY <1>2, <1>15, <2>3 DEF PushCounted, contents, history
<1> DEFINE Goal == Board!Next \/ UNCHANGED Board!vars
<1>16. /\ \A r \in Response : Board!Deliver(r) => Goal
       /\ \A r \in Arriving : Board!Show(r) => Goal
       /\ \A r \in queue : Board!Hand(r) => Goal
       /\ \A type \in Types : Board!HandAll(type) \/ Board!Forget(type) => Goal
       /\ \A types \in SUBSET RequestType : Board!Discard(types) => Goal
       /\ Board!Finish \/ Board!Expire \/ Board!Configure \/ Board!Tick => Goal
  BY DEF Board!Next, Board!RequestType, RequestType, Arriving
<1>17. ASSUME NEW t \in Pushers, Continue(t)
       PROVE  Goal
  <2>1. t \notin Readers
    OBVIOUS
  <2>2. UpdateCache(t) \/ UpdateStatistics(t)
    BY <1>17, <2>1 DEF Continue
  <2>3. CASE ReadsFreed
    BY <1>3, <2>3 DEF ReadsFreed
  <2>4. CASE ~ReadsFreed
    <3>1. CacheWritten(t) \/ PushCounted(t)
      BY <2>2, <2>4 DEF UpdateCache, UpdateStatistics, CacheWritten, PushCounted
    <3> HIDE DEF Goal
    <3> QED
      BY <1>15, <1>16, <3>1, CacheShows DEF Goal
  <2> QED
    BY <2>3, <2>4
<1> SUFFICES Goal
  OBVIOUS
<1> HIDE DEF Goal
<1>18. UNCHANGED Board!vars => Goal
  BY DEF Goal
<1>19. ASSUME NEW t \in Readers, Call(t) \/ Continue(t)
       PROVE  Goal
  <2>1. t \notin Pushers /\ t \notin Admins
    OBVIOUS
  <2>2. \A ty \in Types : {ty} \in SUBSET RequestType
    OBVIOUS
  <2>3. \/ \E ty \in Types : \/ GetLatestResponse(t, ty) \/ Pop(t, ty)
                            \/ PopAll(t, ty)
        \/ Destroy(t)
    BY <1>19, <2>1 DEF Call, Continue
  <2> QED
    BY <1>7, <1>10, <1>11, <1>12, <1>16, <1>18, <2>2, <2>3
<1>20. ASSUME NEW t \in Admins, Call(t)
       PROVE  Goal
  <2>0. t \notin Pushers /\ t \notin Readers
    OBVIOUS
  <2>1. ASSUME NEW types \in SUBSET RequestType, Clear(t, types) PROVE Goal
    BY <1>4, <1>16, <2>1 DEF Clear, Remove, control
  <2>2. CASE ClearExpiredCall(t)
    BY <1>5, <1>16, <2>2 DEF ClearExpiredCall
  <2>3. ASSUME NEW c \in Configs, SetConfig(t, c) PROVE Goal
    BY <1>13, <1>16, <2>3
  <2>4. CASE GetStatistics(t)
    <3>1. \A p \in Pushers : pc'[p] = pc[p]
      BY <1>0, <2>0, <2>4 DEF GetStatistics, Goto, Threads
    <3> QED
      BY <1>1, <1>2, <1>18, <2>4, <3>1 DEF GetStatistics, contents, history
  <2>5. CASE ResetStatistics(t)
    BY <1>3, <1>18, <2>5 DEF ResetStatistics
  <2>6. \A ty \in Types : {ty} \in SUBSET RequestType
    OBVIOUS
  <2> QED
    BY <1>20, <2>0, <2>1, <2>2, <2>3, <2>4, <2>5, <2>6 DEF Call
<1>21. ASSUME NEW t \in Pushers, Call(t)
       PROVE  Goal
  <2>1. t \notin Readers /\ t \notin Admins
    OBVIOUS
  <2> QED
    BY <1>16, <1>21, <2>1, PushDelivers DEF Call
<1>22. ASSUME NEW t \in Admins, Continue(t)
       PROVE  Goal
  BY <1>22 DEF Continue
<1>23. CASE CleanupThread
  BY <1>3, <1>5, <1>16, <1>18, <1>23 DEF CleanupThread
<1>24. CASE StopCleaner \/ Tick
  BY <1>3, <1>14, <1>16, <1>18, <1>24 DEF StopCleaner
<1>25. CASE JoinCleaner
  <2>1. Board!Discard(RequestType)
    BY <1>4, <1>25 DEF JoinCleaner, Remove, control
  <2> QED
    BY <1>16, <2>1
<1>26. CASE UNCHANGED vars
  BY <1>3, <1>18, <1>26 DEF vars
<1> QED
  BY <1>17, <1>19, <1>20, <1>21, <1>22, <1>23, <1>24, <1>25, <1>26
     DEF Next, Threads

\* The response queue implements the board.  What Pop gives a reader arrived
\* before all other responses of its type that are still queued; a response that
\* no reader gets was the oldest of a full queue, or too old, or cleared; and the
\* response on display is one that was pushed, until it is too old or replaced.
THEOREM BoardCorrect == Spec => ImplementsBoard
<1>1. Init => Board!Init
  <2> SUFFICES ASSUME Init PROVE Board!Init
    OBVIOUS
  <2>1. {q \in Pushers : pc[q] = "cache"} = {}
    BY DEF Init, Threads
  <2>2. config.max \in Nat \ {0} /\ config.timeout \in Int
    BY DEF Init
  <2>3. UNION {holding[rd] : rd \in Readers} = {}
    BY DEF Init
  <2> QED
    BY <2>1, <2>2, <2>3 DEF Init, Board!Init, Board!RequestType, RequestType
<1> QED
  BY <1>1, TypeInvariant, IdsInvariant, StepImplementsBoard, PTL
     DEF Spec, Board!Spec, ImplementsBoard
=============================================================================
