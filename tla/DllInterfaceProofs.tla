------------------------- MODULE DllInterfaceProofs -------------------------
(***************************************************************************)
(* The safety properties of DllInterface for any number of callers,        *)
(* workers and managers.                                                   *)
(*                                                                         *)
(* The inductive invariant ties the global pointer to the flag and to the  *)
(* holder of g_init_mutex (Slot), and says that whoever found the DLL      *)
(* initialized either still finds it so or has been overtaken by a Cleanup *)
(* (Users), which is what UsesLiveManager needs to last.                   *)
(***************************************************************************)
EXTENDS DllInterface, TLAPS

\* The pointer, the flag and the function that keeps the mutex.
Slot ==
  /\ initialized => manager # 0
  /\ manager # 0 => initialized \/ \E c \in Callers : pc[c] = "starting"
  /\ \A c \in Callers :
       /\ pc[c] = "starting" => /\ manager # 0 /\ ~initialized
                                /\ running[manager] = 0
       /\ pc[c] = "joining" => initialized
       /\ pc[c] = "discarding" => manager = 0 /\ held[c] \in Managers

\* The callers that are past the check.
Users ==
  \A c \in Callers : pc[c] \in {"checked", "inside", "hung"} =>
    /\ overlapped[c] \/ initialized
    /\ \A d \in Callers : pc[d] = "joining" => overlapped[c]

\* The DLL outlives the calls, and libcurl is up while it is loaded.
Loading ==
  /\ \A c \in Callers : pc[c] # "idle" => module = "loaded"
  /\ module = "loaded" => curl
  /\ module = "absent" => ~initialized

Inv == TypeOK /\ Slot /\ Users /\ Loading /\ UsesLiveManager /\ NoOrphans

LEMMA InitInv == Init => Inv
<1> SUFFICES ASSUME Init PROVE Inv
  OBVIOUS
<1>1. TypeOK
  <2>1. /\ made \in 0 .. MaxManagers /\ manager \in 0 .. made
        /\ running \in [Managers -> 0 .. Threads]
        /\ held \in [Callers -> 0 .. MaxManagers]
        /\ \A g \in Managers : busy[g] + lost[g] <= running[g]
    BY DllAssumption DEF Init
  <2>2. \A c, d \in Callers : pc[c] \in Holding /\ pc[d] \in Holding => c = d
    BY DEF Init, Holding
  <2> QED
    BY <2>1, <2>2 DEF Init, TypeOK
<1>2. Slot /\ Users /\ Loading
  BY DEF Init, Slot, Users, Loading
<1>3. UsesLiveManager /\ NoOrphans
  BY DEF Init, UsesLiveManager, NoOrphans
<1> QED
  BY <1>1, <1>2, <1>3 DEF Inv
-----------------------------------------------------------------------------
(* One lemma per kind of step.                                             *)

\* The calls that neither take nor keep the mutex: they move one caller.
LEMMA CallStep ==
  ASSUME Inv, NEW c \in Callers,
         \/ \E o \in Operations : Begin(c, o)
         \/ IsInitialized(c) \/ InvalidArguments(c) \/ EnterManager(c)
         \/ LeaveManager(c) \/ InitializeRefused(c) \/ CleanupNothing(c)
  PROVE  Inv'
<1> USE DllAssumption
<1>1. /\ UNCHANGED <<library, slot, workers>>
      /\ \A d \in Callers : d # c =>
           /\ pc'[d] = pc[d] /\ held'[d] = held[d]
           /\ overlapped'[d] = overlapped[d]
      /\ pc[c] \notin Holding /\ pc'[c] \notin Holding
      /\ pc'[c] # "idle" => module = "loaded"
  BY DEF Inv, TypeOK, Loading, Begin, IsInitialized, InvalidArguments,
         EnterManager, LeaveManager, InitializeRefused, CleanupNothing, Return,
         Goto, Holding
<1>2. TypeOK'
  <2>1. manager \in 0 .. MaxManagers
    BY DEF Inv, TypeOK
  <2>2. /\ pc' \in [Callers -> {"idle", "enter", "checked", "inside", "hung"}
                                \cup Holding]
        /\ op' \in [Callers -> Operation \cup {None}]
        /\ held' \in [Callers -> 0 .. MaxManagers]
        /\ overlapped' \in [Callers -> BOOLEAN]
    <3>1. \/ Return(c) /\ overlapped' = overlapped
          \/ \E l \in {"enter", "checked", "inside", "hung"} :
               /\ Goto(c, l)
               /\ \/ op' = op
                  \/ \E o \in Operations : op' = [op EXCEPT ![c] = o]
               /\ held' = held \/ held' = [held EXCEPT ![c] = manager]
               /\ \/ overlapped' = overlapped
                  \/ overlapped' = [overlapped EXCEPT ![c] = FALSE]
      BY DEF Begin, IsInitialized, InvalidArguments, EnterManager, LeaveManager,
             InitializeRefused, CleanupNothing
    <3>2. CASE Return(c) /\ overlapped' = overlapped
      BY <3>2 DEF Inv, TypeOK, Return, Goto
    <3>3. CASE \E l \in {"enter", "checked", "inside", "hung"} : Goto(c, l)
      <4>1. pc' \in [Callers -> {"idle", "enter", "checked", "inside", "hung"}
                                    \cup Holding]
        BY <3>3 DEF Inv, TypeOK, Goto
      <4>2. op' \in [Callers -> Operation \cup {None}]
        BY <3>1 DEF Inv, TypeOK, Return
      <4>3. held' \in [Callers -> 0 .. MaxManagers]
        BY <2>1, <3>1 DEF Inv, TypeOK, Return
      <4>4. overlapped' \in [Callers -> BOOLEAN]
        BY <3>1 DEF Inv, TypeOK
      <4> QED
        BY <4>1, <4>2, <4>3, <4>4
    <3> QED
      BY <3>1, <3>2, <3>3
  <2>3. \A d, e \in Callers : pc'[d] \in Holding /\ pc'[e] \in Holding => d = e
    BY <1>1 DEF Inv, TypeOK
  <2> QED
    BY <1>1, <2>2, <2>3 DEF Inv, TypeOK, library, slot, workers
<1>3. Slot' /\ Loading' /\ NoOrphans'
  BY <1>1 DEF Inv, Slot, Loading, NoOrphans, Holding, library, slot, workers
<1>4. pc'[c] \in {"checked", "inside", "hung"} =>
        \/ pc[c] \in {"checked", "inside", "hung"} /\ overlapped'[c] = overlapped[c]
        \/ initialized /\ InitMutexFree
  BY DEF Inv, TypeOK, Begin, IsInitialized, InvalidArguments, EnterManager,
         LeaveManager, InitializeRefused, CleanupNothing, Return, Goto, Holding
<1>5. Users'
  BY <1>1, <1>4 DEF Inv, Users, InitMutexFree, Holding, slot
<1>6. pc'[c] \in {"inside", "hung"} =>
        \/ held'[c] = manager
        \/ pc[c] = "inside" /\ held'[c] = held[c] /\ overlapped'[c] = overlapped[c]
  BY DEF Inv, TypeOK, Begin, IsInitialized, InvalidArguments, EnterManager,
         LeaveManager, InitializeRefused, CleanupNothing, Return, Goto, Holding
<1>7. UsesLiveManager'
  BY <1>1, <1>4, <1>6 DEF Inv, UsesLiveManager, Slot, slot
<1> QED
  BY <1>2, <1>3, <1>5, <1>7 DEF Inv

\* AsyncNet_Initialize with the mutex.
LEMMA InitializeStep ==
  ASSUME Inv, NEW c \in Callers,
         \/ \E ms \in Timeouts : Initialize(c, ms)
         \/ StartManager(c) \/ StartFails(c) \/ FinishDiscard(c)
  PROVE  Inv'
<1> USE DllAssumption
<1>1. CASE \E ms \in Timeouts : Initialize(c, ms)
  <2>1. PICK ms \in Timeouts : Initialize(c, ms)
    BY <1>1
  <2>2. manager = 0 /\ \A g \in Managers : running[g] = 0
    <3>1. \A d \in Callers : pc[d] # "starting" /\ pc[d] # "discarding"
      BY <2>1 DEF Initialize, InitMutexFree, Holding
    <3>2. manager = 0
      BY <2>1, <3>1 DEF Inv, Slot, Initialize
    <3>3. \A g \in Managers : ~(running[g] > 0)
      BY <3>1, <3>2 DEF Inv, NoOrphans, Managers
    <3> QED
      BY <3>2, <3>3 DEF Inv, TypeOK
  <2>3. manager' \in Managers /\ Clamp(ms) \div 1000 \in Nat
    BY <2>1 DEF Inv, TypeOK, Initialize, Clamp, ASYNCNET_DEFAULT_TIMEOUT, Managers
  <2>4. TypeOK'
    <3>1. /\ made' \in 0 .. MaxManagers /\ manager' \in 0 .. made'
          /\ limit' \in [Managers -> Nat]
      <4>1. made' = made + 1 /\ manager' = made + 1 /\ made < MaxManagers
        BY <2>1 DEF Initialize
      <4>2. made \in Nat
        BY DEF Inv, TypeOK
      <4>3. limit' \in [Managers -> Nat]
        BY <2>1, <2>3 DEF Inv, TypeOK, Initialize
      <4> QED
        BY <4>1, <4>2, <4>3
    <3>2. /\ pc' \in [Callers -> {"idle", "enter", "checked", "inside", "hung"}
                                  \cup Holding]
          /\ \A d, e \in Callers : pc'[d] \in Holding /\ pc'[e] \in Holding => d = e
      BY <2>1 DEF Inv, TypeOK, Initialize, InitMutexFree, Goto, Holding
    <3> QED
      BY <2>1, <3>1, <3>2 DEF Inv, TypeOK, Initialize, library
  <2>5. Slot' /\ Users' /\ Loading'
    BY <2>1, <2>2, <2>3 DEF Inv, TypeOK, Slot, Users, Loading, Initialize,
                            InitMutexFree, Goto, Holding, library
  <2>6. UsesLiveManager' /\ NoOrphans'
    BY <2>1, <2>2, <2>3 DEF Inv, TypeOK, Users, UsesLiveManager, NoOrphans,
                            Initialize, InitMutexFree, Goto, Holding, library
  <2> QED
    BY <2>4, <2>5, <2>6 DEF Inv
<1>2. CASE StartManager(c)
  <2>1. /\ manager \in Managers /\ busy[manager] = 0 /\ lost[manager] = 0
        /\ module = "loaded" /\ curl
        /\ \A d \in Callers : d # c => pc[d] \notin Holding
        /\ \A d \in Callers : pc[d] \in {"checked", "inside", "hung"} => overlapped[d]
    BY <1>2 DEF Inv, TypeOK, Slot, Users, Loading, StartManager, Holding, Managers
  <2>2. TypeOK'
    BY <1>2, <2>1 DEF Inv, TypeOK, StartManager, Return, Goto, Holding, library
  <2>3. Slot' /\ Users' /\ Loading' /\ UsesLiveManager'
    BY <1>2, <2>1 DEF Inv, TypeOK, Slot, Users, Loading, UsesLiveManager,
                      StartManager, Return, Goto, Holding, library
  <2>4. NoOrphans'
    BY <1>2, <2>1 DEF Inv, TypeOK, NoOrphans, StartManager, Return, Goto, Holding,
                      library
  <2> QED
    BY <2>2, <2>3, <2>4 DEF Inv
<1>3. CASE StartFails(c)
  <2>1. /\ manager \in Managers /\ busy[manager] = 0 /\ lost[manager] = 0
        /\ ~initialized /\ module = "loaded" /\ curl
        /\ \A d \in Callers : d # c => pc[d] \notin Holding
        /\ \A d \in Callers : pc[d] \in {"checked", "inside", "hung"} => overlapped[d]
    BY <1>3 DEF Inv, TypeOK, Slot, Users, Loading, StartFails, Holding, Managers
  <2>2. PICK n \in 0 .. Threads - 1 : running' = [running EXCEPT ![manager] = n]
    BY <1>3 DEF StartFails
  <2>3. TypeOK'
    <3>1. /\ running' \in [Managers -> 0 .. Threads]
          /\ \A g \in Managers : busy[g] + lost[g] <= running'[g]
      BY <2>1, <2>2 DEF Inv, TypeOK
    <3>2. /\ manager' \in 0 .. made
          /\ held' \in [Callers -> 0 .. MaxManagers]
          /\ closing' \in [Managers -> BOOLEAN]
      <4>1. manager' = 0 /\ made \in Nat /\ manager \in 0 .. MaxManagers
        BY <1>3, <2>1 DEF Inv, TypeOK, StartFails, Managers
      <4>2. /\ held' \in [Callers -> 0 .. MaxManagers]
            /\ closing' \in [Managers -> BOOLEAN]
        BY <1>3, <2>1, <4>1 DEF Inv, TypeOK, StartFails
      <4> QED
        BY <4>1, <4>2
    <3>3. /\ pc' \in [Callers -> {"idle", "enter", "checked", "inside", "hung"}
                                  \cup Holding]
          /\ \A d, e \in Callers : pc'[d] \in Holding /\ pc'[e] \in Holding => d = e
      BY <1>3, <2>1 DEF Inv, TypeOK, StartFails, Goto, Holding
    <3> QED
      BY <1>3, <3>1, <3>2, <3>3 DEF Inv, TypeOK, StartFails, library
  <2>4. Slot' /\ Users' /\ Loading' /\ UsesLiveManager'
    BY <1>3, <2>1 DEF Inv, TypeOK, Slot, Users, Loading, UsesLiveManager,
                      StartFails, Goto, Holding, library
  <2>5. NoOrphans'
    BY <1>3, <2>1, <2>2 DEF Inv, TypeOK, NoOrphans, StartFails, Goto, Holding,
                            library
  <2> QED
    BY <2>3, <2>4, <2>5 DEF Inv
<1>4. CASE FinishDiscard(c)
  <2>1. UNCHANGED <<library, slot, workers, overlapped>>
    BY <1>4 DEF FinishDiscard
  <2>2. TypeOK'
    BY <1>4 DEF Inv, TypeOK, FinishDiscard, Return, Goto, Holding, library, slot,
                workers
  <2>3. Slot' /\ Users' /\ Loading' /\ UsesLiveManager' /\ NoOrphans'
    BY <1>4, <2>1 DEF Inv, TypeOK, Slot, Users, Loading, UsesLiveManager,
                      NoOrphans, FinishDiscard, Return, Goto, Holding, library,
                      slot, workers
  <2> QED
    BY <2>2, <2>3 DEF Inv
<1> QED
  BY <1>1, <1>2, <1>3, <1>4

\* AsyncNet_Cleanup with the mutex.
LEMMA CleanupStep ==
  ASSUME Inv, NEW c \in Callers, Cleanup(c) \/ FinishCleanup(c)
  PROVE  Inv'
<1> USE DllAssumption
<1>1. CASE Cleanup(c)
  <2>1. manager \in Managers /\ UNCHANGED <<library, slot>>
    BY <1>1 DEF Inv, TypeOK, Slot, Cleanup, Managers
  <2>2. TypeOK'
    BY <1>1, <2>1 DEF Inv, TypeOK, Cleanup, InitMutexFree, Goto, Holding, library,
                      slot
  <2>3. Slot' /\ Users' /\ Loading' /\ UsesLiveManager' /\ NoOrphans'
    BY <1>1, <2>1 DEF Inv, TypeOK, Slot, Users, Loading, UsesLiveManager,
                      NoOrphans, Cleanup, InitMutexFree, Goto, Holding, library,
                      slot
  <2> QED
    BY <2>2, <2>3 DEF Inv
<1>2. CASE FinishCleanup(c)
  <2>1. /\ module = "loaded" /\ curl
        /\ \A d \in Callers : d # c => pc[d] \notin Holding
        /\ \A d \in Callers : pc[d] \in {"checked", "inside", "hung"} => overlapped[d]
    BY <1>2 DEF Inv, TypeOK, Users, Loading, FinishCleanup, Holding
  <2>2. TypeOK'
    <3>1. /\ manager' \in 0 .. made
          /\ held' \in [Callers -> 0 .. MaxManagers]
          /\ op' \in [Callers -> Operation \cup {None}]
      BY <1>2 DEF Inv, TypeOK, FinishCleanup, Return
    <3>2. /\ pc' \in [Callers -> {"idle", "enter", "checked", "inside", "hung"}
                                  \cup Holding]
          /\ \A d, e \in Callers : pc'[d] \in Holding /\ pc'[e] \in Holding => d = e
      BY <1>2, <2>1 DEF Inv, TypeOK, FinishCleanup, Return, Goto, Holding
    <3> QED
      BY <1>2, <3>1, <3>2 DEF Inv, TypeOK, FinishCleanup, library, workers
  <2>3. Slot' /\ Users' /\ Loading' /\ UsesLiveManager'
    BY <1>2, <2>1 DEF Inv, TypeOK, Slot, Users, Loading, UsesLiveManager,
                      FinishCleanup, Return, Goto, Holding, library, workers
  <2>4. NoOrphans'
    BY <1>2, <2>1 DEF Inv, TypeOK, NoOrphans, FinishCleanup, Return, Goto, Holding,
                      library, workers
  <2> QED
    BY <2>2, <2>3, <2>4 DEF Inv
<1> QED
  BY <1>1, <1>2

\* The workers.
LEMMA WorkerStep ==
  ASSUME Inv, NEW g \in Managers,
         TakeRequest(g) \/ EndTransfer(g) \/ MissShutdown(g) \/ EndWorker(g)
  PROVE  Inv'
<1> USE DllAssumption
<1>1. /\ UNCHANGED <<library, slot, control, overlapped>>
      /\ \A h \in Managers : running'[h] <= running[h] /\ running'[h] \in Nat
  BY DEF Inv, TypeOK, TakeRequest, EndTransfer, MissShutdown, EndWorker
<1>2. TypeOK'
  <2>1. CASE TakeRequest(g)
    BY <2>1 DEF Inv, TypeOK, TakeRequest, library, slot, control
  <2>2. CASE EndTransfer(g)
    BY <2>2 DEF Inv, TypeOK, EndTransfer, library, slot, control
  <2>3. CASE MissShutdown(g)
    BY <2>3 DEF Inv, TypeOK, MissShutdown, library, slot, control
  <2>4. CASE EndWorker(g)
    <3>1. running[g] \in 1 .. Threads
      BY <2>4 DEF Inv, TypeOK, EndWorker
    <3>2. /\ running' \in [Managers -> 0 .. Threads]
          /\ \A h \in Managers : busy[h] + lost[h] <= running'[h]
      BY <2>4, <3>1 DEF Inv, TypeOK, EndWorker
    <3> QED
      BY <2>4, <3>2 DEF Inv, TypeOK, EndWorker, library, slot, control
  <2> QED
    BY <2>1, <2>2, <2>3, <2>4
<1>3. Users' /\ Loading' /\ UsesLiveManager'
  BY <1>1 DEF Inv, Users, Loading, UsesLiveManager, library, slot, control
<1>4. Slot'
  <2>1. manager # 0 => manager \in Managers
    BY DEF Inv, TypeOK, Managers
  <2>2. \A h \in Managers : running[h] = 0 => running'[h] = 0
    BY <1>1
  <2> QED
    BY <1>1, <2>1, <2>2 DEF Inv, Slot, slot, control
<1>5. NoOrphans'
  BY <1>1 DEF Inv, TypeOK, NoOrphans, library, slot, control
<1> QED
  BY <1>2, <1>3, <1>4, <1>5 DEF Inv

\* Loading and unloading.
LEMMA LibraryStep ==
  ASSUME Inv, Attach \/ Detach \/ Unload
  PROVE  Inv'
<1>1. CASE Attach
  <2>1. TypeOK' /\ Slot' /\ Users' /\ UsesLiveManager'
    BY <1>1 DEF Inv, TypeOK, Slot, Users, UsesLiveManager, Attach, slot, workers,
                control
  <2>2. \A c \in Callers : pc[c] = "idle"
    BY <1>1 DEF Inv, Loading, Attach
  <2>3. ~initialized => \A g \in Managers : ~(running[g] > 0)
    BY <2>2 DEF Inv, Slot, NoOrphans, Managers
  <2>4. Loading' /\ NoOrphans'
    <3>1. \A g \in Managers : ~(running'[g] > 0)
      BY <1>1, <2>3 DEF Inv, Loading, Attach, workers
    <3> QED
      BY <1>1, <2>2, <3>1 DEF Inv, Loading, NoOrphans, Attach, slot, control
  <2> QED
    BY <2>1, <2>4 DEF Inv
<1>2. CASE Detach
  <2>1. TypeOK' /\ Slot' /\ Users' /\ UsesLiveManager' /\ Loading'
    BY <1>2 DEF Inv, TypeOK, Slot, Users, Loading, UsesLiveManager, Detach, slot,
                control
  <2>2. ~initialized => \A g \in Managers : ~(running[g] > 0)
    BY <1>2 DEF Inv, Slot, NoOrphans, Detach, Managers
  <2>3. NoOrphans'
    BY <1>2, <2>2 DEF Inv, NoOrphans, Detach, slot, control
  <2> QED
    BY <2>1, <2>3 DEF Inv
<1>3. CASE Unload
  <2>1. \A c \in Callers : pc[c] = "idle"
    BY <1>3 DEF Inv, Loading, Unload
  <2>2. \A g \in Managers : running[g] = 0
    <3>1. \A g \in Managers : running[g] > 0 => g = manager
      BY <2>1 DEF Inv, NoOrphans
    <3> QED
      <4>1. \A g \in Managers : g # 0 /\ running[g] \in Nat
        BY DEF Inv, TypeOK, Managers
      <4>2. manager # 0 => running[manager] = 0
        BY <1>3 DEF Unload
      <4> QED
        BY <3>1, <4>1, <4>2
  <2> QED
    BY <1>3, <2>1, <2>2
       DEF Inv, TypeOK, Slot, Users, Loading, UsesLiveManager, NoOrphans, Unload,
           slot, workers, control
<1> QED
  BY <1>1, <1>2, <1>3
-----------------------------------------------------------------------------
(* The theorems.                                                           *)

LEMMA NextInv == Inv /\ [Next]_vars => Inv'
<1> SUFFICES ASSUME Inv, [Next]_vars PROVE Inv'
  OBVIOUS
<1>1. CASE UNCHANGED vars
  BY <1>1 DEF Inv, TypeOK, Slot, Users, Loading, UsesLiveManager, NoOrphans, vars,
              library, slot, workers, control
<1>2. CASE Next
  BY <1>2, CallStep, InitializeStep, CleanupStep, WorkerStep, LibraryStep
     DEF Next, Continue
<1> QED
  BY <1>1, <1>2

\* The invariant holds in every reachable state.
THEOREM Invariance == Spec => []Inv
BY InitInv, NextInv, PTL DEF Spec

\* The variables keep their types, and two functions never keep g_init_mutex
\* at the same time.
THEOREM TypeCorrect == Spec => []TypeOK
<1>1. Inv => TypeOK
  BY DEF Inv
<1> QED
  BY <1>1, Invariance, PTL

\* A call that found the DLL initialized uses a live manager unless another
\* thread has called AsyncNet_Cleanup meanwhile.
THEOREM LiveManager == Spec => []UsesLiveManager
<1>1. Inv => UsesLiveManager
  BY DEF Inv
<1> QED
  BY <1>1, Invariance, PTL

\* No worker outlives its manager, libcurl or the DLL, once cleaned up.
THEOREM WorkersJoined == Spec => []NoOrphans
<1>1. Inv => NoOrphans
  BY DEF Inv
<1> QED
  BY <1>1, Invariance, PTL
=============================================================================
