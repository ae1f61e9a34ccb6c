---------------------------- MODULE DllInterface ----------------------------
(***************************************************************************)
(* The exported functions and the life of the DLL (src/AsyncNetDLL.cpp):   *)
(* one manager behind a global pointer, one flag and one mutex, called by  *)
(* any number of threads.                                                  *)
(*                                                                         *)
(* A manager is a number, 0 for nullptr; its workers are counted, since    *)
(* nothing here tells them apart.  What the manager does in a call is the  *)
(* subject of NetworkManager: here a call of it returns, throws, which the *)
(* exported function turns into a code, or hangs.  A caller is             *)
(*   "idle"        outside the DLL                                         *)
(*   "enter"       about to lock g_init_mutex                              *)
(*   "checked"     past IsInitialized(), which has unlocked again          *)
(*   "inside"      in a member function of the manager it found            *)
(*   "hung"        there for ever                                          *)
(* or in the state of a function that keeps g_init_mutex:                  *)
(*   "starting"    AsyncNet_Initialize, in the manager's Initialize        *)
(*   "discarding"  AsyncNet_Initialize, in the destructor of a manager     *)
(*                 that failed to start                                    *)
(*   "joining"     AsyncNet_Cleanup, in Shutdown                           *)
(*                                                                         *)
(* The codes the functions return and the messages they leave for          *)
(* AsyncNet_GetLastError decide nothing and are left out, and so are the   *)
(* functions that only read them or a constant.                            *)
(***************************************************************************)
EXTENDS Integers

CONSTANTS
  Callers,      \* the threads of the program that loaded the DLL
  None,         \* "no function"
  Operations,   \* the kinds of exported functions they call
  Timeouts,     \* values of timeout_ms they give to AsyncNet_Initialize
  Faults,       \* what goes wrong, see Fault
  Threads,      \* worker_thread_count_ of a new manager
  MaxManagers   \* bound on the number of managers made

\* curl_global_init fails; memory, a curl handle or a thread is refused; a call
\* of the manager never returns; a worker misses notify_all().
Fault == {"curl", "start", "hang", "miss"}

ASYNCNET_DEFAULT_TIMEOUT == 5000

\* "Send" stands for the four functions that send a request, "Use" for the
\* others that use the manager.
Operation == {"Initialize", "Cleanup", "Send", "Use"}

ASSUME DllAssumption ==
  /\ None \notin Callers \cup Operation
  /\ Operations \subseteq Operation
  /\ Timeouts \subseteq Int
  /\ Faults \subseteq Fault
  /\ Threads \in Nat \ {0}
  /\ MaxManagers \in Nat

Managers == 1 .. MaxManagers

VARIABLES
  module,       \* the DLL: "absent", "loaded", "detaching", "gone"
  curl,         \* libcurl is initialized
  made,         \* number of managers made
  manager,      \* g_network_manager
  initialized,  \* g_initialized
  closing,      \* shutdown_flag_ of each manager
  limit,        \* CURLOPT_TIMEOUT of each, in seconds, 0 for none
  running,      \* worker threads of each that have not ended
  busy,         \* those that have taken a request
  lost,         \* those that missed the notification of Shutdown
  pc,           \* where each caller is
  op,           \* the function it is in
  held,         \* the manager it is inside of, or discards
  overlapped    \* ghost: another thread's Cleanup began during the call

library  == <<module, curl>>
slot     == <<made, manager, initialized>>
workers  == <<closing, limit, running, busy, lost>>
control  == <<pc, op, held>>
vars     == <<library, slot, workers, control, overlapped>>
-----------------------------------------------------------------------------
(* g_init_mutex and the pointer.                                           *)

Holding == {"starting", "discarding", "joining"}

\* Mutant: the lock_guard is missing.
InitMutexFree_NoLock == TRUE

InitMutexFree == \A c \in Callers : pc[c] \notin Holding

\* The manager a caller is inside of was freed, or never was.
Dangling(c) == pc[c] = "inside" /\ (held[c] = 0 \/ held[c] # manager)

\* Past the use of a freed manager nothing is known: the model ends.
Broken == \E c \in Callers : Dangling(c)

Goto(c, label) == pc' = [pc EXCEPT ![c] = label]

Return(c) ==
  /\ Goto(c, "idle")
  /\ op' = [op EXCEPT ![c] = None]
  /\ held' = [held EXCEPT ![c] = 0]

Begin(c, o) ==
  /\ module = "loaded"
  /\ pc[c] = "idle"
  /\ Goto(c, "enter")
  /\ op' = [op EXCEPT ![c] = o]
  /\ overlapped' = [overlapped EXCEPT ![c] = FALSE]
  /\ UNCHANGED <<library, slot, workers, held>>
-----------------------------------------------------------------------------
(* The functions that use the manager.                                     *)

IsInitialized(c) ==
  /\ pc[c] = "enter"
  /\ op[c] \in {"Send", "Use"}
  /\ InitMutexFree
  /\ \/ initialized /\ Goto(c, "checked") /\ UNCHANGED <<op, held>>
     \/ ~initialized /\ Return(c)
  /\ UNCHANGED <<library, slot, workers, overlapped>>

\* The arguments are looked at after the check.
InvalidArguments(c) ==
  /\ pc[c] = "checked"
  /\ Return(c)
  /\ UNCHANGED <<library, slot, workers, overlapped>>

\* g_network_manager-> is evaluated without the mutex.
EnterManager(c) ==
  /\ pc[c] = "checked"
  /\ Goto(c, "inside")
  /\ held' = [held EXCEPT ![c] = manager]
  /\ UNCHANGED <<library, slot, workers, op, overlapped>>

\* SendRequest signs the request, and so locks auth_mutex_ a second time.
LeaveManager(c) ==
  /\ pc[c] = "inside"
  /\ \/ Return(c)
     \/ /\ "hang" \in Faults
        /\ op[c] = "Send"
        /\ Goto(c, "hung")
        /\ UNCHANGED <<op, held>>
  /\ UNCHANGED <<library, slot, workers, overlapped>>
-----------------------------------------------------------------------------
(* AsyncNet_Initialize.                                                    *)

Clamp(ms) == IF ms <= 0 \/ ms > 60000 THEN ASYNCNET_DEFAULT_TIMEOUT ELSE ms

\* Mutant: g_initialized is set before the manager has started.
Initialize_FlagFirst(c, ms) ==
  /\ pc[c] = "enter"
  /\ op[c] = "Initialize"
  /\ InitMutexFree
  /\ ~initialized
  /\ made < MaxManagers
  /\ made' = made + 1
  /\ manager' = made + 1
  /\ initialized' = TRUE
  /\ limit' = [limit EXCEPT ![made + 1] = Clamp(ms) \div 1000]
  /\ Goto(c, "starting")
  /\ UNCHANGED <<library, closing, running, busy, lost, op, held,
                 overlapped>>

Initialize(c, ms) ==
  /\ pc[c] = "enter"
  /\ op[c] = "Initialize"
  /\ InitMutexFree
  /\ ~initialized
  /\ made < MaxManagers
  /\ made' = made + 1
  /\ manager' = made + 1
  /\ limit' = [limit EXCEPT ![made + 1] = Clamp(ms) \div 1000]
  /\ Goto(c, "starting")
  /\ UNCHANGED <<library, initialized, closing, running, busy, lost,
                 op, held, overlapped>>

\* The flag is set, or make_unique throws, as it does here at the bound; the
\* reset() of the handler then finds no manager.  A host that is no host is
\* turned away before the lock, which changes nothing.
InitializeRefused(c) ==
  /\ pc[c] = "enter"
  /\ op[c] = "Initialize"
  /\ InitMutexFree
  /\ initialized \/ "start" \in Faults \/ made = MaxManagers
  /\ Return(c)
  /\ UNCHANGED <<library, slot, workers, overlapped>>

StartManager(c) ==
  /\ pc[c] = "starting"
  /\ initialized' = TRUE
  /\ running' = [running EXCEPT ![manager] = Threads]
  /\ Return(c)
  /\ UNCHANGED <<library, made, manager, closing, limit, busy, lost, overlapped>>

\* Mutant: the destructor joins without setting shutdown_flag_.
StartFails_NoFlag(c) ==
  /\ pc[c] = "starting"
  /\ "start" \in Faults
  /\ \E n \in 0 .. Threads - 1 : running' = [running EXCEPT ![manager] = n]
  /\ held' = [held EXCEPT ![c] = manager]
  /\ manager' = 0
  /\ Goto(c, "discarding")
  /\ UNCHANGED <<library, made, initialized, closing, limit, busy,
                 lost, op, overlapped>>

\* The manager's Initialize returns false, with some of its threads started;
\* reset() clears the pointer and calls the destructor, which shuts it down.
StartFails(c) ==
  /\ pc[c] = "starting"
  /\ "start" \in Faults
  /\ \E n \in 0 .. Threads - 1 : running' = [running EXCEPT ![manager] = n]
  /\ closing' = [closing EXCEPT ![manager] = TRUE]
  /\ held' = [held EXCEPT ![c] = manager]
  /\ manager' = 0
  /\ Goto(c, "discarding")
  /\ UNCHANGED <<library, made, initialized, limit, busy, lost, op,
                 overlapped>>

FinishDiscard(c) ==
  /\ pc[c] = "discarding"
  /\ running[held[c]] = 0
  /\ Return(c)
  /\ UNCHANGED <<library, slot, workers, overlapped>>
-----------------------------------------------------------------------------
(* AsyncNet_Cleanup.                                                       *)

\* Mutant: the flag is cleared, the manager is left alone.
Cleanup_FlagOnly(c) ==
  /\ pc[c] = "enter"
  /\ op[c] = "Cleanup"
  /\ InitMutexFree
  /\ initialized' = FALSE
  /\ Return(c)
  /\ UNCHANGED <<library, made, manager, workers, overlapped>>

\* Shutdown sets the flag, notifies the workers and joins them.
Cleanup(c) ==
  /\ pc[c] = "enter"
  /\ op[c] = "Cleanup"
  /\ InitMutexFree
  /\ initialized
  /\ closing' = [closing EXCEPT ![manager] = TRUE]
  /\ overlapped' = [d \in Callers |-> overlapped[d] \/ d # c]
  /\ Goto(c, "joining")
  /\ UNCHANGED <<library, slot, limit, running, busy, lost, op, held>>

\* Mutant: the workers are not waited for.
FinishCleanup_NoJoin(c) ==
  /\ pc[c] = "joining"
  /\ manager' = 0
  /\ initialized' = FALSE
  /\ Return(c)
  /\ UNCHANGED <<library, made, workers, overlapped>>

FinishCleanup(c) ==
  /\ pc[c] = "joining"
  /\ running[manager] = 0
  /\ manager' = 0
  /\ initialized' = FALSE
  /\ Return(c)
  /\ UNCHANGED <<library, made, workers, overlapped>>

CleanupNothing(c) ==
  /\ pc[c] = "enter"
  /\ op[c] = "Cleanup"
  /\ InitMutexFree
  /\ ~initialized
  /\ Return(c)
  /\ UNCHANGED <<library, slot, workers, overlapped>>
-----------------------------------------------------------------------------
(* The workers of manager g.                                               *)

\* The flag is looked at before a request is taken, not while it is executed.
TakeRequest(g) ==
  /\ ~closing[g]
  /\ busy[g] + lost[g] < running[g]
  /\ busy' = [busy EXCEPT ![g] = @ + 1]
  /\ UNCHANGED <<library, slot, closing, limit, running, lost, control, overlapped>>

\* The answer has come, or the time limit has passed.
EndTransfer(g) ==
  /\ busy[g] > 0
  /\ busy' = [busy EXCEPT ![g] = @ - 1]
  /\ UNCHANGED <<library, slot, closing, limit, running, lost, control, overlapped>>

\* Shutdown notifies without worker_mutex_: a worker between its look at the
\* flag and its wait does not hear it.
MissShutdown(g) ==
  /\ "miss" \in Faults
  /\ closing[g]
  /\ busy[g] + lost[g] < running[g]
  /\ lost' = [lost EXCEPT ![g] = @ + 1]
  /\ UNCHANGED <<library, slot, closing, limit, running, busy, control, overlapped>>

\* A thread that ends needs the loader lock, which DllMain's caller holds.
EndWorker(g) ==
  /\ closing[g]
  /\ busy[g] + lost[g] < running[g]
  /\ module = "loaded"
  /\ running' = [running EXCEPT ![g] = @ - 1]
  /\ UNCHANGED <<library, slot, closing, limit, busy, lost, control, overlapped>>
-----------------------------------------------------------------------------
(* The DLL is loaded and unloaded.                                         *)

Attach ==
  /\ module = "absent"
  /\ \/ module' = "loaded" /\ curl' = TRUE
     \/ "curl" \in Faults /\ module' = "gone" /\ curl' = FALSE
  /\ UNCHANGED <<slot, workers, control, overlapped>>

\* FreeLibrary, with nobody in the DLL: DllMain runs before the destructors of
\* the globals do, and takes libcurl from the workers.
Detach ==
  /\ module = "loaded"
  /\ \A c \in Callers : pc[c] = "idle"
  /\ module' = "detaching"
  /\ curl' = FALSE
  /\ closing' = [g \in Managers |-> closing[g] \/ g = manager]
  /\ UNCHANGED <<slot, limit, running, busy, lost, control, overlapped>>

\* The destructor of g_network_manager joins the workers under the loader lock.
Unload ==
  /\ module = "detaching"
  /\ manager # 0 => running[manager] = 0
  /\ module' = "gone"
  /\ UNCHANGED <<curl, slot, workers, control, overlapped>>
-----------------------------------------------------------------------------
Init ==
  /\ module = "absent"
  /\ curl = FALSE
  /\ made = 0
  /\ manager = 0
  /\ initialized = FALSE
  /\ closing = [g \in Managers |-> FALSE]
  /\ limit = [g \in Managers |-> 0]
  /\ running = [g \in Managers |-> 0]
  /\ busy = [g \in Managers |-> 0]
  /\ lost = [g \in Managers |-> 0]
  /\ pc = [c \in Callers |-> "idle"]
  /\ op = [c \in Callers |-> None]
  /\ held = [c \in Callers |-> 0]
  /\ overlapped = [c \in Callers |-> FALSE]

\* What a caller does on its own once it is in a call.
Continue(c) ==
  \/ IsInitialized(c) \/ InvalidArguments(c) \/ EnterManager(c) \/ LeaveManager(c)
  \/ \E ms \in Timeouts : Initialize(c, ms)
  \/ InitializeRefused(c) \/ StartManager(c) \/ StartFails(c) \/ FinishDiscard(c)
  \/ Cleanup(c) \/ FinishCleanup(c) \/ CleanupNothing(c)

Next ==
  /\ ~Broken
  /\ \/ \E c \in Callers : Continue(c) \/ \E o \in Operations : Begin(c, o)
     \/ \E g \in Managers :
          TakeRequest(g) \/ EndTransfer(g) \/ MissShutdown(g) \/ EndWorker(g)
     \/ Attach \/ Detach \/ Unload

Spec == Init /\ [][Next]_vars

(***************************************************************************)
(* Every thread that can go on does, and a transfer with a time limit      *)
(* ends.  One without a limit ends if the server answers, which nobody     *)
(* promises.  Nothing is assumed of the callers outside the DLL.           *)
(***************************************************************************)
FairSpec ==
  /\ Spec
  /\ \A c \in Callers : WF_vars(~Broken /\ Continue(c))
  /\ \A g \in Managers :
       /\ WF_vars(~Broken /\ EndWorker(g))
       /\ WF_vars(~Broken /\ limit[g] > 0 /\ EndTransfer(g))
  /\ WF_vars(~Broken /\ Unload)
-----------------------------------------------------------------------------
\* Every variable has the values the code can give it; no more workers are busy
\* or lost than run; at most one caller is in a function that keeps the mutex.
TypeOK ==
  /\ module \in {"absent", "loaded", "detaching", "gone"}
  /\ curl \in BOOLEAN /\ initialized \in BOOLEAN
  /\ made \in 0 .. MaxManagers /\ manager \in 0 .. made
  /\ closing \in [Managers -> BOOLEAN]
  /\ limit \in [Managers -> Nat]
  /\ running \in [Managers -> 0 .. Threads]
  /\ busy \in [Managers -> Nat] /\ lost \in [Managers -> Nat]
  /\ \A g \in Managers : busy[g] + lost[g] <= running[g]
  /\ pc \in [Callers -> {"idle", "enter", "checked", "inside", "hung"}
                          \cup Holding]
  /\ op \in [Callers -> Operation \cup {None}]
  /\ held \in [Callers -> 0 .. MaxManagers]
  /\ overlapped \in [Callers -> BOOLEAN]
  /\ \A c, d \in Callers : pc[c] \in Holding /\ pc[d] \in Holding => c = d

\* Only a Cleanup by another thread takes the manager from a call that found
\* the DLL initialized: an Initialize that fails, is repeated or is late does
\* not, and no call goes on with the manager of an earlier life.
UsesLiveManager ==
  \A c \in Callers :
    pc[c] \in {"checked", "inside", "hung"} /\ ~overlapped[c]
      => /\ manager # 0
         /\ pc[c] # "checked" => held[c] = manager

\* No worker thread outlives its manager, or works without libcurl or in a DLL
\* that is gone once Cleanup has been called.
NoOrphans ==
  \A g \in Managers : running[g] > 0 =>
    /\ \/ g = manager
       \/ \E c \in Callers : pc[c] = "discarding" /\ held[c] = g
    /\ module # "gone"
    /\ ~initialized => curl

\* A call returns, however the calls of other threads fall around it, unless a
\* worker or a call is stuck for one of the reasons named here.
Stuck ==
  \/ Broken
  \/ \E c \in Callers : pc[c] = "hung"
  \/ \E g \in Managers : lost[g] > 0 \/ (busy[g] > 0 /\ limit[g] = 0)

CallsReturn ==
  \A c \in Callers : pc[c] # "idle" ~> pc[c] = "idle" \/ Stuck

\* The DLL can be unloaded once Cleanup has been called.
UnloadReturns == module = "detaching" /\ ~initialized ~> module = "gone"

\* "零阻塞通信：完全异步的网络请求，不阻塞MT4主线程": no exported function waits
\* for a transfer.
NoCallWaitsForTransfer ==
  \A c, d \in Callers :
    pc[c] = "enter" /\ pc[d] = "joining" => busy[manager] = 0
=============================================================================
