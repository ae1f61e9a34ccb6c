# AsyncNetDLL in TLA+

AsyncNetDLL is a Windows DLL that lets an MT4 expert advisor send HTTP requests
without blocking: exported C functions hand requests to a manager, worker threads
perform them over pooled curl handles, and the answers are fetched later. This
directory models the parts of it in which threads meet, checks them with TLC on
small instances, and proves the main results with TLAPS for every instance.

    tlc -config queue_core.cfg MCRequestQueue       model-check one instance
    tlapm RequestQueueProofs.tla                    check the proofs of a component

The names of runs, properties, mutants and theorems, and the source lines of each
definition, are in `PROJECT.json`.

## 1. The system

| Component | State | Operations | Who calls it |
|---|---|---|---|
| **Request types** (`RequestQueue.h/.cpp`) | none | `GetRequestPriority`, `RequestComparator` | the queue |
| **RequestQueue** | the heap `queue_`, per-type and total counters, `max_size_`, `drop_on_full_`; `queue_mutex_`, `stats_mutex_`, `queue_cv_` | `Push`, `Pop`, `PopTimeout`, `Clear` (two forms), `SetMaxSize`, `SetDropOnFull`, `GetStatistics`, `ResetStatistics`, `Shutdown`; `QueueFactory` builds one | callers push, workers pop |
| **ConnectionPool** | `connections_`, the FIFO of pointers `available_connections_`, `active_count_`, limits; `pool_mutex_` | `AcquireHandle`, `ReleaseHandle`, `CleanupExpiredConnections`, `InvalidateHandle`, `Resize`, two setters of limits, `CleanupAll` | workers; `SetConfig` |
| **AsyncNetworkManager** | the three components it owns, credentials (`auth_mutex_`), worker threads with `worker_mutex_`/`worker_cv_`, flags `shutdown_flag_` and `paused_flag_`, `next_request_id_`, statistics | `SendRequest`, `SetAuth`, `SetConfig`, `Pause`, `Resume`, `ClearQueue`, `Shutdown`, `WorkerThread`, `ExecuteRequest`, responses and statistics | the exported functions |
| **ResponseQueue** | a queue per type, the latest response per type, counters, a cleanup thread with its flag; `queue_mutex_`, `cache_mutex_` | `Push`, `Pop`, `PopAll`, `GetResponse`, `ProcessCompleted`, three clears, `SetConfig`, `GetStatistics`, `ResetStatistics`, `Shutdown` | workers push, callers read |
| **Response handlers, dispatcher, factory** | registered handlers | `DispatchResponse` | nobody in the library |
| **DLL interface** | `g_network_manager`, `g_initialized` (`g_init_mutex`), `g_last_error` | the exported `AsyncNet_…` functions, `DllMain` | the host program, from any of its threads |
| **HMACUtils, Base64, strings, JSON** | none | hashes (Windows crypto), hex, Base64, URL and JSON escapes, splitting and replacing | signatures and URLs |

How they interact. `SendRequest` builds a request, signs its URL under
`auth_mutex_`, pushes it (the queue's own lock) and notifies `worker_cv_`. A worker
waits on `worker_cv_` under `worker_mutex_`, looks at the pause flag again, pops
while it still holds `worker_mutex_`, and then, with no lock, acquires a handle,
performs the transfer, releases the handle and, if the attempt failed and the type
allows it, sleeps and pushes a copy of the request again. It pushes a response in
every case. `Shutdown` sets a flag, notifies, joins the workers and frees the
queues. The only information that crosses threads without a lock is the flags, the
atomic counters and the notifications, which is where most of the hazards are.

### What is hard, and what makes each part correct

* **RequestQueue.** Two mutexes taken in two orders; one condition variable for two
  kinds of waiters with `notify_one`; a wait that is re-entered after another thread
  took the room; eviction at the limit. Correct means: the counters (which
  `GetLength(type)` and the drop decision read) agree with the heap, no accepted
  request disappears unaccounted, requests are served in order, nothing enters
  beyond the capacity, nobody waits for ever.
* **ConnectionPool.** The clock is read several times in one critical section and
  two limits are written without the lock, so a connection may be valid in one half
  of a call and not in the other; the available queue holds bare pointers. Correct
  means: a handle has one user, nothing is leaked or freed under a user, the active
  count is exact, the limit holds, and `nullptr` means the pool is really used up.
* **AsyncNetworkManager.** Notifications sent without the mutex race with waits; a
  retry makes a copy of a request its worker still holds; the queue may refuse the
  retry; pause and shutdown arrive between any two steps. Correct means: a request
  has one owner, is never lost silently and never repeated after a success it has
  reported, pause stops the workers, shutdown returns.
* **ResponseQueue.** `Push` keeps a bare pointer to a response that it has given away;
  it updates the queue and the cache under two mutexes, one after the other; the
  workers leave `received_time` unset, so old and new responses stand in one queue in
  no order of age; a query locks a mutex its caller holds; the destructor waits for a
  thread that sleeps. Correct means: each response is handed out, cleared or counted as
  expired; the responses of a type leave in the order of their arrival; the cache shows
  the newest; what has expired goes; shutdown returns.
* **DLL interface.** `IsInitialized()` releases the mutex before the manager is used,
  while `AsyncNet_Cleanup` may destroy it; `AsyncNet_Initialize` may fail half-way with
  threads running; both keep the mutex while they join threads; the DLL may be unloaded
  with a manager alive. Correct means: a call uses the manager it found, no worker
  outlives its manager, its library or the DLL, every call returns.
* **Codecs.** An accumulator that overflows on purpose, a search that goes on behind
  what it replaced, parsers that look for characters instead of structure. Correct
  means: decoding undoes encoding, and each function agrees with its definition.

`PROJECT.json` lists these hazards line by line, with the properties that would catch
the code going wrong there. Where the code does go wrong, in a way that no statement of
the repository denies, no property can hold: such a hazard has a note instead, and
section 5 says what happens.

## 2. The modules

| Module | Content |
|---|---|
| `RequestTypes` | types, priorities, the comparator, and `Top`: what the heap may return |
| `PriorityBuffer` | abstract specification: a bounded buffer served in priority order |
| `RequestQueue` | the queue, one action per critical section; implements `PriorityBuffer` |
| `ConnectionPool` | the pool, split where the clock or a limit may change |
| `NetworkManager` | callers, workers and shutdown; uses the queue through `PriorityBuffer` |
| `ResponseBoard` | abstract specification: per type a bounded queue in the order of arrival whose responses grow old, and one response on display |
| `ResponseQueue` | the response queue and its cleanup thread; implements `ResponseBoard` |
| `DllInterface` | the exported functions, the life of the manager, its workers and the DLL |
| `Codecs` | pure functions: hex, URL, Base64, splitting, replacing, JSON |
| `MC…` | the data and the symmetry sets of the instances; `MCCodecs` also the properties |
| `…Proofs` | theorems and proofs about the module they extend; `CodecsProofs` and `Base64Proofs` are about `Codecs` |
| `Recursion` | lemmas on induction, loops, scans and flattened sequences, on which those two rest |

### RequestQueue

An action is a critical section; `pc` says where a thread is between two of them, and
the holder of each mutex is read off `pc`. `Push` ends at `"notify"`, since
`queue_cv_.notify_one()` comes after the unlock; `Pop` and `PopTimeout` go through
`"stats"`, where they hold `queue_mutex_` and ask for `stats_mutex_`, and then
`"notify"`; `GetStatistics` goes through `"haveStats"`, where it holds `stats_mutex_`
and asks for the other. Waits may end by notification, spuriously, or by their
deadline, and each goes back to the predicate. `Clear` notifies while it holds the
lock, `Shutdown` a second time after releasing it (`"shutdown"`).

Abstractions. The heap is a set of requests with `Top`, its possible next elements:
those that compare equal come out in any order, as from a heap. `pop()` after
`top()` was moved from removes that element. The wait times (doubles that only feed
an average) are left out. `ResetStatistics` is one step, though its stores are
separate atomics: what is observed between two of them is not distinguished. The
per-type counters are mathematical integers, since the code cannot reach the limits
of an `int` with a queue of at most 1000. `evicted`, `cleared` and `forgotten` are
ghosts: they count what the code does not, the last of them what a reset made the
counters forget, so that conservation can be stated with resets.

### ConnectionPool

A `ConnectionInfo` and its curl handle, which are allocated and freed together, are
one address of `Handles`; addresses are reused. The FIFO of available pointers is a
set ordered by age, because a pointer enters it with `last_used = now`; pointers of
equal age may come in either order, which allows more than the FIFO does.
`AcquireHandle` is three kinds of step (filter the available queue, sweep
`connections_`, pick in a loop), because `Tick` and the unlocked setters may come
between them; `pool_mutex_` is held throughout. `ReleaseHandle` tests
`IsConnectionValid`, whose age part is true there since `last_used` was just set.
When memory is freed that a worker or the available queue points to, the ghost
`broken` is set and the model ends: from there on the code's behaviour is undefined.
Not modelled: curl options, `total_created_`, `total_reused_`.

### NetworkManager

The queue is `PriorityBuffer` (in the dropping mode, the default); what `Push` may do
when it is full is `Displace` or being turned away. The pool is the number of handles
out, since `AcquireHandle` fails only when the limit is reached or `curl_easy_init`
fails; with a limit that `SetConfig` has lowered, connections of the earlier limit
may still be given out, so `AcquireHandle` is enabled below any configured limit. A
worker's predicate is evaluated in one step (it reads two atomics and the length of
the queue); the step from a false predicate to the wait is a separate one, and that
is where notifications are lost. `SetConfig`'s two critical sections are one step, as
no step reads both limits. A request's id and creation time come from one counter,
since only the order of creation matters. `stats` has the numbers of attempts, successes
and failures of each type; `UpdateStatistics` is part of the step that ends an attempt,
as nothing but `GetStatistics` reads them. `auth` is whether all three credentials are set.

`SendRequest` has undefined behaviour in two places. Locking `auth_mutex_` a second
time returns or hangs, by the constant `Relock` (the MinGW builds hang). Reading the
id through the moved-from pointer would normally crash; `ReturnId` continues as if a
value had been read, so that the rest of the program can be examined. Once `Shutdown`
has freed the queues, calls that use them are no longer enabled (`DllInterface` has
that race).

Ghosts: `accepted`, `lost` (displaced, refused as a retry, cleared, freed by
`Shutdown`), `tries` (how each attempt ended), `sincePause` (requests taken since
`Pause`) and `missed` (a notification fell between a worker's predicate and its wait).

### ResponseQueue

An action is a critical section. `Push` is three: the queue (`Push`), the cache
(`UpdateCache`) and the statistics (`UpdateStatistics`), the last two through the bare
pointer `pushing[p]`. `GetResponse` is two, the cache (`GetLatestResponse`) and the
queue (`Pop`); a hit in the cache changes nothing and is not a step. The memory of a
response lives while it is in its queue, or with the reader that popped it
(`Alive`); a pusher that reads it later sets `broken`, and there the model ends.
Responses are records of their number in the order of pushing, their type and their
time; `received` is 0, the boot of the machine, when the constructor without a time
was used, which is the one the workers use. The steady clock ticks at any moment.
`ClearExpired` reads it for every response and may take a while: the step lets the clock
go on, removes all that was expired before it, none that is not expired after it, and of
those in between any (the readings are in the order of the queue, which is not kept).
The cleanup thread is four places of its loop; its sleep is a step.

`ResponseBoard` sees the queues, what is on display, what the readers hold, the clock and
the configuration. A response leaves a queue in four ways only: handed out as the first
of its type (`Hand`, or with all of its type, `HandAll`), displaced by a new one as the
oldest of a full queue (`Deliver`), too old (`Expire`), or cleared (`Discard`).

`GetStatistics` locks `queue_mutex_` twice and hangs where `Relock` says so; where it
does not, it only reads. Left out: the flag `processed` and the counters only statistics read, so that
`ProcessCompleted` changes nothing here; the status and the contents of a response
(`GetResponse` pops whatever the status is); limits of 0 and less, at which the
eviction loop is undefined; and that `config_` is read without `queue_mutex_` (by
`GetLatestResponse`, twice, and by the cleanup thread): a step reads one configuration.
Ghosts: `arrived`, `newest` and `overlapped` (which push of a type was last, and whether
it began between the two sections of another) and `untold` (responses popped or cleared,
for which there is no counter, corrected by the copies that expire in the cache and are
counted a second time).

### DllInterface

A manager is a number, its workers are counted (`running`, of which `busy` have a
request and `lost` have missed the notification of `Shutdown`). A call of a member
function returns, throws, which the exported function turns into a code, or hangs
("Send" only: the relocked mutex of `NetworkManager`). `IsInitialized`, the check of
the arguments and the evaluation of `g_network_manager->` are separate steps, since
the mutex is free between them. `AsyncNet_Initialize` and `AsyncNet_Cleanup` keep the
mutex from "enter" to their return: `StartManager` or `StartFails` with some threads
started, then the destructor (`FinishDiscard`); `Cleanup`, then `FinishCleanup` when
all workers have ended. `Attach`, `Detach` and `Unload` are
`DllMain` and, after it, the destructors of the globals in a call of `FreeLibrary`. A
thread cannot end while another holds the loader lock (`EndWorker`), which is a fact
of Windows and not in the sources.

Left out: return codes, `g_last_error`, the functions that only read a constant, and
copies into buffers. `join` is assumed not to throw, so that the `catch` of `Cleanup`
is dead. A worker may take a request whenever it runs (`TakeRequest`), with no regard
to queues. `MaxManagers` bounds the lives of the manager; at the bound `make_unique`
throws, as it does when memory is short. The model ends when a call is inside a
manager that is gone (`Broken`).

### Codecs

Texts are sequences of codes 0 to 255. Each operator is one function of
`HMACUtils.cpp`. Its loops have three forms, none of which is a recursive operator, so
that they can be reasoned about: what a loop over all bytes appends for each is an
element of a sequence that is flattened; a loop that moves its index by itself is a
`Scan`, given what position `i` appends and where the loop goes on; a loop that
carries a state is a function from the number of rounds to the state after them.
`ReplaceEach` counts one round for each character of the text: the code's loop ends
after no more, and further rounds find nothing.

The accumulator of `Encode` and `DecodeToBytes` is shifted and never masked, as in the
code, modulo the constant `Word`. The code's is 2^32, where the model's remainder is
the `int` read as unsigned; the shifts and masks that read it do not see the sign.
`WordAssumption` asks for a multiple of 4096, since the bits that are read again are
among the low twelve. `letters` in `UrlEncode` is the set of codes above 127 that
`isalnum` takes for letters, which the standard leaves open for negative `char`s.

## 3. The runs

| Run | Instance | What it shows |
|---|---|---|
| `queue_core` | 2 producers, 1 consumer, 1 admin; sizes 1 to 3; both modes; requests that tie; every operation | the counters match the heap, every accepted request is accounted for, the queue implements `PriorityBuffer` |
| `queue_wakeup` | 3 producers, 2 polling consumers, 1 admin; blocking mode | a waiting producer is never forgotten, every blocked `Push` returns |
| `pool_core` | 3 workers, 3 addresses, limits 1 to 3, all maintenance, failing `curl_easy_init` | exclusive use, no leak, exact count, growth within the limit, `nullptr` only when busy |
| `manager_retries` | 1 caller, 2 workers, 2 requests, a queue of 1, limits 1 and 2, timeouts, failing connections, shutdown | one owner, nothing vanishes, a success the client has seen is the last attempt, retries are used up, statistics count each attempt once |
| `manager_live` | 1 caller, 2 workers, 2 requests that always fail, pause, clear, reconfiguration, shutdown | a pause admits at most one request; requests are taken and `Shutdown` returns unless a notification was missed |
| `manager_lost_request` | 1 caller, 1 worker | *violation*: a missed notification leaves a request in the queue |
| `manager_relock` | 1 caller with credentials | *violation*: `SendRequest` never returns |
| `response_core` | 2 pushers, 1 reader, 1 admin, the cleanup thread; every operation; limits 2 with and 1 without a timeout | every response is counted, the cache shows the newest unless pushes overlap, the queue implements `ResponseBoard` (order of handing out, eviction, exact expiry), what expires is swept, `Shutdown` returns |
| `response_born_expired` | 2 pushers that set no time | *violation*: a response is expired when it arrives |
| `dll_core` | 3 callers, 2 lives of the manager, 2 workers; time limits below a second, usual, out of range; failing starts, hanging calls, missed notifications | only a `Cleanup` by another thread takes a manager away, no worker is orphaned, calls and unloading end unless something is stuck for a reason named in `Stuck` |
| `dll_waits` | 2 callers, 1 worker, no faults | *violation*: a call waits for a transfer |
| `codecs` | every text of up to five of eleven characters | round trips, and agreement with bitwise and set-wise definitions |

Each property of a passing run has a mutant: a definition changed by a plausible slip
(a dropped `max`, a forgotten notification, `<=` for `<`, an entry not erased),
under which the run's property must fail.

**Bounds.** `MaxPushes` and `MaxRequests` bound the calls, `MaxAge` and `MaxClock` the
time, `MaxManagers` the lives of the manager. A queue of one to three places with
three pushes fills, displaces, refuses, blocks and drains. Two producers and a
consumer in any of its three operations let every pair of roles race; three producers
and two consumers, in the run on wake-ups, show that one waiting producer may overtake
another. Three connections and workers with limits 1 to 3 let the pool be full, shrink
under use and grow again; ages 0 to 2 with timeouts 0 and 1 make a connection valid in
one half of a call and expired in the next (the code's minimum of 60 seconds and of 10
requests is scaled down; the constants `MinTimeout` and `MinRequests` keep the
`std::max`). Two requests and two workers suffice for every double ownership, which
is a relation between two. Two pushes into response queues of one and two places
evict (from the queue of one), stand in line, overlap, are popped or cleared between the
sections of `Push`, and with a clock up to 2 and a timeout of 1 a response without a time
is expired on arrival while one with a time before it is not. Which of several responses
an eviction takes needs a third push, beyond the size of this run: that it is the oldest
is left to the proof of `BoardCorrect`. Three callers let a third one fall between the two that
race for the manager, and a second life shows that nobody goes on with the first. Texts
of five bytes go once round the groups of three bytes and four sextets and on to the
next; the eleven characters are one of each kind some function treats in its own way. `Word`
is 4096, the least the assumption allows, so that the accumulator overflows from the
second byte on.
The queue's, the pool's and the first manager's runs use symmetry over threads and
addresses; no run with liveness properties does. All runs set `CHECK_DEADLOCK FALSE`:
after the bounded calls are made the modelled threads rest, after `Shutdown` they are
gone, and the models end where memory is corrupted. That threads deadlock is found by
liveness properties instead.

**Fairness.** A thread that is inside a call and can go on does so, weakly: the
operating system schedules it. A wait with a deadline ends (`Timeout`), and so does the
sleep of the cleanup thread. Consumers, workers and the cleanup thread are loops, so
their next step is fair too; producers, callers, administrators, the clock and spurious
wake-ups are not. In `NetworkManager` a worker also gets
`worker_mutex_` if it is free again and again (strong fairness of `Lock`), since
other workers release it at the latest when they wait or have popped; no other mutex
needs it, because the calls that contend for the queues' and for `g_init_mutex` are
bounded in number, or leave it to whoever waits for it.
Transfers end: `CURLOPT_TIMEOUT` is set for each, so `Perform` is fair, on one
assumption. The option is set to `timeout_ms_ / 1000`, and `AsyncNet_Initialize`
accepts timeouts from 1 ms: below 1000 ms the quotient is 0, which curl takes as no
timeout at all, and a transfer whose server falls silent may last for ever (and with
it the `join` of `Shutdown`). The liveness results of `NetworkManager` are about
timeouts of a second or more; the default is five seconds. `DllInterface` computes the
quotient, is fair to `EndTransfer` only where it is positive, and has the other case
among the reasons of `Stuck`.

## 4. The proofs

The proofs hold for any numbers of threads, requests, responses, connections and lives
of the manager, and all limits, under the named assumptions on the constants: disjoint
sets of threads, well-typed requests, positive limits, a sentinel outside the values it
stands beside; and, because cardinalities count them, finitely many pushers and
consumers. Those about the codecs hold for texts of any length over any alphabet of
bytes, and for any width of the accumulator that `WordAssumption` allows.

**RequestQueueProofs.** `TypeInv` strengthens `TypeOK` with the finiteness of the
queue, without which cardinalities are not numbers. `Ownership` (a blocked
producer's request is nowhere else) is needed because a push of a request already in
the heap would change a counter and not the set. Every step of every thread is one of
a few kinds (`StepKinds`: a request enters, displaces another, leaves, is recorded,
is removed, nothing moves, the counters are reset), and `CountersCorrect` and
`RequestsConserved` are proved per kind, not per action, from cardinality lemmas.
`NoWakeupIsLost` assumes that neither `PopTimeout` nor `SetMaxSize` is called, so that
only producers wait and room appears only by a step that notifies. With `PopTimeout`
a notification meant for a producer may wake a consumer, and `SetMaxSize` makes room
and notifies nobody.
`ComparatorStrictWeakOrder` is what `std::priority_queue` requires of its comparator.
`QueueImplementsBuffer` shows that each step with all operations, resets included,
is a step of `PriorityBuffer` or leaves it unchanged.

**ConnectionPoolProofs.** `Partition`: the connections are those on offer and those in
use, disjointly; those in use correspond one to one to the workers that hold them, and
`active_count_` is their number. Exclusiveness alone is not inductive: that a released
handle is the worker's own, and that a popped one is nobody's, comes from the
partition. It holds until memory is freed that is still pointed to (`broken`).
`GrowthLimited` and `NullOnlyWhenBusy` are action properties from the same invariant.

**NetworkManagerProofs.** `ManagerInv` adds to `OneOwner` and `NothingVanishes` that ids
are unique and below `next_request_id_`, that what is queued or executed was accepted,
and that a worker that sleeps before a retry has retries left (`Ids`); and, for
pauses, that nobody is past the look at the flag once a request was taken after
`Pause` (`Pausing`), which rests on the workers popping under `worker_mutex_`. On top
of it `Attempts` orders the attempts of a request: whoever has it, the queue or a
worker, has it with a `retry_count` above those of all its attempts so far, which all
failed, and within its type's limit; a worker between the transfer and the retry has it
with a count that is the last attempt's and below the limit; a worker with a failure to
report has used up the attempts. With `OneOwner` this is inductive, since the only step
that adds an attempt is the owner's. `SuccessIsLast` and `FailureIsLast` follow, and
`StatisticsCorrect`, since each attempt is new and adds one to one cardinality.

**ResponseQueueProofs.** `Ids`: no number of a response is above `arrived`, and no two
pushers point to responses of the same number; `Elsewhere` is what all steps outside of
`Push` leave alone. `LatestCorrect`
is not inductive alone: `LatestInv` adds that, while pushes of a type do not overlap,
the response on its way to the cache is the newest of the type. `CountCorrect` is an
equation of cardinalities, kept by each kind of step: a push that evicts moves
responses from the queue to `expired`, the pusher that counts moves itself from those
under way to `total`. `BoardCorrect` maps the pushers that are about to update the
cache to the responses that are `arriving`, and what the readers hold to what was
`handed` out; that a reader who pops holds nothing before, from `TypeOK`, makes `Hand`
add exactly the response that leaves its queue. The board's clock and timeout are the
queue's, so that `Expire` and `Forget` are exact about what is too old.

**DllInterfaceProofs.** `Inv` adds to the type invariant how the pointer, the flag and
the function that keeps the mutex go together (`Slot`): a manager without the flag is
one that starts, a caller that joins has the flag set, one that discards has cleared the
pointer; that a call past the check has the flag set behind it or a `Cleanup` begun
meanwhile (`Users`); and that calls happen while the DLL and libcurl are there
(`Loading`). `LiveManager` and `WorkersJoined` are parts of it.

**Recursion.** The library's induction theorems take an operator as a parameter, which
the provers cannot instantiate. What they can use is that `<` is well-founded on the
naturals: `LeastElement` follows, and from it induction stated for *sets* of numbers
(`UpwardInduction`, `DownwardInduction`, `InductionFromAbove`), so that an induction
hypothesis is the membership in a set defined in the proof. A recursive function in
TLA+ is a `CHOOSE` and satisfies its equation only if some function does.
`LoopExists` and `ScanExists` build that function, by induction on the number of
rounds and on the distance from the end, and `FlattenRounds` and `FlattenIndex` do the
same for `FlattenSeq`: the element at an index is found by the offsets at which its
parts begin.

**CodecsProofs.** Round trips: what is appended for each byte is a word that the decoder
reads in one round (`ScanUndoesFlatten`), so that `HexRoundTrip`, `UrlRoundTrip` and
`EscapeRoundTrip` are a case distinction over one byte. `SplitCutsExactly`: by
induction from the end, what is cut from position `i` on is the rest of the text; that
no token holds the delimiter is that `Find` returned the first place. `ReplaceIsJoin`
has the invariant of the code's loop, `Reached`: the text is what is done, followed by
the untouched rest of the original from a position where `Split` starts a token; a round
moves one token and the replacement into what is done, and the search goes on behind
it. The number of rounds is bounded because each passes the pattern. `BuiltIsValid`
needs only the first and last characters. `PlainFieldsAreRead` computes the places of
the quotes, colons and keys in the object that is built (`Layout`, `QuotePlaces`): a key
between quotes stands at its own field, or where the first value reads like it, which is the
exception the statement makes. The patterns must not be empty, since with an empty one
the code's loops do not end. The theorems `Spec => []…` state the runs' invariants; those
in terms of `\A s \in Seq(Byte)` state more, since they are about every text, delimiter
and pattern and not the ones of a run.

**Base64Proofs.** The low twelve bits of `val` are those it would have without overflow
(`ShiftedBits`), and all that is read is among them (`LowBits`). `EncodeInv` is the
loop's invariant: after `i` bytes the `4 i \div 3` complete sextets are written, `valb` says
how many bits are not, and these are the tail of the last byte. `DecodeInv` is its
counterpart: after `j` characters the `3 j \div 4` complete bytes are written.
`Base64WritesTheBits` relates the sextets, defined by division of bytes, to `BitsOf`,
which numbers all bits of the data.

**Model-checked only.** Every safety invariant and every action property of the passing
runs is a theorem. What is about liveness stays with TLC: `BlockedPushReturns`,
`TakenUnlessMissed`, `CompletesUnlessMissed`, `ExpiredAreSwept`, `ShutdownReturns`,
`CallsReturn`, `UnloadReturns`, and the refuted `RequestIsTaken` and `SendReturns`, since
liveness under fairness and `ENABLED` are beyond the prover. What the decoders make
of texts that no encoder wrote is modelled and has no property.

## 5. What was found

Four violation runs, with the line of the code and the line it contradicts, are the
findings of `PROJECT.json`: the request that waits for a missed notification
(`AsyncNetworkManager.cpp:123`), `auth_mutex_` locked twice
(`AsyncNetworkManager.cpp:334`), responses that are expired when they arrive
(`AsyncNetworkManager.cpp:174`), and calls that block for the length of a transfer while
`AsyncNet_Cleanup` joins the workers (`AsyncNetDLL.cpp:522`).

Further behaviour is in the actions without a run of its own. The names are those of
the actions or, for reachable states, of the ghosts that mark them.

*RequestQueue.*
* The `notify_one` of `Pop` may wake a consumer in `PopTimeout` and leave a blocked
  producer waiting although there is room (`RequestQueue.cpp:128`).
* `GetStatistics` takes `stats_mutex_` before `queue_mutex_`, `Pop` the other way round:
  they can deadlock (`RequestQueue.cpp:194`; nobody in the library calls it).
* A full queue without low-priority requests refuses a high-priority one
  (`PushRefused`), against the comment at `src/RequestQueue.cpp:282`.
* `ResetStatistics` zeroes the counters that `GetLength(type)` answers from, whatever is
  queued (`forgotten`).

*ConnectionPool.*
* A connection that expires between the two clock readings of `AcquireHandle` is freed
  while the available queue points to it, and read (`broken`, `ConnectionPool.cpp:321`).
* After `Resize` to a smaller size, connections in use return to the pool above the
  limit (`ReleaseHandle` does not look at it).

*AsyncNetworkManager.*
* `SendRequest` returns `request->id` through the pointer it has moved from
  (`ReturnId`, `AsyncNetworkManager.cpp:125`).
* `Shutdown` can hang for the same reason a request can be left waiting
  (`CompletesUnlessMissed` is the part that holds).
* Nothing ever sets `REQ_STATUS_AUTH_ERROR`, so rejected credentials are retried
  (`ShouldRetry`), against the comment at `src/AsyncNetworkManager.cpp:421`.
* `heartbeat_sent`, "心跳发送次数" (`AsyncNetDLL.h:77`), also counts the attempts that got
  no connection and sent nothing (`AcquireFails`); a `PING` is counted nowhere.
* A transfer that times out after the server has acted on the request is sent again,
  like any timeout (`Perform`, `AsyncNetworkManager.cpp:247`): `SuccessIsFinal` is about
  the successes the client has seen.
* A retry that a full queue refuses is gone without a final response (`Retry`, `lost`,
  `AsyncNetworkManager.cpp:272`).
* An attempt that is queued again still pushes a response, with the status `PENDING`
  (`Retry`, then `Respond`), and may push it after the final response of the retry.
* `ExecuteRequest` sets `CURLOPT_TIMEOUT` after the pool did, so the limit for Wine of
  `ConnectionPool.cpp:277` has no effect; and with a timeout below a second there is none.

*ResponseQueue.*
* `Push` reads the response through a pointer after another thread may have freed it
  (`broken`, `ResponseQueue.cpp:83`).
* Of two overlapping pushes the older response may stay in the cache (`overlapped`,
  `ResponseQueue.cpp:86`), against "每种类型保留最新的一个" (`ResponseQueue.h:77`).
* `GetStatistics` locks `queue_mutex_` twice (`ResponseQueue.cpp:253`).
* `GetResponse` answers from the cache whatever the status is, so the `PENDING` response
  of an attempt that is retried is an answer; from the queue it drops what is not a
  success (`Pop`). The exported functions return the length, so that 0 is "no response"
  as well as an empty one, or a buffer of one byte.

*DLL interface.*
* A call that was past `IsInitialized()` when another thread called `AsyncNet_Cleanup`
  uses a null or freed manager (`Broken`, `AsyncNetDLL.cpp:37`).
* Unloading the DLL without a `Cleanup` joins the workers under the loader lock, which
  they need to end: it never returns (`Unload`, `AsyncNetDLL.cpp:55`).
* "清理时忽略异常，但记录错误" (`AsyncNetDLL.cpp:530`) records nothing: the
  `SetLastError("")` after it erases the message.

*Codecs.*
* `GetString` takes the first quoted text equal to the key, also when it is a value; the
  value ends at its first escaped quote and is not unescaped.
* `IsValidBase64` accepts `AB=C`, at whose `=` `DecodeToBytes` stops without a word.
* `HexToBytes` skips pairs that are no hex digits.
* `isalnum` of a negative `char` is undefined; the round trip holds for either answer.
* `Split` and `ReplaceAll` never end with an empty delimiter or pattern.

## 6. Plan

Done: every component that keeps state, with its runs, abstract specifications for the
two queues, and proofs of all safety properties, those of the pure functions included.
What is left, in the order of its use:

1. **Manager with ResponseQueue**: `responses` replaced by the queue, to relate the
   attempts of a request to what `GetResponse` answers in the end.
2. **Manager under the DLL interface**: `DllInterface` counts workers; a composition would
   let `NetworkManager` run in each of its lives.

## 7. Not modelled, and why

The response handlers, the dispatcher and the factory are called by nothing in the
library, and their bodies are empty. The curl callbacks append to strings local to one
transfer. Curl itself, the Windows crypto functions and the operating system's threads
are external: a transfer is its possible outcomes. Of `HMACUtils.cpp` the hashes,
nonces, `Format`, `TimeUtils`, the conversions of JSON fields to numbers and of letters
to a case, and the one-line predicates on prefixes are left out: they call external
functions or are one library call. Of the manager's statistics the sums of bytes, the
average latencies and the copies of the pool's counters are left out. Wine detection,
curl options, log and error texts and URL layout have no effect on the control modelled here. Build scripts and documents
contain no behaviour.
