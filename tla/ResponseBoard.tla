--------------------------- MODULE ResponseBoard ---------------------------
(***************************************************************************)
(* What the response queue promises its users, without threads and locks:  *)
(* for each request type a bounded queue, which hands out the response     *)
(* that arrived first, gives up its oldest for a new one when it is full   *)
(* and loses a response otherwise only to age or to Clear; and beside it   *)
(* one response of the type on display, until it is old.                   *)
(***************************************************************************)
EXTENDS RequestTypes, Integers, FiniteSets

CONSTANTS Response,     \* records with the fields id, type and received
          NoResponse    \* "nothing on display"

VARIABLES content,      \* the responses in the queues
          latest,       \* the response on display, per type
          handed,       \* the responses that are with those who asked for them
          arriving,     \* the responses that have arrived and may go on display
          arrived,      \* the number of responses that have arrived
          capacity,     \* the number of responses kept per type
          timeout,      \* the age up to which a response is kept, 0 for any
          clock

vars == <<content, latest, handed, arriving, arrived, capacity, timeout, clock>>

Of(type) == {r \in content : r.type = type}

\* The n responses of S that arrived last.
Newest(S, n) == {r \in S : Cardinality({s \in S : s.id > r.id}) < n}

Expired(r, time) == timeout > 0 /\ time - r.received > timeout

\* What is on display, without the responses of some types.
Without(types) ==
  [ty \in RequestType |-> IF ty \in types THEN NoResponse ELSE latest[ty]]

Init == /\ content = {}
        /\ latest = [ty \in RequestType |-> NoResponse]
        /\ handed = {}
        /\ arriving = {}
        /\ arrived = 0
        /\ capacity \in Nat \ {0}
        /\ timeout \in Int
        /\ clock = 0

\* A response arrives behind all others; the oldest make room for it.
Deliver(r) ==
  /\ r.id = arrived + 1
  /\ r.received <= clock
  /\ arrived' = arrived + 1
  /\ arriving' = arriving \cup {r}
  /\ content' = (content \ Of(r.type)) \cup Newest(Of(r.type), capacity - 1) \cup {r}
  /\ UNCHANGED <<latest, handed, capacity, timeout, clock>>

\* A response that has arrived goes on display, once.
Show(r) ==
  /\ r \in arriving
  /\ latest' = [latest EXCEPT ![r.type] = r]
  /\ arriving' = arriving \ {r}
  /\ UNCHANGED <<content, handed, arrived, capacity, timeout, clock>>

\* The response of its type that arrived first is handed out.
Hand(r) ==
  /\ r \in content
  /\ \A s \in Of(r.type) : r.id <= s.id
  /\ content' = content \ {r}
  /\ handed' = handed \cup {r}
  /\ UNCHANGED <<latest, arriving, arrived, capacity, timeout, clock>>

HandAll(type) ==
  /\ content' = content \ Of(type)
  /\ handed' = handed \cup Of(type)
  /\ UNCHANGED <<latest, arriving, arrived, capacity, timeout, clock>>

\* Those who asked are done with some of what they got.
Finish ==
  /\ handed' \in SUBSET handed
  /\ UNCHANGED <<content, latest, arriving, arrived, capacity, timeout, clock>>

\* The responses of some types are discarded, those on display with them.
Discard(types) ==
  /\ content' = {r \in content : r.type \notin types}
  /\ latest' = Without(types)
  /\ UNCHANGED <<handed, arriving, arrived, capacity, timeout, clock>>

\* The types whose response on display is too old.
Stale(time) == {ty \in RequestType : /\ latest[ty] # NoResponse
                                     /\ Expired(latest[ty], time)}

\* While time goes on, all that was too old before goes, and nothing that is
\* not too old afterwards.
Expire ==
  /\ clock' \in Nat
  /\ clock' >= clock
  /\ content' \subseteq content
  /\ \A r \in content : /\ Expired(r, clock) => r \notin content'
                        /\ r \notin content' => Expired(r, clock')
  /\ \E types \in SUBSET Stale(clock') :
       /\ Stale(clock) \subseteq types
       /\ latest' = Without(types)
  /\ UNCHANGED <<handed, arriving, arrived, capacity, timeout>>

\* Somebody looks at what is on display and finds it too old.
Forget(type) ==
  /\ latest[type] # NoResponse
  /\ Expired(latest[type], clock)
  /\ latest' = Without({type})
  /\ UNCHANGED <<content, handed, arriving, arrived, capacity, timeout, clock>>

Configure ==
  /\ capacity' \in Nat \ {0}
  /\ timeout' \in Int
  /\ UNCHANGED <<content, latest, handed, arriving, arrived, clock>>

Tick ==
  /\ clock' \in Nat
  /\ clock' > clock
  /\ UNCHANGED <<content, latest, handed, arriving, arrived, capacity, timeout>>

Next ==
  \/ \E r \in Response : Deliver(r)
  \/ \E r \in arriving : Show(r)
  \/ \E r \in content : Hand(r)
  \/ \E type \in RequestType : HandAll(type) \/ Forget(type)
  \/ \E types \in SUBSET RequestType : Discard(types)
  \/ Finish
  \/ Expire
  \/ Configure
  \/ Tick

Spec == Init /\ [][Next]_vars
=============================================================================
