------------------------------ MODULE TraceJobs ------------------------------
(***************************************************************************)
(* JobStore of the trace decoder service: viewers ask for the decoding of a *)
(* transaction, viewers of the same transaction share one decode, and a     *)
(* bounded number of worker threads does the work.                          *)
(*                                                                          *)
(* The service is one JavaScript thread, so every method runs alone, but    *)
(* the promise chain of a decode is cut into steps that anything can fall   *)
(* between: the slot is claimed, the worker starts, it settles, its result  *)
(* is applied, the slot is given back.  A viewer may leave or lapse, a      *)
(* snapshot may expire and the service may close at each of these points.   *)
(*                                                                          *)
(* Job numbers follow the insertion order of `entries`.  Elapsed time is    *)
(* kept as what the code derives from it: a lease that is past leaseMs, a   *)
(* finished entry that is past its expiry.                                  *)
(***************************************************************************)
EXTENDS Integers, FiniteSets, FiniteSetsExt

CONSTANTS
  Keys,           \* transactions, with their chain and chain ids
  Ids,            \* names of leases; a released name may be used again
  Concurrency,    \* decodes at a time
  MaxJobs,        \* entries at a time
  MaxClients,     \* leases at a time
  MaxResultBytes, \* the largest result that is kept
  MaxCacheBytes,  \* all results that are kept
  Sizes,          \* the sizes of results
  MaxCreated      \* bound on the entries ever made

ASSUME JobsAssumption ==
  /\ IsFiniteSet(Ids)
  /\ {Concurrency, MaxJobs, MaxClients, MaxCreated} \subseteq Nat \ {0}
  /\ {MaxResultBytes, MaxCacheBytes} \subseteq Nat
  /\ Sizes \subseteq Nat

Jobs == 1..MaxCreated
None == 0

Active   == {"queued", "running"}
Finished == {"complete", "failed"}
States   == {"none", "cancelled"} \cup Active \cup Finished

(* How far the promise chain of a decode has come: the slot is claimed, the *)
(* worker runs, it has settled and is being terminated, what it returned    *)
(* has been dealt with.                                                     *)
Stages == {"idle", "claimed", "working", "settled", "stored"}

VARIABLE store

Stores ==
  [entries : SUBSET Jobs,                \* entries, oldest first
   byKey   : [Keys -> Jobs \cup {None}], \* byKey
   lease   : [Ids -> Jobs \cup {None}],  \* clients, and entry.clients
   late    : SUBSET Ids,                 \* leases past leaseMs
   state   : [Jobs -> States],           \* entry.state
   key     : [Jobs -> Keys \cup {None}], \* entry.key
   bytes   : [Jobs -> Nat],              \* entry.bytes
   expired : SUBSET Jobs,                \* entries past entry.expires
   stage   : [Jobs -> Stages],           \* the promise chain of a decode
   running : 0..Concurrency,             \* slots in use
   created : 0..MaxCreated,              \* entries made so far
   closed  : BOOLEAN]

Init ==
  store = [entries |-> {},
           byKey   |-> [k \in Keys |-> None],
           lease   |-> [id \in Ids |-> None],
           late    |-> {},
           state   |-> [j \in Jobs |-> "none"],
           key     |-> [j \in Jobs |-> None],
           bytes   |-> [j \in Jobs |-> 0],
           expired |-> {},
           stage   |-> [j \in Jobs |-> "idle"],
           running |-> 0,
           created |-> 0,
           closed  |-> FALSE]

-----------------------------------------------------------------------------
(* The methods, as functions of the store they are called on.               *)

Clients(s)    == {id \in Ids : s.lease[id] # None}
Viewers(s, j) == {id \in Ids : s.lease[id] = j}
IsActive(s, j) == s.state[j] \in Active

(* Entries that may make room: nobody views them and nothing works on them. *)
Unused(s) == {j \in s.entries : Viewers(s, j) = {} /\ ~IsActive(s, j)}

(* Fault: the key is forgotten whichever entry it names.                    *)
RemovedKeyFault(s, js) ==
  [s EXCEPT
     !.entries = @ \ js,
     !.byKey = [k \in Keys |->
                  IF \E j \in js : s.key[j] = k THEN None ELSE @[k]]]

(* remove: the key is forgotten only if it still names the entry.           *)
Removed(s, js) ==
  [s EXCEPT
     !.entries = @ \ js,
     !.byKey = [k \in Keys |-> IF @[k] \in js THEN None ELSE @[k]]]

(* Fault: any viewer who leaves cancels the decode.                         *)
AbandonedAnyFault(s, ids) ==
  {j \in Jobs : IsActive(s, j) /\ Viewers(s, j) \cap ids # {}}

(* Active jobs that only these leases were viewing.                         *)
Abandoned(s, ids) ==
  {j \in Jobs : /\ IsActive(s, j)
                /\ Viewers(s, j) # {}
                /\ Viewers(s, j) \subseteq ids}

(* release: a job whose last viewer left is cancelled and removed.  Its     *)
(* worker, if it has one, is stopped; the slot is not free before that.     *)
Without(s, ids) ==
  LET gone == Abandoned(s, ids)
      t == [s EXCEPT
              !.lease = [id \in Ids |-> IF id \in ids THEN None ELSE @[id]],
              !.late  = @ \ ids,
              !.state = [j \in Jobs |-> IF j \in gone THEN "cancelled" ELSE @[j]],
              !.stage = [j \in Jobs |->
                 IF j \in gone /\ @[j] = "working" THEN "settled" ELSE @[j]]]
  IN  Removed(t, gone)

(* sweep: leases that ran out, then results nobody views that ran out.      *)
Swept(s) ==
  LET t == Without(s, s.late) IN Removed(t, Unused(t) \cap t.expired)

Queued(s) ==
  {j \in s.entries : s.state[j] = "queued" /\ Viewers(s, j) # {}}

(* Fault: the limit is not looked at.                                       *)
ClaimsAllFault(s) == {Queued(s)}

(* The next jobs to run: the oldest, as many as there are free slots.       *)
Claims(s) ==
  {js \in SUBSET Queued(s) :
     /\ s.running + Cardinality(js) <= Concurrency
     /\ js # Queued(s) => s.running + Cardinality(js) = Concurrency
     /\ \A j \in js, i \in Queued(s) \ js : j < i}

(* pump: free slots are claimed at once.  The set has one member.           *)
Pumped(s) ==
  IF s.closed THEN {s} ELSE
    {[s EXCEPT
        !.running = @ + Cardinality(js),
        !.state = [j \in Jobs |-> IF j \in js THEN "running" ELSE @[j]],
        !.stage = [j \in Jobs |-> IF j \in js THEN "claimed" ELSE @[j]]] :
     js \in Claims(s)}

Oldest(js) == {j \in js : \A i \in js : j <= i}

(* What a new entry evicts: the oldest unused one, if there is no room.     *)
Evicted(s) ==
  IF Cardinality(s.entries) < MaxJobs THEN s
  ELSE Removed(s, Oldest(Unused(s)))

(* The entry a request may join: one at work, or a snapshot that is good    *)
(* enough for it.                                                           *)
Joinable(s, k, refresh) ==
  /\ s.byKey[k] # None
  /\ \/ IsActive(s, s.byKey[k])
     \/ /\ ~refresh
        /\ s.state[s.byKey[k]] # "failed"
        /\ s.byKey[k] \notin s.expired

Joined(s, id, j) == [s EXCEPT !.lease[id] = j]

Queue(s, j, k) ==
  [s EXCEPT !.entries = @ \cup {j}, !.byKey[k] = j, !.created = j,
            !.state[j] = "queued", !.key[j] = k]

Used(s, js) == MapThenSumSet(LAMBDA j : s.bytes[j], js)

(* What a result of n bytes evicts: unused results, oldest first, while it  *)
(* does not fit.                                                            *)
Trimmed(s, n) ==
  LET results == {j \in Unused(s) : s.state[j] = "complete"}
  IN  {j \in results :
         Used(s, s.entries \ {i \in results : i < j}) + n > MaxCacheBytes}

Failed(s, j) == [s EXCEPT !.state[j] = "failed"]

(* Fault: a result is kept without making sure that it fits.                *)
AppliedNoLimitFault(s, j, n) ==
  IF n > MaxResultBytes THEN Failed(s, j)
  ELSE [Removed(s, Trimmed(s, n)) EXCEPT
          !.state[j] = "complete", !.bytes[j] = n]

(* A result of n bytes is applied to its job, if that is still running.     *)
Applied(s, j, n) ==
  IF n > MaxResultBytes THEN Failed(s, j)
  ELSE LET t == Removed(s, Trimmed(s, n))
       IN  IF Used(t, t.entries) + n > MaxCacheBytes THEN Failed(t, j)
           ELSE [t EXCEPT !.state[j] = "complete", !.bytes[j] = n]

-----------------------------------------------------------------------------
(* Requests.                                                                *)

(* sweep on its own: the timer, a status or result request, or a request    *)
(* that is rejected.                                                        *)
Sweep == store' = Swept(store)

(* create, accepted: a lease on an entry that exists, or on a new one.      *)
Create(id, k, refresh) ==
  LET s == Swept(store)
      t == Evicted(s)
      j == store.created + 1
  IN  /\ s.lease[id] = None
      /\ ~s.closed
      /\ Cardinality(Clients(s)) < MaxClients
      /\ IF Joinable(s, k, refresh)
           THEN store' \in Pumped(Joined(s, id, s.byKey[k]))
           ELSE /\ Cardinality(t.entries) < MaxJobs
                /\ store.created < MaxCreated
                /\ store' \in Pumped(Joined(Queue(t, j, k), id, j))

(* release, by the viewer who holds the lease.                              *)
Release(id) ==
  /\ store.lease[id] # None
  /\ store' = Without(store, {id})

(* leaseMs pass without a request on the lease.                             *)
LeaseLapses(id) ==
  /\ store.lease[id] # None /\ id \notin store.late
  /\ store' = [store EXCEPT !.late = @ \cup {id}]

(* cacheMs or partialCacheMs pass after a job finished.                     *)
SnapshotExpires(j) ==
  /\ j \in store.entries \ store.expired
  /\ store.state[j] \in Finished
  /\ store' = [store EXCEPT !.expired = @ \cup {j}]

Close ==
  /\ ~store.closed
  /\ store' = [Without(store, Clients(store)) EXCEPT
                 !.closed = TRUE, !.entries = {},
                 !.byKey = [k \in Keys |-> None]]

-----------------------------------------------------------------------------
(* The promise chain of a claimed job.                                      *)

(* The worker is started, unless the job was cancelled before.              *)
Start(j) ==
  /\ store.stage[j] = "claimed"
  /\ store' = [store EXCEPT !.stage[j] =
       IF store.state[j] = "running" THEN "working" ELSE "stored"]

(* The worker reports a result or an error, exits, or runs into the time    *)
(* limit; it is terminated.                                                 *)
Settle(j) ==
  /\ store.stage[j] = "working"
  /\ store' = [store EXCEPT !.stage[j] = "settled"]

Stored(s, j) == [s EXCEPT !.stage[j] = "stored"]

(* Fault: a late result is applied to a cancelled job.                      *)
DeliverLateFault(j) ==
  /\ store.stage[j] = "settled"
  /\ \/ store' = Stored(Failed(store, j), j)
     \/ \E n \in Sizes : store' = Stored(Applied(store, j, n), j)

(* What it returned is applied, or dropped if the job was cancelled.        *)
Deliver(j) ==
  /\ store.stage[j] = "settled"
  /\ IF store.state[j] # "running" THEN store' = Stored(store, j)
     ELSE \/ store' = Stored(Failed(store, j), j)
          \/ \E n \in Sizes : store' = Stored(Applied(store, j, n), j)

GivenBack(s, j) == [s EXCEPT !.running = @ - 1, !.stage[j] = "idle"]

(* Faults: nothing is pumped when a slot is given back; the slot is kept.   *)
RetireNoPumpFault(j) ==
  /\ store.stage[j] = "stored"
  /\ store' = GivenBack(store, j)
RetireKeepFault(j) ==
  /\ store.stage[j] = "stored"
  /\ store' \in Pumped([store EXCEPT !.stage[j] = "idle"])

(* The slot is given back, and claimed by the next job.                     *)
Retire(j) ==
  /\ store.stage[j] = "stored"
  /\ store' \in Pumped(GivenBack(store, j))

Work(j) == Start(j) \/ Settle(j) \/ Deliver(j) \/ Retire(j)

Next ==
  \/ Sweep
  \/ \E id \in Ids, k \in Keys, refresh \in BOOLEAN : Create(id, k, refresh)
  \/ \E id \in Ids : Release(id) \/ LeaseLapses(id)
  \/ \E j \in Jobs : SnapshotExpires(j)
  \/ Close
  \/ \E j \in Jobs : Work(j)

Spec == Init /\ [][Next]_store

(* Promises run, and a worker ends by itself or at the time limit.  Viewers *)
(* and timers owe nothing.                                                  *)
FairSpec == Spec /\ \A j \in Jobs : WF_store(Work(j))

-----------------------------------------------------------------------------
(* Properties                                                               *)

TypeOK == store \in Stores

(* What a viewer looks at, and what status tells about it.                  *)
Looks(s, id) == IF s.lease[id] = None THEN None ELSE s.key[s.lease[id]]
Told(s, id) ==
  IF s.lease[id] = None THEN "none"
  ELSE IF IsActive(s, s.lease[id]) THEN "waiting" ELSE s.state[s.lease[id]]

(* "Cancelling one lease never cancels another viewer's shared decode"      *)
(* (jobs.mjs): as long as a viewer holds a lease, its entry is kept and not *)
(* cancelled, whatever other viewers, eviction and expiry do.               *)
SharedDecodeSurvives ==
  \A id \in Clients(store) :
    /\ store.lease[id] \in store.entries
    /\ store.state[store.lease[id]] \notin {"none", "cancelled"}

(* Work is done only for somebody, and once per key: a queued or running    *)
(* job has a viewer, is the entry of its key, and can therefore be joined   *)
(* (create, release, remove).                                               *)
WorkIsWanted ==
  \A j \in Jobs : IsActive(store, j) =>
    /\ j \in store.entries
    /\ Viewers(store, j) # {}
    /\ store.byKey[store.key[j]] = j

(* `running` counts exactly the decodes whose promise chain has not ended,  *)
(* cancelled ones included, and never passes the limit: each slot that is   *)
(* claimed is given back once (pump and its finally).                       *)
SlotsExact ==
  /\ store.running = Cardinality({j \in Jobs : store.stage[j] # "idle"})
  /\ store.running <= Concurrency

(* No viewer waits while a slot is free: every step that frees a slot or    *)
(* queues a job pumps (create, the finally of pump).                        *)
NoIdleSlot ==
  ~store.closed /\ store.running < Concurrency => Queued(store) = {}

(* The store stays within its limits (maxJobs, maxClients, maxResultBytes,  *)
(* maxCacheBytes), although decodes end in any order and entries in use     *)
(* cannot be evicted.                                                       *)
WithinLimits ==
  /\ Cardinality(store.entries) <= MaxJobs
  /\ Cardinality(Clients(store)) <= MaxClients
  /\ Used(store, store.entries) <= MaxCacheBytes
  /\ \A j \in Jobs : store.bytes[j] <= MaxResultBytes

(* What a viewer was told is final: a result that comes in after its job    *)
(* was cancelled, failed or completed changes nothing (entry.state checks   *)
(* of pump).                                                                *)
ResultsAreFinal ==
  [][\A j \in Jobs :
       store.state[j] \in Finished \cup {"cancelled"} =>
         /\ store'.state[j] = store.state[j]
         /\ store'.bytes[j] = store.bytes[j]]_store

(* The store implements one shared decode per transaction: viewers of it    *)
(* wait and are answered together, a snapshot is shown only while nobody    *)
(* waits for a newer one, and whoever leaves, lapses or is swept takes      *)
(* nothing from the others, whatever is evicted, cancelled or late.         *)
Service == INSTANCE SharedDecode WITH
  NoKey  <- None,
  asked  <- [id \in Ids |-> Looks(store, id)],
  answer <- [id \in Ids |-> Told(store, id)]

ImplementsService == Service!Spec

(* Every decode ends, behind however many others it was queued.  A viewer   *)
(* who stays gets an answer, since its job is then not cancelled (pump and  *)
(* its finally; SharedDecodeSurvives).                                      *)
EveryDecodeEnds ==
  \A j \in Jobs : IsActive(store, j) ~> ~IsActive(store, j)

(* After close every worker ends and its slot is given back (close, the     *)
(* finally of pump).                                                        *)
CloseDrains == store.closed ~> store.running = 0
=============================================================================
