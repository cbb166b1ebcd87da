--------------------------- MODULE TraceJobsProofs ---------------------------
(***************************************************************************)
(* Proofs about TraceJobs, for every number of keys, leases, slots and      *)
(* entries.  Each method of the store is described once by the fields it    *)
(* leaves (the ...Fields lemmas); the invariant is carried through the      *)
(* methods, and an action is a composition of methods.                      *)
(***************************************************************************)
EXTENDS TraceJobs, LeastCounterexample, FiniteSetTheorems, TLAPS

-----------------------------------------------------------------------------
(* What the methods do to the fields of a store.                            *)

LEMMA RemovedFields ==
  ASSUME NEW s \in Stores, NEW js
  PROVE  LET t == Removed(s, js) IN
         /\ t \in Stores
         /\ t.entries = s.entries \ js
         /\ t.byKey = [k \in Keys |-> IF s.byKey[k] \in js THEN None ELSE s.byKey[k]]
         /\ t.lease = s.lease /\ t.late = s.late
         /\ t.state = s.state /\ t.key = s.key /\ t.stage = s.stage
         /\ t.bytes = s.bytes /\ t.expired = s.expired
         /\ t.running = s.running /\ t.created = s.created /\ t.closed = s.closed
  BY DEF Removed, Stores, None

LEMMA WithoutFields ==
  ASSUME NEW s \in Stores, NEW ids
  PROVE  LET t == Without(s, ids)
             gone == Abandoned(s, ids) IN
         /\ t \in Stores
         /\ t.entries = s.entries \ gone
         /\ t.byKey = [k \in Keys |-> IF s.byKey[k] \in gone THEN None ELSE s.byKey[k]]
         /\ t.lease = [id \in Ids |-> IF id \in ids THEN None ELSE s.lease[id]]
         /\ t.late = s.late \ ids
         /\ t.state = [j \in Jobs |-> IF j \in gone THEN "cancelled" ELSE s.state[j]]
         /\ t.stage = [j \in Jobs |->
               IF j \in gone /\ s.stage[j] = "working" THEN "settled" ELSE s.stage[j]]
         /\ t.key = s.key /\ t.bytes = s.bytes /\ t.expired = s.expired
         /\ t.running = s.running /\ t.created = s.created /\ t.closed = s.closed
  <1> DEFINE gone == Abandoned(s, ids)
             u == [s EXCEPT
              !.lease = [id \in Ids |-> IF id \in ids THEN None ELSE @[id]],
              !.late  = @ \ ids,
              !.state = [j \in Jobs |-> IF j \in gone THEN "cancelled" ELSE @[j]],
              !.stage = [j \in Jobs |->
                 IF j \in gone /\ @[j] = "working" THEN "settled" ELSE @[j]]]
  <1>1. Without(s, ids) = Removed(u, gone)
    BY DEF Without
  <1> HIDE DEF gone
  <1>2. /\ u \in Stores
        /\ u.entries = s.entries /\ u.byKey = s.byKey
        /\ u.lease = [id \in Ids |-> IF id \in ids THEN None ELSE s.lease[id]]
        /\ u.late = s.late \ ids
        /\ u.state = [j \in Jobs |-> IF j \in gone THEN "cancelled" ELSE s.state[j]]
        /\ u.stage = [j \in Jobs |->
               IF j \in gone /\ s.stage[j] = "working" THEN "settled" ELSE s.stage[j]]
        /\ u.key = s.key /\ u.bytes = s.bytes /\ u.expired = s.expired
        /\ u.running = s.running /\ u.created = s.created /\ u.closed = s.closed
    BY DEF Stores, None, States, Stages
  <1> HIDE DEF u
  <1> QED BY <1>1, <1>2, RemovedFields DEF gone

LEMMA PumpedFields ==
  ASSUME JobsAssumption, NEW s \in Stores, NEW t \in Pumped(s), ~s.closed
  PROVE  \E js \in Claims(s) :
         /\ t \in Stores
         /\ t.running = s.running + Cardinality(js)
         /\ t.state = [j \in Jobs |-> IF j \in js THEN "running" ELSE s.state[j]]
         /\ t.stage = [j \in Jobs |-> IF j \in js THEN "claimed" ELSE s.stage[j]]
         /\ t.entries = s.entries /\ t.byKey = s.byKey
         /\ t.lease = s.lease /\ t.late = s.late
         /\ t.key = s.key /\ t.bytes = s.bytes /\ t.expired = s.expired
         /\ t.created = s.created /\ t.closed = s.closed
  <1>1. PICK js \in Claims(s) : t = [s EXCEPT
           !.running = @ + Cardinality(js),
           !.state = [j \in Jobs |-> IF j \in js THEN "running" ELSE @[j]],
           !.stage = [j \in Jobs |-> IF j \in js THEN "claimed" ELSE @[j]]]
    BY DEF Pumped
  <1>2. s.running + Cardinality(js) \in 0..Concurrency
    <2>1. IsFiniteSet(Jobs)
      BY FS_Interval DEF Jobs, JobsAssumption
    <2>2. js \subseteq Jobs
      BY DEF Claims, Queued, Stores
    <2>3. IsFiniteSet(js) /\ Cardinality(js) \in Nat
      BY <2>1, <2>2, FS_Subset, FS_CardinalityType
    <2> QED BY <2>3 DEF Claims, Stores, JobsAssumption
  <1>3. t.running = s.running + Cardinality(js)
    BY <1>1 DEF Stores
  <1> QED BY <1>1, <1>2 DEF Stores, States, Active, Stages

-----------------------------------------------------------------------------
(* The inductive invariant, of any store.                                   *)

Busy(s) == {j \in Jobs : s.stage[j] # "idle"}

(* A lease is on an entry; an entry was made, and is neither cancelled nor  *)
(* forgotten; a key names an entry of its own.                              *)
EntriesHeld(s) ==
  /\ \A id \in Ids : s.lease[id] # None => s.lease[id] \in s.entries
  /\ \A j \in s.entries :
       s.state[j] \in Active \cup Finished /\ s.key[j] \in Keys
  /\ \A k \in Keys : s.byKey[k] # None =>
       s.byKey[k] \in s.entries /\ s.key[s.byKey[k]] = k
  /\ \A j \in Jobs : j > s.created => s.state[j] = "none"

Wanted(s) ==
  \A j \in Jobs : IsActive(s, j) =>
    /\ j \in s.entries
    /\ Viewers(s, j) # {}
    /\ s.byKey[s.key[j]] = j

(* The promise chain of a job and its state.                                *)
StagesAgree(s) ==
  \A j \in Jobs :
    /\ s.state[j] = "running" => s.stage[j] \in {"claimed", "working", "settled"}
    /\ s.state[j] \in {"none", "queued"} => s.stage[j] = "idle"
    /\ s.stage[j] = "working" => s.state[j] = "running"

SlotsCounted(s) == s.running = Cardinality(Busy(s))

Sound(s) ==
  /\ s \in Stores
  /\ EntriesHeld(s)
  /\ Wanted(s)
  /\ StagesAgree(s)
  /\ SlotsCounted(s)
  /\ s.closed => s.entries = {}

(* No job waits while a slot is free.                                       *)
Prompt(s) == ~s.closed /\ s.running < Concurrency => Queued(s) = {}

LEMMA JobsFinite == JobsAssumption => IsFiniteSet(Jobs)
  BY FS_Interval DEF Jobs, JobsAssumption

LEMMA InitSound == JobsAssumption /\ Init => Sound(store) /\ Prompt(store)
  <1> SUFFICES ASSUME JobsAssumption, Init PROVE Sound(store) /\ Prompt(store)
    OBVIOUS
  <1>1. store \in Stores
    BY DEF Init, Stores, States, Stages, None, JobsAssumption
  <1>2. Busy(store) = {}
    BY DEF Busy, Init
  <1>3. SlotsCounted(store)
    BY <1>2, FS_EmptySet DEF SlotsCounted, Init
  <1>4. EntriesHeld(store) /\ Wanted(store) /\ StagesAgree(store)
    BY DEF Init, EntriesHeld, Wanted, StagesAgree, IsActive, Active, None
  <1>5. Prompt(store)
    BY DEF Init, Prompt, Queued
  <1> QED BY <1>1, <1>3, <1>4, <1>5 DEF Sound, Init

(* Removing entries that nobody views and nothing works on.                 *)
LEMMA RemovedSound ==
  ASSUME NEW s, Sound(s), NEW js \in SUBSET Unused(s)
  PROVE  /\ Sound(Removed(s, js))
         /\ Prompt(s) => Prompt(Removed(s, js))
  <1> DEFINE t == Removed(s, js)
  <1>1. s \in Stores
    BY DEF Sound
  <1>2. /\ t \in Stores
        /\ t.entries = s.entries \ js
        /\ t.byKey = [k \in Keys |-> IF s.byKey[k] \in js THEN None ELSE s.byKey[k]]
        /\ t.lease = s.lease
        /\ t.state = s.state /\ t.key = s.key /\ t.stage = s.stage
        /\ t.running = s.running /\ t.created = s.created /\ t.closed = s.closed
    BY <1>1, RemovedFields
  <1>3. \A j \in js : /\ j \in Jobs
                      /\ ~IsActive(s, j)
                      /\ \A id \in Ids : s.lease[id] # j
    BY <1>1 DEF Unused, Viewers, Stores
  <1> HIDE DEF t
  <1>4. EntriesHeld(t)
    BY <1>1, <1>2, <1>3 DEF EntriesHeld, Sound
  <1>5. Wanted(t)
    <2> SUFFICES ASSUME NEW j \in Jobs, IsActive(t, j)
                 PROVE  /\ j \in t.entries
                        /\ Viewers(t, j) # {}
                        /\ t.byKey[t.key[j]] = j
      BY DEF Wanted
    <2>1. IsActive(s, j)
      BY <1>2 DEF IsActive
    <2>2. /\ j \in s.entries
          /\ Viewers(s, j) # {}
          /\ s.byKey[s.key[j]] = j
      BY <2>1 DEF Sound, Wanted
    <2>3. s.key[j] \in Keys
      BY <2>2 DEF Sound, EntriesHeld
    <2> QED BY <1>1, <1>2, <1>3, <2>1, <2>2, <2>3 DEF Viewers
  <1>6. StagesAgree(t)
    BY <1>2 DEF StagesAgree, Sound
  <1>7. SlotsCounted(t)
    <2>1. Busy(t) = Busy(s)
      BY <1>2 DEF Busy
    <2> QED BY <2>1, <1>2 DEF SlotsCounted, Sound
  <1>8. Prompt(s) => Prompt(t)
    <2>1. Queued(t) \subseteq Queued(s)
      BY <1>2 DEF Queued, Viewers
    <2> QED BY <2>1, <1>2 DEF Prompt
  <1> QED BY <1>2, <1>4, <1>5, <1>6, <1>7, <1>8 DEF Sound, t

(* Viewers leave.                                                           *)
LEMMA WithoutSound ==
  ASSUME NEW s, Sound(s), NEW ids \in SUBSET Ids
  PROVE  /\ Sound(Without(s, ids))
         /\ Prompt(s) => Prompt(Without(s, ids))
  <1> DEFINE t == Without(s, ids)
             gone == Abandoned(s, ids)
  <1>1. s \in Stores
    BY DEF Sound
  <1>2. /\ t \in Stores
        /\ t.entries = s.entries \ gone
        /\ t.byKey = [k \in Keys |-> IF s.byKey[k] \in gone THEN None ELSE s.byKey[k]]
        /\ t.lease = [id \in Ids |-> IF id \in ids THEN None ELSE s.lease[id]]
        /\ t.state = [j \in Jobs |-> IF j \in gone THEN "cancelled" ELSE s.state[j]]
        /\ t.stage = [j \in Jobs |->
              IF j \in gone /\ s.stage[j] = "working" THEN "settled" ELSE s.stage[j]]
        /\ t.key = s.key
        /\ t.running = s.running /\ t.created = s.created /\ t.closed = s.closed
    BY <1>1, WithoutFields
  <1>3. \A j \in gone : /\ j \in Jobs
                        /\ IsActive(s, j)
                        /\ \A id \in Ids : s.lease[id] = j => id \in ids
    BY DEF Abandoned, Viewers
  <1>4. \A j \in Jobs \ gone : IsActive(s, j) /\ Viewers(s, j) # {} =>
          \E id \in Ids \ ids : s.lease[id] = j
    BY DEF Abandoned, Viewers
  <1> HIDE DEF t, gone
  <1>5. EntriesHeld(t)
    <2>1. \A id \in Ids : t.lease[id] # None => t.lease[id] \in t.entries
      BY <1>2, <1>3 DEF Sound, EntriesHeld
    <2>2. \A j \in t.entries :
            t.state[j] \in Active \cup Finished /\ t.key[j] \in Keys
      BY <1>1, <1>2 DEF Sound, EntriesHeld, Stores
    <2>3. \A k \in Keys : t.byKey[k] # None =>
            t.byKey[k] \in t.entries /\ t.key[t.byKey[k]] = k
      BY <1>2 DEF Sound, EntriesHeld
    <2>4. \A j \in Jobs : j > t.created => t.state[j] = "none"
      BY <1>2, <1>3 DEF Sound, EntriesHeld, IsActive, Active
    <2> QED BY <2>1, <2>2, <2>3, <2>4 DEF EntriesHeld
  <1>6. Wanted(t)
    <2> SUFFICES ASSUME NEW j \in Jobs, IsActive(t, j)
                 PROVE  /\ j \in t.entries
                        /\ Viewers(t, j) # {}
                        /\ t.byKey[t.key[j]] = j
      BY DEF Wanted
    <2>1. j \notin gone /\ IsActive(s, j)
      BY <1>2 DEF IsActive, Active
    <2>2. /\ j \in s.entries
          /\ Viewers(s, j) # {}
          /\ s.byKey[s.key[j]] = j
      BY <2>1 DEF Sound, Wanted
    <2>3. s.key[j] \in Keys
      BY <2>2 DEF Sound, EntriesHeld
    <2>4. PICK id \in Ids \ ids : s.lease[id] = j
      BY <1>4, <2>1, <2>2
    <2>5. id \in Viewers(t, j)
      BY <1>2, <2>4 DEF Viewers
    <2> QED BY <1>2, <2>1, <2>2, <2>3, <2>5
  <1>7. StagesAgree(t)
    <2> SUFFICES ASSUME NEW j \in Jobs
                 PROVE
      /\ t.state[j] = "running" => t.stage[j] \in {"claimed", "working", "settled"}
      /\ t.state[j] \in {"none", "queued"} => t.stage[j] = "idle"
      /\ t.stage[j] = "working" => t.state[j] = "running"
      BY DEF StagesAgree
    <2> QED BY <1>2 DEF Sound, StagesAgree
  <1>8. SlotsCounted(t)
    <2>1. Busy(t) = Busy(s)
      BY <1>2 DEF Busy
    <2> QED BY <2>1, <1>2 DEF SlotsCounted, Sound
  <1>9. Prompt(s) => Prompt(t)
    <2>1. Queued(t) \subseteq Queued(s)
      <3> SUFFICES ASSUME NEW j \in Queued(t) PROVE j \in Queued(s)
        OBVIOUS
      <3>1. j \in s.entries /\ j \in Jobs /\ t.state[j] = "queued"
        BY <1>1, <1>2 DEF Queued, Stores
      <3>2. s.state[j] = "queued"
        BY <1>2, <3>1
      <3> QED BY <3>1, <3>2 DEF Queued, Sound, Wanted, IsActive, Active
    <2> QED BY <2>1, <1>2 DEF Prompt
  <1> QED BY <1>2, <1>5, <1>6, <1>7, <1>8, <1>9 DEF Sound, t, gone

LEMMA SweptSound ==
  ASSUME NEW s, Sound(s)
  PROVE  /\ Sound(Swept(s))
         /\ Prompt(s) => Prompt(Swept(s))
  <1> DEFINE t == Without(s, s.late)
  <1>1. s.late \subseteq Ids
    BY DEF Sound, Stores
  <1>2. Sound(t) /\ (Prompt(s) => Prompt(t))
    BY <1>1, WithoutSound
  <1> HIDE DEF t
  <1>3. /\ Sound(Removed(t, Unused(t) \cap t.expired))
        /\ Prompt(t) => Prompt(Removed(t, Unused(t) \cap t.expired))
    BY <1>2, RemovedSound
  <1> QED BY <1>2, <1>3 DEF Swept, t

LEMMA EvictedSound ==
  ASSUME NEW s, Sound(s)
  PROVE  Sound(Evicted(s))
  <1>1. Oldest(Unused(s)) \subseteq Unused(s)
    BY DEF Oldest
  <1> QED BY <1>1, RemovedSound DEF Evicted

(* Free slots are claimed.                                                  *)
LEMMA PumpedSound ==
  ASSUME JobsAssumption, NEW s, Sound(s), NEW t \in Pumped(s)
  PROVE  Sound(t) /\ Prompt(t)
  <1>1. CASE s.closed
    <2>1. t = s
      BY <1>1 DEF Pumped
    <2> QED BY <1>1, <2>1 DEF Prompt
  <1>2. CASE ~s.closed
    <2>1. s \in Stores
      BY DEF Sound
    <2>2. PICK js \in Claims(s) :
         /\ t \in Stores
         /\ t.running = s.running + Cardinality(js)
         /\ t.state = [j \in Jobs |-> IF j \in js THEN "running" ELSE s.state[j]]
         /\ t.stage = [j \in Jobs |-> IF j \in js THEN "claimed" ELSE s.stage[j]]
         /\ t.entries = s.entries /\ t.byKey = s.byKey
         /\ t.lease = s.lease /\ t.key = s.key
         /\ t.created = s.created /\ t.closed = s.closed
      BY <1>2, <2>1, PumpedFields
    <2>3. /\ js \subseteq Queued(s)
          /\ js # Queued(s) => s.running + Cardinality(js) = Concurrency
      BY DEF Claims
    <2>4. \A j \in js : j \in Jobs /\ s.state[j] = "queued"
      BY <2>1, <2>3 DEF Queued, Stores
    <2>5. \A j \in js : s.stage[j] = "idle"
      BY <2>4 DEF Sound, StagesAgree
    <2>6. EntriesHeld(t)
      BY <2>1, <2>2, <2>4 DEF Sound, EntriesHeld, Active, Stores
    <2>7. Wanted(t)
      <3> SUFFICES ASSUME NEW j \in Jobs, IsActive(t, j)
                   PROVE  /\ j \in t.entries
                          /\ Viewers(t, j) # {}
                          /\ t.byKey[t.key[j]] = j
        BY DEF Wanted
      <3>1. IsActive(s, j)
        BY <2>2, <2>4 DEF IsActive, Active
      <3> QED BY <2>2, <3>1 DEF Sound, Wanted, Viewers
    <2>8. StagesAgree(t)
      BY <2>2, <2>4 DEF Sound, StagesAgree
    <2>9. SlotsCounted(t)
      <3>1. Busy(t) = Busy(s) \cup js /\ Busy(s) \cap js = {}
        BY <2>2, <2>4, <2>5 DEF Busy
      <3>2. IsFiniteSet(Busy(s)) /\ IsFiniteSet(js)
        BY <2>4, JobsFinite, FS_Subset DEF Busy
      <3>3. Cardinality(Busy(t)) = Cardinality(Busy(s)) + Cardinality(js)
        <4>1. Cardinality(Busy(s) \cup js)
                = Cardinality(Busy(s)) + Cardinality(js) - Cardinality(Busy(s) \cap js)
          BY <3>2, FS_Union
        <4>2. Cardinality(Busy(s) \cap js) = 0
          BY <3>1, FS_EmptySet
        <4>3. Cardinality(Busy(s)) \in Nat /\ Cardinality(js) \in Nat
          BY <3>2, FS_CardinalityType
        <4> QED BY <3>1, <4>1, <4>2, <4>3
      <3> QED BY <2>2, <3>3 DEF SlotsCounted, Sound
    <2>10. Prompt(t)
      <3>1. Queued(t) = Queued(s) \ js
        BY <2>1, <2>2, <2>4 DEF Queued, Viewers, Stores
      <3>2. CASE js = Queued(s)
        BY <3>1, <3>2 DEF Prompt
      <3>3. CASE js # Queued(s)
        <4>1. t.running = Concurrency
          BY <2>2, <2>3, <3>3
        <4> QED BY <4>1 DEF Prompt, JobsAssumption
      <3> QED BY <3>2, <3>3
    <2> QED BY <1>2, <2>2, <2>6, <2>7, <2>8, <2>9, <2>10 DEF Sound
  <1> QED BY <1>1, <1>2

-----------------------------------------------------------------------------
(* A viewer joins an entry, old or new.                                     *)

LEMMA JoinedSound ==
  ASSUME NEW s, Sound(s), NEW id \in Ids, s.lease[id] = None, NEW j \in s.entries
  PROVE  Sound(Joined(s, id, j))
  <1> DEFINE t == Joined(s, id, j)
  <1>1. s \in Stores /\ j \in Jobs
    BY DEF Sound, Stores
  <1>2. /\ t \in Stores
        /\ t.lease = [s.lease EXCEPT ![id] = j]
        /\ t.entries = s.entries /\ t.byKey = s.byKey
        /\ t.state = s.state /\ t.key = s.key /\ t.stage = s.stage
        /\ t.running = s.running /\ t.created = s.created /\ t.closed = s.closed
    BY <1>1 DEF Joined, Stores
  <1>3. t.lease[id] = j /\ \A i \in Ids \ {id} : t.lease[i] = s.lease[i]
    BY <1>1, <1>2 DEF Stores
  <1> HIDE DEF t
  <1>4. EntriesHeld(t)
    BY <1>2, <1>3 DEF Sound, EntriesHeld
  <1>5. Wanted(t)
    <2> SUFFICES ASSUME NEW i \in Jobs, IsActive(t, i)
                 PROVE  /\ i \in t.entries
                        /\ Viewers(t, i) # {}
                        /\ t.byKey[t.key[i]] = i
      BY DEF Wanted
    <2>1. /\ i \in s.entries
          /\ Viewers(s, i) # {}
          /\ s.byKey[s.key[i]] = i
      BY <1>2 DEF IsActive, Sound, Wanted
    <2>2. Viewers(s, i) \subseteq Viewers(t, i)
      BY <1>3 DEF Viewers, None, Jobs
    <2> QED BY <1>2, <2>1, <2>2
  <1>6. StagesAgree(t) /\ SlotsCounted(t)
    BY <1>2 DEF StagesAgree, SlotsCounted, Busy, Sound
  <1> QED BY <1>2, <1>4, <1>5, <1>6 DEF Sound, t

(* A new entry is made for a key that no job at work has.                   *)
LEMMA QueueSound ==
  ASSUME JobsAssumption, NEW s, Sound(s), ~s.closed,
         NEW id \in Ids, s.lease[id] = None, NEW k \in Keys,
         s.created < MaxCreated,
         \A i \in Jobs : IsActive(s, i) => s.key[i] # k
  PROVE  Sound(Joined(Queue(s, s.created + 1, k), id, s.created + 1))
  <1> DEFINE j == s.created + 1
             q == Queue(s, j, k)
             t == Joined(q, id, j)
  <1>1. s \in Stores /\ s.created \in 0..MaxCreated
    BY DEF Sound, Stores
  <1>2. j \in Jobs /\ j \in 0..MaxCreated /\ j > s.created
    BY <1>1 DEF Jobs, JobsAssumption
  <1> HIDE DEF j
  <1>3. /\ q \in Stores
        /\ q.entries = s.entries \cup {j}
        /\ q.byKey = [s.byKey EXCEPT ![k] = j]
        /\ q.state = [s.state EXCEPT ![j] = "queued"]
        /\ q.key = [s.key EXCEPT ![j] = k]
        /\ q.created = j
        /\ q.lease = s.lease /\ q.stage = s.stage
        /\ q.running = s.running /\ q.closed = s.closed
    <2>1. /\ q.entries = s.entries \cup {j}
          /\ q.byKey = [s.byKey EXCEPT ![k] = j]
          /\ q.state = [s.state EXCEPT ![j] = "queued"]
          /\ q.key = [s.key EXCEPT ![j] = k]
          /\ q.created = j
          /\ q.lease = s.lease /\ q.stage = s.stage
          /\ q.running = s.running /\ q.closed = s.closed
      BY <1>1 DEF Queue, Stores
    <2>2. [s.byKey EXCEPT ![k] = j] \in [Keys -> Jobs \cup {None}]
      BY <1>1, <1>2 DEF Stores
    <2>3. [s.state EXCEPT ![j] = "queued"] \in [Jobs -> States]
      BY <1>1, <1>2 DEF Stores, States, Active
    <2>4. [s.key EXCEPT ![j] = k] \in [Jobs -> Keys \cup {None}]
      BY <1>1, <1>2 DEF Stores
    <2>5. q \in Stores
      BY <1>1, <1>2, <2>2, <2>3, <2>4 DEF Queue, Stores
    <2> QED BY <2>1, <2>5
  <1> HIDE DEF q
  <1>4. /\ t \in Stores
        /\ t.entries = s.entries \cup {j}
        /\ t.byKey = [s.byKey EXCEPT ![k] = j]
        /\ t.state = [s.state EXCEPT ![j] = "queued"]
        /\ t.key = [s.key EXCEPT ![j] = k]
        /\ t.created = j
        /\ t.lease = [s.lease EXCEPT ![id] = j]
        /\ t.stage = s.stage
        /\ t.running = s.running /\ t.closed = s.closed
    BY <1>2, <1>3 DEF Joined, Stores
  <1> HIDE DEF t
  <1>5. /\ t.lease[id] = j /\ \A i \in Ids \ {id} : t.lease[i] = s.lease[i]
        /\ t.byKey[k] = j /\ \A l \in Keys \ {k} : t.byKey[l] = s.byKey[l]
        /\ t.state[j] = "queued" /\ t.key[j] = k
        /\ \A i \in Jobs \ {j} : t.state[i] = s.state[i] /\ t.key[i] = s.key[i]
    BY <1>1, <1>2, <1>4 DEF Stores
  <1>6. s.state[j] = "none" /\ s.stage[j] = "idle" /\ j \notin s.entries
    <2>1. s.state[j] = "none"
      BY <1>2 DEF Sound, EntriesHeld
    <2> QED BY <2>1, <1>2 DEF Sound, EntriesHeld, StagesAgree, Active, Finished
  <1>7. s.entries \subseteq Jobs
    BY <1>1 DEF Stores
  <1>8. EntriesHeld(t)
    <2>1. \A i \in Ids : t.lease[i] # None => t.lease[i] \in t.entries
      BY <1>4, <1>5 DEF Sound, EntriesHeld
    <2>2. \A i \in t.entries : t.state[i] \in Active \cup Finished /\ t.key[i] \in Keys
      BY <1>4, <1>5, <1>7 DEF Sound, EntriesHeld, Active
    <2>3. \A l \in Keys : t.byKey[l] # None =>
            t.byKey[l] \in t.entries /\ t.key[t.byKey[l]] = l
      BY <1>4, <1>5, <1>6, <1>7 DEF Sound, EntriesHeld
    <2>4. \A i \in Jobs : i > t.created => t.state[i] = "none"
      BY <1>1, <1>2, <1>4, <1>5 DEF Sound, EntriesHeld, Jobs
    <2> QED BY <2>1, <2>2, <2>3, <2>4 DEF EntriesHeld
  <1>9. Wanted(t)
    <2> SUFFICES ASSUME NEW i \in Jobs, IsActive(t, i)
                 PROVE  /\ i \in t.entries
                        /\ Viewers(t, i) # {}
                        /\ t.byKey[t.key[i]] = i
      BY DEF Wanted
    <2>1. CASE i = j
      <3>1. id \in Viewers(t, j)
        BY <1>5 DEF Viewers
      <3> QED BY <2>1, <3>1, <1>4, <1>5
    <2>2. CASE i # j
      <3>1. IsActive(s, i)
        BY <2>2, <1>5 DEF IsActive
      <3>2. /\ i \in s.entries
            /\ Viewers(s, i) # {}
            /\ s.byKey[s.key[i]] = i
            /\ s.key[i] \in Keys \ {k}
        BY <3>1 DEF Sound, Wanted, EntriesHeld
      <3>3. Viewers(s, i) \subseteq Viewers(t, i)
        BY <1>5 DEF Viewers, None, Jobs
      <3> QED BY <2>2, <3>2, <3>3, <1>4, <1>5
    <2> QED BY <2>1, <2>2
  <1>10. StagesAgree(t)
    BY <1>4, <1>5, <1>6 DEF StagesAgree, Sound
  <1>11. SlotsCounted(t)
    BY <1>4 DEF SlotsCounted, Busy, Sound
  <1> QED BY <1>4, <1>8, <1>9, <1>10, <1>11 DEF Sound, t, q, j

(* The entry that an accepted request makes when it can join none.          *)
LEMMA CreateQueues ==
  ASSUME JobsAssumption, Sound(store),
         NEW id \in Ids, NEW k \in Keys, NEW refresh \in BOOLEAN,
         Create(id, k, refresh), ~Joinable(Swept(store), k, refresh)
  PROVE  LET t == Evicted(Swept(store))
             j == store.created + 1 IN
         /\ Sound(Joined(Queue(t, j, k), id, j))
         /\ t.created = store.created
  <1> DEFINE s == Swept(store)
             t == Evicted(s)
  <1>1. Sound(s) /\ Sound(t)
    BY SweptSound, EvictedSound
  <1>2. s.lease[id] = None /\ ~s.closed /\ store.created < MaxCreated
    BY DEF Create
  <1>3. s.created = store.created
    <2> DEFINE u == Without(store, store.late)
    <2>1. store \in Stores
      BY DEF Sound
    <2>2. u \in Stores /\ u.created = store.created
      BY <2>1, WithoutFields
    <2> HIDE DEF u
    <2>3. Removed(u, Unused(u) \cap u.expired).created = u.created
      BY <2>2, RemovedFields
    <2> QED BY <2>2, <2>3 DEF Swept, u
  <1>4. /\ t.created = s.created /\ t.closed = s.closed
        /\ t.lease = s.lease /\ t.state = s.state
        /\ \A l \in Keys : t.byKey[l] \in {None, s.byKey[l]}
    <2>1. CASE t = s
      BY <2>1
    <2>2. CASE t # s
      <3>1. t = Removed(s, Oldest(Unused(s)))
        BY <2>2 DEF Evicted
      <3>2. s \in Stores
        BY <1>1 DEF Sound
      <3> HIDE DEF s
      <3>3. /\ t.created = s.created /\ t.closed = s.closed
            /\ t.lease = s.lease /\ t.state = s.state
            /\ t.byKey = [l \in Keys |->
                  IF s.byKey[l] \in Oldest(Unused(s)) THEN None ELSE s.byKey[l]]
        BY <3>1, <3>2, RemovedFields
      <3> HIDE DEF t
      <3> QED BY <3>3
    <2> QED BY <2>1, <2>2
  <1>5. ~Joinable(s, k, refresh)
    OBVIOUS
  <1> HIDE DEF s, t
  <1>6. \A i \in Jobs : IsActive(t, i) => t.key[i] # k
    <2> SUFFICES ASSUME NEW i \in Jobs, IsActive(t, i), t.key[i] = k
                 PROVE  FALSE
      OBVIOUS
    <2>1. t.byKey[k] = i
      BY <1>1 DEF Sound, Wanted
    <2>2. s.byKey[k] = i /\ i # None
      BY <1>4, <2>1 DEF None, Jobs
    <2> QED BY <1>4, <1>5, <2>2 DEF Joinable, IsActive
  <1>7. Sound(Joined(Queue(t, t.created + 1, k), id, t.created + 1))
    BY <1>1, <1>2, <1>3, <1>4, <1>6, QueueSound
  <1> QED BY <1>3, <1>4, <1>7 DEF s, t

LEMMA CreateSound ==
  ASSUME JobsAssumption, Sound(store),
         NEW id \in Ids, NEW k \in Keys, NEW refresh \in BOOLEAN,
         Create(id, k, refresh)
  PROVE  Sound(store') /\ Prompt(store')
  <1> DEFINE s == Swept(store)
             j == store.created + 1
             q == Joined(Queue(Evicted(s), j, k), id, j)
  <1>1. Sound(s)
    BY SweptSound
  <1>2. CASE Joinable(s, k, refresh)
    <2>1. store' \in Pumped(Joined(s, id, s.byKey[k])) /\ s.lease[id] = None
      BY <1>2 DEF Create
    <2>2. s.byKey[k] \in s.entries
      BY <1>1, <1>2 DEF Joinable, Sound, EntriesHeld
    <2>3. Sound(Joined(s, id, s.byKey[k]))
      BY <1>1, <2>1, <2>2, JoinedSound
    <2> QED BY <2>1, <2>3, PumpedSound
  <1>3. CASE ~Joinable(s, k, refresh)
    <2>1. store' \in Pumped(q)
      BY <1>3 DEF Create
    <2>2. Sound(q)
      BY <1>3, CreateQueues
    <2> HIDE DEF q
    <2> QED BY <2>1, <2>2, PumpedSound
  <1> QED BY <1>2, <1>3

-----------------------------------------------------------------------------
(* A decode goes on, ends, and gives its slot back.                         *)

(* A stage that is not idle is followed by another that is not.             *)
LEMMA StageSound ==
  ASSUME NEW s, Sound(s), NEW j \in Jobs, s.stage[j] # "idle",
         NEW g \in Stages \ {"idle"},
         s.state[j] = "running" => g \in {"claimed", "working", "settled"},
         g = "working" => s.state[j] = "running"
  PROVE  LET t == [s EXCEPT !.stage[j] = g] IN
         Sound(t) /\ (Prompt(s) => Prompt(t))
  <1> DEFINE t == [s EXCEPT !.stage[j] = g]
  <1>1. s \in Stores
    BY DEF Sound
  <1>2. /\ t \in Stores
        /\ t.stage = [s.stage EXCEPT ![j] = g]
        /\ t.entries = s.entries /\ t.byKey = s.byKey /\ t.lease = s.lease
        /\ t.state = s.state /\ t.key = s.key
        /\ t.running = s.running /\ t.created = s.created /\ t.closed = s.closed
    BY <1>1 DEF Stores
  <1> HIDE DEF t
  <1>3. t.stage[j] = g /\ \A i \in Jobs \ {j} : t.stage[i] = s.stage[i]
    BY <1>1, <1>2 DEF Stores
  <1>4. EntriesHeld(t) /\ Wanted(t)
    BY <1>2 DEF Sound, EntriesHeld, Wanted, IsActive, Viewers
  <1>5. StagesAgree(t)
    BY <1>2, <1>3 DEF Sound, StagesAgree
  <1>6. SlotsCounted(t)
    <2>1. Busy(t) = Busy(s)
      BY <1>3 DEF Busy
    <2> QED BY <1>2, <2>1 DEF Sound, SlotsCounted
  <1>7. Prompt(s) => Prompt(t)
    BY <1>2 DEF Prompt, Queued, Viewers
  <1> QED BY <1>2, <1>4, <1>5, <1>6, <1>7 DEF Sound, t

(* A running decode ends with a result or an error.                         *)
LEMMA EndedSound ==
  ASSUME NEW s, Sound(s), NEW j \in Jobs, s.state[j] = "running",
         NEW t \in Stores, NEW x \in Finished,
         t.state = [s.state EXCEPT ![j] = x],
         t.stage = [s.stage EXCEPT ![j] = "stored"],
         t.entries = s.entries, t.byKey = s.byKey, t.lease = s.lease,
         t.key = s.key, t.running = s.running, t.created = s.created,
         t.closed = s.closed
  PROVE  Sound(t) /\ (Prompt(s) => Prompt(t))
  <1>1. s \in Stores
    BY DEF Sound
  <1>2. /\ t.stage[j] = "stored" /\ t.state[j] = x
        /\ \A i \in Jobs \ {j} : t.stage[i] = s.stage[i] /\ t.state[i] = s.state[i]
    BY <1>1 DEF Stores
  <1>3. x \notin Active /\ x # "none" /\ s.stage[j] # "idle"
    BY DEF Finished, Active, Sound, StagesAgree
  <1>4. EntriesHeld(t)
    BY <1>1, <1>2 DEF Sound, EntriesHeld, Stores
  <1>5. Wanted(t)
    BY <1>2, <1>3 DEF Sound, Wanted, IsActive, Viewers
  <1>6. StagesAgree(t)
    BY <1>2, <1>3 DEF Sound, StagesAgree, Active
  <1>7. SlotsCounted(t)
    <2>1. Busy(t) = Busy(s)
      BY <1>2, <1>3 DEF Busy
    <2> QED BY <2>1 DEF Sound, SlotsCounted
  <1>8. Prompt(s) => Prompt(t)
    <2>1. Queued(t) \subseteq Queued(s)
      BY <1>1, <1>2, <1>3 DEF Queued, Viewers, Active, Stores
    <2> QED BY <2>1 DEF Prompt
  <1> QED BY <1>4, <1>5, <1>6, <1>7, <1>8 DEF Sound

LEMMA FailedSound ==
  ASSUME NEW s, Sound(s), NEW j \in Jobs, s.state[j] = "running"
  PROVE  LET t == Stored(Failed(s, j), j) IN
         Sound(t) /\ (Prompt(s) => Prompt(t))
  <1> DEFINE t == Stored(Failed(s, j), j)
  <1>1. s \in Stores
    BY DEF Sound
  <1>2. /\ t \in Stores
        /\ t.state = [s.state EXCEPT ![j] = "failed"]
        /\ t.stage = [s.stage EXCEPT ![j] = "stored"]
        /\ t.entries = s.entries /\ t.byKey = s.byKey /\ t.lease = s.lease
        /\ t.key = s.key
        /\ t.running = s.running /\ t.created = s.created /\ t.closed = s.closed
    BY <1>1 DEF Stored, Failed, Stores, States, Finished, Stages
  <1> HIDE DEF t
  <1>3. "failed" \in Finished
    BY DEF Finished
  <1>4. Sound(t) /\ (Prompt(s) => Prompt(t))
    BY <1>2, <1>3, EndedSound
  <1> QED BY <1>4 DEF t

LEMMA CompletedSound ==
  ASSUME NEW s, Sound(s), NEW j \in Jobs, s.state[j] = "running", NEW n \in Nat
  PROVE  LET t == Stored([s EXCEPT !.state[j] = "complete", !.bytes[j] = n], j) IN
         Sound(t) /\ (Prompt(s) => Prompt(t))
  <1> DEFINE t == Stored([s EXCEPT !.state[j] = "complete", !.bytes[j] = n], j)
  <1>1. s \in Stores
    BY DEF Sound
  <1>2. /\ t \in Stores
        /\ t.state = [s.state EXCEPT ![j] = "complete"]
        /\ t.stage = [s.stage EXCEPT ![j] = "stored"]
        /\ t.entries = s.entries /\ t.byKey = s.byKey /\ t.lease = s.lease
        /\ t.key = s.key
        /\ t.running = s.running /\ t.created = s.created /\ t.closed = s.closed
    BY <1>1 DEF Stored, Stores, States, Finished, Stages
  <1> HIDE DEF t
  <1>3. "complete" \in Finished
    BY DEF Finished
  <1>4. Sound(t) /\ (Prompt(s) => Prompt(t))
    BY <1>2, <1>3, EndedSound
  <1> QED BY <1>4 DEF t

LEMMA DeliverSound ==
  ASSUME JobsAssumption, Sound(store), NEW j \in Jobs, Deliver(j)
  PROVE  Sound(store') /\ (Prompt(store) => Prompt(store'))
  <1>0. store \in Stores /\ store.stage[j] = "settled"
    BY DEF Deliver, Sound
  <1>1. CASE store.state[j] # "running"
    <2>1. store' = [store EXCEPT !.stage[j] = "stored"]
      BY <1>1 DEF Deliver, Stored
    <2>2. "stored" \in Stages \ {"idle"}
      BY DEF Stages
    <2> QED BY <1>0, <1>1, <2>1, <2>2, StageSound
  <1>2. CASE store.state[j] = "running"
    <2>1. CASE store' = Stored(Failed(store, j), j)
      BY <1>2, <2>1, FailedSound
    <2>2. ASSUME NEW n \in Sizes, store' = Stored(Applied(store, j, n), j)
          PROVE  Sound(store') /\ (Prompt(store) => Prompt(store'))
      <3> DEFINE t == Removed(store, Trimmed(store, n))
      <3>1. CASE n > MaxResultBytes
        BY <1>2, <2>2, <3>1, FailedSound DEF Applied
      <3>2. CASE ~(n > MaxResultBytes)
        <4>1. Trimmed(store, n) \subseteq Unused(store)
          BY DEF Trimmed
        <4>2. Sound(t) /\ (Prompt(store) => Prompt(t))
          BY <4>1, RemovedSound
        <4>3. t.state[j] = "running"
          BY <1>0, <1>2, RemovedFields
        <4>4. n \in Nat
          BY DEF JobsAssumption
        <4>5. \/ store' = Stored(Failed(t, j), j)
              \/ store' = Stored([t EXCEPT !.state[j] = "complete", !.bytes[j] = n], j)
          BY <2>2, <3>2 DEF Applied
        <4> HIDE DEF t
        <4>6. CASE store' = Stored(Failed(t, j), j)
          <5>1. Sound(Stored(Failed(t, j), j)) /\ (Prompt(t) => Prompt(Stored(Failed(t, j), j)))
            BY <4>2, <4>3, FailedSound
          <5> QED BY <4>2, <4>6, <5>1
        <4>7. CASE store' = Stored([t EXCEPT !.state[j] = "complete", !.bytes[j] = n], j)
          <5> DEFINE u == Stored([t EXCEPT !.state[j] = "complete", !.bytes[j] = n], j)
          <5>1. Sound(u) /\ (Prompt(t) => Prompt(u))
            BY <4>2, <4>3, <4>4, CompletedSound
          <5> QED BY <4>2, <4>7, <5>1
        <4> QED BY <4>5, <4>6, <4>7
      <3> QED BY <3>1, <3>2
    <2> QED BY <1>2, <2>1, <2>2 DEF Deliver
  <1> QED BY <1>1, <1>2

LEMMA GivenBackSound ==
  ASSUME JobsAssumption, NEW s, Sound(s), NEW j \in Jobs, s.stage[j] = "stored"
  PROVE  Sound(GivenBack(s, j))
  <1> DEFINE t == GivenBack(s, j)
  <1>1. s \in Stores
    BY DEF Sound
  <1>2. IsFiniteSet(Busy(s)) /\ j \in Busy(s)
    <2>1. Busy(s) \subseteq Jobs /\ IsFiniteSet(Jobs)
      BY JobsFinite DEF Busy
    <2>2. IsFiniteSet(Busy(s))
      BY <2>1, FS_Subset
    <2>3. j \in Busy(s)
      BY DEF Busy
    <2> QED BY <2>2, <2>3
  <1>3. Cardinality(Busy(s) \ {j}) = s.running - 1
    <2>1. Cardinality(Busy(s) \ {j}) = Cardinality(Busy(s)) - 1
      BY <1>2, FS_RemoveElement
    <2>2. s.running = Cardinality(Busy(s))
      BY DEF Sound, SlotsCounted
    <2> QED BY <2>1, <2>2
  <1>4. Cardinality(Busy(s) \ {j}) \in Nat
    BY <1>2, FS_RemoveElement, FS_CardinalityType
  <1>5. s.running - 1 \in 0..Concurrency
    BY <1>1, <1>3, <1>4 DEF Stores, JobsAssumption
  <1>6. /\ t \in Stores
        /\ t.stage = [s.stage EXCEPT ![j] = "idle"]
        /\ t.running = s.running - 1
        /\ t.entries = s.entries /\ t.byKey = s.byKey /\ t.lease = s.lease
        /\ t.state = s.state /\ t.key = s.key
        /\ t.created = s.created /\ t.closed = s.closed
    BY <1>1, <1>5 DEF GivenBack, Stores, Stages
  <1> HIDE DEF t
  <1>7. t.stage[j] = "idle" /\ \A i \in Jobs \ {j} : t.stage[i] = s.stage[i]
    BY <1>1, <1>6 DEF Stores
  <1>8. EntriesHeld(t) /\ Wanted(t)
    BY <1>6 DEF Sound, EntriesHeld, Wanted, IsActive, Viewers
  <1>9. StagesAgree(t)
    BY <1>6, <1>7 DEF Sound, StagesAgree
  <1>10. SlotsCounted(t)
    <2>1. Busy(t) = Busy(s) \ {j}
      BY <1>7 DEF Busy
    <2> QED BY <1>3, <1>6, <2>1 DEF SlotsCounted
  <1> QED BY <1>6, <1>8, <1>9, <1>10 DEF Sound, t

(* The leases that are left when viewers leave.                             *)
LEMMA LeasesLeft ==
  ASSUME NEW s \in Stores, NEW ids
  PROVE  \A id \in Ids :
           /\ Without(s, ids).lease[id] \in {None, s.lease[id]}
           /\ id \in ids => Without(s, ids).lease[id] = None
  <1> DEFINE gone == Abandoned(s, ids)
             t == Without(s, ids)
  <1>1. /\ t \in Stores
        /\ t.entries = s.entries \ gone
        /\ t.byKey = [k \in Keys |-> IF s.byKey[k] \in gone THEN None ELSE s.byKey[k]]
        /\ t.lease = [id \in Ids |-> IF id \in ids THEN None ELSE s.lease[id]]
        /\ t.state = [j \in Jobs |-> IF j \in gone THEN "cancelled" ELSE s.state[j]]
        /\ t.stage = [j \in Jobs |->
              IF j \in gone /\ s.stage[j] = "working" THEN "settled" ELSE s.stage[j]]
        /\ t.key = s.key
        /\ t.running = s.running /\ t.created = s.created /\ t.closed = s.closed
    BY WithoutFields
  <1> HIDE DEF t, gone
  <1>2. \A id \in Ids : t.lease[id] \in {None, s.lease[id]}
                       /\ (id \in ids => t.lease[id] = None)
    BY <1>1
  <1> QED BY <1>2 DEF t

LEMMA CloseSound ==
  ASSUME Sound(store), Close
  PROVE  Sound(store') /\ Prompt(store')
  <1> DEFINE t == Without(store, Clients(store))
  <1>1. Clients(store) \in SUBSET Ids
    BY DEF Clients
  <1>2. Sound(t) /\ t \in Stores
    BY <1>1, WithoutSound DEF Sound
  <1>3. \A id \in Ids : t.lease[id] = None
    <2>1. store \in Stores
      BY DEF Sound
    <2>2. \A id \in Ids : t.lease[id] \in {None, store.lease[id]}
                         /\ (id \in Clients(store) => t.lease[id] = None)
      BY <2>1, LeasesLeft
    <2> HIDE DEF t
    <2> QED BY <2>2 DEF Clients
  <1>4. store' = [t EXCEPT !.closed = TRUE, !.entries = {},
                           !.byKey = [k \in Keys |-> None]]
    BY DEF Close
  <1> HIDE DEF t
  <1>5. /\ store' \in Stores
        /\ store'.entries = {} /\ store'.closed = TRUE
        /\ store'.byKey = [k \in Keys |-> None]
        /\ store'.lease = t.lease /\ store'.state = t.state
        /\ store'.stage = t.stage /\ store'.key = t.key
        /\ store'.running = t.running /\ store'.created = t.created
    BY <1>2, <1>4 DEF Stores, None
  <1>6. \A j \in Jobs : ~IsActive(t, j)
    BY <1>2, <1>3 DEF Sound, Wanted, Viewers, None, Jobs
  <1>7. EntriesHeld(store') /\ Wanted(store')
    BY <1>2, <1>3, <1>5, <1>6 DEF Sound, EntriesHeld, Wanted, IsActive
  <1>8. StagesAgree(store') /\ SlotsCounted(store')
    BY <1>2, <1>5 DEF Sound, StagesAgree, SlotsCounted, Busy
  <1> QED BY <1>5, <1>7, <1>8 DEF Sound, Prompt

-----------------------------------------------------------------------------
(* Every step.                                                              *)

LEMMA NextSound ==
  ASSUME JobsAssumption, Sound(store), Prompt(store), [Next]_store
  PROVE  Sound(store') /\ Prompt(store')
  <1>0. store \in Stores
    BY DEF Sound
  <1>1. CASE Sweep
    BY <1>1, SweptSound DEF Sweep
  <1>2. ASSUME NEW id \in Ids, NEW k \in Keys, NEW refresh \in BOOLEAN,
               Create(id, k, refresh)
        PROVE  Sound(store') /\ Prompt(store')
    BY <1>2, CreateSound
  <1>3. ASSUME NEW id \in Ids, Release(id)
        PROVE  Sound(store') /\ Prompt(store')
    BY <1>3, WithoutSound DEF Release
  <1>4. ASSUME NEW id \in Ids, LeaseLapses(id)
        PROVE  Sound(store') /\ Prompt(store')
    <2>1. /\ store' \in Stores
          /\ store'.entries = store.entries /\ store'.byKey = store.byKey
          /\ store'.lease = store.lease /\ store'.state = store.state
          /\ store'.key = store.key /\ store'.stage = store.stage
          /\ store'.running = store.running /\ store'.created = store.created
          /\ store'.closed = store.closed
      BY <1>0, <1>4 DEF LeaseLapses, Stores
    <2> QED BY <2>1 DEF Sound, Prompt, EntriesHeld, Wanted, StagesAgree, SlotsCounted,
                        IsActive, Viewers, Busy, Queued
  <1>5. ASSUME NEW j \in Jobs, SnapshotExpires(j)
        PROVE  Sound(store') /\ Prompt(store')
    <2>1. /\ store' \in Stores
          /\ store'.entries = store.entries /\ store'.byKey = store.byKey
          /\ store'.lease = store.lease /\ store'.state = store.state
          /\ store'.key = store.key /\ store'.stage = store.stage
          /\ store'.running = store.running /\ store'.created = store.created
          /\ store'.closed = store.closed
      BY <1>0, <1>5 DEF SnapshotExpires, Stores
    <2> QED BY <2>1 DEF Sound, Prompt, EntriesHeld, Wanted, StagesAgree, SlotsCounted,
                        IsActive, Viewers, Busy, Queued
  <1>6. CASE Close
    BY <1>6, CloseSound
  <1>7. ASSUME NEW j \in Jobs, Start(j)
        PROVE  Sound(store') /\ Prompt(store')
    <2>1. CASE store.state[j] = "running"
      <3>1. store' = [store EXCEPT !.stage[j] = "working"] /\ store.stage[j] # "idle"
        BY <1>7, <2>1 DEF Start
      <3>2. "working" \in Stages \ {"idle"}
        BY DEF Stages
      <3> QED BY <2>1, <3>1, <3>2, StageSound
    <2>2. CASE store.state[j] # "running"
      <3>1. store' = [store EXCEPT !.stage[j] = "stored"] /\ store.stage[j] # "idle"
        BY <1>7, <2>2 DEF Start
      <3>2. "stored" \in Stages \ {"idle"}
        BY DEF Stages
      <3> QED BY <2>2, <3>1, <3>2, StageSound
    <2> QED BY <2>1, <2>2
  <1>8. ASSUME NEW j \in Jobs, Settle(j)
        PROVE  Sound(store') /\ Prompt(store')
    <2>1. store' = [store EXCEPT !.stage[j] = "settled"] /\ store.stage[j] # "idle"
      BY <1>8 DEF Settle
    <2>2. "settled" \in Stages \ {"idle"}
      BY DEF Stages
    <2> QED BY <2>1, <2>2, StageSound
  <1>9. ASSUME NEW j \in Jobs, Deliver(j)
        PROVE  Sound(store') /\ Prompt(store')
    BY <1>9, DeliverSound
  <1>10. ASSUME NEW j \in Jobs, Retire(j)
         PROVE  Sound(store') /\ Prompt(store')
    BY <1>10, GivenBackSound, PumpedSound DEF Retire
  <1>11. CASE UNCHANGED store
    BY <1>11
  <1> QED BY <1>1, <1>2, <1>3, <1>4, <1>5, <1>6, <1>7, <1>8, <1>9, <1>10, <1>11
          DEF Next, Work

-----------------------------------------------------------------------------
(* Final states.                                                            *)

(* t keeps every final state of s, and its result.                          *)
Keeps(s, t) ==
  \A j \in Jobs : s.state[j] \in Finished \cup {"cancelled"} =>
    t.state[j] = s.state[j] /\ t.bytes[j] = s.bytes[j]

LEMMA KeepsAll ==
  ASSUME NEW s, NEW t, NEW u, Keeps(s, t), Keeps(t, u)
  PROVE  Keeps(s, u)
  BY DEF Keeps

LEMMA RemovedKeeps ==
  ASSUME NEW s, Sound(s), NEW js
  PROVE  Keeps(s, Removed(s, js))
  <1>1. s \in Stores
    BY DEF Sound
  <1>2. Removed(s, js).state = s.state /\ Removed(s, js).bytes = s.bytes
    BY <1>1, RemovedFields
  <1> QED BY <1>2 DEF Keeps

LEMMA WithoutKeeps ==
  ASSUME NEW s, Sound(s), NEW ids
  PROVE  Keeps(s, Without(s, ids))
  <1> DEFINE t == Without(s, ids)
             gone == Abandoned(s, ids)
  <1>1. s \in Stores
    BY DEF Sound
  <1>2. /\ t \in Stores
        /\ t.entries = s.entries \ gone
        /\ t.byKey = [k \in Keys |-> IF s.byKey[k] \in gone THEN None ELSE s.byKey[k]]
        /\ t.lease = [id \in Ids |-> IF id \in ids THEN None ELSE s.lease[id]]
        /\ t.state = [j \in Jobs |-> IF j \in gone THEN "cancelled" ELSE s.state[j]]
        /\ t.stage = [j \in Jobs |->
              IF j \in gone /\ s.stage[j] = "working" THEN "settled" ELSE s.stage[j]]
        /\ t.key = s.key /\ t.bytes = s.bytes
        /\ t.running = s.running /\ t.created = s.created /\ t.closed = s.closed
    BY <1>1, WithoutFields
  <1>3. \A j \in gone : s.state[j] \in Active
    BY DEF Abandoned, IsActive
  <1> HIDE DEF t, gone
  <1>4. Keeps(s, t)
    BY <1>2, <1>3 DEF Keeps, Active, Finished
  <1> QED BY <1>4 DEF t

LEMMA SweptKeeps ==
  ASSUME NEW s, Sound(s)
  PROVE  Keeps(s, Swept(s))
  <1> DEFINE t == Without(s, s.late)
  <1>1. Keeps(s, t)
    BY WithoutKeeps
  <1>2. Sound(t)
    BY WithoutSound DEF Sound, Stores
  <1> HIDE DEF t
  <1>3. Keeps(t, Removed(t, Unused(t) \cap t.expired))
    BY <1>2, RemovedKeeps
  <1> QED BY <1>1, <1>3, KeepsAll DEF Swept, t

LEMMA PumpedKeeps ==
  ASSUME JobsAssumption, NEW s, Sound(s), NEW t \in Pumped(s)
  PROVE  Keeps(s, t)
  <1>1. CASE s.closed
    BY <1>1 DEF Pumped, Keeps
  <1>2. CASE ~s.closed
    <2>1. s \in Stores
      BY DEF Sound
    <2>2. PICK js \in Claims(s) :
            /\ t.state = [j \in Jobs |-> IF j \in js THEN "running" ELSE s.state[j]]
            /\ t.bytes = s.bytes
      BY <1>2, <2>1, PumpedFields
    <2>3. \A j \in js : s.state[j] = "queued"
      BY DEF Claims, Queued
    <2> QED BY <2>2, <2>3 DEF Keeps, Finished
  <1> QED BY <1>1, <1>2

LEMMA CreateKeeps ==
  ASSUME JobsAssumption, Sound(store),
         NEW id \in Ids, NEW k \in Keys, NEW refresh \in BOOLEAN,
         Create(id, k, refresh)
  PROVE  Keeps(store, store')
  <1> DEFINE s == Swept(store)
             t == Evicted(s)
             j == store.created + 1
             q == Joined(Queue(t, j, k), id, j)
             o == Joined(s, id, s.byKey[k])
  <1>1. Sound(s) /\ Sound(t) /\ Keeps(store, s)
    BY SweptSound, EvictedSound, SweptKeeps
  <1>2. s \in Stores /\ t \in Stores
    BY <1>1 DEF Sound
  <1>3. CASE Joinable(s, k, refresh)
    <2>1. store' \in Pumped(o)
      BY <1>3 DEF Create
    <2>2. Sound(o)
      <3>1. s.lease[id] = None /\ s.byKey[k] \in s.entries
        BY <1>1, <1>3 DEF Create, Joinable, Sound, EntriesHeld
      <3> QED BY <1>1, <3>1, JoinedSound
    <2>3. Keeps(s, o)
      <3> HIDE DEF s
      <3>1. o.state = s.state /\ o.bytes = s.bytes
        BY <1>2 DEF Joined, Stores
      <3> QED BY <3>1 DEF Keeps
    <2> HIDE DEF s, o
    <2>4. Keeps(o, store')
      BY <2>1, <2>2, PumpedKeeps
    <2>5. Keeps(store, o)
      BY <1>1, <2>3, KeepsAll
    <2> QED BY <2>4, <2>5, KeepsAll
  <1>4. CASE ~Joinable(s, k, refresh)
    <2>1. store' \in Pumped(q)
      BY <1>4 DEF Create
    <2>2. Keeps(s, t)
      <3>1. CASE t = s
        BY <3>1 DEF Keeps
      <3>2. CASE t # s
        <4>1. t = Removed(s, Oldest(Unused(s)))
          BY <3>2 DEF Evicted
        <4> HIDE DEF s
        <4> QED BY <1>1, <4>1, RemovedKeeps
      <3> QED BY <3>1, <3>2
    <2>3. Sound(q) /\ t.created = store.created
      BY <1>4, CreateQueues
    <2>4. Keeps(t, q)
      <3> HIDE DEF s, t, j
      <3>1. /\ q.state = [t.state EXCEPT ![j] = "queued"]
            /\ q.bytes = t.bytes
        BY <1>2 DEF Joined, Queue, Stores
      <3>2. j \in Jobs => t.state[j] = "none"
        BY <1>1, <2>3 DEF Sound, EntriesHeld, Stores, j
      <3>3. \A i \in Jobs \ {j} : q.state[i] = t.state[i]
        BY <1>2, <3>1 DEF Stores
      <3> QED BY <3>1, <3>2, <3>3 DEF Keeps, Finished
    <2> HIDE DEF s, t, j, q
    <2>5. Keeps(q, store')
      BY <2>1, <2>3, PumpedKeeps
    <2>6. Keeps(store, t)
      BY <1>1, <2>2, KeepsAll
    <2>7. Keeps(store, q)
      BY <2>4, <2>6, KeepsAll
    <2> QED BY <2>5, <2>7, KeepsAll
  <1> QED BY <1>3, <1>4

(* The end of a running job changes no final state.                         *)
LEMMA DeliverKeeps ==
  ASSUME Sound(store), NEW j \in Jobs, Deliver(j)
  PROVE  Keeps(store, store')
  <1>0. store \in Stores
    BY DEF Sound
  <1>1. CASE store.state[j] # "running"
    <2>1. store' = [store EXCEPT !.stage[j] = "stored"]
      BY <1>1 DEF Deliver, Stored
    <2>2. store'.state = store.state /\ store'.bytes = store.bytes
      BY <1>0, <2>1 DEF Stores
    <2> QED BY <2>2 DEF Keeps
  <1>2. ASSUME NEW s, Sound(s), Keeps(store, s), s.state[j] = "running"
        PROVE  /\ Keeps(store, Stored(Failed(s, j), j))
               /\ \A n \in Sizes :
                    Keeps(store, Stored([s EXCEPT !.state[j] = "complete", !.bytes[j] = n], j))
    <2>0. s \in Stores
      BY <1>2 DEF Sound
    <2>1. ASSUME NEW t,
                 \A i \in Jobs \ {j} : t.state[i] = s.state[i] /\ t.bytes[i] = s.bytes[i]
          PROVE  Keeps(store, t)
      <3>1. Keeps(s, t)
        BY <1>2, <2>1 DEF Keeps, Finished
      <3> QED BY <1>2, <3>1, KeepsAll
    <2>2. Keeps(store, Stored(Failed(s, j), j))
      <3> DEFINE t == Stored(Failed(s, j), j)
      <3>1. t.state = [s.state EXCEPT ![j] = "failed"] /\ t.bytes = s.bytes
        BY <2>0 DEF Stored, Failed, Stores
      <3> HIDE DEF t
      <3>2. \A i \in Jobs \ {j} : t.state[i] = s.state[i] /\ t.bytes[i] = s.bytes[i]
        BY <2>0, <3>1 DEF Stores
      <3>3. Keeps(store, t)
        BY <2>1, <3>2
      <3> QED BY <3>3 DEF t
    <2>3. ASSUME NEW n \in Sizes
          PROVE  Keeps(store, Stored([s EXCEPT !.state[j] = "complete", !.bytes[j] = n], j))
      <3> DEFINE t == Stored([s EXCEPT !.state[j] = "complete", !.bytes[j] = n], j)
      <3>1. /\ t.state = [s.state EXCEPT ![j] = "complete"]
            /\ t.bytes = [s.bytes EXCEPT ![j] = n]
        BY <2>0 DEF Stored, Stores
      <3> HIDE DEF t
      <3>2. \A i \in Jobs \ {j} : t.state[i] = s.state[i] /\ t.bytes[i] = s.bytes[i]
        BY <2>0, <3>1 DEF Stores
      <3>3. Keeps(store, t)
        BY <2>1, <3>2
      <3> QED BY <3>3 DEF t
    <2> QED BY <2>2, <2>3
  <1>3. CASE store.state[j] = "running"
    <2>1. Keeps(store, store)
      BY DEF Keeps
    <2>2. Keeps(store, Stored(Failed(store, j), j))
      BY <1>2, <1>3, <2>1
    <2>3. CASE store' = Stored(Failed(store, j), j)
      BY <2>2, <2>3
    <2>4. ASSUME NEW n \in Sizes, store' = Stored(Applied(store, j, n), j)
          PROVE  Keeps(store, store')
      <3> DEFINE t == Removed(store, Trimmed(store, n))
      <3>1. CASE n > MaxResultBytes
        BY <2>2, <2>4, <3>1 DEF Applied
      <3>2. CASE ~(n > MaxResultBytes)
        <4>1. Sound(t)
          BY RemovedSound DEF Trimmed
        <4>2. Keeps(store, t)
          BY RemovedKeeps
        <4>3. t.state[j] = "running"
          BY <1>0, <1>3, RemovedFields
        <4>4. \/ store' = Stored(Failed(t, j), j)
              \/ store' = Stored([t EXCEPT !.state[j] = "complete", !.bytes[j] = n], j)
          BY <2>4, <3>2 DEF Applied
        <4> HIDE DEF t
        <4>5. /\ Keeps(store, Stored(Failed(t, j), j))
              /\ Keeps(store, Stored([t EXCEPT !.state[j] = "complete", !.bytes[j] = n], j))
          BY <1>2, <4>1, <4>2, <4>3
        <4> QED BY <4>4, <4>5
      <3> QED BY <3>1, <3>2
    <2> QED BY <1>3, <2>3, <2>4 DEF Deliver
  <1> QED BY <1>1, <1>3

LEMMA NextKeeps ==
  ASSUME JobsAssumption, Sound(store), [Next]_store
  PROVE  Keeps(store, store')
  <1>0. store \in Stores
    BY DEF Sound
  <1>1. CASE Sweep
    BY <1>1, SweptKeeps DEF Sweep
  <1>2. ASSUME NEW id \in Ids, NEW k \in Keys, NEW refresh \in BOOLEAN,
               Create(id, k, refresh)
        PROVE  Keeps(store, store')
    BY <1>2, CreateKeeps
  <1>3. ASSUME NEW id \in Ids, Release(id)
        PROVE  Keeps(store, store')
    BY <1>3, WithoutKeeps DEF Release
  <1>4. CASE store'.state = store.state /\ store'.bytes = store.bytes
    BY <1>4 DEF Keeps
  <1>5. ASSUME NEW id \in Ids, LeaseLapses(id)
        PROVE  Keeps(store, store')
    BY <1>0, <1>4, <1>5 DEF LeaseLapses, Stores
  <1>6. ASSUME NEW j \in Jobs, SnapshotExpires(j) \/ Start(j) \/ Settle(j)
        PROVE  Keeps(store, store')
    BY <1>0, <1>4, <1>6 DEF SnapshotExpires, Start, Settle, Stores
  <1>7. CASE Close
    <2> DEFINE t == Without(store, Clients(store))
    <2>1. t \in Stores
      BY WithoutFields DEF Sound
    <2>2. Keeps(store, t)
      BY WithoutKeeps
    <2>3. store' = [t EXCEPT !.closed = TRUE, !.entries = {},
                             !.byKey = [k \in Keys |-> None]]
      BY <1>7 DEF Close
    <2> HIDE DEF t
    <2>4. store'.state = t.state /\ store'.bytes = t.bytes
      BY <2>1, <2>3 DEF Stores
    <2> QED BY <2>2, <2>4 DEF Keeps
  <1>8. ASSUME NEW j \in Jobs, Deliver(j)
        PROVE  Keeps(store, store')
    BY <1>8, DeliverKeeps
  <1>9. ASSUME NEW j \in Jobs, Retire(j)
        PROVE  Keeps(store, store')
    <2> DEFINE g == GivenBack(store, j)
    <2>1. Sound(g) /\ store' \in Pumped(g)
      BY <1>9, GivenBackSound DEF Retire
    <2>2. g.state = store.state /\ g.bytes = store.bytes
      BY <1>0 DEF GivenBack, Stores
    <2> HIDE DEF g
    <2>3. Keeps(g, store')
      BY <2>1, PumpedKeeps
    <2> QED BY <2>2, <2>3 DEF Keeps
  <1>10. CASE UNCHANGED store
    BY <1>10 DEF Keeps
  <1> QED BY <1>1, <1>2, <1>3, <1>5, <1>6, <1>7, <1>8, <1>9, <1>10 DEF Next, Work

-----------------------------------------------------------------------------
(* Limits.                                                                  *)

(* Only a complete entry counts bytes.                                      *)
Unsized(s) == \A j \in Jobs : s.bytes[j] # 0 => s.state[j] = "complete"

Limited(s) ==
  /\ Cardinality(s.entries) <= MaxJobs
  /\ Cardinality(Clients(s)) <= MaxClients
  /\ Used(s, s.entries) <= MaxCacheBytes
  /\ \A j \in Jobs : s.bytes[j] <= MaxResultBytes
  /\ Unsized(s)

(* t holds no entry, lease or byte that s does not hold.                    *)
Within(s, t) ==
  /\ t.entries \in SUBSET s.entries
  /\ Clients(t) \in SUBSET Clients(s)
  /\ t.bytes = s.bytes
  /\ \A j \in Jobs : s.state[j] = "complete" => t.state[j] = "complete"

(* One element more counts at most one more.                                *)
LEMMA OneMore ==
  ASSUME NEW S, IsFiniteSet(S), NEW x
  PROVE  /\ IsFiniteSet(S \cup {x})
         /\ Cardinality(S \cup {x}) \in Nat
         /\ Cardinality(S \cup {x}) <= Cardinality(S) + 1
  <1>1. IsFiniteSet(S \cup {x})
    BY FS_AddElement
  <1>2. Cardinality(S \cup {x}) =
          IF x \in S THEN Cardinality(S) ELSE Cardinality(S) + 1
    BY FS_AddElement
  <1>3. Cardinality(S) \in Nat
    BY FS_CardinalityType
  <1> HIDE <1>1
  <1> QED BY <1>1, <1>2, <1>3

LEMMA UsedSum ==
  ASSUME NEW s, NEW js
  PROVE  Used(s, js) = SumOver(s.bytes, js)
  BY DEF Used, SumOver

(* What a store counts is finite.                                           *)
LEMMA StoreFinite ==
  ASSUME JobsAssumption, NEW s \in Stores
  PROVE  /\ IsFiniteSet(s.entries) /\ Cardinality(s.entries) \in Nat
         /\ IsFiniteSet(Clients(s)) /\ Cardinality(Clients(s)) \in Nat
         /\ \A j \in Jobs : s.bytes[j] \in Nat
         /\ \A js \in SUBSET s.entries : Used(s, js) \in Nat
  <1>1. s.entries \in SUBSET Jobs /\ \A j \in Jobs : s.bytes[j] \in Nat
    BY DEF Stores
  <1>2. IsFiniteSet(s.entries)
    BY <1>1, JobsFinite, FS_Subset
  <1>3. IsFiniteSet(Clients(s))
    <2>1. Clients(s) \in SUBSET Ids
      BY DEF Clients
    <2> QED BY <2>1, FS_Subset DEF JobsAssumption
  <1>4. ASSUME NEW js \in SUBSET s.entries PROVE Used(s, js) \in Nat
    <2>1. IsFiniteSet(js)
      BY <1>2, FS_Subset
    <2>2. \A j \in js : s.bytes[j] \in Nat
      BY <1>1
    <2>3. SumOver(s.bytes, js) \in Nat
      BY <2>1, <2>2, SumType
    <2> QED BY <2>3, UsedSum
  <1> QED BY <1>1, <1>2, <1>3, <1>4, FS_CardinalityType

(* A store within a limited one is limited.                                 *)
LEMMA WithinLimited ==
  ASSUME JobsAssumption, NEW s \in Stores, NEW t \in Stores,
         Limited(s), Within(s, t)
  PROVE  Limited(t)
  <1>1. /\ IsFiniteSet(s.entries) /\ Cardinality(s.entries) \in Nat
        /\ IsFiniteSet(Clients(s)) /\ Cardinality(Clients(s)) \in Nat
        /\ \A j \in Jobs : s.bytes[j] \in Nat
    BY StoreFinite
  <1>2. Cardinality(t.entries) \in Nat /\ Cardinality(Clients(t)) \in Nat
    BY StoreFinite
  <1>3. t.entries \in SUBSET s.entries /\ Clients(t) \in SUBSET Clients(s)
        /\ t.bytes = s.bytes
    BY DEF Within
  <1>4. Cardinality(t.entries) <= Cardinality(s.entries)
    BY <1>1, <1>3, FS_Subset
  <1>5. Cardinality(Clients(t)) <= Cardinality(Clients(s))
    BY <1>1, <1>3, FS_Subset
  <1>6. Used(t, t.entries) <= Used(s, s.entries)
    <2>1. \A j \in s.entries : s.bytes[j] \in Nat
      BY <1>1 DEF Stores
    <2>2. SumOver(s.bytes, t.entries) <= SumOver(s.bytes, s.entries)
      BY <1>1, <1>3, <2>1, SumMonotone
    <2> QED BY <1>3, <2>2, UsedSum
  <1>7. Used(t, t.entries) \in Nat /\ Used(s, s.entries) \in Nat
    BY StoreFinite
  <1>8. MaxJobs \in Nat /\ MaxClients \in Nat /\ MaxCacheBytes \in Nat
    BY DEF JobsAssumption
  <1>9. Unsized(t)
    BY <1>3 DEF Within, Unsized, Limited
  <1> QED BY <1>1, <1>2, <1>3, <1>4, <1>5, <1>6, <1>7, <1>8, <1>9 DEF Limited

LEMMA WithinAll ==
  ASSUME NEW s, NEW t, NEW u, Within(s, t), Within(t, u)
  PROVE  Within(s, u)
  BY DEF Within

(* Methods that only take away.                                             *)
LEMMA RemovedWithin ==
  ASSUME NEW s \in Stores, NEW js
  PROVE  Within(s, Removed(s, js))
  <1> DEFINE t == Removed(s, js)
  <1>1. /\ t.entries = s.entries \ js /\ t.lease = s.lease
        /\ t.bytes = s.bytes /\ t.state = s.state
    BY RemovedFields
  <1> HIDE DEF t
  <1>2. Within(s, t)
    BY <1>1 DEF Within, Clients
  <1> QED BY <1>2 DEF t

LEMMA WithoutWithin ==
  ASSUME NEW s \in Stores, NEW ids
  PROVE  Within(s, Without(s, ids))
  <1> DEFINE t == Without(s, ids)
             gone == Abandoned(s, ids)
  <1>1. /\ t \in Stores
        /\ t.entries = s.entries \ gone
        /\ t.byKey = [k \in Keys |-> IF s.byKey[k] \in gone THEN None ELSE s.byKey[k]]
        /\ t.lease = [id \in Ids |-> IF id \in ids THEN None ELSE s.lease[id]]
        /\ t.state = [j \in Jobs |-> IF j \in gone THEN "cancelled" ELSE s.state[j]]
        /\ t.stage = [j \in Jobs |->
              IF j \in gone /\ s.stage[j] = "working" THEN "settled" ELSE s.stage[j]]
        /\ t.key = s.key /\ t.bytes = s.bytes
    BY WithoutFields
  <1>2. \A j \in gone : s.state[j] # "complete"
    BY DEF Abandoned, IsActive, Active
  <1> HIDE DEF t, gone
  <1>3. Within(s, t)
    BY <1>1, <1>2 DEF Within, Clients
  <1> QED BY <1>3 DEF t

LEMMA SweptWithin ==
  ASSUME NEW s \in Stores
  PROVE  Within(s, Swept(s)) /\ Swept(s) \in Stores
  <1> DEFINE t == Without(s, s.late)
             u == Removed(t, Unused(t) \cap t.expired)
  <1>1. t \in Stores /\ Within(s, t)
    BY WithoutFields, WithoutWithin
  <1> HIDE DEF t
  <1>2. u \in Stores /\ Within(t, u)
    BY <1>1, RemovedFields, RemovedWithin
  <1>3. Swept(s) = u
    BY DEF Swept, t
  <1> HIDE DEF u
  <1> QED BY <1>1, <1>2, <1>3, WithinAll

LEMMA EvictedWithin ==
  ASSUME NEW s \in Stores
  PROVE  Within(s, Evicted(s))
  <1>1. Within(s, s)
    BY DEF Within
  <1> QED BY <1>1, RemovedWithin DEF Evicted

LEMMA PumpedWithin ==
  ASSUME JobsAssumption, NEW s \in Stores, NEW t \in Pumped(s)
  PROVE  t \in Stores /\ Within(s, t)
  <1>1. CASE s.closed
    BY <1>1 DEF Pumped, Within
  <1>2. CASE ~s.closed
    <2>1. PICK js \in Claims(s) :
            /\ t \in Stores
            /\ t.state = [j \in Jobs |-> IF j \in js THEN "running" ELSE s.state[j]]
            /\ t.entries = s.entries /\ t.lease = s.lease /\ t.bytes = s.bytes
      BY <1>2, PumpedFields
    <2>2. \A j \in js : s.state[j] = "queued"
      BY DEF Claims, Queued
    <2> QED BY <2>1, <2>2 DEF Within, Clients
  <1> QED BY <1>1, <1>2

(* A lease more, while there is room for it.                                *)
LEMMA JoinedLimited ==
  ASSUME JobsAssumption, NEW s \in Stores, Limited(s),
         NEW id \in Ids, NEW j \in Jobs,
         Cardinality(Clients(s)) < MaxClients
  PROVE  Joined(s, id, j) \in Stores /\ Limited(Joined(s, id, j))
  <1> DEFINE t == Joined(s, id, j)
  <1>1. /\ t \in Stores
        /\ t.lease = [s.lease EXCEPT ![id] = j]
        /\ t.entries = s.entries /\ t.bytes = s.bytes /\ t.state = s.state
    BY DEF Joined, Stores
  <1> HIDE DEF t
  <1>2. Clients(t) \in SUBSET (Clients(s) \cup {id})
    BY <1>1 DEF Clients, Stores
  <1>3. /\ IsFiniteSet(Clients(s)) /\ Cardinality(Clients(s)) \in Nat
        /\ Cardinality(Clients(t)) \in Nat
    BY <1>1, StoreFinite
  <1>4. /\ IsFiniteSet(Clients(s) \cup {id})
        /\ Cardinality(Clients(s) \cup {id}) <= Cardinality(Clients(s)) + 1
        /\ Cardinality(Clients(s) \cup {id}) \in Nat
    BY <1>3, OneMore
  <1>5. Cardinality(Clients(t)) <= Cardinality(Clients(s) \cup {id})
    BY <1>2, <1>4, FS_Subset
  <1>6. Cardinality(Clients(t)) <= MaxClients
    BY <1>3, <1>4, <1>5 DEF JobsAssumption
  <1>7. Used(t, t.entries) = Used(s, s.entries)
    BY <1>1, UsedSum
  <1>8. Limited(t)
    BY <1>1, <1>6, <1>7 DEF Limited, Unsized
  <1> QED BY <1>1, <1>8 DEF t

(* An entry more, while there is room for it; it counts no bytes.           *)
LEMMA QueueLimited ==
  ASSUME JobsAssumption, NEW s \in Stores, Limited(s),
         NEW j \in Jobs, NEW k \in Keys,
         s.state[j] = "none", Cardinality(s.entries) < MaxJobs
  PROVE  /\ Queue(s, j, k) \in Stores /\ Limited(Queue(s, j, k))
         /\ Clients(Queue(s, j, k)) = Clients(s)
  <1> DEFINE t == Queue(s, j, k)
  <1>1. /\ t \in Stores
        /\ t.entries = s.entries \cup {j}
        /\ t.state = [s.state EXCEPT ![j] = "queued"]
        /\ t.lease = s.lease /\ t.bytes = s.bytes
    <2>0. j \in 0..MaxCreated
      BY DEF Jobs, JobsAssumption
    <2>1. /\ t.entries = s.entries \cup {j}
          /\ t.byKey = [s.byKey EXCEPT ![k] = j]
          /\ t.state = [s.state EXCEPT ![j] = "queued"]
          /\ t.key = [s.key EXCEPT ![j] = k]
          /\ t.created = j
          /\ t.lease = s.lease /\ t.bytes = s.bytes
      BY DEF Queue, Stores
    <2>2. [s.byKey EXCEPT ![k] = j] \in [Keys -> Jobs \cup {None}]
      BY DEF Stores
    <2>3. [s.state EXCEPT ![j] = "queued"] \in [Jobs -> States]
      BY DEF Stores, States, Active
    <2>4. [s.key EXCEPT ![j] = k] \in [Jobs -> Keys \cup {None}]
      BY DEF Stores
    <2>5. t \in Stores
      BY <2>0, <2>2, <2>3, <2>4 DEF Queue, Stores
    <2> QED BY <2>1, <2>5
  <1> HIDE DEF t
  <1>2. /\ IsFiniteSet(s.entries) /\ Cardinality(s.entries) \in Nat
        /\ \A i \in Jobs : s.bytes[i] \in Nat
    BY StoreFinite
  <1>3. s.bytes[j] = 0
    BY DEF Limited, Unsized
  <1>4. Cardinality(t.entries) <= MaxJobs
    <2>1. /\ Cardinality(s.entries \cup {j}) \in Nat
          /\ Cardinality(s.entries \cup {j}) <= Cardinality(s.entries) + 1
      BY <1>2, OneMore
    <2>2. MaxJobs \in Nat
      BY DEF JobsAssumption
    <2> QED BY <1>1, <1>2, <2>1, <2>2
  <1>5. Used(t, t.entries) = Used(s, s.entries)
    <2>1. CASE j \in s.entries
      <3>1. t.entries = s.entries
        BY <1>1, <2>1
      <3> QED BY <1>1, <3>1, UsedSum
    <2>2. CASE j \notin s.entries
      <3>1. \A i \in s.entries \cup {j} : s.bytes[i] \in Nat
        BY <1>2 DEF Stores
      <3>2. SumOver(s.bytes, s.entries \cup {j})
              = s.bytes[j] + SumOver(s.bytes, s.entries)
        BY <1>2, <2>2, <3>1, SumAdd
      <3>3. Used(t, t.entries) = SumOver(s.bytes, s.entries \cup {j})
        BY <1>1, UsedSum
      <3>4. Used(s, s.entries) = SumOver(s.bytes, s.entries)
            /\ Used(s, s.entries) \in Nat
        BY UsedSum, StoreFinite
      <3> QED BY <1>3, <3>2, <3>3, <3>4
    <2> QED BY <2>1, <2>2
  <1>6. Unsized(t)
    BY <1>1, <1>3 DEF Limited, Unsized, Stores
  <1>7. Clients(t) = Clients(s)
    BY <1>1 DEF Clients
  <1>8. Limited(t)
    BY <1>1, <1>4, <1>5, <1>6, <1>7 DEF Limited
  <1> QED BY <1>1, <1>7, <1>8 DEF t

(* A running job ends with a result that fits.                              *)
LEMMA CompletedLimited ==
  ASSUME JobsAssumption, NEW s \in Stores, Limited(s),
         NEW j \in s.entries, s.state[j] = "running",
         NEW n \in Nat, n <= MaxResultBytes,
         Used(s, s.entries) + n <= MaxCacheBytes
  PROVE  LET t == [s EXCEPT !.state[j] = "complete", !.bytes[j] = n] IN
         t \in Stores /\ Limited(t)
  <1> DEFINE t == [s EXCEPT !.state[j] = "complete", !.bytes[j] = n]
  <1>1. /\ t \in Stores /\ j \in Jobs
        /\ t.state = [s.state EXCEPT ![j] = "complete"]
        /\ t.bytes = [s.bytes EXCEPT ![j] = n]
        /\ t.entries = s.entries /\ t.lease = s.lease
    BY DEF Stores, States, Finished
  <1> HIDE DEF t
  <1>2. /\ IsFiniteSet(s.entries)
        /\ \A i \in s.entries : s.bytes[i] \in Nat /\ t.bytes[i] \in Nat
    BY <1>1, StoreFinite DEF Stores
  <1>3. s.bytes[j] = 0
    BY <1>1 DEF Limited, Unsized
  <1>4. Used(t, t.entries) = Used(s, s.entries) + n
    <2> DEFINE rest == s.entries \ {j}
    <2>1. IsFiniteSet(rest) /\ Agree(s.bytes, t.bytes, rest)
      BY <1>1, <1>2, FS_Subset DEF Agree, Stores
    <2>2. SumOver(s.bytes, rest) = SumOver(t.bytes, rest)
      BY <2>1, SumSame
    <2>3. SumOver(s.bytes, s.entries) = s.bytes[j] + SumOver(s.bytes, rest)
      BY <1>2, SumTakeOut
    <2>4. SumOver(t.bytes, s.entries) = t.bytes[j] + SumOver(t.bytes, rest)
      BY <1>2, SumTakeOut
    <2>5. t.bytes[j] = n
      BY <1>1 DEF Stores
    <2>6. SumOver(s.bytes, rest) \in Nat
      BY <1>2, <2>1, SumType
    <2> HIDE DEF rest
    <2>7. SumOver(t.bytes, s.entries) = SumOver(s.bytes, s.entries) + n
      BY <1>3, <2>2, <2>3, <2>4, <2>5, <2>6
    <2> QED BY <1>1, <2>7, UsedSum
  <1>5. \A i \in Jobs : t.bytes[i] <= MaxResultBytes
    BY <1>1 DEF Limited, Stores
  <1>6. Unsized(t)
    BY <1>1 DEF Limited, Unsized, Stores
  <1>7. Clients(t) = Clients(s)
    BY <1>1 DEF Clients
  <1>8. Limited(t)
    BY <1>1, <1>4, <1>5, <1>6, <1>7 DEF Limited
  <1> QED BY <1>1, <1>8 DEF t

(* create: nothing is evicted that was not unused, and what is added has    *)
(* room (the limits create checks after sweep and evict).                   *)
LEMMA CreateLimited ==
  ASSUME JobsAssumption, Sound(store), Limited(store),
         NEW id \in Ids, NEW k \in Keys, NEW refresh \in BOOLEAN,
         Create(id, k, refresh)
  PROVE  Limited(store')
  <1> DEFINE s == Swept(store)
             t == Evicted(s)
             j == store.created + 1
  <1>1. /\ Sound(s) /\ Sound(t) /\ s \in Stores /\ t \in Stores
        /\ store \in Stores
    BY SweptSound, EvictedSound DEF Sound
  <1>2. Within(store, s) /\ Within(s, t)
    BY <1>1, SweptWithin, EvictedWithin
  <1>3. Cardinality(Clients(s)) < MaxClients
    BY DEF Create
  <1>4. ASSUME NEW q \in Stores, Limited(q), store' \in Pumped(q)
        PROVE  Limited(store')
    BY <1>4, PumpedWithin, WithinLimited
  <1>5. CASE Joinable(s, k, refresh)
    <2>1. store' \in Pumped(Joined(s, id, s.byKey[k]))
      BY <1>5 DEF Create
    <2>2. s.byKey[k] \in Jobs
      BY <1>1, <1>5 DEF Joinable, Stores
    <2> HIDE DEF s
    <2>3. Limited(s)
      BY <1>1, <1>2, WithinLimited
    <2>4. Joined(s, id, s.byKey[k]) \in Stores
          /\ Limited(Joined(s, id, s.byKey[k]))
      BY <1>1, <1>3, <2>2, <2>3, JoinedLimited
    <2> QED BY <1>4, <2>1, <2>4
  <1>6. CASE ~Joinable(s, k, refresh)
    <2>1. /\ store' \in Pumped(Joined(Queue(t, j, k), id, j))
          /\ Cardinality(t.entries) < MaxJobs /\ store.created < MaxCreated
      BY <1>6 DEF Create
    <2>2. t.created = store.created
      BY <1>6, CreateQueues
    <2>3. j \in Jobs /\ j > t.created
      BY <1>1, <2>1, <2>2 DEF Stores, Jobs, JobsAssumption
    <2> HIDE DEF s, t, j
    <2>4. t.state[j] = "none"
      BY <1>1, <2>3 DEF Sound, EntriesHeld
    <2>5. Limited(s) /\ Limited(t)
      BY <1>1, <1>2, WithinLimited
    <2>6. Cardinality(Clients(t)) < MaxClients
      <3>1. Clients(t) \in SUBSET Clients(s)
        BY <1>2 DEF Within
      <3>2. /\ IsFiniteSet(Clients(s)) /\ Cardinality(Clients(s)) \in Nat
            /\ Cardinality(Clients(t)) \in Nat
        BY <1>1, StoreFinite
      <3>3. Cardinality(Clients(t)) <= Cardinality(Clients(s))
        BY <3>1, <3>2, FS_Subset
      <3> QED BY <1>3, <3>2, <3>3 DEF JobsAssumption
    <2> DEFINE q == Queue(t, j, k)
    <2>7. q \in Stores /\ Limited(q) /\ Clients(q) = Clients(t)
      BY <1>1, <2>1, <2>3, <2>4, <2>5, QueueLimited
    <2> HIDE DEF q
    <2>8. Joined(q, id, j) \in Stores /\ Limited(Joined(q, id, j))
      BY <2>3, <2>6, <2>7, JoinedLimited
    <2>9. store' \in Pumped(Joined(q, id, j))
      BY <2>1 DEF q
    <2> QED BY <1>4, <2>8, <2>9
  <1> QED BY <1>5, <1>6

(* A step of the promise chain that leaves the entries and the leases, and  *)
(* fails a job at most.                                                     *)
LEMMA FailedWithin ==
  ASSUME NEW s \in Stores, NEW j \in Jobs, s.state[j] # "complete"
  PROVE  /\ Stored(s, j) \in Stores /\ Within(s, Stored(s, j))
         /\ Failed(s, j) \in Stores /\ Within(s, Failed(s, j))
         /\ Stored(Failed(s, j), j) \in Stores
         /\ Within(s, Stored(Failed(s, j), j))
  <1>1. ASSUME NEW t \in Stores
        PROVE  /\ Stored(t, j) \in Stores
               /\ Stored(t, j).state = t.state /\ Stored(t, j).bytes = t.bytes
               /\ Stored(t, j).entries = t.entries
               /\ Stored(t, j).lease = t.lease
    BY DEF Stored, Stores, Stages
  <1>2. ASSUME NEW t \in Stores PROVE Within(t, Stored(t, j))
    BY <1>1 DEF Within, Clients
  <1> DEFINE f == Failed(s, j)
  <1>3. /\ f \in Stores
        /\ f.state = [s.state EXCEPT ![j] = "failed"] /\ f.bytes = s.bytes
        /\ f.entries = s.entries /\ f.lease = s.lease
    BY DEF Failed, Stores, States, Finished
  <1> HIDE DEF f
  <1>4. Within(s, f)
    BY <1>3 DEF Within, Clients, Stores
  <1>5. Stored(f, j) \in Stores /\ Within(f, Stored(f, j))
    BY <1>1, <1>2, <1>3
  <1>6. Within(s, Stored(f, j))
    BY <1>4, <1>5, WithinAll
  <1> QED BY <1>1, <1>2, <1>3, <1>4, <1>5, <1>6 DEF f

(* Whatever a decode returned, it is kept only if it fits after trimming.   *)
LEMMA DeliverLimited ==
  ASSUME JobsAssumption, Sound(store), Limited(store), NEW j \in Jobs, Deliver(j)
  PROVE  Limited(store')
  <1>1. store \in Stores
    BY DEF Sound
  <1>2. ASSUME NEW s \in Stores, Limited(s), s.state[j] = "running"
        PROVE  Limited(Stored(Failed(s, j), j))
    BY <1>2, FailedWithin, WithinLimited
  <1>3. CASE store.state[j] # "running"
    <2>1. store' = Stored(store, j)
      BY <1>3 DEF Deliver
    <2>2. /\ Stored(store, j) \in Stores
          /\ Stored(store, j).state = store.state
          /\ Stored(store, j).bytes = store.bytes
          /\ Stored(store, j).entries = store.entries
          /\ Stored(store, j).lease = store.lease
      BY <1>1 DEF Stored, Stores, Stages
    <2>3. Within(store, Stored(store, j))
      BY <2>2 DEF Within, Clients
    <2> QED BY <1>1, <2>1, <2>2, <2>3, WithinLimited
  <1>4. CASE store.state[j] = "running"
    <2>1. CASE store' = Stored(Failed(store, j), j)
      BY <1>1, <1>2, <1>4, <2>1
    <2>2. ASSUME NEW n \in Sizes, store' = Stored(Applied(store, j, n), j)
          PROVE  Limited(store')
      <3> DEFINE t == Removed(store, Trimmed(store, n))
      <3>1. CASE n > MaxResultBytes
        BY <1>1, <1>2, <1>4, <2>2, <3>1 DEF Applied
      <3>2. CASE ~(n > MaxResultBytes)
        <4>1. Sound(t) /\ t \in Stores
          BY RemovedSound DEF Trimmed, Sound
        <4>2. Within(store, t)
          BY <1>1, RemovedWithin
        <4>3. t.state[j] = "running"
          BY <1>1, <1>4, RemovedFields
        <4>4. store' =
                Stored(IF Used(t, t.entries) + n > MaxCacheBytes THEN Failed(t, j)
                       ELSE [t EXCEPT !.state[j] = "complete", !.bytes[j] = n], j)
          BY <2>2, <3>2 DEF Applied
        <4> HIDE DEF t
        <4>5. Limited(t)
          BY <1>1, <4>1, <4>2, WithinLimited
        <4>6. CASE Used(t, t.entries) + n > MaxCacheBytes
          BY <1>2, <4>1, <4>3, <4>4, <4>5, <4>6
        <4>7. CASE ~(Used(t, t.entries) + n > MaxCacheBytes)
          <5> DEFINE u == [t EXCEPT !.state[j] = "complete", !.bytes[j] = n]
          <5>1. j \in t.entries
            BY <4>1, <4>3 DEF Sound, Wanted, IsActive, Active
          <5>2. /\ n \in Nat /\ n <= MaxResultBytes
                /\ Used(t, t.entries) + n <= MaxCacheBytes
            <6>1. Used(t, t.entries) \in Nat
              BY <4>1, StoreFinite
            <6> QED BY <3>2, <4>7, <6>1 DEF JobsAssumption
          <5>3. u \in Stores /\ Limited(u)
            BY <4>1, <4>3, <4>5, <5>1, <5>2, CompletedLimited
          <5>4. store' = Stored(u, j)
            BY <4>4, <4>7
          <5> HIDE DEF u
          <5>5. /\ Stored(u, j) \in Stores
                /\ Stored(u, j).state = u.state /\ Stored(u, j).bytes = u.bytes
                /\ Stored(u, j).entries = u.entries
                /\ Stored(u, j).lease = u.lease
            BY <5>3 DEF Stored, Stores, Stages
          <5>6. Within(u, Stored(u, j))
            BY <5>5 DEF Within, Clients
          <5> QED BY <5>3, <5>4, <5>5, <5>6, WithinLimited
        <4> QED BY <4>6, <4>7
      <3> QED BY <3>1, <3>2
    <2> QED BY <1>4, <2>1, <2>2 DEF Deliver
  <1> QED BY <1>3, <1>4

(* Every step keeps the limits.                                             *)
LEMMA NextLimited ==
  ASSUME JobsAssumption, Sound(store), Sound(store'), Limited(store),
         [Next]_store
  PROVE  Limited(store')
  <1>0. store \in Stores /\ store' \in Stores
    BY DEF Sound
  <1>1. Within(store, store') => Limited(store')
    BY <1>0, WithinLimited
  <1>2. CASE Sweep
    BY <1>0, <1>1, <1>2, SweptWithin DEF Sweep
  <1>3. ASSUME NEW id \in Ids, NEW k \in Keys, NEW refresh \in BOOLEAN,
               Create(id, k, refresh)
        PROVE  Limited(store')
    BY <1>3, CreateLimited
  <1>4. ASSUME NEW id \in Ids, Release(id) PROVE Limited(store')
    BY <1>0, <1>1, <1>4, WithoutWithin DEF Release
  <1>5. ASSUME /\ store'.entries = store.entries
               /\ store'.lease = store.lease
               /\ store'.bytes = store.bytes
               /\ store'.state = store.state
        PROVE  Limited(store')
    BY <1>1, <1>5 DEF Within, Clients
  <1>6. ASSUME NEW id \in Ids, LeaseLapses(id) PROVE Limited(store')
    BY <1>0, <1>5, <1>6 DEF LeaseLapses, Stores
  <1>7. ASSUME NEW j \in Jobs, SnapshotExpires(j) \/ Start(j) \/ Settle(j)
        PROVE  Limited(store')
    BY <1>0, <1>5, <1>7 DEF SnapshotExpires, Start, Settle, Stores
  <1>8. CASE Close
    <2> DEFINE t == Without(store, Clients(store))
    <2>1. t \in Stores /\ Within(store, t)
      BY <1>0, WithoutFields, WithoutWithin
    <2>2. store' = [t EXCEPT !.closed = TRUE, !.entries = {},
                             !.byKey = [k \in Keys |-> None]]
      BY <1>8 DEF Close
    <2> HIDE DEF t
    <2>3. /\ store'.entries = {} /\ store'.lease = t.lease
          /\ store'.bytes = t.bytes /\ store'.state = t.state
      BY <2>1, <2>2 DEF Stores
    <2>4. Within(t, store')
      BY <2>3 DEF Within, Clients
    <2> QED BY <1>1, <2>1, <2>4, WithinAll
  <1>9. ASSUME NEW j \in Jobs, Deliver(j) PROVE Limited(store')
    BY <1>9, DeliverLimited
  <1>10. ASSUME NEW j \in Jobs, Retire(j) PROVE Limited(store')
    <2> DEFINE g == GivenBack(store, j)
    <2>1. g \in Stores /\ store' \in Pumped(g)
      BY <1>10, GivenBackSound DEF Retire, Sound
    <2>2. /\ g.entries = store.entries /\ g.lease = store.lease
          /\ g.bytes = store.bytes /\ g.state = store.state
      BY <1>0 DEF GivenBack, Stores
    <2> HIDE DEF g
    <2>3. Within(store, g)
      BY <2>2 DEF Within, Clients
    <2>4. Within(g, store')
      BY <2>1, PumpedWithin
    <2> QED BY <1>1, <2>3, <2>4, WithinAll
  <1>11. CASE UNCHANGED store
    BY <1>5, <1>11
  <1> QED BY <1>2, <1>3, <1>4, <1>6, <1>7, <1>8, <1>9, <1>10, <1>11
          DEF Next, Work

(* An empty store is within every limit.                                    *)
LEMMA InitLimited == JobsAssumption /\ Init => Limited(store)
  <1> SUFFICES ASSUME JobsAssumption, Init PROVE Limited(store)
    OBVIOUS
  <1>1. store.entries = {} /\ Clients(store) = {}
        /\ \A j \in Jobs : store.bytes[j] = 0
    BY DEF Init, Clients
  <1>2. Used(store, {}) = 0
    BY UsedSum, SumEmpty
  <1>3. Cardinality({}) = 0
    BY FS_EmptySet
  <1> QED BY <1>1, <1>2, <1>3 DEF Limited, Unsized, JobsAssumption

-----------------------------------------------------------------------------
(* What the viewers see.                                                    *)

SameView(s, t) ==
  \A i \in Ids : Looks(t, i) = Looks(s, i) /\ Told(t, i) = Told(s, i)

LeftView(s, t, ids) ==
  \A i \in Ids :
    /\ Looks(t, i) = IF i \in ids THEN None ELSE Looks(s, i)
    /\ Told(t, i) = IF i \in ids THEN "none" ELSE Told(s, i)

WaitingFor(s, k) == {i \in Ids : Looks(s, i) = k /\ Told(s, i) = "waiting"}

AskedView(s, t, ids, id, k, told) ==
  /\ id \in ids \/ Told(s, id) = "none"
  /\ told = "complete" => WaitingFor(s, k) \subseteq ids
  /\ \A i \in Ids :
       /\ Looks(t, i) = IF i = id THEN k
                        ELSE IF i \in ids THEN None ELSE Looks(s, i)
       /\ Told(t, i) = IF i = id THEN told
                       ELSE IF i \in ids THEN "none" ELSE Told(s, i)

ToldView(s, t, k, told) ==
  /\ WaitingFor(s, k) # {}
  /\ \A i \in Ids :
       /\ Looks(t, i) = Looks(s, i)
       /\ Told(t, i) = IF i \in WaitingFor(s, k) THEN told ELSE Told(s, i)

ViewStep(s, t) ==
  \/ SameView(s, t)
  \/ \E ids \in SUBSET Ids : LeftView(s, t, ids)
  \/ \E ids \in SUBSET Ids, id \in Ids, k \in Keys,
        told \in {"waiting", "complete"} : AskedView(s, t, ids, id, k, told)
  \/ \E k \in Keys, told \in {"complete", "failed"} : ToldView(s, t, k, told)

(* Viewers see their leases, and the key and state of what they lease.      *)
LEMMA SameViewOf ==
  ASSUME NEW s \in Stores, NEW t \in Stores,
         t.lease = s.lease, t.key = s.key,
         \A j \in Jobs : \/ t.state[j] = s.state[j]
                         \/ IsActive(s, j) /\ IsActive(t, j)
  PROVE  SameView(s, t)
  <1> SUFFICES ASSUME NEW i \in Ids
               PROVE  Looks(t, i) = Looks(s, i) /\ Told(t, i) = Told(s, i)
    BY DEF SameView
  <1>1. Looks(t, i) = Looks(s, i)
    BY DEF Looks
  <1>2. CASE s.lease[i] = None
    BY <1>1, <1>2 DEF Told
  <1>3. CASE s.lease[i] # None
    <2>1. s.lease[i] \in Jobs
      BY <1>3 DEF Stores
    <2> QED BY <1>1, <1>3, <2>1 DEF Told, IsActive
  <1> QED BY <1>2, <1>3

LEMMA SameViewAll ==
  ASSUME NEW s, NEW t, NEW u, SameView(s, t)
  PROVE  /\ SameView(t, u) => SameView(s, u)
         /\ \A ids : LeftView(t, u, ids) => LeftView(s, u, ids)
  BY DEF SameView, LeftView

LEMMA RemovedView ==
  ASSUME NEW s \in Stores, NEW js
  PROVE  SameView(s, Removed(s, js))
  <1> DEFINE t == Removed(s, js)
  <1>1. t \in Stores /\ t.lease = s.lease /\ t.key = s.key /\ t.state = s.state
    BY RemovedFields
  <1> HIDE DEF t
  <1>2. SameView(s, t)
    BY <1>1, SameViewOf
  <1> QED BY <1>2 DEF t

(* Viewers who leave cancel nothing that others see.                        *)
LEMMA WithoutView ==
  ASSUME NEW s, Sound(s), NEW ids \in SUBSET Ids
  PROVE  LeftView(s, Without(s, ids), ids)
  <1> DEFINE t == Without(s, ids)
             gone == Abandoned(s, ids)
  <1>1. s \in Stores
    BY DEF Sound
  <1>2. /\ t \in Stores
        /\ t.entries = s.entries \ gone
        /\ t.byKey = [k \in Keys |-> IF s.byKey[k] \in gone THEN None ELSE s.byKey[k]]
        /\ t.lease = [id \in Ids |-> IF id \in ids THEN None ELSE s.lease[id]]
        /\ t.state = [j \in Jobs |-> IF j \in gone THEN "cancelled" ELSE s.state[j]]
        /\ t.stage = [j \in Jobs |->
              IF j \in gone /\ s.stage[j] = "working" THEN "settled" ELSE s.stage[j]]
        /\ t.key = s.key
        /\ t.running = s.running /\ t.created = s.created /\ t.closed = s.closed
    BY <1>1, WithoutFields
  <1>3. \A j \in gone : \A id \in Ids : s.lease[id] = j => id \in ids
    BY DEF Abandoned, Viewers
  <1> HIDE DEF t, gone
  <1>4. ASSUME NEW i \in Ids
        PROVE  /\ Looks(t, i) = IF i \in ids THEN None ELSE Looks(s, i)
               /\ Told(t, i) = IF i \in ids THEN "none" ELSE Told(s, i)
    <2>1. CASE i \in ids
      BY <1>2, <2>1 DEF Looks, Told
    <2>2. CASE i \notin ids
      <3>1. t.lease[i] = s.lease[i]
        BY <1>2, <2>2
      <3>2. CASE s.lease[i] = None
        BY <2>2, <3>1, <3>2 DEF Looks, Told
      <3>3. CASE s.lease[i] # None
        <4>1. s.lease[i] \in Jobs /\ s.lease[i] \notin gone
          BY <1>1, <1>3, <2>2, <3>3 DEF Stores
        <4>2. t.state[s.lease[i]] = s.state[s.lease[i]]
          BY <1>2, <4>1
        <4> QED BY <1>2, <2>2, <3>1, <4>2 DEF Looks, Told, IsActive
      <3> QED BY <3>2, <3>3
    <2> QED BY <2>1, <2>2
  <1>5. LeftView(s, t, ids)
    BY <1>4 DEF LeftView
  <1> QED BY <1>5 DEF t

LEMMA SweptView ==
  ASSUME NEW s, Sound(s)
  PROVE  LeftView(s, Swept(s), s.late) /\ s.late \in SUBSET Ids
  <1> DEFINE t == Without(s, s.late)
  <1>1. s.late \in SUBSET Ids
    BY DEF Sound, Stores
  <1>2. LeftView(s, t, s.late) /\ t \in Stores
    BY <1>1, WithoutView, WithoutSound DEF Sound
  <1> HIDE DEF t
  <1> DEFINE u == Removed(t, Unused(t) \cap t.expired)
  <1>3. SameView(t, u)
    BY <1>2, RemovedView
  <1> HIDE DEF u
  <1>4. LeftView(s, u, s.late)
    BY <1>2, <1>3 DEF SameView, LeftView
  <1> QED BY <1>1, <1>4 DEF Swept, t, u

LEMMA EvictedView ==
  ASSUME NEW s \in Stores
  PROVE  SameView(s, Evicted(s))
  BY RemovedView DEF Evicted, SameView

(* A queued decode and a running one look the same.                         *)
LEMMA PumpedView ==
  ASSUME JobsAssumption, NEW s \in Stores, NEW t \in Pumped(s)
  PROVE  SameView(s, t)
  <1>1. CASE s.closed
    BY <1>1 DEF Pumped, SameView
  <1>2. CASE ~s.closed
    <2>1. PICK js \in Claims(s) :
            /\ t \in Stores
            /\ t.state = [j \in Jobs |-> IF j \in js THEN "running" ELSE s.state[j]]
            /\ t.lease = s.lease /\ t.key = s.key
      BY <1>2, PumpedFields
    <2>2. \A j \in js : s.state[j] = "queued"
      BY DEF Claims, Queued
    <2>3. \A j \in Jobs : \/ t.state[j] = s.state[j]
                          \/ IsActive(s, j) /\ IsActive(t, j)
      BY <2>1, <2>2 DEF IsActive, Active
    <2> QED BY <2>1, <2>3, SameViewOf
  <1> QED BY <1>1, <1>2

(* Who waits for a key views the one decode of it.                          *)
LEMMA WaitersView ==
  ASSUME NEW s, Sound(s), NEW k \in Keys
  PROVE  /\ \A i \in WaitingFor(s, k) :
              /\ s.lease[i] \in Jobs
              /\ IsActive(s, s.lease[i])
              /\ s.byKey[k] = s.lease[i]
         /\ \A j \in Jobs : IsActive(s, j) /\ s.key[j] = k =>
              WaitingFor(s, k) = Viewers(s, j)
  <1>1. s \in Stores
    BY DEF Sound
  <1>2. ASSUME NEW i \in WaitingFor(s, k)
        PROVE  /\ s.lease[i] \in Jobs
               /\ IsActive(s, s.lease[i])
               /\ s.byKey[k] = s.lease[i]
    <2>1. i \in Ids /\ Looks(s, i) = k /\ Told(s, i) = "waiting"
      BY DEF WaitingFor
    <2>2. s.lease[i] # None
      BY <2>1 DEF Told
    <2>3. s.lease[i] \in Jobs
      BY <1>1, <2>1, <2>2 DEF Stores
    <2>4. s.state[s.lease[i]] \in States
      BY <1>1, <2>3 DEF Stores
    <2>5. IsActive(s, s.lease[i])
      BY <2>1, <2>2, <2>4 DEF Told, States, Active, Finished
    <2>6. s.key[s.lease[i]] = k
      BY <2>1, <2>2 DEF Looks
    <2> QED BY <2>3, <2>5, <2>6 DEF Sound, Wanted
  <1>3. ASSUME NEW j \in Jobs, IsActive(s, j), s.key[j] = k
        PROVE  WaitingFor(s, k) = Viewers(s, j)
    <2>1. s.byKey[k] = j
      BY <1>3 DEF Sound, Wanted
    <2>2. WaitingFor(s, k) \subseteq Viewers(s, j)
      BY <1>2, <2>1 DEF WaitingFor, Viewers
    <2>3. ASSUME NEW i \in Viewers(s, j) PROVE i \in WaitingFor(s, k)
      <3>1. i \in Ids /\ s.lease[i] = j /\ j # None
        BY <2>3 DEF Viewers, Jobs, None
      <3> QED BY <1>3, <3>1 DEF WaitingFor, Looks, Told
    <2> QED BY <2>2, <2>3
  <1> QED BY <1>2, <1>3

(* A lease shows the key and the state of its entry.                        *)
LEMMA JoinedView ==
  ASSUME NEW s \in Stores, NEW id \in Ids, NEW j \in Jobs
  PROVE  \A i \in Ids :
           /\ Looks(Joined(s, id, j), i) = IF i = id THEN s.key[j] ELSE Looks(s, i)
           /\ Told(Joined(s, id, j), i) =
                IF i = id THEN IF IsActive(s, j) THEN "waiting" ELSE s.state[j]
                ELSE Told(s, i)
  <1> DEFINE t == Joined(s, id, j)
  <1>1. /\ t.lease = [s.lease EXCEPT ![id] = j]
        /\ t.state = s.state /\ t.key = s.key
    BY DEF Joined, Stores
  <1>2. j # None
    BY DEF Jobs, None
  <1> HIDE DEF t
  <1>3. ASSUME NEW i \in Ids
        PROVE  /\ Looks(t, i) = IF i = id THEN s.key[j] ELSE Looks(s, i)
               /\ Told(t, i) =
                    IF i = id THEN IF IsActive(s, j) THEN "waiting" ELSE s.state[j]
                    ELSE Told(s, i)
    <2>1. t.lease[i] = IF i = id THEN j ELSE s.lease[i]
      BY <1>1 DEF Stores
    <2>2. CASE i = id
      BY <1>1, <1>2, <2>1, <2>2 DEF Looks, Told, IsActive
    <2>3. CASE i # id
      BY <1>1, <2>1, <2>3 DEF Looks, Told, IsActive
    <2> QED BY <2>2, <2>3
  <1> QED BY <1>3 DEF t

(* Nobody sees an entry that is only just made.                             *)
LEMMA QueueView ==
  ASSUME NEW s, Sound(s), NEW k \in Keys, NEW j \in Jobs, j > s.created,
         j \in 0..MaxCreated
  PROVE  LET q == Queue(s, j, k) IN
         /\ q \in Stores /\ q.key[j] = k /\ IsActive(q, j)
         /\ q.lease = s.lease
         /\ SameView(s, q)
  <1> DEFINE q == Queue(s, j, k)
  <1>1. s \in Stores
    BY DEF Sound
  <1>2. /\ q.entries = s.entries \cup {j}
        /\ q.byKey = [s.byKey EXCEPT ![k] = j]
        /\ q.state = [s.state EXCEPT ![j] = "queued"]
        /\ q.key = [s.key EXCEPT ![j] = k]
        /\ q.lease = s.lease
    BY <1>1 DEF Queue, Stores
  <1>3. q \in Stores
    <2>1. [s.byKey EXCEPT ![k] = j] \in [Keys -> Jobs \cup {None}]
      BY <1>1 DEF Stores
    <2>2. [s.state EXCEPT ![j] = "queued"] \in [Jobs -> States]
      BY <1>1 DEF Stores, States, Active
    <2>3. [s.key EXCEPT ![j] = k] \in [Jobs -> Keys \cup {None}]
      BY <1>1 DEF Stores
    <2> QED BY <1>1, <2>1, <2>2, <2>3 DEF Queue, Stores
  <1> HIDE DEF q
  <1>4. /\ q.key[j] = k /\ q.state[j] = "queued"
        /\ \A i \in Jobs \ {j} : q.key[i] = s.key[i] /\ q.state[i] = s.state[i]
    BY <1>1, <1>2 DEF Stores
  <1>5. IsActive(q, j)
    BY <1>4 DEF IsActive, Active
  <1>6. j \notin s.entries
    BY DEF Sound, EntriesHeld, Active, Finished
  <1>7. ASSUME NEW i \in Ids
        PROVE  Looks(q, i) = Looks(s, i) /\ Told(q, i) = Told(s, i)
    <2>1. CASE s.lease[i] = None
      BY <1>2, <2>1 DEF Looks, Told
    <2>2. CASE s.lease[i] # None
      <3>1. s.lease[i] \in Jobs \ {j}
        BY <1>1, <1>6, <2>2 DEF Sound, EntriesHeld, Stores
      <3> QED BY <1>2, <1>4, <2>2, <3>1 DEF Looks, Told, IsActive
    <2> QED BY <2>1, <2>2
  <1>8. SameView(s, q)
    BY <1>7 DEF SameView
  <1> QED BY <1>2, <1>3, <1>4, <1>5, <1>8 DEF q

(* Viewers leave, one comes, and what else happens is not seen.             *)
LEMMA AskedAll ==
  ASSUME NEW r, NEW s, NEW t, NEW u, NEW ids, NEW id \in Ids, NEW k, NEW told,
         LeftView(r, s, ids),
         Told(s, id) = "none",
         told = "complete" => WaitingFor(r, k) \subseteq ids,
         \A i \in Ids :
           /\ Looks(t, i) = IF i = id THEN k ELSE Looks(s, i)
           /\ Told(t, i) = IF i = id THEN told ELSE Told(s, i),
         SameView(t, u)
  PROVE  AskedView(r, u, ids, id, k, told)
  <1>1. id \in ids \/ Told(r, id) = "none"
    BY DEF LeftView
  <1>2. ASSUME NEW i \in Ids
        PROVE  /\ Looks(u, i) = IF i = id THEN k
                                ELSE IF i \in ids THEN None ELSE Looks(r, i)
               /\ Told(u, i) = IF i = id THEN told
                               ELSE IF i \in ids THEN "none" ELSE Told(r, i)
    <2>1. Looks(u, i) = Looks(t, i) /\ Told(u, i) = Told(t, i)
      BY DEF SameView
    <2>2. /\ Looks(s, i) = IF i \in ids THEN None ELSE Looks(r, i)
          /\ Told(s, i) = IF i \in ids THEN "none" ELSE Told(r, i)
      BY DEF LeftView
    <2> QED BY <2>1, <2>2
  <1> QED BY <1>1, <1>2 DEF AskedView

(* create: the viewer waits with all who wait for the key, or is shown a    *)
(* result that nobody waits to replace.                                     *)
LEMMA CreateView ==
  ASSUME JobsAssumption, Sound(store),
         NEW id \in Ids, NEW k \in Keys, NEW refresh \in BOOLEAN,
         Create(id, k, refresh)
  PROVE  \E ids \in SUBSET Ids, told \in {"waiting", "complete"} :
           AskedView(store, store', ids, id, k, told)
  <1> DEFINE s == Swept(store)
             e == Evicted(s)
             j == store.created + 1
  <1>1. /\ Sound(s) /\ Sound(e) /\ s \in Stores /\ e \in Stores
        /\ store \in Stores
    BY SweptSound, EvictedSound DEF Sound
  <1>2. LeftView(store, s, store.late) /\ store.late \in SUBSET Ids
    BY SweptView
  <1>3. s.lease[id] = None
    BY DEF Create
  <1>4. Told(s, id) = "none"
    BY <1>3 DEF Told
  <1>5. CASE Joinable(s, k, refresh)
    <2> DEFINE b == s.byKey[k]
               t == Joined(s, id, b)
               told == IF IsActive(s, b) THEN "waiting" ELSE s.state[b]
    <2>1. store' \in Pumped(t)
      BY <1>5 DEF Create
    <2>2. /\ b \in Jobs /\ b \in s.entries /\ s.key[b] = k
          /\ s.state[b] \in Active \cup Finished
          /\ IsActive(s, b) \/ s.state[b] # "failed"
      BY <1>1, <1>5 DEF Joinable, Sound, EntriesHeld, Stores
    <2>3. told \in {"waiting", "complete"}
      BY <2>2 DEF IsActive, Finished
    <2>4. t \in Stores
      BY <1>1, <1>3, <2>2, JoinedSound DEF Sound
    <2>5. SameView(t, store')
      BY <2>1, <2>4, PumpedView
    <2>6. \A i \in Ids :
            /\ Looks(t, i) = IF i = id THEN s.key[b] ELSE Looks(s, i)
            /\ Told(t, i) = IF i = id THEN told ELSE Told(s, i)
      BY <1>1, <2>2, JoinedView
    <2>7. told = "complete" => WaitingFor(store, k) \subseteq store.late
      <3> SUFFICES ASSUME told = "complete", NEW i \in WaitingFor(store, k),
                          i \notin store.late
                   PROVE  FALSE
        OBVIOUS
      <3>1. i \in WaitingFor(s, k)
        BY <1>2 DEF WaitingFor, LeftView
      <3>2. IsActive(s, b)
        BY <1>1, <3>1, WaitersView
      <3> QED BY <3>2
    <2> HIDE DEF s, b, t, told
    <2>8. AskedView(store, store', store.late, id, k, told)
      BY <1>2, <1>4, <2>2, <2>5, <2>6, <2>7, AskedAll
    <2> QED BY <1>2, <2>3, <2>8
  <1>6. CASE ~Joinable(s, k, refresh)
    <2> DEFINE q == Queue(e, j, k)
               t == Joined(q, id, j)
    <2>1. store' \in Pumped(t) /\ store.created < MaxCreated
      BY <1>6 DEF Create
    <2>2. Sound(t) /\ e.created = store.created
      BY <1>6, CreateQueues
    <2>3. j \in Jobs /\ j > e.created /\ j \in 0..MaxCreated
      BY <1>1, <2>1, <2>2 DEF Stores, Jobs, JobsAssumption
    <2>4. SameView(s, e)
      BY <1>1, EvictedView
    <2> HIDE DEF s, e, j
    <2>5. /\ q \in Stores /\ q.key[j] = k /\ IsActive(q, j)
          /\ q.lease = e.lease
          /\ SameView(e, q)
      BY <1>1, <2>3, QueueView
    <2> HIDE DEF q
    <2>6. t \in Stores
      BY <2>2 DEF Sound
    <2>7. \A i \in Ids :
            /\ Looks(t, i) = IF i = id THEN q.key[j] ELSE Looks(q, i)
            /\ Told(t, i) =
                 IF i = id THEN IF IsActive(q, j) THEN "waiting" ELSE q.state[j]
                 ELSE Told(q, i)
      BY <2>3, <2>5, JoinedView
    <2> HIDE DEF t
    <2>8. \A i \in Ids :
            /\ Looks(t, i) = IF i = id THEN k ELSE Looks(s, i)
            /\ Told(t, i) = IF i = id THEN "waiting" ELSE Told(s, i)
      BY <2>4, <2>5, <2>7 DEF SameView
    <2>9. SameView(t, store')
      BY <2>1, <2>6, PumpedView
    <2>10. AskedView(store, store', store.late, id, k, "waiting")
      BY <1>2, <1>4, <2>8, <2>9, AskedAll
    <2> QED BY <1>2, <2>10
  <1> QED BY <1>5, <1>6

(* A running decode ends for all its viewers at once.                       *)
LEMMA EndedView ==
  ASSUME NEW s, Sound(s), NEW j \in Jobs, s.state[j] = "running",
         NEW t \in Stores, NEW x \in Finished,
         t.state = [s.state EXCEPT ![j] = x],
         t.lease = s.lease, t.key = s.key
  PROVE  s.key[j] \in Keys /\ ToldView(s, t, s.key[j], x)
  <1>1. s \in Stores /\ IsActive(s, j)
    BY DEF Sound, IsActive, Active
  <1>2. j \in s.entries /\ Viewers(s, j) # {}
    BY <1>1 DEF Sound, Wanted
  <1>3. s.key[j] \in Keys
    BY <1>2 DEF Sound, EntriesHeld
  <1>4. WaitingFor(s, s.key[j]) = Viewers(s, j)
    BY <1>1, <1>3, WaitersView
  <1>5. /\ t.state[j] = x /\ x \notin Active
        /\ \A i \in Jobs \ {j} : t.state[i] = s.state[i]
    BY <1>1 DEF Stores, Active, Finished
  <1>6. ASSUME NEW i \in Ids
        PROVE  /\ Looks(t, i) = Looks(s, i)
               /\ Told(t, i) = IF i \in Viewers(s, j) THEN x ELSE Told(s, i)
    <2>1. Looks(t, i) = Looks(s, i)
      BY DEF Looks
    <2>2. CASE i \in Viewers(s, j)
      <3>1. s.lease[i] = j /\ j # None
        BY <2>2 DEF Viewers, Jobs, None
      <3> QED BY <1>5, <2>1, <2>2, <3>1 DEF Told, IsActive
    <2>3. CASE i \notin Viewers(s, j)
      <3>1. s.lease[i] # None => s.lease[i] \in Jobs \ {j}
        BY <1>1, <2>3 DEF Viewers, Stores
      <3> QED BY <1>5, <2>1, <2>3, <3>1 DEF Told, IsActive
    <2> QED BY <2>2, <2>3
  <1>7. ToldView(s, t, s.key[j], x)
    BY <1>2, <1>4, <1>6 DEF ToldView
  <1> QED BY <1>3, <1>7

LEMMA ToldAll ==
  ASSUME NEW s, NEW t, NEW u, NEW k, NEW x, SameView(s, t), ToldView(t, u, k, x)
  PROVE  ToldView(s, u, k, x)
  <1>1. WaitingFor(t, k) = WaitingFor(s, k)
    BY DEF SameView, WaitingFor
  <1> QED BY <1>1 DEF SameView, ToldView

LEMMA DeliverView ==
  ASSUME JobsAssumption, Sound(store), NEW j \in Jobs, Deliver(j)
  PROVE  ViewStep(store, store')
  <1>1. store \in Stores
    BY DEF Sound
  <1>2. ASSUME NEW s, Sound(s), s.state[j] = "running", SameView(store, s),
               \/ store' = Stored(Failed(s, j), j)
               \/ \E n \in Nat : store' =
                    Stored([s EXCEPT !.state[j] = "complete", !.bytes[j] = n], j)
        PROVE  ViewStep(store, store')
    <2>1. s \in Stores
      BY <1>2 DEF Sound
    <2>2. PICK x \in {"complete", "failed"} :
            /\ store' \in Stores
            /\ store'.state = [s.state EXCEPT ![j] = x]
            /\ store'.lease = s.lease /\ store'.key = s.key
      <3>1. CASE store' = Stored(Failed(s, j), j)
        <4>1. /\ store' \in Stores
              /\ store'.state = [s.state EXCEPT ![j] = "failed"]
              /\ store'.lease = s.lease /\ store'.key = s.key
          BY <2>1, <3>1 DEF Stored, Failed, Stores, States, Finished, Stages
        <4> QED BY <4>1
      <3>2. ASSUME NEW n \in Nat, store' =
                     Stored([s EXCEPT !.state[j] = "complete", !.bytes[j] = n], j)
            PROVE  /\ store' \in Stores
                   /\ store'.state = [s.state EXCEPT ![j] = "complete"]
                   /\ store'.lease = s.lease /\ store'.key = s.key
        BY <2>1, <3>2 DEF Stored, Stores, States, Finished, Stages
      <3> QED BY <1>2, <3>1, <3>2
    <2>3. s.key[j] \in Keys /\ ToldView(s, store', s.key[j], x)
      <3>0. Sound(s) /\ s.state[j] = "running" /\ x \in Finished
        BY <1>2 DEF Finished
      <3>1. PICK u : u = store'
        OBVIOUS
      <3>2. /\ u \in Stores /\ u.state = [s.state EXCEPT ![j] = x]
            /\ u.lease = s.lease /\ u.key = s.key
        BY <2>2, <3>1
      <3>3. s.key[j] \in Keys /\ ToldView(s, u, s.key[j], x)
        BY <3>0, <3>2, EndedView
      <3> QED BY <3>1, <3>3
    <2>4. ToldView(store, store', s.key[j], x)
      BY <1>2, <2>3, ToldAll
    <2> QED BY <2>3, <2>4 DEF ViewStep
  <1>3. SameView(store, store)
    BY DEF SameView
  <1>4. CASE store.state[j] # "running"
    <2>1. store' = Stored(store, j)
      BY <1>4 DEF Deliver
    <2>2. /\ store' \in Stores
          /\ store'.lease = store.lease /\ store'.key = store.key
          /\ store'.state = store.state
      BY <1>1, <2>1 DEF Stored, Stores, Stages
    <2> QED BY <1>1, <2>2, SameViewOf DEF ViewStep
  <1>5. CASE store.state[j] = "running"
    <2>1. CASE store' = Stored(Failed(store, j), j)
      BY <1>2, <1>3, <1>5, <2>1
    <2>2. ASSUME NEW n \in Sizes, store' = Stored(Applied(store, j, n), j)
          PROVE  ViewStep(store, store')
      <3> DEFINE t == Removed(store, Trimmed(store, n))
      <3>1. CASE n > MaxResultBytes
        BY <1>2, <1>3, <1>5, <2>2, <3>1 DEF Applied
      <3>2. CASE ~(n > MaxResultBytes)
        <4>1. Sound(t)
          BY RemovedSound DEF Trimmed
        <4>2. SameView(store, t)
          BY <1>1, RemovedView
        <4>3. t.state[j] = "running"
          BY <1>1, <1>5, RemovedFields
        <4>4. n \in Nat
          BY DEF JobsAssumption
        <4>5. \/ store' = Stored(Failed(t, j), j)
              \/ store' = Stored([t EXCEPT !.state[j] = "complete", !.bytes[j] = n], j)
          BY <2>2, <3>2 DEF Applied
        <4> HIDE DEF t
        <4> QED BY <1>2, <4>1, <4>2, <4>3, <4>4, <4>5
      <3> QED BY <3>1, <3>2
    <2> QED BY <1>5, <2>1, <2>2 DEF Deliver
  <1> QED BY <1>4, <1>5

(* Every step is one of SharedDecode, or is not seen.                       *)
LEMMA NextView ==
  ASSUME JobsAssumption, Sound(store), Sound(store'), [Next]_store
  PROVE  ViewStep(store, store')
  <1>0. store \in Stores /\ store' \in Stores
    BY DEF Sound
  <1>1. CASE Sweep
    BY <1>1, SweptView DEF Sweep, ViewStep
  <1>2. ASSUME NEW id \in Ids, NEW k \in Keys, NEW refresh \in BOOLEAN,
               Create(id, k, refresh)
        PROVE  ViewStep(store, store')
    <2>1. \E ids \in SUBSET Ids, told \in {"waiting", "complete"} :
            AskedView(store, store', ids, id, k, told)
      BY <1>2, CreateView
    <2> QED BY <2>1 DEF ViewStep
  <1>3. ASSUME NEW id \in Ids, Release(id) PROVE ViewStep(store, store')
    <2>1. LeftView(store, store', {id})
      BY <1>3, WithoutView DEF Release
    <2> QED BY <2>1 DEF ViewStep
  <1>4. ASSUME /\ store'.lease = store.lease
               /\ store'.key = store.key
               /\ store'.state = store.state
        PROVE  ViewStep(store, store')
    BY <1>0, <1>4, SameViewOf DEF ViewStep
  <1>5. ASSUME NEW id \in Ids, LeaseLapses(id) PROVE ViewStep(store, store')
    BY <1>0, <1>4, <1>5 DEF LeaseLapses, Stores
  <1>6. ASSUME NEW j \in Jobs, SnapshotExpires(j) \/ Start(j) \/ Settle(j)
        PROVE  ViewStep(store, store')
    BY <1>0, <1>4, <1>6 DEF SnapshotExpires, Start, Settle, Stores
  <1>7. CASE Close
    <2> DEFINE t == Without(store, Clients(store))
    <2>1. t \in Stores /\ Clients(store) \in SUBSET Ids
      BY <1>0, WithoutFields DEF Clients
    <2>2. LeftView(store, t, Clients(store))
      BY <2>1, WithoutView
    <2>3. store' = [t EXCEPT !.closed = TRUE, !.entries = {},
                             !.byKey = [k \in Keys |-> None]]
      BY <1>7 DEF Close
    <2> HIDE DEF t
    <2>4. /\ store'.lease = t.lease /\ store'.key = t.key
          /\ store'.state = t.state
      BY <2>1, <2>3 DEF Stores
    <2>5. SameView(t, store')
      BY <1>0, <2>1, <2>4, SameViewOf
    <2>6. LeftView(store, store', Clients(store))
      BY <2>2, <2>5 DEF SameView, LeftView
    <2> QED BY <2>1, <2>6 DEF ViewStep
  <1>8. ASSUME NEW j \in Jobs, Deliver(j) PROVE ViewStep(store, store')
    BY <1>8, DeliverView
  <1>9. ASSUME NEW j \in Jobs, Retire(j) PROVE ViewStep(store, store')
    <2> DEFINE g == GivenBack(store, j)
    <2>1. g \in Stores /\ store' \in Pumped(g)
      BY <1>9, GivenBackSound DEF Retire, Sound
    <2>2. g.lease = store.lease /\ g.key = store.key /\ g.state = store.state
      BY <1>0 DEF GivenBack, Stores
    <2> HIDE DEF g
    <2>3. SameView(store, g) /\ SameView(g, store')
      BY <1>0, <2>1, <2>2, SameViewOf, PumpedView
    <2> QED BY <2>3, SameViewAll DEF ViewStep
  <1>10. CASE UNCHANGED store
    BY <1>4, <1>10
  <1> QED BY <1>1, <1>2, <1>3, <1>5, <1>6, <1>7, <1>8, <1>9, <1>10
          DEF Next, Work

-----------------------------------------------------------------------------
(* Theorems.                                                                *)

(* The invariant of every reachable store.                                  *)
LEMMA StoreSound == Spec => [](Sound(store) /\ Prompt(store))
  <1>1. Init => Sound(store) /\ Prompt(store)
    BY JobsAssumption, InitSound
  <1>2. Sound(store) /\ Prompt(store) /\ [Next]_store
          => Sound(store') /\ Prompt(store')
    BY JobsAssumption, NextSound
  <1>3. Sound(store)' /\ Prompt(store)' <=> Sound(store') /\ Prompt(store')
    BY DEF Sound, Prompt, EntriesHeld, Wanted, StagesAgree, SlotsCounted,
           IsActive, Viewers, Busy, Queued, Stores
  <1> QED BY <1>1, <1>2, <1>3, PTL DEF Spec

(* The store keeps its type; in particular no slot beyond the limit is used *)
(* (pump, create, release, close of jobs.mjs).                              *)
THEOREM TypeCorrect == Spec => []TypeOK
  <1>1. Sound(store) => TypeOK
    BY DEF Sound, TypeOK
  <1> QED BY <1>1, StoreSound, PTL

(* Cancelling one lease never cancels another viewer's shared decode, with  *)
(* any number of viewers, keys and entries (release, sweep of jobs.mjs).    *)
THEOREM ViewersKeepTheirDecode == Spec => []SharedDecodeSurvives
  <1>1. Sound(store) => SharedDecodeSurvives
    BY DEF Sound, EntriesHeld, SharedDecodeSurvives, Clients, Active, Finished
  <1> QED BY <1>1, StoreSound, PTL

(* A queued or running decode has a viewer and is the only one of its key   *)
(* (create, remove and release of jobs.mjs).                                *)
THEOREM NoUnwantedWork == Spec => []WorkIsWanted
  <1>1. Sound(store) => WorkIsWanted
    BY DEF Sound, Wanted, WorkIsWanted
  <1> QED BY <1>1, StoreSound, PTL

(* Slots are counted exactly: each claim is given back once (pump and its   *)
(* finally in jobs.mjs).                                                    *)
THEOREM SlotsNeverLeak == Spec => []SlotsExact
  <1>1. Sound(store) => SlotsExact
    BY DEF Sound, Stores, SlotsCounted, Busy, SlotsExact, JobsAssumption
  <1> QED BY <1>1, StoreSound, PTL

(* No job waits while a slot is free (pump of jobs.mjs).                    *)
THEOREM NobodyWaitsForNothing == Spec => []NoIdleSlot
  <1>1. Prompt(store) => NoIdleSlot
    BY DEF Prompt, NoIdleSlot
  <1> QED BY <1>1, StoreSound, PTL

(* A job that ended keeps its state and result, whatever its worker or a    *)
(* viewer still does (the entry.state checks of pump in jobs.mjs).          *)
THEOREM EndIsFinal == Spec => ResultsAreFinal
  <1>1. Sound(store) /\ [Next]_store =>
          [\A j \in Jobs :
             store.state[j] \in Finished \cup {"cancelled"} =>
               /\ store'.state[j] = store.state[j]
               /\ store'.bytes[j] = store.bytes[j]]_store
    BY JobsAssumption, NextKeeps DEF Keeps
  <1> QED BY <1>1, StoreSound, PTL DEF Spec, ResultsAreFinal

(* Entries, leases and result bytes stay within their limits, however many  *)
(* jobs end in whatever order while others are in use (maxJobs, maxClients, *)
(* maxResultBytes and maxCacheBytes of jobs.mjs).                           *)
THEOREM LimitsHold == Spec => []WithinLimits
  <1>1. Init => Limited(store)
    BY JobsAssumption, InitLimited
  <1>2. Sound(store) /\ Sound(store)' /\ Limited(store) /\ [Next]_store
          => Limited(store)'
    <2>1. Sound(store)' => Sound(store')
      BY DEF Sound, EntriesHeld, Wanted, StagesAgree, SlotsCounted,
             IsActive, Viewers, Busy, Stores
    <2>2. Limited(store') => Limited(store)'
      OBVIOUS
    <2> QED BY JobsAssumption, <2>1, <2>2, NextLimited
  <1>3. Limited(store) => WithinLimits
    BY DEF Limited, WithinLimits
  <1> QED BY <1>1, <1>2, <1>3, StoreSound, PTL DEF Spec

(* The store implements SharedDecode: viewers of a transaction wait and are *)
(* answered together, and whoever leaves takes nothing from the others      *)
(* (create, release, sweep, close and pump of jobs.mjs).                    *)
THEOREM ServiceImplemented == Spec => ImplementsService
  <1>1. Init => Service!Init
    BY DEF Init, Service!Init, Looks, Told
  <1>2. ViewStep(store, store') =>
          [Service!Next]_<<[id \in Ids |-> Looks(store, id)],
                           [id \in Ids |-> Told(store, id)]>>
    <2> SUFFICES ASSUME ViewStep(store, store')
                 PROVE  [Service!Next]_<<[id \in Ids |-> Looks(store, id)],
                                         [id \in Ids |-> Told(store, id)]>>
      OBVIOUS
    <2>1. /\ [id \in Ids |-> Looks(store, id)]' = [id \in Ids |-> Looks(store', id)]
          /\ [id \in Ids |-> Told(store, id)]' = [id \in Ids |-> Told(store', id)]
      BY DEF Looks, Told, IsActive
    <2>2. \A k : Service!Waiting(k) = WaitingFor(store, k)
      BY DEF Service!Waiting, WaitingFor
    <2>3. ASSUME SameView(store, store')
          PROVE  UNCHANGED <<[id \in Ids |-> Looks(store, id)],
                             [id \in Ids |-> Told(store, id)]>>
      BY <2>1, <2>3 DEF SameView
    <2>4. ASSUME NEW ids \in SUBSET Ids, LeftView(store, store', ids)
          PROVE  Service!Next
      <3>1. Service!Leave(ids)
        BY <2>1, <2>4 DEF LeftView, Service!Leave
      <3> QED BY <3>1 DEF Service!Next
    <2>5. ASSUME NEW ids \in SUBSET Ids, NEW id \in Ids, NEW k \in Keys,
                 NEW told \in {"waiting", "complete"},
                 AskedView(store, store', ids, id, k, told)
          PROVE  Service!Next
      <3>1. Service!Ask(ids, id, k, told)
        BY <2>1, <2>2, <2>5 DEF AskedView, Service!Ask
      <3> QED BY <3>1 DEF Service!Next
    <2>6. ASSUME NEW k \in Keys, NEW told \in {"complete", "failed"},
                 ToldView(store, store', k, told)
          PROVE  Service!Next
      <3>1. Service!Tell(k, told)
        BY <2>1, <2>2, <2>6 DEF ToldView, Service!Tell
      <3> QED BY <3>1 DEF Service!Next
    <2> QED BY <2>3, <2>4, <2>5, <2>6 DEF ViewStep
  <1>3. Sound(store) /\ Sound(store)' /\ [Next]_store
          => [Service!Next]_<<[id \in Ids |-> Looks(store, id)],
                              [id \in Ids |-> Told(store, id)]>>
    <2>1. Sound(store)' => Sound(store')
      BY DEF Sound, EntriesHeld, Wanted, StagesAgree, SlotsCounted,
             IsActive, Viewers, Busy, Stores
    <2> QED BY JobsAssumption, <1>2, <2>1, NextView
  <1> QED BY <1>1, <1>3, StoreSound, PTL DEF Spec, ImplementsService, Service!Spec
=============================================================================
