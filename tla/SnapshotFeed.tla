----------------------------- MODULE SnapshotFeed -----------------------------
(***************************************************************************)
(* The server side of the monitor's live updates, for one chain: the head   *)
(* watcher that publishes what it sees, the loop that collects a snapshot   *)
(* under the lock of the snapshot cache and publishes it, and the requests  *)
(* that share the cache.                                                    *)
(*                                                                          *)
(* Threads share `server`; a step is what one thread does between two       *)
(* points where another may run (an RPC, the condition, the cache's lock).  *)
(* A collection is kept as its first read and its outcome: ChainWindow has  *)
(* the reads between, and shows that this is what they come to.             *)
(* Clocks are left to chance: whether a cache is past its ttl or a refresh  *)
(* is due may go either way.  A periodic refresh that could only repeat the *)
(* last frame is left out: it keeps version numbers finite.                 *)
(***************************************************************************)
EXTENDS BlockTree

CONSTANTS
  IsL1,        \* whether the chain is L1, which reconciles on every head
  MaxClients,  \* MAX_CLIENTS
  MaxFaults    \* bound on failed reads, lost connections and restarts

ASSUME FeedAssumption ==
  /\ IsL1 \in BOOLEAN /\ MaxClients \in Nat \ {0} /\ MaxFaults \in Nat

VARIABLE server

(* heads[name]: a header and the version it was published as.               *)
Heads  == [block : Hashes, seq : Nat]
NoHead == [block |-> NoBlock, seq |-> 0]

(* What a collection says of the chain: its latest block, or nothing if the *)
(* chain failed (it is healthy when it has one).                            *)
Details   == [latest : Hashes, stale : BOOLEAN]
NoDetails == [latest |-> NoBlock, stale |-> FALSE]

(* frame: what the last publish sent.                                       *)
Kinds   == {"none", "snapshot", "unavailable"}
Frames  == [kind : Kinds, details : Details, seq : Nat, began : Nat]
NoFrame == [kind |-> "none", details |-> NoDetails, seq |-> 0, began |-> 0]

(* A collection in progress, for the feed's loop or for an HTTP request.    *)
Jobs  == [for : {"nobody", "feed", "http"}, latest : Hashes]
NoJob == [for |-> "nobody", latest |-> NoBlock]

Servers ==
  [canon   : Blocks,          \* the chain's head
   heard   : Hashes,          \* a header the watcher has read and not yet observed
   version : Nat,
   head    : Heads,           \* heads, and last_hash
   frame   : Frames,
   wake    : BOOLEAN,
   clients : Nat,             \* and active, which is clients > 0
   started : BOOLEAN,         \* run is about to collect, or at it
   began   : Nat,             \* started_sequence
   cached  : Details,         \* _value, NoDetails at first
   filled  : BOOLEAN,         \* _value is not None
   job     : Jobs,
   shaken  : BOOLEAN,         \* a branch was left since the last collection
   http    : {"none", "asked", "answered", "failed"},
   answer  : Details,
   moves   : Nat,
   faults  : Nat]

(* A server that has just started, the chain being what it is.              *)
Started(b, moves, faults) ==
  [canon |-> b, heard |-> NoBlock, version |-> 0, head |-> NoHead,
   frame |-> NoFrame, wake |-> FALSE, clients |-> 0,
   started |-> FALSE, began |-> 0, cached |-> NoDetails, filled |-> FALSE,
   job |-> NoJob, shaken |-> FALSE, http |-> "none", answer |-> NoDetails,
   moves |-> moves, faults |-> faults]

Active(s)   == s.clients > 0
MayFault(s) == s.faults < MaxFaults
Fault(s)    == [s EXCEPT !.faults = @ + 1]

-----------------------------------------------------------------------------
(* The chain and the watcher.                                               *)

Move(s, b) ==
  [s EXCEPT !.canon = b, !.moves = @ + 1, !.shaken = @ \/ s.canon \notin Line[b]]

Reconcile(s, b) ==
  \/ IsL1
  \/ s.head = NoHead
  \/ Number[b] <= Number[s.head.block]
  \/ Parent[b] # s.head.block

(* observe, and publish_head: only a hash other than the last one counts.   *)
Observe(s) ==
  LET b == s.heard
      h == [block |-> b, seq |-> s.version + 1]
  IN IF b = s.head.block THEN [s EXCEPT !.heard = NoBlock]
     ELSE [s EXCEPT !.heard = NoBlock, !.head = h, !.version = @ + 1,
                    !.wake = @ \/ Reconcile(s, b)]

-----------------------------------------------------------------------------
(* The collection of a snapshot.                                            *)

Begin(s, for) == [s EXCEPT !.job = [for |-> for, latest |-> s.canon]]

(* publish: a frame with the version its collection started at.             *)
Publish(s, kind, details) ==
  [s EXCEPT !.version = @ + 1, !.started = FALSE, !.began = 0,
            !.frame = [kind |-> kind, details |-> details,
                       seq |-> s.version + 1, began |-> s.began]]

(* get, returning to the loop, which publishes, or to a request.            *)
Answered(s, kind, details) ==
  LET done == [s EXCEPT !.job = NoJob]
  IN IF s.job.for = "feed" THEN Publish(done, kind, details)
     ELSE [done EXCEPT !.answer = details,
                       !.http = IF kind = "snapshot" THEN "answered" ELSE "failed"]

Collected(s, details) ==
  Answered([s EXCEPT !.cached = details, !.filled = TRUE], "snapshot", details)

(* _chain: what was read first is on the chain when it is checked.  It may  *)
(* fail if a branch was left, even before this collection: rows are kept.   *)
(* Of a chain's details the model has the head they were collected from;    *)
(* the safe and finalized blocks are read beside it, are not compared with  *)
(* the window, and are not in the model.                                    *)
ChainDone(s) ==
  Collected([s EXCEPT !.shaken = FALSE], [latest |-> s.job.latest, stale |-> FALSE])
ChainFails(s) == Collected([s EXCEPT !.shaken = FALSE], NoDetails)

(* A read of the chain fails: the chain is missing from the snapshot.       *)
ChainRaises(s) == Fault(Collected(s, NoDetails))

(* collect raises: a stale copy of the value before, if there is one.       *)
CollectFails(s) ==
  LET stale == [s.cached EXCEPT !.stale = TRUE]
  IN Fault(IF s.filled THEN Answered([s EXCEPT !.cached = stale], "snapshot", stale)
           ELSE Answered(s, "unavailable", NoDetails))

-----------------------------------------------------------------------------
(* The loop, viewers and requests.                                          *)

(* Something a periodic refresh would find.                                 *)
Outdated(s) ==
  \/ s.frame.kind # "snapshot" \/ s.frame.details.stale
  \/ s.frame.details.latest # s.canon
  \/ s.frame.began < s.head.seq

Attach(s) == [s EXCEPT !.clients = @ + 1, !.wake = TRUE]

(* Fault: an end that is seen twice is counted twice.                       *)
DetachTwiceFault(s) == [s EXCEPT !.clients = @ - 2]

Detach(s) == [s EXCEPT !.clients = @ - 1]

=============================================================================
