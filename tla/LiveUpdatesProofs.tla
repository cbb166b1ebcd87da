--------------------------- MODULE LiveUpdatesProofs ---------------------------
(***************************************************************************)
(* Proofs about LiveUpdates, for every tree of blocks, every number of      *)
(* viewers, faults, reorganisations and frames in flight.  What the page    *)
(* shows is kept right by each of its handlers on its own (PageSound), so   *)
(* nothing needs to be known of what the server sends but its type.         *)
(***************************************************************************)
EXTENDS LiveUpdates, LeastCounterexample, SequenceTheorems, TLAPS

-----------------------------------------------------------------------------
(* The invariant of the page.                                               *)

(* What is pending is no newer than the head it was noticed at.             *)
PendingSound(p) ==
  \/ p.pending = NoPending
  \/ /\ p.pending.kind \in {"gap", "reorg"}
     /\ p.head.block # NoBlock /\ p.pending.seq <= p.head.seq

(* ShownConsistent, of a view.                                              *)
ViewSound(v) ==
  v.verified # NoBlock =>
    v.latest # NoBlock /\ (v.warn = "none" => v.verified \in Line[v.latest])

ReorgShown(p) ==
  p.pending.kind = "reorg" => p.view.warn = "reorg" /\ p.view.verified = NoBlock

PageSound(p) == p \in Pages /\ PendingSound(p) /\ ViewSound(p.view) /\ ReorgShown(p)

-----------------------------------------------------------------------------
LEMMA TreeFacts ==
  /\ NoBlock \notin Blocks /\ NoBlock \in Hashes /\ Blocks \subseteq Hashes
  /\ \A b \in Blocks : b \in Line[b] /\ Line[b] \subseteq Blocks
  /\ \A b \in Blocks : \A x \in Line[b] : Line[x] \subseteq Line[b]
<1>1. ASSUME NEW b \in Blocks
      PROVE  /\ \A x \in Line[b] : Line[x] \subseteq Line[b] /\ Number[x] <= Number[b]
             /\ \A x, y \in Line[b] : Number[x] = Number[y] => x = y
             /\ \A n \in 0..Number[b] : \E x \in Line[b] : Number[x] = n
  BY TreeAssumption, PathsNested
<1> QED
  BY <1>1, TreeAssumption DEF Hashes

LEMMA FetchedType == ASSUME NEW b \in Hashes PROVE Fetched(b) \in SUBSET Blocks
BY TreeFacts DEF Fetched, Rows, Hashes

LEMMA Remembers ==
  ASSUME NEW p \in Pages, PendingSound(p), NEW h \in Heads
  PROVE  LET q == RememberHeads(p, h)
         IN /\ q \in Pages /\ PendingSound(q) /\ q.view = p.view
            /\ q = p \/ q.head.block # NoBlock
<1> DEFINE broken == Break(p.view.latest, h.block)
           kind   == IF "reorg" \in {broken, p.pending.kind} THEN "reorg" ELSE "gap"
           after  == IF broken = "none" THEN p.pending ELSE [seq |-> h.seq, kind |-> kind]
           q      == [p EXCEPT !.head = h, !.known = @ \cup {h.block}, !.pending = after]
<1>1. CASE h.block = NoBlock \/ (p.head.block # NoBlock /\ h.seq <= p.head.seq)
  BY <1>1 DEF RememberHeads
<1>2. CASE ~(h.block = NoBlock \/ (p.head.block # NoBlock /\ h.seq <= p.head.seq))
  <2>1. RememberHeads(p, h) = q
    BY <1>2 DEF RememberHeads
  <2>2. kind \in {"gap", "reorg"} /\ h.seq \in Nat /\ h.block \in Blocks
    BY <1>2 DEF Heads, Hashes
  <2>3. p.pending \in Pendings /\ p.head \in Heads /\ p.head.seq \in Nat
    BY DEF Pages, Heads
  <2> HIDE DEF kind, broken
  <2>4. [seq |-> h.seq, kind |-> kind] \in Pendings
    BY <2>2 DEF Pendings, Warnings
  <2>5. after \in Pendings
    BY <2>3, <2>4
  <2>6. after = NoPending \/ (after.kind \in {"gap", "reorg"} /\ after.seq <= h.seq)
    <3>1. CASE broken = "none"
      BY <1>2, <2>2, <2>3, <3>1 DEF PendingSound, Pendings
    <3>2. CASE broken # "none"
      BY <2>2, <3>2
    <3> QED
      BY <3>1, <3>2
  <2> HIDE DEF after
  <2>7. q \in Pages /\ q.head = h /\ q.pending = after /\ q.view = p.view
    BY <2>2, <2>5 DEF Pages
  <2>8. PendingSound(q)
    BY <2>2, <2>6, <2>7, TreeFacts DEF PendingSound
  <2> HIDE DEF q
  <2> QED
    BY <2>1, <2>2, <2>7, <2>8, TreeFacts
<1> QED
  BY <1>1, <1>2

(* A head over a view: sound if the view was, and open about a reorg.       *)
LEMMA Merges ==
  ASSUME NEW v \in Views, ViewSound(v), NEW p \in Pages, PendingSound(p),
         NEW healthy \in BOOLEAN, NEW began \in Int
  PROVE  LET w == MergeHeads(v, healthy, began, p)
         IN /\ w \in Views /\ ViewSound(w)
            /\ p.pending.kind = "reorg"
               /\ (v.stale \/ ~healthy \/ v.latest = NoBlock \/ p.head.seq > began)
               => w.warn = "reorg" /\ w.verified = NoBlock
<1> DEFINE b          == p.head.block
           reconciled == ~v.stale /\ healthy /\ v.latest # NoBlock /\ p.head.seq <= began
           connected  == Connected(b, v.latest, p.known)
           unsure     == p.pending # NoPending \/ (v.latest # NoBlock /\ ~connected)
           kind       == IF p.pending # NoPending THEN p.pending.kind ELSE "gap"
           w          == [v EXCEPT !.latest = b,
                                   !.warn = IF unsure THEN kind ELSE @,
                                   !.verified = IF unsure /\ kind = "reorg" THEN NoBlock ELSE @]
<1>1. p.pending.kind = "reorg" => p.pending # NoPending /\ b # NoBlock
  BY DEF PendingSound, NoPending
<1>2. p.head.seq \in Nat /\ b \in Hashes
  BY DEF Pages, Heads
<1>3. CASE b = NoBlock \/ reconciled
  <2>1. MergeHeads(v, healthy, began, p) = v
    BY <1>3 DEF MergeHeads
  <2> QED
    BY <1>1, <1>2, <1>3, <2>1
<1>4. CASE b # NoBlock /\ ~reconciled
  <2>1. MergeHeads(v, healthy, began, p) = w
    BY <1>4 DEF MergeHeads
  <2>2. kind \in {"gap", "reorg"} /\ b \in Blocks
    BY <1>2, <1>4 DEF PendingSound, Hashes
  <2>3. connected => v.latest = b \/ v.latest \in Line[b]
    BY DEF Connected
  <2>4. p.pending.kind = "reorg" => unsure /\ kind = "reorg"
    BY <1>1
  <2> HIDE DEF connected, kind
  <2>5. w \in Views /\ w.latest = b
    BY <1>2, <2>2, TreeFacts DEF Views, Warnings
  <2>6. unsure => w.warn = kind
    BY DEF Views
  <2>7. ~unsure => w.warn = v.warn /\ w.verified = v.verified
    BY DEF Views
  <2>8. unsure /\ kind = "reorg" => w.verified = NoBlock
    BY DEF Views
  <2>9. ViewSound(w)
    <3>1. CASE unsure
      BY <1>4, <2>2, <2>5, <2>6, <3>1 DEF ViewSound
    <3>2. CASE ~unsure
      <4>1. w.warn = v.warn /\ w.verified = v.verified
        BY <2>7, <3>2
      <4>2. SUFFICES ASSUME w.verified # NoBlock, w.warn = "none" PROVE w.verified \in Line[b]
        BY <1>4, <2>5 DEF ViewSound
      <4>3. v.latest # NoBlock /\ v.verified \in Line[v.latest]
        BY <4>1, <4>2 DEF ViewSound
      <4>4. v.latest = b \/ v.latest \in Line[b]
        BY <2>3, <3>2, <4>3
      <4> QED
        BY <2>2, <4>1, <4>3, <4>4, TreeFacts
    <3> QED
      BY <3>1, <3>2
  <2> HIDE DEF w, unsure
  <2> QED
    BY <2>1, <2>4, <2>5, <2>6, <2>8, <2>9
<1> QED
  BY <1>3, <1>4

-----------------------------------------------------------------------------
(* The handlers of the page.                                                *)

LEMMA NoPageSound == PageSound(NoPage)
<1>1. NoHead \in Heads /\ NoPending \in Pendings /\ NoView \in Views
  BY TreeFacts DEF NoHead, Heads, NoPending, Pendings, NoView, Views, Warnings
<1>2. NoPage \in Pages
  BY <1>1 DEF NoPage, Pages
<1> QED
  BY <1>2 DEF PageSound, PendingSound, ViewSound, ReorgShown, NoPage, NoView, NoPending

(* refresh, startPolling: what is shown stays.                              *)
LEMMA FlagsSound ==
  ASSUME NEW p, PageSound(p), NEW b \in BOOLEAN
  PROVE  PageSound([p EXCEPT !.current = b]) /\ PageSound([p EXCEPT !.polling = b])
BY DEF PageSound, Pages, PendingSound, ViewSound, ReorgShown

LEMMA KnownSound ==
  ASSUME NEW p, PageSound(p), NEW more \in SUBSET Blocks
  PROVE  PageSound([p EXCEPT !.known = @ \cup more])
BY DEF PageSound, Pages, PendingSound, ViewSound, ReorgShown

LEMMA ClosedSound == ASSUME NEW p, PageSound(p) PROVE PageSound(Closed(p))
<1>1. PageSound(Issued(p))
  BY FlagsSound DEF Issued
<1> QED
  BY <1>1, FlagsSound DEF Closed

LEMMA ReconnectedSound == ASSUME NEW p, PageSound(p) PROVE PageSound(Reconnected(p))
<1>1. NoHead \in Heads /\ NoPending \in Pendings /\ p.view.latest \in Hashes
  BY TreeFacts DEF NoHead, Heads, NoPending, Pendings, Warnings, PageSound, Pages, Views
<1>2. Contiguous(p.view.latest, p.known) \in SUBSET Blocks
  BY <1>1, FetchedType DEF Contiguous
<1>3. Reconnected(p) \in Pages /\ Reconnected(p).pending = NoPending /\ Reconnected(p).view = p.view
  BY <1>1, <1>2 DEF Reconnected, PageSound, Pages
<1> QED
  BY <1>3 DEF PageSound, PendingSound, ViewSound, ReorgShown, NoPending

LEMMA ApplyHeadsSound ==
  ASSUME NEW p, PageSound(p), NEW h \in Heads
  PROVE  PageSound(ApplyHeads(p, h))
<1> DEFINE q == RememberHeads(p, h)
           w == MergeHeads(p.view, FALSE, -1, q)
           r == [q EXCEPT !.view = w, !.current = FALSE]
<1>1. p \in Pages /\ PendingSound(p) /\ ViewSound(p.view) /\ p.view \in Views
  BY DEF PageSound, Pages
<1>2. q \in Pages /\ PendingSound(q) /\ q.view = p.view
  BY <1>1, Remembers
<1>3. w \in Views /\ ViewSound(w) /\ (q.pending.kind = "reorg" => w.warn = "reorg" /\ w.verified = NoBlock)
  <2>1. FALSE \in BOOLEAN /\ -1 \in Int
    OBVIOUS
  <2> QED
    BY <1>1, <1>2, <2>1, Merges, Zenon
<1>4. ApplyHeads(p, h) = IF q = p THEN p ELSE r
  BY DEF ApplyHeads
<1> HIDE DEF q, w
<1>5. r \in Pages /\ r.view = w /\ r.pending = q.pending /\ r.head = q.head
  BY <1>2, <1>3 DEF Pages
<1>6. PageSound(r)
  BY <1>2, <1>3, <1>5 DEF PageSound, PendingSound, ReorgShown
<1> QED
  BY <1>4, <1>6

(* A reorganisation that is still pending after a snapshot is one that the  *)
(* snapshot could not settle, so it does not count as newer than the head.  *)
LEMMA ApplySnapshotSound ==
  ASSUME NEW p, PageSound(p), NEW d \in Details, NEW h \in Heads, NEW began \in Nat
  PROVE  PageSound(ApplySnapshot(p, d, h, began))
<1> DEFINE q == RememberHeads(p, h)
           pending == IF Settles(d, began, q.pending) THEN NoPending ELSE q.pending
           known == q.known \cup Fetched(d.latest) \cup Contiguous(p.view.latest, q.known)
           r == [q EXCEPT !.pending = pending, !.known = known]
           v == Retained(d, p.view)
           w == MergeHeads(v, d.latest # NoBlock, began, r)
           s == [r EXCEPT !.view = w, !.current = FALSE]
<1>1. /\ p \in Pages /\ PendingSound(p) /\ ViewSound(p.view) /\ p.view \in Views
      /\ p.view.latest \in Hashes /\ d.latest \in Hashes /\ d.stale \in BOOLEAN
  BY DEF PageSound, Pages, Views, Details
<1>2. q \in Pages /\ PendingSound(q)
  BY <1>1, Remembers
<1> HIDE DEF q
<1>3. known \in SUBSET Blocks
  BY <1>1, <1>2, FetchedType DEF Contiguous, Pages
<1>4. pending \in Pendings
  <2>1. NoPending \in Pendings /\ q.pending \in Pendings
    BY <1>2 DEF NoPending, Pendings, Warnings, Pages
  <2> QED
    BY <2>1
<1> HIDE DEF known, pending
<1>5. r \in Pages /\ r.pending = pending /\ r.head = q.head
  BY <1>2, <1>3, <1>4 DEF Pages
<1>6. PendingSound(r)
  BY <1>2, <1>5 DEF PendingSound, pending
<1>7. v \in Views /\ ViewSound(v) /\ v.stale = d.stale
  <2>1. CASE d.latest = NoBlock /\ p.view.latest # NoBlock
    <3>1. v = [p.view EXCEPT !.warn = "gap", !.stale = d.stale]
      BY <2>1 DEF Retained
    <3> QED
      BY <1>1, <3>1 DEF Views, ViewSound, Warnings
  <2>2. CASE ~(d.latest = NoBlock /\ p.view.latest # NoBlock)
    <3>1. v = [latest |-> d.latest, verified |-> d.latest, warn |-> "none", stale |-> d.stale]
      BY <2>2 DEF Retained
    <3> QED
      BY <1>1, <3>1, TreeFacts DEF Views, ViewSound, Warnings, Hashes
  <2> QED
    BY <2>1, <2>2
<1>8. r.pending.kind = "reorg" =>
        d.stale \/ ~(d.latest # NoBlock) \/ r.head.seq > began
  <2> SUFFICES ASSUME r.pending.kind = "reorg", ~d.stale, d.latest # NoBlock
               PROVE  r.head.seq > began
    OBVIOUS
  <2>1. r.pending # NoPending
    BY DEF NoPending
  <2>2. pending = q.pending /\ ~Settles(d, began, q.pending)
    BY <1>5, <2>1 DEF pending
  <2>3. q.pending.seq \in Nat /\ q.head.seq \in Nat /\ q.pending.seq > began
    BY <1>2, <2>2 DEF Settles, Pages, Pendings, Heads
  <2>4. q.pending.seq <= q.head.seq
    BY <1>2, <1>5, <2>1, <2>2 DEF PendingSound
  <2> QED
    BY <1>5, <2>3, <2>4
<1> HIDE DEF r, v
<1>9. w \in Views /\ ViewSound(w) /\ (r.pending.kind = "reorg" => w.warn = "reorg" /\ w.verified = NoBlock)
  <2>1. (d.latest # NoBlock) \in BOOLEAN /\ began \in Int
    OBVIOUS
  <2> QED
    BY <1>5, <1>6, <1>7, <1>8, <2>1, Merges, Zenon
<1>10. ApplySnapshot(p, d, h, began) = s
  BY DEF ApplySnapshot, q, r, v, pending, known
<1> HIDE DEF w
<1>11. s \in Pages /\ s.view = w /\ s.pending = r.pending /\ s.head = r.head
  BY <1>5, <1>9 DEF Pages
<1>12. PageSound(s)
  BY <1>6, <1>9, <1>11 DEF PageSound, PendingSound, ReorgShown
<1> QED
  BY <1>10, <1>12

-----------------------------------------------------------------------------
(* The server's operations keep its type and count.                         *)

(* A step of the server that concerns neither viewers nor bounds.           *)
Same(s, t) == t \in Servers /\ t.clients = s.clients /\ t.moves = s.moves /\ t.faults = s.faults

LEMMA DetailsType ==
  NoDetails \in Details /\ NoHead \in Heads /\ NoJob \in Jobs /\ NoFrame \in Frames
<1>1. NoDetails \in Details
  BY TreeFacts DEF NoDetails, Details
<1>2. NoHead \in Heads /\ NoJob \in Jobs
  BY TreeFacts DEF NoHead, Heads, NoJob, Jobs
<1>3. NoFrame \in Frames
  BY <1>1 DEF NoFrame, Frames, Kinds
<1> QED
  BY <1>1, <1>2, <1>3

LEMMA StartedType ==
  ASSUME NEW b \in Blocks, NEW m \in Nat, NEW f \in Nat
  PROVE  /\ Started(b, m, f) \in Servers /\ Started(b, m, f).clients = 0
         /\ Started(b, m, f).moves = m /\ Started(b, m, f).faults = f
BY DetailsType, TreeFacts DEF Started, Servers

LEMMA MoveType ==
  ASSUME NEW s \in Servers, NEW b \in Blocks
  PROVE  /\ Move(s, b) \in Servers /\ Move(s, b).clients = s.clients
         /\ Move(s, b).moves = s.moves + 1 /\ Move(s, b).faults = s.faults
<1> DEFINE moves == s.moves + 1
           shaken == s.shaken \/ s.canon \notin Line[b]
<1>1. moves \in Nat
  BY DEF Servers
<1>2. shaken \in BOOLEAN
  OBVIOUS
<1>3. Move(s, b) = [s EXCEPT !.canon = b, !.moves = moves, !.shaken = shaken]
  BY DEF Move
<1> HIDE DEF moves, shaken
<1>4. Move(s, b) \in Servers /\ Move(s, b).moves = moves
  BY <1>1, <1>2, <1>3 DEF Servers
<1>5. Move(s, b).clients = s.clients /\ Move(s, b).faults = s.faults
  BY <1>3 DEF Servers
<1> QED
  BY <1>4, <1>5 DEF moves

LEMMA ObserveType == ASSUME NEW s \in Servers PROVE Same(s, Observe(s))
<1> DEFINE version == s.version + 1
           h == [block |-> s.heard, seq |-> version]
           wake == s.wake \/ Reconcile(s, s.heard)
           t == [s EXCEPT !.heard = NoBlock, !.head = h, !.version = version, !.wake = wake]
<1>1. version \in Nat /\ h \in Heads
  BY DEF Servers, Heads
<1>2. wake \in BOOLEAN
  BY DEF Servers
<1>3. Observe(s) = IF s.heard = s.head.block THEN [s EXCEPT !.heard = NoBlock] ELSE t
  BY DEF Observe
<1>4. Same(s, [s EXCEPT !.heard = NoBlock])
  BY TreeFacts DEF Same, Servers
<1> HIDE DEF wake, version, h
<1>5. t \in Servers
  BY <1>1, <1>2, TreeFacts DEF Servers
<1>6. t.clients = s.clients /\ t.moves = s.moves /\ t.faults = s.faults
  BY DEF Servers
<1> QED
  BY <1>3, <1>4, <1>5, <1>6 DEF Same

LEMMA BeginType ==
  ASSUME NEW s \in Servers, NEW for \in {"feed", "http"} PROVE Same(s, Begin(s, for))
<1>1. [for |-> for, latest |-> s.canon] \in Jobs
  BY TreeFacts DEF Jobs, Servers, Hashes
<1> QED
  BY <1>1 DEF Begin, Same, Servers

LEMMA AnsweredType ==
  ASSUME NEW s \in Servers, NEW kind \in {"snapshot", "unavailable"}, NEW d \in Details
  PROVE  Same(s, Answered(s, kind, d))
<1> DEFINE done  == [s EXCEPT !.job = NoJob]
           version == s.version + 1
           frame == [kind |-> kind, details |-> d, seq |-> version, began |-> s.began]
           http  == IF kind = "snapshot" THEN "answered" ELSE "failed"
<1>1. done \in Servers /\ Same(s, done) /\ done.version = s.version /\ done.began = s.began
  BY DetailsType DEF Same, Servers
<1>2. frame \in Frames /\ version \in Nat
  BY DEF Frames, Kinds, Servers
<1> HIDE DEF done
<1>3. Publish(done, kind, d) =
        [done EXCEPT !.version = version, !.started = FALSE, !.began = 0, !.frame = frame]
  BY <1>1 DEF Publish
<1> HIDE DEF frame, version
<1>4. Same(s, Publish(done, kind, d))
  <2> DEFINE t == [done EXCEPT !.version = version, !.frame = frame]
  <2>1. Publish(done, kind, d) \in Servers
    <3>1. t \in Servers
      BY <1>1, <1>2 DEF Servers
    <3>2. [t EXCEPT !.started = FALSE, !.began = 0] \in Servers
      BY <3>1 DEF Servers
    <3>3. Publish(done, kind, d) = [t EXCEPT !.started = FALSE, !.began = 0]
      BY <1>1, <1>3 DEF Servers
    <3> QED
      BY <3>2, <3>3
  <2>2. /\ Publish(done, kind, d).clients = done.clients
        /\ Publish(done, kind, d).moves = done.moves
        /\ Publish(done, kind, d).faults = done.faults
    BY <1>1, <1>3 DEF Servers
  <2> QED
    BY <1>1, <2>1, <2>2 DEF Same
<1>5. Same(s, [done EXCEPT !.answer = d, !.http = http])
  BY <1>1 DEF Same, Servers
<1> QED
  BY <1>4, <1>5 DEF Answered, done

LEMMA CollectedType ==
  ASSUME NEW s \in Servers, NEW d \in Details PROVE Same(s, Collected(s, d))
<1> DEFINE t == [s EXCEPT !.cached = d, !.filled = TRUE]
<1>1. Same(s, t)
  BY DEF Same, Servers
<1> HIDE DEF t
<1>2. Same(t, Answered(t, "snapshot", d))
  BY <1>1, AnsweredType DEF Same
<1> QED
  BY <1>1, <1>2 DEF Same, Collected, t

(* A collection that ends well, or gives up on the chain.                   *)
LEMMA ChainDoneType ==
  ASSUME NEW s \in Servers PROVE Same(s, ChainDone(s)) /\ Same(s, ChainFails(s))
<1> DEFINE t == [s EXCEPT !.shaken = FALSE]
           d == [latest |-> s.job.latest, stale |-> FALSE]
<1>1. Same(s, t)
  BY DEF Same, Servers
<1>2. d \in Details /\ NoDetails \in Details
  BY DetailsType DEF Details, Servers, Jobs
<1> HIDE DEF t, d
<1>3. Same(t, Collected(t, d)) /\ Same(t, Collected(t, NoDetails))
  BY <1>1, <1>2, CollectedType DEF Same
<1> QED
  BY <1>1, <1>3 DEF Same, ChainDone, ChainFails, t, d

(* A fault that leaves the viewers alone.                                   *)
Faulty(s, t) ==
  t \in Servers /\ t.clients = s.clients /\ t.moves = s.moves /\ t.faults = s.faults + 1

LEMMA FaultType ==
  ASSUME NEW s \in Servers, NEW t, Same(s, t) PROVE Faulty(s, Fault(t))
BY DEF Same, Faulty, Fault, Servers

LEMMA CollectionFailsType ==
  ASSUME NEW s \in Servers PROVE Faulty(s, ChainRaises(s)) /\ Faulty(s, CollectFails(s))
<1> DEFINE stale == [s.cached EXCEPT !.stale = TRUE]
           t     == [s EXCEPT !.cached = stale]
<1>1. Faulty(s, ChainRaises(s))
  BY CollectedType, FaultType, DetailsType DEF ChainRaises
<1>2. stale \in Details
  BY DEF Servers, Details
<1> HIDE DEF stale
<1>3. Same(s, t)
  BY <1>2 DEF Same, Servers
<1> HIDE DEF t
<1>4. Same(t, Answered(t, "snapshot", stale))
  BY <1>2, <1>3, AnsweredType DEF Same
<1>5. Same(s, Answered(t, "snapshot", stale)) /\ Same(s, Answered(s, "unavailable", NoDetails))
  BY <1>3, <1>4, AnsweredType, DetailsType DEF Same
<1>6. Faulty(s, CollectFails(s))
  BY <1>5, FaultType DEF CollectFails, t, stale
<1> QED
  BY <1>1, <1>6

LEMMA RefreshingType == ASSUME NEW s \in Servers PROVE Same(s, Refreshing(s))
BY DEF Same, Refreshing, Servers

-----------------------------------------------------------------------------
(* The inductive invariant: the page is sound, and viewers are counted.     *)

ServerSound == server \in Servers /\ server.moves <= MaxMoves /\ server.faults <= MaxFaults

IInv == ServerSound /\ link \in Links /\ PageSound(page) /\ ViewersCounted

LEMMA LinkParts ==
  ASSUME link \in Links
  PROVE  /\ link.open \in BOOLEAN /\ link.cursor \in Int /\ link.orphans \in Nat
         /\ link.wire \in Seq(Messages)
BY DEF Links

LEMMA InitHolds == Init => IInv
<1> SUFFICES ASSUME Init PROVE IInv
  OBVIOUS
<1>1. PICK b \in Blocks : server = Started(b, 0, 0)
  BY DEF Init
<1>2. ServerSound /\ server.clients = 0
  BY <1>1, StartedType, TreeAssumption, FeedAssumption DEF ServerSound
<1>3. link = [open |-> FALSE, cursor |-> 0, wire |-> <<>>, orphans |-> 0]
  BY DEF Init, NoLink
<1>4. link \in Links
  <2>1. <<>> \in Seq(Messages)
    OBVIOUS
  <2> QED
    BY <1>3, <2>1 DEF Links
<1>5. ViewersCounted
  BY <1>2, <1>3, FeedAssumption DEF ViewersCounted
<1>6. PageSound(page)
  BY NoPageSound DEF Init
<1> QED
  BY <1>2, <1>4, <1>5, <1>6 DEF IInv

(* A step of the server's threads that leaves page and socket alone.        *)
LEMMA SameKeeps ==
  ASSUME IInv, Same(server, server'), link' = link, PageSound(page')
  PROVE  IInv'
BY DEF IInv, ServerSound, Same, ViewersCounted

LEMMA FaultyKeeps ==
  ASSUME IInv, MayFault(server), Faulty(server, server'), UNCHANGED <<page, link>>
  PROVE  IInv'
<1>1. server.faults < MaxFaults /\ server.faults \in Nat /\ MaxFaults \in Nat
  BY FeedAssumption DEF MayFault, IInv, ServerSound, Servers
<1> QED
  BY <1>1 DEF IInv, ServerSound, Faulty, ViewersCounted

LEMMA ThreadsKeep ==
  ASSUME IInv,
         \/ ChainMoves \/ WatcherReads \/ WatcherObserves
         \/ LoopStarts \/ LoopCollects \/ HttpCollects \/ HttpCached
         \/ ChainRead \/ CollectionFails
  PROVE  IInv'
<1>1. server \in Servers /\ PageSound(page)
  BY DEF IInv, ServerSound
<1>2. CASE ChainMoves
  <2>1. PICK b \in Blocks : server.moves < MaxMoves /\ ServerStep(Move(server, b))
    BY <1>2 DEF ChainMoves
  <2>2. server.moves \in Nat /\ MaxMoves \in Nat
    BY <1>1, TreeAssumption DEF Servers
  <2>3. /\ server' \in Servers /\ server'.clients = server.clients
        /\ server'.moves = server.moves + 1 /\ server'.faults = server.faults
    BY <1>1, <2>1, MoveType DEF ServerStep
  <2> QED
    BY <2>1, <2>2, <2>3 DEF IInv, ServerSound, ViewersCounted, ServerStep
<1>3. CASE WatcherReads
  <2>1. Same(server, server')
    BY <1>1, <1>3, TreeFacts DEF WatcherReads, ServerStep, Same, Servers
  <2> QED
    BY <1>1, <1>3, <2>1, SameKeeps DEF WatcherReads, ServerStep
<1>4. CASE WatcherObserves
  BY <1>1, <1>4, ObserveType, SameKeeps DEF WatcherObserves, ServerStep
<1>5. CASE LoopStarts
  <2>1. Same(server, server')
    BY <1>1, <1>5 DEF LoopStarts, ServerStep, Same, Servers
  <2> QED
    BY <1>1, <1>5, <2>1, SameKeeps DEF LoopStarts, ServerStep
<1>6. CASE LoopCollects
  BY <1>1, <1>6, BeginType, SameKeeps DEF LoopCollects, ServerStep
<1>7. CASE HttpCollects
  BY <1>1, <1>7, BeginType, SameKeeps DEF HttpCollects, ServerStep
<1>8. CASE HttpCached
  <2>1. Same(server, server')
    BY <1>1, <1>8 DEF HttpCached, ServerStep, Same, Servers
  <2> QED
    BY <1>1, <1>8, <2>1, SameKeeps DEF HttpCached, ServerStep
<1>9. CASE ChainRead
  BY <1>1, <1>9, ChainDoneType, SameKeeps DEF ChainRead, ServerStep
<1>10. CASE CollectionFails
  BY <1>1, <1>10, CollectionFailsType, FaultyKeeps DEF CollectionFails, ServerStep
<1> QED
  BY <1>2, <1>3, <1>4, <1>5, <1>6, <1>7, <1>8, <1>9, <1>10

-----------------------------------------------------------------------------
(* The socket.                                                              *)

LEMMA MessageType == ASSUME server \in Servers PROVE Message \in Messages
<1>1. server.frame \in Frames /\ server.head \in Heads /\ NoDetails \in Details
  BY DetailsType DEF Servers
<1>2. CASE server.frame.kind # "none" /\ server.frame.seq > link.cursor
  <2>1. Message = [kind |-> server.frame.kind, details |-> server.frame.details,
                   began |-> server.frame.began, head |-> server.head]
    BY <1>2 DEF Message
  <2> QED
    BY <1>1, <1>2, <2>1 DEF Messages, Frames, Kinds
<1>3. CASE ~(server.frame.kind # "none" /\ server.frame.seq > link.cursor)
  <2>1. Message = [kind |-> "heads", details |-> NoDetails, began |-> 0, head |-> server.head]
    BY <1>3 DEF Message
  <2> QED
    BY <1>1, <2>1 DEF Messages
<1> QED
  BY <1>2, <1>3

LEMMA SendsKeeps == ASSUME IInv, Sends PROVE IInv'
<1>1. /\ link' = [link EXCEPT !.wire = Append(@, Message), !.cursor = server.version]
      /\ UNCHANGED <<server, page>>
  BY DEF Sends
<1>2. Append(link.wire, Message) \in Seq(Messages) /\ server.version \in Int
  <2>1. Message \in Messages
    BY MessageType DEF IInv, ServerSound
  <2> QED
    BY <2>1, LinkParts, AppendProperties DEF IInv, ServerSound, Servers
<1>3. link' \in Links /\ link'.open = link.open /\ link'.orphans = link.orphans
  BY <1>1, <1>2 DEF Links, IInv
<1> QED
  BY <1>1, <1>3 DEF IInv, ServerSound, ViewersCounted

LEMMA HandlerEndsKeeps == ASSUME IInv, HandlerEnds PROVE IInv'
<1>1. /\ link.orphans > 0 /\ server' = Detach(server)
      /\ link' = [link EXCEPT !.orphans = @ - 1] /\ page' = page
  BY DEF HandlerEnds
<1>2. link.orphans \in Nat /\ link \in Links /\ link.open \in BOOLEAN /\ server \in Servers
  BY LinkParts DEF IInv, ServerSound
<1>3. server.clients = link.orphans + (IF link.open THEN 1 ELSE 0) /\ server.clients <= MaxClients
  BY DEF IInv, ViewersCounted
<1>4. server.clients - 1 \in Nat /\ link.orphans - 1 \in Nat
  BY <1>1, <1>2, <1>3
<1>5. /\ server' \in Servers /\ server'.clients = server.clients - 1
      /\ server'.moves = server.moves /\ server'.faults = server.faults
  BY <1>1, <1>2, <1>4 DEF Detach, Servers
<1>6. link' \in Links /\ link'.orphans = link.orphans - 1 /\ link'.open = link.open
  BY <1>1, <1>2, <1>4 DEF Links
<1>7. ViewersCounted'
  BY <1>2, <1>3, <1>4, <1>5, <1>6, FeedAssumption DEF ViewersCounted
<1> QED
  BY <1>1, <1>5, <1>6, <1>7 DEF IInv, ServerSound

LEMMA ConnectsKeeps == ASSUME IInv, Connects PROVE IInv'
<1>1. /\ ~link.open /\ server.clients < MaxClients
      /\ page' = Reconnected(page) /\ server' = Attach(server)
  BY DEF Connects, HasPlace
<1>2. PICK cursor \in {server.version} \cup {-1} :
        link' = [link EXCEPT !.open = TRUE, !.cursor = cursor]
  BY DEF Connects
<1>3. link.orphans \in Nat /\ link \in Links /\ server \in Servers
  BY LinkParts DEF IInv, ServerSound
<1>4. server.clients \in Nat /\ server.version \in Nat /\ MaxClients \in Nat
  BY <1>3, FeedAssumption DEF Servers
<1> DEFINE clients == server.clients + 1
<1>5. clients \in Nat /\ cursor \in Int
  BY <1>4
<1>6. server' = [server EXCEPT !.clients = clients, !.wake = TRUE]
  BY <1>1 DEF Attach
<1> HIDE DEF clients
<1>7. /\ server' \in Servers /\ server'.clients = clients
      /\ server'.moves = server.moves /\ server'.faults = server.faults
  BY <1>3, <1>5, <1>6 DEF Servers
<1>8. link' \in Links /\ link'.orphans = link.orphans /\ link'.open
  BY <1>2, <1>3, <1>5 DEF Links
<1>9. ViewersCounted'
  <2>1. server.clients = link.orphans
    BY <1>1, <1>3 DEF IInv, ViewersCounted
  <2> QED
    BY <1>1, <1>3, <1>4, <1>7, <1>8, <2>1 DEF ViewersCounted, clients
<1>10. PageSound(page')
  BY <1>1, ReconnectedSound DEF IInv
<1> QED
  BY <1>7, <1>8, <1>9, <1>10 DEF IInv, ServerSound

LEMMA RefusedKeeps == ASSUME IInv, Refused PROVE IInv'
<1>1. server' = Refreshing(server) /\ page' = Closed(Reconnected(page)) /\ link' = link
  BY DEF Refused
<1>2. Same(server, server') /\ PageSound(page')
  BY <1>1, RefreshingType, ReconnectedSound, ClosedSound DEF IInv, ServerSound
<1> QED
  BY <1>1, <1>2, SameKeeps

(* Connections and restarts: the socket is gone, with what was in flight.   *)
LEMMA GoneType ==
  ASSUME link \in Links, NEW n \in Nat
  PROVE  LET gone == [link EXCEPT !.open = FALSE, !.cursor = 0, !.wire = <<>>, !.orphans = n]
         IN gone \in Links /\ gone.open = FALSE /\ gone.orphans = n
<1> DEFINE nothing == <<>>
<1>1. nothing \in Seq(Messages) /\ 0 \in Int
  OBVIOUS
<1> HIDE DEF nothing
<1>2. [link EXCEPT !.open = FALSE, !.cursor = 0, !.wire = nothing, !.orphans = n] \in Links
  BY <1>1 DEF Links
<1>3. link = [open |-> link.open, cursor |-> link.cursor, wire |-> link.wire, orphans |-> link.orphans]
  BY DEF Links
<1> QED
  BY <1>2, <1>3 DEF nothing

LEMMA LostKeeps == ASSUME IInv, Lost PROVE IInv'
<1>1. /\ link.open /\ server.faults < MaxFaults
      /\ server' = Refreshing(Fault(server)) /\ page' = Closed(page)
  BY DEF Lost, MayFault
<1>2. link.orphans \in Nat /\ link \in Links /\ server \in Servers
  BY LinkParts DEF IInv, ServerSound
<1>3. Faulty(server, Fault(server)) /\ Same(Fault(server), server')
  <2>1. Same(server, server)
    BY <1>2 DEF Same
  <2>2. Faulty(server, Fault(server))
    BY <1>2, <2>1, FaultType
  <2> QED
    BY <1>1, <2>2, RefreshingType DEF Faulty
<1>4. ServerSound' /\ server'.clients = server.clients
  <2>1. server.faults \in Nat /\ MaxFaults \in Nat
    BY <1>2, FeedAssumption DEF Servers
  <2> QED
    BY <1>1, <1>3, <2>1 DEF IInv, ServerSound, Faulty, Same
<1>5. link' \in Links /\ link'.open = FALSE /\ link'.orphans = link.orphans + 1
  <2>1. link.orphans + 1 \in Nat
    BY <1>2
  <2>2. link' = [link EXCEPT !.open = FALSE, !.cursor = 0, !.wire = <<>>, !.orphans = link.orphans + 1]
    BY DEF Lost
  <2> QED
    BY <1>2, <2>1, <2>2, GoneType
<1>6. ViewersCounted'
  BY <1>1, <1>2, <1>4, <1>5 DEF IInv, ViewersCounted
<1>7. PageSound(page')
  BY <1>1, ClosedSound DEF IInv
<1> QED
  BY <1>4, <1>5, <1>6, <1>7 DEF IInv

LEMMA RestartKeeps == ASSUME IInv, Restart PROVE IInv'
<1> DEFINE http == IF server.http = "none" /\ ~link.open THEN "none" ELSE "failed"
           fresh == Started(server.canon, server.moves, server.faults + 1)
<1>1. /\ server.faults < MaxFaults /\ server' = [fresh EXCEPT !.http = http]
      /\ page' = IF link.open THEN Closed(page) ELSE page
  BY DEF Restart, MayFault
<1>2. link \in Links /\ server \in Servers /\ server.moves <= MaxMoves
  BY DEF IInv, ServerSound
<1>3. /\ server.canon \in Blocks /\ server.moves \in Nat /\ server.faults \in Nat
      /\ server.faults + 1 \in Nat /\ MaxFaults \in Nat
  BY <1>2, FeedAssumption DEF Servers
<1>4. /\ fresh \in Servers /\ fresh.clients = 0 /\ fresh.moves = server.moves
      /\ fresh.faults = server.faults + 1
  BY <1>3, StartedType
<1>5. http \in {"none", "failed"}
  OBVIOUS
<1> HIDE DEF fresh, http
<1>6. /\ server' \in Servers /\ server'.clients = 0 /\ server'.moves = server.moves
      /\ server'.faults = server.faults + 1
  BY <1>1, <1>4, <1>5 DEF Servers
<1>7. ServerSound'
  BY <1>1, <1>2, <1>3, <1>6 DEF ServerSound
<1>8. link' \in Links /\ link'.open = FALSE /\ link'.orphans = 0
  BY <1>2, GoneType DEF Restart
<1>9. ViewersCounted'
  BY <1>6, <1>8, FeedAssumption DEF ViewersCounted
<1>10. PageSound(page')
  BY <1>1, ClosedSound DEF IInv
<1> QED
  BY <1>7, <1>8, <1>9, <1>10 DEF IInv

-----------------------------------------------------------------------------
(* The page.                                                                *)

LEMMA ReceivesKeeps == ASSUME IInv, Receives PROVE IInv'
<1> DEFINE m == Head(link.wire)
<1>1. /\ link.wire # <<>> /\ page' = Received
      /\ link' = [link EXCEPT !.wire = Tail(@)]
      /\ server' = IF m.kind = "unavailable" THEN Refreshing(server) ELSE server
  BY DEF Receives
<1>2. link \in Links /\ link.wire \in Seq(Messages) /\ server \in Servers /\ PageSound(page)
  BY LinkParts DEF IInv, ServerSound
<1>3. m \in Messages /\ Tail(link.wire) \in Seq(Messages)
  BY <1>1, <1>2, HeadTailProperties
<1> HIDE DEF m
<1>4. m.head \in Heads /\ m.details \in Details /\ m.began \in Nat
  BY <1>3 DEF Messages
<1>5. PageSound(page')
  <2>1. Received = CASE m.kind = "heads" -> ApplyHeads(page, m.head)
                     [] m.kind = "unavailable" -> Closed(ApplyHeads(page, m.head))
                     [] OTHER -> [ApplySnapshot(page, m.details, m.head, m.began)
                                  EXCEPT !.polling = FALSE]
    BY DEF Received, m
  <2>2. PageSound(ApplyHeads(page, m.head))
    BY <1>2, <1>4, ApplyHeadsSound
  <2>3. PageSound(Closed(ApplyHeads(page, m.head)))
    BY <2>2, ClosedSound
  <2>4. PageSound(ApplySnapshot(page, m.details, m.head, m.began))
    BY <1>2, <1>4, ApplySnapshotSound
  <2>5. PageSound([ApplySnapshot(page, m.details, m.head, m.began) EXCEPT !.polling = FALSE])
    BY <2>4, FlagsSound
  <2>6. CASE m.kind = "heads"
    BY <1>1, <2>1, <2>2, <2>6
  <2>7. CASE m.kind = "unavailable"
    BY <1>1, <2>1, <2>3, <2>7
  <2>8. CASE m.kind \notin {"heads", "unavailable"}
    BY <1>1, <2>1, <2>5, <2>8
  <2> QED
    BY <2>6, <2>7, <2>8
<1>6. Same(server, server')
  <2>1. Same(server, server)
    BY <1>2 DEF Same
  <2> QED
    BY <1>1, <1>2, <2>1, RefreshingType
<1>7. link' \in Links /\ link'.open = link.open /\ link'.orphans = link.orphans
  BY <1>1, <1>2, <1>3 DEF Links
<1> QED
  BY <1>5, <1>6, <1>7 DEF IInv, ServerSound, Same, ViewersCounted

LEMMA BlocksArriveKeeps == ASSUME IInv, BlocksArrive PROVE IInv'
<1>1. /\ page' = [page EXCEPT !.known = @ \cup Fetched(page.head.block)]
      /\ UNCHANGED <<server, link>>
  BY DEF BlocksArrive
<1>2. page.head.block \in Hashes
  BY DEF IInv, PageSound, Pages, Heads
<1>3. PageSound(page')
  BY <1>1, <1>2, FetchedType, KnownSound DEF IInv
<1> QED
  BY <1>1, <1>3 DEF IInv, ServerSound, ViewersCounted

LEMMA HttpKeeps == ASSUME IInv, Polls \/ HttpApplied \/ HttpFails PROVE IInv'
<1>1. server \in Servers /\ PageSound(page)
  BY DEF IInv, ServerSound
<1>2. CASE Polls
  <2>1. Same(server, server') /\ link' = link
    BY <1>1, <1>2, RefreshingType DEF Polls
  <2>2. PageSound(page')
    BY <1>1, <1>2, FlagsSound DEF Polls, Issued
  <2> QED
    BY <2>1, <2>2, SameKeeps
<1>3. CASE HttpApplied
  <2> DEFINE shown == ApplySnapshot(page, server.answer, NoHead, page.head.seq)
  <2>1. server' = [server EXCEPT !.http = "none", !.answer = NoDetails] /\ link' = link
    BY <1>3 DEF HttpApplied
  <2>2. page' = IF page.current THEN [shown EXCEPT !.current = FALSE] ELSE page
    BY <1>3 DEF HttpApplied
  <2>3. server.answer \in Details /\ page.head.seq \in Nat /\ NoHead \in Heads /\ NoDetails \in Details
    BY <1>1, DetailsType DEF Servers, PageSound, Pages, Heads
  <2>4. PageSound(shown)
    BY <1>1, <2>3, ApplySnapshotSound
  <2> HIDE DEF shown
  <2>5. PageSound(page')
    BY <1>1, <2>2, <2>4, FlagsSound
  <2>6. Same(server, server')
    BY <1>1, <2>1, <2>3 DEF Same, Servers
  <2> QED
    BY <2>1, <2>5, <2>6, SameKeeps
<1>4. CASE HttpFails
  <2>1. /\ server' = [server EXCEPT !.http = "none"] /\ link' = link
        /\ page' = [page EXCEPT !.current = FALSE]
    BY <1>4 DEF HttpFails
  <2>2. Same(server, server')
    BY <1>1, <2>1 DEF Same, Servers
  <2>3. PageSound(page')
    BY <1>1, <2>1, FlagsSound
  <2> QED
    BY <2>1, <2>2, <2>3, SameKeeps
<1> QED
  BY <1>2, <1>3, <1>4

-----------------------------------------------------------------------------
LEMMA StepKeeps == ASSUME IInv, [Next]_vars PROVE IInv'
<1>1. CASE UNCHANGED vars
  BY <1>1 DEF vars, IInv, ServerSound, ViewersCounted
<1>2. CASE Next
  <2>1. CASE \/ ChainMoves \/ WatcherReads \/ WatcherObserves
             \/ LoopStarts \/ LoopCollects \/ HttpCollects \/ HttpCached
             \/ ChainRead \/ CollectionFails
    BY <2>1, ThreadsKeep
  <2>2. CASE Connects \/ Refused \/ Sends \/ Lost \/ HandlerEnds \/ Restart
    BY <2>2, ConnectsKeeps, RefusedKeeps, SendsKeeps, LostKeeps, HandlerEndsKeeps, RestartKeeps
  <2>3. CASE Receives \/ BlocksArrive \/ Polls \/ HttpApplied \/ HttpFails
    BY <2>3, ReceivesKeeps, BlocksArriveKeeps, HttpKeeps
  <2> QED
    BY <1>2, <2>1, <2>2, <2>3 DEF Next
<1> QED
  BY <1>1, <1>2

LEMMA Sound == Spec => []IInv
<1> QED
  BY InitHolds, StepKeeps, PTL DEF Spec

(* The server, the page and the socket keep their types within the bounds.  *)
THEOREM TypeCorrect == Spec => []TypeOK
<1>1. IInv => TypeOK
  BY DEF IInv, ServerSound, PageSound, TypeOK
<1> QED
  BY <1>1, Sound, PTL

(* applySnapshot, mergeHeads: whatever frames, polls, losses and restarts   *)
(* lead to, checked data is only shown under a head of its own branch, or   *)
(* with a warning.                                                          *)
THEOREM ShownStaysConsistent == Spec => []ShownConsistent
<1>1. IInv => ShownConsistent
  BY DEF IInv, PageSound, ViewSound, ShownConsistent
<1> QED
  BY <1>1, Sound, PTL

(* rememberHeads, applySnapshot: a reorganisation stays visible until a     *)
(* collection that started after it is through.                             *)
THEOREM ReorgsAreShown == Spec => []ReorgHidesSafety
<1>1. IInv => ReorgHidesSafety
  BY DEF IInv, PageSound, ReorgShown, ReorgHidesSafety
<1> QED
  BY <1>1, Sound, PTL

(* attach, detach, serve_websocket: the count of viewers is that of the     *)
(* handlers, through refused, lost and orphaned connections and restarts.   *)
THEOREM ViewersAreCounted == Spec => []ViewersCounted
<1>1. IInv => ViewersCounted
  BY DEF IInv
<1> QED
  BY <1>1, Sound, PTL
=============================================================================
