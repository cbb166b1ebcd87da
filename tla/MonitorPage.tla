------------------------------ MODULE MonitorPage ------------------------------
(***************************************************************************)
(* The monitor page's side of the live updates, for one chain: what a       *)
(* pushed head, a pushed snapshot and a snapshot fetched over HTTP make of  *)
(* the page.  Handlers of the page run one at a time, so each is a function *)
(* of the page.                                                             *)
(*                                                                          *)
(* Of the data shown the model keeps the head, the block whose collection   *)
(* the safety and settlement data come from, and the warning beside them.   *)
(***************************************************************************)
EXTENDS SnapshotFeed

Warnings == {"none", "gap", "reorg"}

(* state.snapshot as it is rendered.                                        *)
Views == [latest   : Hashes,    \* chains[name].latest
          verified : Hashes,    \* the head of the collection safe and finalized are from
          warn     : Warnings,  \* reconciliation[name]
          stale    : BOOLEAN]   \* snapshot.stale
NoView == [latest |-> NoBlock, verified |-> NoBlock, warn |-> "none", stale |-> FALSE]

(* pendingChains[name].                                                     *)
Pendings  == [seq : Nat, kind : Warnings]
NoPending == [seq |-> 0, kind |-> "none"]

Pages ==
  [view    : Views,
   head    : Heads,            \* heads[name]
   pending : Pendings,
   known   : SUBSET Blocks,    \* headHistory[name], and the rows shown
   polling : BOOLEAN,          \* timer
   current : BOOLEAN]          \* revision is what it was when the request was made

NoPage == [view |-> NoView, head |-> NoHead, pending |-> NoPending,
           known |-> {}, polling |-> FALSE, current |-> FALSE]

(* The rows a snapshot or the details of a head come with.                  *)
Fetched(b) == IF b = NoBlock THEN {} ELSE Rows(b)

(* The rows that follow a block without a gap (hydrateBlockRows).           *)
Contiguous(b, known) ==
  {x \in Fetched(b) : \A y \in Line[b] : Number[y] >= Number[x] => y \in known}

(* A walk from a head over known blocks arrives at the base.                *)
Connected(b, base, known) ==
  \/ b = base
  \/ /\ base \in Line[b]
     /\ \A x \in Line[b] : Number[x] >= Number[base] => x \in known \cup {b}

-----------------------------------------------------------------------------
(* The gap or reorganisation a head shows, next to the head shown before.   *)
Break(before, b) ==
  IF before \in {NoBlock, b} \/ Parent[b] = before THEN "none"
  ELSE IF Number[b] <= Number[before] + 1 THEN "reorg" ELSE "gap"

RememberHeads(p, h) ==
  IF h.block = NoBlock \/ (p.head.block # NoBlock /\ h.seq <= p.head.seq) THEN p
  ELSE LET broken == Break(p.view.latest, h.block)
       IN [p EXCEPT !.head = h, !.known = @ \cup {h.block},
                    !.pending = IF broken = "none" THEN @
                                ELSE [seq |-> h.seq,
                                      kind |-> IF "reorg" \in {broken, p.pending.kind}
                                               THEN "reorg" ELSE "gap"]]

(* Fault: only the path to the details counts, not what is pending.         *)
MergePathFault(v, healthy, began, p) ==
  LET b         == p.head.block
      reconciled == ~v.stale /\ healthy /\ v.latest # NoBlock /\ p.head.seq <= began
      unsure    == v.latest # NoBlock /\ ~Connected(b, v.latest, p.known)
      kind      == IF p.pending # NoPending THEN p.pending.kind ELSE "gap"
  IN IF b = NoBlock \/ reconciled THEN v
     ELSE [v EXCEPT !.latest = b,
                    !.warn = IF unsure THEN kind ELSE @,
                    !.verified = IF unsure /\ kind = "reorg" THEN NoBlock ELSE @]

(* A head over the details of a snapshot, which stand if they are newer.    *)
MergeHeads(v, healthy, began, p) ==
  LET b         == p.head.block
      reconciled == ~v.stale /\ healthy /\ v.latest # NoBlock /\ p.head.seq <= began
      connected == Connected(b, v.latest, p.known)
      unsure    == p.pending # NoPending \/ (v.latest # NoBlock /\ ~connected)
      kind      == IF p.pending # NoPending THEN p.pending.kind ELSE "gap"
  IN IF b = NoBlock \/ reconciled THEN v
     ELSE [v EXCEPT !.latest = b,
                    !.warn = IF unsure THEN kind ELSE @,
                    !.verified = IF unsure /\ kind = "reorg" THEN NoBlock ELSE @]

(* applyHeads: only a head newer than the last one changes anything.        *)
ApplyHeads(p, h) ==
  LET q == RememberHeads(p, h)
  IN IF q = p THEN p
     ELSE [q EXCEPT !.view = MergeHeads(p.view, FALSE, -1, q), !.current = FALSE]

(* A snapshot settles what was pending when its collection started.         *)
Settles(d, began, pending) ==
  ~d.stale /\ d.latest # NoBlock /\ pending.seq <= began

(* Fault: nothing marks the chain that failed.                              *)
UnmarkedFault(d, v) ==
  IF d.latest = NoBlock /\ v.latest # NoBlock
  THEN [v EXCEPT !.warn = "none", !.stale = d.stale]
  ELSE [latest |-> d.latest, verified |-> d.latest, warn |-> "none", stale |-> d.stale]

(* A chain that failed keeps what was last shown of it, marked as a gap.    *)
Retained(d, v) ==
  IF d.latest = NoBlock /\ v.latest # NoBlock
  THEN [v EXCEPT !.warn = "gap", !.stale = d.stale]
  ELSE [latest |-> d.latest, verified |-> d.latest, warn |-> "none", stale |-> d.stale]

ApplySnapshot(p, d, h, began) ==
  LET q == RememberHeads(p, h)
      r == [q EXCEPT !.pending = IF Settles(d, began, @) THEN NoPending ELSE @,
                     !.known = @ \cup Fetched(d.latest) \cup Contiguous(p.view.latest, q.known)]
  IN [r EXCEPT !.view = MergeHeads(Retained(d, p.view), d.latest # NoBlock, began, r),
               !.current = FALSE]

(* Fault: the head of the last connection stays, and its version.           *)
ReconnectedKeepFault(p) == [p EXCEPT !.pending = NoPending]

(* connectLive: sequence numbers belong to a connection.                    *)
Reconnected(p) ==
  [p EXCEPT !.head = NoHead, !.pending = NoPending,
            !.known = Contiguous(p.view.latest, p.known)]

=============================================================================
