------------------------------ MODULE LiveUpdates ------------------------------
(***************************************************************************)
(* The monitor's live updates: the feed of the server, one page that        *)
(* follows it, and the socket between them.  A head is pushed as soon as    *)
(* the watcher sees it, details follow when a collection is through, and a  *)
(* page without pushes polls over HTTP.  The page has to put together what  *)
(* arrives in an order the server never saw.                                *)
(*                                                                          *)
(* The socket delivers in order and may be lost at any time, with what is   *)
(* in flight.  The page notices; the handler on the server only when it next *)
(* sends, and takes a place until then.  Other viewers are left out.        *)
(***************************************************************************)
EXTENDS MonitorPage, Sequences

CONSTANT MaxInFlight  \* frames the socket holds

ASSUME LinkAssumption == MaxInFlight \in Nat \ {0}

VARIABLES page, link
vars == <<server, page, link>>

(* refresh: one request at a time.                                          *)
Refreshing(s) == IF s.http = "none" THEN [s EXCEPT !.http = "asked"] ELSE s
Issued(p)     == IF server.http = "none" THEN [p EXCEPT !.current = TRUE] ELSE p

(* reconnectLive: the page polls, and refreshes at once.                    *)
Closed(p) == [Issued(p) EXCEPT !.polling = TRUE]

(* Frames carry the latest head whatever else they carry (wait).            *)
Messages == [kind : {"heads", "snapshot", "unavailable"}, details : Details,
             began : Nat, head : Heads]

Links ==
  [open    : BOOLEAN,
   cursor  : Int,            \* the version the handler has sent
   wire    : Seq(Messages),
   orphans : Nat]            \* attached handlers that lost their viewer

NoLink == [open |-> FALSE, cursor |-> 0, wire |-> <<>>, orphans |-> 0]

Init ==
  /\ \E b \in Blocks : server = Started(b, 0, 0)
  /\ page = NoPage
  /\ link = NoLink

-----------------------------------------------------------------------------
(* The server's threads.                                                    *)

ServerStep(s) == server' = s /\ UNCHANGED <<page, link>>

ChainMoves == \E b \in Blocks \ {server.canon} :
  server.moves < MaxMoves /\ ServerStep(Move(server, b))

WatcherReads == /\ Active(server) /\ server.heard = NoBlock
                /\ server.canon # server.head.block
                /\ ServerStep([server EXCEPT !.heard = server.canon])

WatcherObserves == server.heard # NoBlock /\ ServerStep(Observe(server))

(* run: what it has missed so far is what it started before.                *)
LoopStarts == /\ ~server.started /\ Active(server)
              /\ server.wake \/ Outdated(server)
              /\ ServerStep([server EXCEPT !.wake = FALSE, !.started = TRUE,
                                           !.began = server.version])

(* cache.get takes the lock; only the loop collects whatever the cache has. *)
LoopCollects == /\ server.started /\ server.job = NoJob
                /\ ServerStep(Begin(server, "feed"))

HttpCollects == /\ server.http = "asked" /\ server.job = NoJob
                /\ ServerStep(Begin(server, "http"))

HttpCached == /\ server.http = "asked" /\ server.job = NoJob /\ server.filled
              /\ ServerStep([server EXCEPT !.http = "answered", !.answer = server.cached])

ChainRead == /\ server.job # NoJob
             /\ \/ server.job.latest \in Line[server.canon] /\ ServerStep(ChainDone(server))
                \/ server.shaken /\ ServerStep(ChainFails(server))

CollectionFails == /\ server.job # NoJob /\ MayFault(server)
                   /\ \/ ServerStep(ChainRaises(server))
                      \/ ServerStep(CollectFails(server))

-----------------------------------------------------------------------------
(* The socket.                                                              *)

HasPlace == server.clients < MaxClients

(* wait: the frame if it is newer than the cursor, else the heads.          *)
Message ==
  IF server.frame.kind # "none" /\ server.frame.seq > link.cursor
  THEN [kind |-> server.frame.kind, details |-> server.frame.details,
        began |-> server.frame.began, head |-> server.head]
  ELSE [kind |-> "heads", details |-> NoDetails, began |-> 0, head |-> server.head]

Sends == /\ link.open /\ server.version # link.cursor
         /\ Len(link.wire) < MaxInFlight
         /\ link' = [link EXCEPT !.wire = Append(@, Message), !.cursor = server.version]
         /\ UNCHANGED <<server, page>>

(* Every end of a handler goes through its finally.                         *)
HandlerEnds == /\ link.orphans > 0
               /\ server' = Detach(server)
               /\ link' = [link EXCEPT !.orphans = @ - 1]
               /\ UNCHANGED page

-----------------------------------------------------------------------------
(* The page.                                                                *)

(* connectLive and serve_websocket: an upgrade without a place is refused.  *)
(* A feed whose last frame is old makes the page wait for the next one.     *)
Connects == /\ ~link.open /\ HasPlace
            /\ page' = Reconnected(page)
            /\ server' = Attach(server)
            /\ \E cursor \in {server.version} \cup
                   (IF server.frame.kind # "none" THEN {-1} ELSE {}) :
                 link' = [link EXCEPT !.open = TRUE, !.cursor = cursor]

Refused == /\ ~link.open /\ ~HasPlace
           /\ server' = Refreshing(server)
           /\ page' = Closed(Reconnected(page))
           /\ UNCHANGED link

(* The connection is lost, with what is in flight.  The handler ends later. *)
Lost == /\ link.open /\ MayFault(server)
        /\ server' = Refreshing(Fault(server))
        /\ page' = Closed(page)
        /\ link' = [link EXCEPT !.open = FALSE, !.cursor = 0, !.wire = <<>>,
                                !.orphans = @ + 1]

(* The server starts anew: what it had in memory is gone, and every socket. *)
Restart == /\ MayFault(server)
           /\ server' = [Started(server.canon, server.moves, server.faults + 1)
                         EXCEPT !.http = IF server.http = "none" /\ ~link.open
                                         THEN "none" ELSE "failed"]
           /\ page' = IF link.open THEN Closed(page) ELSE page
           /\ link' = [link EXCEPT !.open = FALSE, !.cursor = 0, !.wire = <<>>,
                                   !.orphans = 0]

(* hydrate_blocks and rememberBlockDetails: the ancestors of a head, read   *)
(* by hash, arrive some time later, in a frame that changes nothing else.   *)
BlocksArrive == /\ link.open /\ page.head # NoHead
                /\ ~(Fetched(page.head.block) \subseteq page.known)
                /\ page' = [page EXCEPT !.known = @ \cup Fetched(page.head.block)]
                /\ UNCHANGED <<server, link>>

Received ==
  LET m == Head(link.wire)
  IN CASE m.kind = "heads" -> ApplyHeads(page, m.head)
       [] m.kind = "unavailable" ->
            Closed(ApplyHeads(page, m.head))
       [] OTHER -> [ApplySnapshot(page, m.details, m.head, m.began)
                    EXCEPT !.polling = FALSE]

Receives == /\ link.open /\ link.wire # <<>>
            /\ page' = Received
            /\ link' = [link EXCEPT !.wire = Tail(@)]
            /\ server' = IF Head(link.wire).kind = "unavailable" THEN Refreshing(server)
                         ELSE server

Polls == /\ page.polling /\ server.http = "none"
         /\ server' = Refreshing(server) /\ page' = Issued(page)
         /\ UNCHANGED link

(* A response stands only if nothing was shown since the request.           *)
(* startedSequence is the largest integer: any head counts as older.        *)
HttpApplied ==
  /\ server.http = "answered"
  /\ page' = IF page.current
             THEN [ApplySnapshot(page, server.answer, NoHead, page.head.seq)
                   EXCEPT !.current = FALSE]
             ELSE page
  /\ server' = [server EXCEPT !.http = "none", !.answer = NoDetails]
  /\ UNCHANGED link

HttpFails == /\ server.http = "failed"
             /\ page' = [page EXCEPT !.current = FALSE]
             /\ server' = [server EXCEPT !.http = "none"]
             /\ UNCHANGED link

-----------------------------------------------------------------------------
Next ==
  \/ ChainMoves \/ WatcherReads \/ WatcherObserves
  \/ LoopStarts \/ LoopCollects \/ HttpCollects \/ HttpCached
  \/ ChainRead \/ CollectionFails
  \/ Connects \/ Refused \/ Sends \/ Lost \/ HandlerEnds
  \/ Restart \/ Receives \/ BlocksArrive \/ Polls \/ HttpApplied \/ HttpFails

Spec == Init /\ [][Next]_vars

(* Threads and event loops run, timers fire, sockets deliver.  Nothing says *)
(* that the chain moves, anything fails or other viewers come or go.        *)
Fairness ==
  /\ WF_vars(WatcherReads \/ WatcherObserves)
  /\ WF_vars(LoopStarts) /\ SF_vars(LoopCollects) /\ SF_vars(HttpCollects)
  /\ WF_vars(ChainRead)
  /\ WF_vars(Connects \/ Refused) /\ WF_vars(HandlerEnds)
  /\ WF_vars(Sends) /\ WF_vars(Receives)
  /\ WF_vars(Polls \/ HttpApplied \/ HttpFails)

FairSpec == Spec /\ Fairness

-----------------------------------------------------------------------------
TypeOK ==
  /\ server \in Servers /\ page \in Pages /\ link \in Links
  /\ server.moves <= MaxMoves /\ server.faults <= MaxFaults

(* Safety and settlement data shown without a warning were collected on the *)
(* branch of the head shown above them, whatever was lost, late or polled:  *)
(* `verified` is the head of that collection (applySnapshot, mergeHeads).   *)
ShownConsistent ==
  page.view.warn = "none" /\ page.view.verified # NoBlock
    => page.view.verified \in Line[page.view.latest]

(* As long as a reorganisation is pending the page says so and shows no     *)
(* safety data, through gaps, failed and stale snapshots alike.             *)
ReorgHidesSafety ==
  page.pending.kind = "reorg" => page.view.warn = "reorg" /\ page.view.verified = NoBlock

(* A response to a request does not take a page that shows the chain's head *)
(* as it was pushed back to another block as if that were checked           *)
(* (refresh, "A delayed HTTP response must not replace a newer pushed       *)
(* snapshot"; applyHeads, "must not overwrite a live head").                *)
NotTakenBack ==
  [][server.http = "answered" /\ server'.http = "none"
     /\ page.view.latest = server.canon /\ page.head.block = server.canon
       => page'.view.latest = server.canon \/ page'.view.warn # "none"]_vars

(* The feed counts the handlers that are attached, and never too many.      *)
ViewersCounted ==
  /\ server.clients = link.orphans + (IF link.open THEN 1 ELSE 0)
  /\ server.clients <= MaxClients

(* Once the chain rests and nothing fails any more, the page ends up with   *)
(* the chain's head, verified and without a warning.                        *)
Converges ==
  <>[](page.view.latest = server.canon /\ page.view.verified = server.canon
       /\ page.view.warn = "none" /\ ~page.view.stale)

=============================================================================
