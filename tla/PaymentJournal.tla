----------------------------- MODULE PaymentJournal -----------------------------
(***************************************************************************)
(* What the treasury page keeps in the browser about a payment it hands to  *)
(* the wallet: the slot of the request being tracked and the history of all *)
(* requests, both shared by the tabs of a browser, and what each tab knows. *)
(* The request is recorded before the wallet is asked, since its answer may *)
(* be late or never come and the page may be gone by then.                  *)
(*                                                                          *)
(* Modelled for payments that start on L2 in deployments whose actions run  *)
(* under a browser lock (withActiveTreasury).  A script runs to its next    *)
(* await in one step, and storage is the same for all tabs at each step.    *)
(***************************************************************************)
EXTENDS Integers, Sequences, FiniteSets

CONSTANTS
  Tabs,
  Paying,      \* the tabs in which the user pays; the others look on
  Payments,    \* what the owners can approve, but for the Safe's nonce
  MaxSent,     \* bounds on transactions of this browser,
  MaxBlock,    \* on the L2 blocks during which requests are prepared,
  MaxFaults    \* and on failed reads, lost answers, closed tabs, rollbacks
               \* and uses of the Safe's nonce from elsewhere

ASSUME JournalAssumption ==
  /\ Paying \subseteq Tabs
  /\ {MaxSent, MaxBlock, MaxFaults} \subseteq Nat

VARIABLES
  storage,   \* localStorage
  views,     \* TreasuryConnected, in each tab
  handler,   \* the submission that waits for the wallet's answer
  chain,     \* the wallet's requests and what became of them
  faults
vars == <<storage, views, handler, chain, faults>>

(* attemptId: the Safe transaction (payment and nonce), and the block at    *)
(* which it was prepared.                                                   *)
Attempts == [payment : Payments, nonce : Nat, block : Nat]

(* A transaction hash is its place in chain.sent, 0 if it is not known.     *)
Intents  == [attempt : Attempts, hash : Nat]
NoIntent == [hash |-> -1]
Tracked  == Intents \cup {NoIntent}

Kinds      == {"none", "unknown", "pending", "settled", "rejected"}
Terminal   == {"settled", "rejected"}
Reviews    == [payment : Payments, nonce : Nat]
NoReview   == [nonce |-> -1]
Outcomes   == [kind : Kinds, hash : Nat]

(* A poll between its last read and what it makes of it.                    *)
Polls  == [on : BOOLEAN, current : Tracked, result : Outcomes]
NoPoll == [on |-> FALSE, current |-> NoIntent, result |-> [kind |-> "none", hash |-> 0]]

Views  == [open : BOOLEAN, intent : Tracked, outcome : Kinds,
           review : Reviews \cup {NoReview}, poll : Polls]
Closed == [open |-> FALSE, intent |-> NoIntent, outcome |-> "none",
           review |-> NoReview, poll |-> NoPoll]

(* asked: the wallet shows the request, whose page may have gone.           *)
Statuses == {"queued", "executed", "safe", "reverted", "discarded"}
Sent     == [attempt : Attempts, status : Statuses]

Handlers  == [tab : Tabs, intent : Intents, hash : Nat, mounted : BOOLEAN]
NoHandler == [hash |-> -1]

Init ==
  /\ storage = [slot |-> NoIntent, history |-> {}]
  /\ views = [t \in Tabs |-> Closed]
  /\ handler = NoHandler
  /\ chain = [sent |-> <<>>, elsewhere |-> 0, block |-> 0, orphans |-> {}]
  /\ faults = 0

-----------------------------------------------------------------------------
(* The chain.                                                               *)

Hashes == 1..Len(chain.sent)

(* The Safe's nonce at the latest block.                                    *)
Nonce == chain.elsewhere
         + Cardinality({h \in Hashes : chain.sent[h].status \in {"executed", "safe"}})

SameSafeHash(a, b) == a.payment = b.payment /\ a.nonce = b.nonce

(* Fault: a response that was lost is not recovered.                        *)
FoundFault(i) == IF i.hash # 0 THEN {i.hash} ELSE {}

(* The hash that is known, or that of an execution of the Safe transaction. *)
Found(i) ==
  IF i.hash # 0 THEN {i.hash}
  ELSE {h \in Hashes : /\ SameSafeHash(chain.sent[h].attempt, i.attempt)
                       /\ chain.sent[h].status \in {"executed", "safe"}}

KindOf(status) ==
  CASE status = "safe" -> "settled"
    [] status \in {"reverted", "discarded"} -> "rejected"
    [] OTHER -> "pending"

(* Fault: what the logs do not show was not executed.                       *)
OutcomeAbsentFault(i) ==
  IF i = NoIntent THEN [kind |-> "none", hash |-> 0]
  ELSE IF Found(i) = {} THEN [kind |-> "rejected", hash |-> 0]
  ELSE LET h == CHOOSE h \in Found(i) : TRUE
       IN [kind |-> KindOf(chain.sent[h].status), hash |-> h]

Outcome(i) ==
  IF i = NoIntent THEN [kind |-> "none", hash |-> 0]
  ELSE IF Found(i) = {} THEN [kind |-> "unknown", hash |-> 0]
  ELSE LET h == CHOOSE h \in Found(i) : TRUE
       IN [kind |-> KindOf(chain.sent[h].status), hash |-> h]

Becomes(h, status) ==
  /\ chain' = [chain EXCEPT !.sent[h].status = status]
  /\ UNCHANGED <<storage, views, handler>>

Executes == \E h \in Hashes :
  /\ chain.sent[h].status = "queued" /\ chain.sent[h].attempt.nonce = Nonce
  /\ Becomes(h, "executed") /\ UNCHANGED faults

(* The owners use the Safe's nonce by other means, and a request that needs *)
(* it fails.                                                                *)
Elsewhere == /\ faults < MaxFaults /\ faults' = faults + 1
             /\ chain' = [chain EXCEPT !.elsewhere = @ + 1]
             /\ UNCHANGED <<storage, views, handler>>

Reverts == \E h \in Hashes :
  /\ chain.sent[h].status = "queued" /\ chain.sent[h].attempt.nonce < Nonce
  /\ Becomes(h, "reverted") /\ UNCHANGED faults

Settles == \E h \in Hashes :
  chain.sent[h].status = "executed" /\ Becomes(h, "safe") /\ UNCHANGED faults

(* Composer ends a request for good.                                        *)
Discards == \E h \in Hashes :
  chain.sent[h].status = "queued" /\ Becomes(h, "discarded") /\ UNCHANGED faults

(* What is not settled on L1 can be rolled back.                            *)
RollsBack == \E h \in Hashes :
  /\ faults < MaxFaults /\ faults' = faults + 1
  /\ chain.sent[h].status = "executed" /\ Becomes(h, "queued")

NextBlock == /\ chain.block < MaxBlock
             /\ chain' = [chain EXCEPT !.block = @ + 1]
             /\ UNCHANGED <<storage, views, handler, faults>>

-----------------------------------------------------------------------------
(* The history.                                                             *)

EntriesOf(history, a) == {e \in history : e.attempt = a}

(* remember: "Conflicting transaction hashes" otherwise.                    *)
MayRemember(history, i) ==
  \A e \in EntriesOf(history, i.attempt) : 0 \in {e.hash, i.hash} \/ e.hash = i.hash

(* Fault: the entry is replaced by what the caller knows.                   *)
RememberedFault(history, i) == (history \ EntriesOf(history, i.attempt)) \cup {i}

Remembered(history, i) ==
  LET old   == EntriesOf(history, i.attempt)
      known == {e \in old : e.hash # 0}
  IN (history \ old) \cup (IF known # {} THEN known ELSE {i})

(* cancel: "Cannot remove a submitted payment" otherwise.                   *)
MayCancel(history, i) == \A e \in EntriesOf(history, i.attempt) : e.hash = 0

-----------------------------------------------------------------------------
(* Tabs.                                                                    *)

(* The submission the slot names is restored, and imported by the history.  *)
Mounts(t) ==
  /\ views' = [views EXCEPT ![t] = [Closed EXCEPT !.open = TRUE, !.intent = storage.slot]]
  /\ storage' =
       IF storage.slot # NoIntent /\ MayRemember(storage.history, storage.slot)
       THEN [storage EXCEPT !.history = Remembered(@, storage.slot)] ELSE storage

Opens(t) == ~views[t].open /\ Mounts(t) /\ UNCHANGED <<handler, chain, faults>>

(* The page changes to another mode and back; its submission goes on.       *)
Remounts(t) ==
  /\ views[t].open /\ handler # NoHandler /\ handler.tab = t /\ handler.mounted
  /\ Mounts(t)
  /\ handler' = [handler EXCEPT !.mounted = FALSE]
  /\ UNCHANGED <<chain, faults>>

(* A tab is closed or reloaded.  What its wallet was asked is still there.  *)
Closes(t) ==
  /\ views[t].open /\ faults < MaxFaults /\ faults' = faults + 1
  /\ views' = [views EXCEPT ![t] = Closed]
  /\ IF handler # NoHandler /\ handler.tab = t
     THEN /\ handler' = NoHandler
          /\ chain' = IF handler.hash = 0
                      THEN [chain EXCEPT !.orphans = @ \cup {handler.intent.attempt}]
                      ELSE chain
     ELSE UNCHANGED <<handler, chain>>
  /\ UNCHANGED storage

(* reviewing: a request that ended leaves the slot.  Reads may fail after.  *)
Reviewing(t) ==
  /\ t \in Paying /\ views[t].open /\ handler = NoHandler
  /\ views[t].intent = NoIntent \/ views[t].outcome \in Terminal
  /\ \E review \in {NoReview} \cup [payment : Payments, nonce : {Nonce}] :
       views' = [views EXCEPT ![t].review = review, ![t].intent = NoIntent,
                              ![t].outcome = IF views[t].intent = NoIntent THEN @ ELSE "none"]
  /\ storage' = IF views[t].intent = NoIntent THEN storage
                ELSE [storage EXCEPT !.slot = NoIntent]
  /\ UNCHANGED <<handler, chain, faults>>

(* The owners' fresh approvals take longer than the block of the last ones. *)
Fresh(a) == a \notin chain.orphans /\ \A h \in Hashes : chain.sent[h].attempt # a

(* Fault: the history is left to the answer.                                *)
SubmittingUnrecordedFault(t) ==
  LET v == views[t]
      i == [attempt |-> [payment |-> v.review.payment, nonce |-> Nonce, block |-> chain.block],
            hash |-> 0]
  IN /\ v.open /\ handler = NoHandler /\ v.intent = NoIntent
     /\ v.review # NoReview /\ v.review.nonce = Nonce
     /\ Fresh(i.attempt) /\ Len(chain.sent) + Cardinality(chain.orphans) < MaxSent
     /\ storage' = [storage EXCEPT !.slot = i]
     /\ views' = [views EXCEPT ![t].intent = i, ![t].outcome = "unknown"]
     /\ handler' = [tab |-> t, intent |-> i, hash |-> 0, mounted |-> TRUE]
     /\ UNCHANGED <<chain, faults>>

(* submitting, up to the wallet.                                            *)
Submitting(t) ==
  LET v == views[t]
      i == [attempt |-> [payment |-> v.review.payment, nonce |-> Nonce, block |-> chain.block],
            hash |-> 0]
  IN /\ v.open /\ handler = NoHandler /\ v.intent = NoIntent
     /\ v.review # NoReview /\ v.review.nonce = Nonce
     /\ Fresh(i.attempt) /\ Len(chain.sent) + Cardinality(chain.orphans) < MaxSent
     /\ storage' = [slot |-> i, history |-> Remembered(storage.history, i)]
     /\ views' = [views EXCEPT ![t].intent = i, ![t].outcome = "unknown"]
     /\ handler' = [tab |-> t, intent |-> i, hash |-> 0, mounted |-> TRUE]
     /\ UNCHANGED <<chain, faults>>

-----------------------------------------------------------------------------
(* The wallet, and the handler of its answer.                               *)

Queued(a) == [attempt |-> a, status |-> "queued"]

Sends ==
  \/ /\ handler # NoHandler /\ handler.hash = 0
     /\ chain' = [chain EXCEPT !.sent = Append(@, Queued(handler.intent.attempt))]
     /\ handler' = [handler EXCEPT !.hash = Len(chain.sent) + 1]
     /\ UNCHANGED <<storage, views, faults>>
  \/ \E a \in chain.orphans :
       /\ chain' = [chain EXCEPT !.sent = Append(@, Queued(a)), !.orphans = @ \ {a}]
       /\ UNCHANGED <<storage, views, handler, faults>>

(* What the handler makes of its view, if that is still there.              *)
InView(i, outcome) ==
  views' = IF handler.mounted
           THEN [views EXCEPT ![handler.tab].intent = i, ![handler.tab].outcome = outcome]
           ELSE views

(* The hash is saved, unless the history knows another one.                 *)
Answered ==
  LET i == [attempt |-> handler.intent.attempt, hash |-> handler.hash]
  IN /\ handler # NoHandler /\ handler.hash # 0
     /\ handler' = NoHandler
     /\ IF MayRemember(storage.history, i)
        THEN /\ storage' = [slot |-> i, history |-> Remembered(storage.history, i)]
             /\ InView(i, "pending")
        ELSE UNCHANGED <<storage, views>>
     /\ UNCHANGED <<chain, faults>>

(* Code 4001: the user declined.                                            *)
Declined ==
  /\ handler # NoHandler /\ handler.hash = 0
  /\ handler' = NoHandler
  /\ IF MayCancel(storage.history, handler.intent)
     THEN /\ storage' = [slot |-> NoIntent,
                         history |-> storage.history
                                       \ EntriesOf(storage.history, handler.intent.attempt)]
          /\ InView(NoIntent, "none")
     ELSE UNCHANGED <<storage, views>>
  /\ UNCHANGED <<chain, faults>>

(* Any other answer says nothing of whether the request was or will be sent.*)
Uncertain ==
  /\ handler # NoHandler /\ faults < MaxFaults /\ faults' = faults + 1
  /\ handler' = NoHandler
  /\ chain' = IF handler.hash = 0
              THEN [chain EXCEPT !.orphans = @ \cup {handler.intent.attempt}] ELSE chain
  /\ UNCHANGED <<storage, views>>

-----------------------------------------------------------------------------
(* Polls.                                                                   *)

(* The reads of a poll.  A review of another nonce is dropped.              *)
PollReads(t) ==
  /\ views[t].open /\ ~views[t].poll.on
  /\ views' = [views EXCEPT
       ![t].poll = [on |-> TRUE, current |-> views[t].intent,
                    result |-> Outcome(views[t].intent)],
       ![t].review = IF views[t].intent = NoIntent /\ @.nonce # Nonce THEN NoReview ELSE @]
  /\ UNCHANGED <<storage, handler, chain, faults>>

(* Fault: whatever the tab tracks is saved.                                 *)
CaughtAnyFault(t) ==
  LET i == views[t].intent
  IN /\ views' = [views EXCEPT ![t].poll = NoPoll, ![t].outcome = "unknown"]
     /\ storage' = IF storage.slot = NoIntent /\ MayRemember(storage.history, i)
                   THEN [slot |-> i, history |-> Remembered(storage.history, i)]
                   ELSE storage

(* The catch of poll: the slot is given back its request if it is free.     *)
Caught(t) ==
  LET i == views[t].intent
      free == storage.slot = NoIntent \/ storage.slot.attempt = i.attempt
  IN /\ views' = [views EXCEPT ![t].poll = NoPoll,
                               ![t].outcome = IF i = NoIntent THEN @ ELSE "unknown"]
     /\ storage' = IF i # NoIntent /\ free /\ MayRemember(storage.history, i)
                   THEN [slot |-> i, history |-> Remembered(storage.history, i)]
                   ELSE storage

PollFails(t) ==
  /\ views[t].open /\ faults < MaxFaults /\ faults' = faults + 1
  /\ Caught(t) /\ UNCHANGED <<handler, chain>>

(* Fault: the slot is taken to be that of the tab.                          *)
AnyonesFault(i) == TRUE

(* The slot may have been taken by a request of another tab meanwhile.      *)
NotAnothers(i) == storage.slot = NoIntent \/ storage.slot.attempt = i.attempt

(* What a poll found is kept if its request is still the one it was.        *)
PollApplies(t) ==
  LET v       == views[t]
      result  == v.poll.result
      tracked == IF result.hash # 0 THEN [v.intent EXCEPT !.hash = result.hash] ELSE v.intent
  IN /\ v.open /\ v.poll.on
     /\ IF v.poll.current # v.intent
        THEN views' = [views EXCEPT ![t].poll = NoPoll] /\ UNCHANGED storage
        ELSE IF v.intent = NoIntent
        THEN /\ views' = [views EXCEPT ![t].poll = NoPoll, ![t].outcome = "none"]
             /\ UNCHANGED storage
        ELSE IF NotAnothers(tracked) /\ MayRemember(storage.history, tracked)
        THEN /\ storage' = [slot |-> IF result.kind \in Terminal THEN NoIntent ELSE tracked,
                            history |-> Remembered(storage.history, tracked)]
             /\ views' = [views EXCEPT ![t].poll = NoPoll, ![t].intent = tracked,
                                       ![t].outcome = result.kind,
                                       ![t].review = IF result.kind \in Terminal
                                                     THEN NoReview ELSE @]
        ELSE Caught(t)
     /\ UNCHANGED <<handler, chain, faults>>

(* useTreasuryHistory: the hash of an entry is found on the chain.          *)
HistoryFinds(t) ==
  \E e \in storage.history :
    LET i == [e EXCEPT !.hash = Outcome(e).hash]
    IN /\ views[t].open /\ i # e
       /\ MayRemember(storage.history, i)
       /\ storage' = [storage EXCEPT !.history = Remembered(@, i)]
       /\ UNCHANGED <<views, handler, chain, faults>>

-----------------------------------------------------------------------------
Next ==
  \/ Executes \/ Elsewhere \/ Reverts \/ Settles \/ Discards \/ RollsBack \/ NextBlock
  \/ \E t \in Tabs :
       \/ Opens(t) \/ Remounts(t) \/ Closes(t) \/ Reviewing(t) \/ Submitting(t)
       \/ PollReads(t) \/ PollFails(t) \/ PollApplies(t) \/ HistoryFinds(t)
  \/ Sends \/ Answered \/ Declined \/ Uncertain

Spec == Init /\ [][Next]_vars

(* Timers run, and the services answer in the end.                          *)
FairSpec == Spec /\ \A t \in Tabs : WF_vars(PollReads(t) \/ PollApplies(t))

-----------------------------------------------------------------------------
TypeOK ==
  /\ storage \in [slot : Tracked, history : SUBSET Intents]
  /\ views \in [Tabs -> Views]
  /\ handler \in Handlers \cup {NoHandler}
  /\ chain \in [sent : Seq(Sent), elsewhere : Nat, block : Nat, orphans : SUBSET Attempts]
  /\ faults \in 0..MaxFaults

(* Requests the wallet may still send, or that may still be executed.       *)
Asked    == chain.orphans \cup (IF handler # NoHandler /\ handler.hash = 0
                                THEN {handler.intent.attempt} ELSE {})
Underway == {h \in Hashes : chain.sent[h].status \in {"queued", "executed"}}

(* Whatever is under way is what the slot names: a page that is loaded now  *)
(* is locked until it has found out what became of it (readIntent, "A       *)
(* missing response is unresolved, not permission to submit another         *)
(* transaction after reload").  With one paying tab only: of two, one may   *)
(* overwrite or clear the slot of the other (TreasuryConnected.tsx, lines   *)
(* 106, 214 and 299).                                                       *)
SlotNamesIt ==
  \A a \in Asked \cup {chain.sent[h].attempt : h \in Underway} :
    storage.slot # NoIntent /\ storage.slot.attempt = a

(* One tab pays: never are two of its requests under way at a time.         *)
OneUnderway == Cardinality(Asked) + Cardinality(Underway) <= 1

(* The history has every request that was sent, and no hash but of a        *)
(* transaction that makes the payment (remember, cancel).                   *)
HistoryHas ==
  /\ \A h \in Hashes : EntriesOf(storage.history, chain.sent[h].attempt) # {}
  /\ \A e \in storage.history :
       e.hash # 0 => e.hash \in Hashes /\ SameSafeHash(chain.sent[e.hash].attempt, e.attempt)

(* A hash that is known stays known, and stays the same.                    *)
HashesKept ==
  [][\A e \in storage.history : e.hash # 0 => e \in storage'.history]_vars

(* A request that settled does not stay in the slot under the eyes of a tab *)
(* that tracks it, even if its hash never came.                             *)
Recovered ==
  <>[](\A t \in Tabs, h \in Hashes :
         views[t].open /\ views[t].intent # NoIntent /\ chain.sent[h].status = "safe"
           => storage.slot # views[t].intent \/ views[t].intent.attempt # chain.sent[h].attempt)
=============================================================================
