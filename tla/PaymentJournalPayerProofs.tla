----------------------- MODULE PaymentJournalPayerProofs -----------------------
(***************************************************************************)
(* Proofs about PaymentJournal when the user pays in one tab, the others    *)
(* looking on: a request under way is what the slot names and what the      *)
(* payer's tab is locked on, and there is one at most.                      *)
(*                                                                          *)
(* What could break the lock is a poll that takes the outcome of another    *)
(* attempt for that of the request, since an outcome is looked up by Safe   *)
(* hash.  Fits says why it cannot: attempts of the same Safe transaction    *)
(* come one after the other, and the earlier ones have ended in failure.    *)
(***************************************************************************)
EXTENDS PaymentJournalProofs

OnePayer == \A t, u \in Paying : t = u

(* The attempts under way.                                                  *)
Live == Asked \cup {chain.sent[h].attempt : h \in Underway}

-----------------------------------------------------------------------------
(* The invariant.                                                           *)

ViewKnows(v, i) ==
  \/ i = v.intent
  \/ /\ v.poll.current # NoIntent
     /\ i = [attempt |-> v.poll.current.attempt, hash |-> v.poll.result.hash]

HandlerKnows(hd, i) ==
  /\ hd # NoHandler
  /\ i \in {hd.intent, [attempt |-> hd.intent.attempt, hash |-> hd.hash]}

(* The requests that storage, a tab or a handler has, with their hashes.    *)
Knows(i) ==
  /\ i # NoIntent
  /\ \/ i = storage.slot \/ i \in storage.history
     \/ \E t \in Tabs : ViewKnows(views[t], i)
     \/ HandlerKnows(handler, i)

Ended == {"reverted", "discarded"}

(* The request under way is the latest; earlier attempts of a transaction   *)
(* have failed; a hash that was found is of the attempt or of a later one.  *)
Fits(i) ==
  /\ i.attempt.block <= chain.block
  /\ \A a \in Live : i.attempt.block <= a.block
  /\ \A h \in Hashes :
       LET b == chain.sent[h].attempt
       IN /\ SameSafeHash(b, i.attempt) /\ b.block < i.attempt.block
               => chain.sent[h].status \in Ended
          /\ h = i.hash => b = i.attempt \/ b.block > i.attempt.block

AllFit == \A i : Knows(i) => Fits(i)

Nonces ==
  /\ \A h \in Hashes :
       chain.sent[h].status \in {"executed", "safe"} => chain.sent[h].attempt.nonce < Nonce
  /\ \A a \in Live : \A h \in Hashes :
       chain.sent[h].status = "safe" => chain.sent[h].attempt.nonce < a.nonce

Distinct == \A g, h \in Hashes : chain.sent[g].attempt = chain.sent[h].attempt => g = h

(* What the lock of the payer's page consists of.                           *)
LockedOn(a, v) ==
  v.open => v.intent # NoIntent /\ v.intent.attempt = a /\ v.outcome \notin Terminal

Locked ==
  \A a \in Live :
    /\ storage.slot # NoIntent /\ storage.slot.attempt = a
    /\ \A t \in Paying : LockedOn(a, views[t])
    /\ handler # NoHandler => handler.intent.attempt = a

(* A poll that is not yet applied does not unlock the request under way.    *)
PollStands(q) ==
  q.result.kind \in Terminal =>
    /\ q.result.hash # 0
    /\ q.current # NoIntent => q.current.attempt \notin Live

PollsStand == \A t \in Tabs : PollStands(views[t].poll)

(* Who does not pay has nothing to submit.                                  *)
Lookers == \A t \in Tabs \ Paying : views[t].review = NoReview

PayInv == AllFit /\ Nonces /\ Distinct /\ Locked /\ PollsStand /\ Lookers

-----------------------------------------------------------------------------
(* Consequences of the invariants.                                          *)

LEMMA KnowsType == ASSUME IInv, NEW i, Knows(i) PROVE i \in Intents /\ Right(chain.sent, i)
<1>1. CASE i = storage.slot \/ i \in storage.history
  BY <1>1, Known, NoIntentFacts DEF Knows
<1>2. ASSUME NEW t \in Tabs, ViewKnows(views[t], i) PROVE i \in Intents /\ Right(chain.sent, i)
  <2>1. i \in Tracked /\ Right(chain.sent, i)
    <3> DEFINE q == views[t].poll
    <3>1. CASE i = views[t].intent
      BY <3>1, Known
    <3>2. CASE q.current # NoIntent /\ i = [attempt |-> q.current.attempt, hash |-> q.result.hash]
      <4>1. q.current \in Intents /\ q.result.hash \in Nat
        BY <3>2, Known, NoIntentFacts DEF Polls, Outcomes
      <4>2. i \in Intents
        BY <3>2, <4>1, NoIntentFacts
      <4>3. CASE q.result.hash = 0
        <5>1. ~(i.hash > 0)
          BY <3>2, <4>3
        <5> QED
          BY <4>2, <5>1 DEF Right, Tracked
      <4>4. CASE q.result.hash # 0
        BY <3>2, <4>2, <4>4, Known DEF ViewSound, Tracked
      <4> QED
        BY <4>3, <4>4
    <3> QED
      BY <1>2, <3>1, <3>2 DEF ViewKnows
  <2> QED
    BY <2>1, NoIntentFacts DEF Knows
<1>3. CASE HandlerKnows(handler, i)
  <2>1. handler \in Handlers /\ HandlerSound(chain.sent, handler)
    BY <1>3, Known DEF HandlerKnows, IInv, Sound
  <2>2. handler.intent \in Intents /\ handler.intent.hash = 0 /\ handler.hash \in Nat
    BY <1>3, <2>1 DEF HandlerKnows, HandlerSound, Handlers
  <2> QED
    BY <1>3, <2>1, <2>2, NoIntentFacts DEF HandlerKnows, HandlerSound, Right, SameSafeHash
<1> QED
  BY <1>1, <1>2, <1>3 DEF Knows

(* What is known fits.                                                      *)
ViewFits(v) == \A i : i # NoIntent /\ ViewKnows(v, i) => Fits(i)

LEMMA KnownFits ==
  ASSUME AllFit
  PROVE  /\ storage.slot # NoIntent => Fits(storage.slot)
         /\ NoIntent \notin storage.history => \A e \in storage.history : Fits(e)
         /\ \A t \in Tabs : ViewFits(views[t])
         /\ \A i : i # NoIntent /\ HandlerKnows(handler, i) => Fits(i)
BY DEF AllFit, Knows, ViewFits

LEMMA ChainFacts ==
  ASSUME IInv
  PROVE  /\ chain.sent \in Seq(Sent) /\ Len(chain.sent) \in Nat
         /\ chain.block \in Nat /\ chain.elsewhere \in Nat
         /\ Live \subseteq Attempts
         /\ \A h \in Hashes : chain.sent[h] \in Sent /\ chain.sent[h].attempt \in Attempts
         /\ \A a \in Attempts : a.block \in Nat /\ a.nonce \in Nat
<1>1. /\ chain.sent \in Seq(Sent) /\ Len(chain.sent) \in Nat
      /\ chain.block \in Nat /\ chain.elsewhere \in Nat /\ chain.orphans \subseteq Attempts
  BY DEF IInv, TypeOK
<1>2. \A h \in Hashes : chain.sent[h] \in Sent
  BY <1>1 DEF Hashes
<1>3. \A h \in Hashes : chain.sent[h].attempt \in Attempts
  BY <1>2 DEF Sent
<1>4. handler # NoHandler => handler.intent.attempt \in Attempts
  BY Known DEF Handlers, Intents
<1>5. Live \subseteq Attempts
  BY <1>1, <1>3, <1>4 DEF Live, Asked, Underway
<1> QED
  BY <1>1, <1>2, <1>3, <1>5 DEF Attempts

(* Whatever was sent was sent before now, and not after what is under way.  *)
LEMMA SentBefore ==
  ASSUME IInv, AllFit, NEW h \in Hashes
  PROVE  /\ chain.sent[h].attempt.block <= chain.block
         /\ \A a \in Live : chain.sent[h].attempt.block <= a.block
<1>1. PICK e \in storage.history : e.attempt = chain.sent[h].attempt
  BY DEF IInv, Recorded, EntriesOf
<1>2. e # NoIntent
  BY Known, NoIntentFacts
<1> QED
  BY <1>1, <1>2 DEF AllFit, Knows, Fits

(* An attempt under way was not sent before, or is sent once.               *)
LEMMA UnderwayOnce ==
  ASSUME IInv, Distinct, NEW h \in Hashes, chain.sent[h].attempt \in Live
  PROVE  h \in Underway
<1>1. chain.sent[h].attempt \notin Asked
  BY DEF IInv, Once, Asked
<1>2. PICK g \in Underway : chain.sent[g].attempt = chain.sent[h].attempt
  BY <1>1 DEF Live
<1> QED
  BY <1>2 DEF Distinct, Underway

(* A request that fits may also take the hash that a lookup finds, and if   *)
(* that says it ended then it is not under way.                             *)
LEMMA LookupFits ==
  ASSUME IInv, AllFit, Distinct, NEW i \in Intents, Right(chain.sent, i), Fits(i)
  PROVE  /\ Fits([attempt |-> i.attempt, hash |-> Outcome(i).hash])
         /\ Outcome(i).kind \in Terminal => Outcome(i).hash # 0 /\ i.attempt \notin Live
<1>1. i # NoIntent /\ i.hash \in Nat /\ i.attempt \in Attempts
  BY NoIntentFacts
<1>2. CASE Found(i) = {}
  <2>1. Outcome(i) = [kind |-> "unknown", hash |-> 0]
    BY <1>1, <1>2 DEF Outcome
  <2>2. 0 \notin Hashes
    BY DEF Hashes
  <2> QED
    BY <2>1, <2>2 DEF Fits, Terminal
<1>3. CASE Found(i) # {}
  <2> DEFINE h == CHOOSE h \in Found(i) : TRUE
             b == chain.sent[h].attempt
  <2>1. h \in Found(i) /\ Outcome(i) = [kind |-> KindOf(chain.sent[h].status), hash |-> h]
    BY <1>1, <1>3 DEF Outcome
  <2> HIDE DEF h
  <2>2. h \in Hashes /\ h # 0 /\ b \in Attempts
    <3>1. h \in Hashes
      BY <1>1, <2>1 DEF Found, Right, Hashes
    <3> QED
      BY <3>1, ChainFacts DEF Hashes
  <2>3. b = i.attempt \/ b.block > i.attempt.block
    <3>1. CASE i.hash # 0
      BY <2>1, <2>2, <3>1 DEF Found, Fits
    <3>2. CASE i.hash = 0
      <4>1. SameSafeHash(b, i.attempt) /\ chain.sent[h].status \notin Ended
        BY <2>1, <3>2 DEF Found, Ended
      <4>2. ~(b.block < i.attempt.block)
        BY <2>2, <4>1 DEF Fits
      <4>3. b.block = i.attempt.block => b = i.attempt
        BY <1>1, <2>2, <4>1 DEF SameSafeHash, Attempts
      <4> QED
        BY <1>1, <2>2, <4>2, <4>3, ChainFacts
    <3> QED
      BY <3>1, <3>2
  <2>4. Fits([attempt |-> i.attempt, hash |-> h])
    BY <2>3 DEF Fits
  <2>5. ASSUME KindOf(chain.sent[h].status) \in Terminal, i.attempt \in Live PROVE FALSE
    <3>1. h \notin Underway
      BY <2>5 DEF KindOf, Terminal, Underway
    <3>2. b = i.attempt => FALSE
      BY <2>2, <2>5, <3>1, UnderwayOnce
    <3>3. b.block <= i.attempt.block
      BY <2>2, <2>5, SentBefore
    <3> QED
      BY <1>1, <2>2, <2>3, <3>2, <3>3, ChainFacts
  <2> QED
    BY <2>1, <2>2, <2>4, <2>5
<1> QED
  BY <1>2, <1>3

-----------------------------------------------------------------------------
(* Steps of the chain.                                                      *)

Executing == {h \in Hashes : chain.sent[h].status \in {"executed", "safe"}}

LEMMA NonceIs ==
  ASSUME IInv
  PROVE  /\ Nonce = chain.elsewhere + Cardinality(Executing)
         /\ IsFiniteSet(Executing) /\ Cardinality(Executing) \in Nat /\ Nonce \in Nat
<1>1. IsFiniteSet(Hashes)
  <2>1. 1 \in Int /\ Len(chain.sent) \in Int
    BY ChainFacts
  <2> QED
    BY <2>1, FS_Interval DEF Hashes
<1>2. IsFiniteSet(Executing)
  BY <1>1, FS_Subset DEF Executing
<1> QED
  BY <1>2, FS_CardinalityType, NonceType DEF Nonce, Executing, IInv

(* A step of the chain by which nothing comes under way, and what ended     *)
(* stays ended, disturbs the nonces only.                                   *)
LEMMA ChainLeaves ==
  ASSUME IInv, PayInv, UNCHANGED <<storage, views, handler>>,
         chain'.orphans = chain.orphans, chain'.block >= chain.block, chain'.block \in Nat,
         Hashes' = Hashes, \A h \in Hashes : chain'.sent[h].attempt = chain.sent[h].attempt,
         \A h \in Hashes : chain.sent[h].status \in Ended => chain'.sent[h].status \in Ended,
         Underway' \subseteq Underway
  PROVE  /\ Live' \subseteq Live
         /\ AllFit' /\ Distinct' /\ Locked' /\ PollsStand' /\ Lookers'
<1>1. Asked' = Asked
  BY DEF Asked
<1>2. Live' \subseteq Live
  BY <1>1 DEF Live, Underway
<1>3. AllFit'
  <2> SUFFICES ASSUME NEW i, Knows(i)' PROVE Fits(i)'
    BY DEF AllFit
  <2>1. Knows(i)
    BY DEF Knows
  <2>2. Fits(i) /\ i \in Intents
    BY <2>1, KnowsType DEF PayInv, AllFit
  <2>3. i.attempt.block \in Nat
    BY <2>2, NoIntentFacts, ChainFacts
  <2>4. i.attempt.block <= chain'.block
    BY <2>2, <2>3, ChainFacts DEF Fits
  <2> QED
    BY <1>2, <2>2, <2>4 DEF Fits
<1>4. Distinct' /\ Lookers'
  BY DEF PayInv, Distinct, Lookers
<1>5. Locked' /\ PollsStand'
  BY <1>2 DEF PayInv, Locked, PollsStand, PollStands
<1> QED
  BY <1>2, <1>3, <1>4, <1>5

LEMMA BecomesFacts ==
  ASSUME IInv, NEW h \in Hashes, NEW status, Becomes(h, status)
  PROVE  /\ UNCHANGED <<storage, views, handler>> /\ chain'.orphans = chain.orphans
         /\ chain'.block = chain.block /\ chain'.elsewhere = chain.elsewhere
         /\ Hashes' = Hashes
         /\ \A k \in Hashes : chain'.sent[k].attempt = chain.sent[k].attempt
         /\ chain'.sent[h].status = status
         /\ \A k \in Hashes \ {h} : chain'.sent[k].status = chain.sent[k].status
<1>1. chain' = [chain EXCEPT !.sent = [chain.sent EXCEPT ![h] = [@ EXCEPT !.status = status]]]
  BY DEF Becomes
<1>2. chain'.sent = [chain.sent EXCEPT ![h] = [@ EXCEPT !.status = status]]
  BY <1>1 DEF IInv, TypeOK
<1>3. chain.sent \in Seq(Sent) /\ h \in 1..Len(chain.sent) /\ DOMAIN chain.sent = 1..Len(chain.sent)
  BY ChainFacts DEF Hashes
<1>4. Len(chain'.sent) = Len(chain.sent)
  BY <1>2, <1>3
<1>5. \A k \in 1..Len(chain.sent) :
        chain'.sent[k] = IF k = h THEN [chain.sent[h] EXCEPT !.status = status] ELSE chain.sent[k]
  BY <1>2, <1>3
<1>6. chain.sent[h] \in Sent
  BY <1>3
<1>7. /\ \A k \in Hashes : chain'.sent[k].attempt = chain.sent[k].attempt
      /\ chain'.sent[h].status = status
      /\ \A k \in Hashes \ {h} : chain'.sent[k].status = chain.sent[k].status
  BY <1>3, <1>5, <1>6 DEF Sent, Hashes
<1>8. /\ chain'.orphans = chain.orphans /\ chain'.block = chain.block
      /\ chain'.elsewhere = chain.elsewhere
  BY <1>1 DEF IInv, TypeOK
<1> QED
  BY <1>4, <1>7, <1>8 DEF Becomes, Hashes

(* Of two transactions under way one is the other.                          *)
LEMMA OneTransaction ==
  ASSUME PayInv, NEW g \in Underway, NEW h \in Underway
  PROVE  g = h
<1>1. chain.sent[g].attempt = chain.sent[h].attempt
  BY DEF PayInv, Locked, Live
<1> QED
  BY <1>1 DEF PayInv, Distinct, Underway

LEMMA PayExecutes == ASSUME IInv, PayInv, Executes PROVE PayInv'
<1>1. PICK h \in Hashes : /\ chain.sent[h].status = "queued" /\ chain.sent[h].attempt.nonce = Nonce
                          /\ Becomes(h, "executed")
  BY DEF Executes
<1>2. /\ UNCHANGED <<storage, views, handler>> /\ chain'.orphans = chain.orphans
      /\ chain'.block = chain.block /\ chain'.elsewhere = chain.elsewhere
      /\ Hashes' = Hashes
      /\ \A k \in Hashes : chain'.sent[k].attempt = chain.sent[k].attempt
      /\ chain'.sent[h].status = "executed"
      /\ \A k \in Hashes \ {h} : chain'.sent[k].status = chain.sent[k].status
  BY <1>1, BecomesFacts
<1>3. /\ Live' \subseteq Live
      /\ AllFit' /\ Distinct' /\ Locked' /\ PollsStand' /\ Lookers'
  <2>1. Underway' \subseteq Underway
    BY <1>1, <1>2 DEF Underway
  <2>2. \A k \in Hashes : chain.sent[k].status \in Ended => chain'.sent[k].status \in Ended
    BY <1>1, <1>2 DEF Ended
  <2>3. chain'.block >= chain.block /\ chain'.block \in Nat
    BY <1>2, ChainFacts
  <2> QED
    BY <1>2, <2>1, <2>2, <2>3, ChainLeaves
<1>4. Nonce' = Nonce + 1
  <2>1. Executing' = Executing \cup {h} /\ h \notin Executing
    BY <1>1, <1>2 DEF Executing
  <2>2. Cardinality(Executing') = Cardinality(Executing) + 1
    BY <2>1, NonceIs, FS_AddElement
  <2>3. Nonce' = chain'.elsewhere + Cardinality(Executing')
    BY DEF Nonce, Executing
  <2> QED
    BY <1>2, <2>2, <2>3, NonceIs, ChainFacts
<1>5. Nonces'
  <2>1. ASSUME NEW k \in Hashes', chain'.sent[k].status \in {"executed", "safe"}
        PROVE  chain'.sent[k].attempt.nonce < Nonce'
    <3>1. chain.sent[k].attempt.nonce <= Nonce /\ chain.sent[k].attempt.nonce \in Nat
      <4>1. k \in Hashes /\ chain.sent[k].attempt.nonce \in Nat
        BY <1>2, <2>1, ChainFacts
      <4>2. CASE k = h
        BY <1>1, <4>2, NonceIs
      <4>3. CASE k # h
        BY <1>2, <2>1, <4>1, <4>3, NonceIs DEF PayInv, Nonces
      <4> QED
        BY <4>1, <4>2, <4>3
    <3> QED
      BY <1>2, <1>4, <2>1, <3>1, NonceIs
  <2>2. \A k \in Hashes' : chain'.sent[k].status = "safe" => chain.sent[k].status = "safe"
    BY <1>2
  <2> QED
    BY <1>2, <1>3, <2>1, <2>2 DEF Nonces, PayInv
<1> QED
  BY <1>3, <1>5 DEF PayInv

(* What becomes executed by other means only raises the Safe's nonce.       *)
LEMMA PayElsewhere == ASSUME IInv, PayInv, Elsewhere \/ NextBlock PROVE PayInv'
<1>1. /\ UNCHANGED <<storage, views, handler>>
      /\ chain'.sent = chain.sent /\ chain'.orphans = chain.orphans
      /\ chain'.block \in {chain.block, chain.block + 1}
      /\ chain'.elsewhere \in {chain.elsewhere, chain.elsewhere + 1}
  BY DEF Elsewhere, NextBlock, IInv, TypeOK
<1>2. Hashes' = Hashes /\ Underway' = Underway /\ Executing' = Executing
  BY <1>1 DEF Hashes, Underway, Executing
<1>3. chain'.block >= chain.block /\ chain'.block \in Nat
  BY <1>1, ChainFacts
<1>4. /\ Live' \subseteq Live
      /\ AllFit' /\ Distinct' /\ Locked' /\ PollsStand' /\ Lookers'
  BY <1>1, <1>2, <1>3, ChainLeaves
<1>5. Nonce' >= Nonce /\ Nonce' \in Nat
  <2>1. Nonce' = chain'.elsewhere + Cardinality(Executing)
    BY <1>2 DEF Nonce, Executing
  <2> QED
    BY <1>1, <2>1, NonceIs, ChainFacts
<1>6. Nonces'
  <2>1. \A k \in Hashes : chain.sent[k].attempt.nonce \in Nat
    BY ChainFacts
  <2> QED
    BY <1>1, <1>2, <1>4, <1>5, <2>1, NonceIs DEF PayInv, Nonces
<1> QED
  BY <1>4, <1>6 DEF PayInv

(* A request that ends, or that is settled for good.                        *)
LEMMA PayEnds == ASSUME IInv, PayInv, Reverts \/ Discards \/ Settles PROVE PayInv'
<1>1. PICK h \in Hashes, status \in {"reverted", "discarded", "safe"} :
        /\ Becomes(h, status)
        /\ chain.sent[h].status = IF status = "safe" THEN "executed" ELSE "queued"
  BY DEF Reverts, Discards, Settles
<1>2. /\ UNCHANGED <<storage, views, handler>> /\ chain'.orphans = chain.orphans
      /\ chain'.block = chain.block /\ chain'.elsewhere = chain.elsewhere
      /\ Hashes' = Hashes
      /\ \A k \in Hashes : chain'.sent[k].attempt = chain.sent[k].attempt
      /\ chain'.sent[h].status = status
      /\ \A k \in Hashes \ {h} : chain'.sent[k].status = chain.sent[k].status
  BY <1>1, BecomesFacts
<1>3. Underway' \subseteq Underway \ {h} /\ h \in Underway
  BY <1>1, <1>2 DEF Underway
<1>4. /\ Live' \subseteq Live
      /\ AllFit' /\ Distinct' /\ Locked' /\ PollsStand' /\ Lookers'
  <2>1. \A k \in Hashes : chain.sent[k].status \in Ended => chain'.sent[k].status \in Ended
    BY <1>1, <1>2 DEF Ended
  <2>2. chain'.block >= chain.block /\ chain'.block \in Nat
    BY <1>2, ChainFacts
  <2> QED
    BY <1>2, <1>3, <2>1, <2>2, ChainLeaves
<1>5. Nonce' = Nonce
  <2>1. Executing' = Executing
    BY <1>1, <1>2 DEF Executing
  <2> QED
    BY <1>2, <2>1 DEF Nonce, Executing
<1>6. Live' = {}
  <2>1. Underway' = {}
    BY <1>3, OneTransaction
  <2>2. chain.sent[h].attempt \in Live /\ h \in Hashes
    BY <1>3 DEF Live
  <2>3. Asked' = Asked /\ \A a \in Asked : a \in Live
    BY <1>2 DEF Asked, Live
  <2>4. \A a \in Live : a = chain.sent[h].attempt
    BY <2>2 DEF PayInv, Locked
  <2>5. chain.sent[h].attempt \notin Asked
    BY <2>2 DEF IInv, Once, Asked
  <2> QED
    BY <2>1, <2>3, <2>4, <2>5 DEF Live
<1>7. Nonces'
  <2>1. \A k \in Hashes : chain'.sent[k].status \in {"executed", "safe"}
                         => chain.sent[k].status \in {"executed", "safe"}
    BY <1>1, <1>2
  <2> QED
    BY <1>2, <1>5, <1>6, <2>1 DEF PayInv, Nonces
<1> QED
  BY <1>4, <1>7 DEF PayInv

(* What is rolled back was the last to be executed.                         *)
LEMMA PayRollsBack == ASSUME IInv, PayInv, RollsBack PROVE PayInv'
<1>1. PICK h \in Hashes : chain.sent[h].status = "executed" /\ Becomes(h, "queued")
  BY DEF RollsBack
<1>2. /\ UNCHANGED <<storage, views, handler>> /\ chain'.orphans = chain.orphans
      /\ chain'.block = chain.block /\ chain'.elsewhere = chain.elsewhere
      /\ Hashes' = Hashes
      /\ \A k \in Hashes : chain'.sent[k].attempt = chain.sent[k].attempt
      /\ chain'.sent[h].status = "queued"
      /\ \A k \in Hashes \ {h} : chain'.sent[k].status = chain.sent[k].status
  BY <1>1, BecomesFacts
<1>3. Underway' = Underway /\ h \in Underway
  BY <1>1, <1>2 DEF Underway
<1>4. /\ Live' \subseteq Live
      /\ AllFit' /\ Distinct' /\ Locked' /\ PollsStand' /\ Lookers'
  <2>1. \A k \in Hashes : chain.sent[k].status \in Ended => chain'.sent[k].status \in Ended
    BY <1>1, <1>2 DEF Ended
  <2>2. chain'.block >= chain.block /\ chain'.block \in Nat
    BY <1>2, ChainFacts
  <2> QED
    BY <1>2, <1>3, <2>1, <2>2, ChainLeaves
<1>5. Nonce' = Nonce - 1
  <2>1. Executing' = Executing \ {h} /\ h \in Executing
    BY <1>1, <1>2 DEF Executing
  <2>2. Cardinality(Executing') = Cardinality(Executing) - 1
    BY <2>1, NonceIs, FS_RemoveElement
  <2>3. Nonce' = chain'.elsewhere + Cardinality(Executing')
    BY DEF Nonce, Executing
  <2> QED
    BY <1>2, <2>2, <2>3, NonceIs, ChainFacts
<1>6. ASSUME NEW k \in Hashes', chain'.sent[k].status \in {"executed", "safe"}
      PROVE  chain'.sent[k].attempt.nonce < Nonce'
  <2>1. k \in Hashes /\ k # h /\ chain.sent[k].status \in {"executed", "safe"}
    BY <1>2, <1>6
  <2>2. chain.sent[k].status = "safe"
    <3>1. k \notin Underway
      BY <1>3, <2>1, OneTransaction
    <3> QED
      BY <2>1, <3>1 DEF Underway
  <2>3. chain.sent[h].attempt \in Live
    BY <1>3 DEF Live
  <2>4. chain.sent[k].attempt.nonce < chain.sent[h].attempt.nonce
    BY <2>1, <2>2, <2>3 DEF PayInv, Nonces
  <2>5. chain.sent[h].attempt.nonce < Nonce
    BY <1>1 DEF PayInv, Nonces
  <2>6. chain.sent[k].attempt.nonce \in Nat /\ chain.sent[h].attempt.nonce \in Nat
    BY <2>1, ChainFacts
  <2> QED
    BY <1>2, <1>5, <2>1, <2>4, <2>5, <2>6, NonceIs
<1>7. Nonces'
  <2>1. \A k \in Hashes' : chain'.sent[k].status = "safe" => chain.sent[k].status = "safe"
    BY <1>2
  <2> QED
    BY <1>2, <1>4, <1>6, <2>1 DEF PayInv, Nonces
<1> QED
  BY <1>4, <1>7 DEF PayInv

(* What the wallet sends comes after all that is known.                     *)
LEMMA PaySends == ASSUME IInv, PayInv, Sends PROVE PayInv'
<1> DEFINE n == Len(chain.sent) + 1
<1>1. PICK a \in Asked :
        /\ chain'.sent = Append(chain.sent, Queued(a))
        /\ chain'.block = chain.block /\ chain'.elsewhere = chain.elsewhere
        /\ UNCHANGED <<storage, views>>
        /\ \/ /\ handler # NoHandler /\ handler.hash = 0 /\ a = handler.intent.attempt
              /\ chain'.orphans = chain.orphans
              /\ handler' = [handler EXCEPT !.hash = n]
           \/ chain'.orphans = chain.orphans \ {a} /\ handler' = handler
  BY DEF Sends, Asked, IInv, TypeOK
<1>2. a \in Live /\ a \in Attempts /\ \A h \in Hashes : chain.sent[h].attempt # a
  <2>1. \A h \in Hashes : chain.sent[h].attempt # a
    BY DEF IInv, Once, Asked
  <2> QED
    BY <2>1, ChainFacts DEF Live
<1>3. /\ Hashes' = Hashes \cup {n} /\ n \notin Hashes /\ chain'.sent[n] = Queued(a)
      /\ \A h \in Hashes : chain'.sent[h] = chain.sent[h]
  <2>1. chain.sent \in Seq(Sent) /\ Len(chain.sent) \in Nat
    BY ChainFacts
  <2>2. Queued(a) \in Sent
    BY <1>2 DEF Queued, Sent, Statuses
  <2>3. /\ Len(chain'.sent) = n /\ chain'.sent[n] = Queued(a)
        /\ \A h \in 1..Len(chain.sent) : chain'.sent[h] = chain.sent[h]
    BY <1>1, <2>1, <2>2
  <2> QED
    BY <2>1, <2>3 DEF Hashes
<1>4. Queued(a).attempt = a /\ Queued(a).status = "queued"
  BY DEF Queued
<1>5. handler' # NoHandler =>
        /\ handler # NoHandler /\ handler'.intent = handler.intent
        /\ handler'.hash = handler.hash \/ (handler'.hash = n /\ a = handler.intent.attempt)
  BY <1>1, Known DEF Handlers
<1> HIDE DEF n
<1>6. Live' \subseteq Live
  <2>1. Asked' \subseteq Asked
    BY <1>1, <1>5 DEF Asked
  <2>2. Underway' \subseteq Underway \cup {n}
    BY <1>3 DEF Underway
  <2>3. \A h \in Underway : chain'.sent[h].attempt = chain.sent[h].attempt
    BY <1>3 DEF Underway
  <2> QED
    BY <1>2, <1>3, <1>4, <2>1, <2>2, <2>3 DEF Live
<1>7. ASSUME NEW i \in Intents, Fits(i), i.hash # n \/ i.attempt = a PROVE Fits(i)'
  <2>1. i.attempt.block <= a.block /\ i.attempt.block \in Nat /\ a.block \in Nat
    BY <1>2, <1>7, NoIntentFacts, ChainFacts DEF Fits
  <2>2. ~(a.block < i.attempt.block)
    BY <2>1
  <2> QED
    BY <1>1, <1>3, <1>4, <1>6, <1>7, <2>2 DEF Fits
<1>8. AllFit'
  <2> SUFFICES ASSUME NEW i, Knows(i)' PROVE Fits(i)'
    BY DEF AllFit
  <2>1. CASE Knows(i)
    <3>1. Fits(i) /\ i \in Intents /\ Right(chain.sent, i)
      BY <2>1, KnowsType DEF PayInv, AllFit
    <3>2. i.hash # n
      <4>1. i.hash \in Nat /\ n \in Nat /\ n > 0
        BY <3>1, NoIntentFacts, ChainFacts DEF n
      <4> QED
        BY <1>3, <3>1, <4>1 DEF Right, Hashes
    <3> QED
      BY <1>7, <3>1, <3>2
  <2>2. CASE ~Knows(i)
    <3>1. HandlerKnows(handler', i)
      BY <1>1, <2>2 DEF Knows
    <3>2. handler # NoHandler /\ ~HandlerKnows(handler, i) /\ i # NoIntent
      BY <1>5, <2>2, <3>1 DEF Knows, HandlerKnows
    <3>3. i = [attempt |-> a, hash |-> n] /\ a = handler.intent.attempt
      BY <1>5, <3>1, <3>2 DEF HandlerKnows
    <3>4. Fits(handler.intent) /\ handler.intent \in Intents
      <4>1. handler.intent \in Intents
        BY <3>2, Known DEF Handlers
      <4> QED
        BY <3>2, <4>1, KnownFits, NoIntentFacts DEF PayInv, HandlerKnows
    <3>5. Fits(i)
      BY <1>3, <3>3, <3>4 DEF Fits
    <3>6. n \in Nat
      BY ChainFacts DEF n
    <3> QED
      BY <1>2, <1>7, <3>3, <3>5, <3>6, NoIntentFacts
  <2> QED
    BY <2>1, <2>2
<1>9. Nonces'
  <2>1. Executing' = Executing
    BY <1>3, <1>4 DEF Executing
  <2>2. Nonce' = Nonce
    BY <1>1, <2>1 DEF Nonce, Executing
  <2> QED
    BY <1>3, <1>4, <1>6, <2>2 DEF PayInv, Nonces
<1>10. Distinct'
  BY <1>2, <1>3, <1>4 DEF PayInv, Distinct
<1>11. Locked' /\ PollsStand' /\ Lookers'
  BY <1>1, <1>5, <1>6 DEF PayInv, Locked, PollsStand, PollStands, Lookers
<1> QED
  BY <1>8, <1>9, <1>10, <1>11 DEF PayInv

-----------------------------------------------------------------------------
(* Steps of the tabs, and of the handler.                                   *)

SameHandler == handler' # NoHandler => /\ handler # NoHandler /\ handler'.intent = handler.intent
                                       /\ handler'.hash = handler.hash

StorageFits == /\ storage'.slot # NoIntent => Fits(storage'.slot)
               /\ \A e \in storage'.history : Fits(e)

ViewStands(t, v) == /\ ViewFits(v) /\ PollStands(v.poll)
                    /\ t \notin Paying => v.review = NoReview

SlotStands(a) == storage'.slot # NoIntent /\ storage'.slot.attempt = a

LEMMA LiveStays ==
  ASSUME chain'.sent = chain.sent, Asked' \subseteq Asked
  PROVE  Live' \subseteq Live
BY DEF Live, Underway, Hashes

(* A step of a tab by which nothing comes under way.                        *)
LEMMA TabKeeps ==
  ASSUME IInv, PayInv, NEW t \in Tabs, NEW v, views' = [views EXCEPT ![t] = v],
         chain'.sent = chain.sent, chain'.block = chain.block,
         chain'.elsewhere = chain.elsewhere, Live' \subseteq Live,
         SameHandler, StorageFits, ViewStands(t, v),
         \A a \in Live' : SlotStands(a) /\ (t \in Paying => LockedOn(a, v))
  PROVE  PayInv'
<1>1. views'[t] = v /\ \A u \in Tabs \ {t} : views'[u] = views[u]
  BY Known
<1>2. Hashes' = Hashes /\ Nonce' = Nonce
  BY DEF Hashes, Nonce
<1>3. \A i : Fits(i) => Fits(i)'
  BY <1>2 DEF Fits
<1>4. AllFit'
  <2>1. \A u \in Tabs : ViewFits(views'[u])
    BY <1>1, KnownFits DEF PayInv, ViewStands
  <2>2. \A i : i # NoIntent /\ HandlerKnows(handler', i) => Fits(i)
    BY KnownFits DEF PayInv, HandlerKnows, SameHandler
  <2>3. ASSUME NEW i, Knows(i)' PROVE Fits(i)
    BY <2>1, <2>2, <2>3 DEF Knows, StorageFits, ViewFits
  <2> QED
    BY <1>3, <2>3 DEF AllFit
<1>5. Nonces' /\ Distinct'
  BY <1>2 DEF PayInv, Nonces, Distinct
<1>6. Locked'
  <2>1. ASSUME NEW a \in Live', NEW u \in Paying PROVE LockedOn(a, views'[u])
    <3>1. u \in Tabs
      BY JournalAssumption DEF JournalAssumption
    <3> QED
      BY <1>1, <3>1 DEF PayInv, Locked
  <2> QED
    BY <2>1 DEF PayInv, Locked, SlotStands, SameHandler
<1>7. PollsStand'
  <2>1. \A u \in Tabs : PollStands(views'[u].poll)
    BY <1>1 DEF PayInv, PollsStand, ViewStands
  <2> QED
    BY <2>1 DEF PollsStand, PollStands
<1>8. Lookers'
  BY <1>1 DEF PayInv, Lookers, ViewStands
<1> QED
  BY <1>4, <1>5, <1>6, <1>7, <1>8 DEF PayInv

(* What the invariants say of a tab and of storage.                         *)
LEMMA TabFits ==
  ASSUME IInv, PayInv, NEW t \in Tabs
  PROVE  /\ ViewStands(t, views[t])
         /\ storage.slot # NoIntent => Fits(storage.slot)
         /\ \A e \in storage.history : Fits(e)
         /\ \A a \in Live : /\ storage.slot # NoIntent /\ storage.slot.attempt = a
                            /\ t \in Paying => LockedOn(a, views[t])
<1>1. NoIntent \notin storage.history
  BY Known, NoIntentFacts
<1>2. \A a \in Live : /\ storage.slot # NoIntent /\ storage.slot.attempt = a
                      /\ t \in Paying => LockedOn(a, views[t])
  BY DEF PayInv, Locked
<1>3. ViewStands(t, views[t])
  BY KnownFits DEF PayInv, ViewStands, PollsStand, Lookers
<1>4. /\ storage.slot # NoIntent => Fits(storage.slot)
      /\ \A e \in storage.history : Fits(e)
  BY <1>1, KnownFits DEF PayInv
<1> QED
  BY <1>2, <1>3, <1>4

LEMMA RememberedFits ==
  ASSUME IInv, PayInv, NEW i, Fits(i), NEW slot, slot # NoIntent => Fits(slot),
         storage' = [slot |-> slot, history |-> Remembered(storage.history, i)]
  PROVE  StorageFits
<1>1. \A e \in storage.history : Fits(e)
  BY Known, NoIntentFacts, KnownFits DEF PayInv
<1>2. storage'.slot = slot /\ storage'.history \subseteq storage.history \cup {i}
  BY RememberedFacts
<1> QED
  BY <1>1, <1>2 DEF StorageFits

LEMMA SameStorageFits == ASSUME IInv, PayInv, storage' = storage PROVE StorageFits
BY Known, NoIntentFacts, KnownFits DEF PayInv, StorageFits

LEMMA NoPollStands == ASSUME NEW v, v.poll = NoPoll, v.intent # NoIntent => Fits(v.intent)
                      PROVE  ViewFits(v) /\ PollStands(v.poll)
<1>1. NoPoll.current = NoIntent /\ NoPoll.result.kind = "none"
  BY DEF NoPoll
<1> QED
  BY <1>1 DEF ViewFits, ViewKnows, PollStands, Terminal

LEMMA ClosedFacts ==
  /\ Closed.poll = NoPoll /\ Closed.intent = NoIntent /\ Closed.review = NoReview
  /\ Closed.open = FALSE
BY DEF Closed

LEMMA PayCloses == ASSUME IInv, PayInv, NEW t \in Tabs, Closes(t) PROVE PayInv'
<1>1. /\ views' = [views EXCEPT ![t] = Closed] /\ storage' = storage
      /\ \/ handler' = handler /\ chain' = chain
         \/ /\ handler # NoHandler /\ handler' = NoHandler
            /\ chain' = IF handler.hash = 0
                        THEN [chain EXCEPT !.orphans = @ \cup {handler.intent.attempt}]
                        ELSE chain
  BY DEF Closes
<1>2. /\ chain'.sent = chain.sent /\ chain'.block = chain.block
      /\ chain'.elsewhere = chain.elsewhere /\ Asked' \subseteq Asked /\ SameHandler
  BY <1>1 DEF Asked, SameHandler, IInv, TypeOK
<1>3. Live' \subseteq Live
  BY <1>2, LiveStays
<1>4. ViewStands(t, Closed)
  BY ClosedFacts, NoPollStands DEF ViewStands
<1>5. \A a \in Live' : SlotStands(a) /\ (t \in Paying => LockedOn(a, Closed))
  BY <1>1, <1>3, TabFits, ClosedFacts DEF SlotStands, LockedOn
<1> QED
  BY <1>1, <1>2, <1>3, <1>4, <1>5, SameStorageFits, TabKeeps

LEMMA PayUncertain == ASSUME IInv, PayInv, Uncertain PROVE PayInv'
<1> DEFINE t == handler.tab
<1>1. /\ views' = views /\ storage' = storage
      /\ handler # NoHandler /\ handler' = NoHandler
      /\ chain' = IF handler.hash = 0
                  THEN [chain EXCEPT !.orphans = @ \cup {handler.intent.attempt}] ELSE chain
  BY DEF Uncertain
<1>2. /\ chain'.sent = chain.sent /\ chain'.block = chain.block
      /\ chain'.elsewhere = chain.elsewhere /\ Asked' \subseteq Asked /\ SameHandler
  BY <1>1 DEF Asked, SameHandler, IInv, TypeOK
<1>3. Live' \subseteq Live
  BY <1>2, LiveStays
<1>4. t \in Tabs
  BY <1>1, Known DEF Handlers
<1>5. views' = [views EXCEPT ![t] = views[t]]
  BY <1>1, Known
<1> HIDE DEF t
<1>6. \A a \in Live' : SlotStands(a) /\ (t \in Paying => LockedOn(a, views[t]))
  BY <1>1, <1>3, <1>4, TabFits DEF SlotStands
<1>7. ViewStands(t, views[t])
  BY <1>4, TabFits
<1> QED
  BY <1>1, <1>2, <1>3, <1>4, <1>5, <1>6, <1>7, SameStorageFits, TabKeeps

(* A page that is loaded takes the request over from the slot.              *)
LEMMA PayMounts ==
  ASSUME IInv, PayInv, NEW t \in Tabs, Mounts(t), chain' = chain,
         SameHandler, Asked' \subseteq Asked
  PROVE  PayInv'
<1> DEFINE v == [Closed EXCEPT !.open = TRUE, !.intent = storage.slot]
<1>1. views' = [views EXCEPT ![t] = v]
  BY DEF Mounts
<1>2. v.intent = storage.slot /\ v.poll = NoPoll /\ v.review = NoReview /\ v.outcome = "none"
  BY DEF Closed
<1> HIDE DEF v
<1>3. Live' \subseteq Live
  BY LiveStays
<1>4. ViewStands(t, v)
  BY <1>2, TabFits, NoPollStands DEF ViewStands
<1>5. StorageFits /\ storage'.slot = storage.slot
  <2>1. CASE storage' = storage
    BY <2>1, SameStorageFits
  <2>2. CASE storage' # storage
    <3>1. storage.slot # NoIntent
          /\ storage' = [storage EXCEPT !.history = Remembered(storage.history, storage.slot)]
      BY <2>2 DEF Mounts
    <3>2. storage' = [slot |-> storage.slot, history |-> Remembered(storage.history, storage.slot)]
      BY <3>1, Known DEF Stores
    <3>3. Fits(storage.slot)
      BY <3>1, TabFits
    <3> QED
      BY <3>2, <3>3, RememberedFits
  <2> QED
    BY <2>1, <2>2
<1>6. \A a \in Live' : SlotStands(a) /\ (t \in Paying => LockedOn(a, v))
  BY <1>2, <1>3, <1>5, TabFits DEF SlotStands, LockedOn, Terminal
<1> QED
  BY <1>1, <1>3, <1>4, <1>5, <1>6, TabKeeps

LEMMA PayOpens == ASSUME IInv, PayInv, NEW t \in Tabs, Opens(t) \/ Remounts(t) PROVE PayInv'
<1>1. Mounts(t) /\ chain' = chain
  BY DEF Opens, Remounts
<1>2. SameHandler /\ Asked' \subseteq Asked
  <2>1. CASE handler' = handler
    BY <1>1, <2>1 DEF SameHandler, Asked
  <2>2. CASE handler' # handler
    <3>1. handler # NoHandler /\ handler' = [handler EXCEPT !.mounted = FALSE]
      BY <2>2 DEF Opens, Remounts
    <3>2. handler'.intent = handler.intent /\ handler'.hash = handler.hash
      BY <3>1, Known DEF Handlers
    <3> QED
      BY <1>1, <3>1, <3>2 DEF SameHandler, Asked
  <2> QED
    BY <2>1, <2>2
<1> QED
  BY <1>1, <1>2, PayMounts

(* What is reviewed follows a request that ended: none is under way.        *)
LEMMA PayReviewing == ASSUME IInv, PayInv, NEW t \in Tabs, Reviewing(t) PROVE PayInv'
<1>1. PICK review :
        views' = [views EXCEPT ![t].review = review, ![t].intent = NoIntent,
                              ![t].outcome = IF views[t].intent = NoIntent THEN @ ELSE "none"]
  BY DEF Reviewing
<1>2. /\ t \in Paying /\ views[t].open /\ UNCHANGED <<handler, chain>>
      /\ views[t].intent = NoIntent \/ views[t].outcome \in Terminal
      /\ storage' = storage \/ storage' = [storage EXCEPT !.slot = NoIntent]
  BY DEF Reviewing
<1> DEFINE v == [views[t] EXCEPT !.review = review, !.intent = NoIntent,
                    !.outcome = IF views[t].intent = NoIntent THEN @ ELSE "none"]
<1>3. views' = [views EXCEPT ![t] = v]
  BY <1>1, Known
<1>4. v.intent = NoIntent /\ v.poll = views[t].poll
  BY Known DEF Views
<1> HIDE DEF v
<1>5. Live = {}
  BY <1>2, TabFits DEF LockedOn
<1>6. SameHandler /\ Live' = {}
  BY <1>2, <1>5, LiveStays DEF SameHandler, Asked
<1>7. ViewStands(t, v)
  <2>1. ViewFits(v)
    BY <1>4, TabFits DEF ViewStands, ViewFits, ViewKnows
  <2> QED
    BY <1>2, <1>4, <2>1, TabFits DEF ViewStands
<1>8. StorageFits
  <2>1. storage'.history = storage.history /\ storage'.slot \in {storage.slot, NoIntent}
    BY <1>2, Known DEF Stores
  <2> QED
    BY <2>1, TabFits DEF StorageFits
<1> QED
  BY <1>2, <1>3, <1>5, <1>6, <1>7, <1>8, TabKeeps

(* The answer of the wallet is about the request in the slot.               *)
LEMMA PayAnswered == ASSUME IInv, PayInv, Answered PROVE PayInv'
<1> DEFINE i == [attempt |-> handler.intent.attempt, hash |-> handler.hash]
           t == handler.tab
           v == [views[t] EXCEPT !.intent = i, !.outcome = "pending"]
<1>1. /\ handler # NoHandler /\ handler.hash # 0 /\ handler' = NoHandler /\ chain' = chain
      /\ \/ /\ storage' = [slot |-> i, history |-> Remembered(storage.history, i)]
            /\ InView(i, "pending")
         \/ UNCHANGED <<storage, views>>
  BY DEF Answered
<1>2. t \in Tabs /\ handler.intent \in Intents /\ handler.hash \in Int /\ handler \in Handlers
  BY <1>1, Known DEF Handlers
<1>3. i # NoIntent /\ Fits(i)
  <2>1. i \in Intents
    BY <1>2, NoIntentFacts DEF Handlers
  <2> QED
    BY <1>1, <2>1, KnownFits, NoIntentFacts DEF PayInv, HandlerKnows
<1>4. SameHandler /\ Live' \subseteq Live
  BY <1>1, LiveStays DEF SameHandler, Asked
<1>5. \A a \in Live : i.attempt = a
  BY <1>1 DEF PayInv, Locked
<1>6. v.intent = i /\ v.outcome = "pending" /\ v.poll = views[t].poll /\ v.review = views[t].review
  BY <1>2, Known DEF Views
<1>7. views' = [views EXCEPT ![t] = v] \/ views' = [views EXCEPT ![t] = views[t]]
  BY <1>1, <1>2, Known DEF InView
<1> HIDE DEF i, t, v
<1>8. ViewStands(t, v)
  <2>1. ViewFits(v)
    BY <1>2, <1>3, <1>6, TabFits DEF ViewStands, ViewFits, ViewKnows
  <2> QED
    BY <1>2, <1>6, <2>1, TabFits DEF ViewStands
<1>9. StorageFits /\ (\A a \in Live' : SlotStands(a))
  <2>1. CASE storage' = storage
    BY <1>2, <1>4, <2>1, SameStorageFits, TabFits DEF SlotStands
  <2>2. CASE storage' = [slot |-> i, history |-> Remembered(storage.history, i)]
    <3>1. StorageFits
      BY <1>3, <2>2, RememberedFits
    <3> QED
      BY <1>3, <1>4, <1>5, <2>2, <3>1 DEF SlotStands
  <2> QED
    BY <1>1, <2>1, <2>2
<1>10. \A a \in Live' : LockedOn(a, v) /\ (t \in Paying => LockedOn(a, views[t]))
  BY <1>2, <1>3, <1>4, <1>5, <1>6, TabFits DEF LockedOn, Terminal
<1>11. ViewStands(t, views[t])
  BY <1>2, TabFits
<1> QED
  BY <1>1, <1>2, <1>4, <1>7, <1>8, <1>9, <1>10, <1>11, TabKeeps

(* A request that is declined was the one under way.                        *)
LEMMA PayDeclined == ASSUME IInv, PayInv, Declined PROVE PayInv'
<1> DEFINE a == handler.intent.attempt
           t == handler.tab
           v == [views[t] EXCEPT !.intent = NoIntent, !.outcome = "none"]
<1>1. /\ handler # NoHandler /\ handler.hash = 0 /\ handler' = NoHandler /\ chain' = chain
      /\ \/ /\ storage' = [slot |-> NoIntent,
                            history |-> storage.history \ EntriesOf(storage.history, a)]
            /\ InView(NoIntent, "none")
         \/ UNCHANGED <<storage, views>>
  BY DEF Declined
<1>2. t \in Tabs
  BY <1>1, Known DEF Handlers
<1>3. SameHandler /\ Live' \subseteq Live
  BY <1>1, LiveStays DEF SameHandler, Asked
<1>4. Live' = {}
  <2>1. \A b \in Live : b = a
    BY <1>1 DEF PayInv, Locked
  <2>2. a \notin chain.orphans /\ \A h \in Hashes : chain.sent[h].attempt # a
    BY <1>1 DEF IInv, Once
  <2>3. Asked' = chain.orphans
    BY <1>1 DEF Asked
  <2>4. Underway' = Underway /\ Underway \subseteq Hashes
    BY <1>1 DEF Underway, Hashes
  <2>5. a \notin Live'
    BY <1>1, <2>2, <2>3, <2>4 DEF Live
  <2> QED
    BY <1>3, <2>1, <2>5
<1>5. v.intent = NoIntent /\ v.poll = views[t].poll /\ v.review = views[t].review
  BY <1>2, Known DEF Views
<1>6. views' = [views EXCEPT ![t] = v] \/ views' = [views EXCEPT ![t] = views[t]]
  BY <1>1, <1>2, Known DEF InView
<1>7. StorageFits
  <2>1. /\ storage'.slot \in {storage.slot, NoIntent}
        /\ storage'.history \subseteq storage.history
    BY <1>1
  <2> QED
    BY <1>2, <2>1, TabFits DEF StorageFits
<1> HIDE DEF a, t, v
<1>8. ViewStands(t, v) /\ ViewStands(t, views[t])
  <2>1. ViewFits(v)
    BY <1>2, <1>5, TabFits DEF ViewStands, ViewFits, ViewKnows
  <2> QED
    BY <1>2, <1>5, <2>1, TabFits DEF ViewStands
<1> QED
  BY <1>1, <1>2, <1>3, <1>4, <1>6, <1>7, <1>8, TabKeeps

(* The reads of a poll: what they find fits, and if it is final then the    *)
(* request is not under way.                                                *)
LEMMA PayPollReads == ASSUME IInv, PayInv, NEW t \in Tabs, PollReads(t) PROVE PayInv'
<1> DEFINE i == views[t].intent
           q == [on |-> TRUE, current |-> i, result |-> Outcome(i)]
           v == [views[t] EXCEPT !.poll = q,
                    !.review = IF i = NoIntent /\ @.nonce # Nonce THEN NoReview ELSE @]
<1>1. UNCHANGED <<storage, handler, chain>> /\ views' = [views EXCEPT ![t] = v]
  BY Known DEF PollReads
<1>2. /\ v.intent = i /\ v.poll = q /\ v.open = views[t].open /\ v.outcome = views[t].outcome
      /\ v.review \in {NoReview, views[t].review}
  BY Known DEF Views
<1>3. q.current = i /\ q.result = Outcome(i)
  OBVIOUS
<1> HIDE DEF v, q
<1>4. SameHandler /\ Live' \subseteq Live
  BY <1>1, LiveStays DEF SameHandler, Asked
<1>5. ASSUME i # NoIntent
      PROVE  /\ Fits(i) /\ Fits([attempt |-> i.attempt, hash |-> Outcome(i).hash])
             /\ Outcome(i).kind \in Terminal => Outcome(i).hash # 0 /\ i.attempt \notin Live
  <2>1. i \in Intents /\ Right(chain.sent, i)
    BY <1>5, Known, NoIntentFacts
  <2>2. Fits(i)
    BY <1>5, TabFits DEF ViewStands, ViewFits, ViewKnows
  <2> QED
    BY <2>1, <2>2, LookupFits DEF PayInv
<1>6. i = NoIntent => Outcome(i).kind = "none"
  BY DEF Outcome
<1> HIDE DEF i
<1>7. ViewFits(v) /\ PollStands(v.poll)
  <2>1. PollStands(q)
    BY <1>3, <1>5, <1>6 DEF PollStands, Terminal
  <2>2. ViewFits(v)
    BY <1>2, <1>3, <1>5 DEF ViewFits, ViewKnows
  <2> QED
    BY <1>2, <2>1, <2>2
<1>8. ViewStands(t, v)
  BY <1>2, <1>7, TabFits DEF ViewStands
<1>9. \A a \in Live' : SlotStands(a) /\ (t \in Paying => LockedOn(a, v))
  BY <1>1, <1>2, <1>4, TabFits DEF SlotStands, LockedOn, i
<1> QED
  BY <1>1, <1>4, <1>8, <1>9, SameStorageFits, TabKeeps

(* A poll that fails gives the request back to the slot, unless another one *)
(* is named there.                                                          *)
LEMMA PayCaught ==
  ASSUME IInv, PayInv, NEW t \in Tabs, Caught(t), UNCHANGED <<handler, chain>>
  PROVE  PayInv'
<1> DEFINE i == views[t].intent
           v == [views[t] EXCEPT !.poll = NoPoll,
                                 !.outcome = IF i = NoIntent THEN @ ELSE "unknown"]
<1>1. views' = [views EXCEPT ![t] = v]
  BY Known DEF Caught
<1>2. /\ v.intent = i /\ v.poll = NoPoll /\ v.open = views[t].open /\ v.review = views[t].review
      /\ v.outcome \in {"unknown", views[t].outcome}
  BY Known DEF Views
<1>3. \/ storage' = storage
      \/ /\ i # NoIntent
         /\ storage.slot = NoIntent \/ storage.slot.attempt = i.attempt
         /\ storage' = [slot |-> i, history |-> Remembered(storage.history, i)]
  BY DEF Caught
<1> HIDE DEF v
<1>4. SameHandler /\ Live' \subseteq Live
  BY LiveStays DEF SameHandler, Asked
<1>5. i # NoIntent => Fits(i)
  BY TabFits DEF ViewStands, ViewFits, ViewKnows
<1>6. ViewStands(t, v)
  BY <1>2, <1>5, NoPollStands, TabFits DEF ViewStands
<1>7. StorageFits
  <2>1. CASE storage' = storage
    BY <2>1, SameStorageFits
  <2>2. CASE storage' # storage
    BY <1>3, <1>5, <2>2, RememberedFits
  <2> QED
    BY <2>1, <2>2
<1>8. \A a \in Live' : SlotStands(a)
  BY <1>3, <1>4, TabFits DEF SlotStands
<1>9. \A a \in Live' : t \in Paying => LockedOn(a, v)
  BY <1>2, <1>4, TabFits DEF LockedOn, Terminal
<1> QED
  BY <1>1, <1>4, <1>6, <1>7, <1>8, <1>9, TabKeeps

(* A poll that ends a request in the slot ends none that is under way.      *)
LEMMA PayPollApplies == ASSUME IInv, PayInv, NEW t \in Tabs, PollApplies(t) PROVE PayInv'
<1> DEFINE w       == views[t]
           result  == w.poll.result
           tracked == IF result.hash # 0 THEN [w.intent EXCEPT !.hash = result.hash] ELSE w.intent
           idle    == [w EXCEPT !.poll = NoPoll]
           none    == [w EXCEPT !.poll = NoPoll, !.outcome = "none"]
           slot    == IF result.kind \in Terminal THEN NoIntent ELSE tracked
           applied == [w EXCEPT !.poll = NoPoll, !.intent = tracked, !.outcome = result.kind,
                                !.review = IF result.kind \in Terminal THEN NoReview ELSE @]
<1>1. /\ UNCHANGED <<handler, chain>>
      /\ \/ storage' = storage /\ views' = [views EXCEPT ![t] = idle]
         \/ /\ w.intent = NoIntent
            /\ storage' = storage /\ views' = [views EXCEPT ![t] = none]
         \/ /\ w.poll.current = w.intent /\ w.intent # NoIntent /\ NotAnothers(tracked)
            /\ storage' = [slot |-> slot, history |-> Remembered(storage.history, tracked)]
            /\ views' = [views EXCEPT ![t] = applied]
         \/ Caught(t)
  BY Known DEF PollApplies
<1>2. /\ idle.intent = w.intent /\ idle.poll = NoPoll /\ idle.review = w.review
      /\ idle.open = w.open /\ idle.outcome = w.outcome
      /\ none.intent = w.intent /\ none.poll = NoPoll /\ none.review = w.review
      /\ none.open = w.open /\ none.outcome = "none"
      /\ applied.intent = tracked /\ applied.poll = NoPoll
      /\ applied.review \in {NoReview, w.review} /\ applied.outcome = result.kind
  BY Known DEF Views
<1> HIDE DEF idle, none, applied
<1>3. SameHandler /\ Live' \subseteq Live
  BY <1>1, LiveStays DEF SameHandler, Asked
<1>4. w.intent # NoIntent => Fits(w.intent)
  BY TabFits DEF ViewStands, ViewFits, ViewKnows
<1>5. CASE storage' = storage /\ views' = [views EXCEPT ![t] = idle]
  <2>1. ViewStands(t, idle)
    BY <1>2, <1>4, NoPollStands, TabFits DEF ViewStands
  <2>2. \A a \in Live' : SlotStands(a) /\ (t \in Paying => LockedOn(a, idle))
    BY <1>2, <1>3, <1>5, TabFits DEF SlotStands, LockedOn
  <2> QED
    BY <1>1, <1>3, <1>5, <2>1, <2>2, SameStorageFits, TabKeeps
<1>6. CASE w.intent = NoIntent /\ storage' = storage /\ views' = [views EXCEPT ![t] = none]
  <2>1. ViewStands(t, none)
    BY <1>2, <1>4, NoPollStands, TabFits DEF ViewStands
  <2>2. \A a \in Live' : SlotStands(a) /\ (t \in Paying => LockedOn(a, none))
    BY <1>2, <1>3, <1>6, TabFits DEF SlotStands, LockedOn, Terminal
  <2> QED
    BY <1>1, <1>3, <1>6, <2>1, <2>2, SameStorageFits, TabKeeps
<1>7. CASE /\ w.poll.current = w.intent /\ w.intent # NoIntent /\ NotAnothers(tracked)
           /\ storage' = [slot |-> slot, history |-> Remembered(storage.history, tracked)]
           /\ views' = [views EXCEPT ![t] = applied]
  <2>1. w.intent \in Intents
    BY <1>7, Known, NoIntentFacts
  <2>2. tracked # NoIntent /\ tracked.attempt = w.intent.attempt
        /\ tracked \in {w.intent, [attempt |-> w.intent.attempt, hash |-> result.hash]}
    <3>1. result.hash \in Nat
      BY Known DEF Polls, Outcomes
    <3>2. tracked \in Intents
      BY <2>1, <3>1 DEF Intents
    <3> QED
      BY <2>1, <3>2, NoIntentFacts DEF Intents
  <2>3. Fits(tracked)
    <3>1. CASE tracked = w.intent
      BY <1>4, <1>7, <3>1
    <3>2. CASE tracked = [attempt |-> w.intent.attempt, hash |-> result.hash]
      BY <1>7, <2>2, <3>2, TabFits DEF ViewStands, ViewFits, ViewKnows
    <3> QED
      BY <2>2, <3>1, <3>2
  <2>4. result.kind \in Terminal => w.intent.attempt \notin Live
    BY <1>7, TabFits DEF ViewStands, PollStands
  <2>5. \A a \in Live : a = tracked.attempt
    BY <1>7, TabFits DEF NotAnothers
  <2> HIDE DEF tracked
  <2>6. result.kind \in Terminal => Live = {}
    BY <2>2, <2>4, <2>5
  <2>7. ViewStands(t, applied)
    BY <1>2, <2>3, NoPollStands, TabFits DEF ViewStands
  <2>8. StorageFits
    BY <1>7, <2>3, RememberedFits
  <2>9. \A a \in Live' : SlotStands(a) /\ LockedOn(a, applied)
    <3> SUFFICES ASSUME NEW a \in Live' PROVE SlotStands(a) /\ LockedOn(a, applied)
      OBVIOUS
    <3>1. a \in Live /\ a = tracked.attempt /\ result.kind \notin Terminal
      BY <1>3, <2>5, <2>6
    <3> QED
      BY <1>2, <1>7, <2>2, <3>1 DEF SlotStands, LockedOn
  <2> QED
    BY <1>1, <1>3, <1>7, <2>7, <2>8, <2>9, TabKeeps
<1>8. CASE Caught(t)
  BY <1>1, <1>8, PayCaught
<1> QED
  BY <1>1, <1>5, <1>6, <1>7, <1>8

LEMMA PayHistoryFinds == ASSUME IInv, PayInv, NEW t \in Tabs, HistoryFinds(t) PROVE PayInv'
<1>1. PICK e \in storage.history :
        /\ storage' = [storage EXCEPT !.history = Remembered(@, [e EXCEPT !.hash = Outcome(e).hash])]
        /\ UNCHANGED <<views, handler, chain>>
  BY DEF HistoryFinds
<1> DEFINE i == [e EXCEPT !.hash = Outcome(e).hash]
<1>2. e \in Intents /\ Right(chain.sent, e) /\ Fits(e)
  BY Known, TabFits
<1>3. i = [attempt |-> e.attempt, hash |-> Outcome(e).hash]
  BY <1>2 DEF Intents
<1>4. Fits(i)
  BY <1>2, <1>3, LookupFits DEF PayInv
<1>5. storage' = [slot |-> storage.slot, history |-> Remembered(storage.history, i)]
  BY <1>1, Known DEF Stores
<1> HIDE DEF i
<1>6. StorageFits
  BY <1>4, <1>5, TabFits, RememberedFits
<1>7. SameHandler /\ Live' \subseteq Live
  BY <1>1, LiveStays DEF SameHandler, Asked
<1>8. \A a \in Live' : SlotStands(a) /\ (t \in Paying => LockedOn(a, views[t]))
  BY <1>5, <1>7, TabFits DEF SlotStands
<1>9. views' = [views EXCEPT ![t] = views[t]] /\ ViewStands(t, views[t])
  BY <1>1, Known, TabFits
<1> QED
  BY <1>1, <1>6, <1>7, <1>8, <1>9, TabKeeps

(* What is submitted is the only request under way: its block is that of no *)
(* earlier attempt that may still be taken for it, and earlier attempts of  *)
(* its Safe transaction have failed, since the Safe's nonce is still theirs.*)
LEMMA PaySubmitting ==
  ASSUME IInv, IInv', PayInv, OnePayer, NEW t \in Tabs, Submitting(t)
  PROVE  PayInv'
<1> DEFINE w == views[t]
<1>1. PICK i :
        /\ i = [attempt |-> [payment |-> w.review.payment, nonce |-> Nonce, block |-> chain.block],
                hash |-> 0]
        /\ w.open /\ handler = NoHandler /\ w.intent = NoIntent /\ w.review # NoReview
        /\ Fresh(i.attempt) /\ chain' = chain
        /\ storage' = [slot |-> i, history |-> Remembered(storage.history, i)]
        /\ views' = [views EXCEPT ![t] = [w EXCEPT !.intent = i, !.outcome = "unknown"]]
        /\ handler' = [tab |-> t, intent |-> i, hash |-> 0, mounted |-> TRUE]
  BY Known DEF Submitting
<1> DEFINE v == [w EXCEPT !.intent = i, !.outcome = "unknown"]
<1>2. i.hash = 0 /\ i.attempt.nonce = Nonce /\ i.attempt.block = chain.block
  BY <1>1
<1>3. t \in Paying
  BY <1>1, TabFits DEF ViewStands
<1>4. /\ v.intent = i /\ v.outcome = "unknown" /\ v.poll = w.poll /\ v.review = w.review
      /\ views'[t] = v /\ \A u \in Tabs \ {t} : views'[u] = views[u]
  BY <1>1, Known DEF Views
<1>5. Live = {}
  BY <1>1, <1>3, TabFits DEF LockedOn
<1>6. Hashes' = Hashes /\ Nonce' = Nonce /\ chain' = chain
  BY <1>1 DEF Hashes, Nonce
<1>7. i \in Intents
  <2>1. handler'.intent = i /\ handler' # NoHandler
    BY <1>1 DEF NoHandler
  <2>2. handler' \in Handlers
    BY <2>1 DEF IInv, TypeOK
  <2> QED
    BY <2>1, <2>2 DEF Handlers
<1> HIDE DEF v
<1>8. Live' = {i.attempt}
  <2>1. Asked = {} /\ Underway = {}
    BY <1>5 DEF Live
  <2>2. Asked' = {i.attempt}
    <3>1. handler' # NoHandler /\ handler'.hash = 0 /\ handler'.intent = i
      BY <1>1 DEF NoHandler
    <3>2. chain'.orphans = {}
      BY <1>1, <2>1 DEF Asked
    <3> QED
      BY <3>1, <3>2 DEF Asked
  <2>3. Underway' = {}
    BY <1>6, <2>1 DEF Underway
  <2> QED
    BY <2>2, <2>3 DEF Live
<1>9. \A k : Fits(k) => Fits(k)'
  BY <1>2, <1>6, <1>8 DEF Fits
<1>10. Fits(i)'
  <2>1. ASSUME NEW h \in Hashes, SameSafeHash(chain.sent[h].attempt, i.attempt)
        PROVE  chain.sent[h].status \in Ended
    <3>1. chain.sent[h].attempt.nonce = Nonce
      BY <1>2, <2>1 DEF SameSafeHash
    <3>2. chain.sent[h].status \notin {"executed", "safe"}
      BY <3>1, NonceIs DEF PayInv, Nonces
    <3>3. chain.sent[h].status # "queued"
      BY <1>5 DEF Live, Underway
    <3>4. chain.sent[h].status \in Statuses
      BY ChainFacts DEF Sent
    <3> QED
      BY <3>2, <3>3, <3>4 DEF Statuses, Ended
  <2>2. i.hash \notin Hashes
    BY <1>2 DEF Hashes
  <2>3. chain.block <= chain.block
    BY ChainFacts
  <2> QED
    BY <1>2, <1>6, <1>8, <2>1, <2>2, <2>3 DEF Fits
<1>11. AllFit'
  <2> SUFFICES ASSUME NEW k, Knows(k)', k # i PROVE Fits(k)
    BY <1>9, <1>10 DEF AllFit
  <2>1. CASE k = storage'.slot \/ k \in storage'.history
    <3>1. k \in storage.history
      BY <1>1, <2>1, RememberedFacts
    <3> QED
      BY <3>1, TabFits
  <2>2. ASSUME NEW u \in Tabs, ViewKnows(views'[u], k) PROVE Fits(k)
    <3>1. k # NoIntent
      BY DEF Knows
    <3>2. ViewKnows(views[u], k)
      BY <1>4, <2>2 DEF ViewKnows
    <3> QED
      BY <3>1, <3>2, TabFits DEF ViewStands, ViewFits
  <2>3. CASE HandlerKnows(handler', k)
    <3>1. k = handler'.intent \/ k = [attempt |-> i.attempt, hash |-> 0]
      BY <1>1, <2>3 DEF HandlerKnows
    <3>2. [attempt |-> i.attempt, hash |-> 0] = i
      BY <1>2, <1>7 DEF Intents
    <3> QED
      BY <1>1, <3>1, <3>2
  <2> QED
    BY <2>1, <2>2, <2>3 DEF Knows
<1>12. Nonces'
  BY <1>2, <1>6, <1>8 DEF PayInv, Nonces
<1>13. Distinct'
  BY <1>6 DEF PayInv, Distinct
<1>14. Locked'
  <2>1. storage'.slot = i /\ handler'.intent = i
    BY <1>1
  <2>2. i # NoIntent
    BY <1>7, NoIntentFacts
  <2>3. \A u \in Paying : LockedOn(i.attempt, views'[u])
    BY <1>3, <1>4, <2>2 DEF OnePayer, LockedOn, Terminal
  <2> QED
    BY <1>8, <2>1, <2>2, <2>3 DEF Locked
<1>15. PollsStand'
  <2> SUFFICES ASSUME NEW u \in Tabs, views[u].poll.result.kind \in Terminal,
                      views[u].poll.current # NoIntent,
                      views[u].poll.current.attempt = i.attempt
               PROVE  FALSE
    <3>1. \A u \in Tabs : views'[u].poll = views[u].poll
      BY <1>4
    <3>2. \A u \in Tabs : PollStands(views[u].poll)
      BY DEF PayInv, PollsStand
    <3> QED
      BY <1>8, <3>1, <3>2 DEF PollsStand, PollStands
  <2> DEFINE h == views[u].poll.result.hash
             k == [attempt |-> i.attempt, hash |-> h]
  <2>1. h # 0
    BY TabFits DEF ViewStands, PollStands
  <2>2. h \in Hashes
    <3>1. Right(chain.sent, k) /\ h \in Nat
      BY <2>1, Known DEF ViewSound, Polls, Outcomes
    <3> QED
      BY <2>1, <3>1 DEF Right, Hashes
  <2>3. Fits(k)
    <3>1. k \in Intents
      BY <1>7, <2>2, NoIntentFacts DEF Hashes
    <3> QED
      BY <3>1, TabFits, NoIntentFacts DEF ViewStands, ViewFits, ViewKnows
  <2>4. chain.sent[h].attempt = i.attempt \/ chain.sent[h].attempt.block > i.attempt.block
    BY <2>2, <2>3 DEF Fits
  <2>5. chain.sent[h].attempt # i.attempt
    BY <1>1, <2>2 DEF Fresh
  <2>6. chain.sent[h].attempt.block <= chain.block
    BY <2>2, SentBefore DEF PayInv
  <2> QED
    BY <1>2, <2>2, <2>4, <2>5, <2>6, ChainFacts
<1>16. Lookers'
  BY <1>3, <1>4 DEF PayInv, Lookers
<1> QED
  BY <1>11, <1>12, <1>13, <1>14, <1>15, <1>16 DEF PayInv

-----------------------------------------------------------------------------
(* The theorems.                                                            *)

LEMMA PayInit == ASSUME Init PROVE PayInv
<1>1. Hashes = {} /\ Live = {} /\ storage.slot = NoIntent /\ storage.history = {}
  BY DEF Init, Hashes, Live, Asked, Underway
<1>2. \A t \in Tabs : views[t] = Closed
  BY DEF Init
<1>3. handler = NoHandler
  BY DEF Init
<1>4. NoPoll.current = NoIntent /\ NoPoll.result.kind = "none"
  BY DEF NoPoll
<1>5. AllFit
  BY <1>1, <1>2, <1>3, <1>4, ClosedFacts DEF AllFit, Knows, ViewKnows, HandlerKnows
<1>6. Nonces /\ Distinct /\ Locked
  BY <1>1 DEF Nonces, Distinct, Locked
<1>7. PollsStand /\ Lookers
  BY <1>2, <1>4, ClosedFacts DEF PollsStand, PollStands, Lookers, Terminal
<1> QED
  BY <1>5, <1>6, <1>7 DEF PayInv

LEMMA PayPreserved ==
  ASSUME JournalAssumption, OnePayer, IInv, IInv', PayInv, [Next]_vars
  PROVE  PayInv'
<1>1. CASE UNCHANGED vars
  <2>1. UNCHANGED <<storage, views, handler, chain>>
    BY <1>1 DEF vars
  <2>2. Live' = Live /\ Hashes' = Hashes /\ Nonce' = Nonce
    BY <2>1 DEF Live, Asked, Underway, Hashes, Nonce
  <2>3. AllFit'
    BY <2>1, <2>2 DEF PayInv, AllFit, Fits, Knows
  <2>4. Nonces' /\ Distinct' /\ Locked' /\ PollsStand' /\ Lookers'
    BY <2>1, <2>2 DEF PayInv, Nonces, Distinct, Locked, PollsStand, PollStands, Lookers
  <2> QED
    BY <2>3, <2>4 DEF PayInv
<1>2. CASE Next
  BY <1>2, PayExecutes, PayElsewhere, PayEnds, PayRollsBack, PaySends, PayAnswered, PayDeclined,
     PayUncertain, PayOpens, PayCloses, PayReviewing, PaySubmitting, PayPollReads, PayCaught,
     PayPollApplies, PayHistoryFinds
  DEF Next, PollFails
<1> QED
  BY <1>1, <1>2

LEMMA PayAlways == ASSUME OnePayer PROVE Spec => [](IInv /\ PayInv)
<1>1. Init => PayInv
  BY PayInit
<1>2. IInv /\ IInv' /\ PayInv /\ [Next]_vars => PayInv'
  BY PayPreserved, JournalAssumption, OnePayer
<1> QED
  BY <1>1, <1>2, Invariant, PTL DEF Spec

(* If the user pays in one tab, whatever is under way is what the slot      *)
(* names, so a page that is loaded meanwhile is locked by it (readIntent).  *)
THEOREM OnePayerIsLocked == ASSUME OnePayer PROVE Spec => []SlotNamesIt
<1>1. PayInv => SlotNamesIt
  BY DEF PayInv, Locked, SlotNamesIt, Live
<1> QED
  BY <1>1, PayAlways, OnePayer, PTL

(* If the user pays in one tab, never are two of its requests under way,    *)
(* although answers are lost, pages closed and executions rolled back.      *)
THEOREM OnePayerPaysOnce == ASSUME OnePayer PROVE Spec => []OneUnderway
<1>1. ASSUME IInv, PayInv PROVE OneUnderway
  <2>1. CASE Underway = {}
    <3>1. Cardinality(Underway) = 0
      BY <2>1, FS_EmptySet
    <3>2. Asked = {} \/ \E a : Asked = {a}
      <4>1. \A a, b \in Asked : a = b
        BY <1>1 DEF PayInv, Locked, Live
      <4> QED
        BY <4>1
    <3>3. Cardinality(Asked) \in {0, 1}
      BY <3>2, FS_EmptySet, FS_Singleton
    <3> QED
      BY <3>1, <3>3 DEF OneUnderway
  <2>2. CASE Underway # {}
    <3>1. PICK h : h \in Underway
      BY <2>2
    <3>2. Underway = {h}
      BY <1>1, <3>1, OneTransaction
    <3>3. Asked = {}
      <4> SUFFICES ASSUME NEW a \in Asked PROVE FALSE
        OBVIOUS
      <4>1. a = chain.sent[h].attempt
        <5>1. a \in Live /\ chain.sent[h].attempt \in Live
          BY <3>1 DEF Live
        <5> QED
          BY <1>1, <5>1 DEF PayInv, Locked
      <4>2. h \in Hashes
        BY <3>1 DEF Underway
      <4> QED
        BY <1>1, <4>1, <4>2 DEF IInv, Once, Asked
    <3>4. Cardinality(Underway) = 1 /\ Cardinality(Asked) = 0
      BY <3>2, <3>3, FS_EmptySet, FS_Singleton
    <3> QED
      BY <3>4 DEF OneUnderway
  <2> QED
    BY <2>1, <2>2
<1> QED
  BY <1>1, PayAlways, OnePayer, PTL

=============================================================================
