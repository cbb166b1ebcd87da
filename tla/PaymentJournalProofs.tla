-------------------------- MODULE PaymentJournalProofs --------------------------
(***************************************************************************)
(* Proofs about PaymentJournal, for every number of tabs, of tabs that pay, *)
(* of payments and of faults.  The history can be trusted since every hash  *)
(* that is known anywhere, in the slot, a view or a poll that is not yet    *)
(* applied, is of a transaction with the Safe hash of the attempt (Sound).  *)
(***************************************************************************)
EXTENDS PaymentJournal, FiniteSetTheorems, SequenceTheorems, TLAPS

-----------------------------------------------------------------------------
(* The invariant.                                                           *)

(* The hash of i, if it is known, is of a transaction of sent that makes    *)
(* the payment of i.                                                        *)
Right(sent, i) ==
  i.hash > 0 => i.hash \in 1..Len(sent) /\ SameSafeHash(sent[i.hash].attempt, i.attempt)

Stores == [slot : Tracked, history : SUBSET Intents]

StoreSound(sent, st) == Right(sent, st.slot) /\ \A e \in st.history : Right(sent, e)

ViewSound(sent, v) ==
  /\ Right(sent, v.intent)
  /\ v.poll.result.hash # 0 =>
       /\ v.poll.current # NoIntent
       /\ Right(sent, [attempt |-> v.poll.current.attempt, hash |-> v.poll.result.hash])

(* The transaction the handler knows of is that of its request.             *)
HandlerSound(sent, hd) ==
  hd # NoHandler =>
    /\ hd.intent.hash = 0
    /\ hd.hash # 0 => /\ hd.hash \in 1..Len(sent)
                      /\ sent[hd.hash].attempt = hd.intent.attempt

Sound ==
  /\ StoreSound(chain.sent, storage)
  /\ \A t \in Tabs : ViewSound(chain.sent, views[t])
  /\ HandlerSound(chain.sent, handler)

(* The wallet sends a request once.                                         *)
Once ==
  /\ \A a \in chain.orphans : \A h \in Hashes : chain.sent[h].attempt # a
  /\ handler # NoHandler /\ handler.hash = 0 =>
       /\ handler.intent.attempt \notin chain.orphans
       /\ \A h \in Hashes : chain.sent[h].attempt # handler.intent.attempt

(* The history has what was sent and what may still be.                     *)
Recorded ==
  /\ \A a \in Asked : EntriesOf(storage.history, a) # {}
  /\ \A h \in Hashes : EntriesOf(storage.history, chain.sent[h].attempt) # {}

IInv == TypeOK /\ Sound /\ Once /\ Recorded

-----------------------------------------------------------------------------
(* Lemmas about the operators.                                              *)

LEMMA NoIntentFacts ==
  /\ NoIntent.hash = -1 /\ NoIntent \notin Intents /\ NoIntent \in Tracked
  /\ \A i \in Tracked : i # NoIntent => i \in Intents
  /\ \A i \in Intents : i.hash \in Nat /\ i.attempt \in Attempts
  /\ \A a \in Attempts, h \in Nat : [attempt |-> a, hash |-> h] \in Intents
  /\ \A sent : Right(sent, NoIntent)
BY DEF NoIntent, Tracked, Intents, Right

LEMMA NonceType == ASSUME TypeOK PROVE Nonce \in Nat
<1> DEFINE done == {h \in Hashes : chain.sent[h].status \in {"executed", "safe"}}
<1>1. Len(chain.sent) \in Nat /\ chain.elsewhere \in Nat
  BY DEF TypeOK
<1>2. IsFiniteSet(Hashes)
  BY <1>1, FS_Interval DEF Hashes
<1>3. IsFiniteSet(done)
  BY <1>2, FS_Subset
<1>4. Cardinality(done) \in Nat
  BY <1>3, FS_CardinalityType
<1> QED
  BY <1>1, <1>4 DEF Nonce

(* What a lookup finds is a transaction of the attempt.                     *)
LEMMA OutcomeSound ==
  ASSUME TypeOK, NEW i \in Tracked, Right(chain.sent, i)
  PROVE  /\ Outcome(i) \in Outcomes
         /\ Outcome(i).hash # 0 =>
              i \in Intents /\ Right(chain.sent, [attempt |-> i.attempt, hash |-> Outcome(i).hash])
<1>1. CASE i = NoIntent
  BY <1>1 DEF Outcome, Outcomes, Kinds
<1>2. CASE i # NoIntent /\ Found(i) = {}
  BY <1>2 DEF Outcome, Outcomes, Kinds
<1>3. CASE i # NoIntent /\ Found(i) # {}
  <2> DEFINE h == CHOOSE h \in Found(i) : TRUE
  <2>1. h \in Found(i)
    BY <1>3
  <2>2. i \in Intents /\ i.hash \in Nat
    BY <1>3, NoIntentFacts
  <2>3. Outcome(i) = [kind |-> KindOf(chain.sent[h].status), hash |-> h]
    BY <1>3 DEF Outcome
  <2> HIDE DEF h
  <2>4. h \in Hashes /\ SameSafeHash(chain.sent[h].attempt, i.attempt)
    BY <2>1, <2>2 DEF Found, Right, Hashes
  <2>5. h \in Nat
    BY <2>4 DEF Hashes
  <2>6. KindOf(chain.sent[h].status) \in Kinds
    BY DEF KindOf, Kinds
  <2> QED
    BY <2>2, <2>3, <2>4, <2>5, <2>6 DEF Outcomes, Right, Hashes
<1> QED
  BY <1>1, <1>2, <1>3

LEMMA RememberedFacts ==
  ASSUME NEW history, NEW i
  PROVE  /\ Remembered(history, i) \subseteq history \cup {i}
         /\ \A e \in history : e.hash # 0 => e \in Remembered(history, i)
         /\ \A a : EntriesOf(history, a) # {} => EntriesOf(Remembered(history, i), a) # {}
         /\ EntriesOf(Remembered(history, i), i.attempt) # {}
<1> DEFINE old   == EntriesOf(history, i.attempt)
           known == {e \in old : e.hash # 0}
           new   == Remembered(history, i)
<1>1. new = (history \ old) \cup (IF known # {} THEN known ELSE {i})
  BY DEF Remembered
<1>2. \A a : \A e : e \in EntriesOf(history, a) <=> e \in history /\ e.attempt = a
  BY DEF EntriesOf
<1>3. \A a : \A e : e \in EntriesOf(new, a) <=> e \in new /\ e.attempt = a
  BY DEF EntriesOf
<1>4. new \subseteq history \cup {i}
  BY <1>1, <1>2
<1>5. \A e \in history : e.hash # 0 => e \in new
  BY <1>1, <1>2
<1>6. EntriesOf(new, i.attempt) # {}
  <2>1. CASE known # {}
    <3>1. PICK e \in known : TRUE
      BY <2>1
    <3> QED
      BY <3>1, <2>1, <1>1, <1>2, <1>3
  <2>2. CASE known = {}
    BY <2>2, <1>1, <1>3
  <2> QED
    BY <2>1, <2>2
<1>7. \A a : EntriesOf(history, a) # {} => EntriesOf(new, a) # {}
  <2> SUFFICES ASSUME NEW a, EntriesOf(history, a) # {}
               PROVE  EntriesOf(new, a) # {}
    OBVIOUS
  <2>1. PICK e : e \in history /\ e.attempt = a
    BY <1>2
  <2>2. CASE a = i.attempt
    BY <2>2, <1>6
  <2>3. CASE a # i.attempt
    BY <2>1, <2>3, <1>1, <1>2, <1>3
  <2> QED
    BY <2>2, <2>3
<1> QED
  BY <1>4, <1>5, <1>6, <1>7

(* A store that remembers i, with x in its slot.                            *)
LEMMA StoreRemembers ==
  ASSUME NEW sent, NEW st \in Stores, StoreSound(sent, st),
         NEW i \in Intents, Right(sent, i), NEW x \in Tracked, Right(sent, x)
  PROVE  LET new == [slot |-> x, history |-> Remembered(st.history, i)]
         IN new \in Stores /\ StoreSound(sent, new)
BY RememberedFacts DEF Stores, StoreSound

(* What is right stays so when a transaction is added or changes its status.*)
LEMMA RightStays ==
  ASSUME NEW sent, NEW new, Len(sent) \in Nat, Len(new) \in Nat, Len(sent) <= Len(new),
         \A h \in 1..Len(sent) : new[h].attempt = sent[h].attempt,
         NEW i, Right(sent, i)
  PROVE  Right(new, i)
BY DEF Right, SameSafeHash

LEMMA SoundStays ==
  ASSUME NEW sent, NEW new, Len(sent) \in Nat, Len(new) \in Nat, Len(sent) <= Len(new),
         \A h \in 1..Len(sent) : new[h].attempt = sent[h].attempt
  PROVE  /\ \A st : StoreSound(sent, st) => StoreSound(new, st)
         /\ \A v : ViewSound(sent, v) => ViewSound(new, v)
<1>1. \A i : Right(sent, i) => Right(new, i)
  BY RightStays
<1> QED
  BY <1>1 DEF StoreSound, ViewSound

-----------------------------------------------------------------------------
(* The chain's steps, which change no attempt.                              *)

LEMMA StatusChanges ==
  ASSUME IInv, NEW h \in Hashes, NEW status \in Statuses, Becomes(h, status), faults' \in 0..MaxFaults
  PROVE  IInv'
<1>1. chain' = [chain EXCEPT !.sent[h].status = status] /\ UNCHANGED <<storage, views, handler>>
  BY DEF Becomes
<1>2. chain.sent \in Seq(Sent) /\ h \in 1..Len(chain.sent) /\ Len(chain.sent) \in Nat
  BY DEF IInv, TypeOK, Hashes
<1>3. chain.sent[h] \in Sent
  BY <1>2
<1>4. chain'.sent = [chain.sent EXCEPT ![h] = [@ EXCEPT !.status = status]]
  BY <1>1 DEF IInv, TypeOK
<1>5. [chain.sent[h] EXCEPT !.status = status] \in Sent
  BY <1>3 DEF Sent
<1>6. chain'.sent \in Seq(Sent) /\ Len(chain'.sent) = Len(chain.sent)
  BY <1>2, <1>4, <1>5
<1>7. \A k \in 1..Len(chain.sent) : chain'.sent[k].attempt = chain.sent[k].attempt
  BY <1>2, <1>3, <1>4 DEF Sent
<1>8. chain'.orphans = chain.orphans /\ chain'.block = chain.block /\ chain'.elsewhere = chain.elsewhere
  BY <1>1 DEF IInv, TypeOK
<1>9. chain' \in [sent : Seq(Sent), elsewhere : Nat, block : Nat, orphans : SUBSET Attempts]
  BY <1>1, <1>6, <1>8 DEF IInv, TypeOK
<1>10. TypeOK'
  BY <1>1, <1>9 DEF IInv, TypeOK
<1>11. Sound'
  <2>1. /\ \A st : StoreSound(chain.sent, st) => StoreSound(chain'.sent, st)
        /\ \A v : ViewSound(chain.sent, v) => ViewSound(chain'.sent, v)
    <3>1. /\ Len(chain.sent) \in Nat /\ Len(chain'.sent) \in Nat
          /\ Len(chain.sent) <= Len(chain'.sent)
      BY <1>2, <1>6
    <3> QED
      BY <3>1, <1>7, SoundStays
  <2>2. /\ StoreSound(chain.sent, storage) /\ HandlerSound(chain.sent, handler)
        /\ \A t \in Tabs : ViewSound(chain.sent, views[t])
    BY DEF IInv, Sound
  <2>3. storage' = storage /\ views' = views /\ handler' = handler
    BY <1>1
  <2>4. HandlerSound(chain'.sent, handler')
    <3>1. 1..Len(chain.sent) = 1..Len(chain'.sent)
      BY <1>6
    <3> QED
      BY <1>7, <2>2, <2>3, <3>1 DEF HandlerSound
  <2>5. StoreSound(chain'.sent, storage') /\ \A t \in Tabs : ViewSound(chain'.sent, views'[t])
    BY <2>1, <2>2, <2>3
  <2> QED
    BY <2>4, <2>5 DEF Sound
<1>12. Once'
  BY <1>1, <1>6, <1>7, <1>8 DEF IInv, Once, Hashes
<1>13. Recorded'
  <2>1. Asked' = Asked /\ Hashes' = Hashes
    BY <1>1, <1>6, <1>8 DEF Asked, Hashes
  <2>2. storage' = storage /\ \A k \in Hashes : chain'.sent[k].attempt = chain.sent[k].attempt
    BY <1>1, <1>7 DEF Hashes
  <2> QED
    BY <2>1, <2>2 DEF IInv, Recorded
<1> QED
  BY <1>10, <1>11, <1>12, <1>13 DEF IInv

LEMMA ChainSteps ==
  ASSUME IInv, JournalAssumption,
         Executes \/ Elsewhere \/ Reverts \/ Settles \/ Discards \/ RollsBack \/ NextBlock
  PROVE  IInv'
<1>1. {"executed", "safe", "reverted", "discarded", "queued"} \subseteq Statuses
  BY DEF Statuses
<1>2. faults \in 0..MaxFaults /\ MaxFaults \in Nat
  BY DEF IInv, TypeOK, JournalAssumption
<1>3. CASE Executes
  BY <1>1, <1>2, <1>3, StatusChanges DEF Executes
<1>4. CASE Reverts
  BY <1>1, <1>2, <1>4, StatusChanges DEF Reverts
<1>5. CASE Settles
  BY <1>1, <1>2, <1>5, StatusChanges DEF Settles
<1>6. CASE Discards
  BY <1>1, <1>2, <1>6, StatusChanges DEF Discards
<1>7. CASE RollsBack
  <2>1. faults' \in 0..MaxFaults
    BY <1>2, <1>7 DEF RollsBack
  <2> QED
    BY <1>1, <1>7, <2>1, StatusChanges DEF RollsBack
<1>8. ASSUME Elsewhere \/ NextBlock PROVE IInv'
  <2>1. UNCHANGED <<storage, views, handler>> /\ faults' \in 0..MaxFaults
    BY <1>2, <1>8 DEF Elsewhere, NextBlock
  <2>2. /\ chain'.sent = chain.sent /\ chain'.orphans = chain.orphans
        /\ chain' \in [sent : Seq(Sent), elsewhere : Nat, block : Nat, orphans : SUBSET Attempts]
    <3>1. CASE Elsewhere
      BY <3>1 DEF Elsewhere, IInv, TypeOK
    <3>2. CASE NextBlock
      BY <3>2 DEF NextBlock, IInv, TypeOK
    <3> QED
      BY <3>1, <3>2, <1>8
  <2>3. TypeOK' /\ Sound'
    BY <2>1, <2>2 DEF IInv, TypeOK, Sound
  <2>4. Once' /\ Recorded'
    BY <2>1, <2>2 DEF IInv, Once, Recorded, Asked, Hashes
  <2> QED
    BY <2>3, <2>4 DEF IInv
<1> QED
  BY <1>3, <1>4, <1>5, <1>6, <1>7, <1>8

(* What IInv says of a tab, and of storage.                                 *)
LEMMA Known ==
  ASSUME IInv
  PROVE  /\ storage \in Stores /\ StoreSound(chain.sent, storage)
         /\ storage.slot \in Tracked /\ Right(chain.sent, storage.slot)
         /\ storage.history \subseteq Intents
         /\ \A e \in storage.history : Right(chain.sent, e)
         /\ views \in [Tabs -> Views] /\ \A t \in Tabs : ViewSound(chain.sent, views[t])
         /\ \A t \in Tabs : /\ views[t] \in Views /\ views[t].intent \in Tracked
                           /\ views[t].poll \in Polls /\ views[t].outcome \in Kinds
                           /\ Right(chain.sent, views[t].intent)
         /\ handler \in Handlers \cup {NoHandler} /\ faults \in 0..MaxFaults
<1>1. /\ storage \in Stores /\ StoreSound(chain.sent, storage)
      /\ views \in [Tabs -> Views] /\ \A t \in Tabs : ViewSound(chain.sent, views[t])
      /\ handler \in Handlers \cup {NoHandler} /\ faults \in 0..MaxFaults
  BY DEF IInv, TypeOK, Sound, Stores
<1>2. \A t \in Tabs : /\ views[t] \in Views /\ views[t].intent \in Tracked
                    /\ views[t].poll \in Polls /\ views[t].outcome \in Kinds
                    /\ Right(chain.sent, views[t].intent)
  BY <1>1 DEF Views, ViewSound
<1> QED
  BY <1>1, <1>2 DEF Stores, StoreSound

(* A request that is sent was recorded before.                              *)
LEMMA SendsStep == ASSUME IInv, Sends PROVE IInv'
<1>1. chain.sent \in Seq(Sent) /\ Len(chain.sent) \in Nat
  BY DEF IInv, TypeOK
<1>2. PICK a \in Attempts :
        /\ chain'.sent = Append(chain.sent, Queued(a))
        /\ chain'.block = chain.block /\ chain'.elsewhere = chain.elsewhere
        /\ chain' \in [sent : Seq(Sent), elsewhere : Nat, block : Nat, orphans : SUBSET Attempts]
        /\ UNCHANGED <<storage, views, faults>>
        /\ a \in Asked
        /\ \/ /\ handler # NoHandler /\ handler.hash = 0 /\ a = handler.intent.attempt
              /\ chain'.orphans = chain.orphans
              /\ handler' = [handler EXCEPT !.hash = Len(chain.sent) + 1]
           \/ /\ a \in chain.orphans /\ chain'.orphans = chain.orphans \ {a}
              /\ handler' = handler
  <2>1. CASE /\ handler # NoHandler /\ handler.hash = 0
             /\ chain' = [chain EXCEPT !.sent = Append(@, Queued(handler.intent.attempt))]
             /\ handler' = [handler EXCEPT !.hash = Len(chain.sent) + 1]
             /\ UNCHANGED <<storage, views, faults>>
    <3> DEFINE a == handler.intent.attempt
    <3>1. a \in Attempts /\ a \in Asked
      BY <2>1 DEF IInv, TypeOK, Handlers, Intents, Asked
    <3>2. Queued(a) \in Sent
      BY <3>1 DEF Queued, Sent, Statuses
    <3>3. Append(chain.sent, Queued(a)) \in Seq(Sent)
      BY <1>1, <3>2
    <3>4. chain' = [chain EXCEPT !.sent = Append(chain.sent, Queued(a))]
      BY <2>1
    <3> HIDE DEF a
    <3>5. /\ chain'.sent = Append(chain.sent, Queued(a))
          /\ chain'.block = chain.block /\ chain'.elsewhere = chain.elsewhere
          /\ chain'.orphans = chain.orphans
          /\ chain' \in [sent : Seq(Sent), elsewhere : Nat, block : Nat, orphans : SUBSET Attempts]
      BY <3>3, <3>4 DEF IInv, TypeOK
    <3> QED
      BY <2>1, <3>1, <3>5 DEF a
  <2>2. ASSUME NEW a \in chain.orphans,
               chain' = [chain EXCEPT !.sent = Append(@, Queued(a)), !.orphans = @ \ {a}],
               UNCHANGED <<storage, views, handler, faults>>
        PROVE  /\ a \in Attempts /\ a \in Asked
               /\ chain'.sent = Append(chain.sent, Queued(a))
               /\ chain'.block = chain.block /\ chain'.elsewhere = chain.elsewhere
               /\ chain'.orphans = chain.orphans \ {a}
               /\ chain' \in [sent : Seq(Sent), elsewhere : Nat, block : Nat, orphans : SUBSET Attempts]
    <3>1. a \in Attempts /\ a \in Asked
      BY DEF IInv, TypeOK, Asked
    <3>2. Queued(a) \in Sent
      BY <3>1 DEF Queued, Sent, Statuses
    <3>3. Append(chain.sent, Queued(a)) \in Seq(Sent)
      BY <1>1, <3>2
    <3> QED
      BY <2>2, <3>1, <3>3 DEF IInv, TypeOK
  <2> QED
    BY <2>1, <2>2 DEF Sends
<1> DEFINE k == Len(chain.sent) + 1
<1>3. /\ Len(chain'.sent) = k /\ chain'.sent[k] = Queued(a)
      /\ \A h \in 1..Len(chain.sent) : chain'.sent[h] = chain.sent[h]
      /\ Hashes' = Hashes \cup {k} /\ k \notin Hashes /\ k > 0 /\ k \in Nat
  BY <1>1, <1>2 DEF Hashes
<1> HIDE DEF k
<1>4. \A h \in Hashes : chain.sent[h].attempt # a
  BY <1>2 DEF IInv, Once
<1>5. Queued(a).attempt = a
  BY DEF Queued
<1>6. /\ \A st : StoreSound(chain.sent, st) => StoreSound(chain'.sent, st)
       /\ \A v : ViewSound(chain.sent, v) => ViewSound(chain'.sent, v)
  <2>1. \A h \in 1..Len(chain.sent) : chain'.sent[h].attempt = chain.sent[h].attempt
    BY <1>3
  <2>2. Len(chain'.sent) \in Nat /\ Len(chain.sent) <= Len(chain'.sent)
    BY <1>1, <1>3 DEF k
  <2> QED
    BY <1>1, <2>1, <2>2, SoundStays
<1>7. handler' \in Handlers \cup {NoHandler} /\ HandlerSound(chain'.sent, handler')
  <2>1. CASE handler' = handler
    <3>1. HandlerSound(chain.sent, handler)
      BY DEF IInv, Sound
    <3>2. 1..Len(chain.sent) \subseteq 1..Len(chain'.sent)
      BY <1>1, <1>3 DEF k
    <3>3. HandlerSound(chain'.sent, handler)
      BY <3>1, <3>2, <1>3 DEF HandlerSound
    <3> QED
      BY <3>3, <2>1, Known
  <2>2. CASE /\ handler # NoHandler /\ handler.hash = 0 /\ a = handler.intent.attempt
             /\ handler' = [handler EXCEPT !.hash = k]
    <3>1. handler \in Handlers /\ handler.intent.hash = 0
      BY <2>2 DEF IInv, TypeOK, Sound, HandlerSound
    <3>2. handler' \in Handlers /\ handler'.hash = k /\ handler'.intent = handler.intent
      BY <2>2, <3>1, <1>3 DEF Handlers
    <3> QED
      BY <3>1, <3>2, <2>2, <1>3, <1>5 DEF HandlerSound, Hashes
  <2> QED
    BY <1>2, <2>1, <2>2 DEF k
<1>8. TypeOK'
  BY <1>2, <1>7 DEF IInv, TypeOK
<1>9. Sound'
  BY <1>2, <1>6, <1>7 DEF IInv, Sound
<1>10. Once'
  <2>1. handler' # NoHandler /\ handler'.hash = 0 => handler' = handler /\ a \in chain.orphans
    <3>1. handler # NoHandler => handler \in Handlers
      BY DEF IInv, TypeOK
    <3> QED
      BY <1>2, <1>3, <3>1 DEF Handlers, k
  <2>2. a \in chain.orphans /\ handler # NoHandler /\ handler.hash = 0 => handler.intent.attempt # a
    BY DEF IInv, Once
  <2>3. a \notin chain'.orphans /\ chain'.orphans \subseteq chain.orphans
    BY <1>2 DEF IInv, Once
  <2> QED
    BY <1>3, <1>5, <2>1, <2>2, <2>3 DEF IInv, Once, Hashes
<1>11. Recorded'
  <2>1. EntriesOf(storage.history, a) # {}
    BY <1>2 DEF IInv, Recorded
  <2>2. Asked' \subseteq Asked
    <3>1. handler' # NoHandler /\ handler'.hash = 0 => handler' = handler
      <4>1. handler # NoHandler => handler \in Handlers
        BY DEF IInv, TypeOK
      <4> QED
        BY <1>2, <1>3, <4>1 DEF Handlers, k
    <3> QED
      BY <1>2, <3>1 DEF Asked
  <2> QED
    BY <1>2, <1>3, <1>5, <2>1, <2>2 DEF IInv, Recorded, Hashes
<1> QED
  BY <1>8, <1>9, <1>10, <1>11 DEF IInv

-----------------------------------------------------------------------------
(* The steps of the tabs, which leave what was sent as it is.               *)

(* What such a step must show: views and handler stay typed and sound, and  *)
(* storage remembers, at most drops a request that was never sent.          *)
LEMMA TabSteps ==
  ASSUME IInv, UNCHANGED chain, faults' \in 0..MaxFaults,
         storage' \in Stores, StoreSound(chain.sent, storage'),
         views' \in [Tabs -> Views], \A t \in Tabs : ViewSound(chain.sent, views'[t]),
         handler' \in {handler, NoHandler},
         \A a \in Asked' : EntriesOf(storage'.history, a) # {},
         \A h \in Hashes : EntriesOf(storage'.history, chain.sent[h].attempt) # {}
  PROVE  IInv'
<1>1. TypeOK'
  BY DEF IInv, TypeOK, Stores
<1>2. Sound'
  BY DEF IInv, Sound, HandlerSound
<1>3. Once'
  BY DEF IInv, Once, Hashes
<1>4. Recorded'
  BY DEF Recorded, Hashes
<1> QED
  BY <1>1, <1>2, <1>3, <1>4 DEF IInv

(* The entries of a store that is left alone, or only remembers.            *)
KeepsEntries == \A a : EntriesOf(storage.history, a) # {} => EntriesOf(storage'.history, a) # {}

LEMMA KeepingSteps ==
  ASSUME IInv, UNCHANGED chain, faults' \in 0..MaxFaults,
         storage' \in Stores, StoreSound(chain.sent, storage'), KeepsEntries,
         views' \in [Tabs -> Views], \A t \in Tabs : ViewSound(chain.sent, views'[t]),
         handler' \in {handler, NoHandler}
  PROVE  IInv'
<1>1. Asked' \subseteq Asked
  BY DEF Asked
<1>2. \A a \in Asked' : EntriesOf(storage'.history, a) # {}
  BY <1>1 DEF IInv, Recorded, KeepsEntries
<1>3. \A h \in Hashes : EntriesOf(storage'.history, chain.sent[h].attempt) # {}
  BY DEF IInv, Recorded, KeepsEntries
<1> QED
  BY <1>2, <1>3, TabSteps

(* What became of storage in most handlers: nothing, or it remembers i.     *)
Remembers(i, slot) ==
  storage' = [slot |-> slot, history |-> Remembered(storage.history, i)]

LEMMA RememberingStore ==
  ASSUME IInv, NEW i \in Intents, Right(chain.sent, i),
         NEW x \in Tracked, Right(chain.sent, x), Remembers(i, x)
  PROVE  storage' \in Stores /\ StoreSound(chain.sent, storage') /\ KeepsEntries
<1>1. storage' \in Stores /\ StoreSound(chain.sent, storage')
  BY Known, StoreRemembers DEF Remembers
<1>2. storage'.history = Remembered(storage.history, i)
  BY DEF Remembers
<1> QED
  BY <1>1, <1>2, RememberedFacts DEF KeepsEntries

LEMMA SameStore ==
  ASSUME IInv, storage' = storage
  PROVE  storage' \in Stores /\ StoreSound(chain.sent, storage') /\ KeepsEntries
BY Known DEF KeepsEntries

(* Views with one of them replaced.                                         *)
LEMMA OneView ==
  ASSUME IInv, NEW t \in Tabs, NEW v \in Views, ViewSound(chain.sent, v),
         views' = [views EXCEPT ![t] = v]
  PROVE  views' \in [Tabs -> Views] /\ \A u \in Tabs : ViewSound(chain.sent, views'[u])
BY Known

LEMMA MountsStep ==
  ASSUME IInv, NEW t \in Tabs, Mounts(t)
  PROVE  /\ storage' \in Stores /\ StoreSound(chain.sent, storage') /\ KeepsEntries
         /\ views' \in [Tabs -> Views] /\ \A u \in Tabs : ViewSound(chain.sent, views'[u])
<1> DEFINE v == [Closed EXCEPT !.open = TRUE, !.intent = storage.slot]
<1>1. v \in Views /\ ViewSound(chain.sent, v)
  BY Known, NoIntentFacts
  DEF Views, Closed, Polls, NoPoll, Outcomes, Kinds, NoReview, ViewSound
<1>2. views' = [views EXCEPT ![t] = v]
  BY DEF Mounts
<1> HIDE DEF v
<1>3. storage' = storage \/ (storage.slot # NoIntent /\ Remembers(storage.slot, storage.slot))
  BY Known DEF Mounts, Remembers, Stores
<1>4. storage' \in Stores /\ StoreSound(chain.sent, storage') /\ KeepsEntries
  BY <1>3, Known, NoIntentFacts, SameStore, RememberingStore
<1> QED
  BY <1>1, <1>2, <1>4, OneView

LEMMA OpensStep == ASSUME IInv, NEW t \in Tabs, Opens(t) PROVE IInv'
<1>1. UNCHANGED <<handler, chain, faults>> /\ Mounts(t)
  BY DEF Opens
<1> QED
  BY <1>1, MountsStep, KeepingSteps, Known

LEMMA RemountsStep == ASSUME IInv, NEW t \in Tabs, Remounts(t) PROVE IInv'
<1>1. UNCHANGED <<chain, faults>> /\ Mounts(t) /\ handler # NoHandler
      /\ handler' = [handler EXCEPT !.mounted = FALSE]
  BY DEF Remounts
<1>2. handler \in Handlers
  BY <1>1, Known
<1>3. /\ handler' \in Handlers /\ handler'.intent = handler.intent /\ handler'.hash = handler.hash
  BY <1>1, <1>2 DEF Handlers
<1>4. /\ storage' \in Stores /\ StoreSound(chain.sent, storage') /\ KeepsEntries
      /\ views' \in [Tabs -> Views] /\ \A u \in Tabs : ViewSound(chain.sent, views'[u])
  BY <1>1, MountsStep
<1>5. handler' # NoHandler
  BY <1>1, <1>2 DEF Handlers, NoHandler
<1>6. TypeOK'
  BY <1>1, <1>3, <1>4 DEF IInv, TypeOK, Stores
<1>7. Sound'
  BY <1>1, <1>3, <1>4, <1>5 DEF IInv, Sound, HandlerSound
<1>8. Once'
  BY <1>1, <1>3 DEF IInv, Once, Hashes
<1>9. Recorded'
  <2>1. Asked' = Asked
    BY <1>1, <1>3, <1>5 DEF Asked
  <2> QED
    BY <1>1, <1>4, <2>1 DEF IInv, Recorded, KeepsEntries, Hashes
<1> QED
  BY <1>6, <1>7, <1>8, <1>9 DEF IInv

(* The handler ends, and the wallet may still send its request.             *)
LEMMA Orphaned ==
  ASSUME IInv, handler # NoHandler, handler' = NoHandler, storage' = storage,
         faults' \in 0..MaxFaults,
         chain' = IF handler.hash = 0
                  THEN [chain EXCEPT !.orphans = @ \cup {handler.intent.attempt}] ELSE chain,
         views' \in [Tabs -> Views], \A t \in Tabs : ViewSound(chain.sent, views'[t])
  PROVE  IInv'
<1>1. handler \in Handlers /\ handler.intent.attempt \in Attempts
  BY Known DEF Handlers, Intents
<1>2. /\ chain'.sent = chain.sent
      /\ chain' \in [sent : Seq(Sent), elsewhere : Nat, block : Nat, orphans : SUBSET Attempts]
      /\ chain'.orphans = chain.orphans \cup (IF handler.hash = 0 THEN {handler.intent.attempt} ELSE {})
  BY <1>1 DEF IInv, TypeOK
<1>3. TypeOK' /\ Sound'
  BY <1>2 DEF IInv, TypeOK, Sound, HandlerSound
<1>4. Once'
  BY <1>2 DEF IInv, Once, Hashes
<1>5. Asked' = Asked
  BY <1>2 DEF Asked
<1>6. Recorded'
  BY <1>2, <1>5 DEF IInv, Recorded, Hashes
<1> QED
  BY <1>3, <1>4, <1>6 DEF IInv

LEMMA ClosesStep ==
  ASSUME IInv, JournalAssumption, NEW t \in Tabs, Closes(t) PROVE IInv'
<1>1. /\ views' = [views EXCEPT ![t] = Closed] /\ storage' = storage
      /\ faults < MaxFaults /\ faults' = faults + 1
  BY DEF Closes
<1>2. faults' \in 0..MaxFaults
  BY <1>1, Known DEF JournalAssumption
<1>3. Closed \in Views /\ ViewSound(chain.sent, Closed)
  BY NoIntentFacts DEF Closed, Views, Polls, NoPoll, Outcomes, Kinds, ViewSound
<1>4. views' \in [Tabs -> Views] /\ \A u \in Tabs : ViewSound(chain.sent, views'[u])
  BY <1>1, <1>3, OneView
<1>5. CASE handler # NoHandler /\ handler.tab = t
  BY <1>1, <1>2, <1>4, <1>5, Orphaned DEF Closes
<1>6. CASE ~(handler # NoHandler /\ handler.tab = t)
  BY <1>1, <1>2, <1>4, <1>6, KeepingSteps, SameStore DEF Closes
<1> QED
  BY <1>5, <1>6

LEMMA UncertainStep == ASSUME IInv, JournalAssumption, Uncertain PROVE IInv'
<1>1. faults' \in 0..MaxFaults
  BY Known DEF Uncertain, JournalAssumption
<1>2. views' \in [Tabs -> Views] /\ \A t \in Tabs : ViewSound(chain.sent, views'[t])
  BY Known DEF Uncertain
<1> QED
  BY <1>1, <1>2, Orphaned DEF Uncertain

LEMMA ReviewingStep == ASSUME IInv, NEW t \in Tabs, Reviewing(t) PROVE IInv'
<1>1. PICK review \in {NoReview} \cup [payment : Payments, nonce : {Nonce}] :
        views' = [views EXCEPT ![t].review = review, ![t].intent = NoIntent,
                               ![t].outcome = IF views[t].intent = NoIntent THEN @ ELSE "none"]
  BY DEF Reviewing
<1> DEFINE v == [views[t] EXCEPT !.review = review, !.intent = NoIntent,
                    !.outcome = IF views[t].intent = NoIntent THEN @ ELSE "none"]
<1>2. review \in Reviews \cup {NoReview}
  BY NonceType DEF IInv, Reviews
<1>3. v \in Views /\ ViewSound(chain.sent, v)
  BY <1>2, Known, NoIntentFacts DEF Views, Kinds, ViewSound
<1>4. views' = [views EXCEPT ![t] = v]
  BY <1>1, Known
<1> HIDE DEF v
<1>5. views' \in [Tabs -> Views] /\ \A u \in Tabs : ViewSound(chain.sent, views'[u])
  BY <1>3, <1>4, OneView
<1>6. storage' \in Stores /\ StoreSound(chain.sent, storage') /\ KeepsEntries
  <2>1. storage' = storage \/ storage' = [storage EXCEPT !.slot = NoIntent]
    BY DEF Reviewing
  <2> QED
    BY <2>1, Known, NoIntentFacts, SameStore DEF Stores, StoreSound, KeepsEntries
<1> QED
  BY <1>5, <1>6, Known, KeepingSteps DEF Reviewing

LEMMA SubmittingStep == ASSUME IInv, NEW t \in Tabs, Submitting(t) PROVE IInv'
<1> DEFINE a == [payment |-> views[t].review.payment, nonce |-> Nonce, block |-> chain.block]
           i == [attempt |-> a, hash |-> 0]
<1>1. a \in Attempts
  <2>1. views[t].review \in Reviews
    BY Known DEF Submitting, Views
  <2>2. chain.block \in Nat
    BY DEF IInv, TypeOK
  <2> QED
    BY <2>1, <2>2, NonceType DEF IInv, Reviews, Attempts
<1>2. /\ Fresh(a) /\ handler = NoHandler
      /\ storage' = [slot |-> i, history |-> Remembered(storage.history, i)]
      /\ views' = [views EXCEPT ![t].intent = i, ![t].outcome = "unknown"]
      /\ handler' = [tab |-> t, intent |-> i, hash |-> 0, mounted |-> TRUE]
      /\ UNCHANGED <<chain, faults>>
  BY DEF Submitting
<1> HIDE DEF a
<1>3. i \in Intents /\ Right(chain.sent, i) /\ i.attempt = a /\ i.hash = 0
  BY <1>1 DEF Intents, Right
<1> HIDE DEF i
<1>4. storage' \in Stores /\ StoreSound(chain.sent, storage') /\ KeepsEntries
  BY <1>2, <1>3, RememberingStore DEF Remembers, Tracked
<1>5. EntriesOf(storage'.history, a) # {}
  BY <1>2, <1>3, RememberedFacts
<1>6. views' \in [Tabs -> Views] /\ \A u \in Tabs : ViewSound(chain.sent, views'[u])
  <2> DEFINE v == [views[t] EXCEPT !.intent = i, !.outcome = "unknown"]
  <2>1. v \in Views /\ ViewSound(chain.sent, v)
    BY <1>3, Known DEF Views, Kinds, Tracked, ViewSound
  <2>2. views' = [views EXCEPT ![t] = v]
    BY <1>2, Known
  <2> HIDE DEF v
  <2> QED
    BY <2>1, <2>2, OneView
<1>7. /\ handler' \in Handlers /\ handler' # NoHandler
      /\ handler'.intent = i /\ handler'.hash = 0
  BY <1>2, <1>3 DEF Handlers, NoHandler
<1>8. TypeOK'
  BY <1>2, <1>4, <1>6, <1>7 DEF IInv, TypeOK, Stores
<1>9. Sound'
  BY <1>2, <1>3, <1>4, <1>6, <1>7 DEF Sound, HandlerSound
<1>10. Once'
  BY <1>2, <1>3, <1>7 DEF IInv, Once, Fresh, Hashes
<1>11. Recorded'
  <2>1. Asked' = chain.orphans \cup {a} /\ Asked = chain.orphans
    BY <1>2, <1>3, <1>7 DEF Asked
  <2> QED
    BY <1>2, <1>4, <1>5, <2>1 DEF IInv, Recorded, KeepsEntries, Hashes
<1> QED
  BY <1>8, <1>9, <1>10, <1>11 DEF IInv

LEMMA InViewStep ==
  ASSUME IInv, handler # NoHandler, NEW i \in Tracked, Right(chain.sent, i),
         NEW o \in Kinds, InView(i, o) \/ views' = views
  PROVE  views' \in [Tabs -> Views] /\ \A u \in Tabs : ViewSound(chain.sent, views'[u])
<1>1. CASE views' = views
  BY <1>1, Known
<1>2. CASE views' # views
  <2> DEFINE t == handler.tab
             v == [views[t] EXCEPT !.intent = i, !.outcome = o]
  <2>1. t \in Tabs
    BY Known DEF Handlers
  <2>2. views' = [views EXCEPT ![t].intent = i, ![t].outcome = o]
    BY <1>2 DEF InView
  <2>3. v \in Views /\ ViewSound(chain.sent, v)
    BY <2>1, Known DEF Views, ViewSound
  <2>4. views' = [views EXCEPT ![t] = v]
    BY <2>1, <2>2, Known
  <2> HIDE DEF t, v
  <2> QED
    BY <2>1, <2>3, <2>4, OneView
<1> QED
  BY <1>1, <1>2

LEMMA AnsweredStep == ASSUME IInv, Answered PROVE IInv'
<1> DEFINE i == [attempt |-> handler.intent.attempt, hash |-> handler.hash]
<1>1. /\ handler # NoHandler /\ handler.hash # 0 /\ handler' = NoHandler
      /\ UNCHANGED <<chain, faults>>
      /\ \/ Remembers(i, i) /\ InView(i, "pending")
         \/ UNCHANGED <<storage, views>>
  BY DEF Answered, Remembers
<1>2. handler \in Handlers
  BY <1>1, Known
<1>3. i \in Intents /\ Right(chain.sent, i)
  <2>1. handler.hash \in 1..Len(chain.sent) /\ chain.sent[handler.hash].attempt = handler.intent.attempt
    BY <1>1 DEF IInv, Sound, HandlerSound
  <2> QED
    BY <1>2, <2>1 DEF Handlers, Intents, Right, SameSafeHash
<1> HIDE DEF i
<1>4. storage' \in Stores /\ StoreSound(chain.sent, storage') /\ KeepsEntries
  BY <1>1, <1>3, RememberingStore, SameStore DEF Tracked
<1>5. "pending" \in Kinds
  BY DEF Kinds
<1>6. views' \in [Tabs -> Views] /\ \A u \in Tabs : ViewSound(chain.sent, views'[u])
  BY <1>1, <1>3, <1>5, InViewStep DEF Tracked
<1> QED
  BY <1>1, <1>4, <1>6, Known, KeepingSteps

(* A request that is declined is neither sent nor asked of the wallet.      *)
LEMMA DeclinedStep == ASSUME IInv, Declined PROVE IInv'
<1> DEFINE a == handler.intent.attempt
           rest == storage.history \ EntriesOf(storage.history, a)
<1>1. /\ handler # NoHandler /\ handler.hash = 0 /\ handler' = NoHandler
      /\ UNCHANGED <<chain, faults>>
      /\ \/ storage' = [slot |-> NoIntent, history |-> rest] /\ InView(NoIntent, "none")
         \/ UNCHANGED <<storage, views>>
  BY DEF Declined
<1>2. storage' \in Stores /\ StoreSound(chain.sent, storage')
  BY <1>1, Known, NoIntentFacts DEF Stores, StoreSound
<1>3. "none" \in Kinds
  BY DEF Kinds
<1>4. views' \in [Tabs -> Views] /\ \A u \in Tabs : ViewSound(chain.sent, views'[u])
  BY <1>1, <1>3, NoIntentFacts, InViewStep
<1>5. \A b : b # a /\ EntriesOf(storage.history, b) # {} => EntriesOf(storage'.history, b) # {}
  <2>1. storage'.history = storage.history \/ storage'.history = rest
    BY <1>1
  <2>2. \A b : b # a => EntriesOf(rest, b) = EntriesOf(storage.history, b)
    BY DEF EntriesOf
  <2> QED
    BY <2>1, <2>2
<1>6. a \notin Asked' /\ Asked' \subseteq Asked /\ \A h \in Hashes : chain.sent[h].attempt # a
  BY <1>1 DEF IInv, Once, Asked
<1> HIDE DEF a, rest
<1>7. \A b \in Asked' : EntriesOf(storage'.history, b) # {}
  BY <1>5, <1>6 DEF IInv, Recorded
<1>8. \A h \in Hashes : EntriesOf(storage'.history, chain.sent[h].attempt) # {}
  BY <1>5, <1>6 DEF IInv, Recorded
<1> QED
  BY <1>1, <1>2, <1>4, <1>7, <1>8, Known, TabSteps

LEMMA PollReadsStep == ASSUME IInv, NEW t \in Tabs, PollReads(t) PROVE IInv'
<1> DEFINE i == views[t].intent
           v == [views[t] EXCEPT !.poll = [on |-> TRUE, current |-> i, result |-> Outcome(i)],
                    !.review = IF i = NoIntent /\ @.nonce # Nonce THEN NoReview ELSE @]
<1>1. UNCHANGED <<storage, handler, chain, faults>> /\ views' = [views EXCEPT ![t] = v]
  BY Known DEF PollReads
<1>2. i \in Tracked /\ Right(chain.sent, i)
  BY Known
<1>3. /\ Outcome(i) \in Outcomes
      /\ Outcome(i).hash # 0 =>
           i \in Intents /\ Right(chain.sent, [attempt |-> i.attempt, hash |-> Outcome(i).hash])
  BY <1>2, OutcomeSound DEF IInv
<1>4. [on |-> TRUE, current |-> i, result |-> Outcome(i)] \in Polls
  BY <1>2, <1>3 DEF Polls
<1>5. v \in Views
  BY <1>4, Known DEF Views
<1>6. ViewSound(chain.sent, v)
  <2>1. v.intent = i /\ v.poll = [on |-> TRUE, current |-> i, result |-> Outcome(i)]
    BY Known DEF Views
  <2> QED
    BY <1>2, <1>3, <2>1, NoIntentFacts DEF ViewSound
<1> HIDE DEF i, v
<1>7. views' \in [Tabs -> Views] /\ \A u \in Tabs : ViewSound(chain.sent, views'[u])
  BY <1>1, <1>5, <1>6, OneView
<1> QED
  BY <1>1, <1>7, Known, SameStore, KeepingSteps

LEMMA CaughtStep ==
  ASSUME IInv, NEW t \in Tabs, Caught(t)
  PROVE  /\ storage' \in Stores /\ StoreSound(chain.sent, storage') /\ KeepsEntries
         /\ views' \in [Tabs -> Views] /\ \A u \in Tabs : ViewSound(chain.sent, views'[u])
<1> DEFINE i == views[t].intent
           v == [views[t] EXCEPT !.poll = NoPoll,
                                 !.outcome = IF i = NoIntent THEN @ ELSE "unknown"]
<1>1. views' = [views EXCEPT ![t] = v]
  BY Known DEF Caught
<1>2. v \in Views /\ ViewSound(chain.sent, v)
  BY Known, NoIntentFacts DEF Views, Polls, NoPoll, Outcomes, Kinds, ViewSound
<1>3. storage' = storage \/ (i # NoIntent /\ Remembers(i, i))
  BY DEF Caught, Remembers
<1>4. i \in Tracked /\ Right(chain.sent, i)
  BY Known
<1> HIDE DEF i, v
<1>5. storage' \in Stores /\ StoreSound(chain.sent, storage') /\ KeepsEntries
  BY <1>3, <1>4, NoIntentFacts, SameStore, RememberingStore
<1> QED
  BY <1>1, <1>2, <1>5, OneView

LEMMA PollFailsStep == ASSUME IInv, JournalAssumption, NEW t \in Tabs, PollFails(t) PROVE IInv'
<1>1. faults' \in 0..MaxFaults /\ Caught(t) /\ UNCHANGED <<handler, chain>>
  BY Known DEF PollFails, JournalAssumption
<1> QED
  BY <1>1, CaughtStep, KeepingSteps

LEMMA PollAppliesStep == ASSUME IInv, NEW t \in Tabs, PollApplies(t) PROVE IInv'
<1> DEFINE v       == views[t]
           result  == v.poll.result
           tracked == IF result.hash # 0 THEN [v.intent EXCEPT !.hash = result.hash] ELSE v.intent
           idle    == [v EXCEPT !.poll = NoPoll]
           none    == [v EXCEPT !.poll = NoPoll, !.outcome = "none"]
           slot    == IF result.kind \in Terminal THEN NoIntent ELSE tracked
           applied == [v EXCEPT !.poll = NoPoll, !.intent = tracked, !.outcome = result.kind,
                                !.review = IF result.kind \in Terminal THEN NoReview ELSE @]
<1>1. /\ UNCHANGED <<handler, chain, faults>>
      /\ \/ storage' = storage /\ views' = [views EXCEPT ![t] = idle]
         \/ storage' = storage /\ views' = [views EXCEPT ![t] = none]
         \/ /\ v.poll.current = v.intent /\ v.intent # NoIntent
            /\ Remembers(tracked, slot) /\ views' = [views EXCEPT ![t] = applied]
         \/ Caught(t)
  BY Known DEF PollApplies, Remembers
<1>2. idle \in Views /\ ViewSound(chain.sent, idle) /\ none \in Views /\ ViewSound(chain.sent, none)
  BY Known, NoIntentFacts DEF Views, Polls, NoPoll, Outcomes, Kinds, ViewSound
<1>3. ASSUME v.poll.current = v.intent, v.intent # NoIntent
      PROVE  /\ tracked \in Intents /\ Right(chain.sent, tracked)
             /\ applied \in Views /\ ViewSound(chain.sent, applied)
  <2>1. v.intent \in Intents /\ result \in Outcomes /\ result.hash \in Nat /\ result.kind \in Kinds
    BY <1>3, Known, NoIntentFacts DEF Polls, Outcomes
  <2>2. tracked \in Intents
    BY <2>1 DEF Intents
  <2>3. Right(chain.sent, tracked)
    <3>1. CASE result.hash = 0
      BY <3>1, Known
    <3>2. CASE result.hash # 0
      <4>1. Right(chain.sent, [attempt |-> v.intent.attempt, hash |-> result.hash])
        BY <1>3, <3>2, Known DEF ViewSound
      <4>2. tracked = [attempt |-> v.intent.attempt, hash |-> result.hash]
        BY <2>1, <3>2 DEF Intents
      <4> QED
        BY <4>1, <4>2
    <3> QED
      BY <3>1, <3>2
  <2> HIDE DEF tracked, result
  <2>4. v \in Views /\ tracked \in Tracked
    BY <2>2, Known DEF Tracked
  <2>5. NoPoll \in Polls /\ NoPoll.result.hash = 0
    BY NoIntentFacts DEF NoPoll, Polls, Outcomes, Kinds
  <2> HIDE DEF v
  <2>6. /\ applied \in Views /\ applied.intent = tracked /\ applied.poll = NoPoll
    BY <2>1, <2>4, <2>5 DEF Views
  <2>7. ViewSound(chain.sent, applied)
    BY <2>3, <2>5, <2>6 DEF ViewSound
  <2> QED
    BY <2>2, <2>3, <2>6, <2>7
<1> HIDE DEF v, result, tracked, idle, none, applied
<1>4. CASE storage' = storage /\ views' = [views EXCEPT ![t] = idle]
  BY <1>1, <1>2, <1>4, OneView, SameStore, Known, KeepingSteps
<1>5. CASE storage' = storage /\ views' = [views EXCEPT ![t] = none]
  BY <1>1, <1>2, <1>5, OneView, SameStore, Known, KeepingSteps
<1>6. CASE /\ v.poll.current = v.intent /\ v.intent # NoIntent
           /\ Remembers(tracked, slot) /\ views' = [views EXCEPT ![t] = applied]
  <2>1. slot \in Tracked /\ Right(chain.sent, slot)
    BY <1>3, <1>6, NoIntentFacts DEF Tracked
  <2>2. storage' \in Stores /\ StoreSound(chain.sent, storage') /\ KeepsEntries
    BY <1>3, <1>6, <2>1, RememberingStore
  <2> QED
    BY <1>1, <1>3, <1>6, <2>2, OneView, Known, KeepingSteps
<1>7. CASE Caught(t)
  BY <1>1, <1>7, CaughtStep, Known, KeepingSteps
<1> QED
  BY <1>1, <1>4, <1>5, <1>6, <1>7

LEMMA HistoryFindsStep == ASSUME IInv, NEW t \in Tabs, HistoryFinds(t) PROVE IInv'
<1>1. PICK e \in storage.history :
        /\ [e EXCEPT !.hash = Outcome(e).hash] # e
        /\ storage' = [storage EXCEPT !.history = Remembered(@, [e EXCEPT !.hash = Outcome(e).hash])]
        /\ UNCHANGED <<views, handler, chain, faults>>
  BY DEF HistoryFinds
<1> DEFINE i == [e EXCEPT !.hash = Outcome(e).hash]
<1>2. e \in Intents /\ Right(chain.sent, e)
  BY Known
<1>3. /\ Outcome(e) \in Outcomes
      /\ Outcome(e).hash # 0 =>
           Right(chain.sent, [attempt |-> e.attempt, hash |-> Outcome(e).hash])
  BY <1>2, OutcomeSound DEF IInv, Tracked
<1>4. i = [attempt |-> e.attempt, hash |-> Outcome(e).hash]
  BY <1>2 DEF Intents
<1>5. i \in Intents /\ Right(chain.sent, i)
  BY <1>2, <1>3, <1>4 DEF Intents, Outcomes, Right
<1>6. storage' = [slot |-> storage.slot, history |-> Remembered(storage.history, i)]
  BY <1>1, Known DEF Stores
<1> HIDE DEF i
<1>7. storage' \in Stores /\ StoreSound(chain.sent, storage') /\ KeepsEntries
  BY <1>5, <1>6, Known, RememberingStore DEF Remembers
<1> QED
  BY <1>1, <1>7, Known, KeepingSteps

-----------------------------------------------------------------------------
(* The theorems.                                                            *)

LEMMA InitSound == ASSUME JournalAssumption, Init PROVE IInv
<1>1. chain.sent = <<>> /\ Len(chain.sent) = 0 /\ Hashes = {} /\ Asked = {}
  BY DEF Init, Hashes, Asked
<1>2. Closed \in Views /\ \A sent : ViewSound(sent, Closed)
  BY NoIntentFacts DEF Closed, Views, Polls, NoPoll, Outcomes, Kinds, ViewSound
<1>3. TypeOK
  <2>1. <<>> \in Seq(Sent) /\ 0 \in 0..MaxFaults
    BY DEF JournalAssumption
  <2> QED
    BY <1>2, <2>1, NoIntentFacts DEF Init, TypeOK
<1>4. Sound
  BY <1>2, NoIntentFacts DEF Init, Sound, StoreSound, HandlerSound
<1>5. Once /\ Recorded
  BY <1>1 DEF Init, Once, Recorded
<1> QED
  BY <1>3, <1>4, <1>5 DEF IInv

LEMMA Preserved == ASSUME JournalAssumption, IInv, [Next]_vars PROVE IInv'
<1>1. CASE UNCHANGED vars
  BY <1>1
  DEF vars, IInv, TypeOK, Sound, Once, Recorded, Asked, Hashes
<1>2. CASE Next
  BY <1>2, ChainSteps, SendsStep, AnsweredStep, DeclinedStep, UncertainStep,
     OpensStep, RemountsStep, ClosesStep, ReviewingStep, SubmittingStep,
     PollReadsStep, PollFailsStep, PollAppliesStep, HistoryFindsStep
  DEF Next
<1> QED
  BY <1>1, <1>2

THEOREM Invariant == Spec => []IInv
<1>1. Init => IInv
  BY InitSound, JournalAssumption
<1>2. IInv /\ [Next]_vars => IInv'
  BY Preserved, JournalAssumption
<1> QED
  BY <1>1, <1>2, PTL DEF Spec

(* Slot, history, views, polls and the wallet's requests keep their types,  *)
(* whatever the tabs do to each other.                                      *)
THEOREM TypeCorrect == Spec => []TypeOK
<1>1. IInv => TypeOK
  BY DEF IInv
<1> QED
  BY <1>1, Invariant, PTL

(* Every request that was sent is in the history, and a hash in the history *)
(* is of a transaction that makes the payment of its entry.                 *)
THEOREM HistoryIsComplete == Spec => []HistoryHas
<1>1. IInv => HistoryHas
  <2> SUFFICES ASSUME IInv PROVE HistoryHas
    OBVIOUS
  <2>1. \A h \in Hashes : EntriesOf(storage.history, chain.sent[h].attempt) # {}
    BY DEF IInv, Recorded
  <2>2. \A e \in storage.history : e.hash \in Nat /\ Right(chain.sent, e)
    BY Known, NoIntentFacts
  <2> QED
    BY <2>1, <2>2 DEF HistoryHas, Right, Hashes
<1> QED
  BY <1>1, Invariant, PTL

(* No handler, of whatever tab, changes or drops a hash that is known.      *)
THEOREM HashesStay == Spec => HashesKept
<1> DEFINE Kept == \A e \in storage.history : e.hash # 0 => e \in storage'.history
<1>1. ASSUME storage \in Stores, [Next]_vars PROVE Kept
  <2>1. CASE storage'.history = storage.history
    BY <2>1
  <2>2. CASE \E i : storage'.history = Remembered(storage.history, i)
    BY <2>2, RememberedFacts
  <2>3. CASE Declined
    BY <2>3 DEF Declined, MayCancel, EntriesOf
  <2>4. \/ storage'.history = storage.history
        \/ \E i : storage'.history = Remembered(storage.history, i)
        \/ Declined
    <3>1. CASE UNCHANGED vars
      BY <3>1 DEF vars
    <3>2. CASE Executes \/ Elsewhere \/ Reverts \/ Settles \/ Discards \/ RollsBack \/ NextBlock
      BY <3>2 DEF Executes, Elsewhere, Reverts, Settles, Discards, RollsBack, NextBlock, Becomes
    <3>3. CASE Sends \/ Uncertain
      BY <3>3 DEF Sends, Uncertain
    <3>4. CASE Answered
      BY <3>4 DEF Answered
    <3>5. ASSUME NEW t \in Tabs,
                 \/ Opens(t) \/ Remounts(t) \/ Closes(t) \/ Reviewing(t) \/ Submitting(t)
                 \/ PollReads(t) \/ PollFails(t) \/ PollApplies(t) \/ HistoryFinds(t)
          PROVE  \/ storage'.history = storage.history
                 \/ \E i : storage'.history = Remembered(storage.history, i)
      <4>1. CASE Opens(t) \/ Remounts(t)
        BY <1>1, <4>1 DEF Opens, Remounts, Mounts, Stores
      <4>2. CASE Closes(t) \/ PollReads(t)
        BY <4>2 DEF Closes, PollReads
      <4>3. CASE Reviewing(t)
        BY <1>1, <4>3 DEF Reviewing, Stores
      <4>4. CASE Submitting(t)
        BY <4>4 DEF Submitting
      <4>5. CASE PollFails(t)
        BY <4>5 DEF PollFails, Caught
      <4>6. CASE PollApplies(t)
        BY <4>6 DEF PollApplies, Caught
      <4>7. CASE HistoryFinds(t)
        BY <1>1, <4>7 DEF HistoryFinds, Stores
      <4> QED
        BY <3>5, <4>1, <4>2, <4>3, <4>4, <4>5, <4>6, <4>7
    <3> QED
      BY <1>1, <3>1, <3>2, <3>3, <3>4, <3>5 DEF Next
  <2> QED
    BY <2>1, <2>2, <2>3, <2>4
<1>2. IInv => storage \in Stores
  BY Known
<1>3. storage \in Stores /\ [Next]_vars => [Kept]_vars
  BY <1>1
<1> QED
  BY <1>2, <1>3, Invariant, PTL DEF Spec, HashesKept

=============================================================================
