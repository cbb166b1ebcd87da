# Formal model of the EEZ rollup dashboard

TLA+ specifications, TLC configurations and TLAPS proofs for the parts of this
repository whose correctness depends on order, time, concurrency or failure: the
treasury payment contracts and the journal their client keeps in the browser, the
trace decoder service, the network monitor and the source verification queue. Paths are relative to the repository root; `PROJECT.json`
maps every definition of a model to the lines it stands for.

## 1. The system and its parts

| component | state | operations | what makes it hard |
|---|---|---|---|
| **Treasury policy** `contracts/src/TreasuryPolicyBase.sol`, `TreasuryPolicy.sol` | `spent` per epoch; the two Safes' allowances, balances and nonces around it | `paySplit`; administration by the owners, which the policy does not restrict | two chains with two clocks, payments signed long before they are executed, two allowance modules with lazy resets, legs on both chains in one entry |
| **Treasury bridge pair** `TreasuryBridge.sol` | deposit nonces on L2, locked nonces on L1, escrow, wrapped supply, the peer | `bridgeFromL1`, `lockForL2`, the inherited `bridgeTokens` and the admin's `setCanonicalBridgeAddress` | shared by the policy and everybody else; a peer can be moved to another bridge, used and moved back |
| **Standard bridge policy** `StandardBridgeTreasuryPolicy.sol`, `StandardBridgeDelegate.sol` | the delegate's binding | the same payments over a bridge with a callback | re-entry of the callback, binding once |
| **Bootstrap, shared bridge, owners, test tokens** | seals, one-shot allocations | `seal`, `bootstrap`, `claim` | one-shot steps in the right order |
| **Trace job store** `trace-decoder/service/jobs.mjs`, `runner.mjs` | entries, keys, leases, slots, cached results | `create`, `status`, `result`, `release`, `sweep`, `pump`, `close`; worker threads | shared decodes, promise chains cut by anything, late results, limits |
| **Trace viewer** `src/hooks/useDecodedTrace.ts` | the id of its lease, poll timer | start, poll, refresh, unmount | abort before the id is known |
| **Network monitor service** `src/monitor/live.py`, `server.py` | the rows kept of each chain, the cached snapshot, the last head and frame, viewer count | collect a window of blocks, publish heads and snapshots, attach and detach | reads by number while the chain moves, threads that share the cache |
| **Network monitor client** `src/monitor/client.js` | the snapshot shown, the last head, pending reorganisations, known blocks | apply heads, snapshots and HTTP answers, poll, reconnect | sources that overtake each other, reorganisations, gaps |
| **Source verification queue** `scripts/verification/worker.mjs`, `server.mjs` | jobs in memory and on disk, the one being processed | `admit`, `enqueue`, `process`, `tick`, restart | two admissions of one job, crash between steps, eviction at capacity, reorganisations, outages, restarts with other builds or networks |
| **Treasury client** `src/lib/treasury/*`, `src/components/TreasuryConnected.tsx`, `useTreasuryHistory.ts` | the request being tracked and the history of payments in localStorage; what each tab shows | review, sign, submit, poll, recover | lost responses, reloads, two tabs |
| **Wallet and Composer detection** `useWallet.ts`, `useComposerDetection.ts` | the selected provider, the latest probe | connect, switch, probe | overlapping awaits |
| **Event stream and execution tables** `useEventStream.ts`, `useChainWatcher.ts`, `eventProcessor.ts` | events by key, tables consumed | history and live logs | duplicates, order |
| **Other actions and histories** `useBridge.ts`, `useFlashLoan*.ts`, `useTxHistory.ts`, ... | progress of one transaction | submit, watch | mostly sequential |
| **Presentation, ABIs, build and deployment files** | none | rendering | not modelled |

**Interactions.** The client signs payments that the Safes execute against the
policy; the policy moves money through both allowance modules and the bridge
pair. The viewer's hook talks HTTP to the trace service, which owns the job store
and its worker threads. The setup journal of the treasury client is the outbox of
the verification queue. The monitor's client reads the monitor's service over a
WebSocket for heads and HTTP for snapshots. The remaining hooks only share
browser storage and the wallet.

**What correctness means**, per component:

* policy: one budget per epoch over both Safes; the signed split is delivered
  exactly; the allowance each Safe grants is respected by its own clock; rivals
  for one nonce are never both paid;
* bridge pair: wrapped tokens stay backed and every deposit has its lock, also when
  bridges are paired anew; nothing is made or lost;
* job store: nobody's decode is cancelled by somebody else; work is wanted and
  unique per key; slots are exact and never idle while a job waits; limits hold;
  results are final; every decode ends;
* viewer: every lease it gets is released or lapses, a view shows its own trace;
* monitor: a window that is published is of one branch; safety data shown without a
  warning belong to the branch of the head above them; a reorganisation that was
  noticed is not forgotten before a snapshot covers it; the page ends up with the
  chain's head;
* verification queue: no accepted job is lost or reset, verdicts belong to the
  canonical block, capacity holds, every job of a configured build and network is
  attempted again;
* payment journal: no second request is sent while one is under way, none is
  forgotten, no hash is confused, and a settled one is eventually let go.

## 2. Modules

| module | models | lines of code |
|---|---|---|
| `AllowanceModule` | the Safe AllowanceModule's record and its lazy reset, as the policy uses it (external) | `interfaces/IAllowanceModule.sol` |
| `TreasuryBridge` | the token ledger, `bridgeFromL1` with `lockForL2`, two bridges on each chain with their peers, and everybody else on them | `TreasuryBridge.sol` |
| `TreasuryPolicy` | composes both: `_pay` with all checks and legs, signing, owners, two clocks | `TreasuryPolicyBase.sol`, `TreasuryPolicy.sol` |
| `SpendingBudget` | the abstract promise of a policy: one budget per epoch | refined by `TreasuryPolicy` |
| `TreasuryPolicyProofs` | theorems about all of these | |
| `MCTreasuryPolicy` | instances for TLC | |
| `TraceJobs` | `JobStore` and the life of a decode | `jobs.mjs`, `runner.mjs` |
| `SharedDecode` | the abstract promise to the viewers: one shared decode per transaction | refined by `TraceJobs` |
| `TraceJobsProofs` | theorems about both | |
| `MCTraceJobs` | instances for TLC | |
| `VerificationQueue` | `VerificationWorker`: admission, eviction, the awaits of an attempt, saving, restart | `scripts/verification/worker.mjs`, `server.mjs` |
| `VerificationQueueProofs` | theorems about it | |
| `MCVerificationQueue` | instances for TLC | |
| `BlockTree` | the blocks of a chain with all its branches | constants, rows of a window in `server.py` |
| `ChainWindow` | `_chain`: the reads of a window, the rows kept, the checks | `server.py` |
| `SnapshotCollection` | the abstract promise of a collection | refined by `ChainWindow` |
| `ChainWindowProofs` | theorems about both | |
| `SnapshotFeed` | the watcher, the publishing loop and the snapshot cache, as functions of the server | `live.py`, `server.py` |
| `MonitorPage` | the page's handlers, as functions of the page | `client.js` |
| `LiveUpdates` | composes both over a socket and HTTP, with restarts and lost connections | `live.py`, `client.js` |
| `LiveUpdatesProofs` | theorems about it | |
| `MCChainWindow`, `MCLiveUpdates` | instances for TLC | |
| `PaymentJournal` | slot, history, tabs, the submission and its polls, wallet and chain around them | `TreasuryConnected.tsx`, `history.ts`, `useTreasuryHistory.ts`, `client.ts` |
| `PaymentJournalProofs`, `PaymentJournalPayerProofs` | theorems about it; those for one paying tab | |
| `MCPaymentJournal` | an instance for TLC | |
| `LeastCounterexample` | lemmas the proofs share: smallest counterexamples, branches of a tree, sums over finite sets | |

### Treasury

A state holds `bal` (balances of the accounts the contracts tell apart), each
L2 bridge's next nonce, each L1 bridge's locked ones, each bridge's peer, one `clock` per chain in minutes, the
policy's `spent`, one allowance record and one nonce per Safe, the payments
`signed`, and two history variables: `executed`, and `drawn`, what payments really
took from each Safe by epoch. `Pay(p)` is the whole of `paySplit`: each check of
`_pay` is a named conjunct in the code's order (`AmountValid`, `EpochCurrent`,
`WithinBudget`, the bridge's peer, `RecipientValid`, `Aligned` and `HasCapacity` of both
chains), `PayLedger` is the L2 leg followed by the L1 leg, and `NoResidual` the
`ResidualBalance` checks. A cross-chain entry is synchronous and reverts as a
whole, so a refused payment is not a step; the re-entrancy latches, which nothing
in an atomic step can meet, are left out. `Sign`, `Reject`, `Reconfigure` and
`OwnerTransfer` are the owners, `ThirdParty` everybody else on the bridge and on
the token, `Tick` the block timestamps of either chain.

**Bridges and peers.** `bridgeFromL1` only demands that its bridge has some peer
(`TreasuryBridge.sol:41`); `lockForL2` is admitted by the receiver's own peer. An
entry between two bridges therefore needs that each is the other's peer (`Paired`),
which need not be the treasury's pair: beside `bridgeL1` and `bridgeL2` there is
another bridge on each chain (`otherL1`, `otherL2`), of the same token and rollup,
the second with a wrapped token of its own. `SetPeer` gives any bridge any bridge of
the other chain, or none, at any time; third parties lock, deposit and withdraw over
whatever is paired then, and the peer may be moved back. `repaired` is history: the
pair has been given another peer. What is guaranteed is then of two kinds.

* For every choice of peers, all wrapped tokens together are covered by all escrows
  together, and every deposit of an L2 bridge has one lock of its own (`Backing`,
  `NoncesAgree`).
* The pair's own escrow covers the treasury's wrapped token, and its next nonce is
  never one already locked, only while `repaired` is false. After a change both can
  fail, and the model has the steps: USDC locked in `otherL1` backs a wrapped token
  that is released from `bridgeL1`; bridges that were both used before have
  overlapping nonces and every payment that locks is refused with
  `DepositAlreadyLocked`. This is what "Use a fresh, configured pair"
  (`TreasuryBridge.sol:12`) and the sealing of shared bridges are for.

Peers are taken to be bridges of this kind: an admin who points a bridge at a
contract of another kind can mint without a lock, and nothing is claimed of that. A
sealed bridge has fewer behaviours than these. The zero peer is a bridge that nothing
crosses: what `Bridge` does then, use its own address on the other chain, needs two
bridges at the same address.

Recipients and third parties of a chain are one account (`outsideL1`,
`outsideL2`): the contracts do not tell them apart. Amounts are small numbers of
units; the widths of `uint96` and `uint256` cannot be reached below
`GLOBAL_LIMIT`.

### Trace jobs

The store is one record, because the code's methods call each other (`create`
sweeps, evicts, queues and pumps) and are written here the same way: functions
from a store to a store that the actions compose. `entries`, `byKey`, the leases
(`clients` and `entry.clients` together), `running` and `closed` are the fields of
`JobStore`; `state`, `key`, `bytes` those of an entry; job numbers follow the
insertion order that every loop of the code uses. `stage` is how far the promise
chain of a decode is: `Start`, `Settle`, `Deliver` and `Retire` are its four
steps, and everything else may happen between any two of them. A worker that
answers, fails, exits or runs into the 120 s limit is `Settle`, and what it
returned is chosen when it is applied. Elapsed time is what the code derives from
it: a lease that is past `leaseMs` (`late`), a finished entry past `expires`
(`expired`); both happen at any time. A request that is rejected only sweeps.

`SharedDecode` knows neither entries nor slots: a viewer looks at a transaction
(`asked`) and is told that it waits, or how it ended (`answer`). All who wait for one
transaction are told in the same step, a result of before is shown only while nobody
waits for a newer one, and whoever leaves takes nothing from the others. `Looks` and
`Told` read both off a store through its leases, as `status` does.

### Verification queue

`jobs` is the map in memory, `disk` the directory, and `worker` is `active`,
`processing` and the locals of `process`. Every `await` of an attempt is a step of
its own: `ReadReceipt`, `ReadBlock`, `Discover`, then for each contract
`AskExplorer`, `Submit`, `AskSourcify`, `CheckBlock`, and at the end `Conclude`.
Between two of them requests are admitted, as many at a time as there are places
(`Admissions`; `server.mjs` has 4), which may be about the same job, since `admit`
looks a job up only before its reads (`BeginAdmit`) and `enqueue` again after them; the chain is reorganised (`canon` is
the canonical block of each transaction, or none), services fail, or the process
ends. `Continue` changes the job in memory only; `Finish` is the end of `tick`,
with its save; `Submit` saves in the middle of an attempt, as the code does, with
the status the attempt before left. A write can fail, which leaves the worker free
and the disk as it was. `Store` is the two halves of an eviction: the old job goes
from memory and disk before the new one is written, so it is gone even if that
write fails.

`configured` are the jobs whose build and network the running process knows. It may
change at a restart (`Configurations`). What is not configured stays in memory and on
disk, counts for the capacity, is not admitted (`validate`) and is passed over by
`tick`; of such a job nothing but its retention is claimed
(`docs/runbooks/treasury-shared-network.md:121`).

`nextAttempt` is kept as the order it gives: new jobs have 0 and go first
(`fresh`), due jobs are taken in the order in which they became due (`line`), and
the others wait. Which completed job makes room (the code takes the one saved
first) is left open, as are the lengths of the back-off and the count of attempts,
and what is due after a restart. Byte-for-byte matching of code is the choice in
`Discover` and the replies of the explorer and Sourcify. `Discover` off the
canonical block may find anything, since code is read by block number: should the
chain come back to the receipt's block before `Conclude`, the contracts found
stand, and `VerdictStands` speaks of those. Removing a file is taken to succeed;
the retention of the input and the deduplication of submissions to the explorer
are not modelled, the latter being part of the choices of `Submit`.

### Network monitor

**One collection** (`ChainWindow`). `Begin` reads the latest block and takes what
`recent` still has of the window; each `RowRead` is one `eth_getBlockByNumber` of
the parallel reads, answered from the branch that is canonical at that moment; a
number that is gone leaves a hole, which ends the collection. `Check` compares the
parent hashes and reads the head once more. `Raises` is an RPC that throws: then
the rows kept before stay. `shaken` is history, only for the abstract
specification: it says when a failure is excused. `SnapshotCollection` says what is
left for the rest of the monitor: a collection publishes the head it started from
if that is canonical at the end, and fails only if some branch was left since the
last one ended, which may be before it began, or with an exception.

**The feed** (`SnapshotFeed`). `server` holds the fields of `SnapshotFeed` and
`SnapshotCache` for one chain. A collection is kept as its first read and its
outcome (`ChainDone`, `ChainFails`, `ChainRaises`, `CollectFails`), which is what
`ChainWindow` shows it comes to. `started` and `began` are `run`'s
`started_sequence`: the version up to which a frame is known to cover the heads.
The watcher's read and what it makes of it are two steps (`WatcherReads`,
`WatcherObserves`). Whether a cache is past its ttl or a refresh is due is left to
chance; a periodic refresh that could only repeat the last frame is left out
(`Outdated`), which keeps versions finite. Other chains and the components derived
from them, sources of heads and their status, and block details of other viewers
are not in the model, nor the `safe` and `finalized` blocks, which `_chain` reads in
parallel with the latest one (`server.py:701-703`) and does not compare with the
window: `verified` is the head of the collection, and `ShownConsistent` is about it.

**The page** (`MonitorPage`). Of what is rendered it keeps the head (`latest`), the
block whose collection the safety data come from (`verified`), the warning beside
them and whether the snapshot is stale. `known` is `headHistory` with the rows
shown, by which `mergeHeads` walks from a head to the details.

**Both** (`LiveUpdates`). The socket delivers in order and holds `MaxInFlight`
frames. When it is lost, with what is in flight, the page polls and refreshes at
once; the server's handler notices when it next sends, and holds its place until
then (`orphans`). A request over HTTP is one at a time; its answer stands if
nothing was shown since it was made (`current`, the `revision` of the code).
`BlocksArrive` is the thread that reads ancestors of a head by hash; it may bring
them at any time.

### Payment journal

`storage` is `localStorage`: the `slot` (`eez:treasury:submission:...`) and the
`history`. `views` is `TreasuryConnected` in each tab: the request it tracks, its
outcome, the payment reviewed, and the poll between its reads and what it makes of
them. `handler` is the one submission that waits for the wallet; the browser lock
of `withActiveTreasury` keeps a second from starting in any tab. `chain` is what the
wallet was asked and what became of it; a transaction's hash is its place in
`chain.sent`. `orphans` are requests the wallet still shows although their page
has gone or gave up on the answer. An attempt is what `attemptId` tells apart: the
Safe transaction and the block at which it was prepared.

A script runs to its next `await` in one step. `Submitting` is `saveIntent` and the
call of the wallet; `Answered`, `Declined` and `Uncertain` are the three ways it
returns; `PollReads` and `PollApplies` are the two halves of a poll, and `Caught`
its `catch`, which is also where a request that conflicts with the slot or the
history ends. `Remounts` changes to another mode and back: the new view restores
the request, while the handler of the old one still runs. `Closes` ends a tab with
its handler at any time. On the chain requests execute, revert, settle, are
discarded by Composer or rolled back, and the Safe's nonce may be used elsewhere.
Approvals and owners are not modelled: `Reviewing` leaves the payment reviewed for
any nonce the chain has. `Fresh` says that owners who approve the same payment again
take longer than the block of the approval before.

The history may know more than the slot, because a second tab that restored a
request the user then declines writes it back (`TreasuryConnected.tsx:180`, `:192`):
both places then hold a request that was never sent. If the same payment is
approved again in a later block, with the nonce still unused, and executed, the
recovery by Safe hash (`client.ts:403`) gives its hash to the declined attempt too,
and the history lists one payment as two. `HistoryHas` therefore says that a hash
is of a transaction that makes the payment of its entry, not that it is of that
attempt. Similarly `reviewing` and the answer 4001 clear the slot without a look at
whose it is (`:214`, `:299`); with two paying tabs this can be the request of the
other, which is then not locked after a reload; and `saveIntent` overwrites the slot
(`:106`). `SlotNamesIt` and `OneUnderway` are
about one paying tab.

## 3. Runs

| run | instance | properties | question |
|---|---|---|---|
| `treasury_clocks` | period of 2 minutes, clocks 2..5 (two epochs, each met early and late by either chain), two payments signed, limit 3 above each Safe's allowance 2 | `TypeOK`, `ExecutedOnce`, `GlobalBudget`, `WithinSafeAllowance`, `ImplementsBudget` | can two clocks, late execution and changed allowances overdraw an epoch or an allowance, or charge the wrong epoch? |
| `treasury_ledger` | one epoch, one payment of up to 2 units from both Safes, one unit in the hands of third parties, one transfer by the L1 owners, a bridge as recipient; two bridges on each chain, the others waiting for the pair's, 2 deposits of each L2 bridge, any number of changes of the pair's peers | `Backing`, `Conserved`, `NoncesAgree`, `DeliversExactly` | can anything around a payment, peers that are moved, used and moved back included, leave tokens unbacked, lost or left behind, or let a nonce lock twice? |
| `trace_jobs_cache` | 2 keys, 3 lease names of which 2 at a time, 2 slots, 2 entries, results of 2 or 3 units with at most 2 per result and 3 in all | `TypeOK`, `SharedDecodeSurvives`, `WorkIsWanted`, `WithinLimits`, `ResultsAreFinal`, `ImplementsService` | sharing, eviction, expiry, refresh, cancellation and close in every order: is it one shared decode per transaction to its viewers, within the limits? |
| `trace_jobs_liveness` | 2 keys, 1 slot, 2 viewers, fairness | `SlotsExact`, `NoIdleSlot`, `EveryDecodeEnds`, `CloseDrains` | does a slot leak, or stay idle while a job waits; does every decode end, and a closed service drain? |
| `verification_safety` | 2 jobs, 1 place, 2 admissions at a time, any configuration, 2 blocks (one creates a known and an unknown contract, in the other the transaction fails), one crash or failed write | `TypeOK`, `QueueBounded`, `DiskFollows`, `VerdictStands`, `RetainedUntilCrash` | can admissions, reorganisations, outages, a failed write or a crash between any two awaits break the capacity, the disk, a verdict or a job that another admission stored? |
| `verification_liveness` | 2 jobs, 2 places, one of them not configured in some processes, fairness | `AttemptedAgain`, `ReachesVerdict` | is any job that can run lost or starved, by those that cannot too, and does each get its verdict once the services answer? |
| `verification_eviction` | 2 jobs, 1 place, one contract | `UnresolvedRetained`, expected to be violated | are unresolved jobs retained across a crash? |
| `chain_window` | branches of 3 and 2 blocks over a common one, windows of 3, 5 moves of the chain, 1 exception | `TypeOK`, `WindowOneBranch`, `CollectionSpec` | can reads of a moving chain, with rows kept from before, publish a mixed window, an outdated head, or fail for ever? |
| `live_safety` | branches of 2 and 1 blocks, 1 move, 1 failure (a read, a connection or the server), 1 place, 1 frame in flight | `TypeOK`, `ShownConsistent`, `ReorgHidesSafety`, `ViewersCounted` | can heads, snapshots, answers and details in some order show safety data of another branch, or forget a reorganisation; do places leak? |
| `live_converges` | 2 blocks of which the chain drops one, 1 failure, fairness | `Converges` | does the page end up with the chain's head, verified, after anything was lost? |
| `live_stale_http` | as `live_safety` | `NotTakenBack`, expected to be violated | can an answer over HTTP take the page back to an older head? |
| `payment_journal` | 1 tab that pays and 1 that looks on, 1 payment, 2 requests, 2 blocks, 1 fault; fairness of polls | `TypeOK`, `SlotNamesIt`, `OneUnderway`, `HistoryHas`, `HashesKept`, `Recovered` | can a request be sent twice, forgotten or confused, whatever answer, tab or read is lost; is the slot given back? |

**A disagreement with the runbook.** `docs/runbooks/treasury-shared-network.md:132`
says that active, unresolved and partially published jobs are retained.
`verification_eviction` shows the exception: a verified job is rechecked, the
explorer does not confirm it, `verifyContract` saves the job (`worker.mjs:147`)
while its status still says `verified`, and the process ends. The restarted worker
loads a completed job with a contract still pending, and an admission at capacity
evicts it before it is attempted again. `RetainedUntilCrash` is what does hold, and
is proved.

**A stale answer that replaces a newer head.** `refresh` applies an HTTP answer with
`startedSequence` at its largest value (`client.js:860`), as if its collection had
started after every head. The server may answer from its cache, within the ttl,
with a collection that is older than the head pushed last. `live_stale_http` finds
it after a lost connection: the page shows the chain's head, refreshes, and goes back
to the block before, as verified and without a warning, although `client.js:859`
says "A delayed HTTP response must not replace a newer pushed snapshot." It is put
right by the next push or poll (`Converges`), and what is shown is still of one
branch (`ShownConsistent`).

**Bounds.** `MaxTime` (two whole epochs), `MaxNonce`, `MaxSigned`, `MaxDeposits`
for the treasury; `MaxCreated` for decodes; `MaxAdmitted` and
`MaxFaults` (crashes and failed writes together) for the verification queue. Two epochs and two payments are the least
in which a payment can be early, late, a rival, or the second of its epoch; three
jobs the least in which one is evicted, one works and one waits. The treasury
models stop when clocks and nonces are used up, and the verification queue when it
is empty and the admissions are used up, hence `CHECK_DEADLOCK FALSE` there; the
trace jobs check deadlock. With one place and two jobs every admission of the other job
meets a full queue, with two admissions at a time both may be of one job, and one fault is enough for each of its moments, since a
second one meets the same states; the proofs have no bound on either.
`MaxMoves` bounds the changes of the canonical head, `MaxRaises` the exceptions of
collections, `MaxFaults` of `LiveUpdates` failed reads, lost connections and
restarts together, `MaxInFlight` the frames of the socket. Two branches are the
least in which a window can be mixed, and five moves enough to leave a branch, come
back and leave it again within one collection and the rows of the one before. One
move of the chain is enough for a gap, a reorganisation or a return to a lower block,
each against what the page showed before; the proofs have no such bound. `live_converges` has
the smallest tree with a reorganisation to a lower block. `MaxSent`, `MaxBlock` and
`MaxFaults` bound the payment journal: two requests are the least of which one can be
confused with the other, in one block or two. The live updates and the payment
journal stop when chain and faults are used up, hence `CHECK_DEADLOCK FALSE`.
The treasury runs restrict `Next` to what their
question needs (`ClocksNext`, and `LedgerNext`, in which the admins of the
pair change peers and those of the other bridges do not), since the whole product is too large;
the proofs are about `Next` with nothing restricted.

**Symmetry.** Lease names are interchangeable and nothing compares them; keys
and the jobs and admissions of the verification queue likewise. The liveness runs use none.

**Fairness.** `FairSpec` of `TraceJobs` has weak fairness of each decode's own
steps: microtasks run, and a worker ends or `setTimeout` ends it after 120 s. No
viewer, timer or sweep is assumed to do anything. `FairSpec` of `VerificationQueue`
has weak fairness of `Tick` (`server.mjs` runs it on an interval), of the awaits
together (`fetch` has a time limit of 20 s and JavaScript runs one continuation
after the other), and of each job's next attempt coming. Reorganisations and outages
may go on for ever until `CalmDown`, which is not fair: `ReachesVerdict` says what
follows if it happens. New jobs go before all
others (`nextAttempt = 0`), so an endless stream of them that are each finished at
once could starve the rest; the code does not exclude that, `MaxAdmitted` does, and
both properties are about any finite number of admissions.

`Fairness` of `LiveUpdates`: the watcher, the loop, the handler of the socket and the
page's event loop run (threads and timers), reads return, and the socket delivers.
The loop and requests compete for the lock of the cache, hence strong fairness of
each: it is released after every collection. Nothing is assumed of the chain, of
failures, or of `BlocksArrive`. `FairSpec` of `PaymentJournal` has weak fairness of each tab's
poll, which a timer starts again 2.5 s after it ended; no user, wallet or chain is
assumed to do anything, so `Recovered` is about requests that did settle.

## 4. Proofs

All theorems are checked by `tlapm` for every value of the constants under the
named assumptions `BridgeAssumption`, `PolicyAssumption`, `JobsAssumption`,
`QueueAssumption`, `TreeAssumption`, `RaisesAssumption`, `FeedAssumption`,
`LinkAssumption`, `JournalAssumption`.

**Smallest counterexamples** (`LeastCounterexample`). Induction with a formula as its
parameter is out of the prover's reach, but the minimum of a set is not: where a proof
needs induction it takes the least number, or the subset of fewest elements, for which
the claim fails, and looks at the one before. So it is shown that the blocks between a
block and an ancestor of it lie on one branch (`PathsNested`), and that
`MapThenSumSet`, a recursive function on subsets, exists and is what a sum should be
(`SumsExist`, `SumsUnique`, `SumTakeOut`, `SumSame`, `SumAdd`, `SumMonotone`).

**Treasury** (`TreasuryPolicyProofs`). The type invariant comes first; balances stay
natural only because every leg is guarded, so it is proved action by action
together with the escrow covering the wrapped supply. `BudgetHolds` adds that
`drawn` of both Safes sums to `spent`; the counter alone would not show that the
money agrees with it. `LedgerHolds` is what `BackingHolds`, `USDCConserved` and
`LockNoncesAgree` have in common, one invariant over every choice of peers. What only
holds of an unchanged pair needs two more parts: until `repaired`, each bridge of the
pair has the other as its peer or none (`PairKept`), so whatever passes another bridge
does not touch it; and the nonces locked in `bridgeL1` are then below `bridgeL2`'s next
one (`PairNonces`). That a deposit has a lock of its own is a count: a lock is only
taken if its nonce is new to that bridge, so both sides of the sum grow by one. `PaymentsDeliver` rests on the type invariant and `RecipientValid`.
`SafeAllowanceHolds` needs the strengthening `AllowanceCovers`: the stored record
accounts for everything drawn in the epoch that its period is, and nothing was
drawn in a later one. It assumes `SettingsAligned`, the settings the client makes
(`setAllowance(delegate, token, amount, 10, 10)`): owners who leave that schedule
and return to it inside one epoch have `spent` reset early, and the allowance of
that Safe can then be used twice. The policy cannot prevent that
("owner administration remains unrestricted", `TreasuryPolicyBase.sol:15`);
`GlobalBudget` needs no such assumption. `RivalsExclude` says that an executed
payment's nonce is below its Safe's. `PaymentsExecuteOnce` adds `DrawnAsSigned`: what
was drawn of each Safe in each epoch is the sum of the shares of the payments executed
in it. The payment of a step is new to that set, since its nonce is not yet used, so
the sum grows by its share once and in the epoch it was signed for. `PolicyImplementsBudget` maps every step to
`Advance`, `Spend` or a stutter of `SpendingBudget`.

**Trace jobs** (`TraceJobsProofs`). The helpers are total functions on stores, so
each has a lemma saying what it preserves, and each action's proof cites the
lemmas of the functions it composes. The inductive invariant `Sound` ties leases,
keys, states and stages together (a viewed entry is kept; an active one is viewed,
is the entry of its key and has a stage that fits; slots are counted by stages);
`Prompt` says that the queue is empty or the slots are full, which does not hold
inside a method, only after its pump. From these follow `TypeCorrect`,
`ViewersKeepTheirDecode`, `NoUnwantedWork`, `SlotsNeverLeak`,
`NobodyWaitsForNothing` and `EndIsFinal`.

`LimitsHold` needs that an entry has bytes only once it is complete (`Unsized`), or a
result would be counted twice. A method is within its store (`Within`: no entry, lease
or byte more) or is one of the three that add: a lease and an entry after `create` has
looked for room, a result after `Applied` has. What `Trimmed` evicts is not needed for
it, as the code compares the sum again after trimming.

`ServiceImplemented` maps every step to one of `SharedDecode` or to a step that no
viewer sees. A method that cancels changes no lease that is left, since what it cancels
had no other viewer (`WithoutView`); eviction and pumping are not seen (`RemovedView`,
`PumpedView`). All who wait for a transaction hold leases on one entry, the one `byKey`
names (`WaitersView`, from `Sound`): hence they are told together (`EndedView`), and a
viewer who is shown a finished entry finds nobody waiting (`CreateView`).

**Verification queue** (`VerificationQueueProofs`). `Sound` adds to the three
invariants what makes them inductive: the line holds kept jobs, each once
(otherwise an evicted job could be taken again); an idle worker has no job; once
the contracts are found the job's block is the receipt's, which makes a verdict
one about the block that `Conclude` found canonical; and before any crash a
completed job that is not being processed has nothing left to publish, which makes
eviction safe. None of it depends on which jobs are admitted at a time, since
`enqueue` looks again. A step that goes on, one that ends the attempt and one that stores
a new job have a lemma each (`ContinueSound`, `FinishSound`, `StoreSound`), and every
await is one of the first two. From `Sound` follow `TypeCorrect`,
`QueueStaysBounded` and `DiskAgrees`, and with `AttemptEnds` (how an attempt can
end) the action properties `VerdictsHold` and `OnlyResolvedLeave`; the latter also uses
that every await moves the worker (`AttemptMoves`), so that what leaves the worker where it
is can only be an admission (`OthersUndisturbed`).

**Network monitor** (`ChainWindowProofs`, `LiveUpdatesProofs`). A window that links
is the head and its own ancestors (`LinkedIsRows`): take the highest row that is not
and look at the one above it (`LeastNumber`).
`CollectorImplements` needs the invariant `OnBranch`: as long as no branch was left
since the last collection, all that was read or kept is on the canonical one, so the
check cannot fail. For the page everything follows from what each handler does on
its own: `PageSound` (a pending reorganisation hides the safety data, data without a
warning are on the branch of the head, what is pending is no newer than the head) is
kept by `ApplyHeads`, `ApplySnapshot` and `Reconnected` whatever arrives, so nothing
needs to be known of the server but its type.

**Payment journal** (`PaymentJournalProofs`). A hash is trusted because wherever one
is known, in the slot, the history, a view, the handler or a poll that is not yet
applied, it is of a transaction with the Safe hash of its attempt (`Sound`);
`Once` says that the wallet sends a request once, so that what is declined was not
sent, and `Recorded` that the history has what was sent and what may still be. Each
handler is proved once, by what it does to storage (`RememberedFacts`) and to its view.
`HistoryIsComplete` and `HashesStay` hold for any number of paying tabs.

`PaymentJournalPayerProofs` assumes that one tab pays (`OnePayer`), any number looking
on, and proves `OnePayerIsLocked` and `OnePayerPaysOnce`. `Locked` says that the slot and
the payer's view are on what is under way, which keeps `submitting` and `reviewing` from
running. A poll could still unlock it, as an outcome is looked up by Safe hash and may
be that of another attempt. `Fits` excludes this: a request that anyone knows is not
later than the one under way, earlier attempts of its Safe transaction have failed, and
a hash found for it is its own or that of a later attempt; so a final outcome is never
about what is under way (`LookupFits`), also when it is applied later (`PollsStand`).
`Nonces` gives what a rollback needs: settled requests have used lower nonces than the
one that is rolled back. `Fits` must speak of all that storage, views, polls and the
handler know, since each is written to the slot sooner or later.

**Only model-checked** are the liveness properties, which need fairness and `ENABLED`:
`EveryDecodeEnds`, `CloseDrains`, `AttemptedAgain`, `ReachesVerdict`, `Converges` and
`Recovered`. Every invariant, action property and refinement of the passing runs is a
theorem, some under the conditions named above (`SettingsAligned`, `OnePayer`).

## 5. What is not modelled

Everything marked `not_modelled` in `PROJECT.json`, with its reason there. Inside
the modelled parts: tokens that do not move the amount asked for, so that
`NoResidual` is always met and `InexactLock` has no counterpart; bridges whose peer is a contract of another kind; constructor validation of the policy, encoding of receipts and
proxies, token decimals, the wording of errors and progress, the HTTP layer of the
services, the decoder itself; rollup, settlement and blob collection of the monitor,
its searches and its rendering; owners, signatures, payments that start on L1,
invoices and the setup journal of the treasury client.

## 6. Plan

1. `StandardBridgePolicy`: the delegate's binding and the callback path as a second
   implementation of `SpendingBudget`; sealing and bootstrap; two policies in one
   epoch during an upgrade.
2. `TraceViewer` composed with `TraceJobs`: every lease ends, and viewers that use
   `SharedDecode` over HTTP.
3. The setup journal (`savedDeployment.ts`, `setupState.ts`) with the verification
   queue it feeds; payments that start on L1.
4. `ComposerDetection`, `WalletSession`, `EventStream`.
