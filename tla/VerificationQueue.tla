-------------------------- MODULE VerificationQueue --------------------------
(***************************************************************************)
(* VerificationWorker: a bounded, persistent queue of deployments whose     *)
(* sources are to be published.  Requests are admitted while one worker     *)
(* takes the due jobs in turn: it reads the deployment's receipt, finds the *)
(* contracts, asks the explorer and Sourcify about each, and records a      *)
(* verdict.  Every read is an await that anything may happen in: a          *)
(* reorganisation, an outage, another admission, a crash.                   *)
(*                                                                          *)
(* A job changes in memory step by step and reaches the disk when it is     *)
(* saved.  Times are kept as the order they give: jobs that were never      *)
(* finished (nextAttempt = 0), jobs that are due, earliest first, and the   *)
(* others.  Attempts, which only lengthen the back-off, are left out.       *)
(***************************************************************************)
EXTENDS Integers, Sequences, FiniteSets

CONSTANTS
  Jobs,        \* identities: build, chain and transaction
  Blocks,      \* blocks a transaction can be in
  Contracts,   \* addresses a transaction may create
  Created,     \* what the transaction creates in a block
  Reverted,    \* the blocks in which it fails
  Known,       \* contracts with an exact retained compiler input
  Sourcify,    \* whether Sourcify serves the chain
  Capacity,    \* jobs kept at a time
  Admissions,  \* places for requests at a time (server.mjs admits 4)
  Configurations, \* which jobs a process may know build and network of
  MaxAdmitted, \* bound on the admissions
  MaxFaults    \* bound on crashes and failed writes together

None == "none"

ASSUME QueueAssumption ==
  /\ IsFiniteSet(Jobs)
  /\ IsFiniteSet(Admissions)
  /\ Configurations \subseteq SUBSET Jobs
  /\ None \notin Jobs \cup Blocks \cup Contracts
  /\ Created \in [Blocks -> SUBSET Contracts]
  /\ Reverted \subseteq Blocks
  /\ Known \subseteq Contracts
  /\ Sourcify \in BOOLEAN
  /\ Capacity \in Nat \ {0}
  /\ {MaxAdmitted, MaxFaults} \subseteq Nat

(* A contract's own status; "none" is a contract the job does not have.     *)
ContractStates ==
  {"none", "pending", "verified", "sourcify-verified", "source-unavailable"}

(* Results that may make room for new work.                                 *)
Completed == {"verified", "reverted", "not-applicable"}

JobStates == Completed \cup
  {"absent", "queued", "pending", "retrying", "sourcify-verified",
   "source-unavailable"}

JobRecords ==
  [status : JobStates, block : Blocks \cup {None},
   contracts : [Contracts -> ContractStates], fresh : BOOLEAN]

NoContracts == [c \in Contracts |-> "none"]
Absent == [status |-> "absent", block |-> None,
           contracts |-> NoContracts, fresh |-> FALSE]
NewJob == [Absent EXCEPT !.status = "queued", !.fresh = TRUE]

(* The await the worker is in.                                              *)
Steps == {"idle", "receipt", "block", "discover", "explorer", "submit",
          "sourcify", "check", "final"}

VARIABLES
  jobs,      \* jobs in memory
  disk,      \* jobs in the directory
  line,      \* jobs that are due and not fresh, earliest first
  admitting, \* the job of each admission past its checks, before enqueue
  worker,    \* active, processing and the locals of process
  canon,     \* the canonical block of each transaction
  configured,\* jobs whose build and network the running process knows
  calm,      \* from now on the chain is stable and the services answer
  admitted,  \* admissions so far
  crashes,   \* crashes so far
  unsaved,   \* history: jobs whose last write failed
  failures   \* failed writes so far

queueVars == <<jobs, disk, line, unsaved, failures>>
vars == <<queueVars, admitting, worker, canon, configured, calm, admitted, crashes>>

Workers ==
  [job : Jobs \cup {None}, step : Steps, block : Blocks \cup {None},
   left : SUBSET Contracts, contract : Contracts \cup {None}]

Idle == [job |-> None, step |-> "idle", block |-> None,
         left |-> {}, contract |-> None]

Init ==
  /\ jobs = [j \in Jobs |-> Absent]
  /\ disk = jobs
  /\ line = <<>>
  /\ admitting = [a \in Admissions |-> None]
  /\ worker = Idle
  /\ canon \in [Jobs -> Blocks]
  /\ configured \in Configurations
  /\ calm = FALSE
  /\ admitted = 0
  /\ crashes = 0
  /\ unsaved = {}
  /\ failures = 0

Kept(m) == {j \in Jobs : m[j].status # "absent"}
Lined == {line[n] : n \in 1 .. Len(line)}

(* The line when a job is no longer in it.                                  *)
LineWithout(j) ==
  IF j \notin Lined THEN line
  ELSE LET n == CHOOSE n \in 1 .. Len(line) : line[n] = j
       IN  [i \in 1 .. Len(line) - 1 |-> IF i < n THEN line[i] ELSE line[i + 1]]

-----------------------------------------------------------------------------
(* Admission.                                                               *)

(* admit: the job is not there yet and the checks against the chain, over   *)
(* five reads, have passed.  Nothing looks at the admissions that are under *)
(* way: two may be about one job.  validate refuses what is not configured. *)
BeginAdmit(a, j) ==
  /\ admitting[a] = None
  /\ j \in configured \ Kept(jobs)
  /\ admitted < MaxAdmitted
  /\ canon[j] \in Blocks \ Reverted
  /\ Created[canon[j]] \cap Known # {}
  /\ admitting' = [admitting EXCEPT ![a] = j]
  /\ admitted' = admitted + 1
  /\ UNCHANGED <<queueVars, worker, canon, configured, calm, crashes>>

(* Faults: the job being processed may go; unresolved jobs may go.          *)
EvictableOwnedFault == {j \in Jobs : jobs[j].status \in Completed}
EvictableOpenFault ==
  {j \in Jobs \ {worker.job} :
     jobs[j].status \in Completed \cup {"source-unavailable"}}

(* Completed results, but not of the job that is being processed.           *)
Evictable == {j \in Jobs \ {worker.job} : jobs[j].status \in Completed}

Dropped(m, old) == [j \in Jobs |-> IF j = old THEN Absent ELSE m[j]]

(* A write to the directory fails.                                          *)
WriteFails ==
  /\ crashes + failures < MaxFaults
  /\ failures' = failures + 1

(* The job is stored, in memory and on disk, in the place of an old result  *)
(* or of none; the old one is gone even if the write fails.                 *)
Store(j, old) ==
  /\ line' = LineWithout(old)
  /\ unsaved' = unsaved \ {old}
  /\ \/ /\ jobs' = [Dropped(jobs, old) EXCEPT ![j] = NewJob]
        /\ disk' = [Dropped(disk, old) EXCEPT ![j] = NewJob]
        /\ UNCHANGED failures
     \/ /\ WriteFails
        /\ jobs' = Dropped(jobs, old)
        /\ disk' = Dropped(disk, old)

Full == Cardinality(Kept(jobs)) >= Capacity

(* Fault: the job is not looked up again.                                   *)
EnqueueAgainFault(a) ==
  /\ admitting[a] # None
  /\ admitting' = [admitting EXCEPT ![a] = None]
  /\ IF Full /\ Evictable = {} THEN UNCHANGED queueVars
     ELSE IF Full THEN \E old \in Evictable : Store(admitting[a], old)
     ELSE Store(admitting[a], None)
  /\ UNCHANGED <<worker, canon, configured, calm, admitted, crashes>>

(* enqueue: a job that exists by now is left alone; without room a result   *)
(* makes place, or the job is refused.  Which result goes (the one saved    *)
(* first) is left open.                                                     *)
Enqueue(a) ==
  LET j == admitting[a] IN
  /\ j # None
  /\ admitting' = [admitting EXCEPT ![a] = None]
  /\ IF j \in Kept(jobs) \/ (Full /\ Evictable = {}) THEN UNCHANGED queueVars
     ELSE IF Full THEN \E old \in Evictable : Store(j, old)
     ELSE Store(j, None)
  /\ UNCHANGED <<worker, canon, configured, calm, admitted, crashes>>

-----------------------------------------------------------------------------
(* The worker.                                                              *)

(* save: the disk gets the job as it is in memory, unless the write fails.  *)
Saved(j, job) ==
  \/ /\ disk' = [disk EXCEPT ![j] = job]
     /\ unsaved' = unsaved \ {j}
     /\ UNCHANGED failures
  \/ /\ WriteFails
     /\ unsaved' = unsaved \cup {j}
     /\ UNCHANGED disk

KeepDisk == UNCHANGED <<disk, unsaved, failures>>

(* Fault: the outcome of an attempt is not saved.                           *)
FinishUnsavedFault(job) ==
  /\ jobs' = [jobs EXCEPT ![worker.job] = [job EXCEPT !.fresh = FALSE]]
  /\ line' = LineWithout(worker.job)
  /\ worker' = Idle
  /\ KeepDisk

(* The end of tick: the job is saved, its next attempt lies ahead, and the  *)
(* worker is free, even if the write failed.                                *)
Finish(job) ==
  LET j == worker.job
      done == [job EXCEPT !.fresh = FALSE]
  IN  /\ jobs' = [jobs EXCEPT ![j] = done]
      /\ Saved(j, done)
      /\ line' = LineWithout(j)
      /\ worker' = Idle

Retry == Finish([jobs[worker.job] EXCEPT !.status = "retrying"])

(* The next await, with the job as process has changed it.                  *)
Continue(job, w) ==
  /\ jobs' = [jobs EXCEPT ![worker.job] = job]
  /\ worker' = w
  /\ UNCHANGED line

(* The contract is done; the next one, or the last check of the block.      *)
NextContract(left) ==
  [worker EXCEPT !.left = left, !.contract = None,
                 !.step = IF left = {} THEN "final" ELSE "explorer"]

Fresh == {j \in Jobs : jobs[j].status # "absent" /\ jobs[j].fresh}

(* Faults: any due job is taken; completed jobs are not taken again.        *)
PickAnyFault(j) ==
  /\ worker.step = "idle"
  /\ j \in configured \cap (Fresh \cup Lined)
  /\ worker' = [Idle EXCEPT !.job = j, !.step = "receipt"]
  /\ UNCHANGED queueVars
PickUnfinishedFault(j) ==
  /\ worker.step = "idle"
  /\ jobs[j].status \notin Completed
  /\ j \in configured \cap (Fresh \cup Lined)
  /\ worker' = [Idle EXCEPT !.job = j, !.step = "receipt"]
  /\ UNCHANGED queueVars

(* No job before this one in the line can be run.                           *)
FirstInLine(j) ==
  \E n \in 1 .. Len(line) :
    line[n] = j /\ \A m \in 1 .. n - 1 : line[m] \notin configured

(* tick: of the jobs whose build and network are configured, the one whose  *)
(* attempt was due first, the never finished before all.  The others, read  *)
(* from the directory of an earlier process, are passed over.               *)
Pick(j) ==
  /\ worker.step = "idle"
  /\ j \in configured
  /\ IF Fresh \cap configured # {} THEN j \in Fresh ELSE FirstInLine(j)
  /\ worker' = [Idle EXCEPT !.job = j, !.step = "receipt"]
  /\ UNCHANGED queueVars

(* A read of the chain fails or has no answer in time.                      *)
ReadFails ==
  /\ ~calm
  /\ worker.step \in {"receipt", "block", "discover", "check", "final"}
  /\ Retry

(* Fault: a missing receipt is not noticed.                                 *)
ReadReceiptNullFault ==
  /\ worker.step = "receipt"
  /\ Continue(jobs[worker.job], [worker EXCEPT
                 !.step = "block", !.block = canon[worker.job]])
  /\ KeepDisk

ReadReceipt ==
  /\ worker.step = "receipt"
  /\ IF canon[worker.job] = None THEN Retry
     ELSE /\ Continue(jobs[worker.job], [worker EXCEPT
                        !.step = "block", !.block = canon[worker.job]])
          /\ KeepDisk

(* Fault: the block is not looked at again.                                 *)
UncheckedFault == TRUE

(* The receipt's block is still canonical.                                  *)
Canonical == canon[worker.job] = worker.block

ReadBlock ==
  /\ worker.step = "block"
  /\ IF ~Canonical THEN Retry
     ELSE IF worker.block \in Reverted
     THEN Finish([jobs[worker.job] EXCEPT !.status = "reverted",
                                          !.contracts = NoContracts])
     ELSE /\ Continue(jobs[worker.job], [worker EXCEPT !.step = "discover"])
          /\ KeepDisk

(* What is known about a contract is kept if it was found in this block.    *)
FoundContracts(j, found) ==
  [c \in Contracts |->
     IF c \notin found THEN "none"
     ELSE IF jobs[j].block = worker.block /\ jobs[j].contracts[c] # "none"
     THEN jobs[j].contracts[c] ELSE "pending"]

(* discover: the code is read by block number, so it is the code of another *)
(* block if the chain has changed.                                          *)
Discover ==
  /\ worker.step = "discover"
  /\ \E found \in IF Canonical THEN {Created[worker.block]}
                  ELSE SUBSET Contracts :
       Continue([jobs[worker.job] EXCEPT
                   !.block = worker.block,
                   !.contracts = FoundContracts(worker.job, found)],
                NextContract(found))
  /\ KeepDisk

WithContract(c, status) == [jobs[worker.job] EXCEPT !.contracts[c] = status]

(* The explorer has the contract's exact code as fully verified, or says    *)
(* something else, or fails.  An unknown contract is then left alone.       *)
AskExplorer(c) ==
  /\ worker.step = "explorer"
  /\ c \in worker.left
  /\ \/ Continue(WithContract(c, "verified"), NextContract(worker.left \ {c}))
     \/ ~calm /\ c \notin Known /\
        Continue(WithContract(c, "source-unavailable"),
                 NextContract(worker.left \ {c}))
     \/ ~calm /\ c \in Known /\
        Continue(WithContract(c, "pending"),
                 [worker EXCEPT !.step = "submit", !.contract = c])
  /\ KeepDisk

(* The source is submitted to the explorer, or to Sourcify: the job is saved *)
(* as it is then.  Or it was submitted lately, or that fails.               *)
Submit ==
  /\ worker.step = "submit"
  /\ Continue(jobs[worker.job], [worker EXCEPT !.step = "sourcify"])
  /\ Saved(worker.job, jobs[worker.job]) \/ KeepDisk

(* Sourcify has an exact match, or none yet, or fails.                      *)
AskSourcify ==
  /\ worker.step = "sourcify"
  /\ \E status \in {"pending"} \cup (IF Sourcify THEN {"sourcify-verified"} ELSE {}) :
       Continue(WithContract(worker.contract, status),
                [worker EXCEPT !.step = "check"])
  /\ KeepDisk

CheckBlock ==
  /\ worker.step = "check"
  /\ IF ~Canonical THEN Retry
     ELSE /\ Continue(jobs[worker.job],
                      NextContract(worker.left \ {worker.contract}))
          /\ KeepDisk

(* The verdict on a job, from what its contracts are.                       *)
Verdict(contracts) ==
  LET all == {contracts[c] : c \in Contracts} \ {"none"}
  IN  CASE all = {}                         -> "not-applicable"
        [] all = {"verified"}               -> "verified"
        [] "source-unavailable" \in all     -> "source-unavailable"
        [] /\ "sourcify-verified" \in all
           /\ all \subseteq {"verified", "sourcify-verified"} -> "sourcify-verified"
        [] OTHER                            -> "pending"

Conclude ==
  /\ worker.step = "final"
  /\ IF ~Canonical THEN Retry
     ELSE Finish([jobs[worker.job] EXCEPT
                    !.status = Verdict(jobs[worker.job].contracts)])

Await ==
  /\ \/ ReadFails \/ ReadReceipt \/ ReadBlock \/ Discover
     \/ \E c \in Contracts : AskExplorer(c)
     \/ Submit \/ AskSourcify \/ CheckBlock \/ Conclude
  /\ UNCHANGED <<admitting, canon, configured, calm, admitted, crashes>>

Tick ==
  /\ \E j \in Jobs : Pick(j)
  /\ UNCHANGED <<admitting, canon, configured, calm, admitted, crashes>>

-----------------------------------------------------------------------------
(* Time, the chain and crashes.                                             *)

(* The next attempt of a job comes.                                         *)
BecomesDue(j) ==
  /\ j \in Kept(jobs) \ (Fresh \cup Lined)
  /\ line' = Append(line, j)
  /\ UNCHANGED <<jobs, disk, unsaved, failures, admitting, worker,
                 canon, configured, calm, admitted, crashes>>

Reorganise(j) ==
  /\ ~calm
  /\ canon' \in {[canon EXCEPT ![j] = b] : b \in Blocks \cup {None}}
  /\ UNCHANGED <<queueVars, admitting, worker, configured, calm, admitted, crashes>>

CalmDown ==
  /\ ~calm
  /\ calm' = TRUE
  /\ UNCHANGED <<queueVars, admitting, worker, canon, configured, admitted, crashes>>

(* The process ends anywhere and starts again from the directory, perhaps   *)
(* with other builds or networks; it keeps the jobs of those it lacks.      *)
(* Which jobs are due by then, and in what order, is left open.             *)
Orders(js) ==
  {s \in [1 .. Cardinality(js) -> js] : \A n, m \in DOMAIN s : s[n] = s[m] => n = m}

Restart ==
  /\ crashes + failures < MaxFaults
  /\ crashes' = crashes + 1
  /\ jobs' = disk
  /\ \E due \in SUBSET {j \in Kept(disk) : ~disk[j].fresh} : line' \in Orders(due)
  /\ admitting' = [a \in Admissions |-> None]
  /\ configured' \in Configurations
  /\ worker' = Idle
  /\ unsaved' = {}
  /\ UNCHANGED <<disk, failures, canon, calm, admitted>>

Next ==
  \/ \E a \in Admissions : Enqueue(a) \/ \E j \in Jobs : BeginAdmit(a, j)
  \/ Tick \/ Await
  \/ \E j \in Jobs : BecomesDue(j) \/ Reorganise(j)
  \/ CalmDown
  \/ Restart

Spec == Init /\ [][Next]_vars

(* The timer ticks, every await ends (fetch has a time limit), and time      *)
(* passes.  The chain and the services owe nothing before they calm down.   *)
FairSpec ==
  /\ Spec
  /\ WF_vars(Tick) /\ WF_vars(Await)
  /\ \A j \in Jobs : WF_vars(BecomesDue(j))

-----------------------------------------------------------------------------
(* Properties                                                               *)

TypeOK ==
  /\ {jobs, disk} \subseteq [Jobs -> JobRecords]
  /\ line \in Seq(Jobs)
  /\ admitting \in [Admissions -> Jobs \cup {None}]
  /\ worker \in Workers
  /\ worker.step # "idle" => worker.job \in Jobs
  /\ worker.step \notin {"idle", "receipt"} => worker.block \in Blocks
  /\ canon \in [Jobs -> Blocks \cup {None}]
  /\ configured \subseteq Jobs
  /\ calm \in BOOLEAN
  /\ unsaved \subseteq Jobs
  /\ {admitted, crashes, failures} \subseteq Nat

(* The queue stays within its capacity, in memory and on disk, and the job  *)
(* being processed is not taken away: saving it would bring it back beyond  *)
(* the capacity ("a completed job being rechecked cannot be evicted         *)
(* underneath its worker"; enqueue, tick).                                  *)
QueueBounded ==
  /\ Kept(jobs) = Kept(disk)
  /\ Cardinality(Kept(disk)) <= Capacity
  /\ worker.step # "idle" => worker.job \in Kept(jobs)

(* A verdict that an attempt records is about the block that is canonical   *)
(* then, whatever the chain did during the attempt, and a job is verified   *)
(* only if each of its contracts is, and it has one (process,               *)
(* verifyContract; "only address-specific, full explorer verification is    *)
(* success").                                                               *)
VerdictStands ==
  [][\A j \in Jobs :
       (worker.job = j /\ worker'.step = "idle" /\ crashes' = crashes) =>
         /\ jobs'[j].status \in {"verified", "sourcify-verified", "not-applicable"} =>
              jobs'[j].block = canon[j]
         /\ jobs'[j].status = "verified" =>
              /\ \E c \in Contracts : jobs'[j].contracts[c] = "verified"
              /\ \A c \in Contracts : jobs'[j].contracts[c] \in {"none", "verified"}]_vars

(* What leaves the queue is not being processed and has no contract that is *)
(* still to be published.                                                   *)
LeavesResolved ==
  \A j \in Kept(disk) \ Kept(disk') :
    /\ j # worker.job
    /\ \A c \in Contracts : jobs[j].contracts[c] \in {"none", "verified"}

(* "Active, unresolved and partially published jobs are retained"           *)
(* (docs/runbooks/treasury-shared-network.md:132; the eviction of enqueue). *)
UnresolvedRetained == [][LeavesResolved]_vars

(* What ends an admission does to the jobs that stay: nothing, so a second  *)
(* delivery never resets a job that another one stored in between, nor one  *)
(* that is being processed.                                                 *)
RestUndisturbed ==
  \A j \in Kept(jobs) \cap Kept(jobs') :
    worker' = worker => jobs'[j] = jobs[j] /\ disk'[j] = disk[j]

(* In a process that has not been restarted, whatever reads, writes and     *)
(* admissions fall into an attempt, only resolved jobs leave and the others *)
(* are changed by the worker alone (admit, enqueue, verifyContract, tick).  *)
RetainedUntilCrash ==
  [][crashes' = 0 => LeavesResolved /\ RestUndisturbed]_vars

(* Between attempts a job is on disk as it is in memory, so a restart takes *)
(* back nothing that was reported, unless its last write failed (save, at   *)
(* the end of tick).                                                        *)
DiskFollows ==
  \A j \in Jobs \ ({worker.job} \cup unsaved) : disk[j] = jobs[j]

(* No job is lost or starved: whatever fails, each job that the process can *)
(* run is attempted again and again for as long as it is kept, and those it *)
(* cannot run do not hold it up (tick; "provider outages never ... lose a   *)
(* job"; "jobs for another configured network remain stored but cannot      *)
(* run").                                                                   *)
AttemptedAgain ==
  \A j \in Jobs :
    j \in Kept(jobs) \cap configured ~>
      (worker.job = j \/ j \notin Kept(jobs) \cap configured)

(* Once the chain is stable and the services answer, each job that the      *)
(* process can run gets the verdict of its block (tick, process).           *)
ReachesVerdict ==
  \A j \in Jobs :
    (calm /\ canon[j] \in Blocks \ Reverted /\ Created[canon[j]] # {}) ~>
      (j \notin Kept(jobs) \cap configured \/
         (jobs[j].status = "verified" /\ jobs[j].block = canon[j]))
=============================================================================
