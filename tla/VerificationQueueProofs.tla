------------------------ MODULE VerificationQueueProofs ------------------------
(***************************************************************************)
(* Proofs about VerificationQueue, for every set of jobs, blocks and        *)
(* contracts and every capacity.  An attempt goes on (Continue), ends       *)
(* (Finish), or is not concerned; there is one lemma for each way, and one  *)
(* for the place a new job gets (Store).                                    *)
(***************************************************************************)
EXTENDS VerificationQueue, FiniteSetTheorems, SequenceTheorems, TLAPS

-----------------------------------------------------------------------------
(* The inductive invariant.                                                 *)

Distinct(s) == \A n, m \in 1 .. Len(s) : s[n] = s[m] => n = m

(* The line holds kept jobs, each once.                                     *)
LineSound == Lined \subseteq Kept(jobs) /\ Distinct(line)

(* Between attempts the worker has no job.                                  *)
IdleFree == worker.step = "idle" => worker = Idle

(* Once the contracts are found, they are those of the receipt's block.     *)
BlockFound ==
  worker.step \in {"explorer", "submit", "sourcify", "check", "final"} =>
    jobs[worker.job].block = worker.block

(* A job that may make room has nothing left to publish.                    *)
Resolved(contracts) == \A c \in Contracts : contracts[c] \in {"none", "verified"}
CompletedResolved ==
  \A j \in Jobs \ {worker.job} :
    jobs[j].status \in Completed => Resolved(jobs[j].contracts)

Sound ==
  /\ TypeOK
  /\ LineSound
  /\ IdleFree
  /\ BlockFound
  /\ QueueBounded
  /\ DiskFollows
  /\ crashes = 0 => CompletedResolved

-----------------------------------------------------------------------------
(* The line and the kept jobs.                                              *)

LEMMA LineWithoutSound ==
  ASSUME line \in Seq(Jobs), Distinct(line), NEW j
  PROVE  LET s == LineWithout(j) IN
         /\ s \in Seq(Jobs)
         /\ Distinct(s)
         /\ \A n \in 1 .. Len(s) : s[n] \in Lined \ {j}
  <1>1. CASE j \notin Lined
    <2>1. LineWithout(j) = line
      BY <1>1 DEF LineWithout
    <2> QED BY <2>1, <1>1 DEF Lined
  <1>2. CASE j \in Lined
    <2> DEFINE n == CHOOSE n \in 1 .. Len(line) : line[n] = j
               s == [i \in 1 .. Len(line) - 1 |-> IF i < n THEN line[i] ELSE line[i + 1]]
    <2>1. n \in 1 .. Len(line) /\ line[n] = j
      BY <1>2 DEF Lined
    <2>2. LineWithout(j) = s
      BY <1>2 DEF LineWithout
    <2> HIDE DEF n
    <2>3. Len(line) - 1 \in Nat
      BY <2>1
    <2>4. \A i \in 1 .. Len(line) - 1 : s[i] \in Jobs /\ s[i] \in Lined \ {j}
      BY <2>1, <2>3 DEF Distinct, Lined
    <2>5. s \in [1 .. Len(line) - 1 -> Jobs]
      BY <2>4
    <2>6. s \in Seq(Jobs)
      BY <2>5, <2>3, SeqDef
    <2>7. Len(s) = Len(line) - 1
      BY <2>6, <2>3, LenProperties
    <2>8. Distinct(s)
      BY <2>1, <2>3, <2>7 DEF Distinct
    <2> QED BY <2>2, <2>4, <2>6, <2>7, <2>8
  <1> QED BY <1>1, <1>2

LEMMA KeptFinite ==
  ASSUME QueueAssumption, NEW m
  PROVE  /\ IsFiniteSet(Kept(m))
         /\ Cardinality(Kept(m)) \in Nat
  BY FS_Subset, FS_CardinalityType DEF Kept, QueueAssumption

(* A job whose record is replaced by one that is kept stays kept.           *)
LEMMA KeptReplaced ==
  ASSUME NEW m \in [Jobs -> JobRecords], NEW j \in Kept(m),
         NEW job \in JobRecords, job.status # "absent"
  PROVE  /\ [m EXCEPT ![j] = job] \in [Jobs -> JobRecords]
         /\ Kept([m EXCEPT ![j] = job]) = Kept(m)
  BY DEF Kept

(* The job that is dropped is absent and no other is touched.               *)
LEMMA DroppedKept ==
  ASSUME QueueAssumption, NEW m \in [Jobs -> JobRecords], NEW old
  PROVE  /\ Dropped(m, old) \in [Jobs -> JobRecords]
         /\ Kept(Dropped(m, old)) = Kept(m) \ {old}
         /\ \A j \in Jobs \ {old} : Dropped(m, old)[j] = m[j]
         /\ old \in Jobs => Dropped(m, old)[old] = Absent
  <1>1. Absent \in JobRecords
    BY DEF Absent, JobRecords, JobStates, NoContracts, ContractStates
  <1>2. Absent.status = "absent"
    BY DEF Absent
  <1> HIDE DEF Absent
  <1> QED BY <1>1, <1>2 DEF Dropped, Kept

LEMMA RecordsTyped ==
  /\ NewJob \in JobRecords /\ NewJob.status = "queued"
  /\ Absent \in JobRecords /\ Absent.status = "absent"
  BY DEF NewJob, Absent, JobRecords, JobStates, NoContracts, ContractStates

-----------------------------------------------------------------------------
(* An attempt goes on.                                                      *)

LEMMA ContinueSound ==
  ASSUME QueueAssumption, Sound, worker.step # "idle",
         NEW job \in JobRecords, NEW w \in Workers,
         job.status = jobs[worker.job].status,
         w.job = worker.job, w.step \notin {"idle", "receipt"}, w.block \in Blocks,
         w.step \in {"explorer", "submit", "sourcify", "check", "final"} =>
           job.block = w.block,
         Continue(job, w), Saved(worker.job, job) \/ KeepDisk,
         UNCHANGED <<admitting, canon, configured, calm, admitted, crashes>>
  PROVE  Sound'
  <1> USE DEF Continue
  <1>1. worker.job \in Kept(jobs) /\ Kept(jobs) = Kept(disk)
    BY DEF Sound, QueueBounded
  <1>2. /\ jobs \in [Jobs -> JobRecords] /\ disk \in [Jobs -> JobRecords]
        /\ job.status # "absent"
    BY <1>1 DEF Sound, TypeOK, Kept
  <1>3. jobs' \in [Jobs -> JobRecords] /\ Kept(jobs') = Kept(jobs)
    BY <1>1, <1>2, KeptReplaced
  <1>4. disk' \in [Jobs -> JobRecords] /\ Kept(disk') = Kept(disk)
    BY <1>1, <1>2, KeptReplaced DEF Saved, KeepDisk
  <1>5. TypeOK'
    <2>1. unsaved' \subseteq Jobs /\ failures' \in Nat
      BY <1>1 DEF Sound, TypeOK, Saved, KeepDisk, WriteFails, Kept
    <2> QED BY <1>3, <1>4, <2>1 DEF Sound, TypeOK, Workers
  <1>6. LineSound'
    BY <1>3 DEF Sound, LineSound, Lined
  <1>7. IdleFree' /\ BlockFound'
    BY <1>1, <1>2 DEF IdleFree, BlockFound, Kept
  <1>8. QueueBounded'
    BY <1>1, <1>3, <1>4 DEF Sound, QueueBounded
  <1>9. DiskFollows'
    BY <1>2 DEF Sound, DiskFollows, Saved, KeepDisk
  <1>10. (crashes = 0 => CompletedResolved)'
    BY <1>2 DEF Sound, CompletedResolved
  <1> QED BY <1>5, <1>6, <1>7, <1>8, <1>9, <1>10 DEF Sound

(* An attempt ends.                                                         *)
LEMMA FinishSound ==
  ASSUME QueueAssumption, Sound, worker.step # "idle",
         NEW job \in JobRecords, job.status # "absent",
         job.status \in Completed => Resolved(job.contracts),
         Finish(job), UNCHANGED <<admitting, canon, configured, calm, admitted, crashes>>
  PROVE  Sound'
  <1> DEFINE done == [job EXCEPT !.fresh = FALSE]
  <1>1. /\ done \in JobRecords
        /\ done.status = job.status /\ done.contracts = job.contracts
    BY DEF JobRecords
  <1>2. /\ jobs' = [jobs EXCEPT ![worker.job] = done]
        /\ Saved(worker.job, done)
        /\ line' = LineWithout(worker.job)
        /\ worker' = Idle
    BY DEF Finish
  <1> HIDE DEF done
  <1>3. /\ worker.job \in Kept(jobs) /\ worker.job \in Jobs
        /\ Kept(jobs) = Kept(disk)
    BY DEF Sound, QueueBounded, Kept
  <1>4. /\ jobs \in [Jobs -> JobRecords] /\ disk \in [Jobs -> JobRecords]
        /\ line \in Seq(Jobs) /\ Distinct(line)
    BY DEF Sound, TypeOK, LineSound
  <1>5. jobs' \in [Jobs -> JobRecords] /\ Kept(jobs') = Kept(jobs)
    BY <1>1, <1>2, <1>3, <1>4, KeptReplaced
  <1>6. disk' \in [Jobs -> JobRecords] /\ Kept(disk') = Kept(disk)
    BY <1>1, <1>2, <1>3, <1>4, KeptReplaced DEF Saved
  <1>7. line' \in Seq(Jobs) /\ LineSound'
    <2>1. line' \in Seq(Jobs) /\ Distinct(line')
      BY <1>2, <1>4, LineWithoutSound
    <2>2. Lined' \subseteq Lined
      BY <1>2, <1>4, LineWithoutSound DEF Lined
    <2> QED BY <2>1, <2>2, <1>5 DEF Sound, LineSound
  <1>8. Idle \in Workers /\ Idle.step = "idle" /\ Idle.job = None
    BY DEF Idle, Workers, Steps
  <1>9. TypeOK'
    <2>1. unsaved' \subseteq Jobs /\ failures' \in Nat
      BY <1>2, <1>3 DEF Sound, TypeOK, Saved, WriteFails
    <2> QED BY <1>2, <1>5, <1>6, <1>7, <1>8, <2>1 DEF Sound, TypeOK
  <1>10. IdleFree' /\ BlockFound'
    BY <1>2, <1>8 DEF IdleFree, BlockFound
  <1>11. QueueBounded'
    BY <1>2, <1>3, <1>5, <1>6, <1>8 DEF Sound, QueueBounded
  <1>12. DiskFollows'
    BY <1>2, <1>4, <1>8 DEF Sound, DiskFollows, Saved
  <1>13. (crashes = 0 => CompletedResolved)'
    BY <1>1, <1>2, <1>4, <1>8 DEF Sound, CompletedResolved, Resolved
  <1> QED BY <1>7, <1>9, <1>10, <1>11, <1>12, <1>13 DEF Sound

(* A new job takes a place that is free or that its result gives up.        *)
LEMMA StoreSound ==
  ASSUME QueueAssumption, Sound, NEW j \in Jobs \ Kept(jobs), NEW old,
         Store(j, old),
         \/ old \in Evictable
         \/ old = None /\ ~Full,
         admitting' \in [Admissions -> Jobs \cup {None}],
         UNCHANGED <<worker, canon, configured, calm, admitted, crashes>>
  PROVE  Sound'
  <1>1. /\ jobs \in [Jobs -> JobRecords] /\ disk \in [Jobs -> JobRecords]
        /\ line \in Seq(Jobs) /\ Distinct(line) /\ Lined \subseteq Kept(jobs)
        /\ Kept(jobs) = Kept(disk)
    BY DEF Sound, TypeOK, LineSound, QueueBounded
  <1>2. old # worker.job \/ worker.step = "idle"
    BY DEF Evictable, Sound, TypeOK, QueueAssumption
  <1> DEFINE mem == Dropped(jobs, old)
             dir == Dropped(disk, old)
  <1>3. /\ mem \in [Jobs -> JobRecords] /\ dir \in [Jobs -> JobRecords]
        /\ Kept(mem) = Kept(jobs) \ {old} /\ Kept(dir) = Kept(disk) \ {old}
        /\ \A i \in Jobs \ {old} : mem[i] = jobs[i] /\ dir[i] = disk[i]
        /\ old \in Jobs => mem[old] = Absent /\ dir[old] = Absent
    <2> HIDE DEF mem, dir
    <2>1. /\ mem \in [Jobs -> JobRecords]
          /\ Kept(mem) = Kept(jobs) \ {old}
          /\ \A i \in Jobs \ {old} : mem[i] = jobs[i]
          /\ old \in Jobs => mem[old] = Absent
      BY <1>1, DroppedKept DEF mem
    <2>2. /\ dir \in [Jobs -> JobRecords]
          /\ Kept(dir) = Kept(disk) \ {old}
          /\ \A i \in Jobs \ {old} : dir[i] = disk[i]
          /\ old \in Jobs => dir[old] = Absent
      BY <1>1, DroppedKept DEF dir
    <2> QED BY <2>1, <2>2
  <1> HIDE DEF mem, dir
  <1>4. /\ line' = LineWithout(old) /\ unsaved' = unsaved \ {old}
        /\ \/ /\ jobs' = [mem EXCEPT ![j] = NewJob]
              /\ disk' = [dir EXCEPT ![j] = NewJob]
              /\ UNCHANGED failures
           \/ WriteFails /\ jobs' = mem /\ disk' = dir
    BY DEF Store, mem, dir
  <1>5. /\ jobs' \in [Jobs -> JobRecords] /\ disk' \in [Jobs -> JobRecords]
        /\ Kept(jobs') = Kept(disk')
        /\ Kept(jobs) \ {old} \subseteq Kept(jobs')
        /\ Kept(jobs') \subseteq (Kept(jobs) \ {old}) \cup {j}
    BY <1>1, <1>3, <1>4, RecordsTyped DEF Kept
  <1>6. line' \in Seq(Jobs) /\ LineSound'
    <2>1. line' \in Seq(Jobs) /\ Distinct(line')
      BY <1>1, <1>4, LineWithoutSound
    <2>2. Lined' \subseteq Lined \ {old}
      BY <1>1, <1>4, LineWithoutSound DEF Lined
    <2> QED BY <2>1, <2>2, <1>1, <1>5 DEF LineSound
  <1>7. TypeOK'
    BY <1>4, <1>5, <1>6 DEF Sound, TypeOK, WriteFails
  <1>8. QueueBounded'
    <2>1. IsFiniteSet(Kept(jobs)) /\ Cardinality(Kept(jobs)) \in Nat
      BY KeptFinite
    <2>2. Cardinality(Kept(jobs) \ {old}) + 1 <= Capacity
      <3>1. CASE old \in Evictable
        <4>1. old \in Kept(jobs)
          BY <3>1 DEF Evictable, Kept, Completed
        <4>2. Cardinality(Kept(jobs) \ {old}) = Cardinality(Kept(jobs)) - 1
          BY <4>1, <2>1, FS_RemoveElement
        <4> QED BY <4>2, <2>1, <1>1 DEF Sound, QueueBounded, QueueAssumption
      <3>2. CASE old = None /\ ~Full
        <4>1. Kept(jobs) \ {old} = Kept(jobs)
          BY <3>2 DEF Kept, QueueAssumption
        <4>2. Capacity \in Nat
          BY DEF QueueAssumption
        <4>3. ~(Cardinality(Kept(jobs)) >= Capacity)
          BY <3>2 DEF Full
        <4>4. Cardinality(Kept(jobs)) + 1 <= Capacity
          BY <4>2, <4>3, <2>1
        <4> QED BY <4>1, <4>4
      <3> QED BY <3>1, <3>2
    <2>3. IsFiniteSet(Kept(jobs) \ {old}) /\ j \notin Kept(jobs) \ {old}
      BY <2>1, FS_Subset
    <2>4. /\ IsFiniteSet((Kept(jobs) \ {old}) \cup {j})
          /\ Cardinality((Kept(jobs) \ {old}) \cup {j})
               = Cardinality(Kept(jobs) \ {old}) + 1
      BY <2>3, FS_AddElement
    <2>5. /\ Cardinality(Kept(jobs')) \in Nat
          /\ Cardinality(Kept(jobs')) <= Cardinality((Kept(jobs) \ {old}) \cup {j})
      BY <2>4, <1>5, FS_Subset, KeptFinite
    <2>6. Cardinality(Kept(disk')) <= Capacity
      BY <2>2, <2>3, <2>4, <2>5, <1>5, FS_CardinalityType DEF QueueAssumption
    <2>7. worker.step # "idle" => worker.job \in Kept(jobs')
      BY <1>2, <1>5 DEF Sound, QueueBounded
    <2> QED BY <2>6, <2>7, <1>5 DEF QueueBounded
  <1>8a. \A i \in Jobs \ {old, j} : jobs'[i] = jobs[i] /\ disk'[i] = disk[i]
    BY <1>3, <1>4
  <1>9. DiskFollows'
    <2> SUFFICES ASSUME NEW i \in Jobs \ ({worker.job} \cup unsaved') PROVE disk'[i] = jobs'[i]
      BY DEF DiskFollows
    <2>1. CASE i = old
      BY <2>1, <1>3, <1>4, RecordsTyped
    <2>2. CASE i = j /\ i # old
      BY <2>2, <1>3, <1>4 DEF Sound, DiskFollows
    <2>3. CASE i \notin {old, j}
      BY <2>3, <1>4, <1>8a DEF Sound, DiskFollows
    <2> QED BY <2>1, <2>2, <2>3
  <1>10. IdleFree' /\ BlockFound'
    <2>1. worker.step # "idle" => worker.job \in Jobs \ {old, j}
      BY <1>2 DEF Sound, QueueBounded, Kept
    <2> QED BY <2>1, <1>8a DEF Sound, IdleFree, BlockFound
  <1>11. (crashes = 0 => CompletedResolved)'
    <2> SUFFICES ASSUME crashes = 0, NEW i \in Jobs \ {worker.job},
                        jobs'[i].status \in Completed
                 PROVE  Resolved(jobs'[i].contracts)
      BY DEF CompletedResolved
    <2>1. i \notin {old, j}
      BY <1>3, <1>4, RecordsTyped DEF Completed, Kept
    <2> QED BY <2>1, <1>8a DEF Sound, CompletedResolved
  <1> QED BY <1>6, <1>7, <1>8, <1>9, <1>10, <1>11 DEF Sound

-----------------------------------------------------------------------------
(* The steps of an attempt.                                                 *)

(* What each await finds.                                                   *)
LEMMA AttemptFacts ==
  ASSUME QueueAssumption, Sound, worker.step # "idle"
  PROVE  /\ worker \in Workers /\ worker.job \in Jobs
         /\ jobs[worker.job] \in JobRecords
         /\ jobs[worker.job].status # "absent"
         /\ worker.step # "receipt" => worker.block \in Blocks
         /\ canon[worker.job] \in Blocks \cup {None}
  BY DEF Sound, TypeOK, QueueBounded, Kept

LEMMA RetrySound ==
  ASSUME QueueAssumption, Sound, worker.step # "idle", Retry,
         UNCHANGED <<admitting, canon, configured, calm, admitted, crashes>>
  PROVE  Sound'
  <1> DEFINE job == [jobs[worker.job] EXCEPT !.status = "retrying"]
  <1>1. job \in JobRecords /\ job.status = "retrying"
    BY AttemptFacts DEF JobRecords, JobStates
  <1>2. Finish(job)
    BY DEF Retry
  <1> QED BY <1>1, <1>2, FinishSound DEF Completed

LEMMA VerdictResolved ==
  ASSUME NEW contracts \in [Contracts -> ContractStates]
  PROVE  /\ Verdict(contracts) \in JobStates \ {"absent"}
         /\ Verdict(contracts) \in Completed => Resolved(contracts)
         /\ Verdict(contracts) = "verified" =>
              \E c \in Contracts : contracts[c] = "verified"
         /\ Verdict(contracts) # "reverted"
  <1> DEFINE all == {contracts[c] : c \in Contracts} \ {"none"}
  <1>1. \A c \in Contracts : contracts[c] = "none" \/ contracts[c] \in all
    OBVIOUS
  <1>2. \A a \in all : \E c \in Contracts : contracts[c] = a
    OBVIOUS
  <1>3. Verdict(contracts) =
          CASE all = {}                         -> "not-applicable"
            [] all = {"verified"}               -> "verified"
            [] "source-unavailable" \in all     -> "source-unavailable"
            [] /\ "sourcify-verified" \in all
               /\ all \subseteq {"verified", "sourcify-verified"} -> "sourcify-verified"
            [] OTHER                            -> "pending"
    BY DEF Verdict
  <1> HIDE DEF all
  <1>4. CASE all = {}
    <2>1. Verdict(contracts) = "not-applicable"
      BY <1>3, <1>4
    <2> QED BY <2>1, <1>1, <1>4 DEF JobStates, Completed, Resolved
  <1>5. CASE all = {"verified"}
    <2>1. Verdict(contracts) = "verified"
      BY <1>3, <1>5
    <2> QED BY <2>1, <1>1, <1>2, <1>5 DEF JobStates, Completed, Resolved
  <1>6. CASE all # {} /\ all # {"verified"}
    <2>1. Verdict(contracts) \in {"source-unavailable", "sourcify-verified", "pending"}
      BY <1>3, <1>6
    <2> QED BY <2>1 DEF JobStates, Completed
  <1> QED BY <1>4, <1>5, <1>6

LEMMA NextContractTyped ==
  ASSUME worker \in Workers, NEW left \in SUBSET Contracts
  PROVE  LET w == NextContract(left) IN
         /\ w \in Workers /\ w.job = worker.job /\ w.block = worker.block
         /\ w.step \in {"final", "explorer"}
  BY DEF NextContract, Workers, Steps

LEMMA ReadReceiptSound ==
  ASSUME QueueAssumption, Sound, ReadReceipt,
         UNCHANGED <<admitting, canon, configured, calm, admitted, crashes>>
  PROVE  Sound'
  <1> USE DEF ReadReceipt
  <1>1. CASE canon[worker.job] = None
    BY <1>1, RetrySound
  <1>2. CASE canon[worker.job] # None
    <2> DEFINE w == [worker EXCEPT !.step = "block", !.block = canon[worker.job]]
    <2>1. canon[worker.job] \in Blocks
      BY <1>2, AttemptFacts
    <2>2. /\ w \in Workers /\ w.job = worker.job
          /\ w.step = "block" /\ w.block \in Blocks
      BY <2>1, AttemptFacts DEF Workers, Steps
    <2>3. Continue(jobs[worker.job], w) /\ KeepDisk /\ worker.step # "idle"
      BY <1>2
    <2> HIDE DEF w
    <2> QED BY <2>2, <2>3, AttemptFacts, ContinueSound
  <1> QED BY <1>1, <1>2

LEMMA ReadBlockSound ==
  ASSUME QueueAssumption, Sound, ReadBlock,
         UNCHANGED <<admitting, canon, configured, calm, admitted, crashes>>
  PROVE  Sound'
  <1> USE DEF ReadBlock
  <1>1. CASE ~Canonical
    BY <1>1, RetrySound
  <1>2. CASE Canonical /\ worker.block \in Reverted
    <2> DEFINE job == [jobs[worker.job] EXCEPT !.status = "reverted",
                                                !.contracts = NoContracts]
    <2>1. /\ job \in JobRecords /\ job.status # "absent"
          /\ Resolved(job.contracts)
      BY AttemptFacts
      DEF JobRecords, JobStates, Completed, NoContracts, ContractStates, Resolved
    <2>2. Finish(job) /\ worker.step # "idle"
      BY <1>2
    <2> HIDE DEF job
    <2> QED BY <2>1, <2>2, FinishSound
  <1>3. CASE Canonical /\ worker.block \notin Reverted
    <2> DEFINE w == [worker EXCEPT !.step = "discover"]
    <2>1. /\ w \in Workers /\ w.job = worker.job
          /\ w.step = "discover" /\ w.block \in Blocks
      BY AttemptFacts DEF Workers, Steps
    <2>2. Continue(jobs[worker.job], w) /\ KeepDisk /\ worker.step # "idle"
      BY <1>3
    <2> HIDE DEF w
    <2> QED BY <2>1, <2>2, AttemptFacts, ContinueSound
  <1> QED BY <1>1, <1>2, <1>3

LEMMA DiscoverSound ==
  ASSUME QueueAssumption, Sound, Discover,
         UNCHANGED <<admitting, canon, configured, calm, admitted, crashes>>
  PROVE  Sound'
  <1>0. worker.step = "discover" /\ worker.block \in Blocks
    BY AttemptFacts DEF Discover
  <1>1. PICK found \in SUBSET Contracts :
          Continue([jobs[worker.job] EXCEPT
                      !.block = worker.block,
                      !.contracts = FoundContracts(worker.job, found)],
                   NextContract(found))
    BY <1>0 DEF Discover, QueueAssumption
  <1> DEFINE cs == FoundContracts(worker.job, found)
             job == [jobs[worker.job] EXCEPT !.block = worker.block, !.contracts = cs]
             w == NextContract(found)
  <1>2. cs \in [Contracts -> ContractStates]
    BY <1>0, AttemptFacts DEF FoundContracts, JobRecords, ContractStates
  <1> HIDE DEF cs
  <1>3. /\ job \in JobRecords /\ job.status = jobs[worker.job].status
        /\ job.block = worker.block
    BY <1>0, <1>2, AttemptFacts DEF JobRecords
  <1>4. /\ w \in Workers /\ w.job = worker.job /\ w.block = worker.block
        /\ w.step \in {"final", "explorer"}
    BY <1>0, AttemptFacts, NextContractTyped
  <1>5. Continue(job, w) /\ KeepDisk
    BY <1>1 DEF Discover, cs
  <1> HIDE DEF job, w
  <1> QED BY <1>0, <1>3, <1>4, <1>5, ContinueSound

(* A contract's status changes, in the block the job has.                   *)
LEMMA WithContractTyped ==
  ASSUME QueueAssumption, Sound,
         worker.step \in {"explorer", "submit", "sourcify", "check", "final"},
         NEW c, NEW status \in ContractStates
  PROVE  LET job == WithContract(c, status) IN
         /\ job \in JobRecords
         /\ job.status = jobs[worker.job].status
         /\ job.block = worker.block
  BY AttemptFacts DEF WithContract, JobRecords, Sound, BlockFound

LEMMA AskExplorerSound ==
  ASSUME QueueAssumption, Sound, NEW c \in Contracts, AskExplorer(c),
         UNCHANGED <<admitting, canon, configured, calm, admitted, crashes>>
  PROVE  Sound'
  <1>1. /\ worker.step = "explorer" /\ c \in worker.left /\ KeepDisk
        /\ worker.block \in Blocks /\ worker \in Workers
    BY AttemptFacts DEF AskExplorer
  <1> DEFINE next == NextContract(worker.left \ {c})
             sub == [worker EXCEPT !.step = "submit", !.contract = c]
  <1>2. /\ next \in Workers /\ next.job = worker.job /\ next.block = worker.block
        /\ next.step \in {"final", "explorer"}
    <2>1. worker.left \ {c} \in SUBSET Contracts
      BY <1>1 DEF Workers
    <2> QED BY <1>1, <2>1, NextContractTyped
  <1>3. /\ sub \in Workers /\ sub.job = worker.job /\ sub.block = worker.block
        /\ sub.step = "submit"
    BY <1>1 DEF Workers, Steps
  <1>4. PICK status \in ContractStates, w \in {next, sub} :
          Continue(WithContract(c, status), w)
    BY DEF AskExplorer, ContractStates
  <1> HIDE DEF next, sub
  <1>5. /\ w \in Workers /\ w.job = worker.job /\ w.block = worker.block
        /\ w.step \in {"final", "explorer", "submit"}
    BY <1>2, <1>3, <1>4
  <1> DEFINE job == WithContract(c, status)
  <1>6. job \in JobRecords /\ job.status = jobs[worker.job].status /\ job.block = worker.block
    BY <1>1, <1>4, WithContractTyped
  <1>7. Continue(job, w)
    BY <1>4
  <1> HIDE DEF job
  <1> QED BY <1>1, <1>5, <1>6, <1>7, ContinueSound

LEMMA SubmitSound ==
  ASSUME QueueAssumption, Sound, Submit,
         UNCHANGED <<admitting, canon, configured, calm, admitted, crashes>>
  PROVE  Sound'
  <1> DEFINE w == [worker EXCEPT !.step = "sourcify"]
  <1>1. worker.step = "submit"
    BY DEF Submit
  <1>2. /\ w \in Workers /\ w.job = worker.job /\ w.block = worker.block
        /\ w.step = "sourcify" /\ worker.block \in Blocks
    BY <1>1, AttemptFacts DEF Workers, Steps
  <1>3. /\ Continue(jobs[worker.job], w)
        /\ Saved(worker.job, jobs[worker.job]) \/ KeepDisk
    BY DEF Submit
  <1>4. jobs[worker.job].block = worker.block
    BY <1>1 DEF Sound, BlockFound
  <1> HIDE DEF w
  <1> QED BY <1>1, <1>2, <1>3, <1>4, AttemptFacts, ContinueSound

LEMMA AskSourcifySound ==
  ASSUME QueueAssumption, Sound, AskSourcify,
         UNCHANGED <<admitting, canon, configured, calm, admitted, crashes>>
  PROVE  Sound'
  <1> DEFINE w == [worker EXCEPT !.step = "check"]
  <1>1. worker.step = "sourcify" /\ KeepDisk
    BY DEF AskSourcify
  <1>2. /\ w \in Workers /\ w.job = worker.job /\ w.block = worker.block
        /\ w.step = "check" /\ worker.block \in Blocks
    BY <1>1, AttemptFacts DEF Workers, Steps
  <1>3. PICK status \in ContractStates : Continue(WithContract(worker.contract, status), w)
    BY DEF AskSourcify, ContractStates
  <1> DEFINE job == WithContract(worker.contract, status)
  <1>4. job \in JobRecords /\ job.status = jobs[worker.job].status /\ job.block = worker.block
    BY <1>1, WithContractTyped
  <1>5. Continue(job, w)
    BY <1>3
  <1> HIDE DEF w, job
  <1> QED BY <1>1, <1>2, <1>4, <1>5, ContinueSound

LEMMA CheckBlockSound ==
  ASSUME QueueAssumption, Sound, CheckBlock,
         UNCHANGED <<admitting, canon, configured, calm, admitted, crashes>>
  PROVE  Sound'
  <1> USE DEF CheckBlock
  <1>1. CASE ~Canonical
    BY <1>1, RetrySound
  <1>2. CASE Canonical
    <2> DEFINE w == NextContract(worker.left \ {worker.contract})
    <2>1. worker.left \ {worker.contract} \in SUBSET Contracts
      BY AttemptFacts DEF Workers
    <2>2. /\ w \in Workers /\ w.job = worker.job /\ w.block = worker.block
          /\ w.step \in {"final", "explorer"} /\ worker.block \in Blocks
      BY <2>1, AttemptFacts, NextContractTyped
    <2>3. Continue(jobs[worker.job], w) /\ KeepDisk /\ worker.step = "check"
      BY <1>2
    <2>4. jobs[worker.job].block = worker.block
      BY <2>3 DEF Sound, BlockFound
    <2> HIDE DEF w
    <2> QED BY <2>2, <2>3, <2>4, AttemptFacts, ContinueSound
  <1> QED BY <1>1, <1>2

LEMMA ConcludeSound ==
  ASSUME QueueAssumption, Sound, Conclude,
         UNCHANGED <<admitting, canon, configured, calm, admitted, crashes>>
  PROVE  Sound'
  <1> USE DEF Conclude
  <1>1. CASE ~Canonical
    BY <1>1, RetrySound
  <1>2. CASE Canonical
    <2> DEFINE v == Verdict(jobs[worker.job].contracts)
               job == [jobs[worker.job] EXCEPT !.status = v]
    <2>1. jobs[worker.job].contracts \in [Contracts -> ContractStates]
      BY AttemptFacts DEF JobRecords
    <2>2. v \in JobStates \ {"absent"}
          /\ (v \in Completed => Resolved(jobs[worker.job].contracts))
      BY <2>1, VerdictResolved
    <2>3. Finish(job) /\ worker.step # "idle"
      BY <1>2
    <2> HIDE DEF v
    <2>4. /\ job \in JobRecords /\ job.status = v
          /\ job.contracts = jobs[worker.job].contracts
      BY <2>2, AttemptFacts DEF JobRecords
    <2> HIDE DEF job
    <2> QED BY <2>2, <2>3, <2>4, FinishSound
  <1> QED BY <1>1, <1>2

-----------------------------------------------------------------------------
(* Every step keeps the invariant.                                          *)

LEMMA InitSound == QueueAssumption /\ Init => Sound
  <1> SUFFICES ASSUME QueueAssumption, Init PROVE Sound
    OBVIOUS
  <1>1. \A j \in Jobs : jobs[j] = Absent /\ disk[j] = Absent
    BY DEF Init
  <1>2. Kept(jobs) = {} /\ Kept(disk) = {} /\ Lined = {}
    BY <1>1, RecordsTyped DEF Kept, Lined, Init
  <1>3. Idle \in Workers /\ Idle.step = "idle" /\ Idle.job = None
    BY DEF Idle, Workers, Steps
  <1>4. TypeOK
    <2>1. jobs \in [Jobs -> JobRecords] /\ disk \in [Jobs -> JobRecords]
      BY RecordsTyped DEF Init
    <2>2. canon \in [Jobs -> Blocks \cup {None}] /\ worker = Idle
      BY DEF Init
    <2>3. /\ line \in Seq(Jobs) /\ unsaved \subseteq Jobs
          /\ admitting \in [Admissions -> Jobs \cup {None}]
      BY DEF Init
    <2>3a. configured \subseteq Jobs
      BY DEF Init, QueueAssumption
    <2>4. calm \in BOOLEAN
      BY Zenon DEF Init
    <2>5. {admitted, crashes, failures} \subseteq Nat
      BY DEF Init
    <2> QED BY <1>3, <2>1, <2>2, <2>3, <2>3a, <2>4, <2>5 DEF TypeOK
  <1>5. QueueBounded
    <2>1. Cardinality(Kept(disk)) = 0
      BY <1>2, FS_EmptySet
    <2>2. Capacity \in Nat /\ 0 <= Capacity
      BY DEF QueueAssumption
    <2>3. worker.step = "idle"
      BY <1>3 DEF Init
    <2> QED BY <1>2, <2>1, <2>2, <2>3 DEF QueueBounded
  <1>6. LineSound /\ IdleFree /\ BlockFound /\ DiskFollows
    BY <1>2, <1>3 DEF Init, LineSound, Distinct, IdleFree, BlockFound, DiskFollows
  <1>7. CompletedResolved
    BY <1>1, RecordsTyped DEF CompletedResolved, Completed
  <1> QED BY <1>4, <1>5, <1>6, <1>7 DEF Sound

LEMMA EnqueueSound ==
  ASSUME QueueAssumption, Sound, NEW a \in Admissions, Enqueue(a)
  PROVE  Sound'
  <1> DEFINE j == admitting[a]
  <1>1. /\ j \in Jobs
        /\ admitting' \in [Admissions -> Jobs \cup {None}]
        /\ UNCHANGED <<worker, canon, configured, calm, admitted, crashes>>
    BY DEF Enqueue, Sound, TypeOK
  <1>2. CASE j \in Kept(jobs) \/ (Full /\ Evictable = {})
    <2>1. UNCHANGED queueVars
      BY <1>2 DEF Enqueue
    <2> QED BY <1>1, <2>1
        DEF queueVars, Sound, TypeOK, LineSound, Lined, Distinct, IdleFree, BlockFound,
            QueueBounded, Kept, DiskFollows, CompletedResolved
  <1>3. CASE j \notin Kept(jobs) /\ Full /\ Evictable # {}
    <2>1. PICK old \in Evictable : Store(j, old)
      BY <1>3 DEF Enqueue
    <2> HIDE DEF j
    <2> QED BY <1>1, <1>3, <2>1, StoreSound
  <1>4. CASE j \notin Kept(jobs) /\ ~Full
    <2>1. Store(j, None)
      BY <1>4 DEF Enqueue
    <2> HIDE DEF j
    <2> QED BY <1>1, <1>4, <2>1, StoreSound
  <1> QED BY <1>2, <1>3, <1>4

LEMMA TickSound ==
  ASSUME QueueAssumption, Sound, Tick
  PROVE  Sound'
  <1>1. PICK j \in Jobs : Pick(j)
    BY DEF Tick
  <1>2. j \in Kept(jobs)
    <2>1. j \in Fresh \/ FirstInLine(j)
      BY <1>1 DEF Pick
    <2>2. Fresh \subseteq Kept(jobs)
      BY DEF Fresh, Kept
    <2>3. FirstInLine(j) => j \in Lined
      BY DEF FirstInLine, Lined
    <2> QED BY <2>1, <2>2, <2>3 DEF Sound, LineSound
  <1>3. /\ worker = Idle /\ worker' \in Workers /\ worker'.job = j
        /\ worker'.step = "receipt"
    BY <1>1 DEF Pick, Sound, IdleFree, Idle, Workers, Steps
  <1>4. Idle.job = None
    BY DEF Idle
  <1>5. UNCHANGED queueVars /\ UNCHANGED <<admitting, canon, configured, calm, admitted, crashes>>
    BY <1>1 DEF Tick, Pick
  <1>6. TypeOK'
    BY <1>3, <1>5 DEF Sound, TypeOK, queueVars
  <1>7. LineSound'
    BY <1>5 DEF Sound, LineSound, Lined, Distinct, Kept, queueVars
  <1>8. IdleFree' /\ BlockFound'
    BY <1>3 DEF IdleFree, BlockFound
  <1>9. QueueBounded'
    BY <1>2, <1>3, <1>5 DEF Sound, QueueBounded, Kept, queueVars
  <1>10. DiskFollows' /\ (crashes = 0 => CompletedResolved)'
    BY <1>3, <1>4, <1>5 DEF Sound, DiskFollows, CompletedResolved, queueVars, QueueAssumption
  <1> QED BY <1>6, <1>7, <1>8, <1>9, <1>10 DEF Sound

LEMMA BecomesDueSound ==
  ASSUME QueueAssumption, Sound, NEW j \in Jobs, BecomesDue(j)
  PROVE  Sound'
  <1>1. /\ line \in Seq(Jobs) /\ j \in Kept(jobs) \ Lined /\ line' = Append(line, j)
        /\ UNCHANGED <<jobs, disk, unsaved, failures, admitting, worker,
                       canon, configured, calm, admitted, crashes>>
    BY DEF BecomesDue, Sound, TypeOK
  <1>2. /\ line' \in Seq(Jobs) /\ Len(line') = Len(line) + 1
        /\ \A n \in 1 .. Len(line) : line'[n] = line[n]
        /\ line'[Len(line) + 1] = j
    BY <1>1
  <1>3. LineSound'
    BY <1>1, <1>2 DEF Sound, LineSound, Lined, Distinct, Kept
  <1> QED BY <1>1, <1>2, <1>3
      DEF Sound, TypeOK, IdleFree, BlockFound, QueueBounded, Kept, DiskFollows,
          CompletedResolved

LEMMA RestartSound ==
  ASSUME QueueAssumption, Sound, Restart
  PROVE  Sound'
  <1>1. /\ jobs' = disk /\ disk' = disk /\ worker' = Idle
        /\ admitting' = [a \in Admissions |-> None] /\ configured' \in Configurations
        /\ unsaved' = {} /\ crashes' = crashes + 1 /\ crashes \in Nat
        /\ UNCHANGED <<failures, canon, calm, admitted>>
    BY DEF Restart, Sound, TypeOK
  <1>2. PICK due \in SUBSET {j \in Kept(disk) : ~disk[j].fresh} : line' \in Orders(due)
    BY DEF Restart
  <1>3. Cardinality(due) \in Nat
    BY FS_Subset, FS_CardinalityType DEF Kept, QueueAssumption
  <1>4. line' \in [1 .. Cardinality(due) -> due] /\ \A n, m \in DOMAIN line' :
           line'[n] = line'[m] => n = m
    BY <1>2 DEF Orders
  <1>5. line' \in Seq(due)
    BY <1>3, <1>4, SeqDef
  <1>6. Len(line') = Cardinality(due) /\ DOMAIN line' = 1 .. Len(line')
    BY <1>3, <1>4, <1>5, LenProperties
  <1>7. LineSound'
    BY <1>1, <1>4, <1>6 DEF LineSound, Lined, Distinct, Kept
  <1>8. line' \in Seq(Jobs)
    BY <1>3, <1>4, SeqDef DEF Kept
  <1>9. Idle \in Workers /\ Idle.step = "idle"
    BY DEF Idle, Workers, Steps
  <1>9a. configured' \subseteq Jobs /\ admitting' \in [Admissions -> Jobs \cup {None}]
    BY <1>1 DEF QueueAssumption
  <1>10. TypeOK'
    BY <1>1, <1>8, <1>9, <1>9a DEF Sound, TypeOK
  <1>11. QueueBounded' /\ IdleFree' /\ BlockFound' /\ DiskFollows'
    BY <1>1, <1>9 DEF Sound, QueueBounded, IdleFree, BlockFound, DiskFollows, Kept
  <1> QED BY <1>1, <1>7, <1>10, <1>11 DEF Sound

(* The steps that touch neither the queue nor the worker.                   *)
LEMMA OutsideSound ==
  ASSUME Sound, UNCHANGED <<queueVars, worker, configured, crashes>>,
         admitting' \in [Admissions -> Jobs \cup {None}], canon' \in [Jobs -> Blocks \cup {None}],
         calm' \in BOOLEAN, admitted' \in Nat
  PROVE  Sound'
  BY DEF queueVars, Sound, TypeOK, LineSound, Lined, Distinct, IdleFree, BlockFound,
         QueueBounded, Kept, DiskFollows, CompletedResolved

LEMMA AwaitSound ==
  ASSUME QueueAssumption, Sound, Await
  PROVE  Sound'
  <1>1. UNCHANGED <<admitting, canon, configured, calm, admitted, crashes>>
    BY DEF Await
  <1>2. CASE ReadFails
    <2>1. Retry /\ worker.step # "idle"
      BY <1>2 DEF ReadFails
    <2> QED BY <1>1, <2>1, RetrySound
  <1>3. CASE \E c \in Contracts : AskExplorer(c)
    BY <1>1, <1>3, AskExplorerSound
  <1> QED BY <1>1, <1>2, <1>3, ReadReceiptSound, ReadBlockSound, DiscoverSound,
             SubmitSound, AskSourcifySound, CheckBlockSound, ConcludeSound DEF Await

LEMMA NextSound == QueueAssumption /\ Sound /\ [Next]_vars => Sound'
  <1> SUFFICES ASSUME QueueAssumption, Sound, [Next]_vars PROVE Sound'
    OBVIOUS
  <1>1. ASSUME NEW a \in Admissions, NEW j \in Jobs, BeginAdmit(a, j) PROVE Sound'
    <2>1. admitting' \in [Admissions -> Jobs \cup {None}] /\ admitted' \in Nat
      BY <1>1 DEF BeginAdmit, Sound, TypeOK
    <2> QED BY <1>1, <2>1, OutsideSound DEF BeginAdmit, Sound, TypeOK
  <1>2. ASSUME NEW j \in Jobs, Reorganise(j) PROVE Sound'
    <2>1. canon' \in [Jobs -> Blocks \cup {None}]
      BY <1>2 DEF Reorganise, Sound, TypeOK
    <2> QED BY <1>2, <2>1, OutsideSound DEF Reorganise, Sound, TypeOK
  <1>3. CASE CalmDown
    BY <1>3, OutsideSound DEF CalmDown, Sound, TypeOK
  <1>4. CASE UNCHANGED vars
    BY <1>4, OutsideSound DEF vars, Sound, TypeOK
  <1> QED BY <1>1, <1>2, <1>3, <1>4, EnqueueSound, TickSound, AwaitSound,
             BecomesDueSound, RestartSound DEF Next

(* Sound is an invariant: the queue, its copy on disk and the worker agree  *)
(* at every moment of every run (worker.mjs).                               *)
THEOREM AlwaysSound == Spec => []Sound
  BY QueueAssumption, InitSound, NextSound, PTL DEF Spec

(* The variables keep their types, and the worker its job and block (tick,  *)
(* process).                                                                *)
THEOREM TypeCorrect == Spec => []TypeOK
  <1>1. Sound => TypeOK
    BY DEF Sound
  <1> QED BY <1>1, AlwaysSound, PTL

(* Memory and disk hold the same jobs, at most Capacity of them, and the    *)
(* one being processed is among them (enqueue, tick).                       *)
THEOREM QueueStaysBounded == Spec => []QueueBounded
  <1>1. Sound => QueueBounded
    BY DEF Sound
  <1> QED BY <1>1, AlwaysSound, PTL

(* What is not being processed is on disk as in memory, unless its last     *)
(* write failed (save).                                                     *)
THEOREM DiskAgrees == Spec => []DiskFollows
  <1>1. Sound => DiskFollows
    BY DEF Sound
  <1> QED BY <1>1, AlwaysSound, PTL

-----------------------------------------------------------------------------
(* What steps never do.                                                     *)

(* Awaits that go on do not free the worker.                                *)
LEMMA AttemptGoesOn ==
  ASSUME QueueAssumption, Sound,
         \/ Discover \/ Submit \/ AskSourcify
         \/ \E c \in Contracts : AskExplorer(c)
  PROVE  worker'.step # "idle"
  <1>1. worker \in Workers
    BY DEF Sound, TypeOK
  <1>2. ASSUME NEW left PROVE NextContract(left).step # "idle"
    BY <1>1 DEF NextContract, Workers
  <1>3. CASE Discover
    BY <1>2, <1>3 DEF Discover, Continue
  <1>4. CASE Submit \/ AskSourcify
    BY <1>1, <1>4 DEF Submit, AskSourcify, Continue, Workers
  <1>5. CASE \E c \in Contracts : AskExplorer(c)
    BY <1>1, <1>2, <1>5 DEF AskExplorer, Continue, Workers
  <1> QED BY <1>3, <1>4, <1>5

(* An attempt that ends is to be repeated, or found that the transaction    *)
(* failed, or reached the last check of a block that is canonical.          *)
LEMMA AttemptEnds ==
  ASSUME QueueAssumption, Sound, [Next]_vars,
         worker.job \in Jobs, worker'.step = "idle", crashes' = crashes
  PROVE  \/ jobs'[worker.job].status \in {"retrying", "reverted"}
         \/ Conclude /\ Canonical
  <1>1. worker.step # "idle" /\ worker \in Workers
    BY DEF Sound, IdleFree, Idle, QueueAssumption, TypeOK
  <1>2. Await
    <2>1. worker' # worker
      BY <1>1
    <2>2. ~Restart
      BY DEF Restart, Sound, TypeOK
    <2>3. ~Tick
      BY <1>1 DEF Tick, Pick
    <2> QED BY <2>1, <2>2, <2>3
        DEF Next, vars, BeginAdmit, Enqueue, BecomesDue, Reorganise, CalmDown
  <1>3. ASSUME NEW job \in JobRecords, Finish(job)
        PROVE  jobs'[worker.job].status = job.status
    BY <1>3 DEF Finish, JobRecords, Sound, TypeOK
  <1>4. CASE Retry
    <2> DEFINE job == [jobs[worker.job] EXCEPT !.status = "retrying"]
    <2>1. job \in JobRecords /\ job.status = "retrying"
      BY <1>1, AttemptFacts DEF JobRecords, JobStates
    <2>2. Finish(job)
      BY <1>4 DEF Retry
    <2> QED BY <2>1, <2>2, <1>3
  <1>5. CASE ReadReceipt
    <2>1. Retry
      BY <1>1, <1>5 DEF ReadReceipt, Continue, Workers
    <2> QED BY <2>1, <1>4
  <1>6. CASE ReadBlock
    <2>1. Retry \/ Finish([jobs[worker.job] EXCEPT !.status = "reverted",
                                                    !.contracts = NoContracts])
      BY <1>1, <1>6 DEF ReadBlock, Continue, Workers
    <2> DEFINE job == [jobs[worker.job] EXCEPT !.status = "reverted",
                                                !.contracts = NoContracts]
    <2>2. job \in JobRecords /\ job.status = "reverted"
      BY <1>1, AttemptFacts
      DEF JobRecords, JobStates, Completed, NoContracts, ContractStates
    <2> QED BY <2>1, <2>2, <1>3, <1>4
  <1>7. CASE CheckBlock
    <2>1. NextContract(worker.left \ {worker.contract}).step # "idle"
      BY <1>1 DEF NextContract, Workers
    <2>2. Retry
      BY <2>1, <1>7 DEF CheckBlock, Continue
    <2> QED BY <2>2, <1>4
  <1>8. CASE Conclude
    BY <1>4, <1>8 DEF Conclude
  <1> QED BY <1>2, <1>4, <1>5, <1>6, <1>7, <1>8, AttemptGoesOn DEF Await, ReadFails

(* A recorded verdict is about the block that is canonical then, and says   *)
(* verified only if every contract is, whatever the chain, the services and *)
(* the admissions do during the attempt (process of worker.mjs).            *)
THEOREM VerdictsHold == Spec => VerdictStands
  <1> DEFINE Stands(j) ==
        /\ jobs'[j].status \in {"verified", "sourcify-verified", "not-applicable"} =>
             jobs'[j].block = canon[j]
        /\ jobs'[j].status = "verified" =>
             /\ \E c \in Contracts : jobs'[j].contracts[c] = "verified"
             /\ \A c \in Contracts : jobs'[j].contracts[c] \in {"none", "verified"}
  <1>1. ASSUME Sound, [Next]_vars, NEW j \in Jobs,
               worker.job = j, worker'.step = "idle", crashes' = crashes
        PROVE  Stands(j)
    <2>1. CASE jobs'[j].status \in {"retrying", "reverted"}
      BY <2>1
    <2>2. CASE Conclude /\ Canonical
      <3>1. /\ worker.step = "final" /\ j \in Jobs
            /\ Finish([jobs[j] EXCEPT !.status = Verdict(jobs[j].contracts)])
        BY <1>1, <2>2 DEF Conclude
      <3>2. jobs[j] \in JobRecords /\ jobs \in [Jobs -> JobRecords]
        BY <1>1 DEF Sound, TypeOK
      <3>3. jobs[j].block = canon[j]
        BY <1>1, <2>2, <3>1 DEF Sound, BlockFound, Canonical
      <3> DEFINE v == Verdict(jobs[j].contracts)
      <3>4. /\ jobs'[j].status = v /\ jobs'[j].block = canon[j]
            /\ jobs'[j].contracts = jobs[j].contracts
        BY <1>1, <3>1, <3>2, <3>3 DEF Finish, JobRecords
      <3>5. jobs[j].contracts \in [Contracts -> ContractStates]
        BY <3>2 DEF JobRecords
      <3>6. /\ v \in Completed => Resolved(jobs[j].contracts)
            /\ v = "verified" => \E c \in Contracts : jobs[j].contracts[c] = "verified"
        BY <3>5, VerdictResolved
      <3> QED BY <3>4, <3>6 DEF Completed, Resolved
    <2> QED BY <1>1, <2>1, <2>2, AttemptEnds, QueueAssumption
  <1>2. Sound /\ [Next]_vars =>
          [\A j \in Jobs :
             (worker.job = j /\ worker'.step = "idle" /\ crashes' = crashes) =>
               /\ jobs'[j].status \in {"verified", "sourcify-verified", "not-applicable"} =>
                    jobs'[j].block = canon[j]
               /\ jobs'[j].status = "verified" =>
                    /\ \E c \in Contracts : jobs'[j].contracts[c] = "verified"
                    /\ \A c \in Contracts : jobs'[j].contracts[c] \in {"none", "verified"}]_vars
    BY <1>1
  <1> QED BY <1>2, AlwaysSound, PTL DEF Spec, VerdictStands

(* Every await moves the worker.                                            *)
LEMMA AttemptMoves ==
  ASSUME QueueAssumption, Sound, Await
  PROVE  worker' # worker
  <1>1. worker \in Workers /\ worker.step # "idle"
    BY DEF Sound, TypeOK, Await, ReadFails, ReadReceipt, ReadBlock, Discover,
           AskExplorer, Submit, AskSourcify, CheckBlock, Conclude
  <1>2. Idle.step = "idle"
    BY DEF Idle
  <1>3. Retry => worker' = Idle
    BY DEF Retry, Finish
  <1>4. ASSUME NEW left
        PROVE  /\ NextContract(left).left = left
               /\ NextContract(left).step \in {"final", "explorer"}
    BY <1>1 DEF NextContract, Workers
  <1>5. CASE ReadFails \/ Conclude
    BY <1>1, <1>2, <1>3, <1>5 DEF ReadFails, Conclude, Finish
  <1>6. CASE ReadReceipt \/ ReadBlock
    <2>1. ReadReceipt => worker' = Idle \/ worker'.step = "block"
      BY <1>1, <1>3 DEF ReadReceipt, Continue, Workers
    <2>2. ReadBlock => worker' = Idle \/ worker'.step = "discover"
      BY <1>1, <1>3 DEF ReadBlock, Continue, Finish, Workers
    <2> QED BY <1>1, <1>2, <1>6, <2>1, <2>2 DEF ReadReceipt, ReadBlock
  <1>7. CASE Discover \/ CheckBlock
    <2>1. Discover => worker'.step \in {"final", "explorer"}
      BY <1>4 DEF Discover, Continue
    <2>2. CheckBlock => worker' = Idle \/ worker'.step \in {"final", "explorer"}
      BY <1>3, <1>4 DEF CheckBlock, Continue
    <2> QED BY <1>1, <1>2, <1>7, <2>1, <2>2 DEF Discover, CheckBlock
  <1>8. CASE Submit \/ AskSourcify
    BY <1>1, <1>8 DEF Submit, AskSourcify, Continue, Workers
  <1>9. ASSUME NEW c \in Contracts, AskExplorer(c) PROVE worker' # worker
    <2>1. NextContract(worker.left \ {c}).left # worker.left
      BY <1>4, <1>9 DEF AskExplorer
    <2>2. [worker EXCEPT !.step = "submit", !.contract = c].step # "explorer"
      BY <1>1 DEF Workers
    <2> QED BY <1>9, <2>1, <2>2 DEF AskExplorer, Continue
  <1> QED BY <1>5, <1>6, <1>7, <1>8, <1>9 DEF Await

(* What the worker does not do itself leaves the jobs that stay alone.      *)
LEMMA OthersUndisturbed ==
  ASSUME QueueAssumption, Sound, [Next]_vars, ~Restart
  PROVE  RestUndisturbed
  <1> SUFFICES ASSUME NEW i \in Kept(jobs) \cap Kept(jobs'), worker' = worker
               PROVE  jobs'[i] = jobs[i] /\ disk'[i] = disk[i]
    BY DEF RestUndisturbed
  <1>1. CASE UNCHANGED <<jobs, disk>>
    BY <1>1
  <1>2. ASSUME NEW a \in Admissions, Enqueue(a), ~UNCHANGED <<jobs, disk>>
        PROVE  jobs'[i] = jobs[i] /\ disk'[i] = disk[i]
    <2> DEFINE j == admitting[a]
    <2>1. j \notin Kept(jobs) /\ \E old : Store(j, old)
      BY <1>2 DEF Enqueue, queueVars
    <2> HIDE DEF j
    <2>2. PICK old : Store(j, old)
      BY <2>1
    <2>3. jobs \in [Jobs -> JobRecords] /\ disk \in [Jobs -> JobRecords]
      BY DEF Sound, TypeOK
    <2>4. i \in Jobs /\ i # j
      BY <2>1 DEF Kept
    <2>5. jobs'[i] = Dropped(jobs, old)[i] /\ disk'[i] = Dropped(disk, old)[i]
      BY <2>2, <2>4 DEF Store, Dropped
    <2>6. i # old
      BY <2>4, <2>5, RecordsTyped DEF Dropped, Kept
    <2> QED BY <2>4, <2>5, <2>6 DEF Dropped
  <1>3. ~Tick
    <2>1. Tick => worker'.step # "idle" /\ worker.step = "idle"
      BY DEF Tick, Pick, Idle
    <2> QED BY <2>1
  <1> QED BY <1>1, <1>2, <1>3, AttemptMoves
      DEF Next, vars, queueVars, BeginAdmit, BecomesDue, Reorganise, CalmDown

(* Until a crash, what leaves the queue is not being processed and has      *)
(* nothing left to publish, and what stays is changed by the worker alone,  *)
(* however many admissions are about the same job (enqueue).                *)
THEOREM OnlyResolvedLeave == Spec => RetainedUntilCrash
  <1>1. ASSUME Sound, [Next]_vars, crashes = 0
        PROVE  LeavesResolved
    <2> SUFFICES ASSUME NEW j \in Kept(disk) \ Kept(disk')
                 PROVE  /\ j # worker.job
                        /\ \A c \in Contracts : jobs[j].contracts[c] \in {"none", "verified"}
      BY DEF LeavesResolved
    <2>1. disk \in [Jobs -> JobRecords]
      BY <1>1 DEF Sound, TypeOK
    <2>2. ASSUME NEW i \in Jobs, NEW job \in JobRecords, job.status # "absent",
                 Saved(i, job)
          PROVE  FALSE
      BY <2>1, <2>2 DEF Saved, Kept
    <2>3. ~Await
      <3>1. ASSUME NEW job \in JobRecords, job.status # "absent", Finish(job),
                   worker.step # "idle"
            PROVE  FALSE
        <4> DEFINE done == [job EXCEPT !.fresh = FALSE]
        <4>1. done \in JobRecords /\ done.status # "absent"
          BY <3>1 DEF JobRecords
        <4>2. Saved(worker.job, done)
          BY <3>1 DEF Finish
        <4> HIDE DEF done
        <4> QED BY <1>1, <3>1, <4>1, <4>2, <2>2, QueueAssumption, AttemptFacts
      <3>2. disk' # disk
        BY DEF Kept
      <3>3. ASSUME Retry, worker.step # "idle" PROVE FALSE
        <4> DEFINE job == [jobs[worker.job] EXCEPT !.status = "retrying"]
        <4>1. job \in JobRecords /\ job.status # "absent" /\ Finish(job)
          BY <1>1, <3>3, QueueAssumption, AttemptFacts DEF JobRecords, JobStates, Retry
        <4> HIDE DEF job
        <4> QED BY <4>1, <3>1, <3>3
      <3>4. ~ReadBlock
        <4> DEFINE job == [jobs[worker.job] EXCEPT !.status = "reverted",
                                                    !.contracts = NoContracts]
        <4> SUFFICES ASSUME ReadBlock PROVE FALSE
          OBVIOUS
        <4>0. worker.step # "idle"
          BY DEF ReadBlock
        <4>1. job \in JobRecords /\ job.status # "absent"
          BY <1>1, <4>0, QueueAssumption, AttemptFacts
          DEF JobRecords, JobStates, Completed, NoContracts, ContractStates
        <4>2. Retry \/ Finish(job)
          BY <3>2 DEF ReadBlock, KeepDisk
        <4> HIDE DEF job
        <4> QED BY <4>0, <4>1, <4>2, <3>1, <3>3
      <3>5. ~Conclude
        <4> DEFINE job == [jobs[worker.job] EXCEPT
                              !.status = Verdict(jobs[worker.job].contracts)]
        <4> SUFFICES ASSUME Conclude PROVE FALSE
          OBVIOUS
        <4>0. worker.step # "idle"
          BY DEF Conclude
        <4>1. jobs[worker.job].contracts \in [Contracts -> ContractStates]
          BY <1>1, <4>0, QueueAssumption, AttemptFacts DEF JobRecords
        <4>2. Verdict(jobs[worker.job].contracts) \in JobStates \ {"absent"}
          BY <4>1, VerdictResolved
        <4>3. job \in JobRecords /\ job.status # "absent"
          BY <1>1, <4>0, <4>2, QueueAssumption, AttemptFacts DEF JobRecords
        <4>4. Retry \/ Finish(job)
          BY DEF Conclude
        <4> HIDE DEF job
        <4> QED BY <4>0, <4>3, <4>4, <3>1, <3>3
      <3>6. ~Submit
        <4> SUFFICES ASSUME Submit PROVE FALSE
          OBVIOUS
        <4>1. worker.step # "idle" /\ Saved(worker.job, jobs[worker.job])
          BY <3>2 DEF Submit, KeepDisk
        <4> QED BY <1>1, <4>1, <2>2, QueueAssumption, AttemptFacts
      <3> QED BY <3>2, <3>3, <3>4, <3>5, <3>6
          DEF Await, ReadFails, ReadReceipt, Discover, AskExplorer, AskSourcify,
              CheckBlock, KeepDisk
    <2>4. PICK a \in Admissions : Enqueue(a)
      <3>1. disk' # disk
        BY DEF Kept
      <3> QED BY <1>1, <2>3, <3>1
          DEF Next, vars, queueVars, BeginAdmit, Tick, Pick, BecomesDue, Reorganise,
              CalmDown, Restart
    <2> DEFINE i == admitting[a]
    <2>5. PICK old : Store(i, old) /\ (old \in Evictable \/ old = None)
      <3>1. ~UNCHANGED queueVars
        BY DEF queueVars, Kept
      <3> QED BY <2>4, <3>1 DEF Enqueue
    <2> HIDE DEF i
    <2>6. j = old
      <3> DEFINE dir == Dropped(disk, old)
      <3>1. dir \in [Jobs -> JobRecords] /\ Kept(dir) = Kept(disk) \ {old}
        BY <2>1, DroppedKept, QueueAssumption
      <3>2. disk' = dir \/ disk' = [dir EXCEPT ![i] = NewJob]
        BY <2>5 DEF Store
      <3> HIDE DEF dir
      <3>3. Kept(dir) \subseteq Kept(disk')
        BY <3>1, <3>2, RecordsTyped DEF Kept
      <3> QED BY <3>1, <3>3
    <2>7. j \in Evictable
      BY <2>5, <2>6, QueueAssumption DEF Kept
    <2> QED BY <1>1, <2>7 DEF Sound, CompletedResolved, Evictable, Resolved
  <1>2. ASSUME Sound, [Next]_vars, crashes' = 0
        PROVE  crashes = 0 /\ LeavesResolved /\ RestUndisturbed
    <2>1. crashes \in Nat /\ ~Restart
      BY <1>2 DEF Restart, Sound, TypeOK
    <2>2. crashes = 0
      BY <1>2, <2>1 DEF Next, vars, BeginAdmit, Enqueue, Tick, Await, BecomesDue,
                        Reorganise, CalmDown
    <2> QED BY <1>1, <1>2, <2>1, <2>2, OthersUndisturbed, QueueAssumption
  <1>3. Sound /\ [Next]_vars =>
          [crashes' = 0 => LeavesResolved /\ RestUndisturbed]_vars
    BY <1>2
  <1> QED BY <1>3, AlwaysSound, PTL DEF Spec, RetainedUntilCrash
================================================================================
