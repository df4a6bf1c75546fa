--------------------- MODULE ContractDocumentQueueProofs ---------------------
(***************************************************************************)
(* Theorems about ContractDocumentQueue, for any sets of contracts, terms, *)
(* unit faces and requests, any set of failures and any bounds.            *)
(***************************************************************************)
EXTENDS ContractDocumentQueue, TLAPS

-----------------------------------------------------------------------------
(* Lemmas on the helpers.                                                  *)

LEMMA EnqueueType ==
  ASSUME NEW j \in Job \union {NoJob}, NEW r \in Revisions, NEW retry \in BOOLEAN
  PROVE  /\ Enqueue(j, r, retry) \in Job
         /\ Enqueue(j, r, retry).rev = r
         /\ Enqueue(j, r, retry) = j \/ Enqueue(j, r, retry).status = "pending"
  BY DEF Enqueue, Job, NoJob, Statuses

LEMMA ReconcileType ==
  ASSUME NEW j \in Job, NEW cached
  PROVE  Reconcile(j, cached) \in Job
  BY DEF Reconcile, Job, Statuses

LEMMA SaveJobType ==
  ASSUME TypeOK, NEW c \in Contracts, NEW j \in Job, SaveJob(c, j)
  PROVE  /\ job' \in [Contracts -> Job \union {NoJob}]
         /\ older' \in [Contracts -> SUBSET Contracts]
  BY DEF TypeOK, SaveJob, Touch

LEMMA KickType ==
  ASSUME NEW w \in Loose \union Busy
  PROVE  Kick(w) \in Loose \union Busy
  BY DEF Kick, Loose

LEMMA WitnessType ==
  ASSUME NEW reqs \in [Requests -> {Idle} \union Asking \union Ensuring \union Holding \union Saving],
         NEW l, NEW t \in [Contracts -> Terms], NEW f \in Faces
  PROVE  Witness(reqs, l, t, f)
           \in [Requests -> {Idle} \union Asking \union Ensuring \union Holding \union Saving]
  <1>1. SUFFICES ASSUME NEW k \in Requests, Generating(reqs[k])
        PROVE  [reqs[k] EXCEPT !.seen = @ \union CurrentSet(reqs[k].contract, l, t, f)]
                 \in Asking \union Ensuring \union Holding
    BY DEF Witness
  <1>2. reqs[k] \in Asking \union Ensuring \union Holding
    BY <1>1 DEF Generating, Idle, Saving
  <1>3. CurrentSet(reqs[k].contract, l, t, f) \subseteq Revisions
    BY <1>2 DEF CurrentSet, Revisions, Asking, Ensuring, Holding
  <1> QED BY <1>2, <1>3 DEF Asking, Ensuring, Holding

-----------------------------------------------------------------------------
(* Type correctness. It needs three facts about the rows: only a live      *)
(* contract has a job, only a live contract is locked by ensureJob, and    *)
(* while the publishing transaction holds the job row the row is what it   *)
(* checked; else "jobs.save" could bring a deleted row back.               *)

JobLive == \A c \in Contracts : job[c] # NoJob => life[c] = "live"

EnsuredLive ==
  \A k \in Requests : request[k].pc = "ensuring" => life[request[k].contract] = "live"

LockHeld ==
  worker.pc \in Publishing /\ worker.locked => StillClaimed(worker.contract, worker.rev)

RowInv == TypeOK /\ JobLive /\ EnsuredLive /\ LockHeld

LEMMA TypeInit == Init => TypeOK
  BY BoundsAssumption DEF Init, TypeOK, Loose

\* What the request handlers and the users do.
LEMMA TypeRequest ==
  ASSUME TypeOK, NEW k \in Requests, RequestStep(k)
  PROVE  TypeOK'
  <1> USE DEF TypeOK
  <1>1. ASSUME NEW c \in Contracts, NEW op \in {"create", "update"}, BeginSave(k, c, op)
        PROVE  TypeOK'
    BY <1>1 DEF BeginSave, Saving
  <1>2. ASSUME NEW c \in Contracts, NEW op \in Asks, Ask(k, c, op)
        PROVE  TypeOK'
    <2>1. CurrentSet(c, life, terms, face) \subseteq Revisions
      BY DEF CurrentSet, Revisions
    <2> QED BY <1>2, <2>1 DEF Ask, Asking
  <1>3. CASE CommitCreate(k)
    <2>1. request[k] \in Saving /\ request[k].contract \in Contracts
      BY <1>3 DEF CommitCreate, Idle, Asking, Ensuring, Holding, Saving
    <2>2. PICK t \in Terms : /\ terms' = [terms EXCEPT ![request[k].contract] = t]
                             /\ SaveJob(request[k].contract,
                                  Enqueue(job[request[k].contract], <<t, request[k].face>>, FALSE))
      BY <1>3 DEF CommitCreate
    <2>3. Enqueue(job[request[k].contract], <<t, request[k].face>>, FALSE) \in Job
      BY <2>1, EnqueueType DEF Saving, Revisions
    <2>4. job' \in [Contracts -> Job \union {NoJob}] /\ older' \in [Contracts -> SUBSET Contracts]
      BY <2>1, <2>2, <2>3, SaveJobType
    <2>5. worker' \in Loose \union Busy
      BY <1>3, KickType DEF CommitCreate
    <2>6. request' \in [Requests -> {Idle} \union Asking \union Ensuring \union Holding \union Saving]
      BY <1>3, <2>1, <2>2, WitnessType DEF CommitCreate
    <2> QED BY <1>3, <2>1, <2>2, <2>4, <2>5, <2>6 DEF CommitCreate
  <1>4. CASE CommitUpdate(k)
    <2>1. request[k] \in Saving /\ request[k].contract \in Contracts
      BY <1>4 DEF CommitUpdate, Idle, Asking, Ensuring, Holding, Saving
    <2>2. PICK t \in Terms : /\ terms' = [terms EXCEPT ![request[k].contract] = t]
                             /\ SaveJob(request[k].contract,
                                  Enqueue(job[request[k].contract], <<t, request[k].face>>, FALSE))
      BY <1>4 DEF CommitUpdate
    <2>3. Enqueue(job[request[k].contract], <<t, request[k].face>>, FALSE) \in Job
      BY <2>1, EnqueueType DEF Saving, Revisions
    <2>4. job' \in [Contracts -> Job \union {NoJob}] /\ older' \in [Contracts -> SUBSET Contracts]
      BY <2>1, <2>2, <2>3, SaveJobType
    <2>5. worker' \in Loose \union Busy
      BY <1>4, KickType DEF CommitUpdate
    <2>6. request' \in [Requests -> {Idle} \union Asking \union Ensuring \union Holding \union Saving]
      BY <1>4, <2>1, <2>2, WitnessType DEF CommitUpdate
    <2> QED BY <1>4, <2>1, <2>2, <2>4, <2>5, <2>6 DEF CommitUpdate
  <1>5. CASE EnsureLock(k)
    <2>1. request[k] \in Asking
      BY <1>5 DEF EnsureLock, Idle, Asking, Ensuring, Holding, Saving
    <2> QED BY <1>5, <2>1 DEF EnsureLock, Asking, Ensuring
  <1>6. CASE EnsureCommit(k)
    <2> DEFINE q == request[k]
               c == request[k].contract
               rev == <<terms[c], request[k].face>>
               queued == Enqueue(job[c], rev, q.op = "retry")
               settled == Reconcile(queued, rev \in files[c])
    <2>1. q \in Ensuring /\ c \in Contracts /\ rev \in Revisions
      BY <1>6 DEF EnsureCommit, Idle, Asking, Ensuring, Holding, Saving, Revisions
    <2>2. queued \in Job
      BY <2>1, EnqueueType
    <2>3. settled \in Job
      BY <2>2, ReconcileType
    <2>4. SaveJob(c, settled)
      BY <1>6 DEF EnsureCommit
    <2>5. job' \in [Contracts -> Job \union {NoJob}] /\ older' \in [Contracts -> SUBSET Contracts]
      BY <2>1, <2>3, <2>4, SaveJobType
    <2>6. worker' \in Loose \union Busy
      BY <1>6, KickType DEF EnsureCommit
    <2>7. request' \in [Requests -> {Idle} \union Asking \union Ensuring \union Holding \union Saving]
      <3>1. settled.rev \in Revisions
        BY <2>3 DEF Job
      <3> HIDE DEF settled
      <3>2. PICK next \in {Idle, [pc |-> "reading", op |-> q.op, contract |-> c, seen |-> q.seen,
                                  rev |-> settled.rev],
                           [pc |-> "sleeping", op |-> q.op, contract |-> c, seen |-> q.seen]} :
              /\ request' = [request EXCEPT ![k] = next]
              /\ next # Idle => q.op = "generate"
        BY <1>6, <2>1 DEF EnsureCommit, settled, Generating, Ensuring
      <3>3. next \in {Idle} \union Asking \union Holding
        BY <2>1, <3>1, <3>2 DEF Asking, Holding, Ensuring
      <3> QED BY <3>2, <3>3
    <2> QED BY <1>6, <2>5, <2>6, <2>7 DEF EnsureCommit
  <1>7. CASE ReadCache(k)
    <2>1. request[k] \in Holding
      BY <1>7 DEF ReadCache, Idle, Asking, Ensuring, Holding, Saving
    <2>2. [request[k] EXCEPT !.pc = "served"] \in Holding
      BY <2>1 DEF Holding
    <2>3. [pc |-> "sleeping", op |-> request[k].op, contract |-> request[k].contract,
           seen |-> request[k].seen] \in Asking
      BY <2>1 DEF Holding, Asking, Asks
    <2> QED BY <1>7, <2>2, <2>3 DEF ReadCache
  <1>8. CASE Answer(k)
    BY <1>8 DEF Answer
  <1> QED BY <1>1, <1>2, <1>3, <1>4, <1>5, <1>6, <1>7, <1>8 DEF RequestStep

\* What the drain loop does.
LEMMA TypeWorker ==
  ASSUME TypeOK, LockHeld, WorkerStep
  PROVE  TypeOK'
  <1> USE DEF TypeOK
  <1>1. CASE Recover
    <2>1. \A c \in Interrupted : [job[c] EXCEPT !.status = "pending"] \in Job
      BY DEF Interrupted, NoJob, Job, Statuses
    <2>2. job' \in [Contracts -> Job \union {NoJob}]
      BY <1>1, <2>1 DEF Recover
    <2>3. older' \in [Contracts -> SUBSET Contracts]
      BY <1>1 DEF Recover, Interrupted
    <2> QED BY <1>1, <2>2, <2>3 DEF Recover, Loose
  <1>2. CASE Pick
    <2>1. \A c \in Oldest : c \in Contracts /\ job[c] \in Job
      BY DEF Oldest, Pending, NoJob
    <2>2. worker' \in Loose \union Busy
      <3>1. CASE worker' = [pc |-> "leaving"]
        BY <3>1 DEF Loose
      <3>2. ASSUME NEW c \in Oldest,
                   worker' = [pc |-> "claiming", contract |-> c, rev |-> job[c].rev,
                              attempts |-> job[c].attempts, locked |-> FALSE]
            PROVE  worker' \in Busy
        BY <2>1, <3>2 DEF Busy, Job
      <3> QED BY <1>2, <3>1, <3>2 DEF Pick
    <2> QED BY <1>2, <2>2 DEF Pick
  <1>3. CASE Claim
    <2>1. worker \in Busy
      BY <1>3 DEF Claim, Loose
    <2>2. CASE Claimable(worker.contract, worker.rev)
      <3>1. [job[worker.contract] EXCEPT !.status = "processing", !.attempts = worker.attempts + 1]
              \in Job
        <4>1. job[worker.contract] \in Job /\ worker.attempts + 1 \in Nat
          BY <2>1, <2>2 DEF Claimable, Busy, NoJob
        <4> QED BY <4>1 DEF Job, Statuses
      <3> QED BY <1>3, <2>1, <2>2, <3>1, SaveJobType DEF Claim, Busy, Working
    <2>3. CASE ~Claimable(worker.contract, worker.rev)
      BY <1>3, <2>3 DEF Claim, Loose
    <2> QED BY <2>2, <2>3
  <1>4. CASE Render
    BY <1>4 DEF Render, Loose, Busy, Working
  <1>5. CASE LockForPublish
    BY <1>5 DEF LockForPublish, Loose, Busy, Working, Publishing
  <1>6. CASE WriteFile
    BY <1>6 DEF WriteFile, Loose, Busy, Working, Publishing
  <1>7. CASE CleanFiles
    <2>1. worker \in Busy
      BY <1>7 DEF CleanFiles, Loose
    <2>2. files' \in [Contracts -> SUBSET Revisions] /\ faults' \in 0..MaxFaults
      BY <1>7, <2>1, BoundsAssumption DEF CleanFiles, Busy, Fault
    <2> QED BY <1>7, <2>1, <2>2 DEF CleanFiles, Busy, Working, Publishing
  <1>8. CASE CommitPublish
    <2>1. worker \in Busy
      BY <1>8 DEF CommitPublish, Loose
    <2>2. CASE worker.locked
      <3>1. [job[worker.contract] EXCEPT !.status = "ready"] \in Job
        BY <1>8, <2>1, <2>2 DEF CommitPublish, LockHeld, StillClaimed, Publishing, Busy, Job, Statuses
      <3> QED BY <1>8, <2>1, <2>2, <3>1, SaveJobType DEF CommitPublish, Busy, Loose
    <2>3. CASE ~worker.locked
      BY <1>8, <2>1, <2>3 DEF CommitPublish, Busy, Working
    <2> QED BY <2>2, <2>3
  <1>9. CASE RecordFailure
    <2>1. worker \in Busy
      BY <1>9 DEF RecordFailure, Loose
    <2>2. CASE StillClaimed(worker.contract, worker.rev)
      <3>1. [job[worker.contract] EXCEPT !.status = "failed"] \in Job
        BY <2>1, <2>2 DEF StillClaimed, Busy, Job, Statuses
      <3> QED BY <1>9, <2>1, <2>2, <3>1, SaveJobType DEF RecordFailure, Busy, Loose
    <2>3. CASE ~StillClaimed(worker.contract, worker.rev)
      BY <1>9, <2>3 DEF RecordFailure, Loose
    <2> QED BY <2>2, <2>3
  <1>10. CASE Leave
    BY <1>10 DEF Leave, Loose
  <1> QED BY <1>1, <1>2, <1>3, <1>4, <1>5, <1>6, <1>7, <1>8, <1>9, <1>10 DEF WorkerStep

\* What users, the timer and the environment do.
Surroundings ==
  \/ \E c \in Contracts : Remove(c) \/ RemoveRollsBack(c) \/ LoseFile(c)
  \/ \E f \in Faces : UpdateUnit(f)
  \/ TimerKick
  \/ Crash \/ Stop \/ Exit \/ Restart \/ DrainRejects \/ PublishFails \/ LoseLock

LEMMA NextParts == Next = (\/ \E k \in Requests : RequestStep(k)
                           \/ WorkerStep
                           \/ Surroundings)
  BY DEF Next, Surroundings

LEMMA FaultType ==
  ASSUME faults \in 0..MaxFaults, NEW kind, Fault(kind)
  PROVE  faults' \in 0..MaxFaults
  BY BoundsAssumption DEF Fault

LEMMA TypeSurroundings ==
  ASSUME TypeOK, Surroundings
  PROVE  TypeOK'
  <1> USE DEF TypeOK
  <1>1. ASSUME NEW c \in Contracts, Remove(c)
        PROVE  TypeOK'
    <2>1. files' \in [Contracts -> SUBSET Revisions] /\ faults' \in 0..MaxFaults
      BY <1>1, FaultType DEF Remove
    <2> QED BY <1>1, <2>1 DEF Remove
  <1>2. ASSUME NEW c \in Contracts, RemoveRollsBack(c) \/ LoseFile(c)
        PROVE  TypeOK'
    BY <1>2, FaultType DEF RemoveRollsBack, LoseFile
  <1>3. ASSUME NEW f \in Faces, UpdateUnit(f)
        PROVE  TypeOK'
    BY <1>3, WitnessType DEF UpdateUnit
  <1>4. CASE TimerKick
    BY <1>4, KickType DEF TimerKick
  <1>5. CASE Crash \/ Stop \/ Exit \/ Restart
    BY <1>5, FaultType DEF Crash, Stop, Exit, Restart, Die, Loose
  <1>6. CASE DrainRejects
    BY <1>6, FaultType DEF DrainRejects, Loose
  <1>7. CASE PublishFails \/ LoseLock
    <2>1. worker \in Busy
      BY <1>7 DEF PublishFails, LoseLock, Publishing, Loose
    <2>2. worker' \in Busy
      BY <1>7, <2>1 DEF PublishFails, LoseLock, Busy, Working
    <2> QED BY <1>7, <2>2, FaultType DEF PublishFails, LoseLock
  <1> QED BY <1>1, <1>2, <1>3, <1>4, <1>5, <1>6, <1>7 DEF Surroundings

\* A request may start the loop, and otherwise leaves it alone.
LEMMA KickOnlyStarts ==
  ASSUME NEW w
  PROVE  \/ Kick(w) = w
         \/ w.pc = "idle" /\ Kick(w) = [pc |-> "scheduled"]
  BY DEF Kick

\* Only a live contract is ever locked by ensureJob, whatever request steps.
LEMMA EnsuredLiveRequest ==
  ASSUME TypeOK, EnsuredLive, NEW k \in Requests, RequestStep(k)
  PROVE  EnsuredLive'
  <1>1. ASSUME NEW c \in Contracts, life[c] = "live"
        PROVE  life'[c] = "live"
    BY <1>1 DEF TypeOK, RequestStep, BeginSave, Ask, CommitCreate, CommitUpdate, EnsureLock,
                EnsureCommit, ReadCache, Answer
  <1>2. ASSUME NEW m \in Requests, request'[m].pc = "ensuring"
        PROVE  life[request'[m].contract] = "live" /\ request'[m].contract \in Contracts
    <2>1. ASSUME request'[m] = request[m]
          PROVE  life[request[m].contract] = "live" /\ request[m].contract \in Contracts
      BY <1>2, <2>1 DEF TypeOK, EnsuredLive, Idle, Asking, Ensuring, Holding, Saving
    <2>2. CASE CommitCreate(k) \/ CommitUpdate(k)
      <3>1. request' = Witness([request EXCEPT ![k] = Idle], life', terms', face')
        BY <2>2 DEF CommitCreate, CommitUpdate
      <3>2. /\ [request EXCEPT ![k] = Idle][m].pc = "ensuring"
            /\ request'[m].contract = [request EXCEPT ![k] = Idle][m].contract
        BY <1>2, <3>1 DEF Witness
      <3> HIDE <3>1, <2>2
      <3> QED BY <3>2 DEF TypeOK, EnsuredLive, Idle, Asking, Ensuring, Holding, Saving
    <2>3. CASE EnsureLock(k)
      <3>1. request[k] \in Asking \/ request[k] \in Ensuring
        BY <2>3 DEF EnsureLock, TypeOK, Idle, Asking, Ensuring, Holding, Saving
      <3> QED BY <1>2, <2>1, <2>3, <3>1 DEF EnsureLock, TypeOK, Asking, Ensuring
    <2>4. CASE EnsureCommit(k)
      <3>1. m # k => request'[m] = request[m]
        BY <2>4 DEF EnsureCommit, TypeOK
      <3>2. request'[k].pc # "ensuring"
        BY <2>4 DEF EnsureCommit, TypeOK, Idle, Generating
      <3> QED BY <1>2, <2>1, <3>1, <3>2
    <2>5. CASE \/ \E c \in Contracts : \/ \E op \in {"create", "update"} : BeginSave(k, c, op)
                                      \/ \E op \in Asks : Ask(k, c, op)
               \/ ReadCache(k) \/ Answer(k)
      <3>1. request'[k].pc # "ensuring"
        <4>1. CASE ReadCache(k)
          BY <4>1 DEF ReadCache, TypeOK, Idle, Asking, Ensuring, Holding, Saving
        <4> QED BY <2>5, <4>1 DEF BeginSave, Ask, Answer, TypeOK, Idle
      <3>2. m # k => request'[m] = request[m]
        BY <2>5 DEF BeginSave, Ask, ReadCache, Answer, TypeOK
      <3> QED BY <1>2, <2>1, <3>1, <3>2
    <2> QED BY <2>2, <2>3, <2>4, <2>5 DEF RequestStep
  <1> QED BY <1>1, <1>2 DEF EnsuredLive

LEMMA RowRequest ==
  ASSUME RowInv, NEW k \in Requests, RequestStep(k)
  PROVE  RowInv'
  <1> USE DEF RowInv
  <1>1. TypeOK'
    BY TypeRequest
  <1>11. EnsuredLive'
    BY EnsuredLiveRequest
  <1>2. \/ UNCHANGED <<life, job, worker>>
        \/ CommitCreate(k)
        \/ CommitUpdate(k) \/ EnsureCommit(k)
    BY DEF RequestStep, BeginSave, Ask, EnsureLock, ReadCache, Answer
  <1>3. CASE UNCHANGED <<life, job, worker>>
    BY <1>1, <1>11, <1>3 DEF JobLive, LockHeld, StillClaimed
  <1>4. ASSUME NEW c \in Contracts, NEW j \in Job, SaveJob(c, j), ~JobLocked(c),
               life'[c] = "live", \A d \in Contracts \ {c} : life'[d] = life[d],
               worker' = Kick(worker)
        PROVE  RowInv'
    <2>1. JobLive'
      BY <1>4 DEF JobLive, SaveJob, TypeOK
    <2>2. LockHeld'
      BY <1>4, KickOnlyStarts DEF LockHeld, StillClaimed, SaveJob, JobLocked, TypeOK, Publishing
    <2> QED BY <1>1, <1>11, <2>1, <2>2
  <1> DEFINE c == request[k].contract
  <1>5. CASE CommitCreate(k)
    <2>1. c \in Contracts /\ request[k] \in Saving
      BY <1>5 DEF CommitCreate, TypeOK, Idle, Asking, Ensuring, Holding, Saving
    <2>2. PICK t \in Terms : SaveJob(c, Enqueue(job[c], <<t, request[k].face>>, FALSE))
      BY <1>5 DEF CommitCreate
    <2>3. Enqueue(job[c], <<t, request[k].face>>, FALSE) \in Job
      BY <2>1, EnqueueType DEF Saving, Revisions, TypeOK
    <2>4. ~JobLocked(c)
      BY <1>5, <2>1 DEF CommitCreate, JobLive, LockHeld, JobLocked, StillClaimed
    <2> QED BY <1>4, <1>5, <2>1, <2>2, <2>3, <2>4 DEF CommitCreate, TypeOK
  <1>6. CASE CommitUpdate(k)
    <2>1. c \in Contracts /\ request[k] \in Saving
      BY <1>6 DEF CommitUpdate, TypeOK, Idle, Asking, Ensuring, Holding, Saving
    <2>2. PICK t \in Terms : SaveJob(c, Enqueue(job[c], <<t, request[k].face>>, FALSE))
      BY <1>6 DEF CommitUpdate
    <2>3. Enqueue(job[c], <<t, request[k].face>>, FALSE) \in Job
      BY <2>1, EnqueueType DEF Saving, Revisions, TypeOK
    <2> QED BY <1>4, <1>6, <2>1, <2>2, <2>3 DEF CommitUpdate, TypeOK
  <1>7. CASE EnsureCommit(k)
    <2> DEFINE rev == <<terms[c], request[k].face>>
               queued == Enqueue(job[c], rev, request[k].op = "retry")
    <2>1. c \in Contracts /\ request[k] \in Ensuring /\ rev \in Revisions
      BY <1>7 DEF EnsureCommit, TypeOK, Idle, Asking, Ensuring, Holding, Saving, Revisions
    <2>2. queued \in Job
      BY <2>1, EnqueueType DEF TypeOK
    <2>3. Reconcile(queued, rev \in files[c]) \in Job
      BY <2>2, ReconcileType
    <2>4. life[c] = "live"
      BY <1>7 DEF EnsureCommit, EnsuredLive
    <2> QED BY <1>4, <1>7, <2>1, <2>3, <2>4 DEF EnsureCommit
  <1> QED BY <1>2, <1>3, <1>5, <1>6, <1>7

LEMMA RowWorker ==
  ASSUME RowInv, WorkerStep
  PROVE  RowInv'
  <1> USE DEF RowInv
  <1>1. TypeOK'
    BY TypeWorker
  <1>2. life' = life /\ request' = request
    BY DEF WorkerStep, Recover, Pick, Claim, Render, LockForPublish, WriteFile, CleanFiles,
           CommitPublish, RecordFailure, Leave
  <1>3. EnsuredLive'
    BY <1>2 DEF EnsuredLive
  <1>4. ASSUME NEW c \in Contracts, job'[c] # NoJob
        PROVE  job[c] # NoJob
    <2>1. CASE Recover
      BY <1>4, <2>1 DEF Recover, Interrupted, NoJob, TypeOK
    <2>2. CASE Claim
      BY <1>4, <2>2 DEF Claim, Claimable, SaveJob, NoJob, TypeOK
    <2>3. CASE CommitPublish
      BY <1>4, <2>3 DEF CommitPublish, SaveJob, LockHeld, StillClaimed, Publishing, TypeOK
    <2>4. CASE RecordFailure
      BY <1>4, <2>4 DEF RecordFailure, SaveJob, StillClaimed, TypeOK
    <2> QED BY <1>4, <2>1, <2>2, <2>3, <2>4
         DEF WorkerStep, Pick, Render, LockForPublish, WriteFile, CleanFiles, Leave
  <1>5. JobLive'
    BY <1>2, <1>4 DEF JobLive
  <1>6. LockHeld'
    <2>1. CASE LockForPublish
      BY <2>1 DEF LockForPublish, LockHeld, StillClaimed, Publishing, TypeOK, Loose, Busy
    <2>2. CASE WriteFile \/ CleanFiles
      BY <2>2 DEF WriteFile, CleanFiles, LockHeld, StillClaimed, Publishing, TypeOK, Loose, Busy
    <2>3. CASE Recover \/ Pick \/ Claim \/ Render \/ CommitPublish \/ RecordFailure \/ Leave
      <3>1. worker'.pc \notin Publishing
        BY <2>3 DEF Recover, Pick, Claim, Render, CommitPublish, RecordFailure, Leave, Publishing,
                    TypeOK, Loose, Busy
      <3> QED BY <3>1 DEF LockHeld
    <2> QED BY <2>1, <2>2, <2>3 DEF WorkerStep
  <1> QED BY <1>1, <1>3, <1>5, <1>6

LEMMA RowSurroundings ==
  ASSUME RowInv, Surroundings
  PROVE  RowInv'
  <1> USE DEF RowInv
  <1>1. TypeOK'
    BY TypeSurroundings
  <1>2. ASSUME NEW c \in Contracts, Remove(c)
        PROVE  RowInv'
    <2>1. JobLive'
      BY <1>2 DEF Remove, JobLive, TypeOK
    <2>2. EnsuredLive'
      BY <1>2 DEF Remove, EnsuredLive, ContractLocked, TypeOK
    <2>3. LockHeld'
      BY <1>2 DEF Remove, LockHeld, StillClaimed, JobLocked, TypeOK, Publishing, Busy, Loose
    <2> QED BY <1>1, <2>1, <2>2, <2>3
  <1>3. ASSUME NEW c \in Contracts, RemoveRollsBack(c) \/ LoseFile(c)
        PROVE  RowInv'
    BY <1>1, <1>3 DEF RemoveRollsBack, LoseFile, JobLive, EnsuredLive, LockHeld, StillClaimed
  <1>4. ASSUME NEW f \in Faces, UpdateUnit(f)
        PROVE  RowInv'
    <2>1. EnsuredLive'
      BY <1>4 DEF UpdateUnit, EnsuredLive, Witness
    <2> QED BY <1>1, <1>4, <2>1 DEF UpdateUnit, JobLive, LockHeld, StillClaimed
  <1>5. CASE TimerKick
    BY <1>1, <1>5 DEF TimerKick, Kick, JobLive, EnsuredLive, LockHeld, StillClaimed, Publishing
  <1>6. CASE Crash \/ Exit
    BY <1>1, <1>6 DEF Crash, Exit, Die, JobLive, EnsuredLive, LockHeld, Publishing, Idle
  <1>7. CASE Stop
    BY <1>1, <1>7 DEF Stop, JobLive, EnsuredLive, LockHeld, StillClaimed
  <1>8. CASE Restart \/ DrainRejects
    BY <1>1, <1>8 DEF Restart, DrainRejects, JobLive, EnsuredLive, LockHeld, Publishing
  <1>9. CASE PublishFails \/ LoseLock
    <2>1. worker \in Busy
      BY <1>9 DEF PublishFails, LoseLock, Publishing, TypeOK, Loose
    <2>2. LockHeld'
      BY <1>9, <2>1 DEF PublishFails, LoseLock, LockHeld, Busy
    <2> QED BY <1>1, <1>9, <2>2 DEF PublishFails, LoseLock, JobLive, EnsuredLive
  <1> QED BY <1>2, <1>3, <1>4, <1>5, <1>6, <1>7, <1>8, <1>9 DEF Surroundings

\* The rows are what the code takes them for in every reachable state.
THEOREM RowsCorrect == Spec => []RowInv
  <1>1. Init => RowInv
    BY TypeInit DEF Init, RowInv, JobLive, EnsuredLive, LockHeld, Publishing, Idle
  <1>2. RowInv /\ [Next]_vars => RowInv'
    <2>1. ASSUME RowInv, UNCHANGED vars
          PROVE  RowInv'
      BY <2>1 DEF vars, RowInv, TypeOK, JobLive, EnsuredLive, LockHeld, StillClaimed
    <2> QED BY <2>1, NextParts, RowRequest, RowWorker, RowSurroundings
  <1> QED BY <1>1, <1>2, PTL DEF Spec

\* Every variable keeps its type: in particular no step of the drain loop
\* writes a job row that is not there any more.
THEOREM TypeCorrect == Spec => []TypeOK
  <1>1. RowInv => TypeOK
    BY DEF RowInv
  <1> QED BY <1>1, RowsCorrect, PTL

-----------------------------------------------------------------------------
(* The rows and the disk. While the publishing transaction works, it holds *)
(* its lock (unless a connection may be lost), so the row it saves as      *)
(* "ready" is the row whose file it has just renamed into place.           *)

LEMMA ReconcileResult ==
  ASSUME NEW j \in Job, NEW cached
  PROVE  /\ Reconcile(j, cached).rev = j.rev
         /\ Reconcile(j, cached).status = "ready" => cached
         /\ Reconcile(j, cached).status = "processing" => Reconcile(j, cached) = j
  BY DEF Reconcile, Job

\* What a request leaves in the one job row it may write.
LEMMA RequestJob ==
  ASSUME RowInv, NEW k \in Requests, RequestStep(k)
  PROVE  /\ files' = files
         /\ \A c \in Contracts : life[c] = "live" => life'[c] = "live"
         /\ \A c \in Contracts :
              \/ job'[c] = job[c]
              \/ ~JobLocked(c) /\ job'[c].status = "ready" /\ job'[c].rev \in files[c]
              \/ ~JobLocked(c) /\ job'[c].status \in {"pending", "failed"}
         /\ worker' = worker \/ (worker.pc = "idle" /\ worker' = [pc |-> "scheduled"])
  <1> USE DEF RowInv
  <1> DEFINE c == request[k].contract
             Goal == /\ files' = files
                     /\ \A d \in Contracts : life[d] = "live" => life'[d] = "live"
                     /\ \A d \in Contracts :
                          \/ job'[d] = job[d]
                          \/ ~JobLocked(d) /\ job'[d].status = "ready" /\ job'[d].rev \in files[d]
                          \/ ~JobLocked(d) /\ job'[d].status \in {"pending", "failed"}
                     /\ worker' = worker \/ (worker.pc = "idle" /\ worker' = [pc |-> "scheduled"])
  <1>1. CASE CommitCreate(k) \/ CommitUpdate(k)
    <2>0. request[k].pc = "saving"
      BY <1>1 DEF CommitCreate, CommitUpdate
    <2>1. c \in Contracts /\ request[k] \in Saving /\ job[c] \in Job \union {NoJob}
      BY <2>0 DEF TypeOK, Idle, Asking, Ensuring, Holding, Saving
    <2>2. PICK t \in Terms : SaveJob(c, Enqueue(job[c], <<t, request[k].face>>, FALSE))
      BY <1>1 DEF CommitCreate, CommitUpdate
    <2>3. job'[c] = job[c] \/ job'[c].status = "pending"
      <3>1. <<t, request[k].face>> \in Revisions
        BY <2>1 DEF Saving, Revisions
      <3> QED BY <2>1, <2>2, <3>1, EnqueueType DEF SaveJob, TypeOK
    <2>4. ~JobLocked(c)
      BY <1>1, <2>1 DEF CommitCreate, CommitUpdate, JobLive, LockHeld, JobLocked, StillClaimed
    <2>5. \A d \in Contracts : job'[d] = job[d] \/ (~JobLocked(d) /\ job'[d].status = "pending")
      BY <2>2, <2>3, <2>4 DEF SaveJob, TypeOK
    <2>6. worker' = worker \/ (worker.pc = "idle" /\ worker' = [pc |-> "scheduled"])
      BY <1>1, KickOnlyStarts DEF CommitCreate, CommitUpdate
    <2>7. files' = files /\ \A d \in Contracts : life[d] = "live" => life'[d] = "live"
      BY <1>1, <2>1 DEF CommitCreate, CommitUpdate, TypeOK
    <2> QED BY <2>5, <2>6, <2>7
  <1>2. CASE EnsureCommit(k)
    <2> DEFINE rev == <<terms[c], request[k].face>>
               queued == Enqueue(job[c], rev, request[k].op = "retry")
               settled == Reconcile(queued, rev \in files[c])
    <2>1. c \in Contracts /\ request[k] \in Ensuring /\ rev \in Revisions
      BY <1>2 DEF EnsureCommit, TypeOK, Idle, Asking, Ensuring, Holding, Saving, Revisions
    <2>2. queued \in Job /\ queued.rev = rev /\ (queued = job[c] \/ queued.status = "pending")
      BY <2>1, EnqueueType DEF TypeOK
    <2>3. /\ settled \in Job /\ settled.rev = rev
          /\ settled.status = "ready" => rev \in files[c]
          /\ settled.status = "processing" => settled = queued
      <3> HIDE DEF queued, rev
      <3> QED BY <2>2, ReconcileType, ReconcileResult
    <2>4. SaveJob(c, settled) /\ ~JobLocked(c)
      BY <1>2 DEF EnsureCommit
    <2>5. settled.status # "processing" \/ settled = job[c]
      <3> HIDE DEF settled, queued
      <3> QED BY <2>2, <2>3
    <2>6. \A d \in Contracts :
            \/ job'[d] = job[d]
            \/ ~JobLocked(d) /\ job'[d].status = "ready" /\ job'[d].rev \in files[d]
            \/ ~JobLocked(d) /\ job'[d].status \in {"pending", "failed"}
      <3> HIDE DEF settled, rev
      <3>1. settled.status \in Statuses
        BY <2>3 DEF Job
      <3> QED BY <2>3, <2>4, <2>5, <3>1 DEF SaveJob, TypeOK, Statuses
    <2>7. worker' = worker \/ (worker.pc = "idle" /\ worker' = [pc |-> "scheduled"])
      BY <1>2, KickOnlyStarts DEF EnsureCommit
    <2>8. files' = files /\ life' = life
      BY <1>2 DEF EnsureCommit
    <2> QED BY <2>6, <2>7, <2>8
  <1>3. CASE UNCHANGED <<files, life, job, worker>>
    BY <1>3
  <1>4. UNCHANGED <<files, life, job, worker>> \/ CommitCreate(k) \/ CommitUpdate(k) \/ EnsureCommit(k)
    BY DEF RequestStep, BeginSave, Ask, EnsureLock, ReadCache, Answer
  <1> QED BY <1>1, <1>2, <1>3, <1>4

LocksKept == "lock" \notin Faults => (worker.pc \in Publishing => worker.locked)

Written ==
  Faults \intersect {"lock", "loss", "rollback"} = {} =>
    (worker.pc \in {"cleaning", "committing"} => worker.rev \in files[worker.contract])

OnlyLiveOnDisk ==
  Faults \intersect {"lock", "unlink"} = {} => \A c \in Contracts : life[c] # "live" => files[c] = {}

DiskInv == LocksKept /\ Written /\ OnlyLiveOnDisk /\ ReadyIsOnDisk /\ ProcessingIsOwned

LEMMA DiskRequest ==
  ASSUME RowInv, DiskInv, NEW k \in Requests, RequestStep(k)
  PROVE  DiskInv'
  <1> USE DEF DiskInv
  <1>1. /\ files' = files
        /\ \A c \in Contracts : life[c] = "live" => life'[c] = "live"
        /\ \A c \in Contracts :
             \/ job'[c] = job[c]
             \/ job'[c].status = "ready" /\ job'[c].rev \in files[c]
             \/ job'[c].status \in {"pending", "failed"}
        /\ worker' = worker \/ (worker.pc = "idle" /\ worker' = [pc |-> "scheduled"])
    BY RequestJob
  <1>2. \A c \in Contracts : job'[c].status = "processing" => job'[c] = job[c]
    BY <1>1
  <1>3. LocksKept' /\ Written'
    BY <1>1 DEF LocksKept, Written, Publishing
  <1>4. OnlyLiveOnDisk'
    BY <1>1 DEF OnlyLiveOnDisk
  <1>5. ReadyIsOnDisk'
    BY <1>1 DEF ReadyIsOnDisk
  <1>6. ProcessingIsOwned'
    BY <1>1, <1>2 DEF ProcessingIsOwned, Interrupted, Working, Publishing
  <1> QED BY <1>3, <1>4, <1>5, <1>6

LEMMA DiskWorker ==
  ASSUME RowInv, DiskInv, WorkerStep
  PROVE  DiskInv'
  <1> USE DEF DiskInv
  <1>t. TypeOK /\ LockHeld /\ JobLive
    BY DEF RowInv
  <1> DEFINE c == worker.contract
             r == worker.rev
  <1>1. CASE Recover
    <2>1. Interrupted' = {} \/ (job' = job /\ worker'.pc = "leaving")
      BY <1>1, <1>t DEF Recover, Interrupted, TypeOK, Job, NoJob
    <2>2. \A d \in Contracts : job'[d].status = "ready" => job'[d] = job[d]
      BY <1>1, <1>t DEF Recover, Interrupted, TypeOK, Job, NoJob
    <2>3. worker'.pc \in {"picking", "leaving"} /\ files' = files /\ life' = life
      BY <1>1 DEF Recover
    <2>4. ProcessingIsOwned'
      BY <2>1, <2>3 DEF ProcessingIsOwned, Interrupted
    <2>5. ReadyIsOnDisk'
      BY <2>2, <2>3 DEF ReadyIsOnDisk
    <2> QED BY <2>3, <2>4, <2>5 DEF LocksKept, Written, OnlyLiveOnDisk, Publishing
  <1>2. CASE Pick \/ Render \/ Leave
    <2>1. UNCHANGED <<job, files, life>> /\ worker'.pc \notin Publishing
      BY <1>2, <1>t DEF Pick, Render, Leave, Publishing, TypeOK, Loose, Busy
    <2>2. ProcessingIsOwned'
      BY <1>2, <1>t, <2>1
         DEF Pick, Render, Leave, ProcessingIsOwned, Interrupted, Working, Publishing, TypeOK, Loose, Busy
    <2> QED BY <2>1, <2>2 DEF LocksKept, Written, OnlyLiveOnDisk, ReadyIsOnDisk, Publishing
  <1>3. CASE Claim
    <2>1. worker \in Busy /\ c \in Contracts /\ Interrupted = {}
      BY <1>3, <1>t DEF Claim, TypeOK, Loose, Busy, ProcessingIsOwned, Working, Publishing
    <2>2. CASE Claimable(c, r)
      <3>1. /\ job' = [job EXCEPT ![c] = [job[c] EXCEPT !.status = "processing",
                                                        !.attempts = worker.attempts + 1]]
            /\ worker' = [worker EXCEPT !.pc = "rendering"]
            /\ files' = files /\ life' = life
        BY <1>3, <2>2 DEF Claim, SaveJob
      <3>2. job[c] \in Job /\ job[c].rev = r
        BY <2>1, <2>2, <1>t DEF Claimable, TypeOK, NoJob
      <3>3. job'[c].status = "processing" /\ job'[c].rev = r
        BY <2>1, <3>1, <3>2, <1>t DEF TypeOK, Job
      <3>4. \A d \in Contracts \ {c} : job'[d] = job[d]
        BY <3>1, <1>t DEF TypeOK
      <3>5. worker'.pc = "rendering" /\ worker'.contract = c /\ worker'.rev = r
        BY <2>1, <3>1 DEF Busy
      <3>6. ProcessingIsOwned'
        BY <2>1, <3>3, <3>4, <3>5 DEF ProcessingIsOwned, Interrupted, Working
      <3>7. ReadyIsOnDisk'
        BY <2>1, <3>1, <3>3, <3>4 DEF ReadyIsOnDisk
      <3> QED BY <3>1, <3>5, <3>6, <3>7 DEF LocksKept, Written, OnlyLiveOnDisk, Publishing
    <2>3. CASE ~Claimable(c, r)
      <3>1. worker' = [pc |-> "picking"] /\ UNCHANGED <<job, files, life>>
        BY <1>3, <2>3 DEF Claim
      <3> QED BY <2>1, <3>1 DEF LocksKept, Written, OnlyLiveOnDisk, ReadyIsOnDisk,
                                ProcessingIsOwned, Interrupted, Publishing
    <2> QED BY <2>2, <2>3
  <1>4. CASE LockForPublish
    <2>1. worker \in Busy /\ UNCHANGED <<job, files, life>>
      BY <1>4, <1>t DEF LockForPublish, TypeOK, Loose
    <2>2. CASE StillClaimed(c, r)
      <3>1. worker' = [worker EXCEPT !.pc = "writing", !.locked = TRUE]
        BY <1>4, <2>2 DEF LockForPublish
      <3> QED BY <1>4, <2>1, <3>1 DEF LockForPublish, LocksKept, Written, OnlyLiveOnDisk, ReadyIsOnDisk,
                                ProcessingIsOwned, Interrupted, Publishing, Working, Busy
    <2>3. CASE ~StillClaimed(c, r)
      <3>1. worker' = [pc |-> "picking"]
        BY <1>4, <2>3 DEF LockForPublish
      <3>2. Interrupted = {}
        BY <1>4, <1>t, <2>3 DEF LockForPublish, ProcessingIsOwned, Interrupted, StillClaimed, NoJob
      <3> QED BY <2>1, <3>1, <3>2 DEF LocksKept, Written, OnlyLiveOnDisk, ReadyIsOnDisk,
                                ProcessingIsOwned, Interrupted, Publishing
    <2> QED BY <2>2, <2>3
  <1>5. CASE WriteFile
    <2>1. worker \in Busy /\ c \in Contracts /\ UNCHANGED <<job, life>>
      BY <1>5, <1>t DEF WriteFile, TypeOK, Loose, Busy
    <2>2. /\ worker' = [worker EXCEPT !.pc = "cleaning"]
          /\ files' = [files EXCEPT ![c] = @ \union {r}]
      BY <1>5 DEF WriteFile
    <2>3. "lock" \notin Faults => life[c] = "live"
      BY <1>5, <1>t, <2>1 DEF WriteFile, LocksKept, LockHeld, StillClaimed, JobLive, Publishing
    <2>4. LocksKept' /\ ProcessingIsOwned'
      BY <1>5, <2>1, <2>2
         DEF WriteFile, LocksKept, ProcessingIsOwned, Interrupted, Publishing, Working, Busy
    <2>5. Written' /\ ReadyIsOnDisk'
      BY <1>t, <2>1, <2>2 DEF Written, ReadyIsOnDisk, TypeOK, Busy
    <2>6. OnlyLiveOnDisk'
      BY <1>t, <2>1, <2>2, <2>3 DEF OnlyLiveOnDisk, TypeOK
    <2> QED BY <2>4, <2>5, <2>6
  <1>6. CASE CleanFiles
    <2>1. worker \in Busy /\ c \in Contracts /\ UNCHANGED <<job, life>>
      BY <1>6, <1>t DEF CleanFiles, TypeOK, Loose, Busy
    <2>2. worker' = [worker EXCEPT !.pc = "committing"]
      BY <1>6 DEF CleanFiles
    <2>3. PICK left \in SUBSET files[c] :
            files' = [files EXCEPT ![c] = left \union (files[c] \intersect {r})]
      <3>1. CASE files' = [files EXCEPT ![c] = @ \intersect {r}]
        BY <3>1, <1>t, <2>1, {} \union (files[c] \intersect {r}) = files[c] \intersect {r} DEF TypeOK
      <3> QED BY <1>6, <3>1 DEF CleanFiles
    <2>4. LocksKept' /\ ProcessingIsOwned'
      BY <1>6, <2>1, <2>2
         DEF CleanFiles, LocksKept, ProcessingIsOwned, Interrupted, Publishing, Working, Busy
    <2>5. Written'
      BY <1>6, <1>t, <2>1, <2>2, <2>3 DEF CleanFiles, Written, TypeOK, Busy
    <2>6. "lock" \notin Faults => job[c].status = "processing"
      BY <1>6, <1>t DEF CleanFiles, LocksKept, LockHeld, StillClaimed, Publishing
    <2>7. ReadyIsOnDisk'
      BY <1>t, <2>1, <2>3, <2>6 DEF ReadyIsOnDisk, TypeOK
    <2>8. OnlyLiveOnDisk'
      BY <1>t, <2>1, <2>3 DEF OnlyLiveOnDisk, TypeOK
    <2> QED BY <2>4, <2>5, <2>7, <2>8
  <1>7. CASE CommitPublish
    <2>1. worker \in Busy /\ c \in Contracts /\ UNCHANGED <<files, life>>
      BY <1>7, <1>t DEF CommitPublish, TypeOK, Loose, Busy
    <2>2. CASE worker.locked
      <3>1. StillClaimed(c, r)
        BY <1>7, <1>t, <2>2 DEF CommitPublish, LockHeld, Publishing
      <3>2. /\ job' = [job EXCEPT ![c] = [job[c] EXCEPT !.status = "ready"]]
            /\ worker' = [pc |-> "picking"]
        BY <1>7, <2>2 DEF CommitPublish, SaveJob
      <3>3. job[c] \in Job
        BY <1>t, <2>1, <3>1 DEF StillClaimed, TypeOK
      <3>4. /\ job'[c].status = "ready" /\ job'[c].rev = r
            /\ \A d \in Contracts \ {c} : job'[d] = job[d]
        BY <1>t, <2>1, <3>1, <3>2, <3>3 DEF StillClaimed, TypeOK, Job
      <3>5. Interrupted' = {}
        BY <1>7, <2>1, <3>4 DEF CommitPublish, ProcessingIsOwned, Interrupted
      <3>6. ReadyIsOnDisk'
        BY <1>7, <2>1, <3>4 DEF CommitPublish, ReadyIsOnDisk, Written
      <3> QED BY <2>1, <3>2, <3>5, <3>6
           DEF LocksKept, Written, OnlyLiveOnDisk, ProcessingIsOwned, Publishing
    <2>3. CASE ~worker.locked
      <3>1. worker' = [worker EXCEPT !.pc = "failing"] /\ job' = job
        BY <1>7, <2>3 DEF CommitPublish
      <3> QED BY <1>7, <2>1, <3>1 DEF CommitPublish, LocksKept, Written, OnlyLiveOnDisk, ReadyIsOnDisk,
                                ProcessingIsOwned, Interrupted, Publishing, Working, Busy
    <2> QED BY <2>2, <2>3
  <1>8. CASE RecordFailure
    <2>1. worker \in Busy /\ c \in Contracts /\ UNCHANGED <<files, life>>
      BY <1>8, <1>t DEF RecordFailure, TypeOK, Loose, Busy
    <2>2. CASE process = "up" /\ StillClaimed(c, r)
      <3>1. /\ job' = [job EXCEPT ![c] = [job[c] EXCEPT !.status = "failed"]]
            /\ worker' = [pc |-> "picking"]
        BY <1>8, <2>2 DEF RecordFailure, SaveJob
      <3>2. job[c] \in Job
        BY <1>t, <2>1, <2>2 DEF StillClaimed, TypeOK
      <3>3. /\ job'[c].status = "failed"
            /\ \A d \in Contracts \ {c} : job'[d] = job[d]
        BY <1>t, <2>1, <3>1, <3>2 DEF TypeOK, Job
      <3>4. Interrupted' = {}
        BY <1>8, <2>1, <3>3 DEF RecordFailure, ProcessingIsOwned, Interrupted
      <3> QED BY <2>1, <3>1, <3>3, <3>4
           DEF LocksKept, Written, OnlyLiveOnDisk, ReadyIsOnDisk, ProcessingIsOwned, Publishing
    <2>3. CASE process = "up" /\ ~StillClaimed(c, r)
      <3>1. job' = job /\ worker' = [pc |-> "picking"]
        BY <1>8, <2>3 DEF RecordFailure
      <3>2. Interrupted = {}
        BY <1>8, <1>t, <2>3 DEF RecordFailure, ProcessingIsOwned, Interrupted, StillClaimed, NoJob
      <3> QED BY <2>1, <3>1, <3>2
           DEF LocksKept, Written, OnlyLiveOnDisk, ReadyIsOnDisk, ProcessingIsOwned, Interrupted, Publishing
    <2>4. CASE process # "up"
      <3>1. job' = job /\ worker' = [pc |-> "leaving"]
        BY <1>8, <2>4 DEF RecordFailure
      <3> QED BY <2>1, <3>1
           DEF LocksKept, Written, OnlyLiveOnDisk, ReadyIsOnDisk, ProcessingIsOwned, Interrupted, Publishing
    <2> QED BY <2>2, <2>3, <2>4
  <1> QED BY <1>1, <1>2, <1>3, <1>4, <1>5, <1>6, <1>7, <1>8 DEF WorkerStep

LEMMA DiskSurroundings ==
  ASSUME RowInv, DiskInv, Surroundings
  PROVE  DiskInv'
  <1> USE DEF DiskInv
  <1>t. TypeOK /\ LockHeld /\ JobLive
    BY DEF RowInv
  <1>1. ASSUME NEW c \in Contracts, Remove(c)
        PROVE  DiskInv'
    <2>1. /\ worker' = worker /\ ~JobLocked(c)
          /\ job' = [job EXCEPT ![c] = NoJob] /\ life' = [life EXCEPT ![c] = "deleted"]
          /\ \E left \in SUBSET files[c] :
               /\ files' = [files EXCEPT ![c] = left]
               /\ "unlink" \notin Faults => left = {}
      BY <1>1 DEF Remove, Fault
    <2>2. \A d \in Contracts \ {c} : job'[d] = job[d] /\ files'[d] = files[d] /\ life'[d] = life[d]
      BY <1>t, <2>1 DEF TypeOK
    <2>3. job'[c].status = "none"
      BY <1>t, <2>1 DEF TypeOK, NoJob
    <2>4. LocksKept' /\ ProcessingIsOwned'
      BY <1>1, <2>1, <2>2, <2>3 DEF LocksKept, ProcessingIsOwned, Interrupted
    <2>5. Written'
      BY <1>t, <2>1, <2>2 DEF Written, LocksKept, JobLocked, Publishing, TypeOK, Loose, Busy
    <2>6. OnlyLiveOnDisk'
      BY <1>t, <2>1, <2>2 DEF OnlyLiveOnDisk, TypeOK
    <2>7. ReadyIsOnDisk'
      BY <2>2, <2>3 DEF ReadyIsOnDisk
    <2> QED BY <2>4, <2>5, <2>6, <2>7
  <1>2. ASSUME NEW c \in Contracts, RemoveRollsBack(c) \/ LoseFile(c)
        PROVE  DiskInv'
    <2>1. /\ UNCHANGED <<worker, job, life>>
          /\ Faults \intersect {"loss", "rollback"} # {}
          /\ \A d \in Contracts : files'[d] \subseteq files[d]
      BY <1>2, <1>t DEF RemoveRollsBack, LoseFile, Fault, TypeOK
    <2> QED BY <2>1 DEF LocksKept, Written, OnlyLiveOnDisk, ReadyIsOnDisk, ProcessingIsOwned, Interrupted
  <1>3. CASE Stop \/ \E f \in Faces : UpdateUnit(f)
    BY <1>3 DEF Stop, UpdateUnit, LocksKept, Written, OnlyLiveOnDisk, ReadyIsOnDisk, ProcessingIsOwned,
                Interrupted
  <1>4. CASE TimerKick \/ Crash \/ Exit \/ Restart \/ DrainRejects
    <2>1. /\ UNCHANGED <<job, files, life>>
          /\ worker'.pc \in {"idle", "scheduled", "leaving"}
      BY <1>4 DEF TimerKick, Kick, Crash, Exit, Die, Restart, DrainRejects
    <2> QED BY <2>1 DEF LocksKept, Written, OnlyLiveOnDisk, ReadyIsOnDisk, ProcessingIsOwned,
                        Interrupted, Publishing
  <1>5. CASE PublishFails
    <2>1. worker \in Busy /\ UNCHANGED <<job, files, life>>
      BY <1>5, <1>t DEF PublishFails, Publishing, TypeOK, Loose
    <2>2. worker' = [worker EXCEPT !.pc = "failing", !.locked = FALSE]
      BY <1>5 DEF PublishFails
    <2> QED BY <1>5, <2>1, <2>2 DEF PublishFails, LocksKept, Written, OnlyLiveOnDisk, ReadyIsOnDisk,
                                    ProcessingIsOwned, Interrupted, Publishing, Working, Busy
  <1>6. CASE LoseLock
    <2>1. worker \in Busy /\ UNCHANGED <<job, files, life>> /\ "lock" \in Faults
      BY <1>6, <1>t DEF LoseLock, Fault, Publishing, TypeOK, Loose
    <2>2. worker' = [worker EXCEPT !.locked = FALSE]
      BY <1>6 DEF LoseLock
    <2> QED BY <2>1, <2>2 DEF LocksKept, Written, OnlyLiveOnDisk, ReadyIsOnDisk,
                              ProcessingIsOwned, Interrupted, Busy
  <1> QED BY <1>1, <1>2, <1>3, <1>4, <1>5, <1>6 DEF Surroundings

LEMMA DiskInvariant == Spec => [](RowInv /\ DiskInv)
  <1>1. Init => DiskInv
    BY DEF Init, DiskInv, LocksKept, Written, OnlyLiveOnDisk, ReadyIsOnDisk, ProcessingIsOwned,
           Interrupted, Publishing, NoJob
  <1>2. RowInv /\ DiskInv /\ [Next]_vars => DiskInv'
    <2>1. ASSUME DiskInv, UNCHANGED vars
          PROVE  DiskInv'
      BY <2>1 DEF vars, DiskInv, LocksKept, Written, OnlyLiveOnDisk, ReadyIsOnDisk,
                  ProcessingIsOwned, Interrupted
    <2> QED BY <2>1, NextParts, DiskRequest, DiskWorker, DiskSurroundings
  <1> QED BY <1>1, <1>2, RowsCorrect, PTL DEF Spec

\* remove() against the drain loop: nothing of a deleted contract is left, in
\* the table or on the disk, when locks last and unlink succeeds.
THEOREM DeletedLeavesNothingHolds == Spec => []DeletedLeavesNothing
  <1>1. RowInv /\ DiskInv => DeletedLeavesNothing
    BY DEF RowInv, JobLive, DiskInv, OnlyLiveOnDisk, DeletedLeavesNothing, TypeOK
  <1> QED BY <1>1, DiskInvariant, PTL

\* A "ready" row has its file, when only the queue itself removes files.
THEOREM ReadyIsOnDiskHolds == Spec => []ReadyIsOnDisk
  <1>1. RowInv /\ DiskInv => ReadyIsOnDisk
    BY DEF DiskInv
  <1> QED BY <1>1, DiskInvariant, PTL

\* Rows and the disk agree, each half under the failures it names.
THEOREM FilesAlwaysFollowRows == Spec => []FilesFollowRows
  <1>1. DeletedLeavesNothing /\ ReadyIsOnDisk => FilesFollowRows
    BY DEF FilesFollowRows
  <1> QED BY <1>1, DeletedLeavesNothingHolds, ReadyIsOnDiskHolds, PTL

\* A "processing" row belongs to the running render or to the next recovery,
\* under every failure: no row is lost in "processing" and none is owned twice.
THEOREM ProcessingIsOwnedHolds == Spec => []ProcessingIsOwned
  <1>1. RowInv /\ DiskInv => ProcessingIsOwned
    BY DEF DiskInv
  <1> QED BY <1>1, DiskInvariant, PTL

\* The drain loop never removes the cache file of the revision a row names,
\* when locks last: what it cleans up after is older than the row.
THEOREM CurrentFileKeptHolds == Spec => CurrentFileKept
  <1> DEFINE Kept == \A c \in Contracts :
               "lock" \notin Faults /\ worker' # worker /\ job[c] # NoJob /\ job[c].rev \in files[c]
                 => job[c].rev \in files'[c]
  <1>1. RowInv /\ DiskInv /\ [Next]_vars => [Kept]_vars
    <2> SUFFICES ASSUME RowInv, DiskInv, Next, NEW c \in Contracts, "lock" \notin Faults,
                        worker' # worker, job[c] # NoJob, job[c].rev \in files[c]
                 PROVE  job[c].rev \in files'[c]
      OBVIOUS
    <2>t. TypeOK /\ LockHeld
      BY DEF RowInv
    <2>1. CASE CleanFiles
      <3>1. StillClaimed(worker.contract, worker.rev) /\ worker.contract \in Contracts
        BY <2>1, <2>t DEF CleanFiles, DiskInv, LocksKept, LockHeld, Publishing, TypeOK, Loose, Busy
      <3>2. /\ worker.rev \in files[worker.contract] => worker.rev \in files'[worker.contract]
            /\ \A d \in Contracts \ {worker.contract} : files'[d] = files[d]
        BY <2>1, <2>t, <3>1 DEF CleanFiles, TypeOK
      <3> QED BY <3>1, <3>2 DEF StillClaimed
    <2>2. CASE WriteFile
      BY <2>2, <2>t DEF WriteFile, TypeOK, Busy, Loose
    <2>3. CASE UNCHANGED files
      BY <2>3
    <2>4. \/ CleanFiles \/ WriteFile \/ UNCHANGED files
      BY NextParts, RequestJob
         DEF WorkerStep, Recover, Pick, Claim, Render, LockForPublish, CommitPublish, RecordFailure, Leave,
             Surroundings, Remove, RemoveRollsBack, LoseFile, UpdateUnit, TimerKick, Crash, Exit, Die, Stop,
             Restart, DrainRejects, PublishFails, LoseLock
    <2> QED BY <2>1, <2>2, <2>3, <2>4
  <1> QED BY <1>1, DiskInvariant, PTL DEF Spec, CurrentFileKept

-----------------------------------------------------------------------------
(* The count of renders. The loop carries its own copy of the attempts from *)
(* Pick to Claim, while requests may write the row; the copy stays as large *)
(* as the row's count whenever the row still names the revision.            *)

LEMMA EnqueueCount ==
  ASSUME NEW j \in Job \union {NoJob}, NEW r \in Revisions, NEW retry \in BOOLEAN
  PROVE  /\ j = NoJob \/ j.rev # r => Enqueue(j, r, retry).attempts = 0
         /\ j # NoJob /\ j.rev = r =>
              /\ Enqueue(j, r, retry).attempts = j.attempts
              /\ Enqueue(j, r, retry) = j \/ j.status = "failed"
  BY DEF Enqueue

LEMMA ReconcileCount ==
  ASSUME NEW j \in Job, NEW cached
  PROVE  /\ Reconcile(j, cached).rev = j.rev
         /\ Reconcile(j, cached).attempts = j.attempts
         /\ Reconcile(j, cached).status = "pending" =>
              j.status = "pending" \/ (j.status = "ready" /\ ~cached)
  BY DEF Reconcile, Job

\* A request's row counts on for the same revision and from 0 for another, and
\* it queues a revision again for a failure or for a missing file only.
CountsOn(c) ==
  /\ job'[c] \in Job
  /\ job[c] = NoJob \/ job[c].rev # job'[c].rev => job'[c].attempts = 0
  /\ job[c] # NoJob /\ job[c].rev = job'[c].rev =>
       /\ job'[c].attempts = job[c].attempts
       /\ job'[c].status = "pending" =>
            \/ job[c].status \in {"pending", "failed"}
            \/ job[c].status = "ready" /\ job[c].rev \notin files[c]

LEMMA RequestCounts ==
  ASSUME RowInv, NEW k \in Requests, RequestStep(k), NEW d \in Contracts
  PROVE  job'[d] = job[d] \/ CountsOn(d)
  <1>t. TypeOK
    BY DEF RowInv
  <1> DEFINE c == request[k].contract
  <1>1. CASE CommitCreate(k) \/ CommitUpdate(k)
    <2>1. request[k].pc = "saving"
      BY <1>1 DEF CommitCreate, CommitUpdate
    <2>2. c \in Contracts /\ request[k] \in Saving /\ job[c] \in Job \union {NoJob}
      BY <1>t, <2>1 DEF TypeOK, Idle, Asking, Ensuring, Holding, Saving
    <2>3. PICK t \in Terms : SaveJob(c, Enqueue(job[c], <<t, request[k].face>>, FALSE))
      BY <1>1 DEF CommitCreate, CommitUpdate
    <2>4. PICK rev \in Revisions : rev = <<t, request[k].face>>
      BY <2>2 DEF Saving, Revisions
    <2>5. d # c => job'[d] = job[d]
      BY <1>t, <2>2, <2>3 DEF SaveJob, TypeOK
    <2>6. job'[c] = Enqueue(job[c], rev, FALSE)
      BY <1>t, <2>2, <2>3, <2>4 DEF SaveJob, TypeOK
    <2>7. /\ job'[c] \in Job /\ job'[c].rev = rev
          /\ job[c] = NoJob \/ job[c].rev # rev => job'[c].attempts = 0
          /\ job[c] # NoJob /\ job[c].rev = rev =>
               job'[c].attempts = job[c].attempts /\ (job'[c] = job[c] \/ job[c].status = "failed")
      <3>1. Enqueue(job[c], rev, FALSE) \in Job /\ Enqueue(job[c], rev, FALSE).rev = rev
        BY <2>2, EnqueueType
      <3>2. /\ job[c] = NoJob \/ job[c].rev # rev => Enqueue(job[c], rev, FALSE).attempts = 0
            /\ job[c] # NoJob /\ job[c].rev = rev =>
                 /\ Enqueue(job[c], rev, FALSE).attempts = job[c].attempts
                 /\ Enqueue(job[c], rev, FALSE) = job[c] \/ job[c].status = "failed"
        BY <2>2, EnqueueCount
      <3> QED BY <2>6, <3>1, <3>2
    <2>8. CountsOn(c) \/ job'[c] = job[c]
      BY <2>7 DEF CountsOn
    <2> QED BY <2>5, <2>8
  <1>2. CASE EnsureCommit(k)
    <2> DEFINE rev == <<terms[c], request[k].face>>
               retry == request[k].op = "retry"
               queued == Enqueue(job[c], rev, retry)
               settled == Reconcile(queued, rev \in files[c])
    <2>1. c \in Contracts /\ request[k] \in Ensuring /\ rev \in Revisions /\ job[c] \in Job \union {NoJob}
      BY <1>2, <1>t DEF EnsureCommit, TypeOK, Idle, Asking, Ensuring, Holding, Saving, Revisions
    <2>2. SaveJob(c, settled)
      BY <1>2 DEF EnsureCommit
    <2>3. (d # c => job'[d] = job[d]) /\ job'[c] = settled
      <3> HIDE DEF settled
      <3> QED BY <1>t, <2>1, <2>2 DEF SaveJob, TypeOK
    <2>4. /\ queued \in Job /\ queued.rev = rev
          /\ job[c] = NoJob \/ job[c].rev # rev => queued.attempts = 0
          /\ job[c] # NoJob /\ job[c].rev = rev =>
               queued.attempts = job[c].attempts /\ (queued = job[c] \/ job[c].status = "failed")
      <3>1. retry \in BOOLEAN
        OBVIOUS
      <3> HIDE DEF rev, retry
      <3> QED BY <2>1, <3>1, EnqueueType, EnqueueCount
    <2>5. /\ settled \in Job /\ settled.rev = rev /\ settled.attempts = queued.attempts
          /\ settled.status = "pending" =>
               queued.status = "pending" \/ (queued.status = "ready" /\ rev \notin files[c])
      <3> HIDE DEF rev, queued
      <3> QED BY <2>4, ReconcileType, ReconcileCount
    <2>6. CountsOn(c)
      <3> HIDE DEF rev, queued, settled
      <3> QED BY <2>3, <2>4, <2>5 DEF CountsOn
    <2> QED BY <2>3, <2>6
  <1>3. job' = job \/ CommitCreate(k) \/ CommitUpdate(k) \/ EnsureCommit(k)
    BY DEF RequestStep, BeginSave, Ask, EnsureLock, ReadCache, Answer
  <1> QED BY <1>1, <1>2, <1>3

\* What the loop picked is never behind the row it is about to claim.
CountInv ==
  worker.pc = "claiming" /\ job[worker.contract] # NoJob /\ job[worker.contract].rev = worker.rev
    => job[worker.contract].attempts <= worker.attempts

LEMMA CountRequest ==
  ASSUME RowInv, CountInv, NEW k \in Requests, RequestStep(k)
  PROVE  CountInv'
  <1>t. TypeOK
    BY DEF RowInv
  <1> DEFINE c == worker.contract
  <1>1. worker' = worker \/ worker'.pc = "scheduled"
    BY RequestJob
  <1>2. CASE worker' = worker /\ worker.pc = "claiming"
    <2>1. worker \in Busy /\ c \in Contracts /\ worker.attempts \in Nat
      BY <1>2, <1>t DEF TypeOK, Loose, Busy
    <2>2. job'[c] = job[c] \/ CountsOn(c)
      BY <2>1, RequestCounts
    <2> QED BY <1>2, <2>1, <2>2 DEF CountInv, CountsOn
  <1> QED BY <1>1, <1>2 DEF CountInv

LEMMA CountOther ==
  ASSUME RowInv, CountInv, WorkerStep \/ Surroundings
  PROVE  CountInv'
  <1>t. TypeOK
    BY DEF RowInv
  <1>1. CASE Pick
    <2>1. CASE worker' = [pc |-> "leaving"]
      BY <2>1 DEF CountInv
    <2>2. ASSUME NEW c \in Oldest,
                 worker' = [pc |-> "claiming", contract |-> c, rev |-> job[c].rev,
                            attempts |-> job[c].attempts, locked |-> FALSE]
          PROVE  CountInv'
      <3>1. c \in Contracts /\ job[c] \in Job /\ job' = job
        BY <1>1, <1>t, <2>2 DEF Oldest, Pending, NoJob, TypeOK, Pick
      <3> QED BY <2>2, <3>1 DEF CountInv, Job
    <2> QED BY <1>1, <2>1, <2>2 DEF Pick
  <1>2. ASSUME NEW c \in Contracts, Remove(c)
        PROVE  CountInv'
    <2>1. worker' = worker /\ job' = [job EXCEPT ![c] = NoJob]
      BY <1>2 DEF Remove
    <2>2. worker.pc = "claiming" => worker.contract \in Contracts
      BY <1>t DEF TypeOK, Loose, Busy
    <2> QED BY <1>t, <2>1, <2>2 DEF CountInv, TypeOK
  <1>3. CASE worker'.pc # "claiming"
    BY <1>3 DEF CountInv
  <1>4. CASE UNCHANGED <<worker, job>>
    BY <1>4 DEF CountInv
  <1>5. CASE WorkerStep /\ ~Pick
    <2>1. worker'.pc # "claiming"
      <3>1. CASE Recover \/ Leave \/ RecordFailure
        BY <3>1 DEF Recover, Leave, RecordFailure
      <3>2. CASE Claim \/ Render \/ LockForPublish \/ WriteFile \/ CleanFiles \/ CommitPublish
        <4>1. worker \in Busy
          BY <3>2, <1>t DEF Claim, Render, LockForPublish, WriteFile, CleanFiles, CommitPublish,
                            Publishing, TypeOK, Loose
        <4>2. CASE Claim \/ CommitPublish
          BY <4>1, <4>2 DEF Claim, CommitPublish, Busy
        <4>3. CASE Render
          <5>1. PICK outcome \in {"publishing", "failing"} : worker' = [worker EXCEPT !.pc = outcome]
            BY <4>3 DEF Render
          <5>2. worker'.pc = outcome
            BY <4>1, <5>1 DEF Busy
          <5> QED BY <5>2
        <4>4. CASE WriteFile \/ CleanFiles
          BY <4>1, <4>4 DEF WriteFile, CleanFiles, Busy
        <4>5. CASE LockForPublish
          <5>1. [worker EXCEPT !.pc = "writing", !.locked = TRUE].pc = "writing"
            BY <4>1 DEF Busy
          <5> QED BY <4>5, <5>1 DEF LockForPublish
        <4> QED BY <3>2, <4>2, <4>3, <4>4, <4>5
      <3> QED BY <1>5, <3>1, <3>2 DEF WorkerStep
    <2> QED BY <1>3, <2>1
  <1>6. CASE Surroundings
    <2>1. \/ UNCHANGED <<worker, job>>
          \/ \E c \in Contracts : Remove(c)
          \/ worker'.pc # "claiming"
      <3>1. CASE PublishFails \/ LoseLock
        <4>1. worker \in Busy /\ worker.pc # "claiming"
          BY <3>1, <1>t DEF PublishFails, LoseLock, Publishing, TypeOK, Loose
        <4> QED BY <3>1, <4>1 DEF PublishFails, LoseLock, Busy
      <3> QED BY <1>6, <3>1
           DEF Surroundings, RemoveRollsBack, LoseFile, UpdateUnit, TimerKick, Kick, Crash, Exit, Die, Stop,
               Restart, DrainRejects
    <2> QED BY <1>2, <1>3, <1>4, <2>1
  <1> QED BY <1>1, <1>5, <1>6

LEMMA CountInvariant == Spec => [](RowInv /\ CountInv)
  <1>1. Init => CountInv
    BY DEF Init, CountInv
  <1>2. RowInv /\ CountInv /\ [Next]_vars => CountInv'
    <2>1. ASSUME CountInv, UNCHANGED vars
          PROVE  CountInv'
      BY <2>1 DEF vars, CountInv
    <2> QED BY <2>1, NextParts, CountRequest, CountOther
  <1> QED BY <1>1, <1>2, RowsCorrect, PTL DEF Spec

\* What the loop and the surroundings do to one row: the loop queues a row
\* again only when it recovers it, and raises a count only when it claims.
LEMMA OtherCounts ==
  ASSUME RowInv, CountInv, WorkerStep \/ Surroundings, NEW d \in Contracts, job[d] # NoJob
  PROVE  \/ job'[d] = job[d]
         \/ job'[d] = NoJob
         \/ /\ job'[d].attempts >= job[d].attempts
            /\ job'[d].status = "pending" => job[d].status = "processing" /\ worker.pc = "scheduled"
  <1>t. TypeOK /\ LockHeld
    BY DEF RowInv
  <1>j. job[d] \in Job /\ job[d].attempts \in Nat
    BY <1>t DEF TypeOK, Job
  <1> DEFINE c == worker.contract
  <1>1. CASE Recover
    <2>1. job'[d] = job[d] \/ (d \in Interrupted /\ job'[d] = [job[d] EXCEPT !.status = "pending"])
      BY <1>1 DEF Recover
    <2> QED BY <1>1, <1>j, <2>1 DEF Recover, Interrupted, Job
  <1>2. CASE Claim
    <2>1. c \in Contracts /\ worker.attempts \in Nat
      BY <1>2, <1>t DEF Claim, TypeOK, Loose, Busy
    <2>2. \/ job'[d] = job[d]
          \/ /\ d = c /\ Claimable(c, worker.rev)
             /\ job'[d] = [job[d] EXCEPT !.status = "processing", !.attempts = worker.attempts + 1]
      BY <1>2, <1>t, <2>1 DEF Claim, SaveJob, TypeOK
    <2>3. d = c /\ Claimable(c, worker.rev) => job[d].attempts <= worker.attempts
      BY <1>2 DEF Claim, Claimable, CountInv
    <2>4. \A n : /\ [job[d] EXCEPT !.status = "processing", !.attempts = n].status # "pending"
                 /\ [job[d] EXCEPT !.status = "processing", !.attempts = n].attempts = n
      BY <1>j DEF Job
    <2>5. job[d].attempts <= worker.attempts => worker.attempts + 1 >= job[d].attempts
      BY <1>j, <2>1
    <2>6. CASE job'[d] = job[d]
      BY <2>6
    <2>7. CASE /\ d = c /\ Claimable(c, worker.rev)
               /\ job'[d] = [job[d] EXCEPT !.status = "processing", !.attempts = worker.attempts + 1]
      <3>1. job'[d].status # "pending" /\ job'[d].attempts = worker.attempts + 1
        BY <2>4, <2>7
      <3> QED BY <2>3, <2>5, <2>7, <3>1
    <2> QED BY <2>2, <2>6, <2>7
  <1>3. CASE CommitPublish \/ RecordFailure
    <2>1. c \in Contracts
      BY <1>3, <1>t DEF CommitPublish, RecordFailure, TypeOK, Loose, Busy
    <2>2. \/ job'[d] = job[d]
          \/ \E s \in {"ready", "failed"} : job'[d] = [job[d] EXCEPT !.status = s]
      BY <1>3, <1>t, <2>1 DEF CommitPublish, RecordFailure, SaveJob, TypeOK
    <2> QED BY <1>j, <2>2 DEF Job
  <1>4. ASSUME NEW x \in Contracts, Remove(x)
        PROVE  job'[d] = job[d] \/ job'[d] = NoJob
    BY <1>4, <1>t DEF Remove, TypeOK
  <1>5. \/ Recover \/ Claim \/ CommitPublish \/ RecordFailure
        \/ \E x \in Contracts : Remove(x)
        \/ job' = job
    BY DEF WorkerStep, Pick, Render, LockForPublish, WriteFile, CleanFiles, Leave, Surroundings,
           RemoveRollsBack, LoseFile, UpdateUnit, TimerKick, Crash, Exit, Die, Stop, Restart,
           DrainRejects, PublishFails, LoseLock
  <1> QED BY <1>1, <1>2, <1>3, <1>4, <1>5

\* A revision is rendered again only after a user's retry, a lost file or a
\* recovery, and its attempts never go down, under every failure.
THEOREM RendersAlwaysCounted == Spec => RendersCounted
  <1> DEFINE Again(c) == job[c] # NoJob /\ job'[c].status = "pending" /\ job'[c].rev = job[c].rev =>
               \/ job[c].status \in {"pending", "failed"}
               \/ job[c].status = "ready" /\ job[c].rev \notin files[c]
               \/ job[c].status = "processing" /\ worker.pc = "scheduled"
             Kept(c) == job[c] # NoJob /\ job'[c] # NoJob /\ job'[c].rev = job[c].rev
                          => job'[c].attempts >= job[c].attempts
  <1>1. RowInv /\ CountInv /\ [Next]_vars
          => [\A c \in Contracts : Again(c)]_vars /\ [\A c \in Contracts : Kept(c)]_vars
    <2> SUFFICES ASSUME RowInv, CountInv, Next, NEW c \in Contracts, job[c] # NoJob
                 PROVE  Again(c) /\ Kept(c)
      OBVIOUS
    <2>1. job[c] \in Job /\ job[c].attempts \in Nat /\ job[c].attempts >= job[c].attempts
      BY DEF RowInv, TypeOK, Job
    <2>2. CASE \E k \in Requests : RequestStep(k)
      BY <2>1, <2>2, RequestCounts DEF CountsOn
    <2>3. CASE WorkerStep \/ Surroundings
      BY <2>1, <2>3, OtherCounts DEF NoJob
    <2> QED BY <2>2, <2>3, NextParts
  <1> QED BY <1>1, CountInvariant, PTL DEF Spec, RendersCounted, RenderedOnce, AttemptsKept

-----------------------------------------------------------------------------
(* What a request may be told. A generate() request has seen the current   *)
(* revision at all times; what it ensures under the contract's lock pairs  *)
(* the locked fields with a unit read while they were locked, so that pair *)
(* was current; and what it holds afterwards it has ensured.               *)

SeenInv ==
  \A k \in Requests :
    /\ Generating(request[k])
         => CurrentSet(request[k].contract, life, terms, face) \subseteq request[k].seen
    /\ request[k].pc = "ensuring" /\ request[k].op = "generate"
         => <<terms[request[k].contract], request[k].face>> \in request[k].seen
    /\ request[k].pc \in {"reading", "served"} => request[k].rev \in request[k].seen

\* A step that changes a contract or the unit, and lets every request see it.
LEMMA SeenAfterWitness ==
  ASSUME TypeOK, SeenInv, NEW reqs \in [Requests -> {Idle} \union Asking \union Ensuring \union Holding \union Saving],
         \A m \in Requests : reqs[m] = request[m] \/ reqs[m] = Idle,
         request' = Witness(reqs, life', terms', face'),
         \A m \in Requests : request[m].pc = "ensuring"
           => terms'[request[m].contract] = terms[request[m].contract]
  PROVE  SeenInv'
  <1> SUFFICES ASSUME NEW m \in Requests
      PROVE /\ Generating(request'[m])
                 => CurrentSet(request'[m].contract, life', terms', face') \subseteq request'[m].seen
            /\ request'[m].pc = "ensuring" /\ request'[m].op = "generate"
                 => <<terms'[request'[m].contract], request'[m].face>> \in request'[m].seen
            /\ request'[m].pc \in {"reading", "served"} => request'[m].rev \in request'[m].seen
    BY DEF SeenInv, Generating, CurrentSet
  <1>1. CASE reqs[m] = Idle
    <2>1. request'[m] = Idle
      BY <1>1 DEF Witness, Generating, Idle
    <2> QED BY <2>1 DEF Idle, Generating
  <1>2. CASE reqs[m] = request[m] /\ ~Generating(request[m])
    <2>1. request'[m] = request[m]
      BY <1>2 DEF Witness
    <2> QED BY <1>2, <2>1 DEF SeenInv, Generating
  <1>3. CASE reqs[m] = request[m] /\ Generating(request[m])
    <2> DEFINE cs == CurrentSet(request[m].contract, life', terms', face')
    <2>1. request'[m] = [request[m] EXCEPT !.seen = @ \union cs]
      BY <1>3 DEF Witness
    <2>2. request[m] \in Asking \union Ensuring \union Holding
      BY <1>3 DEF Generating, TypeOK, Idle, Saving
    <2> HIDE DEF cs
    <2>3. /\ request'[m].contract = request[m].contract /\ request'[m].pc = request[m].pc
          /\ request'[m].op = request[m].op /\ request'[m].seen = request[m].seen \union cs
          /\ request[m] \in Ensuring => request'[m].face = request[m].face
          /\ request[m] \in Holding => request'[m].rev = request[m].rev
      BY <2>1, <2>2 DEF Asking, Ensuring, Holding
    <2>4. cs = CurrentSet(request'[m].contract, life', terms', face')
      BY <2>3 DEF cs
    <2>5. /\ request[m].pc = "ensuring" <=> request[m] \in Ensuring
          /\ request[m].pc \in {"reading", "served"} <=> request[m] \in Holding
      BY <2>2 DEF Asking, Ensuring, Holding
    <2> QED BY <2>3, <2>4, <2>5 DEF SeenInv
  <1> QED BY <1>1, <1>2, <1>3

LEMMA SeenRequest ==
  ASSUME RowInv, SeenInv, NEW k \in Requests, RequestStep(k)
  PROVE  SeenInv'
  <1>t. TypeOK /\ EnsuredLive
    BY DEF RowInv
  <1> DEFINE c == request[k].contract
  <1>1. CASE CommitCreate(k) \/ CommitUpdate(k)
    <2>1. request' = Witness([request EXCEPT ![k] = Idle], life', terms', face')
      BY <1>1 DEF CommitCreate, CommitUpdate
    <2>2. \A m \in Requests : request[m].pc = "ensuring" => request[m].contract # c
      BY <1>1, <1>t DEF CommitCreate, CommitUpdate, ContractLocked, EnsuredLive
    <2>3. \A m \in Requests : request[m].pc = "ensuring"
            => terms'[request[m].contract] = terms[request[m].contract]
      <3>1. \A m \in Requests : request[m].pc = "ensuring" => request[m].contract \in Contracts
        BY <1>t DEF TypeOK, Idle, Asking, Ensuring, Holding, Saving
      <3> QED BY <1>1, <1>t, <2>2, <3>1 DEF CommitCreate, CommitUpdate, TypeOK
    <2>4. [request EXCEPT ![k] = Idle]
            \in [Requests -> {Idle} \union Asking \union Ensuring \union Holding \union Saving]
      BY <1>t DEF TypeOK
    <2>5. \A m \in Requests : [request EXCEPT ![k] = Idle][m] \in {request[m], Idle}
      BY <1>t DEF TypeOK
    <2> QED BY <1>t, <2>1, <2>3, <2>4, <2>5, SeenAfterWitness
  <1>2. ASSUME request'[k] \in {Idle} \union Saving
               \/ (Generating(request'[k])
                     => /\ CurrentSet(request'[k].contract, life, terms, face) \subseteq request'[k].seen
                        /\ request'[k].pc = "ensuring"
                             => <<terms[request'[k].contract], request'[k].face>> \in request'[k].seen),
               request'[k].pc \in {"reading", "served"} => request'[k].rev \in request'[k].seen,
               \A m \in Requests \ {k} : request'[m] = request[m],
               UNCHANGED <<life, terms, face>>
        PROVE  SeenInv'
    BY <1>2 DEF SeenInv, Generating, CurrentSet, Idle, Saving
  <1>3. ASSUME NEW d \in Contracts, NEW op \in {"create", "update"}, BeginSave(k, d, op)
        PROVE  SeenInv'
    <2>1. request'[k] \in Saving
      BY <1>3, <1>t DEF BeginSave, TypeOK, Saving
    <2> QED BY <1>2, <1>3, <1>t, <2>1 DEF BeginSave, TypeOK, Saving
  <1>4. ASSUME NEW d \in Contracts, NEW op \in Asks, Ask(k, d, op)
        PROVE  SeenInv'
    <2>1. request'[k] = [pc |-> "arrived", op |-> op, contract |-> d,
                         seen |-> IF op = "generate" THEN CurrentSet(d, life, terms, face) ELSE {}]
      BY <1>4, <1>t DEF Ask, TypeOK
    <2>2. Generating(request'[k]) => CurrentSet(d, life, terms, face) \subseteq request'[k].seen
      BY <2>1 DEF Generating
    <2> QED BY <1>2, <1>4, <1>t, <2>1, <2>2 DEF Ask, TypeOK
  <1>5. CASE EnsureLock(k)
    <2>1. request'[k] = [pc |-> "ensuring", op |-> request[k].op, contract |-> c,
                         seen |-> request[k].seen, face |-> face]
      BY <1>5, <1>t DEF EnsureLock, TypeOK
    <2>2. Generating(request'[k]) => Generating(request[k]) /\ life[c] = "live"
      BY <1>5, <2>1 DEF Generating, EnsureLock
    <2>3. Generating(request[k]) => CurrentSet(c, life, terms, face) \subseteq request[k].seen
      BY DEF SeenInv
    <2>4. life[c] = "live" => <<terms[c], face>> \in CurrentSet(c, life, terms, face)
      BY DEF CurrentSet
    <2>5. /\ request'[k].seen = request[k].seen /\ request'[k].contract = c /\ request'[k].face = face
          /\ request'[k].pc = "ensuring"
      BY <2>1
    <2>6. \A m \in Requests \ {k} : request'[m] = request[m]
      BY <1>5, <1>t DEF EnsureLock, TypeOK
    <2>7. UNCHANGED <<life, terms, face>>
      BY <1>5 DEF EnsureLock
    <2> HIDE <1>5, <2>1
    <2> QED BY <1>2, <2>2, <2>3, <2>4, <2>5, <2>6, <2>7
  <1>6. CASE EnsureCommit(k)
    <2> DEFINE rev == <<terms[c], request[k].face>>
               queued == Enqueue(job[c], rev, request[k].op = "retry")
               settled == Reconcile(queued, rev \in files[c])
    <2>1. request[k] \in Ensuring /\ c \in Contracts /\ rev \in Revisions
      BY <1>6, <1>t DEF EnsureCommit, TypeOK, Idle, Asking, Ensuring, Holding, Saving, Revisions
    <2>2. queued \in Job /\ queued.rev = rev
      BY <1>t, <2>1, EnqueueType DEF TypeOK
    <2>3. settled.rev = rev
      <3> HIDE DEF queued, rev
      <3> QED BY <2>2, ReconcileResult
    <2>4. \/ request'[k] = Idle
          \/ /\ request[k].op = "generate"
             /\ request'[k] = [pc |-> "reading", op |-> request[k].op, contract |-> c,
                               seen |-> request[k].seen, rev |-> rev]
          \/ /\ request[k].op = "generate"
             /\ request'[k] = [pc |-> "sleeping", op |-> request[k].op, contract |-> c,
                               seen |-> request[k].seen]
      <3> HIDE DEF settled
      <3> QED BY <1>6, <1>t, <2>3 DEF EnsureCommit, TypeOK, settled, Generating
    <2>5. request[k].op = "generate" => /\ CurrentSet(c, life, terms, face) \subseteq request[k].seen
                                        /\ rev \in request[k].seen
      BY <1>6, <2>1 DEF EnsureCommit, SeenInv, Generating
    <2> HIDE DEF rev
    <2>6. \A m \in Requests \ {k} : request'[m] = request[m]
      BY <1>6, <1>t DEF EnsureCommit, TypeOK
    <2>7. UNCHANGED <<life, terms, face>>
      BY <1>6 DEF EnsureCommit
    <2>8. \/ request'[k] = Idle /\ request'[k].pc = "idle"
          \/ /\ request'[k].contract = c /\ request'[k].seen = request[k].seen
             /\ request'[k].pc \in {"reading", "sleeping"}
             /\ request'[k].pc = "reading" => request'[k].rev = rev
             /\ request[k].op = "generate"
      BY <2>4 DEF Idle
    <2> HIDE <1>6, <2>4
    <2> QED BY <1>2, <2>5, <2>6, <2>7, <2>8
  <1>7. CASE ReadCache(k)
    <2>1. request[k] \in Holding
      BY <1>7, <1>t DEF ReadCache, TypeOK, Idle, Asking, Ensuring, Holding, Saving
    <2>2. \/ request'[k] = [request[k] EXCEPT !.pc = "served"]
          \/ request'[k] = [pc |-> "sleeping", op |-> request[k].op, contract |-> c,
                            seen |-> request[k].seen]
      BY <1>7, <1>t DEF ReadCache, TypeOK
    <2>3. /\ CurrentSet(c, life, terms, face) \subseteq request[k].seen
          /\ request[k].rev \in request[k].seen
      BY <1>7, <2>1 DEF ReadCache, SeenInv, Generating, Holding
    <2>4. /\ request'[k].contract = c /\ request'[k].seen = request[k].seen
          /\ request'[k].pc = "served" => request'[k].rev = request[k].rev
          /\ request'[k].pc \in {"served", "sleeping"}
      BY <2>1, <2>2 DEF Holding
    <2>5. \A m \in Requests \ {k} : request'[m] = request[m]
      BY <1>7, <1>t DEF ReadCache, TypeOK
    <2>6. UNCHANGED <<life, terms, face>>
      BY <1>7 DEF ReadCache
    <2> QED BY <1>2, <2>3, <2>4, <2>5, <2>6
  <1>8. CASE Answer(k)
    BY <1>2, <1>8, <1>t DEF Answer, TypeOK, Idle
  <1> QED BY <1>1, <1>3, <1>4, <1>5, <1>6, <1>7, <1>8 DEF RequestStep

LEMMA SeenOther ==
  ASSUME RowInv, SeenInv, WorkerStep \/ Surroundings
  PROVE  SeenInv'
  <1>t. TypeOK
    BY DEF RowInv
  <1>1. CASE UNCHANGED <<life, terms, face, request>>
    BY <1>1 DEF SeenInv, Generating, CurrentSet
  <1>2. ASSUME NEW c \in Contracts, Remove(c)
        PROVE  SeenInv'
    <2>1. /\ UNCHANGED <<terms, face, request>>
          /\ \A d : CurrentSet(d, life', terms', face') \subseteq CurrentSet(d, life, terms, face)
      <3>1. \A d \in Contracts : life'[d] = "live" => life[d] = "live"
        BY <1>2, <1>t DEF Remove, TypeOK
      <3>2. life' = [life EXCEPT ![c] = "deleted"] /\ UNCHANGED <<terms, face, request>>
        BY <1>2 DEF Remove
      <3>3. \A d : life'[d] = "live" => life[d] = "live"
        BY <1>t, <3>1, <3>2 DEF TypeOK
      <3> QED BY <3>2, <3>3 DEF CurrentSet
    <2> QED BY <2>1 DEF SeenInv, Generating
  <1>3. ASSUME NEW f \in Faces, UpdateUnit(f)
        PROVE  SeenInv'
    <2>1. request' = Witness(request, life', terms', face') /\ terms' = terms
      BY <1>3 DEF UpdateUnit
    <2> QED BY <1>t, <2>1, SeenAfterWitness DEF TypeOK
  <1>4. CASE Crash \/ Exit
    <2>1. \A k \in Requests : request'[k] = Idle
      BY <1>4 DEF Crash, Exit, Die
    <2> QED BY <2>1 DEF SeenInv, Generating, Idle
  <1>5. \/ UNCHANGED <<life, terms, face, request>>
        \/ \E c \in Contracts : Remove(c)
        \/ \E f \in Faces : UpdateUnit(f)
        \/ Crash \/ Exit
    BY DEF WorkerStep, Recover, Pick, Claim, Render, LockForPublish, WriteFile, CleanFiles,
           CommitPublish, RecordFailure, Leave, Surroundings, RemoveRollsBack, LoseFile, TimerKick, Stop,
           Restart, DrainRejects, PublishFails, LoseLock
  <1> QED BY <1>1, <1>2, <1>3, <1>4, <1>5

LEMMA SeenInvariant == Spec => [](RowInv /\ SeenInv)
  <1>1. Init => SeenInv
    BY DEF Init, SeenInv, Generating, Idle
  <1>2. RowInv /\ SeenInv /\ [Next]_vars => SeenInv'
    <2>1. ASSUME SeenInv, UNCHANGED vars
          PROVE  SeenInv'
      BY <2>1 DEF vars, SeenInv, Generating, CurrentSet
    <2> QED BY <2>1, NextParts, SeenRequest, SeenOther
  <1> QED BY <1>1, <1>2, RowsCorrect, PTL DEF Spec

\* Every PDF handed out was current at some moment of its request, under every
\* failure, lost locks and lost files included.
THEOREM ServedWasCurrentHolds == Spec => []ServedWasCurrent
  <1>1. RowInv /\ SeenInv => ServedWasCurrent
    BY DEF SeenInv, ServedWasCurrent
  <1> QED BY <1>1, SeenInvariant, PTL

-----------------------------------------------------------------------------
(* Refinement of ContractDocuments.                                        *)

View == [k \in Requests |-> AskView(request[k])]

LEMMA ViewPoint ==
  ASSUME NEW q
  PROVE  /\ q.pc = "served" =>
              AskView(q) = [pc |-> "told", contract |-> q.contract, rev |-> q.rev]
         /\ Generating(q) =>
              AskView(q) = [pc |-> "asked", contract |-> q.contract, seen |-> q.seen]
         /\ q.pc # "served" /\ ~Generating(q) => AskView(q) = [pc |-> "silent"]
  BY DEF AskView, Generating

\* A change every request sees is the abstract change, seen by the same asks.
LEMMA ViewOfWitness ==
  ASSUME TypeOK, NEW k \in Requests,
         NEW reqs \in [Requests -> {Idle} \union Asking \union Ensuring \union Holding \union Saving],
         \A m \in Requests : AskView(reqs[m]) = AskView(request[m]),
         request' = Witness(reqs, life', terms', face')
  PROVE  View'[k] = IF View[k].pc = "asked"
                    THEN [View[k] EXCEPT !.seen = @ \union
                            Documents!Now(View[k].contract, life', terms', face')]
                    ELSE View[k]
  <1> DEFINE q == reqs[k]
             cs == CurrentSet(q.contract, life', terms', face')
  <1>1. View[k] = AskView(q) /\ View'[k] = AskView(request'[k])
    BY DEF View
  <1>2. cs = Documents!Now(q.contract, life', terms', face')
    BY DEF CurrentSet, Documents!Now
  <1>3. CASE Generating(q)
    <2>1. request'[k] = [q EXCEPT !.seen = @ \union cs]
      BY <1>3 DEF Witness
    <2>2. q \in Asking \union Ensuring \union Holding
      BY <1>3 DEF Generating, Idle, Saving
    <2> HIDE DEF cs
    <2>3. /\ request'[k].pc = q.pc /\ request'[k].op = q.op
          /\ request'[k].contract = q.contract /\ request'[k].seen = q.seen \union cs
      BY <2>1, <2>2 DEF Asking, Ensuring, Holding
    <2>4. Generating(request'[k])
      BY <1>3, <2>3 DEF Generating
    <2>5. /\ AskView(request'[k]) = [pc |-> "asked", contract |-> q.contract, seen |-> q.seen \union cs]
          /\ AskView(q) = [pc |-> "asked", contract |-> q.contract, seen |-> q.seen]
      BY <1>3, <2>3, <2>4, ViewPoint
    <2>6. View[k].pc = "asked" /\ View[k].contract = q.contract
      BY <1>1, <2>5
    <2>7. View'[k] = [View[k] EXCEPT !.seen = @ \union cs]
      <3>1. \A a, b : [[pc |-> "asked", contract |-> a, seen |-> b] EXCEPT !.seen = @ \union cs]
                       = [pc |-> "asked", contract |-> a, seen |-> b \union cs]
        OBVIOUS
      <3>2. View[k] = [pc |-> "asked", contract |-> q.contract, seen |-> q.seen]
        BY <1>1, <2>5
      <3>3. View'[k] = [pc |-> "asked", contract |-> q.contract, seen |-> q.seen \union cs]
        BY <1>1, <2>5
      <3> QED BY <3>1, <3>2, <3>3
    <2> HIDE DEF q
    <2> QED BY <1>2, <2>6, <2>7
  <1>4. CASE ~Generating(q)
    <2>1. request'[k] = q
      BY <1>4 DEF Witness
    <2>2. AskView(q).pc # "asked"
      BY <1>4, ViewPoint DEF AskView, Generating
    <2> HIDE DEF q
    <2> QED BY <1>1, <2>1, <2>2
  <1> QED BY <1>3, <1>4

LEMMA ViewOfIdle == AskView(Idle) = Documents!Silent
  <1>1. Idle.pc # "served" /\ ~Generating(Idle)
    BY DEF Idle, Generating
  <1> QED BY <1>1, ViewPoint DEF Documents!Silent

LEMMA RefineInit == Init => Documents!Init
  BY ViewOfIdle DEF Init, Documents!Init

\* Steps that neither change what a PDF prints nor answer anybody.
LEMMA RefineStutter ==
  ASSUME UNCHANGED <<life, terms, face>>, \A k \in Requests : AskView(request'[k]) = AskView(request[k])
  PROVE  UNCHANGED Documents!docVars
  BY DEF Documents!docVars

\* A request leaves, whatever it was told.
LEMMA RefineEnd ==
  ASSUME UNCHANGED <<life, terms, face>>, NEW K \in SUBSET Requests,
         \A m \in K : request'[m] = Idle,
         \A m \in Requests \ K : request'[m] = request[m]
  PROVE  Documents!Next
  <1>2. [k \in Requests |-> AskView(request[k])]'
          = [k \in Requests |-> IF k \in K THEN Documents!Silent
                                ELSE [m \in Requests |-> AskView(request[m])][k]]
    BY ViewOfIdle
  <1>3. Documents!End
    BY <1>2 DEF Documents!End
  <1> QED BY <1>3 DEF Documents!Next

LEMMA RefineSeeing ==
  ASSUME TypeOK,
         NEW reqs \in [Requests -> {Idle} \union Asking \union Ensuring \union Holding \union Saving],
         \A m \in Requests : AskView(reqs[m]) = AskView(request[m]),
         request' = Witness(reqs, life', terms', face')
  PROVE  [k \in Requests |-> AskView(request[k])]' = Documents!Seeing(life', terms', face')
  <1>1. \A k \in Requests :
          View'[k] = IF View[k].pc = "asked"
                     THEN [View[k] EXCEPT !.seen = @ \union
                             Documents!Now(View[k].contract, life', terms', face')]
                     ELSE View[k]
    BY ViewOfWitness
  <1>2. View' = [k \in Requests |->
                   IF View[k].pc = "asked"
                   THEN [View[k] EXCEPT !.seen = @ \union
                           Documents!Now(View[k].contract, life', terms', face')]
                   ELSE View[k]]
    BY <1>1 DEF View
  <1> QED BY <1>2 DEF View, Documents!Seeing

LEMMA RefineSave ==
  ASSUME TypeOK, NEW k \in Requests, CommitCreate(k) \/ CommitUpdate(k)
  PROVE  Documents!Next
  <1> DEFINE c == request[k].contract
             reqs == [request EXCEPT ![k] = Idle]
  <1>1. request[k].pc = "saving"
    BY DEF CommitCreate, CommitUpdate
  <1>2. c \in Contracts
    BY <1>1 DEF TypeOK, Idle, Asking, Ensuring, Holding, Saving
  <1>3. AskView(request[k]) = AskView(Idle)
    BY <1>1, ViewPoint, ViewOfIdle DEF Generating, Documents!Silent
  <1>4. /\ reqs \in [Requests -> {Idle} \union Asking \union Ensuring \union Holding \union Saving]
        /\ \A m \in Requests : AskView(reqs[m]) = AskView(request[m])
    BY <1>3 DEF TypeOK
  <1>5. request' = Witness(reqs, life', terms', face')
    BY DEF CommitCreate, CommitUpdate
  <1>6. [m \in Requests |-> AskView(request[m])]' = Documents!Seeing(life', terms', face')
    <2> HIDE DEF reqs
    <2> QED BY <1>4, <1>5, RefineSeeing
  <1>7. /\ face' = face
        /\ \E t \in Terms : terms' = [terms EXCEPT ![c] = t]
        /\ \/ life[c] = "unborn" /\ life' = [life EXCEPT ![c] = "live"]
           \/ life[c] = "live" /\ life' = [life EXCEPT ![c] = "live"]
    BY <1>2 DEF CommitCreate, CommitUpdate, TypeOK
  <1>8. Documents!ChangeContract(c)
    BY <1>6, <1>7 DEF Documents!ChangeContract
  <1> QED BY <1>2, <1>8 DEF Documents!Next

LEMMA RefineRemove ==
  ASSUME TypeOK, SeenInv, NEW c \in Contracts, Remove(c)
  PROVE  Documents!Next
  <1>1. /\ UNCHANGED <<terms, face, request>>
        /\ life[c] = "live" /\ life' = [life EXCEPT ![c] = "deleted"]
    BY DEF Remove
  <1>2. ASSUME NEW k \in Requests, View[k].pc = "asked"
        PROVE  View[k] = [View[k] EXCEPT !.seen = @ \union
                            Documents!Now(View[k].contract, life', terms', face')]
    <2>1. Generating(request[k])
      BY <1>2, ViewPoint DEF View, AskView, Generating
    <2>2. View[k] = [pc |-> "asked", contract |-> request[k].contract, seen |-> request[k].seen]
      BY <2>1, ViewPoint DEF View
    <2>3. CurrentSet(request[k].contract, life, terms, face) \subseteq request[k].seen
      BY <2>1 DEF SeenInv
    <2>4. request[k].contract \in Contracts
      BY <2>1 DEF TypeOK, Generating, Idle, Asking, Ensuring, Holding, Saving
    <2>5. Documents!Now(request[k].contract, life', terms', face') \subseteq request[k].seen
      BY <1>1, <2>3, <2>4 DEF Documents!Now, CurrentSet, TypeOK
    <2>6. \A a, b, d : d \subseteq b =>
            [[pc |-> "asked", contract |-> a, seen |-> b] EXCEPT !.seen = @ \union d]
              = [pc |-> "asked", contract |-> a, seen |-> b]
      <3>1. \A b, d : d \subseteq b => b \union d = b
        OBVIOUS
      <3> QED BY <3>1
    <2> QED BY <2>2, <2>5, <2>6
  <1>3. View' = [k \in Requests |->
                   IF View[k].pc = "asked"
                   THEN [View[k] EXCEPT !.seen = @ \union
                           Documents!Now(View[k].contract, life', terms', face')]
                   ELSE View[k]]
    BY <1>1, <1>2 DEF View
  <1>4. [k \in Requests |-> AskView(request[k])]' = Documents!Seeing(life', terms', face')
    BY <1>3 DEF View, Documents!Seeing
  <1>5. \E t \in Terms : terms' = [terms EXCEPT ![c] = t]
    <2>1. terms[c] \in Terms /\ terms' = [terms EXCEPT ![c] = terms[c]]
      BY <1>1 DEF TypeOK
    <2> QED BY <2>1
  <1>6. Documents!ChangeContract(c)
    BY <1>1, <1>4, <1>5 DEF Documents!ChangeContract
  <1> QED BY <1>6 DEF Documents!Next

\* A request whose view stays, while nothing else that counts moves.
LEMMA RefineQuiet ==
  ASSUME UNCHANGED <<life, terms, face>>, NEW k \in Requests,
         AskView(request'[k]) = AskView(request[k]),
         \A m \in Requests \ {k} : request'[m] = request[m]
  PROVE  UNCHANGED Documents!docVars
  <1>1. \A m \in Requests : AskView(request'[m]) = AskView(request[m])
    OBVIOUS
  <1> QED BY <1>1, RefineStutter

LEMMA RefineAsk ==
  ASSUME TypeOK, NEW k \in Requests, NEW c \in Contracts, NEW op \in Asks, Ask(k, c, op)
  PROVE  Documents!Next \/ UNCHANGED Documents!docVars
  <1> DEFINE q == [pc |-> "arrived", op |-> op, contract |-> c,
                   seen |-> IF op = "generate" THEN CurrentSet(c, life, terms, face) ELSE {}]
  <1>1. /\ UNCHANGED <<life, terms, face>> /\ request[k] = Idle
        /\ request' = [request EXCEPT ![k] = q]
    BY DEF Ask
  <1>2. request'[k] = q /\ \A m \in Requests \ {k} : request'[m] = request[m]
    BY <1>1 DEF TypeOK
  <1>3. CASE op # "generate"
    <2>1. AskView(q) = [pc |-> "silent"]
      BY <1>3, ViewPoint DEF Generating
    <2> HIDE DEF q
    <2> QED BY <1>1, <1>2, <2>1, ViewOfIdle, RefineQuiet DEF Documents!Silent
  <1>4. CASE op = "generate"
    <2>1. Generating(q) /\ q.contract = c /\ q.seen = CurrentSet(c, life, terms, face)
      BY <1>4 DEF Generating
    <2>2. AskView(q) = [pc |-> "asked", contract |-> c, seen |-> Documents!Now(c, life, terms, face)]
      BY <2>1, ViewPoint DEF CurrentSet, Documents!Now
    <2> HIDE DEF q
    <2>3. [m \in Requests |-> AskView(request[m])]'
            = [[m \in Requests |-> AskView(request[m])] EXCEPT ![k] =
                 [pc |-> "asked", contract |-> c, seen |-> Documents!Now(c, life, terms, face)]]
      BY <1>2, <2>2
    <2>4. Documents!AskFor(k, c)
      BY <1>1, <2>3, ViewOfIdle DEF Documents!AskFor
    <2> QED BY <2>4 DEF Documents!Next
  <1> QED BY <1>3, <1>4

LEMMA RefineReadCache ==
  ASSUME TypeOK, SeenInv, NEW k \in Requests, ReadCache(k)
  PROVE  Documents!Next \/ UNCHANGED Documents!docVars
  <1>1. /\ UNCHANGED <<life, terms, face>> /\ request[k].pc = "reading"
        /\ \A m \in Requests \ {k} : request'[m] = request[m]
        /\ \/ request'[k] = [request[k] EXCEPT !.pc = "served"]
           \/ request'[k] = [pc |-> "sleeping", op |-> request[k].op, contract |-> request[k].contract,
                             seen |-> request[k].seen]
    BY DEF ReadCache, TypeOK
  <1>2. request[k] \in Holding /\ Generating(request[k])
    BY <1>1 DEF TypeOK, Idle, Asking, Ensuring, Holding, Saving, Generating
  <1>3. AskView(request[k]) = [pc |-> "asked", contract |-> request[k].contract, seen |-> request[k].seen]
    BY <1>2, ViewPoint
  <1>4. CASE request'[k] = [pc |-> "sleeping", op |-> request[k].op, contract |-> request[k].contract,
                            seen |-> request[k].seen]
    <2>1. /\ Generating(request'[k]) /\ request'[k].contract = request[k].contract
          /\ request'[k].seen = request[k].seen
      BY <1>2, <1>4 DEF Generating
    <2>2. AskView(request'[k]) = AskView(request[k])
      BY <1>3, <2>1, ViewPoint
    <2> QED BY <1>1, <2>2, RefineQuiet
  <1>5. CASE request'[k] = [request[k] EXCEPT !.pc = "served"]
    <2>1. /\ request'[k].pc = "served" /\ request'[k].contract = request[k].contract
          /\ request'[k].rev = request[k].rev
      BY <1>2, <1>5 DEF Holding
    <2>2. AskView(request'[k]) = [pc |-> "told", contract |-> request[k].contract, rev |-> request[k].rev]
      BY <2>1, ViewPoint
    <2>3. request[k].rev \in request[k].seen
      BY <1>1 DEF SeenInv
    <2>4. [m \in Requests |-> AskView(request[m])]'
            = [[m \in Requests |-> AskView(request[m])] EXCEPT ![k] =
                 [pc |-> "told", contract |-> request[k].contract, rev |-> request[k].rev]]
      BY <1>1, <2>2
    <2>5. /\ View[k].pc = "asked" /\ View[k].contract = request[k].contract
          /\ View[k].seen = request[k].seen
      BY <1>3 DEF View
    <2>6. \E r \in View[k].seen :
            View' = [View EXCEPT ![k] = [pc |-> "told", contract |-> View[k].contract, rev |-> r]]
      <3>1. View' = [View EXCEPT ![k] =
                       [pc |-> "told", contract |-> View[k].contract, rev |-> request[k].rev]]
        BY <2>4, <2>5 DEF View
      <3> QED BY <2>3, <2>5, <3>1
    <2>7. Documents!Deliver(k)
      BY <1>1, <2>5, <2>6 DEF Documents!Deliver, View
    <2> QED BY <2>7 DEF Documents!Next
  <1> QED BY <1>1, <1>4, <1>5

LEMMA RefineEnsure ==
  ASSUME TypeOK, NEW k \in Requests, EnsureLock(k) \/ EnsureCommit(k)
  PROVE  Documents!Next \/ UNCHANGED Documents!docVars
  <1> DEFINE q == request[k]
  <1>1. /\ UNCHANGED <<life, terms, face>>
        /\ \A m \in Requests \ {k} : request'[m] = request[m]
    BY DEF EnsureLock, EnsureCommit, TypeOK
  <1>2. q \in Asking \union Ensuring
    BY DEF EnsureLock, EnsureCommit, TypeOK, Idle, Asking, Ensuring, Holding, Saving
  <1>3. \/ request'[k] = Idle
        \/ /\ request'[k].pc \in {"ensuring", "reading", "sleeping"}
           /\ request'[k].op = q.op /\ request'[k].contract = q.contract /\ request'[k].seen = q.seen
    BY <1>2 DEF EnsureLock, EnsureCommit, TypeOK, Asking, Ensuring
  <1>4. CASE request'[k] = Idle
    <2>1. Documents!Next
      BY <1>1, <1>4, RefineEnd, {k} \in SUBSET Requests
    <2> QED BY <2>1
  <1>5. CASE /\ request'[k].pc \in {"ensuring", "reading", "sleeping"}
             /\ request'[k].op = q.op /\ request'[k].contract = q.contract /\ request'[k].seen = q.seen
    <2>1. q.pc \in {"arrived", "sleeping", "ensuring"}
      BY <1>2 DEF Asking, Ensuring
    <2>2. Generating(request'[k]) <=> Generating(q)
      BY <1>5, <2>1 DEF Generating
    <2>3. AskView(request'[k]) = AskView(q)
      <3> HIDE DEF q
      <3> QED BY <1>5, <2>1, <2>2, ViewPoint
    <2> QED BY <1>1, <2>3, RefineQuiet
  <1> QED BY <1>3, <1>4, <1>5

LEMMA RefineRequest ==
  ASSUME TypeOK, SeenInv, NEW k \in Requests, RequestStep(k)
  PROVE  Documents!Next \/ UNCHANGED Documents!docVars
  <1>1. ASSUME NEW c \in Contracts, NEW op \in {"create", "update"}, BeginSave(k, c, op)
        PROVE  UNCHANGED Documents!docVars
    <2> DEFINE q == [pc |-> "saving", op |-> op, contract |-> c, face |-> face]
    <2>1. AskView(q) = Documents!Silent
      BY ViewPoint DEF Generating, Documents!Silent
    <2>2. /\ UNCHANGED <<life, terms, face>> /\ request[k] = Idle
          /\ request' = [request EXCEPT ![k] = q]
      BY <1>1 DEF BeginSave
    <2> HIDE DEF q
    <2>3. request'[k] = q /\ \A m \in Requests \ {k} : request'[m] = request[m]
      BY <2>2 DEF TypeOK
    <2> QED BY <2>1, <2>2, <2>3, ViewOfIdle, RefineQuiet
  <1>2. ASSUME Answer(k)
        PROVE  Documents!Next
    <2>1. /\ UNCHANGED <<life, terms, face>>
          /\ request'[k] = Idle /\ \A m \in Requests \ {k} : request'[m] = request[m]
      BY <1>2 DEF Answer, TypeOK
    <2> QED BY <2>1, RefineEnd, {k} \in SUBSET Requests
  <1> QED BY <1>1, <1>2, RefineAsk, RefineSave, RefineEnsure, RefineReadCache DEF RequestStep

LEMMA RefineUnit ==
  ASSUME TypeOK, NEW f \in Faces, UpdateUnit(f)
  PROVE  Documents!Next
  <1>1. [m \in Requests |-> AskView(request[m])]' = Documents!Seeing(life', terms', face')
    BY RefineSeeing DEF UpdateUnit, TypeOK
  <1>2. face' \in Faces /\ life' = life /\ terms' = terms
    BY DEF UpdateUnit
  <1>3. Documents!ChangeUnit
    BY <1>1, <1>2 DEF Documents!ChangeUnit
  <1> QED BY <1>3 DEF Documents!Next

LEMMA RefineDie ==
  ASSUME Die
  PROVE  Documents!Next
  <1>1. UNCHANGED <<life, terms, face>> /\ \A m \in Requests : request'[m] = Idle
    BY DEF Die
  <1> QED BY <1>1, RefineEnd, Requests \in SUBSET Requests, Requests \ Requests = {}

\* Everything else leaves contracts, unit and requests alone.
LEMMA RefineElse ==
  ASSUME UNCHANGED <<life, terms, face, request>>
  PROVE  UNCHANGED Documents!docVars
  BY RefineStutter

LEMMA RefineStep ==
  ASSUME TypeOK, SeenInv, [Next]_vars
  PROVE  Documents!Next \/ UNCHANGED Documents!docVars
  <1>1. ASSUME NEW k \in Requests, RequestStep(k)
        PROVE  Documents!Next \/ UNCHANGED Documents!docVars
    BY <1>1, RefineRequest
  <1>2. CASE WorkerStep
    <2>1. UNCHANGED <<life, terms, face, request>>
      BY <1>2 DEF WorkerStep, Recover, Pick, Claim, Render, LockForPublish, WriteFile,
                  CleanFiles, CommitPublish, RecordFailure, Leave
    <2> QED BY <2>1, RefineElse
  <1>3. CASE Surroundings
    <2>1. ASSUME NEW c \in Contracts, RemoveRollsBack(c) \/ LoseFile(c)
          PROVE  UNCHANGED Documents!docVars
      BY <2>1, RefineElse DEF RemoveRollsBack, LoseFile
    <2>2. CASE TimerKick \/ Stop \/ Restart \/ DrainRejects \/ PublishFails \/ LoseLock
      BY <2>2, RefineElse DEF TimerKick, Stop, Restart, DrainRejects, PublishFails, LoseLock
    <2>3. CASE Crash \/ Exit
      BY <2>3, RefineDie DEF Crash, Exit
    <2> QED BY <1>3, <2>1, <2>2, <2>3, RefineRemove, RefineUnit DEF Surroundings
  <1>4. CASE UNCHANGED vars
    BY <1>4, RefineElse DEF vars
  <1> QED BY <1>1, <1>2, <1>3, <1>4, NextParts

\* Whatever the drain loop, the cache directory, concurrent saves and failures
\* do, generate() keeps the promise of ContractDocuments: its PDF was current
\* at some moment of the request.
THEOREM ImplementsDocuments == Spec => RefinesDocuments
  <1>1. Init => Documents!Init
    BY RefineInit
  <1>2. TypeOK /\ SeenInv /\ [Next]_vars => [Documents!Next]_Documents!docVars
    BY RefineStep
  <1> QED BY <1>1, <1>2, TypeCorrect, SeenInvariant, PTL DEF Spec, RefinesDocuments, Documents!Spec

=============================================================================
