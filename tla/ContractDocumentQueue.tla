------------------------ MODULE ContractDocumentQueue ------------------------
(***************************************************************************)
(* The persistent queue that renders the PDF of every lease contract:      *)
(* contracts/contract-document-queue.service.ts, with the transactions of  *)
(* contracts/contracts.service.ts that feed it and the cache directory of  *)
(* files/files.service.ts that it publishes to.                            *)
(*                                                                         *)
(* A revision is the hash of what the PDF prints: the contract's own       *)
(* fields (Terms) and the code, location and area of its unit (Faces).     *)
(* The hash is taken to be injective, so a revision is the pair itself,    *)
(* and a cache file, whose name carries the revision, is that revision.    *)
(*                                                                         *)
(* Processes: one drain loop (worker), HTTP requests, the 2 s timer, and   *)
(* the operating environment, whose failures are the members of Faults.    *)
(* A transaction is one step, taken when it holds its last row lock; the   *)
(* two that read something outside the rows they lock (ensureJob the unit  *)
(* row, create and update the unit found before the transaction) are two.  *)
(***************************************************************************)
EXTENDS Naturals

CONSTANTS Contracts,    \* contract ids
          Terms,        \* values of the contract fields a PDF prints
          Faces,        \* values of the unit fields a PDF prints
          Requests,     \* slots for concurrent HTTP requests
          Faults,       \* the kinds of failure the environment may cause
          MaxFaults,    \* bound: failures in one behaviour
          MaxAttempts   \* bound: a user retries a failure up to this many attempts

FaultKinds == {"crash", "stop", "db", "disk", "lock", "unlink", "rollback", "loss"}

ASSUME FaultsAssumption == Faults \subseteq FaultKinds
ASSUME BoundsAssumption == MaxFaults \in Nat /\ MaxAttempts \in Nat

VARIABLES
  life,      \* contract row: "unborn", "live", or soft-"deleted"
  terms,     \* the printed fields of each contract row
  face,      \* the printed fields of the unit row
  job,       \* contract_document_jobs, one row per contract
  older,     \* updatedAt order: the contracts whose job row is older
  files,     \* contract id -> revisions in the generated-contract cache
  process,   \* the backend: "up", "stopping" (stopped = true) or "down"
  worker,    \* the drain loop and its local variables
  request,   \* the HTTP requests in flight
  faults     \* failures so far

vars == <<life, terms, face, job, older, files, process, worker, request, faults>>

-----------------------------------------------------------------------------
(* State.                                                                  *)

Revisions == Terms \X Faces

Statuses == {"pending", "processing", "ready", "failed"}

Job == [rev : Revisions, status : Statuses, attempts : Nat]
NoJob == [status |-> "none"]

\* running = true in every state but "idle"; "leaving" is the gap between
\* the return of drain() and the finally() that clears running.
Loose == [pc : {"idle", "scheduled", "picking", "leaving"}]
Publishing == {"writing", "cleaning", "committing"}
Working == {"rendering", "publishing", "failing"} \union Publishing
Busy == [pc : {"claiming"} \union Working, contract : Contracts,
         rev : Revisions, attempts : Nat, locked : BOOLEAN]

Asks == {"generate", "status", "retry"}
Idle == [pc |-> "idle"]
Asking == [pc : {"arrived", "sleeping"}, op : Asks, contract : Contracts,
           seen : SUBSET Revisions]
Ensuring == [pc : {"ensuring"}, op : Asks, contract : Contracts,
             seen : SUBSET Revisions, face : Faces]
Holding == [pc : {"reading", "served"}, op : {"generate"}, contract : Contracts,
            seen : SUBSET Revisions, rev : Revisions]
Saving == [pc : {"saving"}, op : {"create", "update"}, contract : Contracts,
           face : Faces]

TypeOK ==
  /\ life \in [Contracts -> {"unborn", "live", "deleted"}]
  /\ terms \in [Contracts -> Terms]
  /\ face \in Faces
  /\ job \in [Contracts -> Job \union {NoJob}]
  /\ older \in [Contracts -> SUBSET Contracts]
  /\ files \in [Contracts -> SUBSET Revisions]
  /\ process \in {"up", "stopping", "down"}
  /\ worker \in Loose \union Busy
  /\ request \in [Requests -> {Idle} \union Asking \union Ensuring \union Holding \union Saving]
  /\ faults \in 0..MaxFaults

-----------------------------------------------------------------------------
(* Locks and helpers.                                                      *)

\* SELECT ... FOR UPDATE on the contract row, held by an ensureJob transaction.
ContractLocked(c) == \E k \in Requests : request[k].pc = "ensuring" /\ request[k].contract = c

\* Mutant: the publishing transaction reads the job row without FOR UPDATE.
MutantJobLocked(c) == FALSE

\* The publishing transaction's lock on the job row, while its connection lives.
JobLocked(c) == worker.pc \in Publishing /\ worker.contract = c /\ worker.locked

\* What a generate() request may rightly be told: the revisions that were
\* current at some moment since it arrived.
CurrentSet(c, l, t, f) == IF l[c] = "live" THEN {<<t[c], f>>} ELSE {}
Generating(q) == q.pc \in {"arrived", "sleeping", "ensuring", "reading"} /\ q.op = "generate"
Witness(reqs, l, t, f) ==
  [k \in Requests |->
     IF Generating(reqs[k])
     THEN [reqs[k] EXCEPT !.seen = @ \union CurrentSet(reqs[k].contract, l, t, f)]
     ELSE reqs[k]]

\* A write to a job row sets its updatedAt to now.
Touch(c) == [d \in Contracts |-> IF d = c THEN Contracts \ {c} ELSE older[d] \ {c}]

Fault(kind) == kind \in Faults /\ faults < MaxFaults /\ faults' = faults + 1

\* kick(): dropped while stopped or running.
Kick(w) == IF process = "up" /\ w.pc = "idle" THEN [pc |-> "scheduled"] ELSE w

\* Mutants of Enqueue: any existing row is good enough; the status survives a
\* change of revision; a retry starts counting again.
MutantEnqueueAnyRevision(existing, rev, retry) ==
  IF existing # NoJob /\ ~(retry /\ existing.status = "failed") THEN existing
  ELSE [rev |-> rev, status |-> "pending", attempts |-> 0]
MutantEnqueueKeepsStatus(existing, rev, retry) ==
  IF existing # NoJob
  THEN [existing EXCEPT !.rev = rev,
                        !.status = IF retry /\ @ = "failed" THEN "pending" ELSE @]
  ELSE [rev |-> rev, status |-> "pending", attempts |-> 0]
MutantEnqueueResetsAttempts(existing, rev, retry) ==
  IF existing # NoJob /\ existing.rev = rev /\ ~(retry /\ existing.status = "failed")
  THEN existing
  ELSE [rev |-> rev, status |-> "pending", attempts |-> 0]

\* The row enqueue() leaves for revision rev.
Enqueue(existing, rev, retry) ==
  LET same == existing # NoJob /\ existing.rev = rev IN
  IF same /\ ~(retry /\ existing.status = "failed") THEN existing
  ELSE [rev |-> rev, status |-> "pending",
        attempts |-> IF same THEN existing.attempts ELSE 0]

\* Mutant: whatever has no file is queued again, a running render included.
MutantReconcileAlwaysQueues(j, cached) ==
  [j EXCEPT !.status = IF cached THEN "ready" ELSE "pending"]

\* The row ensureJob() leaves once it has looked for the cache file.
Reconcile(j, cached) ==
  IF cached THEN [j EXCEPT !.status = "ready"]
  ELSE IF j.status = "ready" THEN [j EXCEPT !.status = "pending"]
  ELSE j

SaveJob(c, j) ==
  /\ job' = [job EXCEPT ![c] = j]
  /\ older' = IF j = job[c] THEN older ELSE Touch(c)

Init ==
  /\ life = [c \in Contracts |-> "unborn"]
  /\ terms \in [Contracts -> Terms]
  /\ face \in Faces
  /\ job = [c \in Contracts |-> NoJob]
  /\ older = [c \in Contracts |-> {}]
  /\ files = [c \in Contracts |-> {}]
  /\ process = "up"
  /\ worker = [pc |-> "scheduled"]
  /\ request = [k \in Requests |-> Idle]
  /\ faults = 0

-----------------------------------------------------------------------------
(* Requests that change the contract or its unit.                          *)

\* POST /contracts and PUT /contracts/:id read the unit before the transaction.
BeginSave(k, c, op) ==
  /\ process # "down" /\ request[k] = Idle
  /\ life[c] = IF op = "create" THEN "unborn" ELSE "live"
  /\ request' = [request EXCEPT ![k] =
                   [pc |-> "saving", op |-> op, contract |-> c, face |-> face]]
  /\ UNCHANGED <<life, terms, face, job, older, files, process, worker, faults>>

CommitCreate(k) ==
  LET q == request[k]  c == request[k].contract IN
  /\ q.pc = "saving" /\ q.op = "create" /\ life[c] = "unborn"
  /\ \E t \in Terms :
       /\ terms' = [terms EXCEPT ![c] = t]
       /\ SaveJob(c, Enqueue(job[c], <<t, q.face>>, FALSE))
  /\ life' = [life EXCEPT ![c] = "live"]
  /\ worker' = Kick(worker)
  /\ face' = face
  /\ request' = Witness([request EXCEPT ![k] = Idle], life', terms', face')
  /\ UNCHANGED <<files, process, faults>>

CommitUpdate(k) ==
  LET q == request[k]  c == request[k].contract IN
  /\ q.pc = "saving" /\ q.op = "update" /\ life[c] = "live"
  /\ ~ContractLocked(c) /\ ~JobLocked(c)
  /\ \E t \in Terms :
       /\ terms' = [terms EXCEPT ![c] = t]
       /\ SaveJob(c, Enqueue(job[c], <<t, q.face>>, FALSE))
  /\ worker' = Kick(worker)
  /\ life' = life /\ face' = face
  /\ request' = Witness([request EXCEPT ![k] = Idle], life', terms', face')
  /\ UNCHANGED <<files, process, faults>>

\* DELETE /contracts/:id: soft delete, delete the job, unlink the cache. An
\* unlink that fails is ignored; a commit that fails has unlinked all the same.
Remove(c) ==
  /\ process # "down" /\ life[c] = "live"
  /\ ~ContractLocked(c) /\ ~JobLocked(c)
  /\ \/ faults' = faults /\ files' = [files EXCEPT ![c] = {}]
     \/ Fault("unlink") /\ \E left \in SUBSET files[c] : files' = [files EXCEPT ![c] = left]
  /\ life' = [life EXCEPT ![c] = "deleted"]
  /\ job' = [job EXCEPT ![c] = NoJob]
  /\ UNCHANGED <<terms, face, older, process, worker, request>>

RemoveRollsBack(c) ==
  /\ process # "down" /\ life[c] = "live"
  /\ ~ContractLocked(c) /\ ~JobLocked(c)
  /\ Fault("rollback")
  /\ files' = [files EXCEPT ![c] = {}]
  /\ UNCHANGED <<life, terms, face, job, older, process, worker, request>>

\* PUT /units/:id: the unit row alone, no contract lock and no enqueue.
UpdateUnit(f) ==
  /\ process # "down" /\ f # face
  /\ face' = f
  /\ terms' = terms /\ life' = life
  /\ request' = Witness(request, life', terms', face')
  /\ UNCHANGED <<job, older, files, process, worker, faults>>

-----------------------------------------------------------------------------
(* Requests for the document: generate, status, retry.                     *)

Ask(k, c, op) ==
  /\ process # "down" /\ request[k] = Idle /\ life[c] # "unborn"
  /\ request' = [request EXCEPT ![k] = [pc |-> "arrived", op |-> op, contract |-> c,
                                        seen |-> IF op = "generate" THEN CurrentSet(c, life, terms, face)
                                                 ELSE {}]]
  /\ UNCHANGED <<life, terms, face, job, older, files, process, worker, faults>>

\* Mutant: the soft-delete filter is missing from the locking read.
MutantEnsureLockFindsDeleted(k) ==
  LET q == request[k]  c == request[k].contract IN
  /\ q.pc \in {"arrived", "sleeping"} /\ ~ContractLocked(c)
  /\ request' = [request EXCEPT ![k] = [pc |-> "ensuring", op |-> q.op, contract |-> c,
                                        seen |-> q.seen, face |-> face]]
  /\ UNCHANGED <<life, terms, face, job, older, files, process, worker, faults>>

\* ensureJob locks the contract row and then reads the unit row without a lock.
EnsureLock(k) ==
  LET q == request[k]  c == request[k].contract IN
  /\ q.pc \in {"arrived", "sleeping"} /\ life[c] = "live" /\ ~ContractLocked(c)
  /\ request' = [request EXCEPT ![k] = [pc |-> "ensuring", op |-> q.op, contract |-> c,
                                        seen |-> q.seen, face |-> face]]
  /\ UNCHANGED <<life, terms, face, job, older, files, process, worker, faults>>

\* Once it has the job row: enqueue, look for the cache file, save, commit, kick.
EnsureCommit(k) ==
  LET q == request[k]
      c == request[k].contract
      rev == <<terms[c], request[k].face>>
      settled == Reconcile(Enqueue(job[c], rev, request[k].op = "retry"), rev \in files[c])
      next == CASE q.op # "generate" \/ settled.status = "failed" -> Idle
                [] q.op = "generate" /\ settled.status = "ready" ->
                     [pc |-> "reading", op |-> q.op, contract |-> c, seen |-> q.seen,
                      rev |-> settled.rev]
                [] OTHER ->
                     [pc |-> "sleeping", op |-> q.op, contract |-> c, seen |-> q.seen]
  IN
  /\ q.pc = "ensuring" /\ ~JobLocked(c)
  /\ ~(q.op = "retry" /\ job[c] # NoJob /\ job[c].attempts > MaxAttempts)   \* bound
  /\ SaveJob(c, settled)
  /\ worker' = Kick(worker)
  /\ request' = [request EXCEPT ![k] = next]
  /\ UNCHANGED <<life, terms, face, files, process, faults>>

\* readGeneratedContractDocument runs after the transaction, without a lock.
ReadCache(k) ==
  LET q == request[k] IN
  /\ q.pc = "reading"
  /\ request' = [request EXCEPT ![k] =
                   IF q.rev \in files[q.contract] THEN [q EXCEPT !.pc = "served"]
                   ELSE [pc |-> "sleeping", op |-> q.op, contract |-> q.contract, seen |-> q.seen]]
  /\ UNCHANGED <<life, terms, face, job, older, files, process, worker, faults>>

\* The answer leaves: the PDF, a 404, a 503 at the deadline, or an error that
\* rolled the transaction back.
Answer(k) ==
  /\ request[k] # Idle
  /\ request' = [request EXCEPT ![k] = Idle]
  /\ UNCHANGED <<life, terms, face, job, older, files, process, worker, faults>>

-----------------------------------------------------------------------------
(* The drain loop.                                                         *)

TimerKick ==
  /\ process = "up" /\ worker.pc = "idle"
  /\ worker' = Kick(worker)
  /\ UNCHANGED <<life, terms, face, job, older, files, process, request, faults>>

\* The start of drain(): what is still "processing" was left by a crash or by a
\* lost connection, and goes back to "pending".
Interrupted == {c \in Contracts : job[c].status = "processing"}

\* Mutant: nothing is recovered.
MutantRecover ==
  /\ worker.pc = "scheduled"
  /\ worker' = [pc |-> "picking"]
  /\ UNCHANGED <<life, terms, face, job, older, files, process, request, faults>>

Recover ==
  /\ worker.pc = "scheduled"
  /\ IF process = "up"
     THEN /\ job' = [c \in Contracts |->
                       IF c \in Interrupted THEN [job[c] EXCEPT !.status = "pending"] ELSE job[c]]
          /\ older' = [d \in Contracts |->
                         IF d \in Interrupted THEN older[d] \union (Contracts \ Interrupted)
                         ELSE older[d] \ Interrupted]
          /\ worker' = [pc |-> "picking"]
     ELSE worker' = [pc |-> "leaving"] /\ UNCHANGED <<job, older>>
  /\ UNCHANGED <<life, terms, face, files, process, request, faults>>

Pending == {c \in Contracts : job[c].status = "pending"}
\* Mutant: ORDER BY updatedAt is missing.
MutantOldest == Pending
Oldest == {c \in Pending : Pending \intersect older[c] = {}}

Pick ==
  /\ worker.pc = "picking"
  /\ \/ /\ process = "up"
        /\ \E c \in Oldest :
             worker' = [pc |-> "claiming", contract |-> c, rev |-> job[c].rev,
                        attempts |-> job[c].attempts, locked |-> FALSE]
     \/ /\ process # "up" \/ Pending = {}
        /\ worker' = [pc |-> "leaving"]
  /\ UNCHANGED <<life, terms, face, job, older, files, process, request, faults>>

\* Mutant: the claim updates by contractId alone.
MutantClaimable(c, rev) == TRUE

\* UPDATE ... WHERE contractId, revision and "pending" still hold.
Claimable(c, rev) == job[c].status = "pending" /\ job[c].rev = rev
Claim ==
  LET c == worker.contract IN
  /\ worker.pc = "claiming"
  /\ IF Claimable(c, worker.rev)
     THEN /\ SaveJob(c, [job[c] EXCEPT !.status = "processing", !.attempts = worker.attempts + 1])
          /\ worker' = [worker EXCEPT !.pc = "rendering"]
     ELSE worker' = [pc |-> "picking"] /\ UNCHANGED <<job, older>>
  /\ UNCHANGED <<life, terms, face, files, process, request, faults>>

\* The child process answers with a PDF, or with an error; it is killed after
\* 60 s and by onModuleDestroy, which the loop sees as an error.
Render ==
  /\ worker.pc = "rendering"
  /\ \E outcome \in {"publishing", "failing"} : worker' = [worker EXCEPT !.pc = outcome]
  /\ UNCHANGED <<life, terms, face, job, older, files, process, request, faults>>

\* Mutant: the publishing transaction only checks that the row is there.
MutantStillClaimed(c, rev) == job[c] # NoJob

\* The publishing transaction locks the job row and checks what was claimed.
StillClaimed(c, rev) ==
  job[c] # NoJob /\ job[c].rev = rev /\ job[c].status = "processing"
LockForPublish ==
  /\ worker.pc = "publishing"
  /\ worker' = IF StillClaimed(worker.contract, worker.rev)
               THEN [worker EXCEPT !.pc = "writing", !.locked = TRUE]
               ELSE [pc |-> "picking"]
  /\ UNCHANGED <<life, terms, face, job, older, files, process, request, faults>>

\* saveGeneratedContractDocument: a temporary file, then an atomic rename.
WriteFile ==
  /\ worker.pc = "writing"
  /\ files' = [files EXCEPT ![worker.contract] = @ \union {worker.rev}]
  /\ worker' = [worker EXCEPT !.pc = "cleaning"]
  /\ UNCHANGED <<life, terms, face, job, older, process, request, faults>>

\* cleanupGeneratedContractDocuments: unlink every other revision; an unlink
\* that fails is ignored.
CleanFiles ==
  LET c == worker.contract  r == worker.rev IN
  /\ worker.pc = "cleaning"
  /\ \/ faults' = faults /\ files' = [files EXCEPT ![c] = @ \intersect {r}]
     \/ Fault("unlink")
        /\ \E left \in SUBSET files[c] : files' = [files EXCEPT ![c] = left \union (@ \intersect {r})]
  /\ worker' = [worker EXCEPT !.pc = "committing"]
  /\ UNCHANGED <<life, terms, face, job, older, process, request>>

\* jobs.save(current) and COMMIT; with its connection gone it throws.
CommitPublish ==
  LET c == worker.contract IN
  /\ worker.pc = "committing"
  /\ IF worker.locked
     THEN SaveJob(c, [job[c] EXCEPT !.status = "ready"]) /\ worker' = [pc |-> "picking"]
     ELSE worker' = [worker EXCEPT !.pc = "failing"] /\ UNCHANGED <<job, older>>
  /\ UNCHANGED <<life, terms, face, files, process, request, faults>>

\* The catch block.
RecordFailure ==
  LET c == worker.contract IN
  /\ worker.pc = "failing"
  /\ IF process = "up"
     THEN /\ IF StillClaimed(c, worker.rev)
             THEN SaveJob(c, [job[c] EXCEPT !.status = "failed"])
             ELSE UNCHANGED <<job, older>>
          /\ worker' = [pc |-> "picking"]
     ELSE worker' = [pc |-> "leaving"] /\ UNCHANGED <<job, older>>
  /\ UNCHANGED <<life, terms, face, files, process, request, faults>>

\* The finally() of kick() clears running.
Leave ==
  /\ worker.pc = "leaving"
  /\ worker' = [pc |-> "idle"]
  /\ UNCHANGED <<life, terms, face, job, older, files, process, request, faults>>

WorkerStep == \/ Recover \/ Pick \/ Claim \/ Render \/ LockForPublish \/ WriteFile
              \/ CleanFiles \/ CommitPublish \/ RecordFailure \/ Leave

-----------------------------------------------------------------------------
(* The environment.                                                        *)

\* The process dies: connections close, their transactions roll back.
Die ==
  /\ process' = "down"
  /\ worker' = [pc |-> "idle"]
  /\ request' = [k \in Requests |-> Idle]
  /\ UNCHANGED <<life, terms, face, job, older, files>>

Crash == process = "up" /\ Fault("crash") /\ Die

\* app.close(): onModuleDestroy sets stopped, clears the timer and kills the
\* render; the process exits afterwards.
Stop ==
  /\ process = "up" /\ Fault("stop")
  /\ process' = "stopping"
  /\ UNCHANGED <<life, terms, face, job, older, files, worker, request>>

Exit == process = "stopping" /\ faults' = faults /\ Die

\* onModuleInit: the timer and a first kick.
Restart ==
  /\ process = "down"
  /\ process' = "up"
  /\ worker' = [pc |-> "scheduled"]
  /\ UNCHANGED <<life, terms, face, job, older, files, request, faults>>

\* A query of the loop itself fails: drain() rejects and kick() logs it.
DrainRejects ==
  /\ worker.pc \in {"scheduled", "picking", "claiming", "failing"}
  /\ Fault("db")
  /\ worker' = [pc |-> "leaving"]
  /\ UNCHANGED <<life, terms, face, job, older, files, process, request>>

\* The publishing transaction fails: its lock goes and the catch block runs.
PublishFails ==
  /\ worker.pc \in Publishing \union {"publishing"}
  /\ Fault("disk")
  /\ worker' = [worker EXCEPT !.pc = "failing", !.locked = FALSE]
  /\ UNCHANGED <<life, terms, face, job, older, files, process, request>>

\* PostgreSQL drops the connection, and with it the row lock, while the
\* process is busy with the file system and has not noticed.
LoseLock ==
  /\ worker.pc \in Publishing /\ worker.locked
  /\ Fault("lock")
  /\ worker' = [worker EXCEPT !.locked = FALSE]
  /\ UNCHANGED <<life, terms, face, job, older, files, process, request>>

\* A cache file disappears from the storage volume (a restore, an operator).
LoseFile(c) ==
  /\ Fault("loss")
  /\ \E r \in files[c] : files' = [files EXCEPT ![c] = @ \ {r}]
  /\ UNCHANGED <<life, terms, face, job, older, process, worker, request>>

-----------------------------------------------------------------------------
RequestStep(k) ==
  \/ \E c \in Contracts : \/ \E op \in {"create", "update"} : BeginSave(k, c, op)
                          \/ \E op \in Asks : Ask(k, c, op)
  \/ CommitCreate(k) \/ CommitUpdate(k)
  \/ EnsureLock(k) \/ EnsureCommit(k) \/ ReadCache(k) \/ Answer(k)

Next ==
  \/ \E k \in Requests : RequestStep(k)
  \/ \E c \in Contracts : Remove(c) \/ RemoveRollsBack(c) \/ LoseFile(c)
  \/ \E f \in Faces : UpdateUnit(f)
  \/ TimerKick \/ WorkerStep
  \/ Crash \/ Stop \/ Exit \/ Restart \/ DrainRejects \/ PublishFails \/ LoseLock

Spec == Init /\ [][Next]_vars

\* The loop, the timer and the container's restart policy do not stall. No
\* fairness is asked of users or of failures.
Fairness == WF_vars(WorkerStep) /\ WF_vars(TimerKick) /\ WF_vars(Restart) /\ WF_vars(Exit)

FairSpec == Spec /\ Fairness

-----------------------------------------------------------------------------
(* Properties.                                                             *)

\* A PDF that leaves the service prints the contract and the unit as they
\* stood together at some moment of the very request: generate() hands out
\* neither the file of an older revision nor one of a deleted contract, though
\* it reads the unit and the cache file outside the locks.
ServedWasCurrent ==
  \A k \in Requests : request[k].pc = "served" => request[k].rev \in request[k].seen

\* The queue's own comment, "version check, file replacement and cleanup share
\* the job row lock, an old job cannot clean a new cache": no step of the drain
\* loop removes the cache file of the revision the job row names. Only a lock
\* lost with its connection breaks it.
CurrentFileKept ==
  [][\A c \in Contracts :
       "lock" \notin Faults /\ worker' # worker /\ job[c] # NoJob /\ job[c].rev \in files[c]
         => job[c].rev \in files'[c]]_vars

\* A deleted contract leaves neither a job nor a cached PDF, whatever the drain
\* loop was doing when it went (remove() against a publishing transaction).
\* Swallowed unlink errors and lost locks excepted.
DeletedLeavesNothing ==
  Faults \intersect {"lock", "unlink"} = {} =>
    \A c \in Contracts : life[c] = "deleted" => job[c] = NoJob /\ files[c] = {}

\* "ready" tells the truth about the disk through crashes, failed transactions
\* and edits that return to an earlier revision, as long as nothing outside the
\* queue removes files.
ReadyIsOnDisk ==
  Faults \intersect {"lock", "loss", "rollback"} = {} =>
    \A c \in Contracts : job[c].status = "ready" => job[c].rev \in files[c]

\* Rows and the disk agree: no file without its contract, no "ready" without
\* its file.
FilesFollowRows == DeletedLeavesNothing /\ ReadyIsOnDisk

\* drain()'s comment, "no render is active here": a row is "processing" only
\* while the loop works on exactly that revision, or when the loop is about to
\* end or to start over and recover it; and there is one such row at most.
ProcessingIsOwned ==
  /\ \A c \in Interrupted :
       \/ worker.pc \in {"idle", "scheduled", "leaving"}
       \/ worker.pc \in Working /\ worker.contract = c /\ worker.rev = job[c].rev
  /\ \A c, d \in Interrupted : c = d

\* One revision is rendered once ("same contract deduplicated"): its row goes
\* back to "pending" only by a user's retry of a failure, because its file is
\* gone, or at the start of a drain that recovers an interrupted render.
RenderedOnce ==
  [][\A c \in Contracts :
       job[c] # NoJob /\ job'[c].status = "pending" /\ job'[c].rev = job[c].rev =>
         \/ job[c].status \in {"pending", "failed"}
         \/ job[c].status = "ready" /\ job[c].rev \notin files[c]
         \/ job[c].status = "processing" /\ worker.pc = "scheduled"]_vars

\* The attempts a user sees for a revision never go down: retry, recovery and a
\* lost cache file keep them, and the loop's own copy never overwrites a
\* larger count.
AttemptsKept ==
  [][\A c \in Contracts :
       job[c] # NoJob /\ job'[c] # NoJob /\ job'[c].rev = job[c].rev
         => job'[c].attempts >= job[c].attempts]_vars

\* Renders are neither repeated nor forgotten in the count, whichever of a
\* retry, a poll, a recovery and a save of the same revision comes first.
RendersCounted == RenderedOnce /\ AttemptsKept

\* Every queued revision is settled or superseded, even when its kick came
\* while the loop was ending, after crashes and lost queries, and even if other
\* contracts are edited forever (the oldest pending row goes first).
JobSettles ==
  \A c \in Contracts, r \in Revisions :
    []<>~(job[c] # NoJob /\ job[c].rev = r /\ job[c].status \in {"pending", "processing"})

-----------------------------------------------------------------------------
(* Refinement: only a generate() request is one that ContractDocuments      *)
(* knows, open until its PDF or its error leaves.                           *)

AskView(q) ==
  CASE q.pc = "served" -> [pc |-> "told", contract |-> q.contract, rev |-> q.rev]
    [] Generating(q) -> [pc |-> "asked", contract |-> q.contract, seen |-> q.seen]
    [] OTHER -> [pc |-> "silent"]

Documents == INSTANCE ContractDocuments WITH ask <- [k \in Requests |-> AskView(request[k])]

\* The queue, its cache and its locks implement the promise of
\* ContractDocuments: every answer is a document that was current meanwhile.
RefinesDocuments == Documents!Spec

=============================================================================
