--------------------------- MODULE IngestPipeline ---------------------------
(***************************************************************************)
(* The ingest spine of apps/worker-ingest: a scrape job is a row of        *)
(* ingest.scrape_jobs plus three BullMQ jobs, one on the master queue and  *)
(* two ("prepare", "persist_stub_result") on the child queue.  Workers     *)
(* process them one awaited call at a time, the "failed" handlers run      *)
(* after the fact and beside the next attempt, and operators put failed    *)
(* work back through three different doors.                                *)
(*                                                                         *)
(* BullMQ is external and modelled by what src/ relies on: ids are unique, *)
(* adding an id that is still there (also as a retained completed or       *)
(* failed job) changes nothing, a failed attempt is tried again until      *)
(* `attempts`, and a job whose lock lapsed is delivered again.  The        *)
(* back-off delay of a retry is only time, so a delayed job is waiting.    *)
(***************************************************************************)
EXTENDS Naturals, FiniteSets, JobLifecycle

CONSTANTS
  Workers,          \* worker slots; each one fails as a process of its own
  Idle,             \* a slot that processes nothing
  MaxAttempts,      \* defaultJobOptions.attempts
  MaxReplays,       \* the worker's cap: INGEST_RETRY_MAX_REPLAY_ATTEMPTS, else _MAX_REPLAYS
  AdminMaxReplays,  \* the route's cap: INGEST_RETRY_MAX_REPLAYS of the API process
  MaxStalledCount,  \* BullMQ's maxStalledCount
  DlqEnabled,       \* INGEST_DLQ_ENABLED
  Doors,            \* the ways back that are switched on
  FailPoints,       \* the program points whose awaited call may fail
  MaxThrows,        \* bound: awaited calls of a processor that fail
  MaxCrashes,       \* bound: worker processes that die
  MaxLockLosses,    \* bound: locks that lapse under a live worker
  MaxFaults,        \* bound: the three kinds of faults together
  MaxExpiries,      \* bound: settled Bull jobs that retention drops
  MaxOperatorOps    \* bound: replays ordered by people

ChildSteps == {"prepare", "persist_stub_result"}
Steps == {"master"} \cup ChildSteps
BullIds == Jobs \X Steps
MasterOf(j) == <<j, "master">>
JobOf(b) == b[1]
StepOf(b) == b[2]

MasterPoints == {"read", "claim", "skipEvent", "addPrepare", "addPersist", "progress"}
ChildPoints == {"childRead", "childEvent", "write", "succeed", "report"}
HandlerPoints == {"dlqAdd", "failedRow", "mark"}
OtherPoints == {"enqueue", "dlqRemove", "retryAck"}

ASSUME PipelineAssumption ==
  /\ MaxAttempts \in Nat \ {0}
  /\ {MaxReplays, AdminMaxReplays} \subseteq Nat \ {0}
  /\ MaxStalledCount \in Nat
  /\ DlqEnabled \in BOOLEAN
  /\ Doors \subseteq {"admin", "retry", "nest"}
  /\ FailPoints \subseteq MasterPoints \cup ChildPoints \cup HandlerPoints \cup OtherPoints
  /\ {MaxThrows, MaxCrashes, MaxLockLosses, MaxFaults} \subseteq Nat
  /\ {MaxExpiries, MaxOperatorOps} \subseteq Nat

BullJob == [st : {"none", "wait", "active", "completed", "failed"},
            made : 0..MaxAttempts, stalls : 0..MaxStalledCount, replays : Nat]

NoBullJob == [st |-> "none", made |-> 0, stalls |-> 0, replays |-> 0]

\* "return" is an early return: nothing is awaited after it, so it cannot fail.
Execution == [bull : BullIds, pc : MasterPoints \cup ChildPoints \cup {"return"},
              lock : BOOLEAN, replays : Nat]

Handler == [bull : BullIds, made : 0..MaxAttempts, replays : Nat, pc : HandlerPoints]

DlqEntry == [bull : BullIds, replays : Nat]

ASSUME IdleAssumption == Idle \notin Execution

VARIABLES
  bull,       \* bull[b]: the BullMQ job with custom id b
  exec,       \* exec[w]: the execution in slot w
  handlers,   \* "failed" handlers that have not returned yet
  dlq,        \* entries of the dead-letter queue
  retryQ,     \* entries of the retry queue
  failedJobs, \* Bull jobs with a system.failed_jobs row of their own queue
  faults      \* how much of each bound is used

pipelineVars == <<bull, exec, handlers, dlq, retryQ, failedJobs, faults>>
vars == <<row, persisted, bull, exec, handlers, dlq, retryQ, failedJobs, faults>>

TypeOK ==
  /\ LifecycleTypeOK
  /\ bull \in [BullIds -> BullJob]
  /\ exec \in [Workers -> Execution \cup {Idle}]
  /\ handlers \subseteq Handler
  /\ dlq \subseteq DlqEntry
  /\ retryQ \subseteq DlqEntry
  /\ failedJobs \subseteq BullIds
  /\ faults \in [throws : Nat, crashes : Nat, locks : Nat, expiries : Nat, ops : Nat]

Init ==
  /\ LifecycleInit
  /\ bull = [b \in BullIds |-> NoBullJob]
  /\ exec = [w \in Workers |-> Idle]
  /\ handlers = {}
  /\ dlq = {}
  /\ retryQ = {}
  /\ failedJobs = {}
  /\ faults = [throws |-> 0, crashes |-> 0, locks |-> 0, expiries |-> 0, ops |-> 0]

-----------------------------------------------------------------------------
(* Queue.add with a custom job id, and the lives of a Bull job.            *)

Live(b) == bull[b].st \in {"wait", "active"}

Fresh(n) == [st |-> "wait", made |-> 0, stalls |-> 0, replays |-> n]

Added(b, n) == IF bull[b].st = "none" THEN [bull EXCEPT ![b] = Fresh(n)] ELSE bull

FaultsLeft == faults.throws + faults.crashes + faults.locks < MaxFaults

At(w, pc) == exec[w] # Idle /\ exec[w].pc = pc
Goto(w, pc) == exec' = [exec EXCEPT ![w].pc = pc]
JobAt(w) == JobOf(exec[w].bull)

-----------------------------------------------------------------------------
(* POST /api/v1/scrape-jobs: the row is created, then the master job is    *)
(* added; nobody acts on the row in between.  A failed add is logged and   *)
(* the request still answers 202.                                          *)

Submit(j) ==
  /\ row[j] = "absent"
  /\ row' = [row EXCEPT ![j] = "queued"]
  /\ \/ bull' = Added(MasterOf(j), 0)
     \/ "enqueue" \in FailPoints /\ UNCHANGED bull
  /\ UNCHANGED <<persisted, exec, handlers, dlq, retryQ, failedJobs, faults>>

(* A worker slot takes a waiting Bull job and locks it. *)
Deliver(w, b) ==
  /\ exec[w] = Idle
  /\ bull[b].st = "wait"
  /\ bull' = [bull EXCEPT ![b].st = "active"]
  /\ exec' = [exec EXCEPT ![w] =
       [bull |-> b, pc |-> IF StepOf(b) = "master" THEN "read" ELSE "childRead",
        lock |-> TRUE, replays |-> bull[b].replays]]
  /\ UNCHANGED <<row, persisted, handlers, dlq, retryQ, failedJobs, faults>>

-----------------------------------------------------------------------------
(* processMasterJob                                                        *)

\* Mutation: fans out without claiming.
MasterReadNoClaim(w) ==
  /\ At(w, "read")
  /\ Goto(w, IF row[JobAt(w)] = "succeeded" THEN "return" ELSE "addPrepare")
  /\ UNCHANGED <<row, persisted, bull, handlers, dlq, retryQ, failedJobs, faults>>

\* The early return of a job seen succeeded.
MasterRead(w) ==
  /\ At(w, "read")
  /\ Goto(w, IF row[JobAt(w)] = "succeeded" THEN "return" ELSE "claim")
  /\ UNCHANGED <<row, persisted, bull, handlers, dlq, retryQ, failedJobs, faults>>

\* Mutations: a claim that forgets queued rows, one that trusts the earlier read.
ClaimableFailedOnly == {"failed"}
ClaimableAnyUnfinished == {"queued", "failed", "succeeded"}

Claimable == {"queued", "failed"}

\* The conditional UPDATE decides on the row as it is now, not as it was read.
MasterClaim(w) ==
  /\ At(w, "claim")
  /\ IF row[JobAt(w)] \in Claimable
     THEN /\ row' = [row EXCEPT ![JobAt(w)] = "running"]
          /\ Goto(w, "addPrepare")
     ELSE /\ Goto(w, "skipEvent")
          /\ UNCHANGED row
  /\ UNCHANGED <<persisted, bull, handlers, dlq, retryQ, failedJobs, faults>>

\* "job.started" and the optional Playwright smoke stand before the first add.
MasterAddChild(w) ==
  \E step \in ChildSteps :
    /\ At(w, IF step = "prepare" THEN "addPrepare" ELSE "addPersist")
    /\ bull' = Added(<<JobAt(w), step>>, exec[w].replays)
    /\ Goto(w, IF step = "prepare" THEN "addPersist" ELSE "progress")
    /\ UNCHANGED <<row, persisted, handlers, dlq, retryQ, failedJobs, faults>>

-----------------------------------------------------------------------------
(* processChildJob                                                         *)

ChildRead(w) ==
  /\ At(w, "childRead")
  /\ Goto(w, CASE row[JobAt(w)] \in {"absent", "succeeded"} -> "return"
               [] StepOf(exec[w].bull) = "prepare" -> "childEvent"
               [] OTHER -> "write")
  /\ UNCHANGED <<row, persisted, bull, handlers, dlq, retryQ, failedJobs, faults>>

\* persistIngestArtifacts returned: the job's records are there.
ChildWrite(w) ==
  /\ At(w, "write")
  /\ persisted' = [persisted EXCEPT ![JobAt(w)] = TRUE]
  /\ Goto(w, "succeed")
  /\ UNCHANGED <<row, bull, handlers, dlq, retryQ, failedJobs, faults>>

ChildSucceed(w) ==
  /\ At(w, "succeed")
  /\ row' = [row EXCEPT ![JobAt(w)] = "succeeded"]
  /\ Goto(w, "report")
  /\ UNCHANGED <<persisted, bull, handlers, dlq, retryQ, failedJobs, faults>>

-----------------------------------------------------------------------------
(* The end of an attempt, as BullMQ's Worker settles it.  A slot that lost *)
(* its lock settles nothing: the job belongs to the next delivery.         *)

LastPoints == {"skipEvent", "progress", "childEvent", "report", "return"}

Complete(w) ==
  /\ \E pc \in LastPoints : At(w, pc)
  /\ bull' = IF exec[w].lock
             THEN [bull EXCEPT ![exec[w].bull].st = "completed"] ELSE bull
  /\ exec' = [exec EXCEPT ![w] = Idle]
  /\ UNCHANGED <<row, persisted, handlers, dlq, retryQ, failedJobs, faults>>

\* Mutation: off by one.
IsTerminalLate(made) == made > MaxAttempts

IsTerminal(made) == made >= MaxAttempts

\* The handlers return at once from their DLQ and failed_jobs parts when the
\* failure is not terminal, and from the DLQ part when the DLQ is off.
FailedHandler(b, made) ==
  [bull |-> b, made |-> made, replays |-> bull[b].replays,
   pc |-> IF ~IsTerminal(made) THEN "mark" ELSE IF DlqEnabled THEN "dlqAdd" ELSE "failedRow"]

\* An awaited call of the processor throws: the attempt is over and the
\* "failed" event starts a handler in this process.
Throw(w) ==
  /\ FaultsLeft /\ faults.throws < MaxThrows
  /\ faults' = [faults EXCEPT !.throws = @ + 1]
  /\ \E pc \in FailPoints : At(w, pc)
  /\ exec' = [exec EXCEPT ![w] = Idle]
  /\ IF exec[w].lock
     THEN LET b == exec[w].bull
              made == bull[b].made + 1
          IN  /\ bull' = [bull EXCEPT ![b].made = made,
                                      ![b].st = IF IsTerminal(made) THEN "failed" ELSE "wait"]
              /\ handlers' = handlers \cup {FailedHandler(b, made)}
     ELSE UNCHANGED <<bull, handlers>>
  /\ UNCHANGED <<row, persisted, dlq, retryQ, failedJobs>>

(* A process dies with its execution and the handlers that run in it: any   *)
(* of the pending ones, as the others may run in other replicas.           *)
Crash(w) ==
  /\ FaultsLeft /\ faults.crashes < MaxCrashes
  /\ faults' = [faults EXCEPT !.crashes = @ + 1]
  /\ exec' = [exec EXCEPT ![w] = Idle]
  /\ \E lost \in SUBSET handlers : handlers' = handlers \ lost
  /\ UNCHANGED <<row, persisted, bull, dlq, retryQ, failedJobs>>

(* A live process fails to renew its lock in time and does not notice. *)
LoseLock(w) ==
  /\ FaultsLeft /\ faults.locks < MaxLockLosses
  /\ exec[w] # Idle /\ exec[w].lock
  /\ faults' = [faults EXCEPT !.locks = @ + 1]
  /\ exec' = [exec EXCEPT ![w].lock = FALSE]
  /\ UNCHANGED <<row, persisted, bull, handlers, dlq, retryQ, failedJobs>>

Locked(b) == \E w \in Workers : exec[w] # Idle /\ exec[w].bull = b /\ exec[w].lock

\* BullMQ's stalled check: wait again, or fail beyond the stall limit.  That
\* failure reaches the same handlers; made says whether it counts as an attempt.
Stall(b) ==
  /\ bull[b].st = "active"
  /\ ~Locked(b)
  /\ IF bull[b].stalls < MaxStalledCount
     THEN /\ bull' = [bull EXCEPT ![b].st = "wait", ![b].stalls = @ + 1]
          /\ UNCHANGED handlers
     ELSE \E made \in {bull[b].made, bull[b].made + 1} :
            /\ bull' = [bull EXCEPT ![b].st = "failed", ![b].made = made]
            /\ handlers' = handlers \cup {FailedHandler(b, made)}
  /\ UNCHANGED <<row, persisted, exec, dlq, retryQ, failedJobs, faults>>

(* removeOnComplete / removeOnFail drop a settled Bull job. *)
Expire(b) ==
  /\ faults.expiries < MaxExpiries
  /\ faults' = [faults EXCEPT !.expiries = @ + 1]
  /\ bull[b].st \in {"completed", "failed"}
  /\ bull' = [bull EXCEPT ![b] = NoBullJob]
  /\ UNCHANGED <<row, persisted, exec, handlers, dlq, retryQ, failedJobs>>

-----------------------------------------------------------------------------
(* The "failed" handlers: DLQ entry, failed_jobs rows, then the row.       *)
(* The DLQ and failed_jobs writes swallow their errors.                    *)

HandlerStep(h, next) == handlers' = (handlers \ {h}) \cup {[h EXCEPT !.pc = next]}

\* Mutations: the DLQ copy counts Bull attempts as replays; its failed_jobs
\* row is taken for the source queue's.
HandlerDlqAddAttempts(h) ==
  /\ h.pc = "dlqAdd"
  /\ dlq' = dlq \cup {[bull |-> h.bull, replays |-> h.replays + h.made]}
  /\ HandlerStep(h, "failedRow")
  /\ UNCHANGED <<row, persisted, bull, exec, retryQ, failedJobs, faults>>

HandlerDlqAddNoRow(h) ==
  /\ h.pc = "dlqAdd"
  /\ dlq' = dlq \cup {[bull |-> h.bull, replays |-> h.replays]}
  /\ HandlerStep(h, "mark")
  /\ UNCHANGED <<row, persisted, bull, exec, retryQ, failedJobs, faults>>

HandlerDlqAdd(h) ==
  /\ h.pc = "dlqAdd"
  /\ \/ dlq' = dlq \cup {[bull |-> h.bull, replays |-> h.replays]}
     \/ "dlqAdd" \in FailPoints /\ UNCHANGED dlq
  /\ HandlerStep(h, "failedRow")
  /\ UNCHANGED <<row, persisted, bull, exec, retryQ, failedJobs, faults>>

HandlerFailedRow(h) ==
  /\ h.pc = "failedRow"
  /\ \/ failedJobs' = failedJobs \cup {h.bull}
     \/ "failedRow" \in FailPoints /\ UNCHANGED failedJobs
  /\ HandlerStep(h, "mark")
  /\ UNCHANGED <<row, persisted, bull, exec, dlq, retryQ, faults>>

\* Mutation: only a terminal failure marks the row.
HandlerMarkTerminal(h) ==
  /\ h.pc = "mark"
  /\ row' = IF IsTerminal(h.made) THEN [row EXCEPT ![JobOf(h.bull)] = "failed"] ELSE row
  /\ handlers' = handlers \ {h}
  /\ UNCHANGED <<persisted, bull, exec, dlq, retryQ, failedJobs, faults>>

\* markFailed: whatever the row says now.
HandlerMark(h) ==
  /\ h.pc = "mark"
  /\ row' = [row EXCEPT ![JobOf(h.bull)] = "failed"]
  /\ handlers' = handlers \ {h}
  /\ UNCHANGED <<persisted, bull, exec, dlq, retryQ, failedJobs, faults>>

-----------------------------------------------------------------------------
(* Three ways back: the Express replay of a DLQ entry, the retry worker,   *)
(* and the Nest replay of a failed_jobs row.                               *)

OperatorActs(door) ==
  /\ door \in Doors
  /\ faults.ops < MaxOperatorOps
  /\ faults' = [faults EXCEPT !.ops = @ + 1]

\* Mutation: the retry worker routes as the Express route does.
RetryTargetMaster(e) == MasterOf(JobOf(e.bull))

\* resolveRetryTarget: `target` is never set on a worker's DLQ entry, so its
\* dlqMeta.sourceQueue decides.
RetryTarget(e) == e.bull

\* The Express route looks at `target` alone, hence always at the master queue.
AdminTarget(e) == MasterOf(JobOf(e.bull))

\* Two processes, two caps: each reads its own variables.  The Nest replay starts at 0.
CapOf(door) ==
  CASE door = "retry" -> MaxReplays
    [] door = "admin" -> AdminMaxReplays
    [] OTHER -> 0

MayReplay(e, door) == e.replays < CapOf(door)

\* POST /api/v1/admin/queues/retry-replay; removing the entry is best effort.
AdminReplay(e) ==
  /\ OperatorActs("admin")
  /\ MayReplay(e, "admin")
  /\ bull' = Added(AdminTarget(e), e.replays + 1)
  /\ \/ dlq' = dlq \ {e}
     \/ "dlqRemove" \in FailPoints /\ UNCHANGED dlq
  /\ UNCHANGED <<row, persisted, exec, handlers, retryQ, failedJobs>>

\* An operator moves a DLQ payload to the retry queue by hand.
MoveToRetry(e) ==
  /\ OperatorActs("retry")
  /\ dlq' = dlq \ {e}
  /\ retryQ' = retryQ \cup {e}
  /\ UNCHANGED <<row, persisted, bull, exec, handlers, failedJobs>>

\* processRetryJob; the entry is delivered again when its completion is lost.
RetryJob(e) ==
  /\ bull' = IF MayReplay(e, "retry") THEN Added(RetryTarget(e), e.replays + 1) ELSE bull
  /\ \/ retryQ' = retryQ \ {e}
     \/ "retryAck" \in FailPoints /\ UNCHANGED retryQ
  /\ UNCHANGED <<row, persisted, exec, handlers, dlq, failedJobs, faults>>

\* POST /system/failed-jobs/:id/replay of a master or child row.
NestReplay(b) ==
  /\ OperatorActs("nest")
  /\ bull' = Added(b, 0)
  /\ UNCHANGED <<row, persisted, exec, handlers, dlq, retryQ, failedJobs>>

-----------------------------------------------------------------------------

WorkerStep(w) ==
  \/ MasterRead(w) \/ MasterClaim(w) \/ MasterAddChild(w)
  \/ ChildRead(w) \/ ChildWrite(w) \/ ChildSucceed(w)
  \/ Complete(w) \/ Throw(w)

HandlerRun(h) == HandlerDlqAdd(h) \/ HandlerFailedRow(h) \/ HandlerMark(h)

Next ==
  \/ \E j \in Jobs : Submit(j)
  \/ \E w \in Workers : WorkerStep(w) \/ Crash(w) \/ LoseLock(w)
  \/ \E w \in Workers, b \in BullIds : Deliver(w, b)
  \/ \E b \in BullIds : Stall(b) \/ Expire(b)
  \/ \E h \in handlers : HandlerRun(h)
  \/ \E e \in dlq : AdminReplay(e) \/ MoveToRetry(e)
  \/ \E e \in retryQ : RetryJob(e)
  \/ \E b \in failedJobs : NestReplay(b)

Spec == Init /\ [][Next]_vars

-----------------------------------------------------------------------------
(* Safety                                                                  *)

\* The Bull job b exists, or something that remembers it does.
Trace(b) ==
  \/ bull[b].st # "none"
  \/ \E w \in Workers : exec[w] # Idle /\ exec[w].bull = b
  \/ \E h \in handlers : h.bull = b
  \/ \E e \in dlq \cup retryQ : e.bull = b
  \/ b \in failedJobs

\* No child Bull job exists, runs, fails or is dead-lettered for a job that is
\* still waiting to be taken: the claim comes before the fan-out, also after
\* crashes, double deliveries and replays.
NoChildBeforeClaim ==
  \A j \in Jobs, step \in ChildSteps : Trace(<<j, step>>) => Touched(j)

\* A master Bull job never completes over a row that nobody took: the skip of
\* an unsuccessful claim is not a way to forget a queued job.
CompletedMasterClaimed ==
  \A j \in Jobs : bull[MasterOf(j)].st = "completed" => Touched(j)

WithinCap(n) == n = 0 \/ \E door \in Doors : n <= CapOf(door)

\* No Bull job and no queue entry carries a replay count above the cap of every door
\* that is switched on, however many times it went round and through which doors:
\* getIngestRetryMaxReplays and maxReplayEnv end the replays of a poisoned job, and
\* where they disagree the larger one does.
ReplayCapHolds ==
  /\ \A b \in BullIds : WithinCap(bull[b].replays)
  /\ \A e \in dlq \cup retryQ : WithinCap(e.replays)

\* What two lapses of a lock must not do: one Bull job settled by two
\* executions.  Only the lock holder of an active job settles it.
LockExclusive ==
  \A w \in Workers : (exec[w] # Idle /\ exec[w].lock) =>
    /\ bull[exec[w].bull].st = "active"
    /\ \A v \in Workers \ {w} : exec[v] # Idle /\ exec[v].lock => exec[v].bull # exec[w].bull

\* A Bull job that used up its attempts has its failed_jobs row, or a handler
\* on the way to writing it; only a dying process can lose the record.
TerminalFailureRecorded ==
  (faults.crashes = 0 /\ "failedRow" \notin FailPoints) =>
    \A b \in BullIds :
      (bull[b].st = "failed" /\ IsTerminal(bull[b].made)) =>
        \/ b \in failedJobs
        \/ \E h \in handlers : h.bull = b /\ h.pc \in {"dlqAdd", "failedRow"}

\* A running row always has somebody who will move it on: the master between
\* its claim and its last add, a persist child still to be settled, or the
\* handler of a failure.  It holds as long as no process dies or loses its
\* lock, the master's closing updateProgress does not fail, and work comes
\* back only through the retry worker, whose acknowledgements go through.
Pushing(w, j) ==
  /\ exec[w] # Idle
  /\ JobAt(w) = j
  /\ exec[w].pc \in {"addPrepare", "addPersist"}

RunningIsDriven ==
  \A j \in Jobs : row[j] = "running" =>
    \/ \E w \in Workers : Pushing(w, j)
    \/ Live(<<j, "persist_stub_result">>)
    \/ \E h \in handlers : JobOf(h.bull) = j

-----------------------------------------------------------------------------
(* Liveness.  Workers, handlers and BullMQ's own timers keep running: the  *)
(* event loop of a live process starves no callback, and the stalled check *)
(* and the delivery loop are timers and blocking reads of every worker.    *)
(* Faults and people are never owed anything.                              *)

Fairness ==
  /\ \A w \in Workers : WF_vars(WorkerStep(w))
  /\ \A b \in BullIds : WF_vars(\E w \in Workers : Deliver(w, b))
  /\ \A b \in BullIds : WF_vars(Stall(b))
  /\ WF_vars(\E h \in handlers : HandlerRun(h))
  /\ WF_vars(\E e \in retryQ : RetryJob(e))

FairSpec == Spec /\ Fairness

\* A job accepted by the master queue ends in "succeeded" or "failed" for good.
Settles ==
  \A j \in Jobs :
    (bull[MasterOf(j)].st # "none") ~> [](row[j] \in {"succeeded", "failed"})

-----------------------------------------------------------------------------
(* What the repository says and the code does not keep.                    *)

\* openapi.js calls "succeeded" a terminal state of a job.
SucceededIsFinal ==
  [][\A j \in Jobs : row[j] = "succeeded" => row'[j] = "succeeded"]_vars

\* README.md: the Express replay "uses the same routing rules as the retry
\* worker", then removes the DLQ entry.  So an entry leaves the DLQ for the
\* retry queue, or for the queue it came from unless its id is taken there.
ReplayReachesSource ==
  [][\A e \in dlq \ dlq' :
       \/ e \in retryQ'
       \/ bull[RetryTarget(e)].st = "none" => bull'[RetryTarget(e)].st = "wait"]_vars


=============================================================================
