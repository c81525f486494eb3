---------------------------- MODULE JobLifecycle ----------------------------
(***************************************************************************)
(* What the scrape-job API lets a reader of ingest.scrape_jobs rely on:    *)
(* the status column and, beside it, whether the job's parsed records have *)
(* been written.  This is the abstract specification; IngestPipeline is    *)
(* the machinery of queues, workers and failure handlers that drives it.   *)
(***************************************************************************)
CONSTANTS Jobs

VARIABLES row,        \* row[j]: the status column, "absent" before the POST
          persisted   \* persisted[j]: persistIngestArtifacts has run for j

lifecycleVars == <<row, persisted>>

Statuses == {"absent", "queued", "running", "succeeded", "failed"}

LifecycleTypeOK ==
  /\ row \in [Jobs -> Statuses]
  /\ persisted \in [Jobs -> BOOLEAN]

\* A worker has taken the job at least once, or its failure was recorded.
Touched(j) == row[j] \notin {"absent", "queued"}

LifecycleInit ==
  /\ row = [j \in Jobs |-> "absent"]
  /\ persisted = [j \in Jobs |-> FALSE]

Create(j) ==
  /\ row[j] = "absent"
  /\ row' = [row EXCEPT ![j] = "queued"]
  /\ UNCHANGED persisted

\* Only a waiting or a failed job starts: a succeeded one never runs again
\* without having been declared failed first.
Start(j) ==
  /\ row[j] \in {"queued", "failed"}
  /\ row' = [row EXCEPT ![j] = "running"]
  /\ UNCHANGED persisted

\* Records are written only for a job some worker has taken.
Persist(j) ==
  /\ Touched(j)
  /\ persisted' = [persisted EXCEPT ![j] = TRUE]
  /\ UNCHANGED row

\* Success is declared only over written records.
Succeed(j) ==
  /\ Touched(j)
  /\ persisted[j]
  /\ row' = [row EXCEPT ![j] = "succeeded"]
  /\ UNCHANGED persisted

Fail(j) ==
  /\ row[j] # "absent"
  /\ row' = [row EXCEPT ![j] = "failed"]
  /\ UNCHANGED persisted

LifecycleNext ==
  \E j \in Jobs : Create(j) \/ Start(j) \/ Persist(j) \/ Succeed(j) \/ Fail(j)

LifecycleSpec == LifecycleInit /\ [][LifecycleNext]_lifecycleVars
=============================================================================
