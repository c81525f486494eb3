------------------------------ MODULE JobTable ------------------------------
(***************************************************************************)
(* ingest.scrape_jobs and ingest.job_events as the Express process sees    *)
(* them: the rows, the events, and how a statement may end.  A job is      *)
(* named by the request whose POST creates its row.                        *)
(***************************************************************************)
EXTENDS Integers, Sequences, FiniteSets

CONSTANTS Requests, NoJob,
          MaxFaults   \* bound: failed statements and deaths of the process

VARIABLES status,   \* status[j]: the status column, "absent" before the insert
          priority, \* priority[j]: the priority column, 0 without a row
          created,  \* the jobs in the order of createdAt
          events,   \* job_events in the order of their ids, [job, type]
          up,       \* the Express process is running
          faults

tableVars == <<status, priority, created, events>>

ASSUME TableAssumption == NoJob \notin Requests /\ MaxFaults \in Nat

Rows == {j \in Requests : status[j] # "absent"}
EventsOf(j) == {i \in DOMAIN events : events[i].job = j}

TableTypeOK ==
  /\ status \in [Requests -> {"absent", "queued", "running", "succeeded"}]
  /\ priority \in [Requests -> 0..10]
  /\ created \in Seq(Requests)
  /\ events \in Seq([job : Requests, type : {"job.started", "job.completed"}])
  /\ up \in BOOLEAN /\ faults \in 0..MaxFaults

TableInit ==
  /\ status = [j \in Requests |-> "absent"]
  /\ priority = [j \in Requests |-> 0]
  /\ created = <<>> /\ events = <<>>
  /\ up = TRUE /\ faults = 0

Log(j, type) == events' = Append(events, [job |-> j, type |-> type])

\* A statement ends as it should, or with an error; a failed one may have run.
Works == UNCHANGED faults
Breaks == faults < MaxFaults /\ faults' = faults + 1
=============================================================================
