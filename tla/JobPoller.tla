------------------------------ MODULE JobPoller ------------------------------
(***************************************************************************)
(* ingestJobPoller.js, the stub that runs jobs when no Redis is            *)
(* configured.  Its timer does not wait for the tick before: ticks         *)
(* overlap.  An error ends a tick wherever it is.                          *)
(***************************************************************************)
EXTENDS JobTable

CONSTANTS Ticks, Polling   \* the poller was started

VARIABLES tick   \* tick[t]: the next statement of the tick and its job

Resting == [at |-> "idle", job |-> NoJob]

PollerTypeOK ==
  tick \in [Ticks -> [at : {"idle", "find", "claim", "started", "succeed", "completed"},
                      job : Requests \cup {NoJob}]]

PollerInit == tick = [t \in Ticks |-> Resting]

TickGoes(t, at, j) == tick' = [tick EXCEPT ![t] = [at |-> at, job |-> j]]
Ends(t) == tick' = [tick EXCEPT ![t] = Resting]

\* The interval fires.
TickStarts(t) ==
  /\ Polling /\ up /\ tick[t].at = "idle"
  /\ TickGoes(t, "find", NoJob)
  /\ UNCHANGED <<tableVars, faults>>

Place(j) == CHOOSE i \in DOMAIN created : created[i] = j
Before(i, j) == priority[i] > priority[j] \/ (priority[i] = priority[j] /\ Place(i) <= Place(j))
First(S) == CHOOSE i \in S : \A j \in S : Before(i, j)

\* Mutation: the oldest row is taken, whatever its status.
FindAny(t) ==
  /\ tick[t].at = "find"
  /\ IF Rows = {} THEN Ends(t) ELSE TickGoes(t, "claim", First(Rows))
  /\ UNCHANGED <<tableVars, faults>>

\* findFirst: queued, highest priority, oldest.
Find(t) ==
  /\ tick[t].at = "find"
  /\ LET queued == {j \in Rows : status[j] = "queued"}
     IN  IF queued = {} THEN Ends(t) ELSE TickGoes(t, "claim", First(queued))
  /\ UNCHANGED <<tableVars, faults>>

Sets(j, value) == status' = [status EXCEPT ![j] = value]

\* Mutation: the claim is an update without the status in its where.
ClaimBlindly(t) ==
  /\ tick[t].at = "claim"
  /\ Sets(tick[t].job, "running") /\ TickGoes(t, "started", tick[t].job)
  /\ Works /\ UNCHANGED <<created, priority, events>>

\* The conditional update: the loser of a race ends.
Claim(t) ==
  /\ tick[t].at = "claim"
  /\ LET j == tick[t].job
     IN  IF status[j] = "queued"
         THEN Sets(j, "running") /\ ((Works /\ TickGoes(t, "started", j)) \/ (Breaks /\ Ends(t)))
         ELSE Ends(t) /\ Works /\ UNCHANGED status
  /\ UNCHANGED <<created, priority, events>>

\* The two events and the update between them; one that fails may have run.
Started(t) ==
  /\ tick[t].at = "started"
  /\ Log(tick[t].job, "job.started")
  /\ \/ Works /\ TickGoes(t, "succeed", tick[t].job)
     \/ Breaks /\ Ends(t)
  /\ UNCHANGED <<status, created, priority>>

Succeed(t) ==
  /\ tick[t].at = "succeed"
  /\ Sets(tick[t].job, "succeeded")
  /\ \/ Works /\ TickGoes(t, "completed", tick[t].job)
     \/ Breaks /\ Ends(t)
  /\ UNCHANGED <<created, priority, events>>

Completed(t) ==
  /\ tick[t].at = "completed"
  /\ Log(tick[t].job, "job.completed")
  /\ Works \/ Breaks
  /\ Ends(t) /\ UNCHANGED <<status, created, priority>>

\* A statement fails and did not run: the catch ends the tick.
TickFails(t) ==
  /\ tick[t].at # "idle"
  /\ Breaks /\ Ends(t) /\ UNCHANGED tableVars

TickStep(t) == Find(t) \/ Claim(t) \/ Started(t) \/ Succeed(t) \/ Completed(t)

PollerLost == tick' = [t \in Ticks |-> Resting]
=============================================================================
