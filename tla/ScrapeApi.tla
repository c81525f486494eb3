------------------------------ MODULE ScrapeApi ------------------------------
(***************************************************************************)
(* The Express process over the job table: submissions, the poller that    *)
(* runs the jobs, and the stream through which one console watches one of  *)
(* them.  The process may die and start again.                             *)
(***************************************************************************)
EXTENDS JobSubmission, JobPoller, JobStream

vars == <<tableVars, up, faults, submissionVars, tick, streamVars>>

TypeOK == TableTypeOK /\ SubmissionTypeOK /\ PollerTypeOK /\ StreamTypeOK

Init == TableInit /\ SubmissionInit /\ PollerInit /\ StreamInit

Submission(r) == Submit(r) /\ UNCHANGED <<up, tick, streamVars>>

Handles(r) == HandlerStep(r) /\ UNCHANGED <<up, tick, streamVars>>

PollerTimer(t) == TickStarts(t) /\ UNCHANGED <<up, submissionVars, streamVars>>

PollerRuns(t) == TickStep(t) /\ UNCHANGED <<up, submissionVars, streamVars>>

TickError(t) == TickFails(t) /\ UNCHANGED <<up, submissionVars, streamVars>>

\* The console streams the job its 202 named.
Watch(p) ==
  /\ \E r \in Requests : accepted[r] # NoJob /\ Open(accepted[r], p)
  /\ UNCHANGED <<tableVars, up, faults, submissionVars, tick>>

StreamTimer(p) ==
  PollStarts(p) /\ UNCHANGED <<tableVars, up, faults, submissionVars, tick>>

Streams(p) ==
  PollStep(p) /\ UNCHANGED <<tableVars, up, faults, submissionVars, tick>>

StreamError(p) == PollFails(p) /\ UNCHANGED <<tableVars, up, submissionVars, tick>>

Leave == Disconnect /\ UNCHANGED <<tableVars, up, faults, submissionVars, tick>>

\* The process is killed, or a statement fails where no catch is: the lookup of
\* POST, the second one inside its catch, the first read of the stream.  Express 4
\* leaves the rejection of an async handler to Node, which ends the process.
Dies ==
  /\ up /\ Breaks /\ up' = FALSE
  /\ SubmissionsLost /\ PollerLost /\ StreamLost
  /\ UNCHANGED tableVars

Restarts ==
  /\ ~up /\ up' = TRUE
  /\ UNCHANGED <<tableVars, faults, submissionVars, tick, streamVars>>

Next ==
  \/ \E r \in Requests : Submission(r) \/ Handles(r)
  \/ \E t \in Ticks : PollerTimer(t) \/ PollerRuns(t) \/ TickError(t)
  \/ \E p \in Polls : Watch(p) \/ StreamTimer(p) \/ Streams(p) \/ StreamError(p)
  \/ Leave \/ Dies \/ Restarts

Spec == Init /\ [][Next]_vars

\* Timers fire, statements end one way or the other and the container is started
\* again.  No client has to send anything, open a stream or leave it.
Fairness ==
  /\ \A r \in Requests : WF_vars(Handles(r))
  /\ \A t \in Ticks : WF_vars(PollerTimer(t)) /\ WF_vars(PollerRuns(t))
  /\ \A p \in Polls : WF_vars(StreamTimer(p)) /\ WF_vars(Streams(p))
  /\ WF_vars(Restarts)

FairSpec == Spec /\ Fairness

-----------------------------------------------------------------------------

\* Idempotency-Key: see IdempotentSubmit.  Lost answers, failed inserts and the
\* race of two first requests leave one job per key.
Keyed == INSTANCE IdempotentSubmit WITH rows <- Rows
IdempotentSpec == Keyed!SubmitSpec

Types(j) == [i \in 1..Cardinality(EventsOf(j)) |->
  events[CHOOSE k \in EventsOf(j) : Cardinality({m \in EventsOf(j) : m <= k}) = i].type]

\* The history of a polled job: it starts once, completes once and later, and
\* its row is never behind its events, whatever ticks overlap or die.
HistoryFollowsRow ==
  \A j \in Requests :
    /\ Types(j) \in {<<>>, <<"job.started">>, <<"job.started", "job.completed">>}
    /\ Types(j) # <<>> => status[j] \in {"running", "succeeded"}
    /\ Len(Types(j)) = 2 => status[j] = "succeeded"

\* Every job a client may have been promised is taken one day: the row stays
\* queued for ever neither behind other jobs, nor after the process that wrote
\* it died before it answered.
QueuedIsTaken == \A j \in Requests : status[j] = "queued" ~> status[j] # "queued"

\* The console that stays gets every event of its job.
Shown(type) == \E i \in written : events[i].type = type
EventsArrive ==
  \A type \in {"job.started", "job.completed"} :
    (viewer = "on" /\ \E i \in EventsOf(watched) : events[i].type = type)
      ~> (viewer # "on" \/ Shown(type))
=============================================================================
