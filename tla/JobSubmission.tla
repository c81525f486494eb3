---------------------------- MODULE JobSubmission ----------------------------
(***************************************************************************)
(* POST /api/v1/scrape-jobs (scrapeJobs.js), and the form of the scrape    *)
(* console that sends it.  A request is one click; requests with one key   *)
(* are its retries or another tab.  A step is one awaited call.            *)
(***************************************************************************)
EXTENDS JobTable, ScrapeRange

CONSTANTS NoKey, KeyOf,  \* KeyOf[r]: Idempotency-Key of the request
          Bodies,        \* Bodies[r]: what the client of r may send
          Redis          \* a Redis URL is configured

VARIABLES handler,    \* handler[r]: the handler of the request
          answer,     \* answer[r]: what the client got
          accepted,   \* accepted[r]: the job of a 202
          sent,       \* sent[r]: the priority the request asks for
          bull        \* jobs with an entry in the Bull queue

submissionVars == <<handler, answer, accepted, sent, bull>>

Stages == {"idle", "lookup", "create", "enqueue", "recover", "done"}
Answers == {"none", "accepted", "refused", "failed", "lost"}
InFlight(r) == handler[r] \notin {"idle", "done"}

ASSUME SubmissionAssumption ==
  /\ Redis \in BOOLEAN
  /\ Today \in Nat /\ MaxRangeDays \in Nat \ {0}

SubmissionTypeOK ==
  /\ handler \in [Requests -> Stages]
  /\ answer \in [Requests -> Answers]
  /\ accepted \in [Requests -> Requests \cup {NoJob}]
  /\ sent \in [Requests -> 0..10]
  /\ bull \subseteq Requests

SubmissionInit ==
  /\ handler = [r \in Requests |-> "idle"]
  /\ answer = [r \in Requests |-> "none"]
  /\ accepted = [r \in Requests |-> NoJob]
  /\ sent = [r \in Requests |-> 0]
  /\ bull = {}

-----------------------------------------------------------------------------
(* validateEnqueueBody, the range and validateKindSpecificFields.  A text   *)
(* field of a body is Blank, or anything else.                              *)

VehicleKinds == {"vehicle_permit_snapshot", "vehicle_insurance_snapshot",
                 "vehicle_fitness_snapshot", "vehicle_registration_snapshot",
                 "trip_intelligence_rollup"}
Kinds == VehicleKinds \cup {"khanan_date_range", "consigner_digest", "raw_challan_backfill"}

Acceptable(body) ==
  /\ body.kind \in Kinds
  /\ body.correlationId # Blank
  /\ body.priority \in 0..10   \* 0 for no priority field
  /\ body.kind = "khanan_date_range" => RangeOk(body.from, body.to)
  /\ body.kind \in VehicleKinds => body.vehicleRegNo # Blank
  /\ body.kind = "consigner_digest" => body.consignerKey # Blank

\* validateEnqueue of the console: the fields of the kind are filled in.
Sendable(body) ==
  /\ body.correlationId # Blank
  /\ body.kind = "khanan_date_range" => Blank \notin {body.from, body.to}
  /\ body.kind \in VehicleKinds => body.vehicleRegNo # Blank
  /\ body.kind = "consigner_digest" => body.consignerKey # Blank

-----------------------------------------------------------------------------

Goes(r, at) == handler' = [handler EXCEPT ![r] = at]

Answers202(r, j) ==
  /\ Goes(r, "done")
  /\ answer' = [answer EXCEPT ![r] = "accepted"]
  /\ accepted' = [accepted EXCEPT ![r] = j]

AnswersError(r, kind) ==
  /\ Goes(r, "done")
  /\ answer' = [answer EXCEPT ![r] = kind]
  /\ UNCHANGED accepted

Continues(r, at) == Goes(r, at) /\ UNCHANGED <<answer, accepted>>

\* handleEnqueue sends the body and the handler validates it.
Submit(r) ==
  /\ up /\ handler[r] = "idle"
  /\ \E body \in Bodies[r] :
       /\ Sendable(body)
       /\ IF Acceptable(body)
          THEN /\ Continues(r, IF KeyOf[r] = NoKey THEN "create" ELSE "lookup")
               /\ sent' = [sent EXCEPT ![r] = body.priority]
          ELSE AnswersError(r, "refused") /\ UNCHANGED sent
  /\ UNCHANGED <<tableVars, bull, faults>>

\* The row of a key; the unique index allows one.
KeyedRows(r) == {j \in Rows : KeyOf[j] = KeyOf[r] /\ KeyOf[r] # NoKey}

\* findUnique by the key.  When it fails nobody catches the error: the process
\* dies.
Lookup(r) ==
  /\ handler[r] = "lookup"
  /\ IF KeyedRows(r) = {} THEN Continues(r, "create")
     ELSE \E j \in KeyedRows(r) : Answers202(r, j)
  /\ UNCHANGED <<tableVars, sent, bull, faults>>

InsertRow(r) ==
  /\ status' = [status EXCEPT ![r] = "queued"]
  /\ priority' = [priority EXCEPT ![r] = sent[r]]
  /\ created' = Append(created, r)
  /\ UNCHANGED events

\* Mutation: no unique index on the key.
CreateTwice(r) ==
  /\ handler[r] = "create"
  /\ InsertRow(r) /\ Works /\ Continues(r, "enqueue")
  /\ UNCHANGED <<sent, bull>>

\* The insert.  P2002 sends the handler to the row of the winner, any other
\* error is a 500, whether the row was written or not.
Create(r) ==
  /\ handler[r] = "create"
  /\ \/ KeyedRows(r) = {} /\ InsertRow(r)
        /\ \/ Works /\ Continues(r, "enqueue")
           \/ Breaks /\ AnswersError(r, "failed")
     \/ KeyedRows(r) # {} /\ Works /\ Continues(r, "recover") /\ UNCHANGED tableVars
     \/ Breaks /\ AnswersError(r, "failed") /\ UNCHANGED tableVars
  /\ UNCHANGED <<sent, bull>>

\* An entry in the Bull queue, unless Redis is not configured or fails.
enqueueScrapeIngestJob(r) == bull' \in (IF Redis THEN {bull, bull \cup {r}} ELSE {bull})

\* With or without an entry the 202 goes out.  The audit record in between is written
\* or not, and never fails the request.
Enqueue(r) ==
  /\ handler[r] = "enqueue"
  /\ enqueueScrapeIngestJob(r)
  /\ Answers202(r, r)
  /\ UNCHANGED <<tableVars, sent, faults>>

\* findUnique once more, inside the catch: an error here is caught by nobody.
Recover(r) ==
  /\ handler[r] = "recover"
  /\ \E j \in KeyedRows(r) : Answers202(r, j)
  /\ UNCHANGED <<tableVars, sent, bull, faults>>

HandlerStep(r) == Lookup(r) \/ Create(r) \/ Enqueue(r) \/ Recover(r)

\* The process dies with the requests in flight.
SubmissionsLost ==
  /\ handler' = [r \in Requests |-> IF InFlight(r) THEN "done" ELSE handler[r]]
  /\ answer' = [r \in Requests |-> IF InFlight(r) THEN "lost" ELSE answer[r]]
  /\ UNCHANGED <<accepted, sent, bull>>

=============================================================================
