--------------------------- MODULE ScrapeApiProofs ---------------------------
(***************************************************************************)
(* Proofs about the Express process over the job table, for any number of  *)
(* requests, keys, poller ticks and faults: the handlers of POST           *)
(* /scrape-jobs implement what an Idempotency-Key promises, every variable *)
(* keeps its type (the poller's choice of a job included), and the stream  *)
(* never skips an event, in whatever order its ticks read and answer.      *)
(***************************************************************************)
EXTENDS ScrapeApi, TLAPS, FiniteSetTheorems, SequenceTheorems, WellFoundedInduction

Before202 == {"idle", "lookup", "create", "enqueue", "recover"}
BeforeInsert == {"idle", "lookup", "create"}
Claimed == {"started", "succeed", "completed"}

HandlersTyped ==
  /\ handler \in [Requests -> Stages]
  /\ accepted \in [Requests -> Requests \cup {NoJob}]
  /\ DOMAIN status = Requests /\ DOMAIN tick = Ticks

\* A handler before its insert has no row, one behind it has its own, or the row
\* of its key; no handler answers twice; what a tick has claimed is a row.
RowsOfHandlers ==
  /\ \A r \in Requests : handler[r] \in BeforeInsert => status[r] = "absent"
  /\ \A r \in Requests : handler[r] = "enqueue" => status[r] # "absent"
  /\ \A r \in Requests : handler[r] = "recover" => KeyedRows(r) # {}
  /\ \A r \in Requests : handler[r] \in Before202 => accepted[r] = NoJob

ClaimsAreRows ==
  \A t \in Ticks : tick[t].at \in Claimed /\ tick[t].job \in Requests
                     => status[tick[t].job] # "absent"

SubmitInv == HandlersTyped /\ RowsOfHandlers /\ ClaimsAreRows

-----------------------------------------------------------------------------

LEMMA SubmitInvInit == Init => SubmitInv
BY TableAssumption
   DEF Init, TableInit, SubmissionInit, PollerInit, SubmitInv, HandlersTyped, RowsOfHandlers,
       ClaimsAreRows, Stages, Before202, BeforeInsert, Claimed, Resting

\* Handlers other than r's, and their answers, are as they were; so is what r's own
\* handler finds.
LEMMA HandlerMoves ==
  ASSUME SubmitInv, NEW r \in Requests, NEW at \in Stages,
         handler' = [handler EXCEPT ![r] = at], UNCHANGED <<status, tick>>,
         at \notin BeforeInsert \/ status[r] = "absent",
         at = "enqueue" => status[r] # "absent",
         at = "recover" => KeyedRows(r) # {},
         \/ accepted' = accepted /\ (at \in Before202 => accepted[r] = NoJob)
         \/ /\ at = "done"
            /\ \E j \in Requests : accepted' = [accepted EXCEPT ![r] = j]
  PROVE  SubmitInv'
<1>1. HandlersTyped'
  BY DEF SubmitInv, HandlersTyped
<1>2. RowsOfHandlers'
  BY DEF SubmitInv, HandlersTyped, RowsOfHandlers, Before202, BeforeInsert, KeyedRows, Rows
<1>3. ClaimsAreRows'
  BY DEF SubmitInv, HandlersTyped, ClaimsAreRows
<1> QED
  BY <1>1, <1>2, <1>3 DEF SubmitInv

\* What the other actors do to the table: rows stay rows.
LEMMA TableMoves ==
  ASSUME SubmitInv, UNCHANGED <<handler, accepted>>,
         DOMAIN status' = Requests, DOMAIN tick' = Ticks,
         \A r \in Requests : status[r] = "absent" <=> status'[r] = "absent",
         ClaimsAreRows'
  PROVE  SubmitInv'
<1>1. HandlersTyped'
  BY DEF SubmitInv, HandlersTyped
<1>2. RowsOfHandlers'
  BY DEF SubmitInv, HandlersTyped, RowsOfHandlers, Before202, BeforeInsert, KeyedRows, Rows
<1> QED
  BY <1>1, <1>2 DEF SubmitInv

\* A step of one tick leaves the set of rows alone.
LEMMA TicksKeepRows ==
  ASSUME SubmitInv, NEW t \in Ticks, TickStarts(t) \/ TickStep(t) \/ TickFails(t)
  PROVE  /\ DOMAIN status' = Requests /\ DOMAIN tick' = Ticks
         /\ \A r \in Requests : status[r] = "absent" <=> status'[r] = "absent"
         /\ ClaimsAreRows'
<1> USE DEF SubmitInv, HandlersTyped, ClaimsAreRows, Claimed, TickGoes, Ends, Resting, Sets
<1>1. CASE TickStarts(t)
  BY <1>1 DEF TickStarts, tableVars
<1>2. CASE Find(t)
  BY <1>2 DEF Find, tableVars
<1>3. CASE Claim(t)
  BY <1>3 DEF Claim
<1>4. CASE Started(t)
  BY <1>4 DEF Started
<1>5. CASE Succeed(t)
  BY <1>5 DEF Succeed
<1>6. CASE Completed(t)
  BY <1>6 DEF Completed
<1>7. CASE TickFails(t)
  BY <1>7 DEF TickFails, tableVars
<1> QED
  BY <1>1, <1>2, <1>3, <1>4, <1>5, <1>6, <1>7 DEF TickStep

-----------------------------------------------------------------------------

\* What a create does to the invariant, with the row or without it.
LEMMA CreateKeepsInv ==
  ASSUME SubmitInv, NEW r \in Requests, Create(r), UNCHANGED tick
  PROVE  SubmitInv'
<1> USE DEF SubmitInv, HandlersTyped
<1>1. ASSUME KeyedRows(r) = {}, InsertRow(r), Continues(r, "enqueue") PROVE SubmitInv'
  BY <1>1 DEF InsertRow, Continues, Goes, Create, RowsOfHandlers, ClaimsAreRows, KeyedRows, Rows,
              Stages, Before202, BeforeInsert
<1>2. ASSUME KeyedRows(r) = {}, InsertRow(r), AnswersError(r, "failed") PROVE SubmitInv'
  BY <1>2 DEF InsertRow, AnswersError, Goes, Create, RowsOfHandlers, ClaimsAreRows, KeyedRows,
              Rows, Stages, Before202, BeforeInsert
<1>3. ASSUME KeyedRows(r) # {}, Continues(r, "recover"), UNCHANGED tableVars PROVE SubmitInv'
  <2>1. accepted[r] = NoJob
    BY DEF Create, RowsOfHandlers, Before202
  <2> QED
    BY <1>3, <2>1, HandlerMoves DEF Continues, Goes, tableVars, Stages, BeforeInsert
<1>4. ASSUME AnswersError(r, "failed"), UNCHANGED tableVars PROVE SubmitInv'
  BY <1>4, HandlerMoves DEF AnswersError, Goes, tableVars, Stages, BeforeInsert, Before202
<1> QED
  BY <1>1, <1>2, <1>3, <1>4 DEF Create

LEMMA SubmitInvStep ==
  SubmitInv /\ [Next]_vars => SubmitInv'
<1> SUFFICES ASSUME SubmitInv, [Next]_vars PROVE SubmitInv'
  OBVIOUS
<1> USE DEF SubmitInv, HandlersTyped
<1>1. ASSUME NEW r \in Requests, Submission(r) PROVE SubmitInv'
  <2>1. status[r] = "absent" /\ accepted[r] = NoJob
    BY <1>1 DEF Submission, Submit, RowsOfHandlers, BeforeInsert, Before202
  <2>2. UNCHANGED <<status, tick, accepted>>
    BY <1>1 DEF Submission, Submit, tableVars, Continues, AnswersError
  <2>3. \E at \in {"create", "lookup", "done"} : Goes(r, at)
    BY <1>1 DEF Submission, Submit, Continues, AnswersError
  <2> QED
    BY <2>1, <2>2, <2>3, HandlerMoves DEF Goes, Stages
<1>2. ASSUME NEW r \in Requests, Handles(r) PROVE SubmitInv'
  <2>a. UNCHANGED tick
    BY <1>2 DEF Handles
  <2>1. CASE Lookup(r)
    <3>1. status[r] = "absent" /\ accepted[r] = NoJob /\ UNCHANGED status
      BY <2>1 DEF Lookup, RowsOfHandlers, Before202, BeforeInsert, tableVars
    <3>2. CASE Continues(r, "create")
      BY <2>a, <3>1, <3>2, HandlerMoves DEF Continues, Goes, Stages
    <3>3. ASSUME NEW j \in KeyedRows(r), Answers202(r, j) PROVE SubmitInv'
      BY <2>a, <3>1, <3>3, HandlerMoves DEF Answers202, Goes, Stages, KeyedRows, Rows, BeforeInsert
    <3> QED
      BY <2>1, <3>2, <3>3 DEF Lookup
  <2>2. CASE Create(r)
    BY <2>2, <2>a, CreateKeepsInv
  <2>3. CASE Enqueue(r)
    BY <2>a, <2>3, HandlerMoves DEF Enqueue, Answers202, Goes, Stages, tableVars, BeforeInsert
  <2>4. CASE Recover(r)
    BY <2>a, <2>4, HandlerMoves
       DEF Recover, Answers202, Goes, Stages, tableVars, KeyedRows, Rows, BeforeInsert
  <2> QED
    BY <1>2, <2>1, <2>2, <2>3, <2>4 DEF Handles, HandlerStep
<1>3. ASSUME NEW t \in Ticks, PollerTimer(t) \/ PollerRuns(t) \/ TickError(t) PROVE SubmitInv'
  BY <1>3, TicksKeepRows, TableMoves DEF PollerTimer, PollerRuns, TickError, submissionVars
<1>4. CASE Dies
  <2>1. /\ handler' = [r \in Requests |-> IF InFlight(r) THEN "done" ELSE handler[r]]
        /\ tick' = [t \in Ticks |-> Resting] /\ UNCHANGED <<accepted, status>>
    BY <1>4 DEF Dies, SubmissionsLost, PollerLost, tableVars
  <2>2. HandlersTyped' /\ ClaimsAreRows'
    BY <2>1 DEF ClaimsAreRows, Claimed, Resting, Stages
  <2>3. \A r \in Requests : handler'[r] = handler[r] \/ handler'[r] = "done"
    BY <2>1
  <2>4. RowsOfHandlers'
    BY <2>1, <2>3 DEF RowsOfHandlers, KeyedRows, Rows, Before202, BeforeInsert
  <2> QED
    BY <2>2, <2>4
<1>5. CASE UNCHANGED <<handler, accepted, status, tick>>
  BY <1>5 DEF RowsOfHandlers, ClaimsAreRows, KeyedRows, Rows
<1> QED
  BY <1>1, <1>2, <1>3, <1>4, <1>5
     DEF Next, vars, tableVars, submissionVars, Watch, StreamTimer, Streams, StreamError, Leave, Restarts

LEMMA SubmitInvAlways == Spec => []SubmitInv
BY SubmitInvInit, SubmitInvStep, PTL DEF Spec

-----------------------------------------------------------------------------
(* The refinement, action by action.                                       *)

\* An answer of 202 names a row of the request's key.
LEMMA AnswerAccepts ==
  ASSUME SubmitInv, NEW r \in Requests, handler[r] \in Before202, UNCHANGED status,
         NEW j, Answers202(r, j), j \in KeyedRows(r) \/ (j = r /\ r \in Rows)
  PROVE  Keyed!SubmitNext
<1>1. accepted[r] = NoJob
  BY DEF SubmitInv, RowsOfHandlers
<1>2. j \in Rows /\ Keyed!SameJob(r, j)
  BY DEF KeyedRows, Keyed!SameJob
<1>3. Rows' = Rows
  BY DEF Rows
<1>4. Keyed!Accept(r)
  BY <1>1, <1>2, <1>3 DEF Keyed!Accept, Answers202
<1> QED
  BY <1>4 DEF Keyed!SubmitNext

\* An insert that ran, answered or not, is the key's only one.
LEMMA InsertIsFirst ==
  ASSUME SubmitInv, NEW r \in Requests, handler[r] = "create", KeyedRows(r) = {}, InsertRow(r),
         UNCHANGED accepted
  PROVE  Keyed!SubmitNext
<1>1. r \notin Rows
  BY DEF SubmitInv, RowsOfHandlers, BeforeInsert, Rows
<1>2. \A s \in Rows : ~Keyed!SameJob(r, s)
  BY <1>1 DEF Keyed!SameJob, KeyedRows, Rows
<1>3. Rows' = Rows \cup {r}
  BY DEF InsertRow, Rows, SubmitInv, HandlersTyped
<1> QED
  BY <1>2, <1>3 DEF Keyed!SubmitNext, Keyed!Insert

LEMMA SubmitStepRefines ==
  SubmitInv /\ [Next]_vars => [Keyed!SubmitNext]_(Keyed!submitVars)
<1> SUFFICES ASSUME SubmitInv, [Next]_vars
    PROVE  Keyed!SubmitNext \/ (Rows' = Rows /\ accepted' = accepted)
  BY DEF Keyed!submitVars
<1>1. ASSUME NEW r \in Requests, Handles(r)
      PROVE  Keyed!SubmitNext \/ (Rows' = Rows /\ accepted' = accepted)
  <2>1. CASE Lookup(r)
    BY <2>1, AnswerAccepts DEF Lookup, Before202, Continues, tableVars, Rows
  <2>2. CASE Create(r)
    BY <2>2, InsertIsFirst DEF Create, Continues, AnswersError, tableVars, Rows
  <2>3. CASE Enqueue(r)
    BY <2>3, AnswerAccepts DEF Enqueue, SubmitInv, RowsOfHandlers, Rows, Before202, tableVars
  <2>4. CASE Recover(r)
    BY <2>4, AnswerAccepts DEF Recover, Before202, tableVars
  <2> QED
    BY <1>1, <2>1, <2>2, <2>3, <2>4 DEF Handles, HandlerStep
<1>2. ASSUME NEW r \in Requests, Submission(r) PROVE Rows' = Rows /\ accepted' = accepted
  BY <1>2 DEF Submission, Submit, Continues, AnswersError, tableVars, Rows
<1>3. ASSUME NEW t \in Ticks, PollerTimer(t) \/ PollerRuns(t) \/ TickError(t)
      PROVE  Rows' = Rows /\ accepted' = accepted
  <2>1. \A r \in Requests : status[r] = "absent" <=> status'[r] = "absent"
    BY <1>3, TicksKeepRows DEF PollerTimer, PollerRuns, TickError
  <2>2. accepted' = accepted
    BY <1>3 DEF PollerTimer, PollerRuns, TickError, submissionVars
  <2> QED
    BY <2>1, <2>2 DEF Rows
<1>4. CASE Dies
  BY <1>4 DEF Dies, SubmissionsLost, tableVars, Rows
<1>5. CASE UNCHANGED <<accepted, status>>
  BY <1>5 DEF Rows
<1> QED
  BY <1>1, <1>2, <1>3, <1>4, <1>5
     DEF Next, vars, tableVars, submissionVars, Watch, StreamTimer, Streams, StreamError, Leave, Restarts

\* POST /scrape-jobs keeps the promise of the Idempotency-Key for any number of
\* requests and keys: a key has at most one row whatever handlers race, fail or die
\* between lookup, insert and answer, and every 202 names the row of its key.
THEOREM SubmissionsAreIdempotent == Spec => IdempotentSpec
<1>1. Init => Keyed!SubmitInit
  BY DEF Init, TableInit, SubmissionInit, Keyed!SubmitInit, Rows
<1> QED
  BY <1>1, SubmitStepRefines, SubmitInvAlways, PTL DEF Spec, IdempotentSpec, Keyed!SubmitSpec

-----------------------------------------------------------------------------
(* Types.  The poller's job is typed because there is a first one among    *)
(* the queued rows.                                                        *)

LEMMA LeastNumber ==
  ASSUME NEW T, T \subseteq Nat, T # {}
  PROVE  \E x \in T : \A y \in T : x <= y
<1> DEFINE R == {ss \in Nat \X Nat : ss[1] < ss[2]}
<1>1. IsWellFoundedOn(R, Nat)
  BY NatLessThanWellFounded DEF OpToRel
<1>2. PICK x \in T : \A y \in T : ~(<<y, x>> \in R)
  BY <1>1, WFMin
<1>3. ASSUME NEW y \in T PROVE x <= y
  <2>1. y \in Nat /\ x \in Nat
    OBVIOUS
  <2>2. y < x => <<y, x>> \in R
    BY <2>1
  <2>3. ~(y < x)
    BY <1>2, <2>2
  <2> QED
    BY <2>1, <2>3
<1> QED
  BY <1>3

LEMMA GreatestNumber ==
  ASSUME NEW n \in Nat, NEW T, T \subseteq 0..n, T # {}
  PROVE  \E x \in T : \A y \in T : y <= x
<1> DEFINE D == {n - x : x \in T}
<1>1. D \subseteq Nat /\ D # {}
  OBVIOUS
<1>2. PICK d \in D : \A y \in D : d <= y
  BY <1>1, LeastNumber
<1>3. PICK x \in T : d = n - x
  OBVIOUS
<1>4. ASSUME NEW y \in T PROVE y <= x
  <2>1. n - y \in D
    OBVIOUS
  <2> QED
    BY <1>2, <1>3, <2>1
<1> QED
  BY <1>4

RowsCreated ==
  \A j \in Requests : status[j] # "absent" => \E i \in DOMAIN created : created[i] = j

TicksHaveJobs == \A t \in Ticks : tick[t].at \notin {"idle", "find"} => tick[t].job \in Requests

TypeInv == TypeOK /\ RowsCreated /\ TicksHaveJobs

\* findFirst finds one of the rows it is asked for.
LEMMA FirstIsOne ==
  ASSUME TypeInv, NEW S, S \subseteq Rows, S # {}
  PROVE  First(S) \in S
<1>1. S \subseteq Requests /\ priority \in [Requests -> 0..10] /\ created \in Seq(Requests)
  BY DEF TypeInv, TypeOK, TableTypeOK, Rows
<1>2. \A j \in S : Place(j) \in Nat
  <2>1. ASSUME NEW j \in S PROVE \E i \in DOMAIN created : created[i] = j
    BY DEF TypeInv, RowsCreated, Rows
  <2>2. ASSUME NEW j \in S PROVE Place(j) \in DOMAIN created
    BY <2>1 DEF Place
  <2>3. DOMAIN created \subseteq Nat
    BY <1>1
  <2> QED
    BY <2>2, <2>3
<1>3. PICK p \in {priority[i] : i \in S} : \A q \in {priority[i] : i \in S} : q <= p
  <2>1. {priority[i] : i \in S} \subseteq 0..10 /\ {priority[i] : i \in S} # {}
    BY <1>1
  <2> QED
    BY <2>1, GreatestNumber
<1> DEFINE Top == {i \in S : priority[i] = p}
<1>4. PICK m \in {Place(i) : i \in Top} : \A q \in {Place(i) : i \in Top} : m <= q
  <2>1. {Place(i) : i \in Top} \subseteq Nat /\ {Place(i) : i \in Top} # {}
    BY <1>2, <1>3
  <2> HIDE DEF Top
  <2> QED
    BY <2>1, LeastNumber
<1>5. PICK i \in Top : m = Place(i)
  BY <1>4
<1>6. ASSUME NEW j \in S PROVE Before(i, j)
  <2>1. CASE priority[j] = p
    BY <1>4, <1>5, <2>1 DEF Before
  <2>2. CASE priority[j] # p
    <3>1. priority[j] <= p /\ priority[i] = p /\ p \in 0..10 /\ priority[j] \in 0..10
      BY <1>1, <1>3
    <3> QED
      BY <2>2, <3>1 DEF Before
  <2> QED
    BY <2>1, <2>2
<1> QED
  BY <1>5, <1>6 DEF First

LEMMA TypeInvInit == Init => TypeInv
<1> SUFFICES ASSUME Init PROVE TypeInv
  OBVIOUS
<1>1. TableTypeOK /\ RowsCreated
  BY TableAssumption DEF Init, TableInit, TableTypeOK, RowsCreated
<1>2. SubmissionTypeOK
  BY DEF Init, SubmissionInit, SubmissionTypeOK, Stages, Answers
<1>3. PollerTypeOK /\ TicksHaveJobs
  BY DEF Init, PollerInit, PollerTypeOK, Resting, TicksHaveJobs
<1>4. StreamTypeOK
  BY <1>1 DEF Init, StreamInit, StreamTypeOK, NoPoll, TableTypeOK
<1> QED
  BY <1>1, <1>2, <1>3, <1>4 DEF TypeInv, TypeOK

\* The stream's ticks hold ids of events that stay.
LEMMA StreamTypeStays ==
  ASSUME StreamTypeOK, UNCHANGED streamVars, TableTypeOK, TableTypeOK', Len(events) <= Len(events')
  PROVE  StreamTypeOK'
<1>1. DOMAIN events \subseteq DOMAIN events' /\ 0..Len(events) \subseteq 0..Len(events')
  BY DEF TableTypeOK
<1>2. SUBSET DOMAIN events \subseteq SUBSET DOMAIN events'
  BY <1>1
<1>3. ASSUME NEW p \in Polls
      PROVE  poll[p] \in [at : {"idle", "query", "deliver", "status"}, after : Nat,
                          page : SUBSET DOMAIN events']
  BY <1>2 DEF StreamTypeOK
<1> QED
  BY <1>1, <1>3 DEF StreamTypeOK, streamVars

LEMMA SubmissionTyped ==
  ASSUME TypeInv, NEW r \in Requests, Submit(r) \/ HandlerStep(r), UNCHANGED up
  PROVE  TableTypeOK' /\ SubmissionTypeOK' /\ RowsCreated' /\ events' = events
<1> USE DEF TypeInv, TypeOK
<1>1. ASSUME UNCHANGED tableVars, faults' = faults PROVE TableTypeOK' /\ RowsCreated' /\ events' = events
  BY <1>1 DEF tableVars, TableTypeOK, RowsCreated
<1>2. CASE Submit(r)
  <2>1. \A body \in Bodies[r] : Acceptable(body) => body.priority \in 0..10
    BY DEF Acceptable
  <2> QED
    BY <1>1, <1>2, <2>1 DEF Submit, SubmissionTypeOK, Continues, AnswersError, Goes, Stages, Answers
<1>3. CASE Lookup(r)
  BY <1>1, <1>3 DEF Lookup, SubmissionTypeOK, Continues, Answers202, Goes, Stages, Answers,
                    KeyedRows, Rows
<1>4. CASE Create(r)
  <2>1. ASSUME InsertRow(r), faults' \in 0..MaxFaults
        PROVE  TableTypeOK' /\ RowsCreated' /\ events' = events
    <3>1. TableTypeOK' /\ events' = events
      BY <2>1 DEF InsertRow, TableTypeOK, SubmissionTypeOK
    <3>2. created \in Seq(Requests) /\ created' = Append(created, r)
      BY <2>1 DEF InsertRow, TableTypeOK
    <3>3. /\ DOMAIN created \subseteq DOMAIN created' /\ Len(created') \in DOMAIN created'
          /\ created'[Len(created')] = r /\ \A i \in DOMAIN created : created'[i] = created[i]
      BY <3>2
    <3>4. ASSUME NEW j \in Requests, status'[j] # "absent"
          PROVE  \E i \in DOMAIN created' : created'[i] = j
      <4>1. CASE j = r
        BY <3>3, <4>1
      <4>2. CASE j # r
        <5>1. status[j] # "absent"
          BY <2>1, <3>4, <4>2 DEF InsertRow, TableTypeOK
        <5> QED
          BY <3>3, <5>1 DEF RowsCreated
      <4> QED
        BY <4>1, <4>2
    <3> QED
      BY <3>1, <3>4 DEF RowsCreated
  <2>2. faults' \in 0..MaxFaults
    BY <1>4, TableAssumption DEF Create, Works, Breaks, TableTypeOK
  <2>3. ASSUME UNCHANGED tableVars PROVE TableTypeOK' /\ RowsCreated' /\ events' = events
    BY <2>2, <2>3 DEF tableVars, TableTypeOK, RowsCreated
  <2>4. SubmissionTypeOK'
    BY <1>4 DEF Create, SubmissionTypeOK, Continues, AnswersError, Goes, Stages, Answers
  <2> QED
    BY <1>4, <2>1, <2>2, <2>3, <2>4 DEF Create
<1>5. CASE Enqueue(r)
  BY <1>1, <1>5 DEF Enqueue, enqueueScrapeIngestJob, SubmissionTypeOK, Answers202, Goes, Stages, Answers
<1>6. CASE Recover(r)
  BY <1>1, <1>6 DEF Recover, SubmissionTypeOK, Answers202, Goes, Stages, Answers, KeyedRows, Rows
<1> QED
  BY <1>2, <1>3, <1>4, <1>5, <1>6 DEF HandlerStep

LEMMA LogTyped ==
  ASSUME TableTypeOK, NEW j \in Requests, NEW type \in {"job.started", "job.completed"}, Log(j, type)
  PROVE  /\ events' \in Seq([job : Requests, type : {"job.started", "job.completed"}])
         /\ Len(events') = Len(events) + 1
         /\ \A i \in DOMAIN events : events'[i] = events[i]
<1> DEFINE Events == [job : Requests, type : {"job.started", "job.completed"}]
           e == [job |-> j, type |-> type]
<1>1. events \in Seq(Events) /\ e \in Events /\ events' = Append(events, e)
  BY DEF TableTypeOK, Log
<1> HIDE DEF Events, e
<1>2. events' \in Seq(Events) /\ Len(events') = Len(events) + 1
      /\ \A i \in 1..Len(events) : events'[i] = events[i]
  BY <1>1, AppendProperties
<1> QED
  BY <1>1, <1>2 DEF Events

LEMMA TickTyped ==
  ASSUME TypeInv, SubmitInv, NEW t \in Ticks, TickStarts(t) \/ TickStep(t) \/ TickFails(t),
         UNCHANGED up
  PROVE  /\ TableTypeOK' /\ PollerTypeOK' /\ RowsCreated' /\ TicksHaveJobs'
         /\ Len(events) <= Len(events')
<1> USE DEF TypeInv, TypeOK
<1>1. faults' \in 0..MaxFaults
  BY TableAssumption
     DEF TickStarts, TickStep, Find, Claim, Started, Succeed, Completed, TickFails, Works, Breaks,
         TableTypeOK
<1>2. tick[t].job \in Requests \cup {NoJob}
  BY DEF PollerTypeOK
<1>3. ASSUME UNCHANGED tableVars
      PROVE  TableTypeOK' /\ RowsCreated' /\ Len(events) <= Len(events')
  BY <1>1, <1>3 DEF tableVars, TableTypeOK, RowsCreated
<1>4. ASSUME UNCHANGED <<status, priority, created>>, tick[t].job \in Requests,
             NEW type \in {"job.started", "job.completed"}, Log(tick[t].job, type)
      PROVE  TableTypeOK' /\ RowsCreated' /\ Len(events) <= Len(events')
  <2>1. /\ events' \in Seq([job : Requests, type : {"job.started", "job.completed"}])
        /\ Len(events') = Len(events) + 1
    BY <1>4, LogTyped
  <2>2. Len(events) \in Nat
    BY DEF TableTypeOK
  <2>3. TableTypeOK'
    BY <1>1, <1>4, <2>1 DEF TableTypeOK
  <2>4. RowsCreated'
    BY <1>4 DEF RowsCreated
  <2> QED
    BY <2>1, <2>2, <2>3, <2>4
<1>5. CASE TickStarts(t)
  BY <1>3, <1>5 DEF TickStarts, PollerTypeOK, TicksHaveJobs, TickGoes
<1>6. CASE Find(t)
  <2> DEFINE queued == {j \in Rows : status[j] = "queued"}
  <2>1. queued = {} \/ First(queued) \in Requests
    <3>1. queued \subseteq Rows
      OBVIOUS
    <3>2. Rows \subseteq Requests
      BY DEF Rows
    <3> HIDE DEF queued
    <3> QED
      BY <3>1, <3>2, FirstIsOne
  <2>2. Ends(t) \/ (queued # {} /\ TickGoes(t, "claim", First(queued)))
    BY <1>6 DEF Find
  <2> HIDE DEF queued
  <2> QED
    BY <1>3, <1>6, <2>1, <2>2 DEF Find, PollerTypeOK, TicksHaveJobs, TickGoes, Ends, Resting
<1>7. CASE Claim(t)
  <2>1. TableTypeOK' /\ RowsCreated' /\ events' = events
    BY <1>1, <1>7 DEF Claim, Sets, TableTypeOK, RowsCreated
  <2>2. PollerTypeOK' /\ TicksHaveJobs'
    BY <1>7 DEF Claim, PollerTypeOK, TicksHaveJobs, TickGoes, Ends, Resting
  <2> QED
    BY <2>1, <2>2 DEF TableTypeOK
<1>8. CASE Started(t)
  <2>1. tick[t].job \in Requests
    BY <1>8 DEF Started, TicksHaveJobs
  <2>2. PollerTypeOK' /\ TicksHaveJobs'
    BY <1>8, <2>1 DEF Started, PollerTypeOK, TicksHaveJobs, TickGoes, Ends, Resting
  <2> QED
    BY <1>4, <1>8, <2>1, <2>2 DEF Started
<1>9. CASE Succeed(t)
  <2>1. tick[t].job \in Requests /\ status[tick[t].job] # "absent"
    BY <1>9 DEF Succeed, TicksHaveJobs, SubmitInv, ClaimsAreRows, Claimed
  <2>2. TableTypeOK' /\ RowsCreated' /\ events' = events
    BY <1>1, <1>9, <2>1 DEF Succeed, Sets, TableTypeOK, RowsCreated
  <2>3. PollerTypeOK' /\ TicksHaveJobs'
    BY <1>9, <2>1 DEF Succeed, PollerTypeOK, TicksHaveJobs, TickGoes, Ends, Resting
  <2> QED
    BY <2>2, <2>3 DEF TableTypeOK
<1>10. CASE Completed(t)
  <2>1. tick[t].job \in Requests
    BY <1>10 DEF Completed, TicksHaveJobs
  <2>2. PollerTypeOK' /\ TicksHaveJobs'
    BY <1>10 DEF Completed, PollerTypeOK, TicksHaveJobs, Ends, Resting
  <2> QED
    BY <1>4, <1>10, <2>1, <2>2 DEF Completed
<1>11. CASE TickFails(t)
  BY <1>3, <1>11 DEF TickFails, PollerTypeOK, TicksHaveJobs, Ends, Resting
<1> QED
  BY <1>5, <1>6, <1>7, <1>8, <1>9, <1>10, <1>11 DEF TickStep

LEMMA LastIsOne ==
  ASSUME TableTypeOK, NEW page \in SUBSET DOMAIN events, page # {}
  PROVE  Last(page) \in page /\ \A k \in page : k <= Last(page)
<1>1. Len(events) \in Nat /\ page \subseteq 0..Len(events)
  BY DEF TableTypeOK
<1>2. \E i \in page : \A k \in page : k <= i
  BY <1>1, GreatestNumber
<1> QED
  BY <1>2 DEF Last

PollType ==
  [at : {"idle", "query", "deliver", "status"}, after : Nat, page : SUBSET DOMAIN events]

LEMMA StreamTyped ==
  ASSUME TypeInv,
         \/ \E j \in Requests, p \in Polls : Open(j, p)
         \/ \E p \in Polls : PollStarts(p) \/ PollStep(p) \/ PollFails(p)
         \/ Disconnect,
         UNCHANGED tableVars
  PROVE  StreamTypeOK'
<1>1. TableTypeOK /\ StreamTypeOK /\ events' = events
  BY DEF TypeInv, TypeOK, tableVars
<1>2. poll \in [Polls -> PollType] /\ lastEventId \in Nat /\ Len(events) \in Nat
  BY <1>1 DEF StreamTypeOK, PollType, TableTypeOK
<1>3. ASSUME poll' \in [Polls -> PollType], viewer' \in {"off", "on", "gone"},
             stream' \in {"none", "first", "polling", "closed"}, watched' \in Requests \cup {NoJob},
             lastEventId' \in 0..Len(events), written' \subseteq DOMAIN events
      PROVE  StreamTypeOK'
  BY <1>1, <1>3 DEF StreamTypeOK, PollType
<1>4. NoPoll \in PollType
  BY DEF NoPoll, PollType
<1>5. ASSUME NEW p \in Polls, Issue(p) PROVE poll' \in [Polls -> PollType]
  <2>1. [at |-> "query", after |-> lastEventId, page |-> {}] \in PollType
    BY <1>2 DEF PollType
  <2> QED
    BY <1>2, <1>5, <2>1 DEF Issue
<1>6. ASSUME NEW p \in Polls, PollEnds(p) PROVE poll' \in [Polls -> PollType]
  BY <1>2, <1>4, <1>6 DEF PollEnds
<1>7. ASSUME NEW j \in Requests, NEW p \in Polls, Open(j, p) PROVE StreamTypeOK'
  BY <1>1, <1>3, <1>5, <1>7 DEF Open, StreamTypeOK
<1>8. ASSUME NEW p \in Polls, PollStarts(p) PROVE StreamTypeOK'
  BY <1>1, <1>3, <1>5, <1>8 DEF PollStarts, StreamTypeOK
<1>9. ASSUME NEW p \in Polls, Query(p) PROVE StreamTypeOK'
  <2>1. PICK page \in SUBSET DOMAIN events :
          poll' = [poll EXCEPT ![p] = [@ EXCEPT !.at = "deliver", !.page = page]]
    BY <1>9 DEF Query, EventsOf
  <2>2. [poll[p] EXCEPT !.at = "deliver", !.page = page] \in PollType
    BY <1>2 DEF PollType
  <2> QED
    BY <1>1, <1>2, <1>3, <1>9, <2>1, <2>2 DEF Query, StreamTypeOK
<1>10. ASSUME NEW p \in Polls, Deliver(p) PROVE StreamTypeOK'
  <2>1. poll[p].page \in SUBSET DOMAIN events
    BY <1>2 DEF PollType
  <2>2. lastEventId' \in 0..Len(events)
    <3>1. CASE poll[p].page = {}
      BY <1>1, <1>10, <3>1 DEF Deliver, StreamTypeOK
    <3>2. CASE poll[p].page # {}
      BY <1>1, <1>2, <1>10, <2>1, <3>2, LastIsOne DEF Deliver, TableTypeOK
    <3> QED
      BY <3>1, <3>2
  <2>3. poll' \in [Polls -> PollType]
    <3>1. [poll[p] EXCEPT !.at = "status"] \in PollType
      BY <1>2 DEF PollType
    <3> QED
      BY <1>2, <1>6, <1>10, <3>1 DEF Deliver, PollGoes
  <2> QED
    BY <1>1, <1>3, <1>10, <2>1, <2>2, <2>3 DEF Deliver, StreamTypeOK, AfterTick
<1>11. ASSUME NEW p \in Polls, Snapshot(p) \/ PollFails(p) PROVE StreamTypeOK'
  BY <1>1, <1>3, <1>6, <1>11 DEF Snapshot, PollFails, StreamTypeOK, AfterTick
<1>12. CASE Disconnect
  BY <1>1, <1>2, <1>3, <1>12 DEF Disconnect, StreamTypeOK
<1> QED
  BY <1>7, <1>8, <1>9, <1>10, <1>11, <1>12 DEF PollStep

LEMMA TypeInvStep ==
  TypeInv /\ SubmitInv /\ [Next]_vars => TypeInv'
<1> SUFFICES ASSUME TypeInv, SubmitInv, [Next]_vars PROVE TypeInv'
  OBVIOUS
<1> USE DEF TypeInv, TypeOK
<1>1. ASSUME NEW r \in Requests, Submission(r) \/ Handles(r) PROVE TypeInv'
  <2>1. UNCHANGED <<up, tick, streamVars>> /\ (Submit(r) \/ HandlerStep(r))
    BY <1>1 DEF Submission, Handles
  <2>2. TableTypeOK' /\ SubmissionTypeOK' /\ RowsCreated' /\ events' = events
    BY <2>1, SubmissionTyped
  <2>3. Len(events) <= Len(events')
    BY <2>2 DEF TableTypeOK
  <2>4. StreamTypeOK'
    BY <2>1, <2>2, <2>3, StreamTypeStays
  <2> QED
    BY <2>1, <2>2, <2>4 DEF PollerTypeOK, TicksHaveJobs
<1>2. ASSUME NEW t \in Ticks, PollerTimer(t) \/ PollerRuns(t) \/ TickError(t) PROVE TypeInv'
  <2>1. UNCHANGED <<up, submissionVars, streamVars>> /\ (TickStarts(t) \/ TickStep(t) \/ TickFails(t))
    BY <1>2 DEF PollerTimer, PollerRuns, TickError
  <2>2. /\ TableTypeOK' /\ PollerTypeOK' /\ RowsCreated' /\ TicksHaveJobs'
        /\ Len(events) <= Len(events')
    BY <2>1, TickTyped
  <2>3. StreamTypeOK'
    BY <2>1, <2>2, StreamTypeStays
  <2> QED
    BY <2>1, <2>2, <2>3 DEF SubmissionTypeOK, submissionVars
<1>3. ASSUME StreamTypeOK', UNCHANGED <<tableVars, up, submissionVars, tick>>, faults' \in 0..MaxFaults
      PROVE  TypeInv'
  BY <1>3 DEF TableTypeOK, RowsCreated, SubmissionTypeOK, PollerTypeOK, TicksHaveJobs, tableVars,
              submissionVars
<1>4. faults \in 0..MaxFaults /\ (Breaks => faults' \in 0..MaxFaults)
  BY TableAssumption DEF TableTypeOK, Breaks
<1>5. ASSUME NEW p \in Polls, Watch(p) \/ StreamTimer(p) \/ Streams(p) \/ StreamError(p) PROVE TypeInv'
  <2>1. /\ UNCHANGED <<tableVars, up, submissionVars, tick>> /\ faults' \in 0..MaxFaults
        /\ \/ \E j : Open(j, p) /\ j \in Rows
           \/ PollStarts(p) \/ PollStep(p) \/ PollFails(p)
    BY <1>4, <1>5 DEF Watch, StreamTimer, Streams, StreamError, PollFails, Open
  <2>2. Rows \subseteq Requests
    BY DEF Rows
  <2>3. StreamTypeOK'
    BY <2>1, <2>2, StreamTyped
  <2> QED
    BY <1>3, <2>1, <2>3
<1>6. CASE Leave
  <2>1. StreamTypeOK'
    BY <1>6, StreamTyped DEF Leave
  <2> QED
    BY <1>3, <1>4, <1>6, <2>1 DEF Leave
<1>7. CASE Dies
  <2>1. TableTypeOK' /\ RowsCreated' /\ events' = events
    BY <1>4, <1>7 DEF Dies, tableVars, TableTypeOK, RowsCreated
  <2>2. SubmissionTypeOK'
    BY <1>7 DEF Dies, SubmissionsLost, SubmissionTypeOK, Stages, Answers
  <2>3. PollerTypeOK' /\ TicksHaveJobs'
    BY <1>7 DEF Dies, PollerLost, PollerTypeOK, TicksHaveJobs, Resting
  <2>4. StreamTypeOK'
    BY <1>7, <2>1 DEF Dies, StreamLost, StreamTypeOK, NoPoll
  <2> QED
    BY <2>1, <2>2, <2>3, <2>4
<1>8. CASE Restarts
  <2>1. TableTypeOK' /\ RowsCreated' /\ events' = events /\ streamVars' = streamVars
    BY <1>8 DEF Restarts, tableVars, TableTypeOK, RowsCreated
  <2> QED
    BY <1>8, <2>1 DEF Restarts, SubmissionTypeOK, PollerTypeOK, TicksHaveJobs, StreamTypeOK,
                      submissionVars, streamVars
<1>9. CASE UNCHANGED vars
  BY <1>9 DEF vars, tableVars, submissionVars, streamVars, TableTypeOK, RowsCreated, SubmissionTypeOK,
              PollerTypeOK, TicksHaveJobs, StreamTypeOK
<1> QED
  BY <1>1, <1>2, <1>5, <1>6, <1>7, <1>8, <1>9 DEF Next

LEMMA TypeInvAlways == Spec => []TypeInv
BY TypeInvInit, TypeInvStep, SubmitInvAlways, PTL DEF Spec

\* Every variable keeps its type: the poller only ever claims a job that has a
\* row, and the ids the stream's ticks hold are ids of events that exist.
THEOREM ApiTypes == Spec => []TypeOK
BY TypeInvAlways, PTL DEF TypeInv

-----------------------------------------------------------------------------
(* The stream.  NoGap alone is not inductive: an older tick may set the    *)
(* cursor to its own last id.  Each tick carries what makes that harmless. *)

QuietBefore ==
  viewer = "off" => stream = "none" /\ lastEventId = 0 /\ \A p \in Polls : poll[p].at = "idle"

\* What a tick starts behind was written.
CursorsCovered ==
  \A p \in Polls : poll[p].at # "idle" =>
    /\ poll[p].after <= Len(events)
    /\ \A i \in EventsOf(watched) : i <= poll[p].after => i \in written

\* What it has read are the next events, none left out.
PagesWhole ==
  \A p \in Polls : poll[p].at = "deliver" =>
    /\ poll[p].page \subseteq EventsOf(watched)
    /\ \A k \in poll[p].page, i \in EventsOf(watched) : poll[p].after < i /\ i <= k => i \in poll[p].page

StreamInv == QuietBefore /\ CursorsCovered /\ PagesWhole /\ NoGap

LEMMA StreamInvInit == Init => StreamInv
BY DEF Init, TableInit, StreamInit, StreamInv, QuietBefore, CursorsCovered, PagesWhole, NoGap,
       NoPoll, EventsOf

\* What the query of a tick returns.
Newer(j, after) == {i \in EventsOf(j) : i > after}
PageAfter(j, after) ==
  {i \in Newer(j, after) : Cardinality({k \in Newer(j, after) : k <= i}) <= PageSize}

\* A page of the query is whole.
LEMMA QueryPageIsWhole ==
  ASSUME TypeInv, NEW after \in Nat, NEW j
  PROVE  /\ PageAfter(j, after) \subseteq EventsOf(j)
         /\ \A k \in PageAfter(j, after), i \in EventsOf(j) :
              after < i /\ i <= k => i \in PageAfter(j, after)
<1> DEFINE newer == Newer(j, after)
           page == PageAfter(j, after)
<1> USE DEF Newer, PageAfter
<1>1. newer \subseteq 1..Len(events) /\ Len(events) \in Nat
  BY DEF TypeInv, TypeOK, TableTypeOK, EventsOf
<1>2. IsFiniteSet(newer)
  <2>1. IsFiniteSet(1..Len(events)) /\ newer \in SUBSET (1..Len(events))
    BY <1>1, FS_Interval
  <2> QED
    BY <2>1, FS_Subset
<1>3. ASSUME NEW k \in page, NEW i \in EventsOf(j), after < i, i <= k PROVE i \in page
  <2> DEFINE Upto(n) == {m \in newer : m <= n}
  <2>1. i \in newer /\ k \in newer /\ Cardinality(Upto(k)) <= PageSize
    BY <1>3
  <2>2. Upto(i) \in SUBSET Upto(k)
    BY <1>1, <1>3, <2>1
  <2>3. IsFiniteSet(Upto(k)) /\ IsFiniteSet(Upto(i))
    BY <1>2, FS_Subset
  <2>4. Cardinality(Upto(i)) <= Cardinality(Upto(k))
        /\ Cardinality(Upto(i)) \in Nat /\ Cardinality(Upto(k)) \in Nat
    BY <2>2, <2>3, FS_Subset, FS_CardinalityType
  <2>5. Cardinality(Upto(i)) <= PageSize
    BY <2>1, <2>4, PageAssumption
  <2> QED
    BY <2>1, <2>5
<1> QED
  BY <1>3

\* More events behind the ones the stream knows of change nothing.
LEMMA EventsMayCome ==
  ASSUME TypeInv, StreamInv, UNCHANGED streamVars,
         \/ events' = events
         \/ \E j \in Requests, type \in {"job.started", "job.completed"} : Log(j, type)
  PROVE  StreamInv'
<1>1. Len(events) \in Nat /\ Len(events') \in Nat /\ Len(events) <= Len(events')
      /\ DOMAIN events' = 1..Len(events')
      /\ \A j : /\ EventsOf(j) \subseteq EventsOf(j)'
                /\ \A i \in EventsOf(j)' : i \in EventsOf(j) \/ i > Len(events)
  <2>1. TableTypeOK /\ Len(events) \in Nat /\ DOMAIN events = 1..Len(events)
    BY DEF TypeInv, TypeOK, TableTypeOK
  <2>2. CASE events' = events
    BY <2>1, <2>2 DEF EventsOf
  <2>3. ASSUME NEW j \in Requests, NEW type \in {"job.started", "job.completed"}, Log(j, type)
        PROVE  /\ Len(events') = Len(events) + 1 /\ DOMAIN events' = 1..Len(events')
               /\ \A i \in DOMAIN events : events'[i] = events[i]
    BY <2>1, <2>3, LogTyped
  <2> QED
    BY <2>1, <2>2, <2>3 DEF EventsOf
<1>2. poll \in [Polls -> PollType] /\ lastEventId \in 0..Len(events) /\ UNCHANGED streamVars
  BY DEF TypeInv, TypeOK, StreamTypeOK, PollType
<1> DEFINE old == EventsOf(watched)
           new == (EventsOf(watched))'
<1>3. old \subseteq 1..Len(events) /\ old \subseteq new /\ new \subseteq Nat
      /\ \A i \in new : i \in old \/ i > Len(events)
  <2>1. watched' = watched
    BY DEF streamVars
  <2>2. old \subseteq 1..Len(events)
    BY DEF EventsOf, TypeInv, TypeOK, TableTypeOK
  <2>3. \A j : EventsOf(j)' \subseteq Nat
    BY <1>1 DEF EventsOf
  <2>4. new \subseteq Nat
    BY <2>1, <2>3 DEF EventsOf
  <2>5. old \subseteq new /\ \A i \in new : i \in old \/ i > Len(events)
    BY <1>1, <2>1 DEF EventsOf
  <2> QED
    BY <2>2, <2>4, <2>5
<1>4. QuietBefore'
  BY DEF StreamInv, QuietBefore, streamVars
<1>5. CursorsCovered'
  <2> SUFFICES ASSUME NEW p \in Polls, poll[p].at # "idle"
      PROVE  /\ poll[p].after <= Len(events')
             /\ \A i \in new : i <= poll[p].after => i \in written
    BY DEF CursorsCovered, streamVars
  <2>1. poll[p].after \in Nat /\ poll[p].after <= Len(events)
        /\ \A i \in old : i <= poll[p].after => i \in written
    BY <1>2 DEF StreamInv, CursorsCovered, PollType
  <2> HIDE DEF old, new
  <2>2. Len(events') \in Nat
    BY <1>1
  <2>3. ASSUME NEW i \in new, i <= poll[p].after PROVE i \in written
    <3>1. CASE i \in old
      BY <2>1, <2>3, <3>1
    <3>2. CASE i \notin old
      <4>1. i > Len(events) /\ i \in Nat
        BY <1>3, <3>2
      <4> QED
        BY <1>1, <2>1, <2>3, <4>1
    <3> QED
      BY <3>1, <3>2
  <2> QED
    BY <1>1, <2>1, <2>2, <2>3
<1>6. PagesWhole'
  <2> SUFFICES ASSUME NEW p \in Polls, poll[p].at = "deliver"
      PROVE  /\ poll[p].page \subseteq new
             /\ \A k \in poll[p].page, i \in new : poll[p].after < i /\ i <= k => i \in poll[p].page
    BY DEF PagesWhole, streamVars
  <2>1. /\ poll[p].page \subseteq old
        /\ \A k \in poll[p].page, i \in old : poll[p].after < i /\ i <= k => i \in poll[p].page
    BY DEF StreamInv, PagesWhole
  <2> HIDE DEF old, new
  <2>2. ASSUME NEW k \in poll[p].page, NEW i \in new, i <= k PROVE i \in old
    <3>1. k \in 1..Len(events) /\ i \in Nat
      BY <1>3, <2>1
    <3> QED
      BY <1>1, <1>3, <2>2, <3>1
  <2> QED
    BY <1>3, <2>1, <2>2
<1>7. NoGap'
  <2>1. \A i \in old : i <= lastEventId => i \in written
    BY DEF StreamInv, NoGap
  <2>2. \A i \in new : i <= lastEventId => i \in written
    <3> HIDE DEF old, new
    <3> QED
      BY <1>1, <1>2, <1>3, <2>1
  <2> QED
    BY <2>2 DEF NoGap, streamVars
<1> QED
  BY <1>4, <1>5, <1>6, <1>7 DEF StreamInv

LEMMA TickLogs ==
  ASSUME TypeInv, NEW t \in Ticks, TickStarts(t) \/ TickStep(t) \/ TickFails(t)
  PROVE  \/ events' = events
         \/ \E j \in Requests, type \in {"job.started", "job.completed"} : Log(j, type)
<1>1. tick[t].at \notin {"idle", "find"} => tick[t].job \in Requests
  BY DEF TypeInv, TicksHaveJobs
<1> QED
  BY <1>1 DEF TickStarts, TickStep, Find, Claim, Started, Succeed, Completed, TickFails, tableVars

LEMMA PollsKeepStreamInv ==
  ASSUME TypeInv, StreamInv, UNCHANGED events, NEW p \in Polls,
         PollStarts(p) \/ PollStep(p) \/ PollFails(p)
  PROVE  StreamInv'
<1>1. poll \in [Polls -> PollType] /\ lastEventId \in 0..Len(events) /\ Len(events) \in Nat
  BY DEF TypeInv, TypeOK, StreamTypeOK, PollType, TableTypeOK
<1>2. viewer # "off" /\ \A j : EventsOf(j)' = EventsOf(j)
  BY DEF StreamInv, QuietBefore, PollStarts, PollStep, Query, Deliver, Snapshot, PollFails, EventsOf
<1> USE DEF StreamInv
<1>3. CASE PollStarts(p)
  BY <1>1, <1>2, <1>3 DEF PollStarts, Issue, QuietBefore, CursorsCovered, PagesWhole, NoGap, PollType
<1>4. CASE Query(p)
  <2> DEFINE page == PageAfter(watched, poll[p].after)
  <2>1. poll' = [poll EXCEPT ![p] = [@ EXCEPT !.at = "deliver", !.page = page]]
    BY <1>4 DEF Query, PageAfter, Newer
  <2>2. /\ page \subseteq EventsOf(watched)
        /\ \A k \in page, i \in EventsOf(watched) : poll[p].after < i /\ i <= k => i \in page
    <3>1. poll[p].after \in Nat
      BY <1>1 DEF PollType
    <3> QED
      BY <3>1, QueryPageIsWhole
  <2> HIDE DEF page
  <2>3. /\ UNCHANGED <<viewer, stream, watched, lastEventId, written, events>>
        /\ poll[p].at = "query"
    BY <1>4 DEF Query
  <2>4. /\ \A q \in Polls \ {p} : poll'[q] = poll[q]
        /\ poll'[p].after = poll[p].after /\ poll'[p].page = page
    BY <1>1, <2>1 DEF PollType
  <2>5. QuietBefore' /\ NoGap'
    BY <1>2, <2>3 DEF QuietBefore, NoGap
  <2>6. CursorsCovered'
    BY <1>2, <2>3, <2>4 DEF CursorsCovered
  <2>7. PagesWhole'
    BY <1>2, <2>2, <2>3, <2>4 DEF PagesWhole
  <2> QED
    BY <2>5, <2>6, <2>7
<1>5. CASE Deliver(p)
  <2>1. /\ poll[p].page \subseteq EventsOf(watched) /\ poll[p].page \in SUBSET DOMAIN events
        /\ \A k \in poll[p].page, i \in EventsOf(watched) :
             poll[p].after < i /\ i <= k => i \in poll[p].page
        /\ \A i \in EventsOf(watched) : i <= poll[p].after => i \in written
        /\ poll[p].after \in Nat
    BY <1>1, <1>5 DEF Deliver, CursorsCovered, PagesWhole, PollType
  <2>2. EventsOf(watched) \subseteq Nat
    BY <1>1 DEF EventsOf, TypeInv, TypeOK, TableTypeOK
  <2>3. NoGap'
    <3>1. CASE poll[p].page = {}
      BY <1>2, <1>5, <3>1 DEF Deliver, NoGap
    <3>2. CASE poll[p].page # {}
      <4>1. Last(poll[p].page) \in poll[p].page
        BY <2>1, <3>2, LastIsOne DEF TypeInv, TypeOK
      <4>2. ASSUME NEW i \in EventsOf(watched), i <= Last(poll[p].page)
            PROVE  i \in written \cup poll[p].page
        BY <2>1, <2>2, <4>1, <4>2
      <4> QED
        BY <1>2, <1>5, <3>2, <4>2 DEF Deliver, NoGap
    <3> QED
      BY <3>1, <3>2
  <2>4. /\ poll' = [poll EXCEPT ![p].at = "status"] \/ poll' = [poll EXCEPT ![p] = NoPoll]
        /\ written' = written \cup poll[p].page
        /\ UNCHANGED <<viewer, watched>>
    BY <1>5 DEF Deliver, PollGoes, PollEnds
  <2>5. \A q \in Polls : \/ poll'[q] = poll[q] \/ poll'[q].at = "idle"
                         \/ poll'[q].at = "status" /\ poll'[q].after = poll[q].after
                            /\ poll[q].at # "idle"
    BY <1>1, <1>5, <2>4 DEF Deliver, NoPoll, PollType
  <2>6. events' = events /\ watched' = watched
    BY <2>4
  <2>7. CursorsCovered'
    BY <2>4, <2>5, <2>6 DEF CursorsCovered, EventsOf
  <2>8. PagesWhole'
    BY <2>5, <2>6 DEF PagesWhole, EventsOf
  <2>9. QuietBefore'
    BY <1>2, <2>4 DEF QuietBefore
  <2> QED
    BY <2>3, <2>7, <2>8, <2>9
<1>6. CASE Snapshot(p) \/ PollFails(p)
  BY <1>1, <1>2, <1>6 DEF Snapshot, PollFails, PollEnds, NoPoll, QuietBefore, CursorsCovered, PagesWhole,
                          NoGap, PollType
<1> QED
  BY <1>3, <1>4, <1>5, <1>6 DEF PollStep

LEMMA StreamInvStep ==
  TypeInv /\ StreamInv /\ [Next]_vars => StreamInv'
<1> SUFFICES ASSUME TypeInv, StreamInv, [Next]_vars PROVE StreamInv'
  OBVIOUS
<1>1. ASSUME NEW t \in Ticks, PollerTimer(t) \/ PollerRuns(t) \/ TickError(t) PROVE StreamInv'
  BY <1>1, TickLogs, EventsMayCome DEF PollerTimer, PollerRuns, TickError
<1>2. ASSUME NEW p \in Polls, StreamTimer(p) \/ Streams(p) \/ StreamError(p) PROVE StreamInv'
  BY <1>2, PollsKeepStreamInv DEF StreamTimer, Streams, StreamError, tableVars
<1>3. ASSUME NEW j, NEW p \in Polls, Open(j, p), UNCHANGED events PROVE StreamInv'
  <2>1. EventsOf(j) \subseteq Nat \ {0} /\ Len(events) \in Nat /\ poll \in [Polls -> PollType]
    BY DEF EventsOf, TypeInv, TypeOK, TableTypeOK, StreamTypeOK, PollType
  <2> QED
    BY <1>3, <2>1 DEF Open, Issue, StreamInv, QuietBefore, CursorsCovered, PagesWhole, NoGap, EventsOf
<1>4. CASE Leave
  BY <1>4 DEF Leave, Disconnect, StreamInv, QuietBefore, CursorsCovered, PagesWhole, NoGap, EventsOf,
              tableVars
<1>5. CASE Dies
  BY <1>5 DEF Dies, StreamLost, StreamInv, QuietBefore, CursorsCovered, PagesWhole, NoGap, EventsOf,
              tableVars, NoPoll
<1>6. CASE UNCHANGED <<events, streamVars>>
  BY <1>6, EventsMayCome
<1>7. ASSUME NEW r \in Requests, Submission(r) \/ Handles(r) PROVE UNCHANGED <<events, streamVars>>
  BY <1>7 DEF Submission, Handles, Submit, HandlerStep, Lookup, Create, Enqueue, Recover, InsertRow,
              tableVars
<1> QED
  BY <1>1, <1>2, <1>3, <1>4, <1>5, <1>6, <1>7 DEF Next, vars, Watch, Restarts, tableVars

\* A console that watches a job is shown every event up to the cursor, however many
\* ticks overlap, in whatever order they read, deliver and take the cursor back, and
\* whatever the page size.
THEOREM StreamSkipsNothing == Spec => []NoGap
<1>1. Spec => []StreamInv
  BY StreamInvInit, StreamInvStep, TypeInvAlways, PTL DEF Spec
<1> QED
  BY <1>1, PTL DEF StreamInv

-----------------------------------------------------------------------------
(* The history of a job.  At most one tick has claimed it, and the tick's  *)
(* place tells which events there are.                                     *)

Unstarted(j) == EventsOf(j) = {}
Begun(j) == \E a \in DOMAIN events : EventsOf(j) = {a} /\ events[a].type = "job.started"
Over(j) ==
  \E a, b \in DOMAIN events :
    /\ a < b /\ EventsOf(j) = {a, b}
    /\ events[a].type = "job.started" /\ events[b].type = "job.completed"

Claims(t, j) == tick[t].at \in Claimed /\ tick[t].job = j

EventsTellStatus ==
  \A j \in Requests :
    /\ Unstarted(j) \/ Begun(j) \/ Over(j)
    /\ status[j] \in {"absent", "queued"} => Unstarted(j) /\ \A t \in Ticks : ~Claims(t, j)
    /\ status[j] = "running" => Unstarted(j) \/ Begun(j)

TicksTellEvents ==
  \A t \in Ticks :
    /\ tick[t].at = "started" => status[tick[t].job] = "running" /\ Unstarted(tick[t].job)
    /\ tick[t].at = "succeed" => status[tick[t].job] = "running" /\ Begun(tick[t].job)
    /\ tick[t].at = "completed" => status[tick[t].job] = "succeeded" /\ Begun(tick[t].job)

OneClaim == \A t, u \in Ticks : \A j \in Requests : Claims(t, j) /\ Claims(u, j) => t = u

HistoryInv == EventsTellStatus /\ TicksTellEvents /\ OneClaim

LEMMA HistoryInvInit == Init => HistoryInv
BY DEF Init, TableInit, PollerInit, HistoryInv, EventsTellStatus, TicksTellEvents, OneClaim, Claims,
       Claimed, Resting, Unstarted, EventsOf

\* From the events to the types the property lists.
LEMMA HistoryTypes ==
  ASSUME TypeInv, NEW j \in Requests
  PROVE  /\ Unstarted(j) => Types(j) = <<>>
         /\ Begun(j) => Types(j) = <<"job.started">>
         /\ Over(j) => Types(j) = <<"job.started", "job.completed">>
<1> DEFINE Upto(k) == {m \in EventsOf(j) : m <= k}
           Pick(i) == CHOOSE k \in EventsOf(j) : Cardinality(Upto(k)) = i
<1>1. DOMAIN events \subseteq Nat
  BY DEF TypeInv, TypeOK, TableTypeOK
<1>2. Types(j) = [i \in 1..Cardinality(EventsOf(j)) |-> events[Pick(i)].type]
  BY DEF Types
<1>3. ASSUME Unstarted(j) PROVE Types(j) = <<>>
  <2>1. Cardinality(EventsOf(j)) = 0
    BY <1>3, FS_EmptySet DEF Unstarted
  <2> HIDE DEF Pick
  <2> QED
    BY <1>2, <2>1
<1>4. ASSUME NEW a \in DOMAIN events, EventsOf(j) = {a}, events[a].type = "job.started"
      PROVE  Types(j) = <<"job.started">>
  <2>1. Cardinality(EventsOf(j)) = 1 /\ Cardinality({a}) = 1
    BY <1>4, FS_Singleton
  <2>2. Upto(a) = {a}
    BY <1>1, <1>4
  <2>3. Pick(1) = a
    BY <1>4, <2>1, <2>2
  <2> HIDE DEF Pick
  <2> QED
    BY <1>2, <1>4, <2>1, <2>3
<1>5. ASSUME NEW a \in DOMAIN events, NEW b \in DOMAIN events, a < b, EventsOf(j) = {a, b},
             events[a].type = "job.started", events[b].type = "job.completed"
      PROVE  Types(j) = <<"job.started", "job.completed">>
  <2>1. Cardinality({a}) = 1 /\ IsFiniteSet({a}) /\ {a} \cup {b} = {a, b} /\ b \notin {a}
    BY <1>1, <1>5, FS_Singleton
  <2>2. Cardinality({a, b}) = 2
    BY <2>1, FS_AddElement
  <2>3. Upto(a) = {a} /\ Upto(b) = {a, b}
    BY <1>1, <1>5
  <2>4. Pick(1) = a /\ Pick(2) = b
    BY <1>1, <1>5, <2>1, <2>2, <2>3
  <2> HIDE DEF Pick
  <2> QED
    BY <1>2, <1>5, <2>2, <2>4
<1> QED
  BY <1>3, <1>4, <1>5 DEF Begun, Over

LEMMA HistoryInvTells == TypeInv /\ HistoryInv => HistoryFollowsRow
<1> SUFFICES ASSUME TypeInv, HistoryInv, NEW j \in Requests
    PROVE  /\ Types(j) \in {<<>>, <<"job.started">>, <<"job.started", "job.completed">>}
           /\ Types(j) # <<>> => status[j] \in {"running", "succeeded"}
           /\ Len(Types(j)) = 2 => status[j] = "succeeded"
  BY DEF HistoryFollowsRow
<1>1. status[j] \in {"absent", "queued", "running", "succeeded"}
  BY DEF TypeInv, TypeOK, TableTypeOK
<1>2. CASE Unstarted(j)
  BY <1>2, HistoryTypes
<1>3. CASE Begun(j) /\ ~Unstarted(j)
  BY <1>1, <1>3, HistoryTypes DEF HistoryInv, EventsTellStatus
<1>4. CASE Over(j) /\ ~Unstarted(j) /\ ~Begun(j)
  BY <1>1, <1>4, HistoryTypes DEF HistoryInv, EventsTellStatus
<1> QED
  BY <1>2, <1>3, <1>4 DEF HistoryInv, EventsTellStatus

LEMMA LogExtendsHistory ==
  ASSUME TypeInv, NEW j \in Requests, NEW type \in {"job.started", "job.completed"}, Log(j, type)
  PROVE  /\ Unstarted(j) /\ type = "job.started" => Begun(j)'
         /\ Begun(j) /\ type = "job.completed" => Over(j)'
         /\ \A k \in Requests \ {j} : /\ Unstarted(k) => Unstarted(k)'
                                      /\ Begun(k) => Begun(k)'
                                      /\ Over(k) => Over(k)'
<1> DEFINE n == Len(events) + 1
<1>1. /\ DOMAIN events = 1..Len(events) /\ Len(events) \in Nat /\ DOMAIN events' = 1..n
      /\ \A i \in DOMAIN events : events'[i] = events[i]
      /\ events'[n] = [job |-> j, type |-> type]
  <2>1. TableTypeOK
    BY DEF TypeInv, TypeOK
  <2>2. Len(events') = n /\ \A i \in DOMAIN events : events'[i] = events[i]
    BY <2>1, LogTyped
  <2>3. events' \in Seq([job : Requests, type : {"job.started", "job.completed"}])
    BY <2>1, LogTyped
  <2>4. events'[n] = [job |-> j, type |-> type]
    BY <2>1 DEF Log, TableTypeOK
  <2> QED
    BY <2>1, <2>2, <2>3, <2>4 DEF TableTypeOK
<1>2. (EventsOf(j))' = EventsOf(j) \cup {n}
  BY <1>1 DEF EventsOf
<1>3. \A k \in Requests \ {j} : EventsOf(k)' = EventsOf(k)
  BY <1>1 DEF EventsOf
<1>4. n \in DOMAIN events' /\ \A i \in DOMAIN events : i < n /\ i \in DOMAIN events'
  BY <1>1
<1> HIDE DEF n
<1>5. ASSUME Unstarted(j), type = "job.started" PROVE Begun(j)'
  BY <1>1, <1>2, <1>4, <1>5 DEF Unstarted, Begun
<1>6. ASSUME Begun(j), type = "job.completed" PROVE Over(j)'
  <2>1. PICK a \in DOMAIN events : EventsOf(j) = {a} /\ events[a].type = "job.started"
    BY <1>6 DEF Begun
  <2>2. (EventsOf(j))' = {a, n} /\ events'[a].type = "job.started" /\ events'[n].type = "job.completed"
    BY <1>1, <1>2, <1>6, <2>1
  <2> QED
    BY <1>4, <2>2 DEF Over
<1> QED
  BY <1>1, <1>3, <1>4, <1>5, <1>6 DEF Unstarted, Begun, Over

LEMMA HistoryStays ==
  ASSUME UNCHANGED events
  PROVE  \A j : (Unstarted(j)' <=> Unstarted(j)) /\ (Begun(j)' <=> Begun(j)) /\ (Over(j)' <=> Over(j))
BY DEF Unstarted, Begun, Over, EventsOf

LEMMA TicksKeepHistory ==
  ASSUME TypeInv, HistoryInv, NEW t \in Ticks, TickStarts(t) \/ TickStep(t) \/ TickFails(t),
         NEW j, j = tick[t].job
  PROVE  HistoryInv'
<1> USE DEF HistoryInv
<1>1. /\ status \in [Requests -> {"absent", "queued", "running", "succeeded"}] /\ DOMAIN tick = Ticks
      /\ \A u \in Ticks : tick[u].at \notin {"idle", "find"} => tick[u].job \in Requests
  BY DEF TypeInv, TypeOK, TableTypeOK, PollerTypeOK, TicksHaveJobs
\* The tick does nothing to the rows and claims nothing more.
<1>2. ASSUME UNCHANGED <<status, events>>, NEW at \in {"idle", "find", "claim"}, NEW k,
             tick' = [tick EXCEPT ![t] = [at |-> at, job |-> k]]
      PROVE  HistoryInv'
  <2>1. \A u \in Ticks : tick'[u] = tick[u] \/ tick'[u].at \in {"idle", "find", "claim"}
    BY <1>1, <1>2
  <2>2. \A u \in Ticks, i \in Requests : Claims(u, i)' => Claims(u, i)
    BY <2>1 DEF Claims, Claimed
  <2> QED
    BY <1>2, <2>1, <2>2, HistoryStays DEF EventsTellStatus, TicksTellEvents, OneClaim
<1>3. CASE TickStarts(t)
  BY <1>2, <1>3 DEF TickStarts, TickGoes, tableVars
<1>4. CASE Find(t)
  BY <1>2, <1>4 DEF Find, TickGoes, Ends, Resting, tableVars
<1>5. CASE TickFails(t)
  BY <1>2, <1>5 DEF TickFails, Ends, Resting, tableVars
<1>6. CASE Claim(t)
  <2>1. j \in Requests /\ events' = events
    BY <1>1, <1>6 DEF Claim
  <2>2. CASE status[j] # "queued"
    BY <1>2, <1>6, <2>1, <2>2 DEF Claim, Ends, Resting
  <2>3. CASE status[j] = "queued"
    <3>1. /\ status' = [status EXCEPT ![j] = "running"]
          /\ \A u \in Ticks : tick'[u] = tick[u] \/ u = t
          /\ tick'[t] = Resting \/ tick'[t] = [at |-> "started", job |-> j]
      BY <1>1, <1>6, <2>3 DEF Claim, Sets, TickGoes, Ends
    <3>2. Unstarted(j) /\ \A u \in Ticks : ~Claims(u, j)
      BY <2>1, <2>3 DEF EventsTellStatus
    <3>3. EventsTellStatus'
      BY <1>1, <2>1, <3>1, <3>2, HistoryStays DEF EventsTellStatus, Claims, Claimed, Resting
    <3>4. OneClaim'
      BY <3>1, <3>2 DEF OneClaim, Claims, Claimed, Resting
    <3>5. TicksTellEvents'
      <4>1. ASSUME NEW u \in Ticks, u # t, tick[u].at \in Claimed
            PROVE  status'[tick[u].job] = status[tick[u].job]
        BY <1>1, <3>1, <3>2, <4>1 DEF Claims, Claimed
      <4> QED
        BY <1>1, <2>1, <3>1, <3>2, <4>1, HistoryStays DEF TicksTellEvents, Claimed, Resting
    <3> QED
      BY <3>3, <3>4, <3>5
  <2> QED
    BY <2>2, <2>3
\* The claim of t sets it apart: what happens to its job concerns no other tick.
<1>7. ASSUME tick[t].at \in Claimed, j \in Requests,
             NEW at \in {"idle", "succeed", "completed"},
             \A u \in Ticks : tick'[u] = tick[u] \/ u = t,
             tick'[t].at = at, at # "idle" => tick'[t].job = j,
             \A k \in Requests \ {j} : /\ Unstarted(k) => Unstarted(k)'
                                       /\ (Begun(k) => Begun(k)') /\ (Over(k) => Over(k)')
                                       /\ status'[k] = status[k],
             at = "succeed" => status'[j] = "running" /\ Begun(j)',
             at = "completed" => status'[j] = "succeeded" /\ Begun(j)',
             Unstarted(j)' \/ Begun(j)' \/ Over(j)', status'[j] \in {"running", "succeeded"},
             status'[j] = "running" => Unstarted(j)' \/ Begun(j)'
      PROVE  HistoryInv'
  <2>1. Claims(t, j)
    BY <1>7 DEF Claims
  <2>2. \A u \in Ticks, k \in Requests : Claims(u, k)' => Claims(u, k)
    BY <1>7, <2>1 DEF Claims, Claimed
  <2>3. \A u \in Ticks \ {t} : tick[u].at \in Claimed => tick[u].job \in Requests \ {j}
    BY <1>1, <1>7, <2>1 DEF OneClaim, Claims, Claimed
  <2>4. EventsTellStatus'
    <3> SUFFICES ASSUME NEW k \in Requests
        PROVE  /\ Unstarted(k)' \/ Begun(k)' \/ Over(k)'
               /\ status'[k] \in {"absent", "queued"}
                    => Unstarted(k)' /\ \A u \in Ticks : ~Claims(u, k)'
               /\ status'[k] = "running" => Unstarted(k)' \/ Begun(k)'
      BY DEF EventsTellStatus
    <3>1. CASE k = j
      BY <1>7, <3>1
    <3>2. CASE k # j
      <4>1. /\ Unstarted(k) \/ Begun(k) \/ Over(k)
            /\ status[k] \in {"absent", "queued"} => Unstarted(k) /\ \A u \in Ticks : ~Claims(u, k)
            /\ status[k] = "running" => Unstarted(k) \/ Begun(k)
        BY DEF EventsTellStatus
      <4>2. /\ status'[k] = status[k] /\ (Unstarted(k) => Unstarted(k)')
            /\ (Begun(k) => Begun(k)') /\ (Over(k) => Over(k)')
        BY <1>7, <3>2
      <4>3. \A u \in Ticks : Claims(u, k)' => Claims(u, k)
        BY <2>2
      <4> QED
        BY <4>1, <4>2, <4>3
    <3> QED
      BY <3>1, <3>2
  <2>5. TicksTellEvents'
    <3>1. ASSUME NEW u \in Ticks, NEW k, tick'[u].job = k, tick'[u].at \in Claimed
          PROVE  /\ tick'[u].at = "started" => status'[k] = "running" /\ Unstarted(k)'
                 /\ tick'[u].at = "succeed" => status'[k] = "running" /\ Begun(k)'
                 /\ tick'[u].at = "completed" => status'[k] = "succeeded" /\ Begun(k)'
      <4>1. CASE u = t
        BY <1>7, <3>1, <4>1 DEF Claimed
      <4>2. CASE u # t
        <5>1. k \in Requests \ {j} /\ tick[u].job = k /\ tick'[u].at = tick[u].at
          BY <1>7, <2>3, <3>1, <4>2
        <5>2. /\ tick[u].at = "started" => status[k] = "running" /\ Unstarted(k)
              /\ tick[u].at = "succeed" => status[k] = "running" /\ Begun(k)
              /\ tick[u].at = "completed" => status[k] = "succeeded" /\ Begun(k)
          BY <5>1 DEF TicksTellEvents
        <5>3. status'[k] = status[k] /\ (Unstarted(k) => Unstarted(k)') /\ (Begun(k) => Begun(k)')
          BY <1>7, <5>1
        <5> QED
          BY <5>1, <5>2, <5>3
      <4> QED
        BY <4>1, <4>2
    <3> QED
      BY <3>1 DEF TicksTellEvents, Claimed
  <2>6. OneClaim'
    BY <2>2 DEF OneClaim
  <2> QED
    BY <2>4, <2>5, <2>6
<1>8. CASE Started(t)
  <2>1. j \in Requests /\ tick[t].at \in Claimed /\ status[j] = "running" /\ Unstarted(j)
    BY <1>1, <1>8 DEF Started, Claimed, TicksTellEvents
  <2>2. Log(j, "job.started") /\ UNCHANGED status
    BY <1>8 DEF Started
  <2>3. \/ tick' = [tick EXCEPT ![t] = [at |-> "succeed", job |-> j]]
        \/ tick' = [tick EXCEPT ![t] = [at |-> "idle", job |-> NoJob]]
    BY <1>8 DEF Started, TickGoes, Ends, Resting
  <2>4. /\ Begun(j)'
        /\ \A k \in Requests \ {j} : /\ Unstarted(k) => Unstarted(k)'
                                     /\ (Begun(k) => Begun(k)') /\ (Over(k) => Over(k)')
    BY <2>1, <2>2, LogExtendsHistory
  <2>5. CASE tick' = [tick EXCEPT ![t] = [at |-> "succeed", job |-> j]]
    BY <1>1, <1>7, <2>1, <2>2, <2>4, <2>5
  <2>6. CASE tick' = [tick EXCEPT ![t] = [at |-> "idle", job |-> NoJob]]
    BY <1>1, <1>7, <2>1, <2>2, <2>4, <2>6
  <2> QED
    BY <2>3, <2>5, <2>6
<1>9. CASE Succeed(t)
  <2>1. j \in Requests /\ tick[t].at \in Claimed /\ status[j] = "running" /\ Begun(j)
    BY <1>1, <1>9 DEF Succeed, Claimed, TicksTellEvents
  <2>2. UNCHANGED events /\ status' = [status EXCEPT ![j] = "succeeded"]
    BY <1>9 DEF Succeed, Sets
  <2>3. \/ tick' = [tick EXCEPT ![t] = [at |-> "completed", job |-> j]]
        \/ tick' = [tick EXCEPT ![t] = [at |-> "idle", job |-> NoJob]]
    BY <1>9 DEF Succeed, TickGoes, Ends, Resting
  <2>4. Begun(j)' /\ status'[j] = "succeeded" /\ \A k \in Requests \ {j} : status'[k] = status[k]
    BY <1>1, <2>1, <2>2, HistoryStays
  <2>5. CASE tick' = [tick EXCEPT ![t] = [at |-> "completed", job |-> j]]
    BY <1>1, <1>7, <2>1, <2>2, <2>4, <2>5, HistoryStays
  <2>6. CASE tick' = [tick EXCEPT ![t] = [at |-> "idle", job |-> NoJob]]
    BY <1>1, <1>7, <2>1, <2>2, <2>4, <2>6, HistoryStays
  <2> QED
    BY <2>3, <2>5, <2>6
<1>10. CASE Completed(t)
  <2>1. j \in Requests /\ tick[t].at \in Claimed /\ status[j] = "succeeded" /\ Begun(j)
    BY <1>1, <1>10 DEF Completed, Claimed, TicksTellEvents
  <2>2. Log(j, "job.completed") /\ UNCHANGED status
        /\ tick' = [tick EXCEPT ![t] = [at |-> "idle", job |-> NoJob]]
    BY <1>10 DEF Completed, Ends, Resting
  <2>3. /\ Over(j)'
        /\ \A k \in Requests \ {j} : /\ Unstarted(k) => Unstarted(k)'
                                     /\ (Begun(k) => Begun(k)') /\ (Over(k) => Over(k)')
    BY <2>1, <2>2, LogExtendsHistory
  <2> QED
    BY <1>1, <1>7, <2>1, <2>2, <2>3
<1> QED
  BY <1>3, <1>4, <1>5, <1>6, <1>8, <1>9, <1>10 DEF TickStep

LEMMA HistoryInvStep ==
  TypeInv /\ SubmitInv /\ HistoryInv /\ [Next]_vars => HistoryInv'
<1> SUFFICES ASSUME TypeInv, SubmitInv, HistoryInv, [Next]_vars PROVE HistoryInv'
  OBVIOUS
<1>1. ASSUME UNCHANGED <<events, tick>>, NEW r \in Requests, status[r] = "absent",
             status' = [status EXCEPT ![r] = "queued"]
      PROVE  HistoryInv'
  <2>1. /\ status \in [Requests -> {"absent", "queued", "running", "succeeded"}]
        /\ \A u \in Ticks : tick[u].at \in Claimed => tick[u].job \in Requests
    BY DEF TypeInv, TypeOK, TableTypeOK, TicksHaveJobs, Claimed
  <2>2. \A u \in Ticks : ~Claims(u, r)
    BY <1>1 DEF HistoryInv, EventsTellStatus
  <2>3. \A u \in Ticks : tick[u].at \in Claimed => status'[tick[u].job] = status[tick[u].job]
    BY <1>1, <2>1, <2>2 DEF Claims
  <2> QED
    BY <1>1, <2>1, <2>3, HistoryStays
       DEF HistoryInv, EventsTellStatus, TicksTellEvents, OneClaim, Claims, Claimed
<1>2. ASSUME UNCHANGED <<events, status>>, tick' = tick \/ \A t \in Ticks : tick'[t].at = "idle"
      PROVE  HistoryInv'
  BY <1>2, HistoryStays DEF HistoryInv, EventsTellStatus, TicksTellEvents, OneClaim, Claims, Claimed
<1>3. ASSUME NEW r \in Requests, Submission(r) \/ Handles(r) PROVE HistoryInv'
  <2>1. CASE Create(r) /\ InsertRow(r)
    <3>1. status[r] = "absent"
      BY <2>1 DEF Create, SubmitInv, RowsOfHandlers, BeforeInsert
    <3> QED
      BY <1>1, <1>3, <2>1, <3>1 DEF InsertRow, Submission, Handles
  <2>2. CASE ~(Create(r) /\ InsertRow(r))
    <3>1. UNCHANGED <<events, status, tick>>
      BY <1>3, <2>2 DEF Submission, Handles, Submit, HandlerStep, Lookup, Create, Enqueue, Recover,
                        tableVars
    <3> QED
      BY <1>2, <3>1
  <2> QED
    BY <2>1, <2>2
<1>4. ASSUME NEW t \in Ticks, PollerTimer(t) \/ PollerRuns(t) \/ TickError(t) PROVE HistoryInv'
  <2>1. PICK j : j = tick[t].job
    OBVIOUS
  <2> QED
    BY <1>4, <2>1, TicksKeepHistory DEF PollerTimer, PollerRuns, TickError
<1>5. CASE Dies
  BY <1>2, <1>5 DEF Dies, tableVars, PollerLost, Resting
<1> QED
  BY <1>2, <1>3, <1>4, <1>5
     DEF Next, vars, Watch, StreamTimer, Streams, StreamError, Leave, Restarts, tableVars

\* The history a console is shown of a polled job is that of one execution, whatever
\* ticks overlap, fail halfway or die, for any number of jobs and ticks.
THEOREM OneHistoryPerJob == Spec => []HistoryFollowsRow
<1>1. Spec => []HistoryInv
  BY HistoryInvInit, HistoryInvStep, TypeInvAlways, SubmitInvAlways, PTL DEF Spec
<1> QED
  BY <1>1, HistoryInvTells, TypeInvAlways, PTL
=============================================================================
