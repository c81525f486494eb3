--------------------------- MODULE ComplianceReads ---------------------------
(***************************************************************************)
(* What the Nest API makes of the compliance rows while workers write      *)
(* them: the vehicle summary through an optional Redis cache, the risk     *)
(* computed from it, and the CSV export, which reads the rows in chunks by *)
(* offset, last updated first.                                             *)
(***************************************************************************)
EXTENDS ArtifactStore

CONSTANTS Readers, ChunkSize, ExportCap

ASSUME ReadsAssumption == ChunkSize \in Nat \ {0} /\ ExportCap \in Nat \ {0}

VARIABLES cached,   \* vehicle -> the summary in Redis, whether it will expire; or Nothing
          reader,   \* request -> its next step, vehicle and the summary it holds
          export,   \* the export: offset and the vehicles written to the CSV so far
          touched   \* ghost: vehicles written since the export began

readVars == <<cached, reader, export, touched>>

Lowest(a, b) == IF a < b THEN a ELSE b
Weight(applies, points) == IF applies THEN points ELSE 0

\* buildWeightedRiskAssessment.  No code writes the two fields that are no certificate.
RiskScore(snapshot, violations, blacklisted) ==
  LET invalid(kind) == snapshot.valid[kind] = FALSE
      factors == Weight(invalid("vehicle_permit_snapshot"), 24)
                 + Weight(invalid("vehicle_insurance_snapshot"), 20)
                 + Weight(invalid("vehicle_fitness_snapshot"), 18)
                 + Lowest(22, 4 * violations) + Weight(blacklisted, 16)
  IN  IF factors = 0 THEN 8 ELSE Lowest(100, factors)

Tier(score) == IF score <= 33 THEN "low" ELSE IF score <= 66 THEN "medium" ELSE "high"

NotFound == [status |-> "not_found"]
Unavailable == [status |-> "not_implemented"]

\* What getComplianceSummary finds in the database, and the risk told from it.
Summary(v) ==
  IF compliance[v] = Nothing THEN NotFound ELSE [status |-> "ok", snapshot |-> compliance[v]]
RiskOf(summary) ==
  IF summary.status # "ok" THEN summary
  ELSE LET score == RiskScore(summary.snapshot, 0, FALSE)
       IN  [status |-> "ok", score |-> score, tier |-> Tier(score)]

\* The answers a request for the risk of v may get now: a hit, or what it has read.
Answers(v) ==
  (IF cached[v] = Nothing THEN {} ELSE {RiskOf(cached[v].summary)})
  \cup {RiskOf(reader[r].holds) : r \in {q \in Readers : reader[q].at = "cache" /\ reader[q].vehicle = v}}

Resting == [at |-> "idle", vehicle |-> Nothing, holds |-> Unavailable]

ReadsInit ==
  /\ cached = [v \in Vehicles |-> Nothing]
  /\ reader = [r \in Readers |-> Resting]
  /\ export = [at |-> "off", skip |-> 0, rows |-> <<>>, all |-> {}]
  /\ touched = {}

Answered(r) == reader' = [reader EXCEPT ![r] = Resting]

\* A request: a hit is answered at once (no step); after a miss, or an error of Redis,
\* the database is asked.
Asks(r, v) ==
  /\ reader[r].at = "idle"
  /\ reader' = [reader EXCEPT ![r].at = "query", ![r].vehicle = v]
  /\ IF cached[v] = Nothing THEN NoFault ELSE Fault
  /\ UNCHANGED <<cached, export, touched>>

Queries(r) ==
  /\ reader[r].at = "query"
  /\ \/ reader' = [reader EXCEPT ![r].at = "cache", ![r].holds = Summary(reader[r].vehicle)]
        /\ NoFault
     \/ Answered(r) /\ Fault
  /\ UNCHANGED <<cached, export, touched>>

\* Mutation: SET without EX.
CachesForEver(r) ==
  /\ reader[r].at = "cache"
  /\ cached' = [cached EXCEPT ![reader[r].vehicle] = [summary |-> reader[r].holds, expires |-> FALSE]]
  /\ Answered(r) /\ NoFault
  /\ UNCHANGED <<export, touched>>

\* SET with a time to live, "not found" included; an error is swallowed.
Caches(r) ==
  /\ reader[r].at = "cache"
  /\ \/ /\ NoFault
        /\ cached' = [cached EXCEPT ![reader[r].vehicle] =
                        [summary |-> reader[r].holds, expires |-> TRUE]]
     \/ Fault /\ UNCHANGED cached
  /\ Answered(r)
  /\ UNCHANGED <<export, touched>>

\* Redis lets the key go after its time to live.
Expires(v) ==
  /\ cached[v] # Nothing /\ cached[v].expires
  /\ cached' = [cached EXCEPT ![v] = Nothing]
  /\ NoFault /\ UNCHANGED <<reader, export, touched>>

\* writeSummaryCsvStream.
ExportStarts ==
  /\ export.at = "off"
  /\ export' = [at |-> "reading", skip |-> 0, rows |-> <<>>,
                all |-> {v \in Vehicles : compliance[v] # Nothing}]
  /\ touched' = {} /\ NoFault /\ UNCHANGED <<cached, reader>>

Chunk(skip, take) == SubSeq(recent, skip + 1, Lowest(Len(recent), skip + take))

\* Mutation: the offset counts chunks as full.
ExportSkipsFull ==
  /\ export.at = "reading"
  /\ LET rows == Chunk(export.skip, Lowest(ChunkSize, ExportCap - export.skip))
     IN  export' = [export EXCEPT !.rows = @ \o rows, !.skip = @ + ChunkSize + 1, !.at =
                      IF Len(rows) < ChunkSize \/ export.skip + ChunkSize + 1 >= ExportCap
                      THEN "done" ELSE @]
  /\ NoFault /\ UNCHANGED <<cached, reader, touched>>

\* One chunk; a short one, or the cap, is the end.
ExportReads ==
  /\ export.at = "reading"
  /\ LET take == Lowest(ChunkSize, ExportCap - export.skip)
         rows == Chunk(export.skip, take)
         skip == export.skip + Len(rows)
     IN  export' = [export EXCEPT !.rows = @ \o rows, !.skip = skip,
                                  !.at = IF Len(rows) < take \/ skip >= ExportCap
                                         THEN "done" ELSE @]
  /\ NoFault /\ UNCHANGED <<cached, reader, touched>>

\* A failed read ends the stream where it is: nothing tells it from a complete file.
ExportBreaks ==
  /\ export.at = "reading" /\ Fault
  /\ export' = [export EXCEPT !.at = "cut"]
  /\ UNCHANGED <<cached, reader, touched>>
=============================================================================
