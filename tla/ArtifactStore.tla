---------------------------- MODULE ArtifactStore ----------------------------
(***************************************************************************)
(* persistJobArtifacts.js: what one execution of a scrape job writes.      *)
(* First its raw rows, one statement each, guarded by the unique content   *)
(* hash; then a summary row.  District, consigner and trip summaries are   *)
(* replaced.  The compliance summary of a vehicle is read, merged in the   *)
(* process and written back whole, without a transaction.                  *)
(*                                                                         *)
(* An execution is one attempt of the queue.  It may be given up at any    *)
(* statement, and a job whose worker lost its lock runs twice at a time.   *)
(***************************************************************************)
EXTENDS Naturals, Sequences, FiniteSets

CONSTANTS Workers, Jobs, Vehicles, Nothing,
          Work,          \* Work[j]: kind and payload of the job
          MaxAttempts,   \* attempts the queue gives a job
          MaxFaults      \* bound: failed statements, dead workers, lost locks

ASSUME StoreAssumption ==
  Nothing \notin Vehicles \cup Workers /\ MaxAttempts \in Nat \ {0} /\ MaxFaults \in Nat

VARIABLES raw,        \* raw rows: table, content hash and what is in them
          compliance, \* vehicle -> its compliance summary, or Nothing
          recent,     \* vehicles with a compliance summary, last updated first
          summaries,  \* <<table, key>> -> the job that wrote the summary
          exec,       \* worker -> the execution it is in
          queue,      \* job -> its state, attempts made and the worker that has its lock
          hiccups     \* faults so far

storeVars == <<raw, compliance, recent, summaries, exec, queue, hiccups>>

Certificates ==
  {"vehicle_fitness_snapshot", "vehicle_permit_snapshot", "vehicle_insurance_snapshot"}
SnapshotKinds == Certificates \cup {"vehicle_registration_snapshot"}

\* A payload has one of the kinds; the key of a snapshot is its vehicle.
ASSUME WorkAssumption ==
  /\ Nothing \notin Jobs
  /\ \A j \in Jobs :
       /\ Work[j].kind \in SnapshotKinds \cup {"khanan_date_range", "raw_challan_backfill",
                                             "consigner_digest", "trip_intelligence_rollup"}
       /\ Work[j].kind \in SnapshotKinds => Work[j].key \in Vehicles \cup {Nothing}
       /\ Work[j].records \in Seq({Work[j].records[i] : i \in DOMAIN Work[j].records})

\* "valid" or any date make a fitness certificate valid; a permit or an insurance
\* without a status is neither valid nor invalid (null).
FitnessValid(w) == w.status = "valid" \/ w.dated
StatusValid(w) == IF w.status = "" THEN Nothing ELSE w.status \in {"valid", "active"}

\* The hash of a record covers the job and the record, so equal records are one row;
\* the hash of a snapshot covers the job, not what was found.
Hash(j, item) == [job |-> j, item |-> item]
OneRow(j) == <<Hash(j, Nothing)>>
RecordRows(j) ==
  IF Work[j].records = <<>> THEN OneRow(j)
  ELSE [i \in DOMAIN Work[j].records |-> Hash(j, Work[j].records[i])]

\* What a kind writes: its raw rows in order, then nothing more ("done"), a summary
\* that replaces the one before, or a merge into the vehicle's ("read").  A payload
\* without what its kind is about writes nothing, and the job is done.
NoArtifacts == [table |-> Nothing, rows |-> <<>>, then |-> "done", summary |-> Nothing, valid |-> Nothing]
Rows(table, rows) == [NoArtifacts EXCEPT !.table = table, !.rows = rows]
Summarises(artifacts, table, key) ==
  IF key = Nothing THEN artifacts
  ELSE [artifacts EXCEPT !.then = "replace", !.summary = <<table, key>>]
Merges(j, table, valid) ==
  IF Work[j].key = Nothing THEN NoArtifacts
  ELSE [Rows(table, OneRow(j)) EXCEPT !.then = "read", !.valid = valid]

KhananRange(j) ==
  IF ~Work[j].ranged THEN NoArtifacts
  ELSE Summarises(Rows("raw_khanan_records", RecordRows(j)), "district", Work[j].key)
ChallanBackfill(j) == Rows("raw_challans", RecordRows(j))
Fitness(j) == Merges(j, "raw_fitness_records", FitnessValid(Work[j]))
Registration(j) == Merges(j, "raw_vehicle_records", Nothing)
Permit(j) == Merges(j, "raw_permits", StatusValid(Work[j]))
Insurance(j) == Merges(j, "raw_insurances", StatusValid(Work[j]))
ConsignerDigest(j) ==
  IF Work[j].key = Nothing THEN NoArtifacts
  ELSE Summarises(Rows("raw_khanan_records", OneRow(j)), "consigner", Work[j].key)
TripRollup(j) == Summarises(NoArtifacts, "trip", Work[j].key)

Artifacts(j) ==
  CASE Work[j].kind = "khanan_date_range" -> KhananRange(j)
    [] Work[j].kind = "raw_challan_backfill" -> ChallanBackfill(j)
    [] Work[j].kind = "vehicle_fitness_snapshot" -> Fitness(j)
    [] Work[j].kind = "vehicle_registration_snapshot" -> Registration(j)
    [] Work[j].kind = "vehicle_permit_snapshot" -> Permit(j)
    [] Work[j].kind = "vehicle_insurance_snapshot" -> Insurance(j)
    [] Work[j].kind = "consigner_digest" -> ConsignerDigest(j)
    [] Work[j].kind = "trip_intelligence_rollup" -> TripRollup(j)
RowsOf(j) == Artifacts(j).rows

\* A row that is missing is no row.
ASSUME SnapshotAssumption ==
  Nothing \notin [sources : [SnapshotKinds -> Jobs \cup {Nothing}],
                 valid : [Certificates -> BOOLEAN \cup {Nothing}],
                 last : SnapshotKinds]

NoSnapshot == [sources |-> [k \in SnapshotKinds |-> Nothing],
               valid |-> [k \in Certificates |-> Nothing], last |-> Nothing]

\* The stamp of the job and, for a certificate, whether it is valid (null counts as no).
Merged(snapshot, j) == LET kind == Work[j].kind IN
  [sources |-> [snapshot.sources EXCEPT ![kind] = j],
   valid |-> [k \in Certificates |->
                IF k = kind THEN Artifacts(j).valid = TRUE ELSE snapshot.valid[k]],
   last |-> kind]

Idle == [at |-> "idle", job |-> Nothing, next |-> 1, base |-> NoSnapshot, overtaken |-> FALSE]

\* The jobs in the queue when this begins.
StoreInit(submitted) ==
  /\ raw = {} /\ compliance = [v \in Vehicles |-> Nothing] /\ recent = <<>> /\ summaries = <<>>
  /\ exec = [w \in Workers |-> Idle]
  /\ queue = [j \in Jobs |-> [state |-> IF j \in submitted THEN "waiting" ELSE "absent",
                            tries |-> 0, lock |-> Nothing]]
  /\ hiccups = 0

At(w, step) == exec[w].at = step
Goes(w, step) == exec' = [exec EXCEPT ![w].at = step]
Leaves(w) == exec' = [exec EXCEPT ![w] = Idle]
NoFault == UNCHANGED hiccups
Fault == hiccups < MaxFaults /\ hiccups' = hiccups + 1

\* A worker takes the job, and its lock, for one more attempt.
Take(w, j) ==
  /\ At(w, "idle") /\ queue[j].state = "waiting"
  /\ exec' = [exec EXCEPT ![w] = [Idle EXCEPT !.at = "rows", !.job = j]]
  /\ queue' = [queue EXCEPT ![j] = [state |-> "active", tries |-> @.tries + 1, lock |-> w]]
  /\ NoFault /\ UNCHANGED <<raw, compliance, recent, summaries>>

MoreRows(w) == exec[w].next <= Len(RowsOf(exec[w].job))
Present(j, hash) == \E row \in raw : row.table = Artifacts(j).table /\ row.hash = hash
NextRow(w) == exec' = [exec EXCEPT ![w].next = @ + 1]
Stored(w) == LET j == exec[w].job IN
  [table |-> Artifacts(j).table, hash |-> RowsOf(j)[exec[w].next], try |-> queue[j].tries]

\* Mutation: a duplicate ends the loop, "this job was here already".
InsertStopsAtDuplicate(w) ==
  /\ At(w, "rows") /\ MoreRows(w)
  /\ IF Present(exec[w].job, Stored(w).hash)
     THEN exec' = [exec EXCEPT ![w].next = Len(RowsOf(exec[w].job)) + 1] /\ UNCHANGED raw
     ELSE NextRow(w) /\ raw' = raw \cup {Stored(w)}
  /\ NoFault /\ UNCHANGED <<compliance, recent, summaries, queue>>

Owns(w) == queue[exec[w].job].lock = w
Retry(j) == [queue EXCEPT ![j].lock = Nothing,
                          ![j].state = IF queue[j].tries < MaxAttempts THEN "waiting" ELSE "failed"]

\* Mutation: P2002 is an error like any other and fails the attempt.
InsertFailsOnDuplicate(w) ==
  /\ At(w, "rows") /\ MoreRows(w)
  /\ IF Present(exec[w].job, Stored(w).hash)
     THEN Leaves(w) /\ queue' = (IF Owns(w) THEN Retry(exec[w].job) ELSE queue) /\ UNCHANGED raw
     ELSE NextRow(w) /\ raw' = raw \cup {Stored(w)} /\ UNCHANGED queue
  /\ NoFault /\ UNCHANGED <<compliance, recent, summaries>>

\* tryCreate: P2002 of the unique hash is not an error.
Insert(w) ==
  /\ At(w, "rows") /\ MoreRows(w)
  /\ NextRow(w)
  /\ raw' = IF Present(exec[w].job, Stored(w).hash) THEN raw ELSE raw \cup {Stored(w)}
  /\ NoFault /\ UNCHANGED <<compliance, recent, summaries, queue>>

\* Which statement follows the rows.
AfterRows(w) ==
  /\ At(w, "rows") /\ ~MoreRows(w)
  /\ Goes(w, Artifacts(exec[w].job).then)
  /\ NoFault /\ UNCHANGED <<raw, compliance, recent, summaries, queue>>

\* upsert of a district, consigner or trip summary: the last writer wins.
Replace(w) ==
  /\ At(w, "replace") /\ Goes(w, "done")
  /\ summaries' = [key \in DOMAIN summaries \cup {Artifacts(exec[w].job).summary} |->
                     IF key = Artifacts(exec[w].job).summary THEN exec[w].job ELSE summaries[key]]
  /\ NoFault /\ UNCHANGED <<raw, compliance, recent, queue>>

Vehicle(w) == Work[exec[w].job].key
SnapshotOf(v) == IF compliance[v] = Nothing THEN NoSnapshot ELSE compliance[v]

\* findUnique of the vehicle's snapshot.
ReadSnapshot(w) ==
  /\ At(w, "read")
  /\ exec' = [exec EXCEPT ![w].at = "write", ![w].base = SnapshotOf(Vehicle(w))]
  /\ NoFault /\ UNCHANGED <<raw, compliance, recent, summaries, queue>>

\* Ghost: whoever has read this vehicle's snapshot and not written yet is overtaken.
Overtakes(w) ==
  exec' = [u \in Workers |->
             IF u = w THEN [exec[w] EXCEPT !.at = "done"]
             ELSE IF At(u, "write") /\ Vehicle(u) = Vehicle(w) THEN [exec[u] EXCEPT !.overtaken = TRUE]
             ELSE exec[u]]

\* Mutation: a row is inserted where there was one.
TouchesTwice(v) == recent' = <<v>> \o recent

\* The row carries updatedAt: the vehicle comes to the front from where it was, or, new,
\* from behind the last.
Touches(v) ==
  \E from \in 1..(Len(recent) + 1) :
    /\ IF from <= Len(recent) THEN recent[from] = v ELSE \A i \in DOMAIN recent : recent[i] # v
    /\ recent' = [i \in DOMAIN recent \cup {from} |->
                    IF i = 1 THEN v ELSE IF i <= from THEN recent[i - 1] ELSE recent[i]]

Write(w, snapshot) ==
  /\ At(w, "write") /\ Overtakes(w) /\ Touches(Vehicle(w))
  /\ compliance' = [compliance EXCEPT ![Vehicle(w)] = snapshot]
  /\ NoFault /\ UNCHANGED <<raw, summaries, queue>>

\* Mutation: the stamp is patched into the row as it is now, the verdicts are not.
WritePatchesStamps(w) ==
  Write(w, [Merged(exec[w].base, exec[w].job) EXCEPT !.sources =
              Merged(SnapshotOf(Vehicle(w)), exec[w].job).sources])

\* Mutation: the snapshot is built from this job alone.
WriteAlone(w) == Write(w, Merged(NoSnapshot, exec[w].job))

\* upsert of the whole merged snapshot.
WriteSnapshot(w) == Write(w, Merged(exec[w].base, exec[w].job))

\* The attempt succeeds; without the lock its result no longer counts.
Finish(w) ==
  /\ At(w, "done") /\ Leaves(w)
  /\ queue' = IF Owns(w) THEN [queue EXCEPT ![exec[w].job].state = "done",
                                            ![exec[w].job].lock = Nothing]
                         ELSE queue
  /\ NoFault /\ UNCHANGED <<raw, compliance, recent, summaries>>

\* A statement fails with anything but P2002: it did not run, or a row was written and only
\* the answer lost.  At "done" the answer to the last statement is lost, or a statement of
\* the job after these fails.
Fails(w) ==
  /\ exec[w].at \in {"rows", "replace", "read", "write", "done"} /\ Fault
  /\ Leaves(w)
  /\ queue' = IF Owns(w) THEN Retry(exec[w].job) ELSE queue
  /\ raw' \in {raw, IF At(w, "rows") /\ MoreRows(w) /\ ~Present(exec[w].job, Stored(w).hash)
                    THEN raw \cup {Stored(w)} ELSE raw}
  /\ UNCHANGED <<compliance, recent, summaries>>

\* The lock lapses, with the worker dead or only slow; the job is delivered again.
LosesLock(w) ==
  /\ ~At(w, "idle") /\ Owns(w) /\ Fault
  /\ exec' \in {exec, [exec EXCEPT ![w] = Idle]}
  /\ queue' = [queue EXCEPT ![exec[w].job].state = "waiting", ![exec[w].job].lock = Nothing]
  /\ UNCHANGED <<raw, compliance, recent, summaries>>

Runs(w) ==
  \/ Insert(w) \/ AfterRows(w) \/ Replace(w) \/ ReadSnapshot(w) \/ WriteSnapshot(w) \/ Finish(w)
=============================================================================
