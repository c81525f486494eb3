------------------------------ MODULE Compliance ------------------------------
(***************************************************************************)
(* The writers of the artifact tables and the readers of the compliance    *)
(* rows.  They share the database, and Redis among the readers.            *)
(***************************************************************************)
EXTENDS ComplianceReads

vars == <<storeVars, readVars>>

Init == (\E submitted \in SUBSET Jobs : StoreInit(submitted)) /\ ReadsInit

Written == {Vehicle(w) : w \in {u \in Workers : At(u, "write") /\ exec'[u].at = "done"}}
Watched == touched' = IF export.at = "reading" THEN touched \cup Written ELSE touched

Delivers(w, j) == Take(w, j) /\ UNCHANGED readVars
Writer(w) == Runs(w) /\ Watched /\ UNCHANGED <<cached, reader, export>>
WriterFault(w) == (Fails(w) \/ LosesLock(w)) /\ UNCHANGED readVars

StoreUntouched == UNCHANGED <<raw, compliance, recent, summaries, exec, queue>>

Request(r, v) == Asks(r, v) /\ StoreUntouched
Reading(r) == (Queries(r) \/ Caches(r)) /\ StoreUntouched
Expiry(v) == Expires(v) /\ StoreUntouched
Exporting == (ExportStarts \/ ExportReads \/ ExportBreaks) /\ StoreUntouched

Next ==
  \/ \E w \in Workers : Writer(w) \/ WriterFault(w) \/ \E j \in Jobs : Delivers(w, j)
  \/ \E r \in Readers : Reading(r) \/ \E v \in Vehicles : Request(r, v)
  \/ \E v \in Vehicles : Expiry(v)
  \/ Exporting

Spec == Init /\ [][Next]_vars

\* A free worker is given a waiting job, statements end, keys expire.  Nobody has to ask.
Fairness ==
  /\ \A w \in Workers : WF_vars(Writer(w)) /\ WF_vars(\E j \in Jobs : Delivers(w, j))
  /\ \A r \in Readers : WF_vars(Reading(r))
  /\ \A v \in Vehicles : WF_vars(Expiry(v))

FairSpec == Spec /\ Fairness

-----------------------------------------------------------------------------

Stamps == SnapshotKinds \X Vehicles

TypeOK ==
  /\ \A row \in raw : row.hash.job \in Jobs /\ row.try \in 1..(MaxAttempts + MaxFaults)
  /\ \A v \in Vehicles : compliance[v] # Nothing => compliance[v].last \in SnapshotKinds
  /\ {recent[i] : i \in DOMAIN recent} = {v \in Vehicles : compliance[v] # Nothing}
  /\ Len(recent) = Cardinality({recent[i] : i \in DOMAIN recent})
  /\ \A w \in Workers : exec[w].at \in {"idle", "rows", "replace", "read", "write", "done"}
  /\ \A j \in Jobs : queue[j].state \in {"absent", "waiting", "active", "done", "failed"}
  /\ hiccups \in 0..MaxFaults
  /\ \A r \in Readers : reader[r].at \in {"idle", "query", "cache"}
  /\ export.at \in {"off", "reading", "done", "cut"}

RowsFor(j, hash) ==
  {row \in raw : row.table = Artifacts(j).table /\ row.hash = hash}

\* However often a job was tried, cut short or run twice at a time: once it is done,
\* and as soon as a snapshot carries its stamp, every row of its payload is there,
\* once.
RowsBehind ==
  \A j \in Jobs :
    queue[j].state = "done" \/ (\E s \in Stamps :
                                  compliance[s[2]] # Nothing /\ compliance[s[2]].sources[s[1]] = j)
      => \A i \in DOMAIN RowsOf(j) : Cardinality(RowsFor(j, RowsOf(j)[i])) = 1

\* A summary says of each certificate what the job whose stamp it shows found, and
\* of a certificate without a stamp nothing, whatever merges crossed each other.
SnapshotCoherent ==
  \A v \in Vehicles : compliance[v] # Nothing =>
    \A k \in Certificates :
      LET j == compliance[v].sources[k]
      IN  compliance[v].valid[k] = IF j = Nothing THEN Nothing ELSE Artifacts(j).valid = TRUE

\* A write changes the stamp of its own kind only, unless another merge of the
\* vehicle was written after it read: then, and only then, may a stamp be undone.
MergesKept ==
  [][\A v \in Vehicles : compliance[v] # Nothing =>
       \A k \in SnapshotKinds :
         compliance'[v].sources[k] # compliance[v].sources[k] =>
           \E w \in Workers : /\ At(w, "write") /\ exec'[w].at = "done" /\ Vehicle(w) = v
                              /\ Work[exec[w].job].kind = k \/ exec[w].overtaken]_storeVars

\* Faults use up fewer attempts than there are: every job ends done.
JobsWritten == <>(\A j \in Jobs : queue[j].state \in {"absent", "done"})

\* From some moment on, every answer is the risk of the row as it is: no race
\* between a reader that fills the cache and a writer leaves an old summary in it.
RiskCatchesUp == <>[](\A v \in Vehicles : Answers(v) \subseteq {RiskOf(Summary(v))})

Listed(v) == \E i \in DOMAIN export.rows : export.rows[i] = v
Twice(v) == \E i, k \in DOMAIN export.rows : i # k /\ export.rows[i] = v /\ export.rows[k] = v

\* A finished export shorter than its cap misses only vehicles that were written
\* while it ran, and lists one twice only when some vehicle was.
ExportMissesOnlyMoved ==
  export.at = "done" =>
    /\ Len(export.rows) < ExportCap => \A v \in export.all : Listed(v) \/ v \in touched
    /\ (\E v \in Vehicles : Twice(v)) => touched # {}
=============================================================================
