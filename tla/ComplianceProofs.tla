--------------------------- MODULE ComplianceProofs ---------------------------
(***************************************************************************)
(* Proofs about the artifact tables: what the summary of a vehicle says,   *)
(* what a merge may undo, which raw rows stand behind a finished job, what *)
(* a failed job has cost, and which vehicles an export may miss, for any   *)
(* number of workers, jobs, vehicles and readers, any payloads and faults. *)
(***************************************************************************)
EXTENDS Compliance, TLAPS, FiniteSetTheorems, SequenceTheorems

Steps == {"idle", "rows", "replace", "read", "write", "done"}
States == {"absent", "waiting", "active", "done", "failed"}

Verdict(j) == Artifacts(j).valid = TRUE
Verdicts == {Nothing} \cup {Verdict(j) : j \in Jobs}
Snapshots == [sources : [SnapshotKinds -> Jobs \cup {Nothing}],
              valid : [Certificates -> Verdicts],
              last : SnapshotKinds \cup {Nothing}]
Execs == [at : Steps, job : Jobs \cup {Nothing}, next : Nat \ {0}, base : Snapshots,
          overtaken : BOOLEAN]

Shape ==
  /\ compliance \in [Vehicles -> Snapshots \cup {Nothing}]
  /\ exec \in [Workers -> Execs]
  /\ queue \in [Jobs -> [state : States, tries : Nat, lock : Workers \cup {Nothing}]]

-----------------------------------------------------------------------------
(* The payloads.                                                           *)

LEMMA MergingKinds ==
  ASSUME NEW j \in Jobs, Artifacts(j).then = "read"
  PROVE  Work[j].kind \in SnapshotKinds /\ Work[j].key \in Vehicles
<1> USE DEF NoArtifacts
<1>1. Work[j].kind \in SnapshotKinds \cup {"khanan_date_range", "raw_challan_backfill",
                                           "consigner_digest", "trip_intelligence_rollup"}
  BY WorkAssumption
<1>2. CASE Work[j].kind = "khanan_date_range"
  <2>1. Artifacts(j) = KhananRange(j)
    BY <1>2 DEF Artifacts
  <2> QED
    BY <2>1 DEF KhananRange, Rows, Summarises
<1>3. CASE Work[j].kind = "raw_challan_backfill"
  <2>1. Artifacts(j) = ChallanBackfill(j)
    BY <1>3 DEF Artifacts
  <2> QED
    BY <2>1 DEF ChallanBackfill, Rows
<1>4. CASE Work[j].kind = "consigner_digest"
  <2>1. Artifacts(j) = ConsignerDigest(j)
    BY <1>4 DEF Artifacts
  <2> QED
    BY <2>1 DEF ConsignerDigest, Rows, Summarises
<1>5. CASE Work[j].kind = "trip_intelligence_rollup"
  <2>1. Artifacts(j) = TripRollup(j)
    BY <1>5 DEF Artifacts
  <2> QED
    BY <2>1 DEF TripRollup, Rows, Summarises
<1>6. CASE Work[j].kind \in SnapshotKinds
  <2>1. \E table, valid : Artifacts(j) = Merges(j, table, valid)
    BY <1>6 DEF Artifacts, SnapshotKinds, Certificates, Fitness, Registration, Permit, Insurance
  <2>2. Work[j].key # Nothing
    BY <2>1 DEF Merges
  <2> QED
    BY <1>6, <2>2, WorkAssumption
<1> QED
  BY <1>1, <1>2, <1>3, <1>4, <1>5, <1>6

LEMMA NextStatement ==
  ASSUME NEW j \in Jobs
  PROVE  Artifacts(j).then \in {"done", "replace", "read"}
<1> USE DEF NoArtifacts
<1>1. Work[j].kind \in SnapshotKinds \cup {"khanan_date_range", "raw_challan_backfill",
                                           "consigner_digest", "trip_intelligence_rollup"}
  BY WorkAssumption
<1>2. CASE Work[j].kind = "khanan_date_range"
  BY <1>2 DEF Artifacts, KhananRange, Rows, Summarises
<1>3. CASE Work[j].kind = "raw_challan_backfill"
  BY <1>3 DEF Artifacts, ChallanBackfill, Rows
<1>4. CASE Work[j].kind = "consigner_digest"
  BY <1>4 DEF Artifacts, ConsignerDigest, Rows, Summarises
<1>5. CASE Work[j].kind = "trip_intelligence_rollup"
  BY <1>5 DEF Artifacts, TripRollup, Rows, Summarises
<1>6. CASE Work[j].kind \in SnapshotKinds
  <2>1. \E table, valid : Artifacts(j) = Merges(j, table, valid)
    BY <1>6 DEF Artifacts, SnapshotKinds, Certificates, Fitness, Registration, Permit, Insurance
  <2> QED
    BY <2>1 DEF Merges, Rows
<1> QED
  BY <1>1, <1>2, <1>3, <1>4, <1>5, <1>6

\* The rows of a job are a sequence.
LEMMA RowsAreListed ==
  ASSUME NEW j \in Jobs
  PROVE  DOMAIN RowsOf(j) = 1..Len(RowsOf(j)) /\ Len(RowsOf(j)) \in Nat
<1> USE DEF NoArtifacts
<1> DEFINE IsList(s) == DOMAIN s = 1..Len(s) /\ Len(s) \in Nat
<1>1. Work[j].kind \in SnapshotKinds \cup {"khanan_date_range", "raw_challan_backfill",
                                           "consigner_digest", "trip_intelligence_rollup"}
  BY WorkAssumption
<1>2. IsList(<<>>) /\ IsList(OneRow(j))
  BY DEF OneRow
<1>3. IsList(RecordRows(j))
  <2>1. CASE Work[j].records = <<>>
    BY <1>2, <2>1 DEF RecordRows
  <2>2. CASE Work[j].records # <<>>
    <3>1. Len(Work[j].records) \in Nat /\ DOMAIN Work[j].records = 1..Len(Work[j].records)
      BY WorkAssumption
    <3>2. RecordRows(j) = [i \in 1..Len(Work[j].records) |-> Hash(j, Work[j].records[i])]
      BY <2>2, <3>1 DEF RecordRows
    <3>3. RecordRows(j) \in Seq({Hash(j, Work[j].records[i]) : i \in 1..Len(Work[j].records)})
      BY <3>1, <3>2
    <3> QED
      BY <3>3
  <2> QED
    BY <2>1, <2>2
<1>4. RowsOf(j) \in {<<>>, OneRow(j), RecordRows(j)}
  <2>1. CASE Work[j].kind = "khanan_date_range"
    BY <2>1 DEF Artifacts, RowsOf, KhananRange, Rows, Summarises
  <2>2. CASE Work[j].kind = "raw_challan_backfill"
    BY <2>2 DEF Artifacts, RowsOf, ChallanBackfill, Rows
  <2>3. CASE Work[j].kind = "consigner_digest"
    BY <2>3 DEF Artifacts, RowsOf, ConsignerDigest, Rows, Summarises
  <2>4. CASE Work[j].kind = "trip_intelligence_rollup"
    BY <2>4 DEF Artifacts, RowsOf, TripRollup, Rows, Summarises
  <2>5. CASE Work[j].kind \in SnapshotKinds
    <3>1. \E table, valid : Artifacts(j) = Merges(j, table, valid)
      BY <2>5 DEF Artifacts, SnapshotKinds, Certificates, Fitness, Registration, Permit, Insurance
    <3> QED
      BY <3>1 DEF RowsOf, Merges, Rows
  <2> QED
    BY <1>1, <2>1, <2>2, <2>3, <2>4, <2>5
<1> QED
  BY <1>2, <1>3, <1>4

-----------------------------------------------------------------------------
(* What holds of a snapshot, a job and an execution.                       *)

Complete(j) == \A i \in DOMAIN RowsOf(j) : Present(j, RowsOf(j)[i])

\* Every certificate agrees with its stamp, and every stamp has its rows.
Sound(s) ==
  /\ \A k \in Certificates : s.valid[k] = IF s.sources[k] = Nothing THEN Nothing ELSE Verdict(s.sources[k])
  /\ \A k \in SnapshotKinds : s.sources[k] # Nothing => Complete(s.sources[k])

\* An execution past its first step has a job, one that merges a job that merges; the
\* snapshot it holds is sound, and current unless the ghost says otherwise; the rows
\* before its next one are there, and behind them all of them.
Fit(e) ==
  /\ e.at # "idle" => e.job \in Jobs
  /\ e.at \in {"read", "write"} => Artifacts(e.job).then = "read"
  /\ Sound(e.base)
  /\ (e.at = "write" /\ ~e.overtaken) => e.base = SnapshotOf(Work[e.job].key)
  /\ e.at # "idle" =>
       \A i \in DOMAIN RowsOf(e.job) :
         (i < e.next \/ e.at # "rows") => Present(e.job, RowsOf(e.job)[i])
AllFit == \A w \in Workers : Fit(exec[w])

RowsSound == \A v \in Vehicles : compliance[v] # Nothing => Sound(compliance[v])
DoneComplete == \A j \in Jobs : queue[j].state = "done" => Complete(j)
RowsOnce == \A x, y \in raw : x.table = y.table /\ x.hash = y.hash => x = y

\* Inductive: a snapshot somebody holds is as sound as the one in the table.
StoreInv ==
  Shape /\ AllFit /\ RowsSound /\ DoneComplete /\ RowsOnce

LEMMA EmptySnapshot == NoSnapshot \in Snapshots /\ Sound(NoSnapshot)
BY DEF NoSnapshot, Snapshots, Verdicts, Sound, Certificates, SnapshotKinds

LEMMA IdleExec == Idle \in Execs /\ Idle.at = "idle" /\ Idle.base = NoSnapshot
BY EmptySnapshot DEF Idle, Execs, Steps

LEMMA StoreInvInit == Init => StoreInv
<1> SUFFICES ASSUME Init PROVE StoreInv
  OBVIOUS
<1>1. PICK submitted \in SUBSET Jobs : StoreInit(submitted)
  BY DEF Init
<1>2. Shape
  BY <1>1, IdleExec DEF StoreInit, Shape, States
<1>3. AllFit /\ RowsSound
  BY <1>1, IdleExec, EmptySnapshot DEF StoreInit, AllFit, Fit, RowsSound
<1>4. DoneComplete /\ RowsOnce
  BY <1>1 DEF StoreInit, DoneComplete, RowsOnce
<1> QED
  BY <1>2, <1>3, <1>4 DEF StoreInv

\* Rows are never deleted.
LEMMA RowsGrow ==
  ASSUME raw \subseteq raw'
  PROVE  /\ \A j, hash : Present(j, hash) => Present(j, hash)'
         /\ \A j : Complete(j) => Complete(j)'
         /\ \A s : Sound(s) => Sound(s)'
<1>1. \A j, hash : Present(j, hash) => Present(j, hash)'
  BY DEF Present
<1>2. \A j : Complete(j) => Complete(j)'
  BY <1>1 DEF Complete
<1>3. \A s : Sound(s) => Sound(s)'
  BY <1>2 DEF Sound
<1> QED
  BY <1>1, <1>2, <1>3

\* A sound snapshot stays sound when a job with all its rows is merged into it.
LEMMA MergeIsSound ==
  ASSUME NEW s \in Snapshots, Sound(s), NEW j \in Jobs, Complete(j), Artifacts(j).then = "read"
  PROVE  /\ Merged(s, j) \in Snapshots /\ Sound(Merged(s, j))
         /\ \A k \in SnapshotKinds \ {Work[j].kind} : Merged(s, j).sources[k] = s.sources[k]
<1> DEFINE kind == Work[j].kind
           m == Merged(s, j)
<1>1. kind \in SnapshotKinds /\ s.sources \in [SnapshotKinds -> Jobs \cup {Nothing}]
      /\ s.valid \in [Certificates -> Verdicts] /\ j # Nothing
  BY MergingKinds, WorkAssumption DEF Snapshots
<1>2. m = [sources |-> [s.sources EXCEPT ![kind] = j],
           valid |-> [k \in Certificates |-> IF k = kind THEN Verdict(j) ELSE s.valid[k]],
           last |-> kind]
  BY DEF Merged, Verdict
<1> HIDE DEF m, kind
<1>3. /\ m.sources = [s.sources EXCEPT ![kind] = j]
      /\ m.valid = [k \in Certificates |-> IF k = kind THEN Verdict(j) ELSE s.valid[k]]
      /\ m.last = kind
  BY <1>2
<1>4. m.sources \in [SnapshotKinds -> Jobs \cup {Nothing}] /\ m.sources[kind] = j
      /\ \A k \in SnapshotKinds \ {kind} : m.sources[k] = s.sources[k]
  BY <1>1, <1>3
<1>5. Verdict(j) \in Verdicts /\ \A k \in Certificates : s.valid[k] \in Verdicts
  BY <1>1 DEF Verdicts
<1>6. \A k \in Certificates : m.valid[k] = IF k = kind THEN Verdict(j) ELSE s.valid[k]
  BY <1>3
<1>7. m.valid \in [Certificates -> Verdicts]
  <2>1. \A k \in Certificates : (IF k = kind THEN Verdict(j) ELSE s.valid[k]) \in Verdicts
    BY <1>5
  <2> QED
    BY <1>3, <2>1
<1>8. m \in Snapshots
  BY <1>1, <1>2, <1>3, <1>4, <1>7 DEF Snapshots
<1>9. Sound(m)
  <2>1. ASSUME NEW k \in Certificates
        PROVE  m.valid[k] = IF m.sources[k] = Nothing THEN Nothing ELSE Verdict(m.sources[k])
    <3>1. CASE k = kind
      BY <1>1, <1>4, <1>6, <3>1
    <3>2. CASE k # kind
      <4>1. k \in SnapshotKinds /\ m.sources[k] = s.sources[k] /\ m.valid[k] = s.valid[k]
        BY <1>4, <1>6, <3>2 DEF SnapshotKinds
      <4>2. s.valid[k] = IF s.sources[k] = Nothing THEN Nothing ELSE Verdict(s.sources[k])
        BY DEF Sound
      <4> QED
        BY <4>1, <4>2
    <3> QED
      BY <3>1, <3>2
  <2>2. ASSUME NEW k \in SnapshotKinds, m.sources[k] # Nothing PROVE Complete(m.sources[k])
    BY <1>4, <2>2 DEF Sound
  <2> QED
    BY <2>1, <2>2 DEF Sound
<1> QED
  BY <1>4, <1>8, <1>9 DEF m, kind

-----------------------------------------------------------------------------
(* The steps.                                                              *)

\* An execution that stays as it is.
LEMMA FitStays ==
  ASSUME raw \subseteq raw', NEW e, Fit(e),
         (e.at = "write" /\ ~e.overtaken) => SnapshotOf(Work[e.job].key)' = SnapshotOf(Work[e.job].key)
  PROVE  Fit(e)'
<1>1. Sound(e.base)'
  BY RowsGrow DEF Fit
<1>2. e.at # "idle" =>
        \A i \in DOMAIN RowsOf(e.job) :
          (i < e.next \/ e.at # "rows") => Present(e.job, RowsOf(e.job)[i])'
  BY RowsGrow DEF Fit
<1> QED
  BY <1>1, <1>2 DEF Fit

LEMMA FitNext ==
  ASSUME \A w \in Workers : \E e : e = exec'[w] /\ Fit(e)'
  PROVE  AllFit'
<1> SUFFICES ASSUME NEW w \in Workers PROVE Fit(exec[w])'
  BY DEF AllFit
<1>1. PICK e : e = exec'[w] /\ Fit(e)'
  OBVIOUS
<1> QED
  BY <1>1 DEF Fit, Sound, Complete, Present, SnapshotOf

\* A worker comes to e, the others stay as they are or learn that they were overtaken.
LEMMA OneMoves ==
  ASSUME StoreInv, raw \subseteq raw', NEW w \in Workers, NEW e, exec'[w] = e, Fit(e)',
         \A u \in Workers \ {w} :
           \/ /\ exec'[u] = exec[u]
              /\ exec[u].at = "write" =>
                   SnapshotOf(Work[exec[u].job].key)' = SnapshotOf(Work[exec[u].job].key)
           \/ exec[u].at = "write" /\ exec'[u] = [exec[u] EXCEPT !.overtaken = TRUE]
  PROVE  AllFit'
<1> SUFFICES ASSUME NEW u \in Workers \ {w} PROVE \E f : f = exec'[u] /\ Fit(f)'
  BY FitNext
<1>1. PICK f : f = exec[u] /\ f \in Execs /\ Fit(f)
  BY DEF StoreInv, Shape, AllFit
<1>2. CASE /\ exec'[u] = exec[u]
           /\ exec[u].at = "write" =>
                SnapshotOf(Work[exec[u].job].key)' = SnapshotOf(Work[exec[u].job].key)
  <2>1. f.at = "write" => SnapshotOf(Work[f.job].key)' = SnapshotOf(Work[f.job].key)
    BY <1>1, <1>2 DEF SnapshotOf
  <2> QED
    BY <1>1, <1>2, <2>1, FitStays
<1>3. CASE exec[u].at = "write" /\ exec'[u] = [exec[u] EXCEPT !.overtaken = TRUE]
  <2> DEFINE g == [f EXCEPT !.overtaken = TRUE]
  <2>1. /\ g.at = f.at /\ g.job = f.job /\ g.next = f.next /\ g.base = f.base /\ g.overtaken
        /\ exec'[u] = g
    BY <1>1, <1>3 DEF Execs
  <2> HIDE DEF g
  <2>2. Fit(g)
    BY <1>1, <2>1 DEF Fit
  <2>3. Fit(g)'
    BY <2>1, <2>2, FitStays
  <2> QED
    BY <2>1, <2>3
<1> QED
  BY <1>2, <1>3

\* A step that neither adds rows, nor changes a snapshot, nor ends a job as done.
LEMMA QuietStep ==
  ASSUME StoreInv, Shape', UNCHANGED <<raw, compliance>>,
         \A j \in Jobs : queue'[j].state = "done" => queue[j].state = "done",
         NEW w \in Workers, NEW e, exec'[w] = e, Fit(e), e.at = "write" => exec[w].at = "write",
         \A u \in Workers \ {w} : exec'[u] = exec[u]
  PROVE  StoreInv'
<1>1. Fit(e)'
  BY FitStays DEF SnapshotOf
<1>2. AllFit'
  BY <1>1, OneMoves DEF SnapshotOf
<1>3. RowsSound'
  <2> SUFFICES ASSUME NEW v \in Vehicles, compliance'[v] # Nothing PROVE Sound(compliance[v])'
    BY DEF RowsSound
  <2>1. PICK s : s = compliance[v] /\ s = compliance'[v] /\ Sound(s)
    BY DEF StoreInv, RowsSound
  <2> QED
    BY <2>1, RowsGrow DEF Sound, Complete, Present
<1>4. DoneComplete'
  BY RowsGrow DEF StoreInv, DoneComplete
<1>5. RowsOnce'
  BY DEF StoreInv, RowsOnce
<1> QED
  BY <1>2, <1>3, <1>4, <1>5 DEF StoreInv

LEMMA IdleFits == Fit(Idle)
BY IdleExec, EmptySnapshot DEF Fit

LEMMA TakeStep ==
  ASSUME StoreInv, NEW w \in Workers, NEW j \in Jobs, Take(w, j)
  PROVE  StoreInv'
<1> DEFINE e == [Idle EXCEPT !.at = "rows", !.job = j]
<1>1. /\ exec \in [Workers -> Execs] /\ e \in Execs /\ e.at = "rows" /\ e.job = j
      /\ e.next = 1 /\ e.base = NoSnapshot
  BY IdleExec DEF StoreInv, Shape, Idle, Execs, Steps
<1>2. exec' = [exec EXCEPT ![w] = e]
  BY DEF Take
<1>3. Fit(e)
  BY <1>1, EmptySnapshot, RowsAreListed DEF Fit
<1> HIDE DEF e
<1>4. Shape' /\ \A k \in Jobs : queue'[k].state = "done" => queue[k].state = "done"
  BY <1>1, <1>2 DEF Take, StoreInv, Shape, States
<1>5. exec'[w] = e /\ \A u \in Workers \ {w} : exec'[u] = exec[u]
  BY <1>1, <1>2
<1> QED
  BY <1>1, <1>3, <1>4, <1>5, QuietStep DEF Take

\* The worker of a step under way.
LEMMA Working ==
  ASSUME StoreInv, NEW w \in Workers, exec[w].at # "idle"
  PROVE  /\ exec \in [Workers -> Execs] /\ exec[w] \in Execs /\ Fit(exec[w])
         /\ exec[w].job \in Jobs /\ exec[w].next \in Nat \ {0} /\ exec[w].base \in Snapshots
         /\ exec[w].at # "rows" => Complete(exec[w].job)
<1>1. exec \in [Workers -> Execs] /\ exec[w] \in Execs /\ Fit(exec[w])
  BY DEF StoreInv, Shape, AllFit
<1>2. exec[w].job \in Jobs /\ (exec[w].at # "rows" => Complete(exec[w].job))
  BY <1>1 DEF Fit, Complete
<1> QED
  BY <1>1, <1>2 DEF Execs

LEMMA PlainSteps ==
  ASSUME StoreInv, NEW w \in Workers, AfterRows(w) \/ Replace(w) \/ ReadSnapshot(w)
  PROVE  StoreInv'
<1>1. exec[w].at \in {"rows", "replace", "read"} /\ UNCHANGED <<raw, compliance, queue>>
  BY DEF AfterRows, Replace, ReadSnapshot, At
<1>2. /\ exec \in [Workers -> Execs] /\ exec[w] \in Execs /\ Fit(exec[w])
      /\ exec[w].job \in Jobs /\ exec[w].next \in Nat \ {0} /\ exec[w].base \in Snapshots
      /\ exec[w].at # "rows" => Complete(exec[w].job)
  BY <1>1, Working
<1>3. ASSUME NEW e \in Execs, exec' = [exec EXCEPT ![w] = e], Fit(e)',
             UNCHANGED <<raw, compliance, queue>>
      PROVE  StoreInv'
  <2>1. Shape'
    BY <1>2, <1>3 DEF StoreInv, Shape
  <2>2. exec'[w] = e /\ \A u \in Workers \ {w} : exec'[u] = exec[u]
    BY <1>2, <1>3
  <2>3. AllFit'
    BY <1>3, <2>2, OneMoves DEF SnapshotOf
  <2>4. RowsSound' /\ DoneComplete' /\ RowsOnce'
    BY <1>3 DEF StoreInv, RowsSound, DoneComplete, RowsOnce, Sound, Complete, Present
  <2> QED
    BY <2>1, <2>3, <2>4 DEF StoreInv
<1>4. ASSUME NEW at \in {"done", "replace", "read"}, Goes(w, at),
             at = "read" => Artifacts(exec[w].job).then = "read", Complete(exec[w].job),
             UNCHANGED <<raw, compliance, queue>>
      PROVE  StoreInv'
  <2>0. PICK e : e = [exec[w] EXCEPT !.at = at]
    OBVIOUS
  <2>1. /\ e \in Execs /\ e.at = at /\ e.job = exec[w].job /\ e.base = exec[w].base
        /\ e.next = exec[w].next /\ exec' = [exec EXCEPT ![w] = e]
    BY <1>2, <1>4, <2>0 DEF Execs, Steps, Goes
  <2>2. Fit(e)
    BY <1>2, <1>4, <2>1 DEF Fit, Complete
  <2>3. Fit(e)'
    BY <1>4, <2>1, <2>2, FitStays
  <2> QED
    BY <1>3, <1>4, <2>1, <2>3
<1>5. CASE AfterRows(w)
  <2>1. Goes(w, Artifacts(exec[w].job).then) /\ exec[w].at = "rows"
        /\ ~(exec[w].next <= Len(RowsOf(exec[w].job)))
    BY <1>5 DEF AfterRows, At, MoreRows
  <2>2. Complete(exec[w].job)
    BY <1>2, <2>1, RowsAreListed DEF Fit, Complete
  <2> QED
    BY <1>1, <1>2, <1>4, <2>1, <2>2, NextStatement
<1>6. CASE Replace(w)
  BY <1>1, <1>2, <1>4, <1>6 DEF Replace, At
<1>7. CASE ReadSnapshot(w)
  <2> DEFINE j == exec[w].job
             s == SnapshotOf(Vehicle(w))
             e == [exec[w] EXCEPT !.at = "write", !.base = s]
  <2>1. exec[w].at = "read" /\ Artifacts(j).then = "read" /\ Work[j].key \in Vehicles
        /\ Vehicle(w) = Work[j].key
    BY <1>2, <1>7, MergingKinds DEF ReadSnapshot, At, Fit, Vehicle
  <2>2. s \in Snapshots /\ Sound(s)
    <3>1. CASE compliance[Vehicle(w)] = Nothing
      BY <3>1, EmptySnapshot DEF SnapshotOf
    <3>2. CASE compliance[Vehicle(w)] # Nothing
      BY <2>1, <3>2 DEF SnapshotOf, StoreInv, Shape, RowsSound
    <3> QED
      BY <3>1, <3>2
  <2>3. exec' = [exec EXCEPT ![w].at = "write", ![w].base = s]
    BY <1>7 DEF ReadSnapshot
  <2>4. s = SnapshotOf(Work[j].key)
    BY <2>1
  <2>5. PICK t \in Snapshots : t = s
    BY <2>2
  <2> HIDE DEF s
  <2>6. PICK f : f = [exec[w] EXCEPT !.at = "write", !.base = t]
    OBVIOUS
  <2>7. /\ f \in Execs /\ f.at = "write" /\ f.job = j /\ f.base = t
        /\ f.next = exec[w].next /\ exec' = [exec EXCEPT ![w] = f]
    BY <1>2, <2>3, <2>5, <2>6 DEF Execs, Steps
  <2>8. Fit(f)
    BY <1>2, <2>1, <2>2, <2>4, <2>5, <2>7 DEF Fit, Complete
  <2>9. Fit(f)'
    <3>1. SnapshotOf(Work[f.job].key)' = SnapshotOf(Work[f.job].key)
      BY <1>1 DEF SnapshotOf
    <3> QED
      BY <1>1, <2>8, <3>1, FitStays
  <2> QED
    BY <1>1, <1>3, <2>7, <2>9
<1> QED
  BY <1>5, <1>6, <1>7

\* A row is added where there was none of its table and hash, or nothing.
LEMMA RowAdded ==
  ASSUME StoreInv, NEW w \in Workers, At(w, "rows"), MoreRows(w),
         raw' \in {raw, raw \cup {Stored(w)}},
         Present(exec[w].job, Stored(w).hash) => raw' = raw
  PROVE  raw \subseteq raw' /\ RowsOnce'
<1>1. raw \subseteq raw'
  OBVIOUS
<1>2. CASE raw' = raw
  BY <1>2 DEF StoreInv, RowsOnce
<1>3. CASE raw' = raw \cup {Stored(w)} /\ ~Present(exec[w].job, Stored(w).hash)
  <2>1. Stored(w).table = Artifacts(exec[w].job).table
    BY DEF Stored
  <2>2. \A x \in raw : ~(x.table = Stored(w).table /\ x.hash = Stored(w).hash)
    BY <1>3, <2>1 DEF Present
  <2> QED
    BY <1>3, <2>2 DEF StoreInv, RowsOnce
<1> QED
  BY <1>1, <1>2, <1>3

\* What a growing table leaves true of jobs and snapshots that do not change.
LEMMA TablesKept ==
  ASSUME StoreInv, raw \subseteq raw'
  PROVE  /\ UNCHANGED compliance => RowsSound'
         /\ (\A j \in Jobs : queue'[j].state = "done" => queue[j].state = "done") => DoneComplete'
<1>1. ASSUME UNCHANGED compliance PROVE RowsSound'
  <2> SUFFICES ASSUME NEW v \in Vehicles, compliance'[v] # Nothing PROVE Sound(compliance[v])'
    BY DEF RowsSound
  <2>1. PICK s : s = compliance[v] /\ s = compliance'[v] /\ Sound(s)
    BY <1>1 DEF StoreInv, RowsSound
  <2>2. Sound(s)'
    BY <2>1, RowsGrow
  <2> QED
    BY <2>1, <2>2 DEF Sound, Complete, Present
<1>2. ASSUME \A j \in Jobs : queue'[j].state = "done" => queue[j].state = "done" PROVE DoneComplete'
  BY <1>2, RowsGrow DEF StoreInv, DoneComplete
<1> QED
  BY <1>1, <1>2

LEMMA InsertStep ==
  ASSUME StoreInv, NEW w \in Workers, Insert(w)
  PROVE  StoreInv'
<1>0. PICK j, n : j = exec[w].job /\ n = exec[w].next
  OBVIOUS
<1>1. /\ exec[w].at = "rows" /\ n <= Len(RowsOf(j)) /\ UNCHANGED <<compliance, queue>>
      /\ exec' = [exec EXCEPT ![w].next = @ + 1]
      /\ raw' = IF Present(j, Stored(w).hash) THEN raw ELSE raw \cup {Stored(w)}
      /\ At(w, "rows") /\ MoreRows(w)
  BY <1>0 DEF Insert, At, MoreRows, NextRow
<1>2. /\ exec \in [Workers -> Execs] /\ exec[w] \in Execs /\ Fit(exec[w])
      /\ j \in Jobs /\ n \in Nat \ {0} /\ exec[w].base \in Snapshots
  BY <1>0, <1>1, Working
<1>3. raw \subseteq raw' /\ RowsOnce'
  BY <1>0, <1>1, RowAdded
<1>4. PICK e : e = [exec[w] EXCEPT !.next = @ + 1]
  OBVIOUS
<1>5. /\ e \in Execs /\ e.at = "rows" /\ e.job = j /\ e.next = n + 1 /\ e.base = exec[w].base
      /\ exec' = [exec EXCEPT ![w] = e]
  BY <1>0, <1>1, <1>2, <1>4 DEF Execs
<1>6. Present(j, RowsOf(j)[n])'
  <2>1. Stored(w).table = Artifacts(j).table /\ Stored(w).hash = RowsOf(j)[n]
    BY <1>0 DEF Stored
  <2> QED
    BY <1>1, <2>1 DEF Present
<1>7. \A i \in DOMAIN RowsOf(j) : i < n + 1 => Present(j, RowsOf(j)[i])'
  <2>1. ASSUME NEW i \in DOMAIN RowsOf(j), i < n PROVE Present(j, RowsOf(j)[i])'
    BY <1>0, <1>1, <1>2, <1>3, <2>1, RowsGrow DEF Fit
  <2> QED
    BY <1>2, <1>6, <2>1, RowsAreListed
<1>8. Sound(e.base)'
  BY <1>2, <1>3, <1>5, RowsGrow DEF Fit
<1>9. Fit(e)'
  BY <1>2, <1>5, <1>7, <1>8 DEF Fit
<1>10. exec'[w] = e /\ \A u \in Workers \ {w} : exec'[u] = exec[u]
  BY <1>2, <1>5
<1>11. AllFit'
  BY <1>1, <1>3, <1>9, <1>10, OneMoves DEF SnapshotOf
<1>12. Shape'
  BY <1>1, <1>2, <1>5 DEF StoreInv, Shape
<1> QED
  BY <1>1, <1>3, <1>11, <1>12, TablesKept DEF StoreInv

LEMMA WriteStep ==
  ASSUME StoreInv, NEW w \in Workers, WriteSnapshot(w)
  PROVE  StoreInv'
<1>1. PICK j, b : j = exec[w].job /\ b = exec[w].base
  OBVIOUS
<1>2. PICK m : m = Merged(b, j)
  OBVIOUS
<1>3. /\ exec[w].at = "write" /\ UNCHANGED <<raw, queue>> /\ Vehicle(w) = Work[j].key
      /\ compliance' = [compliance EXCEPT ![Work[j].key] = m]
      /\ Overtakes(w)
  BY <1>1, <1>2 DEF WriteSnapshot, Write, At, Vehicle
<1>4. /\ exec \in [Workers -> Execs] /\ exec[w] \in Execs /\ Fit(exec[w]) /\ j \in Jobs
      /\ b \in Snapshots /\ Sound(b) /\ Complete(j) /\ Artifacts(j).then = "read"
      /\ Work[j].key \in Vehicles
  BY <1>1, <1>3, Working, MergingKinds DEF Fit
<1>5. m \in Snapshots /\ Sound(m)
  BY <1>2, <1>4, MergeIsSound
<1>6. PICK e : e = [exec[w] EXCEPT !.at = "done"]
  OBVIOUS
<1>7. e \in Execs /\ e.at = "done" /\ e.job = j /\ e.base = b
  BY <1>1, <1>4, <1>6 DEF Execs, Steps
<1>8. /\ exec'[w] = e /\ DOMAIN exec' = Workers
      /\ \A u \in Workers \ {w} :
           \/ /\ exec'[u] = exec[u]
              /\ ~(exec[u].at = "write" /\ Work[exec[u].job].key = Work[j].key)
           \/ exec[u].at = "write" /\ exec'[u] = [exec[u] EXCEPT !.overtaken = TRUE]
  <2>1. \A u \in Workers :
          exec'[u] = IF u = w THEN [exec[w] EXCEPT !.at = "done"]
                     ELSE IF At(u, "write") /\ Vehicle(u) = Vehicle(w)
                          THEN [exec[u] EXCEPT !.overtaken = TRUE] ELSE exec[u]
    BY <1>3 DEF Overtakes
  <2>2. DOMAIN exec' = Workers
    BY <1>3 DEF Overtakes
  <2>3. ASSUME NEW u \in Workers, u # w, exec[u].at = "write" /\ Work[exec[u].job].key = Work[j].key
        PROVE  exec'[u] = [exec[u] EXCEPT !.overtaken = TRUE]
    BY <1>3, <2>1, <2>3 DEF At, Vehicle
  <2>4. ASSUME NEW u \in Workers, u # w, ~(exec[u].at = "write" /\ Work[exec[u].job].key = Work[j].key)
        PROVE  exec'[u] = exec[u]
    BY <1>3, <2>1, <2>4 DEF At, Vehicle
  <2>5. exec'[w] = e
    BY <1>6, <2>1
  <2> QED
    BY <2>2, <2>3, <2>4, <2>5
<1>9. ASSUME NEW u \in Workers PROVE exec'[u] \in Execs
  <2>1. exec[u] \in Execs /\ [exec[u] EXCEPT !.overtaken = TRUE] \in Execs
    BY <1>4 DEF Execs
  <2> QED
    BY <1>7, <1>8, <2>1
<1>10. Shape'
  <2>1. exec' \in [Workers -> Execs]
    <3>1. exec' = [u \in Workers |-> exec'[u]]
      BY <1>3 DEF Overtakes
    <3> QED
      BY <1>9, <3>1
  <2>2. compliance' \in [Vehicles -> Snapshots \cup {Nothing}]
    BY <1>3, <1>5 DEF StoreInv, Shape
  <2> QED
    BY <1>3, <2>1, <2>2 DEF StoreInv, Shape
<1>11. \A v \in Vehicles \ {Work[j].key} : SnapshotOf(v)' = SnapshotOf(v)
  BY <1>3 DEF SnapshotOf, StoreInv, Shape
<1>12. \A u \in Workers \ {w} :
         \/ /\ exec'[u] = exec[u]
            /\ exec[u].at = "write" =>
                 SnapshotOf(Work[exec[u].job].key)' = SnapshotOf(Work[exec[u].job].key)
         \/ exec[u].at = "write" /\ exec'[u] = [exec[u] EXCEPT !.overtaken = TRUE]
  <2> SUFFICES ASSUME NEW u \in Workers \ {w}, exec'[u] = exec[u], exec[u].at = "write",
                      Work[exec[u].job].key # Work[j].key
               PROVE  SnapshotOf(Work[exec[u].job].key)' = SnapshotOf(Work[exec[u].job].key)
    BY <1>8
  <2>1. PICK k : k = exec[u].job /\ k = exec'[u].job
    OBVIOUS
  <2>2. Work[k].key \in Vehicles \ {Work[j].key}
    BY <2>1, Working, MergingKinds DEF Fit
  <2>3. SnapshotOf(Work[k].key)' = SnapshotOf(Work[k].key)
    BY <1>11, <2>2
  <2> QED
    BY <2>1, <2>3 DEF SnapshotOf
<1>13. Sound(e.base)' /\ Complete(j)' /\ Sound(m)'
  BY <1>3, <1>4, <1>5, <1>7, RowsGrow
<1>14. Fit(e)'
  BY <1>4, <1>7, <1>13 DEF Fit, Complete
<1>15. AllFit'
  BY <1>3, <1>8, <1>12, <1>14, OneMoves
<1>16. RowsSound'
  <2> SUFFICES ASSUME NEW v \in Vehicles, compliance'[v] # Nothing PROVE Sound(compliance[v])'
    BY DEF RowsSound
  <2>1. CASE v = Work[j].key
    <3>1. compliance'[v] = m
      BY <1>3, <2>1 DEF StoreInv, Shape
    <3> QED
      BY <1>13, <3>1 DEF Sound, Complete, Present
  <2>2. CASE v # Work[j].key
    <3>1. PICK s : s = compliance[v] /\ s = compliance'[v] /\ Sound(s)
      BY <1>3, <2>2 DEF StoreInv, RowsSound, Shape
    <3>2. Sound(s)'
      BY <1>3, <3>1, RowsGrow
    <3> QED
      BY <3>1, <3>2 DEF Sound, Complete, Present
  <2> QED
    BY <2>1, <2>2
<1>17. DoneComplete' /\ RowsOnce'
  BY <1>3, TablesKept DEF StoreInv, RowsOnce
<1> QED
  BY <1>10, <1>15, <1>16, <1>17 DEF StoreInv

\* An attempt that ends, one way or another.
LEMMA LeavesStep ==
  ASSUME StoreInv, NEW w \in Workers, raw \subseteq raw', RowsOnce', UNCHANGED compliance,
         exec' \in {exec, [exec EXCEPT ![w] = Idle]},
         queue' \in [Jobs -> [state : States, tries : Nat, lock : Workers \cup {Nothing}]],
         DoneComplete'
  PROVE  StoreInv'
<1>1. exec \in [Workers -> Execs] /\ Shape'
  BY IdleExec DEF StoreInv, Shape
<1>2. AllFit'
  <2>1. CASE exec' = exec
    <3> SUFFICES ASSUME NEW u \in Workers PROVE \E f : f = exec'[u] /\ Fit(f)'
      BY FitNext
    <3>1. PICK f : f = exec[u] /\ Fit(f)
      BY DEF StoreInv, AllFit
    <3> QED
      BY <2>1, <3>1, FitStays DEF SnapshotOf
  <2>2. CASE exec' = [exec EXCEPT ![w] = Idle]
    <3>1. exec'[w] = Idle /\ \A u \in Workers \ {w} : exec'[u] = exec[u]
      BY <1>1, <2>2
    <3>2. Fit(Idle)'
      BY IdleFits, IdleExec, FitStays
    <3> QED
      BY <3>1, <3>2, OneMoves DEF SnapshotOf
  <2> QED
    BY <2>1, <2>2
<1> QED
  BY <1>1, <1>2, TablesKept DEF StoreInv

LEMMA EndSteps ==
  ASSUME StoreInv, NEW w \in Workers, Finish(w) \/ Fails(w) \/ LosesLock(w)
  PROVE  StoreInv'
<1>1. exec[w].at # "idle" /\ UNCHANGED compliance /\ exec' \in {exec, [exec EXCEPT ![w] = Idle]}
  BY DEF Finish, Fails, LosesLock, At, Leaves
<1>2. PICK j : j = exec[w].job /\ j \in Jobs
  BY <1>1, Working
<1>3. queue \in [Jobs -> [state : States, tries : Nat, lock : Workers \cup {Nothing}]]
  BY DEF StoreInv, Shape
<1>4. ASSUME NEW state \in States, queue' = [queue EXCEPT ![j].state = state, ![j].lock = Nothing]
      PROVE  /\ queue' \in [Jobs -> [state : States, tries : Nat, lock : Workers \cup {Nothing}]]
             /\ \A k \in Jobs : queue'[k].state = "done" =>
                  queue[k].state = "done" \/ (k = j /\ state = "done")
  BY <1>2, <1>3, <1>4
<1>5. CASE Finish(w)
  <2>1. Complete(j) /\ UNCHANGED raw
    BY <1>2, <1>5, Working DEF Finish, At
  <2>2. queue' = [queue EXCEPT ![j].state = "done", ![j].lock = Nothing] \/ queue' = queue
    BY <1>2, <1>5 DEF Finish
  <2>3. /\ queue' \in [Jobs -> [state : States, tries : Nat, lock : Workers \cup {Nothing}]]
        /\ \A k \in Jobs : queue'[k].state = "done" => queue[k].state = "done" \/ k = j
    BY <1>3, <1>4, <2>2 DEF States
  <2>4. DoneComplete' /\ RowsOnce'
    BY <2>1, <2>3, RowsGrow DEF StoreInv, DoneComplete, RowsOnce
  <2> QED
    BY <1>1, <2>1, <2>3, <2>4, LeavesStep
<1>6. CASE Fails(w)
  <2>1. queue' = queue \/ \E state \in {"waiting", "failed"} :
                            queue' = [queue EXCEPT ![j].state = state, ![j].lock = Nothing]
    BY <1>2, <1>6 DEF Fails, Retry
  <2>2. /\ queue' \in [Jobs -> [state : States, tries : Nat, lock : Workers \cup {Nothing}]]
        /\ \A k \in Jobs : queue'[k].state = "done" => queue[k].state = "done"
    BY <1>3, <1>4, <2>1 DEF States
  <2>3. raw \subseteq raw' /\ RowsOnce'
    <3>1. CASE raw' = raw
      BY <3>1 DEF StoreInv, RowsOnce
    <3>2. CASE raw' # raw
      BY <1>2, <1>6, <3>2, RowAdded DEF Fails
    <3> QED
      BY <3>1, <3>2
  <2> QED
    BY <1>1, <2>2, <2>3, LeavesStep, TablesKept
<1>7. CASE LosesLock(w)
  <2>1. UNCHANGED raw /\ queue' = [queue EXCEPT ![j].state = "waiting", ![j].lock = Nothing]
    BY <1>2, <1>7 DEF LosesLock
  <2>2. /\ queue' \in [Jobs -> [state : States, tries : Nat, lock : Workers \cup {Nothing}]]
        /\ \A k \in Jobs : queue'[k].state = "done" => queue[k].state = "done"
    BY <1>4, <2>1 DEF States
  <2>3. RowsOnce'
    BY <2>1 DEF StoreInv, RowsOnce
  <2> QED
    BY <1>1, <2>1, <2>2, <2>3, LeavesStep, TablesKept
<1> QED
  BY <1>5, <1>6, <1>7

LEMMA StoreInvStep == StoreInv /\ [Next]_vars => StoreInv'
<1> SUFFICES ASSUME StoreInv, [Next]_vars PROVE StoreInv'
  OBVIOUS
<1>1. ASSUME UNCHANGED <<raw, compliance, exec, queue>> PROVE StoreInv'
  BY <1>1 DEF StoreInv, Shape, AllFit, Fit, Sound, Complete, Present, SnapshotOf, RowsSound,
              DoneComplete, RowsOnce
<1>2. ASSUME NEW w \in Workers, Runs(w) PROVE StoreInv'
  BY <1>2, InsertStep, PlainSteps, WriteStep, EndSteps DEF Runs
<1>3. ASSUME NEW w \in Workers, Fails(w) \/ LosesLock(w) PROVE StoreInv'
  BY <1>3, EndSteps
<1> QED
  BY <1>1, <1>2, <1>3, TakeStep
     DEF Next, Writer, WriterFault, Delivers, Reading, Request, Expiry, Exporting, StoreUntouched,
         vars, storeVars

LEMMA StoreInvAlways == Spec => []StoreInv
BY StoreInvInit, StoreInvStep, PTL DEF Spec

-----------------------------------------------------------------------------

\* Whatever merges cross each other, a summary never says of a certificate what the
\* job whose stamp it carries did not find.
THEOREM SnapshotsAreCoherent == Spec => []SnapshotCoherent
<1>1. StoreInv => SnapshotCoherent
  BY DEF StoreInv, RowsSound, Sound, SnapshotCoherent, Verdict
<1> QED
  BY <1>1, StoreInvAlways, PTL

\* A job that is done, or that left its stamp, has each of its rows exactly once,
\* however often it was tried and however many executions ran it at a time.
THEOREM RowsAreBehind == Spec => []RowsBehind
<1>1. StoreInv => RowsBehind
  <2> SUFFICES ASSUME StoreInv, NEW j \in Jobs, NEW i \in DOMAIN RowsOf(j),
                      queue[j].state = "done" \/ (\E s \in Stamps :
                        compliance[s[2]] # Nothing /\ compliance[s[2]].sources[s[1]] = j)
               PROVE  Cardinality(RowsFor(j, RowsOf(j)[i])) = 1
    BY DEF RowsBehind
  <2>1. Complete(j)
    <3>1. CASE queue[j].state = "done"
      BY <3>1 DEF StoreInv, DoneComplete
    <3>2. CASE queue[j].state # "done"
      <4>1. PICK k \in SnapshotKinds, v \in Vehicles :
              compliance[v] # Nothing /\ compliance[v].sources[k] = j
        BY <3>2 DEF Stamps
      <4> QED
        BY <4>1, WorkAssumption DEF StoreInv, RowsSound, Sound
    <3> QED
      BY <3>1, <3>2
  <2>2. PICK row \in raw : row.table = Artifacts(j).table /\ row.hash = RowsOf(j)[i]
    BY <2>1 DEF Complete, Present
  <2>3. RowsFor(j, RowsOf(j)[i]) = {row}
    BY <2>2 DEF RowsFor, StoreInv, RowsOnce
  <2> QED
    BY <2>3, FS_Singleton
<1> QED
  BY <1>1, StoreInvAlways, PTL

\* A merge undoes the stamp of another kind only if it was overtaken between its read
\* and its write: without such an overlap no write loses another.
THEOREM OnlyOvertakenMergesLose == Spec => MergesKept
<1> DEFINE Kept == \A v \in Vehicles : compliance[v] # Nothing =>
                     \A k \in SnapshotKinds :
                       compliance'[v].sources[k] # compliance[v].sources[k] =>
                         \E w \in Workers : /\ At(w, "write") /\ exec'[w].at = "done" /\ Vehicle(w) = v
                                            /\ Work[exec[w].job].kind = k \/ exec[w].overtaken
<1>1. StoreInv /\ [Next]_vars => [Kept]_storeVars
  <2> SUFFICES ASSUME StoreInv, [Next]_vars, NEW v \in Vehicles, compliance[v] # Nothing,
                      NEW k \in SnapshotKinds, compliance'[v].sources[k] # compliance[v].sources[k]
               PROVE  \E w \in Workers : /\ At(w, "write") /\ exec'[w].at = "done" /\ Vehicle(w) = v
                                         /\ Work[exec[w].job].kind = k \/ exec[w].overtaken
    OBVIOUS
  <2>1. PICK w \in Workers : WriteSnapshot(w)
    BY DEF Next, Writer, WriterFault, Delivers, Reading, Request, Expiry, Exporting, StoreUntouched,
           vars, storeVars, Runs, Insert, AfterRows, Replace, ReadSnapshot, Finish, Fails, LosesLock,
           Take
  <2>2. /\ At(w, "write") /\ exec[w].at = "write" /\ Overtakes(w)
        /\ compliance' = [compliance EXCEPT ![Vehicle(w)] = Merged(exec[w].base, exec[w].job)]
    BY <2>1 DEF WriteSnapshot, Write, At
  <2>3. Vehicle(w) = v
    BY <2>2 DEF StoreInv, Shape
  <2>4. exec'[w].at = "done"
    <3>1. exec'[w] = [exec[w] EXCEPT !.at = "done"]
      BY <2>2 DEF Overtakes
    <3> QED
      BY <2>2, <3>1, Working DEF Execs
  <2>5. ASSUME ~exec[w].overtaken, Work[exec[w].job].kind # k PROVE FALSE
    <3>1. exec[w].base = compliance[v] /\ exec[w].base \in Snapshots /\ Sound(exec[w].base)
          /\ exec[w].job \in Jobs /\ Complete(exec[w].job) /\ Artifacts(exec[w].job).then = "read"
      BY <2>2, <2>3, <2>5, Working DEF Fit, SnapshotOf, Vehicle
    <3>2. compliance'[v] = Merged(exec[w].base, exec[w].job)
      BY <2>2, <2>3 DEF StoreInv, Shape
    <3> QED
      BY <2>5, <3>1, <3>2, MergeIsSound
  <2> QED
    BY <2>2, <2>3, <2>4, <2>5
<1> QED
  BY <1>1, StoreInvAlways, PTL DEF Spec, MergesKept

(***************************************************************************)
(* Types: how often a job can be tried, and what the list of recently      *)
(* written vehicles holds.                                                 *)
(***************************************************************************)

\* A row belongs to the job whose payload it is of.
LEMMA RowsAreOfTheJob ==
  ASSUME NEW j \in Jobs, NEW i \in DOMAIN RowsOf(j)
  PROVE  RowsOf(j)[i].job = j
<1> USE DEF NoArtifacts
<1> DEFINE OfJ(s) == \A k \in DOMAIN s : s[k].job = j
<1>1. Work[j].kind \in SnapshotKinds \cup {"khanan_date_range", "raw_challan_backfill",
                                           "consigner_digest", "trip_intelligence_rollup"}
  BY WorkAssumption
<1>2. OfJ(<<>>) /\ OfJ(OneRow(j))
  BY DEF OneRow, Hash
<1>3. OfJ(RecordRows(j))
  BY <1>2 DEF RecordRows, Hash
<1>4. RowsOf(j) \in {<<>>, OneRow(j), RecordRows(j)}
  <2>1. CASE Work[j].kind = "khanan_date_range"
    BY <2>1 DEF Artifacts, RowsOf, KhananRange, Rows, Summarises
  <2>2. CASE Work[j].kind = "raw_challan_backfill"
    BY <2>2 DEF Artifacts, RowsOf, ChallanBackfill, Rows
  <2>3. CASE Work[j].kind = "consigner_digest"
    BY <2>3 DEF Artifacts, RowsOf, ConsignerDigest, Rows, Summarises
  <2>4. CASE Work[j].kind = "trip_intelligence_rollup"
    BY <2>4 DEF Artifacts, RowsOf, TripRollup, Rows, Summarises
  <2>5. CASE Work[j].kind \in SnapshotKinds
    <3>1. \E table, valid : Artifacts(j) = Merges(j, table, valid)
      BY <2>5 DEF Artifacts, SnapshotKinds, Certificates, Fitness, Registration, Permit, Insurance
    <3> QED
      BY <3>1 DEF RowsOf, Merges, Rows
  <2> QED
    BY <1>1, <2>1, <2>2, <2>3, <2>4, <2>5
<1> QED
  BY <1>2, <1>3, <1>4

\* Every attempt beyond those the queue gives a job is paid for by a fault.
TriesPaid ==
  \A j \in Jobs : /\ queue[j].tries <= MaxAttempts + hiccups
                  /\ queue[j].state = "waiting" => queue[j].tries < MaxAttempts + hiccups

RowsTyped ==
  \A row \in raw : row.hash.job \in Jobs /\ row.try \in 1..(MaxAttempts + MaxFaults)

Tally ==
  /\ hiccups \in 0..MaxFaults
  /\ TriesPaid
  /\ \A w \in Workers : exec[w].at # "idle" => queue[exec[w].job].tries # 0
  /\ RowsTyped

LEMMA TallyInit == Init => Tally
<1> SUFFICES ASSUME Init PROVE Tally
  OBVIOUS
<1>1. PICK submitted \in SUBSET Jobs : StoreInit(submitted)
  BY DEF Init
<1> QED
  BY <1>1, IdleExec, StoreAssumption DEF StoreInit, Tally, TriesPaid, RowsTyped

\* The row an execution is about to insert.
LEMMA StoredTyped ==
  ASSUME StoreInv, Tally, NEW w \in Workers, exec[w].at = "rows", MoreRows(w)
  PROVE  Stored(w).hash.job \in Jobs /\ Stored(w).try \in 1..(MaxAttempts + MaxFaults)
<1>1. PICK j, n : j = exec[w].job /\ n = exec[w].next /\ j \in Jobs /\ n \in Nat \ {0}
  BY Working
<1>2. n \in DOMAIN RowsOf(j)
  BY <1>1, RowsAreListed DEF MoreRows
<1>3. Stored(w).hash.job = j
  BY <1>1, <1>2, RowsAreOfTheJob DEF Stored
<1>4. PICK t, h : t = queue[j].tries /\ h = hiccups
  OBVIOUS
<1>5. t \in Nat /\ h \in Nat /\ h <= MaxFaults /\ t # 0 /\ t <= MaxAttempts + h
  BY <1>1, <1>4, StoreAssumption DEF Tally, TriesPaid, StoreInv, Shape
<1>6. t \in 1..(MaxAttempts + MaxFaults)
  BY <1>5, StoreAssumption
<1> QED
  BY <1>1, <1>3, <1>4, <1>6 DEF Stored

\* A step that starts no attempt.
LEMMA TallyKept ==
  ASSUME StoreInv, StoreInv', Tally, hiccups' \in 0..MaxFaults, hiccups <= hiccups',
         \A j \in Jobs :
           /\ queue'[j].tries = queue[j].tries
           /\ queue'[j].state = "waiting" =>
                \/ queue[j].state = "waiting"
                \/ hiccups < hiccups',
         \A w \in Workers : exec'[w].at # "idle" =>
           exec[w].at # "idle" /\ exec'[w].job = exec[w].job,
         \A row \in raw' \ raw : \E w \in Workers :
           exec[w].at = "rows" /\ MoreRows(w) /\ row = Stored(w)
  PROVE  Tally'
<1>1. hiccups \in Nat /\ hiccups' \in Nat
  BY StoreAssumption DEF Tally
<1>2. TriesPaid'
  <2> SUFFICES ASSUME NEW j \in Jobs
      PROVE  /\ queue'[j].tries <= MaxAttempts + hiccups'
             /\ queue'[j].state = "waiting" => queue'[j].tries < MaxAttempts + hiccups'
    BY DEF TriesPaid
  <2>1. PICK t \in Nat : t = queue[j].tries /\ t = queue'[j].tries
    BY DEF StoreInv, Shape
  <2>2. t <= MaxAttempts + hiccups /\ (queue[j].state = "waiting" => t < MaxAttempts + hiccups)
    BY <2>1 DEF Tally, TriesPaid
  <2> QED
    BY <1>1, <2>1, <2>2, StoreAssumption
<1>3. \A w \in Workers : exec'[w].at # "idle" => queue'[exec'[w].job].tries # 0
  BY Working DEF Tally
<1>4. RowsTyped'
  BY StoredTyped DEF RowsTyped, Tally
<1> QED
  BY <1>2, <1>3, <1>4 DEF Tally

LEMMA TallyTake ==
  ASSUME StoreInv, StoreInv', Tally, NEW w \in Workers, NEW j \in Jobs, Take(w, j)
  PROVE  Tally'
<1>1. UNCHANGED <<raw, hiccups>> /\ queue[j].state = "waiting" /\ hiccups \in Nat
  BY StoreAssumption DEF Take, NoFault, Tally
<1>2. PICK t \in Nat : t = queue[j].tries
  BY DEF StoreInv, Shape
<1>3. PICK new : new = [state |-> "active", tries |-> t + 1, lock |-> w]
  OBVIOUS
<1>4. queue' = [queue EXCEPT ![j] = new] /\ new.state = "active" /\ new.tries = t + 1
  BY <1>2, <1>3 DEF Take
<1>5. queue'[j] = new /\ \A k \in Jobs \ {j} : queue'[k] = queue[k]
  BY <1>4 DEF StoreInv, Shape
<1>6. TriesPaid'
  <2>1. t < MaxAttempts + hiccups
    BY <1>1, <1>2 DEF Tally, TriesPaid
  <2>2. t + 1 <= MaxAttempts + hiccups
    BY <1>1, <2>1, StoreAssumption
  <2> QED
    BY <1>1, <1>4, <1>5, <2>2 DEF Tally, TriesPaid
<1>7. ASSUME NEW u \in Workers, exec'[u].at # "idle" PROVE queue'[exec'[u].job].tries # 0
  <2>1. PICK e : e = [Idle EXCEPT !.at = "rows", !.job = j]
    OBVIOUS
  <2>2. exec' = [exec EXCEPT ![w] = e] /\ e.job = j
    BY <2>1 DEF Take, Idle
  <2>3. CASE u = w
    BY <1>2, <1>4, <1>5, <2>2, <2>3 DEF StoreInv, Shape
  <2>4. CASE u # w
    <3>1. exec'[u] = exec[u]
      BY <2>2, <2>4 DEF StoreInv, Shape
    <3>2. queue[exec[u].job].tries # 0 /\ exec[u].job \in Jobs
      BY <1>7, <3>1, Working DEF Tally
    <3> QED
      BY <1>2, <1>4, <1>5, <3>1, <3>2
  <2> QED
    BY <2>3, <2>4
<1> QED
  BY <1>1, <1>6, <1>7 DEF Tally, RowsTyped

\* The job of an execution is the same until it is left.
LEMMA SameJob ==
  ASSUME StoreInv, NEW w \in Workers, Runs(w) \/ Fails(w) \/ LosesLock(w),
         NEW u \in Workers, exec'[u].at # "idle"
  PROVE  exec[u].at # "idle" /\ exec'[u].job = exec[u].job
<1>1. exec[w].at # "idle"
  BY DEF Runs, Insert, AfterRows, Replace, ReadSnapshot, WriteSnapshot, Write, Finish, Fails,
         LosesLock, At
<1>2. exec \in [Workers -> Execs] /\ exec[u] \in Execs /\ exec[w] \in Execs
  BY DEF StoreInv, Shape
<1>3. PICK e, f : e = exec[w] /\ e \in Execs /\ f = exec[u] /\ f \in Execs
  BY <1>2
<1>4. CASE exec' = [exec EXCEPT ![w] = Idle] \/ exec' = exec
  <2>1. u # w \/ exec' = exec
    BY <1>2, <1>4, IdleExec
  <2> QED
    BY <1>1, <1>2, <1>4, <2>1
<1>5. CASE Insert(w)
  <2>1. PICK g : g = [e EXCEPT !.next = @ + 1]
    OBVIOUS
  <2>2. g.job = e.job /\ exec' = [exec EXCEPT ![w] = g]
    BY <1>3, <1>5, <2>1 DEF Insert, NextRow, Execs
  <2> QED
    BY <1>1, <1>2, <1>3, <2>2
<1>6. ASSUME NEW step, Goes(w, step) PROVE exec[u].at # "idle" /\ exec'[u].job = exec[u].job
  <2>1. PICK g : g = [e EXCEPT !.at = step]
    OBVIOUS
  <2>2. g.job = e.job /\ exec' = [exec EXCEPT ![w] = g]
    BY <1>3, <1>6, <2>1 DEF Goes, Execs
  <2> QED
    BY <1>1, <1>2, <1>3, <2>2
<1>7. CASE ReadSnapshot(w)
  <2>1. PICK s : s = SnapshotOf(Vehicle(w))
    OBVIOUS
  <2>2. PICK g : g = [e EXCEPT !.at = "write", !.base = s]
    OBVIOUS
  <2>3. g.job = e.job /\ exec' = [exec EXCEPT ![w] = g]
    BY <1>3, <1>7, <2>1, <2>2 DEF ReadSnapshot, Execs
  <2> QED
    BY <1>1, <1>2, <1>3, <2>3
<1>8. CASE Overtakes(w)
  <2>1. [e EXCEPT !.at = "done"].job = e.job /\ [f EXCEPT !.overtaken = TRUE].job = f.job
        /\ [f EXCEPT !.overtaken = TRUE].at = f.at
    BY <1>3 DEF Execs
  <2>2. exec'[u].job = f.job
    BY <1>3, <1>8, <2>1 DEF Overtakes
  <2>3. f.at # "idle"
    BY <1>1, <1>3, <1>8, <2>1 DEF Overtakes, At
  <2> QED
    BY <1>3, <2>2, <2>3
<1> QED
  BY <1>4, <1>5, <1>6, <1>7, <1>8
     DEF Runs, AfterRows, Replace, WriteSnapshot, Write, Finish, Fails, LosesLock, Leaves

LEMMA TallyWork ==
  ASSUME StoreInv, StoreInv', Tally, NEW w \in Workers, Runs(w) \/ Fails(w) \/ LosesLock(w)
  PROVE  Tally'
<1>1. hiccups \in Nat /\ MaxFaults \in Nat
  BY StoreAssumption DEF Tally
<1>2. /\ hiccups' \in 0..MaxFaults /\ hiccups <= hiccups'
      /\ ~Runs(w) => hiccups < hiccups'
  <2>1. CASE Runs(w)
    <3>1. hiccups' = hiccups
      BY <2>1 DEF Runs, Insert, AfterRows, Replace, ReadSnapshot, WriteSnapshot, Write, Finish,
                  NoFault
    <3> QED
      BY <1>1, <2>1, <3>1 DEF Tally
  <2>2. CASE Fails(w) \/ LosesLock(w)
    BY <1>1, <2>2 DEF Fails, LosesLock, Fault
  <2> QED
    BY <2>1, <2>2
<1>3. PICK j : j = exec[w].job /\ j \in Jobs
  BY Working DEF Runs, Insert, AfterRows, Replace, ReadSnapshot, WriteSnapshot, Write, Finish, Fails,
                 LosesLock, At
<1>4. ASSUME NEW k \in Jobs
      PROVE  /\ queue'[k].tries = queue[k].tries
             /\ queue'[k].state = "waiting" => queue[k].state = "waiting" \/ hiccups < hiccups'
  <2>1. queue \in [Jobs -> [state : States, tries : Nat, lock : Workers \cup {Nothing}]]
    BY DEF StoreInv, Shape
  <2>2. ASSUME NEW state, queue' = [queue EXCEPT ![j].state = state, ![j].lock = Nothing]
        PROVE  /\ queue'[k].tries = queue[k].tries
               /\ queue'[k].state = queue[k].state \/ queue'[k].state = state
    BY <1>3, <2>1, <2>2
  <2>3. CASE queue' = queue
    BY <2>3
  <2>4. CASE Finish(w) /\ queue' # queue
    <3>1. queue' = [queue EXCEPT ![j].state = "done", ![j].lock = Nothing]
      BY <1>3, <2>4 DEF Finish
    <3> QED
      BY <2>2, <3>1
  <2>5. CASE ~Runs(w) /\ queue' # queue
    <3>1. PICK state : queue' = [queue EXCEPT ![j].state = state, ![j].lock = Nothing]
      <4>1. CASE Fails(w)
        <5>1. PICK state : state = IF queue[j].tries < MaxAttempts THEN "waiting" ELSE "failed"
          OBVIOUS
        <5>2. queue' = [queue EXCEPT ![j].lock = Nothing, ![j].state = state]
          BY <1>3, <2>5, <4>1, <5>1 DEF Fails, Retry
        <5>3. queue' = [queue EXCEPT ![j].state = state, ![j].lock = Nothing]
          BY <1>3, <2>1, <5>2
        <5> QED
          BY <5>3
      <4>2. CASE LosesLock(w)
        BY <1>3, <4>2 DEF LosesLock
      <4> QED
        BY <2>5, <4>1, <4>2
    <3> QED
      BY <1>2, <2>2, <2>5, <3>1
  <2>6. queue' = queue \/ Finish(w) \/ ~Runs(w)
    BY DEF Runs, Insert, AfterRows, Replace, ReadSnapshot, WriteSnapshot, Write
  <2> QED
    BY <2>3, <2>4, <2>5, <2>6
<1>5. \A row \in raw' \ raw : \E u \in Workers :
        exec[u].at = "rows" /\ MoreRows(u) /\ row = Stored(u)
  BY DEF Runs, Insert, AfterRows, Replace, ReadSnapshot, WriteSnapshot, Write, Finish, Fails,
         LosesLock, At
<1> QED
  BY <1>2, <1>4, <1>5, SameJob, TallyKept

-----------------------------------------------------------------------------
(* The vehicles, last written first: each one once, and none goes forward  *)
(* unless it is written.                                                   *)

Distinct(s) == \A i, k \in 1..Len(s) : s[i] = s[k] => i = k
Among(v, s) == \E i \in 1..Len(s) : s[i] = v

LEMMA TouchesMoves ==
  ASSUME recent \in Seq(Vehicles), Distinct(recent), NEW v \in Vehicles, Touches(v)
  PROVE  /\ recent' \in Seq(Vehicles) /\ Distinct(recent')
         /\ Len(recent) <= Len(recent') /\ Among(v, recent')
         /\ \A i \in 1..Len(recent) : recent[i] # v =>
              \E k \in 1..Len(recent') : i <= k /\ recent'[k] = recent[i]
         /\ \A k \in 1..Len(recent') : recent'[k] # v => Among(recent'[k], recent)
<1>1. PICK n \in Nat : n = Len(recent) /\ DOMAIN recent = 1..n
  BY LenProperties
<1>2. PICK from \in 1..(n + 1) :
        /\ IF from <= n THEN recent[from] = v ELSE \A i \in 1..n : recent[i] # v
        /\ recent' = [i \in 1..n \cup {from} |->
                        IF i = 1 THEN v ELSE IF i <= from THEN recent[i - 1] ELSE recent[i]]
  BY <1>1 DEF Touches
<1>3. PICK m \in Nat : m = (IF from <= n THEN n ELSE n + 1) /\ 1..n \cup {from} = 1..m
  BY <1>1, <1>2
<1>4. /\ from \in 1..m /\ n <= m /\ (m # n => m = n + 1 /\ from = m)
      /\ recent' = [i \in 1..m |->
                      IF i = 1 THEN v ELSE IF i <= from THEN recent[i - 1] ELSE recent[i]]
  BY <1>1, <1>2, <1>3
<1>5. /\ recent'[1] = v
      /\ \A i \in 2..from : recent'[i] = recent[i - 1] /\ i - 1 \in 1..n
      /\ \A i \in (from + 1)..m : recent'[i] = recent[i] /\ i \in 1..n
  BY <1>1, <1>2, <1>4
<1>6. \A i \in 1..n : recent[i] \in Vehicles
  BY <1>1, ElementOfSeq
<1>7. \A i \in 1..m : recent'[i] \in Vehicles
  BY <1>1, <1>4, <1>5, <1>6
<1>8. recent' \in Seq(Vehicles) /\ Len(recent') = m
  <2>1. recent' \in [1..m -> Vehicles]
    BY <1>4, <1>7
  <2> QED
    BY <1>1, <1>3, <2>1
<1>9. \A i \in 1..n : recent[i] = v <=> (i = from)
  <2>1. CASE from <= n
    BY <1>1, <1>2, <2>1 DEF Distinct
  <2>2. CASE ~(from <= n)
    BY <1>1, <1>2, <2>2
  <2> QED
    BY <2>1, <2>2
<1>10. \A k \in 2..m : /\ recent'[k] # v
                       /\ \/ k <= from /\ recent'[k] = recent[k - 1] /\ k - 1 \in 1..n
                          \/ from < k /\ recent'[k] = recent[k] /\ k \in 1..n
  BY <1>1, <1>3, <1>4, <1>5, <1>9
<1>11. Distinct(recent')
  <2> SUFFICES ASSUME NEW i \in 1..m, NEW k \in 1..m, recent'[i] = recent'[k] PROVE i = k
    BY <1>8 DEF Distinct
  <2>0. \A x \in 1..m : x = 1 \/ x \in 2..m
    BY <1>3
  <2>1. CASE i = 1 \/ k = 1
    BY <1>5, <1>10, <2>0, <2>1
  <2>2. CASE i \in 2..m /\ k \in 2..m
    <3>1. PICK a \in 1..n : recent'[i] = recent[a] /\ ((i <= from /\ a = i - 1) \/ (from < i /\ a = i))
      BY <1>10, <2>2
    <3>2. PICK b \in 1..n : recent'[k] = recent[b] /\ ((k <= from /\ b = k - 1) \/ (from < k /\ b = k))
      BY <1>10, <2>2
    <3>3. a = b
      BY <1>1, <3>1, <3>2 DEF Distinct
    <3>4. a # from
      BY <1>9, <1>10, <2>2, <3>1
    <3> QED
      BY <1>2, <2>2, <3>1, <3>2, <3>3, <3>4
  <2> QED
    BY <2>0, <2>1, <2>2
<1>12. ASSUME NEW i \in 1..n, recent[i] # v
       PROVE  \E k \in 1..m : i <= k /\ recent'[k] = recent[i]
  <2>1. CASE i < from
    <3>1. PICK k \in 2..from : k \in 1..m /\ k - 1 = i /\ i <= k
      BY <1>1, <1>4, <2>1
    <3>2. recent'[k] = recent[i]
      BY <1>5, <3>1
    <3> QED
      BY <3>1, <3>2
  <2>2. CASE from < i
    <3>1. i \in (from + 1)..m /\ i \in 1..m
      BY <1>1, <1>4, <2>2
    <3> QED
      BY <1>5, <3>1
  <2>3. i # from
    BY <1>9, <1>12
  <2>4. i \in Nat /\ from \in Nat
    BY <1>1, <1>2
  <2> QED
    BY <2>1, <2>2, <2>3, <2>4
<1>13. ASSUME NEW k \in 1..m, recent'[k] # v PROVE Among(recent'[k], recent)
  <2>1. k \in 2..m
    BY <1>5, <1>13
  <2> QED
    BY <1>1, <1>10, <2>1 DEF Among
<1>14. Among(v, recent')
  <2>1. 1 \in 1..m
    BY <1>4
  <2> QED
    BY <1>5, <1>8, <2>1 DEF Among
<1> QED
  BY <1>1, <1>4, <1>8, <1>11, <1>12, <1>13, <1>14

\* The list is of the vehicles that have a summary, and a summary is of the kind last merged.
Recency ==
  /\ recent \in Seq(Vehicles) /\ Distinct(recent)
  /\ \A v \in Vehicles : compliance[v] # Nothing <=> Among(v, recent)
  /\ \A v \in Vehicles : compliance[v] # Nothing => compliance[v].last \in SnapshotKinds

LEMMA RecencyInit == Init => Recency
BY DEF Init, StoreInit, Recency, Distinct, Among

LEMMA VerdictsAreTruths == \A j \in Jobs : Verdict(j) \in BOOLEAN
BY DEF Verdict

\* A merged snapshot is a row.
LEMMA MergedIsARow ==
  ASSUME NEW s \in Snapshots, NEW j \in Jobs, Work[j].kind \in SnapshotKinds,
         Merged(s, j) \in Snapshots
  PROVE  Merged(s, j) # Nothing /\ Merged(s, j).last \in SnapshotKinds
<1>1. PICK m : m = Merged(s, j) /\ m \in Snapshots
  OBVIOUS
<1>2. m.last \in SnapshotKinds
  BY <1>1 DEF Merged
<1>3. m.valid \in [Certificates -> BOOLEAN \cup {Nothing}]
  <2>1. Verdicts \subseteq BOOLEAN \cup {Nothing}
    BY VerdictsAreTruths DEF Verdicts
  <2> QED
    BY <1>1, <2>1 DEF Snapshots
<1>4. m \in [sources : [SnapshotKinds -> Jobs \cup {Nothing}],
             valid : [Certificates -> BOOLEAN \cup {Nothing}],
             last : SnapshotKinds]
  BY <1>1, <1>2, <1>3 DEF Snapshots
<1> QED
  BY <1>1, <1>2, <1>4, SnapshotAssumption

\* Nobody but the merge that is written touches the list or the summaries.
LEMMA WrittenOrNot ==
  [Next]_vars => \/ UNCHANGED <<compliance, recent>>
                 \/ \E w \in Workers : WriteSnapshot(w) /\ Watched
BY DEF Next, Writer, WriterFault, Delivers, Reading, Request, Expiry, Exporting, StoreUntouched,
       vars, storeVars, Runs, Insert, AfterRows, Replace, ReadSnapshot, Finish, Fails, LosesLock,
       Take

\* What a written merge does to them.
LEMMA WriteTouches ==
  ASSUME StoreInv, NEW w \in Workers, WriteSnapshot(w)
  PROVE  \E v \in Vehicles, m \in Snapshots :
           /\ v = Vehicle(w) /\ Touches(v) /\ compliance' = [compliance EXCEPT ![v] = m]
           /\ m # Nothing /\ m.last \in SnapshotKinds
           /\ At(w, "write") /\ exec'[w].at = "done"
<1>1. PICK j, b : j = exec[w].job /\ b = exec[w].base
  OBVIOUS
<1>2. PICK m : m = Merged(b, j)
  OBVIOUS
<1>3. /\ exec[w].at = "write" /\ At(w, "write") /\ Vehicle(w) = Work[j].key /\ Touches(Vehicle(w))
      /\ compliance' = [compliance EXCEPT ![Vehicle(w)] = m] /\ Overtakes(w)
  BY <1>1, <1>2 DEF WriteSnapshot, Write, At, Vehicle
<1>4. /\ exec[w] \in Execs /\ j \in Jobs /\ b \in Snapshots /\ Sound(b) /\ Complete(j)
      /\ Artifacts(j).then = "read" /\ Work[j].key \in Vehicles /\ Work[j].kind \in SnapshotKinds
  BY <1>1, <1>3, Working, MergingKinds DEF Fit
<1>5. m \in Snapshots /\ m # Nothing /\ m.last \in SnapshotKinds
  BY <1>2, <1>4, MergeIsSound, MergedIsARow
<1>6. exec'[w].at = "done"
  <2>1. exec'[w] = [exec[w] EXCEPT !.at = "done"]
    BY <1>3 DEF Overtakes
  <2> QED
    BY <1>4, <2>1 DEF Execs
<1> QED
  BY <1>3, <1>4, <1>5, <1>6

LEMMA RecencyStep == StoreInv /\ Recency /\ [Next]_vars => Recency'
<1> SUFFICES ASSUME StoreInv, Recency, [Next]_vars PROVE Recency'
  OBVIOUS
<1>1. CASE UNCHANGED <<compliance, recent>>
  BY <1>1 DEF Recency, Distinct, Among
<1>2. ASSUME NEW w \in Workers, WriteSnapshot(w) PROVE Recency'
  <2>1. PICK v \in Vehicles, m \in Snapshots :
          /\ Touches(v) /\ compliance' = [compliance EXCEPT ![v] = m]
          /\ m # Nothing /\ m.last \in SnapshotKinds
    BY <1>2, WriteTouches
  <2>2. compliance'[v] = m /\ \A u \in Vehicles \ {v} : compliance'[u] = compliance[u]
    BY <2>1 DEF StoreInv, Shape
  <2>3. /\ recent' \in Seq(Vehicles) /\ Distinct(recent') /\ Among(v, recent')
        /\ \A i \in 1..Len(recent) : recent[i] # v =>
             \E k \in 1..Len(recent') : i <= k /\ recent'[k] = recent[i]
        /\ \A k \in 1..Len(recent') : recent'[k] # v => Among(recent'[k], recent)
    BY <2>1, TouchesMoves DEF Recency
  <2>4. ASSUME NEW u \in Vehicles \ {v} PROVE Among(u, recent) <=> Among(u, recent')
    <3>1. ASSUME Among(u, recent) PROVE Among(u, recent')
      <4>1. PICK i \in 1..Len(recent) : recent[i] = u
        BY <3>1 DEF Among
      <4> QED
        BY <2>3, <4>1 DEF Among
    <3>2. ASSUME Among(u, recent') PROVE Among(u, recent)
      <4>1. PICK k \in 1..Len(recent') : recent'[k] = u
        BY <3>2 DEF Among
      <4> QED
        BY <2>3, <4>1
    <3> QED
      BY <3>1, <3>2
  <2>5. \A u \in Vehicles : compliance'[u] # Nothing <=> Among(u, recent')
    BY <2>1, <2>2, <2>3, <2>4 DEF Recency
  <2>6. \A u \in Vehicles : compliance'[u] # Nothing => compliance'[u].last \in SnapshotKinds
    BY <2>1, <2>2 DEF Recency
  <2> QED
    BY <2>3, <2>5, <2>6 DEF Recency, Distinct, Among
<1> QED
  BY <1>1, <1>2, WrittenOrNot

-----------------------------------------------------------------------------
(* The readers, and the types as a whole.                                  *)

Summaries == {NotFound, Unavailable} \cup [status : {"ok"}, snapshot : Snapshots]
Requests == [at : {"idle", "query", "cache"}, vehicle : Vehicles \cup {Nothing}, holds : Summaries]
Sensible(request) == request.at # "idle" => request.vehicle \in Vehicles

Exports == [at : {"off", "reading", "done", "cut"}, skip : Nat, rows : Seq(Vehicles),
            all : SUBSET Vehicles]

Reads ==
  /\ reader \in [Readers -> Requests]
  /\ \A r \in Readers : Sensible(reader[r])
  /\ export \in Exports

LEMMA ReadsStart == Init => Reads
BY EmptySeq DEF Init, ReadsInit, Reads, Requests, Resting, Summaries, Sensible, Exports

\* One chunk: what it takes from the list, and when it is the last one.
LEMMA ChunkRead ==
  ASSUME recent \in Seq(Vehicles), Reads, ExportReads
  PROVE  \E take \in Int, size \in Nat, chunk \in Seq(Vehicles) :
           /\ take = Lowest(ChunkSize, ExportCap - export.skip)
           /\ size = Len(chunk)
           /\ \A i \in 1..size : export.skip + i \in 1..Len(recent) /\ chunk[i] = recent[export.skip + i]
           /\ take <= size \/ Len(recent) <= export.skip + size
           /\ size <= take \/ size = 0
           /\ export' = [at |-> IF size < take \/ export.skip + size >= ExportCap
                               THEN "done" ELSE "reading",
                         skip |-> export.skip + size, rows |-> export.rows \o chunk,
                         all |-> export.all]
<1>1. PICK n \in Nat, s \in Nat : n = Len(recent) /\ s = export.skip
  BY LenProperties DEF Reads, Exports
<1>2. PICK take \in Int, last \in Int :
        /\ take = Lowest(ChunkSize, ExportCap - s) /\ last = Lowest(n, s + take)
  <2>1. \A a, b \in Int : Lowest(a, b) \in Int
    BY DEF Lowest
  <2>2. PICK take \in Int : take = Lowest(ChunkSize, ExportCap - s)
    BY <2>1, ReadsAssumption
  <2>3. Lowest(n, s + take) \in Int
    BY <2>1
  <2> QED
    BY <2>2, <2>3
<1>3. last <= n /\ last <= s + take /\ (last = n \/ last = s + take)
  BY <1>1, <1>2 DEF Lowest
<1>4. PICK chunk : chunk = SubSeq(recent, s + 1, last)
  OBVIOUS
<1>5. PICK m \in Nat : m = s + 1
  BY <1>1
<1>6. /\ chunk \in Seq(Vehicles)
      /\ Len(chunk) = IF m <= last THEN last - m + 1 ELSE 0
      /\ \A i \in 1..(last - m + 1) : chunk[i] = recent[m + i - 1]
  <2>1. \A i \in m..last : i \in 1..n
    BY <1>1, <1>2, <1>3, <1>5
  <2>2. \A i \in m..last : recent[i] \in Vehicles
    BY <1>1, <2>1, ElementOfSeq
  <2>3. m \in Int /\ last \in Int
    BY <1>2, <1>5
  <2>4. /\ SubSeq(recent, m, last) \in Seq(Vehicles)
        /\ Len(SubSeq(recent, m, last)) = IF m <= last THEN last - m + 1 ELSE 0
        /\ \A i \in 1..(last - m + 1) : SubSeq(recent, m, last)[i] = recent[m + i - 1]
    BY <2>2, <2>3, SubSeqProperties
  <2>5. chunk = SubSeq(recent, m, last)
    BY <1>4, <1>5
  <2> QED
    BY <2>4, <2>5
<1>7. PICK size \in Nat :
        /\ size = Len(chunk)
        /\ \A i \in 1..size : s + i \in 1..n /\ chunk[i] = recent[s + i]
        /\ take <= size \/ n <= s + size
        /\ size <= take \/ size = 0
  <2>0. s \in Nat /\ n \in Nat /\ m \in Nat /\ take \in Int /\ last \in Int
    OBVIOUS
  <2>1. PICK size \in Nat : size = Len(chunk)
    BY <1>6, LenProperties
  <2>2. (m <= last /\ size = last - m + 1) \/ (last < m /\ size = 0)
    BY <1>2, <1>5, <1>6, <2>1
  <2>3. ASSUME NEW i \in 1..size PROVE s + i \in 1..n /\ chunk[i] = recent[s + i]
    <3>0. m <= last /\ size = last - m + 1 /\ i \in Nat /\ 1 <= i
      BY <2>2, <2>3
    <3>1. i \in 1..(last - m + 1) /\ m + i - 1 = s + i /\ s + i \in 1..n
      BY <2>0, <1>3, <1>5, <2>3, <3>0
    <3>2. chunk[i] = recent[m + i - 1]
      BY <1>6, <3>1
    <3> QED
      BY <3>1, <3>2
  <2>4. (take <= size \/ n <= s + size) /\ (size <= take \/ size = 0)
    <3>1. CASE m <= last /\ size = last - m + 1
      BY <2>0, <1>3, <1>5, <3>1
    <3>2. CASE last < m /\ size = 0
      BY <2>0, <1>3, <1>5, <3>2
    <3> QED
      BY <2>2, <3>1, <3>2
  <2> QED
    BY <2>1, <2>3, <2>4
<1>8. PICK x, rows, at : /\ x = export /\ x \in Exports /\ rows = x.rows \o chunk
                         /\ at = IF size < take \/ s + size >= ExportCap THEN "done" ELSE "reading"
  BY DEF Reads
<1>9. x.at = "reading"
  BY <1>8 DEF ExportReads
<1>10. export' = [x EXCEPT !.rows = rows, !.skip = s + size, !.at = at]
  <2>1. export' = [x EXCEPT !.rows = @ \o chunk, !.skip = s + size,
                            !.at = IF size < take \/ s + size >= ExportCap THEN "done" ELSE @]
    BY <1>1, <1>2, <1>4, <1>7, <1>8 DEF ExportReads, Chunk
  <2> QED
    BY <1>8, <1>9, <2>1 DEF Exports
<1>11. export' = [at |-> at, skip |-> s + size, rows |-> rows, all |-> x.all]
  BY <1>8, <1>10 DEF Exports
<1> QED
  BY <1>1, <1>2, <1>6, <1>7, <1>8, <1>11

LEMMA RestingRequest == Resting \in Requests /\ Sensible(Resting)
BY DEF Resting, Requests, Summaries, Sensible

\* One request moves on.
LEMMA RequestMoves ==
  ASSUME Reads, NEW r \in Readers, NEW e \in Requests, Sensible(e),
         reader' = [reader EXCEPT ![r] = e], UNCHANGED export
  PROVE  Reads'
<1>1. reader'[r] = e /\ \A q \in Readers \ {r} : reader'[q] = reader[q]
  BY DEF Reads
<1>2. \A q \in Readers : Sensible(reader[q])'
  BY <1>1 DEF Reads, Sensible
<1> QED
  BY <1>2 DEF Reads

LEMMA ReadsStep ==
  ASSUME StoreInv, Recency, Reads, [Next]_vars
  PROVE  Reads'
<1>1. CASE UNCHANGED <<reader, export>>
  BY <1>1 DEF Reads, Sensible
<1>2. ASSUME NEW r \in Readers, Answered(r), UNCHANGED export PROVE Reads'
  BY <1>2, RestingRequest, RequestMoves DEF Answered
<1>3. ASSUME NEW r \in Readers, NEW v \in Vehicles, Asks(r, v) PROVE Reads'
  <2>1. PICK old : old = reader[r] /\ old \in Requests
    BY DEF Reads
  <2>2. PICK e : e = [old EXCEPT !.at = "query", !.vehicle = v]
    OBVIOUS
  <2>3. e \in Requests /\ e.vehicle = v /\ reader' = [reader EXCEPT ![r] = e]
    BY <1>3, <2>1, <2>2 DEF Asks, Requests, Reads
  <2> QED
    BY <1>3, <2>3, RequestMoves DEF Asks, Sensible
<1>4. ASSUME NEW r \in Readers, Queries(r) PROVE Reads'
  <2>1. PICK old, s : old = reader[r] /\ old \in Requests /\ s = Summary(old.vehicle)
                      /\ old.vehicle \in Vehicles
    BY <1>4 DEF Reads, Sensible, Queries
  <2>2. s \in Summaries
    BY <2>1 DEF Summary, Summaries, StoreInv, Shape
  <2>3. PICK e : e = [old EXCEPT !.at = "cache", !.holds = s]
    OBVIOUS
  <2>4. e \in Requests /\ e.vehicle = old.vehicle
    BY <2>1, <2>2, <2>3 DEF Requests
  <2>5. Answered(r) \/ reader' = [reader EXCEPT ![r] = e]
    BY <1>4, <2>1, <2>3 DEF Queries, Reads
  <2> QED
    BY <1>2, <1>4, <2>1, <2>4, <2>5, RequestMoves DEF Queries, Sensible
<1>5. CASE Exporting
  <2>1. reader' = reader
    BY <1>5 DEF Exporting, ExportStarts, ExportReads, ExportBreaks
  <2>2. CASE ExportStarts
    BY <2>1, <2>2, EmptySeq DEF ExportStarts, Reads, Sensible, Exports
  <2>3. CASE ExportReads
    <3>1. PICK size \in Nat, chunk \in Seq(Vehicles), at \in {"reading", "done"} :
            export' = [at |-> at, skip |-> export.skip + size, rows |-> export.rows \o chunk,
                       all |-> export.all]
      BY <2>3, ChunkRead DEF Recency
    <3>2. export.rows \o chunk \in Seq(Vehicles)
      BY ConcatProperties DEF Reads, Exports
    <3>3. export' \in Exports
      BY <3>1, <3>2 DEF Reads, Exports
    <3> QED
      BY <2>1, <3>3 DEF Reads, Sensible
  <2>4. CASE ExportBreaks
    BY <2>1, <2>4 DEF ExportBreaks, Reads, Sensible, Exports
  <2> QED
    BY <1>5, <2>2, <2>3, <2>4 DEF Exporting
<1>6. \/ UNCHANGED <<reader, export>>
      \/ Exporting
      \/ \E r \in Readers : Queries(r) \/ (Answered(r) /\ UNCHANGED export)
                            \/ \E v \in Vehicles : Asks(r, v)
  BY DEF Next, Writer, WriterFault, Delivers, Reading, Request, Expiry, Expires, Caches, vars,
         readVars
<1> QED
  BY <1>1, <1>2, <1>3, <1>4, <1>5, <1>6

TypedInv == StoreInv /\ Tally /\ Recency /\ Reads

LEMMA TypedInvAlways == Spec => []TypedInv
<1>1. Init => TypedInv
  BY StoreInvInit, TallyInit, RecencyInit, ReadsStart DEF TypedInv
<1>2. TypedInv /\ [Next]_vars => TypedInv'
  <2> SUFFICES ASSUME TypedInv, [Next]_vars PROVE TypedInv'
    OBVIOUS
  <2>1. StoreInv'
    BY StoreInvStep DEF TypedInv
  <2>2. Recency' /\ Reads'
    BY RecencyStep, ReadsStep DEF TypedInv
  <2>3. Tally'
    <3>1. CASE \E w \in Workers : Runs(w) \/ Fails(w) \/ LosesLock(w)
      BY <2>1, <3>1, TallyWork DEF TypedInv
    <3>2. CASE \E w \in Workers, j \in Jobs : Take(w, j)
      BY <2>1, <3>2, TallyTake DEF TypedInv
    <3>3. CASE UNCHANGED <<raw, exec, queue>> /\ (NoFault \/ Fault)
      <4>1. hiccups \in Nat /\ hiccups <= hiccups' /\ hiccups' \in 0..MaxFaults
        BY <3>3, StoreAssumption DEF NoFault, Fault, TypedInv, Tally
      <4> QED
        BY <2>1, <3>3, <4>1, TallyKept DEF TypedInv
    <3> QED
      BY <3>1, <3>2, <3>3
         DEF Next, Writer, WriterFault, Delivers, Reading, Request, Expiry, Exporting,
             StoreUntouched, Asks, Queries, Caches, Expires, ExportStarts, ExportReads,
             ExportBreaks, NoFault, vars, storeVars
  <2> QED
    BY <2>1, <2>2, <2>3 DEF TypedInv
<1> QED
  BY <1>1, <1>2, PTL DEF Spec

\* A job is tried at most as often as the queue says and the faults make it; the list of
\* recently written vehicles holds each vehicle with a summary, once.
THEOREM ComplianceIsTyped == Spec => []TypeOK
<1>1. TypedInv => TypeOK
  <2> SUFFICES ASSUME TypedInv PROVE TypeOK
    OBVIOUS
  <2> DEFINE there == {v \in Vehicles : compliance[v] # Nothing}
             listed == {recent[i] : i \in DOMAIN recent}
  <2>1. PICK n \in Nat : n = Len(recent) /\ DOMAIN recent = 1..n /\ recent \in [1..n -> Vehicles]
    BY LenProperties DEF TypedInv, Recency
  <2>2. listed = there
    BY <2>1 DEF TypedInv, Recency, Among
  <2>3. n = Cardinality(listed)
    <3>1. recent \in [1..n -> listed]
      BY <2>1
    <3>2. \A i, k \in 1..n : recent[i] = recent[k] => i = k
      BY <2>1 DEF TypedInv, Recency, Distinct
    <3>3. \A v \in listed : \E i \in 1..n : recent[i] = v
      BY <2>1
    <3> HIDE DEF listed
    <3>4. recent \in Bijection(1..n, listed)
      BY <3>1, <3>2, <3>3 DEF Bijection, Injection, Surjection, IsInjective
    <3> QED
      BY <3>4, FS_CountingElements DEF ExistsBijection
  <2>4. \A row \in raw : row.hash.job \in Jobs /\ row.try \in 1..(MaxAttempts + MaxFaults)
    BY DEF TypedInv, Tally, RowsTyped
  <2>5. \A v \in Vehicles : compliance[v] # Nothing => compliance[v].last \in SnapshotKinds
    BY DEF TypedInv, Recency
  <2>6. \A w \in Workers : exec[w].at \in Steps
    BY DEF TypedInv, StoreInv, Shape, Execs
  <2>7. \A j \in Jobs : queue[j].state \in States
    BY DEF TypedInv, StoreInv, Shape
  <2>8. hiccups \in 0..MaxFaults
    BY DEF TypedInv, Tally
  <2>9. /\ \A r \in Readers : reader[r].at \in {"idle", "query", "cache"}
        /\ export.at \in {"off", "reading", "done", "cut"}
    BY DEF TypedInv, Reads, Requests, Exports
  <2> QED
    BY <2>1, <2>2, <2>3, <2>4, <2>5, <2>6, <2>7, <2>8, <2>9 DEF TypeOK, Steps, States
<1> QED
  BY <1>1, TypedInvAlways, PTL

(***************************************************************************)
(* The export.  A vehicle nobody writes never comes forward in the list:   *)
(* as long as it has not been read it is still ahead of the offset.        *)
(***************************************************************************)
Ahead(v) == \E i \in 1..Len(recent) : export.skip < i /\ recent[i] = v

Reached ==
  export.at = "reading" =>
    /\ Len(export.rows) = export.skip
    /\ \A v \in export.all \ touched : Listed(v) \/ Ahead(v)
    /\ touched = {} =>
         \A i \in 1..export.skip : i \in 1..Len(recent) /\ export.rows[i] = recent[i]

ExportInv == Reached /\ ExportMissesOnlyMoved

LEMMA ExportInvInit == Init => ExportInv
BY DEF Init, ReadsInit, ExportInv, Reached, ExportMissesOnlyMoved

\* The writers work on while the export reads, or when it is over.
LEMMA ExportWaits ==
  ASSUME TypedInv, ExportInv, [Next]_vars, UNCHANGED export
  PROVE  ExportInv'
<1>1. CASE export.at # "reading"
  <2>1. ~ExportStarts
    <3> SUFFICES ASSUME ExportStarts PROVE FALSE
      OBVIOUS
    <3>1. export.at = "off" /\ export'.at = "reading"
      BY DEF ExportStarts
    <3> QED
      BY <3>1
  <2>2. touched' = touched
    BY <1>1, <2>1 DEF Next, Writer, WriterFault, Delivers, Watched, Reading, Request, Expiry,
      Exporting, Asks, Queries, Caches, Expires, ExportReads, ExportBreaks, vars, readVars
  <2> QED
    BY <1>1, <2>2 DEF ExportInv, Reached, ExportMissesOnlyMoved, Listed, Twice
<1>2. CASE export.at = "reading"
  <2>1. touched \subseteq touched'
    BY <1>2 DEF Next, Writer, WriterFault, Delivers, Watched, Reading, Request, Expiry, Exporting,
                Asks, Queries, Caches, Expires, ExportStarts, ExportReads, ExportBreaks, vars, readVars
  <2>2. CASE UNCHANGED <<compliance, recent>>
    BY <1>2, <2>1, <2>2 DEF ExportInv, Reached, ExportMissesOnlyMoved, Listed, Ahead
  <2>3. ASSUME NEW w \in Workers, WriteSnapshot(w), Watched PROVE ExportInv'
    <3>1. PICK u \in Vehicles :
            u = Vehicle(w) /\ Touches(u) /\ At(w, "write") /\ exec'[w].at = "done"
      BY <2>3, WriteTouches DEF TypedInv
    <3>2. u \in touched'
      BY <1>2, <2>3, <3>1 DEF Watched, Written
    <3>3. \A i \in 1..Len(recent) : recent[i] # u =>
            \E k \in 1..Len(recent') : i <= k /\ recent'[k] = recent[i]
      BY <3>1, TouchesMoves DEF TypedInv, Recency
    <3>4. ASSUME NEW v \in export.all \ touched' PROVE Listed(v)' \/ Ahead(v)'
      <4>1. Listed(v) \/ Ahead(v)
        BY <1>2, <2>1, <3>4 DEF ExportInv, Reached
      <4>2. ASSUME Ahead(v) PROVE Ahead(v)'
        <5>1. PICK i \in 1..Len(recent) : export.skip < i /\ recent[i] = v
          BY <4>2 DEF Ahead
        <5>2. PICK k \in 1..Len(recent') : i <= k /\ recent'[k] = v
          BY <3>2, <3>3, <3>4, <5>1
        <5>3. export.skip \in Nat /\ i \in Nat /\ k \in Nat
          BY LenProperties, RecencyStep DEF TypedInv, Reads, Exports, Recency
        <5> QED
          BY <5>1, <5>2, <5>3 DEF Ahead
      <4> QED
        BY <4>1, <4>2 DEF Listed
    <3> QED
      BY <1>2, <3>2, <3>4 DEF ExportInv, Reached, ExportMissesOnlyMoved
  <2> QED
    BY <2>2, <2>3, WrittenOrNot
<1> QED
  BY <1>1, <1>2

LEMMA ExportBegins ==
  ASSUME TypedInv, ExportStarts, UNCHANGED recent
  PROVE  ExportInv'
<1>1. PICK there : there = {v \in Vehicles : compliance[v] # Nothing}
  OBVIOUS
<1>2. /\ export'.at = "reading" /\ export'.skip = 0 /\ export'.rows = <<>> /\ export'.all = there
      /\ touched' = {}
  BY <1>1 DEF ExportStarts
<1>3. Len(<<>>) = 0 /\ 1..0 = {}
  BY EmptySeq
<1>4. ASSUME NEW v \in there PROVE Ahead(v)'
  <2>1. PICK i \in 1..Len(recent) : recent[i] = v
    BY <1>1, <1>4 DEF TypedInv, Recency, Among
  <2>2. 0 < i
    BY <2>1
  <2> QED
    BY <1>2, <2>1, <2>2 DEF Ahead
<1> QED
  BY <1>2, <1>3, <1>4 DEF ExportInv, Reached, ExportMissesOnlyMoved

LEMMA Offset ==
  ASSUME NEW s \in Nat, NEW size \in Nat, NEW i \in Nat, s < i, i <= s + size
  PROVE  i - s \in 1..size /\ s + (i - s) = i /\ i \in 1..(s + size) /\ ~(i <= s)
OBVIOUS

LEMMA ExportGoesOn ==
  ASSUME TypedInv, ExportInv, ExportReads, UNCHANGED recent
  PROVE  ExportInv'
<1>1. PICK take \in Int, size \in Nat, chunk \in Seq(Vehicles) :
        /\ size = Len(chunk)
        /\ \A i \in 1..size : export.skip + i \in 1..Len(recent) /\ chunk[i] = recent[export.skip + i]
        /\ take <= size \/ Len(recent) <= export.skip + size
        /\ export' = [at |-> IF size < take \/ export.skip + size >= ExportCap
                            THEN "done" ELSE "reading",
                      skip |-> export.skip + size, rows |-> export.rows \o chunk,
                      all |-> export.all]
  BY ChunkRead DEF TypedInv, Recency
<1>2. PICK s \in Nat, n \in Nat, rows \in Seq(Vehicles) :
        s = export.skip /\ n = Len(recent) /\ rows = export.rows /\ Len(rows) = s
  BY LenProperties DEF TypedInv, Recency, Reads, Exports, ExportInv, Reached, ExportReads
<1>3. PICK new \in Seq(Vehicles), total \in Nat :
        /\ new = rows \o chunk /\ total = s + size /\ Len(new) = total /\ DOMAIN new = 1..total
        /\ \A i \in 1..total : new[i] = IF i <= s THEN rows[i] ELSE chunk[i - s]
  <2>0. Len(rows) = s /\ Len(chunk) = size
    BY <1>1, <1>2
  <2>1. /\ rows \o chunk \in Seq(Vehicles) /\ Len(rows \o chunk) = s + size
        /\ \A i \in 1..(s + size) : (rows \o chunk)[i] = IF i <= s THEN rows[i] ELSE chunk[i - s]
    <3>1. /\ rows \o chunk \in Seq(Vehicles) /\ Len(rows \o chunk) = Len(rows) + Len(chunk)
          /\ \A i \in 1..(Len(rows) + Len(chunk)) :
               (rows \o chunk)[i] = IF i <= Len(rows) THEN rows[i] ELSE chunk[i - Len(rows)]
      BY ConcatProperties
    <3> QED
      BY <2>0, <3>1
  <2>2. DOMAIN (rows \o chunk) = 1..(s + size)
    BY <2>1, LenProperties
  <2>3. s + size \in Nat
    OBVIOUS
  <2> QED
    BY <2>1, <2>2, <2>3
<1>4. /\ export'.skip = total /\ export'.rows = new /\ export'.all = export.all
      /\ export'.at = "done" => size < take \/ total >= ExportCap
      /\ export'.at \in {"reading", "done"} /\ touched' = touched /\ export.at = "reading"
  <2>1. PICK at : at = IF size < take \/ total >= ExportCap THEN "done" ELSE "reading"
    OBVIOUS
  <2>2. export' = [at |-> at, skip |-> total, rows |-> new, all |-> export.all]
    BY <1>1, <1>2, <1>3, <2>1
  <2>3. export'.at = at /\ export'.skip = total /\ export'.rows = new /\ export'.all = export.all
    BY <2>2
  <2>4. touched' = touched /\ export.at = "reading"
    BY DEF ExportReads
  <2> QED
    BY <2>1, <2>3, <2>4
<1>5. ASSUME NEW i \in 1..n, s < i, i <= total
      PROVE  i \in 1..total /\ new[i] = recent[i]
  <2>0. i \in Nat
    BY <1>5
  <2>1. i - s \in 1..size /\ s + (i - s) = i /\ i \in 1..total /\ ~(i <= s)
    BY <1>3, <1>5, <2>0, Offset
  <2>2. chunk[i - s] = recent[s + (i - s)]
    BY <1>1, <1>2, <2>1
  <2> QED
    BY <1>3, <2>1, <2>2
\* Who is ahead of the offset was read now, or is ahead of the new one.
<1>6. ASSUME NEW v \in export.all \ touched PROVE Listed(v)' \/ (Ahead(v)' /\ total < n)
  <2>1. Listed(v) \/ Ahead(v)
    BY <1>4 DEF ExportInv, Reached
  <2>2. CASE Listed(v)
    <3>1. PICK i \in 1..s : rows[i] = v
      BY <1>2, <2>2, LenProperties DEF Listed
    <3>2. i \in 1..total /\ i <= s
      BY <1>2, <1>3, <3>1
    <3> QED
      BY <1>3, <1>4, <3>1, <3>2 DEF Listed
  <2>3. CASE Ahead(v)
    <3>1. PICK i \in 1..n : s < i /\ recent[i] = v
      BY <1>2, <2>3 DEF Ahead
    <3>2. CASE i <= total
      BY <1>3, <1>4, <1>5, <3>1, <3>2 DEF Listed
    <3>3. CASE total < i
      <4>1. total < n
        BY <1>2, <1>3, <3>1, <3>3
      <4> QED
        BY <1>2, <1>4, <3>1, <3>3, <4>1 DEF Ahead
    <3> QED
      BY <1>2, <1>3, <3>1, <3>2, <3>3
  <2> QED
    BY <2>1, <2>2, <2>3
\* As long as nobody was written, the rows are the beginning of the list.
<1>7. ASSUME touched = {}, NEW i \in 1..total PROVE i \in 1..n /\ new[i] = recent[i]
  <2>1. CASE i <= s
    <3>1. i \in 1..s
      BY <1>2, <1>3, <2>1
    <3> QED
      BY <1>2, <1>3, <1>4, <1>7, <2>1, <3>1 DEF ExportInv, Reached
  <2>2. CASE s < i
    <3>0. i \in Nat /\ i <= total
      BY <1>7
    <3>1. i - s \in 1..size /\ s + (i - s) = i
      BY <1>3, <2>2, <3>0, Offset
    <3>2. i \in 1..n
      BY <1>1, <1>2, <3>1
    <3> QED
      BY <1>5, <2>2, <3>0, <3>2
  <2>3. i \in Nat /\ s \in Nat
    BY <1>2, <1>7
  <2> QED
    BY <2>1, <2>2, <2>3
<1>8. Reached'
  BY <1>2, <1>3, <1>4, <1>6, <1>7 DEF Reached
<1>9. ExportMissesOnlyMoved'
  <2>1. ASSUME export'.at = "done", Len(new) < ExportCap, NEW v \in export.all
        PROVE  Listed(v)' \/ v \in touched
    <3>1. ~(total < n)
      BY <1>1, <1>2, <1>3, <1>4, <2>1, ReadsAssumption
    <3> QED
      BY <1>6, <2>1, <3>1
  <2>2. ASSUME touched = {}, NEW v \in Vehicles PROVE ~Twice(v)'
    <3>1. ASSUME NEW i \in 1..total, NEW k \in 1..total, new[i] = new[k] PROVE i = k
      <4>1. i \in 1..n /\ k \in 1..n /\ recent[i] = recent[k]
        BY <1>7, <2>2, <3>1
      <4> QED
        BY <1>2, <4>1 DEF TypedInv, Recency, Distinct
    <3>2. DOMAIN export'.rows = 1..total /\ export'.rows = new
      BY <1>3, <1>4
    <3> QED
      BY <3>1, <3>2 DEF Twice
  <2> QED
    BY <1>4, <2>1, <2>2 DEF ExportMissesOnlyMoved
<1> QED
  BY <1>8, <1>9 DEF ExportInv

LEMMA ExportInvStep ==
  ASSUME TypedInv, ExportInv, [Next]_vars
  PROVE  ExportInv'
<1>1. CASE UNCHANGED export
  BY <1>1, ExportWaits
<1>2. CASE Exporting
  <2>1. CASE ExportBreaks
    <3>1. export'.at = "cut"
      BY <2>1 DEF ExportBreaks, TypedInv, Reads, Exports
    <3> QED
      BY <3>1 DEF ExportInv, Reached, ExportMissesOnlyMoved
  <2> QED
    BY <1>2, <2>1, ExportBegins, ExportGoesOn DEF Exporting, StoreUntouched
<1>3. UNCHANGED export \/ Exporting
  BY DEF Next, Writer, WriterFault, Delivers, Reading, Request, Expiry, Asks, Queries, Caches,
         Expires, vars, readVars
<1> QED
  BY <1>1, <1>2, <1>3

\* A finished export shorter than its cap leaves out only vehicles written while it ran,
\* and names a vehicle twice only when some vehicle was: for any chunk size and cap, and
\* any number of vehicles and writers.
THEOREM ExportsMissOnlyMoved == Spec => []ExportMissesOnlyMoved
<1>1. Init => ExportInv
  BY ExportInvInit
<1>2. TypedInv /\ ExportInv /\ [Next]_vars => ExportInv'
  BY ExportInvStep
<1>3. ExportInv => ExportMissesOnlyMoved
  BY DEF ExportInv
<1> QED
  BY <1>1, <1>2, <1>3, TypedInvAlways, PTL DEF Spec

(***************************************************************************)
(* Attempts.  Every attempt of a job ends it, or costs a fault: a job is   *)
(* given up only after as many faults as it has attempts.                  *)
(***************************************************************************)
AttemptsPaid ==
  /\ hiccups \in Nat
  /\ \A j \in Jobs :
       /\ queue[j].lock \in Workers => queue[j].state = "active"
       /\ queue[j].state \in {"absent", "waiting"} => queue[j].tries <= hiccups
       /\ queue[j].state = "active" => queue[j].tries <= hiccups + 1
       /\ queue[j].state = "failed" => MaxAttempts <= hiccups

\* A job that failed took MaxAttempts faults: neither a row that was there already, nor a
\* second execution that outlived its lock, uses up an attempt without one.
FailedByFaults == \A j \in Jobs : queue[j].state = "failed" => MaxAttempts <= hiccups

LEMMA AttemptsPaidInit == Init => AttemptsPaid
<1> SUFFICES ASSUME Init PROVE AttemptsPaid
  OBVIOUS
<1>1. PICK submitted \in SUBSET Jobs : StoreInit(submitted)
  BY DEF Init
<1> QED
  BY <1>1, StoreAssumption DEF StoreInit, AttemptsPaid

\* One job moves on, and a fault may be counted.
LEMMA JobMoves ==
  ASSUME StoreInv, AttemptsPaid, hiccups' \in Nat, hiccups <= hiccups',
         NEW j \in Jobs, NEW q, queue' = [queue EXCEPT ![j] = q],
         q.lock \in Workers => q.state = "active",
         q.state \in {"absent", "waiting"} => q.tries <= hiccups',
         q.state = "active" => q.tries <= hiccups' + 1,
         q.state = "failed" => MaxAttempts <= hiccups'
  PROVE  AttemptsPaid'
<1>1. queue'[j] = q /\ \A k \in Jobs \ {j} : queue'[k] = queue[k]
  BY DEF StoreInv, Shape
<1>2. ASSUME NEW k \in Jobs \ {j}
      PROVE  /\ queue[k].lock \in Workers => queue[k].state = "active"
             /\ queue[k].state \in {"absent", "waiting"} => queue[k].tries <= hiccups'
             /\ queue[k].state = "active" => queue[k].tries <= hiccups' + 1
             /\ queue[k].state = "failed" => MaxAttempts <= hiccups'
  <2>1. PICK t \in Nat : t = queue[k].tries
    BY DEF StoreInv, Shape
  <2> QED
    BY <2>1, StoreAssumption DEF AttemptsPaid
<1> QED
  BY <1>1, <1>2 DEF AttemptsPaid

LEMMA AttemptsPaidStep ==
  ASSUME StoreInv, AttemptsPaid, [Next]_vars
  PROVE  AttemptsPaid'
<1>1. queue \in [Jobs -> [state : States, tries : Nat, lock : Workers \cup {Nothing}]]
  BY DEF StoreInv, Shape
<1>2. ASSUME UNCHANGED queue, NoFault \/ Fault PROVE AttemptsPaid'
  <2>1. hiccups' \in Nat /\ hiccups <= hiccups'
    BY <1>2 DEF NoFault, Fault, AttemptsPaid
  <2>2. ASSUME NEW k \in Jobs
        PROVE  /\ queue[k].state \in {"absent", "waiting"} => queue[k].tries <= hiccups'
               /\ queue[k].state = "active" => queue[k].tries <= hiccups' + 1
               /\ queue[k].state = "failed" => MaxAttempts <= hiccups'
    <3>1. PICK t \in Nat : t = queue[k].tries
      BY <1>1
    <3> QED
      BY <2>1, <3>1, StoreAssumption DEF AttemptsPaid
  <2> QED
    BY <1>2, <2>1, <2>2 DEF AttemptsPaid
<1>3. ASSUME NEW w \in Workers, NEW j \in Jobs, Take(w, j) PROVE AttemptsPaid'
  <2>1. PICK t \in Nat : t = queue[j].tries
    BY <1>1
  <2>2. PICK q : q = [state |-> "active", tries |-> t + 1, lock |-> w]
    OBVIOUS
  <2>3. queue' = [queue EXCEPT ![j] = q] /\ hiccups' = hiccups /\ queue[j].state = "waiting"
    BY <1>3, <2>1, <2>2 DEF Take, NoFault
  <2>4. t + 1 <= hiccups + 1
    BY <2>1, <2>3 DEF AttemptsPaid
  <2>5. q.state = "active" /\ q.tries = t + 1
    BY <2>2
  <2> QED
    BY <2>3, <2>4, <2>5, JobMoves DEF AttemptsPaid
<1>4. ASSUME NEW w \in Workers, Finish(w) \/ Fails(w) \/ LosesLock(w) PROVE AttemptsPaid'
  <2>1. PICK j, old : j = exec[w].job /\ j \in Jobs /\ old = queue[j]
    BY <1>4, Working DEF Finish, Fails, LosesLock, At
  <2>2. PICK t \in Nat : t = old.tries
    BY <1>1, <2>1
  <2>3. old \in [state : States, tries : Nat, lock : Workers \cup {Nothing}]
    BY <1>1, <2>1
  <2>4. Owns(w) => t <= hiccups + 1
    BY <2>1, <2>2 DEF Owns, AttemptsPaid
  <2>5. Finish(w) => hiccups' = hiccups
    BY DEF Finish, NoFault
  <2>6. ~Finish(w) => hiccups' = hiccups + 1
    BY <1>4 DEF Fails, LosesLock, Fault
  <2>7. CASE UNCHANGED queue
    BY <1>2, <1>4, <2>7 DEF Finish, Fails, LosesLock
  <2>8. ASSUME NEW state \in {"waiting", "failed", "done"}, Owns(w),
               queue' = [queue EXCEPT ![j].state = state, ![j].lock = Nothing],
               state # "done" => ~Finish(w), state = "failed" => MaxAttempts <= t
        PROVE  AttemptsPaid'
    <3>1. PICK q : q = [old EXCEPT !.state = state, !.lock = Nothing]
      OBVIOUS
    <3>2. queue' = [queue EXCEPT ![j] = q] /\ q.state = state /\ q.lock = Nothing /\ q.tries = t
      BY <1>1, <2>1, <2>2, <2>3, <2>8, <3>1
    <3>3. hiccups' \in Nat /\ hiccups <= hiccups' /\ (state # "done" => t <= hiccups')
      BY <2>4, <2>5, <2>6, <2>8 DEF AttemptsPaid
    <3>4. state = "failed" => MaxAttempts <= hiccups'
      BY <2>8, <3>3, StoreAssumption
    <3>5. q.lock \notin Workers
      BY <3>2, StoreAssumption
    <3> QED
      BY <2>1, <2>8, <3>2, <3>3, <3>4, <3>5, JobMoves
  <2>9. CASE Finish(w) /\ queue' # queue
    BY <2>1, <2>8, <2>9 DEF Finish
  <2>10. CASE LosesLock(w) /\ ~Finish(w)
    BY <2>1, <2>8, <2>10 DEF LosesLock
  <2>11. CASE Fails(w) /\ queue' # queue /\ ~Finish(w)
    <3>1. PICK state : state = IF t < MaxAttempts THEN "waiting" ELSE "failed"
      OBVIOUS
    <3>2. queue' = [queue EXCEPT ![j].lock = Nothing, ![j].state = state] /\ Owns(w)
      BY <2>1, <2>2, <2>11, <3>1 DEF Fails, Retry
    <3>3. queue' = [queue EXCEPT ![j].state = state, ![j].lock = Nothing]
      BY <1>1, <2>1, <3>2
    <3>4. state \in {"waiting", "failed"} /\ (state = "failed" => MaxAttempts <= t)
      BY <3>1, StoreAssumption
    <3> QED
      BY <2>8, <2>11, <3>2, <3>3, <3>4
  <2> QED
    BY <1>4, <2>7, <2>9, <2>10, <2>11
<1>5. CASE UNCHANGED vars
  BY <1>2, <1>5 DEF vars, storeVars, NoFault
<1>6. ASSUME NEW w \in Workers,
             Insert(w) \/ AfterRows(w) \/ Replace(w) \/ ReadSnapshot(w) \/ WriteSnapshot(w)
      PROVE  AttemptsPaid'
  BY <1>2, <1>6 DEF Insert, AfterRows, Replace, ReadSnapshot, WriteSnapshot, Write
<1>7. ASSUME UNCHANGED queue,
             \/ Exporting
             \/ \E r \in Readers : Reading(r) \/ \E v \in Vehicles : Request(r, v)
             \/ \E v \in Vehicles : Expiry(v)
      PROVE  AttemptsPaid'
  BY <1>2, <1>7 DEF Exporting, Reading, Request, Expiry, Asks, Queries, Caches, Expires, ExportStarts,
                    ExportReads, ExportBreaks, NoFault
<1> QED
  BY <1>3, <1>4, <1>5, <1>6, <1>7
     DEF Next, Writer, WriterFault, Delivers, Runs, Exporting, Reading, Request, Expiry, StoreUntouched

THEOREM JobsFailByFaults == Spec => []FailedByFaults
<1>1. AttemptsPaid => FailedByFaults
  BY DEF AttemptsPaid, FailedByFaults
<1> QED
  BY <1>1, AttemptsPaidInit, AttemptsPaidStep, StoreInvAlways, PTL DEF Spec
=============================================================================
