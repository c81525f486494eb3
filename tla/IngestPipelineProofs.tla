------------------------ MODULE IngestPipelineProofs ------------------------
(***************************************************************************)
(* Proofs about IngestPipeline for every number of jobs, workers, attempts *)
(* and replays and every choice of faults.                                 *)
(***************************************************************************)
EXTENDS IngestPipeline, TLAPS

(***************************************************************************)
(* Part 1: types, and who may settle a Bull job.  A failure counts one     *)
(* attempt more, so `made` stays in its range only because a job that is   *)
(* waiting or active has an attempt left, and because the execution that   *)
(* fails it still owns it.                                                 *)
(***************************************************************************)
AttemptsLeft == \A b \in BullIds : Live(b) => bull[b].made < MaxAttempts

OwnInv == TypeOK /\ LockExclusive /\ AttemptsLeft

LEMMA ProductFacts ==
  ASSUME NEW b \in BullIds
  PROVE  /\ JobOf(b) \in Jobs
         /\ StepOf(b) \in Steps
         /\ b = <<JobOf(b), StepOf(b)>>
BY DEF BullIds, JobOf, StepOf

\* Queue.add with a custom id: a free id becomes a waiting job with no attempt
\* made, anything else stays as it is.
LEMMA AddedFacts ==
  ASSUME TypeOK, NEW b \in BullIds, NEW n \in Nat
  PROVE  /\ Added(b, n) \in [BullIds -> BullJob]
         /\ \A c \in BullIds :
              \/ Added(b, n)[c] = bull[c]
              \/ c = b /\ bull[c].st = "none" /\ Added(b, n)[c] = Fresh(n)
<1>1. Fresh(n) \in BullJob
  BY PipelineAssumption DEF BullJob, Fresh
<1>2. bull \in [BullIds -> BullJob]
  BY DEF TypeOK
<1> QED
  BY <1>1, <1>2 DEF Added

\* Moving an execution to its next awaited call changes nothing else of it.
LEMMA GotoFacts ==
  ASSUME TypeOK, NEW w \in Workers, exec[w] # Idle,
         NEW pc \in MasterPoints \cup ChildPoints \cup {"return"}, Goto(w, pc)
  PROVE  /\ exec' \in [Workers -> Execution \cup {Idle}]
         /\ exec'[w] = [exec[w] EXCEPT !.pc = pc]
         /\ exec'[w] \in Execution
         /\ exec'[w] # Idle
         /\ exec'[w].pc = pc
         /\ exec'[w].bull = exec[w].bull
         /\ exec'[w].lock = exec[w].lock
         /\ exec'[w].replays = exec[w].replays
         /\ \A v \in Workers \ {w} : exec'[v] = exec[v]
<1>1. exec \in [Workers -> Execution \cup {Idle}] /\ exec[w] \in Execution
  BY DEF TypeOK
<1>2. exec' = [exec EXCEPT ![w] = [exec[w] EXCEPT !.pc = pc]]
  BY DEF Goto
<1>3. [exec[w] EXCEPT !.pc = pc] \in Execution
  BY <1>1 DEF Execution
<1>4. exec'[w] = [exec[w] EXCEPT !.pc = pc]
  BY <1>1, <1>2
<1>5. /\ [exec[w] EXCEPT !.pc = pc].pc = pc
      /\ [exec[w] EXCEPT !.pc = pc].bull = exec[w].bull
      /\ [exec[w] EXCEPT !.pc = pc].lock = exec[w].lock
      /\ [exec[w] EXCEPT !.pc = pc].replays = exec[w].replays
  BY <1>1 DEF Execution
<1> QED
  BY <1>1, <1>2, <1>3, <1>4, <1>5, IdleAssumption

\* What a running execution knows of itself.
LEMMA ExecFacts ==
  ASSUME TypeOK, NEW w \in Workers, exec[w] # Idle
  PROVE  /\ exec[w] \in Execution
         /\ exec[w].bull \in BullIds
         /\ JobAt(w) \in Jobs
         /\ exec[w].replays \in Nat
         /\ exec[w].lock \in BOOLEAN
<1>1. exec[w] \in Execution
  BY DEF TypeOK
<1>2. exec[w].bull \in BullIds /\ exec[w].replays \in Nat /\ exec[w].lock \in BOOLEAN
  BY <1>1 DEF Execution
<1> QED
  BY <1>1, <1>2, ProductFacts DEF JobAt

LEMMA AttemptsKept ==
  ASSUME AttemptsLeft,
         \A b \in BullIds :
           \/ Live(b) /\ bull'[b].made = bull[b].made
           \/ bull'[b].st \in {"wait", "active"} => bull'[b].made < MaxAttempts
  PROVE  AttemptsLeft'
BY DEF AttemptsLeft, Live

LEMMA OwnInit == Init => OwnInv
<1> SUFFICES ASSUME Init PROVE OwnInv
  OBVIOUS
<1>1. NoBullJob \in BullJob
  BY PipelineAssumption DEF NoBullJob, BullJob
<1>2. TypeOK
  BY <1>1 DEF Init, TypeOK, LifecycleInit, LifecycleTypeOK, Statuses
<1>3. LockExclusive /\ AttemptsLeft
  BY DEF Init, LockExclusive, AttemptsLeft, Live, NoBullJob
<1> QED
  BY <1>2, <1>3 DEF OwnInv

LEMMA OwnStep == OwnInv /\ [Next]_vars => OwnInv'
<1> SUFFICES ASSUME OwnInv, [Next]_vars PROVE OwnInv'
  OBVIOUS
<1> USE DEF OwnInv
<1>type. /\ row \in [Jobs -> Statuses]
         /\ persisted \in [Jobs -> BOOLEAN]
         /\ bull \in [BullIds -> BullJob]
         /\ exec \in [Workers -> Execution \cup {Idle}]
         /\ handlers \subseteq Handler
         /\ dlq \subseteq DlqEntry
         /\ retryQ \subseteq DlqEntry
         /\ failedJobs \subseteq BullIds
         /\ faults \in [throws : Nat, crashes : Nat, locks : Nat, expiries : Nat, ops : Nat]
  BY DEF TypeOK, LifecycleTypeOK
<1>count. /\ [faults EXCEPT !.throws = @ + 1] \in [throws : Nat, crashes : Nat, locks : Nat, expiries : Nat, ops : Nat]
          /\ [faults EXCEPT !.crashes = @ + 1] \in [throws : Nat, crashes : Nat, locks : Nat, expiries : Nat, ops : Nat]
          /\ [faults EXCEPT !.locks = @ + 1] \in [throws : Nat, crashes : Nat, locks : Nat, expiries : Nat, ops : Nat]
          /\ [faults EXCEPT !.expiries = @ + 1] \in [throws : Nat, crashes : Nat, locks : Nat, expiries : Nat, ops : Nat]
          /\ [faults EXCEPT !.ops = @ + 1] \in [throws : Nat, crashes : Nat, locks : Nat, expiries : Nat, ops : Nat]
  BY <1>type
<1>running. "queued" \in Statuses /\ "running" \in Statuses /\ "succeeded" \in Statuses /\ "failed" \in Statuses
  BY DEF Statuses
<1>added. ASSUME NEW b \in BullIds, NEW n \in Nat, bull' = Added(b, n)
          PROVE  /\ bull' \in [BullIds -> BullJob]
                 /\ AttemptsLeft'
                 /\ \A c \in BullIds : bull[c].st = "active" => bull'[c].st = "active"
  <2>1. \A c \in BullIds :
          \/ bull'[c] = bull[c]
          \/ c = b /\ bull[c].st = "none" /\ bull'[c] = Fresh(n)
    BY <1>added, AddedFacts
  <2>2. Fresh(n).st = "wait" /\ Fresh(n).made < MaxAttempts
    BY PipelineAssumption DEF Fresh
  <2>3. \A c \in BullIds :
          \/ Live(c) /\ bull'[c].made = bull[c].made
          \/ bull'[c].st \in {"wait", "active"} => bull'[c].made < MaxAttempts
    BY <2>1, <2>2 DEF Live
  <2> QED
    BY <1>added, <2>1, <2>3, AddedFacts, AttemptsKept
<1>locked. ASSUME \A w \in Workers : exec'[w] # Idle /\ exec'[w].lock =>
                    exec[w] # Idle /\ exec[w].lock /\ exec'[w].bull = exec[w].bull,
                  \A c \in BullIds : bull[c].st = "active" => bull'[c].st = "active"
           PROVE  LockExclusive'
  BY <1>locked, ExecFacts DEF LockExclusive
<1>goto. ASSUME NEW w \in Workers, exec[w] # Idle,
                NEW pc \in MasterPoints \cup ChildPoints \cup {"return"}, Goto(w, pc)
         PROVE  /\ exec' \in [Workers -> Execution \cup {Idle}]
                /\ \A v \in Workers : exec'[v] # Idle /\ exec'[v].lock =>
                     exec[v] # Idle /\ exec[v].lock /\ exec'[v].bull = exec[v].bull
  BY <1>goto, GotoFacts
<1>1. ASSUME NEW j \in Jobs, Submit(j) PROVE OwnInv'
  <2>1. row' \in [Jobs -> Statuses]
    BY <1>1, <1>type, <1>running DEF Submit
  <2>2. MasterOf(j) \in BullIds
    BY DEF MasterOf, BullIds, Steps
  <2>3. bull' = Added(MasterOf(j), 0) \/ bull' = bull
    BY <1>1 DEF Submit
  <2>4. bull' \in [BullIds -> BullJob] /\ AttemptsLeft'
        /\ \A c \in BullIds : bull[c].st = "active" => bull'[c].st = "active"
    BY <2>2, <2>3, <1>added, <1>type, AttemptsKept DEF AttemptsLeft, Live
  <2>5. LockExclusive'
    BY <1>1, <1>locked, <2>4 DEF Submit
  <2> QED
    BY <1>1, <1>type, <2>1, <2>4, <2>5 DEF Submit, TypeOK, LifecycleTypeOK
<1>2. ASSUME NEW w \in Workers, MasterRead(w) PROVE OwnInv'
  <2>1. PICK pc \in MasterPoints \cup ChildPoints \cup {"return"} : Goto(w, pc)
    BY <1>2 DEF MasterRead, MasterPoints, ChildPoints
  <2>2. exec[w] # Idle
    BY <1>2 DEF MasterRead, At
  <2>3. exec' \in [Workers -> Execution \cup {Idle}] /\ LockExclusive' /\ AttemptsLeft'
    BY <1>2, <2>1, <2>2, <1>goto, <1>locked DEF MasterRead, AttemptsLeft, Live
  <2> QED
    BY <1>2, <1>type, <2>3 DEF MasterRead, TypeOK, LifecycleTypeOK
<1>3. ASSUME NEW w \in Workers, MasterClaim(w) PROVE OwnInv'
  <2>1. PICK pc \in MasterPoints \cup ChildPoints \cup {"return"} : Goto(w, pc)
    BY <1>3 DEF MasterClaim, MasterPoints, ChildPoints
  <2>2. exec[w] # Idle
    BY <1>3 DEF MasterClaim, At
  <2>3. exec' \in [Workers -> Execution \cup {Idle}] /\ LockExclusive' /\ AttemptsLeft'
    BY <1>3, <2>1, <2>2, <1>goto, <1>locked DEF MasterClaim, AttemptsLeft, Live
  <2>4. row' \in [Jobs -> Statuses]
    BY <1>3, <1>type, <1>running DEF MasterClaim
  <2> QED
    BY <1>3, <1>type, <2>3, <2>4 DEF MasterClaim, TypeOK, LifecycleTypeOK
<1>4. ASSUME NEW w \in Workers, MasterAddChild(w) PROVE OwnInv'
  <2>1. PICK step \in ChildSteps :
          /\ At(w, IF step = "prepare" THEN "addPrepare" ELSE "addPersist")
          /\ bull' = Added(<<JobAt(w), step>>, exec[w].replays)
          /\ Goto(w, IF step = "prepare" THEN "addPersist" ELSE "progress")
          /\ UNCHANGED <<row, persisted, handlers, dlq, retryQ, failedJobs, faults>>
    BY <1>4 DEF MasterAddChild
  <2>2. exec[w] # Idle
    BY <2>1 DEF At
  <2>3. <<JobAt(w), step>> \in BullIds /\ exec[w].replays \in Nat
    BY <2>2, ExecFacts DEF BullIds, Steps
  <2>4. /\ bull' \in [BullIds -> BullJob]
        /\ AttemptsLeft'
        /\ \A c \in BullIds : bull[c].st = "active" => bull'[c].st = "active"
    BY <2>1, <2>3, <1>added
  <2>5. (IF step = "prepare" THEN "addPersist" ELSE "progress")
          \in MasterPoints \cup ChildPoints \cup {"return"}
    BY DEF MasterPoints
  <2>6. exec' \in [Workers -> Execution \cup {Idle}] /\ LockExclusive'
    BY <2>1, <2>2, <2>4, <2>5, <1>goto, <1>locked
  <2> QED
    BY <2>1, <1>type, <2>4, <2>6 DEF TypeOK, LifecycleTypeOK
<1>5. ASSUME NEW w \in Workers, ChildRead(w) PROVE OwnInv'
  <2>1. PICK pc \in MasterPoints \cup ChildPoints \cup {"return"} : Goto(w, pc)
    BY <1>5 DEF ChildRead, MasterPoints, ChildPoints
  <2>2. exec[w] # Idle
    BY <1>5 DEF ChildRead, At
  <2>3. exec' \in [Workers -> Execution \cup {Idle}] /\ LockExclusive' /\ AttemptsLeft'
    BY <1>5, <2>1, <2>2, <1>goto, <1>locked DEF ChildRead, AttemptsLeft, Live
  <2> QED
    BY <1>5, <1>type, <2>3 DEF ChildRead, TypeOK, LifecycleTypeOK
<1>6. ASSUME NEW w \in Workers, ChildWrite(w) PROVE OwnInv'
  <2>1. PICK pc \in MasterPoints \cup ChildPoints \cup {"return"} : Goto(w, pc)
    BY <1>6 DEF ChildWrite, MasterPoints, ChildPoints
  <2>2. exec[w] # Idle
    BY <1>6 DEF ChildWrite, At
  <2>3. exec' \in [Workers -> Execution \cup {Idle}] /\ LockExclusive' /\ AttemptsLeft'
    BY <1>6, <2>1, <2>2, <1>goto, <1>locked DEF ChildWrite, AttemptsLeft, Live
  <2>4. persisted' \in [Jobs -> BOOLEAN]
    BY <1>6, <1>type DEF ChildWrite
  <2> QED
    BY <1>6, <1>type, <2>3, <2>4 DEF ChildWrite, TypeOK, LifecycleTypeOK
<1>7. ASSUME NEW w \in Workers, ChildSucceed(w) PROVE OwnInv'
  <2>1. PICK pc \in MasterPoints \cup ChildPoints \cup {"return"} : Goto(w, pc)
    BY <1>7 DEF ChildSucceed, MasterPoints, ChildPoints
  <2>2. exec[w] # Idle
    BY <1>7 DEF ChildSucceed, At
  <2>3. exec' \in [Workers -> Execution \cup {Idle}] /\ LockExclusive' /\ AttemptsLeft'
    BY <1>7, <2>1, <2>2, <1>goto, <1>locked DEF ChildSucceed, AttemptsLeft, Live
  <2>4. row' \in [Jobs -> Statuses]
    BY <1>7, <1>type, <1>running DEF ChildSucceed
  <2> QED
    BY <1>7, <1>type, <2>3, <2>4 DEF ChildSucceed, TypeOK, LifecycleTypeOK
<1>8. ASSUME NEW w \in Workers, Complete(w) PROVE OwnInv'
  <2>1. exec[w] # Idle /\ exec[w].bull \in BullIds
    BY <1>8, ExecFacts DEF Complete, At
  <2>2. exec' \in [Workers -> Execution \cup {Idle}]
    BY <1>8, <1>type DEF Complete
  <2>3. bull' \in [BullIds -> BullJob]
    BY <1>8, <2>1, <1>type DEF Complete, BullJob
  <2>4. LockExclusive'
    <3>1. \A v \in Workers : exec'[v] # Idle => v # w /\ exec'[v] = exec[v]
      BY <1>8, <1>type DEF Complete
    <3>2. ASSUME NEW v \in Workers, exec'[v] # Idle, exec'[v].lock
          PROVE  bull'[exec'[v].bull].st = "active"
      <4>1. v # w /\ exec[v] # Idle /\ exec[v].lock /\ exec'[v] = exec[v]
        BY <3>1, <3>2
      <4>2. exec[v].bull \in BullIds /\ bull[exec[v].bull].st = "active"
        BY <4>1, ExecFacts DEF LockExclusive
      <4>3. exec[w].lock => exec[v].bull # exec[w].bull
        BY <4>1, <2>1 DEF LockExclusive
      <4> QED
        BY <1>8, <4>1, <4>2, <4>3, <1>type DEF Complete
    <3> QED
      BY <3>1, <3>2 DEF LockExclusive
  <2>5. AttemptsLeft'
    BY <1>8, <1>type, <2>1 DEF Complete, AttemptsLeft, Live, BullJob
  <2> QED
    BY <1>8, <1>type, <2>2, <2>3, <2>4, <2>5 DEF Complete, TypeOK, LifecycleTypeOK
<1>handler. ASSUME NEW b \in BullIds, NEW made \in 0..MaxAttempts
            PROVE  FailedHandler(b, made) \in Handler
  BY <1>type DEF FailedHandler, Handler, HandlerPoints, BullJob
<1>9. ASSUME NEW w \in Workers, Throw(w) PROVE OwnInv'
  <2> DEFINE b == exec[w].bull
             made == bull[b].made + 1
  <2>1. exec[w] # Idle /\ b \in BullIds
    BY <1>9, ExecFacts DEF Throw, At
  <2>2. exec' \in [Workers -> Execution \cup {Idle}]
        /\ \A v \in Workers : exec'[v] # Idle => v # w /\ exec'[v] = exec[v]
    BY <1>9, <1>type DEF Throw
  <2>3. CASE ~exec[w].lock
    <3>1. UNCHANGED <<row, persisted, bull, handlers, dlq, retryQ, failedJobs>>
      BY <1>9, <2>3 DEF Throw
    <3>2. LockExclusive' /\ AttemptsLeft'
      BY <3>1, <2>2, <1>locked DEF AttemptsLeft, Live
    <3> QED
      BY <1>9, <3>1, <3>2, <2>2, <1>type, <1>count DEF Throw, TypeOK, LifecycleTypeOK
  <2>4. CASE exec[w].lock
    <3>1. bull[b].st = "active" /\ bull[b].made < MaxAttempts
      BY <2>1, <2>4 DEF LockExclusive, AttemptsLeft, Live
    <3>2. made \in 0..MaxAttempts
      BY <3>1, <2>1, <1>type, PipelineAssumption DEF BullJob
    <3>3. bull' = [bull EXCEPT ![b].made = made,
                               ![b].st = IF IsTerminal(made) THEN "failed" ELSE "wait"]
          /\ handlers' = handlers \cup {FailedHandler(b, made)}
          /\ UNCHANGED <<row, persisted, dlq, retryQ, failedJobs>>
      BY <1>9, <2>4 DEF Throw
    <3>4. bull' \in [BullIds -> BullJob]
      BY <3>2, <3>3, <2>1, <1>type DEF BullJob
    <3>5. handlers' \subseteq Handler
      BY <3>2, <3>3, <2>1, <1>type, <1>handler
    <3>6. AttemptsLeft'
      BY <3>2, <3>3, <2>1, <1>type, PipelineAssumption DEF AttemptsLeft, Live, IsTerminal, BullJob
    <3>7. LockExclusive'
      <4>1. ASSUME NEW v \in Workers, exec'[v] # Idle, exec'[v].lock
            PROVE  bull'[exec'[v].bull].st = "active"
        <5>1. v # w /\ exec[v] # Idle /\ exec[v].lock /\ exec'[v] = exec[v]
          BY <2>2, <4>1
        <5>2. exec[v].bull \in BullIds /\ bull[exec[v].bull].st = "active" /\ exec[v].bull # b
          BY <5>1, <2>1, <2>4, ExecFacts DEF LockExclusive
        <5> QED
          BY <3>3, <5>1, <5>2, <1>type
      <4> QED
        BY <4>1, <2>2 DEF LockExclusive
    <3> QED
      BY <1>9, <3>3, <3>4, <3>5, <3>6, <3>7, <2>2, <1>type, <1>count DEF Throw, TypeOK, LifecycleTypeOK
  <2> QED
    BY <2>1, <2>3, <2>4, ExecFacts
<1>10. ASSUME NEW w \in Workers, Crash(w) PROVE OwnInv'
  <2>1. /\ exec' \in [Workers -> Execution \cup {Idle}]
        /\ \A v \in Workers : exec'[v] # Idle => exec'[v] = exec[v]
    BY <1>10, <1>type DEF Crash
  <2>2. LockExclusive' /\ AttemptsLeft'
    BY <1>10, <2>1, <1>locked DEF Crash, AttemptsLeft, Live
  <2>3. handlers' \subseteq Handler
    BY <1>10, <1>type DEF Crash
  <2> QED
    BY <1>10, <2>1, <2>2, <2>3, <1>type, <1>count DEF Crash, TypeOK, LifecycleTypeOK
<1>11. ASSUME NEW w \in Workers, LoseLock(w) PROVE OwnInv'
  <2>1. exec[w] # Idle /\ exec[w] \in Execution
    BY <1>11, ExecFacts DEF LoseLock
  <2>2. exec' = [exec EXCEPT ![w] = [exec[w] EXCEPT !.lock = FALSE]]
    BY <1>11 DEF LoseLock
  <2>3. [exec[w] EXCEPT !.lock = FALSE] \in Execution
        /\ [exec[w] EXCEPT !.lock = FALSE].lock = FALSE
    BY <2>1 DEF Execution
  <2>4. /\ exec' \in [Workers -> Execution \cup {Idle}]
        /\ \A v \in Workers : exec'[v] # Idle /\ exec'[v].lock => exec'[v] = exec[v]
    BY <2>2, <2>3, <1>type
  <2>5. LockExclusive' /\ AttemptsLeft'
    BY <1>11, <2>4, <1>locked DEF LoseLock, AttemptsLeft, Live
  <2> QED
    BY <1>11, <2>4, <2>5, <1>type, <1>count DEF LoseLock, TypeOK, LifecycleTypeOK
<1>12. ASSUME NEW w \in Workers, NEW b \in BullIds, Deliver(w, b) PROVE OwnInv'
  <2> DEFINE e == [bull |-> b, pc |-> IF StepOf(b) = "master" THEN "read" ELSE "childRead",
                   lock |-> TRUE, replays |-> bull[b].replays]
  <2>0. e \in Execution
    BY <1>type DEF Execution, MasterPoints, ChildPoints, BullJob
  <2>1. e \in Execution /\ e # Idle
    BY <2>0, IdleAssumption
  <2>2. exec' = [exec EXCEPT ![w] = e] /\ bull' = [bull EXCEPT ![b].st = "active"]
    BY <1>12 DEF Deliver
  <2>3. exec' \in [Workers -> Execution \cup {Idle}] /\ bull' \in [BullIds -> BullJob]
    BY <2>1, <2>2, <1>type DEF BullJob
  <2>4. AttemptsLeft'
    BY <1>12, <2>2, <1>type DEF Deliver, AttemptsLeft, Live, BullJob
  <2>5. ASSUME NEW v \in Workers \ {w}, exec'[v] # Idle, exec'[v].lock
        PROVE  exec'[v] = exec[v] /\ exec[v].bull # b /\ bull'[exec[v].bull].st = "active"
    <3>1. exec'[v] = exec[v]
      BY <2>2, <1>type
    <3>2. exec[v].bull \in BullIds /\ bull[exec[v].bull].st = "active"
      BY <3>1, <2>5, ExecFacts DEF LockExclusive
    <3> QED
      BY <1>12, <3>1, <3>2, <2>2, <1>type DEF Deliver
  <2>6. exec'[w] = e /\ e.bull = b /\ bull'[b].st = "active"
    BY <2>2, <1>type DEF BullJob
  <2>7. LockExclusive'
    <3>1. ASSUME NEW v \in Workers, exec'[v] # Idle, exec'[v].lock
          PROVE  bull'[exec'[v].bull].st = "active"
      BY <2>5, <2>6, <3>1
    <3>2. ASSUME NEW v \in Workers, NEW u \in Workers \ {v},
                 exec'[v] # Idle, exec'[v].lock, exec'[u] # Idle, exec'[u].lock
          PROVE  exec'[u].bull # exec'[v].bull
      <4>1. CASE v = w
        BY <3>2, <4>1, <2>5, <2>6
      <4>2. CASE u = w
        BY <3>2, <4>2, <2>5, <2>6
      <4>3. CASE v # w /\ u # w
        BY <3>2, <4>3, <2>5 DEF LockExclusive
      <4> QED
        BY <4>1, <4>2, <4>3
    <3> QED
      BY <3>1, <3>2 DEF LockExclusive
  <2> QED
    BY <1>12, <2>3, <2>4, <2>7, <1>type DEF Deliver, TypeOK, LifecycleTypeOK
<1>13. ASSUME NEW b \in BullIds, Stall(b) PROVE OwnInv'
  <2>1. bull[b].st = "active" /\ bull[b].made < MaxAttempts
    BY <1>13 DEF Stall, AttemptsLeft, Live
  <2>2. LockExclusive'
    <3>1. ASSUME NEW v \in Workers, exec[v] # Idle, exec[v].lock
          PROVE  bull'[exec[v].bull].st = "active"
      <4>1. exec[v].bull # b
        BY <1>13, <3>1 DEF Stall, Locked
      <4>2. exec[v].bull \in BullIds /\ bull[exec[v].bull].st = "active"
        BY <3>1, ExecFacts DEF LockExclusive
      <4> QED
        BY <1>13, <4>1, <4>2, <1>type DEF Stall
    <3> QED
      BY <1>13, <3>1 DEF Stall, LockExclusive
  <2>3. CASE bull[b].stalls < MaxStalledCount
    <3>1. bull' = [bull EXCEPT ![b].st = "wait", ![b].stalls = @ + 1] /\ handlers' = handlers
      BY <1>13, <2>3 DEF Stall
    <3>2. bull' \in [BullIds -> BullJob]
      BY <3>1, <2>3, <1>type, PipelineAssumption DEF BullJob
    <3>3. AttemptsLeft'
      BY <3>1, <2>1, <1>type DEF AttemptsLeft, Live, BullJob
    <3> QED
      BY <1>13, <2>2, <3>1, <3>2, <3>3, <1>type DEF Stall, TypeOK, LifecycleTypeOK
  <2>4. CASE ~(bull[b].stalls < MaxStalledCount)
    <3>1. PICK made \in {bull[b].made, bull[b].made + 1} :
            /\ bull' = [bull EXCEPT ![b].st = "failed", ![b].made = made]
            /\ handlers' = handlers \cup {FailedHandler(b, made)}
      BY <1>13, <2>4 DEF Stall
    <3>2. made \in 0..MaxAttempts
      BY <2>1, <1>type, PipelineAssumption DEF BullJob
    <3>3. bull' \in [BullIds -> BullJob]
      <4>1. PICK old \in BullJob : old = bull[b]
        BY <1>type
      <4>2. [old EXCEPT !.st = "failed", !.made = made] \in BullJob
        BY <3>2 DEF BullJob
      <4>3. bull' = [bull EXCEPT ![b] = [old EXCEPT !.st = "failed", !.made = made]]
        BY <3>1, <4>1
      <4> QED
        BY <4>2, <4>3, <1>type
    <3>4. handlers' \subseteq Handler
      BY <3>1, <3>2, <1>type, <1>handler
    <3>5. AttemptsLeft'
      BY <3>1, <1>type DEF AttemptsLeft, Live, BullJob
    <3> QED
      BY <1>13, <2>2, <3>3, <3>4, <3>5, <1>type DEF Stall, TypeOK, LifecycleTypeOK
  <2> QED
    BY <2>3, <2>4
<1>14. ASSUME NEW b \in BullIds, Expire(b) PROVE OwnInv'
  <2>1. NoBullJob \in BullJob
    BY PipelineAssumption DEF NoBullJob, BullJob
  <2>2. bull' \in [BullIds -> BullJob] /\ AttemptsLeft'
    BY <1>14, <2>1, <1>type DEF Expire, AttemptsLeft, Live, NoBullJob
  <2>3. LockExclusive'
    BY <1>14, <1>locked, <1>type DEF Expire
  <2> QED
    BY <1>14, <2>2, <2>3, <1>type, <1>count DEF Expire, TypeOK, LifecycleTypeOK
<1>same. ASSUME bull' = bull, exec' = exec PROVE LockExclusive' /\ AttemptsLeft'
  BY <1>same DEF LockExclusive, AttemptsLeft, Live
<1>15. ASSUME NEW h \in handlers, HandlerRun(h) PROVE OwnInv'
  <2>1. h \in Handler /\ [h EXCEPT !.pc = "failedRow"] \in Handler /\ [h EXCEPT !.pc = "mark"] \in Handler
    BY <1>type DEF Handler, HandlerPoints
  <2>2. h.bull \in BullIds /\ JobOf(h.bull) \in Jobs /\ h.replays \in Nat
    BY <2>1, ProductFacts DEF Handler
  <2>3. CASE HandlerDlqAdd(h)
    BY <2>1, <2>2, <2>3, <1>same, <1>type
       DEF HandlerDlqAdd, HandlerStep, DlqEntry, TypeOK, LifecycleTypeOK
  <2>4. CASE HandlerFailedRow(h)
    BY <2>1, <2>2, <2>4, <1>same, <1>type
       DEF HandlerFailedRow, HandlerStep, TypeOK, LifecycleTypeOK
  <2>5. CASE HandlerMark(h)
    BY <2>1, <2>2, <2>5, <1>same, <1>type, <1>running
       DEF HandlerMark, TypeOK, LifecycleTypeOK
  <2> QED
    BY <1>15, <2>3, <2>4, <2>5 DEF HandlerRun
<1>replayed. ASSUME NEW b \in BullIds, NEW n \in Nat, bull' = Added(b, n), exec' = exec
             PROVE  bull' \in [BullIds -> BullJob] /\ LockExclusive' /\ AttemptsLeft'
  BY <1>replayed, <1>added, <1>locked
<1>entry. ASSUME NEW e \in dlq \cup retryQ
          PROVE  /\ AdminTarget(e) \in BullIds /\ RetryTarget(e) \in BullIds
                 /\ e.replays + 1 \in Nat
  BY <1>type, ProductFacts DEF DlqEntry, AdminTarget, RetryTarget, MasterOf, BullIds, Steps
<1>16. ASSUME NEW e \in dlq, AdminReplay(e) PROVE OwnInv'
  <2>1. bull' \in [BullIds -> BullJob] /\ LockExclusive' /\ AttemptsLeft'
    BY <1>16, <1>entry, <1>replayed DEF AdminReplay
  <2>2. dlq' \subseteq DlqEntry
    BY <1>16, <1>type DEF AdminReplay
  <2> QED
    BY <1>16, <2>1, <2>2, <1>type, <1>count DEF AdminReplay, OperatorActs, TypeOK, LifecycleTypeOK
<1>17. ASSUME NEW e \in dlq, MoveToRetry(e) PROVE OwnInv'
  BY <1>17, <1>same, <1>type, <1>count DEF MoveToRetry, OperatorActs, TypeOK, LifecycleTypeOK
<1>18. ASSUME NEW e \in retryQ, RetryJob(e) PROVE OwnInv'
  <2>1. bull' \in [BullIds -> BullJob] /\ LockExclusive' /\ AttemptsLeft'
    BY <1>18, <1>entry, <1>replayed, <1>same, <1>type DEF RetryJob
  <2>2. retryQ' \subseteq DlqEntry
    BY <1>18, <1>type DEF RetryJob
  <2> QED
    BY <1>18, <2>1, <2>2, <1>type DEF RetryJob, TypeOK, LifecycleTypeOK
<1>19. ASSUME NEW b \in failedJobs, NestReplay(b) PROVE OwnInv'
  <2>1. b \in BullIds
    BY <1>type
  <2>2. bull' \in [BullIds -> BullJob] /\ LockExclusive' /\ AttemptsLeft'
    BY <1>19, <2>1, <1>replayed DEF NestReplay
  <2> QED
    BY <1>19, <2>2, <1>type, <1>count DEF NestReplay, OperatorActs, TypeOK, LifecycleTypeOK
<1>20. CASE UNCHANGED vars
  BY <1>20, <1>same, <1>type DEF vars, TypeOK, LifecycleTypeOK
<1> QED
  BY <1>1, <1>2, <1>3, <1>4, <1>5, <1>6, <1>7, <1>8, <1>9, <1>10, <1>11, <1>12, <1>13,
     <1>14, <1>15, <1>16, <1>17, <1>18, <1>19, <1>20 DEF Next, WorkerStep

\* Every variable keeps its type in every behaviour of the pipeline: in
\* particular no Bull job counts more attempts than `attempts` allows.
THEOREM TypeCorrect == Spec => []TypeOK
<1>1. OwnInv => TypeOK
  BY DEF OwnInv
<1> QED
  BY OwnInit, OwnStep, <1>1, PTL DEF Spec

(***************************************************************************)
(* Part 2: the claim comes first.  Whatever remembers a Bull job (the job  *)
(* itself, an execution, a handler, a queue entry, a failed_jobs row)      *)
(* belongs to a row that exists, and if it is a child's, to a row that was *)
(* taken; an execution past its claim knows that its row was taken.  This  *)
(* is inductive because a row once taken never goes back to waiting, which *)
(* is what the abstract lifecycle gives.                                   *)
(***************************************************************************)
Known(b) ==
  /\ row[JobOf(b)] # "absent"
  /\ StepOf(b) \in ChildSteps => Touched(JobOf(b))

TraceKnown == \A b \in BullIds : Trace(b) => Known(b)

ExecKnows(w) ==
  /\ StepOf(exec[w].bull) = "master" => exec[w].pc \in MasterPoints \cup {"return"}
  /\ StepOf(exec[w].bull) \in ChildSteps => exec[w].pc \in ChildPoints \cup {"return"}
  /\ exec[w].pc \notin {"read", "claim"} => Touched(JobAt(w))
  /\ exec[w].pc \in {"succeed", "report"} => persisted[JobAt(w)]

ExecsKnow == \A w \in Workers : exec[w] # Idle => ExecKnows(w)

ClaimInv == TraceKnown /\ ExecsKnow /\ CompletedMasterClaimed

LEMMA ClaimInit == Init => ClaimInv
BY DEF Init, ClaimInv, TraceKnown, Trace, ExecsKnow, CompletedMasterClaimed,
       NoBullJob, MasterOf, BullIds, Steps

\* What no step of a job's lifecycle takes back.
LEMMA LifecycleKeeps ==
  ASSUME LifecycleTypeOK, [LifecycleNext]_lifecycleVars, NEW j \in Jobs
  PROVE  /\ Touched(j) => Touched(j)'
         /\ row[j] # "absent" => row'[j] # "absent"
         /\ persisted[j] => persisted'[j]
BY DEF LifecycleTypeOK, LifecycleNext, lifecycleVars, Create, Start, Persist,
       Succeed, Fail, Touched

\* An execution is known through the Bull job it processes.
LEMMA ExecKnown ==
  ASSUME TypeOK, ClaimInv, NEW w \in Workers, exec[w] # Idle
  PROVE  /\ JobAt(w) \in Jobs
         /\ ExecKnows(w)
         /\ Known(exec[w].bull)
         /\ row[JobAt(w)] # "absent"
         /\ StepOf(exec[w].bull) \in Steps
<1>1. exec[w].bull \in BullIds /\ JobAt(w) \in Jobs
  BY ExecFacts
<1>2. Trace(exec[w].bull)
  BY DEF Trace
<1> QED
  BY <1>1, <1>2, ProductFacts DEF ClaimInv, TraceKnown, ExecsKnow, Known, JobAt

\* Every step of the pipeline is a step of the lifecycle, or changes neither
\* the status nor the records of any job.
LEMMA StepRefines ==
  ASSUME TypeOK, ClaimInv, [Next]_vars
  PROVE  [LifecycleNext]_lifecycleVars
<1>1. ASSUME NEW j \in Jobs, Submit(j) PROVE LifecycleNext
  BY <1>1 DEF Submit, LifecycleNext, Create
<1>2. ASSUME NEW w \in Workers, MasterClaim(w) PROVE [LifecycleNext]_lifecycleVars
  <2>1. JobAt(w) \in Jobs
    BY <1>2, ExecKnown DEF MasterClaim, At
  <2>2. CASE row[JobAt(w)] \in Claimable
    BY <1>2, <2>1, <2>2 DEF MasterClaim, Claimable, LifecycleNext, Start
  <2>3. CASE row[JobAt(w)] \notin Claimable
    BY <1>2, <2>3 DEF MasterClaim, lifecycleVars
  <2> QED
    BY <2>2, <2>3
<1>3. ASSUME NEW w \in Workers, ChildWrite(w) PROVE LifecycleNext
  <2>1. JobAt(w) \in Jobs /\ Touched(JobAt(w))
    BY <1>3, ExecKnown DEF ChildWrite, At, ExecKnows
  <2> QED
    BY <1>3, <2>1 DEF ChildWrite, LifecycleNext, Persist
<1>4. ASSUME NEW w \in Workers, ChildSucceed(w) PROVE LifecycleNext
  <2>1. JobAt(w) \in Jobs /\ Touched(JobAt(w)) /\ persisted[JobAt(w)]
    BY <1>4, ExecKnown DEF ChildSucceed, At, ExecKnows
  <2> QED
    BY <1>4, <2>1 DEF ChildSucceed, LifecycleNext, Succeed
<1>5. ASSUME NEW h \in handlers, HandlerMark(h) PROVE LifecycleNext
  <2>1. h.bull \in BullIds /\ JobOf(h.bull) \in Jobs
    BY ProductFacts DEF TypeOK, Handler
  <2>2. row[JobOf(h.bull)] # "absent"
    BY <2>1 DEF ClaimInv, TraceKnown, Trace, Known
  <2> QED
    BY <1>5, <2>1, <2>2 DEF HandlerMark, LifecycleNext, Fail
<1>6. ASSUME NEW w \in Workers,
             \/ MasterRead(w) \/ MasterAddChild(w) \/ ChildRead(w)
             \/ Complete(w) \/ Throw(w) \/ Crash(w) \/ LoseLock(w)
             \/ \E b \in BullIds : Deliver(w, b)
      PROVE  UNCHANGED lifecycleVars
  BY <1>6 DEF MasterRead, MasterAddChild, ChildRead, Complete, Throw, Crash,
              LoseLock, Deliver, lifecycleVars
<1>7. ASSUME NEW b \in BullIds, Stall(b) \/ Expire(b) PROVE UNCHANGED lifecycleVars
  BY <1>7 DEF Stall, Expire, lifecycleVars
<1>8. ASSUME NEW h \in handlers, HandlerDlqAdd(h) \/ HandlerFailedRow(h)
      PROVE  UNCHANGED lifecycleVars
  BY <1>8 DEF HandlerDlqAdd, HandlerFailedRow, lifecycleVars
<1>9. ASSUME NEW e, AdminReplay(e) \/ MoveToRetry(e) \/ RetryJob(e) \/ NestReplay(e)
      PROVE  UNCHANGED lifecycleVars
  BY <1>9 DEF AdminReplay, MoveToRetry, RetryJob, NestReplay, lifecycleVars
<1>10. CASE UNCHANGED vars
  BY <1>10 DEF vars, lifecycleVars
<1> QED
  BY <1>1, <1>2, <1>3, <1>4, <1>5, <1>6, <1>7, <1>8, <1>9, <1>10
     DEF Next, WorkerStep, HandlerRun

LEMMA ClaimStep ==
  ASSUME OwnInv, ClaimInv, [Next]_vars
  PROVE  ClaimInv'
<1> USE DEF OwnInv
<1>type. /\ bull \in [BullIds -> BullJob]
         /\ exec \in [Workers -> Execution \cup {Idle}]
         /\ handlers \subseteq Handler
         /\ dlq \subseteq DlqEntry
         /\ retryQ \subseteq DlqEntry
         /\ failedJobs \subseteq BullIds
         /\ row \in [Jobs -> Statuses]
         /\ persisted \in [Jobs -> BOOLEAN]
  BY DEF TypeOK, LifecycleTypeOK
<1>keep. \A j \in Jobs :
           /\ Touched(j) => Touched(j)'
           /\ row[j] # "absent" => row'[j] # "absent"
           /\ persisted[j] => persisted'[j]
  BY StepRefines, LifecycleKeeps DEF TypeOK
<1>known. ASSUME NEW b \in BullIds, Known(b) PROVE Known(b)'
  BY <1>known, <1>keep, ProductFacts DEF Known
<1>trace. ASSUME \A b \in BullIds : Trace(b)' => Trace(b) \/ Known(b)'
          PROVE  TraceKnown'
  BY <1>trace, <1>known DEF ClaimInv, TraceKnown
<1>execs. ASSUME \A w \in Workers : exec'[w] # Idle =>
                   \/ ExecKnows(w)'
                   \/ exec[w] # Idle /\ exec'[w].bull = exec[w].bull /\ exec'[w].pc = exec[w].pc
          PROVE  ExecsKnow'
  <2>1. ASSUME NEW w \in Workers, exec'[w] # Idle, exec[w] # Idle,
               exec'[w].bull = exec[w].bull, exec'[w].pc = exec[w].pc
        PROVE  ExecKnows(w)'
    BY <2>1, <1>keep, ExecKnown DEF ExecKnows, JobAt
  <2> QED
    BY <1>execs, <2>1 DEF ExecsKnow
<1>done. ASSUME \A j \in Jobs : bull'[MasterOf(j)].st = "completed" =>
                  bull[MasterOf(j)].st = "completed" \/ Touched(j)'
         PROVE  CompletedMasterClaimed'
  BY <1>done, <1>keep DEF ClaimInv, CompletedMasterClaimed
<1>added. ASSUME NEW b \in BullIds, NEW n \in Nat, bull' = Added(b, n)
          PROVE  /\ \A c \in BullIds : bull'[c].st # "none" => bull[c].st # "none" \/ c = b
                 /\ \A c \in BullIds : bull'[c].st = "completed" => bull[c].st = "completed"
  <2>1. \A c \in BullIds :
          \/ bull'[c] = bull[c]
          \/ c = b /\ bull[c].st = "none" /\ bull'[c] = Fresh(n)
    BY <1>added, AddedFacts
  <2> QED
    BY <2>1 DEF Fresh
<1>master. \A j \in Jobs : MasterOf(j) \in BullIds /\ JobOf(MasterOf(j)) = j /\ StepOf(MasterOf(j)) = "master"
  BY DEF MasterOf, BullIds, Steps, JobOf, StepOf
<1>1. ASSUME NEW j \in Jobs, Submit(j) PROVE ClaimInv'
  <2>1. row'[j] = "queued"
    BY <1>1, <1>type DEF Submit
  <2>2. Known(MasterOf(j))'
    BY <2>1, <1>master DEF Known, ChildSteps
  <2>3. bull' = Added(MasterOf(j), 0) \/ bull' = bull
    BY <1>1 DEF Submit
  <2>4. /\ \A c \in BullIds : bull'[c].st # "none" => bull[c].st # "none" \/ c = MasterOf(j)
        /\ \A c \in BullIds : bull'[c].st = "completed" => bull[c].st = "completed"
    BY <2>3, <1>added, <1>master
  <2>5. TraceKnown'
    BY <1>1, <2>2, <2>4, <1>trace DEF Submit, Trace
  <2>6. CompletedMasterClaimed'
    BY <2>4, <1>done, <1>master
  <2>7. ExecsKnow'
    BY <1>1, <1>execs DEF Submit
  <2> QED
    BY <2>5, <2>6, <2>7 DEF ClaimInv
<1>2. ASSUME NEW w \in Workers, MasterRead(w) PROVE ClaimInv'
  <2> DEFINE pc == IF row[JobAt(w)] = "succeeded" THEN "return" ELSE "claim"
  <2>1. exec[w] # Idle /\ pc \in MasterPoints \cup ChildPoints \cup {"return"}
    BY <1>2 DEF MasterRead, At, MasterPoints, ChildPoints
  <2>2. Goto(w, pc)
    BY <1>2 DEF MasterRead
  <2> HIDE DEF pc
  <2>3. /\ exec'[w].bull = exec[w].bull /\ exec'[w].pc = pc
        /\ \A v \in Workers \ {w} : exec'[v] = exec[v]
    BY <2>1, <2>2, GotoFacts
  <2>4. TraceKnown'
    BY <1>2, <2>1, <2>3, <1>trace DEF MasterRead, Trace
  <2>5. CompletedMasterClaimed'
    BY <1>2, <1>done DEF MasterRead
  <2>6. /\ ExecKnows(w) /\ JobAt(w) \in Jobs /\ row[JobAt(w)] # "absent" /\ Known(exec[w].bull)
        /\ JobAt(w)' = JobAt(w)
    BY <2>1, <2>3, ExecKnown DEF JobAt
  <2>7. ExecKnows(w)'
    <3>1. StepOf(exec[w].bull) \notin ChildSteps /\ pc \in MasterPoints \cup {"return"}
      BY <1>2, <2>6 DEF pc, MasterRead, At, ExecKnows, MasterPoints, ChildPoints
    <3>2. pc \notin {"read", "claim"} => Touched(JobAt(w))'
      BY <1>2, <2>6, <1>type, <1>keep DEF pc, MasterRead, Touched, Claimable
    <3>3. pc \notin {"succeed", "report"}
      BY DEF pc
    <3> QED
      BY <2>3, <2>6, <3>1, <3>2, <3>3 DEF ExecKnows
  <2> QED
    BY <2>3, <2>4, <2>5, <2>7, <1>execs DEF ClaimInv
<1>3. ASSUME NEW w \in Workers, MasterClaim(w) PROVE ClaimInv'
  <2> DEFINE pc == IF row[JobAt(w)] \in Claimable THEN "addPrepare" ELSE "skipEvent"
  <2>1. exec[w] # Idle /\ pc \in MasterPoints \cup ChildPoints \cup {"return"}
    BY <1>3 DEF MasterClaim, At, MasterPoints, ChildPoints
  <2>2. Goto(w, pc)
    BY <1>3 DEF MasterClaim
  <2> HIDE DEF pc
  <2>3. /\ exec'[w].bull = exec[w].bull /\ exec'[w].pc = pc
        /\ \A v \in Workers \ {w} : exec'[v] = exec[v]
    BY <2>1, <2>2, GotoFacts
  <2>4. TraceKnown'
    BY <1>3, <2>1, <2>3, <1>trace DEF MasterClaim, Trace
  <2>5. CompletedMasterClaimed'
    BY <1>3, <1>done DEF MasterClaim
  <2>6. /\ ExecKnows(w) /\ JobAt(w) \in Jobs /\ row[JobAt(w)] # "absent" /\ Known(exec[w].bull)
        /\ JobAt(w)' = JobAt(w)
    BY <2>1, <2>3, ExecKnown DEF JobAt
  <2>7. ExecKnows(w)'
    <3>1. StepOf(exec[w].bull) \notin ChildSteps /\ pc \in MasterPoints \cup {"return"}
      BY <1>3, <2>6 DEF pc, MasterClaim, At, ExecKnows, MasterPoints, ChildPoints
    <3>2. pc \notin {"read", "claim"} => Touched(JobAt(w))'
      BY <1>3, <2>6, <1>type, <1>keep DEF pc, MasterClaim, Touched, Claimable
    <3>3. pc \notin {"succeed", "report"}
      BY DEF pc
    <3> QED
      BY <2>3, <2>6, <3>1, <3>2, <3>3 DEF ExecKnows
  <2> QED
    BY <2>3, <2>4, <2>5, <2>7, <1>execs DEF ClaimInv
<1>4. ASSUME NEW w \in Workers, ChildRead(w) PROVE ClaimInv'
  <2> DEFINE pc == CASE row[JobAt(w)] \in {"absent", "succeeded"} -> "return"
                     [] StepOf(exec[w].bull) = "prepare" -> "childEvent"
                     [] OTHER -> "write"
  <2>1. exec[w] # Idle /\ pc \in MasterPoints \cup ChildPoints \cup {"return"}
    BY <1>4 DEF ChildRead, At, MasterPoints, ChildPoints
  <2>2. Goto(w, pc)
    BY <1>4 DEF ChildRead
  <2> HIDE DEF pc
  <2>3. /\ exec'[w].bull = exec[w].bull /\ exec'[w].pc = pc
        /\ \A v \in Workers \ {w} : exec'[v] = exec[v]
    BY <2>1, <2>2, GotoFacts
  <2>4. TraceKnown'
    BY <1>4, <2>1, <2>3, <1>trace DEF ChildRead, Trace
  <2>5. CompletedMasterClaimed'
    BY <1>4, <1>done DEF ChildRead
  <2>6. /\ ExecKnows(w) /\ JobAt(w) \in Jobs /\ row[JobAt(w)] # "absent" /\ Known(exec[w].bull)
        /\ JobAt(w)' = JobAt(w)
    BY <2>1, <2>3, ExecKnown DEF JobAt
  <2>7. ExecKnows(w)'
    <3>1. StepOf(exec[w].bull) # "master" /\ pc \in ChildPoints \cup {"return"}
      BY <1>4, <2>6 DEF pc, ChildRead, At, ExecKnows, MasterPoints, ChildPoints
    <3>2. Touched(JobAt(w))'
      BY <1>4, <2>6, <1>keep DEF ChildRead, At, ExecKnows
    <3>3. pc \in {"succeed", "report"} => persisted'[JobAt(w)]
      BY <1>4, <2>6, <1>type, <1>keep DEF pc, ChildRead, At, ExecKnows
    <3> QED
      BY <2>3, <2>6, <3>1, <3>2, <3>3 DEF ExecKnows
  <2> QED
    BY <2>3, <2>4, <2>5, <2>7, <1>execs DEF ClaimInv
<1>5. ASSUME NEW w \in Workers, ChildWrite(w) PROVE ClaimInv'
  <2> DEFINE pc == "succeed"
  <2>1. exec[w] # Idle /\ pc \in MasterPoints \cup ChildPoints \cup {"return"}
    BY <1>5 DEF ChildWrite, At, MasterPoints, ChildPoints
  <2>2. Goto(w, pc)
    BY <1>5 DEF ChildWrite
  <2> HIDE DEF pc
  <2>3. /\ exec'[w].bull = exec[w].bull /\ exec'[w].pc = pc
        /\ \A v \in Workers \ {w} : exec'[v] = exec[v]
    BY <2>1, <2>2, GotoFacts
  <2>4. TraceKnown'
    BY <1>5, <2>1, <2>3, <1>trace DEF ChildWrite, Trace
  <2>5. CompletedMasterClaimed'
    BY <1>5, <1>done DEF ChildWrite
  <2>6. /\ ExecKnows(w) /\ JobAt(w) \in Jobs /\ row[JobAt(w)] # "absent" /\ Known(exec[w].bull)
        /\ JobAt(w)' = JobAt(w)
    BY <2>1, <2>3, ExecKnown DEF JobAt
  <2>7. ExecKnows(w)'
    <3>1. StepOf(exec[w].bull) # "master" /\ pc \in ChildPoints \cup {"return"}
      BY <1>5, <2>6 DEF pc, ChildWrite, At, ExecKnows, MasterPoints, ChildPoints
    <3>2. Touched(JobAt(w))'
      BY <1>5, <2>6, <1>keep DEF ChildWrite, At, ExecKnows
    <3>3. pc \in {"succeed", "report"} => persisted'[JobAt(w)]
      BY <1>5, <2>6, <1>type, <1>keep DEF pc, ChildWrite, At, ExecKnows
    <3> QED
      BY <2>3, <2>6, <3>1, <3>2, <3>3 DEF ExecKnows
  <2> QED
    BY <2>3, <2>4, <2>5, <2>7, <1>execs DEF ClaimInv
<1>6. ASSUME NEW w \in Workers, ChildSucceed(w) PROVE ClaimInv'
  <2> DEFINE pc == "report"
  <2>1. exec[w] # Idle /\ pc \in MasterPoints \cup ChildPoints \cup {"return"}
    BY <1>6 DEF ChildSucceed, At, MasterPoints, ChildPoints
  <2>2. Goto(w, pc)
    BY <1>6 DEF ChildSucceed
  <2> HIDE DEF pc
  <2>3. /\ exec'[w].bull = exec[w].bull /\ exec'[w].pc = pc
        /\ \A v \in Workers \ {w} : exec'[v] = exec[v]
    BY <2>1, <2>2, GotoFacts
  <2>4. TraceKnown'
    BY <1>6, <2>1, <2>3, <1>trace DEF ChildSucceed, Trace
  <2>5. CompletedMasterClaimed'
    BY <1>6, <1>done DEF ChildSucceed
  <2>6. /\ ExecKnows(w) /\ JobAt(w) \in Jobs /\ row[JobAt(w)] # "absent" /\ Known(exec[w].bull)
        /\ JobAt(w)' = JobAt(w)
    BY <2>1, <2>3, ExecKnown DEF JobAt
  <2>7. ExecKnows(w)'
    <3>1. StepOf(exec[w].bull) # "master" /\ pc \in ChildPoints \cup {"return"}
      BY <1>6, <2>6 DEF pc, ChildSucceed, At, ExecKnows, MasterPoints, ChildPoints
    <3>2. Touched(JobAt(w))'
      BY <1>6, <2>6, <1>keep DEF ChildSucceed, At, ExecKnows
    <3>3. pc \in {"succeed", "report"} => persisted'[JobAt(w)]
      BY <1>6, <2>6, <1>type, <1>keep DEF pc, ChildSucceed, At, ExecKnows
    <3> QED
      BY <2>3, <2>6, <3>1, <3>2, <3>3 DEF ExecKnows
  <2> QED
    BY <2>3, <2>4, <2>5, <2>7, <1>execs DEF ClaimInv
<1>7. ASSUME NEW w \in Workers, MasterAddChild(w) PROVE ClaimInv'
  <2>1. PICK step \in ChildSteps :
          /\ At(w, IF step = "prepare" THEN "addPrepare" ELSE "addPersist")
          /\ bull' = Added(<<JobAt(w), step>>, exec[w].replays)
          /\ Goto(w, IF step = "prepare" THEN "addPersist" ELSE "progress")
          /\ UNCHANGED <<row, persisted, handlers, dlq, retryQ, failedJobs, faults>>
    BY <1>7 DEF MasterAddChild
  <2>2. exec[w] # Idle /\ exec[w].pc \in {"addPrepare", "addPersist"}
    BY <2>1 DEF At
  <2>3. ExecKnows(w) /\ JobAt(w) \in Jobs
    BY <2>2, ExecKnown
  <2>0. PICK b \in BullIds : b = <<JobAt(w), step>>
    BY <2>3 DEF BullIds, Steps
  <2>4. exec[w].replays \in Nat /\ JobOf(b) = JobAt(w)
    BY <2>0, <2>2, ExecFacts DEF JobOf
  <2>5. Touched(JobAt(w))
    BY <2>2, <2>3 DEF ExecKnows
  <2>6. Known(b)'
    <3>1. row'[JobAt(w)] \notin {"absent", "queued"}
      BY <2>3, <2>5, <1>keep DEF Touched
    <3>2. row'[JobOf(b)] \notin {"absent", "queued"}
      BY <2>4, <3>1
    <3> QED
      BY <3>2 DEF Known, Touched
  <2>7. (IF step = "prepare" THEN "addPersist" ELSE "progress")
          \in MasterPoints \cup ChildPoints \cup {"return"}
    BY DEF MasterPoints
  <2>8. /\ exec'[w].bull = exec[w].bull
        /\ exec'[w].pc \in {"addPersist", "progress"}
        /\ \A v \in Workers \ {w} : exec'[v] = exec[v]
    BY <2>1, <2>2, <2>7, GotoFacts
  <2>9. /\ \A c \in BullIds : bull'[c].st # "none" => bull[c].st # "none" \/ c = b
        /\ \A c \in BullIds : bull'[c].st = "completed" => bull[c].st = "completed"
    BY <2>0, <2>1, <2>4, <1>added
  <2>10. TraceKnown'
    <3>1. ASSUME NEW c \in BullIds, Trace(c)' PROVE Trace(c) \/ c = b
      BY <3>1, <2>1, <2>2, <2>8, <2>9 DEF Trace
    <3>2. \A c \in BullIds : Trace(c)' => Trace(c) \/ Known(c)'
      BY <3>1, <2>6
    <3> QED
      BY <3>2, <1>trace
  <2>11. CompletedMasterClaimed'
    BY <2>9, <1>done, <1>master
  <2>12. ExecKnows(w)'
    BY <2>2, <2>3, <2>5, <2>8, <1>keep
       DEF ExecKnows, JobAt, MasterPoints, ChildPoints, ChildSteps
  <2> QED
    BY <2>8, <2>10, <2>11, <2>12, <1>execs DEF ClaimInv
<1>8. ASSUME NEW w \in Workers, Complete(w) PROVE ClaimInv'
  <2>1. exec[w] # Idle /\ exec[w].pc \in LastPoints
    BY <1>8 DEF Complete, At
  <2>2. exec[w].bull \in BullIds /\ ExecKnows(w) /\ Trace(exec[w].bull)
    BY <2>1, ExecFacts, ExecKnown DEF Trace
  <2>3. Touched(JobAt(w))
    BY <2>1, <2>2 DEF ExecKnows, LastPoints
  <2>4. \A c \in BullIds : c # exec[w].bull => bull'[c] = bull[c]
    BY <1>8, <2>2, <1>type DEF Complete
  <2>5. \A v \in Workers : exec'[v] # Idle => exec'[v] = exec[v]
    BY <1>8, <1>type DEF Complete
  <2>6. TraceKnown'
    <3>1. ASSUME NEW c \in BullIds, Trace(c)' PROVE Trace(c)
      BY <1>8, <3>1, <2>2, <2>4, <2>5 DEF Complete, Trace
    <3> QED
      BY <3>1, <1>trace
  <2>7. CompletedMasterClaimed'
    <3>1. \A j \in Jobs : MasterOf(j) = exec[w].bull => JobAt(w) = j
      BY <1>master DEF JobAt
    <3> QED
      BY <2>3, <2>4, <3>1, <1>done, <1>keep, <1>master
  <2>8. ExecsKnow'
    BY <2>5, <1>execs
  <2> QED
    BY <2>6, <2>7, <2>8 DEF ClaimInv
<1>9. ASSUME NEW w \in Workers, Throw(w) PROVE ClaimInv'
  <2>1. exec[w] # Idle
    BY <1>9 DEF Throw, At
  <2>2. exec[w].bull \in BullIds /\ Trace(exec[w].bull)
    BY <2>1, ExecFacts DEF Trace
  <2>3. \A v \in Workers : exec'[v] # Idle => exec'[v] = exec[v]
    BY <1>9, <1>type DEF Throw
  <2>4. /\ \A c \in BullIds : c # exec[w].bull => bull'[c] = bull[c]
        /\ bull'[exec[w].bull].st = "completed" => bull[exec[w].bull].st = "completed"
        /\ \A h \in handlers' : h \in handlers \/ h.bull = exec[w].bull
    BY <1>9, <2>2, <1>type DEF Throw, FailedHandler, BullJob
  <2>5. TraceKnown'
    <3>1. ASSUME NEW c \in BullIds, Trace(c)' PROVE Trace(c)
      BY <1>9, <3>1, <2>2, <2>3, <2>4 DEF Throw, Trace
    <3> QED
      BY <3>1, <1>trace
  <2>6. CompletedMasterClaimed'
    BY <2>4, <1>done, <1>master
  <2>7. ExecsKnow'
    BY <2>3, <1>execs
  <2> QED
    BY <2>5, <2>6, <2>7 DEF ClaimInv
<1>10. ASSUME NEW w \in Workers, Crash(w) PROVE ClaimInv'
  <2>1. \A v \in Workers : exec'[v] # Idle => exec'[v] = exec[v]
    BY <1>10, <1>type DEF Crash
  <2>2. TraceKnown'
    BY <1>10, <2>1, <1>trace DEF Crash, Trace
  <2>3. CompletedMasterClaimed' /\ ExecsKnow'
    BY <1>10, <2>1, <1>execs, <1>done DEF Crash
  <2> QED
    BY <2>2, <2>3 DEF ClaimInv
<1>11. ASSUME NEW w \in Workers, LoseLock(w) PROVE ClaimInv'
  <2>1. exec[w] # Idle /\ exec[w] \in Execution
    BY <1>11, ExecFacts DEF LoseLock
  <2>2. [exec[w] EXCEPT !.lock = FALSE].bull = exec[w].bull /\ [exec[w] EXCEPT !.lock = FALSE].pc = exec[w].pc
    BY <2>1 DEF Execution
  <2>3. exec' = [exec EXCEPT ![w] = [exec[w] EXCEPT !.lock = FALSE]]
    BY <1>11 DEF LoseLock
  <2>4. \A v \in Workers : exec'[v] # Idle =>
          exec[v] # Idle /\ exec'[v].bull = exec[v].bull /\ exec'[v].pc = exec[v].pc
    BY <2>1, <2>2, <2>3, <1>type
  <2>5. TraceKnown'
    BY <1>11, <2>4, <1>trace DEF LoseLock, Trace
  <2>6. CompletedMasterClaimed' /\ ExecsKnow'
    BY <1>11, <2>4, <1>execs, <1>done DEF LoseLock
  <2> QED
    BY <2>5, <2>6 DEF ClaimInv
<1>12. ASSUME NEW w \in Workers, NEW b \in BullIds, Deliver(w, b) PROVE ClaimInv'
  <2>1. bull[b].st = "wait" /\ Known(b) /\ JobOf(b) \in Jobs /\ StepOf(b) \in Steps
    BY <1>12, ProductFacts DEF Deliver, ClaimInv, TraceKnown, Trace
  <2>2. /\ exec'[w].bull = b
        /\ exec'[w].pc = IF StepOf(b) = "master" THEN "read" ELSE "childRead"
        /\ \A v \in Workers \ {w} : exec'[v] = exec[v]
    BY <1>12, <1>type DEF Deliver
  <2>3. /\ \A c \in BullIds : bull'[c].st # "none" => bull[c].st # "none"
        /\ \A c \in BullIds : bull'[c].st = "completed" => bull[c].st = "completed"
    BY <1>12, <1>type DEF Deliver, BullJob
  <2>4. TraceKnown'
    <3>1. ASSUME NEW c \in BullIds, Trace(c)' PROVE Trace(c)
      BY <1>12, <3>1, <2>1, <2>2, <2>3 DEF Deliver, Trace
    <3> QED
      BY <3>1, <1>trace
  <2>5. ExecKnows(w)'
    BY <2>1, <2>2, <1>keep DEF ExecKnows, JobAt, MasterPoints, ChildPoints, ChildSteps, Steps, Known
  <2>6. ExecsKnow' /\ CompletedMasterClaimed'
    BY <2>2, <2>3, <2>5, <1>execs, <1>done, <1>master
  <2> QED
    BY <2>4, <2>6 DEF ClaimInv
<1>13. ASSUME NEW b \in BullIds, Stall(b) PROVE ClaimInv'
  <2>1. Trace(b)
    BY <1>13 DEF Stall, Trace
  <2>2. /\ \A c \in BullIds : c # b => bull'[c] = bull[c]
        /\ bull'[b].st # "completed"
        /\ \A h \in handlers' : h \in handlers \/ h.bull = b
    BY <1>13, <1>type DEF Stall, FailedHandler, BullJob
  <2>3. TraceKnown'
    <3>1. ASSUME NEW c \in BullIds, Trace(c)' PROVE Trace(c)
      BY <1>13, <3>1, <2>1, <2>2 DEF Stall, Trace
    <3> QED
      BY <3>1, <1>trace
  <2>4. ExecsKnow' /\ CompletedMasterClaimed'
    BY <1>13, <2>2, <1>execs, <1>done, <1>master DEF Stall
  <2> QED
    BY <2>3, <2>4 DEF ClaimInv
<1>14. ASSUME NEW b \in BullIds, Expire(b) PROVE ClaimInv'
  <2>1. \A c \in BullIds : bull'[c] = bull[c] \/ bull'[c].st = "none"
    BY <1>14, <1>type DEF Expire, NoBullJob
  <2>2. TraceKnown'
    BY <1>14, <2>1, <1>trace DEF Expire, Trace
  <2>3. ExecsKnow' /\ CompletedMasterClaimed'
    BY <1>14, <2>1, <1>execs, <1>done, <1>master DEF Expire
  <2> QED
    BY <2>2, <2>3 DEF ClaimInv
<1>15. ASSUME NEW h \in handlers, HandlerRun(h) PROVE ClaimInv'
  <2>1. /\ [h EXCEPT !.pc = "failedRow"].bull = h.bull
        /\ [h EXCEPT !.pc = "mark"].bull = h.bull
    BY <1>type DEF Handler
  <2>2. UNCHANGED <<bull, exec, retryQ>>
        /\ (\A g \in handlers' : g.bull = h.bull \/ g \in handlers)
        /\ (\A e \in dlq' : e.bull = h.bull \/ e \in dlq)
        /\ (\A b \in failedJobs' : b = h.bull \/ b \in failedJobs)
    <3>1. CASE HandlerDlqAdd(h)
      <4>1. UNCHANGED <<bull, exec, retryQ, failedJobs>>
            /\ \A g \in handlers' : g.bull = h.bull \/ g \in handlers
        BY <2>1, <3>1 DEF HandlerDlqAdd, HandlerStep
      <4>2. dlq' = dlq \cup {[bull |-> h.bull, replays |-> h.replays]} \/ dlq' = dlq
        BY <3>1 DEF HandlerDlqAdd
      <4>3. [bull |-> h.bull, replays |-> h.replays].bull = h.bull
        OBVIOUS
      <4> QED
        BY <4>1, <4>2, <4>3
    <3>2. CASE HandlerFailedRow(h)
      BY <2>1, <3>2 DEF HandlerFailedRow, HandlerStep
    <3>3. CASE HandlerMark(h)
      BY <2>1, <3>3 DEF HandlerMark
    <3> QED
      BY <1>15, <3>1, <3>2, <3>3 DEF HandlerRun
  <2>3. TraceKnown'
    <3>1. ASSUME NEW c \in BullIds, Trace(c)' PROVE Trace(c)
      BY <3>1, <2>2 DEF Trace
    <3> QED
      BY <3>1, <1>trace
  <2>4. ExecsKnow' /\ CompletedMasterClaimed'
    BY <2>2, <1>execs, <1>done
  <2> QED
    BY <2>3, <2>4 DEF ClaimInv
<1>entry. ASSUME NEW e \in dlq \cup retryQ
          PROVE  /\ AdminTarget(e) \in BullIds /\ Known(AdminTarget(e))
                 /\ RetryTarget(e) \in BullIds /\ Trace(RetryTarget(e))
                 /\ e.replays + 1 \in Nat
  <2>1. e.bull \in BullIds /\ e.replays \in Nat
    BY <1>type DEF DlqEntry
  <2>2. Trace(e.bull)
    BY DEF Trace
  <2>3. Known(e.bull) /\ JobOf(e.bull) \in Jobs
    BY <2>1, <2>2, ProductFacts DEF ClaimInv, TraceKnown
  <2>4. Known(AdminTarget(e))
    BY <2>3, <1>master DEF AdminTarget, Known, ChildSteps
  <2> QED
    BY <2>1, <2>2, <2>3, <2>4, <1>master DEF AdminTarget, RetryTarget
<1>replayed. ASSUME NEW b \in BullIds, NEW n \in Nat, bull' = Added(b, n) \/ bull' = bull,
                    Known(b)',
                    UNCHANGED <<exec, handlers, failedJobs>>,
                    dlq' \cup retryQ' \subseteq dlq \cup retryQ
             PROVE  ClaimInv'
  <2>1. /\ \A c \in BullIds : bull'[c].st # "none" => bull[c].st # "none" \/ c = b
        /\ \A c \in BullIds : bull'[c].st = "completed" => bull[c].st = "completed"
    BY <1>replayed, <1>added
  <2>2. TraceKnown'
    <3>1. ASSUME NEW c \in BullIds, Trace(c)' PROVE Trace(c) \/ c = b
      BY <3>1, <1>replayed, <2>1 DEF Trace
    <3> QED
      BY <3>1, <1>replayed, <1>trace
  <2>3. ExecsKnow' /\ CompletedMasterClaimed'
    BY <1>replayed, <2>1, <1>execs, <1>done, <1>master
  <2> QED
    BY <2>2, <2>3 DEF ClaimInv
<1>16. ASSUME NEW e \in dlq, AdminReplay(e) PROVE ClaimInv'
  BY <1>16, <1>entry, <1>known, <1>replayed DEF AdminReplay
<1>17. ASSUME NEW e \in dlq, MoveToRetry(e) PROVE ClaimInv'
  <2>1. dlq' \cup retryQ' \subseteq dlq \cup retryQ
    BY <1>17 DEF MoveToRetry
  <2> QED
    BY <1>17, <2>1, <1>entry, <1>known, <1>replayed DEF MoveToRetry
<1>18. ASSUME NEW e \in retryQ, RetryJob(e) PROVE ClaimInv'
  <2>1. Known(RetryTarget(e))'
    BY <1>entry, <1>known DEF ClaimInv, TraceKnown
  <2> QED
    BY <1>18, <2>1, <1>entry, <1>replayed DEF RetryJob
<1>19. ASSUME NEW b \in failedJobs, NestReplay(b) PROVE ClaimInv'
  <2>1. b \in BullIds /\ Trace(b)
    BY <1>type DEF Trace
  <2>2. Known(b)'
    BY <2>1, <1>known DEF ClaimInv, TraceKnown
  <2> QED
    BY <1>19, <2>1, <2>2, <1>replayed DEF NestReplay
<1>20. CASE UNCHANGED vars
  BY <1>20 DEF vars, ClaimInv, TraceKnown, Trace, Known, Touched, ExecsKnow,
               ExecKnows, JobAt, CompletedMasterClaimed
<1> QED
  BY <1>1, <1>2, <1>3, <1>4, <1>5, <1>6, <1>7, <1>8, <1>9, <1>10, <1>11, <1>12, <1>13,
     <1>14, <1>15, <1>16, <1>17, <1>18, <1>19, <1>20 DEF Next, WorkerStep

LEMMA OwnAndClaim == Spec => [](OwnInv /\ ClaimInv)
<1>1. OwnInv /\ ClaimInv /\ [Next]_vars => (OwnInv /\ ClaimInv)'
  BY OwnStep, ClaimStep
<1> QED
  BY OwnInit, ClaimInit, <1>1, PTL DEF Spec

\* The pipeline, with its crashes, lapsed locks, double deliveries and replays,
\* does to a job's row and records only what JobLifecycle allows: records are
\* written only for a job that was taken, success is declared only over written
\* records, and a succeeded job never starts again unless it was failed first.
THEOREM PipelineImplementsLifecycle == Spec => LifecycleSpec
<1>1. Init => LifecycleInit
  BY DEF Init
<1>2. OwnInv /\ ClaimInv /\ [Next]_vars => [LifecycleNext]_lifecycleVars
  BY StepRefines DEF OwnInv
<1> QED
  BY OwnAndClaim, <1>1, <1>2, PTL DEF Spec, LifecycleSpec

\* No child Bull job and no trace of one exists for a job nobody has taken: the
\* fan-out of processMasterJob stays behind its claim in every behaviour.
THEOREM ChildrenAfterClaim == Spec => []NoChildBeforeClaim
<1>1. OwnInv /\ ClaimInv => NoChildBeforeClaim
  <2> SUFFICES ASSUME ClaimInv, NEW j \in Jobs, NEW step \in ChildSteps, Trace(<<j, step>>)
               PROVE  Touched(j)
    BY DEF NoChildBeforeClaim
  <2>1. <<j, step>> \in BullIds
    BY DEF BullIds, Steps
  <2> QED
    BY <2>1 DEF ClaimInv, TraceKnown, Known, JobOf, StepOf
<1> QED
  BY OwnAndClaim, <1>1, PTL

\* A master Bull job that completed, by any of its early returns too, left a
\* row that somebody took.
THEOREM CompletedMasterIsClaimed == Spec => []CompletedMasterClaimed
<1>1. OwnInv /\ ClaimInv => CompletedMasterClaimed
  BY DEF ClaimInv
<1> QED
  BY OwnAndClaim, <1>1, PTL

(***************************************************************************)
(* Part 3: the replay cap.  A replay count travels from the Bull job to    *)
(* the execution, to the children it adds, to the handler of its failure   *)
(* and to the DLQ entry; the bound has to hold at every one of them.  That *)
(* nothing is in the retry queue unless its door is open is needed because *)
(* the worker's cap counts only then.                                      *)
(***************************************************************************)
ReplaysWithin ==
  /\ \A b \in BullIds : WithinCap(bull[b].replays)
  /\ \A w \in Workers : exec[w] # Idle => WithinCap(exec[w].replays)
  /\ \A h \in handlers : WithinCap(h.replays)
  /\ \A e \in dlq \cup retryQ : WithinCap(e.replays)
  /\ retryQ # {} => "retry" \in Doors

LEMMA ReplaysInit == Init => ReplaysWithin
BY DEF Init, ReplaysWithin, NoBullJob, WithinCap

\* A door that lets an entry through leaves its count within the cap of that door.
LEMMA ReplayStaysWithin ==
  ASSUME NEW e \in DlqEntry, NEW door \in {"admin", "retry"}, door \in Doors, MayReplay(e, door)
  PROVE  e.replays + 1 \in Nat /\ WithinCap(e.replays + 1)
<1>1. e.replays \in Nat /\ CapOf(door) \in Nat
  BY PipelineAssumption DEF DlqEntry, CapOf
<1>2. e.replays + 1 <= CapOf(door)
  BY <1>1 DEF MayReplay
<1> QED
  BY <1>1, <1>2 DEF WithinCap

LEMMA ReplaysStep ==
  ASSUME TypeOK, ReplaysWithin, [Next]_vars
  PROVE  ReplaysWithin'
<1>type. /\ bull \in [BullIds -> BullJob]
         /\ exec \in [Workers -> Execution \cup {Idle}]
         /\ handlers \subseteq Handler
         /\ dlq \subseteq DlqEntry
         /\ retryQ \subseteq DlqEntry
         /\ failedJobs \subseteq BullIds
  BY DEF TypeOK
<1>added. ASSUME NEW b \in BullIds, NEW n \in Nat, WithinCap(n), bull' = Added(b, n)
          PROVE  \A c \in BullIds : WithinCap(bull'[c].replays)
  <2>1. \A c \in BullIds : bull'[c] = bull[c] \/ bull'[c] = Fresh(n)
    BY <1>added, AddedFacts
  <2> QED
    BY <1>added, <2>1 DEF Fresh, ReplaysWithin
<1>goto. ASSUME NEW w \in Workers, exec[w] # Idle,
                NEW pc \in MasterPoints \cup ChildPoints \cup {"return"}, Goto(w, pc)
         PROVE  \A v \in Workers : exec'[v] # Idle => WithinCap(exec'[v].replays)
  <2>1. exec'[w].replays = exec[w].replays
        /\ \A v \in Workers \ {w} : exec'[v] = exec[v]
    BY <1>goto, GotoFacts
  <2>2. ASSUME NEW v \in Workers, exec'[v] # Idle PROVE WithinCap(exec'[v].replays)
    <3>1. CASE v = w
      BY <1>goto, <2>1, <3>1 DEF ReplaysWithin
    <3>2. CASE v # w
      BY <2>1, <2>2, <3>2 DEF ReplaysWithin
    <3> QED
      BY <3>1, <3>2
  <2> QED
    BY <2>2
<1>1. ASSUME NEW j \in Jobs, Submit(j) PROVE ReplaysWithin'
  <2>1. MasterOf(j) \in BullIds
    BY DEF MasterOf, BullIds, Steps
  <2>2. \A c \in BullIds : WithinCap(bull'[c].replays)
    <3>1. CASE bull' = Added(MasterOf(j), 0)
      <4>1. WithinCap(0)
        BY DEF WithinCap
      <4> QED
        BY <3>1, <4>1, <2>1, <1>added
    <3>2. CASE bull' = bull
      BY <3>2 DEF ReplaysWithin
    <3> QED
      BY <1>1, <3>1, <3>2 DEF Submit
  <2> QED
    BY <1>1, <2>2 DEF Submit, ReplaysWithin
<1>2. ASSUME NEW w \in Workers,
             MasterRead(w) \/ MasterClaim(w) \/ ChildRead(w) \/ ChildWrite(w) \/ ChildSucceed(w)
      PROVE  ReplaysWithin'
  <2>1. exec[w] # Idle
        /\ \E pc \in MasterPoints \cup ChildPoints \cup {"return"} : Goto(w, pc)
    BY <1>2 DEF MasterRead, MasterClaim, ChildRead, ChildWrite, ChildSucceed, At,
                MasterPoints, ChildPoints
  <2>2. UNCHANGED <<bull, handlers, dlq, retryQ>>
    BY <1>2 DEF MasterRead, MasterClaim, ChildRead, ChildWrite, ChildSucceed
  <2> QED
    BY <2>1, <2>2, <1>goto DEF ReplaysWithin
<1>3. ASSUME NEW w \in Workers, MasterAddChild(w) PROVE ReplaysWithin'
  <2>1. PICK step \in ChildSteps :
          /\ At(w, IF step = "prepare" THEN "addPrepare" ELSE "addPersist")
          /\ bull' = Added(<<JobAt(w), step>>, exec[w].replays)
          /\ Goto(w, IF step = "prepare" THEN "addPersist" ELSE "progress")
          /\ UNCHANGED <<row, persisted, handlers, dlq, retryQ, failedJobs, faults>>
    BY <1>3 DEF MasterAddChild
  <2>2. exec[w] # Idle
    BY <2>1 DEF At
  <2>3. <<JobAt(w), step>> \in BullIds /\ exec[w].replays \in Nat /\ WithinCap(exec[w].replays)
    BY <2>2, ExecFacts DEF BullIds, Steps, ReplaysWithin
  <2>4. (IF step = "prepare" THEN "addPersist" ELSE "progress")
          \in MasterPoints \cup ChildPoints \cup {"return"}
    BY DEF MasterPoints
  <2>5. \A c \in BullIds : WithinCap(bull'[c].replays)
    BY <2>1, <2>3, <1>added
  <2> QED
    BY <2>1, <2>2, <2>4, <2>5, <1>goto DEF ReplaysWithin
<1>idle. ASSUME NEW w \in Workers, exec' = [exec EXCEPT ![w] = Idle]
         PROVE  \A v \in Workers : exec'[v] # Idle => WithinCap(exec'[v].replays)
  BY <1>idle, <1>type DEF ReplaysWithin
<1>failed. ASSUME NEW b \in BullIds, NEW made \in Nat
           PROVE  WithinCap(FailedHandler(b, made).replays)
  BY DEF FailedHandler, ReplaysWithin
<1>4. ASSUME NEW w \in Workers, Complete(w) PROVE ReplaysWithin'
  <2>1. \A c \in BullIds : bull'[c].replays = bull[c].replays
    BY <1>4, <1>type DEF Complete, BullJob
  <2> QED
    BY <1>4, <2>1, <1>idle DEF Complete, ReplaysWithin
<1>5. ASSUME NEW w \in Workers, Throw(w) PROVE ReplaysWithin'
  <2>1. exec[w] # Idle /\ exec[w].bull \in BullIds
    BY <1>5, ExecFacts DEF Throw, At
  <2>2. \A c \in BullIds : bull'[c].replays = bull[c].replays
    BY <1>5, <2>1, <1>type DEF Throw, BullJob
  <2>3. bull[exec[w].bull].made + 1 \in Nat
    BY <2>1, <1>type, PipelineAssumption DEF BullJob
  <2>4. \A h \in handlers' : WithinCap(h.replays)
    BY <1>5, <2>1, <2>3, <1>failed DEF Throw, ReplaysWithin
  <2> QED
    BY <1>5, <2>2, <2>4, <1>idle DEF Throw, ReplaysWithin
<1>6. ASSUME NEW w \in Workers, Crash(w) PROVE ReplaysWithin'
  BY <1>6, <1>idle DEF Crash, ReplaysWithin
<1>7. ASSUME NEW w \in Workers, LoseLock(w) PROVE ReplaysWithin'
  <2>1. exec[w] # Idle /\ exec[w] \in Execution
    BY <1>7, ExecFacts DEF LoseLock
  <2>2. exec' = [exec EXCEPT ![w] = [exec[w] EXCEPT !.lock = FALSE]]
    BY <1>7 DEF LoseLock
  <2>3. [exec[w] EXCEPT !.lock = FALSE].replays = exec[w].replays
    BY <2>1 DEF Execution
  <2>4. \A v \in Workers : exec'[v] # Idle => WithinCap(exec'[v].replays)
    BY <2>1, <2>2, <2>3, <1>type DEF ReplaysWithin
  <2> QED
    BY <1>7, <2>4 DEF LoseLock, ReplaysWithin
<1>8. ASSUME NEW w \in Workers, NEW b \in BullIds, Deliver(w, b) PROVE ReplaysWithin'
  <2>1. \A c \in BullIds : bull'[c].replays = bull[c].replays
    BY <1>8, <1>type DEF Deliver, BullJob
  <2>2. \A v \in Workers : exec'[v] # Idle => WithinCap(exec'[v].replays)
    BY <1>8, <1>type DEF Deliver, ReplaysWithin
  <2> QED
    BY <1>8, <2>1, <2>2 DEF Deliver, ReplaysWithin
<1>9. ASSUME NEW b \in BullIds, Stall(b) PROVE ReplaysWithin'
  <2>1. \A c \in BullIds : bull'[c].replays = bull[c].replays
    BY <1>9, <1>type DEF Stall, BullJob
  <2>2. bull[b].made \in Nat /\ bull[b].made + 1 \in Nat
    BY <1>type, PipelineAssumption DEF BullJob
  <2>3. \A h \in handlers' : WithinCap(h.replays)
    BY <1>9, <2>2, <1>failed DEF Stall, ReplaysWithin
  <2> QED
    BY <1>9, <2>1, <2>3 DEF Stall, ReplaysWithin
<1>10. ASSUME NEW b \in BullIds, Expire(b) PROVE ReplaysWithin'
  BY <1>10, <1>type, PipelineAssumption DEF Expire, NoBullJob, ReplaysWithin, WithinCap
<1>11. ASSUME NEW h \in handlers, HandlerRun(h) PROVE ReplaysWithin'
  <2>1. /\ WithinCap(h.replays)
        /\ [h EXCEPT !.pc = "failedRow"].replays = h.replays
        /\ [h EXCEPT !.pc = "mark"].replays = h.replays
    BY <1>type DEF Handler, ReplaysWithin
  <2>2. CASE HandlerDlqAdd(h)
    <3>1. dlq' \subseteq dlq \cup {[bull |-> h.bull, replays |-> h.replays]}
      BY <2>2 DEF HandlerDlqAdd
    <3>2. \A e \in dlq' : WithinCap(e.replays)
      BY <3>1, <2>1 DEF ReplaysWithin
    <3> QED
      BY <2>1, <2>2, <3>2 DEF HandlerDlqAdd, HandlerStep, ReplaysWithin
  <2>3. CASE HandlerFailedRow(h)
    BY <2>1, <2>3 DEF HandlerFailedRow, HandlerStep, ReplaysWithin
  <2>4. CASE HandlerMark(h)
    BY <2>4 DEF HandlerMark, ReplaysWithin
  <2> QED
    BY <1>11, <2>2, <2>3, <2>4 DEF HandlerRun
<1>entry. ASSUME NEW e \in dlq \cup retryQ
          PROVE  e \in DlqEntry /\ AdminTarget(e) \in BullIds /\ RetryTarget(e) \in BullIds
  BY <1>entry, <1>type, ProductFacts DEF DlqEntry, AdminTarget, RetryTarget, MasterOf, BullIds, Steps
<1>12. ASSUME NEW e \in dlq, AdminReplay(e) PROVE ReplaysWithin'
  <2>1. "admin" \in Doors /\ MayReplay(e, "admin") /\ bull' = Added(AdminTarget(e), e.replays + 1)
    BY <1>12 DEF AdminReplay, OperatorActs
  <2>2. \A c \in BullIds : WithinCap(bull'[c].replays)
    BY <2>1, <1>entry, <1>added, ReplayStaysWithin
  <2> QED
    BY <1>12, <2>2 DEF AdminReplay, ReplaysWithin
<1>13. ASSUME NEW e \in dlq, MoveToRetry(e) PROVE ReplaysWithin'
  BY <1>13 DEF MoveToRetry, OperatorActs, ReplaysWithin
<1>14. ASSUME NEW e \in retryQ, RetryJob(e) PROVE ReplaysWithin'
  <2>1. \A c \in BullIds : WithinCap(bull'[c].replays)
    <3>1. CASE MayReplay(e, "retry")
      <4>1. "retry" \in Doors /\ bull' = Added(RetryTarget(e), e.replays + 1)
        BY <1>14, <3>1 DEF RetryJob, ReplaysWithin
      <4> QED
        BY <3>1, <4>1, <1>entry, <1>added, ReplayStaysWithin
    <3>2. CASE ~MayReplay(e, "retry")
      BY <1>14, <3>2 DEF RetryJob, ReplaysWithin
    <3> QED
      BY <3>1, <3>2
  <2> QED
    BY <1>14, <2>1 DEF RetryJob, ReplaysWithin
<1>15. ASSUME NEW b \in failedJobs, NestReplay(b) PROVE ReplaysWithin'
  <2>1. \A c \in BullIds : WithinCap(bull'[c].replays)
    <3>1. WithinCap(0)
      BY DEF WithinCap
    <3> QED
      BY <1>15, <3>1, <1>type, <1>added DEF NestReplay
  <2> QED
    BY <1>15, <2>1 DEF NestReplay, ReplaysWithin
<1>16. CASE UNCHANGED vars
  BY <1>16 DEF vars, ReplaysWithin
<1> QED
  BY <1>1, <1>2, <1>3, <1>4, <1>5, <1>6, <1>7, <1>8, <1>9, <1>10, <1>11, <1>12, <1>13,
     <1>14, <1>15, <1>16 DEF Next, WorkerStep

\* No Bull job and no entry of the dead-letter or retry queue ever carries a
\* replay count above the cap of every open door, for any two caps and however often
\* it went through them.
THEOREM ReplaysAreCapped == Spec => []ReplayCapHolds
<1>1. TypeOK /\ ReplaysWithin /\ [Next]_vars => ReplaysWithin'
  BY ReplaysStep
<1>2. ReplaysWithin => ReplayCapHolds
  BY DEF ReplaysWithin, ReplayCapHolds
<1> QED
  BY TypeCorrect, ReplaysInit, <1>1, <1>2, PTL DEF Spec

(***************************************************************************)
(* Part 4: terminal failures are on record.  With no dying process and no  *)
(* failing failed_jobs insert the property is inductive as it stands.      *)
(***************************************************************************)
LEMMA RecordedStep ==
  ASSUME OwnInv, TerminalFailureRecorded, [Next]_vars
  PROVE  TerminalFailureRecorded'
<1> SUFFICES ASSUME faults'.crashes = 0, "failedRow" \notin FailPoints,
                    NEW c \in BullIds, bull'[c].st = "failed", IsTerminal(bull'[c].made)
             PROVE  \/ c \in failedJobs'
                    \/ \E h \in handlers' : h.bull = c /\ h.pc \in {"dlqAdd", "failedRow"}
  BY DEF TerminalFailureRecorded, IsTerminal
<1> DEFINE Recorded == \/ c \in failedJobs
                       \/ \E h \in handlers : h.bull = c /\ h.pc \in {"dlqAdd", "failedRow"}
<1>type. /\ bull \in [BullIds -> BullJob]
         /\ handlers \subseteq Handler
         /\ failedJobs \subseteq BullIds
         /\ faults \in [throws : Nat, crashes : Nat, locks : Nat, expiries : Nat, ops : Nat]
  BY DEF OwnInv, TypeOK
<1>before. ASSUME faults.crashes = 0, bull[c].st = "failed", bull'[c].made = bull[c].made
           PROVE  Recorded
  BY <1>before DEF TerminalFailureRecorded, IsTerminal
<1>kept. ASSUME bull'[c] = bull[c], faults'.crashes = faults.crashes,
                handlers \subseteq handlers', failedJobs \subseteq failedJobs'
         PROVE  c \in failedJobs' \/ \E h \in handlers' : h.bull = c /\ h.pc \in {"dlqAdd", "failedRow"}
  BY <1>kept, <1>before
<1>handler. ASSUME NEW made \in Nat, IsTerminal(made), FailedHandler(c, made) \in handlers'
            PROVE  \E h \in handlers' : h.bull = c /\ h.pc \in {"dlqAdd", "failedRow"}
  BY <1>handler DEF FailedHandler
<1>added. ASSUME NEW b \in BullIds, NEW n \in Nat, bull' = Added(b, n)
          PROVE  bull'[c] = bull[c]
  <2>1. bull'[c] = bull[c] \/ bull'[c] = Fresh(n)
    BY <1>added, AddedFacts DEF OwnInv
  <2> QED
    BY <2>1 DEF Fresh
<1>1. ASSUME NEW j \in Jobs, Submit(j) PROVE bull'[c] = bull[c]
  BY <1>1, <1>added DEF Submit, MasterOf, BullIds, Steps
<1>2. ASSUME NEW w \in Workers,
             \/ MasterRead(w) \/ MasterClaim(w) \/ ChildRead(w) \/ ChildWrite(w)
             \/ ChildSucceed(w) \/ LoseLock(w)
      PROVE  bull' = bull /\ faults'.crashes = faults.crashes
             /\ handlers' = handlers /\ failedJobs' = failedJobs
  BY <1>2, <1>type DEF MasterRead, MasterClaim, ChildRead, ChildWrite, ChildSucceed, LoseLock
<1>3. ASSUME NEW w \in Workers, MasterAddChild(w) PROVE bull'[c] = bull[c]
  <2>1. PICK step \in ChildSteps :
          /\ At(w, IF step = "prepare" THEN "addPrepare" ELSE "addPersist")
          /\ bull' = Added(<<JobAt(w), step>>, exec[w].replays)
    BY <1>3 DEF MasterAddChild
  <2>2. <<JobAt(w), step>> \in BullIds /\ exec[w].replays \in Nat
    BY <2>1, ExecFacts DEF At, BullIds, Steps, OwnInv
  <2> QED
    BY <2>1, <2>2, <1>added
<1>4. ASSUME NEW w \in Workers, Complete(w) PROVE bull'[c] = bull[c]
  <2>1. exec[w] # Idle /\ exec[w].bull \in BullIds
    BY <1>4, ExecFacts DEF Complete, At, OwnInv
  <2> QED
    BY <1>4, <2>1, <1>type DEF Complete, BullJob
<1>5. ASSUME NEW w \in Workers, Throw(w)
      PROVE  c \in failedJobs' \/ \E h \in handlers' : h.bull = c /\ h.pc \in {"dlqAdd", "failedRow"}
  <2>1. exec[w] # Idle /\ exec[w].bull \in BullIds
    BY <1>5, ExecFacts DEF Throw, At, OwnInv
  <2>2. faults'.crashes = faults.crashes /\ failedJobs' = failedJobs /\ handlers \subseteq handlers'
    BY <1>5, <1>type DEF Throw
  <2>3. CASE ~exec[w].lock \/ c # exec[w].bull
    <3>1. bull'[c] = bull[c]
      BY <1>5, <2>1, <2>3, <1>type DEF Throw
    <3> QED
      BY <2>2, <3>1, <1>kept
  <2>4. CASE exec[w].lock /\ c = exec[w].bull
    <3>1. bull[c].made + 1 \in Nat
      BY <1>type, PipelineAssumption DEF BullJob
    <3>2. bull'[c].made = bull[c].made + 1 /\ FailedHandler(c, bull[c].made + 1) \in handlers'
      BY <1>5, <2>4, <1>type DEF Throw, BullJob
    <3> QED
      BY <3>1, <3>2, <1>handler
  <2> QED
    BY <2>3, <2>4
<1>6. ASSUME NEW w \in Workers, Crash(w) PROVE FALSE
  BY <1>6, <1>type DEF Crash
<1>7. ASSUME NEW w \in Workers, NEW b \in BullIds, Deliver(w, b) PROVE bull'[c] = bull[c]
  BY <1>7, <1>type DEF Deliver, BullJob
<1>8. ASSUME NEW b \in BullIds, Stall(b)
      PROVE  c \in failedJobs' \/ \E h \in handlers' : h.bull = c /\ h.pc \in {"dlqAdd", "failedRow"}
  <2>1. CASE c # b
    <3>1. bull'[c] = bull[c]
      BY <1>8, <2>1, <1>type DEF Stall
    <3> QED
      BY <1>8, <3>1, <1>kept DEF Stall
  <2>2. CASE c = b
    <3>1. PICK made \in {bull[c].made, bull[c].made + 1} :
            /\ bull' = [bull EXCEPT ![c].st = "failed", ![c].made = made]
            /\ handlers' = handlers \cup {FailedHandler(c, made)}
      BY <1>8, <2>2, <1>type DEF Stall, BullJob
    <3>2. made \in Nat /\ bull'[c].made = made
      BY <3>1, <1>type, PipelineAssumption DEF BullJob
    <3> QED
      BY <3>1, <3>2, <1>handler
  <2> QED
    BY <2>1, <2>2
<1>9. ASSUME NEW b \in BullIds, Expire(b)
      PROVE bull'[c] = bull[c] /\ faults'.crashes = faults.crashes
  BY <1>9, <1>type DEF Expire, NoBullJob
<1>10. ASSUME NEW h \in handlers, HandlerRun(h)
       PROVE  c \in failedJobs' \/ \E g \in handlers' : g.bull = c /\ g.pc \in {"dlqAdd", "failedRow"}
  <2>1. /\ [h EXCEPT !.pc = "failedRow"].bull = h.bull
        /\ [h EXCEPT !.pc = "failedRow"].pc = "failedRow"
    BY <1>type DEF Handler
  <2>2. Recorded
    BY <1>10, <1>before DEF HandlerRun, HandlerDlqAdd, HandlerFailedRow, HandlerMark
  <2>3. CASE HandlerDlqAdd(h)
    BY <2>1, <2>2, <2>3 DEF HandlerDlqAdd, HandlerStep
  <2>4. CASE HandlerFailedRow(h)
    BY <2>2, <2>4 DEF HandlerFailedRow, HandlerStep
  <2>5. CASE HandlerMark(h)
    BY <2>2, <2>5 DEF HandlerMark
  <2> QED
    BY <1>10, <2>3, <2>4, <2>5 DEF HandlerRun
<1>entry. ASSUME NEW e \in dlq \cup retryQ
          PROVE  AdminTarget(e) \in BullIds /\ RetryTarget(e) \in BullIds /\ e.replays + 1 \in Nat
  BY ProductFacts DEF OwnInv, TypeOK, DlqEntry, AdminTarget, RetryTarget, MasterOf, BullIds, Steps
<1>11. ASSUME NEW e \in dlq, AdminReplay(e) PROVE bull'[c] = bull[c] /\ faults'.crashes = faults.crashes
  BY <1>11, <1>entry, <1>added, <1>type DEF AdminReplay, OperatorActs
<1>12. ASSUME NEW e \in dlq, MoveToRetry(e) PROVE bull'[c] = bull[c] /\ faults'.crashes = faults.crashes
  BY <1>12, <1>type DEF MoveToRetry, OperatorActs
<1>13. ASSUME NEW e \in retryQ, RetryJob(e) PROVE bull'[c] = bull[c]
  BY <1>13, <1>entry, <1>added DEF RetryJob
<1>14. ASSUME NEW b \in failedJobs, NestReplay(b) PROVE bull'[c] = bull[c] /\ faults'.crashes = faults.crashes
  BY <1>14, <1>added, <1>type DEF NestReplay, OperatorActs
<1>15. CASE \E j \in Jobs : Submit(j)
  BY <1>15, <1>1, <1>kept DEF Submit
<1>16. CASE \E w \in Workers : WorkerStep(w) \/ Crash(w) \/ LoseLock(w)
  <2>1. CASE \E w \in Workers : MasterAddChild(w)
    BY <2>1, <1>3, <1>kept DEF MasterAddChild
  <2>2. CASE \E w \in Workers : Complete(w)
    BY <2>2, <1>4, <1>kept DEF Complete
  <2> QED
    BY <1>16, <2>1, <2>2, <1>2, <1>5, <1>6, <1>kept DEF WorkerStep
<1>17. CASE \E w \in Workers, b \in BullIds : Deliver(w, b)
  BY <1>17, <1>7, <1>kept DEF Deliver
<1>18. CASE \E b \in BullIds : Stall(b) \/ Expire(b)
  BY <1>18, <1>8, <1>9, <1>kept DEF Expire
<1>19. CASE \E e \in dlq : AdminReplay(e) \/ MoveToRetry(e)
  BY <1>19, <1>11, <1>12, <1>kept DEF AdminReplay, MoveToRetry
<1>20. CASE \E e \in retryQ : RetryJob(e)
  BY <1>20, <1>13, <1>kept DEF RetryJob
<1>21. CASE \E b \in failedJobs : NestReplay(b)
  BY <1>21, <1>14, <1>kept DEF NestReplay
<1>22. CASE UNCHANGED vars
  BY <1>22, <1>kept DEF vars
<1> QED
  BY <1>10, <1>15, <1>16, <1>17, <1>18, <1>19, <1>20, <1>21, <1>22 DEF Next

\* Without a dying process and with a failed_jobs insert that succeeds, every
\* Bull job that used up its attempts is recorded in system.failed_jobs, or a
\* handler is still on its way to record it.
THEOREM TerminalFailuresAreRecorded == Spec => []TerminalFailureRecorded
<1>1. Init => TerminalFailureRecorded
  BY DEF Init, TerminalFailureRecorded, NoBullJob
<1>2. OwnInv /\ TerminalFailureRecorded /\ [Next]_vars => TerminalFailureRecorded'
  BY RecordedStep
<1> QED
  BY OwnInit, OwnStep, <1>1, <1>2, PTL DEF Spec

(***************************************************************************)
(* Part 5: a running row is driven, in a pipeline where no process dies    *)
(* and no lock lapses, the master's closing updateProgress and the         *)
(* acknowledgements of the retry queue go through, and work comes back by  *)
(* the retry worker alone.  Every other awaited call may fail.             *)
(*                                                                         *)
(* What could go wrong is that the master claims the row once more while   *)
(* its persist child is still in Redis, settled: the add would change      *)
(* nothing, and nobody would move the row on.  So the argument counts the  *)
(* ways in which the master Bull job can still run, and shows that there   *)
(* is at most one, and none once a persist child was ever added.           *)
(***************************************************************************)
Calm ==
  /\ MaxCrashes = 0 /\ MaxLockLosses = 0
  /\ "progress" \notin FailPoints /\ "retryAck" \notin FailPoints
  /\ Doors \subseteq {"retry"}

PersistOf(j) == <<j, "persist_stub_result">>

\* Every execution holds the lock of its Bull job, every active job has one.
NoLapse ==
  /\ \A w \in Workers : exec[w] # Idle => exec[w].lock
  /\ \A b \in BullIds : bull[b].st = "active" => Locked(b)

\* What may still bring a Bull job back: a handler about to dead-letter it, an entry
\* of the dead-letter queue, an entry of the retry queue.
Failing(b) == {h \in handlers : h.bull = b /\ h.pc = "dlqAdd"}
Buried(b) == {e \in dlq : e.bull = b}
Returning(b) == {e \in retryQ : e.bull = b}
NoWayBack(b) == Failing(b) = {} /\ Buried(b) = {} /\ Returning(b) = {}

\* A Bull job lives or has a way back, and it has one of them.
OneChance(b) ==
  /\ Live(b) => NoWayBack(b)
  /\ Failing(b) # {} => Buried(b) = {} /\ Returning(b) = {}
  /\ Buried(b) # {} => Returning(b) = {}
  /\ \A g, h \in Failing(b) : g = h
  /\ \A d, e \in Buried(b) : d = e
  /\ \A d, e \in Returning(b) : d = e

Closing(w, j) == exec[w] # Idle /\ exec[w].bull = MasterOf(j) /\ exec[w].pc = "progress"

\* Once there is a trace of the persist child the master has no chance left but
\* the one attempt that added it.
FannedOut(j) ==
  Trace(PersistOf(j)) =>
    /\ NoWayBack(MasterOf(j))
    /\ Live(MasterOf(j)) => \E w \in Workers : Closing(w, j)

\* A persist child whose attempt is about to end well leaves no running row.
EndsWell(j) ==
  \A w \in Workers :
    (exec[w] # Idle /\ exec[w].bull = PersistOf(j) /\ exec[w].pc \in LastPoints) => row[j] # "running"

Driven(j) ==
  row[j] = "running" =>
    \/ \E w \in Workers : Pushing(w, j)
    \/ Live(PersistOf(j))
    \/ \E h \in handlers : JobOf(h.bull) = j

JobInv(j) == OneChance(MasterOf(j)) /\ FannedOut(j) /\ EndsWell(j) /\ Driven(j)

CalmInv == Calm /\ OwnInv /\ ClaimInv /\ NoLapse /\ \A j \in Jobs : JobInv(j)

LEMMA CalmTypes ==
  ASSUME OwnInv
  PROVE  /\ row \in [Jobs -> Statuses]
         /\ bull \in [BullIds -> BullJob]
         /\ exec \in [Workers -> Execution \cup {Idle}]
         /\ handlers \subseteq Handler
         /\ dlq \subseteq DlqEntry
         /\ retryQ \subseteq DlqEntry
         /\ faults \in [throws : Nat, crashes : Nat, locks : Nat, expiries : Nat, ops : Nat]
BY DEF OwnInv, TypeOK, LifecycleTypeOK

LEMMA IdsOfJob ==
  ASSUME NEW j \in Jobs
  PROVE  /\ MasterOf(j) \in BullIds /\ JobOf(MasterOf(j)) = j /\ StepOf(MasterOf(j)) = "master"
         /\ PersistOf(j) \in BullIds /\ JobOf(PersistOf(j)) = j
         /\ StepOf(PersistOf(j)) = "persist_stub_result"
         /\ MasterOf(j) # PersistOf(j)
         /\ \A b \in BullIds : JobOf(b) = j /\ StepOf(b) = "master" => b = MasterOf(j)
BY ProductFacts DEF MasterOf, PersistOf, BullIds, Steps, ChildSteps, JobOf, StepOf

\* The steps that are left in a calm pipeline.
CalmNext ==
  \/ \E j \in Jobs : Submit(j)
  \/ \E w \in Workers : WorkerStep(w)
  \/ \E w \in Workers, b \in BullIds : Deliver(w, b)
  \/ \E b \in BullIds : Expire(b)
  \/ \E h \in handlers : HandlerRun(h)
  \/ \E e \in dlq : MoveToRetry(e)
  \/ \E e \in retryQ : RetryJob(e)

LEMMA CalmSteps ==
  ASSUME Calm, OwnInv, NoLapse, [Next]_vars
  PROVE  CalmNext \/ UNCHANGED vars
<1>1. ASSUME NEW w \in Workers, Crash(w) \/ LoseLock(w) PROVE FALSE
  BY <1>1, CalmTypes DEF Crash, LoseLock, Calm
<1>2. ASSUME NEW b \in BullIds, Stall(b) PROVE FALSE
  BY <1>2 DEF Stall, NoLapse
<1>3. ASSUME NEW e, AdminReplay(e) \/ NestReplay(e) PROVE FALSE
  BY <1>3 DEF AdminReplay, NestReplay, OperatorActs, Calm
<1> QED
  BY <1>1, <1>2, <1>3 DEF Next, CalmNext

LEMMA CalmInit == Calm /\ Init => CalmInv
<1> SUFFICES ASSUME Calm, Init PROVE CalmInv
  OBVIOUS
<1>1. OwnInv /\ ClaimInv
  BY OwnInit, ClaimInit
<1>2. NoLapse
  BY DEF Init, NoLapse, NoBullJob
<1>3. ASSUME NEW j \in Jobs PROVE JobInv(j)
  <2>1. \A b \in BullIds : ~Live(b) /\ ~Trace(b) /\ NoWayBack(b)
    BY DEF Init, Live, Trace, NoBullJob, NoWayBack, Failing, Buried, Returning
  <2>2. OneChance(MasterOf(j)) /\ FannedOut(j)
    BY <2>1, IdsOfJob DEF OneChance, FannedOut, NoWayBack
  <2>3. EndsWell(j) /\ Driven(j)
    BY DEF Init, LifecycleInit, EndsWell, Driven
  <2> QED
    BY <2>2, <2>3 DEF JobInv
<1> QED
  BY <1>1, <1>2, <1>3 DEF CalmInv

\* A master that is being executed has no way back beside, and no persist child yet,
\* unless it is at its closing call.
LEMMA MasterAlone ==
  ASSUME CalmInv, NEW j \in Jobs, NEW w \in Workers,
         exec[w] # Idle, exec[w].bull = MasterOf(j), exec[w].pc # "progress"
  PROVE  /\ bull[MasterOf(j)].st = "active"
         /\ NoWayBack(MasterOf(j)) /\ ~Trace(PersistOf(j))
<1>1. exec[w].lock
  BY DEF CalmInv, NoLapse
<1>2. bull[MasterOf(j)].st = "active"
        /\ \A v \in Workers \ {w} : exec[v] # Idle /\ exec[v].lock => exec[v].bull # MasterOf(j)
  BY <1>1 DEF CalmInv, OwnInv, LockExclusive
<1>3. OneChance(MasterOf(j)) /\ FannedOut(j)
  BY DEF CalmInv, JobInv
<1>4. Live(MasterOf(j))
  BY <1>2 DEF Live
<1>5. ~\E v \in Workers : Closing(v, j)
  BY <1>2 DEF Closing, CalmInv, NoLapse
<1> QED
  BY <1>2, <1>3, <1>4, <1>5 DEF OneChance, FannedOut

\* What an execution has to itself, and whose point it can be at.
LEMMA Executing ==
  ASSUME CalmInv, NEW w \in Workers, exec[w] # Idle
  PROVE  /\ exec[w].bull \in BullIds /\ JobAt(w) \in Jobs /\ exec[w].lock /\ exec[w] \in Execution
         /\ exec[w].pc \in MasterPoints => exec[w].bull = MasterOf(JobAt(w))
         /\ exec[w].pc \in ChildPoints => exec[w].bull # MasterOf(JobAt(w))
         /\ bull[exec[w].bull].st = "active" /\ Trace(exec[w].bull)
         /\ \A v \in Workers \ {w} : exec[v] # Idle => exec[v].bull # exec[w].bull
<1>1. /\ exec[w].bull \in BullIds /\ JobAt(w) \in Jobs /\ ExecKnows(w) /\ StepOf(exec[w].bull) \in Steps
      /\ JobAt(w) = JobOf(exec[w].bull) /\ exec[w] \in Execution
  BY ExecFacts, ExecKnown DEF CalmInv, OwnInv, JobAt
<1>2. exec[w].lock /\ \A v \in Workers : exec[v] # Idle => exec[v].lock
  BY DEF CalmInv, NoLapse
<1>3. /\ bull[exec[w].bull].st = "active"
      /\ \A v \in Workers \ {w} : exec[v] # Idle => exec[v].bull # exec[w].bull
  BY <1>2 DEF CalmInv, OwnInv, LockExclusive
<1>4. exec[w].pc \in MasterPoints => exec[w].bull = MasterOf(JobAt(w))
  BY <1>1, IdsOfJob DEF ExecKnows, MasterPoints, ChildPoints, Steps
<1>5. exec[w].pc \in ChildPoints => exec[w].bull # MasterOf(JobAt(w))
  BY <1>1, IdsOfJob DEF ExecKnows, MasterPoints, ChildPoints
<1> QED
  BY <1>1, <1>2, <1>3, <1>4, <1>5 DEF Trace

\* A step that gives the master of j no chance it did not have, leaves no new trace of
\* the persist child, and ends the closing call only with the master's job.
LEMMA NoNewChance ==
  ASSUME CalmInv, NEW j \in Jobs,
         Live(MasterOf(j))' => Live(MasterOf(j)),
         Failing(MasterOf(j))' \subseteq Failing(MasterOf(j)),
         Buried(MasterOf(j))' \subseteq Buried(MasterOf(j)),
         Returning(MasterOf(j))' \subseteq Returning(MasterOf(j)),
         Trace(PersistOf(j))' => Trace(PersistOf(j)),
         \A w \in Workers : Closing(w, j) => Closing(w, j)' \/ ~Live(MasterOf(j))'
  PROVE  OneChance(MasterOf(j))' /\ FannedOut(j)'
<1>1. OneChance(MasterOf(j)) /\ FannedOut(j)
  BY DEF CalmInv, JobInv
<1>3. NoWayBack(MasterOf(j)) => NoWayBack(MasterOf(j))'
  BY DEF NoWayBack
<1>4. OneChance(MasterOf(j))'
  <2>1. Live(MasterOf(j))' => NoWayBack(MasterOf(j))'
    BY <1>1, <1>3 DEF OneChance
  <2>2. /\ Failing(MasterOf(j))' # {} => Buried(MasterOf(j))' = {} /\ Returning(MasterOf(j))' = {}
        /\ Buried(MasterOf(j))' # {} => Returning(MasterOf(j))' = {}
    BY <1>1 DEF OneChance
  <2>3. /\ \A g, h \in Failing(MasterOf(j))' : g = h
        /\ \A d, e \in Buried(MasterOf(j))' : d = e
        /\ \A d, e \in Returning(MasterOf(j))' : d = e
    BY <1>1 DEF OneChance
  <2> QED
    BY <2>1, <2>2, <2>3 DEF OneChance
<1>5. FannedOut(j)'
  BY <1>1, <1>3 DEF FannedOut
<1> QED
  BY <1>4, <1>5

\* A step of a worker from one awaited call to the next, as the others see it.
LEMMA CalmGoto ==
  ASSUME CalmInv, NEW w \in Workers, exec[w] # Idle,
         NEW pc \in MasterPoints \cup ChildPoints \cup {"return"}, Goto(w, pc)
  PROVE  /\ \A v \in Workers : exec'[v] # Idle <=> exec[v] # Idle
         /\ \A v \in Workers : exec[v] # Idle =>
              exec'[v].bull = exec[v].bull /\ exec'[v].lock = exec[v].lock
         /\ \A v \in Workers \ {w} : exec'[v] = exec[v]
         /\ exec'[w].pc = pc
         /\ \A b \in BullIds : Locked(b)' <=> Locked(b)
<1>1. TypeOK
  BY DEF CalmInv, OwnInv
<1>2. /\ exec'[w] # Idle /\ exec'[w].pc = pc /\ exec'[w].bull = exec[w].bull
      /\ exec'[w].lock = exec[w].lock /\ \A v \in Workers \ {w} : exec'[v] = exec[v]
  BY <1>1, GotoFacts
<1>3. \A v \in Workers : exec'[v] # Idle <=> exec[v] # Idle
  BY <1>2
<1>4. \A v \in Workers : exec[v] # Idle =>
        exec'[v].bull = exec[v].bull /\ exec'[v].lock = exec[v].lock
  BY <1>2
<1> QED
  BY <1>2, <1>3, <1>4 DEF Locked

LEMMA NoLapseStep ==
  ASSUME CalmInv, CalmNext
  PROVE  NoLapse'
<1>type. /\ bull \in [BullIds -> BullJob] /\ exec \in [Workers -> Execution \cup {Idle}]
         /\ retryQ \subseteq DlqEntry /\ OwnInv /\ NoLapse /\ TypeOK
  BY CalmTypes DEF CalmInv, OwnInv
<1>added. ASSUME NEW b \in BullIds, NEW n \in Nat, bull' = Added(b, n), UNCHANGED exec
          PROVE  NoLapse'
  <2>0. \A c \in BullIds : bull'[c] = bull[c] \/ bull'[c] = Fresh(n)
    BY <1>added, <1>type, AddedFacts
  <2>1. \A c \in BullIds : bull'[c] = bull[c] \/ bull'[c].st = "wait"
    BY <2>0 DEF Fresh
  <2> QED
    BY <1>added, <1>type, <2>1 DEF NoLapse, Locked
<1>goto. ASSUME NEW w \in Workers, exec[w] # Idle,
                NEW pc \in MasterPoints \cup ChildPoints \cup {"return"}, Goto(w, pc),
                \A c \in BullIds : bull'[c].st = "active" => bull[c].st = "active"
         PROVE  NoLapse'
  BY <1>goto, <1>type, CalmGoto DEF NoLapse
<1>leaves. ASSUME NEW w \in Workers, exec[w] # Idle, exec' = [exec EXCEPT ![w] = Idle],
                  bull'[exec[w].bull].st # "active",
                  \A c \in BullIds \ {exec[w].bull} : bull'[c] = bull[c]
           PROVE  NoLapse'
  BY <1>leaves, <1>type DEF NoLapse, Locked
<1>1. ASSUME NEW j \in Jobs, Submit(j) PROVE NoLapse'
  <2>1. CASE bull' = Added(MasterOf(j), 0)
    BY <1>1, <2>1, <1>added, IdsOfJob DEF Submit
  <2>2. CASE UNCHANGED bull
    BY <1>1, <2>2, <1>type DEF Submit, NoLapse, Locked
  <2> QED
    BY <1>1, <2>1, <2>2 DEF Submit
<1>2. ASSUME NEW w \in Workers,
             MasterRead(w) \/ MasterClaim(w) \/ ChildRead(w) \/ ChildWrite(w) \/ ChildSucceed(w)
      PROVE  NoLapse'
  <2>1. exec[w] # Idle
        /\ \E pc \in MasterPoints \cup ChildPoints \cup {"return"} : Goto(w, pc)
    BY <1>2 DEF MasterRead, MasterClaim, ChildRead, ChildWrite, ChildSucceed, At,
                MasterPoints, ChildPoints
  <2>2. UNCHANGED bull
    BY <1>2 DEF MasterRead, MasterClaim, ChildRead, ChildWrite, ChildSucceed
  <2> QED
    BY <2>1, <2>2, <1>goto
<1>3. ASSUME NEW w \in Workers, MasterAddChild(w) PROVE NoLapse'
  <2>1. PICK step \in ChildSteps :
          /\ At(w, IF step = "prepare" THEN "addPrepare" ELSE "addPersist")
          /\ bull' = Added(<<JobAt(w), step>>, exec[w].replays)
          /\ Goto(w, IF step = "prepare" THEN "addPersist" ELSE "progress")
    BY <1>3 DEF MasterAddChild
  <2>2. exec[w] # Idle /\ <<JobAt(w), step>> \in BullIds /\ exec[w].replays \in Nat
    BY <2>1, <1>type, ExecFacts DEF At, BullIds, Steps
  <2>3. \A c \in BullIds : bull'[c].st = "active" => bull[c].st = "active"
    <3>1. \A c \in BullIds : bull'[c] = bull[c] \/ bull'[c] = Fresh(exec[w].replays)
      BY <2>1, <2>2, <1>type, AddedFacts
    <3> QED
      BY <3>1 DEF Fresh
  <2>4. (IF step = "prepare" THEN "addPersist" ELSE "progress")
          \in MasterPoints \cup ChildPoints \cup {"return"}
    BY DEF MasterPoints
  <2> QED
    BY <2>1, <2>2, <2>3, <2>4, <1>goto
<1>4. ASSUME NEW w \in Workers, Complete(w) PROVE NoLapse'
  <2>1. exec[w] # Idle /\ exec[w].lock /\ exec[w].bull \in BullIds
    BY <1>4, Executing DEF Complete, At
  <2>2. /\ bull'[exec[w].bull].st # "active"
        /\ \A c \in BullIds \ {exec[w].bull} : bull'[c] = bull[c]
    BY <1>4, <2>1, <1>type DEF Complete, BullJob
  <2> QED
    BY <1>4, <2>1, <2>2, <1>leaves DEF Complete
<1>5. ASSUME NEW w \in Workers, Throw(w) PROVE NoLapse'
  <2>1. exec[w] # Idle /\ exec[w].lock /\ exec[w].bull \in BullIds
    BY <1>5, Executing DEF Throw, At
  <2>2. /\ bull'[exec[w].bull].st # "active"
        /\ \A c \in BullIds \ {exec[w].bull} : bull'[c] = bull[c]
    BY <1>5, <2>1, <1>type DEF Throw, BullJob
  <2> QED
    BY <1>5, <2>1, <2>2, <1>leaves DEF Throw
<1>6. ASSUME NEW w \in Workers, NEW b \in BullIds, Deliver(w, b) PROVE NoLapse'
  <2>1. PICK e : e = [bull |-> b, pc |-> IF StepOf(b) = "master" THEN "read" ELSE "childRead",
                      lock |-> TRUE, replays |-> bull[b].replays]
    OBVIOUS
  <2>2. e.bull = b /\ e.lock /\ exec' = [exec EXCEPT ![w] = e] /\ e \in Execution
    BY <1>6, <1>type, <2>1 DEF Deliver, Execution, BullJob, MasterPoints, ChildPoints
  <2>3. /\ exec'[w] = e /\ e # Idle /\ \A v \in Workers \ {w} : exec'[v] = exec[v]
        /\ exec[w] = Idle
    BY <1>6, <1>type, <2>2, IdleAssumption DEF Deliver
  <2>4. \A c \in BullIds \ {b} : bull'[c] = bull[c]
    BY <1>6, <1>type DEF Deliver
  <2>5. ASSUME NEW c \in BullIds, bull'[c].st = "active" PROVE Locked(c)'
    <3>1. CASE c = b
      BY <2>2, <2>3, <3>1 DEF Locked
    <3>2. CASE c # b
      <4>1. PICK v \in Workers : exec[v] # Idle /\ exec[v].bull = c /\ exec[v].lock
        BY <1>type, <2>4, <2>5, <3>2 DEF NoLapse, Locked
      <4> QED
        BY <2>3, <4>1 DEF Locked
    <3> QED
      BY <3>1, <3>2
  <2> QED
    BY <1>type, <2>2, <2>3, <2>5 DEF NoLapse
<1>7. ASSUME NEW b \in BullIds, Expire(b) PROVE NoLapse'
  <2>1. \A c \in BullIds : bull'[c].st = "active" => bull[c].st = "active"
    BY <1>7, <1>type DEF Expire, NoBullJob
  <2> QED
    BY <1>7, <2>1, <1>type DEF Expire, NoLapse, Locked
<1>8. ASSUME NEW h, HandlerRun(h) PROVE NoLapse'
  BY <1>8, <1>type DEF HandlerRun, HandlerDlqAdd, HandlerFailedRow, HandlerMark, NoLapse, Locked
<1>9. ASSUME NEW e, MoveToRetry(e) PROVE NoLapse'
  BY <1>9, <1>type DEF MoveToRetry, NoLapse, Locked
<1>10. ASSUME NEW e \in retryQ, RetryJob(e) PROVE NoLapse'
  <2>1. RetryTarget(e) \in BullIds /\ e.replays + 1 \in Nat
    BY <1>type DEF DlqEntry, RetryTarget
  <2> QED
    BY <1>10, <2>1, <1>added, <1>type DEF RetryJob, NoLapse, Locked
<1> QED
  BY <1>1, <1>2, <1>3, <1>4, <1>5, <1>6, <1>7, <1>8, <1>9, <1>10 DEF CalmNext, WorkerStep

LEMMA SubmitDriven ==
  ASSUME CalmInv, NEW j \in Jobs, NEW k \in Jobs, Submit(k)
  PROVE  JobInv(j)'
<1>type. row \in [Jobs -> Statuses] /\ bull \in [BullIds -> BullJob] /\ TypeOK
  BY CalmTypes DEF CalmInv, OwnInv
<1>1. /\ row[k] = "absent" /\ row' = [row EXCEPT ![k] = "queued"]
      /\ UNCHANGED <<exec, handlers, dlq, retryQ, failedJobs>>
  BY DEF Submit
<1>2. \A b \in BullIds \ {MasterOf(k)} : bull'[b] = bull[b]
  <2>1. CASE bull' = Added(MasterOf(k), 0)
    BY <2>1, <1>type, AddedFacts, IdsOfJob
  <2>2. CASE UNCHANGED bull
    BY <2>2
  <2> QED
    BY <2>1, <2>2 DEF Submit
<1>3. PersistOf(j) \in BullIds \ {MasterOf(k)} /\ MasterOf(j) \in BullIds
  BY IdsOfJob
<1>4. bull'[PersistOf(j)] = bull[PersistOf(j)] /\ (Trace(PersistOf(j))' <=> Trace(PersistOf(j)))
  BY <1>1, <1>2, <1>3 DEF Trace
<1>5. CASE k # j
  <2>1. row'[j] = row[j] /\ bull'[MasterOf(j)] = bull[MasterOf(j)]
    BY <1>1, <1>2, <1>5, <1>type, IdsOfJob
  <2>2. OneChance(MasterOf(j))' /\ FannedOut(j)'
    BY <1>1, <1>4, <2>1, NoNewChance DEF Live, Failing, Buried, Returning, Closing
  <2>3. EndsWell(j)' /\ Driven(j)'
    BY <1>1, <1>4, <2>1 DEF CalmInv, JobInv, EndsWell, Driven, Live, Pushing, JobAt
  <2> QED
    BY <2>2, <2>3 DEF JobInv
<1>6. CASE k = j
  <2>1. ~Trace(MasterOf(j)) /\ ~Trace(PersistOf(j))
    BY <1>1, <1>6, IdsOfJob DEF CalmInv, ClaimInv, TraceKnown, Known
  <2>2. NoWayBack(MasterOf(j))'
    BY <1>1, <2>1 DEF NoWayBack, Failing, Buried, Returning, Trace
  <2>3. OneChance(MasterOf(j))'
    BY <2>2 DEF OneChance, NoWayBack
  <2>4. FannedOut(j)'
    BY <1>4, <2>1 DEF FannedOut
  <2>5. row'[j] = "queued"
    BY <1>1, <1>6, <1>type
  <2> QED
    BY <2>3, <2>4, <2>5 DEF JobInv, EndsWell, Driven
<1> QED
  BY <1>5, <1>6

\* The persist child of j is not at its end while the master claims.
LEMMA GotoDriven ==
  ASSUME CalmInv, NEW j \in Jobs, NEW w \in Workers,
         MasterRead(w) \/ MasterClaim(w) \/ ChildRead(w) \/ ChildWrite(w) \/ ChildSucceed(w)
  PROVE  JobInv(j)'
<1>type. row \in [Jobs -> Statuses] /\ bull \in [BullIds -> BullJob] /\ TypeOK
  BY CalmTypes DEF CalmInv, OwnInv
<1>1. /\ UNCHANGED <<bull, handlers, dlq, retryQ, failedJobs>>
      /\ exec[w] # Idle /\ exec[w].pc \in {"read", "claim", "childRead", "write", "succeed"}
  BY DEF MasterRead, MasterClaim, ChildRead, ChildWrite, ChildSucceed, At
<1>2. PICK pc \in MasterPoints \cup ChildPoints \cup {"return"} : Goto(w, pc)
  BY DEF MasterRead, MasterClaim, ChildRead, ChildWrite, ChildSucceed, MasterPoints, ChildPoints
<1>3. /\ \A v \in Workers : exec'[v] # Idle <=> exec[v] # Idle
      /\ \A v \in Workers : exec[v] # Idle => exec'[v].bull = exec[v].bull
      /\ \A v \in Workers \ {w} : exec'[v] = exec[v]
      /\ exec'[w].pc = pc
  BY <1>1, <1>2, CalmGoto
<1>4. OneChance(MasterOf(j))' /\ FannedOut(j)'
  <2>1. Trace(PersistOf(j))' => Trace(PersistOf(j))
    BY <1>1, <1>3 DEF Trace
  <2>2. \A v \in Workers : Closing(v, j) => Closing(v, j)'
    BY <1>1, <1>3 DEF Closing
  <2> QED
    BY <1>1, <2>1, <2>2, NoNewChance DEF Live, Failing, Buried, Returning
<1>5. EndsWell(j) /\ Driven(j)
  BY DEF CalmInv, JobInv
<1>6. /\ JobAt(w) \in Jobs /\ exec[w].bull \in BullIds
      /\ exec[w].pc \in MasterPoints => exec[w].bull = MasterOf(JobAt(w))
  BY <1>1, Executing
\* The row of j does not become running.
<1>7. ASSUME row'[j] = "running" => row[j] = "running",
             exec[w].bull = PersistOf(j) /\ pc \in LastPoints => row'[j] # "running"
      PROVE  JobInv(j)'
  <2>1. EndsWell(j)'
    BY <1>3, <1>5, <1>7 DEF EndsWell
  <2>2. \A v \in Workers : Pushing(v, j) => Pushing(v, j)'
    BY <1>1, <1>3 DEF Pushing, JobAt
  <2>3. Driven(j)'
    BY <1>1, <1>5, <1>7, <2>2 DEF Driven, Live
  <2> QED
    BY <1>4, <2>1, <2>3 DEF JobInv
<1>8. CASE MasterRead(w)
  <2>1. exec[w].bull # PersistOf(j) /\ UNCHANGED row
    BY <1>6, <1>8, IdsOfJob DEF MasterRead, At, MasterPoints
  <2> QED
    BY <1>7, <2>1
<1>9. CASE MasterClaim(w)
  <2>1. exec[w].pc = "claim" /\ exec[w].bull = MasterOf(JobAt(w)) /\ exec[w].bull # PersistOf(j)
    BY <1>6, <1>9, IdsOfJob DEF MasterClaim, At, MasterPoints
  <2>2. CASE JobAt(w) = j /\ row[j] \in Claimable
    <3>1. ~Trace(PersistOf(j))
      BY <1>1, <2>1, <2>2, MasterAlone
    <3>2. \A v \in Workers : exec[v] # Idle => exec[v].bull # PersistOf(j)
      BY <3>1 DEF Trace
    <3>3. EndsWell(j)'
      BY <1>3, <3>2 DEF EndsWell
    <3>4. exec'[w].pc = "addPrepare"
      <4>1. Goto(w, "addPrepare")
        BY <1>9, <2>2 DEF MasterClaim
      <4> QED
        BY <4>1, <1>1, CalmGoto DEF MasterPoints
    <3>5. Pushing(w, j)'
      BY <1>1, <1>3, <2>2, <3>4 DEF Pushing, JobAt
    <3> QED
      BY <1>4, <3>3, <3>5 DEF JobInv, Driven
  <2>3. CASE ~(JobAt(w) = j /\ row[j] \in Claimable)
    <3>1. row'[j] = row[j]
      BY <1>9, <2>3, <1>type DEF MasterClaim
    <3> QED
      BY <1>7, <2>1, <3>1
  <2> QED
    BY <2>2, <2>3
<1>10. CASE ChildRead(w)
  <2>1. UNCHANGED row
    BY <1>10 DEF ChildRead
  <2>2. ASSUME exec[w].bull = PersistOf(j), pc \in LastPoints PROVE row[j] # "running"
    <3>1. JobAt(w) = j /\ StepOf(exec[w].bull) # "prepare"
      BY <2>2, IdsOfJob DEF JobAt
    <3>2. row[j] \in {"absent", "succeeded"} \/ Goto(w, "write")
      BY <1>10, <3>1 DEF ChildRead
    <3>3. Goto(w, "write") => pc = "write"
      BY <1>1, <1>3, CalmGoto DEF ChildPoints
    <3> QED
      BY <2>2, <3>2, <3>3 DEF LastPoints
  <2> QED
    BY <1>7, <2>1, <2>2
<1>11. CASE ChildWrite(w)
  <2>1. UNCHANGED row /\ pc = "succeed"
    BY <1>1, <1>3, <1>11, CalmGoto DEF ChildWrite, ChildPoints
  <2> QED
    BY <1>7, <2>1 DEF LastPoints
<1>12. CASE ChildSucceed(w)
  <2>1. row'[j] = row[j] \/ row'[j] = "succeeded"
    BY <1>12, <1>type DEF ChildSucceed
  <2>2. exec[w].bull = PersistOf(j) => row'[j] = "succeeded"
    BY <1>12, <1>type, IdsOfJob DEF ChildSucceed, JobAt
  <2> QED
    BY <1>7, <2>1, <2>2
<1> QED
  BY <1>8, <1>9, <1>10, <1>11, <1>12

LEMMA AddChildDriven ==
  ASSUME CalmInv, NEW j \in Jobs, NEW w \in Workers, MasterAddChild(w)
  PROVE  JobInv(j)'
<1>type. row \in [Jobs -> Statuses] /\ bull \in [BullIds -> BullJob] /\ TypeOK
  BY CalmTypes DEF CalmInv, OwnInv
<1> DEFINE here(step) == IF step = "prepare" THEN "addPrepare" ELSE "addPersist"
           next(step) == IF step = "prepare" THEN "addPersist" ELSE "progress"
<1>1. PICK step \in ChildSteps :
        /\ At(w, here(step)) /\ Goto(w, next(step))
        /\ bull' = Added(<<JobAt(w), step>>, exec[w].replays)
        /\ UNCHANGED <<row, handlers, dlq, retryQ, failedJobs>>
  BY DEF MasterAddChild
<1>2. exec[w] # Idle /\ exec[w].pc = here(step) /\ exec[w].pc \in {"addPrepare", "addPersist"}
  BY <1>1 DEF At
<1>3. /\ JobAt(w) \in Jobs /\ exec[w].bull = MasterOf(JobAt(w)) /\ exec[w].replays \in Nat
      /\ <<JobAt(w), step>> \in BullIds
  BY <1>2, <1>type, Executing, ExecFacts DEF MasterPoints, BullIds, Steps
<1>4. /\ \A v \in Workers : exec'[v] # Idle <=> exec[v] # Idle
      /\ \A v \in Workers : exec[v] # Idle => exec'[v].bull = exec[v].bull
      /\ \A v \in Workers \ {w} : exec'[v] = exec[v]
      /\ exec'[w].pc = next(step)
  <2>1. next(step) \in MasterPoints \cup ChildPoints \cup {"return"}
    BY DEF MasterPoints
  <2> HIDE DEF next
  <2> QED
    BY <1>1, <1>2, <2>1, CalmGoto
<1>5. \A c \in BullIds :
        \/ bull'[c] = bull[c]
        \/ c = <<JobAt(w), step>> /\ bull[c].st = "none" /\ bull'[c] = Fresh(exec[w].replays)
  BY <1>1, <1>3, <1>type, AddedFacts
<1>6. bull'[MasterOf(j)] = bull[MasterOf(j)]
  BY <1>5, IdsOfJob DEF ChildSteps, StepOf
<1>7. OneChance(MasterOf(j)) /\ FannedOut(j) /\ EndsWell(j) /\ Driven(j)
  BY DEF CalmInv, JobInv
<1>8. EndsWell(j)'
  <2>1. exec'[w].bull # PersistOf(j)
    BY <1>2, <1>3, <1>4, IdsOfJob
  <2> QED
    BY <1>1, <1>4, <1>7, <2>1 DEF EndsWell
<1>9. CASE JobAt(w) = j /\ step = "persist_stub_result"
  <2>1. /\ bull[MasterOf(j)].st = "active" /\ NoWayBack(MasterOf(j)) /\ ~Trace(PersistOf(j))
    BY <1>2, <1>3, <1>9, MasterAlone
  <2>2. Live(PersistOf(j))'
    <3>1. bull[PersistOf(j)].st = "none" /\ PersistOf(j) \in BullIds
      BY <2>1, IdsOfJob DEF Trace
    <3>2. bull'[PersistOf(j)] = Fresh(exec[w].replays)
      BY <1>1, <1>9, <3>1, <1>type DEF Added, PersistOf
    <3> QED
      BY <3>2 DEF Live, Fresh
  <2>3. NoWayBack(MasterOf(j))'
    BY <1>1, <2>1 DEF NoWayBack, Failing, Buried, Returning
  <2>4. Closing(w, j)'
    BY <1>2, <1>3, <1>4, <1>9 DEF Closing
  <2>5. OneChance(MasterOf(j))' /\ FannedOut(j)'
    BY <2>3, <2>4 DEF OneChance, FannedOut, NoWayBack
  <2> QED
    BY <1>8, <2>2, <2>5 DEF JobInv, Driven
<1>10. CASE ~(JobAt(w) = j /\ step = "persist_stub_result")
  <2>1. bull'[PersistOf(j)] = bull[PersistOf(j)]
    <3>1. PersistOf(j) # <<JobAt(w), step>>
      BY <1>10 DEF PersistOf
    <3> QED
      BY <1>5, <3>1, IdsOfJob
  <2>2. Trace(PersistOf(j))' => Trace(PersistOf(j))
    BY <1>1, <1>4, <2>1 DEF Trace
  <2>3. \A v \in Workers : Closing(v, j) => Closing(v, j)'
    BY <1>2, <1>4 DEF Closing
  <2>4. OneChance(MasterOf(j))' /\ FannedOut(j)'
    BY <1>1, <1>6, <2>2, <2>3, NoNewChance DEF Live, Failing, Buried, Returning
  <2>5. ASSUME NEW v \in Workers, Pushing(v, j) PROVE Pushing(v, j)'
    <3>1. CASE v # w
      BY <1>4, <2>5, <3>1 DEF Pushing, JobAt
    <3>2. CASE v = w
      <4>1. step = "prepare"
        BY <1>10, <2>5, <3>2 DEF Pushing, ChildSteps
      <4> QED
        BY <1>4, <2>5, <3>2, <4>1 DEF Pushing, JobAt
    <3> QED
      BY <3>1, <3>2
  <2>6. Driven(j)'
    BY <1>1, <1>7, <2>1, <2>5 DEF Driven, Live
  <2> QED
    BY <1>8, <2>4, <2>6 DEF JobInv
<1> QED
  BY <1>9, <1>10

LEMMA CompleteDriven ==
  ASSUME CalmInv, NEW j \in Jobs, NEW w \in Workers, Complete(w)
  PROVE  JobInv(j)'
<1>type. bull \in [BullIds -> BullJob] /\ exec \in [Workers -> Execution \cup {Idle}]
  BY CalmTypes DEF CalmInv
<1>1. /\ exec[w] # Idle /\ exec[w].pc \in LastPoints
      /\ UNCHANGED <<row, handlers, dlq, retryQ, failedJobs>>
  BY DEF Complete, At
<1>2. exec[w].lock /\ exec[w].bull \in BullIds /\ Trace(exec[w].bull)
      /\ bull[exec[w].bull].st = "active"
      /\ \A v \in Workers \ {w} : exec[v] # Idle => exec[v].bull # exec[w].bull
  BY <1>1, Executing
<1>3. exec'[w] = Idle /\ \A v \in Workers \ {w} : exec'[v] = exec[v]
  BY <1>type DEF Complete
<1>4. /\ bull'[exec[w].bull].st = "completed"
      /\ \A c \in BullIds \ {exec[w].bull} : bull'[c] = bull[c]
  BY <1>2, <1>type DEF Complete, BullJob
<1>5. MasterOf(j) \in BullIds /\ PersistOf(j) \in BullIds
  BY IdsOfJob
<1>6. OneChance(MasterOf(j))' /\ FannedOut(j)'
  <2>1. Live(MasterOf(j))' => Live(MasterOf(j)) /\ MasterOf(j) # exec[w].bull
    BY <1>4, <1>5 DEF Live
  <2>2. Trace(PersistOf(j))' => Trace(PersistOf(j))
    BY <1>1, <1>2, <1>3, <1>4, <1>5 DEF Trace
  <2>3. \A v \in Workers : Closing(v, j) => Closing(v, j)' \/ ~Live(MasterOf(j))'
    BY <1>3, <2>1 DEF Closing
  <2> QED
    BY <1>1, <2>1, <2>2, <2>3, NoNewChance DEF Failing, Buried, Returning
<1>7. EndsWell(j) /\ Driven(j)
  BY DEF CalmInv, JobInv
<1>8. EndsWell(j)'
  BY <1>1, <1>3, <1>7 DEF EndsWell
<1>9. Driven(j)'
  <2>1. \A v \in Workers : Pushing(v, j) => Pushing(v, j)'
    BY <1>1, <1>3 DEF Pushing, JobAt, LastPoints
  <2>2. row[j] = "running" => exec[w].bull # PersistOf(j)
    BY <1>1, <1>7 DEF EndsWell
  <2> QED
    BY <1>1, <1>4, <1>5, <1>7, <2>1, <2>2 DEF Driven, Live
<1> QED
  BY <1>6, <1>8, <1>9 DEF JobInv

LEMMA ThrowDriven ==
  ASSUME CalmInv, NEW j \in Jobs, NEW w \in Workers, Throw(w)
  PROVE  JobInv(j)'
<1>type. /\ bull \in [BullIds -> BullJob] /\ exec \in [Workers -> Execution \cup {Idle}]
         /\ handlers \subseteq Handler
  BY CalmTypes DEF CalmInv
<1>1. /\ exec[w] # Idle /\ exec[w].pc \in FailPoints /\ exec[w].pc # "progress"
      /\ UNCHANGED <<row, dlq, retryQ, failedJobs>>
  BY DEF Throw, At, CalmInv, Calm
<1>2. PICK b \in BullIds : b = exec[w].bull
  BY <1>1, Executing
<1>3. exec[w].lock /\ Trace(b) /\ bull[b].st = "active"
      /\ \A v \in Workers \ {w} : exec[v] # Idle => exec[v].bull # b
  BY <1>1, <1>2, Executing
<1>4. PICK made : made = bull[b].made + 1
  OBVIOUS
<1>5. /\ bull' = [bull EXCEPT ![b].made = made, ![b].st = IF IsTerminal(made) THEN "failed" ELSE "wait"]
      /\ handlers' = handlers \cup {FailedHandler(b, made)}
      /\ exec' = [exec EXCEPT ![w] = Idle]
  BY <1>2, <1>3, <1>4 DEF Throw
<1>6. /\ bull'[b].st = (IF IsTerminal(made) THEN "failed" ELSE "wait")
      /\ \A c \in BullIds \ {b} : bull'[c] = bull[c]
  BY <1>5, <1>type DEF BullJob
<1>7. exec'[w] = Idle /\ \A v \in Workers \ {w} : exec'[v] = exec[v]
  BY <1>5, <1>type
<1>8. MasterOf(j) \in BullIds /\ PersistOf(j) \in BullIds
  BY IdsOfJob
<1>9. PICK g : g = FailedHandler(b, made)
  OBVIOUS
<1>10. g.bull = b /\ (~IsTerminal(made) => g.pc = "mark") /\ handlers' = handlers \cup {g}
  BY <1>5, <1>9 DEF FailedHandler
<1>11. Trace(PersistOf(j))' => Trace(PersistOf(j))
  BY <1>1, <1>3, <1>6, <1>7, <1>8, <1>10 DEF Trace
<1>12. OneChance(MasterOf(j))' /\ FannedOut(j)'
  <2>1. CASE b = MasterOf(j)
    <3>1. NoWayBack(MasterOf(j)) /\ ~Trace(PersistOf(j))
      BY <1>1, <1>2, <2>1, MasterAlone
    <3>2. Failing(MasterOf(j))' \subseteq {g} /\ Buried(MasterOf(j))' = {} /\ Returning(MasterOf(j))' = {}
      BY <1>1, <1>10, <3>1 DEF NoWayBack, Failing, Buried, Returning
    <3>3. Live(MasterOf(j))' => Failing(MasterOf(j))' = {}
      <4>1. ASSUME Live(MasterOf(j))' PROVE g.pc = "mark"
        BY <1>6, <1>10, <2>1, <4>1 DEF Live
      <4> QED
        BY <3>2, <4>1 DEF Failing
    <3>4. OneChance(MasterOf(j))'
      BY <3>2, <3>3 DEF OneChance, NoWayBack
    <3> QED
      BY <1>11, <3>1, <3>4 DEF FannedOut
  <2>2. CASE b # MasterOf(j)
    <3>1. Live(MasterOf(j))' => Live(MasterOf(j))
      BY <1>6, <1>8, <2>2 DEF Live
    <3>2. Failing(MasterOf(j))' \subseteq Failing(MasterOf(j))
      BY <1>10, <2>2 DEF Failing
    <3>3. \A v \in Workers : Closing(v, j) => Closing(v, j)'
      BY <1>2, <1>7, <2>2 DEF Closing
    <3> QED
      BY <1>1, <1>11, <3>1, <3>2, <3>3, NoNewChance DEF Buried, Returning
  <2> QED
    BY <2>1, <2>2
<1>13. EndsWell(j) /\ Driven(j)
  BY DEF CalmInv, JobInv
<1>14. EndsWell(j)'
  BY <1>1, <1>7, <1>13 DEF EndsWell
<1>15. Driven(j)'
  <2>1. CASE JobOf(b) = j
    BY <1>10, <2>1 DEF Driven
  <2>2. CASE JobOf(b) # j
    <3>1. b # PersistOf(j)
      BY <2>2, IdsOfJob
    <3>2. \A v \in Workers : Pushing(v, j) => Pushing(v, j)'
      BY <1>2, <1>7, <2>2 DEF Pushing, JobAt
    <3> QED
      BY <1>1, <1>6, <1>8, <1>10, <1>13, <3>1, <3>2 DEF Driven, Live
  <2> QED
    BY <2>1, <2>2
<1> QED
  BY <1>12, <1>14, <1>15 DEF JobInv

LEMMA DeliverDriven ==
  ASSUME CalmInv, NEW j \in Jobs, NEW w \in Workers, NEW b \in BullIds, Deliver(w, b)
  PROVE  JobInv(j)'
<1>type. bull \in [BullIds -> BullJob] /\ exec \in [Workers -> Execution \cup {Idle}]
  BY CalmTypes DEF CalmInv
<1>1. /\ exec[w] = Idle /\ bull[b].st = "wait"
      /\ UNCHANGED <<row, handlers, dlq, retryQ, failedJobs>>
  BY DEF Deliver
<1>2. \A c \in BullIds : /\ Live(c)' <=> Live(c)
                         /\ bull'[c].st # "none" <=> bull[c].st # "none"
  BY <1>type DEF Deliver, Live, BullJob
<1>3. PICK e : /\ e = [bull |-> b, pc |-> IF StepOf(b) = "master" THEN "read" ELSE "childRead",
                       lock |-> TRUE, replays |-> bull[b].replays]
               /\ exec' = [exec EXCEPT ![w] = e]
  BY DEF Deliver
<1>4. e.bull = b /\ e.pc \in {"read", "childRead"} /\ exec'[w] = e
      /\ \A v \in Workers \ {w} : exec'[v] = exec[v]
  BY <1>3, <1>type
<1>5. MasterOf(j) \in BullIds /\ PersistOf(j) \in BullIds
  BY IdsOfJob
<1>6. OneChance(MasterOf(j))' /\ FannedOut(j)'
  <2>1. Trace(PersistOf(j))' => Trace(PersistOf(j))
    BY <1>1, <1>2, <1>4, <1>5 DEF Trace
  <2>2. \A v \in Workers : Closing(v, j) => Closing(v, j)'
    BY <1>1, <1>4 DEF Closing
  <2> QED
    BY <1>1, <1>2, <1>5, <2>1, <2>2, NoNewChance DEF Failing, Buried, Returning
<1>7. EndsWell(j) /\ Driven(j)
  BY DEF CalmInv, JobInv
<1>8. EndsWell(j)'
  BY <1>1, <1>4, <1>7 DEF EndsWell, LastPoints
<1>9. Driven(j)'
  BY <1>1, <1>2, <1>4, <1>5, <1>7 DEF Driven, Pushing, JobAt
<1> QED
  BY <1>6, <1>8, <1>9 DEF JobInv

LEMMA ExpireDriven ==
  ASSUME CalmInv, NEW j \in Jobs, NEW b \in BullIds, Expire(b)
  PROVE  JobInv(j)'
<1>type. bull \in [BullIds -> BullJob]
  BY CalmTypes DEF CalmInv
<1>1. UNCHANGED <<row, exec, handlers, dlq, retryQ, failedJobs>>
  BY DEF Expire
<1>2. \A c \in BullIds : /\ Live(c)' <=> Live(c)
                         /\ bull'[c].st # "none" => bull[c].st # "none"
  BY <1>type DEF Expire, Live, NoBullJob
<1>3. MasterOf(j) \in BullIds /\ PersistOf(j) \in BullIds
  BY IdsOfJob
<1>4. Trace(PersistOf(j))' => Trace(PersistOf(j))
  BY <1>1, <1>2, <1>3 DEF Trace
<1>5. OneChance(MasterOf(j))' /\ FannedOut(j)'
  BY <1>1, <1>2, <1>3, <1>4, NoNewChance DEF Failing, Buried, Returning, Closing
<1>6. EndsWell(j)' /\ Driven(j)'
  BY <1>1, <1>2, <1>3 DEF CalmInv, JobInv, EndsWell, Driven, Pushing, JobAt
<1> QED
  BY <1>5, <1>6 DEF JobInv

LEMMA HandlerDriven ==
  ASSUME CalmInv, NEW j \in Jobs, NEW h \in handlers, HandlerRun(h)
  PROVE  JobInv(j)'
<1>type. /\ row \in [Jobs -> Statuses] /\ handlers \subseteq Handler
  BY CalmTypes DEF CalmInv
<1>1. UNCHANGED <<bull, exec, retryQ>> /\ h.bull \in BullIds /\ Trace(h.bull)
  BY <1>type DEF HandlerRun, HandlerDlqAdd, HandlerFailedRow, HandlerMark, Handler, Trace
<1>2. OneChance(MasterOf(j)) /\ FannedOut(j) /\ EndsWell(j) /\ Driven(j)
  BY DEF CalmInv, JobInv
<1>3. PICK f, g : f = [h EXCEPT !.pc = "failedRow"] /\ g = [h EXCEPT !.pc = "mark"]
  OBVIOUS
<1>4. f.bull = h.bull /\ f.pc = "failedRow" /\ g.bull = h.bull /\ g.pc = "mark"
  BY <1>type, <1>3 DEF Handler
\* The next part of the handler begins: a dead-lettered job changed its kind of chance.
<1>5. CASE HandlerDlqAdd(h)
  <2>1. h.pc = "dlqAdd" /\ handlers' = (handlers \ {h}) \cup {f} /\ UNCHANGED <<row, failedJobs>>
    BY <1>3, <1>5 DEF HandlerDlqAdd, HandlerStep
  <2>2. PICK e : e.bull = h.bull /\ dlq' \subseteq dlq \cup {e}
    BY <1>5 DEF HandlerDlqAdd
  <2>3. Trace(PersistOf(j))' => Trace(PersistOf(j))
    BY <1>1, <1>4, <2>1, <2>2 DEF Trace
  <2>4. OneChance(MasterOf(j))' /\ FannedOut(j)'
    <3>1. CASE h.bull = MasterOf(j)
      <4>1. h \in Failing(MasterOf(j))
        BY <2>1, <3>1 DEF Failing
      <4>2. /\ ~Live(MasterOf(j)) /\ Failing(MasterOf(j)) = {h} /\ ~Trace(PersistOf(j))
            /\ Buried(MasterOf(j)) = {} /\ Returning(MasterOf(j)) = {}
        BY <1>2, <4>1 DEF OneChance, NoWayBack, FannedOut
      <4>3. Failing(MasterOf(j))' = {}
        BY <1>4, <2>1, <4>2 DEF Failing
      <4>4. Buried(MasterOf(j))' \subseteq {e} /\ Returning(MasterOf(j))' = {}
        BY <1>1, <2>2, <4>2 DEF Buried, Returning
      <4>5. OneChance(MasterOf(j))'
        BY <1>1, <4>2, <4>3, <4>4 DEF OneChance, NoWayBack, Live
      <4> QED
        BY <2>3, <4>2, <4>5 DEF FannedOut
    <3>2. CASE h.bull # MasterOf(j)
      <4>1. Failing(MasterOf(j))' \subseteq Failing(MasterOf(j))
        BY <1>4, <2>1, <3>2 DEF Failing
      <4>2. Buried(MasterOf(j))' \subseteq Buried(MasterOf(j))
        BY <2>2, <3>2 DEF Buried
      <4> QED
        BY <1>1, <2>3, <4>1, <4>2, NoNewChance DEF Live, Returning, Closing
    <3> QED
      BY <3>1, <3>2
  <2>5. EndsWell(j)' /\ Driven(j)'
    BY <1>1, <1>2, <1>4, <2>1 DEF EndsWell, Driven, Pushing, JobAt, Live
  <2> QED
    BY <2>4, <2>5 DEF JobInv
<1>6. CASE HandlerFailedRow(h)
  <2>1. /\ handlers' = (handlers \ {h}) \cup {g} /\ UNCHANGED <<row, dlq>>
        /\ failedJobs' \subseteq failedJobs \cup {h.bull}
    BY <1>3, <1>6 DEF HandlerFailedRow, HandlerStep
  <2>2. Trace(PersistOf(j))' => Trace(PersistOf(j))
    BY <1>1, <1>4, <2>1 DEF Trace
  <2>3. Failing(MasterOf(j))' \subseteq Failing(MasterOf(j))
    BY <1>4, <2>1 DEF Failing
  <2>4. OneChance(MasterOf(j))' /\ FannedOut(j)'
    BY <1>1, <2>1, <2>2, <2>3, NoNewChance DEF Live, Buried, Returning, Closing
  <2>5. EndsWell(j)' /\ Driven(j)'
    BY <1>1, <1>2, <1>4, <2>1 DEF EndsWell, Driven, Pushing, JobAt, Live
  <2> QED
    BY <2>4, <2>5 DEF JobInv
\* The last part: the row of the handler's job is failed, so nobody has to drive it.
<1>7. CASE HandlerMark(h)
  <2>1. handlers' = handlers \ {h} /\ UNCHANGED <<dlq, failedJobs>>
        /\ row' = [row EXCEPT ![JobOf(h.bull)] = "failed"]
    BY <1>7 DEF HandlerMark
  <2>2. Trace(PersistOf(j))' => Trace(PersistOf(j))
    BY <1>1, <2>1 DEF Trace
  <2>3. Failing(MasterOf(j))' \subseteq Failing(MasterOf(j))
    BY <2>1 DEF Failing
  <2>4. OneChance(MasterOf(j))' /\ FannedOut(j)'
    BY <1>1, <2>1, <2>2, <2>3, NoNewChance DEF Live, Buried, Returning, Closing
  <2>5. row'[j] = "failed" \/ (row'[j] = row[j] /\ JobOf(h.bull) # j)
    <3>1. JobOf(h.bull) = j => row'[j] = "failed"
      BY <1>type, <2>1
    <3>2. JobOf(h.bull) # j => row'[j] = row[j]
      BY <1>type, <2>1
    <3> QED
      BY <3>1, <3>2
  <2>6. EndsWell(j)' /\ Driven(j)'
    BY <1>1, <1>2, <2>1, <2>5 DEF EndsWell, Driven, Pushing, JobAt, Live
  <2> QED
    BY <2>4, <2>6 DEF JobInv
<1> QED
  BY <1>5, <1>6, <1>7 DEF HandlerRun

LEMMA ReturnDriven ==
  ASSUME CalmInv, NEW j \in Jobs, NEW e, \/ e \in dlq /\ MoveToRetry(e)
                                         \/ e \in retryQ /\ RetryJob(e)
  PROVE  JobInv(j)'
<1>type. /\ bull \in [BullIds -> BullJob] /\ dlq \subseteq DlqEntry /\ retryQ \subseteq DlqEntry
         /\ TypeOK
  BY CalmTypes DEF CalmInv, OwnInv
<1>1. /\ UNCHANGED <<row, exec, handlers, failedJobs>>
      /\ e.bull \in BullIds /\ e.replays + 1 \in Nat /\ Trace(e.bull)
  BY <1>type DEF MoveToRetry, RetryJob, DlqEntry, Trace
<1>2. OneChance(MasterOf(j)) /\ FannedOut(j) /\ EndsWell(j) /\ Driven(j)
  BY DEF CalmInv, JobInv
<1>3. MasterOf(j) \in BullIds /\ PersistOf(j) \in BullIds
  BY IdsOfJob
<1>4. \A c \in BullIds : /\ Live(c) => Live(c)'
                         /\ c # e.bull => bull'[c] = bull[c]
  <2>1. \/ bull' = bull
        \/ bull' = Added(e.bull, e.replays + 1)
    BY DEF MoveToRetry, RetryJob, RetryTarget
  <2>2. \A c \in BullIds : \/ bull'[c] = bull[c]
                           \/ c = e.bull /\ bull[c].st = "none"
    BY <1>1, <1>type, <2>1, AddedFacts
  <2> QED
    BY <2>2 DEF Live
<1>5. dlq' \subseteq dlq /\ (retryQ' \subseteq retryQ \cup {e})
  BY DEF MoveToRetry, RetryJob
<1>6. Trace(PersistOf(j))' => Trace(PersistOf(j))
  BY <1>1, <1>3, <1>4, <1>5 DEF Trace
<1>7. EndsWell(j)' /\ Driven(j)'
  BY <1>1, <1>2, <1>3, <1>4 DEF EndsWell, Driven, Pushing, JobAt
<1>8. OneChance(MasterOf(j))' /\ FannedOut(j)'
  <2>1. CASE e.bull # MasterOf(j)
    <3>1. Live(MasterOf(j))' => Live(MasterOf(j))
      BY <1>3, <1>4, <2>1 DEF Live
    <3>2. Buried(MasterOf(j))' \subseteq Buried(MasterOf(j))
          /\ Returning(MasterOf(j))' \subseteq Returning(MasterOf(j))
      BY <1>5, <2>1 DEF Buried, Returning
    <3> QED
      BY <1>1, <1>6, <3>1, <3>2, NoNewChance DEF Failing, Closing
  <2>2. CASE e.bull = MasterOf(j) /\ e \in dlq /\ MoveToRetry(e)
    <3>1. e \in Buried(MasterOf(j))
      BY <2>2 DEF Buried
    <3>2. /\ ~Live(MasterOf(j)) /\ Buried(MasterOf(j)) = {e} /\ ~Trace(PersistOf(j))
          /\ Failing(MasterOf(j)) = {} /\ Returning(MasterOf(j)) = {}
      BY <1>2, <3>1 DEF OneChance, NoWayBack, FannedOut
    <3>3. dlq' = dlq \ {e} /\ UNCHANGED bull
      BY <2>2 DEF MoveToRetry
    <3>4. Buried(MasterOf(j))' = {} /\ Returning(MasterOf(j))' \subseteq {e} /\ Failing(MasterOf(j))' = {}
      BY <1>1, <1>5, <3>2, <3>3 DEF Buried, Returning, Failing
    <3>5. OneChance(MasterOf(j))'
      BY <3>2, <3>3, <3>4 DEF OneChance, NoWayBack, Live
    <3> QED
      BY <1>6, <3>2, <3>5 DEF FannedOut
  <2>3. CASE e.bull = MasterOf(j) /\ e \in retryQ /\ RetryJob(e)
    <3>1. e \in Returning(MasterOf(j))
      BY <2>3 DEF Returning
    <3>2. /\ Returning(MasterOf(j)) = {e} /\ ~Trace(PersistOf(j))
          /\ Failing(MasterOf(j)) = {} /\ Buried(MasterOf(j)) = {}
      BY <1>2, <3>1 DEF OneChance, NoWayBack, FannedOut
    <3>3. dlq' = dlq /\ retryQ' = retryQ \ {e}
      BY <2>3 DEF RetryJob, CalmInv, Calm
    <3>4. NoWayBack(MasterOf(j))'
      BY <1>1, <3>2, <3>3 DEF NoWayBack, Buried, Returning, Failing
    <3>5. OneChance(MasterOf(j))'
      BY <3>4 DEF OneChance, NoWayBack
    <3> QED
      BY <1>6, <3>2, <3>5 DEF FannedOut
  <2> QED
    BY <2>1, <2>2, <2>3
<1> QED
  BY <1>7, <1>8 DEF JobInv

LEMMA CalmStep == CalmInv /\ [Next]_vars => CalmInv'
<1> SUFFICES ASSUME CalmInv, [Next]_vars PROVE CalmInv'
  OBVIOUS
<1>1. OwnInv' /\ ClaimInv' /\ Calm'
  BY OwnStep, ClaimStep DEF CalmInv, Calm
<1>2. CASE UNCHANGED vars
  <2>1. NoLapse'
    BY <1>2 DEF CalmInv, vars, NoLapse, Locked
  <2>2. ASSUME NEW j \in Jobs PROVE JobInv(j)'
    <3>1. OneChance(MasterOf(j))' /\ FannedOut(j)'
      BY <1>2, NoNewChance DEF vars, Live, Failing, Buried, Returning, Trace, Closing
    <3>2. EndsWell(j)' /\ Driven(j)'
      BY <1>2 DEF CalmInv, JobInv, vars, EndsWell, Driven, Pushing, JobAt, Live
    <3> QED
      BY <3>1, <3>2 DEF JobInv
  <2> QED
    BY <1>1, <2>1, <2>2 DEF CalmInv
<1>3. CASE CalmNext
  <2>1. NoLapse'
    BY <1>3, NoLapseStep
  <2>2. ASSUME NEW j \in Jobs PROVE JobInv(j)'
    BY <1>3, SubmitDriven, GotoDriven, AddChildDriven, CompleteDriven, ThrowDriven,
       DeliverDriven, ExpireDriven, HandlerDriven, ReturnDriven
       DEF CalmNext, WorkerStep
  <2> QED
    BY <1>1, <2>1, <2>2 DEF CalmInv
<1> QED
  BY <1>2, <1>3, CalmSteps DEF CalmInv

\* In a calm pipeline, for any number of jobs, workers, attempts and failing calls: a
\* row that says "running" is never left to itself.
THEOREM RunningRowsAreDriven == Calm /\ Spec => []RunningIsDriven
<1>1. CalmInv => RunningIsDriven
  BY DEF CalmInv, JobInv, Driven, RunningIsDriven, PersistOf
<1> QED
  BY CalmInit, CalmStep, <1>1, PTL DEF Spec
=============================================================================
