------------------------- MODULE BrowserManagerProofs -------------------------
(***************************************************************************)
(* Proofs about one replica of the browser manager, for any number of      *)
(* requests and tenants, any quota and number of places, and whatever      *)
(* fails, crashes, expires or is swept meanwhile.                          *)
(***************************************************************************)
EXTENDS BrowserManager, TLAPS, SequenceTheorems, FiniteSetTheorems

\* A release is only ever under way for a lease that was granted and has left the table.
EndingsGranted == \A l \in Requests : ending[l] # "none" => handler[l] = "granted" /\ l \notin leases

DownIsEmpty ==
  stage = "down" =>
    /\ leases = {} /\ remote = {} /\ queue = [t \in Tenants |-> <<>>]
    /\ \A r \in Requests : ending[r] = "none" /\ handler[r] \in Settled

WaitersWait ==
  \A t \in Tenants : \A i \in DOMAIN queue[t] :
    TenantOf[queue[t][i]] = t /\ handler[queue[t][i]] = "waiting"

WaitersOnce ==
  \A t \in Tenants : \A i, k \in DOMAIN queue[t] : queue[t][i] = queue[t][k] => i = k

AskedFirst == \A r \in Requests : client[r] = "idle" => handler[r] = "idle"

\* Inductive: a signal reaches a waiting request only, so it takes nothing from the
\* table, the releases or the counted requests.
ShapeInv ==
  TypeOK /\ EndingsGranted /\ DownIsEmpty /\ AskedFirst /\ WaitersWait /\ WaitersOnce

Stages == Settled \cup Busy
Handlers == [Requests -> Stages]

LEMMA ShapeInvInit == Init => ShapeInv
<1> SUFFICES ASSUME Init PROVE ShapeInv
  OBVIOUS
<1>1. TypeOK
  BY ManagerAssumption
     DEF Init, TypeOK, Settled, Busy, Counted, Waiting, At, Free, NoDrain
<1>2. EndingsGranted /\ DownIsEmpty /\ AskedFirst /\ WaitersWait /\ WaitersOnce
  BY DEF Init, EndingsGranted, DownIsEmpty, AskedFirst, WaitersWait, WaitersOnce, Free, Settled
<1> QED
  BY <1>1, <1>2 DEF ShapeInv

-----------------------------------------------------------------------------
(* The queue of an engine.                                                 *)

LEMMA AppendWaits ==
  ASSUME ShapeInv, NEW r \in Requests, handler[r] # "waiting",
         handler' = [handler EXCEPT ![r] = "waiting"],
         queue' = [queue EXCEPT ![TenantOf[r]] = Append(@, r)]
  PROVE  queue' \in [Tenants -> Seq(Requests)] /\ WaitersWait' /\ WaitersOnce'
<1> DEFINE t == TenantOf[r]
<1>1. t \in Tenants /\ queue \in [Tenants -> Seq(Requests)] /\ handler \in Handlers
  BY ManagerAssumption DEF ShapeInv, TypeOK, Handlers, Stages
<1>2. queue[t] \in Seq(Requests) /\ queue'[t] = Append(queue[t], r)
      /\ \A s \in Tenants \ {t} : queue'[s] = queue[s]
  BY <1>1
<1>3. /\ queue'[t] \in Seq(Requests) /\ DOMAIN queue'[t] = 1..(Len(queue[t]) + 1)
      /\ DOMAIN queue[t] = 1..Len(queue[t]) /\ Len(queue[t]) \in Nat
      /\ \A i \in 1..Len(queue[t]) : queue'[t][i] = queue[t][i]
      /\ queue'[t][Len(queue[t]) + 1] = r
  BY <1>2
<1> HIDE DEF t
<1>4. queue' \in [Tenants -> Seq(Requests)]
  BY <1>1, <1>2, <1>3 DEF t
<1>5. \A s \in Tenants : \A i \in DOMAIN queue[s] : queue[s][i] # r
  BY DEF ShapeInv, WaitersWait
<1>6. WaitersWait'
  <2> SUFFICES ASSUME NEW s \in Tenants, NEW i \in DOMAIN queue'[s]
      PROVE  TenantOf[queue'[s][i]] = s /\ handler'[queue'[s][i]] = "waiting"
    BY DEF WaitersWait
  <2>1. CASE i \in DOMAIN queue[s] /\ queue'[s][i] = queue[s][i]
    <3>1. queue[s][i] \in Requests
      BY <1>1, <2>1
    <3> QED
      BY <1>1, <1>5, <2>1, <3>1 DEF ShapeInv, WaitersWait, Handlers
  <2>2. CASE s = t /\ queue'[s][i] = r
    BY <1>1, <2>2 DEF t, Handlers
  <2> QED
    BY <1>2, <1>3, <2>1, <2>2
<1>7. WaitersOnce'
  <2> SUFFICES ASSUME NEW s \in Tenants, NEW i \in DOMAIN queue'[s], NEW k \in DOMAIN queue'[s],
                      queue'[s][i] = queue'[s][k]
      PROVE  i = k
    BY DEF WaitersOnce
  <2>1. CASE s # t
    BY <1>2, <2>1 DEF ShapeInv, WaitersOnce
  <2>2. CASE s = t
    BY <1>1, <1>3, <1>5, <2>2 DEF ShapeInv, WaitersOnce
  <2> QED
    BY <2>1, <2>2
<1> QED
  BY <1>4, <1>6, <1>7

\* A signal wakes one waiting request or nobody.
LEMMA SignalWakes ==
  ASSUME ShapeInv, NEW t \in Tenants, NEW handlers \in Handlers,
         \A r \in Requests : handler[r] = "waiting" => handlers[r] = "waiting",
         Signal(t, handlers)
  PROVE  /\ queue' \in [Tenants -> Seq(Requests)] /\ WaitersWait' /\ WaitersOnce'
         /\ handler' \in Handlers
         /\ \A r \in Requests : \/ handler'[r] = handlers[r]
                                \/ handler[r] = "waiting" /\ handler'[r] = "woken"
<1>1. queue \in [Tenants -> Seq(Requests)] /\ queue[t] \in Seq(Requests)
  BY DEF ShapeInv, TypeOK
<1>2. CASE queue[t] = <<>>
  <2>1. queue' = queue /\ handler' = handlers
    BY <1>2 DEF Signal
  <2>2. \A s \in Tenants : \A i \in DOMAIN queue[s] : queue[s][i] \in Requests
    BY <1>1
  <2> QED
    BY <1>1, <2>1, <2>2 DEF ShapeInv, WaitersWait, WaitersOnce
<1>3. CASE queue[t] # <<>>
  <2> DEFINE h == Head(queue[t])
  <2>1. /\ queue' = [queue EXCEPT ![t] = Tail(@)]
        /\ handler' = [handlers EXCEPT ![h] = "woken"]
    BY <1>3 DEF Signal
  <2>2. /\ h = queue[t][1] /\ 1 \in DOMAIN queue[t] /\ h \in Requests
        /\ Tail(queue[t]) \in Seq(Requests)
        /\ \A i \in DOMAIN Tail(queue[t]) : /\ i + 1 \in DOMAIN queue[t] /\ i \in Nat \ {0}
                                            /\ Tail(queue[t])[i] = queue[t][i + 1]
    BY <1>1, <1>3
  <2> HIDE DEF h
  <2>3. queue'[t] = Tail(queue[t]) /\ \A s \in Tenants \ {t} : queue'[s] = queue[s]
    BY <1>1, <2>1
  <2>4. handler[h] = "waiting" /\ TenantOf[h] = t
    BY <2>2 DEF ShapeInv, WaitersWait
  <2>5. queue' \in [Tenants -> Seq(Requests)] /\ handler' \in Handlers
    BY <1>1, <2>1, <2>2 DEF Handlers, Stages, Busy, Counted, Waiting
  <2>6. \A r \in Requests : \/ handler'[r] = handlers[r]
                            \/ handler[r] = "waiting" /\ handler'[r] = "woken"
    BY <2>1, <2>2, <2>4 DEF Handlers
  <2>7. \A s \in Tenants : \A i \in DOMAIN queue'[s] : \E k \in DOMAIN queue[s] :
          /\ queue'[s][i] = queue[s][k] /\ queue[s][k] \in Requests /\ queue[s][k] # h
    <3>1. ASSUME NEW i \in DOMAIN queue'[t]
          PROVE  \E k \in DOMAIN queue[t] :
                   queue'[t][i] = queue[t][k] /\ queue[t][k] \in Requests /\ queue[t][k] # h
      <4>1. i + 1 \in DOMAIN queue[t] /\ queue'[t][i] = queue[t][i + 1] /\ i + 1 # 1
        BY <2>2, <2>3, <3>1
      <4>2. queue[t][i + 1] # h
        BY <2>2, <4>1 DEF ShapeInv, WaitersOnce
      <4> QED
        BY <1>1, <4>1, <4>2
    <3>2. ASSUME NEW s \in Tenants, s # t, NEW i \in DOMAIN queue'[s]
          PROVE  \E k \in DOMAIN queue[s] :
                   queue'[s][i] = queue[s][k] /\ queue[s][k] \in Requests /\ queue[s][k] # h
      <4>1. queue'[s] = queue[s] /\ i \in DOMAIN queue[s]
        BY <2>3, <3>2
      <4>2. queue[s][i] \in Requests /\ TenantOf[queue[s][i]] = s
        BY <1>1, <4>1 DEF ShapeInv, WaitersWait
      <4> QED
        BY <2>4, <3>2, <4>1, <4>2
    <3> QED
      BY <3>1, <3>2
  <2>8. WaitersWait'
    <3> SUFFICES ASSUME NEW s \in Tenants, NEW i \in DOMAIN queue'[s]
        PROVE  TenantOf[queue'[s][i]] = s /\ handler'[queue'[s][i]] = "waiting"
      BY DEF WaitersWait
    <3>1. PICK k \in DOMAIN queue[s] :
            queue'[s][i] = queue[s][k] /\ queue[s][k] \in Requests /\ queue[s][k] # h
      BY <2>7
    <3>2. TenantOf[queue[s][k]] = s /\ handlers[queue[s][k]] = "waiting"
      BY <3>1 DEF ShapeInv, WaitersWait
    <3> QED
      BY <2>1, <3>1, <3>2 DEF Handlers
  <2>9. WaitersOnce'
    <3> SUFFICES ASSUME NEW s \in Tenants, NEW i \in DOMAIN queue'[s], NEW k \in DOMAIN queue'[s],
                        queue'[s][i] = queue'[s][k]
        PROVE  i = k
      BY DEF WaitersOnce
    <3>1. CASE s # t
      BY <2>3, <3>1 DEF ShapeInv, WaitersOnce
    <3>2. CASE s = t
      <4>1. /\ i \in Nat /\ i + 1 \in DOMAIN queue[t] /\ queue'[t][i] = queue[t][i + 1]
            /\ k \in Nat /\ k + 1 \in DOMAIN queue[t] /\ queue'[t][k] = queue[t][k + 1]
        BY <2>2, <2>3, <3>2
      <4>2. i + 1 = k + 1
        BY <3>2, <4>1 DEF ShapeInv, WaitersOnce
      <4> QED
        BY <4>1, <4>2
    <3> QED
      BY <3>1, <3>2
  <2> QED
    BY <2>5, <2>6, <2>8, <2>9
<1> QED
  BY <1>2, <1>3

\* A request that is not in the queue moves: the queue is as it was.
LEMMA QueueStays ==
  ASSUME ShapeInv, UNCHANGED queue,
         \A r \in Requests : handler[r] = "waiting" => handler'[r] = "waiting"
  PROVE  queue' \in [Tenants -> Seq(Requests)] /\ WaitersWait' /\ WaitersOnce'
<1>1. queue \in [Tenants -> Seq(Requests)]
  BY DEF ShapeInv, TypeOK
<1>2. \A t \in Tenants : \A i \in DOMAIN queue[t] : queue[t][i] \in Requests
  BY <1>1
<1> QED
  BY <1>1, <1>2 DEF ShapeInv, WaitersWait, WaitersOnce

-----------------------------------------------------------------------------
(* Types and shape, by kinds of steps.                                     *)

RedisOK == count \in [Tenants -> Int] /\ exact \in BOOLEAN /\ faults \in 0..MaxFaults
ClientOK == client \in [Requests -> {"idle", "asking", "holding", "gone"}]
ClientStep == ClientOK' /\ \A r \in Requests : client'[r] = "idle" => client[r] = "idle"
EngineOK == browsers \in [Tenants -> Nat] /\ refused \subseteq Tenants
QueueOK == queue \in [Tenants -> Seq(Requests)] /\ WaitersWait /\ WaitersOnce

LEMMA RedisTyped ==
  ASSUME ShapeInv, NEW t \in Tenants,
         \/ UNCHANGED redisVars
         \/ Errs(t, 1) \/ Errs(t, 0) \/ Errs(t, -1)
         \/ Add(t, 1) /\ Undisturbed
         \/ Disturbed("resent") /\ Add(t, 2) /\ UNCHANGED exact
         \/ Decremented(t) \/ Zero(t)
  PROVE  RedisOK'
<1>1. RedisOK /\ MaxFaults \in Nat
  BY ManagerAssumption DEF ShapeInv, TypeOK, RedisOK
<1>2. ASSUME NEW n \in {-2, -1, 1, 2}, Add(t, n) PROVE count' \in [Tenants -> Int]
  BY <1>1, <1>2 DEF RedisOK, Add
<1>3. ASSUME NEW kind, Disturbed(kind) PROVE faults' \in 0..MaxFaults
  BY <1>1, <1>3 DEF RedisOK, Disturbed
<1>4. ASSUME NEW n \in {-1, 0, 1}, Errs(t, n) PROVE RedisOK'
  <2>1. count' \in [Tenants -> Int]
    BY <1>1, <1>4 DEF Errs, Add, RedisOK
  <2> QED
    BY <1>1, <1>3, <1>4, <2>1 DEF Errs, RedisOK
<1>5. CASE UNCHANGED redisVars
  BY <1>1, <1>5 DEF redisVars, RedisOK
<1>6. CASE Add(t, 1) /\ Undisturbed
  BY <1>1, <1>2, <1>6 DEF Undisturbed, RedisOK
<1>7. CASE Disturbed("resent") /\ Add(t, 2) /\ UNCHANGED exact
  BY <1>1, <1>2, <1>3, <1>7 DEF RedisOK
<1>8. CASE Decremented(t)
  BY <1>1, <1>2, <1>3, <1>8 DEF Decremented, Undisturbed, RedisOK
<1>9. CASE Zero(t)
  <2>1. CASE Errs(t, 0)
    BY <1>4, <2>1
  <2>2. CASE count' = [count EXCEPT ![t] = 0] /\ Undisturbed
    BY <1>1, <2>2 DEF Undisturbed, RedisOK
  <2> QED
    BY <1>9, <2>1, <2>2 DEF Zero
<1> QED
  BY <1>4, <1>5, <1>6, <1>7, <1>8, <1>9

\* A step of the handler of r.
LEMMA HandlerShape ==
  ASSUME ShapeInv, NEW r \in Requests, handler[r] \in Busy,
         handler' \in Handlers,
         \A q \in Requests \ {r} : \/ handler'[q] = handler[q]
                                   \/ handler[q] = "waiting" /\ handler'[q] = "woken",
         leases' \in {leases, leases \cup {r}}, r \in leases' => handler'[r] = "granted",
         remote' \subseteq Requests, UNCHANGED <<ending, processVars>>,
         ClientStep, RedisOK', QueueOK', EngineOK'
  PROVE  ShapeInv'
<1> USE DEF ShapeInv, TypeOK
<1>1. handler[r] # "granted" /\ handler[r] \notin Settled /\ stage # "down"
  BY DEF Settled, Busy, Counted, Waiting, DownIsEmpty
<1>2. r \notin leases /\ ending[r] = "none"
  BY <1>1 DEF EndingsGranted, At
<1>3. \A q \in Requests : handler[q] = "granted" => handler'[q] = "granted"
  BY <1>1
<1>4. TypeOK'
  BY <1>3 DEF At, Handlers, Stages, ClientStep, ClientOK, RedisOK, QueueOK, EngineOK, processVars
<1>5. EndingsGranted' /\ DownIsEmpty'
  BY <1>1, <1>2, <1>3 DEF EndingsGranted, DownIsEmpty, processVars
<1>6. AskedFirst'
  BY <1>1 DEF AskedFirst, ClientStep, Settled, Busy, Counted, Waiting
<1> QED
  BY <1>4, <1>5, <1>6 DEF QueueOK

LEMMA RefuseTyped ==
  ASSUME ShapeInv, NEW r \in Requests, Refuse(r)
  PROVE  ClientStep /\ handler' = [handler EXCEPT ![r] = "refused"]
BY DEF ShapeInv, TypeOK, Refuse, Goes, ClientStep, ClientOK

\* The handler of r goes on or is refused, without the engine.
LEMMA PlainHandlerShape ==
  ASSUME ShapeInv, NEW r \in Requests, handler[r] \in Busy, handler[r] # "waiting",
         NEW at \in Stages, at # "granted",
         (Goes(r, at) /\ UNCHANGED client) \/ Refuse(r),
         UNCHANGED <<leases, ending, poolVars, processVars>>, RedisOK'
  PROVE  ShapeInv'
<1>1. \E a \in Stages : handler' = [handler EXCEPT ![r] = a]
  BY RefuseTyped DEF Goes, Stages, Settled
<1>2. handler \in Handlers /\ handler' \in Handlers /\ ClientStep
  <2>1. handler \in Handlers
    BY DEF ShapeInv, TypeOK, Handlers, Stages
  <2>2. handler' \in Handlers
    BY <1>1, <2>1 DEF Handlers
  <2>3. ClientStep
    BY RefuseTyped DEF ShapeInv, TypeOK, ClientStep, ClientOK
  <2> QED
    BY <2>1, <2>2, <2>3
<1>3. QueueOK'
  BY <1>1, <1>2, QueueStays DEF QueueOK, poolVars, Handlers
<1>4. remote' \subseteq Requests /\ leases' = leases /\ r \notin leases /\ EngineOK'
  BY DEF ShapeInv, TypeOK, EngineOK, poolVars, At, Busy, Counted, Waiting
<1> QED
  BY <1>1, <1>2, <1>3, <1>4, HandlerShape DEF Handlers

\* A turn in the engine and the end of a launch move the handler within it, or to
\* its catch, and count a fault at most.
LEMMA EngineStepMoves ==
  ASSUME ShapeInv, NEW r \in Requests, PoolTurn(r) \/ LaunchEnds(r)
  PROVE  /\ handler[r] \in {"pool", "woken", "launching"}
         /\ \E at \in {"picked", "launching", "waiting", "undo"} : handler' = [handler EXCEPT ![r] = at]
         /\ UNCHANGED <<client, leases, ending, remote, count, exact, processVars>>
         /\ RedisOK' /\ ClientStep /\ remote' \subseteq Requests
<1>1. handler[r] \in {"pool", "woken", "launching"}
      /\ UNCHANGED <<client, leases, ending, remote, count, exact, processVars>>
  BY DEF PoolTurn, LaunchEnds
<1>2. \E at \in {"picked", "launching", "waiting", "undo"} : handler' = [handler EXCEPT ![r] = at]
  BY DEF PoolTurn, LaunchEnds, MemoryRefuses, Goes
<1>3. faults \in 0..MaxFaults /\ MaxFaults \in Nat
  BY ManagerAssumption DEF ShapeInv, TypeOK
<1>4. faults' = faults \/ (faults < MaxFaults /\ faults' = faults + 1)
  BY DEF PoolTurn, LaunchEnds, MemoryRefuses, Disturbed
<1>5. faults' \in 0..MaxFaults
  BY <1>3, <1>4
<1> QED
  BY <1>1, <1>2, <1>5 DEF ShapeInv, TypeOK, RedisOK, ClientStep, ClientOK

LEMMA HandlerStepShape ==
  ASSUME ShapeInv, NEW r \in Requests, HandlerStep(r)
  PROVE  ShapeInv'
<1> DEFINE t == TenantOf[r]
<1>1. t \in Tenants /\ handler \in Handlers
  BY ManagerAssumption DEF ShapeInv, TypeOK, Handlers, Stages
<1> HIDE DEF t
<1>2. CASE Incr(r)
  <2>1. \/ Add(t, 1) /\ Undisturbed
        \/ Errs(t, 1)
        \/ Disturbed("resent") /\ Add(t, 2) /\ UNCHANGED exact
    BY <1>2 DEF Incr, t
  <2>3. RedisOK'
    <3>1. CASE Add(t, 1) /\ Undisturbed
      BY <1>1, <3>1, RedisTyped
    <3>2. CASE Errs(t, 1)
      BY <1>1, <3>2, RedisTyped
    <3>3. CASE Disturbed("resent") /\ Add(t, 2) /\ UNCHANGED exact
      BY <1>1, <3>3, RedisTyped
    <3> QED
      BY <2>1, <3>1, <3>2, <3>3
  <2>2. \/ \E at \in {"over", "expire"} : Goes(r, at) /\ UNCHANGED client
        \/ Refuse(r)
    BY <1>2 DEF Incr
  <2> QED
    BY <1>2, <2>2, <2>3, PlainHandlerShape DEF Incr, Stages, Busy, Counted, Settled
<1>3. CASE GiveBack(r)
  <2>1. RedisOK'
    BY <1>1, <1>3, RedisTyped DEF GiveBack, t
  <2> QED
    BY <1>3, <2>1, PlainHandlerShape DEF GiveBack, Stages, Busy, Settled
<1>4. CASE SetExpiry(r)
  <2>1. RedisOK'
    BY <1>1, <1>4, RedisTyped DEF SetExpiry, t
  <2> QED
    BY <1>4, <2>1, PlainHandlerShape DEF SetExpiry, Stages, Busy, Counted, Settled
<1>5. CASE Undo(r)
  <2>1. RedisOK'
    BY <1>1, <1>5, RedisTyped DEF Undo, t
  <2> QED
    BY <1>5, <2>1, PlainHandlerShape DEF Undo, Stages, Busy, Counted, Settled
<1>6. CASE UndoZero(r)
  <2>1. RedisOK'
    BY <1>1, <1>6, RedisTyped DEF UndoZero, t
  <2> QED
    BY <1>6, <2>1, PlainHandlerShape DEF UndoZero, Stages, Busy, Settled
<1>7. CASE PoolTurn(r)
  <2>1. handler[r] \in {"pool", "woken"} /\ UNCHANGED browsers
    BY <1>7 DEF PoolTurn
  <2>2. /\ UNCHANGED queue \/ (Goes(r, "waiting") /\ queue' = [queue EXCEPT ![t] = Append(@, r)])
        /\ refused' = refused \/ refused' = refused \cup {t}
    BY <1>7 DEF PoolTurn, MemoryRefuses, t
  <2>3. EngineOK'
    BY <1>1, <2>1, <2>2 DEF ShapeInv, TypeOK, EngineOK
  <2>4. handler[r] \in Busy /\ handler[r] # "waiting" /\ r \notin leases
    BY <2>1 DEF Busy, Counted, Waiting, ShapeInv, TypeOK, At
  <2>5. PICK at \in {"picked", "launching", "waiting", "undo"} : handler' = [handler EXCEPT ![r] = at]
    BY <1>7, EngineStepMoves
  <2>6. /\ handler' \in Handlers /\ \A q \in Requests \ {r} : handler'[q] = handler[q]
        /\ \A q \in Requests : handler[q] = "waiting" => handler'[q] = "waiting"
    BY <1>1, <2>4, <2>5 DEF Handlers, Stages, Busy, Counted, Waiting
  <2>7. QueueOK'
    <3>1. CASE UNCHANGED queue
      BY <2>6, <3>1, QueueStays DEF QueueOK
    <3>2. CASE Goes(r, "waiting") /\ queue' = [queue EXCEPT ![t] = Append(@, r)]
      BY <2>4, <3>2, AppendWaits DEF Goes, QueueOK, t
    <3> QED
      BY <2>2, <3>1, <3>2
  <2> QED
    BY <1>7, <2>3, <2>4, <2>6, <2>7, EngineStepMoves, HandlerShape
<1>10. CASE LaunchEnds(r)
  <2>1. handler[r] = "launching" /\ UNCHANGED queue
    BY <1>10 DEF LaunchEnds
  <2>2. /\ browsers' = [browsers EXCEPT ![t] = @ + 1] \/ UNCHANGED browsers
        /\ refused' = refused \/ refused' = refused \cup {t}
    BY <1>10 DEF LaunchEnds, t
  <2>3. EngineOK'
    <3>1. browsers[t] \in Nat /\ EngineOK
      BY <1>1 DEF ShapeInv, TypeOK, EngineOK
    <3> QED
      BY <1>1, <2>2, <3>1 DEF EngineOK
  <2>4. handler[r] \in Busy /\ handler[r] # "waiting" /\ r \notin leases
    BY <2>1 DEF Busy, Counted, ShapeInv, TypeOK, At
  <2>5. PICK at \in {"picked", "launching", "waiting", "undo"} : handler' = [handler EXCEPT ![r] = at]
    BY <1>10, EngineStepMoves
  <2>6. /\ handler' \in Handlers /\ \A q \in Requests \ {r} : handler'[q] = handler[q]
        /\ \A q \in Requests : handler[q] = "waiting" => handler'[q] = "waiting"
    BY <1>1, <2>4, <2>5 DEF Handlers, Stages, Busy, Counted, Waiting
  <2>7. QueueOK'
    BY <2>1, <2>6, QueueStays DEF QueueOK
  <2> QED
    BY <1>10, <2>3, <2>4, <2>6, <2>7, EngineStepMoves, HandlerShape
<1>8. CASE Lease(r)
  <2>1. /\ handler[r] = "picked"
        /\ UNCHANGED <<client, leases, ending, browsers, refused, processVars, redisVars>>
    BY <1>8 DEF Lease
  <2>2. RedisOK' /\ ClientStep /\ EngineOK'
    BY <2>1 DEF ShapeInv, TypeOK, RedisOK, EngineOK, ClientStep, ClientOK, redisVars
  <2>3. handler[r] \in Busy /\ r \notin leases
    BY <2>1 DEF Busy, Counted, ShapeInv, TypeOK, At
  <2>4. CASE remote' = remote \cup {r} /\ Goes(r, "leased") /\ UNCHANGED queue
    <3>1. handler' \in Handlers
      BY <1>1, <2>4 DEF Goes, Handlers, Stages, Busy, Counted
    <3>2. QueueOK'
      BY <1>1, <2>1, <2>4, QueueStays DEF Goes, QueueOK, Handlers
    <3>3. remote' \subseteq Requests
      BY <2>4 DEF ShapeInv, TypeOK
    <3> QED
      BY <1>1, <2>1, <2>2, <2>3, <2>4, <3>1, <3>2, <3>3, HandlerShape DEF Goes, Handlers
  <2>5. CASE Signal(t, [handler EXCEPT ![r] = "undo"]) /\ UNCHANGED remote
    <3> DEFINE handlers == [handler EXCEPT ![r] = "undo"]
    <3>1. handlers \in Handlers /\ \A q \in Requests : handler[q] = "waiting" => handlers[q] = "waiting"
      BY <1>1, <2>1 DEF Handlers, Stages, Busy, Counted
    <3>2. \A q \in Requests \ {r} : handlers[q] = handler[q]
      BY <1>1 DEF Handlers
    <3>3. Signal(t, handlers)
      BY <2>5
    <3> HIDE DEF handlers
    <3>4. /\ QueueOK' /\ handler' \in Handlers
          /\ \A q \in Requests : \/ handler'[q] = handlers[q]
                                 \/ handler[q] = "waiting" /\ handler'[q] = "woken"
      BY <1>1, <3>1, <3>3, SignalWakes DEF QueueOK
    <3>5. remote' \subseteq Requests
      BY <2>5 DEF ShapeInv, TypeOK
    <3> QED
      BY <2>1, <2>2, <2>3, <3>2, <3>4, <3>5, HandlerShape
  <2> QED
    BY <1>8, <2>4, <2>5 DEF Lease, t
<1>9. CASE Register(r)
  <2>1. /\ handler[r] = "leased" /\ leases' = leases \cup {r} /\ Goes(r, "granted")
        /\ UNCHANGED <<ending, processVars, redisVars, poolVars>>
    BY <1>9 DEF Register
  <2>2. RedisOK' /\ EngineOK' /\ remote' \subseteq Requests
    BY <2>1 DEF ShapeInv, TypeOK, RedisOK, EngineOK, redisVars, poolVars
  <2>3. ClientStep
    BY <1>9 DEF Register, ShapeInv, TypeOK, ClientStep, ClientOK
  <2>4. handler[r] \in Busy
    BY <2>1 DEF Busy, Counted
  <2>5. handler' \in Handlers
    BY <1>1, <2>1 DEF Goes, Handlers, Stages, Settled
  <2>6. QueueOK'
    BY <1>1, <2>1, QueueStays DEF Goes, QueueOK, Handlers, poolVars
  <2> QED
    BY <1>1, <2>1, <2>2, <2>3, <2>4, <2>5, <2>6, HandlerShape DEF Goes, Handlers
<1> QED
  BY <1>2, <1>3, <1>4, <1>5, <1>6, <1>7, <1>8, <1>9, <1>10 DEF HandlerStep

\* A step of no handler: a lease leaves the table, a release goes on, a signal.
LEMMA ReleaseShape ==
  ASSUME ShapeInv, stage # "down", stage' # "down",
         handler' \in Handlers,
         \A q \in Requests : \/ handler'[q] = handler[q]
                             \/ handler[q] = "waiting" /\ handler'[q] = "woken",
         NEW S \in SUBSET leases, leases' = leases \ S,
         ending' \in [Requests -> {"none", "decr", "zero", "pool"}],
         \A l \in Requests : ending'[l] # "none" => l \in S \/ ending[l] # "none",
         remote' \subseteq Requests,
         stage' \in {"up", "draining", "closing", "down"},
         drain' \in [todo : SUBSET Requests, current : Requests \cup {NoLease}],
         restarts' = restarts, ClientStep, RedisOK', QueueOK', EngineOK'
  PROVE  ShapeInv'
<1> USE DEF ShapeInv, TypeOK
<1>1. \A q \in Requests : handler[q] = "granted" => handler'[q] = "granted"
  OBVIOUS
<1>2. TypeOK'
  BY <1>1 DEF At, Handlers, Stages, ClientStep, ClientOK, RedisOK, QueueOK, EngineOK
<1>3. EndingsGranted'
  BY <1>1 DEF EndingsGranted, At
<1>4. AskedFirst'
  BY DEF AskedFirst, ClientStep
<1> QED
  BY <1>2, <1>3, <1>4 DEF DownIsEmpty, QueueOK

\* What leaves the queue, the handlers and Redis alone.
LEMMA QuietShape ==
  ASSUME ShapeInv, UNCHANGED <<queue, browsers, refused, handler, redisVars>>
  PROVE  QueueOK' /\ RedisOK' /\ EngineOK' /\ handler' \in Handlers
         /\ \A q \in Requests : handler'[q] = handler[q]
<1>1. RedisOK' /\ EngineOK' /\ handler' \in Handlers
  BY DEF ShapeInv, TypeOK, RedisOK, EngineOK, redisVars, Handlers, Stages
<1>2. QueueOK'
  BY QueueStays DEF QueueOK
<1> QED
  BY <1>1, <1>2

LEMMA OtherStepShape ==
  ASSUME ShapeInv, NEW r \in Requests,
         Ask(r) \/ ReleaseStep(r) \/ Sweep(r) \/ ReleaseArrives(r) \/ Vanish(r) \/ DrainNext(r)
  PROVE  ShapeInv'
<1> DEFINE t == TenantOf[r]
<1>1. t \in Tenants /\ handler \in Handlers /\ ClientOK
      /\ ending \in [Requests -> {"none", "decr", "zero", "pool"}]
      /\ remote \subseteq Requests /\ leases \subseteq Requests
      /\ stage \in {"up", "draining", "closing", "down"}
      /\ drain \in [todo : SUBSET Requests, current : Requests \cup {NoLease}]
  BY ManagerAssumption DEF ShapeInv, TypeOK, Handlers, Stages, ClientOK, At
<1> HIDE DEF t
<1>2. ASSUME ReleaseStarts(r) /\ r \in leases
      PROVE  /\ leases' = leases \ {r} /\ {r} \in SUBSET leases
             /\ ending' \in [Requests -> {"none", "decr", "zero", "pool"}]
             /\ \A l \in Requests : ending'[l] # "none" => l \in {r} \/ ending[l] # "none"
  BY <1>1, <1>2 DEF ReleaseStarts
<1>3. CASE Ask(r)
  <2>1. handler[r] = "idle" /\ stage # "down"
    BY <1>3 DEF Ask, ShapeInv, AskedFirst
  <2>2. \E at \in Stages \ {"granted"} : handler' = [handler EXCEPT ![r] = at]
    BY <1>3 DEF Ask, Goes, Stages, Busy, Counted, Settled
  <2>3. /\ client' \in [Requests -> {"idle", "asking", "holding", "gone"}] /\ client'[r] # "idle"
        /\ \A q \in Requests \ {r} : client'[q] = client[q]
    BY <1>1, <1>3 DEF Ask, ClientGoes, ClientOK
  <2>4. UNCHANGED <<leases, ending, poolVars, redisVars, processVars>>
    BY <1>3 DEF Ask
  <2>5. r \notin leases /\ ending[r] = "none"
    BY <2>1 DEF ShapeInv, TypeOK, At, EndingsGranted
  <2>6. handler' \in Handlers /\ \A q \in Requests \ {r} : handler'[q] = handler[q]
    BY <1>1, <2>2 DEF Handlers
  <2>7. QueueOK'
    BY <2>1, <2>4, <2>6, QueueStays DEF QueueOK, poolVars
  <2>8. TypeOK'
    BY <2>3, <2>4, <2>5, <2>6, <2>7
       DEF ShapeInv, TypeOK, At, Handlers, Stages, poolVars, redisVars, processVars, QueueOK
  <2>9. EndingsGranted' /\ AskedFirst' /\ DownIsEmpty'
    BY <2>1, <2>3, <2>4, <2>5, <2>6 DEF ShapeInv, EndingsGranted, AskedFirst, DownIsEmpty, processVars
  <2> QED
    BY <2>7, <2>8, <2>9 DEF ShapeInv, QueueOK
<1>4. CASE Sweep(r)
  BY <1>1, <1>2, <1>4, QuietShape, ReleaseShape
     DEF Sweep, poolVars, processVars, ClientStep, ClientOK
<1>5. CASE ReleaseArrives(r)
  <2>1. ClientStep
    BY <1>1, <1>5 DEF ReleaseArrives, ClientGoes, ClientStep, ClientOK
  <2>2. CASE r \in leases
    BY <1>1, <1>2, <1>5, <2>1, <2>2, QuietShape, ReleaseShape
       DEF ReleaseArrives, Running, poolVars, processVars
  <2>3. CASE r \notin leases
    <3>1. {} \in SUBSET leases /\ leases' = leases \ {} /\ ending' = ending
      BY <1>5, <2>3 DEF ReleaseArrives
    <3> QED
      BY <1>1, <1>5, <2>1, <3>1, QuietShape, ReleaseShape
         DEF ReleaseArrives, Running, poolVars, processVars
  <2> QED
    BY <2>2, <2>3
<1>6. CASE Vanish(r)
  <2>1. ClientStep
    BY <1>1, <1>6 DEF Vanish, ClientGoes, ClientStep, ClientOK
  <2> QED
    BY <1>6, <2>1
       DEF Vanish, poolVars, redisVars, processVars, ShapeInv, TypeOK, ClientStep, ClientOK, AskedFirst, EndingsGranted,
           DownIsEmpty, WaitersWait, WaitersOnce, At
<1>7. CASE DrainNext(r)
  <2>1. drain' \in [todo : SUBSET Requests, current : Requests \cup {NoLease}]
        /\ stage = "draining" /\ stage' = "draining" /\ restarts' = restarts
    BY <1>1, <1>7 DEF DrainNext
  <2>2. UNCHANGED <<client, handler, poolVars, redisVars>>
    BY <1>7 DEF DrainNext
  <2>3. CASE r \in leases
    BY <1>1, <1>2, <1>7, <2>1, <2>2, <2>3, QuietShape, ReleaseShape DEF DrainNext, poolVars, ClientStep, ClientOK
  <2>4. CASE r \notin leases
    <3>1. {} \in SUBSET leases /\ leases' = leases \ {} /\ ending' = ending
      BY <1>7, <2>4 DEF DrainNext
    <3> QED
      BY <1>1, <2>1, <2>2, <3>1, QuietShape, ReleaseShape DEF poolVars, ClientStep, ClientOK
  <2> QED
    BY <2>3, <2>4
\* A release that goes on.
<1>8. ASSUME ending[r] # "none", \E at \in {"none", "zero", "pool"} : EndingGoes(r, at),
             UNCHANGED <<client, leases, processVars>>
      PROVE  /\ stage # "down" /\ stage' # "down" /\ {} \in SUBSET leases /\ leases' = leases \ {}
             /\ ending' \in [Requests -> {"none", "decr", "zero", "pool"}]
             /\ \A l \in Requests : ending'[l] # "none" => l \in {} \/ ending[l] # "none"
             /\ stage' \in {"up", "draining", "closing", "down"}
             /\ drain' \in [todo : SUBSET Requests, current : Requests \cup {NoLease}]
             /\ restarts' = restarts /\ ClientStep
  BY <1>1, <1>8 DEF EndingGoes, processVars, ClientStep, ClientOK, ShapeInv, DownIsEmpty
<1>9. CASE ReleaseDecr(r) \/ ReleaseZero(r)
  <2>1. RedisOK'
    BY <1>1, <1>9, RedisTyped DEF ReleaseDecr, ReleaseZero, t
  <2>2. /\ ending[r] # "none" /\ \E at \in {"none", "zero", "pool"} : EndingGoes(r, at)
        /\ UNCHANGED <<client, handler, leases, poolVars, processVars>>
    BY <1>9 DEF ReleaseDecr, ReleaseZero
  <2>3. QueueOK' /\ handler' \in Handlers /\ \A q \in Requests : handler'[q] = handler[q]
    BY <1>1, <2>2, QueueStays DEF QueueOK, poolVars
  <2>4. remote' \subseteq Requests /\ EngineOK'
    BY <1>1, <2>2 DEF poolVars, ShapeInv, TypeOK, EngineOK
  <2> QED
    BY <1>8, <2>1, <2>2, <2>3, <2>4, ReleaseShape
<1>10. CASE ReleasePlace(r)
  <2>1. /\ ending[r] # "none" /\ \E at \in {"none", "zero", "pool"} : EndingGoes(r, at)
        /\ UNCHANGED <<client, leases, browsers, refused, processVars, redisVars>>
        /\ remote' \subseteq Requests
    BY <1>1, <1>10 DEF ReleasePlace
  <2>2. RedisOK' /\ EngineOK'
    BY <2>1 DEF ShapeInv, TypeOK, RedisOK, EngineOK, redisVars
  <2>3. /\ QueueOK' /\ handler' \in Handlers
        /\ \A q \in Requests : \/ handler'[q] = handler[q]
                               \/ handler[q] = "waiting" /\ handler'[q] = "woken"
    <3>1. CASE Signal(t, handler)
      BY <1>1, <3>1, SignalWakes DEF QueueOK
    <3>2. CASE UNCHANGED <<queue, handler>>
      BY <1>1, <3>2, QueueStays DEF QueueOK
    <3> QED
      BY <1>10, <3>1, <3>2 DEF ReleasePlace, t
  <2> QED
    BY <1>8, <2>1, <2>2, <2>3, ReleaseShape
<1> QED
  BY <1>3, <1>4, <1>5, <1>6, <1>7, <1>9, <1>10 DEF ReleaseStep

LEMMA NoQueue ==
  ASSUME queue' = [t \in Tenants |-> <<>>]
  PROVE  queue' \in [Tenants -> Seq(Requests)] /\ WaitersWait' /\ WaitersOnce'
BY DEF WaitersWait, WaitersOnce

LEMMA EndsShape ==
  ASSUME ShapeInv, Ends, RedisOK'
  PROVE  ShapeInv'
<1>1. handler \in Handlers /\ ClientOK /\ restarts \in 0..MaxRestarts
  BY DEF ShapeInv, TypeOK, Handlers, Stages, ClientOK
<1>2. /\ handler' \in Handlers /\ \A r \in Requests : handler'[r] \in Settled
      /\ client' \in [Requests -> {"idle", "asking", "holding", "gone"}]
      /\ \A r \in Requests : handler[r] = "idle" => handler'[r] = "idle"
      /\ \A r \in Requests : client'[r] = "idle" => client[r] = "idle"
  BY <1>1 DEF Ends, Handlers, Stages, Settled, Busy, Counted, Waiting, ClientOK
<1>3. /\ leases' = {} /\ remote' = {} /\ queue' = [t \in Tenants |-> <<>>]
      /\ browsers' = [t \in Tenants |-> 0] /\ refused' = {}
      /\ ending' = [l \in Requests |-> "none"] /\ stage' = "down" /\ restarts' = restarts
      /\ drain' \in [todo : SUBSET Requests, current : Requests \cup {NoLease}]
  BY DEF Ends, Free, NoDrain
<1>4. TypeOK' /\ WaitersWait' /\ WaitersOnce'
  BY <1>1, <1>2, <1>3, NoQueue DEF TypeOK, At, Handlers, Stages, RedisOK
<1>5. EndingsGranted' /\ DownIsEmpty' /\ AskedFirst'
  BY <1>2, <1>3 DEF EndingsGranted, DownIsEmpty, AskedFirst, ShapeInv
<1> QED
  BY <1>4, <1>5 DEF ShapeInv

LEMMA ProcessShape ==
  ASSUME ShapeInv, Stop \/ ClosePool \/ Exit \/ Crash \/ Restart \/ (\E t \in Tenants : KeyExpires(t))
  PROVE  ShapeInv'
<1>1. RedisOK /\ ClientOK /\ handler \in Handlers /\ leases \subseteq Requests
      /\ ending \in [Requests -> {"none", "decr", "zero", "pool"}] /\ remote \subseteq Requests
  BY DEF ShapeInv, TypeOK, RedisOK, ClientOK, Handlers, Stages, At
<1>2. CASE Stop
  <2>1. UNCHANGED <<client, handler, leases, ending, poolVars, redisVars, restarts>>
        /\ stage = "up" /\ stage' = "draining"
    BY <1>2 DEF Stop
  <2>2. drain' \in [todo : SUBSET Requests, current : Requests \cup {NoLease}]
    BY <1>1, <1>2 DEF Stop
  <2> QED
    BY <2>1, <2>2 DEF ShapeInv, TypeOK, poolVars, redisVars, At, EndingsGranted, DownIsEmpty, AskedFirst,
                      WaitersWait, WaitersOnce
<1>3. CASE ClosePool
  <2>1. drain' \in [todo : SUBSET Requests, current : Requests \cup {NoLease}]
    BY <1>3 DEF ClosePool, NoDrain
  <2> QED
    BY <1>3, <2>1, NoQueue
       DEF ClosePool, ShapeInv, TypeOK, redisVars, At, EndingsGranted, DownIsEmpty, AskedFirst
<1>4. CASE Exit
  BY <1>1, <1>4, EndsShape DEF Exit, RedisOK, redisVars
<1>5. CASE Crash
  BY <1>1, <1>5, EndsShape, ManagerAssumption DEF Crash, Disturbed, RedisOK
<1>6. CASE Restart
  <2>1. UNCHANGED <<client, handler, leases, ending, poolVars, redisVars, drain>>
        /\ stage' = "up" /\ restarts' \in 0..MaxRestarts
    BY <1>6, ManagerAssumption DEF Restart, ShapeInv, TypeOK
  <2> QED
    BY <2>1 DEF ShapeInv, TypeOK, poolVars, redisVars, At, EndingsGranted, DownIsEmpty, AskedFirst,
                WaitersWait, WaitersOnce
<1>7. ASSUME NEW t \in Tenants, KeyExpires(t) PROVE ShapeInv'
  <2>1. UNCHANGED <<client, handler, leases, ending, poolVars, faults, processVars>>
    BY <1>7 DEF KeyExpires
  <2>2. count' \in [Tenants -> Int] /\ exact' \in BOOLEAN
    BY <1>1, <1>7 DEF KeyExpires, RedisOK
  <2> QED
    BY <2>1, <2>2 DEF ShapeInv, TypeOK, poolVars, processVars, At, EndingsGranted, DownIsEmpty,
                      AskedFirst, WaitersWait, WaitersOnce
<1> QED
  BY <1>2, <1>3, <1>4, <1>5, <1>6, <1>7

LEMMA ShapeInvStep == ShapeInv /\ [Next]_vars => ShapeInv'
<1> SUFFICES ASSUME ShapeInv, [Next]_vars PROVE ShapeInv'
  OBVIOUS
<1>1. CASE UNCHANGED vars
  BY <1>1 DEF vars, ShapeInv, TypeOK, At, EndingsGranted, DownIsEmpty, AskedFirst, WaitersWait,
              WaitersOnce
<1> QED
  BY <1>1, HandlerStepShape, OtherStepShape, ProcessShape DEF Next, Shutdown

LEMMA ShapeInvAlways == Spec => []ShapeInv
BY ShapeInvInit, ShapeInvStep, PTL DEF Spec

\* Every variable keeps its type, for any number of requests, tenants and faults; the
\* table only ever holds requests that were answered with a lease.
THEOREM ManagerTypes == Spec => []TypeOK
BY ShapeInvAlways, PTL DEF ShapeInv

-----------------------------------------------------------------------------
(* The places of the engines.                                              *)

\* No step but those of a lease's own life touches its place.
LEMMA PlacesStay ==
  ASSUME ShapeInv, PlacesKnown, UNCHANGED <<remote, leases, ending, stage>>,
         \A r \in Requests : handler'[r] = "leased" <=> handler[r] = "leased"
  PROVE  PlacesKnown'
BY DEF PlacesKnown, At

\* What a signal does to the handlers is nothing to the places.
LEMMA SignalKeepsLeased ==
  ASSUME ShapeInv, NEW t \in Tenants, NEW handlers \in Handlers,
         \A r \in Requests : handler[r] = "waiting" => handlers[r] = "waiting",
         Signal(t, handlers)
  PROVE  \A r \in Requests : handler'[r] = "leased" <=> handlers[r] = "leased"
<1>1. \A r \in Requests : \/ handler'[r] = handlers[r]
                          \/ handler[r] = "waiting" /\ handler'[r] = "woken"
  BY SignalWakes
<1> QED
  BY <1>1

LEMMA HandlerPlaces ==
  ASSUME ShapeInv, PlacesKnown, NEW r \in Requests, Ask(r) \/ HandlerStep(r)
  PROVE  PlacesKnown'
<1>1. handler \in Handlers /\ TenantOf[r] \in Tenants
  BY ManagerAssumption DEF ShapeInv, TypeOK, Handlers, Stages
<1>2. ASSUME NEW at, at # "leased", handler' = [handler EXCEPT ![r] = at], handler[r] # "leased",
             UNCHANGED <<remote, leases, ending, stage>>
      PROVE  PlacesKnown'
  BY <1>1, <1>2, PlacesStay DEF Handlers
<1>3. CASE Ask(r)
  <2>1. handler[r] # "leased"
    BY <1>3 DEF Ask, ShapeInv, AskedFirst
  <2> QED
    BY <1>2, <1>3, <2>1 DEF Ask, Goes, poolVars, processVars
<1>4. CASE Incr(r)
  BY <1>2, <1>4 DEF Incr, Goes, Refuse, poolVars, processVars
<1>5. CASE GiveBack(r)
  BY <1>2, <1>5 DEF GiveBack, Goes, Refuse, poolVars, processVars
<1>6. CASE SetExpiry(r)
  BY <1>2, <1>6 DEF SetExpiry, Goes, Refuse, poolVars, processVars
<1>7. CASE PoolTurn(r) \/ LaunchEnds(r)
  BY <1>2, <1>7, EngineStepMoves DEF processVars
<1>8. CASE Undo(r)
  BY <1>2, <1>8 DEF Undo, Goes, Refuse, poolVars, processVars
<1>9. CASE UndoZero(r)
  BY <1>2, <1>9 DEF UndoZero, Goes, Refuse, poolVars, processVars
<1>10. CASE Lease(r)
  <2>1. CASE remote' = remote \cup {r} /\ Goes(r, "leased")
    BY <1>1, <1>10, <2>1 DEF Lease, Goes, PlacesKnown, At, Handlers, processVars
  <2>2. CASE Signal(TenantOf[r], [handler EXCEPT ![r] = "undo"]) /\ UNCHANGED remote
    <3> DEFINE handlers == [handler EXCEPT ![r] = "undo"]
    <3>1. /\ handlers \in Handlers
          /\ \A q \in Requests : handler[q] = "waiting" => handlers[q] = "waiting"
          /\ \A q \in Requests : handler[q] = "leased" <=> handlers[q] = "leased"
      BY <1>1, <1>10 DEF Lease, Handlers, Stages, Busy, Counted
    <3>2. Signal(TenantOf[r], handlers)
      BY <2>2
    <3> HIDE DEF handlers
    <3>3. \A q \in Requests : handler'[q] = "leased" <=> handler[q] = "leased"
      BY <1>1, <3>1, <3>2, SignalKeepsLeased
    <3> QED
      BY <1>10, <2>2, <3>3, PlacesStay DEF Lease, processVars
  <2> QED
    BY <1>10, <2>1, <2>2 DEF Lease
<1>11. CASE Register(r)
  BY <1>1, <1>11 DEF Register, Goes, PlacesKnown, At, Handlers, poolVars, processVars
<1> QED
  BY <1>3, <1>4, <1>5, <1>6, <1>7, <1>8, <1>9, <1>10, <1>11 DEF HandlerStep

LEMMA ReleasePlaces ==
  ASSUME ShapeInv, PlacesKnown, NEW r \in Requests,
         ReleaseStep(r) \/ Sweep(r) \/ ReleaseArrives(r) \/ Vanish(r) \/ DrainNext(r)
  PROVE  PlacesKnown'
<1>1. handler \in Handlers /\ TenantOf[r] \in Tenants
      /\ ending \in [Requests -> {"none", "decr", "zero", "pool"}]
  BY ManagerAssumption DEF ShapeInv, TypeOK, Handlers, Stages
<1>2. ASSUME ReleaseStarts(r), r \in leases, UNCHANGED <<handler, remote, stage>> PROVE PlacesKnown'
  BY <1>1, <1>2 DEF ReleaseStarts, PlacesKnown, At
<1>3. CASE Sweep(r)
  BY <1>2, <1>3 DEF Sweep, poolVars, processVars
<1>4. CASE ReleaseArrives(r)
  BY <1>2, <1>4, PlacesStay DEF ReleaseArrives, poolVars, processVars
<1>5. CASE Vanish(r)
  BY <1>5, PlacesStay DEF Vanish, poolVars, processVars
<1>6. CASE DrainNext(r)
  BY <1>2, <1>6, PlacesStay DEF DrainNext, poolVars
<1>7. CASE ReleaseDecr(r)
  BY <1>1, <1>7 DEF ReleaseDecr, EndingGoes, PlacesKnown, At, poolVars, processVars
<1>8. CASE ReleaseZero(r)
  BY <1>1, <1>8 DEF ReleaseZero, EndingGoes, PlacesKnown, At, poolVars, processVars
<1>9. CASE ReleasePlace(r)
  <2>1. \A q \in Requests : handler'[q] = "leased" <=> handler[q] = "leased"
    BY <1>1, <1>9, SignalKeepsLeased DEF ReleasePlace
  <2>2. r \notin leases /\ handler[r] # "leased"
    BY <1>9 DEF ReleasePlace, ShapeInv, EndingsGranted
  <2> QED
    BY <1>1, <1>9, <2>1, <2>2 DEF ReleasePlace, EndingGoes, PlacesKnown, At, processVars
<1> QED
  BY <1>3, <1>4, <1>5, <1>6, <1>7, <1>8, <1>9 DEF ReleaseStep

\* The manager loses no place and frees none twice, however the sweep, a release, a
\* shutdown and a handler that is about to register interleave.
THEOREM NoPlaceIsLost == Spec => []PlacesKnown
<1>1. Init => PlacesKnown
  BY DEF Init, PlacesKnown, At, Free
<1>2. ShapeInv /\ PlacesKnown /\ [Next]_vars => PlacesKnown'
  <2> SUFFICES ASSUME ShapeInv, PlacesKnown, [Next]_vars PROVE PlacesKnown'
    OBVIOUS
  <2>1. CASE Stop
    BY <2>1 DEF Stop, PlacesKnown, At, poolVars
  <2>2. CASE ClosePool \/ Exit \/ Crash
    BY <2>2 DEF ClosePool, Exit, Crash, Ends, PlacesKnown
  <2>3. CASE Restart
    <3>1. /\ leases = {} /\ remote = {}
          /\ \A r \in Requests : ending[r] = "none" /\ handler[r] # "leased"
      BY <2>3 DEF Restart, ShapeInv, DownIsEmpty, Settled
    <3> QED
      BY <2>3, <3>1 DEF Restart, PlacesKnown, At, poolVars
  <2>4. CASE \E t \in Tenants : KeyExpires(t)
    BY <2>4, PlacesStay DEF KeyExpires, poolVars, processVars
  <2>5. CASE UNCHANGED vars
    BY <2>5, PlacesStay DEF vars
  <2> QED
    BY <2>1, <2>2, <2>3, <2>4, <2>5, HandlerPlaces, ReleasePlaces DEF Next, Shutdown
<1> QED
  BY <1>1, <1>2, ShapeInvAlways, PTL DEF Spec

-----------------------------------------------------------------------------
(* The counter of a tenant and what it stands for.                         *)

Over(t) == Of(t, At({"over"}))
Burden(r) == handler[r] \in Counted \/ r \in leases \/ ending[r] = "decr"

Covers(t) ==
  /\ Cardinality(Charged(t)) + Cardinality(Over(t)) <= count[t]
  /\ Cardinality(Charged(t)) <= Quota

\* Inductive with ShapeInv: a counter that covers its charges never turns negative,
\* so nobody is about to set it back to zero under them.
NoZeros == \A r \in Requests : handler[r] # "zero" /\ ending[r] # "zero"
CoverInv == (exact /\ Quota > 0) => NoZeros /\ \A t \in Tenants : Covers(t)

ChargesKnown ==
  \A t \in Tenants :
    /\ \A r : r \in Charged(t) <=> r \in Requests /\ TenantOf[r] = t /\ Burden(r)
    /\ \A r : r \in Over(t) <=> r \in Requests /\ TenantOf[r] = t /\ handler[r] = "over"
    /\ IsFiniteSet(Charged(t)) /\ Cardinality(Charged(t)) \in Nat
    /\ IsFiniteSet(Over(t)) /\ Cardinality(Over(t)) \in Nat

LEMMA ChargedSets == ShapeInv => ChargesKnown
<1> SUFFICES ASSUME ShapeInv PROVE ChargesKnown
  OBVIOUS
<1> SUFFICES ASSUME NEW t \in Tenants
    PROVE  /\ \A r : r \in Charged(t) <=> r \in Requests /\ TenantOf[r] = t /\ Burden(r)
           /\ \A r : r \in Over(t) <=> r \in Requests /\ TenantOf[r] = t /\ handler[r] = "over"
           /\ IsFiniteSet(Charged(t)) /\ Cardinality(Charged(t)) \in Nat
           /\ IsFiniteSet(Over(t)) /\ Cardinality(Over(t)) \in Nat
  BY DEF ChargesKnown
<1>1. leases \subseteq Requests
  BY DEF ShapeInv, TypeOK, At
<1>2. \A r : r \in Charged(t) <=> r \in Requests /\ TenantOf[r] = t /\ Burden(r)
  BY <1>1 DEF Charged, Of, At, Burden
<1>3. \A r : r \in Over(t) <=> r \in Requests /\ TenantOf[r] = t /\ handler[r] = "over"
  BY DEF Over, Of, At
<1>4. Charged(t) \subseteq Requests /\ Over(t) \subseteq Requests
  BY <1>2, <1>3
<1> QED
  BY <1>2, <1>3, <1>4, ManagerAssumption, FS_Subset, FS_CardinalityType

LEMMA ChargedSetsNext == ShapeInv' => ChargesKnown'
BY ChargedSets, PTL

LEMMA NotLarger ==
  ASSUME NEW S, IsFiniteSet(S), NEW T \in SUBSET S
  PROVE  Cardinality(S) \in Nat /\ Cardinality(T) \in Nat /\ Cardinality(T) <= Cardinality(S)
BY FS_Subset, FS_CardinalityType

LEMMA OneLess ==
  ASSUME NEW S, IsFiniteSet(S), NEW x \in S, NEW T \in SUBSET S, x \notin T
  PROVE  Cardinality(T) + 1 <= Cardinality(S)
<1>1. T \cup {x} \in SUBSET S /\ IsFiniteSet(T)
  BY FS_Subset
<1>2. Cardinality(T \cup {x}) = Cardinality(T) + 1
  BY <1>1, FS_AddElement
<1> QED
  BY <1>1, <1>2, NotLarger

LEMMA OneMore ==
  ASSUME NEW S, IsFiniteSet(S), NEW x, NEW T \in SUBSET (S \cup {x})
  PROVE  Cardinality(T) <= Cardinality(S) + 1
<1>1. IsFiniteSet(S \cup {x}) /\ Cardinality(S) \in Nat
      /\ (Cardinality(S \cup {x}) = Cardinality(S) + 1 \/ Cardinality(S \cup {x}) = Cardinality(S))
  BY FS_AddElement, FS_CardinalityType
<1> QED
  BY <1>1, NotLarger

\* Nothing is charged that was not, and no counter falls.
LEMMA NothingNew ==
  ASSUME ShapeInv, ShapeInv', NEW t \in Tenants, Covers(t), Quota \in Nat,
         \A q \in Of(t, Requests) : /\ Burden(q)' => Burden(q)
                                    /\ handler'[q] = "over" => handler[q] = "over",
         count'[t] >= count[t]
  PROVE  Covers(t)'
<1>1. Charged(t)' \in SUBSET Charged(t) /\ Over(t)' \in SUBSET Over(t)
      /\ IsFiniteSet(Charged(t)) /\ IsFiniteSet(Over(t))
  BY ChargedSets, ChargedSetsNext DEF ChargesKnown, Of
<1>2. Cardinality(Charged(t)') <= Cardinality(Charged(t)) /\ Cardinality(Over(t)') <= Cardinality(Over(t))
      /\ Cardinality(Charged(t)) \in Nat /\ Cardinality(Over(t)) \in Nat
      /\ Cardinality(Charged(t)') \in Nat /\ Cardinality(Over(t)') \in Nat
  BY <1>1, NotLarger
<1>3. count[t] \in Int /\ count'[t] \in Int
  BY DEF ShapeInv, TypeOK
<1> QED
  BY <1>2, <1>3 DEF Covers

\* One charge is given up, or one request over the limit, for one decrement.
LEMMA OnePays ==
  ASSUME ShapeInv, ShapeInv', NEW t \in Tenants, Covers(t), Quota \in Nat,
         \A q \in Of(t, Requests) : /\ Burden(q)' => Burden(q)
                                    /\ handler'[q] = "over" => handler[q] = "over",
         NEW r \in Of(t, Requests),
         \/ Burden(r) /\ ~Burden(r)'
         \/ handler[r] = "over" /\ handler'[r] # "over",
         count'[t] = count[t] - 1
  PROVE  Covers(t)'
<1>1. Charged(t)' \in SUBSET Charged(t) /\ Over(t)' \in SUBSET Over(t)
      /\ IsFiniteSet(Charged(t)) /\ IsFiniteSet(Over(t))
  BY ChargedSets, ChargedSetsNext DEF ChargesKnown, Of
<1>2. Cardinality(Charged(t)') <= Cardinality(Charged(t)) /\ Cardinality(Over(t)') <= Cardinality(Over(t))
      /\ Cardinality(Charged(t)) \in Nat /\ Cardinality(Over(t)) \in Nat
      /\ Cardinality(Charged(t)') \in Nat /\ Cardinality(Over(t)') \in Nat
  BY <1>1, NotLarger
<1>3. \/ Cardinality(Charged(t)') + 1 <= Cardinality(Charged(t))
      \/ Cardinality(Over(t)') + 1 <= Cardinality(Over(t))
  <2>1. CASE Burden(r) /\ ~Burden(r)'
    <3>1. r \in Charged(t) /\ r \notin Charged(t)'
      BY <2>1, ChargedSets, ChargedSetsNext DEF ChargesKnown, Of
    <3> QED
      BY <1>1, <3>1, OneLess
  <2>2. CASE handler[r] = "over" /\ handler'[r] # "over"
    <3>1. r \in Over(t) /\ r \notin Over(t)'
      BY <2>2, ChargedSets, ChargedSetsNext DEF ChargesKnown, Of
    <3> QED
      BY <1>1, <3>1, OneLess
  <2> QED
    BY <2>1, <2>2
<1>4. count[t] \in Int /\ count'[t] \in Int
  BY DEF ShapeInv, TypeOK
<1> QED
  BY <1>2, <1>3, <1>4 DEF Covers

\* One request more is charged, or over the limit, for one increment or two.
LEMMA OneEnters ==
  ASSUME ShapeInv, ShapeInv', NEW t \in Tenants, Covers(t), Quota \in Nat,
         NEW r \in Of(t, Requests),
         \A q \in Of(t, Requests) \ {r} : /\ Burden(q)' => Burden(q)
                                          /\ handler'[q] = "over" => handler[q] = "over",
         \/ handler'[r] # "over" /\ count'[t] <= Quota
         \/ ~Burden(r)',
         count'[t] >= count[t] + 1
  PROVE  Covers(t)'
<1>1. IsFiniteSet(Charged(t)) /\ IsFiniteSet(Over(t))
      /\ Cardinality(Charged(t)) \in Nat /\ Cardinality(Over(t)) \in Nat
      /\ Cardinality(Charged(t)') \in Nat /\ Cardinality(Over(t)') \in Nat
  BY ChargedSets, ChargedSetsNext DEF ChargesKnown
<1>2. count[t] \in Int /\ count'[t] \in Int
  BY DEF ShapeInv, TypeOK
<1>3. CASE handler'[r] # "over" /\ count'[t] <= Quota
  <2>1. Charged(t)' \in SUBSET (Charged(t) \cup {r}) /\ Over(t)' \in SUBSET Over(t)
    BY <1>3, ChargedSets, ChargedSetsNext DEF ChargesKnown, Of
  <2>2. Cardinality(Charged(t)') <= Cardinality(Charged(t)) + 1
    BY <1>1, <2>1, OneMore
  <2>3. Cardinality(Over(t)') <= Cardinality(Over(t))
    BY <1>1, <2>1, NotLarger
  <2> QED
    BY <1>1, <1>2, <1>3, <2>2, <2>3 DEF Covers
<1>4. CASE ~Burden(r)'
  <2>1. Charged(t)' \in SUBSET Charged(t) /\ Over(t)' \in SUBSET (Over(t) \cup {r})
    BY <1>4, ChargedSets, ChargedSetsNext DEF ChargesKnown, Of
  <2>2. Cardinality(Over(t)') <= Cardinality(Over(t)) + 1
    BY <1>1, <2>1, OneMore
  <2>3. Cardinality(Charged(t)') <= Cardinality(Charged(t))
    BY <1>1, <2>1, NotLarger
  <2> QED
    BY <1>1, <1>2, <2>2, <2>3 DEF Covers
<1> QED
  BY <1>3, <1>4

\* A step of request r: what it may do to the counter of its tenant.
Falls(r) == (Burden(r)' => Burden(r)) /\ (handler'[r] = "over" => handler[r] = "over")
Frees(r) == Falls(r) /\ (\/ Burden(r) /\ ~Burden(r)'
                         \/ handler[r] = "over" /\ handler'[r] # "over")
Fair(r) ==
  LET t == TenantOf[r]
  IN  \/ Falls(r) /\ count'[t] >= count[t]
      \/ Frees(r) /\ count'[t] = count[t] - 1
      \/ /\ count'[t] >= count[t] + 1
         /\ (handler'[r] # "over" /\ count'[t] <= Quota) \/ ~Burden(r)'

LEMMA FairStepCovers ==
  ASSUME ShapeInv, ShapeInv', CoverInv, exact, Quota > 0, NEW r \in Requests,
         \A q \in Requests \ {r} : Falls(q),
         \A s \in Tenants \ {TenantOf[r]} : count'[s] >= count[s],
         Fair(r), NoZeros'
  PROVE  CoverInv'
<1>1. Quota \in Nat /\ \A s \in Tenants : Covers(s)
  BY ManagerAssumption DEF CoverInv
<1> SUFFICES ASSUME NEW s \in Tenants PROVE Covers(s)'
  BY DEF CoverInv
<1>2. CASE TenantOf[r] # s
  <2>1. \A q \in Of(s, Requests) : /\ Burden(q)' => Burden(q)
                                   /\ handler'[q] = "over" => handler[q] = "over"
    BY <1>2 DEF Of, Falls
  <2> QED
    BY <1>1, <1>2, <2>1, NothingNew
<1>3. CASE TenantOf[r] = s
  <2>1. r \in Of(s, Requests)
    BY <1>3 DEF Of
  <2>2. \A q \in Of(s, Requests) \ {r} : /\ Burden(q)' => Burden(q)
                                         /\ handler'[q] = "over" => handler[q] = "over"
    BY DEF Of, Falls
  <2>3. CASE Falls(r) /\ count'[s] >= count[s]
    <3>1. \A q \in Of(s, Requests) : /\ Burden(q)' => Burden(q)
                                     /\ handler'[q] = "over" => handler[q] = "over"
      BY <2>2, <2>3 DEF Falls
    <3> QED
      BY <1>1, <2>3, <3>1, NothingNew
  <2>4. CASE Frees(r) /\ count'[s] = count[s] - 1
    <3>1. \A q \in Of(s, Requests) : /\ Burden(q)' => Burden(q)
                                     /\ handler'[q] = "over" => handler[q] = "over"
      BY <2>2, <2>4 DEF Falls, Frees
    <3>2. \/ Burden(r) /\ ~Burden(r)'
          \/ handler[r] = "over" /\ handler'[r] # "over"
      BY <2>4 DEF Frees
    <3> QED
      BY <1>1, <2>1, <2>4, <3>1, <3>2, OnePays
  <2>5. CASE /\ count'[s] >= count[s] + 1
             /\ (handler'[r] # "over" /\ count'[s] <= Quota) \/ ~Burden(r)'
    BY <1>1, <2>1, <2>2, <2>5, OneEnters
  <2> QED
    BY <1>3, <2>3, <2>4, <2>5 DEF Fair
<1> QED
  BY <1>2, <1>3

\* A failed command, or an undoubled decrement, leaves the counter or lowers it by one.
LEMMA CommandCounts ==
  ASSUME ShapeInv, NEW t \in Tenants
  PROVE  /\ \A s \in Tenants : UNCHANGED count => count'[s] = count[s]
         /\ \A n \in {-1, 0, 1} : Errs(t, n) =>
              /\ \A s \in Tenants \ {t} : count'[s] = count[s]
              /\ count'[t] \in {count[t], count[t] + n}
         /\ Decremented(t) /\ exact' =>
              /\ \A s \in Tenants \ {t} : count'[s] = count[s]
              /\ count'[t] = count[t] - 1
         /\ \A n \in {1, 2} : Add(t, n) =>
              /\ \A s \in Tenants \ {t} : count'[s] = count[s]
              /\ count'[t] = count[t] + n
<1>1. count \in [Tenants -> Int] /\ \A s \in Tenants : count[s] \in Int
  BY DEF ShapeInv, TypeOK
<1>2. ASSUME NEW n \in {-1, 0, 1, 2}, Add(t, n)
      PROVE  /\ \A s \in Tenants \ {t} : count'[s] = count[s]
             /\ count'[t] = count[t] + n
  BY <1>1, <1>2 DEF Add
<1>3. ASSUME NEW n \in {-1, 0, 1}, Errs(t, n)
      PROVE  /\ \A s \in Tenants \ {t} : count'[s] = count[s]
             /\ count'[t] \in {count[t], count[t] + n}
  BY <1>2, <1>3 DEF Errs
<1>4. ASSUME Decremented(t), exact'
      PROVE  /\ \A s \in Tenants \ {t} : count'[s] = count[s]
             /\ count'[t] = count[t] - 1
  <2>1. Add(t, -1)
    BY <1>4 DEF Decremented
  <2> QED
    BY <1>1, <1>2, <2>1
<1> QED
  BY <1>2, <1>3, <1>4

\* No step makes an inexact counter exact again.
LEMMA ExactEnds ==
  ASSUME ShapeInv, [Next]_vars, exact'
  PROVE  exact
<1>1. ASSUME NEW t, NEW n, Errs(t, n) PROVE exact
  BY <1>1 DEF Errs
<1>2. ASSUME NEW t, Decremented(t) \/ Zero(t) PROVE exact
  BY <1>1, <1>2 DEF Decremented, Zero, Undisturbed
<1>3. ASSUME NEW r \in Requests, HandlerStep(r) PROVE exact
  BY <1>1, <1>2, <1>3
     DEF HandlerStep, Incr, GiveBack, SetExpiry, PoolTurn, LaunchEnds, Lease, Undo, UndoZero, Register,
         redisVars, Undisturbed
<1>4. ASSUME NEW r \in Requests,
             Ask(r) \/ ReleaseStep(r) \/ Sweep(r) \/ ReleaseArrives(r) \/ Vanish(r) \/ DrainNext(r)
      PROVE  exact
  BY <1>1, <1>2, <1>4
     DEF Ask, ReleaseStep, ReleaseDecr, ReleaseZero, ReleasePlace, Sweep, ReleaseArrives, Vanish,
         DrainNext, redisVars
<1>5. CASE Stop \/ ClosePool \/ Exit \/ Crash \/ Restart \/ (\E t \in Tenants : KeyExpires(t))
  BY <1>5 DEF Stop, ClosePool, Exit, Crash, Restart, KeyExpires, redisVars
<1>6. CASE UNCHANGED vars
  BY <1>6 DEF vars
<1> QED
  BY <1>3, <1>4, <1>5, <1>6 DEF Next, Shutdown

\* Only the handler of r moves, and not into the table or to a release.
LEMMA HandlerFalls ==
  ASSUME ShapeInv, NEW r \in Requests, NEW at \in Stages \ {"zero"},
         handler' = [handler EXCEPT ![r] = at], UNCHANGED <<leases, ending>>, NoZeros
  PROVE  /\ \A q \in Requests \ {r} : Falls(q)
         /\ NoZeros' /\ handler'[r] = at
         /\ Burden(r)' <=> (at \in Counted \/ r \in leases \/ ending[r] = "decr")
BY DEF ShapeInv, TypeOK, Falls, Burden, NoZeros

\* A request with a handler under way has no lease and no release.
LEMMA BusyHasNoLease ==
  ASSUME ShapeInv, NEW r \in Requests, handler[r] \in Busy
  PROVE  r \notin leases /\ ending[r] = "none" /\ (Burden(r) <=> handler[r] \in Counted)
BY DEF ShapeInv, TypeOK, EndingsGranted, At, Burden, Busy, Counted, Waiting

LEMMA HandlerStepCovers ==
  ASSUME ShapeInv, ShapeInv', CoverInv, exact, exact', Quota > 0, NEW r \in Requests, HandlerStep(r)
  PROVE  CoverInv'
<1> DEFINE t == TenantOf[r]
<1>1. t \in Tenants /\ handler \in Handlers /\ handler' \in Handlers /\ NoZeros
      /\ \A s \in Tenants : count[s] \in Int /\ count'[s] \in Int
  BY ManagerAssumption DEF ShapeInv, TypeOK, Handlers, Stages, CoverInv
<1>2. handler[r] \in Busy
  BY DEF HandlerStep, Incr, GiveBack, SetExpiry, PoolTurn, LaunchEnds, Lease, Undo, UndoZero, Register,
         Busy, Counted, Waiting
<1>3. r \notin leases /\ ending[r] = "none" /\ (Burden(r) <=> handler[r] \in Counted)
  BY <1>2, BusyHasNoLease
\* The stages in which r is charged.
<1>4. /\ \A at \in {"expire", "pool", "launching", "picked", "leased", "undo", "waiting", "woken"} : at \in Counted
      /\ \A at \in {"incr", "over", "refused", "granted"} : at \notin Counted
      /\ {"expire", "pool", "launching", "picked", "leased", "undo", "waiting", "woken", "incr", "over",
          "refused", "granted"} \subseteq Stages \ {"zero"}
  BY DEF Counted, Waiting, Stages, Busy, Settled
<1> HIDE DEF t
<1>5. ASSUME UNCHANGED <<leases, ending>>, NEW at \in Stages \ {"zero"}, handler' = [handler EXCEPT ![r] = at]
      PROVE  /\ \A q \in Requests \ {r} : Falls(q)
             /\ NoZeros' /\ handler'[r] = at /\ (Burden(r)' <=> at \in Counted)
  BY <1>1, <1>3, <1>5, HandlerFalls
<1>6. /\ \A n \in {-1, 0, 1} : Errs(t, n) =>
              /\ \A s \in Tenants \ {t} : count'[s] >= count[s]
              /\ count'[t] \in {count[t], count[t] + n}
      /\ Decremented(t) =>
              /\ \A s \in Tenants \ {t} : count'[s] >= count[s]
              /\ count'[t] = count[t] - 1
      /\ \A n \in {1, 2} : Add(t, n) =>
              /\ \A s \in Tenants \ {t} : count'[s] >= count[s]
              /\ count'[t] = count[t] + n
      /\ UNCHANGED count => \A s \in Tenants : count'[s] >= count[s]
  BY <1>1, CommandCounts
<1>7. Refuse(r) => handler' = [handler EXCEPT ![r] = "refused"]
  BY RefuseTyped
<1>8. ASSUME \A q \in Requests \ {r} : Falls(q), \A s \in Tenants \ {t} : count'[s] >= count[s],
             NoZeros', Fair(r)
      PROVE  CoverInv'
  BY <1>8, FairStepCovers DEF t
<1>9. CASE Incr(r)
  <2>1. handler[r] = "incr" /\ UNCHANGED <<leases, ending>>
        /\ \/ Add(t, 1) /\ handler' = [handler EXCEPT ![r] = IF count'[t] > Quota THEN "over" ELSE "expire"]
           \/ Errs(t, 1) /\ handler' = [handler EXCEPT ![r] = "refused"]
           \/ Add(t, 2) /\ handler' = [handler EXCEPT ![r] = IF count'[t] > Quota THEN "over" ELSE "expire"]
    BY <1>7, <1>9 DEF Incr, Goes, t
  <2>2. CASE Errs(t, 1) /\ handler' = [handler EXCEPT ![r] = "refused"]
    <3>1. /\ \A q \in Requests \ {r} : Falls(q)
          /\ NoZeros' /\ handler'[r] = "refused" /\ ~Burden(r)'
      BY <1>4, <1>5, <2>1, <2>2
    <3>2. Fair(r) /\ \A s \in Tenants \ {t} : count'[s] >= count[s]
      BY <1>1, <1>6, <2>2, <3>1 DEF Fair, Falls, t
    <3> QED
      BY <1>8, <3>1, <3>2
  <2>3. ASSUME NEW n \in {1, 2}, Add(t, n),
               handler' = [handler EXCEPT ![r] = IF count'[t] > Quota THEN "over" ELSE "expire"]
        PROVE  CoverInv'
    <3>1. count'[t] = count[t] + n /\ \A s \in Tenants \ {t} : count'[s] >= count[s]
      BY <1>6, <2>3
    <3>2. CASE count'[t] > Quota
      <4>1. /\ \A q \in Requests \ {r} : Falls(q)
            /\ NoZeros' /\ ~Burden(r)'
        BY <1>4, <1>5, <2>1, <2>3, <3>2
      <4>2. Fair(r)
        BY <1>1, <3>1, <4>1 DEF Fair, t
      <4> QED
        BY <1>8, <3>1, <4>1, <4>2
    <3>3. CASE ~(count'[t] > Quota)
      <4>1. /\ \A q \in Requests \ {r} : Falls(q)
            /\ NoZeros' /\ handler'[r] = "expire"
        BY <1>4, <1>5, <2>1, <2>3, <3>3
      <4>2. Fair(r)
        BY <1>1, <3>1, <3>3, <4>1, ManagerAssumption DEF Fair, t
      <4> QED
        BY <1>8, <3>1, <4>1, <4>2
    <3> QED
      BY <3>2, <3>3
  <2> QED
    BY <2>1, <2>2, <2>3
\* Undoing a charge: the request leaves, the counter follows or stays.
<1>10. ASSUME UNCHANGED <<leases, ending>>, handler' = [handler EXCEPT ![r] = "refused"],
              handler[r] = "over" \/ handler[r] \in Counted,
              Errs(t, 0) \/ Errs(t, -1) \/ Decremented(t)
       PROVE  CoverInv'
  <2>1. /\ \A q \in Requests \ {r} : Falls(q)
        /\ NoZeros' /\ handler'[r] = "refused" /\ ~Burden(r)'
    BY <1>4, <1>5, <1>10
  <2>2. Frees(r)
    BY <1>3, <1>10, <2>1 DEF Frees, Falls
  <2>3. /\ \A s \in Tenants \ {t} : count'[s] >= count[s]
        /\ count'[t] = count[t] \/ count'[t] = count[t] - 1
    BY <1>1, <1>6, <1>10
  <2>4. Fair(r)
    BY <1>1, <2>2, <2>3 DEF Fair, Frees, t
  <2> QED
    BY <1>8, <2>1, <2>3, <2>4
<1>11. CASE GiveBack(r)
  BY <1>7, <1>10, <1>11 DEF GiveBack, t
\* A charged request goes on and stays charged.
<1>12. ASSUME UNCHANGED <<leases, ending, count>>, handler[r] \in Counted, handler'[r] \in Counted,
              \A q \in Requests \ {r} : \/ handler'[q] = handler[q]
                                        \/ handler[q] = "waiting" /\ handler'[q] = "woken"
       PROVE  CoverInv'
  <2>1. \A q \in Requests \ {r} : Falls(q)
    BY <1>12 DEF Falls, Burden, Counted, Waiting
  <2>2. Falls(r) /\ NoZeros'
    BY <1>1, <1>12 DEF Falls, Burden, Counted, Waiting, NoZeros
  <2>3. Fair(r) /\ \A s \in Tenants \ {t} : count'[s] >= count[s]
    BY <1>1, <1>6, <1>12, <2>2 DEF Fair, t
  <2> QED
    BY <1>8, <2>1, <2>2, <2>3
<1>13. CASE SetExpiry(r)
  <2>1. CASE Goes(r, "pool") /\ UNCHANGED <<client, redisVars>>
    BY <1>1, <1>4, <1>12, <1>13, <2>1 DEF SetExpiry, Goes, redisVars, Handlers
  <2>2. CASE Errs(t, 0) /\ Refuse(r)
    BY <1>4, <1>7, <1>10, <1>13, <2>2 DEF SetExpiry
  <2> QED
    BY <1>13, <2>1, <2>2 DEF SetExpiry, t
<1>14. CASE PoolTurn(r) \/ LaunchEnds(r)
  <2>1. PICK at \in {"picked", "launching", "waiting", "undo"} : handler' = [handler EXCEPT ![r] = at]
    BY <1>14, EngineStepMoves
  <2>2. handler[r] \in {"pool", "woken", "launching"} /\ UNCHANGED <<leases, ending, count>>
    BY <1>14, EngineStepMoves
  <2> QED
    BY <1>1, <1>4, <1>12, <2>1, <2>2 DEF Handlers
<1>15. CASE Lease(r)
  <2>1. handler[r] = "picked" /\ UNCHANGED <<leases, ending, count>>
    BY <1>15 DEF Lease, redisVars
  <2>2. CASE Goes(r, "leased")
    BY <1>1, <1>4, <1>12, <2>1, <2>2 DEF Goes, Handlers
  <2>3. CASE Signal(TenantOf[r], [handler EXCEPT ![r] = "undo"])
    <3> DEFINE handlers == [handler EXCEPT ![r] = "undo"]
    <3>1. /\ handlers \in Handlers /\ handlers[r] = "undo"
          /\ \A q \in Requests : handler[q] = "waiting" => handlers[q] = "waiting"
          /\ \A q \in Requests \ {r} : handlers[q] = handler[q]
      BY <1>1, <2>1 DEF Handlers, Stages, Busy, Counted
    <3>2. Signal(t, handlers)
      BY <2>3 DEF t
    <3> HIDE DEF handlers
    <3>3. \A q \in Requests : \/ handler'[q] = handlers[q]
                              \/ handler[q] = "waiting" /\ handler'[q] = "woken"
      BY <1>1, <3>1, <3>2, SignalWakes
    <3> QED
      BY <1>4, <1>12, <2>1, <3>1, <3>3
  <2> QED
    BY <1>15, <2>2, <2>3 DEF Lease
<1>16. CASE Undo(r)
  <2>1. handler[r] = "undo" /\ UNCHANGED <<leases, ending>>
        /\ \/ Errs(t, -1) /\ Refuse(r)
           \/ /\ Decremented(t)
              /\ IF count'[t] < 0 THEN Goes(r, "zero") /\ UNCHANGED client ELSE Refuse(r)
    BY <1>16, ManagerAssumption DEF Undo, t
  <2>2. CASE Errs(t, -1) /\ Refuse(r)
    BY <1>4, <1>7, <1>10, <2>1, <2>2
  <2>3. CASE Decremented(t) /\ count'[t] >= 0
    BY <1>1, <1>4, <1>7, <1>10, <2>1, <2>3
  \* A counter that covers this very request is positive.
  <2>4. CASE Decremented(t) /\ count'[t] < 0
    <3>1. r \in Charged(t) /\ IsFiniteSet(Charged(t)) /\ Cardinality(Charged(t)) \in Nat
          /\ Cardinality(Over(t)) \in Nat /\ Covers(t)
      BY <1>1, <1>3, <1>4, <2>1, ChargedSets DEF ChargesKnown, CoverInv, t
    <3>2. Cardinality({}) + 1 <= Cardinality(Charged(t)) /\ Cardinality({}) = 0
      BY <3>1, OneLess, FS_EmptySet
    <3>3. count[t] >= 1 /\ count'[t] = count[t] - 1
      BY <1>1, <1>6, <2>4, <3>1, <3>2 DEF Covers
    <3> QED
      BY <1>1, <2>4, <3>3
  <2> QED
    BY <1>1, <2>1, <2>2, <2>3, <2>4
<1>17. CASE UndoZero(r)
  BY <1>1, <1>17 DEF UndoZero, NoZeros
<1>18. CASE Register(r)
  <2>1. /\ leases' = leases \cup {r} /\ handler' = [handler EXCEPT ![r] = "granted"]
        /\ handler[r] = "leased" /\ UNCHANGED <<ending, count>>
    BY <1>18 DEF Register, Goes, redisVars
  <2>2. \A q \in Requests : Falls(q)
    BY <1>1, <1>4, <2>1 DEF Falls, Burden, Handlers
  <2>3. NoZeros' /\ Fair(r) /\ \A s \in Tenants \ {t} : count'[s] >= count[s]
    BY <1>1, <1>6, <2>1, <2>2 DEF NoZeros, Handlers, Fair, t
  <2> QED
    BY <1>8, <2>2, <2>3
<1> QED
  BY <1>9, <1>11, <1>13, <1>14, <1>15, <1>16, <1>17, <1>18 DEF HandlerStep

\* A step that charges nobody and lowers no counter.
LEMMA QuietStepCovers ==
  ASSUME ShapeInv, ShapeInv', CoverInv, exact,
         \A q \in Requests : Falls(q), \A s \in Tenants : count'[s] >= count[s], NoZeros'
  PROVE  CoverInv'
<1> SUFFICES ASSUME Quota > 0, NEW s \in Tenants PROVE Covers(s)'
  BY DEF CoverInv
<1>1. Covers(s) /\ Quota \in Nat
  BY ManagerAssumption DEF CoverInv
<1> QED
  BY <1>1, NothingNew DEF Falls, Of

LEMMA ReleaseStartsCovers ==
  ASSUME ShapeInv, ShapeInv', CoverInv, exact, Quota > 0, NEW r \in leases, ReleaseStarts(r),
         UNCHANGED <<handler, count>>
  PROVE  CoverInv'
<1>1. r \in Requests /\ ending \in [Requests -> {"none", "decr", "zero", "pool"}]
      /\ \A s \in Tenants : count'[s] \in Int /\ count[s] \in Int
  BY DEF ShapeInv, TypeOK, At
<1>2. \A q \in Requests : Falls(q)
  BY <1>1 DEF ReleaseStarts, Falls, Burden
<1>3. NoZeros'
  BY <1>1 DEF ReleaseStarts, CoverInv, NoZeros
<1> QED
  BY <1>1, <1>2, <1>3, QuietStepCovers

LEMMA OtherStepCovers ==
  ASSUME ShapeInv, ShapeInv', CoverInv, exact, exact', Quota > 0, NEW r \in Requests,
         \/ Ask(r) \/ ReleaseStep(r) \/ Sweep(r) \/ ReleaseArrives(r) \/ Vanish(r) \/ DrainNext(r)
  PROVE  CoverInv'
<1> DEFINE t == TenantOf[r]
<1>1. t \in Tenants /\ handler \in Handlers /\ handler' \in Handlers /\ NoZeros
      /\ ending \in [Requests -> {"none", "decr", "zero", "pool"}]
      /\ \A s \in Tenants : count[s] \in Int /\ count'[s] \in Int
  BY ManagerAssumption DEF ShapeInv, TypeOK, Handlers, Stages, CoverInv
<1> HIDE DEF t
<1>2. ASSUME UNCHANGED <<handler, leases, ending, count>> PROVE CoverInv'
  BY <1>1, <1>2, QuietStepCovers DEF Falls, Burden, NoZeros
<1>3. CASE Ask(r)
  <2>1. /\ \E at \in {"incr", "refused"} : handler' = [handler EXCEPT ![r] = at]
        /\ UNCHANGED <<leases, ending, count>>
    BY <1>3 DEF Ask, Goes, redisVars
  <2>2. (\A q \in Requests : Falls(q)) /\ NoZeros'
    BY <1>1, <2>1 DEF Falls, Burden, NoZeros, Counted, Waiting, Handlers
  <2> QED
    BY <1>1, <2>1, <2>2, QuietStepCovers
<1>4. CASE Sweep(r)
  BY <1>4, ReleaseStartsCovers DEF Sweep, redisVars
<1>5. CASE ReleaseArrives(r)
  BY <1>2, <1>5, ReleaseStartsCovers DEF ReleaseArrives, redisVars
<1>6. CASE Vanish(r)
  BY <1>2, <1>6 DEF Vanish, redisVars
<1>7. CASE DrainNext(r)
  BY <1>2, <1>7, ReleaseStartsCovers DEF DrainNext, redisVars
<1>8. CASE ReleaseDecr(r)
  <2>1. /\ ending[r] = "decr" /\ UNCHANGED <<handler, leases>>
        /\ \E at \in {"pool", "zero"} : ending' = [ending EXCEPT ![r] = at]
        /\ \/ Errs(t, -1) /\ ending' = [ending EXCEPT ![r] = "pool"]
           \/ Decremented(t)
              /\ ending' = [ending EXCEPT ![r] = IF count'[t] < 0 THEN "zero" ELSE "pool"]
    BY <1>8 DEF ReleaseDecr, EndingGoes, t
  <2>2. /\ \A s \in Tenants \ {t} : count'[s] = count[s]
        /\ count'[t] = count[t] \/ count'[t] = count[t] - 1
    BY <1>1, <2>1, CommandCounts
  <2>3. handler[r] \notin Counted /\ r \notin leases
    BY <2>1 DEF ShapeInv, EndingsGranted, Counted, Waiting
  <2>4. (\A q \in Requests : Falls(q)) /\ Burden(r) /\ ~Burden(r)'
    BY <1>1, <2>1, <2>3 DEF Falls, Burden
  \* A counter that covers this very lease is positive.
  <2>5. count[t] >= 1
    <3>1. r \in Charged(t) /\ IsFiniteSet(Charged(t)) /\ Cardinality(Charged(t)) \in Nat
          /\ Cardinality(Over(t)) \in Nat /\ Covers(t)
      BY <1>1, <2>4, ChargedSets DEF ChargesKnown, CoverInv, t
    <3>2. Cardinality({}) + 1 <= Cardinality(Charged(t)) /\ Cardinality({}) = 0
      BY <3>1, OneLess, FS_EmptySet
    <3> QED
      BY <1>1, <3>1, <3>2 DEF Covers
  <2>6. ~(count'[t] < 0)
    BY <1>1, <2>2, <2>5
  <2>7. NoZeros'
    BY <1>1, <2>1, <2>6 DEF NoZeros
  <2>8. Fair(r)
    BY <1>1, <2>2, <2>4 DEF Fair, Frees, t
  <2> QED
    BY <1>1, <2>2, <2>4, <2>7, <2>8, FairStepCovers DEF t
<1>9. CASE ReleaseZero(r)
  BY <1>1, <1>9 DEF ReleaseZero, NoZeros
<1>10. CASE ReleasePlace(r)
  <2>1. /\ ending[r] = "pool" /\ ending' = [ending EXCEPT ![r] = "none"]
        /\ UNCHANGED <<leases, count>>
    BY <1>10 DEF ReleasePlace, EndingGoes, redisVars
  <2>2. \A q \in Requests : \/ handler'[q] = handler[q]
                            \/ handler[q] = "waiting" /\ handler'[q] = "woken"
    <3>1. CASE Signal(t, handler)
      BY <1>1, <3>1, SignalWakes
    <3> QED
      BY <1>10, <3>1 DEF ReleasePlace, t
  <2>3. (\A q \in Requests : Falls(q)) /\ NoZeros'
    BY <1>1, <2>1, <2>2 DEF Falls, Burden, NoZeros, Counted, Waiting
  <2> QED
    BY <1>1, <2>1, <2>3, QuietStepCovers
<1> QED
  BY <1>3, <1>4, <1>5, <1>6, <1>7, <1>8, <1>9, <1>10 DEF ReleaseStep

LEMMA EndsCovers ==
  ASSUME ShapeInv, ShapeInv', CoverInv, exact, Ends, UNCHANGED count
  PROVE  CoverInv'
<1>1. /\ \A r \in Requests : handler'[r] \in Settled /\ ending'[r] = "none"
      /\ leases' = {} /\ \A s \in Tenants : count'[s] \in Int /\ count'[s] = count[s]
  <2>1. \A r \in Requests : handler[r] \in Settled \cup Busy
    BY DEF ShapeInv, TypeOK
  <2>2. \A r \in Requests : handler'[r] \in Settled /\ ending'[r] = "none"
    BY <2>1 DEF Ends, Free, Settled
  <2> QED
    BY <2>2 DEF Ends, ShapeInv, TypeOK
<1>2. (\A q \in Requests : Falls(q)) /\ NoZeros'
  BY <1>1 DEF Falls, Burden, NoZeros, Settled, Counted, Waiting
<1> QED
  BY <1>1, <1>2, QuietStepCovers

LEMMA ProcessCovers ==
  ASSUME ShapeInv, ShapeInv', CoverInv, exact, exact', Quota > 0,
         Stop \/ ClosePool \/ Exit \/ Crash \/ Restart \/ (\E t \in Tenants : KeyExpires(t))
  PROVE  CoverInv'
<1>1. NoZeros /\ (\A s \in Tenants : Covers(s)) /\ Quota \in Nat
      /\ count \in [Tenants -> Int] /\ \A s \in Tenants : count'[s] \in Int
  BY ManagerAssumption DEF CoverInv, ShapeInv, TypeOK
<1>2. CASE Stop \/ ClosePool \/ Restart
  <2>1. UNCHANGED <<handler, leases, ending, count>>
    BY <1>2 DEF Stop, ClosePool, Restart, redisVars
  <2> QED
    BY <1>1, <2>1, QuietStepCovers DEF Falls, Burden, NoZeros
<1>3. CASE Exit
  BY <1>3, EndsCovers DEF Exit, redisVars
<1>4. CASE Crash
  BY <1>4, EndsCovers DEF Crash
\* The key of a tenant expires with nothing charged to it.
<1>5. ASSUME NEW t \in Tenants, KeyExpires(t) PROVE CoverInv'
  <2>1. /\ UNCHANGED <<handler, leases, ending>> /\ count' = [count EXCEPT ![t] = 0]
        /\ Of(t, leases) = {} /\ Of(t, At(Counted)) = {}
        /\ \A l \in Of(t, Requests) : ending[l] = "none"
        /\ Of(t, At({"over", "expire", "launching", "picked", "leased", "undo", "zero"})) = {}
    BY <1>5 DEF KeyExpires
  <2>2. NoZeros' /\ \A q \in Requests : Falls(q)
    BY <1>1, <2>1 DEF NoZeros, Falls, Burden
  <2>3. ASSUME NEW s \in Tenants, s # t PROVE Covers(s)'
    <3>1. count'[s] >= count[s]
      BY <1>1, <2>1, <2>3
    <3>2. \A q \in Of(s, Requests) : /\ Burden(q)' => Burden(q)
                                     /\ handler'[q] = "over" => handler[q] = "over"
      BY <2>2 DEF Of, Falls
    <3> QED
      BY <1>1, <3>1, <3>2, NothingNew
  <2>4. Charged(t)' = {} /\ Over(t)' = {}
    <3>1. \A r \in Requests : TenantOf[r] = t =>
            handler[r] # "over" /\ handler[r] \notin Counted /\ r \notin leases /\ ending[r] # "decr"
      BY <2>1 DEF Of, At
    <3>2. \A r : r \notin Charged(t)'
      BY <2>1, <3>1, ChargedSetsNext DEF ChargesKnown, Burden
    <3>3. \A r : r \notin Over(t)'
      BY <2>1, <3>1, ChargedSetsNext DEF ChargesKnown
    <3> QED
      BY <3>2, <3>3
  <2>5. Covers(t)'
    BY <1>1, <2>1, <2>4, FS_EmptySet DEF Covers
  <2> QED
    BY <2>2, <2>3, <2>5 DEF CoverInv
<1> QED
  BY <1>2, <1>3, <1>4, <1>5

LEMMA CoverInvStep == ShapeInv /\ CoverInv /\ [Next]_vars => CoverInv'
<1> SUFFICES ASSUME ShapeInv, CoverInv, [Next]_vars, exact', Quota > 0 PROVE CoverInv'
  BY DEF CoverInv
<1>1. ShapeInv' /\ exact
  BY ShapeInvStep, ExactEnds
<1>2. CASE UNCHANGED vars
  <2>1. \A s \in Tenants : count[s] \in Int /\ count'[s] = count[s]
    BY <1>2 DEF ShapeInv, TypeOK, vars
  <2> QED
    BY <1>1, <1>2, <2>1, QuietStepCovers DEF vars, Falls, Burden, NoZeros, CoverInv
<1> QED
  BY <1>1, <1>2, HandlerStepCovers, OtherStepCovers, ProcessCovers DEF Next, Shutdown

LEMMA CoverInvInit == Init => CoverInv
<1> SUFFICES ASSUME Init, Quota > 0 PROVE NoZeros /\ \A t \in Tenants : Covers(t)
  BY DEF CoverInv
<1>1. NoZeros
  BY DEF Init, NoZeros, Free
<1>2. ASSUME NEW t \in Tenants PROVE Covers(t)
  <2>1. Charged(t) = {} /\ Over(t) = {} /\ count[t] = 0
    BY DEF Init, Charged, Over, Of, At, Free, Counted, Waiting
  <2> QED
    BY <2>1, FS_EmptySet, ManagerAssumption DEF Covers
<1> QED
  BY <1>1, <1>2

\* However commands of Redis fail, processes crash and sweeps race releases: the
\* counter of a tenant covers what it stands for, and that stays within the quota,
\* until a DECR runs twice or the key expires under a waiting request.
THEOREM QuotaHoldsByCounter == Spec => []CounterCovers
<1>1. CoverInv => CounterCovers
  BY DEF CoverInv, CounterCovers, Covers, Over
<1> QED
  BY <1>1, ShapeInvInit, ShapeInvStep, CoverInvInit, CoverInvStep, PTL DEF Spec

-----------------------------------------------------------------------------
(* The manager implements the lease API.                                   *)

Granted == At({"granted"})

\* Leases are granted, ended, or left alone.
LEMMA LeaseStepKinds ==
  ASSUME ShapeInv, [Next]_vars
  PROVE  \/ UNCHANGED <<leases, Granted>> /\ (exact' = exact \/ exact' = FALSE)
         \/ \E r \in Requests : Register(r)
         \/ /\ UNCHANGED <<Granted, exact>>
            /\ \E S \in SUBSET leases : leases' = leases \ S
<1> DEFINE Kinds == \/ UNCHANGED <<leases, Granted>> /\ (exact' = exact \/ exact' = FALSE)
                    \/ \E r \in Requests : Register(r)
                    \/ /\ UNCHANGED <<Granted, exact>>
                       /\ \E S \in SUBSET leases : leases' = leases \ S
<1>1. handler \in Handlers /\ leases \subseteq Requests
  BY DEF ShapeInv, TypeOK, Handlers, Stages, At
<1>2. ASSUME NEW r \in Requests, handler[r] # "granted",
             NEW at, at # "granted", handler' = [handler EXCEPT ![r] = at]
      PROVE  UNCHANGED Granted
  BY <1>1, <1>2 DEF Granted, At, Handlers
<1>3. ASSUME NEW t \in Tenants, NEW handlers \in Handlers, Signal(t, handlers),
             \A q \in Requests : handler[q] = "waiting" => handlers[q] = "waiting",
             \A q \in Requests : handler[q] = "granted" <=> handlers[q] = "granted"
      PROVE  UNCHANGED Granted
  <2>1. \A q \in Requests : \/ handler'[q] = handlers[q]
                            \/ handler[q] = "waiting" /\ handler'[q] = "woken"
    BY <1>3, SignalWakes
  <2>2. \A q \in Requests : handler'[q] = "granted" <=> handler[q] = "granted"
    BY <1>3, <2>1
  <2> QED
    BY <2>2 DEF Granted, At
<1>4. ASSUME NEW t, NEW n, Errs(t, n) \/ Decremented(t) \/ Zero(t)
      PROVE  exact' = exact \/ exact' = FALSE
  BY <1>4 DEF Errs, Decremented, Zero, Undisturbed
<1>5. ASSUME NEW r \in Requests, HandlerStep(r) PROVE Kinds
  <2>1. CASE Incr(r)
    BY <1>2, <1>4, <2>1 DEF Incr, Goes, Refuse, Undisturbed
  <2>2. CASE GiveBack(r)
    BY <1>2, <1>4, <2>2 DEF GiveBack, Refuse, Goes
  <2>3. CASE SetExpiry(r)
    BY <1>2, <1>4, <2>3 DEF SetExpiry, Refuse, Goes, redisVars
  <2>4. CASE PoolTurn(r) \/ LaunchEnds(r)
    BY <1>2, <2>4, EngineStepMoves
  <2>5. CASE Lease(r)
    <3>1. UNCHANGED <<leases, exact>> /\ handler[r] = "picked"
      BY <2>5 DEF Lease, redisVars
    <3>2. CASE Goes(r, "leased")
      BY <1>2, <3>1, <3>2 DEF Goes
    <3>3. CASE Signal(TenantOf[r], [handler EXCEPT ![r] = "undo"])
      <4>1. /\ [handler EXCEPT ![r] = "undo"] \in Handlers
            /\ \A q \in Requests : handler[q] = "waiting" => [handler EXCEPT ![r] = "undo"][q] = "waiting"
            /\ \A q \in Requests : handler[q] = "granted" <=> [handler EXCEPT ![r] = "undo"][q] = "granted"
            /\ TenantOf[r] \in Tenants
        BY <1>1, <3>1, ManagerAssumption DEF Handlers, Stages, Busy, Counted
      <4>2. UNCHANGED Granted
        BY <1>3, <3>3, <4>1
      <4> QED
        BY <3>1, <4>2
    <3> QED
      BY <2>5, <3>2, <3>3 DEF Lease
  <2>6. CASE Undo(r)
    BY <1>2, <1>4, <2>6 DEF Undo, Refuse, Goes, redisVars
  <2>7. CASE UndoZero(r)
    BY <1>2, <1>4, <2>7 DEF UndoZero, Refuse, Goes
  <2> QED
    BY <1>5, <2>1, <2>2, <2>3, <2>4, <2>5, <2>6, <2>7 DEF HandlerStep
<1>6. ASSUME NEW r \in leases, ReleaseStarts(r), UNCHANGED <<handler, exact>> PROVE Kinds
  <2>1. {r} \in SUBSET leases /\ leases' = leases \ {r}
    BY <1>6 DEF ReleaseStarts
  <2> QED
    BY <1>6, <2>1 DEF Granted, At
<1>7. ASSUME UNCHANGED <<handler, leases>>, exact' = exact \/ exact' = FALSE PROVE Kinds
  BY <1>7 DEF Granted, At
<1>8. ASSUME NEW r \in Requests,
             Ask(r) \/ ReleaseStep(r) \/ Sweep(r) \/ ReleaseArrives(r) \/ Vanish(r) \/ DrainNext(r)
      PROVE  Kinds
  <2>1. CASE Ask(r)
    <3>1. handler[r] = "idle" /\ UNCHANGED <<leases, exact>>
      BY <2>1 DEF Ask, ShapeInv, AskedFirst, redisVars
    <3> QED
      BY <1>2, <2>1, <3>1 DEF Ask, Goes
  <2>2. CASE Sweep(r)
    BY <1>6, <2>2 DEF Sweep, redisVars
  <2>3. CASE ReleaseArrives(r)
    BY <1>6, <1>7, <2>3 DEF ReleaseArrives, redisVars
  <2>4. CASE Vanish(r)
    BY <1>7, <2>4 DEF Vanish, redisVars
  <2>5. CASE DrainNext(r)
    BY <1>6, <1>7, <2>5 DEF DrainNext, redisVars
  <2>6. CASE ReleaseDecr(r) \/ ReleaseZero(r)
    BY <1>4, <1>7, <2>6 DEF ReleaseDecr, ReleaseZero
  <2>7. CASE ReleasePlace(r)
    <3>1. UNCHANGED <<leases, exact>> /\ TenantOf[r] \in Tenants
      BY <2>7, ManagerAssumption DEF ReleasePlace, redisVars
    <3>2. UNCHANGED Granted
      BY <1>1, <1>3, <2>7, <3>1 DEF ReleasePlace, Granted, At
    <3> QED
      BY <3>1, <3>2
  <2> QED
    BY <1>8, <2>1, <2>2, <2>3, <2>4, <2>5, <2>6, <2>7 DEF ReleaseStep
<1>9. CASE Exit \/ Crash
  <2>1. Ends /\ exact' = exact
    BY <1>9 DEF Exit, Crash, redisVars
  <2>2. leases' = leases \ leases
    BY <2>1 DEF Ends
  <2>3. UNCHANGED Granted
    BY <1>1, <2>1 DEF Ends, Granted, At, Handlers, Busy, Counted, Waiting
  <2> QED
    BY <2>1, <2>2, <2>3
<1>10. CASE Stop \/ ClosePool \/ Restart \/ (\E t \in Tenants : KeyExpires(t))
  <2>1. UNCHANGED <<handler, leases>> /\ exact \in BOOLEAN
    BY <1>10 DEF Stop, ClosePool, Restart, KeyExpires, ShapeInv, TypeOK
  <2>2. exact' = exact \/ exact' = FALSE
    BY <1>10, <2>1 DEF Stop, ClosePool, Restart, KeyExpires, redisVars
  <2> QED
    BY <1>7, <2>1, <2>2
<1>11. CASE UNCHANGED vars
  BY <1>7, <1>11 DEF vars
<1>12. Kinds
  BY <1>5, <1>8, <1>9, <1>10, <1>11 DEF Next, Shutdown
<1> QED
  BY <1>12

LEMMA SameCount == ASSUME NEW S PROVE API!Cardinality(S) = Cardinality(S)
BY DEF API!Cardinality, Cardinality

\* A grant finds its tenant below the quota: its own charge is one of them.
LEMMA RegisterGrants ==
  ASSUME ShapeInv, CoverInv, NEW r \in Requests, Register(r)
  PROVE  API!Grant(r)
<1> DEFINE t == TenantOf[r]
<1>1. t \in Tenants /\ handler \in Handlers /\ leases \subseteq Granted
  BY ManagerAssumption DEF ShapeInv, TypeOK, Handlers, Stages, Granted
<1>2. /\ handler[r] = "leased" /\ handler' = [handler EXCEPT ![r] = "granted"]
      /\ leases' = leases \cup {r} /\ exact' = exact
  BY DEF Register, Goes, redisVars
<1>3. r \notin Granted /\ Granted' = Granted \cup {r}
  BY <1>1, <1>2 DEF Granted, At, Handlers
<1>4. ASSUME exact, Quota > 0 PROVE Cardinality(API!HeldBy(t)) < Quota
  <2>1. r \in Charged(t) /\ IsFiniteSet(Charged(t)) /\ Cardinality(Charged(t)) \in Nat
    BY <1>1, <1>2, ChargedSets DEF ChargesKnown, Burden, Counted
  <2>2. API!HeldBy(t) \in SUBSET Charged(t) /\ r \notin API!HeldBy(t)
    BY <1>1, <1>3, ChargedSets DEF ChargesKnown, Burden, API!HeldBy, Granted, At
  <2>3. Cardinality(API!HeldBy(t)) + 1 <= Cardinality(Charged(t))
    BY <2>1, <2>2, OneLess
  <2>4. Cardinality(Charged(t)) <= Quota /\ Quota \in Nat
    BY <1>1, <1>4, ManagerAssumption DEF CoverInv, Covers
  <2>5. Cardinality(API!HeldBy(t)) \in Nat
    BY <2>1, <2>2, NotLarger
  <2> QED
    BY <2>1, <2>3, <2>4, <2>5
<1>5. (Granted \ leases)' = Granted \ leases
  BY <1>1, <1>2, <1>3
<1>6. r \notin leases \cup (At({"granted"}) \ leases)
  BY <1>1, <1>3 DEF Granted
<1>7. UNCHANGED <<At({"granted"}) \ leases, exact>>
  BY <1>2, <1>5 DEF Granted
<1> HIDE DEF t
<1>8. (exact /\ Quota > 0) => API!Cardinality(API!HeldBy(TenantOf[r])) < Quota
  BY <1>4, SameCount DEF t
<1> QED
  BY <1>2, <1>6, <1>7, <1>8 DEF API!Grant

LEMMA StepRefines ==
  ShapeInv /\ CoverInv /\ [Next]_vars => [API!LeaseNext]_(API!leaseVars)
<1> SUFFICES ASSUME ShapeInv, CoverInv, [Next]_vars
             PROVE  API!LeaseNext \/ UNCHANGED <<leases, Granted \ leases, exact>>
  BY DEF API!leaseVars, Granted
<1>1. leases \subseteq Granted /\ Granted \subseteq Requests
  BY DEF ShapeInv, TypeOK, Granted, At
<1>2. ASSUME UNCHANGED <<leases, Granted>>, exact' = exact \/ exact' = FALSE
      PROVE  API!Disturb \/ UNCHANGED <<leases, Granted \ leases, exact>>
  BY <1>2 DEF API!Disturb, Granted
<1>3. ASSUME UNCHANGED <<Granted, exact>>, NEW S \in SUBSET leases, leases' = leases \ S
      PROVE  API!End(S)
  <2>1. (Granted \ leases)' = (Granted \ leases) \cup S
    BY <1>1, <1>3
  <2> QED
    BY <1>3, <2>1 DEF API!End, Granted
<1> QED
  BY <1>1, <1>2, <1>3, LeaseStepKinds, RegisterGrants DEF API!LeaseNext

\* Every step of handlers, releases, sweeps, shutdowns, crashes and Redis is a grant, an
\* end or a disturbance of the lease API, or none of its business.
THEOREM ManagerImplementsLeases == Spec => LeaseSpec
<1>1. Init => API!LeaseInit
  BY DEF Init, API!LeaseInit, At
<1>2. Spec => []CoverInv
  BY ShapeInvInit, ShapeInvStep, CoverInvInit, CoverInvStep, PTL DEF Spec
<1> QED
  BY <1>1, <1>2, ShapeInvAlways, StepRefines, PTL DEF Spec, LeaseSpec, API!LeaseSpec
=============================================================================
