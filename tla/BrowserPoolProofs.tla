-------------------------- MODULE BrowserPoolProofs --------------------------
(***************************************************************************)
(* Proofs about the browser pool of a worker, under the visits and quotas  *)
(* of WorkerBrowsers: its books never list more browsers than allowed, the *)
(* count of every browser is exact, and nobody queues for nothing, for any *)
(* number of calls and browsers and whatever launches, contexts and the    *)
(* idle cleanup do.                                                        *)
(***************************************************************************)
EXTENDS TenantQuotaProofs

CallRecord == [at : Stages, slot : Slots \cup {NoSlot}]
OnStages == {"opening", "using", "closing"}

\* The queue holds calls that wait in it, each once.
QueueFits(f) ==
  /\ f \in [Callers -> CallRecord]
  /\ queue \in Seq(Callers)
  /\ \A i \in DOMAIN queue : f[queue[i]].at = "queued"
  /\ \A i, k \in DOMAIN queue : queue[i] = queue[k] => i = k

\* A call that will end with a signal, or with a browser for those who wait.  One whose
\* browser has been closed under it is not counted on: it may leave without a signal.
Owes(c) ==
  \/ call[c].at \in {"woken", "launching"}
  \/ call[c].at \in {"picked", "opening", "using", "closing", "recycling"} /\ call[c].slot \in Listed

SignalOwed ==
  (~refused /\ queue # <<>>) =>
    (\E c \in Callers : Owes(c)) \/ \E s \in Slots : browsers[s].st = "closing"

PoolInv ==
  /\ PoolTypeOK /\ QueueFits(call)
  /\ IsFiniteSet(Listed) /\ BrowsersBounded
  /\ PlacesAccounted
  /\ SignalOwed

-----------------------------------------------------------------------------
(* Calls and the queue.                                                    *)

LEMMA LaunchingFinite == IsFiniteSet(Launching) /\ Cardinality(Launching) \in Nat
<1>1. Launching \in SUBSET Callers
  BY DEF Launching
<1> QED
  BY <1>1, CallersAssumption, FS_Subset, FS_CardinalityType

LEMMA OnFinite ==
  ASSUME NEW s
  PROVE  IsFiniteSet(On(s)) /\ Cardinality(On(s)) \in Nat
<1>1. On(s) \in SUBSET Callers
  BY DEF On
<1> QED
  BY <1>1, CallersAssumption, FS_Subset, FS_CardinalityType

\* One call moves, and the queue stays.
LEMMA CallMoves ==
  ASSUME PoolInv, NEW c \in Callers, NEW e \in CallRecord, call[c].at # "queued",
         call' = [call EXCEPT ![c] = e], UNCHANGED queue
  PROVE  QueueFits(call)'
<1>1. call' \in [Callers -> CallRecord]
  BY DEF PoolInv, QueueFits
<1>2. \A i \in DOMAIN queue : queue[i] \in Callers \ {c}
  BY DEF PoolInv, QueueFits
<1>3. \A i \in DOMAIN queue : call'[queue[i]].at = "queued"
  BY <1>2 DEF PoolInv, QueueFits
<1> QED
  BY <1>1, <1>3 DEF PoolInv, QueueFits

\* signalNextWaiter: the oldest waiter, if there is one, is woken; all others stay.
LEMMA SignalWakes ==
  ASSUME NEW calls, QueueFits(calls), Signal(calls)
  PROVE  /\ QueueFits(call)'
         /\ \A d \in Callers : \/ call'[d] = calls[d]
                               \/ /\ calls[d].at = "queued" /\ call'[d].at = "woken"
                                  /\ call'[d].slot = calls[d].slot
         /\ queue # <<>> => \E d \in Callers : call'[d].at = "woken"
         /\ queue' # <<>> => queue # <<>>
<1>1. CASE queue = <<>>
  BY <1>1 DEF Signal, QueueFits
<1>2. CASE queue # <<>>
  <2>1. PICK h : h = Head(queue)
    OBVIOUS
  <2>2. /\ queue' = Tail(queue) /\ call' = [calls EXCEPT ![h].at = "woken"]
        /\ calls \in [Callers -> CallRecord]
    BY <1>2, <2>1 DEF Signal, QueueFits
  <2>3. /\ Len(queue) \in Nat \ {0} /\ DOMAIN queue = 1..Len(queue)
        /\ h = queue[1] /\ h \in Callers
        /\ Tail(queue) \in Seq(Callers) /\ Len(Tail(queue)) = Len(queue) - 1
        /\ \A k \in 1..Len(Tail(queue)) : Tail(queue)[k] = queue[k + 1]
    BY <1>2, <2>1, EmptySeq, LenProperties, HeadTailProperties DEF QueueFits
  <2>4. /\ call' \in [Callers -> CallRecord]
        /\ call'[h].at = "woken" /\ call'[h].slot = calls[h].slot /\ calls[h].at = "queued"
        /\ \A d \in Callers \ {h} : call'[d] = calls[d]
    <3>1. calls[h] \in CallRecord /\ calls[h].at = "queued"
      BY <2>2, <2>3 DEF QueueFits
    <3>2. PICK e : e = [calls[h] EXCEPT !.at = "woken"]
      OBVIOUS
    <3>3. e \in CallRecord /\ e.at = "woken" /\ e.slot = calls[h].slot
      BY <3>1, <3>2 DEF CallRecord, Stages
    <3>4. call' = [calls EXCEPT ![h] = e]
      BY <2>2, <3>2
    <3> QED
      BY <2>2, <2>3, <3>1, <3>3, <3>4
  <2>5. ASSUME NEW k \in DOMAIN queue'
        PROVE  k \in 1..Len(queue) - 1 /\ k + 1 \in DOMAIN queue /\ queue'[k] = queue[k + 1]
    <3>1. DOMAIN queue' = 1..(Len(queue) - 1)
      BY <2>2, <2>3, LenProperties
    <3> QED
      BY <2>2, <2>3, <3>1
  <2>6. \A k \in DOMAIN queue' : queue'[k] # h /\ queue'[k] \in Callers
    BY <2>3, <2>5 DEF QueueFits
  <2>7. \A k \in DOMAIN queue' : call'[queue'[k]].at = "queued"
    BY <2>4, <2>5, <2>6 DEF QueueFits
  <2>8. \A i, k \in DOMAIN queue' : queue'[i] = queue'[k] => i = k
    <3>1. ASSUME NEW i \in DOMAIN queue', NEW k \in DOMAIN queue', queue'[i] = queue'[k]
          PROVE  i = k
      <4>1. i + 1 = k + 1
        BY <2>5, <3>1 DEF QueueFits
      <4> QED
        BY <2>5, <3>1, <4>1
    <3> QED
      BY <3>1
  <2> QED
    BY <1>2, <2>2, <2>3, <2>4, <2>7, <2>8 DEF QueueFits
<1> QED
  BY <1>1, <1>2

-----------------------------------------------------------------------------
(* The books of the pool.                                                  *)

Sits(f, c, s) == f[c].slot = s /\ f[c].at \in OnStages
\* A call has chosen a browser, or stands where there is none to have.
SlotFits(f) == \A c \in Callers : f[c].slot = NoSlot <=> f[c].at \in Slotless

LEMMA BoundKept ==
  ASSUME PoolInv, Listed' \subseteq Listed, Launching' \subseteq Launching
  PROVE  IsFiniteSet(Listed)' /\ BrowsersBounded'
<1>1. /\ IsFiniteSet(Listed) /\ Cardinality(Listed) \in Nat
      /\ Cardinality(Listed) + Cardinality(Launching) <= MaxBrowsers
  BY FS_CardinalityType DEF PoolInv, BrowsersBounded
<1>2. /\ IsFiniteSet(Listed') /\ Cardinality(Listed') <= Cardinality(Listed)
      /\ Cardinality(Listed') \in Nat
  BY <1>1, FS_Subset, FS_CardinalityType
<1>3. /\ Cardinality(Launching') <= Cardinality(Launching) /\ Cardinality(Launching') \in Nat
      /\ Cardinality(Launching) \in Nat
  BY LaunchingFinite, FS_Subset, FS_CardinalityType
<1> QED
  BY <1>1, <1>2, <1>3, PoolAssumption DEF BrowsersBounded

LEMMA PlacesQuiet ==
  ASSUME PoolInv, Listed' \subseteq Listed, \A s \in Listed' : browsers'[s].active = browsers[s].active,
         \A d \in Callers : \A s \in Listed' : Sits(call', d, s) <=> Sits(call, d, s)
  PROVE  PlacesAccounted'
<1>1. ASSUME NEW s \in Listed' PROVE On(s)' = On(s)
  BY <1>1 DEF On, Sits, OnStages
<1> QED
  BY <1>1 DEF PoolInv, PlacesAccounted

\* One context leaves the browser it was on.
LEMMA PlacesLess ==
  ASSUME PoolInv, NEW c \in Callers, NEW s \in Slots, Sits(call, c, s),
         \A d \in Callers \ {c} : \A u \in Slots : Sits(call', d, u) <=> Sits(call, d, u),
         \A u \in Slots : ~Sits(call', c, u),
         Listed' \subseteq Listed, \A u \in Listed' : browsers'[u].active = OneLess(s)[u].active
  PROVE  PlacesAccounted'
<1>1. ASSUME NEW u \in Listed' PROVE browsers'[u].active = Cardinality(On(u)')
  <2>1. u \in Slots /\ browsers[u].active = Cardinality(On(u)) /\ browsers \in [Slots -> Slot]
    BY <1>1 DEF PoolInv, PoolTypeOK, PlacesAccounted, Listed
  <2>2. CASE u # s
    <3>1. On(u)' = On(u)
      BY <2>1, <2>2 DEF On, Sits, OnStages
    <3>2. OneLess(s)[u].active = browsers[u].active
      BY <2>1, <2>2 DEF OneLess
    <3> QED
      BY <1>1, <2>1, <3>1, <3>2
  <2>3. CASE u = s
    <3>1. On(u)' = On(u) \ {c} /\ c \in On(u)
      BY <2>1, <2>3 DEF On, Sits, OnStages
    <3>2. /\ IsFiniteSet(On(u)) /\ Cardinality(On(u)) \in Nat
          /\ Cardinality(On(u)') = Cardinality(On(u)) - 1 /\ Cardinality(On(u)') \in Nat
      BY <3>1, OnFinite, FS_RemoveElement, FS_CardinalityType
    <3>3. OneLess(s)[u].active = IF browsers[u].active = 0 THEN 0 ELSE browsers[u].active - 1
      BY <2>1, <2>3 DEF OneLess, Slot
    <3> QED
      BY <1>1, <2>1, <3>2, <3>3
  <2> QED
    BY <2>2, <2>3
<1> QED
  BY <1>1 DEF PlacesAccounted

LEMMA OneLessFits ==
  ASSUME PoolInv, NEW s \in Slots
  PROVE  /\ OneLess(s) \in [Slots -> Slot]
         /\ \A u \in Slots : OneLess(s)[u].st = browsers[u].st
<1>1. PICK slot : slot = [browsers[s] EXCEPT !.active = IF @ = 0 THEN 0 ELSE @ - 1]
  OBVIOUS
<1>2. browsers \in [Slots -> Slot] /\ OneLess(s) = [browsers EXCEPT ![s] = slot]
  BY <1>1 DEF PoolInv, PoolTypeOK, OneLess
<1>3. slot \in Slot /\ slot.st = browsers[s].st
  BY <1>1, <1>2 DEF Slot
<1> QED
  BY <1>2, <1>3

-----------------------------------------------------------------------------
(* Steps that signal.                                                      *)

LEMMA SignalKeeps ==
  ASSUME NEW calls, QueueFits(calls), SlotFits(calls), Signal(calls)
  PROVE  /\ QueueFits(call)' /\ SlotFits(call)' /\ SignalOwed'
         /\ \A d \in Callers, s \in Slots : Sits(call', d, s) <=> Sits(calls, d, s)
         /\ Launching' = {d \in Callers : calls[d].at = "launching"}
         /\ UNCHANGED refused
<1>1. PICK f : f = call'
  OBVIOUS
<1>2. /\ QueueFits(call)'
      /\ \A d \in Callers : \/ f[d] = calls[d]
                            \/ calls[d].at = "queued" /\ f[d].at = "woken" /\ f[d].slot = calls[d].slot
      /\ queue' # <<>> => \E d \in Callers : f[d].at = "woken"
  BY <1>1, SignalWakes
<1>3. SlotFits(f)
  BY <1>2 DEF SlotFits, Slotless
<1>4. SignalOwed'
  BY <1>1, <1>2 DEF SignalOwed, Owes
<1>5. \A d \in Callers, s \in Slots : Sits(f, d, s) <=> Sits(calls, d, s)
  BY <1>2 DEF Sits, OnStages
<1>6. Launching' = {d \in Callers : calls[d].at = "launching"}
  BY <1>1, <1>2 DEF Launching
<1> QED
  BY <1>1, <1>2, <1>3, <1>4, <1>5, <1>6 DEF Signal, SlotFits

\* A call that ends, before the signal.
LEMMA EndedFits ==
  ASSUME PoolInv, NEW c \in Callers, NEW stage \in {"idle", "failed"}, call[c].at # "queued"
  PROVE  LET calls == Becomes(c, stage, NoSlot)
         IN  /\ QueueFits(calls) /\ SlotFits(calls)
             /\ \A d \in Callers \ {c} : calls[d] = call[d]
             /\ calls[c].at = stage /\ calls[c].slot = NoSlot
<1>1. PICK e, calls : /\ e = [at |-> stage, slot |-> NoSlot]
                      /\ calls = [call EXCEPT ![c] = e]
  OBVIOUS
<1>2. calls = Becomes(c, stage, NoSlot)
  BY <1>1 DEF Becomes
<1>3. e \in CallRecord /\ e.at = stage /\ e.slot = NoSlot
  BY <1>1 DEF CallRecord, Stages
<1>4. /\ calls \in [Callers -> CallRecord] /\ calls[c] = e
      /\ \A d \in Callers \ {c} : calls[d] = call[d]
  BY <1>1, <1>3 DEF PoolInv, QueueFits
<1>5. QueueFits(calls)
  <2>1. \A i \in DOMAIN queue : queue[i] \in Callers \ {c}
    BY DEF PoolInv, QueueFits
  <2> QED
    BY <1>4, <2>1 DEF PoolInv, QueueFits
<1>6. SlotFits(calls)
  BY <1>3, <1>4 DEF SlotFits, Slotless, PoolInv, PoolTypeOK
<1> QED
  BY <1>2, <1>3, <1>4, <1>5, <1>6

-----------------------------------------------------------------------------
(* Every step keeps PoolInv.                                               *)

LEMMA PoolInvInit == PoolInit => PoolInv
<1> SUFFICES ASSUME PoolInit PROVE PoolInv
  OBVIOUS
<1>1. /\ browsers = [s \in Slots |-> Unlisted] /\ queue = <<>> /\ refused = FALSE
      /\ call = [c \in Callers |-> [at |-> "idle", slot |-> NoSlot]]
  BY DEF PoolInit
<1>2. PoolTypeOK
  BY <1>1, EmptySeq DEF PoolTypeOK, Slot, Unlisted, Stages, Slotless
<1>3. QueueFits(call)
  BY <1>1, EmptySeq DEF QueueFits, CallRecord, Stages
<1>4. Listed = {} /\ Launching = {}
  BY <1>1 DEF Listed, Launching, Unlisted
<1>5. IsFiniteSet(Listed) /\ BrowsersBounded
  BY <1>4, FS_EmptySet, PoolAssumption DEF BrowsersBounded
<1>6. PlacesAccounted /\ SignalOwed
  BY <1>1, <1>4 DEF PlacesAccounted, SignalOwed
<1> QED
  BY <1>2, <1>3, <1>5, <1>6 DEF PoolInv

\* What a step that moves one call, and neither the queue nor the browsers, has to show.
LEMMA CallOnly ==
  ASSUME PoolInv, NEW c \in Callers, NEW e \in CallRecord, call[c].at # "queued",
         call' = [call EXCEPT ![c] = e], UNCHANGED <<queue, browsers>>, refused' \in BOOLEAN,
         e.slot = NoSlot <=> e.at \in Slotless,
         e.at # "launching" \/ call[c].at = "launching",
         e.at \in OnStages <=> call[c].at \in OnStages,
         e.at \in OnStages => e.slot = call[c].slot,
         refused' \/ (Owes(c) => Owes(c)'),
         refused => refused'
  PROVE  PoolInv'
<1>1. /\ call'[c] = e /\ \A d \in Callers \ {c} : call'[d] = call[d]
      /\ QueueFits(call)' /\ Listed' = Listed
  BY CallMoves DEF PoolInv, QueueFits, Listed
<1>2. PoolTypeOK'
  BY <1>1 DEF PoolInv, PoolTypeOK, QueueFits, CallRecord
<1>3. IsFiniteSet(Listed)' /\ BrowsersBounded'
  BY <1>1, BoundKept DEF Launching
<1>4. PlacesAccounted'
  BY <1>1, PlacesQuiet DEF Sits
<1>5. SignalOwed'
  <2>1. \A d \in Callers \ {c} : Owes(d) => Owes(d)'
    BY <1>1 DEF Owes
  <2> QED
    BY <2>1 DEF PoolInv, SignalOwed, PoolTypeOK
<1> QED
  BY <1>1, <1>2, <1>3, <1>4, <1>5 DEF PoolInv

\* Whoever has to queue finds a call that will signal, or a browser being closed.
LEMMA FullIsOwed ==
  ASSUME PoolInv, WithCapacity = {}, Total >= MaxBrowsers
  PROVE  \/ \E d \in Callers : Owes(d) /\ call[d].at \notin Slotless \ {"launching"}
         \/ \E s \in Slots : browsers[s].st = "closing"
<1>1. CASE Launching # {}
  BY <1>1 DEF Launching, Owes, Slotless
<1>2. CASE Launching = {}
  <2>1. Listed # {}
    BY <1>2, FS_EmptySet, PoolAssumption DEF Total
  <2>2. PICK s \in Listed : TRUE
    BY <2>1
  <2>3. CASE browsers[s].st = "closing"
    BY <2>2, <2>3 DEF Listed
  <2>4. CASE browsers[s].st # "closing"
    <3>1. /\ s \in Slots /\ browsers[s] \in Slot /\ browsers[s].st = "open"
          /\ browsers[s].active = Cardinality(On(s))
      BY <2>2, <2>4 DEF Listed, PoolInv, PoolTypeOK, PlacesAccounted, Slot
    <3>2. browsers[s].active # 0
      BY <3>1, PoolAssumption DEF WithCapacity, Open, Slot
    <3>3. On(s) # {}
      BY <3>1, <3>2, FS_EmptySet
    <3>4. PICK d \in On(s) : TRUE
      BY <3>3
    <3>5. d \in Callers /\ Owes(d) /\ call[d].at \in OnStages
      BY <2>2, <3>4 DEF On, Owes, OnStages
    <3> QED
      BY <3>5 DEF OnStages, Slotless
  <2> QED
    BY <2>3, <2>4
<1> QED
  BY <1>1, <1>2

LEMMA QueuesStep ==
  ASSUME PoolInv, NEW c \in Callers, call[c].at \in {"idle", "woken"},
         call' = Becomes(c, "queued", NoSlot), queue' = Append(queue, c), UNCHANGED browsers,
         \/ refused' = TRUE
         \/ refused' = refused /\ WithCapacity = {} /\ Total >= MaxBrowsers
  PROVE  PoolInv'
<1>1. PICK e : e = [at |-> "queued", slot |-> NoSlot]
  OBVIOUS
<1>2. call' = [call EXCEPT ![c] = e] /\ e \in CallRecord /\ e.at = "queued" /\ e.slot = NoSlot
  BY <1>1 DEF Becomes, CallRecord, Stages
<1>3. /\ call' \in [Callers -> CallRecord] /\ call'[c] = e
      /\ \A d \in Callers \ {c} : call'[d] = call[d]
  BY <1>2 DEF PoolInv, QueueFits
<1>4. /\ queue' \in Seq(Callers) /\ Len(queue') = Len(queue) + 1 /\ Len(queue) \in Nat
      /\ DOMAIN queue = 1..Len(queue) /\ DOMAIN queue' = 1..(Len(queue) + 1)
      /\ \A k \in DOMAIN queue : queue'[k] = queue[k]
      /\ queue'[Len(queue) + 1] = c
  BY AppendProperties, LenProperties DEF PoolInv, QueueFits
<1>5. \A k \in DOMAIN queue : queue[k] \in Callers \ {c} /\ call[queue[k]].at = "queued"
  BY DEF PoolInv, QueueFits
<1>6. \A k \in DOMAIN queue' : k \in DOMAIN queue \/ k = Len(queue) + 1
  BY <1>4
<1>7. QueueFits(call)'
  <2>1. \A k \in DOMAIN queue' : call'[queue'[k]].at = "queued"
    BY <1>2, <1>3, <1>4, <1>5, <1>6
  <2>2. \A i, k \in DOMAIN queue' : queue'[i] = queue'[k] => i = k
    BY <1>4, <1>5, <1>6 DEF PoolInv, QueueFits
  <2> QED
    BY <1>3, <1>4, <2>1, <2>2 DEF QueueFits
<1>8. PoolTypeOK'
  <2>1. refused' \in BOOLEAN /\ browsers' \in [Slots -> Slot]
    BY DEF PoolInv, PoolTypeOK
  <2>2. SlotFits(call)'
    BY <1>2, <1>3 DEF SlotFits, Slotless, PoolInv, PoolTypeOK
  <2> QED
    BY <1>7, <2>1, <2>2 DEF PoolTypeOK, QueueFits, CallRecord, SlotFits
<1>9. IsFiniteSet(Listed)' /\ BrowsersBounded'
  BY <1>2, <1>3, BoundKept DEF Launching, Listed
<1>10. PlacesAccounted'
  BY <1>2, <1>3, PlacesQuiet DEF Sits, OnStages, Listed
<1>11. SignalOwed'
  <2>1. CASE refused' = TRUE
    BY <2>1 DEF SignalOwed
  <2>2. CASE WithCapacity = {} /\ Total >= MaxBrowsers
    <3>1. CASE \E s \in Slots : browsers[s].st = "closing"
      BY <3>1 DEF SignalOwed
    <3>2. CASE \E d \in Callers : Owes(d) /\ call[d].at \notin Slotless \ {"launching"}
      <4>1. PICK d \in Callers \ {c} : Owes(d)
        BY <3>2 DEF Slotless
      <4>2. Owes(d)'
        BY <1>3, <4>1 DEF Owes, Listed
      <4> QED
        BY <4>2 DEF SignalOwed
    <3> QED
      BY <2>2, <3>1, <3>2, FullIsOwed
  <2> QED
    BY <2>1, <2>2
<1> QED
  BY <1>7, <1>8, <1>9, <1>10, <1>11 DEF PoolInv

\* A launch is started only while browsers and launches are fewer than allowed.
LEMMA StartsLaunchStep ==
  ASSUME PoolInv, NEW c \in Callers, call[c].at \in {"idle", "woken"}, Total < MaxBrowsers,
         call' = Becomes(c, "launching", NoSlot), UNCHANGED <<queue, refused, browsers>>
  PROVE  PoolInv'
<1>1. PICK e : e = [at |-> "launching", slot |-> NoSlot]
  OBVIOUS
<1>2. call' = [call EXCEPT ![c] = e] /\ e \in CallRecord /\ e.at = "launching" /\ e.slot = NoSlot
  BY <1>1 DEF Becomes, CallRecord, Stages
<1>3. /\ call'[c] = e /\ \A d \in Callers \ {c} : call'[d] = call[d]
      /\ QueueFits(call)' /\ Listed' = Listed
  BY <1>2, CallMoves DEF PoolInv, QueueFits, Listed
<1>4. PoolTypeOK'
  BY <1>2, <1>3 DEF PoolInv, PoolTypeOK, QueueFits, CallRecord, Slotless
<1>5. IsFiniteSet(Listed)' /\ BrowsersBounded'
  <2>1. Launching' = Launching \cup {c} /\ c \notin Launching
    BY <1>2, <1>3 DEF Launching
  <2>2. Cardinality(Launching') = Cardinality(Launching) + 1 /\ Cardinality(Launching) \in Nat
    BY <2>1, LaunchingFinite, FS_AddElement
  <2>3. IsFiniteSet(Listed) /\ Cardinality(Listed) \in Nat
    BY FS_CardinalityType DEF PoolInv
  <2> QED
    BY <1>3, <2>2, <2>3, PoolAssumption DEF BrowsersBounded, Total
<1>6. PlacesAccounted'
  BY <1>2, <1>3, PlacesQuiet DEF Sits, OnStages
<1>7. SignalOwed'
  BY <1>2, <1>3 DEF SignalOwed, Owes
<1> QED
  BY <1>3, <1>4, <1>5, <1>6, <1>7 DEF PoolInv

LEMMA LoopTurnStep ==
  ASSUME PoolInv, NEW c \in Callers, call[c].at \in {"idle", "woken"}, LoopTurn(c), UNCHANGED browsers
  PROVE  PoolInv'
<1>1. ASSUME NEW s \in LeastLoaded, call' = Becomes(c, "picked", s), UNCHANGED <<queue, refused>>
      PROVE  PoolInv'
  <2>1. PICK e : e = [at |-> "picked", slot |-> s]
    OBVIOUS
  <2>2. s \in Slots /\ s \in Listed /\ s # NoSlot
    BY <1>1, PoolAssumption DEF LeastLoaded, WithCapacity, Open, Listed
  <2>3. /\ call' = [call EXCEPT ![c] = e]
        /\ e \in CallRecord /\ e.at = "picked" /\ e.slot = s
    BY <1>1, <2>1, <2>2 DEF Becomes, CallRecord, Stages
  <2>4. Owes(c)'
    BY <2>2, <2>3 DEF Owes, Listed, PoolInv, QueueFits
  <2>5. refused' \in BOOLEAN
    BY <1>1 DEF PoolInv, PoolTypeOK
  <2>6. /\ e.slot = NoSlot <=> e.at \in Slotless
        /\ e.at \in OnStages <=> call[c].at \in OnStages
    BY <2>2, <2>3 DEF Slotless, OnStages
  <2> QED
    BY <1>1, <2>3, <2>4, <2>5, <2>6, CallOnly DEF OnStages
<1>2. ASSUME call' = Becomes(c, "failed", NoSlot), UNCHANGED queue, refused' = TRUE
      PROVE  PoolInv'
  <2>1. PICK e : e = [at |-> "failed", slot |-> NoSlot]
    OBVIOUS
  <2>2. /\ call' = [call EXCEPT ![c] = e]
        /\ e \in CallRecord /\ e.at = "failed" /\ e.slot = NoSlot
    BY <1>2, <2>1 DEF Becomes, CallRecord, Stages
  <2>3. /\ e.at \in Slotless
        /\ e.at \in OnStages <=> call[c].at \in OnStages
    BY <2>2 DEF Slotless, OnStages
  <2> QED
    BY <1>2, <2>2, <2>3, CallOnly DEF OnStages
<1> QED
  BY <1>1, <1>2, QueuesStep, StartsLaunchStep DEF LoopTurn

\* A launch that fails, or a rejection that reaches its caller.
LEMMA NotLaunchedStep ==
  ASSUME PoolInv, NEW c \in Callers, LaunchFails(c) \/ Rejected(c)
  PROVE  PoolInv'
<1>1. PICK stage \in {"failed", "idle"} :
        /\ call' = Becomes(c, stage, NoSlot)
        /\ UNCHANGED <<queue, browsers>>
        /\ refused' = TRUE \/ (refused' = refused /\ call[c].at = "failed")
        /\ call[c].at \in {"launching", "failed"}
  BY DEF LaunchFails, Rejected
<1>2. PICK e : e = [at |-> stage, slot |-> NoSlot]
  OBVIOUS
<1>3. /\ call' = [call EXCEPT ![c] = e]
      /\ e \in CallRecord /\ e.at = stage /\ e.slot = NoSlot
  BY <1>1, <1>2 DEF Becomes, CallRecord, Stages
<1>4. /\ e.at \in Slotless /\ e.at # "launching"
      /\ e.at \in OnStages <=> call[c].at \in OnStages
  BY <1>1, <1>3 DEF Slotless, OnStages
<1>5. refused' \in BOOLEAN /\ (refused' \/ ~Owes(c)) /\ (refused => refused')
  <2>1. CASE refused' = TRUE
    BY <2>1
  <2>2. CASE refused' = refused /\ call[c].at = "failed"
    <3>1. ~Owes(c)
      BY <2>2 DEF Owes
    <3>2. refused' \in BOOLEAN
      BY <2>2 DEF PoolInv, PoolTypeOK
    <3> QED
      BY <2>2, <3>1, <3>2
  <2> QED
    BY <1>1, <2>1, <2>2
<1> QED
  BY <1>1, <1>3, <1>4, <1>5, CallOnly DEF OnStages

\* A context that is there, or whose release begins.
LEMMA SameSeatStep ==
  ASSUME PoolInv, NEW c \in Callers, Opened(c) \/ ReleaseBegins(c)
  PROVE  PoolInv'
<1>1. PICK stage \in {"using", "closing"} :
        /\ call' = [call EXCEPT ![c].at = stage]
        /\ UNCHANGED <<queue, browsers, refused>>
        /\ call[c].at \in {"opening", "using"}
  BY DEF Opened, ReleaseBegins
<1>2. PICK e : e = [call[c] EXCEPT !.at = stage]
  OBVIOUS
<1>3. call[c] \in CallRecord /\ call[c].slot # NoSlot
  BY <1>1 DEF PoolInv, PoolTypeOK, CallRecord, Slotless
<1>4. /\ call' = [call EXCEPT ![c] = e]
      /\ e \in CallRecord /\ e.at = stage /\ e.slot = call[c].slot
  BY <1>1, <1>2, <1>3 DEF CallRecord, Stages
<1>5. /\ e.at \notin Slotless /\ e.at # "launching" /\ call[c].at # "queued"
      /\ e.at \in OnStages /\ call[c].at \in OnStages
  BY <1>1, <1>4 DEF Slotless, OnStages
<1>6. Owes(c) => Owes(c)'
  BY <1>1, <1>4 DEF Owes, Listed, PoolInv, QueueFits
<1>7. refused' \in BOOLEAN
  BY <1>1 DEF PoolInv, PoolTypeOK
<1> QED
  BY <1>1, <1>3, <1>4, <1>5, <1>6, <1>7, CallOnly

\* The browser that came up is a new one, with no call on it.
LEMMA LaunchedStep ==
  ASSUME PoolInv, NEW c \in Callers, Launched(c)
  PROVE  PoolInv'
<1>1. PICK s : s \in Spare /\ s = CHOOSE u \in Spare : TRUE
  BY DEF Launched
<1>2. PICK e, slot : e = [at |-> "picked", slot |-> s] /\ slot = [Unlisted EXCEPT !.st = "open"]
  OBVIOUS
<1>3. /\ call[c].at = "launching"
      /\ browsers' = [browsers EXCEPT ![s] = slot]
      /\ call' = [call EXCEPT ![c] = e] /\ UNCHANGED <<queue, refused>>
  BY <1>1, <1>2 DEF Launched, Becomes
<1>4. /\ s \in Slots /\ s \notin Listed /\ s # NoSlot
      /\ \A d \in Callers : call[d].slot # s
  BY <1>1, PoolAssumption DEF Spare, Listed
<1>5. /\ slot \in Slot /\ slot.st = "open" /\ slot.active = 0
      /\ e \in CallRecord /\ e.at = "picked" /\ e.slot = s
  BY <1>2, <1>4 DEF Unlisted, Slot, CallRecord, Stages
<1>6. /\ call'[c] = e /\ \A d \in Callers \ {c} : call'[d] = call[d]
      /\ QueueFits(call)'
  BY <1>3, <1>5, CallMoves DEF PoolInv, QueueFits
<1>7. /\ browsers' \in [Slots -> Slot] /\ browsers'[s] = slot
      /\ \A u \in Slots \ {s} : browsers'[u] = browsers[u]
  BY <1>3, <1>4, <1>5 DEF PoolInv, PoolTypeOK
<1>8. Listed' = Listed \cup {s}
  BY <1>4, <1>5, <1>7 DEF Listed
<1>9. PoolTypeOK'
  <2>1. SlotFits(call)'
    BY <1>4, <1>5, <1>6 DEF SlotFits, Slotless, PoolInv, PoolTypeOK
  <2> QED
    BY <1>3, <1>6, <1>7, <2>1 DEF PoolInv, PoolTypeOK, QueueFits, CallRecord, SlotFits
<1>10. IsFiniteSet(Listed)' /\ BrowsersBounded'
  <2>1. Launching' = Launching \ {c} /\ c \in Launching
    BY <1>3, <1>5, <1>6 DEF Launching
  <2>2. /\ Cardinality(Launching') = Cardinality(Launching) - 1
        /\ Cardinality(Launching) \in Nat
    BY <2>1, LaunchingFinite, FS_RemoveElement
  <2>3. /\ IsFiniteSet(Listed') /\ Cardinality(Listed') = Cardinality(Listed) + 1
        /\ Cardinality(Listed) \in Nat
    BY <1>4, <1>8, FS_AddElement, FS_CardinalityType DEF PoolInv
  <2> QED
    BY <2>2, <2>3, PoolAssumption DEF PoolInv, BrowsersBounded
<1>11. PlacesAccounted'
  <2>1. ASSUME NEW u \in Listed PROVE On(u)' = On(u) /\ browsers'[u] = browsers[u]
    BY <1>3, <1>4, <1>5, <1>6, <1>7, <2>1 DEF On, Listed
  <2>2. On(s)' = {}
    BY <1>4, <1>5, <1>6 DEF On
  <2> QED
    BY <1>5, <1>7, <1>8, <2>1, <2>2, FS_EmptySet DEF PoolInv, PlacesAccounted
<1>12. SignalOwed'
  BY <1>5, <1>6, <1>8 DEF SignalOwed, Owes
<1> QED
  BY <1>6, <1>9, <1>10, <1>11, <1>12 DEF PoolInv

\* The call counts itself on the browser it chose, listed or not.
LEMMA CountStep ==
  ASSUME PoolInv, NEW c \in Callers, Count(c)
  PROVE  PoolInv'
<1>1. PICK s, e, slot :
        /\ s = call[c].slot /\ e = [call[c] EXCEPT !.at = "opening"]
        /\ slot = [browsers[s] EXCEPT !.active = @ + 1, !.created = @ + 1]
  OBVIOUS
<1>2. /\ call[c] \in CallRecord /\ call[c].at = "picked" /\ s \in Slots
      /\ browsers \in [Slots -> Slot] /\ browsers[s] \in Slot
  BY <1>1, PoolAssumption DEF Count, PoolInv, PoolTypeOK, CallRecord, Slotless
<1>3. /\ browsers' = [browsers EXCEPT ![s] = slot]
      /\ call' = [call EXCEPT ![c] = e] /\ UNCHANGED <<queue, refused>>
  BY <1>1, <1>2 DEF Count, PoolInv, QueueFits
<1>4. /\ e \in CallRecord /\ e.at = "opening" /\ e.slot = s
      /\ slot \in Slot /\ slot.st = browsers[s].st /\ slot.active = browsers[s].active + 1
  <2>1. e \in CallRecord /\ e.at = "opening" /\ e.slot = s
    BY <1>1, <1>2 DEF CallRecord, Stages
  <2>2. PICK a, n : a = browsers[s].active + 1 /\ n = browsers[s].created + 1
    OBVIOUS
  <2>3. a \in Nat /\ n \in Nat
    BY <1>2, <2>2 DEF Slot
  <2>4. slot = [browsers[s] EXCEPT !.active = a, !.created = n]
    BY <1>1, <2>2
  <2>5. slot \in Slot /\ slot.st = browsers[s].st /\ slot.active = a
    BY <1>2, <2>3, <2>4 DEF Slot
  <2> QED
    BY <2>1, <2>2, <2>5
<1>5. /\ call'[c] = e /\ \A d \in Callers \ {c} : call'[d] = call[d]
      /\ QueueFits(call)'
  BY <1>2, <1>3, <1>4, CallMoves DEF PoolInv, QueueFits
<1>6. /\ browsers' \in [Slots -> Slot] /\ browsers'[s] = slot
      /\ \A u \in Slots \ {s} : browsers'[u] = browsers[u]
      /\ Listed' = Listed
  BY <1>2, <1>3, <1>4 DEF Listed
<1>7. PoolTypeOK'
  <2>1. SlotFits(call)'
    BY <1>1, <1>2, <1>4, <1>5, PoolAssumption DEF SlotFits, Slotless, PoolInv, PoolTypeOK
  <2> QED
    BY <1>3, <1>5, <1>6, <2>1 DEF PoolInv, PoolTypeOK, QueueFits, CallRecord, SlotFits
<1>8. IsFiniteSet(Listed)' /\ BrowsersBounded'
  BY <1>4, <1>5, <1>6, BoundKept DEF Launching
<1>9. PlacesAccounted'
  <2>1. ASSUME NEW u \in Listed, u # s PROVE On(u)' = On(u) /\ browsers'[u] = browsers[u]
    <3>1. \A d \in Callers : Sits(call', d, u) <=> Sits(call, d, u)
      BY <1>1, <1>4, <1>5, <2>1 DEF Sits
    <3>2. On(u)' = On(u)
      BY <3>1 DEF On, Sits, OnStages
    <3> QED
      BY <1>6, <2>1, <3>2 DEF Listed
  <2>2. On(s)' = On(s) \cup {c} /\ c \notin On(s)
    BY <1>2, <1>4, <1>5 DEF On
  <2>3. Cardinality(On(s)') = Cardinality(On(s)) + 1
    BY <2>2, OnFinite, FS_AddElement
  <2> QED
    BY <1>4, <1>6, <2>1, <2>3 DEF PoolInv, PlacesAccounted
<1>10. SignalOwed'
  <2>1. \A d \in Callers : Owes(d) => Owes(d)'
    BY <1>1, <1>2, <1>4, <1>5, <1>6 DEF Owes
  <2>2. \A u \in Slots : browsers'[u].st = browsers[u].st
    BY <1>4, <1>6
  <2> QED
    BY <1>3, <2>1, <2>2 DEF PoolInv, SignalOwed
<1> QED
  BY <1>5, <1>7, <1>8, <1>9, <1>10 DEF PoolInv

LEMMA OpenFailsStep ==
  ASSUME PoolInv, NEW c \in Callers, OpenFails(c)
  PROVE  PoolInv'
<1>1. PICK s, calls : s = call[c].slot /\ calls = Becomes(c, "failed", NoSlot)
  OBVIOUS
<1>2. /\ call[c].at = "opening" /\ s \in Slots /\ s # NoSlot
      /\ browsers' = OneLess(s) /\ Signal(calls)
  BY <1>1, PoolAssumption DEF OpenFails, PoolInv, PoolTypeOK, Slotless
<1>3. /\ QueueFits(calls) /\ SlotFits(calls)
      /\ \A d \in Callers \ {c} : calls[d] = call[d]
      /\ calls[c].at = "failed" /\ calls[c].slot = NoSlot
  BY <1>1, <1>2, EndedFits
<1>4. /\ QueueFits(call)' /\ SlotFits(call)' /\ SignalOwed'
      /\ \A d \in Callers, u \in Slots : Sits(call', d, u) <=> Sits(calls, d, u)
      /\ Launching' = {d \in Callers : calls[d].at = "launching"}
      /\ UNCHANGED refused
  BY <1>2, <1>3, SignalKeeps
<1>5. /\ browsers' \in [Slots -> Slot] /\ \A u \in Slots : browsers'[u].st = browsers[u].st
      /\ Listed' = Listed
  BY <1>2, OneLessFits DEF Listed
<1>6. PoolTypeOK'
  BY <1>4, <1>5 DEF PoolInv, PoolTypeOK, QueueFits, CallRecord, SlotFits
<1>7. Launching' \subseteq Launching
  BY <1>3, <1>4 DEF Launching
<1>8. PlacesAccounted'
  <2>1. Sits(call, c, s)
    BY <1>1, <1>2 DEF Sits, OnStages
  <2>2. /\ \A d \in Callers \ {c} : \A u \in Slots : Sits(call', d, u) <=> Sits(call, d, u)
        /\ \A u \in Slots : ~Sits(call', c, u)
    BY <1>3, <1>4 DEF Sits, OnStages
  <2> QED
    BY <1>2, <1>5, <2>1, <2>2, PlacesLess
<1> QED
  BY <1>4, <1>5, <1>6, <1>7, <1>8, BoundKept DEF PoolInv

\* A released context, in the three ways acquireContext's release goes.
LEMMA ContextClosedStep ==
  ASSUME PoolInv, NEW c \in Callers, ContextClosed(c)
  PROVE  PoolInv'
<1>1. PICK s, calls : s = call[c].slot /\ calls = Becomes(c, "idle", NoSlot)
  OBVIOUS
<1>2. /\ call[c].at = "closing" /\ s \in Slots /\ s # NoSlot
  BY <1>1, PoolAssumption DEF ContextClosed, PoolInv, PoolTypeOK, Slotless
<1>3. /\ QueueFits(calls) /\ SlotFits(calls)
      /\ \A d \in Callers \ {c} : calls[d] = call[d]
      /\ calls[c].at = "idle" /\ calls[c].slot = NoSlot
  BY <1>1, <1>2, EndedFits
<1>4. /\ OneLess(s) \in [Slots -> Slot] /\ \A u \in Slots : OneLess(s)[u].st = browsers[u].st
      /\ Sits(call, c, s)
  BY <1>1, <1>2, OneLessFits DEF Sits, OnStages
<1>5. CASE browsers' = OneLess(s) /\ Signal(calls)
  <2>1. /\ QueueFits(call)' /\ SlotFits(call)' /\ SignalOwed'
        /\ \A d \in Callers, u \in Slots : Sits(call', d, u) <=> Sits(calls, d, u)
        /\ Launching' = {d \in Callers : calls[d].at = "launching"}
        /\ UNCHANGED refused
    BY <1>3, <1>5, SignalKeeps
  <2>2. Listed' = Listed /\ Launching' \subseteq Launching
    BY <1>3, <1>4, <1>5, <2>1 DEF Listed, Launching
  <2>3. PoolTypeOK'
    BY <1>4, <1>5, <2>1 DEF PoolInv, PoolTypeOK, QueueFits, CallRecord, SlotFits
  <2>4. PlacesAccounted'
    <3>1. /\ \A d \in Callers \ {c} : \A u \in Slots : Sits(call', d, u) <=> Sits(call, d, u)
          /\ \A u \in Slots : ~Sits(call', c, u)
      BY <1>3, <2>1 DEF Sits, OnStages
    <3> QED
      BY <1>2, <1>4, <1>5, <2>2, <3>1, PlacesLess
  <2> QED
    BY <2>1, <2>2, <2>3, <2>4, BoundKept DEF PoolInv
<1>6. CASE /\ Open(s) /\ browsers' = [OneLess(s) EXCEPT ![s].st = "closing"]
           /\ call' = Becomes(c, "recycling", s) /\ UNCHANGED <<queue, refused>>
  <2>1. PICK e, slot : /\ e = [at |-> "recycling", slot |-> s]
                       /\ slot = [OneLess(s)[s] EXCEPT !.st = "closing"]
    OBVIOUS
  <2>2. /\ call' = [call EXCEPT ![c] = e]
        /\ e \in CallRecord /\ e.at = "recycling" /\ e.slot = s
    BY <1>2, <1>6, <2>1 DEF Becomes, CallRecord, Stages
  <2>3. slot \in Slot /\ slot.st = "closing" /\ slot.active = OneLess(s)[s].active
    BY <1>2, <1>4, <2>1 DEF Slot
  <2>4. browsers' = [OneLess(s) EXCEPT ![s] = slot]
    BY <1>6, <2>1
  <2>5. /\ browsers' \in [Slots -> Slot] /\ browsers'[s].st = "closing"
        /\ \A u \in Slots : browsers'[u].active = OneLess(s)[u].active
        /\ \A u \in Slots \ {s} : browsers'[u].st = browsers[u].st
    BY <1>2, <1>4, <2>3, <2>4
  <2>6. Listed' = Listed
    BY <1>2, <1>6, <2>5 DEF Listed, Open
  <2>7. /\ call'[c] = e /\ \A d \in Callers \ {c} : call'[d] = call[d]
        /\ QueueFits(call)'
    BY <1>2, <1>6, <2>2, CallMoves DEF PoolInv, QueueFits
  <2>8. PoolTypeOK'
    <3>1. SlotFits(call)'
      BY <1>2, <2>2, <2>7 DEF SlotFits, Slotless, PoolInv, PoolTypeOK
    <3> QED
      BY <1>6, <2>5, <2>7, <3>1 DEF PoolInv, PoolTypeOK, QueueFits, CallRecord, SlotFits
  <2>9. Launching' \subseteq Launching
    BY <2>2, <2>7 DEF Launching
  <2>10. PlacesAccounted'
    <3>1. /\ \A d \in Callers \ {c} : \A u \in Slots : Sits(call', d, u) <=> Sits(call, d, u)
          /\ \A u \in Slots : ~Sits(call', c, u)
      BY <2>2, <2>7 DEF Sits, OnStages
    <3>2. \A u \in Listed' : browsers'[u].active = OneLess(s)[u].active
      BY <2>5 DEF Listed
    <3> QED
      BY <1>2, <1>4, <2>6, <3>1, <3>2, PlacesLess
  <2>11. SignalOwed'
    BY <1>2, <2>5 DEF SignalOwed
  <2> QED
    BY <2>6, <2>7, <2>8, <2>9, <2>10, <2>11, BoundKept DEF PoolInv
<1>7. CASE /\ ~Open(s) /\ browsers' = OneLess(s)
           /\ call' = calls /\ UNCHANGED <<queue, refused>>
  <2>1. QueueFits(call)' /\ SlotFits(call)'
    BY <1>3, <1>7 DEF QueueFits, SlotFits
  <2>2. Listed' = Listed /\ Launching' \subseteq Launching
    BY <1>3, <1>4, <1>7 DEF Listed, Launching
  <2>3. PoolTypeOK'
    BY <1>4, <1>7, <2>1 DEF PoolInv, PoolTypeOK, QueueFits, CallRecord, SlotFits
  <2>4. PlacesAccounted'
    <3>1. /\ \A d \in Callers \ {c} : \A u \in Slots : Sits(call', d, u) <=> Sits(call, d, u)
          /\ \A u \in Slots : ~Sits(call', c, u)
      BY <1>3, <1>7 DEF Sits, OnStages
    <3> QED
      BY <1>2, <1>4, <1>7, <2>2, <3>1, PlacesLess
  <2>5. SignalOwed'
    <3>1. CASE s \in Listed
      <4>1. browsers'[s].st = "closing"
        BY <1>2, <1>4, <1>7, <3>1 DEF Listed, Open, PoolInv, PoolTypeOK, Slot
      <4> QED
        BY <1>2, <4>1 DEF SignalOwed
    <3>2. CASE s \notin Listed
      <4>1. ~Owes(c)
        BY <1>1, <1>2, <3>2 DEF Owes
      <4>2. \A d \in Callers : Owes(d) => Owes(d)'
        BY <1>3, <1>7, <2>2, <4>1 DEF Owes
      <4> QED
        BY <1>4, <1>7, <4>2 DEF PoolInv, SignalOwed
    <3> QED
      BY <3>1, <3>2
  <2> QED
    BY <2>1, <2>2, <2>3, <2>4, <2>5, BoundKept DEF PoolInv
<1> QED
  BY <1>1, <1>5, <1>6, <1>7 DEF ContextClosed

\* A browser that is gone leaves the books; the calls still on it find it closed.
LEMMA BrowserGone ==
  ASSUME PoolInv, NEW s \in Slots, browsers' = [browsers EXCEPT ![s].st = "none"]
  PROVE  /\ browsers' \in [Slots -> Slot] /\ Listed' \subseteq Listed
         /\ \A u \in Listed' : browsers'[u].active = browsers[u].active
<1>1. PICK slot : slot = [browsers[s] EXCEPT !.st = "none"]
  OBVIOUS
<1>2. browsers \in [Slots -> Slot] /\ browsers' = [browsers EXCEPT ![s] = slot]
  BY <1>1 DEF PoolInv, PoolTypeOK
<1>3. slot \in Slot /\ slot.st = "none"
  BY <1>1, <1>2 DEF Slot
<1>4. browsers'[s] = slot /\ \A u \in Slots \ {s} : browsers'[u] = browsers[u]
  BY <1>2
<1>5. Listed' \subseteq Listed \ {s}
  BY <1>3, <1>4 DEF Listed
<1> QED
  BY <1>2, <1>3, <1>4, <1>5 DEF Listed

LEMMA RecycledStep ==
  ASSUME PoolInv, NEW c \in Callers, Recycled(c)
  PROVE  PoolInv'
<1>1. PICK s, calls : s = call[c].slot /\ calls = Becomes(c, "idle", NoSlot)
  OBVIOUS
<1>2. /\ call[c].at = "recycling" /\ s \in Slots
      /\ browsers' = [browsers EXCEPT ![s].st = "none"] /\ Signal(calls)
  BY <1>1, PoolAssumption DEF Recycled, PoolInv, PoolTypeOK, Slotless
<1>3. /\ QueueFits(calls) /\ SlotFits(calls)
      /\ \A d \in Callers \ {c} : calls[d] = call[d]
      /\ calls[c].at = "idle"
  BY <1>1, <1>2, EndedFits
<1>4. /\ QueueFits(call)' /\ SlotFits(call)' /\ SignalOwed'
      /\ \A d \in Callers, u \in Slots : Sits(call', d, u) <=> Sits(calls, d, u)
      /\ Launching' = {d \in Callers : calls[d].at = "launching"}
      /\ UNCHANGED refused
  BY <1>2, <1>3, SignalKeeps
<1>5. /\ browsers' \in [Slots -> Slot] /\ Listed' \subseteq Listed
      /\ \A u \in Listed' : browsers'[u].active = browsers[u].active
  BY <1>2, BrowserGone
<1>6. PoolTypeOK'
  BY <1>4, <1>5 DEF PoolInv, PoolTypeOK, QueueFits, CallRecord, SlotFits
<1>7. Launching' \subseteq Launching
  BY <1>3, <1>4 DEF Launching
<1>8. \A d \in Callers, u \in Slots : Sits(call', d, u) <=> Sits(call, d, u)
  BY <1>2, <1>3, <1>4 DEF Sits, OnStages
<1>9. PlacesAccounted'
  BY <1>5, <1>8, PlacesQuiet DEF Listed
<1> QED
  BY <1>4, <1>5, <1>6, <1>7, <1>9, BoundKept DEF PoolInv

LEMMA CleanupStep ==
  ASSUME PoolInv, NEW s \in Slots, CleanupCloses(s) \/ CleanupClosed(s)
  PROVE  PoolInv'
<1>1. CASE CleanupCloses(s)
  <2>1. PICK slot : slot = [browsers[s] EXCEPT !.st = "closing"]
    OBVIOUS
  <2>2. /\ browsers \in [Slots -> Slot] /\ browsers' = [browsers EXCEPT ![s] = slot]
        /\ UNCHANGED <<queue, call, refused>>
    BY <1>1, <2>1 DEF CleanupCloses, PoolInv, PoolTypeOK
  <2>3. slot \in Slot /\ slot.st = "closing" /\ slot.active = browsers[s].active
    BY <2>1, <2>2 DEF Slot
  <2>4. /\ browsers' \in [Slots -> Slot] /\ browsers'[s].st = "closing"
        /\ \A u \in Slots : browsers'[u].active = browsers[u].active
        /\ \A u \in Slots \ {s} : browsers'[u].st = browsers[u].st
    BY <2>2, <2>3
  <2>5. Listed' = Listed
    BY <1>1, <2>4 DEF Listed, Open, CleanupCloses
  <2>6. PoolTypeOK' /\ QueueFits(call)' /\ Launching' = Launching
    BY <2>2, <2>4 DEF PoolInv, PoolTypeOK, QueueFits, Launching
  <2>7. PlacesAccounted'
    <3>1. /\ \A u \in Listed' : browsers'[u].active = browsers[u].active
          /\ \A d \in Callers : \A u \in Listed' : Sits(call', d, u) <=> Sits(call, d, u)
      BY <2>2, <2>4 DEF Listed, Sits
    <3> QED
      BY <2>5, <3>1, PlacesQuiet
  <2>8. SignalOwed'
    BY <2>4 DEF SignalOwed
  <2> QED
    BY <2>5, <2>6, <2>7, <2>8, BoundKept DEF PoolInv
<1>2. CASE CleanupClosed(s)
  <2>1. browsers' = [browsers EXCEPT ![s].st = "none"] /\ Signal(call)
    BY <1>2 DEF CleanupClosed
  <2>2. PICK calls : calls = call
    OBVIOUS
  <2>3. QueueFits(calls) /\ SlotFits(calls)
    BY <2>2 DEF PoolInv, PoolTypeOK, SlotFits
  <2>4. /\ QueueFits(call)' /\ SlotFits(call)' /\ SignalOwed'
        /\ \A d \in Callers, u \in Slots : Sits(call', d, u) <=> Sits(calls, d, u)
        /\ Launching' = {d \in Callers : calls[d].at = "launching"}
        /\ UNCHANGED refused
    BY <2>1, <2>2, <2>3, SignalKeeps
  <2>5. /\ browsers' \in [Slots -> Slot] /\ Listed' \subseteq Listed
        /\ \A u \in Listed' : browsers'[u].active = browsers[u].active
    BY <2>1, BrowserGone
  <2>6. PoolTypeOK'
    BY <2>4, <2>5 DEF PoolInv, PoolTypeOK, QueueFits, CallRecord, SlotFits
  <2>7. Launching' = Launching
    BY <2>2, <2>4 DEF Launching
  <2>8. PlacesAccounted'
    BY <2>2, <2>4, <2>5, PlacesQuiet DEF Listed
  <2> QED
    BY <2>4, <2>5, <2>6, <2>7, <2>8, BoundKept DEF PoolInv
<1> QED
  BY <1>1, <1>2

LEMMA PoolInvStep ==
  ASSUME PoolInv, PoolNext
  PROVE  PoolInv'
<1>1. ASSUME NEW c \in Callers, CallStep(c) PROVE PoolInv'
  <2>1. CASE Request(c) \/ Resume(c)
    BY <2>1, LoopTurnStep DEF Request, Resume
  <2>2. CASE Launched(c) \/ LaunchFails(c) \/ Rejected(c) \/ Count(c)
    BY <2>2, LaunchedStep, NotLaunchedStep, CountStep
  <2>3. CASE Opened(c) \/ OpenFails(c) \/ ReleaseBegins(c)
    BY <2>3, SameSeatStep, OpenFailsStep
  <2>4. CASE ContextClosed(c) \/ Recycled(c)
    BY <2>4, ContextClosedStep, RecycledStep
  <2> QED
    BY <1>1, <2>1, <2>2, <2>3, <2>4 DEF CallStep
<1> QED
  BY <1>1, CleanupStep DEF PoolNext

-----------------------------------------------------------------------------
(* The visits of a worker.                                                 *)

LEMMA VisitsDrivePool == Next => PoolNext \/ UNCHANGED poolVars
<1> SUFFICES ASSUME Next PROVE PoolNext \/ UNCHANGED poolVars
  OBVIOUS
<1>1. ASSUME NEW c \in Callers, Visit(c) \/ Retry(c) \/ GiveUp(c)
      PROVE  PoolNext \/ UNCHANGED poolVars
  BY <1>1 DEF Visit, Retry, GiveUp, IntoPool, PoolNext, CallStep
<1>2. ASSUME NEW c \in Callers, Got(c) \/ NotGot(c) \/ Done(c) \/ Returned(c) \/ Inside(c)
      PROVE  PoolNext
  BY <1>2 DEF Got, NotGot, Done, Returned, Inside, PoolNext, CallStep
<1>3. ASSUME NEW s \in Slots, Cleanup(s) PROVE PoolNext
  BY <1>3 DEF Cleanup, PoolNext
<1> QED
  BY <1>1, <1>2, <1>3 DEF Next, Running

\* The visits are counted, whatever quota and pool do.
LEMMA VisitsCounted ==
  ASSUME visits \in 0..MaxVisits, [Next]_vars
  PROVE  visits' \in 0..MaxVisits
BY VisitsAssumption
DEF Next, Running, Visit, Retry, GiveUp, Got, NotGot, Done, Returned, Inside, Cleanup, vars

LEMMA PoolInvAlways == Spec => []PoolInv
<1>1. Init => PoolInv
  BY PoolInvInit DEF Init
<1>2. PoolInv /\ UNCHANGED poolVars => PoolInv'
  BY DEF poolVars, PoolInv, PoolTypeOK, QueueFits, BrowsersBounded, PlacesAccounted, SignalOwed,
         Owes, Listed, Launching, On
<1>3. UNCHANGED vars => UNCHANGED poolVars
  BY DEF vars, poolVars
<1>4. PoolInv /\ [Next]_vars => PoolInv'
  BY <1>2, <1>3, PoolInvStep, VisitsDrivePool
<1> QED
  BY <1>1, <1>4, PTL DEF Spec

\* The state of quota, pool and visits keeps its types.
THEOREM WorkerTypes == Spec => []TypeOK
<1>1. Init => visits \in 0..MaxVisits
  BY VisitsAssumption DEF Init
<1>2. visits \in 0..MaxVisits /\ [Next]_vars => (visits \in 0..MaxVisits)'
  BY VisitsCounted
<1>3. QuotaInv /\ PoolInv /\ visits \in 0..MaxVisits => TypeOK
  BY DEF QuotaInv, PoolInv, TypeOK
<1> QED
  BY <1>1, <1>2, <1>3, QuotaInvAlways, PoolInvAlways, PTL DEF Spec

\* Browsers listed and launches under way never exceed BROWSER_POOL_MAX_BROWSERS.
THEOREM BrowsersWithinLimit == Spec => []BrowsersBounded
<1>1. PoolInv => BrowsersBounded
  BY DEF PoolInv
<1> QED
  BY <1>1, PoolInvAlways, PTL

\* The counter of every listed browser is the number of contexts on it.
THEOREM PlacesAreExact == Spec => []PlacesAccounted
<1>1. PoolInv => PlacesAccounted
  BY DEF PoolInv
<1> QED
  BY <1>1, PoolInvAlways, PTL

\* While somebody queues, and no launch failed or was forbidden, a call that will
\* signal is under way or a browser is being closed.
THEOREM WaitersAreOwed == Spec => []NobodyStranded
<1>1. PoolInv => NobodyStranded
  BY DEF PoolInv, SignalOwed, NobodyStranded, Owes
<1> QED
  BY <1>1, PoolInvAlways, PTL
=============================================================================
