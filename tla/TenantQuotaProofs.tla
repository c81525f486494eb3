-------------------------- MODULE TenantQuotaProofs --------------------------
(***************************************************************************)
(* Proofs about withQuota as the worker's visits drive it: the counter is  *)
(* the number of callers between increment and decrement, and the waiter   *)
(* lists hold exactly callers that wait, each once.  From these facts the  *)
(* cap and the absence of lost wake-ups follow for any number of callers,  *)
(* tenants and quotas, and whatever the browser pool does meanwhile.       *)
(***************************************************************************)
EXTENDS WorkerBrowsers, TLAPS, SequenceTheorems, FiniteSetTheorems

\* The callers of t that phases f put in P.
With(f, P, t) == {c \in CallersOf(t) : f[c] \in P}

CounterExact ==
  \A t \in Tenants : active[t] = Cardinality(With(phase, Counted, t)) /\ active[t] <= Quota[t]

WaitersWait ==
  \A t \in Tenants : \A i \in DOMAIN waiters[t] :
    TenantOf[waiters[t][i]] = t /\ phase[waiters[t][i]] = "waiting"

WaitersOnce ==
  \A t \in Tenants : \A i, k \in DOMAIN waiters[t] : waiters[t][i] = waiters[t][k] => i = k

\* Inductive: the cap needs the exact counter, the counter needs that a signal
\* only ever reaches a caller that waits.
QuotaInv == QuotaTypeOK /\ CounterExact /\ WaitersWait /\ WaitersOnce

-----------------------------------------------------------------------------
(* Counting callers, and taking one out of a list.                         *)

LEMMA CountSame ==
  ASSUME NEW f, NEW g, NEW P, NEW t, \A c \in Callers : f[c] \in P <=> g[c] \in P
  PROVE  With(f, P, t) = With(g, P, t)
BY DEF With, CallersOf

LEMMA CountIsNat ==
  ASSUME NEW f, NEW P, NEW t
  PROVE  IsFiniteSet(With(f, P, t)) /\ Cardinality(With(f, P, t)) \in Nat
<1>1. With(f, P, t) \in SUBSET Callers
  BY DEF With, CallersOf
<1> QED
  BY <1>1, CallersAssumption, FS_Subset, FS_CardinalityType

LEMMA CountOneMore ==
  ASSUME NEW f, NEW g, NEW P, NEW c \in Callers, f[c] \notin P, g[c] \in P,
         \A d \in Callers \ {c} : f[d] \in P <=> g[d] \in P
  PROVE  \A t : Cardinality(With(g, P, t)) =
                  IF t = TenantOf[c] THEN Cardinality(With(f, P, t)) + 1
                                     ELSE Cardinality(With(f, P, t))
<1> SUFFICES ASSUME NEW t
    PROVE  Cardinality(With(g, P, t)) =
             IF t = TenantOf[c] THEN Cardinality(With(f, P, t)) + 1
                                ELSE Cardinality(With(f, P, t))
  OBVIOUS
<1>1. CASE t = TenantOf[c]
  <2>1. With(g, P, t) = With(f, P, t) \cup {c} /\ c \notin With(f, P, t)
    BY <1>1 DEF With, CallersOf
  <2>2. IsFiniteSet(With(f, P, t))
    BY CountIsNat
  <2>3. Cardinality(With(f, P, t) \cup {c}) = Cardinality(With(f, P, t)) + 1
    BY <2>1, <2>2, FS_AddElement
  <2> QED
    BY <1>1, <2>1, <2>3
<1>2. CASE t # TenantOf[c]
  <2>1. With(g, P, t) = With(f, P, t)
    BY <1>2 DEF With, CallersOf
  <2> QED
    BY <1>2, <2>1
<1> QED
  BY <1>1, <1>2

LEMMA CountOneLess ==
  ASSUME NEW f, NEW g, NEW P, NEW c \in Callers, f[c] \in P, g[c] \notin P,
         \A d \in Callers \ {c} : f[d] \in P <=> g[d] \in P
  PROVE  \A t : Cardinality(With(f, P, t)) =
                  IF t = TenantOf[c] THEN Cardinality(With(g, P, t)) + 1
                                     ELSE Cardinality(With(g, P, t))
BY CountOneMore

LEMMA RemovalFacts ==
  ASSUME NEW S, NEW s \in Seq(S), NEW i \in 1..Len(s)
  PROVE  /\ RemoveAt(s, i) \in Seq(S)
         /\ Len(RemoveAt(s, i)) = Len(s) - 1
         /\ \A k \in 1..(Len(s) - 1) : RemoveAt(s, i)[k] = IF k < i THEN s[k] ELSE s[k + 1]
<1> DEFINE front == SubSeq(s, 1, i - 1)
           back == SubSeq(s, i + 1, Len(s))
<1>1. /\ front \in Seq(S) /\ Len(front) = i - 1
      /\ \A k \in 1..(i - 1) : front[k] = s[k]
  BY SubSeqProperties
<1>2. /\ back \in Seq(S) /\ Len(back) = Len(s) - i
      /\ \A k \in 1..(Len(s) - i) : back[k] = s[i + k]
  BY SubSeqProperties
<1>3. /\ front \o back \in Seq(S)
      /\ Len(front \o back) = Len(front) + Len(back)
      /\ \A k \in 1..(Len(front) + Len(back)) :
           (front \o back)[k] = IF k <= Len(front) THEN front[k] ELSE back[k - Len(front)]
  BY <1>1, <1>2, ConcatProperties
<1>4. RemoveAt(s, i) = front \o back
  BY DEF RemoveAt
<1> HIDE DEF front, back
<1>5. ASSUME NEW k \in 1..(Len(s) - 1)
      PROVE  (front \o back)[k] = IF k < i THEN s[k] ELSE s[k + 1]
  <2>1. k \in 1..(Len(front) + Len(back))
    BY <1>1, <1>2
  <2>2. CASE k < i
    BY <1>1, <1>3, <2>1, <2>2
  <2>3. CASE ~(k < i)
    <3>1. k - Len(front) \in 1..(Len(s) - i) /\ i + (k - Len(front)) = k + 1
      BY <1>1, <2>3
    <3> QED
      BY <1>1, <1>2, <1>3, <2>1, <2>3, <3>1
  <2> QED
    BY <2>2, <2>3
<1> QED
  BY <1>1, <1>2, <1>3, <1>4, <1>5

-----------------------------------------------------------------------------
(* Every shape of step keeps QuotaInv.                                     *)

LEMMA TakeKeeps ==
  ASSUME QuotaInv, NEW c \in Callers, phase[c] \in {"idle", "signalled"}, TakeOrWait(c)
  PROVE  QuotaInv'
<1> USE QuotaAssumption
<1> DEFINE t == TenantOf[c]
<1>0. t \in Tenants /\ Quota[t] \in Nat /\ active[t] \in Nat /\ waiters[t] \in Seq(Callers)
  BY DEF QuotaInv, QuotaTypeOK
<1>1. CASE HasRoom(t) /\ active' = [active EXCEPT ![t] = @ + 1]
           /\ phase' = [phase EXCEPT ![c] = "acquiring"] /\ UNCHANGED waiters
  <2>1. QuotaTypeOK'
    BY <1>0, <1>1 DEF QuotaInv, QuotaTypeOK, Phases, Counted
  <2>2. \A u : Cardinality(With(phase', Counted, u)) =
                 IF u = t THEN Cardinality(With(phase, Counted, u)) + 1
                          ELSE Cardinality(With(phase, Counted, u))
    <3>1. phase[c] \notin Counted /\ phase'[c] \in Counted
          /\ \A d \in Callers \ {c} : phase[d] \in Counted <=> phase'[d] \in Counted
      BY <1>1 DEF QuotaInv, QuotaTypeOK, Counted
    <3> QED
      BY <3>1, CountOneMore
  <2>3. CounterExact'
    <3> SUFFICES ASSUME NEW u \in Tenants
        PROVE  active'[u] = Cardinality(With(phase', Counted, u)) /\ active'[u] <= Quota[u]
      BY DEF CounterExact
    <3> active[u] \in Nat /\ Quota[u] \in Nat
      BY DEF QuotaInv, QuotaTypeOK
    <3>1. CASE u = t
      <4>1. active'[t] = active[t] + 1 /\ active[t] < Quota[t]
        BY <1>0, <1>1 DEF HasRoom, QuotaInv, QuotaTypeOK
      <4>2. Cardinality(With(phase', Counted, t)) = Cardinality(With(phase, Counted, t)) + 1
        BY <2>2
      <4>3. active[t] = Cardinality(With(phase, Counted, t))
        BY <1>0 DEF QuotaInv, CounterExact
      <4> QED
        BY <1>0, <3>1, <4>1, <4>2, <4>3
    <3>2. CASE u # t
      BY <1>1, <2>2, <3>2 DEF QuotaInv, QuotaTypeOK, CounterExact
    <3> QED
      BY <3>1, <3>2
  <2>4. WaitersWait'
    BY <1>1 DEF QuotaInv, QuotaTypeOK, WaitersWait
  <2>5. WaitersOnce'
    BY <1>1 DEF QuotaInv, WaitersOnce
  <2> QED
    BY <2>1, <2>3, <2>4, <2>5 DEF QuotaInv
<1>2. CASE ~HasRoom(t) /\ waiters' = [waiters EXCEPT ![t] = Append(@, c)]
           /\ phase' = [phase EXCEPT ![c] = "waiting"] /\ UNCHANGED active
  <2>1. /\ Append(waiters[t], c) \in Seq(Callers)
        /\ Len(Append(waiters[t], c)) = Len(waiters[t]) + 1
        /\ \A k \in 1..Len(waiters[t]) : Append(waiters[t], c)[k] = waiters[t][k]
        /\ Append(waiters[t], c)[Len(waiters[t]) + 1] = c
    BY <1>0, AppendProperties
  <2>2. QuotaTypeOK'
    BY <1>0, <1>2, <2>1 DEF QuotaInv, QuotaTypeOK, Phases, Counted
  <2>3. CounterExact'
    <3>1. \A d \in Callers : phase[d] \in Counted <=> phase'[d] \in Counted
      BY <1>2 DEF QuotaInv, QuotaTypeOK, Counted
    <3>2. \A u : With(phase', Counted, u) = With(phase, Counted, u)
      BY <3>1, CountSame
    <3> QED
      BY <1>2, <3>2 DEF QuotaInv, CounterExact
  <2>4. \A u \in Tenants : u # t => waiters'[u] = waiters[u]
    BY <1>2 DEF QuotaInv, QuotaTypeOK
  <2>5. waiters'[t] = Append(waiters[t], c)
    BY <1>0, <1>2 DEF QuotaInv, QuotaTypeOK
  <2>6. \A i \in DOMAIN waiters'[t] : i \in DOMAIN waiters[t] \/ i = Len(waiters[t]) + 1
    BY <1>0, <2>1, <2>5
  <2>7. WaitersWait'
    <3> SUFFICES ASSUME NEW u \in Tenants, NEW k \in DOMAIN waiters'[u]
        PROVE  TenantOf[waiters'[u][k]] = u /\ phase'[waiters'[u][k]] = "waiting"
      BY DEF WaitersWait
    <3>1. ASSUME NEW d \in Callers, phase[d] = "waiting"
          PROVE  phase'[d] = "waiting"
      BY <1>2, <3>1 DEF QuotaInv, QuotaTypeOK
    <3>2. phase'[c] = "waiting"
      BY <1>2 DEF QuotaInv, QuotaTypeOK
    <3>3. ASSUME k \in DOMAIN waiters[u], waiters'[u][k] = waiters[u][k]
          PROVE  TenantOf[waiters'[u][k]] = u /\ phase'[waiters'[u][k]] = "waiting"
      <4>1. waiters[u][k] \in Callers
        BY <3>3 DEF QuotaInv, QuotaTypeOK
      <4> QED
        BY <3>1, <3>3, <4>1 DEF QuotaInv, WaitersWait
    <3>4. CASE u # t
      BY <2>4, <3>3, <3>4
    <3>5. CASE u = t /\ k \in DOMAIN waiters[t]
      <4>1. k \in 1..Len(waiters[t])
        BY <1>0, <3>5
      <4> QED
        BY <2>1, <2>5, <3>3, <3>5, <4>1
    <3>6. CASE u = t /\ k = Len(waiters[t]) + 1
      BY <2>1, <2>5, <3>2, <3>6
    <3> QED
      BY <2>6, <3>4, <3>5, <3>6
  <2>8. WaitersOnce'
    <3> SUFFICES ASSUME NEW u \in Tenants, NEW i \in DOMAIN waiters'[u],
                        NEW k \in DOMAIN waiters'[u], waiters'[u][i] = waiters'[u][k]
        PROVE  i = k
      BY DEF WaitersOnce
    <3>1. CASE u # t
      BY <2>4, <3>1 DEF QuotaInv, WaitersOnce
    <3>2. CASE u = t
      <4>1. \A n \in DOMAIN waiters[t] : waiters[t][n] # c
        BY <1>0 DEF QuotaInv, WaitersWait
      <4>2. \A n \in DOMAIN waiters[t] : n \in 1..Len(waiters[t])
        BY <1>0
      <4>3. ASSUME NEW n \in DOMAIN waiters[t]
            PROVE  waiters'[t][n] = waiters[t][n] /\ waiters'[t][n] # c
        BY <2>1, <2>5, <4>1, <4>2
      <4>4. waiters'[t][Len(waiters[t]) + 1] = c
        BY <2>1, <2>5
      <4>5. CASE i \in DOMAIN waiters[t] /\ k \in DOMAIN waiters[t]
        BY <1>0, <3>2, <4>3, <4>5 DEF QuotaInv, WaitersOnce
      <4>6. CASE i = Len(waiters[t]) + 1 \/ k = Len(waiters[t]) + 1
        BY <2>6, <3>2, <4>3, <4>4, <4>6
      <4> QED
        BY <2>6, <3>2, <4>5, <4>6
    <3> QED
      BY <3>1, <3>2
  <2> QED
    BY <2>2, <2>3, <2>7, <2>8 DEF QuotaInv
<1> QED
  BY <1>1, <1>2 DEF TakeOrWait

LEMMA TimeoutKeeps ==
  ASSUME QuotaInv, NEW c \in Callers, WaitTimeout(c)
  PROVE  QuotaInv'
<1> USE QuotaAssumption
<1> DEFINE t == TenantOf[c]
<1>0. t \in Tenants /\ waiters[t] \in Seq(Callers)
  BY DEF QuotaInv, QuotaTypeOK
<1>1. PICK i \in DOMAIN waiters[t] :
        waiters[t][i] = c /\ waiters' = [waiters EXCEPT ![t] = RemoveAt(@, i)]
  BY DEF WaitTimeout
<1>2. phase[c] = "waiting" /\ phase' = [phase EXCEPT ![c] = "idle"] /\ active' = active
  BY DEF WaitTimeout
<1> DEFINE s == waiters[t]
           r == RemoveAt(s, i)
<1>3. /\ r \in Seq(Callers) /\ Len(r) = Len(s) - 1
      /\ \A k \in 1..(Len(s) - 1) : r[k] = IF k < i THEN s[k] ELSE s[k + 1]
  <2>1. s \in Seq(Callers) /\ i \in 1..Len(s)
    BY <1>0
  <2> HIDE DEF s
  <2> QED
    BY <2>1, RemovalFacts
<1>4. waiters'[t] = r /\ \A u \in Tenants : u # t => waiters'[u] = waiters[u]
  BY <1>0, <1>1 DEF QuotaInv, QuotaTypeOK
<1>5. QuotaTypeOK'
  BY <1>0, <1>1, <1>2, <1>3 DEF QuotaInv, QuotaTypeOK, Phases
<1>6. CounterExact'
  <2>1. \A d \in Callers : phase[d] \in Counted <=> phase'[d] \in Counted
    BY <1>2 DEF QuotaInv, QuotaTypeOK, Counted
  <2>2. \A u : With(phase', Counted, u) = With(phase, Counted, u)
    BY <2>1, CountSame
  <2> QED
    BY <1>2, <2>2 DEF QuotaInv, CounterExact
\* Where an entry of the shortened list stood before.
<1> DEFINE old(k) == IF k < i THEN k ELSE k + 1
<1>7. \A k \in DOMAIN r : old(k) \in DOMAIN s /\ r[k] = s[old(k)] /\ old(k) # i
  <2>1. i \in 1..Len(s) /\ Len(s) \in Nat
    BY <1>0
  <2>2. DOMAIN r = 1..(Len(s) - 1) /\ DOMAIN s = 1..Len(s)
    BY <1>0, <1>3
  <2> SUFFICES ASSUME NEW k \in 1..(Len(s) - 1)
      PROVE  old(k) \in 1..Len(s) /\ r[k] = s[old(k)] /\ old(k) # i
    BY <2>2
  <2>3. r[k] = IF k < i THEN s[k] ELSE s[k + 1]
    BY <1>3
  <2> HIDE DEF r, s
  <2> QED
    BY <2>1, <2>3
<1>8. \A k \in DOMAIN r : r[k] # c
  BY <1>0, <1>1, <1>7 DEF QuotaInv, WaitersOnce
<1>9. \A k \in DOMAIN r : TenantOf[r[k]] = t /\ phase[r[k]] = "waiting" /\ r[k] \in Callers
  <2>1. \A n \in DOMAIN s : TenantOf[s[n]] = t /\ phase[s[n]] = "waiting" /\ s[n] \in Callers
    BY <1>0 DEF QuotaInv, WaitersWait
  <2> QED
    BY <1>7, <2>1
<1>10. WaitersWait'
  <2> SUFFICES ASSUME NEW u \in Tenants, NEW k \in DOMAIN waiters'[u]
      PROVE  TenantOf[waiters'[u][k]] = u /\ phase'[waiters'[u][k]] = "waiting"
    BY DEF WaitersWait
  <2>1. CASE u = t
    BY <1>2, <1>4, <1>8, <1>9, <2>1 DEF QuotaInv, QuotaTypeOK
  <2>2. CASE u # t
    <3>1. TenantOf[waiters[u][k]] = u /\ phase[waiters[u][k]] = "waiting"
      BY <1>4, <2>2 DEF QuotaInv, WaitersWait
    <3>2. waiters[u][k] \in Callers
      <4>1. waiters[u] \in Seq(Callers) /\ k \in DOMAIN waiters[u]
        BY <1>4, <2>2 DEF QuotaInv, QuotaTypeOK
      <4> QED
        BY <4>1
    <3>3. waiters[u][k] # c
      BY <2>2, <3>1
    <3> QED
      BY <1>2, <1>4, <2>2, <3>1, <3>2, <3>3 DEF QuotaInv, QuotaTypeOK
  <2> QED
    BY <2>1, <2>2
<1>11. WaitersOnce'
  <2> SUFFICES ASSUME NEW u \in Tenants, NEW m \in DOMAIN waiters'[u],
                      NEW n \in DOMAIN waiters'[u], waiters'[u][m] = waiters'[u][n]
      PROVE  m = n
    BY DEF WaitersOnce
  <2>1. CASE u # t
    BY <1>4, <2>1 DEF QuotaInv, WaitersOnce
  <2>2. CASE u = t
    <3>1. old(m) = old(n)
      BY <1>0, <1>4, <1>7, <2>2 DEF QuotaInv, WaitersOnce
    <3>2. m \in Nat /\ n \in Nat /\ i \in Nat
      <4>1. DOMAIN r = 1..Len(r) /\ DOMAIN s = 1..Len(s) /\ Len(r) \in Nat /\ Len(s) \in Nat
        BY <1>0, <1>3, LenProperties
      <4>2. m \in DOMAIN r /\ n \in DOMAIN r
        BY <1>4, <2>2
      <4> QED
        BY <4>1, <4>2
    <3> QED
      BY <3>1, <3>2
  <2> QED
    BY <2>1, <2>2
<1> QED
  BY <1>5, <1>6, <1>10, <1>11 DEF QuotaInv
LEMMA CounterAfterLeave ==
  ASSUME QuotaInv, NEW c \in Callers, phase[c] \in Counted, Leave(c)
  PROVE  /\ active' = [active EXCEPT ![TenantOf[c]] = @ - 1]
         /\ active[TenantOf[c]] \in Nat \ {0}
<1> USE QuotaAssumption
<1> DEFINE t == TenantOf[c]
<1>1. t \in Tenants /\ active[t] \in Nat /\ active[t] = Cardinality(With(phase, Counted, t))
  BY DEF QuotaInv, QuotaTypeOK, CounterExact
<1>2. c \in With(phase, Counted, t)
  BY DEF With, CallersOf
<1>3. Cardinality(With(phase, Counted, t)) # 0
  BY <1>2, CountIsNat, FS_EmptySet
<1>4. active[t] # 0
  BY <1>1, <1>3
<1>5. active' = Released(t)
  BY DEF Leave
<1> QED
  BY <1>1, <1>4, <1>5 DEF Released

LEMMA LeaveKeeps ==
  ASSUME QuotaInv, NEW c \in Callers, phase[c] \in Counted, Leave(c)
  PROVE  QuotaInv'
<1> USE QuotaAssumption
<1> DEFINE t == TenantOf[c]
           s == waiters[t]
<1>0. t \in Tenants /\ s \in Seq(Callers)
  BY DEF QuotaInv, QuotaTypeOK
<1>1. active' = [active EXCEPT ![t] = @ - 1] /\ active[t] \in Nat \ {0}
  BY CounterAfterLeave
\* Whoever is signalled was waiting, hence is not c and was not counted.
<1>2. phase' \in [Callers -> Phases] /\ phase'[c] = "idle"
      /\ \A d \in Callers \ {c} : phase'[d] \in Counted <=> phase[d] \in Counted
  <2>1. CASE s = <<>> /\ phase' = [phase EXCEPT ![c] = "idle"]
    BY <2>1 DEF QuotaInv, QuotaTypeOK, Phases
  <2>2. CASE s # <<>> /\ phase' = [phase EXCEPT ![c] = "idle", ![Head(s)] = "signalled"]
    <3>1. 1 \in DOMAIN s /\ Head(s) = s[1] /\ Head(s) \in Callers
      BY <1>0, <2>2, HeadTailProperties
    <3>2. phase[Head(s)] = "waiting"
      BY <1>0, <3>1 DEF QuotaInv, WaitersWait
    <3>3. Head(s) # c
      BY <3>2 DEF Counted
    <3> QED
      BY <2>2, <3>1, <3>2, <3>3 DEF QuotaInv, QuotaTypeOK, Phases, Counted
  <2> QED
    BY <2>1, <2>2 DEF Leave
<1>3. CounterExact'
  <2>1. \A u : Cardinality(With(phase, Counted, u)) =
                 IF u = t THEN Cardinality(With(phase', Counted, u)) + 1
                          ELSE Cardinality(With(phase', Counted, u))
    <3>1. phase'[c] \notin Counted
      BY <1>2 DEF Counted
    <3> QED
      BY <1>2, <3>1, CountOneLess
  <2> SUFFICES ASSUME NEW u \in Tenants
      PROVE  active'[u] = Cardinality(With(phase', Counted, u)) /\ active'[u] <= Quota[u]
    BY DEF CounterExact
  <2>2. active[u] = Cardinality(With(phase, Counted, u)) /\ active[u] <= Quota[u]
        /\ Quota[u] \in Nat /\ active[u] \in Nat
    BY DEF QuotaInv, QuotaTypeOK, CounterExact
  <2>3. Cardinality(With(phase', Counted, u)) \in Nat
    BY CountIsNat
  <2>4. CASE u = t
    <3>1. active'[u] = active[u] - 1
      BY <1>1, <2>4 DEF QuotaInv, QuotaTypeOK
    <3>2. Cardinality(With(phase, Counted, u)) = Cardinality(With(phase', Counted, u)) + 1
      BY <2>1, <2>4
    <3> QED
      BY <2>2, <2>3, <3>1, <3>2
  <2>5. CASE u # t
    <3>1. active'[u] = active[u]
      BY <1>1, <2>5 DEF QuotaInv, QuotaTypeOK
    <3> QED
      BY <2>1, <2>2, <2>5, <3>1
  <2> QED
    BY <2>4, <2>5
<1>4. CASE s = <<>> /\ phase' = [phase EXCEPT ![c] = "idle"] /\ UNCHANGED waiters
  <2>1. QuotaTypeOK'
    BY <1>0, <1>1, <1>2, <1>4 DEF QuotaInv, QuotaTypeOK
  <2>2. WaitersWait'
    BY <1>4 DEF QuotaInv, QuotaTypeOK, WaitersWait, Counted
  <2>3. WaitersOnce'
    BY <1>4 DEF QuotaInv, WaitersOnce
  <2> QED
    BY <1>3, <2>1, <2>2, <2>3 DEF QuotaInv
<1>5. CASE /\ s # <<>>
           /\ waiters' = [waiters EXCEPT ![t] = Tail(@)]
           /\ phase' = [phase EXCEPT ![c] = "idle", ![Head(s)] = "signalled"]
  <2>1. /\ Tail(s) \in Seq(Callers) /\ Len(Tail(s)) = Len(s) - 1 /\ Len(s) \in Nat
        /\ \A k \in 1..(Len(s) - 1) : Tail(s)[k] = s[k + 1]
        /\ Head(s) = s[1] /\ Head(s) \in Callers
    BY <1>0, <1>5, HeadTailProperties
  <2>2. waiters'[t] = Tail(s) /\ \A u \in Tenants : u # t => waiters'[u] = waiters[u]
    BY <1>0, <1>5 DEF QuotaInv, QuotaTypeOK
  <2>3. QuotaTypeOK'
    <3>1. active' \in [Tenants -> Nat]
      BY <1>0, <1>1 DEF QuotaInv, QuotaTypeOK
    <3>2. waiters' \in [Tenants -> Seq(Callers)]
      BY <1>0, <1>5, <2>1 DEF QuotaInv, QuotaTypeOK
    <3> QED
      BY <1>2, <3>1, <3>2 DEF QuotaTypeOK
  <2>4. 1 \in DOMAIN s /\ TenantOf[Head(s)] = t /\ phase[Head(s)] = "waiting"
    <3>1. 1 \in DOMAIN s
      BY <1>0, <1>5
    <3> QED
      BY <1>0, <2>1, <3>1 DEF QuotaInv, WaitersWait
  <2>5. ASSUME NEW k \in DOMAIN waiters'[t]
        PROVE  k + 1 \in DOMAIN s /\ waiters'[t][k] = s[k + 1] /\ k \in Nat /\ k + 1 # 1
    <3>1. k \in 1..(Len(s) - 1)
      BY <2>1, <2>2
    <3> QED
      BY <1>0, <2>1, <2>2, <3>1
  <2>6. ASSUME NEW d \in Callers, phase[d] = "waiting", d # Head(s)
        PROVE  phase'[d] = "waiting"
    BY <1>5, <2>1, <2>6 DEF QuotaInv, QuotaTypeOK, Counted
  <2>7. WaitersWait'
    <3> SUFFICES ASSUME NEW u \in Tenants, NEW k \in DOMAIN waiters'[u]
        PROVE  TenantOf[waiters'[u][k]] = u /\ phase'[waiters'[u][k]] = "waiting"
      BY DEF WaitersWait
    <3>1. CASE u # t
      <4>1. waiters[u][k] \in Callers /\ TenantOf[waiters[u][k]] = u /\ phase[waiters[u][k]] = "waiting"
        BY <2>2, <3>1 DEF QuotaInv, QuotaTypeOK, WaitersWait
      <4>2. waiters[u][k] # Head(s)
        BY <2>4, <3>1, <4>1
      <4> QED
        BY <2>2, <2>6, <3>1, <4>1, <4>2
    <3>2. CASE u = t
      <4>1. k + 1 \in DOMAIN s /\ waiters'[u][k] = s[k + 1] /\ k + 1 # 1
        BY <2>5, <3>2
      <4>2. s[k + 1] \in Callers /\ TenantOf[s[k + 1]] = t /\ phase[s[k + 1]] = "waiting"
        BY <1>0, <4>1 DEF QuotaInv, WaitersWait
      <4>3. s[k + 1] # Head(s)
        BY <1>0, <2>1, <2>4, <4>1 DEF QuotaInv, WaitersOnce
      <4> QED
        BY <2>6, <3>2, <4>1, <4>2, <4>3
    <3> QED
      BY <3>1, <3>2
  <2>8. WaitersOnce'
    <3> SUFFICES ASSUME NEW u \in Tenants, NEW m \in DOMAIN waiters'[u],
                        NEW n \in DOMAIN waiters'[u], waiters'[u][m] = waiters'[u][n]
        PROVE  m = n
      BY DEF WaitersOnce
    <3>1. CASE u # t
      BY <2>2, <3>1 DEF QuotaInv, WaitersOnce
    <3>2. CASE u = t
      <4>1. m + 1 \in DOMAIN s /\ n + 1 \in DOMAIN s /\ s[m + 1] = s[n + 1]
        BY <2>5, <3>2
      <4>2. m + 1 = n + 1
        BY <1>0, <4>1 DEF QuotaInv, WaitersOnce
      <4>3. m \in Nat /\ n \in Nat
        BY <2>5, <3>2
      <4> QED
        BY <4>2, <4>3
    <3> QED
      BY <3>1, <3>2
  <2> QED
    BY <1>3, <2>3, <2>7, <2>8 DEF QuotaInv
<1> QED
  BY <1>4, <1>5 DEF Leave

LEMMA MoveKeeps ==
  ASSUME QuotaInv, NEW c \in Callers, phase[c] \in Counted, NEW p \in Counted,
         phase' = [phase EXCEPT ![c] = p], UNCHANGED <<active, waiters>>
  PROVE  QuotaInv'
<1>1. QuotaTypeOK'
  BY DEF QuotaInv, QuotaTypeOK, Phases
<1>2. CounterExact'
  <2>1. \A d \in Callers : phase[d] \in Counted <=> phase'[d] \in Counted
    BY DEF QuotaInv, QuotaTypeOK
  <2>2. \A u : With(phase', Counted, u) = With(phase, Counted, u)
    BY <2>1 DEF With, CallersOf
  <2> QED
    BY <2>2 DEF QuotaInv, CounterExact
<1>3. WaitersWait'
  BY DEF QuotaInv, QuotaTypeOK, WaitersWait, Counted
<1>4. WaitersOnce'
  BY DEF QuotaInv, WaitersOnce
<1> QED
  BY <1>1, <1>2, <1>3, <1>4 DEF QuotaInv

LEMMA QuotaInvInit == QuotaInit => QuotaInv
<1> SUFFICES ASSUME QuotaInit PROVE QuotaInv
  OBVIOUS
<1>1. QuotaTypeOK
  BY DEF QuotaInit, QuotaTypeOK, Phases
<1>2. CounterExact
  <2>1. \A t : With(phase, Counted, t) = {}
    BY DEF QuotaInit, With, CallersOf, Counted
  <2> QED
    <3> SUFFICES ASSUME NEW t \in Tenants
        PROVE  active[t] = Cardinality(With(phase, Counted, t)) /\ active[t] <= Quota[t]
      BY DEF CounterExact
    <3>1. active[t] = 0 /\ Quota[t] \in Nat
      BY QuotaAssumption DEF QuotaInit
    <3>2. Cardinality(With(phase, Counted, t)) = 0
      BY <2>1, FS_EmptySet
    <3> QED
      BY <3>1, <3>2
<1>3. WaitersWait /\ WaitersOnce
  BY DEF QuotaInit, WaitersWait, WaitersOnce
<1> QED
  BY <1>1, <1>2, <1>3 DEF QuotaInv

LEMMA QuotaInvStep ==
  ASSUME QuotaInv, NEW c \in Callers, QuotaStep(c)
  PROVE  QuotaInv'
<1>1. CASE EnterQuota(c) \/ Recheck(c)
  BY <1>1, TakeKeeps DEF EnterQuota, Recheck
<1>2. CASE WaitTimeout(c)
  BY <1>2, TimeoutKeeps
<1>3. CASE AcquireFails(c) \/ ReleaseEnds(c)
  BY <1>3, LeaveKeeps DEF AcquireFails, ReleaseEnds, Counted
<1>4. CASE AcquireEnds(c)
  BY <1>4, MoveKeeps DEF AcquireEnds, Counted
<1>5. CASE ReleaseStarts(c)
  BY <1>5, MoveKeeps DEF ReleaseStarts, Counted
<1> QED
  BY <1>1, <1>2, <1>3, <1>4, <1>5 DEF QuotaStep
\* The visits of a worker drive the quota by its own steps, or leave it alone.
LEMMA VisitsDriveQuota ==
  Next => (\E c \in Callers : QuotaStep(c)) \/ UNCHANGED quotaVars
<1> SUFFICES ASSUME Next PROVE (\E c \in Callers : QuotaStep(c)) \/ UNCHANGED quotaVars
  OBVIOUS
<1>1. ASSUME NEW c \in Callers, Visit(c) \/ GiveUp(c)
      PROVE  QuotaStep(c)
  BY <1>1 DEF Visit, GiveUp, QuotaStep
<1>2. ASSUME NEW c \in Callers, Running(c)
      PROVE  QuotaStep(c) \/ UNCHANGED quotaVars
  <2>1. CASE Retry(c) \/ Got(c) \/ NotGot(c) \/ Done(c)
    BY <2>1 DEF Retry, Got, NotGot, Done, QuotaStep
  <2>2. CASE Returned(c)
    BY <2>2 DEF Returned, QuotaStep
  <2>3. CASE Inside(c)
    BY <2>3 DEF Inside
  <2> QED
    BY <1>2, <2>1, <2>2, <2>3 DEF Running
<1>3. ASSUME NEW s \in Slots, Cleanup(s)
      PROVE  UNCHANGED quotaVars
  BY <1>3 DEF Cleanup
<1> QED
  BY <1>1, <1>2, <1>3 DEF Next

LEMMA QuotaInvNext == QuotaInv /\ [Next]_vars => QuotaInv'
<1> SUFFICES ASSUME QuotaInv, [Next]_vars PROVE QuotaInv'
  OBVIOUS
<1>1. CASE \E c \in Callers : QuotaStep(c)
  BY <1>1, QuotaInvStep
<1>2. CASE UNCHANGED quotaVars
  <2>1. active' = active /\ waiters' = waiters /\ phase' = phase
    BY <1>2 DEF quotaVars
  <2>2. QuotaTypeOK' /\ WaitersWait' /\ WaitersOnce'
    BY <2>1 DEF QuotaInv, QuotaTypeOK, WaitersWait, WaitersOnce
  <2>3. \A u : With(phase', Counted, u) = With(phase, Counted, u)
    BY <2>1
  <2>4. CounterExact'
    BY <2>1, <2>3 DEF QuotaInv, CounterExact
  <2> QED
    BY <2>2, <2>4 DEF QuotaInv
<1>3. UNCHANGED vars => UNCHANGED quotaVars
  BY DEF vars, quotaVars
<1> QED
  BY <1>1, <1>2, <1>3, VisitsDriveQuota

LEMMA QuotaInvAlways == Spec => []QuotaInv
<1>1. Init => QuotaInv
  BY QuotaInvInit DEF Init
<1> QED
  BY <1>1, QuotaInvNext, PTL DEF Spec

\* withQuota keeps every tenant within its quota of browser contexts, for any
\* number of callers, tenants and quotas, and whatever the pool does meanwhile.
THEOREM TenantsWithinQuota == Spec => []QuotaHolds
<1>1. QuotaInv => QuotaHolds
  <2>1. \A t : Users(t) = With(phase, Counted, t)
    BY DEF Users, With
  <2> QED
    BY <2>1 DEF QuotaInv, CounterExact, QuotaHolds
<1> QED
  BY <1>1, QuotaInvAlways, PTL

-----------------------------------------------------------------------------
(* No lost wake-up: beside the counter, signalled callers are counted too. *)

Told == {"signalled"}

LEMMA WokenStep ==
  ASSUME QuotaInv, WaitersAreWoken, NEW c \in Callers, QuotaStep(c)
  PROVE  WaitersAreWoken'
<1> USE QuotaAssumption
<1> DEFINE Woken(f, u) == Cardinality(With(f, Told, u))
           t == TenantOf[c]
<1>0. /\ \A u : Signalled(u) = With(phase, Told, u)
      /\ \A u : Signalled(u)' = With(phase', Told, u)
  BY DEF Signalled, With, CallersOf, Told
<1>1. t \in Tenants
  OBVIOUS
<1> SUFFICES ASSUME NEW u \in Tenants, waiters'[u] # <<>>
    PROVE  Quota[u] <= active'[u] + Woken(phase', u)
  BY <1>0 DEF WaitersAreWoken
<1>2. /\ active[u] \in Nat /\ Quota[u] \in Nat /\ waiters[u] \in Seq(Callers)
      /\ Woken(phase, u) \in Nat /\ Woken(phase', u) \in Nat
  BY CountIsNat DEF QuotaInv, QuotaTypeOK
<1>3. waiters[u] # <<>> => Quota[u] <= active[u] + Woken(phase, u)
  BY <1>0 DEF WaitersAreWoken
<1> HIDE DEF Woken
<1>4. CASE (EnterQuota(c) \/ Recheck(c)) /\ HasRoom(t)
  <2>1. waiters' = waiters /\ active' = [active EXCEPT ![t] = @ + 1]
        /\ phase' = [phase EXCEPT ![c] = "acquiring"] /\ phase[c] \in {"idle", "signalled"}
    BY <1>4 DEF EnterQuota, Recheck, TakeOrWait
  <2>2. \A d \in Callers \ {c} : phase'[d] = phase[d]
    BY <2>1 DEF QuotaInv, QuotaTypeOK
  <2>3. phase'[c] = "acquiring"
    BY <2>1 DEF QuotaInv, QuotaTypeOK
  <2>4. Woken(phase', u) = Woken(phase, u) \/ (u = t /\ Woken(phase', u) + 1 = Woken(phase, u))
    <3>1. CASE phase[c] = "idle"
      <4>1. \A d \in Callers : phase'[d] \in Told <=> phase[d] \in Told
        BY <2>2, <2>3, <3>1 DEF Told
      <4> QED
        BY <4>1, CountSame DEF Woken
    <3>2. CASE phase[c] = "signalled"
      <4>1. phase[c] \in Told /\ phase'[c] \notin Told
        BY <2>3, <3>2 DEF Told
      <4>2. \A d \in Callers \ {c} : phase[d] \in Told <=> phase'[d] \in Told
        BY <2>2 DEF Told
      <4>3. \A v : Cardinality(With(phase, Told, v)) =
                     IF v = TenantOf[c] THEN Cardinality(With(phase', Told, v)) + 1
                                        ELSE Cardinality(With(phase', Told, v))
        BY <4>1, <4>2, CountOneLess
      <4> QED
        BY <4>3 DEF Woken
    <3> QED
      BY <2>1, <3>1, <3>2
  <2>5. active'[u] = IF u = t THEN active[u] + 1 ELSE active[u]
    BY <2>1 DEF QuotaInv, QuotaTypeOK
  <2> QED
    BY <1>2, <1>3, <2>1, <2>4, <2>5
<1>5. CASE (EnterQuota(c) \/ Recheck(c)) /\ ~HasRoom(t)
  <2>1. active' = active /\ waiters' = [waiters EXCEPT ![t] = Append(@, c)]
        /\ phase' = [phase EXCEPT ![c] = "waiting"] /\ phase[c] \in {"idle", "signalled"}
    BY <1>5 DEF EnterQuota, Recheck, TakeOrWait
  <2>2. CASE u = t
    BY <1>2, <1>5, <2>1, <2>2 DEF HasRoom
  <2>3. CASE u # t
    <3>1. waiters'[u] = waiters[u]
      BY <2>1, <2>3 DEF QuotaInv, QuotaTypeOK
    <3>2. With(phase', Told, u) = With(phase, Told, u)
      BY <2>1, <2>3 DEF QuotaInv, QuotaTypeOK, With, CallersOf, Told
    <3> QED
      BY <1>2, <1>3, <2>1, <3>1, <3>2 DEF Woken
  <2> QED
    BY <2>2, <2>3
<1>6. CASE WaitTimeout(c)
  <2>1. PICK i \in DOMAIN waiters[t] : waiters' = [waiters EXCEPT ![t] = RemoveAt(@, i)]
    BY <1>6 DEF WaitTimeout
  <2>2. active' = active /\ phase' = [phase EXCEPT ![c] = "idle"] /\ phase[c] = "waiting"
    BY <1>6 DEF WaitTimeout
  <2>3. waiters[u] # <<>>
    <3>1. CASE u = t
      BY <1>2, <2>1, <3>1
    <3>2. CASE u # t
      BY <2>1, <3>2 DEF QuotaInv, QuotaTypeOK
    <3> QED
      BY <3>1, <3>2
  <2>4. \A d \in Callers : phase'[d] \in Told <=> phase[d] \in Told
    BY <2>2 DEF QuotaInv, QuotaTypeOK, Told
  <2>5. Woken(phase', u) = Woken(phase, u)
    BY <2>4, CountSame DEF Woken
  <2> QED
    BY <1>3, <2>2, <2>3, <2>5
<1>7. CASE AcquireFails(c) \/ ReleaseEnds(c)
  <2>1. phase[c] \in Counted /\ Leave(c)
    BY <1>7 DEF AcquireFails, ReleaseEnds, Counted
  <2>2. active' = [active EXCEPT ![t] = @ - 1] /\ active[t] \in Nat \ {0}
    BY <2>1, CounterAfterLeave
  <2>3. CASE waiters[t] = <<>> /\ phase' = [phase EXCEPT ![c] = "idle"] /\ UNCHANGED waiters
    <3>1. u # t
      BY <2>3
    <3>2. active'[u] = active[u]
      BY <2>2, <3>1 DEF QuotaInv, QuotaTypeOK
    <3>3. \A d \in Callers : phase'[d] \in Told <=> phase[d] \in Told
      BY <2>1, <2>3 DEF QuotaInv, QuotaTypeOK, Counted, Told
    <3>4. Woken(phase', u) = Woken(phase, u)
      BY <3>3, CountSame DEF Woken
    <3> QED
      BY <1>3, <2>3, <3>2, <3>4
  <2>4. CASE /\ waiters[t] # <<>>
             /\ waiters' = [waiters EXCEPT ![t] = Tail(@)]
             /\ phase' = [phase EXCEPT ![c] = "idle", ![Head(waiters[t])] = "signalled"]
    <3> DEFINE h == Head(waiters[t])
    <3>1. h \in Callers /\ phase[h] = "waiting" /\ TenantOf[h] = t
      <4>1. waiters[t] \in Seq(Callers)
        BY DEF QuotaInv, QuotaTypeOK
      <4>2. 1 \in DOMAIN waiters[t] /\ h = waiters[t][1] /\ h \in Callers
        BY <2>4, <4>1, HeadTailProperties
      <4> QED
        BY <4>2 DEF QuotaInv, WaitersWait
    <3> HIDE DEF h
    <3>2. h # c
      BY <2>1, <3>1 DEF Counted
    <3>3. phase[h] \notin Told /\ phase'[h] \in Told
          /\ \A d \in Callers \ {h} : phase[d] \in Told <=> phase'[d] \in Told
      BY <2>1, <2>4, <3>1, <3>2 DEF QuotaInv, QuotaTypeOK, Counted, h, Told
    <3>4. Cardinality(With(phase', Told, u)) =
            IF u = TenantOf[h] THEN Cardinality(With(phase, Told, u)) + 1
                               ELSE Cardinality(With(phase, Told, u))
      BY <3>1, <3>3, CountOneMore
    <3>5. Woken(phase', u) = IF u = t THEN Woken(phase, u) + 1 ELSE Woken(phase, u)
      BY <3>1, <3>4 DEF Woken
    <3>6. active'[u] = IF u = t THEN active[u] - 1 ELSE active[u]
      BY <2>2 DEF QuotaInv, QuotaTypeOK
    <3>7. waiters[u] # <<>>
      BY <2>4 DEF QuotaInv, QuotaTypeOK
    <3> QED
      BY <1>2, <1>3, <3>5, <3>6, <3>7
  <2> QED
    BY <2>1, <2>3, <2>4 DEF Leave
<1>8. CASE AcquireEnds(c) \/ ReleaseStarts(c)
  <2>1. active' = active /\ waiters' = waiters
    BY <1>8 DEF AcquireEnds, ReleaseStarts
  <2>2. \A d \in Callers : phase'[d] \in Told <=> phase[d] \in Told
    BY <1>8 DEF AcquireEnds, ReleaseStarts, QuotaInv, QuotaTypeOK, Told
  <2>3. Woken(phase', u) = Woken(phase, u)
    BY <2>2, CountSame DEF Woken
  <2> QED
    BY <1>3, <2>1, <2>3
<1> QED
  BY <1>4, <1>5, <1>6, <1>7, <1>8 DEF QuotaStep

\* A waiter of withQuota is never forgotten: while callers of a tenant wait,
\* every slot the counter shows free is on its way to a signalled caller.
THEOREM FreeSlotsAreSignalled == Spec => []WaitersAreWoken
<1>1. Init => WaitersAreWoken
  BY DEF Init, QuotaInit, WaitersAreWoken
<1>2. QuotaInv /\ WaitersAreWoken /\ [Next]_vars => WaitersAreWoken'
  <2> SUFFICES ASSUME QuotaInv, WaitersAreWoken, [Next]_vars PROVE WaitersAreWoken'
    OBVIOUS
  <2>1. CASE \E c \in Callers : QuotaStep(c)
    BY <2>1, WokenStep
  <2>2. CASE UNCHANGED quotaVars
    BY <2>2 DEF WaitersAreWoken, Signalled, CallersOf, quotaVars
  <2>3. UNCHANGED vars => UNCHANGED quotaVars
    BY DEF vars, quotaVars
  <2> QED
    BY <2>1, <2>2, <2>3, VisitsDriveQuota
<1> QED
  BY <1>1, <1>2, QuotaInvAlways, PTL DEF Spec
=============================================================================
