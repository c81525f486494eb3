----------------------------- MODULE TenantQuota -----------------------------
(***************************************************************************)
(* apps/worker-ingest/src/lib/tenantQuota.js: withQuota() lets at most     *)
(* quota(t) callers of tenant t be between the start of acquire() and the  *)
(* end of release() in one process.  A step is what runs between two       *)
(* awaits.  A signalled waiter is only a resolved promise: before its loop *)
(* tests the counter again, others may run and take the slot.              *)
(***************************************************************************)
EXTENDS BrowserCalls

CONSTANTS
  Tenants,
  TenantOf,    \* the tenant a caller acquires for
  Quota,       \* getQuotaForTenant; with 0 withQuota only calls acquire
  RejectFast   \* BROWSER_POOL_QUOTA_REJECT_FAST

ASSUME QuotaAssumption ==
  /\ TenantOf \in [Callers -> Tenants]
  /\ Quota \in [Tenants -> Nat \ {0}]
  /\ RejectFast \in BOOLEAN

VARIABLES
  active,     \* _active
  waiters,    \* _waiters: callers whose _waitForSlot is not settled, oldest first
  phase       \* where each call of withQuota stands

quotaVars == <<active, waiters, phase>>

\* "counted" phases lie between increment and decrement.
Counted == {"acquiring", "holding", "releasing"}
Phases == {"idle", "waiting", "signalled"} \cup Counted

QuotaTypeOK ==
  /\ active \in [Tenants -> Nat]
  /\ waiters \in [Tenants -> Seq(Callers)]
  /\ phase \in [Callers -> Phases]

QuotaInit ==
  /\ active = [t \in Tenants |-> 0]
  /\ waiters = [t \in Tenants |-> <<>>]
  /\ phase = [c \in Callers |-> "idle"]

\* Mutation: an off-by-one in the loop's test.
HasRoomLoose(t) == active[t] <= Quota[t]

HasRoom(t) == active[t] < Quota[t]

\* The while loop of withQuota up to its next await.
TakeOrWait(c) ==
  LET t == TenantOf[c]
  IN  \/ /\ HasRoom(t)
         /\ active' = [active EXCEPT ![t] = @ + 1]
         /\ phase' = [phase EXCEPT ![c] = "acquiring"]
         /\ UNCHANGED waiters
      \/ /\ ~HasRoom(t)
         /\ ~RejectFast
         /\ waiters' = [waiters EXCEPT ![t] = Append(@, c)]
         /\ phase' = [phase EXCEPT ![c] = "waiting"]
         /\ UNCHANGED active

\* A call at the cap with REJECT_FAST throws at once: nothing changes.
EnterQuota(c) == phase[c] = "idle" /\ TakeOrWait(c)

Recheck(c) ==
  /\ phase[c] = "signalled"
  /\ TakeOrWait(c)

\* The timer of _waitForSlot: the call rejects.
WaitTimeout(c) ==
  /\ phase[c] = "waiting"
  /\ \E i \in DOMAIN waiters[TenantOf[c]] :
       /\ waiters[TenantOf[c]][i] = c
       /\ waiters' = [waiters EXCEPT ![TenantOf[c]] = RemoveAt(@, i)]
  /\ phase' = [phase EXCEPT ![c] = "idle"]
  /\ UNCHANGED active

Released(t) == [active EXCEPT ![t] = IF @ = 0 THEN 0 ELSE @ - 1]

\* Mutation: the counter goes down and nobody is told.
LeaveNoSignal(c) ==
  /\ active' = Released(TenantOf[c])
  /\ phase' = [phase EXCEPT ![c] = "idle"]
  /\ UNCHANGED waiters

\* decrement and _signalNextWaiter: the oldest waiter is resolved.
Leave(c) ==
  LET t == TenantOf[c]
  IN  /\ active' = Released(t)
      /\ \/ /\ waiters[t] = <<>>
            /\ phase' = [phase EXCEPT ![c] = "idle"]
            /\ UNCHANGED waiters
         \/ /\ waiters[t] # <<>>
            /\ waiters' = [waiters EXCEPT ![t] = Tail(@)]
            /\ phase' = [phase EXCEPT ![c] = "idle", ![Head(waiters[t])] = "signalled"]

\* acquire() rejects.
AcquireFails(c) == phase[c] = "acquiring" /\ Leave(c)

AcquireEnds(c) ==
  /\ phase[c] = "acquiring"
  /\ phase' = [phase EXCEPT ![c] = "holding"]
  /\ UNCHANGED <<active, waiters>>

\* The wrapped release: the original one, then, whatever its outcome, Leave.
ReleaseStarts(c) ==
  /\ phase[c] = "holding"
  /\ phase' = [phase EXCEPT ![c] = "releasing"]
  /\ UNCHANGED <<active, waiters>>

ReleaseEnds(c) == phase[c] = "releasing" /\ Leave(c)

QuotaStep(c) ==
  \/ EnterQuota(c) \/ Recheck(c) \/ WaitTimeout(c)
  \/ AcquireFails(c) \/ AcquireEnds(c) \/ ReleaseStarts(c) \/ ReleaseEnds(c)

QuotaNext == \E c \in Callers : QuotaStep(c)

QuotaSpec == QuotaInit /\ [][QuotaNext]_quotaVars

-----------------------------------------------------------------------------

CallersOf(t) == {c \in Callers : TenantOf[c] = t}
Users(t) == {c \in CallersOf(t) : phase[c] \in Counted}
Signalled(t) == {c \in CallersOf(t) : phase[c] = "signalled"}

\* A tenant never has more browser contexts between acquire and release
\* than its quota, though every waiter tests the counter long after its signal.
QuotaHolds ==
  \A t \in Tenants : Cardinality(Users(t)) <= Quota[t]

\* No wake-up of withQuota is lost: while callers of a tenant wait, every free
\* slot of it has a signalled caller on the way, although a newcomer may take
\* the slot first and a signalled caller may have to wait again.
WaitersAreWoken ==
  \A t \in Tenants :
    waiters[t] # <<>> => Quota[t] <= active[t] + Cardinality(Signalled(t))
=============================================================================
