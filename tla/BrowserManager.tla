---------------------------- MODULE BrowserManager ----------------------------
(***************************************************************************)
(* One replica of the browser manager (browserManagerServer.js) and the    *)
(* remote workers that use it (acquireRemoteViaHttp).  A request asks for  *)
(* one lease, so requests name their leases.  Each tenant has one pool     *)
(* engine: its places, its queue, its launches and its wake-ups are kept,  *)
(* its browsers are only counted.  Which of them serves whom, and that the *)
(* idle ones beside the last are closed, is BrowserPool's.  A step is one  *)
(* awaited call.                                                           *)
(***************************************************************************)
EXTENDS Integers, FiniteSets, Sequences

CONSTANTS
  Requests, NoLease,
  Tenants, TenantOf,    \* TenantOf[r]: X-Tenant-Id of the worker
  Quota,                \* BROWSER_MAX_CONTEXTS_PER_TENANT, 0 for none
  MaxBrowsers,          \* BROWSER_POOL_MAX_BROWSERS, of each engine
  Places,               \* BROWSER_POOL_MAX_CONTEXTS_PER_BROWSER
  FairShare,            \* BROWSER_MANAGER_FAIR_SHARE_ENABLED
  GlobalMax, Headroom,  \* fair share: contexts to divide, headroom in percent
  Faults,               \* what may go wrong: with a Redis command, a launch, or a crash
  MaxFaults,            \* bound: faults in one behaviour
  MaxRestarts           \* bound: restarts of the process

ASSUME ManagerAssumption ==
  /\ TenantOf \in [Requests -> Tenants]
  /\ NoLease \notin Requests /\ IsFiniteSet(Requests)
  /\ {Quota, Headroom, MaxFaults, MaxRestarts} \subseteq Nat
  /\ {MaxBrowsers, Places, GlobalMax} \subseteq Nat \ {0}
  /\ FairShare \in BOOLEAN
  /\ Faults \subseteq {"lost", "unanswered", "resent", "launch", "memory", "crash"}

VARIABLES
  client,     \* client[r]: the worker's side of the request
  handler,    \* handler[r]: the acquire handler of the request
  leases,     \* the lease table; localTenantActiveCount counts it per tenant
  ending,     \* ending[l]: where the release of l stands
  remote,     \* _remoteLeases of the engines: the places taken
  queue,      \* queue[t]: _waiters of t's engine, oldest first
  browsers,   \* browsers[t]: how many browsers t's engine has
  refused,    \* tenants whose engine was refused a browser since the process started
  count,      \* count[t]: the tenant's counter in Redis
  stage,      \* the process: up, draining or closing (shutdown), down
  drain,      \* the leases shutdown has still to release, and the current one
  exact,      \* no counter was decremented twice or expired under its users
  faults, restarts

vars == <<client, handler, leases, ending, remote, queue, browsers, refused, count,
          stage, drain, exact, faults, restarts>>

clientVars == <<client>>
poolVars == <<remote, queue, browsers, refused>>
processVars == <<stage, drain, restarts>>
redisVars == <<count, exact, faults>>

Of(t, S) == {r \in S : TenantOf[r] = t}
At(stages) == {r \in Requests : handler[r] \in stages}

Waiting == {"waiting", "woken"}
\* Counted in Redis and meant to be: the request or the lease it became.
Counted == {"expire", "pool", "launching", "picked", "leased", "undo"} \cup Waiting
Settled == {"idle", "granted", "refused", "dropped"}
Busy == {"incr", "over", "zero"} \cup Counted
Free == [l \in Requests |-> "none"]
NoDrain == [todo |-> {}, current |-> NoLease]

TypeOK ==
  /\ client \in [Requests -> {"idle", "asking", "holding", "gone"}]
  /\ handler \in [Requests -> Settled \cup Busy]
  /\ leases \subseteq At({"granted"})
  /\ ending \in [Requests -> {"none", "decr", "zero", "pool"}]
  /\ remote \subseteq Requests
  /\ queue \in [Tenants -> Seq(Requests)]
  /\ browsers \in [Tenants -> Nat] /\ refused \subseteq Tenants
  /\ count \in [Tenants -> Int]
  /\ stage \in {"up", "draining", "closing", "down"}
  /\ drain \in [todo : SUBSET Requests, current : Requests \cup {NoLease}]
  /\ exact \in BOOLEAN
  /\ faults \in 0..MaxFaults /\ restarts \in 0..MaxRestarts

Init ==
  /\ client = [r \in Requests |-> "idle"]
  /\ handler = [r \in Requests |-> "idle"]
  /\ leases = {} /\ ending = Free /\ remote = {}
  /\ queue = [t \in Tenants |-> <<>>]
  /\ browsers = [t \in Tenants |-> 0] /\ refused = {}
  /\ count = [t \in Tenants |-> 0]
  /\ stage = "up" /\ drain = NoDrain
  /\ exact = TRUE /\ faults = 0 /\ restarts = 0

Goes(r, at) == handler' = [handler EXCEPT ![r] = at]
ClientGoes(r, at) == client' = [client EXCEPT ![r] = at]
Running == stage # "down"

\* The answer of a failed acquire: acquireRemoteViaHttp throws.
Refuse(r) ==
  /\ Goes(r, "refused")
  /\ client' = IF client[r] = "asking" THEN [client EXCEPT ![r] = "gone"] ELSE client

-----------------------------------------------------------------------------
(* Redis: a command runs and answers; a disturbed one reports an error and  *)
(* did not run ("lost") or did ("unanswered"), or runs twice because the    *)
(* connection broke before its answer ("resent").                           *)

Undisturbed == UNCHANGED <<exact, faults>>
Disturbed(kind) == kind \in Faults /\ faults < MaxFaults /\ faults' = faults + 1

Add(t, n) == count' = [count EXCEPT ![t] = @ + n]

\* A command that fails, whether it ran or not.
Errs(t, n) ==
  \/ Disturbed("lost") /\ UNCHANGED <<count, exact>>
  \/ Disturbed("unanswered") /\ Add(t, n) /\ UNCHANGED exact

\* DECR, which shows the callers the counter it leaves.
Decremented(t) ==
  \/ Add(t, -1) /\ Undisturbed
  \/ Disturbed("resent") /\ Add(t, -2) /\ exact' = FALSE

-----------------------------------------------------------------------------
(* The acquire handler                                                      *)

\* fairShareCheck: floor(globalMax / activeTenants * (1 + headroom)), at least 1.
\* getPoolStats reports no totalContexts, so globalMax never varies.
ActiveTenants == {t \in Tenants : Of(t, leases) # {}}
SoftCap ==
  LET tenants == IF ActiveTenants = {} THEN 1 ELSE Cardinality(ActiveTenants)
      cap == (GlobalMax * (100 + Headroom)) \div (100 * tenants)
  IN  IF cap < 1 THEN 1 ELSE cap
Allowed(t) == FairShare => Cardinality(Of(t, leases)) < SoftCap

\* A request arrives: its body is parsed, the fair share tested, INCR is on its way.
Ask(r) ==
  /\ stage \in {"up", "draining"}
  /\ client[r] = "idle"
  /\ \/ Allowed(TenantOf[r]) /\ ClientGoes(r, "asking")
        /\ Goes(r, IF Quota > 0 THEN "incr" ELSE "pool")
     \/ ~Allowed(TenantOf[r]) /\ ClientGoes(r, "gone") /\ Goes(r, "refused")
  /\ UNCHANGED <<leases, ending, poolVars, redisVars, processVars>>

\* Mutation: the limit is compared as if the counter had not been raised yet.
IncrLate(r) ==
  /\ handler[r] = "incr"
  /\ LET t == TenantOf[r]
     IN  \/ Add(t, 1) /\ Undisturbed
            /\ Goes(r, IF count[t] > Quota THEN "over" ELSE "expire") /\ UNCHANGED client
         \/ Errs(t, 1) /\ Refuse(r)
  /\ UNCHANGED <<leases, ending, poolVars, processVars>>

\* redisTenantQuotaTryAcquire: INCR, and its answer against the limit.  An error
\* is a 503, also when the counter was raised.
Incr(r) ==
  /\ handler[r] = "incr"
  /\ LET t == TenantOf[r]
     IN  \/ Add(t, 1) /\ Undisturbed
            /\ Goes(r, IF count'[t] > Quota THEN "over" ELSE "expire") /\ UNCHANGED client
         \/ Errs(t, 1) /\ Refuse(r)
         \/ Disturbed("resent") /\ Add(t, 2) /\ UNCHANGED <<exact, client>>
            /\ Goes(r, IF count'[t] > Quota THEN "over" ELSE "expire")
  /\ UNCHANGED <<leases, ending, poolVars, processVars>>

\* Over the limit: DECR and 429.
GiveBack(r) ==
  /\ handler[r] = "over"
  /\ Decremented(TenantOf[r]) \/ Errs(TenantOf[r], -1)
  /\ Refuse(r)
  /\ UNCHANGED <<leases, ending, poolVars, processVars>>

\* PEXPIRE; when it fails the request is refused and stays counted.
SetExpiry(r) ==
  /\ handler[r] = "expire"
  /\ \/ Goes(r, "pool") /\ UNCHANGED <<client, redisVars>>
     \/ Errs(TenantOf[r], 0) /\ Refuse(r)
  /\ UNCHANGED <<leases, ending, poolVars, processVars>>

\* Some browser of t's engine has a place.
HasPlace(t) == Cardinality(Of(t, remote)) < browsers[t] * Places
\* Browsers that start up count as well.
MayLaunch(t) == browsers[t] + Cardinality(Of(t, At({"launching"}))) < MaxBrowsers

\* The memory limits: the soft one lets the request wait, the hard one throws.
MemoryRefuses(r) ==
  LET t == TenantOf[r]
  IN  /\ Disturbed("memory") /\ refused' = refused \cup {t}
      /\ \/ Goes(r, "waiting") /\ queue' = [queue EXCEPT ![t] = Append(@, r)]
         \/ Goes(r, "undo") /\ UNCHANGED queue

\* One turn of pickOrCreateSlot's loop: a place, a launch, or the queue.  While
\* shutdownPool closes an engine its browsers have no place to give, and a new
\* engine may already stand beside it; whom the last signals of the old one wake
\* asks again, as if the turn came later.
PoolTurn(r) ==
  /\ handler[r] \in {"pool", "woken"}
  /\ LET t == TenantOf[r]
     IN  \/ HasPlace(t)
            /\ Goes(r, "picked") /\ UNCHANGED <<queue, refused, faults>>
         \/ (stage = "closing" \/ (~HasPlace(t) /\ MayLaunch(t)))
            /\ Goes(r, "launching") /\ UNCHANGED <<queue, refused, faults>>
         \/ (stage = "closing" \/ (~HasPlace(t) /\ MayLaunch(t)))
            /\ MemoryRefuses(r)
         \/ (stage = "closing" \/ (~HasPlace(t) /\ ~MayLaunch(t)))
            /\ Goes(r, "waiting") /\ queue' = [queue EXCEPT ![t] = Append(@, r)]
            /\ UNCHANGED <<refused, faults>>
  /\ UNCHANGED <<client, leases, ending, remote, browsers, count, exact, processVars>>

\* signalNextWaiter of t's engine, beside what the step makes of the handlers.
Signal(t, handlers) ==
  IF queue[t] = <<>>
  THEN queue' = queue /\ handler' = handlers
  ELSE queue' = [queue EXCEPT ![t] = Tail(@)] /\ handler' = [handlers EXCEPT ![Head(queue[t])] = "woken"]

\* launchBrowserSlot ends: the browser is there for who launched it, or the launch
\* failed or timed out, which nobody else is told.
LaunchEnds(r) ==
  /\ handler[r] = "launching"
  /\ LET t == TenantOf[r]
     IN  \/ Goes(r, "picked") /\ browsers' = [browsers EXCEPT ![t] = @ + 1]
            /\ UNCHANGED <<refused, faults>>
         \/ Goes(r, "undo") /\ Disturbed("launch") /\ refused' = refused \cup {t}
            /\ UNCHANGED browsers
  /\ UNCHANGED <<client, leases, ending, remote, queue, count, exact, processVars>>

\* Mutation: the catch of wsEndpoint leaves the lease in the engine.
LeaseKeepsPlace(r) ==
  /\ handler[r] = "picked"
  /\ remote' = remote \cup {r}
  /\ \/ Goes(r, "leased") /\ UNCHANGED queue
     \/ Signal(TenantOf[r], [handler EXCEPT ![r] = "undo"])
  /\ UNCHANGED <<client, leases, ending, browsers, refused, redisVars, processVars>>

\* leaseRemoteBrowser goes on: it takes the place, and gives it up again when
\* the browser has no endpoint.
Lease(r) ==
  /\ handler[r] = "picked"
  /\ \/ remote' = remote \cup {r} /\ Goes(r, "leased") /\ UNCHANGED queue
     \/ Signal(TenantOf[r], [handler EXCEPT ![r] = "undo"]) /\ UNCHANGED remote
  /\ UNCHANGED <<client, leases, ending, browsers, refused, redisVars, processVars>>

\* The catch of the handler: redisTenantQuotaRelease, then 500.
Undo(r) ==
  /\ handler[r] = "undo"
  /\ LET t == TenantOf[r]
     IN  IF Quota = 0
         THEN Refuse(r) /\ UNCHANGED redisVars
         ELSE \/ Errs(t, -1) /\ Refuse(r)
              \/ /\ Decremented(t)
                 /\ IF count'[t] < 0 THEN Goes(r, "zero") /\ UNCHANGED client ELSE Refuse(r)
  /\ UNCHANGED <<leases, ending, poolVars, processVars>>

Zero(t) ==
  \/ count' = [count EXCEPT ![t] = 0] /\ Undisturbed
  \/ Errs(t, 0)

UndoZero(r) ==
  /\ handler[r] = "zero"
  /\ Zero(TenantOf[r]) /\ Refuse(r)
  /\ UNCHANGED <<leases, ending, poolVars, processVars>>

\* Mutation: what follows the registration still ends in the catch.
RegisterThenCatch(r) ==
  /\ handler[r] = "leased"
  /\ leases' = leases \cup {r}
  /\ Goes(r, "undo")
  /\ UNCHANGED <<client, ending, poolVars, redisVars, processVars>>

\* The lease enters the table, in the step that counts it for its tenant, and
\* the 200 is sent; redisRememberLease in between never fails.
Register(r) ==
  /\ handler[r] = "leased"
  /\ leases' = leases \cup {r}
  /\ Goes(r, "granted")
  /\ client' = IF client[r] = "asking" THEN [client EXCEPT ![r] = "holding"] ELSE client
  /\ UNCHANGED <<ending, poolVars, redisVars, processVars>>

-----------------------------------------------------------------------------
(* safeReleaseLease                                                         *)

\* Mutation: the table is cleared when the release is over.
ReleaseStartsLate(l) ==
  /\ leases' = leases
  /\ ending' = [ending EXCEPT ![l] = IF Quota > 0 THEN "decr" ELSE "pool"]

\* Up to its first await: the lease leaves the table, so no second release of it
\* gets any further.
ReleaseStarts(l) ==
  /\ leases' = leases \ {l}
  /\ ending' = [ending EXCEPT ![l] = IF Quota > 0 THEN "decr" ELSE "pool"]

EndingGoes(l, at) == ending' = [ending EXCEPT ![l] = at]

\* Mutation: an error of Redis ends the release.
ReleaseDecrGivesUp(l) ==
  /\ ending[l] = "decr"
  /\ LET t == TenantOf[l]
     IN  \/ Errs(t, -1) /\ EndingGoes(l, "none")
         \/ Decremented(t) /\ EndingGoes(l, IF count'[t] < 0 THEN "zero" ELSE "pool")
  /\ UNCHANGED <<client, handler, leases, poolVars, processVars>>

\* redisForgetLease, then redisTenantQuotaRelease.
ReleaseDecr(l) ==
  /\ ending[l] = "decr"
  /\ LET t == TenantOf[l]
     IN  \/ Errs(t, -1) /\ EndingGoes(l, "pool")
         \/ Decremented(t) /\ EndingGoes(l, IF count'[t] < 0 THEN "zero" ELSE "pool")
  /\ UNCHANGED <<client, handler, leases, poolVars, processVars>>

ReleaseZero(l) ==
  /\ ending[l] = "zero"
  /\ Zero(TenantOf[l]) /\ EndingGoes(l, "pool")
  /\ UNCHANGED <<client, handler, leases, poolVars, processVars>>

\* Mutation: the place is given back without a signal.
ReleasePlaceNoSignal(l) ==
  /\ ending[l] = "pool"
  /\ EndingGoes(l, "none")
  /\ remote' = remote \ {l}
  /\ UNCHANGED <<queue, browsers, refused, handler, client, leases, redisVars, processVars>>

\* releaseRemoteLeaseByPoolKey: an engine gives back the places it knows.
ReleasePlace(l) ==
  /\ ending[l] = "pool"
  /\ EndingGoes(l, "none")
  /\ remote' = remote \ {l}
  /\ \/ l \in remote /\ Signal(TenantOf[l], handler)
     \/ l \notin remote /\ UNCHANGED <<queue, handler>>
  /\ UNCHANGED <<client, leases, browsers, refused, redisVars, processVars>>

\* The garbage collector finds an expired lease.  Its user may still be there.
Sweep(l) ==
  /\ stage = "up" /\ l \in leases
  /\ ReleaseStarts(l)
  /\ UNCHANGED <<client, handler, poolVars, redisVars, processVars>>

-----------------------------------------------------------------------------
(* The worker's side                                                        *)

\* The context is closed and the POST arrives; a lease that is not in the table
\* any more is a 404.
ReleaseArrives(r) ==
  /\ Running /\ client[r] = "holding"
  /\ ClientGoes(r, "gone")
  /\ IF r \in leases THEN ReleaseStarts(r) ELSE UNCHANGED <<leases, ending>>
  /\ UNCHANGED <<handler, poolVars, redisVars, processVars>>

\* The worker dies, its acquire times out, its POST is lost, or connectOverCDP or
\* newContext throw, after which nobody releases the lease.
Vanish(r) ==
  /\ client[r] \in {"asking", "holding"}
  /\ ClientGoes(r, "gone")
  /\ UNCHANGED <<handler, leases, ending, poolVars, redisVars, processVars>>

-----------------------------------------------------------------------------
(* The process and the counter's key                                        *)

\* shutdown: the sweep stops and the leases of the moment are to be released.
Stop ==
  /\ stage = "up"
  /\ stage' = "draining"
  /\ drain' = [todo |-> leases, current |-> NoLease]
  /\ UNCHANGED <<client, handler, leases, ending, poolVars, redisVars, restarts>>

DrainedCurrent == drain.current \notin {l \in Requests : ending[l] # "none"}

DrainNext(l) ==
  /\ stage = "draining" /\ l \in drain.todo /\ DrainedCurrent
  /\ \/ l \in leases /\ ReleaseStarts(l)
        /\ drain' = [todo |-> drain.todo \ {l}, current |-> l]
     \/ l \notin leases /\ drain' = [todo |-> drain.todo \ {l}, current |-> NoLease]
        /\ UNCHANGED <<leases, ending>>
  /\ UNCHANGED <<client, handler, poolVars, redisVars, stage, restarts>>

\* shutdownPool forgets the engines and whoever waits in them.
ClosePool ==
  /\ stage = "draining" /\ drain.todo = {} /\ DrainedCurrent
  /\ stage' = "closing" /\ drain' = NoDrain
  /\ remote' = {} /\ queue' = [t \in Tenants |-> <<>>]
  /\ browsers' = [t \in Tenants |-> 0]
  /\ UNCHANGED <<client, handler, leases, ending, refused, redisVars, restarts>>

\* The process is gone with what it kept in memory, and so are its browsers.
Ends ==
  /\ stage' = "down" /\ drain' = NoDrain
  /\ leases' = {} /\ ending' = Free /\ remote' = {}
  /\ queue' = [t \in Tenants |-> <<>>]
  /\ browsers' = [t \in Tenants |-> 0] /\ refused' = {}
  /\ handler' = [r \in Requests |-> IF handler[r] \in Busy THEN "dropped" ELSE handler[r]]
  /\ client' = [r \in Requests |-> IF client[r] = "idle" THEN "idle" ELSE "gone"]
  /\ UNCHANGED restarts

\* server.close calls back when no connection is left.
Exit ==
  /\ stage = "closing"
  /\ \A r \in Requests : handler[r] \in Busy => client[r] # "asking"
  /\ Ends /\ UNCHANGED redisVars

Crash == stage = "up" /\ Disturbed("crash") /\ Ends /\ UNCHANGED <<count, exact>>

Restart ==
  /\ stage = "down" /\ restarts < MaxRestarts
  /\ stage' = "up" /\ restarts' = restarts + 1
  /\ UNCHANGED <<client, handler, leases, ending, poolVars, redisVars, drain>>

\* The key of a tenant without leases reaches its expiry, fifty lease terms after
\* the last request that was let in; one may still be waiting for its place.
KeyExpires(t) ==
  /\ count[t] # 0
  /\ Of(t, leases) = {} /\ \A l \in Of(t, Requests) : ending[l] = "none"
  /\ Of(t, At({"over", "expire", "launching", "picked", "leased", "undo", "zero"})) = {}
  /\ count' = [count EXCEPT ![t] = 0]
  /\ exact' = (exact /\ Of(t, At(Counted)) = {})
  /\ UNCHANGED <<client, handler, leases, ending, poolVars, faults, processVars>>

-----------------------------------------------------------------------------

HandlerStep(r) ==
  \/ Incr(r) \/ GiveBack(r) \/ SetExpiry(r) \/ PoolTurn(r)
  \/ LaunchEnds(r) \/ Lease(r) \/ Undo(r) \/ UndoZero(r) \/ Register(r)

ReleaseStep(l) == ReleaseDecr(l) \/ ReleaseZero(l) \/ ReleasePlace(l)

Shutdown == (\E l \in Requests : DrainNext(l)) \/ ClosePool \/ Exit

Next ==
  \/ \E r \in Requests :
       \/ Ask(r) \/ HandlerStep(r) \/ ReleaseStep(r) \/ Sweep(r)
       \/ ReleaseArrives(r) \/ Vanish(r)
  \/ Stop \/ Shutdown \/ Crash \/ Restart
  \/ \E t \in Tenants : KeyExpires(t)

Spec == Init /\ [][Next]_vars

\* Callbacks run, Redis answers or reports an error, the sweep timer fires, a
\* shutdown that has begun goes on and an HTTP request times out in the end.  No
\* worker has to release what it holds.
Fairness ==
  /\ \A r \in Requests : /\ WF_vars(HandlerStep(r)) /\ WF_vars(ReleaseStep(r))
                         /\ WF_vars(Sweep(r))
                         /\ WF_vars(client[r] = "asking" /\ stage = "closing" /\ Vanish(r))
  /\ WF_vars(Shutdown)

FairSpec == Spec /\ Fairness

-----------------------------------------------------------------------------

\* Requests and leases of t that the counter has to cover.
Charged(t) == Of(t, At(Counted)) \cup Of(t, leases) \cup {l \in Of(t, Requests) : ending[l] = "decr"}

\* The Redis counter of a tenant never falls below the leases and requests it
\* stands for, and those never exceed the quota: no error of a command, no crash,
\* no sweep racing a release gives a tenant more than BROWSER_MAX_CONTEXTS_PER_TENANT,
\* as long as no DECR ran twice and no key expired under a waiting request.
CounterCovers ==
  (exact /\ Quota > 0) =>
    \A t \in Tenants :
      /\ Cardinality(Charged(t)) + Cardinality(Of(t, At({"over"}))) <= count[t]
      /\ Cardinality(Charged(t)) <= Quota

\* The manager knows every place taken in its engines: by its table, by a release
\* under way, or by the handler about to register it.  No place is lost or freed twice.
PlacesKnown ==
  stage \in {"up", "draining"} =>
    remote = leases \cup {l \in Requests : ending[l] # "none"} \cup At({"leased"})

\* The lease API of BrowserLease, which a lease enters when it is registered.
API == INSTANCE BrowserLease
  WITH Leases <- Requests, held <- leases,
       ended <- At({"granted"}) \ leases, trusted <- exact
LeaseSpec == API!LeaseSpec

\* Whatever becomes of the worker that took a place, the place is free again one
\* day: TTL sweep, shutdown or exit take back what a failed connect or a lost
\* release left behind.
PlacesComeBack == \A l \in Requests : l \in remote ~> l \notin remote

\* r waits in an engine that was refused a browser, and nobody in it is on the way
\* to a signal.
Stranded(r) ==
  LET t == TenantOf[r]
  IN  /\ handler[r] = "waiting" /\ t \in refused
      /\ Of(t, remote) = {} /\ Of(t, At({"launching", "picked", "woken"})) = {}

\* Every acquire request is answered or its process ends, although workers may
\* vanish without releasing their places: whoever waits for a place, behind a launch
\* or after the memory limit, is signalled in the end, except where a refused browser
\* left nobody in the engine to signal (the queue has no timer).
RequestsAnswered ==
  \A r \in Requests : handler[r] \in Busy ~> (handler[r] \in Settled \/ Stranded(r))
=============================================================================
