----------------------------- MODULE BrowserPool -----------------------------
(***************************************************************************)
(* One engine of packages/browser-pool (createPoolEngine): browsers shared *)
(* by the contexts of one pool key.  A step is what runs between two       *)
(* awaits; pickOrCreateSlot returns through an await of its own, so a      *)
(* caller has chosen its browser ("picked") before it counts itself there. *)
(* Slot ids stand for browsers; lastUsedAt only breaks ties and ages idle  *)
(* browsers, and both are left to chance.                                  *)
(***************************************************************************)
EXTENDS BrowserCalls

CONSTANTS
  Slots,         \* identities of browsers
  NoSlot,
  MaxBrowsers,   \* BROWSER_POOL_MAX_BROWSERS
  MaxContexts,   \* BROWSER_POOL_MAX_CONTEXTS_PER_BROWSER
  RecycleUses,   \* BROWSER_POOL_CONTEXT_RECYCLE_USES
  PoolFaults     \* what may go wrong in this process

ASSUME PoolAssumption ==
  /\ {MaxBrowsers, MaxContexts, RecycleUses} \subseteq Nat \ {0}
  /\ NoSlot \notin Slots
  /\ PoolFaults \subseteq {"memory", "launch", "newContext"}

VARIABLES
  browsers,   \* _browsers: browsers[s].st is "none" for a browser not listed
  queue,      \* _waiters, oldest first
  call,       \* where each call stands, and the browser it chose
  refused     \* a launch has failed, or memory has forbidden one

poolVars == <<browsers, queue, call, refused>>

Slot == [st : {"none", "open", "closing"}, active : Nat, created : Nat]
Unlisted == [st |-> "none", active |-> 0, created |-> 0]

Stages == {"idle", "queued", "woken", "launching", "picked", "opening", "using",
           "closing", "recycling", "failed"}
Slotless == {"idle", "queued", "woken", "launching", "failed"}

PoolTypeOK ==
  /\ browsers \in [Slots -> Slot]
  /\ queue \in Seq(Callers)
  /\ call \in [Callers -> [at : Stages, slot : Slots \cup {NoSlot}]]
  /\ \A c \in Callers : call[c].slot = NoSlot <=> call[c].at \in Slotless
  /\ refused \in BOOLEAN

PoolInit ==
  /\ browsers = [s \in Slots |-> Unlisted]
  /\ queue = <<>>
  /\ call = [c \in Callers |-> [at |-> "idle", slot |-> NoSlot]]
  /\ refused = FALSE

Listed == {s \in Slots : browsers[s].st # "none"}
Launching == {c \in Callers : call[c].at = "launching"}
Open(s) == browsers[s].st = "open"

\* Mutation: launches under way are not counted.
TotalListed == Cardinality(Listed)

\* _browsers.length + _launchInFlight
Total == Cardinality(Listed) + Cardinality(Launching)

\* pickBrowserWithCapacity
WithCapacity == {s \in Slots : Open(s) /\ browsers[s].active < MaxContexts}
LeastLoaded ==
  {s \in WithCapacity : \A u \in WithCapacity : browsers[s].active <= browsers[u].active}

Becomes(c, stage, s) == [call EXCEPT ![c] = [at |-> stage, slot |-> s]]

\* signalNextWaiter, beside what the step makes of the calls.
Signal(calls) ==
  /\ IF queue = <<>>
     THEN queue' = queue /\ call' = calls
     ELSE queue' = Tail(queue) /\ call' = [calls EXCEPT ![Head(queue)].at = "woken"]
  /\ UNCHANGED refused

\* One turn of pickOrCreateSlot's loop, up to its next await.  Above the hard
\* memory limit the launch throws, above the soft one the call queues.
LoopTurn(c) ==
  \/ \E s \in LeastLoaded :
       call' = Becomes(c, "picked", s) /\ UNCHANGED <<queue, refused>>
  \/ /\ WithCapacity = {} /\ Total < MaxBrowsers
     /\ \/ call' = Becomes(c, "launching", NoSlot) /\ UNCHANGED <<queue, refused>>
        \/ /\ "memory" \in PoolFaults
           /\ refused' = TRUE
           /\ \/ call' = Becomes(c, "failed", NoSlot) /\ UNCHANGED queue
              \/ call' = Becomes(c, "queued", NoSlot) /\ queue' = Append(queue, c)
  \/ /\ WithCapacity = {} /\ Total >= MaxBrowsers
     /\ call' = Becomes(c, "queued", NoSlot)
     /\ queue' = Append(queue, c)
     /\ UNCHANGED refused

Request(c) == call[c].at = "idle" /\ LoopTurn(c) /\ UNCHANGED browsers

Resume(c) == call[c].at = "woken" /\ LoopTurn(c) /\ UNCHANGED browsers

\* An id no browser and no call has: which one makes no difference.
Spare == {s \in Slots : browsers[s].st = "none" /\ \A d \in Callers : call[d].slot # s}

Launched(c) ==
  /\ call[c].at = "launching"
  /\ Spare # {}
  /\ LET s == CHOOSE s \in Spare : TRUE
     IN  /\ browsers' = [browsers EXCEPT ![s] = [Unlisted EXCEPT !.st = "open"]]
         /\ call' = Becomes(c, "picked", s)
  /\ UNCHANGED <<queue, refused>>

\* Mutation: the failure is swallowed and the call goes on without a browser.
LaunchFailsSwallowed(c) ==
  /\ "launch" \in PoolFaults
  /\ call[c].at = "launching"
  /\ call' = Becomes(c, "picked", NoSlot)
  /\ refused' = TRUE
  /\ UNCHANGED <<browsers, queue>>

\* A failed or timed out launch tells nobody.
LaunchFails(c) ==
  /\ "launch" \in PoolFaults
  /\ call[c].at = "launching"
  /\ call' = Becomes(c, "failed", NoSlot)
  /\ refused' = TRUE
  /\ UNCHANGED <<browsers, queue>>

\* acquireContext goes on: it counts itself and awaits newContext.
Count(c) ==
  /\ call[c].at = "picked"
  /\ browsers' = [browsers EXCEPT ![call[c].slot].active = @ + 1,
                                  ![call[c].slot].created = @ + 1]
  /\ call' = [call EXCEPT ![c].at = "opening"]
  /\ UNCHANGED <<queue, refused>>

\* A browser that is gone opens nothing, one that is being closed may.
Opened(c) ==
  /\ call[c].at = "opening"
  /\ browsers[call[c].slot].st # "none"
  /\ call' = [call EXCEPT ![c].at = "using"]
  /\ UNCHANGED <<browsers, queue, refused>>

OneLess(s) == [browsers EXCEPT ![s].active = IF @ = 0 THEN 0 ELSE @ - 1]

\* Mutation: the catch of newContext forgets the counter.
OpenFailsUncounted(c) ==
  /\ call[c].at = "opening"
  /\ "newContext" \in PoolFaults \/ ~Open(call[c].slot)
  /\ Signal(Becomes(c, "failed", NoSlot))
  /\ UNCHANGED browsers

OpenFails(c) ==
  /\ call[c].at = "opening"
  /\ "newContext" \in PoolFaults \/ ~Open(call[c].slot)
  /\ browsers' = OneLess(call[c].slot)
  /\ Signal(Becomes(c, "failed", NoSlot))

\* The rejection of acquireContext reaches its caller.
Rejected(c) ==
  /\ call[c].at = "failed"
  /\ call' = Becomes(c, "idle", NoSlot)
  /\ UNCHANGED <<browsers, queue, refused>>

ReleaseBegins(c) ==
  /\ call[c].at = "using"
  /\ call' = [call EXCEPT ![c].at = "closing"]
  /\ UNCHANGED <<browsers, queue, refused>>

\* Mutation: a released context leaves the queue alone.
ContextClosedNoSignal(c) ==
  /\ call[c].at = "closing"
  /\ browsers' = OneLess(call[c].slot)
  /\ call' = Becomes(c, "idle", NoSlot)
  /\ UNCHANGED <<queue, refused>>

\* After context.close(): the browser is recycled when it is worn out, empty and
\* not the last one; closeBrowserSlot returns at once if it is being closed.
ContextClosed(c) ==
  /\ call[c].at = "closing"
  /\ LET s == call[c].slot
         worn == /\ OneLess(s)[s].active = 0
                 /\ browsers[s].created >= RecycleUses
                 /\ Cardinality(Listed) > 1
     IN  \/ /\ ~worn
            /\ browsers' = OneLess(s)
            /\ Signal(Becomes(c, "idle", NoSlot))
         \/ /\ worn /\ Open(s)
            /\ browsers' = [OneLess(s) EXCEPT ![s].st = "closing"]
            /\ call' = Becomes(c, "recycling", s)
            /\ UNCHANGED <<queue, refused>>
         \/ /\ worn /\ ~Open(s)
            /\ browsers' = OneLess(s)
            /\ call' = Becomes(c, "idle", NoSlot)
            /\ UNCHANGED <<queue, refused>>

Recycled(c) ==
  /\ call[c].at = "recycling"
  /\ browsers' = [browsers EXCEPT ![call[c].slot].st = "none"]
  /\ Signal(Becomes(c, "idle", NoSlot))

\* cleanupIdleBrowsers reaches an idle browser that is not the last one.
CleanupCloses(s) ==
  /\ Open(s)
  /\ browsers[s].active = 0
  /\ Cardinality(Listed) > 1
  /\ browsers' = [browsers EXCEPT ![s].st = "closing"]
  /\ UNCHANGED <<queue, call, refused>>

\* Mutation: the end of closeBrowserSlot wakes nobody.
CleanupClosedNoSignal(s) ==
  /\ browsers[s].st = "closing"
  /\ \A c \in Callers : call[c].at = "recycling" => call[c].slot # s
  /\ browsers' = [browsers EXCEPT ![s].st = "none"]
  /\ UNCHANGED <<queue, call, refused>>

CleanupClosed(s) ==
  /\ browsers[s].st = "closing"
  /\ \A c \in Callers : call[c].at = "recycling" => call[c].slot # s
  /\ browsers' = [browsers EXCEPT ![s].st = "none"]
  /\ Signal(call)

CallStep(c) ==
  \/ Request(c) \/ Resume(c) \/ Launched(c) \/ LaunchFails(c) \/ Count(c)
  \/ Opened(c) \/ OpenFails(c) \/ Rejected(c) \/ ReleaseBegins(c)
  \/ ContextClosed(c) \/ Recycled(c)

PoolNext ==
  \/ \E c \in Callers : CallStep(c)
  \/ \E s \in Slots : CleanupCloses(s) \/ CleanupClosed(s)

PoolSpec == PoolInit /\ [][PoolNext]_poolVars

-----------------------------------------------------------------------------

On(s) == {c \in Callers : call[c].slot = s /\ call[c].at \in {"opening", "using", "closing"}}

\* Launches that overlap never add up to more browsers in the pool's books than
\* BROWSER_POOL_MAX_BROWSERS, browsers that are being closed included.
BrowsersBounded == Cardinality(Listed) + Cardinality(Launching) <= MaxBrowsers

\* activeContexts of every browser is the number of contexts on it: no failed
\* newContext, recycling or release leaves a place that nobody holds.
PlacesAccounted == \A s \in Listed : browsers[s].active = Cardinality(On(s))

\* Nobody queues for nothing: unless a launch failed or memory forbade one, some
\* call or closing browser is on its way to a signal.
NobodyStranded ==
  (~refused /\ queue # <<>>) =>
    \/ \E c \in Callers : call[c].at \notin {"idle", "queued", "failed"}
    \/ \E s \in Slots : browsers[s].st = "closing"
=============================================================================
