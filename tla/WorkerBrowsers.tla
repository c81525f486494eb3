--------------------------- MODULE WorkerBrowsers ---------------------------
(***************************************************************************)
(* acquirePlaywrightContext without a remote browser-manager: withQuota of *)
(* TenantQuota around acquireContext of BrowserPool, for the smoke visits  *)
(* of one worker process.  A call is acquired, used and released once.     *)
(***************************************************************************)
EXTENDS TenantQuota, BrowserPool

CONSTANTS MaxVisits   \* bound: smoke visits in one behaviour

VARIABLES visits

vars == <<active, waiters, phase, browsers, queue, call, refused, visits>>

ASSUME VisitsAssumption == MaxVisits \in Nat

TypeOK == QuotaTypeOK /\ PoolTypeOK /\ visits \in 0..MaxVisits

Init == QuotaInit /\ PoolInit /\ visits = 0

\* The quota's increment and the call of acquireContext are one step.
IntoPool(c) ==
  IF phase'[c] = "acquiring" THEN Request(c) ELSE UNCHANGED poolVars

Visit(c) ==
  /\ visits < MaxVisits
  /\ visits' = visits + 1
  /\ EnterQuota(c)
  /\ IntoPool(c)

Retry(c) == Recheck(c) /\ IntoPool(c) /\ UNCHANGED visits

GiveUp(c) == WaitTimeout(c) /\ UNCHANGED <<poolVars, visits>>

Got(c) == AcquireEnds(c) /\ Opened(c) /\ UNCHANGED visits

NotGot(c) == AcquireFails(c) /\ Rejected(c) /\ UNCHANGED visits

Done(c) == ReleaseStarts(c) /\ ReleaseBegins(c) /\ UNCHANGED visits

\* The pool's release returns, at once or after a recycling: the quota's part.
Returned(c) ==
  /\ ContextClosed(c) \/ Recycled(c)
  /\ IF call'[c].at = "idle" THEN ReleaseEnds(c) ELSE UNCHANGED quotaVars
  /\ UNCHANGED visits

Inside(c) ==
  /\ Resume(c) \/ Launched(c) \/ LaunchFails(c) \/ Count(c) \/ OpenFails(c)
  /\ UNCHANGED <<quotaVars, visits>>

Cleanup(s) == (CleanupCloses(s) \/ CleanupClosed(s)) /\ UNCHANGED <<quotaVars, visits>>

Running(c) == Retry(c) \/ Got(c) \/ NotGot(c) \/ Done(c) \/ Returned(c) \/ Inside(c)

Next ==
  \/ \E c \in Callers : Visit(c) \/ GiveUp(c) \/ Running(c)
  \/ \E s \in Slots : Cleanup(s)

Spec == Init /\ [][Next]_vars

\* Promises that are due run, browsers answer within their timeouts and the
\* closing of a browser ends.  Nobody has to visit, and no timer has to fire.
Fairness ==
  /\ \A c \in Callers : WF_vars(Running(c))
  /\ \A s \in Slots : WF_vars(CleanupClosed(s) /\ UNCHANGED <<quotaVars, visits>>)

FairSpec == Spec /\ Fairness

\* Every visit comes to its end: it releases its context or was refused one.  No
\* caller is left waiting by the quota or the pool, unless a launch failed or
\* memory forbade one: those wake nobody.
VisitsEnd ==
  \A c \in Callers : phase[c] # "idle" ~> (phase[c] = "idle" \/ refused)
=============================================================================
