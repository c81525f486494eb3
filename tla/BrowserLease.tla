----------------------------- MODULE BrowserLease -----------------------------
(***************************************************************************)
(* What the browser manager's lease API promises its callers: a lease is   *)
(* granted once, ends once, and a tenant holds at most its quota of them   *)
(* for as long as the shared counter is to be trusted.  BrowserManager is  *)
(* the process of handlers, timers and Redis commands behind it.           *)
(***************************************************************************)
EXTENDS FiniteSets, Naturals

CONSTANTS Leases,     \* every lease that may ever be granted
          TenantOf,   \* the tenant each of them is for
          Quota       \* BROWSER_MAX_CONTEXTS_PER_TENANT, 0 for no limit

VARIABLES held,       \* leases in force
          ended,      \* leases that were in force once
          trusted     \* the tenants' counter has not been disturbed

leaseVars == <<held, ended, trusted>>

HeldBy(t) == {l \in held : TenantOf[l] = t}

LeaseInit == held = {} /\ ended = {} /\ trusted = TRUE

Grant(l) ==
  /\ l \notin held \cup ended
  /\ (trusted /\ Quota > 0) => Cardinality(HeldBy(TenantOf[l])) < Quota
  /\ held' = held \cup {l}
  /\ UNCHANGED <<ended, trusted>>

\* One release ends one lease, the end of the process all of them.
End(S) ==
  /\ S \subseteq held
  /\ held' = held \ S
  /\ ended' = ended \cup S
  /\ UNCHANGED trusted

\* A command executed twice or a key that expired under its users.
Disturb == trusted' = FALSE /\ UNCHANGED <<held, ended>>

LeaseNext ==
  \/ \E l \in Leases : Grant(l)
  \/ \E S \in SUBSET Leases : End(S)
  \/ Disturb

LeaseSpec == LeaseInit /\ [][LeaseNext]_leaseVars
=============================================================================
