----------------------------- MODULE MCScrapeApi -----------------------------
(***************************************************************************)
(* Instances of ScrapeApi for TLC: two requests with one key, one without. *)
(* Who acts is chosen at the start: all clients, or one of them and its    *)
(* console.  Clients act of their own accord, so this leaves out no step   *)
(* that had to happen.                                                     *)
(***************************************************************************)
EXTENDS ScrapeApi, TLC

CONSTANTS r1, r2, r3, k1

VARIABLES audience   \* who acts in this behaviour

KeyOfRequests == (r1 :> k1) @@ (r2 :> k1) @@ (r3 :> NoKey)

Body(from, to, prio) ==
  [kind |-> "khanan_date_range", correlationId |-> "text", from |-> from, to |-> to,
   priority |-> prio]

SomeBodies == (r1 :> {Body(3, 5, 0)}) @@ (r2 :> {Body(5, 3, 7)})
              @@ (r3 :> {Body(4, 4, 7), Body(2, 5, 7)})

Audiences == {[clicks |-> Requests, watches |-> FALSE], [clicks |-> {r1}, watches |-> TRUE]}

InitWith == Init /\ audience \in Audiences

NextWith ==
  /\ Next
  /\ \A r \in Requests \ audience.clicks : handler'[r] = "idle"
  /\ viewer' # "off" => audience.watches
  /\ UNCHANGED audience

FairSpecWith == InitWith /\ [][NextWith]_<<vars, audience>> /\ Fairness
=============================================================================
