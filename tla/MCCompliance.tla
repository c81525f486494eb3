---------------------------- MODULE MCCompliance ----------------------------
(***************************************************************************)
(* Instances of Compliance for TLC.  Each behaviour has one cast: the jobs *)
(* in the queue, and who reads.  Readers act of their own accord, so to    *)
(* leave one out leaves out no step that had to happen.                    *)
(***************************************************************************)
EXTENDS Compliance, TLC

CONSTANTS fit, per, ins, reg, kha, con, trip, cha, va, vb, q1, q2

VARIABLES cast

Payload(kind, key, status, records) ==
  [kind |-> kind, key |-> key, status |-> status, dated |-> FALSE, records |-> records,
   ranged |-> TRUE]

SomeWork ==
  (fit :> Payload("vehicle_fitness_snapshot", va, "expired", <<>>))
  @@ (per :> Payload("vehicle_permit_snapshot", va, "", <<>>))
  @@ (ins :> Payload("vehicle_insurance_snapshot", vb, "active", <<>>))
  @@ (reg :> Payload("vehicle_registration_snapshot", vb, "", <<>>))
  @@ (kha :> Payload("khanan_date_range", "d", "", <<"a", "b", "a">>))
  @@ (con :> Payload("consigner_digest", "c", "", <<>>))
  @@ (trip :> Payload("trip_intelligence_rollup", va, "", <<>>))
  @@ (cha :> Payload("raw_challan_backfill", Nothing, "", <<>>))

\* Rows and retries; merges of one vehicle and two requests; rows that move under an export.
Casts == {[jobs |-> {kha, reg}, reads |-> {}, exports |-> FALSE],
          [jobs |-> {con, trip, cha}, reads |-> {}, exports |-> FALSE],
          [jobs |-> {fit, per}, reads |-> {q1}, exports |-> FALSE],
          [jobs |-> {fit}, reads |-> {q1, q2}, exports |-> FALSE],
          [jobs |-> {fit, ins}, reads |-> {}, exports |-> TRUE]}

InitWith == Init /\ cast \in Casts /\ cast.jobs = {j \in Jobs : queue[j].state = "waiting"}

NextWith ==
  /\ Next
  /\ \A r \in Readers : reader'[r].at # "idle" => r \in cast.reads
  /\ \A r \in Readers : reader'[r].vehicle \in {Nothing, va}
  /\ export'.at # "off" => cast.exports
  /\ UNCHANGED cast

FairSpecWith == InitWith /\ [][NextWith]_<<vars, cast>> /\ Fairness
=============================================================================
