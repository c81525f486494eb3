------------------------------ MODULE MCKhanan ------------------------------
(***************************************************************************)
(* Instances of LegacyScraper for TLC.  Each behaviour has one cast: the   *)
(* runs that may begin, and who polls, saves and syncs meanwhile.  All of  *)
(* them act of their own accord, so to leave one out leaves out no step    *)
(* that had to happen.                                                     *)
(***************************************************************************)
EXTENDS LegacyScraper, TLC

CONSTANTS long, short, local, auto, manual, clerk, q1, va, vb, k1, k2, k3, acme

VARIABLES cast

Row(id, v, w) == [challan |-> id, vehicle |-> v, weight |-> w, owner |-> acme]
First == Row(k1, va, 20)
Second == Row(k2, vb, 1600)
Third == Row(k3, va, 6000)

\* Two dates, two anchors below the first; then pages whose rows are partly there already.
Results ==
  (long :> <<[path |-> <<1, 1, 1, 1>>, rows |-> {First}],
             [path |-> <<1, 2, 1, 1>>, rows |-> {Second, First}],
             [path |-> <<2, 1, 1, 1>>, rows |-> {Third}]>>)
  @@ (short :> <<[path |-> <<1, 1, 1, 1>>, rows |-> {Third, First}]>>)
  @@ (local :> <<[path |-> <<1, 1, 1, 1>>, rows |-> {Second, First}]>>)
Modes == (long :> "live") @@ (short :> "live") @@ (local :> "local")
Teams == (acme :> "TEAM_ALPHA")
SomeForms == {[vehicle |-> va, status |-> "won", trips |-> 1, followUp |-> None, executive |-> None],
              [vehicle |-> va, status |-> None, trips |-> 9, followUp |-> None, executive |-> "TEAM_BRAVO"]}

Casts == {[runs |-> {long, short}, others |-> {}],
          [runs |-> {short, local}, others |-> {q1}],
          [runs |-> {short}, others |-> {clerk, manual}]}

InitWith == ScraperInit /\ cast \in Casts
NextWith ==
  /\ Next
  /\ \A r \in Runs : run'[r].at # "idle" => r \in cast.runs
  /\ poll'[q1].at # "idle" => q1 \in cast.others
  /\ save'[clerk].at # "idle" => clerk \in cast.others
  /\ sync'[manual].at # "idle" => manual \in cast.others
  /\ UNCHANGED cast

SafeSpecWith == InitWith /\ [][NextWith]_<<vars, cast>>
FairSpecWith == SafeSpecWith /\ Fairness
=============================================================================
