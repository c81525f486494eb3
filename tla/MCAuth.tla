------------------------------- MODULE MCAuth -------------------------------
(***************************************************************************)
(* Instances of AuthSessions for TLC.  In each behaviour two of the calls  *)
(* are used: two tabs of one browser, or one tab of each of two browsers   *)
(* of the same user.  Who never asks leaves out no step that had to happen.*)
(***************************************************************************)
EXTENDS AuthSessions, TLC

CONSTANTS tab1, tab2, far, desk, phone

VARIABLES used

Tabs == (tab1 :> desk) @@ (tab2 :> desk) @@ (far :> phone)

InitUsed == Init /\ used \in {{tab1, tab2}, {tab1, far}}
NextUsed == Next /\ UNCHANGED used /\ \A c \in Calls : call'[c].at # "idle" => c \in used

SafeUsed == InitUsed /\ [][NextUsed]_<<vars, used>>
FairSpecUsed == InitUsed /\ [][NextUsed]_<<vars, used>> /\ Fairness
=============================================================================
