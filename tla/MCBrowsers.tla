----------------------------- MODULE MCBrowsers -----------------------------
(* Instances of WorkerBrowsers for TLC: one limited tenant. *)
EXTENDS WorkerBrowsers, TLC

OneTenant == [c \in Callers |-> "acme"]
QuotaOfTwo == [t \in Tenants |-> 2]
QuotaOfThree == [t \in Tenants |-> 3]

\* Callers differ in nothing but their names.
CallerSymmetry == Permutations(Callers)
=============================================================================
