---------------------------- MODULE BrowserCalls ----------------------------
(* The calls that ask a worker process for a browser context. *)
EXTENDS Naturals, FiniteSets, Sequences, SequencesExt

CONSTANTS Callers   \* calls that may be under way together

ASSUME CallersAssumption == IsFiniteSet(Callers)
=============================================================================
