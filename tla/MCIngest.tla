------------------------------ MODULE MCIngest ------------------------------
(* Instances of IngestPipeline for TLC. *)
EXTENDS IngestPipeline, TLC

AllPoints == MasterPoints \cup ChildPoints \cup HandlerPoints \cup OtherPoints

\* Every awaited call of a processor may fail but the master's last one, and
\* every write of a handler and of the retry queue goes through.
SettlingPoints == (MasterPoints \ {"progress"}) \cup ChildPoints

WorkerSymmetry == Permutations(Workers)
=============================================================================
