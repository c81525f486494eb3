---------------------------- MODULE LeadLifecycle ----------------------------
(***************************************************************************)
(* leadLifecycle.js: the status, follow-up and executive of a lead, from   *)
(* what a form or the trips say and what the lead has already.  Texts are  *)
(* taken in the form normalizeStatusToken gives them; None is no value.    *)
(***************************************************************************)
EXTENDS Integers

CONSTANTS None, Owners, TeamOf

Statuses == {"pending", "in-progress", "completed"}

\* The words of the spreadsheets, and the status each stands for.
SpringWords ==
  [new |-> "pending", open |-> "pending", todo |-> "pending", scheduled |-> "pending",
   assigned |-> "in-progress", inprogress |-> "in-progress", followup |-> "in-progress",
   working |-> "in-progress", closed |-> "completed", converted |-> "completed",
   won |-> "completed"]

mapSpringStatus(word, fallback) ==
  IF word \in Statuses THEN word
  ELSE IF word \in DOMAIN SpringWords THEN SpringWords[word] ELSE fallback

inferStatusFromMetrics(trips, weight) ==
  IF trips >= 25 \/ weight >= 5000 THEN "completed"
  ELSE IF trips >= 5 \/ weight >= 1500 THEN "in-progress" ELSE "pending"

inferAssignedExecutive(existing, owner) ==
  IF existing # None THEN existing ELSE IF owner \in Owners THEN TeamOf[owner] ELSE "UNASSIGNED"

Days(status) == IF status = "pending" THEN "tomorrow" ELSE "in three days"

\* A follow-up of None leaves the column of a stored lead as it is.
deriveLifecycleFields(incoming, existing, trips, weight, owner) ==
  LET status == mapSpringStatus(incoming, mapSpringStatus(existing.status,
                                            inferStatusFromMetrics(trips, weight)))
  IN  [status |-> status,
       followUp |-> IF status = "completed" THEN None
                    ELSE IF existing.followUp # None THEN existing.followUp ELSE Days(status),
       executive |-> inferAssignedExecutive(existing.executive, owner)]
=============================================================================
