---------------------------- MODULE VehicleLeads ----------------------------
(***************************************************************************)
(* The leads (vehicle_trip_summary), which two kinds of writers read and   *)
(* write without a transaction: a sync (aggregateVehicles) groups the rows *)
(* of khanan_data by vehicle and then goes through the groups one by one;  *)
(* a save (POST /vehicle/trip-summary) writes what a form says.            *)
(***************************************************************************)
EXTENDS LeadLifecycle, FiniteSets, FiniteSetsExt

\* A row of khanan_data: [challan, vehicle, weight, owner].
CONSTANTS Vehicles, Syncs, Savers,
          Forms,        \* what a save may carry: [vehicle, status, trips, followUp, executive]
          MaxDbFaults

\* A team has a name, a form names one of the vehicles, and None is no word.
ASSUME LeadsAssumption ==
  /\ None \notin Statuses \cup DOMAIN SpringWords \cup {"UNASSIGNED"} \cup {TeamOf[o] : o \in Owners}
  /\ \A form \in Forms : form.vehicle \in Vehicles
  /\ Syncs \cap Savers = {}

VARIABLES khanan,   \* the rows of khanan_data
          leads,    \* vehicle -> its lead or None
          sync,     \* sync -> its groups still to write and the lead it has read
          save,     \* save -> its form and the lead it has read
          dbFaults

leadVars == <<khanan, leads, sync, save>>

Fault == dbFaults < MaxDbFaults /\ dbFaults' = dbFaults + 1
NoFault == UNCHANGED dbFaults

NoLead == [status |-> None, followUp |-> None, executive |-> None]
\* What both writers select of a lead.
Existing(v) ==
  IF leads[v] = None THEN NoLead
  ELSE [status |-> leads[v].status, followUp |-> leads[v].followUp, executive |-> leads[v].executive]

RowsOf(v, rows) == {row \in rows : row.vehicle = v}
WeightOf(rows) == MapThenSumSet(LAMBDA row : row.weight, rows)
OwnerOf(rows) == (CHOOSE row \in rows : TRUE).owner

NoSync == [at |-> "idle", groups |-> {}, vehicle |-> None, read |-> NoLead, overtaken |-> FALSE]
NoSave == [at |-> "idle", form |-> None, read |-> NoLead, overtaken |-> FALSE]

LeadsInit ==
  /\ khanan = {} /\ dbFaults = 0
  /\ leads = [v \in Vehicles |-> None]
  /\ sync = [p \in Syncs |-> NoSync]
  /\ save = [o \in Savers |-> NoSave]

\* The write of a lead by either; a follow-up of None is left alone by an update.
Upsert(v, trips, life) ==
  leads' = [leads EXCEPT ![v] =
    [trips |-> trips, status |-> life.status, executive |-> life.executive,
     followUp |-> IF life.followUp = None THEN Existing(v).followUp ELSE life.followUp]]

\* Ghost: the others that have read v are overtaken by a write of it.
OvertakenSyncs(v) ==
  [p \in Syncs |-> [sync[p] EXCEPT !.overtaken = @ \/ (sync[p].at = "write" /\ sync[p].vehicle = v)]]
OvertakenSaves(v) ==
  [o \in Savers |-> [save[o] EXCEPT !.overtaken = @ \/ (save[o].at = "write" /\ save[o].form.vehicle = v)]]

\* One SELECT ... GROUP BY: what is inserted later waits for the next sync.
SyncGroups(p) ==
  /\ sync[p].at = "group"
  /\ sync' = [sync EXCEPT ![p].at = "read",
                          ![p].groups = {RowsOf(v, khanan) : v \in Vehicles} \ {{}}]
  /\ UNCHANGED <<khanan, leads, save>> /\ NoFault

SyncReads(p) ==
  /\ sync[p].at = "read"
  /\ \E rows \in sync[p].groups :
       LET v == (CHOOSE row \in rows : TRUE).vehicle
       IN  sync' = [sync EXCEPT ![p].at = "write", ![p].vehicle = v, ![p].read = Existing(v),
                                ![p].overtaken = FALSE]
  /\ UNCHANGED <<khanan, leads, save>> /\ NoFault

Group(p) == CHOOSE rows \in sync[p].groups : \E row \in rows : row.vehicle = sync[p].vehicle

\* Mutation: the trips decide before the status the lead has.
SyncInfers(p) ==
  /\ sync[p].at = "write"
  /\ LET v == sync[p].vehicle
         rows == Group(p)
     IN  /\ Upsert(v, Cardinality(rows),
                   deriveLifecycleFields(inferStatusFromMetrics(Cardinality(rows), WeightOf(rows)),
                     sync[p].read, Cardinality(rows), WeightOf(rows), OwnerOf(rows)))
         /\ sync' = [OvertakenSyncs(v) EXCEPT ![p] = [NoSync EXCEPT !.at = "read",
                                                             !.groups = sync[p].groups \ {rows}]]
         /\ save' = OvertakenSaves(v)
  /\ UNCHANGED khanan /\ NoFault

SyncWrites(p) ==
  /\ sync[p].at = "write"
  /\ LET v == sync[p].vehicle
         rows == Group(p)
     IN  /\ Upsert(v, Cardinality(rows),
                   deriveLifecycleFields(None, sync[p].read, Cardinality(rows), WeightOf(rows),
                                         OwnerOf(rows)))
         /\ sync' = [OvertakenSyncs(v) EXCEPT ![p] = [NoSync EXCEPT !.at = "read",
                                                             !.groups = sync[p].groups \ {rows}]]
         /\ save' = OvertakenSaves(v)
  /\ UNCHANGED khanan /\ NoFault

\* Through with the groups, or a statement failed: the leads written so far stay.
SyncIsDone(p) == sync[p].at = "read" /\ sync[p].groups = {}
SyncSteps(p) == SyncGroups(p) \/ SyncReads(p) \/ SyncWrites(p)

\* POST /vehicle/sync: nothing keeps two syncs apart.
SyncRequested(p) ==
  /\ sync[p].at = "idle"
  /\ sync' = [sync EXCEPT ![p].at = "group"]
  /\ UNCHANGED <<khanan, leads, save>> /\ NoFault

SyncAnswered(p) ==
  /\ sync[p].at # "idle"
  /\ IF SyncIsDone(p) THEN NoFault ELSE Fault
  /\ sync' = [sync EXCEPT ![p] = NoSync]
  /\ UNCHANGED <<khanan, leads, save>>

SaveReads(o, form) ==
  /\ save[o].at = "idle"
  /\ save' = [save EXCEPT ![o] = [NoSave EXCEPT !.at = "write", !.form = form,
                                                !.read = Existing(form.vehicle)]]
  /\ UNCHANGED <<khanan, leads, sync>> /\ NoFault

SaveWrites(o) ==
  /\ save[o].at = "write"
  /\ LET form == save[o].form
         life == deriveLifecycleFields(form.status, save[o].read, form.trips, 0, None)
     IN  /\ Upsert(form.vehicle, form.trips,
                   [life EXCEPT !.followUp = IF form.followUp # None THEN form.followUp ELSE @,
                                !.executive = IF form.executive # None THEN form.executive ELSE @])
         /\ sync' = OvertakenSyncs(form.vehicle)
         /\ save' = [OvertakenSaves(form.vehicle) EXCEPT ![o] = NoSave]
  /\ UNCHANGED khanan /\ NoFault

SaveFails(o) ==
  /\ save[o].at = "write" /\ Fault
  /\ save' = [save EXCEPT ![o] = NoSave]
  /\ UNCHANGED <<khanan, leads, sync>>

-----------------------------------------------------------------------------

WritesLead(w, v) ==
  \/ w \in Syncs /\ sync[w].at = "write" /\ sync[w].vehicle = v /\ sync'[w].at = "read"
  \/ w \in Savers /\ save[w].at = "write" /\ save[w].form.vehicle = v /\ save'[w].at = "idle"

Overtaken(w) == IF w \in Syncs THEN sync[w].overtaken ELSE save[w].overtaken
Says(w, status) == w \in Savers /\ mapSpringStatus(save[w].form.status, None) = status
Names(w, executive) == w \in Savers /\ save[w].form.executive = executive

\* A status or an executive changes only when a form names the new one, whatever the
\* trips say by now, unless the writer was overtaken between its read and its write:
\* then, and only then, it may undo a change.
LeadsKept ==
  [][\A v \in Vehicles : leads[v] # None /\ leads'[v] # leads[v] =>
       \E w \in Syncs \cup Savers :
         /\ WritesLead(w, v)
         /\ \/ Overtaken(w)
            \/ /\ leads'[v].status = leads[v].status \/ Says(w, leads'[v].status)
               /\ leads'[v].executive = leads[v].executive \/ Names(w, leads'[v].executive)]_leadVars
=============================================================================
