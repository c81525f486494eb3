------------------------- MODULE LegacyScraperProofs -------------------------
(***************************************************************************)
(* Proofs about the leads of the legacy scraper: what syncs, saves, runs   *)
(* and restarts may do to a status or an executive somebody has set, for   *)
(* any number of vehicles, syncs, saves and forms.                         *)
(***************************************************************************)
EXTENDS LegacyScraper, TLAPS, FiniteSetTheorems, WellFoundedInduction

\* A lead always has a status of its own and an executive.
LeadsFilled ==
  /\ DOMAIN leads = Vehicles
  /\ \A v \in Vehicles : leads[v] # None => leads[v].status \in Statuses /\ leads[v].executive # None

\* A sync in mid-write holds the lead as it is, or knows that it was overtaken.
FreshSync(e) ==
  /\ DOMAIN e = DOMAIN NoSync /\ e.overtaken \in BOOLEAN
  /\ \A g \in e.groups : g # {} /\ \A row \in g : row.vehicle \in Vehicles
  /\ e.at = "write" => e.vehicle \in Vehicles
  /\ (e.at = "write" /\ ~e.overtaken) => e.read = Existing(e.vehicle)

FreshSave(e) ==
  /\ DOMAIN e = DOMAIN NoSave /\ e.overtaken \in BOOLEAN
  /\ e.at = "write" => e.form \in Forms
  /\ (e.at = "write" /\ ~e.overtaken) => e.read = Existing(e.form.vehicle)

\* Inductive: every write of a lead tells those who have read it.
LeadInv ==
  /\ LeadsFilled
  /\ DOMAIN sync = Syncs /\ DOMAIN save = Savers
  /\ \A p \in Syncs : FreshSync(sync[p])
  /\ \A o \in Savers : FreshSave(save[o])

-----------------------------------------------------------------------------
(* leadLifecycle.js.                                                       *)

LEMMA SpringStatus ==
  ASSUME NEW word, NEW fallback
  PROVE  \/ mapSpringStatus(word, fallback) \in Statuses
            /\ \A other : mapSpringStatus(word, other) = mapSpringStatus(word, fallback)
         \/ \A other : mapSpringStatus(word, other) = other
<1>1. \A known \in DOMAIN SpringWords : SpringWords[known] \in Statuses
  BY DEF SpringWords, Statuses
<1> QED
  BY <1>1 DEF mapSpringStatus

LEMMA InferredStatus ==
  ASSUME NEW trips, NEW weight
  PROVE  inferStatusFromMetrics(trips, weight) \in Statuses
BY DEF inferStatusFromMetrics, Statuses

\* A lead keeps its status unless the word says another, and its executive.
LEMMA Lifecycle ==
  ASSUME NEW incoming, NEW existing, NEW trips, NEW weight, NEW owner
  PROVE  LET life == deriveLifecycleFields(incoming, existing, trips, weight, owner)
         IN  /\ life.status \in Statuses /\ life.executive # None
             /\ existing.status \in Statuses =>
                  \/ life.status = existing.status
                  \/ incoming # None /\ life.status = mapSpringStatus(incoming, None)
             /\ existing.executive # None => life.executive = existing.executive
             /\ DOMAIN life = {"status", "followUp", "executive"}
<1> DEFINE life == deriveLifecycleFields(incoming, existing, trips, weight, owner)
           inferred == inferStatusFromMetrics(trips, weight)
           kept == mapSpringStatus(existing.status, inferred)
<1>1. inferred \in Statuses
  BY InferredStatus
<1> HIDE DEF inferred
<1>2. kept \in Statuses /\ (existing.status \in Statuses => kept = existing.status)
  BY <1>1, SpringStatus DEF mapSpringStatus
<1> HIDE DEF kept
<1>3. /\ life.status = mapSpringStatus(incoming, kept)
      /\ life.executive = inferAssignedExecutive(existing.executive, owner)
      /\ DOMAIN life = {"status", "followUp", "executive"}
  BY DEF deriveLifecycleFields, kept, inferred
<1>4. /\ life.executive # None
      /\ existing.executive # None => life.executive = existing.executive
  BY <1>3, LeadsAssumption DEF inferAssignedExecutive
<1>5. life.status \in Statuses
  BY <1>2, <1>3, SpringStatus
<1>6. life.status = kept \/ life.status = mapSpringStatus(incoming, None)
  BY <1>3, SpringStatus
<1>7. incoming = None => life.status = kept
  BY <1>3, LeadsAssumption DEF mapSpringStatus
<1> QED
  BY <1>2, <1>3, <1>4, <1>5, <1>6, <1>7

-----------------------------------------------------------------------------
(* Writes of a lead.                                                       *)

LEMMA UpsertWrites ==
  ASSUME LeadsFilled, NEW v \in Vehicles, NEW trips, NEW life, Upsert(v, trips, life),
         life.status \in Statuses, life.executive # None
  PROVE  /\ LeadsFilled'
         /\ \A u \in Vehicles \ {v} : leads'[u] = leads[u]
         /\ leads'[v].status = life.status /\ leads'[v].executive = life.executive
<1>1. PICK lead :
        lead = [trips |-> trips, status |-> life.status, executive |-> life.executive,
                followUp |-> IF life.followUp = None THEN Existing(v).followUp ELSE life.followUp]
  OBVIOUS
<1>2. leads' = [leads EXCEPT ![v] = lead]
  BY <1>1 DEF Upsert
<1>3. lead.status = life.status /\ lead.executive = life.executive
  BY <1>1
<1> QED
  BY <1>2, <1>3 DEF LeadsFilled

LEMMA ExistingKept ==
  ASSUME NEW v, leads'[v] = leads[v]
  PROVE  Existing(v)' = Existing(v)
BY DEF Existing

\* Who has read v learns of a write of v; whoever reads another vehicle is not concerned.
LEMMA OvertakenFresh ==
  ASSUME LeadInv, NEW v \in Vehicles, \A u \in Vehicles \ {v} : leads'[u] = leads[u]
  PROVE  /\ \A p \in Syncs : \E f : f = OvertakenSyncs(v)[p] /\ FreshSync(f)'
         /\ \A o \in Savers : \E f : f = OvertakenSaves(v)[o] /\ FreshSave(f)'
<1>1. ASSUME NEW p \in Syncs PROVE \E f : f = OvertakenSyncs(v)[p] /\ FreshSync(f)'
  <2>1. PICK e : e = sync[p] /\ FreshSync(e)
    BY DEF LeadInv
  <2>2. PICK f : f = [e EXCEPT !.overtaken = @ \/ (e.at = "write" /\ e.vehicle = v)]
    OBVIOUS
  <2>3. /\ DOMAIN f = DOMAIN NoSync /\ f.overtaken \in BOOLEAN
        /\ f.at = e.at /\ f.groups = e.groups /\ f.vehicle = e.vehicle /\ f.read = e.read
        /\ ~f.overtaken => ~e.overtaken /\ ~(e.at = "write" /\ e.vehicle = v)
    BY <2>1, <2>2 DEF FreshSync, NoSync
  <2>4. ASSUME f.at = "write", ~f.overtaken PROVE f.read = Existing(f.vehicle)'
    <3>1. f.vehicle \in Vehicles \ {v} /\ f.read = Existing(f.vehicle)
      BY <2>1, <2>3, <2>4 DEF FreshSync
    <3> QED
      BY <3>1, ExistingKept
  <2>5. FreshSync(f)'
    BY <2>1, <2>3, <2>4 DEF FreshSync
  <2>6. f = OvertakenSyncs(v)[p]
    BY <2>1, <2>2 DEF OvertakenSyncs
  <2> QED
    BY <2>5, <2>6
<1>2. ASSUME NEW o \in Savers PROVE \E f : f = OvertakenSaves(v)[o] /\ FreshSave(f)'
  <2>1. PICK e : e = save[o] /\ FreshSave(e)
    BY DEF LeadInv
  <2>2. PICK f : f = [e EXCEPT !.overtaken = @ \/ (e.at = "write" /\ e.form.vehicle = v)]
    OBVIOUS
  <2>3. /\ DOMAIN f = DOMAIN NoSave /\ f.overtaken \in BOOLEAN
        /\ f.at = e.at /\ f.form = e.form /\ f.read = e.read
        /\ ~f.overtaken => ~e.overtaken /\ ~(e.at = "write" /\ e.form.vehicle = v)
    BY <2>1, <2>2 DEF FreshSave, NoSave
  <2>4. ASSUME f.at = "write", ~f.overtaken PROVE f.read = Existing(f.form.vehicle)'
    <3>1. f.form.vehicle \in Vehicles \ {v} /\ f.read = Existing(f.form.vehicle)
      BY <2>1, <2>3, <2>4, LeadsAssumption DEF FreshSave
    <3> QED
      BY <3>1, ExistingKept
  <2>5. FreshSave(f)'
    BY <2>1, <2>3, <2>4 DEF FreshSave
  <2>6. f = OvertakenSaves(v)[o]
    BY <2>1, <2>2 DEF OvertakenSaves
  <2> QED
    BY <2>5, <2>6
<1> QED
  BY <1>1, <1>2

LEMMA FreshNext ==
  ASSUME LeadsFilled', DOMAIN sync' = Syncs, DOMAIN save' = Savers,
         \A p \in Syncs : \E f : f = sync'[p] /\ FreshSync(f)',
         \A o \in Savers : \E f : f = save'[o] /\ FreshSave(f)'
  PROVE  LeadInv'
<1>1. ASSUME NEW p \in Syncs PROVE FreshSync(sync[p])'
  <2>1. PICK f : f = sync'[p] /\ FreshSync(f)'
    OBVIOUS
  <2> QED
    BY <2>1 DEF FreshSync, Existing
<1>2. ASSUME NEW o \in Savers PROVE FreshSave(save[o])'
  <2>1. PICK f : f = save'[o] /\ FreshSave(f)'
    OBVIOUS
  <2> QED
    BY <2>1 DEF FreshSave, Existing
<1> QED
  BY <1>1, <1>2 DEF LeadInv

\* Nothing written: who stays as it is stays fresh.
LEMMA QuietFresh ==
  ASSUME LeadInv, UNCHANGED leads,
         DOMAIN sync' = Syncs, DOMAIN save' = Savers,
         \A p \in Syncs : sync'[p] = sync[p] \/ \E f : f = sync'[p] /\ FreshSync(f),
         \A o \in Savers : save'[o] = save[o] \/ \E f : f = save'[o] /\ FreshSave(f)
  PROVE  LeadInv'
<1>1. \A v : Existing(v)' = Existing(v)
  BY DEF Existing
<1>2. \A f : (FreshSync(f) => FreshSync(f)') /\ (FreshSave(f) => FreshSave(f)')
  BY <1>1 DEF FreshSync, FreshSave
<1>3. \A p \in Syncs : \E f : f = sync'[p] /\ FreshSync(f)
  BY DEF LeadInv
<1>4. \A o \in Savers : \E f : f = save'[o] /\ FreshSave(f)
  BY DEF LeadInv
<1>5. LeadsFilled'
  BY DEF LeadInv, LeadsFilled
<1> QED
  BY <1>2, <1>3, <1>4, <1>5, FreshNext

LEMMA EmptyHandsFresh == FreshSync(NoSync) /\ FreshSave(NoSave)
BY DEF FreshSync, FreshSave, NoSync, NoSave

\* What a write may do to the lead of v: nothing, or what its writer may say.
Keeps(w, v) ==
  \/ Overtaken(w)
  \/ /\ leads'[v].status = leads[v].status \/ Says(w, leads'[v].status)
     /\ leads'[v].executive = leads[v].executive \/ Names(w, leads'[v].executive)

LEMMA SyncWritesStep ==
  ASSUME LeadInv, NEW p \in Syncs, SyncWrites(p)
  PROVE  /\ LeadInv'
         /\ \A v \in Vehicles : leads[v] # None /\ leads'[v] # leads[v] => WritesLead(p, v) /\ Keeps(p, v)
<1>1. PICK v, rows, read : v = sync[p].vehicle /\ rows = Group(p) /\ read = sync[p].read
  OBVIOUS
<1>2. PICK trips, weight, owner :
        trips = Cardinality(rows) /\ weight = WeightOf(rows) /\ owner = OwnerOf(rows)
  OBVIOUS
<1>3. PICK life : life = deriveLifecycleFields(None, read, trips, weight, owner)
  OBVIOUS
<1>4. /\ sync[p].at = "write" /\ Upsert(v, trips, life)
      /\ sync' = [OvertakenSyncs(v) EXCEPT ![p] = [NoSync EXCEPT !.at = "read",
                                                     !.groups = sync[p].groups \ {rows}]]
      /\ save' = OvertakenSaves(v)
  BY <1>1, <1>2, <1>3 DEF SyncWrites
<1>5. v \in Vehicles /\ FreshSync(sync[p])
  BY <1>1, <1>4 DEF LeadInv, FreshSync
<1>6. life.status \in Statuses /\ life.executive # None
  BY <1>3, Lifecycle
<1>7. /\ LeadsFilled' /\ \A u \in Vehicles \ {v} : leads'[u] = leads[u]
      /\ leads'[v].status = life.status /\ leads'[v].executive = life.executive
  BY <1>4, <1>5, <1>6, UpsertWrites DEF LeadInv
<1>8. PICK left : left = [NoSync EXCEPT !.at = "read", !.groups = sync[p].groups \ {rows}]
  OBVIOUS
<1>9. /\ DOMAIN left = DOMAIN NoSync /\ left.at = "read" /\ left.overtaken = FALSE
      /\ left.groups = sync[p].groups \ {rows}
  BY <1>8 DEF NoSync
<1>10. FreshSync(left)'
  BY <1>5, <1>9 DEF FreshSync
<1>11. /\ DOMAIN sync' = Syncs /\ DOMAIN save' = Savers /\ sync'[p] = left
       /\ \A q \in Syncs \ {p} : sync'[q] = OvertakenSyncs(v)[q]
  BY <1>4, <1>8 DEF OvertakenSyncs, OvertakenSaves
<1>12. LeadInv'
  <2>1. \A q \in Syncs : \E f : f = sync'[q] /\ FreshSync(f)'
    BY <1>5, <1>7, <1>10, <1>11, OvertakenFresh
  <2>2. \A o \in Savers : \E f : f = save'[o] /\ FreshSave(f)'
    BY <1>4, <1>5, <1>7, OvertakenFresh
  <2> QED
    BY <1>7, <1>11, <2>1, <2>2, FreshNext
<1>13. ASSUME leads[v] # None PROVE Keeps(p, v)
  <2>1. CASE sync[p].overtaken
    BY <2>1 DEF Keeps, Overtaken
  <2>2. CASE ~sync[p].overtaken
    <3>1. read = Existing(v)
      BY <1>1, <1>4, <1>5, <2>2 DEF FreshSync
    <3>2. read.status = leads[v].status /\ read.executive = leads[v].executive
      BY <1>13, <3>1 DEF Existing
    <3>3. read.status \in Statuses /\ read.executive # None
      BY <1>5, <1>13, <3>2 DEF LeadInv, LeadsFilled
    <3>4. life.status = read.status /\ life.executive = read.executive
      BY <1>3, <3>3, Lifecycle
    <3> QED
      BY <1>7, <3>2, <3>4 DEF Keeps
  <2> QED
    BY <2>1, <2>2
<1>14. WritesLead(p, v)
  BY <1>1, <1>4, <1>9, <1>11 DEF WritesLead
<1> QED
  BY <1>7, <1>12, <1>13, <1>14

LEMMA SaveWritesStep ==
  ASSUME LeadInv, NEW o \in Savers, SaveWrites(o)
  PROVE  /\ LeadInv'
         /\ \A v \in Vehicles : leads[v] # None /\ leads'[v] # leads[v] => WritesLead(o, v) /\ Keeps(o, v)
<1>1. PICK form, read : form = save[o].form /\ read = save[o].read
  OBVIOUS
<1>2. PICK v : v = form.vehicle
  OBVIOUS
<1>3. PICK life : life = deriveLifecycleFields(form.status, read, form.trips, 0, None)
  OBVIOUS
<1>4. PICK full : full = [life EXCEPT !.followUp = IF form.followUp # None THEN form.followUp ELSE @,
                                      !.executive = IF form.executive # None THEN form.executive ELSE @]
  OBVIOUS
<1>5. /\ save[o].at = "write" /\ Upsert(v, form.trips, full)
      /\ sync' = OvertakenSyncs(v) /\ save' = [OvertakenSaves(v) EXCEPT ![o] = NoSave]
  BY <1>1, <1>2, <1>3, <1>4 DEF SaveWrites
<1>6. v \in Vehicles /\ FreshSave(save[o])
  BY <1>1, <1>2, <1>5, LeadsAssumption DEF LeadInv, FreshSave
<1>7. /\ life.status \in Statuses /\ life.executive # None
      /\ DOMAIN life = {"status", "followUp", "executive"}
  BY <1>3, Lifecycle
<1>8. /\ full.status = life.status
      /\ full.executive = IF form.executive # None THEN form.executive ELSE life.executive
  BY <1>4, <1>7
<1>9. /\ LeadsFilled' /\ \A u \in Vehicles \ {v} : leads'[u] = leads[u]
      /\ leads'[v].status = full.status /\ leads'[v].executive = full.executive
  BY <1>5, <1>6, <1>7, <1>8, UpsertWrites DEF LeadInv
<1>10. /\ DOMAIN sync' = Syncs /\ DOMAIN save' = Savers /\ save'[o] = NoSave
       /\ \A s \in Savers \ {o} : save'[s] = OvertakenSaves(v)[s]
  BY <1>5 DEF OvertakenSyncs, OvertakenSaves
<1>11. LeadInv'
  <2>1. \A q \in Syncs : \E f : f = sync'[q] /\ FreshSync(f)'
    BY <1>5, <1>6, <1>9, OvertakenFresh
  <2>2. FreshSave(NoSave)'
    BY DEF FreshSave, NoSave
  <2>3. \A s \in Savers : \E f : f = save'[s] /\ FreshSave(f)'
    BY <1>6, <1>9, <1>10, <2>2, OvertakenFresh
  <2> QED
    BY <1>9, <1>10, <2>1, <2>3, FreshNext
<1>12. o \notin Syncs
  BY LeadsAssumption
<1>13. ASSUME leads[v] # None PROVE Keeps(o, v)
  <2>1. CASE save[o].overtaken
    BY <1>12, <2>1 DEF Keeps, Overtaken
  <2>2. CASE ~save[o].overtaken
    <3>1. read = Existing(v)
      BY <1>1, <1>2, <1>5, <1>6, <2>2 DEF FreshSave
    <3>2. read.status = leads[v].status /\ read.executive = leads[v].executive
      BY <1>13, <3>1 DEF Existing
    <3>3. read.status \in Statuses /\ read.executive # None
      BY <1>6, <1>13, <3>2 DEF LeadInv, LeadsFilled
    <3>4. /\ life.executive = read.executive
          /\ life.status = read.status \/ life.status = mapSpringStatus(form.status, None)
      BY <1>3, <3>3, Lifecycle
    <3>5. leads'[v].status = leads[v].status \/ Says(o, leads'[v].status)
      BY <1>1, <1>8, <1>9, <3>2, <3>4 DEF Says
    <3>6. leads'[v].executive = leads[v].executive \/ Names(o, leads'[v].executive)
      BY <1>1, <1>8, <1>9, <3>2, <3>4 DEF Names
    <3> QED
      BY <3>5, <3>6 DEF Keeps
  <2> QED
    BY <2>1, <2>2
<1>14. WritesLead(o, v)
  BY <1>1, <1>2, <1>5, <1>10 DEF WritesLead, NoSave
<1> QED
  BY <1>9, <1>11, <1>13, <1>14

-----------------------------------------------------------------------------
(* The invariant.                                                          *)

LEMMA LeadInvInit == ScraperInit => LeadInv
BY EmptyHandsFresh DEF ScraperInit, LeadsInit, LeadInv, LeadsFilled

\* One record replaced by a fresh one, and nothing written.
LEMMA OneSyncMoves ==
  ASSUME LeadInv, UNCHANGED <<leads, save>>, NEW p \in Syncs, NEW e,
         sync' = [sync EXCEPT ![p] = e], FreshSync(e)
  PROVE  LeadInv'
BY QuietFresh DEF LeadInv

LEMMA OneSaveMoves ==
  ASSUME LeadInv, UNCHANGED <<leads, sync>>, NEW o \in Savers, NEW e,
         save' = [save EXCEPT ![o] = e], FreshSave(e)
  PROVE  LeadInv'
BY QuietFresh DEF LeadInv

LEMMA SyncGroupsStep ==
  ASSUME LeadInv, NEW p \in Syncs, SyncGroups(p)
  PROVE  LeadInv'
<1>1. PICK e : e = [sync[p] EXCEPT !.at = "read",
                                  !.groups = {RowsOf(v, khanan) : v \in Vehicles} \ {{}}]
  OBVIOUS
<1>2. sync' = [sync EXCEPT ![p] = e]
  BY <1>1 DEF SyncGroups, LeadInv
<1>3. FreshSync(sync[p])
  BY DEF LeadInv
<1>4. /\ DOMAIN e = DOMAIN NoSync /\ e.at = "read" /\ e.overtaken = sync[p].overtaken
      /\ e.groups = {RowsOf(v, khanan) : v \in Vehicles} \ {{}}
  BY <1>1, <1>3 DEF FreshSync, NoSync
<1>5. \A g \in e.groups : g # {} /\ \A row \in g : row.vehicle \in Vehicles
  BY <1>4 DEF RowsOf
<1>6. FreshSync(e)
  BY <1>3, <1>4, <1>5 DEF FreshSync
<1> QED
  BY <1>2, <1>6, OneSyncMoves DEF SyncGroups

LEMMA SyncReadsStep ==
  ASSUME LeadInv, NEW p \in Syncs, SyncReads(p)
  PROVE  LeadInv'
<1>1. FreshSync(sync[p])
  BY DEF LeadInv
<1>2. PICK rows \in sync[p].groups :
        sync' = [sync EXCEPT ![p].at = "write", ![p].vehicle = (CHOOSE row \in rows : TRUE).vehicle,
                             ![p].read = Existing((CHOOSE row \in rows : TRUE).vehicle),
                             ![p].overtaken = FALSE]
  BY DEF SyncReads
<1>3. PICK v : v = (CHOOSE row \in rows : TRUE).vehicle
  OBVIOUS
<1>4. v \in Vehicles
  <2>1. rows # {} /\ \A row \in rows : row.vehicle \in Vehicles
    BY <1>1, <1>2 DEF FreshSync
  <2>2. (CHOOSE row \in rows : TRUE) \in rows
    BY <2>1
  <2> QED
    BY <1>3, <2>1, <2>2
<1>5. PICK e : e = [sync[p] EXCEPT !.at = "write", !.vehicle = v, !.read = Existing(v),
                                  !.overtaken = FALSE]
  OBVIOUS
<1>6. sync' = [sync EXCEPT ![p] = e]
  <2>1. sync' = [sync EXCEPT ![p].at = "write", ![p].vehicle = v, ![p].read = Existing(v),
                             ![p].overtaken = FALSE]
    BY <1>2, <1>3
  <2>2. PICK f : f = sync[p]
    OBVIOUS
  <2>3. e = [f EXCEPT !.at = "write", !.vehicle = v, !.read = Existing(v), !.overtaken = FALSE]
    BY <1>5, <2>2
  <2>4. DOMAIN sync' = DOMAIN sync /\ \A q \in Syncs \ {p} : sync'[q] = sync[q]
    BY <2>1 DEF LeadInv
  <2>5. sync'[p] = e
    BY <2>1, <2>2, <2>3 DEF LeadInv
  <2>6. sync' = [q \in Syncs |-> sync'[q]]
    BY <2>1 DEF LeadInv
  <2> QED
    BY <2>4, <2>5, <2>6 DEF LeadInv
<1>7. /\ DOMAIN e = DOMAIN NoSync /\ e.at = "write" /\ e.vehicle = v /\ e.read = Existing(v)
      /\ e.overtaken = FALSE /\ e.groups = sync[p].groups
  BY <1>1, <1>5 DEF FreshSync, NoSync
<1>8. FreshSync(e)
  BY <1>1, <1>4, <1>7 DEF FreshSync
<1> QED
  BY <1>6, <1>8, OneSyncMoves DEF SyncReads

\* A sync that is asked for starts over.
LEMMA SyncAskedStep ==
  ASSUME LeadInv, NEW p \in Syncs, UNCHANGED <<leads, save>>, sync' = [sync EXCEPT ![p].at = "group"]
  PROVE  LeadInv'
<1>1. PICK e : e = [sync[p] EXCEPT !.at = "group"]
  OBVIOUS
<1>2. FreshSync(sync[p]) /\ sync' = [sync EXCEPT ![p] = e]
  BY <1>1 DEF LeadInv
<1>3. /\ DOMAIN e = DOMAIN NoSync /\ e.at = "group" /\ e.groups = sync[p].groups
      /\ e.overtaken = sync[p].overtaken
  BY <1>1, <1>2 DEF FreshSync, NoSync
<1>4. FreshSync(e)
  BY <1>2, <1>3 DEF FreshSync
<1> QED
  BY <1>2, <1>4, OneSyncMoves

LEMMA SaveReadsStep ==
  ASSUME LeadInv, NEW o \in Savers, NEW form \in Forms, SaveReads(o, form)
  PROVE  LeadInv'
<1>1. PICK e : e = [NoSave EXCEPT !.at = "write", !.form = form, !.read = Existing(form.vehicle)]
  OBVIOUS
<1>2. save' = [save EXCEPT ![o] = e]
  BY <1>1 DEF SaveReads
<1>3. FreshSave(e)
  BY <1>1 DEF FreshSave, NoSave
<1> QED
  BY <1>2, <1>3, OneSaveMoves DEF SaveReads

\* The lead steps that write nothing.
LEMMA QuietLeadStep ==
  ASSUME LeadInv,
         \/ \E p \in Syncs : SyncGroups(p) \/ SyncReads(p) \/ Requested(p)
         \/ \E o \in Savers : (\E form \in Forms : SaveReads(o, form)) \/ SaveFails(o)
  PROVE  LeadInv' /\ UNCHANGED leads
<1>1. ASSUME NEW p \in Syncs, SyncGroups(p) \/ SyncReads(p) PROVE LeadInv' /\ UNCHANGED leads
  BY <1>1, SyncGroupsStep, SyncReadsStep DEF SyncGroups, SyncReads
<1>2. ASSUME NEW p \in Syncs, SyncRequested(p) PROVE LeadInv' /\ UNCHANGED leads
  BY <1>2, SyncAskedStep DEF SyncRequested
<1>3. ASSUME NEW p \in Syncs, SyncAnswered(p) PROVE LeadInv' /\ UNCHANGED leads
  BY <1>3, OneSyncMoves, EmptyHandsFresh DEF SyncAnswered
<1>4. ASSUME NEW o \in Savers, NEW form \in Forms, SaveReads(o, form)
      PROVE  LeadInv' /\ UNCHANGED leads
  BY <1>4, SaveReadsStep DEF SaveReads
<1>5. ASSUME NEW o \in Savers, SaveFails(o) PROVE LeadInv' /\ UNCHANGED leads
  BY <1>5, OneSaveMoves, EmptyHandsFresh DEF SaveFails
<1> QED
  BY <1>1, <1>2, <1>3, <1>4, <1>5 DEF Requested

LEMMA LeadInvQuiet ==
  ASSUME LeadInv, UNCHANGED <<leads, sync, save>>
  PROVE  LeadInv'
BY QuietFresh DEF LeadInv

\* The steps of a run touch the leads only by asking for a sync and by taking it back.
LEMMA RunsStep ==
  ASSUME LeadInv, NEW r \in Runs, Begins(r) \/ RunStep(r)
  PROVE  LeadInv' /\ UNCHANGED leads
<1>1. CASE AsksForSync(r)
  BY <1>1, ScraperAssumption, SyncAskedStep, LeadInvQuiet DEF AsksForSync
<1>2. CASE SyncReturns(r)
  BY <1>2, ScraperAssumption, OneSyncMoves, EmptyHandsFresh DEF SyncReturns
<1>3. CASE Begins(r) \/ StartIsWritten(r) \/ Launches(r) \/ Ends(r)
  BY <1>3, LeadInvQuiet
  DEF Begins, StartIsWritten, Launches, Ends, EndIsWritten, ClosingIsWritten, leadVars
<1>4. CASE Walks(r)
  BY <1>4, LeadInvQuiet
  DEF Walks, OpensPage, SavesPage, SaveOfPageFails, LayerFails, Stopped, leadVars
<1> QED
  BY <1>1, <1>2, <1>3, <1>4 DEF RunStep

LEMMA PollsStep ==
  ASSUME LeadInv, NEW q \in Polls, PollStep(q)
  PROVE  LeadInv' /\ UNCHANGED leads
BY LeadInvQuiet DEF PollStep, PollLoads, PollAnswers, PollBackfills, PollFills, OnlyPoll, leadVars

LEMMA RestartStep ==
  ASSUME LeadInv, Restart
  PROVE  LeadInv' /\ UNCHANGED leads
<1>1. /\ UNCHANGED leads
      /\ sync' = [p \in Syncs |-> NoSync] /\ save' = [o \in Savers |-> NoSave]
  BY DEF Restart
<1>2. /\ \A p \in Syncs : \E f : f = sync'[p] /\ FreshSync(f)
      /\ \A o \in Savers : \E f : f = save'[o] /\ FreshSave(f)
  BY <1>1, EmptyHandsFresh
<1> QED
  BY <1>1, <1>2, QuietFresh

LEMMA LeadInvStep ==
  ASSUME LeadInv, [Next]_vars
  PROVE  /\ LeadInv'
         /\ \A v \in Vehicles : leads[v] # None /\ leads'[v] # leads[v] =>
              \E w \in Syncs \cup Savers : WritesLead(w, v) /\ Keeps(w, v)
<1>1. CASE \E p \in Syncs : SyncWrites(p)
  BY <1>1, SyncWritesStep
<1>2. CASE \E o \in Savers : SaveWrites(o)
  BY <1>2, SaveWritesStep
<1>3. CASE \/ \E p \in Syncs : SyncGroups(p) \/ SyncReads(p) \/ Requested(p)
           \/ \E o \in Savers : (\E form \in Forms : SaveReads(o, form)) \/ SaveFails(o)
  BY <1>3, QuietLeadStep
<1>4. CASE \E r \in Runs : Begins(r) \/ RunStep(r)
  BY <1>4, RunsStep
<1>5. CASE \E q \in Polls : PollStep(q)
  BY <1>5, PollsStep
<1>6. CASE Restart
  BY <1>6, RestartStep
<1>7. CASE requestStop \/ UNCHANGED vars
  BY <1>7, LeadInvQuiet DEF requestStop, vars, leadVars
<1> QED
  BY <1>1, <1>2, <1>3, <1>4, <1>5, <1>6, <1>7 DEF Next, LeadStep, SyncSteps

LEMMA LeadInvAlways == Spec => []LeadInv
<1>1. ScraperInit => LeadInv
  BY LeadInvInit
<1>2. LeadInv /\ [Next]_vars => LeadInv'
  BY LeadInvStep
<1> QED
  BY <1>1, <1>2, PTL DEF Spec

\* A status or an executive changes only when a form names the new one, whatever
\* the trips say by now, unless its writer was overtaken between read and write.
THEOREM LeadsAreKept == Spec => LeadsKept
<1>1. LeadInv /\ [Next]_vars =>
        [\A v \in Vehicles : leads[v] # None /\ leads'[v] # leads[v] =>
           \E w \in Syncs \cup Savers :
             /\ WritesLead(w, v)
             /\ \/ Overtaken(w)
                \/ /\ leads'[v].status = leads[v].status \/ Says(w, leads'[v].status)
                   /\ leads'[v].executive = leads[v].executive \/ Names(w, leads'[v].executive)]_leadVars
  BY LeadInvStep DEF Keeps
<1> QED
  BY <1>1, LeadInvAlways, PTL DEF Spec, LeadsKept

-----------------------------------------------------------------------------
(* The record of a run.                                                    *)

RunSteps == {"idle", "starting", "launch", "walk", "page", "sync", "ending", "closing", "done", "dead"}
Records == [run : Runs \cup {None}, ended : BOOLEAN, success : BOOLEAN \cup {None},
            inserted : Nat, skipped : Nat]
Stats == [run : Runs, ended : BOOLEAN, success : BOOLEAN \cup {None}, inserted : Nat,
          skipped : Nat, errors : BOOLEAN]
Memory == [busy : BOOLEAN, stop : BOOLEAN, syncing : BOOLEAN, stats : Stats \cup {None},
           last : Records \cup {None}]
RunRecords == [at : RunSteps, page : Nat \ {0}, writes : Records \cup {None}]

ScraperShape ==
  /\ mem \in Memory
  /\ stateRow \in Records \cup {None}
  /\ run \in [Runs -> RunRecords]
  /\ \A r \in Runs : RunAt(r, "page") => run[r].page <= Len(Pages[r])
  /\ poll \in [Polls -> [at : {"idle", "backfill", "loaded", "fill"}, read : Records \cup {None}]]
  /\ truth \in [Runs -> Records]

\* What row and memory keep of the figures of a run.
LEMMA RecordedFields ==
  ASSUME NEW R, NEW stats \in [run : R, ended : BOOLEAN, success : BOOLEAN \cup {None},
                              inserted : Nat, skipped : Nat, errors : BOOLEAN]
  PROVE  Recorded(stats) = [run |-> stats.run, ended |-> stats.ended, success |-> stats.success,
                            inserted |-> stats.inserted, skipped |-> stats.skipped]
<1>1. DOMAIN stats \ {"errors"} = {"run", "ended", "success", "inserted", "skipped"}
  OBVIOUS
<1> QED
  BY <1>1 DEF Recorded

LEMMA RecordedTyped ==
  ASSUME NEW stats \in Stats
  PROVE  Recorded(stats) \in Records /\ Recorded(stats).run = stats.run
BY RecordedFields DEF Stats, Records

LEMMA FiguresTyped ==
  ASSUME NEW r \in Runs
  PROVE  /\ Figures(r) \in Stats /\ Figures(r) # None
         /\ Recorded(Figures(r)) = [run |-> r, ended |-> FALSE, success |-> None,
                                    inserted |-> 0, skipped |-> 0]
<1>1. Figures(r) \in Stats
  BY DEF Figures, Stats
<1> QED
  BY <1>1, RecordedFields, ScraperAssumption DEF Figures, Stats

LEMMA BackfilledTyped == Backfilled \in Records /\ Backfilled.run = None
<1>1. Figures(None) \in [run : {None}, ended : BOOLEAN, success : BOOLEAN \cup {None},
                         inserted : Nat, skipped : Nat, errors : BOOLEAN]
  BY DEF Figures
<1>2. Recorded(Figures(None)) = [run |-> None, ended |-> FALSE, success |-> None,
                                 inserted |-> 0, skipped |-> 0]
  BY <1>1, RecordedFields DEF Figures
<1>3. PICK w : w = Recorded(Figures(None))
  OBVIOUS
<1>4. Backfilled = [w EXCEPT !.ended = TRUE, !.success = TRUE]
  BY <1>3 DEF Backfilled
<1>5. w \in Records /\ w.run = None
  BY <1>2, <1>3 DEF Records
<1> QED
  BY <1>4, <1>5 DEF Records

LEMMA LeastNumber ==
  ASSUME NEW S, S \subseteq Nat, S # {}
  PROVE  Min(S) \in S
<1> DEFINE R == {ss \in Nat \X Nat : ss[1] < ss[2]}
<1>1. IsWellFoundedOn(R, Nat)
  BY NatLessThanWellFounded DEF OpToRel
<1>2. PICK x \in S : \A y \in S : ~ (<<y, x>> \in R)
  BY <1>1, WFMin
<1>3. ASSUME NEW y \in S PROVE x <= y
  <2>1. y \in Nat /\ x \in Nat /\ (y < x => <<y, x>> \in R)
    OBVIOUS
  <2> QED
    BY <1>2, <2>1
<1> QED
  BY <1>3 DEF Min

LEMMA BeyondIsPage ==
  ASSUME ScraperShape, NEW r \in Runs, NEW depth
  PROVE  Beyond(r, depth) \in Nat \ {0}
<1>1. run[r].page \in Nat \ {0} /\ Len(Pages[r]) \in Nat
  BY ScraperAssumption DEF ScraperShape, RunRecords
<1> DEFINE later == {i \in run[r].page..Len(Pages[r]) :
                      SubSeq(Pages[r][i].path, 1, depth) # SubSeq(Page(r).path, 1, depth)}
<1>2. later \subseteq Nat /\ \A i \in later : i # 0
  BY <1>1
<1>3. Beyond(r, depth) = IF later = {} THEN Len(Pages[r]) + 1 ELSE Min(later)
  BY DEF Beyond
<1> HIDE DEF later
<1>4. CASE later = {}
  BY <1>1, <1>3, <1>4
<1>5. CASE later # {}
  <2>1. Min(later) \in later
    BY <1>2, <1>5, LeastNumber
  <2> QED
    BY <1>2, <1>3, <1>5, <2>1
<1> QED
  BY <1>4, <1>5

\* The record a run ends with.
Final(stats, success) ==
  [run |-> stats.run, ended |-> TRUE, success |-> success /\ ~stats.errors,
   inserted |-> stats.inserted, skipped |-> stats.skipped]

\* What the end of a run does to memory and to the run, in either mode: it drops out
\* when the figures are gone or taken for ended, or is about to write its final record.
Closes(r, m, success) ==
  /\ mem' \in Memory /\ run' \in [Runs -> RunRecords]
  /\ \A s \in Runs \ {r} : run'[s] = run[s]
  /\ mem'.stats # None => m.stats # None /\ mem'.stats.run = m.stats.run
  /\ \/ /\ run'[r].at = "done" /\ run'[r].writes = run[r].writes /\ mem'.last = m.last
        /\ m.stats = None \/ (m.last # None /\ m.last.run = m.stats.run)
     \/ /\ m.stats \in Stats /\ run'[r].at \in {"ending", "closing"}
        /\ run'[r].at = "ending" => mem'.busy = m.busy
        /\ run'[r].writes = Final(m.stats, success) /\ mem'.last = Final(m.stats, success)

LEMMA FinalTyped ==
  ASSUME NEW stats \in Stats, NEW success \in BOOLEAN
  PROVE  Final(stats, success) \in Records
BY DEF Final, Stats, Records

LEMMA FinalRecorded ==
  ASSUME NEW old \in Stats, NEW success \in BOOLEAN, NEW stats \in Stats, stats.run = old.run,
         stats.ended = TRUE, stats.success = (success /\ ~old.errors),
         stats.inserted = old.inserted, stats.skipped = old.skipped
  PROVE  Recorded(stats) = Final(old, success)
<1>1. Recorded(stats) = [run |-> stats.run, ended |-> stats.ended, success |-> stats.success,
                         inserted |-> stats.inserted, skipped |-> stats.skipped]
  BY RecordedFields DEF Stats
<1> QED
  BY <1>1 DEF Final

LEMMA EndsRunDoes ==
  ASSUME ScraperShape, NEW r \in Runs, NEW m \in Memory, NEW success \in BOOLEAN,
         EndsRun(r, m, success)
  PROVE  Closes(r, m, success)
<1>1. run \in [Runs -> RunRecords]
  BY DEF ScraperShape
<1>2. CASE m.stats = None
  <2>1. run' = [run EXCEPT ![r].at = "done"] /\ mem' = [m EXCEPT !.busy = FALSE]
    BY <1>2 DEF EndsRun, Goes
  <2>2. [run[r] EXCEPT !.at = "done"] \in RunRecords
    BY <1>1 DEF RunRecords, RunSteps
  <2>3. /\ run' \in [Runs -> RunRecords] /\ run'[r].at = "done" /\ run'[r].writes = run[r].writes
        /\ \A s \in Runs \ {r} : run'[s] = run[s]
    BY <1>1, <2>1, <2>2 DEF RunRecords
  <2>4. mem' \in Memory /\ mem'.stats = None /\ mem'.last = m.last
    BY <1>2, <2>1 DEF Memory
  <2> QED
    BY <1>2, <2>3, <2>4 DEF Closes
<1>3. CASE m.stats # None
  <2>1. PICK stats : stats = [m.stats EXCEPT !.ended = TRUE, !.success = success /\ ~m.stats.errors]
    OBVIOUS
  <2>2. m.stats \in Stats
    BY <1>3 DEF Memory
  <2>3. stats \in Stats /\ stats.run = m.stats.run /\ Recorded(stats) = Final(m.stats, success)
    <3>1. PICK old \in Stats : old = m.stats
      BY <2>2
    <3>2. stats = [old EXCEPT !.ended = TRUE, !.success = success /\ ~old.errors]
      BY <2>1, <3>1
    <3>3. /\ stats \in Stats /\ stats.run = old.run /\ stats.ended = TRUE
          /\ stats.success = (success /\ ~old.errors)
          /\ stats.inserted = old.inserted /\ stats.skipped = old.skipped
      BY <3>2 DEF Stats
    <3>4. Recorded(stats) = Final(old, success)
      BY <3>3, FinalRecorded
    <3> QED
      BY <3>1, <3>3, <3>4
  <2>4. mem' = [m EXCEPT !.stats = stats, !.last = Recorded(stats)]
        /\ run' = [run EXCEPT ![r].at = "ending", ![r].writes = Recorded(stats)]
    BY <1>3, <2>1 DEF EndsRun
  <2>5. Final(m.stats, success) \in Records
    BY <2>2, FinalTyped
  <2>6. run' \in [Runs -> RunRecords] /\ \A s \in Runs \ {r} : run'[s] = run[s]
    BY <1>1, <2>3, <2>4, <2>5 DEF RunRecords, RunSteps
  <2>7. mem' \in Memory
    BY <2>3, <2>4, <2>5 DEF Memory
  <2> QED
    BY <1>1, <1>3, <2>2, <2>3, <2>4, <2>6, <2>7 DEF Closes, Memory, RunRecords
<1> QED
  BY <1>2, <1>3

LEMMA FinishedLiveDoes ==
  ASSUME ScraperShape, NEW r \in Runs, NEW m \in Memory, FinishedLive(r, m)
  PROVE  Closes(r, m, TRUE)
<1>1. run \in [Runs -> RunRecords]
  BY DEF ScraperShape
<1>2. CASE m.stats = None \/ (m.last # None /\ m.last.run = m.stats.run)
  <2>1. run' = [run EXCEPT ![r].at = "done"] /\ mem' = [m EXCEPT !.busy = FALSE]
    BY <1>2 DEF FinishedLive, Goes
  <2> QED
    BY <1>1, <1>2, <2>1 DEF Closes, Memory, RunRecords, RunSteps
<1>3. CASE ~(m.stats = None \/ (m.last # None /\ m.last.run = m.stats.run))
  <2>1. PICK stats : stats = [m.stats EXCEPT !.ended = TRUE, !.success = ~m.stats.errors]
    OBVIOUS
  <2>2. m.stats \in Stats
    BY <1>3 DEF Memory
  <2>3. stats \in Stats /\ stats.run = m.stats.run /\ Recorded(stats) = Final(m.stats, TRUE)
    <3>1. PICK old \in Stats : old = m.stats
      BY <2>2
    <3>2. stats = [old EXCEPT !.ended = TRUE, !.success = ~old.errors]
      BY <2>1, <3>1
    <3>3. /\ stats \in Stats /\ stats.run = old.run /\ stats.ended = TRUE
          /\ stats.success = (TRUE /\ ~old.errors)
          /\ stats.inserted = old.inserted /\ stats.skipped = old.skipped
      BY <3>2 DEF Stats
    <3>4. Recorded(stats) = Final(old, TRUE)
      BY <3>3, FinalRecorded
    <3> QED
      BY <3>1, <3>3, <3>4
  <2>4. mem' = [[m EXCEPT !.busy = FALSE] EXCEPT !.stats = stats, !.last = Recorded(stats)]
        /\ run' = [run EXCEPT ![r].at = "closing", ![r].writes = Recorded(stats)]
    BY <1>3, <2>1 DEF FinishedLive
  <2>5. Final(m.stats, TRUE) \in Records
    BY <2>2, FinalTyped
  <2>6. run' \in [Runs -> RunRecords] /\ \A s \in Runs \ {r} : run'[s] = run[s]
    BY <1>1, <2>3, <2>4, <2>5 DEF RunRecords, RunSteps
  <2>7. mem' \in Memory
    BY <2>3, <2>4, <2>5 DEF Memory
  <2> QED
    BY <1>1, <1>3, <2>2, <2>3, <2>4, <2>6, <2>7 DEF Closes, Memory, RunRecords
<1> QED
  BY <1>2, <1>3

LEMMA FinishedDoes ==
  ASSUME ScraperShape, NEW r \in Runs, NEW m \in Memory, Finished(r, m)
  PROVE  Closes(r, m, TRUE)
BY EndsRunDoes, FinishedLiveDoes DEF Finished

-----------------------------------------------------------------------------
(* Types of the service.                                                   *)

LEMMA MemoryKept ==
  ASSUME ScraperShape, NEW m, m = mem
  PROVE  m \in Memory /\ (m.stats # None => m.stats \in Stats)
BY DEF ScraperShape, Memory

LEMMA EndedTyped ==
  ASSUME ScraperShape, NEW r \in Runs, NEW success \in BOOLEAN, Ended(r, success)
  PROVE  truth' \in [Runs -> Records]
<1>1. truth \in [Runs -> Records] /\ truth[r] \in Records
  BY DEF ScraperShape
<1>2. PICK good \in BOOLEAN : good = (success /\ truth[r].success # FALSE)
  OBVIOUS
<1>3. truth' = [truth EXCEPT ![r] = [truth[r] EXCEPT !.ended = TRUE, !.success = good]]
  BY <1>2 DEF Ended
<1>4. [truth[r] EXCEPT !.ended = TRUE, !.success = good] \in Records
  BY <1>1 DEF Records
<1> QED
  BY <1>1, <1>3, <1>4

LEMMA AfterSyncTyped ==
  ASSUME ScraperShape, NEW failed \in BOOLEAN
  PROVE  AfterSync(failed) \in Memory
<1>1. CASE mem.stats = None
  BY <1>1 DEF AfterSync, ScraperShape
<1>2. CASE mem.stats # None
  <2>1. PICK stats : stats = [mem.stats EXCEPT !.errors = @ \/ failed]
    OBVIOUS
  <2>2. mem.stats \in Stats /\ mem \in Memory
    BY <1>2 DEF ScraperShape, Memory
  <2>3. stats \in Stats
    BY <2>1, <2>2 DEF Stats
  <2>4. AfterSync(failed) = [mem EXCEPT !.syncing = FALSE, !.stats = stats]
    BY <1>2, <2>1, <2>2 DEF AfterSync, Memory
  <2> QED
    BY <2>2, <2>3, <2>4 DEF Memory
<1> QED
  BY <1>1, <1>2

LEMMA RowsAreCounted ==
  ASSUME ScraperShape, NEW r \in Runs, RunAt(r, "page"),
         NEW rows \in SUBSET Page(r).rows
  PROVE  Cardinality(rows \ khanan) \in Nat /\ Cardinality(rows \cap khanan) \in Nat
<1>1. IsFiniteSet(Page(r).rows)
  <2>1. Len(Pages[r]) \in Nat /\ DOMAIN Pages[r] = 1..Len(Pages[r])
    BY ScraperAssumption
  <2>2. run[r].page \in 1..Len(Pages[r])
    BY <2>1 DEF ScraperShape, RunRecords
  <2> QED
    BY <2>1, <2>2, ScraperAssumption DEF Page
<1>2. rows \ khanan \in SUBSET Page(r).rows /\ rows \cap khanan \in SUBSET Page(r).rows
  OBVIOUS
<1>3. IsFiniteSet(rows \ khanan) /\ IsFiniteSet(rows \cap khanan)
  BY <1>1, <1>2, FS_Subset
<1> QED
  BY <1>3, FS_CardinalityType

-----------------------------------------------------------------------------
(* RunRecorded is about the last run that began.  Until it is over, the    *)
(* figures in memory are its own and agree with what it did; from then on  *)
(* it carries its record until the row has it.                             *)

Going == {"starting", "launch", "walk", "page", "sync"}

\* Whatever record or figures there are, they are of a run that has begun.
OfBegun(w) == w # None /\ w.run # None => run[w.run].at # "idle"
FiguresBegun ==
  /\ mem.stats # None => run[mem.stats.run].at # "idle"
  /\ OfBegun(mem.last) /\ OfBegun(stateRow)
  /\ \A r \in Runs : OfBegun(run[r].writes)
  /\ \A q \in Polls : OfBegun(poll[q].read)

Unbegun ==
  \A r \in Runs : run[r].at = "idle" => latest # r /\ truth[r] = Recorded(Figures(r))

InMemory(r) ==
  /\ mem.stats # None /\ mem.stats.run = r /\ truth[r].run = r
  /\ mem.stats.inserted = truth[r].inserted /\ mem.stats.skipped = truth[r].skipped
  /\ mem.stats.errors = (truth[r].success = FALSE)
  /\ mem.last # None => mem.last.run # r

\* How far the row tells of a run that nothing came in the way of.
Tells(r) ==
  /\ run[r].at \in Going \cup {"ending"} => mem.busy /\ latest = r
  /\ run[r].at \in Going => InMemory(r)
  /\ run[r].at \in {"ending", "closing"} => run[r].writes = truth[r]
  /\ run[r].at = "done" /\ latest = r => stateRow = truth[r]

RunsTell ==
  \A r \in Runs \ marred :
    /\ latest = r => \A s \in Runs \ {r} : ~InProgress(s)
    /\ Tells(r)

RecordInv == ScraperShape /\ FiguresBegun /\ Unbegun /\ RunsTell

LEMMA RecordInvInit == ScraperInit => RecordInv
<1> SUFFICES ASSUME ScraperInit PROVE RecordInv
  OBVIOUS
<1> USE DEF ScraperInit
<1>1. \A r \in Runs : Recorded(Figures(r)) \in Records
  BY FiguresTyped, RecordedTyped
<1>2. ScraperShape
  BY <1>1 DEF ScraperShape, NewProcess, Memory, NoRun, RunRecords, RunSteps, RunAt
<1>3. FiguresBegun
  BY DEF FiguresBegun, OfBegun, NewProcess, NoRun
<1>4. Unbegun
  BY ScraperAssumption DEF Unbegun
<1>5. RunsTell
  BY ScraperAssumption DEF RunsTell, Tells, Going, NoRun
<1> QED
  BY <1>2, <1>3, <1>4, <1>5 DEF RecordInv

\* One run in progress moves: the others are what they were, and it must still tell.
LEMMA OneRunMoves ==
  ASSUME RecordInv, ScraperShape', NEW r \in Runs, InProgress(r),
         UNCHANGED <<poll, latest>>, marred \subseteq marred',
         \A s \in Runs \ {r} : run'[s] = run[s] /\ truth'[s] = truth[s],
         run'[r].at # "idle",
         mem'.stats # None => mem.stats # None /\ mem'.stats.run = mem.stats.run,
         mem'.last = mem.last \/ OfBegun(mem'.last),
         stateRow' = stateRow \/ stateRow' = run[r].writes,
         run'[r].writes = run[r].writes \/ OfBegun(run'[r].writes),
         r \notin marred' => Tells(r)'
  PROVE  RecordInv'
<1> USE DEF RecordInv
<1>1. \A s \in Runs : run[s].at # "idle" => run'[s].at # "idle"
  OBVIOUS
<1> DEFINE Later(w) == w # None /\ w.run # None => run'[w.run].at # "idle"
<1>2. \A w : w \in Records \cup {None} /\ OfBegun(w) => Later(w)
  BY <1>1 DEF OfBegun, Records
<1>3. FiguresBegun'
  <2>1. mem'.stats # None => run'[mem'.stats.run].at # "idle"
    BY <1>1 DEF FiguresBegun, ScraperShape, Memory, Stats
  <2>2. /\ mem'.last \in Records \cup {None} /\ stateRow' \in Records \cup {None}
        /\ run'[r].writes \in Records \cup {None}
        /\ \A s \in Runs : run[s].writes \in Records \cup {None}
        /\ \A q \in Polls : poll[q].read \in Records \cup {None}
    BY DEF ScraperShape, Memory, RunRecords
  <2>3. OfBegun(mem.last) /\ OfBegun(stateRow) /\ OfBegun(run[r].writes)
    BY DEF FiguresBegun
  <2> HIDE DEF Later
  <2>4. Later(mem'.last) /\ Later(stateRow') /\ Later(run'[r].writes)
    BY <1>2, <2>2, <2>3
  <2>5. \A s \in Runs : Later(run'[s].writes)
    BY <1>2, <2>2, <2>4 DEF FiguresBegun
  <2>6. \A q \in Polls : Later(poll'[q].read)
    BY <1>2, <2>2 DEF FiguresBegun
  <2> QED
    BY <2>1, <2>4, <2>5, <2>6 DEF FiguresBegun, OfBegun, Later
<1>4. Unbegun'
  BY DEF Unbegun
<1>5. RunsTell'
  <2>1. ASSUME NEW s \in Runs \ marred', latest' = s, NEW u \in Runs \ {s} PROVE ~InProgress(u)'
    <3>1. CASE s = r
      BY <2>1, <3>1 DEF RunsTell, InProgress
    <3>2. CASE s # r
      BY <2>1, <3>2 DEF RunsTell
    <3> QED
      BY <3>1, <3>2
  <2>2. ASSUME NEW s \in Runs \ marred', s # r PROVE Tells(s)'
    <3>1. latest # s
      BY <2>2 DEF RunsTell
    <3>2. run'[s] = run[s] /\ truth'[s] = truth[s] /\ Tells(s)
      BY <2>2 DEF RunsTell
    <3> QED
      BY <3>1, <3>2 DEF Tells, Going
  <2> QED
    BY <2>1, <2>2 DEF RunsTell
<1> QED
  BY <1>3, <1>4, <1>5

\* A run ends, its figures being those of m: the fields as they are or after a sync.
LEMMA RunCloses ==
  ASSUME RecordInv, NEW r \in Runs, run[r].at \in Going,
         NEW m \in Memory, NEW success \in BOOLEAN, NEW failed \in BOOLEAN,
         Closes(r, m, success), Ended(r, success /\ ~failed),
         m.last = mem.last, m.busy = mem.busy,
         m.stats # None => mem.stats # None /\ m.stats.run = mem.stats.run,
         mem.stats # None =>
           /\ m.stats # None /\ m.stats.errors = (mem.stats.errors \/ failed)
           /\ m.stats.inserted = mem.stats.inserted /\ m.stats.skipped = mem.stats.skipped,
         UNCHANGED <<stateRow, poll, latest, marred>>
  PROVE  RecordInv'
<1>1. ScraperShape /\ truth' \in [Runs -> Records]
  BY EndedTyped DEF RecordInv
<1>2. InProgress(r) /\ run'[r].at \in {"done", "ending", "closing"}
  BY DEF InProgress, Going, Closes
<1>3. ScraperShape'
  BY <1>1, <1>2 DEF ScraperShape, Closes, RunAt
<1>4. m.stats # None => m.stats \in Stats /\ Final(m.stats, success).run = mem.stats.run
  BY DEF Memory, Final
<1>5. \A s \in Runs \ {r} : run'[s] = run[s] /\ truth'[s] = truth[s]
  BY <1>1 DEF Closes, Ended, ScraperShape
<1>6. mem.stats # None => mem.stats.run \in Runs /\ run[mem.stats.run].at # "idle"
  BY <1>1 DEF RecordInv, FiguresBegun, ScraperShape, Memory, Stats
<1>11. m.stats \in Stats => OfBegun(Final(m.stats, success))
  <2>1. m.stats \in Stats => m.stats # None
    BY ScraperAssumption DEF Stats
  <2> QED
    BY <1>4, <1>6, <2>1 DEF OfBegun
<1>7. mem'.last = mem.last \/ OfBegun(mem'.last)
  BY <1>11 DEF Closes
<1>8. run'[r].writes = run[r].writes \/ OfBegun(run'[r].writes)
  BY <1>11 DEF Closes
<1>9. ASSUME r \notin marred PROVE Tells(r)'
  <2>1. mem.busy /\ latest = r /\ InMemory(r)
    BY <1>9 DEF RecordInv, RunsTell, Tells, Going
  <2>2. /\ m.stats \in Stats /\ run'[r].at \in {"ending", "closing"}
        /\ run'[r].at = "ending" => mem'.busy
        /\ run'[r].writes = Final(m.stats, success)
    BY <1>4, <2>1 DEF InMemory, Closes
  <2>3. Final(m.stats, success) = truth'[r]
    <3>1. /\ truth[r] \in Records /\ truth[r].run = r
          /\ truth'[r] = [truth[r] EXCEPT !.ended = TRUE,
                            !.success = (success /\ ~failed) /\ truth[r].success # FALSE]
      BY <1>1, <2>1 DEF Ended, InMemory, ScraperShape
    <3>2. /\ m.stats.run = r /\ m.stats.inserted = truth[r].inserted
          /\ m.stats.skipped = truth[r].skipped
          /\ m.stats.errors = (truth[r].success = FALSE \/ failed)
      BY <2>1 DEF InMemory
    <3>3. (success /\ ~m.stats.errors) = ((success /\ ~failed) /\ truth[r].success # FALSE)
      BY <3>2
    <3> QED
      BY <3>1, <3>2, <3>3 DEF Final, Records
  <2> QED
    BY <2>1, <2>2, <2>3 DEF Tells, Going
<1>10. mem'.stats # None => mem.stats # None /\ mem'.stats.run = mem.stats.run
  BY DEF Closes
<1> QED
  BY <1>2, <1>3, <1>5, <1>7, <1>8, <1>9, <1>10, OneRunMoves

LEMMA RunGivesUp ==
  ASSUME RecordInv, NEW r \in Runs, run[r].at \in Going, Critical(r),
         UNCHANGED <<stateRow, poll, latest, marred>>
  PROVE  RecordInv'
<1>1. mem \in Memory
  BY DEF RecordInv, ScraperShape
<1>2. Closes(r, mem, FALSE)
  BY <1>1, EndsRunDoes DEF Critical, RecordInv
<1>3. Ended(r, FALSE /\ ~FALSE)
  BY DEF Critical, Ended
<1> HIDE DEF Closes, Ended
<1>4. mem.stats # None => mem.stats.errors = (mem.stats.errors \/ FALSE)
  BY <1>1 DEF Memory, Stats
<1> QED
  BY <1>1, <1>2, <1>3, <1>4, RunCloses

LEMMA RunFinishes ==
  ASSUME RecordInv, NEW r \in Runs, run[r].at \in Going, NEW failed \in BOOLEAN,
         NEW m, m = IF RunAt(r, "sync") THEN AfterSync(failed) ELSE mem,
         ~RunAt(r, "sync") => ~failed,
         Finished(r, m), Ended(r, ~failed), UNCHANGED <<stateRow, poll, latest, marred>>
  PROVE  RecordInv'
<1>1. mem \in Memory /\ m \in Memory /\ ScraperShape
  BY AfterSyncTyped DEF RecordInv, ScraperShape
<1>2. Closes(r, m, TRUE)
  BY <1>1, FinishedDoes
<1>3. Ended(r, TRUE /\ ~failed)
  BY DEF Ended
<1>4. /\ m.last = mem.last /\ m.busy = mem.busy
      /\ m.stats # None => mem.stats # None /\ m.stats.run = mem.stats.run
      /\ mem.stats # None =>
           /\ m.stats # None /\ m.stats.errors = (mem.stats.errors \/ failed)
           /\ m.stats.inserted = mem.stats.inserted /\ m.stats.skipped = mem.stats.skipped
  <2>1. CASE mem.stats = None \/ ~RunAt(r, "sync")
    <3>1. m = mem
      BY <2>1 DEF AfterSync
    <3> QED
      BY <1>1, <2>1, <3>1 DEF Memory, Stats
  <2>2. CASE mem.stats # None /\ RunAt(r, "sync")
    <3>1. PICK stats : stats = [mem.stats EXCEPT !.errors = @ \/ failed]
      OBVIOUS
    <3>2. mem.stats \in Stats
      BY <1>1, <2>2 DEF Memory
    <3>3. m = [mem EXCEPT !.syncing = FALSE, !.stats = stats]
      BY <1>1, <2>2, <3>1, <3>2 DEF AfterSync, Memory
    <3>4. /\ stats \in Stats /\ stats.run = mem.stats.run
          /\ stats.errors = (mem.stats.errors \/ failed)
          /\ stats.inserted = mem.stats.inserted /\ stats.skipped = mem.stats.skipped
      BY <3>1, <3>2 DEF Stats
    <3>5. m.last = mem.last /\ m.busy = mem.busy /\ m.stats = stats
      BY <1>1, <3>3 DEF Memory
    <3>6. m.stats # None
      BY <3>4, <3>5, ScraperAssumption DEF Stats
    <3> QED
      BY <2>2, <3>4, <3>5, <3>6
  <2> QED
    BY <2>1, <2>2
<1> QED
  BY <1>1, <1>2, <1>3, <1>4, RunCloses

-----------------------------------------------------------------------------
(* The steps of a run.                                                     *)

\* A write of the row that fails mars the run, one that succeeds is its record.
LEMMA StartIsWrittenKeeps ==
  ASSUME RecordInv, NEW r \in Runs, StartIsWritten(r)
  PROVE  RecordInv'
<1>1. PICK step \in {"launch", "walk"} : run' = [run EXCEPT ![r].at = step]
  BY DEF StartIsWritten, Goes
<1>2. /\ run[r].at = "starting" /\ UNCHANGED <<mem, poll, truth, latest>>
      /\ stateRow' = run[r].writes \/ stateRow' = stateRow
      /\ marred \subseteq marred'
  BY DEF StartIsWritten, RunAt, RowWritten, Mars
<1>3. ScraperShape
  BY DEF RecordInv
<1>4. /\ run' \in [Runs -> RunRecords] /\ run'[r].at = step /\ run'[r].writes = run[r].writes
      /\ \A s \in Runs \ {r} : run'[s] = run[s]
  BY <1>1, <1>3 DEF ScraperShape, RunRecords, RunSteps
<1>5. ScraperShape'
  <2>1. stateRow' \in Records \cup {None}
    BY <1>2, <1>3 DEF ScraperShape, RunRecords
  <2>2. \A s \in Runs : RunAt(s, "page")' => run'[s].page <= Len(Pages[s])
    BY <1>3, <1>4 DEF ScraperShape, RunAt
  <2> QED
    BY <1>2, <1>3, <1>4, <2>1, <2>2 DEF ScraperShape
<1>6. ASSUME r \notin marred' PROVE Tells(r)'
  <2>1. mem.busy /\ latest = r /\ InMemory(r)
    BY <1>2, <1>6 DEF RecordInv, RunsTell, Tells, Going
  <2> QED
    BY <1>2, <1>4, <2>1 DEF Tells, Going, InMemory
<1> QED
  BY <1>2, <1>4, <1>5, <1>6, OneRunMoves DEF InProgress

LEMMA EndsKeep ==
  ASSUME RecordInv, NEW r \in Runs, Ends(r)
  PROVE  RecordInv'
<1>1. /\ run[r].at \in {"ending", "closing"} /\ run' = [run EXCEPT ![r].at = "done"]
      /\ UNCHANGED <<poll, truth, latest>> /\ marred \subseteq marred'
      /\ \/ stateRow' = run[r].writes
         \/ stateRow' = stateRow /\ r \in marred'
      /\ \/ mem' = [mem EXCEPT !.stats = None, !.busy = FALSE]
         \/ mem' = [mem EXCEPT !.stats = None]
  BY DEF Ends, EndIsWritten, ClosingIsWritten, RunAt, RowWritten, Goes, Mars
<1>2. ScraperShape
  BY DEF RecordInv
<1>3. /\ run' \in [Runs -> RunRecords] /\ run'[r].at = "done" /\ run'[r].writes = run[r].writes
      /\ \A s \in Runs \ {r} : run'[s] = run[s]
  BY <1>1, <1>2 DEF ScraperShape, RunRecords, RunSteps
<1>4. mem' \in Memory /\ mem'.stats = None /\ mem'.last = mem.last
  BY <1>1, <1>2 DEF ScraperShape, Memory
<1>5. ScraperShape'
  BY <1>1, <1>2, <1>3, <1>4 DEF ScraperShape, RunAt, RunRecords
<1>6. ASSUME r \notin marred' PROVE Tells(r)'
  <2>1. run[r].writes = truth[r] /\ stateRow' = run[r].writes
    BY <1>1, <1>6 DEF RecordInv, RunsTell, Tells
  <2> QED
    BY <1>1, <1>3, <2>1 DEF Tells, Going
<1> QED
  BY <1>1, <1>3, <1>4, <1>5, <1>6, OneRunMoves DEF InProgress

\* A step from page to page: the figures in memory and what the run did go together.
LEMMA RunGoesOn ==
  ASSUME RecordInv, NEW r \in Runs, run[r].at \in Going,
         NEW e \in RunRecords, run' = [run EXCEPT ![r] = e],
         e.at \in Going, e.writes = run[r].writes, e.at = "page" => e.page <= Len(Pages[r]),
         NEW did \in Records, truth' = [truth EXCEPT ![r] = did],
         mem' \in Memory, mem'.last = mem.last, mem'.busy = mem.busy,
         mem'.stats # None => mem.stats # None /\ mem'.stats.run = mem.stats.run,
         InMemory(r) => InMemory(r)',
         UNCHANGED <<stateRow, poll, latest, marred>>
  PROVE  RecordInv'
<1>1. ScraperShape
  BY DEF RecordInv
<1>2. /\ run' \in [Runs -> RunRecords] /\ run'[r] = e /\ truth'[r] = did
      /\ truth' \in [Runs -> Records]
      /\ \A s \in Runs \ {r} : run'[s] = run[s] /\ truth'[s] = truth[s]
  BY <1>1 DEF ScraperShape
<1>3. ScraperShape'
  BY <1>1, <1>2 DEF ScraperShape, RunAt
<1>4. ASSUME r \notin marred PROVE Tells(r)'
  <2>1. mem.busy /\ latest = r /\ InMemory(r)
    BY <1>4 DEF RecordInv, RunsTell, Tells, Going
  <2> QED
    BY <1>2, <2>1 DEF Tells, Going
<1> QED
  BY <1>2, <1>3, <1>4, OneRunMoves DEF InProgress, Going

\* The run alone moves.
LEMMA RunWalksOn ==
  ASSUME RecordInv, NEW r \in Runs, run[r].at \in Going,
         NEW e \in RunRecords, run' = [run EXCEPT ![r] = e],
         e.at \in Going, e.writes = run[r].writes, e.at = "page" => e.page <= Len(Pages[r]),
         mem'.stats = mem.stats, mem'.last = mem.last, mem'.busy = mem.busy, mem' \in Memory,
         UNCHANGED <<truth, stateRow, poll, latest, marred>>
  PROVE  RecordInv'
<1>1. PICK did \in Records : did = truth[r] /\ truth' = [truth EXCEPT ![r] = did]
  BY DEF RecordInv, ScraperShape
<1>2. InMemory(r) => InMemory(r)'
  BY DEF InMemory
<1> QED
  BY <1>1, <1>2, RunGoesOn

\* What a run is after it has gone on: a whole record, its figures to write as before.
LEMMA GoesIsWhole ==
  ASSUME ScraperShape, NEW r \in Runs, NEW step \in RunSteps, Goes(r, step)
  PROVE  \E e \in RunRecords : /\ run' = [run EXCEPT ![r] = e] /\ e.at = step
                               /\ e.page = run[r].page /\ e.writes = run[r].writes
<1>1. run \in [Runs -> RunRecords] /\ run' = [run EXCEPT ![r].at = step]
  BY DEF ScraperShape, Goes
<1>2. PICK e : e = [run[r] EXCEPT !.at = step]
  OBVIOUS
<1>3. run' = [run EXCEPT ![r] = e]
  BY <1>1, <1>2
<1>4. run[r] \in RunRecords
  BY <1>1
<1>5. e \in RunRecords /\ e.at = step /\ e.page = run[r].page /\ e.writes = run[r].writes
  BY <1>2, <1>4 DEF RunRecords
<1> QED
  BY <1>3, <1>5

LEMMA TurnsIsWhole ==
  ASSUME ScraperShape, NEW r \in Runs, NEW p \in Nat \ {0},
         \/ run' = [run EXCEPT ![r].at = "walk", ![r].page = p]
         \/ run[r].at = "walk" /\ run' = [run EXCEPT ![r].page = p]
  PROVE  \E e \in RunRecords : /\ run' = [run EXCEPT ![r] = e] /\ e.at = "walk"
                               /\ e.writes = run[r].writes
<1>1. run \in [Runs -> RunRecords]
  BY DEF ScraperShape
<1>2. PICK e : e = [run[r] EXCEPT !.at = "walk", !.page = p]
  OBVIOUS
<1>3. run[r] \in RunRecords
  BY <1>1
<1>4. e \in RunRecords /\ e.at = "walk" /\ e.writes = run[r].writes
  BY <1>2, <1>3 DEF RunRecords, RunSteps
<1>5. CASE run' = [run EXCEPT ![r].at = "walk", ![r].page = p]
  <2>1. run' = [run EXCEPT ![r] = e]
    BY <1>1, <1>2, <1>5
  <2> QED
    BY <1>4, <2>1
<1>6. CASE run[r].at = "walk" /\ run' = [run EXCEPT ![r].page = p]
  <2>1. e = [run[r] EXCEPT !.page = p]
    BY <1>2, <1>3, <1>6 DEF RunRecords
  <2>2. run' = [run EXCEPT ![r] = e]
    BY <1>1, <1>6, <2>1
  <2> QED
    BY <1>4, <2>2
<1> QED
  BY <1>5, <1>6

LEMMA LaunchesKeeps ==
  ASSUME RecordInv, NEW r \in Runs, Launches(r)
  PROVE  RecordInv'
<1>1. run[r].at = "launch" /\ UNCHANGED <<stateRow, poll, latest, marred>>
  BY DEF Launches, RunAt, OtherRunVars
<1>2. CASE Goes(r, "walk") /\ UNCHANGED <<mem, truth>>
  <2>1. PICK e \in RunRecords : /\ run' = [run EXCEPT ![r] = e] /\ e.at = "walk"
                                /\ e.writes = run[r].writes
    BY <1>2, GoesIsWhole DEF RecordInv, RunSteps
  <2>2. mem \in Memory
    BY DEF RecordInv, ScraperShape
  <2> QED
    BY <1>1, <1>2, <2>1, <2>2, RunWalksOn DEF Going
<1>3. CASE Critical(r)
  BY <1>1, <1>3, RunGivesUp DEF Going
<1> QED
  BY <1>2, <1>3 DEF Launches

LEMMA LayerFailsKeeps ==
  ASSUME RecordInv, NEW r \in Runs, LayerFails(r)
  PROVE  RecordInv'
<1>1. run[r].at = "walk" /\ UNCHANGED <<stateRow, poll, latest, marred>>
  BY DEF LayerFails, RunAt, OtherRunVars
<1>2. ASSUME NEW depth, run' = [run EXCEPT ![r].page = Beyond(r, depth)]
      PROVE  \E e \in RunRecords : /\ run' = [run EXCEPT ![r] = e] /\ e.at = "walk"
                                   /\ e.writes = run[r].writes
  <2>1. Beyond(r, depth) \in Nat \ {0}
    BY BeyondIsPage DEF RecordInv
  <2>2. PICK p \in Nat \ {0} : p = Beyond(r, depth)
    BY <2>1
  <2>3. run' = [run EXCEPT ![r].page = p]
    BY <1>2, <2>2
  <2> QED
    BY <1>1, <2>3, TurnsIsWhole DEF RecordInv
<1>3. mem \in Memory
  BY DEF RecordInv, ScraperShape
<1>4. ASSUME NEW depth \in 1..3, run' = [run EXCEPT ![r].page = Beyond(r, depth)],
             UNCHANGED <<mem, truth>>
      PROVE  RecordInv'
  BY <1>1, <1>2, <1>3, <1>4, RunWalksOn DEF Going
<1>5. ASSUME NEW depth \in 1..3, run' = [run EXCEPT ![r].page = Beyond(r, depth)],
             mem' = [mem EXCEPT !.stats = IF @ = None THEN @ ELSE [@ EXCEPT !.errors = TRUE]],
             truth' = [truth EXCEPT ![r].success = FALSE]
      PROVE  RecordInv'
  <2>1. PICK e \in RunRecords : /\ run' = [run EXCEPT ![r] = e] /\ e.at = "walk"
                                /\ e.writes = run[r].writes
    BY <1>2, <1>5
  <2>2. PICK did \in Records : /\ truth' = [truth EXCEPT ![r] = did]
                               /\ did = [truth[r] EXCEPT !.success = FALSE]
    BY <1>5 DEF RecordInv, ScraperShape, Records
  <2>3. PICK stats : stats = IF mem.stats = None THEN None ELSE [mem.stats EXCEPT !.errors = TRUE]
    OBVIOUS
  <2>4. mem' = [mem EXCEPT !.stats = stats]
    BY <1>3, <1>5, <2>3 DEF Memory
  <2>5. mem.stats # None =>
          /\ stats \in Stats /\ stats # None /\ stats.run = mem.stats.run /\ stats.errors
          /\ stats.inserted = mem.stats.inserted /\ stats.skipped = mem.stats.skipped
    BY <1>3, <2>3, ScraperAssumption DEF Memory, Stats
  <2>6. /\ mem' \in Memory /\ mem'.last = mem.last /\ mem'.busy = mem.busy /\ mem'.stats = stats
    BY <1>3, <2>3, <2>4, <2>5 DEF Memory
  <2>7. /\ truth'[r] = did /\ did.success = FALSE /\ did.run = truth[r].run
        /\ did.inserted = truth[r].inserted /\ did.skipped = truth[r].skipped
    BY <2>2 DEF RecordInv, ScraperShape, Records
  <2>8. InMemory(r) => InMemory(r)'
    BY <2>5, <2>6, <2>7 DEF InMemory
  <2> QED
    BY <1>1, <2>1, <2>2, <2>3, <2>5, <2>6, <2>8, RunGoesOn DEF Going
<1>6. CASE Critical(r)
  BY <1>1, <1>6, RunGivesUp DEF Going
<1> QED
  BY <1>4, <1>5, <1>6 DEF LayerFails

LEMMA OpensPageKeeps ==
  ASSUME RecordInv, NEW r \in Runs, OpensPage(r)
  PROVE  RecordInv'
<1>1. /\ run[r].at = "walk" /\ ~Through(r) /\ Goes(r, "page")
      /\ UNCHANGED <<mem, truth, stateRow, poll, latest, marred>>
  BY DEF OpensPage, RunAt, OtherRunVars
<1>2. mem \in Memory
  BY DEF RecordInv, ScraperShape
<1>3. PICK e \in RunRecords : /\ run' = [run EXCEPT ![r] = e] /\ e.at = "page"
                              /\ e.writes = run[r].writes /\ e.page = run[r].page
  BY <1>1, GoesIsWhole DEF RecordInv, RunSteps
<1>4. Len(Pages[r]) \in Nat
  BY ScraperAssumption
<1>5. e.page <= Len(Pages[r])
  BY <1>1, <1>3, <1>4 DEF Through, RunRecords
<1> QED
  BY <1>1, <1>2, <1>3, <1>5, RunWalksOn DEF Going

\* The rows of a page are added to what the run did, and to the figures, if there are any.
LEMMA RecordGrows ==
  ASSUME NEW old \in Records, NEW inserted \in Nat, NEW skipped \in Nat
  PROVE  \E did \in Records :
           /\ did = Counted(old, inserted, skipped)
           /\ did.run = old.run /\ did.success = old.success
           /\ did.inserted = old.inserted + inserted /\ did.skipped = old.skipped + skipped
<1>1. PICK a \in Nat, b \in Nat : a = old.inserted + inserted /\ b = old.skipped + skipped
  BY DEF Records
<1>2. PICK did : did = [old EXCEPT !.inserted = a, !.skipped = b]
  OBVIOUS
<1>3. did = Counted(old, inserted, skipped)
  BY <1>1, <1>2 DEF Counted
<1>4. /\ did \in Records /\ did.run = old.run /\ did.success = old.success
      /\ did.inserted = a /\ did.skipped = b
  BY <1>2 DEF Records
<1> QED
  BY <1>1, <1>3, <1>4

LEMMA FiguresGrow ==
  ASSUME NEW old \in Stats, NEW inserted \in Nat, NEW skipped \in Nat
  PROVE  \E stats \in Stats :
           /\ stats = Counted(old, inserted, skipped)
           /\ stats # None /\ stats.run = old.run /\ stats.errors = old.errors
           /\ stats.inserted = old.inserted + inserted /\ stats.skipped = old.skipped + skipped
<1>1. PICK a \in Nat, b \in Nat : a = old.inserted + inserted /\ b = old.skipped + skipped
  BY DEF Stats
<1>2. PICK stats : stats = [old EXCEPT !.inserted = a, !.skipped = b]
  OBVIOUS
<1>3. stats = Counted(old, inserted, skipped)
  BY <1>1, <1>2 DEF Counted
<1>4. /\ stats \in Stats /\ stats.run = old.run /\ stats.errors = old.errors
      /\ stats.inserted = a /\ stats.skipped = b
  BY <1>2 DEF Stats
<1>5. stats # None
  BY <1>4, ScraperAssumption DEF Stats
<1> QED
  BY <1>1, <1>3, <1>4, <1>5

LEMMA MemoryGrows ==
  ASSUME mem \in Memory, NEW inserted \in Nat, NEW skipped \in Nat,
         mem' = [mem EXCEPT !.stats = IF @ = None THEN @ ELSE Counted(@, inserted, skipped)]
  PROVE  /\ mem' \in Memory /\ mem'.last = mem.last /\ mem'.busy = mem.busy
         /\ mem'.stats # None => mem.stats # None
         /\ mem.stats # None =>
              /\ mem'.stats # None /\ mem'.stats.run = mem.stats.run
              /\ mem'.stats.errors = mem.stats.errors
              /\ mem'.stats.inserted = mem.stats.inserted + inserted
              /\ mem'.stats.skipped = mem.stats.skipped + skipped
<1>1. PICK old : old = mem.stats
  OBVIOUS
<1>2. PICK grown : grown = Counted(old, inserted, skipped)
  OBVIOUS
<1>3. mem' = [mem EXCEPT !.stats = IF old = None THEN old ELSE grown]
  BY <1>1, <1>2
<1>4. old # None =>
        /\ grown \in Stats /\ grown # None /\ grown.run = old.run /\ grown.errors = old.errors
        /\ grown.inserted = old.inserted + inserted /\ grown.skipped = old.skipped + skipped
  BY <1>1, <1>2, FiguresGrow DEF Memory
<1>5. /\ mem' \in Memory /\ mem'.last = mem.last /\ mem'.busy = mem.busy
      /\ mem'.stats = IF old = None THEN old ELSE grown
  BY <1>1, <1>3, <1>4 DEF Memory
<1> QED
  BY <1>1, <1>4, <1>5

LEMMA SavesPageKeeps ==
  ASSUME RecordInv, NEW r \in Runs, SavesPage(r)
  PROVE  RecordInv'
<1>1. /\ run[r].at = "page" /\ UNCHANGED <<stateRow, poll, latest, marred>>
      /\ run' = [run EXCEPT ![r].at = "walk", ![r].page = @ + 1]
  BY DEF SavesPage, RunAt, OtherRunVars
<1>2. PICK rows \in SUBSET Page(r).rows : InsertsRows(r, rows)
  BY DEF SavesPage
<1>3. PICK inserted \in Nat, skipped \in Nat :
        inserted = Cardinality(rows \ khanan) /\ skipped = Cardinality(rows \cap khanan)
  BY <1>1, RowsAreCounted DEF RecordInv, RunAt
<1>4. /\ mem' = [mem EXCEPT !.stats = IF @ = None THEN @ ELSE Counted(@, inserted, skipped)]
      /\ truth' = [truth EXCEPT ![r] = Counted(@, inserted, skipped)]
  BY <1>2, <1>3 DEF InsertsRows
<1>5. mem \in Memory /\ truth \in [Runs -> Records] /\ run \in [Runs -> RunRecords]
  BY DEF RecordInv, ScraperShape
<1>6. PICK e \in RunRecords : /\ run' = [run EXCEPT ![r] = e] /\ e.at = "walk"
                              /\ e.writes = run[r].writes
  <2>1. PICK p \in Nat \ {0} : p = run[r].page + 1
    BY <1>5 DEF RunRecords
  <2>2. run' = [run EXCEPT ![r].at = "walk", ![r].page = p]
    BY <1>1, <1>5, <2>1
  <2> QED
    BY <2>2, TurnsIsWhole DEF RecordInv
<1>7. PICK did \in Records :
        /\ truth' = [truth EXCEPT ![r] = did]
        /\ did.run = truth[r].run /\ did.success = truth[r].success
        /\ did.inserted = truth[r].inserted + inserted /\ did.skipped = truth[r].skipped + skipped
  <2>1. PICK old \in Records : old = truth[r]
    BY <1>5
  <2>2. PICK did \in Records :
          /\ did = Counted(old, inserted, skipped)
          /\ did.run = old.run /\ did.success = old.success
          /\ did.inserted = old.inserted + inserted /\ did.skipped = old.skipped + skipped
    BY RecordGrows
  <2>3. truth' = [truth EXCEPT ![r] = did]
    BY <1>4, <2>1, <2>2
  <2> QED
    BY <2>1, <2>2, <2>3
<1>8. /\ mem' \in Memory /\ mem'.last = mem.last /\ mem'.busy = mem.busy
      /\ mem'.stats # None => mem.stats # None
      /\ mem.stats # None =>
           /\ mem'.stats # None /\ mem'.stats.run = mem.stats.run
           /\ mem'.stats.errors = mem.stats.errors
           /\ mem'.stats.inserted = mem.stats.inserted + inserted
           /\ mem'.stats.skipped = mem.stats.skipped + skipped
  BY <1>4, <1>5, MemoryGrows
<1>9. InMemory(r) => InMemory(r)'
  <2>1. truth'[r] = did
    BY <1>5, <1>7
  <2> QED
    BY <1>7, <1>8, <2>1 DEF InMemory
<1> QED
  BY <1>1, <1>6, <1>7, <1>8, <1>9, RunGoesOn DEF Going
LEMMA SaveOfPageFailsKeeps ==
  ASSUME RecordInv, NEW r \in Runs, SaveOfPageFails(r)
  PROVE  RecordInv'
<1>1. run[r].at = "page" /\ UNCHANGED <<truth, stateRow, poll, latest>>
  BY DEF SaveOfPageFails, RunAt, OtherRunVars
<1>2. ScraperShape /\ mem \in Memory
  BY DEF RecordInv, ScraperShape
<1>3. CASE Live(r)
  <2>1. /\ run' = [run EXCEPT ![r].at = "walk", ![r].page = Beyond(r, 3)]
        /\ UNCHANGED <<mem, marred>>
    BY <1>3 DEF SaveOfPageFails
  <2>2. PICK p \in Nat \ {0} : p = Beyond(r, 3)
    BY <1>2, BeyondIsPage
  <2>3. run' = [run EXCEPT ![r].at = "walk", ![r].page = p]
    BY <2>1, <2>2
  <2>4. PICK e \in RunRecords : /\ run' = [run EXCEPT ![r] = e] /\ e.at = "walk"
                                /\ e.writes = run[r].writes
    BY <1>2, <2>3, TurnsIsWhole
  <2> QED
    BY <1>1, <1>2, <2>1, <2>4, RunWalksOn DEF Going
<1>4. CASE ~Live(r)
  <2>1. Goes(r, "done") /\ mem' = [mem EXCEPT !.busy = FALSE] /\ marred' = marred \cup {r}
    BY <1>4 DEF SaveOfPageFails, Mars
  <2>2. PICK e \in RunRecords : /\ run' = [run EXCEPT ![r] = e] /\ e.at = "done"
                                /\ e.writes = run[r].writes
    BY <1>2, <2>1, GoesIsWhole DEF RunSteps
  <2>3. /\ run' \in [Runs -> RunRecords] /\ run'[r] = e
        /\ \A s \in Runs \ {r} : run'[s] = run[s]
    BY <1>2, <2>2 DEF ScraperShape
  <2>4. mem' \in Memory /\ mem'.stats = mem.stats /\ mem'.last = mem.last
    BY <1>2, <2>1 DEF Memory
  <2>5. ScraperShape'
    BY <1>1, <1>2, <2>2, <2>3, <2>4 DEF ScraperShape, RunAt
  <2> QED
    BY <1>1, <2>1, <2>2, <2>3, <2>4, <2>5, OneRunMoves DEF InProgress
<1> QED
  BY <1>3, <1>4

LEMMA StoppedKeeps ==
  ASSUME RecordInv, NEW r \in Runs, Stopped(r)
  PROVE  RecordInv'
<1>1. run[r].at = "walk" /\ Critical(r) /\ UNCHANGED <<stateRow, poll, latest, marred>>
  BY DEF Stopped, RunAt, OtherRunVars
<1> QED
  BY <1>1, RunGivesUp DEF Going

LEMMA AsksForSyncKeeps ==
  ASSUME RecordInv, NEW r \in Runs, AsksForSync(r)
  PROVE  RecordInv'
<1>1. run[r].at = "walk" /\ UNCHANGED <<stateRow, poll, latest, marred>>
  BY DEF AsksForSync, RunAt, OtherRunVars
<1>2. ScraperShape /\ mem \in Memory
  BY DEF RecordInv, ScraperShape
<1>3. CASE mem.stats # None /\ AutoSyncEnabled /\ ~mem.syncing
  <2>1. mem' = [mem EXCEPT !.syncing = TRUE] /\ Goes(r, "sync") /\ UNCHANGED truth
    BY <1>3 DEF AsksForSync
  <2>2. PICK e \in RunRecords : /\ run' = [run EXCEPT ![r] = e] /\ e.at = "sync"
                                /\ e.writes = run[r].writes
    BY <1>2, <2>1, GoesIsWhole DEF RunSteps
  <2>3. /\ mem' \in Memory /\ mem'.stats = mem.stats /\ mem'.last = mem.last
        /\ mem'.busy = mem.busy
    BY <1>2, <2>1 DEF Memory
  <2> QED
    BY <1>1, <2>1, <2>2, <2>3, RunWalksOn DEF Going
<1>4. CASE ~(mem.stats # None /\ AutoSyncEnabled /\ ~mem.syncing)
  <2>1. Finished(r, mem) /\ Ended(r, TRUE) /\ ~RunAt(r, "sync")
    BY <1>1, <1>4 DEF AsksForSync, RunAt
  <2>2. Ended(r, ~FALSE)
    BY <2>1 DEF Ended
  <2> QED
    BY <1>1, <2>1, <2>2, RunFinishes DEF Going
<1> QED
  BY <1>3, <1>4

LEMMA SyncReturnsKeeps ==
  ASSUME RecordInv, NEW r \in Runs, SyncReturns(r)
  PROVE  RecordInv'
<1>1. RunAt(r, "sync") /\ UNCHANGED <<stateRow, poll, latest, marred>>
  BY DEF SyncReturns, OtherRunVars
<1>2. PICK failed \in BOOLEAN : Finished(r, AfterSync(failed)) /\ Ended(r, ~failed)
  BY DEF SyncReturns, SyncIsDone
<1> QED
  BY <1>1, <1>2, RunFinishes DEF Going, RunAt

-----------------------------------------------------------------------------
(* What else moves the service: starts, polls, stops and restarts.         *)

\* A run that begins while none goes on starts with figures of its own.
LEMMA BeginsKeeps ==
  ASSUME RecordInv, NEW r \in Runs, Begins(r)
  PROVE  RecordInv'
<1>1. /\ run[r].at = "idle" /\ latest' = r /\ UNCHANGED <<stateRow, poll, truth>>
      /\ mem' = [mem EXCEPT !.busy = TRUE, !.stop = FALSE, !.stats = Figures(r)]
      /\ run' = [run EXCEPT ![r].at = "starting", ![r].writes = Recorded(Figures(r))]
      /\ ~mem.busy /\ marred \subseteq marred'
      /\ r \notin marred' => \A s \in Runs : ~InProgress(s)
  BY DEF Begins, RunAt, Mars
<1>2. ScraperShape
  BY DEF RecordInv
<1>3. PICK figures \in Stats : figures = Figures(r) /\ figures # None
  BY FiguresTyped
<1>4. PICK begun \in Records :
        /\ begun = Recorded(Figures(r)) /\ begun.run = r /\ begun.success = None
        /\ begun.inserted = 0 /\ begun.skipped = 0
  BY <1>3, RecordedTyped, FiguresTyped
<1>5. /\ figures.run = r /\ figures.inserted = 0 /\ figures.skipped = 0 /\ figures.errors = FALSE
  BY <1>3 DEF Figures
<1>6. /\ mem' \in Memory /\ mem'.busy = TRUE /\ mem'.stats = figures /\ mem'.last = mem.last
  BY <1>1, <1>2, <1>3 DEF ScraperShape, Memory
<1>7. /\ run' \in [Runs -> RunRecords] /\ run'[r].at = "starting" /\ run'[r].writes = begun
      /\ \A s \in Runs \ {r} : run'[s] = run[s]
  <2>1. PICK e : e = [run[r] EXCEPT !.at = "starting", !.writes = begun]
    OBVIOUS
  <2>2. run' = [run EXCEPT ![r] = e]
    BY <1>1, <1>2, <1>4, <2>1 DEF ScraperShape
  <2>3. run[r] \in RunRecords
    BY <1>2 DEF ScraperShape
  <2>4. e \in RunRecords /\ e.at = "starting" /\ e.writes = begun
    BY <2>1, <2>3 DEF RunRecords, RunSteps
  <2> QED
    BY <1>2, <2>2, <2>4 DEF ScraperShape
<1>8. ScraperShape'
  BY <1>1, <1>2, <1>6, <1>7 DEF ScraperShape, RunAt
<1>9. \A s \in Runs : run[s].at # "idle" => run'[s].at # "idle"
  BY <1>7
<1>10. FiguresBegun'
  <2>1. FiguresBegun /\ r \in Runs /\ run'[r].at # "idle"
    BY <1>7 DEF RecordInv
  <2>2. \A w \in Records \cup {None} : OfBegun(w) => OfBegun(w)'
    BY <1>9 DEF OfBegun, Records
  <2>3. /\ mem.last \in Records \cup {None} /\ stateRow \in Records \cup {None}
        /\ \A s \in Runs : run[s].writes \in Records \cup {None}
        /\ \A q \in Polls : poll[q].read \in Records \cup {None}
    BY <1>2 DEF ScraperShape, Memory, RunRecords
  <2>4. OfBegun(mem.last)' /\ OfBegun(stateRow)' /\ \A q \in Polls : OfBegun(poll[q].read)'
    BY <1>1, <1>6, <2>1, <2>2, <2>3 DEF FiguresBegun
  <2>5. \A s \in Runs : OfBegun(run[s].writes)'
    <3>1. \A s \in Runs \ {r} : OfBegun(run[s].writes)'
      BY <1>7, <2>1, <2>2, <2>3 DEF FiguresBegun
    <3>2. OfBegun(run[r].writes)'
      BY <1>4, <1>7, <2>1 DEF OfBegun
    <3> QED
      BY <3>1, <3>2
  <2> QED
    BY <1>5, <1>6, <2>1, <2>4, <2>5 DEF FiguresBegun
<1>11. Unbegun'
  BY <1>1, <1>7 DEF RecordInv, Unbegun
<1>12. ASSUME NEW s \in Runs \ marred'
       PROVE  (latest = s => \A u \in Runs \ {s} : ~InProgress(u))' /\ Tells(s)'
  <2>1. CASE s = r
    <3>1. \A u \in Runs \ {s} : ~InProgress(u)'
      BY <1>1, <1>7, <1>12, <2>1 DEF InProgress
    <3>2. truth'[r] = begun
      BY <1>1, <1>4 DEF RecordInv, Unbegun
    <3>3. mem.last # None => mem.last.run # r
      BY <1>1, ScraperAssumption DEF RecordInv, FiguresBegun, OfBegun
    <3>4. None # FALSE
      BY ScraperAssumption
    <3>5. InMemory(r)'
      BY <1>3, <1>4, <1>5, <1>6, <3>2, <3>3, <3>4 DEF InMemory
    <3> QED
      BY <1>1, <1>6, <1>7, <2>1, <3>1, <3>5 DEF Tells
  <2>2. CASE s # r
    <3>1. run'[s] = run[s] /\ Tells(s) /\ latest' # s
      BY <1>1, <1>7, <1>12, <2>2 DEF RecordInv, RunsTell
    <3>2. run[s].at \notin Going \cup {"ending"}
      BY <1>1, <3>1 DEF Tells
    <3> QED
      BY <1>1, <3>1, <3>2 DEF Tells
  <2> QED
    BY <2>1, <2>2
<1>13. RunsTell'
  BY <1>12 DEF RunsTell
<1> QED
  BY <1>8, <1>10, <1>11, <1>13 DEF RecordInv

\* The runs stand still while memory, row or polls take up a record.
LEMMA RunsStand ==
  ASSUME RecordInv, ScraperShape', UNCHANGED <<run, truth, latest>>, marred \subseteq marred',
         mem'.stats = mem.stats, mem'.busy = mem.busy,
         mem'.last = mem.last \/
           (OfBegun(mem'.last)
              /\ \A r \in Runs : InProgress(r) => r \in marred' \/ mem'.last.run # r),
         stateRow' = stateRow \/ (OfBegun(stateRow') /\ Runs \subseteq marred'),
         \A q \in Polls : OfBegun(poll'[q].read)
  PROVE  RecordInv'
<1>1. FiguresBegun'
  BY DEF RecordInv, FiguresBegun, OfBegun
<1>2. Unbegun'
  BY DEF RecordInv, Unbegun
<1>3. ASSUME NEW r \in Runs \ marred'
      PROVE  (latest = r => \A s \in Runs \ {r} : ~InProgress(s))' /\ Tells(r)'
  <2>1. Tells(r) /\ (latest = r => \A s \in Runs \ {r} : ~InProgress(s)) /\ stateRow' = stateRow
    BY <1>3 DEF RecordInv, RunsTell
  <2>2. run[r].at \in Going => mem'.last = mem.last \/ mem'.last.run # r
    BY <1>3 DEF Going, InProgress
  <2>3. run[r].at \in Going => InMemory(r)'
    BY <2>1, <2>2 DEF Tells, InMemory
  <2> QED
    BY <2>1, <2>3 DEF Tells, InProgress
<1> QED
  BY <1>1, <1>2, <1>3 DEF RecordInv, RunsTell

LEMMA StopKeeps ==
  ASSUME RecordInv, requestStop
  PROVE  RecordInv'
<1>1. /\ mem' = [mem EXCEPT !.stop = TRUE]
      /\ UNCHANGED <<run, truth, latest, marred, stateRow, poll>>
  BY DEF requestStop
<1>2. ScraperShape /\ FiguresBegun
  BY DEF RecordInv
<1>3. /\ mem' \in Memory /\ mem'.stats = mem.stats /\ mem'.busy = mem.busy
      /\ mem'.last = mem.last
  BY <1>1, <1>2 DEF ScraperShape, Memory
<1>4. ScraperShape'
  BY <1>1, <1>2, <1>3 DEF ScraperShape, RunAt
<1>5. \A q \in Polls : OfBegun(poll'[q].read)
  BY <1>1, <1>2 DEF FiguresBegun
<1> QED
  BY <1>1, <1>3, <1>4, <1>5, RunsStand

\* A poll that puts a record into memory mars the runs in progress, one that writes the
\* row mars them all.
LEMMA PollKeeps ==
  ASSUME RecordInv, NEW q \in Polls, PollStep(q)
  PROVE  RecordInv'
<1>1. ScraperShape /\ FiguresBegun /\ mem \in Memory
  BY DEF RecordInv, ScraperShape
<1>2. UNCHANGED <<run, truth, latest>>
  BY DEF PollStep, PollLoads, PollAnswers, PollBackfills, PollFills, OnlyPoll
<1>3. PICK begun : begun = Backfilled /\ begun \in Records /\ OfBegun(begun)
  BY BackfilledTyped DEF OfBegun
<1>4. PICK step \in {"idle", "backfill", "loaded", "fill"}, read \in Records \cup {None} :
        Polled(q, step, read) /\ OfBegun(read)
  BY <1>1 DEF PollStep, PollLoads, PollAnswers, PollBackfills, PollFills, ScraperShape,
              FiguresBegun, OfBegun
<1>5. /\ poll' \in [Polls -> [at : {"idle", "backfill", "loaded", "fill"},
                             read : Records \cup {None}]]
      /\ \A p \in Polls : OfBegun(poll'[p].read)
  <2>1. PICK e \in [at : {"idle", "backfill", "loaded", "fill"}, read : Records \cup {None}] :
          poll' = [poll EXCEPT ![q] = e] /\ e.read = read
    <3>1. PICK e : e = [at |-> step, read |-> read]
      OBVIOUS
    <3>2. poll' = [poll EXCEPT ![q] = e]
      BY <1>4, <3>1 DEF Polled
    <3>3. /\ e \in [at : {"idle", "backfill", "loaded", "fill"}, read : Records \cup {None}]
          /\ e.read = read
      BY <3>1
    <3> QED
      BY <3>2, <3>3
  <2> QED
    BY <1>1, <1>4, <2>1 DEF ScraperShape, FiguresBegun
<1>6. /\ mem' \in Memory /\ mem'.stats = mem.stats /\ mem'.busy = mem.busy
      /\ marred \subseteq marred'
      /\ mem'.last = mem.last \/
           (OfBegun(mem'.last)
              /\ \A r \in Runs : InProgress(r) => r \in marred' \/ mem'.last.run # r)
      /\ stateRow' \in Records \cup {None}
      /\ stateRow' = stateRow \/ (OfBegun(stateRow') /\ Runs \subseteq marred')
  <2>1. CASE PollLoads(q)
    BY <1>1, <2>1 DEF PollLoads, ScraperShape
  <2>2. CASE PollAnswers(q)
    <3>1. PICK w \in Records \cup {None} : w = poll[q].read /\ OfBegun(w)
      BY <1>1 DEF ScraperShape, FiguresBegun
    <3>2. /\ mem' = [mem EXCEPT !.last = w] /\ stateRow' = stateRow
          /\ marred' = marred \cup {r \in Runs : InProgress(r)}
      BY <2>2, <3>1 DEF PollAnswers, Mars
    <3> QED
      BY <1>1, <3>1, <3>2 DEF ScraperShape, Memory
  <2>3. CASE PollBackfills(q)
    <3>1. CASE khanan = {}
      BY <1>1, <2>3, <3>1 DEF PollBackfills, ScraperShape
    <3>2. CASE khanan # {}
      <4>1. mem' = [mem EXCEPT !.last = begun] /\ UNCHANGED <<stateRow, marred>>
        BY <1>3, <2>3, <3>2 DEF PollBackfills
      <4>2. \A r \in Runs : begun.run # r
        BY <1>3, BackfilledTyped, ScraperAssumption
      <4> QED
        BY <1>1, <1>3, <4>1, <4>2 DEF ScraperShape, Memory
    <3> QED
      BY <3>1, <3>2
  <2>4. CASE PollFills(q)
    BY <1>1, <1>3, <2>4 DEF PollFills, ScraperShape, Mars
  <2> QED
    BY <2>1, <2>2, <2>3, <2>4 DEF PollStep
<1>7. ScraperShape'
  BY <1>1, <1>2, <1>5, <1>6 DEF ScraperShape, RunAt
<1> QED
  BY <1>2, <1>5, <1>6, <1>7, RunsStand

\* A restart ends whatever went on; the row is what it was.
LEMMA RestartKeeps ==
  ASSUME RecordInv, Restart
  PROVE  RecordInv'
<1>1. ScraperShape /\ FiguresBegun /\ Unbegun /\ RunsTell
  BY DEF RecordInv
<1>2. PICK dead : dead = [NoRun EXCEPT !.at = "dead"]
  OBVIOUS
<1>3. dead \in RunRecords /\ dead.at = "dead" /\ dead.writes = None
  BY <1>2 DEF NoRun, RunRecords, RunSteps
<1>4. /\ run' = [r \in Runs |-> IF InProgress(r) THEN dead ELSE run[r]]
      /\ mem' = NewProcess /\ poll' = [q \in Polls |-> [at |-> "idle", read |-> None]]
      /\ UNCHANGED <<stateRow, truth, marred, latest>>
  BY <1>2 DEF Restart
<1>5. /\ run' \in [Runs -> RunRecords]
      /\ \A r \in Runs : run'[r] = dead \/ (run'[r] = run[r] /\ ~InProgress(r))
      /\ \A r \in Runs : run'[r] = dead => run[r].at # "idle"
  BY <1>1, <1>3, <1>4 DEF ScraperShape, InProgress
<1>6. ScraperShape'
  <2>1. mem' \in Memory
    BY <1>4 DEF NewProcess, Memory
  <2>2. \A r \in Runs : RunAt(r, "page")' => run'[r].page <= Len(Pages[r])
    BY <1>1, <1>3, <1>5 DEF ScraperShape, RunAt
  <2> QED
    BY <1>1, <1>4, <1>5, <2>1, <2>2 DEF ScraperShape
<1>7. \A r \in Runs : run[r].at # "idle" => run'[r].at # "idle"
  BY <1>3, <1>5
<1>8. FiguresBegun'
  <2>1. mem'.stats = None /\ mem'.last = None
    BY <1>4 DEF NewProcess
  <2>2. \A w \in Records \cup {None} : OfBegun(w) /\ w # None /\ w.run # None => run'[w.run].at # "idle"
    BY <1>7 DEF OfBegun, Records
  <2>3. stateRow # None /\ stateRow.run # None => run'[stateRow.run].at # "idle"
    BY <1>1, <2>2 DEF ScraperShape, FiguresBegun
  <2>4. ASSUME NEW r \in Runs PROVE OfBegun(run[r].writes)'
    BY <1>1, <1>3, <1>5, <2>2 DEF ScraperShape, RunRecords, FiguresBegun, OfBegun
  <2> QED
    BY <1>4, <2>1, <2>3, <2>4 DEF FiguresBegun, OfBegun
<1>9. Unbegun'
  BY <1>1, <1>3, <1>4, <1>5 DEF Unbegun
<1>10. RunsTell'
  BY <1>1, <1>3, <1>4, <1>5 DEF RunsTell, Tells, Going, InProgress
<1> QED
  BY <1>6, <1>8, <1>9, <1>10 DEF RecordInv

LEMMA RecordInvStep == RecordInv /\ [Next]_vars => RecordInv'
<1> SUFFICES ASSUME RecordInv, [Next]_vars PROVE RecordInv'
  OBVIOUS
<1>1. ASSUME NEW r \in Runs, Begins(r) PROVE RecordInv'
  BY <1>1, BeginsKeeps
<1>2. ASSUME NEW r \in Runs, RunStep(r) PROVE RecordInv'
  BY <1>2, StartIsWrittenKeeps, LaunchesKeeps, OpensPageKeeps, SavesPageKeeps,
     SaveOfPageFailsKeeps, LayerFailsKeeps, StoppedKeeps, AsksForSyncKeeps, SyncReturnsKeeps,
     EndsKeep DEF RunStep, Walks
<1>3. ASSUME NEW q \in Polls, PollStep(q) PROVE RecordInv'
  BY <1>3, PollKeeps
<1>4. CASE requestStop
  BY <1>4, StopKeeps
<1>5. CASE Restart
  BY <1>5, RestartKeeps
<1>6. CASE UNCHANGED runVars
  BY <1>6 DEF runVars, RecordInv, ScraperShape, RunAt, FiguresBegun, OfBegun, Unbegun, RunsTell,
              Tells, InMemory, InProgress
<1> QED
  BY <1>1, <1>2, <1>3, <1>4, <1>5, <1>6 DEF Next, vars

LEMMA RecordInvAlways == Spec => []RecordInv
BY RecordInvInit, RecordInvStep, PTL DEF Spec

\* Whatever the pages, the runs and the polls, the row of a run that is over and that
\* nothing came in the way of tells what the run did.
THEOREM RunsAreRecorded == Spec => []RunRecorded
<1>1. RecordInv => RunRecorded
  BY DEF RecordInv, RunsTell, Tells, RunRecorded, RunAt
<1> QED
  BY <1>1, RecordInvAlways, PTL
=============================================================================
