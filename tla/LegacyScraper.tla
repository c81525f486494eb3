---------------------------- MODULE LegacyScraper ----------------------------
(***************************************************************************)
(* BrowserAutomationService: one process-wide object that runs a scrape of *)
(* the portal, date by date and page by page, keeps the figures of the run *)
(* in memory and in one row of the database, syncs the leads at the end of *)
(* a run, and answers status polls and stop requests meanwhile.            *)
(***************************************************************************)
EXTENDS VehicleLeads, Sequences

CONSTANTS Runs, Mode,         \* Mode[r]: "live" or "local"
          Pages,              \* Pages[r]: its result pages in order, [path, rows]
          Polls, AutoSync,    \* AutoSync: the sync process of the service
          AutoSyncEnabled,    \* SCRAPE_AUTO_SYNC_VEHICLES, off unless set
          MaxRestarts

\* None is no run, no answer and no record of figures; the pages of a run are a list.
ASSUME ScraperAssumption ==
  /\ AutoSync \in Syncs /\ AutoSyncEnabled \in BOOLEAN
  /\ None \notin Runs /\ None \notin BOOLEAN
  /\ None \notin [run : Runs, ended : BOOLEAN, success : BOOLEAN \cup {None}, inserted : Nat,
                 skipped : Nat, errors : BOOLEAN]
  /\ \A r \in Runs : /\ Pages[r] \in Seq({Pages[r][i] : i \in DOMAIN Pages[r]})
                     /\ \A i \in DOMAIN Pages[r] : IsFiniteSet(Pages[r][i].rows)

VARIABLES mem,       \* the fields of the service
          stateRow,  \* the row of scraper_run_state, or None
          run,       \* run -> its next step, page and the figures it is writing
          poll,      \* status poll -> its next step and what it has read
          restarts,
          truth,     \* ghost: run -> what it really did
          marred,    \* ghost: runs whose record something has come in the way of
          latest     \* ghost: the last run that began

runVars == <<mem, stateRow, run, poll, restarts, truth, marred, latest>>

Live(r) == Mode[r] = "live"
NewProcess == [busy |-> FALSE, stop |-> FALSE, syncing |-> FALSE, stats |-> None, last |-> None]
Figures(r) == [run |-> r, ended |-> FALSE, success |-> None, inserted |-> 0, skipped |-> 0,
               errors |-> FALSE]
\* What persistCurrentRunState and loadLastRunFromDb carry between row and memory.
Recorded(stats) == [f \in DOMAIN stats \ {"errors"} |-> stats[f]]
Backfilled == [Recorded(Figures(None)) EXCEPT !.ended = TRUE, !.success = TRUE]

NoRun == [at |-> "idle", page |-> 1, writes |-> None]

ScraperInit ==
  /\ LeadsInit
  /\ mem = NewProcess /\ stateRow = None /\ restarts = 0
  /\ run = [r \in Runs |-> NoRun]
  /\ poll = [q \in Polls |-> [at |-> "idle", read |-> None]]
  /\ truth = [r \in Runs |-> Recorded(Figures(r))]
  /\ marred = {} /\ latest = None

RunAt(r, step) == run[r].at = step
Goes(r, step) == run' = [run EXCEPT ![r].at = step]
InProgress(r) == run[r].at \notin {"idle", "done", "dead"}
Mars(rs) == marred' = marred \cup rs
OtherRunVars == UNCHANGED <<stateRow, poll, restarts, latest>>

-----------------------------------------------------------------------------
(* The course of a run: scheduledScrapingTask. *)

\* A start while another run is busy returns at once (no step).
Begins(r) ==
  /\ RunAt(r, "idle") /\ ~mem.busy
  /\ mem' = [mem EXCEPT !.busy = TRUE, !.stop = FALSE, !.stats = Figures(r)]
  /\ run' = [run EXCEPT ![r].at = "starting", ![r].writes = Recorded(Figures(r))]
  /\ latest' = r
  /\ Mars(IF \E s \in Runs : InProgress(s) THEN {r} ELSE {})
  /\ UNCHANGED <<leadVars, stateRow, poll, restarts, truth>> /\ NoFault

\* An error of the write is logged and forgotten.
RowWritten(r) ==
  \/ stateRow' = run[r].writes /\ NoFault /\ UNCHANGED marred
  \/ UNCHANGED stateRow /\ Fault /\ Mars({r})

StartIsWritten(r) ==
  /\ RunAt(r, "starting")
  /\ RowWritten(r)
  /\ Goes(r, IF Live(r) THEN "launch" ELSE "walk")
  /\ UNCHANGED <<leadVars, mem, poll, restarts, truth, latest>>

\* endRun, on the fields m: nothing without figures; a run with errors is no success.
EndsRun(r, m, success) ==
  LET stats == [m.stats EXCEPT !.ended = TRUE, !.success = success /\ ~m.stats.errors]
  IN  IF m.stats = None THEN Goes(r, "done") /\ mem' = [m EXCEPT !.busy = FALSE]
      ELSE /\ mem' = [m EXCEPT !.stats = stats, !.last = Recorded(stats)]
           /\ run' = [run EXCEPT ![r].at = "ending", ![r].writes = Recorded(stats)]

Ended(r, success) ==
  truth' = [truth EXCEPT ![r].ended = TRUE, ![r].success = success /\ truth[r].success # FALSE]

EndIsWritten(r) ==
  /\ RunAt(r, "ending")
  /\ RowWritten(r)
  /\ mem' = [mem EXCEPT !.stats = None, !.busy = FALSE]
  /\ Goes(r, "done")
  /\ UNCHANGED <<leadVars, poll, restarts, truth, latest>>

\* Mutation: the errors of the run are forgotten.
FinishedWell(r, m) ==
  LET stats == [m.stats EXCEPT !.ended = TRUE, !.success = TRUE]
      free == [m EXCEPT !.busy = FALSE]
  IN  IF m.stats = None \/ (m.last # None /\ m.last.run = m.stats.run)
      THEN Goes(r, "done") /\ mem' = free
      ELSE /\ mem' = [free EXCEPT !.stats = stats, !.last = Recorded(stats)]
           /\ run' = [run EXCEPT ![r].at = "closing", ![r].writes = Recorded(stats)]

\* The finally of a live run: not busy any more, and then the end of a run not ended yet.
\* A last summary that began when the run did is taken for the run's own.
FinishedLive(r, m) ==
  LET stats == [m.stats EXCEPT !.ended = TRUE, !.success = ~m.stats.errors]
      free == [m EXCEPT !.busy = FALSE]
  IN  IF m.stats = None \/ (m.last # None /\ m.last.run = m.stats.run)
      THEN Goes(r, "done") /\ mem' = free
      ELSE /\ mem' = [free EXCEPT !.stats = stats, !.last = Recorded(stats)]
           /\ run' = [run EXCEPT ![r].at = "closing", ![r].writes = Recorded(stats)]

\* The figures are dropped, whosever they are by now.
ClosingIsWritten(r) ==
  /\ RunAt(r, "closing")
  /\ RowWritten(r)
  /\ mem' = [mem EXCEPT !.stats = None]
  /\ Goes(r, "done")
  /\ UNCHANGED <<leadVars, poll, restarts, truth, latest>>

Critical(r) == EndsRun(r, mem, FALSE) /\ Ended(r, FALSE)

Launches(r) ==
  /\ RunAt(r, "launch")
  /\ \/ Goes(r, "walk") /\ NoFault /\ UNCHANGED <<mem, truth>>
     \/ Critical(r) /\ Fault
  /\ UNCHANGED <<leadVars, marred>> /\ OtherRunVars

-----------------------------------------------------------------------------
(* The pages: runLocalScraping, processDateIteration and the layers. *)

Page(r) == Pages[r][run[r].page]
Through(r) == run[r].page > Len(Pages[r])

\* The next page that does not share the first depth anchors of this one.
Beyond(r, depth) ==
  LET later == {i \in run[r].page..Len(Pages[r]) :
                  SubSeq(Pages[r][i].path, 1, depth) # SubSeq(Page(r).path, 1, depth)}
  IN  IF later = {} THEN Len(Pages[r]) + 1 ELSE Min(later)

\* The page is the first below its anchor of this depth.
Opens(r, depth) ==
  \A i \in 1..(run[r].page - 1) : SubSeq(Pages[r][i].path, 1, depth) # SubSeq(Page(r).path, 1, depth)

\* An error is caught one loop above the page that failed: for a date it is an error of
\* the run, in the layers below it is only logged, and the loop goes on with the next
\* anchor.  No browser or no first page for a date: the run is over.
LayerFails(r) ==
  /\ RunAt(r, "walk") /\ Live(r) /\ ~Through(r) /\ ~mem.stop /\ Fault
  /\ \/ \E depth \in 1..3 :
          /\ Opens(r, depth + 1)
          /\ run' = [run EXCEPT ![r].page = Beyond(r, depth)]
          /\ IF depth = 1
             THEN /\ mem' = [mem EXCEPT !.stats = IF @ = None THEN @ ELSE [@ EXCEPT !.errors = TRUE]]
                  /\ truth' = [truth EXCEPT ![r].success = FALSE]
             ELSE UNCHANGED <<mem, truth>>
     \/ Opens(r, 1) /\ Critical(r)
  /\ UNCHANGED <<leadVars, marred>> /\ OtherRunVars

OpensPage(r) ==
  /\ RunAt(r, "walk") /\ ~Through(r) /\ ~mem.stop
  /\ Goes(r, "page")
  /\ UNCHANGED <<leadVars, mem, truth, marred>> /\ OtherRunVars /\ NoFault

Counted(figures, inserted, skipped) ==
  [figures EXCEPT !.inserted = @ + inserted, !.skipped = @ + skipped]

\* insertKhananBatch: rows that are there already are skipped.  A stop cuts the rows of
\* the open page short.
InsertsRows(r, rows) ==
  LET new == rows \ khanan
      inserted == Cardinality(new)
      skipped == Cardinality(rows \cap khanan)
  IN  /\ khanan' = khanan \cup new
      /\ mem' = [mem EXCEPT !.stats = IF @ = None THEN @ ELSE Counted(@, inserted, skipped)]
      /\ truth' = [truth EXCEPT ![r] = Counted(@, inserted, skipped)]

SavesPage(r) ==
  /\ RunAt(r, "page")
  /\ \E rows \in IF mem.stop /\ Live(r) THEN SUBSET Page(r).rows ELSE {Page(r).rows} :
       InsertsRows(r, rows)
  /\ run' = [run EXCEPT ![r].at = "walk", ![r].page = @ + 1]
  /\ UNCHANGED <<leads, sync, save, marred>> /\ OtherRunVars /\ NoFault

\* Mutation: the local run has no finally.
SaveOfPageThrows(r) ==
  /\ RunAt(r, "page") /\ Fault
  /\ IF Live(r)
     THEN run' = [run EXCEPT ![r].at = "walk", ![r].page = Beyond(r, 3)] /\ UNCHANGED <<mem, marred>>
     ELSE Goes(r, "done") /\ UNCHANGED mem /\ Mars({r})
  /\ UNCHANGED <<leadVars, truth>> /\ OtherRunVars

\* A statement fails in both attempts at a page: the third layer is left for the
\* next one.  In local mode nothing catches it, and nothing ends the run.
SaveOfPageFails(r) ==
  /\ RunAt(r, "page") /\ Fault
  /\ IF Live(r)
     THEN run' = [run EXCEPT ![r].at = "walk", ![r].page = Beyond(r, 3)] /\ UNCHANGED <<mem, marred>>
     ELSE Goes(r, "done") /\ mem' = [mem EXCEPT !.busy = FALSE] /\ Mars({r})
  /\ UNCHANGED <<leadVars, truth>> /\ OtherRunVars

Stopped(r) ==
  /\ RunAt(r, "walk") /\ mem.stop
  /\ Critical(r)
  /\ UNCHANGED <<leadVars, marred>> /\ OtherRunVars /\ NoFault

-----------------------------------------------------------------------------
(* The end of a run that was not stopped: maybeAutoSyncVehicleSummaries. *)

Finished(r, m) == IF Live(r) THEN FinishedLive(r, m) ELSE EndsRun(r, m, TRUE)

\* maybeAutoSyncVehicleSummaries: without figures, switched off, or already running,
\* it returns at once.
AsksForSync(r) ==
  /\ RunAt(r, "walk") /\ Through(r) /\ ~mem.stop
  /\ IF mem.stats # None /\ AutoSyncEnabled /\ ~mem.syncing
     THEN /\ sync' = [sync EXCEPT ![AutoSync].at = "group"]
          /\ mem' = [mem EXCEPT !.syncing = TRUE]
          /\ Goes(r, "sync")
          /\ UNCHANGED truth
     ELSE Finished(r, mem) /\ Ended(r, TRUE) /\ UNCHANGED sync
  /\ UNCHANGED <<khanan, leads, save, marred>> /\ OtherRunVars /\ NoFault

\* A failed sync is an error of the run.  When the figures are gone, every line that
\* mentions them throws, the one before the flag is cleared included.
AfterSync(failed) ==
  IF mem.stats = None THEN mem
  ELSE [mem EXCEPT !.syncing = FALSE, !.stats.errors = @ \/ failed]

SyncReturns(r) ==
  /\ RunAt(r, "sync")
  /\ LET failed == ~SyncIsDone(AutoSync)
     IN  /\ IF failed THEN Fault ELSE NoFault
         /\ Finished(r, AfterSync(failed))
         /\ Ended(r, ~failed)
  /\ sync' = [sync EXCEPT ![AutoSync] = NoSync]
  /\ UNCHANGED <<khanan, leads, save, marred>> /\ OtherRunVars

-----------------------------------------------------------------------------
(* Requests and restarts while a run goes on. *)

\* Acknowledged whenever a run is busy, also when the pages are done.
requestStop ==
  /\ mem.busy /\ ~mem.stop
  /\ mem' = [mem EXCEPT !.stop = TRUE]
  /\ UNCHANGED <<leadVars, stateRow, run, poll, restarts, truth, marred, latest>> /\ NoFault

PollAt(q, step) == poll[q].at = step
Polled(q, step, read) == poll' = [poll EXCEPT ![q] = [at |-> step, read |-> read]]
OnlyPoll == UNCHANGED <<leadVars, run, restarts, truth, latest>>

\* getRunSummary: with a summary in memory it is answered at once (no step).
PollLoads(q) ==
  /\ PollAt(q, "idle") /\ mem.last = None
  /\ \/ NoFault /\ Polled(q, IF stateRow = None THEN "backfill" ELSE "loaded", stateRow)
     \/ Fault /\ Polled(q, "backfill", None)
  /\ UNCHANGED <<mem, stateRow, marred>> /\ OnlyPoll

\* The row may be that of the run in progress, or of one that has ended meanwhile.
PollAnswers(q) ==
  /\ PollAt(q, "loaded")
  /\ mem' = [mem EXCEPT !.last = poll[q].read]
  /\ Mars({r \in Runs : InProgress(r)})
  /\ Polled(q, "idle", None)
  /\ UNCHANGED stateRow /\ OnlyPoll /\ NoFault

\* No row: the newest row of khanan_data, if there is one, stands for the last run.
PollBackfills(q) ==
  /\ PollAt(q, "backfill")
  /\ IF khanan = {} THEN Polled(q, "idle", None) /\ UNCHANGED mem
     ELSE Polled(q, "fill", None) /\ mem' = [mem EXCEPT !.last = Backfilled]
  /\ UNCHANGED <<stateRow, marred>> /\ OnlyPoll /\ NoFault

PollFills(q) ==
  /\ PollAt(q, "fill")
  /\ \/ stateRow' = Backfilled /\ NoFault /\ Mars(Runs)
     \/ UNCHANGED <<stateRow, marred>> /\ Fault
  /\ Polled(q, "idle", None)
  /\ UNCHANGED mem /\ OnlyPoll

\* The process dies and starts again: only the database is left.
Restart ==
  /\ restarts < MaxRestarts
  /\ restarts' = restarts + 1
  /\ mem' = NewProcess
  /\ run' = [r \in Runs |-> IF InProgress(r) THEN [NoRun EXCEPT !.at = "dead"] ELSE run[r]]
  /\ poll' = [q \in Polls |-> [at |-> "idle", read |-> None]]
  /\ sync' = [p \in Syncs |-> NoSync]
  /\ save' = [o \in Savers |-> NoSave]
  /\ UNCHANGED <<khanan, leads, stateRow, truth, marred, latest>> /\ NoFault

-----------------------------------------------------------------------------

Ends(r) == EndIsWritten(r) \/ ClosingIsWritten(r)
Walks(r) == OpensPage(r) \/ SavesPage(r) \/ SaveOfPageFails(r) \/ LayerFails(r) \/ Stopped(r)
RunStep(r) == StartIsWritten(r) \/ Launches(r) \/ Walks(r) \/ AsksForSync(r) \/ SyncReturns(r) \/ Ends(r)

Requested(p) == (SyncRequested(p) \/ SyncAnswered(p)) /\ p # AutoSync
LeadStep ==
  \/ \E p \in Syncs : SyncSteps(p) \/ Requested(p)
  \/ \E o \in Savers : (\E form \in Forms : SaveReads(o, form)) \/ SaveWrites(o) \/ SaveFails(o)
PollStep(q) == PollLoads(q) \/ PollAnswers(q) \/ PollBackfills(q) \/ PollFills(q)

vars == <<leadVars, dbFaults, runVars>>

Next ==
  \/ \E r \in Runs : Begins(r) \/ RunStep(r)
  \/ \E q \in Polls : PollStep(q)
  \/ requestStop \/ Restart
  \/ LeadStep /\ UNCHANGED runVars

Spec == ScraperInit /\ [][Next]_vars

\* Statements and pages end, one way or the other.
Fairness ==
  /\ \A r \in Runs : WF_vars(RunStep(r))
  /\ WF_vars(SyncSteps(AutoSync) /\ UNCHANGED runVars)

FairSpec == Spec /\ Fairness

-----------------------------------------------------------------------------

\* A run that is over is the one the row tells of, with its own figures and its own
\* outcome, unless a status poll loaded the row while it ran, another run was still
\* closing when it began, a write failed, or the process died.
RunRecorded ==
  \A r \in Runs \ marred : run[r].at = "done" /\ latest = r => stateRow = truth[r]

\* Whatever fails and whoever asks, no run keeps the scraper busy for ever.
RunsEnd == <>[]~mem.busy
=============================================================================
