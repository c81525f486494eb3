------------------------------ MODULE JobStream ------------------------------
(***************************************************************************)
(* GET /api/v1/scrape-jobs/:id/stream for one viewer: startStream and      *)
(* stopStream of the scrape console on one side, the handler and its       *)
(* overlapping ticks, which share lastEventId, on the other.               *)
(***************************************************************************)
EXTENDS JobTable

CONSTANTS Polls,      \* ticks of the stream that may be under way at a time
          PageSize    \* take: 100

VARIABLES viewer,       \* the console: off, on, or gone after its abort
          stream,       \* the handler: none, first (its first tick), polling, closed
          watched,      \* the job of the stream
          poll,         \* poll[p]: where the tick stands and the event ids it has read
          lastEventId,  \* shared by the ticks
          written       \* ids of the events written to the response

streamVars == <<viewer, stream, watched, poll, lastEventId, written>>

ASSUME PageAssumption == PageSize \in Nat \ {0}

NoPoll == [at |-> "idle", after |-> 0, page |-> {}]

StreamTypeOK ==
  /\ viewer \in {"off", "on", "gone"}
  /\ stream \in {"none", "first", "polling", "closed"}
  /\ watched \in Requests \cup {NoJob}
  /\ poll \in [Polls -> [at : {"idle", "query", "deliver", "status"}, after : Nat,
                         page : SUBSET DOMAIN events]]
  /\ lastEventId \in 0..Len(events)
  /\ written \subseteq DOMAIN events

StreamInit ==
  /\ viewer = "off" /\ stream = "none" /\ watched = NoJob
  /\ poll = [p \in Polls |-> NoPoll]
  /\ lastEventId = 0 /\ written = {}

Issue(p) == poll' = [poll EXCEPT ![p] = [at |-> "query", after |-> lastEventId, page |-> {}]]
PollGoes(p, at) == poll' = [poll EXCEPT ![p].at = at]
PollEnds(p) == poll' = [poll EXCEPT ![p] = NoPoll]

\* startStream on a job the console knows: the row is read, the snapshot written
\* and the first tick called.
Open(j, p) ==
  /\ up /\ viewer = "off" /\ j \in Rows
  /\ viewer' = "on" /\ stream' = "first" /\ watched' = j
  /\ Issue(p)
  /\ UNCHANGED <<lastEventId, written>>

\* The interval fires: a tick begins, with the cursor of this moment.
PollStarts(p) ==
  /\ stream = "polling" /\ poll[p].at = "idle"
  /\ Issue(p)
  /\ UNCHANGED <<viewer, stream, watched, lastEventId, written>>

\* The database runs the query.
Query(p) ==
  /\ poll[p].at = "query"
  /\ LET newer == {i \in EventsOf(watched) : i > poll[p].after}
         page == {i \in newer : Cardinality({k \in newer : k <= i}) <= PageSize}
     IN  poll' = [poll EXCEPT ![p] = [@ EXCEPT !.at = "deliver", !.page = page]]
  /\ UNCHANGED <<viewer, stream, watched, lastEventId, written>>

\* The first tick is over: timers and the listeners of the disconnect are set.
AfterTick == stream' = IF stream = "first" THEN "polling" ELSE stream

Last(page) == CHOOSE i \in page : \A k \in page : k <= i

\* Mutation: the cursor is one ahead.
DeliverAhead(p) ==
  /\ poll[p].at = "deliver"
  /\ written' = written \cup poll[p].page
  /\ IF poll[p].page = {}
     THEN PollEnds(p) /\ AfterTick /\ UNCHANGED lastEventId
     ELSE PollGoes(p, "status") /\ lastEventId' = Last(poll[p].page) + 1 /\ UNCHANGED stream
  /\ UNCHANGED <<viewer, watched>>

\* Mutation: the cursor skips to the newest event there is.
DeliverAndSkip(p) ==
  /\ poll[p].at = "deliver"
  /\ written' = written \cup poll[p].page
  /\ IF poll[p].page = {}
     THEN PollEnds(p) /\ AfterTick /\ UNCHANGED lastEventId
     ELSE PollGoes(p, "status") /\ lastEventId' = Len(events) /\ UNCHANGED stream
  /\ UNCHANGED <<viewer, watched>>

\* The rows arrive and are written one by one, lastEventId follows; the status is
\* read again when there were any.
Deliver(p) ==
  /\ poll[p].at = "deliver"
  /\ written' = written \cup poll[p].page
  /\ IF poll[p].page = {}
     THEN PollEnds(p) /\ AfterTick /\ UNCHANGED lastEventId
     ELSE PollGoes(p, "status") /\ lastEventId' = Last(poll[p].page) /\ UNCHANGED stream
  /\ UNCHANGED <<viewer, watched>>

\* The second snapshot is written, or an error line: the tick ends alike.
Snapshot(p) ==
  /\ poll[p].at = "status"
  /\ PollEnds(p) /\ AfterTick
  /\ UNCHANGED <<viewer, watched, lastEventId, written>>

\* Mutation: an error ends the timers.
PollFailsForGood(p) ==
  /\ poll[p].at \in {"query", "deliver"}
  /\ Breaks
  /\ PollEnds(p) /\ stream' = "closed"
  /\ UNCHANGED <<viewer, watched, lastEventId, written>>

\* A query fails: an error line is written, the stream stays.
PollFails(p) ==
  /\ poll[p].at \in {"query", "deliver"}
  /\ Breaks
  /\ PollEnds(p) /\ AfterTick
  /\ UNCHANGED <<viewer, watched, lastEventId, written>>

\* stopStream, or the console goes away.  cleanup runs when its listeners are set.
Disconnect ==
  /\ viewer = "on"
  /\ viewer' = "gone"
  /\ stream' = IF stream = "polling" THEN "closed" ELSE stream
  /\ UNCHANGED <<watched, poll, lastEventId, written>>

PollStep(p) == Query(p) \/ Deliver(p) \/ Snapshot(p)

StreamLost ==
  /\ viewer' = IF viewer = "on" THEN "gone" ELSE viewer
  /\ stream' = IF stream = "none" THEN "none" ELSE "closed"
  /\ poll' = [p \in Polls |-> NoPoll]
  /\ UNCHANGED <<watched, lastEventId, written>>

\* Every event of the job up to the cursor was written to the response: what a
\* tick left out no later tick would read.  Ticks overlap, answer in any order and
\* may take the cursor back, which repeats events but must not skip one.
NoGap == \A i \in EventsOf(watched) : i <= lastEventId => i \in written
=============================================================================
