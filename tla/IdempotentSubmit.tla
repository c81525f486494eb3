--------------------------- MODULE IdempotentSubmit ---------------------------
(***************************************************************************)
(* What an Idempotency-Key promises the clients of POST /scrape-jobs: a    *)
(* key names at most one job, and every accepted request is answered with  *)
(* the job of its key, or with a job of its own when it has none.          *)
(***************************************************************************)
CONSTANTS Requests, NoJob,
          NoKey, KeyOf   \* KeyOf[r]: the key of the request, NoKey for none

VARIABLES rows,      \* the jobs that exist, named by the requests they are made for
          accepted   \* accepted[r]: the job the answer names, NoJob before

submitVars == <<rows, accepted>>

\* The two requests ask for the same job.
SameJob(r, s) == r = s \/ (KeyOf[r] # NoKey /\ KeyOf[r] = KeyOf[s])

SubmitInit == rows = {} /\ accepted = [r \in Requests |-> NoJob]

Insert(r) ==
  /\ \A s \in rows : ~SameJob(r, s)
  /\ rows' = rows \cup {r}
  /\ UNCHANGED accepted

Accept(r) ==
  /\ accepted[r] = NoJob
  /\ \E s \in rows : SameJob(r, s) /\ accepted' = [accepted EXCEPT ![r] = s]
  /\ UNCHANGED rows

SubmitNext == \E r \in Requests : Insert(r) \/ Accept(r)

SubmitSpec == SubmitInit /\ [][SubmitNext]_submitVars
=============================================================================
