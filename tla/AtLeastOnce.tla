----------------------------- MODULE AtLeastOnce -----------------------------
(***************************************************************************)
(* What the background queue promises to the code that dispatches to it    *)
(* (app/queue/contracts.ts:5-13): a job is run at least once before it     *)
(* leaves the table, and once it has left it does not come back.  A handler *)
(* may run any number of times, and a job may be parked as failed and put  *)
(* back by staff.  "Only ever a failed one" is thrown away by hand         *)
(* (app/controllers/admin/job_controller.ts:41-43), and only by somebody   *)
(* who found it failed; the one exception has an action of its own,        *)
(* DiscardOvertaken.                                                       *)
(***************************************************************************)
CONSTANTS Jobs, Staff, None

VARIABLES
  place,      \* place[j]: where job j is
  ran,        \* the jobs a handler has finished at least once
  open        \* open[s]: the job s found parked and is about to throw away

Places == {"new", "queued", "parked", "done", "discarded"}

Init ==
  /\ place = [j \in Jobs |-> "new"]
  /\ ran = {}
  /\ open = [s \in Staff |-> None]

Move(j, from, to) ==
  /\ place[j] = from
  /\ place' = [place EXCEPT ![j] = to]

\* A job enters the queue once.
Put(j) == Move(j, "new", "queued") /\ UNCHANGED <<ran, open>>

\* A handler finishes.  Redelivery means this can happen again at any time
\* after the first delivery, even when the job has already left the queue.
Run(j) ==
  /\ place[j] # "new"
  /\ ran' = ran \cup {j}
  /\ UNCHANGED <<place, open>>

\* A job leaves the queue only when a handler has finished it.
Finish(j) ==
  /\ j \in ran
  /\ Move(j, "queued", "done") \/ Move(j, "parked", "done")
  /\ UNCHANGED <<ran, open>>

Park(j) == Move(j, "queued", "parked") /\ UNCHANGED <<ran, open>>

Unpark(j) == Move(j, "parked", "queued") /\ UNCHANGED <<ran, open>>

\* Somebody finds the job failed and decides to throw it away.
Open(s, j) ==
  /\ open[s] = None
  /\ place[j] = "parked"
  /\ open' = [open EXCEPT ![s] = j]
  /\ UNCHANGED <<place, ran>>

Closes(s) ==
  /\ open[s] # None
  /\ open' = [open EXCEPT ![s] = None]
  /\ UNCHANGED ran

Discard(s) == Closes(s) /\ Move(open[s], "parked", "discarded")

\* Somebody else has put the job back since it was found failed: the decision
\* still falls, on a job that is due.  Nobody who did not find the job failed
\* can do this, and nothing else takes a queued job away.
DiscardOvertaken(s) == Closes(s) /\ Move(open[s], "queued", "discarded")

\* The job has left the queue in the meantime.
DiscardNothing(s) ==
  /\ Closes(s)
  /\ place[open[s]] \in {"done", "discarded"}
  /\ UNCHANGED place

Next ==
  \/ \E j \in Jobs : Put(j) \/ Run(j) \/ Finish(j) \/ Park(j) \/ Unpark(j)
  \/ \E s \in Staff :
       \/ Discard(s) \/ DiscardOvertaken(s) \/ DiscardNothing(s)
       \/ \E j \in Jobs : Open(s, j)

Spec == Init /\ [][Next]_<<place, ran, open>>
==============================================================================
