------------------------------- MODULE JobQueue -------------------------------
(***************************************************************************)
(* The database-backed job queue: app/queue/queue_service.ts, the worker   *)
(* loop of commands/queue_work.ts, and the staff actions on failed jobs    *)
(* (app/controllers/admin/job_controller.ts, commands/queue_retry.ts).     *)
(*                                                                         *)
(* One step of the model is one statement against the database, so every   *)
(* await of the code is a point at which other processes may run.  A       *)
(* process works on COPIES of rows it read earlier; Lucid's save() writes  *)
(* only the columns the copy changed, by primary key, and writes nothing   *)
(* when the row has gone.                                                  *)
(*                                                                         *)
(* Time is abstracted to what the code compares: `due` is                  *)
(* available_at <= now, and reservedAt is "recent" or, once                *)
(* VISIBILITY_TIMEOUT_SECONDS have passed, "old".                          *)
(***************************************************************************)
EXTENDS Integers, FiniteSets

CONSTANTS
  Jobs,          \* primary keys of the jobs table, ordered as ids are
  Workers,       \* queue:work processes
  Staff,         \* people with the admin panel or the CLI
  None,          \* SQL NULL
  MaxAttempts,   \* the handler's maxAttempts
  Concurrency,   \* jobs a worker reserves at a time
  MaxCrashes,    \* bound: worker deaths in a behaviour
  MaxRetries     \* bound: staff interventions in a behaviour

ASSUME JobsAssumption == Jobs \subseteq Nat
ASSUME NoneAssumption == None \notin Workers /\ None \notin Jobs
ASSUME LimitsAssumption ==
  /\ MaxAttempts \in Nat \ {0}
  /\ Concurrency \in Nat \ {0}
  /\ MaxCrashes \in Nat
  /\ MaxRetries \in Nat

VARIABLES
  row,        \* row[j]: the row of the jobs table
  pc,         \* pc[w]: where worker w is in its loop
  expired,    \* expired[w]: rows w read as expired and is handing back
  candidates, \* candidates[w]: rows w read as due and will try to claim
  copy,       \* copy[w][j]: the attempts column of w's copy of j
  claimed,    \* claimed[w]: the job w has swapped to itself but not stamped
  phase,      \* phase[w][j]: how far w is with a job of its batch
  desk,       \* desk[s]: the failed job a staff member loaded, and for what
  crashes,    \* worker deaths so far
  retries,    \* staff interventions so far
  succeeded,  \* history: jobs some handler run has finished
  lapsed      \* history: jobs whose reservation timed out or staff released

localVars == <<expired, candidates, copy, claimed, phase>>
historyVars == <<succeeded, lapsed>>
boundVars == <<crashes, retries>>
vars == <<row, pc, expired, candidates, copy, claimed, phase, desk,
          crashes, retries, succeeded, lapsed>>

Row == [state : {"new", "present", "deleted", "discarded"},
        reservedBy : Workers \cup {None},
        reservedAt : {"null", "recent", "old"},
        failed : BOOLEAN,
        due : BOOLEAN,
        attempts : 0 .. MaxAttempts]

NewRow == [state |-> "new", reservedBy |-> None, reservedAt |-> "null",
           failed |-> FALSE, due |-> FALSE, attempts |-> 0]

Stages == {"none", "run", "done", "save", "release"}
Idle == [act |-> "none", job |-> None]
Desk == {Idle} \cup [act : {"retry", "release", "discard"}, job : Jobs]

\* One type invariant: every column and every local variable has its type.
TypeOK ==
  /\ row \in [Jobs -> Row]
  /\ pc \in [Workers -> {"poll", "reclaim", "claim", "stamp", "work", "down"}]
  /\ expired \in [Workers -> SUBSET Jobs]
  /\ candidates \in [Workers -> SUBSET Jobs]
  /\ copy \in [Workers -> [Jobs -> 0 .. (MaxAttempts - 1)]]
  /\ claimed \in [Workers -> Jobs \cup {None}]
  /\ phase \in [Workers -> [Jobs -> Stages]]
  /\ desk \in [Staff -> Desk]
  /\ crashes \in 0 .. MaxCrashes
  /\ retries \in 0 .. MaxRetries
  /\ succeeded \subseteq Jobs
  /\ lapsed \subseteq Jobs

Init ==
  /\ row = [j \in Jobs |-> NewRow]
  /\ pc = [w \in Workers |-> "poll"]
  /\ expired = [w \in Workers |-> {}]
  /\ candidates = [w \in Workers |-> {}]
  /\ copy = [w \in Workers |-> [j \in Jobs |-> 0]]
  /\ claimed = [w \in Workers |-> None]
  /\ phase = [w \in Workers |-> [j \in Jobs |-> "none"]]
  /\ desk = [s \in Staff |-> Idle]
  /\ crashes = 0
  /\ retries = 0
  /\ succeeded = {}
  /\ lapsed = {}

Present(j) == row[j].state = "present"

\* UPDATE jobs SET ... WHERE id = j: nothing happens when the row has gone.
Update(j, new) == row' = [row EXCEPT ![j] = IF Present(j) THEN new ELSE @]

Released(r) == [r EXCEPT !.reservedBy = None, !.reservedAt = "null"]

Batch(w) == {j \in Jobs : phase[w][j] # "none"}

-------------------------------------------------------------------------------
\* dispatch: a row with no reservation, due now or after delaySeconds.
Dispatch(j) ==
  /\ row[j].state = "new"
  /\ \E due \in BOOLEAN :
       row' = [row EXCEPT ![j] = [NewRow EXCEPT !.state = "present", !.due = due]]
  /\ UNCHANGED <<pc, localVars, desk, boundVars, historyVars>>

-------------------------------------------------------------------------------
(* reserve, first half: reclaimExpired reads the held rows, keeps those     *)
(* whose reservedAt is set and past the timeout, and releases each of them  *)
(* with an update that does not look at the row again.                      *)

\* Mutant of ReadExpired: held rows are taken to be healthy, always.
ReadExpiredNone(w) ==
  /\ pc[w] = "poll"
  /\ expired' = [expired EXCEPT ![w] = {}]
  /\ pc' = [pc EXCEPT ![w] = "reclaim"]
  /\ UNCHANGED <<row, candidates, copy, claimed, phase, desk, boundVars, historyVars>>

ReadExpired(w) ==
  /\ pc[w] = "poll"
  /\ expired' = [expired EXCEPT ![w] =
       {j \in Jobs : /\ Present(j)
                     /\ row[j].reservedBy # None
                     /\ ~row[j].failed
                     /\ row[j].reservedAt = "old"}]
  /\ pc' = [pc EXCEPT ![w] = "reclaim"]
  /\ UNCHANGED <<row, candidates, copy, claimed, phase, desk, boundVars, historyVars>>

Reclaim(w, j) ==
  /\ pc[w] = "reclaim"
  /\ j \in expired[w]
  /\ Update(j, Released(row[j]))
  /\ expired' = [expired EXCEPT ![w] = @ \ {j}]
  /\ UNCHANGED <<pc, candidates, copy, claimed, phase, desk, boundVars, historyVars>>

(* reserve, second half: up to three times as many candidates as needed,    *)
(* lowest id first, claimed one at a time until the batch is full.          *)

Claimable(j) ==
  /\ Present(j)
  /\ row[j].reservedBy = None
  /\ ~row[j].failed
  /\ row[j].due

ListCandidates(w) ==
  /\ pc[w] = "reclaim"
  /\ expired[w] = {}
  /\ LET due == {j \in Jobs : Claimable(j)} IN
     candidates' = [candidates EXCEPT ![w] =
       {j \in due : Cardinality({k \in due : k < j}) < 3 * Concurrency}]
  /\ copy' = [copy EXCEPT ![w] =
       [j \in Jobs |-> IF j \in candidates'[w] THEN row[j].attempts ELSE 0]]
  /\ pc' = [pc EXCEPT ![w] = "claim"]
  /\ UNCHANGED <<row, expired, claimed, phase, desk, boundVars, historyVars>>

NextCandidate(w, j) ==
  /\ pc[w] = "claim"
  /\ Cardinality(Batch(w)) < Concurrency
  /\ j \in candidates[w]
  /\ \A k \in candidates[w] : j <= k

\* Mutant of Claim: an update by primary key, without the comparison.
ClaimUnguarded(w, j) ==
  /\ NextCandidate(w, j)
  /\ candidates' = [candidates EXCEPT ![w] = @ \ {j}]
  /\ Update(j, [row[j] EXCEPT !.reservedBy = w])
  /\ claimed' = [claimed EXCEPT ![w] = j]
  /\ pc' = [pc EXCEPT ![w] = "stamp"]
  /\ UNCHANGED <<expired, copy, phase, desk, boundVars, historyVars>>

\* The compare-and-swap.  Only reserved_by is compared: the rest of the row
\* may have changed since it was listed.
Claim(w, j) ==
  /\ NextCandidate(w, j)
  /\ candidates' = [candidates EXCEPT ![w] = @ \ {j}]
  /\ IF Present(j) /\ row[j].reservedBy = None
       THEN /\ row' = [row EXCEPT ![j].reservedBy = w]
            /\ claimed' = [claimed EXCEPT ![w] = j]
            /\ pc' = [pc EXCEPT ![w] = "stamp"]
       ELSE UNCHANGED <<row, claimed, pc>>
  /\ UNCHANGED <<expired, copy, phase, desk, boundVars, historyVars>>

\* The model save that records when: both reservation columns of the copy
\* are dirty, so both are written.
Stamp(w) ==
  /\ pc[w] = "stamp"
  /\ Update(claimed[w], [row[claimed[w]] EXCEPT !.reservedBy = w, !.reservedAt = "recent"])
  /\ phase' = [phase EXCEPT ![w][claimed[w]] = "run"]
  /\ claimed' = [claimed EXCEPT ![w] = None]
  /\ pc' = [pc EXCEPT ![w] = "claim"]
  /\ UNCHANGED <<expired, candidates, copy, desk, boundVars, historyVars>>

\* The reserved jobs are started together; an empty batch is a poll.
StartBatch(w) ==
  /\ pc[w] = "claim"
  /\ candidates[w] = {} \/ Cardinality(Batch(w)) >= Concurrency
  /\ candidates' = [candidates EXCEPT ![w] = {}]
  /\ pc' = [pc EXCEPT ![w] = "work"]
  /\ UNCHANGED <<row, expired, copy, claimed, phase, desk, boundVars, historyVars>>

-------------------------------------------------------------------------------
(* Working the batch.  Each job settles on its own; the worker reserves     *)
(* again when all of them have (Promise.all).                               *)

Working(w, j, stage) == pc[w] = "work" /\ phase[w][j] = stage

HandlerSucceeds(w, j) ==
  /\ Working(w, j, "run")
  /\ phase' = [phase EXCEPT ![w][j] = "done"]
  /\ succeeded' = succeeded \cup {j}
  /\ UNCHANGED <<row, pc, expired, candidates, copy, claimed, desk, boundVars, lapsed>>

\* The handler throws, or the delete after it does: both reach queue.fail.
HandlerThrows(w, j) ==
  /\ Working(w, j, "run") \/ Working(w, j, "done")
  /\ phase' = [phase EXCEPT ![w][j] = "save"]
  /\ UNCHANGED <<row, pc, expired, candidates, copy, claimed, desk, boundVars, historyVars>>

Complete(w, j) ==
  /\ Working(w, j, "done")
  /\ Update(j, [NewRow EXCEPT !.state = "deleted"])
  /\ phase' = [phase EXCEPT ![w][j] = "none"]
  /\ copy' = [copy EXCEPT ![w][j] = 0]
  /\ UNCHANGED <<pc, expired, candidates, claimed, desk, boundVars, historyVars>>

\* Mutant of FailSave: one attempt too many.
FailSaveLate(w, j) ==
  /\ Working(w, j, "save")
  /\ LET tries == copy[w][j] + 1
         saved == [row[j] EXCEPT !.attempts = tries] IN
     IF tries > MaxAttempts
       THEN Update(j, [saved EXCEPT !.failed = TRUE])
       ELSE Update(j, [saved EXCEPT !.due = FALSE])
  /\ phase' = [phase EXCEPT ![w][j] = "release"]
  /\ UNCHANGED <<pc, expired, candidates, copy, claimed, desk, boundVars, historyVars>>

\* fail, up to its save: the copy's attempts are counted up.  On the last
\* attempt, or when the error says retrying cannot help, the job is parked;
\* otherwise available_at moves into the future.
FailSave(w, j) ==
  /\ Working(w, j, "save")
  /\ \E unrecoverable \in BOOLEAN :
       LET tries == copy[w][j] + 1
           saved == [row[j] EXCEPT !.attempts = tries] IN
       IF unrecoverable \/ tries >= MaxAttempts
         THEN Update(j, [saved EXCEPT !.failed = TRUE])
         ELSE Update(j, [saved EXCEPT !.due = FALSE])
  /\ phase' = [phase EXCEPT ![w][j] = "release"]
  /\ UNCHANGED <<pc, expired, candidates, copy, claimed, desk, boundVars, historyVars>>

FailRelease(w, j) ==
  /\ Working(w, j, "release")
  /\ Update(j, Released(row[j]))
  /\ phase' = [phase EXCEPT ![w][j] = "none"]
  /\ copy' = [copy EXCEPT ![w][j] = 0]
  /\ UNCHANGED <<pc, expired, candidates, claimed, desk, boundVars, historyVars>>

BatchSettled(w) ==
  /\ pc[w] = "work"
  /\ Batch(w) = {}
  /\ pc' = [pc EXCEPT ![w] = "poll"]
  /\ copy' = [copy EXCEPT ![w] = [j \in Jobs |-> 0]]
  /\ UNCHANGED <<row, expired, candidates, claimed, phase, desk, boundVars, historyVars>>

-------------------------------------------------------------------------------
\* The process dies between any two statements and loses what it knew.
Crash(w) ==
  /\ pc[w] # "down"
  /\ crashes < MaxCrashes
  /\ crashes' = crashes + 1
  /\ pc' = [pc EXCEPT ![w] = "down"]
  /\ expired' = [expired EXCEPT ![w] = {}]
  /\ candidates' = [candidates EXCEPT ![w] = {}]
  /\ copy' = [copy EXCEPT ![w] = [j \in Jobs |-> 0]]
  /\ claimed' = [claimed EXCEPT ![w] = None]
  /\ phase' = [phase EXCEPT ![w] = [j \in Jobs |-> "none"]]
  /\ UNCHANGED <<row, desk, retries, historyVars>>

\* Its successor starts with an empty loop.  It has another workerId, but no
\* statement compares reserved_by with anything except NULL.
Restart(w) ==
  /\ pc[w] = "down"
  /\ pc' = [pc EXCEPT ![w] = "poll"]
  /\ UNCHANGED <<row, localVars, desk, boundVars, historyVars>>

-------------------------------------------------------------------------------
(* Staff load a row, see that it failed, and then act on what they loaded.  *)

\* Mutant of StaffOpens: any job can be acted on, failed or not.
StaffOpensAny(s, j) ==
  /\ desk[s] = Idle
  /\ Present(j)
  /\ retries < MaxRetries
  /\ retries' = retries + 1
  /\ \E act \in {"retry", "discard"} :
       desk' = [desk EXCEPT ![s] = [act |-> act, job |-> j]]
  /\ UNCHANGED <<row, pc, localVars, crashes, historyVars>>

StaffOpens(s, j) ==
  /\ desk[s] = Idle
  /\ Present(j) /\ row[j].failed
  /\ retries < MaxRetries
  /\ retries' = retries + 1
  /\ \E act \in {"retry", "discard"} :
       desk' = [desk EXCEPT ![s] = [act |-> act, job |-> j]]
  /\ UNCHANGED <<row, pc, localVars, crashes, historyVars>>

\* retry: failed_at, attempts, last_error and available_at are all dirty.
StaffRetries(s) ==
  /\ desk[s].act = "retry"
  /\ LET j == desk[s].job IN
       Update(j, [row[j] EXCEPT !.failed = FALSE, !.attempts = 0, !.due = TRUE])
  /\ desk' = [desk EXCEPT ![s].act = "release"]
  /\ UNCHANGED <<pc, localVars, boundVars, historyVars>>

StaffReleases(s) ==
  /\ desk[s].act = "release"
  /\ Update(desk[s].job, Released(row[desk[s].job]))
  /\ lapsed' = lapsed \cup {desk[s].job}
  /\ desk' = [desk EXCEPT ![s] = Idle]
  /\ UNCHANGED <<pc, localVars, boundVars, succeeded>>

StaffDiscards(s) ==
  /\ desk[s].act = "discard"
  /\ Update(desk[s].job, [NewRow EXCEPT !.state = "discarded"])
  /\ desk' = [desk EXCEPT ![s] = Idle]
  /\ UNCHANGED <<pc, localVars, boundVars, historyVars>>

-------------------------------------------------------------------------------
(* The clock. *)

BecomesDue(j) ==
  /\ Present(j) /\ ~row[j].due
  /\ row' = [row EXCEPT ![j].due = TRUE]
  /\ UNCHANGED <<pc, localVars, desk, boundVars, historyVars>>

ReservationAges(j) ==
  /\ Present(j) /\ row[j].reservedAt = "recent"
  /\ row' = [row EXCEPT ![j].reservedAt = "old"]
  /\ lapsed' = lapsed \cup {j}
  /\ UNCHANGED <<pc, localVars, desk, boundVars, succeeded>>

-------------------------------------------------------------------------------
WorkerStep(w) ==
  \/ ReadExpired(w) \/ ListCandidates(w) \/ Stamp(w)
  \/ StartBatch(w) \/ BatchSettled(w) \/ Restart(w)
  \/ \E j \in Jobs : Reclaim(w, j) \/ Claim(w, j)

JobStep(w, j) ==
  \/ HandlerSucceeds(w, j) \/ HandlerThrows(w, j)
  \/ Complete(w, j) \/ FailSave(w, j) \/ FailRelease(w, j)

StaffStep(s) == StaffRetries(s) \/ StaffReleases(s) \/ StaffDiscards(s)

ClockStep(j) == BecomesDue(j) \/ ReservationAges(j)

Next ==
  \/ \E j \in Jobs : Dispatch(j) \/ ClockStep(j)
  \/ \E w \in Workers : WorkerStep(w) \/ Crash(w) \/ \E j \in Jobs : JobStep(w, j)
  \/ \E s \in Staff : StaffStep(s) \/ \E j \in Jobs : StaffOpens(s, j)

Spec == Init /\ [][Next]_vars

\* The worker loop keeps running and a handler returns; a staff request that
\* was made finishes; the clock moves.  Dispatching, crashing and opening
\* the failed-jobs page are nobody's duty.
Fairness ==
  /\ \A w \in Workers : WF_vars(WorkerStep(w))
  /\ \A w \in Workers, j \in Jobs : WF_vars(JobStep(w, j))
  /\ \A s \in Staff : WF_vars(StaffStep(s))
  /\ \A j \in Jobs : WF_vars(BecomesDue(j)) /\ WF_vars(ReservationAges(j))

FairSpec == Spec /\ Fairness

-------------------------------------------------------------------------------
(* Properties *)

\* Worker w has job j: it won the swap and has not settled the job yet.
Holds(w, j) == claimed[w] = j \/ phase[w][j] # "none"

\* "Two workers can therefore never hold the same job" (queue_service.ts:33):
\* true of every job whose reservation has never timed out and which staff
\* have not put back by hand.
HeldOnce ==
  \A j \in Jobs \ lapsed : \A v, w \in Workers :
    Holds(v, j) /\ Holds(w, j) => v = w

\* A job still on the queue has an attempt left, although failures are
\* counted on copies that may be stale: isFinalAttempt (job.ts:40) is TRUE on
\* the attempt that parks the job and on no later one.
AttemptsLeft == \A j \in Jobs : ~row[j].failed => row[j].attempts < MaxAttempts

\* A job claimed but not stamped, by a worker that is not about to stamp it:
\* it died in between, or was overtaken.
Stranded(j) ==
  /\ Present(j)
  /\ row[j].reservedBy # None
  /\ row[j].reservedAt = "null"
  /\ \A w \in Workers : claimed[w] # j

Settled(j) == row[j].state \in {"deleted", "discarded"} \/ row[j].failed

\* "Hand back jobs whose worker went away mid-flight. This is the only reason
\* a crash is survivable" (queue_service.ts:170-173): every job on the queue is
\* eventually finished or parked for a human, through crashes, timeouts and
\* retries - unless it is stranded, which nothing hands back.
SettlesUnlessStranded ==
  \A j \in Jobs : Present(j) ~> (Settled(j) \/ Stranded(j))

-------------------------------------------------------------------------------
(* The queue implements what it promises. *)

Place(r) ==
  CASE r.state = "new" -> "new"
    [] r.state = "deleted" -> "done"
    [] r.state = "discarded" -> "discarded"
    [] r.state = "present" -> IF r.failed THEN "parked" ELSE "queued"

Promise == INSTANCE AtLeastOnce WITH
  place <- [j \in Jobs |-> Place(row[j])],
  ran <- succeeded,
  open <- [s \in Staff |-> IF desk[s].act = "discard" THEN desk[s].job ELSE None]

\* The at-least-once contract, through crashes, stale copies and several
\* people at the failed-jobs page: a job leaves only after a handler finished
\* it, or at the hand of somebody who found it failed, and never comes back.
AtLeastOnce == Promise!Spec
===============================================================================
