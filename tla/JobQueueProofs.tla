---------------------------- MODULE JobQueueProofs ----------------------------
(***************************************************************************)
(* Proofs about the job queue, for any number of jobs, workers and staff   *)
(* and any bounds.                                                         *)
(***************************************************************************)
EXTENDS JobQueue, TLAPS

(* Rows.  Every statement replaces at most one row by another. *)

Spare(r) == ~r.failed => r.attempts < MaxAttempts

\* Replacing one row by a well-typed row with an attempt to spare.
LEMMA PutRow ==
  ASSUME row \in [Jobs -> Row], AttemptsLeft,
         NEW j \in Jobs, NEW r \in Row, Spare(r),
         row' = [row EXCEPT ![j] = r]
  PROVE  row' \in [Jobs -> Row] /\ AttemptsLeft'
  BY DEF AttemptsLeft, Spare

\* The same for an UPDATE, which does nothing when the row has gone.
LEMMA UpdateRow ==
  ASSUME row \in [Jobs -> Row], AttemptsLeft,
         NEW j \in Jobs, NEW r \in Row, Spare(r), Update(j, r)
  PROVE  row' \in [Jobs -> Row] /\ AttemptsLeft'
  <1>1. CASE Present(j)
    BY <1>1, PutRow DEF Update
  <1>2. CASE ~Present(j)
    BY <1>2 DEF Update, AttemptsLeft
  <1> QED BY <1>1, <1>2

\* The row operations of the model stay within Row.
LEMMA StateEdit ==
  ASSUME NEW r \in Row, NEW st \in {"new", "present", "deleted", "discarded"}
  PROVE  /\ [r EXCEPT !.state = st] \in Row
         /\ \A d \in BOOLEAN : [r EXCEPT !.state = st, !.due = d] \in Row
  BY DEF Row

LEMMA RetryEdit ==
  ASSUME NEW r \in Row, NEW f \in BOOLEAN, NEW d \in BOOLEAN, NEW n \in 0 .. MaxAttempts
  PROVE  [r EXCEPT !.failed = f, !.attempts = n, !.due = d] \in Row
  BY DEF Row

LEMMA NewRowType == NewRow \in Row
  BY LimitsAssumption DEF Row, NewRow

\* A new row, also with another state, has all its attempts.
LEMMA NewRowSpare ==
  ASSUME NEW st, NEW d
  PROVE  Spare([NewRow EXCEPT !.state = st]) /\ Spare([NewRow EXCEPT !.state = st, !.due = d])
  BY LimitsAssumption DEF NewRow, Spare

LEMMA RowTypes ==
  ASSUME TypeOK, AttemptsLeft, NEW j \in Jobs
  PROVE  /\ row[j] \in Row /\ Spare(row[j])
         /\ Released(row[j]) \in Row /\ Spare(Released(row[j]))
  <1>1. row[j] \in Row /\ Spare(row[j])
    BY DEF TypeOK, AttemptsLeft, Spare
  <1>2. Released(row[j]) \in Row /\ Spare(Released(row[j]))
    BY <1>1 DEF Released, Row, Spare
  <1> QED BY <1>1, <1>2

\* What a step leaves to show once the rows are dealt with.
RestOK ==
  /\ pc \in [Workers -> {"poll", "reclaim", "claim", "stamp", "work", "down"}]
  /\ expired \in [Workers -> SUBSET Jobs]
  /\ candidates \in [Workers -> SUBSET Jobs]
  /\ copy \in [Workers -> [Jobs -> 0 .. (MaxAttempts - 1)]]
  /\ claimed \in [Workers -> Jobs \cup {None}]
  /\ phase \in [Workers -> [Jobs -> Stages]]
  /\ desk \in [Staff -> Desk]
  /\ crashes \in 0 .. MaxCrashes
  /\ retries \in 0 .. MaxRetries
  /\ succeeded \subseteq Jobs
  /\ lapsed \subseteq Jobs

\* A worker has a swapped but unstamped job in hand exactly while it stamps.
Stamping == \A w \in Workers : claimed[w] # None <=> pc[w] = "stamp"

LEMMA TypeStep ==
  ASSUME TypeOK, AttemptsLeft, Stamping, [Next]_vars
  PROVE  TypeOK' /\ AttemptsLeft' /\ Stamping'
  <1> USE NoneAssumption, LimitsAssumption
  <1>0. row \in [Jobs -> Row] /\ RestOK
    BY DEF TypeOK, RestOK
  <1>00. SUFFICES row' \in [Jobs -> Row] /\ AttemptsLeft' /\ RestOK' /\ Stamping'
    BY DEF TypeOK, RestOK
  <1>1. ASSUME NEW j \in Jobs, Dispatch(j)
        PROVE  row' \in [Jobs -> Row] /\ AttemptsLeft' /\ RestOK' /\ Stamping'
    <2>1. PICK due \in BOOLEAN :
            row' = [row EXCEPT ![j] = [NewRow EXCEPT !.state = "present", !.due = due]]
      BY <1>1 DEF Dispatch
    <2>2. [NewRow EXCEPT !.state = "present", !.due = due] \in Row
          /\ Spare([NewRow EXCEPT !.state = "present", !.due = due])
      BY NewRowType, StateEdit, NewRowSpare
    <2>3. RestOK' /\ Stamping'
      BY <1>0, <1>1 DEF Dispatch, RestOK, Stamping, localVars, boundVars, historyVars
    <2> QED BY <1>0, <2>1, <2>2, <2>3, PutRow
  <1>2. ASSUME NEW j \in Jobs, ClockStep(j)
        PROVE  row' \in [Jobs -> Row] /\ AttemptsLeft' /\ RestOK' /\ Stamping'
    <2>1. [row[j] EXCEPT !.due = TRUE] \in Row /\ Spare([row[j] EXCEPT !.due = TRUE])
          /\ [row[j] EXCEPT !.reservedAt = "old"] \in Row
          /\ Spare([row[j] EXCEPT !.reservedAt = "old"])
      BY RowTypes DEF Row, Spare
    <2>2. row' = [row EXCEPT ![j] = [row[j] EXCEPT !.due = TRUE]]
          \/ row' = [row EXCEPT ![j] = [row[j] EXCEPT !.reservedAt = "old"]]
      BY <1>0, <1>2 DEF ClockStep, BecomesDue, ReservationAges
    <2>3. RestOK' /\ Stamping'
      BY <1>0, <1>2 DEF ClockStep, BecomesDue, ReservationAges, RestOK, Stamping,
                        localVars, boundVars, historyVars
    <2> QED BY <1>0, <2>1, <2>2, <2>3, PutRow
  <1>3. ASSUME NEW w \in Workers, WorkerStep(w) \/ Crash(w)
        PROVE  row' \in [Jobs -> Row] /\ AttemptsLeft' /\ RestOK' /\ Stamping'
    <2>1. CASE ReadExpired(w)
      BY <1>0, <2>1 DEF ReadExpired, RestOK, Stamping, AttemptsLeft, boundVars, historyVars
    <2>2. CASE ListCandidates(w)
      <3>1. \A j \in candidates'[w] : j \in Jobs /\ ~row[j].failed
        BY <1>0, <2>2 DEF ListCandidates, Claimable, RestOK
      <3>2. \A j \in candidates'[w] : row[j].attempts \in 0 .. (MaxAttempts - 1)
        BY <1>0, <3>1 DEF AttemptsLeft, Row
      <3>3. copy' \in [Workers -> [Jobs -> 0 .. (MaxAttempts - 1)]]
        BY <1>0, <2>2, <3>2 DEF ListCandidates, RestOK
      <3> QED BY <1>0, <2>2, <3>3 DEF ListCandidates, RestOK, Stamping, AttemptsLeft,
                                      boundVars, historyVars
    <2>3. CASE Stamp(w)
      <3> DEFINE j == claimed[w]
                 r == [row[j] EXCEPT !.reservedBy = w, !.reservedAt = "recent"]
      <3>1. j \in Jobs
        BY <1>0, <2>3 DEF Stamp, Stamping, RestOK
      <3>2. r \in Row /\ Spare(r)
        BY <3>1, RowTypes DEF Row, Spare
      <3>3. row' \in [Jobs -> Row] /\ AttemptsLeft'
        BY <1>0, <2>3, <3>1, <3>2, UpdateRow DEF Stamp
      <3> QED BY <1>0, <2>3, <3>1, <3>3 DEF Stamp, RestOK, Stamping, Stages, boundVars, historyVars
    <2>4. CASE StartBatch(w)
      BY <1>0, <2>4 DEF StartBatch, RestOK, Stamping, AttemptsLeft, boundVars, historyVars
    <2>8. CASE BatchSettled(w)
      BY <1>0, <2>8 DEF BatchSettled, RestOK, Stamping, AttemptsLeft, boundVars, historyVars
    <2>9. CASE Restart(w)
      BY <1>0, <2>9 DEF Restart, RestOK, Stamping, AttemptsLeft, localVars, boundVars, historyVars
    <2>7. CASE Crash(w)
      <3>1. phase' \in [Workers -> [Jobs -> Stages]]
        BY <1>0, <2>7 DEF Crash, RestOK, Stages
      <3>2. copy' \in [Workers -> [Jobs -> 0 .. (MaxAttempts - 1)]]
        BY <1>0, <2>7 DEF Crash, RestOK
      <3>3. /\ expired' \in [Workers -> SUBSET Jobs]
            /\ candidates' \in [Workers -> SUBSET Jobs]
            /\ claimed' \in [Workers -> Jobs \cup {None}]
        BY <1>0, <2>7 DEF Crash, RestOK
      <3>4. crashes' \in 0 .. MaxCrashes
        BY <1>0, <2>7 DEF Crash, RestOK
      <3>5. RestOK'
        BY <1>0, <2>7, <3>1, <3>2, <3>3, <3>4 DEF Crash, RestOK, historyVars
      <3>6. row' = row /\ Stamping'
        BY <1>0, <2>7 DEF Crash, RestOK, Stamping
      <3> QED BY <1>0, <3>5, <3>6 DEF AttemptsLeft
    <2>5. ASSUME NEW j \in Jobs, Reclaim(w, j)
          PROVE  row' \in [Jobs -> Row] /\ AttemptsLeft' /\ RestOK' /\ Stamping'
      <3>1. row' \in [Jobs -> Row] /\ AttemptsLeft'
        BY <1>0, <2>5, RowTypes, UpdateRow DEF Reclaim
      <3> QED BY <1>0, <2>5, <3>1 DEF Reclaim, RestOK, Stamping, boundVars, historyVars
    <2>6. ASSUME NEW j \in Jobs, Claim(w, j)
          PROVE  row' \in [Jobs -> Row] /\ AttemptsLeft' /\ RestOK' /\ Stamping'
      <3>1. [row[j] EXCEPT !.reservedBy = w] \in Row
            /\ Spare([row[j] EXCEPT !.reservedBy = w])
        BY RowTypes DEF Row, Spare
      <3>2. row' = row \/ row' = [row EXCEPT ![j] = [row[j] EXCEPT !.reservedBy = w]]
        BY <1>0, <2>6 DEF Claim
      <3>3. row' \in [Jobs -> Row] /\ AttemptsLeft'
        BY <1>0, <3>1, <3>2, PutRow DEF AttemptsLeft
      <3>4. RestOK'
        <4>1. CASE Present(j) /\ row[j].reservedBy = None
          <5>1. claimed' \in [Workers -> Jobs \cup {None}]
            BY <1>0, <2>6, <4>1 DEF Claim, RestOK
          <5>2. candidates' \in [Workers -> SUBSET Jobs]
            BY <1>0, <2>6 DEF Claim, RestOK
          <5>3. pc' = [pc EXCEPT ![w] = "stamp"]
            BY <2>6, <4>1 DEF Claim
          <5> QED BY <1>0, <2>6, <5>1, <5>2, <5>3 DEF Claim, RestOK, boundVars, historyVars
        <4>2. CASE ~(Present(j) /\ row[j].reservedBy = None)
          BY <1>0, <2>6, <4>2 DEF Claim, RestOK, boundVars, historyVars
        <4> QED BY <4>1, <4>2
      <3>5. Stamping'
        BY <1>0, <2>6 DEF Claim, NextCandidate, RestOK, Stamping
      <3> QED BY <3>3, <3>4, <3>5
    <2> QED BY <1>3, <2>1, <2>2, <2>3, <2>4, <2>5, <2>6, <2>7, <2>8, <2>9 DEF WorkerStep
  <1>4. ASSUME NEW w \in Workers, NEW j \in Jobs, JobStep(w, j)
        PROVE  row' \in [Jobs -> Row] /\ AttemptsLeft' /\ RestOK' /\ Stamping'
    <2>1. CASE HandlerSucceeds(w, j)
      BY <1>0, <2>1 DEF HandlerSucceeds, RestOK, Stamping, Stages, AttemptsLeft, boundVars
    <2>5. CASE HandlerThrows(w, j)
      BY <1>0, <2>5 DEF HandlerThrows, RestOK, Stamping, Stages, AttemptsLeft,
                        boundVars, historyVars
    <2>2. CASE Complete(w, j)
      <3>1. [NewRow EXCEPT !.state = "deleted"] \in Row
            /\ Spare([NewRow EXCEPT !.state = "deleted"])
        BY NewRowType, StateEdit, NewRowSpare
      <3>2. row' \in [Jobs -> Row] /\ AttemptsLeft'
        BY <1>0, <2>2, <3>1, UpdateRow DEF Complete
      <3> QED BY <1>0, <2>2, <3>2 DEF Complete, RestOK, Stamping, Stages, boundVars, historyVars
    <2>3. CASE FailSave(w, j)
      <3> DEFINE tries == copy[w][j] + 1
                 parked == [[row[j] EXCEPT !.attempts = tries] EXCEPT !.failed = TRUE]
                 later == [[row[j] EXCEPT !.attempts = tries] EXCEPT !.due = FALSE]
      <3>1. tries \in 0 .. MaxAttempts
        BY <1>0 DEF RestOK
      <3>2. parked \in Row /\ Spare(parked)
        BY <3>1, RowTypes DEF Row, Spare
      <3>3. tries < MaxAttempts => later \in Row /\ Spare(later)
        BY <3>1, RowTypes DEF Row, Spare
      <3>4. Update(j, parked) \/ (tries < MaxAttempts /\ Update(j, later))
        BY <2>3, <3>1 DEF FailSave
      <3>5. row' \in [Jobs -> Row] /\ AttemptsLeft'
        BY <1>0, <3>2, <3>3, <3>4, UpdateRow
      <3> QED BY <1>0, <2>3, <3>5 DEF FailSave, RestOK, Stamping, Stages, boundVars, historyVars
    <2>4. CASE FailRelease(w, j)
      <3>1. row' \in [Jobs -> Row] /\ AttemptsLeft'
        BY <1>0, <2>4, RowTypes, UpdateRow DEF FailRelease
      <3> QED BY <1>0, <2>4, <3>1 DEF FailRelease, RestOK, Stamping, Stages, boundVars, historyVars
    <2> QED BY <1>4, <2>1, <2>2, <2>3, <2>4, <2>5 DEF JobStep
  <1>5. ASSUME NEW s \in Staff, StaffStep(s)
        PROVE  row' \in [Jobs -> Row] /\ AttemptsLeft' /\ RestOK' /\ Stamping'
    <2> DEFINE j == desk[s].job
    <2>1. j \in Jobs
      BY <1>0, <1>5 DEF StaffStep, StaffRetries, StaffReleases, StaffDiscards, RestOK, Desk, Idle
    <2>2. CASE StaffRetries(s)
      <3> DEFINE r == [row[j] EXCEPT !.failed = FALSE, !.attempts = 0, !.due = TRUE]
      <3>0. 0 \in 0 .. MaxAttempts /\ row[j] \in Row
        BY <2>1, RowTypes
      <3>1. r \in Row /\ Spare(r)
        <4>1. r \in Row
          BY <3>0, RetryEdit
        <4>2. Spare(r)
          BY <3>0 DEF Row, Spare
        <4> QED BY <4>1, <4>2
      <3>2. row' \in [Jobs -> Row] /\ AttemptsLeft'
        BY <1>0, <2>1, <2>2, <3>1, UpdateRow DEF StaffRetries
      <3>3. desk' \in [Staff -> Desk]
        BY <1>0, <2>1, <2>2 DEF StaffRetries, RestOK, Desk, Idle
      <3> QED BY <1>0, <2>2, <3>2, <3>3 DEF StaffRetries, RestOK, Stamping, localVars, boundVars, historyVars
    <2>3. CASE StaffReleases(s)
      <3>1. row' \in [Jobs -> Row] /\ AttemptsLeft'
        BY <1>0, <2>1, <2>3, RowTypes, UpdateRow DEF StaffReleases
      <3> QED BY <1>0, <2>1, <2>3, <3>1 DEF StaffReleases, RestOK, Stamping, Desk, Idle, localVars, boundVars
    <2>4. CASE StaffDiscards(s)
      <3>1. [NewRow EXCEPT !.state = "discarded"] \in Row
            /\ Spare([NewRow EXCEPT !.state = "discarded"])
        BY NewRowType, StateEdit, NewRowSpare
      <3>2. row' \in [Jobs -> Row] /\ AttemptsLeft'
        BY <1>0, <2>1, <2>4, <3>1, UpdateRow DEF StaffDiscards
      <3> QED BY <1>0, <2>4, <3>2 DEF StaffDiscards, RestOK, Stamping, Desk, Idle,
                                      localVars, boundVars, historyVars
    <2> QED BY <1>5, <2>2, <2>3, <2>4 DEF StaffStep
  <1>6. ASSUME NEW s \in Staff, NEW j \in Jobs, StaffOpens(s, j)
        PROVE  row' \in [Jobs -> Row] /\ AttemptsLeft' /\ RestOK' /\ Stamping'
    BY <1>0, <1>6 DEF StaffOpens, RestOK, Stamping, AttemptsLeft, Desk, Idle, localVars, historyVars
  <1>7. CASE UNCHANGED vars
    BY <1>0, <1>7 DEF vars, RestOK, Stamping, AttemptsLeft
  <1> QED BY <1>1, <1>2, <1>3, <1>4, <1>5, <1>6, <1>7 DEF Next

Typed == TypeOK /\ AttemptsLeft /\ Stamping

\* Type correctness, and that a job still on the queue has an attempt left.
THEOREM TypeCorrect == Spec => []Typed
<1>1. Init => Typed
  BY LimitsAssumption DEF Init, Typed, TypeOK, AttemptsLeft, Stamping, Row, NewRow, Desk, Stages
<1>2. Typed /\ [Next]_vars => Typed'
  BY TypeStep DEF Typed
<1> QED BY <1>1, <1>2, PTL DEF Spec

\* A job still on the queue has an attempt left, though failures are counted
\* on copies that may be stale: the attempt that parks a job is its last.
THEOREM AttemptsRemain == Spec => []AttemptsLeft
<1>1. Typed => AttemptsLeft
  BY DEF Typed
<1> QED BY <1>1, TypeCorrect, PTL

-------------------------------------------------------------------------------
(* Exclusive holding.  Nobody else gets a job in while its row names the    *)
(* worker that has it; the row stops naming that worker only when the       *)
(* worker itself lets go or the reservation has lapsed.                     *)

\* A held job was dispatched, and unless it lapsed its row names the holder.
Owned ==
  \A w \in Workers, j \in Jobs : Holds(w, j) =>
    /\ row[j].state # "new"
    /\ j \notin lapsed /\ Present(j) => row[j].reservedBy = w

\* What a reclaimer is about to release has lapsed.
OldLapsed ==
  /\ \A j \in Jobs : row[j].reservedAt = "old" => j \in lapsed
  /\ \A w \in Workers : expired[w] \subseteq lapsed

\* A job about to be deleted was finished by the handler run before it.
DoneSucceeded ==
  \A w \in Workers, j \in Jobs : phase[w][j] = "done" => j \in succeeded

QueueInv == Typed /\ Owned /\ HeldOnce /\ OldLapsed /\ DoneSucceeded

LEMMA QueueInit == Init => QueueInv
  <1> SUFFICES ASSUME Init PROVE QueueInv
    OBVIOUS
  <1>1. Typed
    BY LimitsAssumption DEF Init, Typed, TypeOK, AttemptsLeft, Stamping, Row, NewRow, Desk, Stages
  <1>2. \A w \in Workers, j \in Jobs : ~Holds(w, j)
    BY NoneAssumption DEF Init, Holds
  <1> QED BY <1>1, <1>2 DEF Init, QueueInv, Owned, HeldOnce, OldLapsed, DoneSucceeded,
                            NewRow
LEMMA QueueStep ==
  ASSUME QueueInv, [Next]_vars
  PROVE  QueueInv'
  <1> DEFINE Rest == Owned /\ HeldOnce /\ OldLapsed /\ DoneSucceeded
  <1>0. TypeOK /\ Typed' /\ Rest
    BY TypeStep DEF QueueInv, Typed
  <1>00. SUFFICES Rest'
    BY <1>0 DEF QueueInv
  <1>t. /\ row \in [Jobs -> Row] /\ expired \in [Workers -> SUBSET Jobs]
        /\ claimed \in [Workers -> Jobs \cup {None}]
        /\ phase \in [Workers -> [Jobs -> Stages]]
        /\ succeeded \subseteq Jobs /\ lapsed \subseteq Jobs
        /\ Stamping
    BY <1>0 DEF TypeOK, QueueInv, Typed
  <1> USE NoneAssumption
  <1>1. ASSUME NEW j \in Jobs, Dispatch(j)
        PROVE  Rest'
    BY <1>0, <1>t, <1>1 DEF Dispatch, NewRow, localVars, historyVars, Owned, HeldOnce, OldLapsed, DoneSucceeded, Holds, Present
  <1>2. ASSUME NEW j \in Jobs, BecomesDue(j)
        PROVE  Rest'
    BY <1>0, <1>t, <1>2 DEF BecomesDue, localVars, historyVars, Owned, HeldOnce, OldLapsed, DoneSucceeded, Holds, Present
  <1>3. ASSUME NEW j \in Jobs, ReservationAges(j)
        PROVE  Rest'
    BY <1>0, <1>t, <1>3 DEF ReservationAges, localVars, Owned, HeldOnce, OldLapsed, DoneSucceeded, Holds, Present
  <1>4. ASSUME NEW w \in Workers, ReadExpired(w)
        PROVE  Rest'
    BY <1>0, <1>t, <1>4 DEF ReadExpired, historyVars, Owned, HeldOnce, OldLapsed, DoneSucceeded, Holds, Present
  <1>5. ASSUME NEW w \in Workers,
               ListCandidates(w) \/ StartBatch(w) \/ BatchSettled(w) \/ Restart(w)
        PROVE  Rest'
    <2>1. UNCHANGED <<row, expired, claimed, phase, succeeded, lapsed>>
      BY <1>5 DEF ListCandidates, StartBatch, BatchSettled, Restart, localVars, historyVars
    <2> QED BY <1>0, <2>1 DEF Owned, HeldOnce, OldLapsed, DoneSucceeded, Holds, Present
  <1>6. ASSUME NEW w \in Workers, Stamp(w)
        PROVE  Rest'
    <2> DEFINE j == claimed[w]
    <2>1. j \in Jobs /\ Holds(w, j)
      BY <1>t, <1>6 DEF Stamp, Stamping, Holds
    <2>2. \A v \in Workers, k \in Jobs : Holds(v, k)' => Holds(v, k)
      BY <1>t, <1>6, <2>1 DEF Stamp, Holds
    <2>3. \A k \in Jobs : row'[k].state = row[k].state
                         /\ (row'[k].reservedBy = row[k].reservedBy
                              \/ (k = j /\ row'[k].reservedBy = w))
                         /\ (row'[k].reservedAt = "old" => row[k].reservedAt = "old")
      BY <1>t, <1>6, <2>1 DEF Stamp, Update, Row
    <2>4. expired' = expired /\ succeeded' = succeeded /\ lapsed' = lapsed
      BY <1>6 DEF Stamp, historyVars
    <2>5. Owned'
      BY <1>0, <2>1, <2>2, <2>3, <2>4 DEF Owned, HeldOnce, Present
    <2>6. HeldOnce' /\ OldLapsed'
      BY <1>0, <2>2, <2>3, <2>4 DEF HeldOnce, OldLapsed
    <2>7. DoneSucceeded'
      BY <1>0, <1>t, <1>6, <2>1, <2>4 DEF Stamp, DoneSucceeded
    <2> QED BY <2>5, <2>6, <2>7
  <1>7. ASSUME NEW w \in Workers, NEW j \in Jobs, Reclaim(w, j)
        PROVE  Rest'
    <2>1. j \in lapsed
      BY <1>0, <1>7 DEF Reclaim, OldLapsed
    <2>2. \A k \in Jobs : row'[k].state = row[k].state
                         /\ (k # j => row'[k] = row[k])
                         /\ (row'[k].reservedAt = "old" => row[k].reservedAt = "old")
      BY <1>t, <1>7 DEF Reclaim, Update, Released, Row
    <2>3. UNCHANGED <<claimed, phase, succeeded, lapsed>> /\ \A v \in Workers : expired'[v] \subseteq expired[v]
      BY <1>t, <1>7 DEF Reclaim, historyVars
    <2> QED BY <1>0, <2>1, <2>2, <2>3 DEF Owned, HeldOnce, OldLapsed, DoneSucceeded, Holds, Present
  <1>8. ASSUME NEW w \in Workers, NEW j \in Jobs, Claim(w, j)
        PROVE  Rest'
    <2>0. pc[w] = "claim" /\ claimed[w] = None
      BY <1>t, <1>8 DEF Claim, NextCandidate, Stamping
    <2>1. CASE Present(j) /\ row[j].reservedBy = None
      <3>1. /\ row' = [row EXCEPT ![j].reservedBy = w]
            /\ claimed' = [claimed EXCEPT ![w] = j]
            /\ UNCHANGED <<expired, phase, succeeded, lapsed>>
        BY <1>8, <2>1 DEF Claim, historyVars
      <3>2. \A v \in Workers : j \notin lapsed => ~Holds(v, j)
        BY <1>0, <2>1 DEF Owned
      <3>3. \A v \in Workers, k \in Jobs : Holds(v, k)' => Holds(v, k) \/ (v = w /\ k = j)
        BY <1>t, <3>1 DEF Holds
      <3>4. \A k \in Jobs : /\ row'[k].state = row[k].state
                           /\ row'[k].reservedAt = row[k].reservedAt
                           /\ k # j => row'[k] = row[k]
        BY <1>t, <3>1 DEF Row
      <3>5. row'[j].reservedBy = w /\ row[j].state # "new"
        BY <1>t, <2>1, <3>1 DEF Row, Present
      <3>6. Owned'
        BY <1>0, <3>1, <3>2, <3>3, <3>4, <3>5 DEF Owned, Present
      <3>7. HeldOnce'
        BY <1>0, <3>1, <3>2, <3>3 DEF HeldOnce
      <3>8. OldLapsed' /\ DoneSucceeded'
        BY <1>0, <3>1, <3>4 DEF OldLapsed, DoneSucceeded
      <3> QED BY <3>6, <3>7, <3>8
    <2>2. CASE ~(Present(j) /\ row[j].reservedBy = None)
      <3>1. UNCHANGED <<row, expired, claimed, phase, succeeded, lapsed>>
        BY <1>8, <2>2 DEF Claim, historyVars
      <3> QED BY <1>0, <3>1 DEF Owned, HeldOnce, OldLapsed, DoneSucceeded, Holds, Present
    <2> QED BY <2>1, <2>2
  <1>9. ASSUME NEW w \in Workers, NEW j \in Jobs, HandlerSucceeds(w, j)
        PROVE  Rest'
    BY <1>0, <1>t, <1>9 DEF HandlerSucceeds, Working, Owned, HeldOnce, OldLapsed, DoneSucceeded, Holds, Present
  <1>10. ASSUME NEW w \in Workers, NEW j \in Jobs, HandlerThrows(w, j)
         PROVE  Rest'
    BY <1>0, <1>t, <1>10 DEF HandlerThrows, Working, historyVars, Owned, HeldOnce, OldLapsed, DoneSucceeded, Holds, Present
  <1>11. ASSUME NEW w \in Workers, NEW j \in Jobs, Complete(w, j) \/ FailSave(w, j) \/ FailRelease(w, j)
         PROVE  Rest'
    <2>0. pc[w] = "work" /\ claimed[w] = None /\ Holds(w, j)
      BY <1>t, <1>11 DEF Complete, FailSave, FailRelease, Working, Stamping, Holds
    <2>1. UNCHANGED <<expired, claimed, succeeded, lapsed>>
      BY <1>11 DEF Complete, FailSave, FailRelease, historyVars
    <2>2. \A k \in Jobs : k # j => row'[k] = row[k]
      BY <1>t, <1>11 DEF Complete, FailSave, FailRelease, Update
    <2>3. /\ row[j].state = "new" <=> row'[j].state = "new"
          /\ row'[j].reservedAt = "old" => row[j].reservedAt = "old"
          /\ row'[j].state = "deleted" => row[j].state = "deleted" \/ phase[w][j] = "done"
          /\ Present(j)' => Present(j)
          /\ Present(j)' => row'[j].reservedBy = row[j].reservedBy \/ FailRelease(w, j)
      <3>0. row[j] \in Row
        BY <1>t
      <3>1. CASE Complete(w, j)
        BY <1>t, <3>1 DEF Complete, Update, NewRow, Present, Working
      <3>2. CASE FailSave(w, j)
        <4>1. row'[j] = row[j] \/ \E n : row'[j] = [[row[j] EXCEPT !.attempts = n] EXCEPT !.failed = TRUE]
                               \/ row'[j] = [[row[j] EXCEPT !.attempts = n] EXCEPT !.due = FALSE]
          BY <1>t, <3>2 DEF FailSave, Update
        <4> QED BY <3>0, <4>1 DEF Row, Present
      <3>3. CASE FailRelease(w, j)
        <4>1. row'[j] = row[j] \/ row'[j] = Released(row[j])
          BY <1>t, <3>3 DEF FailRelease, Update
        <4> QED BY <3>0, <3>3, <4>1 DEF Row, Released, Present
      <3> QED BY <1>11, <3>1, <3>2, <3>3
    <2>4. \A v \in Workers, k \in Jobs : Holds(v, k)' => Holds(v, k)
      BY <1>t, <1>11, <2>0, <2>1 DEF Complete, FailSave, FailRelease, Holds
    <2>5. \A v \in Workers, k \in Jobs : phase'[v][k] = "done" => phase[v][k] = "done"
      BY <1>t, <1>11 DEF Complete, FailSave, FailRelease
    <2>6. HeldOnce' /\ OldLapsed' /\ DoneSucceeded'
      BY <1>0, <2>1, <2>2, <2>3, <2>4, <2>5 DEF HeldOnce, OldLapsed, DoneSucceeded
    <2>7. Present(j)' => row'[j].reservedBy = row[j].reservedBy \/ ~Holds(w, j)'
      BY <1>t, <2>0, <2>1, <2>3 DEF FailRelease, Holds
    <2>8. Owned'
      BY <1>0, <2>0, <2>1, <2>2, <2>3, <2>4, <2>7 DEF Owned, HeldOnce, Present
    <2> QED BY <2>6, <2>8
  <1>12. ASSUME NEW w \in Workers, Crash(w)
         PROVE  Rest'
    BY <1>0, <1>t, <1>12 DEF Crash, historyVars, Owned, HeldOnce, OldLapsed, DoneSucceeded, Holds, Present
  <1>13. ASSUME NEW s \in Staff, StaffStep(s)
         PROVE  Rest'
    <2>1. PICK j \in Jobs : j = desk[s].job
      BY <1>0, <1>13 DEF StaffStep, StaffRetries, StaffReleases, StaffDiscards, TypeOK, Desk, Idle
    <2>2. UNCHANGED <<expired, claimed, phase, succeeded>> /\ lapsed \subseteq lapsed'
      BY <1>13 DEF StaffStep, StaffRetries, StaffReleases, StaffDiscards, localVars, historyVars
    <2>3. \A k \in Jobs : k # j => row'[k] = row[k]
      BY <1>t, <1>13, <2>1 DEF StaffStep, StaffRetries, StaffReleases, StaffDiscards, Update
    <2>4. /\ row[j].state = "new" <=> row'[j].state = "new"
          /\ row'[j].reservedAt = "old" => row[j].reservedAt = "old"
          /\ row'[j].state = "deleted" => row[j].state = "deleted"
          /\ Present(j)' => Present(j)
          /\ Present(j)' /\ j \notin lapsed' => row'[j].reservedBy = row[j].reservedBy
      <3>0. row[j] \in Row
        BY <1>t, <2>1
      <3>1. CASE StaffRetries(s)
        <4>1. \/ row'[j] = row[j]
              \/ row'[j] = [row[j] EXCEPT !.failed = FALSE, !.attempts = 0, !.due = TRUE]
          BY <1>t, <2>1, <3>1 DEF StaffRetries, Update
        <4> QED BY <3>0, <4>1 DEF Row, Present
      <3>2. CASE StaffReleases(s)
        <4>1. (row'[j] = row[j] \/ row'[j] = Released(row[j])) /\ j \in lapsed'
          BY <1>t, <2>1, <3>2 DEF StaffReleases, Update
        <4> QED BY <3>0, <4>1 DEF Row, Released, Present
      <3>3. CASE StaffDiscards(s)
        BY <1>t, <2>1, <3>3 DEF StaffDiscards, Update, NewRow, Present
      <3> QED BY <1>13, <3>1, <3>2, <3>3 DEF StaffStep
    <2>5. Owned'
      BY <1>0, <2>1, <2>2, <2>3, <2>4 DEF Owned, Holds, Present
    <2>6. HeldOnce' /\ OldLapsed'
      BY <1>0, <2>1, <2>2, <2>3, <2>4 DEF HeldOnce, Holds, OldLapsed
    <2>7. DoneSucceeded'
      BY <1>0, <2>1, <2>2, <2>3, <2>4 DEF DoneSucceeded
    <2> QED BY <2>5, <2>6, <2>7
  <1>14. ASSUME NEW s \in Staff, NEW j \in Jobs, StaffOpens(s, j)
         PROVE  Rest'
    BY <1>0, <1>14 DEF StaffOpens, localVars, historyVars, Owned, HeldOnce, OldLapsed, DoneSucceeded, Holds, Present
  <1>15. CASE UNCHANGED vars
    BY <1>0, <1>15 DEF vars, Owned, HeldOnce, OldLapsed, DoneSucceeded, Holds, Present
  <1> QED
    BY <1>1, <1>2, <1>3, <1>4, <1>5, <1>6, <1>7, <1>8, <1>9, <1>10, <1>11, <1>12, <1>13, <1>14, <1>15
       DEF Next, WorkerStep, JobStep, ClockStep

\* At most one worker has a job whose reservation never lapsed.
THEOREM ExclusiveUntilLapsed == Spec => []HeldOnce
<1>1. QueueInv => HeldOnce
  BY DEF QueueInv
<1> QED BY <1>1, QueueInit, QueueStep, PTL DEF Spec

-------------------------------------------------------------------------------
(* The queue implements AtLeastOnce. *)

PlaceOf == [j \in Jobs |-> Place(row[j])]

OpenOf == [s \in Staff |-> IF desk[s].act = "discard" THEN desk[s].job ELSE None]

\* A step that replaces one row moves at most that job.
LEMMA OneMove ==
  ASSUME NEW j \in Jobs, row \in [Jobs -> Row],
         \A k \in Jobs : k # j => row'[k] = row[k]
  PROVE  PlaceOf' = [PlaceOf EXCEPT ![j] = Place(row'[j])]
  BY DEF PlaceOf

\* A row edit that keeps state and failed keeps the job's place.
LEMMA SamePlace ==
  ASSUME NEW r, NEW q, q.state = r.state, q.failed = r.failed
  PROVE  Place(q) = Place(r)
  BY DEF Place

\* A job somebody is about to throw away has been dispatched.
Opened == \A s \in Staff : OpenOf[s] # None => PlaceOf[OpenOf[s]] # "new"

LEMMA QueueRefines ==
  ASSUME QueueInv, Opened, [Next]_vars
  PROVE  [Promise!Next]_<<PlaceOf, succeeded, OpenOf>>
  <1> USE NoneAssumption
  <1> DEFINE Still == UNCHANGED <<PlaceOf, succeeded>>
             Stutter == UNCHANGED <<PlaceOf, succeeded, OpenOf>>
  <1>t. /\ row \in [Jobs -> Row] /\ row' \in [Jobs -> Row]
        /\ succeeded \subseteq Jobs /\ TypeOK
        /\ Owned /\ DoneSucceeded /\ Stamping
    BY QueueStep DEF QueueInv, Typed, TypeOK
  <1>p. ASSUME \A k \in Jobs : row'[k].state = row[k].state /\ row'[k].failed = row[k].failed
        PROVE  PlaceOf' = PlaceOf
    BY <1>p, SamePlace DEF PlaceOf
  <1>o. ASSUME desk' = desk
        PROVE  OpenOf' = OpenOf
    BY <1>o DEF OpenOf
  <1>1. ASSUME NEW j \in Jobs, Dispatch(j)
        PROVE  Promise!Put(j)
    <2>1. Place(row'[j]) = "queued" /\ Place(row[j]) = "new"
      BY <1>t, <1>1 DEF Dispatch, NewRow, Place
    <2>2. \A k \in Jobs : k # j => row'[k] = row[k]
      BY <1>t, <1>1 DEF Dispatch
    <2>3. succeeded' = succeeded /\ OpenOf' = OpenOf
      BY <1>1, <1>o DEF Dispatch, historyVars
    <2> QED BY <1>t, <2>1, <2>2, <2>3, OneMove DEF Promise!Put, Promise!Move, PlaceOf, OpenOf
  <1>2. ASSUME NEW j \in Jobs, ClockStep(j)
        PROVE  Stutter
    <2>1. \A k \in Jobs : row'[k].state = row[k].state /\ row'[k].failed = row[k].failed
      BY <1>t, <1>2 DEF ClockStep, BecomesDue, ReservationAges, Row
    <2>2. succeeded' = succeeded /\ desk' = desk
      BY <1>2 DEF ClockStep, BecomesDue, ReservationAges, historyVars
    <2> QED BY <1>p, <1>o, <2>1, <2>2
  <1>3. ASSUME NEW w \in Workers, WorkerStep(w) \/ Crash(w)
        PROVE  Stutter
    <2>0. OpenOf' = OpenOf
      <3>1. desk' = desk
        BY <1>3 DEF WorkerStep, ReadExpired, ListCandidates, Stamp, StartBatch, BatchSettled,
                    Restart, Reclaim, Claim, Crash
      <3> QED BY <1>o, <3>1
    <2>1. CASE ReadExpired(w) \/ ListCandidates(w) \/ StartBatch(w)
               \/ BatchSettled(w) \/ Restart(w) \/ Crash(w)
      <3>1. row' = row /\ succeeded' = succeeded
        BY <2>1 DEF ReadExpired, ListCandidates, StartBatch, BatchSettled, Restart, Crash, historyVars
      <3>2. PlaceOf' = PlaceOf
        BY <3>1 DEF PlaceOf
      <3> QED BY <2>0, <3>1, <3>2
    <2>2. CASE Stamp(w)
      <3>1. claimed[w] \in Jobs /\ succeeded' = succeeded
        BY <1>t, <2>2 DEF Stamp, Stamping, TypeOK, historyVars
      <3>2. \A k \in Jobs : row'[k].state = row[k].state /\ row'[k].failed = row[k].failed
        BY <1>t, <2>2, <3>1 DEF Stamp, Update, Row
      <3> QED BY <1>p, <2>0, <3>1, <3>2
    <2>3. ASSUME NEW j \in Jobs, Reclaim(w, j)
          PROVE  Stutter
      <3>1. \A k \in Jobs : row'[k].state = row[k].state /\ row'[k].failed = row[k].failed
        BY <1>t, <2>3 DEF Reclaim, Update, Released, Row
      <3>2. succeeded' = succeeded
        BY <2>3 DEF Reclaim, historyVars
      <3> QED BY <1>p, <2>0, <3>1, <3>2
    <2>4. ASSUME NEW j \in Jobs, Claim(w, j)
          PROVE  Stutter
      <3>1. \A k \in Jobs : row'[k].state = row[k].state /\ row'[k].failed = row[k].failed
        BY <1>t, <2>4 DEF Claim, Row
      <3>2. succeeded' = succeeded
        BY <2>4 DEF Claim, historyVars
      <3> QED BY <1>p, <2>0, <3>1, <3>2
    <2> QED BY <1>3, <2>1, <2>2, <2>3, <2>4 DEF WorkerStep
  <1>4. ASSUME NEW w \in Workers, NEW j \in Jobs, JobStep(w, j)
        PROVE  \/ Promise!Run(j) \/ Promise!Finish(j) \/ Promise!Park(j) \/ Stutter
    <2>0. OpenOf' = OpenOf
      <3>1. desk' = desk
        BY <1>4 DEF JobStep, HandlerSucceeds, HandlerThrows, Complete, FailSave, FailRelease
      <3> QED BY <1>o, <3>1
    <2>1. CASE HandlerSucceeds(w, j)
      <3>1. row[j].state # "new" /\ row' = row /\ succeeded' = succeeded \cup {j}
        BY <1>t, <2>1 DEF HandlerSucceeds, Working, Owned, Holds
      <3>2. PlaceOf[j] # "new" /\ PlaceOf' = PlaceOf
        BY <1>t, <3>1 DEF PlaceOf, Place, Row
      <3> QED BY <2>0, <3>1, <3>2 DEF Promise!Run, PlaceOf, OpenOf
    <2>2. CASE HandlerThrows(w, j)
      <3>1. row' = row /\ succeeded' = succeeded
        BY <2>2 DEF HandlerThrows, historyVars
      <3> QED BY <2>0, <3>1 DEF PlaceOf
    <2>3. CASE Complete(w, j)
      <3>1. j \in succeeded /\ succeeded' = succeeded
        BY <1>t, <2>3 DEF Complete, Working, DoneSucceeded, historyVars
      <3>2. CASE Present(j)
        <4>1. Place(row'[j]) = "done" /\ Place(row[j]) \in {"queued", "parked"}
          BY <1>t, <2>3, <3>2 DEF Complete, Update, NewRow, Present, Place
        <4>2. \A k \in Jobs : k # j => row'[k] = row[k]
          BY <1>t, <2>3 DEF Complete, Update
        <4> QED BY <1>t, <2>0, <3>1, <4>1, <4>2, OneMove
                   DEF Promise!Finish, Promise!Move, PlaceOf, OpenOf
      <3>3. CASE ~Present(j)
        <4>1. row' = row
          BY <1>t, <2>3, <3>3 DEF Complete, Update
        <4> QED BY <2>0, <3>1, <4>1 DEF PlaceOf
      <3> QED BY <3>2, <3>3
    <2>4. CASE FailSave(w, j)
      <3>1. succeeded' = succeeded /\ \A k \in Jobs : k # j => row'[k] = row[k]
        BY <1>t, <2>4 DEF FailSave, Update, historyVars
      <3>2. \/ row'[j] = row[j]
            \/ \E n : row'[j] = [[row[j] EXCEPT !.attempts = n] EXCEPT !.due = FALSE]
            \/ Present(j) /\ \E n : row'[j] = [[row[j] EXCEPT !.attempts = n] EXCEPT !.failed = TRUE]
        BY <1>t, <2>4 DEF FailSave, Update
      <3>3. CASE row'[j].state = row[j].state /\ row'[j].failed = row[j].failed
        BY <1>p, <2>0, <3>1, <3>3
      <3>4. CASE ~(row'[j].state = row[j].state /\ row'[j].failed = row[j].failed)
        <4>1. /\ row[j].state = "present" /\ ~row[j].failed
              /\ row'[j].state = "present" /\ row'[j].failed
          BY <1>t, <3>2, <3>4 DEF Row, Present
        <4>2. Place(row[j]) = "queued" /\ Place(row'[j]) = "parked"
          BY <4>1 DEF Place
        <4> QED BY <1>t, <2>0, <3>1, <4>2, OneMove DEF Promise!Park, Promise!Move, PlaceOf, OpenOf
      <3> QED BY <3>3, <3>4
    <2>5. CASE FailRelease(w, j)
      <3>1. \A k \in Jobs : row'[k].state = row[k].state /\ row'[k].failed = row[k].failed
        BY <1>t, <2>5 DEF FailRelease, Update, Released, Row
      <3>2. succeeded' = succeeded
        BY <2>5 DEF FailRelease, historyVars
      <3> QED BY <1>p, <2>0, <3>1, <3>2
    <2> QED BY <1>4, <2>1, <2>2, <2>3, <2>4, <2>5 DEF JobStep
  <1>5. ASSUME NEW s \in Staff, StaffStep(s)
        PROVE  \/ Stutter \/ Promise!Discard(s) \/ Promise!DiscardOvertaken(s)
               \/ Promise!DiscardNothing(s) \/ \E j \in Jobs : Promise!Unpark(j)
    <2>1. PICK j \in Jobs : j = desk[s].job
      BY <1>t, <1>5 DEF StaffStep, StaffRetries, StaffReleases, StaffDiscards, TypeOK, Desk, Idle
    <2>2. succeeded' = succeeded /\ \A k \in Jobs : k # j => row'[k] = row[k]
      BY <1>t, <1>5, <2>1 DEF StaffStep, StaffRetries, StaffReleases, StaffDiscards, Update, historyVars
    <2>3. desk \in [Staff -> Desk] /\ desk[s] \in [act : {"retry", "release", "discard"}, job : Jobs]
      BY <1>t, <1>5 DEF TypeOK, Desk, Idle, StaffStep, StaffRetries, StaffReleases, StaffDiscards
    <2>4. CASE StaffRetries(s)
      <3>1. OpenOf' = OpenOf
        BY <2>3, <2>4 DEF StaffRetries, OpenOf
      <3>2. \/ row'[j] = row[j]
            \/ Present(j) /\ row'[j] = [row[j] EXCEPT !.failed = FALSE, !.attempts = 0, !.due = TRUE]
        BY <1>t, <2>1, <2>4 DEF StaffRetries, Update
      <3>3. CASE row'[j].state = row[j].state /\ row'[j].failed = row[j].failed
        BY <1>p, <2>2, <3>1, <3>3
      <3>4. CASE ~(row'[j].state = row[j].state /\ row'[j].failed = row[j].failed)
        <4>1. /\ row[j].state = "present" /\ row[j].failed
              /\ row'[j].state = "present" /\ ~row'[j].failed
          BY <1>t, <3>2, <3>4 DEF Row, Present
        <4>2. Place(row[j]) = "parked" /\ Place(row'[j]) = "queued"
          BY <4>1 DEF Place
        <4> QED BY <1>t, <2>2, <3>1, <4>2, OneMove DEF Promise!Unpark, Promise!Move, PlaceOf, OpenOf
      <3> QED BY <3>3, <3>4
    <2>5. CASE StaffReleases(s)
      <3>1. OpenOf' = OpenOf
        BY <2>3, <2>5 DEF StaffReleases, OpenOf, Idle
      <3>2. row'[j] = row[j] \/ row'[j] = Released(row[j])
        BY <1>t, <2>1, <2>5 DEF StaffReleases, Update
      <3>3. row'[j].state = row[j].state /\ row'[j].failed = row[j].failed
        BY <1>t, <3>2 DEF Released, Row
      <3> QED BY <1>p, <2>2, <3>1, <3>3
    <2>6. CASE StaffDiscards(s)
      <3>1. /\ OpenOf \in [Staff -> Jobs \cup {None}]
            /\ OpenOf[s] = j /\ OpenOf' = [OpenOf EXCEPT ![s] = None]
        <4>1. \A t \in Staff : desk[t].act = "discard" => desk[t].job \in Jobs
          BY <2>3 DEF Desk, Idle
        <4>2. desk[s].act = "discard" /\ desk' = [desk EXCEPT ![s] = Idle]
          BY <2>6 DEF StaffDiscards
        <4>3. desk'[s].act # "discard" /\ \A t \in Staff : t # s => desk'[t] = desk[t]
          BY <2>3, <4>2 DEF Idle
        <4>4. OpenOf' = [t \in Staff |-> IF t = s THEN None ELSE OpenOf[t]]
          BY <4>3 DEF OpenOf
        <4>5. OpenOf \in [Staff -> Jobs \cup {None}] /\ OpenOf[s] = j
          BY <2>1, <4>1, <4>2 DEF OpenOf
        <4> QED BY <4>4, <4>5
      <3>2. PlaceOf[j] # "new" /\ PlaceOf[j] = Place(row[j])
        BY <3>1 DEF Opened, PlaceOf
      <3>3. CASE Present(j)
        <4>1. row'[j] = [NewRow EXCEPT !.state = "discarded"]
          BY <1>t, <2>1, <2>6, <3>3 DEF StaffDiscards, Update
        <4>2. Place(row[j]) \in {"queued", "parked"} /\ Place(row'[j]) = "discarded"
          BY <3>3, <4>1 DEF Place, Present, NewRow
        <4> QED BY <1>t, <2>2, <3>1, <3>2, <4>2, OneMove
                   DEF Promise!Discard, Promise!DiscardOvertaken, Promise!Closes, Promise!Move,
                       PlaceOf, OpenOf
      <3>4. CASE ~Present(j)
        <4>1. row'[j] = row[j]
          BY <1>t, <2>1, <2>6, <3>4 DEF StaffDiscards, Update
        <4>2. PlaceOf' = PlaceOf
          BY <1>p, <2>2, <4>1
        <4>3. PlaceOf[j] \in {"done", "discarded"}
          BY <1>t, <3>2, <3>4 DEF Place, Present, Row
        <4> QED BY <2>2, <3>1, <4>2, <4>3 DEF Promise!DiscardNothing, Promise!Closes, PlaceOf, OpenOf
      <3> QED BY <3>3, <3>4
    <2> QED BY <1>5, <2>4, <2>5, <2>6 DEF StaffStep
  <1>6. ASSUME NEW s \in Staff, NEW j \in Jobs, StaffOpens(s, j)
        PROVE  Stutter \/ Promise!Open(s, j)
    <2>1. Still
      BY <1>6 DEF StaffOpens, PlaceOf, historyVars
    <2>2. PICK act \in {"retry", "discard"} : desk' = [desk EXCEPT ![s] = [act |-> act, job |-> j]]
      BY <1>6 DEF StaffOpens
    <2>3. desk \in [Staff -> Desk] /\ desk[s] = Idle /\ Place(row[j]) = "parked"
      BY <1>t, <1>6 DEF TypeOK, StaffOpens, Place, Present
    <2>4. CASE act = "retry"
      <3>1. OpenOf' = OpenOf
        BY <2>2, <2>3, <2>4 DEF OpenOf, Idle
      <3> QED BY <2>1, <3>1
    <2>5. CASE act = "discard"
      <3>1. OpenOf' = [OpenOf EXCEPT ![s] = j] /\ OpenOf[s] = None
        <4>1. desk'[s].act = "discard" /\ desk'[s].job = j
          BY <2>2, <2>3, <2>5
        <4>2. \A t \in Staff : t # s => desk'[t] = desk[t]
          BY <2>2, <2>3
        <4>3. desk[s].act # "discard"
          BY <2>3 DEF Idle
        <4> QED BY <4>1, <4>2, <4>3 DEF OpenOf
      <3>2. PlaceOf[j] = "parked"
        BY <2>3 DEF PlaceOf
      <3> QED BY <2>1, <3>1, <3>2 DEF Promise!Open, PlaceOf, OpenOf
    <2> QED BY <2>2, <2>4, <2>5
  <1>7. CASE UNCHANGED vars
    BY <1>7 DEF vars, PlaceOf, OpenOf
  <1> QED BY <1>1, <1>2, <1>3, <1>4, <1>5, <1>6, <1>7 DEF Next, Promise!Next

\* The contract itself never takes a job back to where it was not dispatched.
LEMMA OpenedStep ==
  ASSUME Opened, [Promise!Next]_<<PlaceOf, succeeded, OpenOf>>
  PROVE  Opened'
  <1> USE NoneAssumption
  <1>0. OpenOf \in [Staff -> UNION {{desk[s].job : s \in Staff}, {None}}] /\ DOMAIN PlaceOf = Jobs
    BY DEF OpenOf, PlaceOf
  <1>1. ASSUME NEW j \in Jobs, NEW to \in {"queued", "parked", "done", "discarded"},
               OpenOf' = OpenOf \/ (\E s \in Staff : OpenOf' = [OpenOf EXCEPT ![s] = None]),
               PlaceOf' = [PlaceOf EXCEPT ![j] = to]
        PROVE  Opened'
    BY <1>0, <1>1 DEF Opened
  <1>2. ASSUME OpenOf' = OpenOf \/ (\E s \in Staff : OpenOf' = [OpenOf EXCEPT ![s] = None]),
               PlaceOf' = PlaceOf
        PROVE  Opened'
    BY <1>0, <1>2 DEF Opened
  <1>3. ASSUME NEW j \in Jobs, Promise!Put(j) \/ Promise!Finish(j) \/ Promise!Park(j) \/ Promise!Unpark(j)
        PROVE  Opened'
    <2>1. OpenOf' = OpenOf
      BY <1>3 DEF Promise!Put, Promise!Finish, Promise!Park, Promise!Unpark, OpenOf
    <2>2. PICK to \in {"queued", "parked", "done", "discarded"} : PlaceOf' = [PlaceOf EXCEPT ![j] = to]
      BY <1>3 DEF Promise!Put, Promise!Finish, Promise!Park, Promise!Unpark, Promise!Move, PlaceOf
    <2> QED BY <1>1, <2>1, <2>2
  <1>4. ASSUME NEW j \in Jobs, Promise!Run(j)
        PROVE  Opened'
    <2>1. OpenOf' = OpenOf /\ PlaceOf' = PlaceOf
      BY <1>4 DEF Promise!Run, OpenOf, PlaceOf
    <2> QED BY <1>2, <2>1
  <1>5. ASSUME NEW s \in Staff, Promise!Discard(s) \/ Promise!DiscardOvertaken(s)
        PROVE  Opened'
    <2>1. OpenOf' = [OpenOf EXCEPT ![s] = None] /\ OpenOf[s] # None
      BY <1>5 DEF Promise!Discard, Promise!DiscardOvertaken, Promise!Closes, OpenOf
    <2>2. PlaceOf' = [PlaceOf EXCEPT ![OpenOf[s]] = "discarded"]
      BY <1>5 DEF Promise!Discard, Promise!DiscardOvertaken, Promise!Move, OpenOf, PlaceOf
    <2> QED BY <1>0, <2>1, <2>2 DEF Opened
  <1>6. ASSUME NEW s \in Staff, Promise!DiscardNothing(s)
        PROVE  Opened'
    <2>1. OpenOf' = [OpenOf EXCEPT ![s] = None] /\ PlaceOf' = PlaceOf
      BY <1>6 DEF Promise!DiscardNothing, Promise!Closes, OpenOf, PlaceOf
    <2> QED BY <1>2, <2>1
  <1>7. ASSUME NEW s \in Staff, NEW j \in Jobs, Promise!Open(s, j)
        PROVE  Opened'
    <2>1. OpenOf' = [OpenOf EXCEPT ![s] = j] /\ PlaceOf' = PlaceOf /\ PlaceOf[j] = "parked"
      BY <1>7 DEF Promise!Open, OpenOf, PlaceOf
    <2> QED BY <1>0, <2>1 DEF Opened
  <1>8. CASE UNCHANGED <<PlaceOf, succeeded, OpenOf>>
    BY <1>2, <1>8
  <1> QED BY <1>3, <1>4, <1>5, <1>6, <1>7, <1>8 DEF Promise!Next, PlaceOf, OpenOf

\* The queue keeps the at-least-once contract for any number of workers, jobs,
\* people and crashes: a job leaves only after a handler finished it, or at the
\* hand of somebody who found it failed, and never comes back.
THEOREM Implements == Spec => AtLeastOnce
<1>1. Init => Promise!Init /\ Opened
  BY DEF Init, Promise!Init, NewRow, Place, Idle, Opened, OpenOf
<1>2. QueueInv /\ Opened /\ [Next]_vars => [Promise!Next]_<<PlaceOf, succeeded, OpenOf>>
  BY QueueRefines
<1>3. Opened /\ [Promise!Next]_<<PlaceOf, succeeded, OpenOf>> => Opened'
  BY OpenedStep
<1> QED BY <1>1, <1>2, <1>3, QueueInit, QueueStep, PTL
           DEF Spec, AtLeastOnce, Promise!Spec, PlaceOf, OpenOf

===============================================================================
