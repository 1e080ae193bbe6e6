------------------------------- MODULE ApiUsage --------------------------------
(***************************************************************************)
(* The API calls of one organization: a raw row for each, the row of the   *)
(* day they are counted in, and the nightly job that counts and prunes     *)
(* (queue/jobs/rollup_api_usage_job.ts).                                   *)
(*                                                                         *)
(* Time moves in half days, so a day has an earlier and a later half: the  *)
(* job counts by calendar day and prunes by age.                           *)
(***************************************************************************)
EXTENDS Integers, FiniteSets

CONSTANTS
    Calls,          \* identifiers of rows of api_requests
    Retention,      \* RAW_RETENTION_DAYS
    MaxTime,        \* bound on the clock
    MaxFaults       \* bound on runs that die

VARIABLES
    now,            \* the clock, in half days
    made,           \* when each call was made; -1 before
    raw,            \* the calls whose row is in api_requests
    total,          \* api_usage_days.requests; 0 when there is no row
    job,            \* the nightly run: its stage and what it has listed
    faults

vars == <<now, made, raw, total, job, faults>>

Day(t) == t \div 2
Days == 0 .. Day(MaxTime)
Of(day, calls) == {c \in calls : Day(made[c]) = day}
Asleep == [stage |-> "asleep", listed |-> {}]

Init ==
    /\ now = 0
    /\ made = [c \in Calls |-> -1]
    /\ raw = {}
    /\ total = [d \in Days |-> 0]
    /\ job = Asleep
    /\ faults = 0

\* track_api_usage writes a row for each call.
Request(c) ==
    /\ made[c] = -1
    /\ made' = [made EXCEPT ![c] = now]
    /\ raw' = raw \cup {c}
    /\ UNCHANGED <<now, total, job, faults>>

\* A run is over within the half day.
Tick ==
    /\ now < MaxTime
    /\ job = Asleep
    /\ now' = now + 1
    /\ UNCHANGED <<made, raw, total, job, faults>>

\* rollup(): every raw row still present is read ...
Start ==
    /\ job = Asleep
    /\ job' = [stage |-> "rollup", listed |-> raw]
    /\ UNCHANGED <<now, made, raw, total, faults>>

\* ... and the total of each day among them recomputed, not incremented.
Upsert(day) ==
    /\ job.stage = "rollup"
    /\ Of(day, job.listed) # {}
    /\ total' = [total EXCEPT ![day] = Cardinality(Of(day, job.listed))]
    /\ job' = [job EXCEPT !.listed = @ \ Of(day, @)]
    /\ UNCHANGED <<now, made, raw, faults>>

\* prune(): the rows older than the retention, to the hour ...
List ==
    /\ job.stage = "rollup"
    /\ job.listed = {}
    /\ job' = [stage |-> "prune", listed |-> {c \in raw : made[c] <= now - 2 * Retention}]
    /\ UNCHANGED <<now, made, raw, total, faults>>

\* ... are deleted one by one, unless their day has no total.
Prune(c) ==
    /\ job.stage = "prune"
    /\ c \in job.listed
    /\ raw' = IF total[Day(made[c])] > 0 THEN raw \ {c} ELSE raw
    /\ job' = [job EXCEPT !.listed = @ \ {c}]
    /\ UNCHANGED <<now, made, total, faults>>

Finish ==
    /\ job.stage = "prune"
    /\ job.listed = {}
    /\ job' = Asleep
    /\ UNCHANGED <<now, made, raw, total, faults>>

Crash ==
    /\ job # Asleep
    /\ faults < MaxFaults
    /\ faults' = faults + 1
    /\ job' = Asleep
    /\ UNCHANGED <<now, made, raw, total>>

Next ==
    \/ \E c \in Calls : Request(c) \/ Prune(c)
    \/ \E d \in Days : Upsert(d)
    \/ Tick \/ Start \/ List \/ Finish \/ Crash

Spec == Init /\ [][Next]_vars

-----------------------------------------------------------------------------
\* "Only rows whose day has already been rolled up are removed, so a pruning
\* run that outpaces the rollup cannot lose a day's numbers"
\* (rollup_api_usage_job.ts:109-110): once rows of a day have been pruned, its
\* total is the number of its calls.
TotalsStand ==
    \A d \in Days :
        LET calls == Of(d, {c \in Calls : made[c] >= 0}) IN
        ~(calls \subseteq raw) => total[d] = Cardinality(calls)
=============================================================================
