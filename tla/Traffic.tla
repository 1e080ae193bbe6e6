-------------------------------- MODULE Traffic --------------------------------
(***************************************************************************)
(* The traffic of the license API, counted in the memory of each process   *)
(* and written about once a minute (licensing/traffic.ts).                 *)
(*                                                                         *)
(* Every await is a step.  A KEY is a day, a product and an endpoint; an   *)
(* ADDRESS is a license used from an address on one day.  A CALL is one    *)
(* call of flush(): the timer's, an early one, or the one at the end of    *)
(* the process.                                                            *)
(***************************************************************************)
EXTENDS Faults

CONSTANTS
    Processes,      \* web processes
    Keys,           \* rows of license_api_days
    Addresses,      \* rows of license_ip_days
    Calls,          \* calls of flush() by timers, at once in one process
    Last,           \* the call when the process terminates
    MaxHits         \* bound on the requests

ASSUME NamesApart == None \notin Calls \cup Keys \cup {Last} /\ Last \notin Calls
ASSUME FiniteNames == IsFiniteSet(Processes) /\ IsFiniteSet(Calls) /\ IsFiniteSet(Keys)
ASSUME HitBound == MaxHits \in Nat

VARIABLES
    life,           \* up, stopping or gone
    counts,         \* #counts, by process and key
    sightings,      \* #sightings
    recent,         \* #recent
    timer,          \* #timer is set
    flushing,       \* #flushing: the call whose write is awaited, or None
    call,           \* how far each call of flush() is
    row,            \* license_api_days.requests; 0 when there is no row
    recorded,       \* license_ip_days
    served,         \* history: requests
    twice,          \* history: requests put back although they were written
    dropped,        \* history: requests that no buffer and no row has
    putBack         \* history: processes whose last write failed

memory == <<life, counts, sightings, recent, timer, flushing, call>>
database == <<row, recorded>>
history == <<faults, served, twice, dropped, putBack>>
trafficVars == <<life, counts, sightings, recent, timer, flushing, call, row, recorded,
                 faults, served, twice, dropped, putBack>>

AllCalls == Calls \cup {Last}
Zero == [k \in Keys |-> 0]

\* A call waits `for` another; it writes the keys that are `left` of its
\* `counts`, one at a time, then its sightings.
Call == [at : {"idle", "waiting", "woken", "writing", "insert", "again"},
         for : AllCalls \cup {None}, key : Keys \cup {None},
         counts : [Keys -> Nat], left : SUBSET Keys, sightings : SUBSET Addresses]
NoCall == [at |-> "idle", for |-> None, key |-> None,
           counts |-> Zero, left |-> {}, sightings |-> {}]

TrafficTypeOK ==
    /\ life \in [Processes -> {"up", "stopping", "gone"}]
    /\ counts \in [Processes -> [Keys -> Nat]]
    /\ sightings \in [Processes -> SUBSET Addresses]
    /\ recent \in [Processes -> SUBSET Addresses]
    /\ timer \in [Processes -> BOOLEAN]
    /\ flushing \in [Processes -> AllCalls \cup {None}]
    /\ call \in [Processes -> [AllCalls -> Call]]
    /\ row \in [Keys -> Nat]
    /\ recorded \in SUBSET Addresses
    /\ faults \in 0 .. MaxFaults
    /\ served \in [Keys -> Nat]
    /\ twice \in [Keys -> Nat]
    /\ dropped \in [Keys -> Nat]
    /\ putBack \in SUBSET Processes

TrafficInit ==
    /\ life = [p \in Processes |-> "up"]
    /\ counts = [p \in Processes |-> Zero]
    /\ sightings = [p \in Processes |-> {}]
    /\ recent = [p \in Processes |-> {}]
    /\ timer = [p \in Processes |-> FALSE]
    /\ flushing = [p \in Processes |-> None]
    /\ call = [p \in Processes |-> [c \in AllCalls |-> NoCall]]
    /\ row = Zero
    /\ recorded = {}
    /\ faults = 0
    /\ served = Zero
    /\ twice = Zero
    /\ dropped = Zero
    /\ putBack = {}

Writing(p, c) == call[p][c].at \in {"writing", "insert", "again"}

-----------------------------------------------------------------------------
(* Requests. *)

\* hit(): the process serves requests until it has gone.
Hit(p, k) ==
    /\ life[p] # "gone"
    /\ SumFunction(served) < MaxHits
    /\ counts' = [counts EXCEPT ![p][k] = @ + 1]
    /\ served' = [served EXCEPT ![k] = @ + 1]
    /\ timer' = [timer EXCEPT ![p] = TRUE]
    /\ UNCHANGED <<life, sightings, recent, flushing, call, database,
                   faults, twice, dropped, putBack>>

\* saw(): an address this process has seen today is not remembered again.
Saw(p, a) ==
    /\ life[p] # "gone"
    /\ a \notin recent[p]
    /\ recent' = [recent EXCEPT ![p] = @ \cup {a}]
    /\ sightings' = [sightings EXCEPT ![p] = @ \cup {a}]
    /\ timer' = [timer EXCEPT ![p] = TRUE]
    /\ UNCHANGED <<life, counts, flushing, call, database, history>>

-----------------------------------------------------------------------------
(* flush() *)

Buffered(p) == counts[p] # Zero \/ sightings[p] # {}

\* What is buffered is taken out, in the same turn of the event loop in which
\* the write begins.
Take(p, c) ==
    IF Buffered(p)
    THEN /\ call' = [call EXCEPT ![p][c] =
               [at |-> "writing", for |-> None, key |-> None, counts |-> counts[p],
                left |-> {k \in Keys : counts[p][k] > 0}, sightings |-> sightings[p]]]
         /\ flushing' = [flushing EXCEPT ![p] = c]
         /\ counts' = [counts EXCEPT ![p] = Zero]
         /\ sightings' = [sightings EXCEPT ![p] = {}]
         /\ putBack' = putBack \ {p}
    ELSE /\ call' = [call EXCEPT ![p][c] = NoCall]
         /\ UNCHANGED <<counts, sightings, flushing, putBack>>

\* A call waits for the write that is in flight when it is made, and for no
\* later one.
Flush(p, c) ==
    /\ call[p][c] = NoCall
    /\ IF flushing[p] # None
       THEN /\ call' = [call EXCEPT ![p][c] = [NoCall EXCEPT !.at = "waiting", !.for = flushing[p]]]
            /\ UNCHANGED <<counts, sightings, flushing, putBack>>
       ELSE Take(p, c)
    /\ UNCHANGED <<recent, database, faults, served, twice, dropped>>

\* The timer is set by requests only.
Fires(p, c) ==
    /\ life[p] # "gone"
    /\ timer[p]
    /\ timer' = [timer EXCEPT ![p] = FALSE]
    /\ Flush(p, c)
    /\ UNCHANGED life

Resume(p, c) ==
    /\ call[p][c].at = "woken"
    /\ Take(p, c)
    /\ UNCHANGED <<life, recent, timer, database, faults, served, twice, dropped>>

\* app.terminating: a last flush ...
Terminate(p) ==
    /\ life[p] = "up"
    /\ life' = [life EXCEPT ![p] = "stopping"]
    /\ Flush(p, Last)
    /\ UNCHANGED timer

\* The calls once the write of c has settled: its waiters go on.
Settled(p, c) ==
    [d \in AllCalls |-> IF d = c THEN NoCall
                        ELSE IF call[p][d].at = "waiting" /\ call[p][d].for = c
                        THEN [NoCall EXCEPT !.at = "woken"] ELSE call[p][d]]

\* Mutant of Finish: #flushing is not reset.
FinishHeld(p, c) ==
    /\ call[p][c].at = "writing"
    /\ call[p][c].left = {} /\ call[p][c].sightings = {}
    /\ call' = [call EXCEPT ![p] = Settled(p, c)]
    /\ UNCHANGED <<life, counts, sightings, recent, timer, flushing, database, history>>

Finish(p, c) ==
    /\ call[p][c].at = "writing"
    /\ call[p][c].left = {} /\ call[p][c].sightings = {}
    /\ call' = [call EXCEPT ![p] = Settled(p, c)]
    /\ flushing' = [flushing EXCEPT ![p] = None]
    /\ UNCHANGED <<life, counts, sightings, recent, timer, database, history>>

\* Mutant of Fail: the numbers are taken from those buffered since.
FailSubtracts(p, c) ==
    LET r == call[p][c] IN
    /\ Writing(p, c)
    /\ r.left # {}
    /\ Fault
    /\ call' = [call EXCEPT ![p] = Settled(p, c)]
    /\ flushing' = [flushing EXCEPT ![p] = None]
    /\ counts' = [counts EXCEPT ![p] = [k \in Keys |-> @[k] - r.counts[k]]]
    /\ twice' = [k \in Keys |-> twice[k] + (IF k \in r.left THEN 0 ELSE r.counts[k])]
    /\ putBack' = putBack \cup {p}
    /\ UNCHANGED <<life, sightings, recent, timer, database, served, dropped>>

\* A statement fails: every number the call has taken is put back, those it
\* has written too; the sightings are not.
Fail(p, c) ==
    LET r == call[p][c] IN
    /\ Writing(p, c)
    /\ r.left # {}
    /\ Fault
    /\ call' = [call EXCEPT ![p] = Settled(p, c)]
    /\ flushing' = [flushing EXCEPT ![p] = None]
    /\ counts' = [counts EXCEPT ![p] = [k \in Keys |-> @[k] + r.counts[k]]]
    /\ twice' = [k \in Keys |-> twice[k] + (IF k \in r.left THEN 0 ELSE r.counts[k])]
    /\ putBack' = putBack \cup {p}
    /\ UNCHANGED <<life, sightings, recent, timer, database, served, dropped>>

-----------------------------------------------------------------------------
(* #write *)

\* The keys and the sightings left once one statement has ended.
Written(p, c) ==
    call' = [call EXCEPT ![p][c].at = "writing", ![p][c].left = @ \ {call[p][c].key},
                         ![p][c].key = None]

\* An update that finds the row is the end of the entry.
Update(p, c, k) ==
    /\ call[p][c].at = "writing"
    /\ k \in call[p][c].left
    /\ IF row[k] > 0
       THEN /\ row' = [row EXCEPT ![k] = @ + call[p][c].counts[k]]
            /\ call' = [call EXCEPT ![p][c].left = @ \ {k}]
       ELSE /\ call' = [call EXCEPT ![p][c].at = "insert", ![p][c].key = k]
            /\ UNCHANGED row
    /\ UNCHANGED <<life, counts, sightings, recent, timer, flushing, recorded, history>>

\* The unique index refuses a second row.
Insert(p, c) ==
    LET k == call[p][c].key IN
    /\ call[p][c].at = "insert"
    /\ IF row[k] = 0
       THEN row' = [row EXCEPT ![k] = call[p][c].counts[k]] /\ Written(p, c)
       ELSE call' = [call EXCEPT ![p][c].at = "again"] /\ UNCHANGED row
    /\ UNCHANGED <<life, counts, sightings, recent, timer, flushing, recorded, history>>

\* The catch takes every error for that of the unique index.
InsertFails(p, c) ==
    /\ call[p][c].at = "insert"
    /\ Fault
    /\ call' = [call EXCEPT ![p][c].at = "again"]
    /\ UNCHANGED <<life, counts, sightings, recent, timer, flushing, database,
                   served, twice, dropped, putBack>>

\* Mutant of Increment: a refused insert ends the entry.
IncrementNothing(p, c) ==
    /\ call[p][c].at = "again"
    /\ Written(p, c)
    /\ UNCHANGED <<life, counts, sightings, recent, timer, flushing, database, history>>

\* The second increment, whose result nobody looks at.
Increment(p, c) ==
    LET k == call[p][c].key
        n == call[p][c].counts[k]
    IN  /\ call[p][c].at = "again"
        /\ IF row[k] > 0
           THEN row' = [row EXCEPT ![k] = @ + n] /\ UNCHANGED dropped
           ELSE dropped' = [dropped EXCEPT ![k] = @ + n] /\ UNCHANGED row
        /\ Written(p, c)
        /\ UNCHANGED <<life, counts, sightings, recent, timer, flushing, recorded,
                       faults, served, twice, putBack>>

\* Mutant of Record: the sightings of a write that has counts are left out.
RecordAlone(p, c, a) ==
    /\ call[p][c].at = "writing"
    /\ call[p][c].left = {}
    /\ a \in call[p][c].sightings
    /\ call' = [call EXCEPT ![p][c].sightings = @ \ {a}]
    /\ recorded' = IF call[p][c].counts = Zero THEN recorded \cup {a} ELSE recorded
    /\ UNCHANGED <<life, counts, sightings, recent, timer, flushing, row, history>>

Record(p, c, a) ==
    /\ call[p][c].at = "writing"
    /\ call[p][c].left = {}
    /\ a \in call[p][c].sightings
    /\ call' = [call EXCEPT ![p][c].sightings = @ \ {a}]
    /\ recorded' = recorded \cup {a}
    /\ UNCHANGED <<life, counts, sightings, recent, timer, flushing, row, history>>

\* Every error is taken for "already recorded".
RecordFails(p, c, a) ==
    /\ call[p][c].at = "writing"
    /\ call[p][c].left = {}
    /\ a \in call[p][c].sightings
    /\ Fault
    /\ call' = [call EXCEPT ![p][c].sightings = @ \ {a}]
    /\ UNCHANGED <<life, counts, sightings, recent, timer, flushing, database,
                   served, twice, dropped, putBack>>

-----------------------------------------------------------------------------
(* The end of a process. *)

\* What a call, and what the process, still has to write of a key.
Share(r, k) == IF k \in r.left THEN r.counts[k] ELSE 0
InFlight(p, k) == SumFunction([c \in AllCalls |-> Share(call[p][c], k)])
Unwritten(p, k) == counts[p][k] + InFlight(p, k)

Gone(p) ==
    /\ life' = [life EXCEPT ![p] = "gone"]
    /\ dropped' = [k \in Keys |-> dropped[k] + Unwritten(p, k)]
    /\ counts' = [counts EXCEPT ![p] = Zero]
    /\ sightings' = [sightings EXCEPT ![p] = {}]
    /\ recent' = [recent EXCEPT ![p] = {}]
    /\ timer' = [timer EXCEPT ![p] = FALSE]
    /\ flushing' = [flushing EXCEPT ![p] = None]
    /\ call' = [call EXCEPT ![p] = [c \in AllCalls |-> NoCall]]
    /\ putBack' = putBack \ {p}
    /\ UNCHANGED <<database, served, twice>>

\* ... and the process ends when that call has returned.
Exit(p) ==
    /\ life[p] = "stopping"
    /\ call[p][Last] = NoCall
    /\ Gone(p)
    /\ UNCHANGED faults

Die(p) ==
    /\ life[p] # "gone"
    /\ Fault
    /\ Gone(p)

-----------------------------------------------------------------------------
Write(p, c) ==
    \/ \E k \in Keys : Update(p, c, k)
    \/ Insert(p, c) \/ Increment(p, c)
    \/ \E a \in Addresses : Record(p, c, a)
    \/ Finish(p, c) \/ Resume(p, c)

TrafficNext ==
    \E p \in Processes :
        \/ \E k \in Keys : Hit(p, k)
        \/ \E a \in Addresses : Saw(p, a)
        \/ \E c \in Calls : Fires(p, c)
        \/ Terminate(p) \/ Exit(p) \/ Die(p)
        \/ \E c \in AllCalls :
              \/ Write(p, c) \/ Fail(p, c) \/ InsertFails(p, c)
              \/ \E a \in Addresses : RecordFails(p, c, a)

\* Timers fire and statements return.
TrafficFairness ==
    \A p \in Processes :
        /\ WF_trafficVars(\E c \in Calls : Fires(p, c))
        /\ \A c \in AllCalls : WF_trafficVars(Write(p, c))

TrafficSpec == TrafficInit /\ [][TrafficNext]_trafficVars /\ TrafficFairness

-----------------------------------------------------------------------------
(* Properties. *)

\* Whatever processes and calls interleave, a request is in one buffer, in one
\* write or in its row, and once: "each process keeps its own buffer and adds
\* to the same rows, so replicas need no coordination" (traffic.ts:33-34).  The
\* exceptions are what a write that failed half-way puts back, and what is lost
\* with a process or by an insert that fails.
EveryRequestCounts ==
    \A k \in Keys :
        row[k] + SumFunction([p \in Processes |-> Unwritten(p, k)]) + dropped[k]
            = served[k] + twice[k]

\* While nothing fails, an address a process will not look at again today is
\* recorded, or on its way (saw(): "already written today by this process").
SeenIsKept ==
    faults = 0 =>
        \A p \in Processes : \A a \in recent[p] :
            \/ a \in recorded \cup sightings[p]
            \/ \E c \in AllCalls : a \in call[p][c].sightings

\* In the end nothing is buffered and nothing is being written: no flush waits
\* for ever and none leaves its numbers behind.  Only the numbers of a write
\* that failed may stay, until the next request (flush(): put back "for the next
\* attempt", for which nothing sets the timer).
WrittenUnlessPutBack ==
    <>[](\A p \in Processes :
            /\ Buffered(p) => p \in putBack
            /\ call[p] = [c \in AllCalls |-> NoCall])
=============================================================================
