------------------------------ MODULE Activation ------------------------------
(***************************************************************************)
(* The installations using ONE license: app/licensing/activation_service.ts *)
(* on Postgres, with the two rules the database cannot hold (lines 32-41):  *)
(* the activation limit, and one row per (license, instance).              *)
(*                                                                         *)
(* A call of activate() is a transaction of four statements: it locks the  *)
(* license row (FOR UPDATE), reads the product, reads the activations and  *)
(* writes.  Any number of calls may be in flight, also for one instance (a *)
(* client that retries after a timeout).  Removing an installation takes   *)
(* no lock: it loads an activation and later saves the copy it loaded,     *)
(* writing the deactivated_at column only.  Staff change the limit with an *)
(* UPDATE of the license row, which waits for the lock.                    *)
(***************************************************************************)
EXTENDS Integers, FiniteSets

CONSTANTS
  Instances,  \* instance ids the clients send
  RowIds,     \* primary keys of license_activations
  Calls,      \* API requests to activate that may be in flight
  Removers,   \* API clients, staff and customers who deactivate
  Limits,     \* values staff give max_activations
  Unlimited,  \* max_activations NULL
  None

ASSUME RowIdsFinite == IsFiniteSet(RowIds)
ASSUME NoneOutside == None \notin Instances /\ None \notin RowIds /\ None \notin Calls
ASSUME LimitsAreNumbers == Limits \subseteq Nat /\ Limits # {} /\ Unlimited \notin Nat

VARIABLES
  rows,     \* rows[r]: the activation with primary key r
  max,      \* licenses.max_activations
  countDev, \* products.count_dev_sites
  holder,   \* the call that holds the lock on the license row
  call,     \* call[c]: what an activate() in flight has been asked and has read
  loaded    \* loaded[s]: the live activation a remover has loaded

vars == <<rows, max, countDev, holder, call, loaded>>

\* A row: deactivated_at IS NULL is `live`.  inst = None: no such row yet.
Row == [inst : Instances \cup {None}, live : BOOLEAN, dev : BOOLEAN]
NoRow == [inst |-> None, live |-> FALSE, dev |-> FALSE]

Max == Limits \cup {Unlimited}

Writes == {"refuse", "refresh", "revive", "create"}

Call == [stage : {"idle", "locked", "ruled", "decided"},
         inst : Instances \cup {None}, dev : BOOLEAN,
         max : Max, countDev : BOOLEAN,
         write : Writes, target : RowIds \cup {None}]

IdleCall == [stage |-> "idle", inst |-> None, dev |-> FALSE, max |-> Unlimited,
             countDev |-> FALSE, write |-> "refuse", target |-> None]

TypeOK ==
  /\ rows \in [RowIds -> Row]
  /\ max \in Max
  /\ countDev \in BOOLEAN
  /\ holder \in Calls \cup {None}
  /\ call \in [Calls -> Call]
  /\ loaded \in [Removers -> RowIds \cup {None}]

Init ==
  /\ rows = [r \in RowIds |-> NoRow]
  /\ max \in Max
  /\ countDev \in BOOLEAN
  /\ holder = None
  /\ call = [c \in Calls |-> IdleCall]
  /\ loaded = [s \in Removers |-> None]

-------------------------------------------------------------------------------
\* countUsed: the rows that take a slot when development sites do (cd) or do
\* not count.
Counts(row, cd) == row.live /\ (cd \/ ~row.dev)
Counted(cd) == {r \in RowIds : Counts(rows[r], cd)}
Used(cd) == Cardinality(Counted(cd))

RowsOf(i) == {r \in RowIds : rows[r].inst = i}
LiveRowsOf(i) == {r \in RowsOf(i) : rows[r].live}

\* Whether the limit this call has read is used up, by the rule it has read.
Full(c) == call[c].max # Unlimited /\ Used(call[c].countDev) >= call[c].max

\* Whether what is being activated would take a slot.
TakesSlot(c) == call[c].countDev \/ ~call[c].dev

\* Mutant of Lock: the license is read without FOR UPDATE.
LockNothing(c) ==
  /\ call[c].stage = "idle"
  /\ \E i \in Instances, dev \in BOOLEAN :
       call' = [call EXCEPT ![c] = [IdleCall EXCEPT !.stage = "locked",
                  !.inst = i, !.dev = dev, !.max = max]]
  /\ holder' = c
  /\ UNCHANGED <<rows, max, countDev, loaded>>

\* BEGIN; SELECT ... FROM licenses ... FOR UPDATE.
Lock(c) ==
  /\ holder = None
  /\ call[c].stage = "idle"
  /\ \E i \in Instances, dev \in BOOLEAN :
       call' = [call EXCEPT ![c] = [IdleCall EXCEPT !.stage = "locked",
                  !.inst = i, !.dev = dev, !.max = max]]
  /\ holder' = c
  /\ UNCHANGED <<rows, max, countDev, loaded>>

ReadProduct(c) ==
  /\ call[c].stage = "locked"
  /\ call' = [call EXCEPT ![c].stage = "ruled", ![c].countDev = countDev]
  /\ UNCHANGED <<rows, max, countDev, holder, loaded>>

\* The rows are read and everything is decided from that read.
Decide(c, write, target) ==
  call' = [call EXCEPT ![c].stage = "decided", ![c].write = write, ![c].target = target]

\* Mutant of MeetsLive: re-activating is always free.
MeetsLiveFree(c) == \E r \in LiveRowsOf(call[c].inst) : Decide(c, "refresh", r)

\* Mutant of MeetsLive: the limit is looked at before the existing row.
MeetsLiveLimited(c) ==
  \E r \in LiveRowsOf(call[c].inst) :
    IF TakesSlot(c) /\ Full(c) THEN Decide(c, "refuse", None) ELSE Decide(c, "refresh", r)

\* A live installation may always come back, unless it stops being a
\* development install and so starts to count.
MeetsLive(c) ==
  \E r \in LiveRowsOf(call[c].inst) :
    LET startsCounting == TakesSlot(c) /\ rows[r].dev /\ ~call[c].countDev IN
    IF startsCounting /\ Full(c) THEN Decide(c, "refuse", None) ELSE Decide(c, "refresh", r)

MeetsNoLive(c) ==
  /\ LiveRowsOf(call[c].inst) = {}
  /\ IF TakesSlot(c) /\ Full(c) THEN Decide(c, "refuse", None)
     ELSE \/ \E r \in RowsOf(call[c].inst) : Decide(c, "revive", r)
          \/ RowsOf(call[c].inst) = {} /\ Decide(c, "create", None)

ReadRows(c) ==
  /\ call[c].stage = "ruled"
  /\ MeetsLive(c) \/ MeetsNoLive(c)
  /\ UNCHANGED <<rows, max, countDev, holder, loaded>>

\* The write and the commit.  A refresh saves the columns it merged:
\* deactivated_at is not among them.
Written(c) ==
  LET t == call[c].target
      dev == call[c].dev IN
  CASE call[c].write = "refuse" -> rows' = rows
    [] call[c].write = "refresh" -> rows' = [rows EXCEPT ![t].dev = dev]
    [] call[c].write = "revive" -> rows' = [rows EXCEPT ![t].dev = dev, ![t].live = TRUE]
    [] call[c].write = "create" ->
         \E r \in RowsOf(None) :
           rows' = [rows EXCEPT ![r] = [inst |-> call[c].inst, live |-> TRUE, dev |-> dev]]

Finish(c) ==
  /\ holder' = None
  /\ call' = [call EXCEPT ![c] = IdleCall]
  /\ UNCHANGED <<max, countDev, loaded>>

Write(c) ==
  /\ call[c].stage = "decided"
  /\ Written(c)
  /\ Finish(c)

\* The connection or the process is lost: the transaction rolls back.
Abort(c) ==
  /\ call[c].stage # "idle"
  /\ rows' = rows
  /\ Finish(c)

-------------------------------------------------------------------------------
\* deactivate / the admin panel / the portal: load a live activation ...
Load(s, r) ==
  /\ loaded[s] = None
  /\ rows[r].live
  /\ loaded' = [loaded EXCEPT ![s] = r]
  /\ UNCHANGED <<rows, max, countDev, holder, call>>

\* ... and switch it off, whatever has happened to it since.
Remove(s) ==
  /\ loaded[s] # None
  /\ rows' = [rows EXCEPT ![loaded[s]].live = FALSE]
  /\ loaded' = [loaded EXCEPT ![s] = None]
  /\ UNCHANGED <<max, countDev, holder, call>>

\* setMaxActivations: "Lowering the limit below what is in use deactivates
\* nothing".  The UPDATE waits for whoever has the license row locked.
SetMax(m) ==
  /\ holder = None
  /\ max' = m
  /\ UNCHANGED <<rows, countDev, holder, call, loaded>>

\* Staff edit the product: no lock is involved.
EditProduct ==
  /\ countDev' = ~countDev
  /\ UNCHANGED <<rows, max, holder, call, loaded>>

-------------------------------------------------------------------------------
Activate(c) == Lock(c) \/ ReadProduct(c) \/ ReadRows(c) \/ Write(c) \/ Abort(c)

Next ==
  \/ \E c \in Calls : Activate(c)
  \/ \E s \in Removers : Remove(s) \/ \E r \in RowIds : Load(s, r)
  \/ \E m \in Max : SetMax(m)
  \/ EditProduct

Spec == Init /\ [][Next]_vars

-------------------------------------------------------------------------------
(* Properties *)

\* "One live row per (license, instance)" and "an instance that was
\* deactivated and comes back gets its own row again": whatever calls and
\* removals interleave, an instance has at most one row, live or not.
OneRowPerInstance ==
  \A r, q \in RowIds : rows[r].inst = rows[q].inst /\ rows[r].inst # None => r = q

\* "A plain count-then-insert lets two installs take the last slot at once":
\* only the call that holds the lock takes a slot, and it never takes one
\* beyond the limit the license has at that moment, by the rule on
\* development sites the call has read.
NoSlotBeyondLimit ==
  [][\A cd \in BOOLEAN : Used(cd)' > Used(cd) =>
       /\ holder # None
       /\ cd = call[holder].countDev /\ max # Unlimited => Used(cd)' <= max]_vars

\* A limit that was lowered, or development sites that began to count, never
\* lock an installation out: one that holds a slot is not refused.
SlotHoldersNotRefused ==
  \A c \in Calls : call[c].stage = "decided" /\ call[c].write = "refuse" =>
    \A r \in RowsOf(call[c].inst) : ~Counts(rows[r], call[c].countDev)
===============================================================================
