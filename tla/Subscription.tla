----------------------------- MODULE Subscription -----------------------------
(***************************************************************************)
(* One provider subscription that keeps one license alive: the licensing   *)
(* branch of app/billing/webhook_handler.ts (applyLicensingSubscription,   *)
(* upsertSubscription), the fulfilment of its order, syncExpiry of         *)
(* app/commerce/license_billing.ts, and the nightly sweep of               *)
(* app/billing/reconciliation.ts.                                          *)
(*                                                                         *)
(* The provider's subscription goes through VERSIONS: each change of its   *)
(* status or its paid period is one version and sends one webhook, which   *)
(* carries the state of that version.  Webhooks may be lost; the others    *)
(* are stored and queued as in module Purchase, and replayed in processes  *)
(* of their own beside the workers.  Every step is one statement or one    *)
(* transaction under a row lock, and handlers and sweeps keep copies of    *)
(* rows in between.                                                        *)
(*                                                                         *)
(* Time: a period's end is a number, and a license's expiry is the end it  *)
(* was derived from (the grace is the same everywhere).  The watermark     *)
(* guard compares the instant an event occurred with the instant the row   *)
(* was written, less a second: `aged` counts the versions that occurred    *)
(* more than a second ago, and the row keeps its value at the last write.  *)
(***************************************************************************)
EXTENDS Integers

CONSTANTS
  Workers,      \* job slots of the queue workers
  Replayers,    \* web requests and commands that replay an event
  Sweeps,       \* processes that run the reconciliation
  MaxVersion,   \* bound: versions of the provider's subscription
  MaxPeriod,    \* bound: periods paid for
  MaxExtras     \* bound: handlers and sweeps that throw or die, replays, and
                \* expiries set by staff, all together

ASSUME ProcessesApart ==
  Workers \cap Replayers = {} /\ Workers \cap Sweeps = {} /\ Replayers \cap Sweeps = {}
ASSUME VersionBounds == MaxVersion \in Nat \ {0} /\ MaxPeriod \in Nat \ {0}
ASSUME ExtrasBound == MaxExtras \in Nat

VARIABLES
  provider,  \* provider[v]: the provider's subscription at version v
  version,   \* its latest version
  aged,      \* versions 1 .. aged occurred more than a second ago
  ledger,    \* ledger[v]: the webhook_events row of version v's webhook
  queued,    \* queued[v]: its job is on the queue
  row,       \* the subscriptions row, with `mark`: aged when it was written
  license,   \* licenses.expires_at; 0 before the license is issued
  at,        \* at[p]: what process p does next
  copy,      \* copy[p]: the subscription p holds in memory
  incoming,  \* incoming[p]: the provider's state p applies
  extras,    \* failures, replays and edits so far
  overtaken, \* history: something was written from a copy that was outdated
  halfDone,  \* history: a handler ended between its save and the fulfilment
  edited     \* history: staff set an expiry

clock == <<provider, version, aged>>
mail == <<ledger, queued>>
db == <<row, license>>
local == <<at, copy, incoming>>
histories == <<overtaken, halfDone, edited>>
vars == <<provider, version, aged, ledger, queued, row, license, at, copy,
          incoming, extras, overtaken, halfDone, edited>>

Versions == 1 .. MaxVersion
Handlers == Workers \cup Replayers
Processes == Handlers \cup Sweeps

Statuses == {"active", "past_due", "canceled"}
Entitling == {"active", "past_due"}
State == [status : Statuses, end : 1 .. MaxPeriod]
First == [status |-> "active", end |-> 1]

NoState == [status |-> "none", end |-> 0]
NoRow == [status |-> "none", end |-> 0, mark |-> 0]
Copy == State \cup {NoState}

Expiry == 0 .. MaxPeriod + 1

Stages == {"idle", "guard", "read", "save", "fulfil", "readLicense", "saveLicense",
           "mark", "complete", "ask", "check", "status", "period"}
At == [stage : Stages, version : Versions, later : BOOLEAN]
Idle == [stage |-> "idle", version |-> 1, later |-> FALSE]

TypeOK ==
  /\ provider \in [Versions -> State]
  /\ version \in Versions
  /\ aged \in 0 .. version
  /\ ledger \in [Versions -> {"none", "received", "processed"}]
  /\ queued \in [Versions -> BOOLEAN]
  /\ row \in [status : Statuses, end : 1 .. MaxPeriod, mark : 0 .. MaxVersion] \cup {NoRow}
  /\ license \in Expiry
  /\ at \in [Processes -> At]
  /\ copy \in [Processes -> Copy]
  /\ incoming \in [Processes -> Copy]
  /\ extras \in 0 .. MaxExtras
  /\ overtaken \in BOOLEAN
  /\ halfDone \in BOOLEAN
  /\ edited \in BOOLEAN

Init ==
  /\ provider = [v \in Versions |-> First]
  /\ version = 1
  /\ aged = 0
  /\ ledger = [v \in Versions |-> "none"]
  /\ queued = [v \in Versions |-> FALSE]
  /\ row = NoRow
  /\ license = 0
  /\ at = [p \in Processes |-> Idle]
  /\ copy = [p \in Processes |-> NoState]
  /\ incoming = [p \in Processes |-> NoState]
  /\ extras = 0
  /\ overtaken = FALSE
  /\ halfDone = FALSE
  /\ edited = FALSE

-------------------------------------------------------------------------------
(* The provider and the clock. *)

Now == provider[version]

\* Changes are more than a second apart.
Change(state) ==
  /\ version < MaxVersion
  /\ aged = version
  /\ Now.status # "canceled"
  /\ version' = version + 1
  /\ provider' = [provider EXCEPT ![version + 1] = state]
  /\ UNCHANGED <<aged, mail, db, local, extras, histories>>

Renew == Now.end < MaxPeriod /\ Change([status |-> "active", end |-> Now.end + 1])
PaymentFails == Now.status = "active" /\ Change([Now EXCEPT !.status = "past_due"])
Cancel == Change([Now EXCEPT !.status = "canceled"])

Ages ==
  /\ aged < version
  /\ aged' = aged + 1
  /\ UNCHANGED <<provider, version, mail, db, local, extras, histories>>

-------------------------------------------------------------------------------
(* The endpoint, the job and the replay. *)

Receive(v) ==
  /\ v <= version
  /\ ledger[v] = "none"
  /\ ledger' = [ledger EXCEPT ![v] = "received"]
  /\ queued' = [queued EXCEPT ![v] = TRUE]
  /\ UNCHANGED <<clock, db, local, extras, histories>>

Extra == extras < MaxExtras /\ extras' = extras + 1

On(p, stage) == at[p].stage = stage
Goto(p, stage) == at' = [at EXCEPT ![p].stage = stage]

Forget(p) ==
  /\ copy' = [copy EXCEPT ![p] = NoState]
  /\ incoming' = [incoming EXCEPT ![p] = NoState]

Stop(p) == at' = [at EXCEPT ![p] = Idle] /\ Forget(p)

Take(p, v) ==
  /\ at' = [at EXCEPT ![p] = [Idle EXCEPT !.stage = "guard", !.version = v]]
  /\ incoming' = [incoming EXCEPT ![p] = provider[v]]
  /\ UNCHANGED copy

\* An event already applied is not applied again by its job.
Begin(p, v) ==
  /\ p \in Workers
  /\ On(p, "idle")
  /\ queued[v]
  /\ IF ledger[v] = "processed"
       THEN /\ at' = [at EXCEPT ![p] = [Idle EXCEPT !.stage = "complete", !.version = v]]
            /\ UNCHANGED <<copy, incoming>>
       ELSE Take(p, v)
  /\ UNCHANGED <<clock, mail, db, extras, histories>>

\* A replay applies the event whatever the ledger says.
Replay(p, v) ==
  /\ p \in Replayers
  /\ On(p, "idle")
  /\ ledger[v] # "none"
  /\ Extra
  /\ Take(p, v)
  /\ UNCHANGED <<clock, mail, db, histories>>

Mark(p) ==
  /\ On(p, "mark")
  /\ ledger' = [ledger EXCEPT ![at[p].version] = "processed"]
  /\ IF p \in Replayers THEN Stop(p)
     ELSE Goto(p, "complete") /\ UNCHANGED <<copy, incoming>>
  /\ UNCHANGED <<clock, queued, db, extras, histories>>

Complete(p) ==
  /\ On(p, "complete")
  /\ queued' = [queued EXCEPT ![at[p].version] = FALSE]
  /\ Stop(p)
  /\ UNCHANGED <<clock, ledger, db, extras, histories>>

\* A handler or a sweep throws or dies.  A job is still on the queue, as long
\* as MaxExtras is below the attempts it has.
Fail(p) ==
  /\ ~On(p, "idle")
  /\ Extra
  /\ halfDone' = (halfDone \/ On(p, "fulfil"))
  /\ Stop(p)
  /\ UNCHANGED <<clock, mail, db, overtaken, edited>>

-------------------------------------------------------------------------------
(* applyLicensingSubscription *)

\* Mutant of Stale: there is no watermark.
StaleNever(v) == row # NoRow /\ v < 0

\* The watermark: the event occurred more than a second before the row was
\* last written.
Stale(v) == row # NoRow /\ v <= row.mark

Guard(p) ==
  /\ On(p, "guard")
  /\ IF Stale(at[p].version) THEN Goto(p, "mark") /\ Forget(p)
     ELSE Goto(p, "read") /\ UNCHANGED <<copy, incoming>>
  /\ UNCHANGED <<clock, mail, db, extras, histories>>

\* upsertSubscription reads the row again, in a transaction without a lock ...
RowState == [status |-> row.status, end |-> row.end]

Read(p) ==
  /\ On(p, "read")
  /\ copy' = [copy EXCEPT ![p] = RowState]
  /\ Goto(p, "save")
  /\ UNCHANGED <<clock, mail, db, incoming, extras, histories>>

\* ... and saves: an insert, or an update of the columns that differ from the
\* copy.  A save that changes nothing does not touch updated_at.
Dirty(old, new) ==
  IF new = old THEN row
  ELSE [status |-> IF new.status = old.status THEN row.status ELSE new.status,
        end |-> IF new.end = old.end THEN row.end ELSE new.end,
        mark |-> aged]

\* Others wrote the row since p looked at it: the watermark would refuse p's
\* event by now, or the period p is about to go by is no longer the row's.
Outdated(p) ==
  \/ On(p, "save") /\ Stale(at[p].version)
  \/ ~On(p, "save") /\ copy[p].end # row.end

Writes(p) == overtaken' = (overtaken \/ Outdated(p)) /\ UNCHANGED <<halfDone, edited>>

\* A second insert breaks the unique index on the provider's id.
Save(p) ==
  /\ On(p, "save")
  /\ IF copy[p] = NoState /\ row # NoRow
       THEN Stop(p) /\ UNCHANGED <<db, histories>>
       ELSE /\ row' = Dirty(copy[p], incoming[p])
            /\ copy' = [copy EXCEPT ![p] = incoming[p]]
            /\ Goto(p, IF incoming[p].status \in Entitling THEN "fulfil" ELSE "readLicense")
            /\ Writes(p)
            /\ incoming' = [incoming EXCEPT ![p] = NoState]
            /\ UNCHANGED license
  /\ UNCHANGED <<clock, mail, extras>>

\* Mutant of Fulfil: only the first event of a subscription issues the license.
FulfilFirst(p) ==
  /\ On(p, "fulfil")
  /\ license' = IF license = 0 /\ at[p].version = 1 THEN copy[p].end ELSE license
  /\ Goto(p, "readLicense")
  /\ UNCHANGED <<clock, mail, row, copy, incoming, extras, histories>>

\* The order's license is issued once, under the order's lock.
Fulfil(p) ==
  /\ On(p, "fulfil")
  /\ license' = IF license = 0 THEN copy[p].end ELSE license
  /\ Goto(p, "readLicense")
  /\ UNCHANGED <<clock, mail, row, copy, incoming, extras, histories>>

-------------------------------------------------------------------------------
(* syncExpiry, for the handler and for the sweep. *)

Synced(p) ==
  IF p \in Handlers THEN Goto(p, "mark") /\ Forget(p)
  ELSE IF at[p].later THEN Goto(p, "period") /\ UNCHANGED <<copy, incoming>>
  ELSE Stop(p)

ReadLicense(p) ==
  /\ On(p, "readLicense")
  /\ IF license \in {0, copy[p].end}
       THEN Synced(p)
       ELSE Goto(p, "saveLicense") /\ UNCHANGED <<copy, incoming>>
  /\ UNCHANGED <<clock, mail, db, extras, histories>>

\* Mutant of SaveLicense: the grace is added to what is there.
SaveLicenseAdds(p) ==
  /\ On(p, "saveLicense")
  /\ license' = license + copy[p].end
  /\ Synced(p)
  /\ Writes(p)
  /\ UNCHANGED <<clock, mail, row, extras>>

\* changeExpiry: written over whatever the license says by now.
SaveLicense(p) ==
  /\ On(p, "saveLicense")
  /\ license' = copy[p].end
  /\ Synced(p)
  /\ Writes(p)
  /\ UNCHANGED <<clock, mail, row, extras>>

-------------------------------------------------------------------------------
(* ReconciliationService: scan, then correct what was found. *)

Look(s) ==
  /\ On(s, "idle")
  /\ row.status \notin {"none", "canceled"}
  /\ copy' = [copy EXCEPT ![s] = RowState]
  /\ at' = [at EXCEPT ![s] = [Idle EXCEPT !.stage = "ask"]]
  /\ UNCHANGED <<clock, mail, db, incoming, extras, histories>>

Ask(s) ==
  /\ On(s, "ask")
  /\ LET ours == copy[s]
         renewing == Now.status = "active"
         later == renewing /\ Now.end > ours.end
         next == IF Now.status # ours.status THEN "status"
                 ELSE IF later THEN "period"
                 ELSE IF renewing THEN "check" ELSE "idle" IN
     IF next = "idle" THEN Stop(s)
     ELSE /\ at' = [at EXCEPT ![s].stage = next, ![s].later = later]
          /\ incoming' = [incoming EXCEPT ![s] = Now]
          /\ UNCHANGED copy
  /\ UNCHANGED <<clock, mail, db, extras, histories>>

\* Mutant of Check: the licenses of a subscription that agrees are not read.
CheckNothing(s) ==
  /\ On(s, "check")
  /\ Stop(s)
  /\ UNCHANGED <<clock, mail, db, extras, histories>>

\* checkLicenseExpiry: a license cut short is corrected later.
Check(s) ==
  /\ On(s, "check")
  /\ IF license # 0 /\ license < copy[s].end
       THEN Goto(s, "saveLicense") /\ UNCHANGED <<copy, incoming>>
       ELSE Stop(s)
  /\ UNCHANGED <<clock, mail, db, extras, histories>>

\* The sweep's copy, corrected and saved; syncExpiry follows.
Correct(s, new) ==
  /\ row' = Dirty(copy[s], new)
  /\ copy' = [copy EXCEPT ![s] = new]

CorrectStatus(s) ==
  /\ On(s, "status")
  /\ Correct(s, [copy[s] EXCEPT !.status = incoming[s].status])
  /\ Goto(s, "readLicense")
  /\ UNCHANGED <<clock, mail, license, incoming, extras, histories>>

CorrectPeriodEnd(s) ==
  /\ On(s, "period")
  /\ Correct(s, [copy[s] EXCEPT !.end = incoming[s].end])
  /\ at' = [at EXCEPT ![s].stage = "readLicense", ![s].later = FALSE]
  /\ Writes(s)
  /\ UNCHANGED <<clock, mail, license, incoming, extras>>

\* Days to choose from: an early one, and one past every period.
ByStaff == {1, MaxPeriod + 1}

\* Staff set another expiry from the admin panel.
StaffSetsExpiry(day) ==
  /\ license # 0
  /\ Extra
  /\ license' = day
  /\ edited' = TRUE
  /\ UNCHANGED <<clock, mail, row, local, overtaken, halfDone>>

-------------------------------------------------------------------------------
Handle(p) ==
  \/ Guard(p) \/ Read(p) \/ Save(p) \/ Fulfil(p)
  \/ ReadLicense(p) \/ SaveLicense(p) \/ Mark(p) \/ Complete(p)

Sweep(s) ==
  \/ Look(s) \/ Ask(s) \/ Check(s) \/ CorrectStatus(s) \/ CorrectPeriodEnd(s)
  \/ ReadLicense(s) \/ SaveLicense(s)

Next ==
  \/ Renew \/ PaymentFails \/ Cancel \/ Ages
  \/ \E v \in Versions : Receive(v) \/ \E p \in Handlers : Begin(p, v) \/ Replay(p, v)
  \/ \E p \in Handlers : Handle(p)
  \/ \E s \in Sweeps : Sweep(s)
  \/ \E p \in Processes : Fail(p)
  \/ \E day \in ByStaff : StaffSetsExpiry(day)

Spec == Init /\ [][Next]_vars

\* The scheduler runs the sweep every night.
Fairness == \A s \in Sweeps : WF_vars(Sweep(s))

FairSpec == Spec /\ Fairness

-------------------------------------------------------------------------------
(* Properties *)

\* "A late event cannot shorten a license a newer one extended"
\* (license_billing.ts:26-30), and "nothing it corrects can shorten anything"
\* of the sweep (reconciliation.ts:54): whatever the order of arrival, however
\* often and beside each other events are applied, and wherever a handler
\* fails, the expiry only moves on.  What breaks it is a write from a copy
\* another process has overtaken, since neither the watermark's check and the
\* save nor the sweep's scan and its corrections are one step.  An expiry that
\* staff set is replaced by the next event's, so the claim stops at the first.
NeverCutShort ==
  [][~overtaken' /\ ~edited' => license' >= license]_vars

\* No webhook is at work and none is waiting.
Quiet ==
  /\ \A v \in Versions : ledger[v] # "received"
  /\ \A p \in Handlers : On(p, "idle")

\* "A job retried after doing half its work still finishes correctly"
\* (process_webhook_job.ts:25-28): when everything received has been
\* processed, a subscription that entitles has its license.
EntitledIsLicensed == Quiet /\ row.status \in Entitling => license # 0

\* A failure between the save and the fulfilment is the only one that leaves
\* it without: wherever else handlers fail, whoever runs beside whom and
\* whatever is applied again or out of order, who pays has a license.
EntitledUnlessHalfDone == ~halfDone => EntitledIsLicensed

\* The row and the license say what the provider says: the status, and for a
\* renewing subscription at least the period that has been paid for.
Agrees ==
  row # NoRow =>
    /\ row.status = Now.status
    /\ Now.status = "active" => row.end = Now.end /\ (license = 0 \/ license >= Now.end)

\* "A webhook that is lost ... leaves a customer on the wrong plan silently
\* and forever.  This is the sweep that finds that" (reconciliation.ts:48-50):
\* whatever was lost, ignored, applied out of order or written from an
\* outdated copy, the nightly sweep brings row and license to the provider's
\* last word.
Converges == <>[]Agrees
===============================================================================
