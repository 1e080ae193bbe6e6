------------------------------- MODULE Purchase -------------------------------
(***************************************************************************)
(* A one-time purchase, from the provider's webhooks to the license it     *)
(* bought: app/queue/jobs/process_webhook_job.ts, the order, payment and   *)
(* dispute branches of app/billing/webhook_handler.ts, OrderService.fulfil, *)
(* app/commerce/license_billing.ts and the status changes of               *)
(* app/licensing/license_service.ts.                                       *)
(*                                                                         *)
(* One order of one item, one payment, one license.  The provider has sent *)
(* the events of the purchase and they arrive in any order; each is stored *)
(* in the ledger and queued, and the queue runs it at least once (module   *)
(* AtLeastOnce), perhaps on two workers at a time, until it has failed too *)
(* often.  A replay runs the same handler in a process of its own, a web   *)
(* request or the billing:replay command, beside the workers.  Every step  *)
(* is one statement or one transaction; between two steps a handler        *)
(* keeps COPIES of rows, and save() writes only the columns that differ    *)
(* from the copy.  Amounts are abstracted to nothing, a part and Price.    *)
(* The account an order belongs to, receipts and mails are left out.       *)
(***************************************************************************)
EXTENDS Integers

CONSTANTS
  Events,      \* the webhooks of this purchase: a subset of Kinds
  Workers,     \* job slots of the queue workers
  Replayers,   \* web requests and commands that replay an event
  Staff,       \* people with the license page of the admin panel
  MaxAttempts, \* attempts of a job before it is parked
  MaxFailures, \* bound: handlers that throw or die
  MaxByHand    \* bound: replays, retries and license changes by people

Kinds == {"completed", "partial", "full", "dispute"}
Price == 2

ASSUME EventsAreKinds == Events \subseteq Kinds
ASSUME RolesDiffer == Workers \cap Replayers = {}
ASSUME AttemptsAssumption == MaxAttempts \in Nat \ {0}
ASSUME BoundsAreNumbers == MaxFailures \in Nat /\ MaxByHand \in Nat

Processes == Workers \cup Replayers

VARIABLES
  ledger,   \* ledger[e]: the row of webhook_events for event e
  job,      \* job[e]: where the process_webhook job of e is
  tries,    \* tries[e]: the attempts column of that job
  order,    \* the order row: its status, and provider_order_id as `known`
  payment,  \* the payment row
  license,  \* licenses.status, or "none" before it is issued
  at,       \* at[p]: the event p is on, how far, and the attempts it read
  copy,     \* copy[p]: the rows p has read and will still use
  desk,     \* desk[s]: what a staff member is about to do to the license
  failures, \* handlers that failed so far
  byHand,   \* replays, retries and license changes so far
  ended,    \* history: the license has been revoked
  crossed   \* history: a partial refund was saved over a larger one

rows == <<order, payment, license>>
queue == <<job, tries>>
bounds == <<failures, byHand>>
histories == <<ended, crossed>>
vars == <<ledger, job, tries, order, payment, license, at, copy, desk, failures, byHand,
          ended, crossed>>

OrderStatuses == {"pending", "paid", "partially_refunded", "refunded"}
PaymentStatuses == {"none", "succeeded", "partially_refunded", "refunded", "disputed"}
LicenseStatuses == {"none", "active", "suspended", "revoked"}

Order == [status : OrderStatuses, known : BOOLEAN]
Payment == [status : PaymentStatuses, amount : {0, Price}, refunded : 0 .. Price]
NoPayment == [status |-> "none", amount |-> 0, refunded |-> 0]

Stages == {"idle", "fulfil", "readPayment", "savePayment", "readOrder", "saveOrder",
           "readLicense", "changeLicense", "mark", "complete"}
At == [stage : Stages, event : Kinds, try : 0 .. (MaxAttempts - 1)]
Copy == [payment : Payment, order : OrderStatuses]
Acts == {"suspend", "resume", "revoke"}

Idle == [stage |-> "idle", event |-> "completed", try |-> 0]
NoCopy == [payment |-> NoPayment, order |-> "pending"]

TypeOK ==
  /\ ledger \in [Events -> {"none", "received", "processed"}]
  /\ job \in [Events -> {"none", "queued", "parked"}]
  /\ tries \in [Events -> 0 .. MaxAttempts]
  /\ order \in Order
  /\ payment \in Payment
  /\ license \in LicenseStatuses
  /\ at \in [Processes -> At]
  /\ copy \in [Processes -> Copy]
  /\ desk \in [Staff -> Acts \cup {"none"}]
  /\ failures \in 0 .. MaxFailures
  /\ byHand \in 0 .. MaxByHand
  /\ ended \in BOOLEAN
  /\ crossed \in BOOLEAN

Init ==
  /\ ledger = [e \in Events |-> "none"]
  /\ job = [e \in Events |-> "none"]
  /\ tries = [e \in Events |-> 0]
  /\ order = [status |-> "pending", known |-> FALSE]
  /\ payment = NoPayment
  /\ license = "none"
  /\ at = [p \in Processes |-> Idle]
  /\ copy = [p \in Processes |-> NoCopy]
  /\ desk = [s \in Staff |-> "none"]
  /\ failures = 0
  /\ byHand = 0
  /\ ended = FALSE
  /\ crossed = FALSE

-------------------------------------------------------------------------------
(* The endpoint and the job. *)

\* The ledger row and its job commit together.  A redelivery loses the insert
\* on the unique provider_event_id and changes nothing.
Receive(e) ==
  /\ ledger[e] = "none"
  /\ ledger' = [ledger EXCEPT ![e] = "received"]
  /\ job' = [job EXCEPT ![e] = "queued"]
  /\ tries' = [tries EXCEPT ![e] = 0]
  /\ UNCHANGED <<rows, at, copy, desk, bounds, histories>>

FirstStage(e) == IF e = "completed" THEN "fulfil" ELSE "readPayment"

\* Mutant of Take: a replay only marks the event.
TakeMarked(p, e, try) ==
  at' = [at EXCEPT ![p] = [stage |-> IF p \in Replayers THEN "mark" ELSE FirstStage(e),
                           event |-> e, try |-> try]]

Take(p, e, try) ==
  at' = [at EXCEPT ![p] = [stage |-> FirstStage(e), event |-> e, try |-> try]]

\* An event already applied is not applied again by its job.
Begin(p, e) ==
  /\ p \in Workers
  /\ at[p].stage = "idle"
  /\ job[e] = "queued"
  /\ IF ledger[e] = "processed"
       THEN at' = [at EXCEPT ![p] = [stage |-> "complete", event |-> e, try |-> tries[e]]]
       ELSE Take(p, e, tries[e])
  /\ UNCHANGED <<ledger, queue, rows, copy, desk, bounds, histories>>

\* A replay asks nothing: the event is applied, processed or not.
Replay(p, e) ==
  /\ p \in Replayers
  /\ at[p].stage = "idle"
  /\ ledger[e] # "none"
  /\ byHand < MaxByHand
  /\ byHand' = byHand + 1
  /\ Take(p, e, 0)
  /\ UNCHANGED <<ledger, queue, rows, copy, desk, failures, histories>>

\* Somebody puts a parked job back: its attempts start again.
Retry(e) ==
  /\ job[e] = "parked"
  /\ byHand < MaxByHand
  /\ byHand' = byHand + 1
  /\ job' = [job EXCEPT ![e] = "queued"]
  /\ tries' = [tries EXCEPT ![e] = 0]
  /\ UNCHANGED <<ledger, rows, at, copy, desk, failures, histories>>

On(p, stage) == at[p].stage = stage
Event(p) == at[p].event
Goto(p, stage) == at' = [at EXCEPT ![p].stage = stage]
Forget(p) == copy' = [copy EXCEPT ![p] = NoCopy]
Stop(p) == at' = [at EXCEPT ![p] = Idle] /\ Forget(p)

Mark(p) ==
  /\ On(p, "mark")
  /\ ledger' = [ledger EXCEPT ![Event(p)] = "processed"]
  /\ IF p \in Replayers THEN Stop(p) ELSE Goto(p, "complete") /\ UNCHANGED copy
  /\ UNCHANGED <<queue, rows, desk, bounds, histories>>

Complete(p) ==
  /\ On(p, "complete")
  /\ job' = [job EXCEPT ![Event(p)] = "none"]
  /\ Stop(p)
  /\ UNCHANGED <<ledger, tries, rows, desk, bounds, histories>>

\* Mutant of GiveUp: what cannot be applied is taken off the queue.
ThrowAway(p) ==
  /\ Stop(p)
  /\ job' = [job EXCEPT ![Event(p)] = "none"]
  /\ UNCHANGED tries

\* The handler throws.  Its job is counted up and stays on the queue, or is
\* parked after its last attempt; a replay is only reported as failed.
GiveUp(p) ==
  /\ Stop(p)
  /\ IF p \in Workers /\ job[Event(p)] # "none"
       THEN /\ tries' = [tries EXCEPT ![Event(p)] = at[p].try + 1]
            /\ job' = [job EXCEPT ![Event(p)] =
                         IF at[p].try + 1 >= MaxAttempts THEN "parked" ELSE @]
       ELSE UNCHANGED queue

\* The provider, the database or an archived plan makes the handler throw, or
\* its process dies: then no attempt is counted and the job is handed back.
Fail(p) ==
  /\ at[p].stage # "idle"
  /\ failures < MaxFailures
  /\ failures' = failures + 1
  /\ GiveUp(p) \/ (Stop(p) /\ UNCHANGED queue)
  /\ UNCHANGED <<ledger, rows, desk, byHand, histories>>

\* An error the data force.
Throw(p) == GiveUp(p) /\ UNCHANGED <<ledger, rows, desk, bounds, histories>>

-------------------------------------------------------------------------------
(* order.completed *)

\* fulfil: one transaction that holds the order row locked throughout.
Fulfil(p) ==
  /\ On(p, "fulfil")
  /\ order' = [status |-> IF order.status = "pending" THEN "paid" ELSE order.status,
               known |-> TRUE]
  /\ license' = IF license = "none" THEN "active" ELSE license
  /\ Goto(p, "readPayment")
  /\ UNCHANGED <<ledger, queue, payment, copy, desk, bounds, histories>>

-------------------------------------------------------------------------------
(* applyPayment and applyDispute: the payment row, read and then saved. *)

Refunds == [completed |-> 0, partial |-> 1, full |-> Price, dispute |-> 0]
IsRefund(e) == e \in {"partial", "full"}

\* A refund is attributed through the order, which must have been fulfilled.
\* A dispute of a payment that is not there is only logged.
ReadPayment(p) ==
  /\ On(p, "readPayment")
  /\ IF IsRefund(Event(p)) /\ ~order.known
       THEN Throw(p)
       ELSE /\ copy' = [copy EXCEPT ![p].payment = payment]
            /\ Goto(p, IF Event(p) = "dispute" /\ payment = NoPayment
                         THEN "mark" ELSE "savePayment")
            /\ UNCHANGED <<ledger, queue, rows, desk, bounds, histories>>

StatusOf(amount, refunded) ==
  IF refunded <= 0 THEN "succeeded"
  ELSE IF refunded >= amount THEN "refunded" ELSE "partially_refunded"

\* Mutant of Merged: the latest refund is the amount refunded.
MergedLatest(old, e) ==
  LET amount == IF old.amount # 0 THEN old.amount
                ELSE IF e = "completed" THEN Price ELSE 0
      refunded == IF IsRefund(e) THEN Refunds[e] ELSE old.refunded IN
  IF e = "dispute" THEN [old EXCEPT !.status = "disputed"]
  ELSE [status |-> StatusOf(amount, refunded), amount |-> amount, refunded |-> refunded]

\* What the handler makes of its copy.  The webhook of a refund carries no
\* amount of its own, so a payment it creates has amount 0.
Merged(old, e) ==
  LET incoming == IF e = "completed" THEN Price ELSE 0
      amount == IF old.amount # 0 THEN old.amount ELSE incoming
      refunded == IF IsRefund(e) /\ Refunds[e] > old.refunded THEN Refunds[e]
                  ELSE old.refunded IN
  IF e = "dispute" THEN [old EXCEPT !.status = "disputed"]
  ELSE [status |-> StatusOf(amount, refunded), amount |-> amount, refunded |-> refunded]

\* UPDATE of the columns in which new differs from the copy it was made from.
Dirty(row, old, new) ==
  [column \in DOMAIN row |-> IF new[column] = old[column] THEN row[column] ELSE new[column]]

\* A partial refund that read the payment before a larger refund was saved.
Outdone(p) == Event(p) = "partial" /\ copy[p].payment.refunded < payment.refunded

\* A second insert for one provider order breaks the unique index.
SavePayment(p) ==
  /\ On(p, "savePayment")
  /\ LET old == copy[p].payment
         new == Merged(old, Event(p)) IN
     IF old = NoPayment /\ payment # NoPayment
       THEN Throw(p)
       ELSE /\ payment' = Dirty(payment, old, new)
            /\ IF Event(p) = "completed"
                 THEN Goto(p, "mark") /\ Forget(p)
                 ELSE Goto(p, "readOrder") /\ copy' = [copy EXCEPT ![p].payment = new]
            /\ crossed' = (crossed \/ Outdone(p))
            /\ UNCHANGED <<ledger, queue, order, license, desk, bounds, ended>>

-------------------------------------------------------------------------------
(* LicenseBilling.applyRefund and applyDispute. *)

ReadOrder(p) ==
  /\ On(p, "readOrder")
  /\ IF IsRefund(Event(p))
       THEN Goto(p, "saveOrder") /\ copy' = [copy EXCEPT ![p].order = order.status]
       ELSE Goto(p, "readLicense") /\ Forget(p)
  /\ UNCHANGED <<ledger, queue, rows, desk, bounds, histories>>

SaveOrder(p) ==
  /\ On(p, "saveOrder")
  /\ LET full == copy[p].payment.status = "refunded"
         new == IF full THEN "refunded" ELSE "partially_refunded" IN
     /\ order' = [order EXCEPT !.status = IF new = copy[p].order THEN @ ELSE new]
     /\ Goto(p, IF full THEN "readLicense" ELSE "mark")
  /\ Forget(p)
  /\ crossed' = (crossed \/ Outdone(p))
  /\ UNCHANGED <<ledger, queue, payment, license, desk, bounds, ended>>

\* A refund revokes what is not revoked; a dispute suspends what is active.
ReadLicense(p) ==
  /\ On(p, "readLicense")
  /\ LET touched == IF IsRefund(Event(p)) THEN license \notin {"none", "revoked"}
                    ELSE license = "active" IN
     Goto(p, IF touched THEN "changeLicense" ELSE "mark")
  /\ UNCHANGED <<ledger, queue, rows, copy, desk, bounds, histories>>

\* LicenseService.change: the status is written over whatever is there now.
Becomes(status) ==
  /\ license' = status
  /\ ended' = (ended \/ status = "revoked")

ChangeLicense(p) ==
  /\ On(p, "changeLicense")
  /\ Becomes(IF IsRefund(Event(p)) THEN "revoked" ELSE "suspended")
  /\ Goto(p, "mark")
  /\ UNCHANGED <<ledger, queue, order, payment, copy, desk, bounds, crossed>>

-------------------------------------------------------------------------------
(* Staff: the license is loaded, checked and changed from the admin panel. *)

Permitted(act) ==
  CASE act = "suspend" -> license \in {"active", "suspended"}
    [] act = "resume" -> license = "suspended"
    [] act = "revoke" -> license \in {"active", "suspended"}

StaffLoads(s, act) ==
  /\ desk[s] = "none"
  /\ Permitted(act)
  /\ byHand < MaxByHand
  /\ byHand' = byHand + 1
  /\ desk' = [desk EXCEPT ![s] = act]
  /\ UNCHANGED <<ledger, queue, rows, at, copy, failures, histories>>

StaffChanges(s) ==
  /\ desk[s] # "none"
  /\ Becomes([suspend |-> "suspended", resume |-> "active", revoke |-> "revoked"][desk[s]])
  /\ desk' = [desk EXCEPT ![s] = "none"]
  /\ UNCHANGED <<ledger, queue, order, payment, at, copy, bounds, crossed>>

-------------------------------------------------------------------------------
Handle(p) ==
  \/ Fulfil(p) \/ ReadPayment(p) \/ SavePayment(p) \/ ReadOrder(p) \/ SaveOrder(p)
  \/ ReadLicense(p) \/ ChangeLicense(p) \/ Mark(p) \/ Complete(p)

Next ==
  \/ \E e \in Events :
       Receive(e) \/ Retry(e) \/ \E p \in Processes : Begin(p, e) \/ Replay(p, e)
  \/ \E p \in Processes : Handle(p) \/ Fail(p)
  \/ \E s \in Staff : StaffChanges(s) \/ \E act \in Acts : StaffLoads(s, act)

Spec == Init /\ [][Next]_vars

\* A handler in progress goes on, and an idle worker takes a job that stays
\* queued.  Weak fairness is enough: a job is attempted MaxAttempts times and
\* then parked, so no other job keeps the workers busy for ever.
Fairness ==
  /\ \A p \in Processes : WF_vars(Handle(p))
  /\ \A e \in Events : WF_vars(\E p \in Workers : Begin(p, e))

FairSpec == Spec /\ Fairness

-------------------------------------------------------------------------------
(* Properties *)

Processed(e) == e \in Events /\ ledger[e] = "processed"

\* "The ledger and the handler are two halves of one guarantee: an event is
\* applied exactly once, and the row is the proof" (webhook_handler.ts:538):
\* a processed payment has its license and its payment row, a processed full
\* refund has ended the license, whatever failed, was retried, replayed or
\* overtaken on the way.
ProcessedIsApplied ==
  /\ Processed("completed") => license # "none" /\ payment # NoPayment
  /\ Processed("full") => ended

\* "Permanent ... There is no way back" (license_service.ts:246-249): a revoked
\* license stays revoked.
RevokedStaysRevoked == [][license = "revoked" => license' = "revoked"]_vars

\* A full refund that has been processed is on the books: the order says so
\* and the payment counts the whole price, even if the payment, a dispute or a
\* partial refund is applied, or applied again, beside it or after it.  The one
\* exception is a partial refund that read the payment before the full one was
\* saved and is saved after it.
FullRefundIsOnTheBooks ==
  ~crossed /\ Processed("full") => order.status = "refunded" /\ payment.refunded = Price

\* Again and again there comes a moment at which every event that was received
\* is applied, or has used up the attempts of its job and is parked where people
\* see it.  A refund that overtook its payment, a failure and a death half-way
\* leave none behind.
ReceivedIsSettled ==
  []<>(\A e \in Events : ledger[e] # "received" \/ job[e] = "parked")
===============================================================================
