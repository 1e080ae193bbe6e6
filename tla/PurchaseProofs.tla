---------------------------- MODULE PurchaseProofs ----------------------------
(***************************************************************************)
(* Proofs about one-time purchases, for any workers, replays beside them,  *)
(* staff, attempts and failures: the state is well-typed, what is processed *)
(* has been applied, and a processed full refund stays on the books unless *)
(* a partial one that read the payment before it is saved after it.        *)
(*                                                                         *)
(* What a handler has behind it shows in its stage, so the invariants say  *)
(* for every stage which facts about the rows have been established and    *)
(* which of its copies still agree with them.                              *)
(***************************************************************************)
EXTENDS Purchase, TLAPS

\* An order known to the provider has been fulfilled; a revocation is
\* remembered; a payment row that is there says so in its status.
RowsFit ==
  /\ order.known => license # "none"
  /\ license = "revoked" => ended
  /\ payment.status = "none" => payment = NoPayment

Fulfilled == {"readPayment", "savePayment", "mark"}
Refunding == {"savePayment", "readOrder", "saveOrder", "readLicense", "changeLicense", "mark"}
AfterSave == {"readOrder", "saveOrder", "readLicense", "changeLicense"}

Paid(p) ==
  at[p].event = "completed" =>
    /\ at[p].stage \notin AfterSave
    /\ at[p].stage \in Fulfilled => license # "none"
    /\ at[p].stage = "mark" => payment.status # "none"

Refunded(p) ==
  at[p].event = "full" =>
    /\ at[p].stage # "fulfil"
    /\ at[p].stage \in Refunding => license # "none"
    /\ at[p].stage \in {"readOrder", "saveOrder"} => copy[p].payment.status = "refunded"
    /\ at[p].stage = "mark" => ended

CopiesFit(p) ==
  /\ copy[p].payment.status = "none" => copy[p].payment = NoPayment
  /\ copy[p].payment.status # "none" => payment.status # "none"
  /\ at[p].stage = "savePayment" /\ at[p].event = "dispute" => copy[p].payment.status # "none"

Fits(p) == Paid(p) /\ Refunded(p) /\ CopiesFit(p)

\* A job on the queue has an attempt left.
Spare == \A e \in Events : job[e] = "queued" => tries[e] < MaxAttempts

Inv ==
  /\ TypeOK /\ Spare
  /\ RowsFit
  /\ \A p \in Processes : Fits(p)
  /\ ProcessedIsApplied

-------------------------------------------------------------------------------
(* What a save writes. *)

\* Amounts stay among nothing, a part and the price; a status is never none.
LEMMA StatusOfType ==
  ASSUME NEW amount \in {0, Price}, NEW refunded \in 0 .. Price
  PROVE  /\ StatusOf(amount, refunded) \in PaymentStatuses \ {"none"}
         /\ refunded = Price => StatusOf(amount, refunded) = "refunded"
BY DEF StatusOf, PaymentStatuses, Price

\* What a handler makes of its copy is a payment; a full refund makes it a
\* refunded one whatever it was before.
LEMMA MergedType ==
  ASSUME NEW old \in Payment, NEW e \in Kinds
  PROVE  /\ Merged(old, e) \in Payment
         /\ Merged(old, e).status # "none"
         /\ e = "full" => Merged(old, e).status = "refunded"
<1> DEFINE incoming == IF e = "completed" THEN Price ELSE 0
           amount == IF old.amount # 0 THEN old.amount ELSE incoming
           refunded == IF IsRefund(e) /\ Refunds[e] > old.refunded THEN Refunds[e]
                       ELSE old.refunded
<1>1. amount \in {0, Price}
  BY DEF Payment
<1>2. refunded \in 0 .. Price /\ (e = "full" => refunded = Price)
  BY DEF Payment, Refunds, IsRefund, Kinds, Price
<1>3. StatusOf(amount, refunded) \in PaymentStatuses \ {"none"}
      /\ (refunded = Price => StatusOf(amount, refunded) = "refunded")
  BY <1>1, <1>2, StatusOfType
<1>4. CASE e = "dispute"
  BY <1>4 DEF Merged, Payment, PaymentStatuses
<1>5. CASE e # "dispute"
  <2>1. Merged(old, e) = [status |-> StatusOf(amount, refunded),
                          amount |-> amount, refunded |-> refunded]
    BY <1>5 DEF Merged
  <2> HIDE DEF amount, refunded
  <2> QED BY <2>1, <1>1, <1>2, <1>3 DEF Payment
<1> QED BY <1>4, <1>5

\* UPDATE of the dirty columns leaves a payment behind.
LEMMA DirtyType ==
  ASSUME NEW saved \in Payment, NEW old \in Payment, NEW new \in Payment
  PROVE  /\ Dirty(saved, old, new) \in Payment
         /\ Dirty(saved, old, new).status =
              (IF new.status = old.status THEN saved.status ELSE new.status)
         /\ Dirty(saved, old, new).refunded =
              (IF new.refunded = old.refunded THEN saved.refunded ELSE new.refunded)
<1> DEFINE col(c) == IF new[c] = old[c] THEN saved[c] ELSE new[c]
<1>1. DOMAIN saved = {"status", "amount", "refunded"}
  BY DEF Payment
<1>2. Dirty(saved, old, new) = [c \in {"status", "amount", "refunded"} |-> col(c)]
  BY <1>1 DEF Dirty
<1>3. /\ col("status") \in PaymentStatuses
      /\ col("amount") \in {0, Price}
      /\ col("refunded") \in 0 .. Price
  BY DEF Payment
<1>4. Dirty(saved, old, new) =
        [status |-> col("status"), amount |-> col("amount"), refunded |-> col("refunded")]
  BY <1>2
<1> HIDE DEF col
<1>5. Dirty(saved, old, new) \in Payment
  BY <1>3, <1>4 DEF Payment
<1>6. Dirty(saved, old, new).status = col("status")
      /\ Dirty(saved, old, new).refunded = col("refunded")
  BY <1>4
<1> QED BY <1>5, <1>6 DEF col

-------------------------------------------------------------------------------
(* Type correctness. *)

LEMMA Starts == Idle \in At /\ NoCopy \in Copy /\ NoPayment \in Payment
BY AttemptsAssumption
   DEF Idle, NoCopy, NoPayment, At, Copy, Payment, Stages, Kinds, OrderStatuses,
       LicenseStatuses, PaymentStatuses, Price

\* A handler that goes on to another stage.
LEMMA Goes ==
  ASSUME TypeOK, NEW p \in Processes, NEW stage \in Stages, Goto(p, stage)
  PROVE  at' \in [Processes -> At]
BY DEF TypeOK, At, Goto

\* A handler that is finished, throws or dies.
LEMMA Stops ==
  ASSUME TypeOK, NEW p \in Processes, Stop(p)
  PROVE  at' \in [Processes -> At] /\ copy' \in [Processes -> Copy]
BY Starts DEF TypeOK, Stop, Forget

LEMMA Copies ==
  ASSUME TypeOK, NEW p \in Processes, NEW pay \in Payment, NEW o \in OrderStatuses
  PROVE  /\ [copy EXCEPT ![p].payment = pay] \in [Processes -> Copy]
         /\ [copy EXCEPT ![p].order = o] \in [Processes -> Copy]
BY DEF TypeOK, Copy

\* Every step keeps the types.
LEMMA TypeStep == TypeOK /\ Spare /\ [Next]_vars => TypeOK'
<1> SUFFICES ASSUME TypeOK, Spare, [Next]_vars PROVE TypeOK'
  OBVIOUS
<1> USE EventsAreKinds, BoundsAreNumbers, AttemptsAssumption
<1>a. \A p \in Processes, stage \in Stages : Goto(p, stage) => at' \in [Processes -> At]
  BY Goes
<1>b. \A p \in Processes : Stop(p) => at' \in [Processes -> At] /\ copy' \in [Processes -> Copy]
  BY Stops
<1>c. \A p \in Processes : at[p].event \in Kinds /\ copy[p].payment \in Payment
        /\ copy[p].order \in OrderStatuses /\ at[p].try + 1 \in 0 .. MaxAttempts
  BY DEF TypeOK, At, Copy
<1>f. \A p \in Processes : Forget(p) => copy' \in [Processes -> Copy]
  BY Starts DEF TypeOK, Forget
<1>d. \A p \in Processes : GiveUp(p) =>
        /\ at' \in [Processes -> At] /\ copy' \in [Processes -> Copy]
        /\ job' \in [Events -> {"none", "queued", "parked"}]
        /\ tries' \in [Events -> 0 .. MaxAttempts]
  BY <1>b, <1>c DEF GiveUp, TypeOK, queue
<1>1. ASSUME NEW e \in Events, Receive(e) PROVE TypeOK'
  BY <1>1 DEF TypeOK, Receive, rows, bounds, histories
<1>2. ASSUME NEW p \in Processes, NEW e \in Events, Begin(p, e) PROVE TypeOK'
  <2> DEFINE done == [stage |-> "complete", event |-> e, try |-> tries[e]]
             taken == [stage |-> FirstStage(e), event |-> e, try |-> tries[e]]
  <2>0. tries[e] \in 0 .. (MaxAttempts - 1)
    BY <1>2 DEF Begin, TypeOK, Spare
  <2>1. done \in At /\ taken \in At
    BY <2>0 DEF FirstStage, At, Stages
  <2>2. at' = [at EXCEPT ![p] = done] \/ at' = [at EXCEPT ![p] = taken]
    BY <1>2 DEF Begin, Take
  <2> HIDE DEF done, taken
  <2>3. at' \in [Processes -> At]
    BY <2>1, <2>2 DEF TypeOK
  <2> QED BY <1>2, <2>3 DEF TypeOK, Begin, queue, rows, bounds, histories
<1>3. ASSUME NEW p \in Processes, NEW e \in Events, Replay(p, e) PROVE TypeOK'
  <2>1. [stage |-> FirstStage(e), event |-> e, try |-> 0] \in At
    BY DEF FirstStage, At, Stages
  <2>2. at' \in [Processes -> At]
    BY <1>3, <2>1 DEF TypeOK, Replay, Take
  <2> QED BY <1>3, <2>2 DEF TypeOK, Replay, queue, rows, histories
<1>17. ASSUME NEW e \in Events, Retry(e) PROVE TypeOK'
  BY <1>17 DEF TypeOK, Retry, rows, histories
<1>4. ASSUME NEW p \in Processes, Fulfil(p) PROVE TypeOK'
  <2>1. at' \in [Processes -> At]
    BY <1>4, <1>a DEF Fulfil, Stages
  <2> QED BY <1>4, <2>1 DEF TypeOK, Fulfil, queue, bounds, histories, Order, OrderStatuses, LicenseStatuses
<1>5. ASSUME NEW p \in Processes, ReadPayment(p) PROVE TypeOK'
  <2>1. CASE IsRefund(Event(p)) /\ ~order.known
    BY <1>5, <2>1, <1>d DEF TypeOK, ReadPayment, Throw, rows, bounds, histories
  <2>2. CASE ~(IsRefund(Event(p)) /\ ~order.known)
    <3>1. at' \in [Processes -> At]
      BY <1>5, <2>2, <1>a DEF ReadPayment, Stages
    <3>2. payment \in Payment /\ copy' = [copy EXCEPT ![p].payment = payment]
      BY <1>5, <2>2 DEF ReadPayment, TypeOK
    <3>3. copy' \in [Processes -> Copy]
      BY <3>2, <1>c, Copies
    <3> QED BY <1>5, <2>2, <3>1, <3>3 DEF TypeOK, ReadPayment, rows, queue, bounds, histories
  <2> QED BY <2>1, <2>2
<1>6. ASSUME NEW p \in Processes, SavePayment(p) PROVE TypeOK'
  <2> DEFINE old == copy[p].payment
             new == Merged(old, Event(p))
  <2>1. new \in Payment
    BY <1>c, MergedType DEF Event
  <2>2. Dirty(payment, old, new) \in Payment
    BY <2>1, <1>c, DirtyType DEF TypeOK
  <2> HIDE DEF new
  <2>3. CASE old = NoPayment /\ payment # NoPayment
    BY <1>6, <2>3, <1>d DEF TypeOK, SavePayment, Throw, rows, bounds, histories
  <2>4. CASE ~(old = NoPayment /\ payment # NoPayment)
    <3>1. at' \in [Processes -> At]
      BY <1>6, <2>4, <1>a DEF SavePayment, Stages
    <3>2. /\ payment' = Dirty(payment, old, new)
          /\ copy' = [copy EXCEPT ![p].payment = new] \/ Forget(p)
      BY <1>6, <2>4 DEF SavePayment, new
    <3>3. copy' \in [Processes -> Copy]
      <4>1. CASE Forget(p)
        BY <4>1, <1>f
      <4>2. CASE copy' = [copy EXCEPT ![p].payment = new]
        BY <4>2, <2>1, <1>c, Copies
      <4> QED BY <3>2, <4>1, <4>2
    <3>4. crossed' \in BOOLEAN
      BY <1>6, <2>4 DEF SavePayment, TypeOK, Outdone
    <3> QED BY <1>6, <2>4, <2>2, <3>1, <3>2, <3>3, <3>4 DEF TypeOK, SavePayment, queue, bounds
  <2> QED BY <2>3, <2>4
<1>7. ASSUME NEW p \in Processes, ReadOrder(p) PROVE TypeOK'
  <2>1. at' \in [Processes -> At]
    BY <1>7, <1>a DEF ReadOrder, Stages
  <2>2. order.status \in OrderStatuses
    BY DEF TypeOK, Order
  <2>3. copy' \in [Processes -> Copy]
    <3>1. CASE Forget(p)
      BY <3>1, <1>f
    <3>2. CASE copy' = [copy EXCEPT ![p].order = order.status]
      BY <3>2, <2>2, <1>c, Copies
    <3> QED BY <1>7, <3>1, <3>2 DEF ReadOrder
  <2> QED BY <1>7, <2>1, <2>3 DEF TypeOK, ReadOrder, rows, queue, bounds, histories
<1>8. ASSUME NEW p \in Processes, SaveOrder(p) PROVE TypeOK'
  <2>1. at' \in [Processes -> At]
    BY <1>8, <1>a DEF SaveOrder, Stages
  <2>2. order' \in Order
    BY <1>8 DEF SaveOrder, TypeOK, Order, OrderStatuses
  <2>3. copy' \in [Processes -> Copy]
    BY <1>8, <1>f DEF SaveOrder
  <2>4. crossed' \in BOOLEAN
    BY <1>8 DEF SaveOrder, TypeOK, Outdone
  <2> QED BY <1>8, <2>1, <2>2, <2>3, <2>4 DEF TypeOK, SaveOrder, queue, bounds
<1>9. ASSUME NEW p \in Processes, ReadLicense(p) PROVE TypeOK'
  <2>1. at' \in [Processes -> At]
    BY <1>9, <1>a DEF ReadLicense, Stages
  <2> QED BY <1>9, <2>1 DEF TypeOK, ReadLicense, rows, queue, bounds, histories
<1>10. ASSUME NEW p \in Processes, ChangeLicense(p) PROVE TypeOK'
  <2>1. at' \in [Processes -> At]
    BY <1>10, <1>a DEF ChangeLicense, Stages
  <2> QED BY <1>10, <2>1 DEF TypeOK, ChangeLicense, Becomes, queue, bounds, histories, LicenseStatuses
<1>11. ASSUME NEW p \in Processes, Mark(p) PROVE TypeOK'
  <2>1. at' \in [Processes -> At] /\ copy' \in [Processes -> Copy]
    BY <1>11, <1>a, <1>b DEF Mark, Stages, TypeOK
  <2> QED BY <1>11, <2>1 DEF TypeOK, Mark, rows, queue, bounds, histories
<1>12. ASSUME NEW p \in Processes, Complete(p) PROVE TypeOK'
  BY <1>12, <1>b DEF TypeOK, Complete, rows, queue, bounds, histories
<1>13. ASSUME NEW p \in Processes, Fail(p) PROVE TypeOK'
  BY <1>13, <1>b, <1>d DEF TypeOK, Fail, rows, queue, histories
<1>14. ASSUME NEW s \in Staff, NEW act \in Acts, StaffLoads(s, act) PROVE TypeOK'
  BY <1>14 DEF TypeOK, StaffLoads, rows, queue, histories
<1>15. ASSUME NEW s \in Staff, StaffChanges(s) PROVE TypeOK'
  <2>1. desk[s] \in Acts
    BY <1>15 DEF TypeOK, StaffChanges
  <2>2. license' \in LicenseStatuses
    BY <1>15, <2>1 DEF StaffChanges, Becomes, Acts, LicenseStatuses
  <2> QED BY <1>15, <2>2 DEF TypeOK, StaffChanges, Becomes, queue, bounds, histories
<1>16. CASE UNCHANGED vars
  BY <1>16 DEF TypeOK, vars
<1> QED
  BY <1>1, <1>2, <1>3, <1>4, <1>5, <1>6, <1>7, <1>8, <1>9, <1>10, <1>11, <1>12, <1>13,
     <1>14, <1>15, <1>16, <1>17 DEF Next, Handle

\* A job is parked when it has no attempt left.
LEMMA SpareStep == TypeOK /\ Spare /\ [Next]_vars => Spare'
<1> SUFFICES ASSUME TypeOK, Spare, [Next]_vars PROVE Spare'
  OBVIOUS
<1> USE AttemptsAssumption
<1>0. /\ job \in [Events -> {"none", "queued", "parked"}] /\ tries \in [Events -> 0 .. MaxAttempts]
      /\ \A p \in Processes : at[p].try \in 0 .. (MaxAttempts - 1)
  BY DEF TypeOK, At
<1>1. ASSUME UNCHANGED queue PROVE Spare'
  BY <1>1 DEF Spare, queue
<1>2. ASSUME NEW p \in Processes, GiveUp(p) PROVE Spare'
  <2>1. CASE p \in Workers /\ job[Event(p)] # "none"
    <3>1. /\ tries' = [tries EXCEPT ![Event(p)] = at[p].try + 1]
          /\ job' = [job EXCEPT ![Event(p)] =
                      IF at[p].try + 1 >= MaxAttempts THEN "parked" ELSE job[Event(p)]]
      BY <1>2, <2>1 DEF GiveUp
    <3>2. ASSUME NEW e \in Events, job'[e] = "queued" PROVE tries'[e] < MaxAttempts
      BY <1>0, <3>1, <3>2 DEF Spare
    <3> QED BY <3>2 DEF Spare
  <2>2. CASE ~(p \in Workers /\ job[Event(p)] # "none")
    BY <1>1, <1>2, <2>2 DEF GiveUp
  <2> QED BY <2>1, <2>2
<1>3. ASSUME NEW e \in Events, Receive(e) \/ Retry(e) PROVE Spare'
  BY <1>0, <1>3 DEF Receive, Retry, Spare
<1>4. ASSUME NEW p \in Processes, Complete(p) PROVE Spare'
  BY <1>0, <1>4 DEF Complete, Spare
<1>5. ASSUME NEW p \in Processes, Handle(p), ~Complete(p) PROVE Spare'
  <2>1. UNCHANGED queue \/ GiveUp(p)
    BY <1>5 DEF Handle, Fulfil, ReadPayment, SavePayment, ReadOrder, SaveOrder, ReadLicense,
                ChangeLicense, Mark, Throw
  <2> QED BY <1>1, <1>2, <2>1
<1>6. ASSUME NEW p \in Processes, Fail(p) PROVE Spare'
  BY <1>1, <1>2, <1>6 DEF Fail
<1> QED BY <1>1, <1>3, <1>4, <1>5, <1>6 DEF Next, Begin, Replay, StaffChanges, StaffLoads, queue, vars

\* Types hold from the start.
LEMMA TypeInit == Init => TypeOK
<1> SUFFICES ASSUME Init PROVE TypeOK
  OBVIOUS
<1>1. order \in Order /\ payment \in Payment /\ license \in LicenseStatuses
  BY Starts DEF Init, Order, OrderStatuses, LicenseStatuses
<1>2. at \in [Processes -> At] /\ copy \in [Processes -> Copy]
  BY Starts DEF Init
<1>3. ledger \in [Events -> {"none", "received", "processed"}]
  BY DEF Init
<1>4. job \in [Events -> {"none", "queued", "parked"}] /\ tries \in [Events -> 0 .. MaxAttempts]
  BY AttemptsAssumption DEF Init
<1>5. desk \in [Staff -> Acts \cup {"none"}]
  BY DEF Init
<1>6. failures \in 0 .. MaxFailures /\ byHand \in 0 .. MaxByHand
  BY BoundsAreNumbers DEF Init
<1>7. ended \in BOOLEAN /\ crossed \in BOOLEAN
  BY DEF Init
<1> QED BY <1>1, <1>2, <1>3, <1>4, <1>5, <1>6, <1>7 DEF TypeOK

\* Every reachable state of a purchase is well-typed: no row holds a status,
\* and no payment a refunded amount, that the code could not have written.
THEOREM PurchaseTypes == Spec => []TypeOK
<1>1. Init => TypeOK /\ Spare
  BY TypeInit DEF Init, Spare
<1>2. TypeOK /\ Spare /\ [Next]_vars => TypeOK' /\ Spare'
  BY TypeStep, SpareStep
<1> QED BY <1>1, <1>2, PTL DEF Spec

-------------------------------------------------------------------------------
(* A processed event has been applied. *)

\* What is never taken back, by any step.
Grows ==
  /\ license # "none" => license' # "none"
  /\ payment.status # "none" => payment'.status # "none"
  /\ ended => ended'

\* Only worker p moves; nothing is newly processed.
Alone(p) == \A v \in Processes \ {p} : at'[v] = at[v] /\ copy'[v] = copy[v]
NoneProcessed == \A e \in Events : ledger'[e] = "processed" => ledger[e] = "processed"

\* The worker goes on; what it is on, and the other workers, stay.
LEMMA GoesTo ==
  ASSUME TypeOK, NEW p \in Processes, NEW stage \in Stages, Goto(p, stage)
  PROVE  /\ at'[p].stage = stage /\ at'[p].event = at[p].event
         /\ \A v \in Processes \ {p} : at'[v] = at[v]
BY DEF TypeOK, At, Goto

\* The worker stops, and has nothing behind it any more.
LEMMA StopFits ==
  ASSUME TypeOK, NEW p \in Processes, Stop(p)
  PROVE  Fits(p)' /\ Alone(p)
<1>1. at'[p] = Idle /\ copy'[p] = NoCopy /\ Alone(p)
  BY DEF TypeOK, Stop, Forget, Alone
<1>2. at'[p].stage = "idle" /\ at'[p].event = "completed" /\ copy'[p].payment = NoPayment
  BY <1>1 DEF Idle, NoCopy
<1>3. NoPayment.status = "none"
  BY DEF NoPayment
<1> HIDE DEF Alone
<1>4. Paid(p)'
  BY <1>2 DEF Paid, AfterSave, Fulfilled
<1>5. Refunded(p)'
  BY <1>2 DEF Refunded
<1>6. CopiesFit(p)'
  BY <1>2, <1>3 DEF CopiesFit
<1> QED BY <1>1, <1>4, <1>5, <1>6 DEF Fits

\* A step that leaves the rows alone.
LEMMA Quiet ==
  ASSUME RowsFit, UNCHANGED <<order, payment, license, ended>>
  PROVE  RowsFit' /\ Grows
BY DEF RowsFit, Grows

\* What a worker has behind it stays behind it while the others move.
LEMMA StillFits ==
  ASSUME NEW v \in Processes, Fits(v), Grows, at'[v] = at[v], copy'[v] = copy[v]
  PROVE  Fits(v)'
BY DEF Fits, Paid, Refunded, CopiesFit, Grows

\* What has been applied stays applied.
LEMMA StillApplied ==
  ASSUME TypeOK, TypeOK', RowsFit, ProcessedIsApplied, Grows, NoneProcessed
  PROVE  ProcessedIsApplied'
<1>1. Processed("completed")' => Processed("completed")
  BY DEF Processed, NoneProcessed
<1>2. Processed("full")' => Processed("full")
  BY DEF Processed, NoneProcessed
<1>3. payment # NoPayment => payment' # NoPayment
  BY DEF RowsFit, Grows, NoPayment
<1> QED BY <1>1, <1>2, <1>3 DEF ProcessedIsApplied, Grows

\* The invariant after a step of worker p, from what the step does.
LEMMA Together ==
  ASSUME Inv, TypeOK', Spare', NEW p \in Processes, Alone(p), Grows, NoneProcessed, RowsFit', Fits(p)'
  PROVE  Inv'
<1>1. \A v \in Processes \ {p} : Fits(v)'
  BY StillFits DEF Inv, Alone
<1>2. ProcessedIsApplied'
  BY StillApplied DEF Inv
<1> QED BY <1>1, <1>2 DEF Inv

\* Every step keeps the invariant.
LEMMA InvStep == Inv /\ [Next]_vars => Inv'
<1> SUFFICES ASSUME Inv, [Next]_vars PROVE Inv'
  OBVIOUS
<1>t. TypeOK /\ TypeOK' /\ Spare' /\ RowsFit /\ ProcessedIsApplied /\ \A v \in Processes : Fits(v)
  BY TypeStep, SpareStep DEF Inv
<1>s. ASSUME NEW p \in Processes, Stop(p), UNCHANGED <<order, payment, license, ended>>,
             NoneProcessed
      PROVE  Inv'
  BY <1>s, <1>t, StopFits, Quiet, Together
<1>1. ASSUME NEW e \in Events, Receive(e) PROVE Inv'
  <2>1. RowsFit' /\ Grows
    BY <1>1, <1>t, Quiet DEF Receive, rows, histories
  <2>2. NoneProcessed
    BY <1>1, <1>t DEF Receive, NoneProcessed, TypeOK
  <2>3. \A v \in Processes : Fits(v)'
    BY <1>1, <1>t, <2>1, StillFits DEF Receive
  <2> QED BY <1>t, <2>1, <2>2, <2>3, StillApplied DEF Inv
<1>2. ASSUME NEW p \in Processes, NEW e \in Events, NEW stage, NEW try,
             stage = IF e = "completed" THEN "fulfil" ELSE "readPayment",
             at[p].stage = "idle",
             \/ at' = [at EXCEPT ![p] = [stage |-> stage, event |-> e, try |-> try]]
             \/ at' = [at EXCEPT ![p] = [stage |-> "complete", event |-> e, try |-> try]],
             UNCHANGED <<ledger, order, payment, license, ended, copy>>
      PROVE  Inv'
  <2>1. RowsFit' /\ Grows
    BY <1>2, <1>t, Quiet
  <2>2. NoneProcessed
    BY <1>2 DEF NoneProcessed
  <2>3. Alone(p)
    BY <1>2, <1>t DEF Alone, TypeOK
  <2>4. at'[p].event = e /\ at'[p].stage \in {stage, "complete"} /\ copy'[p] = copy[p]
    BY <1>2, <1>t DEF TypeOK
  <2>5. Paid(p)'
    BY <1>2, <2>4 DEF Paid, AfterSave, Fulfilled
  <2>6. CASE e = "full"
    <3>1. Refunded(p)'
      BY <1>2, <2>4, <2>6 DEF Refunded, Refunding, AfterSave
    <3>2. CopiesFit(p)'
      BY <1>2, <1>t, <2>4, <2>6 DEF Fits, CopiesFit
    <3> QED BY <2>1, <2>2, <2>3, <2>5, <3>1, <3>2, <1>t, Together DEF Fits
  <2>7. CASE e # "full"
    <3>1. Refunded(p)'
      BY <2>4, <2>7 DEF Refunded
    <3>2. CopiesFit(p)'
      BY <1>2, <1>t, <2>4, <2>7 DEF Fits, CopiesFit
    <3> QED BY <2>1, <2>2, <2>3, <2>5, <3>1, <3>2, <1>t, Together DEF Fits
  <2> QED BY <2>6, <2>7
<1>3. ASSUME NEW p \in Processes, NEW e \in Events, Begin(p, e) PROVE Inv'
  BY <1>3, <1>2 DEF Begin, Take, FirstStage, rows, histories
<1>4. ASSUME NEW p \in Processes, NEW e \in Events, Replay(p, e) PROVE Inv'
  BY <1>4, <1>2 DEF Replay, Take, FirstStage, rows, histories
<1>5. ASSUME NEW p \in Processes, Fulfil(p) PROVE Inv'
  <2>1. RowsFit' /\ Grows /\ license' # "none"
    BY <1>5, <1>t DEF Fulfil, RowsFit, Grows, histories
  <2>2. at'[p].stage = "readPayment" /\ at'[p].event = at[p].event /\ Alone(p)
    BY <1>5, <1>t, GoesTo DEF Fulfil, Stages, Alone
  <2>3. NoneProcessed
    BY <1>5 DEF Fulfil, NoneProcessed
  <2>4. Paid(p)'
    BY <2>1, <2>2 DEF Paid, AfterSave
  <2>5. Refunded(p)'
    BY <1>5, <1>t, <2>2 DEF Fits, Refunded, Fulfil, On
  <2>6. CopiesFit(p)'
    BY <1>5, <1>t, <2>2 DEF Fits, CopiesFit, Fulfil
  <2> QED BY <1>t, <2>1, <2>2, <2>3, <2>4, <2>5, <2>6, Together DEF Fits
<1>6. ASSUME NEW p \in Processes, ReadPayment(p) PROVE Inv'
  <2>1. CASE IsRefund(Event(p)) /\ ~order.known
    <3>1. Throw(p)
      BY <1>6, <2>1 DEF ReadPayment
    <3> QED BY <3>1, <1>s DEF Throw, GiveUp, rows, histories, NoneProcessed
  <2>2. CASE ~(IsRefund(Event(p)) /\ ~order.known)
    <3> DEFINE absent == Event(p) = "dispute" /\ payment = NoPayment
    <3>1. /\ copy' = [copy EXCEPT ![p].payment = payment]
          /\ Goto(p, IF absent THEN "mark" ELSE "savePayment")
          /\ UNCHANGED <<ledger, order, payment, license, ended>>
          /\ at[p].stage = "readPayment"
      BY <1>6, <2>2 DEF ReadPayment, rows, On, histories
    <3>2. RowsFit' /\ Grows
      BY <3>1, <1>t, Quiet
    <3>3. NoneProcessed
      BY <3>1 DEF NoneProcessed
    <3>4. copy'[p].payment = payment /\ \A v \in Processes \ {p} : copy'[v] = copy[v]
      BY <3>1, <1>t DEF TypeOK, Copy
    <3>5. /\ at'[p].stage = (IF absent THEN "mark" ELSE "savePayment")
          /\ at'[p].event = at[p].event
          /\ \A v \in Processes \ {p} : at'[v] = at[v]
      BY <3>1, <1>t, GoesTo DEF Stages
    <3>6. Alone(p)
      BY <3>4, <3>5 DEF Alone
    <3>7. Paid(p)'
      BY <3>1, <3>5, <1>t DEF Fits, Paid, AfterSave, Fulfilled, Event
    <3>8. at[p].event = "full" => license # "none"
      BY <2>2, <1>t DEF RowsFit, IsRefund, Event
    <3>9. Refunded(p)'
      BY <3>1, <3>5, <3>8 DEF Refunded, AfterSave, Event
    <3>10. CopiesFit(p)'
      BY <3>1, <3>4, <3>5, <1>t DEF CopiesFit, RowsFit, Event
    <3> QED BY <1>t, <3>2, <3>3, <3>6, <3>7, <3>9, <3>10, Together DEF Fits
  <2> QED BY <2>1, <2>2
<1>7. ASSUME NEW p \in Processes, SavePayment(p) PROVE Inv'
  <2> DEFINE old == copy[p].payment
             new == Merged(old, Event(p))
  <2>1. CASE old = NoPayment /\ payment # NoPayment
    <3>1. Throw(p)
      BY <1>7, <2>1 DEF SavePayment
    <3> QED BY <3>1, <1>s DEF Throw, GiveUp, rows, histories, NoneProcessed
  <2>2. CASE ~(old = NoPayment /\ payment # NoPayment)
    <3>1. /\ payment' = Dirty(payment, old, new)
          /\ Event(p) = "completed" => copy' = [copy EXCEPT ![p] = NoCopy]
          /\ Event(p) # "completed" => copy' = [copy EXCEPT ![p].payment = new]
          /\ Goto(p, IF Event(p) = "completed" THEN "mark" ELSE "readOrder")
          /\ UNCHANGED <<ledger, order, license, ended>>
          /\ at[p].stage = "savePayment"
      BY <1>7, <2>2 DEF SavePayment, On, Forget
    <3>2. old \in Payment /\ Event(p) \in Kinds /\ payment \in Payment
      BY <1>t DEF TypeOK, Copy, At, Event
    <3>3. /\ new \in Payment /\ new.status # "none"
          /\ at[p].event = "full" => new.status = "refunded"
      BY <3>2, MergedType DEF Event
    <3> HIDE DEF new
    <3>4. payment'.status = (IF new.status = old.status THEN payment.status ELSE new.status)
      BY <3>1, <3>2, <3>3, DirtyType
    <3>5. payment'.status # "none"
      BY <3>3, <3>4, <1>t DEF Fits, CopiesFit
    <3>6. RowsFit' /\ Grows
      BY <3>1, <3>5, <1>t DEF RowsFit, Grows
    <3>7. NoneProcessed
      BY <3>1 DEF NoneProcessed
    <3>8. /\ copy'[p].payment = (IF at[p].event = "completed" THEN NoPayment ELSE new)
          /\ \A v \in Processes \ {p} : copy'[v] = copy[v]
      BY <3>1, <1>t DEF TypeOK, Copy, NoCopy, Event
    <3>9. /\ at'[p].stage = (IF at[p].event = "completed" THEN "mark" ELSE "readOrder")
          /\ at'[p].event = at[p].event
          /\ \A v \in Processes \ {p} : at'[v] = at[v]
      BY <3>1, <1>t, GoesTo DEF Stages, Event
    <3>10. Alone(p)
      BY <3>8, <3>9 DEF Alone
    <3>11. Paid(p)'
      BY <3>1, <3>5, <3>9, <1>t DEF Fits, Paid, AfterSave, Fulfilled
    <3>12. Refunded(p)'
      BY <3>1, <3>3, <3>8, <3>9, <1>t DEF Fits, Refunded, Refunding
    <3>13. CopiesFit(p)'
      BY <3>3, <3>5, <3>8, <3>9 DEF CopiesFit, NoPayment
    <3> QED BY <1>t, <3>6, <3>7, <3>10, <3>11, <3>12, <3>13, Together DEF Fits
  <2> QED BY <2>1, <2>2
<1>8. ASSUME NEW p \in Processes, NEW stage \in Stages, Goto(p, stage),
             at[p].stage \in AfterSave, stage \notin {"fulfil", "readPayment", "savePayment"},
             at[p].event = "full" /\ stage = "mark" => ended',
             copy'[p].payment \in {copy[p].payment, NoPayment},
             stage = "saveOrder" => copy'[p].payment = copy[p].payment,
             stage # "readOrder", at[p].stage = "readOrder" \/ stage # "saveOrder",
             \A v \in Processes \ {p} : copy'[v] = copy[v],
             UNCHANGED ledger, RowsFit', Grows
      PROVE  Inv'
  <2>1. /\ at'[p].stage = stage /\ at'[p].event = at[p].event
        /\ \A v \in Processes \ {p} : at'[v] = at[v]
    BY <1>8, <1>t, GoesTo
  <2>2. Alone(p) /\ NoneProcessed
    BY <1>8, <2>1 DEF Alone, NoneProcessed
  <2>3. at[p].event # "completed"
    BY <1>8, <1>t DEF Fits, Paid
  <2>4. Paid(p)'
    BY <2>1, <2>3 DEF Paid
  <2>5. /\ at[p].event = "full" => license # "none"
        /\ at[p].event = "full" /\ stage = "saveOrder" => copy[p].payment.status = "refunded"
    BY <1>8, <1>t DEF Fits, Refunded, AfterSave, Refunding
  <2>6. Refunded(p)'
    BY <1>8, <2>1, <2>5 DEF Refunded, Grows
  <2>7. CopiesFit(p)'
    BY <1>8, <1>t, <2>1 DEF Fits, CopiesFit, Grows, NoPayment
  <2> QED BY <1>8, <1>t, <2>2, <2>4, <2>6, <2>7, Together DEF Fits
<1>9. ASSUME NEW p \in Processes, ReadOrder(p) PROVE Inv'
  <2>1. RowsFit' /\ Grows
    BY <1>9, <1>t, Quiet DEF ReadOrder, rows, histories
  <2>2. at[p].stage = "readOrder" /\ UNCHANGED <<ledger, ended>>
    BY <1>9 DEF ReadOrder, On, histories
  <2>3. CASE IsRefund(Event(p))
    <3>1. /\ Goto(p, "saveOrder") /\ copy'[p].payment = copy[p].payment
          /\ \A v \in Processes \ {p} : copy'[v] = copy[v]
      BY <1>9, <1>t, <2>3 DEF ReadOrder, TypeOK, Copy
    <3> QED BY <1>8, <2>1, <2>2, <3>1 DEF AfterSave, Stages
  <2>4. CASE ~IsRefund(Event(p))
    <3>1. /\ Goto(p, "readLicense") /\ copy'[p].payment = NoPayment
          /\ \A v \in Processes \ {p} : copy'[v] = copy[v]
      BY <1>9, <1>t, <2>4 DEF ReadOrder, TypeOK, Forget, NoCopy
    <3> QED BY <1>8, <2>1, <2>2, <3>1 DEF AfterSave, Stages
  <2> QED BY <2>3, <2>4
<1>10. ASSUME NEW p \in Processes, SaveOrder(p) PROVE Inv'
  <2> DEFINE full == copy[p].payment.status = "refunded"
  <2>1. /\ order'.known = order.known
        /\ Goto(p, IF full THEN "readLicense" ELSE "mark")
        /\ at[p].stage = "saveOrder" /\ copy'[p].payment = NoPayment
        /\ \A v \in Processes \ {p} : copy'[v] = copy[v]
        /\ UNCHANGED <<ledger, payment, license, ended>>
    BY <1>10, <1>t DEF SaveOrder, TypeOK, Order, On, Forget, NoCopy
  <2>2. RowsFit' /\ Grows
    BY <2>1, <1>t DEF RowsFit, Grows
  <2>3. at[p].event = "full" => full
    BY <2>1, <1>t DEF Fits, Refunded
  <2> HIDE DEF full
  <2>4. CASE full
    BY <2>4, <2>1, <2>2, <1>8 DEF AfterSave, Stages
  <2>5. CASE ~full
    BY <2>5, <2>1, <2>2, <2>3, <1>8 DEF AfterSave, Stages
  <2> QED BY <2>4, <2>5
<1>11. ASSUME NEW p \in Processes, ReadLicense(p) PROVE Inv'
  <2>1. UNCHANGED copy
    BY <1>11 DEF ReadLicense
  <2>2. RowsFit' /\ Grows
    BY <1>11, <1>t, Quiet DEF ReadLicense, rows, histories
  <2>3. at[p].stage = "readLicense" /\ UNCHANGED <<ledger, ended>>
    BY <1>11 DEF ReadLicense, On, rows, histories
  <2>4. at[p].event = "full" => license # "none"
    BY <2>3, <1>t DEF Fits, Refunded, Refunding
  <2>5. \/ Goto(p, "changeLicense")
        \/ Goto(p, "mark") /\ (at[p].event = "full" => ended)
    BY <1>11, <2>4, <1>t DEF ReadLicense, RowsFit, IsRefund, Event
  <2>6. CASE Goto(p, "changeLicense")
    BY <2>6, <2>1, <2>2, <2>3, <1>8 DEF AfterSave, Stages
  <2>7. CASE Goto(p, "mark") /\ (at[p].event = "full" => ended)
    BY <2>7, <2>1, <2>2, <2>3, <1>8 DEF AfterSave, Stages
  <2> QED BY <2>5, <2>6, <2>7
<1>12. ASSUME NEW p \in Processes, ChangeLicense(p) PROVE Inv'
  <2>1. /\ license' \in {"revoked", "suspended"}
        /\ ended' = (ended \/ license' = "revoked")
        /\ Event(p) = "full" => license' = "revoked"
        /\ Goto(p, "mark")
        /\ UNCHANGED <<ledger, order, payment, copy>>
        /\ at[p].stage = "changeLicense"
    BY <1>12 DEF ChangeLicense, Becomes, IsRefund, On
  <2>2. RowsFit' /\ Grows
    BY <2>1, <1>t DEF RowsFit, Grows
  <2>3. at[p].event = "full" => ended'
    BY <2>1 DEF Event
  <2> QED BY <2>1, <2>2, <2>3, <1>8 DEF AfterSave, Stages
<1>13. ASSUME NEW p \in Processes, Mark(p) PROVE Inv'
  <2>1. /\ ledger' = [ledger EXCEPT ![Event(p)] = "processed"]
        /\ UNCHANGED <<order, payment, license, ended>>
        /\ at[p].stage = "mark"
    BY <1>13 DEF Mark, On, rows, histories
  <2>2. RowsFit' /\ Grows
    BY <2>1, <1>t, Quiet
  <2>3. Alone(p) /\ Fits(p)'
    <3>1. CASE Stop(p)
      BY <3>1, <1>t, StopFits
    <3>2. CASE Goto(p, "complete") /\ UNCHANGED copy
      <4>1. /\ at'[p].stage = "complete" /\ at'[p].event = at[p].event
            /\ \A v \in Processes \ {p} : at'[v] = at[v]
        BY <3>2, <1>t, GoesTo DEF Stages
      <4>2. Paid(p)' /\ Refunded(p)'
        BY <4>1 DEF Paid, Refunded, AfterSave, Fulfilled, Refunding
      <4>3. CopiesFit(p)'
        BY <4>1, <3>2, <2>1, <1>t DEF Fits, CopiesFit
      <4> QED BY <4>1, <4>2, <4>3, <3>2 DEF Fits, Alone
    <3> QED BY <3>1, <3>2, <1>13 DEF Mark
  <2>4. \A v \in Processes : Fits(v)'
    BY <2>2, <2>3, <1>t, StillFits DEF Alone
  <2>5. ASSUME NEW e \in Events, ledger'[e] = "processed", ledger[e] # "processed"
        PROVE  e = at[p].event
    BY <2>1, <2>5, <1>t DEF TypeOK, Event
  <2>6. Processed("completed")' => license # "none" /\ payment.status # "none"
    BY <2>1, <2>5, <1>t DEF Processed, ProcessedIsApplied, Fits, Paid, Fulfilled, RowsFit
  <2>7. Processed("full")' => ended
    BY <2>1, <2>5, <1>t DEF Processed, ProcessedIsApplied, Fits, Refunded
  <2>8. ProcessedIsApplied'
    BY <2>1, <2>6, <2>7 DEF ProcessedIsApplied, NoPayment
  <2> QED BY <1>t, <2>2, <2>4, <2>8 DEF Inv
<1>14. ASSUME NEW p \in Processes, Complete(p) PROVE Inv'
  BY <1>14, <1>s DEF Complete, rows, histories, NoneProcessed
<1>15. ASSUME NEW p \in Processes, Fail(p) PROVE Inv'
  BY <1>15, <1>s DEF Fail, GiveUp, rows, histories, NoneProcessed
<1>16. ASSUME RowsFit', Grows, UNCHANGED <<ledger, at, copy>> PROVE Inv'
  <2>1. NoneProcessed
    BY <1>16 DEF NoneProcessed
  <2>2. \A v \in Processes : Fits(v)'
    BY <1>16, <1>t, StillFits
  <2> QED BY <1>16, <1>t, <2>1, <2>2, StillApplied DEF Inv
<1>17. ASSUME NEW s \in Staff, NEW act \in Acts, StaffLoads(s, act) PROVE Inv'
  BY <1>17, <1>16, <1>t, Quiet DEF StaffLoads, rows, histories
<1>18. ASSUME NEW s \in Staff, StaffChanges(s) PROVE Inv'
  <2>1. desk[s] \in Acts
    BY <1>18, <1>t DEF TypeOK, StaffChanges
  <2>2. /\ license' \in {"suspended", "active", "revoked"}
        /\ ended' = (ended \/ license' = "revoked")
        /\ UNCHANGED <<ledger, order, payment, at, copy>>
    BY <1>18, <2>1 DEF StaffChanges, Becomes, Acts
  <2>3. RowsFit' /\ Grows
    BY <2>2, <1>t DEF RowsFit, Grows
  <2> QED BY <2>2, <2>3, <1>16
<1>20. ASSUME NEW e \in Events, Retry(e) PROVE Inv'
  BY <1>20, <1>16, <1>t, Quiet DEF Retry, rows, histories
<1>19. CASE UNCHANGED vars
  BY <1>19, <1>16, <1>t, Quiet DEF vars
<1> QED
  BY <1>1, <1>3, <1>4, <1>5, <1>6, <1>7, <1>9, <1>10, <1>11, <1>12, <1>13, <1>14, <1>15,
     <1>17, <1>18, <1>19, <1>20 DEF Next, Handle

\* The invariant holds from the start.
LEMMA InvInit == Init => Inv
<1> SUFFICES ASSUME Init PROVE Inv
  OBVIOUS
<1>1. RowsFit
  BY DEF Init, RowsFit, NoPayment
<1>2. ASSUME NEW p \in Processes PROVE Fits(p)
  <2>1. at[p] = Idle /\ copy[p] = NoCopy
    BY DEF Init
  <2>2. at[p].stage = "idle" /\ at[p].event = "completed" /\ copy[p].payment = NoPayment
    BY <2>1 DEF Idle, NoCopy
  <2>3. NoPayment.status = "none"
    BY DEF NoPayment
  <2> QED BY <2>2, <2>3 DEF Fits, Paid, Refunded, CopiesFit, AfterSave, Fulfilled
<1>3. ProcessedIsApplied
  BY DEF Init, ProcessedIsApplied, Processed
<1>4. Spare
  BY DEF Init, Spare
<1> QED BY <1>1, <1>2, <1>3, <1>4, TypeInit DEF Inv

\* An event the ledger shows as processed has been applied: a processed
\* payment has a license and a payment row, a processed full refund has ended
\* the license, whatever failed, was retried, replayed or overtaken, on any
\* number of workers and with any number of staff at the license.
THEOREM ProcessedEventsAreApplied == Spec => []ProcessedIsApplied
<1>1. Init => Inv
  BY InvInit
<1>2. Inv /\ [Next]_vars => Inv'
  BY InvStep
<1>3. Inv => ProcessedIsApplied
  BY DEF Inv
<1> QED BY <1>1, <1>2, <1>3, PTL DEF Spec

-------------------------------------------------------------------------------
(* The books.  Unless a partial refund was saved over a larger one, the     *)
(* amount given back only grows, so what a handler has read of it is never  *)
(* ahead of the row, and what a full refund has written stays.              *)

Late == {"readLicense", "changeLicense", "mark"}

Booked(p) ==
  /\ copy[p].payment.refunded <= payment.refunded
  /\ at[p].stage \in {"readOrder", "saveOrder"} /\ IsRefund(at[p].event)
       /\ copy[p].payment.refunded = Price => copy[p].payment.status = "refunded"
  /\ at[p].stage = "saveOrder" => IsRefund(at[p].event)
  /\ at[p].event = "full" =>
       /\ at[p].stage \in AfterSave \cup {"mark"} => payment.refunded = Price
       /\ at[p].stage = "saveOrder" /\ copy[p].order = "refunded" => order.status = "refunded"
       /\ at[p].stage \in Late => order.status = "refunded"

Settled == Processed("full") => order.status = "refunded" /\ payment.refunded = Price

Books == ~crossed => Settled /\ \A p \in Processes : Booked(p)

\* What a step leaves of a full refund that is on the books.
Keeps ==
  /\ payment'.refunded \in payment.refunded .. Price
  /\ order.status = "refunded" /\ payment.refunded = Price => order'.status = "refunded"

LEMMA StillBooked ==
  ASSUME NEW v \in Processes, Booked(v), Keeps, payment.refunded \in 0 .. Price,
         copy[v].payment.refunded \in 0 .. Price,
         at'[v] = at[v], copy'[v] = copy[v]
  PROVE  Booked(v)'
<1>1. payment.refunded = Price => payment'.refunded = Price
  BY DEF Keeps, Price
<1>2. copy'[v].payment.refunded <= payment'.refunded
  BY DEF Keeps, Booked, Price
<1> QED BY <1>1, <1>2 DEF Booked, Keeps, AfterSave, Late

LEMMA MergedCounts ==
  ASSUME NEW old \in Payment, NEW e \in Kinds
  PROVE  /\ Merged(old, e).refunded \in 0 .. Price
         /\ Merged(old, e).refunded >= old.refunded
         /\ ~IsRefund(e) => Merged(old, e).refunded = old.refunded
         /\ e = "full" => Merged(old, e).refunded = Price
         /\ IsRefund(e) /\ Merged(old, e).refunded = Price => Merged(old, e).status = "refunded"
<1> DEFINE incoming == IF e = "completed" THEN Price ELSE 0
           amount == IF old.amount # 0 THEN old.amount ELSE incoming
           refunded == IF IsRefund(e) /\ Refunds[e] > old.refunded THEN Refunds[e]
                       ELSE old.refunded
<1>1. amount \in {0, Price}
  BY DEF Payment
<1>2. /\ refunded \in 0 .. Price /\ refunded >= old.refunded /\ old.refunded \in 0 .. Price
      /\ e = "full" => refunded = Price
      /\ ~IsRefund(e) => refunded = old.refunded
  BY DEF Payment, Refunds, IsRefund, Kinds, Price
<1>3. refunded = Price => StatusOf(amount, refunded) = "refunded"
  BY <1>1, <1>2, StatusOfType
<1>4. CASE e = "dispute"
  BY <1>2, <1>4 DEF Merged, Payment, IsRefund, Price
<1>5. CASE e # "dispute"
  <2>1. Merged(old, e) = [status |-> StatusOf(amount, refunded),
                          amount |-> amount, refunded |-> refunded]
    BY <1>5 DEF Merged
  <2> HIDE DEF amount, refunded
  <2> QED BY <2>1, <1>2, <1>3
<1> QED BY <1>4, <1>5

LEMMA BooksStep == Inv /\ Books /\ [Next]_vars => Books'
<1> SUFFICES ASSUME Inv, Books, [Next]_vars, ~crossed'
             PROVE  Settled' /\ \A p \in Processes : Booked(p)'
  BY DEF Books
<1>0. /\ at \in [Processes -> At] /\ copy \in [Processes -> Copy] /\ payment \in Payment
      /\ order \in Order /\ ledger \in [Events -> {"none", "received", "processed"}]
      /\ payment.refunded \in 0 .. Price
      /\ \A p \in Processes : copy[p].payment \in Payment /\ copy[p].payment.refunded \in 0 .. Price
      /\ \A p \in Processes : at[p].event \in Kinds
  BY DEF Inv, TypeOK, Payment, Copy, At
<1>c. ~crossed
  <2>1. ASSUME NEW p \in Processes, Handle(p) PROVE crossed => crossed'
    BY <2>1 DEF Handle, Fulfil, ReadPayment, SavePayment, ReadOrder, SaveOrder, ReadLicense,
                ChangeLicense, Mark, Complete, Throw, histories
  <2> QED BY <2>1 DEF Next, Receive, Retry, Begin, Replay, Fail, StaffLoads, StaffChanges,
                      histories, vars
<1>b. Settled /\ \A p \in Processes : Booked(p)
  BY <1>c DEF Books
<1> DEFINE Goal == Settled' /\ \A p \in Processes : Booked(p)'
\* What is left to show of a step of p.
<1>1. ASSUME NEW p \in Processes, Keeps, Booked(p)', \A v \in Processes \ {p} : at'[v] = at[v] /\ copy'[v] = copy[v],
             Processed("full")' => Processed("full") \/ (order.status = "refunded" /\ payment.refunded = Price)
      PROVE  Goal
  <2>1. \A v \in Processes : Booked(v)'
    BY <1>0, <1>b, <1>1, StillBooked
  <2>2. payment.refunded = Price => payment'.refunded = Price
    BY <1>1 DEF Keeps, Price
  <2>3. Settled'
    BY <1>b, <1>1, <2>2 DEF Settled, Keeps
  <2> QED BY <2>1, <2>3
<1>k. ASSUME UNCHANGED <<order, payment>> PROVE Keeps
  BY <1>0, <1>k DEF Keeps, Price
<1>2. ASSUME NEW p \in Processes, Stop(p), UNCHANGED <<order, payment>>,
             Processed("full")' => Processed("full")
      PROVE  Goal
  <2>1. /\ at'[p] = Idle /\ copy'[p] = NoCopy
        /\ \A v \in Processes \ {p} : at'[v] = at[v] /\ copy'[v] = copy[v]
    BY <1>0, <1>2 DEF Stop, Forget
  <2>2. Booked(p)'
    BY <1>0, <1>2, <2>1 DEF Booked, Idle, NoCopy, NoPayment, Price
  <2> QED BY <1>1, <1>2, <1>k, <2>1, <2>2
<1>3. ASSUME NEW p \in Processes, NEW e \in Events, Begin(p, e) \/ Replay(p, e) PROVE Goal
  <2>1. /\ UNCHANGED <<ledger, order, payment, copy>>
        /\ at'[p].stage \in {"fulfil", "readPayment", "complete"}
        /\ \A v \in Processes \ {p} : at'[v] = at[v]
    BY <1>0, <1>3 DEF Begin, Replay, Take, FirstStage, rows
  <2>2. Booked(p)'
    BY <1>b, <2>1 DEF Booked, AfterSave, Late
  <2> QED BY <1>1, <1>k, <2>1, <2>2 DEF Processed
<1>4. ASSUME NEW p \in Processes, Fail(p) PROVE Goal
  BY <1>2, <1>4 DEF Fail, GiveUp, Processed, rows
<1>5. ASSUME NEW p \in Processes, Fulfil(p) PROVE Goal
  <2>1. /\ UNCHANGED <<ledger, payment, copy>> /\ at'[p].stage = "readPayment"
        /\ order.status = "refunded" => order'.status = "refunded"
        /\ \A v \in Processes \ {p} : at'[v] = at[v]
    BY <1>0, <1>5 DEF Fulfil, Goto, At
  <2>2. Booked(p)'
    BY <1>b, <2>1 DEF Booked, AfterSave, Late
  <2>3. Keeps
    BY <1>0, <2>1 DEF Keeps, Price
  <2> QED BY <1>1, <2>1, <2>2, <2>3 DEF Processed
<1>6. ASSUME NEW p \in Processes, ReadPayment(p) PROVE Goal
  <2>1. CASE Throw(p)
    BY <1>2, <2>1 DEF Throw, GiveUp, Processed, rows
  <2>2. CASE ~Throw(p)
    <3>1. /\ UNCHANGED <<ledger, order, payment>> /\ copy'[p].payment = payment
          /\ at'[p].event = at[p].event
          /\ at'[p].stage = IF Event(p) = "dispute" /\ payment = NoPayment THEN "mark" ELSE "savePayment"
          /\ \A v \in Processes \ {p} : at'[v] = at[v] /\ copy'[v] = copy[v]
      BY <1>0, <1>6, <2>2 DEF ReadPayment, Goto, At, Copy, rows
    <3>2. Booked(p)'
      BY <1>0, <3>1 DEF Booked, AfterSave, Late, Event, Price
    <3> QED BY <1>1, <1>k, <3>1, <3>2 DEF Processed
  <2> QED BY <2>1, <2>2
<1>7. ASSUME NEW p \in Processes, SavePayment(p) PROVE Goal
  <2> DEFINE old == copy[p].payment
             new == Merged(old, at[p].event)
  <2>1. CASE Throw(p)
    BY <1>2, <2>1 DEF Throw, GiveUp, Processed, rows
  <2>2. CASE ~Throw(p)
    <3>2. new \in Payment /\ payment' = Dirty(payment, old, new)
          /\ payment'.refunded = (IF new.refunded = old.refunded THEN payment.refunded ELSE new.refunded)
      <4>1. new \in Payment
        BY <1>0, MergedType
      <4> HIDE DEF new
      <4>2. payment' = Dirty(payment, old, new)
        BY <1>7, <2>2 DEF SavePayment, Event, new
      <4> QED BY <1>0, <4>1, <4>2, DirtyType
    <3>3. /\ new.refunded >= old.refunded /\ new.refunded \in 0 .. Price
          /\ ~IsRefund(at[p].event) => new.refunded = old.refunded
          /\ at[p].event = "full" => new.refunded = Price
          /\ IsRefund(at[p].event) /\ new.refunded = Price => new.status = "refunded"
      BY <1>0, MergedCounts
    <3>4. /\ copy'[p].payment = (IF at[p].event = "completed" THEN NoPayment ELSE new)
          /\ UNCHANGED <<ledger, order>>
          /\ at'[p].stage = (IF at[p].event = "completed" THEN "mark" ELSE "readOrder")
          /\ at'[p].event = at[p].event
          /\ \A v \in Processes \ {p} : at'[v] = at[v] /\ copy'[v] = copy[v]
      BY <1>0, <1>7, <2>2 DEF SavePayment, Event, Goto, Forget, NoCopy, At, Copy
    <3>5. at[p].event = "partial" => old.refunded >= payment.refunded
      <4>1. ~(at[p].event = "partial" /\ old.refunded < payment.refunded)
        BY <1>7, <2>2 DEF SavePayment, Outdone, Event
      <4> QED BY <1>0, <4>1
    <3>6. old.refunded <= payment.refunded /\ old.refunded \in 0 .. Price
      BY <1>0, <1>b DEF Booked
    <3>7. at[p].event \in {"completed", "partial", "full", "dispute"}
      BY <1>0 DEF Kinds
    <3> HIDE DEF new, old
    <3>8. payment'.refunded \in payment.refunded .. Price /\ new.refunded <= payment'.refunded
      BY <1>0, <3>2, <3>3, <3>5, <3>6, <3>7 DEF IsRefund, Price
    <3>9. Keeps
      BY <3>4, <3>8 DEF Keeps
    <3>10. Booked(p)'
      <4>1. CASE at[p].event = "completed"
        BY <1>0, <3>4, <3>8, <4>1 DEF Booked, NoPayment, Price
      <4>2. CASE at[p].event # "completed"
        <5>1. at[p].event = "full" => payment'.refunded = Price
          BY <3>3, <3>8 DEF Price
        <5> QED BY <3>3, <3>4, <3>8, <4>2, <5>1 DEF Booked, Late
      <4> QED BY <4>1, <4>2
    <3> QED BY <1>1, <3>4, <3>9, <3>10 DEF Processed
  <2> QED BY <2>1, <2>2
<1>8. ASSUME NEW p \in Processes, ReadOrder(p) PROVE Goal
  <2>1. /\ at[p].stage = "readOrder" /\ UNCHANGED <<ledger, order, payment>>
        /\ at'[p].event = at[p].event
        /\ at'[p].stage = (IF IsRefund(at[p].event) THEN "saveOrder" ELSE "readLicense")
        /\ \A v \in Processes \ {p} : at'[v] = at[v] /\ copy'[v] = copy[v]
    BY <1>0, <1>8 DEF ReadOrder, On, Event, Goto, Forget, At, Copy, rows
  <2>2. CASE IsRefund(at[p].event)
    <3>1. copy'[p].order = order.status /\ copy'[p].payment = copy[p].payment
      BY <1>0, <1>8, <2>2 DEF ReadOrder, Event, Copy
    <3>2. Booked(p)'
      BY <1>b, <2>1, <2>2, <3>1 DEF Booked, AfterSave, Late
    <3> QED BY <1>1, <1>k, <2>1, <3>2 DEF Processed
  <2>3. CASE ~IsRefund(at[p].event)
    <3>1. copy'[p].payment.refunded = 0
      BY <1>0, <1>8, <2>3 DEF ReadOrder, Event, Forget, NoCopy, NoPayment
    <3>2. Booked(p)'
      BY <1>0, <1>b, <2>1, <2>3, <3>1 DEF Booked, AfterSave, Late, IsRefund, Price
    <3> QED BY <1>1, <1>k, <2>1, <3>2 DEF Processed
  <2> QED BY <2>2, <2>3
<1>9. ASSUME NEW p \in Processes, SaveOrder(p) PROVE Goal
  <2> DEFINE full == copy[p].payment.status = "refunded"
             new == IF full THEN "refunded" ELSE "partially_refunded"
  <2>1. /\ at[p].stage = "saveOrder" /\ UNCHANGED <<ledger, payment>>
        /\ at'[p].event = at[p].event
        /\ at'[p].stage = (IF full THEN "readLicense" ELSE "mark")
        /\ copy'[p].payment.refunded = 0
        /\ IsRefund(at[p].event)
        /\ \A v \in Processes \ {p} : at'[v] = at[v] /\ copy'[v] = copy[v]
    BY <1>0, <1>b, <1>9 DEF SaveOrder, On, Goto, At, Booked, Forget, NoCopy, NoPayment
  <2>2. order'.status = (IF new = copy[p].order THEN order.status ELSE new)
    BY <1>0, <1>9 DEF SaveOrder, Order
  <2>3. at[p].event = "full" => full
    BY <2>1 DEF Inv, Fits, Refunded
  <2>4. at[p].event = "partial" => copy[p].payment.refunded = payment.refunded
    <3>1. ~(at[p].event = "partial" /\ copy[p].payment.refunded < payment.refunded)
      BY <1>9 DEF SaveOrder, Outdone, Event
    <3>2. copy[p].payment.refunded <= payment.refunded
      BY <1>b DEF Booked
    <3> QED BY <1>0, <3>1, <3>2
  <2>5. payment.refunded = Price => full
    BY <1>b, <2>1, <2>3, <2>4 DEF Booked, IsRefund
  <2>6. at[p].event = "full" => order'.status = "refunded" /\ payment.refunded = Price
    BY <1>b, <2>1, <2>2, <2>3 DEF Booked, AfterSave
  <2>7. Keeps
    BY <1>0, <2>1, <2>2, <2>5 DEF Keeps, Price
  <2>8. Booked(p)'
    BY <1>0, <2>1, <2>6 DEF Booked, Price
  <2> QED BY <1>1, <2>1, <2>7, <2>8 DEF Processed
<1>10. ASSUME NEW p \in Processes, ReadLicense(p) \/ ChangeLicense(p) PROVE Goal
  <2>1. /\ at[p].stage \in {"readLicense", "changeLicense"} /\ UNCHANGED <<ledger, order, payment, copy>>
        /\ at'[p].event = at[p].event /\ at'[p].stage \in {"changeLicense", "mark"}
        /\ \A v \in Processes \ {p} : at'[v] = at[v]
    BY <1>0, <1>10 DEF ReadLicense, ChangeLicense, On, Goto, At, rows
  <2>2. Booked(p)'
    BY <1>b, <2>1 DEF Booked, AfterSave, Late
  <2> QED BY <1>1, <1>k, <2>1, <2>2 DEF Processed
<1>11. ASSUME NEW p \in Processes, Mark(p) PROVE Goal
  <2>1. /\ at[p].stage = "mark" /\ UNCHANGED <<order, payment>>
        /\ ledger' = [ledger EXCEPT ![at[p].event] = "processed"]
        /\ at'[p].stage \in {"idle", "complete"}
        /\ copy'[p].payment.refunded <= payment.refunded
        /\ \A v \in Processes \ {p} : at'[v] = at[v] /\ copy'[v] = copy[v]
    <3>1. copy'[p].payment.refunded = 0 \/ copy' = copy
      BY <1>0, <1>11 DEF Mark, Stop, Forget, NoCopy, NoPayment
    <3>2. copy'[p].payment.refunded <= payment.refunded
      BY <1>0, <1>b, <3>1 DEF Booked, Price
    <3> QED BY <1>0, <1>11, <3>2 DEF Mark, On, Event, Goto, Stop, Forget, At, Idle, rows
  <2>2. Booked(p)'
    BY <2>1 DEF Booked, AfterSave, Late
  <2>3. at[p].event = "full" => order.status = "refunded" /\ payment.refunded = Price
    BY <1>b, <2>1 DEF Booked, Late
  <2>4. at[p].event # "full" => (Processed("full")' => Processed("full"))
    BY <1>0, <2>1 DEF Processed
  <2> QED BY <1>1, <1>k, <2>1, <2>2, <2>3, <2>4
<1>12. ASSUME NEW p \in Processes, Complete(p) PROVE Goal
  BY <1>2, <1>12 DEF Complete, Processed, rows
<1>14. ASSUME UNCHANGED <<order, payment, at, copy>>, Processed("full")' => Processed("full") PROVE Goal
  BY <1>0, <1>b, <1>14 DEF Booked, Settled
<1>13. ASSUME NEW e \in Events, Receive(e) \/ Retry(e) PROVE Goal
  <2>1. UNCHANGED <<order, payment, at, copy>> /\ (Processed("full")' => Processed("full"))
    BY <1>0, <1>13 DEF Receive, Retry, Processed, rows
  <2> QED BY <1>14, <2>1
<1>15. CASE UNCHANGED <<ledger, order, payment, at, copy>>
  BY <1>14, <1>15 DEF Processed
<1> QED
  BY <1>3, <1>4, <1>5, <1>6, <1>7, <1>8, <1>9, <1>10, <1>11, <1>12, <1>13, <1>15
     DEF Next, Handle, StaffChanges, StaffLoads, rows, vars

LEMMA BooksInit == Init => Books
<1> SUFFICES ASSUME Init PROVE Books
  OBVIOUS
<1>1. \A p \in Processes : at[p].stage = "idle" /\ at[p].event = "completed"
                            /\ copy[p].payment.refunded = 0
  BY DEF Init, Idle, NoCopy, NoPayment
<1>2. payment.refunded = 0
  BY DEF Init, NoPayment
<1> QED BY <1>1, <1>2 DEF Init, Books, Booked, Settled, Processed

\* A processed full refund is on the books, whatever is applied beside it,
\* before it, after it or again (FullRefundIsOnTheBooks), on any number of
\* workers with replays beside them, unless a partial refund that read the
\* payment before it is saved after it.
THEOREM FullRefundsStayOnTheBooks == Spec => []FullRefundIsOnTheBooks
<1>1. Inv /\ Books /\ [Next]_vars => Books'
  BY BooksStep
<1>2. Books => FullRefundIsOnTheBooks
  BY DEF Books, Settled, FullRefundIsOnTheBooks
<1>3. Spec => []Inv
  BY InvInit, InvStep, PTL DEF Spec
<1> QED BY <1>1, <1>2, <1>3, BooksInit, PTL DEF Spec
===============================================================================
