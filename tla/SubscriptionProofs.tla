-------------------------- MODULE SubscriptionProofs --------------------------
(***************************************************************************)
(* Proofs about Subscription, for any number of workers, replays and       *)
(* sweeps beside each other and any failures: its types; that who pays has *)
(* a license unless a handler ended between its save and the fulfilment;   *)
(* and that no expiry is moved back unless something was written from an   *)
(* outdated copy, which is what the watermark is for.                      *)
(***************************************************************************)
EXTENDS Subscription, TLAPS

Handling == {"guard", "read", "save"}
HasCopy == {"fulfil", "readLicense", "saveLicense", "ask", "check", "status", "period"}

\* What a process has in memory is there, and of a subscription that is stored.
HeldFits ==
  \A p \in Processes :
    /\ at[p].stage \in Handling \cup {"status", "period"} => incoming[p] \in State
    /\ at[p].stage \in HasCopy => copy[p] \in State
    /\ copy[p] \in State => row # NoRow
    /\ at[p].later => incoming[p] \in State /\ p \in Sweeps

SubInv == TypeOK /\ HeldFits

-------------------------------------------------------------------------------
(* What the operators return. *)

LEMMA NoStateApart == NoState \notin State /\ NoState.end = 0 /\ NoState.status = "none"
  BY DEF NoState, State, Statuses

LEMMA RowFields ==
  ASSUME TypeOK
  PROVE  /\ row # NoRow => RowState \in State
         /\ row = NoRow <=> RowState = NoState
         /\ RowState \in Copy
  BY DEF TypeOK, RowState, State, NoRow, NoState, Copy, Statuses

LEMMA DirtyTyped ==
  ASSUME TypeOK, NEW old \in Copy, NEW new \in State,
         old \in State <=> row # NoRow
  PROVE  /\ Dirty(old, new) \in [status : Statuses, end : 1 .. MaxPeriod, mark : 0 .. MaxVersion]
         /\ Dirty(old, new) # NoRow
  <1>1. aged \in 0 .. MaxVersion
    BY VersionBounds DEF TypeOK, Versions
  <1>2. CASE row # NoRow
    <2>1. row \in [status : Statuses, end : 1 .. MaxPeriod, mark : 0 .. MaxVersion]
      BY <1>2 DEF TypeOK
    <2> QED BY <1>1, <2>1 DEF Dirty, State, NoRow, Statuses
  <1>3. CASE row = NoRow
    <2>1. old = NoState
      BY <1>3 DEF Copy
    <2> QED BY <1>1, <1>3, <2>1 DEF Dirty, NoState, State, NoRow, Statuses
  <1> QED BY <1>2, <1>3

LEMMA IdleTyped == Idle \in At /\ Idle.stage = "idle" /\ ~Idle.later
  BY VersionBounds DEF Idle, At, Stages, Versions

LEMMA ProcessesTyped ==
  ASSUME TypeOK, NEW p \in Processes
  PROVE  /\ at \in [Processes -> At] /\ copy \in [Processes -> Copy]
         /\ incoming \in [Processes -> Copy]
         /\ at[p] \in At /\ at[p].stage \in Stages /\ at[p].version \in Versions
  BY DEF TypeOK, At

-------------------------------------------------------------------------------
(* The first state, and what moves one process. *)

LEMMA InitInv == Init => SubInv
  <1> SUFFICES ASSUME Init PROVE SubInv
    OBVIOUS
  <1>1. TypeOK
    <2>1. 1 \in Versions /\ 0 \in 0 .. 1 /\ 0 \in Expiry /\ 0 \in 0 .. MaxExtras
      BY VersionBounds, ExtrasBound DEF Versions, Expiry
    <2>2. First \in State /\ NoState \in Copy /\ Idle \in At
      BY VersionBounds, IdleTyped DEF First, State, Statuses, Copy
    <2> QED BY <2>1, <2>2 DEF Init, TypeOK
  <1>2. HeldFits
    BY NoStateApart, IdleTyped DEF Init, HeldFits, Handling, HasCopy
  <1> QED BY <1>1, <1>2 DEF SubInv

\* Process p moves to another place, or stops, and no row changes.
LEMMA MovesOn ==
  ASSUME SubInv, NEW p \in Processes, NEW a \in At, NEW c \in Copy, NEW i \in Copy,
         at' = [at EXCEPT ![p] = a], copy' = [copy EXCEPT ![p] = c],
         incoming' = [incoming EXCEPT ![p] = i],
         row # NoRow => row' # NoRow,
         a.stage \in Handling \cup {"status", "period"} \/ a.later => i \in State,
         a.stage \in HasCopy => c \in State,
         c \in State => row' # NoRow, a.later => p \in Sweeps
  PROVE  /\ at' \in [Processes -> At] /\ copy' \in [Processes -> Copy]
         /\ incoming' \in [Processes -> Copy] /\ HeldFits'
  <1>1. /\ at \in [Processes -> At] /\ copy \in [Processes -> Copy]
        /\ incoming \in [Processes -> Copy]
    BY DEF SubInv, TypeOK
  <1>2. /\ at' \in [Processes -> At] /\ copy' \in [Processes -> Copy]
        /\ incoming' \in [Processes -> Copy]
        /\ \A q \in Processes : /\ at'[q] = IF q = p THEN a ELSE at[q]
                                /\ copy'[q] = IF q = p THEN c ELSE copy[q]
                                /\ incoming'[q] = IF q = p THEN i ELSE incoming[q]
    BY <1>1
  <1> QED BY <1>2 DEF SubInv, HeldFits

\* It only goes to another stage.
LEMMA GoesOn ==
  ASSUME SubInv, NEW p \in Processes, NEW a \in At, at' = [at EXCEPT ![p] = a],
         UNCHANGED <<copy, incoming>>, row # NoRow => row' # NoRow,
         a.stage \in Handling \cup {"status", "period"} \/ a.later => incoming[p] \in State,
         a.stage \in HasCopy => copy[p] \in State, a.later => p \in Sweeps
  PROVE  /\ at' \in [Processes -> At] /\ copy' \in [Processes -> Copy]
         /\ incoming' \in [Processes -> Copy] /\ HeldFits'
  <1>1. /\ copy \in [Processes -> Copy] /\ incoming \in [Processes -> Copy]
    BY DEF SubInv, TypeOK
  <1> DEFINE c == copy[p]
             i == incoming[p]
  <1>2. copy' = [copy EXCEPT ![p] = c] /\ incoming' = [incoming EXCEPT ![p] = i]
    BY <1>1
  <1>3. c \in Copy /\ i \in Copy
    BY <1>1
  <1>4. /\ c \in State => row' # NoRow
        /\ a.stage \in Handling \cup {"status", "period"} \/ a.later => i \in State
        /\ a.stage \in HasCopy => c \in State
    BY DEF SubInv, HeldFits
  <1> HIDE DEF c, i
  <1> QED BY <1>2, <1>3, <1>4, MovesOn

LEMMA Stops ==
  ASSUME SubInv, NEW p \in Processes, Stop(p), row # NoRow => row' # NoRow
  PROVE  /\ at' \in [Processes -> At] /\ copy' \in [Processes -> Copy]
         /\ incoming' \in [Processes -> Copy] /\ HeldFits'
  <1>1. NoState \in Copy /\ NoState \notin State /\ Idle \in At /\ Idle.stage = "idle" /\ ~Idle.later
    BY NoStateApart, IdleTyped DEF Copy
  <1> QED BY <1>1, MovesOn DEF Stop, Forget, Handling, HasCopy

LEMMA Staged ==
  ASSUME NEW a \in At, NEW stage \in Stages
  PROVE  /\ [a EXCEPT !.stage = stage] \in At
         /\ [a EXCEPT !.stage = stage].stage = stage
         /\ [a EXCEPT !.stage = stage].version = a.version
         /\ [a EXCEPT !.stage = stage].later = a.later
  BY DEF At

LEMMA GotoForm ==
  ASSUME SubInv, NEW p \in Processes, NEW stage \in Stages, Goto(p, stage)
  PROVE  /\ at' = [at EXCEPT ![p] = [at[p] EXCEPT !.stage = stage]]
         /\ [at[p] EXCEPT !.stage = stage] \in At
         /\ [at[p] EXCEPT !.stage = stage].stage = stage
         /\ [at[p] EXCEPT !.stage = stage].later = at[p].later
  BY Staged, ProcessesTyped DEF SubInv, Goto

LEMMA Advances ==
  ASSUME SubInv, NEW p \in Processes, NEW stage \in Stages, Goto(p, stage),
         NEW c \in Copy, NEW i \in Copy,
         copy' = [copy EXCEPT ![p] = c], incoming' = [incoming EXCEPT ![p] = i],
         row # NoRow => row' # NoRow,
         stage \in Handling \cup {"status", "period"} \/ at[p].later => i \in State,
         stage \in HasCopy => c \in State, c \in State => row' # NoRow
  PROVE  /\ at' \in [Processes -> At] /\ copy' \in [Processes -> Copy]
         /\ incoming' \in [Processes -> Copy] /\ HeldFits'
  <1> DEFINE a == [at[p] EXCEPT !.stage = stage]
  <1>1. at' = [at EXCEPT ![p] = a] /\ a \in At /\ a.stage = stage /\ a.later = at[p].later
    BY GotoForm
  <1>2. at[p].later => p \in Sweeps
    BY DEF SubInv, HeldFits
  <1> HIDE DEF a
  <1> QED BY <1>1, <1>2, MovesOn

LEMMA AdvancesOn ==
  ASSUME SubInv, NEW p \in Processes, NEW stage \in Stages, Goto(p, stage),
         UNCHANGED <<copy, incoming>>, row # NoRow => row' # NoRow,
         stage \in Handling \cup {"status", "period"} => incoming[p] \in State,
         stage \in HasCopy => copy[p] \in State
  PROVE  /\ at' \in [Processes -> At] /\ copy' \in [Processes -> Copy]
         /\ incoming' \in [Processes -> Copy] /\ HeldFits'
  <1> DEFINE a == [at[p] EXCEPT !.stage = stage]
  <1>1. at' = [at EXCEPT ![p] = a] /\ a \in At /\ a.stage = stage /\ a.later = at[p].later
    BY GotoForm
  <1>2. at[p].later => incoming[p] \in State /\ p \in Sweeps
    BY DEF SubInv, HeldFits
  <1> HIDE DEF a
  <1> QED BY <1>1, <1>2, GoesOn

LEMMA WritesTyped ==
  ASSUME TypeOK, NEW p, Writes(p)
  PROVE  overtaken' \in BOOLEAN /\ halfDone' \in BOOLEAN /\ edited' \in BOOLEAN
  BY DEF Writes, Outdated, On, TypeOK

LEMMA HistoriesTyped ==
  ASSUME TypeOK, UNCHANGED histories
  PROVE  overtaken' \in BOOLEAN /\ halfDone' \in BOOLEAN /\ edited' \in BOOLEAN
  BY DEF histories, TypeOK

-------------------------------------------------------------------------------
(* The provider, the clock, the endpoint and the staff. *)

LEMMA OutsideStep ==
  ASSUME SubInv,
         \/ Renew \/ PaymentFails \/ Cancel \/ Ages
         \/ \E v \in Versions : Receive(v)
         \/ \E day \in ByStaff : StaffSetsExpiry(day)
  PROVE  SubInv'
  <1>0. /\ provider \in [Versions -> State] /\ version \in Versions /\ aged \in 0 .. version
        /\ Now \in State
    BY DEF SubInv, TypeOK, Now
  <1>1. UNCHANGED <<row, local>>
    BY DEF Renew, PaymentFails, Cancel, Change, Ages, Receive, StaffSetsExpiry, db
  <1>2. HeldFits'
    BY <1>1 DEF SubInv, HeldFits, local
  <1>3. ASSUME NEW state \in State, Change(state) PROVE TypeOK'
    <2>1. /\ version + 1 \in Versions /\ version' = version + 1 /\ aged' = aged
          /\ provider' = [provider EXCEPT ![version + 1] = state]
      BY <1>0, <1>3, VersionBounds DEF Change, Versions
    <2>2. provider' \in [Versions -> State] /\ aged' \in 0 .. version' /\ version' \in Versions
      BY <1>0, <2>1 DEF Versions
    <2> QED BY <1>1, <1>3, <2>2, HistoriesTyped DEF SubInv, TypeOK, Change, mail, db, local
  <1>4. CASE Renew
    <2>1. [status |-> "active", end |-> Now.end + 1] \in State
      BY <1>0, <1>4, VersionBounds DEF Renew, State, Statuses
    <2> QED BY <1>2, <1>3, <1>4, <2>1 DEF Renew, SubInv
  <1>5. CASE PaymentFails
    <2>1. [Now EXCEPT !.status = "past_due"] \in State
      BY <1>0 DEF State, Statuses
    <2> QED BY <1>2, <1>3, <1>5, <2>1 DEF PaymentFails, SubInv
  <1>6. CASE Cancel
    <2>1. [Now EXCEPT !.status = "canceled"] \in State
      BY <1>0 DEF State, Statuses
    <2> QED BY <1>2, <1>3, <1>6, <2>1 DEF Cancel, SubInv
  <1>7. CASE Ages
    <2>1. aged' \in 0 .. version'
      BY <1>0, <1>7 DEF Ages, Versions
    <2> QED BY <1>1, <1>2, <1>7, <2>1, HistoriesTyped DEF Ages, SubInv, TypeOK, mail, db, local
  <1>8. CASE \E v \in Versions : Receive(v)
    BY <1>1, <1>2, <1>8, HistoriesTyped DEF Receive, SubInv, TypeOK, clock, db, local
  <1>9. CASE \E day \in ByStaff : StaffSetsExpiry(day)
    <2>1. extras' \in 0 .. MaxExtras
      BY <1>9, ExtrasBound DEF StaffSetsExpiry, Extra, SubInv, TypeOK
    <2>2. license' \in Expiry
      BY <1>9, VersionBounds DEF StaffSetsExpiry, ByStaff, Expiry
    <2> QED BY <1>1, <1>2, <1>9, <2>1, <2>2 DEF StaffSetsExpiry, Extra, SubInv, TypeOK, clock, mail, local
  <1> QED BY <1>4, <1>5, <1>6, <1>7, <1>8, <1>9

LEMMA FailStep ==
  ASSUME SubInv, NEW p \in Processes, Fail(p)
  PROVE  SubInv'
  <1>1. extras' \in 0 .. MaxExtras
    BY ExtrasBound DEF Fail, Extra, SubInv, TypeOK
  <1>2. Stop(p) /\ UNCHANGED <<clock, mail, db>>
    BY DEF Fail
  <1>3. overtaken' \in BOOLEAN /\ halfDone' \in BOOLEAN /\ edited' \in BOOLEAN
    BY DEF Fail, On, SubInv, TypeOK
  <1> QED BY <1>1, <1>2, <1>3, Stops DEF SubInv, TypeOK, clock, mail, db

-------------------------------------------------------------------------------
(* The handler. *)

LEMMA TakeStep ==
  ASSUME SubInv, NEW w \in Handlers, NEW v \in Versions, Take(w, v),
         UNCHANGED row
  PROVE  /\ at' \in [Processes -> At] /\ copy' \in [Processes -> Copy]
         /\ incoming' \in [Processes -> Copy] /\ HeldFits'
  <1> DEFINE a == [Idle EXCEPT !.stage = "guard", !.version = v]
  <1>1. a \in At /\ a.stage = "guard" /\ ~a.later
    BY IdleTyped DEF At, Stages, Idle
  <1>2. provider[v] \in State /\ provider[v] \in Copy /\ copy \in [Processes -> Copy] /\ w \in Processes
    BY DEF SubInv, TypeOK, Copy, Processes, Handlers
  <1>3. /\ at' = [at EXCEPT ![w] = a] /\ incoming' = [incoming EXCEPT ![w] = provider[v]]
        /\ copy' = [copy EXCEPT ![w] = copy[w]] /\ copy[w] \in Copy
    BY <1>2 DEF Take
  <1>4. copy[w] \in State => row' # NoRow
    BY <1>2 DEF SubInv, HeldFits
  <1> HIDE DEF a
  <1> QED BY <1>1, <1>2, <1>3, <1>4, MovesOn DEF HasCopy

LEMMA BeginStep ==
  ASSUME SubInv, NEW w \in Handlers, NEW v \in Versions, Begin(w, v) \/ Replay(w, v)
  PROVE  SubInv'
  <1>0. w \in Processes
    BY DEF Processes
  <1>1. CASE Begin(w, v)
    <2>1. UNCHANGED <<clock, mail, db, extras, histories>>
      BY <1>1 DEF Begin
    <2>2. /\ at' \in [Processes -> At] /\ copy' \in [Processes -> Copy]
          /\ incoming' \in [Processes -> Copy] /\ HeldFits'
      <3>1. CASE ledger[v] = "processed"
        <4> DEFINE a == [Idle EXCEPT !.stage = "complete", !.version = v]
        <4>1. a \in At /\ a.stage = "complete" /\ ~a.later
          BY IdleTyped DEF At, Stages, Idle
        <4>2. at' = [at EXCEPT ![w] = a] /\ UNCHANGED <<copy, incoming>>
          BY <1>1, <3>1 DEF Begin
        <4> HIDE DEF a
        <4> QED BY <1>0, <2>1, <4>1, <4>2, GoesOn DEF Handling, HasCopy, db
      <3>2. CASE ledger[v] # "processed"
        BY <1>1, <2>1, <3>2, TakeStep DEF Begin, db
      <3> QED BY <3>1, <3>2
    <2> QED BY <2>1, <2>2, HistoriesTyped DEF SubInv, TypeOK, clock, mail, db
  <1>2. CASE Replay(w, v)
    <2>1. UNCHANGED <<clock, mail, db, histories>> /\ Take(w, v)
      BY <1>2 DEF Replay
    <2>2. extras' \in 0 .. MaxExtras
      BY <1>2, ExtrasBound DEF Replay, Extra, SubInv, TypeOK
    <2>3. /\ at' \in [Processes -> At] /\ copy' \in [Processes -> Copy]
          /\ incoming' \in [Processes -> Copy] /\ HeldFits'
      BY <2>1, TakeStep DEF db
    <2> QED BY <2>1, <2>2, <2>3, HistoriesTyped DEF SubInv, TypeOK, clock, mail, db
  <1> QED BY <1>1, <1>2

LEMMA HandleStep ==
  ASSUME SubInv, NEW w \in Handlers, Guard(w) \/ Read(w) \/ Save(w) \/ Fulfil(w) \/ Mark(w) \/ Complete(w)
  PROVE  SubInv'
  <1> DEFINE Moved == /\ at' \in [Processes -> At] /\ copy' \in [Processes -> Copy]
                      /\ incoming' \in [Processes -> Copy] /\ HeldFits'
  <1>0. w \in Processes /\ TypeOK
    BY DEF Processes, Handlers, SubInv
  <1>1. CASE Guard(w)
    <2>1. at[w].stage = "guard" /\ UNCHANGED <<clock, mail, db, extras, histories>>
      BY <1>1 DEF Guard, On
    <2>2. incoming[w] \in State /\ ~at[w].later
      BY <1>0, <2>1, ProcessesApart DEF SubInv, HeldFits, Handling, Handlers
    <2>3. CASE Goto(w, "mark") /\ Forget(w)
      <3>1. NoState \in Copy /\ NoState \notin State /\ "mark" \in Stages
            /\ "mark" \notin Handling \cup HasCopy
        BY NoStateApart DEF Copy, Stages, Handling, HasCopy
      <3>2. Moved
        BY <1>0, <2>1, <2>2, <2>3, <3>1, Advances DEF Forget, db
      <3> QED BY <2>1, <3>2, HistoriesTyped DEF SubInv, TypeOK, clock, mail, db
    <2>4. CASE Goto(w, "read") /\ UNCHANGED <<copy, incoming>>
      <3>1. "read" \in Stages /\ "read" \notin HasCopy
        BY DEF Stages, HasCopy
      <3>2. Moved
        BY <1>0, <2>1, <2>2, <2>4, <3>1, AdvancesOn DEF db
      <3> QED BY <2>1, <3>2, HistoriesTyped DEF SubInv, TypeOK, clock, mail, db
    <2> QED BY <1>1, <2>3, <2>4 DEF Guard
  <1>2. CASE Read(w)
    <2>1. /\ at[w].stage = "read" /\ UNCHANGED <<clock, mail, db, incoming, extras, histories>>
          /\ copy' = [copy EXCEPT ![w] = RowState] /\ Goto(w, "save")
      BY <1>2 DEF Read, On
    <2>2. incoming[w] \in State /\ "save" \in Stages /\ "save" \notin HasCopy
      BY <1>0, <2>1 DEF SubInv, HeldFits, Handling, Stages, HasCopy
    <2>3. RowState \in Copy /\ (RowState \in State => row # NoRow)
      BY <1>0, RowFields, NoStateApart
    <2>4. Moved
      <3> DEFINE i == incoming[w]
      <3>1. i \in Copy /\ incoming' = [incoming EXCEPT ![w] = i] /\ i \in State
        BY <1>0, <2>1, <2>2, ProcessesTyped
      <3> HIDE DEF i
      <3> QED BY <1>0, <2>1, <2>2, <2>3, <3>1, Advances DEF db
    <2> QED BY <2>1, <2>4, HistoriesTyped DEF SubInv, TypeOK, clock, mail, db
  <1>3. CASE Save(w)
    <2>1. at[w].stage = "save" /\ UNCHANGED <<clock, mail, extras>>
      BY <1>3 DEF Save, On
    <2>2. CASE copy[w] = NoState /\ row # NoRow
      <3>1. Stop(w) /\ UNCHANGED <<db, histories>>
        BY <1>3, <2>2 DEF Save
      <3> QED BY <1>0, <2>1, <3>1, Stops, HistoriesTyped DEF SubInv, TypeOK, clock, mail, db
    <2>3. CASE ~(copy[w] = NoState /\ row # NoRow)
      <3>1. /\ row' = Dirty(copy[w], incoming[w])
            /\ copy' = [copy EXCEPT ![w] = incoming[w]]
            /\ incoming' = [incoming EXCEPT ![w] = NoState]
            /\ Writes(w) /\ UNCHANGED license
            /\ \E stage \in {"fulfil", "readLicense"} : Goto(w, stage)
        BY <1>3, <2>3 DEF Save
      <3>2. incoming[w] \in State /\ copy[w] \in Copy
        BY <1>0, <2>1, ProcessesTyped DEF SubInv, HeldFits, Handling
      <3>3. copy[w] \in State <=> row # NoRow
        BY <1>0, <2>3, <3>2, NoStateApart DEF SubInv, HeldFits, Copy
      <3>4. row' \in [status : Statuses, end : 1 .. MaxPeriod, mark : 0 .. MaxVersion] /\ row' # NoRow
        BY <1>0, <3>1, <3>2, <3>3, DirtyTyped
      <3>5. ~at[w].later
        BY <1>0, ProcessesApart DEF SubInv, HeldFits, Handlers
      <3>6. Moved
        <4> DEFINE c == incoming[w]
        <4>1. c \in Copy /\ c \in State /\ copy' = [copy EXCEPT ![w] = c] /\ NoState \in Copy
          BY <1>0, <3>1, <3>2, ProcessesTyped DEF Copy
        <4>2. PICK stage \in {"fulfil", "readLicense"} : Goto(w, stage)
          BY <3>1
        <4>3. stage \in Stages /\ stage \notin Handling \cup {"status", "period"}
          BY DEF Stages, Handling
        <4> HIDE DEF c
        <4> QED BY <1>0, <3>1, <3>4, <3>5, <4>1, <4>2, <4>3, Advances
      <3> QED BY <1>0, <2>1, <3>1, <3>4, <3>6, WritesTyped DEF SubInv, TypeOK, clock, mail
    <2> QED BY <2>2, <2>3
  <1>4. CASE Fulfil(w)
    <2>1. /\ at[w].stage = "fulfil" /\ UNCHANGED <<clock, mail, row, copy, incoming, extras, histories>>
          /\ Goto(w, "readLicense") /\ license' \in {license, copy[w].end}
      BY <1>4 DEF Fulfil, On
    <2>2. copy[w] \in State /\ "readLicense" \in Stages /\ "readLicense" \notin Handling
      BY <1>0, <2>1 DEF SubInv, HeldFits, HasCopy, Stages, Handling
    <2>3. Moved
      BY <1>0, <2>1, <2>2, AdvancesOn DEF Handling
    <2>4. license' \in Expiry
      BY <1>0, <2>1, <2>2, VersionBounds DEF TypeOK, State, Expiry
    <2> QED BY <2>1, <2>3, <2>4, HistoriesTyped DEF SubInv, TypeOK, clock, mail
  <1>5. CASE Mark(w)
    <2>1. /\ UNCHANGED <<clock, queued, db, extras, histories>>
          /\ ledger' = [ledger EXCEPT ![at[w].version] = "processed"]
          /\ Stop(w) \/ (Goto(w, "complete") /\ UNCHANGED <<copy, incoming>>)
      BY <1>5 DEF Mark
    <2>2. Moved
      <3>1. "complete" \in Stages /\ "complete" \notin Handling \cup HasCopy \cup {"status", "period"}
        BY DEF Stages, Handling, HasCopy
      <3>2. CASE Goto(w, "complete") /\ UNCHANGED <<copy, incoming>>
        BY <1>0, <2>1, <3>1, <3>2, AdvancesOn DEF db
      <3>3. CASE Stop(w)
        BY <1>0, <2>1, <3>3, Stops DEF db
      <3> QED BY <2>1, <3>2, <3>3
    <2>3. ledger' \in [Versions -> {"none", "received", "processed"}]
      BY <1>0, <2>1 DEF TypeOK
    <2> QED BY <2>1, <2>2, <2>3, HistoriesTyped DEF SubInv, TypeOK, clock, db
  <1>6. CASE Complete(w)
    <2>1. queued' \in [Versions -> BOOLEAN] /\ Stop(w) /\ UNCHANGED <<clock, ledger, db, extras, histories>>
      BY <1>0, <1>6 DEF Complete, TypeOK
    <2> QED BY <1>0, <2>1, Stops, HistoriesTyped DEF SubInv, TypeOK, clock, db
  <1> QED BY <1>1, <1>2, <1>3, <1>4, <1>5, <1>6

-------------------------------------------------------------------------------
(* syncExpiry and the sweep. *)

LEMMA SyncedStep ==
  ASSUME SubInv, NEW p \in Processes, at[p].stage \in {"readLicense", "saveLicense"}, Synced(p),
         UNCHANGED row
  PROVE  /\ at' \in [Processes -> At] /\ copy' \in [Processes -> Copy]
         /\ incoming' \in [Processes -> Copy] /\ HeldFits'
  <1>1. copy[p] \in State /\ (at[p].later => incoming[p] \in State)
    BY DEF SubInv, HeldFits, HasCopy
  <1>2. CASE p \in Handlers
    <2>1. /\ Goto(p, "mark") /\ Forget(p) /\ NoState \in Copy /\ NoState \notin State
          /\ "mark" \in Stages /\ "mark" \notin Handling \cup HasCopy
      BY <1>2, NoStateApart DEF Synced, Stages, Handling, HasCopy, Copy
    <2>2. ~at[p].later
      BY <1>2, ProcessesApart DEF SubInv, HeldFits, Handlers
    <2> QED BY <2>1, <2>2, Advances DEF Forget
  <1>3. CASE p \notin Handlers /\ at[p].later
    <2>1. Goto(p, "period") /\ UNCHANGED <<copy, incoming>> /\ "period" \in Stages
      BY <1>3 DEF Synced, Stages
    <2> QED BY <1>1, <1>3, <2>1, AdvancesOn
  <1>4. CASE p \notin Handlers /\ ~at[p].later
    BY <1>4, Stops DEF Synced
  <1> QED BY <1>2, <1>3, <1>4

LEMMA SyncStep ==
  ASSUME SubInv, NEW p \in Processes, ReadLicense(p) \/ SaveLicense(p)
  PROVE  SubInv'
  <1> DEFINE Moved == /\ at' \in [Processes -> At] /\ copy' \in [Processes -> Copy]
                      /\ incoming' \in [Processes -> Copy] /\ HeldFits'
  <1>0. /\ TypeOK /\ at[p].stage \in {"readLicense", "saveLicense"} /\ copy[p] \in State
        /\ UNCHANGED <<clock, mail, row, extras>>
    BY DEF SubInv, HeldFits, HasCopy, ReadLicense, SaveLicense, On, db
  <1>1. /\ license' \in Expiry
        /\ overtaken' \in BOOLEAN /\ halfDone' \in BOOLEAN /\ edited' \in BOOLEAN
    <2>1. license' \in Expiry
      BY <1>0, VersionBounds DEF ReadLicense, SaveLicense, TypeOK, State, Expiry, db
    <2>2. UNCHANGED histories \/ Writes(p)
      BY DEF ReadLicense, SaveLicense
    <2> QED BY <1>0, <2>1, <2>2, HistoriesTyped, WritesTyped
  <1>2. CASE Synced(p)
    <2>1. Moved
      BY <1>0, <1>2, SyncedStep
    <2> QED BY <1>0, <1>1, <2>1, HistoriesTyped DEF SubInv, TypeOK, clock, mail
  <1>3. CASE Goto(p, "saveLicense") /\ UNCHANGED <<copy, incoming>>
    <2>1. Moved
      BY <1>0, <1>3, AdvancesOn DEF Stages, Handling
    <2> QED BY <1>0, <1>1, <2>1, HistoriesTyped DEF SubInv, TypeOK, clock, mail
  <1> QED BY <1>2, <1>3 DEF ReadLicense, SaveLicense

LEMMA SweepStep ==
  ASSUME SubInv, NEW s \in Sweeps,
         Look(s) \/ Ask(s) \/ Check(s) \/ CorrectStatus(s) \/ CorrectPeriodEnd(s)
  PROVE  SubInv'
  <1> DEFINE Moved == /\ at' \in [Processes -> At] /\ copy' \in [Processes -> Copy]
                      /\ incoming' \in [Processes -> Copy] /\ HeldFits'
  <1>0. s \in Processes /\ TypeOK /\ copy[s] \in Copy /\ incoming[s] \in Copy /\ at[s] \in At
        /\ copy \in [Processes -> Copy] /\ incoming \in [Processes -> Copy]
    BY ProcessesTyped DEF Processes, Handlers, SubInv
  <1>1. CASE Look(s)
    <2>1. /\ UNCHANGED <<clock, mail, db, incoming, extras, histories>>
          /\ copy' = [copy EXCEPT ![s] = RowState]
          /\ at' = [at EXCEPT ![s] = [Idle EXCEPT !.stage = "ask"]]
          /\ row # NoRow
      BY <1>1 DEF Look, NoRow
    <2>2. RowState \in State /\ RowState \in Copy
      BY <1>0, <2>1, RowFields
    <2>3. Moved
      <3> DEFINE a == [Idle EXCEPT !.stage = "ask"]
                 i == incoming[s]
      <3>1. a \in At /\ a.stage = "ask" /\ ~a.later
        BY IdleTyped DEF At, Stages
      <3>2. incoming' = [incoming EXCEPT ![s] = i] /\ i \in Copy
        BY <1>0, <2>1
      <3>3. at' = [at EXCEPT ![s] = a]
        BY <2>1
      <3> HIDE DEF a, i
      <3> QED BY <1>0, <2>1, <2>2, <3>1, <3>2, <3>3, MovesOn DEF Handling, db
    <2> QED BY <2>1, <2>3, HistoriesTyped DEF SubInv, TypeOK, clock, mail, db
  <1>2. CASE Ask(s)
    <2>1. UNCHANGED <<clock, mail, db, extras, histories>> /\ at[s].stage = "ask"
      BY <1>2 DEF Ask, On
    <2>2. CASE Stop(s)
      BY <1>0, <2>1, <2>2, Stops, HistoriesTyped DEF SubInv, TypeOK, clock, mail, db
    <2>3. CASE ~Stop(s)
      <3>1. PICK next \in {"status", "period", "check"}, later \in BOOLEAN :
              /\ at' = [at EXCEPT ![s].stage = next, ![s].later = later]
              /\ incoming' = [incoming EXCEPT ![s] = Now]
              /\ UNCHANGED copy
        BY <1>2, <2>3 DEF Ask
      <3>2. Now \in State /\ Now \in Copy
        BY <1>0 DEF Now, TypeOK, Copy
      <3>3. copy[s] \in State /\ row # NoRow
        BY <1>0, <2>1 DEF SubInv, HeldFits, HasCopy
      <3>4. Moved
        <4> DEFINE a == [at[s] EXCEPT !.stage = next, !.later = later]
                   c == copy[s]
        <4>1. a \in At /\ at' = [at EXCEPT ![s] = a]
          BY <1>0, <3>1 DEF At, Stages, TypeOK
        <4>2. copy' = [copy EXCEPT ![s] = c] /\ c \in State /\ c \in Copy
          BY <1>0, <3>1, <3>3
        <4> HIDE DEF a, c
        <4> QED BY <1>0, <2>1, <3>1, <3>2, <3>3, <4>1, <4>2, MovesOn DEF db
      <3> QED BY <2>1, <3>4, HistoriesTyped DEF SubInv, TypeOK, clock, mail, db
    <2> QED BY <2>2, <2>3
  <1>3. CASE Check(s)
    <2>1. UNCHANGED <<clock, mail, db, extras, histories>> /\ copy[s] \in State
      BY <1>0, <1>3 DEF Check, On, SubInv, HeldFits, HasCopy
    <2>2. CASE Stop(s)
      BY <1>0, <2>1, <2>2, Stops, HistoriesTyped DEF SubInv, TypeOK, clock, mail, db
    <2>3. CASE Goto(s, "saveLicense") /\ UNCHANGED <<copy, incoming>>
      <3>1. Moved
        BY <1>0, <2>1, <2>3, AdvancesOn DEF Stages, Handling, db
      <3> QED BY <2>1, <3>1, HistoriesTyped DEF SubInv, TypeOK, clock, mail, db
    <2> QED BY <1>3, <2>2, <2>3 DEF Check
  <1>4. ASSUME NEW new \in State, copy[s] \in State, incoming[s] \in State, Correct(s, new),
               UNCHANGED <<clock, mail, license, incoming, extras>>, UNCHANGED histories \/ Writes(s),
               NEW a \in At, at' = [at EXCEPT ![s] = a], a.stage = "readLicense"
        PROVE  SubInv'
    <2>1. row' \in [status : Statuses, end : 1 .. MaxPeriod, mark : 0 .. MaxVersion] /\ row' # NoRow
      BY <1>0, <1>4, DirtyTyped DEF Correct, SubInv, HeldFits
    <2>2. Moved
      <3> DEFINE i == incoming[s]
      <3>1. i \in State /\ i \in Copy /\ incoming' = [incoming EXCEPT ![s] = i]
        BY <1>0, <1>4
      <3>2. copy' = [copy EXCEPT ![s] = new] /\ new \in Copy
        BY <1>4 DEF Correct, Copy
      <3> HIDE DEF i
      <3> QED BY <1>0, <1>4, <2>1, <3>1, <3>2, MovesOn
    <2> QED BY <1>0, <1>4, <2>1, <2>2, HistoriesTyped, WritesTyped DEF SubInv, TypeOK, clock, mail
  <1>5. CASE CorrectStatus(s)
    <2> DEFINE new == [copy[s] EXCEPT !.status = incoming[s].status]
               a == [at[s] EXCEPT !.stage = "readLicense"]
    <2>1. copy[s] \in State /\ incoming[s] \in State
      BY <1>0, <1>5 DEF CorrectStatus, On, SubInv, HeldFits, HasCopy
    <2>2. new \in State
      BY <2>1 DEF State
    <2>3. a \in At /\ a.stage = "readLicense" /\ at' = [at EXCEPT ![s] = a]
      BY <1>0, <1>5, GotoForm DEF CorrectStatus, Stages
    <2>4. /\ Correct(s, new) /\ UNCHANGED <<clock, mail, license, incoming, extras>>
          /\ UNCHANGED histories \/ Writes(s)
      BY <1>5 DEF CorrectStatus
    <2> HIDE DEF new, a
    <2> QED BY <1>4, <2>1, <2>2, <2>3, <2>4
  <1>6. CASE CorrectPeriodEnd(s)
    <2> DEFINE new == [copy[s] EXCEPT !.end = incoming[s].end]
               a == [at[s] EXCEPT !.stage = "readLicense", !.later = FALSE]
    <2>1. copy[s] \in State /\ incoming[s] \in State
      BY <1>0, <1>6 DEF CorrectPeriodEnd, On, SubInv, HeldFits, HasCopy
    <2>2. new \in State
      BY <2>1 DEF State
    <2>3. a \in At /\ a.stage = "readLicense" /\ at' = [at EXCEPT ![s] = a]
      BY <1>0, <1>6 DEF CorrectPeriodEnd, At, Stages, TypeOK
    <2>4. /\ Correct(s, new) /\ UNCHANGED <<clock, mail, license, incoming, extras>>
          /\ UNCHANGED histories \/ Writes(s)
      BY <1>6 DEF CorrectPeriodEnd
    <2> HIDE DEF new, a
    <2> QED BY <1>4, <2>1, <2>2, <2>3, <2>4
  <1> QED BY <1>1, <1>2, <1>3, <1>5, <1>6

-------------------------------------------------------------------------------
LEMMA NextInv == SubInv /\ [Next]_vars => SubInv'
  <1> SUFFICES ASSUME SubInv, [Next]_vars PROVE SubInv'
    OBVIOUS
  <1>1. CASE Renew \/ PaymentFails \/ Cancel \/ Ages
    BY <1>1, OutsideStep
  <1>2. ASSUME NEW v \in Versions, Receive(v) PROVE SubInv'
    BY <1>2, OutsideStep
  <1>3. ASSUME NEW v \in Versions, NEW w \in Handlers, Begin(w, v) \/ Replay(w, v) PROVE SubInv'
    BY <1>3, BeginStep
  <1>4. ASSUME NEW w \in Handlers, Handle(w) PROVE SubInv'
    BY <1>4, HandleStep, SyncStep DEF Handle, Processes
  <1>5. ASSUME NEW s \in Sweeps, Sweep(s) PROVE SubInv'
    BY <1>5, SweepStep, SyncStep DEF Sweep, Processes
  <1>6. ASSUME NEW p \in Processes, Fail(p) PROVE SubInv'
    BY <1>6, FailStep
  <1>7. CASE \E day \in ByStaff : StaffSetsExpiry(day)
    BY <1>7, OutsideStep
  <1>8. CASE UNCHANGED vars
    BY <1>8 DEF vars, SubInv, TypeOK, HeldFits
  <1> QED BY <1>1, <1>2, <1>3, <1>4, <1>5, <1>6, <1>7, <1>8 DEF Next

\* Every reachable state has the types of TypeOK, and what a process has in
\* memory is a state of the subscription, whose row is there.
THEOREM Invariant == Spec => []SubInv
  BY InitInv, NextInv, PTL DEF Spec

\* The variables keep their types (TypeOK), whatever is lost, replayed or fails.
THEOREM SubscriptionTypes == Spec => []TypeOK
  <1>1. SubInv => TypeOK
    BY DEF SubInv
  <1> QED BY <1>1, Invariant, PTL

-------------------------------------------------------------------------------
(* Who pays has a license, unless a handler ended before the fulfilment. *)

Needs == row.status \in Entitling \/ \E s \in Sweeps : copy[s] \in State
Has == license # 0 \/ \E w \in Handlers : On(w, "fulfil")

\* A row that entitles was saved by a handler that issues the license before
\* it does anything else; a sweep only corrects a row that entitled.
Served == ~halfDone => (Needs => Has)

LEMMA HasStays ==
  ASSUME SubInv, [Next]_vars, ~halfDone', Has
  PROVE  Has'
  <1>0. /\ TypeOK /\ at \in [Processes -> At]
        /\ Handlers \subseteq Processes /\ Sweeps \subseteq Processes
    BY DEF SubInv, TypeOK, Processes
  \* A license, once issued, stays ...
  <1>1. license # 0 => license' # 0
    <2>1. ASSUME NEW p \in Processes, SaveLicense(p) PROVE license' # 0
      <3>1. license' = copy[p].end /\ copy[p] \in State
        BY <2>1 DEF SaveLicense, On, SubInv, HeldFits, HasCopy
      <3> QED BY <3>1, VersionBounds DEF State
    <2>2. ASSUME NEW day \in ByStaff, StaffSetsExpiry(day) PROVE license' # 0
      BY <2>2, VersionBounds DEF StaffSetsExpiry, ByStaff
    <2> QED BY <1>0, <2>1, <2>2 DEF Next, vars, Renew, PaymentFails, Cancel, Change, Ages, Receive,
          Begin, Replay, Handle, Guard, Read, Save, Fulfil, ReadLicense, Mark, Complete, Sweep, Look,
          Ask, Check, CorrectStatus, CorrectPeriodEnd, Fail, db
  \* ... and a handler leaves fulfilment only with the license issued.
  <1>2. ASSUME NEW w \in Handlers, On(w, "fulfil")
        PROVE  license' # 0 \/ On(w, "fulfil")'
    <2>1. CASE Fulfil(w)
      <3>1. license' = (IF license = 0 THEN copy[w].end ELSE license) /\ copy[w] \in State
        BY <1>0, <2>1 DEF Fulfil, On, SubInv, HeldFits, HasCopy
      <3> QED BY <3>1, VersionBounds DEF State
    <2>2. ASSUME NEW p \in Processes, Fail(p) PROVE On(w, "fulfil")'
      <3>1. p # w /\ Stop(p)
        BY <1>2, <2>2 DEF Fail
      <3> QED BY <1>0, <1>2, <3>1 DEF Stop, On
    <2>3. ASSUME NEW p \in Processes, p # w,
                 \/ \E v \in Versions : Begin(p, v) \/ Replay(p, v)
                 \/ Handle(p) \/ Sweep(p)
          PROVE  at'[w] = at[w]
      BY <1>0, <2>3 DEF Begin, Replay, Take, Handle, Sweep, Guard, Read, Save, Fulfil, ReadLicense,
           SaveLicense, Synced, Mark, Complete, Look, Ask, Check, CorrectStatus, CorrectPeriodEnd,
           Goto, Stop
    <2>4. w \notin Sweeps /\ w \in Processes
      BY ProcessesApart DEF Processes, Handlers
    <2>5. CASE \/ \E v \in Versions : Begin(w, v) \/ Replay(w, v)
               \/ Handle(w)
      BY <1>2, <2>1, <2>5 DEF Begin, Replay, Handle, Guard, Read, Save, ReadLicense, SaveLicense,
           Mark, Complete, On
    <2>6. CASE \/ Renew \/ PaymentFails \/ Cancel \/ Ages \/ (\E v \in Versions : Receive(v))
               \/ (\E day \in ByStaff : StaffSetsExpiry(day)) \/ UNCHANGED vars
      BY <1>2, <2>6 DEF Renew, PaymentFails, Cancel, Change, Ages, Receive, StaffSetsExpiry, vars,
           local, On
    <2> QED BY <1>0, <1>2, <2>2, <2>3, <2>4, <2>5, <2>6 DEF Next, On
  <1> QED BY <1>1, <1>2 DEF Has

\* Only a handler's save makes a row entitle that did not, and the handler is
\* at fulfilment then.
LEMMA NeedsHas ==
  ASSUME SubInv, [Next]_vars, ~Needs, Needs'
  PROVE  Has'
  <1>0. /\ TypeOK /\ at \in [Processes -> At] /\ copy \in [Processes -> Copy]
        /\ Handlers \subseteq Processes /\ Sweeps \subseteq Processes
        /\ row.status \notin Entitling /\ \A r \in Sweeps : copy[r] \notin State
    BY DEF SubInv, TypeOK, Processes, Needs
  <1>1. ASSUME NEW w \in Handlers, Save(w) PROVE Has'
    <2>1. CASE copy[w] = NoState /\ row # NoRow
      BY <1>0, <1>1, <2>1, NoStateApart DEF Save, Stop, Forget, db, Needs
    <2>2. CASE ~(copy[w] = NoState /\ row # NoRow)
      <3>1. /\ row' = Dirty(copy[w], incoming[w])
            /\ copy' = [copy EXCEPT ![w] = incoming[w]]
            /\ Goto(w, IF incoming[w].status \in Entitling THEN "fulfil" ELSE "readLicense")
        BY <1>1, <2>2 DEF Save
      <3>2. \A s \in Sweeps : copy'[s] = copy[s]
        BY <1>0, <3>1, ProcessesApart DEF Handlers
      <3>3. CASE incoming[w].status \in Entitling
        BY <1>0, <3>1, <3>3 DEF Goto, On, Has
      <3>4. CASE incoming[w].status \notin Entitling
        <4>1. row'.status \in {row.status, incoming[w].status}
          BY <3>1 DEF Dirty
        <4> QED BY <1>0, <3>2, <3>4, <4>1 DEF Needs
      <3> QED BY <3>3, <3>4
    <2> QED BY <2>1, <2>2
  <1>2. ASSUME NEW s \in Sweeps, Sweep(s) PROVE FALSE
    <2>1. at[s].stage \notin HasCopy
      BY <1>0 DEF SubInv, HeldFits
    <2>2. row.status \in {"none", "canceled"}
      BY <1>0 DEF TypeOK, Statuses, Entitling, NoRow
    <2> QED BY <1>2, <2>1, <2>2 DEF Sweep, Look, Ask, Check, CorrectStatus, CorrectPeriodEnd,
          ReadLicense, SaveLicense, On, HasCopy
  <1>3. ASSUME NEW w \in Handlers, ~Save(w),
               \/ \E v \in Versions : Begin(w, v) \/ Replay(w, v)
               \/ Handle(w)
        PROVE  FALSE
    <2>1. \A s \in Sweeps : s # w
      BY ProcessesApart DEF Handlers
    <2>2. row' = row /\ \A s \in Sweeps : copy'[s] = copy[s]
      BY <1>0, <1>3, <2>1 DEF Begin, Replay, Take, Handle, Guard, Read, Fulfil,
           ReadLicense, SaveLicense, Synced, Mark, Complete, Stop, Forget, db
    <2> QED BY <1>0, <2>2 DEF Needs
  <1>4. ASSUME NEW p \in Processes, Fail(p) PROVE FALSE
    <2>1. row' = row /\ \A s \in Sweeps : copy'[s] \in {copy[s], NoState}
      BY <1>0, <1>4 DEF Fail, Stop, Forget, db
    <2> QED BY <1>0, <2>1, NoStateApart DEF Needs
  <1>5. CASE \/ Renew \/ PaymentFails \/ Cancel \/ Ages \/ (\E v \in Versions : Receive(v))
             \/ (\E day \in ByStaff : StaffSetsExpiry(day)) \/ UNCHANGED vars
    <2>1. row' = row /\ copy' = copy
      BY <1>5 DEF Renew, PaymentFails, Cancel, Change, Ages, Receive, StaffSetsExpiry, vars, local, db
    <2> QED BY <1>0, <2>1 DEF Needs
  <1> QED BY <1>1, <1>2, <1>3, <1>4, <1>5 DEF Next

LEMMA ServedNext == SubInv /\ Served /\ [Next]_vars => Served'
  <1> SUFFICES ASSUME SubInv, Served, [Next]_vars, ~halfDone', Needs' PROVE Has'
    BY DEF Served
  <1>1. ~halfDone
    BY DEF Next, vars, Renew, PaymentFails, Cancel, Change, Ages, Receive, Begin, Replay, Handle,
       Guard, Read, Save, Fulfil, ReadLicense, SaveLicense, Mark, Complete, Sweep, Look, Ask, Check,
       CorrectStatus, CorrectPeriodEnd, Fail, StaffSetsExpiry, Writes, histories
  <1> QED BY <1>1, HasStays, NeedsHas DEF Served

\* Unless a handler ended between its save and the fulfilment, a subscription
\* that entitles has its license whenever no webhook is at work, wherever else
\* handlers fail and whoever runs beside whom (EntitledUnlessHalfDone).
THEOREM OnlyHalfDoneGoesWithout == Spec => []EntitledUnlessHalfDone
  <1>1. Init => Served
    BY NoStateApart DEF Init, Served, Needs, NoRow, Entitling, Processes
  <1>2. SubInv /\ Served /\ [Next]_vars => Served'
    BY ServedNext
  <1>3. Served => EntitledUnlessHalfDone
    BY DEF Served, Needs, Has, EntitledUnlessHalfDone, EntitledIsLicensed, Quiet, On
  <1> QED BY <1>1, <1>2, <1>3, Invariant, PTL DEF Spec

-------------------------------------------------------------------------------
(* What the watermark is for: no expiry is moved back. *)

\* The periods paid for only grow, and of a version only the latest can be
\* younger than a second.
Paid ==
  /\ \A u, v \in Versions : u <= v /\ v <= version => provider[u].end <= provider[v].end
  /\ version <= aged + 1

\* What arrived, and what is at work, is a version there is.
Arrived ==
  /\ \A v \in Versions : ledger[v] # "none" \/ queued[v] => v <= version
  /\ \A p \in Processes : at[p].version <= version

\* A handler applies the state its event carries; a sweep adopts no earlier
\* period, and none the provider does not know.
Carried ==
  /\ \A p \in Handlers : at[p].stage \in Handling => incoming[p] = provider[at[p].version]
  /\ \A s \in Sweeps : at[s].later => copy[s].end <= incoming[s].end /\ incoming[s].end <= Now.end
  /\ \A p \in Processes : at[p].stage = "period" => at[p].later

\* An event the watermark lets through carries no shorter period than the row.
Watermark ==
  /\ row.end <= Now.end
  /\ \A v \in Versions : row.mark < v /\ v <= version => row.end <= provider[v].end

\* No copy and no license is ahead of the row.
Behind ==
  /\ \A p \in Processes : copy[p].end <= row.end
  /\ ~edited => license <= row.end

Facts == Paid /\ Arrived /\ Carried
Forward == Facts /\ (~overtaken => Watermark /\ Behind)

LEMMA RowTyped ==
  ASSUME TypeOK
  PROVE  /\ row.mark \in Nat /\ row.end \in Nat /\ license \in Nat
         /\ version \in Nat /\ aged \in Nat /\ version >= 1 /\ aged <= version
         /\ \A v \in Versions : v \in Nat /\ v >= 1 /\ provider[v].end \in Nat
         /\ Now.end = provider[version].end /\ version \in Versions /\ Now \in State
         /\ \A p \in Processes : copy[p].end \in Nat /\ incoming[p].end \in Nat
         /\ RowState.end = row.end
  <1>1. \A c \in Copy : c.end \in Nat
    BY VersionBounds DEF Copy, State, NoState
  <1> QED BY <1>1, VersionBounds DEF TypeOK, NoRow, State, Versions, Expiry, Now, RowState

LEMMA ForwardInit == Init => Forward
  <1> SUFFICES ASSUME Init PROVE Forward
    OBVIOUS
  <1>1. TypeOK
    BY InitInv DEF SubInv
  <1>2. row.end = 0 /\ row.mark = 0 /\ license = 0 /\ version = 1 /\ aged = 0
    BY DEF Init, NoRow
  <1>3. \A p \in Processes : at[p] = Idle /\ copy[p].end = 0
    BY DEF Init, NoState
  <1>4. Arrived
    BY <1>1, <1>2, <1>3, RowTyped DEF Init, Arrived, Idle
  <1>5. Carried
    BY <1>3 DEF Carried, Idle, Handling, Processes
  <1>6. Paid
    BY <1>2 DEF Init, Paid, First
  <1>7. Watermark /\ Behind
    BY <1>1, <1>2, <1>3, RowTyped DEF Watermark, Behind
  <1> QED BY <1>4, <1>5, <1>6, <1>7 DEF Forward, Facts

LEMMA ForwardOutside ==
  ASSUME SubInv, Forward,
         \/ Renew \/ PaymentFails \/ Cancel \/ Ages
         \/ \E v \in Versions : Receive(v)
         \/ \E day \in ByStaff : StaffSetsExpiry(day)
  PROVE  Forward'
  <1>0. TypeOK /\ UNCHANGED <<row, local, overtaken>>
    BY DEF SubInv, Renew, PaymentFails, Cancel, Change, Ages, Receive, StaffSetsExpiry, db, histories
  <1>1. ASSUME NEW state, state.end \in Nat, Now.end <= state.end, Change(state) PROVE Forward'
    <2>1. /\ version' = version + 1 /\ aged = version /\ aged' = aged
          /\ provider' = [provider EXCEPT ![version + 1] = state]
          /\ UNCHANGED <<mail, license, edited>>
      BY <1>1 DEF Change, db, histories
    <2>2. version + 1 \in Versions
      BY <1>0, <1>1, RowTyped, VersionBounds DEF Change, Versions, TypeOK
    <2>3. /\ provider'[version + 1] = state
          /\ \A v \in Versions : v <= version => provider'[v] = provider[v]
          /\ \A v \in Versions : v <= version + 1 => v <= version \/ v = version + 1
          /\ Now' = state
      BY <1>0, <2>1, <2>2, RowTyped DEF TypeOK, Now
    <2>4. \A v \in Versions : v <= version => provider[v].end <= Now.end
      BY <1>0, RowTyped DEF Forward, Facts, Paid
    <2>5. Paid'
      BY <1>0, <1>1, <2>1, <2>2, <2>3, <2>4, RowTyped DEF Forward, Facts, Paid
    <2>6. \A p \in Processes : at[p].version \in Versions /\ at[p].version <= version
      BY <1>0, ProcessesTyped DEF Forward, Facts, Arrived
    <2>7. Arrived'
      <3>1. \A v \in Versions : v <= version => v <= version + 1
        BY <1>0, RowTyped
      <3>2. \A p \in Processes : at[p].version <= version + 1
        BY <2>6, <3>1
      <3> QED BY <1>0, <2>1, <3>1, <3>2 DEF Forward, Facts, Arrived, local, mail
    <2>8. Carried'
      <3>1. ASSUME NEW s \in Sweeps, at[s].later
            PROVE  copy[s].end <= incoming[s].end /\ incoming[s].end <= state.end
        <4>1. s \in Processes
          BY DEF Processes
        <4> QED BY <1>0, <1>1, <3>1, <4>1, RowTyped DEF Forward, Facts, Carried
      <3>2. \A p \in Handlers : provider'[at[p].version] = provider[at[p].version]
        BY <2>3, <2>6 DEF Processes
      <3> QED BY <1>0, <2>3, <3>1, <3>2 DEF Forward, Facts, Carried, local
    <2>9. ~overtaken => Watermark' /\ Behind'
      <3>1. Watermark => Watermark'
        BY <1>0, <1>1, <2>1, <2>2, <2>3, RowTyped DEF Watermark
      <3>2. Behind => Behind'
        BY <1>0, <2>1 DEF Behind, local
      <3> QED BY <3>1, <3>2 DEF Forward
    <2> QED BY <1>0, <2>5, <2>7, <2>8, <2>9 DEF Forward, Facts
  <1>2. CASE Renew
    BY <1>0, <1>1, <1>2, RowTyped DEF Renew
  <1>3. CASE PaymentFails
    BY <1>0, <1>1, <1>3, RowTyped DEF PaymentFails, State
  <1>4. CASE Cancel
    BY <1>0, <1>1, <1>4, RowTyped DEF Cancel, State
  <1>5. CASE Ages
    <2>1. version' = version /\ provider' = provider /\ aged' = aged + 1
          /\ UNCHANGED <<mail, license, edited>>
      BY <1>5 DEF Ages, db, histories
    <2> QED BY <1>0, <2>1, RowTyped
            DEF Forward, Facts, Paid, Arrived, Carried, Watermark, Behind, Now, local, mail
  <1>6. CASE \E v \in Versions : Receive(v)
    <2>1. UNCHANGED <<clock, license, edited>>
      BY <1>6 DEF Receive, db, histories
    <2>2. Arrived'
      BY <1>0, <1>6, <2>1 DEF Receive, Forward, Facts, Arrived, TypeOK, clock, local
    <2> QED BY <1>0, <2>1, <2>2
            DEF Forward, Facts, Paid, Carried, Watermark, Behind, Now, clock, local
  <1>7. CASE \E day \in ByStaff : StaffSetsExpiry(day)
    <2>1. UNCHANGED <<clock, mail>> /\ edited'
      BY <1>7 DEF StaffSetsExpiry
    <2> QED BY <1>0, <2>1
            DEF Forward, Facts, Paid, Arrived, Carried, Watermark, Behind, Now, clock, local, mail
  <1> QED BY <1>2, <1>3, <1>4, <1>5, <1>6, <1>7

\* A step of one process keeps the facts, if what it holds then is right.
LEMMA FactsStep ==
  ASSUME SubInv, Facts, NEW p \in Processes, UNCHANGED clock,
         NEW a \in At, at' = [at EXCEPT ![p] = a], a.version <= version,
         \A q \in Processes : q # p => copy'[q] = copy[q] /\ incoming'[q] = incoming[q],
         \A v \in Versions : ledger'[v] # "none" \/ queued'[v] => v <= version,
         p \in Handlers /\ a.stage \in Handling => incoming'[p] = provider[a.version],
         p \in Sweeps /\ a.later => copy'[p].end <= incoming'[p].end /\ incoming'[p].end <= Now.end,
         a.stage = "period" => a.later
  PROVE  Facts'
  <1>1. /\ at'[p] = a /\ Now' = Now
        /\ \A q \in Processes : q # p => at'[q] = at[q]
        /\ Handlers \subseteq Processes /\ Sweeps \subseteq Processes
    BY DEF SubInv, TypeOK, Now, clock, Processes
  <1>2. Arrived'
    BY <1>1 DEF Facts, Arrived, clock
  <1>3. Carried'
    BY <1>1 DEF Facts, Carried, clock
  <1> QED BY <1>2, <1>3 DEF Facts, Paid, clock

\* The row stays, and no copy and no license passes it.
LEMMA RowStays ==
  ASSUME SubInv, Watermark, Behind, UNCHANGED <<clock, row>>,
         \A p \in Processes : copy'[p].end \in {copy[p].end, row.end, 0},
         license' <= row.end \/ license' = license, UNCHANGED edited
  PROVE  Watermark' /\ Behind'
  <1>1. Now' = Now /\ row.end \in Nat
    BY RowTyped DEF Now, clock, SubInv
  <1> QED BY <1>1 DEF Watermark, Behind, clock

\* The row moves on, to a period the provider knows about.
LEMMA RowMoves ==
  ASSUME SubInv, Paid, Watermark, Behind, UNCHANGED <<clock, license, edited>>,
         row'.end \in Nat, row.end <= row'.end, row'.end <= Now.end,
         row'.mark = aged \/ row' = row, NEW p \in Processes,
         \A q \in Processes : q # p => copy'[q] = copy[q],
         copy'[p].end <= row'.end
  PROVE  Watermark' /\ Behind'
  <1>1. TypeOK /\ Now' = Now
    BY DEF Now, clock, SubInv
  <1>2. ASSUME NEW v \in Versions, row'.mark < v, v <= version
        PROVE  row'.end <= provider[v].end
    <2>1. CASE row' = row
      BY <1>2, <2>1 DEF Watermark
    <2>2. CASE row'.mark = aged
      <3>1. v = version
        BY <1>1, <1>2, <2>2, RowTyped DEF Paid
      <3> QED BY <1>1, <3>1, RowTyped
    <2> QED BY <2>1, <2>2
  <1>3. Watermark'
    BY <1>1, <1>2 DEF Watermark, clock
  <1>4. \A q \in Processes : copy'[q].end <= row'.end
    BY <1>1, RowTyped DEF Behind
  <1>5. ~edited => license <= row'.end
    BY <1>1, RowTyped DEF Behind
  <1> QED BY <1>3, <1>4, <1>5 DEF Behind

LEMMA FactsGo ==
  ASSUME SubInv, Facts, NEW p \in Processes, NEW stage \in Stages, Goto(p, stage), UNCHANGED clock,
         \A q \in Processes : q # p => copy'[q] = copy[q] /\ incoming'[q] = incoming[q],
         \A v \in Versions : ledger'[v] # "none" \/ queued'[v] => v <= version,
         p \in Handlers /\ stage \in Handling => incoming'[p] = provider[at[p].version],
         p \in Sweeps /\ at[p].later => copy'[p].end = copy[p].end /\ incoming'[p] = incoming[p],
         stage = "period" => at[p].later
  PROVE  Facts'
  <1> DEFINE a == [at[p] EXCEPT !.stage = stage]
  <1>1. /\ at' = [at EXCEPT ![p] = a] /\ a \in At /\ a.stage = stage
        /\ a.later = at[p].later /\ a.version = at[p].version
    BY GotoForm, Staged, ProcessesTyped DEF SubInv
  <1>2. a.version <= version
    BY <1>1 DEF Facts, Arrived
  <1>3. p \in Sweeps /\ a.later => copy'[p].end <= incoming'[p].end /\ incoming'[p].end <= Now.end
    BY <1>1 DEF Facts, Carried
  <1> HIDE DEF a
  <1> QED BY <1>1, <1>2, <1>3, FactsStep

LEMMA FactsStop ==
  ASSUME SubInv, Facts, NEW p \in Processes, Stop(p), UNCHANGED clock,
         \A v \in Versions : ledger'[v] # "none" \/ queued'[v] => v <= version
  PROVE  Facts'
  <1>1. /\ Idle \in At /\ Idle.stage = "idle" /\ Idle.version = 1 /\ ~Idle.later /\ 1 <= version
        /\ copy \in [Processes -> Copy] /\ incoming \in [Processes -> Copy]
    BY IdleTyped, RowTyped, ProcessesTyped DEF Idle, SubInv
  <1>2. at' = [at EXCEPT ![p] = Idle]
        /\ \A q \in Processes : q # p => copy'[q] = copy[q] /\ incoming'[q] = incoming[q]
    BY <1>1 DEF Stop, Forget
  <1> QED BY <1>1, <1>2, FactsStep DEF Handling

LEMMA FactsBegin ==
  ASSUME SubInv, Facts, NEW w \in Handlers, NEW v \in Versions, Begin(w, v) \/ Replay(w, v)
  PROVE  Facts'
  <1>0. /\ TypeOK /\ w \in Processes /\ w \notin Sweeps /\ v <= version
        /\ copy \in [Processes -> Copy] /\ incoming \in [Processes -> Copy]
        /\ UNCHANGED <<clock, mail>>
        /\ \A u \in Versions : ledger[u] # "none" \/ queued[u] => u <= version
    BY ProcessesApart, ProcessesTyped
       DEF SubInv, TypeOK, Processes, Handlers, Facts, Arrived, Begin, Replay
  <1>1. CASE Take(w, v)
    <2> DEFINE a == [Idle EXCEPT !.stage = "guard", !.version = v]
    <2>1. /\ a \in At /\ a.stage = "guard" /\ a.version = v
          /\ at' = [at EXCEPT ![w] = a]
      BY <1>1, IdleTyped DEF At, Stages, Idle, Take
    <2>2. /\ incoming'[w] = provider[v]
          /\ \A q \in Processes : q # w => copy'[q] = copy[q] /\ incoming'[q] = incoming[q]
      BY <1>0, <1>1 DEF Take
    <2> HIDE DEF a
    <2> QED BY <1>0, <2>1, <2>2, FactsStep DEF mail
  <1>2. CASE ~Take(w, v)
    <2> DEFINE a == [Idle EXCEPT !.stage = "complete", !.version = v]
    <2>1. /\ a \in At /\ a.stage = "complete" /\ a.version = v
          /\ at' = [at EXCEPT ![w] = a] /\ UNCHANGED <<copy, incoming>>
      BY <1>2, IdleTyped DEF At, Stages, Idle, Begin, Replay
    <2> HIDE DEF a
    <2> QED BY <1>0, <2>1, FactsStep DEF mail, Handling
  <1> QED BY <1>1, <1>2

LEMMA FactsHandle ==
  ASSUME SubInv, Facts, NEW w \in Handlers, Handle(w)
  PROVE  Facts'
  <1>0. /\ TypeOK /\ w \in Processes /\ w \notin Sweeps /\ UNCHANGED clock
        /\ copy \in [Processes -> Copy] /\ incoming \in [Processes -> Copy]
        /\ \A u \in Versions : ledger[u] # "none" \/ queued[u] => u <= version
    BY ProcessesApart, ProcessesTyped
       DEF SubInv, Processes, Handlers, Facts, Arrived, Handle, Guard, Read, Save, Fulfil,
           ReadLicense, SaveLicense, Mark, Complete
  <1>1. \A v \in Versions : ledger'[v] # "none" \/ queued'[v] => v <= version
    <2>1. CASE Mark(w)
      <3>1. at[w].version \in Versions /\ at[w].version <= version
        BY <1>0, ProcessesTyped DEF Facts, Arrived
      <3> QED BY <1>0, <2>1, <3>1 DEF Mark, TypeOK
    <2>2. CASE Complete(w)
      BY <1>0, <2>2 DEF Complete, TypeOK
    <2> QED BY <1>0, <2>1, <2>2 DEF Handle, Guard, Read, Save, Fulfil, ReadLicense, SaveLicense, mail
  <1>2. CASE Stop(w)
    BY <1>0, <1>1, <1>2, FactsStop
  <1>3. CASE ~Stop(w)
    <2>1. \A q \in Processes : q # w => copy'[q] = copy[q] /\ incoming'[q] = incoming[q]
      BY <1>0, <1>3 DEF Handle, Guard, Read, Save, Fulfil, ReadLicense, SaveLicense, Synced, Mark,
         Complete, Forget
    <2>2. PICK stage \in {"mark", "read", "save", "fulfil", "readLicense", "saveLicense", "complete"} :
            /\ Goto(w, stage)
            /\ stage \in {"read", "save"} => at[w].stage \in Handling /\ incoming'[w] = incoming[w]
      <3>1. CASE Guard(w) \/ Read(w)
        BY <3>1 DEF Guard, Read, On, Handling
      <3>2. CASE Save(w)
        BY <1>3, <3>2 DEF Save
      <3>3. CASE Fulfil(w) \/ ReadLicense(w) \/ SaveLicense(w) \/ Mark(w)
        BY <1>3, <3>3 DEF Fulfil, ReadLicense, SaveLicense, Synced, Mark
      <3>4. CASE Complete(w)
        BY <1>3, <3>4 DEF Complete
      <3> QED BY <3>1, <3>2, <3>3, <3>4 DEF Handle
    <2>3. stage \in Stages /\ stage # "period" /\ (stage \in Handling => stage \in {"read", "save"})
      BY DEF Stages, Handling
    <2>4. stage \in Handling => incoming'[w] = provider[at[w].version]
      BY <2>2, <2>3 DEF Facts, Carried
    <2> QED BY <1>0, <1>1, <2>1, <2>2, <2>3, <2>4, FactsGo
  <1> QED BY <1>2, <1>3

LEMMA FactsSweep ==
  ASSUME SubInv, Facts, NEW s \in Sweeps, Sweep(s)
  PROVE  Facts'
  <1>0. /\ TypeOK /\ s \in Processes /\ s \notin Handlers /\ UNCHANGED <<clock, mail>>
        /\ at[s] \in At /\ at[s].version <= version
        /\ copy \in [Processes -> Copy] /\ incoming \in [Processes -> Copy]
        /\ \A u \in Versions : ledger'[u] # "none" \/ queued'[u] => u <= version
    BY ProcessesApart, ProcessesTyped
       DEF SubInv, Processes, Handlers, Facts, Arrived, Sweep, Look, Ask, Check, CorrectStatus,
           CorrectPeriodEnd, ReadLicense, SaveLicense, mail
  <1>1. CASE Stop(s)
    BY <1>0, <1>1, FactsStop
  <1>2. CASE Look(s)
    <2> DEFINE a == [Idle EXCEPT !.stage = "ask"]
    <2>1. /\ a \in At /\ a.stage = "ask" /\ a.version = 1 /\ ~a.later /\ 1 <= version
          /\ at' = [at EXCEPT ![s] = a]
      BY <1>0, <1>2, IdleTyped, RowTyped DEF Look, At, Stages, Idle
    <2>2. \A q \in Processes : q # s => copy'[q] = copy[q] /\ incoming'[q] = incoming[q]
      BY <1>0, <1>2 DEF Look
    <2> HIDE DEF a
    <2> QED BY <1>0, <2>1, <2>2, FactsStep
  <1>3. CASE Ask(s) /\ ~Stop(s)
    <2>1. PICK next \in {"status", "period", "check"}, later \in BOOLEAN :
            /\ at' = [at EXCEPT ![s].stage = next, ![s].later = later]
            /\ incoming' = [incoming EXCEPT ![s] = Now]
            /\ UNCHANGED copy
            /\ later => Now.end > copy[s].end
            /\ next = "period" => later
      BY <1>3 DEF Ask
    <2> DEFINE a == [at[s] EXCEPT !.stage = next, !.later = later]
    <2>2. /\ a \in At /\ at' = [at EXCEPT ![s] = a]
          /\ a.version = at[s].version /\ a.stage = next /\ a.later = later
      BY <1>0, <2>1 DEF At, Stages, TypeOK
    <2>3. later => copy'[s].end <= incoming'[s].end /\ incoming'[s].end <= Now.end
      BY <1>0, <2>1, RowTyped
    <2> HIDE DEF a
    <2> QED BY <1>0, <2>1, <2>2, <2>3, FactsStep
  <1>4. CASE CorrectPeriodEnd(s)
    <2> DEFINE a == [at[s] EXCEPT !.stage = "readLicense", !.later = FALSE]
    <2>1. /\ a \in At /\ at' = [at EXCEPT ![s] = a]
          /\ a.version = at[s].version /\ a.stage = "readLicense" /\ ~a.later
      BY <1>0, <1>4 DEF CorrectPeriodEnd, At, Stages, TypeOK
    <2>2. \A q \in Processes : q # s => copy'[q] = copy[q] /\ incoming'[q] = incoming[q]
      BY <1>0, <1>4 DEF CorrectPeriodEnd, Correct
    <2> HIDE DEF a
    <2> QED BY <1>0, <2>1, <2>2, FactsStep
  <1>5. CASE (Check(s) \/ CorrectStatus(s) \/ ReadLicense(s) \/ SaveLicense(s)) /\ ~Stop(s)
    <2>1. /\ \A q \in Processes : q # s => copy'[q] = copy[q]
          /\ copy'[s].end = copy[s].end /\ incoming' = incoming
      <3>1. CASE CorrectStatus(s)
        <4>1. copy' = [copy EXCEPT ![s] = [copy[s] EXCEPT !.status = incoming[s].status]]
              /\ incoming' = incoming /\ copy[s] \in State
          BY <1>0, <3>1 DEF CorrectStatus, Correct, On, SubInv, HeldFits, HasCopy
        <4> QED BY <1>0, <4>1 DEF State
      <3>2. CASE Check(s) \/ ReadLicense(s) \/ SaveLicense(s)
        BY <1>0, <1>5, <3>2 DEF Check, ReadLicense, SaveLicense, Synced
      <3> QED BY <1>5, <3>1, <3>2
    <2>2. PICK stage \in {"saveLicense", "readLicense", "period"} :
            Goto(s, stage) /\ (stage = "period" => at[s].later)
      BY <1>0, <1>5 DEF Check, CorrectStatus, ReadLicense, SaveLicense, Synced
    <2>3. stage \in Stages
      BY DEF Stages
    <2> QED BY <1>0, <2>1, <2>2, <2>3, FactsGo
  <1> QED BY <1>1, <1>2, <1>3, <1>4, <1>5 DEF Sweep

LEMMA FactsNext == SubInv /\ Forward /\ [Next]_vars => Facts'
  <1> SUFFICES ASSUME SubInv, Forward, [Next]_vars PROVE Facts'
    OBVIOUS
  <1>0. Facts
    BY DEF Forward
  <1>1. CASE UNCHANGED vars
    <2>1. Now' = Now
      BY <1>1 DEF vars, Now
    <2> QED BY <1>0, <1>1, <2>1 DEF vars, Facts, Paid, Arrived, Carried
  <1>2. ASSUME NEW p \in Processes, Fail(p) PROVE Facts'
    <2>1. Stop(p) /\ UNCHANGED <<clock, mail>>
      BY <1>2 DEF Fail
    <2>2. \A v \in Versions : ledger'[v] # "none" \/ queued'[v] => v <= version
      BY <1>0, <2>1 DEF Facts, Arrived, mail
    <2> QED BY <1>0, <2>1, <2>2, FactsStop
  <1> QED BY <1>0, <1>1, <1>2, ForwardOutside, FactsBegin, FactsHandle, FactsSweep DEF Next, Forward

\* What a process writes when nobody has overtaken it moves forward.
LEMMA WriteForward ==
  ASSUME SubInv, Facts, Watermark, Behind, NEW p \in Processes, ~Outdated(p),
         (p \in Handlers /\ Save(p)) \/ (p \in Sweeps /\ CorrectPeriodEnd(p)) \/ SaveLicense(p)
  PROVE  /\ Watermark' /\ Behind'
         /\ ~edited => license' >= license
  <1>0. /\ TypeOK /\ Paid /\ UNCHANGED <<clock, edited>> /\ copy \in [Processes -> Copy]
        /\ license \in Nat /\ row.end \in Nat /\ copy[p].end \in Nat /\ copy[p].end <= row.end
        /\ incoming[p].end \in Nat /\ at[p].version \in Versions /\ at[p].version <= version
        /\ NoState.end = 0
    <2>1. UNCHANGED <<clock, edited>>
      BY DEF Save, CorrectPeriodEnd, SaveLicense, Writes, histories
    <2> QED BY <2>1, RowTyped, ProcessesTyped, NoStateApart DEF SubInv, Facts, Arrived, Behind
  <1>1. CASE SaveLicense(p)
    <2>1. /\ license' = copy[p].end /\ UNCHANGED row /\ Synced(p) /\ at[p].stage = "saveLicense"
          /\ copy[p].end = row.end
      BY <1>1 DEF SaveLicense, Outdated, On
    <2>2. \A q \in Processes : copy'[q].end \in {copy[q].end, row.end, 0}
      BY <1>0, <2>1 DEF Synced, Forget, Stop
    <2>3. Watermark' /\ Behind'
      BY <1>0, <2>1, <2>2, RowStays
    <2> QED BY <1>0, <2>1, <2>3 DEF Behind
  <1>2. CASE p \in Handlers /\ Save(p) /\ copy[p] = NoState /\ row # NoRow
    <2>1. Stop(p) /\ UNCHANGED <<row, license>>
      BY <1>2 DEF Save, db
    <2>2. \A q \in Processes : copy'[q].end \in {copy[q].end, row.end, 0}
      BY <1>0, <2>1 DEF Stop, Forget
    <2> QED BY <1>0, <2>1, <2>2, RowStays
  <1>3. CASE p \in Handlers /\ Save(p) /\ ~(copy[p] = NoState /\ row # NoRow)
    <2>1. /\ row' = Dirty(copy[p], incoming[p]) /\ UNCHANGED license /\ at[p].stage = "save"
          /\ copy' = [copy EXCEPT ![p] = incoming[p]] /\ ~Stale(at[p].version)
      BY <1>3 DEF Save, Outdated, On
    <2>2. incoming[p] = provider[at[p].version]
      BY <1>3, <2>1 DEF Facts, Carried, Handling
    <2>3. row.end <= incoming[p].end /\ incoming[p].end <= Now.end
      <3>1. row.mark < at[p].version
        BY <1>0, <2>1, RowTyped DEF Stale, NoRow
      <3> QED BY <1>0, <2>2, <3>1, RowTyped DEF Watermark, Paid
    <2>4. CASE incoming[p] = copy[p]
      <3>1. row' = row
        BY <2>1, <2>4 DEF Dirty
      <3>2. \A q \in Processes : copy'[q].end \in {copy[q].end, row.end, 0}
        BY <1>0, <2>1, <2>4
      <3> QED BY <1>0, <2>1, <3>1, <3>2, RowStays
    <2>5. CASE incoming[p] # copy[p]
      <3>1. /\ row'.mark = aged
            /\ row'.end = IF incoming[p].end = copy[p].end THEN row.end ELSE incoming[p].end
        BY <2>1, <2>5 DEF Dirty
      <3>2. /\ row'.end \in Nat /\ row.end <= row'.end /\ row'.end <= Now.end
            /\ copy'[p].end <= row'.end /\ \A q \in Processes : q # p => copy'[q] = copy[q]
        BY <1>0, <2>1, <2>3, <3>1, RowTyped DEF Watermark
      <3>3. Watermark' /\ Behind'
        BY <1>0, <2>1, <3>1, <3>2, RowMoves
      <3> QED BY <1>0, <2>1, <3>3
    <2> QED BY <2>4, <2>5
  <1>4. CASE p \in Sweeps /\ CorrectPeriodEnd(p)
    <2> DEFINE new == [copy[p] EXCEPT !.end = incoming[p].end]
    <2>1. /\ at[p].stage = "period" /\ UNCHANGED license /\ copy[p].end = row.end /\ Correct(p, new)
      BY <1>4 DEF CorrectPeriodEnd, Outdated, On
    <2>2. /\ copy[p] \in State /\ new.end = incoming[p].end /\ new.status = copy[p].status
          /\ copy[p].end <= incoming[p].end /\ incoming[p].end <= Now.end
      BY <1>0, <1>4, <2>1 DEF SubInv, HeldFits, HasCopy, Facts, Carried, State
    <2> HIDE DEF new
    <2>3. /\ row' = Dirty(copy[p], new) /\ copy'[p].end = incoming[p].end
          /\ \A q \in Processes : q # p => copy'[q] = copy[q]
      BY <1>0, <2>1, <2>2 DEF Correct
    <2>4. row'.end = incoming[p].end /\ (row'.mark = aged \/ row' = row)
      BY <2>1, <2>2, <2>3 DEF Dirty
    <2>5. Watermark' /\ Behind'
      BY <1>0, <2>1, <2>2, <2>3, <2>4, RowMoves
    <2> QED BY <1>0, <2>1, <2>5
  <1> QED BY <1>1, <1>2, <1>3, <1>4

\* Everything else leaves the row's period, and issues no license beyond it.
LEMMA RestForward ==
  ASSUME SubInv, Facts, Watermark, Behind, NEW p \in Processes,
         \/ \E v \in Versions : Begin(p, v) \/ Replay(p, v)
         \/ Guard(p) \/ Read(p) \/ Fulfil(p) \/ ReadLicense(p) \/ Mark(p) \/ Complete(p)
         \/ (p \in Sweeps /\ (Look(p) \/ Ask(p) \/ Check(p) \/ CorrectStatus(p)))
         \/ Fail(p)
  PROVE  /\ Watermark' /\ Behind'
         /\ ~edited => license' >= license
  <1>0. /\ TypeOK /\ Paid /\ copy \in [Processes -> Copy] /\ NoState.end = 0 /\ RowState.end = row.end
        /\ license \in Nat /\ row.end \in Nat /\ copy[p].end \in Nat /\ copy[p].end <= row.end
    BY RowTyped, ProcessesTyped, NoStateApart DEF SubInv, Facts, Behind
  <1>1. CASE Fulfil(p)
    <2>1. /\ UNCHANGED <<clock, row, copy, edited>>
          /\ license' = IF license = 0 THEN copy[p].end ELSE license
      BY <1>1 DEF Fulfil, histories
    <2>2. license' <= row.end \/ license' = license
      BY <1>0, <2>1
    <2>3. Watermark' /\ Behind'
      BY <1>0, <2>1, <2>2, RowStays
    <2> QED BY <1>0, <2>1, <2>3
  <1>2. CASE p \in Sweeps /\ CorrectStatus(p)
    <2> DEFINE new == [copy[p] EXCEPT !.status = incoming[p].status]
    <2>1. /\ at[p].stage = "status" /\ UNCHANGED <<clock, license, edited>> /\ Correct(p, new)
      BY <1>2 DEF CorrectStatus, On, histories
    <2>2. copy[p] \in State /\ new.end = copy[p].end
      BY <1>0, <2>1 DEF SubInv, HeldFits, HasCopy, State
    <2> HIDE DEF new
    <2>3. /\ row' = Dirty(copy[p], new) /\ copy'[p].end = copy[p].end
          /\ \A q \in Processes : q # p => copy'[q] = copy[q]
      BY <1>0, <2>1, <2>2 DEF Correct
    <2>4. row'.end = row.end /\ (row'.mark = aged \/ row' = row)
      BY <2>2, <2>3 DEF Dirty
    <2>5. Watermark' /\ Behind'
      BY <1>0, <2>1, <2>3, <2>4, RowMoves, RowTyped DEF Watermark
    <2> QED BY <1>0, <2>1, <2>5
  <1>3. CASE ~Fulfil(p) /\ ~(p \in Sweeps /\ CorrectStatus(p))
    <2>1. UNCHANGED <<clock, row, license, edited>>
      BY <1>3 DEF Begin, Replay, Guard, Read, ReadLicense, Mark, Complete, Look, Ask, Check, Fail,
         db, histories
    <2>2. \A q \in Processes : copy'[q].end \in {copy[q].end, row.end, 0}
      BY <1>0, <1>3 DEF Begin, Replay, Take, Guard, Read, ReadLicense, Synced, Mark, Complete, Look,
         Ask, Check, Fail, Stop, Forget
    <2>3. Watermark' /\ Behind'
      BY <1>0, <2>1, <2>2, RowStays
    <2> QED BY <1>0, <2>1, <2>3
  <1> QED BY <1>1, <1>2, <1>3

LEMMA Onward ==
  ASSUME SubInv, Forward, Next, ~overtaken'
  PROVE  /\ Watermark' /\ Behind'
         /\ ~edited' => license' >= license
  <1>1. /\ ~overtaken /\ Facts /\ Watermark /\ Behind
    <2>1. ~overtaken
      BY DEF Next, vars, Renew, PaymentFails, Cancel, Change, Ages, Receive, Begin, Replay, Handle,
         Guard, Read, Save, Fulfil, ReadLicense, SaveLicense, Mark, Complete, Sweep, Look, Ask, Check,
         CorrectStatus, CorrectPeriodEnd, Fail, StaffSetsExpiry, Writes, histories
    <2> QED BY <2>1 DEF Forward
  <1>2. edited => edited'
    BY DEF Next, vars, Renew, PaymentFails, Cancel, Change, Ages, Receive, Begin, Replay, Handle,
       Guard, Read, Save, Fulfil, ReadLicense, SaveLicense, Mark, Complete, Sweep, Look, Ask, Check,
       CorrectStatus, CorrectPeriodEnd, Fail, StaffSetsExpiry, Writes, histories
  <1>3. CASE \/ Renew \/ PaymentFails \/ Cancel \/ Ages
             \/ \E v \in Versions : Receive(v)
             \/ \E day \in ByStaff : StaffSetsExpiry(day)
    <2>1. Forward' /\ (~edited' => license' = license) /\ license \in Nat
      BY <1>3, ForwardOutside, RowTyped
         DEF Renew, PaymentFails, Cancel, Change, Ages, Receive, StaffSetsExpiry, db, SubInv
    <2> QED BY <2>1 DEF Forward
  <1>4. ASSUME NEW p \in Processes, ~Outdated(p),
               (p \in Handlers /\ Save(p)) \/ (p \in Sweeps /\ CorrectPeriodEnd(p)) \/ SaveLicense(p)
        PROVE  Watermark' /\ Behind' /\ (~edited' => license' >= license)
    BY <1>1, <1>2, <1>4, WriteForward
  <1>5. ASSUME NEW p \in Handlers, Save(p), Outdated(p)
        PROVE  Watermark' /\ Behind' /\ (~edited' => license' >= license)
    <2>1. Stop(p) /\ UNCHANGED <<clock, row, license, edited>> /\ p \in Processes
      BY <1>1, <1>5 DEF Save, Writes, db, histories, Processes
    <2>2. \A q \in Processes : copy'[q].end \in {copy[q].end, row.end, 0}
      BY <2>1, NoStateApart, ProcessesTyped DEF Stop, Forget, SubInv
    <2> QED BY <1>1, <2>1, <2>2, RowStays, RowTyped DEF SubInv
  <1>6. ASSUME NEW p \in Processes, CorrectPeriodEnd(p) \/ SaveLicense(p) PROVE ~Outdated(p)
    BY <1>6 DEF CorrectPeriodEnd, SaveLicense, Writes
  <1>7. ASSUME NEW p \in Processes,
               \/ \E v \in Versions : Begin(p, v) \/ Replay(p, v)
               \/ Guard(p) \/ Read(p) \/ Fulfil(p) \/ ReadLicense(p) \/ Mark(p) \/ Complete(p)
               \/ (p \in Sweeps /\ (Look(p) \/ Ask(p) \/ Check(p) \/ CorrectStatus(p)))
               \/ Fail(p)
        PROVE  Watermark' /\ Behind' /\ (~edited' => license' >= license)
    BY <1>1, <1>2, <1>7, RestForward
  <1> QED BY <1>3, <1>4, <1>5, <1>6, <1>7 DEF Next, Handle, Sweep, Processes

LEMMA ForwardNext == SubInv /\ Forward /\ [Next]_vars => Forward'
  <1> SUFFICES ASSUME SubInv, Forward, [Next]_vars PROVE Forward'
    OBVIOUS
  <1>1. Facts'
    BY FactsNext
  <1>2. CASE UNCHANGED vars
    <2>1. Now' = Now
      BY <1>2 DEF vars, Now
    <2> QED BY <1>1, <1>2, <2>1 DEF vars, Forward, Watermark, Behind
  <1>3. CASE Next
    BY <1>1, <1>3, Onward DEF Forward
  <1> QED BY <1>2, <1>3

\* While nothing has been written from a copy another process has overtaken,
\* and staff have set no expiry, no step moves the license's expiry back,
\* whatever the order in which events arrive, however many processes handle
\* and sweep and wherever they fail (NeverCutShort).
THEOREM LateEventsNeverShorten == Spec => NeverCutShort
  <1>1. SubInv /\ Forward /\ [Next]_vars => [~overtaken' /\ ~edited' => license' >= license]_vars
    BY Onward
  <1> QED BY <1>1, ForwardInit, ForwardNext, Invariant, PTL DEF Spec, NeverCutShort
===============================================================================
