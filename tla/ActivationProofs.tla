--------------------------- MODULE ActivationProofs ---------------------------
(***************************************************************************)
(* Proofs about the activations of a license, for any number of instances, *)
(* calls and removers, and any limits.                                     *)
(***************************************************************************)
EXTENDS Activation, FiniteSetTheorems, TLAPS

\* The lock is held by exactly the call that has begun and not finished.
OneAtATime == \A c \in Calls : call[c].stage # "idle" <=> holder = c

\* While the lock is held the limit stays what was read under it.
LimitIsRead == \A c \in Calls : holder = c => call[c].max = max

Deciding(c, write) == call[c].stage = "decided" /\ call[c].write = write

\* What was read about the rows of an instance still holds at the write.
TargetsFit ==
  \A c \in Calls :
    /\ Deciding(c, "refresh") \/ Deciding(c, "revive") =>
         /\ call[c].target \in RowIds
         /\ rows[call[c].target].inst = call[c].inst
    /\ Deciding(c, "create") => RowsOf(call[c].inst) = {}
    /\ call[c].stage # "idle" => call[c].inst # None

HasRoom(c) == call[c].max = Unlimited \/ Used(call[c].countDev) < call[c].max

\* A call about to take a slot has room for it, whatever was removed since.
RoomLeft ==
  \A c \in Calls :
    /\ (Deciding(c, "revive") \/ Deciding(c, "create")) /\ TakesSlot(c) => HasRoom(c)
    /\ /\ Deciding(c, "refresh") /\ TakesSlot(c)
       /\ ~Counts(rows[call[c].target], call[c].countDev)
       /\ rows[call[c].target].live
       => HasRoom(c)

ActInv ==
  /\ TypeOK
  /\ OneAtATime
  /\ LimitIsRead
  /\ TargetsFit
  /\ OneRowPerInstance
  /\ RoomLeft
  /\ SlotHoldersNotRefused

-------------------------------------------------------------------------------
(* Counting. *)

LEMMA CountingSets ==
  ASSUME NEW A, NEW B, NEW x, IsFiniteSet(A), B \subseteq A \cup {x}
  PROVE  /\ Cardinality(A) \in Nat /\ Cardinality(B) \in Nat
         /\ Cardinality(B) <= Cardinality(A) + 1
         /\ B \subseteq A => Cardinality(B) <= Cardinality(A)
  <1>1. IsFiniteSet(A \cup {x}) /\ Cardinality(A) \in Nat
        /\ Cardinality(A \cup {x}) \in Nat /\ Cardinality(A \cup {x}) <= Cardinality(A) + 1
    BY FS_AddElement, FS_CardinalityType
  <1>2. IsFiniteSet(B) /\ Cardinality(B) \in Nat /\ Cardinality(B) <= Cardinality(A \cup {x})
    BY <1>1, FS_Subset, FS_CardinalityType
  <1>3. B \subseteq A => Cardinality(B) <= Cardinality(A)
    BY FS_Subset
  <1> QED BY <1>1, <1>2, <1>3

LEMMA CountedFinite ==
  ASSUME NEW cd \in BOOLEAN
  PROVE  IsFiniteSet(Counted(cd)) /\ Used(cd) \in Nat
  BY RowIdsFinite, FS_Subset, FS_CardinalityType DEF Counted, Used

\* One row written: the number of slots in use grows by at most one, and only
\* when the written row counts and did not count before.
LEMMA OneRowWritten ==
  ASSUME rows \in [RowIds -> Row], NEW t \in RowIds, NEW new \in Row,
         rows' = [rows EXCEPT ![t] = new], NEW cd \in BOOLEAN
  PROVE  /\ Used(cd) \in Nat /\ Used(cd)' \in Nat
         /\ Used(cd)' <= Used(cd) + 1
         /\ ~Counts(new, cd) \/ Counts(rows[t], cd) => Used(cd)' <= Used(cd)
  <1>1. Counted(cd)' = {r \in RowIds : Counts(rows'[r], cd)}
    BY DEF Counted, Counts
  <1>2. \A r \in RowIds : r # t => rows'[r] = rows[r]
    OBVIOUS
  <1>3. rows'[t] = new
    OBVIOUS
  <1>4. Counted(cd)' \subseteq Counted(cd) \cup {t}
    BY <1>1, <1>2 DEF Counted
  <1>5. ~Counts(new, cd) \/ Counts(rows[t], cd) => Counted(cd)' \subseteq Counted(cd)
    BY <1>1, <1>2, <1>3 DEF Counted
  <1>6. IsFiniteSet(Counted(cd))
    BY CountedFinite
  <1> QED BY <1>4, <1>5, <1>6, CountingSets DEF Used

-------------------------------------------------------------------------------
(* Typed steps. *)

LEMMA InitActInv == Init => ActInv
  BY NoneOutside DEF Init, ActInv, TypeOK, OneAtATime, LimitIsRead, TargetsFit,
     OneRowPerInstance, RoomLeft, SlotHoldersNotRefused, Deciding, Row, NoRow, Call,
     IdleCall, Max, Writes

\* When nobody holds the lock, no call is under way.
LEMMA AllIdle ==
  ASSUME \A c \in Calls : call[c].stage = "idle"
  PROVE  TargetsFit /\ RoomLeft /\ SlotHoldersNotRefused
  BY DEF TargetsFit, RoomLeft, SlotHoldersNotRefused, Deciding

\* What the write of a call does to the rows.
LEMMA WriteEffect ==
  ASSUME ActInv, NEW c \in Calls, Write(c)
  PROVE  \/ rows' = rows
         \/ \E t \in RowIds, new \in Row :
              /\ rows' = [rows EXCEPT ![t] = new]
              /\ new.inst = call[c].inst
              /\ \/ rows[t].inst = new.inst
                 \/ rows[t].inst = None /\ RowsOf(new.inst) = {}
              /\ Counts(new, call[c].countDev) /\ ~Counts(rows[t], call[c].countDev)
                   => HasRoom(c)
  <1> DEFINE t == call[c].target
             dev == call[c].dev
  <1>1. call[c] \in Call /\ call[c].stage = "decided" /\ rows \in [RowIds -> Row]
    BY DEF ActInv, TypeOK, Write
  <1>2. call[c].write \in Writes /\ dev \in BOOLEAN /\ call[c].countDev \in BOOLEAN
        /\ call[c].inst \in Instances
    BY <1>1 DEF Call, ActInv, TargetsFit
  <1>3. CASE call[c].write = "refuse"
    BY <1>3 DEF Write, Written
  <1>4. CASE call[c].write = "refresh"
    <2> DEFINE new == [rows[t] EXCEPT !.dev = dev]
    <2>1. t \in RowIds /\ rows[t].inst = call[c].inst /\ rows[t] \in Row
      BY <1>1, <1>4 DEF ActInv, TargetsFit, Deciding
    <2>2. rows' = [rows EXCEPT ![t] = new]
      BY <1>1, <1>4, <2>1 DEF Write, Written
    <2>3. new \in Row /\ new.inst = rows[t].inst /\ new.live = rows[t].live /\ new.dev = dev
      BY <1>2, <2>1 DEF Row
    <2>4. Counts(new, call[c].countDev) /\ ~Counts(rows[t], call[c].countDev) => HasRoom(c)
      BY <1>1, <1>4, <2>3 DEF ActInv, RoomLeft, Deciding, Counts, TakesSlot
    <2> QED BY <2>1, <2>2, <2>3, <2>4
  <1>5. CASE call[c].write = "revive"
    <2> DEFINE new == [inst |-> rows[t].inst, live |-> TRUE, dev |-> dev]
    <2>1. t \in RowIds /\ rows[t].inst = call[c].inst /\ rows[t] \in Row
      BY <1>1, <1>5 DEF ActInv, TargetsFit, Deciding
    <2>2. rows' = [rows EXCEPT ![t] = new]
      BY <1>1, <1>5, <2>1 DEF Write, Written, Row
    <2>3. new \in Row /\ new.inst = rows[t].inst /\ new.dev = dev
      BY <1>2, <2>1 DEF Row
    <2>4. Counts(new, call[c].countDev) => HasRoom(c)
      BY <1>1, <1>5, <2>3 DEF ActInv, RoomLeft, Deciding, Counts, TakesSlot
    <2> QED BY <2>1, <2>2, <2>3, <2>4
  <1>6. CASE call[c].write = "create"
    <2> DEFINE new == [inst |-> call[c].inst, live |-> TRUE, dev |-> dev]
    <2>1. PICK r \in RowIds : rows[r].inst = None /\ rows' = [rows EXCEPT ![r] = new]
      BY <1>6 DEF Write, Written, RowsOf
    <2>2. new \in Row /\ new.inst = call[c].inst
      BY <1>2 DEF Row
    <2>3. RowsOf(new.inst) = {}
      BY <1>1, <1>6 DEF ActInv, TargetsFit, Deciding
    <2>4. Counts(new, call[c].countDev) => HasRoom(c)
      BY <1>1, <1>6 DEF ActInv, RoomLeft, Deciding, Counts, TakesSlot
    <2> QED BY <2>1, <2>2, <2>3, <2>4
  <1> QED BY <1>2, <1>3, <1>4, <1>5, <1>6 DEF Writes

\* A finished call leaves every call idle and the rest untouched.
LEMMA FinishIdle ==
  ASSUME ActInv, NEW c \in Calls, call[c].stage # "idle", Finish(c)
  PROVE  /\ \A d \in Calls : call'[d].stage = "idle"
         /\ holder' = None /\ OneAtATime' /\ LimitIsRead'
         /\ call' \in [Calls -> Call]
  <1>1. holder = c /\ call \in [Calls -> Call]
    BY DEF ActInv, OneAtATime, TypeOK
  <1>2. \A d \in Calls : d # c => call[d].stage = "idle"
    BY <1>1 DEF ActInv, OneAtATime
  <1>3. \A d \in Calls : call'[d] = IF d = c THEN IdleCall ELSE call[d]
    BY <1>1 DEF Finish
  <1>4. IdleCall \in Call /\ IdleCall.stage = "idle"
    BY DEF IdleCall, Call, Max, Writes
  <1>5. call' \in [Calls -> Call]
    BY <1>1, <1>4 DEF Finish
  <1>6. \A d \in Calls : call'[d].stage = "idle"
    BY <1>2, <1>3, <1>4
  <1> QED BY <1>5, <1>6, NoneOutside DEF Finish, OneAtATime, LimitIsRead

-------------------------------------------------------------------------------
(* Every step keeps the invariant. *)

\* The calls that are not idle are those of the one that holds the lock.
LEMMA LockStep ==
  ASSUME ActInv, NEW c \in Calls, Lock(c)
  PROVE  ActInv'
  <1>1. PICK i \in Instances, dev \in BOOLEAN :
          call' = [call EXCEPT ![c] = [IdleCall EXCEPT !.stage = "locked",
                     !.inst = i, !.dev = dev, !.max = max]]
    BY DEF Lock
  <1> DEFINE new == [IdleCall EXCEPT !.stage = "locked", !.inst = i, !.dev = dev, !.max = max]
  <1>2. new \in Call /\ new.stage = "locked" /\ new.max = max /\ new.inst = i
    BY DEF ActInv, TypeOK, IdleCall, Call, Max, Writes
  <1>3. call \in [Calls -> Call] /\ holder = None /\ holder' = c
    BY DEF ActInv, TypeOK, Lock
  <1>4. \A d \in Calls : call'[d] = IF d = c THEN new ELSE call[d]
    BY <1>1, <1>3
  <1>5. \A d \in Calls : d # c => call[d].stage = "idle"
    BY <1>3, NoneOutside DEF ActInv, OneAtATime
  <1>6. TypeOK'
    BY <1>1, <1>2, <1>3 DEF ActInv, TypeOK, Lock
  <1>7. OneAtATime' /\ LimitIsRead'
    BY <1>2, <1>3, <1>4, <1>5 DEF OneAtATime, LimitIsRead, Lock
  <1>8. \A d \in Calls : call'[d].stage # "decided"
    BY <1>2, <1>4, <1>5
  <1>9. TargetsFit'
    <2>1. \A d \in Calls : call'[d].stage # "idle" => call'[d].inst = i
      BY <1>2, <1>4, <1>5
    <2>2. i # None
      BY NoneOutside
    <2> QED BY <1>8, <2>1, <2>2 DEF TargetsFit, Deciding
  <1>10. RoomLeft' /\ SlotHoldersNotRefused'
    BY <1>8 DEF RoomLeft, SlotHoldersNotRefused, Deciding
  <1> QED BY <1>6, <1>7, <1>9, <1>10 DEF ActInv, OneRowPerInstance, Lock

\* ReadProduct and ReadRows change one call and nothing else.
LEMMA CallStep ==
  ASSUME ActInv, NEW c \in Calls, NEW new \in Call, call' = [call EXCEPT ![c] = new],
         call[c].stage # "idle", new.stage # "idle",
         new.max = call[c].max, new.inst = call[c].inst,
         UNCHANGED <<rows, max, countDev, holder, loaded>>
  PROVE  /\ TypeOK' /\ OneAtATime' /\ LimitIsRead' /\ OneRowPerInstance'
         /\ \A d \in Calls : call'[d] = IF d = c THEN new ELSE call[d]
         /\ \A d \in Calls : d # c => call[d].stage = "idle"
         /\ \A d \in Calls : call'[d].stage # "idle" => call'[d].inst # None
  <1>1. call \in [Calls -> Call] /\ holder = c
    BY DEF ActInv, TypeOK, OneAtATime
  <1>2. \A d \in Calls : call'[d] = IF d = c THEN new ELSE call[d]
    BY <1>1
  <1>3. \A d \in Calls : d # c => call[d].stage = "idle"
    BY <1>1 DEF ActInv, OneAtATime
  <1>4. TypeOK'
    BY <1>1 DEF ActInv, TypeOK
  <1>5. OneAtATime' /\ LimitIsRead' /\ OneRowPerInstance'
    BY <1>1, <1>2 DEF ActInv, OneAtATime, LimitIsRead, OneRowPerInstance
  <1>6. \A d \in Calls : call'[d].stage # "idle" => call'[d].inst # None
    BY <1>2 DEF ActInv, TargetsFit
  <1> QED BY <1>2, <1>3, <1>4, <1>5, <1>6

LEMMA ReadProductStep ==
  ASSUME ActInv, NEW c \in Calls, ReadProduct(c)
  PROVE  ActInv'
  <1> DEFINE new == [call[c] EXCEPT !.stage = "ruled", !.countDev = countDev]
  <1>1. call[c] \in Call /\ countDev \in BOOLEAN
    BY DEF ActInv, TypeOK
  <1>2. new \in Call /\ new.stage = "ruled" /\ new.max = call[c].max /\ new.inst = call[c].inst
    BY <1>1 DEF Call
  <1>3. call' = [call EXCEPT ![c] = new]
    BY DEF ReadProduct
  <1>4. call[c].stage # "idle" /\ UNCHANGED <<rows, max, countDev, holder, loaded>>
    BY DEF ReadProduct
  <1>5. /\ TypeOK' /\ OneAtATime' /\ LimitIsRead' /\ OneRowPerInstance'
        /\ \A d \in Calls : call'[d] = IF d = c THEN new ELSE call[d]
        /\ \A d \in Calls : d # c => call[d].stage = "idle"
        /\ \A d \in Calls : call'[d].stage # "idle" => call'[d].inst # None
    BY <1>2, <1>3, <1>4, CallStep
  <1>6. \A d \in Calls : call'[d].stage # "decided"
    BY <1>2, <1>5
  <1>7. TargetsFit' /\ RoomLeft' /\ SlotHoldersNotRefused'
    BY <1>5, <1>6 DEF TargetsFit, RoomLeft, SlotHoldersNotRefused, Deciding
  <1> QED BY <1>5, <1>7 DEF ActInv

\* The decision, whatever it is, fits the rows it was made from.
LEMMA ReadRowsStep ==
  ASSUME ActInv, NEW c \in Calls, ReadRows(c)
  PROVE  ActInv'
  <1> DEFINE i == call[c].inst
             cd == call[c].countDev
             new(wr, t) == [call[c] EXCEPT !.stage = "decided", !.write = wr, !.target = t]
             Fit(wr, t) ==
               /\ wr \in {"refresh", "revive"} => t \in RowIds /\ rows[t].inst = i
               /\ wr = "create" => RowsOf(i) = {}
               /\ wr \in {"revive", "create"} /\ TakesSlot(c) => HasRoom(c)
               /\ wr = "refresh" /\ TakesSlot(c) /\ ~Counts(rows[t], cd) /\ rows[t].live
                    => HasRoom(c)
               /\ wr = "refuse" => \A r \in RowsOf(i) : ~Counts(rows[r], cd)
  <1>0. call[c] \in Call /\ call[c].stage = "ruled" /\ rows \in [RowIds -> Row]
        /\ cd \in BOOLEAN /\ holder = c /\ call[c].max \in Max
    BY DEF ActInv, TypeOK, ReadRows, OneAtATime, Call
  <1>1. ~Full(c) => HasRoom(c)
    <2>1. PICK u \in Nat : u = Used(call[c].countDev)
      BY <1>0, CountedFinite
    <2>2. call[c].max = Unlimited \/ call[c].max \in Nat
      BY <1>0, LimitsAreNumbers DEF Max
    <2> QED BY <2>1, <2>2 DEF Full, HasRoom
  <1>2. PICK wr \in Writes, t \in RowIds \cup {None} : Decide(c, wr, t) /\ Fit(wr, t)
    <2>1. CASE MeetsLive(c)
      <3>1. PICK r \in LiveRowsOf(i) :
              LET startsCounting == TakesSlot(c) /\ rows[r].dev /\ ~cd IN
              IF startsCounting /\ Full(c) THEN Decide(c, "refuse", None)
              ELSE Decide(c, "refresh", r)
        BY <2>1 DEF MeetsLive
      <3>2. r \in RowIds /\ rows[r].inst = i /\ rows[r].live /\ i # None
        BY <1>0 DEF LiveRowsOf, RowsOf, ActInv, TargetsFit
      <3>3. CASE TakesSlot(c) /\ rows[r].dev /\ ~cd /\ Full(c)
        <4>1. \A q \in RowsOf(i) : q = r
          BY <3>2 DEF RowsOf, ActInv, OneRowPerInstance
        <4>2. Fit("refuse", None)
          BY <3>3, <4>1 DEF Counts
        <4> QED BY <3>1, <3>3, <4>2 DEF Writes
      <3>4. CASE ~(TakesSlot(c) /\ rows[r].dev /\ ~cd /\ Full(c))
        <4>1. Fit("refresh", r)
          BY <1>0, <1>1, <3>2, <3>4 DEF Counts
        <4> QED BY <3>1, <3>2, <3>4, <4>1 DEF Writes
      <3> QED BY <3>3, <3>4
    <2>2. CASE MeetsNoLive(c)
      <3>1. \A r \in RowsOf(i) : ~rows[r].live
        BY <2>2 DEF MeetsNoLive, LiveRowsOf
      <3>2. CASE TakesSlot(c) /\ Full(c)
        <4>1. Fit("refuse", None)
          BY <3>1 DEF Counts
        <4> QED BY <2>2, <3>2, <4>1 DEF MeetsNoLive, Writes
      <3>3. CASE ~(TakesSlot(c) /\ Full(c))
        <4>1. CASE \E r \in RowsOf(i) : Decide(c, "revive", r)
          <5>1. PICK r \in RowsOf(i) : Decide(c, "revive", r)
            BY <4>1
          <5>2. Fit("revive", r) /\ r \in RowIds
            BY <1>1, <3>3 DEF RowsOf
          <5> QED BY <5>1, <5>2 DEF Writes
        <4>2. CASE RowsOf(i) = {} /\ Decide(c, "create", None)
          <5>1. Fit("create", None)
            BY <1>1, <3>3, <4>2
          <5> QED BY <4>2, <5>1 DEF Writes
        <4> QED BY <2>2, <3>3, <4>1, <4>2 DEF MeetsNoLive
      <3> QED BY <3>2, <3>3
    <2> QED BY <2>1, <2>2 DEF ReadRows
  <1>3. new(wr, t) \in Call /\ new(wr, t).stage = "decided" /\ new(wr, t).max = call[c].max
        /\ new(wr, t).inst = i /\ new(wr, t).countDev = cd /\ new(wr, t).write = wr
        /\ new(wr, t).target = t /\ new(wr, t).dev = call[c].dev
    BY <1>0, <1>2 DEF Call
  <1>4. call' = [call EXCEPT ![c] = new(wr, t)]
    BY <1>2 DEF Decide
  <1>5. /\ TypeOK' /\ OneAtATime' /\ LimitIsRead' /\ OneRowPerInstance'
        /\ \A d \in Calls : call'[d] = IF d = c THEN new(wr, t) ELSE call[d]
        /\ \A d \in Calls : d # c => call[d].stage = "idle"
        /\ \A d \in Calls : call'[d].stage # "idle" => call'[d].inst # None
    <2>1. call[c].stage # "idle" /\ UNCHANGED <<rows, max, countDev, holder, loaded>>
      BY DEF ReadRows
    <2> HIDE DEF new, Fit
    <2> QED BY <1>3, <1>4, <2>1, CallStep
  <1>6. rows' = rows
    BY DEF ReadRows
  <1> HIDE DEF new
  <1>7. TargetsFit'
    BY <1>2, <1>3, <1>5, <1>6 DEF TargetsFit, Deciding, RowsOf
  <1>8. RoomLeft'
    <2>1. TakesSlot(c)' = TakesSlot(c) /\ HasRoom(c)' = HasRoom(c)
      BY <1>3, <1>5, <1>6 DEF TakesSlot, HasRoom, Used, Counted, Counts
    <2>2. \A d \in Calls : call'[d].stage = "decided" => d = c
      BY <1>5
    <2>3. call'[c].write = wr /\ call'[c].target = t /\ call'[c].countDev = cd
      BY <1>3, <1>5
    <2> QED BY <1>2, <1>6, <2>1, <2>2, <2>3 DEF RoomLeft, Deciding, Counts
  <1>9. SlotHoldersNotRefused'
    BY <1>2, <1>3, <1>5, <1>6 DEF SlotHoldersNotRefused, RowsOf, Counts
  <1> QED BY <1>5, <1>7, <1>8, <1>9 DEF ActInv

LEMMA WriteStep ==
  ASSUME ActInv, NEW c \in Calls, Write(c)
  PROVE  ActInv'
  <1>1. call[c].stage # "idle" /\ Finish(c)
    BY DEF Write
  <1>2. /\ \A d \in Calls : call'[d].stage = "idle"
        /\ holder' = None /\ OneAtATime' /\ LimitIsRead' /\ call' \in [Calls -> Call]
    BY <1>1, FinishIdle
  <1>3. TargetsFit' /\ RoomLeft' /\ SlotHoldersNotRefused'
    BY <1>2 DEF TargetsFit, RoomLeft, SlotHoldersNotRefused, Deciding
  <1>4. rows' \in [RowIds -> Row] /\ OneRowPerInstance'
    <2>1. CASE rows' = rows
      BY <2>1 DEF ActInv, TypeOK, OneRowPerInstance
    <2>2. CASE rows' # rows
      <3>1. PICK t \in RowIds, new \in Row :
              /\ rows' = [rows EXCEPT ![t] = new]
              /\ \/ rows[t].inst = new.inst
                 \/ rows[t].inst = None /\ RowsOf(new.inst) = {}
        BY <2>2, WriteEffect
      <3>2. rows \in [RowIds -> Row]
        BY DEF ActInv, TypeOK
      <3> QED BY <3>1, <3>2 DEF ActInv, OneRowPerInstance, RowsOf
    <2> QED BY <2>1, <2>2
  <1>5. TypeOK'
    BY <1>1, <1>2, <1>4 DEF ActInv, TypeOK, Finish
  <1> QED BY <1>2, <1>3, <1>4, <1>5 DEF ActInv

LEMMA AbortStep ==
  ASSUME ActInv, NEW c \in Calls, Abort(c)
  PROVE  ActInv'
  <1>1. call[c].stage # "idle" /\ Finish(c) /\ rows' = rows
    BY DEF Abort
  <1>2. /\ \A d \in Calls : call'[d].stage = "idle"
        /\ holder' = None /\ OneAtATime' /\ LimitIsRead' /\ call' \in [Calls -> Call]
    BY <1>1, FinishIdle
  <1>3. TargetsFit' /\ RoomLeft' /\ SlotHoldersNotRefused'
    BY <1>2 DEF TargetsFit, RoomLeft, SlotHoldersNotRefused, Deciding
  <1>4. TypeOK' /\ OneRowPerInstance'
    BY <1>1, <1>2 DEF ActInv, TypeOK, Finish, OneRowPerInstance
  <1> QED BY <1>2, <1>3, <1>4 DEF ActInv

LEMMA SwitchedOff ==
  ASSUME rows \in [RowIds -> Row], NEW t \in RowIds, NEW new \in Row, ~new.live,
         rows' = [rows EXCEPT ![t] = new], NEW cd \in BOOLEAN
  PROVE  Used(cd) \in Nat /\ Used(cd)' \in Nat /\ Used(cd)' <= Used(cd)
  <1>1. ~Counts(new, cd)
    BY DEF Counts
  <1> QED BY <1>1, OneRowWritten

\* Switching a row off frees room and takes nothing from anybody's target.
LEMMA RemoveStep ==
  ASSUME ActInv, NEW s \in Removers, Remove(s)
  PROVE  ActInv'
  <1> DEFINE t == loaded[s]
             new == [rows[t] EXCEPT !.live = FALSE]
  <1>1. t \in RowIds /\ rows \in [RowIds -> Row] /\ rows[t] \in Row
        /\ call \in [Calls -> Call] /\ loaded \in [Removers -> RowIds \cup {None}]
    BY DEF ActInv, TypeOK, Remove
  <1>2. new \in Row /\ new.inst = rows[t].inst /\ ~new.live
    BY <1>1 DEF Row
  <1>3. rows' = [rows EXCEPT ![t] = new]
    BY DEF Remove
  <1> HIDE DEF new
  <1>4. UNCHANGED <<max, countDev, holder, call>> /\ loaded' = [loaded EXCEPT ![s] = None]
    BY DEF Remove
  <1>5. \A r \in RowIds : rows'[r].inst = rows[r].inst
                          /\ (rows'[r].live => rows'[r] = rows[r])
    BY <1>1, <1>2, <1>3
  <1>6. TypeOK'
    BY <1>1, <1>2, <1>3, <1>4 DEF ActInv, TypeOK
  <1>7. OneAtATime' /\ LimitIsRead' /\ OneRowPerInstance'
    BY <1>4, <1>5 DEF ActInv, OneAtATime, LimitIsRead, OneRowPerInstance
  <1>8. \A i : RowsOf(i)' = RowsOf(i)
    BY <1>5 DEF RowsOf
  <1>9. TargetsFit'
    BY <1>4, <1>5, <1>8 DEF ActInv, TargetsFit, Deciding
  <1>10. \A c \in Calls : HasRoom(c) => HasRoom(c)'
    <2> SUFFICES ASSUME NEW c \in Calls, HasRoom(c) PROVE HasRoom(c)'
      OBVIOUS
    <2>1. call[c].countDev \in BOOLEAN /\ call[c].max \in Max
      BY <1>1 DEF Call
    <2>2. PICK cd \in BOOLEAN : cd = call[c].countDev
      BY <2>1
    <2>3. Used(cd) \in Nat /\ Used(cd)' \in Nat /\ Used(cd)' <= Used(cd)
      BY <1>1, <1>2, <1>3, SwitchedOff
    <2>4. call[c].max = Unlimited \/ call[c].max \in Nat
      BY <2>1, LimitsAreNumbers DEF Max
    <2>5. call[c].max = Unlimited \/ Used(cd) < call[c].max
      BY <2>2 DEF HasRoom
    <2>6. call[c].max = Unlimited \/ Used(cd)' < call[c].max
      BY <2>3, <2>4, <2>5
    <2> QED BY <1>4, <2>2, <2>6 DEF HasRoom
  <1>11. RoomLeft'
    BY <1>4, <1>5, <1>9, <1>10 DEF ActInv, RoomLeft, TargetsFit, Deciding, TakesSlot
  <1>12. SlotHoldersNotRefused'
    BY <1>4, <1>5, <1>8 DEF ActInv, SlotHoldersNotRefused, Counts, RowsOf
  <1> QED BY <1>6, <1>7, <1>9, <1>11, <1>12 DEF ActInv

LEMMA QuietSteps ==
  ASSUME ActInv,
         \/ \E s \in Removers, r \in RowIds : Load(s, r)
         \/ \E m \in Max : SetMax(m)
         \/ EditProduct
         \/ UNCHANGED vars
  PROVE  ActInv'
  <1>1. ASSUME NEW s \in Removers, NEW r \in RowIds, Load(s, r) PROVE ActInv'
    <2>1. UNCHANGED <<rows, max, countDev, holder, call>> /\ TypeOK'
      BY <1>1 DEF ActInv, TypeOK, Load
    <2> QED BY <2>1 DEF ActInv, OneAtATime, LimitIsRead, TargetsFit, OneRowPerInstance, RoomLeft,
                        SlotHoldersNotRefused, Deciding, HasRoom, TakesSlot, Used, Counted,
                        Counts, RowsOf
  <1>2. ASSUME NEW m \in Max, SetMax(m) PROVE ActInv'
    <2>1. \A c \in Calls : call[c].stage = "idle"
      BY <1>2, NoneOutside DEF SetMax, ActInv, OneAtATime
    <2>2. call' = call /\ rows' = rows /\ holder' = holder /\ holder = None
      BY <1>2 DEF SetMax
    <2>3. TargetsFit' /\ RoomLeft' /\ SlotHoldersNotRefused'
      BY <2>1, <2>2 DEF TargetsFit, RoomLeft, SlotHoldersNotRefused, Deciding
    <2>4. TypeOK' /\ OneAtATime' /\ OneRowPerInstance'
      BY <1>2 DEF ActInv, TypeOK, OneAtATime, OneRowPerInstance, SetMax
    <2>5. LimitIsRead'
      BY <2>2, NoneOutside DEF LimitIsRead
    <2> QED BY <2>3, <2>4, <2>5 DEF ActInv
  <1>3. ASSUME EditProduct \/ UNCHANGED vars PROVE ActInv'
    <2>1. UNCHANGED <<rows, max, holder, call>> /\ TypeOK'
      BY <1>3 DEF ActInv, TypeOK, EditProduct, vars
    <2> QED BY <2>1 DEF ActInv, OneAtATime, LimitIsRead, TargetsFit, OneRowPerInstance, RoomLeft,
                        SlotHoldersNotRefused, Deciding, HasRoom, TakesSlot, Used, Counted,
                        Counts, RowsOf
  <1> QED BY <1>1, <1>2, <1>3

LEMMA NextActInv == ActInv /\ [Next]_vars => ActInv'
  <1> SUFFICES ASSUME ActInv, [Next]_vars PROVE ActInv'
    OBVIOUS
  <1>1. ASSUME NEW c \in Calls, Activate(c) PROVE ActInv'
    BY <1>1, LockStep, ReadProductStep, ReadRowsStep, WriteStep, AbortStep DEF Activate
  <1>2. ASSUME NEW s \in Removers, Remove(s) PROVE ActInv'
    BY <1>2, RemoveStep
  <1> QED BY <1>1, <1>2, QuietSteps DEF Next

LEMMA ActInvariant == Spec => []ActInv
  BY InitActInv, NextActInv, PTL DEF Spec

-------------------------------------------------------------------------------
\* Every row, call and lock has its type throughout.
THEOREM ActivationTypes == Spec => []TypeOK
  <1>1. ActInv => TypeOK
    BY DEF ActInv
  <1> QED BY <1>1, ActInvariant, PTL

\* An instance never has two rows, however many calls and removals interleave
\* (activation_service.ts:40-41 and 108-112).
THEOREM OneRow == Spec => []OneRowPerInstance
  <1>1. ActInv => OneRowPerInstance
    BY DEF ActInv
  <1> QED BY <1>1, ActInvariant, PTL

\* A call that is being refused is for an instance that holds no slot, so no
\* change of limit or of product locks a working installation out
\* (activation_service.ts:75-98).
THEOREM HoldersKeepTheirSlots == Spec => []SlotHoldersNotRefused
  <1>1. ActInv => SlotHoldersNotRefused
    BY DEF ActInv
  <1> QED BY <1>1, ActInvariant, PTL

\* No step makes a slot beyond the limit the license has at that moment
\* (activation_service.ts:35-39).
THEOREM SlotsWithinLimit == Spec => NoSlotBeyondLimit
  <1> DEFINE Within ==
        \A cd \in BOOLEAN : Used(cd)' > Used(cd) =>
          /\ holder # None
          /\ cd = call[holder].countDev /\ max # Unlimited => Used(cd)' <= max
  <1>1. ASSUME ActInv, [Next]_vars, NEW cd \in BOOLEAN, Used(cd)' > Used(cd)
        PROVE  /\ holder # None
               /\ cd = call[holder].countDev /\ max # Unlimited => Used(cd)' <= max
    <2>1. rows \in [RowIds -> Row] /\ call \in [Calls -> Call] /\ Used(cd) \in Nat
          /\ loaded \in [Removers -> RowIds \cup {None}]
      BY <1>1, CountedFinite DEF ActInv, TypeOK
    <2>2. rows' # rows
      <3> SUFFICES ASSUME rows' = rows PROVE FALSE
        OBVIOUS
      <3>1. Used(cd)' = Used(cd)
        BY DEF Used, Counted, Counts
      <3> QED BY <1>1, <2>1, <3>1
    <2>3. ~ \E s \in Removers : Remove(s)
      <3> SUFFICES ASSUME NEW s \in Removers, Remove(s) PROVE FALSE
        OBVIOUS
      <3> DEFINE new == [rows[loaded[s]] EXCEPT !.live = FALSE]
      <3>1. loaded[s] \in RowIds /\ new \in Row /\ ~new.live
            /\ rows' = [rows EXCEPT ![loaded[s]] = new]
        BY <2>1 DEF Remove, Row
      <3> HIDE DEF new
      <3>2. Used(cd) \in Nat /\ Used(cd)' \in Nat /\ Used(cd)' <= Used(cd)
        BY <2>1, <3>1, SwitchedOff
      <3> QED BY <1>1, <3>2
    <2>4. PICK c \in Calls : Write(c)
      BY <1>1, <2>2, <2>3 DEF Next, Activate, Lock, ReadProduct, ReadRows, Abort, Load, SetMax,
                              EditProduct, vars
    <2>5. holder = c /\ c # None /\ call[c].max = max /\ max \in Max
      BY <1>1, <2>4, NoneOutside DEF ActInv, TypeOK, OneAtATime, LimitIsRead, Write
    <2>6. PICK t \in RowIds, new \in Row :
            /\ rows' = [rows EXCEPT ![t] = new]
            /\ Counts(new, call[c].countDev) /\ ~Counts(rows[t], call[c].countDev) => HasRoom(c)
      BY <1>1, <2>2, <2>4, WriteEffect
    <2>7. /\ Used(cd)' \in Nat /\ Used(cd)' <= Used(cd) + 1
          /\ ~Counts(new, cd) \/ Counts(rows[t], cd) => Used(cd)' <= Used(cd)
      BY <2>1, <2>6, OneRowWritten
    <2>8. Counts(new, cd) /\ ~Counts(rows[t], cd)
      BY <1>1, <2>1, <2>7
    <2>9. ASSUME cd = call[c].countDev, max # Unlimited PROVE Used(cd)' <= max
      <3>1. HasRoom(c)
        BY <2>6, <2>8, <2>9
      <3>2. Used(cd) < max
        BY <2>5, <2>9, <3>1 DEF HasRoom
      <3>3. max \in Nat
        BY <2>5, <2>9, LimitsAreNumbers DEF Max
      <3> QED BY <2>1, <2>7, <3>2, <3>3
    <2> QED BY <2>5, <2>9
  <1>2. ActInv /\ [Next]_vars => [Within]_vars
    BY <1>1
  <1> QED BY <1>2, ActInvariant, PTL DEF Spec, NoSlotBeyondLimit
===============================================================================
