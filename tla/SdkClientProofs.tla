---------------------------- MODULE SdkClientProofs ----------------------------
(***************************************************************************)
(* Proofs about the license client, for any number of keys, overlapping    *)
(* calls and installations, any facts and terms.                           *)
(***************************************************************************)
EXTENDS SdkClient, TLAPS

\* An envelope about k and i; a yes in it is no younger than the server's last.
About(e, k, i) ==
    /\ e \in Envelope
    /\ e.key = k /\ e.instance = i
    /\ e.valid => lastYes[<<k, i>>] <= e.age

Good(e, k, i) == About(e, k, i) /\ e.valid

RecordOK(r) ==
    r # None =>
        /\ r \in Record
        /\ r.instanceId \in Own
        /\ r.answer # None => About(r.answer, r.licenseKey, r.instanceId)
        /\ r.lastGood # None => Good(r.lastGood, r.licenseKey, r.instanceId)

CallOK(v) ==
    /\ v \in Call
    /\ v.at # "idle" => v.instance \in Own /\ v.what # "none"
    /\ v.what = "activate" \/ v.at \in {"asking", "checked", "answered"} => v.key \in Keys
    /\ v.lastGood # None => Good(v.lastGood, v.key, v.instance)
    /\ v.reply # None => About(v.reply, v.key, v.instance)
    /\ v.at = "answered" /\ v.what # "deactivate" => v.reply # None

SdkInv ==
    /\ TypeOK
    /\ RecordOK(record)
    /\ \A c \in Calls : CallOK(call[c])

\* What YesIsRecent asks of a report.
Recent(report) ==
    report.valid =>
        /\ report.source = "cache" => SaidYesWithin(report.key, Interval)
        /\ report.source = "offline" => SaidYesWithin(report.key, Grace)

-----------------------------------------------------------------------------
(* Typing. *)

LEMMA NoCallOK == CallOK(NoCall) /\ CallOK(NoCall)' /\ NoCall \in Call
    BY DEF CallOK, NoCall, Call

LEMMA NewRecordOK == ASSUME NEW i \in Own PROVE RecordOK(NewRecord(i))
    BY OwnAssumption DEF RecordOK, NewRecord, Record

LEMMA CallTyped ==
    ASSUME NEW v, CallOK(v)
    PROVE  /\ v \in Call
           /\ v.what \in {"none", "activate", "validate", "deactivate"}
           /\ v.key \in Keys \cup {None} /\ v.instance \in Instances \cup {None}
           /\ v.lastGood \in Envelope \cup {None} /\ v.reply \in Envelope \cup {None}
    BY DEF CallOK, Call

LEMMA RecordTyped ==
    ASSUME NEW r, RecordOK(r), r # None
    PROVE  /\ r \in Record
           /\ r.licenseKey \in Keys \cup {None} /\ r.instanceId \in Own
           /\ r.answer \in Envelope \cup {None} /\ r.lastGood \in Envelope \cup {None}
    BY DEF RecordOK, Record

LEMMA LastYesTyped ==
    ASSUME TypeOK, NEW k \in Keys, NEW i \in Instances
    PROVE  lastYes[<<k, i>>] \in Ages
    BY DEF TypeOK

LEMMA OldestTyped == Oldest \in Nat /\ Oldest \in Ages /\ 0 \in Ages
    BY AgesAssumption DEF Oldest, Longer, Ages

LEMMA AgesTyped == ASSUME NEW a \in Ages PROVE a \in Nat /\ a <= Oldest /\ Older(a) \in Ages
    BY OldestTyped DEF Ages, Older

-----------------------------------------------------------------------------
(* Frames. *)

\* As long as the clock stands still, what is known of the server stays true.
NoOlder == \A k \in Keys, i \in Instances : lastYes'[<<k, i>>] <= lastYes[<<k, i>>]

LEMMA StillAbout ==
    ASSUME TypeOK, TypeOK', NoOlder, NEW e, NEW k, NEW i, About(e, k, i)
    PROVE  About(e, k, i)'
    <1>1. e \in Envelope /\ e.key = k /\ e.instance = i
        BY DEF About
    <1>2. k \in Keys /\ i \in Instances /\ e.age \in Nat /\ e.valid \in BOOLEAN
        BY <1>1, AgesTyped DEF Envelope
    <1>3. lastYes[<<k, i>>] \in Nat /\ lastYes'[<<k, i>>] \in Nat
        BY <1>2, LastYesTyped, AgesTyped DEF TypeOK
    <1>4. lastYes'[<<k, i>>] <= lastYes[<<k, i>>]
        BY <1>2 DEF NoOlder
    <1> HIDE DEF NoOlder
    <1>5. e.valid => lastYes'[<<k, i>>] <= e.age
        BY <1>2, <1>3, <1>4 DEF About
    <1> QED BY <1>1, <1>5 DEF About

LEMMA StillCall ==
    ASSUME TypeOK, TypeOK', NoOlder, NEW v, CallOK(v) PROVE CallOK(v)'
    BY StillAbout DEF CallOK, Good

LEMMA StillRecord ==
    ASSUME TypeOK, TypeOK', NoOlder, NEW r, RecordOK(r) PROVE RecordOK(r)'
    BY StillAbout DEF RecordOK, Good

LEMMA SameYes == ASSUME SdkInv, UNCHANGED lastYes PROVE NoOlder
    <1> SUFFICES ASSUME NEW k \in Keys, NEW i \in Instances
                 PROVE  lastYes'[<<k, i>>] <= lastYes[<<k, i>>]
        BY DEF NoOlder
    <1>1. lastYes[<<k, i>>] \in Nat
        BY LastYesTyped, AgesTyped DEF SdkInv
    <1>2. lastYes'[<<k, i>>] = lastYes[<<k, i>>]
        OBVIOUS
    <1> QED BY <1>1, <1>2

\* One call becomes new, the others stay.
LEMMA CallBecomes ==
    ASSUME SdkInv, NoOlder, NEW c \in Calls, NEW new, CallOK(new)', call' = [call EXCEPT ![c] = new],
           license' \in [Keys -> Facts], active' \in [Keys -> SUBSET Instances],
           lastYes' \in [Keys \X Instances -> Ages], record' \in Record \cup {None}, state' \in State
    PROVE  TypeOK' /\ \A d \in Calls : CallOK(call[d])'
    <1>1. new \in Call
        BY DEF CallOK
    <1>2. call \in [Calls -> Call] /\ TypeOK
        BY DEF SdkInv, TypeOK
    <1>3. call' \in [Calls -> Call] /\ \A d \in Calls : call'[d] = IF d = c THEN new ELSE call[d]
        BY <1>1, <1>2
    <1>4. TypeOK'
        BY <1>2, <1>3 DEF TypeOK
    <1>5. \A d \in Calls : d # c => CallOK(call[d])'
        <2> SUFFICES ASSUME NEW d \in Calls, d # c PROVE CallOK(call[d])'
            OBVIOUS
        <2>1. CallOK(call[d])
            BY DEF SdkInv
        <2> DEFINE v == call[d]
        <2>2. call'[d] = v
            BY <1>3
        <2>3. CallOK(v)
            BY <2>1
        <2> HIDE DEF v
        <2>4. ASSUME NEW CONSTANT w, CallOK(w) PROVE CallOK(w)'
            BY <1>2, <1>4, <2>4, StillCall
        <2> QED BY <2>2, <2>3, <2>4
    <1> QED BY <1>3, <1>4, <1>5

-----------------------------------------------------------------------------
(* The values a call takes. *)

Asking(what, k, i, g) == [NoCall EXCEPT !.what = what, !.at = "asking", !.key = k,
                                        !.instance = i, !.lastGood = g]

LEMMA AskingTyped ==
    ASSUME NEW what \in {"activate", "validate", "deactivate"}, NEW k \in Keys, NEW i \in Instances,
           NEW g \in Envelope \cup {None}
    PROVE  LET new == Asking(what, k, i, g)
           IN  /\ new \in Call /\ new.what = what /\ new.at = "asking" /\ new.key = k
               /\ new.instance = i /\ new.lastGood = g /\ new.reply = None
    <1> DEFINE m1 == [NoCall EXCEPT !.what = what]
               m2 == [m1 EXCEPT !.at = "asking"]
               m3 == [m2 EXCEPT !.key = k]
               m4 == [m3 EXCEPT !.instance = i]
               m5 == [m4 EXCEPT !.lastGood = g]
    <1>1. m5 = Asking(what, k, i, g)
        BY DEF Asking
    <1>2. m1 \in Call /\ m1.what = what /\ m1.reply = None
        BY NoCallOK DEF Call, NoCall
    <1> HIDE DEF m1
    <1>3. m2 \in Call /\ m2.what = what /\ m2.reply = None /\ m2.at = "asking"
        BY <1>2 DEF Call
    <1> HIDE DEF m2
    <1>4. m3 \in Call /\ m3.what = what /\ m3.reply = None /\ m3.at = "asking" /\ m3.key = k
        BY <1>3 DEF Call
    <1> HIDE DEF m3
    <1>5. /\ m4 \in Call /\ m4.what = what /\ m4.reply = None /\ m4.at = "asking" /\ m4.key = k
          /\ m4.instance = i
        BY <1>4 DEF Call
    <1> HIDE DEF m4
    <1>6. /\ m5 \in Call /\ m5.what = what /\ m5.reply = None /\ m5.at = "asking" /\ m5.key = k
          /\ m5.instance = i /\ m5.lastGood = g
        BY <1>5 DEF Call
    <1> HIDE DEF m5
    <1> QED BY <1>1, <1>6

Creating(what, k, force, i) == [NoCall EXCEPT !.what = what, !.at = "creating", !.key = k,
                                              !.force = force, !.instance = i]

LEMMA CreatingTyped ==
    ASSUME NEW what \in {"activate", "validate", "deactivate"}, NEW k \in Keys \cup {None},
           NEW force \in BOOLEAN, NEW i \in Instances
    PROVE  LET new == Creating(what, k, force, i)
           IN  /\ new \in Call /\ new.what = what /\ new.at = "creating" /\ new.key = k
               /\ new.instance = i /\ new.lastGood = None /\ new.reply = None
    <1> DEFINE m1 == [NoCall EXCEPT !.what = what]
               m2 == [m1 EXCEPT !.at = "creating"]
               m3 == [m2 EXCEPT !.key = k]
               m4 == [m3 EXCEPT !.force = force]
               m5 == [m4 EXCEPT !.instance = i]
    <1>1. m5 = Creating(what, k, force, i)
        BY DEF Creating
    <1>2. m1 \in Call /\ m1.what = what /\ m1.reply = None /\ m1.lastGood = None
        BY NoCallOK DEF Call, NoCall
    <1> HIDE DEF m1
    <1>3. m2 \in Call /\ m2.what = what /\ m2.reply = None /\ m2.lastGood = None /\ m2.at = "creating"
        BY <1>2 DEF Call
    <1> HIDE DEF m2
    <1>4. /\ m3 \in Call /\ m3.what = what /\ m3.reply = None /\ m3.lastGood = None
          /\ m3.at = "creating" /\ m3.key = k
        BY <1>3 DEF Call
    <1> HIDE DEF m3
    <1>5. /\ m4 \in Call /\ m4.what = what /\ m4.reply = None /\ m4.lastGood = None
          /\ m4.at = "creating" /\ m4.key = k
        BY <1>4, Zenon DEF Call
    <1> HIDE DEF m4
    <1>6. /\ m5 \in Call /\ m5.what = what /\ m5.reply = None /\ m5.lastGood = None
          /\ m5.at = "creating" /\ m5.key = k /\ m5.instance = i
        BY <1>5 DEF Call
    <1> HIDE DEF m5
    <1> QED BY <1>1, <1>6

Answered(v, reply) == [v EXCEPT !.at = "answered", !.reply = reply]

LEMMA AnsweredTyped ==
    ASSUME NEW v \in Call, NEW reply \in Envelope \cup {None}
    PROVE  LET new == Answered(v, reply)
           IN  /\ new \in Call /\ new.what = v.what /\ new.at = "answered" /\ new.key = v.key
               /\ new.instance = v.instance /\ new.lastGood = v.lastGood /\ new.reply = reply
    <1> DEFINE m1 == [v EXCEPT !.at = "answered"]
               m2 == [m1 EXCEPT !.reply = reply]
    <1>1. m2 = Answered(v, reply)
        BY DEF Answered
    <1>2. /\ m1 \in Call /\ m1.what = v.what /\ m1.at = "answered" /\ m1.key = v.key
          /\ m1.instance = v.instance /\ m1.lastGood = v.lastGood
        BY DEF Call
    <1> HIDE DEF m1
    <1>3. /\ m2 \in Call /\ m2.what = v.what /\ m2.at = "answered" /\ m2.key = v.key
          /\ m2.instance = v.instance /\ m2.lastGood = v.lastGood /\ m2.reply = reply
        BY <1>2 DEF Call
    <1> HIDE DEF m2
    <1> QED BY <1>1, <1>3

LEMMA ReportTyped ==
    ASSUME NEW e \in Envelope, NEW source \in {"network", "cache", "offline"}
    PROVE  StateFrom(e, source) \in State /\ No(source) \in State /\ No("none") \in State
    BY DEF StateFrom, No, State, Envelope

\* A call that asks on the record it has.
LEMMA AskingOK ==
    ASSUME SdkInv, NEW c \in Calls, NEW what \in {"activate", "validate", "deactivate"},
           NEW k \in Keys, NEW i \in Own, NEW g \in Envelope \cup {None},
           g # None => Good(g, k, i),
           UNCHANGED <<server, state>>, RecordOK(record)',
           call' = [call EXCEPT ![c] = [NoCall EXCEPT !.what = what, !.at = "asking", !.key = k,
                                                      !.instance = i, !.lastGood = g]]
    PROVE  SdkInv'
    <1> DEFINE new == [NoCall EXCEPT !.what = what, !.at = "asking", !.key = k,
                                     !.instance = i, !.lastGood = g]
    <1>1. /\ new \in Call /\ new.what = what /\ new.at = "asking" /\ new.key = k
          /\ new.instance = i /\ new.lastGood = g /\ new.reply = None
        <2>1. i \in Instances
            BY OwnAssumption
        <2>2. new = Asking(what, k, i, g)
            BY DEF Asking
        <2> HIDE DEF new
        <2> QED BY <2>1, <2>2, AskingTyped
    <1>2. call' = [call EXCEPT ![c] = new]
        OBVIOUS
    <1> HIDE DEF new
    <1>3. Good(g, k, i) => Good(g, k, i)'
        BY DEF Good, About, server
    <1>4. CallOK(new)'
        BY <1>1, <1>3 DEF CallOK
    <1>5. NoOlder
        BY SameYes DEF server
    <1>6. license' \in [Keys -> Facts] /\ active' \in [Keys -> SUBSET Instances] /\ lastYes' \in [Keys \X Instances -> Ages] /\ state' \in State
        BY DEF server, SdkInv, TypeOK
    <1>7. record' \in Record \cup {None}
        BY DEF RecordOK
    <1>8. TypeOK' /\ \A d \in Calls : CallOK(call[d])'
        BY <1>2, <1>4, <1>5, <1>6, <1>7, CallBecomes
    <1> QED BY <1>8 DEF SdkInv

\* A call that ends.
LEMMA EndOK ==
    ASSUME SdkInv, NEW c \in Calls, call' = [call EXCEPT ![c] = NoCall],
           UNCHANGED server, RecordOK(record)', state' \in State
    PROVE  SdkInv'
    <1>1. NoOlder
        BY SameYes DEF server
    <1>2. license' \in [Keys -> Facts] /\ active' \in [Keys -> SUBSET Instances] /\ lastYes' \in [Keys \X Instances -> Ages]
        BY DEF server, SdkInv, TypeOK
    <1>3. record' \in Record \cup {None}
        BY DEF RecordOK
    <1>4. TypeOK' /\ \A d \in Calls : CallOK(call[d])'
        BY <1>1, <1>2, <1>3, NoCallOK, CallBecomes
    <1> QED BY <1>4 DEF SdkInv

LEMMA SameRecord ==
    ASSUME SdkInv, UNCHANGED <<server, record>> PROVE RecordOK(record)'
    BY DEF SdkInv, RecordOK, Good, About, server

-----------------------------------------------------------------------------
(* Every step keeps the invariant and reports a recent yes. *)

LEMMA InitStep == Init => SdkInv
    <1> SUFFICES ASSUME Init PROVE SdkInv
        OBVIOUS
    <1>1. call \in [Calls -> Call] /\ \A c \in Calls : CallOK(call[c])
        BY NoCallOK DEF Init
    <1>2. lastYes \in [Keys \X Instances -> Ages]
        BY OldestTyped DEF Init
    <1>3. state \in State
        BY DEF Init, State, No
    <1>4. active \in [Keys -> SUBSET Instances]
        BY DEF Init
    <1>5. RecordOK(record)
        BY DEF Init, RecordOK
    <1> QED BY <1>1, <1>2, <1>3, <1>4, <1>5 DEF SdkInv, TypeOK, Init

LEMMA BeginStep ==
    ASSUME SdkInv, NEW c \in Calls, NEW what \in {"activate", "validate", "deactivate"},
           NEW key \in Keys \cup {None}, what = "activate" => key \in Keys, NEW force \in BOOLEAN,
           Begin(c, what, key, force)
    PROVE  SdkInv' /\ (state' = state \/ Recent(state'))
    <1> DEFINE k == IF what = "activate" THEN key ELSE record.licenseKey
               cached == what = "validate" /\ ~force /\ record.answer # None
    <1>1. UNCHANGED <<server, record>> /\ record # None /\ Has(c, what, key, force, record)
        BY DEF Begin
    <1>2. /\ record \in Record
          /\ record.licenseKey \in Keys \cup {None} /\ record.instanceId \in Own
          /\ record.answer \in Envelope \cup {None} /\ record.lastGood \in Envelope \cup {None}
        BY <1>1, RecordTyped DEF SdkInv
    <1>3. RecordOK(record)'
        BY <1>1, SameRecord
    <1>4. state \in State
        BY DEF SdkInv, TypeOK
    <1>5. CASE k = None /\ call' = [call EXCEPT ![c] = NoCall]
               /\ state' = IF what = "validate" THEN No("none") ELSE state
        <2>1. state' \in State /\ (state' = state \/ Recent(state'))
            BY <1>4, <1>5 DEF No, State, Recent
        <2> QED BY <1>1, <1>3, <1>5, <2>1, EndOK
    <1>6. CASE k # None /\ cached /\ Fresh(record.answer) /\ call' = [call EXCEPT ![c] = NoCall]
               /\ state' = StateFrom(record.answer, "cache")
        <2> DEFINE e == record.answer
        <2>1. e \in Envelope
            BY <1>2, <1>6
        <2>2. state' \in State
            BY <1>6, <2>1, ReportTyped
        <2>3. Recent(state')
            <3>1. CASE e.valid
                <4>1. About(e, record.licenseKey, record.instanceId)
                    BY <1>1, <1>6 DEF SdkInv, RecordOK
                <4>2. lastYes[<<e.key, e.instance>>] <= e.age /\ e.instance \in Own
                    BY <1>2, <3>1, <4>1 DEF About
                <4>3. e.age < Interval /\ e.age \in Nat /\ e.key \in Keys /\ Interval \in Nat
                    BY <1>6, <2>1, <3>1, AgesAssumption, AgesTyped DEF Fresh, Envelope
                <4>4. lastYes[<<e.key, e.instance>>] \in Nat
                    BY <4>2, <4>3, OwnAssumption, LastYesTyped, AgesTyped DEF SdkInv
                <4>5. lastYes[<<e.key, e.instance>>] < Interval
                    BY <4>2, <4>3, <4>4
                <4>6. state'.key = e.key /\ state'.source = "cache"
                    BY <1>6, <3>1 DEF StateFrom
                <4> QED BY <4>2, <4>5, <4>6 DEF Recent, SaidYesWithin
            <3>2. CASE ~e.valid
                BY <1>6, <3>2 DEF StateFrom, No, Recent
            <3> QED BY <3>1, <3>2
        <2> QED BY <1>1, <1>3, <1>6, <2>2, <2>3, EndOK
    <1>7. CASE k # None
               /\ call' = [call EXCEPT ![c] = [NoCall EXCEPT !.what = what, !.at = "asking", !.key = k,
                                                              !.instance = record.instanceId,
                                !.lastGood = IF what = "validate" THEN record.lastGood ELSE None]]
               /\ UNCHANGED state
        <2> DEFINE i == record.instanceId
                   g == IF what = "validate" THEN record.lastGood ELSE None
        <2>1. k \in Keys /\ i \in Own /\ g \in Envelope \cup {None}
            BY <1>2, <1>7
        <2>2. g # None => Good(g, k, i)
            BY <1>1 DEF SdkInv, RecordOK
        <2>3. UNCHANGED <<server, state>>
            BY <1>1, <1>7
        <2>4. call' = [call EXCEPT ![c] = [NoCall EXCEPT !.what = what, !.at = "asking", !.key = k,
                                                         !.instance = i, !.lastGood = g]]
            BY <1>7
        <2> HIDE DEF k, i, g
        <2>5. SdkInv'
            BY <1>3, <2>1, <2>2, <2>3, <2>4, AskingOK
        <2> QED BY <1>7, <2>5
    <1> QED BY <1>1, <1>5, <1>6, <1>7 DEF Has

LEMMA BeginFirstStep ==
    ASSUME SdkInv, NEW c \in Calls, NEW what \in {"activate", "validate", "deactivate"},
           NEW key \in Keys \cup {None}, what = "activate" => key \in Keys, NEW force \in BOOLEAN,
           BeginFirst(c, what, key, force)
    PROVE  SdkInv' /\ state' = state
    <1>1. PICK i \in Own : call' = [call EXCEPT ![c] =
              [NoCall EXCEPT !.what = what, !.at = "creating", !.key = key, !.force = force,
                             !.instance = i]]
        BY DEF BeginFirst
    <1> DEFINE new == [NoCall EXCEPT !.what = what, !.at = "creating", !.key = key, !.force = force,
                                     !.instance = i]
    <1>2. /\ new \in Call /\ new.what = what /\ new.at = "creating" /\ new.key = key
          /\ new.instance = i /\ new.lastGood = None /\ new.reply = None
        <2>1. i \in Instances
            BY OwnAssumption
        <2>2. new = Creating(what, key, force, i)
            BY DEF Creating
        <2> HIDE DEF new
        <2> QED BY <2>1, <2>2, CreatingTyped
    <1>3. call' = [call EXCEPT ![c] = new]
        BY <1>1
    <1> HIDE DEF new
    <1>4. CallOK(new)'
        BY <1>2 DEF CallOK
    <1>5. UNCHANGED <<server, record, state>>
        BY DEF BeginFirst
    <1>6. NoOlder
        BY <1>5, SameYes DEF server
    <1>7. /\ license' \in [Keys -> Facts] /\ active' \in [Keys -> SUBSET Instances] /\ lastYes' \in [Keys \X Instances -> Ages] /\ state' \in State
          /\ record' \in Record \cup {None}
        BY <1>5 DEF server, SdkInv, TypeOK
    <1>8. TypeOK' /\ \A d \in Calls : CallOK(call[d])'
        BY <1>3, <1>4, <1>6, <1>7, CallBecomes
    <1> QED BY <1>5, <1>8, SameRecord DEF SdkInv

LEMMA CreateStep ==
    ASSUME SdkInv, NEW c \in Calls, Create(c)
    PROVE  SdkInv' /\ (state' = state \/ Recent(state'))
    <1> DEFINE v == call[c]
               i == v.instance
               r == NewRecord(i)
    <1>1. UNCHANGED server /\ record' = r /\ Has(c, v.what, v.key, v.force, r) /\ v.at = "creating"
        BY DEF Create
    <1>2. CallOK(v)
        BY DEF SdkInv
    <1>3. i \in Own /\ v.what \in {"activate", "validate", "deactivate"}
          /\ (v.what = "activate" => v.key \in Keys)
        BY <1>1, <1>2, CallTyped DEF CallOK
    <1>4. r.licenseKey = None /\ r.instanceId = i /\ r.answer = None /\ r.lastGood = None
        BY DEF NewRecord
    <1>5. RecordOK(record)'
        <2>1. r \in Record
            BY <1>3, OwnAssumption DEF NewRecord, Record
        <2> QED BY <1>1, <1>3, <1>4, <2>1 DEF RecordOK
    <1>6. state \in State
        BY DEF SdkInv, TypeOK
    <1>7. \/ /\ call' = [call EXCEPT ![c] = NoCall]
             /\ state' = IF v.what = "validate" THEN No("none") ELSE state
          \/ /\ v.what = "activate"
             /\ call' = [call EXCEPT ![c] = [NoCall EXCEPT !.what = "activate", !.at = "asking",
                                             !.key = v.key, !.instance = i, !.lastGood = None]]
             /\ UNCHANGED state
        BY <1>1, <1>3, <1>4 DEF Has
    <1>8. CASE call' = [call EXCEPT ![c] = NoCall] /\ state' = IF v.what = "validate" THEN No("none") ELSE state
        <2>1. state' \in State /\ (state' = state \/ Recent(state'))
            BY <1>6, <1>8 DEF No, State, Recent
        <2> QED BY <1>1, <1>5, <1>8, <2>1, EndOK
    <1>9. CASE /\ v.what = "activate"
               /\ call' = [call EXCEPT ![c] = [NoCall EXCEPT !.what = "activate", !.at = "asking",
                                               !.key = v.key, !.instance = i, !.lastGood = None]]
               /\ UNCHANGED state
        <2> DEFINE k == v.key
        <2>1. k \in Keys
            BY <1>3, <1>9
        <2>2. call' = [call EXCEPT ![c] = [NoCall EXCEPT !.what = "activate", !.at = "asking",
                                               !.key = k, !.instance = i, !.lastGood = None]]
            BY <1>9
        <2>3. UNCHANGED <<server, state>> /\ i \in Own
            BY <1>1, <1>3, <1>9
        <2> HIDE DEF k, i, r
        <2>4. SdkInv'
            BY <1>5, <2>1, <2>2, <2>3, AskingOK
        <2> QED BY <1>9, <2>4
    <1> QED BY <1>7, <1>8, <1>9

LEMMA AnswerOK ==
    ASSUME SdkInv, NEW c \in Calls, NEW valid \in BOOLEAN, NEW reply \in Envelope \cup {None},
           call[c].at \in {"asking", "checked"}, Answer(c, valid, reply), active' \in [Keys -> SUBSET Instances],
           reply # None => reply = Says(c, valid),
           reply = None => call[c].what = "deactivate" /\ ~valid
    PROVE  SdkInv' /\ state' = state
    <1>0. PICK v : v = call[c]
        OBVIOUS
    <1> DEFINE k == v.key
               i == v.instance
               p == <<k, i>>
    <1>00. PICK new : new = Answered(v, reply)
        OBVIOUS
    <1>1. call' = [call EXCEPT ![c] = new] /\ UNCHANGED <<license, record, state>>
        BY <1>0, <1>00 DEF Answer, Answered
    <1>2. CallOK(v) /\ v.at \in {"asking", "checked"} /\ TypeOK
        BY <1>0 DEF SdkInv
    <1>3. v \in Call /\ v.what # "none" /\ k \in Keys /\ i \in Own /\ i \in Instances
        BY <1>2, OwnAssumption DEF CallOK
    <1>4. lastYes' = IF valid THEN [lastYes EXCEPT ![p] = 0] ELSE lastYes
        BY <1>0 DEF Answer
    <1>5. lastYes \in [Keys \X Instances -> Ages] /\ p \in Keys \X Instances
        BY <1>2, <1>3 DEF TypeOK
    <1>6. /\ new \in Call /\ new.what = v.what /\ new.at = "answered" /\ new.key = k
          /\ new.instance = i /\ new.lastGood = v.lastGood /\ new.reply = reply
        BY <1>00, <1>3, AnsweredTyped
    <1>7. reply # None => reply.key = k /\ reply.instance = i /\ reply.valid = valid /\ reply.age = 0
        BY <1>0 DEF Says
    <1>8. (reply = None => v.what = "deactivate" /\ ~valid) /\ (v.lastGood # None => Good(v.lastGood, k, i))
        BY <1>0, <1>2 DEF CallOK
    <1> HIDE DEF p
    <1>9. lastYes' \in [Keys \X Instances -> Ages] /\ (valid => lastYes'[p] = 0)
        BY <1>4, <1>5, OldestTyped
    <1>10. NoOlder
        <2> SUFFICES ASSUME NEW kk \in Keys, NEW ii \in Instances
                     PROVE  lastYes'[<<kk, ii>>] <= lastYes[<<kk, ii>>]
            BY DEF NoOlder
        <2>1. lastYes[<<kk, ii>>] \in Nat
            BY <1>2, LastYesTyped, AgesTyped
        <2>2. lastYes'[<<kk, ii>>] = 0 \/ lastYes'[<<kk, ii>>] = lastYes[<<kk, ii>>]
            BY <1>4, <1>5
        <2> QED BY <2>1, <2>2
    <1>11. license' \in [Keys -> Facts] /\ record' \in Record \cup {None} /\ state' \in State
        BY <1>1, <1>2 DEF TypeOK
    <1>12. TypeOK'
        BY <1>1, <1>2, <1>6, <1>9, <1>11 DEF TypeOK
    <1> DEFINE g == v.lastGood
    <1>13. g # None => Good(g, k, i)'
        <2>1. g # None => Good(g, k, i)
            BY <1>8
        <2>2. ASSUME NEW CONSTANT a, NEW CONSTANT b, NEW CONSTANT d, Good(a, b, d) PROVE Good(a, b, d)'
            BY <1>2, <1>10, <1>12, <2>2, StillAbout DEF Good
        <2> HIDE DEF g, k, i
        <2> QED BY <2>1, <2>2
    <1>14. reply # None => About(reply, k, i)'
        BY <1>7, <1>9 DEF About, p
    <1>15. CallOK(new)'
        BY <1>3, <1>6, <1>8, <1>13, <1>14 DEF CallOK
    <1>16. RecordOK(record)'
        <2>1. RecordOK(record)
            BY DEF SdkInv
        <2>2. ASSUME NEW CONSTANT r, RecordOK(r) PROVE RecordOK(r)'
            BY <1>2, <1>10, <1>12, <2>2, StillRecord
        <2> QED BY <1>1, <2>1, <2>2
    <1>17. TypeOK' /\ \A d \in Calls : CallOK(call[d])'
        BY <1>1, <1>9, <1>10, <1>11, <1>15, CallBecomes
    <1> QED BY <1>1, <1>16, <1>17 DEF SdkInv

LEMMA SaysTyped ==
    ASSUME SdkInv, NEW c \in Calls, call[c].at \in {"asking", "checked"}, NEW valid \in BOOLEAN
    PROVE  Says(c, valid) \in Envelope /\ Says(c, valid) # None /\ call[c].key \in Keys
           /\ call[c].instance \in Instances
    <1>1. CallOK(call[c])
        BY DEF SdkInv
    <1>2. call[c].key \in Keys /\ call[c].instance \in Instances
        BY <1>1, OwnAssumption DEF CallOK
    <1> QED BY <1>2, OldestTyped, EnvelopeAssumption DEF Says, Envelope

LEMMA CheckStep ==
    ASSUME SdkInv, NEW c \in Calls, CheckActivate(c) PROVE SdkInv' /\ state' = state
    <1>0. PICK v : v = call[c]
        OBVIOUS
    <1>00. PICK new : new = [v EXCEPT !.at = "checked"]
        OBVIOUS
    <1>1. /\ v.at = "asking" /\ call' = [call EXCEPT ![c] = new]
          /\ UNCHANGED <<server, record, state>>
        BY <1>0, <1>00 DEF CheckActivate, Asks
    <1>2. CallOK(v)
        BY <1>0 DEF SdkInv
    <1>3. /\ new \in Call /\ new.what = v.what /\ new.at = "checked" /\ new.key = v.key
          /\ new.instance = v.instance /\ new.lastGood = v.lastGood /\ new.reply = v.reply
        BY <1>00, <1>2 DEF CallOK, Call
    <1>4. CallOK(new)
        BY <1>1, <1>2, <1>3 DEF CallOK
    <1>5. /\ license' \in [Keys -> Facts] /\ active' \in [Keys -> SUBSET Instances]
          /\ lastYes' \in [Keys \X Instances -> Ages] /\ record' \in Record \cup {None}
          /\ state' \in State
        BY <1>1 DEF SdkInv, TypeOK, server
    <1>6. lastYes' = lastYes
        BY <1>1 DEF server
    <1>7. NoOlder
        BY <1>6, SameYes
    <1>8. CallOK(new)'
        BY <1>4, <1>6 DEF CallOK, Good, About
    <1>9. TypeOK' /\ \A d \in Calls : CallOK(call[d])'
        BY <1>1, <1>5, <1>7, <1>8, CallBecomes
    <1> QED BY <1>1, <1>9, SameRecord DEF SdkInv

LEMMA ServerStep ==
    ASSUME SdkInv, NEW c \in Calls, Server(c) PROVE SdkInv' /\ state' = state
    <1> DEFINE k == call[c].key
               i == call[c].instance
    <1>1. active \in [Keys -> SUBSET Instances]
        BY DEF SdkInv, TypeOK
    <1>2. CASE ServeActivate(c)
        <2> DEFINE granted == HasSlot(k, i)
        <2>1. /\ call[c].at = "checked" /\ Answer(c, granted, Says(c, granted))
              /\ active' = IF granted THEN [active EXCEPT ![k] = @ \cup {i}] ELSE active
            BY <1>2 DEF ServeActivate
        <2>2. granted \in BOOLEAN
            BY DEF HasSlot
        <2> HIDE DEF granted
        <2>3. k \in Keys /\ i \in Instances /\ Says(c, granted) \in Envelope /\ Says(c, granted) # None
            BY <2>1, <2>2, SaysTyped
        <2>4. active' \in [Keys -> SUBSET Instances]
            BY <1>1, <2>1, <2>3
        <2> QED BY <2>1, <2>2, <2>3, <2>4, AnswerOK
    <1>5. CASE RefuseActivate(c)
        <2>1. call[c].at = "asking" /\ Answer(c, FALSE, Says(c, FALSE)) /\ active' = active
            BY <1>5 DEF RefuseActivate, Asks
        <2>2. Says(c, FALSE) \in Envelope /\ Says(c, FALSE) # None
            BY <2>1, SaysTyped
        <2> QED BY <1>1, <2>1, <2>2, AnswerOK
    <1>3. CASE ServeValidate(c)
        <2> DEFINE valid == EvaluateLicense(license[k], TRUE, i \in active[k]) = "ok"
        <2>1. call[c].at = "asking" /\ Answer(c, valid, Says(c, valid)) /\ active' = active
            BY <1>3 DEF ServeValidate, Asks
        <2>2. valid \in BOOLEAN
            OBVIOUS
        <2> HIDE DEF valid
        <2>3. Says(c, valid) \in Envelope /\ Says(c, valid) # None
            BY <2>1, <2>2, SaysTyped
        <2> QED BY <1>1, <2>1, <2>2, <2>3, AnswerOK
    <1>4. CASE ServeDeactivate(c)
        <2>1. /\ call[c].at = "asking" /\ call[c].what = "deactivate" /\ Answer(c, FALSE, None)
              /\ active' = [active EXCEPT ![k] = @ \ {i}]
            BY <1>4 DEF ServeDeactivate, Asks
        <2>2. active' \in [Keys -> SUBSET Instances]
            BY <1>1, <2>1
        <2> QED BY <2>1, <2>2, AnswerOK
    <1> QED BY <1>2, <1>3, <1>4, <1>5, CheckStep DEF Server

-----------------------------------------------------------------------------
(* What the client does with an answer, or without one. *)

LEMMA SavesOK ==
    ASSUME SdkInv, NEW c \in Calls, NEW k \in Keys \cup {None},
           NEW a \in Envelope \cup {None}, NEW g \in Envelope \cup {None}, call[c].instance \in Own,
           a # None => About(a, k, call[c].instance), g # None => Good(g, k, call[c].instance),
           Saves(c, k, a, g), state' \in State
    PROVE  SdkInv'
    <1> DEFINE i == call[c].instance
               r == [licenseKey |-> k, instanceId |-> i, answer |-> a, lastGood |-> g]
    <1>1. record' = r /\ call' = [call EXCEPT ![c] = NoCall] /\ UNCHANGED server
        BY DEF Saves
    <1>2. r \in Record /\ r.licenseKey = k /\ r.instanceId = i /\ r.answer = a /\ r.lastGood = g
        BY OwnAssumption DEF Record
    <1> HIDE DEF r
    <1>3. lastYes' = lastYes
        BY <1>1 DEF server
    <1>4. /\ a # None => /\ a \in Envelope /\ a.key = k /\ a.instance = i
                         /\ a.valid => lastYes'[<<k, i>>] <= a.age
          /\ g # None => /\ g \in Envelope /\ g.key = k /\ g.instance = i /\ g.valid
                         /\ lastYes'[<<k, i>>] <= g.age
        BY <1>3 DEF About, Good
    <1>5. RecordOK(record)'
        BY <1>1, <1>2, <1>4 DEF RecordOK, About, Good
    <1> QED BY <1>1, <1>5, EndOK

LEMMA HeardTyped ==
    ASSUME SdkInv, NEW c \in Calls, call[c].at \in {"asking", "checked", "answered"}
    PROVE  LET v == call[c]
           IN  /\ v.key \in Keys /\ v.instance \in Own
               /\ v.lastGood \in Envelope \cup {None} /\ v.reply \in Envelope \cup {None}
               /\ v.lastGood # None => Good(v.lastGood, v.key, v.instance)
               /\ v.reply # None => About(v.reply, v.key, v.instance)
               /\ v.at = "answered" /\ v.what # "deactivate" => v.reply \in Envelope
    <1> DEFINE v == call[c]
    <1>1. CallOK(v)
        BY DEF SdkInv
    <1> QED BY <1>1, CallTyped DEF CallOK

LEMMA NetworkReport ==
    ASSUME NEW e \in Envelope PROVE StateFrom(e, "network") \in State /\ Recent(StateFrom(e, "network"))
    BY ReportTyped DEF StateFrom, No, Recent

LEMMA ActivatedStep ==
    ASSUME SdkInv, NEW c \in Calls, Activated(c) PROVE SdkInv' /\ Recent(state')
    <1> DEFINE v == call[c]
    <1>1. v.at = "answered" /\ v.what = "activate" /\ v.reply.valid
          /\ Saves(c, v.key, v.reply, v.reply) /\ state' = StateFrom(v.reply, "network")
        BY DEF Activated, Hears
    <1>2. /\ v.key \in Keys /\ v.instance \in Own /\ v.reply \in Envelope
          /\ v.reply # None => About(v.reply, v.key, v.instance)
        BY <1>1, HeardTyped
    <1>3. v.reply # None => Good(v.reply, v.key, v.instance)
        BY <1>1, <1>2 DEF Good
    <1>4. state' \in State /\ Recent(StateFrom(v.reply, "network"))
        BY <1>1, <1>2, NetworkReport
    <1>5. SdkInv'
        BY <1>1, <1>2, <1>3, <1>4, SavesOK
    <1> QED BY <1>1, <1>4, <1>5

LEMMA RefusedStep ==
    ASSUME SdkInv, NEW c \in Calls, Refused(c) PROVE SdkInv' /\ Recent(state')
    <1> DEFINE e == call[c].reply
    <1>1. /\ call[c].at = "answered" /\ call[c].what = "activate" /\ state' = StateFrom(e, "network")
          /\ call' = [call EXCEPT ![c] = NoCall] /\ UNCHANGED <<server, record>>
        BY DEF Refused, Hears
    <1>2. e \in Envelope
        BY <1>1, HeardTyped
    <1>3. state' \in State /\ Recent(StateFrom(e, "network"))
        BY <1>1, <1>2, NetworkReport
    <1>4. SdkInv'
        BY <1>1, <1>3, SameRecord, EndOK
    <1> QED BY <1>1, <1>3, <1>4

LEMMA ActivateThrowsStep ==
    ASSUME SdkInv, NEW c \in Calls, ActivateThrows(c) PROVE SdkInv' /\ state' = state
    <1>1. call' = [call EXCEPT ![c] = NoCall] /\ UNCHANGED <<server, record, state>>
        BY DEF ActivateThrows
    <1>2. state' \in State
        BY <1>1 DEF SdkInv, TypeOK
    <1>3. SdkInv'
        BY <1>1, <1>2, SameRecord, EndOK
    <1> QED BY <1>1, <1>3

LEMMA ValidatedStep ==
    ASSUME SdkInv, NEW c \in Calls, Validated(c) PROVE SdkInv' /\ Recent(state')
    <1> DEFINE v == call[c]
               g == IF v.reply.valid THEN v.reply ELSE v.lastGood
    <1>1. /\ v.at = "answered" /\ v.what = "validate" /\ Saves(c, v.key, v.reply, g)
          /\ state' = StateFrom(v.reply, "network")
        BY DEF Validated, Hears
    <1>2. /\ v.key \in Keys /\ v.instance \in Own /\ v.reply \in Envelope
          /\ v.lastGood \in Envelope \cup {None}
          /\ v.lastGood # None => Good(v.lastGood, v.key, v.instance)
          /\ v.reply # None => About(v.reply, v.key, v.instance)
        BY <1>1, HeardTyped
    <1>3. g \in Envelope \cup {None} /\ (g # None => Good(g, v.key, v.instance))
        BY <1>2, EnvelopeAssumption DEF Good
    <1>4. state' \in State /\ Recent(StateFrom(v.reply, "network"))
        BY <1>1, <1>2, NetworkReport
    <1> HIDE DEF g
    <1>5. SdkInv'
        BY <1>1, <1>2, <1>3, <1>4, SavesOK
    <1> QED BY <1>1, <1>4, <1>5

LEMMA OfflineStep ==
    ASSUME SdkInv, NEW c \in Calls, Offline(c) PROVE SdkInv' /\ Recent(state')
    <1> DEFINE v == call[c]
               g == v.lastGood
    <1>1. /\ v.at \in {"asking", "checked", "answered"}
          /\ state' = IF Stands(g) THEN StateFrom(g, "offline") ELSE No("offline")
          /\ call' = [call EXCEPT ![c] = NoCall] /\ UNCHANGED <<server, record>>
        BY DEF Offline, Unheard
    <1>2. v.instance \in Own /\ g \in Envelope \cup {None} /\ (g # None => Good(g, v.key, v.instance))
        BY <1>1, HeardTyped
    <1>3. CASE Stands(g)
        <2>1. /\ g \in Envelope /\ g.age < Grace /\ g.valid /\ g.instance \in Own
              /\ lastYes[<<g.key, g.instance>>] <= g.age
            BY <1>2, <1>3 DEF Stands, Good, About
        <2>2. state' = StateFrom(g, "offline") /\ state' \in State /\ state'.key = g.key
              /\ state'.source = "offline"
            BY <1>1, <1>3, <2>1, ReportTyped DEF StateFrom
        <2>3. g.key \in Keys /\ g.instance \in Instances /\ g.age \in Nat /\ Grace \in Nat
            BY <2>1, AgesAssumption, AgesTyped DEF Envelope
        <2>4. lastYes[<<g.key, g.instance>>] \in Nat
            BY <2>3, LastYesTyped, AgesTyped DEF SdkInv
        <2>5. lastYes[<<g.key, g.instance>>] < Grace
            BY <2>1, <2>3, <2>4
        <2>6. Recent(state')
            BY <2>1, <2>2, <2>5 DEF Recent, SaidYesWithin
        <2> QED BY <1>1, <2>2, <2>6, SameRecord, EndOK
    <1>4. CASE ~Stands(g)
        <2>1. state' \in State /\ Recent(state')
            BY <1>1, <1>4 DEF No, State, Recent
        <2> QED BY <1>1, <2>1, SameRecord, EndOK
    <1> QED BY <1>3, <1>4

LEMMA ForgetStep ==
    ASSUME SdkInv, NEW c \in Calls, Forget(c) PROVE SdkInv' /\ Recent(state')
    <1>1. call[c].at \in {"asking", "checked", "answered"} /\ Saves(c, None, None, None) /\ state' = No("none")
        BY DEF Forget, Unheard
    <1>2. call[c].instance \in Own
        BY <1>1, HeardTyped
    <1>3. state' \in State /\ Recent(state')
        BY <1>1 DEF No, State, Recent
    <1>4. SdkInv'
        BY <1>1, <1>2, <1>3, SavesOK
    <1> QED BY <1>3, <1>4

-----------------------------------------------------------------------------
(* The vendor, the other installations, and the clock. *)

LEMMA VendorStep ==
    ASSUME SdkInv, UNCHANGED <<lastYes, record, call, state>>,
           license' \in [Keys -> Facts], active' \in [Keys -> SUBSET Instances]
    PROVE  SdkInv'
    <1>1. TypeOK'
        BY DEF SdkInv, TypeOK
    <1>2. RecordOK(record)'
        BY DEF SdkInv, RecordOK, Good, About
    <1>3. \A c \in Calls : CallOK(call[c])'
        BY DEF SdkInv, CallOK, Good, About
    <1> QED BY <1>1, <1>2, <1>3 DEF SdkInv

LEMMA ChangeLicenseStep ==
    ASSUME SdkInv, NEW k \in Keys, ChangeLicense(k) PROVE SdkInv' /\ state' = state
    <1>1. PICK facts \in Facts : license' = [license EXCEPT ![k] = facts]
        BY DEF ChangeLicense
    <1>2. license' \in [Keys -> Facts] /\ active' \in [Keys -> SUBSET Instances]
        BY <1>1 DEF ChangeLicense, SdkInv, TypeOK
    <1> QED BY <1>2, VendorStep DEF ChangeLicense

LEMMA ElsewhereStep ==
    ASSUME SdkInv, NEW k \in Keys, Elsewhere(k) PROVE SdkInv' /\ state' = state
    <1>1. PICK i \in Instances \ Own : \/ active' = [active EXCEPT ![k] = @ \cup {i}]
                                     \/ active' = [active EXCEPT ![k] = @ \ {i}]
        BY DEF Elsewhere
    <1>2. license' \in [Keys -> Facts] /\ active' \in [Keys -> SUBSET Instances]
        BY <1>1 DEF Elsewhere, SdkInv, TypeOK
    <1> QED BY <1>2, VendorStep DEF Elsewhere

\* An envelope that ages is about the same key and installation.
LEMMA AgedTyped ==
    ASSUME NEW e \in Envelope \cup {None}
    PROVE  LET f == Aged(e)
           IN  /\ f \in Envelope \cup {None} /\ (f = None) = (e = None)
               /\ e # None => f.key = e.key /\ f.instance = e.instance /\ f.valid = e.valid
                              /\ f.age = Older(e.age)
    <1>1. CASE e = None
        BY <1>1 DEF Aged
    <1>2. CASE e # None
        <2>1. e.age \in Ages
            BY <1>2 DEF Envelope
        <2>2. Older(e.age) \in Ages
            BY <2>1, AgesTyped
        <2> DEFINE f == [e EXCEPT !.age = Older(e.age)]
        <2>3. f \in Envelope /\ f.key = e.key /\ f.instance = e.instance /\ f.valid = e.valid
              /\ f.age = Older(e.age)
            BY <1>2, <2>2 DEF Envelope
        <2>4. Aged(e) = f
            BY <1>2 DEF Aged
        <2> QED BY <1>2, <2>3, <2>4, EnvelopeAssumption
    <1> QED BY <1>1, <1>2

LEMMA OlderKeepsOrder ==
    ASSUME NEW a \in Ages, NEW b \in Ages, a <= b PROVE Older(a) <= Older(b)
    BY OldestTyped DEF Ages, Older

LEMMA AgedAbout ==
    ASSUME SdkInv, Tick, NEW e, NEW k, NEW i, About(e, k, i) PROVE About(Aged(e), k, i)'
    <1> DEFINE f == Aged(e)
    <1>1. e \in Envelope /\ e.key = k /\ e.instance = i /\ (e.valid => lastYes[<<k, i>>] <= e.age)
        BY DEF About
    <1>2. f \in Envelope /\ f.key = k /\ f.instance = i /\ f.valid = e.valid /\ f.age = Older(e.age)
        BY <1>1, AgedTyped, EnvelopeAssumption
    <1>3. k \in Keys /\ i \in Instances /\ e.age \in Ages
        BY <1>1 DEF Envelope
    <1>4. lastYes[<<k, i>>] \in Ages
        BY <1>3, LastYesTyped DEF SdkInv
    <1>5. lastYes'[<<k, i>>] = Older(lastYes[<<k, i>>])
        BY <1>3 DEF Tick, SdkInv, TypeOK
    <1>6. f.valid => lastYes'[<<k, i>>] <= f.age
        BY <1>1, <1>2, <1>3, <1>4, <1>5, OlderKeepsOrder
    <1> HIDE DEF f
    <1>7. About(f, k, i)'
        BY <1>2, <1>6 DEF About
    <1> QED BY <1>7 DEF f

LEMMA AgedGood ==
    ASSUME SdkInv, Tick, NEW e, NEW k, NEW i, Good(e, k, i) PROVE Good(Aged(e), k, i)'
    <1>1. About(e, k, i) /\ e.valid /\ e \in Envelope
        BY DEF Good, About
    <1>2. About(Aged(e), k, i)'
        BY <1>1, AgedAbout
    <1>3. Aged(e).valid
        BY <1>1, AgedTyped, EnvelopeAssumption
    <1> QED BY <1>2, <1>3 DEF Good

\* A call, and a record, as time passes over them.
AgedCall(v) == [v EXCEPT !.lastGood = Aged(@), !.reply = Aged(@)]
AgedRecord(r) == [r EXCEPT !.answer = Aged(@), !.lastGood = Aged(@)]

LEMMA AgedCallTyped ==
    ASSUME NEW v \in Call
    PROVE  LET new == AgedCall(v)
           IN  /\ new \in Call /\ new.what = v.what /\ new.at = v.at /\ new.key = v.key
               /\ new.instance = v.instance /\ new.lastGood = Aged(v.lastGood)
               /\ new.reply = Aged(v.reply)
    <1>1. v.lastGood \in Envelope \cup {None} /\ v.reply \in Envelope \cup {None}
        BY DEF Call
    <1> DEFINE g == Aged(v.lastGood)
               a == Aged(v.reply)
    <1>2. g \in Envelope \cup {None} /\ a \in Envelope \cup {None}
        BY <1>1, AgedTyped
    <1> DEFINE m1 == [v EXCEPT !.lastGood = g]
               m2 == [m1 EXCEPT !.reply = a]
    <1>3. m1.reply = v.reply
        BY DEF Call
    <1>4. m2 = AgedCall(v)
        BY <1>3 DEF AgedCall
    <1> HIDE DEF g, a
    <1>5. /\ m1 \in Call /\ m1.what = v.what /\ m1.at = v.at /\ m1.key = v.key
          /\ m1.instance = v.instance /\ m1.lastGood = g
        BY <1>2 DEF Call
    <1> HIDE DEF m1
    <1>6. /\ m2 \in Call /\ m2.what = v.what /\ m2.at = v.at /\ m2.key = v.key
          /\ m2.instance = v.instance /\ m2.lastGood = g /\ m2.reply = a
        BY <1>2, <1>5 DEF Call
    <1> HIDE DEF m2
    <1> QED BY <1>4, <1>6 DEF g, a

LEMMA AgedRecordTyped ==
    ASSUME NEW r \in Record
    PROVE  LET new == AgedRecord(r)
           IN  /\ new \in Record /\ new.licenseKey = r.licenseKey /\ new.instanceId = r.instanceId
               /\ new.answer = Aged(r.answer) /\ new.lastGood = Aged(r.lastGood)
    <1>1. r.lastGood \in Envelope \cup {None} /\ r.answer \in Envelope \cup {None}
        BY DEF Record
    <1> DEFINE g == Aged(r.lastGood)
               a == Aged(r.answer)
    <1>2. g \in Envelope \cup {None} /\ a \in Envelope \cup {None}
        BY <1>1, AgedTyped
    <1> DEFINE m1 == [r EXCEPT !.answer = a]
               m2 == [m1 EXCEPT !.lastGood = g]
    <1>3. m1.lastGood = r.lastGood
        BY DEF Record
    <1>4. m2 = AgedRecord(r)
        BY <1>3 DEF AgedRecord
    <1> HIDE DEF g, a
    <1>5. /\ m1 \in Record /\ m1.licenseKey = r.licenseKey /\ m1.instanceId = r.instanceId
          /\ m1.answer = a
        BY <1>2 DEF Record
    <1> HIDE DEF m1
    <1>6. /\ m2 \in Record /\ m2.licenseKey = r.licenseKey /\ m2.instanceId = r.instanceId
          /\ m2.answer = a /\ m2.lastGood = g
        BY <1>2, <1>5 DEF Record
    <1> HIDE DEF m2
    <1> QED BY <1>4, <1>6 DEF g, a

LEMMA AgedCallOK ==
    ASSUME SdkInv, Tick, NEW v, CallOK(v), NEW new, new = AgedCall(v) PROVE CallOK(new)'
    <1>1. /\ new \in Call /\ new.what = v.what /\ new.at = v.at /\ new.key = v.key
          /\ new.instance = v.instance /\ new.lastGood = Aged(v.lastGood)
          /\ new.reply = Aged(v.reply)
        BY AgedCallTyped DEF CallOK
    <1>2. /\ v.lastGood \in Envelope \cup {None} /\ v.reply \in Envelope \cup {None}
        BY CallTyped
    <1>3. (new.lastGood = None) = (v.lastGood = None) /\ (new.reply = None) = (v.reply = None)
        BY <1>1, <1>2, AgedTyped
    <1>4. new.lastGood # None => Good(new.lastGood, new.key, new.instance)'
        <2> SUFFICES ASSUME new.lastGood # None
                     PROVE  Good(new.lastGood, new.key, new.instance)'
            OBVIOUS
        <2>1. Good(v.lastGood, v.key, v.instance)
            BY <1>3 DEF CallOK
        <2>2. Good(Aged(v.lastGood), v.key, v.instance)'
            BY <2>1, AgedGood
        <2> QED BY <1>1, <2>2
    <1>5. new.reply # None => About(new.reply, new.key, new.instance)'
        <2> SUFFICES ASSUME new.reply # None
                     PROVE  About(new.reply, new.key, new.instance)'
            OBVIOUS
        <2>1. About(v.reply, v.key, v.instance)
            BY <1>3 DEF CallOK
        <2>2. About(Aged(v.reply), v.key, v.instance)'
            BY <2>1, AgedAbout
        <2> QED BY <1>1, <2>2
    <1> QED BY <1>1, <1>3, <1>4, <1>5 DEF CallOK

LEMMA AgedRecordOK ==
    ASSUME SdkInv, Tick, NEW r \in Record, RecordOK(r), r # None, NEW new, new = AgedRecord(r)
    PROVE  RecordOK(new)' /\ new \in Record
    <1>1. /\ new \in Record /\ new.licenseKey = r.licenseKey /\ new.instanceId = r.instanceId
          /\ new.answer = Aged(r.answer) /\ new.lastGood = Aged(r.lastGood)
        BY AgedRecordTyped
    <1>2. /\ r.answer \in Envelope \cup {None} /\ r.lastGood \in Envelope \cup {None}
          /\ r.instanceId \in Own
        BY RecordTyped
    <1>3. (new.lastGood = None) = (r.lastGood = None) /\ (new.answer = None) = (r.answer = None)
        BY <1>1, <1>2, AgedTyped
    <1>4. new.lastGood # None => Good(new.lastGood, new.licenseKey, new.instanceId)'
        <2> SUFFICES ASSUME new.lastGood # None
                     PROVE  Good(new.lastGood, new.licenseKey, new.instanceId)'
            OBVIOUS
        <2>1. Good(r.lastGood, r.licenseKey, r.instanceId)
            BY <1>3 DEF RecordOK
        <2>2. Good(Aged(r.lastGood), r.licenseKey, r.instanceId)'
            BY <2>1, AgedGood
        <2> QED BY <1>1, <2>2
    <1>5. new.answer # None => About(new.answer, new.licenseKey, new.instanceId)'
        <2> SUFFICES ASSUME new.answer # None
                     PROVE  About(new.answer, new.licenseKey, new.instanceId)'
            OBVIOUS
        <2>1. About(r.answer, r.licenseKey, r.instanceId)
            BY <1>3 DEF RecordOK
        <2>2. About(Aged(r.answer), r.licenseKey, r.instanceId)'
            BY <2>1, AgedAbout
        <2> QED BY <1>1, <2>2
    <1> QED BY <1>1, <1>2, <1>4, <1>5 DEF RecordOK

LEMMA TickStep == ASSUME SdkInv, Tick PROVE SdkInv' /\ state' = state
    <1>1. /\ lastYes' = [p \in DOMAIN lastYes |-> Older(lastYes[p])]
          /\ record' = IF record = None THEN None ELSE AgedRecord(record)
          /\ call' = [c \in Calls |-> AgedCall(call[c])]
          /\ UNCHANGED <<license, active, state>>
        BY DEF Tick, AgedRecord, AgedCall
    <1>2. TypeOK /\ lastYes \in [Keys \X Instances -> Ages]
        BY DEF SdkInv, TypeOK
    <1>3. lastYes' \in [Keys \X Instances -> Ages]
        BY <1>1, <1>2, AgesTyped
    <1>4. \A c \in Calls : CallOK(call[c])' /\ call'[c] \in Call
        <2> SUFFICES ASSUME NEW c \in Calls PROVE CallOK(call[c])' /\ call'[c] \in Call
            OBVIOUS
        <2>1. PICK v : v = call[c]
            OBVIOUS
        <2>2. PICK new : new = AgedCall(v)
            OBVIOUS
        <2>3. CallOK(v)
            BY <2>1 DEF SdkInv
        <2>4. call'[c] = new
            BY <1>1, <2>1, <2>2
        <2>5. CallOK(new)'
            BY <2>2, <2>3, AgedCallOK
        <2>6. new \in Call
            BY <2>2, <2>3, CallTyped, AgedCallTyped
        <2> QED BY <2>4, <2>5, <2>6
    <1>5. call' \in [Calls -> Call]
        BY <1>1, <1>4
    <1>6. RecordOK(record)' /\ record' \in Record \cup {None}
        <2>1. CASE record = None
            BY <1>1, <2>1 DEF RecordOK
        <2>2. CASE record # None
            <3>1. PICK r : r = record
                OBVIOUS
            <3>2. PICK new : new = AgedRecord(r)
                OBVIOUS
            <3>3. RecordOK(r) /\ r # None /\ r \in Record
                BY <2>2, <3>1 DEF SdkInv, TypeOK
            <3>4. record' = new
                BY <1>1, <2>2, <3>1, <3>2
            <3>5. RecordOK(new)' /\ new \in Record
                BY <3>2, <3>3, AgedRecordOK
            <3> QED BY <3>4, <3>5
        <2> QED BY <2>1, <2>2
    <1>7. TypeOK'
        BY <1>1, <1>2, <1>3, <1>5, <1>6 DEF TypeOK
    <1> QED BY <1>1, <1>4, <1>6, <1>7 DEF SdkInv

-----------------------------------------------------------------------------
(* The theorems. *)

LEMMA MethodStep ==
    ASSUME SdkInv, NEW c \in Calls, Method(c) PROVE SdkInv' /\ (state' = state \/ Recent(state'))
    <1>1. CASE \E k \in Keys : Begin(c, "activate", k, FALSE) \/ BeginFirst(c, "activate", k, FALSE)
        BY <1>1, BeginStep, BeginFirstStep
    <1>2. CASE \E force \in BOOLEAN : Begin(c, "validate", None, force) \/ BeginFirst(c, "validate", None, force)
        BY <1>2, BeginStep, BeginFirstStep
    <1>3. CASE Begin(c, "deactivate", None, FALSE) \/ BeginFirst(c, "deactivate", None, FALSE)
        BY <1>3, BeginStep, BeginFirstStep
    <1> QED BY <1>1, <1>2, <1>3 DEF Method

LEMMA NextStep ==
    ASSUME SdkInv, Next PROVE SdkInv' /\ (state' = state \/ Recent(state'))
    <1>1. ASSUME NEW c \in Calls, Goes(c) PROVE SdkInv' /\ (state' = state \/ Recent(state'))
        BY <1>1, CreateStep, ActivatedStep, RefusedStep, ActivateThrowsStep, ValidatedStep, OfflineStep,
           ForgetStep DEF Goes
    <1> QED BY <1>1, MethodStep, ServerStep, ChangeLicenseStep, ElsewhereStep, TickStep DEF Next

LEMMA StutterStep == ASSUME SdkInv, UNCHANGED vars PROVE SdkInv'
    <1>1. UNCHANGED <<lastYes, record, call, state, license, active>>
        BY DEF vars, server
    <1>2. license' \in [Keys -> Facts] /\ active' \in [Keys -> SUBSET Instances]
        BY <1>1 DEF SdkInv, TypeOK
    <1> QED BY <1>1, <1>2, VendorStep

\* What the client remembers and what it is about to save never claims a
\* younger yes than the server's (client.ts, all methods).
THEOREM Invariant == Spec => []SdkInv
    <1>1. SdkInv /\ [Next]_vars => SdkInv'
        BY NextStep, StutterStep
    <1> QED BY InitStep, <1>1, PTL DEF Spec

\* Every value keeps its type.
THEOREM SdkTypes == Spec => []TypeOK
    <1>1. SdkInv => TypeOK
        BY DEF SdkInv
    <1> QED BY <1>1, Invariant, PTL

\* The stored record is of one piece, whatever overlaps.
THEOREM OnePiece == Spec => []RecordOfOnePiece
    <1>1. SdkInv => RecordOfOnePiece
        BY DEF SdkInv, RecordOfOnePiece, RecordOK, Good, About
    <1> QED BY <1>1, Invariant, PTL

\* A license is called valid without asking only on a yes of the server's that
\* is within the term of the answer used, whatever the terms of the product are.
THEOREM YesWithinTerm == Spec => YesIsRecent
    <1>1. SdkInv /\ [Next]_vars =>
              [state' # state /\ state'.valid =>
                  /\ state'.source = "cache" => SaidYesWithin(state'.key, Interval)
                  /\ state'.source = "offline" => SaidYesWithin(state'.key, Grace)]_vars
        BY NextStep DEF Recent
    <1> QED BY <1>1, Invariant, PTL DEF Spec, YesIsRecent
=============================================================================
