------------------------------- MODULE SdkClient -------------------------------
(***************************************************************************)
(* The license client that ships inside the sold software                  *)
(* (sdk/js/src/client.ts and its twin sdk/php/src/Client.php), on one      *)
(* installation, against the license API                                   *)
(* (controllers/api/v1/license_controller.ts, licensing/validation.ts).    *)
(*                                                                         *)
(* The client keeps one record in its storage.  Every method loads it,     *)
(* asks the server, and saves a record built from what it loaded; methods  *)
(* overlap (promises in a browser, requests of a PHP site), and the server *)
(* is reached, answers, and is heard of in separate steps or not at all.   *)
(* Ages run on one clock and are capped at the longest of the three terms, *)
(* after which nothing tells them apart.                                   *)
(***************************************************************************)
EXTENDS Integers, FiniteSets

CONSTANTS
    Keys,           \* license keys of the product
    Own,            \* instance ids it may go by: one, where the options name it
    Instances,      \* those, and the ids of the customer's other installations
    Facts,          \* what a license may be: subset of LicenseFacts
    MaxActivations, \* slots of a license
    Interval,       \* validation_interval_hours
    InvalidFor,     \* invalidCacheMinutes
    Grace,          \* offline_grace_days
    Calls,          \* method calls that overlap
    None

LicenseFacts == [status : {"active", "suspended", "revoked"}, expired : BOOLEAN,
                 subscription : {"none", "trialing", "active", "past_due", "paused", "canceled", "expired"}]

ASSUME OwnAssumption == Own \subseteq Instances
ASSUME FactsAssumption == Facts \subseteq LicenseFacts
ASSUME NoneAssumption == None \notin Keys \cup Instances \cup Calls
\* The terms of a product are independent of each other (validators/catalog.ts).
ASSUME AgesAssumption ==
    {Interval, MaxActivations} \subseteq Nat \ {0} /\ {InvalidFor, Grace} \subseteq Nat

VARIABLES
    license,        \* the server: the facts of each license
    active,         \* the server: instances activated on each license
    record,         \* the client's storage, or None before the first use
    call,           \* calls under way
    state,          \* the last state reported
    lastYes         \* how long ago the server last said yes, per key and instance

server == <<license, active, lastYes>>
vars == <<server, record, call, state>>

Longer(a, b) == IF a < b THEN b ELSE a
Oldest == Longer(Interval, Longer(InvalidFor, Grace))
Ages == 0..Oldest
Envelope == [key : Keys, instance : Instances, valid : BOOLEAN, age : Ages]
ASSUME EnvelopeAssumption == None \notin Envelope
Record == [licenseKey : Keys \cup {None}, instanceId : Instances,
           answer : Envelope \cup {None}, lastGood : Envelope \cup {None}]
Call == [what : {"none", "activate", "validate", "deactivate"},
         at : {"idle", "creating", "asking", "checked", "answered"},
         key : Keys \cup {None},                \* the key that was typed, or loaded
         force : BOOLEAN,
         instance : Instances \cup {None},      \* of the loaded record what is still
         lastGood : Envelope \cup {None},       \* to be saved or asked
         reply : Envelope \cup {None}]

\* A report: whose yes it is, or a no; source "none" where there is no key.
State == [valid : BOOLEAN, source : {"none", "network", "cache", "offline"}, key : Keys \cup {None}]

NoCall == [what |-> "none", at |-> "idle", key |-> None, force |-> FALSE,
           instance |-> None, lastGood |-> None, reply |-> None]
No(source) == [valid |-> FALSE, source |-> source, key |-> None]
NewRecord(i) == [licenseKey |-> None, instanceId |-> i, answer |-> None, lastGood |-> None]

TypeOK ==
    /\ license \in [Keys -> Facts]
    /\ active \in [Keys -> SUBSET Instances]
    /\ lastYes \in [Keys \X Instances -> Ages]
    /\ record \in Record \cup {None}
    /\ call \in [Calls -> Call]
    /\ state \in State

Init ==
    /\ license \in [Keys -> Facts]
    /\ active = [k \in Keys |-> {}]
    /\ lastYes = [p \in Keys \X Instances |-> Oldest]
    /\ record = None
    /\ call = [c \in Calls |-> NoCall]
    /\ state = No("none")

-----------------------------------------------------------------------------
(* The server's answers. *)

Keeping == {"trialing", "active", "past_due"}

\* evaluateLicense, the checks in the code's order.
EvaluateLicense(facts, requireActivation, isActivated) ==
    CASE facts.status = "revoked" -> "license_revoked"
      [] facts.status = "suspended" -> "license_suspended"
      [] facts.status = "active" /\ facts.expired -> "license_expired"
      [] facts.status = "active" /\ ~facts.expired /\ facts.subscription \notin Keeping \cup {"none"}
            -> "subscription_inactive"
      [] OTHER -> IF requireActivation /\ ~isActivated THEN "not_activated" ELSE "ok"

\* ActivationService.activate: idempotent per instance, bounded by the limit.
HasSlot(k, i) == i \in active[k] \/ Cardinality(active[k]) < MaxActivations

Says(c, valid) ==
    [key |-> call[c].key, instance |-> call[c].instance, valid |-> valid, age |-> 0]

Answer(c, valid, reply) ==
    /\ call' = [call EXCEPT ![c].at = "answered", ![c].reply = reply]
    /\ lastYes' = IF valid
                  THEN [lastYes EXCEPT ![<<call[c].key, call[c].instance>>] = 0]
                  ELSE lastYes
    /\ UNCHANGED <<license, record, state>>

Asks(c, what) == call[c].at = "asking" /\ call[c].what = what

\* The license is looked at first, and its slots in a transaction of their own:
\* what the license has become in between nobody asks.
CheckActivate(c) ==
    /\ Asks(c, "activate")
    /\ EvaluateLicense(license[call[c].key], FALSE, FALSE) = "ok"
    /\ call' = [call EXCEPT ![c].at = "checked"]
    /\ UNCHANGED <<server, record, state>>

RefuseActivate(c) ==
    /\ Asks(c, "activate")
    /\ EvaluateLicense(license[call[c].key], FALSE, FALSE) # "ok"
    /\ Answer(c, FALSE, Says(c, FALSE))
    /\ UNCHANGED active

ServeActivate(c) ==
    LET k == call[c].key
        i == call[c].instance
    IN  /\ call[c].at = "checked"
        /\ active' = IF HasSlot(k, i) THEN [active EXCEPT ![k] = @ \cup {i}] ELSE active
        /\ Answer(c, HasSlot(k, i), Says(c, HasSlot(k, i)))

ServeValidate(c) ==
    LET k == call[c].key
        valid == EvaluateLicense(license[k], TRUE, call[c].instance \in active[k]) = "ok"
    IN  /\ Asks(c, "validate")
        /\ Answer(c, valid, Says(c, valid))
        /\ UNCHANGED active

\* Works whatever the license's state.
ServeDeactivate(c) ==
    /\ Asks(c, "deactivate")
    /\ active' = [active EXCEPT ![call[c].key] = @ \ {call[c].instance}]
    /\ Answer(c, FALSE, None)

\* Any answer may never arrive, or not be one the client trusts.
Unheard(c) == call[c].at \in {"asking", "checked", "answered"}

-----------------------------------------------------------------------------
(* The client. *)

Fresh(envelope) == envelope.age < (IF envelope.valid THEN Interval ELSE InvalidFor)

StateFrom(envelope, source) ==
    IF envelope.valid THEN [valid |-> TRUE, source |-> source, key |-> envelope.key] ELSE No(source)

\* A call has the record: it answers by itself, or asks.
Has(c, what, key, force, rec) ==
    LET k == IF what = "activate" THEN key ELSE rec.licenseKey
        cached == what = "validate" /\ ~force /\ rec.answer # None
    IN  \/ /\ k = None
           /\ call' = [call EXCEPT ![c] = NoCall]
           /\ state' = IF what = "validate" THEN No("none") ELSE state
        \/ /\ k # None /\ cached /\ Fresh(rec.answer)
           /\ call' = [call EXCEPT ![c] = NoCall]
           /\ state' = StateFrom(rec.answer, "cache")
        \/ /\ k # None /\ ~(cached /\ Fresh(rec.answer))
           /\ call' = [call EXCEPT ![c] = [NoCall EXCEPT !.what = what, !.at = "asking", !.key = k,
                                                         !.instance = rec.instanceId,
                                 !.lastGood = IF what = "validate" THEN rec.lastGood ELSE None]]
           /\ UNCHANGED state

Begin(c, what, key, force) ==
    /\ call[c].at = "idle"
    /\ record # None
    /\ Has(c, what, key, force, record)
    /\ UNCHANGED <<server, record>>

\* The first use finds no record and makes one, with an id of its own.
BeginFirst(c, what, key, force) ==
    /\ call[c].at = "idle"
    /\ record = None
    /\ \E i \in Own :
        /\ call' = [call EXCEPT ![c] =
              [NoCall EXCEPT !.what = what, !.at = "creating", !.key = key, !.force = force,
                             !.instance = i]]
    /\ UNCHANGED <<server, record, state>>

Create(c) ==
    /\ call[c].at = "creating"
    /\ record' = NewRecord(call[c].instance)
    /\ Has(c, call[c].what, call[c].key, call[c].force, NewRecord(call[c].instance))
    /\ UNCHANGED server

\* What is saved is built from what was loaded, whatever is stored by now.
Saves(c, licenseKey, answer, lastGood) ==
    /\ record' = [licenseKey |-> licenseKey, instanceId |-> call[c].instance,
                  answer |-> answer, lastGood |-> lastGood]
    /\ call' = [call EXCEPT ![c] = NoCall]
    /\ UNCHANGED server

Hears(c, what) == call[c].at = "answered" /\ call[c].what = what

\* Mutant of Activated: the last good answer in the storage is kept.
ActivatedKeeps(c) ==
    /\ Hears(c, "activate")
    /\ call[c].reply.valid
    /\ Saves(c, call[c].key, call[c].reply,
             IF record.lastGood = None THEN call[c].reply ELSE record.lastGood)
    /\ state' = StateFrom(call[c].reply, "network")

Activated(c) ==
    /\ Hears(c, "activate")
    /\ call[c].reply.valid
    /\ Saves(c, call[c].key, call[c].reply, call[c].reply)
    /\ state' = StateFrom(call[c].reply, "network")

\* A refusal is reported and not remembered.
Refused(c) ==
    /\ Hears(c, "activate")
    /\ ~call[c].reply.valid
    /\ state' = StateFrom(call[c].reply, "network")
    /\ call' = [call EXCEPT ![c] = NoCall]
    /\ UNCHANGED <<server, record>>

\* activate throws: nothing is saved and nothing reported.
ActivateThrows(c) ==
    /\ Unheard(c) /\ call[c].what = "activate"
    /\ call' = [call EXCEPT ![c] = NoCall]
    /\ UNCHANGED <<server, record, state>>

Validated(c) ==
    LET r == call[c].reply
    IN  /\ Hears(c, "validate")
        /\ Saves(c, call[c].key, r, IF r.valid THEN r ELSE call[c].lastGood)
        /\ state' = StateFrom(r, "network")

\* Mutant of Stands: the grace period is compared with the wrong sign.
StandsLate(envelope) == envelope # None /\ envelope.age <= Grace

\* The last good answer stands while it is younger than the grace period.
Stands(envelope) == envelope # None /\ envelope.age < Grace

Offline(c) ==
    /\ Unheard(c) /\ call[c].what = "validate"
    /\ state' = IF Stands(call[c].lastGood)
                THEN StateFrom(call[c].lastGood, "offline")
                ELSE No("offline")
    /\ call' = [call EXCEPT ![c] = NoCall]
    /\ UNCHANGED <<server, record>>

\* The key is forgotten whether or not the server was heard.
Forget(c) ==
    /\ Unheard(c) /\ call[c].what = "deactivate"
    /\ Saves(c, None, None, None)
    /\ state' = No("none")

-----------------------------------------------------------------------------
(* The vendor, and the clock. *)

\* A revocation is final.
ChangeLicense(k) ==
    /\ license[k].status # "revoked"
    /\ \E facts \in Facts : license' = [license EXCEPT ![k] = facts]
    /\ UNCHANGED <<active, lastYes, record, call, state>>

\* Another installation of the customer's takes a slot or frees it.
Elsewhere(k) ==
    /\ \E i \in Instances \ Own :
        \/ HasSlot(k, i) /\ active' = [active EXCEPT ![k] = @ \cup {i}]
        \/ active' = [active EXCEPT ![k] = @ \ {i}]
    /\ UNCHANGED <<license, lastYes, record, call, state>>

Older(age) == IF age < Oldest THEN age + 1 ELSE age
Aged(envelope) == IF envelope = None THEN None ELSE [envelope EXCEPT !.age = Older(@)]

Tick ==
    /\ lastYes' = [p \in DOMAIN lastYes |-> Older(lastYes[p])]
    /\ record' = IF record = None THEN None
                 ELSE [record EXCEPT !.answer = Aged(@), !.lastGood = Aged(@)]
    /\ call' = [c \in Calls |-> [call[c] EXCEPT !.lastGood = Aged(@), !.reply = Aged(@)]]
    /\ UNCHANGED <<license, active, state>>

-----------------------------------------------------------------------------
Method(c) == \/ \E k \in Keys : Begin(c, "activate", k, FALSE) \/ BeginFirst(c, "activate", k, FALSE)
             \/ \E force \in BOOLEAN : Begin(c, "validate", None, force) \/ BeginFirst(c, "validate", None, force)
             \/ Begin(c, "deactivate", None, FALSE) \/ BeginFirst(c, "deactivate", None, FALSE)

Server(c) == \/ CheckActivate(c) \/ RefuseActivate(c) \/ ServeActivate(c)
             \/ ServeValidate(c) \/ ServeDeactivate(c)

Goes(c) == \/ Create(c) \/ Activated(c) \/ Refused(c) \/ ActivateThrows(c)
           \/ Validated(c) \/ Offline(c) \/ Forget(c)

Next ==
    \/ \E c \in Calls : Method(c) \/ Server(c) \/ Goes(c)
    \/ \E k \in Keys : ChangeLicense(k) \/ Elsewhere(k)
    \/ Tick

Spec == Init /\ [][Next]_vars

-----------------------------------------------------------------------------
(* Properties. *)

\* However calls overlap, the stored record is of one piece: its answers are
\* about the key and the installation it names, and its last good answer is a
\* yes (client.ts, activate and validate).
RecordOfOnePiece ==
    record # None =>
        \A e \in {record.answer, record.lastGood} \ {None} :
            /\ e.key = record.licenseKey /\ e.instance = record.instanceId
            /\ e = record.lastGood => e.valid

SaidYesWithin(key, term) == \E i \in Own : lastYes[<<key, i>>] < term

\* A license is called valid without asking only while the server's own last
\* yes, to that key and an installation id of this client's, is younger than the
\* term of the answer that is used: the interval for a cached one, the grace
\* period for one given offline - revoked licenses, second keys, answers that
\* overtake each other and any terms included (client.ts:83-92, validate and
\* #offline).
YesIsRecent ==
    [][state' # state /\ state'.valid =>
          /\ state'.source = "cache" => SaidYesWithin(state'.key, Interval)
          /\ state'.source = "offline" => SaidYesWithin(state'.key, Grace)]_vars
=============================================================================
