-------------------------------- MODULE Storage --------------------------------
(***************************************************************************)
(* The files of one account: the object in the bucket, the row that owns   *)
(* it and the account's counter storage_used_bytes                         *)
(* (storage/file_service.ts), the logo that replaces an earlier one        *)
(* (controllers/settings/organization_controller.ts) and the nightly purge *)
(* of what was deleted a month ago (queue/jobs/purge_deleted_files_job.ts).*)
(*                                                                         *)
(* Bucket and database are two systems: between two of their steps a       *)
(* process may die, and a call to the bucket may fail.  The counter moves  *)
(* under the lock on the account's row.                                    *)
(***************************************************************************)
EXTENDS Faults, FiniteSetsExt

CONSTANTS
    Files,          \* identifiers of a file's row and of its object
    Slots,          \* requests at work at once
    Sizes,          \* sizes of an upload
    Limits,         \* limits staff may set, in the same unit
    Kinds           \* what is uploaded: subset of {"file", "support", "logo"}

ASSUME FilesAssumption == IsFiniteSet(Files) /\ None \notin Files \cup Slots
ASSUME SizesAssumption == Sizes \subseteq Nat \ {0} /\ Limits \subseteq Nat
ASSUME KindsAssumption == Kinds \subseteq {"file", "support", "logo"}

VARIABLES
    file,           \* rows of files
    object,         \* the objects in the bucket
    account,        \* the account's row: the counter and the limit
    lock,           \* the slot that holds the lock on it, or None
    request,        \* how far each request is
    purge,          \* the purge job: what it has listed, and its current file
    lost            \* objects whose upload died or could not clean up

vars == <<file, object, account, lock, request, purge, faults, lost>>

\* "deleted" is deleted less than 30 days ago, "expired" longer ago.
FileRow == [status : {"none", "live", "deleted", "expired", "purged"},
            kind : {"file", "support", "logo"}, size : Nat]
Request ==
    [at : {"idle", "moving", "moved", "locked", "refused", "deleting", "saving"},
     kind : {"file", "support", "logo", "delete"},
     file : Files \cup {None}, size : Nat,
     old : SUBSET Files,        \* files loaded to be deleted
     used : Nat]                \* storageUsedBytes of the model it loaded
Idle == [at |-> "idle", kind |-> "delete", file |-> None, size |-> 0, old |-> {}, used |-> 0]
Asleep == [listed |-> {}, emptied |-> None]

TypeOK ==
    /\ file \in [Files -> FileRow]
    /\ object \in SUBSET Files
    /\ account \in [used : Nat, limit : Nat]
    /\ lock \in Slots \cup {None}
    /\ request \in [Slots -> Request]
    /\ purge \in [listed : SUBSET Files, emptied : Files \cup {None}]
    /\ faults \in 0..MaxFaults
    /\ lost \in SUBSET Files

Init ==
    /\ file = [f \in Files |-> [status |-> "none", kind |-> "file", size |-> 0]]
    /\ object = {}
    /\ account \in [used : {0}, limit : Limits]
    /\ lock = None
    /\ request = [s \in Slots |-> Idle]
    /\ purge = Asleep
    /\ faults = 0
    /\ lost = {}

Live == {f \in Files : file[f].status = "live"}

\* countedBytes: the sum over the rows that are not deleted.
BytesOf(f) == IF f \in Live THEN file[f].size ELSE 0
CountedBytes == SumFunction([f \in Files |-> BytesOf(f)])

\* assertStorageWithinLimit; attachments of support messages skip the quota.
Fits(kind, size, used) == kind = "support" \/ used + size <= account.limit

Goto(s, stage) == request' = [request EXCEPT ![s].at = stage]
Stop(s) == request' = [request EXCEPT ![s] = Idle]

-----------------------------------------------------------------------------
(* Uploads. *)

\* replaceAttachment lists the earlier logos, then upload() validates, with
\* the counter of the model the middleware has loaded.
BeginUpload(s, kind, size) ==
    /\ request[s].at = "idle"
    /\ Fits(kind, size, account.used)
    /\ \E f \in Files :
        /\ file[f].status = "none" /\ f \notin lost
        /\ \A t \in Slots : request[t].file # f
        /\ request' = [request EXCEPT ![s] =
              [at |-> "moving", kind |-> kind, file |-> f, size |-> size,
               old |-> IF kind = "logo" THEN {g \in Live : file[g].kind = "logo"} ELSE {},
               used |-> account.used]]
    /\ UNCHANGED <<file, object, account, lock, purge, faults, lost>>

\* The object goes up before the row exists.
Move(s) ==
    /\ request[s].at = "moving"
    /\ object' = object \cup {request[s].file}
    /\ Goto(s, "moved")
    /\ UNCHANGED <<file, account, lock, purge, faults, lost>>

\* Mutant of MoveFails: the failure goes unnoticed.
MoveFailsUnseen(s) ==
    /\ request[s].at = "moving"
    /\ Fault
    /\ Goto(s, "moved")
    /\ UNCHANGED <<file, object, account, lock, purge, lost>>

\* The bucket refuses: nothing has been recorded.
MoveFails(s) ==
    /\ request[s].at = "moving"
    /\ Fault
    /\ Stop(s)
    /\ UNCHANGED <<file, object, account, lock, purge, lost>>

\* Mutant of LockAndCheck: the account is read without FOR UPDATE.
LockAndCheckOpen(s) ==
    /\ request[s].at = "moved"
    /\ Fits(request[s].kind, request[s].size, account.used)
    /\ Goto(s, "locked")
    /\ UNCHANGED <<file, object, account, lock, purge, faults, lost>>

\* The account is locked and the limit checked again.
LockAndCheck(s) ==
    /\ request[s].at = "moved"
    /\ lock = None
    /\ Fits(request[s].kind, request[s].size, account.used)
    /\ lock' = s
    /\ Goto(s, "locked")
    /\ UNCHANGED <<file, object, account, purge, faults, lost>>

Refuse(s) ==
    /\ request[s].at = "moved"
    /\ lock = None
    /\ ~Fits(request[s].kind, request[s].size, account.used)
    /\ Goto(s, "refused")
    /\ UNCHANGED <<file, object, account, lock, purge, faults, lost>>

\* Mutant of Commit: the counter is moved on from the model in the handler.
CommitStale(s) ==
    LET r == request[s]
        used == r.used + r.size
    IN  /\ r.at = "locked"
        /\ file' = [file EXCEPT ![r.file] = [status |-> "live", kind |-> r.kind, size |-> r.size]]
        /\ account' = [account EXCEPT !.used = used]
        /\ lock' = None
        /\ request' = [request EXCEPT ![s] =
              IF r.kind = "logo" THEN [r EXCEPT !.at = "deleting", !.used = used] ELSE Idle]
        /\ UNCHANGED <<object, purge, faults, lost>>

\* Row and counter, in one transaction.  The model in the handler gets the new
\* counter too, which makes that column one of those its next save writes.
Commit(s) ==
    LET r == request[s]
        used == account.used + r.size
    IN  /\ r.at = "locked"
        /\ file' = [file EXCEPT ![r.file] = [status |-> "live", kind |-> r.kind, size |-> r.size]]
        /\ account' = [account EXCEPT !.used = used]
        /\ lock' = None
        /\ request' = [request EXCEPT ![s] =
              IF r.kind = "logo" THEN [r EXCEPT !.at = "deleting", !.used = used] ELSE Idle]
        /\ UNCHANGED <<object, purge, faults, lost>>

\* The database fails in the transaction, which is rolled back.
Abort(s) ==
    /\ request[s].at = "locked"
    /\ Fault
    /\ lock' = None
    /\ Goto(s, "refused")
    /\ UNCHANGED <<file, object, account, purge, lost>>

\* No row: the object has to go; a failure to remove it is only logged.
CleanUp(s) ==
    /\ request[s].at = "refused"
    /\ object' = object \ {request[s].file}
    /\ Stop(s)
    /\ UNCHANGED <<file, account, lock, purge, faults, lost>>

CleanUpFails(s) ==
    /\ request[s].at = "refused"
    /\ Fault
    /\ lost' = lost \cup {request[s].file}
    /\ Stop(s)
    /\ UNCHANGED <<file, object, account, lock, purge>>

-----------------------------------------------------------------------------
(* Deletions, and the account's logo. *)

BeginDelete(s, f) ==
    /\ request[s].at = "idle"
    /\ f \in Live
    /\ request' = [request EXCEPT ![s] = [Idle EXCEPT !.at = "deleting", !.old = {f}]]
    /\ UNCHANGED <<file, object, account, lock, purge, faults, lost>>

\* Mutant of Delete: the counter is not kept from falling below zero.
DeleteBelowZero(s, f) ==
    /\ request[s].at = "deleting"
    /\ f \in request[s].old
    /\ lock = None
    /\ file' = [file EXCEPT ![f].status = IF @ = "purged" THEN @ ELSE "deleted"]
    /\ account' = [account EXCEPT !.used = @ - file[f].size]
    /\ request' = [request EXCEPT ![s].old = @ \ {f}]
    /\ UNCHANGED <<object, lock, purge, faults, lost>>

\* delete(): under the lock, but the file is the model that was loaded before.
\* It is stamped, whatever its row says now, and its bytes are given back.
Delete(s, f) ==
    /\ request[s].at = "deleting"
    /\ f \in request[s].old
    /\ lock = None
    /\ file' = [file EXCEPT ![f].status = IF @ = "purged" THEN @ ELSE "deleted"]
    /\ account' = [account EXCEPT !.used = Max({@ - file[f].size, 0})]
    /\ request' = [request EXCEPT ![s].old = @ \ {f}]
    /\ UNCHANGED <<object, lock, purge, faults, lost>>

\* A deletion answers; the logo's handler goes on.
Deleted(s) ==
    /\ request[s].at = "deleting"
    /\ request[s].old = {}
    /\ request' = [request EXCEPT ![s] = IF @.kind = "logo" THEN [@ EXCEPT !.at = "saving"] ELSE Idle]
    /\ UNCHANGED <<file, object, account, lock, purge, faults, lost>>

\* updateLogo saves the account with the new key, and with the counter that
\* upload() put into the model.
SaveLogo(s) ==
    /\ request[s].at = "saving"
    /\ lock = None
    /\ account' = [account EXCEPT !.used = request[s].used]
    /\ Stop(s)
    /\ UNCHANGED <<file, object, lock, purge, faults, lost>>

\* The process dies: locks are released, transactions rolled back.
Crash(s) ==
    /\ request[s].at # "idle"
    /\ Fault
    /\ lock' = IF lock = s THEN None ELSE lock
    /\ lost' = IF request[s].at \in {"moved", "locked", "refused"}
               THEN lost \cup {request[s].file} ELSE lost
    /\ Stop(s)
    /\ UNCHANGED <<file, object, account, purge>>

-----------------------------------------------------------------------------
(* The purge. *)

Expire(f) ==
    /\ file[f].status = "deleted"
    /\ file' = [file EXCEPT ![f].status = "expired"]
    /\ UNCHANGED <<object, account, lock, request, purge, faults, lost>>

\* Mutant of StartPurge: a row whose object has gone is left out.
StartPurgeStored ==
    /\ purge = Asleep
    /\ \E f \in object : file[f].status = "expired"
    /\ purge' = [Asleep EXCEPT !.listed = {f \in object : file[f].status = "expired"}]
    /\ UNCHANGED <<file, object, account, lock, request, faults, lost>>

StartPurge ==
    /\ purge = Asleep
    /\ \E f \in Files : file[f].status = "expired"
    /\ purge' = [Asleep EXCEPT !.listed = {f \in Files : file[f].status = "expired"}]
    /\ UNCHANGED <<file, object, account, lock, request, faults, lost>>

\* The object first; one that has gone already is not an error.
PurgeObject(f) ==
    /\ purge.emptied = None
    /\ f \in purge.listed
    /\ object' = object \ {f}
    /\ purge' = [purge EXCEPT !.emptied = f]
    /\ UNCHANGED <<file, account, lock, request, faults, lost>>

\* Mutant of PurgeFails: the row goes all the same.
PurgeFailsOn(f) ==
    /\ purge.emptied = None
    /\ f \in purge.listed
    /\ Fault
    /\ purge' = [purge EXCEPT !.emptied = f]
    /\ UNCHANGED <<file, object, account, lock, request, lost>>

\* The bucket fails: the row is left for the next run.
PurgeFails(f) ==
    /\ purge.emptied = None
    /\ f \in purge.listed
    /\ Fault
    /\ purge' = [purge EXCEPT !.listed = @ \ {f}]
    /\ UNCHANGED <<file, object, account, lock, request, lost>>

PurgeRow ==
    /\ purge.emptied # None
    /\ file' = [file EXCEPT ![purge.emptied].status = "purged"]
    /\ purge' = [listed |-> purge.listed \ {purge.emptied}, emptied |-> None]
    /\ UNCHANGED <<object, account, lock, request, faults, lost>>

PurgeCrashes ==
    /\ purge # Asleep
    /\ Fault
    /\ purge' = Asleep
    /\ UNCHANGED <<file, object, account, lock, request, lost>>

OverrideLimit(l) ==
    /\ lock = None
    /\ account' = [account EXCEPT !.limit = l]
    /\ UNCHANGED <<file, object, lock, request, purge, faults, lost>>

-----------------------------------------------------------------------------
Upload(s) == \/ \E kind \in Kinds, size \in Sizes : BeginUpload(s, kind, size)
             \/ Move(s) \/ MoveFails(s) \/ LockAndCheck(s) \/ Refuse(s)
             \/ Commit(s) \/ Abort(s) \/ CleanUp(s) \/ CleanUpFails(s)

Remove(s) == \/ \E f \in Files : BeginDelete(s, f) \/ Delete(s, f)
             \/ Deleted(s) \/ SaveLogo(s)

Purge == StartPurge \/ (\E f \in Files : PurgeObject(f)) \/ PurgeRow

Next ==
    \/ \E s \in Slots : Upload(s) \/ Remove(s) \/ Crash(s)
    \/ \E f \in Files : Expire(f) \/ PurgeFails(f)
    \/ Purge \/ PurgeCrashes
    \/ \E l \in Limits : OverrideLimit(l)

\* The clock moves, and the scheduler starts the purge every night.
Fairness == WF_vars(Purge) /\ \A f \in Files : WF_vars(Expire(f))

Spec == Init /\ [][Next]_vars /\ Fairness

-----------------------------------------------------------------------------
(* Properties. *)

\* The counter is the sum of the live files (file_service.ts, upload and
\* delete: it "moves with the insert").
CounterIsSum == account.used = CountedBytes

\* Whatever uploads, refusals, deletions, crashes and purges interleave, only
\* two steps can part the counter from the sum: a logo's save, which writes the
\* counter from a model outside the lock, and the deletion of a file that has
\* been deleted since it was loaded.
DriftHasTwoSources ==
    [][CounterIsSum /\ ~CounterIsSum' =>
          \E s \in Slots : \/ request[s].at = "saving" /\ request'[s].at = "idle"
                           \/ \E f \in request[s].old \ request'[s].old : f \notin Live]_vars

\* Two uploads that each fit do not both get in when they do not fit together:
\* no file that counts is added beyond the limit in force.
NoUploadBeyondLimit ==
    [][\A f \in Files : f \in Live' \ Live /\ file'[f].kind # "support"
          => account'.used <= account.limit]_vars

\* A file the product shows can be read: its object is there, whatever failed
\* in the bucket and whatever the purge has done.
LiveHasObject == Live \subseteq object

\* An object that no row accounts for is under way, or its upload died or could
\* not clean up; the purge, in particular, never leaves one behind
\* (purge_deleted_files_job.ts: "rather than an object nothing points at").
OrphansAreLostUploads ==
    \A f \in object : file[f].status \in {"none", "purged"} =>
        f \in lost \/ \E s \in Slots : request[s].file = f /\ request[s].at # "moving"

\* What has been deleted leaves the bucket and the database in the end, although
\* purges crash and the bucket fails.
DeletedIsPurged ==
    \A f \in Files : file[f].status = "deleted" ~> (file[f].status = "purged" /\ f \notin object)
=============================================================================
