----------------------------- MODULE Organization -----------------------------
(***************************************************************************)
(* The people of one account and what its plan limits: invitations, their  *)
(* acceptance, resending and withdrawal (organizations/                    *)
(* invitation_service.ts), seats (organizations/seats.ts), API keys        *)
(* (api/api_key_service.ts), removal, leaving, transfer of ownership and   *)
(* deletion (organizations/membership_service.ts).                         *)
(*                                                                         *)
(* Invitations, acceptances and new keys are transactions that meet at the *)
(* lock on the organization's row (plan_service.ts, lockAndAssertLimit);   *)
(* each statement of theirs is an action, and what they have written is    *)
(* seen by nobody else until Commit.  The membership changes take no lock: *)
(* each is a load of the models and a save.                                *)
(***************************************************************************)
EXTENDS Integers, FiniteSets

CONSTANTS
    People,         \* addresses: at most one user row each (unique index)
    Members,        \* who belongs to the account at the start
    Founder,        \* the member who registered it
    Invitations,    \* identifiers of invitation rows
    Keys,           \* identifiers of API key rows
    Slots,          \* requests that claim a seat or a key at once
    Desks,          \* requests that change the membership at once
    SeatLimits,     \* limits staff may set on seats
    KeyLimits,      \* and on API keys
    Unlimited,
    None

ASSUME PeopleAssumption ==
    /\ IsFiniteSet(People) /\ Members \subseteq People /\ Founder \in Members
    /\ IsFiniteSet(Invitations) /\ IsFiniteSet(Keys)
ASSUME NoneAssumption ==
    None \notin People \cup Invitations \cup Keys \cup Slots \cup Desks
ASSUME LimitsAssumption == SeatLimits \cup KeyLimits \subseteq Nat \cup {Unlimited}
ASSUME UnlimitedAssumption == Unlimited \notin Nat

Quotas == {"seats", "apiKeys"}
Limits(q) == IF q = "seats" THEN SeatLimits ELSE KeyLimits

VARIABLES
    user,           \* rows of users
    invitation,     \* rows of invitations, None while there is no such row
    key,            \* rows of api_keys: "none", "active" or "revoked"
    organization,   \* the account's row
    lock,           \* the slot that holds the lock on it, or None
    rowLock,        \* the slot that holds the lock on an invitation, or None
    request,        \* the transaction of each slot
    desk,           \* what each membership request has loaded
    overtaken       \* history: a save took as owner or as member who no longer was

vars == <<user, invitation, key, organization, lock, rowLock, request, desk, overtaken>>
rows == <<user, invitation, key, organization>>
locks == <<lock, rowLock>>

UserRow == [role : {"none", "owner", "member"}, deleted : BOOLEAN]
InvitationRow == [email : People, accepted : BOOLEAN, revoked : BOOLEAN, expired : BOOLEAN]
ASSUME RowsAssumption == None \notin InvitationRow
Request ==
    [at : {"idle", "checked", "waiting", "counted"},
     what : {"invite", "accept", "key"},
     email : People \cup {None},
     consumed : SUBSET Invitations,     \* rows this transaction has closed
     limit : Nat \cup {Unlimited},
     count : Nat]
Copy ==
    [what : {"none", "transfer", "remove", "leave", "delete", "revoke"},
     actor : People, target : People, invitation : Invitations \cup {None},
     live : SUBSET People]              \* users the deletion has written

Idle == [at |-> "idle", what |-> "invite", email |-> None,
         consumed |-> {}, limit |-> 0, count |-> 0]
Closed == [what |-> "none", actor |-> Founder, target |-> Founder,
           invitation |-> None, live |-> {}]

TypeOK ==
    /\ user \in [People -> UserRow]
    /\ invitation \in [Invitations -> InvitationRow \cup {None}]
    /\ key \in [Keys -> {"none", "active", "revoked"}]
    /\ organization \in [ownerId : People, deleted : BOOLEAN, limit : [Quotas -> Nat \cup {Unlimited}]]
    /\ lock \in Slots \cup {None}
    /\ rowLock \in [Invitations -> Slots \cup {None}]
    /\ request \in [Slots -> Request]
    /\ desk \in [Desks -> Copy]
    /\ overtaken \in BOOLEAN

Init ==
    /\ user = [p \in People |->
                  [role |-> IF p = Founder THEN "owner" ELSE IF p \in Members THEN "member" ELSE "none",
                   deleted |-> FALSE]]
    /\ invitation = [i \in Invitations |-> None]
    /\ key = [k \in Keys |-> "none"]
    /\ \E seats \in SeatLimits, keys \in KeyLimits :
        organization = [ownerId |-> Founder, deleted |-> FALSE,
                        limit |-> [q \in Quotas |-> IF q = "seats" THEN seats ELSE keys]]
    /\ lock = None
    /\ rowLock = [i \in Invitations |-> None]
    /\ request = [s \in Slots |-> Idle]
    /\ desk = [d \in Desks |-> Closed]
    /\ overtaken = FALSE

-----------------------------------------------------------------------------
(* Counting. *)

Live == {p \in People : user[p].role # "none" /\ ~user[p].deleted}

Unanswered(i) == invitation[i] # None /\ ~invitation[i].accepted /\ ~invitation[i].revoked

\* Invitation.isPending: a computed state, no column.
Pending == {i \in Invitations : Unanswered(i) /\ ~invitation[i].expired}

\* Mutant of SeatUsage: only members are counted.
SeatUsageMembers(consumed) == Cardinality(Live)

\* A seat is a member or an outstanding invitation.
SeatUsage(consumed) == Cardinality(Live) + Cardinality(Pending \ consumed)

ActiveKeys == {k \in Keys : key[k] = "active"}

SeatsUsed == Cardinality(Live) + Cardinality(Pending)
KeysUsed == Cardinality(ActiveKeys)

IsWithinLimit(n, l) == l = Unlimited \/ n <= l

-----------------------------------------------------------------------------
(* Transactions that claim a seat or a key. *)

\* Bounds: one row is left for every transaction that will insert one.
Inserting(what) == Cardinality({s \in Slots : request[s].at # "idle" /\ request[s].what = what})
InvitationsLeft == Cardinality({i \in Invitations : invitation[i] = None}) > Inserting("invite")
KeysLeft == Cardinality({k \in Keys : key[k] = "none"}) > Inserting("key")

\* Mutant of BeginInvite: the account is locked before the superseded rows.
BeginInviteLocked(s, e) ==
    /\ InvitationsLeft
    /\ request[s].at = "idle"
    /\ ~organization.deleted
    /\ e \notin Live
    /\ lock = None
    /\ lock' = s
    /\ request' = [request EXCEPT ![s] = [Idle EXCEPT !.at = "checked", !.email = e]]
    /\ UNCHANGED <<rows, rowLock, desk, overtaken>>

\* Handlers run for an account that the middleware has just read as live.
BeginInvite(s, e) ==
    /\ InvitationsLeft
    /\ request[s].at = "idle"
    /\ ~organization.deleted
    /\ e \notin Live                                \* assertInvitable
    /\ request' = [request EXCEPT ![s] = [Idle EXCEPT !.at = "checked", !.email = e]]
    /\ UNCHANGED <<rows, locks, desk, overtaken>>

\* Earlier invitations to the address are withdrawn, expired ones too.  The
\* update waits for rows that somebody else has locked.
Supersede(s) ==
    LET open == {i \in Invitations : Unanswered(i) /\ invitation[i].email = request[s].email}
    IN  /\ request[s].at = "checked"
        /\ \A i \in open : rowLock[i] = None
        /\ rowLock' = [i \in Invitations |-> IF i \in open THEN s ELSE rowLock[i]]
        /\ request' = [request EXCEPT ![s].at = "waiting", ![s].consumed = open]
        /\ UNCHANGED <<rows, lock, desk, overtaken>>

\* Mutant of BeginAccept: the link is read without a lock.
BeginAcceptUnlocked(s, i) ==
    /\ request[s].at = "idle"
    /\ i \in Pending
    /\ request' = [request EXCEPT ![s] = [Idle EXCEPT !.at = "waiting", !.what = "accept",
                                                      !.email = invitation[i].email,
                                                      !.consumed = {i}]]
    /\ UNCHANGED <<rows, locks, desk, overtaken>>

\* The link is looked up and locked; a link that is not pending is refused.
BeginAccept(s, i) ==
    /\ request[s].at = "idle"
    /\ i \in Pending
    /\ rowLock[i] = None
    /\ rowLock' = [rowLock EXCEPT ![i] = s]
    /\ request' = [request EXCEPT ![s] = [Idle EXCEPT !.at = "waiting", !.what = "accept",
                                                      !.email = invitation[i].email,
                                                      !.consumed = {i}]]
    /\ UNCHANGED <<rows, lock, desk, overtaken>>

BeginKey(s) ==
    /\ KeysLeft
    /\ request[s].at = "idle"
    /\ ~organization.deleted
    /\ request' = [request EXCEPT ![s] = [Idle EXCEPT !.at = "waiting", !.what = "key"]]
    /\ UNCHANGED <<rows, locks, desk, overtaken>>

Quota(s) == IF request[s].what = "key" THEN "apiKeys" ELSE "seats"

\* SELECT ... FOR UPDATE of the organization, the limit it carries, and the
\* count.  An acceptance asks for an account that is not deleted, and marks its
\* invitation before it counts, so that the seat the invitation holds is not
\* counted against it.
LockAndCount(s) ==
    /\ request[s].at = "waiting"
    /\ lock \in {None, s}
    /\ request[s].what = "accept" => ~organization.deleted
    /\ lock' = s
    /\ request' = [request EXCEPT ![s].at = "counted",
                                  ![s].limit = organization.limit[Quota(s)],
                                  ![s].count = IF request[s].what = "key" THEN KeysUsed
                                               ELSE SeatUsage(request[s].consumed)]
    /\ UNCHANGED <<rows, rowLock, desk, overtaken>>

Ends(s) ==
    /\ request' = [request EXCEPT ![s] = Idle]
    /\ lock' = IF lock = s THEN None ELSE lock
    /\ rowLock' = [i \in Invitations |-> IF rowLock[i] = s THEN None ELSE rowLock[i]]
    /\ UNCHANGED <<desk, overtaken>>

\* Mutant of Granted: what is in use is compared instead of what will be.
GrantedCurrent(s) == request[s].at = "counted" /\ IsWithinLimit(request[s].count, request[s].limit)

Granted(s) == request[s].at = "counted" /\ IsWithinLimit(request[s].count + 1, request[s].limit)

\* The rows in consumed are withdrawn, and the invitation is there.
CommitInvite(s) ==
    /\ Granted(s) /\ request[s].what = "invite"
    /\ \E j \in Invitations :
        /\ invitation[j] = None
        /\ invitation' = [i \in Invitations |->
              IF i = j THEN [email |-> request[s].email, accepted |-> FALSE,
                             revoked |-> FALSE, expired |-> FALSE]
              ELSE IF i \in request[s].consumed THEN [invitation[i] EXCEPT !.revoked = TRUE]
              ELSE invitation[i]]
    /\ Ends(s)
    /\ UNCHANGED <<user, key, organization>>

\* The user is inserted; an address that has a row already, a removed
\* member's too, breaks the unique index (see Refuse).
CommitAccept(s) ==
    /\ Granted(s) /\ request[s].what = "accept"
    /\ user[request[s].email].role = "none"
    /\ user' = [user EXCEPT ![request[s].email] = [role |-> "member", deleted |-> FALSE]]
    /\ invitation' = [i \in Invitations |->
          IF i \in request[s].consumed THEN [invitation[i] EXCEPT !.accepted = TRUE]
          ELSE invitation[i]]
    /\ Ends(s)
    /\ UNCHANGED <<key, organization>>

CommitKey(s) ==
    /\ Granted(s) /\ request[s].what = "key"
    /\ \E k \in Keys : key[k] = "none" /\ key' = [key EXCEPT ![k] = "active"]
    /\ Ends(s)
    /\ UNCHANGED <<user, invitation, organization>>

\* The transaction is rolled back: no room, no account, or the address is taken.
Refuse(s) ==
    /\ \/ request[s].at = "counted" /\ ~Granted(s)
       \/ request[s].at = "counted" /\ request[s].what = "accept"
          /\ user[request[s].email].role # "none"
       \/ request[s].at = "waiting" /\ lock = None
          /\ request[s].what = "accept" /\ organization.deleted
    /\ Ends(s)
    /\ UNCHANGED rows

-----------------------------------------------------------------------------
(* Changes of the membership: the models are loaded by the middleware and  *)
(* the controller, where the policies are asked, and saved by the service. *)

Load(d, c) ==
    /\ desk[d].what = "none"
    /\ desk' = [desk EXCEPT ![d] = c]
    /\ UNCHANGED <<rows, locks, request, overtaken>>

LoadTransfer(d) ==
    /\ ~organization.deleted
    /\ \E target \in Live \ {organization.ownerId} :
        /\ organization.ownerId \in Live
        /\ Load(d, [Closed EXCEPT !.what = "transfer", !.actor = organization.ownerId,
                                  !.target = target])

LoadRemove(d) ==
    /\ ~organization.deleted
    /\ \E actor \in Live, target \in Live :
        /\ user[actor].role = "owner"
        /\ target # organization.ownerId
        /\ Load(d, [Closed EXCEPT !.what = "remove", !.actor = actor, !.target = target])

LoadLeave(d) ==
    /\ ~organization.deleted
    /\ \E p \in Live :
        /\ p # organization.ownerId
        /\ Load(d, [Closed EXCEPT !.what = "leave", !.actor = p, !.target = p])

\* deleteOrganization: the first statement of its transaction stamps the
\* users that are there.
LoadDelete(d) ==
    /\ ~organization.deleted
    /\ organization.ownerId \in Live
    /\ Load(d, [Closed EXCEPT !.what = "delete", !.actor = organization.ownerId, !.live = Live])

LoadRevoke(d) ==
    /\ ~organization.deleted
    /\ \E i \in Pending : Load(d, [Closed EXCEPT !.what = "revoke", !.invitation = i])

\* What nobody asks again when a transfer or a removal is saved.
Outdated(d) ==
    \/ desk[d].what = "transfer"
       /\ (desk[d].actor # organization.ownerId \/ desk[d].target \notin Live)
    \/ desk[d].what \in {"remove", "leave"} /\ desk[d].target = organization.ownerId

Saved(d) ==
    /\ desk' = [desk EXCEPT ![d] = Closed]
    /\ overtaken' = (overtaken \/ Outdated(d))
    /\ UNCHANGED <<locks, request>>

\* Mutant of Transfer: the previous owner keeps the role.
TransferPromotes(d) ==
    LET to == desk[d].target
    IN  /\ desk[d].what = "transfer"
        /\ lock = None
        /\ user' = [user EXCEPT ![to].role = "owner"]
        /\ organization' = [organization EXCEPT !.ownerId = to]
        /\ Saved(d)
        /\ UNCHANGED <<invitation, key>>

\* The update of the account's row waits for its lock.  (A save leaves a role
\* alone that was loaded with the value it sets; a target that was loaded as
\* an owner exists only once the account has two.)
Transfer(d) ==
    LET from == desk[d].actor
        to == desk[d].target
    IN  /\ desk[d].what = "transfer"
        /\ lock = None
        /\ user' = [user EXCEPT ![to].role = "owner", ![from].role = "member"]
        /\ organization' = [organization EXCEPT !.ownerId = to]
        /\ Saved(d)
        /\ UNCHANGED <<invitation, key>>

\* Mutant of SoftDelete: the role is overwritten instead of the stamp.
SoftDeleteRole(d) ==
    /\ desk[d].what \in {"remove", "leave"}
    /\ user' = [user EXCEPT ![desk[d].target].role = "removed"]
    /\ Saved(d)
    /\ UNCHANGED <<invitation, key, organization>>

\* remove() and leave(): the row is stamped as deleted.
SoftDelete(d) ==
    /\ desk[d].what \in {"remove", "leave"}
    /\ user' = [user EXCEPT ![desk[d].target].deleted = TRUE]
    /\ Saved(d)
    /\ UNCHANGED <<invitation, key, organization>>

DeleteOrganization(d) ==
    /\ desk[d].what = "delete"
    /\ lock = None
    /\ user' = [p \in People |-> IF p \in desk[d].live THEN [user[p] EXCEPT !.deleted = TRUE]
                                 ELSE user[p]]
    /\ organization' = [organization EXCEPT !.deleted = TRUE]
    /\ Saved(d)
    /\ UNCHANGED <<invitation, key>>

\* revoke(): saved on whatever the row has become since it was loaded.
Revoke(d) ==
    /\ desk[d].what = "revoke"
    /\ rowLock[desk[d].invitation] = None
    /\ invitation' = [invitation EXCEPT ![desk[d].invitation].revoked = TRUE]
    /\ Saved(d)
    /\ UNCHANGED <<user, key, organization>>

-----------------------------------------------------------------------------
(* Single statements, and the clock. *)

RevokeKey(k) ==
    /\ key[k] = "active"
    /\ key' = [key EXCEPT ![k] = "revoked"]
    /\ UNCHANGED <<user, invitation, organization, locks, request, desk, overtaken>>

\* Staff override a limit.
OverrideLimit(q, l) ==
    /\ lock = None
    /\ organization' = [organization EXCEPT !.limit[q] = l]
    /\ UNCHANGED <<user, invitation, key, locks, request, desk, overtaken>>

Expire(i) ==
    /\ i \in Pending
    /\ invitation' = [invitation EXCEPT ![i].expired = TRUE]
    /\ UNCHANGED <<user, key, organization, locks, request, desk, overtaken>>

-----------------------------------------------------------------------------
Begin(s) == \/ \E e \in People : BeginInvite(s, e)
            \/ \E i \in Invitations : BeginAccept(s, i)
            \/ BeginKey(s)

Proceed(s) == \/ Supersede(s) \/ LockAndCount(s)
              \/ CommitInvite(s) \/ CommitAccept(s) \/ CommitKey(s) \/ Refuse(s)

Open(d) == LoadTransfer(d) \/ LoadRemove(d) \/ LoadLeave(d) \/ LoadDelete(d) \/ LoadRevoke(d)

Save(d) == Transfer(d) \/ SoftDelete(d) \/ DeleteOrganization(d) \/ Revoke(d)

Next ==
    \/ \E s \in Slots : Begin(s) \/ Proceed(s)
    \/ \E d \in Desks : Open(d) \/ Save(d)
    \/ \E k \in Keys : RevokeKey(k)
    \/ \E q \in Quotas : \E l \in Limits(q) : OverrideLimit(q, l)
    \/ \E i \in Invitations : Expire(i)

Spec == Init /\ [][Next]_vars

-----------------------------------------------------------------------------
(* Properties. *)

\* Whatever invitations, acceptances, resends and expiries race for the last
\* seat, members and outstanding invitations together are a quota: no step
\* claims a seat beyond the limit in force (invitation_service.ts, accept and
\* invite).
SeatQuota == INSTANCE Quota WITH used <- SeatsUsed, limit <- organization.limit["seats"]
SeatsAreAQuota == SeatQuota!Spec

\* The same of the API keys (api_key_service.ts, create).
KeyQuota == INSTANCE Quota WITH used <- KeysUsed, limit <- organization.limit["apiKeys"]
KeysAreAQuota == KeyQuota!Spec

\* An account that is not deleted has exactly one owner, who is a live member
\* and whom the organization's row names, whatever transfers, removals, leaving
\* and acceptances overlap, until a save takes for owner or member somebody who
\* no longer was (membership_service.ts, transferOwnership: "never observed with
\* two owners or none").
OneOwner ==
    ~organization.deleted => {p \in Live : user[p].role = "owner"} = {organization.ownerId}

OneOwnerUnlessOvertaken == ~overtaken => OneOwner

\* Nobody joins through a link that has been withdrawn, superseded or used,
\* although withdrawing takes no part in the lock on the account and saves a
\* row it loaded earlier (invitation_service.ts, accept).
WithdrawnAdmitsNobody ==
    [][\A p \in People : p \in Live' \ Live =>
          \E i \in {j \in Invitations : Unanswered(j)} :
              invitation[i].email = p /\ invitation'[i].accepted /\ ~invitation'[i].revoked]_vars

\* No transactions wait for each other in a ring: invitations lock the rows
\* they supersede before the account, and so do acceptances.
WaitsFor(s, t) ==
    \/ /\ request[s].at = "checked"
       /\ \E i \in Invitations : Unanswered(i) /\ invitation[i].email = request[s].email
                                 /\ rowLock[i] = t
    \/ request[s].at = "waiting" /\ lock = t /\ t # s

NoDeadlock ==
    \A ring \in (SUBSET Slots) \ {{}} : \E s \in ring : \A t \in ring : ~WaitsFor(s, t)
=============================================================================
