-------------------------- MODULE OrganizationProofs --------------------------
(***************************************************************************)
(* Proofs about Organization, for any number of people, invitations, keys, *)
(* transactions and limits.                                                *)
(*                                                                         *)
(* The inductive invariant says what each transaction still relies on when *)
(* it commits: the rows it has locked are as it found them (RequestFits),  *)
(* the account is locked by exactly the one that has counted (Locked), and *)
(* what it counted is still an upper bound under the limit it read         *)
(* (CountFits), because everything that takes no lock only gives back.     *)
(***************************************************************************)
EXTENDS Organization, FiniteSetTheorems, TLAPS

DeskFits ==
    /\ user[Founder].role # "none"
    /\ \A d \in Desks :
        /\ user[desk[d].actor].role # "none"
        /\ user[desk[d].target].role # "none"
        /\ desk[d].what = "revoke" =>
              desk[d].invitation \in Invitations /\ invitation[desk[d].invitation] # None

RequestFits ==
    \A s \in Slots :
        /\ request[s].at = "checked" => request[s].what = "invite"
        /\ request[s].at # "idle" /\ request[s].what # "key" => request[s].email \in People
        /\ request[s].at # "idle" /\ request[s].what = "accept" => request[s].consumed # {}
        /\ \A i \in request[s].consumed :
              rowLock[i] = s /\ Unanswered(i) /\ invitation[i].email = request[s].email
        /\ \A i \in Invitations : rowLock[i] = s =>
              request[s].at \in {"waiting", "counted"} /\ i \in request[s].consumed

Locked == \A s \in Slots : lock = s <=> request[s].at = "counted"

CountFits ==
    \A s \in Slots : request[s].at = "counted" =>
        /\ request[s].limit = organization.limit[Quota(s)]
        /\ request[s].count >= IF request[s].what = "key" THEN KeysUsed
                               ELSE SeatUsage(request[s].consumed)

OrgInv == TypeOK /\ DeskFits /\ RequestFits /\ Locked /\ CountFits

-----------------------------------------------------------------------------
(* Counting. *)

LEMMA Subsets ==
    /\ \A S \in SUBSET People : IsFiniteSet(S) /\ Cardinality(S) \in Nat
    /\ \A S \in SUBSET Invitations : IsFiniteSet(S) /\ Cardinality(S) \in Nat
    /\ \A S \in SUBSET Keys : IsFiniteSet(S) /\ Cardinality(S) \in Nat
    BY PeopleAssumption, FS_Subset, FS_CardinalityType

LEMMA Smaller ==
    ASSUME NEW S, NEW T, IsFiniteSet(T), S \subseteq T
    PROVE  Cardinality(S) <= Cardinality(T)
    BY FS_Subset

LEMMA OneMore ==
    ASSUME NEW S, NEW T, NEW x, IsFiniteSet(T), S \subseteq T \cup {x}
    PROVE  Cardinality(S) <= Cardinality(T) + 1
    <1>1. /\ IsFiniteSet(T \cup {x})
          /\ Cardinality(T \cup {x}) \in {Cardinality(T), Cardinality(T) + 1}
          /\ Cardinality(T) \in Nat
        BY FS_AddElement, FS_CardinalityType
    <1>2. Cardinality(S) <= Cardinality(T \cup {x}) /\ Cardinality(S) \in Nat
        BY <1>1, FS_Subset, FS_CardinalityType
    <1> QED BY <1>1, <1>2

LEMMA Counts ==
    /\ Live \in SUBSET People /\ Pending \in SUBSET Invitations /\ ActiveKeys \in SUBSET Keys
    /\ Cardinality(Live) \in Nat /\ KeysUsed \in Nat /\ SeatsUsed \in Nat
    /\ \A c \in SUBSET Invitations :
          Cardinality(Pending \ c) \in Nat /\ SeatUsage(c) \in Nat
    <1>1. Live \in SUBSET People /\ Pending \in SUBSET Invitations /\ ActiveKeys \in SUBSET Keys
        BY DEF Live, Pending, ActiveKeys
    <1>2. \A c \in SUBSET Invitations : Pending \ c \in SUBSET Invitations
        BY <1>1
    <1> QED BY <1>1, <1>2, Subsets DEF KeysUsed, SeatsUsed, SeatUsage

LEMMA CountsNext ==
    /\ Live' \in SUBSET People /\ Pending' \in SUBSET Invitations /\ ActiveKeys' \in SUBSET Keys
    /\ Cardinality(Live') \in Nat /\ KeysUsed' \in Nat /\ SeatsUsed' \in Nat
    /\ \A c \in SUBSET Invitations : Cardinality(Pending' \ c) \in Nat
    <1>1. Live' \in SUBSET People /\ Pending' \in SUBSET Invitations /\ ActiveKeys' \in SUBSET Keys
        BY DEF Live, Pending, ActiveKeys
    <1>2. \A c \in SUBSET Invitations : Pending' \ c \in SUBSET Invitations
        BY <1>1
    <1> QED BY <1>1, <1>2, Subsets DEF KeysUsed, SeatsUsed

\* A step that takes no seat and no key keeps what is counted an upper bound.
LEMMA UsesLess ==
    /\ Live' \subseteq Live /\ Pending' \subseteq Pending =>
          \A c \in SUBSET Invitations :
              Cardinality(Live') + Cardinality(Pending' \ c) <= SeatUsage(c)
    /\ ActiveKeys' \subseteq ActiveKeys => KeysUsed' <= KeysUsed
    <1>1. ASSUME Live' \subseteq Live, Pending' \subseteq Pending, NEW c \in SUBSET Invitations
          PROVE  Cardinality(Live') + Cardinality(Pending' \ c) <= SeatUsage(c)
        <2>1. Cardinality(Live') <= Cardinality(Live)
            BY <1>1, Counts, Subsets, Smaller
        <2>2. Pending' \ c \subseteq Pending \ c /\ Pending \ c \in SUBSET Invitations
            BY <1>1, Counts
        <2>3. Cardinality(Pending' \ c) <= Cardinality(Pending \ c)
            BY <2>2, Subsets, Smaller
        <2> QED BY <2>1, <2>3, Counts, CountsNext DEF SeatUsage
    <1>2. ASSUME ActiveKeys' \subseteq ActiveKeys PROVE KeysUsed' <= KeysUsed
        BY <1>2, Counts, Subsets, Smaller DEF KeysUsed
    <1> QED BY <1>1, <1>2

-----------------------------------------------------------------------------
(* The first state. *)

LEMMA IdleTyped == Idle \in Request /\ Idle.at = "idle" /\ Idle.consumed = {}
    BY DEF Idle, Request

LEMMA ClosedTyped ==
    /\ Closed \in Copy /\ Closed.what = "none"
    /\ Closed.actor = Founder /\ Closed.target = Founder
    BY PeopleAssumption DEF Closed, Copy

LEMMA InitInv == Init => OrgInv
    <1> SUFFICES ASSUME Init PROVE OrgInv
        OBVIOUS
    <1>1. request = [s \in Slots |-> Idle] /\ desk = [d \in Desks |-> Closed] /\ lock = None
          /\ overtaken = FALSE
          /\ rowLock = [i \in Invitations |-> None] /\ invitation = [i \in Invitations |-> None]
        BY DEF Init
    <1>2. user \in [People -> UserRow] /\ user[Founder].role = "owner"
        BY PeopleAssumption DEF Init, UserRow
    <1>3. organization \in [ownerId : People, deleted : BOOLEAN, limit : [Quotas -> Nat \cup {Unlimited}]]
        BY PeopleAssumption, LimitsAssumption DEF Init
    <1>4. key \in [Keys -> {"none", "active", "revoked"}]
        BY DEF Init
    <1>5. TypeOK
        BY <1>1, <1>2, <1>3, <1>4, IdleTyped, ClosedTyped DEF TypeOK
    <1>6. DeskFits
        BY <1>1, <1>2, ClosedTyped DEF DeskFits
    <1>7. RequestFits /\ Locked /\ CountFits
        BY <1>1, IdleTyped, NoneAssumption DEF RequestFits, Locked, CountFits
    <1> QED BY <1>5, <1>6, <1>7 DEF OrgInv

-----------------------------------------------------------------------------
(* What is common to several steps. *)

\* One transaction moves on without counting, and no row is written.
LEMMA MovesOn ==
    ASSUME OrgInv, NEW s \in Slots, NEW r \in Request, request' = [request EXCEPT ![s] = r],
           request[s].at # "counted", r.at # "counted", UNCHANGED <<rows, lock>>
    PROVE  /\ request' \in [Slots -> Request]
           /\ \A t \in Slots : request'[t] = IF t = s THEN r ELSE request[t]
           /\ Locked' /\ CountFits'
    <1>1. request \in [Slots -> Request]
        BY DEF OrgInv, TypeOK
    <1>2. request' \in [Slots -> Request] /\ \A t \in Slots : request'[t] = IF t = s THEN r ELSE request[t]
        BY <1>1
    <1>3. Locked'
        BY <1>2 DEF OrgInv, Locked
    <1>4. Live' = Live /\ Pending' = Pending /\ ActiveKeys' = ActiveKeys
        BY DEF rows, Live, Pending, Unanswered, ActiveKeys
    <1>5. ASSUME NEW t \in Slots, request'[t].at = "counted"
          PROVE  /\ request'[t].limit = organization'.limit[Quota(t)']
                 /\ request'[t].count >= IF request'[t].what = "key" THEN KeysUsed'
                                         ELSE SeatUsage(request[t].consumed)'
        <2>1. t # s /\ request'[t] = request[t]
            BY <1>2, <1>5
        <2> QED BY <2>1, <1>4, <1>5 DEF OrgInv, CountFits, rows, Quota, KeysUsed, SeatUsage
    <1>6. CountFits'
        BY <1>2, <1>5 DEF CountFits, SeatUsage
    <1> QED BY <1>2, <1>3, <1>6

\* A transaction ends, and rows that others have locked are as they were.
LEMMA Ended ==
    ASSUME OrgInv, NEW s \in Slots, request[s].at = "counted" \/ lock = None, Ends(s),
           \A i \in Invitations :
               rowLock[i] \in Slots \ {s} => invitation'[i] = invitation[i]
    PROVE  /\ request' \in [Slots -> Request] /\ lock' = None
           /\ rowLock' \in [Invitations -> Slots \cup {None}] /\ desk' = desk
           /\ overtaken' = overtaken
           /\ RequestFits' /\ Locked' /\ CountFits'
    <1>1. request \in [Slots -> Request] /\ rowLock \in [Invitations -> Slots \cup {None}]
          /\ lock \in Slots \cup {None}
        BY DEF OrgInv, TypeOK
    <1>2. request' = [request EXCEPT ![s] = Idle] /\ desk' = desk /\ overtaken' = overtaken
          /\ rowLock' = [i \in Invitations |-> IF rowLock[i] = s THEN None ELSE rowLock[i]]
          /\ lock' = IF lock = s THEN None ELSE lock
        BY DEF Ends
    <1>3. \A t \in Slots : request'[t] = IF t = s THEN Idle ELSE request[t]
        BY <1>1, <1>2
    <1>4. lock \in {s, None}
        BY <1>1 DEF OrgInv, Locked
    <1>5. \A t \in Slots : request'[t].at # "counted"
        BY <1>3, <1>4, IdleTyped, NoneAssumption DEF OrgInv, Locked
    <1>6. Locked' /\ CountFits'
        BY <1>2, <1>4, <1>5, NoneAssumption DEF Locked, CountFits
    <1>7. RequestFits'
        <2>1. ASSUME NEW t \in Slots, t # s, NEW i \in request[t].consumed
              PROVE  rowLock'[i] = t /\ Unanswered(i)' /\ invitation'[i] = invitation[i]
            <3>1. i \in Invitations /\ rowLock[i] = t /\ Unanswered(i)
                BY <1>1, <2>1 DEF OrgInv, RequestFits, Request
            <3> QED BY <1>2, <2>1, <3>1 DEF Unanswered
        <2>2. \A i \in Invitations : rowLock'[i] # s /\ (rowLock'[i] \in Slots => rowLock'[i] = rowLock[i])
            BY <1>2, NoneAssumption
        <2> QED BY <1>3, <2>1, <2>2, IdleTyped DEF OrgInv, RequestFits
    <1> QED BY <1>1, <1>2, <1>3, <1>4, <1>6, <1>7, IdleTyped

\* A statement outside the transactions gives back or changes nothing that is
\* counted, and leaves the rows they have locked as they are.
LEMMA Outside ==
    ASSUME OrgInv, UNCHANGED <<request, locks>>,
           Live' \subseteq Live, Pending' \subseteq Pending, ActiveKeys' \subseteq ActiveKeys,
           organization'.limit = organization.limit \/ lock = None,
           \A i \in Invitations :
               rowLock[i] \in Slots => /\ invitation'[i].email = invitation[i].email
                                       /\ Unanswered(i) => Unanswered(i)'
    PROVE  RequestFits' /\ Locked' /\ CountFits'
    <1>1. request \in [Slots -> Request] /\ request' = request /\ lock' = lock /\ rowLock' = rowLock
        BY DEF OrgInv, TypeOK, locks
    <1>2. RequestFits'
        <2>1. ASSUME NEW t \in Slots, NEW i \in request[t].consumed
              PROVE  Unanswered(i)' /\ invitation'[i].email = request[t].email
            <3>1. i \in Invitations /\ rowLock[i] = t /\ Unanswered(i) /\ invitation[i].email = request[t].email
                BY <1>1, <2>1 DEF OrgInv, RequestFits, Request
            <3> QED BY <3>1
        <2> QED BY <1>1, <2>1 DEF OrgInv, RequestFits
    <1>3. Locked'
        BY <1>1 DEF OrgInv, Locked
    <1>4. ASSUME NEW t \in Slots, request[t].at = "counted"
          PROVE  /\ request[t].limit = organization'.limit[Quota(t)]
                 /\ request[t].count >= IF request[t].what = "key" THEN KeysUsed'
                            ELSE Cardinality(Live') + Cardinality(Pending' \ request[t].consumed)
        <2>1. lock = t /\ organization'.limit = organization.limit
            BY <1>4, NoneAssumption DEF OrgInv, Locked
        <2>2. /\ request[t].limit = organization.limit[Quota(t)]
              /\ request[t].count >= IF request[t].what = "key" THEN KeysUsed
                                     ELSE SeatUsage(request[t].consumed)
            BY <1>4 DEF OrgInv, CountFits
        <2>3. request[t].consumed \in SUBSET Invitations /\ request[t].count \in Nat
            BY <1>1 DEF Request
        <2>4. Cardinality(Live') + Cardinality(Pending' \ request[t].consumed)
                  <= SeatUsage(request[t].consumed)
            BY <2>3, UsesLess
        <2>5. KeysUsed' <= KeysUsed
            BY UsesLess
        <2>6. /\ KeysUsed \in Nat /\ KeysUsed' \in Nat /\ SeatUsage(request[t].consumed) \in Nat
              /\ Cardinality(Live') + Cardinality(Pending' \ request[t].consumed) \in Nat
            <3>1. Cardinality(Live') \in Nat /\ Cardinality(Pending' \ request[t].consumed) \in Nat
                BY <2>3, CountsNext
            <3>2. KeysUsed \in Nat /\ KeysUsed' \in Nat /\ SeatUsage(request[t].consumed) \in Nat
                BY <2>3, Counts, CountsNext
            <3> QED BY <3>1, <3>2
        <2> QED BY <2>1, <2>2, <2>3, <2>4, <2>5, <2>6
    <1>5. CountFits'
        BY <1>1, <1>4 DEF CountFits, Quota, SeatUsage
    <1> QED BY <1>2, <1>3, <1>5

-----------------------------------------------------------------------------
(* The transactions. *)

LEMMA BeginInviteStep ==
    ASSUME OrgInv, NEW s \in Slots, NEW e \in People, BeginInvite(s, e)
    PROVE  OrgInv'
    <1> DEFINE r == [Idle EXCEPT !.at = "checked", !.email = e]
    <1>1. r \in Request /\ r.at = "checked" /\ r.what = "invite" /\ r.email = e /\ r.consumed = {}
        BY DEF Idle, Request
    <1>2. request' = [request EXCEPT ![s] = r] /\ request[s].at = "idle"
        BY DEF BeginInvite
    <1>3. UNCHANGED <<rows, locks, desk, overtaken>>
        BY DEF BeginInvite
    <1> HIDE DEF r
    <1>4. /\ request' \in [Slots -> Request] /\ Locked' /\ CountFits'
          /\ \A t \in Slots : request'[t] = IF t = s THEN r ELSE request[t]
        BY <1>1, <1>2, <1>3, MovesOn DEF locks
    <1>5. TypeOK'
        BY <1>3, <1>4 DEF OrgInv, TypeOK, rows, locks
    <1>6. DeskFits'
        BY <1>3 DEF OrgInv, DeskFits, rows
    <1>7. RequestFits'
        BY <1>1, <1>2, <1>3, <1>4 DEF OrgInv, RequestFits, Unanswered, rows, locks
    <1> QED BY <1>4, <1>5, <1>6, <1>7 DEF OrgInv

LEMMA SupersedeStep ==
    ASSUME OrgInv, NEW s \in Slots, Supersede(s)
    PROVE  OrgInv'
    <1> DEFINE open == {i \in Invitations : Unanswered(i) /\ invitation[i].email = request[s].email}
               r == [request[s] EXCEPT !.at = "waiting", !.consumed = open]
    <1>0. request \in [Slots -> Request] /\ rowLock \in [Invitations -> Slots \cup {None}]
        BY DEF OrgInv, TypeOK
    <1>1. /\ r \in Request /\ r.at = "waiting" /\ r.consumed = open
          /\ r.what = request[s].what /\ r.email = request[s].email
        BY <1>0 DEF Request
    <1>2. /\ request[s].at = "checked" /\ \A i \in open : rowLock[i] = None
          /\ rowLock' = [i \in Invitations |-> IF i \in open THEN s ELSE rowLock[i]]
          /\ UNCHANGED <<rows, lock, desk, overtaken>>
        BY DEF Supersede
    <1>3. request' = [request EXCEPT ![s] = r]
        BY <1>0 DEF Supersede
    <1>a. open \subseteq Invitations
          /\ \A i \in open : Unanswered(i) /\ invitation[i].email = request[s].email
        OBVIOUS
    <1> HIDE DEF r, open
    <1>4. /\ request' \in [Slots -> Request] /\ Locked' /\ CountFits'
          /\ \A t \in Slots : request'[t] = IF t = s THEN r ELSE request[t]
        BY <1>1, <1>2, <1>3, MovesOn
    <1>5. TypeOK'
        BY <1>0, <1>2, <1>4 DEF OrgInv, TypeOK, rows
    <1>6. DeskFits'
        BY <1>2 DEF OrgInv, DeskFits, rows
    <1>7. RequestFits'
        <2>1. request[s].what = "invite" /\ request[s].email \in People
            BY <1>2 DEF OrgInv, RequestFits
        <2>2. ASSUME NEW t \in Slots, t # s, NEW i \in request[t].consumed
              PROVE  rowLock'[i] = t /\ Unanswered(i)' /\ invitation'[i] = invitation[i]
            <3>1. i \in Invitations /\ rowLock[i] = t /\ Unanswered(i)
                BY <1>0, <2>2 DEF OrgInv, RequestFits, Request
            <3> QED BY <1>2, <3>1, NoneAssumption DEF Unanswered, rows
        <2>3. ASSUME NEW i \in open
              PROVE  rowLock'[i] = s /\ Unanswered(i)' /\ invitation'[i].email = request[s].email
            BY <1>2, <1>a, <2>3 DEF Unanswered, rows
        <2>4. \A i \in Invitations, t \in Slots :
                  rowLock'[i] = t => rowLock[i] = t \/ (t = s /\ i \in open)
            BY <1>2
        <2>7. \A i \in Invitations : rowLock[i] # s
            BY <1>2 DEF OrgInv, RequestFits
        <2> DEFINE Fits(t) ==
                /\ request'[t].at = "checked" => request'[t].what = "invite"
                /\ request'[t].at # "idle" /\ request'[t].what # "key" => request'[t].email \in People
                /\ request'[t].at # "idle" /\ request'[t].what = "accept" => request'[t].consumed # {}
                /\ \A i \in request'[t].consumed :
                      rowLock'[i] = t /\ Unanswered(i)' /\ invitation'[i].email = request'[t].email
                /\ \A i \in Invitations : rowLock'[i] = t =>
                      request'[t].at \in {"waiting", "counted"} /\ i \in request'[t].consumed
        <2>5. Fits(s)
            BY <1>1, <1>4, <2>1, <2>3, <2>4, <2>7
        <2>6. ASSUME NEW t \in Slots, t # s PROVE Fits(t)
            BY <1>4, <2>2, <2>4, <2>6 DEF OrgInv, RequestFits
        <2> QED BY <2>5, <2>6 DEF RequestFits
    <1> QED BY <1>4, <1>5, <1>6, <1>7 DEF OrgInv

LEMMA BeginAcceptStep ==
    ASSUME OrgInv, NEW s \in Slots, NEW i \in Invitations, BeginAccept(s, i)
    PROVE  OrgInv'
    <1> DEFINE r == [Idle EXCEPT !.at = "waiting", !.what = "accept",
                                 !.email = invitation[i].email, !.consumed = {i}]
    <1>0. request \in [Slots -> Request] /\ rowLock \in [Invitations -> Slots \cup {None}]
          /\ invitation \in [Invitations -> InvitationRow \cup {None}]
        BY DEF OrgInv, TypeOK
    <1>1. /\ request[s].at = "idle" /\ rowLock[i] = None /\ Unanswered(i)
          /\ rowLock' = [rowLock EXCEPT ![i] = s]
          /\ request' = [request EXCEPT ![s] = r]
          /\ UNCHANGED <<rows, lock, desk, overtaken>>
        BY DEF BeginAccept, Pending
    <1>2. invitation[i].email \in People
        BY <1>0, <1>1 DEF Unanswered, InvitationRow
    <1>3. /\ r \in Request /\ r.at = "waiting" /\ r.what = "accept"
          /\ r.email = invitation[i].email /\ r.consumed = {i}
        BY <1>2 DEF Idle, Request
    <1> HIDE DEF r
    <1>4. /\ request' \in [Slots -> Request] /\ Locked' /\ CountFits'
          /\ \A t \in Slots : request'[t] = IF t = s THEN r ELSE request[t]
        BY <1>1, <1>3, MovesOn
    <1>5. TypeOK'
        BY <1>0, <1>1, <1>4 DEF OrgInv, TypeOK, rows
    <1>6. DeskFits'
        BY <1>1 DEF OrgInv, DeskFits, rows
    <1>7. RequestFits'
        <2>1. ASSUME NEW t \in Slots, t # s, NEW j \in request[t].consumed
              PROVE  rowLock'[j] = t /\ Unanswered(j)' /\ invitation'[j] = invitation[j]
            <3>1. j \in Invitations /\ rowLock[j] = t /\ Unanswered(j)
                BY <1>0, <2>1 DEF OrgInv, RequestFits, Request
            <3> QED BY <1>0, <1>1, <3>1, NoneAssumption DEF Unanswered, rows
        <2>2. rowLock'[i] = s /\ Unanswered(i)' /\ invitation'[i] = invitation[i]
            BY <1>0, <1>1 DEF Unanswered, rows
        <2>3. \A j \in Invitations, t \in Slots : rowLock'[j] = t => (t = s /\ j = i) \/ rowLock[j] = t
            BY <1>0, <1>1
        <2> QED BY <1>1, <1>2, <1>3, <1>4, <2>1, <2>2, <2>3 DEF OrgInv, RequestFits, rows
    <1> QED BY <1>4, <1>5, <1>6, <1>7 DEF OrgInv

LEMMA BeginKeyStep ==
    ASSUME OrgInv, NEW s \in Slots, BeginKey(s)
    PROVE  OrgInv'
    <1> DEFINE r == [Idle EXCEPT !.at = "waiting", !.what = "key"]
    <1>1. r \in Request /\ r.at = "waiting" /\ r.what = "key" /\ r.consumed = {}
        BY DEF Idle, Request
    <1>2. request' = [request EXCEPT ![s] = r] /\ request[s].at = "idle"
        BY DEF BeginKey
    <1>3. UNCHANGED <<rows, locks, desk, overtaken>>
        BY DEF BeginKey
    <1> HIDE DEF r
    <1>4. /\ request' \in [Slots -> Request] /\ Locked' /\ CountFits'
          /\ \A t \in Slots : request'[t] = IF t = s THEN r ELSE request[t]
        BY <1>1, <1>2, <1>3, MovesOn DEF locks
    <1>5. TypeOK'
        BY <1>3, <1>4 DEF OrgInv, TypeOK, rows, locks
    <1>6. DeskFits'
        BY <1>3 DEF OrgInv, DeskFits, rows
    <1>7. RequestFits'
        BY <1>1, <1>2, <1>3, <1>4 DEF OrgInv, RequestFits, Unanswered, rows, locks
    <1> QED BY <1>4, <1>5, <1>6, <1>7 DEF OrgInv

\* The lock is taken, and what is counted is exact.
LEMMA LockAndCountStep ==
    ASSUME OrgInv, NEW s \in Slots, LockAndCount(s)
    PROVE  OrgInv'
    <1> DEFINE n == IF request[s].what = "key" THEN KeysUsed ELSE SeatUsage(request[s].consumed)
               r == [request[s] EXCEPT !.at = "counted", !.limit = organization.limit[Quota(s)],
                                       !.count = n]
    <1>0. request \in [Slots -> Request]
          /\ organization \in [ownerId : People, deleted : BOOLEAN, limit : [Quotas -> Nat \cup {Unlimited}]]
        BY DEF OrgInv, TypeOK
    <1>1. /\ request[s].at = "waiting" /\ lock \in {None, s} /\ lock' = s
          /\ UNCHANGED <<rows, rowLock, desk, overtaken>>
        BY DEF LockAndCount
    <1>2. request' = [request EXCEPT ![s] = r]
        BY <1>0 DEF LockAndCount
    <1>3. request[s].consumed \in SUBSET Invitations
        BY <1>0 DEF Request
    <1>4. n \in Nat
        BY <1>3, Counts
    <1>5. organization.limit[Quota(s)] \in Nat \cup {Unlimited}
        BY <1>0 DEF Quota, Quotas
    <1>6. /\ r.at = "counted" /\ r.limit = organization.limit[Quota(s)] /\ r.count = n
          /\ r.what = request[s].what /\ r.email = request[s].email
          /\ r.consumed = request[s].consumed /\ r \in Request
        <2> HIDE DEF n
        <2> QED BY <1>0, <1>4, <1>5 DEF Request
    <1>n. n = IF request[s].what = "key" THEN KeysUsed ELSE SeatUsage(request[s].consumed)
        OBVIOUS
    <1> HIDE DEF r, n
    <1>7. request' \in [Slots -> Request] /\ \A t \in Slots : request'[t] = IF t = s THEN r ELSE request[t]
        BY <1>0, <1>2, <1>6
    <1>8. \A t \in Slots : request[t].at # "counted"
        BY <1>1, NoneAssumption DEF OrgInv, Locked
    <1>9. Locked'
        BY <1>1, <1>6, <1>7, <1>8 DEF Locked
    <1>10. Live' = Live /\ Pending' = Pending /\ ActiveKeys' = ActiveKeys
        BY <1>1 DEF rows, Live, Pending, Unanswered, ActiveKeys
    <1>11. CountFits'
        <2>1. request'[s].limit = organization'.limit[Quota(s)']
            BY <1>1, <1>6, <1>7 DEF Quota, rows
        <2>2. request'[s].count >= IF request'[s].what = "key" THEN KeysUsed'
                                   ELSE Cardinality(Live') + Cardinality(Pending' \ request'[s].consumed)
            <3>1. KeysUsed' = KeysUsed
                BY <1>10 DEF KeysUsed
            <3>2. SeatUsage(request[s].consumed)
                      = Cardinality(Live') + Cardinality(Pending' \ request[s].consumed)
                BY <1>10 DEF SeatUsage
            <3>3. n = IF request'[s].what = "key" THEN KeysUsed'
                      ELSE Cardinality(Live') + Cardinality(Pending' \ request'[s].consumed)
                BY <1>n, <1>6, <1>7, <3>1, <3>2
            <3> QED BY <1>4, <1>6, <1>7, <3>3
        <2> QED BY <1>7, <1>8, <2>1, <2>2 DEF CountFits, SeatUsage
    <1>12. TypeOK'
        BY <1>1, <1>7 DEF OrgInv, TypeOK, rows
    <1>13. DeskFits'
        BY <1>1 DEF OrgInv, DeskFits, rows
    <1>14. RequestFits'
        BY <1>1, <1>6, <1>7 DEF OrgInv, RequestFits, Unanswered, rows
    <1> QED BY <1>9, <1>11, <1>12, <1>13, <1>14 DEF OrgInv

\* What a transaction has locked is its own.
LEMMA Consumed ==
    ASSUME OrgInv, NEW s \in Slots
    PROVE  /\ request[s].consumed \subseteq Invitations
           /\ \A i \in request[s].consumed : rowLock[i] = s /\ Unanswered(i) /\ invitation[i] \in InvitationRow
    <1>1. request[s] \in Request /\ invitation \in [Invitations -> InvitationRow \cup {None}]
        BY DEF OrgInv, TypeOK
    <1> QED BY <1>1 DEF OrgInv, RequestFits, Unanswered, Request

LEMMA CommitInviteRows ==
    ASSUME OrgInv, NEW s \in Slots, CommitInvite(s)
    PROVE  \E j \in Invitations :
              /\ invitation[j] = None
              /\ invitation'[j] = [email |-> request[s].email, accepted |-> FALSE,
                                   revoked |-> FALSE, expired |-> FALSE]
              /\ \A i \in request[s].consumed :
                    invitation'[i] = [invitation[i] EXCEPT !.revoked = TRUE]
              /\ \A i \in Invitations : i # j /\ i \notin request[s].consumed =>
                    invitation'[i] = invitation[i]
              /\ invitation' \in [Invitations -> InvitationRow \cup {None}]
              /\ \A i \in Invitations : invitation[i] # None => invitation'[i] # None
    <1>1. PICK j \in Invitations :
              /\ invitation[j] = None
              /\ invitation' = [i \in Invitations |->
                    IF i = j THEN [email |-> request[s].email, accepted |-> FALSE,
                                   revoked |-> FALSE, expired |-> FALSE]
                    ELSE IF i \in request[s].consumed THEN [invitation[i] EXCEPT !.revoked = TRUE]
                    ELSE invitation[i]]
        BY DEF CommitInvite
    <1>2. request[s].email \in People
        BY DEF OrgInv, RequestFits, CommitInvite, Granted
    <1>3. j \notin request[s].consumed
        BY <1>1, Consumed, RowsAssumption
    <1>4. [email |-> request[s].email, accepted |-> FALSE, revoked |-> FALSE, expired |-> FALSE] \in InvitationRow
        BY <1>2 DEF InvitationRow
    <1>5. \A i \in request[s].consumed : [invitation[i] EXCEPT !.revoked = TRUE] \in InvitationRow
        <2>1. \A row \in InvitationRow : [row EXCEPT !.revoked = TRUE] \in InvitationRow
            BY DEF InvitationRow
        <2> QED BY <2>1, Consumed
    <1>6. invitation \in [Invitations -> InvitationRow \cup {None}]
        BY DEF OrgInv, TypeOK
    <1>7. invitation' \in [Invitations -> InvitationRow \cup {None}]
        BY <1>1, <1>4, <1>5, <1>6
    <1>8. \A i \in Invitations : invitation[i] # None => invitation'[i] # None
        BY <1>1, <1>4, <1>5, RowsAssumption
    <1> QED BY <1>1, <1>3, <1>7, <1>8, Consumed

LEMMA CommitInviteStep ==
    ASSUME OrgInv, NEW s \in Slots, CommitInvite(s)
    PROVE  OrgInv'
    <1>1. request[s].at = "counted" /\ Ends(s) /\ UNCHANGED <<user, key, organization>>
        BY DEF CommitInvite, Granted
    <1>2. /\ \A i \in Invitations : rowLock[i] \in Slots \ {s} => invitation'[i] = invitation[i]
          /\ invitation' \in [Invitations -> InvitationRow \cup {None}]
          /\ \A i \in Invitations : invitation[i] # None => invitation'[i] # None
        <2>1. PICK j \in Invitations :
              /\ invitation[j] = None
              /\ \A i \in Invitations : i # j /\ i \notin request[s].consumed =>
                    invitation'[i] = invitation[i]
              /\ invitation' \in [Invitations -> InvitationRow \cup {None}]
              /\ \A i \in Invitations : invitation[i] # None => invitation'[i] # None
            BY CommitInviteRows
        <2>2. \A i \in Invitations : rowLock[i] \in Slots => invitation[i] # None
            BY Consumed, RowsAssumption DEF OrgInv, RequestFits
        <2> QED BY <2>1, <2>2, Consumed
    <1> QED BY <1>1, <1>2, Ended DEF OrgInv, TypeOK, DeskFits

LEMMA CommitAcceptRows ==
    ASSUME OrgInv, NEW s \in Slots, CommitAccept(s)
    PROVE  /\ \A i \in request[s].consumed :
                  invitation'[i] = [invitation[i] EXCEPT !.accepted = TRUE]
           /\ \A i \in Invitations : i \notin request[s].consumed => invitation'[i] = invitation[i]
           /\ invitation' \in [Invitations -> InvitationRow \cup {None}]
           /\ \A i \in Invitations : invitation[i] # None => invitation'[i] # None
    <1>1. invitation' = [i \in Invitations |->
              IF i \in request[s].consumed THEN [invitation[i] EXCEPT !.accepted = TRUE]
              ELSE invitation[i]]
        BY DEF CommitAccept
    <1>2. \A row \in InvitationRow : [row EXCEPT !.accepted = TRUE] \in InvitationRow
        BY DEF InvitationRow
    <1>3. \A i \in request[s].consumed : [invitation[i] EXCEPT !.accepted = TRUE] \in InvitationRow
        BY <1>2, Consumed
    <1>4. invitation \in [Invitations -> InvitationRow \cup {None}]
        BY DEF OrgInv, TypeOK
    <1>5. invitation' \in [Invitations -> InvitationRow \cup {None}]
        BY <1>1, <1>3, <1>4
    <1>6. \A i \in Invitations : invitation[i] # None => invitation'[i] # None
        BY <1>1, <1>3, RowsAssumption
    <1> QED BY <1>1, <1>5, <1>6, Consumed

LEMMA CommitAcceptStep ==
    ASSUME OrgInv, NEW s \in Slots, CommitAccept(s)
    PROVE  OrgInv'
    <1>1. /\ request[s].at = "counted" /\ request[s].what = "accept" /\ Ends(s)
          /\ user' = [user EXCEPT ![request[s].email] = [role |-> "member", deleted |-> FALSE]]
          /\ UNCHANGED <<key, organization>>
        BY DEF CommitAccept, Granted
    <1>2. user \in [People -> UserRow]
        BY DEF OrgInv, TypeOK
    <1>3. user' \in [People -> UserRow] /\ \A p \in People : user[p].role # "none" => user'[p].role # "none"
        BY <1>1, <1>2 DEF UserRow
    <1>4. \A i \in Invitations : rowLock[i] \in Slots \ {s} => invitation'[i] = invitation[i]
        BY Consumed, CommitAcceptRows
    <1>5. /\ request' \in [Slots -> Request] /\ lock' = None
          /\ rowLock' \in [Invitations -> Slots \cup {None}] /\ desk' = desk
          /\ overtaken' = overtaken
          /\ RequestFits' /\ Locked' /\ CountFits'
        BY <1>1, <1>4, Ended
    <1>6. TypeOK'
        BY <1>1, <1>3, <1>5, CommitAcceptRows DEF OrgInv, TypeOK
    <1>7. DeskFits'
        <2>1. \A d \in Desks : desk[d] \in Copy
            BY DEF OrgInv, TypeOK
        <2>2. \A d \in Desks : desk[d].actor \in People /\ desk[d].target \in People
            BY <2>1 DEF Copy
        <2> QED BY <1>3, <1>5, <2>2, CommitAcceptRows, PeopleAssumption DEF OrgInv, DeskFits
    <1> QED BY <1>5, <1>6, <1>7 DEF OrgInv

LEMMA CommitKeyStep ==
    ASSUME OrgInv, NEW s \in Slots, CommitKey(s)
    PROVE  OrgInv'
    <1>1. request[s].at = "counted" /\ Ends(s) /\ UNCHANGED <<user, invitation, organization>>
        BY DEF CommitKey, Granted
    <1>2. key' \in [Keys -> {"none", "active", "revoked"}]
        BY DEF CommitKey, OrgInv, TypeOK
    <1> QED BY <1>1, <1>2, Ended DEF OrgInv, TypeOK, DeskFits

LEMMA RefuseStep ==
    ASSUME OrgInv, NEW s \in Slots, Refuse(s)
    PROVE  OrgInv'
    <1>1. request[s].at = "counted" \/ lock = None
        BY DEF Refuse
    <1>2. Ends(s) /\ UNCHANGED rows
        BY DEF Refuse
    <1> QED BY <1>1, <1>2, Ended DEF OrgInv, TypeOK, DeskFits, rows

-----------------------------------------------------------------------------
(* The membership, and what needs one statement. *)

LEMMA LoadStep ==
    ASSUME OrgInv, NEW d \in Desks, NEW c \in Copy, Load(d, c),
           user[c.actor].role # "none", user[c.target].role # "none",
           c.what = "revoke" => c.invitation \in Invitations /\ invitation[c.invitation] # None
    PROVE  OrgInv'
    <1>1. desk \in [Desks -> Copy] /\ desk' = [desk EXCEPT ![d] = c]
          /\ UNCHANGED <<rows, locks, request, overtaken>>
        BY DEF OrgInv, TypeOK, Load
    <1>2. TypeOK'
        BY <1>1 DEF OrgInv, TypeOK, rows, locks
    <1>3. DeskFits'
        BY <1>1 DEF OrgInv, DeskFits, rows
    <1>4. /\ Live' = Live /\ Pending' = Pending /\ ActiveKeys' = ActiveKeys
          /\ \A i \in Invitations : (Unanswered(i))' = Unanswered(i)
        BY <1>1 DEF rows, Live, Pending, Unanswered, ActiveKeys
    <1>5. RequestFits' /\ Locked' /\ CountFits'
        BY <1>1, <1>4, Outside DEF rows
    <1> QED BY <1>2, <1>3, <1>5 DEF OrgInv

LEMMA OpenStep ==
    ASSUME OrgInv, NEW d \in Desks, Open(d)
    PROVE  OrgInv'
    <1>0. /\ organization.ownerId \in People
          /\ \A p \in Live : p \in People /\ user[p].role # "none"
          /\ user[Founder].role # "none"
        BY DEF OrgInv, TypeOK, DeskFits, Live
    <1>1. CASE LoadTransfer(d)
        <2>1. PICK target \in Live :
                  /\ organization.ownerId \in Live
                  /\ Load(d, [Closed EXCEPT !.what = "transfer", !.actor = organization.ownerId,
                                            !.target = target])
            BY <1>1 DEF LoadTransfer
        <2> DEFINE c == [Closed EXCEPT !.what = "transfer", !.actor = organization.ownerId,
                                       !.target = target]
        <2>2. c \in Copy /\ c.what = "transfer" /\ c.actor = organization.ownerId /\ c.target = target
            BY <1>0 DEF Closed, Copy
        <2> QED BY <1>0, <2>1, <2>2, LoadStep
    <1>2. CASE LoadRemove(d)
        <2>1. PICK actor \in Live, target \in Live :
                  Load(d, [Closed EXCEPT !.what = "remove", !.actor = actor, !.target = target])
            BY <1>2 DEF LoadRemove
        <2> DEFINE c == [Closed EXCEPT !.what = "remove", !.actor = actor, !.target = target]
        <2>2. c \in Copy /\ c.what = "remove" /\ c.actor = actor /\ c.target = target
            BY <1>0 DEF Closed, Copy
        <2> QED BY <1>0, <2>1, <2>2, LoadStep
    <1>3. CASE LoadLeave(d)
        <2>1. PICK p \in Live :
                  Load(d, [Closed EXCEPT !.what = "leave", !.actor = p, !.target = p])
            BY <1>3 DEF LoadLeave
        <2> DEFINE c == [Closed EXCEPT !.what = "leave", !.actor = p, !.target = p]
        <2>2. c \in Copy /\ c.what = "leave" /\ c.actor = p /\ c.target = p
            BY <1>0 DEF Closed, Copy
        <2> QED BY <1>0, <2>1, <2>2, LoadStep
    <1>4. CASE LoadDelete(d)
        <2> DEFINE c == [Closed EXCEPT !.what = "delete", !.actor = organization.ownerId, !.live = Live]
        <2>1. organization.ownerId \in Live /\ Load(d, c)
            BY <1>4 DEF LoadDelete
        <2>2. c \in Copy /\ c.what = "delete" /\ c.actor = organization.ownerId /\ c.target = Founder
            BY <1>0, PeopleAssumption DEF Closed, Copy
        <2> QED BY <1>0, <2>1, <2>2, LoadStep
    <1>5. CASE LoadRevoke(d)
        <2>1. PICK i \in Pending : Load(d, [Closed EXCEPT !.what = "revoke", !.invitation = i])
            BY <1>5 DEF LoadRevoke
        <2> DEFINE c == [Closed EXCEPT !.what = "revoke", !.invitation = i]
        <2>2. i \in Invitations /\ invitation[i] # None
            BY DEF Pending, Unanswered
        <2>3. /\ c \in Copy /\ c.what = "revoke" /\ c.invitation = i
              /\ c.actor = Founder /\ c.target = Founder
            BY <2>2, PeopleAssumption DEF Closed, Copy
        <2> QED BY <1>0, <2>1, <2>2, <2>3, LoadStep
    <1> QED BY <1>1, <1>2, <1>3, <1>4, <1>5 DEF Open

LEMMA SavedTyped ==
    ASSUME NEW d \in Desks, Saved(d), overtaken \in BOOLEAN
    PROVE  overtaken' \in BOOLEAN
    BY DEF Saved, Outdated

\* A save of users' rows that nobody comes out of as a live member who was none.
LEMMA UsersSaved ==
    ASSUME OrgInv, NEW d \in Desks, Saved(d), UNCHANGED <<invitation, key>>,
           user' \in [People -> UserRow],
           organization' \in [ownerId : People, deleted : BOOLEAN, limit : [Quotas -> Nat \cup {Unlimited}]],
           organization'.limit = organization.limit,
           \A p \in People : /\ user[p].role # "none" => user'[p].role # "none"
                             /\ user'[p].role # "none" /\ ~user'[p].deleted => p \in Live
    PROVE  OrgInv'
    <1>1. desk \in [Desks -> Copy] /\ desk' = [desk EXCEPT ![d] = Closed]
          /\ overtaken' \in BOOLEAN /\ UNCHANGED <<locks, request>>
        BY SavedTyped DEF OrgInv, TypeOK, Saved
    <1>2. TypeOK'
        BY <1>1, ClosedTyped DEF OrgInv, TypeOK, locks
    <1>3. \A e \in Desks : desk[e].actor \in People /\ desk[e].target \in People
        BY <1>1 DEF Copy
    <1>4. DeskFits'
        <2>1. user'[Founder].role # "none"
            BY PeopleAssumption DEF OrgInv, DeskFits
        <2> QED BY <1>1, <1>3, <2>1, ClosedTyped DEF OrgInv, DeskFits
    <1>5. Live' \subseteq Live
        BY DEF Live
    <1>6. /\ Pending' = Pending /\ ActiveKeys' = ActiveKeys
          /\ \A i \in Invitations : (Unanswered(i))' = Unanswered(i)
        BY DEF Pending, Unanswered, ActiveKeys
    <1>7. RequestFits' /\ Locked' /\ CountFits'
        BY <1>1, <1>5, <1>6, Outside
    <1> QED BY <1>2, <1>4, <1>7 DEF OrgInv

LEMMA SaveStep ==
    ASSUME OrgInv, NEW d \in Desks, Save(d)
    PROVE  OrgInv'
    <1>0. /\ user \in [People -> UserRow] /\ desk[d] \in Copy
          /\ organization \in [ownerId : People, deleted : BOOLEAN, limit : [Quotas -> Nat \cup {Unlimited}]]
          /\ user[desk[d].actor].role # "none" /\ user[desk[d].target].role # "none"
        BY DEF OrgInv, TypeOK, DeskFits
    <1>a. desk[d].actor \in People /\ desk[d].target \in People /\ desk[d].live \in SUBSET People
        BY <1>0 DEF Copy
    <1>1. CASE Transfer(d)
        <2>1. /\ user' = [user EXCEPT ![desk[d].target].role = "owner", ![desk[d].actor].role = "member"]
              /\ organization' = [organization EXCEPT !.ownerId = desk[d].target]
              /\ Saved(d) /\ UNCHANGED <<invitation, key>>
            BY <1>1 DEF Transfer
        <2>2. user' \in [People -> UserRow]
            BY <1>0, <1>a, <2>1 DEF UserRow
        <2>3. \A p \in People : /\ user'[p].deleted = user[p].deleted
                                /\ user[p].role # "none" <=> user'[p].role # "none"
            BY <1>0, <1>a, <2>1 DEF UserRow
        <2>4. organization' \in [ownerId : People, deleted : BOOLEAN, limit : [Quotas -> Nat \cup {Unlimited}]]
              /\ organization'.limit = organization.limit
            BY <1>0, <1>a, <2>1
        <2> QED BY <2>1, <2>2, <2>3, <2>4, UsersSaved DEF Live
    <1>2. CASE SoftDelete(d)
        <2>1. /\ user' = [user EXCEPT ![desk[d].target].deleted = TRUE]
              /\ Saved(d) /\ UNCHANGED <<invitation, key, organization>>
            BY <1>2 DEF SoftDelete
        <2>2. user' \in [People -> UserRow]
            BY <1>0, <1>a, <2>1 DEF UserRow
        <2>3. \A p \in People : /\ user'[p].role = user[p].role
                                /\ user[p].deleted => user'[p].deleted
            BY <1>0, <1>a, <2>1 DEF UserRow
        <2> QED BY <1>0, <2>1, <2>2, <2>3, UsersSaved DEF Live
    <1>3. CASE DeleteOrganization(d)
        <2>1. /\ user' = [p \in People |-> IF p \in desk[d].live THEN [user[p] EXCEPT !.deleted = TRUE]
                                           ELSE user[p]]
              /\ organization' = [organization EXCEPT !.deleted = TRUE]
              /\ Saved(d) /\ UNCHANGED <<invitation, key>>
            BY <1>3 DEF DeleteOrganization
        <2>2. user' \in [People -> UserRow]
            BY <1>0, <1>a, <2>1 DEF UserRow
        <2>3. \A p \in People : /\ user'[p].role = user[p].role
                                /\ user[p].deleted => user'[p].deleted
            BY <1>0, <1>a, <2>1 DEF UserRow
        <2>4. organization' \in [ownerId : People, deleted : BOOLEAN, limit : [Quotas -> Nat \cup {Unlimited}]]
              /\ organization'.limit = organization.limit
            BY <1>0, <2>1
        <2> QED BY <2>1, <2>2, <2>3, <2>4, UsersSaved DEF Live
    <1>4. CASE Revoke(d)
        <2> DEFINE j == desk[d].invitation
        <2>1. /\ desk[d].what = "revoke" /\ rowLock[j] = None
              /\ invitation' = [invitation EXCEPT ![j].revoked = TRUE]
              /\ Saved(d) /\ UNCHANGED <<user, key, organization>>
            BY <1>4 DEF Revoke
        <2>2. j \in Invitations /\ invitation[j] # None
              /\ invitation \in [Invitations -> InvitationRow \cup {None}]
            BY <2>1 DEF OrgInv, TypeOK, DeskFits
        <2>3. [invitation[j] EXCEPT !.revoked = TRUE] \in InvitationRow
              /\ [invitation[j] EXCEPT !.revoked = TRUE].revoked = TRUE
            BY <2>2 DEF InvitationRow
        <2> HIDE DEF j
        <2>4. /\ invitation' \in [Invitations -> InvitationRow \cup {None}]
              /\ \A i \in Invitations : i # j => invitation'[i] = invitation[i]
              /\ invitation'[j] # None /\ invitation'[j].revoked
            BY <2>1, <2>2, <2>3, RowsAssumption DEF j
        <2>5. desk \in [Desks -> Copy] /\ desk' = [desk EXCEPT ![d] = Closed]
              /\ overtaken' \in BOOLEAN /\ UNCHANGED <<locks, request>>
            BY <2>1, SavedTyped DEF OrgInv, TypeOK, Saved
        <2>6. TypeOK'
            BY <2>1, <2>4, <2>5, ClosedTyped DEF OrgInv, TypeOK, locks
        <2>7. DeskFits'
            BY <2>1, <2>4, <2>5, ClosedTyped DEF OrgInv, DeskFits
        <2>8. Live' = Live /\ ActiveKeys' = ActiveKeys /\ Pending' \subseteq Pending
            BY <2>1, <2>4 DEF Live, ActiveKeys, Pending, Unanswered
        <2>9. \A i \in Invitations : rowLock[i] \in Slots =>
                  invitation'[i] = invitation[i] /\ (Unanswered(i))' = Unanswered(i)
            BY <2>1, <2>4, NoneAssumption DEF Unanswered, j
        <2>10. RequestFits' /\ Locked' /\ CountFits'
            BY <2>1, <2>5, <2>8, <2>9, Outside
        <2> QED BY <2>6, <2>7, <2>10 DEF OrgInv
    <1> QED BY <1>1, <1>2, <1>3, <1>4 DEF Save

LEMMA RevokeKeyStep ==
    ASSUME OrgInv, NEW k \in Keys, RevokeKey(k)
    PROVE  OrgInv'
    <1>1. key' = [key EXCEPT ![k] = "revoked"]
          /\ UNCHANGED <<user, invitation, organization, locks, request, desk, overtaken>>
        BY DEF RevokeKey
    <1>2. key \in [Keys -> {"none", "active", "revoked"}]
        BY DEF OrgInv, TypeOK
    <1>3. TypeOK' /\ DeskFits'
        BY <1>1, <1>2 DEF OrgInv, TypeOK, DeskFits, locks
    <1>4. /\ Live' = Live /\ Pending' = Pending /\ ActiveKeys' \subseteq ActiveKeys
          /\ \A i \in Invitations : (Unanswered(i))' = Unanswered(i)
        BY <1>1, <1>2 DEF Live, Pending, ActiveKeys, Unanswered
    <1> QED BY <1>1, <1>3, <1>4, Outside DEF OrgInv

LEMMA OverrideStep ==
    ASSUME OrgInv, NEW q \in Quotas, NEW l \in Limits(q), OverrideLimit(q, l)
    PROVE  OrgInv'
    <1>1. lock = None /\ organization' = [organization EXCEPT !.limit[q] = l]
          /\ UNCHANGED <<user, invitation, key, locks, request, desk, overtaken>>
        BY DEF OverrideLimit
    <1>2. l \in Nat \cup {Unlimited}
        BY LimitsAssumption DEF Limits
    <1>3. TypeOK' /\ DeskFits'
        BY <1>1, <1>2 DEF OrgInv, TypeOK, DeskFits, locks
    <1>4. /\ Live' = Live /\ Pending' = Pending /\ ActiveKeys' = ActiveKeys
          /\ \A i \in Invitations : (Unanswered(i))' = Unanswered(i)
        BY <1>1 DEF Live, Pending, ActiveKeys, Unanswered
    <1> QED BY <1>1, <1>3, <1>4, Outside DEF OrgInv

LEMMA ExpireStep ==
    ASSUME OrgInv, NEW i \in Invitations, Expire(i)
    PROVE  OrgInv'
    <1>1. i \in Pending /\ invitation' = [invitation EXCEPT ![i].expired = TRUE]
          /\ UNCHANGED <<user, key, organization, locks, request, desk, overtaken>>
        BY DEF Expire
    <1>2. invitation \in [Invitations -> InvitationRow \cup {None}] /\ invitation[i] # None
        BY <1>1 DEF OrgInv, TypeOK, Pending, Unanswered
    <1>3. LET new == [invitation[i] EXCEPT !.expired = TRUE] IN
          /\ new \in InvitationRow /\ new.expired /\ new.email = invitation[i].email
          /\ new.accepted = invitation[i].accepted /\ new.revoked = invitation[i].revoked
        BY <1>2 DEF InvitationRow
    <1>4. /\ invitation' \in [Invitations -> InvitationRow \cup {None}]
          /\ \A j \in Invitations : j # i => invitation'[j] = invitation[j]
          /\ invitation'[i] # None /\ invitation'[i].expired
          /\ invitation'[i].email = invitation[i].email
          /\ (Unanswered(i))' = Unanswered(i)
        BY <1>1, <1>2, <1>3, RowsAssumption DEF Unanswered
    <1>5. TypeOK' /\ DeskFits'
        BY <1>1, <1>4 DEF OrgInv, TypeOK, DeskFits, locks
    <1>6. /\ Live' = Live /\ ActiveKeys' = ActiveKeys /\ Pending' \subseteq Pending
          /\ \A j \in Invitations : invitation'[j].email = invitation[j].email
                                    /\ (Unanswered(j))' = Unanswered(j)
        BY <1>1, <1>4 DEF Live, Pending, ActiveKeys, Unanswered
    <1> QED BY <1>1, <1>5, <1>6, Outside DEF OrgInv

LEMMA NextInv == OrgInv /\ [Next]_vars => OrgInv'
    <1> SUFFICES ASSUME OrgInv, [Next]_vars PROVE OrgInv'
        OBVIOUS
    <1>1. ASSUME NEW s \in Slots, Begin(s) PROVE OrgInv'
        BY <1>1, BeginInviteStep, BeginAcceptStep, BeginKeyStep DEF Begin
    <1>2. ASSUME NEW s \in Slots, Proceed(s) PROVE OrgInv'
        BY <1>2, SupersedeStep, LockAndCountStep, CommitInviteStep, CommitAcceptStep,
           CommitKeyStep, RefuseStep DEF Proceed
    <1>3. CASE UNCHANGED vars
        <2>1. /\ Live' = Live /\ Pending' = Pending /\ ActiveKeys' = ActiveKeys
              /\ \A i \in Invitations : (Unanswered(i))' = Unanswered(i)
            BY <1>3 DEF vars, Live, Pending, ActiveKeys, Unanswered
        <2>2. TypeOK' /\ DeskFits'
            BY <1>3 DEF vars, OrgInv, TypeOK, DeskFits
        <2> QED BY <1>3, <2>1, <2>2, Outside DEF vars, OrgInv, locks
    <1> QED BY <1>1, <1>2, <1>3, OpenStep, SaveStep, RevokeKeyStep, OverrideStep, ExpireStep DEF Next

-----------------------------------------------------------------------------
(* Who takes a seat or a key. *)

LEMMA SaveShrinks ==
    ASSUME OrgInv, NEW d \in Desks, Save(d)
    PROVE  /\ Live' \subseteq Live /\ Pending' \subseteq Pending /\ key' = key
           /\ organization'.limit = organization.limit
    <1>1. /\ user \in [People -> UserRow] /\ desk[d] \in Copy
          /\ invitation \in [Invitations -> InvitationRow \cup {None}]
          /\ organization \in [ownerId : People, deleted : BOOLEAN, limit : [Quotas -> Nat \cup {Unlimited}]]
          /\ user[desk[d].actor].role # "none" /\ user[desk[d].target].role # "none"
        BY DEF OrgInv, TypeOK, DeskFits
    <1>2. desk[d].actor \in People /\ desk[d].target \in People
        BY <1>1 DEF Copy
    <1>3. CASE Transfer(d)
        <2>1. /\ user' = [user EXCEPT ![desk[d].target].role = "owner", ![desk[d].actor].role = "member"]
              /\ organization' = [organization EXCEPT !.ownerId = desk[d].target]
              /\ UNCHANGED <<invitation, key>>
            BY <1>3 DEF Transfer
        <2>2. \A p \in People : /\ user'[p].deleted = user[p].deleted
                                /\ user'[p].role # "none" => user[p].role # "none"
            BY <1>1, <1>2, <2>1 DEF UserRow
        <2> QED BY <1>1, <2>1, <2>2 DEF Live, Pending, Unanswered
    <1>4. CASE SoftDelete(d)
        <2>1. \A p \in People : user'[p].role = user[p].role
                                /\ (user[p].deleted => user'[p].deleted)
            BY <1>1, <1>2, <1>4 DEF SoftDelete, UserRow
        <2> QED BY <1>4, <2>1 DEF SoftDelete, Live, Pending, Unanswered
    <1>5. CASE DeleteOrganization(d)
        <2>1. \A p \in People : user'[p].role = user[p].role
                                /\ (user[p].deleted => user'[p].deleted)
            BY <1>1, <1>2, <1>5 DEF DeleteOrganization, UserRow
        <2> QED BY <1>1, <1>5, <2>1 DEF DeleteOrganization, Live, Pending, Unanswered
    <1>6. CASE Revoke(d)
        <2> DEFINE j == desk[d].invitation
        <2>1. /\ j \in Invitations /\ invitation[j] # None
              /\ invitation' = [invitation EXCEPT ![j].revoked = TRUE]
              /\ UNCHANGED <<user, key, organization>>
            BY <1>6 DEF Revoke, OrgInv, DeskFits
        <2>2. [invitation[j] EXCEPT !.revoked = TRUE].revoked = TRUE
            BY <1>1, <2>1 DEF InvitationRow
        <2>3. invitation'[j].revoked /\ \A i \in Invitations : i # j => invitation'[i] = invitation[i]
            BY <1>1, <2>1, <2>2
        <2> QED BY <2>1, <2>3 DEF Live, Pending, Unanswered
    <1> QED BY <1>3, <1>4, <1>5, <1>6 DEF Save

\* Every other step gives back or leaves alone, and limits are set by staff.
LEMMA WhoTakes ==
    ASSUME OrgInv, Next
    PROVE  \/ \E s \in Slots : CommitInvite(s) \/ CommitAccept(s) \/ CommitKey(s)
           \/ \E q \in Quotas : \E l \in Limits(q) : OverrideLimit(q, l)
           \/ /\ Live' \subseteq Live /\ Pending' \subseteq Pending
              /\ ActiveKeys' \subseteq ActiveKeys
              /\ organization'.limit = organization.limit
    <1> DEFINE Gives == /\ Live' \subseteq Live /\ Pending' \subseteq Pending
                        /\ ActiveKeys' \subseteq ActiveKeys
                        /\ organization'.limit = organization.limit
    <1>1. ASSUME UNCHANGED rows PROVE Gives
        BY <1>1 DEF rows, Live, Pending, Unanswered, ActiveKeys
    <1>2. ASSUME NEW d \in Desks, Save(d) PROVE Gives
        BY <1>2, SaveShrinks DEF ActiveKeys
    <1>3. ASSUME NEW k \in Keys, RevokeKey(k) PROVE Gives
        <2>1. key \in [Keys -> {"none", "active", "revoked"}]
            BY DEF OrgInv, TypeOK
        <2> QED BY <1>3, <2>1 DEF RevokeKey, Live, Pending, Unanswered, ActiveKeys
    <1>4. ASSUME NEW i \in Invitations, Expire(i) PROVE Gives
        <2>1. /\ i \in Pending /\ invitation' = [invitation EXCEPT ![i].expired = TRUE]
              /\ UNCHANGED <<user, key, organization>>
            BY <1>4 DEF Expire
        <2>2. \A j \in Invitations : j # i => invitation'[j] = invitation[j]
            BY <2>1 DEF OrgInv, TypeOK
        <2> QED BY <2>1, <2>2 DEF Live, Pending, Unanswered, ActiveKeys
    <1>5. ASSUME NEW s \in Slots, Begin(s) PROVE Gives
        BY <1>1, <1>5 DEF Begin, BeginInvite, BeginAccept, BeginKey
    <1>6. ASSUME NEW d \in Desks, Open(d) PROVE Gives
        BY <1>1, <1>6 DEF Open, LoadTransfer, LoadRemove, LoadLeave, LoadDelete, LoadRevoke, Load
    <1>7. ASSUME NEW s \in Slots, Supersede(s) \/ LockAndCount(s) \/ Refuse(s) PROVE Gives
        BY <1>1, <1>7 DEF Supersede, LockAndCount, Refuse
    <1> HIDE DEF Gives
    <1>8. \/ \E s \in Slots : CommitInvite(s) \/ CommitAccept(s) \/ CommitKey(s)
          \/ \E q \in Quotas : \E l \in Limits(q) : OverrideLimit(q, l)
          \/ Gives
        BY <1>2, <1>3, <1>4, <1>5, <1>6, <1>7 DEF Next, Proceed
    <1> QED BY <1>8 DEF Gives

\* A claim stays within the limit in force when it is committed.
LEMMA SeatClaimed ==
    ASSUME OrgInv, NEW s \in Slots, CommitInvite(s) \/ CommitAccept(s)
    PROVE  /\ SeatsUsed' \in Nat
           /\ organization.limit["seats"] = Unlimited \/ SeatsUsed' <= organization.limit["seats"]
           /\ organization' = organization
    <1> DEFINE c == request[s].consumed
    <1>1. /\ Granted(s) /\ request[s].what \in {"invite", "accept"} /\ organization' = organization
        BY DEF CommitInvite, CommitAccept
    <1>2. c \in SUBSET Invitations /\ request[s].count \in Nat
          /\ organization.limit["seats"] \in Nat \cup {Unlimited}
        BY DEF OrgInv, TypeOK, Request, Quotas
    <1>3. /\ request[s].at = "counted" /\ request[s].limit = organization.limit["seats"]
          /\ SeatUsage(c) <= request[s].count
        <2>1. request[s].at = "counted"
            BY <1>1 DEF Granted
        <2>2. SeatUsage(c) \in Nat
            BY <1>2, Counts
        <2>3. Quota(s) = "seats"
            BY <1>1 DEF Quota
        <2> QED BY <1>1, <1>2, <2>1, <2>2, <2>3 DEF OrgInv, CountFits
    <1>4. Cardinality(Live) \in Nat /\ Cardinality(Pending \ c) \in Nat
          /\ Cardinality(Live') \in Nat /\ Cardinality(Pending') \in Nat
        <2>1. Pending' \in SUBSET Invitations
            BY CountsNext
        <2> QED BY <1>2, <2>1, Counts, CountsNext, Subsets
    <1>5. Cardinality(Live') + Cardinality(Pending') <= Cardinality(Live) + Cardinality(Pending \ c) + 1
        <2>0. IsFiniteSet(Live) /\ IsFiniteSet(Pending \ c)
            <3>1. Live \in SUBSET People /\ Pending \ c \in SUBSET Invitations
                BY Counts
            <3> QED BY <3>1, Subsets
        <2>1. CASE CommitInvite(s)
            <3>1. PICK j \in Invitations :
                      /\ \A i \in c : invitation'[i] = [invitation[i] EXCEPT !.revoked = TRUE]
                      /\ \A i \in Invitations : i # j /\ i \notin c => invitation'[i] = invitation[i]
                BY <2>1, CommitInviteRows
            <3>2. \A i \in c : invitation'[i].revoked
                <4>1. \A row \in InvitationRow : [row EXCEPT !.revoked = TRUE].revoked = TRUE
                    BY DEF InvitationRow
                <4>2. ASSUME NEW i \in c PROVE invitation'[i].revoked = TRUE
                    <5>1. invitation[i] \in InvitationRow
                        BY Consumed
                    <5>2. [invitation[i] EXCEPT !.revoked = TRUE].revoked = TRUE
                        BY <4>1, <5>1
                    <5> QED BY <3>1, <5>2
                <4> QED BY <4>2
            <3>3. Pending' \subseteq (Pending \ c) \cup {j}
                BY <3>1, <3>2 DEF Pending, Unanswered
            <3>4. Live' = Live
                BY <2>1 DEF CommitInvite, Live
            <3>5. Cardinality(Pending') <= Cardinality(Pending \ c) + 1
                BY <2>0, <3>3, OneMore
            <3> QED BY <1>4, <3>4, <3>5
        <2>2. CASE CommitAccept(s)
            <3>1. /\ \A i \in c : invitation'[i] = [invitation[i] EXCEPT !.accepted = TRUE]
                  /\ \A i \in Invitations : i \notin c => invitation'[i] = invitation[i]
                BY <2>2, CommitAcceptRows
            <3>2. \A i \in c : invitation'[i].accepted
                <4>1. \A row \in InvitationRow : [row EXCEPT !.accepted = TRUE].accepted = TRUE
                    BY DEF InvitationRow
                <4>2. ASSUME NEW i \in c PROVE invitation'[i].accepted = TRUE
                    <5>1. invitation[i] \in InvitationRow
                        BY Consumed
                    <5>2. [invitation[i] EXCEPT !.accepted = TRUE].accepted = TRUE
                        BY <4>1, <5>1
                    <5> QED BY <3>1, <5>2
                <4> QED BY <4>2
            <3>3. Pending' \subseteq Pending \ c
                BY <3>1, <3>2 DEF Pending, Unanswered
            <3>4. \A p \in People : p # request[s].email => user'[p] = user[p]
                BY <2>2 DEF CommitAccept, OrgInv, TypeOK
            <3>5. Live' \subseteq Live \cup {request[s].email}
                BY <3>4 DEF Live
            <3>6. Cardinality(Live') <= Cardinality(Live) + 1
                BY <2>0, <3>5, OneMore
            <3>7. Cardinality(Pending') <= Cardinality(Pending \ c)
                BY <2>0, <3>3, Smaller
            <3> QED BY <1>4, <3>6, <3>7
        <2> QED BY <2>1, <2>2
    <1>6. SeatsUsed' = Cardinality(Live') + Cardinality(Pending')
          /\ SeatUsage(c) = Cardinality(Live) + Cardinality(Pending \ c)
        BY DEF SeatsUsed, SeatUsage
    <1>7. request[s].limit = Unlimited \/ request[s].count + 1 <= request[s].limit
        BY <1>1 DEF Granted, IsWithinLimit
    <1> HIDE DEF c
    <1>8. SeatsUsed' \in Nat /\ SeatsUsed' <= request[s].count + 1
        BY <1>2, <1>3, <1>4, <1>5, <1>6
    <1> QED BY <1>1, <1>2, <1>3, <1>7, <1>8

LEMMA KeyClaimed ==
    ASSUME OrgInv, NEW s \in Slots, CommitKey(s)
    PROVE  /\ KeysUsed' \in Nat
           /\ organization.limit["apiKeys"] = Unlimited \/ KeysUsed' <= organization.limit["apiKeys"]
           /\ organization' = organization
    <1>1. /\ Granted(s) /\ request[s].what = "key" /\ organization' = organization
        BY DEF CommitKey
    <1>2. request[s].count \in Nat /\ organization.limit["apiKeys"] \in Nat \cup {Unlimited}
          /\ key \in [Keys -> {"none", "active", "revoked"}]
        BY DEF OrgInv, TypeOK, Request, Quotas
    <1>3. request[s].limit = organization.limit["apiKeys"] /\ KeysUsed <= request[s].count
        <2>1. Quota(s) = "apiKeys" /\ request[s].at = "counted"
            BY <1>1 DEF Quota, Granted
        <2>2. KeysUsed \in Nat
            BY Counts
        <2> QED BY <1>1, <1>2, <2>1, <2>2 DEF OrgInv, CountFits
    <1>4. PICK k \in Keys : key' = [key EXCEPT ![k] = "active"]
        BY DEF CommitKey
    <1>5. ActiveKeys' \subseteq ActiveKeys \cup {k} /\ IsFiniteSet(ActiveKeys)
        <2>1. ActiveKeys' \subseteq ActiveKeys \cup {k}
            BY <1>2, <1>4 DEF ActiveKeys
        <2> QED BY <2>1, Counts, Subsets
    <1>6. KeysUsed' <= KeysUsed + 1
        BY <1>5, OneMore DEF KeysUsed
    <1>7. request[s].limit = Unlimited \/ request[s].count + 1 <= request[s].limit
        BY <1>1 DEF Granted, IsWithinLimit
    <1> QED BY <1>1, <1>2, <1>3, <1>6, <1>7, Counts, CountsNext

-----------------------------------------------------------------------------
(* Theorems. *)

\* The inductive invariant: what each transaction relies on when it commits.
THEOREM Invariant == Spec => []OrgInv
    <1>1. Init => OrgInv
        BY InitInv
    <1>2. OrgInv /\ [Next]_vars => OrgInv'
        BY NextInv
    <1> QED BY <1>1, <1>2, PTL DEF Spec

\* Types: no user's role, invitation, key or request becomes another thing.
THEOREM OrganizationTypes == Spec => []TypeOK
    <1>1. OrgInv => TypeOK
        BY DEF OrgInv
    <1> QED BY <1>1, Invariant, PTL

\* Rows are locked before the account, so no ring of transactions waits
\* (InvitationService.invite and accept).
THEOREM NobodyWaitsForever == Spec => []NoDeadlock
    <1>1. ASSUME OrgInv, NEW ring \in SUBSET Slots, ring # {}
          PROVE  \E s \in ring : \A t \in ring : ~WaitsFor(s, t)
        <2>1. \A s, t \in Slots : WaitsFor(s, t) => request[s].at \in {"checked", "waiting"}
            BY DEF WaitsFor
        <2>2. \A s, t \in Slots : request[s].at = "waiting" /\ WaitsFor(s, t) => request[t].at = "counted"
            BY <1>1 DEF WaitsFor, OrgInv, Locked
        <2>3. \A s, t \in Slots : request[s].at = "checked" /\ WaitsFor(s, t) => request[t].at # "checked"
            BY <1>1 DEF WaitsFor, OrgInv, RequestFits
        <2>4. CASE \E s \in ring : request[s].at \notin {"checked", "waiting"}
            BY <2>1, <2>4
        <2>5. CASE /\ \A s \in ring : request[s].at \in {"checked", "waiting"}
                   /\ \E s \in ring : request[s].at = "waiting"
            BY <2>2, <2>5
        <2>6. CASE \A s \in ring : request[s].at = "checked"
            BY <1>1, <2>3, <2>6
        <2> QED BY <2>4, <2>5, <2>6
    <1>2. OrgInv => NoDeadlock
        BY <1>1 DEF NoDeadlock
    <1> QED BY <1>2, Invariant, PTL

\* A new member is somebody whose invitation was unanswered, and locked, until
\* the acceptance committed (InvitationService.accept).
THEOREM OnlyTheInvited == Spec => WithdrawnAdmitsNobody
    <1> DEFINE A == \A p \in People : p \in Live' \ Live =>
                        \E i \in {j \in Invitations : Unanswered(j)} :
                            invitation[i].email = p /\ invitation'[i].accepted /\ ~invitation'[i].revoked
    <1>1. ASSUME OrgInv, Next PROVE A
        <2>1. ASSUME NEW s \in Slots, CommitAccept(s) PROVE A
            <3>1. /\ request[s].at = "counted" /\ request[s].what = "accept"
                  /\ user' = [user EXCEPT ![request[s].email] = [role |-> "member", deleted |-> FALSE]]
                BY <2>1 DEF CommitAccept, Granted
            <3>2. PICK i \in request[s].consumed : TRUE
                BY <1>1, <3>1 DEF OrgInv, RequestFits
            <3>3. /\ i \in Invitations /\ Unanswered(i) /\ invitation[i] \in InvitationRow
                  /\ invitation[i].email = request[s].email
                BY <1>1, <3>2, Consumed DEF OrgInv, RequestFits
            <3>4. invitation'[i] = [invitation[i] EXCEPT !.accepted = TRUE]
                BY <1>1, <2>1, <3>2, CommitAcceptRows
            <3>5. invitation'[i].accepted /\ ~invitation'[i].revoked
                BY <3>3, <3>4 DEF Unanswered, InvitationRow
            <3>6. \A p \in People : p # request[s].email => user'[p] = user[p]
                BY <1>1, <3>1 DEF OrgInv, TypeOK
            <3>7. \A p \in Live' \ Live : p = request[s].email
                BY <3>6 DEF Live
            <3> QED BY <3>3, <3>5, <3>7
        <2>2. ASSUME NEW d \in Desks, Save(d) PROVE Live' \subseteq Live
            BY <1>1, <2>2, SaveShrinks
        <2>3. ASSUME UNCHANGED user PROVE Live' = Live
            BY <2>3 DEF Live
        <2>4. \/ \E s \in Slots : CommitAccept(s)
              \/ \E d \in Desks : Save(d)
              \/ UNCHANGED user
            BY <1>1 DEF Next, Begin, BeginInvite, BeginAccept, BeginKey, Proceed, Supersede,
               LockAndCount, CommitInvite, CommitKey, Refuse, Open, LoadTransfer, LoadRemove,
               LoadLeave, LoadDelete, LoadRevoke, Load, RevokeKey, OverrideLimit, Expire, rows
        <2> QED BY <2>1, <2>2, <2>3, <2>4
    <1>2. OrgInv /\ [Next]_vars => [A]_vars
        BY <1>1
    <1> QED BY <1>2, Invariant, PTL DEF Spec, WithdrawnAdmitsNobody

\* Members and outstanding invitations are a quota: a claim that commits has
\* counted under the lock (InvitationService, PlanService.lockAndAssertLimit).
THEOREM SeatsWithinLimit == Spec => SeatsAreAQuota
    <1>1. Init => SeatQuota!Init
        <2> SUFFICES ASSUME Init PROVE SeatQuota!Init
            OBVIOUS
        <2>1. organization.limit["seats"] \in Nat \cup {Unlimited}
            BY InitInv DEF OrgInv, TypeOK, Quotas
        <2> QED BY <2>1, Counts DEF SeatQuota!Init
    <1>2. ASSUME OrgInv, OrgInv', Next
          PROVE  SeatQuota!Next \/ UNCHANGED SeatQuota!vars
        <2>0. /\ SeatsUsed \in Nat /\ SeatsUsed' \in Nat
              /\ organization'.limit["seats"] \in Nat \cup {Unlimited}
            BY <1>2, Counts, CountsNext DEF OrgInv, TypeOK, Quotas
        <2>1. CASE \E s \in Slots : CommitInvite(s) \/ CommitAccept(s)
            <3>1. /\ organization.limit["seats"] = Unlimited \/ SeatsUsed' <= organization.limit["seats"]
                  /\ organization' = organization
                BY <1>2, <2>1, SeatClaimed
            <3> QED BY <2>0, <3>1
                    DEF SeatQuota!Next, SeatQuota!Claim, SeatQuota!Free, SeatQuota!Within, SeatQuota!vars
        <2>2. CASE \E s \in Slots : CommitKey(s)
            <3>1. SeatsUsed' = SeatsUsed /\ organization' = organization
                BY <2>2 DEF CommitKey, SeatsUsed, Live, Pending, Unanswered
            <3> QED BY <3>1 DEF SeatQuota!vars
        <2>3. CASE \E q \in Quotas : \E l \in Limits(q) : OverrideLimit(q, l)
            <3>1. SeatsUsed' = SeatsUsed
                BY <2>3 DEF OverrideLimit, SeatsUsed, Live, Pending, Unanswered
            <3> QED BY <2>0, <3>1 DEF SeatQuota!Next, SeatQuota!Change
        <2>4. CASE /\ Live' \subseteq Live /\ Pending' \subseteq Pending
                   /\ organization'.limit = organization.limit
            <3>1. Cardinality(Live') <= Cardinality(Live) /\ Cardinality(Pending') <= Cardinality(Pending)
                BY <2>4, Counts, Subsets, Smaller
            <3>2. Cardinality(Live) \in Nat /\ Cardinality(Pending) \in Nat
                  /\ Cardinality(Live') \in Nat /\ Cardinality(Pending') \in Nat
                BY Counts, CountsNext, Subsets
            <3>3. SeatsUsed' <= SeatsUsed
                BY <3>1, <3>2 DEF SeatsUsed
            <3> QED BY <2>0, <2>4, <3>3 DEF SeatQuota!Next, SeatQuota!Free, SeatQuota!vars
        <2> QED BY <1>2, <2>1, <2>2, <2>3, <2>4, WhoTakes
    <1>3. ASSUME UNCHANGED vars PROVE UNCHANGED SeatQuota!vars
        BY <1>3 DEF vars, SeatQuota!vars, SeatsUsed, Live, Pending, Unanswered
    <1>4. OrgInv /\ OrgInv' /\ [Next]_vars => [SeatQuota!Next]_SeatQuota!vars
        BY <1>2, <1>3
    <1> QED BY <1>1, <1>4, Invariant, PTL DEF Spec, SeatsAreAQuota, SeatQuota!Spec

\* The same of the API keys (ApiKeyService.create).
THEOREM KeysWithinLimit == Spec => KeysAreAQuota
    <1>1. Init => KeyQuota!Init
        <2> SUFFICES ASSUME Init PROVE KeyQuota!Init
            OBVIOUS
        <2>1. organization.limit["apiKeys"] \in Nat \cup {Unlimited}
            BY InitInv DEF OrgInv, TypeOK, Quotas
        <2> QED BY <2>1, Counts DEF KeyQuota!Init
    <1>2. ASSUME OrgInv, OrgInv', Next
          PROVE  KeyQuota!Next \/ UNCHANGED KeyQuota!vars
        <2>0. /\ KeysUsed \in Nat /\ KeysUsed' \in Nat
              /\ organization'.limit["apiKeys"] \in Nat \cup {Unlimited}
            BY <1>2, Counts, CountsNext DEF OrgInv, TypeOK, Quotas
        <2>1. CASE \E s \in Slots : CommitKey(s)
            <3>1. /\ organization.limit["apiKeys"] = Unlimited \/ KeysUsed' <= organization.limit["apiKeys"]
                  /\ organization' = organization
                BY <1>2, <2>1, KeyClaimed
            <3> QED BY <2>0, <3>1
                    DEF KeyQuota!Next, KeyQuota!Claim, KeyQuota!Free, KeyQuota!Within, KeyQuota!vars
        <2>2. CASE \E s \in Slots : CommitInvite(s) \/ CommitAccept(s)
            <3>1. KeysUsed' = KeysUsed /\ organization' = organization
                BY <2>2 DEF CommitInvite, CommitAccept, KeysUsed, ActiveKeys
            <3> QED BY <3>1 DEF KeyQuota!vars
        <2>3. CASE \E q \in Quotas : \E l \in Limits(q) : OverrideLimit(q, l)
            <3>1. KeysUsed' = KeysUsed
                BY <2>3 DEF OverrideLimit, KeysUsed, ActiveKeys
            <3> QED BY <2>0, <3>1 DEF KeyQuota!Next, KeyQuota!Change
        <2>4. CASE ActiveKeys' \subseteq ActiveKeys /\ organization'.limit = organization.limit
            <3>1. KeysUsed' <= KeysUsed
                BY <2>4, UsesLess
            <3> QED BY <2>0, <2>4, <3>1 DEF KeyQuota!Next, KeyQuota!Free, KeyQuota!vars
        <2> QED BY <1>2, <2>1, <2>2, <2>3, <2>4, WhoTakes
    <1>3. ASSUME UNCHANGED vars PROVE UNCHANGED KeyQuota!vars
        BY <1>3 DEF vars, KeyQuota!vars, KeysUsed, ActiveKeys
    <1>4. OrgInv /\ OrgInv' /\ [Next]_vars => [KeyQuota!Next]_KeyQuota!vars
        BY <1>2, <1>3
    <1> QED BY <1>1, <1>4, Invariant, PTL DEF Spec, KeysAreAQuota, KeyQuota!Spec

-----------------------------------------------------------------------------
(* Ownership. *)

\* A transfer moves the ownership to somebody else.
OwnerFits ==
    /\ OneOwnerUnlessOvertaken
    /\ \A d \in Desks : desk[d].what = "transfer" => desk[d].actor # desk[d].target

LEMMA OwnerUndisturbed ==
    ASSUME OrgInv, OwnerFits, desk' = desk, organization'.ownerId = organization.ownerId,
           organization'.deleted = organization.deleted, user' = user, overtaken' = overtaken
    PROVE  OwnerFits'
    <1>1. Live' = Live
        BY DEF Live
    <1> QED BY <1>1 DEF OwnerFits, OneOwnerUnlessOvertaken, OneOwner

LEMMA OwnerAfterAccept ==
    ASSUME OrgInv, OwnerFits, NEW s \in Slots, CommitAccept(s)
    PROVE  OwnerFits'
    <1>1. /\ user' = [user EXCEPT ![request[s].email] = [role |-> "member", deleted |-> FALSE]]
          /\ user[request[s].email].role = "none" /\ organization' = organization
          /\ desk' = desk /\ overtaken' = overtaken
        BY DEF CommitAccept, Ends
    <1>2. \A p \in People : /\ p # request[s].email => user'[p] = user[p]
                            /\ p = request[s].email => user'[p] = [role |-> "member", deleted |-> FALSE]
        BY <1>1 DEF OrgInv, TypeOK
    <1>3. /\ Live \subseteq Live'
          /\ {p \in Live' : user'[p].role = "owner"} = {p \in Live : user[p].role = "owner"}
        BY <1>1, <1>2 DEF Live
    <1> QED BY <1>1, <1>3 DEF OwnerFits, OneOwnerUnlessOvertaken, OneOwner

LEMMA OwnerAfterOpen ==
    ASSUME OrgInv, OwnerFits, NEW d \in Desks, Open(d)
    PROVE  OwnerFits'
    <1>1. /\ Live' = Live /\ organization' = organization /\ user' = user
          /\ overtaken' = overtaken
        BY DEF Open, LoadTransfer, LoadRemove, LoadLeave, LoadDelete, LoadRevoke, Load, rows, Live
    <1>2. \A c : Load(d, c) /\ (c.what = "transfer" => c.actor # c.target) => OwnerFits'
        BY <1>1 DEF OwnerFits, OneOwnerUnlessOvertaken, OneOwner, Load, OrgInv, TypeOK
    <1>3. CASE LoadTransfer(d)
        <2>1. PICK t \in Live \ {organization.ownerId} :
                  Load(d, [Closed EXCEPT !.what = "transfer", !.actor = organization.ownerId,
                                         !.target = t])
            BY <1>3 DEF LoadTransfer
        <2> DEFINE c == [Closed EXCEPT !.what = "transfer", !.actor = organization.ownerId,
                                       !.target = t]
        <2>2. c.actor = organization.ownerId /\ c.target = t
            BY DEF Closed
        <2> HIDE DEF c
        <2> QED BY <1>2, <2>1, <2>2 DEF c
    <1>4. ASSUME NEW c, Load(d, c), c.what # "transfer" PROVE OwnerFits'
        BY <1>2, <1>4
    <1>5. CASE LoadRemove(d)
        BY <1>4, <1>5 DEF LoadRemove, Closed
    <1>6. CASE LoadLeave(d)
        BY <1>4, <1>6 DEF LoadLeave, Closed
    <1>7. CASE LoadDelete(d)
        BY <1>4, <1>7 DEF LoadDelete, Closed
    <1>8. CASE LoadRevoke(d)
        BY <1>4, <1>8 DEF LoadRevoke, Closed
    <1> QED BY <1>3, <1>5, <1>6, <1>7, <1>8 DEF Open

LEMMA OwnerAfterSave ==
    ASSUME OrgInv, OwnerFits, NEW d \in Desks, Save(d)
    PROVE  OwnerFits'
    <1>1. /\ user \in [People -> UserRow] /\ desk \in [Desks -> Copy] /\ desk[d] \in Copy
          /\ organization \in [ownerId : People, deleted : BOOLEAN, limit : [Quotas -> Nat \cup {Unlimited}]]
        BY DEF OrgInv, TypeOK
    <1>2. desk' = [desk EXCEPT ![d] = Closed] /\ overtaken' = (overtaken \/ Outdated(d))
        BY DEF Save, Transfer, SoftDelete, DeleteOrganization, Revoke, Saved
    <1>3. \A e \in Desks : desk'[e].what = "transfer" => desk'[e].actor # desk'[e].target
        BY <1>1, <1>2, ClosedTyped DEF OwnerFits
    <1>4. desk[d].actor \in People /\ desk[d].target \in People
        BY <1>1 DEF Copy
    <1>5. ASSUME ~overtaken', ~organization'.deleted PROVE OneOwner'
        <2>0. OneOwner /\ ~Outdated(d)
            BY <1>2, <1>5 DEF OwnerFits, OneOwnerUnlessOvertaken
        <2>1. CASE Transfer(d)
            <3> DEFINE from == desk[d].actor  to == desk[d].target
            <3>1. /\ user' = [user EXCEPT ![to].role = "owner", ![from].role = "member"]
                  /\ organization' = [organization EXCEPT !.ownerId = to]
                  /\ desk[d].what = "transfer"
                BY <2>1 DEF Transfer
            <3>2. /\ ~organization.deleted /\ organization'.ownerId = to
                  /\ from = organization.ownerId /\ to \in Live /\ to # from
                  /\ {p \in Live : user[p].role = "owner"} = {from}
                BY <1>1, <1>5, <2>0, <3>1 DEF OwnerFits, OneOwner, Outdated
            <3> HIDE DEF from, to
            <3>3. /\ user'[to].role = "owner" /\ user'[from].role = "member"
                  /\ \A p \in People : /\ user'[p].deleted = user[p].deleted
                                       /\ p \notin {from, to} => user'[p].role = user[p].role
                BY <1>1, <1>4, <3>1, <3>2 DEF UserRow, from, to
            <3>4. to \in People /\ from \in People
                BY <1>4 DEF from, to
            <3>5. {p \in Live' : user'[p].role = "owner"} = {to}
                BY <3>2, <3>3, <3>4 DEF Live
            <3> QED BY <3>2, <3>5 DEF OneOwner
        <2>2. CASE SoftDelete(d)
            <3>1. /\ user' = [user EXCEPT ![desk[d].target].deleted = TRUE]
                  /\ organization' = organization
                  /\ ~organization.deleted /\ desk[d].target # organization.ownerId
                  /\ {p \in Live : user[p].role = "owner"} = {organization.ownerId}
                BY <1>5, <2>0, <2>2 DEF SoftDelete, OneOwner, Outdated
            <3>2. \A p \in People : /\ user'[p].role = user[p].role
                                    /\ p # desk[d].target => user'[p] = user[p]
                                    /\ user[p].deleted => user'[p].deleted
                BY <1>1, <1>4, <3>1 DEF UserRow
            <3>3. {p \in Live' : user'[p].role = "owner"} = {organization.ownerId}
                BY <3>1, <3>2 DEF Live
            <3> QED BY <3>1, <3>3 DEF OneOwner
        <2>3. CASE DeleteOrganization(d)
            BY <1>1, <1>5, <2>3 DEF DeleteOrganization
        <2>4. CASE Revoke(d)
            BY <1>5, <2>0, <2>4 DEF Revoke, OneOwner, Live
        <2> QED BY <2>1, <2>2, <2>3, <2>4 DEF Save
    <1> QED BY <1>3, <1>5 DEF OwnerFits, OneOwnerUnlessOvertaken, OneOwner

\* Whatever membership requests overlap, beside any number of invitations and
\* acceptances, the account has one owner until one of them is saved for an
\* owner or on a member who no longer is: asking that again as part of the save
\* is all that MembershipService lacks.
THEOREM OneOwnerUntilOvertaken == Spec => []OneOwnerUnlessOvertaken
    <1>1. Init => OwnerFits
        <2> SUFFICES ASSUME Init PROVE OwnerFits
            OBVIOUS
        <2>1. /\ \A p \in People : user[p].role = "owner" <=> p = Founder
              /\ \A p \in People : ~user[p].deleted
              /\ organization.ownerId = Founder /\ \A d \in Desks : desk[d] = Closed
            BY DEF Init
        <2>2. {p \in Live : user[p].role = "owner"} = {Founder}
            BY <2>1, PeopleAssumption DEF Live
        <2> QED BY <2>1, <2>2, ClosedTyped DEF OwnerFits, OneOwnerUnlessOvertaken, OneOwner
    <1>2. OrgInv /\ OwnerFits /\ [Next]_vars => OwnerFits'
        <2> SUFFICES ASSUME OrgInv, OwnerFits, [Next]_vars PROVE OwnerFits'
            OBVIOUS
        <2>1. ASSUME NEW s \in Slots, Begin(s) \/ Proceed(s) PROVE OwnerFits'
            <3>1. CASE CommitAccept(s)
                BY <3>1, OwnerAfterAccept
            <3>2. CASE ~CommitAccept(s)
                <4>1. /\ desk' = desk /\ organization' = organization /\ user' = user
                      /\ overtaken' = overtaken
                    BY <2>1, <3>2 DEF Begin, BeginInvite, BeginAccept, BeginKey, Proceed, Supersede,
                       LockAndCount, CommitInvite, CommitKey, Refuse, Ends, rows
                <4> QED BY <4>1, OwnerUndisturbed
            <3> QED BY <3>1, <3>2
        <2>2. ASSUME \/ \E k \in Keys : RevokeKey(k)
                     \/ \E q \in Quotas : \E l \in Limits(q) : OverrideLimit(q, l)
                     \/ \E i \in Invitations : Expire(i)
                     \/ UNCHANGED vars
              PROVE  OwnerFits'
            <3>1. /\ desk' = desk /\ user' = user /\ overtaken' = overtaken
                  /\ organization'.ownerId = organization.ownerId
                  /\ organization'.deleted = organization.deleted
                BY <2>2 DEF RevokeKey, OverrideLimit, Expire, vars, OrgInv, TypeOK
            <3> QED BY <3>1, OwnerUndisturbed
        <2> QED BY <2>1, <2>2, OwnerAfterOpen, OwnerAfterSave DEF Next
    <1>3. OwnerFits => OneOwnerUnlessOvertaken
        BY DEF OwnerFits
    <1> QED BY <1>1, <1>2, <1>3, Invariant, PTL DEF Spec
=============================================================================
