----------------------------- MODULE CounterProofs -----------------------------
(***************************************************************************)
(* Proofs about the two counters the code keeps beside what they count:    *)
(* the bytes of an account (Storage), for any number of files and requests *)
(* and any sizes and limits, and the requests of the license API           *)
(* (Traffic), for any number of processes, calls and keys; any number of   *)
(* faults in both.  What they share is the first part: how a sum over a    *)
(* finite set changes when one of its terms does.                          *)
(***************************************************************************)
EXTENDS Storage, Traffic, FiniteSetTheorems, WellFoundedInduction, TLAPS

-----------------------------------------------------------------------------
(* Sums.  The library's induction theorems take an operator; these take a     *)
(* set, and rest on the well-foundedness of < on the numbers.                *)

\* What holds of 0 and with every number of the next holds of all of them.
LEMMA NaturalsBySteps ==
    ASSUME NEW P, 0 \in P, \A n \in Nat : n \in P => n + 1 \in P
    PROVE  Nat \subseteq P
<1> DEFINE Rest == Nat \ P
<1> SUFFICES ASSUME Rest # {} PROVE FALSE
    OBVIOUS
<1>1. PICK m \in Rest : \A n \in Rest : <<n, m>> \notin OpToRel(<, Nat)
    BY NatLessThanWellFounded, WFMin
<1>2. m \in Nat /\ m # 0
    OBVIOUS
<1>3. m - 1 \in Nat /\ m - 1 < m
    BY <1>2
<1>4. <<m - 1, m>> \in OpToRel(<, Nat)
    BY <1>2, <1>3 DEF OpToRel
<1>5. m - 1 \notin Rest
    BY <1>1, <1>4
<1> QED BY <1>2, <1>3, <1>5

Pick(s) == CHOOSE x \in s : TRUE


LEMMA PickIn == ASSUME NEW s, s # {} PROVE Pick(s) \in s
    BY DEF Pick

\* Without the picked element a set has one element fewer.
LEMMA OneFewer ==
    ASSUME NEW S, IsFiniteSet(S), NEW s \in SUBSET S
    PROVE  /\ Cardinality(s) \in Nat
           /\ s = {} <=> Cardinality(s) = 0
           /\ s # {} => /\ Pick(s) \in S /\ s \ {Pick(s)} \in SUBSET S
                        /\ Cardinality(s \ {Pick(s)}) = Cardinality(s) - 1
<1>1. IsFiniteSet(s)
    BY FS_Subset
<1>2. s # {} => Pick(s) \in s
    BY PickIn
<1>3. s # {} => Cardinality(s \ {Pick(s)}) = Cardinality(s) - 1
    BY <1>1, <1>2, FS_RemoveElement
<1>4. Cardinality(s) \in Nat /\ (s = {} <=> Cardinality(s) = 0)
    BY <1>1, FS_CardinalityType, FS_EmptySet
<1> QED BY <1>2, <1>3, <1>4

\* What holds of the empty set and spreads from a set without its picked
\* element to the set holds of every finite set.
LEMMA SetsByPicks ==
    ASSUME NEW S, IsFiniteSet(S), NEW G, {} \in G,
           \A s \in SUBSET S : s # {} /\ s \ {Pick(s)} \in G => s \in G
    PROVE  S \in G
<1> DEFINE P == {n \in Nat : \A s \in SUBSET S : Cardinality(s) <= n => s \in G}
<1>1. 0 \in P
    <2>1. ASSUME NEW s \in SUBSET S, Cardinality(s) <= 0 PROVE s \in G
        <3>1. Cardinality(s) \in Nat /\ (Cardinality(s) = 0 => s = {})
            BY OneFewer
        <3> QED BY <2>1, <3>1
    <2> QED BY <2>1
<1>2. ASSUME NEW n \in Nat, n \in P PROVE n + 1 \in P
    <2>1. ASSUME NEW s \in SUBSET S, Cardinality(s) <= n + 1, s # {} PROVE s \in G
        <3>1. s \ {Pick(s)} \in SUBSET S /\ Cardinality(s \ {Pick(s)}) <= n
            BY <2>1, OneFewer
        <3>2. s \ {Pick(s)} \in G
            BY <1>2, <3>1
        <3> QED BY <2>1, <3>2
    <2> QED BY <2>1
<1>3. Cardinality(S) \in P /\ Cardinality(S) \in Nat
    BY <1>1, <1>2, NaturalsBySteps, FS_CardinalityType
<1> QED BY <1>3

\* f sums w up over the subsets of S of up to n elements.
SumsUpTo(f, w, S, n) ==
    \A s \in SUBSET S :
        Cardinality(s) <= n => f[s] = IF s = {} THEN 0 ELSE w[Pick(s)] + f[s \ {Pick(s)}]

IsSum(f, w, S) == f = [s \in SUBSET S |-> IF s = {} THEN 0 ELSE w[Pick(s)] + f[s \ {Pick(s)}]]

LEMMA SumsExist ==
    ASSUME NEW S, IsFiniteSet(S), NEW w
    PROVE  \E f : IsSum(f, w, S)
<1> DEFINE P == {n \in Nat : \E f : SumsUpTo(f, w, S, n)}
<1>1. 0 \in P
    <2> DEFINE f == [s \in SUBSET S |-> 0]
    <2>1. ASSUME NEW s \in SUBSET S, Cardinality(s) <= 0 PROVE s = {}
        <3>1. Cardinality(s) \in Nat /\ (Cardinality(s) = 0 => s = {})
            BY OneFewer
        <3> QED BY <2>1, <3>1
    <2>2. SumsUpTo(f, w, S, 0)
        BY <2>1 DEF SumsUpTo
    <2> QED BY <2>2
<1>2. ASSUME NEW n \in Nat, n \in P PROVE n + 1 \in P
    <2>1. PICK f : SumsUpTo(f, w, S, n)
        BY <1>2
    <2> DEFINE g == [s \in SUBSET S |-> IF s = {} THEN 0 ELSE w[Pick(s)] + f[s \ {Pick(s)}]]
    <2>2. ASSUME NEW s \in SUBSET S, Cardinality(s) <= n + 1, s # {}
          PROVE  g[s] = w[Pick(s)] + g[s \ {Pick(s)}]
        <3> DEFINE t == s \ {Pick(s)}
        <3>1. t \in SUBSET S /\ Cardinality(t) <= n
            BY OneFewer, <2>2
        <3>2. f[t] = g[t]
            BY <2>1, <3>1 DEF SumsUpTo
        <3>3. g[s] = w[Pick(s)] + f[t]
            BY <2>2
        <3> QED BY <3>2, <3>3
    <2>3. g[{}] = 0
        OBVIOUS
    <2> HIDE DEF g
    <2>4. SumsUpTo(g, w, S, n + 1)
        BY <2>2, <2>3 DEF SumsUpTo
    <2> QED BY <2>4
<1>3. Cardinality(S) \in P
    BY <1>1, <1>2, NaturalsBySteps, FS_CardinalityType
<1>4. PICK f : SumsUpTo(f, w, S, Cardinality(S))
    BY <1>3
<1> DEFINE g == [s \in SUBSET S |-> f[s]]
<1> DEFINE h == [s \in SUBSET S |-> IF s = {} THEN 0 ELSE w[Pick(s)] + g[s \ {Pick(s)}]]
<1>5. ASSUME NEW s \in SUBSET S PROVE g[s] = h[s]
    <2>1. Cardinality(s) <= Cardinality(S)
        BY FS_Subset
    <2> QED BY <2>1, <1>4 DEF SumsUpTo
<1>6. g = h
    BY <1>5
<1>7. IsSum(g, w, S)
    BY <1>6 DEF IsSum
<1> QED BY <1>7

\* f is what SumFunction computes of w, one picked element after the other.
Sums(f, w, S) ==
    /\ SumFunction(w) = f[S]
    /\ f[{}] = 0
    /\ \A s \in SUBSET S : s # {} => f[s] = w[Pick(s)] + f[s \ {Pick(s)}]

LEMMA SumUnfolds ==
    ASSUME NEW S, IsFiniteSet(S), NEW w, DOMAIN w = S
    PROVE  \E f : Sums(f, w, S)
<1> DEFINE iter == CHOOSE f : IsSum(f, w, S)
<1>1. IsSum(iter, w, S)
    BY SumsExist
<1>2. SumFunction(w) = iter[S]
    BY DEF SumFunction, SumFunctionOnSet, FoldFunctionOnSet, MapThenFoldSet, Pick, IsSum
<1> HIDE DEF iter
<1>3. \A s \in SUBSET S : iter[s] = IF s = {} THEN 0 ELSE w[Pick(s)] + iter[s \ {Pick(s)}]
    BY <1>1 DEF IsSum
<1> QED BY <1>2, <1>3 DEF Sums

\* A sum of numbers is a number.
LEMMA SumIsNumber ==
    ASSUME NEW S, IsFiniteSet(S), NEW w \in [S -> Nat]
    PROVE  SumFunction(w) \in Nat
<1>1. PICK f : Sums(f, w, S)
    BY SumUnfolds, DOMAIN w = S
<1> DEFINE G == {s \in SUBSET S : f[s] \in Nat}
<1>2. {} \in G
    BY <1>1 DEF Sums
<1>3. ASSUME NEW s \in SUBSET S, s # {}, s \ {Pick(s)} \in G PROVE s \in G
    <2>1. f[s] = w[Pick(s)] + f[s \ {Pick(s)}]
        BY <1>1, <1>3 DEF Sums
    <2>2. w[Pick(s)] \in Nat
        BY <1>3, OneFewer
    <2> QED BY <1>3, <2>1, <2>2
<1>4. S \in G
    <2> HIDE DEF G
    <2> QED BY <1>2, <1>3, SetsByPicks
<1> QED BY <1>1, <1>4 DEF Sums

\* The sum of nothing but zeros.
LEMMA SumOfZeros ==
    ASSUME NEW S, IsFiniteSet(S), NEW w \in [S -> {0}]
    PROVE  SumFunction(w) = 0
<1>1. PICK f : Sums(f, w, S)
    BY SumUnfolds, DOMAIN w = S
<1> DEFINE G == {s \in SUBSET S : f[s] = 0}
<1>2. {} \in G
    BY <1>1 DEF Sums
<1>3. ASSUME NEW s \in SUBSET S, s # {}, s \ {Pick(s)} \in G PROVE s \in G
    <2>1. f[s] = w[Pick(s)] + f[s \ {Pick(s)}]
        BY <1>1, <1>3 DEF Sums
    <2>2. Pick(s) \in S
        BY <1>3, OneFewer
    <2>3. w[Pick(s)] = 0
        BY <2>2
    <2> QED BY <1>3, <2>1, <2>3
<1>4. S \in G
    <2> HIDE DEF G
    <2> QED BY <1>2, <1>3, SetsByPicks
<1> QED BY <1>1, <1>4 DEF Sums

\* Two sums of numbers that agree but for one place differ by what they have there.
LEMMA SumChanges ==
    ASSUME NEW S, IsFiniteSet(S), NEW x \in S, NEW v \in [S -> Nat], NEW w \in [S -> Nat],
           \A y \in S \ {x} : v[y] = w[y]
    PROVE  SumFunction(w) = SumFunction(v) + w[x] - v[x]
<1>1. PICK f : Sums(f, v, S)
    BY SumUnfolds, DOMAIN v = S
<1>2. PICK g : Sums(g, w, S)
    BY SumUnfolds, DOMAIN w = S
<1> DEFINE Apart(s) == /\ f[s] \in Int /\ g[s] \in Int
                       /\ g[s] = f[s] + IF x \in s THEN w[x] - v[x] ELSE 0
<1> DEFINE G == {s \in SUBSET S : Apart(s)}
<1>3. {} \in G
    <2>1. f[{}] = 0 /\ g[{}] = 0
        BY <1>1, <1>2 DEF Sums
    <2> QED BY <2>1
<1>4. ASSUME NEW s \in SUBSET S, s # {}, s \ {Pick(s)} \in G PROVE s \in G
    <2> DEFINE y == Pick(s)
    <2> DEFINE t == s \ {y}
    <2>1. f[s] = v[y] + f[t] /\ g[s] = w[y] + g[t]
        BY <1>1, <1>2, <1>4 DEF Sums
    <2>2. y \in S /\ y \in s
        BY <1>4, OneFewer, PickIn
    <2>3. Apart(t)
        BY <1>4
    <2>4. v[y] \in Nat /\ w[y] \in Nat /\ v[x] \in Nat /\ w[x] \in Nat
        BY <2>2
    <2> HIDE DEF y
    <2>5. CASE y = x
        <3>1. x \notin t /\ x \in s
            BY <2>2, <2>5
        <3>2. g[t] = f[t]
            BY <2>3, <3>1
        <3>3. Apart(s)
            BY <2>1, <2>3, <2>4, <2>5, <3>1, <3>2
        <3> QED BY <3>3
    <2>6. CASE y # x
        <3>1. x \in t <=> x \in s
            BY <2>6
        <3>2. v[y] = w[y]
            BY <2>2, <2>6
        <3>3. Apart(s)
            BY <2>1, <2>3, <2>4, <3>1, <3>2
        <3> QED BY <3>3
    <2> QED BY <2>5, <2>6
<1>5. S \in G
    <2> HIDE DEF G
    <2> QED BY <1>3, <1>4, SetsByPicks
<1>6. x \in S /\ Apart(S)
    BY <1>5
<1> QED BY <1>1, <1>2, <1>6 DEF Sums

-----------------------------------------------------------------------------
(* Storage: the inductive invariant. *)

Has(s, stages) == request[s].at \in stages

\* The stages in which an upload has a file and no row yet.
Rowless == {"moving", "moved", "locked", "refused"}
Stored == {"moved", "locked", "refused"}

\* A file under way is one request's alone and has no row; its object is in
\* the bucket exactly when it has been moved.
UploadsApart ==
    \A s \in Slots :
        /\ Has(s, Rowless) => /\ request[s].file \in Files
                              /\ file[request[s].file].status = "none"
                              /\ request[s].kind # "delete"
                              /\ \A t \in Slots : request[t].file = request[s].file => t = s
        /\ Has(s, {"moving"}) => request[s].file \notin object
        /\ Has(s, {"moved", "locked"}) => request[s].file \in object

\* What has been loaded to be deleted has a row.
DeletedHaveRows ==
    \A s \in Slots : \A f \in request[s].old : file[f].status # "none"

\* What the purge has listed is not live, and was not when it was listed.
PurgedAreGone ==
    /\ \A f \in purge.listed : file[f].status \notin {"none", "live"}
    /\ purge.emptied # None => /\ file[purge.emptied].status \notin {"none", "live"}
                               /\ purge.emptied \notin object

\* An object without a row is under way or lost.
OrphansUnderWay ==
    \A f \in object :
        /\ file[f].status # "purged"
        /\ file[f].status = "none" =>
              f \in lost \/ \E s \in Slots : request[s].file = f /\ Has(s, Stored)

\* Who commits holds the lock, and what was checked under it still holds.
LockedFits ==
    \A s \in Slots :
        Has(s, {"locked"}) => /\ lock = s
                              /\ Fits(request[s].kind, request[s].size, account.used)

StInv ==
    /\ TypeOK
    /\ UploadsApart
    /\ DeletedHaveRows
    /\ PurgedAreGone
    /\ OrphansUnderWay
    /\ LiveHasObject
    /\ LockedFits

-----------------------------------------------------------------------------
(* Typing. *)

LEMMA AtLeastZero == ASSUME NEW a \in Int PROVE Max({a, 0}) \in Nat
  <1>1. \E m \in {a, 0} : \A y \in {a, 0} : m >= y
    <2>1. CASE a <= 0
      BY <2>1
    <2>2. CASE 0 <= a
      BY <2>2
    <2> QED BY <2>1, <2>2
  <1>2. Max({a, 0}) \in {a, 0} /\ \A y \in {a, 0} : Max({a, 0}) >= y
    BY <1>1 DEF Max
  <1> QED BY <1>2

LEMMA IdleTyped == Idle \in Request /\ Idle.old = {} /\ Idle.at = "idle" /\ Idle.file = None
  BY DEF Idle, Request

Stages == {"idle", "moving", "moved", "locked", "refused", "deleting", "saving"}

LEMMA RequestTyped ==
    ASSUME TypeOK, NEW s \in Slots
    PROVE  /\ request[s] \in Request
           /\ request[s].at \in Stages
           /\ request[s].kind \in {"file", "support", "logo", "delete"}
           /\ request[s].file \in Files \cup {None}
           /\ request[s].size \in Nat
           /\ request[s].old \in SUBSET Files
           /\ request[s].used \in Nat
    BY DEF TypeOK, Request, Stages

\* A request that goes on keeps everything but its stage.
LEMMA Went ==
    ASSUME TypeOK, NEW s \in Slots, NEW stage \in Stages, Goto(s, stage)
    PROVE  /\ request' \in [Slots -> Request]
           /\ \A t \in Slots : t # s => request'[t] = request[t]
           /\ \A t \in Slots : /\ request'[t].file = request[t].file
                               /\ request'[t].old = request[t].old
                               /\ request'[t].kind = request[t].kind
                               /\ request'[t].size = request[t].size
           /\ request'[s].at = stage
    <1>1. request \in [Slots -> Request] /\ request[s] \in Request
        BY DEF TypeOK
    <1> DEFINE new == [request[s] EXCEPT !.at = stage]
    <1>2. /\ new \in Request /\ new.at = stage /\ new.file = request[s].file
          /\ new.old = request[s].old /\ new.kind = request[s].kind /\ new.size = request[s].size
        BY <1>1 DEF Request, Stages
    <1>3. request' = [request EXCEPT ![s] = new]
        BY DEF Goto
    <1> HIDE DEF new
    <1>4. request' \in [Slots -> Request] /\ \A t \in Slots : request'[t] = IF t = s THEN new ELSE request[t]
        BY <1>1, <1>2, <1>3
    <1> QED BY <1>2, <1>4

\* One request becomes new, the others stay.
LEMMA Became ==
    ASSUME TypeOK, NEW s \in Slots, NEW new \in Request, request' = [request EXCEPT ![s] = new]
    PROVE  /\ request' \in [Slots -> Request]
           /\ \A t \in Slots : t # s => request'[t] = request[t]
           /\ request'[s] = new
    BY DEF TypeOK

LEMMA Stopped ==
    ASSUME TypeOK, NEW s \in Slots, Stop(s)
    PROVE  /\ request' \in [Slots -> Request]
           /\ \A t \in Slots : t # s => request'[t] = request[t]
           /\ request'[s] = Idle
    BY IdleTyped, Became DEF Stop

-----------------------------------------------------------------------------
(* Frames: what a step cannot disturb. *)

\* A step of one request that leaves files and objects alone and does not
\* begin an upload.
LEMMA RequestOnly ==
    ASSUME StInv, NEW s \in Slots, \A t \in Slots : t # s => request'[t] = request[t],
           UNCHANGED <<file, object, purge>>, lost \subseteq lost',
           request'[s].file \in {request[s].file, None},
           Has(s, Rowless)' => Has(s, Stored) /\ request'[s].file = request[s].file
                                              /\ request'[s].kind = request[s].kind,
           Has(s, {"moving"})' => FALSE,
           Has(s, {"moved", "locked"})' => Has(s, {"moved", "locked"}),
           Has(s, Stored) => \/ Has(s, Stored)' /\ request'[s].file = request[s].file
                             \/ request[s].file \in lost',
           \A f \in request'[s].old : file[f].status # "none"
    PROVE  UploadsApart' /\ DeletedHaveRows' /\ PurgedAreGone' /\ OrphansUnderWay' /\ LiveHasObject'
    <1> USE FilesAssumption
    <1>1. UploadsApart'
        BY DEF StInv, UploadsApart, Has, Rowless, Stored
    <1>2. DeletedHaveRows'
        BY DEF StInv, DeletedHaveRows
    <1>3. PurgedAreGone'
        BY DEF StInv, PurgedAreGone
    <1>4. OrphansUnderWay'
        <2> SUFFICES ASSUME NEW f \in object
                     PROVE  /\ file[f].status # "purged"
                            /\ file[f].status = "none" =>
                                f \in lost' \/ \E t \in Slots : request'[t].file = f /\ Has(t, Stored)'
            BY DEF OrphansUnderWay
        <2>1. file[f].status # "purged" /\ (file[f].status = "none" =>
                  f \in lost \/ \E t \in Slots : request[t].file = f /\ Has(t, Stored))
            BY DEF StInv, OrphansUnderWay
        <2>2. ASSUME NEW t \in Slots, request[t].file = f, Has(t, Stored)
              PROVE  f \in lost' \/ \E u \in Slots : request'[u].file = f /\ Has(u, Stored)'
            BY <2>2 DEF Has
        <2> QED BY <2>1, <2>2
    <1>5. LiveHasObject'
        BY DEF StInv, LiveHasObject, Live
    <1> QED BY <1>1, <1>2, <1>3, <1>4, <1>5

LEMMA NobodyLocks == ASSUME StInv, lock = None PROVE \A t \in Slots : ~Has(t, {"locked"})
    BY FilesAssumption DEF StInv, LockedFits

\* A request that neither takes the lock nor gives it up.
LEMMA LockKept ==
    ASSUME StInv, NEW s \in Slots, \A t \in Slots : t # s => request'[t] = request[t],
           UNCHANGED <<account, lock>>, ~Has(s, {"locked"})'
    PROVE  LockedFits'
    BY DEF StInv, LockedFits, Has, Fits

\* A request that had the lock, or the account to itself, and has it no more.
LEMMA LockGiven ==
    ASSUME StInv, NEW s \in Slots, \A t \in Slots : t # s => request'[t] = request[t],
           lock \in {s, None}, ~Has(s, {"locked"})'
    PROVE  LockedFits'
    BY FilesAssumption DEF StInv, LockedFits, Has

-----------------------------------------------------------------------------
(* Every step keeps the invariant. *)

LEMMA InitStep == Init => StInv
    <1> SUFFICES ASSUME Init PROVE StInv
        OBVIOUS
    <1>1. file \in [Files -> FileRow]
        BY DEF Init, FileRow
    <1>2. request \in [Slots -> Request]
        BY IdleTyped DEF Init
    <1>3. account \in [used : Nat, limit : Nat]
        <2>1. PICK u \in {0}, l \in Limits : account = [used |-> u, limit |-> l]
            BY DEF Init
        <2>2. u \in Nat /\ l \in Nat
            BY SizesAssumption
        <2> QED BY <2>1, <2>2
    <1>4. purge \in [listed : SUBSET Files, emptied : Files \cup {None}]
        BY DEF Init, Asleep
    <1>5. faults \in 0..MaxFaults
        BY MaxFaultsAssumption DEF Init
    <1>6. TypeOK
        BY <1>1, <1>2, <1>3, <1>4, <1>5 DEF Init, TypeOK
    <1>7. UploadsApart /\ DeletedHaveRows /\ LockedFits
        BY IdleTyped DEF Init, UploadsApart, DeletedHaveRows, LockedFits, Has, Rowless
    <1>8. PurgedAreGone
        BY DEF Init, PurgedAreGone, Asleep
    <1>9. OrphansUnderWay /\ LiveHasObject
        BY DEF Init, OrphansUnderWay, LiveHasObject, Live
    <1> QED BY <1>6, <1>7, <1>8, <1>9 DEF StInv

\* The steps of a request that leave files, objects and the account alone.
LEMMA BeginUploadStep ==
    ASSUME StInv, NEW s \in Slots, NEW kind \in Kinds, NEW size \in Sizes, BeginUpload(s, kind, size)
    PROVE  StInv'
    <1>1. PICK f \in Files :
            /\ file[f].status = "none" /\ f \notin lost
            /\ \A t \in Slots : request[t].file # f
            /\ request' = [request EXCEPT ![s] =
                  [at |-> "moving", kind |-> kind, file |-> f, size |-> size,
                   old |-> IF kind = "logo" THEN {g \in Live : file[g].kind = "logo"} ELSE {},
                   used |-> account.used]]
        BY DEF BeginUpload
    <1> DEFINE old == IF kind = "logo" THEN {g \in Live : file[g].kind = "logo"} ELSE {}
               new == [at |-> "moving", kind |-> kind, file |-> f, size |-> size,
                       old |-> old, used |-> account.used]
    <1>2. account.used \in Nat /\ old \in SUBSET Files /\ \A g \in old : file[g].status # "none"
        BY DEF StInv, TypeOK, Live
    <1>3. new \in Request
        <2>1. size \in Nat /\ kind \in {"file", "support", "logo", "delete"}
            BY SizesAssumption, KindsAssumption
        <2> HIDE DEF old
        <2> QED BY <1>2, <2>1 DEF Request
    <1>4. new.at = "moving" /\ new.file = f /\ new.old = old /\ new.kind # "delete"
        BY KindsAssumption
    <1>5. TypeOK /\ request' = [request EXCEPT ![s] = new]
        BY <1>1 DEF StInv
    <1> HIDE DEF old, new
    <1>6. /\ request' \in [Slots -> Request]
          /\ \A t \in Slots : t # s => request'[t] = request[t]
          /\ request'[s] = new
        BY <1>3, <1>5, Became
    <1>7. UNCHANGED <<file, object, account, lock, purge, faults, lost>> /\ request[s].at = "idle"
        BY DEF BeginUpload
    <1>8. TypeOK'
        BY <1>6, <1>7 DEF StInv, TypeOK, FileRow
    <1>9. f \notin object
        BY <1>1 DEF StInv, OrphansUnderWay
    <1>10. UploadsApart'
        BY <1>1, <1>4, <1>6, <1>7, <1>9 DEF StInv, UploadsApart, Has, Rowless
    <1>11. DeletedHaveRows'
        BY <1>2, <1>4, <1>6, <1>7 DEF StInv, DeletedHaveRows
    <1>12. PurgedAreGone' /\ LiveHasObject'
        BY <1>7 DEF StInv, PurgedAreGone, LiveHasObject, Live
    <1>13. OrphansUnderWay'
        <2>1. \A t \in Slots : Has(t, Stored) => request'[t] = request[t]
            BY <1>6, <1>7 DEF Has, Stored
        <2> QED BY <1>7, <2>1 DEF StInv, OrphansUnderWay, Has
    <1>14. LockedFits'
        BY <1>4, <1>6, <1>7, LockKept DEF Has
    <1> QED BY <1>8, <1>10, <1>11, <1>12, <1>13, <1>14 DEF StInv

\* A request that ends has no file, nothing to delete and no lock.
LEMMA StopStep ==
    ASSUME StInv, NEW s \in Slots, Stop(s), UNCHANGED <<file, object, purge>>,
           lost \subseteq lost', Has(s, Stored) => request[s].file \in lost'
    PROVE  /\ request' \in [Slots -> Request]
           /\ \A t \in Slots : t # s => request'[t] = request[t]
           /\ ~Has(s, {"locked"})'
           /\ UploadsApart' /\ DeletedHaveRows' /\ PurgedAreGone' /\ OrphansUnderWay' /\ LiveHasObject'
    <1>1. /\ request' \in [Slots -> Request]
          /\ \A t \in Slots : t # s => request'[t] = request[t]
          /\ request'[s] = Idle
        BY Stopped DEF StInv
    <1>2. /\ request'[s].file = None /\ request'[s].at = "idle" /\ request'[s].old = {}
        BY <1>1, IdleTyped
    <1>3. ~Has(s, Rowless)' /\ ~Has(s, {"moving"})' /\ ~Has(s, {"locked"})' /\ ~Has(s, {"moved", "locked"})'
        BY <1>2 DEF Has, Rowless
    <1>4. /\ UploadsApart' /\ DeletedHaveRows' /\ PurgedAreGone' /\ OrphansUnderWay' /\ LiveHasObject'
        BY <1>1, <1>2, <1>3, RequestOnly
    <1> QED BY <1>1, <1>3, <1>4

\* A request that goes from one stage to another, with its file.
LEMMA GotoStep ==
    ASSUME StInv, NEW s \in Slots, NEW stage \in {"locked", "refused", "saving"}, Goto(s, stage),
           UNCHANGED <<file, object, purge, lost>>,
           stage \in Stored => Has(s, {"moved", "locked"}),
           stage \notin Stored => ~Has(s, Stored)
    PROVE  /\ request' \in [Slots -> Request]
           /\ \A t \in Slots : t # s => request'[t] = request[t]
           /\ UploadsApart' /\ DeletedHaveRows' /\ PurgedAreGone' /\ OrphansUnderWay' /\ LiveHasObject'
    <1>1. /\ request' \in [Slots -> Request]
          /\ \A t \in Slots : t # s => request'[t] = request[t]
          /\ request'[s].file = request[s].file /\ request'[s].old = request[s].old
          /\ request'[s].kind = request[s].kind /\ request'[s].at = stage
        BY Went DEF StInv, Stages
    <1>2. \A f \in request'[s].old : file[f].status # "none"
        BY <1>1 DEF StInv, DeletedHaveRows
    <1>3. /\ Has(s, Rowless)' => Has(s, Stored)
          /\ Has(s, {"moving"})' => FALSE
          /\ Has(s, {"moved", "locked"})' => Has(s, {"moved", "locked"})
          /\ Has(s, Stored) => Has(s, Stored)'
        BY <1>1 DEF Has, Rowless, Stored
    <1>4. /\ UploadsApart' /\ DeletedHaveRows' /\ PurgedAreGone' /\ OrphansUnderWay' /\ LiveHasObject'
        BY <1>1, <1>2, <1>3, RequestOnly
    <1> QED BY <1>1, <1>4

LEMMA FaultTyped == ASSUME TypeOK, Fault PROVE faults' \in 0..MaxFaults
    BY MaxFaultsAssumption DEF TypeOK, Fault

LEMMA MoveFailsStep == ASSUME StInv, NEW s \in Slots, MoveFails(s) PROVE StInv'
    <1>1. /\ Stop(s) /\ UNCHANGED <<file, object, account, lock, purge, lost>> /\ ~Has(s, Stored)
          /\ faults' \in 0..MaxFaults
        BY FaultTyped DEF MoveFails, StInv, Has, Stored
    <1>2. /\ request' \in [Slots -> Request]
          /\ \A t \in Slots : t # s => request'[t] = request[t]
          /\ ~Has(s, {"locked"})'
          /\ UploadsApart' /\ DeletedHaveRows' /\ PurgedAreGone' /\ OrphansUnderWay' /\ LiveHasObject'
        BY <1>1, StopStep
    <1>3. TypeOK'
        BY <1>1, <1>2 DEF StInv, TypeOK
    <1>4. LockedFits'
        BY <1>1, <1>2, LockKept
    <1> QED BY <1>2, <1>3, <1>4 DEF StInv

LEMMA CleanUpFailsStep == ASSUME StInv, NEW s \in Slots, CleanUpFails(s) PROVE StInv'
    <1>1. /\ Stop(s) /\ UNCHANGED <<file, object, account, lock, purge>>
          /\ Has(s, {"refused"}) /\ lost' = lost \cup {request[s].file}
          /\ faults' \in 0..MaxFaults
        BY FaultTyped DEF CleanUpFails, StInv, Has
    <1>2. /\ request' \in [Slots -> Request]
          /\ \A t \in Slots : t # s => request'[t] = request[t]
          /\ ~Has(s, {"locked"})'
          /\ UploadsApart' /\ DeletedHaveRows' /\ PurgedAreGone' /\ OrphansUnderWay' /\ LiveHasObject'
        BY <1>1, StopStep
    <1>3. request[s].file \in Files
        BY <1>1 DEF StInv, UploadsApart, Has, Rowless
    <1>4. TypeOK'
        BY <1>1, <1>2, <1>3 DEF StInv, TypeOK
    <1>5. LockedFits'
        BY <1>1, <1>2, LockKept
    <1> QED BY <1>2, <1>4, <1>5 DEF StInv

LEMMA CrashStep == ASSUME StInv, NEW s \in Slots, Crash(s) PROVE StInv'
    <1>1. /\ Stop(s) /\ UNCHANGED <<file, object, account, purge>>
          /\ lost' = IF Has(s, Stored) THEN lost \cup {request[s].file} ELSE lost
          /\ lock' = IF lock = s THEN None ELSE lock
          /\ faults' \in 0..MaxFaults
        BY FaultTyped DEF Crash, StInv, Has, Stored
    <1>2. /\ request' \in [Slots -> Request]
          /\ \A t \in Slots : t # s => request'[t] = request[t]
          /\ ~Has(s, {"locked"})'
          /\ UploadsApart' /\ DeletedHaveRows' /\ PurgedAreGone' /\ OrphansUnderWay' /\ LiveHasObject'
        BY <1>1, StopStep
    <1>3. Has(s, Stored) => request[s].file \in Files
        BY DEF StInv, UploadsApart, Has, Rowless, Stored
    <1>4. TypeOK'
        BY <1>1, <1>2, <1>3 DEF StInv, TypeOK
    <1>5. LockedFits'
        BY <1>1, <1>2 DEF StInv, LockedFits, Has, Fits
    <1> QED BY <1>2, <1>4, <1>5 DEF StInv

LEMMA LockAndCheckStep == ASSUME StInv, NEW s \in Slots, LockAndCheck(s) PROVE StInv'
    <1>1. /\ Goto(s, "locked") /\ UNCHANGED <<file, object, account, purge, faults, lost>>
          /\ Has(s, {"moved", "locked"}) /\ lock = None /\ lock' = s
          /\ Fits(request[s].kind, request[s].size, account.used)
        BY DEF LockAndCheck, Has
    <1>2. /\ request' \in [Slots -> Request]
          /\ \A t \in Slots : t # s => request'[t] = request[t]
          /\ UploadsApart' /\ DeletedHaveRows' /\ PurgedAreGone' /\ OrphansUnderWay' /\ LiveHasObject'
        BY <1>1, GotoStep DEF Stored
    <1>3. request'[s].kind = request[s].kind /\ request'[s].size = request[s].size
        BY <1>1, Went DEF StInv, Stages
    <1>4. TypeOK'
        BY <1>1, <1>2 DEF StInv, TypeOK
    <1>5. LockedFits'
        BY <1>1, <1>2, <1>3, NobodyLocks DEF LockedFits, Has, Fits
    <1> QED BY <1>2, <1>4, <1>5 DEF StInv

LEMMA RefuseStep == ASSUME StInv, NEW s \in Slots, Refuse(s) PROVE StInv'
    <1>1. /\ Goto(s, "refused") /\ UNCHANGED <<file, object, account, lock, purge, faults, lost>>
          /\ Has(s, {"moved", "locked"})
        BY DEF Refuse, Has
    <1>2. /\ request' \in [Slots -> Request]
          /\ \A t \in Slots : t # s => request'[t] = request[t]
          /\ UploadsApart' /\ DeletedHaveRows' /\ PurgedAreGone' /\ OrphansUnderWay' /\ LiveHasObject'
        BY <1>1, GotoStep DEF Stored
    <1>3. ~Has(s, {"locked"})'
        BY <1>1, Went DEF StInv, Stages, Has
    <1>4. TypeOK'
        BY <1>1, <1>2 DEF StInv, TypeOK
    <1>5. LockedFits'
        BY <1>1, <1>2, <1>3, LockKept
    <1> QED BY <1>2, <1>4, <1>5 DEF StInv

LEMMA AbortStep == ASSUME StInv, NEW s \in Slots, Abort(s) PROVE StInv'
    <1>1. /\ Goto(s, "refused") /\ UNCHANGED <<file, object, account, purge, lost>>
          /\ Has(s, {"moved", "locked"}) /\ lock = s /\ lock' = None
          /\ faults' \in 0..MaxFaults
        BY FaultTyped DEF Abort, Has, StInv, LockedFits
    <1>2. /\ request' \in [Slots -> Request]
          /\ \A t \in Slots : t # s => request'[t] = request[t]
          /\ UploadsApart' /\ DeletedHaveRows' /\ PurgedAreGone' /\ OrphansUnderWay' /\ LiveHasObject'
        BY <1>1, GotoStep DEF Stored
    <1>3. ~Has(s, {"locked"})'
        BY <1>1, Went DEF StInv, Stages, Has
    <1>4. TypeOK'
        BY <1>1, <1>2 DEF StInv, TypeOK
    <1>5. LockedFits'
        BY <1>1, <1>2, <1>3, LockGiven
    <1> QED BY <1>2, <1>4, <1>5 DEF StInv

LEMMA MoveStep == ASSUME StInv, NEW s \in Slots, Move(s) PROVE StInv'
    <1> DEFINE f == request[s].file
    <1>1. /\ Goto(s, "moved") /\ UNCHANGED <<file, account, lock, purge, faults, lost>>
          /\ Has(s, {"moving"}) /\ object' = object \cup {f}
        BY DEF Move, Has
    <1>2. /\ request' \in [Slots -> Request]
          /\ \A t \in Slots : t # s => request'[t] = request[t]
          /\ \A t \in Slots : /\ request'[t].file = request[t].file
                              /\ request'[t].old = request[t].old /\ request'[t].kind = request[t].kind
          /\ request'[s].at = "moved"
        BY <1>1, Went DEF StInv, Stages
    <1>3. /\ f \in Files /\ file[f].status = "none"
          /\ \A t \in Slots : request[t].file = f => t = s
        BY <1>1 DEF StInv, UploadsApart, Has, Rowless
    <1>4. TypeOK'
        BY <1>1, <1>2, <1>3 DEF StInv, TypeOK
    <1>5. UploadsApart'
        BY <1>1, <1>2, <1>3 DEF StInv, UploadsApart, Has, Rowless
    <1>6. DeletedHaveRows'
        BY <1>1, <1>2 DEF StInv, DeletedHaveRows
    <1>7. PurgedAreGone'
        BY <1>1, <1>3 DEF StInv, PurgedAreGone
    <1>8. OrphansUnderWay'
        <2>1. \A t \in Slots : Has(t, Stored) => Has(t, Stored)'
            BY <1>1, <1>2 DEF Has, Stored
        <2>2. Has(s, Stored)'
            BY <1>2 DEF Has, Stored
        <2> QED BY <1>1, <1>2, <1>3, <2>1, <2>2 DEF StInv, OrphansUnderWay
    <1>9. LiveHasObject'
        BY <1>1 DEF StInv, LiveHasObject, Live
    <1>10. LockedFits'
        BY <1>1, <1>2, LockKept DEF Has
    <1> QED BY <1>4, <1>5, <1>6, <1>7, <1>8, <1>9, <1>10 DEF StInv

LEMMA CleanUpStep == ASSUME StInv, NEW s \in Slots, CleanUp(s) PROVE StInv'
    <1> DEFINE f == request[s].file
    <1>1. /\ Stop(s) /\ UNCHANGED <<file, account, lock, purge, faults, lost>>
          /\ Has(s, {"refused"}) /\ object' = object \ {f}
        BY DEF CleanUp, Has
    <1>2. /\ request' \in [Slots -> Request]
          /\ \A t \in Slots : t # s => request'[t] = request[t]
          /\ request'[s].at = "idle" /\ request'[s].file = None /\ request'[s].old = {}
        BY <1>1, Stopped, IdleTyped DEF StInv
    <1>3. /\ f \in Files /\ file[f].status = "none"
          /\ \A t \in Slots : request[t].file = f => t = s
        BY <1>1 DEF StInv, UploadsApart, Has, Rowless
    <1>4. TypeOK'
        BY <1>1, <1>2 DEF StInv, TypeOK
    <1>5. UploadsApart'
        BY <1>1, <1>2, <1>3, FilesAssumption DEF StInv, UploadsApart, Has, Rowless
    <1>6. DeletedHaveRows'
        BY <1>1, <1>2 DEF StInv, DeletedHaveRows
    <1>7. PurgedAreGone'
        BY <1>1 DEF StInv, PurgedAreGone
    <1>8. OrphansUnderWay'
        BY <1>1, <1>2 DEF StInv, OrphansUnderWay, Has
    <1>9. LiveHasObject'
        BY <1>1, <1>3 DEF StInv, LiveHasObject, Live
    <1>10. LockedFits'
        BY <1>1, <1>2, LockKept DEF Has
    <1> QED BY <1>4, <1>5, <1>6, <1>7, <1>8, <1>9, <1>10 DEF StInv

LEMMA CommitStep == ASSUME StInv, NEW s \in Slots, Commit(s) PROVE StInv'
    <1> DEFINE f == request[s].file
               entry == [status |-> "live", kind |-> request[s].kind, size |-> request[s].size]
               used == account.used + request[s].size
               on == [request[s] EXCEPT !.at = "deleting", !.used = used]
               new == IF request[s].kind = "logo" THEN on ELSE Idle
    <1>1. /\ Has(s, {"locked"}) /\ file' = [file EXCEPT ![f] = entry]
          /\ account' = [account EXCEPT !.used = used] /\ lock' = None
          /\ request' = [request EXCEPT ![s] = new]
          /\ UNCHANGED <<object, purge, faults, lost>>
        BY DEF Commit, Has
    <1>2. /\ f \in Files /\ file[f].status = "none" /\ f \in object
          /\ \A t \in Slots : request[t].file = f => t = s
        BY <1>1 DEF StInv, UploadsApart, Has, Rowless
    <1>3. used \in Nat /\ account \in [used : Nat, limit : Nat]
        BY RequestTyped DEF StInv, TypeOK
    <1> HIDE DEF used
    <1>4. on \in Request /\ on.at = "deleting" /\ on.file = f /\ on.old = request[s].old
        <2>1. request[s] \in Request
            BY RequestTyped DEF StInv
        <2> DEFINE mid == [request[s] EXCEPT !.at = "deleting"]
        <2>2. mid \in Request /\ mid.at = "deleting" /\ mid.file = f /\ mid.old = request[s].old
            BY <2>1 DEF Request
        <2>3. on = [mid EXCEPT !.used = used]
            OBVIOUS
        <2> HIDE DEF mid, on
        <2> QED BY <1>3, <2>2, <2>3 DEF Request
    <1> HIDE DEF on
    <1>5. new \in Request /\ new.at \in {"deleting", "idle"} /\ new.old \subseteq request[s].old
          /\ new.file \in {f, None}
        BY <1>4, IdleTyped
    <1> HIDE DEF new
    <1>6. /\ request' \in [Slots -> Request]
          /\ \A t \in Slots : t # s => request'[t] = request[t]
          /\ request'[s] = new
        BY <1>1, <1>5, Became DEF StInv
    <1>7. \A g \in Files : file'[g] = IF g = f THEN entry ELSE file[g]
        BY <1>1, <1>2 DEF StInv, TypeOK
    <1>8. TypeOK'
        <2>1. request[s].kind \in {"file", "support", "logo"} /\ request[s].size \in Nat
            BY <1>1, RequestTyped DEF StInv, UploadsApart, Has, Rowless
        <2>2. entry \in FileRow
            BY <2>1 DEF FileRow
        <2>3. file' \in [Files -> FileRow]
            BY <1>1, <2>2 DEF StInv, TypeOK
        <2>4. account' \in [used : Nat, limit : Nat]
            BY <1>1, <1>3
        <2> QED BY <1>1, <1>6, <2>3, <2>4 DEF StInv, TypeOK
    <1>9. UploadsApart'
        BY <1>1, <1>2, <1>5, <1>6, <1>7, FilesAssumption DEF StInv, UploadsApart, Has, Rowless
    <1>10. DeletedHaveRows'
        <2>1. \A t \in Slots : request[t].old \in SUBSET Files
            BY RequestTyped DEF StInv
        <2> QED BY <1>5, <1>6, <1>7, <2>1 DEF StInv, DeletedHaveRows
    <1>11. PurgedAreGone'
        <2>1. purge.listed \subseteq Files /\ purge.emptied \in Files \cup {None}
            BY DEF StInv, TypeOK
        <2> QED BY <1>1, <1>2, <1>7, <2>1 DEF StInv, PurgedAreGone
    <1>12. OrphansUnderWay'
        <2>1. object \subseteq Files
            BY DEF StInv, TypeOK
        <2> QED BY <1>1, <1>2, <1>6, <1>7, <2>1 DEF StInv, OrphansUnderWay, Has
    <1>13. LiveHasObject'
        BY <1>1, <1>2, <1>7 DEF StInv, LiveHasObject, Live
    <1>14. LockedFits'
        BY <1>1, <1>5, <1>6, LockGiven DEF StInv, LockedFits, Has
    <1> QED BY <1>8, <1>9, <1>10, <1>11, <1>12, <1>13, <1>14 DEF StInv

LEMMA BeginDeleteStep ==
    ASSUME StInv, NEW s \in Slots, NEW f \in Files, BeginDelete(s, f) PROVE StInv'
    <1> DEFINE mid == [Idle EXCEPT !.at = "deleting"]
               new == [mid EXCEPT !.old = {f}]
    <1>1. /\ request[s].at = "idle" /\ f \in Live
          /\ request' = [request EXCEPT ![s] = new]
          /\ UNCHANGED <<file, object, account, lock, purge, faults, lost>>
        BY DEF BeginDelete
    <1>2. mid \in Request /\ mid.at = "deleting" /\ mid.file = None
        BY IdleTyped DEF Request
    <1> HIDE DEF mid
    <1>3. new \in Request /\ new.at = "deleting" /\ new.file = None /\ new.old = {f}
        BY <1>2 DEF Request
    <1> HIDE DEF new
    <1>4. /\ request' \in [Slots -> Request]
          /\ \A t \in Slots : t # s => request'[t] = request[t]
          /\ request'[s] = new
        BY <1>1, <1>3, Became DEF StInv
    <1>5. \A g \in request'[s].old : file[g].status # "none"
        BY <1>1, <1>3, <1>4 DEF Live
    <1>6. /\ ~Has(s, Rowless)' /\ ~Has(s, {"moving"})' /\ ~Has(s, {"moved", "locked"})'
          /\ ~Has(s, {"locked"})' /\ ~Has(s, Stored)
        BY <1>1, <1>3, <1>4 DEF Has, Rowless, Stored
    <1>7. UploadsApart' /\ DeletedHaveRows' /\ PurgedAreGone' /\ OrphansUnderWay' /\ LiveHasObject'
        BY <1>1, <1>3, <1>4, <1>5, <1>6, RequestOnly
    <1>8. TypeOK'
        BY <1>1, <1>4 DEF StInv, TypeOK
    <1>9. LockedFits'
        BY <1>1, <1>4, <1>6, LockKept
    <1> QED BY <1>7, <1>8, <1>9 DEF StInv

LEMMA DeletedStep == ASSUME StInv, NEW s \in Slots, Deleted(s) PROVE StInv'
    <1>1. /\ request[s].at = "deleting"
          /\ UNCHANGED <<file, object, account, lock, purge, faults, lost>>
          /\ \/ Goto(s, "saving")
             \/ Stop(s)
        BY DEF Deleted, Goto, Stop
    <1>2. ~Has(s, Stored)
        BY <1>1 DEF Has, Stored
    <1>3. /\ request' \in [Slots -> Request]
          /\ \A t \in Slots : t # s => request'[t] = request[t]
          /\ ~Has(s, {"locked"})'
          /\ UploadsApart' /\ DeletedHaveRows' /\ PurgedAreGone' /\ OrphansUnderWay' /\ LiveHasObject'
        <2>1. CASE Goto(s, "saving")
            <3>1. request'[s].at = "saving"
                BY <2>1, Went DEF StInv, Stages
            <3>2. /\ request' \in [Slots -> Request]
                  /\ \A t \in Slots : t # s => request'[t] = request[t]
                  /\ UploadsApart' /\ DeletedHaveRows' /\ PurgedAreGone' /\ OrphansUnderWay' /\ LiveHasObject'
                BY <1>1, <1>2, <2>1, GotoStep DEF Stored
            <3> QED BY <3>1, <3>2 DEF Has
        <2>2. CASE Stop(s)
            BY <1>1, <1>2, <2>2, StopStep
        <2> QED BY <1>1, <2>1, <2>2
    <1>4. TypeOK'
        BY <1>1, <1>3 DEF StInv, TypeOK
    <1>5. LockedFits'
        BY <1>1, <1>3, LockKept
    <1> QED BY <1>3, <1>4, <1>5 DEF StInv

LEMMA SaveLogoStep == ASSUME StInv, NEW s \in Slots, SaveLogo(s) PROVE StInv'
    <1>1. /\ request[s].at = "saving" /\ lock = None /\ Stop(s)
          /\ account' = [account EXCEPT !.used = request[s].used]
          /\ UNCHANGED <<file, object, lock, purge, faults, lost>>
        BY DEF SaveLogo
    <1>2. ~Has(s, Stored)
        BY <1>1 DEF Has, Stored
    <1>3. /\ request' \in [Slots -> Request]
          /\ \A t \in Slots : t # s => request'[t] = request[t]
          /\ ~Has(s, {"locked"})'
          /\ UploadsApart' /\ DeletedHaveRows' /\ PurgedAreGone' /\ OrphansUnderWay' /\ LiveHasObject'
        BY <1>1, <1>2, StopStep
    <1>4. TypeOK'
        <2>1. request[s].used \in Nat
            BY RequestTyped DEF StInv
        <2> QED BY <1>1, <1>3, <2>1 DEF StInv, TypeOK
    <1>5. LockedFits'
        BY <1>1, <1>3, LockGiven
    <1> QED BY <1>3, <1>4, <1>5 DEF StInv

LEMMA DeleteStep == ASSUME StInv, NEW s \in Slots, NEW f \in Files, Delete(s, f) PROVE StInv'
    <1> DEFINE used == Max({account.used - file[f].size, 0})
               entry == [file[f] EXCEPT !.status = IF @ = "purged" THEN @ ELSE "deleted"]
               new == [request[s] EXCEPT !.old = @ \ {f}]
    <1>1. /\ request[s].at = "deleting" /\ f \in request[s].old /\ lock = None
          /\ file' = [file EXCEPT ![f] = entry]
          /\ account' = [account EXCEPT !.used = used]
          /\ request' = [request EXCEPT ![s] = new]
          /\ UNCHANGED <<object, lock, purge, faults, lost>>
        BY DEF Delete
    <1>2. used \in Nat
        <2>1. account.used - file[f].size \in Int
            BY DEF StInv, TypeOK, FileRow
        <2> QED BY <2>1, AtLeastZero
    <1> HIDE DEF used
    <1>3. entry \in FileRow /\ entry.status = IF file[f].status = "purged" THEN "purged" ELSE "deleted"
        BY DEF StInv, TypeOK, FileRow
    <1> HIDE DEF entry
    <1>4. request[s] \in Request
        BY RequestTyped DEF StInv
    <1>5. /\ new \in Request /\ new.at = request[s].at /\ new.file = request[s].file
          /\ new.old = request[s].old \ {f}
        BY <1>4 DEF Request
    <1> HIDE DEF new
    <1>6. /\ request' \in [Slots -> Request]
          /\ \A t \in Slots : t # s => request'[t] = request[t]
          /\ request'[s] = new
        BY <1>1, <1>5, Became DEF StInv
    <1>7. /\ file' \in [Files -> FileRow]
          /\ \A g \in Files : file'[g] = IF g = f THEN entry ELSE file[g]
        BY <1>1, <1>3 DEF StInv, TypeOK
    <1>8. file[f].status # "none" /\ file'[f].status \notin {"none", "live"}
        BY <1>1, <1>3, <1>7 DEF StInv, DeletedHaveRows
    <1>9. TypeOK'
        BY <1>1, <1>2, <1>6, <1>7 DEF StInv, TypeOK
    <1>10. UploadsApart'
        <2>1. ~Has(s, Rowless) /\ ~Has(s, Rowless)' /\ ~Has(s, {"moving"})' /\ ~Has(s, {"moved", "locked"})'
            BY <1>1, <1>5, <1>6 DEF Has, Rowless
        <2> QED BY <1>1, <1>5, <1>6, <1>7, <1>8, <2>1 DEF StInv, UploadsApart, Has
    <1>11. DeletedHaveRows'
        <2>1. \A t \in Slots : request[t].old \in SUBSET Files
            BY RequestTyped DEF StInv
        <2> QED BY <1>5, <1>6, <1>7, <1>8, <2>1 DEF StInv, DeletedHaveRows
    <1>12. PurgedAreGone'
        <2>1. purge.listed \subseteq Files /\ purge.emptied \in Files \cup {None}
            BY DEF StInv, TypeOK
        <2> QED BY <1>1, <1>7, <1>8, <2>1, FilesAssumption DEF StInv, PurgedAreGone
    <1>13. OrphansUnderWay'
        <2>1. object \subseteq Files
            BY DEF StInv, TypeOK
        <2>2. \A t \in Slots : Has(t, Stored) => Has(t, Stored)' /\ request'[t].file = request[t].file
            BY <1>5, <1>6 DEF Has
        <2> QED BY <1>1, <1>3, <1>7, <1>8, <2>1, <2>2 DEF StInv, OrphansUnderWay
    <1>14. LiveHasObject'
        BY <1>1, <1>7, <1>8 DEF StInv, LiveHasObject, Live
    <1>15. LockedFits'
        BY <1>1, <1>5, <1>6, LockGiven DEF Has
    <1> QED BY <1>9, <1>10, <1>11, <1>12, <1>13, <1>14, <1>15 DEF StInv

\* The steps in which no request moves.
LEMMA ExpireStep == ASSUME StInv, NEW f \in Files, Expire(f) PROVE StInv'
    <1> DEFINE entry == [file[f] EXCEPT !.status = "expired"]
    <1>1. /\ file[f].status = "deleted" /\ file' = [file EXCEPT ![f] = entry]
          /\ UNCHANGED <<object, account, lock, request, purge, faults, lost>>
        BY DEF Expire
    <1>2. entry \in FileRow /\ entry.status = "expired"
        BY DEF StInv, TypeOK, FileRow
    <1> HIDE DEF entry
    <1>3. /\ file' \in [Files -> FileRow]
          /\ \A g \in Files : file'[g] = IF g = f THEN entry ELSE file[g]
        BY <1>1, <1>2 DEF StInv, TypeOK
    <1>4. TypeOK'
        BY <1>1, <1>3 DEF StInv, TypeOK
    <1>5. UploadsApart'
        BY <1>1, <1>2, <1>3 DEF StInv, UploadsApart, Has
    <1>6. DeletedHaveRows'
        <2>1. \A t \in Slots : request[t].old \in SUBSET Files
            BY RequestTyped DEF StInv
        <2> QED BY <1>1, <1>2, <1>3, <2>1 DEF StInv, DeletedHaveRows
    <1>7. PurgedAreGone'
        <2>1. purge.listed \subseteq Files /\ purge.emptied \in Files \cup {None}
            BY DEF StInv, TypeOK
        <2> QED BY <1>1, <1>2, <1>3, <2>1, FilesAssumption DEF StInv, PurgedAreGone
    <1>8. OrphansUnderWay'
        <2>1. object \subseteq Files
            BY DEF StInv, TypeOK
        <2> QED BY <1>1, <1>2, <1>3, <2>1 DEF StInv, OrphansUnderWay, Has
    <1>9. LiveHasObject'
        BY <1>1, <1>2, <1>3 DEF StInv, LiveHasObject, Live
    <1>10. LockedFits'
        BY <1>1 DEF StInv, LockedFits, Has, Fits
    <1> QED BY <1>4, <1>5, <1>6, <1>7, <1>8, <1>9, <1>10 DEF StInv

\* The purge looks at files that are neither new nor live, and forgets some.
LEMMA PurgeLists ==
    ASSUME StInv, UNCHANGED <<file, object, account, lock, request, lost>>,
           faults' \in 0..MaxFaults,
           purge' \in [listed : SUBSET Files, emptied : Files \cup {None}],
           \A f \in purge'.listed : f \in purge.listed \/ file[f].status = "expired",
           purge'.emptied \in {purge.emptied, None}
    PROVE  StInv'
    <1>1. TypeOK'
        BY DEF StInv, TypeOK
    <1>2. UploadsApart' /\ DeletedHaveRows'
        BY DEF StInv, UploadsApart, DeletedHaveRows, Has
    <1>3. PurgedAreGone'
        BY DEF StInv, PurgedAreGone
    <1>4. OrphansUnderWay' /\ LiveHasObject'
        BY DEF StInv, OrphansUnderWay, LiveHasObject, Live, Has
    <1>5. LockedFits'
        BY DEF StInv, LockedFits, Has, Fits
    <1> QED BY <1>1, <1>2, <1>3, <1>4, <1>5 DEF StInv

LEMMA StartPurgeStep == ASSUME StInv, StartPurge PROVE StInv'
    <1>1. purge' = [listed |-> {f \in Files : file[f].status = "expired"}, emptied |-> None]
        BY DEF StartPurge, Asleep
    <1>2. UNCHANGED <<file, object, account, lock, request, lost, faults>> /\ faults \in 0..MaxFaults
        BY DEF StartPurge, StInv, TypeOK
    <1> QED BY <1>1, <1>2, PurgeLists

LEMMA PurgeFailsStep == ASSUME StInv, NEW f \in Files, PurgeFails(f) PROVE StInv'
    <1>1. purge' = [purge EXCEPT !.listed = purge.listed \ {f}]
          /\ purge \in [listed : SUBSET Files, emptied : Files \cup {None}]
        BY DEF PurgeFails, StInv, TypeOK
    <1>2. /\ purge' \in [listed : SUBSET Files, emptied : Files \cup {None}]
          /\ purge'.listed = purge.listed \ {f} /\ purge'.emptied = purge.emptied
        BY <1>1
    <1>3. UNCHANGED <<file, object, account, lock, request, lost>> /\ faults' \in 0..MaxFaults
        BY FaultTyped DEF PurgeFails, StInv
    <1> QED BY <1>2, <1>3, PurgeLists

LEMMA PurgeCrashesStep == ASSUME StInv, PurgeCrashes PROVE StInv'
    <1>1. purge' = [listed |-> {}, emptied |-> None]
        BY DEF PurgeCrashes, Asleep
    <1>2. UNCHANGED <<file, object, account, lock, request, lost>> /\ faults' \in 0..MaxFaults
        BY FaultTyped DEF PurgeCrashes, StInv
    <1> QED BY <1>1, <1>2, PurgeLists

LEMMA PurgeObjectStep == ASSUME StInv, NEW f \in Files, PurgeObject(f) PROVE StInv'
    <1>1. /\ f \in purge.listed /\ object' = object \ {f}
          /\ purge' = [purge EXCEPT !.emptied = f]
          /\ UNCHANGED <<file, account, lock, request, faults, lost>>
          /\ purge \in [listed : SUBSET Files, emptied : Files \cup {None}]
        BY DEF PurgeObject, StInv, TypeOK
    <1>2. /\ purge' \in [listed : SUBSET Files, emptied : Files \cup {None}]
          /\ purge'.listed = purge.listed /\ purge'.emptied = f
        BY <1>1
    <1>3. file[f].status \notin {"none", "live"}
        BY <1>1 DEF StInv, PurgedAreGone
    <1>4. TypeOK'
        BY <1>1, <1>2 DEF StInv, TypeOK
    <1>5. UploadsApart' /\ DeletedHaveRows'
        <2>1. \A s \in Slots : Has(s, {"moved", "locked"}) => request[s].file # f
            BY <1>3 DEF StInv, UploadsApart, Has, Rowless
        <2> QED BY <1>1, <2>1 DEF StInv, UploadsApart, DeletedHaveRows, Has
    <1>6. PurgedAreGone'
        BY <1>1, <1>2, <1>3 DEF StInv, PurgedAreGone
    <1>7. OrphansUnderWay' /\ LiveHasObject'
        BY <1>1, <1>3 DEF StInv, OrphansUnderWay, LiveHasObject, Live, Has
    <1>8. LockedFits'
        BY <1>1 DEF StInv, LockedFits, Has, Fits
    <1> QED BY <1>4, <1>5, <1>6, <1>7, <1>8 DEF StInv

LEMMA PurgeRowStep == ASSUME StInv, PurgeRow PROVE StInv'
    <1> DEFINE f == purge.emptied
               entry == [file[f] EXCEPT !.status = "purged"]
    <1>1. /\ f # None /\ file' = [file EXCEPT ![f] = entry]
          /\ purge' = [listed |-> purge.listed \ {f}, emptied |-> None]
          /\ UNCHANGED <<object, account, lock, request, faults, lost>>
        BY DEF PurgeRow
    <1>2. f \in Files /\ purge.listed \subseteq Files
        BY <1>1 DEF StInv, TypeOK
    <1>3. file[f].status \notin {"none", "live"} /\ f \notin object
        BY <1>1 DEF StInv, PurgedAreGone
    <1>4. entry \in FileRow /\ entry.status = "purged"
        BY <1>2 DEF StInv, TypeOK, FileRow
    <1> HIDE DEF entry, f
    <1>5. /\ file' \in [Files -> FileRow]
          /\ \A g \in Files : file'[g] = IF g = f THEN entry ELSE file[g]
        BY <1>1, <1>2, <1>4 DEF StInv, TypeOK
    <1>6. TypeOK'
        BY <1>1, <1>2, <1>5 DEF StInv, TypeOK
    <1>7. UploadsApart'
        BY <1>1, <1>3, <1>4, <1>5 DEF StInv, UploadsApart, Has
    <1>8. DeletedHaveRows'
        <2>1. \A t \in Slots : request[t].old \in SUBSET Files
            BY RequestTyped DEF StInv
        <2> QED BY <1>1, <1>4, <1>5, <2>1 DEF StInv, DeletedHaveRows
    <1>9. PurgedAreGone'
        BY <1>1, <1>2, <1>4, <1>5 DEF StInv, PurgedAreGone
    <1>10. OrphansUnderWay'
        <2>1. object \subseteq Files
            BY DEF StInv, TypeOK
        <2> QED BY <1>1, <1>3, <1>5, <2>1 DEF StInv, OrphansUnderWay, Has
    <1>11. LiveHasObject'
        BY <1>1, <1>4, <1>5 DEF StInv, LiveHasObject, Live
    <1>12. LockedFits'
        BY <1>1 DEF StInv, LockedFits, Has, Fits
    <1> QED BY <1>6, <1>7, <1>8, <1>9, <1>10, <1>11, <1>12 DEF StInv

LEMMA OverrideLimitStep == ASSUME StInv, NEW l \in Limits, OverrideLimit(l) PROVE StInv'
    <1>1. /\ lock = None /\ account' = [account EXCEPT !.limit = l]
          /\ UNCHANGED <<file, object, lock, request, purge, faults, lost>>
        BY DEF OverrideLimit
    <1>2. TypeOK'
        BY <1>1, SizesAssumption DEF StInv, TypeOK
    <1>3. UploadsApart' /\ DeletedHaveRows' /\ PurgedAreGone'
        BY <1>1 DEF StInv, UploadsApart, DeletedHaveRows, PurgedAreGone, Has
    <1>4. OrphansUnderWay' /\ LiveHasObject'
        BY <1>1 DEF StInv, OrphansUnderWay, LiveHasObject, Live, Has
    <1>5. LockedFits'
        BY <1>1, NobodyLocks DEF LockedFits, Has
    <1> QED BY <1>2, <1>3, <1>4, <1>5 DEF StInv

LEMMA StInvStep == StInv /\ [Next]_vars => StInv'
    <1> SUFFICES ASSUME StInv, [Next]_vars PROVE StInv'
        OBVIOUS
    <1>1. ASSUME NEW s \in Slots, Upload(s) PROVE StInv'
        BY <1>1, BeginUploadStep, MoveStep, MoveFailsStep, LockAndCheckStep, RefuseStep,
           CommitStep, AbortStep, CleanUpStep, CleanUpFailsStep DEF Upload
    <1>2. ASSUME NEW s \in Slots, Remove(s) PROVE StInv'
        BY <1>2, BeginDeleteStep, DeleteStep, DeletedStep, SaveLogoStep DEF Remove
    <1>3. ASSUME NEW s \in Slots, Crash(s) PROVE StInv'
        BY <1>3, CrashStep
    <1>4. CASE Purge \/ PurgeCrashes \/ \E f \in Files : Expire(f) \/ PurgeFails(f)
        BY <1>4, StartPurgeStep, PurgeObjectStep, PurgeRowStep, PurgeCrashesStep, ExpireStep,
           PurgeFailsStep DEF Purge
    <1>5. CASE \E l \in Limits : OverrideLimit(l)
        BY <1>5, OverrideLimitStep
    <1>6. CASE UNCHANGED vars
        BY <1>6 DEF vars, StInv, TypeOK, UploadsApart, DeletedHaveRows, PurgedAreGone,
           OrphansUnderWay, LiveHasObject, LockedFits, Has, Live, Fits
    <1> QED BY <1>1, <1>2, <1>3, <1>4, <1>5, <1>6 DEF Next

-----------------------------------------------------------------------------
(* The counter and the sum. *)

LEMMA BytesTyped ==
    ASSUME TypeOK
    PROVE  [f \in Files |-> BytesOf(f)] \in [Files -> Nat] /\ CountedBytes \in Nat
    <1>1. \A f \in Files : BytesOf(f) \in Nat
        BY DEF TypeOK, FileRow, BytesOf
    <1>2. [f \in Files |-> BytesOf(f)] \in [Files -> Nat]
        BY <1>1
    <1> QED BY <1>2, FilesAssumption, SumIsNumber DEF CountedBytes

\* When one row changes, the sum changes by what that file counts.
LEMMA OneFileChanges ==
    ASSUME TypeOK, TypeOK', NEW g \in Files, \A f \in Files \ {g} : file'[f] = file[f]
    PROVE  /\ CountedBytes' = CountedBytes + BytesOf(g)' - BytesOf(g)
           /\ CountedBytes' \in Nat /\ BytesOf(g)' \in Nat /\ BytesOf(g) \in Nat
    <1> DEFINE v == [f \in Files |-> BytesOf(f)]
               w == [f \in Files |-> BytesOf(f)']
    <1>1. v \in [Files -> Nat]
        BY BytesTyped
    <1>2. w \in [Files -> Nat]
        <2>1. \A f \in Files : BytesOf(f)' \in Nat
            BY DEF TypeOK, FileRow, BytesOf
        <2> QED BY <2>1
    <1>3. \A f \in Files \ {g} : v[f] = w[f]
        BY DEF BytesOf, Live
    <1>4. w[g] = BytesOf(g)' /\ v[g] = BytesOf(g)
        OBVIOUS
    <1>5. CountedBytes = SumFunction(v) /\ CountedBytes' = SumFunction(w)
        BY DEF CountedBytes
    <1> HIDE DEF v, w
    <1>6. SumFunction(w) = SumFunction(v) + w[g] - v[g]
        BY <1>1, <1>2, <1>3, FilesAssumption, SumChanges
    <1>7. SumFunction(w) \in Nat /\ w[g] \in Nat /\ v[g] \in Nat
        BY <1>1, <1>2, FilesAssumption, SumIsNumber
    <1> QED BY <1>4, <1>5, <1>6, <1>7

LEMMA MaxOfNat == ASSUME NEW a \in Nat PROVE Max({a, 0}) = a
    <1>1. Max({a, 0}) \in {a, 0} /\ \A y \in {a, 0} : Max({a, 0}) >= y
        <2>1. \E m \in {a, 0} : \A y \in {a, 0} : m >= y
            OBVIOUS
        <2> QED BY <2>1 DEF Max
    <1> QED BY <1>1

\* An upload adds to both what its file counts.
LEMMA CommitKeepsSum ==
    ASSUME StInv, StInv', NEW s \in Slots, Commit(s), CounterIsSum
    PROVE  CounterIsSum'
    <1>0. request[s].file \in Files
        BY DEF StInv, UploadsApart, Has, Rowless, Commit
    <1> PICK f \in Files : f = request[s].file
        BY <1>0
    <1>1. /\ file' = [file EXCEPT ![f] = [status |-> "live", kind |-> request[s].kind,
                                         size |-> request[s].size]]
          /\ account' = [account EXCEPT !.used = account.used + request[s].size]
          /\ Has(s, {"locked"})
        BY DEF Commit, Has
    <1>2. file[f].status = "none"
        BY <1>1 DEF StInv, UploadsApart, Has, Rowless
    <1>3. TypeOK /\ TypeOK' /\ request[s].size \in Nat /\ account.used \in Nat
        BY RequestTyped DEF StInv, TypeOK
    <1>4. \A g \in Files \ {f} : file'[g] = file[g]
        BY <1>1, <1>3 DEF TypeOK
    <1>5. BytesOf(f) = 0 /\ BytesOf(f)' = request[s].size
        BY <1>1, <1>2, <1>3 DEF BytesOf, Live, TypeOK
    <1>6. account'.used = account.used + request[s].size
        BY <1>1, <1>3 DEF TypeOK
    <1>7. CountedBytes' = CountedBytes + BytesOf(f)' - BytesOf(f)
        BY <1>3, <1>4, OneFileChanges
    <1> QED BY <1>3, <1>5, <1>6, <1>7 DEF CounterIsSum

\* The deletion of a live file takes from both what it counts.
LEMMA DeleteKeepsSum ==
    ASSUME StInv, StInv', NEW s \in Slots, NEW f \in Live, Delete(s, f), CounterIsSum
    PROVE  CounterIsSum'
    <1>1. /\ f \in Files /\ file[f].status = "live"
          /\ file' = [file EXCEPT ![f].status = IF @ = "purged" THEN @ ELSE "deleted"]
          /\ account' = [account EXCEPT !.used = Max({account.used - file[f].size, 0})]
        BY DEF Delete, Live
    <1>2. TypeOK /\ TypeOK' /\ account.used \in Nat /\ file[f].size \in Nat
        BY <1>1 DEF StInv, TypeOK, FileRow
    <1>3. \A g \in Files \ {f} : file'[g] = file[g]
        BY <1>1, <1>2 DEF TypeOK
    <1>4. file'[f].status = "deleted"
        BY <1>1, <1>2 DEF TypeOK, FileRow
    <1>5. BytesOf(f) = file[f].size /\ BytesOf(f)' = 0
        BY <1>1, <1>4 DEF BytesOf, Live
    <1>6. CountedBytes' = CountedBytes + BytesOf(f)' - BytesOf(f) /\ CountedBytes' \in Nat
        BY <1>1, <1>2, <1>3, OneFileChanges
    <1>7. account.used - file[f].size = CountedBytes'
        BY <1>2, <1>5, <1>6 DEF CounterIsSum
    <1>8. account'.used = account.used - file[f].size
        BY <1>1, <1>2, <1>6, <1>7, MaxOfNat DEF TypeOK
    <1> QED BY <1>7, <1>8 DEF CounterIsSum

\* A row that was and is not live counts for nothing.
LEMMA UncountedKeepSum ==
    ASSUME StInv, StInv', NEW g \in Files, g \notin Live, g \notin Live',
           \A f \in Files \ {g} : file'[f] = file[f], account'.used = account.used, CounterIsSum
    PROVE  CounterIsSum'
    <1>1. BytesOf(g) = 0 /\ BytesOf(g)' = 0
        BY DEF BytesOf
    <1>2. TypeOK /\ TypeOK'
        BY DEF StInv
    <1>3. CountedBytes' = CountedBytes + BytesOf(g)' - BytesOf(g) /\ CountedBytes \in Nat
        BY <1>2, OneFileChanges, BytesTyped
    <1> QED BY <1>1, <1>3 DEF CounterIsSum

LEMMA DriftStep ==
    ASSUME StInv, StInv', Next, CounterIsSum, ~CounterIsSum'
    PROVE  \E s \in Slots : \/ request[s].at = "saving" /\ request'[s].at = "idle"
                            \/ \E f \in request[s].old \ request'[s].old : f \notin Live
    <1>0. TypeOK
        BY DEF StInv
    <1>1. ASSUME NEW s \in Slots, Commit(s) PROVE FALSE
        BY <1>1, CommitKeepsSum
    <1>2. ASSUME NEW s \in Slots, NEW f \in Files, Delete(s, f)
          PROVE  f \in request[s].old \ request'[s].old /\ f \notin Live
        <2>1. f \in request[s].old /\ request' = [request EXCEPT ![s].old = request[s].old \ {f}]
            BY <1>2 DEF Delete
        <2>2. request'[s].old = request[s].old \ {f}
            BY <1>0, <2>1 DEF TypeOK, Request
        <2> QED BY <1>2, <2>1, <2>2, DeleteKeepsSum
    <1>3. ASSUME NEW s \in Slots, SaveLogo(s)
          PROVE  request[s].at = "saving" /\ request'[s].at = "idle"
        BY <1>0, <1>3 DEF SaveLogo, Stop, Idle, TypeOK
    <1>4. ASSUME NEW g \in Files, Expire(g) PROVE FALSE
        <2>1. /\ file[g].status = "deleted" /\ file' = [file EXCEPT ![g].status = "expired"]
              /\ account' = account
            BY <1>4 DEF Expire
        <2>2. g \notin Live /\ g \notin Live' /\ \A f \in Files \ {g} : file'[f] = file[f]
            BY <1>0, <2>1 DEF Live, TypeOK, FileRow
        <2> QED BY <2>1, <2>2, UncountedKeepSum
    <1>5. ASSUME PurgeRow PROVE FALSE
        <2> DEFINE g == purge.emptied
        <2>1. /\ g # None /\ file' = [file EXCEPT ![g].status = "purged"] /\ account' = account
            BY <1>5 DEF PurgeRow
        <2>2. g \in Files /\ file[g].status # "live"
            BY <1>0, <2>1 DEF StInv, PurgedAreGone, TypeOK
        <2>3. g \notin Live /\ g \notin Live' /\ \A f \in Files \ {g} : file'[f] = file[f]
            BY <1>0, <2>1, <2>2 DEF Live, TypeOK, FileRow
        <2> HIDE DEF g
        <2> QED BY <2>1, <2>2, <2>3, UncountedKeepSum
    <1>6. ASSUME file' = file, account'.used = account.used PROVE FALSE
        BY <1>6 DEF CounterIsSum, CountedBytes, BytesOf, Live
    <1>7. \/ \E s \in Slots : Commit(s) \/ SaveLogo(s) \/ \E g \in Files : Delete(s, g)
          \/ \E g \in Files : Expire(g)
          \/ PurgeRow
          \/ file' = file /\ account'.used = account.used
        <2>1. account \in [used : Nat, limit : Nat]
            BY <1>0 DEF TypeOK
        <2> QED BY <2>1 DEF Next, Upload, Remove, Purge, BeginUpload, Move, MoveFails, LockAndCheck, Refuse,
               Abort, CleanUp, CleanUpFails, BeginDelete, Deleted, Crash, PurgeFails,
               StartPurge, PurgeObject, PurgeCrashes, OverrideLimit
    <1> QED BY <1>1, <1>2, <1>3, <1>4, <1>5, <1>6, <1>7

-----------------------------------------------------------------------------
(* Theorems. *)

\* The invariant holds in every reachable state.
THEOREM Invariant == Spec => []StInv
    BY InitStep, StInvStep, PTL DEF Spec

\* The rows, objects and requests of an account are well-typed; the counter in
\* particular never falls below zero (file_service.ts, delete).
THEOREM StorageTypes == Spec => []TypeOK
    <1>1. StInv => TypeOK
        BY DEF StInv
    <1> QED BY <1>1, Invariant, PTL

\* Whatever is shown can be read: the object of a live row is in the bucket,
\* however many uploads, deletions, crashes and purges there are.
THEOREM LiveFilesHaveObjects == Spec => []LiveHasObject
    <1>1. StInv => LiveHasObject
        BY DEF StInv
    <1> QED BY <1>1, Invariant, PTL

\* An object without a row is an upload under way or one that died; the purge
\* leaves none behind (purge_deleted_files_job.ts).
THEOREM OrphansAreUploads == Spec => []OrphansAreLostUploads
    <1>1. StInv => OrphansAreLostUploads
        <2> SUFFICES ASSUME StInv, NEW f \in object, file[f].status \in {"none", "purged"}
                     PROVE  f \in lost \/ \E s \in Slots : request[s].file = f /\ request[s].at # "moving"
            BY DEF OrphansAreLostUploads
        <2>1. f \in lost \/ \E s \in Slots : request[s].file = f /\ Has(s, Stored)
            BY DEF StInv, OrphansUnderWay
        <2> QED BY <2>1 DEF Has, Stored
    <1> QED BY <1>1, Invariant, PTL

\* No upload that counts is committed beyond the limit in force: what was
\* checked under the lock still holds when the row is inserted
\* (plan_service.ts, assertStorageWithinLimit).
THEOREM UploadsWithinLimit == Spec => NoUploadBeyondLimit
    <1> DEFINE Within == \A f \in Files : f \in Live' \ Live /\ file'[f].kind # "support"
                                          => account'.used <= account.limit
    <1>1. StInv /\ [Next]_vars => [Within]_vars
        <2> SUFFICES ASSUME StInv, Next PROVE Within
            OBVIOUS
        <2> SUFFICES ASSUME NEW f \in Files, f \in Live' \ Live, file'[f].kind # "support"
                     PROVE  account'.used <= account.limit
            OBVIOUS
        <2>0. file \in [Files -> FileRow] /\ account \in [used : Nat, limit : Nat]
            BY DEF StInv, TypeOK
        <2>1. file'[f].status = "live" /\ file[f].status # "live"
            BY DEF Live
        <2>2. ASSUME NEW s \in Slots, Commit(s) PROVE account'.used <= account.limit
            <3> DEFINE r == request[s]
            <3>1. /\ file' = [file EXCEPT ![r.file] = [status |-> "live", kind |-> r.kind, size |-> r.size]]
                  /\ account' = [account EXCEPT !.used = account.used + r.size]
                  /\ Has(s, {"locked"})
                BY <2>2 DEF Commit, Has
            <3>2. f = r.file
                BY <2>0, <2>1, <3>1
            <3>3. r.kind # "support"
                BY <2>0, <3>1, <3>2
            <3>4. Fits(r.kind, r.size, account.used)
                BY <3>1 DEF StInv, LockedFits
            <3>5. account.used + r.size <= account.limit
                BY <3>3, <3>4 DEF Fits
            <3>6. account'.used = account.used + r.size
                BY <2>0, <3>1
            <3> QED BY <3>5, <3>6
        <2>3. ASSUME NEW s \in Slots, NEW g \in Files, Delete(s, g) PROVE FALSE
            BY <2>0, <2>1, <2>3 DEF Delete, FileRow
        <2>4. ASSUME NEW g \in Files, Expire(g) PROVE FALSE
            BY <2>0, <2>1, <2>4 DEF Expire, FileRow
        <2>5. CASE PurgeRow
            BY <2>0, <2>1, <2>5 DEF PurgeRow, FileRow
        <2>6. CASE file' = file
            BY <2>1, <2>6
        <2>7. \/ \E s \in Slots : Commit(s) \/ \E g \in Files : Delete(s, g)
              \/ \E g \in Files : Expire(g)
              \/ PurgeRow
              \/ file' = file
            BY DEF Next, Upload, Remove, Purge, BeginUpload, Move, MoveFails, LockAndCheck, Refuse,
               Abort, CleanUp, CleanUpFails, BeginDelete, Deleted, SaveLogo, Crash, PurgeFails,
               StartPurge, PurgeObject, PurgeCrashes, OverrideLimit
        <2> QED BY <2>2, <2>3, <2>4, <2>5, <2>6, <2>7
    <1>2. Spec => [][Next]_vars
        BY DEF Spec
    <1>3. NoUploadBeyondLimit <=> [][Within]_vars
        BY DEF NoUploadBeyondLimit
    <1> QED BY <1>1, <1>2, <1>3, Invariant, PTL

\* Counter and sum part in no other step than the save of a logo and the
\* deletion of a file deleted since it was loaded
\* (organization_controller.ts, updateLogo; file_service.ts, delete).
THEOREM OnlyTwoStepsDrift == Spec => DriftHasTwoSources
    <1>1. StInv /\ StInv' /\ [Next]_vars =>
          [CounterIsSum /\ ~CounterIsSum' =>
              \E s \in Slots : \/ request[s].at = "saving" /\ request'[s].at = "idle"
                               \/ \E f \in request[s].old \ request'[s].old : f \notin Live]_vars
        BY DriftStep
    <1>2. Spec => [][Next]_vars
        BY DEF Spec
    <1> QED BY <1>1, <1>2, Invariant, PTL DEF DriftHasTwoSources

-----------------------------------------------------------------------------
(* Traffic: the inductive invariant. *)

\* A call that is not writing holds nothing; one between two statements on a
\* key has that key left.
CallFits(r) ==
    /\ r.at \in {"idle", "waiting", "woken"} => r.left = {} /\ r.sightings = {}
    /\ r.at \in {"insert", "again"} => r.key \in r.left

CallsFit == \A p \in Processes, c \in AllCalls : CallFits(call[p][c])

TrafficInv == TrafficTypeOK /\ CallsFit /\ EveryRequestCounts /\ SeenIsKept

-----------------------------------------------------------------------------
LEMMA CallsFinite == IsFiniteSet(AllCalls)
    BY FiniteNames, FS_Singleton, FS_Union DEF AllCalls

LEMMA ZeroTyped == Zero \in [Keys -> Nat] /\ \A k \in Keys : Zero[k] = 0
    BY DEF Zero

LEMMA NoCallTyped ==
    /\ NoCall \in Call /\ CallFits(NoCall)
    /\ NoCall.left = {} /\ NoCall.sightings = {} /\ NoCall.at = "idle"
    BY ZeroTyped DEF NoCall, Call, CallFits

LEMMA CallTyped ==
    ASSUME TrafficTypeOK, NEW p \in Processes, NEW c \in AllCalls
    PROVE  /\ call[p] \in [AllCalls -> Call]
           /\ call[p][c] \in Call
           /\ call[p][c].counts \in [Keys -> Nat]
           /\ call[p][c].left \in SUBSET Keys
           /\ call[p][c].sightings \in SUBSET Addresses
           /\ call[p][c].key \in Keys \cup {None}
    BY DEF TrafficTypeOK, Call

LEMMA ShareIsNumber == ASSUME NEW r \in Call, NEW k \in Keys PROVE Share(r, k) \in Nat
    BY DEF Share, Call

LEMMA SharesTyped ==
    ASSUME TrafficTypeOK, NEW p \in Processes, NEW k \in Keys
    PROVE  [c \in AllCalls |-> Share(call[p][c], k)] \in [AllCalls -> Nat]
    BY ShareIsNumber, CallTyped

LEMMA UnwrittenIsNumber ==
    ASSUME TrafficTypeOK, NEW p \in Processes, NEW k \in Keys
    PROVE  InFlight(p, k) \in Nat /\ Unwritten(p, k) \in Nat
<1>1. InFlight(p, k) \in Nat
    BY SharesTyped, CallsFinite, SumIsNumber DEF InFlight
<1>2. counts[p][k] \in Nat
    BY DEF TrafficTypeOK
<1> QED BY <1>1, <1>2 DEF Unwritten

LEMMA UnwrittenStaysNumber ==
    ASSUME TrafficTypeOK', NEW p \in Processes, NEW k \in Keys
    PROVE  InFlight(p, k)' \in Nat /\ Unwritten(p, k)' \in Nat
<1>1. InFlight(p, k)' \in Nat
    <2>1. \A c \in AllCalls : call'[p][c] \in Call
        BY DEF TrafficTypeOK
    <2>2. [c \in AllCalls |-> Share(call'[p][c], k)] \in [AllCalls -> Nat]
        BY <2>1, ShareIsNumber
    <2> QED BY <2>2, CallsFinite, SumIsNumber DEF InFlight, Share
<1>2. counts'[p][k] \in Nat
    BY DEF TrafficTypeOK
<1> QED BY <1>1, <1>2 DEF Unwritten

\* One call of a process changes: the others write what they did.
LEMMA OneCallChanges ==
    ASSUME TrafficTypeOK, TrafficTypeOK', NEW p \in Processes, NEW c \in AllCalls, NEW k \in Keys,
           \A d \in AllCalls \ {c} : Share(call[p][d], k)' = Share(call[p][d], k)
    PROVE  InFlight(p, k)' = InFlight(p, k) + Share(call'[p][c], k) - Share(call[p][c], k)
<1> DEFINE v == [d \in AllCalls |-> Share(call[p][d], k)]
           w == [d \in AllCalls |-> Share(call'[p][d], k)]
<1>1. v \in [AllCalls -> Nat]
    BY SharesTyped
<1>2. w \in [AllCalls -> Nat]
    <2>1. \A d \in AllCalls : call'[p][d] \in Call
        BY DEF TrafficTypeOK
    <2> QED BY <2>1, ShareIsNumber
<1>3. \A d \in AllCalls \ {c} : v[d] = w[d]
    BY DEF Share
<1>4. w[c] = Share(call'[p][c], k) /\ v[c] = Share(call[p][c], k)
    OBVIOUS
<1>5. InFlight(p, k) = SumFunction(v) /\ InFlight(p, k)' = SumFunction(w)
    BY DEF InFlight, Share
<1> HIDE DEF v, w
<1>6. SumFunction(w) = SumFunction(v) + w[c] - v[c]
    BY <1>1, <1>2, <1>3, CallsFinite, SumChanges
<1> QED BY <1>4, <1>5, <1>6

-----------------------------------------------------------------------------
(* Accounting: what one process does to a key shows in one term of the sum. *)

LEMMA OneProcessChanges ==
    ASSUME TrafficTypeOK, TrafficTypeOK', NEW p \in Processes, NEW k \in Keys,
           \A q \in Processes \ {p} : counts'[q] = counts[q] /\ call'[q] = call[q]
    PROVE  SumFunction([q \in Processes |-> Unwritten(q, k)])'
               = SumFunction([q \in Processes |-> Unwritten(q, k)])
                 + Unwritten(p, k)' - Unwritten(p, k)
<1> DEFINE v == [q \in Processes |-> Unwritten(q, k)]
           w == [q \in Processes |-> Unwritten(q, k)']
<1>1. v \in [Processes -> Nat]
    BY UnwrittenIsNumber
<1>2. w \in [Processes -> Nat]
    BY UnwrittenStaysNumber
<1>3. \A q \in Processes \ {p} : v[q] = w[q]
    BY DEF Unwritten, InFlight, Share
<1>4. w[p] = Unwritten(p, k)' /\ v[p] = Unwritten(p, k)
    OBVIOUS
<1>5. SumFunction([q \in Processes |-> Unwritten(q, k)])' = SumFunction(w)
    OBVIOUS
<1> HIDE DEF v, w
<1>6. SumFunction(w) = SumFunction(v) + w[p] - v[p]
    BY <1>1, <1>2, <1>3, FiniteNames, SumChanges
<1> QED BY <1>4, <1>5, <1>6 DEF v

LEMMA BooksMove ==
    ASSUME NEW r \in Nat, NEW u \in Nat, NEW d \in Nat, NEW v \in Nat, NEW t \in Nat,
           NEW rr \in Nat, NEW uu \in Nat, NEW dd \in Nat, NEW vv \in Nat, NEW tt \in Nat,
           NEW s \in Nat, r + s + d = v + t, rr + uu + dd + v + t = r + u + d + vv + tt
    PROVE  rr + (s + uu - u) + dd = vv + tt
    OBVIOUS

\* A step of one process counts every request when its own books balance.
LEMMA Balanced ==
    ASSUME TrafficTypeOK, TrafficTypeOK', EveryRequestCounts, NEW p \in Processes,
           \A q \in Processes \ {p} : counts'[q] = counts[q] /\ call'[q] = call[q],
           \A k \in Keys : row'[k] + Unwritten(p, k)' + dropped'[k] + served[k] + twice[k]
                         = row[k] + Unwritten(p, k) + dropped[k] + served'[k] + twice'[k]
    PROVE  EveryRequestCounts'
<1> SUFFICES ASSUME NEW k \in Keys
             PROVE  row'[k] + SumFunction([q \in Processes |-> Unwritten(q, k)])' + dropped'[k]
                        = served'[k] + twice'[k]
    BY DEF EveryRequestCounts
<1> DEFINE s == SumFunction([q \in Processes |-> Unwritten(q, k)])
<1>1. s' = s + Unwritten(p, k)' - Unwritten(p, k)
    BY OneProcessChanges
<1>2. row[k] + s + dropped[k] = served[k] + twice[k]
    BY DEF EveryRequestCounts
<1>3. Unwritten(p, k) \in Nat
    BY UnwrittenIsNumber
<1>4. Unwritten(p, k)' \in Nat
    BY UnwrittenStaysNumber
<1>5. s \in Nat
    <2>1. [q \in Processes |-> Unwritten(q, k)] \in [Processes -> Nat]
        BY UnwrittenIsNumber
    <2> QED BY <2>1, FiniteNames, SumIsNumber
<1>6. /\ row[k] \in Nat /\ dropped[k] \in Nat /\ served[k] \in Nat /\ twice[k] \in Nat
      /\ row'[k] \in Nat /\ dropped'[k] \in Nat /\ served'[k] \in Nat /\ twice'[k] \in Nat
    BY DEF TrafficTypeOK
<1>7. row'[k] + Unwritten(p, k)' + dropped'[k] + served[k] + twice[k]
      = row[k] + Unwritten(p, k) + dropped[k] + served'[k] + twice'[k]
    OBVIOUS
<1> HIDE DEF s
<1>8. row'[k] + (s + Unwritten(p, k)' - Unwritten(p, k)) + dropped'[k] = served'[k] + twice'[k]
    BY <1>2, <1>3, <1>4, <1>5, <1>6, <1>7, BooksMove
<1> QED BY <1>1, <1>8 DEF s

-----------------------------------------------------------------------------
(* What happens to the calls. *)

\* One call becomes r, the others stay.
LEMMA CallBecomes ==
    ASSUME TrafficTypeOK, CallsFit, NEW p \in Processes, NEW c \in AllCalls, NEW r \in Call, CallFits(r),
           call' = [call EXCEPT ![p][c] = r]
    PROVE  /\ call' \in [Processes -> [AllCalls -> Call]]
           /\ CallsFit'
           /\ call'[p][c] = r
           /\ \A d \in AllCalls \ {c} : call'[p][d] = call[p][d]
           /\ \A q \in Processes \ {p} : call'[q] = call[q]
<1>1. call \in [Processes -> [AllCalls -> Call]]
    BY DEF TrafficTypeOK
<1> DEFINE new == [call[p] EXCEPT ![c] = r]
<1>2. call' = [call EXCEPT ![p] = new]
    BY <1>1
<1>3. new \in [AllCalls -> Call] /\ new[c] = r /\ \A d \in AllCalls \ {c} : new[d] = call[p][d]
    BY <1>1
<1> HIDE DEF new
<1>4. /\ call' \in [Processes -> [AllCalls -> Call]] /\ call'[p] = new
      /\ \A q \in Processes \ {p} : call'[q] = call[q]
    BY <1>1, <1>2, <1>3
<1>5. ASSUME NEW q \in Processes, NEW d \in AllCalls PROVE CallFits(call'[q][d])
    <2>1. CallFits(call[q][d])
        BY DEF CallsFit
    <2> QED BY <1>3, <1>4, <2>1
<1>6. CallsFit'
    BY <1>5 DEF CallsFit, CallFits
<1> QED BY <1>3, <1>4, <1>6

\* The calls of p become new, those of other processes stay.
LEMMA CallsBecome ==
    ASSUME TrafficTypeOK, CallsFit, NEW p \in Processes, NEW new \in [AllCalls -> Call],
           \A c \in AllCalls : CallFits(new[c]),
           call' = [call EXCEPT ![p] = new]
    PROVE  /\ call' \in [Processes -> [AllCalls -> Call]]
           /\ CallsFit'
           /\ call'[p] = new
           /\ \A q \in Processes \ {p} : call'[q] = call[q]
<1>1. /\ call' \in [Processes -> [AllCalls -> Call]] /\ call'[p] = new
      /\ \A q \in Processes \ {p} : call'[q] = call[q]
    BY DEF TrafficTypeOK
<1>2. ASSUME NEW q \in Processes, NEW c \in AllCalls PROVE CallFits(call'[q][c])
    <2>1. CallFits(call[q][c])
        BY DEF CallsFit
    <2> QED BY <1>1, <2>1
<1>3. CallsFit'
    BY <1>2 DEF CallsFit, CallFits
<1> QED BY <1>1, <1>3

\* Once a write has settled, its call holds nothing and the others what they did.
LEMMA CallsSettle ==
    ASSUME TrafficTypeOK, CallsFit, NEW p \in Processes, NEW c \in AllCalls,
           call' = [call EXCEPT ![p] = Settled(p, c)]
    PROVE  /\ call' \in [Processes -> [AllCalls -> Call]]
           /\ CallsFit'
           /\ call'[p][c] = NoCall
           /\ \A d \in AllCalls \ {c} : /\ call'[p][d].left = call[p][d].left
                                        /\ call'[p][d].sightings = call[p][d].sightings
                                        /\ \A k \in Keys : Share(call'[p][d], k) = Share(call[p][d], k)
           /\ \A q \in Processes \ {p} : call'[q] = call[q]
<1> DEFINE woken == [NoCall EXCEPT !.at = "woken"]
           new == Settled(p, c)
<1>1. woken \in Call /\ CallFits(woken) /\ woken.left = {} /\ woken.sightings = {}
    BY ZeroTyped DEF NoCall, Call, CallFits
<1> HIDE DEF woken
<1>2. ASSUME NEW d \in AllCalls
      PROVE  new[d] = IF d = c THEN NoCall
                      ELSE IF call[p][d].at = "waiting" /\ call[p][d].for = c THEN woken ELSE call[p][d]
    BY DEF Settled, woken
<1>3. ASSUME NEW d \in AllCalls PROVE call[p][d] \in Call /\ CallFits(call[p][d])
    BY CallTyped DEF CallsFit
<1>4. ASSUME NEW d \in AllCalls
      PROVE  /\ new[d] \in Call /\ CallFits(new[d])
             /\ d # c => /\ new[d].left = call[p][d].left
                         /\ new[d].sightings = call[p][d].sightings
                         /\ new[d] = call[p][d] \/ call[p][d].left = {}
    <2>1. CASE d = c
        BY <1>2, <2>1, NoCallTyped
    <2>2. CASE d # c /\ call[p][d].at = "waiting" /\ call[p][d].for = c
        <3>1. new[d] = woken
            BY <1>2, <2>2
        <3>2. call[p][d].left = {} /\ call[p][d].sightings = {}
            BY <1>3, <2>2 DEF CallFits
        <3> QED BY <1>1, <2>2, <3>1, <3>2
    <2>3. CASE d # c /\ ~(call[p][d].at = "waiting" /\ call[p][d].for = c)
        <3>1. new[d] = call[p][d]
            BY <1>2, <2>3
        <3> QED BY <1>3, <2>3, <3>1
    <2> QED BY <2>1, <2>2, <2>3
<1>5. new \in [AllCalls -> Call]
    <2>1. new = [d \in AllCalls |-> new[d]]
        BY DEF Settled
    <2> HIDE DEF new
    <2> QED BY <1>4, <2>1
<1>6. new[c] = NoCall
    BY <1>2
<1> HIDE DEF new
<1>7. /\ call' \in [Processes -> [AllCalls -> Call]] /\ CallsFit' /\ call'[p] = new
      /\ \A q \in Processes \ {p} : call'[q] = call[q]
    BY <1>4, <1>5, CallsBecome DEF new
<1>8. \A d \in AllCalls \ {c}, k \in Keys : Share(new[d], k) = Share(call[p][d], k)
    BY <1>4 DEF Share
<1> QED BY <1>4, <1>6, <1>7, <1>8

\* The calls of a process that has gone hold nothing.
LEMMA NothingInFlight ==
    ASSUME NEW p \in Processes, NEW k \in Keys, call'[p] = [c \in AllCalls |-> NoCall]
    PROVE  InFlight(p, k)' = 0
<1>1. \A c \in AllCalls : Share(call'[p][c], k) = 0
    BY NoCallTyped DEF Share
<1>2. [c \in AllCalls |-> Share(call'[p][c], k)] \in [AllCalls -> {0}]
    BY <1>1
<1> QED BY <1>2, CallsFinite, SumOfZeros DEF InFlight, Share

\* While nothing fails, an address is kept when those that are buffered or on
\* their way are recorded or go on, and those remembered anew are buffered.
LEMMA SeenGoesOn ==
    ASSUME SeenIsKept, faults' = 0 => faults = 0, recorded \subseteq recorded',
           \A q \in Processes : \A a \in recent'[q] : a \in recent[q] \cup sightings'[q],
           \A q \in Processes : \A a \in sightings[q] :
               a \in sightings'[q] \/ a \notin recent'[q] \/ \E d \in AllCalls : a \in call'[q][d].sightings,
           \A q \in Processes : \A a \in recent'[q], c \in AllCalls : a \in call[q][c].sightings =>
               a \in recorded' \/ \E d \in AllCalls : a \in call'[q][d].sightings
    PROVE  SeenIsKept'
<1> SUFFICES ASSUME faults' = 0, NEW q \in Processes, NEW a \in recent'[q]
             PROVE  \/ a \in recorded' \cup sightings'[q]
                    \/ \E c \in AllCalls : a \in call'[q][c].sightings
    BY DEF SeenIsKept
<1>1. CASE a \in sightings'[q]
    BY <1>1
<1>2. CASE a \in recent[q]
    <2>1. \/ a \in recorded \cup sightings[q]
          \/ \E c \in AllCalls : a \in call[q][c].sightings
        BY <1>2 DEF SeenIsKept
    <2> QED BY <2>1
<1> QED BY <1>1, <1>2

LEMMA AddUp ==
    ASSUME NEW r \in Nat, NEW n \in Nat, NEW i \in Nat, NEW h \in Nat, NEW d \in Nat,
           NEW rr \in Nat, NEW nn \in Nat, NEW hh \in Nat, NEW dd \in Nat,
           NEW v \in Nat, NEW t \in Nat, NEW vv \in Nat, NEW tt \in Nat,
           rr + nn + hh + dd + v + t = r + n + h + d + vv + tt
    PROVE  rr + (nn + (i + hh - h)) + dd + v + t = r + (n + i) + d + vv + tt
    OBVIOUS

\* A step of one call counts every request when what the call, the buffer, the
\* row and the histories have of it add up as before.
LEMMA OneCallStep ==
    ASSUME TrafficTypeOK, TrafficTypeOK', EveryRequestCounts, NEW p \in Processes, NEW c \in AllCalls,
           \A d \in AllCalls \ {c}, k \in Keys : Share(call'[p][d], k) = Share(call[p][d], k),
           \A q \in Processes \ {p} : counts'[q] = counts[q] /\ call'[q] = call[q],
           \A k \in Keys :
               row'[k] + counts'[p][k] + Share(call'[p][c], k) + dropped'[k] + served[k] + twice[k]
               = row[k] + counts[p][k] + Share(call[p][c], k) + dropped[k] + served'[k] + twice'[k]
    PROVE  EveryRequestCounts'
<1>1. ASSUME NEW k \in Keys
      PROVE  row'[k] + Unwritten(p, k)' + dropped'[k] + served[k] + twice[k]
             = row[k] + Unwritten(p, k) + dropped[k] + served'[k] + twice'[k]
    <2>1. \A d \in AllCalls \ {c} : Share(call[p][d], k)' = Share(call[p][d], k)
        BY DEF Share
    <2>2. InFlight(p, k)' = InFlight(p, k) + Share(call'[p][c], k) - Share(call[p][c], k)
        BY <2>1, OneCallChanges
    <2>3. InFlight(p, k) \in Nat /\ InFlight(p, k)' \in Nat
        BY UnwrittenIsNumber, UnwrittenStaysNumber
    <2>4. Share(call[p][c], k) \in Nat /\ Share(call'[p][c], k) \in Nat
        <3>1. call[p][c] \in Call /\ call'[p][c] \in Call
            BY DEF TrafficTypeOK
        <3> QED BY <3>1, ShareIsNumber
    <2>5. /\ row[k] \in Nat /\ counts[p][k] \in Nat /\ dropped[k] \in Nat
          /\ served[k] \in Nat /\ twice[k] \in Nat
        BY DEF TrafficTypeOK
    <2>6. /\ row'[k] \in Nat /\ counts'[p][k] \in Nat /\ dropped'[k] \in Nat
          /\ served'[k] \in Nat /\ twice'[k] \in Nat
        BY DEF TrafficTypeOK
    <2>7. Unwritten(p, k) = counts[p][k] + InFlight(p, k)
        BY DEF Unwritten
    <2>8. Unwritten(p, k)' = counts'[p][k] + InFlight(p, k)'
        BY DEF Unwritten
    <2>9. row'[k] + (counts'[p][k] + (InFlight(p, k) + Share(call'[p][c], k) - Share(call[p][c], k)))
             + dropped'[k] + served[k] + twice[k]
          = row[k] + (counts[p][k] + InFlight(p, k)) + dropped[k] + served'[k] + twice'[k]
        BY <2>3, <2>4, <2>5, <2>6, AddUp
    <2> QED BY <2>2, <2>7, <2>8, <2>9
<1> QED BY <1>1, Balanced

-----------------------------------------------------------------------------
(* The steps. *)

LEMMA TrafficInitStep == TrafficInit => TrafficInv
<1> SUFFICES ASSUME TrafficInit PROVE TrafficInv
    OBVIOUS
<1>1. TrafficTypeOK
    BY NoCallTyped, ZeroTyped, MaxFaultsAssumption DEF TrafficInit, TrafficTypeOK
<1>2. \A p \in Processes, c \in AllCalls : call[p][c] = NoCall
    BY DEF TrafficInit
<1>3. CallsFit
    BY <1>2, NoCallTyped DEF CallsFit
<1>4. SeenIsKept
    BY DEF TrafficInit, SeenIsKept
<1>5. ASSUME NEW k \in Keys PROVE SumFunction([p \in Processes |-> Unwritten(p, k)]) = 0
    <2>1. ASSUME NEW p \in Processes PROVE Unwritten(p, k) = 0
        <3>1. \A c \in AllCalls : Share(call[p][c], k) = 0
            BY <1>2, NoCallTyped DEF Share
        <3>2. [c \in AllCalls |-> Share(call[p][c], k)] \in [AllCalls -> {0}]
            BY <3>1
        <3>3. InFlight(p, k) = 0
            BY <3>2, CallsFinite, SumOfZeros DEF InFlight
        <3>4. counts[p][k] = 0
            BY ZeroTyped DEF TrafficInit
        <3> QED BY <3>3, <3>4 DEF Unwritten
    <2>2. [p \in Processes |-> Unwritten(p, k)] \in [Processes -> {0}]
        BY <2>1
    <2> QED BY <2>2, FiniteNames, SumOfZeros
<1>6. EveryRequestCounts
    <2>1. \A k \in Keys : row[k] = 0 /\ dropped[k] = 0 /\ served[k] = 0 /\ twice[k] = 0
        BY ZeroTyped DEF TrafficInit
    <2> QED BY <1>5, <2>1 DEF EveryRequestCounts
<1> QED BY <1>1, <1>3, <1>4, <1>6 DEF TrafficInv

LEMMA HitStep == ASSUME TrafficInv, NEW p \in Processes, NEW k \in Keys, Hit(p, k) PROVE TrafficInv'
<1> USE DEF database
<1>1. /\ counts' = [counts EXCEPT ![p][k] = counts[p][k] + 1]
      /\ served' = [served EXCEPT ![k] = served[k] + 1]
      /\ timer' = [timer EXCEPT ![p] = TRUE]
      /\ UNCHANGED <<life, sightings, recent, flushing, call, row, recorded,
                     faults, twice, dropped, putBack>>
    BY DEF Hit
<1>2. TrafficTypeOK
    BY DEF TrafficInv
<1>3. /\ counts' \in [Processes -> [Keys -> Nat]]
      /\ \A q \in Processes \ {p} : counts'[q] = counts[q]
      /\ \A j \in Keys : counts'[p][j] = counts[p][j] + (IF j = k THEN 1 ELSE 0)
    BY <1>1, <1>2 DEF TrafficTypeOK
<1>4. /\ served' \in [Keys -> Nat]
      /\ \A j \in Keys : served'[j] = served[j] + (IF j = k THEN 1 ELSE 0)
    BY <1>1, <1>2 DEF TrafficTypeOK
<1>5. TrafficTypeOK'
    BY <1>1, <1>2, <1>3, <1>4 DEF TrafficTypeOK
<1>6. CallsFit' /\ SeenIsKept'
    BY <1>1 DEF TrafficInv, CallsFit, SeenIsKept
<1>7. ASSUME NEW j \in Keys
      PROVE  row'[j] + Unwritten(p, j)' + dropped'[j] + served[j] + twice[j]
             = row[j] + Unwritten(p, j) + dropped[j] + served'[j] + twice'[j]
    <2>1. InFlight(p, j)' = InFlight(p, j)
        BY <1>1 DEF InFlight, Share
    <2>2. /\ InFlight(p, j) \in Nat /\ counts[p][j] \in Nat /\ served[j] \in Nat
          /\ row[j] \in Nat /\ dropped[j] \in Nat /\ twice[j] \in Nat
        BY <1>2, UnwrittenIsNumber DEF TrafficTypeOK
    <2>3. Unwritten(p, j)' = counts[p][j] + (IF j = k THEN 1 ELSE 0) + InFlight(p, j)
        BY <1>3, <2>1, <2>2 DEF Unwritten
    <2> QED BY <1>1, <1>4, <2>2, <2>3 DEF Unwritten
<1>8. EveryRequestCounts'
    BY <1>1, <1>3, <1>5, <1>7, Balanced DEF TrafficInv
<1> QED BY <1>5, <1>6, <1>8 DEF TrafficInv

LEMMA SawStep == ASSUME TrafficInv, NEW p \in Processes, NEW a \in Addresses, Saw(p, a) PROVE TrafficInv'
<1>1. /\ recent' = [recent EXCEPT ![p] = recent[p] \cup {a}]
      /\ sightings' = [sightings EXCEPT ![p] = sightings[p] \cup {a}]
      /\ timer' = [timer EXCEPT ![p] = TRUE]
      /\ UNCHANGED <<life, counts, flushing, call, row, recorded,
                     faults, served, twice, dropped, putBack>>
    BY DEF Saw, database, history
<1>2. TrafficTypeOK
    BY DEF TrafficInv
<1>3. TrafficTypeOK'
    BY <1>1, <1>2 DEF TrafficTypeOK
<1>4. CallsFit'
    BY <1>1 DEF TrafficInv, CallsFit
<1>5. EveryRequestCounts'
    BY <1>1 DEF TrafficInv, EveryRequestCounts, Unwritten, InFlight
<1>6. SeenIsKept'
    <2>1. \A q \in Processes : /\ sightings[q] \subseteq sightings'[q]
                               /\ recent'[q] \subseteq recent[q] \cup sightings'[q]
        BY <1>1, <1>2 DEF TrafficTypeOK
    <2> QED BY <1>1, <2>1, SeenGoesOn DEF TrafficInv
<1> QED BY <1>3, <1>4, <1>5, <1>6 DEF TrafficInv

\* A call that holds nothing, and will hold nothing, goes on.
LEMMA EmptyCallStep ==
    ASSUME TrafficInv, NEW p \in Processes, NEW c \in AllCalls, NEW r \in Call, CallFits(r),
           call[p][c].left = {}, call[p][c].sightings = {}, r.left = {}, r.sightings = {},
           call' = [call EXCEPT ![p][c] = r],
           life' \in [Processes -> {"up", "stopping", "gone"}], timer' \in [Processes -> BOOLEAN],
           UNCHANGED <<counts, sightings, flushing, putBack,
                       recent, row, recorded, faults, served, twice, dropped>>
    PROVE  TrafficInv'
<1>1. TrafficTypeOK /\ CallsFit
    BY DEF TrafficInv
<1>2. /\ call' \in [Processes -> [AllCalls -> Call]] /\ CallsFit' /\ call'[p][c] = r
      /\ \A d \in AllCalls \ {c} : call'[p][d] = call[p][d]
      /\ \A q \in Processes \ {p} : call'[q] = call[q]
    BY <1>1, CallBecomes
<1>3. TrafficTypeOK'
    BY <1>1, <1>2 DEF TrafficTypeOK
<1>4. EveryRequestCounts'
    <2>1. \A d \in AllCalls \ {c}, k \in Keys : Share(call'[p][d], k) = Share(call[p][d], k)
        BY <1>2
    <2>2. \A k \in Keys : Share(call[p][c], k) = 0 /\ Share(call'[p][c], k) = 0
        BY <1>2 DEF Share
    <2> QED BY <1>1, <1>2, <1>3, <2>1, <2>2, OneCallStep DEF TrafficInv
<1>5. SeenIsKept'
    <2>1. \A q \in Processes, d \in AllCalls : call[q][d].sightings = call'[q][d].sightings
        BY <1>2
    <2> QED BY <2>1, SeenGoesOn DEF TrafficInv
<1> QED BY <1>2, <1>3, <1>4, <1>5 DEF TrafficInv

\* What is taken out of the buffer is in the call.
LEMMA TakeStep ==
    ASSUME TrafficInv, NEW p \in Processes, NEW c \in AllCalls, Take(p, c),
           call[p][c].left = {}, call[p][c].sightings = {},
           life' \in [Processes -> {"up", "stopping", "gone"}], timer' \in [Processes -> BOOLEAN],
           UNCHANGED <<recent, row, recorded, faults, served, twice, dropped>>
    PROVE  TrafficInv'
<1>1. TrafficTypeOK /\ CallsFit
    BY DEF TrafficInv
<1>2. CASE Buffered(p)
    <2> DEFINE r == [at |-> "writing", for |-> None, key |-> None, counts |-> counts[p],
                     left |-> {k \in Keys : counts[p][k] > 0}, sightings |-> sightings[p]]
    <2>1. /\ call' = [call EXCEPT ![p][c] = r]
          /\ flushing' = [flushing EXCEPT ![p] = c]
          /\ counts' = [counts EXCEPT ![p] = Zero]
          /\ sightings' = [sightings EXCEPT ![p] = {}]
          /\ putBack' = putBack \ {p}
        BY <1>2 DEF Take
    <2>2. counts[p] \in [Keys -> Nat] /\ sightings[p] \in SUBSET Addresses
        BY <1>1 DEF TrafficTypeOK
    <2>3. /\ r \in Call /\ CallFits(r) /\ r.sightings = sightings[p]
          /\ \A k \in Keys : Share(r, k) = counts[p][k]
        BY <2>2 DEF Call, CallFits, Share
    <2> HIDE DEF r
    <2>4. /\ call' \in [Processes -> [AllCalls -> Call]] /\ CallsFit' /\ call'[p][c] = r
          /\ \A d \in AllCalls \ {c} : call'[p][d] = call[p][d]
          /\ \A q \in Processes \ {p} : call'[q] = call[q]
        BY <1>1, <2>1, <2>3, CallBecomes
    <2>5. /\ counts' \in [Processes -> [Keys -> Nat]]
          /\ \A k \in Keys : counts'[p][k] = 0
          /\ \A q \in Processes \ {p} : counts'[q] = counts[q]
        BY <1>1, <2>1, ZeroTyped DEF TrafficTypeOK
    <2>6. /\ sightings' \in [Processes -> SUBSET Addresses] /\ sightings'[p] = {}
          /\ \A q \in Processes \ {p} : sightings'[q] = sightings[q]
        BY <1>1, <2>1 DEF TrafficTypeOK
    <2>7. flushing' \in [Processes -> AllCalls \cup {None}] /\ putBack' \in SUBSET Processes
        BY <1>1, <2>1 DEF TrafficTypeOK
    <2>8. TrafficTypeOK'
        BY <1>1, <2>4, <2>5, <2>6, <2>7 DEF TrafficTypeOK
    <2>9. EveryRequestCounts'
        <3>1. \A d \in AllCalls \ {c}, k \in Keys : Share(call'[p][d], k) = Share(call[p][d], k)
            BY <2>4
        <3>2. ASSUME NEW k \in Keys
              PROVE  row'[k] + counts'[p][k] + Share(call'[p][c], k) + dropped'[k] + served[k] + twice[k]
                     = row[k] + counts[p][k] + Share(call[p][c], k) + dropped[k] + served'[k] + twice'[k]
            <4>1. Share(call'[p][c], k) = counts[p][k] /\ counts'[p][k] = 0
                BY <2>3, <2>4, <2>5
            <4>2. Share(call[p][c], k) = 0
                BY DEF Share
            <4>3. /\ counts[p][k] \in Nat /\ row[k] \in Nat /\ dropped[k] \in Nat
                  /\ served[k] \in Nat /\ twice[k] \in Nat
                BY <1>1 DEF TrafficTypeOK
            <4> QED BY <4>1, <4>2, <4>3
        <3> QED BY <1>1, <2>4, <2>5, <2>8, <3>1, <3>2, OneCallStep DEF TrafficInv
    <2>10. SeenIsKept'
        <3>1. \A q \in Processes : \A a \in recent'[q] : a \in recent[q] \cup sightings'[q]
            OBVIOUS
        <3>2. \A q \in Processes : \A a \in sightings[q] :
                  a \in sightings'[q] \/ a \notin recent'[q] \/ \E d \in AllCalls : a \in call'[q][d].sightings
            BY <2>3, <2>4, <2>6
        <3>3. \A q \in Processes : \A a \in recent'[q], e \in AllCalls : a \in call[q][e].sightings =>
                  a \in recorded' \/ \E d \in AllCalls : a \in call'[q][d].sightings
            BY <2>4
        <3> QED BY <3>1, <3>2, <3>3, SeenGoesOn DEF TrafficInv
    <2> QED BY <2>4, <2>8, <2>9, <2>10 DEF TrafficInv
<1>3. CASE ~Buffered(p)
    <2>1. call' = [call EXCEPT ![p][c] = NoCall] /\ UNCHANGED <<counts, sightings, flushing, putBack>>
        BY <1>3 DEF Take
    <2> QED BY <1>1, <2>1, EmptyCallStep, NoCallTyped
<1> QED BY <1>2, <1>3

LEMMA FlushStep ==
    ASSUME TrafficInv, NEW p \in Processes, NEW c \in AllCalls, Flush(p, c),
           life' \in [Processes -> {"up", "stopping", "gone"}], timer' \in [Processes -> BOOLEAN]
    PROVE  TrafficInv'
<1>1. /\ UNCHANGED <<recent, row, recorded, faults, served, twice, dropped>>
      /\ call[p][c].left = {} /\ call[p][c].sightings = {}
    BY NoCallTyped DEF Flush, database
<1>2. CASE flushing[p] # None
    <2> DEFINE r == [NoCall EXCEPT !.at = "waiting", !.for = flushing[p]]
    <2>1. call' = [call EXCEPT ![p][c] = r] /\ UNCHANGED <<counts, sightings, flushing, putBack>>
        BY <1>2 DEF Flush
    <2>2. flushing[p] \in AllCalls \cup {None}
        BY DEF TrafficInv, TrafficTypeOK
    <2>3. r \in Call /\ CallFits(r) /\ r.left = {} /\ r.sightings = {}
        BY <2>2, ZeroTyped DEF Call, CallFits, NoCall
    <2> HIDE DEF r
    <2> QED BY <1>1, <2>1, <2>3, EmptyCallStep
<1>3. CASE flushing[p] = None
    <2>1. Take(p, c)
        BY <1>3 DEF Flush
    <2> QED BY <1>1, <2>1, TakeStep
<1> QED BY <1>2, <1>3

LEMMA FiresStep == ASSUME TrafficInv, NEW p \in Processes, NEW c \in Calls, Fires(p, c) PROVE TrafficInv'
<1>1. timer' \in [Processes -> BOOLEAN] /\ life' \in [Processes -> {"up", "stopping", "gone"}]
    BY DEF Fires, TrafficInv, TrafficTypeOK
<1>2. c \in AllCalls /\ Flush(p, c)
    BY DEF Fires, AllCalls
<1> QED BY <1>1, <1>2, FlushStep

LEMMA TerminateStep == ASSUME TrafficInv, NEW p \in Processes, Terminate(p) PROVE TrafficInv'
<1>1. timer' \in [Processes -> BOOLEAN] /\ life' \in [Processes -> {"up", "stopping", "gone"}]
    BY DEF Terminate, TrafficInv, TrafficTypeOK
<1>2. Last \in AllCalls /\ Flush(p, Last)
    BY DEF Terminate, AllCalls
<1> QED BY <1>1, <1>2, FlushStep

LEMMA ResumeStep == ASSUME TrafficInv, NEW p \in Processes, NEW c \in AllCalls, Resume(p, c) PROVE TrafficInv'
<1>1. /\ Take(p, c) /\ call[p][c].at = "woken"
      /\ UNCHANGED <<life, recent, timer, row, recorded, faults, served, twice, dropped>>
    BY DEF Resume, database
<1>2. call[p][c].left = {} /\ call[p][c].sightings = {}
    BY <1>1 DEF TrafficInv, CallsFit, CallFits
<1>3. timer' \in [Processes -> BOOLEAN] /\ life' \in [Processes -> {"up", "stopping", "gone"}]
    BY <1>1 DEF TrafficInv, TrafficTypeOK
<1> QED BY <1>1, <1>2, <1>3, TakeStep

LEMMA FinishStep == ASSUME TrafficInv, NEW p \in Processes, NEW c \in AllCalls, Finish(p, c) PROVE TrafficInv'
<1>1. /\ call[p][c].left = {} /\ call[p][c].sightings = {}
      /\ call' = [call EXCEPT ![p] = Settled(p, c)]
      /\ flushing' = [flushing EXCEPT ![p] = None]
      /\ UNCHANGED <<life, counts, sightings, recent, timer, row, recorded,
                     faults, served, twice, dropped, putBack>>
    BY DEF Finish, database, history
<1>2. TrafficTypeOK /\ CallsFit
    BY DEF TrafficInv
<1>3. /\ call' \in [Processes -> [AllCalls -> Call]]
      /\ CallsFit'
      /\ call'[p][c] = NoCall
      /\ \A d \in AllCalls \ {c} : /\ call'[p][d].left = call[p][d].left
                                   /\ call'[p][d].sightings = call[p][d].sightings
                                   /\ \A k \in Keys : Share(call'[p][d], k) = Share(call[p][d], k)
      /\ \A q \in Processes \ {p} : call'[q] = call[q]
    BY <1>1, <1>2, CallsSettle
<1>4. TrafficTypeOK'
    BY <1>1, <1>2, <1>3 DEF TrafficTypeOK
<1>5. EveryRequestCounts'
    <2>1. \A k \in Keys : Share(call[p][c], k) = 0 /\ Share(call'[p][c], k) = 0
        BY <1>1, <1>3, NoCallTyped DEF Share
    <2> QED BY <1>1, <1>2, <1>3, <1>4, <2>1, OneCallStep DEF TrafficInv
<1>6. SeenIsKept'
    <2>1. \A q \in Processes, d \in AllCalls : call[q][d].sightings \subseteq call'[q][d].sightings
        BY <1>1, <1>3
    <2> QED BY <1>1, <2>1, SeenGoesOn DEF TrafficInv
<1> QED BY <1>3, <1>4, <1>5, <1>6 DEF TrafficInv

\* What a write that failed has taken is in the buffer again; what it had
\* written is there twice.
LEMMA FailStep == ASSUME TrafficInv, NEW p \in Processes, NEW c \in AllCalls, Fail(p, c) PROVE TrafficInv'
<1> DEFINE r == call[p][c]
           back == [k \in Keys |-> counts[p][k] + r.counts[k]]
<1>1. /\ Fault
      /\ call' = [call EXCEPT ![p] = Settled(p, c)]
      /\ flushing' = [flushing EXCEPT ![p] = None]
      /\ counts' = [counts EXCEPT ![p] = back]
      /\ twice' = [k \in Keys |-> twice[k] + (IF k \in r.left THEN 0 ELSE r.counts[k])]
      /\ putBack' = putBack \cup {p}
      /\ UNCHANGED <<life, sightings, recent, timer, row, recorded, served, dropped>>
    BY DEF Fail, database
<1>2. TrafficTypeOK /\ CallsFit
    BY DEF TrafficInv
<1>3. /\ call' \in [Processes -> [AllCalls -> Call]]
      /\ CallsFit'
      /\ call'[p][c] = NoCall
      /\ \A d \in AllCalls \ {c} : /\ call'[p][d].left = call[p][d].left
                                   /\ call'[p][d].sightings = call[p][d].sightings
                                   /\ \A k \in Keys : Share(call'[p][d], k) = Share(call[p][d], k)
      /\ \A q \in Processes \ {p} : call'[q] = call[q]
    BY <1>1, <1>2, CallsSettle
<1>4. r.counts \in [Keys -> Nat]
    BY <1>2, CallTyped
<1>5. \A k \in Keys : /\ counts[p][k] \in Nat /\ r.counts[k] \in Nat
                      /\ twice[k] \in Nat /\ row[k] \in Nat /\ dropped[k] \in Nat /\ served[k] \in Nat
    BY <1>2, <1>4 DEF TrafficTypeOK
<1>6. back \in [Keys -> Nat]
    BY <1>5
<1>7. twice' \in [Keys -> Nat]
    BY <1>1, <1>5
<1>8. \A k \in Keys : back[k] = counts[p][k] + r.counts[k]
    OBVIOUS
<1>9. \A k \in Keys : Share(r, k) = IF k \in r.left THEN r.counts[k] ELSE 0
    BY DEF Share
<1>10. \A k \in Keys : twice'[k] = twice[k] + (IF k \in r.left THEN 0 ELSE r.counts[k])
    BY <1>1
<1>11. \A k \in Keys : Share(call'[p][c], k) = 0
    BY <1>3, NoCallTyped DEF Share
<1> HIDE DEF r, back
<1>12. /\ counts' \in [Processes -> [Keys -> Nat]] /\ counts'[p] = back
       /\ \A q \in Processes \ {p} : counts'[q] = counts[q]
    BY <1>1, <1>2, <1>6 DEF TrafficTypeOK
<1>13. faults' \in 0 .. MaxFaults /\ faults' # 0
    BY <1>1, <1>2, MaxFaultsAssumption DEF Fault, TrafficTypeOK
<1>14. flushing' \in [Processes -> AllCalls \cup {None}] /\ putBack' \in SUBSET Processes
    BY <1>1, <1>2 DEF TrafficTypeOK
<1>15. TrafficTypeOK'
    BY <1>1, <1>2, <1>3, <1>7, <1>12, <1>13, <1>14 DEF TrafficTypeOK
<1>16. EveryRequestCounts'
    <2>1. ASSUME NEW k \in Keys
          PROVE  row'[k] + counts'[p][k] + Share(call'[p][c], k) + dropped'[k] + served[k] + twice[k]
                 = row[k] + counts[p][k] + Share(call[p][c], k) + dropped[k] + served'[k] + twice'[k]
        <3>1. counts'[p][k] = counts[p][k] + r.counts[k]
            BY <1>8, <1>12
        <3>2. Share(call[p][c], k) = IF k \in r.left THEN r.counts[k] ELSE 0
            BY <1>9 DEF r
        <3>3. /\ counts[p][k] \in Nat /\ r.counts[k] \in Nat
              /\ twice[k] \in Nat /\ row[k] \in Nat /\ dropped[k] \in Nat /\ served[k] \in Nat
            BY <1>5
        <3>4. row'[k] = row[k] /\ dropped'[k] = dropped[k] /\ served'[k] = served[k]
            BY <1>1
        <3> QED BY <1>10, <1>11, <3>1, <3>2, <3>3, <3>4
    <2> QED BY <1>2, <1>3, <1>12, <1>15, <2>1, OneCallStep DEF TrafficInv
<1>17. SeenIsKept'
    BY <1>13 DEF SeenIsKept
<1> QED BY <1>3, <1>15, <1>16, <1>17 DEF TrafficInv

-----------------------------------------------------------------------------
(* The statements of a write. *)

\* One statement moves what is left of a key into its row, or drops it.
LEMMA StatementStep ==
    ASSUME TrafficInv, NEW p \in Processes, NEW c \in AllCalls, NEW r \in Call, CallFits(r),
           call' = [call EXCEPT ![p][c] = r],
           faults' \in 0 .. MaxFaults, faults' = 0 => faults = 0,
           row' \in [Keys -> Nat], dropped' \in [Keys -> Nat],
           recorded \subseteq recorded', recorded' \in SUBSET Addresses,
           faults' = 0 => call[p][c].sightings \subseteq r.sightings \cup recorded',
           UNCHANGED <<life, counts, sightings, recent, timer, flushing, served, twice, putBack>>,
           \A k \in Keys : row'[k] + Share(r, k) + dropped'[k] = row[k] + Share(call[p][c], k) + dropped[k]
    PROVE  TrafficInv'
<1>1. TrafficTypeOK /\ CallsFit
    BY DEF TrafficInv
<1>2. /\ call' \in [Processes -> [AllCalls -> Call]] /\ CallsFit' /\ call'[p][c] = r
      /\ \A d \in AllCalls \ {c} : call'[p][d] = call[p][d]
      /\ \A q \in Processes \ {p} : call'[q] = call[q]
    BY <1>1, CallBecomes
<1>3. TrafficTypeOK'
    BY <1>1, <1>2 DEF TrafficTypeOK
<1>4. EveryRequestCounts'
    <2>1. \A d \in AllCalls \ {c}, k \in Keys : Share(call'[p][d], k) = Share(call[p][d], k)
        BY <1>2
    <2>2. ASSUME NEW k \in Keys
          PROVE  row'[k] + counts'[p][k] + Share(call'[p][c], k) + dropped'[k] + served[k] + twice[k]
                 = row[k] + counts[p][k] + Share(call[p][c], k) + dropped[k] + served'[k] + twice'[k]
        <3>1. row'[k] + Share(r, k) + dropped'[k] = row[k] + Share(call[p][c], k) + dropped[k]
            OBVIOUS
        <3>2. Share(r, k) \in Nat /\ Share(call[p][c], k) \in Nat
            BY <1>1, CallTyped, ShareIsNumber
        <3>3. /\ row[k] \in Nat /\ row'[k] \in Nat /\ dropped[k] \in Nat /\ dropped'[k] \in Nat
              /\ counts[p][k] \in Nat /\ served[k] \in Nat /\ twice[k] \in Nat
            BY <1>1 DEF TrafficTypeOK
        <3>4. counts'[p][k] = counts[p][k] /\ served'[k] = served[k] /\ twice'[k] = twice[k]
            OBVIOUS
        <3>5. call'[p][c] = r
            BY <1>2
        <3> QED BY <3>1, <3>2, <3>3, <3>4, <3>5
    <2> QED BY <1>1, <1>2, <1>3, <2>1, <2>2, OneCallStep DEF TrafficInv
<1>5. SeenIsKept'
    <2> SUFFICES ASSUME faults' = 0 PROVE SeenIsKept'
        BY DEF SeenIsKept
    <2>1. \A q \in Processes, d \in AllCalls :
              call[q][d].sightings \subseteq call'[q][d].sightings \cup recorded'
        BY <1>2
    <2> QED BY <2>1, SeenGoesOn DEF TrafficInv
<1> QED BY <1>2, <1>3, <1>4, <1>5 DEF TrafficInv

LEMMA FaultCounted == ASSUME TrafficTypeOK, Fault PROVE faults' \in 0 .. MaxFaults /\ faults' # 0
    BY MaxFaultsAssumption DEF Fault, TrafficTypeOK

\* One row or one count of what was dropped moves.
LEMMA KeyMoves ==
    ASSUME NEW f \in [Keys -> Nat], NEW k \in Keys, NEW n \in Nat
    PROVE  /\ [f EXCEPT ![k] = n] \in [Keys -> Nat]
           /\ \A j \in Keys : [f EXCEPT ![k] = n][j] = IF j = k THEN n ELSE f[j]
    OBVIOUS

\* A call with the keys it had but k.
LEMMA ShareWithout ==
    ASSUME NEW r \in Call, NEW k \in r.left, NEW s \in Call, s.counts = r.counts, s.left = r.left \ {k}
    PROVE  \A j \in Keys : /\ Share(r, j) = Share(s, j) + (IF j = k THEN r.counts[k] ELSE 0)
                           /\ Share(s, j) \in Nat
<1>1. r.counts \in [Keys -> Nat]
    BY DEF Call
<1>2. \A j \in Keys : r.counts[j] \in Nat
    BY <1>1
<1> QED BY <1>2 DEF Share

LEMMA UpdateStep ==
    ASSUME TrafficInv, NEW p \in Processes, NEW c \in AllCalls, NEW k \in Keys, Update(p, c, k)
    PROVE  TrafficInv'
<1> DEFINE o == call[p][c]
<1>1. /\ o.at = "writing" /\ k \in o.left
      /\ UNCHANGED <<life, counts, sightings, recent, timer, flushing, recorded,
                     faults, served, twice, dropped, putBack>>
    BY DEF Update, history
<1>2. TrafficTypeOK /\ o \in Call /\ o.counts \in [Keys -> Nat] /\ o.left \in SUBSET Keys
    BY CallTyped DEF TrafficInv
<1>3. /\ row \in [Keys -> Nat] /\ dropped' \in [Keys -> Nat] /\ faults' \in 0 .. MaxFaults
      /\ recorded' \in SUBSET Addresses
    BY <1>1, <1>2 DEF TrafficTypeOK
<1>4. CASE row[k] > 0
    <2> DEFINE r == [o EXCEPT !.left = o.left \ {k}]
    <2>1. /\ row' = [row EXCEPT ![k] = row[k] + o.counts[k]]
          /\ call' = [call EXCEPT ![p][c] = r]
        BY <1>4 DEF Update
    <2>2. /\ r \in Call /\ CallFits(r) /\ r.counts = o.counts /\ r.left = o.left \ {k}
          /\ r.sightings = o.sightings
        BY <1>1, <1>2 DEF Call, CallFits
    <2>3. row[k] + o.counts[k] \in Nat
        BY <1>2, <1>3
    <2>4. /\ row' \in [Keys -> Nat]
          /\ \A j \in Keys : row'[j] = IF j = k THEN row[k] + o.counts[k] ELSE row[j]
        BY <1>3, <2>1, <2>3, KeyMoves
    <2> HIDE DEF r
    <2>5. \A j \in Keys : /\ Share(o, j) = Share(r, j) + (IF j = k THEN o.counts[k] ELSE 0)
                          /\ Share(r, j) \in Nat
        BY <1>1, <1>2, <2>2, ShareWithout
    <2>6. ASSUME NEW j \in Keys
          PROVE  row'[j] + Share(r, j) + dropped'[j] = row[j] + Share(call[p][c], j) + dropped[j]
        <3>1. row[j] \in Nat /\ dropped[j] \in Nat /\ o.counts[k] \in Nat /\ dropped'[j] = dropped[j]
            BY <1>1, <1>2 DEF TrafficTypeOK
        <3> HIDE DEF o
        <3>2. Share(o, j) = Share(r, j) + (IF j = k THEN o.counts[k] ELSE 0) /\ Share(r, j) \in Nat
            BY <2>5
        <3>3. row'[j] = IF j = k THEN row[k] + o.counts[k] ELSE row[j]
            BY <2>4
        <3>4. row'[j] + Share(r, j) + dropped'[j] = row[j] + Share(o, j) + dropped[j]
            BY <3>1, <3>2, <3>3
        <3> QED BY <3>4 DEF o
    <2>7. recorded \subseteq recorded' /\ call[p][c].sightings \subseteq r.sightings \cup recorded'
        BY <1>1, <2>2
    <2> HIDE DEF o
    <2>8. call' = [call EXCEPT ![p][c] = r] /\ r \in Call /\ CallFits(r) /\ row' \in [Keys -> Nat]
        BY <2>1, <2>2, <2>4
    <2> QED BY <1>1, <1>3, <2>6, <2>7, <2>8, StatementStep
<1>5. CASE ~(row[k] > 0)
    <2> DEFINE r == [o EXCEPT !.at = "insert", !.key = k]
    <2>1. row' = row /\ call' = [call EXCEPT ![p][c] = r]
        <3>1. call \in [Processes -> [AllCalls -> Call]]
            BY <1>2 DEF TrafficTypeOK
        <3> QED BY <1>5, <3>1 DEF Update
    <2>2. /\ r \in Call /\ CallFits(r) /\ r.counts = o.counts /\ r.left = o.left
          /\ r.sightings = o.sightings
        BY <1>1, <1>2 DEF Call, CallFits
    <2>3. \A j \in Keys : Share(r, j) = Share(o, j)
        BY <2>2 DEF Share
    <2>4. recorded \subseteq recorded' /\ call[p][c].sightings \subseteq r.sightings \cup recorded'
        BY <1>1, <2>2
    <2>5. \A j \in Keys : row'[j] + Share(r, j) + dropped'[j] = row[j] + Share(call[p][c], j) + dropped[j]
        BY <1>1, <2>1, <2>3
    <2> HIDE DEF r, o
    <2> QED BY <1>1, <1>3, <2>1, <2>2, <2>4, <2>5, StatementStep
<1> QED BY <1>4, <1>5

\* The insert is refused or fails: an increment follows.
LEMMA AgainStep ==
    ASSUME TrafficInv, NEW p \in Processes, NEW c \in AllCalls, call[p][c].at = "insert",
           call' = [call EXCEPT ![p][c].at = "again"],
           faults' \in 0 .. MaxFaults, faults' = 0 => faults = 0,
           UNCHANGED <<row, recorded, life, counts, sightings, recent, timer, flushing,
                       served, twice, dropped, putBack>>
    PROVE  TrafficInv'
<1> DEFINE o == call[p][c]
           r == [o EXCEPT !.at = "again"]
<1>1. TrafficTypeOK /\ o \in Call /\ o.key \in o.left
    BY CallTyped DEF TrafficInv, CallsFit, CallFits
<1>2. call' = [call EXCEPT ![p][c] = r]
    OBVIOUS
<1>3. /\ r \in Call /\ CallFits(r) /\ r.counts = o.counts /\ r.left = o.left
      /\ r.sightings = o.sightings
    BY <1>1 DEF Call, CallFits
<1>4. \A j \in Keys : Share(r, j) = Share(o, j)
    BY <1>3 DEF Share
<1>5. row' \in [Keys -> Nat] /\ dropped' \in [Keys -> Nat] /\ recorded' \in SUBSET Addresses
    BY <1>1 DEF TrafficTypeOK
<1>6. recorded \subseteq recorded' /\ call[p][c].sightings \subseteq r.sightings \cup recorded'
    BY <1>3
<1>7. \A j \in Keys : row'[j] + Share(r, j) + dropped'[j] = row[j] + Share(call[p][c], j) + dropped[j]
    BY <1>4
<1> HIDE DEF r, o
<1> QED BY <1>2, <1>3, <1>5, <1>6, <1>7, StatementStep

LEMMA InsertFailsStep ==
    ASSUME TrafficInv, NEW p \in Processes, NEW c \in AllCalls, InsertFails(p, c)
    PROVE  TrafficInv'
<1>1. faults' \in 0 .. MaxFaults /\ faults' # 0
    BY FaultCounted DEF TrafficInv, InsertFails
<1> QED BY <1>1, AgainStep DEF InsertFails, database

\* A statement of the entry in hand ends it: the number is in the row or dropped.
LEMMA WrittenStep ==
    ASSUME TrafficInv, NEW p \in Processes, NEW c \in AllCalls, call[p][c].at \in {"insert", "again"},
           Written(p, c),
           LET k == call[p][c].key
               n == call[p][c].counts[k]
           IN  \/ row' = [row EXCEPT ![k] = row[k] + n] /\ dropped' = dropped
               \/ dropped' = [dropped EXCEPT ![k] = dropped[k] + n] /\ row' = row,
           UNCHANGED <<life, counts, sightings, recent, timer, flushing, recorded,
                       faults, served, twice, putBack>>
    PROVE  TrafficInv'
<1> DEFINE o == call[p][c]
           k == o.key
           n == o.counts[k]
           r == [o EXCEPT !.at = "writing", !.left = o.left \ {k}, !.key = None]
<1>1. /\ TrafficTypeOK /\ o \in Call /\ o.counts \in [Keys -> Nat]
      /\ k \in o.left /\ k \in Keys
    BY CallTyped DEF TrafficInv, CallsFit, CallFits
<1>2. call' = [call EXCEPT ![p][c] = r]
    <2>1. call \in [Processes -> [AllCalls -> Call]]
        BY <1>1 DEF TrafficTypeOK
    <2> QED BY <2>1 DEF Written
<1>3. /\ r \in Call /\ CallFits(r) /\ r.counts = o.counts /\ r.left = o.left \ {k}
      /\ r.sightings = o.sightings
    BY <1>1 DEF Call, CallFits
<1>4. /\ row \in [Keys -> Nat] /\ dropped \in [Keys -> Nat] /\ faults' \in 0 .. MaxFaults
      /\ recorded' \in SUBSET Addresses /\ n \in Nat
    BY <1>1 DEF TrafficTypeOK
<1> HIDE DEF r
<1>5. \A j \in Keys : /\ Share(o, j) = Share(r, j) + (IF j = k THEN n ELSE 0)
                      /\ Share(r, j) \in Nat
    BY <1>1, <1>3, ShareWithout
<1>6. row[k] + n \in Nat /\ dropped[k] + n \in Nat
    BY <1>1, <1>4
<1>7. \/ row' = [row EXCEPT ![k] = row[k] + n] /\ dropped' = dropped
      \/ dropped' = [dropped EXCEPT ![k] = dropped[k] + n] /\ row' = row
    OBVIOUS
<1> HIDE DEF o, k, n
<1>8. /\ row' \in [Keys -> Nat] /\ dropped' \in [Keys -> Nat]
      /\ \A j \in Keys : row'[j] + dropped'[j] = row[j] + dropped[j] + (IF j = k THEN n ELSE 0)
    <2>1. CASE row' = [row EXCEPT ![k] = row[k] + n] /\ dropped' = dropped
        <3>1. row' \in [Keys -> Nat] /\ \A j \in Keys : row'[j] = IF j = k THEN row[k] + n ELSE row[j]
            BY <1>1, <1>4, <1>6, <2>1, KeyMoves
        <3> QED BY <1>4, <2>1, <3>1
    <2>2. CASE dropped' = [dropped EXCEPT ![k] = dropped[k] + n] /\ row' = row
        <3>1. /\ dropped' \in [Keys -> Nat]
              /\ \A j \in Keys : dropped'[j] = IF j = k THEN dropped[k] + n ELSE dropped[j]
            BY <1>1, <1>4, <1>6, <2>2, KeyMoves
        <3> QED BY <1>4, <2>2, <3>1
    <2> QED BY <1>7, <2>1, <2>2
<1>9. ASSUME NEW j \in Keys
      PROVE  row'[j] + Share(r, j) + dropped'[j] = row[j] + Share(o, j) + dropped[j]
    <2>1. /\ row[j] \in Nat /\ dropped[j] \in Nat /\ row'[j] \in Nat /\ dropped'[j] \in Nat
        BY <1>4, <1>8
    <2>2. row'[j] + dropped'[j] = row[j] + dropped[j] + (IF j = k THEN n ELSE 0)
        BY <1>8
    <2>3. Share(o, j) = Share(r, j) + (IF j = k THEN n ELSE 0) /\ Share(r, j) \in Nat
        BY <1>5
    <2> QED BY <1>4, <2>1, <2>2, <2>3
<1> QED BY <1>2, <1>3, <1>4, <1>8, <1>9, StatementStep DEF o

LEMMA InsertStep ==
    ASSUME TrafficInv, NEW p \in Processes, NEW c \in AllCalls, Insert(p, c)
    PROVE  TrafficInv'
<1> DEFINE k == call[p][c].key
<1>1. /\ call[p][c].at = "insert"
      /\ UNCHANGED <<life, counts, sightings, recent, timer, flushing, recorded,
                     faults, served, twice, dropped, putBack>>
    BY DEF Insert, history
<1>2. TrafficTypeOK /\ k \in Keys /\ call[p][c].counts[k] \in Nat
    <2>1. TrafficTypeOK /\ k \in call[p][c].left
        BY <1>1 DEF TrafficInv, CallsFit, CallFits
    <2> QED BY <2>1, CallTyped
<1>3. faults' \in 0 .. MaxFaults
    BY <1>1, <1>2 DEF TrafficTypeOK
<1>4. CASE row[k] = 0
    <2>1. row' = [row EXCEPT ![k] = call[p][c].counts[k]] /\ Written(p, c)
        BY <1>4 DEF Insert
    <2>2. call[p][c].counts[k] = row[k] + call[p][c].counts[k]
        BY <1>2, <1>4
    <2> HIDE DEF k
    <2>3. row' = [row EXCEPT ![k] = row[k] + call[p][c].counts[k]]
        BY <2>1, <2>2
    <2> QED BY <1>1, <2>1, <2>3, WrittenStep DEF k
<1>5. CASE row[k] # 0
    <2>1. row' = row /\ call' = [call EXCEPT ![p][c].at = "again"]
        BY <1>5 DEF Insert
    <2> QED BY <1>1, <1>3, <2>1, AgainStep
<1> QED BY <1>4, <1>5

LEMMA IncrementStep ==
    ASSUME TrafficInv, NEW p \in Processes, NEW c \in AllCalls, Increment(p, c)
    PROVE  TrafficInv'
    BY WrittenStep DEF Increment

\* A sighting is recorded, or given up after a failure.
LEMMA SightingStep ==
    ASSUME TrafficInv, NEW p \in Processes, NEW c \in AllCalls, NEW a \in Addresses,
           call[p][c].at = "writing",
           call' = [call EXCEPT ![p][c].sightings = call[p][c].sightings \ {a}],
           \/ recorded' = recorded \cup {a} /\ UNCHANGED faults
           \/ recorded' = recorded /\ Fault,
           UNCHANGED <<life, counts, sightings, recent, timer, flushing, row,
                       served, twice, dropped, putBack>>
    PROVE  TrafficInv'
<1> DEFINE o == call[p][c]
           r == [o EXCEPT !.sightings = o.sightings \ {a}]
<1>1. TrafficTypeOK /\ o \in Call
    BY CallTyped DEF TrafficInv
<1>2. call' = [call EXCEPT ![p][c] = r]
    OBVIOUS
<1>3. /\ r \in Call /\ CallFits(r) /\ r.counts = o.counts /\ r.left = o.left
      /\ r.sightings = o.sightings \ {a}
    BY <1>1 DEF Call, CallFits
<1>4. \A j \in Keys : Share(r, j) = Share(o, j)
    BY <1>3 DEF Share
<1>5. row' \in [Keys -> Nat] /\ dropped' \in [Keys -> Nat] /\ recorded' \in SUBSET Addresses
    BY <1>1 DEF TrafficTypeOK
<1>6. faults' \in 0 .. MaxFaults /\ (faults' = 0 => faults = 0 /\ a \in recorded')
    BY <1>1, FaultCounted DEF TrafficTypeOK
<1>7. /\ recorded \subseteq recorded'
      /\ faults' = 0 => call[p][c].sightings \subseteq r.sightings \cup recorded'
    BY <1>3, <1>6
<1>8. \A j \in Keys : row'[j] + Share(r, j) + dropped'[j] = row[j] + Share(call[p][c], j) + dropped[j]
    BY <1>4
<1> HIDE DEF r, o
<1> QED BY <1>2, <1>3, <1>5, <1>6, <1>7, <1>8, StatementStep

LEMMA RecordStep ==
    ASSUME TrafficInv, NEW p \in Processes, NEW c \in AllCalls, NEW a \in Addresses,
           Record(p, c, a) \/ RecordFails(p, c, a)
    PROVE  TrafficInv'
    BY SightingStep DEF Record, RecordFails, database, history

-----------------------------------------------------------------------------
\* What a process has not written when it goes is dropped.
LEMMA GoneStep ==
    ASSUME TrafficInv, NEW p \in Processes, Gone(p), faults' \in 0 .. MaxFaults, faults' = 0 => faults = 0
    PROVE  TrafficInv'
<1>1. /\ life' = [life EXCEPT ![p] = "gone"]
      /\ dropped' = [k \in Keys |-> dropped[k] + Unwritten(p, k)]
      /\ counts' = [counts EXCEPT ![p] = Zero]
      /\ sightings' = [sightings EXCEPT ![p] = {}]
      /\ recent' = [recent EXCEPT ![p] = {}]
      /\ timer' = [timer EXCEPT ![p] = FALSE]
      /\ flushing' = [flushing EXCEPT ![p] = None]
      /\ call' = [call EXCEPT ![p] = [c \in AllCalls |-> NoCall]]
      /\ putBack' = putBack \ {p}
      /\ UNCHANGED <<row, recorded, served, twice>>
    BY DEF Gone, database
<1>2. TrafficTypeOK /\ CallsFit
    BY DEF TrafficInv
<1> DEFINE new == [c \in AllCalls |-> NoCall]
<1>3. new \in [AllCalls -> Call] /\ \A c \in AllCalls : CallFits(new[c])
    BY NoCallTyped
<1>4. /\ call' \in [Processes -> [AllCalls -> Call]]
      /\ CallsFit'
      /\ call'[p] = new
      /\ \A q \in Processes \ {p} : call'[q] = call[q]
    <2> HIDE DEF new
    <2>1. call' = [call EXCEPT ![p] = new]
        BY <1>1 DEF new
    <2> QED BY <1>2, <1>3, <2>1, CallsBecome
<1>5. /\ counts' \in [Processes -> [Keys -> Nat]]
      /\ \A k \in Keys : counts'[p][k] = 0
      /\ \A q \in Processes \ {p} : counts'[q] = counts[q]
    BY <1>1, <1>2, ZeroTyped DEF TrafficTypeOK
<1>6. /\ dropped' \in [Keys -> Nat]
      /\ \A k \in Keys : dropped'[k] = dropped[k] + Unwritten(p, k)
    <2>1. \A k \in Keys : dropped[k] + Unwritten(p, k) \in Nat
        BY <1>2, UnwrittenIsNumber DEF TrafficTypeOK
    <2> QED BY <1>1, <2>1
<1>7. TrafficTypeOK'
    <2>1. /\ life' \in [Processes -> {"up", "stopping", "gone"}]
          /\ sightings' \in [Processes -> SUBSET Addresses]
          /\ recent' \in [Processes -> SUBSET Addresses]
          /\ timer' \in [Processes -> BOOLEAN]
          /\ flushing' \in [Processes -> AllCalls \cup {None}]
          /\ putBack' \in SUBSET Processes
        BY <1>1, <1>2 DEF TrafficTypeOK
    <2> QED BY <1>1, <1>2, <1>4, <1>5, <1>6, <2>1 DEF TrafficTypeOK
<1>8. EveryRequestCounts'
    <2>1. ASSUME NEW k \in Keys
          PROVE  row'[k] + Unwritten(p, k)' + dropped'[k] + served[k] + twice[k]
                 = row[k] + Unwritten(p, k) + dropped[k] + served'[k] + twice'[k]
        <3>1. InFlight(p, k)' = 0
            BY <1>4, NothingInFlight
        <3>2. Unwritten(p, k)' = 0
            BY <1>5, <3>1 DEF Unwritten
        <3>3. /\ row[k] \in Nat /\ dropped[k] \in Nat /\ served[k] \in Nat /\ twice[k] \in Nat
              /\ Unwritten(p, k) \in Nat
            BY <1>2, UnwrittenIsNumber DEF TrafficTypeOK
        <3>4. dropped'[k] = dropped[k] + Unwritten(p, k)
            BY <1>6
        <3>5. row'[k] = row[k] /\ served'[k] = served[k] /\ twice'[k] = twice[k]
            BY <1>1
        <3> QED BY <3>2, <3>3, <3>4, <3>5
    <2> QED BY <1>2, <1>4, <1>5, <1>7, <2>1, Balanced DEF TrafficInv
<1>9. SeenIsKept'
    <2>1. /\ recent'[p] = {}
          /\ \A q \in Processes \ {p} : recent'[q] = recent[q] /\ sightings'[q] = sightings[q]
        BY <1>1, <1>2 DEF TrafficTypeOK
    <2> QED BY <1>1, <1>4, <2>1, SeenGoesOn DEF TrafficInv
<1> QED BY <1>4, <1>7, <1>8, <1>9 DEF TrafficInv

LEMMA EndStep == ASSUME TrafficInv, NEW p \in Processes, Exit(p) \/ Die(p) PROVE TrafficInv'
<1>1. TrafficTypeOK
    BY DEF TrafficInv
<1>2. faults' \in 0 .. MaxFaults /\ (faults' = 0 => faults = 0)
    BY <1>1, FaultCounted DEF Exit, Die, TrafficTypeOK
<1> QED BY <1>2, GoneStep DEF Exit, Die

LEMMA TrafficInvStep == TrafficInv /\ [TrafficNext]_trafficVars => TrafficInv'
<1> SUFFICES ASSUME TrafficInv, [TrafficNext]_trafficVars PROVE TrafficInv'
    OBVIOUS
<1>1. ASSUME NEW p \in Processes, NEW c \in AllCalls, Write(p, c) PROVE TrafficInv'
    BY <1>1, UpdateStep, InsertStep, IncrementStep, RecordStep, FinishStep, ResumeStep DEF Write
<1>2. ASSUME NEW p \in Processes, NEW c \in AllCalls,
             Fail(p, c) \/ InsertFails(p, c) \/ \E a \in Addresses : RecordFails(p, c, a)
      PROVE  TrafficInv'
    BY <1>2, FailStep, InsertFailsStep, RecordStep
<1>3. ASSUME NEW p \in Processes,
             \/ \E k \in Keys : Hit(p, k)
             \/ \E a \in Addresses : Saw(p, a)
             \/ \E c \in Calls : Fires(p, c)
             \/ Terminate(p) \/ Exit(p) \/ Die(p)
      PROVE  TrafficInv'
    BY <1>3, HitStep, SawStep, FiresStep, TerminateStep, EndStep
<1>4. CASE UNCHANGED trafficVars
    BY <1>4 DEF trafficVars, TrafficInv, TrafficTypeOK, CallsFit, EveryRequestCounts, Unwritten, InFlight,
       SeenIsKept
<1> QED BY <1>1, <1>2, <1>3, <1>4 DEF TrafficNext

-----------------------------------------------------------------------------
(* Theorems. *)

\* The invariant holds in every reachable state.
THEOREM TrafficInvariant == TrafficSpec => []TrafficInv
    BY TrafficInitStep, TrafficInvStep, PTL DEF TrafficSpec

\* Buffers, writes and rows are well-typed: a number that is put back, in
\* particular, never makes a count negative (traffic.ts, flush).
THEOREM TrafficTypes == TrafficSpec => []TrafficTypeOK
    <1>1. TrafficInv => TrafficTypeOK
        BY DEF TrafficInv
    <1> QED BY <1>1, TrafficInvariant, PTL

\* Whatever processes, calls, failures and ends interleave, every request is in
\* one buffer, one write or its row, once, but for what a failed write puts back
\* and what is dropped (traffic.ts, hit, flush and #write).
THEOREM RequestsCount == TrafficSpec => []EveryRequestCounts
    <1>1. TrafficInv => EveryRequestCounts
        BY DEF TrafficInv
    <1> QED BY <1>1, TrafficInvariant, PTL

\* While nothing fails no sighting a process remembers is forgotten
\* (traffic.ts, saw).
THEOREM SightingsAreKept == TrafficSpec => []SeenIsKept
    <1>1. TrafficInv => SeenIsKept
        BY DEF TrafficInv
    <1> QED BY <1>1, TrafficInvariant, PTL
=============================================================================
