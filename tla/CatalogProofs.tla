----------------------------- MODULE CatalogProofs -----------------------------
(***************************************************************************)
(* Proofs about Catalog, for any number of requests, slugs, builds and     *)
(* versions: its types, that releases and builds go together, that nothing *)
(* goes back to draft, that what a channel offers is its newest build, and *)
(* that what has shipped is permanent as long as nobody saves an outdated  *)
(* copy.  The inductive invariant adds to the types and BuildIsThere that  *)
(* a build whose row is about to be inserted belongs to one request alone, *)
(* and that one about to be removed has no row.  The offer needs the order *)
(* of versions to be one, and the dates of what has been published.        *)
(***************************************************************************)
EXTENDS Catalog, SequenceTheorems, FiniteSetTheorems, WellFoundedInduction, TLAPS

InHand(d, b) == desk[d].at \in {"stored", "removing"} /\ desk[d].build = b

StoredApart ==
    \A d \in Desks : desk[d].at = "stored" =>
        /\ desk[d].build \in disk \ Released
        /\ \A e \in Desks \ {d} : ~Holds(e, desk[d].build)
RemovingGone == \A d \in Desks : desk[d].at = "removing" => desk[d].build \notin Released

Placed == BuildIsThere /\ StoredApart /\ RemovingGone
CatInv == TypeOK /\ Placed

-----------------------------------------------------------------------------
(* The order of versions, and what pickLatest picks. *)

\* A set of numbers that is not empty has a least one.
LEMMA LeastNumber ==
    ASSUME NEW D \in SUBSET Nat, D # {}
    PROVE  \E m \in D : \A n \in D : m <= n
    <1>1. PICK m \in D : \A n \in D : <<n, m>> \notin OpToRel(<, Nat)
        BY NatLessThanWellFounded, WFMin
    <1>2. ASSUME NEW n \in D, n < m PROVE FALSE
        <2>1. <<n, m>> \in OpToRel(<, Nat)
            BY <1>2 DEF OpToRel
        <2> QED BY <1>1, <2>1
    <1> QED BY <1>2

LEMMA MaxOfTwo ==
    ASSUME NEW m \in Nat, NEW n \in Nat
    PROVE  Max({m, n}) \in {m, n} /\ Max({m, n}) >= m /\ Max({m, n}) >= n
    <1>1. \E x \in {m, n} : \A y \in {m, n} : x >= y
        <2>1. CASE m >= n
            BY <2>1
        <2>2. CASE n >= m
            BY <2>2
        <2> QED BY <2>1, <2>2
    <1>2. Max({m, n}) \in {m, n} /\ \A y \in {m, n} : Max({m, n}) >= y
        BY <1>1 DEF Max
    <1> QED BY <1>2

\* The sequences differ at i, and before it both go on and are equal.
DifferFirst(s, t, i) ==
    /\ i \in Nat /\ i >= 1 /\ Differ(s, t, i)
    /\ i <= Len(s) \/ i <= Len(t)
    /\ \A j \in 1..(i - 1) : j <= Len(s) /\ j <= Len(t) /\ s[j] = t[j]

LEMMA FirstDifferenceIs ==
    ASSUME NEW S, NEW s \in Seq(S), NEW t \in Seq(S), s # t
    PROVE  DifferFirst(s, t, FirstDifference(s, t))
    <1> DEFINE m == Max({Len(s), Len(t)})
               D == {i \in 1..m : Differ(s, t, i)}
    <1>1. Len(s) \in Nat /\ Len(t) \in Nat
        OBVIOUS
    <1>2. m \in {Len(s), Len(t)} /\ m >= Len(s) /\ m >= Len(t)
        BY <1>1, MaxOfTwo
    <1> HIDE DEF m
    <1>3. D # {}
        <2> SUFFICES ASSUME \A i \in 1..m : ~Differ(s, t, i) PROVE FALSE
            OBVIOUS
        <2>1. Len(s) = Len(t)
            <3>1. CASE Len(s) < Len(t)
                <4>1. Differ(s, t, Len(t)) /\ Len(t) \in 1..m
                    BY <1>1, <1>2, <3>1 DEF Differ
                <4> QED BY <4>1
            <3>2. CASE Len(t) < Len(s)
                <4>1. Differ(s, t, Len(s)) /\ Len(s) \in 1..m
                    BY <1>1, <1>2, <3>2 DEF Differ
                <4> QED BY <4>1
            <3> QED BY <1>1, <3>1, <3>2
        <2>2. \A i \in 1..Len(s) : s[i] = t[i]
            BY <1>1, <1>2 DEF Differ
        <2> QED BY <2>1, <2>2
    <1>4. D \in SUBSET Nat
        BY <1>1, <1>2
    <1>5. PICK k \in D : \A i \in D : k <= i
        BY <1>3, <1>4, LeastNumber
    <1>6. k \in 1..m /\ Differ(s, t, k) /\ \A j \in 1..(k - 1) : ~Differ(s, t, j)
        BY <1>1, <1>2, <1>5
    <1>7. FirstDifference(s, t) = CHOOSE i \in 1..m : Differ(s, t, i) /\ \A j \in 1..(i - 1) : ~Differ(s, t, j)
        BY DEF FirstDifference, m
    <1> DEFINE i == FirstDifference(s, t)
    <1>8. i \in 1..m /\ Differ(s, t, i) /\ \A j \in 1..(i - 1) : ~Differ(s, t, j)
        BY <1>6, <1>7
    <1> HIDE DEF i
    <1>9. \A j \in 1..(i - 1) : j <= Len(s) /\ j <= Len(t) /\ s[j] = t[j]
        BY <1>1, <1>2, <1>8 DEF Differ
    <1> QED BY <1>1, <1>2, <1>8, <1>9 DEF i, DifferFirst

LEMMA CoreTyped ==
    ASSUME NEW a \in [1..3 -> Nat]
    PROVE  a \in Seq(Nat) /\ Len(a) = 3 /\ \A i \in 1..3 : a[i] \in Nat
    <1>1. a \in Seq(Nat)
        BY SeqDef
    <1>2. Len(a) \in Nat /\ 1..Len(a) = 1..3
        BY <1>1, LenProperties
    <1>3. 3 \in 1..Len(a) /\ \A i \in 1..Len(a) : i <= 3
        BY <1>2
    <1>4. Len(a) = 3
        BY <1>2, <1>3
    <1> QED BY <1>1, <1>4

\* Where cores first differ decides.
LEMMA CoreCompared ==
    ASSUME NEW a \in [1..3 -> Nat], NEW b \in [1..3 -> Nat], a # b
    PROVE  LET i == FirstDifference(a, b)
           IN  a[i] - b[i] \in Int /\ (a[i] - b[i] > 0 <=> CorePrecedes(b, a))
    <1> DEFINE i == FirstDifference(a, b)
    <1>1. a \in Seq(Nat) /\ b \in Seq(Nat) /\ Len(a) = 3 /\ Len(b) = 3
        BY CoreTyped
    <1>2. /\ i \in Nat /\ i >= 1 /\ Differ(a, b, i)
          /\ i <= Len(a) \/ i <= Len(b)
          /\ \A j \in 1..(i - 1) : j <= Len(a) /\ j <= Len(b) /\ a[j] = b[j]
        <2>1. DifferFirst(a, b, i)
            BY <1>1, FirstDifferenceIs
        <2> QED BY <2>1 DEF DifferFirst
    <1> HIDE DEF i
    <1>3. i \in 1..3 /\ a[i] \in Nat /\ b[i] \in Nat /\ a[i] # b[i]
        <2>1. i \in 1..3
            BY <1>1, <1>2
        <2>2. a[i] \in Nat /\ b[i] \in Nat
            BY <2>1
        <2>3. a[i] # b[i]
            BY <1>1, <1>2, <2>1 DEF Differ
        <2> QED BY <2>1, <2>2, <2>3
    <1>4. a[i] > b[i] => CorePrecedes(b, a)
        BY <1>2, <1>3 DEF CorePrecedes
    <1>5. CorePrecedes(b, a) => a[i] > b[i]
        <2> SUFFICES ASSUME NEW k \in 1..3, b[k] < a[k], \A j \in 1..(k - 1) : b[j] = a[j]
                     PROVE  a[i] > b[i]
            BY DEF CorePrecedes
        <2>1. a[k] \in Nat /\ b[k] \in Nat
            BY CoreTyped
        <2>2. CASE k < i
            <3>1. a[k] = b[k]
                BY <1>2, <2>2
            <3> QED BY <2>1, <3>1
        <2>3. CASE i < k
            <3>1. a[i] = b[i]
                BY <1>3, <2>3
            <3> QED BY <1>3, <3>1
        <2>4. CASE i = k
            BY <2>1, <2>4
        <2> QED BY <1>3, <2>2, <2>3, <2>4
    <1> QED BY <1>3, <1>4, <1>5 DEF i

LEMMA PartCompared ==
    ASSUME NEW p \in Part, NEW q \in Part
    PROVE  CompareParts(p, q) \in Int /\ (CompareParts(p, q) > 0 <=> PartPrecedes(q, p))
    BY DEF Part, CompareParts, PartPrecedes

LEMMA PreCompared ==
    ASSUME NEW s \in Seq(Part), NEW t \in Seq(Part), s # t
    PROVE  LET i == FirstDifference(s, t)
               c == IF i > Len(s) THEN -1
                    ELSE IF i > Len(t) THEN 1
                    ELSE CompareParts(s[i], t[i])
           IN  c \in Int /\ (c > 0 <=> PrePrecedes(t, s))
    <1> DEFINE i == FirstDifference(s, t)
               c == IF i > Len(s) THEN -1
                    ELSE IF i > Len(t) THEN 1
                    ELSE CompareParts(s[i], t[i])
    <1>1. Len(s) \in Nat /\ Len(t) \in Nat
          /\ (\A j \in 1..Len(s) : s[j] \in Part) /\ (\A j \in 1..Len(t) : t[j] \in Part)
        OBVIOUS
    <1>2. /\ i \in Nat /\ i >= 1 /\ Differ(s, t, i)
          /\ i <= Len(s) \/ i <= Len(t)
          /\ \A j \in 1..(i - 1) : j <= Len(s) /\ j <= Len(t) /\ s[j] = t[j]
        BY FirstDifferenceIs DEF DifferFirst
    <1> HIDE DEF i
    <1>a. /\ i > Len(s) => c = -1
          /\ i <= Len(s) /\ i > Len(t) => c = 1
          /\ i <= Len(s) /\ i <= Len(t) => c = CompareParts(s[i], t[i])
        BY <1>1, <1>2
    <1>b. i <= Len(s) /\ i <= Len(t) => s[i] \in Part /\ t[i] \in Part
        BY <1>1, <1>2
    <1> HIDE DEF c
    <1>3. c \in Int
        <2>1. CASE i <= Len(s) /\ i <= Len(t)
            BY <1>a, <1>b, <2>1, PartCompared
        <2>2. CASE ~(i <= Len(s) /\ i <= Len(t))
            BY <1>1, <1>2, <1>a, <2>2
        <2> QED BY <2>1, <2>2
    <1>4. ASSUME c > 0 PROVE PrePrecedes(t, s)
        <2>1. i <= Len(s)
            BY <1>1, <1>2, <1>4, <1>a
        <2>2. CASE i > Len(t)
            <3>1. i = Len(t) + 1
                <4>1. CASE i = 1
                    BY <1>1, <2>2, <4>1
                <4>2. CASE i > 1
                    <5>1. i - 1 \in 1..(i - 1)
                        BY <1>2, <4>2
                    <5>2. i - 1 <= Len(t)
                        BY <1>2, <5>1
                    <5> QED BY <1>1, <1>2, <2>2, <5>2
                <4> QED BY <1>2, <4>1, <4>2
            <3>2. i \in 1..Len(s) /\ \A j \in 1..(i - 1) : t[j] = s[j]
                BY <1>1, <1>2, <2>1
            <3> QED BY <3>1, <3>2 DEF PrePrecedes
        <2>3. CASE i <= Len(t)
            <3>1. i \in 1..Len(s) /\ i \in 1..Len(t) /\ \A j \in 1..(i - 1) : t[j] = s[j]
                BY <1>1, <1>2, <2>1, <2>3
            <3>2. PartPrecedes(t[i], s[i])
                BY <1>4, <1>a, <1>b, <2>1, <2>3, PartCompared
            <3> QED BY <3>1, <3>2 DEF PrePrecedes
        <2> QED BY <1>1, <1>2, <2>2, <2>3
    <1>5. ASSUME PrePrecedes(t, s) PROVE c > 0
        <2>1. PICK k \in 1..Len(s) : /\ k = Len(t) + 1 \/ (k \in 1..Len(t) /\ PartPrecedes(t[k], s[k]))
                                     /\ \A j \in 1..(k - 1) : t[j] = s[j]
            BY <1>5 DEF PrePrecedes
        <2>2. CASE k < i
            <3>1. k <= Len(t) /\ s[k] = t[k]
                BY <1>1, <1>2, <2>1, <2>2
            <3>2. PartPrecedes(t[k], s[k]) /\ s[k] \in Part
                BY <1>1, <2>1, <3>1
            <3> QED BY <3>1, <3>2 DEF PartPrecedes, Part
        <2>3. CASE i < k
            <3>1. i \in 1..(k - 1) /\ i <= Len(s) /\ i <= Len(t)
                BY <1>1, <1>2, <2>1, <2>3
            <3> QED BY <1>2, <2>1, <3>1 DEF Differ
        <2>4. CASE i = k
            <3>1. CASE k = Len(t) + 1
                BY <1>1, <1>a, <2>1, <2>4, <3>1
            <3>2. CASE k \in 1..Len(t) /\ PartPrecedes(t[k], s[k])
                <4>1. i <= Len(s) /\ i <= Len(t) /\ PartPrecedes(t[i], s[i])
                    BY <1>1, <2>1, <2>4, <3>2
                <4> QED BY <4>1, <1>a, <1>b, PartCompared
            <3> QED BY <2>1, <3>1, <3>2
        <2> QED BY <1>2, <2>1, <2>2, <2>3, <2>4
    <1> QED BY <1>3, <1>4, <1>5 DEF i, c

\* compareVersions says what the order of versions says.
LEMMA ComparedByPrecedence ==
    ASSUME NEW a \in Version, NEW b \in Version
    PROVE  CompareVersions(a, b) \in Int /\ (CompareVersions(a, b) > 0 <=> Precedes(b, a))
    <1>1. /\ a.core \in [1..3 -> Nat] /\ b.core \in [1..3 -> Nat]
          /\ a.pre \in Seq(Part) /\ b.pre \in Seq(Part)
        BY DEF Version
    <1>2. CASE a.core # b.core
        BY <1>1, <1>2, CoreCompared DEF CompareVersions, Precedes
    <1>3. CASE a.core = b.core
        <2>1. ~CorePrecedes(b.core, a.core)
            <3>1. \A i \in 1..3 : ~(b.core[i] < a.core[i])
                BY <1>1, <1>3
            <3> QED BY <3>1 DEF CorePrecedes
        <2>2. CASE a.pre = b.pre
            <3>1. ~PrePrecedes(b.pre, a.pre)
                <4>1. Len(a.pre) \in Nat /\ \A i \in 1..Len(a.pre) : a.pre[i] \in Part
                    BY <1>1
                <4>2. \A i \in 1..Len(a.pre) : ~PartPrecedes(b.pre[i], a.pre[i]) /\ i # Len(b.pre) + 1
                    BY <2>2, <4>1 DEF PartPrecedes, Part
                <4> QED BY <4>2 DEF PrePrecedes
            <3> QED BY <1>3, <2>1, <2>2, <3>1 DEF CompareVersions, Precedes
        <2>3. CASE a.pre # b.pre /\ (a.pre = <<>> \/ b.pre = <<>>)
            <3>1. /\ Len(a.pre) \in Nat /\ Len(b.pre) \in Nat
                  /\ a.pre # <<>> => Len(a.pre) > 0
                  /\ b.pre # <<>> => Len(b.pre) > 0
                BY <1>1
            <3>2. CompareVersions(a, b) = Len(b.pre) - Len(a.pre)
                BY <1>3, <2>3 DEF CompareVersions
            <3>3. Len(<<>>) = 0 /\ ~PrePrecedes(b.pre, <<>>)
                BY DEF PrePrecedes
            <3>4. CASE a.pre = <<>>
                <4>1. b.pre # <<>> /\ Precedes(b, a)
                    BY <1>3, <2>3, <3>4 DEF Precedes
                <4> QED BY <3>1, <3>2, <3>3, <3>4, <4>1
            <3>5. CASE b.pre = <<>>
                <4>1. ~Precedes(b, a)
                    BY <2>1, <3>5 DEF Precedes
                <4> QED BY <3>1, <3>2, <3>3, <3>5, <4>1
            <3> QED BY <2>3, <3>4, <3>5
        <2>4. CASE a.pre # b.pre /\ a.pre # <<>> /\ b.pre # <<>>
            <3>1. Precedes(b, a) <=> PrePrecedes(b.pre, a.pre)
                BY <1>3, <2>1, <2>4 DEF Precedes
            <3> QED BY <1>1, <1>3, <2>4, <3>1, PreCompared DEF CompareVersions
        <2> QED BY <2>2, <2>3, <2>4
    <1> QED BY <1>2, <1>3
LEMMA CoreTransitive ==
    ASSUME NEW a \in [1..3 -> Nat], NEW b \in [1..3 -> Nat], NEW c \in [1..3 -> Nat],
           CorePrecedes(a, b), CorePrecedes(b, c)
    PROVE  CorePrecedes(a, c)
    <1>1. PICK i \in 1..3 : a[i] < b[i] /\ \A j \in 1..(i - 1) : a[j] = b[j]
        BY DEF CorePrecedes
    <1>2. PICK k \in 1..3 : b[k] < c[k] /\ \A j \in 1..(k - 1) : b[j] = c[j]
        BY DEF CorePrecedes
    <1>3. CASE i < k
        <2>1. a[i] < c[i] /\ \A j \in 1..(i - 1) : a[j] = c[j]
            BY <1>1, <1>2, <1>3
        <2> QED BY <2>1 DEF CorePrecedes
    <1>4. CASE k < i
        <2>1. a[k] < c[k] /\ \A j \in 1..(k - 1) : a[j] = c[j]
            BY <1>1, <1>2, <1>4
        <2> QED BY <2>1 DEF CorePrecedes
    <1>5. CASE i = k
        <2>1. a[i] < c[i] /\ \A j \in 1..(i - 1) : a[j] = c[j]
            BY <1>1, <1>2, <1>5
        <2> QED BY <2>1 DEF CorePrecedes
    <1> QED BY <1>3, <1>4, <1>5

LEMMA PartTransitive ==
    ASSUME NEW p \in Part, NEW q \in Part, NEW r \in Part, PartPrecedes(p, q), PartPrecedes(q, r)
    PROVE  PartPrecedes(p, r)
    BY DEF Part, PartPrecedes

\* Where the first is older than the second at i, and the second older than the
\* third at k, the first is older than the third at the smaller of the two.
LEMMA PreTransitive ==
    ASSUME NEW s \in Seq(Part), NEW t \in Seq(Part), NEW u \in Seq(Part),
           PrePrecedes(s, t), PrePrecedes(t, u)
    PROVE  PrePrecedes(s, u)
    <1>0. /\ Len(s) \in Nat /\ Len(t) \in Nat /\ Len(u) \in Nat
          /\ \A i \in 1..Len(s) : s[i] \in Part
          /\ \A i \in 1..Len(t) : t[i] \in Part
          /\ \A i \in 1..Len(u) : u[i] \in Part
        OBVIOUS
    <1>1. PICK i \in 1..Len(t) : /\ i = Len(s) + 1 \/ (i \in 1..Len(s) /\ PartPrecedes(s[i], t[i]))
                                 /\ \A j \in 1..(i - 1) : s[j] = t[j]
        BY DEF PrePrecedes
    <1>2. PICK k \in 1..Len(u) : /\ k = Len(t) + 1 \/ (k \in 1..Len(t) /\ PartPrecedes(t[k], u[k]))
                                 /\ \A j \in 1..(k - 1) : t[j] = u[j]
        BY DEF PrePrecedes
    <1>3. CASE i < k
        <2>1. i \in 1..Len(u) /\ t[i] = u[i] /\ \A j \in 1..(i - 1) : s[j] = u[j]
            BY <1>0, <1>1, <1>2, <1>3
        <2> QED BY <1>1, <2>1 DEF PrePrecedes
    <1>4. CASE k < i
        <2>1. k \in 1..Len(t) /\ k \in 1..Len(s) /\ s[k] = t[k] /\ \A j \in 1..(k - 1) : s[j] = u[j]
            BY <1>0, <1>1, <1>2, <1>4
        <2>2. PartPrecedes(t[k], u[k])
            BY <1>0, <1>2, <2>1
        <2> QED BY <2>1, <2>2 DEF PrePrecedes
    <1>5. CASE i = k
        <2>1. i \in 1..Len(t) /\ i \in 1..Len(u) /\ \A j \in 1..(i - 1) : s[j] = u[j]
            BY <1>0, <1>1, <1>2, <1>5
        <2>2. PartPrecedes(t[i], u[i])
            BY <1>0, <1>2, <1>5, <2>1
        <2>3. CASE i = Len(s) + 1
            BY <2>1, <2>3 DEF PrePrecedes
        <2>4. CASE i \in 1..Len(s) /\ PartPrecedes(s[i], t[i])
            <3>1. PartPrecedes(s[i], u[i])
                BY <1>0, <2>1, <2>2, <2>4, PartTransitive
            <3> QED BY <2>1, <2>4, <3>1 DEF PrePrecedes
        <2> QED BY <1>1, <2>3, <2>4
    <1> QED BY <1>3, <1>4, <1>5

LEMMA PrecedenceTransitive ==
    ASSUME NEW a \in Version, NEW b \in Version, NEW c \in Version, Precedes(a, b), Precedes(b, c)
    PROVE  Precedes(a, c)
    <1>1. /\ a.core \in [1..3 -> Nat] /\ b.core \in [1..3 -> Nat] /\ c.core \in [1..3 -> Nat]
          /\ a.pre \in Seq(Part) /\ b.pre \in Seq(Part) /\ c.pre \in Seq(Part)
        BY DEF Version
    <1>2. CASE CorePrecedes(a.core, b.core) /\ CorePrecedes(b.core, c.core)
        BY <1>1, <1>2, CoreTransitive DEF Precedes
    <1>3. CASE CorePrecedes(a.core, b.core) /\ b.core = c.core
        BY <1>3 DEF Precedes
    <1>4. CASE a.core = b.core /\ CorePrecedes(b.core, c.core)
        BY <1>4 DEF Precedes
    <1>5. CASE /\ a.core = b.core /\ a.pre # <<>> /\ (b.pre = <<>> \/ PrePrecedes(a.pre, b.pre))
               /\ b.core = c.core /\ b.pre # <<>> /\ (c.pre = <<>> \/ PrePrecedes(b.pre, c.pre))
        <2>1. c.pre = <<>> \/ PrePrecedes(a.pre, c.pre)
            BY <1>1, <1>5, PreTransitive
        <2> QED BY <1>5, <2>1 DEF Precedes
    <1> QED BY <1>2, <1>3, <1>4, <1>5 DEF Precedes

LEMMA PrecedenceIrreflexive ==
    ASSUME NEW a \in Version
    PROVE  ~Precedes(a, a)
    <1>1. CompareVersions(a, a) = 0
        BY DEF CompareVersions
    <1>2. ~(0 > 0)
        OBVIOUS
    <1> QED BY <1>1, <1>2, ComparedByPrecedence

LEMMA PartTotal ==
    ASSUME NEW p \in Part, NEW q \in Part, p # q
    PROVE  PartPrecedes(p, q) \/ PartPrecedes(q, p)
    <1>1. /\ p = [text |-> p.text, value |-> p.value] /\ q = [text |-> q.text, value |-> q.value]
          /\ p.text \in BOOLEAN /\ q.text \in BOOLEAN /\ p.value \in Nat /\ q.value \in Nat
        BY DEF Part
    <1>2. p.text # q.text \/ p.value # q.value
        BY <1>1
    <1>3. CASE p.text # q.text
        BY <1>1, <1>3 DEF PartPrecedes
    <1>4. CASE p.text = q.text /\ p.value # q.value
        <2>1. p.value < q.value \/ q.value < p.value
            BY <1>1, <1>4
        <2> QED BY <1>4, <2>1 DEF PartPrecedes
    <1> QED BY <1>2, <1>3, <1>4

LEMMA PreTotal ==
    ASSUME NEW s \in Seq(Part), NEW t \in Seq(Part), s # t
    PROVE  PrePrecedes(s, t) \/ PrePrecedes(t, s)
    <1> DEFINE i == FirstDifference(s, t)
    <1>1. /\ Len(s) \in Nat /\ Len(t) \in Nat
          /\ \A j \in 1..Len(s) : s[j] \in Part
          /\ \A j \in 1..Len(t) : t[j] \in Part
        OBVIOUS
    <1>2. /\ i \in Nat /\ i >= 1 /\ Differ(s, t, i)
          /\ i <= Len(s) \/ i <= Len(t)
          /\ \A j \in 1..(i - 1) : j <= Len(s) /\ j <= Len(t) /\ s[j] = t[j]
        BY FirstDifferenceIs DEF DifferFirst
    <1> HIDE DEF i
    <1>3. i = 1 \/ i - 1 \in 1..(i - 1)
        BY <1>2
    <1>4. i <= Len(s) + 1 /\ i <= Len(t) + 1
        BY <1>1, <1>2, <1>3
    <1>5. CASE i > Len(s)
        <2>1. i \in 1..Len(t) /\ i = Len(s) + 1
            BY <1>1, <1>2, <1>4, <1>5
        <2> QED BY <1>2, <2>1 DEF PrePrecedes
    <1>6. CASE i > Len(t)
        <2>1. i \in 1..Len(s) /\ i = Len(t) + 1
            BY <1>1, <1>2, <1>4, <1>6
        <2> QED BY <1>2, <2>1 DEF PrePrecedes
    <1>7. CASE i <= Len(s) /\ i <= Len(t)
        <2>1. i \in 1..Len(s) /\ i \in 1..Len(t) /\ s[i] # t[i]
            BY <1>1, <1>2, <1>7 DEF Differ
        <2>2. s[i] \in Part /\ t[i] \in Part
            BY <1>1, <2>1
        <2>3. PartPrecedes(s[i], t[i]) \/ PartPrecedes(t[i], s[i])
            BY <2>1, <2>2, PartTotal
        <2> QED BY <1>2, <2>1, <2>3 DEF PrePrecedes
    <1> QED BY <1>1, <1>2, <1>5, <1>6, <1>7

\* Of two versions one is older: no two are left apart by compareVersions.
LEMMA PrecedenceTotal ==
    ASSUME NEW a \in Version, NEW b \in Version, a # b
    PROVE  Precedes(a, b) \/ Precedes(b, a)
    <1>1. /\ a.core \in [1..3 -> Nat] /\ b.core \in [1..3 -> Nat]
          /\ a.pre \in Seq(Part) /\ b.pre \in Seq(Part)
        BY DEF Version
    <1>2. CASE a.core # b.core
        <2> DEFINE i == FirstDifference(a.core, b.core)
        <2>1. DifferFirst(a.core, b.core, i) /\ Len(a.core) = 3 /\ Len(b.core) = 3
            BY <1>1, <1>2, CoreTyped, FirstDifferenceIs
        <2> HIDE DEF i
        <2>2. i \in 1..3 /\ a.core[i] # b.core[i] /\ \A j \in 1..(i - 1) : a.core[j] = b.core[j]
            BY <2>1 DEF DifferFirst, Differ
        <2>3. a.core[i] \in Nat /\ b.core[i] \in Nat
            BY <1>1, <2>2
        <2>4. a.core[i] < b.core[i] \/ b.core[i] < a.core[i]
            BY <2>2, <2>3
        <2>5. CorePrecedes(a.core, b.core) \/ CorePrecedes(b.core, a.core)
            BY <2>2, <2>4 DEF CorePrecedes
        <2> QED BY <2>5 DEF Precedes
    <1>3. CASE a.core = b.core
        <2>1. a.pre # b.pre
            BY <1>3 DEF Version
        <2>2. PrePrecedes(a.pre, b.pre) \/ PrePrecedes(b.pre, a.pre)
            BY <1>1, <2>1, PreTotal
        <2> QED BY <1>3, <2>1, <2>2 DEF Precedes
    <1> QED BY <1>2, <1>3

\* compareVersions is a strict total order of the versions, the one of semantic
\* versions (catalog/semver.ts: compareVersions).
THEOREM VersionsAreOrdered ==
    ASSUME NEW a \in Version, NEW b \in Version, NEW c \in Version
    PROVE  /\ CompareVersions(a, b) > 0 <=> Precedes(b, a)
           /\ ~Precedes(a, a)
           /\ Precedes(a, b) /\ Precedes(b, c) => Precedes(a, c)
           /\ a # b => Precedes(a, b) \/ Precedes(b, a)
    BY ComparedByPrecedence, PrecedenceIrreflexive, PrecedenceTransitive, PrecedenceTotal

-----------------------------------------------------------------------------
(* pickLatest, one release after the other. *)

Better(r, best, channel, none) ==
    /\ Offered(r, channel)
    /\ best = none \/ CompareVersions(r.version, best.version) > 0

\* best says what the first 0..n releases leave.
Picks(best, releases, channel, none, n) ==
    best = [k \in 0..n |->
                IF k = 0 THEN none
                ELSE IF Better(releases[k], best[k - 1], channel, none)
                     THEN releases[k] ELSE best[k - 1]]

\* A step from n to n + 1 is enough: there is no least number without S.
LEMMA NaturalsBySteps ==
    ASSUME NEW S \in SUBSET Nat, 0 \in S, \A n \in S : n + 1 \in S
    PROVE  S = Nat
    <1> SUFFICES ASSUME Nat \ S # {} PROVE FALSE
        OBVIOUS
    <1>1. PICK m \in Nat \ S : \A n \in Nat \ S : m <= n
        BY LeastNumber
    <1>2. m # 0 /\ m - 1 \in Nat
        BY <1>1
    <1>3. m - 1 \in S
        BY <1>1, <1>2
    <1>4. m - 1 + 1 = m
        BY <1>2
    <1> QED BY <1>1, <1>3, <1>4

LEMMA PicksExist ==
    ASSUME NEW releases, NEW channel, NEW none
    PROVE  \A n \in Nat : \E best : Picks(best, releases, channel, none, n)
    <1> DEFINE S == {n \in Nat : \E best : Picks(best, releases, channel, none, n)}
    <1>1. 0 \in S
        <2> DEFINE f == [k \in 0..0 |-> none]
        <2>1. Picks(f, releases, channel, none, 0)
            BY DEF Picks
        <2> QED BY <2>1
    <1>2. ASSUME NEW n \in S PROVE n + 1 \in S
        <2>1. n \in Nat
            OBVIOUS
        <2>2. PICK g : Picks(g, releases, channel, none, n)
            OBVIOUS
        <2> DEFINE last == IF Better(releases[n + 1], g[n], channel, none)
                           THEN releases[n + 1] ELSE g[n]
                   f == [k \in 0..(n + 1) |-> IF k = n + 1 THEN last ELSE g[k]]
        <2>3. g = [k \in 0..n |-> IF k = 0 THEN none
                        ELSE IF Better(releases[k], g[k - 1], channel, none)
                             THEN releases[k] ELSE g[k - 1]]
            BY <2>2 DEF Picks
        <2>4. \A k \in 0..n : g[k] = IF k = 0 THEN none
                        ELSE IF Better(releases[k], g[k - 1], channel, none)
                             THEN releases[k] ELSE g[k - 1]
            BY <2>3
        <2> HIDE DEF last
        <2>5. f[n + 1] = last /\ \A k \in 0..n : f[k] = g[k]
            BY <2>1
        <2>6. ASSUME NEW k \in 0..(n + 1)
              PROVE  f[k] = IF k = 0 THEN none
                        ELSE IF Better(releases[k], f[k - 1], channel, none)
                             THEN releases[k] ELSE f[k - 1]
            <3> HIDE DEF f
            <3>1. CASE k = 0
                <4>1. k \in 0..n
                    BY <2>1, <3>1
                <4> QED BY <2>4, <2>5, <3>1, <4>1
            <3>2. CASE k # 0 /\ k # n + 1
                <4>1. k \in 0..n /\ k - 1 \in 0..n
                    BY <2>1, <3>2
                <4> QED BY <2>4, <2>5, <3>2, <4>1
            <3>3. CASE k = n + 1
                <4>1. k # 0 /\ k - 1 = n /\ n \in 0..n
                    BY <2>1, <3>3
                <4> QED BY <2>5, <3>3, <4>1 DEF last
            <3> QED BY <3>1, <3>2, <3>3
        <2>7. f = [k \in 0..(n + 1) |-> IF k = 0 THEN none
                        ELSE IF Better(releases[k], f[k - 1], channel, none)
                             THEN releases[k] ELSE f[k - 1]]
            <3> DEFINE e == [k \in 0..(n + 1) |-> IF k = 0 THEN none
                        ELSE IF Better(releases[k], f[k - 1], channel, none)
                             THEN releases[k] ELSE f[k - 1]]
            <3>1. \A k \in 0..(n + 1) : f[k] = e[k]
                BY <2>6
            <3>2. f = [k \in 0..(n + 1) |-> f[k]] /\ e = [k \in 0..(n + 1) |-> e[k]]
                OBVIOUS
            <3> HIDE DEF f, e
            <3>3. f = e
                BY <3>1, <3>2
            <3> QED BY <3>3 DEF e
        <2> HIDE DEF f
        <2>8. Picks(f, releases, channel, none, n + 1)
            BY <2>7 DEF Picks
        <2> QED BY <2>1, <2>8
    <1> HIDE DEF S
    <1>3. S \in SUBSET Nat
        BY DEF S
    <1>4. S = Nat
        BY <1>1, <1>2, <1>3, NaturalsBySteps
    <1> QED BY <1>4 DEF S

\* What the recursive function of pickLatest is.
LEMMA PickUnfolds ==
    ASSUME NEW releases, NEW channel, NEW none, Len(releases) \in Nat
    PROVE  \E best : /\ Picks(best, releases, channel, none, Len(releases))
                     /\ PickLatest(releases, channel, none) = best[Len(releases)]
    <1> DEFINE f == CHOOSE best : Picks(best, releases, channel, none, Len(releases))
    <1>1. Picks(f, releases, channel, none, Len(releases))
        BY PicksExist
    <1>2. PickLatest(releases, channel, none) = f[Len(releases)]
        BY DEF PickLatest, Picks, Better
    <1> QED BY <1>1, <1>2

\* o is the newest of the first n releases that the channel offers, or none.
NewestOfFirst(o, releases, channel, none, n) ==
    \/ /\ o = none
       /\ \A j \in 1..n : ~Offered(releases[j], channel)
    \/ \E i \in 1..n :
          /\ o = releases[i] /\ Offered(releases[i], channel)
          /\ \A j \in 1..n : Offered(releases[j], channel) =>
                ~Precedes(releases[i].version, releases[j].version)

LEMMA NewestStep ==
    ASSUME NEW R, NEW none, none \notin R, \A r \in R : r.version \in Version, NEW channel,
           NEW releases \in Seq(R), NEW n \in Nat, n + 1 <= Len(releases), NEW o,
           NewestOfFirst(o, releases, channel, none, n)
    PROVE  NewestOfFirst(IF Better(releases[n + 1], o, channel, none) THEN releases[n + 1] ELSE o,
                         releases, channel, none, n + 1)
    <1> DEFINE x == releases[n + 1]
    <1>0. Len(releases) \in Nat
        OBVIOUS
    <1>1. /\ n + 1 \in 1..(n + 1) /\ \A j \in 1..(n + 1) : j \in 1..n \/ j = n + 1
          /\ \A j \in 1..n : j \in 1..(n + 1)
          /\ \A j \in 1..(n + 1) : j \in 1..Len(releases)
        BY <1>0
    <1>2. \A j \in 1..(n + 1) : releases[j] \in R /\ releases[j].version \in Version
        BY <1>1
    <1>3. CASE Better(x, o, channel, none)
        <2>1. Offered(x, channel)
            BY <1>3 DEF Better
        <2>2. ASSUME NEW j \in 1..(n + 1), Offered(releases[j], channel)
              PROVE  ~Precedes(x.version, releases[j].version)
            <3>1. CASE j = n + 1
                BY <1>1, <1>2, <3>1, PrecedenceIrreflexive
            <3>2. CASE j \in 1..n
                <4>1. PICK i \in 1..n : /\ o = releases[i]
                                        /\ \A k \in 1..n : Offered(releases[k], channel) =>
                                             ~Precedes(releases[i].version, releases[k].version)
                    BY <2>2, <3>2 DEF NewestOfFirst
                <4>2. i \in 1..(n + 1) /\ releases[i] \in R /\ o # none /\ o.version \in Version
                    BY <1>1, <1>2, <4>1
                <4>3. x.version \in Version /\ releases[j].version \in Version
                    BY <1>1, <1>2
                <4>4. CompareVersions(x.version, o.version) > 0
                    BY <1>3, <4>2 DEF Better
                <4>5. Precedes(o.version, x.version)
                    BY <4>2, <4>3, <4>4, ComparedByPrecedence
                <4>6. ~Precedes(o.version, releases[j].version)
                    BY <2>2, <3>2, <4>1
                <4> QED BY <4>2, <4>3, <4>5, <4>6, PrecedenceTransitive
            <3> QED BY <1>1, <3>1, <3>2
        <2> QED BY <1>1, <1>3, <2>1, <2>2 DEF NewestOfFirst
    <1>4. CASE ~Better(x, o, channel, none)
        <2>1. CASE o = none /\ \A j \in 1..n : ~Offered(releases[j], channel)
            <3>1. ~Offered(x, channel)
                BY <1>4, <2>1 DEF Better
            <3> QED BY <1>1, <1>4, <2>1, <3>1 DEF NewestOfFirst
        <2>2. ASSUME NEW i \in 1..n, o = releases[i], Offered(releases[i], channel),
                     \A j \in 1..n : Offered(releases[j], channel) =>
                         ~Precedes(releases[i].version, releases[j].version)
              PROVE  NewestOfFirst(o, releases, channel, none, n + 1)
            <3>1. i \in 1..(n + 1) /\ o.version \in Version /\ x.version \in Version
                BY <1>1, <1>2, <2>2
            <3>2. Offered(x, channel) => ~Precedes(o.version, x.version)
                BY <1>4, <3>1, ComparedByPrecedence DEF Better
            <3>3. \A j \in 1..(n + 1) : Offered(releases[j], channel) =>
                      ~Precedes(releases[i].version, releases[j].version)
                BY <1>1, <2>2, <3>2
            <3> QED BY <2>2, <3>1, <3>3 DEF NewestOfFirst
        <2> QED BY <1>4, <2>1, <2>2 DEF NewestOfFirst
    <1> QED BY <1>3, <1>4

\* pickLatest finds, of any releases in any order, one that the channel offers
\* and no other is newer than, if it offers one at all.
LEMMA PicksNewest ==
    ASSUME NEW R, NEW none, none \notin R, \A r \in R : r.version \in Version, NEW channel,
           NEW releases \in Seq(R)
    PROVE  NewestOfFirst(PickLatest(releases, channel, none), releases, channel, none, Len(releases))
    <1>0. Len(releases) \in Nat
        OBVIOUS
    <1>1. PICK best : /\ Picks(best, releases, channel, none, Len(releases))
                      /\ PickLatest(releases, channel, none) = best[Len(releases)]
        BY <1>0, PickUnfolds
    <1>2. \A k \in 0..Len(releases) :
              best[k] = IF k = 0 THEN none
                        ELSE IF Better(releases[k], best[k - 1], channel, none)
                             THEN releases[k] ELSE best[k - 1]
        <2>1. best = [k \in 0..Len(releases) |->
                        IF k = 0 THEN none
                        ELSE IF Better(releases[k], best[k - 1], channel, none)
                             THEN releases[k] ELSE best[k - 1]]
            BY <1>1 DEF Picks
        <2> QED BY <2>1
    <1> DEFINE S == {n \in Nat : n <= Len(releases) =>
                        NewestOfFirst(best[n], releases, channel, none, n)}
    <1>3. 0 \in S
        <2>1. best[0] = none
            BY <1>0, <1>2
        <2>2. NewestOfFirst(none, releases, channel, none, 0)
            BY DEF NewestOfFirst
        <2> QED BY <2>1, <2>2
    <1>4. ASSUME NEW n \in S PROVE n + 1 \in S
        <2>0. n \in Nat /\ n + 1 \in Nat
            OBVIOUS
        <2> SUFFICES ASSUME n + 1 <= Len(releases)
                     PROVE  NewestOfFirst(best[n + 1], releases, channel, none, n + 1)
            BY <2>0
        <2>1. NewestOfFirst(best[n], releases, channel, none, n)
            BY <1>0, <2>0
        <2>2. n + 1 \in 0..Len(releases) /\ n + 1 # 0 /\ n + 1 - 1 = n
            BY <1>0, <2>0
        <2>3. best[n + 1] = IF Better(releases[n + 1], best[n], channel, none)
                            THEN releases[n + 1] ELSE best[n]
            BY <1>2, <2>2
        <2> QED BY <2>0, <2>1, <2>3, NewestStep
    <1> HIDE DEF S
    <1>5. S \in SUBSET Nat
        BY DEF S
    <1>6. S = Nat
        BY <1>3, <1>4, <1>5, NaturalsBySteps
    <1>7. Len(releases) \in S /\ Len(releases) <= Len(releases)
        BY <1>0, <1>6
    <1> QED BY <1>1, <1>7 DEF S

-----------------------------------------------------------------------------
(* What the operators return. *)

LEMMA RequestKinds ==
    ASSUME NEW r \in Request
    PROVE  /\ r.at \in {"idle", "product", "plan", "planSaved", "values", "entitlement",
                        "upload", "stored", "removing", "release"}
           /\ r.at = "product" => r.product \in Product
           /\ r.at = "plan" => r.product \in Product /\ r.plan \in Plan
           /\ r.at = "planSaved" => r.plan \in Plan
           /\ r.at = "values" => r.plan \in Plan /\ r.entitlement \in Definition \cup {None}
           /\ r.at = "entitlement" => r.entitlement \in Definition
           /\ r.at = "upload" => r.version \in Numbers
           /\ r.at = "stored" => r.version \in Numbers /\ r.build \in Builds
           /\ r.at = "removing" => r.build \in Builds
           /\ r.at = "release" => r.build \in Builds /\ r.row \in Row
    BY DEF Request

LEMMA DirtyProduct ==
    ASSUME NEW row \in Product, NEW copy \in Product, NEW new \in Product
    PROVE  /\ Dirty(row, copy, new) \in Product
           /\ Dirty(row, copy, new).status = IF new.status # copy.status THEN new.status ELSE row.status
           /\ Dirty(row, copy, new).slug = IF new.slug # copy.slug THEN new.slug ELSE row.slug
    BY DEF Dirty, Product

LEMMA DirtyPlan ==
    ASSUME NEW row \in Plan, NEW copy \in Plan, NEW new \in Plan
    PROVE  Dirty(row, copy, new) \in Plan
    BY DEF Dirty, Plan

LEMMA DirtyRow ==
    ASSUME NEW row \in Row, NEW copy \in Row, NEW new \in Row
    PROVE  /\ Dirty(row, copy, new) \in Row
           /\ Dirty(row, copy, new).status = IF new.status # copy.status THEN new.status ELSE row.status
    BY DEF Dirty, Row

LEMMA CoerceTyped ==
    ASSUME NEW type \in Types, NEW text \in Texts
    PROVE  Coerce(type, [type |-> "string", text |-> text]) \in Value \cup {None}
    BY DEF Coerce, Types, Value

LEMMA ShapedTyped ==
    ASSUME NEW copy \in Plan, NEW shape \in Shape
    PROVE  /\ Shaped(copy, shape) \in Plan
           /\ PlanShape(shape) => PlanShape(Shaped(copy, shape))
    BY DEF Shaped, Plan, Shape, PlanShape

LEMMA TypedTyped ==
    ASSUME NEW definition \in Definition \cup {None}
    PROVE  Typed(definition) \subseteq Value \cup {None}
    BY CoerceTyped DEF Typed, Definition

LEMMA NoRowTyped == NoRow \in Row /\ NoRow.status = "none"
    BY NumbersAssumption DEF NoRow, Row

-----------------------------------------------------------------------------
(* The first state. *)

LEMMA InitInv == Init => CatInv
    <1> SUFFICES ASSUME Init PROVE CatInv
        OBVIOUS
    <1>1. product \in Product
        BY IdsAssumption DEF Init, Product
    <1>2. plan \in Plan
        <2>1. PICK shape \in {s \in Shapes : PlanShape(s)} :
                  plan = Shaped([archived |-> FALSE, value |-> None], shape)
            BY DEF Init
        <2> QED BY <2>1, ShapesAssumption DEF Shaped, Shape, Plan
    <1>3. entitlement \in Definition \cup {None}
        BY IdsAssumption DEF Init, Definition
    <1>4. PICK shipped \in {{}, {CHOOSE b \in Builds : TRUE}}, v \in Numbers :
              /\ disk = shipped
              /\ release = [b \in Builds |-> IF b \in shipped
                     THEN [status |-> "published", version |-> v, channel |-> "stable", dated |-> TRUE]
                     ELSE NoRow]
        BY DEF Init
    <1>5. release \in [Builds -> Row] /\ disk \in SUBSET Builds
        BY <1>4, NoRowTyped, IdsAssumption DEF Row
    <1>6. Released = disk
        BY <1>4, <1>5, NoRowTyped DEF Released
    <1>7. desk \in [Desks -> Request] /\ \A d \in Desks : desk[d].at = "idle"
        BY DEF Init, Idle, Request
    <1>8. TypeOK
        <2>1. left = {} /\ requests = 0
            BY DEF Init
        <2>2. left \in SUBSET Builds /\ requests \in 0..MaxRequests
            BY <2>1, RequestsAssumption
        <2> QED BY <1>1, <1>2, <1>3, <1>5, <1>7, <2>2 DEF TypeOK
    <1>9. Placed
        BY <1>6, <1>7 DEF Placed, BuildIsThere, StoredApart, RemovingGone
    <1> QED BY <1>8, <1>9 DEF CatInv

-----------------------------------------------------------------------------
(* Steps that leave the builds alone. *)

\* A request that has no build in hand, before and after, moves on.
LEMMA QuietPlaced ==
    ASSUME CatInv, NEW d \in Desks, NEW r \in Request, Goto(d, r),
           UNCHANGED <<release, disk, left>>,
           desk[d].at \notin {"stored", "removing"}, r.at \notin {"stored", "removing"},
           r.at = "release" => r.build \in Released
    PROVE  Placed'
    <1>1. desk \in [Desks -> Request] /\ desk' = [desk EXCEPT ![d] = r]
        BY DEF CatInv, TypeOK, Goto
    <1>2. \A e \in Desks : desk'[e] = IF e = d THEN r ELSE desk[e]
        BY <1>1
    <1>3. Released' = Released
        BY DEF Released
    <1>4. BuildIsThere'
        BY <1>2, <1>3 DEF CatInv, Placed, BuildIsThere
    <1>5. StoredApart'
        BY <1>2, <1>3 DEF CatInv, Placed, StoredApart, Holds
    <1>6. RemovingGone'
        BY <1>2, <1>3 DEF CatInv, Placed, RemovingGone
    <1> QED BY <1>4, <1>5, <1>6 DEF Placed

LEMMA IdleTyped == Idle \in Request /\ Idle.at = "idle"
    BY DEF Idle, Request

LEMMA QuietStep ==
    ASSUME CatInv, NEW d \in Desks, NEW r \in Request, Goto(d, r),
           UNCHANGED <<release, disk, left>>,
           desk[d].at \notin {"stored", "removing"}, r.at \notin {"stored", "removing"},
           r.at = "release" => r.build \in Released,
           product' \in Product, plan' \in Plan, entitlement' \in Definition \cup {None},
           requests' \in 0..MaxRequests
    PROVE  CatInv'
    <1>1. TypeOK'
        BY DEF CatInv, TypeOK, Goto
    <1>2. Placed'
        BY QuietPlaced
    <1> QED BY <1>1, <1>2 DEF CatInv

LEMMA BeginTyped ==
    ASSUME CatInv, NEW d \in Desks, NEW r, Begin(d, r)
    PROVE  Goto(d, r) /\ desk[d].at = "idle" /\ requests' \in 0..MaxRequests
    BY RequestsAssumption DEF Begin, CatInv, TypeOK

LEMMA ProductSteps ==
    ASSUME CatInv, NEW d \in Desks, EditProduct(d)
    PROVE  CatInv'
    <1>1. CASE OpenProduct(d)
        <2> DEFINE r == [at |-> "product", product |-> product]
        <2>1. r \in Request /\ r.at = "product"
            BY DEF Request, CatInv, TypeOK
        <2>2. Goto(d, r) /\ desk[d].at = "idle" /\ requests' \in 0..MaxRequests
            BY <1>1, BeginTyped DEF OpenProduct
        <2> HIDE DEF r
        <2> QED BY <1>1, <2>1, <2>2, QuietStep DEF OpenProduct, CatInv, TypeOK
    <1>2. CASE SaveProduct(d)
        <2>1. desk[d].product \in Product
            BY <1>2, RequestKinds DEF SaveProduct, CatInv, TypeOK
        <2>2. product' \in Product
            BY <1>2, <2>1, DirtyProduct DEF SaveProduct, CatInv, TypeOK
        <2> QED BY <1>2, <2>2, IdleTyped, QuietStep DEF SaveProduct, CatInv, TypeOK
    <1> QED BY <1>1, <1>2 DEF EditProduct

LEMMA PlanSteps ==
    ASSUME CatInv, NEW d \in Desks, EditPlan(d)
    PROVE  CatInv'
    <1> USE DEF CatInv, TypeOK
    <1>1. CASE OpenPlan(d)
        <2> DEFINE r == [at |-> "plan", product |-> product, plan |-> plan]
        <2>1. r \in Request /\ r.at = "plan"
            BY DEF Request
        <2>2. Goto(d, r) /\ desk[d].at = "idle" /\ requests' \in 0..MaxRequests
            BY <1>1, BeginTyped DEF OpenPlan
        <2> HIDE DEF r
        <2> QED BY <1>1, <2>1, <2>2, QuietStep DEF OpenPlan
    <1>2. CASE UpdatePlan(d)
        <2>1. desk[d].plan \in Plan
            BY <1>2, RequestKinds DEF UpdatePlan
        <2>2. PICK shape \in Shapes :
                  /\ plan' = Dirty(plan, desk[d].plan, Shaped(desk[d].plan, shape))
                  /\ Goto(d, [at |-> "planSaved", plan |-> Shaped(desk[d].plan, shape)])
            BY <1>2 DEF UpdatePlan
        <2>3. Shaped(desk[d].plan, shape) \in Plan
            BY <2>1, ShapedTyped, ShapesAssumption
        <2> DEFINE r == [at |-> "planSaved", plan |-> Shaped(desk[d].plan, shape)]
        <2>4. r \in Request /\ r.at = "planSaved"
            BY <2>3 DEF Request
        <2>5. plan' \in Plan
            BY <2>1, <2>2, <2>3, DirtyPlan
        <2>6. Goto(d, r)
            BY <2>2
        <2> HIDE DEF r
        <2> QED BY <1>2, <2>4, <2>5, <2>6, QuietStep DEF UpdatePlan
    <1>3. CASE SetPlanArchived(d)
        <2>1. desk[d].plan \in Plan
            BY <1>3, RequestKinds DEF SetPlanArchived
        <2>2. [desk[d].plan EXCEPT !.archived = ~@] \in Plan
            BY <2>1 DEF Plan
        <2>3. plan' \in Plan
            BY <1>3, <2>1, <2>2, DirtyPlan DEF SetPlanArchived
        <2> QED BY <1>3, <2>3, IdleTyped, QuietStep DEF SetPlanArchived
    <1>4. CASE ReadDefinitions(d)
        <2> DEFINE r == [at |-> "values", plan |-> desk[d].plan, entitlement |-> entitlement]
        <2>1. desk[d].plan \in Plan
            BY <1>4, RequestKinds DEF ReadDefinitions
        <2>2. r \in Request /\ r.at = "values"
            BY <2>1 DEF Request
        <2>3. Goto(d, r)
            BY <1>4 DEF ReadDefinitions
        <2> HIDE DEF r
        <2> QED BY <1>4, <2>2, <2>3, QuietStep DEF ReadDefinitions
    <1>5. CASE SaveValues(d)
        <2>1. desk[d].plan \in Plan /\ desk[d].entitlement \in Definition \cup {None}
            BY <1>5, RequestKinds DEF SaveValues
        <2>2. PICK value \in Typed(desk[d].entitlement) :
                  plan' = Dirty(plan, desk[d].plan, [desk[d].plan EXCEPT !.value = value])
            BY <1>5 DEF SaveValues
        <2>3. value \in Value \cup {None}
            BY <2>1, TypedTyped
        <2>4. [desk[d].plan EXCEPT !.value = value] \in Plan
            BY <2>1, <2>3 DEF Plan
        <2>5. plan' \in Plan
            BY <2>1, <2>2, <2>4, DirtyPlan
        <2> QED BY <1>5, <2>5, IdleTyped, QuietStep DEF SaveValues
    <1> QED BY <1>1, <1>2, <1>3, <1>4, <1>5 DEF EditPlan

LEMMA EntitlementSteps ==
    ASSUME CatInv, NEW d \in Desks, EditEntitlement(d)
    PROVE  CatInv'
    <1> USE DEF CatInv, TypeOK
    <1>1. CASE OpenEntitlement(d)
        <2> DEFINE r == [at |-> "entitlement", entitlement |-> entitlement]
        <2>1. r \in Request /\ r.at = "entitlement"
            BY <1>1 DEF Request, OpenEntitlement
        <2>2. Goto(d, r) /\ desk[d].at = "idle" /\ requests' \in 0..MaxRequests
            BY <1>1, BeginTyped DEF OpenEntitlement
        <2> HIDE DEF r
        <2> QED BY <1>1, <2>1, <2>2, QuietStep DEF OpenEntitlement
    <1>2. CASE DeleteEntitlement(d)
        <2>1. plan' \in Plan
            BY <1>2 DEF DeleteEntitlement, Plan
        <2>2. entitlement' \in Definition \cup {None}
            BY <1>2 DEF DeleteEntitlement
        <2> QED BY <1>2, <2>1, <2>2, IdleTyped, QuietStep DEF DeleteEntitlement
    <1> QED BY <1>1, <1>2 DEF EditEntitlement

LEMMA CreateEntitlementStep ==
    ASSUME CatInv, NEW id \in Definitions, NEW type \in Types, CreateEntitlement(id, type)
    PROVE  CatInv'
    <1>1. TypeOK'
        BY RequestsAssumption DEF CreateEntitlement, CatInv, TypeOK, Definition
    <1>2. Placed'
        BY DEF CreateEntitlement, CatInv, Placed, BuildIsThere, StoredApart, RemovingGone, Released, Holds
    <1> QED BY <1>1, <1>2 DEF CatInv

-----------------------------------------------------------------------------
(* Steps of releases. *)

LEMMA OpenSteps ==
    ASSUME CatInv, NEW d \in Desks,
           \/ \E v \in Numbers : BeginUpload(d, v)
           \/ \E b \in Builds : OpenRelease(d, b)
    PROVE  CatInv'
    <1> USE DEF CatInv, TypeOK
    <1>1. CASE \E v \in Numbers : BeginUpload(d, v)
        <2>1. PICK v \in Numbers : BeginUpload(d, v)
            BY <1>1
        <2> DEFINE r == [at |-> "upload", version |-> v]
        <2>2. r \in Request /\ r.at = "upload"
            BY DEF Request
        <2>3. Goto(d, r) /\ desk[d].at = "idle" /\ requests' \in 0..MaxRequests
            BY <2>1, BeginTyped DEF BeginUpload
        <2> HIDE DEF r
        <2> QED BY <2>1, <2>2, <2>3, QuietStep DEF BeginUpload
    <1>2. CASE \E b \in Builds : OpenRelease(d, b)
        <2>1. PICK b \in Builds : OpenRelease(d, b)
            BY <1>2
        <2> DEFINE r == [at |-> "release", build |-> b, row |-> release[b]]
        <2>2. r \in Request /\ r.at = "release" /\ r.build = b
            BY DEF Request
        <2>3. Goto(d, r) /\ desk[d].at = "idle" /\ requests' \in 0..MaxRequests
            BY <2>1, BeginTyped DEF OpenRelease
        <2>4. b \in Released
            BY <2>1 DEF OpenRelease
        <2> HIDE DEF r
        <2> QED BY <2>1, <2>2, <2>3, <2>4, QuietStep DEF OpenRelease
    <1> QED BY <1>1, <1>2

LEMMA MoveBuildStep ==
    ASSUME CatInv, NEW d \in Desks, MoveBuild(d)
    PROVE  CatInv'
    <1>1. PICK b \in Builds \ (Released \cup disk) :
              /\ \A e \in Desks : ~Holds(e, b)
              /\ disk' = disk \cup {b}
              /\ Goto(d, [at |-> "stored", version |-> desk[d].version, build |-> b])
        BY DEF MoveBuild
    <1> DEFINE r == [at |-> "stored", version |-> desk[d].version, build |-> b]
    <1>2. desk[d].at = "upload" /\ desk[d].version \in Numbers
        BY RequestKinds DEF MoveBuild, CatInv, TypeOK
    <1>3. r \in Request /\ r.at = "stored" /\ r.build = b
        BY <1>2 DEF Request
    <1> HIDE DEF r
    <1>4. desk \in [Desks -> Request] /\ desk' = [desk EXCEPT ![d] = r]
        BY <1>1 DEF CatInv, TypeOK, Goto, r
    <1>5. \A e \in Desks : desk'[e] = IF e = d THEN r ELSE desk[e]
        BY <1>4
    <1>6. TypeOK'
        BY <1>1, <1>3, <1>4 DEF MoveBuild, CatInv, TypeOK
    <1>7. Released' = Released
        BY DEF Released, MoveBuild
    <1>8. BuildIsThere'
        BY <1>1, <1>2, <1>3, <1>5, <1>7 DEF CatInv, Placed, BuildIsThere, MoveBuild
    <1>9. StoredApart'
        BY <1>1, <1>2, <1>3, <1>5, <1>7 DEF CatInv, Placed, StoredApart, Holds
    <1>10. RemovingGone'
        BY <1>3, <1>5, <1>7 DEF CatInv, Placed, RemovingGone
    <1> QED BY <1>6, <1>8, <1>9, <1>10 DEF CatInv, Placed

LEMMA CreateReleaseStep ==
    ASSUME CatInv, NEW d \in Desks, NEW channel \in {"stable", "beta"}, CreateRelease(d, channel)
    PROVE  CatInv'
    <1> DEFINE b == desk[d].build
               row == [status |-> "draft", version |-> desk[d].version, channel |-> channel, dated |-> FALSE]
    <1>1. desk[d].at = "stored" /\ b \in Builds /\ desk[d].version \in Numbers
        BY RequestKinds DEF CreateRelease, CatInv, TypeOK
    <1>2. row \in Row /\ row.status = "draft"
        BY <1>1 DEF Row
    <1>3. release \in [Builds -> Row] /\ release' = [release EXCEPT ![b] = row]
        BY DEF CreateRelease, CatInv, TypeOK
    <1> HIDE DEF row
    <1>4. \A e \in Desks : desk'[e] = IF e = d THEN Idle ELSE desk[e]
        BY DEF CreateRelease, Goto, CatInv, TypeOK
    <1>5. TypeOK'
        BY <1>1, <1>2, <1>3, IdleTyped DEF CreateRelease, Goto, CatInv, TypeOK
    <1>6. Released' = Released \cup {b}
        BY <1>1, <1>2, <1>3 DEF Released
    <1>7. b \in disk /\ \A e \in Desks \ {d} : ~Holds(e, b)
        BY <1>1 DEF CatInv, Placed, StoredApart
    <1>8. BuildIsThere'
        BY <1>1, <1>4, <1>6, <1>7, IdleTyped DEF CatInv, Placed, BuildIsThere, CreateRelease
    <1>9. StoredApart'
        BY <1>4, <1>6, <1>7, IdleTyped DEF CatInv, Placed, StoredApart, Holds, CreateRelease
    <1>10. RemovingGone'
        BY <1>4, <1>6, <1>7, IdleTyped DEF CatInv, Placed, RemovingGone, Holds
    <1> QED BY <1>5, <1>8, <1>9, <1>10 DEF CatInv, Placed

LEMMA RefuseReleaseStep ==
    ASSUME CatInv, NEW d \in Desks, RefuseRelease(d)
    PROVE  CatInv'
    <1> DEFINE b == desk[d].build
               r == [at |-> "removing", build |-> b]
    <1>1. desk[d].at = "stored" /\ b \in Builds
        BY RequestKinds DEF RefuseRelease, CatInv, TypeOK
    <1>2. r \in Request /\ r.at = "removing" /\ r.build = b
        BY <1>1 DEF Request
    <1>3. desk' = [desk EXCEPT ![d] = r]
        BY DEF RefuseRelease, Goto
    <1> HIDE DEF r
    <1>4. \A e \in Desks : desk'[e] = IF e = d THEN r ELSE desk[e]
        BY <1>3 DEF CatInv, TypeOK
    <1>5. TypeOK'
        BY <1>2, <1>3 DEF RefuseRelease, CatInv, TypeOK
    <1>6. Released' = Released
        BY DEF Released, RefuseRelease
    <1>7. BuildIsThere'
        BY <1>1, <1>2, <1>4, <1>6 DEF CatInv, Placed, BuildIsThere, RefuseRelease
    <1>8. StoredApart'
        BY <1>1, <1>2, <1>4, <1>6 DEF CatInv, Placed, StoredApart, Holds, RefuseRelease
    <1>9. RemovingGone'
        BY <1>1, <1>2, <1>4, <1>6 DEF CatInv, Placed, RemovingGone, StoredApart
    <1> QED BY <1>5, <1>7, <1>8, <1>9 DEF CatInv, Placed

LEMMA RemoveBuildStep ==
    ASSUME CatInv, NEW d \in Desks, RemoveBuild(d)
    PROVE  CatInv'
    <1> DEFINE b == desk[d].build
    <1>1. desk[d].at = "removing" /\ b \in Builds
        BY RequestKinds DEF RemoveBuild, CatInv, TypeOK
    <1>2. \A e \in Desks : desk'[e] = IF e = d THEN Idle ELSE desk[e]
        BY DEF RemoveBuild, Goto, CatInv, TypeOK
    <1>3. TypeOK'
        BY IdleTyped DEF RemoveBuild, Goto, CatInv, TypeOK
    <1>4. Released' = Released /\ b \notin Released
        BY <1>1 DEF Released, RemoveBuild, CatInv, Placed, RemovingGone
    <1>5. BuildIsThere'
        BY <1>1, <1>2, <1>4, IdleTyped DEF CatInv, Placed, BuildIsThere, RemoveBuild
    <1>6. StoredApart'
        <2> SUFFICES ASSUME NEW e \in Desks, desk'[e].at = "stored"
                     PROVE  /\ desk'[e].build \in disk' \ Released'
                            /\ \A f \in Desks \ {e} : ~Holds(f, desk[e].build)' /\ desk'[e] = desk[e]
            BY <1>2, IdleTyped DEF StoredApart, Holds
        <2>1. e # d /\ desk'[e] = desk[e]
            BY <1>2, IdleTyped
        <2>2. desk[e].build # b
            BY <1>1, <2>1 DEF CatInv, Placed, StoredApart, Holds
        <2> QED BY <1>2, <1>4, <2>1, <2>2, IdleTyped DEF CatInv, Placed, StoredApart, Holds, RemoveBuild
    <1>7. RemovingGone'
        BY <1>2, <1>4, IdleTyped DEF CatInv, Placed, RemovingGone
    <1> QED BY <1>3, <1>5, <1>6, <1>7 DEF CatInv, Placed

\* An UPDATE of a row that is there leaves the same rows there.
LEMMA SaveReleaseStep ==
    ASSUME CatInv, NEW d \in Desks, desk[d].at = "release",
           NEW new \in Row, new.status # "none", SaveRelease(d, new)
    PROVE  CatInv'
    <1> DEFINE b == desk[d].build
    <1>1. b \in Builds /\ desk[d].row \in Row
        BY RequestKinds DEF CatInv, TypeOK
    <1>2. release \in [Builds -> Row]
        BY DEF CatInv, TypeOK
    <1>3. release' \in [Builds -> Row] /\ Released' = Released
        <2>1. CASE b \in Released
            <3> DEFINE saved == Dirty(release[b], desk[d].row, new)
            <3>1. saved \in Row /\ saved.status # "none"
                BY <1>1, <1>2, <2>1, DirtyRow DEF Released
            <3>2. release' = [release EXCEPT ![b] = saved]
                BY <2>1 DEF SaveRelease
            <3> HIDE DEF saved
            <3> QED BY <1>1, <1>2, <2>1, <3>1, <3>2 DEF Released
        <2>2. CASE b \notin Released
            BY <1>2, <2>2 DEF SaveRelease, Released
        <2> QED BY <2>1, <2>2
    <1>4. \A e \in Desks : desk'[e] = IF e = d THEN Idle ELSE desk[e]
        BY DEF SaveRelease, Goto, CatInv, TypeOK
    <1>5. TypeOK'
        BY <1>3, IdleTyped DEF SaveRelease, Goto, CatInv, TypeOK
    <1>6. BuildIsThere'
        BY <1>3, <1>4, IdleTyped DEF CatInv, Placed, BuildIsThere, SaveRelease
    <1>7. StoredApart'
        BY <1>3, <1>4, IdleTyped DEF CatInv, Placed, StoredApart, Holds, SaveRelease
    <1>8. RemovingGone'
        BY <1>3, <1>4, IdleTyped DEF CatInv, Placed, RemovingGone
    <1> QED BY <1>5, <1>6, <1>7, <1>8 DEF CatInv, Placed

LEMMA ChangeSteps ==
    ASSUME CatInv, NEW d \in Desks, Publish(d) \/ Yank(d)
    PROVE  CatInv'
    <1>1. desk[d].at = "release" /\ desk[d].row \in Row
        BY RequestKinds DEF Publish, Yank, CatInv, TypeOK
    <1>2. CASE Publish(d)
        <2> DEFINE new == [desk[d].row EXCEPT !.status = "published", !.dated = TRUE]
        <2>1. new \in Row /\ new.status = "published"
            BY <1>1 DEF Row
        <2>2. SaveRelease(d, new)
            BY <1>2 DEF Publish
        <2> HIDE DEF new
        <2> QED BY <1>1, <2>1, <2>2, SaveReleaseStep
    <1>3. CASE Yank(d)
        <2> DEFINE new == [desk[d].row EXCEPT !.status = "yanked"]
        <2>1. new \in Row /\ new.status = "yanked"
            BY <1>1 DEF Row
        <2>2. SaveRelease(d, new)
            BY <1>3 DEF Yank
        <2> HIDE DEF new
        <2> QED BY <1>1, <2>1, <2>2, SaveReleaseStep
    <1> QED BY <1>2, <1>3

LEMMA DiscardStep ==
    ASSUME CatInv, NEW d \in Desks, Discard(d)
    PROVE  CatInv'
    <1> DEFINE b == desk[d].build
               r == [at |-> "removing", build |-> b]
    <1>1. desk[d].at = "release" /\ b \in Builds
        BY RequestKinds DEF Discard, CatInv, TypeOK
    <1>2. r \in Request /\ r.at = "removing" /\ r.build = b
        BY <1>1 DEF Request
    <1>3. desk' = [desk EXCEPT ![d] = r] /\ release' = [release EXCEPT ![b] = NoRow]
        BY DEF Discard, Goto
    <1> HIDE DEF r
    <1>4. \A e \in Desks : desk'[e] = IF e = d THEN r ELSE desk[e]
        BY <1>3 DEF CatInv, TypeOK
    <1>5. TypeOK'
        BY <1>2, <1>3, NoRowTyped DEF Discard, CatInv, TypeOK
    <1>6. Released' = Released \ {b}
        BY <1>1, <1>3, NoRowTyped DEF Released, CatInv, TypeOK
    <1>7. BuildIsThere'
        BY <1>1, <1>2, <1>4, <1>6 DEF CatInv, Placed, BuildIsThere, Discard
    <1>8. StoredApart'
        BY <1>1, <1>2, <1>4, <1>6 DEF CatInv, Placed, StoredApart, Holds, Discard
    <1>9. RemovingGone'
        BY <1>1, <1>2, <1>4, <1>6 DEF CatInv, Placed, RemovingGone
    <1> QED BY <1>5, <1>7, <1>8, <1>9 DEF CatInv, Placed

LEMMA LeaveStep ==
    ASSUME CatInv, NEW d \in Desks, Leave(d)
    PROVE  CatInv'
    <1>1. \A e \in Desks : desk'[e] = IF e = d THEN Idle ELSE desk[e]
        BY DEF Leave, Goto, CatInv, TypeOK
    <1>2. TypeOK'
        BY IdleTyped, RequestKinds DEF Leave, Goto, CatInv, TypeOK
    <1>3. Released' = Released
        BY DEF Released, Leave
    <1>4. BuildIsThere'
        BY <1>1, <1>3, IdleTyped DEF CatInv, Placed, BuildIsThere, Leave
    <1>5. StoredApart'
        BY <1>1, <1>3, IdleTyped DEF CatInv, Placed, StoredApart, Holds, Leave
    <1>6. RemovingGone'
        BY <1>1, <1>3, IdleTyped DEF CatInv, Placed, RemovingGone
    <1> QED BY <1>2, <1>4, <1>5, <1>6 DEF CatInv, Placed

-----------------------------------------------------------------------------
(* The invariant, and what follows from it. *)

LEMMA NextInv == CatInv /\ [Next]_vars => CatInv'
    <1> SUFFICES ASSUME CatInv, [Next]_vars PROVE CatInv'
        OBVIOUS
    <1>1. ASSUME NEW d \in Desks, EditProduct(d) PROVE CatInv'
        BY <1>1, ProductSteps
    <1>2. ASSUME NEW d \in Desks, EditPlan(d) PROVE CatInv'
        BY <1>2, PlanSteps
    <1>3. ASSUME NEW d \in Desks, EditEntitlement(d) PROVE CatInv'
        BY <1>3, EntitlementSteps
    <1>4. ASSUME NEW d \in Desks, EditRelease(d) PROVE CatInv'
        BY <1>4, OpenSteps, MoveBuildStep, CreateReleaseStep, RefuseReleaseStep,
           RemoveBuildStep, ChangeSteps, DiscardStep DEF EditRelease
    <1>5. ASSUME NEW d \in Desks, Leave(d) PROVE CatInv'
        BY <1>5, LeaveStep
    <1>6. ASSUME NEW id \in Definitions, NEW type \in Types, CreateEntitlement(id, type) PROVE CatInv'
        BY <1>6, CreateEntitlementStep
    <1>7. CASE UNCHANGED vars
        BY <1>7 DEF vars, CatInv, TypeOK, Placed, BuildIsThere, StoredApart, RemovingGone, Released, Holds
    <1> QED BY <1>1, <1>2, <1>3, <1>4, <1>5, <1>6, <1>7 DEF Next

\* The inductive invariant holds in every reachable state.
THEOREM Invariant == Spec => []CatInv
    <1>1. Init => CatInv
        BY InitInv
    <1>2. CatInv /\ [Next]_vars => CatInv'
        BY NextInv
    <1> QED BY <1>1, <1>2, PTL DEF Spec

\* Types: values are stored as what their definitions say (coerceEntitlementValue).
THEOREM CatalogTypes == Spec => []TypeOK
    <1>1. CatInv => TypeOK
        BY DEF CatInv
    <1> QED BY <1>1, Invariant, PTL

\* A release has its build, and a build without a release is in some request's
\* hands or was left behind (ReleaseService.upload and discard).
THEOREM ReleasesHaveBuilds == Spec => []BuildIsThere
    <1>1. CatInv => BuildIsThere
        BY DEF CatInv, Placed
    <1> QED BY <1>1, Invariant, PTL

\* Draft is decided on a copy, but a save that writes it also needs the copy to
\* be of another status, and then the copy was a draft (CatalogService.updateProduct).
THEOREM NoWayBack == Spec => NeverBackToDraft
    <1> DEFINE A == product.status # "draft" => product'.status # "draft"
    <1>1. CatInv /\ [Next]_vars => [A]_vars
        <2> SUFFICES ASSUME CatInv, Next PROVE A
            OBVIOUS
        <2>1. ASSUME NEW d \in Desks, SaveProduct(d) PROVE A
            <3>1. desk[d].product \in Product /\ product \in Product
                BY <2>1, RequestKinds DEF SaveProduct, CatInv, TypeOK
            <3>2. PICK new \in Product :
                      /\ new.status = "draft" => desk[d].product.status = "draft"
                      /\ product' = Dirty(product, desk[d].product, new)
                BY <2>1 DEF SaveProduct
            <3> QED BY <3>1, <3>2, DirtyProduct
        <2>2. ASSUME UNCHANGED product PROVE A
            BY <2>2
        <2>3. \/ \E d \in Desks : SaveProduct(d)
              \/ UNCHANGED product
            BY DEF Next, EditProduct, OpenProduct, EditPlan, OpenPlan, UpdatePlan, SetPlanArchived,
               ReadDefinitions, SaveValues, EditEntitlement, OpenEntitlement, DeleteEntitlement,
               CreateEntitlement, EditRelease, BeginUpload, MoveBuild, CreateRelease, RefuseRelease,
               RemoveBuild, OpenRelease, SaveRelease, Publish, Yank, Discard, Leave
        <2> QED BY <2>1, <2>2, <2>3
    <1> QED BY <1>1, Invariant, PTL DEF Spec, NeverBackToDraft

-----------------------------------------------------------------------------
(* What has shipped is permanent while no request works on an old copy. *)

\* What is or was published has its date, in the rows and in the copies.
Shipped(row) == row.status \in {"published", "yanked"}
Dated ==
    /\ \A b \in Builds : Shipped(release[b]) => release[b].dated
    /\ \A d \in Desks : desk[d].at = "release" =>
          /\ Shipped(desk[d].row) => desk[d].row.dated
          /\ desk[d].row.dated /\ desk[d].build \in Released => release[desk[d].build].dated

\* Nothing but a save changes a column.
LEMMA DirtyRowDated ==
    ASSUME NEW row \in Row, NEW copy \in Row, NEW new \in Row
    PROVE  Dirty(row, copy, new).dated = IF new.dated # copy.dated THEN new.dated ELSE row.dated
    BY DEF Dirty, Row

\* A request goes on without touching the rows.
LEMMA DatedKept ==
    ASSUME CatInv, Dated, NEW d \in Desks, NEW r \in Request, Goto(d, r), UNCHANGED release,
           r.at = "release" =>
               /\ Shipped(r.row) => r.row.dated
               /\ r.row.dated /\ r.build \in Released => release[r.build].dated
    PROVE  Dated'
    <1>1. \A e \in Desks : desk'[e] = IF e = d THEN r ELSE desk[e]
        BY DEF CatInv, TypeOK, Goto
    <1>2. Released' = Released
        BY DEF Released
    <1> QED BY <1>1, <1>2 DEF Dated

\* A save of a release: it keeps the date it has.
LEMMA DatedSaved ==
    ASSUME CatInv, Dated, NEW d \in Desks, desk[d].at = "release", NEW new \in Row,
           SaveRelease(d, new), desk[d].row.dated => new.dated, Shipped(new), new.dated
    PROVE  Dated'
    <1> DEFINE b == desk[d].build
               copy == desk[d].row
    <1>1. b \in Builds /\ copy \in Row /\ release[b] \in Row
        BY RequestKinds DEF CatInv, TypeOK
    <1>2. \A e \in Desks : desk'[e] = IF e = d THEN Idle ELSE desk[e]
        BY DEF SaveRelease, Goto, CatInv, TypeOK
    <1>3. \A e \in Desks : desk[e].at = "release" => desk[e].build \in Builds
        BY RequestKinds DEF CatInv, TypeOK
    <1>4. CASE b \in Released
        <2>1. /\ release'[b] = Dirty(release[b], copy, new)
              /\ \A c \in Builds : c # b => release'[c] = release[c]
            BY <1>1, <1>4 DEF SaveRelease, CatInv, TypeOK
        <2>2. copy.dated => release[b].dated
            BY <1>4 DEF Dated
        <2>3. release'[b].dated
            BY <1>1, <2>1, <2>2, DirtyRowDated DEF Row
        <2>4. \A c \in Released' : c \in Released
            BY <1>4, <2>1 DEF Released
        <2> QED BY <1>1, <1>2, <1>3, <2>1, <2>3, <2>4, IdleTyped DEF Dated
    <1>5. CASE b \notin Released
        <2>1. release' = release /\ Released' = Released
            BY <1>5 DEF SaveRelease, Released
        <2> QED BY <1>2, <2>1, IdleTyped DEF Dated
    <1> QED BY <1>4, <1>5

LEMMA DatedNext == CatInv /\ Dated /\ [Next]_vars => Dated'
    <1> SUFFICES ASSUME CatInv, Dated, [Next]_vars PROVE Dated'
        OBVIOUS
    <1>0. /\ desk \in [Desks -> Request] /\ release \in [Builds -> Row]
          /\ product \in Product /\ plan \in Plan /\ entitlement \in Definition \cup {None}
        BY DEF CatInv, TypeOK
    <1>1. ASSUME NEW d \in Desks, EditProduct(d) \/ EditPlan(d) \/ EditEntitlement(d) \/ Leave(d)
          PROVE  Dated'
        <2>1. UNCHANGED release
            BY <1>1 DEF EditProduct, OpenProduct, SaveProduct, EditPlan, OpenPlan, UpdatePlan,
               SetPlanArchived, ReadDefinitions, SaveValues, EditEntitlement, OpenEntitlement,
               DeleteEntitlement, Leave
        <2>2. \A e \in Desks : desk'[e].at = "release" => desk'[e] = desk[e]
            BY <1>0, <1>1, IdleTyped DEF EditProduct, OpenProduct, SaveProduct, EditPlan, OpenPlan, UpdatePlan,
               SetPlanArchived, ReadDefinitions, SaveValues, EditEntitlement, OpenEntitlement,
               DeleteEntitlement, Leave, Begin, Goto
        <2>3. Released' = Released
            BY <2>1 DEF Released
        <2> QED BY <2>1, <2>2, <2>3 DEF Dated
    <1>2. ASSUME NEW d \in Desks, EditRelease(d) PROVE Dated'
        <2>1. CASE \/ \E v \in Numbers : BeginUpload(d, v)
                   \/ MoveBuild(d) \/ RefuseRelease(d) \/ RemoveBuild(d)
            <3>1. UNCHANGED release
                BY <2>1 DEF BeginUpload, MoveBuild, RefuseRelease, RemoveBuild
            <3>2. \A e \in Desks : desk'[e].at = "release" => desk'[e] = desk[e]
                BY <1>0, <2>1, IdleTyped DEF BeginUpload, MoveBuild, RefuseRelease, RemoveBuild, Begin, Goto
            <3>3. Released' = Released
                BY <3>1 DEF Released
            <3> QED BY <3>1, <3>2, <3>3 DEF Dated
        <2>2. ASSUME NEW channel \in {"stable", "beta"}, CreateRelease(d, channel) PROVE Dated'
            <3> DEFINE b == desk[d].build
                       row == [status |-> "draft", version |-> desk[d].version,
                               channel |-> channel, dated |-> FALSE]
            <3>1. desk[d].at = "stored" /\ b \in Builds /\ b \notin Released
                BY <1>0, <2>2, RequestKinds DEF CreateRelease, CatInv, Placed, StoredApart
            <3>2. /\ release'[b] = row /\ \A c \in Builds : c # b => release'[c] = release[c]
                  /\ \A e \in Desks : desk'[e] = IF e = d THEN Idle ELSE desk[e]
                BY <1>0, <2>2, <3>1 DEF CreateRelease, Goto
            <3>3. \A e \in Desks : desk'[e].at = "release" =>
                        desk'[e] = desk[e] /\ desk[e].build # b /\ desk[e].build \in Builds
                BY <1>0, <3>1, <3>2, IdleTyped, RequestKinds DEF CatInv, Placed, StoredApart, Holds
            <3>4. \A c \in Builds : c # b => (c \in Released' <=> c \in Released)
                BY <3>2 DEF Released
            <3>5. ~Shipped(row)
                BY DEF Shipped
            <3> HIDE DEF row
            <3> QED BY <3>2, <3>3, <3>4, <3>5 DEF Dated
        <2>3. ASSUME NEW b \in Builds, OpenRelease(d, b) PROVE Dated'
            <3> DEFINE r == [at |-> "release", build |-> b, row |-> release[b]]
            <3>1. r \in Request /\ r.build = b /\ r.row = release[b]
                BY <1>0 DEF Request
            <3>2. Goto(d, r) /\ UNCHANGED release
                BY <2>3 DEF OpenRelease, Begin
            <3>3. Shipped(release[b]) => release[b].dated
                BY DEF Dated
            <3> HIDE DEF r
            <3> QED BY <3>1, <3>2, <3>3, DatedKept
        <2>4. CASE Publish(d)
            <3> DEFINE new == [desk[d].row EXCEPT !.status = "published", !.dated = TRUE]
            <3>1. desk[d].at = "release" /\ SaveRelease(d, new) /\ desk[d].row \in Row
                BY <1>0, <2>4, RequestKinds DEF Publish
            <3>2. new \in Row /\ new.dated /\ Shipped(new)
                BY <3>1 DEF Row, Shipped
            <3> HIDE DEF new
            <3> QED BY <3>1, <3>2, DatedSaved
        <2>5. CASE Yank(d)
            <3> DEFINE new == [desk[d].row EXCEPT !.status = "yanked"]
            <3>1. /\ desk[d].at = "release" /\ SaveRelease(d, new) /\ desk[d].row \in Row
                  /\ desk[d].row.dated
                BY <1>0, <2>5, RequestKinds DEF Yank, Dated, Shipped
            <3>2. new \in Row /\ new.dated /\ Shipped(new)
                BY <3>1 DEF Row, Shipped
            <3> HIDE DEF new
            <3> QED BY <3>1, <3>2, DatedSaved
        <2>6. CASE Discard(d)
            <3> DEFINE b == desk[d].build
            <3>1. desk[d].at = "release" /\ b \in Builds
                BY <1>0, <2>6, RequestKinds DEF Discard
            <3>2. /\ release'[b] = NoRow /\ \A c \in Builds : c # b => release'[c] = release[c]
                  /\ \A e \in Desks : desk'[e].at = "release" => desk'[e] = desk[e]
                BY <1>0, <2>6, <3>1 DEF Discard, Goto
            <3>3. \A c \in Released' : c \in Released /\ c # b
                BY <3>2, NoRowTyped DEF Released
            <3>4. ~Shipped(NoRow)
                BY NoRowTyped DEF Shipped
            <3>5. \A e \in Desks : desk[e].at = "release" => desk[e].build \in Builds
                BY <1>0, RequestKinds
            <3> QED BY <3>2, <3>3, <3>4, <3>5 DEF Dated
        <2> QED BY <1>2, <2>1, <2>2, <2>3, <2>4, <2>5, <2>6 DEF EditRelease
    <1>3. CASE \/ \E id \in Definitions, type \in Types : CreateEntitlement(id, type)
               \/ UNCHANGED vars
        <2>1. UNCHANGED <<desk, release>>
            BY <1>3 DEF CreateEntitlement, vars
        <2> QED BY <2>1 DEF Dated, Released
    <1> QED BY <1>1, <1>2, <1>3 DEF Next

LEMMA DatedInit == Init => Dated
    <1> SUFFICES ASSUME Init PROVE Dated
        OBVIOUS
    <1>1. \A d \in Desks : desk[d].at = "idle"
        BY DEF Init, Idle
    <1>2. \A b \in Builds : Shipped(release[b]) => release[b].dated
        BY NoRowTyped DEF Init, Shipped
    <1> QED BY <1>1, <1>2 DEF Dated

-----------------------------------------------------------------------------
(* What a channel offers. *)

\* An order of a finite set lists all of it.
LEMMA OrdersListAll ==
    ASSUME NEW S, IsFiniteSet(S), NEW order \in SetToSeqs(S)
    PROVE  order \in Seq(S) /\ \A s \in S : \E i \in 1..Len(order) : order[i] = s
    <1> DEFINE D == 1..Cardinality(S)
    <1>1. Cardinality(S) \in Nat
        BY FS_CardinalityType
    <1>2. order \in [D -> S] /\ \A i, j \in D : i # j => order[i] # order[j]
        BY DEF SetToSeqs
    <1>3. order \in Injection(D, S)
        BY <1>2 DEF Injection, IsInjective
    <1>4. Cardinality(D) = Cardinality(S)
        BY <1>1, FS_Interval
    <1>5. order \in Surjection(D, S)
        BY <1>3, <1>4, FS_Injection
    <1>6. order \in Seq(S)
        BY <1>1, <1>2, SeqDef
    <1>7. 1..Len(order) = D
        BY <1>2, <1>6, LenProperties
    <1> QED BY <1>5, <1>6, <1>7 DEF Surjection

\* A step adds no more than one release.
LEMMA OneReleaseAStep ==
    ASSUME CatInv, [Next]_vars
    PROVE  \E b : Released' \subseteq Released \cup {b}
    <1>0. release \in [Builds -> Row]
        BY DEF CatInv, TypeOK
    <1>1. ASSUME UNCHANGED release PROVE Released' = Released
        BY <1>1 DEF Released
    <1>2. ASSUME NEW b, NEW row, release' = [release EXCEPT ![b] = row]
          PROVE  Released' \subseteq Released \cup {b}
        BY <1>0, <1>2 DEF Released
    <1>3. ASSUME NEW d \in Desks, EditProduct(d) \/ EditPlan(d) \/ EditEntitlement(d) \/ Leave(d)
          PROVE  UNCHANGED release
        BY <1>3 DEF EditProduct, OpenProduct, SaveProduct, EditPlan, OpenPlan, UpdatePlan,
           SetPlanArchived, ReadDefinitions, SaveValues, EditEntitlement, OpenEntitlement,
           DeleteEntitlement, Leave
    <1>4. ASSUME NEW d \in Desks, EditRelease(d)
          PROVE  UNCHANGED release \/ \E row : release' = [release EXCEPT ![desk[d].build] = row]
        <2>1. CASE \/ \E v \in Numbers : BeginUpload(d, v)
                   \/ \E b \in Builds : OpenRelease(d, b)
                   \/ MoveBuild(d) \/ RefuseRelease(d) \/ RemoveBuild(d)
            BY <2>1 DEF BeginUpload, OpenRelease, MoveBuild, RefuseRelease, RemoveBuild
        <2>2. CASE \E channel \in {"stable", "beta"} : CreateRelease(d, channel)
            BY <2>2 DEF CreateRelease
        <2>3. CASE Publish(d) \/ Yank(d)
            BY <2>3 DEF Publish, Yank, SaveRelease
        <2>4. CASE Discard(d)
            BY <2>4 DEF Discard
        <2> QED BY <1>4, <2>1, <2>2, <2>3, <2>4 DEF EditRelease
    <1>5. CASE \/ \E id \in Definitions, type \in Types : CreateEntitlement(id, type)
               \/ UNCHANGED vars
        BY <1>1, <1>5 DEF CreateEntitlement, vars
    <1> QED BY <1>1, <1>2, <1>3, <1>4, <1>5 DEF Next

LEMMA FiniteNext == CatInv /\ IsFiniteSet(Released) /\ [Next]_vars => IsFiniteSet(Released')
    <1> SUFFICES ASSUME CatInv, IsFiniteSet(Released), [Next]_vars PROVE IsFiniteSet(Released')
        OBVIOUS
    <1>1. PICK b : Released' \subseteq Released \cup {b}
        BY OneReleaseAStep
    <1>2. IsFiniteSet(Released \cup {b})
        BY FS_AddElement
    <1> QED BY <1>1, <1>2, FS_Subset

LEMMA FiniteInit == Init => IsFiniteSet(Released)
    <1> SUFFICES ASSUME Init PROVE IsFiniteSet(Released)
        OBVIOUS
    <1> DEFINE one == CHOOSE b \in Builds : TRUE
    <1>1. Released \subseteq {one}
        BY NoRowTyped DEF Init, Released
    <1>2. IsFiniteSet({one})
        BY FS_Singleton
    <1> QED BY <1>1, <1>2, FS_Subset

LEMMA RowsListed ==
    ASSUME CatInv, IsFiniteSet(Released)
    PROVE  Rows \subseteq Listed /\ IsFiniteSet(Rows)
    <1>1. \A b \in Released : ListedAs(b) \in Listed
        BY DEF CatInv, TypeOK, Released, Row, ListedAs, Listed
    <1> DEFINE f == [b \in Released |-> ListedAs(b)]
    <1>2. f \in Surjection(Released, Rows)
        BY DEF Surjection, Rows
    <1>3. IsFiniteSet(Rows)
        BY <1>2, FS_Surjection
    <1> QED BY <1>1, <1>3 DEF Rows

LEMMA OfferHolds ==
    ASSUME CatInv, Dated, IsFiniteSet(Released)
    PROVE  OfferIsNewest
    <1> SUFFICES ASSUME NEW channel \in {"stable", "beta"}, NEW order \in SetToSeqs(Rows),
                        product.status # "draft",
                        {r \in Rows : Offered(r, channel)} # {}
                 PROVE  LET offer == Offer(order, channel)
                            candidates == {r \in Rows : Offered(r, channel)}
                        IN  /\ offer \in candidates /\ offer.dated /\ offer.build \in disk
                            /\ \A r \in candidates : ~Precedes(offer.version, r.version)
        BY DEF OfferIsNewest
    <1> DEFINE offer == Offer(order, channel)
    <1>1. Rows \subseteq Listed /\ IsFiniteSet(Rows)
        BY RowsListed
    <1>2. order \in Seq(Rows) /\ \A r \in Rows : \E i \in 1..Len(order) : order[i] = r
        BY <1>1, OrdersListAll
    <1>3. None \notin Rows /\ \A r \in Rows : r.version \in Version
        BY <1>1, NoneAssumption, NumbersAssumption DEF Listed
    <1>4. offer = PickLatest(order, channel, None)
        BY DEF Offer
    <1> HIDE DEF offer
    <1>5. NewestOfFirst(offer, order, channel, None, Len(order))
        BY <1>2, <1>3, <1>4, PicksNewest
    <1>6. PICK j \in 1..Len(order) : Offered(order[j], channel)
        BY <1>2
    <1>7. PICK i \in 1..Len(order) :
              /\ offer = order[i] /\ Offered(order[i], channel)
              /\ \A k \in 1..Len(order) : Offered(order[k], channel) =>
                    ~Precedes(order[i].version, order[k].version)
        BY <1>5, <1>6 DEF NewestOfFirst
    <1>8. offer \in Rows
        BY <1>2, <1>7
    <1>9. \A r \in Rows : Offered(r, channel) => ~Precedes(offer.version, r.version)
        BY <1>2, <1>7
    <1>10. PICK b \in Released : offer = ListedAs(b)
        BY <1>8 DEF Rows
    <1>11. offer.status = "published"
        BY <1>7 DEF Offered
    <1>12. offer.build = b /\ offer.status = release[b].status /\ offer.dated = release[b].dated
        BY <1>10 DEF ListedAs
    <1>13. b \in Builds /\ b \in disk
        BY DEF Released, CatInv, Placed, BuildIsThere
    <1>14. offer.dated
        BY <1>11, <1>12, <1>13 DEF Dated, Shipped
    <1> QED BY <1>7, <1>8, <1>9, <1>12, <1>13, <1>14 DEF offer

\* What a channel offers is the newest of its published releases, whatever
\* order the rows are read in, and has its date and its build
\* (release_service.ts: pickLatest and releaseAccess; semver.ts).
THEOREM NewestIsOffered == Spec => []OfferIsNewest
    <1> DEFINE Finite == IsFiniteSet(Released)
    <1>1. Init => Dated /\ Finite
        BY DatedInit, FiniteInit
    <1>2. CatInv /\ (Dated /\ Finite) /\ [Next]_vars => (Dated /\ Finite)'
        BY DatedNext, FiniteNext
    <1>3. CatInv /\ (Dated /\ Finite) => OfferIsNewest
        BY OfferHolds
    <1> HIDE DEF Finite
    <1> QED BY <1>1, <1>2, <1>3, Invariant, PTL DEF Spec

-----------------------------------------------------------------------------
(* The saves of a request whose copies are not outdated. *)

\* A save through a copy that is what the row says writes what it was asked to.
LEMMA DirtyFresh ==
    ASSUME NEW C, NEW row, NEW new, DOMAIN row = C, new = [c \in C |-> new[c]]
    PROVE  Dirty(row, row, new) = new
    BY DEF Dirty

LEMMA FreshPlan ==
    ASSUME NEW row \in Plan, NEW new \in Plan
    PROVE  Dirty(row, row, new) = new
    <1>1. DOMAIN row = DOMAIN new /\ new = [c \in DOMAIN new |-> new[c]]
        BY DEF Plan
    <1> QED BY <1>1, DirtyFresh

LEMMA FreshProduct ==
    ASSUME NEW row \in Product, NEW new \in Product
    PROVE  Dirty(row, row, new) = new
    <1>1. DOMAIN row = DOMAIN new /\ new = [c \in DOMAIN new |-> new[c]]
        BY DEF Product
    <1> QED BY <1>1, DirtyFresh

LEMMA FreshRow ==
    ASSUME NEW row \in Row, NEW new \in Row
    PROVE  Dirty(row, row, new) = new
    <1>1. DOMAIN row = DOMAIN new /\ new = [c \in DOMAIN new |-> new[c]]
        BY DEF Row
    <1> QED BY <1>1, DirtyFresh

LEMMA TypedOfType ==
    ASSUME NEW definition \in Definition, NEW value \in Typed(definition), value # None
    PROVE  value.type = definition.type
    <1>1. PICK text \in Texts :
              value = Coerce(definition.type, [type |-> "string", text |-> text])
        BY NoneAssumption DEF Typed, Definition
    <1> QED BY <1>1 DEF Coerce

\* A release that shipped stays as it is but for being published and withdrawn,
\* when the request that saves it holds the row as it is.
LEMMA ShippedStays ==
    ASSUME CatInv, Dated, NEW d \in Desks, EditRelease(d), ~Outdated(d),
           NEW b \in Builds, Shipped(release[b])
    PROVE  \E status \in {"published", "yanked"} :
               release'[b] = [release[b] EXCEPT !.status = status]
    <1>0. desk \in [Desks -> Request] /\ release \in [Builds -> Row] /\ release[b] \in Row
        BY DEF CatInv, TypeOK
    <1>1. CASE release'[b] = release[b]
        <2>1. release[b] = [release[b] EXCEPT !.status = release[b].status]
            BY <1>0 DEF Row
        <2> QED BY <1>1, <2>1 DEF Shipped
    <1>2. ASSUME desk[d].at = "release", NEW status \in {"published", "yanked"}, NEW new \in Row,
                 SaveRelease(d, new),
                 desk[d].build = b => new = [release[b] EXCEPT !.status = status]
          PROVE  release'[b] \in {release[b], [release[b] EXCEPT !.status = status]}
        <2>1. CASE desk[d].build = b
            <3>1. b \in Released /\ desk[d].row = release[b]
                BY <1>2, <2>1 DEF Shipped, Released, Outdated
            <3>2. release'[b] = Dirty(release[b], release[b], new)
                BY <1>0, <1>2, <2>1, <3>1 DEF SaveRelease
            <3> QED BY <1>0, <1>2, <2>1, <3>2, FreshRow
        <2>2. CASE desk[d].build # b
            BY <1>0, <1>2, <2>2 DEF SaveRelease
        <2> QED BY <2>1, <2>2
    <1>3. ASSUME desk[d].at = "release"
          PROVE  /\ desk[d].row \in Row
                 /\ desk[d].build = b => desk[d].row = release[b] /\ desk[d].row.dated
        BY <1>0, <1>3, RequestKinds DEF Outdated, Dated
    <1>4. CASE Publish(d)
        <2> DEFINE new == [desk[d].row EXCEPT !.status = "published", !.dated = TRUE]
        <2>1. desk[d].at = "release" /\ SaveRelease(d, new)
            BY <1>4 DEF Publish
        <2>2. new \in Row
            BY <1>3, <2>1 DEF Row
        <2>3. desk[d].build = b => new = [release[b] EXCEPT !.status = "published"]
            BY <1>0, <1>3, <2>1 DEF Row
        <2> HIDE DEF new
        <2> QED BY <1>1, <1>2, <2>1, <2>2, <2>3
    <1>5. CASE Yank(d)
        <2> DEFINE new == [desk[d].row EXCEPT !.status = "yanked"]
        <2>1. desk[d].at = "release" /\ SaveRelease(d, new)
            BY <1>5 DEF Yank
        <2>2. new \in Row
            BY <1>3, <2>1 DEF Row
        <2>3. desk[d].build = b => new = [release[b] EXCEPT !.status = "yanked"]
            BY <1>3, <2>1
        <2> HIDE DEF new
        <2> QED BY <1>1, <1>2, <2>1, <2>2, <2>3
    <1>6. CASE Discard(d)
        <2>1. desk[d].at = "release" /\ desk[d].row.status = "draft"
            BY <1>6 DEF Discard
        <2>2. desk[d].build # b
            BY <1>3, <2>1 DEF Shipped
        <2> QED BY <1>0, <1>1, <1>6, <2>2 DEF Discard
    <1>7. ASSUME NEW channel \in {"stable", "beta"}, CreateRelease(d, channel)
          PROVE  release'[b] = release[b]
        <2>1. desk[d].build # b
            BY <1>7 DEF CreateRelease, CatInv, Placed, StoredApart, Released, Shipped
        <2> QED BY <1>0, <1>7, <2>1 DEF CreateRelease
    <1>8. CASE \/ \E v \in Numbers : BeginUpload(d, v)
               \/ \E c \in Builds : OpenRelease(d, c)
               \/ MoveBuild(d) \/ RefuseRelease(d) \/ RemoveBuild(d)
        BY <1>1, <1>8 DEF BeginUpload, OpenRelease, MoveBuild, RefuseRelease, RemoveBuild
    <1> QED BY <1>1, <1>4, <1>5, <1>6, <1>7, <1>8 DEF EditRelease

\* A plan saved through a copy that is what the row says, under a product that
\* is as the request saw it, keeps its promises, its sense and its definition.
LEMMA PlanStays ==
    ASSUME CatInv, NEW d \in Desks, EditPlan(d), ~Outdated(d)
    PROVE  /\ product.status # "draft" =>
                 plan'.billing = plan.billing /\ plan'.licenseTerm = plan.licenseTerm
           /\ PlanShape(plan) => PlanShape(plan')
           /\ ValueIsDefined => ValueIsDefined'
    <1>0. /\ desk[d] \in Request /\ plan \in Plan /\ entitlement \in Definition \cup {None}
          /\ entitlement' = entitlement
        BY DEF CatInv, TypeOK, EditPlan, OpenPlan, UpdatePlan, SetPlanArchived, ReadDefinitions, SaveValues
    <1>1. CASE OpenPlan(d) \/ ReadDefinitions(d)
        BY <1>0, <1>1 DEF OpenPlan, ReadDefinitions, ValueIsDefined
    <1>2. CASE UpdatePlan(d)
        <2>1. desk[d].at = "plan" /\ desk[d].plan = plan /\ desk[d].product = product
            BY <1>2 DEF UpdatePlan, Outdated
        <2>2. PICK shape \in Shapes :
                  /\ PlanShape(shape)
                  /\ product.status # "draft" =>
                         /\ Shaped(plan, shape).billing = plan.billing
                         /\ Shaped(plan, shape).licenseTerm = plan.licenseTerm
                  /\ plan' = Dirty(plan, plan, Shaped(plan, shape))
            BY <1>2, <2>1 DEF UpdatePlan
        <2>3. shape \in Shape
            BY ShapesAssumption
        <2>4. plan' = Shaped(plan, shape)
            BY <1>0, <2>2, <2>3, ShapedTyped, FreshPlan
        <2>5. PlanShape(plan')
            BY <1>0, <2>2, <2>3, <2>4, ShapedTyped
        <2>6. plan'.value = plan.value
            BY <2>4 DEF Shaped
        <2> QED BY <1>0, <2>2, <2>4, <2>5, <2>6 DEF ValueIsDefined
    <1>3. CASE SetPlanArchived(d)
        <2> DEFINE new == [plan EXCEPT !.archived = ~@]
        <2>1. plan' = Dirty(plan, plan, new)
            BY <1>3 DEF SetPlanArchived, Outdated
        <2>2. new \in Plan
            BY <1>0 DEF Plan
        <2>3. plan' = new
            BY <1>0, <2>1, <2>2, FreshPlan
        <2>4. /\ plan'.billing = plan.billing /\ plan'.licenseTerm = plan.licenseTerm
              /\ plan'.termDays = plan.termDays /\ plan'.updatesDays = plan.updatesDays
              /\ plan'.value = plan.value
            BY <1>0, <2>3 DEF Plan
        <2> QED BY <1>0, <2>4 DEF PlanShape, ValueIsDefined
    <1>4. CASE SaveValues(d)
        <2>1. /\ desk[d].at = "values" /\ desk[d].plan = plan /\ desk[d].entitlement = entitlement
            BY <1>4 DEF SaveValues, Outdated
        <2>2. PICK value \in Typed(entitlement) :
                  plan' = Dirty(plan, plan, [plan EXCEPT !.value = value])
            BY <1>4, <2>1 DEF SaveValues
        <2>3. value \in Value \cup {None}
            BY <1>0, TypedTyped
        <2>4. plan' = [plan EXCEPT !.value = value]
            <3>1. [plan EXCEPT !.value = value] \in Plan
                BY <1>0, <2>3 DEF Plan
            <3> QED BY <1>0, <2>2, <3>1, FreshPlan
        <2>5. /\ plan'.billing = plan.billing /\ plan'.licenseTerm = plan.licenseTerm
              /\ plan'.termDays = plan.termDays /\ plan'.updatesDays = plan.updatesDays
              /\ plan'.value = value
            BY <1>0, <2>4 DEF Plan
        <2>6. value # None => entitlement # None /\ value.type = entitlement.type
            <3>1. entitlement = None => value = None
                BY DEF Typed
            <3> QED BY <1>0, <3>1, TypedOfType
        <2> QED BY <1>0, <2>5, <2>6 DEF PlanShape, ValueIsDefined
    <1> QED BY <1>1, <1>2, <1>3, <1>4 DEF EditPlan

\* What has shipped is permanent, plans make sense and values have definitions,
\* as long as no request works on an outdated copy (PermanentUnlessOutdated).
THEOREM PermanentOnFreshCopies == Spec => PermanentUnlessOutdated
    <1> DEFINE Keeps ==
                   /\ product.status # "draft" =>
                         /\ product'.slug = product.slug
                         /\ <<plan'.billing, plan'.licenseTerm>> = <<plan.billing, plan.licenseTerm>>
                   /\ PlanShape(plan) => PlanShape(plan)'
                   /\ ValueIsDefined => ValueIsDefined'
                   /\ \A b \in Builds : release[b].status \in {"published", "yanked"} =>
                         \E status \in {"published", "yanked"} :
                             release'[b] = [release[b] EXCEPT !.status = status]
               A == (\A d \in Desks : ~Outdated(d)) => Keeps
    <1>1. CatInv /\ Dated /\ [Next]_vars => [A]_vars
        <2> SUFFICES ASSUME CatInv, Dated, Next, \A d \in Desks : ~Outdated(d) PROVE Keeps
            OBVIOUS
        <2>0. /\ product \in Product /\ plan \in Plan /\ release \in [Builds -> Row]
              /\ entitlement \in Definition \cup {None} /\ \A d \in Desks : desk[d] \in Request
            BY DEF CatInv, TypeOK
        <2>1. release' = release =>
                  \A b \in Builds : release[b].status \in {"published", "yanked"} =>
                      \E status \in {"published", "yanked"} :
                          release'[b] = [release[b] EXCEPT !.status = status]
            <3>1. \A b \in Builds : release[b] = [release[b] EXCEPT !.status = release[b].status]
                BY <2>0 DEF Row
            <3> QED BY <3>1
        <2>2. ASSUME NEW d \in Desks, EditProduct(d) PROVE Keeps
            <3>1. UNCHANGED <<plan, entitlement, release>>
                BY <2>2 DEF EditProduct, OpenProduct, SaveProduct
            <3>2. product.status # "draft" => product'.slug = product.slug
                <4>1. CASE OpenProduct(d)
                    BY <4>1 DEF OpenProduct
                <4>2. CASE SaveProduct(d)
                    <5>1. PICK new \in Product :
                              /\ new.slug # product.slug => product.status = "draft"
                              /\ product' = Dirty(product, product, new)
                        BY <4>2 DEF SaveProduct, Outdated
                    <5> QED BY <2>0, <5>1, FreshProduct
                <4> QED BY <2>2, <4>1, <4>2 DEF EditProduct
            <3> QED BY <2>1, <3>1, <3>2 DEF ValueIsDefined
        <2>3. ASSUME NEW d \in Desks, EditPlan(d) PROVE Keeps
            <3>1. UNCHANGED <<product, release>>
                BY <2>3 DEF EditPlan, OpenPlan, UpdatePlan, SetPlanArchived, ReadDefinitions, SaveValues
            <3> QED BY <2>1, <2>3, <3>1, PlanStays
        <2>4. ASSUME NEW d \in Desks, EditEntitlement(d) PROVE Keeps
            <3>1. UNCHANGED <<product, release>>
                BY <2>4 DEF EditEntitlement, OpenEntitlement, DeleteEntitlement
            <3>2. CASE OpenEntitlement(d)
                BY <2>1, <3>1, <3>2 DEF OpenEntitlement, ValueIsDefined
            <3>3. CASE DeleteEntitlement(d)
                <4>1. plan' = [plan EXCEPT !.value = None]
                    BY <3>3 DEF DeleteEntitlement
                <4>2. /\ plan'.billing = plan.billing /\ plan'.licenseTerm = plan.licenseTerm
                      /\ plan'.termDays = plan.termDays /\ plan'.updatesDays = plan.updatesDays
                      /\ plan'.value = None
                    BY <2>0, <4>1 DEF Plan
                <4> QED BY <2>1, <3>1, <4>2 DEF PlanShape, ValueIsDefined
            <3> QED BY <2>4, <3>2, <3>3 DEF EditEntitlement
        <2>5. ASSUME NEW d \in Desks, EditRelease(d) PROVE Keeps
            <3>1. UNCHANGED <<product, plan, entitlement>>
                BY <2>5 DEF EditRelease, BeginUpload, CreateRelease, OpenRelease, MoveBuild,
                   RefuseRelease, RemoveBuild, Publish, Yank, SaveRelease, Discard
            <3> QED BY <2>5, <3>1, ShippedStays DEF Shipped, ValueIsDefined
        <2>6. ASSUME NEW d \in Desks, Leave(d) PROVE Keeps
            <3>1. UNCHANGED <<product, plan, entitlement, release>>
                BY <2>6 DEF Leave
            <3> QED BY <2>1, <3>1 DEF ValueIsDefined
        <2>7. ASSUME NEW id \in Definitions, NEW type \in Types, CreateEntitlement(id, type) PROVE Keeps
            <3>1. UNCHANGED <<product, plan, release>> /\ entitlement = None
                BY <2>7 DEF CreateEntitlement
            <3> QED BY <2>1, <3>1 DEF ValueIsDefined
        <2> QED BY <2>2, <2>3, <2>4, <2>5, <2>6, <2>7 DEF Next
    <1> QED BY <1>1, Invariant, DatedInit, DatedNext, PTL DEF Spec, PermanentUnlessOutdated
=============================================================================
