-------------------------------- MODULE Versions --------------------------------
(***************************************************************************)
(* The order of versions (catalog/semver.ts) and the build it makes a      *)
(* channel offer (pickLatest of catalog/release_service.ts).               *)
(***************************************************************************)
EXTENDS Integers, Sequences, SequencesExt

\* A parsed version: major, minor and patch, and the parts of the pre-release;
\* a part is a number or a text, and texts are given by their rank.
Part == [text : BOOLEAN, value : Nat]
Version == [core : [1..3 -> Nat], pre : Seq(Part)]

Differ(s, t, i) == i > Len(s) \/ i > Len(t) \/ s[i] # t[i]
FirstDifference(s, t) ==
    CHOOSE i \in 1..Max({Len(s), Len(t)}) :
        Differ(s, t, i) /\ \A j \in 1..(i - 1) : ~Differ(s, t, j)

\* Mutant of CompareParts: numbers are compared as the texts they are written as.
ComparePartsAsText(l, r) ==
    LET Rank(p) == IF p.text \/ p.value < 10 THEN p.value ELSE p.value \div 10
    IN  Rank(l) - Rank(r)

\* A number is older than a text.
CompareParts(l, r) ==
    IF l.text = r.text THEN l.value - r.value ELSE IF r.text THEN -1 ELSE 1

\* Negative when a is older, positive when it is newer, zero when equal.
CompareVersions(a, b) ==
    IF a.core # b.core
    THEN LET i == FirstDifference(a.core, b.core) IN a.core[i] - b.core[i]
    ELSE IF a.pre = b.pre THEN 0
    ELSE IF a.pre = <<>> \/ b.pre = <<>> THEN Len(b.pre) - Len(a.pre)
    ELSE LET i == FirstDifference(a.pre, b.pre)
         IN  IF i > Len(a.pre) THEN -1
             ELSE IF i > Len(b.pre) THEN 1
             ELSE CompareParts(a.pre[i], b.pre[i])

\* The channel "beta" sees stable builds too.
Offered(release, channel) ==
    release.status = "published" /\ (channel = "beta" \/ release.channel = "stable")

\* The newest of the releases a channel offers, in the order they were read: the
\* best of the first n, one after the other.
PickLatest(releases, channel, None) ==
    LET best[n \in 0..Len(releases)] ==
            IF n = 0 THEN None
            ELSE IF /\ Offered(releases[n], channel)
                    /\ \/ best[n - 1] = None
                       \/ CompareVersions(releases[n].version, best[n - 1].version) > 0
                 THEN releases[n] ELSE best[n - 1]
    IN  best[Len(releases)]

-----------------------------------------------------------------------------
(* The reference: the precedence of semantic versions.  Of two cores, and of *)
(* two pre-releases, the one that has the smaller entry, or has ended, where *)
(* all before is equal, is older; and a pre-release is older than a release. *)

PartPrecedes(p, q) == (~p.text /\ q.text) \/ (p.text = q.text /\ p.value < q.value)

CorePrecedes(a, b) == \E i \in 1..3 : a[i] < b[i] /\ \A j \in 1..(i - 1) : a[j] = b[j]

PrePrecedes(s, t) ==
    \E i \in 1..Len(t) :
        /\ i = Len(s) + 1 \/ (i \in 1..Len(s) /\ PartPrecedes(s[i], t[i]))
        /\ \A j \in 1..(i - 1) : s[j] = t[j]

Precedes(a, b) ==
    \/ CorePrecedes(a.core, b.core)
    \/ /\ a.core = b.core
       /\ a.pre # <<>>
       /\ b.pre = <<>> \/ PrePrecedes(a.pre, b.pre)
=============================================================================
