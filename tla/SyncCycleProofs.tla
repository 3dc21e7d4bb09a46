--------------------------- MODULE SyncCycleProofs ---------------------------
(***************************************************************************)
(* What TLAPS proves of SyncCycle and of RootPull over it.  Four inductive *)
(* invariants, each on the one before it: CycleInv, that the tables, heads *)
(* and uploads are well-formed, whoever writes; OneWriterInv, that with    *)
(* one writer everything anyone knows is a copy of one of its revisions;   *)
(* RootInv, that what waits to be applied was shared; and SourceInv, that  *)
(* what followers of one source know came with whole manifests.            *)
(***************************************************************************)
EXTENDS RootPull, WellFoundedInduction, TLAPS

(* Every set of numbers has a least one, and a bounded one a greatest. *)
LEMMA LeastNumber ==
    ASSUME NEW S \in SUBSET Nat, S # {}
    PROVE  \E x \in S : \A y \in S : x <= y
  <1> DEFINE R == {ss \in Nat \X Nat : ss[1] < ss[2]}
  <1>1. IsWellFoundedOn(R, Nat)
    BY NatLessThanWellFounded DEF OpToRel
  <1>2. PICK x \in S : \A y \in S : <<y, x>> \notin R
    <2> HIDE DEF R
    <2> QED BY <1>1, WFMin
  <1>3. ASSUME NEW y \in S PROVE x <= y
    <2>1. x \in Nat /\ y \in Nat /\ ~(y < x)
      BY <1>2
    <2> HIDE DEF R
    <2> QED BY <2>1
  <1> QED BY <1>2, <1>3

LEMMA GreatestNumber ==
    ASSUME NEW S \in SUBSET Nat, S # {}, NEW n \in Nat, \A x \in S : x <= n
    PROVE  /\ Max(S) \in S
           /\ \A y \in S : y <= Max(S)
  <1> DEFINE T == {n - x : x \in S}
  <1>1. T \in SUBSET Nat /\ T # {}
    <2>1. \A x \in S : n - x \in Nat
      OBVIOUS
    <2>2. \A m \in T : m \in Nat
      BY <2>1
    <2>3. T # {}
      OBVIOUS
    <2> HIDE DEF T
    <2> QED BY <2>2, <2>3
  <1>2. PICK m \in T : \A k \in T : m <= k
    <2> HIDE DEF T
    <2> QED BY <1>1, LeastNumber
  <1>3. PICK x \in S : m = n - x
    OBVIOUS
  <1>4. ASSUME NEW y \in S PROVE y <= x
    <2>1. n - y \in T
      OBVIOUS
    <2>2. n - x <= n - y /\ x \in Nat /\ y \in Nat
      BY <1>2, <1>3, <2>1
    <2> HIDE DEF T
    <2> QED BY <2>2
  <1> QED BY <1>4 DEF Max

-----------------------------------------------------------------------------
(* Applying a list of changes. *)

Step(x, f, n) == IF n \in DOMAIN f THEN ApplyChange(x, f[n]) ELSE x

IsFold(g, t, f, top) == g = [n \in 0..top |-> IF n = 0 THEN t ELSE Step(g[n - 1], f, n)]

(* The intermediate tables exist, for otherwise there were a least number  *)
(* of changes after which they did not.                                    *)
LEMMA FoldExists ==
    ASSUME NEW t, NEW f, NEW top \in Nat
    PROVE  \E g : IsFold(g, t, f, top)
  <1> DEFINE Bad == {n \in Nat : ~\E g : IsFold(g, t, f, n)}
  <1>1. SUFFICES ASSUME Bad # {} PROVE FALSE
    OBVIOUS
  <1>2. PICK n \in Bad : \A m \in Bad : n <= m
    <2>1. Bad \in SUBSET Nat
      OBVIOUS
    <2> HIDE DEF Bad
    <2> QED BY <1>1, <2>1, LeastNumber
  <1>3. n \in Nat /\ ~\E g : IsFold(g, t, f, n)
    OBVIOUS
  <1>4. CASE n = 0
    <2> DEFINE g == [i \in 0..0 |-> t]
    <2>1. IsFold(g, t, f, 0)
      BY DEF IsFold
    <2> QED BY <1>3, <1>4, <2>1
  <1>5. CASE n # 0
    <2>1. n - 1 \in Nat /\ n - 1 \notin Bad
      BY <1>2, <1>3, <1>5
    <2>2. PICK g : IsFold(g, t, f, n - 1)
      BY <2>1
    <2> HIDE DEF Bad
    <2> DEFINE h == [i \in 0..n |-> IF i = n THEN Step(g[n - 1], f, n) ELSE g[i]]
    <2>3. \A i \in 0..n - 1 : h[i] = g[i]
      BY <1>3
    <2>4. \A i \in 0..n - 1 : g[i] = IF i = 0 THEN t ELSE Step(g[i - 1], f, i)
      BY <2>2 DEF IsFold
    <2>5. \A i \in 0..n : h[i] = IF i = 0 THEN t ELSE Step(h[i - 1], f, i)
      <3> SUFFICES ASSUME NEW i \in 0..n
                   PROVE  h[i] = IF i = 0 THEN t ELSE Step(h[i - 1], f, i)
        OBVIOUS
      <3>1. CASE i = n
        <4>1. h[n] = Step(g[n - 1], f, n) /\ h[n - 1] = g[n - 1]
          BY <1>3, <1>5, <2>3
        <4> HIDE DEF h
        <4> QED BY <1>5, <3>1, <4>1
      <3>2. CASE i # n
        <4>1. i \in 0..n - 1 /\ (i # 0 => i - 1 \in 0..n - 1)
          BY <1>3, <3>2
        <4>2. h[i] = g[i] /\ (i # 0 => h[i - 1] = g[i - 1])
          BY <2>3, <4>1
        <4> HIDE DEF h
        <4> QED BY <2>4, <4>1, <4>2
      <3> QED BY <3>1, <3>2
    <2>6. h = [i \in 0..n |-> h[i]]
      OBVIOUS
    <2> HIDE DEF h
    <2>7. IsFold(h, t, f, n)
      BY <2>5, <2>6 DEF IsFold
    <2> QED BY <1>3, <2>7
  <1> QED BY <1>4, <1>5

(* What holds before the changes and is kept by each of them holds after   *)
(* them; S are the pairs of a number of changes and a table of which it    *)
(* holds.                                                                  *)
LEMMA ApplyAllInduction ==
    ASSUME NEW t, NEW f, NEW N \in Nat, DOMAIN f \subseteq 1..N, NEW S,
           <<0, t>> \in S,
           \A n \in 1..N : \A x : <<n - 1, x>> \in S => <<n, Step(x, f, n)>> \in S
    PROVE  \E n \in 0..N : (DOMAIN f \subseteq 1..n) /\ <<n, ApplyAll(t, f)>> \in S
  <1> DEFINE top == Max({0} \cup DOMAIN f)
  <1>1. top \in 0..N /\ DOMAIN f \subseteq 1..top
    <2>1. ({0} \cup DOMAIN f) \in SUBSET Nat /\ {0} \cup DOMAIN f # {}
      OBVIOUS
    <2>2. \A x \in {0} \cup DOMAIN f : x <= N
      OBVIOUS
    <2>3. top \in {0} \cup DOMAIN f /\ \A y \in {0} \cup DOMAIN f : y <= top
      BY <2>1, <2>2, GreatestNumber
    <2> HIDE DEF top
    <2> QED BY <2>3
  <1>2. PICK g : IsFold(g, t, f, top) /\ ApplyAll(t, f) = g[top]
    <2> DEFINE G == CHOOSE g : IsFold(g, t, f, top)
    <2>1. IsFold(G, t, f, top)
      <3>1. \E g : IsFold(g, t, f, top)
        BY <1>1, FoldExists
      <3> HIDE DEF top
      <3> QED BY <3>1
    <2>2. ApplyAll(t, f) = G[top]
      BY DEF ApplyAll, IsFold, Step
    <2> QED BY <2>1, <2>2
  <1> HIDE DEF top
  <1>3. ASSUME NEW n \in 0..top, <<n, g[n]>> \notin S PROVE FALSE
    <2> DEFINE Bad == {m \in 0..top : <<m, g[m]>> \notin S}
    <2>1. Bad \in SUBSET Nat /\ Bad # {}
      BY <1>1, <1>3
    <2>2. PICK m \in Bad : \A k \in Bad : m <= k
      <3> HIDE DEF Bad
      <3> QED BY <2>1, LeastNumber
    <2>3. m \in 0..top /\ <<m, g[m]>> \notin S
      OBVIOUS
    <2>4. g[m] = IF m = 0 THEN t ELSE Step(g[m - 1], f, m)
      BY <1>2, <2>3 DEF IsFold
    <2>5. m # 0
      BY <2>3, <2>4
    <2>6. m - 1 \in 0..top /\ m \in 1..N /\ ~(m <= m - 1)
      BY <1>1, <2>3, <2>5
    <2>7. <<m - 1, g[m - 1]>> \in S
      BY <2>2, <2>6
    <2> QED BY <2>3, <2>4, <2>5, <2>6, <2>7
  <1> QED BY <1>1, <1>2, <1>3

-----------------------------------------------------------------------------
(* The tables and lists of changes that the devices keep and exchange.  A  *)
(* device's own sequence numbers stop at MaxWrites; all numbers are below  *)
(* some bound, so that the latest of them exists.                          *)

IsChange(c) == c \in Change /\ (c.device \in Device => c.seq <= MaxWrites)

IsTable(t) ==
    /\ t \in [changes : SUBSET Change, revisions : Seq(Change)]
    /\ Range(t.revisions) \subseteq t.changes
    /\ \A c \in t.changes : IsChange(c)
    /\ \E n \in Nat : \A c \in t.changes : c.clock <= n /\ c.seq <= n

IsList(f) == /\ \E n \in Nat : DOMAIN f \subseteq 1..n
             /\ \A i \in DOMAIN f : IsChange(f[i])

(* Revisions are only appended. *)
Extends(R, T) == Len(R) <= Len(T) /\ \A i \in 1..Len(R) : T[i] = R[i]

LEMMA ExtendsItself ==
    ASSUME NEW R, Len(R) \in Nat
    PROVE  Extends(R, R)
  BY DEF Extends

LEMMA ExtendsOn ==
    ASSUME NEW R, NEW S, NEW T, Len(R) \in Nat, Len(S) \in Nat, Len(T) \in Nat,
           Extends(R, S), Extends(S, T)
    PROVE  Extends(R, T)
  <1>1. Len(R) <= Len(T)
    BY DEF Extends
  <1>2. \A i \in 1..Len(R) : i \in 1..Len(S)
    BY DEF Extends
  <1> QED BY <1>1, <1>2 DEF Extends

LEMMA TableLength ==
    ASSUME NEW t, IsTable(t)
    PROVE  Len(t.revisions) \in Nat
  <1>1. t.revisions \in Seq(Change)
    BY DEF IsTable
  <1> QED BY <1>1

LEMMA LatestSequenceIs ==
    ASSUME NEW t, IsTable(t), NEW e
    PROVE  /\ LatestSequence(t, e) \in Nat
           /\ \A c \in t.changes : c.device = e => c.seq <= LatestSequence(t, e)
           /\ \/ LatestSequence(t, e) = 0
              \/ \E c \in t.changes : c.device = e /\ c.seq = LatestSequence(t, e)
  <1> DEFINE S == {0} \cup {c.seq : c \in {x \in t.changes : x.device = e}}
  <1>1. PICK n \in Nat : \A c \in t.changes : c.clock <= n /\ c.seq <= n
    BY DEF IsTable
  <1>2. \A c \in t.changes : c.seq \in Nat \ {0}
    BY DEF IsTable, IsChange, Change
  <1>3. \A x \in S : x \in Nat /\ x <= n
    BY <1>1, <1>2
  <1>4. S # {} /\ \A x \in S : x = 0 \/ \E c \in t.changes : c.device = e /\ c.seq = x
    OBVIOUS
  <1>5. \A c \in t.changes : c.device = e => c.seq \in S
    OBVIOUS
  <1>6. LatestSequence(t, e) = Max(S)
    BY DEF LatestSequence
  <1> HIDE DEF S
  <1>7. S \in SUBSET Nat
    BY <1>3
  <1>8. Max(S) \in S /\ \A y \in S : y <= Max(S)
    BY <1>3, <1>4, <1>7, GreatestNumber
  <1> QED BY <1>3, <1>4, <1>5, <1>6, <1>8

(* Changes are only added: the latest sequence of a device never falls. *)
LEMMA LatestSequenceGrows ==
    ASSUME NEW t, IsTable(t), NEW u, IsTable(u), t.changes \subseteq u.changes, NEW e
    PROVE  LatestSequence(t, e) <= LatestSequence(u, e)
  <1>1. LatestSequence(t, e) \in Nat /\ LatestSequence(u, e) \in Nat
    BY LatestSequenceIs
  <1>2. CASE LatestSequence(t, e) = 0
    BY <1>1, <1>2
  <1>3. CASE LatestSequence(t, e) # 0
    <2>1. PICK c \in t.changes : c.device = e /\ c.seq = LatestSequence(t, e)
      BY <1>3, LatestSequenceIs
    <2>2. c \in u.changes
      OBVIOUS
    <2>3. c.seq <= LatestSequence(u, e)
      BY <2>1, <2>2, LatestSequenceIs
    <2> QED BY <2>1, <2>3
  <1> QED BY <1>2, <1>3

LEMMA AddedToTable ==
    ASSUME NEW t, IsTable(t), NEW c, IsChange(c), NEW r,
           r = t.revisions \/ r = Append(t.revisions, c)
    PROVE  /\ IsTable([changes |-> t.changes \cup {c}, revisions |-> r])
           /\ Extends(t.revisions, r)
  <1> DEFINE u == [changes |-> t.changes \cup {c}, revisions |-> r]
  <1>1. u.changes = t.changes \cup {c} /\ u.revisions = r
    OBVIOUS
  <1>2. t.revisions \in Seq(Change) /\ t.changes \subseteq Change /\ c \in Change
    BY DEF IsTable, IsChange
  <1>3. r \in Seq(Change)
    BY <1>2
  <1>4. u \in [changes : SUBSET Change, revisions : Seq(Change)]
    BY <1>2, <1>3
  <1>5. Range(r) \subseteq t.changes \cup {c}
    <2>1. \A i \in DOMAIN t.revisions : t.revisions[i] \in t.changes
      BY DEF IsTable, Range
    <2>2. \A i \in DOMAIN r : r[i] \in t.changes \cup {c}
      BY <1>2, <2>1
    <2> QED BY <2>2 DEF Range
  <1>6. \E n \in Nat : \A x \in u.changes : x.clock <= n /\ x.seq <= n
    <2>1. PICK n \in Nat : \A x \in t.changes : x.clock <= n /\ x.seq <= n
      BY DEF IsTable
    <2>2. c.clock \in Nat /\ c.seq \in Nat
      BY <1>2 DEF Change
    <2>3. \A x \in t.changes : x.clock \in Nat /\ x.seq \in Nat
      BY <1>2 DEF Change
    <2>4. \A x \in u.changes : x.clock <= n + c.clock + c.seq /\ x.seq <= n + c.clock + c.seq
      BY <1>1, <2>1, <2>2, <2>3
    <2>5. n + c.clock + c.seq \in Nat
      BY <2>2
    <2> HIDE DEF u
    <2> QED BY <2>4, <2>5
  <1>7. \A x \in u.changes : IsChange(x)
    BY <1>1 DEF IsTable
  <1>9. Extends(t.revisions, r)
    <2>1. \A x \in Seq(Change) : /\ Len(x) \in Nat /\ Len(Append(x, c)) = Len(x) + 1
                                 /\ \A i \in 1..Len(x) : Append(x, c)[i] = x[i]
      BY <1>2
    <2>2. CASE r = t.revisions
      BY <1>2, <2>2, ExtendsItself
    <2>3. CASE r = Append(t.revisions, c)
      <3>1. PICK R : R = t.revisions
        OBVIOUS
      <3>2. /\ Len(R) \in Nat /\ Len(r) = Len(R) + 1
            /\ \A i \in 1..Len(R) : r[i] = R[i]
        BY <1>2, <2>1, <2>3, <3>1
      <3>3. Len(R) <= Len(r)
        BY <3>2
      <3> QED BY <3>1, <3>2, <3>3 DEF Extends
    <2> QED BY <2>2, <2>3
  <1> HIDE DEF u
  <1>8. IsTable(u)
    BY <1>1, <1>4, <1>5, <1>6, <1>7 DEF IsTable
  <1> QED BY <1>8, <1>9 DEF u

LEMMA ApplyChangeIsTable ==
    ASSUME NEW t, IsTable(t), NEW c, IsChange(c)
    PROVE  /\ IsTable(ApplyChange(t, c))
           /\ t.changes \subseteq ApplyChange(t, c).changes
           /\ ApplyChange(t, c).changes \subseteq t.changes \cup {c}
           /\ Extends(t.revisions, ApplyChange(t, c).revisions)
  <1>1. CASE \E x \in t.changes : x.device = c.device /\ x.seq = c.seq
    BY <1>1, TableLength, ExtendsItself DEF ApplyChange
  <1>2. CASE ~\E x \in t.changes : x.device = c.device /\ x.seq = c.seq
    <2>1. PICK r : /\ r = t.revisions \/ r = Append(t.revisions, c)
                   /\ ApplyChange(t, c) = [changes |-> t.changes \cup {c}, revisions |-> r]
      BY <1>2 DEF ApplyChange
    <2>2. /\ IsTable([changes |-> t.changes \cup {c}, revisions |-> r])
          /\ Extends(t.revisions, r)
      BY <2>1, AddedToTable
    <2> QED BY <2>1, <2>2
  <1> QED BY <1>1, <1>2

LEMMA ApplyAllIsTable ==
    ASSUME NEW t, IsTable(t), NEW f, IsList(f)
    PROVE  /\ IsTable(ApplyAll(t, f))
           /\ t.changes \subseteq ApplyAll(t, f).changes
           /\ ApplyAll(t, f).changes \subseteq t.changes \cup Range(f)
           /\ Extends(t.revisions, ApplyAll(t, f).revisions)
  <1> DEFINE T == [changes : SUBSET Change, revisions : Seq(Change)]
             S == {p \in Nat \X T : /\ IsTable(p[2])
                                    /\ t.changes \subseteq p[2].changes
                                    /\ p[2].changes \subseteq t.changes \cup Range(f)
                                    /\ Extends(t.revisions, p[2].revisions)}
  <1>1. PICK N \in Nat : DOMAIN f \subseteq 1..N
    BY DEF IsList
  <1>2. \A n \in Nat : \A x : (/\ IsTable(x) /\ t.changes \subseteq x.changes
                           /\ x.changes \subseteq t.changes \cup Range(f)
                           /\ Extends(t.revisions, x.revisions)) <=> <<n, x>> \in S
    <2>1. \A x : IsTable(x) => x \in T
      BY DEF IsTable
    <2> HIDE DEF T
    <2> QED BY <2>1
  <1> HIDE DEF S
  <1>3. <<0, t>> \in S
    BY <1>2, TableLength, ExtendsItself
  <1>4. ASSUME NEW n \in 1..N, NEW x, <<n - 1, x>> \in S PROVE <<n, Step(x, f, n)>> \in S
    <2>1. /\ IsTable(x) /\ t.changes \subseteq x.changes
          /\ x.changes \subseteq t.changes \cup Range(f)
          /\ Extends(t.revisions, x.revisions)
      BY <1>2, <1>4, n - 1 \in Nat
    <2>2. CASE n \in DOMAIN f
      <3>1. IsChange(f[n]) /\ f[n] \in Range(f)
        BY <2>2 DEF IsList, Range
      <3>2. PICK y : y = ApplyChange(x, f[n])
        OBVIOUS
      <3>3. /\ IsTable(y) /\ x.changes \subseteq y.changes
            /\ y.changes \subseteq x.changes \cup {f[n]}
            /\ Extends(x.revisions, y.revisions)
        BY <2>1, <3>1, <3>2, ApplyChangeIsTable
      <3>5. Extends(t.revisions, y.revisions)
        BY <2>1, <3>3, TableLength, ExtendsOn
      <3>4. <<n, y>> \in S
        BY <1>2, <2>1, <3>1, <3>3, <3>5
      <3> QED BY <2>2, <3>2, <3>4 DEF Step
    <2>3. CASE n \notin DOMAIN f
      BY <1>2, <2>1, <2>3 DEF Step
    <2> QED BY <2>2, <2>3
  <1>5. PICK n \in 0..N : <<n, ApplyAll(t, f)>> \in S
    BY <1>1, <1>3, <1>4, ApplyAllInduction
  <1> QED BY <1>2, <1>5

-----------------------------------------------------------------------------
(* Snapshots and manifests. *)

IsSnapshotPayload(s) ==
    /\ s.covers \in Nat
    /\ s.domains \subseteq Range(DomainOf)
    /\ DOMAIN s.values \subseteq 1..s.covers
    /\ \A i \in DOMAIN s.values :
          s.values[i].key \in Key /\ s.values[i].value \in Device \X (1..MaxWrites)

IsManifest(m) == IsSnapshotPayload(m.snapshot) /\ IsList(m.tail)

LEMMA SnapshotChangesAreList ==
    ASSUME NEW s, IsSnapshotPayload(s)
    PROVE  IsList(SnapshotChanges(s)) /\ IsSnapshot(s)
  <1> DEFINE f == SnapshotChanges(s)
  <1>1. DOMAIN f = DOMAIN s.values /\ DOMAIN f \subseteq 1..s.covers /\ s.covers \in Nat
    BY DEF SnapshotChanges, IsSnapshotPayload
  <1>2. ASSUME NEW i \in DOMAIN f PROVE IsChange(f[i])
    <2>1. f[i] = [key |-> s.values[i].key, value |-> s.values[i].value, device |-> Snapshot,
                  seq |-> i, clock |-> i]
      BY <1>1 DEF SnapshotChanges
    <2>2. i \in Nat \ {0}
      BY <1>1
    <2>3. s.values[i].key \in Key /\ s.values[i].value \in Device \X (1..MaxWrites)
      BY <1>1 DEF IsSnapshotPayload
    <2> HIDE DEF f
    <2>4. f[i].device = Snapshot
      BY <2>1
    <2>5. f[i] \in Change
      BY <2>1, <2>2, <2>3 DEF Change
    <2> QED BY <2>4, <2>5, DeviceAssumption DEF IsChange
  <1>3. IsList(f)
    BY <1>1, <1>2 DEF IsList
  <1>4. Range(f) \subseteq Change
    BY <1>2 DEF Range, IsChange
  <1> QED BY <1>3, <1>4 DEF IsSnapshot, IsSnapshotPayload

LEMMA ApplyManifestIsTable ==
    ASSUME NEW t, IsTable(t), NEW m, IsManifest(m)
    PROVE  /\ IsTable(ApplyManifest(t, m))
           /\ t.changes \subseteq ApplyManifest(t, m).changes
           /\ ApplyManifest(t, m).changes \subseteq t.changes \cup ManifestChanges(m)
           /\ Extends(t.revisions, ApplyManifest(t, m).revisions)
  <1>1. PICK f : f = SnapshotChanges(m.snapshot)
    OBVIOUS
  <1>2. IsList(f) /\ IsList(m.tail)
    BY <1>1, SnapshotChangesAreList DEF IsManifest
  <1>3. PICK u : u = ApplyAll(t, f)
    OBVIOUS
  <1>4. /\ IsTable(u) /\ t.changes \subseteq u.changes
        /\ u.changes \subseteq t.changes \cup Range(f)
        /\ Extends(t.revisions, u.revisions)
    BY <1>2, <1>3, ApplyAllIsTable
  <1>5. PICK v : v = ApplyAll(u, m.tail)
    OBVIOUS
  <1>6. /\ IsTable(v) /\ u.changes \subseteq v.changes
        /\ v.changes \subseteq u.changes \cup Range(m.tail)
        /\ Extends(u.revisions, v.revisions)
    BY <1>2, <1>4, <1>5, ApplyAllIsTable
  <1>9. Extends(t.revisions, v.revisions)
    BY <1>4, <1>6, TableLength, ExtendsOn
  <1>7. ApplyManifest(t, m) = v
    BY <1>1, <1>3, <1>5 DEF ApplyManifest
  <1>8. ManifestChanges(m) = Range(f) \cup Range(m.tail)
    BY <1>1 DEF ManifestChanges
  <1> QED BY <1>4, <1>6, <1>7, <1>8, <1>9

-----------------------------------------------------------------------------
(* The inductive invariant of the cycle, whoever writes: the tables are    *)
(* well-formed, what was published is, a publication that waits to be      *)
(* recorded is among the published ones, a head's sequence is that of a    *)
(* revision of its device, a device with a head root has a snapshot, and a *)
(* scan has read, of the domains it is through with, all that was there    *)
(* when it began, which is more than any head it follows knew.             *)

LogInv == DOMAIN log = Device /\ \A d \in Device : IsTable(log[d])

SnapsInv ==
    /\ DOMAIN snaps = Device
    /\ \A d \in Device : /\ \A s \in snaps[d] : IsSnapshotPayload(s)
                         /\ \E n \in Nat : \A s \in snaps[d] : s.covers <= n

IsOwnHead(h, d) ==
    /\ h.device = d
    /\ h.seq \in 1..MaxWrites
    /\ h.before \in Nat
    /\ h.id \in {d} \X (Nat \ {0})
    /\ IsManifest(h)
    /\ \A i \in DOMAIN h.tail : h.tail[i].device = d

(* One of the first n revisions of d is its own change q. *)
HasOwn(R, d, n, q) == \E i \in 1..n : R[i].device = d /\ R[i].seq = q

PublishedInv ==
    /\ DOMAIN published = Device
    /\ \A d \in Device : \A h \in published[d] :
          IsOwnHead(h, d) /\ HasOwn(Revisions(d), d, Len(Revisions(d)), h.seq)

RootsInv ==
    /\ settingsRoot \in [Device -> (Device \X Nat) \cup {None}]
    /\ DOMAIN headRoots = Device
    /\ \A d \in Device :
          /\ DOMAIN headRoots[d] = Device
          /\ \A e \in Device : headRoots[d][e] \in published[e] \cup {None}
          /\ headRoots[d][d] # None => snaps[d] # {}

IsPublication(p) ==
    /\ p.id \in Device \X Nat
    /\ \A s \in p.snaps : IsSnapshotPayload(s)
    /\ \E n \in Nat : \A s \in p.snaps : s.covers <= n

PendingInv ==
    /\ DOMAIN pending = Device
    /\ \A d \in Device : pending[d] # None =>
          /\ IsPublication(pending[d])
          /\ pending[d].heads \subseteq published[d]
          /\ pending[d].heads # {} => snaps[d] # {} \/ pending[d].snaps # {}

CountersInv == publications \in [Device -> Nat] /\ crashes \in 0..MaxCrashes

IsScan(sc, R, d, covers, heads, root) ==
    /\ sc.left \subseteq Range(DomainOf)
    /\ sc.before \in 0..Len(R)
    /\ sc.read \subseteq covers + 1 .. Len(R)
    /\ \A i \in covers + 1 .. sc.before : i \in sc.read \/ DomainOf[R[i].key] \in sc.left
    /\ \A h \in heads : HasOwn(R, d, sc.before, h.seq)
    /\ root # None => \E i \in 1..sc.before : R[i].device = d /\ R[i].seq > root.seq

ScanInv ==
    /\ DOMAIN scan = Device
    /\ \A d \in Device : scan[d] # None =>
          /\ pending[d] = None
          /\ IsScan(scan[d], Revisions(d), d, LatestCovers(d), published[d], headRoots[d][d])

CycleInv ==
    LogInv /\ SnapsInv /\ PublishedInv /\ RootsInv /\ PendingInv /\ CountersInv /\ ScanInv

LEMMA CycleInvInit == Init => CycleInv
  <1> SUFFICES ASSUME Init PROVE CycleInv
    OBVIOUS
  <1>1. LogInv
    <2>1. << >> \in Seq(Change) /\ Range(<< >>) \subseteq {}
      BY DEF Range
    <2>2. PICK t : t = [changes |-> {}, revisions |-> << >>]
      OBVIOUS
    <2>3. t.changes = {} /\ t.revisions = << >>
      BY <2>2
    <2>4. t \in [changes : SUBSET Change, revisions : Seq(Change)]
      BY <2>1, <2>2
    <2>5. IsTable(t)
      BY <2>1, <2>3, <2>4 DEF IsTable
    <2> QED BY <2>2, <2>5 DEF Init, LogInv
  <1>2. SnapsInv
    <2>1. \A d \in Device : \E n \in Nat : \A s \in snaps[d] : s.covers <= n
      <3>1. 0 \in Nat
        OBVIOUS
      <3> QED BY <3>1 DEF Init
    <2> QED BY <2>1 DEF Init, SnapsInv
  <1>4. PublishedInv /\ PendingInv
    BY DEF Init, PublishedInv, PendingInv
  <1>5. CountersInv
    BY BoundAssumption DEF Init, CountersInv
  <1>3. RootsInv
    BY DEF Init, RootsInv
  <1>6. ScanInv
    BY DEF Init, ScanInv
  <1> QED BY <1>1, <1>2, <1>3, <1>4, <1>5, <1>6 DEF CycleInv

-----------------------------------------------------------------------------
(* What a device reads of its tables when it publishes. *)

LEMMA RevisionIs ==
    ASSUME CycleInv, NEW d \in Device
    PROVE  /\ Revisions(d) = log[d].revisions
           /\ Len(Revisions(d)) \in Nat
           /\ DOMAIN Revisions(d) = 1..Len(Revisions(d))
           /\ \A i \in 1..Len(Revisions(d)) :
                 Revisions(d)[i] \in log[d].changes /\ IsChange(Revisions(d)[i])
  <1>1. IsTable(log[d])
    BY DEF CycleInv, LogInv
  <1>2. Revisions(d) \in Seq(Change) /\ Range(Revisions(d)) \subseteq log[d].changes
    BY <1>1 DEF IsTable, Revisions
  <1>3. \A i \in DOMAIN Revisions(d) : Revisions(d)[i] \in log[d].changes
    BY <1>2 DEF Range
  <1>4. \A c \in log[d].changes : IsChange(c)
    BY <1>1 DEF IsTable
  <1>5. Len(Revisions(d)) \in Nat /\ DOMAIN Revisions(d) = 1..Len(Revisions(d))
    BY <1>2
  <1> QED BY <1>3, <1>4, <1>5 DEF Revisions

LEMMA LatestCoversIs ==
    ASSUME CycleInv, NEW d \in Device
    PROVE  /\ LatestCovers(d) \in Nat
           /\ snaps[d] # {} => /\ LatestSyncSnapshot(d) \in snaps[d]
                               /\ LatestSyncSnapshot(d).covers = LatestCovers(d)
           /\ snaps[d] = {} => LatestCovers(d) = 0
  <1> DEFINE S == {0} \cup {s.covers : s \in snaps[d]}
  <1>1. PICK n \in Nat : \A s \in snaps[d] : s.covers <= n
    BY DEF CycleInv, SnapsInv
  <1>2. \A s \in snaps[d] : s.covers \in Nat
    BY DEF CycleInv, SnapsInv, IsSnapshotPayload
  <1>3. \A x \in S : x \in Nat /\ x <= n
    BY <1>1, <1>2
  <1>4. S # {} /\ \A x \in S : x = 0 \/ \E s \in snaps[d] : s.covers = x
    OBVIOUS
  <1>5. \A s \in snaps[d] : s.covers \in S
    OBVIOUS
  <1>6. LatestCovers(d) = Max(S)
    BY DEF LatestCovers
  <1> HIDE DEF S
  <1>7. S \in SUBSET Nat
    BY <1>3
  <1>8. Max(S) \in S /\ \A y \in S : y <= Max(S)
    BY <1>3, <1>4, <1>7, GreatestNumber
  <1>9. LatestCovers(d) \in Nat
    BY <1>6, <1>7, <1>8
  <1>10. ASSUME snaps[d] # {} PROVE \E s \in snaps[d] : s.covers = LatestCovers(d)
    <2>1. CASE LatestCovers(d) = 0
      <3>1. PICK s \in snaps[d] : TRUE
        BY <1>10
      <3>2. s.covers \in Nat /\ s.covers <= 0
        BY <1>2, <1>5, <1>6, <1>8, <2>1
      <3>3. s.covers = 0
        BY <3>2
      <3> QED BY <2>1, <3>3
    <2>2. CASE LatestCovers(d) # 0
      BY <1>4, <1>6, <1>8, <2>2
    <2> QED BY <2>1, <2>2
  <1> QED BY <1>4, <1>6, <1>8, <1>9, <1>10 DEF LatestSyncSnapshot

LEMMA CycleInvImpliesTypeOK == CycleInv => TypeOK
  <1> SUFFICES ASSUME CycleInv PROVE TypeOK
    OBVIOUS
  <1>1. ASSUME NEW d \in Device
        PROVE  Range(Revisions(d)) \subseteq log[d].changes /\ log[d].changes \subseteq Change
    <2>1. IsTable(log[d])
      BY DEF CycleInv, LogInv
    <2> QED BY <2>1 DEF Revisions, IsTable
  <1>2. ASSUME NEW d \in Device, NEW s \in snaps[d] PROVE IsSnapshot(s)
    BY SnapshotChangesAreList DEF CycleInv, SnapsInv
  <1>3. ASSUME NEW d \in Device, NEW h \in published[d] PROVE IsHead(h) /\ h.device = d
    <2>1. IsOwnHead(h, d)
      BY DEF CycleInv, PublishedInv
    <2>2. IsSnapshot(h.snapshot)
      BY <2>1, SnapshotChangesAreList DEF IsOwnHead, IsManifest
    <2>3. \A c \in Range(h.tail) : c \in Change /\ c.device = h.device
      BY <2>1 DEF IsOwnHead, IsManifest, IsList, IsChange, Range
    <2> QED BY <2>1, <2>2, <2>3 DEF IsOwnHead, IsHead
  <1>4. /\ settingsRoot \in [Device -> (Device \X Nat) \cup {None}]
        /\ publications \in [Device -> Nat]
        /\ crashes \in 0..MaxCrashes
        /\ \A d, e \in Device : headRoots[d][e] \in published[e] \cup {None}
        /\ \A d \in Device : pending[d] # None => pending[d].heads \subseteq published[d]
    BY DEF CycleInv, RootsInv, CountersInv, PendingInv
  <1>5. ASSUME NEW d \in Device, scan[d] # None
        PROVE  /\ pending[d] = None
               /\ scan[d].left \subseteq Range(DomainOf)
               /\ scan[d].read \subseteq DOMAIN Revisions(d)
               /\ scan[d].before \in 0..Len(Revisions(d))
    <2>1. pending[d] = None /\ IsScan(scan[d], Revisions(d), d, LatestCovers(d), published[d],
                                      headRoots[d][d])
      BY <1>5 DEF CycleInv, ScanInv
    <2>2. LatestCovers(d) \in Nat /\ DOMAIN Revisions(d) = 1..Len(Revisions(d))
          /\ Len(Revisions(d)) \in Nat
      BY LatestCoversIs, RevisionIs
    <2>3. LatestCovers(d) + 1 .. Len(Revisions(d)) \subseteq 1..Len(Revisions(d))
      BY <2>2
    <2> QED BY <2>1, <2>2, <2>3 DEF IsScan
  <1> QED BY <1>1, <1>2, <1>3, <1>4, <1>5 DEF TypeOK

LEMMA LocalTailIs ==
    ASSUME CycleInv, NEW d \in Device
    PROVE  /\ IsList(LocalTail(d))
           /\ DOMAIN LocalTail(d) = {i \in LatestCovers(d) + 1 .. Len(Revisions(d)) :
                                        Revisions(d)[i].device = d}
           /\ \A i \in DOMAIN LocalTail(d) : /\ LocalTail(d)[i] = Revisions(d)[i]
                                             /\ LocalTail(d)[i] \in log[d].changes
                                             /\ LocalTail(d)[i].device = d
  <1> DEFINE E == EventsAfterSnapshot(d)
             I == LatestCovers(d) + 1 .. Len(Revisions(d))
  <1>1. LatestCovers(d) \in Nat /\ Len(Revisions(d)) \in Nat
    BY LatestCoversIs, RevisionIs
  <1>2. DOMAIN E = I /\ \A i \in I : E[i] = Revisions(d)[i]
    BY DEF EventsAfterSnapshot, Restrict
  <1>3. I \subseteq 1..Len(Revisions(d))
    BY <1>1
  <1>4. LocalTail(d) = [i \in {j \in DOMAIN E : E[j].device = d} |-> E[i]]
    BY DEF LocalTail, Own, Restrict
  <1> HIDE DEF E, I
  <1>5. /\ DOMAIN LocalTail(d) = {i \in I : Revisions(d)[i].device = d}
        /\ \A i \in DOMAIN LocalTail(d) : LocalTail(d)[i] = Revisions(d)[i]
    BY <1>2, <1>4
  <1>6. \A i \in DOMAIN LocalTail(d) : i \in 1..Len(Revisions(d))
    BY <1>3, <1>5
  <1>7. \A i \in DOMAIN LocalTail(d) :
           LocalTail(d)[i] \in log[d].changes /\ IsChange(LocalTail(d)[i])
    BY <1>5, <1>6, RevisionIs
  <1>8. DOMAIN LocalTail(d) \subseteq 1..Len(Revisions(d))
    BY <1>6
  <1>9. IsList(LocalTail(d))
    BY <1>1, <1>7, <1>8 DEF IsList
  <1> QED BY <1>5, <1>7, <1>9 DEF I

(* The sequences of the tail are those of own changes. *)
LEMMA LatestTailSequenceIs ==
    ASSUME CycleInv, NEW d \in Device, DOMAIN LocalTail(d) # {}
    PROVE  /\ LatestTailSequence(d) \in Nat \ {0}
           /\ \E i \in DOMAIN LocalTail(d) : LocalTail(d)[i].seq = LatestTailSequence(d)
  <1> DEFINE S == {c.seq : c \in Range(LocalTail(d))}
  <1>1. IsTable(log[d])
    BY DEF CycleInv, LogInv
  <1>2. \A c \in log[d].changes : c.seq \in Nat \ {0}
    BY <1>1 DEF IsTable, Change
  <1>3. LatestSequence(log[d], d) \in Nat
    BY <1>1, LatestSequenceIs
  <1>4. ASSUME NEW i \in DOMAIN LocalTail(d)
        PROVE  /\ LocalTail(d)[i].seq \in Nat \ {0}
               /\ LocalTail(d)[i].seq <= LatestSequence(log[d], d)
    <2>1. LocalTail(d)[i] \in log[d].changes /\ LocalTail(d)[i].device = d
      BY LocalTailIs
    <2> QED BY <1>1, <1>2, <2>1, LatestSequenceIs
  <1>5. \A x \in S : x \in Nat \ {0} /\ x <= LatestSequence(log[d], d)
    BY <1>4 DEF Range
  <1>6. S # {} /\ \A x \in S : \E i \in DOMAIN LocalTail(d) : LocalTail(d)[i].seq = x
    BY DEF Range
  <1>7. LatestTailSequence(d) = Max(S)
    BY DEF LatestTailSequence
  <1> HIDE DEF S
  <1>8. S \in SUBSET Nat
    BY <1>5
  <1>9. Max(S) \in S
    BY <1>3, <1>5, <1>6, <1>8, GreatestNumber
  <1> QED BY <1>5, <1>6, <1>7, <1>9

LEMMA DomainsAreKnown ==
    ASSUME NEW f, \A i \in DOMAIN f : f[i].key \in Key
    PROVE  Domains(f) \subseteq Range(DomainOf)
  <1>1. \A c \in Range(f) : c.key \in DOMAIN DomainOf
    BY DomainAssumption DEF Range
  <1> QED BY <1>1 DEF Domains, Range

LEMMA SnapshotPayloadIs ==
    ASSUME CycleInv, NEW d \in Device, NEW n \in 0..Len(Revisions(d)),
           NEW D \in SUBSET Range(DomainOf)
    PROVE  IsSnapshotPayload(SnapshotPayload(d, n, D))
  <1> DEFINE s == SnapshotPayload(d, n, D)
  <1>1. s.covers = n /\ s.domains = D /\ n \in Nat
    BY RevisionIs DEF SnapshotPayload
  <1>2. /\ DOMAIN s.values \subseteq 1..n
        /\ \A i \in DOMAIN s.values : s.values[i] = [key |-> Revisions(d)[i].key,
                                                    value |-> Revisions(d)[i].value]
    BY DEF SnapshotPayload
  <1>3. \A i \in 1..n : i \in 1..Len(Revisions(d))
    BY RevisionIs
  <1>4. ASSUME NEW i \in DOMAIN s.values
        PROVE  s.values[i].key \in Key /\ s.values[i].value \in Device \X (1..MaxWrites)
    <2>1. Revisions(d)[i] \in Change
      BY <1>2, <1>3, RevisionIs DEF IsChange
    <2>2. Revisions(d)[i].key \in Key /\ Revisions(d)[i].value \in Device \X (1..MaxWrites)
      BY <2>1 DEF Change
    <2> HIDE DEF s
    <2>3. PICK a, b, v : /\ a = Revisions(d)[i].key /\ b = Revisions(d)[i].value
                         /\ v = s.values[i]
      OBVIOUS
    <2>4. v = [key |-> a, value |-> b]
      BY <1>2, <2>3
    <2>5. v.key = a /\ v.value = b
      BY <2>4
    <2> QED BY <2>2, <2>3, <2>5
  <1> HIDE DEF s
  <1> QED BY <1>1, <1>2, <1>4 DEF IsSnapshotPayload, s

-----------------------------------------------------------------------------
(* The steps of the cycle keep the invariant. *)

LEMMA HasOwnExtended ==
    ASSUME NEW R, NEW T, Len(R) \in Nat, Len(T) \in Nat, Extends(R, T), NEW d,
           NEW n \in 0..Len(R), NEW q, HasOwn(R, d, n, q)
    PROVE  HasOwn(T, d, n, q) /\ HasOwn(T, d, Len(T), q)
  <1>1. PICK i \in 1..n : R[i].device = d /\ R[i].seq = q
    BY DEF HasOwn
  <1>2. i \in 1..Len(T) /\ T[i] = R[i]
    BY DEF Extends
  <1> QED BY <1>1, <1>2 DEF HasOwn

LEMMA ScanExtended ==
    ASSUME NEW R, NEW T, Len(R) \in Nat, Len(T) \in Nat, Extends(R, T), NEW covers \in Nat,
           NEW sc, NEW d, NEW heads, NEW root, IsScan(sc, R, d, covers, heads, root)
    PROVE  IsScan(sc, T, d, covers, heads, root)
  <1>1. PICK n : n = sc.before
    OBVIOUS
  <1>2. n \in 0..Len(R) /\ n \in 0..Len(T) /\ \A i \in 1..n : T[i] = R[i]
    BY <1>1 DEF IsScan, Extends
  <1>3. sc.read \subseteq covers + 1 .. Len(T)
    <2>1. covers + 1 .. Len(R) \subseteq covers + 1 .. Len(T)
      BY DEF Extends
    <2> QED BY <2>1 DEF IsScan
  <1>4. \A i \in covers + 1 .. n : i \in sc.read \/ DomainOf[T[i].key] \in sc.left
    <2>1. \A i \in covers + 1 .. n : i \in 1..n
      BY <1>2
    <2> QED BY <1>1, <1>2, <2>1 DEF IsScan
  <1>5. \A h \in heads : HasOwn(T, d, n, h.seq)
    <2>1. \A h \in heads : HasOwn(R, d, n, h.seq)
      BY <1>1 DEF IsScan
    <2> QED BY <1>2, <2>1 DEF HasOwn
  <1>6. root # None => \E i \in 1..n : T[i].device = d /\ T[i].seq > root.seq
    BY <1>1, <1>2 DEF IsScan
  <1>7. sc.left \subseteq Range(DomainOf)
    BY DEF IsScan
  <1> QED BY <1>1, <1>2, <1>3, <1>4, <1>5, <1>6, <1>7 DEF IsScan

(* A step that leaves the scans that go on alone keeps their invariant. *)
LEMMA ScansKept ==
    ASSUME CycleInv, LogInv', DOMAIN scan' = Device,
           \A e \in Device : scan'[e] # None =>
              /\ scan'[e] = scan[e] /\ pending'[e] = pending[e]
              /\ Extends(log[e].revisions, log'[e].revisions) /\ snaps'[e] = snaps[e]
              /\ published'[e] = published[e] /\ headRoots'[e][e] = headRoots[e][e]
    PROVE  ScanInv'
  <1>1. ASSUME NEW e \in Device, scan'[e] # None
        PROVE  /\ pending'[e] = None
               /\ IsScan(scan'[e], Revisions(e)', e, LatestCovers(e)', published'[e],
                         headRoots'[e][e])
    <2>1. PICK R, T, n : R = log[e].revisions /\ T = log'[e].revisions /\ n = LatestCovers(e)
      OBVIOUS
    <2>2. Revisions(e) = R /\ Revisions(e)' = T /\ LatestCovers(e)' = n
      BY <1>1, <2>1 DEF Revisions, LatestCovers
    <2>3. Len(R) \in Nat /\ Len(T) \in Nat /\ n \in Nat
      BY <2>1, TableLength, LatestCoversIs DEF CycleInv, LogInv
    <2>4. pending[e] = None /\ IsScan(scan[e], R, e, n, published[e], headRoots[e][e])
      BY <1>1, <2>1, <2>2 DEF CycleInv, ScanInv
    <2>5. IsScan(scan[e], T, e, n, published[e], headRoots[e][e])
      BY <1>1, <2>1, <2>3, <2>4, ScanExtended
    <2> QED BY <1>1, <2>2, <2>4, <2>5
  <1> QED BY <1>1 DEF ScanInv

(* Changes are added to the tables and nothing is published. *)
LEMMA LogGrows ==
    ASSUME CycleInv, DOMAIN log' = Device, published' = published,
           \A d \in Device : IsTable(log'[d]) /\ Extends(log[d].revisions, log'[d].revisions)
    PROVE  LogInv' /\ PublishedInv'
  <1>1. LogInv'
    BY DEF LogInv
  <1>2. ASSUME NEW d \in Device, NEW h \in published[d]
        PROVE  IsOwnHead(h, d) /\ HasOwn(log'[d].revisions, d, Len(log'[d].revisions), h.seq)
    <2>1. PICK R, T : R = log[d].revisions /\ T = log'[d].revisions
      OBVIOUS
    <2>2. Len(R) \in Nat /\ Len(T) \in Nat /\ Extends(R, T)
      BY <2>1, TableLength DEF CycleInv, LogInv
    <2>3. IsOwnHead(h, d) /\ HasOwn(R, d, Len(R), h.seq)
      BY <2>1 DEF CycleInv, PublishedInv, Revisions
    <2>4. Len(R) \in 0..Len(R)
      BY <2>2
    <2>5. HasOwn(T, d, Len(T), h.seq)
      BY <2>2, <2>3, <2>4, HasOwnExtended
    <2> QED BY <2>1, <2>3, <2>5
  <1>3. PublishedInv'
    BY <1>2 DEF CycleInv, PublishedInv, Revisions
  <1> QED BY <1>1, <1>3

(* The same tables. *)
LEMMA LogSame ==
    ASSUME CycleInv
    PROVE  \A e \in Device : Extends(log[e].revisions, log[e].revisions)
  BY TableLength, ExtendsItself DEF CycleInv, LogInv

LEMMA NewClockIs ==
    ASSUME NEW t, IsTable(t)
    PROVE  Max({0} \cup {x.clock : x \in t.changes}) + 1 \in Nat \ {0}
  <1> DEFINE S == {0} \cup {x.clock : x \in t.changes}
  <1>1. PICK n \in Nat : \A c \in t.changes : c.clock <= n
    BY DEF IsTable
  <1>2. \A c \in t.changes : c.clock \in Nat
    BY DEF IsTable, Change
  <1>3. \A x \in S : x \in Nat /\ x <= n
    BY <1>1, <1>2
  <1>4. S # {}
    OBVIOUS
  <1> HIDE DEF S
  <1>5. S \in SUBSET Nat
    BY <1>3
  <1>6. Max(S) \in S
    BY <1>3, <1>4, <1>5, GreatestNumber
  <1>7. Max(S) + 1 \in Nat \ {0}
    <2>1. \A m \in Nat : m + 1 \in Nat \ {0}
      OBVIOUS
    <2> QED BY <1>5, <1>6, <2>1
  <1> QED BY <1>7 DEF S

LEMMA SetSyncSettingTextKeeps ==
    ASSUME CycleInv, NEW d \in Device, NEW k \in Key, SetSyncSettingText(d, k)
    PROVE  CycleInv'
  <1>1. PICK t : t = log[d] /\ IsTable(t)
    BY DEF CycleInv, LogInv
  <1>2. PICK n : n = LatestSequence(t, d) + 1
    OBVIOUS
  <1>3. PICK m : m = Max({0} \cup {x.clock : x \in t.changes}) + 1
    OBVIOUS
  <1>4. PICK c : c = [key |-> k, value |-> <<d, n>>, device |-> d, seq |-> n, clock |-> m]
    OBVIOUS
  <1>5. n \in 1..MaxWrites
    <2>1. LatestSequence(t, d) \in Nat
      BY <1>1, LatestSequenceIs
    <2>2. n <= MaxWrites
      BY <1>1, <1>2 DEF SetSyncSettingText
    <2> QED BY <1>2, <2>1, <2>2, BoundAssumption
  <1>6. m \in Nat \ {0}
    BY <1>1, <1>3, NewClockIs
  <1>7. IsChange(c)
    <2>1. c \in Change
      BY <1>4, <1>5, <1>6 DEF Change
    <2>2. c.seq = n
      BY <1>4
    <2> QED BY <1>5, <2>1, <2>2 DEF IsChange
  <1>8. PICK u : u = [changes |-> t.changes \cup {c}, revisions |-> Append(t.revisions, c)]
    OBVIOUS
  <1>9. IsTable(u) /\ Extends(t.revisions, u.revisions)
    <2>1. u.revisions = Append(t.revisions, c)
      BY <1>8
    <2> QED BY <1>1, <1>7, <1>8, <2>1, AddedToTable
  <1>10. log' = [log EXCEPT ![d] = u]
    BY <1>1, <1>2, <1>3, <1>4, <1>8 DEF SetSyncSettingText
  <1>11. UNCHANGED <<snaps, settingsRoot, headRoots, scan, pending, published, publications,
                     crashes>>
    BY DEF SetSyncSettingText
  <1>12. /\ DOMAIN log' = Device
         /\ \A e \in Device :
               IsTable(log'[e]) /\ Extends(log[e].revisions, log'[e].revisions)
    BY <1>1, <1>9, <1>10, LogSame DEF CycleInv, LogInv
  <1>13. LogInv' /\ PublishedInv'
    BY <1>11, <1>12, LogGrows
  <1>14. SnapsInv' /\ RootsInv' /\ PendingInv' /\ CountersInv'
    BY <1>11 DEF CycleInv, SnapsInv, RootsInv, PendingInv, CountersInv
  <1>15. ScanInv'
    <2>1. DOMAIN scan' = Device
      BY <1>11 DEF CycleInv, ScanInv
    <2> QED BY <1>11, <1>12, <1>13, <2>1, ScansKept
  <1> QED BY <1>13, <1>14, <1>15 DEF CycleInv

LEMMA UploadKeeps ==
    ASSUME CycleInv, NEW d \in Device, NEW newSnaps, NEW newHeads,
           Upload(d, newSnaps, newHeads),
           \A s \in newSnaps : IsSnapshotPayload(s),
           \E n \in Nat : \A s \in newSnaps : s.covers <= n,
           \A h \in newHeads : /\ IsOwnHead(h, d)
                               /\ HasOwn(Revisions(d), d, Len(Revisions(d)), h.seq),
           newHeads # {} => snaps[d] # {} \/ newSnaps # {}
    PROVE  CycleInv'
  <1>1. UNCHANGED <<log, snaps, settingsRoot, headRoots, crashes>>
    BY DEF Upload
  <1>2. published' = [published EXCEPT ![d] = published[d] \cup newHeads]
    BY DEF Upload
  <1>3. PICK p : /\ p = [snaps |-> newSnaps, heads |-> newHeads,
                         id |-> <<d, publications[d] + 1>>]
                 /\ pending' = [pending EXCEPT ![d] = p]
    BY DEF Upload
  <1>4. publications[d] \in Nat
    BY DEF CycleInv, CountersInv
  <1>5. LogInv' /\ SnapsInv'
    BY <1>1 DEF CycleInv, LogInv, SnapsInv
  <1>6. /\ DOMAIN published' = Device
        /\ \A e \in Device : published[e] \subseteq published'[e]
        /\ published'[d] = published[d] \cup newHeads
        /\ \A e \in Device : e # d => published'[e] = published[e]
    BY <1>2 DEF CycleInv, PublishedInv
  <1>7. PublishedInv'
    <2>1. ASSUME NEW e \in Device, NEW h \in published'[e]
          PROVE  IsOwnHead(h, e) /\ HasOwn(Revisions(e), e, Len(Revisions(e)), h.seq)
      <3>1. CASE h \in published[e]
        BY <3>1 DEF CycleInv, PublishedInv
      <3>2. CASE h \notin published[e]
        <4>1. e = d /\ h \in newHeads
          BY <1>6, <3>2
        <4> QED BY <4>1
      <3> QED BY <3>1, <3>2
    <2> QED BY <1>1, <1>6, <2>1 DEF PublishedInv, Revisions
  <1>8. RootsInv'
    <2>1. \A x, e \in Device : headRoots[x][e] \in published'[e] \cup {None}
      BY <1>6 DEF CycleInv, RootsInv
    <2> QED BY <1>1, <2>1 DEF CycleInv, RootsInv
  <1>9. PendingInv'
    <2>1. /\ p.snaps = newSnaps /\ p.heads = newHeads /\ p.id = <<d, publications[d] + 1>>
      BY <1>3
    <2>2. p.id \in Device \X Nat
      BY <1>4, <2>1
    <2>3. IsPublication(p)
      BY <2>1, <2>2 DEF IsPublication
    <2>4. DOMAIN pending' = Device /\ pending'[d] = p
          /\ \A e \in Device : e # d => pending'[e] = pending[e]
      BY <1>3 DEF CycleInv, PendingInv
    <2>5. ASSUME NEW e \in Device, pending'[e] # None
          PROVE  /\ IsPublication(pending'[e])
                 /\ pending'[e].heads \subseteq published'[e]
                 /\ pending'[e].heads # {} => snaps[e] # {} \/ pending'[e].snaps # {}
      <3>1. CASE e = d
        <4>1. p.heads \subseteq published'[d] /\ (p.heads # {} => snaps[d] # {} \/ p.snaps # {})
          BY <1>6, <2>1
        <4> QED BY <2>3, <2>4, <3>1, <4>1
      <3>2. CASE e # d
        <4>1. pending'[e] = pending[e] /\ published'[e] = published[e]
          BY <1>6, <2>4, <3>2
        <4> QED BY <2>5, <4>1 DEF CycleInv, PendingInv
      <3> QED BY <3>1, <3>2
    <2> QED BY <1>1, <2>4, <2>5 DEF PendingInv
  <1>10. CountersInv'
    <2>1. publications' = [publications EXCEPT ![d] = publications[d] + 1]
      BY DEF Upload
    <2> QED BY <1>1, <1>4, <2>1 DEF CycleInv, CountersInv
  <1>11. ScanInv'
    <2>1. scan' = [scan EXCEPT ![d] = None]
      BY DEF Upload
    <2>2. /\ DOMAIN scan' = Device
          /\ \A e \in Device : scan'[e] # None => e # d /\ scan'[e] = scan[e]
      BY <2>1 DEF CycleInv, ScanInv
    <2>3. \A e \in Device : e # d => pending'[e] = pending[e] /\ published'[e] = published[e]
      BY <1>3, <1>6 DEF CycleInv, PendingInv
    <2> QED BY <1>1, <1>5, <2>2, <2>3, LogSame, ScansKept
  <1> QED BY <1>5, <1>7, <1>8, <1>9, <1>10, <1>11 DEF CycleInv

(* A scan begins: the latest head, and the head root, are behind what is   *)
(* there to be read.                                                       *)
LEMMA BeginScanKeeps ==
    ASSUME CycleInv, NEW d \in Device, BeginScan(d)
    PROVE  CycleInv'
  <1>1. UNCHANGED <<log, snaps, settingsRoot, headRoots, pending, published, publications,
                    crashes>>
    BY DEF BeginScan
  <1>2. PICK R, n, sc : /\ R = Revisions(d) /\ n = Len(R)
                        /\ sc = [left |-> Range(DomainOf), read |-> {}, before |-> n]
    OBVIOUS
  <1>3. sc.left = Range(DomainOf) /\ sc.read = {} /\ sc.before = n
    BY <1>2
  <1>4. n \in Nat /\ \A i \in 1..n : R[i].key \in Key
    BY <1>2, RevisionIs DEF IsChange, Change
  <1>5. scan' = [scan EXCEPT ![d] = sc]
    BY <1>2 DEF BeginScan
  <1>6. pending[d] = None
    BY DEF BeginScan
  <1>7. \A i \in LatestCovers(d) + 1 .. n : DomainOf[R[i].key] \in Range(DomainOf)
    <2>1. \A i \in LatestCovers(d) + 1 .. n : i \in 1..n
      BY <1>4, LatestCoversIs
    <2> QED BY <1>4, <2>1, DomainAssumption DEF Range
  <1>8. \A h \in published[d] : HasOwn(R, d, n, h.seq)
    BY <1>2 DEF CycleInv, PublishedInv
  <1>9. ASSUME headRoots[d][d] # None
        PROVE  \E i \in 1..n : R[i].device = d /\ R[i].seq > headRoots[d][d].seq
    <2>1. PICK f : f = LocalTail(d)
      OBVIOUS
    <2>2. DOMAIN f # {} /\ ~(headRoots[d][d].seq >= LatestTailSequence(d))
      <3>1. snaps[d] # {}
        BY <1>9 DEF CycleInv, RootsInv
      <3> QED BY <1>9, <2>1, <3>1 DEF BeginScan, UpToDate
    <2>3. LatestTailSequence(d) \in Nat /\ \E i \in DOMAIN f : f[i].seq = LatestTailSequence(d)
      BY <2>1, <2>2, LatestTailSequenceIs
    <2>4. PICK i \in DOMAIN f : f[i].seq = LatestTailSequence(d)
      BY <2>3
    <2>5. i \in LatestCovers(d) + 1 .. n /\ f[i] = R[i] /\ R[i].device = d
      BY <1>2, <2>1, LocalTailIs
    <2>6. i \in 1..n
      BY <1>4, <2>5, LatestCoversIs
    <2>7. headRoots[d][d].seq \in Nat
      <3>1. headRoots[d][d] \in published[d]
        BY <1>9 DEF CycleInv, RootsInv
      <3>2. headRoots[d][d].seq \in 1..MaxWrites
        BY <3>1 DEF CycleInv, PublishedInv, IsOwnHead
      <3> QED BY <3>2
    <2>8. R[i].seq > headRoots[d][d].seq
      BY <2>2, <2>3, <2>4, <2>5, <2>7
    <2> QED BY <2>5, <2>6, <2>8
  <1>10. IsScan(sc, R, d, LatestCovers(d), published[d], headRoots[d][d])
    <2>1. n \in 0..Len(R)
      BY <1>2, <1>4
    <2> QED BY <1>3, <1>7, <1>8, <1>9, <2>1 DEF IsScan
  <1>11. ScanInv'
    <2>1. Revisions(d)' = R /\ LatestCovers(d)' = LatestCovers(d)
          /\ \A e \in Device : Revisions(e)' = Revisions(e) /\ LatestCovers(e)' = LatestCovers(e)
      BY <1>1, <1>2 DEF Revisions, LatestCovers
    <2>2. DOMAIN scan' = Device /\ scan'[d] = sc /\ \A e \in Device : e # d => scan'[e] = scan[e]
      BY <1>5 DEF CycleInv, ScanInv
    <2>3. ASSUME NEW e \in Device, scan'[e] # None
          PROVE  /\ pending[e] = None
                 /\ IsScan(scan'[e], Revisions(e), e, LatestCovers(e), published[e],
                           headRoots[e][e])
      <3>1. CASE e = d
        BY <1>2, <1>6, <1>10, <2>2, <3>1
      <3>2. CASE e # d
        <4>1. scan'[e] = scan[e]
          BY <2>2, <3>2
        <4> QED BY <2>3, <4>1 DEF CycleInv, ScanInv
      <3> QED BY <3>1, <3>2
    <2> QED BY <1>1, <2>1, <2>2, <2>3 DEF ScanInv
  <1> QED BY <1>1, <1>11 DEF CycleInv, LogInv, SnapsInv, PublishedInv, RootsInv, PendingInv,
                             CountersInv, Revisions

(* The query for a domain returns all of its events that there are. *)
LEMMA ReadDomainKeeps ==
    ASSUME CycleInv, NEW d \in Device, ReadDomain(d)
    PROVE  CycleInv'
  <1>1. UNCHANGED <<log, snaps, settingsRoot, headRoots, pending, published, publications,
                    crashes>>
    BY DEF ReadDomain
  <1>2. PICK R, n, old, domain : /\ R = Revisions(d) /\ n = LatestCovers(d) /\ old = scan[d]
                                 /\ domain = Min(scan[d].left)
    OBVIOUS
  <1>3. PICK events : events = {i \in n + 1 .. Len(R) : DomainOf[R[i].key] = domain}
    OBVIOUS
  <1>4. PICK sc : sc = [left |-> old.left \ {domain}, read |-> old.read \cup events,
                        before |-> old.before]
    OBVIOUS
  <1>5. /\ sc.left = old.left \ {domain} /\ sc.read = old.read \cup events
        /\ sc.before = old.before
    BY <1>4
  <1>6. scan' = [scan EXCEPT ![d] = sc] /\ old # None
    BY <1>2, <1>3, <1>4 DEF ReadDomain
  <1>7. pending[d] = None /\ IsScan(old, R, d, n, published[d], headRoots[d][d])
    BY <1>2, <1>6 DEF CycleInv, ScanInv
  <1>8. Len(R) \in Nat /\ n \in Nat
    BY <1>2, RevisionIs, LatestCoversIs
  <1>9. \A i \in n + 1 .. sc.before : i \in sc.read \/ DomainOf[R[i].key] \in sc.left
    <2>1. old.before \in 0..Len(R)
      BY <1>7 DEF IsScan
    <2>2. \A i \in n + 1 .. old.before : i \in n + 1 .. Len(R)
      BY <1>8, <2>1
    <2>3. \A i \in n + 1 .. old.before : i \in old.read \/ DomainOf[R[i].key] \in old.left
      BY <1>7 DEF IsScan
    <2> QED BY <1>3, <1>5, <2>2, <2>3
  <1>10. IsScan(sc, R, d, n, published[d], headRoots[d][d])
    <2>1. sc.read \subseteq n + 1 .. Len(R) /\ sc.left \subseteq Range(DomainOf)
      BY <1>3, <1>5, <1>7 DEF IsScan
    <2> QED BY <1>5, <1>7, <1>9, <2>1 DEF IsScan
  <1>11. ScanInv'
    <2>1. \A e \in Device : Revisions(e)' = Revisions(e) /\ LatestCovers(e)' = LatestCovers(e)
      BY <1>1 DEF Revisions, LatestCovers
    <2>2. DOMAIN scan' = Device /\ scan'[d] = sc /\ \A e \in Device : e # d => scan'[e] = scan[e]
      BY <1>6 DEF CycleInv, ScanInv
    <2>3. ASSUME NEW e \in Device, scan'[e] # None
          PROVE  /\ pending[e] = None
                 /\ IsScan(scan'[e], Revisions(e), e, LatestCovers(e), published[e],
                           headRoots[e][e])
      <3>1. CASE e = d
        BY <1>2, <1>7, <1>10, <2>2, <3>1
      <3>2. CASE e # d
        <4>1. scan'[e] = scan[e]
          BY <2>2, <3>2
        <4> QED BY <2>3, <4>1 DEF CycleInv, ScanInv
      <3> QED BY <3>1, <3>2
    <2> QED BY <1>1, <2>1, <2>2, <2>3 DEF ScanInv
  <1> QED BY <1>1, <1>11 DEF CycleInv, LogInv, SnapsInv, PublishedInv, RootsInv, PendingInv,
                             CountersInv, Revisions

LEMMA NothingToPublishKeeps ==
    ASSUME CycleInv, NEW d \in Device, NothingToPublish(d)
    PROVE  CycleInv'
  <1>1. UNCHANGED <<log, snaps, settingsRoot, headRoots, pending, published, publications,
                    crashes>>
    BY DEF NothingToPublish
  <1>2. LogInv'
    BY <1>1 DEF CycleInv, LogInv
  <1>3. DOMAIN scan' = Device /\ \A e \in Device : scan'[e] # None => scan'[e] = scan[e]
    <2>1. scan' = [scan EXCEPT ![d] = None]
      BY DEF NothingToPublish
    <2> QED BY <2>1 DEF CycleInv, ScanInv
  <1>4. ScanInv'
    BY <1>1, <1>2, <1>3, LogSame, ScansKept
  <1> QED BY <1>1, <1>4 DEF CycleInv, LogInv, SnapsInv, PublishedInv, RootsInv, PendingInv,
                             CountersInv, Revisions

(* What a scan has read. *)
LEMMA EventsReadAre ==
    ASSUME CycleInv, NEW d \in Device, scan[d] # None
    PROVE  /\ scan[d].read \subseteq 1..Len(Revisions(d))
           /\ DOMAIN EventsRead(d) = scan[d].read
           /\ \A i \in scan[d].read : EventsRead(d)[i] = Revisions(d)[i]
           /\ DOMAIN Own(d, EventsRead(d)) = {i \in scan[d].read : Revisions(d)[i].device = d}
           /\ \A i \in DOMAIN Own(d, EventsRead(d)) :
                 Own(d, EventsRead(d))[i] = Revisions(d)[i]
           /\ IsList(Own(d, EventsRead(d)))
  <1>1. PICK R, P, E : R = Revisions(d) /\ P = scan[d].read /\ E = EventsRead(d)
    OBVIOUS
  <1>2. /\ Len(R) \in Nat /\ DOMAIN R = 1..Len(R) /\ LatestCovers(d) \in Nat
        /\ \A i \in 1..Len(R) : IsChange(R[i])
    BY <1>1, RevisionIs, LatestCoversIs
  <1>3. P \subseteq LatestCovers(d) + 1 .. Len(R)
    BY <1>1 DEF CycleInv, ScanInv, IsScan
  <1>4. P \subseteq 1..Len(R)
    BY <1>2, <1>3
  <1>5. E = [i \in P |-> R[i]]
    BY <1>1, <1>2, <1>4 DEF EventsRead, Restrict
  <1>6. DOMAIN E = P /\ \A i \in P : E[i] = R[i]
    BY <1>5
  <1>7. PICK f : f = Own(d, E)
    OBVIOUS
  <1>8. f = [i \in {j \in DOMAIN E : E[j].device = d} |-> E[i]]
    BY <1>7 DEF Own, Restrict
  <1>9. DOMAIN f = {i \in P : R[i].device = d} /\ \A i \in DOMAIN f : f[i] = R[i]
    BY <1>6, <1>8
  <1>10. IsList(f)
    <2>1. DOMAIN f \subseteq 1..Len(R)
      BY <1>4, <1>9
    <2> QED BY <1>2, <1>9, <2>1 DEF IsList
  <1> QED BY <1>1, <1>4, <1>6, <1>7, <1>9, <1>10

(* The sequence of a head is that of an own revision, and when the scan is *)
(* through it is not below any that was there when the scan began.         *)
LEMMA OwnSequencesAre ==
    ASSUME CycleInv, NEW d \in Device, ScanEnded(d), DOMAIN Own(d, EventsRead(d)) # {}
    PROVE  /\ Max(OwnSequences(d)) \in 1..MaxWrites
           /\ HasOwn(Revisions(d), d, Len(Revisions(d)), Max(OwnSequences(d)))
           /\ \A i \in 1..scan[d].before :
                 Revisions(d)[i].device = d => Revisions(d)[i].seq <= Max(OwnSequences(d))
  <1>1. PICK R, P, n, b : /\ R = Revisions(d) /\ P = scan[d].read /\ n = LatestCovers(d)
                          /\ b = scan[d].before
    OBVIOUS
  <1>2. /\ Len(R) \in Nat /\ DOMAIN R = 1..Len(R) /\ n \in Nat
        /\ \A i \in 1..Len(R) : IsChange(R[i])
    BY <1>1, RevisionIs, LatestCoversIs
  <1>3. P \subseteq 1..Len(R) /\ b \in 0..Len(R) /\ \A i \in n + 1 .. b : i \in P
    <2>1. scan[d] # None /\ scan[d].left = {}
      BY DEF ScanEnded
    <2>2. P \subseteq 1..Len(R)
      BY <1>1, <2>1, EventsReadAre
    <2> QED BY <1>1, <2>1, <2>2 DEF CycleInv, ScanInv, IsScan
  <1>4. PICK Q : Q = {i \in 1..Len(R) : (i <= n \/ i \in P) /\ R[i].device = d}
    OBVIOUS
  <1>5. PICK S : S = OwnSequences(d)
    OBVIOUS
  <1>6. S = {R[i].seq : i \in Q}
    <2>1. PICK C, E : C = CoveredEvents(d) /\ E = EventsRead(d)
      OBVIOUS
    <2>2. C = [i \in {j \in 1..Len(R) : j <= n} |-> R[i]]
      BY <1>1, <1>2, <2>1 DEF CoveredEvents, Restrict
    <2>3. E = [i \in P |-> R[i]]
      BY <1>1, <1>2, <1>3, <2>1 DEF EventsRead, Restrict
    <2>4. Range(C) = {R[i] : i \in {j \in 1..Len(R) : j <= n}}
      BY <2>2 DEF Range
    <2>5. Range(E) = {R[i] : i \in P}
      BY <2>3 DEF Range
    <2>6. S = {c.seq : c \in {x \in Range(C) \cup Range(E) : x.device = d}}
      BY <1>5, <2>1 DEF OwnSequences
    <2>7. ASSUME NEW q \in S PROVE \E i \in Q : q = R[i].seq
      <3>1. PICK c \in Range(C) \cup Range(E) : c.device = d /\ q = c.seq
        BY <2>6
      <3>2. PICK i \in 1..Len(R) : c = R[i] /\ (i <= n \/ i \in P)
        BY <1>3, <2>4, <2>5
      <3> QED BY <1>4, <3>1, <3>2
    <2>8. ASSUME NEW i \in Q PROVE R[i].seq \in S
      <3>1. R[i] \in Range(C) \cup Range(E) /\ R[i].device = d
        BY <1>4, <2>4, <2>5
      <3> QED BY <2>6, <3>1
    <2> QED BY <2>7, <2>8
  <1>7. \A i \in Q : R[i].seq \in 1..MaxWrites
    BY <1>2, <1>4, BoundAssumption DEF IsChange, Change
  <1>8. Q # {}
    <2>1. scan[d] # None
      BY DEF ScanEnded
    <2>2. PICK i \in DOMAIN Own(d, EventsRead(d)) : TRUE
      OBVIOUS
    <2>3. i \in P /\ R[i].device = d
      BY <1>1, <2>1, EventsReadAre
    <2> QED BY <1>3, <1>4, <2>3
  <1>9. S \in SUBSET Nat /\ S # {} /\ \A x \in S : x <= MaxWrites
    BY <1>6, <1>7, <1>8, BoundAssumption
  <1>10. Max(S) \in S /\ \A x \in S : x <= Max(S)
    BY <1>9, GreatestNumber, BoundAssumption
  <1>11. HasOwn(R, d, Len(R), Max(S))
    BY <1>4, <1>6, <1>10 DEF HasOwn
  <1>12. ASSUME NEW i \in 1..b, R[i].device = d PROVE R[i].seq <= Max(S)
    <2>1. i \in 1..Len(R) /\ (i <= n \/ i \in n + 1 .. b)
      BY <1>2, <1>3
    <2>2. i \in Q
      BY <1>3, <1>4, <1>12, <2>1
    <2> QED BY <1>6, <1>10, <2>2
  <1>13. Max(S) \in 1..MaxWrites
    BY <1>6, <1>7, <1>10
  <1> QED BY <1>1, <1>5, <1>11, <1>12, <1>13

LEMMA DeviceHeadIs ==
    ASSUME CycleInv, NEW d \in Device, NEW s, IsSnapshotPayload(s), NEW tail, IsList(tail),
           \A i \in DOMAIN tail : tail[i].device = d,
           ScanEnded(d), DOMAIN Own(d, EventsRead(d)) # {}
    PROVE  \E h : /\ h = DeviceHead(d, s, tail)
                  /\ IsOwnHead(h, d)
                  /\ HasOwn(Revisions(d), d, Len(Revisions(d)), h.seq)
                  /\ \A i \in 1..scan[d].before :
                        Revisions(d)[i].device = d => Revisions(d)[i].seq <= h.seq
                  /\ h.before = scan[d].before /\ h.snapshot = s /\ h.tail = tail
  <1>1. PICK n, b : n = Max(OwnSequences(d)) /\ b = scan[d].before
    OBVIOUS
  <1>2. /\ n \in 1..MaxWrites
        /\ HasOwn(Revisions(d), d, Len(Revisions(d)), n)
        /\ \A i \in 1..b : Revisions(d)[i].device = d => Revisions(d)[i].seq <= n
    BY <1>1, OwnSequencesAre
  <1>3. b \in Nat
    <2>1. b \in 0..Len(Revisions(d))
      BY <1>1 DEF ScanEnded, CycleInv, ScanInv, IsScan
    <2> QED BY <2>1, RevisionIs
  <1>4. PICK h : h = DeviceHead(d, s, tail)
    OBVIOUS
  <1>5. PICK p : p = <<d, publications[d] + 1>>
    OBVIOUS
  <1>6. p \in {d} \X (Nat \ {0})
    <2>1. publications[d] \in Nat
      BY DEF CycleInv, CountersInv
    <2> QED BY <1>5, <2>1
  <1>7. h = [device |-> d, seq |-> n, before |-> b, id |-> p, snapshot |-> s, tail |-> tail]
    BY <1>1, <1>4, <1>5 DEF DeviceHead
  <1>8. /\ h.device = d /\ h.seq = n /\ h.before = b /\ h.id = p /\ h.snapshot = s
        /\ h.tail = tail
    BY <1>7
  <1>9. IsOwnHead(h, d)
    BY <1>2, <1>3, <1>6, <1>8 DEF IsOwnHead, IsManifest
  <1> QED BY <1>1, <1>2, <1>4, <1>8, <1>9

(* The first snapshot covers everything that was there when the scan began. *)
LEMMA FullSnapshotIs ==
    ASSUME CycleInv, NEW d \in Device, PublishFullSnapshotHead(d)
    PROVE  \E n, D : /\ FullSnapshot(d) = SnapshotPayload(d, n, D)
                     /\ IsSnapshotPayload(FullSnapshot(d))
                     /\ D = Domains(EventsRead(d))
                     /\ n \in scan[d].read /\ \A i \in scan[d].read : i <= n
                     /\ n \in 1..Len(Revisions(d))
  <1>1. PICK R, P, E : R = Revisions(d) /\ P = scan[d].read /\ E = EventsRead(d)
    OBVIOUS
  <1>2. scan[d] # None
    BY DEF PublishFullSnapshotHead, ScanEnded
  <1>3. /\ P \subseteq 1..Len(R) /\ DOMAIN E = P /\ \A i \in P : E[i] = R[i]
        /\ P # {} /\ Len(R) \in Nat
    <2>1. P # {}
      BY <1>1, <1>2, EventsReadAre DEF PublishFullSnapshotHead
    <2> QED BY <1>1, <1>2, <2>1, EventsReadAre, RevisionIs
  <1>4. PICK n, D : n = Max(P) /\ D = Domains(E)
    OBVIOUS
  <1>5. n \in P /\ \A i \in P : i <= n
    <2>1. P \in SUBSET Nat /\ \A i \in P : i <= Len(R)
      BY <1>3
    <2> QED BY <1>3, <1>4, <2>1, GreatestNumber
  <1>6. D \in SUBSET Range(DomainOf)
    <2>1. \A i \in DOMAIN E : E[i].key \in Key
      BY <1>1, <1>3, RevisionIs DEF IsChange, Change
    <2> QED BY <1>4, <2>1, DomainsAreKnown
  <1>7. FullSnapshot(d) = SnapshotPayload(d, n, D)
    BY <1>1, <1>4 DEF FullSnapshot
  <1>8. n \in 0..Len(Revisions(d)) /\ n \in 1..Len(Revisions(d))
    BY <1>1, <1>3, <1>5
  <1>9. IsSnapshotPayload(SnapshotPayload(d, n, D))
    BY <1>6, <1>8, SnapshotPayloadIs
  <1> QED BY <1>1, <1>4, <1>5, <1>7, <1>8, <1>9

LEMMA FullSnapshotHeadIs ==
    ASSUME CycleInv, NEW d \in Device, PublishFullSnapshotHead(d)
    PROVE  \E s, h : /\ s = FullSnapshot(d) /\ IsSnapshotPayload(s)
                     /\ h = DeviceHead(d, s, << >>)
                     /\ IsOwnHead(h, d)
                     /\ HasOwn(Revisions(d), d, Len(Revisions(d)), h.seq)
                     /\ \A i \in 1..scan[d].before :
                           Revisions(d)[i].device = d => Revisions(d)[i].seq <= h.seq
                     /\ h.before = scan[d].before /\ h.snapshot = s /\ h.tail = << >>
                     /\ Upload(d, {s}, {h})
  <1>1. PICK s, f : s = FullSnapshot(d) /\ f = << >>
    OBVIOUS
  <1>2. IsSnapshotPayload(s)
    BY <1>1, FullSnapshotIs
  <1>3. DOMAIN f = {}
    BY <1>1
  <1>4. IsList(f)
    <2>1. 0 \in Nat
      OBVIOUS
    <2> QED BY <1>3, <2>1 DEF IsList
  <1>5. ScanEnded(d) /\ DOMAIN Own(d, EventsRead(d)) # {}
        /\ Upload(d, {s}, {DeviceHead(d, s, f)})
    BY <1>1 DEF PublishFullSnapshotHead
  <1>6. \A i \in DOMAIN f : f[i].device = d
    BY <1>3
  <1>7. PICK h : /\ h = DeviceHead(d, s, f)
                 /\ IsOwnHead(h, d)
                 /\ HasOwn(Revisions(d), d, Len(Revisions(d)), h.seq)
                 /\ \A i \in 1..scan[d].before :
                       Revisions(d)[i].device = d => Revisions(d)[i].seq <= h.seq
                 /\ h.before = scan[d].before /\ h.snapshot = s /\ h.tail = f
    BY <1>2, <1>4, <1>5, <1>6, DeviceHeadIs
  <1> QED BY <1>1, <1>2, <1>5, <1>7

LEMMA PublishFullSnapshotHeadKeeps ==
    ASSUME CycleInv, NEW d \in Device, PublishFullSnapshotHead(d)
    PROVE  CycleInv'
  <1>1. PICK s, h : /\ IsSnapshotPayload(s) /\ IsOwnHead(h, d)
                    /\ HasOwn(Revisions(d), d, Len(Revisions(d)), h.seq)
                    /\ Upload(d, {s}, {h})
    BY FullSnapshotHeadIs
  <1>2. \E n \in Nat : \A x \in {s} : x.covers <= n
    <2>1. s.covers \in Nat
      BY <1>1 DEF IsSnapshotPayload
    <2>2. s.covers <= s.covers
      BY <2>1
    <2> QED BY <2>1, <2>2
  <1>3. \A x \in {h} : IsOwnHead(x, d) /\ HasOwn(Revisions(d), d, Len(Revisions(d)), x.seq)
    BY <1>1
  <1>4. \A x \in {s} : IsSnapshotPayload(x)
    BY <1>1
  <1>5. {h} # {} => snaps[d] # {} \/ {s} # {}
    OBVIOUS
  <1> QED BY <1>1, <1>2, <1>3, <1>4, <1>5, UploadKeeps

LEMMA TailHeadIs ==
    ASSUME CycleInv, NEW d \in Device, PublishTailHead(d)
    PROVE  \E h : /\ h = DeviceHead(d, LatestSyncSnapshot(d), Own(d, EventsRead(d)))
                  /\ IsOwnHead(h, d)
                  /\ HasOwn(Revisions(d), d, Len(Revisions(d)), h.seq)
                  /\ \A i \in 1..scan[d].before :
                        Revisions(d)[i].device = d => Revisions(d)[i].seq <= h.seq
                  /\ h.before = scan[d].before /\ h.snapshot = LatestSyncSnapshot(d)
                  /\ h.tail = Own(d, EventsRead(d))
                  /\ Upload(d, {}, {h})
  <1>1. PICK s, f : s = LatestSyncSnapshot(d) /\ f = Own(d, EventsRead(d))
    OBVIOUS
  <1>2. snaps[d] # {} /\ ScanEnded(d) /\ DOMAIN f # {} /\ Upload(d, {}, {DeviceHead(d, s, f)})
    BY <1>1 DEF PublishTailHead
  <1>3. IsSnapshotPayload(s)
    BY <1>1, <1>2, LatestCoversIs DEF CycleInv, SnapsInv
  <1>4. IsList(f) /\ \A i \in DOMAIN f : f[i].device = d
    <2>1. scan[d] # None
      BY <1>2 DEF ScanEnded
    <2>2. PICK R, P : R = Revisions(d) /\ P = scan[d].read
      OBVIOUS
    <2>3. /\ IsList(f) /\ DOMAIN f = {i \in P : R[i].device = d}
          /\ \A i \in DOMAIN f : f[i] = R[i]
      BY <1>1, <2>1, <2>2, EventsReadAre
    <2> QED BY <2>3
  <1>5. PICK h : /\ h = DeviceHead(d, s, f)
                 /\ IsOwnHead(h, d)
                 /\ HasOwn(Revisions(d), d, Len(Revisions(d)), h.seq)
                 /\ \A i \in 1..scan[d].before :
                       Revisions(d)[i].device = d => Revisions(d)[i].seq <= h.seq
                 /\ h.before = scan[d].before /\ h.snapshot = s /\ h.tail = f
    BY <1>1, <1>2, <1>3, <1>4, DeviceHeadIs
  <1> QED BY <1>1, <1>2, <1>5

LEMMA PublishTailHeadKeeps ==
    ASSUME CycleInv, NEW d \in Device, PublishTailHead(d)
    PROVE  CycleInv'
  <1>1. PICK h : /\ IsOwnHead(h, d)
                 /\ HasOwn(Revisions(d), d, Len(Revisions(d)), h.seq)
                 /\ Upload(d, {}, {h})
    BY TailHeadIs
  <1>2. \A x \in {h} : IsOwnHead(x, d) /\ HasOwn(Revisions(d), d, Len(Revisions(d)), x.seq)
    BY <1>1
  <1>3. \E n \in Nat : \A x \in {} : x.covers <= n
    <2>1. 0 \in Nat
      OBVIOUS
    <2> QED BY <2>1
  <1>4. \A x \in {} : IsSnapshotPayload(x)
    OBVIOUS
  <1>5. {h} # {} => snaps[d] # {} \/ {} # {}
    BY DEF PublishTailHead
  <1> QED BY <1>1, <1>2, <1>3, <1>4, <1>5, UploadKeeps

LEMMA CompactionIs ==
    ASSUME CycleInv, NEW d \in Device, NEW n \in 1..Len(Revisions(d)),
           CompactAndPublishSettings(d, n)
    PROVE  \E s : /\ s = SnapshotPayload(d, LatestCovers(d) + n,
                            Domains(Restrict(Revisions(d),
                                       LatestCovers(d) + 1 .. LatestCovers(d) + n)))
                  /\ IsSnapshotPayload(s)
                  /\ LatestCovers(d) + n \in 0..Len(Revisions(d))
                  /\ Upload(d, {s}, {})
  <1> DEFINE f == Restrict(Revisions(d), LatestCovers(d) + 1 .. LatestCovers(d) + n)
  <1>1. LatestCovers(d) + n \in 0..Len(Revisions(d)) /\ LatestCovers(d) \in Nat
    <2>1. /\ LatestCovers(d) \in Nat /\ n \in Nat /\ Len(Revisions(d)) \in Nat
          /\ LatestCovers(d) + n + MinTailChangeCount <= Len(Revisions(d))
      BY LatestCoversIs, RevisionIs DEF CompactAndPublishSettings
    <2> QED BY <2>1, BoundAssumption
  <1>2. Domains(f) \in SUBSET Range(DomainOf)
    <2>1. DOMAIN f \subseteq 1..Len(Revisions(d))
          /\ \A i \in DOMAIN f : f[i] = Revisions(d)[i]
      BY <1>1, RevisionIs DEF Restrict
    <2> HIDE DEF f
    <2>2. \A i \in DOMAIN f : f[i].key \in Key
      BY <2>1, RevisionIs DEF IsChange, Change
    <2> QED BY <2>2, DomainsAreKnown
  <1>3. PICK s : s = SnapshotPayload(d, LatestCovers(d) + n, Domains(f))
    OBVIOUS
  <1>4. IsSnapshotPayload(s)
    <2> HIDE DEF f
    <2> QED BY <1>1, <1>2, <1>3, SnapshotPayloadIs
  <1>5. Upload(d, {s}, {})
    BY <1>3 DEF CompactAndPublishSettings
  <1> QED BY <1>1, <1>3, <1>4, <1>5

LEMMA CompactAndPublishSettingsKeeps ==
    ASSUME CycleInv, NEW d \in Device, NEW n \in 1..Len(Revisions(d)),
           CompactAndPublishSettings(d, n)
    PROVE  CycleInv'
  <1>1. PICK s : IsSnapshotPayload(s) /\ Upload(d, {s}, {})
    BY CompactionIs
  <1>2. \E m \in Nat : \A x \in {s} : x.covers <= m
    <2>1. s.covers \in Nat
      BY <1>1 DEF IsSnapshotPayload
    <2>2. s.covers <= s.covers
      BY <2>1
    <2> QED BY <2>1, <2>2
  <1>3. \A x \in {} : IsOwnHead(x, d) /\ HasOwn(Revisions(d), d, Len(Revisions(d)), x.seq)
    OBVIOUS
  <1>4. \A x \in {s} : IsSnapshotPayload(x)
    BY <1>1
  <1>5. {} # {} => snaps[d] # {} \/ {s} # {}
    OBVIOUS
  <1> QED BY <1>1, <1>2, <1>3, <1>4, <1>5, UploadKeeps

LEMMA RecordedSnapshots ==
    ASSUME NEW S, \A s \in S : IsSnapshotPayload(s), \E n \in Nat : \A s \in S : s.covers <= n,
           NEW T, \A s \in T : IsSnapshotPayload(s), \E n \in Nat : \A s \in T : s.covers <= n
    PROVE  /\ \A s \in RecordSyncSnapshots(S, T) : IsSnapshotPayload(s)
           /\ \E n \in Nat : \A s \in RecordSyncSnapshots(S, T) : s.covers <= n
           /\ S # {} \/ T # {} => RecordSyncSnapshots(S, T) # {}
           /\ RecordSyncSnapshots(S, T) \subseteq S \cup T
  <1>1. RecordSyncSnapshots(S, T) \subseteq S \cup T
    BY DEF RecordSyncSnapshots
  <1>2. PICK m, n \in Nat : (\A s \in S : s.covers <= m) /\ (\A s \in T : s.covers <= n)
    OBVIOUS
  <1>3. \A s \in S \cup T : s.covers \in Nat
    BY DEF IsSnapshotPayload
  <1>4. m + n \in Nat /\ \A s \in S \cup T : s.covers <= m + n
    BY <1>2, <1>3
  <1>5. S # {} \/ T # {} => RecordSyncSnapshots(S, T) # {}
    BY DEF RecordSyncSnapshots
  <1> QED BY <1>1, <1>4, <1>5

LEMMA OneSnapshot ==
    ASSUME NEW s, IsSnapshotPayload(s)
    PROVE  (\A x \in {s} : IsSnapshotPayload(x)) /\ \E n \in Nat : \A x \in {s} : x.covers <= n
  <1>1. s.covers \in Nat
    BY DEF IsSnapshotPayload
  <1>2. s.covers <= s.covers
    BY <1>1
  <1> QED BY <1>1, <1>2

(* A set of snapshots of d is recorded. *)
LEMMA SnapsRecorded ==
    ASSUME CycleInv, NEW d \in Device,
           NEW T, \A s \in T : IsSnapshotPayload(s), \E n \in Nat : \A s \in T : s.covers <= n,
           snaps' = [snaps EXCEPT ![d] = RecordSyncSnapshots(snaps[d], T)]
    PROVE  /\ SnapsInv'
           /\ \A e \in Device : snaps[e] # {} => snaps'[e] # {}
           /\ T # {} => snaps'[d] # {}
  <1>1. PICK S : S = snaps[d]
    OBVIOUS
  <1>2. PICK R : R = RecordSyncSnapshots(S, T)
    OBVIOUS
  <1>3. (\A s \in S : IsSnapshotPayload(s)) /\ \E n \in Nat : \A s \in S : s.covers <= n
    BY <1>1 DEF CycleInv, SnapsInv
  <1>4. /\ \A s \in R : IsSnapshotPayload(s)
        /\ \E n \in Nat : \A s \in R : s.covers <= n
        /\ S # {} \/ T # {} => R # {}
    BY <1>2, <1>3, RecordedSnapshots
  <1>5. /\ DOMAIN snaps' = Device /\ snaps'[d] = R
        /\ \A e \in Device : e # d => snaps'[e] = snaps[e]
    BY <1>1, <1>2 DEF CycleInv, SnapsInv
  <1>6. ASSUME NEW e \in Device
        PROVE  /\ \A s \in snaps'[e] : IsSnapshotPayload(s)
               /\ \E n \in Nat : \A s \in snaps'[e] : s.covers <= n
    <2>1. CASE e = d
      BY <1>4, <1>5, <2>1
    <2>2. CASE e # d
      BY <1>5, <2>2 DEF CycleInv, SnapsInv
    <2> QED BY <2>1, <2>2
  <1>7. SnapsInv'
    BY <1>5, <1>6 DEF SnapsInv
  <1> QED BY <1>1, <1>4, <1>5, <1>7

LEMMA RecordPublicationKeeps ==
    ASSUME CycleInv, NEW d \in Device, RecordPublication(d)
    PROVE  CycleInv'
  <1>1. PICK p : p = pending[d] /\ p # None
    BY DEF RecordPublication
  <1>2. /\ IsPublication(p) /\ p.heads \subseteq published[d]
        /\ p.heads # {} => snaps[d] # {} \/ p.snaps # {}
    BY <1>1 DEF CycleInv, PendingInv
  <1>3. UNCHANGED <<log, scan, published, publications, crashes>>
    BY DEF RecordPublication
  <1>4. LogInv' /\ PublishedInv' /\ CountersInv'
    BY <1>3 DEF CycleInv, LogInv, PublishedInv, CountersInv, Revisions
  <1>5. snaps' = [snaps EXCEPT ![d] = RecordSyncSnapshots(snaps[d], p.snaps)]
    BY <1>1 DEF RecordPublication
  <1>6. /\ SnapsInv'
        /\ \A e \in Device : snaps[e] # {} => snaps'[e] # {}
        /\ p.snaps # {} => snaps'[d] # {}
    BY <1>2, <1>5, SnapsRecorded DEF IsPublication
  <1>7. RootsInv'
    <2>1. settingsRoot' \in [Device -> (Device \X Nat) \cup {None}]
      <3>1. settingsRoot' = [settingsRoot EXCEPT ![d] = p.id]
        BY <1>1 DEF RecordPublication
      <3>2. p.id \in Device \X Nat
        BY <1>2 DEF IsPublication
      <3> QED BY <3>1, <3>2 DEF CycleInv, RootsInv
    <2>2. PICK r : /\ headRoots' = [headRoots EXCEPT ![d][d] = r]
                   /\ r = IF p.heads = {} THEN headRoots[d][d] ELSE CHOOSE h \in p.heads : TRUE
      BY <1>1 DEF RecordPublication
    <2>3. /\ DOMAIN headRoots = Device
          /\ \A e \in Device : /\ DOMAIN headRoots[e] = Device
                               /\ \A g \in Device : headRoots[e][g] \in published[g] \cup {None}
                               /\ headRoots[e][e] # None => snaps[e] # {}
      BY DEF CycleInv, RootsInv
    <2>4. r \in published[d] \cup {None} /\ (r # None => snaps'[d] # {})
      <3>1. CASE p.heads = {}
        BY <1>6, <2>2, <2>3, <3>1
      <3>2. CASE p.heads # {}
        BY <1>2, <1>6, <2>2, <3>2
      <3> QED BY <3>1, <3>2
    <2>5. DOMAIN headRoots' = Device /\ \A e \in Device : DOMAIN headRoots'[e] = Device
      BY <2>2, <2>3
    <2>6. \A e, g \in Device : headRoots'[e][g] = IF e = d /\ g = d THEN r ELSE headRoots[e][g]
      BY <2>2, <2>3
    <2>7. \A e, g \in Device : headRoots'[e][g] \in published[g] \cup {None}
      BY <2>3, <2>4, <2>6
    <2>8. \A e \in Device : headRoots'[e][e] # None => snaps'[e] # {}
      BY <1>6, <2>3, <2>4, <2>6
    <2> QED BY <1>3, <2>1, <2>5, <2>7, <2>8 DEF RootsInv
  <1>8. PendingInv'
    <2>1. pending' = [pending EXCEPT ![d] = None]
      BY DEF RecordPublication
    <2>2. DOMAIN pending' = Device /\ pending'[d] = None
          /\ \A e \in Device : e # d => pending'[e] = pending[e] /\ snaps'[e] = snaps[e]
      BY <1>5, <2>1 DEF CycleInv, PendingInv, SnapsInv
    <2>3. ASSUME NEW e \in Device, pending'[e] # None
          PROVE  /\ IsPublication(pending'[e])
                 /\ pending'[e].heads \subseteq published'[e]
                 /\ pending'[e].heads # {} => snaps'[e] # {} \/ pending'[e].snaps # {}
      <3>1. pending'[e] = pending[e] /\ snaps'[e] = snaps[e] /\ published'[e] = published[e]
        BY <1>3, <2>2, <2>3
      <3> QED BY <2>3, <3>1 DEF CycleInv, PendingInv
    <2> QED BY <2>2, <2>3 DEF PendingInv
  <1>9. ScanInv'
    <2>1. DOMAIN scan' = Device /\ scan[d] = None
      BY <1>1, <1>3 DEF CycleInv, ScanInv
    <2>2. \A e \in Device : e # d => /\ pending'[e] = pending[e] /\ snaps'[e] = snaps[e]
                                    /\ headRoots'[e][e] = headRoots[e][e]
      BY DEF RecordPublication, CycleInv, PendingInv, SnapsInv, RootsInv
    <2> QED BY <1>3, <1>4, <2>1, <2>2, LogSame, ScansKept
  <1> QED BY <1>4, <1>6, <1>7, <1>8, <1>9 DEF CycleInv

LEMMA CrashKeeps ==
    ASSUME CycleInv, NEW d \in Device, Crash(d)
    PROVE  CycleInv'
  <1>1. UNCHANGED <<log, snaps, settingsRoot, headRoots, published, publications>>
    BY DEF Crash
  <1>2. LogInv' /\ SnapsInv' /\ PublishedInv' /\ RootsInv'
    BY <1>1 DEF CycleInv, LogInv, SnapsInv, PublishedInv, RootsInv, Revisions
  <1>3. CountersInv'
    BY <1>1, BoundAssumption DEF Crash, CycleInv, CountersInv
  <1>4. pending' = [pending EXCEPT ![d] = None]
    BY DEF Crash
  <1>5. DOMAIN pending' = Device /\ \A e \in Device : pending'[e] = None \/ pending'[e] = pending[e]
    BY <1>4 DEF CycleInv, PendingInv
  <1>6. PendingInv'
    BY <1>1, <1>5 DEF CycleInv, PendingInv
  <1>7. ScanInv'
    <2>1. scan' = [scan EXCEPT ![d] = None]
      BY DEF Crash
    <2>2. /\ DOMAIN scan' = Device
          /\ \A e \in Device : scan'[e] # None => e # d /\ scan'[e] = scan[e]
      BY <2>1 DEF CycleInv, ScanInv
    <2>3. \A e \in Device : e # d => pending'[e] = pending[e]
      BY <1>4 DEF CycleInv, PendingInv
    <2> QED BY <1>1, <1>2, <2>2, <2>3, LogSame, ScansKept
  <1> QED BY <1>2, <1>3, <1>6, <1>7 DEF CycleInv

(* A manifest is applied, its snapshot recorded and its root stored. *)
LEMMA AppliedKeeps ==
    ASSUME CycleInv, NEW d \in Device, NEW m, IsManifest(m), NEW id, id \in Device \X Nat,
           log' = [log EXCEPT ![d] = ApplyManifest(log[d], m)],
           snaps' = [snaps EXCEPT ![d] = RecordSyncSnapshots(snaps[d], {m.snapshot})],
           settingsRoot' = [settingsRoot EXCEPT ![d] = id],
           UNCHANGED <<scan, pending, published, publications>>, scan[d] = None,
           \A e \in Device : e # d => headRoots'[e][e] = headRoots[e][e]
    PROVE  /\ LogInv' /\ SnapsInv' /\ PublishedInv' /\ PendingInv' /\ ScanInv'
           /\ \A e \in Device : log[e].changes \subseteq log'[e].changes
           /\ \A e \in Device : snaps[e] # {} => snaps'[e] # {}
           /\ settingsRoot' \in [Device -> (Device \X Nat) \cup {None}]
  <1>1. PICK t, u : t = log[d] /\ u = ApplyManifest(t, m)
    OBVIOUS
  <1>2. IsTable(t)
    BY <1>1 DEF CycleInv, LogInv
  <1>3. IsTable(u) /\ t.changes \subseteq u.changes /\ Extends(t.revisions, u.revisions)
    BY <1>1, <1>2, ApplyManifestIsTable
  <1>4. /\ DOMAIN log' = Device
        /\ \A e \in Device : /\ IsTable(log'[e]) /\ log[e].changes \subseteq log'[e].changes
                             /\ Extends(log[e].revisions, log'[e].revisions)
    BY <1>1, <1>3, LogSame DEF CycleInv, LogInv
  <1>5. LogInv' /\ PublishedInv'
    BY <1>4, LogGrows
  <1>6. SnapsInv' /\ \A e \in Device : snaps[e] # {} => snaps'[e] # {}
    <2>1. PICK T : T = {m.snapshot}
      OBVIOUS
    <2>2. (\A s \in T : IsSnapshotPayload(s)) /\ \E n \in Nat : \A s \in T : s.covers <= n
      BY <2>1, OneSnapshot DEF IsManifest
    <2>3. snaps' = [snaps EXCEPT ![d] = RecordSyncSnapshots(snaps[d], T)]
      BY <2>1
    <2> QED BY <2>2, <2>3, SnapsRecorded
  <1>7. PendingInv'
    BY <1>6 DEF CycleInv, PendingInv
  <1>8. settingsRoot' \in [Device -> (Device \X Nat) \cup {None}]
    BY DEF CycleInv, RootsInv
  <1>9. ScanInv'
    <2>1. DOMAIN scan' = Device
      BY DEF CycleInv, ScanInv
    <2>2. \A e \in Device : e # d => snaps'[e] = snaps[e]
      BY DEF CycleInv, SnapsInv
    <2> QED BY <1>4, <1>5, <2>1, <2>2, ScansKept
  <1> QED BY <1>4, <1>5, <1>6, <1>7, <1>8, <1>9

LEMMA PullDeviceHeadKeeps ==
    ASSUME CycleInv, NEW d \in Device, NEW e \in Device, NEW h \in published[e],
           PullDeviceHead(d, h)
    PROVE  CycleInv' /\ h.device = e /\ e # d
  <1>1. IsOwnHead(h, e)
    BY DEF CycleInv, PublishedInv
  <1>2. IsManifest(h) /\ h.id \in Device \X Nat /\ h.device = e /\ e # d
    BY <1>1 DEF IsOwnHead, PullDeviceHead
  <1>3. /\ LogInv' /\ SnapsInv' /\ PublishedInv' /\ PendingInv' /\ ScanInv'
        /\ \A x \in Device : snaps[x] # {} => snaps'[x] # {}
        /\ settingsRoot' \in [Device -> (Device \X Nat) \cup {None}]
    <2>1. /\ log' = [log EXCEPT ![d] = ApplyManifest(log[d], h)]
          /\ snaps' = [snaps EXCEPT ![d] = RecordSyncSnapshots(snaps[d], {h.snapshot})]
          /\ settingsRoot' = [settingsRoot EXCEPT ![d] = h.id]
          /\ UNCHANGED <<scan, pending, published, publications>> /\ scan[d] = None
      BY DEF PullDeviceHead
    <2>2. \A x \in Device : x # d => headRoots'[x][x] = headRoots[x][x]
      BY DEF PullDeviceHead, CycleInv, RootsInv
    <2> QED BY <1>2, <2>1, <2>2, AppliedKeeps
  <1>4. CountersInv'
    BY DEF PullDeviceHead, CycleInv, CountersInv
  <1>5. RootsInv'
    <2>1. headRoots' = [headRoots EXCEPT ![d][e] = h] /\ published' = published
      BY <1>2 DEF PullDeviceHead
    <2>2. /\ DOMAIN headRoots = Device
          /\ \A x \in Device : /\ DOMAIN headRoots[x] = Device
                               /\ \A g \in Device : headRoots[x][g] \in published[g] \cup {None}
                               /\ headRoots[x][x] # None => snaps[x] # {}
      BY DEF CycleInv, RootsInv
    <2>3. DOMAIN headRoots' = Device /\ \A x \in Device : DOMAIN headRoots'[x] = Device
      BY <2>1, <2>2
    <2>4. \A x, g \in Device : headRoots'[x][g] = IF x = d /\ g = e THEN h ELSE headRoots[x][g]
      BY <2>1, <2>2
    <2>5. \A x, g \in Device : headRoots'[x][g] \in published[g] \cup {None}
      BY <2>2, <2>4
    <2>6. \A x \in Device : headRoots'[x][x] # None => snaps'[x] # {}
      BY <1>2, <1>3, <2>2, <2>4
    <2> QED BY <1>3, <2>1, <2>3, <2>5, <2>6 DEF RootsInv
  <1> QED BY <1>2, <1>3, <1>4, <1>5 DEF CycleInv

LEMMA CycleInvNext == CycleInv /\ [Next]_vars => CycleInv'
  <1> SUFFICES ASSUME CycleInv, [Next]_vars PROVE CycleInv'
    OBVIOUS
  <1>1. CASE UNCHANGED vars
    BY <1>1 DEF vars, CycleInv, LogInv, SnapsInv, PublishedInv, RootsInv, PendingInv, CountersInv,
                ScanInv, Revisions, LatestCovers
  <1>2. CASE Next
    <2>1. PICK d \in Device :
             \/ d \in Writers /\ \E k \in Key : SetSyncSettingText(d, k)
             \/ BeginScan(d)
             \/ ReadDomain(d)
             \/ NothingToPublish(d)
             \/ PublishFullSnapshotHead(d)
             \/ PublishTailHead(d)
             \/ \E n \in 1..Len(Revisions(d)) : CompactAndPublishSettings(d, n)
             \/ RecordPublication(d)
             \/ Crash(d)
             \/ \E e \in Device : \E h \in published[e] : PullDeviceHead(d, h)
      BY <1>2 DEF Next
    <2> QED BY <2>1, SetSyncSettingTextKeeps, BeginScanKeeps, ReadDomainKeeps,
               NothingToPublishKeeps, PublishFullSnapshotHeadKeeps, PublishTailHeadKeeps, CompactAndPublishSettingsKeeps, RecordPublicationKeeps,
               CrashKeeps, PullDeviceHeadKeeps
  <1> QED BY <1>1, <1>2

(***************************************************************************)
(* Whoever writes, compacts, publishes and pulls, the tables, snapshots,   *)
(* heads and roots of all devices stay well-formed, and a stored root is   *)
(* one that was published.                                                 *)
(***************************************************************************)
THEOREM CycleTypeCorrect == Spec => []TypeOK
  <1>1. CycleInv => TypeOK
    BY CycleInvImpliesTypeOK
  <1> QED BY <1>1, CycleInvInit, CycleInvNext, PTL DEF Spec

-----------------------------------------------------------------------------
(* What a step publishes: every new head has a sequence that is not below  *)
(* what was there when its scan began, and comes from one of the two ways  *)
(* to publish a head.                                                      *)

NewHeadsForward ==
    \A d \in Device : \A h \in published'[d] \ published[d] :
       /\ headRoots[d][d] # None => headRoots[d][d].seq < h.seq
       /\ \A g \in published[d] : g.seq <= h.seq

LEMMA UploadForward ==
    ASSUME CycleInv, NEW d \in Device, NEW newSnaps, NEW newHeads,
           Upload(d, newSnaps, newHeads),
           \A h \in newHeads : /\ scan[d] # None /\ h.seq \in Nat
                               /\ \A i \in 1..scan[d].before :
                                     Revisions(d)[i].device = d => Revisions(d)[i].seq <= h.seq
    PROVE  NewHeadsForward
  <1>1. published' = [published EXCEPT ![d] = published[d] \cup newHeads]
    BY DEF Upload
  <1>2. ASSUME NEW e \in Device, NEW h \in published'[e] \ published[e]
        PROVE  e = d /\ h \in newHeads
    BY <1>1 DEF CycleInv, PublishedInv
  <1>3. ASSUME NEW h \in newHeads
        PROVE  /\ headRoots[d][d] # None => headRoots[d][d].seq < h.seq
               /\ \A g \in published[d] : g.seq <= h.seq
    <2>1. PICK R, b, r : R = Revisions(d) /\ b = scan[d].before /\ r = headRoots[d][d]
      OBVIOUS
    <2>2. /\ \A g \in published[d] : HasOwn(R, d, b, g.seq)
          /\ r # None => \E i \in 1..b : R[i].device = d /\ R[i].seq > r.seq
          /\ b \in 0..Len(R)
      BY <1>3, <2>1 DEF CycleInv, ScanInv, IsScan
    <2>3. \A i \in 1..b : R[i].device = d => R[i].seq <= h.seq
      BY <1>3, <2>1
    <2>4. \A g \in published[d] : g.seq <= h.seq
      BY <2>2, <2>3 DEF HasOwn
    <2>5. ASSUME r # None PROVE r.seq < h.seq
      <3>1. PICK i \in 1..b : R[i].device = d /\ R[i].seq > r.seq
        BY <2>2, <2>5
      <3>2. R[i].seq \in Nat
        <4>1. i \in 1..Len(R)
          BY <2>1, <2>2, RevisionIs
        <4> QED BY <2>1, <4>1, RevisionIs DEF IsChange, Change
      <3>3. r.seq \in Nat
        <4>1. r \in published[d]
          BY <2>1, <2>5 DEF CycleInv, RootsInv
        <4>2. r.seq \in 1..MaxWrites
          BY <4>1 DEF CycleInv, PublishedInv, IsOwnHead
        <4> QED BY <4>2
      <3> QED BY <1>3, <2>3, <3>1, <3>2, <3>3
    <2> QED BY <2>1, <2>4, <2>5
  <1> QED BY <1>2, <1>3 DEF NewHeadsForward

LEMMA TailHeadForward ==
    ASSUME CycleInv, NEW d \in Device, PublishTailHead(d)
    PROVE  NewHeadsForward
  <1>1. PICK h : /\ Upload(d, {}, {h}) /\ IsOwnHead(h, d)
                 /\ \A i \in 1..scan[d].before :
                       Revisions(d)[i].device = d => Revisions(d)[i].seq <= h.seq
    BY TailHeadIs
  <1>2. h.seq \in Nat /\ scan[d] # None
    BY <1>1 DEF IsOwnHead, PublishTailHead, ScanEnded
  <1> QED BY <1>1, <1>2, UploadForward

LEMMA FullSnapshotHeadForward ==
    ASSUME CycleInv, NEW d \in Device, PublishFullSnapshotHead(d)
    PROVE  NewHeadsForward
  <1>1. PICK s, h : /\ Upload(d, {s}, {h}) /\ IsOwnHead(h, d)
                    /\ \A i \in 1..scan[d].before :
                          Revisions(d)[i].device = d => Revisions(d)[i].seq <= h.seq
    BY FullSnapshotHeadIs
  <1>2. h.seq \in Nat /\ scan[d] # None
    BY <1>1 DEF IsOwnHead, PublishFullSnapshotHead, ScanEnded
  <1> QED BY <1>1, <1>2, UploadForward

LEMMA NextForward == CycleInv /\ [Next]_vars => NewHeadsForward
  <1> SUFFICES ASSUME CycleInv, [Next]_vars PROVE NewHeadsForward
    OBVIOUS
  <1>1. CASE published' = published
    BY <1>1 DEF NewHeadsForward
  <1>2. CASE published' # published
    <2>1. PICK d \in Device :
             \/ PublishFullSnapshotHead(d)
             \/ PublishTailHead(d)
             \/ \E n \in 1..Len(Revisions(d)) : CompactAndPublishSettings(d, n)
      BY <1>2 DEF Next, vars, SetSyncSettingText, BeginScan, ReadDomain, NothingToPublish,
                  RecordPublication, Crash, PullDeviceHead
    <2>2. ASSUME NEW n \in 1..Len(Revisions(d)), CompactAndPublishSettings(d, n)
          PROVE  NewHeadsForward
      <3>1. PICK s : Upload(d, {s}, {})
        BY <2>2, CompactionIs
      <3> QED BY <3>1, UploadForward
    <2> QED BY <2>1, <2>2, TailHeadForward, FullSnapshotHeadForward
  <1> QED BY <1>1, <1>2

(***************************************************************************)
(* Whoever writes, compacts, publishes and pulls, also while the domains   *)
(* are read for a publication, and wherever devices crash before, between  *)
(* or after an upload and its record: a new head is ahead of the stored    *)
(* own head root and never behind any head the device published.           *)
(***************************************************************************)
THEOREM PublishesForwardCorrect == Spec => PublishesForward
  <1>1. CycleInv /\ [Next]_vars =>
           [\A d \in Device : \A h \in published'[d] \ published[d] :
               /\ headRoots[d][d] # None => headRoots[d][d].seq < h.seq
               /\ \A g \in published[d] : g.seq <= h.seq]_vars
    BY NextForward DEF NewHeadsForward
  <1> QED BY <1>1, CycleInvInit, CycleInvNext, PTL DEF Spec, PublishesForward

-----------------------------------------------------------------------------
(* One device w writes.  Its revisions R are then numbered as its changes  *)
(* are, and whatever any device knows is a copy of one of them, made by    *)
(* the tail or by the snapshot of a head.                                  *)

IsHistory(R, w) ==
    \A i \in 1..Len(R) : /\ R[i].device = w /\ R[i].seq = i /\ R[i].clock = i
                         /\ R[i].value = <<w, i>>

IsCopy(c, R, w) ==
    /\ c.device \in {w, Snapshot}
    /\ c.seq \in 1..Len(R)
    /\ c.clock = c.seq
    /\ c.key = R[c.seq].key
    /\ c.value = <<w, c.seq>>

(* Of each key the newest change comes last, and none is newer than it. *)
Ordered(t) ==
    /\ \A i, j \in DOMAIN t.revisions :
          i <= j /\ t.revisions[i].key = t.revisions[j].key
             => t.revisions[i].clock <= t.revisions[j].clock
    /\ \A c \in t.changes : \E i \in DOMAIN t.revisions :
          t.revisions[i].key = c.key /\ c.clock <= t.revisions[i].clock

IsSnapshotOf(s, R) ==
    /\ s.covers \in 0..Len(R)
    /\ \A j \in 1..s.covers :
          DomainOf[R[j].key] \in s.domains /\ (\A i \in j + 1 .. s.covers : R[i].key # R[j].key)
             => j \in DOMAIN s.values
    /\ \A j \in DOMAIN s.values :
          /\ j \in 1..s.covers
          /\ s.values[j].key = R[j].key
          /\ s.values[j].value = R[j].value

(* m holds the history up to n, some of it in its snapshot and the rest in *)
(* its tail, and perhaps some that is newer.                               *)
IsManifestOf(m, R, n) ==
    /\ IsSnapshotOf(m.snapshot, R)
    /\ n \in 0..Len(R)
    /\ \A i \in 1..m.snapshot.covers :
          i <= n => DomainOf[R[i].key] \in m.snapshot.domains
    /\ \A i \in m.snapshot.covers + 1 .. n : i \in DOMAIN m.tail
    /\ \A i \in DOMAIN m.tail : i \in m.snapshot.covers + 1 .. Len(R) /\ m.tail[i] = R[i]

(* The snapshot that a scan goes on from has the domains it covers. *)
SnapshotValid(w) ==
    \A i \in 1..LatestCovers(w) :
       DomainOf[Revisions(w)[i].key] \in LatestSyncSnapshot(w).domains

WriterInv(w) ==
    /\ IsHistory(Revisions(w), w)
    /\ \A c \in log[w].changes : c.device = w
    /\ \A s \in snaps[w] : IsSnapshotOf(s, Revisions(w))
    /\ pending[w] # None => \A s \in pending[w].snaps : IsSnapshotOf(s, Revisions(w))
    /\ \A h \in published[w] : IsManifestOf(h, Revisions(w), h.before)
    /\ scan[w] # None /\ snaps[w] # {} => SnapshotValid(w)

CopiesInv(w) ==
    \A d \in Device : Ordered(log[d]) /\ \A c \in log[d].changes : IsCopy(c, Revisions(w), w)

ReadersInv(w) ==
    \A d \in Device \ {w} :
       /\ published[d] = {}
       /\ headRoots[d][w] # None => ManifestChanges(headRoots[d][w]) \subseteq log[d].changes

OneWriterInv(w) == CycleInv /\ WriterInv(w) /\ CopiesInv(w) /\ ReadersInv(w)

-----------------------------------------------------------------------------
(* Applying copies. *)

AreCopies(S, R, w) == \A c \in S : IsCopy(c, R, w)

LEMMA CopiesEqual ==
    ASSUME NEW R, NEW w, NEW x, x \in Change, IsCopy(x, R, w),
           NEW y, y \in Change, IsCopy(y, R, w), x.device = y.device, x.seq = y.seq
    PROVE  x = y
  <1>1. x.key = y.key /\ x.value = y.value /\ x.clock = y.clock
    BY DEF IsCopy
  <1> QED BY <1>1 DEF Change

LEMMA LastRevision ==
    ASSUME NEW t, IsTable(t), NEW at, at \subseteq DOMAIN t.revisions, at # {}
    PROVE  Max(at) \in at /\ \A i \in at : i <= Max(at)
  <1>1. t.revisions \in Seq(Change)
    BY DEF IsTable
  <1>2. Len(t.revisions) \in Nat /\ DOMAIN t.revisions = 1..Len(t.revisions)
    BY <1>1
  <1>3. at \in SUBSET Nat /\ \A i \in at : i <= Len(t.revisions)
    BY <1>2
  <1> QED BY <1>2, <1>3, GreatestNumber

(* The newest change of a key wins among those in effect; of a change and  *)
(* its snapshot copy, the one of the greater device.                       *)
LEMMA WinnerExists ==
    ASSUME NEW w \in Device, NEW R, NEW t, IsTable(t), Ordered(t), AreCopies(t.changes, R, w),
           NEW k, \E i \in DOMAIN t.revisions : t.revisions[i].key = k
    PROVE  \E x : SyncSettingWinner(x, OfKey(Range(t.revisions), k))
  <1> DEFINE K == OfKey(Range(t.revisions), k)
  <1>1. PICK at : at = {i \in DOMAIN t.revisions : t.revisions[i].key = k} /\ at # {}
    OBVIOUS
  <1>2. PICK m : m = Max(at)
    OBVIOUS
  <1>3. m \in at /\ \A i \in at : i <= m
    <2>1. at \subseteq DOMAIN t.revisions /\ at # {}
      BY <1>1
    <2> QED BY <1>2, <2>1, LastRevision
  <1>4. PICK x : x = t.revisions[m]
    OBVIOUS
  <1>5. \A y \in K : y \in t.changes /\ \E i \in at : y = t.revisions[i]
    BY <1>1 DEF OfKey, Range, IsTable
  <1>6. \A y \in K : /\ y \in Change /\ IsCopy(y, R, w)
                     /\ y.clock \in Int /\ y.seq = y.clock /\ y.device \in {w, Snapshot}
    <2>1. \A y \in t.changes : y \in Change /\ IsCopy(y, R, w)
      BY DEF IsTable, IsChange, AreCopies
    <2> QED BY <1>5, <2>1 DEF IsCopy, Change
  <1>7. x \in K
    BY <1>1, <1>3, <1>4 DEF OfKey, Range
  <1>8. \A y \in K : y.clock <= x.clock
    BY <1>1, <1>3, <1>4, <1>5 DEF Ordered
  <1>9. w \in Int /\ Snapshot \in Int
    BY DeviceAssumption
  <1> HIDE DEF K
  <1>10. \A y, z \in K : y.clock = z.clock /\ y.device = z.device => y = z
    BY <1>6, CopiesEqual
  <1>11. CASE \E y \in K : y.clock = x.clock /\ y.device > x.device
    <2>1. PICK y \in K : y.clock = x.clock /\ y.device > x.device
      BY <1>11
    <2>2. ASSUME NEW z \in K, z # y PROVE Precedes(z, y)
      <3>1. z.clock < y.clock \/ (z.clock = y.clock /\ z.device # y.device)
        BY <1>6, <1>8, <1>10, <2>1, <2>2
      <3>2. z.device # y.device => z.device = x.device
        BY <1>6, <1>7, <1>9, <2>1
      <3> QED BY <2>1, <3>1, <3>2 DEF Precedes
    <2>3. SyncSettingWinner(y, K)
      BY <2>1, <2>2 DEF SyncSettingWinner
    <2> QED BY <2>3 DEF K
  <1>12. CASE ~\E y \in K : y.clock = x.clock /\ y.device > x.device
    <2>1. ASSUME NEW z \in K, z # x PROVE Precedes(z, x)
      <3>1. z.clock < x.clock \/ (z.clock = x.clock /\ z.device # x.device)
        BY <1>6, <1>7, <1>8, <1>10, <2>1
      <3>2. z.clock = x.clock => ~(z.device > x.device)
        BY <1>12
      <3>3. z.device \in Int /\ x.device \in Int
        BY <1>6, <1>7, <1>9
      <3> QED BY <3>1, <3>2, <3>3 DEF Precedes
    <2>2. SyncSettingWinner(x, K)
      BY <1>7, <2>1 DEF SyncSettingWinner
    <2> QED BY <2>2 DEF K
  <1> QED BY <1>11, <1>12

LEMMA ApplyChangeOrdered ==
    ASSUME NEW w \in Device, NEW R, NEW t, IsTable(t), Ordered(t), AreCopies(t.changes, R, w),
           NEW c, IsChange(c), IsCopy(c, R, w)
    PROVE  /\ Ordered(ApplyChange(t, c))
           /\ ApplyChange(t, c).changes = t.changes \cup {c}
  <1> DEFINE K == OfKey(Range(t.revisions), c.key)
  <1>1. \A x \in t.changes : x \in Change /\ IsCopy(x, R, w)
    BY DEF IsTable, IsChange, AreCopies
  <1>2. CASE \E x \in t.changes : x.device = c.device /\ x.seq = c.seq
    <2>1. PICK x \in t.changes : x.device = c.device /\ x.seq = c.seq
      BY <1>2
    <2>2. x = c
      BY <1>1, <2>1, CopiesEqual DEF IsChange
    <2> QED BY <1>2, <2>2 DEF ApplyChange
  <1>3. CASE ~\E x \in t.changes : x.device = c.device /\ x.seq = c.seq
    <2>1. PICK r : r = IF SettingChangeWins(c, Range(t.revisions))
                       THEN Append(t.revisions, c) ELSE t.revisions
      OBVIOUS
    <2>2. ApplyChange(t, c) = [changes |-> t.changes \cup {c}, revisions |-> r]
      BY <1>3, <2>1 DEF ApplyChange
    <2>3. PICK u : u = ApplyChange(t, c)
      OBVIOUS
    <2>4. u.changes = t.changes \cup {c} /\ u.revisions = r
      BY <2>2, <2>3
    <2>5. t.revisions \in Seq(Change) /\ c \in Change
      BY DEF IsTable, IsChange
    <2>6. /\ DOMAIN t.revisions = 1..Len(t.revisions) /\ Len(t.revisions) \in Nat
          /\ \A i \in DOMAIN t.revisions : t.revisions[i] \in Change /\ t.revisions[i].clock \in Int
      <3>1. \A x \in Change : x.clock \in Int
        BY DEF Change
      <3>2. /\ DOMAIN t.revisions = 1..Len(t.revisions) /\ Len(t.revisions) \in Nat
            /\ \A i \in DOMAIN t.revisions : t.revisions[i] \in Change
        BY <2>5
      <3> QED BY <3>1, <3>2
    <2>7. c.clock \in Int
      BY <2>5 DEF Change
    <2>8. \A i \in DOMAIN t.revisions : t.revisions[i].key = c.key => t.revisions[i] \in K
      BY DEF OfKey, Range
    <2>9. \A x \in K : \E i \in DOMAIN t.revisions : x = t.revisions[i] /\ x.key = c.key
      BY DEF OfKey, Range
    <2> HIDE DEF K
    <2>10. CASE SettingChangeWins(c, Range(t.revisions))
      <3>1. r = Append(t.revisions, c)
        BY <2>1, <2>10
      <3>2. /\ DOMAIN r = 1..Len(t.revisions) + 1
            /\ r[Len(t.revisions) + 1] = c
            /\ \A i \in 1..Len(t.revisions) : r[i] = t.revisions[i]
        BY <2>5, <3>1
      <3>3. ASSUME NEW i \in DOMAIN t.revisions, t.revisions[i].key = c.key
            PROVE  t.revisions[i].clock <= c.clock
        <4>1. PICK x : SyncSettingWinner(x, K)
          BY <3>3, WinnerExists DEF K
        <4>2. x \in K
          BY <4>1 DEF SyncSettingWinner
        <4>3. Precedes(x, c)
          BY <2>10, <4>1, <4>2 DEF SettingChangeWins, K
        <4>4. t.revisions[i] = x \/ Precedes(t.revisions[i], x)
          BY <2>8, <3>3, <4>1 DEF SyncSettingWinner
        <4>5. x.clock \in Int /\ t.revisions[i].clock \in Int
          BY <2>6, <2>9, <4>2
        <4> QED BY <2>7, <4>3, <4>4, <4>5 DEF Precedes
      <3>4. ASSUME NEW i \in DOMAIN r, NEW j \in DOMAIN r, i <= j, r[i].key = r[j].key
            PROVE  r[i].clock <= r[j].clock
        <4>1. CASE j = Len(t.revisions) + 1
          <5>1. CASE i = j
            BY <2>7, <3>2, <4>1, <5>1
          <5>2. CASE i # j
            <6>1. i \in DOMAIN t.revisions /\ r[i] = t.revisions[i] /\ r[j] = c
              BY <2>6, <3>2, <3>4, <4>1, <5>2
            <6> QED BY <3>3, <3>4, <6>1
          <5> QED BY <5>1, <5>2
        <4>2. CASE j # Len(t.revisions) + 1
          <5>1. /\ i \in DOMAIN t.revisions /\ r[i] = t.revisions[i]
                /\ j \in DOMAIN t.revisions /\ r[j] = t.revisions[j]
            BY <2>6, <3>2, <3>4, <4>2
          <5> QED BY <3>4, <5>1 DEF Ordered
        <4> QED BY <4>1, <4>2
      <3>5. ASSUME NEW x \in u.changes
            PROVE  \E i \in DOMAIN r : r[i].key = x.key /\ x.clock <= r[i].clock
        <4>1. CASE x = c
          <5>1. Len(t.revisions) + 1 \in DOMAIN r /\ c.clock <= c.clock
            BY <2>6, <2>7, <3>2
          <5> QED BY <3>2, <4>1, <5>1
        <4>2. CASE x # c
          <5>1. PICK i \in DOMAIN t.revisions :
                   t.revisions[i].key = x.key /\ x.clock <= t.revisions[i].clock
            BY <2>4, <4>2 DEF Ordered
          <5>2. i \in DOMAIN r /\ r[i] = t.revisions[i]
            BY <2>6, <3>2
          <5> QED BY <5>1, <5>2
        <4> QED BY <4>1, <4>2
      <3>6. Ordered(u)
        BY <2>4, <3>4, <3>5 DEF Ordered
      <3> QED BY <2>3, <2>4, <3>6
    <2>11. CASE ~SettingChangeWins(c, Range(t.revisions))
      <3>1. r = t.revisions
        BY <2>1, <2>11
      <3>2. PICK x \in K : ~Precedes(x, c)
        BY <2>11 DEF SettingChangeWins, K
      <3>3. PICK i \in DOMAIN t.revisions : x = t.revisions[i] /\ x.key = c.key
        BY <2>9, <3>2
      <3>4. c.clock <= x.clock
        BY <2>6, <2>7, <3>2, <3>3 DEF Precedes
      <3>5. \A y \in u.changes : \E j \in DOMAIN r : r[j].key = y.key /\ y.clock <= r[j].clock
        BY <2>4, <3>1, <3>3, <3>4 DEF Ordered
      <3>6. Ordered(u)
        BY <2>4, <3>1, <3>5 DEF Ordered
      <3> QED BY <2>3, <2>4, <3>6
    <2> QED BY <2>10, <2>11
  <1> QED BY <1>2, <1>3

LEMMA ApplyAllOrdered ==
    ASSUME NEW w \in Device, NEW R, NEW t, IsTable(t), Ordered(t), AreCopies(t.changes, R, w),
           NEW f, IsList(f), \A i \in DOMAIN f : IsCopy(f[i], R, w)
    PROVE  /\ IsTable(ApplyAll(t, f)) /\ Ordered(ApplyAll(t, f))
           /\ AreCopies(ApplyAll(t, f).changes, R, w)
           /\ t.changes \subseteq ApplyAll(t, f).changes
           /\ Range(f) \subseteq ApplyAll(t, f).changes
  <1> DEFINE T == [changes : SUBSET Change, revisions : Seq(Change)]
             G(n, x) == /\ IsTable(x) /\ Ordered(x) /\ AreCopies(x.changes, R, w)
                        /\ t.changes \subseteq x.changes
                        /\ \A i \in DOMAIN f : i <= n => f[i] \in x.changes
             S == {p \in Nat \X T : G(p[1], p[2])}
  <1>1. PICK N \in Nat : DOMAIN f \subseteq 1..N
    BY DEF IsList
  <1>2. ASSUME NEW n \in Nat, NEW x PROVE G(n, x) <=> <<n, x>> \in S
    <2>1. G(n, x) => x \in T
      BY DEF IsTable
    <2>2. <<n, x>> \in S <=> <<n, x>> \in Nat \X T /\ G(<<n, x>>[1], <<n, x>>[2])
      OBVIOUS
    <2>3. <<n, x>>[1] = n /\ <<n, x>>[2] = x
      OBVIOUS
    <2> HIDE DEF T, G, S
    <2> QED BY <2>1, <2>2, <2>3
  <1> HIDE DEF S
  <1>3. <<0, t>> \in S
    <2>1. \A i \in DOMAIN f : ~(i <= 0)
      BY <1>1
    <2>2. G(0, t)
      BY <2>1
    <2> HIDE DEF G
    <2> QED BY <1>2, <2>2
  <1>4. ASSUME NEW n \in 1..N, NEW x, <<n - 1, x>> \in S PROVE <<n, Step(x, f, n)>> \in S
    <2>1. G(n - 1, x)
      <3> HIDE DEF G
      <3> QED BY <1>2, <1>4, n - 1 \in Nat
    <2>2. PICK y : y = Step(x, f, n)
      OBVIOUS
    <2>3. G(n, y)
      <3>1. CASE n \in DOMAIN f
        <4>1. IsChange(f[n]) /\ IsCopy(f[n], R, w)
          BY <3>1 DEF IsList
        <4>2. PICK c : c = f[n] /\ y = ApplyChange(x, c)
          BY <2>2, <3>1 DEF Step
        <4>3. IsTable(y)
          BY <2>1, <4>1, <4>2, ApplyChangeIsTable
        <4>4. Ordered(y) /\ y.changes = x.changes \cup {c}
          <5>1. IsTable(x) /\ Ordered(x) /\ AreCopies(x.changes, R, w)
            BY <2>1
          <5>2. IsChange(c) /\ IsCopy(c, R, w)
            BY <4>1, <4>2
          <5> HIDE DEF G, T
          <5>3. /\ Ordered(ApplyChange(x, c))
                /\ ApplyChange(x, c).changes = x.changes \cup {c}
            BY <5>1, <5>2, ApplyChangeOrdered
          <5> QED BY <4>2, <5>3
        <4>5. AreCopies(y.changes, R, w)
          BY <2>1, <4>1, <4>2, <4>4 DEF AreCopies
        <4>6. \A i \in DOMAIN f : i <= n => i <= n - 1 \/ i = n
          BY <1>1
        <4>7. \A i \in DOMAIN f : i <= n => f[i] \in y.changes
          BY <2>1, <4>2, <4>4, <4>6
        <4> QED BY <2>1, <4>3, <4>4, <4>5, <4>7
      <3>2. CASE n \notin DOMAIN f
        <4>1. y = x
          BY <2>2, <3>2 DEF Step
        <4>2. \A i \in DOMAIN f : i <= n => i <= n - 1
          BY <1>1, <3>2
        <4> QED BY <2>1, <4>1, <4>2
      <3> QED BY <3>1, <3>2
    <2> HIDE DEF G
    <2> QED BY <1>2, <2>2, <2>3
  <1>5. PICK n \in 0..N : (DOMAIN f \subseteq 1..n) /\ <<n, ApplyAll(t, f)>> \in S
    BY <1>1, <1>3, <1>4, ApplyAllInduction
  <1>6. PICK u : u = ApplyAll(t, f)
    OBVIOUS
  <1>7. G(n, u)
    <2> HIDE DEF G
    <2> QED BY <1>2, <1>5, <1>6
  <1>8. \A i \in DOMAIN f : i <= n
    BY <1>5
  <1>9. Range(f) \subseteq u.changes
    BY <1>7, <1>8 DEF Range
  <1> QED BY <1>6, <1>7, <1>9

(* What the manifest behind a head of w holds are copies. *)
LEMMA ManifestCopies ==
    ASSUME NEW w \in Device, NEW R, IsHistory(R, w), NEW h, IsManifest(h), NEW n,
           IsManifestOf(h, R, n), Len(R) \in Nat
    PROVE  /\ \A i \in DOMAIN SnapshotChanges(h.snapshot) :
                 IsCopy(SnapshotChanges(h.snapshot)[i], R, w)
           /\ \A i \in DOMAIN h.tail : IsCopy(h.tail[i], R, w)
  <1>1. PICK s : s = h.snapshot
    OBVIOUS
  <1>2. PICK f : f = SnapshotChanges(s)
    OBVIOUS
  <1>3. IsSnapshotOf(s, R)
    BY <1>1 DEF IsManifestOf
  <1>4. ASSUME NEW i \in DOMAIN f PROVE IsCopy(f[i], R, w)
    <2>1. i \in DOMAIN s.values
      BY <1>2 DEF SnapshotChanges
    <2>2. i \in 1..Len(R) /\ s.values[i].key = R[i].key /\ s.values[i].value = R[i].value
      BY <1>3, <2>1 DEF IsSnapshotOf
    <2>3. R[i].value = <<w, i>>
      BY <2>2 DEF IsHistory
    <2>4. PICK a, b, c : a = s.values[i].key /\ b = s.values[i].value /\ c = f[i]
      OBVIOUS
    <2>5. c = [key |-> a, value |-> b, device |-> Snapshot, seq |-> i, clock |-> i]
      BY <1>2, <2>1, <2>4 DEF SnapshotChanges
    <2>6. c.key = a /\ c.value = b /\ c.device = Snapshot /\ c.seq = i /\ c.clock = i
      BY <2>5
    <2> QED BY <2>2, <2>3, <2>4, <2>6 DEF IsCopy
  <1>5. ASSUME NEW i \in DOMAIN h.tail PROVE IsCopy(h.tail[i], R, w)
    <2>1. h.snapshot.covers \in Nat
      BY <1>1, <1>3 DEF IsSnapshotOf
    <2>2. i \in h.snapshot.covers + 1 .. Len(R)
      BY DEF IsManifestOf
    <2>3. i \in 1..Len(R)
      BY <2>1, <2>2
    <2>4. h.tail[i] = R[i]
      BY DEF IsManifestOf
    <2> QED BY <2>3, <2>4 DEF IsHistory, IsCopy
  <1> QED BY <1>1, <1>2, <1>4, <1>5

LEMMA ApplyManifestOrdered ==
    ASSUME NEW w \in Device, NEW R, IsHistory(R, w), Len(R) \in Nat,
           NEW t, IsTable(t), Ordered(t), AreCopies(t.changes, R, w),
           NEW h, IsManifest(h), NEW n, IsManifestOf(h, R, n)
    PROVE  /\ Ordered(ApplyManifest(t, h))
           /\ AreCopies(ApplyManifest(t, h).changes, R, w)
           /\ ManifestChanges(h) \subseteq ApplyManifest(t, h).changes
  <1>1. PICK f, g : f = SnapshotChanges(h.snapshot) /\ g = h.tail
    OBVIOUS
  <1>2. IsList(f) /\ IsList(g)
    BY <1>1, SnapshotChangesAreList DEF IsManifest
  <1>3. (\A i \in DOMAIN f : IsCopy(f[i], R, w)) /\ (\A i \in DOMAIN g : IsCopy(g[i], R, w))
    BY <1>1, ManifestCopies
  <1>4. PICK u : u = ApplyAll(t, f)
    OBVIOUS
  <1>5. /\ IsTable(u) /\ Ordered(u) /\ AreCopies(u.changes, R, w)
        /\ Range(f) \subseteq u.changes
    BY <1>2, <1>3, <1>4, ApplyAllOrdered
  <1>6. PICK v : v = ApplyAll(u, g)
    OBVIOUS
  <1>7. /\ Ordered(v) /\ AreCopies(v.changes, R, w)
        /\ Range(g) \subseteq v.changes /\ u.changes \subseteq v.changes
    BY <1>2, <1>3, <1>5, <1>6, ApplyAllOrdered
  <1>8. ApplyManifest(t, h) = v /\ ManifestChanges(h) = Range(f) \cup Range(g)
    BY <1>1, <1>4, <1>6 DEF ApplyManifest, ManifestChanges
  <1> QED BY <1>5, <1>7, <1>8

(* Such a table shows, of each key, the newest change it knows. *)
LEMMA ValueIsNewest ==
    ASSUME NEW w \in Device, NEW R, Len(R) \in Nat,
           NEW t, IsTable(t), Ordered(t), AreCopies(t.changes, R, w)
    PROVE  /\ \A c \in t.changes : AtLeast(ValueOf(t, c.key), c.value)
           /\ \A k : ValueOf(t, k) # None =>
                 \E c \in t.changes : c.key = k /\ ValueOf(t, k) = c.value
  <1>1. \A i \in DOMAIN t.revisions : t.revisions[i] \in t.changes
    BY DEF IsTable, Range
  <1>2. ASSUME NEW k, NEW at, at = {i \in DOMAIN t.revisions : t.revisions[i].key = k}
        PROVE  ValueOf(t, k) = IF at = {} THEN None ELSE t.revisions[Max(at)].value
    BY <1>2 DEF ValueOf
  <1>3. ASSUME NEW c \in t.changes PROVE AtLeast(ValueOf(t, c.key), c.value)
    <2>0. PICK k : k = c.key
      OBVIOUS
    <2>1. PICK at : at = {i \in DOMAIN t.revisions : t.revisions[i].key = k}
      OBVIOUS
    <2>2. PICK j \in at : c.clock <= t.revisions[j].clock
      BY <2>0, <2>1 DEF Ordered
    <2>3. PICK m : m = Max(at)
      OBVIOUS
    <2>4. m \in at /\ j <= m
      <3>1. at \subseteq DOMAIN t.revisions /\ at # {}
        BY <2>1, <2>2
      <3> QED BY <2>2, <2>3, <3>1, LastRevision
    <2>5. t.revisions[j].clock <= t.revisions[m].clock
      BY <2>1, <2>2, <2>4 DEF Ordered
    <2>6. PICK x : x = t.revisions[m] /\ x \in t.changes
      BY <1>1, <2>1, <2>4
    <2>7. IsCopy(x, R, w) /\ IsCopy(c, R, w) /\ IsCopy(t.revisions[j], R, w)
      BY <1>1, <2>1, <2>2, <2>6 DEF AreCopies
    <2>8. /\ x.seq \in 1..Len(R) /\ x.clock = x.seq /\ x.value = <<w, x.seq>>
          /\ c.seq \in 1..Len(R) /\ c.clock = c.seq /\ c.value = <<w, c.seq>>
          /\ t.revisions[j].seq \in 1..Len(R) /\ t.revisions[j].clock = t.revisions[j].seq
      BY <2>7 DEF IsCopy
    <2>9. c.seq <= x.seq
      BY <2>2, <2>5, <2>6, <2>8
    <2>10. ValueOf(t, c.key) = <<w, x.seq>>
      <3>1. ValueOf(t, k) = t.revisions[m].value
        BY <1>2, <2>1, <2>2, <2>3
      <3> QED BY <2>0, <2>6, <2>8, <3>1
    <2>11. <<w, x.seq>> # None
      BY <2>8, NoneAssumption
    <2>12. AtLeast(<<w, x.seq>>, <<w, c.seq>>)
      BY <2>8, <2>9, <2>11 DEF AtLeast
    <2> QED BY <2>8, <2>10, <2>12
  <1>4. ASSUME NEW k, ValueOf(t, k) # None
        PROVE  \E c \in t.changes : c.key = k /\ ValueOf(t, k) = c.value
    <2>1. PICK at : at = {i \in DOMAIN t.revisions : t.revisions[i].key = k}
      OBVIOUS
    <2>2. at # {} /\ ValueOf(t, k) = t.revisions[Max(at)].value
      BY <1>2, <1>4, <2>1
    <2>3. Max(at) \in at
      <3>1. at \subseteq DOMAIN t.revisions
        BY <2>1
      <3> QED BY <2>2, <3>1, LastRevision
    <2>4. PICK m \in at : m = Max(at)
      BY <2>3
    <2>5. t.revisions[m] \in t.changes /\ t.revisions[m].key = k
      BY <1>1, <2>1
    <2> QED BY <2>2, <2>4, <2>5
  <1> QED BY <1>3, <1>4

-----------------------------------------------------------------------------
(* The steps of the cycle keep the invariant of one writer. *)

LEMMA ExtendedHistory ==
    ASSUME NEW R, NEW T, Len(R) \in Nat, Len(T) \in Nat, Extends(R, T), NEW w
    PROVE  /\ \A c : IsCopy(c, R, w) => IsCopy(c, T, w)
           /\ \A s : IsSnapshotOf(s, R) => IsSnapshotOf(s, T)
           /\ \A h, n : IsManifestOf(h, R, n) => IsManifestOf(h, T, n)
  <1>1. ASSUME NEW c, IsCopy(c, R, w) PROVE IsCopy(c, T, w)
    <2>1. c.seq \in 1..Len(R)
      BY <1>1 DEF IsCopy
    <2>2. c.seq \in 1..Len(T) /\ T[c.seq] = R[c.seq]
      BY <2>1 DEF Extends
    <2> QED BY <1>1, <2>2 DEF IsCopy
  <1>2. ASSUME NEW s, IsSnapshotOf(s, R) PROVE IsSnapshotOf(s, T)
    <2>1. s.covers \in 0..Len(R)
      BY <1>2 DEF IsSnapshotOf
    <2>2. s.covers \in 0..Len(T) /\ \A i \in 1..s.covers : T[i] = R[i]
      BY <2>1 DEF Extends
    <2>3. ASSUME NEW j \in 1..s.covers, DomainOf[T[j].key] \in s.domains,
                 \A i \in j + 1 .. s.covers : T[i].key # T[j].key
          PROVE  j \in DOMAIN s.values
      <3>1. \A i \in j + 1 .. s.covers : i \in 1..s.covers
        BY <2>1
      <3>2. \A i \in j + 1 .. s.covers : R[i].key # R[j].key
        BY <2>2, <2>3, <3>1
      <3>3. DomainOf[R[j].key] \in s.domains
        BY <2>2, <2>3
      <3> QED BY <1>2, <3>2, <3>3 DEF IsSnapshotOf
    <2>4. ASSUME NEW j \in DOMAIN s.values
          PROVE  /\ j \in 1..s.covers
                 /\ s.values[j].key = T[j].key /\ s.values[j].value = T[j].value
      <3>1. /\ j \in 1..s.covers
            /\ s.values[j].key = R[j].key /\ s.values[j].value = R[j].value
        BY <1>2 DEF IsSnapshotOf
      <3> QED BY <2>2, <3>1
    <2> QED BY <2>2, <2>3, <2>4 DEF IsSnapshotOf
  <1>3. ASSUME NEW h, NEW n, IsManifestOf(h, R, n) PROVE IsManifestOf(h, T, n)
    <2>1. IsSnapshotOf(h.snapshot, R) /\ IsSnapshotOf(h.snapshot, T)
      BY <1>2, <1>3 DEF IsManifestOf
    <2>2. h.snapshot.covers \in 0..Len(R) /\ n \in 0..Len(R)
      BY <1>3, <2>1 DEF IsManifestOf, IsSnapshotOf
    <2>3. n \in 0..Len(T) /\ Len(R) <= Len(T)
      BY <2>2 DEF Extends
    <2>4. \A i \in 1..h.snapshot.covers :
             i <= n => DomainOf[T[i].key] \in h.snapshot.domains
      <3>1. \A i \in 1..h.snapshot.covers : T[i] = R[i]
        BY <2>2 DEF Extends
      <3> QED BY <1>3, <3>1 DEF IsManifestOf
    <2>5. ASSUME NEW i \in DOMAIN h.tail
          PROVE  i \in h.snapshot.covers + 1 .. Len(T) /\ h.tail[i] = T[i]
      <3>1. i \in h.snapshot.covers + 1 .. Len(R) /\ h.tail[i] = R[i]
        BY <1>3 DEF IsManifestOf
      <3>2. i \in 1..Len(R) /\ i \in h.snapshot.covers + 1 .. Len(T)
        BY <2>2, <2>3, <3>1
      <3> QED BY <3>1, <3>2 DEF Extends
    <2>6. \A i \in h.snapshot.covers + 1 .. n : i \in DOMAIN h.tail
      BY <1>3 DEF IsManifestOf
    <2> QED BY <2>1, <2>3, <2>4, <2>5, <2>6 DEF IsManifestOf
  <1> QED BY <1>1, <1>2, <1>3

(* The writer's own changes are numbered without a gap. *)
LEMMA WriterNumbers ==
    ASSUME NEW w \in Device, OneWriterInv(w)
    PROVE  /\ LatestSequence(log[w], w) = Len(Revisions(w))
           /\ Max({0} \cup {x.clock : x \in log[w].changes}) = Len(Revisions(w))
           /\ Len(Revisions(w)) \in Nat
  <1>1. PICK n, t : n = Len(Revisions(w)) /\ t = log[w]
    OBVIOUS
  <1>2. n \in Nat /\ IsTable(t)
    BY <1>1, RevisionIs DEF OneWriterInv, CycleInv, LogInv
  <1>3. \A c \in t.changes : c.device = w /\ c.seq \in 1..n /\ c.clock = c.seq
    BY <1>1 DEF OneWriterInv, WriterInv, CopiesInv, IsCopy
  <1>4. n > 0 => \E c \in t.changes : c.seq = n /\ c.clock = n /\ c.device = w
    <2> SUFFICES ASSUME n > 0 PROVE \E c \in t.changes : c.seq = n /\ c.clock = n /\ c.device = w
      OBVIOUS
    <2>1. n \in 1..n
      BY <1>2
    <2>2. Revisions(w)[n] \in t.changes
      BY <1>1, <2>1, RevisionIs DEF OneWriterInv
    <2>3. Revisions(w)[n].seq = n /\ Revisions(w)[n].clock = n /\ Revisions(w)[n].device = w
      BY <1>1, <2>1 DEF OneWriterInv, WriterInv, IsHistory
    <2> QED BY <2>2, <2>3
  <1>5. LatestSequence(t, w) = n
    <2>1. PICK l : l = LatestSequence(t, w)
      OBVIOUS
    <2>2. /\ l \in Nat /\ \A c \in t.changes : c.device = w => c.seq <= l
          /\ l = 0 \/ \E c \in t.changes : c.device = w /\ c.seq = l
      BY <1>2, <2>1, LatestSequenceIs
    <2>3. l <= n
      BY <1>2, <1>3, <2>2
    <2>4. n <= l
      BY <1>2, <1>4, <2>2
    <2> QED BY <1>2, <2>1, <2>2, <2>3, <2>4
  <1>6. Max({0} \cup {x.clock : x \in t.changes}) = n
    <2> DEFINE S == {0} \cup {x.clock : x \in t.changes}
    <2>1. \A x \in S : x \in Nat /\ x <= n
      BY <1>2, <1>3
    <2>2. n \in S
      BY <1>2, <1>4
    <2> HIDE DEF S
    <2>3. S \in SUBSET Nat /\ S # {}
      BY <2>1, <2>2
    <2>4. PICK m : m = Max(S)
      OBVIOUS
    <2>5. m \in S /\ \A y \in S : y <= m
      BY <1>2, <2>1, <2>3, <2>4, GreatestNumber
    <2>6. m = n
      BY <1>2, <2>1, <2>2, <2>5
    <2> QED BY <2>4, <2>6 DEF S
  <1> QED BY <1>1, <1>2, <1>5, <1>6

LEMMA SnapshotPayloadOf ==
    ASSUME CycleInv, NEW w \in Device, NEW n \in 0..Len(Revisions(w)), NEW D
    PROVE  /\ IsSnapshotOf(SnapshotPayload(w, n, D), Revisions(w))
           /\ SnapshotPayload(w, n, D).covers = n /\ SnapshotPayload(w, n, D).domains = D
  <1>1. PICK R, s : R = Revisions(w) /\ s = SnapshotPayload(w, n, D)
    OBVIOUS
  <1>2. Len(R) \in Nat
    BY <1>1, RevisionIs
  <1>3. s = [covers |-> n, domains |-> D,
             values |-> [i \in {j \in 1..n :
                                  /\ DomainOf[R[j].key] \in D
                                  /\ \A l \in j + 1 .. n : R[l].key # R[j].key} |->
                            [key |-> R[i].key, value |-> R[i].value]]]
    BY <1>1 DEF SnapshotPayload
  <1>4. PICK v : v = [i \in {j \in 1..n : /\ DomainOf[R[j].key] \in D
                                          /\ \A l \in j + 1 .. n : R[l].key # R[j].key} |->
                         [key |-> R[i].key, value |-> R[i].value]]
    OBVIOUS
  <1>5. s.covers = n /\ s.domains = D /\ s.values = v
    BY <1>3, <1>4
  <1>6. /\ DOMAIN v = {j \in 1..n : /\ DomainOf[R[j].key] \in D
                                    /\ \A l \in j + 1 .. n : R[l].key # R[j].key}
        /\ \A i \in DOMAIN v : v[i] = [key |-> R[i].key, value |-> R[i].value]
    BY <1>4
  <1>7. ASSUME NEW j \in DOMAIN v
        PROVE  j \in 1..n /\ v[j].key = R[j].key /\ v[j].value = R[j].value
    <2>1. PICK a, b, x : a = R[j].key /\ b = R[j].value /\ x = v[j]
      OBVIOUS
    <2>2. x = [key |-> a, value |-> b]
      BY <1>6, <2>1
    <2>3. x.key = a /\ x.value = b
      BY <2>2
    <2> QED BY <1>6, <2>1, <2>3
  <1>8. IsSnapshotOf(s, R)
    <2>1. s.covers \in 0..Len(R)
      BY <1>1, <1>5
    <2>2. \A j \in 1..s.covers :
             DomainOf[R[j].key] \in s.domains /\ (\A i \in j + 1 .. s.covers : R[i].key # R[j].key)
                => j \in DOMAIN s.values
      BY <1>5, <1>6
    <2>3. \A j \in DOMAIN s.values : /\ j \in 1..s.covers
                                     /\ s.values[j].key = R[j].key
                                     /\ s.values[j].value = R[j].value
      BY <1>5, <1>7
    <2> QED BY <2>1, <2>2, <2>3 DEF IsSnapshotOf
  <1> QED BY <1>1, <1>5, <1>8

LEMMA OneWriterInit ==
    ASSUME NEW w \in Device
    PROVE  Init => OneWriterInv(w)
  <1> SUFFICES ASSUME Init PROVE OneWriterInv(w)
    OBVIOUS
  <1>1. \A d \in Device : log[d] = [changes |-> {}, revisions |-> << >>]
    BY DEF Init
  <1>2. \A d \in Device : log[d].changes = {} /\ log[d].revisions = << >>
    BY <1>1
  <1>3. Len(<< >>) = 0 /\ DOMAIN << >> = {}
    OBVIOUS
  <1>4. CopiesInv(w)
    BY <1>2, <1>3 DEF CopiesInv, Ordered
  <1>5. Revisions(w) = << >>
    BY <1>2 DEF Revisions
  <1>6. snaps[w] = {} /\ pending[w] = None /\ published[w] = {} /\ scan[w] = None
    BY DEF Init
  <1>7. WriterInv(w)
    BY <1>2, <1>3, <1>5, <1>6 DEF WriterInv, IsHistory
  <1>8. ReadersInv(w)
    BY DEF Init, ReadersInv
  <1> QED BY <1>4, <1>7, <1>8, CycleInvInit DEF OneWriterInv

LEMMA CoversIsRevision ==
    ASSUME NEW w \in Device, OneWriterInv(w), snaps[w] # {}
    PROVE  /\ LatestCovers(w) \in 0..Len(Revisions(w))
           /\ LatestSyncSnapshot(w) \in snaps[w]
           /\ IsSnapshotOf(LatestSyncSnapshot(w), Revisions(w))
           /\ LatestSyncSnapshot(w).covers = LatestCovers(w)
  <1>1. PICK m, s : m = LatestCovers(w) /\ s = LatestSyncSnapshot(w)
    OBVIOUS
  <1>2. s \in snaps[w] /\ s.covers = m
    BY <1>1, LatestCoversIs DEF OneWriterInv
  <1>3. IsSnapshotOf(s, Revisions(w))
    BY <1>2 DEF OneWriterInv, WriterInv
  <1>4. m \in 0..Len(Revisions(w))
    BY <1>2, <1>3 DEF IsSnapshotOf
  <1> QED BY <1>1, <1>2, <1>3, <1>4

LEMMA OneWriterWrites ==
    ASSUME NEW w \in Device, OneWriterInv(w), NEW k \in Key, SetSyncSettingText(w, k)
    PROVE  OneWriterInv(w)'
  <1> USE DEF OneWriterInv
  <1>1. PICK t, R, n : t = log[w] /\ R = t.revisions /\ n = Len(R)
    OBVIOUS
  <1>2. R = Revisions(w) /\ n \in Nat /\ IsTable(t) /\ R \in Seq(Change)
    BY <1>1, RevisionIs DEF Revisions, CycleInv, LogInv, IsTable
  <1>3. PICK c : c = [key |-> k, value |-> <<w, n + 1>>, device |-> w, seq |-> n + 1,
                      clock |-> n + 1]
    OBVIOUS
  <1>4. /\ c.key = k /\ c.value = <<w, n + 1>> /\ c.device = w /\ c.seq = n + 1
        /\ c.clock = n + 1
    BY <1>3
  <1>5. PICK T, u : T = Append(R, c) /\ u = [changes |-> t.changes \cup {c}, revisions |-> T]
    OBVIOUS
  <1>6. u.changes = t.changes \cup {c} /\ u.revisions = T
    BY <1>5
  <1>7. log' = [log EXCEPT ![w] = u]
    <2>1. /\ LatestSequence(log[w], w) = n
          /\ Max({0} \cup {x.clock : x \in log[w].changes}) = n
      BY <1>1, <1>2, WriterNumbers
    <2> QED BY <1>1, <1>3, <1>5, <2>1 DEF SetSyncSettingText
  <1>8. UNCHANGED <<snaps, headRoots, scan, pending, published>>
    BY DEF SetSyncSettingText
  <1>9. log'[w] = u /\ \A d \in Device : d # w => log'[d] = log[d]
    BY <1>7 DEF CycleInv, LogInv
  <1>10. Revisions(w)' = T
    BY <1>6, <1>9 DEF Revisions
  <1>11. /\ Len(T) = n + 1 /\ T[n + 1] = c /\ \A i \in 1..n : T[i] = R[i]
         /\ DOMAIN T = 1..n + 1 /\ DOMAIN R = 1..n
    <2>1. \A x \in Seq(Change \cup {c}) : LET y == Append(x, c) IN
             /\ Len(y) = Len(x) + 1 /\ y[Len(x) + 1] = c /\ \A i \in 1..Len(x) : y[i] = x[i]
             /\ DOMAIN y = 1..Len(x) + 1 /\ DOMAIN x = 1..Len(x)
      OBVIOUS
    <2>2. R \in Seq(Change \cup {c})
      BY <1>2
    <2> QED BY <1>1, <1>5, <2>1, <2>2
  <1>12. Extends(R, T) /\ Len(T) \in Nat
    <2>1. Len(T) = n + 1 /\ Len(R) = n /\ n \in Nat
      BY <1>1, <1>2, <1>11
    <2>2. Len(R) <= Len(T) /\ Len(T) \in Nat
      BY <2>1
    <2>3. \A i \in 1..Len(R) : T[i] = R[i]
      BY <1>1, <1>11
    <2> QED BY <2>2, <2>3 DEF Extends
  <1>13. /\ \A x : IsCopy(x, R, w) => IsCopy(x, T, w)
         /\ \A s : IsSnapshotOf(s, R) => IsSnapshotOf(s, T)
         /\ \A h : IsManifestOf(h, R, h.before) => IsManifestOf(h, T, h.before)
    BY <1>1, <1>2, <1>12, ExtendedHistory
  <1>14. WriterInv(w)'
    <2>1. IsHistory(T, w)
      <3>1. IsHistory(R, w)
        BY <1>2 DEF WriterInv
      <3>2. \A i \in 1..Len(T) : i \in 1..n \/ i = n + 1
        BY <1>2, <1>11
      <3> QED BY <1>1, <1>4, <1>11, <3>1, <3>2 DEF IsHistory
    <2>2. \A x \in u.changes : x.device = w
      BY <1>1, <1>4, <1>6 DEF WriterInv
    <2>3. /\ \A s \in snaps[w] : IsSnapshotOf(s, T)
          /\ pending[w] # None => \A s \in pending[w].snaps : IsSnapshotOf(s, T)
          /\ \A h \in published[w] : IsManifestOf(h, T, h.before)
      BY <1>2, <1>13 DEF WriterInv
    <2>4. ASSUME scan[w] # None, snaps[w] # {} PROVE SnapshotValid(w)'
      <3>1. PICK m, s : m = LatestCovers(w) /\ s = LatestSyncSnapshot(w)
        OBVIOUS
      <3>2. LatestCovers(w)' = m /\ LatestSyncSnapshot(w)' = s
        BY <1>8, <3>1 DEF LatestCovers, LatestSyncSnapshot
      <3>3. m \in 0..n
        BY <1>1, <1>2, <2>4, <3>1, CoversIsRevision
      <3>4. \A i \in 1..m : DomainOf[R[i].key] \in s.domains
        BY <1>2, <2>4, <3>1 DEF WriterInv, SnapshotValid
      <3>5. \A i \in 1..m : T[i] = R[i]
        BY <1>2, <1>11, <3>3
      <3> QED BY <1>10, <3>2, <3>4, <3>5 DEF SnapshotValid
    <2> QED BY <1>8, <1>9, <1>10, <2>1, <2>2, <2>3, <2>4 DEF WriterInv
  <1>15. CopiesInv(w)'
    <2>1. \A d \in Device : Ordered(log[d]) /\ \A x \in log[d].changes : IsCopy(x, R, w)
      BY <1>2 DEF CopiesInv
    <2>2. IsCopy(c, T, w)
      <3>1. n + 1 \in 1..Len(T)
        BY <1>2, <1>11
      <3> QED BY <1>4, <1>11, <3>1 DEF IsCopy
    <2>3. Ordered(u)
      <3>1. \A x \in t.changes : x.clock \in 1..n
        BY <1>1, <2>1 DEF IsCopy
      <3>2. \A i \in 1..n : R[i] \in t.changes
        BY <1>1, <1>2, <1>11 DEF IsTable, Range
      <3>3. ASSUME NEW i \in 1..n + 1, NEW j \in 1..n + 1, i <= j, T[i].key = T[j].key
            PROVE  T[i].clock <= T[j].clock
        <4>1. CASE j = n + 1
          <5>1. T[i].clock \in 1..n + 1
            BY <1>2, <1>4, <1>11, <3>1, <3>2
          <5> QED BY <1>2, <1>4, <1>11, <4>1, <5>1
        <4>2. CASE j # n + 1
          <5>1. i \in DOMAIN R /\ j \in DOMAIN R /\ T[i] = R[i] /\ T[j] = R[j]
            BY <1>2, <1>11, <3>3, <4>2
          <5> QED BY <1>1, <2>1, <3>3, <5>1 DEF Ordered
        <4> QED BY <4>1, <4>2
      <3>4. ASSUME NEW x \in u.changes
            PROVE  \E i \in 1..n + 1 : T[i].key = x.key /\ x.clock <= T[i].clock
        <4>1. CASE x = c
          <5>1. n + 1 \in 1..n + 1 /\ x.clock <= T[n + 1].clock
            BY <1>2, <1>4, <1>11, <4>1
          <5> QED BY <1>11, <4>1, <5>1
        <4>2. CASE x # c
          <5>1. x \in t.changes
            BY <1>6, <4>2
          <5>2. PICK i \in DOMAIN R : R[i].key = x.key /\ x.clock <= R[i].clock
            BY <1>1, <2>1, <5>1 DEF Ordered
          <5>3. i \in 1..n + 1 /\ T[i] = R[i]
            BY <1>2, <1>11
          <5> QED BY <5>2, <5>3
        <4> QED BY <4>1, <4>2
      <3> QED BY <1>6, <1>11, <3>3, <3>4 DEF Ordered
    <2>4. ASSUME NEW d \in Device
          PROVE  Ordered(log'[d]) /\ \A x \in log'[d].changes : IsCopy(x, T, w)
      <3>1. CASE d = w
        BY <1>1, <1>6, <1>9, <1>13, <2>1, <2>2, <2>3, <3>1
      <3>2. CASE d # w
        BY <1>9, <1>13, <2>1, <3>2
      <3> QED BY <3>1, <3>2
    <2> QED BY <1>10, <2>4 DEF CopiesInv
  <1>16. ReadersInv(w)'
    BY <1>8, <1>9 DEF ReadersInv
  <1>17. CycleInv'
    BY SetSyncSettingTextKeeps
  <1> QED BY <1>14, <1>15, <1>16, <1>17

(* An upload of w, or of snapshots of another device. *)
LEMMA OneWriterUploads ==
    ASSUME NEW w \in Device, OneWriterInv(w), NEW d \in Device, CycleInv',
           NEW newSnaps, NEW newHeads, Upload(d, newSnaps, newHeads),
           d # w => newHeads = {},
           d = w => /\ \A s \in newSnaps : IsSnapshotOf(s, Revisions(w))
                    /\ \A h \in newHeads : IsManifestOf(h, Revisions(w), h.before)
    PROVE  OneWriterInv(w)'
  <1> USE DEF OneWriterInv
  <1>1. UNCHANGED <<log, snaps, headRoots>>
    BY DEF Upload
  <1>2. PICK p : /\ p = [snaps |-> newSnaps, heads |-> newHeads,
                         id |-> <<d, publications[d] + 1>>]
                 /\ pending' = [pending EXCEPT ![d] = p]
                 /\ published' = [published EXCEPT ![d] = published[d] \cup newHeads]
    BY DEF Upload
  <1>3. p.snaps = newSnaps
    BY <1>2
  <1>4. \A e \in Device : /\ published'[e] = IF e = d THEN published[d] \cup newHeads
                                             ELSE published[e]
                          /\ pending'[e] = IF e = d THEN p ELSE pending[e]
    BY <1>2 DEF CycleInv, PublishedInv, PendingInv
  <1>5. Revisions(w)' = Revisions(w)
    BY <1>1 DEF Revisions
  <1>6. WriterInv(w)'
    <2>1. pending'[w] # None => \A s \in pending'[w].snaps : IsSnapshotOf(s, Revisions(w))
      <3>1. CASE d = w
        BY <1>3, <1>4, <3>1
      <3>2. CASE d # w
        BY <1>4, <3>2 DEF WriterInv
      <3> QED BY <3>1, <3>2
    <2>2. \A h \in published'[w] : IsManifestOf(h, Revisions(w), h.before)
      BY <1>4 DEF WriterInv
    <2>3. scan'[w] # None /\ snaps'[w] # {} => SnapshotValid(w)'
      <3>1. scan' = [scan EXCEPT ![d] = None]
        BY DEF Upload
      <3>2. scan'[w] # None => scan[w] # None
        BY <3>1 DEF CycleInv, ScanInv
      <3>3. SnapshotValid(w)' = SnapshotValid(w)
        BY <1>1, <1>5 DEF SnapshotValid, LatestCovers, LatestSyncSnapshot
      <3> QED BY <1>1, <3>2, <3>3 DEF WriterInv
    <2> QED BY <1>1, <1>5, <2>1, <2>2, <2>3 DEF WriterInv
  <1>7. CopiesInv(w)'
    BY <1>1, <1>5 DEF CopiesInv
  <1>8. ReadersInv(w)'
    BY <1>1, <1>4 DEF ReadersInv
  <1> QED BY <1>6, <1>7, <1>8

LEMMA OnlyWriterChanges ==
    ASSUME NEW w \in Device, OneWriterInv(w), NEW d \in Device,
           \E c \in log[d].changes : c.device = d
    PROVE  d = w
  BY DeviceAssumption DEF OneWriterInv, CopiesInv, IsCopy

(* What a scan of w has read are changes of w; only w publishes a head. *)
LEMMA OneWriterReads ==
    ASSUME NEW w \in Device, OneWriterInv(w), NEW d \in Device, ScanEnded(d),
           DOMAIN Own(d, EventsRead(d)) # {}
    PROVE  /\ d = w
           /\ scan[w].before \in 0..Len(Revisions(w))
           /\ scan[w].read \subseteq LatestCovers(w) + 1 .. Len(Revisions(w))
           /\ \A i \in LatestCovers(w) + 1 .. scan[w].before : i \in scan[w].read
           /\ DOMAIN Own(w, EventsRead(w)) = scan[w].read
           /\ \A i \in scan[w].read : Own(w, EventsRead(w))[i] = Revisions(w)[i]
           /\ \A i \in scan[w].read : DomainOf[Revisions(w)[i].key] \in Domains(EventsRead(w))
  <1> USE DEF OneWriterInv
  <1>1. scan[d] # None /\ scan[d].left = {}
    BY DEF ScanEnded
  <1>2. PICK R, P, E, f : /\ R = Revisions(d) /\ P = scan[d].read /\ E = EventsRead(d)
                          /\ f = Own(d, E)
    OBVIOUS
  <1>3. /\ P \subseteq 1..Len(R) /\ DOMAIN E = P /\ \A i \in P : E[i] = R[i]
        /\ DOMAIN f = {i \in P : R[i].device = d} /\ \A i \in DOMAIN f : f[i] = R[i]
    BY <1>1, <1>2, EventsReadAre
  <1>4. d = w
    <2>1. PICK i \in DOMAIN f : TRUE
      BY <1>2
    <2>2. i \in 1..Len(R) /\ R[i].device = d
      BY <1>3
    <2>3. R[i] \in log[d].changes
      BY <1>2, <2>2, RevisionIs
    <2> QED BY <2>2, <2>3, OnlyWriterChanges
  <1>5. \A i \in 1..Len(R) : R[i].device = w
    BY <1>2, <1>4 DEF WriterInv, IsHistory
  <1>6. DOMAIN f = P /\ \A i \in P : f[i] = R[i]
    BY <1>3, <1>4, <1>5
  <1>7. \A i \in P : DomainOf[R[i].key] \in Domains(E)
    BY <1>3 DEF Domains, Range
  <1>8. /\ scan[d].before \in 0..Len(R) /\ P \subseteq LatestCovers(d) + 1 .. Len(R)
        /\ \A i \in LatestCovers(d) + 1 .. scan[d].before : i \in P
    BY <1>1, <1>2 DEF CycleInv, ScanInv, IsScan
  <1> QED BY <1>2, <1>4, <1>6, <1>7, <1>8

LEMMA OneWriterPublishesSnapshot ==
    ASSUME NEW w \in Device, OneWriterInv(w), NEW d \in Device, PublishFullSnapshotHead(d)
    PROVE  OneWriterInv(w)'
  <1> USE DEF OneWriterInv
  <1>1. ScanEnded(d) /\ snaps[d] = {} /\ DOMAIN Own(d, EventsRead(d)) # {}
    BY DEF PublishFullSnapshotHead
  <1>2. d = w
    BY <1>1, OneWriterReads
  <1>3. PICK R, P, b, m : /\ R = Revisions(w) /\ P = scan[w].read /\ b = scan[w].before
                          /\ m = LatestCovers(w)
    OBVIOUS
  <1>4. Len(R) \in Nat /\ m = 0
    BY <1>1, <1>2, <1>3, RevisionIs, LatestCoversIs
  <1>5. PICK D : D = Domains(EventsRead(w))
    OBVIOUS
  <1>6. /\ b \in 0..Len(R) /\ \A i \in m + 1 .. b : i \in P
        /\ \A i \in P : DomainOf[R[i].key] \in D
    BY <1>1, <1>2, <1>3, <1>5, OneWriterReads
  <1>7. PICK n : /\ FullSnapshot(w) = SnapshotPayload(w, n, D)
                 /\ n \in P /\ \A i \in P : i <= n
                 /\ n \in 1..Len(R)
    BY <1>2, <1>3, <1>5, FullSnapshotIs
  <1>8. PICK s, h : /\ s = FullSnapshot(w)
                    /\ h.before = b /\ h.snapshot = s /\ h.tail = << >>
                    /\ Upload(w, {s}, {h})
    BY <1>2, <1>3, FullSnapshotHeadIs
  <1>9. IsSnapshotOf(s, R) /\ s.covers = n /\ s.domains = D
    <2>1. n \in 0..Len(Revisions(w))
      BY <1>3, <1>4, <1>7
    <2> QED BY <1>3, <1>7, <1>8, <2>1, SnapshotPayloadOf
  <1>10. IsManifestOf(h, R, h.before)
    <2>1. \A i \in 1..n : i <= b => DomainOf[R[i].key] \in D
      <3>1. \A i \in 1..n : i <= b => i \in m + 1 .. b
        BY <1>4, <1>6, <1>7
      <3> QED BY <1>6, <3>1
    <2>2. n + 1 .. b = {}
      <3>1. b = 0 \/ b \in m + 1 .. b
        BY <1>4, <1>6
      <3>2. b <= n
        BY <1>4, <1>6, <1>7, <3>1
      <3> QED BY <1>4, <1>6, <1>7, <3>2
    <2>3. DOMAIN h.tail = {}
      BY <1>8
    <2> QED BY <1>6, <1>8, <1>9, <2>1, <2>2, <2>3 DEF IsManifestOf
  <1>11. CycleInv'
    BY PublishFullSnapshotHeadKeeps
  <1>12. /\ \A x \in {s} : IsSnapshotOf(x, Revisions(w))
         /\ \A x \in {h} : IsManifestOf(x, Revisions(w), x.before)
    BY <1>3, <1>9, <1>10
  <1> QED BY <1>8, <1>11, <1>12, OneWriterUploads

LEMMA OneWriterPublishesTail ==
    ASSUME NEW w \in Device, OneWriterInv(w), NEW d \in Device, PublishTailHead(d)
    PROVE  OneWriterInv(w)'
  <1> USE DEF OneWriterInv
  <1>1. ScanEnded(d) /\ snaps[d] # {} /\ DOMAIN Own(d, EventsRead(d)) # {}
    BY DEF PublishTailHead
  <1>2. d = w
    BY <1>1, OneWriterReads
  <1>3. PICK R, P, b, s, f : /\ R = Revisions(w) /\ P = scan[w].read /\ b = scan[w].before
                             /\ s = LatestSyncSnapshot(w) /\ f = Own(w, EventsRead(w))
    OBVIOUS
  <1>4. Len(R) \in Nat
    BY <1>3, RevisionIs
  <1>5. PICK h : h.before = b /\ h.snapshot = s /\ h.tail = f /\ Upload(w, {}, {h})
    BY <1>2, <1>3, TailHeadIs
  <1>6. IsSnapshotOf(s, R) /\ s.covers = LatestCovers(w)
    BY <1>1, <1>2, <1>3, CoversIsRevision
  <1>7. s.covers \in 0..Len(R)
    BY <1>6 DEF IsSnapshotOf
  <1>8. /\ b \in 0..Len(R) /\ P \subseteq s.covers + 1 .. Len(R)
        /\ \A i \in s.covers + 1 .. b : i \in P
        /\ DOMAIN f = P /\ \A i \in P : f[i] = R[i]
    BY <1>1, <1>2, <1>3, <1>6, OneWriterReads
  <1>9. \A i \in 1..s.covers : DomainOf[R[i].key] \in s.domains
    BY <1>1, <1>2, <1>3, <1>6 DEF WriterInv, SnapshotValid, ScanEnded
  <1>10. IsManifestOf(h, R, h.before)
    BY <1>5, <1>6, <1>8, <1>9 DEF IsManifestOf
  <1>11. CycleInv'
    BY PublishTailHeadKeeps
  <1>12. /\ \A x \in {} : IsSnapshotOf(x, Revisions(w))
         /\ \A x \in {h} : IsManifestOf(x, Revisions(w), x.before)
    BY <1>3, <1>10
  <1> QED BY <1>5, <1>11, <1>12, OneWriterUploads

LEMMA OneWriterCompacts ==
    ASSUME NEW w \in Device, OneWriterInv(w), NEW d \in Device,
           NEW n \in 1..Len(Revisions(d)), CompactAndPublishSettings(d, n)
    PROVE  OneWriterInv(w)'
  <1> USE DEF OneWriterInv
  <1>1. PICK D : D = Domains(Restrict(Revisions(d), LatestCovers(d) + 1 .. LatestCovers(d) + n))
    OBVIOUS
  <1>2. PICK s : /\ s = SnapshotPayload(d, LatestCovers(d) + n, D)
                 /\ LatestCovers(d) + n \in 0..Len(Revisions(d))
                 /\ Upload(d, {s}, {})
    BY <1>1, CompactionIs
  <1>3. d = w => IsSnapshotOf(s, Revisions(w))
    BY <1>2, SnapshotPayloadOf
  <1>4. CycleInv'
    BY CompactAndPublishSettingsKeeps
  <1>5. d = w => /\ \A x \in {s} : IsSnapshotOf(x, Revisions(w))
                 /\ \A x \in {} : IsManifestOf(x, Revisions(w), x.before)
    BY <1>3
  <1> QED BY <1>2, <1>4, <1>5, OneWriterUploads

LEMMA OneWriterRecords ==
    ASSUME NEW w \in Device, OneWriterInv(w), NEW d \in Device, RecordPublication(d)
    PROVE  OneWriterInv(w)'
  <1> USE DEF OneWriterInv
  <1>1. UNCHANGED <<log, published>> /\ Revisions(w)' = Revisions(w)
    BY DEF RecordPublication, Revisions
  <1>2. pending' = [pending EXCEPT ![d] = None]
    BY DEF RecordPublication
  <1>3. \A e \in Device : pending'[e] = IF e = d THEN None ELSE pending[e]
    BY <1>2 DEF CycleInv, PendingInv
  <1>4. snaps' = [snaps EXCEPT ![d] = RecordSyncSnapshots(snaps[d], pending[d].snaps)]
        /\ pending[d] # None
    BY DEF RecordPublication
  <1>5. \A s \in snaps'[w] : s \in snaps[w] \/ (d = w /\ s \in pending[w].snaps)
    BY <1>4 DEF CycleInv, SnapsInv, RecordSyncSnapshots
  <1>6. WriterInv(w)'
    <2>1. \A s \in snaps'[w] : IsSnapshotOf(s, Revisions(w))
      BY <1>4, <1>5 DEF WriterInv
    <2>2. pending'[w] # None => \A s \in pending'[w].snaps : IsSnapshotOf(s, Revisions(w))
      BY <1>3 DEF WriterInv
    <2>3. scan'[w] # None /\ snaps'[w] # {} => SnapshotValid(w)'
      <3>1. scan' = scan
        BY DEF RecordPublication
      <3>2. CASE d = w
        BY <1>4, <3>1, <3>2 DEF CycleInv, ScanInv
      <3>3. CASE d # w
        <4>1. snaps'[w] = snaps[w]
          BY <1>4, <3>3 DEF CycleInv, SnapsInv
        <4>2. SnapshotValid(w)' = SnapshotValid(w)
          BY <1>1, <4>1 DEF SnapshotValid, LatestCovers, LatestSyncSnapshot
        <4> QED BY <3>1, <4>1, <4>2 DEF WriterInv
      <3> QED BY <3>2, <3>3
    <2> QED BY <1>1, <2>1, <2>2, <2>3 DEF WriterInv
  <1>7. CopiesInv(w)'
    BY <1>1 DEF CopiesInv
  <1>8. ReadersInv(w)'
    <2>1. PICK r : headRoots' = [headRoots EXCEPT ![d][d] = r]
      BY DEF RecordPublication
    <2>2. \A e \in Device \ {w} : headRoots'[e][w] = headRoots[e][w]
      BY <2>1 DEF CycleInv, RootsInv
    <2> QED BY <1>1, <2>2 DEF ReadersInv
  <1>9. CycleInv'
    BY RecordPublicationKeeps
  <1> QED BY <1>6, <1>7, <1>8, <1>9

LEMMA OneWriterCrashes ==
    ASSUME NEW w \in Device, OneWriterInv(w), NEW d \in Device, Crash(d)
    PROVE  OneWriterInv(w)'
  <1> USE DEF OneWriterInv
  <1>1. UNCHANGED <<log, snaps, headRoots, published>> /\ Revisions(w)' = Revisions(w)
    BY DEF Crash, Revisions
  <1>2. pending' = [pending EXCEPT ![d] = None]
    BY DEF Crash
  <1>3. \A e \in Device : pending'[e] = IF e = d THEN None ELSE pending[e]
    BY <1>2 DEF CycleInv, PendingInv
  <1>4. WriterInv(w)'
    <2>1. scan'[w] # None => scan[w] # None
      BY DEF Crash, CycleInv, ScanInv
    <2>2. SnapshotValid(w)' = SnapshotValid(w)
      BY <1>1 DEF SnapshotValid, LatestCovers, LatestSyncSnapshot
    <2> QED BY <1>1, <1>3, <2>1, <2>2 DEF WriterInv
  <1>5. CopiesInv(w)' /\ ReadersInv(w)'
    BY <1>1 DEF CopiesInv, ReadersInv
  <1>6. CycleInv'
    BY CrashKeeps
  <1> QED BY <1>4, <1>5, <1>6

LEMMA OneWriterPulled ==
    ASSUME NEW w \in Device, OneWriterInv(w), NEW d \in Device, NEW e \in Device,
           NEW h \in published[e], PullDeviceHead(d, h)
    PROVE  OneWriterInv(w)'
  <1> USE DEF OneWriterInv
  <1>1. e = w
    BY DEF ReadersInv
  <1>2. CycleInv' /\ h.device = w /\ d # w
    BY <1>1, PullDeviceHeadKeeps
  <1>3. PICK R : R = Revisions(w) /\ Len(R) \in Nat
    BY RevisionIs
  <1>4. IsHistory(R, w) /\ IsManifestOf(h, R, h.before) /\ IsManifest(h)
    BY <1>1, <1>3 DEF WriterInv, CycleInv, PublishedInv, IsOwnHead
  <1>5. PICK t, u : t = log[d] /\ u = ApplyManifest(t, h)
    OBVIOUS
  <1>6. IsTable(t) /\ Ordered(t) /\ AreCopies(t.changes, R, w)
    BY <1>3, <1>5 DEF CycleInv, LogInv, CopiesInv, AreCopies
  <1>7. Ordered(u) /\ AreCopies(u.changes, R, w) /\ ManifestChanges(h) \subseteq u.changes
    BY <1>3, <1>4, <1>5, <1>6, ApplyManifestOrdered
  <1>8. log' = [log EXCEPT ![d] = u]
    BY <1>5 DEF PullDeviceHead
  <1>9. \A x \in Device : log'[x] = IF x = d THEN u ELSE log[x]
    BY <1>8 DEF CycleInv, LogInv
  <1>10. Revisions(w)' = R
    BY <1>2, <1>3, <1>9 DEF Revisions
  <1>11. UNCHANGED <<scan, pending, published>>
    BY DEF PullDeviceHead
  <1>12. snaps'[w] = snaps[w] /\ log'[w] = log[w]
    BY <1>2, <1>9 DEF PullDeviceHead, CycleInv, SnapsInv
  <1>13. WriterInv(w)'
    <2>1. SnapshotValid(w)' = SnapshotValid(w)
      BY <1>3, <1>10, <1>12 DEF SnapshotValid, LatestCovers, LatestSyncSnapshot
    <2> QED BY <1>3, <1>10, <1>11, <1>12, <2>1 DEF WriterInv
  <1>14. CopiesInv(w)'
    <2>1. \A x \in Device : Ordered(log'[x]) /\ \A c \in log'[x].changes : IsCopy(c, R, w)
      BY <1>3, <1>7, <1>9 DEF CopiesInv, AreCopies
    <2> QED BY <1>10, <2>1 DEF CopiesInv
  <1>15. ReadersInv(w)'
    <2>1. headRoots' = [headRoots EXCEPT ![d][w] = h]
      BY <1>2 DEF PullDeviceHead
    <2>2. \A x \in Device : headRoots'[x][w] = IF x = d THEN h ELSE headRoots[x][w]
      BY <2>1 DEF CycleInv, RootsInv
    <2>3. ASSUME NEW x \in Device \ {w}
          PROVE  headRoots'[x][w] # None => ManifestChanges(headRoots'[x][w]) \subseteq log'[x].changes
      <3>1. CASE x = d
        BY <1>7, <1>9, <2>2, <3>1
      <3>2. CASE x # d
        BY <1>9, <2>2, <3>2 DEF ReadersInv
      <3> QED BY <3>1, <3>2
    <2> QED BY <1>11, <2>3 DEF ReadersInv
  <1> QED BY <1>2, <1>13, <1>14, <1>15

(* A scan changes nothing but itself. *)
LEMMA OneWriterScans ==
    ASSUME NEW w \in Device, OneWriterInv(w), CycleInv',
           UNCHANGED <<log, snaps, headRoots, pending, published>>,
           scan'[w] # None /\ snaps[w] # {} => SnapshotValid(w)
    PROVE  OneWriterInv(w)'
  <1> USE DEF OneWriterInv
  <1>1. Revisions(w)' = Revisions(w)
    BY DEF Revisions
  <1>2. SnapshotValid(w)' = SnapshotValid(w)
    BY <1>1 DEF SnapshotValid, LatestCovers, LatestSyncSnapshot
  <1>3. WriterInv(w)'
    BY <1>1, <1>2 DEF WriterInv
  <1>4. CopiesInv(w)' /\ ReadersInv(w)'
    BY <1>1 DEF CopiesInv, ReadersInv
  <1> QED BY <1>3, <1>4

LEMMA OneWriterBegins ==
    ASSUME NEW w \in Device, OneWriterInv(w), NEW d \in Device, BeginScan(d)
    PROVE  OneWriterInv(w)'
  <1>1. CycleInv'
    BY BeginScanKeeps DEF OneWriterInv
  <1>2. UNCHANGED <<log, snaps, headRoots, pending, published>>
    BY DEF BeginScan
  <1>3. ASSUME scan'[w] # None, snaps[w] # {} PROVE SnapshotValid(w)
    <2>1. CASE d = w
      <3>1. CoveredDomainsIncluded(w)
        BY <1>3, <2>1 DEF BeginScan
      <3>2. Len(Revisions(w)) \in Nat /\ LatestCovers(w) \in 0..Len(Revisions(w))
        BY <1>3, CoversIsRevision, RevisionIs DEF OneWriterInv
      <3>3. \A i \in 1..LatestCovers(w) : i \in 1..Len(Revisions(w)) /\ i <= LatestCovers(w)
        BY <3>2
      <3> QED BY <3>1, <3>3 DEF CoveredDomainsIncluded, SnapshotValid
    <2>2. CASE d # w
      <3>1. scan'[w] = scan[w]
        BY <2>2 DEF BeginScan, OneWriterInv, CycleInv, ScanInv
      <3> QED BY <1>3, <3>1 DEF OneWriterInv, WriterInv
    <2> QED BY <2>1, <2>2
  <1> QED BY <1>1, <1>2, <1>3, OneWriterScans

LEMMA OneWriterGoesOn ==
    ASSUME NEW w \in Device, OneWriterInv(w), NEW d \in Device,
           ReadDomain(d) \/ NothingToPublish(d)
    PROVE  OneWriterInv(w)'
  <1>1. CycleInv'
    BY ReadDomainKeeps, NothingToPublishKeeps DEF OneWriterInv
  <1>2. UNCHANGED <<log, snaps, headRoots, pending, published>>
    BY DEF ReadDomain, NothingToPublish
  <1>3. scan[d] # None /\ \A e \in Device : e # d => scan'[e] = scan[e]
    BY DEF ReadDomain, NothingToPublish, ScanEnded, OneWriterInv, CycleInv, ScanInv
  <1>4. scan'[w] # None => scan[w] # None
    BY <1>3
  <1> QED BY <1>1, <1>2, <1>4, OneWriterScans DEF OneWriterInv, WriterInv

LEMMA OneWriterNext ==
    ASSUME NEW w \in Device, Writers = {w}
    PROVE  OneWriterInv(w) /\ [Next]_vars => OneWriterInv(w)'
  <1> SUFFICES ASSUME OneWriterInv(w), [Next]_vars PROVE OneWriterInv(w)'
    OBVIOUS
  <1>1. CASE UNCHANGED vars
    BY <1>1 DEF vars, OneWriterInv, WriterInv, CopiesInv, ReadersInv, Revisions, CycleInv,
                LogInv, SnapsInv, PublishedInv, RootsInv, PendingInv, CountersInv, ScanInv,
                SnapshotValid, LatestCovers, LatestSyncSnapshot
  <1>2. CASE Next
    <2>1. PICK d \in Device :
             \/ d = w /\ \E k \in Key : SetSyncSettingText(w, k)
             \/ BeginScan(d)
             \/ ReadDomain(d) \/ NothingToPublish(d)
             \/ PublishFullSnapshotHead(d)
             \/ PublishTailHead(d)
             \/ \E n \in 1..Len(Revisions(d)) : CompactAndPublishSettings(d, n)
             \/ RecordPublication(d)
             \/ Crash(d)
             \/ \E e \in Device : \E h \in published[e] : PullDeviceHead(d, h)
      BY <1>2 DEF Next
    <2> QED BY <2>1, OneWriterWrites, OneWriterBegins, OneWriterGoesOn,
               OneWriterPublishesSnapshot, OneWriterPublishesTail, OneWriterCompacts,
               OneWriterRecords, OneWriterCrashes, OneWriterPulled
  <1> QED BY <1>1, <1>2

-----------------------------------------------------------------------------
(* What the invariant of one writer says about heads and views. *)

(* Each covered change, or a newer one of its key, is in the snapshot. *)
LEMMA CoveredIsCarried ==
    ASSUME NEW R, Len(R) \in Nat, NEW s, IsSnapshotOf(s, R),
           NEW i \in 1..s.covers, DomainOf[R[i].key] \in s.domains
    PROVE  \E j \in DOMAIN s.values : i <= j /\ R[j].key = R[i].key
  <1> DEFINE S == {j \in 1..s.covers : i <= j /\ R[j].key = R[i].key}
  <1>1. s.covers \in Nat
    BY DEF IsSnapshotOf
  <1>2. i \in S
    BY <1>1
  <1>3. \A j \in S : j \in Nat /\ j <= s.covers
    BY <1>1
  <1>4. PICK m : m = Max(S)
    OBVIOUS
  <1>5. m \in S /\ \A j \in S : j <= m
    <2> HIDE DEF S
    <2>1. S \in SUBSET Nat /\ S # {}
      BY <1>2, <1>3
    <2> QED BY <1>1, <1>3, <1>4, <2>1, GreatestNumber
  <1>6. ASSUME NEW j \in m + 1 .. s.covers, R[j].key = R[m].key PROVE FALSE
    <2>1. j \in S
      BY <1>1, <1>5, <1>6
    <2>2. ~(j <= m) /\ m \in Nat
      BY <1>1, <1>3, <1>5
    <2> HIDE DEF S
    <2> QED BY <1>5, <2>1, <2>2
  <1>7. m \in DOMAIN s.values
    BY <1>5, <1>6 DEF IsSnapshotOf
  <1> QED BY <1>5, <1>7

LEMMA HistoryIsCarried ==
    ASSUME NEW w \in Device, OneWriterInv(w)
    PROVE  HeadCarriesHistory
  <1> USE DEF OneWriterInv
  <1> SUFFICES ASSUME NEW e \in Device, NEW h \in published[e], NEW i \in 1..h.before
               PROVE  \E x \in ManifestChanges(h) : /\ x.key = Revisions(e)[i].key
                                                    /\ AtLeast(x.value, Revisions(e)[i].value)
    BY DEF HeadCarriesHistory
  <1>1. e = w
    BY DEF ReadersInv
  <1>2. PICK R, s, c : R = Revisions(w) /\ s = h.snapshot /\ c = R[i]
    OBVIOUS
  <1>3. Len(R) \in Nat
    BY <1>2, RevisionIs
  <1>4. /\ IsManifestOf(h, R, h.before) /\ IsSnapshotOf(s, R) /\ s.covers \in Nat
        /\ h.before \in 0..Len(R)
    BY <1>1, <1>2, <1>3 DEF WriterInv, IsManifestOf, IsSnapshotOf
  <1>5. \A j \in 1..Len(R) : R[j].value = <<w, j>>
    BY <1>2 DEF WriterInv, IsHistory
  <1>6. i \in 1..Len(R) /\ i <= h.before /\ c.key = R[i].key /\ c.value = <<w, i>>
    BY <1>2, <1>3, <1>4, <1>5
  <1>7. ASSUME NEW j \in 1..Len(R), i <= j PROVE AtLeast(<<w, j>>, c.value)
    <2>1. <<w, j>> # None
      BY <1>3, NoneAssumption
    <2> QED BY <1>6, <1>7, <2>1 DEF AtLeast
  <1>8. CASE i > s.covers
    <2>1. i \in DOMAIN h.tail /\ h.tail[i] = R[i]
      BY <1>2, <1>4, <1>6, <1>8 DEF IsManifestOf
    <2>2. R[i] \in ManifestChanges(h)
      BY <2>1 DEF ManifestChanges, Range
    <2>3. AtLeast(R[i].value, c.value)
      BY <1>3, <1>6, <1>5, <1>7
    <2> QED BY <1>1, <1>2, <1>6, <2>2, <2>3
  <1>9. CASE ~(i > s.covers)
    <2>1. i \in 1..s.covers
      BY <1>3, <1>4, <1>6, <1>9
    <2>2. DomainOf[R[i].key] \in s.domains
      BY <1>2, <1>4, <1>6, <2>1 DEF IsManifestOf
    <2>3. PICK j \in DOMAIN s.values : i <= j /\ R[j].key = R[i].key
      BY <1>3, <1>4, <2>1, <2>2, CoveredIsCarried
    <2>4. /\ j \in 1..Len(R) /\ s.values[j].key = R[j].key
          /\ s.values[j].value = R[j].value
      BY <1>3, <1>4 DEF IsSnapshotOf
    <2>5. PICK a, b : a = s.values[j].key /\ b = s.values[j].value
      OBVIOUS
    <2>6. PICK x : x = SnapshotChanges(s)[j]
      OBVIOUS
    <2>7. x = [key |-> a, value |-> b, device |-> Snapshot, seq |-> j, clock |-> j]
      BY <2>5, <2>6 DEF SnapshotChanges
    <2>8. x.key = a /\ x.value = b
      BY <2>7
    <2>9. x \in ManifestChanges(h)
      <3>1. j \in DOMAIN SnapshotChanges(s)
        BY DEF SnapshotChanges
      <3> QED BY <1>2, <2>6, <3>1 DEF ManifestChanges, Range
    <2>10. AtLeast(x.value, c.value)
      BY <1>5, <1>7, <2>3, <2>4, <2>5, <2>8
    <2> QED BY <1>1, <1>2, <1>6, <2>3, <2>4, <2>5, <2>8, <2>9, <2>10
  <1> QED BY <1>8, <1>9

LEMMA TableIs ==
    ASSUME NEW w \in Device, OneWriterInv(w), NEW d \in Device
    PROVE  /\ IsTable(log[d]) /\ Ordered(log[d])
           /\ AreCopies(log[d].changes, Revisions(w), w)
           /\ Len(Revisions(w)) \in Nat
  <1>1. Len(Revisions(w)) \in Nat
    BY RevisionIs DEF OneWriterInv
  <1> QED BY <1>1 DEF OneWriterInv, CycleInv, LogInv, CopiesInv, AreCopies

LEMMA HeadRootIsShown ==
    ASSUME NEW w \in Device, OneWriterInv(w)
    PROVE  HeadRootTakesEffect
  <1> USE DEF OneWriterInv
  <1> SUFFICES ASSUME NEW d \in Device, NEW e \in Device, headRoots[d][e] # None,
                      NEW x \in ManifestChanges(headRoots[d][e])
               PROVE  AtLeast(View(d, x.key), x.value)
    BY DEF HeadRootTakesEffect
  <1>1. headRoots[d][e] \in published[e]
    BY DEF CycleInv, RootsInv
  <1>2. e = w
    BY <1>1 DEF ReadersInv
  <1>3. PICK t, R : t = log[d] /\ R = Revisions(w)
    OBVIOUS
  <1>4. \A c \in t.changes : AtLeast(ValueOf(t, c.key), c.value)
    <2>1. IsTable(t) /\ Ordered(t) /\ AreCopies(t.changes, R, w) /\ Len(R) \in Nat
      BY <1>3, TableIs
    <2> QED BY <2>1, ValueIsNewest
  <1>5. CASE d # w
    <2>1. x \in t.changes
      BY <1>2, <1>3, <1>5 DEF ReadersInv
    <2> QED BY <1>3, <1>4, <2>1 DEF View
  <1>6. CASE d = w
    <2>1. PICK h : h = headRoots[w][w]
      OBVIOUS
    <2>2. IsHistory(R, w) /\ IsManifestOf(h, R, h.before) /\ IsManifest(h) /\ Len(R) \in Nat
      BY <1>1, <1>2, <1>3, <1>6, <2>1, RevisionIs
         DEF WriterInv, CycleInv, PublishedInv, IsOwnHead
    <2>3. IsCopy(x, R, w)
      <3>1. /\ \A i \in DOMAIN SnapshotChanges(h.snapshot) :
                  IsCopy(SnapshotChanges(h.snapshot)[i], R, w)
            /\ \A i \in DOMAIN h.tail : IsCopy(h.tail[i], R, w)
        BY <2>2, ManifestCopies
      <3> QED BY <1>2, <1>6, <2>1, <3>1 DEF ManifestChanges, Range
    <2>4. x.seq \in 1..Len(R) /\ x.key = R[x.seq].key /\ x.value = <<w, x.seq>>
      BY <2>3 DEF IsCopy
    <2>5. R[x.seq] \in t.changes /\ R[x.seq].value = <<w, x.seq>>
      BY <1>3, <1>6, <2>2, <2>4, RevisionIs DEF IsHistory
    <2> QED BY <1>3, <1>4, <2>4, <2>5 DEF View
  <1> QED BY <1>5, <1>6

(* Tables only grow, so the newest change they know is never an older one. *)
LEMMA LogOnlyGrows ==
    ASSUME NEW w \in Device, OneWriterInv(w), [Next]_vars, NEW d \in Device
    PROVE  log[d].changes \subseteq log'[d].changes
  <1> USE DEF OneWriterInv
  <1>1. CASE log' = log
    BY <1>1
  <1>2. CASE log' # log
    <2>1. PICK x \in Device :
             \/ \E k \in Key : SetSyncSettingText(x, k)
             \/ \E e \in Device : \E h \in published[e] : PullDeviceHead(x, h)
      BY <1>2 DEF Next, vars, BeginScan, ReadDomain, NothingToPublish,
                  PublishFullSnapshotHead, PublishTailHead, Upload,
                  CompactAndPublishSettings, RecordPublication, Crash
    <2>2. CASE \E k \in Key : SetSyncSettingText(x, k)
      <3>1. PICK c, r : log' = [log EXCEPT ![x] = [changes |-> log[x].changes \cup {c},
                                                   revisions |-> r]]
        BY <2>2 DEF SetSyncSettingText
      <3> QED BY <3>1 DEF CycleInv, LogInv
    <2>3. CASE \E e \in Device : \E h \in published[e] : PullDeviceHead(x, h)
      <3>1. PICK e \in Device : \E h \in published[e] : PullDeviceHead(x, h)
        BY <2>3
      <3>2. PICK h \in published[e] : PullDeviceHead(x, h)
        BY <3>1
      <3>3. IsManifest(h)
        BY DEF CycleInv, PublishedInv, IsOwnHead
      <3>4. PICK t, u : t = log[x] /\ u = ApplyManifest(t, h)
        OBVIOUS
      <3>5. t.changes \subseteq u.changes
        BY <3>3, <3>4, ApplyManifestIsTable DEF CycleInv, LogInv
      <3>6. log' = [log EXCEPT ![x] = u]
        BY <3>2, <3>4 DEF PullDeviceHead
      <3> QED BY <3>4, <3>5, <3>6 DEF CycleInv, LogInv
    <2> QED BY <2>1, <2>2, <2>3
  <1> QED BY <1>1, <1>2

LEMMA ViewGrows ==
    ASSUME NEW w \in Device, OneWriterInv(w), OneWriterInv(w)', [Next]_vars,
           NEW d \in Device, NEW k \in Key, View(d, k) # None
    PROVE  AtLeast(View(d, k)', View(d, k))
  <1>1. PICK t, u, R, T : /\ t = log[d] /\ u = log'[d]
                          /\ R = Revisions(w) /\ T = log'[w].revisions
    OBVIOUS
  <1>2. View(d, k) = ValueOf(t, k) /\ View(d, k)' = ValueOf(u, k)
    BY <1>1 DEF View
  <1>3. IsTable(t) /\ Ordered(t) /\ AreCopies(t.changes, R, w) /\ Len(R) \in Nat
    BY <1>1, TableIs
  <1>4. IsTable(u) /\ Ordered(u) /\ AreCopies(u.changes, T, w)
    BY <1>1 DEF OneWriterInv, CycleInv, LogInv, CopiesInv, AreCopies, Revisions
  <1>5. Len(T) \in Nat
    <2>1. IsTable(log'[w])
      BY DEF OneWriterInv, CycleInv, LogInv
    <2>2. T \in Seq(Change)
      BY <1>1, <2>1 DEF IsTable
    <2> QED BY <2>2
  <1>6. PICK c \in t.changes : c.key = k /\ ValueOf(t, k) = c.value
    BY <1>2, <1>3, ValueIsNewest
  <1>7. c \in u.changes
    BY <1>1, LogOnlyGrows
  <1>8. AtLeast(ValueOf(u, c.key), c.value)
    BY <1>4, <1>5, <1>7, ValueIsNewest
  <1> QED BY <1>2, <1>6, <1>8

(***************************************************************************)
(* When one device writes, and any devices compact, crash and pull, every  *)
(* head that was ever published carries what the writer had changed before *)
(* it began to read the domains for the head, although it may write at any *)
(* moment between the queries, for any number of devices, keys, domains    *)
(* and writes.                                                             *)
(***************************************************************************)
THEOREM HistoryCorrect ==
    ASSUME NEW w \in Device, Writers = {w}
    PROVE  Spec => []HeadCarriesHistory
  <1>1. Init => OneWriterInv(w)
    BY OneWriterInit
  <1>2. OneWriterInv(w) /\ [Next]_vars => OneWriterInv(w)'
    BY OneWriterNext
  <1>3. OneWriterInv(w) => HeadCarriesHistory
    BY HistoryIsCarried
  <1> QED BY <1>1, <1>2, <1>3, PTL DEF Spec

(***************************************************************************)
(* Under the same condition, every stored head root has taken effect in    *)
(* what the device shows.                                                  *)
(***************************************************************************)
THEOREM HeadRootCorrect ==
    ASSUME NEW w \in Device, Writers = {w}
    PROVE  Spec => []HeadRootTakesEffect
  <1>1. Init => OneWriterInv(w)
    BY OneWriterInit
  <1>2. OneWriterInv(w) /\ [Next]_vars => OneWriterInv(w)'
    BY OneWriterNext
  <1>3. OneWriterInv(w) => HeadRootTakesEffect
    BY HeadRootIsShown
  <1> QED BY <1>1, <1>2, <1>3, PTL DEF Spec

(***************************************************************************)
(* Under the same condition, what a device shows never goes back to an     *)
(* older write, whatever old heads it is presented with.                   *)
(***************************************************************************)
THEOREM ViewForwardCorrect ==
    ASSUME NEW w \in Device, Writers = {w}
    PROVE  Spec => ViewMovesForward
  <1>1. Init => OneWriterInv(w)
    BY OneWriterInit
  <1>2. OneWriterInv(w) /\ [Next]_vars => OneWriterInv(w)'
    BY OneWriterNext
  <1>3. OneWriterInv(w) /\ OneWriterInv(w)' /\ [Next]_vars =>
           [\A d \in Device, k \in Key :
               View(d, k) # None => AtLeast(View(d, k)', View(d, k))]_vars
    BY ViewGrows
  <1> QED BY <1>1, <1>2, <1>3, PTL DEF Spec, ViewMovesForward

-----------------------------------------------------------------------------
(* The shared root.  Its inductive invariant, whoever writes: the n-th     *)
(* publication of a device is the n-th manifest it shares, and what waits  *)
(* to be applied was shared.                                               *)

IsShared(m, d, i) ==
    /\ m.id = <<d, i>>
    /\ IsManifest(m)
    /\ DOMAIN m.frontiers \subseteq Device \cup {Snapshot}
    /\ \A e \in DOMAIN m.frontiers : m.frontiers[e] \in Nat \ {0}

SharedInv ==
    /\ DOMAIN shared = Device
    /\ \A d \in Device :
          /\ shared[d] \in Seq(Range(shared[d]))
          /\ Len(shared[d]) = publications[d]
          /\ \A i \in 1..Len(shared[d]) : IsShared(shared[d][i], d, i)

TodoInv ==
    /\ DOMAIN todo = Device
    /\ \A d \in Device :
          /\ DOMAIN todo[d] \subseteq Nat
          /\ \A i \in DOMAIN todo[d] : todo[d][i] \in Manifests
          /\ DOMAIN todo[d] # {} => pending[d] = None /\ scan[d] = None

RootInv == CycleInv /\ SharedInv /\ TodoInv

LEMMA ManifestIs ==
    ASSUME RootInv, NEW m \in Manifests
    PROVE  /\ IsManifest(m) /\ m.id \in Device \X (Nat \ {0})
           /\ \E d \in Device : \E i \in 1..Len(shared[d]) :
                 m = shared[d][i] /\ IsShared(m, d, i)
  <1>1. PICK d \in Device : m \in Range(shared[d])
    BY DEF Manifests
  <1>2. DOMAIN shared[d] = 1..Len(shared[d]) /\ Len(shared[d]) \in Nat
    BY DEF RootInv, SharedInv
  <1>3. PICK i \in 1..Len(shared[d]) : m = shared[d][i]
    BY <1>1, <1>2 DEF Range
  <1>4. IsShared(m, d, i)
    BY <1>3 DEF RootInv, SharedInv
  <1>5. <<d, i>> \in Device \X (Nat \ {0})
    BY <1>2
  <1> QED BY <1>3, <1>4, <1>5 DEF IsShared

LEMMA RootInvImpliesTypeOK == RootInv => RootTypeOK
  <1> SUFFICES ASSUME RootInv PROVE RootTypeOK
    OBVIOUS
  <1>1. TypeOK
    BY CycleInvImpliesTypeOK DEF RootInv
  <1>2. ASSUME NEW d \in Device
        PROVE  /\ Range(todo[d]) \subseteq Manifests
               /\ DOMAIN todo[d] # {} => pending[d] = None /\ scan[d] = None
    BY DEF RootInv, TodoInv, Range
  <1>3. ASSUME NEW d \in Device, NEW i \in DOMAIN shared[d]
        PROVE  /\ shared[d][i].id = <<d, i>>
               /\ IsSnapshot(shared[d][i].snapshot)
               /\ DOMAIN shared[d][i].frontiers \subseteq Device \cup {Snapshot}
               /\ Range(shared[d][i].frontiers) \subseteq Nat \ {0}
    <2>1. PICK m : m = shared[d][i]
      OBVIOUS
    <2>2. i \in 1..Len(shared[d])
      BY DEF RootInv, SharedInv
    <2>3. IsShared(m, d, i)
      BY <2>1, <2>2 DEF RootInv, SharedInv
    <2>4. IsSnapshot(m.snapshot)
      BY <2>3, SnapshotChangesAreList DEF IsShared, IsManifest
    <2>5. Range(m.frontiers) \subseteq Nat \ {0}
      BY <2>3 DEF IsShared, Range
    <2> QED BY <2>1, <2>3, <2>4, <2>5 DEF IsShared
  <1> QED BY <1>1, <1>2, <1>3 DEF RootTypeOK

LEMMA RootInvInit == RootInit => RootInv
  <1> SUFFICES ASSUME RootInit PROVE RootInv
    OBVIOUS
  <1>1. CycleInv
    BY CycleInvInit DEF RootInit
  <1>2. /\ DOMAIN shared = Device /\ DOMAIN todo = Device
        /\ \A d \in Device : shared[d] = << >> /\ todo[d] = << >>
        /\ \A d \in Device : publications[d] = 0
    BY DEF RootInit, Init
  <1>3. DOMAIN << >> = {} /\ Len(<< >>) = 0 /\ << >> \in Seq(Range(<< >>))
    OBVIOUS
  <1>4. SharedInv
    <2>1. PICK q : q = << >>
      OBVIOUS
    <2>2. /\ q \in Seq(Range(q)) /\ Len(q) = 0
          /\ \A d \in Device : \A i \in 1..Len(q) : IsShared(q[i], d, i)
      BY <1>3, <2>1
    <2>3. ASSUME NEW d \in Device
          PROVE  /\ shared[d] \in Seq(Range(shared[d])) /\ Len(shared[d]) = publications[d]
                 /\ \A i \in 1..Len(shared[d]) : IsShared(shared[d][i], d, i)
      <3>1. shared[d] = q /\ publications[d] = 0
        BY <1>2, <2>1
      <3> QED BY <2>2, <3>1
    <2> QED BY <1>2, <2>3 DEF SharedInv
  <1>5. TodoInv
    BY <1>2, <1>3 DEF TodoInv
  <1> QED BY <1>1, <1>4, <1>5 DEF RootInv

(* The frontier of a device is the latest sequence among its changes. *)
LEMMA FrontiersAre ==
    ASSUME NEW t, IsTable(t), NEW C \in SUBSET t.changes
    PROVE  /\ DOMAIN Frontiers(C) = {c.device : c \in C}
           /\ \A e \in DOMAIN Frontiers(C) :
                 /\ Frontiers(C)[e] \in Nat \ {0}
                 /\ \E c \in C : c.device = e /\ c.seq = Frontiers(C)[e]
           /\ \A c \in C : c.seq <= Frontiers(C)[c.device]
  <1>1. PICK n \in Nat : \A c \in t.changes : c.clock <= n /\ c.seq <= n
    BY DEF IsTable
  <1>2. \A c \in C : c.seq \in Nat \ {0} /\ c.seq <= n
    BY <1>1 DEF IsTable, Change
  <1>3. PICK f : f = Frontiers(C)
    OBVIOUS
  <1>4. DOMAIN f = {c.device : c \in C}
    BY <1>3 DEF Frontiers
  <1>5. ASSUME NEW e \in DOMAIN f
        PROVE  /\ f[e] \in Nat \ {0}
               /\ \E c \in C : c.device = e /\ c.seq = f[e]
               /\ \A c \in C : c.device = e => c.seq <= f[e]
    <2> DEFINE S == {c.seq : c \in {x \in C : x.device = e}}
    <2>1. f[e] = Max(S)
      BY <1>3, <1>4 DEF Frontiers
    <2>2. \A x \in S : x \in Nat \ {0} /\ x <= n
      BY <1>2
    <2>3. S # {}
      BY <1>4
    <2>4. (\A x \in S : \E c \in C : c.device = e /\ c.seq = x)
          /\ \A c \in C : c.device = e => c.seq \in S
      OBVIOUS
    <2> HIDE DEF S
    <2>5. S \in SUBSET Nat
      BY <2>2
    <2>6. Max(S) \in S /\ \A y \in S : y <= Max(S)
      BY <2>2, <2>3, <2>5, GreatestNumber
    <2> QED BY <2>1, <2>2, <2>4, <2>6
  <1> QED BY <1>3, <1>4, <1>5

LEMMA ShareKeeps ==
    ASSUME RootInv, CycleInv', NEW d \in Device, NEW newSnaps, NEW newHeads,
           Upload(d, newSnaps, newHeads),
           NEW s, IsSnapshotPayload(s), NEW covered, NEW tail, IsList(tail),
           Range(covered) \cup Range(tail) \subseteq log[d].changes,
           Share(d, s, covered, tail)
    PROVE  RootInv'
  <1>1. PICK F : F = Frontiers(Range(covered) \cup Range(tail))
    OBVIOUS
  <1>2. /\ DOMAIN F \subseteq Device \cup {Snapshot}
        /\ \A e \in DOMAIN F : F[e] \in Nat \ {0}
    <2>1. PICK t, C : t = log[d] /\ C = Range(covered) \cup Range(tail)
      OBVIOUS
    <2>2. IsTable(t) /\ C \in SUBSET t.changes
      BY <2>1 DEF RootInv, CycleInv, LogInv
    <2>3. /\ DOMAIN F = {c.device : c \in C}
          /\ \A e \in DOMAIN F : F[e] \in Nat \ {0}
      BY <1>1, <2>1, <2>2, FrontiersAre
    <2>4. \A c \in C : c.device \in Device \cup {Snapshot}
      BY <2>2 DEF IsTable, Change
    <2> QED BY <2>3, <2>4
  <1>3. PICK n : n = publications[d] /\ n \in Nat
    BY DEF RootInv, CycleInv, CountersInv
  <1>4. PICK i : i = <<d, n + 1>>
    OBVIOUS
  <1>5. PICK m : m = [id |-> i, snapshot |-> s, tail |-> tail, frontiers |-> F]
    OBVIOUS
  <1>6. m.id = i /\ m.snapshot = s /\ m.tail = tail /\ m.frontiers = F
    BY <1>5
  <1>7. IsShared(m, d, n + 1)
    BY <1>2, <1>4, <1>6 DEF IsShared, IsManifest
  <1>8. shared' = [shared EXCEPT ![d] = Append(shared[d], m)]
    BY <1>1, <1>3, <1>4, <1>5 DEF Share
  <1>9. todo' = todo /\ DOMAIN todo[d] = {}
    BY DEF Share
  <1>10. PICK Q, T : Q = shared[d] /\ T = Append(Q, m)
    OBVIOUS
  <1>11. /\ Q \in Seq(Range(Q)) /\ Len(Q) = n
         /\ \A j \in 1..n : IsShared(Q[j], d, j)
    BY <1>3, <1>10 DEF RootInv, SharedInv
  <1>12. /\ Len(T) = n + 1 /\ DOMAIN T = 1..n + 1 /\ T[n + 1] = m
         /\ \A j \in 1..n : T[j] = Q[j]
         /\ DOMAIN Q = 1..n
    <2>1. Q \in Seq(Range(Q) \cup {m})
      BY <1>11
    <2>2. PICK X : X = Range(Q) \cup {m}
      OBVIOUS
    <2>3. Q \in Seq(X) /\ m \in X
      BY <2>1, <2>2
    <2> QED BY <1>3, <1>10, <1>11, <2>3
  <1>13. T \in Seq(Range(T))
    <2>1. \A j \in 1..n + 1 : T[j] \in Range(T)
      BY <1>12 DEF Range
    <2>2. T = [j \in 1..n + 1 |-> T[j]]
      <3>1. Q \in Seq(Range(Q) \cup {m})
        BY <1>11
      <3>2. PICK X : X = Range(Q) \cup {m}
        OBVIOUS
      <3>3. T \in Seq(X)
        BY <1>10, <3>1, <3>2
      <3> QED BY <1>12, <3>3
    <2> QED BY <1>3, <2>1, <2>2
  <1>14. \A e \in Device : shared'[e] = IF e = d THEN T ELSE shared[e]
    BY <1>8, <1>10 DEF RootInv, SharedInv
  <1>15. \A e \in Device : publications'[e] = IF e = d THEN n + 1 ELSE publications[e]
    BY <1>3 DEF Upload, RootInv, CycleInv, CountersInv
  <1>16. SharedInv'
    <2>1. DOMAIN shared' = Device
      BY <1>8 DEF RootInv, SharedInv
    <2>2. \A j \in 1..n + 1 : IsShared(T[j], d, j)
      <3>1. \A j \in 1..n + 1 : j \in 1..n \/ j = n + 1
        BY <1>3
      <3> QED BY <1>7, <1>11, <1>12, <3>1
    <2>3. ASSUME NEW e \in Device
          PROVE  /\ shared'[e] \in Seq(Range(shared'[e]))
                 /\ Len(shared'[e]) = publications'[e]
                 /\ \A j \in 1..Len(shared'[e]) : IsShared(shared'[e][j], e, j)
      <3>1. CASE e = d
        BY <1>12, <1>13, <1>14, <1>15, <2>2, <3>1
      <3>2. CASE e # d
        BY <1>14, <1>15, <3>2 DEF RootInv, SharedInv
      <3> QED BY <3>1, <3>2
    <2> QED BY <2>1, <2>3 DEF SharedInv
  <1>17. Manifests \subseteq Manifests'
    <2>1. Range(Q) \subseteq Range(T)
      BY <1>3, <1>12 DEF Range
    <2>2. \A e \in Device : Range(shared[e]) \subseteq Range(shared'[e])
      BY <1>10, <1>14, <2>1
    <2> QED BY <2>2 DEF Manifests
  <1>18. TodoInv'
    <2>1. \A e \in Device : e # d => pending'[e] = pending[e] /\ scan'[e] = scan[e]
      BY DEF Upload, RootInv, CycleInv, PendingInv, ScanInv
    <2> QED BY <1>9, <1>17, <2>1 DEF RootInv, TodoInv
  <1> QED BY <1>16, <1>18 DEF RootInv

(* The cycle takes a step of which the shared root knows nothing. *)
LEMMA CycleStepKeepsRoot ==
    ASSUME RootInv, CycleInv', UNCHANGED <<shared, todo, publications>>,
           \A d \in Device : pending'[d] = pending[d] \/ pending'[d] = None,
           \A d \in Device : DOMAIN todo[d] # {} => scan'[d] = scan[d] \/ scan'[d] = None
    PROVE  RootInv'
  <1>1. Manifests' = Manifests
    BY DEF Manifests
  <1>2. SharedInv'
    BY DEF RootInv, SharedInv
  <1>3. TodoInv'
    BY <1>1 DEF RootInv, TodoInv
  <1> QED BY <1>2, <1>3 DEF RootInv

LEMMA RevisionsAreKnown ==
    ASSUME CycleInv, NEW d \in Device, NEW I \in SUBSET (1..Len(Revisions(d)))
    PROVE  /\ Range(Restrict(Revisions(d), I)) \subseteq log[d].changes
           /\ IsList(Restrict(Revisions(d), I))
  <1>1. PICK f : f = Restrict(Revisions(d), I)
    OBVIOUS
  <1>2. DOMAIN f = I /\ \A i \in I : f[i] = Revisions(d)[i]
    BY <1>1 DEF Restrict
  <1>3. \A i \in I : f[i] \in log[d].changes /\ IsChange(f[i])
    BY <1>2, RevisionIs
  <1>4. Len(Revisions(d)) \in Nat /\ DOMAIN f \subseteq 1..Len(Revisions(d))
    BY <1>2, RevisionIs
  <1> QED BY <1>1, <1>2, <1>3, <1>4 DEF IsList, Range

(* What a scan has read and what its snapshot covers are revisions. *)
LEMMA ScannedAreKnown ==
    ASSUME CycleInv, NEW d \in Device, scan[d] # None
    PROVE  /\ Range(EventsRead(d)) \subseteq log[d].changes
           /\ Range(Own(d, EventsRead(d))) \subseteq log[d].changes
           /\ Range(CoveredEvents(d)) \subseteq log[d].changes
  <1>1. PICK R, P, E, f, C : /\ R = Revisions(d) /\ P = scan[d].read /\ E = EventsRead(d)
                             /\ f = Own(d, E) /\ C = CoveredEvents(d)
    OBVIOUS
  <1>2. /\ P \subseteq 1..Len(R) /\ DOMAIN E = P /\ \A i \in P : E[i] = R[i]
        /\ DOMAIN f \subseteq P /\ \A i \in DOMAIN f : f[i] = R[i]
    BY <1>1, EventsReadAre
  <1>3. \A i \in 1..Len(R) : R[i] \in log[d].changes
    BY <1>1, RevisionIs
  <1>4. Range(E) \subseteq log[d].changes /\ Range(f) \subseteq log[d].changes
    BY <1>2, <1>3 DEF Range
  <1>5. Range(C) \subseteq log[d].changes
    <2>1. PICK I : I = {i \in 1..Len(R) : i <= LatestCovers(d)}
      OBVIOUS
    <2>2. C = [i \in I |-> R[i]]
      BY <1>1, <2>1 DEF CoveredEvents, Restrict
    <2> QED BY <1>3, <2>1, <2>2 DEF Range
  <1> QED BY <1>1, <1>4, <1>5

LEMMA ShareFullSnapshotKeeps ==
    ASSUME RootInv, NEW d \in Device, ShareFullSnapshot(d)
    PROVE  RootInv'
  <1> USE DEF RootInv
  <1>1. PublishFullSnapshotHead(d) /\ CycleInv'
    BY PublishFullSnapshotHeadKeeps DEF ShareFullSnapshot
  <1>2. PICK s, h : s = FullSnapshot(d) /\ IsSnapshotPayload(s) /\ Upload(d, {s}, {h})
    BY <1>1, FullSnapshotHeadIs
  <1>3. PICK g : g = EventsRead(d)
    OBVIOUS
  <1>4. Share(d, s, g, << >>)
    BY <1>2, <1>3 DEF ShareFullSnapshot
  <1>5. IsList(<< >>) /\ Range(<< >>) = {}
    <2>1. 0 \in Nat /\ DOMAIN << >> = {}
      OBVIOUS
    <2> QED BY <2>1 DEF IsList, Range
  <1>6. Range(g) \subseteq log[d].changes
    BY <1>1, <1>3, ScannedAreKnown DEF PublishFullSnapshotHead, ScanEnded
  <1>7. Range(g) \cup Range(<< >>) \subseteq log[d].changes
    BY <1>5, <1>6
  <1> QED BY <1>1, <1>2, <1>4, <1>5, <1>7, ShareKeeps

LEMMA ShareTailKeeps ==
    ASSUME RootInv, NEW d \in Device, ShareTail(d)
    PROVE  RootInv'
  <1> USE DEF RootInv
  <1>1. PublishTailHead(d) /\ CycleInv'
    BY PublishTailHeadKeeps DEF ShareTail
  <1>2. PICK h : Upload(d, {}, {h})
    BY <1>1, TailHeadIs
  <1>3. PICK s, f, g : /\ s = LatestSyncSnapshot(d) /\ f = Own(d, EventsRead(d))
                       /\ g = CoveredEvents(d)
    OBVIOUS
  <1>4. Share(d, s, g, f)
    BY <1>3 DEF ShareTail
  <1>5. scan[d] # None /\ snaps[d] # {}
    BY <1>1 DEF PublishTailHead, ScanEnded
  <1>6. IsSnapshotPayload(s)
    <2>1. s \in snaps[d]
      BY <1>3, <1>5, LatestCoversIs
    <2> QED BY <2>1 DEF CycleInv, SnapsInv
  <1>7. IsList(f)
    BY <1>3, <1>5, EventsReadAre
  <1>8. Range(f) \subseteq log[d].changes /\ Range(g) \subseteq log[d].changes
    BY <1>3, <1>5, ScannedAreKnown
  <1>9. Range(g) \cup Range(f) \subseteq log[d].changes
    BY <1>8
  <1> QED BY <1>1, <1>2, <1>4, <1>6, <1>7, <1>9, ShareKeeps

(* No pull of d is under way when it scans. *)
LEMMA ScansKeepsRoot ==
    ASSUME RootInv, NEW d \in Device, Scans(d)
    PROVE  RootInv'
  <1> USE DEF RootInv
  <1>1. CycleInv'
    BY BeginScanKeeps, ReadDomainKeeps, NothingToPublishKeeps DEF Scans
  <1>2. UNCHANGED <<shared, todo, publications, pending>>
    BY DEF Scans, BeginScan, ReadDomain, NothingToPublish
  <1>3. DOMAIN todo[d] = {}
    BY DEF Scans, ReadDomain, NothingToPublish, ScanEnded, TodoInv
  <1>4. \A e \in Device : e # d => scan'[e] = scan[e]
    BY DEF Scans, BeginScan, ReadDomain, NothingToPublish, CycleInv, ScanInv
  <1> QED BY <1>1, <1>2, <1>3, <1>4, CycleStepKeepsRoot

LEMMA ShareCompactionKeeps ==
    ASSUME RootInv, NEW d \in Device, NEW n \in 1..Len(Revisions(d)), ShareCompaction(d, n)
    PROVE  RootInv'
  <1> USE DEF RootInv
  <1>1. CompactAndPublishSettings(d, n) /\ CycleInv'
    BY CompactAndPublishSettingsKeeps DEF ShareCompaction
  <1>2. PICK l, I, J, g, f : /\ l = LatestCovers(d)
                             /\ I = l + 1 .. l + n /\ J = l + n + 1 .. Len(Revisions(d))
                             /\ g = Restrict(Revisions(d), I) /\ f = Restrict(Revisions(d), J)
    OBVIOUS
  <1>3. PICK s : /\ s = SnapshotPayload(d, l + n, Domains(g))
                 /\ IsSnapshotPayload(s)
                 /\ l + n \in 0..Len(Revisions(d))
                 /\ Upload(d, {s}, {})
    BY <1>1, <1>2, CompactionIs
  <1>4. Share(d, s, g, f)
    BY <1>2, <1>3 DEF ShareCompaction
  <1>5. I \in SUBSET (1..Len(Revisions(d))) /\ J \in SUBSET (1..Len(Revisions(d)))
    <2>1. l \in Nat /\ Len(Revisions(d)) \in Nat
      BY <1>2, LatestCoversIs, RevisionIs
    <2> QED BY <1>2, <1>3, <2>1
  <1>6. IsList(f) /\ Range(f) \subseteq log[d].changes /\ Range(g) \subseteq log[d].changes
    BY <1>2, <1>5, RevisionsAreKnown
  <1>7. Range(g) \cup Range(f) \subseteq log[d].changes
    BY <1>6
  <1> QED BY <1>1, <1>3, <1>4, <1>6, <1>7, ShareKeeps

LEMMA PullCandidatesKeeps ==
    ASSUME RootInv, NEW d \in Device, NEW list \in Listings, PullCandidates(d, list)
    PROVE  RootInv'
  <1> USE DEF RootInv
  <1>1. UNCHANGED <<log, snaps, settingsRoot, headRoots, scan, pending, published,
                    publications, crashes, shared>>
    BY DEF PullCandidates, vars
  <1>2. CycleInv' /\ SharedInv' /\ Manifests' = Manifests
    <2>1. CycleInv'
      BY <1>1 DEF CycleInv, LogInv, SnapsInv, PublishedInv, RootsInv, PendingInv, CountersInv,
                  ScanInv, LatestCovers, Revisions
    <2>2. SharedInv' /\ Manifests' = Manifests
      BY <1>1 DEF SharedInv, Manifests
    <2> QED BY <2>1, <2>2
  <1>3. PICK f : f = ToApply(d, list) /\ todo' = [todo EXCEPT ![d] = f]
    BY DEF PullCandidates
  <1>4. DOMAIN f \subseteq Nat /\ \A i \in DOMAIN f : f[i] \in Manifests
    <2>1. DOMAIN f \subseteq DOMAIN list /\ \A i \in DOMAIN f : f[i] = list[i]
      BY <1>3 DEF ToApply, Restrict
    <2>2. PICK n \in 1..MaxCandidates : list \in [1..n -> Manifests]
      BY DEF Listings
    <2>3. DOMAIN list = 1..n /\ \A i \in DOMAIN list : list[i] \in Manifests
      BY <2>2
    <2>4. DOMAIN list \subseteq Nat
      BY <2>3, PullersAssumption
    <2> QED BY <2>1, <2>3, <2>4
  <1>5. pending[d] = None /\ scan[d] = None
    BY DEF PullCandidates
  <1>6. DOMAIN todo' = Device /\ \A e \in Device : todo'[e] = IF e = d THEN f ELSE todo[e]
    BY <1>3 DEF TodoInv
  <1>7. TodoInv'
    BY <1>1, <1>2, <1>4, <1>5, <1>6 DEF TodoInv
  <1> QED BY <1>2, <1>7

LEMMA NextCandidateIs ==
    ASSUME RootInv, NEW d \in Device, DOMAIN todo[d] # {}
    PROVE  /\ NextCandidate(d) \in Manifests
           /\ DOMAIN AfterNext(d) \subseteq DOMAIN todo[d]
           /\ \A i \in DOMAIN AfterNext(d) : AfterNext(d)[i] = todo[d][i]
  <1>1. PICK f, S, m : f = todo[d] /\ S = DOMAIN f /\ m = Min(S)
    OBVIOUS
  <1>2. S \in SUBSET Nat /\ S # {}
    BY <1>1 DEF RootInv, TodoInv
  <1>3. m \in S
    <2>1. \E x \in S : \A y \in S : x <= y
      BY <1>2, LeastNumber
    <2> QED BY <1>1, <2>1 DEF Min
  <1>4. f[m] \in Manifests
    BY <1>1, <1>3 DEF RootInv, TodoInv
  <1>5. NextCandidate(d) = f[m] /\ AfterNext(d) = [i \in S \ {m} |-> f[i]]
    BY <1>1 DEF NextCandidate, AfterNext, Restrict
  <1> QED BY <1>1, <1>4, <1>5

LEMMA ApplyCandidateKeeps ==
    ASSUME RootInv, NEW d \in Device, ApplyCandidate(d)
    PROVE  RootInv'
  <1> USE DEF RootInv
  <1>1. DOMAIN todo[d] # {} /\ UNCHANGED <<headRoots, scan, pending, published, publications,
                                           crashes, shared>>
    BY DEF ApplyCandidate
  <1>2. PICK m, f : m = NextCandidate(d) /\ f = AfterNext(d)
    OBVIOUS
  <1>3. /\ m \in Manifests
        /\ DOMAIN f \subseteq DOMAIN todo[d]
        /\ \A i \in DOMAIN f : f[i] = todo[d][i]
    BY <1>1, <1>2, NextCandidateIs
  <1>4. IsManifest(m) /\ m.id \in Device \X (Nat \ {0})
    BY <1>3, ManifestIs
  <1>5. m.id \in Device \X Nat
    BY <1>4
  <1>6. /\ log' = [log EXCEPT ![d] = ApplyManifest(log[d], m)]
        /\ snaps' = [snaps EXCEPT ![d] = RecordSyncSnapshots(snaps[d], {m.snapshot})]
        /\ settingsRoot' = [settingsRoot EXCEPT ![d] = m.id]
        /\ todo' = [todo EXCEPT ![d] = f]
    BY <1>2 DEF ApplyCandidate
  <1>7. PICK id : id = m.id
    OBVIOUS
  <1>8. /\ LogInv' /\ SnapsInv' /\ PublishedInv' /\ PendingInv' /\ ScanInv'
        /\ \A e \in Device : snaps[e] # {} => snaps'[e] # {}
        /\ settingsRoot' \in [Device -> (Device \X Nat) \cup {None}]
    <2>1. /\ UNCHANGED <<scan, pending, published, publications>> /\ scan[d] = None
          /\ \A e \in Device : e # d => headRoots'[e][e] = headRoots[e][e]
      BY <1>1 DEF TodoInv
    <2>2. settingsRoot' = [settingsRoot EXCEPT ![d] = id] /\ id \in Device \X Nat
      BY <1>5, <1>6, <1>7
    <2> QED BY <1>4, <1>6, <2>1, <2>2, AppliedKeeps
  <1>9. RootsInv'
    BY <1>1, <1>8 DEF CycleInv, RootsInv
  <1>10. CountersInv' /\ SharedInv' /\ Manifests' = Manifests
    BY <1>1 DEF CycleInv, CountersInv, SharedInv, Manifests
  <1>11. TodoInv'
    <2>1. DOMAIN todo' = Device /\ \A e \in Device : todo'[e] = IF e = d THEN f ELSE todo[e]
      BY <1>6 DEF TodoInv
    <2> QED BY <1>1, <1>3, <1>10, <2>1 DEF TodoInv
  <1> QED BY <1>8, <1>9, <1>10, <1>11 DEF CycleInv

LEMMA PullFailsKeeps ==
    ASSUME RootInv, NEW d \in Device, PullFails(d)
    PROVE  RootInv'
  <1> USE DEF RootInv
  <1>1. UNCHANGED <<log, snaps, settingsRoot, headRoots, scan, pending, published,
                    publications, shared>>
    BY DEF PullFails
  <1>2. LogInv' /\ SnapsInv' /\ PublishedInv' /\ RootsInv' /\ PendingInv' /\ ScanInv'
    BY <1>1 DEF CycleInv, LogInv, SnapsInv, PublishedInv, RootsInv, PendingInv, ScanInv,
                LatestCovers, Revisions
  <1>3. CountersInv'
    BY <1>1, BoundAssumption DEF PullFails, CycleInv, CountersInv
  <1>4. SharedInv' /\ Manifests' = Manifests
    BY <1>1 DEF SharedInv, Manifests
  <1>5. TodoInv'
    <2>1. todo' = [todo EXCEPT ![d] = << >>]
      BY DEF PullFails
    <2>2. DOMAIN todo' = Device /\ \A e \in Device : todo'[e] = IF e = d THEN << >> ELSE todo[e]
      BY <2>1 DEF TodoInv
    <2>3. DOMAIN << >> = {}
      OBVIOUS
    <2>4. \A e \in Device : todo'[e] = todo[e] \/ DOMAIN todo'[e] = {}
      BY <2>2, <2>3
    <2> QED BY <1>1, <1>4, <2>2, <2>4 DEF TodoInv
  <1> QED BY <1>2, <1>3, <1>4, <1>5 DEF CycleInv

LEMMA RootInvNext == RootInv /\ [RootNext]_pullVars => RootInv'
  <1> SUFFICES ASSUME RootInv, [RootNext]_pullVars PROVE RootInv'
    OBVIOUS
  <1> USE DEF RootInv
  <1>1. CASE UNCHANGED pullVars
    <2>1. UNCHANGED vars /\ UNCHANGED <<shared, todo, publications, pending, scan>>
      BY <1>1 DEF pullVars, vars
    <2>2. CycleInv'
      BY <2>1, CycleInvNext
    <2> QED BY <2>1, <2>2, CycleStepKeepsRoot
  <1>2. CASE RootNext
    <2>1. PICK d \in Device :
             \/ (\E k \in Key : SetSyncSettingText(d, k)) /\ UNCHANGED <<shared, todo>>
             \/ Scans(d)
             \/ ShareFullSnapshot(d)
             \/ ShareTail(d)
             \/ \E n \in 1..Len(Revisions(d)) : ShareCompaction(d, n)
             \/ RecordPublication(d) /\ UNCHANGED <<shared, todo>>
             \/ Crash(d) /\ UNCHANGED <<shared, todo>>
             \/ \E list \in Listings : PullCandidates(d, list)
             \/ ApplyCandidate(d)
             \/ PullFails(d)
      BY <1>2 DEF RootNext
    <2>2. CASE (\E k \in Key : SetSyncSettingText(d, k)) /\ UNCHANGED <<shared, todo>>
      <3>1. CycleInv'
        BY <2>2, SetSyncSettingTextKeeps
      <3>2. UNCHANGED <<scan, pending, publications>>
        BY <2>2 DEF SetSyncSettingText
      <3> QED BY <2>2, <3>1, <3>2, CycleStepKeepsRoot
    <2>3. CASE RecordPublication(d) /\ UNCHANGED <<shared, todo>>
      <3>1. CycleInv'
        BY <2>3, RecordPublicationKeeps
      <3>2. /\ UNCHANGED <<scan, publications>>
            /\ \A e \in Device : pending'[e] = pending[e] \/ pending'[e] = None
        BY <2>3 DEF RecordPublication, CycleInv, PendingInv
      <3> QED BY <2>3, <3>1, <3>2, CycleStepKeepsRoot
    <2>4. CASE Crash(d) /\ UNCHANGED <<shared, todo>>
      <3>1. CycleInv'
        BY <2>4, CrashKeeps
      <3>2. /\ publications' = publications
            /\ \A e \in Device : pending'[e] = pending[e] \/ pending'[e] = None
            /\ \A e \in Device : scan'[e] = scan[e] \/ scan'[e] = None
        BY <2>4 DEF Crash, CycleInv, PendingInv, ScanInv
      <3> QED BY <2>4, <3>1, <3>2, CycleStepKeepsRoot
    <2> QED BY <2>1, <2>2, <2>3, <2>4, ScansKeepsRoot, ShareFullSnapshotKeeps, ShareTailKeeps,
               ShareCompactionKeeps, PullCandidatesKeeps, ApplyCandidateKeeps, PullFailsKeeps
  <1> QED BY <1>1, <1>2

(***************************************************************************)
(* Whoever writes, compacts and follows the shared root: the tables stay   *)
(* well-formed, the n-th publication of a device is the n-th manifest it   *)
(* shares, and a pull that is under way only holds manifests that were     *)
(* shared and never runs beside a publication of its device.               *)
(***************************************************************************)
THEOREM RootTypeCorrect == RootSpec => []RootTypeOK
  <1>1. RootInv => RootTypeOK
    BY RootInvImpliesTypeOK
  <1> QED BY <1>1, RootInvInit, RootInvNext, PTL DEF RootSpec

-----------------------------------------------------------------------------
(* One device w writes, only it may compact, and only the others follow    *)
(* the shared root.  There is one domain: a compaction takes the domains   *)
(* of what it compacts only, and a scan of several domains may miss a      *)
(* change that the manifest's frontier covers.                             *)

OneSource(w) ==
    /\ Writers = {w}
    /\ Compactors \subseteq {w}
    /\ w \notin Pullers
    /\ \A j, k \in Key : DomainOf[j] = DomainOf[k]

HoldsHistory(m, R, w) == /\ DOMAIN m.frontiers = {w}
                         /\ m.frontiers[w] \in 1..Len(R)
                         /\ IsManifestOf(m, R, m.frontiers[w])
                         /\ m.snapshot.covers <= m.frontiers[w]
                         /\ \A i \in DOMAIN m.tail : i <= m.frontiers[w]

(* The scan of w has left out nothing before what it has read. *)
ReadInOrder(w) ==
    \A i \in scan[w].read : \A j \in LatestCovers(w) + 1 .. i : j \in scan[w].read

SourceManifests(w) ==
    /\ \A i \in 1..Len(shared[w]) : HoldsHistory(shared[w][i], Revisions(w), w)
    /\ DOMAIN todo[w] = {}
    /\ \A d \in Device \ {w} : Len(shared[d]) = 0 /\ pending[d] = None /\ scan[d] = None
    /\ scan[w] # None => ReadInOrder(w)

Applied(d, m) == ManifestChanges(m) \subseteq log[d].changes

(* Every change of w that d knows came with a whole manifest, and so did   *)
(* the root it has stored.                                                 *)
FollowersInv(w) ==
    \A d \in Device \ {w} :
       /\ \A c \in log[d].changes : c.device = w =>
             \E m \in Manifests : c.seq <= m.frontiers[w] /\ Applied(d, m)
       /\ settingsRoot[d] # None =>
             \E m \in Manifests : m.id = settingsRoot[d] /\ Applied(d, m)

SourceInv(w) == RootInv /\ OneWriterInv(w) /\ SourceManifests(w) /\ FollowersInv(w)

LEMMA SourceManifestIs ==
    ASSUME NEW w \in Device, SourceInv(w), NEW m \in Manifests
    PROVE  /\ IsManifest(m) /\ HoldsHistory(m, Revisions(w), w)
           /\ \E i \in 1..Len(shared[w]) : m = shared[w][i] /\ m.id = <<w, i>>
  <1>1. PICK d \in Device : \E i \in 1..Len(shared[d]) : m = shared[d][i] /\ IsShared(m, d, i)
    BY ManifestIs DEF SourceInv
  <1>2. PICK i \in 1..Len(shared[d]) : m = shared[d][i] /\ IsShared(m, d, i)
    BY <1>1
  <1>3. d = w
    BY <1>2 DEF SourceInv, SourceManifests
  <1> QED BY <1>2, <1>3 DEF SourceInv, SourceManifests, IsShared

LEMMA SourceInit ==
    ASSUME NEW w \in Device
    PROVE  RootInit => SourceInv(w)
  <1> SUFFICES ASSUME RootInit PROVE SourceInv(w)
    OBVIOUS
  <1>1. RootInv /\ OneWriterInv(w)
    BY RootInvInit, OneWriterInit DEF RootInit
  <1>2. \A d \in Device : /\ shared[d] = << >> /\ todo[d] = << >> /\ pending[d] = None
                          /\ scan[d] = None /\ settingsRoot[d] = None
                          /\ log[d] = [changes |-> {}, revisions |-> << >>]
    BY DEF RootInit, Init
  <1>3. \A d \in Device : log[d].changes = {}
    BY <1>2
  <1>4. Len(<< >>) = 0 /\ DOMAIN << >> = {} /\ 1..0 = {}
    OBVIOUS
  <1>5. SourceManifests(w)
    <2>1. Len(shared[w]) = 0 /\ DOMAIN todo[w] = {}
      BY <1>2, <1>4
    <2>2. \A d \in Device : Len(shared[d]) = 0 /\ pending[d] = None /\ scan[d] = None
      BY <1>2, <1>4
    <2> QED BY <1>4, <2>1, <2>2 DEF SourceManifests
  <1>6. FollowersInv(w)
    BY <1>2, <1>3 DEF FollowersInv
  <1> QED BY <1>1, <1>5, <1>6 DEF SourceInv

(* Nothing that the followers keep changes, and the history only grows. *)
LEMMA FollowersKept ==
    ASSUME NEW w \in Device, FollowersInv(w), Manifests \subseteq Manifests',
           \A d \in Device \ {w} : log'[d] = log[d] /\ settingsRoot'[d] = settingsRoot[d]
    PROVE  FollowersInv(w)'
  <1> SUFFICES ASSUME NEW d \in Device \ {w}
               PROVE  /\ \A c \in log'[d].changes : c.device = w =>
                            \E m \in Manifests' : c.seq <= m.frontiers[w] /\ Applied(d, m)'
                      /\ settingsRoot'[d] # None =>
                            \E m \in Manifests' : m.id = settingsRoot'[d] /\ Applied(d, m)'
    BY DEF FollowersInv
  <1>1. ASSUME NEW m PROVE Applied(d, m)' <=> Applied(d, m)
    BY DEF Applied, ManifestChanges, SnapshotChanges
  <1>2. /\ \A c \in log[d].changes : c.device = w =>
              \E m \in Manifests : c.seq <= m.frontiers[w] /\ Applied(d, m)
        /\ settingsRoot[d] # None =>
              \E m \in Manifests : m.id = settingsRoot[d] /\ Applied(d, m)
    BY DEF FollowersInv
  <1> QED BY <1>1, <1>2

LEMMA SourceWrites ==
    ASSUME NEW w \in Device, SourceInv(w), NEW k \in Key, SetSyncSettingText(w, k),
           UNCHANGED <<shared, todo>>, RootInv'
    PROVE  SourceInv(w)'
  <1> USE DEF SourceInv
  <1>1. OneWriterInv(w)'
    BY OneWriterWrites
  <1>2. PICK R, T : R = log[w].revisions /\ T = log'[w].revisions
    OBVIOUS
  <1>3. PICK c, b : log' = [log EXCEPT ![w] = [changes |-> b, revisions |-> Append(R, c)]]
    BY <1>2 DEF SetSyncSettingText
  <1>4. R \in Seq(Change) /\ DOMAIN log = Device
    BY <1>2 DEF RootInv, CycleInv, LogInv, IsTable
  <1>5. T = Append(R, c) /\ \A d \in Device \ {w} : log'[d] = log[d]
    BY <1>2, <1>3, <1>4
  <1>6. Len(R) \in Nat /\ Len(T) \in Nat /\ Extends(R, T)
    <2>1. PICK X : X = Change \cup {c}
      OBVIOUS
    <2>2. R \in Seq(X) /\ c \in X
      BY <1>4, <2>1
    <2>3. /\ Len(R) \in Nat /\ Len(T) = Len(R) + 1
          /\ \A i \in 1..Len(R) : T[i] = R[i]
      BY <1>5, <2>2
    <2> QED BY <2>3 DEF Extends
  <1>7. Revisions(w) = R /\ Revisions(w)' = T
    BY <1>2 DEF Revisions
  <1>8. UNCHANGED <<settingsRoot, snaps, scan, pending>>
    BY DEF SetSyncSettingText
  <1>9. SourceManifests(w)'
    <2>1. \A m, n : IsManifestOf(m, R, n) => IsManifestOf(m, T, n)
      BY <1>6, ExtendedHistory
    <2>2. \A n : n \in 1..Len(R) => n \in 1..Len(T)
      BY <1>6 DEF Extends
    <2>3. \A i \in 1..Len(shared[w]) : HoldsHistory(shared[w][i], T, w)
      BY <1>7, <2>1, <2>2 DEF SourceManifests, HoldsHistory
    <2>4. ReadInOrder(w)' = ReadInOrder(w)
      BY <1>8 DEF ReadInOrder, LatestCovers
    <2> QED BY <1>7, <1>8, <2>3, <2>4 DEF SourceManifests
  <1>10. Manifests' = Manifests
    BY DEF Manifests
  <1>11. FollowersInv(w)'
    BY <1>5, <1>8, <1>10, FollowersKept
  <1> QED BY <1>1, <1>9, <1>11

(* Snapshot s and tail f hold the first n of the revisions R of w, and the *)
(* last of these is the last one the frontiers are taken from.             *)
HoldsAll(w, s, g, f, R, n) ==
    /\ R = Revisions(w) /\ Len(R) \in Nat /\ n \in 1..Len(R)
    /\ IsSnapshotOf(s, R) /\ s.covers <= n
    /\ \A i \in 1..s.covers : DomainOf[R[i].key] \in s.domains
    /\ DOMAIN f = s.covers + 1 .. n
    /\ \A i \in DOMAIN f : f[i] = R[i]
    /\ \A c \in Range(g) \cup Range(f) : \E i \in 1..n : c = R[i]
    /\ R[n] \in Range(g) \cup Range(f)

(* w shares a manifest that holds its history up to its frontier. *)
LEMMA SourceShares ==
    ASSUME NEW w \in Device, SourceInv(w), RootInv', OneWriterInv(w)',
           NEW newSnaps, NEW newHeads, Upload(w, newSnaps, newHeads),
           NEW s, NEW g, NEW f, Share(w, s, g, f), NEW R, NEW n, HoldsAll(w, s, g, f, R, n)
    PROVE  SourceInv(w)'
  <1> USE DEF SourceInv
  <1>0. /\ R = Revisions(w) /\ Len(R) \in Nat /\ n \in 1..Len(R)
        /\ IsSnapshotOf(s, R) /\ s.covers <= n
        /\ \A i \in 1..s.covers : DomainOf[R[i].key] \in s.domains
        /\ DOMAIN f = s.covers + 1 .. n
        /\ \A i \in DOMAIN f : f[i] = R[i]
        /\ \A c \in Range(g) \cup Range(f) : \E i \in 1..n : c = R[i]
        /\ R[n] \in Range(g) \cup Range(f)
    BY DEF HoldsAll
  <1>1. PICK C, F : C = Range(g) \cup Range(f) /\ F = Frontiers(C)
    OBVIOUS
  <1>2. DOMAIN F = {w} /\ F[w] = n
    <2>1. PICK t : t = log[w]
      OBVIOUS
    <2>2. \A i \in 1..Len(R) : R[i].device = w /\ R[i].seq = i /\ R[i] \in t.changes
      BY <1>0, <2>1, RevisionIs DEF RootInv, OneWriterInv, WriterInv, IsHistory
    <2>3. \A c \in C : c.device = w /\ c.seq \in 1..n /\ c \in t.changes
      <3>1. \A i \in 1..n : i \in 1..Len(R)
        BY <1>0
      <3>2. \A i \in 1..n : R[i].device = w /\ R[i].seq \in 1..n /\ R[i] \in t.changes
        BY <2>2, <3>1
      <3> QED BY <1>0, <1>1, <3>2
    <2>4. IsTable(t) /\ C \in SUBSET t.changes
      BY <2>1, <2>3 DEF RootInv, CycleInv, LogInv
    <2>5. /\ DOMAIN F = {c.device : c \in C}
          /\ \A e \in DOMAIN F : \E c \in C : c.device = e /\ c.seq = F[e]
          /\ \A c \in C : c.seq <= F[c.device]
      <3>1. /\ DOMAIN Frontiers(C) = {c.device : c \in C}
            /\ \A e \in DOMAIN Frontiers(C) :
                  /\ Frontiers(C)[e] \in Nat \ {0}
                  /\ \E c \in C : c.device = e /\ c.seq = Frontiers(C)[e]
            /\ \A c \in C : c.seq <= Frontiers(C)[c.device]
        BY <2>4, FrontiersAre
      <3> QED BY <1>1, <3>1
    <2>6. R[n] \in C /\ R[n].seq = n /\ R[n].device = w
      BY <1>0, <1>1, <2>2
    <2>7. DOMAIN F = {w}
      BY <2>3, <2>5, <2>6
    <2>8. F[w] \in 1..n
      BY <2>3, <2>5, <2>7
    <2>9. n <= F[w]
      BY <2>5, <2>6
    <2> QED BY <1>0, <2>7, <2>8, <2>9
  <1>3. PICK i, m : /\ i = <<w, publications[w] + 1>>
                    /\ m = [id |-> i, snapshot |-> s, tail |-> f, frontiers |-> F]
    OBVIOUS
  <1>4. m.snapshot = s /\ m.tail = f /\ m.frontiers = F
    BY <1>3
  <1>5. HoldsHistory(m, R, w)
    <2>1. s.covers \in 0..Len(R) /\ n \in 0..Len(R)
      BY <1>0 DEF IsSnapshotOf
    <2>2. \A j \in DOMAIN f : j \in s.covers + 1 .. Len(R) /\ j <= n
      BY <1>0, <2>1
    <2>3. IsManifestOf(m, R, n)
      BY <1>0, <1>4, <2>1, <2>2 DEF IsManifestOf
    <2> QED BY <1>0, <1>2, <1>4, <2>2, <2>3 DEF HoldsHistory
  <1>6. shared' = [shared EXCEPT ![w] = Append(shared[w], m)] /\ todo' = todo
    BY <1>1, <1>3 DEF Share
  <1>7. PICK Q, T : Q = shared[w] /\ T = Append(Q, m)
    OBVIOUS
  <1>8. /\ Len(Q) \in Nat /\ Len(T) = Len(Q) + 1 /\ T[Len(Q) + 1] = m
        /\ \A j \in 1..Len(Q) : T[j] = Q[j]
        /\ DOMAIN T = 1..Len(Q) + 1 /\ DOMAIN Q = 1..Len(Q)
    <2>1. Q \in Seq(Range(Q) \cup {m})
      BY <1>7 DEF RootInv, SharedInv
    <2>2. PICK X : X = Range(Q) \cup {m}
      OBVIOUS
    <2>3. Q \in Seq(X) /\ m \in X
      BY <2>1, <2>2
    <2> QED BY <1>7, <2>3
  <1>9. \A d \in Device : shared'[d] = IF d = w THEN T ELSE shared[d]
    BY <1>6, <1>7 DEF RootInv, SharedInv
  <1>10. UNCHANGED <<log, settingsRoot>> /\ Revisions(w)' = R
    BY <1>0 DEF Upload, Revisions
  <1>11. /\ \A d \in Device \ {w} : pending'[d] = pending[d] /\ scan'[d] = scan[d]
         /\ scan'[w] = None
    BY DEF Upload, RootInv, CycleInv, PendingInv, ScanInv
  <1>12. SourceManifests(w)'
    <2>1. \A j \in 1..Len(T) : j \in 1..Len(Q) \/ j = Len(Q) + 1
      BY <1>8
    <2>2. \A j \in 1..Len(T) : HoldsHistory(T[j], R, w)
      BY <1>0, <1>5, <1>7, <1>8, <2>1 DEF SourceManifests
    <2>3. shared'[w] = T /\ \A d \in Device \ {w} : shared'[d] = shared[d]
      BY <1>9
    <2> QED BY <1>6, <1>10, <1>11, <2>2, <2>3 DEF SourceManifests
  <1>13. Manifests \subseteq Manifests'
    <2>1. Range(Q) \subseteq Range(T)
      BY <1>8 DEF Range
    <2>2. \A d \in Device : Range(shared[d]) \subseteq Range(shared'[d])
      BY <1>7, <1>9, <2>1
    <2> QED BY <2>2 DEF Manifests
  <1>14. FollowersInv(w)'
    BY <1>10, <1>13, FollowersKept
  <1> QED BY <1>12, <1>14

(* What a scan of w has read are the changes that follow its snapshot. *)
LEMMA SourceReads ==
    ASSUME NEW w \in Device, SourceInv(w), NEW d \in Device, ScanEnded(d),
           DOMAIN Own(d, EventsRead(d)) # {}
    PROVE  /\ d = w
           /\ \E n \in 1..Len(Revisions(w)) : /\ scan[w].read = LatestCovers(w) + 1 .. n
                                             /\ LatestCovers(w) + 1 <= n
  <1> USE DEF SourceInv
  <1>1. PICK R, P, m : R = Revisions(w) /\ P = scan[w].read /\ m = LatestCovers(w)
    OBVIOUS
  <1>2. d = w /\ P \subseteq m + 1 .. Len(R) /\ P # {}
    <2>1. d = w /\ P \subseteq m + 1 .. Len(R)
      BY <1>1, OneWriterReads
    <2>2. P # {}
      BY <1>1, <2>1, OneWriterReads
    <2> QED BY <2>1, <2>2
  <1>3. Len(R) \in Nat /\ m \in Nat
    BY <1>1, RevisionIs, LatestCoversIs DEF RootInv
  <1>4. PICK n : n = Max(P)
    OBVIOUS
  <1>5. n \in P /\ \A i \in P : i <= n
    <2>1. P \in SUBSET Nat /\ \A i \in P : i <= Len(R)
      BY <1>2, <1>3
    <2> QED BY <1>2, <1>3, <1>4, <2>1, GreatestNumber
  <1>6. \A j \in m + 1 .. n : j \in P
    BY <1>1, <1>2, <1>5 DEF SourceManifests, ReadInOrder, ScanEnded
  <1>7. n \in m + 1 .. Len(R)
    BY <1>2, <1>5
  <1>8. P = m + 1 .. n
    <2>1. \A i \in P : i \in m + 1 .. n
      BY <1>2, <1>3, <1>5, <1>7
    <2> QED BY <1>6, <2>1
  <1>9. n \in 1..Len(R) /\ m + 1 <= n
    BY <1>3, <1>7
  <1> QED BY <1>1, <1>2, <1>8, <1>9

LEMMA SourceSharesSnapshot ==
    ASSUME NEW w \in Device, SourceInv(w), RootInv', NEW d \in Device, ShareFullSnapshot(d)
    PROVE  SourceInv(w)'
  <1> USE DEF SourceInv, RootInv
  <1>1. PublishFullSnapshotHead(d) /\ ScanEnded(d) /\ snaps[d] = {}
        /\ DOMAIN Own(d, EventsRead(d)) # {}
    BY DEF ShareFullSnapshot, PublishFullSnapshotHead
  <1>2. OneWriterInv(w)'
    BY <1>1, OneWriterPublishesSnapshot
  <1>3. d = w
    BY <1>1, SourceReads
  <1>4. PICK R, P, g, D : /\ R = Revisions(w) /\ P = scan[w].read /\ g = EventsRead(w)
                          /\ D = Domains(g)
    OBVIOUS
  <1>5. Len(R) \in Nat /\ LatestCovers(w) = 0
    BY <1>1, <1>3, <1>4, RevisionIs, LatestCoversIs
  <1>6. PICK n \in 1..Len(R) : P = 1..n
    <2>1. PICK n \in 1..Len(R) : P = LatestCovers(w) + 1 .. n
      BY <1>1, <1>3, <1>4, SourceReads
    <2> QED BY <1>5, <2>1
  <1>7. PICK m : FullSnapshot(w) = SnapshotPayload(w, m, D) /\ m \in P /\ \A i \in P : i <= m
    BY <1>1, <1>3, <1>4, FullSnapshotIs
  <1>8. m = n
    BY <1>5, <1>6, <1>7
  <1>9. PICK s, h : s = FullSnapshot(w) /\ Upload(w, {s}, {h})
    BY <1>1, <1>3, FullSnapshotHeadIs
  <1>10. PICK f : f = << >>
    OBVIOUS
  <1>11. Share(w, s, g, f)
    BY <1>3, <1>4, <1>9, <1>10 DEF ShareFullSnapshot
  <1>12. IsSnapshotOf(s, R) /\ s.covers = n /\ s.domains = D
    <2>1. n \in 0..Len(Revisions(w))
      BY <1>4, <1>5, <1>6
    <2> QED BY <1>4, <1>7, <1>8, <1>9, <2>1, SnapshotPayloadOf
  <1>13. DOMAIN g = P /\ \A i \in P : g[i] = R[i]
    BY <1>1, <1>3, <1>4, EventsReadAre DEF ScanEnded
  <1>14. \A i \in 1..s.covers : DomainOf[R[i].key] \in s.domains
    BY <1>4, <1>6, <1>12, <1>13 DEF Domains, Range
  <1>15. DOMAIN f = s.covers + 1 .. n /\ (\A i \in DOMAIN f : f[i] = R[i]) /\ Range(f) = {}
    <2>1. DOMAIN f = {} /\ n + 1 .. n = {}
      BY <1>5, <1>6, <1>10
    <2> QED BY <1>12, <2>1 DEF Range
  <1>16. Range(g) = {R[i] : i \in 1..n}
    BY <1>6, <1>13 DEF Range
  <1>17. /\ \A c \in Range(g) \cup Range(f) : \E i \in 1..n : c = R[i]
         /\ R[n] \in Range(g) \cup Range(f)
    <2>1. n \in 1..n
      BY <1>5, <1>6
    <2> QED BY <1>15, <1>16, <2>1
  <1>18. s.covers <= n
    BY <1>5, <1>6, <1>12
  <1>19. HoldsAll(w, s, g, f, R, n)
    BY <1>4, <1>5, <1>6, <1>12, <1>14, <1>15, <1>17, <1>18 DEF HoldsAll
  <1> QED BY <1>2, <1>9, <1>11, <1>19, SourceShares

LEMMA SourceSharesTail ==
    ASSUME NEW w \in Device, SourceInv(w), RootInv', NEW d \in Device, ShareTail(d)
    PROVE  SourceInv(w)'
  <1> USE DEF SourceInv, RootInv
  <1>1. PublishTailHead(d) /\ ScanEnded(d) /\ snaps[d] # {}
        /\ DOMAIN Own(d, EventsRead(d)) # {}
    BY DEF ShareTail, PublishTailHead
  <1>2. OneWriterInv(w)'
    BY <1>1, OneWriterPublishesTail
  <1>3. d = w
    BY <1>1, SourceReads
  <1>4. PICK h : Upload(w, {}, {h})
    BY <1>1, <1>3, TailHeadIs
  <1>5. PICK R, P, s, f, g : /\ R = Revisions(w) /\ P = scan[w].read
                             /\ s = LatestSyncSnapshot(w) /\ f = Own(w, EventsRead(w))
                             /\ g = CoveredEvents(w)
    OBVIOUS
  <1>6. Len(R) \in Nat
    BY <1>5, RevisionIs
  <1>7. Share(w, s, g, f)
    BY <1>3, <1>5 DEF ShareTail
  <1>8. IsSnapshotOf(s, R) /\ s.covers = LatestCovers(w)
    BY <1>1, <1>3, <1>5, CoversIsRevision
  <1>9. s.covers \in 0..Len(R)
    BY <1>8 DEF IsSnapshotOf
  <1>10. PICK n \in 1..Len(R) : P = s.covers + 1 .. n /\ s.covers + 1 <= n
    BY <1>1, <1>3, <1>5, <1>8, SourceReads
  <1>11. DOMAIN f = P /\ \A i \in P : f[i] = R[i]
    BY <1>1, <1>3, <1>5, OneWriterReads
  <1>12. \A i \in 1..s.covers : DomainOf[R[i].key] \in s.domains
    BY <1>1, <1>3, <1>5, <1>8 DEF OneWriterInv, WriterInv, SnapshotValid, ScanEnded
  <1>13. R[n] \in Range(f) /\ \A c \in Range(f) : \E i \in 1..n : c = R[i]
    <2>1. n \in P /\ \A i \in P : i \in 1..n
      BY <1>6, <1>9, <1>10
    <2> QED BY <1>11, <2>1 DEF Range
  <1>14. \A c \in Range(g) : \E i \in 1..n : c = R[i]
    <2>1. PICK I : I = {i \in 1..Len(R) : i <= s.covers}
      OBVIOUS
    <2>2. g = [i \in I |-> R[i]]
      BY <1>5, <1>8, <2>1 DEF CoveredEvents, Restrict
    <2>3. \A i \in I : i \in 1..n
      BY <1>6, <1>9, <1>10, <2>1
    <2> QED BY <2>2, <2>3 DEF Range
  <1>15. s.covers <= n
    BY <1>6, <1>9, <1>10
  <1>16. HoldsAll(w, s, g, f, R, n)
    BY <1>5, <1>6, <1>8, <1>10, <1>11, <1>12, <1>13, <1>14, <1>15 DEF HoldsAll
  <1> QED BY <1>2, <1>4, <1>7, <1>16, SourceShares

LEMMA SourceSharesCompaction ==
    ASSUME NEW w \in Device, SourceInv(w), RootInv', OneSource(w), w \in Compactors,
           NEW n \in 1..Len(Revisions(w)), ShareCompaction(w, n)
    PROVE  SourceInv(w)'
  <1> USE DEF SourceInv, RootInv
  <1>1. CompactAndPublishSettings(w, n)
    BY DEF ShareCompaction
  <1>2. OneWriterInv(w)'
    BY <1>1, OneWriterCompacts
  <1>3. PICK R, top, l, I, J, g, f, D :
           /\ R = Revisions(w) /\ top = Len(R) /\ l = LatestCovers(w)
           /\ I = l + 1 .. l + n /\ J = l + n + 1 .. top
           /\ g = Restrict(R, I) /\ f = Restrict(R, J) /\ D = Domains(g)
    OBVIOUS
  <1>4. top \in Nat /\ l \in Nat /\ n \in Nat \ {0}
    BY <1>3, LatestCoversIs, RevisionIs
  <1>5. PICK s : /\ s = SnapshotPayload(w, l + n, D)
                 /\ l + n \in 0..top
                 /\ Upload(w, {s}, {})
    BY <1>1, <1>3, CompactionIs
  <1>6. Share(w, s, g, f)
    BY <1>3, <1>5 DEF ShareCompaction
  <1>7. IsSnapshotOf(s, R) /\ s.covers = l + n /\ s.domains = D
    BY <1>3, <1>5, SnapshotPayloadOf
  <1>8. I \in SUBSET (1..top) /\ J \in SUBSET (1..top)
    BY <1>3, <1>4, <1>5
  <1>9. \A i \in 1..top : R[i].key \in Key
    BY <1>3, RevisionIs DEF IsChange, Change
  <1>10. \A i \in 1..s.covers : DomainOf[R[i].key] \in s.domains
    <2>1. l + 1 \in I /\ l + 1 \in 1..top
      BY <1>3, <1>4, <1>5
    <2>2. g[l + 1] = R[l + 1] /\ l + 1 \in DOMAIN g
      BY <1>3, <2>1 DEF Restrict
    <2>3. DomainOf[R[l + 1].key] \in D
      BY <1>3, <2>2 DEF Domains, Range
    <2>4. \A j, k \in Key : DomainOf[j] = DomainOf[k]
      BY DEF OneSource
    <2>5. \A i \in 1..s.covers : i \in 1..top
      BY <1>4, <1>5, <1>7
    <2>6. \A i \in 1..top : DomainOf[R[i].key] = DomainOf[R[l + 1].key]
      BY <1>9, <2>1, <2>4
    <2> QED BY <1>7, <2>3, <2>5, <2>6
  <1>11. DOMAIN f = s.covers + 1 .. top /\ \A i \in DOMAIN f : f[i] = R[i]
    BY <1>3, <1>7 DEF Restrict
  <1>12. \A c \in Range(g) \cup Range(f) : \E i \in 1..top : c = R[i]
    <2>1. DOMAIN g = I /\ (\A i \in I : g[i] = R[i]) /\ DOMAIN f = J /\ (\A i \in J : f[i] = R[i])
      BY <1>3 DEF Restrict
    <2> QED BY <1>8, <2>1 DEF Range
  <1>13. top \in Nat \ {0} /\ R[top] \in Range(g) \cup Range(f)
    <2>1. top \in I \/ top \in J
      BY <1>3, <1>4, <1>5
    <2>2. DOMAIN g = I /\ (\A i \in I : g[i] = R[i]) /\ DOMAIN f = J /\ (\A i \in J : f[i] = R[i])
      BY <1>3 DEF Restrict
    <2>3. R[top] \in Range(g) \/ R[top] \in Range(f)
      BY <2>1, <2>2 DEF Range
    <2>4. top # 0
      BY <1>4, <1>5
    <2> QED BY <1>4, <2>3, <2>4
  <1>14. top \in 1..Len(R) /\ Len(R) \in Nat /\ s.covers <= top
    BY <1>3, <1>4, <1>5, <1>7, <1>13
  <1>15. HoldsAll(w, s, g, f, R, top)
    BY <1>3, <1>7, <1>10, <1>11, <1>12, <1>13, <1>14 DEF HoldsAll
  <1> QED BY <1>2, <1>5, <1>6, <1>15, SourceShares

(* A step that leaves the tables and the shared manifests alone. *)
LEMMA SourceKept ==
    ASSUME NEW w \in Device, SourceInv(w), RootInv', OneWriterInv(w)',
           UNCHANGED <<log, shared>>, DOMAIN todo'[w] = {},
           \A d \in Device \ {w} : pending'[d] = pending[d] /\ settingsRoot'[d] = settingsRoot[d],
           \A d \in Device \ {w} : scan'[d] = scan[d],
           scan'[w] # None => ReadInOrder(w)'
    PROVE  SourceInv(w)'
  <1> USE DEF SourceInv
  <1>1. Revisions(w)' = Revisions(w) /\ Manifests' = Manifests
    BY DEF Revisions, Manifests
  <1>2. SourceManifests(w)'
    BY <1>1 DEF SourceManifests
  <1>3. FollowersInv(w)'
    BY <1>1, FollowersKept
  <1> QED BY <1>2, <1>3

LEMMA SourceRecordsOrCrashes ==
    ASSUME NEW w \in Device, SourceInv(w), RootInv', NEW d \in Device,
           RecordPublication(d) \/ Crash(d), UNCHANGED <<shared, todo>>
    PROVE  SourceInv(w)'
  <1> USE DEF SourceInv
  <1>1. OneWriterInv(w)'
    BY OneWriterRecords, OneWriterCrashes
  <1>2. d = w
    <2>1. scan[d] # None \/ pending[d] # None
      BY DEF RecordPublication, Crash
    <2> QED BY <2>1 DEF SourceManifests
  <1>3. log' = log /\ DOMAIN todo'[w] = {}
    BY DEF RecordPublication, Crash, SourceManifests
  <1>4. /\ DOMAIN pending = Device
        /\ settingsRoot \in [Device -> (Device \X Nat) \cup {None}]
    BY DEF RootInv, CycleInv, PendingInv, RootsInv
  <1>5. \A e \in Device \ {w} : pending'[e] = pending[e] /\ settingsRoot'[e] = settingsRoot[e]
    BY <1>2, <1>4 DEF RecordPublication, Crash
  <1>6. (\A e \in Device \ {w} : scan'[e] = scan[e]) /\ scan'[w] = None
    BY <1>2 DEF RecordPublication, Crash, RootInv, CycleInv, ScanInv
  <1> QED BY <1>1, <1>3, <1>5, <1>6, SourceKept

LEMMA SourceScans ==
    ASSUME NEW w \in Device, OneSource(w), SourceInv(w), RootInv', NEW d \in Device, Scans(d)
    PROVE  SourceInv(w)'
  <1> USE DEF SourceInv
  <1>1. d = w
    BY DEF Scans, ReadDomain, NothingToPublish, ScanEnded, SourceManifests, OneSource
  <1>2. OneWriterInv(w)'
    BY <1>1, OneWriterBegins, OneWriterGoesOn DEF Scans
  <1>3. UNCHANGED <<log, snaps, settingsRoot, pending, shared, todo>>
    BY DEF Scans, BeginScan, ReadDomain, NothingToPublish
  <1>4. \A e \in Device \ {w} : scan'[e] = scan[e]
    BY <1>1 DEF Scans, BeginScan, ReadDomain, NothingToPublish, RootInv, CycleInv, ScanInv
  <1>5. LatestCovers(w)' = LatestCovers(w)
    BY <1>3 DEF LatestCovers
  <1>6. PICK m, R : m = LatestCovers(w) /\ R = Revisions(w)
    OBVIOUS
  <1>7. CASE BeginScan(w)
    <2>1. PICK x : /\ x = [left |-> Range(DomainOf), read |-> {}, before |-> Len(Revisions(w))]
                   /\ scan' = [scan EXCEPT ![w] = x]
      BY <1>7 DEF BeginScan
    <2>2. scan'[w] = x /\ x.read = {}
      BY <2>1 DEF RootInv, CycleInv, ScanInv
    <2>3. ReadInOrder(w)'
      BY <1>5, <2>2 DEF ReadInOrder
    <2> QED BY <1>2, <1>3, <1>4, <2>3, SourceKept DEF SourceManifests
  <1>8. CASE ReadDomain(w)
    <2>0. PICK old, domain, events, P :
             /\ old = scan[w] /\ domain = Min(scan[w].left) /\ P = old.read
             /\ events = {i \in m + 1 .. Len(R) : DomainOf[R[i].key] = domain}
      OBVIOUS
    <2>1. P = scan[w].read /\ scan'[w].read = P \cup events
      <3>1. PICK x : x = [left |-> old.left \ {domain}, read |-> old.read \cup events,
                          before |-> old.before]
        OBVIOUS
      <3>2. x.read = old.read \cup events
        BY <3>1
      <3>3. scan' = [scan EXCEPT ![w] = x]
        BY <1>6, <1>8, <2>0, <3>1 DEF ReadDomain
      <3>4. scan'[w] = x
        BY <3>3 DEF RootInv, CycleInv, ScanInv
      <3> QED BY <2>0, <3>2, <3>4
    <2>2. Len(R) \in Nat /\ m \in Nat /\ \A i \in 1..Len(R) : R[i].key \in Key
      BY <1>6, RevisionIs, LatestCoversIs DEF RootInv, IsChange, Change
    <2>3. events = {} \/ events = m + 1 .. Len(R)
      <3>1. \A i, j \in m + 1 .. Len(R) : i \in 1..Len(R) /\ j \in 1..Len(R)
        BY <2>2
      <3>2. \A i, j \in m + 1 .. Len(R) : DomainOf[R[i].key] = DomainOf[R[j].key]
        BY <2>2, <3>1 DEF OneSource
      <3> QED BY <2>0, <3>2
    <2>4. /\ \A i \in P : \A j \in m + 1 .. i : j \in P
          /\ P \subseteq m + 1 .. Len(R)
      BY <1>6, <1>8, <2>1
         DEF ReadDomain, SourceManifests, ReadInOrder, RootInv, CycleInv, ScanInv, IsScan
    <2>5. ASSUME NEW i \in P \cup events, NEW j \in m + 1 .. i PROVE j \in P \cup events
      <3>1. CASE i \in P
        BY <2>4, <3>1
      <3>2. CASE i \in events
        <4>1. i \in m + 1 .. Len(R) /\ events = m + 1 .. Len(R)
          BY <2>0, <2>3, <3>2
        <4>2. j \in m + 1 .. Len(R)
          BY <2>2, <4>1
        <4> QED BY <4>1, <4>2
      <3> QED BY <3>1, <3>2
    <2>6. ReadInOrder(w)'
      BY <1>5, <1>6, <2>1, <2>5 DEF ReadInOrder
    <2> QED BY <1>2, <1>3, <1>4, <2>6, SourceKept DEF SourceManifests
  <1>9. CASE NothingToPublish(w)
    <2>1. scan'[w] = None
      BY <1>9 DEF NothingToPublish, RootInv, CycleInv, ScanInv
    <2> QED BY <1>2, <1>3, <1>4, <2>1, SourceKept DEF SourceManifests
  <1> QED BY <1>1, <1>7, <1>8, <1>9 DEF Scans

LEMMA OneWriterUnchanged ==
    ASSUME NEW w \in Device, OneWriterInv(w), CycleInv',
           UNCHANGED <<log, snaps, headRoots, scan, pending, published>>
    PROVE  OneWriterInv(w)'
  <1>1. scan'[w] # None /\ snaps[w] # {} => SnapshotValid(w)
    BY DEF OneWriterInv, WriterInv
  <1> QED BY <1>1, OneWriterScans

LEMMA ReadInOrderKept ==
    ASSUME NEW w, snaps'[w] = snaps[w], scan'[w] = scan[w]
    PROVE  ReadInOrder(w)' = ReadInOrder(w)
  BY DEF ReadInOrder, LatestCovers

LEMMA SourceListed ==
    ASSUME NEW w \in Device, OneSource(w), SourceInv(w), RootInv', NEW d \in Pullers,
           NEW list \in Listings, PullCandidates(d, list)
    PROVE  SourceInv(w)'
  <1> USE DEF SourceInv
  <1>1. UNCHANGED <<log, snaps, settingsRoot, headRoots, scan, pending, published, shared>>
    BY DEF PullCandidates, vars
  <1>2. OneWriterInv(w)'
    BY <1>1, OneWriterUnchanged DEF RootInv
  <1>3. d # w
    BY DEF OneSource
  <1>4. DOMAIN todo'[w] = {}
    BY <1>3 DEF PullCandidates, RootInv, TodoInv, SourceManifests
  <1>5. scan'[w] # None => ReadInOrder(w)'
    BY <1>1, ReadInOrderKept DEF SourceManifests
  <1> QED BY <1>1, <1>2, <1>4, <1>5, SourceKept

LEMMA SourcePullFails ==
    ASSUME NEW w \in Device, SourceInv(w), RootInv', NEW d \in Device, PullFails(d)
    PROVE  SourceInv(w)'
  <1> USE DEF SourceInv
  <1>1. UNCHANGED <<log, snaps, settingsRoot, headRoots, scan, pending, published, shared>>
    BY DEF PullFails
  <1>2. OneWriterInv(w)'
    BY <1>1, OneWriterUnchanged DEF RootInv
  <1>3. d # w
    BY DEF PullFails, SourceManifests
  <1>4. DOMAIN todo'[w] = {}
    BY <1>3 DEF PullFails, RootInv, TodoInv, SourceManifests
  <1>5. scan'[w] # None => ReadInOrder(w)'
    BY <1>1, ReadInOrderKept DEF SourceManifests
  <1> QED BY <1>1, <1>2, <1>4, <1>5, SourceKept

LEMMA SourceApplied ==
    ASSUME NEW w \in Device, SourceInv(w), RootInv', NEW d \in Device, ApplyCandidate(d)
    PROVE  SourceInv(w)'
  <1> USE DEF SourceInv
  <1>1. DOMAIN todo[d] # {} /\ d # w
    BY DEF ApplyCandidate, SourceManifests
  <1>2. UNCHANGED <<headRoots, scan, pending, published, publications, crashes, shared>>
    BY DEF ApplyCandidate
  <1>3. PICK m : m = NextCandidate(d) /\ m \in Manifests
    BY <1>1, NextCandidateIs
  <1>4. PICK R, n : R = Revisions(w) /\ n = m.frontiers[w]
    OBVIOUS
  <1>5. IsManifest(m) /\ IsManifestOf(m, R, n)
    BY <1>3, <1>4, SourceManifestIs DEF HoldsHistory
  <1>6. IsHistory(R, w) /\ Len(R) \in Nat
    BY <1>4, TableIs DEF OneWriterInv, WriterInv
  <1>7. PICK t, u : t = log[d] /\ u = ApplyManifest(t, m)
    OBVIOUS
  <1>8. IsTable(t) /\ Ordered(t) /\ AreCopies(t.changes, R, w)
    BY <1>4, <1>7, TableIs
  <1>9. Ordered(u) /\ AreCopies(u.changes, R, w) /\ ManifestChanges(m) \subseteq u.changes
    BY <1>5, <1>6, <1>7, <1>8, ApplyManifestOrdered
  <1>10. t.changes \subseteq u.changes /\ u.changes \subseteq t.changes \cup ManifestChanges(m)
    BY <1>5, <1>7, <1>8, ApplyManifestIsTable
  <1>11. log' = [log EXCEPT ![d] = u] /\ settingsRoot' = [settingsRoot EXCEPT ![d] = m.id]
         /\ snaps' = [snaps EXCEPT ![d] = RecordSyncSnapshots(snaps[d], {m.snapshot})]
    BY <1>3, <1>7 DEF ApplyCandidate
  <1>12. /\ \A e \in Device : log'[e] = IF e = d THEN u ELSE log[e]
         /\ \A e \in Device : settingsRoot'[e] = IF e = d THEN m.id ELSE settingsRoot[e]
    BY <1>11 DEF RootInv, CycleInv, LogInv, RootsInv
  <1>13. Revisions(w)' = R /\ Manifests' = Manifests
    BY <1>1, <1>2, <1>4, <1>12 DEF Revisions, Manifests
  <1>14. OneWriterInv(w)'
    <2>1. snaps'[w] = snaps[w] /\ log'[w] = log[w]
      BY <1>1, <1>11, <1>12 DEF RootInv, CycleInv, SnapsInv
    <2>2. WriterInv(w)'
      <3>1. SnapshotValid(w)' = SnapshotValid(w)
        BY <1>4, <1>13, <2>1 DEF SnapshotValid, LatestCovers, LatestSyncSnapshot
      <3> QED BY <1>2, <1>4, <1>13, <2>1, <3>1 DEF OneWriterInv, WriterInv
    <2>3. \A x \in Device : Ordered(log'[x]) /\ \A c \in log'[x].changes : IsCopy(c, R, w)
      BY <1>4, <1>9, <1>12 DEF OneWriterInv, CopiesInv, AreCopies
    <2>4. CopiesInv(w)'
      BY <1>13, <2>3 DEF CopiesInv
    <2>5. \A x \in Device : log[x].changes \subseteq log'[x].changes
      BY <1>7, <1>10, <1>12
    <2>6. ReadersInv(w)'
      BY <1>2, <2>5 DEF OneWriterInv, ReadersInv
    <2> QED BY <2>2, <2>4, <2>6 DEF OneWriterInv, RootInv
  <1>15. SourceManifests(w)'
    <2>1. DOMAIN todo'[w] = {}
      BY <1>1 DEF ApplyCandidate, RootInv, TodoInv, SourceManifests
    <2>2. snaps'[w] = snaps[w]
      BY <1>1, <1>11 DEF RootInv, CycleInv, SnapsInv
    <2>3. ReadInOrder(w)' = ReadInOrder(w)
      BY <1>2, <2>2, ReadInOrderKept
    <2> QED BY <1>2, <1>4, <1>13, <2>1, <2>3 DEF SourceManifests
  <1>16. FollowersInv(w)'
    <2>1. ASSUME NEW e \in Device \ {w}, NEW y, Applied(e, y) PROVE Applied(e, y)'
      BY <1>7, <1>10, <1>12, <2>1 DEF Applied, ManifestChanges, SnapshotChanges
    <2>2. Applied(d, m)'
      <3>1. log'[d] = u
        BY <1>12
      <3> QED BY <1>9, <3>1 DEF Applied, ManifestChanges, SnapshotChanges
    <2>3. ASSUME NEW e \in Device \ {w}, NEW c \in log'[e].changes, c.device = w
          PROVE  \E y \in Manifests : c.seq <= y.frontiers[w] /\ Applied(e, y)'
      <3>1. CASE c \in log[e].changes
        BY <2>1, <2>3, <3>1 DEF FollowersInv
      <3>2. CASE c \notin log[e].changes
        <4>1. e = d /\ c \in ManifestChanges(m)
          BY <1>7, <1>10, <1>12, <2>3, <3>2
        <4>2. c \in Range(m.tail)
          <5>1. \A i \in DOMAIN SnapshotChanges(m.snapshot) :
                   SnapshotChanges(m.snapshot)[i].device = Snapshot
            BY DEF SnapshotChanges
          <5>2. c \notin Range(SnapshotChanges(m.snapshot))
            BY <2>3, <5>1, DeviceAssumption DEF Range
          <5> QED BY <4>1, <5>2 DEF ManifestChanges
        <4>3. PICK i \in DOMAIN m.tail : c = m.tail[i]
          BY <4>2 DEF Range
        <4>4. /\ c = R[i] /\ i \in m.snapshot.covers + 1 .. Len(R) /\ i <= n
              /\ m.snapshot.covers \in Nat
          <5>1. i <= n
            BY <1>3, <1>4, SourceManifestIs DEF HoldsHistory
          <5> QED BY <1>5, <4>3, <5>1 DEF IsManifestOf, IsManifest, IsSnapshotPayload
        <4>5. i \in 1..Len(R) /\ i <= n
          BY <1>6, <4>3, <4>4
        <4>6. c.seq = i
          BY <1>6, <4>4, <4>5 DEF IsHistory
        <4> QED BY <1>3, <1>4, <2>2, <4>1, <4>5, <4>6
      <3> QED BY <3>1, <3>2
    <2>4. ASSUME NEW e \in Device \ {w}, settingsRoot'[e] # None
          PROVE  \E y \in Manifests : y.id = settingsRoot'[e] /\ Applied(e, y)'
      <3>1. CASE e = d
        BY <1>3, <1>12, <2>2, <3>1
      <3>2. CASE e # d
        BY <1>12, <2>1, <2>4, <3>2 DEF FollowersInv
      <3> QED BY <3>1, <3>2
    <2> QED BY <1>13, <2>3, <2>4 DEF FollowersInv
  <1> QED BY <1>14, <1>15, <1>16

LEMMA SourceNext ==
    ASSUME NEW w \in Device, OneSource(w)
    PROVE  SourceInv(w) /\ [RootNext]_pullVars => SourceInv(w)'
  <1> SUFFICES ASSUME SourceInv(w), [RootNext]_pullVars PROVE SourceInv(w)'
    OBVIOUS
  <1>1. RootInv'
    BY RootInvNext DEF SourceInv
  <1>2. CASE UNCHANGED pullVars
    <2>1. UNCHANGED <<log, snaps, settingsRoot, headRoots, scan, pending, published, shared,
                      todo>>
      BY <1>2 DEF pullVars, vars
    <2>2. OneWriterInv(w)'
      BY <1>1, <2>1, OneWriterUnchanged DEF SourceInv, RootInv
    <2>3. DOMAIN todo'[w] = {}
      BY <2>1 DEF SourceInv, SourceManifests
    <2>4. scan'[w] # None => ReadInOrder(w)'
      BY <2>1, ReadInOrderKept DEF SourceInv, SourceManifests
    <2> QED BY <1>1, <2>1, <2>2, <2>3, <2>4, SourceKept
  <1>3. CASE RootNext
    <2>1. Writers = {w} /\ Compactors \subseteq {w}
      BY DEF OneSource
    <2>2. PICK d \in Device :
             \/ /\ d \in Writers /\ \E k \in Key : SetSyncSettingText(d, k)
                /\ UNCHANGED <<shared, todo>>
             \/ Scans(d)
             \/ ShareFullSnapshot(d)
             \/ ShareTail(d)
             \/ d \in Compactors /\ \E n \in 1..Len(Revisions(d)) : ShareCompaction(d, n)
             \/ (RecordPublication(d) \/ Crash(d)) /\ UNCHANGED <<shared, todo>>
             \/ d \in Pullers /\ \E list \in Listings : PullCandidates(d, list)
             \/ ApplyCandidate(d)
             \/ PullFails(d)
      BY <1>3 DEF RootNext
    <2>3. CASE d \in Writers /\ (\E k \in Key : SetSyncSettingText(d, k))
               /\ UNCHANGED <<shared, todo>>
      <3>1. d = w
        BY <2>1, <2>3
      <3>2. PICK k \in Key : SetSyncSettingText(w, k)
        BY <2>3, <3>1
      <3> QED BY <1>1, <2>3, <3>2, SourceWrites
    <2>4. CASE ShareFullSnapshot(d)
      BY <1>1, <2>4, SourceSharesSnapshot
    <2>5. CASE ShareTail(d)
      BY <1>1, <2>5, SourceSharesTail
    <2>6. CASE d \in Compactors /\ \E n \in 1..Len(Revisions(d)) : ShareCompaction(d, n)
      <3>1. d = w /\ w \in Compactors
        BY <2>1, <2>6
      <3>2. PICK n \in 1..Len(Revisions(w)) : ShareCompaction(w, n)
        BY <2>6, <3>1
      <3> QED BY <1>1, <3>1, <3>2, SourceSharesCompaction
    <2>7. CASE (RecordPublication(d) \/ Crash(d)) /\ UNCHANGED <<shared, todo>>
      BY <1>1, <2>7, SourceRecordsOrCrashes
    <2>8. CASE d \in Pullers /\ \E list \in Listings : PullCandidates(d, list)
      <3>1. PICK list \in Listings : PullCandidates(d, list)
        BY <2>8
      <3> QED BY <1>1, <2>8, <3>1, SourceListed
    <2>9. CASE ApplyCandidate(d)
      BY <1>1, <2>9, SourceApplied
    <2>10. CASE PullFails(d)
      BY <1>1, <2>10, SourcePullFails
    <2>11. CASE Scans(d)
      BY <1>1, <2>11, SourceScans
    <2> QED BY <2>2, <2>3, <2>4, <2>5, <2>6, <2>7, <2>8, <2>9, <2>10, <2>11
  <1> QED BY <1>2, <1>3

-----------------------------------------------------------------------------
(* What the invariant of one source says about the shared root. *)

(* m has each of the changes of w up to n, or a newer one of its key. *)
Carries(m, R, n, w) ==
    \A i \in 1..n : \E j \in i..Len(R) : \E y \in ManifestChanges(m) :
       y.key = R[i].key /\ y.value = <<w, j>>

LEMMA ManifestCarries ==
    ASSUME NEW w \in Device, NEW R, Len(R) \in Nat, IsHistory(R, w), NEW m, NEW n,
           IsManifestOf(m, R, n)
    PROVE  Carries(m, R, n, w)
  <1> SUFFICES ASSUME NEW i \in 1..n
               PROVE  \E j \in i..Len(R) : \E y \in ManifestChanges(m) :
                         y.key = R[i].key /\ y.value = <<w, j>>
    BY DEF Carries
  <1>1. PICK s : s = m.snapshot
    OBVIOUS
  <1>2. IsSnapshotOf(s, R) /\ s.covers \in Nat /\ n \in 0..Len(R)
    BY <1>1 DEF IsManifestOf, IsSnapshotOf
  <1>3. i \in 1..Len(R)
    BY <1>2
  <1>4. CASE i > s.covers
    <2>1. i \in DOMAIN m.tail /\ m.tail[i] = R[i]
      BY <1>1, <1>2, <1>4 DEF IsManifestOf
    <2>2. R[i] \in ManifestChanges(m)
      BY <2>1 DEF ManifestChanges, Range
    <2>3. R[i].value = <<w, i>> /\ i \in i..Len(R)
      BY <1>3 DEF IsHistory
    <2> QED BY <2>2, <2>3
  <1>5. CASE ~(i > s.covers)
    <2>1. i \in 1..s.covers
      BY <1>2, <1>3, <1>5
    <2>2. DomainOf[R[i].key] \in s.domains
      BY <1>1, <1>2, <2>1 DEF IsManifestOf
    <2>3. PICK j \in DOMAIN s.values : i <= j /\ R[j].key = R[i].key
      BY <1>2, <2>1, <2>2, CoveredIsCarried
    <2>4. j \in 1..Len(R) /\ s.values[j].key = R[j].key /\ s.values[j].value = R[j].value
      BY <1>2 DEF IsSnapshotOf
    <2>5. PICK a, b : a = s.values[j].key /\ b = s.values[j].value
      OBVIOUS
    <2>6. PICK x : x = SnapshotChanges(s)[j]
      OBVIOUS
    <2>7. x = [key |-> a, value |-> b, device |-> Snapshot, seq |-> j, clock |-> j]
      BY <2>5, <2>6 DEF SnapshotChanges
    <2>8. x.key = a /\ x.value = b
      BY <2>7
    <2>9. x \in ManifestChanges(m)
      <3>1. j \in DOMAIN SnapshotChanges(s)
        BY DEF SnapshotChanges
      <3> QED BY <1>1, <2>6, <3>1 DEF ManifestChanges, Range
    <2>10. R[j].value = <<w, j>> /\ j \in i..Len(R)
      BY <1>3, <2>3, <2>4 DEF IsHistory
    <2> QED BY <2>3, <2>4, <2>5, <2>8, <2>9, <2>10
  <1> QED BY <1>4, <1>5

LEMMA ManifestChangeIs ==
    ASSUME NEW w \in Device, SourceInv(w), NEW m \in Manifests, NEW x \in ManifestChanges(m)
    PROVE  /\ IsCopy(x, Revisions(w), w)
           /\ m.frontiers[w] \in 1..Len(Revisions(w))
           /\ x.seq \in 1..m.frontiers[w]
  <1>1. PICK R, n : R = Revisions(w) /\ n = m.frontiers[w]
    OBVIOUS
  <1>2. IsManifest(m) /\ IsManifestOf(m, R, n)
    BY <1>1, SourceManifestIs DEF HoldsHistory
  <1>3. IsHistory(R, w) /\ Len(R) \in Nat
    BY <1>1, TableIs DEF SourceInv, OneWriterInv, WriterInv
  <1>4. n \in 1..Len(R)
    BY <1>1, SourceManifestIs DEF HoldsHistory
  <1>5. PICK s, f : s = m.snapshot /\ f = SnapshotChanges(s)
    OBVIOUS
  <1>6. /\ \A i \in DOMAIN f : IsCopy(f[i], R, w)
        /\ \A i \in DOMAIN m.tail : IsCopy(m.tail[i], R, w)
    BY <1>2, <1>3, <1>5, ManifestCopies
  <1>7. s.covers \in 0..n
    <2>1. s.covers <= n
      BY <1>1, <1>5, SourceManifestIs DEF HoldsHistory
    <2>2. s.covers \in 0..Len(R)
      BY <1>2, <1>5 DEF IsManifestOf, IsSnapshotOf
    <2> QED BY <1>3, <1>4, <2>1, <2>2
  <1>8. CASE x \in Range(f)
    <2>1. PICK i \in DOMAIN f : x = f[i]
      BY <1>8 DEF Range
    <2>2. i \in DOMAIN s.values
      BY <1>5, <2>1 DEF SnapshotChanges
    <2>3. i \in 1..s.covers
      BY <1>2, <1>5, <2>2 DEF IsManifestOf, IsSnapshotOf
    <2>4. PICK a, b : a = s.values[i].key /\ b = s.values[i].value
      OBVIOUS
    <2>5. x = [key |-> a, value |-> b, device |-> Snapshot, seq |-> i, clock |-> i]
      BY <1>5, <2>1, <2>2, <2>4 DEF SnapshotChanges
    <2>6. x.seq = i
      BY <2>5
    <2>7. x.seq \in 1..n
      BY <1>4, <1>7, <2>3, <2>6
    <2> QED BY <1>1, <1>4, <1>6, <2>1, <2>7
  <1>9. CASE x \in Range(m.tail)
    <2>1. PICK i \in DOMAIN m.tail : x = m.tail[i]
      BY <1>9 DEF Range
    <2>2. x = R[i] /\ i \in s.covers + 1 .. Len(R) /\ i <= n
      <3>1. i <= n
        BY <1>1, SourceManifestIs DEF HoldsHistory
      <3> QED BY <1>2, <1>5, <2>1, <3>1 DEF IsManifestOf
    <2>3. i \in 1..n /\ i \in 1..Len(R)
      BY <1>3, <1>4, <1>7, <2>1, <2>2
    <2>4. x.seq = i
      BY <1>3, <2>2, <2>3 DEF IsHistory
    <2> QED BY <1>1, <1>4, <1>6, <2>1, <2>3, <2>4
  <1> QED BY <1>5, <1>8, <1>9 DEF ManifestChanges

(* A device that knows a change of the writer that is as new as a copy x,  *)
(* and of the same key, shows a value as new as that of x.                 *)
LEMMA NewerIsShown ==
    ASSUME NEW w \in Device, OneWriterInv(w), NEW d \in Device,
           NEW x, NEW y \in log[d].changes, y.key = x.key, NEW i \in Nat, NEW j \in Nat, i <= j,
           x.value = <<w, i>>, y.value = <<w, j>>
    PROVE  AtLeast(View(d, x.key), x.value)
  <1>1. PICK t, R, k : t = log[d] /\ R = Revisions(w) /\ k = x.key
    OBVIOUS
  <1>2. IsTable(t) /\ Ordered(t) /\ AreCopies(t.changes, R, w) /\ Len(R) \in Nat
    BY <1>1, TableIs
  <1>3. /\ \A c \in t.changes : AtLeast(ValueOf(t, c.key), c.value)
        /\ ValueOf(t, k) # None =>
              \E c \in t.changes : c.key = k /\ ValueOf(t, k) = c.value
    BY <1>2, ValueIsNewest
  <1>4. PICK v : v = ValueOf(t, k)
    OBVIOUS
  <1>5. AtLeast(v, <<w, j>>)
    BY <1>1, <1>3, <1>4
  <1>6. PICK c \in t.changes : v = c.value
    BY <1>3, <1>4, <1>5 DEF AtLeast
  <1>7. PICK n \in Nat : v = <<w, n>>
    BY <1>2, <1>6 DEF AreCopies, IsCopy
  <1>8. v # None /\ n >= j
    BY <1>5, <1>7 DEF AtLeast
  <1>9. AtLeast(v, <<w, i>>)
    <2>1. n >= i
      BY <1>8
    <2> QED BY <1>7, <1>8, <2>1 DEF AtLeast
  <1> QED BY <1>1, <1>4, <1>9 DEF View

(* The source shows what it has shared. *)
LEMMA SourceShows ==
    ASSUME NEW w \in Device, SourceInv(w), NEW m \in Manifests
    PROVE  Shows(w, m)
  <1> SUFFICES ASSUME NEW x \in ManifestChanges(m) PROVE AtLeast(View(w, x.key), x.value)
    BY DEF Shows
  <1>1. PICK R, i : R = Revisions(w) /\ i = x.seq
    OBVIOUS
  <1>2. i \in 1..Len(R) /\ x.key = R[i].key /\ x.value = <<w, i>>
    BY <1>1, ManifestChangeIs DEF IsCopy
  <1>3. Len(R) \in Nat /\ R[i] \in log[w].changes
    BY <1>1, <1>2, RevisionIs DEF SourceInv, RootInv
  <1>4. R[i].value = <<w, i>>
    BY <1>1, <1>2 DEF SourceInv, OneWriterInv, WriterInv, IsHistory
  <1>5. i \in Nat /\ i <= i
    BY <1>2, <1>3
  <1> QED BY <1>2, <1>3, <1>4, <1>5, NewerIsShown DEF SourceInv

(* Whoever has applied a manifest shows every manifest that is no newer. *)
LEMMA AppliedShows ==
    ASSUME NEW w \in Device, SourceInv(w), NEW d \in Device, NEW m \in Manifests,
           NEW a \in Manifests, Applied(d, a), m.frontiers[w] <= a.frontiers[w]
    PROVE  Shows(d, m)
  <1> SUFFICES ASSUME NEW x \in ManifestChanges(m) PROVE AtLeast(View(d, x.key), x.value)
    BY DEF Shows
  <1>1. PICK R, i, n : R = Revisions(w) /\ i = x.seq /\ n = a.frontiers[w]
    OBVIOUS
  <1>2. /\ i \in 1..Len(R) /\ x.key = R[i].key /\ x.value = <<w, i>>
        /\ i \in 1..m.frontiers[w] /\ m.frontiers[w] \in 1..Len(R)
    BY <1>1, ManifestChangeIs DEF IsCopy
  <1>3. IsManifestOf(a, R, n)
    BY <1>1, SourceManifestIs DEF HoldsHistory
  <1>4. Len(R) \in Nat /\ IsHistory(R, w)
    BY <1>1, TableIs DEF SourceInv, OneWriterInv, WriterInv
  <1>5. i \in 1..n
    <2>1. n \in 1..Len(R)
      BY <1>1, SourceManifestIs DEF HoldsHistory
    <2> QED BY <1>1, <1>2, <1>4, <2>1
  <1>6. PICK j \in i..Len(R) : \E y \in ManifestChanges(a) :
           y.key = R[i].key /\ y.value = <<w, j>>
    <2>1. Carries(a, R, n, w)
      BY <1>3, <1>4, ManifestCarries
    <2> QED BY <1>5, <2>1 DEF Carries
  <1>7. PICK y \in ManifestChanges(a) : y.key = x.key /\ y.value = <<w, j>>
    BY <1>2, <1>6
  <1>8. y \in log[d].changes
    BY DEF Applied
  <1>9. i \in Nat /\ j \in Nat /\ i <= j
    BY <1>2, <1>4
  <1> QED BY <1>2, <1>7, <1>8, <1>9, NewerIsShown DEF SourceInv

LEMMA CoveredShows ==
    ASSUME NEW w \in Device, SourceInv(w)
    PROVE  CoveredIsShown
  <1> SUFFICES ASSUME NEW d \in Device, NEW m \in Manifests, LocallyCovered(d, m)
               PROVE  Shows(d, m)
    BY DEF CoveredIsShown
  <1>1. CASE d = w
    BY <1>1, SourceShows
  <1>2. CASE d # w
    <2>1. PICK R, n, t, l : /\ R = Revisions(w) /\ n = m.frontiers[w]
                            /\ t = log[d] /\ l = LatestSequence(t, w)
      OBVIOUS
    <2>2. DOMAIN m.frontiers = {w} /\ n \in 1..Len(R) /\ Len(R) \in Nat
      BY <2>1, SourceManifestIs, TableIs DEF HoldsHistory, IsManifestOf, SourceInv
    <2>3. l >= n
      BY <2>1, <2>2 DEF LocallyCovered
    <2>4. l \in Nat /\ (l = 0 \/ \E c \in t.changes : c.device = w /\ c.seq = l)
      <3>1. IsTable(t)
        BY <2>1, TableIs DEF SourceInv
      <3> QED BY <2>1, <3>1, LatestSequenceIs
    <2>5. PICK c \in t.changes : c.device = w /\ c.seq = l
      BY <2>2, <2>3, <2>4
    <2>6. PICK a \in Manifests : c.seq <= a.frontiers[w] /\ Applied(d, a)
      BY <1>2, <2>1, <2>5 DEF SourceInv, FollowersInv
    <2>7. a.frontiers[w] \in Nat
      BY <2>1, <2>2, SourceManifestIs DEF HoldsHistory, IsManifestOf
    <2>8. m.frontiers[w] <= a.frontiers[w]
      BY <2>1, <2>2, <2>3, <2>4, <2>5, <2>6, <2>7
    <2> QED BY <2>6, <2>8, AppliedShows
  <1> QED BY <1>1, <1>2

LEMMA SharedRootShows ==
    ASSUME NEW w \in Device, SourceInv(w)
    PROVE  SharedRootTakesEffect
  <1> SUFFICES ASSUME NEW d \in Device, NEW m \in Manifests, settingsRoot[d] = m.id
               PROVE  Shows(d, m)
    BY DEF SharedRootTakesEffect
  <1>1. CASE d = w
    BY <1>1, SourceShows
  <1>2. CASE d # w
    <2>1. PICK i \in 1..Len(shared[w]) : m = shared[w][i] /\ m.id = <<w, i>>
      BY SourceManifestIs
    <2>2. m.id # None
      <3>1. Len(shared[w]) \in Nat
        BY DEF SourceInv, RootInv, SharedInv
      <3>2. <<w, i>> \in Device \X Nat
        BY <3>1
      <3> QED BY <2>1, <3>2, NoneAssumption
    <2>3. PICK a \in Manifests : a.id = m.id /\ Applied(d, a)
      BY <1>2, <2>2 DEF SourceInv, FollowersInv
    <2>4. PICK j \in 1..Len(shared[w]) : a = shared[w][j] /\ a.id = <<w, j>>
      BY SourceManifestIs
    <2>5. a = m
      BY <2>1, <2>3, <2>4
    <2>6. m.frontiers[w] <= a.frontiers[w]
      <3>1. m.frontiers[w] \in 1..Len(Revisions(w)) /\ Len(Revisions(w)) \in Nat
        BY SourceManifestIs, TableIs DEF HoldsHistory, IsManifestOf, SourceInv
      <3> QED BY <2>5, <3>1
    <2> QED BY <2>3, <2>6, AppliedShows
  <1> QED BY <1>1, <1>2

(***************************************************************************)
(* One device writes settings of one domain and the others follow its      *)
(* shared root: whatever was written while a publication was read,         *)
(* whatever the followers were shown, in whatever order, and wherever a    *)
(* pull broke off, a manifest whose frontiers a device has reached has     *)
(* nothing to offer it, so leaving it out of a pull loses nothing.         *)
(***************************************************************************)
THEOREM CoveredCorrect ==
    ASSUME NEW w \in Device, OneSource(w)
    PROVE  RootSpec => []CoveredIsShown
  <1>1. RootInit => SourceInv(w)
    BY SourceInit
  <1>2. SourceInv(w) /\ [RootNext]_pullVars => SourceInv(w)'
    BY SourceNext
  <1>3. SourceInv(w) => CoveredIsShown
    BY CoveredShows
  <1> QED BY <1>1, <1>2, <1>3, PTL DEF RootSpec

(***************************************************************************)
(* Under the same condition, the shared root a device has stored has taken *)
(* effect in what it shows.                                                *)
(***************************************************************************)
THEOREM SharedRootCorrect ==
    ASSUME NEW w \in Device, OneSource(w)
    PROVE  RootSpec => []SharedRootTakesEffect
  <1>1. RootInit => SourceInv(w)
    BY SourceInit
  <1>2. SourceInv(w) /\ [RootNext]_pullVars => SourceInv(w)'
    BY SourceNext
  <1>3. SourceInv(w) => SharedRootTakesEffect
    BY SharedRootShows
  <1> QED BY <1>1, <1>2, <1>3, PTL DEF RootSpec

=============================================================================
