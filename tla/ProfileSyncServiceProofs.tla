---------------------- MODULE ProfileSyncServiceProofs ----------------------
(***************************************************************************)
(* What TLAPS proves of ProfileSyncService, for any providers, roles,      *)
(* objects, roots and limits.                                              *)
(***************************************************************************)
EXTENDS ProfileSyncService, FiniteSetTheorems, WellFoundedInduction, TLAPS

(* A set of numbers up to a bound has a greatest one. *)
LEMMA Greatest ==
    ASSUME NEW n \in Nat, NEW S \in SUBSET (0..n), S # {}
    PROVE  \E x \in S : \A y \in S : y <= x
  <1> DEFINE R == {ss \in Nat \X Nat : ss[1] < ss[2]}
             T == {n - x : x \in S}
  <1>1. IsWellFoundedOn(R, Nat)
    BY NatLessThanWellFounded DEF OpToRel
  <1>2. \A x \in S : x \in Nat /\ n - x \in Nat
    OBVIOUS
  <1>3. T \subseteq Nat /\ T # {}
    <2>1. T \subseteq Nat
      BY <1>2
    <2>2. PICK x \in S : TRUE
      OBVIOUS
    <2>3. n - x \in T
      OBVIOUS
    <2> QED BY <2>1, <2>3
  <1>4. PICK t \in T : \A u \in T : <<u, t>> \notin R
    <2> HIDE DEF R, T
    <2> QED BY <1>1, <1>3, WFMin
  <1>5. PICK x \in S : t = n - x
    BY <1>4
  <1>6. ASSUME NEW y \in S PROVE y <= x
    <2>1. n - y \in T
      OBVIOUS
    <2>2. ~(n - y < n - x)
      BY <1>2, <1>4, <1>5, <2>1
    <2>3. x \in Nat /\ y \in Nat
      BY <1>2
    <2> HIDE DEF R, T
    <2> QED BY <2>2, <2>3
  <1> QED BY <1>6

-----------------------------------------------------------------------------
(* Type correctness. *)

LEMMA TypeInit == Init => TypeOK
  BY RolesAssumption, LimitAssumption DEF Init, TypeOK, RootCandidate

LEMMA TypeNext == TypeOK /\ [Next]_serviceVars => TypeOK'
  <1> SUFFICES ASSUME TypeOK, [Next]_serviceVars PROVE TypeOK'
    OBVIOUS
  <1> USE DEF storeVars, providerVars, faultVars, serviceVars
  <1>1. ASSUME NEW p \in Provider, NEW o \in Object, PutObject(p, o) PROVE TypeOK'
    BY <1>1 DEF TypeOK, PutObject, RootCandidate
  <1>2. ASSUME NEW p \in Provider, NEW o \in Object, RetainObject(p, o) PROVE TypeOK'
    BY <1>2 DEF TypeOK, RetainObject, RootCandidate
  <1>3. ASSUME NEW p \in Provider, NEW o \in Object, ReleaseObject(p, o) PROVE TypeOK'
    BY <1>3 DEF TypeOK, ReleaseObject, RootCandidate
  <1>4. ASSUME NEW p \in Provider, NEW o \in Object, NEW r \in Root, PublishRoot(p, r, o)
        PROVE TypeOK'
    <2>1. nextRootSequence' \in Nat /\ nextRootSequence' = nextRootSequence + 1
      BY <1>4 DEF TypeOK, PublishRoot
    <2>2. RootCandidate \subseteq RootCandidate'
      BY <2>1 DEF TypeOK, RootCandidate
    <2>3. [object |-> o, sequence |-> nextRootSequence + 1] \in RootCandidate'
      BY <2>1 DEF TypeOK, RootCandidate
    <2>4. roots' \in [Root \X Provider -> RootCandidate' \cup {None}]
      BY <1>4, <2>2, <2>3 DEF TypeOK, PublishRoot
    <2> QED BY <1>4, <2>1, <2>4 DEF TypeOK, PublishRoot
  <1>5. ASSUME NEW p \in Provider, Register(p) \/ MarkProviderSeen(p) PROVE TypeOK'
    BY <1>5, LimitAssumption
       DEF TypeOK, Register, MarkProviderSeen, Seen, Control, RootCandidate
  <1>6. ASSUME NEW p \in Provider, SetProviderOnline(p) PROVE TypeOK'
    BY <1>6, LimitAssumption DEF TypeOK, SetProviderOnline, Flipped, Control, RootCandidate
  <1>7. ASSUME NEW p \in Provider, SetProviderRetentionAvailable(p) PROVE TypeOK'
    BY <1>7, LimitAssumption
       DEF TypeOK, SetProviderRetentionAvailable, Flipped, Control, RootCandidate
  <1>8. ASSUME NEW p \in Provider, SetProviderRetentionQuota(p) PROVE TypeOK'
    BY <1>8, LimitAssumption DEF TypeOK, SetProviderRetentionQuota, Control, RootCandidate
  <1>9. ASSUME NEW p \in Provider, NEW o \in Object, RemoveProviderObjectBytes(p, o)
        PROVE TypeOK'
    BY <1>9, LimitAssumption DEF TypeOK, RemoveProviderObjectBytes, Control, RootCandidate
  <1>10. ASSUME NEW p \in Provider, NEW q \in Provider, SetProviderTransferAvailable(q, p)
         PROVE TypeOK'
    BY <1>10, LimitAssumption
       DEF TypeOK, SetProviderTransferAvailable, Flipped, Control, RootCandidate
  <1>11. ASSUME NEW p \in Provider, NEW q \in Provider, NEW r \in Root,
                SetProviderRootAvailable(q, p, r)
         PROVE TypeOK'
    BY <1>11, LimitAssumption
       DEF TypeOK, SetProviderRootAvailable, Flipped, Control, RootCandidate
  <1>12. ASSUME ExpireCurrentProviderFreshness PROVE TypeOK'
    BY <1>12, LimitAssumption DEF TypeOK, ExpireCurrentProviderFreshness, Control, RootCandidate
  <1>13. ASSUME UNCHANGED serviceVars PROVE TypeOK'
    BY <1>13 DEF TypeOK, RootCandidate
  <1> QED
    BY <1>1, <1>2, <1>3, <1>4, <1>5, <1>6, <1>7, <1>8, <1>9, <1>10, <1>11, <1>12, <1>13
       DEF Next, Request, Fixture

(***************************************************************************)
(* The store of the profile-sync service keeps its types: sequences of     *)
(* candidates and observations stay within the counters they were taken    *)
(* from.                                                                   *)
(***************************************************************************)
THEOREM TypeCorrect == Spec => []TypeOK
  BY TypeInit, TypeNext, PTL DEF Spec

-----------------------------------------------------------------------------
(* Claims. *)

LEMMA ClaimsNext == TypeOK /\ ClaimsAreBacked /\ [Next]_serviceVars => ClaimsAreBacked'
  <1> SUFFICES ASSUME TypeOK, ClaimsAreBacked, [Next]_serviceVars PROVE ClaimsAreBacked'
    OBVIOUS
  <1> USE DEF storeVars, providerVars, faultVars, serviceVars
  <1>1. ASSUME UNCHANGED <<roots, lost>>, objects \subseteq objects',
               retained' \ objects' \subseteq retained \ objects
        PROVE ClaimsAreBacked'
    BY <1>1 DEF ClaimsAreBacked, PublishedRoots
  <1>2. ASSUME NEW p \in Provider, NEW o \in Object,
               PutObject(p, o) \/ RetainObject(p, o) \/ ReleaseObject(p, o)
        PROVE ClaimsAreBacked'
    BY <1>1, <1>2 DEF PutObject, RetainObject, ReleaseObject
  <1>3. ASSUME NEW p \in Provider, NEW o \in Object, NEW r \in Root, PublishRoot(p, r, o)
        PROVE ClaimsAreBacked'
    <2>1. UNCHANGED <<objects, retained, lost>> /\ <<p, o>> \in objects
      BY <1>3 DEF PublishRoot, CanPublish
    <2>2. ASSUME NEW k \in PublishedRoots' PROVE <<k[2], roots'[k].object>> \in objects \cup lost
      <3>1. CASE k = <<r, p>>
        BY <1>3, <2>1, <3>1 DEF PublishRoot, TypeOK
      <3>2. CASE k # <<r, p>>
        <4>1. k \in Root \X Provider /\ roots'[k] = roots[k]
          BY <1>3, <3>2 DEF PublishRoot, TypeOK, PublishedRoots
        <4> QED BY <4>1 DEF ClaimsAreBacked, PublishedRoots
      <3> QED BY <3>1, <3>2
    <2> QED BY <2>1, <2>2 DEF ClaimsAreBacked
  <1>4. ASSUME NEW p \in Provider, NEW o \in Object, RemoveProviderObjectBytes(p, o)
        PROVE ClaimsAreBacked'
    <2>1. /\ objects' = objects \ {<<p, o>>} /\ lost' = lost \cup {<<p, o>>}
          /\ UNCHANGED <<retained, roots>>
      BY <1>4 DEF RemoveProviderObjectBytes
    <2>2. objects \cup lost \subseteq objects' \cup lost'
      BY <2>1
    <2>3. retained' \ objects' \subseteq lost'
      BY <2>1 DEF ClaimsAreBacked
    <2>4. PublishedRoots' = PublishedRoots
      BY <2>1 DEF PublishedRoots
    <2> QED BY <2>1, <2>2, <2>3, <2>4 DEF ClaimsAreBacked
  <1>5. ASSUME NEW p \in Provider,
               \/ Register(p) \/ MarkProviderSeen(p)
               \/ SetProviderOnline(p)
               \/ SetProviderRetentionAvailable(p) \/ SetProviderRetentionQuota(p)
        PROVE ClaimsAreBacked'
    BY <1>1, <1>5 DEF Register, MarkProviderSeen, Seen, SetProviderOnline,
                     SetProviderRetentionAvailable, SetProviderRetentionQuota
  <1>6. ASSUME NEW p \in Provider, NEW q \in Provider,
               \/ SetProviderTransferAvailable(q, p)
               \/ \E r \in Root : SetProviderRootAvailable(q, p, r)
        PROVE ClaimsAreBacked'
    BY <1>1, <1>6 DEF SetProviderTransferAvailable, SetProviderRootAvailable
  <1>7. ASSUME ExpireCurrentProviderFreshness \/ UNCHANGED serviceVars PROVE ClaimsAreBacked'
    BY <1>1, <1>7 DEF ExpireCurrentProviderFreshness
  <1> QED BY <1>2, <1>3, <1>4, <1>5, <1>6, <1>7 DEF Next, Request, Fixture

(***************************************************************************)
(* For any providers and objects: what is claimed retained, and what a     *)
(* root was published for, has been stored by that provider and is there   *)
(* unless a fault removed it.                                              *)
(***************************************************************************)
THEOREM ClaimsCorrect == Spec => []ClaimsAreBacked
  <1>1. Init => ClaimsAreBacked
    BY DEF Init, ClaimsAreBacked, PublishedRoots
  <1> QED BY <1>1, TypeCorrect, ClaimsNext, PTL DEF Spec

-----------------------------------------------------------------------------
(* Capacity. *)

(* A set that grows by at most one element, and only below the limit. *)
LEMMA GrowsWithinLimit ==
    ASSUME NEW S, IsFiniteSet(S), NEW T, NEW x, NEW n \in Nat,
           T \subseteq S \cup {x}, x \in S \/ Cardinality(S) < n, Cardinality(S) <= n
    PROVE  Cardinality(T) <= n
  <1>1. /\ IsFiniteSet(S \cup {x})
        /\ Cardinality(S \cup {x}) = IF x \in S THEN Cardinality(S) ELSE Cardinality(S) + 1
    BY FS_AddElement
  <1>2. IsFiniteSet(T) /\ Cardinality(T) <= Cardinality(S \cup {x})
    BY <1>1, FS_Subset
  <1>3. Cardinality(S) \in Nat /\ Cardinality(T) \in Nat
    BY <1>2, FS_CardinalityType
  <1> QED BY <1>1, <1>2, <1>3

LEMMA FiniteStore ==
    ASSUME TypeOK
    PROVE  /\ IsFiniteSet(objects) /\ IsFiniteSet(retained) /\ IsFiniteSet(objects \cup retained)
           /\ IsFiniteSet(PublishedRoots) /\ IsFiniteSet(Registered)
  <1>1. IsFiniteSet(Provider \X Object) /\ IsFiniteSet(Root \X Provider) /\ IsFiniteSet(Provider)
    BY FiniteAssumption, FS_Product
  <1>2. /\ objects \in SUBSET (Provider \X Object) /\ retained \in SUBSET (Provider \X Object)
        /\ objects \cup retained \in SUBSET (Provider \X Object)
    BY DEF TypeOK
  <1>3. PublishedRoots \in SUBSET (Root \X Provider) /\ Registered \in SUBSET Provider
    BY DEF PublishedRoots, Registered
  <1> QED BY <1>1, <1>2, <1>3, FS_Subset

(* The sum that the capacity check computes is the number of references. *)
LEMMA ReferenceCount ==
    ASSUME TypeOK
    PROVE  Cardinality(objects) + Cardinality(retained \ objects) = Cardinality(objects \cup retained)
  <1>1. IsFiniteSet(objects) /\ IsFiniteSet(retained)
    BY FiniteStore
  <1>2. IsFiniteSet(retained \ objects)
    BY <1>1, FS_Difference
  <1>3. objects \cup (retained \ objects) = objects \cup retained
        /\ objects \cap (retained \ objects) = {}
    OBVIOUS
  <1>4. Cardinality(objects \cup (retained \ objects)) =
           Cardinality(objects) + Cardinality(retained \ objects)
              - Cardinality(objects \cap (retained \ objects))
    BY <1>1, <1>2, FS_Union
  <1>5. Cardinality(objects) \in Nat /\ Cardinality(retained \ objects) \in Nat
    BY <1>1, <1>2, FS_CardinalityType
  <1> QED BY <1>3, <1>4, <1>5, FS_EmptySet

LEMMA CapacityNext == TypeOK /\ WithinCapacity /\ [Next]_serviceVars => WithinCapacity'
  <1> SUFFICES ASSUME TypeOK, WithinCapacity, [Next]_serviceVars PROVE WithinCapacity'
    OBVIOUS
  <1> USE DEF storeVars, providerVars, faultVars, serviceVars
  <1> DEFINE refs == objects \cup retained
  <1>0. /\ MaxObjects # None => MaxObjects \in Nat
        /\ MaxRoots # None => MaxRoots \in Nat
        /\ MaxProviders # None => MaxProviders \in Nat
    BY LimitAssumption
  <1>1. ASSUME NEW k, objects' \cup retained' \subseteq refs \cup {k}, k \in refs \/ NewObjectFits,
               UNCHANGED <<roots, lastSeen>>
        PROVE WithinCapacity'
    <2>1. MaxObjects # None => Cardinality(objects' \cup retained') <= MaxObjects
      <3> SUFFICES ASSUME MaxObjects # None PROVE Cardinality(objects' \cup retained') <= MaxObjects
        OBVIOUS
      <3>1. k \in refs \/ Cardinality(refs) < MaxObjects
        BY <1>1, ReferenceCount DEF NewObjectFits
      <3>2. Cardinality(refs) <= MaxObjects /\ IsFiniteSet(refs)
        BY FiniteStore DEF WithinCapacity
      <3> HIDE DEF refs
      <3> QED BY <1>0, <1>1, <3>1, <3>2, GrowsWithinLimit
    <2>2. PublishedRoots' = PublishedRoots /\ Registered' = Registered
      BY <1>1 DEF PublishedRoots, Registered
    <2> QED BY <2>1, <2>2 DEF WithinCapacity
  <1>2. ASSUME NEW p \in Provider, NEW o \in Object, PutObject(p, o) \/ RetainObject(p, o)
        PROVE WithinCapacity'
    <2>1. /\ objects' \cup retained' \subseteq refs \cup {<<p, o>>}
          /\ <<p, o>> \in refs \/ NewObjectFits
          /\ UNCHANGED <<roots, lastSeen>>
      BY <1>2 DEF PutObject, RetainObject, CanPut, CanRetain, ObjectFits
    <2> QED BY <1>1, <2>1
  <1>3. ASSUME objects' \cup retained' \subseteq refs, UNCHANGED <<roots, lastSeen>>
        PROVE WithinCapacity'
    <2>1. MaxObjects # None => Cardinality(objects' \cup retained') <= MaxObjects
      <3>1. /\ Cardinality(objects' \cup retained') <= Cardinality(refs)
            /\ IsFiniteSet(objects' \cup retained') /\ IsFiniteSet(refs)
        <4>1. IsFiniteSet(refs)
          BY FiniteStore
        <4> HIDE DEF refs
        <4> QED BY <1>3, <4>1, FS_Subset
      <3>2. Cardinality(refs) \in Nat /\ Cardinality(objects' \cup retained') \in Nat
        BY <3>1, FS_CardinalityType
      <3>3. MaxObjects # None => Cardinality(refs) <= MaxObjects
        BY DEF WithinCapacity
      <3> HIDE DEF refs
      <3> QED BY <1>0, <3>1, <3>2, <3>3
    <2>2. PublishedRoots' = PublishedRoots /\ Registered' = Registered
      BY <1>3 DEF PublishedRoots, Registered
    <2> QED BY <2>1, <2>2 DEF WithinCapacity
  <1>4. ASSUME NEW p \in Provider, NEW o \in Object,
               ReleaseObject(p, o) \/ RemoveProviderObjectBytes(p, o)
        PROVE WithinCapacity'
    BY <1>3, <1>4 DEF ReleaseObject, RemoveProviderObjectBytes
  <1>5. ASSUME NEW p \in Provider, NEW o \in Object, NEW r \in Root, PublishRoot(p, r, o)
        PROVE WithinCapacity'
    <2>1. UNCHANGED <<objects, retained, lastSeen>> /\ RootFits(<<r, p>>)
      BY <1>5 DEF PublishRoot, CanPublish
    <2>2. PublishedRoots' \subseteq PublishedRoots \cup {<<r, p>>}
      <3> SUFFICES ASSUME NEW k \in PublishedRoots', k # <<r, p>> PROVE k \in PublishedRoots
        OBVIOUS
      <3> QED BY <1>5 DEF PublishRoot, PublishedRoots, TypeOK
    <2>3. MaxRoots # None => Cardinality(PublishedRoots') <= MaxRoots
      BY <1>0, <2>1, <2>2, FiniteStore, GrowsWithinLimit DEF RootFits, WithinCapacity
    <2> QED BY <2>1, <2>3 DEF WithinCapacity, Registered
  <1>6. ASSUME NEW p \in Provider, Register(p) \/ MarkProviderSeen(p) PROVE WithinCapacity'
    <2>1. UNCHANGED <<objects, retained, roots>> /\ ProviderFits(p)
      BY <1>6 DEF Register, MarkProviderSeen, Seen, ProviderFits
    <2>2. Registered' \subseteq Registered \cup {p}
      BY <1>6 DEF Register, MarkProviderSeen, Seen, Registered, TypeOK
    <2>3. MaxProviders # None => Cardinality(Registered') <= MaxProviders
      BY <1>0, <2>1, <2>2, FiniteStore, GrowsWithinLimit DEF ProviderFits, WithinCapacity
    <2> QED BY <2>1, <2>3 DEF WithinCapacity, PublishedRoots
  <1>7. ASSUME NEW p \in Provider,
               \/ SetProviderOnline(p)
               \/ SetProviderRetentionAvailable(p) \/ SetProviderRetentionQuota(p)
        PROVE WithinCapacity'
    BY <1>3, <1>7 DEF SetProviderOnline, SetProviderRetentionAvailable, SetProviderRetentionQuota
  <1>8. ASSUME NEW p \in Provider, NEW q \in Provider,
               \/ SetProviderTransferAvailable(q, p)
               \/ \E r \in Root : SetProviderRootAvailable(q, p, r)
        PROVE WithinCapacity'
    BY <1>3, <1>8 DEF SetProviderTransferAvailable, SetProviderRootAvailable
  <1>9. ASSUME ExpireCurrentProviderFreshness \/ UNCHANGED serviceVars PROVE WithinCapacity'
    BY <1>3, <1>9 DEF ExpireCurrentProviderFreshness
  <1> QED BY <1>2, <1>4, <1>5, <1>6, <1>7, <1>8, <1>9 DEF Next, Request, Fixture

(***************************************************************************)
(* For any limits: the references to objects, with and without bytes, the  *)
(* roots and the providers stay within the capacity of the store.          *)
(***************************************************************************)
THEOREM CapacityCorrect == Spec => []WithinCapacity
  <1>1. Init => WithinCapacity
    <2> SUFFICES ASSUME Init PROVE WithinCapacity
      OBVIOUS
    <2>1. objects \cup retained = {} /\ PublishedRoots = {} /\ Registered = {}
      BY DEF Init, PublishedRoots, Registered
    <2> QED BY <2>1, FS_EmptySet, LimitAssumption DEF WithinCapacity
  <1> QED BY <1>1, TypeCorrect, CapacityNext, PTL DEF Spec

-----------------------------------------------------------------------------
(* Roots. *)

(* No two candidates have the same sequence: what makes the newest one of  *)
(* a root unique, whoever looks.                                           *)
SequencesDiffer ==
    \A k, j \in PublishedRoots : roots[k].sequence = roots[j].sequence => k = j

(* Only a provider with the role publishes, so a candidate never loses its *)
(* standing when its publisher registers again.                            *)
PublishersAuthorised == \A k \in PublishedRoots : "mutable_roots" \in Roles[k[2]]

(* A published candidate is a record whose sequence has been given out. *)
LEMMA CandidateType ==
    ASSUME TypeOK, NEW k \in PublishedRoots
    PROVE  /\ k \in Root \X Provider
           /\ roots[k] \in RootCandidate /\ roots[k] # None
           /\ roots[k].sequence \in 1..nextRootSequence
           /\ roots[k].sequence \in Nat
  BY DEF TypeOK, PublishedRoots, RootCandidate

RootInv == SequencesDiffer /\ PublishersAuthorised

LEMMA RootInvNext == TypeOK /\ RootInv /\ [Next]_serviceVars => RootInv'
  <1> SUFFICES ASSUME TypeOK, RootInv, [Next]_serviceVars PROVE RootInv'
    OBVIOUS
  <1> USE DEF storeVars, providerVars, faultVars, serviceVars
  <1>1. ASSUME UNCHANGED roots PROVE RootInv'
    BY <1>1 DEF RootInv, SequencesDiffer, PublishersAuthorised, PublishedRoots
  <1>2. ASSUME NEW p \in Provider, NEW o \in Object, NEW r \in Root, PublishRoot(p, r, o)
        PROVE RootInv'
    <2>1. roots'[<<r, p>>].sequence = nextRootSequence + 1
      BY <1>2 DEF PublishRoot, TypeOK
    <2>2. ASSUME NEW i \in PublishedRoots', i # <<r, p>>
          PROVE i \in PublishedRoots /\ roots'[i] = roots[i]
      BY <1>2, <2>2 DEF PublishRoot, TypeOK, PublishedRoots
    <2>3. ASSUME NEW i \in PublishedRoots', i # <<r, p>>
          PROVE roots'[i].sequence # nextRootSequence + 1
      BY <2>2, <2>3, CandidateType DEF TypeOK
    <2>4. ASSUME NEW k \in PublishedRoots', NEW j \in PublishedRoots',
                 roots'[k].sequence = roots'[j].sequence
          PROVE k = j
      <3>1. CASE k = <<r, p>> \/ j = <<r, p>>
        BY <2>1, <2>3, <2>4, <3>1
      <3>2. CASE k # <<r, p>> /\ j # <<r, p>>
        BY <2>2, <2>4, <3>2 DEF RootInv, SequencesDiffer
      <3> QED BY <3>1, <3>2
    <2>5. ASSUME NEW k \in PublishedRoots' PROVE "mutable_roots" \in Roles[k[2]]
      <3>1. CASE k = <<r, p>>
        BY <1>2, <3>1 DEF PublishRoot, CanPublish, Serves
      <3>2. CASE k # <<r, p>>
        BY <2>2, <3>2 DEF RootInv, PublishersAuthorised
      <3> QED BY <3>1, <3>2
    <2> QED BY <2>4, <2>5 DEF RootInv, SequencesDiffer, PublishersAuthorised
  <1>3. CASE UNCHANGED serviceVars \/ ExpireCurrentProviderFreshness
    BY <1>1, <1>3 DEF ExpireCurrentProviderFreshness
  <1>4. ASSUME NEW p \in Provider, NEW o \in Object,
               \/ PutObject(p, o) \/ RetainObject(p, o) \/ ReleaseObject(p, o)
               \/ RemoveProviderObjectBytes(p, o)
        PROVE RootInv'
    BY <1>1, <1>4 DEF PutObject, RetainObject, ReleaseObject, RemoveProviderObjectBytes
  <1>5. ASSUME NEW p \in Provider,
               \/ Register(p) \/ MarkProviderSeen(p)
               \/ SetProviderOnline(p)
               \/ SetProviderRetentionAvailable(p) \/ SetProviderRetentionQuota(p)
        PROVE RootInv'
    BY <1>1, <1>5 DEF Register, MarkProviderSeen, Seen, SetProviderOnline,
                     SetProviderRetentionAvailable, SetProviderRetentionQuota
  <1>6. ASSUME NEW p \in Provider, NEW q \in Provider,
               \/ SetProviderTransferAvailable(q, p)
               \/ \E r \in Root : SetProviderRootAvailable(q, p, r)
        PROVE RootInv'
    BY <1>1, <1>6 DEF SetProviderTransferAvailable, SetProviderRootAvailable
  <1> QED BY <1>2, <1>3, <1>4, <1>5, <1>6 DEF Next, Request, Fixture

(* The publisher that LatestRoot chooses. *)
IsNewest(q, p, r) ==
    /\ q \in VisibleCandidates(p, r)
    /\ \A x \in VisibleCandidates(p, r) : roots[<<r, x>>].sequence <= roots[<<r, q>>].sequence

LEMMA NewestExists ==
    ASSUME TypeOK, NEW p \in Provider, NEW r \in Root, VisibleCandidates(p, r) # {}
    PROVE  \E q \in Provider : IsNewest(q, p, r)
  <1> DEFINE V == VisibleCandidates(p, r)
             S == {roots[<<r, q>>].sequence : q \in V}
  <1>1. \A q \in V : q \in Provider /\ <<r, q>> \in PublishedRoots
    BY DEF VisibleCandidates, CandidatePublishers
  <1>2. S \in SUBSET (0..nextRootSequence) /\ S # {} /\ nextRootSequence \in Nat
    <2>1. \A q \in V : roots[<<r, q>>].sequence \in 0..nextRootSequence
      BY <1>1, CandidateType DEF TypeOK
    <2>2. S \in SUBSET (0..nextRootSequence)
      BY <2>1
    <2>3. PICK q \in V : TRUE
      OBVIOUS
    <2>4. roots[<<r, q>>].sequence \in S
      BY <2>3
    <2> QED BY <2>2, <2>4 DEF TypeOK
  <1>3. PICK s \in S : \A t \in S : t <= s
    <2> HIDE DEF S
    <2> QED BY <1>2, Greatest
  <1>4. PICK q \in V : s = roots[<<r, q>>].sequence
    BY <1>3
  <1>5. \A x \in V : roots[<<r, x>>].sequence <= roots[<<r, q>>].sequence
    BY <1>3, <1>4
  <1> QED BY <1>1, <1>5 DEF IsNewest

(* LatestRoot is the candidate of any newest publisher. *)
LEMMA LatestIsNewest ==
    ASSUME TypeOK, SequencesDiffer, NEW p \in Provider, NEW r \in Root, NEW q, IsNewest(q, p, r)
    PROVE  LatestRoot(p, r) = roots[<<r, q>>]
  <1> DEFINE V == VisibleCandidates(p, r)
             c == CHOOSE x \in V : \A y \in V : roots[<<r, y>>].sequence <= roots[<<r, x>>].sequence
  <1>1. \A x \in V : <<r, x>> \in PublishedRoots
    BY DEF VisibleCandidates, CandidatePublishers
  <1>2. q \in V /\ \A y \in V : roots[<<r, y>>].sequence <= roots[<<r, q>>].sequence
    BY DEF IsNewest
  <1>3. c \in V /\ \A y \in V : roots[<<r, y>>].sequence <= roots[<<r, c>>].sequence
    <2> HIDE DEF V
    <2> QED BY <1>2
  <1>4. roots[<<r, c>>].sequence = roots[<<r, q>>].sequence
    <2> HIDE DEF V, c
    <2> QED BY <1>1, <1>2, <1>3, CandidateType
  <1>5. <<r, c>> = <<r, q>>
    <2> HIDE DEF V, c
    <2> QED BY <1>1, <1>2, <1>3, <1>4 DEF SequencesDiffer
  <1>6. LatestRoot(p, r) = roots[<<r, c>>]
    BY <1>2 DEF LatestRoot
  <1> QED BY <1>5, <1>6

(* The two lemmas as one formula, to be used of the next state too. *)
NewestFacts ==
    TypeOK /\ SequencesDiffer =>
       \A p \in Provider, r \in Root :
          /\ VisibleCandidates(p, r) # {} => \E q \in Provider : IsNewest(q, p, r)
          /\ \A q \in Provider : IsNewest(q, p, r) => LatestRoot(p, r) = roots[<<r, q>>]

LEMMA NewestFactsHold == NewestFacts
  BY NewestExists, LatestIsNewest DEF NewestFacts

(* What any requester can see of a root. *)
LEMMA VisibleIs ==
    ASSUME RootInv, NEW p \in Provider, NEW r \in Root
    PROVE  VisibleCandidates(p, r) =
              {q \in Provider : <<r, q>> \in PublishedRoots /\ RootAvailable(q, p, r)}
  BY DEF VisibleCandidates, CandidatePublishers, RootInv, PublishersAuthorised

VisibleFacts ==
    RootInv =>
       \A p \in Provider, r \in Root :
          VisibleCandidates(p, r) =
             {q \in Provider : <<r, q>> \in PublishedRoots /\ RootAvailable(q, p, r)}

LEMMA VisibleFactsHold == VisibleFacts
  BY VisibleIs DEF VisibleFacts

RootsStep ==
    \A p \in Provider, r \in Root :
       /\ delayedRoots' = delayedRoots =>
             SequenceOf(LatestRoot(p, r)) <= SequenceOf(LatestRoot(p, r)')
       /\ \A q \in Provider :
             roots'[<<r, q>>] # roots[<<r, q>>] /\ RootAvailable(q, p, r) =>
                LatestRoot(p, r)' = roots'[<<r, q>>]

(* A step either publishes one candidate with a new sequence or leaves the *)
(* candidates alone.                                                       *)
LEMMA RootsChange ==
    ASSUME TypeOK, [Next]_serviceVars, roots' # roots
    PROVE  \E p \in Provider, r \in Root, o \in Object : PublishRoot(p, r, o)
  <1> USE DEF storeVars, providerVars, faultVars, serviceVars
  <1>1. CASE UNCHANGED serviceVars \/ ExpireCurrentProviderFreshness
    BY <1>1 DEF ExpireCurrentProviderFreshness
  <1>2. ASSUME NEW p \in Provider, NEW o \in Object,
               \/ PutObject(p, o) \/ RetainObject(p, o) \/ ReleaseObject(p, o)
               \/ RemoveProviderObjectBytes(p, o)
        PROVE FALSE
    BY <1>2 DEF PutObject, RetainObject, ReleaseObject, RemoveProviderObjectBytes
  <1>3. ASSUME NEW p \in Provider,
               \/ Register(p) \/ MarkProviderSeen(p)
               \/ SetProviderOnline(p)
               \/ SetProviderRetentionAvailable(p) \/ SetProviderRetentionQuota(p)
        PROVE FALSE
    BY <1>3 DEF Register, MarkProviderSeen, Seen, SetProviderOnline,
               SetProviderRetentionAvailable, SetProviderRetentionQuota
  <1>4. ASSUME NEW p \in Provider, NEW q \in Provider,
               \/ SetProviderTransferAvailable(q, p)
               \/ \E r \in Root : SetProviderRootAvailable(q, p, r)
        PROVE FALSE
    BY <1>4 DEF SetProviderTransferAvailable, SetProviderRootAvailable
  <1> QED BY <1>1, <1>2, <1>3, <1>4 DEF Next, Request, Fixture

LEMMA RootsStepHolds ==
    ASSUME TypeOK, TypeOK', RootInv, RootInv', NewestFacts, NewestFacts',
           VisibleFacts, VisibleFacts', [Next]_serviceVars
    PROVE  RootsStep
  <1> SUFFICES ASSUME NEW p \in Provider, NEW r \in Root
               PROVE  /\ delayedRoots' = delayedRoots =>
                            SequenceOf(LatestRoot(p, r)) <= SequenceOf(LatestRoot(p, r)')
                      /\ \A q \in Provider :
                            roots'[<<r, q>>] # roots[<<r, q>>] /\ RootAvailable(q, p, r) =>
                               LatestRoot(p, r)' = roots'[<<r, q>>]
    BY DEF RootsStep
  <1> DEFINE V == VisibleCandidates(p, r)
             W == {q \in Provider : <<r, q>> \in PublishedRoots' /\ RootAvailable(q, p, r)'}
  <1>1. /\ V = {q \in Provider : <<r, q>> \in PublishedRoots /\ RootAvailable(q, p, r)}
        /\ VisibleCandidates(p, r)' = W
    BY DEF VisibleFacts
  <1>2. /\ V # {} => \E q \in Provider : IsNewest(q, p, r)
        /\ \A q \in Provider : IsNewest(q, p, r) => LatestRoot(p, r) = roots[<<r, q>>]
    BY DEF NewestFacts, RootInv
  <1>3. /\ W # {} => \E q \in Provider : IsNewest(q, p, r)'
        /\ \A q \in Provider : IsNewest(q, p, r)' => LatestRoot(p, r)' = roots'[<<r, q>>]
    BY <1>1 DEF NewestFacts, RootInv
  <1>4. ASSUME NEW k \in Root \X Provider
        PROVE  \/ roots'[k] = roots[k]
               \/ /\ roots'[k] # None /\ roots'[k].sequence = nextRootSequence + 1
                  /\ nextRootSequence' = nextRootSequence + 1
                  /\ delayedRoots' = delayedRoots
    <2>1. CASE roots' = roots
      BY <2>1
    <2>2. CASE roots' # roots
      <3>1. PICK p0 \in Provider, r0 \in Root, o \in Object : PublishRoot(p0, r0, o)
        BY <2>2, RootsChange
      <3>2. /\ roots' = [roots EXCEPT ![<<r0, p0>>] =
                            [object |-> o, sequence |-> nextRootSequence + 1]]
            /\ nextRootSequence' = nextRootSequence + 1
            /\ delayedRoots' = delayedRoots
        BY <3>1 DEF PublishRoot, faultVars
      <3>3. None # [object |-> o, sequence |-> nextRootSequence + 1]
        BY LimitAssumption DEF TypeOK
      <3> QED BY <3>2, <3>3 DEF TypeOK
    <2> QED BY <2>1, <2>2
  <1>5. \A q \in Provider : <<r, q>> \in Root \X Provider
    OBVIOUS
  <1>6. ASSUME delayedRoots' = delayedRoots
        PROVE  SequenceOf(LatestRoot(p, r)) <= SequenceOf(LatestRoot(p, r)')
    <2>1. CASE V = {}
      <3>1. LatestRoot(p, r) = None
        BY <2>1 DEF LatestRoot
      <3>2. SequenceOf(LatestRoot(p, r)') \in Nat
        <4>1. CASE W = {}
          BY <1>1, <4>1 DEF LatestRoot, SequenceOf
        <4>2. CASE W # {}
          <5>1. PICK q \in Provider : IsNewest(q, p, r)'
            BY <1>3, <4>2
          <5>2. <<r, q>> \in PublishedRoots'
            BY <1>1, <5>1 DEF IsNewest
          <5>3. roots'[<<r, q>>] # None /\ roots'[<<r, q>>].sequence \in Nat
            BY <5>2 DEF TypeOK, PublishedRoots, RootCandidate
          <5> QED BY <1>3, <5>1, <5>3 DEF SequenceOf
        <4> QED BY <4>1, <4>2
      <3> QED BY <3>1, <3>2 DEF SequenceOf
    <2>2. CASE V # {}
      <3>1. PICK q \in Provider : IsNewest(q, p, r)
        BY <1>2, <2>2
      <3>2. q \in V /\ <<r, q>> \in PublishedRoots /\ RootAvailable(q, p, r)
        BY <1>1, <3>1 DEF IsNewest
      <3>3. /\ roots[<<r, q>>] # None
            /\ roots[<<r, q>>].sequence \in Nat
            /\ roots[<<r, q>>].sequence <= nextRootSequence
            /\ nextRootSequence \in Nat
        BY <3>2, CandidateType DEF TypeOK
      <3>4. /\ roots'[<<r, q>>] # None
            /\ roots'[<<r, q>>].sequence \in Nat
            /\ roots[<<r, q>>].sequence <= roots'[<<r, q>>].sequence
        BY <1>4, <1>5, <3>3
      <3>5. q \in W
        BY <1>6, <3>2, <3>4 DEF PublishedRoots, RootAvailable
      <3>6. PICK x \in Provider : IsNewest(x, p, r)'
        BY <1>3, <3>5
      <3>7. x \in W /\ roots'[<<r, q>>].sequence <= roots'[<<r, x>>].sequence
        BY <1>1, <3>5, <3>6 DEF IsNewest
      <3>8. roots'[<<r, x>>] # None /\ roots'[<<r, x>>].sequence \in Nat
        BY <3>7 DEF TypeOK, PublishedRoots, RootCandidate
      <3> QED BY <1>2, <1>3, <3>1, <3>3, <3>4, <3>6, <3>7, <3>8 DEF SequenceOf
    <2> QED BY <2>1, <2>2
  <1>7. ASSUME NEW q \in Provider, roots'[<<r, q>>] # roots[<<r, q>>], RootAvailable(q, p, r)
        PROVE  LatestRoot(p, r)' = roots'[<<r, q>>]
    <2>1. /\ roots'[<<r, q>>] # None
          /\ roots'[<<r, q>>].sequence = nextRootSequence + 1
          /\ nextRootSequence' = nextRootSequence + 1
          /\ delayedRoots' = delayedRoots
      BY <1>4, <1>5, <1>7
    <2>2. q \in W
      BY <1>7, <2>1 DEF PublishedRoots, RootAvailable
    <2>3. ASSUME NEW x \in W PROVE roots'[<<r, x>>].sequence <= nextRootSequence + 1
      BY <2>1, <2>3 DEF TypeOK, PublishedRoots, RootCandidate
    <2>4. IsNewest(q, p, r)'
      BY <1>1, <2>1, <2>2, <2>3 DEF IsNewest
    <2> QED BY <1>3, <2>4
  <1> QED BY <1>6, <1>7

(***************************************************************************)
(* For any number of publishers: a publication is what the requesters it   *)
(* reaches resolve at once, and what a root resolves to never goes back    *)
(* while no candidate is held back.                                        *)
(***************************************************************************)
THEOREM RootsCorrect == Spec => RootsMoveForward
  <1>1. Init => RootInv
    BY DEF Init, RootInv, SequencesDiffer, PublishersAuthorised, PublishedRoots
  <1>2. Spec => []RootInv
    BY <1>1, TypeCorrect, RootInvNext, PTL DEF Spec
  <1>3. TypeOK /\ TypeOK' /\ RootInv /\ RootInv' /\ NewestFacts /\ NewestFacts'
        /\ VisibleFacts /\ VisibleFacts' /\ [Next]_serviceVars => [RootsStep]_serviceVars
    BY RootsStepHolds
  <1>4. Spec => [][RootsStep]_serviceVars
    BY <1>2, <1>3, TypeCorrect, NewestFactsHold, VisibleFactsHold, PTL DEF Spec
  <1> QED BY <1>4 DEF RootsStep, RootsMoveForward

-----------------------------------------------------------------------------
(* Health reports. *)

(* The two ways of looking for a holder find the same providers. *)
LEMMA AvailableIsFetchable ==
    ASSUME NEW p, NEW o
    PROVE  ObjectAvailability(p, o).available = OnlineHolders(p, o)
  BY DEF ObjectAvailability, OnlineHolders, FreshOnlineForRole

LEMMA HealthAgrees == TypeOK => HealthAgreesWithFetch
  <1> SUFFICES ASSUME TypeOK, NEW p \in Registered, NEW r \in Root,
                      NEW minimum \in 0..Cardinality(Provider),
                      Serves(p, {"discovery", "object_transfer"}),
                      RootHealth(p, r, minimum).latest # None
               PROVE  LET h == RootHealth(p, r, minimum)
                      IN /\ h.available <=> CanGet(p, h.latest)
                         /\ ~h.degraded =>
                              /\ CanGet(p, h.latest)
                              /\ Cardinality({q \in Provider : <<q, h.latest>> \in objects})
                                    >= minimum
    BY DEF HealthAgreesWithFetch
  <1> DEFINE o == LatestRoot(p, r).object
             available == ObjectAvailability(p, o).available # {}
             retaining == Cardinality(OnlineRetaining(o))
             holders == {q \in Provider : <<q, o>> \in objects}
  <1>1. RootHealth(p, r, minimum) =
           [latest |-> o, available |-> available, retaining |-> retaining,
            degraded |-> ~available \/ retaining = 0 \/ retaining < minimum]
    <2>1. LatestRoot(p, r) # None
      BY DEF RootHealth
    <2> QED BY <2>1 DEF RootHealth
  <1>2. available <=> CanGet(p, o)
    BY AvailableIsFetchable DEF CanGet, Serves
  <1>3. IsFiniteSet(holders) /\ OnlineRetaining(o) \subseteq holders
    <2>1. holders \in SUBSET Provider
      OBVIOUS
    <2>2. IsFiniteSet(holders)
      BY <2>1, FiniteAssumption, FS_Subset
    <2> QED BY <2>2 DEF OnlineRetaining
  <1>4. /\ retaining <= Cardinality(holders)
        /\ retaining \in Nat /\ Cardinality(holders) \in Nat
    BY <1>3, FS_Subset, FS_CardinalityType
  <1>5. minimum \in Nat
    BY FiniteAssumption, FS_CardinalityType
  <1>6. ~(retaining < minimum) => Cardinality(holders) >= minimum
    <2> HIDE DEF retaining, holders
    <2> QED BY <1>4, <1>5
  <1>7. /\ RootHealth(p, r, minimum).latest = o
        /\ RootHealth(p, r, minimum).available <=> available
        /\ ~RootHealth(p, r, minimum).degraded => available /\ ~(retaining < minimum)
    <2> DEFINE degraded == ~available \/ retaining = 0 \/ retaining < minimum
    <2>1. /\ RootHealth(p, r, minimum).latest = o
          /\ RootHealth(p, r, minimum).available = available
          /\ RootHealth(p, r, minimum).degraded = degraded
      <3>1. RootHealth(p, r, minimum) = [latest |-> o, available |-> available,
                                         retaining |-> retaining, degraded |-> degraded]
        BY <1>1
      <3> HIDE DEF o, available, retaining, degraded
      <3> QED BY <3>1
    <2> HIDE DEF o, retaining
    <2> QED BY <2>1, Zenon
  <1> HIDE DEF o, available, retaining
  <1> QED BY <1>2, <1>6, <1>7, Zenon

(***************************************************************************)
(* For any providers and faults: root_health calls an object available     *)
(* exactly when get_object returns it, and a root healthy only when its    *)
(* object can be fetched and is held by the requested number of providers. *)
(***************************************************************************)
THEOREM HealthCorrect == Spec => []HealthAgreesWithFetch
  BY TypeCorrect, HealthAgrees, PTL

=============================================================================
