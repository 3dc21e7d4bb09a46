------------------------- MODULE ProfileSyncService -------------------------
(***************************************************************************)
(* The profile-sync service of crates/broadwebd: the store in which        *)
(* providers (devices and availability providers) keep encrypted objects,  *)
(* retention claims and mutable roots, and the fixture controls that take  *)
(* providers offline, age them, delay transfers and roots, block or limit  *)
(* retention and lose bytes.  Every request takes the store's lock once,   *)
(* so it is one step; a request that fails changes nothing and is the      *)
(* negation of the guard.  There is one profile: the store's keys are      *)
(* disjoint for different profiles.                                        *)
(***************************************************************************)
EXTENDS Naturals, FiniteSets

CONSTANTS Provider,      \* provider ids
          Roles,         \* Roles[p]: the roles p's service is made with
          Object,        \* object ids
          Root,          \* root ids
          None,          \* no limit, no root, no object
          MaxProviders, MaxObjects, MaxRoots,  \* ProfileSyncFixtureCapacity
          Quotas,        \* the retention quotas a fixture sets
          MaxPublications,  \* bound on publications of roots
          MaxControls       \* bound on registrations and fixture controls

Role == {"discovery", "connectivity", "object_transfer", "availability",
         "mutable_roots"}

ASSUME RolesAssumption == Roles \in [Provider -> SUBSET Role]
ASSUME FiniteAssumption == /\ IsFiniteSet(Provider)
                           /\ IsFiniteSet(Object)
                           /\ IsFiniteSet(Root)
ASSUME LimitAssumption ==
    /\ None \notin Nat /\ None \notin Object /\ None \notin [object : Object, sequence : Nat]
    /\ {MaxProviders, MaxObjects, MaxRoots} \subseteq Nat \cup {None}
    /\ Quotas \subseteq Nat
    /\ MaxPublications \in Nat /\ MaxControls \in Nat

VARIABLES objects,          \* <<provider, object>>: whose bytes are stored
          retained,         \* <<provider, object>>: what is claimed retained
          roots,            \* roots[<<r, p>>]: the candidate p published for r
          nextRootSequence,
          lastSeen,         \* lastSeen[p]: 0 until p is registered
          nextSeen, minimumSeen,
          offline, delayedTransfers, delayedRoots, blocked,
          quota,            \* quota[p]: retention quota or None
          controls,         \* number of controls so far, for the bound
          lost              \* the keys whose bytes a fault has removed

storeVars == <<objects, retained, roots, nextRootSequence>>
providerVars == <<lastSeen, nextSeen, minimumSeen>>
faultVars == <<offline, delayedTransfers, delayedRoots, blocked, quota, lost>>
serviceVars == <<storeVars, providerVars, faultVars, controls>>

Init ==
    /\ objects = {} /\ retained = {}
    /\ roots = [k \in Root \X Provider |-> None]
    /\ nextRootSequence = 0
    /\ lastSeen = [p \in Provider |-> 0]
    /\ nextSeen = 0 /\ minimumSeen = 0
    /\ offline = {} /\ delayedTransfers = {} /\ delayedRoots = {} /\ blocked = {}
    /\ quota = [p \in Provider |-> None]
    /\ controls = 0
    /\ lost = {}

-----------------------------------------------------------------------------
(* Providers and what they can see of each other. *)

Registered == {p \in Provider : lastSeen[p] > 0}

Online(p) == "connectivity" \in Roles[p] /\ p \notin offline

Fresh(p) == lastSeen[p] >= minimumSeen

(* A provider that is not registered has no state to be stale by. *)
FreshOnlineForRole(p, R) ==
    p \in Registered => Online(p) /\ Fresh(p) /\ R \subseteq Roles[p]

(* ensure_registered, ensure_online and require_role of a request to p. *)
Serves(p, R) == p \in Registered /\ Online(p) /\ R \subseteq Roles[p]

TransferAvailable(q, p) == q = p \/ <<q, p>> \notin delayedTransfers

RootAvailable(q, p, r) == q = p \/ <<q, p, r>> \notin delayedRoots

(* Variant of OnlineHolders: a stale provider still serves. *)
OnlineHoldersEvenStale(p, o) ==
    {q \in Provider : /\ <<q, o>> \in objects
                      /\ Online(q) /\ "object_transfer" \in Roles[q]
                      /\ TransferAvailable(q, p)}

(* find_online_object: the providers p can fetch the bytes of o from. *)
OnlineHolders(p, o) ==
    {q \in Provider : /\ <<q, o>> \in objects
                      /\ FreshOnlineForRole(q, {"object_transfer"})
                      /\ TransferAvailable(q, p)}

(* Objects retained without their bytes count against the limit too.  The  *)
(* variant counts stored bytes only.                                       *)
NewObjectFitsByBytes == MaxObjects # None => Cardinality(objects) < MaxObjects

NewObjectFits ==
    MaxObjects # None =>
       Cardinality(objects) + Cardinality(retained \ objects) < MaxObjects

ObjectFits(k) == k \in objects \cup retained \/ NewObjectFits

PublishedRoots == {k \in Root \X Provider : roots[k] # None}

RootFits(k) ==
    \/ k \in PublishedRoots
    \/ MaxRoots # None => Cardinality(PublishedRoots) < MaxRoots

ProviderFits(p) ==
    \/ p \in Registered
    \/ MaxProviders # None => Cardinality(Registered) < MaxProviders

RetainedBy(p) == {k \in retained : k[1] = p}

-----------------------------------------------------------------------------
(* Requests. *)

CanPut(p, o) == Serves(p, {"object_transfer"}) /\ ObjectFits(<<p, o>>)

PutObject(p, o) ==
    /\ CanPut(p, o)
    /\ objects' = objects \cup {<<p, o>>}
    /\ UNCHANGED <<retained, roots, nextRootSequence, providerVars, faultVars, controls>>

(* get_object answers with the bytes of o and changes nothing. *)
CanGet(p, o) == Serves(p, {"object_transfer"}) /\ OnlineHolders(p, o) # {}

(* The quota does not count against what is retained already. *)
WithinQuota(p, o) ==
    \/ <<p, o>> \in retained
    \/ quota[p] # None => Cardinality(RetainedBy(p)) < quota[p]

CanRetain(p, o) ==
    /\ Serves(p, {"availability", "object_transfer"})
    /\ p \notin blocked
    /\ WithinQuota(p, o)
    /\ OnlineHolders(p, o) # {}
    /\ ObjectFits(<<p, o>>)

(* Variant of RetainObject: the claim is recorded, the bytes are not copied. *)
RetainClaimOnly(p, o) ==
    /\ CanRetain(p, o)
    /\ retained' = retained \cup {<<p, o>>}
    /\ UNCHANGED <<objects, roots, nextRootSequence, providerVars, faultVars, controls>>

(* The bytes are copied into p's own store with the claim. *)
RetainObject(p, o) ==
    /\ CanRetain(p, o)
    /\ objects' = objects \cup {<<p, o>>}
    /\ retained' = retained \cup {<<p, o>>}
    /\ UNCHANGED <<roots, nextRootSequence, providerVars, faultVars, controls>>

(* The claim goes, the bytes stay. *)
ReleaseObject(p, o) ==
    /\ Serves(p, {"availability"})
    /\ retained' = retained \ {<<p, o>>}
    /\ UNCHANGED <<objects, roots, nextRootSequence, providerVars, faultVars, controls>>

(* verify_retained_object: a claim is checked against p's own bytes. *)
VerifyRetainedObject(p, o) ==
    [retained |-> <<p, o>> \in retained,
     available |-> IF <<p, o>> \in retained THEN <<p, o>> \in objects
                   ELSE OnlineHolders(p, o) # {}]

CanPublish(p, r, o) ==
    /\ Serves(p, {"mutable_roots"})
    /\ <<p, o>> \in objects
    /\ RootFits(<<r, p>>)

(* Variant of PublishRoot: every root counts its own publications. *)
PublishRootOwnSequence(p, r, o) ==
    /\ CanPublish(p, r, o)
    /\ nextRootSequence' = nextRootSequence + 1
    /\ roots' = [roots EXCEPT ![<<r, p>>] =
                    [object |-> o, sequence |-> IF @ = None THEN 1 ELSE @.sequence + 1]]
    /\ UNCHANGED <<objects, retained, providerVars, faultVars, controls>>

PublishRoot(p, r, o) ==
    /\ CanPublish(p, r, o)
    /\ nextRootSequence' = nextRootSequence + 1
    /\ roots' = [roots EXCEPT ![<<r, p>>] =
                    [object |-> o, sequence |-> nextRootSequence + 1]]
    /\ UNCHANGED <<objects, retained, providerVars, faultVars, controls>>

(* The publishers whose candidate for r reaches p, and those held back. *)
CandidatePublishers(r) ==
    {q \in Provider : /\ <<r, q>> \in PublishedRoots
                      /\ q \in Registered => "mutable_roots" \in Roles[q]}

VisibleCandidates(p, r) == {q \in CandidatePublishers(r) : RootAvailable(q, p, r)}

DelayedCandidates(p, r) == CandidatePublishers(r) \ VisibleCandidates(p, r)

(* latest_visible_root_candidate: what resolving r gives p. *)
LatestRoot(p, r) ==
    IF VisibleCandidates(p, r) = {} THEN None
    ELSE LET q == CHOOSE q \in VisibleCandidates(p, r) :
                     \A x \in VisibleCandidates(p, r) :
                        roots[<<r, x>>].sequence <= roots[<<r, q>>].sequence
         IN roots[<<r, q>>]

(* latest_object_provider_availability: the holders of o, by what keeps    *)
(* their bytes from p.                                                     *)
ObjectAvailability(p, o) ==
    LET holders == {q \in Provider : /\ <<q, o>> \in objects
                                     /\ q \in Registered => "object_transfer" \in Roles[q]}
        down    == {q \in holders \cap Registered : ~Online(q)}
        stale   == {q \in (holders \cap Registered) \ down : ~Fresh(q)}
        delayed == {q \in holders \ (down \cup stale) : ~TransferAvailable(q, p)}
    IN [available |-> holders \ (down \cup stale \cup delayed),
        offline |-> down, stale |-> stale, delayed |-> delayed]

(* online_retaining_provider_count counts these ... *)
OnlineRetaining(o) ==
    {q \in Provider : /\ <<q, o>> \in retained \cap objects
                      /\ FreshOnlineForRole(q, {"availability", "object_transfer"})}

(* ... and these are reported as retaining without bytes. *)
UnavailableRetaining(o) ==
    {q \in Provider : /\ <<q, o>> \in retained \ objects
                      /\ FreshOnlineForRole(q, {"availability", "object_transfer"})}

RootHealth(p, r, minimum) ==
    LET latest == LatestRoot(p, r)
        o == latest.object
    IN IF latest = None
       THEN [latest |-> None, available |-> FALSE, retaining |-> 0, degraded |-> TRUE]
       ELSE LET available == ObjectAvailability(p, o).available # {}
                retaining == Cardinality(OnlineRetaining(o))
            IN [latest |-> o, available |-> available, retaining |-> retaining,
                degraded |-> ~available \/ retaining = 0 \/ retaining < minimum]

(* discover_providers *)
DiscoveredProviders == {q \in Registered : Online(q) /\ Fresh(q)}

WithRole(R) == {q \in DiscoveredProviders : R \subseteq Roles[q]}

(* provider_health.  The service's own entry stands in when no provider is *)
(* registered, which no request of a registered provider sees.             *)
ProviderHealth ==
    [freshOnline |-> DiscoveredProviders,
     staleOnline |-> {q \in Registered : Online(q) /\ ~Fresh(q)},
     offline |-> {q \in Registered : ~Online(q)},
     degraded |-> \E R \in {{}, {"object_transfer"}, {"availability"}, {"mutable_roots"}} :
                     WithRole(R) = {}]

-----------------------------------------------------------------------------
(* Registration and the controls of the fixture. *)

Control == controls < MaxControls /\ controls' = controls + 1

(* next_provider_seen_sequence *)
Seen(p) ==
    /\ nextSeen' = nextSeen + 1
    /\ lastSeen' = [lastSeen EXCEPT ![p] = nextSeen + 1]
    /\ UNCHANGED <<storeVars, minimumSeen, faultVars>>

Register(p) == Control /\ ProviderFits(p) /\ Seen(p)

MarkProviderSeen(p) == Control /\ p \in Registered /\ Seen(p)

ExpireCurrentProviderFreshness ==
    /\ Control
    /\ minimumSeen' = nextSeen + 1
    /\ UNCHANGED <<storeVars, lastSeen, nextSeen, faultVars>>

(* A control sets or clears x in a set of faults; setting what is set is   *)
(* a stutter.                                                              *)
Flipped(S, x) == IF x \in S THEN S \ {x} ELSE S \cup {x}

SetProviderOnline(p) ==
    /\ Control
    /\ p \in Registered
    /\ offline' = Flipped(offline, p)
    /\ UNCHANGED <<storeVars, providerVars, delayedTransfers, delayedRoots, blocked,
                   quota, lost>>

SetProviderRetentionAvailable(p) ==
    /\ Control
    /\ p \in Registered
    /\ blocked' = Flipped(blocked, p)
    /\ UNCHANGED <<storeVars, providerVars, offline, delayedTransfers, delayedRoots,
                   quota, lost>>

SetProviderRetentionQuota(p) ==
    /\ Control
    /\ p \in Registered
    /\ \E n \in (Quotas \cup {None}) \ {quota[p]} : quota' = [quota EXCEPT ![p] = n]
    /\ UNCHANGED <<storeVars, providerVars, offline, delayedTransfers, delayedRoots,
                   blocked, lost>>

(* The bytes go, the claim stays. *)
RemoveProviderObjectBytes(p, o) ==
    /\ Control
    /\ p \in Registered
    /\ <<p, o>> \in objects
    /\ objects' = objects \ {<<p, o>>}
    /\ lost' = lost \cup {<<p, o>>}
    /\ UNCHANGED <<retained, roots, nextRootSequence, providerVars, offline,
                   delayedTransfers, delayedRoots, blocked, quota>>

SetProviderTransferAvailable(q, p) ==
    /\ Control
    /\ {q, p} \subseteq Registered
    /\ delayedTransfers' = Flipped(delayedTransfers, <<q, p>>)
    /\ UNCHANGED <<storeVars, providerVars, offline, delayedRoots, blocked, quota, lost>>

SetProviderRootAvailable(q, p, r) ==
    /\ Control
    /\ {q, p} \subseteq Registered
    /\ delayedRoots' = Flipped(delayedRoots, <<q, p, r>>)
    /\ UNCHANGED <<storeVars, providerVars, offline, delayedTransfers, blocked, quota,
                   lost>>

Request ==
    \E p \in Provider, o \in Object :
       \/ PutObject(p, o)
       \/ RetainObject(p, o)
       \/ ReleaseObject(p, o)
       \/ /\ nextRootSequence < MaxPublications
          /\ \E r \in Root : PublishRoot(p, r, o)

Fixture ==
    \/ \E p \in Provider :
          \/ Register(p)
          \/ MarkProviderSeen(p)
          \/ SetProviderOnline(p)
          \/ SetProviderRetentionAvailable(p)
          \/ SetProviderRetentionQuota(p)
          \/ \E o \in Object : RemoveProviderObjectBytes(p, o)
          \/ \E q \in Provider :
                \/ SetProviderTransferAvailable(q, p)
                \/ \E r \in Root : SetProviderRootAvailable(q, p, r)
    \/ ExpireCurrentProviderFreshness

Next == Request \/ Fixture

Spec == Init /\ [][Next]_serviceVars

-----------------------------------------------------------------------------

RootCandidate == [object : Object, sequence : 1..nextRootSequence]

TypeOK ==
    /\ objects \subseteq Provider \X Object
    /\ retained \subseteq Provider \X Object
    /\ lost \subseteq Provider \X Object
    /\ nextRootSequence \in Nat
    /\ roots \in [Root \X Provider -> RootCandidate \cup {None}]
    /\ lastSeen \in [Provider -> 0..nextSeen]
    /\ nextSeen \in Nat /\ minimumSeen \in 0..nextSeen + 1
    /\ offline \subseteq Provider /\ blocked \subseteq Provider
    /\ delayedTransfers \subseteq Provider \X Provider
    /\ delayedRoots \subseteq Provider \X Provider \X Root
    /\ quota \in [Provider -> Quotas \cup {None}]
    /\ controls \in 0..MaxControls

(***************************************************************************)
(* The store never grows past its capacity, whatever mixture of stored     *)
(* bytes, claims without bytes, roots and providers it holds: claims whose *)
(* bytes were lost still count, and a put or retain that gives them back   *)
(* their bytes is not a new reference                                      *)
(* (check_profile_sync_fixture_*_capacity).                                *)
(***************************************************************************)
WithinCapacity ==
    /\ MaxObjects # None => Cardinality(objects \cup retained) <= MaxObjects
    /\ MaxRoots # None => Cardinality(PublishedRoots) <= MaxRoots
    /\ MaxProviders # None => Cardinality(Registered) <= MaxProviders

(***************************************************************************)
(* No request leaves a claim without bytes or a root without its object:   *)
(* what a provider says it retains, and what it published a root for, it   *)
(* has, unless a fault removed the bytes afterwards (retain_object copies  *)
(* them, release_object keeps them, publish_root asks for them).           *)
(***************************************************************************)
ClaimsAreBacked ==
    /\ retained \ objects \subseteq lost
    /\ \A k \in PublishedRoots :
          <<k[2], roots[k].object>> \in objects \cup lost

(***************************************************************************)
(* What root_health reports about the newest object and what get_object    *)
(* does, computed by different functions of the service, agree: the object *)
(* is reported available exactly when the same provider can fetch it, and  *)
(* a root that is not degraded is one whose object can be fetched now and  *)
(* is held by the requested number of providers.                           *)
(***************************************************************************)
HealthAgreesWithFetch ==
    \A p \in Registered, r \in Root, minimum \in 0..Cardinality(Provider) :
       LET h == RootHealth(p, r, minimum)
       IN Serves(p, {"discovery", "object_transfer"}) /\ h.latest # None =>
             /\ h.available <=> CanGet(p, h.latest)
             /\ ~h.degraded =>
                   /\ CanGet(p, h.latest)
                   /\ Cardinality({q \in Provider : <<q, h.latest>> \in objects}) >= minimum

SequenceOf(c) == IF c = None THEN 0 ELSE c.sequence

(***************************************************************************)
(* The latest publication of a root wins, whoever made it: it is what every *)
(* requester it reaches resolves the root to at once, and no request, and  *)
(* no provider that comes or goes, takes a requester back to an older one; *)
(* only the control that holds candidates back does (publish_sequence is   *)
(* one counter for all roots and publishers).                              *)
(***************************************************************************)
RootsMoveForward ==
    [][\A p \in Provider, r \in Root :
          /\ delayedRoots' = delayedRoots =>
                SequenceOf(LatestRoot(p, r)) <= SequenceOf(LatestRoot(p, r)')
          /\ \A q \in Provider :
                roots'[<<r, q>>] # roots[<<r, q>>] /\ RootAvailable(q, p, r) =>
                   LatestRoot(p, r)' = roots'[<<r, q>>]]_serviceVars

=============================================================================
