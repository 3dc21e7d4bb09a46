------------------------------ MODULE RootPull ------------------------------
(***************************************************************************)
(* The shared root settings/latest on top of the sync cycle: every         *)
(* publication of a device also makes it the publisher of a candidate for  *)
(* that root, and a device lists the candidates, verifies them all,        *)
(* leaves out those whose frontiers it has reached, and applies the rest   *)
(* in the order of their publication, in one transaction each.  The        *)
(* network may show any manifest a device ever published, or none, and in  *)
(* any order, since a root that is presented again is a new publication.   *)
(***************************************************************************)
EXTENDS SyncCycle, SequencesExt

CONSTANTS Pullers,        \* the devices that follow the shared root
          MaxCandidates   \* bound on the candidates of one listing

ASSUME PullersAssumption == Pullers \subseteq Device /\ MaxCandidates \in Nat

VARIABLES shared,   \* shared[d]: the manifests d published, in order
          todo      \* todo[d]: the candidates of a listing still to be applied

pullVars == <<vars, shared, todo>>

RootInit == /\ Init
            /\ shared = [d \in Device |-> << >>]
            /\ todo = [d \in Device |-> << >>]

-----------------------------------------------------------------------------
(* Publishing. *)

(* Variant of Frontiers: sequences are counted from zero. *)
FrontiersFromZero(changes) ==
    [e \in {c.device : c \in changes} |->
        Max({c.seq - 1 : c \in {x \in changes : x.device = e}})]

(* upsert_device_frontier over changes: the latest sequence of each device. *)
Frontiers(changes) ==
    [e \in {c.device : c \in changes} |->
        Max({c.seq : c \in {x \in changes : x.device = e}})]

(* The manifest a publication puts behind the root. *)
Share(d, s, covered, tail) ==
    /\ DOMAIN todo[d] = {}
    /\ shared' = [shared EXCEPT ![d] =
                     Append(@, [id |-> <<d, publications[d] + 1>>, snapshot |-> s,
                                tail |-> tail,
                                frontiers |-> Frontiers(Range(covered) \cup Range(tail))])]
    /\ UNCHANGED todo

ShareFullSnapshot(d) ==
    /\ PublishFullSnapshotHead(d)
    /\ Share(d, FullSnapshot(d), EventsRead(d), << >>)

ShareTail(d) ==
    /\ PublishTailHead(d)
    /\ Share(d, LatestSyncSnapshot(d), CoveredEvents(d), Own(d, EventsRead(d)))

(* The manifest of a compaction carries the changes of every device. *)
ShareCompaction(d, n) ==
    LET covers == LatestCovers(d) + n
        covered == Restrict(Revisions(d), LatestCovers(d) + 1 .. covers)
    IN /\ CompactAndPublishSettings(d, n)
       /\ Share(d, SnapshotPayload(d, covers, Domains(covered)), covered,
                Restrict(Revisions(d), covers + 1 .. Len(Revisions(d))))

-----------------------------------------------------------------------------
(* Pulling. *)

Manifests == UNION {Range(shared[e]) : e \in Device}

(* What a pull may be shown: the storage looks at the signer and at the    *)
(* order of the candidates, not at who serves them.                        *)
Listings ==
    {s \in UNION {[1..n -> Manifests] : n \in 1..MaxCandidates} : IsInjective(s)}

(* Variant of LocallyCovered: devices without a local change do not count. *)
CoveredWhereKnown(d, m) ==
    /\ DOMAIN m.frontiers # {}
    /\ \A e \in DOMAIN m.frontiers :
          LatestSequence(log[d], e) = 0 \/ LatestSequence(log[d], e) >= m.frontiers[e]

(* settings_manifest_frontiers_locally_covered *)
LocallyCovered(d, m) ==
    /\ DOMAIN m.frontiers # {}
    /\ \A e \in DOMAIN m.frontiers : LatestSequence(log[d], e) >= m.frontiers[e]

(* Without a stored root everything is applied. *)
ToApply(d, list) ==
    Restrict(list, {i \in DOMAIN list :
                       settingsRoot[d] = None \/ ~LocallyCovered(d, list[i])})

(* Variant of PullUnchanged: a device that has a root keeps it. *)
PullUnchangedOnceRooted(d, list) == settingsRoot[d] # None

(* Unchanged: the newest candidate is the stored root, or all are covered. *)
PullUnchanged(d, list) ==
    Last(list).id = settingsRoot[d] \/ DOMAIN ToApply(d, list) = {}

(* Listing, verifying and choosing, which change nothing; that one of the  *)
(* candidates cannot be fetched or verified ends the pull here.            *)
PullCandidates(d, list) ==
    /\ pending[d] = None /\ scan[d] = None /\ DOMAIN todo[d] = {}
    /\ ~PullUnchanged(d, list)
    /\ todo' = [todo EXCEPT ![d] = ToApply(d, list)]
    /\ UNCHANGED <<vars, shared>>

NextCandidate(d) == todo[d][Min(DOMAIN todo[d])]

AfterNext(d) == Restrict(todo[d], DOMAIN todo[d] \ {Min(DOMAIN todo[d])})

(* Variant of ApplyCandidate: a device that has a snapshot skips the next. *)
ApplyCandidateTailOnly(d) ==
    /\ DOMAIN todo[d] # {}
    /\ LET m == NextCandidate(d)
       IN /\ log' = [log EXCEPT ![d] =
                        IF snaps[d] = {} THEN ApplyManifest(@, m) ELSE ApplyAll(@, m.tail)]
          /\ snaps' = [snaps EXCEPT ![d] = RecordSyncSnapshots(@, {m.snapshot})]
          /\ settingsRoot' = [settingsRoot EXCEPT ![d] = m.id]
    /\ todo' = [todo EXCEPT ![d] = AfterNext(d)]
    /\ UNCHANGED <<headRoots, scan, pending, published, publications, crashes, shared>>

(* One transaction of apply_verified_settings_manifest_candidates. *)
ApplyCandidate(d) ==
    /\ DOMAIN todo[d] # {}
    /\ LET m == NextCandidate(d)
       IN /\ log' = [log EXCEPT ![d] = ApplyManifest(@, m)]
          /\ snaps' = [snaps EXCEPT ![d] = RecordSyncSnapshots(@, {m.snapshot})]
          /\ settingsRoot' = [settingsRoot EXCEPT ![d] = m.id]
    /\ todo' = [todo EXCEPT ![d] = AfterNext(d)]
    /\ UNCHANGED <<headRoots, scan, pending, published, publications, crashes, shared>>

(* A transaction fails, or the process ends: the earlier ones stay. *)
PullFails(d) ==
    /\ DOMAIN todo[d] # {}
    /\ crashes < MaxCrashes
    /\ crashes' = crashes + 1
    /\ todo' = [todo EXCEPT ![d] = << >>]
    /\ UNCHANGED <<log, snaps, settingsRoot, headRoots, scan, pending, published,
                   publications, shared>>

-----------------------------------------------------------------------------

Scans(d) == /\ \/ d \in Writers /\ DOMAIN todo[d] = {} /\ BeginScan(d)
               \/ ReadDomain(d)
               \/ NothingToPublish(d)
            /\ UNCHANGED <<shared, todo>>

RootNext ==
    \E d \in Device :
       \/ /\ d \in Writers /\ \E k \in Key : SetSyncSettingText(d, k)
          /\ UNCHANGED <<shared, todo>>
       \/ Scans(d)
       \/ ShareFullSnapshot(d)
       \/ ShareTail(d)
       \/ d \in Compactors /\ \E n \in 1..Len(Revisions(d)) : ShareCompaction(d, n)
       \/ (RecordPublication(d) \/ Crash(d)) /\ UNCHANGED <<shared, todo>>
       \/ d \in Pullers /\ \E list \in Listings : PullCandidates(d, list)
       \/ ApplyCandidate(d)
       \/ PullFails(d)

RootSpec == RootInit /\ [][RootNext]_pullVars

(* The newest publications are among the candidates, and come last. *)
CurrentListing(list) ==
    \E d \in Device : shared[d] # << >> /\ Last(list) = Last(shared[d])

(* A device publishes and pulls for as long as it lives, and among its     *)
(* pulls there are always again some that are shown the current listing.   *)
FollowsRoot(d) ==
    /\ WF_pullVars(Scans(d))
    /\ WF_pullVars(ShareFullSnapshot(d))
    /\ WF_pullVars(ShareTail(d))
    /\ WF_pullVars(RecordPublication(d) /\ UNCHANGED <<shared, todo>>)
    /\ d \in Pullers =>
          SF_pullVars(\E list \in Listings : CurrentListing(list) /\ PullCandidates(d, list))
    /\ WF_pullVars(ApplyCandidate(d))

FairRootSpec == RootSpec /\ \A d \in Device : FollowsRoot(d)

-----------------------------------------------------------------------------

RootTypeOK ==
    /\ TypeOK
    /\ \A d \in Device :
          /\ Range(todo[d]) \subseteq Manifests
          /\ DOMAIN todo[d] # {} => pending[d] = None /\ scan[d] = None
          /\ \A i \in DOMAIN shared[d] :
                LET m == shared[d][i]
                IN /\ m.id = <<d, i>>
                   /\ IsSnapshot(m.snapshot)
                   /\ DOMAIN m.frontiers \subseteq Device \cup {Snapshot}
                   /\ Range(m.frontiers) \subseteq Nat \ {0}

Shows(d, m) == \A x \in ManifestChanges(m) : AtLeast(View(d, x.key), x.value)

(***************************************************************************)
(* A candidate that is left out has nothing to offer: once a device has a  *)
(* root and has reached all frontiers of a manifest, whatever it was shown *)
(* in between and wherever an earlier pull broke off, it shows values at   *)
(* least as new as the manifest's                                          *)
(* (settings_manifest_frontiers_locally_covered looks at the latest        *)
(* sequences only, and values of a snapshot leave none).                   *)
(***************************************************************************)
CoveredIsShown ==
    \A d \in Device, m \in Manifests :
       settingsRoot[d] # None /\ LocallyCovered(d, m) => Shows(d, m)

(***************************************************************************)
(* The stored shared root has taken effect, also when the candidates after *)
(* it failed: the pull that finds it unchanged misses nothing of it.       *)
(***************************************************************************)
SharedRootTakesEffect ==
    \A d \in Device, m \in Manifests : settingsRoot[d] = m.id => Shows(d, m)

(***************************************************************************)
(* The shared root alone is enough: a device that never sees a device head *)
(* ends up with the writer's settings.                                     *)
(***************************************************************************)
EventuallyRecovered ==
    <>[](\A d \in Device, w \in Writers, k \in Key : View(d, k) = View(w, k))

=============================================================================
