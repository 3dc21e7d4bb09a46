------------------------------ MODULE SyncCycle ------------------------------
(***************************************************************************)
(* The settings sync cycle of crates/profile-sync over the tables of       *)
(* crates/storage: a device publishes its settings as a snapshot and a     *)
(* tail of changes behind its device head, and pulls the heads of the      *)
(* other devices.  Publishing reads the local changes with one query for   *)
(* each domain, while the user may go on changing settings, then uploads   *)
(* and at last records the upload in a local transaction; a crash may come *)
(* between any of them.  Applying a pulled head is one transaction.  The   *)
(* network may present any head a device ever published, not only the      *)
(* newest one.                                                             *)
(*                                                                         *)
(* Every write stores a text of its own, <<device, sequence>>, and a       *)
(* revision of settings_revisions is a position of the sequence revisions. *)
(* settings_values and applied_at follow from revisions: a row of it sets  *)
(* both.  A list of some of the revisions, or of values taken from them,   *)
(* is a function on their positions.  All domains are enabled and all      *)
(* devices trust each other.                                               *)
(***************************************************************************)
EXTENDS SettingsOrder, Sequences, FiniteSets, FiniteSetsExt, Functions

CONSTANTS Device,       \* device ids, as their ranks in string order
          Snapshot,     \* the rank of the pseudo-device "snapshot"
          Writers,      \* the devices on which a user changes settings
          Compactors,   \* the devices that run compaction
          Key,          \* (domain, key) pairs
          DomainOf,     \* the domain of each key, as its rank in string order
          None,         \* no root, no pending publication, no value
          MinTailChangeCount,  \* min_tail_change_count of the retention policy
          MaxWrites,    \* bound on the writes of one device
          MaxCrashes    \* bound on the crashes of all devices

ASSUME DeviceAssumption == Device \subseteq Int /\ Snapshot \in Int \ Device
ASSUME SubsetAssumption == Writers \subseteq Device /\ Compactors \subseteq Device
ASSUME DomainAssumption == Key \subseteq DOMAIN DomainOf
ASSUME RankAssumption == Range(DomainOf) \subseteq Int
ASSUME NoneAssumption == None \notin Device \X Nat
ASSUME BoundAssumption == /\ MaxWrites \in Nat /\ MaxCrashes \in Nat
                          /\ MinTailChangeCount \in Nat

VARIABLES log,            \* log[d]: settings_changes and settings_revisions
          snaps,          \* snaps[d]: settings_snapshots with their objects
          settingsRoot,   \* settingsRoot[d]: stored root of settings/latest
          headRoots,      \* headRoots[d][e]: stored head root of device e
          scan,           \* scan[d]: the queries of a publication, or None
          pending,        \* pending[d]: uploaded, not yet recorded
          published,      \* published[d]: the heads d ever published
          publications,   \* publications[d]: number of uploads, for object ids
          crashes

vars == <<log, snaps, settingsRoot, headRoots, scan, pending, published,
          publications, crashes>>

-----------------------------------------------------------------------------

Revisions(d) == log[d].revisions

Own(d, s) == Restrict(s, {i \in DOMAIN s : s[i].device = d})

LatestSequence(t, e) == Max({0} \cup {c.seq : c \in {x \in t.changes : x.device = e}})

(* Variant of ApplyChange: what comes last wins. *)
ApplyInArrivalOrder(t, c) ==
    IF \E x \in t.changes : x.device = c.device /\ x.seq = c.seq THEN t
    ELSE [changes |-> t.changes \cup {c}, revisions |-> Append(t.revisions, c)]

(* apply_sync_setting_text_in_transaction *)
ApplyChange(t, c) ==
    IF \E x \in t.changes : x.device = c.device /\ x.seq = c.seq THEN t
    ELSE [changes |-> t.changes \cup {c},
          revisions |-> IF SettingChangeWins(c, Range(t.revisions))
                        THEN Append(t.revisions, c) ELSE t.revisions]

(* Applies the changes of f one after the other. *)
ApplyAll(t, f) ==
    LET top == Max({0} \cup DOMAIN f)
        after[n \in 0..top] == IF n = 0 THEN t
                               ELSE IF n \in DOMAIN f THEN ApplyChange(after[n - 1], f[n])
                               ELSE after[n - 1]
    IN after[top]

(* The value of k in settings_values. *)
ValueOf(t, k) ==
    LET at == {i \in DOMAIN t.revisions : t.revisions[i].key = k}
    IN IF at = {} THEN None ELSE t.revisions[Max(at)].value

View(d, k) == ValueOf(log[d], k)

Domains(s) == {DomainOf[c.key] : c \in Range(s)}

(* The last value, up to revision n, of every key of the domains D. *)
SnapshotPayload(d, n, D) ==
    LET isLast(i) == /\ DomainOf[Revisions(d)[i].key] \in D
                     /\ \A j \in i+1 .. n : Revisions(d)[j].key # Revisions(d)[i].key
    IN [covers |-> n, domains |-> D,
        values |-> [i \in {j \in 1..n : isLast(j)} |->
                       [key |-> Revisions(d)[i].key, value |-> Revisions(d)[i].value]]]

(* A value of a snapshot enters as a change of the pseudo-device, with its *)
(* revision as sequence and clock.                                         *)
SnapshotChanges(s) ==
    [i \in DOMAIN s.values |->
        [key |-> s.values[i].key, value |-> s.values[i].value, device |-> Snapshot,
         seq |-> i, clock |-> i]]

(* Applying the manifest behind head h: its snapshot, then its tail. *)
ApplyManifest(t, h) == ApplyAll(ApplyAll(t, SnapshotChanges(h.snapshot)), h.tail)

ManifestChanges(h) == Range(SnapshotChanges(h.snapshot)) \cup Range(h.tail)

(* settings_snapshots is keyed by the covered revision. *)
RecordSyncSnapshots(S, T) == {x \in S : \A s \in T : x.covers # s.covers} \cup T

LatestCovers(d) == Max({0} \cup {s.covers : s \in snaps[d]})

LatestSyncSnapshot(d) == CHOOSE s \in snaps[d] : s.covers = LatestCovers(d)

(* What is in the table after the snapshot: the publication is decided on  *)
(* it, and the scan, which reads it domain by domain, may see more.        *)
EventsAfterSnapshot(d) ==
    Restrict(Revisions(d), LatestCovers(d) + 1 .. Len(Revisions(d)))

LocalTail(d) == Own(d, EventsAfterSnapshot(d))

(* latest_local_device_change_for_head *)
LatestTailSequence(d) == Max({c.seq : c \in Range(LocalTail(d))})

(* The events that the scan of d has read, and those its snapshot covers:  *)
(* when there is a tail, nothing is added to the latter any more.          *)
EventsRead(d) == Restrict(Revisions(d), scan[d].read)

CoveredEvents(d) ==
    Restrict(Revisions(d), {i \in 1..Len(Revisions(d)) : i <= LatestCovers(d)})

-----------------------------------------------------------------------------

Init == /\ log = [d \in Device |-> [changes |-> {}, revisions |-> << >>]]
        /\ snaps = [d \in Device |-> {}]
        /\ settingsRoot = [d \in Device |-> None]
        /\ headRoots = [d \in Device |-> [e \in Device |-> None]]
        /\ scan = [d \in Device |-> None]
        /\ pending = [d \in Device |-> None]
        /\ published = [d \in Device |-> {}]
        /\ publications = [d \in Device |-> 0]
        /\ crashes = 0

SetSyncSettingText(d, k) ==
    LET n == LatestSequence(log[d], d) + 1
        c == [key |-> k, value |-> <<d, n>>, device |-> d, seq |-> n,
              clock |-> Max({0} \cup {x.clock : x \in log[d].changes}) + 1]
    IN /\ n <= MaxWrites
       /\ log' = [log EXCEPT ![d] = [changes |-> @.changes \cup {c},
                                     revisions |-> Append(@.revisions, c)]]
       /\ UNCHANGED <<snaps, settingsRoot, headRoots, scan, pending, published,
                      publications, crashes>>


UpToDateBySnapshot(d) == snaps[d] # {} /\ DOMAIN LocalTail(d) = {}

(* publish_pending_local_settings_head has nothing to publish. *)
UpToDate(d) ==
    /\ snaps[d] # {}
    /\ \/ DOMAIN LocalTail(d) = {}
       \/ /\ headRoots[d][d] # None
          /\ headRoots[d][d].seq >= LatestTailSequence(d)

(* Variant of CoveredDomainsIncluded: the manifest is not validated. *)
NotValidated(d) == TRUE

(* The manifest is refused if the snapshot lacks a domain it covers. *)
CoveredDomainsIncluded(d) ==
    \A i \in 1..Len(Revisions(d)) :
       i <= LatestCovers(d)
          => DomainOf[Revisions(d)[i].key] \in LatestSyncSnapshot(d).domains

(* A publication begins: without a snapshot with everything there is, else *)
(* with the tail, if it is not published yet and the manifest will be      *)
(* valid.  before is the last revision there was at the first query.       *)
BeginScan(d) ==
    /\ pending[d] = None /\ scan[d] = None
    /\ snaps[d] # {} => ~UpToDate(d) /\ CoveredDomainsIncluded(d)
    /\ scan' = [scan EXCEPT ![d] = [left |-> Range(DomainOf), read |-> {},
                                    before |-> Len(Revisions(d))]]
    /\ UNCHANGED <<log, snaps, settingsRoot, headRoots, pending, published,
                   publications, crashes>>

(* The query for the next domain. *)
ReadDomain(d) ==
    /\ scan[d] # None /\ scan[d].left # {}
    /\ LET domain == Min(scan[d].left)
           events == {i \in LatestCovers(d) + 1 .. Len(Revisions(d)) :
                         DomainOf[Revisions(d)[i].key] = domain}
       IN scan' = [scan EXCEPT ![d] = [left |-> @.left \ {domain},
                                       read |-> @.read \cup events, before |-> @.before]]
    /\ UNCHANGED <<log, snaps, settingsRoot, headRoots, pending, published,
                   publications, crashes>>

ScanEnded(d) == scan[d] # None /\ scan[d].left = {}

(* Nothing of the device's own was read: there is nothing to publish. *)
NothingToPublish(d) ==
    /\ ScanEnded(d)
    /\ DOMAIN Own(d, EventsRead(d)) = {}
    /\ scan' = [scan EXCEPT ![d] = None]
    /\ UNCHANGED <<log, snaps, settingsRoot, headRoots, pending, published,
                   publications, crashes>>

(* The upload: the objects, the root, and the head if there is one. *)
Upload(d, newSnaps, newHeads) ==
    /\ published' = [published EXCEPT ![d] = @ \cup newHeads]
    /\ publications' = [publications EXCEPT ![d] = @ + 1]
    /\ pending' = [pending EXCEPT ![d] = [snaps |-> newSnaps, heads |-> newHeads,
                                          id |-> <<d, publications[d] + 1>>]]
    /\ scan' = [scan EXCEPT ![d] = None]
    /\ UNCHANGED <<log, snaps, settingsRoot, headRoots, crashes>>

(* The own sequences of what the manifest covers and of its tail: the      *)
(* head's sequence is the latest of them.                                  *)
OwnSequences(d) ==
    {c.seq : c \in {x \in Range(CoveredEvents(d)) \cup Range(EventsRead(d)) :
                       x.device = d}}

DeviceHead(d, s, tail) ==
    [device |-> d, seq |-> Max(OwnSequences(d)),
     before |-> scan[d].before, id |-> <<d, publications[d] + 1>>,
     snapshot |-> s, tail |-> tail]

(* The first snapshot, up to the last event that was read and with the     *)
(* domains that were met.                                                  *)
FullSnapshot(d) ==
    SnapshotPayload(d, Max(scan[d].read), Domains(EventsRead(d)))

PublishFullSnapshotHead(d) ==
    /\ ScanEnded(d)
    /\ snaps[d] = {}
    /\ DOMAIN Own(d, EventsRead(d)) # {}
    /\ Upload(d, {FullSnapshot(d)}, {DeviceHead(d, FullSnapshot(d), << >>)})

PublishTailHead(d) ==
    /\ ScanEnded(d)
    /\ snaps[d] # {}
    /\ DOMAIN Own(d, EventsRead(d)) # {}
    /\ Upload(d, {}, {DeviceHead(d, LatestSyncSnapshot(d), Own(d, EventsRead(d)))})

(* The n oldest events since the last snapshot are old enough to compact. *)
CompactAndPublishSettings(d, n) ==
    /\ pending[d] = None /\ scan[d] = None
    /\ LatestCovers(d) + n + MinTailChangeCount <= Len(Revisions(d))
    /\ Upload(d, {SnapshotPayload(d, LatestCovers(d) + n,
                                  Domains(Restrict(Revisions(d),
                                             LatestCovers(d) + 1 .. LatestCovers(d) + n)))}, {})

(* The local transaction that follows an upload. *)
RecordPublication(d) ==
    /\ pending[d] # None
    /\ snaps' = [snaps EXCEPT ![d] = RecordSyncSnapshots(@, pending[d].snaps)]
    /\ settingsRoot' = [settingsRoot EXCEPT ![d] = pending[d].id]
    /\ headRoots' = [headRoots EXCEPT ![d][d] =
                        IF pending[d].heads = {} THEN @
                        ELSE CHOOSE h \in pending[d].heads : TRUE]
    /\ pending' = [pending EXCEPT ![d] = None]
    /\ UNCHANGED <<log, scan, published, publications, crashes>>

(* The process ends, or a query, the upload or the transaction fails. *)
Crash(d) ==
    /\ scan[d] # None \/ pending[d] # None
    /\ crashes < MaxCrashes
    /\ crashes' = crashes + 1
    /\ scan' = [scan EXCEPT ![d] = None]
    /\ pending' = [pending EXCEPT ![d] = None]
    /\ UNCHANGED <<log, snaps, settingsRoot, headRoots, published, publications>>

(* h is older than what d has applied of its device. *)
StaleHead(d, h) ==
    LET latest == LatestSequence(log[d], h.device)
    IN /\ headRoots[d][h.device] # h
       /\ latest > 0
       /\ \/ latest > h.seq
          \/ latest = h.seq /\ headRoots[d][h.device] # None

HeadUnchanged(d, h) == headRoots[d][h.device] = h /\ settingsRoot[d] = h.id

(* Variant of PullDeviceHead: a device that has a snapshot skips the next. *)
PullTailOnly(d, h) ==
    /\ h.device # d
    /\ pending[d] = None /\ scan[d] = None
    /\ ~StaleHead(d, h)
    /\ ~HeadUnchanged(d, h)
    /\ log' = [log EXCEPT ![d] =
                  IF snaps[d] = {} THEN ApplyManifest(@, h) ELSE ApplyAll(@, h.tail)]
    /\ snaps' = [snaps EXCEPT ![d] = RecordSyncSnapshots(@, {h.snapshot})]
    /\ settingsRoot' = [settingsRoot EXCEPT ![d] = h.id]
    /\ headRoots' = [headRoots EXCEPT ![d][h.device] = h]
    /\ UNCHANGED <<scan, pending, published, publications, crashes>>

PullDeviceHead(d, h) ==
    /\ h.device # d
    /\ pending[d] = None /\ scan[d] = None
    /\ ~StaleHead(d, h)
    /\ ~HeadUnchanged(d, h)
    /\ log' = [log EXCEPT ![d] = ApplyManifest(@, h)]
    /\ snaps' = [snaps EXCEPT ![d] = RecordSyncSnapshots(@, {h.snapshot})]
    /\ settingsRoot' = [settingsRoot EXCEPT ![d] = h.id]
    /\ headRoots' = [headRoots EXCEPT ![d][h.device] = h]
    /\ UNCHANGED <<scan, pending, published, publications, crashes>>

Next == \E d \in Device :
           \/ d \in Writers /\ \E k \in Key : SetSyncSettingText(d, k)
           \/ d \in Writers /\ BeginScan(d)   \* elsewhere it finds nothing
           \/ ReadDomain(d)
           \/ NothingToPublish(d)
           \/ PublishFullSnapshotHead(d)
           \/ PublishTailHead(d)
           \/ d \in Compactors
              /\ \E n \in 1..Len(Revisions(d)) : CompactAndPublishSettings(d, n)
           \/ RecordPublication(d)
           \/ Crash(d)
           \/ \E e \in Device : \E h \in published[e] : PullDeviceHead(d, h)

Spec == Init /\ [][Next]_vars

NewestHead(e, h) == \A g \in published[e] : g.id[2] <= h.id[2]

(* A device runs sync cycles for as long as it lives: it publishes what is *)
(* pending and pulls the heads that its peers' roots resolve to.           *)
RunsCycles(d) ==
    /\ WF_vars(d \in Writers /\ BeginScan(d))
    /\ WF_vars(ReadDomain(d))
    /\ WF_vars(NothingToPublish(d))
    /\ WF_vars(PublishFullSnapshotHead(d))
    /\ WF_vars(PublishTailHead(d))
    /\ WF_vars(RecordPublication(d))
    /\ \A e \in Device :
          WF_vars(\E h \in published[e] : NewestHead(e, h) /\ PullDeviceHead(d, h))

FairSpec == Spec /\ \A d \in Device : RunsCycles(d)

-----------------------------------------------------------------------------

Change == [key : Key, value : Device \X (1..MaxWrites), device : Device \cup {Snapshot},
           seq : Nat \ {0}, clock : Nat \ {0}]

IsSnapshot(s) == /\ s.covers \in Nat
                 /\ s.domains \subseteq Range(DomainOf)
                 /\ Range(SnapshotChanges(s)) \subseteq Change

IsHead(h) == /\ h.device \in Device
             /\ h.seq \in 1..MaxWrites
             /\ h.before \in Nat
             /\ h.id \in {h.device} \X (Nat \ {0})
             /\ IsSnapshot(h.snapshot)
             /\ \A c \in Range(h.tail) : c \in Change /\ c.device = h.device

TypeOK ==
    /\ \A d \in Device :
          /\ Range(Revisions(d)) \subseteq log[d].changes
          /\ log[d].changes \subseteq Change
          /\ \A s \in snaps[d] : IsSnapshot(s)
          /\ \A h \in published[d] : IsHead(h) /\ h.device = d
          /\ \A e \in Device : headRoots[d][e] \in published[e] \cup {None}
          /\ scan[d] # None => /\ pending[d] = None
                               /\ scan[d].left \subseteq Range(DomainOf)
                               /\ scan[d].read \subseteq DOMAIN Revisions(d)
                               /\ scan[d].before \in 0..Len(Revisions(d))
          /\ pending[d] # None => pending[d].heads \subseteq published[d]
    /\ settingsRoot \in [Device -> (Device \X Nat) \cup {None}]
    /\ publications \in [Device -> Nat]
    /\ crashes \in 0..MaxCrashes

(***************************************************************************)
(* A device never publishes what it has already recorded as published: a   *)
(* new head is ahead of the stored own head root, and never behind any     *)
(* head of the device, the lost ones included                              *)
(* (publish_pending_local_settings_head).                                  *)
(***************************************************************************)
PublishesForward ==
    [][\A d \in Device : \A h \in published'[d] \ published[d] :
          /\ headRoots[d][d] # None => headRoots[d][d].seq < h.seq
          /\ \A g \in published[d] : g.seq <= h.seq]_vars

(* v is the write w, or a later one of the same device. *)
AtLeast(v, w) == v # None /\ v[1] = w[1] /\ v[2] >= w[2]

(***************************************************************************)
(* A head carries its device's history: a device that starts from nothing  *)
(* and applies the manifest behind a head ends with every setting the      *)
(* publisher had changed before it began to read the domains, whether the  *)
(* snapshot or the tail holds it.  A change made while the domains are     *)
(* read one by one need not be in the manifest, even if the head's         *)
(* sequence covers it (enabled_settings_sync_text_events_after).           *)
(***************************************************************************)
HeadCarriesHistory ==
    \A e \in Device : \A h \in published[e] :
       \A i \in 1..h.before :
          LET c == Revisions(e)[i]
          IN c.device = e => \E x \in ManifestChanges(h) :
                               x.key = c.key /\ AtLeast(x.value, c.value)

(***************************************************************************)
(* A stored head root has taken effect: the view is at least as new as     *)
(* what the manifest behind it carries, for every key                      *)
(* (the root moves in the transaction that applies the manifest).          *)
(***************************************************************************)
HeadRootTakesEffect ==
    \A d, e \in Device : headRoots[d][e] # None =>
       \A x \in ManifestChanges(headRoots[d][e]) :
          AtLeast(View(d, x.key), x.value)

(***************************************************************************)
(* What a device shows never goes back to an older write, whatever old     *)
(* heads the network presents and whatever the publisher lost in a crash.  *)
(***************************************************************************)
ViewMovesForward ==
    [][\A d \in Device, k \in Key :
          View(d, k) # None => AtLeast(View(d, k)', View(d, k))]_vars

(* The last value of k was written while the scan of w's newest head ran,  *)
(* and the head's sequence covers it: no later cycle publishes it again.   *)
WrittenDuringScan(w, k) ==
    \E h \in published[w] : /\ NewestHead(w, h)
                            /\ \E i \in h.before + 1 .. Len(Revisions(w)) :
                                  LET c == Revisions(w)[i]
                                  IN c.key = k /\ c.value = View(w, k) /\ c.seq <= h.seq


OwnChangesPublished(d) ==
    LatestSequence(log[d], d) > 0 =>
       \E h \in published[d] : h.seq = LatestSequence(log[d], d)

(* Everything written is in a published head, and every device has pulled  *)
(* the newest head of every other.                                         *)
Quiescent ==
    \A d \in Device :
       /\ OwnChangesPublished(d)
       /\ \A e \in Device \ {d} : published[e] # {} =>
             headRoots[d][e] # None /\ NewestHead(e, headRoots[d][e])

(***************************************************************************)
(* Devices that have published all their changes and have pulled each      *)
(* other's newest heads show the same settings: which of two changes wins  *)
(* depends on the changes alone, not on who published and pulled first.    *)
(***************************************************************************)
QuiescentConverged ==
    Quiescent => \A d, e \in Device, k \in Key : View(d, k) = View(e, k)

(***************************************************************************)
(* A snapshot holds the last value, at the revision it covers, of every    *)
(* setting changed up to then.                                             *)
(***************************************************************************)
SnapshotIsComplete ==
    \A d \in Writers : \A s \in snaps[d] :
       s.values = SnapshotPayload(d, s.covers, Range(DomainOf)).values

=============================================================================
