--------------------------- MODULE RetentionCycle ---------------------------
(***************************************************************************)
(* The retention scheduler of crates/profile-sync on top of the            *)
(* profile-sync service: one device runs sync cycles and compaction ticks, *)
(* each a sequence of requests to its own service and to the selected      *)
(* retention providers, while the user edits settings, providers fail      *)
(* between any two requests and the device's process may stop.  A change   *)
(* is its device sequence, which is also its revision: no other device     *)
(* publishes in the profile, so there are no changes or snapshots of       *)
(* others in the database.  An object is its kind and the number of the    *)
(* publication that made it (a new encryption gives a new object id); the  *)
(* tail change objects of a publication are one object.                    *)
(***************************************************************************)
EXTENDS ProfileSyncService, Sequences, Functions, FiniteSetsExt

CONSTANTS Device,            \* the provider id of the device
          Handles,           \* provider ids of the retention handles, in order
          SettingsRoot, HeadRoot,
          MinimumRetaining,  \* policy.minimum_online_retaining_providers
          MaxPublishSteps,   \* policy.max_publish_steps
          DomainOf,          \* the domain of each change, as its rank in string order
          MaxEdits,          \* bound on local changes
          MaxAttempts        \* bound on publications begun

ASSUME CycleAssumption ==
    /\ Device \in Provider
    /\ Handles \in Seq(Provider \ {Device}) /\ IsInjective(Handles)
    /\ Root = {SettingsRoot, HeadRoot} /\ SettingsRoot # HeadRoot
    /\ Object = {"snapshot", "tails", "manifest", "head"} \X (1..MaxAttempts)
    /\ {MinimumRetaining, MaxPublishSteps, MaxEdits, MaxAttempts} \subseteq Nat
    /\ DomainOf \in [1..MaxEdits -> Nat]

VARIABLES edits,     \* the device sequence of the latest local change
          db,        \* what the database records of snapshot and roots
          attempts,  \* number of publications begun
          contents,  \* contents[n]: what publication n refers to and carries
          run,       \* the cycle or compaction tick in progress
          outcome    \* how the last one ended

deviceVars == <<edits, db, attempts, contents, run, outcome>>
vars == <<serviceVars, deviceVars>>

NoRun == [pc |-> "idle", kind |-> "cycle", since |-> 0, selected |-> {}, steps |-> 0,
          latest |-> 0, ids |-> <<>>, next |-> None, todo |-> <<>>,
          left |-> {}, read |-> {}, before |-> 0]

(* The service when every provider has registered, in some order. *)
CycleInit ==
    /\ objects = {} /\ retained = {} /\ lost = {}
    /\ roots = [k \in Root \X Provider |-> None]
    /\ nextRootSequence = 0
    /\ lastSeen = CHOOSE f \in [Provider -> 1..Cardinality(Provider)] : IsInjective(f)
    /\ nextSeen = Cardinality(Provider) /\ minimumSeen = 0
    /\ offline = {} /\ delayedTransfers = {} /\ delayedRoots = {} /\ blocked = {}
    /\ quota = [p \in Provider |-> None]
    /\ controls = 0
    /\ edits = 0
    /\ db = [snapshot |-> None, covers |-> 0, domains |-> {}, settings |-> None,
             head |-> None, sequence |-> 0]
    /\ attempts = 0
    /\ contents = <<>>
    /\ run = NoRun
    /\ outcome = None

(* A run ends with an error (None) or Ok, of which the kind of the run and *)
(* the changes there were at its beginning are kept.                       *)
Fail == run' = NoRun /\ outcome' = None

Ok == run' = NoRun /\ outcome' = [kind |-> run.kind, since |-> run.since]

-----------------------------------------------------------------------------
(* Requests as data: a publication is a sequence of them. *)

Req(op, p, o) == [op |-> op, provider |-> p, object |-> o, root |-> None]

PutRetained(o) == <<Req("put", Device, o), Req("retain", Device, o)>>

PutRetainedRoot(r, o) ==
    Append(PutRetained(o), [op |-> "publish", provider |-> Device, object |-> o, root |-> r])

Succeeds(c) ==
    CASE c.op = "put"     -> CanPut(c.provider, c.object)
      [] c.op = "get"     -> CanGet(c.provider, c.object)
      [] c.op = "retain"  -> CanRetain(c.provider, c.object)
      [] c.op = "publish" -> CanPublish(c.provider, c.root, c.object)

Perform(c) ==
    \/ c.op = "put" /\ PutObject(c.provider, c.object)
    \/ c.op = "retain" /\ RetainObject(c.provider, c.object)
    \/ c.op = "publish" /\ PublishRoot(c.provider, c.root, c.object)
    \/ c.op = "get" /\ Succeeds(c) /\ UNCHANGED serviceVars

Request1 ==
    /\ run.todo # <<>>
    /\ Perform(Head(run.todo))
    /\ run' = [run EXCEPT !.todo = Tail(@)]
    /\ UNCHANGED <<edits, db, attempts, contents, outcome>>

(* A request's error ends the run; what was done before it stays done. *)
RequestFails ==
    /\ run.todo # <<>>
    /\ ~Succeeds(Head(run.todo))
    /\ Fail
    /\ UNCHANGED <<serviceVars, edits, db, attempts, contents>>

-----------------------------------------------------------------------------
(* Preflight and the selection of retention providers. *)

StartRun(kind) ==
    /\ run.pc = "idle"
    /\ run' = [NoRun EXCEPT !.pc = "preflight", !.kind = kind, !.since = edits]
    /\ outcome' = None
    /\ UNCHANGED <<serviceVars, edits, db, attempts, contents>>

(* provider_health and check_before_cycle.  The two root health requests   *)
(* beside it are only reported.                                            *)
Preflight ==
    /\ run.pc = "preflight"
    /\ IF Serves(Device, {"discovery"}) /\ ~ProviderHealth.degraded
       THEN run' = [run EXCEPT !.pc = "select"] /\ UNCHANGED outcome
       ELSE Fail
    /\ UNCHANGED <<serviceVars, edits, db, attempts, contents>>

(* The positions of the handles that are selected. *)
Selected ==
    {i \in DOMAIN Handles : Handles[i] \in WithRole({"availability", "object_transfer"})}

(* A handle that is known but stale, offline or without the roles refuses  *)
(* the run; one that is not known is left out.                             *)
Select ==
    /\ run.pc = "select"
    /\ IF /\ Serves(Device, {"discovery"})
          /\ \A i \in DOMAIN Handles : Handles[i] \in Registered => i \in Selected
          /\ Cardinality(Selected) + 1 >= MinimumRetaining
       THEN /\ run' = [run EXCEPT !.pc = IF run.kind = "cycle" THEN "publish" ELSE "compact",
                                  !.selected = Selected]
            /\ UNCHANGED outcome
       ELSE Fail
    /\ UNCHANGED <<serviceVars, edits, db, attempts, contents>>

-----------------------------------------------------------------------------
(* Publishing local changes. *)

Manifest(n) == <<"manifest", n>>

(* push_unique_object_id *)
PushUnique(ids, o) == IF o \in Range(ids) THEN ids ELSE Append(ids, o)

Domains(changes) == {DomainOf[i] : i \in changes}

(* The changes up to c in the domains D: what a snapshot of them carries.  *)
InDomains(D, c) == {i \in 1..c : DomainOf[i] \in D}

(* What publication n is made of: the objects its manifest refers to, the  *)
(* changes it carries, the last of them, the last one there was when they  *)
(* began to be read, and those that its snapshot omits.                    *)
Content(refs, carries, covers, before, omits) ==
    [refs |-> refs, carries |-> carries, covers |-> covers, before |-> before, omits |-> omits]

(* Begins publication n: the requests it takes, the objects that are then  *)
(* to hand to the providers, what it is made of and what it records at     *)
(* last.                                                                   *)
Publish(requests, ids, content, next) ==
    /\ attempts < MaxAttempts
    /\ attempts' = attempts + 1
    /\ contents' = Append(contents, content)
    /\ run' = [run EXCEPT !.pc = "publishing", !.todo = requests, !.next = next, !.ids = ids,
                          !.read = {}, !.before = 0]
    /\ UNCHANGED <<edits, db, outcome>>

(* Variant of SettingsThenHead: the head goes out before the manifest. *)
HeadThenSettings(before, n) ==
    before \o PutRetainedRoot(HeadRoot, <<"head", n>>)
           \o PutRetainedRoot(SettingsRoot, Manifest(n))

SettingsThenHead(before, n) ==
    before \o PutRetainedRoot(SettingsRoot, Manifest(n))
           \o PutRetainedRoot(HeadRoot, <<"head", n>>)

(* Variant of PublishedObjectIds: the roots' objects first. *)
RootObjectsFirst(ids, n) == <<<<"head", n>>, Manifest(n)>> \o ids

(* published_object_ids: after the dependencies the manifest, then the head. *)
PublishedObjectIds(ids, n) == PushUnique(PushUnique(ids, Manifest(n)), <<"head", n>>)

(* The snapshot takes the domains that were met, up to the last change     *)
(* that was read.                                                          *)
PublishFullSnapshot(last) ==
    LET n == attempts + 1
        S == <<"snapshot", n>>
    IN Publish(SettingsThenHead(PutRetained(S), n),
               PublishedObjectIds(PushUnique(run.ids, S), n),
               Content(<<S>>, InDomains(Domains(run.read), last), last, run.before, {}),
               [snapshot |-> S, covers |-> last, domains |-> Domains(run.read),
                settings |-> Manifest(n), head |-> <<"head", n>>, sequence |-> last])

PublishTail(last) ==
    LET n == attempts + 1
        T == <<"tails", n>>
    IN Publish(SettingsThenHead(<<Req("retain", Device, db.snapshot)>> \o PutRetained(T), n),
               PublishedObjectIds(PushUnique(PushUnique(run.ids, db.snapshot), T), n),
               Content(<<db.snapshot, T>>, InDomains(db.domains, db.covers) \cup run.read,
                       last, run.before, {}),
               [db EXCEPT !.settings = Manifest(n), !.head = <<"head", n>>, !.sequence = last])

(* Nothing is left to publish: on to the shared root. *)
Idle == /\ run' = [run EXCEPT !.pc = "shared", !.latest = 0, !.steps = 0,
                              !.read = {}, !.before = 0]
        /\ UNCHANGED <<edits, db, attempts, contents, outcome>>

ReadHead == /\ run' = [run EXCEPT !.pc = "head", !.latest = edits,
                                   !.todo = <<Req("get", Device, db.head)>>]
            /\ UNCHANGED <<edits, db, attempts, contents, outcome>>

(* What is to be published is read with one query for each domain. *)
BeginScan ==
    /\ run' = [run EXCEPT !.pc = "scan", !.latest = 0,
                          !.left = Range(DomainOf), !.read = {}, !.before = edits]
    /\ UNCHANGED <<edits, db, attempts, contents, outcome>>

(* One step of run_pending_local_settings_sync up to the first request.    *)
(* With a snapshot and later changes it is the read of the own head.  Of   *)
(* the changes after the snapshot only the last counts here.               *)
PublishStep ==
    /\ run.pc = "publish" /\ run.steps < MaxPublishSteps
    /\ \/ db.snapshot = None /\ BeginScan
       \/ db.snapshot # None /\ edits = db.covers /\ Idle
       \/ db.snapshot # None /\ edits > db.covers /\ db.head = None /\ BeginScan
       \/ db.snapshot # None /\ edits > db.covers /\ db.head # None /\ ReadHead
    /\ UNCHANGED serviceVars

(* Variant of HeadIsCurrent: any head counts. *)
HeadIsThere == db.head # None

HeadIsCurrent == db.sequence >= run.latest

HeadRead ==
    /\ run.pc = "head" /\ run.todo = <<>>
    /\ IF HeadIsCurrent THEN Idle ELSE BeginScan
    /\ UNCHANGED serviceVars

(* The query for the next domain. *)
ReadDomain ==
    /\ run.pc = "scan"
    /\ \E domain \in run.left :
          /\ \A other \in run.left : domain <= other
          /\ run' = [run EXCEPT !.left = @ \ {domain},
                                !.read = @ \cup {i \in db.covers + 1 .. edits :
                                                   DomainOf[i] = domain}]
    /\ UNCHANGED <<serviceVars, edits, db, attempts, contents, outcome>>

(* A manifest is refused if its snapshot lacks a domain it covers. *)
CoveredDomainsIncluded == Domains(1..db.covers) \subseteq db.domains

DomainsRead ==
    /\ run.pc = "scan" /\ run.left = {}
    /\ \/ run.read = {} /\ Idle
       \/ \E last \in run.read :
             /\ \A i \in run.read : i <= last
             /\ \/ db.snapshot = None /\ PublishFullSnapshot(last)
                \/ db.snapshot # None /\ CoveredDomainsIncluded /\ PublishTail(last)
    /\ UNCHANGED serviceVars

ManifestRefused ==
    /\ run.pc = "scan" /\ run.left = {} /\ run.read # {}
    /\ db.snapshot # None /\ ~CoveredDomainsIncluded
    /\ Fail
    /\ UNCHANGED <<serviceVars, edits, db, attempts, contents>>

LoopExhausted ==
    /\ run.pc = "publish" /\ run.steps = MaxPublishSteps
    /\ Fail
    /\ UNCHANGED <<serviceVars, edits, db, attempts, contents>>

(* The database records the publication when all its requests are done. *)
Record ==
    /\ run.pc = "publishing" /\ run.todo = <<>>
    /\ db' = run.next
    /\ run' = [run EXCEPT !.pc = IF run.kind = "cycle" THEN "publish" ELSE "retain",
                          !.steps = @ + 1, !.next = None]
    /\ UNCHANGED <<serviceVars, edits, attempts, contents, outcome>>

(* A snapshot up to c, of the domains that were changed since the previous *)
(* snapshot, and the later changes as tails.  One query reads them all.    *)
CompactTo(c) ==
    LET n == attempts + 1
        S == <<"snapshot", n>>
        T == <<"tails", n>>
        D == Domains(db.covers + 1 .. c)
        next == [db EXCEPT !.snapshot = S, !.covers = c, !.domains = D, !.settings = Manifest(n)]
        content(refs) == Content(refs, InDomains(D, c) \cup (c + 1 .. edits), edits, edits,
                                 (1..c) \ InDomains(D, c))
    IN IF c = edits
       THEN Publish(PutRetained(S) \o PutRetainedRoot(SettingsRoot, Manifest(n)),
                    PushUnique(PushUnique(run.ids, S), Manifest(n)), content(<<S>>), next)
       ELSE Publish(PutRetained(S) \o PutRetained(T) \o PutRetainedRoot(SettingsRoot, Manifest(n)),
                    PushUnique(PushUnique(PushUnique(run.ids, S), T), Manifest(n)),
                    content(<<S, T>>), next)

(* A compaction tick publishes under the settings root only; or there is   *)
(* no target.                                                              *)
Compact ==
    /\ run.pc = "compact"
    /\ \/ /\ run' = [run EXCEPT !.pc = "retain"]
          /\ UNCHANGED <<edits, db, attempts, contents, outcome>>
       \/ \E c \in db.covers + 1 .. edits : CompactTo(c)
    /\ UNCHANGED serviceVars

(* The requests that fetch manifest o and what it refers to. *)
FetchManifest(o) ==
    LET refs == contents[o[2]].refs
    IN [i \in 1..Len(refs) + 1 |-> Req("get", Device, IF i = 1 THEN o ELSE refs[i - 1])]

(* The shared root candidates: another than the recorded one is fetched    *)
(* and, made of the device's own changes, found covered.                   *)
SharedRootCandidates ==
    /\ run.pc = "shared"
    /\ LET newest == LatestRoot(Device, SettingsRoot)
       IN IF ~Serves(Device, {"discovery"})
          THEN Fail
          ELSE /\ run' = [run EXCEPT !.pc = "retain", !.todo =
                    IF newest = None \/ newest.object = db.settings THEN <<>>
                    ELSE FetchManifest(newest.object)]
               /\ UNCHANGED outcome
    /\ UNCHANGED <<serviceVars, edits, db, attempts, contents>>

(* retain_profile_sync_objects at each selected provider in turn.  The     *)
(* status that verify_retained_object gives after each retain is only      *)
(* reported.                                                               *)
RetainAtProvider ==
    /\ run.pc = "retain" /\ run.todo = <<>> /\ run.selected # {}
    /\ LET i == Min(run.selected)
       IN run' = [run EXCEPT !.selected = run.selected \ {i},
                             !.todo = [k \in 1..Len(run.ids) |->
                                          Req("retain", Handles[i], run.ids[k])]]
    /\ UNCHANGED <<serviceVars, edits, db, attempts, contents, outcome>>

(* check_after_cycle on the health of the two roots, asked one by one. *)
SettingsRootHealth ==
    /\ run.pc = "retain" /\ run.todo = <<>> /\ run.selected = {}
    /\ IF /\ Serves(Device, {"discovery"})
          /\ ~RootHealth(Device, SettingsRoot, MinimumRetaining).degraded
       THEN run' = [run EXCEPT !.pc = "headHealth"] /\ UNCHANGED outcome
       ELSE Fail
    /\ UNCHANGED <<serviceVars, edits, db, attempts, contents>>

HeadRootHealth ==
    /\ run.pc = "headHealth"
    /\ IF /\ Serves(Device, {"discovery"})
          /\ ~RootHealth(Device, HeadRoot, MinimumRetaining).degraded
       THEN Ok
       ELSE Fail
    /\ UNCHANGED <<serviceVars, edits, db, attempts, contents>>

-----------------------------------------------------------------------------

Edit ==
    /\ edits < MaxEdits
    /\ edits' = edits + 1
    /\ UNCHANGED <<serviceVars, db, attempts, contents, run, outcome>>

(* The process stops; the database and the providers stay. *)
Stop ==
    /\ run.pc # "idle"
    /\ Fail
    /\ UNCHANGED <<serviceVars, edits, db, attempts, contents>>

(* What may fail between two requests. *)
Fault ==
    /\ \/ \E p \in Provider :
             \/ SetProviderOnline(p)
             \/ SetProviderRetentionAvailable(p)
             \/ SetProviderRetentionQuota(p)
             \/ SetProviderTransferAvailable(Device, p)
             \/ \E o \in Object : RemoveProviderObjectBytes(p, o)
       \/ ExpireCurrentProviderFreshness
    /\ UNCHANGED deviceVars

CycleNext ==
    \/ StartRun("cycle") \/ StartRun("compaction")
    \/ Preflight \/ Select
    \/ PublishStep \/ HeadRead \/ ReadDomain \/ DomainsRead \/ ManifestRefused
    \/ LoopExhausted \/ Record \/ Compact
    \/ Request1 \/ RequestFails
    \/ SharedRootCandidates \/ RetainAtProvider
    \/ SettingsRootHealth \/ HeadRootHealth
    \/ Edit \/ Stop \/ Fault

CycleSpec == CycleInit /\ [][CycleNext]_vars

-----------------------------------------------------------------------------

(* All that is needed to read what a root of the device points to. *)
Closure(o) == {o, Manifest(o[2])} \cup Range(contents[o[2]].refs)

DeviceRoots == {r \in Root : <<r, Device>> \in PublishedRoots}

(***************************************************************************)
(* A root never gets ahead of its objects: whenever the device's settings  *)
(* root or head root can be resolved, also in the middle of a publication  *)
(* and after one that failed or was cut off, the device has stored the     *)
(* root's object, the manifest, the snapshot and the tails it leads to,    *)
(* unless a fault removed bytes afterwards (put_retained_root comes last). *)
(***************************************************************************)
PublishedIsComplete ==
    \A r \in DeviceRoots :
       \A o \in Closure(roots[<<r, Device>>].object) : <<Device, o>> \in objects \cup lost

(***************************************************************************)
(* The cycle reports success only for durable state: after a run that      *)
(* ended well at least the requested number of providers claim every       *)
(* object that the settings root and the head root lead to, although only  *)
(* the root objects are counted and although the retention of an earlier   *)
(* run may have failed half way and is not repeated.                       *)
(***************************************************************************)
OkMeansRetained ==
    run.pc = "idle" /\ outcome # None =>
       \A r \in DeviceRoots :
          Cardinality({q \in Provider :
             \A o \in Closure(roots[<<r, Device>>].object) : <<q, o>> \in retained})
          >= MinimumRetaining

(* Change i was made while a publication that goes beyond it was read, or  *)
(* a compaction left it out with its domain.                               *)
WrittenDuringScan(i) ==
    \E n \in 1..Len(contents) : contents[n].before < i /\ i <= contents[n].covers

OmittedByCompaction(i) == \E n \in 1..Len(contents) : i \in contents[n].omits

(***************************************************************************)
(* A sync cycle that ended well has published the changes made before it   *)
(* began: each one is behind the device's head or its settings root,       *)
(* whatever failed, stopped or was compacted before                        *)
(* (run_pending_local_settings_sync runs until a step finds nothing to     *)
(* publish).  Two kinds of changes can be missing, as the next step looks  *)
(* at the last sequence only: one made while the domains were read one by  *)
(* one (enabled_settings_sync_text_events_after), and one in a domain that *)
(* a compaction left out (compact_and_publish_settings).                   *)
(***************************************************************************)
OkMeansPublished ==
    run.pc = "idle" /\ outcome # None /\ outcome.kind = "cycle" =>
       \A i \in 1..outcome.since :
          \/ \E r \in DeviceRoots : i \in contents[roots[<<r, Device>>].object[2]].carries
          \/ WrittenDuringScan(i)
          \/ OmittedByCompaction(i)

=============================================================================
