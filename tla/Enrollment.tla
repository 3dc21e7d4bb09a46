------------------------------ MODULE Enrollment ------------------------------
(***************************************************************************)
(* How browsers come to share a profile's secret: the profile sync         *)
(* handlers of the settings page (crates/chrome, slate.rs) and the         *)
(* activation they run in the profile database (crates/storage).           *)
(*                                                                         *)
(* The secret lives only in the shell's memory, behind a mutex; what it    *)
(* signs is in the database.  An activation is a series of transactions:   *)
(* the device row, the sync domains, the content key, the authority's      *)
(* membership record, the device's own.  Handlers of one browser run on    *)
(* threads of their own: a creation holds the mutex to its end, an import  *)
(* gives it up before it activates.  MembershipRecords says what a record  *)
(* does to the tables.                                                     *)
(***************************************************************************)
EXTENDS Integers, FiniteSets

CONSTANTS Browser,         \* browsers, named by their local_sync_device_id
          Authority,       \* DEFAULT_PROFILE_SYNC_ACCOUNT_AUTHORITY_DEVICE_ID
          Provider,        \* DEFAULT_PROFILE_SYNC_PREVIEW_PROVIDER_ID
          Secret,          \* the secrets SlateSyncSecret::generate can return
          NoSecret,        \* active_export is None
          NoKey,
          Handler,         \* handler threads of a browser
          NoHandler,       \* nobody holds the mutex
          MaxRequests,     \* bound on the requests that are made
          MaxCrashes,      \* bound on the restarts
          MaxRevocations   \* bound on the revocations that arrive

ASSUME BoundAssumption ==
    MaxRequests \in Nat /\ MaxCrashes \in Nat /\ MaxRevocations \in Nat

ASSUME NameAssumption ==
    /\ Authority \notin Browser /\ Provider \notin Browser /\ Authority # Provider
    /\ NoSecret \notin Secret /\ NoHandler \notin Handler

Member == Browser \cup {Authority, Provider}
KeyOf == Secret \X Member   \* derive_profile_sync_device_signer, one per device

(* The record with which s enrolls device d: signed by s's authority key, *)
(* its bytes fixed by s and d.                                            *)
Enroll(s, d) ==
    [id |-> <<1, d>>, epoch |-> 1,
     kind |-> IF d = Provider THEN "enroll-provider" ELSE "enroll-device",
     device |-> d, key |-> <<s, d>>,
     signer |-> Authority, signerKey |-> <<s, Authority>>]

(* A revocation the account's authority has published. *)
Revoke(s, d) ==
    [id |-> <<2, d>>, epoch |-> 2, kind |-> "revoke-device",
     device |-> d, key |-> NoKey,
     signer |-> Authority, signerKey |-> <<s, Authority>>]

SignedRecord == {Enroll(s, d) : s \in Secret, d \in Member}
                  \cup {Revoke(s, d) : s \in Secret, d \in Browser}

INSTANCE MembershipRecords WITH Device <- Member, PublicKey <- KeyOf,
                                RecordId <- (1..2) \X Member, Record <- SignedRecord

ASSUME KeyAssumption == NoKey \notin KeyOf /\ NoKey \notin KeyRow

VARIABLES db,         \* the membership tables of each browser's database
          meta,       \* its sync metadata: 1 device row, 2 domains, 3 content key
          endpoint,   \* whether storage_providers has the preview provider
          memory,     \* ProfileSyncPreviewState: active_export, metadata_ready
          mutex,      \* who holds it
          call,       \* what each handler thread is doing
          keyFiles,   \* the secrets that have left a browser as a key file
          bundles,    \* the handoff bundles made: secret and target device
          generated,  \* the secrets generated so far
          failed,     \* a creation or an import failed since the shell started
          spent       \* requests, crashes and revocations so far

vars == <<db, meta, endpoint, memory, mutex, call, keyFiles, bundles,
          generated, failed, spent>>

Pc == {"idle", "enroll", "register", "domains", "content-key", "authority", "local",
       "lock", "provider", "endpoint", "mark", "deliver", "bundle"}
Request == {"create", "key", "import", "handoff", "export", "provider", "sync"}

CallRecord == [pc : Pc, kind : Request, secret : Secret \cup {NoSecret}, target : Member]

Idle == [pc |-> "idle", kind |-> "create", secret |-> NoSecret, target |-> Authority]

TypeOK ==
    /\ db \in [Browser -> Tables]
    /\ meta \in [Browser -> 0..3]
    /\ endpoint \in [Browser -> BOOLEAN]
    /\ memory \in [Browser -> [export : Secret \cup {NoSecret}, ready : BOOLEAN]]
    /\ mutex \in [Browser -> Handler \cup {NoHandler}]
    /\ call \in [Browser -> [Handler -> CallRecord]]
    /\ keyFiles \subseteq generated
    /\ bundles \subseteq generated \X Browser
    /\ generated \subseteq Secret
    /\ failed \in [Browser -> BOOLEAN]
    /\ spent \in [requests : 0..MaxRequests, crashes : 0..MaxCrashes,
                  revocations : 0..MaxRevocations]

-----------------------------------------------------------------------------

(* A new shell over a database: nothing of the secret is kept on disk. *)
NewShell == [export |-> NoSecret, ready |-> FALSE]

Init ==
    /\ db = [b \in Browser |-> NoTables]
    /\ meta = [b \in Browser |-> 0]
    /\ endpoint = [b \in Browser |-> FALSE]
    /\ memory = [b \in Browser |-> NewShell]
    /\ mutex = [b \in Browser |-> NoHandler]
    /\ call = [b \in Browser |-> [h \in Handler |-> Idle]]
    /\ keyFiles = {} /\ bundles = {} /\ generated = {}
    /\ failed = [b \in Browser |-> FALSE]
    /\ spent = [requests |-> 0, crashes |-> 0, revocations |-> 0]

(* A request reaches thread h, and the mutex is free for it to take. *)
Arrives(b, h) ==
    /\ call[b][h].pc = "idle"
    /\ mutex[b] = NoHandler
    /\ spent.requests < MaxRequests
    /\ spent' = [spent EXCEPT !.requests = @ + 1]

Start(b, h, pc, kind, s, d) ==
    call' = [call EXCEPT ![b][h] =
                [pc |-> pc, kind |-> kind, secret |-> s, target |-> d]]

(* refresh_profile_sync_preview_metadata *)
Refreshed(b) == [memory[b] EXCEPT !.ready = @ \/ meta[b] = 3]

(* A new secret replaces the one in memory before anything is stored. *)
Generate(b, h, kind, s) ==
    /\ s \notin generated
    /\ generated' = generated \cup {s}
    /\ memory' = [memory EXCEPT ![b] = [export |-> s, ready |-> FALSE]]
    /\ mutex' = [mutex EXCEPT ![b] = h]
    /\ Start(b, h, "register", kind, s, b)

Create(b, h, s) ==
    /\ Arrives(b, h)
    /\ Generate(b, h, "create", s)
    /\ UNCHANGED <<db, meta, endpoint, keyFiles, bundles, failed>>

(* Status and check, and any request below that finds no secret in memory. *)
Check(b, h) ==
    /\ Arrives(b, h)
    /\ memory' = [memory EXCEPT ![b] = Refreshed(b)]
    /\ UNCHANGED <<db, meta, endpoint, mutex, call, keyFiles, bundles, generated, failed>>

(* profile_sync_key_export with a key in memory: it is handed out. *)
ExportLoadedKey(b, h) ==
    /\ Arrives(b, h)
    /\ memory[b].export # NoSecret
    /\ memory' = [memory EXCEPT ![b] = Refreshed(b)]
    /\ Start(b, h, "deliver", "key", memory[b].export, b)
    /\ UNCHANGED <<db, meta, endpoint, mutex, keyFiles, bundles, generated, failed>>

(* profile_sync_key_export on first use: a key is created and activated. *)
ExportFirstKey(b, h, s) ==
    /\ Arrives(b, h)
    /\ memory[b].export = NoSecret
    /\ ~Refreshed(b).ready
    /\ Generate(b, h, "key", s)
    /\ UNCHANGED <<db, meta, endpoint, keyFiles, bundles, failed>>

(* import_secret: memory has the key, and the mutex is free, before the *)
(* database has accepted it.                                            *)
Import(b, h, s) ==
    /\ Arrives(b, h)
    /\ s \in keyFiles
    /\ memory' = [memory EXCEPT ![b] = [export |-> s, ready |-> FALSE]]
    /\ Start(b, h, "register", "import", s, b)
    /\ UNCHANGED <<db, meta, endpoint, mutex, keyFiles, bundles, generated, failed>>

(* Variant of ImportBundle: memory takes the secret before it is accepted. *)
ImportBundleEagerly(b, h, s) ==
    /\ Arrives(b, h)
    /\ <<s, b>> \in bundles
    /\ memory' = [memory EXCEPT ![b].export = s]
    /\ Start(b, h, "enroll", "handoff", s, b)
    /\ UNCHANGED <<db, meta, endpoint, mutex, keyFiles, bundles, generated, failed>>

(* A handoff bundle: memory is left alone until it has been applied. *)
ImportBundle(b, h, s) ==
    /\ Arrives(b, h)
    /\ <<s, b>> \in bundles
    /\ Start(b, h, "enroll", "handoff", s, b)
    /\ UNCHANGED <<db, meta, endpoint, memory, mutex, keyFiles, bundles, generated, failed>>

(* Requests that copy the secret and go on without the mutex: a handoff    *)
(* bundle for device d, the preview provider, a sync cycle or trial.       *)
UseSecret(b, h, pc, kind, d) ==
    /\ Arrives(b, h)
    /\ memory[b].export # NoSecret
    /\ memory' = [memory EXCEPT ![b] = Refreshed(b)]
    /\ Start(b, h, pc, kind, memory[b].export, d)
    /\ UNCHANGED <<db, meta, endpoint, mutex, keyFiles, bundles, generated, failed>>

CreateBundle(b, h, d) == UseSecret(b, h, "bundle", "export", d)
ActivateProvider(b, h) == UseSecret(b, h, "lock", "provider", b)
RunSync(b, h) == UseSecret(b, h, "register", "sync", b)

-----------------------------------------------------------------------------

At(b, h, pc) == call[b][h].pc = pc

Goto(b, h, pc) ==
    call' = [call EXCEPT ![b][h] = IF pc = "idle" THEN Idle ELSE [@ EXCEPT !.pc = pc]]

(* register_sync_device, in a transaction of its own. *)
RegisterDevice(b, h) ==
    /\ At(b, h, "register") /\ Goto(b, h, "domains")
    /\ db' = [db EXCEPT ![b].provider[b] = FALSE]
    /\ meta' = [meta EXCEPT ![b] = IF @ = 0 THEN 1 ELSE @]
    /\ UNCHANGED <<endpoint, memory, mutex, keyFiles, bundles, generated, failed, spent>>

EnsureDomains(b, h) ==
    /\ At(b, h, "domains") /\ Goto(b, h, "content-key")
    /\ meta' = [meta EXCEPT ![b] = IF @ = 1 THEN 2 ELSE @]
    /\ UNCHANGED <<db, endpoint, memory, mutex, keyFiles, bundles, generated, failed, spent>>

RegisterContentKey(b, h) ==
    /\ At(b, h, "content-key") /\ Goto(b, h, "authority")
    /\ meta' = [meta EXCEPT ![b] = 3]
    /\ UNCHANGED <<db, endpoint, memory, mutex, keyFiles, bundles, generated, failed, spent>>

Passes(t, r) == Accepts(t, r) \/ Replays(t, r)
After(t, r) == IF Accepts(t, r) THEN ApplyRecord(t, r) ELSE t

(* Applies the record that enrolls d and goes on to pc, or is refused. *)
EnrollInDatabase(b, h, d, pc) ==
    LET r == Enroll(call[b][h].secret, d)
    IN  /\ Passes(db[b], r)
        /\ db' = [db EXCEPT ![b] = After(@, r)]
        /\ Goto(b, h, pc)
        /\ UNCHANGED <<meta, endpoint, memory, mutex, keyFiles, bundles,
                       generated, failed, spent>>

ApplyAuthority(b, h) ==
    At(b, h, "authority") /\ EnrollInDatabase(b, h, Authority, "local")

ApplyLocal(b, h) ==
    /\ At(b, h, "local")
    /\ EnrollInDatabase(b, h, b, IF call[b][h].kind = "sync" THEN "provider" ELSE "mark")

ApplyProvider(b, h) ==
    At(b, h, "provider") /\ EnrollInDatabase(b, h, Provider, "endpoint")

(* The two records of a bundle, in one transaction. *)
BundlePasses(t, s, d) ==
    /\ Passes(t, Enroll(s, Authority))
    /\ Passes(After(t, Enroll(s, Authority)), Enroll(s, d))

ApplyBundle(b, h) ==
    LET s == call[b][h].secret
    IN  /\ At(b, h, "enroll")
        /\ BundlePasses(db[b], s, b)
        /\ db' = [db EXCEPT ![b] = After(After(@, Enroll(s, Authority)), Enroll(s, b))]
        /\ Goto(b, h, "register")
        /\ UNCHANGED <<meta, endpoint, memory, mutex, keyFiles, bundles,
                       generated, failed, spent>>

(* The provider request takes the mutex again, for the rest of its work. *)
LockForProvider(b, h) ==
    /\ At(b, h, "lock") /\ Goto(b, h, "provider")
    /\ mutex[b] = NoHandler
    /\ mutex' = [mutex EXCEPT ![b] = h]
    /\ UNCHANGED <<db, meta, endpoint, memory, keyFiles, bundles, generated, failed, spent>>

(* The mutex after h's guard is dropped, if h held one. *)
Unlocked(b, h) == IF mutex[b] = h THEN [mutex EXCEPT ![b] = NoHandler] ELSE mutex

UpsertProvider(b, h) ==
    /\ At(b, h, "endpoint")
    /\ Goto(b, h, IF call[b][h].kind = "sync" THEN "mark" ELSE "idle")
    /\ endpoint' = [endpoint EXCEPT ![b] = TRUE]
    /\ mutex' = Unlocked(b, h)
    /\ UNCHANGED <<db, meta, memory, keyFiles, bundles, generated, failed, spent>>

(* The mark_* functions: under the mutex, taken again if it was given up. *)
Mark(b, h) ==
    /\ At(b, h, "mark")
    /\ mutex[b] \in {h, NoHandler}
    /\ memory' = [memory EXCEPT ![b] =
                     [export |-> IF call[b][h].kind = "handoff"
                                 THEN call[b][h].secret ELSE @.export,
                      ready |-> TRUE]]
    /\ mutex' = Unlocked(b, h)
    /\ Goto(b, h, IF call[b][h].kind = "key" THEN "deliver" ELSE "idle")
    /\ UNCHANGED <<db, meta, endpoint, keyFiles, bundles, generated, failed, spent>>

(* A download stores the key it was given; the page's JSON holds the key   *)
(* that is in memory when the JSON is written.                             *)
Deliver(b, h) ==
    /\ At(b, h, "deliver") /\ Goto(b, h, "idle")
    /\ \/ keyFiles' = keyFiles \cup {call[b][h].secret}
       \/ /\ mutex[b] = NoHandler
          /\ keyFiles' = keyFiles \cup {memory[b].export}
    /\ UNCHANGED <<db, meta, endpoint, memory, mutex, bundles, generated, failed, spent>>

DeliverBundle(b, h) ==
    /\ At(b, h, "bundle") /\ Goto(b, h, "idle")
    /\ mutex[b] = NoHandler
    /\ bundles' = bundles \cup {<<call[b][h].secret, call[b][h].target>>}
    /\ UNCHANGED <<db, meta, endpoint, memory, mutex, keyFiles, generated, failed, spent>>

(* The handler ends with an error: its guard is dropped, and a key it put  *)
(* into memory stays there.                                                *)
Aborts(b, h) ==
    /\ Goto(b, h, "idle")
    /\ mutex' = Unlocked(b, h)
    /\ failed' = [failed EXCEPT ![b] = \/ @
                                        \/ /\ call[b][h].kind \in {"create", "key", "import"}
                                           /\ ~At(b, h, "deliver")]
    /\ UNCHANGED <<db, meta, endpoint, memory, keyFiles, bundles, generated, spent>>

(* Variant of Refused: the guard outlives the handler. *)
RefusedStillLocked(b, h) ==
    LET t == db[b]  s == call[b][h].secret
    IN  /\ \/ At(b, h, "enroll") /\ ~BundlePasses(t, s, b)
           \/ At(b, h, "authority") /\ ~Passes(t, Enroll(s, Authority))
           \/ At(b, h, "local") /\ ~Passes(t, Enroll(s, b))
           \/ At(b, h, "provider") /\ ~Passes(t, Enroll(s, Provider))
        /\ Goto(b, h, "idle")
        /\ failed' = [failed EXCEPT ![b] = TRUE]
        /\ UNCHANGED <<db, meta, endpoint, memory, mutex, keyFiles, bundles,
                       generated, spent>>

(* A membership record is refused: earlier transactions stay committed. *)
Refused(b, h) ==
    LET t == db[b]  s == call[b][h].secret
    IN  /\ \/ At(b, h, "enroll") /\ ~BundlePasses(t, s, b)
           \/ At(b, h, "authority") /\ ~Passes(t, Enroll(s, Authority))
           \/ At(b, h, "local") /\ ~Passes(t, Enroll(s, b))
           \/ At(b, h, "provider") /\ ~Passes(t, Enroll(s, Provider))
        /\ Aborts(b, h)

(* A statement, a cycle or the writing of the file fails. *)
StepFails(b, h) ==
    /\ \/ call[b][h].pc \in {"enroll", "register", "domains", "content-key",
                             "authority", "local", "provider", "endpoint", "deliver"}
       \/ At(b, h, "mark") /\ call[b][h].kind = "sync"
    /\ Aborts(b, h)

-----------------------------------------------------------------------------

(* A crash or a restart: the database stays, all else in the shell goes. *)
Crash(b) ==
    /\ spent.crashes < MaxCrashes
    /\ spent' = [spent EXCEPT !.crashes = @ + 1]
    /\ memory' = [memory EXCEPT ![b] = NewShell]
    /\ mutex' = [mutex EXCEPT ![b] = NoHandler]
    /\ call' = [call EXCEPT ![b] = [h \in Handler |-> Idle]]
    /\ failed' = [failed EXCEPT ![b] = FALSE]
    /\ UNCHANGED <<db, meta, endpoint, keyFiles, bundles, generated>>

(* A pulled membership log revokes the browser's own device; what logs do  *)
(* to other devices' rows is in Membership, and no handler reads it.       *)
PullRevocation(b, s) ==
    /\ spent.revocations < MaxRevocations
    /\ Accepts(db[b], Revoke(s, b))
    /\ spent' = [spent EXCEPT !.revocations = @ + 1]
    /\ db' = [db EXCEPT ![b] = ApplyRecord(@, Revoke(s, b))]
    /\ UNCHANGED <<meta, endpoint, memory, mutex, call, keyFiles, bundles,
                   generated, failed>>

RequestArrives(b, h) ==
    \/ Check(b, h)
    \/ ExportLoadedKey(b, h)
    \/ \E s \in Secret : \/ Create(b, h, s)
                         \/ ExportFirstKey(b, h, s)
                         \/ Import(b, h, s)
                         \/ ImportBundle(b, h, s)
    \/ \E d \in Browser : CreateBundle(b, h, d)
    \/ ActivateProvider(b, h)
    \/ RunSync(b, h)

HandlerStep(b, h) ==
    \/ RegisterDevice(b, h)
    \/ EnsureDomains(b, h)
    \/ RegisterContentKey(b, h)
    \/ ApplyAuthority(b, h)
    \/ ApplyLocal(b, h)
    \/ ApplyProvider(b, h)
    \/ ApplyBundle(b, h)
    \/ LockForProvider(b, h)
    \/ UpsertProvider(b, h)
    \/ Mark(b, h)
    \/ Deliver(b, h)
    \/ DeliverBundle(b, h)
    \/ Refused(b, h)
    \/ StepFails(b, h)

Next == \E b \in Browser :
           \/ \E h \in Handler : RequestArrives(b, h) \/ HandlerStep(b, h)
           \/ Crash(b)
           \/ \E s \in Secret : PullRevocation(b, s)

Spec == Init /\ [][Next]_vars

(* A handler thread that has begun a request runs on. *)
FairSpec == Spec /\ \A b \in Browser, h \in Handler : WF_vars(HandlerStep(b, h))

-----------------------------------------------------------------------------

(* The secret the database's authority row stands for. *)
OwnSecret(b, s) == db[b].keys[Authority] # NoKey /\ db[b].keys[Authority].key[1] = s

(***************************************************************************)
(* A profile belongs to one secret: whatever is created, imported and      *)
(* enrolled, and however activations of different keys interleave, every   *)
(* key row of a database derives from the secret of its authority row      *)
(* (authorize_sync_account_membership_record_in_transaction, with the      *)
(* record ids of profile_sync_enroll_device_record_id).                    *)
(***************************************************************************)
OneSecret ==
    \A b \in Browser, d \in Member :
       db[b].keys[d] # NoKey => OwnSecret(b, db[b].keys[d].key[1])

(* Revoked by a record this database has applied. *)
Revoked(b) == \E s \in Secret : Revoke(s, b) \in db[b].applied

(***************************************************************************)
(* An activation that was cut short can be repeated: wherever a crash, a   *)
(* failed statement or another handler left the database, activating with  *)
(* the secret of its authority row (with any secret, if there is no such   *)
(* row yet) is accepted record by record and ends with the device trusted, *)
(* unless the device has been revoked.                                     *)
(***************************************************************************)
ActivationResumes ==
    \A b \in Browser, s \in Secret :
       /\ db[b].keys[Authority] = NoKey \/ OwnSecret(b, s)
       /\ ~Revoked(b)
       => /\ BundlePasses(db[b], s, b)
          /\ Trusted(After(After(db[b], Enroll(s, Authority)), Enroll(s, b)), b)

(* No handler of b is between putting a key somewhere and being done. *)
Settled(b) ==
    \A h \in Handler : call[b][h].pc \in {"idle", "deliver", "bundle"}

(***************************************************************************)
(* What the shell hands out is the profile's key: with no request under    *)
(* way, and unless a creation or an import has failed since the shell      *)
(* started, the key in memory is the one of the database's authority row,  *)
(* and so is the key of a first-use download that is about to be written.  *)
(***************************************************************************)
MemoryKeyIsProfiles ==
    \A b \in Browser :
       Settled(b) /\ ~failed[b] =>
          /\ memory[b].export # NoSecret => OwnSecret(b, memory[b].export)
          /\ \A h \in Handler :
                At(b, h, "deliver") => OwnSecret(b, call[b][h].secret)

(***************************************************************************)
(* A revoked device stays out: importing the profile's key or a bundle     *)
(* again, or activating with the key in memory, may end with success but   *)
(* does not make the device trusted again.                                 *)
(***************************************************************************)
RevokedStaysOut == \A b \in Browser : Revoked(b) => ~Trusted(db[b], b)

(***************************************************************************)
(* Every request ends: no handler waits for the mutex, or holds it, for    *)
(* ever.                                                                   *)
(***************************************************************************)
EveryRequestEnds ==
    \A b \in Browser, h \in Handler : []<>At(b, h, "idle")

=============================================================================
