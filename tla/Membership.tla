------------------------------ MODULE Membership ------------------------------
(***************************************************************************)
(* The account membership of one profile database (crates/storage): which  *)
(* device keys a device trusts, derived from signed membership records     *)
(* that reach it in any order, singly, in enrollment bundles or as whole   *)
(* membership logs (crates/profile-sync).                                  *)
(*                                                                         *)
(* A batch of records is applied in one SQLite transaction, record by      *)
(* record: the first record that is refused rolls the whole batch back,    *)
(* and a log's root moves in the transaction that applies its records.     *)
(* work is the transaction's view of the tables, db what is committed.     *)
(***************************************************************************)
EXTENDS MembershipRecords

CONSTANTS Local,       \* local_sync_device_id of this database
          MaxBatch,    \* bound on the records of one batch
          MaxPending   \* bound on the records stored before they apply

ASSUME LocalAssumption == Local \in Device
ASSUME BoundAssumption == MaxBatch \in Nat /\ MaxPending \in Nat

VARIABLES db,      \* the committed tables
          root,    \* the records of the log last followed, {} if none was
          work,    \* the tables as the open transaction sees them
          batch    \* the records the open transaction has gone through

vars == <<db, root, work, batch>>

TypeOK == /\ db \in Tables
          /\ root \in SUBSET Record
          /\ work \in Tables
          /\ batch \in SUBSET Record

-----------------------------------------------------------------------------

Init == /\ db = NoTables
        /\ root = {}
        /\ work = db
        /\ batch = {}

InTransaction == batch # {}

(* record_signed_sync_account_membership_record: kept, not yet applied. *)
RecordSignedRecord(r) ==
    /\ ~InTransaction
    /\ ~ConflictingBytes(db, r)
    /\ Cardinality((db.stored \cup {r}) \ db.applied) <= MaxPending
    /\ db' = [db EXCEPT !.stored = @ \cup {r}]
    /\ work' = db'
    /\ UNCHANGED <<root, batch>>

(* The roster part of activate_local_profile_sync_metadata_with_key. *)
ActivateLocalDevice ==
    /\ ~InTransaction
    /\ db' = [db EXCEPT !.provider[Local] = FALSE]
    /\ work' = db'
    /\ UNCHANGED <<root, batch>>

(* The open transaction goes on to the next record of its batch. *)
ApplyNextRecord(r) ==
    /\ r \notin batch
    /\ Cardinality(batch) < MaxBatch
    /\ \/ Accepts(work, r) /\ work' = ApplyRecord(work, r)
       \/ Replays(work, r) /\ work' = work
    /\ batch' = batch \cup {r}
    /\ UNCHANGED <<db, root>>

(* A record is refused: the whole batch is rolled back. *)
RefuseNextRecord(r) ==
    /\ InTransaction
    /\ r \notin batch
    /\ Cardinality(batch) < MaxBatch
    /\ ~Accepts(work, r) /\ ~Replays(work, r)
    /\ work' = db
    /\ batch' = {}
    /\ UNCHANGED <<db, root>>

(* The batch was a bundle or a single record. *)
CommitRecords ==
    /\ InTransaction
    /\ db' = work
    /\ batch' = {}
    /\ UNCHANGED <<root, work>>

(* Variant of CommitLog: the root moves, the records are lost. *)
CommitRootOnly ==
    /\ InTransaction
    /\ root' = batch
    /\ work' = db
    /\ batch' = {}
    /\ UNCHANGED db

(* The batch was a membership log, or a record with a root of its own. *)
CommitLog ==
    /\ InTransaction
    /\ db' = work
    /\ root' = batch
    /\ batch' = {}
    /\ UNCHANGED work

Next == \/ \E r \in Record : \/ RecordSignedRecord(r)
                             \/ ApplyNextRecord(r)
                             \/ RefuseNextRecord(r)
        \/ ActivateLocalDevice
        \/ CommitRecords
        \/ CommitLog

Spec == Init /\ [][Next]_vars

-----------------------------------------------------------------------------

Newest(t, r) == \A s \in t.applied : s.device = r.device => s.epoch <= r.epoch

(* What the key row of r's device is when r is its newest applied record. *)
KeyIsOf(t, r) ==
    IF r.kind = "revoke-device" THEN ~Trusted(t, r.device)
    ELSE t.keys[r.device] = [key |-> r.key, epoch |-> r.epoch, trusted |-> TRUE]

(***************************************************************************)
(* Trust follows the newest record: a device's key is the one its          *)
(* newest-epoch applied record gave it, trusted unless that record revoked *)
(* it, and a device no record was applied for has no key.  So no order of  *)
(* arrival re-trusts a revoked device or brings back a rotated-out key     *)
(* (reject_stale_sync_account_membership_record_in_transaction).           *)
(***************************************************************************)
TrustFollowsNewest ==
    /\ \A r \in db.applied : Newest(db, r) => KeyIsOf(db, r)
    /\ \A d \in Device : db.keys[d] # NoKey => \E r \in db.applied : r.device = d

(***************************************************************************)
(* For one device and epoch one record at most has taken effect, whichever *)
(* of several conflicting ones arrives first.                              *)
(***************************************************************************)
OneRecordPerEpoch ==
    \A r, s \in db.applied : r.device = s.device /\ r.epoch = s.epoch => r = s

(* Another applied record gave r's signer the key r is signed with. *)
Vouched(t, r) ==
    \E s \in t.applied \ {r} :
       /\ s.device = r.signer
       /\ s.kind # "revoke-device"
       /\ s.key = r.signerKey
       /\ s.epoch <= r.epoch

(***************************************************************************)
(* All trust hangs on one root: at most one applied record was accepted on *)
(* its own word; every other one is signed with a key that another applied *)
(* record, of the same or an earlier epoch, gave to its signer.  Revoking  *)
(* every device does not reopen the bootstrap of                           *)
(* authorize_sync_account_membership_record_in_transaction.                *)
(***************************************************************************)
SingleRootOfTrust ==
    \A r, s \in db.applied : r = s \/ Vouched(db, r) \/ Vouched(db, s)

(***************************************************************************)
(* The stored log root is never ahead of the trust store: every record of  *)
(* the log the root names has been applied here.                           *)
(***************************************************************************)
RootIsApplied == root \subseteq db.applied

(***************************************************************************)
(* A device stops being trusted only through a newer revocation, and its   *)
(* key changes only through a newer record: a step that alters a key row   *)
(* also applies a record for that device newer than all applied before.    *)
(***************************************************************************)
KeysMoveWithNewRecords ==
    [][\A d \in Device :
          db'.keys[d] # db.keys[d] =>
             \E r \in db'.applied \ db.applied :
                r.device = d /\ Newest(db, r)]_vars

=============================================================================
