--------------------------- MODULE MembershipProofs ---------------------------
(***************************************************************************)
(* What TLAPS proves of Membership, for any devices, keys and records.     *)
(* The open transaction is the difficulty: a commit copies its tables over *)
(* the committed ones, so each property is proved of both (TablesInv) and  *)
(* WorkExtendsDb relates the two.  KeyFromRecord, which says where every   *)
(* key row comes from, is what makes the single root of trust inductive.   *)
(***************************************************************************)
EXTENDS Membership, TLAPS

KeyFromRecord(t) ==
    \A d \in Device : t.keys[d] # NoKey =>
       \E s \in t.applied : /\ s.device = d
                            /\ s.kind # "revoke-device"
                            /\ s.key = t.keys[d].key
                            /\ s.epoch = t.keys[d].epoch

BootstrapClosed(t) == t.applied # {} => \E d \in Device : t.keys[d] # NoKey

NewestDecides(t) == \A r \in t.applied : Newest(t, r) => KeyIsOf(t, r)

EpochsDiffer(t) ==
    \A r, s \in t.applied : r.device = s.device /\ r.epoch = s.epoch => r = s

OneRoot(t) == \A r, s \in t.applied : r = s \/ Vouched(t, r) \/ Vouched(t, s)

TablesInv(t) == /\ t \in Tables
                /\ KeyFromRecord(t)
                /\ BootstrapClosed(t)
                /\ NewestDecides(t)
                /\ EpochsDiffer(t)
                /\ OneRoot(t)

WorkExtendsDb ==
    /\ db.applied \subseteq work.applied
    /\ \A d \in Device : work.keys[d] # db.keys[d] =>
          \E r \in work.applied \ db.applied : r.device = d /\ Newest(db, r)

IInv == /\ TablesInv(db)
        /\ TablesInv(work)
        /\ WorkExtendsDb
        /\ batch \in SUBSET Record
        /\ batch \subseteq work.applied
        /\ root \subseteq db.applied
        /\ batch = {} => work = db

-----------------------------------------------------------------------------

(* The fields of a record. *)
LEMMA RecordFields ==
    ASSUME NEW r \in Record
    PROVE  /\ r.device \in Device /\ r.signer \in Device
           /\ r.epoch \in Nat \ {0} /\ r.kind \in Kind
           /\ r.kind # "revoke-device" => r.key \in PublicKey
  BY RecordAssumption

(* The key row of a device after a record for it has been applied. *)
LEMMA DeviceKeyAfterType ==
    ASSUME NEW t \in Tables, NEW r \in Record
    PROVE  DeviceKeyAfter(t, r) \in KeyRow \cup {NoKey}
  <1>1. r.device \in Device /\ r.epoch \in Nat \ {0}
    BY RecordFields
  <1>2. t.keys[r.device] \in KeyRow \cup {NoKey}
    BY <1>1 DEF Tables
  <1>3. CASE r.kind # "revoke-device"
    <2>1. r.key \in PublicKey
      BY <1>3, RecordFields
    <2> QED BY <1>1, <1>3, <2>1 DEF DeviceKeyAfter, KeyRow
  <1>4. CASE r.kind = "revoke-device"
    BY <1>2, <1>4 DEF DeviceKeyAfter, KeyRow
  <1> QED BY <1>3, <1>4

(* A key row does not disappear, and an enrollment or rotation makes one. *)
LEMMA EnrolledKeyRow ==
    ASSUME NEW t \in Tables, NEW r \in Record,
           r.kind # "revoke-device" \/ t.keys[r.device] # NoKey
    PROVE  DeviceKeyAfter(t, r) # NoKey
  <1>1. r.device \in Device /\ r.epoch \in Nat \ {0}
    BY RecordFields
  <1>2. DeviceKeyAfter(t, r) \in KeyRow
    <2>1. CASE r.kind # "revoke-device"
      <3>1. r.key \in PublicKey
        BY <2>1, RecordFields
      <3> QED BY <1>1, <2>1, <3>1 DEF DeviceKeyAfter, KeyRow
    <2>2. CASE r.kind = "revoke-device"
      <3>1. t.keys[r.device] \in KeyRow
        BY <1>1, <2>2 DEF Tables
      <3> QED BY <2>2, <3>1, NoKeyAssumption DEF DeviceKeyAfter, KeyRow
    <2> QED BY <2>1, <2>2
  <1> QED BY <1>2, NoKeyAssumption

(* Applying a record yields well-typed tables, spelled out per table. *)
LEMMA ApplyRecordTables ==
    ASSUME NEW t \in Tables, NEW r \in Record
    PROVE  /\ ApplyRecord(t, r) \in Tables
           /\ ApplyRecord(t, r).applied = t.applied \cup {r}
           /\ ApplyRecord(t, r).keys[r.device] = DeviceKeyAfter(t, r)
           /\ \A d \in Device : d # r.device => ApplyRecord(t, r).keys[d] = t.keys[d]
  <1>1. r.device \in Device
    BY RecordFields
  <1>2. [t.keys EXCEPT ![r.device] = DeviceKeyAfter(t, r)] \in [Device -> KeyRow \cup {NoKey}]
    BY DeviceKeyAfterType DEF Tables
  <1>3. [t.provider EXCEPT ![r.device] = ProviderAfter(t, r)] \in [Device -> BOOLEAN]
    <2>1. ProviderAfter(t, r) \in BOOLEAN
      BY <1>1 DEF ProviderAfter, Tables
    <2> QED BY <2>1 DEF Tables
  <1>4. t.stored \cup {r} \in SUBSET Record /\ t.applied \cup {r} \in SUBSET Record
    BY DEF Tables
  <1>5. ApplyRecord(t, r) \in Tables
    BY <1>2, <1>3, <1>4 DEF ApplyRecord, Tables
  <1>6. t.keys \in [Device -> KeyRow \cup {NoKey}]
    BY DEF Tables
  <1> QED BY <1>1, <1>5, <1>6 DEF ApplyRecord

-----------------------------------------------------------------------------

(* An accepted record leaves the tables in order. *)
LEMMA AcceptedKeepsTablesInv ==
    ASSUME NEW t, TablesInv(t), NEW r \in Record, Accepts(t, r)
    PROVE  TablesInv(ApplyRecord(t, r))
  <1> DEFINE u == ApplyRecord(t, r)
  <1> USE DEF TablesInv
  <1>1. /\ u \in Tables
        /\ u.applied = t.applied \cup {r}
        /\ u.keys[r.device] = DeviceKeyAfter(t, r)
        /\ \A d \in Device : d # r.device => u.keys[d] = t.keys[d]
    BY ApplyRecordTables
  <1>2. r.device \in Device /\ r.signer \in Device /\ r.epoch \in Nat
    BY RecordFields
  <1>3. /\ r \notin t.applied /\ Authorized(t, r)
        /\ \A s \in t.applied : s.device = r.device => s.epoch < r.epoch
    <2>1. t.applied \subseteq Record
      BY DEF Tables
    <2>2. \A s \in t.applied : s.epoch \in Nat
      BY <2>1, RecordFields
    <2> QED BY <1>2, <2>2 DEF Accepts, Stale
  <1> HIDE DEF u
  <1>4. KeyFromRecord(u)
    <2> SUFFICES ASSUME NEW d \in Device, u.keys[d] # NoKey
                 PROVE  \E s \in u.applied : /\ s.device = d
                                             /\ s.kind # "revoke-device"
                                             /\ s.key = u.keys[d].key
                                             /\ s.epoch = u.keys[d].epoch
      BY DEF KeyFromRecord
    <2>1. CASE d # r.device
      BY <1>1, <2>1 DEF KeyFromRecord
    <2>2. CASE d = r.device /\ r.kind # "revoke-device"
      <3>1. u.keys[d] = [key |-> r.key, epoch |-> r.epoch, trusted |-> TRUE]
        BY <1>1, <2>2 DEF DeviceKeyAfter
      <3>2. r \in u.applied
        BY <1>1
      <3> QED BY <2>2, <3>1, <3>2
    <2>3. CASE d = r.device /\ r.kind = "revoke-device"
      <3>1. t.keys[d] # NoKey /\ u.keys[d] = [t.keys[d] EXCEPT !.trusted = FALSE]
        BY <1>1, <2>3 DEF DeviceKeyAfter
      <3>2. t.keys[d] \in KeyRow
        BY <3>1 DEF Tables
      <3>3. u.keys[d].key = t.keys[d].key /\ u.keys[d].epoch = t.keys[d].epoch
        BY <3>1, <3>2 DEF KeyRow
      <3> QED BY <1>1, <3>1, <3>3 DEF KeyFromRecord
    <2> QED BY <2>1, <2>2, <2>3
  <1>5. BootstrapClosed(u)
    <2>1. CASE Bootstraps(t, r)
      BY <1>1, <1>2, <2>1, EnrolledKeyRow DEF Bootstraps, BootstrapClosed
    <2>2. CASE SignerTrusted(t, r)
      <3>1. t.keys[r.signer] # NoKey
        BY <2>2 DEF SignerTrusted, Trusted
      <3>2. CASE r.signer # r.device
        BY <1>1, <1>2, <3>1, <3>2 DEF BootstrapClosed
      <3>3. CASE r.signer = r.device
        <4>1. DeviceKeyAfter(t, r) # NoKey
          BY <3>1, <3>3, EnrolledKeyRow
        <4> QED BY <1>1, <1>2, <4>1 DEF BootstrapClosed
      <3> QED BY <3>2, <3>3
    <2> QED BY <1>3, <2>1, <2>2 DEF Authorized
  <1>6. NewestDecides(u)
    <2> SUFFICES ASSUME NEW q \in u.applied, Newest(u, q)
                 PROVE  KeyIsOf(u, q)
      BY DEF NewestDecides
    <2>0. q \in Record /\ q.device \in Device /\ q.epoch \in Nat
      BY <1>1, RecordFields DEF Tables
    <2>1. CASE q = r
      <3>1. CASE r.kind = "revoke-device"
        <4>1. CASE t.keys[r.device] = NoKey
          BY <1>1, <2>1, <3>1, <4>1 DEF KeyIsOf, Trusted, DeviceKeyAfter
        <4>2. CASE t.keys[r.device] # NoKey
          <5>1. t.keys[r.device] \in KeyRow
            BY <1>2, <4>2 DEF Tables
          <5>2. u.keys[r.device] = [t.keys[r.device] EXCEPT !.trusted = FALSE]
            BY <1>1, <3>1, <4>2 DEF DeviceKeyAfter
          <5>3. ~u.keys[r.device].trusted
            BY <5>1, <5>2 DEF KeyRow
          <5> QED BY <2>1, <3>1, <5>3 DEF KeyIsOf, Trusted
        <4> QED BY <4>1, <4>2
      <3>2. CASE r.kind # "revoke-device"
        BY <1>1, <2>1, <3>2 DEF KeyIsOf, DeviceKeyAfter
      <3> QED BY <3>1, <3>2
    <2>2. CASE q # r
      <3>1. q \in t.applied /\ Newest(t, q)
        BY <1>1, <2>2 DEF Newest
      <3>2. q.device # r.device
        BY <1>1, <1>2, <1>3, <2>0, <3>1 DEF Newest
      <3>3. u.keys[q.device] = t.keys[q.device]
        BY <1>1, <2>0, <3>2
      <3> QED BY <3>1, <3>3 DEF NewestDecides, KeyIsOf, Trusted
    <2> QED BY <2>1, <2>2
  <1>7. EpochsDiffer(u)
    BY <1>1, <1>2, <1>3 DEF EpochsDiffer
  <1>8. OneRoot(u)
    <2>1. \A q \in t.applied : Vouched(t, q) => Vouched(u, q)
      BY <1>1 DEF Vouched
    <2>2. CASE SignerTrusted(t, r)
      <3>1. Vouched(u, r)
        <4>1. PICK s \in t.applied : /\ s.device = r.signer
                                     /\ s.kind # "revoke-device"
                                     /\ s.key = t.keys[r.signer].key
                                     /\ s.epoch = t.keys[r.signer].epoch
          BY <1>2, <2>2 DEF KeyFromRecord, SignerTrusted, Trusted
        <4>2. s \in u.applied \ {r}
          BY <1>1, <1>3
        <4> QED BY <2>2, <4>1, <4>2 DEF Vouched, SignerTrusted
      <3> QED BY <1>1, <2>1, <3>1 DEF OneRoot
    <2>3. CASE Bootstraps(t, r)
      <3>1. t.applied = {}
        BY <2>3 DEF BootstrapClosed, Bootstraps
      <3> QED BY <1>1, <3>1 DEF OneRoot
    <2> QED BY <1>3, <2>2, <2>3 DEF Authorized
  <1> QED BY <1>1, <1>4, <1>5, <1>6, <1>7, <1>8 DEF u

(* Only stored and provider differ: the trust part of TablesInv is untouched. *)
LEMMA OtherTablesFree ==
    ASSUME NEW t, TablesInv(t), NEW u \in Tables,
           u.keys = t.keys, u.applied = t.applied
    PROVE  TablesInv(u)
  BY DEF TablesInv, KeyFromRecord, BootstrapClosed, NewestDecides, Newest,
         KeyIsOf, Trusted, EpochsDiffer, OneRoot, Vouched

-----------------------------------------------------------------------------

(* The empty database satisfies IInv. *)
LEMMA InitIInv == Init => IInv
  <1> SUFFICES ASSUME Init PROVE IInv
    OBVIOUS
  <1>1. db \in Tables
    BY DEF Init, Tables, NoTables
  <1>2. db.applied = {} /\ \A d \in Device : db.keys[d] = NoKey
    BY DEF Init, NoTables
  <1>3. TablesInv(db)
    BY <1>1, <1>2 DEF TablesInv, KeyFromRecord, BootstrapClosed, NewestDecides,
                      EpochsDiffer, OneRoot
  <1>4. work = db /\ batch = {} /\ root = {}
    BY DEF Init, NoTables
  <1> QED BY <1>2, <1>3, <1>4 DEF IInv, WorkExtendsDb

(* A write that leaves keys and applied records alone, outside a transaction. *)
LEMMA SideWriteKeepsIInv ==
    ASSUME IInv, ~InTransaction, db' \in Tables,
           db'.keys = db.keys, db'.applied = db.applied,
           work' = db', UNCHANGED <<root, batch>>
    PROVE  IInv'
  <1>1. TablesInv(db')
    BY OtherTablesFree DEF IInv
  <1> QED BY <1>1 DEF IInv, InTransaction, WorkExtendsDb

(* Every operation keeps IInv. *)
LEMMA NextIInv == IInv /\ [Next]_vars => IInv'
  <1> SUFFICES ASSUME IInv, [Next]_vars PROVE IInv'
    OBVIOUS
  <1>0. db \in Tables /\ work \in Tables
    BY DEF IInv, TablesInv
  <1>1. ASSUME NEW r \in Record, RecordSignedRecord(r) PROVE IInv'
    <2>1. /\ db' \in Tables /\ db'.keys = db.keys /\ db'.applied = db.applied
          /\ work' = db' /\ UNCHANGED <<root, batch>> /\ ~InTransaction
      BY <1>0, <1>1 DEF RecordSignedRecord, Tables
    <2> QED BY <2>1, SideWriteKeepsIInv
  <1>2. ASSUME ActivateLocalDevice PROVE IInv'
    <2>1. /\ db' \in Tables /\ db'.keys = db.keys /\ db'.applied = db.applied
          /\ work' = db' /\ UNCHANGED <<root, batch>> /\ ~InTransaction
      BY <1>0, <1>2 DEF ActivateLocalDevice, Tables
    <2> QED BY <2>1, SideWriteKeepsIInv
  <1>3. ASSUME NEW r \in Record, ApplyNextRecord(r) PROVE IInv'
    <2>1. CASE Accepts(work, r) /\ work' = ApplyRecord(work, r)
      <3>1. TablesInv(work')
        BY <2>1, AcceptedKeepsTablesInv DEF IInv
      <3>2. /\ work'.applied = work.applied \cup {r}
            /\ \A d \in Device : d # r.device => work'.keys[d] = work.keys[d]
        BY <1>0, <2>1, ApplyRecordTables
      <3>3. r \notin work.applied
        BY <2>1 DEF Accepts
      <3>4. Newest(db, r)
        <4>1. db.applied \subseteq work.applied /\ work.applied \subseteq Record
          BY <1>0 DEF IInv, WorkExtendsDb, Tables
        <4>2. \A s \in work.applied : s.device = r.device => ~(s.epoch >= r.epoch)
          BY <2>1 DEF Accepts, Stale
        <4>3. r.epoch \in Nat /\ \A s \in work.applied : s.epoch \in Nat
          BY <4>1, RecordFields
        <4> QED BY <4>1, <4>2, <4>3 DEF Newest
      <3>5. WorkExtendsDb'
        <4>1. db' = db
          BY <1>3 DEF ApplyNextRecord
        <4>2. db.applied \subseteq work'.applied
          BY <3>2 DEF IInv, WorkExtendsDb
        <4>3. ASSUME NEW d \in Device, work'.keys[d] # db.keys[d]
              PROVE  \E s \in work'.applied \ db.applied : s.device = d /\ Newest(db, s)
          <5>1. CASE d = r.device
            BY <3>2, <3>3, <3>4, <5>1 DEF IInv, WorkExtendsDb
          <5>2. CASE d # r.device
            BY <3>2, <4>3, <5>2 DEF IInv, WorkExtendsDb
          <5> QED BY <5>1, <5>2
        <4> QED BY <4>1, <4>2, <4>3 DEF WorkExtendsDb, Newest
      <3> QED BY <1>3, <3>1, <3>2, <3>5 DEF IInv, ApplyNextRecord
    <2>2. CASE Replays(work, r) /\ work' = work
      <3>1. r \in work.applied
        BY <2>2 DEF Replays
      <3> QED BY <1>3, <2>2, <3>1 DEF IInv, ApplyNextRecord, WorkExtendsDb, Newest
    <2> QED BY <1>3, <2>1, <2>2 DEF ApplyNextRecord
  <1>4. ASSUME NEW r \in Record, RefuseNextRecord(r) PROVE IInv'
    BY <1>4 DEF RefuseNextRecord, IInv, WorkExtendsDb
  <1>5. ASSUME CommitRecords \/ CommitLog PROVE IInv'
    <2>1. db' = work /\ work' = work /\ batch' = {} /\ root' \in {root, batch}
      BY <1>5 DEF CommitRecords, CommitLog
    <2> QED BY <2>1 DEF IInv, WorkExtendsDb
  <1>6. CASE UNCHANGED vars
    BY <1>6 DEF vars, IInv, WorkExtendsDb, Newest
  <1> QED BY <1>1, <1>2, <1>3, <1>4, <1>5, <1>6 DEF Next

(* IInv is an invariant of the trust store. *)
THEOREM SpecIInv == Spec => []IInv
  BY InitIInv, NextIInv, PTL DEF Spec

-----------------------------------------------------------------------------

(* Both views of the tables keep their types. *)
THEOREM TypeCorrect == Spec => []TypeOK
  <1>1. IInv => TypeOK
    <2> SUFFICES ASSUME IInv PROVE TypeOK
      OBVIOUS
    <2>1. db.applied \subseteq Record
      BY DEF IInv, TablesInv, Tables
    <2> QED BY <2>1 DEF IInv, TablesInv, TypeOK
  <1> QED BY <1>1, SpecIInv, PTL

(***************************************************************************)
(* For any records in any order and any batches: the trusted keys are what *)
(* the newest applied record of each device says, so a revoked device      *)
(* stays out until a record of a newer epoch enrolls it.                   *)
(***************************************************************************)
THEOREM TrustIsCurrent == Spec => []TrustFollowsNewest
  <1>1. IInv => TrustFollowsNewest
    BY DEF IInv, TablesInv, NewestDecides, KeyFromRecord, TrustFollowsNewest
  <1> QED BY <1>1, SpecIInv, PTL

(* Conflicting records of one device and epoch never both take effect. *)
THEOREM EpochsHaveOneRecord == Spec => []OneRecordPerEpoch
  <1>1. IInv => OneRecordPerEpoch
    BY DEF IInv, TablesInv, EpochsDiffer, OneRecordPerEpoch
  <1> QED BY <1>1, SpecIInv, PTL

(***************************************************************************)
(* However records are interleaved, all trust descends from one            *)
(* self-signed enrollment.                                                 *)
(***************************************************************************)
THEOREM TrustHasOneRoot == Spec => []SingleRootOfTrust
  <1>1. IInv => SingleRootOfTrust
    BY DEF IInv, TablesInv, OneRoot, SingleRootOfTrust
  <1> QED BY <1>1, SpecIInv, PTL

(* The stored log root never names a record that is not applied here. *)
THEOREM RootsAreApplied == Spec => []RootIsApplied
  <1>1. IInv => RootIsApplied
    BY DEF IInv, RootIsApplied
  <1> QED BY <1>1, SpecIInv, PTL

(***************************************************************************)
(* A committed key row changes only together with a record that is newer   *)
(* than all applied for that device.                                       *)
(***************************************************************************)
THEOREM KeysMoveOnlyForward == Spec => KeysMoveWithNewRecords
  <1> DEFINE Moves == \A d \in Device :
                         db'.keys[d] # db.keys[d] =>
                            \E r \in db'.applied \ db.applied :
                               r.device = d /\ Newest(db, r)
  <1>1. IInv /\ [Next]_vars => [Moves]_vars
    <2> SUFFICES ASSUME IInv, Next PROVE Moves
      OBVIOUS
    <2>1. CASE db'.keys = db.keys
      BY <2>1
    <2>2. CASE db' = work
      BY <2>2 DEF IInv, WorkExtendsDb
    <2>3. db'.keys = db.keys \/ db' = work
      <3>1. db \in Tables
        BY DEF IInv, TablesInv
      <3> QED BY <3>1 DEF Next, RecordSignedRecord, ActivateLocalDevice, ApplyNextRecord,
                          RefuseNextRecord, CommitRecords, CommitLog, Tables
    <2> QED BY <2>1, <2>2, <2>3
  <1>2. Spec => [][Moves]_vars
    BY <1>1, SpecIInv, PTL DEF Spec
  <1> QED BY <1>2 DEF KeysMoveWithNewRecords

=============================================================================
