-------------------------- MODULE MembershipRecords --------------------------
(***************************************************************************)
(* What one signed membership record does to the trust tables of a profile *)
(* database (crates/storage): who may sign it, when it is refused, and     *)
(* what it changes.  A record stands for its signed bytes: a field of it   *)
(* was signed with signerKey, which decoding has verified.                 *)
(***************************************************************************)
EXTENDS Integers, FiniteSets

CONSTANTS Device,      \* device and provider ids
          PublicKey,   \* public keys
          NoKey,       \* "no key": no row, or a record that carries none
          RecordId,    \* membership record ids
          Record       \* the signed records in circulation

Kind == {"enroll-device", "enroll-provider", "rotate-device-key", "revoke-device"}

ASSUME RecordAssumption ==
    /\ Record \subseteq [id : RecordId, epoch : Nat \ {0}, kind : Kind,
                         device : Device, key : PublicKey \cup {NoKey},
                         signer : Device, signerKey : PublicKey]
    /\ \A r \in Record : r.kind # "revoke-device" => r.key \in PublicKey

KeyRow == [key : PublicKey, epoch : Nat \ {0}, trusted : BOOLEAN]

ASSUME NoKeyAssumption == NoKey \notin PublicKey /\ NoKey \notin KeyRow

(* keys is sync_device_public_keys, provider the provider_authority column *)
(* of sync_devices, stored and applied sync_account_membership_records.    *)
Tables == [keys : [Device -> KeyRow \cup {NoKey}],
           provider : [Device -> BOOLEAN],
           stored : SUBSET Record,
           applied : SUBSET Record]

NoTables == [keys |-> [d \in Device |-> NoKey],
             provider |-> [d \in Device |-> FALSE],
             stored |-> {}, applied |-> {}]

-----------------------------------------------------------------------------

Trusted(t, d) == t.keys[d] # NoKey /\ t.keys[d].trusted

(* Variant of Bootstraps: the profile has no trusted key, rather than none. *)
BootstrapsUntrusted(t, r) ==
    /\ \A d \in Device : ~Trusted(t, d)
    /\ r.kind = "enroll-device"
    /\ r.device = r.signer
    /\ r.key = r.signerKey

(* The first key of a profile may vouch for itself. *)
Bootstraps(t, r) ==
    /\ \A d \in Device : t.keys[d] = NoKey
    /\ r.kind = "enroll-device"
    /\ r.device = r.signer
    /\ r.key = r.signerKey

(* Variant of SignerTrusted: the signing key is not compared. *)
SignerTrustedByName(t, r) ==
    /\ Trusted(t, r.signer)
    /\ ~t.provider[r.signer]
    /\ t.keys[r.signer].epoch <= r.epoch

SignerTrusted(t, r) ==
    /\ Trusted(t, r.signer)
    /\ ~t.provider[r.signer]
    /\ t.keys[r.signer].epoch <= r.epoch
    /\ t.keys[r.signer].key = r.signerKey

Authorized(t, r) == Bootstraps(t, r) \/ SignerTrusted(t, r)

ConflictingBytes(t, r) == \E s \in t.stored : s.id = r.id /\ s # r

(* Variant of Stale: other kinds are not compared. *)
StaleOfKind(t, r) ==
    \E s \in t.applied :
       s.device = r.device /\ s.kind = r.kind /\ s.epoch >= r.epoch

Stale(t, r) == \E s \in t.applied : s.device = r.device /\ s.epoch >= r.epoch

InvalidTransition(t, r) ==
    \/ r.kind \in {"enroll-device", "enroll-provider"} /\ Trusted(t, r.device)
    \/ r.kind = "rotate-device-key" /\ ~Trusted(t, r.device)

DeviceKeyAfter(t, r) ==
    IF r.kind # "revoke-device"
    THEN [key |-> r.key, epoch |-> r.epoch, trusted |-> TRUE]
    ELSE IF t.keys[r.device] = NoKey THEN NoKey
         ELSE [t.keys[r.device] EXCEPT !.trusted = FALSE]

ProviderAfter(t, r) ==
    CASE r.kind = "enroll-device" -> FALSE
      [] r.kind = "enroll-provider" -> TRUE
      [] OTHER -> t.provider[r.device]

ApplyRecord(t, r) ==
    [keys |-> [t.keys EXCEPT ![r.device] = DeviceKeyAfter(t, r)],
     provider |-> [t.provider EXCEPT ![r.device] = ProviderAfter(t, r)],
     stored |-> t.stored \cup {r},
     applied |-> t.applied \cup {r}]

(* Variant of Replays: stale records are refused first. *)
ReplaysUnlessStale(t, r) ==
    Authorized(t, r) /\ ~ConflictingBytes(t, r) /\ ~Stale(t, r) /\ r \in t.applied

(* The record was applied before: nothing is written. *)
Replays(t, r) == Authorized(t, r) /\ ~ConflictingBytes(t, r) /\ r \in t.applied

Accepts(t, r) == /\ Authorized(t, r)
                 /\ ~ConflictingBytes(t, r)
                 /\ r \notin t.applied
                 /\ ~Stale(t, r)
                 /\ ~InvalidTransition(t, r)

=============================================================================
