----------------------------- MODULE MCMembership -----------------------------
(***************************************************************************)
(* Membership on a small account: two devices and a provider, two keys and *)
(* three epochs, and a set of records that compete with each other.        *)
(***************************************************************************)
EXTENDS Membership

CONSTANTS a, b, p, k1, k2

MCRecordId == (1..3) \X Kind \X Device

(* The id names epoch, kind and device, as profile_sync_enroll_device_record_id *)
(* does: records for them that are signed differently share it.               *)
Signed(epoch, kind, device, key, signer, signerKey) ==
    [id |-> <<epoch, kind, device>>, epoch |-> epoch, kind |-> kind,
     device |-> device, key |-> key, signer |-> signer, signerKey |-> signerKey]

MCRecord ==
    {Signed(1, "enroll-device", a, k1, a, k1),       \* two claims to be first
     Signed(1, "enroll-device", b, k1, b, k1),
     Signed(1, "enroll-device", b, k1, a, k1),
     Signed(1, "enroll-provider", p, k1, a, k1),
     Signed(2, "rotate-device-key", a, k2, a, k1),   \* a replaces its own key
     Signed(2, "rotate-device-key", b, k2, a, k1),   \* three fates for b in one epoch
     Signed(2, "revoke-device", b, NoKey, a, k1),
     Signed(2, "revoke-device", b, NoKey, a, k2),
     Signed(2, "revoke-device", a, NoKey, b, k1),
     Signed(2, "revoke-device", a, NoKey, a, k1),    \* a leaves by itself
     Signed(2, "revoke-device", a, NoKey, p, k1),    \* a provider tries to sign
     Signed(3, "enroll-device", b, k2, a, k1),       \* back after a revocation
     Signed(3, "enroll-device", a, k2, a, k2),
     Signed(3, "revoke-device", b, NoKey, b, k2)}    \* b leaves by itself

=============================================================================
