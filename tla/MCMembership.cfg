SPECIFICATION Spec
CONSTANTS
    a = a
    b = b
    p = p
    k1 = k1
    k2 = k2
    NoKey = NoKey
    MaxPending = 1
    MaxBatch = 3
    Device = {a, b, p}
    PublicKey = {k1, k2}
    RecordId <- MCRecordId
    Record <- MCRecord
    Local = p
INVARIANTS TrustFollowsNewest SingleRootOfTrust RootIsApplied
