-------------------------- MODULE MCRetentionCycle --------------------------
(* RetentionCycle: a laptop and an availability provider, and changes in   *)
(* two domains.                                                            *)
EXTENDS RetentionCycle

CONSTANTS Laptop, Disk

Providers == {Laptop, Disk}

(* ProfileSyncProviderRoles::logged_in_device and ::availability_provider *)
ProviderRoles == [p \in Providers |-> IF p = Laptop THEN Role ELSE Role \ {"mutable_roots"}]

HandleOrder == <<Disk>>

TwoDomains == <<1, 2, 1>>

Objects == {"snapshot", "tails", "manifest", "head"} \X (1..MaxAttempts)

=============================================================================
