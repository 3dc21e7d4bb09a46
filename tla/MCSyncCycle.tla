----------------------------- MODULE MCSyncCycle -----------------------------
(* SyncCycle on small instances. *)
EXTENDS SyncCycle

(* Device ids as the ranks of their strings: "device-..." before "snapshot". *)
TwoDevices == {1, 2}
ThreeDevices == {1, 2, 3}
FirstDevice == {1}
NoDevice == {}

(* Two settings in two domains. *)
TwoKeys == {"k1", "k2"}
TwoDomains == [k \in TwoKeys |-> IF k = "k1" THEN 1 ELSE 2]

=============================================================================
