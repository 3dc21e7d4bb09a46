------------------------ MODULE MCProfileSyncService ------------------------
(* ProfileSyncService with two logged-in devices and two objects. *)
EXTENDS ProfileSyncService, TLC

CONSTANTS Laptop, Phone, Manifest, Head

Providers == {Laptop, Phone}

Objects == {Manifest, Head}

(* ProfileSyncProviderRoles::logged_in_device *)
LoggedInDevices == [p \in Providers |-> Role]

(* The devices have the same roles, and nothing looks into an object. *)
Symmetry == Permutations(Providers) \cup Permutations(Objects)

=============================================================================
