---------------------------- MODULE MCSettingsLog ----------------------------
(* SettingsLog and AppRecords on small instances. *)
EXTENDS AppRecords

CONSTANTS s1, s2, u1

(* Device ids as the ranks of their strings. *)
TwoDevices == {1, 2}

(* Row contents, their tombstone and bookmark payloads. *)
AppValue == Text \cup {Deleted} \cup Payload

(* A first-run bookmark in one slot; the other is empty. *)
FirstRun == {[slot |-> s1, url |-> u1]}

=============================================================================
