----------------------------- MODULE SettingsLog -----------------------------
(***************************************************************************)
(* The replicated settings log of crates/storage: every device keeps the   *)
(* tables settings_changes, settings_revisions and settings_values of one  *)
(* profile.  A local write appends a change of the device's own; a change  *)
(* of another device is applied whenever it arrives, in any order and any  *)
(* number of times.  Each operation is one SQLite transaction, hence one   *)
(* action.  How changes travel is the business of other modules: here any  *)
(* change that was ever written may reach any device at any time, or none. *)
(* Values that travel in snapshots arrive as changes of another make; they *)
(* are part of SyncCycle.                                                  *)
(*                                                                         *)
(* A key stands for a (domain, key) pair of the profile.  Device ids are   *)
(* strings compared lexicographically; the integers in Device stand for    *)
(* their places in that order.                                             *)
(***************************************************************************)
EXTENDS SettingsOrder, Sequences, FiniteSets, FiniteSetsExt

CONSTANTS Device,             \* device ids, as their ranks in string order
          Key,                \* (domain, key) pairs
          Value,              \* setting texts
          NoValue,            \* "no row in settings_values"
          MaxDeviceSequence   \* bound on the local writes of one device

ASSUME DeviceAssumption == Device \subseteq Int
ASSUME NoValueAssumption == NoValue \notin Value
ASSUME BoundAssumption == MaxDeviceSequence \in Nat

VARIABLES changes,     \* changes[d]: rows of settings_changes
          applied,     \* applied[d]: those with applied_at NOT NULL
          revisions,   \* revisions[d]: the change of each settings_revisions row
          values       \* values[d][k]: settings_values

vars == <<changes, applied, revisions, values>>

Change == [key : Key, value : Value, device : Device,
           seq : Nat \ {0}, clock : Nat \ {0}]

TypeOK == /\ changes \in [Device -> SUBSET Change]
          /\ applied \in [Device -> SUBSET Change]
          /\ revisions \in [Device -> Seq(Change)]
          /\ values \in [Device -> [Key -> Value \cup {NoValue}]]

-----------------------------------------------------------------------------

NextDeviceSequence(d) ==
    Max({0} \cup {c.seq : c \in {x \in changes[d] : x.device = d}}) + 1

NextLogicalClock(d) == Max({0} \cup {c.clock : c \in changes[d]}) + 1

(* Variant of InsertApplied: no revision row, so no event. *)
InsertWithoutRevision(d, c) ==
    /\ changes' = [changes EXCEPT ![d] = @ \cup {c}]
    /\ applied' = [applied EXCEPT ![d] = @ \cup {c}]
    /\ values' = [values EXCEPT ![d][c.key] = c.value]
    /\ UNCHANGED revisions

(* insert_sync_setting_text_change_in_transaction: the change row, its     *)
(* revision row and the value row.                                         *)
InsertApplied(d, c) ==
    /\ changes' = [changes EXCEPT ![d] = @ \cup {c}]
    /\ applied' = [applied EXCEPT ![d] = @ \cup {c}]
    /\ revisions' = [revisions EXCEPT ![d] = Append(@, c)]
    /\ values' = [values EXCEPT ![d][c.key] = c.value]

(* A change that lost is kept, so that it is recognised when seen again. *)
InsertUnapplied(d, c) ==
    /\ changes' = [changes EXCEPT ![d] = @ \cup {c}]
    /\ UNCHANGED <<applied, revisions, values>>

DeviceSequenceKnown(d, c) ==
    \E x \in changes[d] : x.device = c.device /\ x.seq = c.seq

-----------------------------------------------------------------------------

Init == /\ changes = [d \in Device |-> {}]
        /\ applied = [d \in Device |-> {}]
        /\ revisions = [d \in Device |-> << >>]
        /\ values = [d \in Device |-> [k \in Key |-> NoValue]]

(* Variant of LocalChange: sequences are counted key by key. *)
LocalChangeOfKey(d, k, v) ==
    [key |-> k, value |-> v, device |-> d,
     seq |-> Max({0} \cup {c.seq : c \in {x \in changes[d] : x.device = d /\ x.key = k}}) + 1,
     clock |-> NextLogicalClock(d)]

LocalChange(d, k, v) ==
    [key |-> k, value |-> v, device |-> d,
     seq |-> NextDeviceSequence(d), clock |-> NextLogicalClock(d)]

SetSyncSettingText(d, k, v) ==
    /\ NextDeviceSequence(d) <= MaxDeviceSequence
    /\ InsertApplied(d, LocalChange(d, k, v))

Written == UNION {changes[d] : d \in Device}

ApplySyncSettingText(d, c) ==
    /\ ~DeviceSequenceKnown(d, c)
    /\ \/ SettingChangeWins(c, applied[d]) /\ InsertApplied(d, c)
       \/ ~SettingChangeWins(c, applied[d]) /\ InsertUnapplied(d, c)

(* A change seen before is answered with the stored row. *)
ReplaySyncSettingText(d, c) ==
    /\ DeviceSequenceKnown(d, c)
    /\ UNCHANGED vars

Next == \E d \in Device :
           \/ \E k \in Key, v \in Value : SetSyncSettingText(d, k, v)
           \/ \E c \in Written : ApplySyncSettingText(d, c)
           \/ \E c \in Written : ReplaySyncSettingText(d, c)

Spec == Init /\ [][Next]_vars

-----------------------------------------------------------------------------

(***************************************************************************)
(* The value shown for a key is that of the greatest change the device     *)
(* knows for it, whether that change was applied or only recorded          *)
(* (apply_sync_setting_text_in_transaction compares with applied rows      *)
(* only): no order of arrival leaves an older value in place.              *)
(***************************************************************************)
ViewIsWinner ==
    \A d \in Device, k \in Key :
       IF OfKey(changes[d], k) = {} THEN values[d][k] = NoValue
       ELSE \E w \in OfKey(changes[d], k) :
               SyncSettingWinner(w, OfKey(changes[d], k)) /\ values[d][k] = w.value

(***************************************************************************)
(* Two devices that know the same changes show the same values, whatever   *)
(* the orders in which the changes reached them.                           *)
(***************************************************************************)
Convergence ==
    \A d, e \in Device : changes[d] = changes[e] => values[d] = values[e]

(***************************************************************************)
(* (device, device_sequence) identifies a change across all devices, which *)
(* is what the duplicate test of apply_sync_setting_text_in_transaction    *)
(* relies on to discard nothing but duplicates.                            *)
(***************************************************************************)
SequenceIdentifiesChange ==
    \A a, b \in Written : a.device = b.device /\ a.seq = b.seq => a = b

(***************************************************************************)
(* An application that reads the events of settings_revisions in order     *)
(* never sees a key go back to an older change, and ends at the value in   *)
(* settings_values.                                                        *)
(***************************************************************************)
EventsLeadToView ==
    \A d \in Device :
       /\ \A i, j \in DOMAIN revisions[d] :
             /\ i < j
             /\ revisions[d][i].key = revisions[d][j].key
             => Precedes(revisions[d][i], revisions[d][j])
       /\ \A k \in Key :
             \/ values[d][k] = NoValue
             \/ \E i \in DOMAIN revisions[d] :
                   /\ revisions[d][i].key = k
                   /\ revisions[d][i].value = values[d][k]
                   /\ \A j \in DOMAIN revisions[d] :
                         j > i => revisions[d][j].key # k

(***************************************************************************)
(* A change a user makes on a device takes effect there at once and wins   *)
(* over everything the device knew: a step that adds a change of the       *)
(* device's own leaves its value in the view, with no known change above   *)
(* it (record_sync_setting_text_in_transaction applies unconditionally).   *)
(***************************************************************************)
LocalWriteWins ==
    [][\A d \in Device : \A c \in changes'[d] \ changes[d] :
          c.device = d => /\ values'[d][c.key] = c.value
                          /\ \A x \in changes[d] : Precedes(x, c)]_vars

LWW == INSTANCE LastWriterWins WITH heard <- changes, shown <- values

(***************************************************************************)
(* The log implements a map in which the last writer wins: with clocks     *)
(* that are counted, duplicates that are recognised by their sequence and  *)
(* a comparison with the applied rows only, each device shows the greatest *)
(* change it has heard of after every step, and writes above all of them.  *)
(***************************************************************************)
ImplementsLastWriterWins == LWW!Spec

=============================================================================
