----------------------------- MODULE AppRecords ------------------------------
(***************************************************************************)
(* The typed tables of crates/storage beside the settings log.  Settings,  *)
(* downloads, calendar events, chat conversations, contact cards, files    *)
(* and storage providers each have a table whose rows are keyed as the     *)
(* changes of their domain are; home bookmarks have a row per url, while   *)
(* their changes are keyed by slot.  A local operation writes the row and  *)
(* the change in one transaction; a change that arrives rewrites the row   *)
(* if it wins.  A removal is a change too, a tombstone.                    *)
(*                                                                         *)
(* An entity is a row's (domain, id) pair; a setting is an entity that no  *)
(* operation removes.  A Text stands for all other columns of a row.       *)
(***************************************************************************)
EXTENDS SettingsLog

CONSTANTS Entity,    \* keys of the tables with a row per key
          Slot,      \* home bookmark slots
          Text,      \* contents of an entity's row
          Url,
          Deleted,   \* the payload of an entity's tombstone
          NoRow,
          NoUrl,
          NoSave,
          Seed,      \* the bookmark rows of a new profile
          MaxChanges \* bound on the changes of all devices

Payload == [url : Url, replaced : Url \cup {NoUrl}, deleted : BOOLEAN]

Bookmark == [slot : Slot, url : Url]

(* At most one row per slot and one per url, the table's UNIQUE constraint. *)
OneRowEach(H) == \A x, y \in H : x.slot = y.slot \/ x.url = y.url => x = y

ASSUME KeyAssumption == Key = Entity \cup Slot /\ Entity \cap Slot = {}
ASSUME ValueAssumption == Value = Text \cup {Deleted} \cup Payload
ASSUME NullAssumption == Deleted \notin Text /\ NoRow \notin Text /\ NoUrl \notin Url
ASSUME NoSaveAssumption == NoSave \notin [slot : Slot, value : Payload]
ASSUME MaxChangesAssumption == MaxChanges \in Nat
ASSUME SeedAssumption == Seed \subseteq Bookmark /\ OneRowEach(Seed)

VARIABLES rows,     \* rows[d][e]: the row of e in its table
          home,     \* home[d]: the rows of bookmarks
          saving    \* saving[d]: the slot d's shell is about to save

appVars == <<vars, rows, home, saving>>

(* The payload of a change is of its key's kind. *)
OfKind(k, v) == IF k \in Entity THEN v \in Text \cup {Deleted} ELSE v \in Payload

AppTypeOK ==
    /\ \A d \in Device : \A c \in changes[d] : OfKind(c.key, c.value)
    /\ rows \in [Device -> [Entity -> Text \cup {NoRow}]]
    /\ home \in [Device -> SUBSET Bookmark]
    /\ saving \in [Device -> [slot : Slot, value : Payload] \cup {NoSave}]

-----------------------------------------------------------------------------

RowOf(v) == IF v = Deleted THEN NoRow ELSE v

(* Variant of PlaceBookmark: a url may stay in another slot. *)
PlaceBookmarkInSlot(H, p, b) ==
    {x \in H : x.slot # p} \cup IF b.deleted THEN {} ELSE {[slot |-> p, url |-> b.url]}

(* Variant of PlaceBookmark: without a replaced url the last condition     *)
(* holds of every row.                                                     *)
PlaceBookmarkAlone(H, p, b) ==
    {x \in H : b.replaced # NoUrl /\ x.slot # p /\ x.url \notin {b.url, b.replaced}}
    \cup IF b.deleted THEN {} ELSE {[slot |-> p, url |-> b.url]}

(* A slot's payload takes the place of what is in the slot and of the rows *)
(* of its own url and of the url it replaced, wherever they are.           *)
PlaceBookmark(H, p, b) ==
    {x \in H : x.slot # p /\ x.url \notin {b.url, b.replaced}}
    \cup IF b.deleted THEN {} ELSE {[slot |-> p, url |-> b.url]}

(* apply_sync_setting_materialized_view_in_transaction *)
Materialize(d, c) ==
    \/ /\ c.key \in Entity
       /\ rows' = [rows EXCEPT ![d][c.key] = RowOf(c.value)]
       /\ UNCHANGED home
    \/ /\ c.key \in Slot
       /\ home' = [home EXCEPT ![d] = PlaceBookmark(@, c.key, c.value)]
       /\ UNCHANGED rows

-----------------------------------------------------------------------------

AppInit == /\ Init
           /\ rows = [d \in Device |-> [e \in Entity |-> NoRow]]
           /\ home = [d \in Device |-> Seed]
           /\ saving = [d \in Device |-> NoSave]

MoreChanges == Cardinality(Written) < MaxChanges

UpsertRecord(d, e, t) ==
    /\ MoreChanges
    /\ SetSyncSettingText(d, e, t)
    /\ rows' = [rows EXCEPT ![d][e] = t]
    /\ UNCHANGED <<home, saving>>

(* Only the removal of a row that exists is a change. *)
RemoveRecord(d, e) ==
    /\ MoreChanges
    /\ rows[d][e] # NoRow
    /\ SetSyncSettingText(d, e, Deleted)
    /\ rows' = [rows EXCEPT ![d][e] = NoRow]
    /\ UNCHANGED <<home, saving>>

ReplacedUrl(H, p) ==
    IF \E x \in H : x.slot = p THEN (CHOOSE x \in H : x.slot = p).url ELSE NoUrl

(* The shell reads the bookmarks to find what the slot replaces, and       *)
(* writes in a transaction of its own: a change may arrive in between.     *)
LoadHomeBookmarks(d, p, u) ==
    /\ saving[d] = NoSave
    /\ MoreChanges /\ NextDeviceSequence(d) <= MaxDeviceSequence
    /\ saving' = [saving EXCEPT ![d] =
                     [slot |-> p,
                      value |-> [url |-> u, replaced |-> ReplacedUrl(home[d], p), deleted |-> FALSE]]]
    /\ UNCHANGED <<vars, rows, home>>

SetBookmarkSlot(d) ==
    /\ saving[d] # NoSave
    /\ MoreChanges
    /\ SetSyncSettingText(d, saving[d].slot, saving[d].value)
    /\ home' = [home EXCEPT ![d] = PlaceBookmark(@, saving[d].slot, saving[d].value)]
    /\ saving' = [saving EXCEPT ![d] = NoSave]
    /\ UNCHANGED rows

RemoveBookmark(d, x) ==
    /\ MoreChanges
    /\ SetSyncSettingText(d, x.slot, [url |-> x.url, replaced |-> NoUrl, deleted |-> TRUE])
    /\ home' = [home EXCEPT ![d] = {y \in @ : y.url # x.url}]
    /\ UNCHANGED <<rows, saving>>

(* Variant of ApplyRecord: the row is written whichever change wins. *)
ApplyRecordAlways(d, c) ==
    /\ ApplySyncSettingText(d, c)
    /\ Materialize(d, c)
    /\ UNCHANGED saving

(* apply_sync_setting_text_in_transaction, with the rows it writes. *)
ApplyRecord(d, c) ==
    /\ ApplySyncSettingText(d, c)
    /\ \/ SettingChangeWins(c, applied[d]) /\ Materialize(d, c)
       \/ ~SettingChangeWins(c, applied[d]) /\ UNCHANGED <<rows, home>>
    /\ UNCHANGED saving

ReplayRecord(d, c) == ReplaySyncSettingText(d, c) /\ UNCHANGED <<rows, home, saving>>

AppNext == \E d \in Device :
              \/ \E e \in Entity, t \in Text : UpsertRecord(d, e, t)
              \/ \E e \in Entity : RemoveRecord(d, e)
              \/ \E p \in Slot, u \in Url : LoadHomeBookmarks(d, p, u)
              \/ SetBookmarkSlot(d)
              \/ \E x \in home[d] : RemoveBookmark(d, x)
              \/ \E c \in Written : ApplyRecord(d, c)
              \/ \E c \in Written : ReplayRecord(d, c)

AppSpec == AppInit /\ [][AppNext]_appVars

-----------------------------------------------------------------------------

(* What is known of k is settled by w, the greatest change of it. *)
Settled(d, k, w) == w \in OfKey(changes[d], k) /\ SyncSettingWinner(w, OfKey(changes[d], k))

(***************************************************************************)
(* A record is what the greatest change known for it says, whatever order  *)
(* the changes came in: an edit that loses leaves no trace in the table, a *)
(* removed record does not come back with an older edit that arrives late, *)
(* and a local removal is never lost between the row and the log.          *)
(***************************************************************************)
RowIsWinner ==
    \A d \in Device, e \in Entity :
       IF OfKey(changes[d], e) = {} THEN rows[d][e] = NoRow
       ELSE \E w \in OfKey(changes[d], e) : Settled(d, e, w) /\ rows[d][e] = RowOf(w.value)

(***************************************************************************)
(* A home bookmark that is shown is current: it is what the greatest       *)
(* change of its slot says, or a first-run bookmark in a slot nothing was  *)
(* said of.  No slot shows two, and no url is inserted twice, which the    *)
(* UNIQUE constraint of the table would turn into a failed pull            *)
(* (apply_bookmark_slot_sync_payload_in_transaction).                      *)
(***************************************************************************)
HomeIsCurrent ==
    \A d \in Device :
       /\ OneRowEach(home[d])
       /\ \A x \in home[d] :
             \/ OfKey(changes[d], x.slot) = {} /\ x \in Seed
             \/ \E w \in OfKey(changes[d], x.slot) :
                   Settled(d, x.slot, w) /\ ~w.value.deleted /\ w.value.url = x.url

(***************************************************************************)
(* A bookmark goes missing for a reason only: when the greatest change of  *)
(* a slot names a url and the slot does not show it, a change of another   *)
(* slot that was applied here names that url, as its own or as the one it  *)
(* replaced.                                                               *)
(***************************************************************************)
LossIsExplained ==
    \A d \in Device, p \in Slot : \A w \in OfKey(changes[d], p) :
       /\ Settled(d, p, w)
       /\ ~w.value.deleted
       /\ [slot |-> p, url |-> w.value.url] \notin home[d]
       => \E c \in applied[d] : /\ c.key \in Slot \ {p}
                                /\ w.value.url \in {c.value.url, c.value.replaced}

=============================================================================
