--------------------------- MODULE SettingsWatcher ---------------------------
(***************************************************************************)
(* How the desktop shell keeps its settings in memory in step with the     *)
(* profile database: the cursor-backed watcher of crates/storage           *)
(* (AppSyncDomainWatcher), polled by the event loop of crates/chrome, and  *)
(* the slate://settings handler, which runs on another thread.  The cursor *)
(* is a row of sync_state, one for the profile and domain, and every       *)
(* statement on it is a transaction of its own.  Several instances of the  *)
(* shell may have the same database open; sync applies changes to it at    *)
(* any time.                                                               *)
(*                                                                         *)
(* The zoom is an atomic of its own; the key bindings are one value that   *)
(* is copied, changed and stored back.  A text that does not parse is Bad. *)
(* The tables settings and settings_values both hold the last applied      *)
(* change of a key, so View reads them from revisions.                     *)
(***************************************************************************)
EXTENDS Integers, Sequences, FiniteSets, FiniteSetsExt

CONSTANTS Instance,       \* running shells on one database
          Zoom,           \* the key chrome.zoom
          Binding,        \* the keys of the key bindings
          OtherKey,       \* keys of other sync domains
          Value, Default, \* parsed settings, and the default of each
          Bad,            \* a text that does not parse
          None,           \* no row
          Request,        \* the bindings a save request may carry
          BatchLimit,     \* batch_limit of the watcher
          MaxRemote, MaxSaves, MaxLaunches, MaxFailures   \* bounds on the environment

Key == {Zoom} \cup Binding

ASSUME ValueAssumption == /\ Default \in Value
                          /\ Bad \notin Value /\ None \notin Value \cup {Bad} \cup Nat
ASSUME KeyAssumption == Binding # {} /\ Zoom \notin Binding /\ OtherKey \cap Key = {}
ASSUME RequestAssumption ==
    Request \subseteq UNION {[B -> Value \cup {Bad}] : B \in SUBSET Binding}
ASSUME BoundAssumption == /\ BatchLimit \in Nat \ {0}
                          /\ {MaxRemote, MaxSaves, MaxLaunches, MaxFailures} \subseteq Nat

VARIABLES revisions,   \* settings_revisions: the key and text of each row
          cursor,      \* the row of sync_state, or None
          runtime,     \* runtime[i]: the zoom and the bindings in memory
          pc,          \* pc[i]: where the event-loop thread is
          stage,       \* stage[i]: what it is doing
          todo,        \* todo[i]: settings still to load
          poll,        \* poll[i]: revision of the poll under way, events left
          save,        \* save[i]: the request the handler works on
          unsaved,     \* unsaved[i]: history: settings that are not in the database, as
                       \* a preview or by a write that failed
          remote, saves, launches, failures

tables == <<revisions, cursor>>
bounds == <<remote, saves, launches, failures>>
vars == <<tables, runtime, pc, stage, todo, poll, save, unsaved, bounds>>

Event == [key : Key \cup OtherKey, value : Value \cup {Bad}]

(* Rows never change, so an event that was read is known by its revision.  *)
NoPoll == [revision |-> 0, events |-> {}, copy |-> << >>]

NoSave == [step |-> "none"]

(* The bindings of a request, and those that are set and written. *)
Requested == UNION {[B -> Value \cup {Bad}] : B \in (SUBSET Binding) \ {{}}}
SaveState ==
    {NoSave}
    \cup [step : {"zoom"}, zoom : Value, bindings : Request, left : {{}}]
    \cup [step : {"merge"}, zoom : Value, bindings : Requested, left : {{}}]
    \cup [step : {"set"}, zoom : Value, bindings : [Binding -> Value], left : {{}}]
    \cup [step : {"persist"}, zoom : Value, bindings : [Binding -> Value],
          left : (SUBSET Binding) \ {{}}]

(* The revisions at which a setting of K changed. *)
Rows(K) == {n \in DOMAIN revisions : revisions[n].key \in K}

PollState == [revision : Rows(Key) \cup {0}, events : SUBSET Rows(Key),
              copy : [Key -> Value] \cup {<< >>}]

EventLoopAt == {"off", "load", "default", "cursor", "head", "fetch", "apply",
                "store", "current", "write"}

(* The cursor is a revision of the settings domain: other domains do not    *)
(* move it (ensure_app_sync_domain_cursor_at_domain_head).                  *)
TypeOK ==
    /\ revisions \in Seq(Event)
    /\ cursor \in Rows(Key) \cup {0, None}
    /\ runtime \in [Instance -> [Key -> Value]]
    /\ pc \in [Instance -> EventLoopAt]
    /\ stage \in [Instance -> {"first", "second", "running"}]
    /\ todo \in [Instance -> SUBSET Key]
    /\ poll \in [Instance -> PollState]
    /\ save \in [Instance -> SaveState]
    /\ unsaved \in [Instance -> SUBSET Key]

-----------------------------------------------------------------------------

(* get_setting_text *)
View(k) == IF Rows({k}) = {} THEN None ELSE revisions[Max(Rows({k}))].value

(* Variant of DomainHead: that of the whole profile. *)
ProfileHead == Len(revisions)

DomainHead == Max({0} \cup Rows(Key))

(* The revisions of the next batch after revision n. *)
EventsAfter(n) ==
    {m \in Rows(Key) :
        m > n /\ Cardinality({x \in Rows(Key) : n < x /\ x <= m}) <= BatchLimit}

(* What a text of a binding, or the text stored for the zoom, is read as. *)
Parsed(v) == IF v \in Value THEN v ELSE Default

(* Settings are gone through in a fixed order, the zoom last. *)
NextKey(S) == CHOOSE k \in S : S # {Zoom} => k # Zoom

Record(k, v) == revisions' = Append(revisions, [key |-> k, value |-> v])

(* set_setting_text for a save: an error is only logged, and memory keeps   *)
(* what was set.                                                            *)
Persist(i, k, v) ==
    \/ Record(k, v) /\ UNCHANGED <<unsaved, failures>>
    \/ /\ failures < MaxFailures
       /\ failures' = failures + 1
       /\ unsaved' = [unsaved EXCEPT ![i] = @ \cup {k}]
       /\ UNCHANGED revisions

Goto(i, where) == pc' = [pc EXCEPT ![i] = where]

-----------------------------------------------------------------------------

Init == /\ revisions = << >>
        /\ cursor = None
        /\ runtime = [i \in Instance |-> [k \in Key |-> Default]]
        /\ pc = [i \in Instance |-> "off"]
        /\ stage = [i \in Instance |-> "first"]
        /\ todo = [i \in Instance |-> {}]
        /\ poll = [i \in Instance |-> NoPoll]
        /\ save = [i \in Instance |-> NoSave]
        /\ unsaved = [i \in Instance |-> {}]
        /\ remote = 0 /\ saves = 0 /\ launches = 0 /\ failures = 0

(* App::new: the watcher's constructor loads the settings first. *)
Launch(i) ==
    /\ pc[i] = "off"
    /\ launches < MaxLaunches
    /\ launches' = launches + 1
    /\ todo' = [todo EXCEPT ![i] = Key]
    /\ Goto(i, "load")
    /\ UNCHANGED <<tables, runtime, stage, poll, save, unsaved, remote, saves, failures>>

(* A missing setting, or a binding that does not parse, is written next. *)
LoadSetting(i) ==
    /\ pc[i] = "load"
    /\ todo[i] # {}
    /\ LET k == NextKey(todo[i])
       IN \/ /\ View(k) \in Value \/ (View(k) = Bad /\ k = Zoom)
             /\ runtime' = [runtime EXCEPT ![i][k] = Parsed(View(k))]
             /\ todo' = [todo EXCEPT ![i] = @ \ {k}]
             /\ UNCHANGED pc
          \/ /\ View(k) = None \/ (View(k) = Bad /\ k # Zoom)
             /\ Goto(i, "default")
             /\ UNCHANGED <<runtime, todo>>
    /\ UNCHANGED <<tables, stage, poll, save, unsaved, bounds>>

WriteDefault(i) ==
    /\ pc[i] = "default"
    /\ LET k == NextKey(todo[i])
       IN /\ Record(k, Default)
          /\ runtime' = [runtime EXCEPT ![i][k] = Default]
          /\ todo' = [todo EXCEPT ![i] = @ \ {k}]
    /\ Goto(i, "load")
    /\ UNCHANGED <<cursor, stage, poll, save, unsaved, bounds>>

(* The second load is that of SlateProtocolHandler::new, in App::init. *)
FinishLoad(i) ==
    /\ pc[i] = "load"
    /\ todo[i] = {}
    /\ stage' = [stage EXCEPT ![i] = IF @ = "first" THEN "first" ELSE "running"]
    /\ Goto(i, "cursor")
    /\ UNCHANGED <<tables, runtime, todo, poll, save, unsaved, bounds>>

(* Variant of AfterStartCursor: the settings are not loaded again. *)
StraightToPolling(i) ==
    /\ stage' = [stage EXCEPT ![i] = "running"]
    /\ Goto(i, "cursor")
    /\ UNCHANGED todo

(* The constructor has its cursor: start-up goes on to the second load. *)
AfterStartCursor(i) ==
    /\ stage' = [stage EXCEPT ![i] = "second"]
    /\ todo' = [todo EXCEPT ![i] = Key]
    /\ Goto(i, "load")

(* ensure_app_sync_domain_cursor_at_domain_head finds a cursor, or does not. *)
ReadCursor(i) ==
    /\ pc[i] = "cursor"
    /\ \/ cursor = None /\ Goto(i, "head") /\ UNCHANGED <<stage, todo, poll>>
       \/ /\ cursor # None /\ stage[i] = "first"
          /\ AfterStartCursor(i) /\ UNCHANGED poll
       \/ /\ cursor # None /\ stage[i] = "running"
          /\ poll' = [poll EXCEPT ![i].revision = cursor]
          /\ Goto(i, "fetch") /\ UNCHANGED <<stage, todo>>
    /\ UNCHANGED <<tables, runtime, save, unsaved, bounds>>

ReadHead(i) ==
    /\ pc[i] = "head"
    /\ poll' = [poll EXCEPT ![i].revision = DomainHead]
    /\ Goto(i, "current")
    /\ UNCHANGED <<tables, runtime, stage, todo, save, unsaved, bounds>>

(* Variant of FetchEvents: the cursor is to move to the head at once. *)
FetchToHead(i) ==
    /\ pc[i] = "fetch"
    /\ LET rows == EventsAfter(poll[i].revision)
       IN poll' = [poll EXCEPT ![i].events = rows, ![i].revision = DomainHead]
    /\ Goto(i, "apply")
    /\ UNCHANGED <<tables, runtime, stage, todo, save, unsaved, bounds>>

(* poll_sync_setting_text_events_for_domain *)
FetchEvents(i) ==
    /\ pc[i] = "fetch"
    /\ LET rows == EventsAfter(poll[i].revision)
       IN poll' = [poll EXCEPT ![i].events = rows,
                               ![i].revision = IF rows = {} THEN @ ELSE Max(rows)]
    /\ Goto(i, "apply")
    /\ UNCHANGED <<tables, runtime, stage, todo, save, unsaved, bounds>>

(* Events are applied in the order of their revisions. *)
ApplyZoom(i) ==
    /\ pc[i] = "apply"
    /\ poll[i].events # {}
    /\ LET n == Min(poll[i].events)
       IN /\ revisions[n].key = Zoom
          /\ \/ /\ revisions[n].value \in Value
                /\ runtime' = [runtime EXCEPT ![i][Zoom] = revisions[n].value]
                /\ unsaved' = [unsaved EXCEPT ![i] = @ \ {Zoom}]
             \/ revisions[n].value = Bad /\ UNCHANGED <<runtime, unsaved>>
          /\ poll' = [poll EXCEPT ![i].events = @ \ {n}]
    /\ UNCHANGED <<tables, pc, stage, todo, save, bounds>>

(* apply_key_binding_setting copies the bindings, changes one, ... *)
CopyBindings(i) ==
    /\ pc[i] = "apply"
    /\ poll[i].events # {}
    /\ LET n == Min(poll[i].events)
       IN /\ revisions[n].key \in Binding
          /\ poll' = [poll EXCEPT
                        ![i].events = @ \ {n},
                        ![i].copy = [runtime[i] EXCEPT ![revisions[n].key] =
                                        Parsed(revisions[n].value)]]
          /\ unsaved' = [unsaved EXCEPT ![i] = @ \ {revisions[n].key}]
    /\ Goto(i, "store")
    /\ UNCHANGED <<tables, runtime, stage, todo, save, bounds>>

(* ... and stores them all. *)
StoreBindings(i) ==
    /\ pc[i] = "store"
    /\ runtime' = [runtime EXCEPT ![i] = [k \in Key |-> IF k \in Binding
                                          THEN poll[i].copy[k] ELSE @[k]]]
    /\ poll' = [poll EXCEPT ![i].copy = << >>]
    /\ Goto(i, "apply")
    /\ UNCHANGED <<tables, stage, todo, save, unsaved, bounds>>

FinishApply(i) ==
    /\ pc[i] = "apply"
    /\ poll[i].events = {}
    /\ Goto(i, "current")
    /\ UNCHANGED <<tables, runtime, stage, todo, poll, save, unsaved, bounds>>

(* record_app_sync_domain_cursor reads the cursor, ... *)
ReadCurrentCursor(i) ==
    /\ pc[i] = "current"
    /\ poll' = [poll EXCEPT ![i].revision =
                   IF cursor = None THEN @ ELSE Max({cursor, @})]
    /\ Goto(i, "write")
    /\ UNCHANGED <<tables, runtime, stage, todo, save, unsaved, bounds>>

(* ... and writes the greater of the two. *)
WriteCursor(i) ==
    /\ pc[i] = "write"
    /\ cursor' = poll[i].revision
    /\ poll' = [poll EXCEPT ![i] = NoPoll]
    /\ \/ stage[i] = "first" /\ AfterStartCursor(i)
       \/ stage[i] = "running" /\ Goto(i, "cursor") /\ UNCHANGED <<stage, todo>>
    /\ UNCHANGED <<revisions, runtime, save, unsaved, bounds>>

-----------------------------------------------------------------------------

(* The handler: slate://settings/preview sets the zoom in memory only. *)
Preview(i, z) ==
    /\ stage[i] = "running" /\ pc[i] # "off"
    /\ runtime' = [runtime EXCEPT ![i][Zoom] = z]
    /\ unsaved' = [unsaved EXCEPT ![i] = @ \cup {Zoom}]
    /\ UNCHANGED <<tables, pc, stage, todo, poll, save, bounds>>

(* slate://settings/save: the zoom in memory, ... *)
BeginSave(i, z, request) ==
    /\ stage[i] = "running" /\ pc[i] # "off"
    /\ save[i].step = "none"
    /\ saves < MaxSaves
    /\ saves' = saves + 1
    /\ runtime' = [runtime EXCEPT ![i][Zoom] = z]
    /\ unsaved' = [unsaved EXCEPT ![i] = @ \ {Zoom}]
    /\ save' = [save EXCEPT ![i] = [step |-> "zoom", zoom |-> z,
                                    bindings |-> request, left |-> {}]]
    /\ UNCHANGED <<tables, pc, stage, todo, poll, remote, launches, failures>>

(* ... in the database; then the bindings, if there are any: ... *)
SaveZoom(i) ==
    /\ save[i].step = "zoom"
    /\ Persist(i, Zoom, save[i].zoom)
    /\ save' = [save EXCEPT ![i] = IF DOMAIN @.bindings = {} THEN NoSave
                                   ELSE [@ EXCEPT !.step = "merge"]]
    /\ UNCHANGED <<cursor, runtime, pc, stage, todo, poll, remote, saves, launches>>

(* ... those not in the request are copied from memory, ... *)
MergeBindings(i) ==
    /\ save[i].step = "merge"
    /\ save' = [save EXCEPT
                  ![i].step = "set",
                  ![i].bindings = [k \in Binding |-> IF k \in DOMAIN @ THEN Parsed(@[k])
                                                     ELSE runtime[i][k]]]
    /\ UNCHANGED <<tables, runtime, pc, stage, todo, poll, unsaved, bounds>>

(* ... all are set in memory, ... *)
SetBindings(i) ==
    /\ save[i].step = "set"
    /\ runtime' = [runtime EXCEPT ![i] = [k \in Key |-> IF k \in Binding
                                          THEN save[i].bindings[k] ELSE @[k]]]
    /\ save' = [save EXCEPT ![i].step = "persist", ![i].left = Binding]
    /\ unsaved' = [unsaved EXCEPT ![i] = @ \ Binding]
    /\ UNCHANGED <<tables, pc, stage, todo, poll, bounds>>

(* ... and written one by one, changed or not. *)
PersistBinding(i) ==
    /\ save[i].step = "persist"
    /\ LET k == NextKey(save[i].left)
       IN /\ Persist(i, k, save[i].bindings[k])
          /\ save' = [save EXCEPT ![i] = IF @.left = {k} THEN NoSave
                                         ELSE [@ EXCEPT !.left = save[i].left \ {k}]]
    /\ UNCHANGED <<cursor, runtime, pc, stage, todo, poll, remote, saves, launches>>

(* Sync applies a change of another device. *)
ApplyRemote(k, v) ==
    /\ remote < MaxRemote
    /\ remote' = remote + 1
    /\ Record(k, v)
    /\ UNCHANGED <<cursor, runtime, pc, stage, todo, poll, save, unsaved,
                   saves, launches, failures>>

(* The process ends; what is in memory is lost. *)
Exit(i) ==
    /\ pc[i] # "off"
    /\ Goto(i, "off")
    /\ stage' = [stage EXCEPT ![i] = "first"]
    /\ todo' = [todo EXCEPT ![i] = {}]
    /\ poll' = [poll EXCEPT ![i] = NoPoll]
    /\ save' = [save EXCEPT ![i] = NoSave]
    /\ runtime' = [runtime EXCEPT ![i] = [k \in Key |-> Default]]
    /\ unsaved' = [unsaved EXCEPT ![i] = {}]
    /\ UNCHANGED <<tables, bounds>>

EventLoop(i) ==
    \/ LoadSetting(i) \/ WriteDefault(i) \/ FinishLoad(i)
    \/ ReadCursor(i) \/ ReadHead(i) \/ FetchEvents(i)
    \/ ApplyZoom(i) \/ CopyBindings(i) \/ StoreBindings(i) \/ FinishApply(i)
    \/ ReadCurrentCursor(i) \/ WriteCursor(i)

SettingsHandler(i) ==
    SaveZoom(i) \/ MergeBindings(i) \/ SetBindings(i) \/ PersistBinding(i)

Next == \/ \E i \in Instance :
              \/ Launch(i)
              \/ EventLoop(i)
              \/ \E z \in Value : Preview(i, z)
              \/ \E z \in Value, r \in Request : BeginSave(i, z, r)
              \/ SettingsHandler(i)
              \/ Exit(i)
        \/ \E k \in Key \cup OtherKey, v \in Value \cup {Bad} : ApplyRemote(k, v)

Spec == Init /\ [][Next]_vars

(* The event loop is pumped while the shell runs, and requests complete. *)
FairSpec == /\ Spec
            /\ \A i \in Instance : WF_vars(EventLoop(i)) /\ WF_vars(SettingsHandler(i))

-----------------------------------------------------------------------------

Running(i) == pc[i] # "off" /\ stage[i] = "running"

(* Memory agrees with the database about k; a zoom text that does not      *)
(* parse leaves the former zoom, a preview and a setting whose write       *)
(* failed stand for themselves.                                            *)
Shown(i, k) ==
    \/ runtime[i][k] = Parsed(View(k))
    \/ k = Zoom /\ View(k) = Bad
    \/ k \in unsaved[i]

(***************************************************************************)
(* Nothing is missed: a setting in memory that differs from the database   *)
(* has a revision beyond the cursor, so a poll is still going to bring it, *)
(* whatever the handler stored, the watcher overwrote and start-up read in *)
(* the meantime; or it is a preview or its write failed, and no change of  *)
(* it was read since.                                                      *)
(***************************************************************************)
NothingMissed ==
    \A i \in Instance :
       Running(i) /\ pc[i] = "cursor" /\ save[i].step = "none" =>
          \A k \in Key : Shown(i, k) \/ \E n \in Rows({k}) : n > cursor

(***************************************************************************)
(* Once changes and requests stop, a running shell comes to show what the  *)
(* database holds, and keeps to it; or a preview, or what could not be     *)
(* written.                                                                *)
(***************************************************************************)
EventuallyShown ==
    <>[](\A i \in Instance : Running(i) => \A k \in Key : Shown(i, k))

=============================================================================
