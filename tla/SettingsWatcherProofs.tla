------------------------ MODULE SettingsWatcherProofs ------------------------
(***************************************************************************)
(* Proofs about SettingsWatcher: its types for any number of shells, and   *)
(* for one shell on the database that no change of a setting is missed.    *)
(***************************************************************************)
EXTENDS SettingsWatcher, TLAPS, WellFoundedInduction, FiniteSetTheorems

-----------------------------------------------------------------------------
(* Least and greatest elements of sets of numbers. *)

LEMMA LeastExists ==
    ASSUME NEW S \in SUBSET Nat, S # {}
    PROVE  \E x \in S : \A y \in S : x <= y
  <1>1. \E x \in S : \A y \in S : ~(<<y, x>> \in OpToRel(<, Nat))
    BY NatLessThanWellFounded, WFMin
  <1>2. \A x, y \in S : ~(<<y, x>> \in OpToRel(<, Nat)) => x <= y
    BY DEF OpToRel
  <1> QED BY <1>1, <1>2

LEMMA MinIsLeast ==
    ASSUME NEW S \in SUBSET Nat, S # {}
    PROVE  Min(S) \in S /\ \A y \in S : Min(S) <= y
  BY LeastExists DEF Min

(* The greatest element of S is found as the least distance from a bound. *)
LEMMA MaxIsGreatest ==
    ASSUME NEW S \in SUBSET Nat, S # {}, NEW n \in Nat, \A y \in S : y <= n
    PROVE  Max(S) \in S /\ \A y \in S : Max(S) >= y
  <1> DEFINE T == {n - y : y \in S}
  <1>1. \A y \in S : n - y \in Nat
    OBVIOUS
  <1>2. T \in SUBSET Nat /\ T # {}
    BY <1>1
  <1>3. PICK t \in T : \A u \in T : t <= u
    BY <1>2, LeastExists
  <1>4. PICK x \in S : t = n - x
    BY <1>3
  <1>5. \A y \in S : n - x <= n - y
    BY <1>3, <1>4
  <1>6. \A y \in S : x >= y
    BY <1>4, <1>5
  <1> QED BY <1>4, <1>6 DEF Max

-----------------------------------------------------------------------------
(* The table of revisions. *)

LEMMA RowsAreRevisions ==
    ASSUME revisions \in Seq(Event), NEW K
    PROVE  /\ Rows(K) \in SUBSET Nat
           /\ \A n \in Rows(K) : n \in 1..Len(revisions) /\ revisions[n].key \in K
           /\ \A n \in 1..Len(revisions) : revisions[n].key \in K => n \in Rows(K)
  BY DEF Rows

LEMMA MaxRow ==
    ASSUME revisions \in Seq(Event), NEW K, Rows(K) # {}
    PROVE  Max(Rows(K)) \in Rows(K) /\ \A m \in Rows(K) : Max(Rows(K)) >= m
  <1>1. Len(revisions) \in Nat /\ \A n \in Rows(K) : n <= Len(revisions)
    BY RowsAreRevisions
  <1> QED BY <1>1, RowsAreRevisions, MaxIsGreatest

LEMMA HeadIsLast ==
    ASSUME revisions \in Seq(Event)
    PROVE  /\ DomainHead \in Rows(Key) \cup {0}
           /\ \A m \in Rows(Key) : DomainHead >= m
  <1> DEFINE S == {0} \cup Rows(Key)
  <1>1. S \in SUBSET Nat /\ S # {}
    BY RowsAreRevisions
  <1>2. Len(revisions) \in Nat /\ \A n \in S : n <= Len(revisions)
    BY RowsAreRevisions
  <1>3. Max(S) \in S /\ \A y \in S : Max(S) >= y
    <2> HIDE DEF S
    <2> QED BY <1>1, <1>2, MaxIsGreatest
  <1> QED BY <1>3 DEF DomainHead

LEMMA EventOfRow ==
    ASSUME revisions \in Seq(Event), NEW K, NEW n \in Rows(K)
    PROVE  /\ revisions[n].key \in Key \cup OtherKey
           /\ revisions[n].value \in Value \cup {Bad}
  <1>1. revisions[n] \in Event
    BY RowsAreRevisions
  <1> QED BY <1>1 DEF Event

LEMMA ViewType ==
    ASSUME revisions \in Seq(Event), NEW k
    PROVE  View(k) \in Value \cup {Bad, None}
  <1>1. CASE Rows({k}) = {}
    BY <1>1 DEF View
  <1>2. CASE Rows({k}) # {}
    <2>1. Max(Rows({k})) \in Rows({k})
      BY <1>2, MaxRow
    <2> QED BY <2>1, <1>2, EventOfRow DEF View
  <1> QED BY <1>1, <1>2

LEMMA ParsedType == \A v : Parsed(v) \in Value
  BY ValueAssumption DEF Parsed

LEMMA NextKeyIn ==
    ASSUME NEW S, S # {}
    PROVE  NextKey(S) \in S
  <1>1. \E k \in S : S # {Zoom} => k # Zoom
    OBVIOUS
  <1> QED BY <1>1 DEF NextKey

LEMMA SameRows ==
    ASSUME UNCHANGED revisions
    PROVE  \A K : Rows(K)' = Rows(K)
  BY DEF Rows

(* A written row is above all others, and leaves other keys alone. *)
LEMMA RecordRow ==
    ASSUME revisions \in Seq(Event), NEW k \in Key \cup OtherKey,
           NEW v \in Value \cup {Bad}, Record(k, v)
    PROVE  /\ revisions' \in Seq(Event)
           /\ Len(revisions) + 1 \in Rows({k})'
           /\ Rows(Key) \subseteq Rows(Key)'
           /\ \A n \in 1..Len(revisions) : revisions'[n] = revisions[n]
           /\ \A m \in Rows(Key)' : m \in Rows(Key) \/ m = Len(revisions) + 1
           /\ \A c : c # k => Rows({c})' = Rows({c})
  <1>1. [key |-> k, value |-> v] \in Event
    BY DEF Event
  <1>2. /\ revisions' \in Seq(Event)
        /\ DOMAIN revisions' = 1..(Len(revisions) + 1)
        /\ DOMAIN revisions = 1..Len(revisions) /\ Len(revisions) \in Nat
        /\ revisions'[Len(revisions) + 1].key = k
        /\ \A n \in 1..Len(revisions) : revisions'[n] = revisions[n]
    BY <1>1 DEF Record
  <1>3. \A n : n \in 1..(Len(revisions) + 1) <=> n \in 1..Len(revisions) \/ n = Len(revisions) + 1
    BY <1>2
  <1>4. \A c : c # k => Rows({c})' = Rows({c})
    BY <1>2, <1>3 DEF Rows
  <1> QED BY <1>2, <1>3, <1>4 DEF Rows

LEMMA RecordView ==
    ASSUME revisions \in Seq(Event), NEW k \in Key \cup OtherKey,
           NEW v \in Value \cup {Bad}, Record(k, v), NEW c, c # k
    PROVE  View(c)' = View(c)
  <1>1. Rows({c})' = Rows({c})
    BY RecordRow
  <1>2. CASE Rows({c}) = {}
    BY <1>1, <1>2 DEF View
  <1>3. CASE Rows({c}) # {}
    <2>1. Max(Rows({c})) \in 1..Len(revisions)
      BY <1>3, MaxRow, RowsAreRevisions
    <2>2. revisions'[Max(Rows({c}))] = revisions[Max(Rows({c}))]
      BY <2>1, RecordRow
    <2> QED BY <1>1, <1>3, <2>2 DEF View
  <1> QED BY <1>2, <1>3

-----------------------------------------------------------------------------
(* Types, for any number of shells. *)

(* Where the event loop of shell i is tells what it has done so far. *)
Control(i) ==
    /\ pc[i] = "off" => stage[i] = "first"
    /\ pc[i] \in {"load", "default"} => stage[i] # "running"
    /\ pc[i] = "default" => todo[i] # {}
    /\ pc[i] = "head" => stage[i] = "first"
    /\ pc[i] \in {"cursor", "current", "write"} => stage[i] # "second"
    /\ pc[i] \in {"fetch", "apply", "store"} => stage[i] = "running"
    /\ pc[i] = "store" => poll[i].copy \in [Key -> Value]
    /\ stage[i] # "first" => cursor # None
    /\ stage[i] # "running" => save[i].step = "none"

TypeInv == TypeOK /\ \A i \in Instance : Control(i)

LEMMA SamePollState ==
    ASSUME UNCHANGED revisions
    PROVE  PollState' = PollState /\ Rows(Key)' = Rows(Key)
  BY SameRows DEF PollState

(* A step that writes a row and leaves the cursor and the polls alone. *)
LEMMA RecordTypes ==
    ASSUME TypeOK, NEW k \in Key \cup OtherKey, NEW v \in Value \cup {Bad},
           Record(k, v), UNCHANGED <<cursor, poll>>
    PROVE  /\ revisions' \in Seq(Event)
           /\ cursor' \in Rows(Key)' \cup {0, None}
           /\ poll' \in [Instance -> PollState']
  <1>1. revisions \in Seq(Event) /\ revisions' \in Seq(Event) /\ Rows(Key) \subseteq Rows(Key)'
    BY RecordRow DEF TypeOK
  <1>2. PollState \subseteq PollState'
    BY <1>1 DEF PollState
  <1> QED BY <1>1, <1>2 DEF TypeOK

(* The same of a write that may fail. *)
LEMMA PersistTypes ==
    ASSUME TypeOK, NEW i \in Instance, NEW k \in Key, NEW v \in Value \cup {Bad},
           Persist(i, k, v), UNCHANGED <<cursor, poll>>
    PROVE  /\ revisions' \in Seq(Event)
           /\ cursor' \in Rows(Key)' \cup {0, None}
           /\ poll' \in [Instance -> PollState']
           /\ unsaved' \in [Instance -> SUBSET Key]
  <1>1. CASE Record(k, v) /\ UNCHANGED unsaved
    BY <1>1, RecordTypes DEF TypeOK
  <1>2. CASE UNCHANGED revisions /\ unsaved' = [unsaved EXCEPT ![i] = @ \cup {k}]
    BY <1>2, SamePollState DEF TypeOK
  <1> QED BY <1>1, <1>2 DEF Persist

(* Start-up of shell i, up to the end of the second load. *)
LEMMA StartTypes ==
    ASSUME TypeInv, NEW i \in Instance,
           Launch(i) \/ LoadSetting(i) \/ WriteDefault(i) \/ FinishLoad(i)
    PROVE  TypeInv'
  <1> USE DEF TypeInv, Goto, tables, bounds
  <1>1. CASE Launch(i)
    <2>1. TypeOK'
      BY <1>1, SamePollState DEF Launch, TypeOK, EventLoopAt
    <2>2. \A j \in Instance : Control(j)'
      BY <1>1 DEF Launch, TypeOK, Control
    <2> QED BY <2>1, <2>2
  <1>2. CASE LoadSetting(i)
    <2> DEFINE k == NextKey(todo[i])
    <2>1. k \in todo[i] /\ k \in Key
      BY <1>2, NextKeyIn DEF LoadSetting, TypeOK
    <2>2. Parsed(View(k)) \in Value
      BY ParsedType
    <2>3. /\ UNCHANGED <<revisions, cursor, stage, poll, save, unsaved>>
          /\ pc[i] = "load" /\ todo[i] # {}
      BY <1>2 DEF LoadSetting
    <2>4. CASE /\ runtime' = [runtime EXCEPT ![i][k] = Parsed(View(k))]
               /\ todo' = [todo EXCEPT ![i] = @ \ {k}]
               /\ pc' = pc
      <3> HIDE DEF k
      <3>1. TypeOK'
        BY <2>1, <2>2, <2>3, <2>4, SamePollState DEF TypeOK
      <3>2. \A j \in Instance : Control(j)'
        BY <2>3, <2>4 DEF TypeOK, Control
      <3> QED BY <3>1, <3>2
    <2>5. CASE pc' = [pc EXCEPT ![i] = "default"] /\ UNCHANGED <<runtime, todo>>
      <3>1. TypeOK'
        BY <2>3, <2>5, SamePollState DEF TypeOK, EventLoopAt
      <3>2. \A j \in Instance : Control(j)'
        BY <2>3, <2>5 DEF TypeOK, Control
      <3> QED BY <3>1, <3>2
    <2> QED BY <1>2, <2>4, <2>5 DEF LoadSetting
  <1>3. CASE WriteDefault(i)
    <2> DEFINE k == NextKey(todo[i])
    <2>1. k \in todo[i] /\ k \in Key
      BY <1>3, NextKeyIn DEF WriteDefault, TypeOK, Control
    <2>2. Record(k, Default) /\ UNCHANGED <<cursor, poll>>
      BY <1>3 DEF WriteDefault
    <2>3. /\ runtime' = [runtime EXCEPT ![i][k] = Default]
          /\ todo' = [todo EXCEPT ![i] = @ \ {k}]
          /\ pc' = [pc EXCEPT ![i] = "load"]
          /\ UNCHANGED <<stage, save, unsaved>>
          /\ pc[i] = "default"
      BY <1>3 DEF WriteDefault
    <2> HIDE DEF k
    <2>4. TypeOK'
      BY <2>1, <2>2, <2>3, RecordTypes, ValueAssumption DEF TypeOK, EventLoopAt
    <2>5. \A j \in Instance : Control(j)'
      BY <2>2, <2>3 DEF TypeOK, Control
    <2> QED BY <2>4, <2>5
  <1>4. CASE FinishLoad(i)
    <2>1. TypeOK'
      BY <1>4, SamePollState DEF FinishLoad, TypeOK, EventLoopAt
    <2>2. \A j \in Instance : Control(j)'
      BY <1>4 DEF FinishLoad, TypeOK, Control
    <2> QED BY <2>1, <2>2
  <1> QED BY <1>1, <1>2, <1>3, <1>4

(* Shell i only changes what it keeps of the poll. *)
LEMMA PollStep ==
    ASSUME TypeOK, NEW i \in Instance, NEW p \in PollState, NEW w \in EventLoopAt,
           poll' = [poll EXCEPT ![i] = p], Goto(i, w),
           UNCHANGED <<revisions, cursor, runtime, stage, todo, save, unsaved>>
    PROVE  TypeOK'
  BY SamePollState DEF TypeOK, Goto

(* The cursor, and a poll. *)
LEMMA PollTypes ==
    ASSUME TypeInv, NEW i \in Instance,
           \/ ReadCursor(i) \/ ReadHead(i) \/ FetchEvents(i)
           \/ ReadCurrentCursor(i) \/ WriteCursor(i)
    PROVE  TypeInv'
  <1> USE DEF TypeInv, tables, bounds
  <1>0. TypeOK /\ poll \in [Instance -> PollState] /\ poll[i] \in PollState
    BY DEF TypeOK
  <1>1. CASE ReadCursor(i)
    <2>1. CASE cursor = None /\ Goto(i, "head") /\ UNCHANGED <<stage, todo, poll>>
      <3>1. TypeOK'
        BY <1>1, <2>1, SamePollState DEF ReadCursor, TypeOK, EventLoopAt, Goto
      <3>2. \A j \in Instance : Control(j)'
        BY <1>1, <2>1 DEF ReadCursor, TypeOK, Control, Goto
      <3> QED BY <3>1, <3>2
    <2>2. CASE /\ cursor # None /\ stage[i] = "first"
               /\ AfterStartCursor(i) /\ UNCHANGED poll
      <3>1. TypeOK'
        BY <1>1, <2>2, SamePollState DEF ReadCursor, AfterStartCursor, TypeOK, EventLoopAt, Goto
      <3>2. \A j \in Instance : Control(j)'
        BY <1>1, <2>2 DEF ReadCursor, AfterStartCursor, TypeOK, Control, Goto
      <3> QED BY <3>1, <3>2
    <2>3. CASE /\ cursor # None /\ stage[i] = "running"
               /\ poll' = [poll EXCEPT ![i].revision = cursor]
               /\ Goto(i, "fetch") /\ UNCHANGED <<stage, todo>>
      <3> DEFINE p == [poll[i] EXCEPT !.revision = cursor]
      <3>1. p \in PollState
        BY <1>0, <2>3 DEF PollState, TypeOK
      <3>2. poll' = [poll EXCEPT ![i] = p]
        BY <2>3, <1>0
      <3>3. "fetch" \in EventLoopAt
        BY DEF EventLoopAt
      <3> HIDE DEF p
      <3>4. TypeOK'
        BY <1>0, <1>1, <2>3, <3>1, <3>2, <3>3, PollStep DEF ReadCursor
      <3>5. \A j \in Instance : Control(j)'
        BY <1>1, <2>3 DEF ReadCursor, TypeOK, Control, Goto
      <3> QED BY <3>4, <3>5
    <2> QED BY <1>1, <2>1, <2>2, <2>3 DEF ReadCursor
  <1>2. CASE ReadHead(i)
    <2> DEFINE p == [poll[i] EXCEPT !.revision = DomainHead]
    <2>1. DomainHead \in Rows(Key) \cup {0}
      BY HeadIsLast DEF TypeOK
    <2>2. p \in PollState
      BY <1>0, <2>1 DEF PollState
    <2>3. poll' = [poll EXCEPT ![i] = p]
      BY <1>2, <1>0 DEF ReadHead
    <2>4. "current" \in EventLoopAt
      BY DEF EventLoopAt
    <2> HIDE DEF p
    <2>5. TypeOK'
      BY <1>0, <1>2, <2>2, <2>3, <2>4, PollStep DEF ReadHead
    <2>6. \A j \in Instance : Control(j)'
      BY <1>2 DEF ReadHead, TypeOK, Control, Goto
    <2> QED BY <2>5, <2>6
  <1>3. CASE FetchEvents(i)
    <2> DEFINE rows == EventsAfter(poll[i].revision)
               rev == IF rows = {} THEN poll[i].revision ELSE Max(rows)
               p == [poll[i] EXCEPT !.events = rows, !.revision = rev]
    <2>1. rows \subseteq Rows(Key)
      BY DEF EventsAfter
    <2>2. rows # {} => Max(rows) \in Rows(Key)
      <3> SUFFICES ASSUME rows # {} PROVE Max(rows) \in rows
        BY <2>1
      <3>1. /\ Len(revisions) \in Nat /\ rows \in SUBSET Nat
            /\ \A n \in rows : n <= Len(revisions)
        BY <2>1, RowsAreRevisions DEF TypeOK
      <3> HIDE DEF rows
      <3> QED BY <3>1, MaxIsGreatest
    <2>3. p \in PollState
      <3> HIDE DEF rows
      <3> QED BY <1>0, <2>1, <2>2 DEF PollState
    <2>4. poll' = [poll EXCEPT ![i] = p]
      BY <1>3, <1>0 DEF FetchEvents
    <2>5. "apply" \in EventLoopAt
      BY DEF EventLoopAt
    <2> HIDE DEF p
    <2>6. TypeOK'
      BY <1>0, <1>3, <2>3, <2>4, <2>5, PollStep DEF FetchEvents
    <2>7. \A j \in Instance : Control(j)'
      BY <1>3, <2>4 DEF FetchEvents, TypeOK, Control, Goto
    <2> QED BY <2>6, <2>7
  <1>4. CASE ReadCurrentCursor(i)
    <2> DEFINE r == IF cursor = None THEN poll[i].revision ELSE Max({cursor, poll[i].revision})
               p == [poll[i] EXCEPT !.revision = r]
    <2>1. poll[i].revision \in Rows(Key) \cup {0}
      BY <1>0 DEF PollState
    <2>2. r \in Rows(Key) \cup {0}
      <3>1. CASE cursor = None
        BY <3>1, <2>1
      <3>2. CASE cursor # None
        <4> DEFINE S == {cursor, poll[i].revision}
        <4>1. /\ Len(revisions) \in Nat /\ S \in SUBSET Nat
              /\ \A n \in S : n <= Len(revisions)
          BY <3>2, <2>1, RowsAreRevisions DEF TypeOK
        <4>2. Max(S) \in S
          <5>1. S # {} OBVIOUS
          <5> HIDE DEF S
          <5> QED BY <5>1, <4>1, MaxIsGreatest
        <4> QED BY <3>2, <4>2, <2>1 DEF TypeOK
      <3> QED BY <3>1, <3>2
    <2>3. p \in PollState
      <3> HIDE DEF r
      <3> QED BY <1>0, <2>2 DEF PollState
    <2>4. poll' = [poll EXCEPT ![i] = p]
      BY <1>4, <1>0 DEF ReadCurrentCursor
    <2>5. "write" \in EventLoopAt
      BY DEF EventLoopAt
    <2> HIDE DEF p
    <2>6. TypeOK'
      BY <1>0, <1>4, <2>3, <2>4, <2>5, PollStep DEF ReadCurrentCursor
    <2>7. \A j \in Instance : Control(j)'
      BY <1>4, <2>4 DEF ReadCurrentCursor, TypeOK, Control, Goto
    <2> QED BY <2>6, <2>7
  <1>5. CASE WriteCursor(i)
    <2>1. poll[i].revision \in Rows(Key) \cup {0}
      BY <1>0 DEF PollState
    <2>2. poll[i].revision # None
      BY <2>1, RowsAreRevisions, ValueAssumption DEF TypeOK
    <2>3. /\ UNCHANGED revisions
          /\ PollState' = PollState /\ Rows(Key)' = Rows(Key)
      BY <1>5, SamePollState DEF WriteCursor
    <2>4. TypeOK'
      <3>1. poll' \in [Instance -> PollState]
        BY <1>5, <1>0 DEF WriteCursor, NoPoll, PollState
      <3>2. /\ todo' \in [Instance -> SUBSET Key]
            /\ stage' \in [Instance -> {"first", "second", "running"}]
            /\ pc' \in [Instance -> EventLoopAt]
        <4>1. CASE stage[i] = "first" /\ AfterStartCursor(i)
          BY <4>1 DEF AfterStartCursor, TypeOK, EventLoopAt, Goto
        <4>2. CASE stage[i] = "running" /\ Goto(i, "cursor") /\ UNCHANGED <<stage, todo>>
          BY <4>2 DEF TypeOK, EventLoopAt, Goto
        <4> QED BY <1>5, <4>1, <4>2 DEF WriteCursor
      <3> QED BY <1>5, <2>1, <2>3, <3>1, <3>2 DEF WriteCursor, TypeOK
    <2>5. \A j \in Instance : Control(j)'
      BY <1>5, <2>2 DEF WriteCursor, AfterStartCursor, NoPoll, TypeOK, Control, Goto
    <2> QED BY <2>4, <2>5
  <1> QED BY <1>1, <1>2, <1>3, <1>4, <1>5

(* The events left are rows of the domain; the first of them is applied. *)
LEMMA FirstEvent ==
    ASSUME TypeOK, NEW i \in Instance, poll[i].events # {}
    PROVE  LET n == Min(poll[i].events)
           IN /\ n \in poll[i].events /\ n \in Rows(Key) /\ n \in Nat
              /\ \A m \in poll[i].events : n <= m
              /\ revisions[n].key \in Key
              /\ revisions[n].value \in Value \cup {Bad}
  <1>1. poll[i].events \subseteq Rows(Key) /\ Rows(Key) \in SUBSET Nat
    BY RowsAreRevisions DEF TypeOK, PollState
  <1>2. LET n == Min(poll[i].events)
        IN n \in poll[i].events /\ \A m \in poll[i].events : n <= m
    BY <1>1, MinIsLeast
  <1>3. Min(poll[i].events) \in Rows(Key)
    BY <1>1, <1>2
  <1> QED BY <1>1, <1>2, <1>3, RowsAreRevisions, EventOfRow DEF TypeOK

(* The events are applied. *)
LEMMA ApplyTypes ==
    ASSUME TypeInv, NEW i \in Instance,
           ApplyZoom(i) \/ CopyBindings(i) \/ StoreBindings(i) \/ FinishApply(i)
    PROVE  TypeInv'
  <1> USE DEF TypeInv, tables, bounds
  <1>0. TypeOK /\ poll \in [Instance -> PollState] /\ poll[i] \in PollState
    BY DEF TypeOK
  <1>1. CASE ApplyZoom(i)
    <2> DEFINE n == Min(poll[i].events)
               p == [poll[i] EXCEPT !.events = @ \ {n}]
    <2>1. /\ UNCHANGED <<revisions, cursor, pc, stage, todo, save>>
          /\ poll' = [poll EXCEPT ![i] = p]
      BY <1>0, <1>1 DEF ApplyZoom
    <2>2. p \in PollState
      BY <1>0 DEF PollState
    <2>3. runtime' \in [Instance -> [Key -> Value]] /\ unsaved' \in [Instance -> SUBSET Key]
      <3>1. CASE /\ revisions[n].value \in Value
                 /\ runtime' = [runtime EXCEPT ![i][Zoom] = revisions[n].value]
                 /\ unsaved' = [unsaved EXCEPT ![i] = @ \ {Zoom}]
        <4> HIDE DEF n
        <4> QED BY <3>1 DEF TypeOK, Key
      <3>2. CASE UNCHANGED <<runtime, unsaved>>
        BY <3>2 DEF TypeOK
      <3> QED BY <1>1, <3>1, <3>2 DEF ApplyZoom
    <2>4. p.copy = poll[i].copy
      BY <1>0 DEF PollState
    <2> HIDE DEF p
    <2>5. TypeOK'
      BY <2>1, <2>2, <2>3, SamePollState DEF TypeOK
    <2>6. \A j \in Instance : Control(j)'
      BY <2>1, <2>4 DEF TypeOK, Control
    <2> QED BY <2>5, <2>6
  <1>2. CASE CopyBindings(i)
    <2> DEFINE n == Min(poll[i].events)
               c == [runtime[i] EXCEPT ![revisions[n].key] = Parsed(revisions[n].value)]
               p == [poll[i] EXCEPT !.events = @ \ {n}, !.copy = c]
    <2>1. /\ UNCHANGED <<revisions, cursor, runtime, stage, todo, save>>
          /\ unsaved' = [unsaved EXCEPT ![i] = @ \ {revisions[n].key}]
          /\ Goto(i, "store") /\ pc[i] = "apply"
          /\ poll' = [poll EXCEPT ![i] = p]
      BY <1>0, <1>2 DEF CopyBindings
    <2>2. c \in [Key -> Value]
      BY ParsedType DEF TypeOK
    <2>3. p \in PollState /\ p.copy = c
      <3> HIDE DEF c
      <3> QED BY <1>0, <2>2 DEF PollState
    <2>4. "store" \in EventLoopAt
      BY DEF EventLoopAt
    <2> HIDE DEF p, c
    <2> HIDE DEF n
    <2>5. TypeOK'
      <3>1. unsaved' \in [Instance -> SUBSET Key]
        BY <2>1 DEF TypeOK
      <3> QED BY <2>1, <2>3, <2>4, <3>1, SamePollState DEF TypeOK, Goto
    <2>6. \A j \in Instance : Control(j)'
      BY <2>1, <2>2, <2>3 DEF TypeOK, Control, Goto
    <2> QED BY <2>5, <2>6
  <1>3. CASE StoreBindings(i)
    <2> DEFINE p == [poll[i] EXCEPT !.copy = << >>]
               m == [k \in Key |-> IF k \in Binding THEN poll[i].copy[k] ELSE runtime[i][k]]
    <2>1. /\ UNCHANGED <<revisions, cursor, stage, todo, save, unsaved>>
          /\ Goto(i, "apply") /\ pc[i] = "store"
          /\ poll' = [poll EXCEPT ![i] = p]
          /\ runtime' = [runtime EXCEPT ![i] = m]
      BY <1>0, <1>3 DEF StoreBindings, TypeOK
    <2>2. p \in PollState
      BY <1>0 DEF PollState
    <2>3. m \in [Key -> Value]
      BY <2>1 DEF TypeOK, Control
    <2> HIDE DEF p, m
    <2>4. TypeOK'
      BY <2>1, <2>2, <2>3, SamePollState DEF TypeOK, EventLoopAt, Goto
    <2>5. \A j \in Instance : Control(j)'
      BY <2>1 DEF TypeOK, Control, Goto
    <2> QED BY <2>4, <2>5
  <1>4. CASE FinishApply(i)
    <2>1. TypeOK'
      BY <1>4, SamePollState DEF FinishApply, TypeOK, EventLoopAt, Goto
    <2>2. \A j \in Instance : Control(j)'
      BY <1>4 DEF FinishApply, TypeOK, Control, Goto
    <2> QED BY <2>1, <2>2
  <1> QED BY <1>1, <1>2, <1>3, <1>4

(* What the handler keeps of a request, by its step. *)
LEMMA SaveFields ==
    ASSUME NEW s \in SaveState
    PROVE  /\ s.step = "zoom" => /\ s \in [step : {"zoom"}, zoom : Value, bindings : Request,
                                           left : {{}}]
           /\ s.step = "merge" => /\ s \in [step : {"merge"}, zoom : Value,
                                            bindings : Requested, left : {{}}]
           /\ s.step = "set" => /\ s \in [step : {"set"}, zoom : Value,
                                          bindings : [Binding -> Value], left : {{}}]
           /\ s.step = "persist" => /\ s \in [step : {"persist"}, zoom : Value,
                                              bindings : [Binding -> Value],
                                              left : (SUBSET Binding) \ {{}}]
  BY DEF SaveState, NoSave

LEMMA RequestedIs ==
    ASSUME NEW r \in Request, DOMAIN r # {}
    PROVE  r \in Requested
  <1>1. PICK B \in SUBSET Binding : r \in [B -> Value \cup {Bad}]
    BY RequestAssumption
  <1>2. B # {}
    BY <1>1
  <1> QED BY <1>1, <1>2 DEF Requested

(* The handler of shell i, and a request to it. *)
LEMMA HandlerTypes ==
    ASSUME TypeInv, NEW i \in Instance,
           \/ \E z \in Value : Preview(i, z)
           \/ \E z \in Value, r \in Request : BeginSave(i, z, r)
           \/ SettingsHandler(i)
    PROVE  TypeInv'
  <1> USE DEF TypeInv, tables, bounds
  <1>0. TypeOK /\ save \in [Instance -> SaveState] /\ save[i] \in SaveState
    BY DEF TypeOK
  <1>a. ASSUME NEW s \in SaveState, save' = [save EXCEPT ![i] = s],
               UNCHANGED <<cursor, pc, stage, todo, poll>>, stage[i] = "running"
        PROVE  save' \in [Instance -> SaveState] /\ \A j \in Instance : Control(j)'
    BY <1>0, <1>a DEF Control, TypeOK
  <1>b. save[i].step # "none" => stage[i] = "running"
    BY DEF Control
  <1>1. ASSUME NEW z \in Value, Preview(i, z)
        PROVE  TypeInv'
    <2>1. TypeOK'
      BY <1>1, SamePollState DEF Preview, TypeOK, Key
    <2>2. \A j \in Instance : Control(j)'
      BY <1>1 DEF Preview, TypeOK, Control
    <2> QED BY <2>1, <2>2
  <1>2. ASSUME NEW z \in Value, NEW r \in Request, BeginSave(i, z, r)
        PROVE  TypeInv'
    <2> DEFINE s == [step |-> "zoom", zoom |-> z, bindings |-> r, left |-> {}]
    <2>1. s \in SaveState
      BY DEF SaveState
    <2>2. /\ save' = [save EXCEPT ![i] = s] /\ stage[i] = "running"
          /\ UNCHANGED <<revisions, cursor, pc, stage, todo, poll>>
          /\ runtime' = [runtime EXCEPT ![i][Zoom] = z]
          /\ unsaved' = [unsaved EXCEPT ![i] = @ \ {Zoom}]
      BY <1>2 DEF BeginSave
    <2> HIDE DEF s
    <2>3. save' \in [Instance -> SaveState] /\ \A j \in Instance : Control(j)'
      BY <2>1, <2>2, <1>a
    <2>4. TypeOK'
      BY <2>2, <2>3, SamePollState DEF TypeOK, Key
    <2> QED BY <2>3, <2>4
  <1>3. CASE SaveZoom(i)
    <2> DEFINE s == IF DOMAIN save[i].bindings = {} THEN NoSave
                    ELSE [save[i] EXCEPT !.step = "merge"]
    <2>1. /\ save[i].zoom \in Value /\ save[i].bindings \in Request
          /\ save[i] = [step |-> "zoom", zoom |-> save[i].zoom,
                        bindings |-> save[i].bindings, left |-> {}]
      BY <1>0, <1>3, SaveFields DEF SaveZoom
    <2>2. s \in SaveState
      BY <2>1, RequestedIs DEF SaveState
    <2>3. /\ save' = [save EXCEPT ![i] = s] /\ stage[i] = "running"
          /\ Persist(i, Zoom, save[i].zoom)
          /\ UNCHANGED <<cursor, runtime, pc, stage, todo, poll>>
      BY <1>0, <1>3, <1>b DEF SaveZoom
    <2> HIDE DEF s
    <2>4. save' \in [Instance -> SaveState] /\ \A j \in Instance : Control(j)'
      BY <2>2, <2>3, <1>a
    <2>5. Zoom \in Key /\ save[i].zoom \in Value \cup {Bad}
      BY <2>1 DEF Key
    <2>6. TypeOK'
      BY <1>0, <2>3, <2>4, <2>5, PersistTypes DEF TypeOK
    <2> QED BY <2>4, <2>6
  <1>4. CASE MergeBindings(i)
    <2> DEFINE b == [k \in Binding |-> IF k \in DOMAIN save[i].bindings
                                       THEN Parsed(save[i].bindings[k]) ELSE runtime[i][k]]
               s == [save[i] EXCEPT !.step = "set", !.bindings = b]
    <2>1. /\ save[i].zoom \in Value /\ save[i].step = "merge"
          /\ save[i] \in [step : {"merge"}, zoom : Value, bindings : Requested, left : {{}}]
      BY <1>0, <1>4, SaveFields DEF MergeBindings
    <2>2. b \in [Binding -> Value]
      BY ParsedType DEF TypeOK, Key
    <2>3. s \in SaveState
      <3> HIDE DEF b
      <3>1. s \in [step : {"set"}, zoom : Value, bindings : [Binding -> Value], left : {{}}]
        BY <2>1, <2>2
      <3> QED BY <3>1 DEF SaveState
    <2>4. /\ save' = [save EXCEPT ![i] = s] /\ stage[i] = "running"
          /\ UNCHANGED <<revisions, cursor, runtime, pc, stage, todo, poll, unsaved>>
      BY <1>0, <1>4, <1>b, <2>1 DEF MergeBindings
    <2> HIDE DEF s
    <2>5. save' \in [Instance -> SaveState] /\ \A j \in Instance : Control(j)'
      BY <2>3, <2>4, <1>a
    <2>6. TypeOK'
      BY <2>4, <2>5, SamePollState DEF TypeOK
    <2> QED BY <2>5, <2>6
  <1>5. CASE SetBindings(i)
    <2> DEFINE m == [k \in Key |-> IF k \in Binding THEN save[i].bindings[k] ELSE runtime[i][k]]
               s == [save[i] EXCEPT !.step = "persist", !.left = Binding]
    <2>1. /\ save[i].zoom \in Value /\ save[i].step = "set"
          /\ save[i].bindings \in [Binding -> Value]
          /\ save[i] \in [step : {"set"}, zoom : Value, bindings : [Binding -> Value],
                          left : {{}}]
      BY <1>0, <1>5, SaveFields DEF SetBindings
    <2>2. m \in [Key -> Value]
      BY <2>1 DEF TypeOK
    <2>3. s \in SaveState
      <3>1. s \in [step : {"persist"}, zoom : Value, bindings : [Binding -> Value],
                   left : (SUBSET Binding) \ {{}}]
        BY <2>1, KeyAssumption
      <3> QED BY <3>1 DEF SaveState
    <2>4. /\ save' = [save EXCEPT ![i] = s] /\ stage[i] = "running"
          /\ runtime' = [runtime EXCEPT ![i] = m]
          /\ UNCHANGED <<revisions, cursor, pc, stage, todo, poll>>
          /\ unsaved' = [unsaved EXCEPT ![i] = @ \ Binding]
      BY <1>0, <1>5, <1>b, <2>1 DEF SetBindings, TypeOK
    <2> HIDE DEF s, m
    <2>5. save' \in [Instance -> SaveState] /\ \A j \in Instance : Control(j)'
      BY <2>3, <2>4, <1>a
    <2>6. TypeOK'
      BY <2>2, <2>4, <2>5, SamePollState DEF TypeOK
    <2> QED BY <2>5, <2>6
  <1>6. CASE PersistBinding(i)
    <2> DEFINE k == NextKey(save[i].left)
               s == IF save[i].left = {k} THEN NoSave
                    ELSE [save[i] EXCEPT !.left = @ \ {k}]
    <2>1. /\ save[i].zoom \in Value /\ save[i].step = "persist"
          /\ save[i].bindings \in [Binding -> Value]
          /\ save[i].left \in (SUBSET Binding) \ {{}}
          /\ save[i] = [step |-> "persist", zoom |-> save[i].zoom,
                        bindings |-> save[i].bindings, left |-> save[i].left]
      BY <1>0, <1>6, SaveFields DEF PersistBinding
    <2>2. k \in save[i].left /\ k \in Binding
      BY <2>1, NextKeyIn
    <2>3. s \in SaveState
      <3> HIDE DEF k
      <3>1. CASE save[i].left = {k}
        BY <3>1 DEF SaveState
      <3>2. CASE save[i].left # {k}
        <4>1. s = [step |-> "persist", zoom |-> save[i].zoom, bindings |-> save[i].bindings,
                   left |-> save[i].left \ {k}]
          BY <2>1, <3>2
        <4>2. save[i].left \ {k} \in (SUBSET Binding) \ {{}}
          BY <2>1, <2>2, <3>2
        <4> QED BY <2>1, <4>1, <4>2 DEF SaveState
      <3> QED BY <3>1, <3>2
    <2>4. /\ save' = [save EXCEPT ![i] = s] /\ stage[i] = "running"
          /\ Persist(i, k, save[i].bindings[k])
          /\ UNCHANGED <<cursor, runtime, pc, stage, todo, poll>>
      <3>1. stage[i] = "running"
        BY <1>b, <2>1
      <3>2. /\ Persist(i, k, save[i].bindings[k])
            /\ UNCHANGED <<cursor, runtime, pc, stage, todo, poll>>
        BY <1>6 DEF PersistBinding
      <3>3. save' = [save EXCEPT ![i] = s]
        BY <1>6 DEF PersistBinding
      <3> QED BY <3>1, <3>2, <3>3
    <2> HIDE DEF s, k
    <2>5. save' \in [Instance -> SaveState] /\ \A j \in Instance : Control(j)'
      BY <2>3, <2>4, <1>a
    <2>6. k \in Key /\ save[i].bindings[k] \in Value \cup {Bad}
      BY <2>1, <2>2 DEF Key
    <2>7. TypeOK'
      BY <1>0, <2>4, <2>5, <2>6, PersistTypes DEF TypeOK
    <2> QED BY <2>5, <2>7
  <1> QED BY <1>1, <1>2, <1>3, <1>4, <1>5, <1>6 DEF SettingsHandler

(* Every step keeps the types. *)
LEMMA NextTypes == TypeInv /\ [Next]_vars => TypeInv'
  <1> SUFFICES ASSUME TypeInv, [Next]_vars PROVE TypeInv'
    OBVIOUS
  <1>1. ASSUME NEW i \in Instance, Launch(i) \/ EventLoop(i)
        PROVE  TypeInv'
    BY <1>1, StartTypes, PollTypes, ApplyTypes DEF EventLoop
  <1>2. ASSUME NEW i \in Instance,
               \/ \E z \in Value : Preview(i, z)
               \/ \E z \in Value, r \in Request : BeginSave(i, z, r)
               \/ SettingsHandler(i)
        PROVE  TypeInv'
    BY <1>2, HandlerTypes
  <1>3. ASSUME NEW i \in Instance, Exit(i)
        PROVE  TypeInv'
    <2>1. /\ NoPoll \in PollState /\ NoSave \in SaveState /\ NoSave.step = "none"
          /\ [k \in Key |-> Default] \in [Key -> Value]
          /\ "off" \in EventLoopAt
      BY ValueAssumption DEF NoPoll, PollState, NoSave, SaveState, EventLoopAt
    <2>2. TypeOK'
      BY <1>3, <2>1, SamePollState DEF Exit, Goto, tables, TypeInv, TypeOK
    <2>3. \A j \in Instance : Control(j)'
      BY <1>3, <2>1 DEF Exit, Goto, tables, TypeInv, TypeOK, Control
    <2> QED BY <2>2, <2>3 DEF TypeInv
  <1>4. ASSUME NEW k \in Key \cup OtherKey, NEW v \in Value \cup {Bad}, ApplyRemote(k, v)
        PROVE  TypeInv'
    <2>1. TypeOK'
      BY <1>4, RecordTypes DEF ApplyRemote, TypeInv, TypeOK
    <2>2. \A j \in Instance : Control(j)'
      BY <1>4 DEF ApplyRemote, TypeInv, Control
    <2> QED BY <2>1, <2>2 DEF TypeInv
  <1>5. CASE UNCHANGED vars
    <2>1. TypeOK'
      BY <1>5, SamePollState DEF vars, tables, TypeInv, TypeOK
    <2>2. \A j \in Instance : Control(j)'
      BY <1>5 DEF vars, tables, TypeInv, Control
    <2> QED BY <2>1, <2>2 DEF TypeInv
  <1> QED BY <1>1, <1>2, <1>3, <1>4, <1>5 DEF Next

LEMMA InitTypes == Init => TypeInv
  <1> SUFFICES ASSUME Init PROVE TypeInv
    OBVIOUS
  <1>1. /\ NoPoll \in PollState /\ NoSave \in SaveState /\ NoSave.step = "none"
        /\ [k \in Key |-> Default] \in [Key -> Value]
    BY ValueAssumption DEF NoPoll, PollState, NoSave, SaveState
  <1>2. TypeOK
    BY <1>1 DEF Init, TypeOK, EventLoopAt
  <1>3. \A i \in Instance : Control(i)
    BY <1>1 DEF Init, Control
  <1> QED BY <1>2, <1>3 DEF TypeInv

(***************************************************************************)
(* The watcher's state is well typed for any number of shells; above all,  *)
(* the cursor and the revision of a poll are always rows of the settings   *)
(* domain, or 0: changes of other domains do not move them.                *)
(***************************************************************************)
THEOREM WatcherTypeCorrect == Spec => []TypeOK
  <1>1. TypeInv => TypeOK
    BY DEF TypeInv
  <1> QED BY <1>1, InitTypes, NextTypes, PTL DEF Spec

-----------------------------------------------------------------------------
(* One shell: nothing is missed. *)

Beyond(k, n) == \E m \in Rows({k}) : m > n

(* The handler has set k in memory and is still to write its row. *)
Unwritten(i, k) ==
    \/ save[i].step = "zoom" /\ k = Zoom
    \/ save[i].step = "persist" /\ k \in save[i].left

(* An event of k was read and is still to be applied. *)
Waiting(i, k) == \E n \in poll[i].events : revisions[n].key = k

Polling == {"fetch", "apply", "store", "current", "write"}

(* The revision up to which rows were read. *)
Level(i) == IF pc[i] \in Polling THEN poll[i].revision ELSE cursor

(* What is in memory, or about to be stored there, agrees with the database. *)
Settled(i, k) ==
    IF pc[i] = "store" /\ k \in Binding
    THEN poll[i].copy[k] = Parsed(View(k)) \/ k \in unsaved[i]
    ELSE Shown(i, k)

Covered(i, k) ==
    Unwritten(i, k) \/ Beyond(k, Level(i)) \/ Waiting(i, k) \/ Settled(i, k)

(* The events left are the last of those up to the revision of the poll. *)
FeedInv(i) ==
    /\ pc[i] \notin {"apply", "store"} => poll[i].events = {}
    /\ pc[i] \in Polling /\ cursor # None => cursor <= poll[i].revision
    /\ \A n \in poll[i].events :
          /\ n <= poll[i].revision
          /\ \A m \in Rows(Key) : n <= m /\ m <= poll[i].revision => m \in poll[i].events

CoverInv(i) ==
    stage[i] # "first" =>
       \A k \in Key : (stage[i] = "second" => k \notin todo[i]) => Covered(i, k)

IInv == TypeInv /\ \A i \in Instance : FeedInv(i) /\ CoverInv(i)

LEMMA SameView ==
    ASSUME UNCHANGED revisions
    PROVE  /\ \A K : Rows(K)' = Rows(K)
           /\ \A k : View(k)' = View(k)
  BY DEF Rows, View

LEMMA LevelIsRow ==
    ASSUME TypeInv, NEW i \in Instance
    PROVE  /\ poll[i].revision \in Nat /\ poll[i].revision <= Len(revisions)
           /\ poll[i].events \subseteq Rows(Key)
           /\ cursor # None => cursor \in Nat /\ cursor <= Len(revisions)
           /\ stage[i] # "first" => /\ Level(i) \in Nat /\ Level(i) <= Len(revisions)
           /\ Len(revisions) \in Nat
  <1>1. revisions \in Seq(Event) /\ cursor \in Rows(Key) \cup {0, None} /\ poll[i] \in PollState
    BY DEF TypeInv, TypeOK
  <1>2. /\ poll[i].revision \in Rows(Key) \cup {0}
        /\ poll[i].events \subseteq Rows(Key)
    BY <1>1 DEF PollState
  <1>3. /\ Len(revisions) \in Nat
        /\ \A n \in Rows(Key) \cup {0} : n \in Nat /\ n <= Len(revisions)
    BY <1>1, RowsAreRevisions
  <1>4. stage[i] # "first" => cursor # None
    BY DEF TypeInv, Control
  <1> QED BY <1>1, <1>2, <1>3, <1>4 DEF Level

(* A written row is beyond what was read, and leaves the feed as it is. *)
LEMMA RecordFeed ==
    ASSUME TypeInv, NEW i \in Instance, FeedInv(i),
           NEW k \in Key \cup OtherKey, NEW v \in Value \cup {Bad}, Record(k, v),
           UNCHANGED <<cursor, poll>>,
           pc'[i] = pc[i] \/ (pc[i] = "default" /\ pc'[i] = "load")
    PROVE  FeedInv(i)'
  <1>1. revisions \in Seq(Event)
    BY DEF TypeInv, TypeOK
  <1>2. \A m \in Rows(Key)' : m \in Rows(Key) \/ m = Len(revisions) + 1
    BY <1>1, RecordRow
  <1>3. /\ Len(revisions) \in Nat
        /\ poll[i].revision \in Nat /\ poll[i].revision <= Len(revisions)
        /\ poll[i].events \subseteq Rows(Key)
    BY LevelIsRow
  <1> QED BY <1>2, <1>3 DEF FeedInv, Polling

LEMMA RecordBeyond ==
    ASSUME TypeInv, NEW i \in Instance, stage[i] # "first",
           NEW k \in Key \cup OtherKey, NEW v \in Value \cup {Bad}, Record(k, v),
           Level(i)' = Level(i)
    PROVE  Beyond(k, Level(i))'
  <1>1. Len(revisions) + 1 \in Rows({k})'
    BY RecordRow DEF TypeInv, TypeOK
  <1>2. Level(i) \in Nat /\ Level(i) <= Len(revisions) /\ Len(revisions) \in Nat
    BY LevelIsRow
  <1> QED BY <1>1, <1>2 DEF Beyond

LEMMA RecordOther ==
    ASSUME TypeInv, NEW i \in Instance,
           NEW k \in Key \cup OtherKey, NEW v \in Value \cup {Bad}, Record(k, v),
           UNCHANGED poll, Level(i)' = Level(i), NEW c \in Key, c # k
    PROVE  /\ View(c)' = View(c)
           /\ Beyond(c, Level(i)) => Beyond(c, Level(i))'
           /\ Waiting(i, c) => Waiting(i, c)'
  <1>1. revisions \in Seq(Event)
    BY DEF TypeInv, TypeOK
  <1>2. View(c)' = View(c) /\ Rows({c})' = Rows({c})
    BY <1>1, RecordRow, RecordView
  <1>3. \A n \in poll[i].events : revisions'[n] = revisions[n]
    <2>1. \A n \in poll[i].events : n \in 1..Len(revisions)
      BY <1>1, LevelIsRow, RowsAreRevisions
    <2> QED BY <1>1, <2>1, RecordRow
  <1> QED BY <1>2, <1>3 DEF Beyond, Waiting

(* A step that writes a row of k, while memory stays as it is. *)
LEMMA RecordCovers ==
    ASSUME TypeInv, NEW i \in Instance, CoverInv(i),
           NEW k \in Key \cup OtherKey, NEW v \in Value \cup {Bad}, Record(k, v),
           UNCHANGED <<cursor, runtime, pc, stage, todo, poll, unsaved>>,
           \A c \in Key : c # k /\ Unwritten(i, c) => Unwritten(i, c)'
    PROVE  CoverInv(i)'
  <1> SUFFICES ASSUME stage[i] # "first", NEW c \in Key,
                      stage[i] = "second" => c \notin todo[i]
               PROVE  Covered(i, c)'
    BY DEF CoverInv
  <1>1. Level(i)' = Level(i)
    BY DEF Level
  <1>2. CASE c = k
    BY <1>1, <1>2, RecordBeyond DEF Covered
  <1>3. CASE c # k
    <2>1. Covered(i, c)
      BY DEF CoverInv
    <2>2. View(c)' = View(c)
      BY <1>1, <1>3, RecordOther
    <2>3. Settled(i, c) => Settled(i, c)'
      BY <2>2 DEF Settled, Shown, Parsed
    <2> QED BY <1>1, <1>3, <2>1, <2>3, RecordOther DEF Covered
  <1> QED BY <1>2, <1>3

(* A step of shell i that leaves the rows and what is known of k alone. *)
LEMMA StaysCovered ==
    ASSUME NEW i \in Instance, NEW k \in Key, UNCHANGED revisions,
           Covered(i, k), Unwritten(i, k) => Unwritten(i, k)',
           Level(i)' = Level(i), poll'[i].events = poll[i].events,
           Settled(i, k) => Settled(i, k)'
    PROVE  Covered(i, k)'
  <1>1. Rows({k})' = Rows({k})
    BY SameRows
  <1>2. Beyond(k, Level(i)) => Beyond(k, Level(i))'
    BY <1>1 DEF Beyond
  <1>3. Waiting(i, k) => Waiting(i, k)'
    BY DEF Waiting
  <1> QED BY <1>2, <1>3 DEF Covered

(* Start-up: what was loaded is shown, or its default has just been written. *)
LEMMA StartCovers ==
    ASSUME TypeInv, NEW i \in Instance, FeedInv(i), CoverInv(i),
           Launch(i) \/ LoadSetting(i) \/ WriteDefault(i) \/ FinishLoad(i)
    PROVE  FeedInv(i)' /\ CoverInv(i)'
  <1> USE DEF Goto, tables, bounds
  <1>0. /\ Control(i) /\ i \in DOMAIN pc /\ i \in DOMAIN todo /\ i \in DOMAIN stage
        /\ runtime \in [Instance -> [Key -> Value]] /\ todo[i] \subseteq Key
    BY DEF TypeInv, TypeOK
  <1>1. CASE Launch(i)
    <2>1. FeedInv(i)'
      BY <1>0, <1>1, SameRows DEF Launch, FeedInv, Polling
    <2>2. CoverInv(i)'
      BY <1>0, <1>1 DEF Launch, CoverInv, Control
    <2> QED BY <2>1, <2>2
  <1>2. CASE LoadSetting(i)
    <2> DEFINE k == NextKey(todo[i])
    <2>1. /\ UNCHANGED <<revisions, cursor, stage, poll, save, unsaved>>
          /\ pc[i] = "load" /\ todo[i] # {} /\ pc'[i] \in {"load", "default"}
      BY <1>0, <1>2 DEF LoadSetting
    <2>2. k \in todo[i] /\ k \in Key
      BY <1>0, <2>1, NextKeyIn
    <2>3. FeedInv(i)'
      BY <2>1, SameRows DEF FeedInv, Polling
    <2>4. \/ /\ runtime' = [runtime EXCEPT ![i][k] = Parsed(View(k))]
             /\ todo' = [todo EXCEPT ![i] = @ \ {k}]
          \/ UNCHANGED <<runtime, todo>>
      BY <1>2 DEF LoadSetting
    <2> HIDE DEF k
    <2>5. CoverInv(i)'
      <3> SUFFICES ASSUME stage[i] # "first", NEW c \in Key,
                          stage[i] = "second" => c \notin todo'[i]
                   PROVE  Covered(i, c)'
        BY <2>1 DEF CoverInv
      <3>1. View(c)' = View(c)
        BY <2>1, SameView
      <3>2. stage[i] = "second"
        BY <1>0, <2>1 DEF Control, TypeInv, TypeOK
      <3>3. CASE c \in todo[i]
        <4>1. c = k /\ runtime'[i][c] = Parsed(View(c))
          BY <1>0, <2>2, <2>4, <3>2, <3>3
        <4>2. Shown(i, c)'
          BY <3>1, <4>1 DEF Shown, Parsed
        <4>3. Settled(i, c)'
          BY <2>1, <4>2 DEF Settled
        <4> QED BY <4>3 DEF Covered
      <3>4. CASE c \notin todo[i]
        <4>1. c # k /\ runtime'[i][c] = runtime[i][c]
          BY <1>0, <2>2, <2>4, <3>4
        <4>2. Settled(i, c) => Settled(i, c)'
          BY <2>1, <3>1, <4>1 DEF Settled, Shown, Parsed
        <4>3. Covered(i, c)
          BY <3>4 DEF CoverInv
        <4>4. Level(i)' = Level(i)
          BY <2>1 DEF Level, Polling
        <4> QED BY <2>1, <4>2, <4>3, <4>4, StaysCovered DEF Unwritten
      <3> QED BY <3>3, <3>4
    <2> QED BY <2>3, <2>5
  <1>3. CASE WriteDefault(i)
    <2> DEFINE k == NextKey(todo[i])
    <2>1. k \in todo[i] /\ k \in Key
      BY <1>0, <1>3, NextKeyIn DEF WriteDefault, Control
    <2>2. /\ Record(k, Default) /\ UNCHANGED <<cursor, poll, stage, save, unsaved>>
          /\ runtime' = [runtime EXCEPT ![i][k] = Default]
          /\ todo' = [todo EXCEPT ![i] = @ \ {k}]
          /\ pc[i] = "default" /\ pc'[i] = "load"
          /\ Default \in Value \cup {Bad}
      BY <1>0, <1>3, ValueAssumption DEF WriteDefault
    <2> HIDE DEF k
    <2>3. FeedInv(i)'
      BY <2>1, <2>2, RecordFeed
    <2>4. CoverInv(i)'
      <3> SUFFICES ASSUME stage[i] # "first", NEW c \in Key,
                          stage[i] = "second" => c \notin todo'[i]
                   PROVE  Covered(i, c)'
        BY <2>2 DEF CoverInv
      <3>1. stage[i] = "second" /\ Level(i)' = Level(i)
        BY <1>0, <2>2 DEF Control, TypeInv, TypeOK, Level, Polling
      <3>2. CASE c = k
        BY <2>1, <2>2, <3>1, <3>2, RecordBeyond DEF Covered
      <3>3. CASE c # k
        <4>1. c \notin todo[i] /\ runtime'[i][c] = runtime[i][c]
          BY <1>0, <2>1, <2>2, <3>1, <3>3
        <4>2. Covered(i, c)
          BY <4>1 DEF CoverInv
        <4>3. View(c)' = View(c)
          BY <2>1, <2>2, <3>1, <3>3, RecordOther
        <4>4. Settled(i, c) => Settled(i, c)'
          BY <2>2, <4>1, <4>3 DEF Settled, Shown, Parsed
        <4>5. Unwritten(i, c) => Unwritten(i, c)'
          BY <2>2 DEF Unwritten
        <4> QED BY <2>1, <2>2, <3>1, <3>3, <4>2, <4>4, <4>5, RecordOther DEF Covered
      <3> QED BY <3>2, <3>3
    <2> QED BY <2>3, <2>4
  <1>4. CASE FinishLoad(i)
    <2>1. /\ UNCHANGED <<revisions, cursor, runtime, todo, poll, save, unsaved>>
          /\ pc[i] = "load" /\ pc'[i] = "cursor" /\ todo[i] = {}
          /\ stage'[i] = IF stage[i] = "first" THEN "first" ELSE "running"
      BY <1>0, <1>4 DEF FinishLoad
    <2>2. FeedInv(i)'
      BY <2>1, SameRows DEF FeedInv, Polling
    <2>3. CoverInv(i)'
      <3> SUFFICES ASSUME stage[i] # "first", NEW c \in Key PROVE Covered(i, c)'
        BY <2>1 DEF CoverInv
      <3>1. Covered(i, c)
        BY <2>1 DEF CoverInv
      <3>2. Level(i)' = Level(i)
        BY <2>1 DEF Level, Polling
      <3>3. Settled(i, c) => Settled(i, c)'
        BY <2>1, SameView DEF Settled, Shown, Parsed
      <3> QED BY <2>1, <3>1, <3>2, <3>3, StaysCovered DEF Unwritten
    <2> QED BY <2>2, <2>3
  <1> QED BY <1>1, <1>2, <1>3, <1>4

(* The rows of a batch are all those after n up to its last. *)
LEMMA BatchIsPrefix ==
    ASSUME revisions \in Seq(Event), NEW n \in Nat, NEW m \in EventsAfter(n),
           NEW x \in Rows(Key), x > n, x <= m
    PROVE  x \in EventsAfter(n)
  <1> DEFINE Upto(y) == {z \in Rows(Key) : n < z /\ z <= y}
  <1>1. /\ Rows(Key) \in SUBSET Nat
        /\ \A z \in Rows(Key) : z \in 1..Len(revisions)
        /\ Len(revisions) \in Nat
    BY RowsAreRevisions
  <1>2. IsFiniteSet(1..Len(revisions))
    BY <1>1, FS_Interval
  <1>3. IsFiniteSet(Upto(m))
    BY <1>1, <1>2, FS_Subset
  <1>4. m \in Rows(Key) /\ Cardinality(Upto(m)) <= BatchLimit
    BY DEF EventsAfter
  <1>5. Upto(x) \subseteq Upto(m)
    BY <1>1, <1>4
  <1>6. /\ Cardinality(Upto(x)) \in Nat /\ Cardinality(Upto(m)) \in Nat
        /\ Cardinality(Upto(x)) <= Cardinality(Upto(m))
    BY <1>3, <1>5, FS_Subset, FS_CardinalityType
  <1>7. Cardinality(Upto(x)) <= BatchLimit
    <2> HIDE DEF Upto
    <2> QED BY <1>4, <1>6, BoundAssumption
  <1> QED BY <1>7 DEF EventsAfter

(* What was beyond the revision of the poll is read, or is still beyond it. *)
LEMMA FetchCovers ==
    ASSUME TypeInv, NEW i \in Instance, FeedInv(i), CoverInv(i), FetchEvents(i)
    PROVE  FeedInv(i)' /\ CoverInv(i)'
  <1> USE DEF Goto, tables, bounds
  <1> DEFINE r == poll[i].revision
             rows == EventsAfter(r)
             rev == IF rows = {} THEN r ELSE Max(rows)
  <1>1. /\ Control(i) /\ poll \in [Instance -> PollState] /\ poll[i] \in PollState
        /\ pc \in [Instance -> EventLoopAt] /\ revisions \in Seq(Event)
    BY DEF TypeInv, TypeOK
  <1>2. /\ UNCHANGED <<revisions, cursor, runtime, stage, todo, save, unsaved>>
        /\ poll'[i].events = rows /\ poll'[i].revision = rev
        /\ pc[i] = "fetch" /\ pc'[i] = "apply"
    BY <1>1 DEF FetchEvents, PollState
  <1>3. /\ r \in Nat /\ rows \subseteq Rows(Key) /\ Rows(Key) \in SUBSET Nat
        /\ cursor # None => cursor \in Nat /\ cursor <= r
    BY <1>1, <1>2, LevelIsRow, RowsAreRevisions DEF EventsAfter, FeedInv, Polling
  <1>4. rows # {} => Max(rows) \in rows /\ \A y \in rows : Max(rows) >= y
    <2>1. Len(revisions) \in Nat /\ \A n \in rows : n <= Len(revisions)
      BY <1>1, <1>3, RowsAreRevisions
    <2>2. rows \in SUBSET Nat
      BY <1>3
    <2> HIDE DEF rows
    <2> QED BY <2>1, <2>2, MaxIsGreatest
  <1>5. \A n \in rows : n > r /\ n <= rev /\ n \in Nat
    <2>1. \A n \in rows : n > r
      BY DEF EventsAfter
    <2> HIDE DEF rows
    <2> QED BY <1>3, <1>4, <2>1
  <1>6. rev \in Nat /\ rev >= r
    <2> HIDE DEF rows
    <2> QED BY <1>3, <1>4, <1>5
  <1>7. ASSUME NEW x \in Rows(Key), x > r, x <= rev
        PROVE  x \in rows
    <2>1. rows # {}
      BY <1>3, <1>7
    <2>2. Max(rows) \in rows /\ x <= Max(rows)
      BY <1>4, <1>7, <2>1
    <2> QED BY <1>1, <1>3, <1>7, <2>2, BatchIsPrefix
  <1> HIDE DEF r, rows, rev
  <1>8. FeedInv(i)'
    <2>1. Rows(Key)' = Rows(Key)
      BY <1>2, SameRows
    <2>2. cursor # None => cursor <= rev
      BY <1>3, <1>6
    <2>3. ASSUME NEW n \in rows, NEW m \in Rows(Key), n <= m, m <= rev
          PROVE  m \in rows
      BY <1>3, <1>5, <1>7, <2>3
    <2> QED BY <1>2, <1>5, <2>1, <2>2, <2>3 DEF FeedInv
  <1>9. CoverInv(i)'
    <2>1. stage[i] = "running"
      BY <1>1, <1>2 DEF Control
    <2> SUFFICES ASSUME NEW c \in Key PROVE Covered(i, c)'
      BY DEF CoverInv
    <2>2. Covered(i, c) /\ poll[i].events = {} /\ Level(i) = r /\ Level(i)' = rev
      BY <1>2, <2>1 DEF CoverInv, FeedInv, Level, Polling, r
    <2>3. CASE Unwritten(i, c)
      BY <1>2, <2>3 DEF Covered, Unwritten
    <2>4. CASE Settled(i, c)
      <3>1. Settled(i, c)'
        BY <1>2, <2>4, SameView DEF Settled, Shown, Parsed
      <3> QED BY <3>1 DEF Covered
    <2>5. CASE Beyond(c, Level(i))
      <3>1. PICK m \in Rows({c}) : m > r
        BY <2>2, <2>5 DEF Beyond
      <3>2. m \in Rows(Key) /\ m \in Nat /\ revisions[m].key = c
        BY <1>1, RowsAreRevisions
      <3>3. CASE m > rev
        <4>1. m \in Rows({c})'
          BY <1>2, SameRows
        <4> QED BY <2>2, <3>3, <4>1 DEF Covered, Beyond
      <3>4. CASE m <= rev
        <4>1. m \in rows
          BY <1>7, <3>1, <3>2, <3>4
        <4>2. Waiting(i, c)'
          BY <1>2, <3>2, <4>1 DEF Waiting
        <4> QED BY <4>2 DEF Covered
      <3> QED BY <1>6, <3>2, <3>3, <3>4
    <2> QED BY <2>2, <2>3, <2>4, <2>5 DEF Covered, Waiting
  <1> QED BY <1>8, <1>9

(* The cursor is read and written; the rows beyond it stay the same. *)
LEMMA CursorCovers ==
    ASSUME TypeInv, NEW i \in Instance, FeedInv(i), CoverInv(i),
           ReadCursor(i) \/ ReadHead(i) \/ ReadCurrentCursor(i) \/ WriteCursor(i)
    PROVE  FeedInv(i)' /\ CoverInv(i)'
  <1> USE DEF Goto, tables, bounds
  <1>0. /\ Control(i) /\ poll \in [Instance -> PollState] /\ poll[i] \in PollState
        /\ pc \in [Instance -> EventLoopAt] /\ revisions \in Seq(Event)
        /\ stage \in [Instance -> {"first", "second", "running"}]
        /\ i \in DOMAIN todo
        /\ cursor \in Rows(Key) \cup {0, None}
    BY DEF TypeInv, TypeOK
  <1>a. /\ poll[i].revision \in Nat
        /\ cursor # None => cursor \in Nat
        /\ pc[i] \in Polling /\ cursor # None => cursor <= poll[i].revision
    BY LevelIsRow DEF FeedInv
  (* Shell i goes on to poll, or is done with it; memory stays as it is. *)
  <1>b. ASSUME UNCHANGED <<revisions, runtime, stage, save, unsaved>>,
               stage[i] = "running", Level(i)' = Level(i),
               poll'[i].events = poll[i].events, pc[i] # "store", pc'[i] # "store"
        PROVE  CoverInv(i)'
    <2> SUFFICES ASSUME NEW c \in Key PROVE Covered(i, c)'
      BY DEF CoverInv
    <2>1. Covered(i, c)
      BY <1>b DEF CoverInv
    <2>2. Settled(i, c) => Settled(i, c)'
      BY <1>b, SameView DEF Settled, Shown, Parsed
    <2> QED BY <1>b, <2>1, <2>2, StaysCovered DEF Unwritten
  <1>1. CASE ReadCursor(i)
    <2>0. /\ UNCHANGED <<revisions, cursor, runtime, save, unsaved>>
          /\ pc[i] = "cursor" /\ poll[i].events = {}
      BY <1>1 DEF ReadCursor, FeedInv
    <2>1. CASE cursor = None /\ Goto(i, "head") /\ UNCHANGED <<stage, todo, poll>>
      <3>1. FeedInv(i)'
        BY <1>0, <2>0, <2>1 DEF FeedInv, Polling
      <3>2. CoverInv(i)'
        BY <1>0, <2>0, <2>1 DEF CoverInv, Control
      <3> QED BY <3>1, <3>2
    <2>2. CASE /\ cursor # None /\ stage[i] = "first"
               /\ AfterStartCursor(i) /\ UNCHANGED poll
      <3>1. FeedInv(i)'
        BY <1>0, <2>0, <2>2 DEF FeedInv, Polling, AfterStartCursor
      <3>2. CoverInv(i)'
        BY <1>0, <2>2 DEF CoverInv, AfterStartCursor
      <3> QED BY <3>1, <3>2
    <2>3. CASE /\ cursor # None /\ stage[i] = "running"
               /\ poll' = [poll EXCEPT ![i].revision = cursor]
               /\ Goto(i, "fetch") /\ UNCHANGED <<stage, todo>>
      <3>1. /\ poll'[i].events = {} /\ poll'[i].revision = cursor
            /\ pc'[i] = "fetch"
        BY <1>0, <2>0, <2>3 DEF PollState
      <3>2. FeedInv(i)'
        BY <1>a, <2>0, <2>3, <3>1 DEF FeedInv
      <3>3. Level(i)' = Level(i)
        BY <2>0, <3>1 DEF Level, Polling
      <3> QED BY <1>b, <2>0, <2>3, <3>1, <3>2, <3>3
    <2> QED BY <1>1, <2>1, <2>2, <2>3 DEF ReadCursor
  <1>2. CASE ReadHead(i)
    <2>1. /\ UNCHANGED <<revisions, cursor, stage>>
          /\ pc[i] = "head" /\ pc'[i] = "current" /\ poll[i].events = {}
          /\ poll'[i].events = {} /\ poll'[i].revision = DomainHead
      BY <1>0, <1>2 DEF ReadHead, FeedInv, PollState
    <2>2. stage[i] = "first"
      BY <1>0, <2>1 DEF Control
    <2>3. cursor # None => cursor <= DomainHead
      <3>1. DomainHead \in Nat
        BY <1>0, HeadIsLast, RowsAreRevisions
      <3> QED BY <1>0, <1>a, <3>1, HeadIsLast
    <2>4. FeedInv(i)'
      BY <2>1, <2>3 DEF FeedInv
    <2>5. CoverInv(i)'
      BY <2>1, <2>2 DEF CoverInv
    <2> QED BY <2>4, <2>5
  <1>3. CASE ReadCurrentCursor(i)
    <2> DEFINE r == IF cursor = None THEN poll[i].revision ELSE Max({cursor, poll[i].revision})
    <2>1. /\ UNCHANGED <<revisions, cursor, runtime, stage, save, unsaved>>
          /\ pc[i] = "current" /\ pc'[i] = "write" /\ poll[i].events = {}
          /\ poll'[i].events = {} /\ poll'[i].revision = r
      BY <1>0, <1>3 DEF ReadCurrentCursor, FeedInv, PollState
    <2>2. r = poll[i].revision
      <3>1. CASE cursor = None
        BY <3>1
      <3>2. CASE cursor # None
        <4> DEFINE S == {cursor, poll[i].revision}
        <4>1. /\ cursor \in Nat /\ poll[i].revision \in Nat /\ cursor <= poll[i].revision
          BY <1>a, <2>1, <3>2 DEF Polling
        <4>2. S \in SUBSET Nat /\ S # {} /\ \A y \in S : y <= poll[i].revision
          BY <4>1
        <4>3. Max(S) \in S /\ \A y \in S : Max(S) >= y
          <5> HIDE DEF S
          <5> QED BY <4>1, <4>2, MaxIsGreatest
        <4> QED BY <3>2, <4>1, <4>3
      <3> QED BY <3>1, <3>2
    <2> HIDE DEF r
    <2>3. FeedInv(i)'
      BY <2>1, <2>2 DEF FeedInv, Polling
    <2>4. CoverInv(i)'
      <3>1. CASE stage[i] = "first"
        BY <2>1, <3>1 DEF CoverInv
      <3>2. CASE stage[i] = "running"
        <4>1. Level(i)' = Level(i)
          BY <2>1, <2>2 DEF Level, Polling
        <4> QED BY <1>b, <2>1, <3>2, <4>1
      <3> QED BY <1>0, <2>1, <3>1, <3>2 DEF Control
    <2> QED BY <2>3, <2>4
  <1>4. CASE WriteCursor(i)
    <2>0. /\ UNCHANGED <<revisions, runtime, save, unsaved>>
          /\ pc[i] = "write" /\ poll[i].events = {} /\ poll'[i].events = {}
          /\ cursor' = poll[i].revision
      BY <1>0, <1>4 DEF WriteCursor, FeedInv, NoPoll
    <2>1. CASE stage[i] = "first" /\ AfterStartCursor(i)
      <3>1. FeedInv(i)'
        BY <1>0, <2>0, <2>1 DEF FeedInv, Polling, AfterStartCursor
      <3>2. CoverInv(i)'
        BY <1>0, <2>1 DEF CoverInv, AfterStartCursor
      <3> QED BY <3>1, <3>2
    <2>2. CASE stage[i] = "running" /\ Goto(i, "cursor") /\ UNCHANGED <<stage, todo>>
      <3>1. FeedInv(i)'
        BY <1>0, <2>0, <2>2 DEF FeedInv, Polling
      <3>2. Level(i)' = Level(i) /\ pc'[i] = "cursor"
        BY <1>0, <2>0, <2>2 DEF Level, Polling
      <3> QED BY <1>b, <2>0, <2>2, <3>1, <3>2
    <2> QED BY <1>4, <2>1, <2>2 DEF WriteCursor
  <1> QED BY <1>1, <1>2, <1>3, <1>4

(* The first event left is of key k.  When no row of k is beyond the poll  *)
(* and no other event of k is left, it is what the database holds.         *)
LEMMA LastEventIsView ==
    ASSUME TypeInv, NEW i \in Instance, FeedInv(i), poll[i].events # {},
           NEW k \in Key, revisions[Min(poll[i].events)].key = k,
           ~Beyond(k, poll[i].revision),
           \A m \in poll[i].events : revisions[m].key = k => m = Min(poll[i].events)
    PROVE  View(k) = revisions[Min(poll[i].events)].value
  <1> DEFINE n == Min(poll[i].events)
  <1>1. /\ n \in poll[i].events /\ n \in Rows(Key) /\ n \in Nat
        /\ revisions \in Seq(Event)
    BY FirstEvent DEF TypeInv, TypeOK
  <1>2. n \in Rows({k})
    BY <1>1, RowsAreRevisions
  <1>3. Max(Rows({k})) \in Rows({k}) /\ Max(Rows({k})) >= n
    BY <1>1, <1>2, MaxRow
  <1>4. /\ Max(Rows({k})) \in Rows(Key) /\ revisions[Max(Rows({k}))].key = k
        /\ Max(Rows({k})) \in Nat /\ poll[i].revision \in Nat
    <2>1. \A m \in Rows({k}) : m \in Rows(Key) /\ revisions[m].key = k /\ m \in Nat
      BY <1>1 DEF Rows
    <2> QED BY <1>3, <2>1, LevelIsRow
  <1>5. Max(Rows({k})) <= poll[i].revision
    <2>1. ~(Max(Rows({k})) > poll[i].revision)
      BY <1>3 DEF Beyond
    <2> QED BY <1>4, <2>1
  <1>6. Max(Rows({k})) \in poll[i].events
    BY <1>1, <1>3, <1>4, <1>5 DEF FeedInv
  <1>7. Max(Rows({k})) = n
    BY <1>4, <1>6
  <1> QED BY <1>2, <1>7 DEF View

(* The events are applied: the last of a key brings what the database holds. *)
LEMMA ApplyCovers ==
    ASSUME TypeInv, NEW i \in Instance, FeedInv(i), CoverInv(i),
           ApplyZoom(i) \/ CopyBindings(i) \/ StoreBindings(i) \/ FinishApply(i)
    PROVE  FeedInv(i)' /\ CoverInv(i)'
  <1> USE DEF Goto, tables, bounds
  <1> DEFINE n == Min(poll[i].events)
  <1>0. /\ Control(i) /\ poll \in [Instance -> PollState] /\ poll[i] \in PollState
        /\ pc \in [Instance -> EventLoopAt] /\ revisions \in Seq(Event)
        /\ runtime \in [Instance -> [Key -> Value]]
        /\ unsaved \in [Instance -> SUBSET Key]
    BY DEF TypeInv, TypeOK
  <1>a. /\ pc[i] \in {"apply", "store"} /\ UNCHANGED <<revisions, cursor, stage, todo, save>>
        /\ stage[i] = "running"
    BY <1>0 DEF ApplyZoom, CopyBindings, StoreBindings, FinishApply, Control
  <1>b. /\ \A c \in Key : Covered(i, c)
        /\ Level(i) = poll[i].revision
        /\ \A c \in Key : View(c)' = View(c)
        /\ \A c \in Key : Rows({c})' = Rows({c})
    BY <1>a, SameView DEF CoverInv, Level, Polling
  (* What the removal of the first event does to the feed. *)
  <1>c. ASSUME poll[i].events # {}, poll'[i].events = poll[i].events \ {n},
               poll'[i].revision = poll[i].revision, pc'[i] \in {"apply", "store"}
        PROVE  /\ FeedInv(i)' /\ Level(i)' = Level(i)
               /\ \A c \in Key : Beyond(c, Level(i)) => Beyond(c, Level(i))'
               /\ \A c \in Key : Waiting(i, c) => Waiting(i, c)' \/ revisions[n].key = c
    <2>1. /\ \A m \in poll[i].events : n <= m
          /\ n \in Nat
      BY <1>c, FirstEvent DEF TypeInv
    <2>2. Rows(Key)' = Rows(Key) /\ Rows(Key) \in SUBSET Nat /\ poll[i].events \subseteq Rows(Key)
      BY <1>0, <1>a, SameRows, RowsAreRevisions, LevelIsRow
    <2>3. ASSUME NEW e \in poll[i].events \ {n}, NEW m \in Rows(Key),
                 e <= m, m <= poll[i].revision
          PROVE  m \in poll[i].events \ {n}
      <3>1. n <= e /\ e \in Nat /\ e # n /\ m \in Nat
        BY <2>1, <2>2
      <3>2. m # n
        BY <2>1, <2>3, <3>1
      <3> QED BY <2>3, <3>2 DEF FeedInv
    <2>4. pc[i] \in Polling
      BY <1>a DEF Polling
    <2> HIDE DEF n
    <2>5. FeedInv(i)'
      BY <1>a, <1>c, <2>2, <2>3, <2>4 DEF FeedInv
    <2>6. Level(i)' = Level(i)
      BY <1>a, <1>c DEF Level, Polling
    <2>7. \A c \in Key : Beyond(c, Level(i)) => Beyond(c, Level(i))'
      BY <1>b, <2>6 DEF Beyond
    <2>8. \A c \in Key : Waiting(i, c) => Waiting(i, c)' \/ revisions[n].key = c
      BY <1>a, <1>c DEF Waiting
    <2> QED BY <2>5, <2>6, <2>7, <2>8
  (* The key of the first event, if none of its rows is left or beyond. *)
  <1>d. ASSUME poll[i].events # {}, poll'[i].events = poll[i].events \ {n},
               NEW k \in Key, revisions[n].key = k, ~Waiting(i, k)', ~Beyond(k, Level(i))
        PROVE  View(k) = revisions[n].value
    <2>1. \A m \in poll[i].events : revisions[m].key = k => m = n
      BY <1>a, <1>d DEF Waiting
    <2> QED BY <1>b, <1>d, <2>1, LastEventIsView
  <1>1. CASE ApplyZoom(i)
    <2>1. /\ poll[i].events # {} /\ poll'[i].events = poll[i].events \ {n}
          /\ poll'[i].revision = poll[i].revision /\ pc' = pc /\ pc[i] = "apply"
          /\ revisions[n].key = Zoom
      BY <1>0, <1>1 DEF ApplyZoom, PollState
    <2>2. \/ /\ revisions[n].value \in Value
             /\ runtime' = [runtime EXCEPT ![i][Zoom] = revisions[n].value]
             /\ unsaved' = [unsaved EXCEPT ![i] = @ \ {Zoom}]
          \/ revisions[n].value = Bad /\ UNCHANGED <<runtime, unsaved>>
      BY <1>1 DEF ApplyZoom
    <2> HIDE DEF n
    <2>3. FeedInv(i)'
      BY <1>c, <2>1
    <2>4. ASSUME NEW c \in Key PROVE Covered(i, c)'
      <3>1. CASE c = Zoom
        <4> SUFFICES ASSUME ~Waiting(i, c)', ~Beyond(c, Level(i)) PROVE Settled(i, c)'
          BY <1>c, <2>1 DEF Covered
        <4>1. View(c) = revisions[n].value /\ View(c)' = View(c)
          BY <1>b, <1>d, <2>1, <3>1
        <4>2. Shown(i, c)'
          BY <1>0, <2>2, <3>1, <4>1 DEF Shown, Parsed, Key
        <4> QED BY <2>1, <4>2 DEF Settled
      <3>2. CASE c # Zoom
        <4>1. runtime'[i][c] = runtime[i][c] /\ (c \in unsaved[i] => c \in unsaved'[i])
          BY <1>0, <2>2, <3>2
        <4>2. Settled(i, c) => Settled(i, c)'
          BY <1>b, <2>1, <3>2, <4>1 DEF Settled, Shown, Parsed
        <4>3. Unwritten(i, c) => Unwritten(i, c)'
          BY <1>a DEF Unwritten
        <4>4. Beyond(c, Level(i)) => Beyond(c, Level(i))'
          BY <1>c, <2>1
        <4>5. Waiting(i, c) => Waiting(i, c)'
          BY <1>c, <2>1, <3>2
        <4> QED BY <1>b, <4>2, <4>3, <4>4, <4>5 DEF Covered
      <3> QED BY <3>1, <3>2
    <2> QED BY <2>3, <2>4 DEF CoverInv
  <1>2. CASE CopyBindings(i)
    <2> DEFINE m == [runtime[i] EXCEPT ![revisions[n].key] = Parsed(revisions[n].value)]
    <2>1. /\ poll[i].events # {} /\ poll'[i].events = poll[i].events \ {n}
          /\ poll'[i].revision = poll[i].revision /\ pc'[i] = "store" /\ pc[i] = "apply"
          /\ revisions[n].key \in Binding
          /\ poll'[i].copy = m
          /\ UNCHANGED runtime
          /\ unsaved'[i] = unsaved[i] \ {revisions[n].key}
      BY <1>0, <1>2 DEF CopyBindings, PollState
    <2>2. \A c \in Key : m[c] = IF c = revisions[n].key THEN Parsed(revisions[n].value)
                                ELSE runtime[i][c]
      BY <1>0
    <2> HIDE DEF n, m
    <2>3. FeedInv(i)'
      BY <1>c, <2>1
    <2>4. ASSUME NEW c \in Key PROVE Covered(i, c)'
      <3>1. CASE c = revisions[n].key
        <4> SUFFICES ASSUME ~Waiting(i, c)', ~Beyond(c, Level(i)) PROVE Settled(i, c)'
          BY <1>c, <2>1 DEF Covered
        <4>1. View(c) = revisions[n].value /\ View(c)' = View(c)
          BY <1>b, <1>d, <2>1, <3>1
        <4> QED BY <2>1, <2>2, <3>1, <4>1 DEF Settled, Parsed
      <3>2. CASE c # revisions[n].key
        <4>1. Settled(i, c) => Settled(i, c)'
          BY <1>b, <2>1, <2>2, <3>2, KeyAssumption DEF Settled, Shown, Parsed
        <4>2. Unwritten(i, c) => Unwritten(i, c)'
          BY <1>a DEF Unwritten
        <4>3. Beyond(c, Level(i)) => Beyond(c, Level(i))'
          BY <1>c, <2>1
        <4>4. Waiting(i, c) => Waiting(i, c)'
          BY <1>c, <2>1, <3>2
        <4> QED BY <1>b, <4>1, <4>2, <4>3, <4>4 DEF Covered
      <3> QED BY <3>1, <3>2
    <2> QED BY <2>3, <2>4 DEF CoverInv
  <1>3. CASE StoreBindings(i) \/ FinishApply(i)
    <2>1. /\ poll'[i].events = poll[i].events /\ poll'[i].revision = poll[i].revision
          /\ pc'[i] \in {"apply", "current"}
          /\ pc'[i] = "current" => poll[i].events = {}
          /\ UNCHANGED unsaved
      BY <1>0, <1>3 DEF StoreBindings, FinishApply, PollState
    <2>2. FeedInv(i)'
      BY <1>a, <2>1, SameRows DEF FeedInv, Polling
    <2>3. Level(i)' = Level(i)
      BY <1>a, <2>1 DEF Level, Polling
    <2>4. ASSUME NEW c \in Key, Settled(i, c) PROVE Settled(i, c)'
      <3>1. CASE pc[i] = "store" /\ StoreBindings(i)
        <4>1. runtime'[i][c] = IF c \in Binding THEN poll[i].copy[c] ELSE runtime[i][c]
          BY <1>0, <3>1 DEF StoreBindings
        <4> QED BY <1>b, <2>1, <2>4, <3>1, <4>1 DEF Settled, Shown, Parsed
      <3>2. CASE pc[i] = "apply" /\ FinishApply(i)
        BY <1>b, <2>1, <2>4, <3>2 DEF FinishApply, Settled, Shown, Parsed
      <3> QED BY <1>3, <3>1, <3>2 DEF StoreBindings, FinishApply
    <2>5. ASSUME NEW c \in Key PROVE Covered(i, c)'
      BY <1>a, <1>b, <2>1, <2>3, <2>4, StaysCovered DEF Unwritten
    <2> QED BY <2>2, <2>5 DEF CoverInv
  <1> QED BY <1>1, <1>2, <1>3

(* The handler: what it sets in memory it is still to write, and then a    *)
(* row of it is beyond what was read.                                      *)
LEMMA HandlerCovers ==
    ASSUME TypeInv, NEW i \in Instance, FeedInv(i), CoverInv(i),
           \/ \E z \in Value : Preview(i, z)
           \/ \E z \in Value, r \in Request : BeginSave(i, z, r)
           \/ SettingsHandler(i)
    PROVE  FeedInv(i)' /\ CoverInv(i)'
  <1> USE DEF tables, bounds
  <1>0. /\ Control(i) /\ save \in [Instance -> SaveState] /\ save[i] \in SaveState
        /\ runtime \in [Instance -> [Key -> Value]]
        /\ unsaved \in [Instance -> SUBSET Key]
    BY DEF TypeInv, TypeOK
  (* A step that writes no row, and after which the keys of K are covered. *)
  <1>a. ASSUME UNCHANGED <<revisions, cursor, pc, stage, todo, poll>>,
               \A c \in Key : \/ Unwritten(i, c)' \/ c \in unsaved'[i]
                              \/ /\ runtime'[i][c] = runtime[i][c]
                                 /\ c \in unsaved[i] => c \in unsaved'[i]
                                 /\ Unwritten(i, c) => Unwritten(i, c)'
        PROVE  FeedInv(i)' /\ CoverInv(i)'
    <2>1. FeedInv(i)'
      BY <1>a, SameRows DEF FeedInv
    <2>2. CoverInv(i)'
      <3> SUFFICES ASSUME stage[i] # "first", NEW c \in Key,
                          stage[i] = "second" => c \notin todo[i]
                   PROVE  Covered(i, c)'
        BY <1>a DEF CoverInv
      <3>1. CASE Unwritten(i, c)'
        BY <3>1 DEF Covered
      <3>2. CASE c \in unsaved'[i]
        BY <3>2 DEF Covered, Settled, Shown
      <3>3. CASE /\ runtime'[i][c] = runtime[i][c]
                 /\ c \in unsaved[i] => c \in unsaved'[i]
                 /\ Unwritten(i, c) => Unwritten(i, c)'
        <4>1. Settled(i, c) => Settled(i, c)'
          BY <1>a, <3>3, SameView DEF Settled, Shown, Parsed
        <4>2. Covered(i, c)
          BY DEF CoverInv
        <4>3. Level(i)' = Level(i)
          BY <1>a DEF Level
        <4> QED BY <1>a, <3>3, <4>1, <4>2, <4>3, StaysCovered
      <3> QED BY <1>a, <3>1, <3>2, <3>3
    <2> QED BY <2>1, <2>2
  <1>1. ASSUME NEW z \in Value, Preview(i, z)
        PROVE  FeedInv(i)' /\ CoverInv(i)'
    <2>1. /\ UNCHANGED <<revisions, cursor, pc, stage, todo, poll, save>>
          /\ unsaved'[i] = unsaved[i] \cup {Zoom}
          /\ \A c \in Key : c # Zoom => runtime'[i][c] = runtime[i][c]
      BY <1>0, <1>1 DEF Preview
    <2>2. Zoom \in unsaved'[i] /\ \A c \in unsaved[i] : c \in unsaved'[i]
      BY <2>1
    <2>3. \A c \in Key : Unwritten(i, c) => Unwritten(i, c)'
      BY <2>1 DEF Unwritten
    <2> QED BY <1>a, <2>1, <2>2, <2>3
  <1>2. ASSUME NEW z \in Value, NEW r \in Request, BeginSave(i, z, r)
        PROVE  FeedInv(i)' /\ CoverInv(i)'
    <2>1. /\ UNCHANGED <<revisions, cursor, pc, stage, todo, poll>>
          /\ save[i].step = "none" /\ save'[i].step = "zoom"
          /\ \A c \in Key : c # Zoom => runtime'[i][c] = runtime[i][c]
          /\ unsaved'[i] = unsaved[i] \ {Zoom}
      BY <1>0, <1>2 DEF BeginSave
    <2>3. \A c \in Key : ~Unwritten(i, c)
      BY <2>1 DEF Unwritten
    <2>4. ASSUME NEW c \in Key
          PROVE  \/ Unwritten(i, c)' \/ c \in unsaved'[i]
                 \/ /\ runtime'[i][c] = runtime[i][c]
                    /\ c \in unsaved[i] => c \in unsaved'[i]
                    /\ Unwritten(i, c) => Unwritten(i, c)'
      <3>1. CASE c = Zoom
        BY <2>1, <3>1 DEF Unwritten
      <3>2. CASE ~(c = Zoom)
        BY <2>1, <2>3, <3>2
      <3> QED BY <3>1, <3>2
    <2> QED BY <1>a, <2>1, <2>4
  <1>3. CASE SaveZoom(i)
    <2>1. /\ save[i].step = "zoom" /\ Persist(i, Zoom, save[i].zoom)
          /\ UNCHANGED <<cursor, runtime, pc, stage, todo, poll>>
          /\ save[i].zoom \in Value \cup {Bad} /\ Zoom \in Key \cup OtherKey
      BY <1>0, <1>3, SaveFields DEF SaveZoom, Key
    <2>2. \A c \in Key : c # Zoom => ~Unwritten(i, c)
      BY <2>1 DEF Unwritten
    <2>3. CASE Record(Zoom, save[i].zoom) /\ UNCHANGED unsaved
      BY <2>1, <2>2, <2>3, RecordFeed, RecordCovers
    <2>4. CASE UNCHANGED revisions /\ unsaved' = [unsaved EXCEPT ![i] = @ \cup {Zoom}]
      <3>1. unsaved'[i] = unsaved[i] \cup {Zoom}
        BY <1>0, <2>4
      <3> QED BY <1>a, <2>1, <2>2, <2>4, <3>1
    <2> QED BY <2>1, <2>3, <2>4 DEF Persist
  <1>4. CASE MergeBindings(i)
    <2>1. /\ UNCHANGED <<revisions, cursor, runtime, pc, stage, todo, poll, unsaved>>
          /\ save[i].step = "merge"
      BY <1>4 DEF MergeBindings
    <2>2. \A c \in Key : ~Unwritten(i, c)
      BY <2>1 DEF Unwritten
    <2> QED BY <1>a, <2>1, <2>2
  <1>5. CASE SetBindings(i)
    <2>1. /\ UNCHANGED <<revisions, cursor, pc, stage, todo, poll>>
          /\ unsaved'[i] = unsaved[i] \ Binding
          /\ save[i].step = "set" /\ save'[i].step = "persist" /\ save'[i].left = Binding
          /\ \A c \in Key : c \notin Binding => runtime'[i][c] = runtime[i][c]
      BY <1>0, <1>5, SaveFields DEF SetBindings
    <2>3. \A c \in Key : ~Unwritten(i, c)
      BY <2>1 DEF Unwritten
    <2>4. ASSUME NEW c \in Key
          PROVE  \/ Unwritten(i, c)' \/ c \in unsaved'[i]
                 \/ /\ runtime'[i][c] = runtime[i][c]
                    /\ c \in unsaved[i] => c \in unsaved'[i]
                    /\ Unwritten(i, c) => Unwritten(i, c)'
      <3>1. CASE c \in Binding
        BY <2>1, <3>1 DEF Unwritten
      <3>2. CASE ~(c \in Binding)
        BY <2>1, <2>3, <3>2
      <3> QED BY <3>1, <3>2
    <2> QED BY <1>a, <2>1, <2>4
  <1>6. CASE PersistBinding(i)
    <2> DEFINE k == NextKey(save[i].left)
    <2>1. /\ save[i].step = "persist" /\ save[i].bindings \in [Binding -> Value]
          /\ save[i].left \in (SUBSET Binding) \ {{}}
          /\ Persist(i, k, save[i].bindings[k])
          /\ UNCHANGED <<cursor, runtime, pc, stage, todo, poll>>
      BY <1>0, <1>6, SaveFields DEF PersistBinding
    <2>2. k \in Binding
      BY <2>1, NextKeyIn
    <2>3. k \in Key \cup OtherKey /\ save[i].bindings[k] \in Value \cup {Bad}
      BY <2>1, <2>2 DEF Key
    <2>4. save'[i] = IF save[i].left = {k} THEN NoSave
                     ELSE [save[i] EXCEPT !.left = save[i].left \ {k}]
      BY <1>0, <1>6 DEF PersistBinding
    <2> HIDE DEF k
    <2>5. ASSUME NEW c \in Key, c # k, Unwritten(i, c)
          PROVE  Unwritten(i, c)'
      <3>1. c \in save[i].left
        BY <2>1, <2>5 DEF Unwritten
      <3>2. save[i] \in [step : {"persist"}, zoom : Value, bindings : [Binding -> Value],
                         left : (SUBSET Binding) \ {{}}]
        BY <1>0, <2>1, SaveFields
      <3>3. save'[i].step = "persist" /\ save'[i].left = save[i].left \ {k}
        BY <2>4, <2>5, <3>1, <3>2
      <3> QED BY <2>5, <3>1, <3>3 DEF Unwritten
    <2>6. CASE Record(k, save[i].bindings[k]) /\ UNCHANGED unsaved
      BY <2>1, <2>3, <2>5, <2>6, RecordFeed, RecordCovers
    <2>7. CASE UNCHANGED revisions /\ unsaved' = [unsaved EXCEPT ![i] = @ \cup {k}]
      <3>1. unsaved'[i] = unsaved[i] \cup {k}
        BY <1>0, <2>7
      <3> QED BY <1>a, <2>1, <2>5, <2>7, <3>1
    <2> QED BY <2>1, <2>6, <2>7 DEF Persist
  <1> QED BY <1>1, <1>2, <1>3, <1>4, <1>5, <1>6 DEF SettingsHandler

LEMMA NextCovers ==
    ASSUME NEW i, Instance = {i}
    PROVE  IInv /\ [Next]_vars => IInv'
  <1> SUFFICES ASSUME IInv, [Next]_vars PROVE IInv'
    OBVIOUS
  <1>1. TypeInv /\ i \in Instance /\ FeedInv(i) /\ CoverInv(i) /\ TypeInv'
    BY NextTypes DEF IInv
  <1>2. CASE Launch(i) \/ EventLoop(i)
    BY <1>1, <1>2, StartCovers, CursorCovers, FetchCovers, ApplyCovers DEF EventLoop, IInv
  <1>3. CASE \/ \E z \in Value : Preview(i, z)
             \/ \E z \in Value, r \in Request : BeginSave(i, z, r)
             \/ SettingsHandler(i)
    BY <1>1, <1>3, HandlerCovers DEF IInv
  <1>4. CASE Exit(i)
    <2>1. poll'[i] = NoPoll /\ pc'[i] = "off" /\ stage'[i] = "first"
      BY <1>1, <1>4 DEF Exit, Goto, TypeInv, TypeOK
    <2>2. FeedInv(i)'
      BY <2>1 DEF FeedInv, Polling, NoPoll
    <2>3. CoverInv(i)'
      BY <2>1 DEF CoverInv
    <2> QED BY <1>1, <2>2, <2>3 DEF IInv
  <1>5. ASSUME NEW k \in Key \cup OtherKey, NEW v \in Value \cup {Bad}, ApplyRemote(k, v)
        PROVE  IInv'
    <2>1. /\ Record(k, v)
          /\ UNCHANGED <<cursor, runtime, pc, stage, todo, poll, save, unsaved>>
      BY <1>5 DEF ApplyRemote
    <2>2. FeedInv(i)'
      BY <1>1, <2>1, RecordFeed
    <2>3. \A c \in Key : Unwritten(i, c) => Unwritten(i, c)'
      BY <2>1 DEF Unwritten
    <2>4. CoverInv(i)'
      BY <1>1, <2>1, <2>3, RecordCovers
    <2> QED BY <1>1, <2>2, <2>4 DEF IInv
  <1>6. CASE UNCHANGED vars
    <2>1. FeedInv(i)'
      BY <1>1, <1>6, SameRows DEF vars, tables, FeedInv
    <2>2. CoverInv(i)'
      <3> SUFFICES ASSUME stage[i] # "first", NEW c \in Key,
                          stage[i] = "second" => c \notin todo[i]
                   PROVE  Covered(i, c)'
        BY <1>6 DEF CoverInv, vars, tables
      <3>1. Settled(i, c) => Settled(i, c)'
        BY <1>6, SameView DEF vars, tables, Settled, Shown, Parsed
      <3>2. Covered(i, c)
        BY <1>1 DEF CoverInv
      <3>3. Level(i)' = Level(i)
        BY <1>6 DEF vars, tables, Level
      <3> QED BY <1>1, <1>6, <3>1, <3>2, <3>3, StaysCovered DEF vars, tables, Unwritten
    <2> QED BY <1>1, <2>1, <2>2 DEF IInv
  <1> QED BY <1>1, <1>2, <1>3, <1>4, <1>5, <1>6 DEF Next

(***************************************************************************)
(* One shell on the database misses no change of a setting, for any sets   *)
(* of bindings and values, any batch limit and any number of remote        *)
(* changes, saves and launches: whenever the event loop is between polls   *)
(* and no save is under way, a setting in memory that differs from the     *)
(* database has a row beyond the cursor, unless it is a preview or its     *)
(* write failed and no later change of it was read.                        *)
(***************************************************************************)
THEOREM NothingIsMissed ==
    ASSUME NEW i, Instance = {i}
    PROVE  Spec => []NothingMissed
  <1>1. Init => IInv
    <2> SUFFICES ASSUME Init PROVE IInv
      OBVIOUS
    <2>1. \A j \in Instance : FeedInv(j) /\ CoverInv(j)
      BY DEF Init, FeedInv, CoverInv, Polling, NoPoll
    <2> QED BY <2>1, InitTypes DEF IInv
  <1>2. IInv => NothingMissed
    <2> SUFFICES ASSUME IInv, NEW j \in Instance,
                        Running(j), pc[j] = "cursor", save[j].step = "none", NEW k \in Key
                 PROVE  Shown(j, k) \/ \E n \in Rows({k}) : n > cursor
      BY DEF NothingMissed
    <2>1. Covered(j, k) /\ poll[j].events = {}
      BY DEF IInv, CoverInv, FeedInv, Running
    <2>2. ~Unwritten(j, k) /\ ~Waiting(j, k)
      BY <2>1 DEF Unwritten, Waiting
    <2> QED BY <2>1, <2>2 DEF Covered, Beyond, Level, Polling, Settled
  <1>3. IInv /\ [Next]_vars => IInv'
    BY NextCovers
  <1> QED BY <1>1, <1>2, <1>3, PTL DEF Spec

=============================================================================
