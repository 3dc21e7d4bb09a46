-------------------------- MODULE SettingsLogProofs --------------------------
(***************************************************************************)
(* What TLAPS proves of SettingsLog and, in the second part, of the        *)
(* application records over it, for every set of devices, keys and values  *)
(* and every bound.  The properties are not inductive as stated: IInv      *)
(* adds that an applied change is a known one, that the winner among the   *)
(* known changes of a key is an applied one, that a device knows all the   *)
(* changes it wrote, and that the two MAX queries have an answer.          *)
(***************************************************************************)
EXTENDS AppRecords, TLAPS

(* The winner of each key among all known changes is applied and shown. *)
WinnerShown ==
    \A d \in Device, k \in Key :
       \/ OfKey(changes[d], k) = {} /\ values[d][k] = NoValue
       \/ \E w \in applied[d] :
             /\ SyncSettingWinner(w, OfKey(changes[d], k))
             /\ values[d][k] = w.value

AppliedKnown == \A d \in Device : applied[d] \subseteq changes[d]

OwnChangesKnown ==
    \A d \in Device : \A c \in changes[d] : c \in changes[c.device]

OwnSequenceUnique ==
    \A d \in Device : \A a, b \in changes[d] :
       a.device = d /\ b.device = d /\ a.seq = b.seq => a = b

HasMax(S) == \E m \in S : \A x \in S : m >= x

OwnSequences(d) == {0} \cup {c.seq : c \in {x \in changes[d] : x.device = d}}

Clocks(d) == {0} \cup {c.clock : c \in changes[d]}

MaximaExist == \A d \in Device : HasMax(OwnSequences(d)) /\ HasMax(Clocks(d))

IInv == /\ TypeOK
        /\ WinnerShown
        /\ AppliedKnown
        /\ OwnChangesKnown
        /\ OwnSequenceUnique
        /\ MaximaExist

-----------------------------------------------------------------------------

(* The fields an order on changes compares are integers. *)
LEMMA ChangeFields ==
    ASSUME NEW a \in Change
    PROVE  /\ a.device \in Int /\ a.seq \in Int /\ a.clock \in Int
           /\ a.device \in Device /\ a.key \in Key /\ a.value \in Value
  <1>1. a.device \in Device /\ a.seq \in Nat /\ a.clock \in Nat
    BY DEF Change
  <1>2. a.device \in Int
    BY <1>1, DeviceAssumption
  <1> QED BY <1>1, <1>2 DEF Change

(* Precedes is a strict order on changes. *)
LEMMA PrecedesTransitive ==
    ASSUME NEW a \in Change, NEW b \in Change, NEW c \in Change,
           Precedes(a, b), Precedes(b, c)
    PROVE  Precedes(a, c)
  <1>1. \A x \in {a, b, c} : x.device \in Int /\ x.seq \in Int /\ x.clock \in Int
    BY ChangeFields
  <1> QED BY <1>1 DEF Precedes

(* No two changes precede each other. *)
LEMMA PrecedesAsymmetric ==
    ASSUME NEW a \in Change, NEW b \in Change, Precedes(a, b)
    PROVE  ~Precedes(b, a)
  <1>1. \A x \in {a, b} : x.device \in Int /\ x.seq \in Int /\ x.clock \in Int
    BY ChangeFields
  <1> QED BY <1>1 DEF Precedes

(* Changes that differ in device or sequence are ordered. *)
LEMMA PrecedesTotal ==
    ASSUME NEW a \in Change, NEW b \in Change,
           ~(a.device = b.device /\ a.seq = b.seq)
    PROVE  Precedes(a, b) \/ Precedes(b, a)
  <1>1. \A x \in {a, b} : x.device \in Int /\ x.seq \in Int /\ x.clock \in Int
    BY ChangeFields
  <1> QED BY <1>1 DEF Precedes

(* Adding one natural keeps the maximum defined. *)
LEMMA HasMaxAdd ==
    ASSUME NEW S \in SUBSET Nat, NEW n \in Nat, HasMax(S)
    PROVE  HasMax(S \cup {n})
  <1>1. PICK m \in S : \A x \in S : m >= x
    BY DEF HasMax
  <1>2. CASE m >= n
    <2>1. m \in S \cup {n} /\ \A x \in S \cup {n} : m >= x
      BY <1>1, <1>2
    <2> QED BY <2>1 DEF HasMax
  <1>3. CASE ~(m >= n)
    <2>1. n \in S \cup {n} /\ \A x \in S \cup {n} : n >= x
      BY <1>1, <1>3
    <2> QED BY <2>1 DEF HasMax
  <1> QED BY <1>2, <1>3

(* Max of a set that has a maximum is that maximum. *)
LEMMA MaxIsMax ==
    ASSUME NEW S \in SUBSET Nat, HasMax(S)
    PROVE  Max(S) \in S /\ \A x \in S : Max(S) >= x
  BY DEF HasMax, Max

(* A change written locally is above every change the device knows. *)
LEMMA LocalChangeIsNew ==
    ASSUME IInv, NEW d \in Device, NEW k \in Key, NEW v \in Value
    PROVE  /\ LocalChange(d, k, v) \in Change
           /\ \A x \in changes[d] :
                 /\ Precedes(x, LocalChange(d, k, v))
                 /\ x.device = d => x.seq < LocalChange(d, k, v).seq
           /\ LocalChange(d, k, v).key = k
           /\ LocalChange(d, k, v).value = v
           /\ LocalChange(d, k, v).device = d
  <1>1. OwnSequences(d) \in SUBSET Nat /\ Clocks(d) \in SUBSET Nat
    BY DEF IInv, TypeOK, Change, OwnSequences, Clocks
  <1>2. HasMax(OwnSequences(d)) /\ HasMax(Clocks(d))
    BY DEF IInv, MaximaExist
  <1>3. /\ Max(OwnSequences(d)) \in Nat
        /\ \A x \in OwnSequences(d) : Max(OwnSequences(d)) >= x
    BY <1>1, <1>2, MaxIsMax
  <1>4. /\ Max(Clocks(d)) \in Nat
        /\ \A x \in Clocks(d) : Max(Clocks(d)) >= x
    BY <1>1, <1>2, MaxIsMax
  <1>5. /\ NextDeviceSequence(d) = Max(OwnSequences(d)) + 1
        /\ NextLogicalClock(d) = Max(Clocks(d)) + 1
    BY DEF NextDeviceSequence, NextLogicalClock, OwnSequences, Clocks
  <1>6. LocalChange(d, k, v) \in Change
    BY <1>3, <1>4, <1>5 DEF LocalChange, Change
  <1>7. ASSUME NEW x \in changes[d]
        PROVE  /\ x.clock < LocalChange(d, k, v).clock
               /\ x.device = d => x.seq < LocalChange(d, k, v).seq
    <2>1. x.clock \in Clocks(d) /\ x.clock \in Nat /\ x.seq \in Nat
      BY DEF Clocks, IInv, TypeOK, Change
    <2>2. x.device = d => x.seq \in OwnSequences(d)
      BY DEF OwnSequences
    <2> QED BY <2>1, <2>2, <1>3, <1>4, <1>5 DEF LocalChange
  <1> QED BY <1>6, <1>7 DEF LocalChange, Precedes

-----------------------------------------------------------------------------

(* Inserting a change that wins over all known ones of its key keeps IInv. *)
LEMMA InsertAppliedKeeps ==
    ASSUME IInv, NEW d \in Device, NEW c \in Change,
           \A x \in OfKey(changes[d], c.key) : Precedes(x, c),
           \/ c \in changes[c.device]
           \/ c.device = d /\ \A x \in changes[d] : x.device = d => x.seq # c.seq,
           InsertApplied(d, c)
    PROVE  IInv'
  <1> USE DEF IInv
  <1>1. TypeOK'
    <2>1. changes' \in [Device -> SUBSET Change] /\ applied' \in [Device -> SUBSET Change]
      BY DEF InsertApplied, TypeOK
    <2>2. revisions' \in [Device -> Seq(Change)]
      BY DEF InsertApplied, TypeOK
    <2>3. values' \in [Device -> [Key -> Value \cup {NoValue}]]
      BY ChangeFields DEF InsertApplied, TypeOK
    <2> QED BY <2>1, <2>2, <2>3 DEF TypeOK
  <1>2. WinnerShown'
    <2> SUFFICES ASSUME NEW e \in Device, NEW k \in Key
                 PROVE \/ OfKey(changes'[e], k) = {} /\ values'[e][k] = NoValue
                       \/ \E w \in applied'[e] :
                             /\ SyncSettingWinner(w, OfKey(changes'[e], k))
                             /\ values'[e][k] = w.value
      BY DEF WinnerShown
    <2>1. CASE e = d /\ k = c.key
      <3>1. /\ c \in applied'[e] /\ values'[e][k] = c.value
            /\ changes'[e] = changes[d] \cup {c}
        BY <2>1 DEF InsertApplied, TypeOK
      <3>2. SyncSettingWinner(c, OfKey(changes'[e], k))
        BY <2>1, <3>1 DEF SyncSettingWinner, OfKey
      <3> QED BY <3>1, <3>2
    <2>2. CASE ~(e = d /\ k = c.key)
      <3>1. /\ OfKey(changes'[e], k) = OfKey(changes[e], k)
            /\ values'[e][k] = values[e][k]
            /\ applied[e] \subseteq applied'[e]
        BY <2>2 DEF InsertApplied, TypeOK, OfKey
      <3> QED BY <3>1 DEF WinnerShown
    <2> QED BY <2>1, <2>2
  <1>3. AppliedKnown'
    BY DEF AppliedKnown, InsertApplied, TypeOK
  <1>4. OwnChangesKnown' /\ OwnSequenceUnique'
    <2>1. \A e \in Device : changes[e] \subseteq changes'[e]
      BY DEF InsertApplied, TypeOK
    <2>2. c \in changes'[c.device]
      BY <2>1 DEF InsertApplied, TypeOK, Change
    <2>3. \A e \in Device : \A x \in changes'[e] : x \in changes[e] \/ (e = d /\ x = c)
      BY DEF InsertApplied, TypeOK
    <2>4. OwnChangesKnown'
      <3> SUFFICES ASSUME NEW e \in Device, NEW x \in changes'[e]
                   PROVE  x \in changes'[x.device]
        BY DEF OwnChangesKnown
      <3>1. CASE x \in changes[e]
        <4>1. x \in changes[x.device] /\ x.device \in Device
          BY <3>1, ChangeFields DEF OwnChangesKnown, TypeOK
        <4> QED BY <4>1, <2>1
      <3>2. CASE x = c
        BY <3>2, <2>2
      <3> QED BY <3>1, <3>2, <2>3
    <2>5. OwnSequenceUnique'
      <3> SUFFICES ASSUME NEW e \in Device, NEW a \in changes'[e], NEW b \in changes'[e],
                          a.device = e, b.device = e, a.seq = b.seq
                   PROVE  a = b
        BY DEF OwnSequenceUnique
      <3>1. CASE c \in changes[c.device]
        BY <2>3, <3>1 DEF OwnSequenceUnique
      <3>2. CASE c.device = d /\ \A x \in changes[d] : x.device = d => x.seq # c.seq
        BY <2>3, <3>2 DEF OwnSequenceUnique
      <3> QED BY <3>1, <3>2
    <2> QED BY <2>4, <2>5
  <1>5. MaximaExist'
    <2> SUFFICES ASSUME NEW e \in Device
                 PROVE  HasMax(OwnSequences(e)') /\ HasMax(Clocks(e)')
      BY DEF MaximaExist
    <2>1. HasMax(OwnSequences(e)) /\ HasMax(Clocks(e))
      BY DEF MaximaExist
    <2>2. OwnSequences(e) \in SUBSET Nat /\ Clocks(e) \in SUBSET Nat
      BY DEF TypeOK, Change, OwnSequences, Clocks
    <2>3. HasMax(OwnSequences(e) \cup {c.seq}) /\ HasMax(Clocks(e) \cup {c.clock})
      BY <2>1, <2>2, HasMaxAdd DEF Change
    <2>4. OwnSequences(e)' \in {OwnSequences(e), OwnSequences(e) \cup {c.seq}}
      BY DEF OwnSequences, InsertApplied, TypeOK
    <2>5. Clocks(e)' \in {Clocks(e), Clocks(e) \cup {c.clock}}
      BY DEF Clocks, InsertApplied, TypeOK
    <2> QED BY <2>1, <2>3, <2>4, <2>5
  <1> QED BY <1>1, <1>2, <1>3, <1>4, <1>5

(* Recording a change that loses to the shown one keeps IInv. *)
LEMMA InsertUnappliedKeeps ==
    ASSUME IInv, NEW d \in Device, NEW c \in Change,
           c \in changes[c.device],
           NEW w \in applied[d],
           SyncSettingWinner(w, OfKey(changes[d], c.key)),
           values[d][c.key] = w.value,
           Precedes(c, w),
           InsertUnapplied(d, c)
    PROVE  IInv'
  <1> USE DEF IInv
  <1>1. TypeOK'
    BY DEF InsertUnapplied, TypeOK
  <1>2. WinnerShown'
    <2> SUFFICES ASSUME NEW e \in Device, NEW k \in Key
                 PROVE \/ OfKey(changes'[e], k) = {} /\ values'[e][k] = NoValue
                       \/ \E x \in applied'[e] :
                             /\ SyncSettingWinner(x, OfKey(changes'[e], k))
                             /\ values'[e][k] = x.value
      BY DEF WinnerShown
    <2>1. CASE e = d /\ k = c.key
      <3>1. /\ w \in applied'[e] /\ values'[e][k] = w.value
            /\ changes'[e] = changes[d] \cup {c}
        BY <2>1 DEF InsertUnapplied, TypeOK
      <3>2. SyncSettingWinner(w, OfKey(changes'[e], k))
        BY <2>1, <3>1 DEF SyncSettingWinner, OfKey
      <3> QED BY <3>1, <3>2
    <2>2. CASE ~(e = d /\ k = c.key)
      <3>1. /\ OfKey(changes'[e], k) = OfKey(changes[e], k)
            /\ values'[e][k] = values[e][k]
            /\ applied[e] = applied'[e]
        BY <2>2 DEF InsertUnapplied, TypeOK, OfKey
      <3> QED BY <3>1 DEF WinnerShown
    <2> QED BY <2>1, <2>2
  <1>3. AppliedKnown'
    BY DEF AppliedKnown, InsertUnapplied, TypeOK
  <1>4. OwnChangesKnown' /\ OwnSequenceUnique'
    <2>1. \A e \in Device : changes[e] \subseteq changes'[e]
      BY DEF InsertUnapplied, TypeOK
    <2>2. \A e \in Device : \A x \in changes'[e] : x \in changes[e] \/ (e = d /\ x = c)
      BY DEF InsertUnapplied, TypeOK
    <2>3. OwnChangesKnown'
      <3> SUFFICES ASSUME NEW e \in Device, NEW x \in changes'[e]
                   PROVE  x \in changes'[x.device]
        BY DEF OwnChangesKnown
      <3>1. x \in changes[x.device] /\ x.device \in Device
        BY <2>2, ChangeFields DEF OwnChangesKnown, TypeOK
      <3> QED BY <3>1, <2>1
    <2>4. OwnSequenceUnique'
      BY <2>2 DEF OwnSequenceUnique
    <2> QED BY <2>3, <2>4
  <1>5. MaximaExist'
    <2> SUFFICES ASSUME NEW e \in Device
                 PROVE  HasMax(OwnSequences(e)') /\ HasMax(Clocks(e)')
      BY DEF MaximaExist
    <2>1. HasMax(OwnSequences(e)) /\ HasMax(Clocks(e))
      BY DEF MaximaExist
    <2>2. OwnSequences(e) \in SUBSET Nat /\ Clocks(e) \in SUBSET Nat
      BY DEF TypeOK, Change, OwnSequences, Clocks
    <2>3. HasMax(OwnSequences(e) \cup {c.seq}) /\ HasMax(Clocks(e) \cup {c.clock})
      BY <2>1, <2>2, HasMaxAdd DEF Change
    <2>4. OwnSequences(e)' \in {OwnSequences(e), OwnSequences(e) \cup {c.seq}}
      BY DEF OwnSequences, InsertUnapplied, TypeOK
    <2>5. Clocks(e)' \in {Clocks(e), Clocks(e) \cup {c.clock}}
      BY DEF Clocks, InsertUnapplied, TypeOK
    <2> QED BY <2>1, <2>3, <2>4, <2>5
  <1> QED BY <1>1, <1>2, <1>3, <1>4, <1>5

(***************************************************************************)
(* What the comparison with the applied winner decides about all known     *)
(* changes: an unknown change that wins is above every known change of its *)
(* key, and one that does not is below the shown one.                      *)
(***************************************************************************)
LEMMA WinsOverKnown ==
    ASSUME IInv, NEW d \in Device, NEW c \in Change, ~DeviceSequenceKnown(d, c)
    PROVE  /\ SettingChangeWins(c, applied[d]) =>
                 \A x \in OfKey(changes[d], c.key) : Precedes(x, c)
           /\ ~SettingChangeWins(c, applied[d]) =>
                 \E w \in applied[d] :
                    /\ SyncSettingWinner(w, OfKey(changes[d], c.key))
                    /\ values[d][c.key] = w.value
                    /\ Precedes(c, w)
  <1> USE DEF IInv
  <1>0. c.key \in Key
    BY ChangeFields
  <1>1. CASE OfKey(changes[d], c.key) = {}
    <2>1. OfKey(applied[d], c.key) = {}
      BY <1>1 DEF AppliedKnown, OfKey
    <2> QED BY <1>1, <2>1 DEF SettingChangeWins
  <1>2. CASE OfKey(changes[d], c.key) # {}
    <2>1. PICK w \in applied[d] : /\ SyncSettingWinner(w, OfKey(changes[d], c.key))
                                  /\ values[d][c.key] = w.value
      BY <1>0, <1>2 DEF WinnerShown
    <2>2. /\ w \in OfKey(applied[d], c.key)
          /\ SyncSettingWinner(w, OfKey(applied[d], c.key))
      BY <2>1 DEF SyncSettingWinner, OfKey, AppliedKnown
    <2>3. w \in Change /\ w \in changes[d] /\ changes[d] \subseteq Change
      BY <2>1 DEF TypeOK, AppliedKnown
    <2>4. ASSUME SettingChangeWins(c, applied[d]), NEW x \in OfKey(changes[d], c.key)
          PROVE  Precedes(x, c)
      <3>1. Precedes(w, c)
        BY <2>2, <2>4 DEF SettingChangeWins
      <3>2. x = w \/ Precedes(x, w)
        BY <2>1 DEF SyncSettingWinner
      <3>3. x \in Change
        BY <2>3 DEF OfKey
      <3> QED BY <3>1, <3>2, <3>3, <2>3, PrecedesTransitive
    <2>5. ASSUME ~SettingChangeWins(c, applied[d]) PROVE Precedes(c, w)
      <3>1. PICK y \in OfKey(applied[d], c.key) :
               SyncSettingWinner(y, OfKey(applied[d], c.key)) /\ ~Precedes(y, c)
        BY <2>5 DEF SettingChangeWins
      <3>2. y \in Change /\ y \in changes[d]
        BY <3>1 DEF OfKey, TypeOK, AppliedKnown
      <3>3. y = w
        BY <3>1, <2>2, <2>3, <3>2, PrecedesAsymmetric DEF SyncSettingWinner
      <3>4. ~(y.device = c.device /\ y.seq = c.seq)
        BY <3>2 DEF DeviceSequenceKnown
      <3> QED BY <3>1, <3>2, <3>3, <3>4, PrecedesTotal
    <2> QED BY <2>1, <2>4, <2>5
  <1> QED BY <1>1, <1>2

-----------------------------------------------------------------------------

(* The initial state satisfies IInv. *)
LEMMA InitIInv == Init => IInv
  <1> SUFFICES ASSUME Init PROVE IInv
    OBVIOUS
  <1> USE DEF Init
  <1>1. TypeOK
    BY DEF TypeOK
  <1>2. WinnerShown /\ AppliedKnown /\ OwnChangesKnown /\ OwnSequenceUnique
    BY DEF WinnerShown, AppliedKnown, OwnChangesKnown, OwnSequenceUnique, OfKey
  <1>3. MaximaExist
    <2> SUFFICES ASSUME NEW d \in Device
                 PROVE  HasMax(OwnSequences(d)) /\ HasMax(Clocks(d))
      BY DEF MaximaExist
    <2>1. OwnSequences(d) = {0} /\ Clocks(d) = {0}
      BY DEF OwnSequences, Clocks
    <2> QED BY <2>1 DEF HasMax
  <1> QED BY <1>1, <1>2, <1>3 DEF IInv

(* Every operation of the log keeps IInv. *)
LEMMA NextIInv == IInv /\ [Next]_vars => IInv'
  <1> SUFFICES ASSUME IInv, [Next]_vars PROVE IInv'
    OBVIOUS
  <1>1. ASSUME NEW d \in Device, NEW k \in Key, NEW v \in Value,
               SetSyncSettingText(d, k, v)
        PROVE  IInv'
    <2> DEFINE c == LocalChange(d, k, v)
    <2>1. /\ c \in Change
          /\ \A x \in changes[d] : Precedes(x, c) /\ (x.device = d => x.seq < c.seq)
          /\ c.device = d
      BY LocalChangeIsNew
    <2>2. \A x \in OfKey(changes[d], c.key) : Precedes(x, c)
      BY <2>1 DEF OfKey
    <2>3. \A x \in changes[d] : x.device = d => x.seq # c.seq
      <3> SUFFICES ASSUME NEW x \in changes[d], x.device = d PROVE x.seq # c.seq
        OBVIOUS
      <3>1. x.seq \in Int /\ c.seq \in Int /\ x.seq < c.seq
        BY <2>1, ChangeFields DEF IInv, TypeOK
      <3> QED BY <3>1
    <2>4. InsertApplied(d, c)
      BY <1>1 DEF SetSyncSettingText
    <2> HIDE DEF c
    <2> QED BY <2>1, <2>2, <2>3, <2>4, InsertAppliedKeeps
  <1>2. ASSUME NEW d \in Device, NEW c \in Written, ApplySyncSettingText(d, c)
        PROVE  IInv'
    <2>1. c \in Change /\ c \in changes[c.device]
      BY DEF Written, IInv, TypeOK, OwnChangesKnown
    <2>2. ~DeviceSequenceKnown(d, c)
      BY <1>2 DEF ApplySyncSettingText
    <2>3. CASE SettingChangeWins(c, applied[d]) /\ InsertApplied(d, c)
      <3>1. \A x \in OfKey(changes[d], c.key) : Precedes(x, c)
        BY <2>1, <2>2, <2>3, WinsOverKnown
      <3> QED BY <2>1, <2>3, <3>1, InsertAppliedKeeps
    <2>4. CASE ~SettingChangeWins(c, applied[d]) /\ InsertUnapplied(d, c)
      <3>1. PICK w \in applied[d] :
               /\ SyncSettingWinner(w, OfKey(changes[d], c.key))
               /\ values[d][c.key] = w.value
               /\ Precedes(c, w)
        BY <2>1, <2>2, <2>4, WinsOverKnown
      <3> QED BY <2>1, <2>4, <3>1, InsertUnappliedKeeps
    <2> QED BY <1>2, <2>3, <2>4 DEF ApplySyncSettingText
  <1>3. CASE UNCHANGED vars
    <2> USE <1>3 DEF vars, IInv
    <2>1. TypeOK' /\ WinnerShown' /\ AppliedKnown'
      BY DEF TypeOK, WinnerShown, AppliedKnown
    <2>2. OwnChangesKnown' /\ OwnSequenceUnique'
      BY DEF OwnChangesKnown, OwnSequenceUnique
    <2>3. MaximaExist'
      BY DEF MaximaExist, OwnSequences, Clocks
    <2> QED BY <2>1, <2>2, <2>3
  <1> QED BY <1>1, <1>2, <1>3 DEF Next, ReplaySyncSettingText

(* IInv is an invariant of the log. *)
THEOREM SpecIInv == Spec => []IInv
  BY InitIInv, NextIInv, PTL DEF Spec

-----------------------------------------------------------------------------

(***************************************************************************)
(* Every table keeps its type (settings_changes, settings_revisions,       *)
(* settings_values).                                                       *)
(***************************************************************************)
THEOREM TypeCorrect == Spec => []TypeOK
  <1>1. IInv => TypeOK
    BY DEF IInv
  <1> QED BY <1>1, SpecIInv, PTL

(***************************************************************************)
(* The view always shows the greatest known change of each key, although   *)
(* apply_sync_setting_text_in_transaction compares with applied rows only. *)
(***************************************************************************)
THEOREM ViewCorrect == Spec => []ViewIsWinner
  <1>1. IInv => ViewIsWinner
    <2> SUFFICES ASSUME IInv, NEW d \in Device, NEW k \in Key
                 PROVE IF OfKey(changes[d], k) = {} THEN values[d][k] = NoValue
                       ELSE \E w \in OfKey(changes[d], k) :
                               /\ SyncSettingWinner(w, OfKey(changes[d], k))
                               /\ values[d][k] = w.value
      BY DEF ViewIsWinner
    <2> QED BY DEF IInv, WinnerShown, SyncSettingWinner
  <1> QED BY <1>1, SpecIInv, PTL

(***************************************************************************)
(* Devices that know the same changes show the same values, for any number *)
(* of devices and any order of arrival.                                    *)
(***************************************************************************)
THEOREM DevicesConverge == Spec => []Convergence
  <1>1. IInv => Convergence
    <2> SUFFICES ASSUME IInv, NEW d \in Device, NEW e \in Device,
                        changes[d] = changes[e]
                 PROVE  values[d] = values[e]
      BY DEF Convergence
    <2>1. ASSUME NEW k \in Key PROVE values[d][k] = values[e][k]
      <3>1. CASE OfKey(changes[d], k) = {}
        BY <3>1 DEF IInv, WinnerShown, SyncSettingWinner
      <3>2. CASE OfKey(changes[d], k) # {}
        <4>1. PICK w \in applied[d] : /\ SyncSettingWinner(w, OfKey(changes[d], k))
                                      /\ values[d][k] = w.value
          BY <3>2 DEF IInv, WinnerShown
        <4>2. PICK y \in applied[e] : /\ SyncSettingWinner(y, OfKey(changes[d], k))
                                      /\ values[e][k] = y.value
          BY <3>2 DEF IInv, WinnerShown
        <4>3. w \in Change /\ y \in Change
          BY DEF IInv, TypeOK
        <4>4. w = y
          BY <4>1, <4>2, <4>3, PrecedesAsymmetric DEF SyncSettingWinner
        <4> QED BY <4>1, <4>2, <4>4
      <3> QED BY <3>1, <3>2
    <2>2. values[d] \in [Key -> Value \cup {NoValue}] /\ values[e] \in [Key -> Value \cup {NoValue}]
      BY DEF IInv, TypeOK
    <2> QED BY <2>1, <2>2
  <1> QED BY <1>1, SpecIInv, PTL

(***************************************************************************)
(* No two changes ever share a device and a device_sequence, so the        *)
(* duplicate test never discards a change that was not seen before.        *)
(***************************************************************************)
THEOREM DuplicateTestSound == Spec => []SequenceIdentifiesChange
  <1>1. IInv => SequenceIdentifiesChange
    <2> SUFFICES ASSUME IInv, NEW a \in Written, NEW b \in Written,
                        a.device = b.device, a.seq = b.seq
                 PROVE  a = b
      BY DEF SequenceIdentifiesChange
    <2>1. a \in Change /\ a \in changes[a.device] /\ b \in changes[b.device]
      BY DEF Written, IInv, TypeOK, OwnChangesKnown
    <2>2. a.device \in Device
      BY <2>1, ChangeFields
    <2> QED BY <2>1, <2>2 DEF IInv, OwnSequenceUnique
  <1> QED BY <1>1, SpecIInv, PTL

-----------------------------------------------------------------------------
(* The event feed. *)

RevisionsApplied ==
    \A d \in Device : \A i \in DOMAIN revisions[d] : revisions[d][i] \in applied[d]

EventsInv == RevisionsApplied /\ EventsLeadToView

(* Appending a change that is above all known changes of its key, together *)
(* with the value row, keeps the feed in order and ending at the view.     *)
LEMMA InsertAppliedEvents ==
    ASSUME IInv, EventsInv, NEW d \in Device, NEW c \in Change,
           \A x \in OfKey(changes[d], c.key) : Precedes(x, c),
           InsertApplied(d, c)
    PROVE  EventsInv'
  <1> USE DEF InsertApplied
  <1>1. /\ revisions \in [Device -> Seq(Change)] /\ revisions[d] \in Seq(Change)
        /\ values \in [Device -> [Key -> Value \cup {NoValue}]]
        /\ applied \in [Device -> SUBSET Change]
    BY DEF IInv, TypeOK
  <1>2. /\ revisions'[d] = Append(revisions[d], c)
        /\ \A e \in Device : e # d => /\ revisions'[e] = revisions[e]
                                      /\ values'[e] = values[e]
                                      /\ applied'[e] = applied[e]
        /\ applied'[d] = applied[d] \cup {c}
        /\ \A k \in Key : values'[d][k] = IF k = c.key THEN c.value ELSE values[d][k]
    BY <1>1
  <1> DEFINE n == Len(revisions[d])
  <1>3. /\ n \in Nat
        /\ DOMAIN revisions[d] = 1..n /\ DOMAIN revisions'[d] = 1..(n + 1)
        /\ revisions'[d][n + 1] = c
        /\ \A i \in 1..n : revisions'[d][i] = revisions[d][i]
    BY <1>1, <1>2
  <1> HIDE DEF n
  <1>4. RevisionsApplied'
    <2> SUFFICES ASSUME NEW e \in Device, NEW i \in DOMAIN revisions'[e]
                 PROVE  revisions'[e][i] \in applied'[e]
      BY DEF RevisionsApplied
    <2>1. CASE e # d
      BY <2>1, <1>2 DEF EventsInv, RevisionsApplied
    <2>2. CASE e = d /\ i = n + 1
      BY <2>2, <1>2, <1>3
    <2>3. CASE e = d /\ i \in 1..n
      BY <2>3, <1>2, <1>3 DEF EventsInv, RevisionsApplied
    <2> QED BY <1>3, <2>1, <2>2, <2>3
  <1>5. ASSUME NEW e \in Device, NEW i \in DOMAIN revisions'[e],
               NEW j \in DOMAIN revisions'[e], i < j,
               revisions'[e][i].key = revisions'[e][j].key
        PROVE  Precedes(revisions'[e][i], revisions'[e][j])
    <2>1. CASE e # d
      BY <2>1, <1>2, <1>5 DEF EventsInv, EventsLeadToView
    <2>2. CASE e = d /\ j = n + 1
      <3>1. i \in 1..n
        BY <2>2, <1>3, <1>5
      <3>2. revisions[d][i] \in applied[d]
        BY <3>1, <1>3 DEF EventsInv, RevisionsApplied
      <3>3. revisions[d][i] \in OfKey(changes[d], c.key)
        BY <3>1, <3>2, <2>2, <1>3, <1>5 DEF IInv, AppliedKnown, OfKey
      <3> QED BY <3>1, <3>3, <2>2, <1>3
    <2>3. CASE e = d /\ j \in 1..n
      <3>1. i \in 1..n
        BY <2>3, <1>3, <1>5
      <3> QED BY <3>1, <2>3, <1>3, <1>5 DEF EventsInv, EventsLeadToView
    <2> QED BY <1>3, <2>1, <2>2, <2>3
  <1>6. ASSUME NEW e \in Device, NEW k \in Key, values'[e][k] # NoValue
        PROVE  \E i \in DOMAIN revisions'[e] :
                  /\ revisions'[e][i].key = k
                  /\ revisions'[e][i].value = values'[e][k]
                  /\ \A j \in DOMAIN revisions'[e] : j > i => revisions'[e][j].key # k
    <2>1. CASE e # d
      BY <2>1, <1>2, <1>6 DEF EventsInv, EventsLeadToView
    <2>2. CASE e = d /\ k = c.key
      <3>1. n + 1 \in DOMAIN revisions'[e] /\ revisions'[e][n + 1] = c
        BY <2>2, <1>3
      <3>2. values'[e][k] = c.value
        BY <2>2, <1>2
      <3>3. \A j \in DOMAIN revisions'[e] : ~(j > n + 1)
        BY <2>2, <1>3
      <3> QED BY <3>1, <3>2, <3>3, <2>2
    <2>3. CASE e = d /\ k # c.key
      <3>1. PICK i \in 1..n : /\ revisions[d][i].key = k
                              /\ revisions[d][i].value = values[d][k]
                              /\ \A j \in 1..n : j > i => revisions[d][j].key # k
        <4>1. values[d][k] # NoValue
          BY <2>3, <1>2, <1>6
        <4> HIDE DEF InsertApplied
        <4> QED BY <4>1, <1>3 DEF EventsInv, EventsLeadToView
      <3>2. i \in DOMAIN revisions'[e] /\ revisions'[e][i] = revisions[d][i]
        BY <3>1, <2>3, <1>3
      <3>3. values'[e][k] = values[d][k]
        BY <2>3, <1>2
      <3>4. ASSUME NEW j \in DOMAIN revisions'[e], j > i
            PROVE  revisions'[e][j].key # k
        <4>1. CASE j = n + 1
          BY <4>1, <2>3, <1>3
        <4>2. CASE j \in 1..n
          BY <4>2, <3>1, <3>4, <2>3, <1>3
        <4> QED BY <4>1, <4>2, <2>3, <1>3
      <3> QED BY <3>1, <3>2, <3>3, <3>4
    <2> QED BY <2>1, <2>2, <2>3
  <1> QED BY <1>4, <1>5, <1>6 DEF EventsInv, EventsLeadToView

(* Every operation of the log keeps the feed right. *)
LEMMA NextEvents == IInv /\ EventsInv /\ [Next]_vars => EventsInv'
  <1> SUFFICES ASSUME IInv, EventsInv, [Next]_vars PROVE EventsInv'
    OBVIOUS
  <1>1. ASSUME NEW d \in Device, NEW k \in Key, NEW v \in Value,
               SetSyncSettingText(d, k, v)
        PROVE  EventsInv'
    <2> DEFINE c == LocalChange(d, k, v)
    <2>1. /\ c \in Change
          /\ \A x \in OfKey(changes[d], c.key) : Precedes(x, c)
      BY LocalChangeIsNew DEF OfKey
    <2>2. InsertApplied(d, c)
      BY <1>1 DEF SetSyncSettingText
    <2> HIDE DEF c
    <2> QED BY <2>1, <2>2, InsertAppliedEvents
  <1>2. ASSUME NEW d \in Device, NEW c \in Written, ApplySyncSettingText(d, c)
        PROVE  EventsInv'
    <2>1. c \in Change
      BY DEF Written, IInv, TypeOK
    <2>2. CASE SettingChangeWins(c, applied[d]) /\ InsertApplied(d, c)
      <3>1. \A x \in OfKey(changes[d], c.key) : Precedes(x, c)
        BY <1>2, <2>1, <2>2, WinsOverKnown DEF ApplySyncSettingText
      <3> QED BY <2>1, <2>2, <3>1, InsertAppliedEvents
    <2>3. CASE InsertUnapplied(d, c)
      BY <2>3 DEF InsertUnapplied, EventsInv, RevisionsApplied, EventsLeadToView
    <2> QED BY <1>2, <2>2, <2>3 DEF ApplySyncSettingText
  <1>3. CASE UNCHANGED vars
    BY <1>3 DEF vars, EventsInv, RevisionsApplied, EventsLeadToView
  <1> QED BY <1>1, <1>2, <1>3 DEF Next, ReplaySyncSettingText

(***************************************************************************)
(* An application that follows settings_revisions never sees a key go back *)
(* to an older change and ends at the value of settings_values: local      *)
(* writes and changes that win append a row, changes that lose do not.     *)
(***************************************************************************)
THEOREM EventsCorrect == Spec => []EventsLeadToView
  <1>1. Init => EventsInv
    BY DEF Init, EventsInv, RevisionsApplied, EventsLeadToView
  <1>2. EventsInv => EventsLeadToView
    BY DEF EventsInv
  <1> QED BY <1>1, <1>2, NextEvents, SpecIInv, PTL DEF Spec

-----------------------------------------------------------------------------

(***************************************************************************)
(* A local write is shown at once and is above everything the device knew. *)
(***************************************************************************)
THEOREM LocalWritesWin == Spec => LocalWriteWins
  <1> DEFINE Wins == \A d \in Device : \A c \in changes'[d] \ changes[d] :
                        c.device = d => /\ values'[d][c.key] = c.value
                                        /\ \A x \in changes[d] : Precedes(x, c)
  <1>1. IInv /\ [Next]_vars => [Wins]_vars
    <2> SUFFICES ASSUME IInv, Next PROVE Wins
      OBVIOUS
    <2> SUFFICES ASSUME NEW d \in Device, NEW c \in changes'[d] \ changes[d], c.device = d
                 PROVE  values'[d][c.key] = c.value /\ \A x \in changes[d] : Precedes(x, c)
      OBVIOUS
    <2>1. ASSUME NEW e \in Device, NEW k \in Key, NEW v \in Value,
                 SetSyncSettingText(e, k, v)
          PROVE  values'[d][c.key] = c.value /\ \A x \in changes[d] : Precedes(x, c)
      <3>1. e = d /\ c = LocalChange(e, k, v) /\ InsertApplied(e, c)
        BY <2>1 DEF SetSyncSettingText, InsertApplied, IInv, TypeOK
      <3>2. c.key \in Key
        BY <3>1, LocalChangeIsNew
      <3>3. values'[d][c.key] = c.value
        BY <3>1, <3>2 DEF InsertApplied, IInv, TypeOK
      <3> QED BY <3>1, <3>3, LocalChangeIsNew
    <2>2. ASSUME NEW e \in Device, NEW x \in Written, ApplySyncSettingText(e, x)
          PROVE  FALSE
      <3>1. e = d /\ x = c
        BY <2>2 DEF ApplySyncSettingText, InsertApplied, InsertUnapplied, IInv, TypeOK
      <3>2. c \in changes[c.device]
        BY <3>1 DEF Written, IInv, OwnChangesKnown
      <3> QED BY <3>2
    <2> QED BY <2>1, <2>2 DEF Next, ReplaySyncSettingText, vars
  <1>2. Spec => [][Wins]_vars
    BY <1>1, SpecIInv, PTL DEF Spec
  <1> QED BY <1>2 DEF LocalWriteWins

-----------------------------------------------------------------------------

ShowsView == \A d \in Device : values[d] = LWW!View(changes[d])

(* Every device shows the view of the changes it knows. *)
LEMMA ShownIsView == IInv => ShowsView
  <1> SUFFICES ASSUME IInv, NEW d \in Device
               PROVE  values[d] = LWW!View(changes[d])
    BY DEF ShowsView
  <1>1. ASSUME NEW k \in Key
        PROVE  values[d][k] = LWW!View(changes[d])[k]
    <2>1. CASE OfKey(changes[d], k) = {}
      <3>1. ~\E c \in changes[d] : c.key = k
        BY <2>1 DEF OfKey
      <3>2. values[d][k] = NoValue
        BY <2>1 DEF IInv, WinnerShown, SyncSettingWinner
      <3> QED BY <3>1, <3>2 DEF LWW!View
    <2>2. CASE OfKey(changes[d], k) # {}
      <3>1. PICK w \in applied[d] : /\ SyncSettingWinner(w, OfKey(changes[d], k))
                                    /\ values[d][k] = w.value
        BY <2>2 DEF IInv, WinnerShown
      <3>2. /\ w \in changes[d] /\ w.key = k
            /\ \A c \in changes[d] : c.key = k => c = w \/ Precedes(c, w)
        BY <3>1 DEF SyncSettingWinner, OfKey
      <3>3. changes[d] \subseteq Change
        BY DEF IInv, TypeOK
      <3>4. ASSUME NEW y \in changes[d], y.key = k,
                   \A c \in changes[d] : c.key = k => c = y \/ Precedes(c, y)
            PROVE  y = w
        BY <3>2, <3>3, <3>4, PrecedesAsymmetric
      <3>5. LWW!Greatest(changes[d], k) = w
        BY <3>2, <3>4 DEF LWW!Greatest
      <3> QED BY <3>1, <3>2, <3>5 DEF LWW!View
    <2> QED BY <2>1, <2>2
  <1>2. values[d] \in [Key -> Value \cup {NoValue}]
    BY DEF IInv, TypeOK
  <1>3. LWW!View(changes[d]) = [k \in Key |-> LWW!View(changes[d])[k]]
    BY DEF LWW!View
  <1> QED BY <1>1, <1>2, <1>3

(* The same of the next state. *)
LEMMA ShownIsViewNext == IInv' => ShowsView'
  BY ShownIsView, PTL

(* Learning a change is a step of the abstract map. *)
LEMMA LearnsChange ==
    ASSUME IInv, IInv', NEW d \in Device, NEW c,
           changes' = [changes EXCEPT ![d] = @ \cup {c}],
           \A e \in Device : e # d => values'[e] = values[e]
    PROVE  LWW!Learn(d, c)
  <1>1. changes'[d] = changes[d] \cup {c}
    BY DEF IInv, TypeOK
  <1>2. values'[d] = LWW!View(changes[d] \cup {c})
    BY <1>1, ShownIsViewNext DEF ShowsView
  <1>3. values' = [values EXCEPT ![d] = LWW!View(changes[d] \cup {c})]
    BY <1>2 DEF IInv, TypeOK
  <1> QED BY <1>3 DEF LWW!Learn

(***************************************************************************)
(* The log implements the map in which the last writer wins, for any       *)
(* devices, keys and values: the changes a device keeps are those it has   *)
(* heard of, and settings_values is what it shows.                         *)
(***************************************************************************)
THEOREM ImplementsMap == Spec => ImplementsLastWriterWins
  <1>1. Init => LWW!Init
    <2> SUFFICES ASSUME Init PROVE LWW!Init
      OBVIOUS
    <2>1. LWW!View({}) = [k \in Key |-> NoValue]
      BY DEF LWW!View
    <2> QED BY <2>1 DEF Init, LWW!Init
  <1>2. IInv /\ IInv' /\ [Next]_vars => [LWW!Next]_<<changes, values>>
    <2> SUFFICES ASSUME IInv, IInv', [Next]_vars
                 PROVE  [LWW!Next]_<<changes, values>>
      OBVIOUS
    <2>1. ASSUME NEW d \in Device, NEW k \in Key, NEW v \in Value,
                 SetSyncSettingText(d, k, v)
          PROVE  LWW!Write(d)
      <3> DEFINE c == LocalChange(d, k, v)
      <3>1. InsertApplied(d, c)
        BY <2>1 DEF SetSyncSettingText
      <3>2. /\ c.device = d
            /\ \A x \in changes[d] : Precedes(x, c)
            /\ \A x \in changes[d] : x.device = d => x.seq < c.seq
            /\ c \in Change
        BY LocalChangeIsNew
      <3> HIDE DEF c
      <3>3. c \notin changes[d]
        <4> SUFFICES ASSUME c \in changes[d] PROVE FALSE
          OBVIOUS
        <4>1. c.seq < c.seq /\ c.seq \in Int
          BY <3>2, ChangeFields
        <4> QED BY <4>1
      <3>4. c \notin UNION {changes[e] : e \in Device}
        BY <3>2, <3>3 DEF IInv, OwnChangesKnown
      <3>5. c \in changes'[d] /\ LWW!Learn(d, c)
        <4>1. c \in changes'[d] /\ \A e \in Device : e # d => values'[e] = values[e]
          BY <3>1 DEF InsertApplied, IInv, TypeOK
        <4>2. changes' = [changes EXCEPT ![d] = @ \cup {c}]
          BY <3>1 DEF InsertApplied
        <4> QED BY <4>1, <4>2, LearnsChange
      <3> QED BY <3>2, <3>4, <3>5 DEF LWW!Write
    <2>2. ASSUME NEW d \in Device, NEW c \in Written, ApplySyncSettingText(d, c)
          PROVE  LWW!Hear(d)
      <3>1. c \notin changes[d]
        BY <2>2 DEF ApplySyncSettingText, DeviceSequenceKnown
      <3>2. /\ changes' = [changes EXCEPT ![d] = @ \cup {c}]
            /\ \A e \in Device : e # d => values'[e] = values[e]
        BY <2>2 DEF ApplySyncSettingText, InsertApplied, InsertUnapplied, IInv, TypeOK
      <3>3. LWW!Learn(d, c)
        BY <3>2, LearnsChange
      <3> QED BY <3>1, <3>3 DEF LWW!Hear, Written
    <2>3. CASE UNCHANGED vars
      BY <2>3 DEF vars
    <2> QED BY <2>1, <2>2, <2>3 DEF Next, ReplaySyncSettingText, LWW!Next
  <1> QED BY <1>1, <1>2, SpecIInv, PTL DEF Spec, ImplementsLastWriterWins, LWW!Spec

-----------------------------------------------------------------------------
(***************************************************************************)
(* What TLAPS proves of AppRecords, for every set of devices, entities,    *)
(* slots, texts and urls, every set of first-run bookmarks and every       *)
(* bound.  A step of AppRecords is a step of the settings log or leaves    *)
(* the log alone, so the log's inductive invariant is kept; to it AppIInv  *)
(* adds how the rows stand to settings_values, key by key.  Every write,   *)
(* local or not, is the insertion of a change together with Materialize,   *)
(* for which the argument is made once.                                    *)
(***************************************************************************)

(* Values are of their key's kind. *)
ValuesOfKind ==
    \A d \in Device, k \in Key : values[d][k] = NoValue \/ OfKind(k, values[d][k])

(* An entity's row is what settings_values has for it. *)
RowsShowValues ==
    \A d \in Device, e \in Entity :
       rows[d][e] = IF values[d][e] = NoValue THEN NoRow ELSE RowOf(values[d][e])

HomeUnique == \A d \in Device : OneRowEach(home[d])

(* A bookmark row is what settings_values has for its slot, or a seed. *)
HomeShowsValues ==
    \A d \in Device : \A x \in home[d] :
       IF values[d][x.slot] = NoValue THEN x \in Seed
       ELSE ~values[d][x.slot].deleted /\ values[d][x.slot].url = x.url

(* A slot's url that is not shown is named by an applied change elsewhere. *)
LossShown ==
    \A d \in Device, p \in Slot :
       \/ values[d][p] = NoValue
       \/ values[d][p].deleted
       \/ [slot |-> p, url |-> values[d][p].url] \in home[d]
       \/ \E c \in applied[d] : /\ c.key \in Slot \ {p}
                                /\ values[d][p].url \in {c.value.url, c.value.replaced}

AppIInv == /\ IInv
           /\ AppTypeOK
           /\ RowsShowValues
           /\ HomeUnique
           /\ HomeShowsValues
           /\ LossShown

-----------------------------------------------------------------------------

(* What the greatest change says is of its key's kind. *)
LEMMA KindsOfValues == IInv /\ AppTypeOK => ValuesOfKind
  <1> SUFFICES ASSUME IInv, AppTypeOK, NEW d \in Device, NEW k \in Key
               PROVE  values[d][k] = NoValue \/ OfKind(k, values[d][k])
    BY DEF ValuesOfKind
  <1>1. CASE values[d][k] = NoValue
    BY <1>1
  <1>2. CASE \E w \in applied[d] : /\ SyncSettingWinner(w, OfKey(changes[d], k))
                                   /\ values[d][k] = w.value
    <2>1. PICK w \in changes[d] : w.key = k /\ values[d][k] = w.value
      BY <1>2 DEF SyncSettingWinner, OfKey
    <2>2. OfKind(w.key, w.value)
      BY <2>1 DEF AppTypeOK
    <2> QED BY <2>1, <2>2
  <1> QED BY <1>1, <1>2 DEF IInv, WinnerShown

(* Placing a payload keeps rows rows, and unique by slot and by url. *)
LEMMA PlaceKeeps ==
    ASSUME NEW H \in SUBSET Bookmark, NEW p \in Slot, NEW b \in Payload, OneRowEach(H)
    PROVE  /\ PlaceBookmark(H, p, b) \in SUBSET Bookmark
           /\ OneRowEach(PlaceBookmark(H, p, b))
           /\ \A x \in PlaceBookmark(H, p, b) :
                 \/ x \in H /\ x.slot # p
                 \/ x = [slot |-> p, url |-> b.url] /\ ~b.deleted
           /\ \A x \in H : \/ x \in PlaceBookmark(H, p, b)
                           \/ x.slot = p
                           \/ x.url \in {b.url, b.replaced}
           /\ ~b.deleted => [slot |-> p, url |-> b.url] \in PlaceBookmark(H, p, b)
  <1> DEFINE new == [slot |-> p, url |-> b.url]
  <1>1. new \in Bookmark /\ new.slot = p /\ new.url = b.url
    BY DEF Bookmark, Payload
  <1>2. \A x \in PlaceBookmark(H, p, b) :
           \/ x \in H /\ x.slot # p /\ x.url # b.url
           \/ x = new /\ ~b.deleted
    BY DEF PlaceBookmark
  <1>3. OneRowEach(PlaceBookmark(H, p, b))
    BY <1>1, <1>2 DEF OneRowEach
  <1>4. PlaceBookmark(H, p, b) \in SUBSET Bookmark
    BY <1>1, <1>2
  <1>5. ~b.deleted => new \in PlaceBookmark(H, p, b)
    BY DEF PlaceBookmark
  <1>6. \A x \in H : \/ x \in PlaceBookmark(H, p, b)
                     \/ x.slot = p
                     \/ x.url \in {b.url, b.replaced}
    BY DEF PlaceBookmark
  <1> QED BY <1>2, <1>3, <1>4, <1>5, <1>6

(* A change that is applied and materialized keeps rows and values in step. *)
LEMMA MaterializeKeeps ==
    ASSUME AppIInv, NEW d \in Device, NEW c \in Change, OfKind(c.key, c.value),
           InsertApplied(d, c), Materialize(d, c),
           saving' \in [Device -> [slot : Slot, value : Payload] \cup {NoSave}]
    PROVE  AppTypeOK' /\ RowsShowValues' /\ HomeUnique' /\ HomeShowsValues' /\ LossShown'
  <1> USE DEF AppIInv
  <1>1. /\ c.key \in Key /\ c.value # NoValue
        /\ values' = [values EXCEPT ![d][c.key] = c.value]
        /\ values'[d][c.key] = c.value
        /\ \A k \in Key : k # c.key => values'[d][k] = values[d][k]
        /\ \A e \in Device : e # d => values'[e] = values[e]
    BY ChangeFields, NoValueAssumption DEF InsertApplied, IInv, TypeOK
  <1>2. /\ \A e \in Device : e # d => changes'[e] = changes[e] /\ applied'[e] = applied[e]
        /\ changes'[d] = changes[d] \cup {c} /\ applied'[d] = applied[d] \cup {c}
    BY DEF InsertApplied, IInv, TypeOK
  <1>3. \A e \in Device : \A x \in changes'[e] : OfKind(x.key, x.value)
    BY <1>2 DEF AppTypeOK
  <1>4. ValuesOfKind
    BY KindsOfValues
  <1>5. CASE c.key \in Entity
    <2>1. /\ home' = home
          /\ rows' = [rows EXCEPT ![d][c.key] = RowOf(c.value)]
          /\ c.key \notin Slot
      BY <1>5, KeyAssumption DEF Materialize
    <2>2. RowOf(c.value) \in Text \cup {NoRow}
      BY <1>5 DEF OfKind, RowOf
    <2>3. AppTypeOK'
      <3>1. rows' \in [Device -> [Entity -> Text \cup {NoRow}]]
        BY <2>1, <2>2, <1>5 DEF AppTypeOK
      <3>2. home' \in [Device -> SUBSET Bookmark]
        BY <2>1 DEF AppTypeOK
      <3> QED BY <3>1, <3>2, <1>3 DEF AppTypeOK
    <2>4. RowsShowValues'
      <3> SUFFICES ASSUME NEW f \in Device, NEW e \in Entity
                   PROVE rows'[f][e] = IF values'[f][e] = NoValue THEN NoRow
                                       ELSE RowOf(values'[f][e])
        BY DEF RowsShowValues
      <3>1. CASE f = d /\ e = c.key
        BY <3>1, <1>1, <2>1 DEF AppTypeOK
      <3>2. CASE ~(f = d /\ e = c.key)
        <4>1. rows'[f][e] = rows[f][e] /\ values'[f][e] = values[f][e]
          BY <3>2, <1>1, <2>1, KeyAssumption DEF AppTypeOK
        <4> QED BY <4>1 DEF RowsShowValues
      <3> QED BY <3>1, <3>2
    <2>5. \A f \in Device, p \in Slot : values'[f][p] = values[f][p] /\ p \in Key
      BY <1>1, <2>1, KeyAssumption
    <2>6. HomeUnique'
      BY <2>1 DEF HomeUnique
    <2>7. HomeShowsValues'
      <3>1. \A f \in Device : \A x \in home[f] : x.slot \in Slot
        BY DEF AppTypeOK, Bookmark
      <3> QED BY <2>1, <2>5, <3>1 DEF HomeShowsValues
    <2>8. LossShown'
      <3>1. \A f \in Device : applied[f] \subseteq applied'[f]
        BY <1>2
      <3> QED BY <2>1, <2>5, <3>1 DEF LossShown
    <2> QED BY <2>3, <2>4, <2>6, <2>7, <2>8
  <1>6. CASE c.key \in Slot
    <2> DEFINE p == c.key
               b == c.value
               H == PlaceBookmark(home[d], p, b)
    <2>1. /\ rows' = rows /\ c.key \notin Entity
          /\ home' = [home EXCEPT ![d] = H]
      BY <1>6, KeyAssumption DEF Materialize
    <2>2. b \in Payload /\ home[d] \in SUBSET Bookmark /\ OneRowEach(home[d])
      BY <2>1 DEF OfKind, AppTypeOK, HomeUnique
    <2>3. home'[d] = H /\ \A f \in Device : f # d => home'[f] = home[f]
      BY <2>1 DEF AppTypeOK
    <2>4. /\ H \in SUBSET Bookmark /\ OneRowEach(H)
          /\ \A x \in H : \/ x \in home[d] /\ x.slot # p
                          \/ x = [slot |-> p, url |-> b.url] /\ ~b.deleted
          /\ \A x \in home[d] : x \in H \/ x.slot = p \/ x.url \in {b.url, b.replaced}
          /\ ~b.deleted => [slot |-> p, url |-> b.url] \in H
      BY <1>6, <2>2, PlaceKeeps
    <2>5. AppTypeOK'
      <3>1. home' \in [Device -> SUBSET Bookmark]
        BY <2>1, <2>4 DEF AppTypeOK
      <3>2. rows' \in [Device -> [Entity -> Text \cup {NoRow}]]
        BY <2>1 DEF AppTypeOK
      <3> QED BY <3>1, <3>2, <1>3 DEF AppTypeOK
    <2>6. RowsShowValues'
      <3>1. \A f \in Device, e \in Entity : values'[f][e] = values[f][e]
        BY <1>1, <2>1, KeyAssumption
      <3> QED BY <2>1, <3>1 DEF RowsShowValues
    <2>7. HomeUnique'
      BY <2>3, <2>4 DEF HomeUnique
    <2>8. HomeShowsValues'
      <3> SUFFICES ASSUME NEW f \in Device, NEW x \in home'[f]
                   PROVE IF values'[f][x.slot] = NoValue THEN x \in Seed
                         ELSE ~values'[f][x.slot].deleted /\ values'[f][x.slot].url = x.url
        BY DEF HomeShowsValues
      <3>1. CASE f # d
        BY <3>1, <1>1, <2>3 DEF HomeShowsValues
      <3>2. CASE f = d /\ x \in home[d] /\ x.slot # p
        <4>1. x.slot \in Key
          BY <3>2, <2>2, KeyAssumption DEF Bookmark
        <4>2. values'[f][x.slot] = values[d][x.slot]
          BY <3>2, <4>1, <1>1
        <4> QED BY <3>2, <4>2 DEF HomeShowsValues
      <3>3. CASE f = d /\ x = [slot |-> p, url |-> b.url] /\ ~b.deleted
        <4>1. x.slot = p /\ x.url = b.url
          BY <3>3
        <4> QED BY <3>3, <4>1, <1>1
      <3> QED BY <3>1, <3>2, <3>3, <2>3, <2>4
    <2>9. LossShown'
      <3> SUFFICES ASSUME NEW f \in Device, NEW q \in Slot,
                          values'[f][q] # NoValue, ~values'[f][q].deleted,
                          [slot |-> q, url |-> values'[f][q].url] \notin home'[f]
                   PROVE \E a \in applied'[f] :
                            /\ a.key \in Slot \ {q}
                            /\ values'[f][q].url \in {a.value.url, a.value.replaced}
        BY DEF LossShown
      <3>1. CASE f # d
        BY <3>1, <1>1, <1>2, <2>3 DEF LossShown
      <3>2. CASE f = d /\ q = p
        BY <3>2, <1>1, <2>3, <2>4
      <3>3. CASE f = d /\ q # p
        <4>1. values'[d][q] = values[d][q]
          BY <3>3, <1>1, KeyAssumption
        <4>2. CASE [slot |-> q, url |-> values[d][q].url] \in home[d]
          <5>1. values[d][q].url \in {b.url, b.replaced}
            BY <3>3, <4>1, <4>2, <2>3, <2>4
          <5>2. c \in applied'[d] /\ c.key \in Slot \ {q}
            BY <1>2, <1>6, <3>3
          <5> QED BY <3>3, <4>1, <5>1, <5>2
        <4>3. CASE [slot |-> q, url |-> values[d][q].url] \notin home[d]
          <5>1. \E a \in applied[d] : /\ a.key \in Slot \ {q}
                                      /\ values[d][q].url \in {a.value.url, a.value.replaced}
            BY <3>3, <4>1, <4>3 DEF LossShown
          <5> QED BY <3>3, <4>1, <5>1, <1>2
        <4> QED BY <4>2, <4>3
      <3> QED BY <3>1, <3>2, <3>3
    <2> QED BY <2>5, <2>6, <2>7, <2>8, <2>9
  <1> QED BY <1>1, <1>5, <1>6, KeyAssumption

-----------------------------------------------------------------------------

(* A local write inserts a change that is of its key's kind. *)
LEMMA LocalWriteInserts ==
    ASSUME AppIInv, NEW d \in Device, NEW k \in Key, NEW v \in Value,
           OfKind(k, v), SetSyncSettingText(d, k, v)
    PROVE  /\ LocalChange(d, k, v) \in Change
           /\ LocalChange(d, k, v).key = k /\ LocalChange(d, k, v).value = v
           /\ InsertApplied(d, LocalChange(d, k, v))
  <1>1. IInv
    BY DEF AppIInv
  <1> QED BY <1>1, LocalChangeIsNew DEF SetSyncSettingText

(* Removing a row is placing its tombstone, since no other row has its slot. *)
LEMMA RemovalIsPlacing ==
    ASSUME NEW H \in SUBSET Bookmark, NEW x \in H, OneRowEach(H)
    PROVE  {y \in H : y.url # x.url}
              = PlaceBookmark(H, x.slot, [url |-> x.url, replaced |-> NoUrl, deleted |-> TRUE])
  <1>1. \A y \in H : y.url # NoUrl
    BY NullAssumption DEF Bookmark
  <1>2. \A y \in H : y.url # x.url => y.slot # x.slot
    BY DEF OneRowEach
  <1> QED BY <1>1, <1>2 DEF PlaceBookmark

(* A step of AppRecords is one of the settings log, or leaves it alone. *)
LEMMA AppStepIsLogStep == AppTypeOK /\ [AppNext]_appVars => [Next]_vars
  <1> SUFFICES ASSUME AppTypeOK, [AppNext]_appVars PROVE [Next]_vars
    OBVIOUS
  <1>1. ASSUME NEW d \in Device, NEW e \in Entity, NEW t \in Text, UpsertRecord(d, e, t)
        PROVE  [Next]_vars
    BY <1>1, KeyAssumption, ValueAssumption DEF UpsertRecord, Next
  <1>2. ASSUME NEW d \in Device, NEW e \in Entity, RemoveRecord(d, e)
        PROVE  [Next]_vars
    BY <1>2, KeyAssumption, ValueAssumption DEF RemoveRecord, Next
  <1>3. ASSUME NEW d \in Device, NEW p \in Slot, NEW u \in Url, LoadHomeBookmarks(d, p, u)
        PROVE  [Next]_vars
    BY <1>3 DEF LoadHomeBookmarks
  <1>4. ASSUME NEW d \in Device, SetBookmarkSlot(d)
        PROVE  [Next]_vars
    <2>1. saving[d] \in [slot : Slot, value : Payload]
      BY <1>4 DEF SetBookmarkSlot, AppTypeOK
    <2>2. saving[d].slot \in Key /\ saving[d].value \in Value
      BY <2>1, KeyAssumption, ValueAssumption
    <2> QED BY <1>4, <2>2 DEF SetBookmarkSlot, Next
  <1>5. ASSUME NEW d \in Device, NEW x \in home[d], RemoveBookmark(d, x)
        PROVE  [Next]_vars
    <2>1. x \in Bookmark
      BY DEF AppTypeOK
    <2>2. x.slot \in Key /\ [url |-> x.url, replaced |-> NoUrl, deleted |-> TRUE] \in Value
      BY <2>1, KeyAssumption, ValueAssumption DEF Bookmark, Payload
    <2> QED BY <1>5, <2>2 DEF RemoveBookmark, Next
  <1>6. ASSUME NEW d \in Device, NEW c \in Written, ApplyRecord(d, c)
        PROVE  [Next]_vars
    BY <1>6 DEF ApplyRecord, Next
  <1>7. ASSUME NEW d \in Device, NEW c \in Written, ReplayRecord(d, c)
        PROVE  [Next]_vars
    BY <1>7 DEF ReplayRecord, ReplaySyncSettingText
  <1>8. ASSUME UNCHANGED appVars
        PROVE  [Next]_vars
    BY <1>8 DEF appVars
  <1> QED BY <1>1, <1>2, <1>3, <1>4, <1>5, <1>6, <1>7, <1>8 DEF AppNext

(* A new profile has empty tables but for the first-run bookmarks. *)
LEMMA AppInitIInv == AppInit => AppIInv
  <1> SUFFICES ASSUME AppInit PROVE AppIInv
    OBVIOUS
  <1> USE DEF AppInit
  <1>1. IInv
    BY InitIInv
  <1>2. AppTypeOK
    BY SeedAssumption DEF AppTypeOK, Init
  <1>3. \A d \in Device, k \in Key : values[d][k] = NoValue
    BY DEF Init
  <1>4. RowsShowValues
    BY <1>3, KeyAssumption DEF RowsShowValues
  <1>5. HomeUnique
    BY SeedAssumption DEF HomeUnique
  <1>6. HomeShowsValues
    <2>1. \A x \in Seed : x.slot \in Key
      BY SeedAssumption, KeyAssumption DEF Bookmark
    <2> QED BY <1>3, <2>1 DEF HomeShowsValues
  <1>7. LossShown
    BY <1>3, KeyAssumption DEF LossShown
  <1> QED BY <1>1, <1>2, <1>4, <1>5, <1>6, <1>7 DEF AppIInv

(* Steps that touch neither rows nor applied changes keep AppIInv. *)
LEMMA QuietKeeps ==
    ASSUME AppIInv, UNCHANGED <<applied, values, rows, home>>,
           \A d \in Device : \A c \in changes'[d] : OfKind(c.key, c.value),
           saving' \in [Device -> [slot : Slot, value : Payload] \cup {NoSave}]
    PROVE  AppTypeOK' /\ RowsShowValues' /\ HomeUnique' /\ HomeShowsValues' /\ LossShown'
  BY DEF AppIInv, AppTypeOK, RowsShowValues, HomeUnique, HomeShowsValues, LossShown

(* Every operation keeps AppIInv. *)
LEMMA AppNextIInv == AppIInv /\ [AppNext]_appVars => AppIInv'
  <1> SUFFICES ASSUME AppIInv, [AppNext]_appVars PROVE AppIInv'
    OBVIOUS
  <1> DEFINE Save == [slot : Slot, value : Payload] \cup {NoSave}
             Shows == AppTypeOK /\ RowsShowValues /\ HomeUnique /\ HomeShowsValues /\ LossShown
  <1>1. /\ IInv /\ AppTypeOK /\ saving \in [Device -> Save]
        /\ \A d \in Device : \A c \in changes[d] : OfKind(c.key, c.value)
    BY DEF AppIInv, AppTypeOK
  <1>2. IInv'
    BY <1>1, AppStepIsLogStep, NextIInv
  <1>3. ASSUME NEW d \in Device, NEW e \in Entity, NEW t \in Text, UpsertRecord(d, e, t)
        PROVE  Shows'
    <2>1. e \in Key /\ t \in Value /\ OfKind(e, t) /\ RowOf(t) = t
      BY KeyAssumption, ValueAssumption, NullAssumption DEF OfKind, RowOf
    <2> DEFINE c == LocalChange(d, e, t)
    <2>2. c \in Change /\ c.key = e /\ c.value = t /\ InsertApplied(d, c)
      BY <1>3, <2>1, LocalWriteInserts DEF UpsertRecord
    <2>3. Materialize(d, c) /\ saving' = saving
      BY <1>3, <2>1, <2>2 DEF UpsertRecord, Materialize
    <2> HIDE DEF c
    <2> QED BY <1>1, <2>1, <2>2, <2>3, MaterializeKeeps
  <1>4. ASSUME NEW d \in Device, NEW e \in Entity, RemoveRecord(d, e)
        PROVE  Shows'
    <2>1. e \in Key /\ Deleted \in Value /\ OfKind(e, Deleted) /\ RowOf(Deleted) = NoRow
      BY KeyAssumption, ValueAssumption DEF OfKind, RowOf
    <2> DEFINE c == LocalChange(d, e, Deleted)
    <2>2. c \in Change /\ c.key = e /\ c.value = Deleted /\ InsertApplied(d, c)
      BY <1>4, <2>1, LocalWriteInserts DEF RemoveRecord
    <2>3. Materialize(d, c) /\ saving' = saving
      BY <1>4, <2>1, <2>2 DEF RemoveRecord, Materialize
    <2> HIDE DEF c
    <2> QED BY <1>1, <2>1, <2>2, <2>3, MaterializeKeeps
  <1>5. ASSUME NEW d \in Device, NEW p \in Slot, NEW u \in Url, LoadHomeBookmarks(d, p, u)
        PROVE  Shows'
    <2>1. ReplacedUrl(home[d], p) \in Url \cup {NoUrl}
      <3>1. \A x \in home[d] : x.url \in Url
        BY <1>1 DEF AppTypeOK, Bookmark
      <3>2. CASE \E x \in home[d] : x.slot = p
        <4>1. (CHOOSE x \in home[d] : x.slot = p) \in home[d]
          BY <3>2
        <4> QED BY <3>1, <3>2, <4>1 DEF ReplacedUrl
      <3>3. CASE ~\E x \in home[d] : x.slot = p
        BY <3>3 DEF ReplacedUrl
      <3> QED BY <3>2, <3>3
    <2>2. [slot |-> p, value |-> [url |-> u, replaced |-> ReplacedUrl(home[d], p),
                                  deleted |-> FALSE]] \in Save
      BY <2>1 DEF Payload
    <2>3. saving' \in [Device -> Save]
      BY <1>1, <1>5, <2>2 DEF LoadHomeBookmarks
    <2>4. UNCHANGED <<changes, applied, values, rows, home>>
      BY <1>5 DEF LoadHomeBookmarks, vars
    <2> QED BY <1>1, <2>3, <2>4, QuietKeeps
  <1>6. ASSUME NEW d \in Device, SetBookmarkSlot(d)
        PROVE  Shows'
    <2> DEFINE p == saving[d].slot
               b == saving[d].value
               c == LocalChange(d, p, b)
    <2>1. saving[d] \in [slot : Slot, value : Payload]
      BY <1>1, <1>6 DEF SetBookmarkSlot
    <2>2. p \in Slot /\ p \in Key /\ b \in Value /\ OfKind(p, b)
      BY <2>1, KeyAssumption, ValueAssumption DEF OfKind
    <2>3. c \in Change /\ c.key = p /\ c.value = b /\ InsertApplied(d, c)
      BY <1>6, <2>2, LocalWriteInserts DEF SetBookmarkSlot
    <2>4. Materialize(d, c) /\ saving' \in [Device -> Save]
      BY <1>1, <1>6, <2>2, <2>3 DEF SetBookmarkSlot, Materialize
    <2> HIDE DEF c, p, b
    <2> QED BY <2>2, <2>3, <2>4, MaterializeKeeps
  <1>7. ASSUME NEW d \in Device, NEW x \in home[d], RemoveBookmark(d, x)
        PROVE  Shows'
    <2> DEFINE b == [url |-> x.url, replaced |-> NoUrl, deleted |-> TRUE]
               c == LocalChange(d, x.slot, b)
    <2>1. x \in Bookmark /\ home[d] \in SUBSET Bookmark /\ OneRowEach(home[d])
      BY <1>1 DEF AppTypeOK, AppIInv, HomeUnique
    <2>2. x.slot \in Slot /\ x.slot \in Key /\ b \in Payload /\ b \in Value
      BY <2>1, KeyAssumption, ValueAssumption DEF Bookmark, Payload
    <2>3. OfKind(x.slot, b)
      BY <2>2, KeyAssumption DEF OfKind
    <2>4. c \in Change /\ c.key = x.slot /\ c.value = b /\ InsertApplied(d, c)
      BY <1>7, <2>2, <2>3, LocalWriteInserts DEF RemoveBookmark
    <2>5. {y \in home[d] : y.url # x.url} = PlaceBookmark(home[d], x.slot, b)
      BY <2>1, RemovalIsPlacing
    <2>6. Materialize(d, c) /\ saving' = saving
      BY <1>7, <2>2, <2>4, <2>5 DEF RemoveBookmark, Materialize
    <2> HIDE DEF c, b
    <2> QED BY <1>1, <2>3, <2>4, <2>6, MaterializeKeeps
  <1>8. ASSUME NEW d \in Device, NEW c \in Written, ApplyRecord(d, c)
        PROVE  Shows'
    <2>1. c \in Change /\ OfKind(c.key, c.value)
      BY <1>1 DEF Written, IInv, TypeOK
    <2>2. CASE SettingChangeWins(c, applied[d])
      <3>1. InsertApplied(d, c) /\ Materialize(d, c) /\ saving' = saving
        BY <1>8, <2>2 DEF ApplyRecord, ApplySyncSettingText
      <3> QED BY <1>1, <2>1, <3>1, MaterializeKeeps
    <2>3. CASE ~SettingChangeWins(c, applied[d])
      <3>1. InsertUnapplied(d, c) /\ UNCHANGED <<rows, home, saving>>
        BY <1>8, <2>3 DEF ApplyRecord, ApplySyncSettingText
      <3>2. \A f \in Device : \A a \in changes'[f] : OfKind(a.key, a.value)
        BY <1>1, <2>1, <3>1 DEF InsertUnapplied, IInv, TypeOK
      <3>3. UNCHANGED <<applied, values, rows, home>>
        BY <3>1 DEF InsertUnapplied
      <3> QED BY <1>1, <3>1, <3>2, <3>3, QuietKeeps
    <2> QED BY <2>2, <2>3
  <1>9. ASSUME UNCHANGED appVars
        PROVE  Shows'
    <2>1. UNCHANGED <<changes, applied, values, rows, home, saving>>
      BY <1>9 DEF appVars, vars
    <2> QED BY <1>1, <2>1, QuietKeeps
  <1>10. ASSUME NEW d \in Device, NEW c \in Written, ReplayRecord(d, c)
         PROVE  Shows'
    BY <1>9, <1>10 DEF ReplayRecord, ReplaySyncSettingText, appVars
  <1>11. Shows'
    BY <1>3, <1>4, <1>5, <1>6, <1>7, <1>8, <1>9, <1>10 DEF AppNext
  <1> QED BY <1>2, <1>11 DEF AppIInv

(***************************************************************************)
(* The invariant of the tables, which the theorems below are read off.     *)
(***************************************************************************)
THEOREM AppSpecIInv == AppSpec => []AppIInv
  BY AppInitIInv, AppNextIInv, PTL DEF AppSpec

(***************************************************************************)
(* The typed tables are written beside the settings log and never against  *)
(* it: every behaviour of the tables is a behaviour of the log, so what is *)
(* proved of the log holds under the record operations too.                *)
(***************************************************************************)
THEOREM AppImplementsLog == AppSpec => Spec
  <1>1. AppInit => Init
    BY DEF AppInit
  <1>2. AppIInv => AppTypeOK
    BY DEF AppIInv
  <1> QED BY <1>1, <1>2, AppSpecIInv, AppStepIsLogStep, PTL DEF AppSpec, Spec

(***************************************************************************)
(* Rows and payloads keep their types (the typed tables of crates/storage).*)
(***************************************************************************)
THEOREM AppTypeCorrect == AppSpec => []AppTypeOK
  <1>1. AppIInv => AppTypeOK
    BY DEF AppIInv
  <1> QED BY <1>1, AppSpecIInv, PTL

(* What settings_values has for a key is what its greatest change says. *)
LEMMA ValueIsSettled ==
    ASSUME AppIInv, NEW d \in Device, NEW k \in Key
    PROVE  \/ OfKey(changes[d], k) = {} /\ values[d][k] = NoValue
           \/ \E w \in OfKey(changes[d], k) : /\ Settled(d, k, w)
                                              /\ values[d][k] = w.value
                                              /\ w.value # NoValue
  <1>1. IInv
    BY DEF AppIInv
  <1>2. CASE OfKey(changes[d], k) = {} /\ values[d][k] = NoValue
    BY <1>2
  <1>3. CASE \E w \in applied[d] : /\ SyncSettingWinner(w, OfKey(changes[d], k))
                                   /\ values[d][k] = w.value
    <2>1. PICK w \in OfKey(changes[d], k) : /\ SyncSettingWinner(w, OfKey(changes[d], k))
                                            /\ values[d][k] = w.value
      BY <1>3 DEF SyncSettingWinner
    <2>2. w \in Change
      BY <1>1, <2>1 DEF IInv, TypeOK, OfKey
    <2>3. w.value # NoValue
      BY <2>2, NoValueAssumption, ChangeFields
    <2> QED BY <2>1, <2>3 DEF Settled
  <1> QED BY <1>1, <1>2, <1>3 DEF IInv, WinnerShown

(* The greatest change of a key is one. *)
LEMMA SettledOnce ==
    ASSUME AppIInv, NEW d \in Device, NEW k \in Key, NEW a, NEW b,
           Settled(d, k, a), Settled(d, k, b)
    PROVE  a = b
  <1>1. a \in Change /\ b \in Change
    BY DEF AppIInv, IInv, TypeOK, Settled, OfKey
  <1>2. a = b \/ (Precedes(a, b) /\ Precedes(b, a))
    BY DEF Settled, SyncSettingWinner
  <1> QED BY <1>1, <1>2, PrecedesAsymmetric

(***************************************************************************)
(* A record's row is what the greatest known change says of it, and a      *)
(* removed record stays removed, whatever arrives in whatever order.       *)
(***************************************************************************)
THEOREM RowsAreWinners == AppSpec => []RowIsWinner
  <1>1. AppIInv => RowIsWinner
    <2> SUFFICES ASSUME AppIInv, NEW d \in Device, NEW e \in Entity
                 PROVE IF OfKey(changes[d], e) = {} THEN rows[d][e] = NoRow
                       ELSE \E w \in OfKey(changes[d], e) :
                               Settled(d, e, w) /\ rows[d][e] = RowOf(w.value)
      BY DEF RowIsWinner
    <2>1. e \in Key
      BY KeyAssumption
    <2>2. rows[d][e] = IF values[d][e] = NoValue THEN NoRow ELSE RowOf(values[d][e])
      BY DEF AppIInv, RowsShowValues
    <2>3. CASE OfKey(changes[d], e) = {} /\ values[d][e] = NoValue
      BY <2>2, <2>3
    <2>4. CASE \E w \in OfKey(changes[d], e) : /\ Settled(d, e, w)
                                               /\ values[d][e] = w.value
                                               /\ w.value # NoValue
      BY <2>2, <2>4
    <2> QED BY <2>1, <2>3, <2>4, ValueIsSettled
  <1> QED BY <1>1, AppSpecIInv, PTL

(***************************************************************************)
(* A shown bookmark is current, and no slot or url has two rows.           *)
(***************************************************************************)
THEOREM HomeCurrent == AppSpec => []HomeIsCurrent
  <1>1. AppIInv => HomeIsCurrent
    <2> SUFFICES ASSUME AppIInv, NEW d \in Device
                 PROVE  /\ OneRowEach(home[d])
                        /\ \A x \in home[d] :
                              \/ OfKey(changes[d], x.slot) = {} /\ x \in Seed
                              \/ \E w \in OfKey(changes[d], x.slot) :
                                    /\ Settled(d, x.slot, w)
                                    /\ ~w.value.deleted /\ w.value.url = x.url
      BY DEF HomeIsCurrent
    <2>1. OneRowEach(home[d])
      BY DEF AppIInv, HomeUnique
    <2>2. ASSUME NEW x \in home[d]
          PROVE  \/ OfKey(changes[d], x.slot) = {} /\ x \in Seed
                 \/ \E w \in OfKey(changes[d], x.slot) :
                       Settled(d, x.slot, w) /\ ~w.value.deleted /\ w.value.url = x.url
      <3>1. x.slot \in Key
        BY KeyAssumption DEF AppIInv, AppTypeOK, Bookmark
      <3>2. IF values[d][x.slot] = NoValue THEN x \in Seed
            ELSE ~values[d][x.slot].deleted /\ values[d][x.slot].url = x.url
        BY DEF AppIInv, HomeShowsValues
      <3> QED BY <3>1, <3>2, ValueIsSettled
    <2> QED BY <2>1, <2>2
  <1> QED BY <1>1, AppSpecIInv, PTL

(***************************************************************************)
(* A bookmark is missing only where an applied change of another slot      *)
(* names its url.                                                          *)
(***************************************************************************)
THEOREM LossesExplained == AppSpec => []LossIsExplained
  <1>1. AppIInv => LossIsExplained
    <2> SUFFICES ASSUME AppIInv, NEW d \in Device, NEW p \in Slot,
                        NEW w \in OfKey(changes[d], p), Settled(d, p, w),
                        ~w.value.deleted,
                        [slot |-> p, url |-> w.value.url] \notin home[d]
                 PROVE  \E c \in applied[d] :
                           /\ c.key \in Slot \ {p}
                           /\ w.value.url \in {c.value.url, c.value.replaced}
      BY DEF LossIsExplained
    <2>1. p \in Key
      BY KeyAssumption
    <2>2. values[d][p] = w.value /\ w.value # NoValue
      BY <2>1, ValueIsSettled, SettledOnce
    <2> QED BY <2>2 DEF AppIInv, LossShown
  <1> QED BY <1>1, AppSpecIInv, PTL

=============================================================================
