------------------------ MODULE RetentionCycleProofs ------------------------
(***************************************************************************)
(* That a root never gets ahead of its objects and that a run which ends   *)
(* well has published and retained what it says, for any providers, roles, *)
(* handles and limits, and for any number of changes, publications and     *)
(* faults.                                                                 *)
(***************************************************************************)
EXTENDS RetentionCycle, FiniteSetTheorems, WellFoundedInduction, TLAPS

(* The objects of publication n that a root may point to, and all that is  *)
(* needed to read one of them when the contents are C.                     *)
RootKind == {"manifest", "head"}

Leads(C, o) == {o, Manifest(o[2])} \cup Range(C[o[2]].refs)

Stored(o) == <<Device, o>> \in objects \cup lost

Published(r) == roots[<<r, Device>>] # None

RootOf(r) == roots[<<r, Device>>].object

(* A root of the device covers the changes up to k. *)
Covered(k) == k > 0 => \E r \in Root : Published(r) /\ contents[RootOf(r)[2]].covers >= k

(* Enough providers claim all that root r leads to. *)
Holders(o) == {q \in Provider : \A x \in Leads(contents, o) : <<q, x>> \in retained}

Durable(r) == Published(r) => Cardinality(Holders(RootOf(r))) >= MinimumRetaining

-----------------------------------------------------------------------------
(* Types. *)

Pc == {"idle", "preflight", "select", "publish", "head", "scan", "publishing", "compact",
       "shared", "retain", "headHealth"}

DbRecord == [snapshot : Object \cup {None}, covers : Nat, domains : SUBSET Nat,
             settings : Object \cup {None}, head : Object \cup {None}, sequence : Nat]

ReqRecord == [op : {"put", "get", "retain", "publish"}, provider : Provider,
              object : Object, root : Root \cup {None}]

Contents == [refs : Seq(Object), carries : SUBSET Nat, covers : Nat, before : Nat,
             omits : SUBSET Nat]

RunRecord == [pc : Pc, kind : {"cycle", "compaction"}, since : Nat,
              selected : SUBSET (1..Len(Handles)), steps : Nat, latest : Nat,
              ids : Seq(Object), next : DbRecord \cup {None}, todo : Seq(ReqRecord),
              left : SUBSET Nat, read : SUBSET Nat, before : Nat]

StoreType ==
    /\ objects \subseteq Provider \X Object
    /\ retained \subseteq Provider \X Object
    /\ nextRootSequence \in Nat
    /\ roots \in [Root \X Provider -> [object : Object, sequence : Nat] \cup {None}]

DeviceType ==
    /\ edits \in Nat /\ edits <= MaxEdits /\ attempts \in 0..MaxAttempts
    /\ db \in DbRecord
    /\ contents \in Seq(Contents) /\ Len(contents) = attempts
    /\ run \in RunRecord

-----------------------------------------------------------------------------
(* The inductive invariant. *)

(* Later publications cover no less, and none covers changes to come. *)
ContentsInv ==
    /\ \A n \in 1..attempts : contents[n].covers <= edits
    /\ \A m, n \in 1..attempts : m <= n => contents[m].covers <= contents[n].covers

(* Only the device publishes, and what it published it has stored. *)
RootsInv ==
    \A r \in Root, p \in Provider :
       roots[<<r, p>>] # None =>
          /\ p = Device /\ "mutable_roots" \in Roles[Device]
          /\ RootOf(r)[1] \in RootKind /\ RootOf(r)[2] \in 1..attempts
          /\ \A x \in Leads(contents, RootOf(r)) : Stored(x)

(* Whoever claims a manifest or a head claims all it leads to. *)
ClaimsInv ==
    \A q \in Provider, o \in Object :
       <<q, o>> \in retained /\ o[1] \in RootKind =>
          /\ o[2] \in 1..attempts
          /\ \A x \in Leads(contents, o) : <<q, x>> \in retained

(* Of the requests to make, a retain of a manifest or a head comes after   *)
(* those of what it leads to, and a publish after all its objects have     *)
(* been put.                                                               *)
Asks(c, ops, p, x) == c.op \in ops /\ c.provider = p /\ c.object = x

RetainsFirst(todo, i) ==
    todo[i].op = "retain" /\ todo[i].object[1] \in RootKind =>
       /\ todo[i].object[2] \in 1..attempts
       /\ \A x \in Leads(contents, todo[i].object) :
             \/ x = todo[i].object
             \/ <<todo[i].provider, x>> \in retained
             \/ \E j \in 1..i - 1 : Asks(todo[j], {"retain"}, todo[i].provider, x)

PublishesLast(todo, i) ==
    todo[i].op = "publish" =>
       /\ todo[i].provider = Device /\ todo[i].root \in Root
       /\ todo[i].object[1] \in RootKind /\ todo[i].object[2] = attempts /\ attempts > 0
       /\ \A x \in Leads(contents, todo[i].object) :
             \/ Stored(x)
             \/ \E j \in 1..i - 1 : Asks(todo[j], {"put", "retain"}, Device, x)

TodoInv == \A i \in 1..Len(run.todo) : RetainsFirst(run.todo, i) /\ PublishesLast(run.todo, i)

(* The objects to hand to the providers are in that order too. *)
Ordered(ids, N, C) ==
    \A i \in 1..Len(ids) :
       ids[i][1] \in RootKind =>
          /\ ids[i][2] \in 1..N
          /\ \A x \in Leads(C, ids[i]) : x = ids[i] \/ \E j \in 1..i - 1 : ids[j] = x

IdsInv == Ordered(run.ids, attempts, contents)

(* What a publication is going to record. *)
PublishingInv ==
    run.pc = "publishing" =>
       /\ attempts > 0
       /\ run.next \in DbRecord
       /\ run.next.snapshot # None /\ run.next.snapshot[1] = "snapshot"
       /\ run.next.covers <= contents[attempts].covers
       /\ run.next.sequence <= contents[attempts].covers
       /\ \/ Published(SettingsRoot) /\ RootOf(SettingsRoot)[2] = attempts
          \/ \E i \in 1..Len(run.todo) : /\ run.todo[i].op = "publish"
                                         /\ run.todo[i].root = SettingsRoot

(* What the database records has been published. *)
RecordInv ==
    /\ IF db.snapshot = None THEN db.covers = 0 ELSE db.snapshot[1] = "snapshot"
    /\ db.covers <= edits /\ db.sequence <= edits
    /\ Covered(db.covers) /\ Covered(db.sequence)

(* How far the run has come. *)
RunInv ==
    /\ run.since <= edits
    /\ run.todo # <<>> => run.pc \in {"head", "publishing", "retain"}
    /\ run.pc = "compact" => run.kind = "compaction"
    /\ run.pc = "head" => run.latest >= run.since /\ db.snapshot # None
    /\ run.pc \in {"shared", "retain", "headHealth"} /\ run.kind = "cycle" => Covered(run.since)
    /\ run.pc = "headHealth" => Durable(SettingsRoot)

(* What was there when the domains began to be read is read, or will be:   *)
(* the publication will cover no less than those before it.                *)
ScanInv ==
    run.pc = "scan" =>
       /\ run.since <= run.before /\ run.before <= edits
       /\ \A n \in 1..attempts : contents[n].covers <= run.before
       /\ run.read \subseteq db.covers + 1 .. edits
       /\ \A i \in db.covers + 1 .. run.before : i \in run.read \/ DomainOf[i] \in run.left

OutcomeInv ==
    outcome # None =>
       /\ run.pc = "idle"
       /\ outcome \in [kind : {"cycle", "compaction"}, since : Nat]
       /\ outcome.kind = "cycle" => Covered(outcome.since)
       /\ \A r \in Root : Durable(r)

(* The parts that speak of the run, and those that do not. *)
StoreInv == StoreType /\ ContentsInv /\ RootsInv /\ ClaimsInv /\ RecordInv

CycleInv == TodoInv /\ IdsInv /\ PublishingInv /\ RunInv /\ ScanInv /\ OutcomeInv

IInv == DeviceType /\ StoreInv /\ CycleInv

-----------------------------------------------------------------------------

LEMMA InitIInv == CycleInit => IInv
  <1> SUFFICES ASSUME CycleInit PROVE IInv
    OBVIOUS
  <1>1. NoRun \in RunRecord
    BY DEF NoRun, RunRecord, Pc
  <1>2. DeviceType
    BY <1>1, CycleAssumption DEF CycleInit, DeviceType, DbRecord
  <1>3. StoreInv
    BY CycleAssumption DEF CycleInit, StoreInv, StoreType, ContentsInv, RootsInv, ClaimsInv,
                           RecordInv, Covered
  <1>4. CycleInv
    <2>1. run.todo = <<>> /\ run.ids = <<>> /\ run.pc = "idle" /\ run.since = 0
      BY DEF CycleInit, NoRun
    <2>2. edits \in Nat /\ outcome = None
      BY <1>2 DEF CycleInit, DeviceType
    <2> QED BY <2>1, <2>2 DEF CycleInv, TodoInv, IdsInv, Ordered, PublishingInv, RunInv,
                              ScanInv, OutcomeInv
  <1> QED BY <1>2, <1>3, <1>4 DEF IInv

(* A step that leaves the store, the database and the contents alone. *)
LEMMA StoreSame ==
    ASSUME StoreInv, UNCHANGED <<serviceVars, edits, db, attempts, contents>>
    PROVE  StoreInv'
  BY DEF StoreInv, StoreType, ContentsInv, RootsInv, ClaimsInv, RecordInv, Covered, Leads,
         Stored, Published, RootOf, serviceVars, storeVars, faultVars

(* The end of a run, whatever it was doing. *)
LEMMA FailStep ==
    ASSUME IInv, Fail, UNCHANGED <<serviceVars, edits, db, attempts, contents>>
    PROVE  IInv'
  <1>1. NoRun \in RunRecord
    BY DEF NoRun, RunRecord, Pc
  <1>2. run' = NoRun /\ outcome' = None /\ edits \in Nat
    BY DEF Fail, IInv, DeviceType
  <1>3. DeviceType'
    BY <1>1, <1>2 DEF IInv, DeviceType
  <1>4. StoreInv'
    BY StoreSame DEF IInv
  <1>5. CycleInv'
    BY <1>2 DEF NoRun, CycleInv, TodoInv, IdsInv, Ordered, PublishingInv, RunInv, ScanInv,
                OutcomeInv
  <1> QED BY <1>3, <1>4, <1>5 DEF IInv

(* A step of the run that leaves its lists alone or has none to work on,   *)
(* and comes to pc.                                                        *)
LEMMA RunStep ==
    ASSUME IInv, UNCHANGED <<serviceVars, edits, db, attempts, contents>>,
           outcome' = None \/ (outcome' = outcome /\ run.pc # "idle"),
           run' \in RunRecord, run'.pc # "publishing", run'.pc = "scan" => ScanInv',
           run'.pc = "headHealth" => Durable(SettingsRoot),
           run'.ids = run.ids \/ run'.ids = <<>>,
           TodoInv', run'.todo # <<>> => run'.pc \in {"head", "retain"},
           run'.since <= edits,
           run'.pc = "compact" => run'.kind = "compaction",
           run'.pc = "head" => run'.latest >= run'.since /\ db.snapshot # None,
           run'.pc \in {"shared", "retain", "headHealth"} /\ run'.kind = "cycle"
              => Covered(run'.since)
    PROVE  IInv'
  <1>1. DeviceType'
    BY DEF IInv, DeviceType
  <1>2. StoreInv'
    BY StoreSame DEF IInv
  <1>3. UNCHANGED <<roots, contents, retained, attempts, edits>>
    BY DEF serviceVars, storeVars
  <1>4. IdsInv'
    <2>1. Ordered(<<>>, attempts, contents)
      BY DEF Ordered
    <2>2. Ordered(run.ids, attempts, contents)
      BY DEF IInv, CycleInv, IdsInv
    <2> QED BY <1>3, <2>1, <2>2 DEF IdsInv
  <1>5. outcome' = None
    BY DEF IInv, CycleInv, OutcomeInv
  <1>6. Covered(run.since)' <=> Covered(run'.since)
    BY <1>3 DEF Covered, Published, RootOf
  <1>7. Durable(SettingsRoot)' <=> Durable(SettingsRoot)
    BY <1>3 DEF Durable, Holders, Leads, Published, RootOf
  <1>8. PublishingInv' /\ OutcomeInv' /\ ScanInv'
    BY <1>5 DEF PublishingInv, OutcomeInv, ScanInv
  <1>9. RunInv'
    BY <1>3, <1>6, <1>7 DEF RunInv
  <1> QED BY <1>1, <1>2, <1>4, <1>8, <1>9 DEF IInv, CycleInv

-----------------------------------------------------------------------------
(* Requests and faults. *)

(* A fault takes no claim, no root, and bytes only into what is lost. *)
LEMMA FaultEffect ==
    ASSUME StoreType, Fault
    PROVE  /\ UNCHANGED <<retained, roots, nextRootSequence, deviceVars>>
           /\ objects' \subseteq objects
           /\ objects' \cup lost' = objects \cup lost
  BY DEF StoreType, Fault, SetProviderOnline, SetProviderRetentionAvailable,
         SetProviderRetentionQuota, SetProviderTransferAvailable, RemoveProviderObjectBytes,
         ExpireCurrentProviderFreshness, storeVars, faultVars, providerVars

LEMMA FaultKeepsIInv == ASSUME IInv, Fault PROVE IInv'
  <1>1. /\ UNCHANGED <<retained, roots, nextRootSequence, deviceVars>>
        /\ objects' \subseteq objects
        /\ \A o : Stored(o)' <=> Stored(o)
    BY FaultEffect DEF IInv, StoreInv, Stored
  <1>2. UNCHANGED <<edits, db, attempts, contents, run, outcome>>
    BY <1>1 DEF deviceVars
  <1>4. /\ \A r : Published(r)' = Published(r) /\ RootOf(r)' = RootOf(r)
        /\ \A k : Covered(k)' = Covered(k)
        /\ \A r : Durable(r)' = Durable(r)
    BY <1>1, <1>2 DEF Published, RootOf, Covered, Durable, Holders, Leads
  <1>5. DeviceType'
    BY <1>2 DEF IInv, DeviceType
  <1>6. StoreType' /\ ContentsInv' /\ ClaimsInv'
    BY <1>1, <1>2 DEF IInv, StoreInv, StoreType, ContentsInv, ClaimsInv, Leads
  <1>7. RootsInv'
    BY <1>1, <1>2 DEF IInv, StoreInv, RootsInv, Leads, RootOf, Stored
  <1>8. RecordInv'
    BY <1>2, <1>4 DEF IInv, StoreInv, RecordInv
  <1>9. TodoInv'
    <2> SUFFICES ASSUME NEW i \in 1..Len(run.todo)
                 PROVE  RetainsFirst(run.todo, i)' /\ PublishesLast(run.todo, i)'
      BY <1>2 DEF TodoInv
    <2>1. RetainsFirst(run.todo, i) /\ PublishesLast(run.todo, i)
      BY DEF IInv, CycleInv, TodoInv
    <2>2. RetainsFirst(run.todo, i)'
      BY <1>1, <1>2, <2>1 DEF RetainsFirst, Leads
    <2>3. PublishesLast(run.todo, i)'
      BY <1>1, <1>2, <2>1 DEF PublishesLast, Leads, Stored
    <2> QED BY <2>2, <2>3
  <1>10. IdsInv'
    BY <1>2 DEF IInv, CycleInv, IdsInv
  <1>11. PublishingInv'
    BY <1>1, <1>2 DEF IInv, CycleInv, PublishingInv, Published, RootOf
  <1>12. RunInv' /\ OutcomeInv' /\ ScanInv'
    BY <1>2, <1>4 DEF IInv, CycleInv, RunInv, OutcomeInv, ScanInv
  <1> QED BY <1>5, <1>6, <1>7, <1>8, <1>9, <1>10, <1>11, <1>12 DEF IInv, StoreInv, CycleInv

(* What a request that succeeds does to the store. *)
LEMMA PerformEffect ==
    ASSUME StoreType, NEW c \in ReqRecord, Perform(c), c.op = "publish" => c.root \in Root
    PROVE  /\ StoreType'
           /\ objects \subseteq objects' /\ lost' = lost
           /\ c.op \in {"put", "retain"} => <<c.provider, c.object>> \in objects'
           /\ retained' = IF c.op = "retain" THEN retained \cup {<<c.provider, c.object>>}
                          ELSE retained
           /\ c.op # "publish" => roots' = roots
           /\ c.op = "publish" =>
                 /\ "mutable_roots" \in Roles[c.provider]
                 /\ roots' = [roots EXCEPT ![<<c.root, c.provider>>] =
                                [object |-> c.object, sequence |-> nextRootSequence + 1]]
  <1>0. /\ c.op \in {"put", "get", "retain", "publish"}
        /\ c.provider \in Provider /\ c.object \in Object
    BY DEF ReqRecord
  <1> USE DEF StoreType
  <1>1. CASE c.op = "put"
    BY <1>0, <1>1 DEF Perform, PutObject, faultVars
  <1>2. CASE c.op = "retain"
    BY <1>0, <1>2 DEF Perform, RetainObject, faultVars
  <1>3. CASE c.op = "get"
    BY <1>0, <1>3 DEF Perform, serviceVars, storeVars, faultVars
  <1>4. CASE c.op = "publish"
    <2>1. PublishRoot(c.provider, c.root, c.object)
      BY <1>4 DEF Perform
    <2>2. [object |-> c.object, sequence |-> nextRootSequence + 1]
             \in [object : Object, sequence : Nat]
      BY <1>0
    <2> QED BY <1>0, <1>4, <2>1, <2>2 DEF PublishRoot, CanPublish, Serves, faultVars
  <1> QED BY <1>0, <1>1, <1>2, <1>3, <1>4

(* A root that moves on covers no less. *)
LEMMA CoveredGrows ==
    ASSUME DeviceType, ContentsInv, RootsInv, UNCHANGED <<contents, attempts>>,
           \A r \in Root :
              \/ roots'[<<r, Device>>] = roots[<<r, Device>>]
              \/ /\ roots'[<<r, Device>>] # None
                 /\ roots'[<<r, Device>>].object[2] = attempts,
           NEW k \in Nat, Covered(k)
    PROVE  Covered(k)'
  <1> SUFFICES ASSUME k > 0 PROVE Covered(k)'
    BY DEF Covered
  <1>1. PICK r \in Root : Published(r) /\ contents[RootOf(r)[2]].covers >= k
    BY DEF Covered
  <1>2. RootOf(r)[2] \in 1..attempts /\ attempts \in Nat
    <2>1. Device \in Provider /\ MaxAttempts \in Nat
      BY CycleAssumption
    <2>2. attempts \in Nat
      BY <2>1 DEF DeviceType
    <2> QED BY <1>1, <2>1, <2>2 DEF RootsInv, Published
  <1>3. contents[RootOf(r)[2]].covers <= contents[attempts].covers
    BY <1>2 DEF ContentsInv
  <1>4. contents[RootOf(r)[2]].covers \in Nat /\ contents[attempts].covers \in Nat
    <2>1. RootOf(r)[2] \in 1..Len(contents) /\ attempts \in 1..Len(contents)
      BY <1>2 DEF DeviceType
    <2>2. contents[RootOf(r)[2]] \in Contents /\ contents[attempts] \in Contents
      BY <2>1 DEF DeviceType
    <2> QED BY <2>2 DEF Contents
  <1>5. CASE roots'[<<r, Device>>] = roots[<<r, Device>>]
    BY <1>1, <1>5 DEF Covered, Published, RootOf
  <1>6. CASE roots'[<<r, Device>>] # None /\ roots'[<<r, Device>>].object[2] = attempts
    <2>1. contents[attempts].covers >= k
      BY <1>1, <1>3, <1>4
    <2> QED BY <1>6, <2>1 DEF Covered, Published, RootOf
  <1> QED BY <1>5, <1>6

LEMMA RequestKeepsIInv == ASSUME IInv, Request1 PROVE IInv'
  <1>0. PICK todo : todo = run.todo
    OBVIOUS
  <1> DEFINE c == Head(todo)
  <1>1. /\ todo \in Seq(ReqRecord) /\ todo # <<>> /\ run \in RunRecord
        /\ Perform(c) /\ run' = [run EXCEPT !.todo = Tail(todo)]
        /\ UNCHANGED <<edits, db, attempts, contents, outcome>>
        /\ attempts \in Nat
    BY <1>0, CycleAssumption DEF IInv, DeviceType, RunRecord, Request1
  <1>2. /\ c = todo[1] /\ c \in ReqRecord /\ 1 \in 1..Len(todo) /\ Len(todo) \in Nat
        /\ Tail(todo) \in Seq(ReqRecord) /\ Len(Tail(todo)) = Len(todo) - 1
        /\ \A i \in 1..Len(todo) - 1 : Tail(todo)[i] = todo[i + 1]
    BY <1>1
  <1>3. /\ run' \in RunRecord /\ run'.todo = Tail(todo)
        /\ run'.pc = run.pc /\ run'.kind = run.kind /\ run'.since = run.since
        /\ run'.ids = run.ids /\ run'.next = run.next /\ run'.latest = run.latest
    BY <1>1, <1>2 DEF RunRecord
  <1>4. /\ c.op \in {"put", "get", "retain", "publish"}
        /\ c.provider \in Provider /\ c.object \in Object
    BY <1>2 DEF ReqRecord
  <1>5. run.pc \in {"head", "publishing", "retain"} /\ outcome = None
    BY <1>0, <1>1 DEF IInv, CycleInv, RunInv, OutcomeInv
  <1>6. RetainsFirst(todo, 1) /\ PublishesLast(todo, 1)
    BY <1>0, <1>2 DEF IInv, CycleInv, TodoInv
  <1>7. c.op = "publish" =>
           /\ c.provider = Device /\ c.root \in Root
           /\ c.object[1] \in RootKind /\ c.object[2] = attempts /\ attempts > 0
           /\ \A x \in Leads(contents, c.object) : Stored(x)
    BY <1>2, <1>6 DEF PublishesLast
  <1>8. c.op = "retain" /\ c.object[1] \in RootKind =>
           /\ c.object[2] \in 1..attempts
           /\ \A x \in Leads(contents, c.object) :
                 x = c.object \/ <<c.provider, x>> \in retained
    BY <1>2, <1>6 DEF RetainsFirst
  <1> HIDE DEF c
  <1>9. /\ StoreType'
        /\ objects \subseteq objects' /\ lost' = lost
        /\ c.op \in {"put", "retain"} => <<c.provider, c.object>> \in objects'
        /\ retained' = IF c.op = "retain" THEN retained \cup {<<c.provider, c.object>>}
                       ELSE retained
        /\ c.op # "publish" => roots' = roots
        /\ c.op = "publish" =>
              /\ "mutable_roots" \in Roles[c.provider]
              /\ roots' = [roots EXCEPT ![<<c.root, c.provider>>] =
                             [object |-> c.object, sequence |-> nextRootSequence + 1]]
    BY <1>1, <1>2, <1>7, PerformEffect DEF IInv, StoreInv
  <1>10. /\ \A o : Stored(o) => Stored(o)'
         /\ \A k : k \in retained => k \in retained'
    BY <1>9 DEF Stored
  (* The roots of the device that the step leaves, and the one it makes. *)
  <1>11. /\ Device \in Provider /\ SettingsRoot \in Root
         /\ roots \in [Root \X Provider -> [object : Object, sequence : Nat] \cup {None}]
         /\ nextRootSequence \in Nat
    BY CycleAssumption DEF IInv, StoreInv, StoreType
  <1>12. [object |-> c.object, sequence |-> nextRootSequence + 1] # None
    BY <1>4, <1>11, LimitAssumption
  <1>13. \A r \in Root, p \in Provider :
            IF c.op = "publish" /\ r = c.root /\ p = Device
            THEN roots'[<<r, p>>] = [object |-> c.object, sequence |-> nextRootSequence + 1]
            ELSE roots'[<<r, p>>] = roots[<<r, p>>]
    BY <1>7, <1>9, <1>11
  <1>14. DeviceType'
    BY <1>1, <1>3 DEF IInv, DeviceType
  <1>15. ContentsInv' /\ IdsInv'
    BY <1>1, <1>3 DEF IInv, StoreInv, ContentsInv, CycleInv, IdsInv
  <1>16. RootsInv'
    <2> SUFFICES ASSUME NEW r \in Root, NEW p \in Provider, roots'[<<r, p>>] # None
                 PROVE  /\ p = Device /\ "mutable_roots" \in Roles[Device]
                        /\ RootOf(r)'[1] \in RootKind /\ RootOf(r)'[2] \in 1..attempts
                        /\ \A x \in Leads(contents, RootOf(r)') : Stored(x)'
      BY <1>1 DEF RootsInv, Leads
    <2>1. CASE c.op = "publish" /\ r = c.root /\ p = Device
      <3>1. RootOf(r)' = c.object
        BY <1>11, <1>13, <2>1 DEF RootOf
      <3> QED BY <1>1, <1>7, <1>9, <1>10, <2>1, <3>1
    <2>2. CASE ~(c.op = "publish" /\ r = c.root /\ p = Device)
      <3>1. roots'[<<r, p>>] = roots[<<r, p>>]
        BY <1>13, <2>2
      <3>2. /\ p = Device /\ "mutable_roots" \in Roles[Device]
            /\ RootOf(r)[1] \in RootKind /\ RootOf(r)[2] \in 1..attempts
            /\ \A x \in Leads(contents, RootOf(r)) : Stored(x)
        BY <3>1 DEF IInv, StoreInv, RootsInv
      <3>3. RootOf(r)' = RootOf(r)
        BY <3>1, <3>2 DEF RootOf
      <3> QED BY <1>10, <3>2, <3>3
    <2> QED BY <2>1, <2>2
  <1>17. ClaimsInv'
    <2> SUFFICES ASSUME NEW q \in Provider, NEW o \in Object, <<q, o>> \in retained',
                        o[1] \in RootKind
                 PROVE  /\ o[2] \in 1..attempts
                        /\ \A x \in Leads(contents, o) : <<q, x>> \in retained'
      BY <1>1 DEF ClaimsInv, Leads
    <2>1. CASE <<q, o>> \in retained
      BY <1>10, <2>1 DEF IInv, StoreInv, ClaimsInv
    <2>2. CASE <<q, o>> \notin retained
      <3>1. c.op = "retain" /\ q = c.provider /\ o = c.object
        BY <1>9, <2>2
      <3> QED BY <1>8, <1>9, <3>1
    <2> QED BY <2>1, <2>2
  <1>18. \A k \in Nat : Covered(k) => Covered(k)'
    <2>1. \A r \in Root : \/ roots'[<<r, Device>>] = roots[<<r, Device>>]
                          \/ /\ roots'[<<r, Device>>] # None
                             /\ roots'[<<r, Device>>].object[2] = attempts
      BY <1>7, <1>11, <1>12, <1>13
    <2> QED BY <1>1, <2>1, CoveredGrows DEF IInv, StoreInv
  <1>19. RecordInv'
    BY <1>1, <1>18 DEF IInv, StoreInv, RecordInv, DeviceType, DbRecord
  <1>20. RunInv' /\ OutcomeInv' /\ ScanInv'
    BY <1>0, <1>1, <1>3, <1>5, <1>18 DEF IInv, CycleInv, RunInv, OutcomeInv, RunRecord, ScanInv
  <1>21. PublishingInv'
    <2> SUFFICES ASSUME run.pc = "publishing"
                 PROVE  \/ Published(SettingsRoot)' /\ RootOf(SettingsRoot)'[2] = attempts
                        \/ \E i \in 1..Len(Tail(todo)) : /\ Tail(todo)[i].op = "publish"
                                                         /\ Tail(todo)[i].root = SettingsRoot
      BY <1>1, <1>3 DEF IInv, CycleInv, PublishingInv
    <2>1. CASE Published(SettingsRoot) /\ RootOf(SettingsRoot)[2] = attempts
      BY <1>7, <1>11, <1>12, <1>13, <2>1 DEF Published, RootOf
    <2>2. ASSUME NEW i \in 1..Len(todo), todo[i].op = "publish", todo[i].root = SettingsRoot
          PROVE  \/ Published(SettingsRoot)' /\ RootOf(SettingsRoot)'[2] = attempts
                 \/ \E j \in 1..Len(Tail(todo)) : /\ Tail(todo)[j].op = "publish"
                                                  /\ Tail(todo)[j].root = SettingsRoot
      <3>1. CASE i = 1
        BY <1>2, <1>7, <1>11, <1>12, <1>13, <2>2, <3>1 DEF Published, RootOf
      <3>2. CASE i # 1
        <4>1. i - 1 \in 1..Len(todo) - 1 /\ (i - 1) + 1 = i
          BY <1>2, <3>2
        <4>2. i - 1 \in 1..Len(Tail(todo)) /\ Tail(todo)[i - 1] = todo[i]
          BY <1>2, <4>1
        <4> QED BY <2>2, <4>2
      <3> QED BY <3>1, <3>2
    <2> QED BY <1>0, <2>1, <2>2 DEF IInv, CycleInv, PublishingInv
  <1>22. TodoInv'
    <2> SUFFICES ASSUME NEW i \in 1..Len(todo) - 1
                 PROVE  RetainsFirst(Tail(todo), i)' /\ PublishesLast(Tail(todo), i)'
      BY <1>2, <1>3 DEF TodoInv, RetainsFirst, PublishesLast
    <2>1. i + 1 \in 1..Len(todo) /\ i \in Nat
      BY <1>2
    <2>2. RetainsFirst(todo, i + 1) /\ PublishesLast(todo, i + 1)
      BY <1>0, <2>1 DEF IInv, CycleInv, TodoInv
    <2>3. Tail(todo)[i] = todo[i + 1]
      BY <1>2
    <2>4. ASSUME NEW ops, NEW p, NEW x,
                 \E j \in 1..(i + 1) - 1 : Asks(todo[j], ops, p, x)
          PROVE  Asks(c, ops, p, x) \/ \E j \in 1..i - 1 : Asks(Tail(todo)[j], ops, p, x)
      <3>1. PICK j \in 1..(i + 1) - 1 : Asks(todo[j], ops, p, x)
        BY <2>4
      <3>2. CASE j = 1
        BY <1>2, <3>1, <3>2
      <3>3. CASE j # 1
        <4>1. j - 1 \in 1..i - 1 /\ j - 1 \in 1..Len(todo) - 1 /\ (j - 1) + 1 = j
          BY <1>2, <2>1, <3>1, <3>3
        <4>2. Tail(todo)[j - 1] = todo[j]
          BY <1>2, <4>1
        <4> QED BY <3>1, <4>1, <4>2
      <3> QED BY <3>2, <3>3
    <2> DEFINE d == todo[i + 1]
    <2>5. RetainsFirst(Tail(todo), i)'
      <3> SUFFICES ASSUME d.op = "retain", d.object[1] \in RootKind
                   PROVE  /\ d.object[2] \in 1..attempts
                          /\ \A x \in Leads(contents, d.object) :
                                \/ x = d.object \/ <<d.provider, x>> \in retained'
                                \/ \E j \in 1..i - 1 :
                                      Asks(Tail(todo)[j], {"retain"}, d.provider, x)
        BY <1>1, <2>3 DEF RetainsFirst
      <3>1. /\ d.object[2] \in 1..attempts
            /\ \A x \in Leads(contents, d.object) :
                  \/ x = d.object \/ <<d.provider, x>> \in retained
                  \/ \E j \in 1..(i + 1) - 1 : Asks(todo[j], {"retain"}, d.provider, x)
        BY <2>2 DEF RetainsFirst
      <3>2. \A x : Asks(c, {"retain"}, d.provider, x) => <<d.provider, x>> \in retained'
        BY <1>9 DEF Asks
      <3> QED BY <1>10, <2>4, <3>1, <3>2
    <2>6. PublishesLast(Tail(todo), i)'
      <3> SUFFICES ASSUME d.op = "publish"
                   PROVE  /\ d.provider = Device /\ d.root \in Root
                          /\ d.object[1] \in RootKind /\ d.object[2] = attempts /\ attempts > 0
                          /\ \A x \in Leads(contents, d.object) :
                                \/ Stored(x)'
                                \/ \E j \in 1..i - 1 :
                                      Asks(Tail(todo)[j], {"put", "retain"}, Device, x)
        BY <1>1, <2>3 DEF PublishesLast
      <3>1. /\ d.provider = Device /\ d.root \in Root
            /\ d.object[1] \in RootKind /\ d.object[2] = attempts /\ attempts > 0
            /\ \A x \in Leads(contents, d.object) :
                  \/ Stored(x)
                  \/ \E j \in 1..(i + 1) - 1 : Asks(todo[j], {"put", "retain"}, Device, x)
        BY <2>2 DEF PublishesLast
      <3>2. \A x : Asks(c, {"put", "retain"}, Device, x) => Stored(x)'
        BY <1>9 DEF Asks, Stored
      <3> QED BY <1>10, <2>4, <3>1, <3>2
    <2> QED BY <2>5, <2>6
  <1> QED BY <1>9, <1>14, <1>15, <1>16, <1>17, <1>19, <1>20, <1>21, <1>22
          DEF IInv, StoreInv, CycleInv

-----------------------------------------------------------------------------
(* The requests of a publication n that refers to refs. *)

Retains(s, x) == \E j \in 1..Len(s) : Asks(s[j], {"retain"}, Device, x)

Publishes(s, r) == \E i \in 1..Len(s) : s[i].op = "publish" /\ s[i].root = r

Needed(n, refs) == {Manifest(n)} \cup Range(refs)

(* What c needs has been retained by the requests of s up to the k-th. *)
Prepared(c, s, k, n, refs) ==
    /\ c.provider = Device
    /\ c.op \in {"retain", "publish"} /\ c.object[1] \in RootKind =>
          /\ c.object[2] = n
          /\ \A x \in Needed(n, refs) :
                x = c.object \/ \E j \in 1..k : Asks(s[j], {"retain"}, Device, x)
    /\ c.op = "publish" =>
          /\ c.root \in Root /\ c.object[1] \in RootKind
          /\ \E j \in 1..k : Asks(s[j], {"retain"}, Device, c.object)

InOrder(s, n, refs) == \A i \in 1..Len(s) : Prepared(s[i], s, i - 1, n, refs)

(* Requests at the end leave the order of those before them as it is. *)
LEMMA PreparedLater ==
    ASSUME NEW s \in Seq(ReqRecord), NEW u \in Seq(ReqRecord), NEW c, NEW n, NEW refs,
           Len(s) <= Len(u), \A i \in 1..Len(s) : u[i] = s[i],
           NEW k \in 0..Len(s), NEW l \in 0..Len(u), k <= l, Prepared(c, s, k, n, refs)
    PROVE  Prepared(c, u, l, n, refs)
  <1>1. \A x : (\E j \in 1..k : Asks(s[j], {"retain"}, Device, x))
                  => \E j \in 1..l : Asks(u[j], {"retain"}, Device, x)
    <2> SUFFICES ASSUME NEW x, NEW j \in 1..k, Asks(s[j], {"retain"}, Device, x)
                 PROVE  \E i \in 1..l : Asks(u[i], {"retain"}, Device, x)
      OBVIOUS
    <2>1. j \in 1..l /\ j \in 1..Len(s)
      OBVIOUS
    <2> QED BY <2>1
  <1> QED BY <1>1 DEF Prepared

LEMMA AppendOrder ==
    ASSUME NEW s \in Seq(ReqRecord), NEW n, NEW refs, InOrder(s, n, refs),
           NEW c \in ReqRecord, Prepared(c, s, Len(s), n, refs)
    PROVE  /\ Append(s, c) \in Seq(ReqRecord)
           /\ InOrder(Append(s, c), n, refs)
           /\ \A x : Retains(s, x) \/ (c.op = "retain" /\ x = c.object)
                        => Retains(Append(s, c), x)
           /\ \A r : Publishes(s, r) \/ (c.op = "publish" /\ r = c.root)
                        => Publishes(Append(s, c), r)
  <1> DEFINE u == Append(s, c)
  <1>1. /\ u \in Seq(ReqRecord) /\ Len(u) = Len(s) + 1 /\ Len(s) \in Nat
        /\ \A i \in 1..Len(s) : u[i] = s[i]
        /\ u[Len(s) + 1] = c
    OBVIOUS
  <1> HIDE DEF u
  <1>2. c.provider = Device
    BY DEF Prepared
  <1>3. InOrder(u, n, refs)
    <2> SUFFICES ASSUME NEW i \in 1..Len(u) PROVE Prepared(u[i], u, i - 1, n, refs)
      BY DEF InOrder
    <2>1. CASE i \in 1..Len(s)
      <3>1. Prepared(s[i], s, i - 1, n, refs) /\ i - 1 \in 0..Len(s) /\ i - 1 \in 0..Len(u)
        BY <1>1, <2>1 DEF InOrder
      <3>2. Prepared(s[i], u, i - 1, n, refs)
        BY <1>1, <3>1, PreparedLater
      <3> QED BY <1>1, <2>1, <3>2
    <2>2. CASE i = Len(s) + 1
      <3>1. Prepared(c, u, Len(s), n, refs)
        BY <1>1, PreparedLater
      <3> QED BY <1>1, <2>2, <3>1
    <2> QED BY <1>1, <2>1, <2>2
  <1>4. 1..Len(s) \subseteq 1..Len(u) /\ Len(s) + 1 \in 1..Len(u)
    BY <1>1
  <1>5. \A x : Retains(s, x) \/ (c.op = "retain" /\ x = c.object) => Retains(u, x)
    BY <1>1, <1>2, <1>4 DEF Retains, Asks
  <1>6. \A r : Publishes(s, r) \/ (c.op = "publish" /\ r = c.root) => Publishes(u, r)
    BY <1>1, <1>4 DEF Publishes
  <1> QED BY <1>1, <1>3, <1>5, <1>6 DEF u

LEMMA PutRetainedOrder ==
    ASSUME NEW s \in Seq(ReqRecord), NEW n, NEW refs, InOrder(s, n, refs), NEW o \in Object,
           o[1] \in RootKind =>
              o[2] = n /\ \A x \in Needed(n, refs) : x = o \/ Retains(s, x)
    PROVE  /\ s \o PutRetained(o) \in Seq(ReqRecord)
           /\ InOrder(s \o PutRetained(o), n, refs)
           /\ \A x : Retains(s, x) \/ x = o => Retains(s \o PutRetained(o), x)
           /\ \A r : Publishes(s, r) => Publishes(s \o PutRetained(o), r)
  <1> DEFINE a == Req("put", Device, o)
             b == Req("retain", Device, o)
             t == Append(s, a)
  <1>1. /\ a \in ReqRecord /\ b \in ReqRecord /\ Device \in Provider
        /\ a.op = "put" /\ b.op = "retain" /\ a.provider = Device /\ b.provider = Device
        /\ b.object = o
    BY CycleAssumption DEF Req, ReqRecord
  <1>2. s \o PutRetained(o) = Append(t, b)
    BY <1>1 DEF PutRetained
  <1>3. Prepared(a, s, Len(s), n, refs)
    BY <1>1 DEF Prepared
  <1> HIDE DEF a, b
  <1>4. /\ t \in Seq(ReqRecord) /\ InOrder(t, n, refs)
        /\ \A x : Retains(s, x) => Retains(t, x)
        /\ \A r : Publishes(s, r) => Publishes(t, r)
    BY <1>1, <1>3, AppendOrder
  <1> HIDE DEF t
  <1>5. Prepared(b, t, Len(t), n, refs)
    BY <1>1, <1>4 DEF Prepared, Retains
  <1> QED BY <1>1, <1>2, <1>4, <1>5, AppendOrder

LEMMA PutRetainedRootOrder ==
    ASSUME NEW s \in Seq(ReqRecord), NEW n, NEW refs, InOrder(s, n, refs), NEW o \in Object,
           NEW r \in Root, o[1] \in RootKind,
           o[2] = n, \A x \in Needed(n, refs) : x = o \/ Retains(s, x)
    PROVE  /\ s \o PutRetainedRoot(r, o) \in Seq(ReqRecord)
           /\ InOrder(s \o PutRetainedRoot(r, o), n, refs)
           /\ \A x : Retains(s, x) \/ x = o => Retains(s \o PutRetainedRoot(r, o), x)
           /\ \A q : Publishes(s, q) \/ q = r => Publishes(s \o PutRetainedRoot(r, o), q)
  <1> DEFINE c == [op |-> "publish", provider |-> Device, object |-> o, root |-> r]
             t == s \o PutRetained(o)
  <1>1. c \in ReqRecord /\ c.op = "publish" /\ c.provider = Device /\ c.object = o /\ c.root = r
    BY CycleAssumption DEF ReqRecord
  <1>2. PutRetained(o) \in Seq(ReqRecord)
    BY CycleAssumption DEF PutRetained, Req, ReqRecord
  <1>3. s \o PutRetainedRoot(r, o) = Append(t, c)
    BY <1>1, <1>2 DEF PutRetainedRoot
  <1>4. /\ t \in Seq(ReqRecord) /\ InOrder(t, n, refs)
        /\ \A x : Retains(s, x) \/ x = o => Retains(t, x)
        /\ \A q : Publishes(s, q) => Publishes(t, q)
    BY PutRetainedOrder
  <1> HIDE DEF c, t
  <1>5. Prepared(c, t, Len(t), n, refs)
    BY <1>1, <1>4 DEF Prepared, Retains
  <1> QED BY <1>1, <1>3, <1>4, <1>5, AppendOrder

(* An object that comes after what it leads to can be handed on next. *)
LEMMA PushOrdered ==
    ASSUME NEW ids \in Seq(Object), NEW N, NEW C, Ordered(ids, N, C), NEW o \in Object,
           o[1] \in RootKind =>
              o[2] \in 1..N /\ \A x \in Leads(C, o) : x = o \/ x \in Range(ids)
    PROVE  /\ PushUnique(ids, o) \in Seq(Object)
           /\ Ordered(PushUnique(ids, o), N, C)
           /\ Range(ids) \cup {o} \subseteq Range(PushUnique(ids, o))
  <1>1. CASE o \in Range(ids)
    BY <1>1 DEF PushUnique
  <1>2. CASE o \notin Range(ids)
    <2> DEFINE u == Append(ids, o)
    <2>1. /\ u \in Seq(Object) /\ Len(u) = Len(ids) + 1 /\ Len(ids) \in Nat
          /\ DOMAIN ids = 1..Len(ids) /\ DOMAIN u = 1..Len(u)
          /\ \A i \in 1..Len(ids) : u[i] = ids[i]
          /\ u[Len(ids) + 1] = o
      OBVIOUS
    <2> HIDE DEF u
    <2>2. Range(ids) \cup {o} \subseteq Range(u)
      BY <2>1 DEF Range
    <2>3. ASSUME NEW i \in 1..Len(u), u[i][1] \in RootKind
          PROVE  /\ u[i][2] \in 1..N
                 /\ \A x \in Leads(C, u[i]) : x = u[i] \/ \E j \in 1..i - 1 : u[j] = x
      <3>1. CASE i \in 1..Len(ids)
        <4>1. /\ ids[i][2] \in 1..N
              /\ \A x \in Leads(C, ids[i]) : x = ids[i] \/ \E j \in 1..i - 1 : ids[j] = x
          BY <2>1, <2>3, <3>1 DEF Ordered
        <4>2. u[i] = ids[i] /\ \A j \in 1..i - 1 : u[j] = ids[j]
          BY <2>1, <3>1
        <4> QED BY <4>1, <4>2
      <3>2. CASE i = Len(ids) + 1
        <4>1. u[i] = o /\ \A x \in Range(ids) : \E j \in 1..i - 1 : u[j] = x
          BY <2>1, <3>2 DEF Range
        <4> QED BY <2>3, <4>1
      <3> QED BY <2>1, <3>1, <3>2
    <2>4. Ordered(u, N, C)
      BY <2>3 DEF Ordered
    <2> QED BY <1>2, <2>1, <2>2, <2>4 DEF PushUnique, u
  <1> QED BY <1>1, <1>2

(* What was ordered stays so when a publication is begun. *)
LEMMA BegunOrdered ==
    ASSUME DeviceType, NEW e, NEW ids \in Seq(Object), Ordered(ids, attempts, contents)
    PROVE  Ordered(ids, attempts + 1, Append(contents, e))
  <1>1. attempts \in Nat /\ contents \in Seq(Contents) /\ Len(contents) = attempts
    BY CycleAssumption DEF DeviceType
  <1>2. \A k \in 1..attempts : Append(contents, e)[k] = contents[k] /\ k \in 1..attempts + 1
    BY <1>1
  <1> QED BY <1>2 DEF Ordered, Leads

(* What is known when a publication is begun. *)
LEMMA BeginsTyped ==
    ASSUME IInv, attempts < MaxAttempts
    PROVE  /\ attempts + 1 \in 1..MaxAttempts /\ edits \in Nat /\ run.ids \in Seq(Object)
           /\ DeviceType /\ contents \in Seq(Contents) /\ Len(contents) = attempts
           /\ Ordered(run.ids, attempts, contents) /\ db \in DbRecord
  <1>1. DeviceType /\ run \in RunRecord /\ db \in DbRecord /\ contents \in Seq(Contents)
    BY DEF IInv, DeviceType
  <1>2. run.ids \in Seq(Object)
    BY <1>1 DEF RunRecord
  <1>3. edits \in Nat /\ Len(contents) = attempts /\ attempts + 1 \in 1..MaxAttempts
    BY CycleAssumption DEF IInv, DeviceType
  <1>4. Ordered(run.ids, attempts, contents)
    BY DEF IInv, CycleInv, IdsInv
  <1> QED BY <1>1, <1>2, <1>3, <1>4

(* A publication is begun. *)
LEMMA PublishKeepsIInv ==
    ASSUME IInv, NEW requests \in Seq(ReqRecord), NEW ids \in Seq(Object),
           NEW e \in Contents, NEW next \in DbRecord,
           run.pc # "idle", Publish(requests, ids, e, next), UNCHANGED serviceVars,
           InOrder(requests, attempts + 1, e.refs), Publishes(requests, SettingsRoot),
           Ordered(ids, attempts + 1, Append(contents, e)),
           e.covers <= edits, \A k \in 1..attempts : contents[k].covers <= e.covers,
           next.snapshot \in Object, next.snapshot[1] = "snapshot",
           next.covers <= e.covers, next.sequence <= e.covers
    PROVE  IInv'
  <1>0. PICK refs : refs = e.refs
    OBVIOUS
  <1> DEFINE n == attempts + 1
  <1>1. /\ attempts \in Nat /\ MaxAttempts \in Nat /\ attempts < MaxAttempts
        /\ edits \in Nat /\ contents \in Seq(Contents) /\ Len(contents) = attempts
        /\ run \in RunRecord /\ db \in DbRecord /\ edits <= MaxEdits
    BY CycleAssumption DEF IInv, DeviceType, Publish
  <1>2. /\ attempts' = n /\ contents' = Append(contents, e)
        /\ run' = [run EXCEPT !.pc = "publishing", !.todo = requests, !.next = next, !.ids = ids,
                              !.read = {}, !.before = 0]
        /\ UNCHANGED <<edits, db, outcome>>
        /\ UNCHANGED <<objects, retained, roots, nextRootSequence, lost>>
    BY DEF Publish, serviceVars, storeVars, faultVars
  <1>3. /\ run' \in RunRecord /\ run'.pc = "publishing" /\ run'.todo = requests
        /\ run'.next = next /\ run'.ids = ids /\ run'.since = run.since
    BY <1>1, <1>2 DEF RunRecord, Pc
  <1>4. /\ e.refs = refs /\ e.covers \in Nat
        /\ contents' \in Seq(Contents) /\ Len(contents') = n
        /\ \A k \in 1..attempts : contents'[k] = contents[k]
        /\ contents'[n] = e
        /\ n \in 0..MaxAttempts /\ n > 0 /\ n \in 1..n
        /\ \A k \in 1..n : k \in 1..attempts \/ k = n
        /\ \A k \in 1..attempts : k \in 1..n /\ k < n
    <2>1. e.refs = refs /\ e.covers \in Nat
      BY <1>0 DEF Contents
    <2>2. /\ contents' \in Seq(Contents) /\ Len(contents') = n
          /\ \A k \in 1..attempts : contents'[k] = contents[k]
          /\ contents'[n] = e
      BY <1>1, <1>2
    <2>3. /\ n \in 0..MaxAttempts /\ n > 0 /\ n \in 1..n
          /\ \A k \in 1..n : k \in 1..attempts \/ k = n
          /\ \A k \in 1..attempts : k \in 1..n /\ k < n
      BY <1>1
    <2> QED BY <2>1, <2>2, <2>3
  <1> HIDE DEF n
  <1>5. DeviceType'
    BY <1>1, <1>2, <1>3, <1>4 DEF DeviceType
  <1>6. \A o : o[2] \in 1..attempts => Leads(contents', o) = Leads(contents, o)
    BY <1>4 DEF Leads
  <1>7. ContentsInv'
    <2>1. \A k \in 1..attempts : contents[k].covers <= edits
      BY DEF IInv, StoreInv, ContentsInv
    <2>2. \A m, k \in 1..attempts : m <= k => contents[m].covers <= contents[k].covers
      BY DEF IInv, StoreInv, ContentsInv
    <2>3. ASSUME NEW k \in 1..n PROVE contents'[k].covers <= edits
      <3>1. CASE k = n
        BY <1>4, <3>1
      <3>2. CASE k \in 1..attempts
        BY <1>4, <2>1, <3>2
      <3> QED BY <1>4, <3>1, <3>2
    <2>4. ASSUME NEW m \in 1..n, NEW k \in 1..n, m <= k
          PROVE  contents'[m].covers <= contents'[k].covers
      <3>1. CASE k = n
        <4>1. CASE m = n
          BY <1>4, <3>1, <4>1
        <4>2. CASE m \in 1..attempts
          BY <1>4, <3>1, <4>2
        <4> QED BY <1>4, <4>1, <4>2
      <3>2. CASE k \in 1..attempts
        <4>1. m \in 1..attempts
          BY <1>1, <2>4, <3>2
        <4> QED BY <1>4, <2>2, <2>4, <3>2, <4>1
      <3> QED BY <1>4, <3>1, <3>2
    <2> QED BY <1>2, <2>3, <2>4 DEF ContentsInv
  <1>8. RootsInv'
    <2> SUFFICES ASSUME NEW r \in Root, NEW p \in Provider, roots[<<r, p>>] # None
                 PROVE  /\ p = Device /\ "mutable_roots" \in Roles[Device]
                        /\ RootOf(r)[1] \in RootKind /\ RootOf(r)[2] \in 1..n
                        /\ \A x \in Leads(contents', RootOf(r)) : Stored(x)
      BY <1>2 DEF RootsInv, RootOf, Stored
    <2> QED BY <1>4, <1>6 DEF IInv, StoreInv, RootsInv
  <1>9. ClaimsInv'
    BY <1>2, <1>4, <1>6 DEF IInv, StoreInv, ClaimsInv
  <1>10. StoreType'
    BY <1>2 DEF IInv, StoreInv, StoreType
  <1>11. ASSUME NEW k, Covered(k) PROVE Covered(k)'
    <2> SUFFICES ASSUME k > 0 PROVE \E r \in Root : Published(r) /\ contents'[RootOf(r)[2]].covers >= k
      BY <1>2 DEF Covered, Published, RootOf
    <2>1. PICK r \in Root : Published(r) /\ contents[RootOf(r)[2]].covers >= k
      BY <1>11 DEF Covered
    <2>2. RootOf(r)[2] \in 1..attempts
      BY <2>1, CycleAssumption DEF IInv, StoreInv, RootsInv, Published
    <2> QED BY <1>4, <2>1, <2>2
  <1>12. RecordInv'
    BY <1>2, <1>11 DEF IInv, StoreInv, RecordInv
  <1>13. IdsInv'
    BY <1>2, <1>3 DEF IdsInv, n
  <1>14. PublishingInv'
    BY <1>2, <1>3, <1>4, LimitAssumption DEF PublishingInv, Publishes
  <1>15. RunInv' /\ OutcomeInv' /\ ScanInv'
    BY <1>2, <1>3 DEF IInv, CycleInv, RunInv, OutcomeInv, ScanInv
  <1>16. TodoInv'
    <2> SUFFICES ASSUME NEW i \in 1..Len(requests)
                 PROVE  RetainsFirst(requests, i)' /\ PublishesLast(requests, i)'
      BY <1>3 DEF TodoInv
    <2>1. Prepared(requests[i], requests, i - 1, n, refs)
      BY <1>0 DEF InOrder, n
    <2>2. ASSUME requests[i].object[2] = n
          PROVE  Leads(contents', requests[i].object) = {requests[i].object} \cup Needed(n, refs)
      BY <1>4, <2>2 DEF Leads, Needed
    <2>3. RetainsFirst(requests, i)'
      <3> SUFFICES ASSUME requests[i].op = "retain", requests[i].object[1] \in RootKind
                   PROVE  /\ requests[i].object[2] \in 1..n
                          /\ \A x \in Leads(contents', requests[i].object) :
                                \/ x = requests[i].object
                                \/ \E j \in 1..i - 1 :
                                      Asks(requests[j], {"retain"}, requests[i].provider, x)
        BY <1>2 DEF RetainsFirst
      <3> QED BY <1>4, <2>1, <2>2 DEF Prepared
    <2>4. PublishesLast(requests, i)'
      <3> SUFFICES ASSUME requests[i].op = "publish"
                   PROVE  /\ requests[i].provider = Device /\ requests[i].root \in Root
                          /\ requests[i].object[1] \in RootKind
                          /\ requests[i].object[2] = n /\ n > 0
                          /\ \A x \in Leads(contents', requests[i].object) :
                                \E j \in 1..i - 1 :
                                   Asks(requests[j], {"put", "retain"}, Device, x)
        BY <1>2 DEF PublishesLast
      <3> QED BY <1>4, <2>1, <2>2 DEF Prepared, Asks
    <2> QED BY <2>3, <2>4
  <1> QED BY <1>5, <1>7, <1>8, <1>9, <1>10, <1>12, <1>13, <1>14, <1>15, <1>16
          DEF IInv, StoreInv, CycleInv

LEMMA FirstRequests ==
    ASSUME NEW n, NEW refs, NEW o \in Object, o[1] \notin RootKind
    PROVE  /\ PutRetained(o) \in Seq(ReqRecord)
           /\ InOrder(PutRetained(o), n, refs) /\ Retains(PutRetained(o), o)
           /\ <<Req("retain", Device, o)>> \in Seq(ReqRecord)
           /\ InOrder(<<Req("retain", Device, o)>>, n, refs)
           /\ Retains(<<Req("retain", Device, o)>>, o)
  <1> DEFINE a == Req("put", Device, o)
             b == Req("retain", Device, o)
  <1>1. /\ a \in ReqRecord /\ b \in ReqRecord
        /\ a.op = "put" /\ b.op = "retain" /\ a.provider = Device /\ b.provider = Device
        /\ b.object = o
    BY CycleAssumption DEF Req, ReqRecord
  <1>2. PutRetained(o) = <<a, b>>
    BY DEF PutRetained
  <1> HIDE DEF a, b
  <1>3. <<a, b>> \in Seq(ReqRecord) /\ InOrder(<<a, b>>, n, refs) /\ Retains(<<a, b>>, o)
    BY <1>1 DEF InOrder, Prepared, Retains, Asks
  <1>4. <<b>> \in Seq(ReqRecord) /\ InOrder(<<b>>, n, refs) /\ Retains(<<b>>, o)
    BY <1>1 DEF InOrder, Prepared, Retains, Asks
  <1> QED BY <1>2, <1>3, <1>4 DEF b

(* The objects of publication n. *)
LEMMA ObjectsOf ==
    ASSUME NEW n \in 1..MaxAttempts
    PROVE  /\ {Manifest(n), <<"head", n>>, <<"snapshot", n>>, <<"tails", n>>} \subseteq Object
           /\ Manifest(n)[1] \in RootKind /\ Manifest(n)[2] = n
           /\ <<"head", n>>[1] \in RootKind /\ <<"head", n>>[2] = n
           /\ <<"snapshot", n>>[1] = "snapshot" /\ <<"tails", n>>[1] = "tails"
           /\ "snapshot" \notin RootKind /\ "tails" \notin RootKind
  BY CycleAssumption DEF Manifest, RootKind

LEMMA SettingsThenHeadOrder ==
    ASSUME NEW n \in 1..MaxAttempts, NEW s \in Seq(ReqRecord), NEW refs, InOrder(s, n, refs),
           \A x \in Range(refs) : Retains(s, x)
    PROVE  /\ SettingsThenHead(s, n) \in Seq(ReqRecord)
           /\ InOrder(SettingsThenHead(s, n), n, refs)
           /\ Publishes(SettingsThenHead(s, n), SettingsRoot)
  <1> DEFINE t == s \o PutRetainedRoot(SettingsRoot, Manifest(n))
  <1>1. SettingsRoot \in Root /\ HeadRoot \in Root
    BY CycleAssumption
  <1>2. /\ t \in Seq(ReqRecord) /\ InOrder(t, n, refs)
        /\ \A x \in Needed(n, refs) : Retains(t, x)
        /\ Publishes(t, SettingsRoot)
    <2>1. /\ Manifest(n) \in Object /\ Manifest(n)[1] \in RootKind /\ Manifest(n)[2] = n
          /\ \A x \in Needed(n, refs) : x = Manifest(n) \/ Retains(s, x)
      BY ObjectsOf DEF Needed
    <2> QED BY <1>1, <2>1, PutRetainedRootOrder
  <1> HIDE DEF t
  <1>3. LET u == t \o PutRetainedRoot(HeadRoot, <<"head", n>>)
        IN u \in Seq(ReqRecord) /\ InOrder(u, n, refs) /\ Publishes(u, SettingsRoot)
    BY <1>1, <1>2, ObjectsOf, PutRetainedRootOrder
  <1> QED BY <1>3 DEF SettingsThenHead, t

LEMMA PublishedIdsOrdered ==
    ASSUME NEW n \in 1..MaxAttempts, NEW ids \in Seq(Object), NEW C, Ordered(ids, n, C),
           \A x \in Range(C[n].refs) : x \in Range(ids)
    PROVE  /\ PushUnique(ids, Manifest(n)) \in Seq(Object)
           /\ Ordered(PushUnique(ids, Manifest(n)), n, C)
           /\ PublishedObjectIds(ids, n) \in Seq(Object)
           /\ Ordered(PublishedObjectIds(ids, n), n, C)
  <1> DEFINE t == PushUnique(ids, Manifest(n))
  <1>0. n \in 1..n
    BY CycleAssumption
  <1>1. /\ \A x \in Leads(C, Manifest(n)) : x = Manifest(n) \/ x \in Range(ids)
        /\ \A x \in Leads(C, <<"head", n>>) :
              x = <<"head", n>> \/ x = Manifest(n) \/ x \in Range(ids)
    BY ObjectsOf DEF Leads
  <1>2. /\ t \in Seq(Object) /\ Ordered(t, n, C)
        /\ Range(ids) \cup {Manifest(n)} \subseteq Range(t)
    <2>1. Manifest(n) \in Object /\ Manifest(n)[2] = n
      BY ObjectsOf
    <2> QED BY <1>0, <1>1, <2>1, PushOrdered
  <1> HIDE DEF t
  <1>3. /\ PushUnique(t, <<"head", n>>) \in Seq(Object)
        /\ Ordered(PushUnique(t, <<"head", n>>), n, C)
    BY <1>0, <1>1, <1>2, ObjectsOf, PushOrdered
  <1> QED BY <1>2, <1>3 DEF PublishedObjectIds, t

(* The domains of changes are ranks. *)
LEMMA DomainsTyped ==
    /\ \A A : A \subseteq 1..MaxEdits => Domains(A) \subseteq Nat
    /\ \A D, c : InDomains(D, c) \subseteq 1..c
    /\ \A c \in Nat : 1..c \subseteq Nat
  BY CycleAssumption DEF Domains, InDomains

(* When all domains are read, the last change that was read is beyond all  *)
(* that was there at the beginning and all that was published.             *)
LEMMA ScanEnds ==
    ASSUME IInv, run.pc = "scan", run.left = {}, NEW last \in run.read,
           \A i \in run.read : i <= last
    PROVE  /\ last \in Nat /\ last <= edits /\ db.covers < last
           /\ run.before \in Nat /\ run.before <= last
           /\ \A k \in 1..attempts : contents[k].covers <= last
           /\ run.read \subseteq 1..MaxEdits
           /\ \A i \in db.covers + 1 .. run.before : i \in run.read
  <1>1. /\ db.covers \in Nat /\ run.before \in Nat /\ edits \in Nat /\ edits <= MaxEdits
        /\ MaxEdits \in Nat
    BY CycleAssumption DEF IInv, DeviceType, DbRecord, RunRecord
  <1>2. /\ run.read \subseteq db.covers + 1 .. edits
        /\ \A i \in db.covers + 1 .. run.before : i \in run.read
        /\ \A k \in 1..attempts : contents[k].covers <= run.before
    BY DEF IInv, CycleInv, ScanInv
  <1>3. last \in db.covers + 1 .. edits
    BY <1>2
  <1>4. run.before <= last
    <2>1. CASE run.before \in db.covers + 1 .. run.before
      BY <1>2, <2>1
    <2>2. CASE run.before \notin db.covers + 1 .. run.before
      BY <1>1, <1>3, <2>2
    <2> QED BY <2>1, <2>2
  <1>5. ASSUME NEW k \in 1..attempts PROVE contents[k].covers <= last
    <2>1. contents[k] \in Contents
      BY DEF IInv, DeviceType
    <2>2. contents[k].covers \in Nat
      BY <2>1 DEF Contents
    <2> QED BY <1>1, <1>2, <1>3, <1>4, <2>2
  <1>6. run.read \subseteq 1..MaxEdits
    BY <1>1, <1>2
  <1> QED BY <1>1, <1>2, <1>3, <1>4, <1>5, <1>6

LEMMA FullSnapshotKeepsIInv ==
    ASSUME IInv, run.pc = "scan", run.left = {}, NEW last \in run.read,
           \A i \in run.read : i <= last, PublishFullSnapshot(last), UNCHANGED serviceVars
    PROVE  IInv'
  <1> DEFINE n == attempts + 1
             S == <<"snapshot", n>>
             refs == <<S>>
             e == Content(refs, InDomains(Domains(run.read), last), last, run.before, {})
             C == Append(contents, e)
             requests == SettingsThenHead(PutRetained(S), n)
             ids == PublishedObjectIds(PushUnique(run.ids, S), n)
             next == [snapshot |-> S, covers |-> last, domains |-> Domains(run.read),
                      settings |-> Manifest(n), head |-> <<"head", n>>, sequence |-> last]
  <1>0. /\ last \in Nat /\ last <= edits /\ run.before \in Nat
        /\ \A k \in 1..attempts : contents[k].covers <= last
        /\ run.read \subseteq 1..MaxEdits
    BY ScanEnds
  <1>1. Publish(requests, ids, e, next)
    BY DEF PublishFullSnapshot
  <1>2. /\ n \in 1..MaxAttempts /\ edits \in Nat /\ run.ids \in Seq(Object) /\ DeviceType
        /\ contents \in Seq(Contents) /\ Len(contents) = attempts
        /\ Ordered(run.ids, attempts, contents)
    <2>1. attempts < MaxAttempts
      BY <1>1 DEF Publish
    <2> QED BY <2>1, BeginsTyped
  <1>3. /\ S \in Object /\ S[1] = "snapshot" /\ S[1] \notin RootKind
        /\ Manifest(n) \in Object /\ <<"head", n>> \in Object
    BY <1>2, ObjectsOf
  <1>4. refs \in Seq(Object) /\ Range(refs) = {S}
    BY <1>2, <1>3 DEF Range
  <1>5. e \in Contents /\ e.refs = refs /\ e.covers = last /\ C[n].refs = refs
    <2>1. InDomains(Domains(run.read), last) \in SUBSET Nat /\ {} \in SUBSET Nat
      BY <1>0, DomainsTyped
    <2>2. e \in Contents /\ e.refs = refs /\ e.covers = last
      BY <1>0, <1>4, <2>1 DEF Contents, Content
    <2> HIDE DEF e
    <2> QED BY <1>2, <2>2
  <1> HIDE DEF e
  <1>51. next \in DbRecord /\ next.snapshot = S /\ next.covers = last /\ next.sequence = last
    <2>1. Domains(run.read) \in SUBSET Nat
      BY <1>0, DomainsTyped
    <2> QED BY <1>0, <1>3, <2>1 DEF DbRecord
  <1>6. Ordered(run.ids, n, C)
    BY <1>2, BegunOrdered
  <1> HIDE DEF n, S, refs, next
  <1>7. /\ requests \in Seq(ReqRecord) /\ InOrder(requests, n, refs)
        /\ Publishes(requests, SettingsRoot)
    BY <1>2, <1>3, <1>4, FirstRequests, SettingsThenHeadOrder
  <1> HIDE DEF requests, C
  <1>8. /\ PushUnique(run.ids, S) \in Seq(Object) /\ Ordered(PushUnique(run.ids, S), n, C)
        /\ S \in Range(PushUnique(run.ids, S))
    BY <1>2, <1>3, <1>6, PushOrdered
  <1>9. ids \in Seq(Object) /\ Ordered(ids, n, C)
    BY <1>2, <1>4, <1>5, <1>8, PublishedIdsOrdered
  <1> HIDE DEF ids
  <1>10. Ordered(ids, attempts + 1, Append(contents, e))
    BY <1>9 DEF n, C
  <1>11. InOrder(requests, attempts + 1, e.refs) /\ last <= last
    BY <1>0, <1>5, <1>7 DEF n
  <1> QED BY <1>0, <1>1, <1>3, <1>5, <1>51, <1>7, <1>9, <1>10, <1>11, PublishKeepsIInv

LEMMA TailKeepsIInv ==
    ASSUME IInv, run.pc = "scan", run.left = {}, NEW last \in run.read,
           \A i \in run.read : i <= last, db.snapshot # None, PublishTail(last),
           UNCHANGED serviceVars
    PROVE  IInv'
  <1> DEFINE n == attempts + 1
             S == db.snapshot
             T == <<"tails", n>>
             refs == <<S, T>>
             e == Content(refs, InDomains(db.domains, db.covers) \cup run.read, last,
                          run.before, {})
             C == Append(contents, e)
             requests == SettingsThenHead(<<Req("retain", Device, S)>> \o PutRetained(T), n)
             ids == PublishedObjectIds(PushUnique(PushUnique(run.ids, S), T), n)
             next == [db EXCEPT !.settings = Manifest(n), !.head = <<"head", n>>,
                                !.sequence = last]
  <1>0. /\ last \in Nat /\ last <= edits /\ run.before \in Nat /\ db.covers < last
        /\ \A k \in 1..attempts : contents[k].covers <= last
        /\ run.read \subseteq 1..MaxEdits
    BY ScanEnds
  <1>1. Publish(requests, ids, e, next)
    BY DEF PublishTail
  <1>2. /\ n \in 1..MaxAttempts /\ edits \in Nat /\ run.ids \in Seq(Object) /\ DeviceType
        /\ contents \in Seq(Contents) /\ Len(contents) = attempts
        /\ Ordered(run.ids, attempts, contents) /\ db \in DbRecord
    <2>1. attempts < MaxAttempts
      BY <1>1 DEF Publish
    <2> QED BY <2>1, BeginsTyped
  <1>3. /\ S \in Object /\ S[1] = "snapshot" /\ S[1] \notin RootKind
        /\ T \in Object /\ T[1] \notin RootKind
        /\ Manifest(n) \in Object /\ <<"head", n>> \in Object
    <2>1. S \in Object
      BY <1>2 DEF DbRecord
    <2>2. S[1] = "snapshot"
      BY DEF IInv, StoreInv, RecordInv
    <2> QED BY <1>2, <2>1, <2>2, ObjectsOf
  <1>4. refs \in Seq(Object) /\ Range(refs) = {S, T}
    <2>1. refs \in Seq(Object)
      BY <1>3
    <2>2. DOMAIN refs = {1, 2} /\ refs[1] = S /\ refs[2] = T
      OBVIOUS
    <2>3. Range(refs) = {S, T}
      BY <2>2 DEF Range
    <2> QED BY <2>1, <2>3
  <1>5. e \in Contents /\ e.refs = refs /\ e.covers = last /\ C[n].refs = refs
    <2>1. db.covers \in Nat /\ MaxEdits \in Nat
      BY <1>2, CycleAssumption DEF DbRecord
    <2>2. (InDomains(db.domains, db.covers) \cup run.read) \in SUBSET Nat /\ {} \in SUBSET Nat
      BY <1>0, <2>1, DomainsTyped
    <2>3. e \in Contents /\ e.refs = refs /\ e.covers = last
      BY <1>0, <1>4, <2>2 DEF Contents, Content
    <2> HIDE DEF e
    <2> QED BY <1>2, <2>3
  <1> HIDE DEF e
  <1>51. /\ next \in DbRecord /\ next.snapshot = S /\ next.covers = db.covers
         /\ next.sequence = last /\ db.covers <= last
    <2>1. next \in DbRecord /\ next.snapshot = S /\ next.covers = db.covers
      BY <1>0, <1>2, <1>3 DEF DbRecord
    <2>2. next.sequence = last
      BY <1>2 DEF DbRecord
    <2>3. db.covers <= last
      <3>1. db.covers \in Nat
        BY <1>2 DEF DbRecord
      <3> QED BY <1>0, <3>1
    <2> QED BY <2>1, <2>2, <2>3
  <1>6. Ordered(run.ids, n, C)
    BY <1>2, BegunOrdered
  <1> HIDE DEF n, S, T, refs, next
  <1>7. /\ requests \in Seq(ReqRecord) /\ InOrder(requests, n, refs)
        /\ Publishes(requests, SettingsRoot)
    <2> DEFINE s == <<Req("retain", Device, S)>>
               t == s \o PutRetained(T)
    <2>1. s \in Seq(ReqRecord) /\ InOrder(s, n, refs) /\ Retains(s, S)
      BY <1>3, FirstRequests
    <2> HIDE DEF s
    <2>2. t \in Seq(ReqRecord) /\ InOrder(t, n, refs) /\ Retains(t, S) /\ Retains(t, T)
      BY <1>3, <2>1, PutRetainedOrder
    <2> HIDE DEF t
    <2>3. LET u == SettingsThenHead(t, n)
          IN u \in Seq(ReqRecord) /\ InOrder(u, n, refs) /\ Publishes(u, SettingsRoot)
      BY <1>2, <1>4, <2>2, SettingsThenHeadOrder
    <2> QED BY <2>3 DEF s, t
  <1> HIDE DEF requests, C
  <1>8. /\ PushUnique(run.ids, S) \in Seq(Object) /\ Ordered(PushUnique(run.ids, S), n, C)
        /\ S \in Range(PushUnique(run.ids, S))
    BY <1>2, <1>3, <1>6, PushOrdered
  <1>9. LET t == PushUnique(PushUnique(run.ids, S), T)
        IN t \in Seq(Object) /\ Ordered(t, n, C) /\ S \in Range(t) /\ T \in Range(t)
    BY <1>3, <1>8, PushOrdered
  <1>10. ids \in Seq(Object) /\ Ordered(ids, n, C)
    BY <1>2, <1>4, <1>5, <1>9, PublishedIdsOrdered
  <1> HIDE DEF ids
  <1>11. Ordered(ids, attempts + 1, Append(contents, e))
    BY <1>10 DEF n, C
  <1>12. InOrder(requests, attempts + 1, e.refs) /\ last <= last
    BY <1>0, <1>5, <1>7 DEF n
  <1> QED BY <1>0, <1>1, <1>3, <1>5, <1>51, <1>7, <1>10, <1>11, <1>12, PublishKeepsIInv

LEMMA CompactToKeepsIInv ==
    ASSUME IInv, run.pc # "idle", NEW c \in db.covers + 1 .. edits, CompactTo(c),
           UNCHANGED serviceVars
    PROVE  IInv'
  <1> DEFINE n == attempts + 1
             S == <<"snapshot", n>>
             T == <<"tails", n>>
             D == Domains(db.covers + 1 .. c)
             next == [db EXCEPT !.snapshot = S, !.covers = c, !.domains = D,
                                !.settings = Manifest(n)]
             e(refs) == Content(refs, InDomains(D, c) \cup (c + 1 .. edits), edits, edits,
                                (1..c) \ InDomains(D, c))
             C(refs) == Append(contents, e(refs))
  <1>1. attempts < MaxAttempts
    BY DEF CompactTo, Publish
  <1>2. /\ n \in 1..MaxAttempts /\ edits \in Nat /\ run.ids \in Seq(Object) /\ DeviceType
        /\ contents \in Seq(Contents) /\ Len(contents) = attempts
        /\ Ordered(run.ids, attempts, contents) /\ db \in DbRecord
    BY <1>1, CycleAssumption DEF IInv, DeviceType, RunRecord, CycleInv, IdsInv
  <1>3. /\ S \in Object /\ S[1] = "snapshot" /\ S[1] \notin RootKind
        /\ T \in Object /\ T[1] \notin RootKind
        /\ Manifest(n) \in Object /\ Manifest(n)[1] \in RootKind /\ Manifest(n)[2] = n
    BY <1>2, ObjectsOf
  <1>4. c \in Nat /\ c <= edits
    BY <1>2 DEF DbRecord
  <1>51. D \in SUBSET Nat
    <2>1. db.covers \in Nat /\ edits <= MaxEdits /\ MaxEdits \in Nat
      BY <1>2, CycleAssumption DEF DbRecord, DeviceType
    <2>2. db.covers + 1 .. c \subseteq 1..MaxEdits
      BY <1>2, <1>4, <2>1
    <2> QED BY <2>2, DomainsTyped
  <1>52. \A refs \in Seq(Object) : /\ e(refs) \in Contents /\ e(refs).refs = refs
                                   /\ e(refs).covers = edits
    <2>1. /\ InDomains(D, c) \cup (c + 1 .. edits) \in SUBSET Nat
          /\ (1..c) \ InDomains(D, c) \in SUBSET Nat
      <3> HIDE DEF D
      <3> QED BY <1>2, <1>4, DomainsTyped
    <2> HIDE DEF D
    <2> QED BY <1>2, <2>1 DEF Contents, Content
  <1> HIDE DEF D, e
  <1>5. /\ next \in DbRecord /\ next.snapshot = S /\ next.covers = c
        /\ next.sequence = db.sequence /\ db.sequence <= edits
    BY <1>2, <1>3, <1>4, <1>51 DEF DbRecord, IInv, StoreInv, RecordInv
  <1>6. \A refs : Ordered(run.ids, n, C(refs)) /\ C(refs)[n] = e(refs)
    BY <1>2, BegunOrdered
  <1>7. /\ SettingsRoot \in Root /\ edits <= edits
        /\ \A k \in 1..attempts : contents[k].covers <= edits
    BY <1>2, CycleAssumption DEF IInv, StoreInv, ContentsInv
  <1> HIDE DEF n, S, T, next, C
  <1>8. ASSUME NEW s \in Seq(ReqRecord), NEW ids \in Seq(Object), NEW refs \in Seq(Object),
               InOrder(s, n, refs), \A x \in Range(refs) : Retains(s, x),
               Ordered(ids, n, C(refs)), \A x \in Range(refs) : x \in Range(ids),
               Publish(s \o PutRetainedRoot(SettingsRoot, Manifest(n)),
                       PushUnique(ids, Manifest(n)), e(refs), next)
        PROVE  IInv'
    <2> DEFINE u == s \o PutRetainedRoot(SettingsRoot, Manifest(n))
               v == PushUnique(ids, Manifest(n))
    <2>1. \A x \in Needed(n, refs) : x = Manifest(n) \/ Retains(s, x)
      BY <1>8 DEF Needed
    <2>2. /\ u \in Seq(ReqRecord) /\ InOrder(u, n, refs) /\ Publishes(u, SettingsRoot)
      BY <1>3, <1>7, <1>8, <2>1, PutRetainedRootOrder
    <2>3. v \in Seq(Object) /\ Ordered(v, n, C(refs))
      <3>1. C(refs)[n].refs = refs
        BY <1>6, <1>52
      <3> QED BY <1>2, <1>6, <1>8, <3>1, PublishedIdsOrdered
    <2> HIDE DEF u, v
    <2>4. PICK x : x = e(refs)
      OBVIOUS
    <2>5. x \in Contents /\ x.refs = refs /\ x.covers = edits
      BY <1>52, <2>4
    <2>6. /\ InOrder(u, attempts + 1, x.refs)
          /\ Ordered(v, attempts + 1, Append(contents, x))
      BY <2>2, <2>3, <2>4, <2>5 DEF n, C
    <2>7. Publish(u, v, x, next)
      BY <1>8, <2>4 DEF u, v
    <2> QED BY <1>3, <1>4, <1>5, <1>7, <2>2, <2>3, <2>5, <2>6, <2>7, PublishKeepsIInv
  <1>9. /\ <<S>> \in Seq(Object) /\ Range(<<S>>) = {S}
        /\ <<S, T>> \in Seq(Object) /\ Range(<<S, T>>) = {S, T}
    <2>1. DOMAIN <<S>> = {1} /\ DOMAIN <<S, T>> = {1, 2}
      OBVIOUS
    <2>2. Range(<<S>>) = {S} /\ Range(<<S, T>>) = {S, T}
      BY <2>1 DEF Range
    <2> QED BY <1>3, <2>2
  <1>10. ASSUME NEW refs
         PROVE  /\ PutRetained(S) \in Seq(ReqRecord)
                /\ InOrder(PutRetained(S), n, refs) /\ Retains(PutRetained(S), S)
                /\ PushUnique(run.ids, S) \in Seq(Object)
                /\ Ordered(PushUnique(run.ids, S), n, C(refs))
                /\ S \in Range(PushUnique(run.ids, S))
    BY <1>2, <1>3, <1>6, FirstRequests, PushOrdered
  <1>11. CASE c = edits
    <2>1. Publish(PutRetained(S) \o PutRetainedRoot(SettingsRoot, Manifest(n)),
                  PushUnique(PushUnique(run.ids, S), Manifest(n)), e(<<S>>), next)
      BY <1>11 DEF CompactTo, n, S, D, e, next
    <2> QED BY <1>8, <1>9, <1>10, <2>1
  <1>12. CASE c # edits
    <2> DEFINE s == PutRetained(S) \o PutRetained(T)
               ids == PushUnique(PushUnique(run.ids, S), T)
    <2>1. Publish(s \o PutRetainedRoot(SettingsRoot, Manifest(n)),
                  PushUnique(ids, Manifest(n)), e(<<S, T>>), next)
      BY <1>12 DEF CompactTo, n, S, T, D, e, next
    <2>2. /\ s \in Seq(ReqRecord) /\ InOrder(s, n, <<S, T>>)
          /\ Retains(s, S) /\ Retains(s, T)
      BY <1>3, <1>10, PutRetainedOrder
    <2>3. /\ ids \in Seq(Object) /\ Ordered(ids, n, C(<<S, T>>))
          /\ S \in Range(ids) /\ T \in Range(ids)
      BY <1>3, <1>10, PushOrdered
    <2> HIDE DEF s, ids
    <2> QED BY <1>8, <1>9, <2>1, <2>2, <2>3
  <1> QED BY <1>11, <1>12

-----------------------------------------------------------------------------
(* The other steps of a run. *)

(* Nothing is left to publish: what the run began with is covered. *)
LEMMA IdleKeepsIInv ==
    ASSUME IInv, run.pc # "idle", run.todo = <<>>, Idle, UNCHANGED serviceVars, Covered(run.since)
    PROVE  IInv'
  <1>1. run \in RunRecord
    BY DEF IInv, DeviceType
  <1>2. /\ run' = [run EXCEPT !.pc = "shared", !.latest = 0, !.steps = 0,
                              !.read = {}, !.before = 0]
        /\ UNCHANGED <<edits, db, attempts, contents, outcome>>
    BY DEF Idle
  <1>3. /\ run' \in RunRecord /\ run'.pc = "shared" /\ run'.ids = run.ids
        /\ run'.todo = <<>> /\ run'.since = run.since
    BY <1>1, <1>2 DEF RunRecord, Pc
  <1>4. TodoInv'
    BY <1>3 DEF TodoInv
  <1>5. run.since <= edits
    BY DEF IInv, CycleInv, RunInv
  <1> QED BY <1>2, <1>3, <1>4, <1>5, RunStep

(* A cover of later changes covers the earlier ones. *)
LEMMA CoveredLess ==
    ASSUME DeviceType, RootsInv, NEW k \in Nat, NEW m \in Nat, k <= m, Covered(m)
    PROVE  Covered(k)
  <1> SUFFICES ASSUME k > 0 PROVE Covered(k)
    BY DEF Covered
  <1>1. PICK r \in Root : Published(r) /\ contents[RootOf(r)[2]].covers >= m
    BY DEF Covered
  <1>2. RootOf(r)[2] \in 1..Len(contents)
    BY <1>1, CycleAssumption DEF RootsInv, Published, DeviceType
  <1>3. contents[RootOf(r)[2]] \in Contents
    BY <1>2 DEF DeviceType
  <1>4. contents[RootOf(r)[2]].covers \in Nat
    BY <1>3 DEF Contents
  <1>5. contents[RootOf(r)[2]].covers >= k
    BY <1>1, <1>4
  <1> QED BY <1>1, <1>5 DEF Covered

(* Every change there is belongs to a domain that is going to be read. *)
LEMMA ScanBegins ==
    ASSUME IInv, run.pc # "idle", run.todo = <<>>, BeginScan, UNCHANGED serviceVars
    PROVE  IInv'
  <1>1. /\ run \in RunRecord /\ db \in DbRecord /\ edits \in Nat /\ edits <= MaxEdits
        /\ run.since <= edits /\ MaxEdits \in Nat
    BY CycleAssumption DEF IInv, DeviceType, CycleInv, RunInv
  <1>2. /\ run' = [run EXCEPT !.pc = "scan", !.latest = 0, !.left = Range(DomainOf),
                              !.read = {}, !.before = edits]
        /\ UNCHANGED <<edits, db, attempts, contents, outcome>>
    BY DEF BeginScan
  <1>3. /\ Range(DomainOf) \in SUBSET Nat /\ {} \in SUBSET Nat
        /\ \A i \in 1..MaxEdits : DomainOf[i] \in Range(DomainOf)
    BY CycleAssumption DEF Range
  <1>4. /\ run' \in RunRecord /\ run'.pc = "scan" /\ run'.ids = run.ids /\ run'.todo = <<>>
        /\ run'.since = run.since /\ run'.before = edits /\ run'.read = {}
        /\ run'.left = Range(DomainOf)
    BY <1>1, <1>2, <1>3 DEF RunRecord, Pc
  <1>5. ScanInv'
    <2>1. ASSUME NEW i \in db.covers + 1 .. edits PROVE DomainOf[i] \in Range(DomainOf)
      <3>1. db.covers \in Nat
        BY <1>1 DEF DbRecord
      <3> QED BY <1>1, <1>3, <3>1
    <2>2. \A n \in 1..attempts : contents[n].covers <= edits
      BY DEF IInv, StoreInv, ContentsInv
    <2> QED BY <1>1, <1>2, <1>4, <2>1, <2>2 DEF ScanInv
  <1>6. TodoInv'
    BY <1>4 DEF TodoInv
  <1> QED BY <1>1, <1>2, <1>4, <1>5, <1>6, RunStep

LEMMA PublishStepKeepsIInv == ASSUME IInv, PublishStep PROVE IInv'
  <1>1. /\ run \in RunRecord /\ run.pc = "publish" /\ UNCHANGED serviceVars
        /\ db \in DbRecord /\ edits \in Nat /\ DeviceType /\ RootsInv
        /\ Covered(db.covers) /\ run.since <= edits /\ run.todo = <<>>
    BY DEF IInv, DeviceType, PublishStep, StoreInv, RecordInv, CycleInv, RunInv
  <1>2. run.since \in Nat /\ db.covers \in Nat
    BY <1>1 DEF RunRecord, DbRecord
  <1>3. CASE edits = db.covers /\ Idle
    BY <1>1, <1>2, <1>3, CoveredLess, IdleKeepsIInv
  <1>4. CASE BeginScan
    BY <1>1, <1>4, ScanBegins
  <1>6. CASE db.snapshot # None /\ db.head # None /\ ReadHead
    <2> DEFINE c == Req("get", Device, db.head)
    <2>1. c \in ReqRecord /\ c.op = "get" /\ <<c>> \in Seq(ReqRecord) /\ "head" \in Pc
      BY <1>1, <1>6, CycleAssumption DEF Req, ReqRecord, DbRecord, Pc
    <2> HIDE DEF c
    <2>2. /\ run' = [run EXCEPT !.pc = "head", !.latest = edits, !.todo = <<c>>]
          /\ UNCHANGED <<edits, db, attempts, contents, outcome>>
      BY <1>6 DEF ReadHead, c
    <2>3. /\ run' \in RunRecord /\ run'.pc = "head" /\ run'.ids = run.ids
          /\ run'.todo = <<c>> /\ run'.since = run.since /\ run'.latest = edits
      BY <1>1, <2>1, <2>2 DEF RunRecord
    <2>4. TodoInv'
      BY <2>1, <2>3 DEF TodoInv, RetainsFirst, PublishesLast
    <2> QED BY <1>1, <1>6, <2>2, <2>3, <2>4, RunStep
  <1> QED BY <1>3, <1>4, <1>6 DEF PublishStep

LEMMA HeadReadKeepsIInv == ASSUME IInv, HeadRead PROVE IInv'
  <1>1. /\ run \in RunRecord /\ run.pc = "head" /\ UNCHANGED serviceVars /\ run.todo = <<>>
        /\ db \in DbRecord /\ edits \in Nat /\ DeviceType /\ RootsInv
        /\ Covered(db.sequence) /\ run.latest >= run.since /\ db.snapshot # None
    BY DEF IInv, DeviceType, HeadRead, StoreInv, RecordInv, CycleInv, RunInv
  <1>2. run.since \in Nat /\ run.latest \in Nat /\ db.sequence \in Nat
    BY <1>1 DEF RunRecord, DbRecord
  <1>3. CASE HeadIsCurrent /\ Idle
    <2>1. run.since <= db.sequence
      BY <1>1, <1>2, <1>3 DEF HeadIsCurrent
    <2> QED BY <1>1, <1>2, <1>3, <2>1, CoveredLess, IdleKeepsIInv
  <1>4. CASE BeginScan
    BY <1>1, <1>4, ScanBegins
  <1> QED BY <1>3, <1>4 DEF HeadRead

(* The query for one domain reads all there is of it. *)
LEMMA ReadDomainKeepsIInv == ASSUME IInv, ReadDomain PROVE IInv'
  <1>1. /\ run \in RunRecord /\ run.pc = "scan" /\ db \in DbRecord /\ edits \in Nat
        /\ UNCHANGED <<serviceVars, edits, db, attempts, contents, outcome>>
        /\ run.since <= edits /\ run.todo = <<>>
    BY DEF IInv, DeviceType, ReadDomain, CycleInv, RunInv
  <1>2. PICK domain \in run.left :
           run' = [run EXCEPT !.left = run.left \ {domain},
                              !.read = run.read \cup {i \in db.covers + 1 .. edits :
                                                        DomainOf[i] = domain}]
    BY DEF ReadDomain
  <1>3. PICK more : more = {i \in db.covers + 1 .. edits : DomainOf[i] = domain}
    OBVIOUS
  <1>4. db.covers \in Nat /\ run.before \in Nat /\ run.before <= edits
    BY <1>1 DEF DbRecord, RunRecord, IInv, CycleInv, ScanInv
  <1>5. more \subseteq db.covers + 1 .. edits /\ more \in SUBSET Nat
    BY <1>1, <1>3, <1>4
  <1>6. run' = [run EXCEPT !.left = run.left \ {domain}, !.read = run.read \cup more]
    BY <1>2, <1>3
  <1>7. /\ run' \in RunRecord /\ run'.pc = "scan" /\ run'.ids = run.ids /\ run'.todo = <<>>
        /\ run'.since = run.since /\ run'.before = run.before
        /\ run'.left = run.left \ {domain} /\ run'.read = run.read \cup more
    BY <1>1, <1>5, <1>6 DEF RunRecord
  <1>8. ScanInv'
    <2>1. ASSUME NEW i \in db.covers + 1 .. run.before
          PROVE  i \in run'.read \/ DomainOf[i] \in run'.left
      <3>1. i \in run.read \/ DomainOf[i] \in run.left
        BY <1>1 DEF IInv, CycleInv, ScanInv
      <3>2. i \in db.covers + 1 .. edits
        BY <1>1, <1>4
      <3> QED BY <1>3, <1>7, <3>1, <3>2
    <2>2. run'.read \subseteq db.covers + 1 .. edits
      BY <1>1, <1>5, <1>7 DEF IInv, CycleInv, ScanInv
    <2> QED BY <1>1, <1>7, <2>1, <2>2 DEF IInv, CycleInv, ScanInv
  <1>9. TodoInv'
    BY <1>7 DEF TodoInv
  <1> QED BY <1>1, <1>7, <1>8, <1>9, RunStep

(* All domains are read: there is nothing, or it is published. *)
LEMMA DomainsReadKeepsIInv == ASSUME IInv, DomainsRead PROVE IInv'
  <1>1. /\ run.pc = "scan" /\ run.left = {} /\ UNCHANGED serviceVars /\ run.todo = <<>>
        /\ run \in RunRecord /\ db \in DbRecord /\ DeviceType /\ RootsInv /\ Covered(db.covers)
    BY DEF IInv, DeviceType, DomainsRead, StoreInv, RecordInv, CycleInv, RunInv
  <1>2. CASE run.read = {} /\ Idle
    <2>1. run.since \in Nat /\ run.before \in Nat /\ db.covers \in Nat
      BY <1>1 DEF RunRecord, DbRecord
    <2>2. run.since <= run.before /\ run.before \notin db.covers + 1 .. run.before
      BY <1>1, <1>2 DEF IInv, CycleInv, ScanInv
    <2>3. run.since <= db.covers
      BY <2>1, <2>2
    <2> QED BY <1>1, <1>2, <2>1, <2>3, CoveredLess, IdleKeepsIInv
  <1>3. ASSUME NEW last \in run.read, \A i \in run.read : i <= last,
               \/ PublishFullSnapshot(last)
               \/ db.snapshot # None /\ PublishTail(last)
        PROVE  IInv'
    BY <1>1, <1>3, FullSnapshotKeepsIInv, TailKeepsIInv
  <1> QED BY <1>2, <1>3 DEF DomainsRead

LEMMA RecordKeepsIInv == ASSUME IInv, Record PROVE IInv'
  <1>1. /\ run \in RunRecord /\ run.pc = "publishing" /\ run.todo = <<>>
        /\ db' = run.next
        /\ run' = [run EXCEPT !.pc = IF run.kind = "cycle" THEN "publish" ELSE "retain",
                              !.steps = run.steps + 1, !.next = None]
        /\ UNCHANGED <<serviceVars, edits, attempts, contents, outcome>>
        /\ outcome = None
    BY DEF IInv, DeviceType, Record, CycleInv, OutcomeInv
  <1>2. /\ attempts > 0 /\ run.next \in DbRecord
        /\ run.next.snapshot # None /\ run.next.snapshot[1] = "snapshot"
        /\ run.next.covers <= contents[attempts].covers
        /\ run.next.sequence <= contents[attempts].covers
        /\ Published(SettingsRoot) /\ RootOf(SettingsRoot)[2] = attempts
    BY <1>1 DEF IInv, CycleInv, PublishingInv
  <1>3. /\ attempts \in Nat /\ edits \in Nat /\ contents[attempts] \in Contents
        /\ SettingsRoot \in Root /\ DeviceType /\ RootsInv
    <2>1. attempts \in Nat /\ SettingsRoot \in Root
      BY CycleAssumption DEF IInv, DeviceType
    <2>2. attempts \in 1..Len(contents)
      BY <1>2, <2>1 DEF IInv, DeviceType
    <2> QED BY <2>1, <2>2 DEF IInv, DeviceType, StoreInv
  <1>4. /\ contents[attempts].covers \in Nat /\ contents[attempts].covers <= edits
        /\ run.next.covers \in Nat /\ run.next.sequence \in Nat
    <2>1. attempts \in 1..attempts
      BY <1>2, <1>3
    <2> QED BY <1>2, <1>3, <2>1 DEF Contents, DbRecord, IInv, StoreInv, ContentsInv
  <1>5. run' \in RunRecord
    <2>1. /\ (IF run.kind = "cycle" THEN "publish" ELSE "retain") \in Pc
          /\ None \in DbRecord \cup {None}
      BY DEF Pc
    <2>2. run.steps + 1 \in Nat
      BY <1>1 DEF RunRecord
    <2> HIDE DEF DbRecord, ReqRecord
    <2> QED BY <1>1, <2>1, <2>2 DEF RunRecord
  <1>6. /\ run'.pc \in {"publish", "retain"} /\ run'.todo = <<>> /\ run'.ids = run.ids
        /\ run'.since = run.since /\ run'.kind = run.kind
        /\ run'.pc = "retain" => run.kind # "cycle"
    BY <1>1 DEF RunRecord
  <1>7. UNCHANGED <<objects, retained, roots, nextRootSequence, lost>>
    BY <1>1 DEF serviceVars, storeVars, faultVars
  <1>8. DeviceType'
    BY <1>1, <1>2, <1>5 DEF IInv, DeviceType
  <1>9. StoreType' /\ ContentsInv' /\ ClaimsInv'
    BY <1>1, <1>7 DEF IInv, StoreInv, StoreType, ContentsInv, ClaimsInv
  <1>10. RootsInv'
    BY <1>1, <1>7 DEF IInv, StoreInv, RootsInv, RootOf, Stored
  <1>11. Covered(run.next.covers) /\ Covered(run.next.sequence)
    BY <1>2, <1>3, <1>4 DEF Covered
  <1>12. RecordInv'
    <2>1. Covered(db.covers)' /\ Covered(db.sequence)'
      BY <1>1, <1>7, <1>11 DEF Covered, Published, RootOf
    <2>2. run.next.covers <= edits /\ run.next.sequence <= edits
      BY <1>2, <1>3, <1>4
    <2> QED BY <1>1, <1>2, <2>1, <2>2 DEF RecordInv
  <1>13. TodoInv' /\ PublishingInv' /\ OutcomeInv' /\ IdsInv' /\ ScanInv'
    BY <1>1, <1>6 DEF IInv, CycleInv, TodoInv, PublishingInv, OutcomeInv, IdsInv, ScanInv
  <1>14. RunInv'
    BY <1>1, <1>6 DEF IInv, CycleInv, RunInv
  <1> QED BY <1>8, <1>9, <1>10, <1>12, <1>13, <1>14 DEF IInv, StoreInv, CycleInv

LEMMA EditKeepsIInv == ASSUME IInv, Edit PROVE IInv'
  <1>1. /\ edits' = edits + 1 /\ edits \in Nat /\ edits' <= MaxEdits
        /\ UNCHANGED <<serviceVars, db, attempts, contents, run, outcome>>
    BY CycleAssumption DEF Edit, IInv, DeviceType
  <1>2. UNCHANGED <<objects, retained, roots, nextRootSequence, lost>>
    BY <1>1 DEF serviceVars, storeVars, faultVars
  <1>3. /\ \A k : Covered(k)' = Covered(k)
        /\ \A r : Durable(r)' = Durable(r)
    BY <1>1, <1>2 DEF Covered, Durable, Holders, Published, RootOf
  <1>4. DeviceType' /\ StoreType' /\ ClaimsInv'
    BY <1>1, <1>2 DEF IInv, DeviceType, StoreInv, StoreType, ClaimsInv
  <1>5. RootsInv'
    BY <1>1, <1>2 DEF IInv, StoreInv, RootsInv, RootOf, Stored
  <1>6. ContentsInv'
    <2>1. ASSUME NEW n \in 1..attempts PROVE contents[n].covers <= edits + 1
      <3>1. contents[n] \in Contents
        BY DEF IInv, DeviceType
      <3>2. contents[n].covers <= edits /\ contents[n].covers \in Nat
        BY <3>1 DEF IInv, StoreInv, ContentsInv, Contents
      <3> QED BY <1>1, <3>2
    <2> QED BY <1>1, <2>1 DEF IInv, StoreInv, ContentsInv
  <1>7. db.covers \in Nat /\ db.sequence \in Nat /\ run.since \in Nat
    BY DEF IInv, DeviceType, DbRecord, RunRecord
  <1>8. RecordInv'
    BY <1>1, <1>3, <1>7 DEF IInv, StoreInv, RecordInv
  <1>9. TodoInv'
    <2> SUFFICES ASSUME NEW i \in 1..Len(run.todo)
                 PROVE  RetainsFirst(run.todo, i)' /\ PublishesLast(run.todo, i)'
      BY <1>1 DEF TodoInv
    <2>1. RetainsFirst(run.todo, i) /\ PublishesLast(run.todo, i)
      BY DEF IInv, CycleInv, TodoInv
    <2> QED BY <1>1, <1>2, <2>1 DEF RetainsFirst, PublishesLast, Stored
  <1>10. IdsInv' /\ PublishingInv'
    BY <1>1, <1>2 DEF IInv, CycleInv, IdsInv, PublishingInv, Published, RootOf
  <1>11. RunInv' /\ OutcomeInv'
    BY <1>1, <1>3, <1>7 DEF IInv, CycleInv, RunInv, OutcomeInv
  <1>12. ScanInv'
    <2>1. run.before \in Nat /\ db.covers + 1 .. edits \subseteq db.covers + 1 .. edits + 1
      BY <1>1, <1>7 DEF IInv, DeviceType, RunRecord
    <2> QED BY <1>1, <2>1 DEF IInv, CycleInv, ScanInv
  <1> QED BY <1>4, <1>5, <1>6, <1>8, <1>9, <1>10, <1>11, <1>12 DEF IInv, StoreInv, CycleInv

(* A root that is not degraded is held by enough providers. *)
LEMMA HealthyIsDurable ==
    ASSUME IInv, NEW r \in Root, ~RootHealth(Device, r, MinimumRetaining).degraded
    PROVE  Durable(r)
  <1> SUFFICES ASSUME Published(r) PROVE Cardinality(Holders(RootOf(r))) >= MinimumRetaining
    BY DEF Durable
  <1> DEFINE V == VisibleCandidates(Device, r)
             o == RootOf(r)
  <1>1. Device \in Provider /\ MinimumRetaining \in Nat
    BY CycleAssumption
  <1>2. V \subseteq {Device}
    BY <1>1 DEF VisibleCandidates, CandidatePublishers, PublishedRoots, IInv, StoreInv, RootsInv
  <1>3. LatestRoot(Device, r) # None
    BY DEF RootHealth
  <1>4. V = {Device}
    BY <1>2, <1>3 DEF LatestRoot
  <1>5. LatestRoot(Device, r) = roots[<<r, Device>>]
    <2>1. \A q \in V : q = Device
      BY <1>4
    <2>2. LET q == CHOOSE q \in V : \A x \in V :
                       roots[<<r, x>>].sequence <= roots[<<r, q>>].sequence
          IN q = Device
      <3>1. roots[<<r, Device>>].sequence \in Nat
        BY <1>1 DEF IInv, StoreInv, StoreType, Published
      <3>2. \A x \in V : roots[<<r, x>>].sequence <= roots[<<r, Device>>].sequence
        BY <1>4, <3>1
      <3> HIDE DEF V
      <3> QED BY <1>4, <2>1, <3>2
    <2> QED BY <1>4, <2>2 DEF LatestRoot
  <1>6. ~(Cardinality(OnlineRetaining(o)) < MinimumRetaining)
    BY <1>3, <1>5 DEF RootHealth, RootOf
  <1>7. OnlineRetaining(o) \subseteq Holders(o)
    <2>1. o \in Object /\ o[1] \in RootKind
      BY <1>1 DEF IInv, StoreInv, StoreType, RootsInv, Published, RootOf
    <2> QED BY <2>1 DEF OnlineRetaining, Holders, IInv, StoreInv, ClaimsInv
  <1>8. IsFiniteSet(Holders(o)) /\ IsFiniteSet(OnlineRetaining(o))
    BY FiniteAssumption, FS_Subset DEF Holders, OnlineRetaining
  <1>9. /\ Cardinality(OnlineRetaining(o)) <= Cardinality(Holders(o))
        /\ Cardinality(OnlineRetaining(o)) \in Nat /\ Cardinality(Holders(o)) \in Nat
    BY <1>7, <1>8, FS_Subset, FS_CardinalityType
  <1> QED BY <1>1, <1>6, <1>9

(* The least position of a set of them is one of them. *)
LEMMA MinIsMember ==
    ASSUME NEW S \in SUBSET Nat, S # {}
    PROVE  Min(S) \in S
  <1> DEFINE R == {ss \in Nat \X Nat : ss[1] < ss[2]}
  <1>1. IsWellFoundedOn(R, Nat)
    BY NatLessThanWellFounded DEF OpToRel
  <1>2. PICK x \in S : \A y \in S : <<y, x>> \notin R
    <2> HIDE DEF R
    <2> QED BY <1>1, WFMin
  <1>3. ASSUME NEW y \in S PROVE x <= y
    <2>1. x \in Nat /\ y \in Nat /\ ~(y < x)
      BY <1>2
    <2> HIDE DEF R
    <2> QED BY <2>1
  <1> QED BY <1>2, <1>3 DEF Min

(* The steps that end the run with an error. *)
LEMMA FailsKeepIInv == ASSUME IInv, RequestFails \/ LoopExhausted \/ ManifestRefused \/ Stop PROVE IInv'
  BY FailStep DEF RequestFails, LoopExhausted, ManifestRefused, Stop

(* Preflight, the selection of providers, and a tick without a target. *)
LEMMA BeginKeepsIInv ==
    ASSUME IInv, \/ StartRun("cycle") \/ StartRun("compaction")
                 \/ Preflight \/ Select
                 \/ run.pc = "compact" /\ run' = [run EXCEPT !.pc = "retain"]
                       /\ UNCHANGED <<serviceVars, edits, db, attempts, contents, outcome>>
    PROVE  IInv'
  <1>1. /\ run \in RunRecord /\ edits \in Nat /\ run.since <= edits
        /\ run.pc = "compact" => run.kind = "compaction"
        /\ run.todo # <<>> => run.pc \in {"head", "publishing", "retain"}
        /\ Pc = {"idle", "preflight", "select", "publish", "head", "scan", "publishing",
                 "compact", "shared", "retain", "headHealth"}
    BY DEF IInv, DeviceType, CycleInv, RunInv, Pc
  <1>2. ASSUME NEW kind \in {"cycle", "compaction"}, StartRun(kind) PROVE IInv'
    <2>1. /\ run' = [NoRun EXCEPT !.pc = "preflight", !.kind = kind, !.since = edits]
          /\ outcome' = None /\ UNCHANGED <<serviceVars, edits, db, attempts, contents>>
      BY <1>2 DEF StartRun
    <2>2. /\ run' \in RunRecord /\ run'.pc = "preflight" /\ run'.ids = <<>>
          /\ run'.todo = <<>> /\ run'.since = edits
      <3>1. NoRun \in RunRecord /\ NoRun.ids = <<>> /\ NoRun.todo = <<>>
        BY <1>1 DEF NoRun, RunRecord
      <3>2. "preflight" \in Pc
        BY <1>1
      <3> QED BY <1>1, <2>1, <3>1, <3>2 DEF RunRecord
    <2>3. TodoInv' /\ edits <= edits
      BY <1>1, <2>2 DEF TodoInv
    <2> QED BY <2>1, <2>2, <2>3, RunStep
  <1>3. ASSUME NEW pc \in {"select", "publish", "compact", "retain"},
               NEW selected \in SUBSET (1..Len(Handles)),
               run' = [run EXCEPT !.pc = pc, !.selected = selected], run.todo = <<>>,
               run.pc # "idle", pc \in {"compact", "retain"} => run.kind = "compaction",
               UNCHANGED <<serviceVars, edits, db, attempts, contents, outcome>>
        PROVE  IInv'
    <2>1. /\ run' \in RunRecord /\ run'.pc = pc /\ run'.ids = run.ids /\ run'.kind = run.kind
          /\ run'.todo = <<>> /\ run'.since = run.since
      BY <1>1, <1>3 DEF RunRecord
    <2>2. TodoInv'
      BY <2>1 DEF TodoInv
    <2> QED BY <1>1, <1>3, <2>1, <2>2, RunStep
  <1>4. CASE Preflight
    <2>1. CASE Fail /\ UNCHANGED <<serviceVars, edits, db, attempts, contents>>
      BY <2>1, FailStep
    <2>2. CASE /\ run.pc = "preflight" /\ run' = [run EXCEPT !.pc = "select"]
               /\ UNCHANGED <<serviceVars, edits, db, attempts, contents, outcome>>
      <3>1. /\ run' = [run EXCEPT !.pc = "select", !.selected = run.selected]
            /\ run.selected \in SUBSET (1..Len(Handles)) /\ run.todo = <<>>
        BY <1>1, <2>2 DEF RunRecord
      <3> QED BY <1>3, <2>2, <3>1
    <2> QED BY <1>4, <2>1, <2>2 DEF Preflight
  <1>5. CASE Select
    <2>1. CASE Fail /\ UNCHANGED <<serviceVars, edits, db, attempts, contents>>
      BY <2>1, FailStep
    <2>2. CASE /\ run.pc = "select"
               /\ run' = [run EXCEPT !.pc = IF run.kind = "cycle" THEN "publish" ELSE "compact",
                                     !.selected = Selected]
               /\ UNCHANGED <<serviceVars, edits, db, attempts, contents, outcome>>
      <3> DEFINE pc == IF run.kind = "cycle" THEN "publish" ELSE "compact"
      <3>1. /\ pc \in {"select", "publish", "compact", "retain"}
            /\ pc \in {"compact", "retain"} => run.kind = "compaction"
            /\ run.todo = <<>>
        BY <1>1, <2>2 DEF RunRecord
      <3>2. Selected \in SUBSET (1..Len(Handles))
        BY CycleAssumption DEF Selected
      <3> HIDE DEF pc
      <3>3. run' = [run EXCEPT !.pc = pc, !.selected = Selected]
        BY <2>2 DEF pc
      <3> QED BY <1>3, <2>2, <3>1, <3>2, <3>3
    <2> QED BY <1>5, <2>1, <2>2 DEF Select
  <1>6. CASE run.pc = "compact" /\ run' = [run EXCEPT !.pc = "retain"]
             /\ UNCHANGED <<serviceVars, edits, db, attempts, contents, outcome>>
    <2>1. /\ run' = [run EXCEPT !.pc = "retain", !.selected = run.selected]
          /\ run.selected \in SUBSET (1..Len(Handles)) /\ run.todo = <<>>
          /\ run.kind = "compaction"
      BY <1>1, <1>6 DEF RunRecord
    <2> QED BY <1>3, <1>6, <2>1
  <1> QED BY <1>2, <1>4, <1>5, <1>6

LEMMA CompactKeepsIInv == ASSUME IInv, Compact PROVE IInv'
  BY BeginKeepsIInv, CompactToKeepsIInv DEF Compact

(* Only fetches are asked for when the shared root is looked at. *)
LEMMA SharedKeepsIInv == ASSUME IInv, SharedRootCandidates PROVE IInv'
  <1> DEFINE newest == LatestRoot(Device, SettingsRoot)
             todo == IF newest = None \/ newest.object = db.settings THEN <<>>
                     ELSE FetchManifest(newest.object)
  <1>1. CASE Fail /\ UNCHANGED <<serviceVars, edits, db, attempts, contents>>
    BY <1>1, FailStep
  <1>2. CASE /\ run.pc = "shared" /\ run' = [run EXCEPT !.pc = "retain", !.todo = todo]
             /\ UNCHANGED <<serviceVars, edits, db, attempts, contents, outcome>>
    <2>1. /\ run \in RunRecord /\ run.since <= edits
          /\ run.kind = "cycle" => Covered(run.since)
      BY <1>2 DEF IInv, DeviceType, CycleInv, RunInv
    <2>2. /\ todo \in Seq(ReqRecord)
          /\ \A i \in 1..Len(todo) : todo[i].op = "get"
      <3>0. <<>> \in Seq(ReqRecord) /\ \A i \in 1..Len(<<>>) : <<>>[i].op = "get"
        OBVIOUS
      <3>1. CASE todo = <<>>
        <4> HIDE DEF todo
        <4> QED BY <3>0, <3>1
      <3>2. CASE newest # None /\ todo = FetchManifest(newest.object)
        <4> DEFINE o == newest.object
                   refs == contents[o[2]].refs
        <4>1. /\ SettingsRoot \in Root /\ Device \in Provider
              /\ \E q \in Provider : newest = roots[<<SettingsRoot, q>>]
          <5>1. VisibleCandidates(Device, SettingsRoot) # {}
            BY <3>2 DEF LatestRoot
          <5>2. \A q \in VisibleCandidates(Device, SettingsRoot) :
                   q = Device /\ roots[<<SettingsRoot, q>>] # None
            BY CycleAssumption DEF VisibleCandidates, CandidatePublishers, PublishedRoots, IInv,
                                   StoreInv, RootsInv
          <5>3. ASSUME NEW q \in VisibleCandidates(Device, SettingsRoot)
                PROVE  \A x \in VisibleCandidates(Device, SettingsRoot) :
                          roots[<<SettingsRoot, x>>].sequence
                             <= roots[<<SettingsRoot, q>>].sequence
            <6>1. roots[<<SettingsRoot, Device>>].sequence \in Nat
              BY <5>2, CycleAssumption DEF IInv, StoreInv, StoreType
            <6> QED BY <5>2, <6>1
          <5>4. newest = roots[<<SettingsRoot, Device>>]
            BY <5>1, <5>2, <5>3 DEF LatestRoot
          <5> QED BY <5>4, CycleAssumption
        <4>2. o \in Object /\ o[2] \in 1..attempts
          BY <3>2, <4>1 DEF IInv, StoreInv, StoreType, RootsInv, RootOf
        <4>3. contents[o[2]] \in Contents
          BY <4>2 DEF IInv, DeviceType
        <4>4. refs \in Seq(Object)
          BY <4>3 DEF Contents
        <4> HIDE DEF refs
        <4>5. todo = [i \in 1..Len(refs) + 1 |-> Req("get", Device, IF i = 1 THEN o ELSE refs[i - 1])]
          BY <3>2 DEF FetchManifest, refs
        <4> HIDE DEF todo, o
        <4>6. \A i \in 1..Len(refs) + 1 :
                 LET x == IF i = 1 THEN o ELSE refs[i - 1]
                 IN x \in Object
          BY <4>2, <4>4
        <4>7. \A x \in Object : Req("get", Device, x) \in ReqRecord /\ Req("get", Device, x).op = "get"
          BY <4>1 DEF Req, ReqRecord
        <4>8. /\ \A i \in 1..Len(refs) + 1 : todo[i] \in ReqRecord /\ todo[i].op = "get"
              /\ DOMAIN todo = 1..Len(refs) + 1
          BY <4>5, <4>6, <4>7
        <4>9. Len(refs) + 1 \in Nat
          BY <4>4
        <4>10. todo \in Seq(ReqRecord) /\ Len(todo) = Len(refs) + 1
          BY <4>5, <4>8, <4>9
        <4> QED BY <4>8, <4>10
      <3> QED BY <3>1, <3>2
    <2> HIDE DEF todo
    <2>3. /\ run' \in RunRecord /\ run'.pc = "retain" /\ run'.ids = run.ids
          /\ run'.kind = run.kind /\ run'.todo = todo /\ run'.since = run.since
      BY <1>2, <2>1, <2>2 DEF RunRecord, Pc
    <2>4. TodoInv'
      BY <2>2, <2>3 DEF TodoInv, RetainsFirst, PublishesLast
    <2> QED BY <1>2, <2>1, <2>3, <2>4, RunStep
  <1> QED BY <1>1, <1>2 DEF SharedRootCandidates

(* The list that goes to a provider is in the order of the object ids, so  *)
(* each root object comes after all it leads to.                           *)
LEMMA RetainKeepsIInv == ASSUME IInv, RetainAtProvider PROVE IInv'
  <1>1. /\ run \in RunRecord /\ run.since <= edits
        /\ run.kind = "cycle" => Covered(run.since)
        /\ run.pc = "retain"
    BY DEF IInv, DeviceType, CycleInv, RunInv, RetainAtProvider
  <1>2. PICK i : i = Min(run.selected)
    OBVIOUS
  <1>3. i \in 1..Len(Handles) /\ Handles[i] \in Provider
    <2>1. /\ run.selected \subseteq 1..Len(Handles) /\ Handles \in Seq(Provider)
          /\ 1..Len(Handles) \subseteq Nat
      BY <1>1, CycleAssumption DEF RunRecord
    <2>2. i \in run.selected
      BY <1>2, <2>1, MinIsMember DEF RetainAtProvider
    <2> QED BY <2>1, <2>2
  <1>4. PICK ids : ids = run.ids
    OBVIOUS
  <1>5. PICK todo : todo = [k \in 1..Len(ids) |-> Req("retain", Handles[i], ids[k])]
    OBVIOUS
  <1>6. /\ run' = [run EXCEPT !.selected = run.selected \ {i}, !.todo = todo]
        /\ UNCHANGED <<serviceVars, edits, db, attempts, contents, outcome>>
    BY <1>2, <1>4, <1>5 DEF RetainAtProvider
  <1>7. ids \in Seq(Object)
    BY <1>1, <1>4 DEF RunRecord
  <1>8. /\ \A k \in 1..Len(ids) : /\ todo[k] \in ReqRecord
                                  /\ todo[k].op = "retain" /\ todo[k].object = ids[k]
                                  /\ todo[k].provider = Handles[i]
        /\ todo \in Seq(ReqRecord) /\ Len(todo) = Len(ids)
    <2>1. \A x \in Object : /\ Req("retain", Handles[i], x) \in ReqRecord
                            /\ Req("retain", Handles[i], x).op = "retain"
                            /\ Req("retain", Handles[i], x).object = x
                            /\ Req("retain", Handles[i], x).provider = Handles[i]
      BY <1>3 DEF Req, ReqRecord
    <2>2. \A k \in 1..Len(ids) : /\ todo[k] \in ReqRecord
                                 /\ todo[k].op = "retain" /\ todo[k].object = ids[k]
                                 /\ todo[k].provider = Handles[i]
      BY <1>5, <1>7, <2>1
    <2>3. Len(ids) \in Nat /\ DOMAIN todo = 1..Len(ids)
      BY <1>5, <1>7
    <2>4. todo \in Seq(ReqRecord) /\ Len(todo) = Len(ids)
      BY <1>5, <2>2, <2>3
    <2> QED BY <2>2, <2>4
  <1>9. /\ run' \in RunRecord /\ run'.pc = "retain" /\ run'.ids = run.ids
        /\ run'.kind = run.kind /\ run'.todo = todo /\ run'.since = run.since
    BY <1>1, <1>6, <1>8 DEF RunRecord
  <1>10. TodoInv'
    <2>1. Ordered(ids, attempts, contents)
      BY <1>4 DEF IInv, CycleInv, IdsInv
    <2>2. ASSUME NEW k \in 1..Len(ids)
          PROVE  RetainsFirst(todo, k)' /\ PublishesLast(todo, k)'
      <3>1. UNCHANGED <<attempts, contents, retained>>
        BY <1>6 DEF serviceVars, storeVars
      <3>2. todo[k].op = "retain" /\ todo[k].object = ids[k] /\ todo[k].provider = Handles[i]
        BY <1>8
      <3>3. ASSUME ids[k][1] \in RootKind
            PROVE  /\ ids[k][2] \in 1..attempts
                   /\ \A x \in Leads(contents, ids[k]) :
                         x = ids[k] \/ \E j \in 1..k - 1 : Asks(todo[j], {"retain"}, Handles[i], x)
        <4>1. /\ ids[k][2] \in 1..attempts
              /\ \A x \in Leads(contents, ids[k]) : x = ids[k] \/ \E j \in 1..k - 1 : ids[j] = x
          BY <2>1, <3>3 DEF Ordered
        <4>2. \A j \in 1..k - 1 : j \in 1..Len(ids)
          BY <1>7
        <4> QED BY <1>8, <4>1, <4>2 DEF Asks
      <3>4. PublishesLast(todo, k)'
        BY <3>2 DEF PublishesLast
      <3>5. RetainsFirst(todo, k)'
        BY <3>1, <3>2, <3>3 DEF RetainsFirst, Leads
      <3> QED BY <3>4, <3>5
    <2> QED BY <1>8, <1>9, <2>2 DEF TodoInv
  <1> QED BY <1>1, <1>6, <1>9, <1>10, RunStep

(* The health of the two roots. *)
LEMMA SettingsHealthKeepsIInv == ASSUME IInv, SettingsRootHealth PROVE IInv'
  <1>1. CASE Fail /\ UNCHANGED <<serviceVars, edits, db, attempts, contents>>
    BY <1>1, FailStep
  <1>2. CASE /\ run.pc = "retain" /\ run.todo = <<>> /\ run' = [run EXCEPT !.pc = "headHealth"]
             /\ ~RootHealth(Device, SettingsRoot, MinimumRetaining).degraded
             /\ UNCHANGED <<serviceVars, edits, db, attempts, contents, outcome>>
    <2>1. /\ run \in RunRecord /\ run.since <= edits
          /\ run.kind = "cycle" => Covered(run.since)
      BY <1>2 DEF IInv, DeviceType, CycleInv, RunInv
    <2>2. /\ run' \in RunRecord /\ run'.pc = "headHealth" /\ run'.ids = run.ids
          /\ run'.kind = run.kind /\ run'.todo = <<>> /\ run'.since = run.since
      BY <1>2, <2>1 DEF RunRecord, Pc
    <2>3. TodoInv'
      BY <2>2 DEF TodoInv
    <2>4. Durable(SettingsRoot)
      BY <1>2, HealthyIsDurable, CycleAssumption
    <2> QED BY <1>2, <2>1, <2>2, <2>3, <2>4, RunStep
  <1> QED BY <1>1, <1>2 DEF SettingsRootHealth

LEMMA HeadHealthKeepsIInv == ASSUME IInv, HeadRootHealth PROVE IInv'
  <1>1. CASE Fail /\ UNCHANGED <<serviceVars, edits, db, attempts, contents>>
    BY <1>1, FailStep
  <1>2. CASE /\ run.pc = "headHealth" /\ Ok
             /\ ~RootHealth(Device, HeadRoot, MinimumRetaining).degraded
             /\ UNCHANGED <<serviceVars, edits, db, attempts, contents>>
    <2>1. /\ run \in RunRecord /\ Durable(SettingsRoot)
          /\ run.kind = "cycle" => Covered(run.since)
      BY <1>2 DEF IInv, DeviceType, CycleInv, RunInv
    <2>2. Durable(HeadRoot)
      BY <1>2, HealthyIsDurable, CycleAssumption
    <2>3. \A r \in Root : Durable(r)
      BY <2>1, <2>2, CycleAssumption
    <2>4. UNCHANGED <<roots, contents, retained, attempts, edits>>
      BY <1>2 DEF serviceVars, storeVars
    <2>5. PICK out : out = [kind |-> run.kind, since |-> run.since]
      OBVIOUS
    <2>6. /\ out \in [kind : {"cycle", "compaction"}, since : Nat]
          /\ out.kind = "cycle" => Covered(out.since)
      BY <2>1, <2>5 DEF RunRecord
    <2>7. run' = NoRun /\ outcome' = out
      BY <1>2, <2>5 DEF Ok
    <2>8. /\ \A r \in Root : Durable(r)'
          /\ out.kind = "cycle" => Covered(out.since)'
      BY <2>3, <2>4, <2>6 DEF Durable, Holders, Leads, Published, RootOf, Covered
    <2>9. OutcomeInv'
      BY <2>6, <2>7, <2>8 DEF OutcomeInv, NoRun
    <2>10. NoRun \in RunRecord /\ edits \in Nat
      BY DEF NoRun, RunRecord, Pc, IInv, DeviceType
    <2>11. DeviceType'
      BY <1>2, <2>7, <2>10 DEF IInv, DeviceType
    <2>12. StoreInv'
      BY <1>2, StoreSame DEF IInv
    <2>13. TodoInv' /\ IdsInv' /\ PublishingInv' /\ RunInv' /\ ScanInv'
      BY <2>4, <2>7, <2>10 DEF NoRun, TodoInv, IdsInv, Ordered, PublishingInv, RunInv, ScanInv
    <2> QED BY <2>9, <2>11, <2>12, <2>13 DEF IInv, CycleInv
  <1> QED BY <1>1, <1>2 DEF HeadRootHealth

-----------------------------------------------------------------------------
(* The theorems. *)

LEMMA NextIInv == ASSUME IInv, [CycleNext]_vars PROVE IInv'
  <1>1. CASE UNCHANGED vars
    <2>1. UNCHANGED <<serviceVars, edits, db, attempts, contents>> /\ UNCHANGED <<run, outcome>>
      BY <1>1 DEF vars, deviceVars
    <2>2. UNCHANGED <<objects, lost, retained, roots>>
      BY <2>1 DEF serviceVars, storeVars, faultVars
    <2>3. StoreInv'
      BY <2>1, StoreSame DEF IInv
    <2>4. DeviceType'
      BY <2>1 DEF IInv, DeviceType
    <2>5. CycleInv'
      <3>1. TodoInv' /\ IdsInv'
        BY <2>1, <2>2 DEF IInv, CycleInv, TodoInv, RetainsFirst, PublishesLast, IdsInv, Ordered,
                          Leads, Stored
      <3>2. PublishingInv'
        BY <2>1, <2>2 DEF IInv, CycleInv, PublishingInv, Published, RootOf
      <3>3. /\ Durable(SettingsRoot)' = Durable(SettingsRoot)
            /\ \A r \in Root : Durable(r)' = Durable(r)
            /\ \A k : Covered(k)' = Covered(k)
        BY <2>1, <2>2 DEF Covered, Durable, Holders, Leads, Published, RootOf
      <3>4. RunInv' /\ OutcomeInv'
        BY <2>1, <3>3 DEF IInv, CycleInv, RunInv, OutcomeInv
      <3>5. ScanInv'
        BY <2>1 DEF IInv, CycleInv, ScanInv
      <3> QED BY <3>1, <3>2, <3>4, <3>5 DEF CycleInv
    <2> QED BY <2>3, <2>4, <2>5 DEF IInv
  <1>2. CASE \/ StartRun("cycle") \/ StartRun("compaction") \/ Preflight \/ Select
    BY <1>2, BeginKeepsIInv
  <1>3. CASE PublishStep \/ HeadRead \/ Record \/ Compact
    BY <1>3, PublishStepKeepsIInv, HeadReadKeepsIInv, RecordKeepsIInv, CompactKeepsIInv
  <1>4. CASE LoopExhausted \/ RequestFails \/ ManifestRefused \/ Stop
    BY <1>4, FailsKeepIInv
  <1>5. CASE Request1 \/ SharedRootCandidates \/ RetainAtProvider
    BY <1>5, RequestKeepsIInv, SharedKeepsIInv, RetainKeepsIInv
  <1>6. CASE SettingsRootHealth \/ HeadRootHealth
    BY <1>6, SettingsHealthKeepsIInv, HeadHealthKeepsIInv
  <1>7. CASE Edit \/ Fault
    BY <1>7, EditKeepsIInv, FaultKeepsIInv
  <1>8. CASE ReadDomain \/ DomainsRead
    BY <1>8, ReadDomainKeepsIInv, DomainsReadKeepsIInv
  <1> QED BY <1>1, <1>2, <1>3, <1>4, <1>5, <1>6, <1>7, <1>8 DEF CycleNext

LEMMA IInvHolds == CycleSpec => []IInv
  <1>1. IInv /\ [CycleNext]_vars => IInv'
    BY NextIInv
  <1> QED BY <1>1, InitIInv, PTL DEF CycleSpec

LEMMA RootsOfTheDevice == DeviceRoots = {r \in Root : Published(r)}
  BY CycleAssumption DEF DeviceRoots, PublishedRoots, Published

LEMMA ClosureIsLeads == \A r : Closure(roots[<<r, Device>>].object) = Leads(contents, RootOf(r))
  BY DEF Closure, Leads, RootOf

(***************************************************************************)
(* A root never gets ahead of its objects: in every state, also in the     *)
(* middle of a publication and after one that failed or was cut off, the   *)
(* device has stored all that a root it published leads to, except bytes   *)
(* that a fault removed (put_retained_root publishes after the puts).      *)
(***************************************************************************)
THEOREM PublishedCorrect == CycleSpec => []PublishedIsComplete
  <1>1. IInv => PublishedIsComplete
    BY RootsOfTheDevice, ClosureIsLeads, CycleAssumption
       DEF IInv, StoreInv, RootsInv, Stored, Published, PublishedIsComplete
  <1> QED BY <1>1, IInvHolds, PTL

(***************************************************************************)
(* A run reports success only for durable state: when it has ended well,   *)
(* at least MinimumRetaining providers claim every object that the two     *)
(* roots lead to, although check_after_cycle counts the claims of the root *)
(* objects only and an earlier retention may have failed half way.         *)
(***************************************************************************)
THEOREM RetainedCorrect == CycleSpec => []OkMeansRetained
  <1>1. IInv => OkMeansRetained
    BY RootsOfTheDevice, ClosureIsLeads
       DEF IInv, CycleInv, OutcomeInv, Durable, Holders, OkMeansRetained
  <1> QED BY <1>1, IInvHolds, PTL

(* What a publication covers it carries, or its absence has one of the     *)
(* two causes.                                                             *)
Excused(i) == WrittenDuringScan(i) \/ OmittedByCompaction(i)

CarriesInv ==
    \A n \in 1..Len(contents) :
       \A i \in 1..contents[n].covers : i \in contents[n].carries \/ Excused(i)

LEMMA CarriesAppended ==
    ASSUME contents \in Seq(Contents), CarriesInv, NEW e \in Contents,
           contents' = Append(contents, e),
           \A i \in 1..e.covers : i \in e.carries \/ e.before < i \/ i \in e.omits
    PROVE  CarriesInv'
  <1>1. PICK N \in Nat : N = Len(contents)
    OBVIOUS
  <1>2. /\ Len(contents') = N + 1 /\ contents'[N + 1] = e
        /\ \A n \in 1..N : contents'[n] = contents[n]
    BY <1>1
  <1>3. ASSUME NEW i, Excused(i) PROVE Excused(i)'
    BY <1>1, <1>2, <1>3 DEF Excused, WrittenDuringScan, OmittedByCompaction
  <1>4. ASSUME NEW i \in 1..e.covers PROVE i \in e.carries \/ Excused(i)'
    <2>1. N + 1 \in 1..Len(contents')
      BY <1>1, <1>2
    <2>2. e.covers \in Nat
      BY DEF Contents
    <2> QED BY <1>2, <1>4, <2>1, <2>2 DEF Excused, WrittenDuringScan, OmittedByCompaction
  <1>5. ASSUME NEW n \in 1..Len(contents'), NEW i \in 1..contents'[n].covers
        PROVE  i \in contents'[n].carries \/ Excused(i)'
    <2>1. CASE n = N + 1
      BY <1>2, <1>4, <1>5, <2>1
    <2>2. CASE n \in 1..N
      <3>1. contents'[n] = contents[n] /\ n \in 1..Len(contents)
        BY <1>1, <1>2, <2>2
      <3>2. i \in contents[n].carries \/ Excused(i)
        BY <1>5, <3>1 DEF CarriesInv
      <3> QED BY <1>3, <3>1, <3>2
    <2> QED BY <1>1, <1>2, <2>1, <2>2
  <1> QED BY <1>5 DEF CarriesInv

(* What was there when the scan began has been read, or is in the snapshot *)
(* that the manifest refers to.                                            *)
LEMMA ScanCarries ==
    ASSUME IInv, CarriesInv, DomainsRead PROVE CarriesInv'
  <1>1. CASE UNCHANGED contents
    BY <1>1 DEF CarriesInv, Excused, WrittenDuringScan, OmittedByCompaction
  <1>2. ASSUME NEW last \in run.read, \A i \in run.read : i <= last,
               \/ db.snapshot = None /\ PublishFullSnapshot(last)
               \/ db.snapshot # None /\ CoveredDomainsIncluded /\ PublishTail(last)
        PROVE  CarriesInv'
    <2>1. /\ last \in Nat /\ run.before \in Nat /\ db.covers < last
          /\ run.read \subseteq 1..MaxEdits
          /\ \A i \in db.covers + 1 .. run.before : i \in run.read
      BY <1>2, ScanEnds DEF DomainsRead
    <2>2. contents \in Seq(Contents) /\ db \in DbRecord /\ db.covers \in Nat
      BY DEF IInv, DeviceType, DbRecord
    <2>3. attempts < MaxAttempts
      BY <1>2 DEF PublishFullSnapshot, PublishTail, Publish
    <2>4. attempts + 1 \in 1..MaxAttempts
      BY <2>3, BeginsTyped
    <2>5. CASE db.snapshot = None /\ PublishFullSnapshot(last)
      <3> DEFINE S == <<"snapshot", attempts + 1>>
                 carries == InDomains(Domains(run.read), last)
                 e == Content(<<S>>, carries, last, run.before, {})
      <3>1. contents' = Append(contents, e)
        BY <2>5 DEF PublishFullSnapshot, Publish
      <3>2. db.covers = 0
        BY <2>5 DEF IInv, StoreInv, RecordInv
      <3>3. ASSUME NEW i \in 1..last PROVE i \in carries \/ run.before < i
        <4>1. CASE i <= run.before
          <5>1. i \in run.read
            BY <2>1, <3>2, <3>3, <4>1
          <5> QED BY <3>3, <5>1 DEF InDomains, Domains
        <4> QED BY <2>1, <3>3, <4>1
      <3>4. carries \in SUBSET Nat /\ <<S>> \in Seq(Object)
        <4>1. S \in Object
          BY <2>4, ObjectsOf
        <4>2. carries \in SUBSET Nat
          BY <2>1, DomainsTyped
        <4> HIDE DEF S
        <4> QED BY <4>1, <4>2
      <3> HIDE DEF carries, S
      <3>5. /\ e \in Contents /\ e.covers = last /\ e.carries = carries
            /\ e.before = run.before
        BY <2>1, <3>4 DEF Contents, Content
      <3> HIDE DEF e
      <3> QED BY <2>2, <3>1, <3>3, <3>5, CarriesAppended
    <2>6. CASE db.snapshot # None /\ CoveredDomainsIncluded /\ PublishTail(last)
      <3> DEFINE refs == <<db.snapshot, <<"tails", attempts + 1>>>>
                 carries == InDomains(db.domains, db.covers) \cup run.read
                 e == Content(refs, carries, last, run.before, {})
      <3>1. contents' = Append(contents, e)
        BY <2>6 DEF PublishTail, Publish
      <3>2. ASSUME NEW i \in 1..last PROVE i \in carries \/ run.before < i
        <4>1. CASE i <= db.covers
          <5>1. i \in 1..db.covers
            BY <2>2, <3>2, <4>1
          <5> QED BY <2>6, <5>1 DEF CoveredDomainsIncluded, InDomains, Domains
        <4>2. CASE i > db.covers /\ i <= run.before
          BY <2>1, <2>2, <3>2, <4>2
        <4> QED BY <2>1, <2>2, <3>2, <4>1, <4>2
      <3>3. carries \in SUBSET Nat
        BY <2>1, <2>2, DomainsTyped
      <3>4. refs \in Seq(Object)
        <4>1. db.snapshot \in Object
          BY <2>2, <2>6 DEF DbRecord
        <4>2. <<"tails", attempts + 1>> \in Object
          BY <2>4, ObjectsOf
        <4> QED BY <4>1, <4>2
      <3> HIDE DEF carries, refs
      <3>5. /\ e \in Contents /\ e.covers = last /\ e.carries = carries
            /\ e.before = run.before
        BY <2>1, <3>3, <3>4 DEF Contents, Content
      <3> HIDE DEF e
      <3> QED BY <2>2, <3>1, <3>2, <3>5, CarriesAppended
    <2> QED BY <1>2, <2>5, <2>6
  <1> QED BY <1>1, <1>2 DEF DomainsRead, Idle

(* The changes up to the compaction are in its snapshot or are left out. *)
LEMMA CompactionCarries ==
    ASSUME IInv, CarriesInv, NEW c \in db.covers + 1 .. edits, CompactTo(c) PROVE CarriesInv'
  <1> DEFINE S == <<"snapshot", attempts + 1>>
             T == <<"tails", attempts + 1>>
             D == Domains(db.covers + 1 .. c)
             carries == InDomains(D, c) \cup (c + 1 .. edits)
             omits == (1..c) \ InDomains(D, c)
  <1>1. contents \in Seq(Contents) /\ edits \in Nat /\ db.covers \in Nat /\ c \in Nat
    BY DEF IInv, DeviceType, DbRecord
  <1>2. \A i \in 1..edits : i \in carries \/ i \in omits
    BY <1>1
  <1>3. attempts < MaxAttempts
    BY DEF CompactTo, Publish
  <1>4. <<S>> \in Seq(Object) /\ <<S, T>> \in Seq(Object)
    <2>1. attempts + 1 \in 1..MaxAttempts
      BY <1>3, BeginsTyped
    <2>2. S \in Object /\ T \in Object
      BY <2>1, ObjectsOf
    <2> HIDE DEF S, T
    <2> QED BY <2>2
  <1>5. carries \in SUBSET Nat /\ omits \in SUBSET Nat
    BY <1>1, DomainsTyped
  <1>6. PICK refs \in {<<S>>, <<S, T>>} :
           contents' = Append(contents, Content(refs, carries, edits, edits, omits))
    BY DEF CompactTo, Publish
  <1>7. refs \in Seq(Object)
    BY <1>4, <1>6
  <1> DEFINE e == Content(refs, carries, edits, edits, omits)
  <1> HIDE DEF carries, omits
  <1>8. e \in Contents /\ e.covers = edits /\ e.carries = carries /\ e.omits = omits
    BY <1>1, <1>5, <1>7 DEF Contents, Content
  <1>9. contents' = Append(contents, e)
    BY <1>6
  <1> HIDE DEF e
  <1> QED BY <1>1, <1>2, <1>8, <1>9, CarriesAppended

LEMMA NextCarries ==
    ASSUME IInv, CarriesInv, [CycleNext]_vars PROVE CarriesInv'
  <1>1. CASE UNCHANGED contents
    BY <1>1 DEF CarriesInv, Excused, WrittenDuringScan, OmittedByCompaction
  <1>2. CASE DomainsRead
    BY <1>2, ScanCarries
  <1>3. CASE Compact
    BY <1>1, <1>3, CompactionCarries DEF Compact
  <1>4. CASE PublishStep \/ HeadRead
    BY <1>1, <1>4 DEF PublishStep, HeadRead, BeginScan, Idle, ReadHead
  <1> QED
    BY <1>1, <1>2, <1>3, <1>4
       DEF CycleNext, vars, deviceVars, StartRun, Preflight, Select, ReadDomain,
           ManifestRefused, LoopExhausted, Record, Request1, RequestFails,
           SharedRootCandidates, RetainAtProvider, SettingsRootHealth, HeadRootHealth, Edit,
           Stop, Fault

(***************************************************************************)
(* A sync cycle that ended well has published every change made before it  *)
(* began, whatever failed, stopped or was compacted before it, for any     *)
(* number of domains (run_pending_local_settings_sync ends without an      *)
(* error only when a step finds nothing to publish); only changes made     *)
(* while the domains of a publication were read and changes in a domain    *)
(* that a compaction left out may be missing.                              *)
(***************************************************************************)
THEOREM OkPublishedCorrect == CycleSpec => []OkMeansPublished
  <1>1. CycleInit => CarriesInv
    BY DEF CycleInit, CarriesInv
  <1>2. IInv /\ CarriesInv /\ [CycleNext]_vars => CarriesInv'
    BY NextCarries
  <1>3. ASSUME IInv, CarriesInv, run.pc = "idle", outcome # None, outcome.kind = "cycle",
               NEW i \in 1..outcome.since
        PROVE  \/ \E r \in DeviceRoots : i \in contents[roots[<<r, Device>>].object[2]].carries
               \/ Excused(i)
    <2>1. outcome.since \in Nat /\ Covered(outcome.since)
      BY <1>3 DEF IInv, CycleInv, OutcomeInv
    <2>2. PICK r \in Root : Published(r) /\ contents[RootOf(r)[2]].covers >= outcome.since
      BY <1>3, <2>1 DEF Covered
    <2>3. PICK n \in 1..attempts : n = RootOf(r)[2]
      BY <1>3, <2>2, CycleAssumption DEF IInv, StoreInv, RootsInv, Published
    <2>4. n \in 1..Len(contents) /\ contents[n] \in Contents
      BY <1>3, <2>3 DEF IInv, DeviceType
    <2>5. contents[n].covers \in Nat
      BY <2>4 DEF Contents
    <2>6. i \in 1..contents[n].covers
      BY <2>1, <2>2, <2>3, <2>5
    <2>7. i \in contents[n].carries \/ Excused(i)
      BY <1>3, <2>4, <2>6 DEF CarriesInv
    <2> QED BY <2>2, <2>3, <2>7, RootsOfTheDevice DEF RootOf
  <1>4. IInv /\ CarriesInv => OkMeansPublished
    BY <1>3 DEF OkMeansPublished, Excused
  <1> QED BY <1>1, <1>2, <1>4, IInvHolds, PTL DEF CycleSpec

=============================================================================
