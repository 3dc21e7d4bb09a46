--------------------------- MODULE EnrollmentProofs ---------------------------
(***************************************************************************)
(* That a profile belongs to one secret, that an activation cut short can  *)
(* be repeated, that a revoked device stays out and that the key in memory *)
(* is the profile's, for any number of browsers, secrets, handler threads, *)
(* requests, crashes and revocations.                                      *)
(***************************************************************************)
EXTENDS Enrollment, TLAPS

(* No membership record has been applied. *)
Untouched(t) ==
    /\ t.applied = {} /\ t.stored = {}
    /\ \A d \in Member : t.keys[d] = NoKey

(* The row that the records applied for device d leave behind. *)
RowOf(t, s, d) ==
    IF Enroll(s, d) \in t.applied
    THEN [key |-> <<s, d>>, epoch |-> 1, trusted |-> Revoke(s, d) \notin t.applied]
    ELSE NoKey

(* All records are s's, and the key rows are what they say. *)
OwnedBy(t, s) ==
    /\ t.stored = t.applied
    /\ Enroll(s, Authority) \in t.applied
    /\ t.applied \subseteq {Enroll(s, d) : d \in Member} \cup {Revoke(s, d) : d \in Browser}
    /\ \A d \in Member : t.keys[d] = RowOf(t, s, d)
    /\ ~t.provider[Authority]

DbInv(t) == t \in Tables /\ (Untouched(t) \/ \E s \in Secret : OwnedBy(t, s))

(* A call under way has a generated secret and a browser as its target,    *)
(* and one that will deliver a key has it in memory.                       *)
CallOk(c, m, g) ==
    c.pc # "idle" =>
       /\ c.secret \in g
       /\ c.target \in Browser
       /\ c.pc = "deliver" \/ c.kind = "key" => m.export # NoSecret

CallsOk == \A b \in Browser, h \in Handler : CallOk(call[b][h], memory[b], generated)

MemoryOk == \A b \in Browser : memory[b].export \in generated \cup {NoSecret}

IInv == TypeOK /\ CallsOk /\ MemoryOk /\ \A b \in Browser : DbInv(db[b])

-----------------------------------------------------------------------------

(* Signed records are told apart by secret, device and kind. *)
LEMMA RecordsDiffer ==
    /\ \A s, u \in Secret, d, e \in Member : Enroll(s, d) = Enroll(u, e) => s = u /\ d = e
    /\ \A s, u \in Secret, d, e \in Member : Revoke(s, d) = Revoke(u, e) => s = u /\ d = e
    /\ \A s, u \in Secret, d, e \in Member : Enroll(s, d) # Revoke(u, e)
  <1>1. \A s, u \in Secret, d, e \in Member : Enroll(s, d) = Enroll(u, e) => s = u /\ d = e
    <2> SUFFICES ASSUME NEW s \in Secret, NEW u \in Secret, NEW d \in Member, NEW e \in Member,
                        Enroll(s, d) = Enroll(u, e)
                 PROVE  s = u /\ d = e
      OBVIOUS
    <2>1. Enroll(s, d).key = <<s, d>> /\ Enroll(u, e).key = <<u, e>>
      BY DEF Enroll
    <2> QED BY <2>1
  <1>2. \A s, u \in Secret, d, e \in Member : Revoke(s, d) = Revoke(u, e) => s = u /\ d = e
    <2> SUFFICES ASSUME NEW s \in Secret, NEW u \in Secret, NEW d \in Member, NEW e \in Member,
                        Revoke(s, d) = Revoke(u, e)
                 PROVE  s = u /\ d = e
      OBVIOUS
    <2>1. /\ Revoke(s, d).signerKey = <<s, Authority>> /\ Revoke(s, d).device = d
          /\ Revoke(u, e).signerKey = <<u, Authority>> /\ Revoke(u, e).device = e
      BY DEF Revoke
    <2> QED BY <2>1
  <1>3. \A s, u \in Secret, d, e \in Member : Enroll(s, d) # Revoke(u, e)
    <2> SUFFICES ASSUME NEW s \in Secret, NEW u \in Secret, NEW d \in Member, NEW e \in Member
                 PROVE  Enroll(s, d) # Revoke(u, e)
      OBVIOUS
    <2>1. Enroll(s, d).epoch = 1 /\ Revoke(u, e).epoch = 2
      BY DEF Enroll, Revoke
    <2> QED BY <2>1
  <1> QED BY <1>1, <1>2, <1>3

(* A signed record is an enrollment or a revocation of one secret. *)
LEMMA RecordShape ==
    ASSUME NEW r \in SignedRecord
    PROVE  \E s \in Secret : \/ \E d \in Member : r = Enroll(s, d)
                             \/ \E d \in Browser : r = Revoke(s, d)
  BY DEF SignedRecord

(* What applying a record leaves in the tables is of their type. *)
LEMMA ApplyTyped ==
    ASSUME NEW t \in Tables, NEW r \in SignedRecord
    PROVE  ApplyRecord(t, r) \in Tables
  <1>1. PICK s \in Secret : \/ \E d \in Member : r = Enroll(s, d)
                            \/ \E d \in Browser : r = Revoke(s, d)
    BY RecordShape
  <1>2. r.device \in Member
    BY <1>1 DEF Enroll, Revoke, Member
  <1>3. DeviceKeyAfter(t, r) \in KeyRow \cup {NoKey}
    <2>1. CASE \E d \in Member : r = Enroll(s, d)
      <3>1. r.kind # "revoke-device" /\ r.key \in KeyOf /\ r.epoch = 1
        BY <2>1 DEF Enroll, KeyOf
      <3> QED BY <3>1 DEF DeviceKeyAfter, KeyRow
    <2>2. CASE \E d \in Browser : r = Revoke(s, d)
      <3>1. r.kind = "revoke-device"
        BY <2>2 DEF Revoke
      <3>2. t.keys[r.device] \in KeyRow \cup {NoKey}
        BY <1>2 DEF Tables
      <3> QED BY <3>1, <3>2 DEF DeviceKeyAfter, KeyRow
    <2> QED BY <1>1, <2>1, <2>2
  <1>4. ProviderAfter(t, r) \in BOOLEAN
    BY <1>2 DEF ProviderAfter, Tables
  <1> QED BY <1>2, <1>3, <1>4 DEF ApplyRecord, Tables

(* What applying record r does, field by field. *)
LEMMA ApplyEffect ==
    ASSUME NEW t \in Tables, NEW r \in SignedRecord, NEW u, u = ApplyRecord(t, r)
    PROVE  /\ u.stored = t.stored \cup {r}
           /\ u.applied = t.applied \cup {r}
           /\ \A d \in Member :
                 u.keys[d] = IF d = r.device THEN DeviceKeyAfter(t, r) ELSE t.keys[d]
           /\ \A d \in Member :
                 u.provider[d] = IF d = r.device THEN ProviderAfter(t, r) ELSE t.provider[d]
  BY DEF ApplyRecord, Tables

(* The empty database accepts only the first enrollment of an authority. *)
LEMMA FirstRecord ==
    ASSUME NEW t \in Tables, Untouched(t), NEW r \in SignedRecord, Accepts(t, r)
    PROVE  \E s \in Secret : r = Enroll(s, Authority) /\ OwnedBy(ApplyRecord(t, r), s)
  <1>1. PICK s \in Secret : \/ \E d \in Member : r = Enroll(s, d)
                            \/ \E d \in Browser : r = Revoke(s, d)
    BY RecordShape
  <1>2. r.kind = "enroll-device" /\ r.device = r.signer
    <2>1. Authority \in Member
      BY DEF Member
    <2>2. r.signer = Authority
      BY <1>1 DEF Enroll, Revoke
    <2>3. ~Trusted(t, Authority)
      BY <2>1 DEF Trusted, Untouched
    <2> QED BY <2>2, <2>3 DEF Accepts, Authorized, SignerTrusted, Bootstraps
  <1>3. r = Enroll(s, Authority)
    BY <1>1, <1>2 DEF Enroll, Revoke
  <1> DEFINE u == ApplyRecord(t, r)
  <1>4. /\ u.stored = {r} /\ u.applied = {r}
        /\ \A d \in Member :
              u.keys[d] = IF d = Authority THEN DeviceKeyAfter(t, r) ELSE NoKey
        /\ u.provider[Authority] = ProviderAfter(t, r)
    <2>1. r.device = Authority /\ Authority \in Member
      BY <1>3 DEF Enroll, Member
    <2> QED BY <2>1, ApplyEffect DEF Untouched
  <1>5. /\ DeviceKeyAfter(t, r) = [key |-> <<s, Authority>>, epoch |-> 1, trusted |-> TRUE]
        /\ ProviderAfter(t, r) = FALSE
    BY <1>2, <1>3 DEF DeviceKeyAfter, ProviderAfter, Enroll
  <1>6. ASSUME NEW d \in Member PROVE u.keys[d] = RowOf(u, s, d)
    <2>1. Enroll(s, d) \in u.applied <=> d = Authority
      BY <1>3, <1>4, RecordsDiffer DEF Member
    <2>2. Revoke(s, d) \notin u.applied
      BY <1>3, <1>4, RecordsDiffer DEF Member
    <2> HIDE DEF u
    <2> QED BY <1>4, <1>5, <2>1, <2>2 DEF RowOf
  <1>7. OwnedBy(u, s)
    <2> HIDE DEF u
    <2> QED BY <1>3, <1>4, <1>5, <1>6 DEF OwnedBy, Member
  <1> QED BY <1>3, <1>7

(* The authority's row in a database that belongs to s. *)
LEMMA AuthorityRow ==
    ASSUME NEW t, NEW s \in Secret, OwnedBy(t, s)
    PROVE  t.keys[Authority] = [key |-> <<s, Authority>>, epoch |-> 1, trusted |-> TRUE]
  <1>1. Authority \in Member
    BY DEF Member
  <1>2. Revoke(s, Authority) \notin t.applied
    BY <1>1, RecordsDiffer, NameAssumption DEF OwnedBy, Member
  <1> QED BY <1>1, <1>2 DEF OwnedBy, RowOf

(* A database that belongs to s accepts only records of s, and stays s's. *)
LEMMA NextRecord ==
    ASSUME NEW t \in Tables, NEW s \in Secret, OwnedBy(t, s),
           NEW r \in SignedRecord, Accepts(t, r)
    PROVE  OwnedBy(ApplyRecord(t, r), s)
  <1> DEFINE u == ApplyRecord(t, r)
  <1>1. Authority \in Member /\ t.keys[Authority] # NoKey
    <2>1. [key |-> <<s, Authority>>, epoch |-> 1, trusted |-> TRUE] \in KeyRow
      BY DEF KeyRow, KeyOf, Member
    <2>2. t.keys[Authority] \in KeyRow
      BY <2>1, AuthorityRow
    <2> QED BY <2>2, KeyAssumption DEF Member
  <1>2. r.signer = Authority
    BY RecordShape DEF Enroll, Revoke
  <1>3. r.signerKey = <<s, Authority>>
    <2>1. ~Bootstraps(t, r)
      BY <1>1 DEF Bootstraps
    <2>2. t.keys[Authority].key = r.signerKey
      BY <1>2, <2>1 DEF Accepts, Authorized, SignerTrusted
    <2>3. t.keys[Authority] = [key |-> <<s, Authority>>, epoch |-> 1, trusted |-> TRUE]
      BY AuthorityRow
    <2> QED BY <2>2, <2>3
  <1>4. \/ \E d \in Member : r = Enroll(s, d)
        \/ \E d \in Browser : r = Revoke(s, d)
    <2>1. PICK v \in Secret : \/ \E d \in Member : r = Enroll(v, d)
                              \/ \E d \in Browser : r = Revoke(v, d)
      BY RecordShape
    <2>2. r.signerKey = <<v, Authority>>
      BY <2>1 DEF Enroll, Revoke
    <2>3. v = s
      BY <1>3, <2>2
    <2> QED BY <2>1, <2>3
  <1>5. PICK d \in Member : r = Enroll(s, d) \/ (d \in Browser /\ r = Revoke(s, d))
    BY <1>4 DEF Member
  <1>6. r.device = d
    BY <1>5 DEF Enroll, Revoke
  <1>7. d # Authority
    BY <1>5, NameAssumption DEF OwnedBy, Accepts
  <1>8. /\ u.stored = t.stored \cup {r}
        /\ u.applied = t.applied \cup {r}
        /\ \A e \in Member : u.keys[e] = IF e = d THEN DeviceKeyAfter(t, r) ELSE t.keys[e]
        /\ u.provider[Authority] = t.provider[Authority]
    BY <1>1, <1>6, <1>7, ApplyEffect
  <1> HIDE DEF u
  <1>9. ASSUME NEW e \in Member, e # d PROVE u.keys[e] = RowOf(u, s, e)
    <2>1. Enroll(s, e) \in u.applied <=> Enroll(s, e) \in t.applied
      BY <1>5, <1>8, <1>9, RecordsDiffer
    <2>2. Revoke(s, e) \in u.applied <=> Revoke(s, e) \in t.applied
      BY <1>5, <1>8, <1>9, RecordsDiffer
    <2>3. t.keys[e] = RowOf(t, s, e)
      BY DEF OwnedBy
    <2> QED BY <1>8, <1>9, <2>1, <2>2, <2>3 DEF RowOf
  <1>10. u.keys[d] = RowOf(u, s, d)
    <2>1. CASE r = Enroll(s, d)
      <3>1. Revoke(s, d).device = d /\ Revoke(s, d).epoch = 2 /\ r.epoch = 1
        BY <2>1 DEF Enroll, Revoke
      <3>2. Revoke(s, d) \notin t.applied
        BY <1>6, <3>1 DEF Accepts, Stale
      <3>3. Revoke(s, d) \notin u.applied
        BY <1>8, <2>1, <3>2, RecordsDiffer
      <3>4. DeviceKeyAfter(t, r) = [key |-> <<s, d>>, epoch |-> 1, trusted |-> TRUE]
        BY <2>1 DEF DeviceKeyAfter, Enroll
      <3> QED BY <1>8, <2>1, <3>3, <3>4 DEF RowOf
    <2>2. CASE r = Revoke(s, d)
      <3>1. Enroll(s, d) \in u.applied <=> Enroll(s, d) \in t.applied
        BY <1>8, <2>2, RecordsDiffer
      <3>2. r.kind = "revoke-device"
        BY <2>2 DEF Revoke
      <3>3. t.keys[d] = RowOf(t, s, d)
        BY DEF OwnedBy
      <3>4. CASE Enroll(s, d) \notin t.applied
        <4>1. t.keys[d] = NoKey
          BY <3>3, <3>4 DEF RowOf
        <4>2. DeviceKeyAfter(t, r) = NoKey
          BY <1>6, <3>2, <4>1 DEF DeviceKeyAfter
        <4> QED BY <1>8, <3>1, <3>4, <4>2 DEF RowOf
      <3>5. CASE Enroll(s, d) \in t.applied
        <4> DEFINE row == [key |-> <<s, d>>, epoch |-> 1,
                           trusted |-> Revoke(s, d) \notin t.applied]
        <4>1. t.keys[d] = row
          BY <3>3, <3>5 DEF RowOf
        <4>2. row \in KeyRow
          BY DEF KeyRow, KeyOf
        <4>3. DeviceKeyAfter(t, r) = [row EXCEPT !.trusted = FALSE]
          BY <1>6, <3>2, <4>1, <4>2, KeyAssumption DEF DeviceKeyAfter
        <4>4. DeviceKeyAfter(t, r) = [key |-> <<s, d>>, epoch |-> 1, trusted |-> FALSE]
          BY <4>3
        <4> QED BY <1>8, <2>2, <3>1, <3>5, <4>4 DEF RowOf
      <3> QED BY <3>4, <3>5
    <2> QED BY <1>5, <2>1, <2>2
  <1>11. u.applied \subseteq {Enroll(s, e) : e \in Member} \cup {Revoke(s, e) : e \in Browser}
    BY <1>5, <1>8 DEF OwnedBy
  <1>12. OwnedBy(u, s)
    BY <1>8, <1>9, <1>10, <1>11 DEF OwnedBy
  <1> QED BY <1>12 DEF u

(* So every record that is accepted keeps the database in order. *)
LEMMA RecordKeepsDbInv ==
    ASSUME NEW t, DbInv(t), NEW r \in SignedRecord, Accepts(t, r)
    PROVE  DbInv(ApplyRecord(t, r))
  BY ApplyTyped, FirstRecord, NextRecord DEF DbInv

LEMMA AfterKeepsDbInv ==
    ASSUME NEW t, DbInv(t), NEW r \in SignedRecord
    PROVE  DbInv(After(t, r))
  BY RecordKeepsDbInv DEF After

(* Registering a browser's device writes no row the records are about. *)
LEMMA RegisterKeepsDbInv ==
    ASSUME NEW t, DbInv(t), NEW b \in Browser
    PROVE  DbInv([t EXCEPT !.provider[b] = FALSE])
  <1> DEFINE u == [t EXCEPT !.provider[b] = FALSE]
  <1>1. b \in Member /\ b # Authority
    BY NameAssumption DEF Member
  <1>2. /\ u \in Tables /\ u.keys = t.keys /\ u.stored = t.stored /\ u.applied = t.applied
        /\ u.provider[Authority] = t.provider[Authority]
    <2>1. t \in Tables /\ t.provider \in [Member -> BOOLEAN] /\ Authority \in Member
      BY DEF DbInv, Tables, Member
    <2>2. /\ u.keys = t.keys /\ u.stored = t.stored /\ u.applied = t.applied
          /\ u.provider = [t.provider EXCEPT ![b] = FALSE]
      BY <2>1 DEF Tables
    <2>3. u \in Tables
      BY <2>1, <1>1 DEF Tables
    <2> QED BY <1>1, <2>1, <2>2, <2>3
  <1> HIDE DEF u
  <1>3. Untouched(t) => Untouched(u)
    BY <1>2 DEF Untouched
  <1>4. \A s \in Secret : OwnedBy(t, s) => OwnedBy(u, s)
    BY <1>2 DEF OwnedBy, RowOf
  <1>5. DbInv(u)
    BY <1>2, <1>3, <1>4 DEF DbInv
  <1> QED BY <1>5 DEF u

(* The rows and records of one device in a database that belongs to s. *)
LEMMA RecordsOfDevice ==
    ASSUME NEW t, NEW s \in Secret, OwnedBy(t, s), NEW r \in t.applied
    PROVE  /\ r = Enroll(s, r.device) \/ r = Revoke(s, r.device)
           /\ r.id = <<r.epoch, r.device>>
  <1>1. \/ \E d \in Member : r = Enroll(s, d)
        \/ \E d \in Browser : r = Revoke(s, d)
    BY DEF OwnedBy
  <1>2. CASE \E d \in Member : r = Enroll(s, d)
    BY <1>2 DEF Enroll
  <1>3. CASE \E d \in Browser : r = Revoke(s, d)
    BY <1>3 DEF Revoke
  <1> QED BY <1>1, <1>2, <1>3

(* The secret a database belongs to can enroll any device it has not       *)
(* revoked, the first time or again.                                       *)
LEMMA OwnerEnrolls ==
    ASSUME NEW t \in Tables, NEW s \in Secret, OwnedBy(t, s),
           NEW d \in Member, Revoke(s, d) \notin t.applied
    PROVE  Passes(t, Enroll(s, d)) /\ Trusted(After(t, Enroll(s, d)), d)
  <1> DEFINE r == Enroll(s, d)
  <1>1. /\ r.id = <<1, d>> /\ r.epoch = 1 /\ r.device = d /\ r.signer = Authority
        /\ r.signerKey = <<s, Authority>> /\ r.key = <<s, d>>
        /\ r.kind \in {"enroll-device", "enroll-provider"}
    BY DEF Enroll
  <1>2. r \in SignedRecord
    BY DEF SignedRecord
  <1> HIDE DEF r
  <1>3. Authorized(t, r)
    <2>1. [key |-> <<s, Authority>>, epoch |-> 1, trusted |-> TRUE] \in KeyRow
      BY DEF KeyRow, KeyOf, Member
    <2>2. t.keys[Authority] = [key |-> <<s, Authority>>, epoch |-> 1, trusted |-> TRUE]
      BY AuthorityRow
    <2>3. t.keys[Authority] # NoKey
      BY <2>1, <2>2, KeyAssumption
    <2>4. /\ t.keys[Authority].trusted /\ t.keys[Authority].epoch <= r.epoch
          /\ t.keys[Authority].key = r.signerKey
      BY <1>1, <2>2
    <2> QED BY <1>1, <2>3, <2>4 DEF Authorized, SignerTrusted, Trusted, OwnedBy
  <1>4. ~ConflictingBytes(t, r)
    <2> SUFFICES ASSUME NEW x \in t.applied, x.id = r.id PROVE x = r
      BY DEF ConflictingBytes, OwnedBy
    <2>1. x.epoch = 1 /\ x.device = d
      BY <1>1, RecordsOfDevice
    <2>2. x = Enroll(s, d) \/ x = Revoke(s, d)
      BY <2>1, RecordsOfDevice
    <2> QED BY <2>2 DEF r
  <1>5. t.keys[d] = RowOf(t, s, d)
    BY DEF OwnedBy
  <1> DEFINE row == [key |-> <<s, d>>, epoch |-> 1, trusted |-> TRUE]
  <1>6. row \in KeyRow /\ row # NoKey /\ row.trusted
    <2>1. row \in KeyRow
      BY DEF KeyRow, KeyOf
    <2> QED BY <2>1, KeyAssumption
  <1>7. CASE r \in t.applied
    <2>1. t.keys[d] = row
      BY <1>5, <1>7 DEF RowOf, r
    <2>2. Trusted(t, d)
      BY <1>6, <2>1 DEF Trusted
    <2>3. Replays(t, r) /\ ~Accepts(t, r)
      BY <1>3, <1>4, <1>7 DEF Replays, Accepts
    <2>4. Passes(t, r) /\ Trusted(After(t, r), d)
      BY <2>2, <2>3 DEF Passes, After
    <2> QED BY <2>4 DEF r
  <1>8. CASE r \notin t.applied
    <2>1. t.keys[d] = NoKey
      BY <1>5, <1>8 DEF RowOf, r
    <2>2. ~InvalidTransition(t, r)
      BY <1>1, <2>1 DEF InvalidTransition, Trusted
    <2>3. ~Stale(t, r)
      <3> SUFFICES ASSUME NEW x \in t.applied, x.device = d PROVE FALSE
        BY <1>1 DEF Stale
      <3>1. x = Enroll(s, d) \/ x = Revoke(s, d)
        BY RecordsOfDevice
      <3> QED BY <1>8, <3>1 DEF r
    <2>4. Accepts(t, r)
      BY <1>3, <1>4, <1>8, <2>2, <2>3 DEF Accepts
    <2>5. DeviceKeyAfter(t, r) = row
      BY <1>1 DEF DeviceKeyAfter
    <2>6. ApplyRecord(t, r).keys[d] = row
      <3>1. ApplyRecord(t, r).keys[d] =
              IF d = r.device THEN DeviceKeyAfter(t, r) ELSE t.keys[d]
        BY <1>2, ApplyEffect
      <3> QED BY <1>1, <2>5, <3>1
    <2>7. Trusted(ApplyRecord(t, r), d)
      BY <1>6, <2>6 DEF Trusted
    <2>8. Passes(t, r) /\ Trusted(After(t, r), d)
      BY <2>4, <2>7 DEF Passes, After
    <2> QED BY <2>8 DEF r
  <1> QED BY <1>7, <1>8

(* An empty database can be activated with any secret. *)
LEMMA AnyoneBegins ==
    ASSUME NEW t \in Tables, Untouched(t), NEW s \in Secret
    PROVE  /\ Accepts(t, Enroll(s, Authority))
           /\ OwnedBy(ApplyRecord(t, Enroll(s, Authority)), s)
           /\ \A d \in Browser :
                 Revoke(s, d) \notin ApplyRecord(t, Enroll(s, Authority)).applied
  <1> DEFINE r == Enroll(s, Authority)
  <1>1. /\ r.kind = "enroll-device" /\ r.device = Authority /\ r.signer = Authority
        /\ r.key = r.signerKey
    BY NameAssumption DEF Enroll
  <1>2. r \in SignedRecord /\ Authority \in Member
    BY DEF SignedRecord, Member
  <1> HIDE DEF r
  <1>3. Accepts(t, r)
    <2>1. Authorized(t, r)
      BY <1>1 DEF Authorized, Bootstraps, Untouched
    <2>2. ~InvalidTransition(t, r)
      BY <1>1, <1>2 DEF InvalidTransition, Trusted, Untouched
    <2> QED BY <2>1, <2>2 DEF Accepts, ConflictingBytes, Stale, Untouched
  <1>4. \E v \in Secret : r = Enroll(v, Authority) /\ OwnedBy(ApplyRecord(t, r), v)
    BY <1>2, <1>3, FirstRecord
  <1>5. OwnedBy(ApplyRecord(t, r), s)
    BY <1>2, <1>4, RecordsDiffer DEF r
  <1>6. ApplyRecord(t, r).applied = {r}
    <2>1. ApplyRecord(t, r).applied = t.applied \cup {r}
      BY <1>2, ApplyEffect
    <2> QED BY <2>1 DEF Untouched
  <1>7. ASSUME NEW d \in Browser PROVE Revoke(s, d) # r
    BY <1>2, RecordsDiffer DEF r, Member
  <1> QED BY <1>3, <1>5, <1>6, <1>7 DEF r

(* The activation of b with s goes through on a database that is empty or  *)
(* s's, unless b is revoked there.                                         *)
LEMMA Resumes ==
    ASSUME NEW t, DbInv(t), NEW b \in Browser, NEW s \in Secret,
           t.keys[Authority] = NoKey \/ t.keys[Authority].key[1] = s,
           \A v \in Secret : Revoke(v, b) \notin t.applied
    PROVE  /\ BundlePasses(t, s, b)
           /\ Trusted(After(After(t, Enroll(s, Authority)), Enroll(s, b)), b)
  <1> DEFINE u == After(t, Enroll(s, Authority))
  <1>1. /\ t \in Tables /\ b \in Member /\ Authority \in Member
        /\ Enroll(s, Authority) \in SignedRecord
    BY DEF DbInv, Member, SignedRecord
  <1>2. Passes(t, Enroll(s, Authority)) /\ OwnedBy(u, s) /\ Revoke(s, b) \notin u.applied
    <2>1. CASE Untouched(t)
      <3>1. Accepts(t, Enroll(s, Authority))
        BY <1>1, <2>1, AnyoneBegins
      <3>2. u = ApplyRecord(t, Enroll(s, Authority))
        BY <3>1 DEF After
      <3> QED BY <1>1, <2>1, <3>1, <3>2, AnyoneBegins DEF Passes
    <2>2. ASSUME NEW v \in Secret, OwnedBy(t, v)
          PROVE  /\ Passes(t, Enroll(s, Authority)) /\ OwnedBy(u, s)
                 /\ Revoke(s, b) \notin u.applied
      <3>1. t.keys[Authority] = [key |-> <<v, Authority>>, epoch |-> 1, trusted |-> TRUE]
        BY <2>2, AuthorityRow
      <3>2. [key |-> <<v, Authority>>, epoch |-> 1, trusted |-> TRUE] \in KeyRow
        BY <1>1 DEF KeyRow, KeyOf
      <3>3. t.keys[Authority] # NoKey
        BY <3>1, <3>2, KeyAssumption
      <3>4. v = s
        BY <3>1, <3>3
      <3>5. Enroll(s, Authority) \in t.applied /\ OwnedBy(t, s)
        BY <2>2, <3>4 DEF OwnedBy
      <3>6. u = t
        BY <3>5 DEF After, Accepts
      <3>7. Revoke(s, Authority) \notin t.applied
        BY <1>1, <3>5, RecordsDiffer, NameAssumption DEF OwnedBy, Member
      <3>8. Passes(t, Enroll(s, Authority))
        BY <1>1, <3>5, <3>7, OwnerEnrolls
      <3> QED BY <3>5, <3>6, <3>8
    <2> QED BY <2>1, <2>2 DEF DbInv
  <1>3. u \in Tables
    BY <1>1, AfterKeepsDbInv DEF DbInv
  <1> HIDE DEF u
  <1>4. Passes(u, Enroll(s, b)) /\ Trusted(After(u, Enroll(s, b)), b)
    BY <1>1, <1>2, <1>3, OwnerEnrolls
  <1> QED BY <1>2, <1>4 DEF BundlePasses, u

-----------------------------------------------------------------------------

(* IInv implies the properties. *)
LEMMA IInvOneSecret == IInv => OneSecret
  <1> SUFFICES ASSUME IInv, NEW b \in Browser, NEW d \in Member, db[b].keys[d] # NoKey
               PROVE  OwnSecret(b, db[b].keys[d].key[1])
    BY DEF OneSecret
  <1> DEFINE t == db[b]
  <1>1. DbInv(t)
    BY DEF IInv
  <1>2. PICK s \in Secret : OwnedBy(t, s)
    BY <1>1 DEF DbInv, Untouched
  <1>3. t.keys[d] = RowOf(t, s, d)
    BY <1>2 DEF OwnedBy
  <1>4. t.keys[d].key[1] = s
    BY <1>3 DEF RowOf
  <1>5. t.keys[Authority] = [key |-> <<s, Authority>>, epoch |-> 1, trusted |-> TRUE]
    BY <1>2, AuthorityRow
  <1>6. [key |-> <<s, Authority>>, epoch |-> 1, trusted |-> TRUE] \in KeyRow
    BY DEF KeyRow, KeyOf, Member
  <1>7. t.keys[Authority] # NoKey
    BY <1>5, <1>6, KeyAssumption
  <1>8. t.keys[Authority].key[1] = s
    BY <1>5
  <1> QED BY <1>4, <1>7, <1>8 DEF OwnSecret

LEMMA IInvActivationResumes == IInv => ActivationResumes
  <1> SUFFICES ASSUME IInv, NEW b \in Browser, NEW s \in Secret,
                      db[b].keys[Authority] = NoKey \/ OwnSecret(b, s), ~Revoked(b)
               PROVE  /\ BundlePasses(db[b], s, b)
                      /\ Trusted(After(After(db[b], Enroll(s, Authority)), Enroll(s, b)), b)
    BY DEF ActivationResumes
  <1>1. DbInv(db[b])
    BY DEF IInv
  <1>2. db[b].keys[Authority] = NoKey \/ db[b].keys[Authority].key[1] = s
    BY DEF OwnSecret
  <1>3. \A v \in Secret : Revoke(v, b) \notin db[b].applied
    BY DEF Revoked
  <1> QED BY <1>1, <1>2, <1>3, Resumes

LEMMA IInvRevokedStaysOut == IInv => RevokedStaysOut
  <1> SUFFICES ASSUME IInv, NEW b \in Browser, NEW v \in Secret,
                      Revoke(v, b) \in db[b].applied
               PROVE  ~Trusted(db[b], b)
    BY DEF RevokedStaysOut, Revoked
  <1> DEFINE t == db[b]
  <1>1. b \in Member
    BY DEF Member
  <1>2. PICK s \in Secret : OwnedBy(t, s)
    BY DEF IInv, DbInv, Untouched
  <1>3. Revoke(v, b) = Revoke(s, b)
    <2>1. \/ \E d \in Member : Revoke(v, b) = Enroll(s, d)
          \/ \E d \in Browser : Revoke(v, b) = Revoke(s, d)
      BY <1>2 DEF OwnedBy
    <2> QED BY <1>1, <2>1, RecordsDiffer DEF Member
  <1>4. t.keys[b] = RowOf(t, s, b)
    BY <1>1, <1>2 DEF OwnedBy
  <1>5. CASE Enroll(s, b) \in t.applied
    <2>1. t.keys[b] = [key |-> <<s, b>>, epoch |-> 1,
                       trusted |-> Revoke(s, b) \notin t.applied]
      BY <1>4, <1>5 DEF RowOf
    <2>2. t.keys[b].trusted = (Revoke(s, b) \notin t.applied)
      BY <2>1
    <2>3. Revoke(s, b) \in t.applied
      BY <1>3
    <2> QED BY <2>2, <2>3 DEF Trusted
  <1>6. CASE Enroll(s, b) \notin t.applied
    BY <1>4, <1>6 DEF RowOf, Trusted
  <1> QED BY <1>5, <1>6

-----------------------------------------------------------------------------

(* The initial state: empty databases, new shells. *)
LEMMA InitIInv == Init => IInv
  <1> SUFFICES ASSUME Init PROVE IInv
    OBVIOUS
  <1>1. NoTables \in Tables /\ Untouched(NoTables)
    BY DEF NoTables, Tables, Untouched
  <1>2. \A b \in Browser : DbInv(db[b])
    BY <1>1 DEF Init, DbInv
  <1>3. Idle \in CallRecord /\ Idle.pc = "idle"
    BY DEF Idle, CallRecord, Pc, Request, Member
  <1>4. TypeOK
    BY <1>1, <1>3, BoundAssumption DEF Init, TypeOK, NewShell
  <1>5. CallsOk /\ MemoryOk
    BY <1>3 DEF Init, CallsOk, CallOk, MemoryOk, NewShell
  <1> QED BY <1>2, <1>4, <1>5 DEF IInv

(* A step that moves one call on keeps the calls in order. *)
LEMMA CallStep ==
    ASSUME TypeOK, CallsOk, NEW b \in Browser, NEW h \in Handler, NEW c \in CallRecord,
           call' = [call EXCEPT ![b][h] = c],
           generated \subseteq generated',
           \A x \in Browser : memory[x].export # NoSecret => memory'[x].export # NoSecret,
           CallOk(c, memory'[b], generated')
    PROVE  call' \in [Browser -> [Handler -> CallRecord]] /\ CallsOk'
  <1>1. call \in [Browser -> [Handler -> CallRecord]]
    BY DEF TypeOK
  <1>2. call' \in [Browser -> [Handler -> CallRecord]]
    BY <1>1
  <1>3. ASSUME NEW x \in Browser, NEW g \in Handler
        PROVE  CallOk(call'[x][g], memory'[x], generated')
    <2>1. CASE x = b /\ g = h
      BY <1>1, <2>1
    <2>2. CASE ~(x = b /\ g = h)
      <3>1. call'[x][g] = call[x][g]
        BY <1>1, <2>2
      <3>2. CallOk(call[x][g], memory[x], generated)
        BY DEF CallsOk
      <3> QED BY <3>1, <3>2 DEF CallOk
    <2> QED BY <2>1, <2>2
  <1> QED BY <1>2, <1>3 DEF CallsOk

(* What Goto does to the call it moves, and that it keeps its secret. *)
LEMMA GotoStep ==
    ASSUME TypeOK, CallsOk, NEW b \in Browser, NEW h \in Handler, NEW pc \in Pc,
           call[b][h].pc # "idle", Goto(b, h, pc), generated' = generated,
           \A x \in Browser : memory[x].export # NoSecret => memory'[x].export # NoSecret,
           pc = "deliver" => memory'[b].export # NoSecret
    PROVE  call' \in [Browser -> [Handler -> CallRecord]] /\ CallsOk'
  <1> DEFINE c == IF pc = "idle" THEN Idle ELSE [call[b][h] EXCEPT !.pc = pc]
  <1>1. call[b][h] \in CallRecord /\ CallOk(call[b][h], memory[b], generated)
    BY DEF TypeOK, CallsOk
  <1>2. Idle \in CallRecord /\ Idle.pc = "idle"
    BY DEF Idle, CallRecord, Pc, Request, Member
  <1>3. c \in CallRecord
    BY <1>1, <1>2 DEF CallRecord
  <1>4. CallOk(c, memory'[b], generated')
    <2>1. CASE pc = "idle"
      BY <1>2, <2>1 DEF CallOk
    <2>2. CASE pc # "idle"
      <3>1. /\ c.pc = pc /\ c.secret = call[b][h].secret
            /\ c.target = call[b][h].target /\ c.kind = call[b][h].kind
        BY <1>1, <2>2 DEF CallRecord
      <3> HIDE DEF c
      <3> QED BY <1>1, <3>1 DEF CallOk
    <2> QED BY <2>1, <2>2
  <1>5. call' = [call EXCEPT ![b][h] = c]
    BY DEF Goto, TypeOK
  <1> HIDE DEF c
  <1> QED BY <1>3, <1>4, <1>5, CallStep

(* What Start puts into a call. *)
LEMMA StartStep ==
    ASSUME TypeOK, CallsOk, NEW b \in Browser, NEW h \in Handler, NEW pc \in Pc,
           NEW kind \in Request, NEW s \in generated', NEW d \in Browser,
           generated' \subseteq Secret, generated \subseteq generated',
           Start(b, h, pc, kind, s, d),
           \A x \in Browser : memory[x].export # NoSecret => memory'[x].export # NoSecret,
           pc = "deliver" \/ kind = "key" => memory'[b].export # NoSecret
    PROVE  call' \in [Browser -> [Handler -> CallRecord]] /\ CallsOk'
  <1> DEFINE c == [pc |-> pc, kind |-> kind, secret |-> s, target |-> d]
  <1>1. c \in CallRecord
    BY DEF CallRecord, Member
  <1>2. CallOk(c, memory'[b], generated')
    BY DEF CallOk
  <1>3. call' = [call EXCEPT ![b][h] = c]
    BY DEF Start
  <1> HIDE DEF c
  <1> QED BY <1>1, <1>2, <1>3, CallStep

(* A request that arrives is counted. *)
LEMMA ArrivesTyped ==
    ASSUME TypeOK, NEW b \in Browser, NEW h \in Handler, Arrives(b, h)
    PROVE  spent' \in [requests : 0..MaxRequests, crashes : 0..MaxCrashes,
                       revocations : 0..MaxRevocations]
  <1>1. /\ spent \in [requests : 0..MaxRequests, crashes : 0..MaxCrashes,
                      revocations : 0..MaxRevocations]
        /\ spent.requests < MaxRequests
        /\ spent' = [spent EXCEPT !.requests = spent.requests + 1]
    BY DEF TypeOK, Arrives
  <1>2. spent.requests + 1 \in 0..MaxRequests
    BY <1>1, BoundAssumption
  <1> QED BY <1>1, <1>2

(* The steps by which requests arrive. *)
LEMMA GenerateKeepsIInv ==
    ASSUME IInv, NEW b \in Browser, NEW h \in Handler, NEW s \in Secret,
           NEW kind \in Request, Arrives(b, h), Generate(b, h, kind, s),
           UNCHANGED <<db, meta, endpoint, keyFiles, bundles, failed>>
    PROVE  IInv'
  <1>1. TypeOK /\ CallsOk /\ MemoryOk
    BY DEF IInv
  <1>2. /\ memory \in [Browser -> [export : Secret \cup {NoSecret}, ready : BOOLEAN]]
        /\ memory' = [memory EXCEPT ![b] = [export |-> s, ready |-> FALSE]]
        /\ generated' = generated \cup {s} /\ generated \subseteq Secret
        /\ mutex' = [mutex EXCEPT ![b] = h]
    BY <1>1 DEF TypeOK, Generate
  <1>3. \A x \in Browser : memory'[x].export = IF x = b THEN s ELSE memory[x].export
    BY <1>2
  <1>4. call' \in [Browser -> [Handler -> CallRecord]] /\ CallsOk'
    <2>1. s # NoSecret /\ "register" \in Pc /\ s \in generated' /\ generated' \subseteq Secret
      BY <1>2, NameAssumption DEF Pc
    <2> QED BY <1>1, <1>2, <1>3, <2>1, StartStep DEF Generate
  <1>5. MemoryOk'
    BY <1>1, <1>2, <1>3 DEF MemoryOk
  <1>6. TypeOK'
    BY <1>1, <1>2, <1>4, ArrivesTyped DEF TypeOK
  <1> QED BY <1>4, <1>5, <1>6 DEF IInv

(* Requests that copy the key in memory: UseSecret and ExportLoadedKey. *)
LEMMA CopyKeepsIInv ==
    ASSUME IInv, NEW b \in Browser, NEW h \in Handler, NEW pc \in Pc, NEW kind \in Request,
           NEW d \in Browser, Arrives(b, h), memory[b].export # NoSecret,
           memory' = [memory EXCEPT ![b] = Refreshed(b)],
           Start(b, h, pc, kind, memory[b].export, d),
           UNCHANGED <<db, meta, endpoint, mutex, keyFiles, bundles, generated, failed>>
    PROVE  IInv'
  <1>1. TypeOK /\ CallsOk /\ MemoryOk
    BY DEF IInv
  <1>2. /\ memory' \in [Browser -> [export : Secret \cup {NoSecret}, ready : BOOLEAN]]
        /\ \A x \in Browser : memory'[x].export = memory[x].export
    <2>1. memory \in [Browser -> [export : Secret \cup {NoSecret}, ready : BOOLEAN]]
      BY <1>1 DEF TypeOK
    <2>2. /\ Refreshed(b) \in [export : Secret \cup {NoSecret}, ready : BOOLEAN]
          /\ Refreshed(b).export = memory[b].export
      BY <2>1 DEF Refreshed
    <2> QED BY <2>1, <2>2
  <1>3. memory[b].export \in generated' /\ generated' \subseteq Secret
    BY <1>1 DEF MemoryOk, TypeOK
  <1>4. call' \in [Browser -> [Handler -> CallRecord]] /\ CallsOk'
    BY <1>1, <1>2, <1>3, StartStep
  <1>5. MemoryOk'
    BY <1>1, <1>2 DEF MemoryOk
  <1>6. TypeOK'
    BY <1>1, <1>2, <1>4, ArrivesTyped DEF TypeOK
  <1> QED BY <1>4, <1>5, <1>6 DEF IInv

LEMMA CheckKeepsIInv ==
    ASSUME IInv, NEW b \in Browser, NEW h \in Handler, Check(b, h)
    PROVE  IInv'
  <1>1. TypeOK /\ CallsOk /\ MemoryOk
    BY DEF IInv
  <1>2. /\ memory' \in [Browser -> [export : Secret \cup {NoSecret}, ready : BOOLEAN]]
        /\ \A x \in Browser : memory'[x].export = memory[x].export
    <2>1. memory \in [Browser -> [export : Secret \cup {NoSecret}, ready : BOOLEAN]]
      BY <1>1 DEF TypeOK
    <2>2. /\ Refreshed(b) \in [export : Secret \cup {NoSecret}, ready : BOOLEAN]
          /\ Refreshed(b).export = memory[b].export
      BY <2>1 DEF Refreshed
    <2> QED BY <2>1, <2>2 DEF Check
  <1>3. MemoryOk'
    BY <1>1, <1>2 DEF MemoryOk, Check
  <1>4. CallsOk'
    BY <1>1, <1>2 DEF CallsOk, CallOk, Check
  <1>5. TypeOK'
    BY <1>1, <1>2, ArrivesTyped DEF TypeOK, Check
  <1> QED BY <1>3, <1>4, <1>5 DEF IInv, Check

LEMMA ImportKeepsIInv ==
    ASSUME IInv, NEW b \in Browser, NEW h \in Handler, NEW s \in Secret, Import(b, h, s)
    PROVE  IInv'
  <1>1. TypeOK /\ CallsOk /\ MemoryOk
    BY DEF IInv
  <1>2. s \in generated /\ generated \subseteq Secret /\ s # NoSecret
    BY <1>1, NameAssumption DEF TypeOK, Import
  <1>3. /\ memory' \in [Browser -> [export : Secret \cup {NoSecret}, ready : BOOLEAN]]
        /\ \A x \in Browser : memory'[x].export = IF x = b THEN s ELSE memory[x].export
    BY <1>1 DEF TypeOK, Import
  <1>4. call' \in [Browser -> [Handler -> CallRecord]] /\ CallsOk'
    <2>1. "register" \in Pc /\ "import" \in Request /\ generated' = generated
      BY DEF Pc, Request, Import
    <2> QED BY <1>1, <1>2, <1>3, <2>1, StartStep DEF Import
  <1>5. MemoryOk'
    BY <1>1, <1>2, <1>3 DEF MemoryOk, Import
  <1>6. TypeOK'
    BY <1>1, <1>3, <1>4, ArrivesTyped DEF TypeOK, Import
  <1> QED BY <1>4, <1>5, <1>6 DEF IInv, Import

LEMMA ImportBundleKeepsIInv ==
    ASSUME IInv, NEW b \in Browser, NEW h \in Handler, NEW s \in Secret, ImportBundle(b, h, s)
    PROVE  IInv'
  <1>1. TypeOK /\ CallsOk /\ MemoryOk
    BY DEF IInv
  <1>2. s \in generated /\ generated \subseteq Secret
    BY <1>1 DEF TypeOK, ImportBundle
  <1>3. call' \in [Browser -> [Handler -> CallRecord]] /\ CallsOk'
    <2>1. "enroll" \in Pc /\ "handoff" \in Request /\ UNCHANGED <<generated, memory>>
      BY DEF Pc, Request, ImportBundle
    <2> QED BY <1>1, <1>2, <2>1, StartStep DEF ImportBundle
  <1>4. MemoryOk'
    BY <1>1 DEF MemoryOk, ImportBundle
  <1>5. TypeOK'
    BY <1>1, <1>3, ArrivesTyped DEF TypeOK, ImportBundle
  <1> QED BY <1>3, <1>4, <1>5 DEF IInv, ImportBundle

LEMMA RequestKeepsIInv ==
    ASSUME IInv, NEW b \in Browser, NEW h \in Handler, RequestArrives(b, h)
    PROVE  IInv'
  <1>1. {"deliver", "bundle", "lock", "register"} \subseteq Pc
        /\ {"create", "key", "export", "provider", "sync"} \subseteq Request
    BY DEF Pc, Request
  <1>2. CASE Check(b, h)
    BY <1>2, CheckKeepsIInv
  <1>3. CASE ExportLoadedKey(b, h)
    BY <1>1, <1>3, CopyKeepsIInv DEF ExportLoadedKey
  <1>4. ASSUME NEW s \in Secret, Create(b, h, s) PROVE IInv'
    BY <1>1, <1>4, GenerateKeepsIInv DEF Create
  <1>5. ASSUME NEW s \in Secret, ExportFirstKey(b, h, s) PROVE IInv'
    BY <1>1, <1>5, GenerateKeepsIInv DEF ExportFirstKey
  <1>6. ASSUME NEW s \in Secret, Import(b, h, s) PROVE IInv'
    BY <1>6, ImportKeepsIInv
  <1>7. ASSUME NEW s \in Secret, ImportBundle(b, h, s) PROVE IInv'
    BY <1>7, ImportBundleKeepsIInv
  <1>8. ASSUME NEW d \in Browser, CreateBundle(b, h, d) PROVE IInv'
    BY <1>1, <1>8, CopyKeepsIInv DEF CreateBundle, UseSecret
  <1>9. CASE ActivateProvider(b, h)
    BY <1>1, <1>9, CopyKeepsIInv DEF ActivateProvider, UseSecret
  <1>10. CASE RunSync(b, h)
    BY <1>1, <1>10, CopyKeepsIInv DEF RunSync, UseSecret
  <1> QED BY <1>2, <1>3, <1>4, <1>5, <1>6, <1>7, <1>8, <1>9, <1>10 DEF RequestArrives

-----------------------------------------------------------------------------

(* A handler's step that leaves memory alone and ends in a typed state. *)
LEMMA StepKeepsIInv ==
    ASSUME IInv, NEW b \in Browser, NEW h \in Handler, NEW pc \in Pc,
           call[b][h].pc # "idle", Goto(b, h, pc), pc # "deliver",
           UNCHANGED <<memory, generated, spent>>,
           \A x \in Browser : DbInv(db'[x]),
           db' \in [Browser -> Tables], meta' \in [Browser -> 0..3],
           endpoint' \in [Browser -> BOOLEAN], failed' \in [Browser -> BOOLEAN],
           mutex' \in [Browser -> Handler \cup {NoHandler}],
           keyFiles' \subseteq generated, bundles' \subseteq generated \X Browser
    PROVE  IInv'
  <1>1. TypeOK /\ CallsOk /\ MemoryOk
    BY DEF IInv
  <1>2. call' \in [Browser -> [Handler -> CallRecord]] /\ CallsOk'
    BY <1>1, GotoStep
  <1>3. MemoryOk'
    BY <1>1 DEF MemoryOk
  <1>4. TypeOK'
    BY <1>1, <1>2 DEF TypeOK
  <1> QED BY <1>2, <1>3, <1>4 DEF IInv

(* The same for one that changes the database of its browser by one table. *)
LEMMA DbStepTyped ==
    ASSUME IInv, NEW b \in Browser, NEW t, DbInv(t), db' = [db EXCEPT ![b] = t]
    PROVE  db' \in [Browser -> Tables] /\ \A x \in Browser : DbInv(db'[x])
  <1>1. db \in [Browser -> Tables] /\ \A x \in Browser : DbInv(db[x])
    BY DEF IInv, TypeOK
  <1>2. t \in Tables
    BY DEF DbInv
  <1> QED BY <1>1, <1>2

LEMMA UnlockedTyped ==
    ASSUME IInv, NEW b \in Browser, NEW h \in Handler
    PROVE  Unlocked(b, h) \in [Browser -> Handler \cup {NoHandler}]
  BY DEF IInv, TypeOK, Unlocked

LEMMA RegisterDeviceKeepsIInv ==
    ASSUME IInv, NEW b \in Browser, NEW h \in Handler, RegisterDevice(b, h)
    PROVE  IInv'
  <1>1. TypeOK /\ DbInv(db[b])
    BY DEF IInv
  <1>2. db' = [db EXCEPT ![b] = [db[b] EXCEPT !.provider[b] = FALSE]]
    BY <1>1 DEF RegisterDevice, TypeOK
  <1>3. db' \in [Browser -> Tables] /\ \A x \in Browser : DbInv(db'[x])
    BY <1>1, <1>2, RegisterKeepsDbInv, DbStepTyped
  <1>4. meta' \in [Browser -> 0..3]
    BY <1>1 DEF TypeOK, RegisterDevice
  <1>5. "domains" \in Pc /\ call[b][h].pc # "idle" /\ Goto(b, h, "domains")
    BY DEF Pc, RegisterDevice, At
  <1> QED BY <1>1, <1>3, <1>4, <1>5, StepKeepsIInv DEF TypeOK, RegisterDevice

LEMMA MetadataKeepsIInv ==
    ASSUME IInv, NEW b \in Browser, NEW h \in Handler,
           EnsureDomains(b, h) \/ RegisterContentKey(b, h)
    PROVE  IInv'
  <1>1. TypeOK /\ \A x \in Browser : DbInv(db[x])
    BY DEF IInv
  <1>2. "content-key" \in Pc /\ "authority" \in Pc
    BY DEF Pc
  <1>3. CASE EnsureDomains(b, h)
    <2>1. call[b][h].pc # "idle" /\ meta' \in [Browser -> 0..3] /\ db' = db
      BY <1>1, <1>3 DEF EnsureDomains, At, TypeOK
    <2> QED BY <1>1, <1>2, <1>3, <2>1, StepKeepsIInv DEF TypeOK, EnsureDomains
  <1>4. CASE RegisterContentKey(b, h)
    <2>1. call[b][h].pc # "idle" /\ meta' \in [Browser -> 0..3] /\ db' = db
      BY <1>1, <1>4 DEF RegisterContentKey, At, TypeOK
    <2> QED BY <1>1, <1>2, <1>4, <2>1, StepKeepsIInv DEF TypeOK, RegisterContentKey
  <1> QED BY <1>3, <1>4

(* A call under way has one of the secrets. *)
LEMMA BusySecret ==
    ASSUME IInv, NEW b \in Browser, NEW h \in Handler, call[b][h].pc # "idle"
    PROVE  call[b][h].secret \in generated /\ call[b][h].secret \in Secret
           /\ call[b][h].target \in Browser
  BY DEF IInv, TypeOK, CallsOk, CallOk

LEMMA EnrollKeepsIInv ==
    ASSUME IInv, NEW b \in Browser, NEW h \in Handler, NEW d \in Member, NEW pc \in Pc,
           call[b][h].pc # "idle", pc # "deliver", EnrollInDatabase(b, h, d, pc)
    PROVE  IInv'
  <1>1. TypeOK /\ DbInv(db[b])
    BY DEF IInv
  <1>2. Enroll(call[b][h].secret, d) \in SignedRecord
    BY BusySecret DEF SignedRecord
  <1>3. db' = [db EXCEPT ![b] = After(db[b], Enroll(call[b][h].secret, d))]
    BY DEF EnrollInDatabase
  <1>4. db' \in [Browser -> Tables] /\ \A x \in Browser : DbInv(db'[x])
    BY <1>1, <1>2, <1>3, AfterKeepsDbInv, DbStepTyped
  <1> QED BY <1>1, <1>4, StepKeepsIInv DEF TypeOK, EnrollInDatabase

LEMMA ApplyBundleKeepsIInv ==
    ASSUME IInv, NEW b \in Browser, NEW h \in Handler, ApplyBundle(b, h)
    PROVE  IInv'
  <1> DEFINE s == call[b][h].secret
  <1>1. TypeOK /\ DbInv(db[b])
    BY DEF IInv
  <1>2. call[b][h].pc # "idle" /\ "register" \in Pc
    BY DEF ApplyBundle, At, Pc
  <1>3. Enroll(s, Authority) \in SignedRecord /\ Enroll(s, b) \in SignedRecord
    BY <1>2, BusySecret DEF SignedRecord, Member
  <1>4. db' = [db EXCEPT ![b] = After(After(db[b], Enroll(s, Authority)), Enroll(s, b))]
    BY DEF ApplyBundle
  <1>5. DbInv(After(After(db[b], Enroll(s, Authority)), Enroll(s, b)))
    BY <1>1, <1>3, AfterKeepsDbInv
  <1>6. db' \in [Browser -> Tables] /\ \A x \in Browser : DbInv(db'[x])
    BY <1>4, <1>5, DbStepTyped
  <1> QED BY <1>1, <1>2, <1>6, StepKeepsIInv DEF TypeOK, ApplyBundle

(* Steps that take or give up the mutex, deliver, or end in an error. *)
LEMMA OtherStepsKeepIInv ==
    ASSUME IInv, NEW b \in Browser, NEW h \in Handler,
           \/ LockForProvider(b, h) \/ UpsertProvider(b, h) \/ Deliver(b, h)
           \/ DeliverBundle(b, h) \/ Refused(b, h) \/ StepFails(b, h)
    PROVE  IInv'
  <1>1. TypeOK /\ \A x \in Browser : DbInv(db[x])
    BY DEF IInv
  <1>2. {"provider", "mark", "idle"} \subseteq Pc
    BY DEF Pc
  <1>3. CASE LockForProvider(b, h)
    <2>1. call[b][h].pc # "idle" /\ mutex' \in [Browser -> Handler \cup {NoHandler}]
      BY <1>1, <1>3 DEF LockForProvider, At, TypeOK
    <2> QED BY <1>1, <1>2, <1>3, <2>1, StepKeepsIInv DEF TypeOK, LockForProvider
  <1>4. CASE UpsertProvider(b, h)
    <2> DEFINE pc == IF call[b][h].kind = "sync" THEN "mark" ELSE "idle"
    <2>1. call[b][h].pc # "idle" /\ pc \in Pc /\ pc # "deliver"
      BY <1>2, <1>4 DEF UpsertProvider, At
    <2>2. endpoint' \in [Browser -> BOOLEAN]
      BY <1>1, <1>4 DEF UpsertProvider, TypeOK
    <2>3. mutex' \in [Browser -> Handler \cup {NoHandler}]
      BY <1>4, UnlockedTyped DEF UpsertProvider
    <2>4. Goto(b, h, pc)
      BY <1>4 DEF UpsertProvider
    <2> HIDE DEF pc
    <2> QED BY <1>1, <1>4, <2>1, <2>2, <2>3, <2>4, StepKeepsIInv DEF TypeOK, UpsertProvider
  <1>5. CASE Deliver(b, h)
    <2>1. call[b][h].pc = "deliver"
      BY <1>5 DEF Deliver, At
    <2>2. call[b][h].secret \in generated
      BY <2>1, BusySecret
    <2>3. memory[b].export \in generated
      BY <2>1 DEF IInv, CallsOk, CallOk, MemoryOk
    <2>4. keyFiles' \subseteq generated
      BY <1>1, <1>5, <2>2, <2>3 DEF Deliver, TypeOK
    <2> QED BY <1>1, <1>2, <1>5, <2>1, <2>4, StepKeepsIInv DEF TypeOK, Deliver
  <1>6. CASE DeliverBundle(b, h)
    <2>1. call[b][h].pc # "idle"
      BY <1>6 DEF DeliverBundle, At
    <2>2. bundles' \subseteq generated \X Browser
      BY <1>1, <1>6, <2>1, BusySecret DEF DeliverBundle, TypeOK
    <2> QED BY <1>1, <1>2, <1>6, <2>1, <2>2, StepKeepsIInv DEF TypeOK, DeliverBundle
  <1>7. CASE Refused(b, h) \/ StepFails(b, h)
    <2>1. Aborts(b, h) /\ call[b][h].pc # "idle"
      BY <1>7 DEF Refused, StepFails, At
    <2>2. failed' \in [Browser -> BOOLEAN]
      BY <1>1, <2>1 DEF Aborts, TypeOK
    <2>3. mutex' \in [Browser -> Handler \cup {NoHandler}]
      BY <2>1, UnlockedTyped DEF Aborts
    <2> QED BY <1>1, <1>2, <2>1, <2>2, <2>3, StepKeepsIInv DEF TypeOK, Aborts
  <1> QED BY <1>3, <1>4, <1>5, <1>6, <1>7

LEMMA MarkKeepsIInv ==
    ASSUME IInv, NEW b \in Browser, NEW h \in Handler, Mark(b, h)
    PROVE  IInv'
  <1> DEFINE m == [export |-> IF call[b][h].kind = "handoff"
                              THEN call[b][h].secret ELSE memory[b].export,
                   ready |-> TRUE]
             pc == IF call[b][h].kind = "key" THEN "deliver" ELSE "idle"
  <1>1. TypeOK /\ CallsOk /\ MemoryOk /\ call[b][h].pc = "mark"
    BY DEF IInv, Mark, At
  <1>2. call[b][h].secret \in generated /\ generated \subseteq Secret
    BY <1>1, BusySecret DEF TypeOK
  <1>3. m.export \in generated \cup {NoSecret}
    BY <1>1, <1>2 DEF MemoryOk
  <1>4. memory[b].export # NoSecret => m.export # NoSecret
    BY <1>2, NameAssumption
  <1>5. call[b][h].kind = "key" => memory[b].export # NoSecret
    BY <1>1 DEF CallsOk, CallOk
  <1>6. pc \in Pc /\ (pc = "deliver" => m.export # NoSecret)
    BY <1>4, <1>5 DEF Pc
  <1>7. memory' = [memory EXCEPT ![b] = m] /\ Goto(b, h, pc)
    BY DEF Mark
  <1>8. m \in [export : Secret \cup {NoSecret}, ready : BOOLEAN]
    BY <1>2, <1>3
  <1> HIDE DEF m, pc
  <1>9. /\ memory' \in [Browser -> [export : Secret \cup {NoSecret}, ready : BOOLEAN]]
        /\ \A x \in Browser : memory'[x] = IF x = b THEN m ELSE memory[x]
    BY <1>1, <1>7, <1>8 DEF TypeOK
  <1>10. generated' = generated /\ mutex' \in [Browser -> Handler \cup {NoHandler}]
    BY UnlockedTyped DEF Mark
  <1>11. call' \in [Browser -> [Handler -> CallRecord]] /\ CallsOk'
    <2>1. /\ \A x \in Browser : memory[x].export # NoSecret => memory'[x].export # NoSecret
          /\ pc = "deliver" => memory'[b].export # NoSecret
          /\ call[b][h].pc # "idle"
      BY <1>1, <1>4, <1>6, <1>9
    <2> QED BY <1>1, <1>6, <1>7, <1>10, <2>1, GotoStep
  <1>12. MemoryOk'
    BY <1>1, <1>3, <1>9, <1>10 DEF MemoryOk
  <1>13. TypeOK'
    BY <1>1, <1>9, <1>10, <1>11 DEF TypeOK, Mark
  <1> QED BY <1>11, <1>12, <1>13 DEF IInv, Mark

LEMMA HandlerKeepsIInv ==
    ASSUME IInv, NEW b \in Browser, NEW h \in Handler, HandlerStep(b, h)
    PROVE  IInv'
  <1>1. {"local", "mark", "provider", "endpoint"} \subseteq Pc
        /\ {Authority, Provider, b} \subseteq Member
    BY DEF Pc, Member
  <1>2. CASE RegisterDevice(b, h)
    BY <1>2, RegisterDeviceKeepsIInv
  <1>3. CASE EnsureDomains(b, h) \/ RegisterContentKey(b, h)
    BY <1>3, MetadataKeepsIInv
  <1>4. CASE ApplyAuthority(b, h)
    BY <1>1, <1>4, EnrollKeepsIInv DEF ApplyAuthority, At
  <1>5. CASE ApplyLocal(b, h)
    <2> DEFINE pc == IF call[b][h].kind = "sync" THEN "provider" ELSE "mark"
    <2>1. pc \in Pc /\ pc # "deliver" /\ call[b][h].pc # "idle"
          /\ EnrollInDatabase(b, h, b, pc)
      BY <1>1, <1>5 DEF ApplyLocal, At
    <2> HIDE DEF pc
    <2> QED BY <1>1, <2>1, EnrollKeepsIInv
  <1>6. CASE ApplyProvider(b, h)
    BY <1>1, <1>6, EnrollKeepsIInv DEF ApplyProvider, At
  <1>7. CASE ApplyBundle(b, h)
    BY <1>7, ApplyBundleKeepsIInv
  <1>8. CASE Mark(b, h)
    BY <1>8, MarkKeepsIInv
  <1>9. CASE \/ LockForProvider(b, h) \/ UpsertProvider(b, h) \/ Deliver(b, h)
             \/ DeliverBundle(b, h) \/ Refused(b, h) \/ StepFails(b, h)
    BY <1>9, OtherStepsKeepIInv
  <1> QED BY <1>2, <1>3, <1>4, <1>5, <1>6, <1>7, <1>8, <1>9 DEF HandlerStep

LEMMA CrashKeepsIInv ==
    ASSUME IInv, NEW b \in Browser, Crash(b)
    PROVE  IInv'
  <1>1. TypeOK /\ CallsOk /\ MemoryOk
    BY DEF IInv
  <1>2. Idle \in CallRecord /\ Idle.pc = "idle"
    BY DEF Idle, CallRecord, Pc, Request, Member
  <1>3. /\ memory' \in [Browser -> [export : Secret \cup {NoSecret}, ready : BOOLEAN]]
        /\ \A x \in Browser : memory'[x] = IF x = b THEN NewShell ELSE memory[x]
    BY <1>1 DEF TypeOK, Crash, NewShell
  <1>4. /\ call' \in [Browser -> [Handler -> CallRecord]]
        /\ \A x \in Browser, g \in Handler :
              call'[x][g] = IF x = b THEN Idle ELSE call[x][g]
    BY <1>1, <1>2 DEF TypeOK, Crash
  <1>5. spent' \in [requests : 0..MaxRequests, crashes : 0..MaxCrashes,
                    revocations : 0..MaxRevocations]
    <2>1. /\ spent \in [requests : 0..MaxRequests, crashes : 0..MaxCrashes,
                        revocations : 0..MaxRevocations]
          /\ spent.crashes < MaxCrashes
          /\ spent' = [spent EXCEPT !.crashes = spent.crashes + 1]
      BY <1>1 DEF TypeOK, Crash
    <2>2. spent.crashes + 1 \in 0..MaxCrashes
      BY <2>1, BoundAssumption
    <2> QED BY <2>1, <2>2
  <1>6. CallsOk'
    <2> SUFFICES ASSUME NEW x \in Browser, NEW g \in Handler
                 PROVE  CallOk(call'[x][g], memory'[x], generated)
      BY DEF CallsOk, Crash
    <2>1. CASE x = b
      BY <1>2, <1>4, <2>1 DEF CallOk
    <2>2. CASE x # b
      BY <1>1, <1>3, <1>4, <2>2 DEF CallsOk
    <2> QED BY <2>1, <2>2
  <1>7. MemoryOk'
    BY <1>1, <1>3 DEF MemoryOk, NewShell, Crash
  <1>8. TypeOK'
    BY <1>1, <1>3, <1>4, <1>5 DEF TypeOK, Crash
  <1> QED BY <1>6, <1>7, <1>8 DEF IInv, Crash

LEMMA RevocationKeepsIInv ==
    ASSUME IInv, NEW b \in Browser, NEW s \in Secret, PullRevocation(b, s)
    PROVE  IInv'
  <1>1. TypeOK /\ CallsOk /\ MemoryOk /\ DbInv(db[b])
    BY DEF IInv
  <1>2. Revoke(s, b) \in SignedRecord
    BY DEF SignedRecord
  <1>3. DbInv(ApplyRecord(db[b], Revoke(s, b)))
    BY <1>1, <1>2, RecordKeepsDbInv DEF PullRevocation
  <1>4. db' \in [Browser -> Tables] /\ \A x \in Browser : DbInv(db'[x])
    BY <1>3, DbStepTyped DEF PullRevocation
  <1>5. spent' \in [requests : 0..MaxRequests, crashes : 0..MaxCrashes,
                    revocations : 0..MaxRevocations]
    <2>1. /\ spent \in [requests : 0..MaxRequests, crashes : 0..MaxCrashes,
                        revocations : 0..MaxRevocations]
          /\ spent.revocations < MaxRevocations
          /\ spent' = [spent EXCEPT !.revocations = spent.revocations + 1]
      BY <1>1 DEF TypeOK, PullRevocation
    <2>2. spent.revocations + 1 \in 0..MaxRevocations
      BY <2>1, BoundAssumption
    <2> QED BY <2>1, <2>2
  <1>6. CallsOk' /\ MemoryOk'
    BY <1>1 DEF CallsOk, MemoryOk, PullRevocation
  <1>7. TypeOK'
    BY <1>1, <1>4, <1>5 DEF TypeOK, PullRevocation
  <1> QED BY <1>4, <1>6, <1>7 DEF IInv

(* The induction step. *)
LEMMA NextIInv == IInv /\ [Next]_vars => IInv'
  <1> SUFFICES ASSUME IInv, [Next]_vars PROVE IInv'
    OBVIOUS
  <1>1. ASSUME NEW b \in Browser, NEW h \in Handler, RequestArrives(b, h) PROVE IInv'
    BY <1>1, RequestKeepsIInv
  <1>2. ASSUME NEW b \in Browser, NEW h \in Handler, HandlerStep(b, h) PROVE IInv'
    BY <1>2, HandlerKeepsIInv
  <1>3. ASSUME NEW b \in Browser, Crash(b) PROVE IInv'
    BY <1>3, CrashKeepsIInv
  <1>4. ASSUME NEW b \in Browser, NEW s \in Secret, PullRevocation(b, s) PROVE IInv'
    BY <1>4, RevocationKeepsIInv
  <1>5. CASE UNCHANGED vars
    BY <1>5 DEF vars, IInv, TypeOK, CallsOk, MemoryOk
  <1> QED BY <1>1, <1>2, <1>3, <1>4, <1>5 DEF Next

LEMMA IInvHolds == Spec => []IInv
  BY InitIInv, NextIInv, PTL DEF Spec

(* Type correctness of the enrollment model: in particular, only generated *)
(* secrets ever leave a browser as a key file or a handoff bundle.         *)
THEOREM TypeCorrect == Spec => []TypeOK
  <1>1. IInv => TypeOK
    BY DEF IInv
  <1> QED BY <1>1, IInvHolds, PTL

(* A profile database belongs to one secret, however creations, imports,   *)
(* handoffs and crashes interleave (OneSecret).                            *)
THEOREM OneSecretCorrect == Spec => []OneSecret
  BY IInvHolds, IInvOneSecret, PTL

(* An activation that was cut short anywhere can be repeated with the      *)
(* profile's secret (ActivationResumes).                                   *)
THEOREM ResumeCorrect == Spec => []ActivationResumes
  BY IInvHolds, IInvActivationResumes, PTL

(* No import, handoff or activation makes a revoked device trusted again   *)
(* (RevokedStaysOut).                                                      *)
THEOREM RevokedCorrect == Spec => []RevokedStaysOut
  BY IInvHolds, IInvRevokedStaysOut, PTL

-----------------------------------------------------------------------------
(* The key in memory. *)

Early == {"register", "domains", "content-key", "authority"}

(* A creation or an import of s is still to enroll the authority; if it    *)
(* does not succeed, the shell has seen a failure.                         *)
Backed(b, s) ==
    \E h \in Handler : /\ call[b][h].pc \in Early
                       /\ call[b][h].kind \in {"create", "key", "import"}
                       /\ call[b][h].secret = s

Holds(b, s) == OwnedBy(db[b], s) \/ Backed(b, s)

KeyInv(b) ==
    /\ \A h \in Handler : call[b][h].pc \in {"local", "mark"} /\ call[b][h].kind # "sync"
                             => OwnedBy(db[b], call[b][h].secret)
    /\ ~failed[b] =>
          /\ memory[b].export # NoSecret => Holds(b, memory[b].export)
          /\ \A h \in Handler : call[b][h].pc = "deliver" => Holds(b, call[b][h].secret)

KeysInv == \A b \in Browser : KeyInv(b)

(* What passes as the authority's enrollment by s makes the database s's. *)
LEMMA AuthorityOwns ==
    ASSUME NEW t, DbInv(t), NEW s \in Secret, Passes(t, Enroll(s, Authority))
    PROVE  OwnedBy(After(t, Enroll(s, Authority)), s)
  <1> DEFINE r == Enroll(s, Authority)
  <1>1. r \in SignedRecord /\ Authority \in Member
    BY DEF SignedRecord, Member
  <1>2. ASSUME NEW u \in Secret, NEW v, OwnedBy(v, u), r \in v.applied
        PROVE  u = s
    BY <1>1, <1>2, RecordsDiffer DEF OwnedBy, Member
  <1>3. CASE Accepts(t, r)
    <2>1. t \in Tables /\ r \in ApplyRecord(t, r).applied
      BY <1>1, ApplyEffect DEF DbInv
    <2>2. \E u \in Secret : OwnedBy(ApplyRecord(t, r), u)
      BY <1>1, <1>3, <2>1, FirstRecord, NextRecord DEF DbInv
    <2> QED BY <1>2, <1>3, <2>1, <2>2 DEF After
  <1>4. CASE ~Accepts(t, r) /\ Replays(t, r)
    <2>1. r \in t.applied
      BY <1>4 DEF Replays
    <2>2. \E u \in Secret : OwnedBy(t, u)
      BY <2>1 DEF DbInv, Untouched
    <2> QED BY <1>2, <1>4, <2>1, <2>2 DEF After
  <1> QED BY <1>3, <1>4 DEF Passes

(* A database that is s's stays s's. *)
LEMMA AfterKeepsOwner ==
    ASSUME NEW t, DbInv(t), NEW r \in SignedRecord, NEW s \in Secret, OwnedBy(t, s)
    PROVE  OwnedBy(After(t, r), s)
  BY NextRecord DEF After, DbInv

LEMMA RegisterKeepsOwner ==
    ASSUME NEW t, DbInv(t), NEW b \in Browser, NEW s \in Secret, OwnedBy(t, s)
    PROVE  OwnedBy([t EXCEPT !.provider[b] = FALSE], s)
  <1> DEFINE u == [t EXCEPT !.provider[b] = FALSE]
  <1>1. /\ t \in Tables /\ t.provider \in [Member -> BOOLEAN]
        /\ b \in Member /\ b # Authority /\ Authority \in Member
    BY NameAssumption DEF DbInv, Tables, Member
  <1>2. /\ u.keys = t.keys /\ u.stored = t.stored /\ u.applied = t.applied
        /\ u.provider = [t.provider EXCEPT ![b] = FALSE]
    BY <1>1 DEF Tables
  <1>3. u.provider[Authority] = t.provider[Authority]
    BY <1>1, <1>2
  <1> HIDE DEF u
  <1>4. OwnedBy(u, s)
    BY <1>2, <1>3 DEF OwnedBy, RowOf
  <1> QED BY <1>4 DEF u

(* The other browsers do not notice a step of b. *)
LEMMA OthersKeepKeys ==
    ASSUME KeysInv, NEW b \in Browser, KeyInv(b)',
           \A x \in Browser : x # b => /\ db'[x] = db[x] /\ call'[x] = call[x]
                                       /\ memory'[x] = memory[x] /\ failed'[x] = failed[x]
    PROVE  KeysInv'
  <1> SUFFICES ASSUME NEW x \in Browser, x # b PROVE KeyInv(x)'
    BY DEF KeysInv
  <1>1. KeyInv(x)
    BY DEF KeysInv
  <1> QED BY <1>1 DEF KeyInv, Holds, Backed

(* A step of thread h of b, that leaves c as its call, and what it may do  *)
(* to the secrets that b's database, or a call of b, stands for.           *)
LEMMA CallKeepsKeys ==
    ASSUME IInv, KeysInv, NEW b \in Browser, NEW h \in Handler, NEW c,
           call' = [call EXCEPT ![b][h] = c],
           \A x \in Browser : x # b => /\ db'[x] = db[x] /\ memory'[x] = memory[x]
                                       /\ failed'[x] = failed[x],
           \A s \in Secret : OwnedBy(db[b], s) => OwnedBy(db'[b], s),
           failed'[b] \/ failed'[b] = failed[b],
           \/ call[b][h].pc \notin Early
           \/ call[b][h].kind \notin {"create", "key", "import"}
           \/ c.pc \in Early /\ c.kind = call[b][h].kind /\ c.secret = call[b][h].secret
           \/ OwnedBy(db'[b], call[b][h].secret)
           \/ failed'[b],
           c.pc \in {"local", "mark"} /\ c.kind # "sync" => OwnedBy(db'[b], c.secret),
           \/ failed'[b]
           \/ /\ \/ memory'[b].export = memory[b].export
                 \/ OwnedBy(db'[b], memory'[b].export)
                 \/ /\ c.pc \in Early /\ c.kind \in {"create", "key", "import"}
                    /\ c.secret = memory'[b].export
              /\ c.pc = "deliver" => \/ OwnedBy(db'[b], c.secret)
                                     \/ c.secret \in Secret /\ Holds(b, c.secret)
    PROVE  KeysInv'
  <1>1. /\ call \in [Browser -> [Handler -> CallRecord]]
        /\ memory[b].export \in Secret \cup {NoSecret}
        /\ \A g \in Handler : call[b][g].pc # "idle" => call[b][g].secret \in Secret
    BY BusySecret DEF IInv, TypeOK
  <1>2. /\ call'[b][h] = c
        /\ \A g \in Handler : g # h => call'[b][g] = call[b][g]
        /\ \A x \in Browser : x # b => call'[x] = call[x]
    BY <1>1
  <1>3. KeyInv(b)
    BY DEF KeysInv
  <1>4. ASSUME NEW s \in Secret, Holds(b, s), ~failed'[b]
        PROVE  Holds(b, s)'
    <2>1. CASE OwnedBy(db[b], s)
      BY <2>1 DEF Holds
    <2>2. CASE Backed(b, s)
      <3>1. PICK g \in Handler : /\ call[b][g].pc \in Early
                                 /\ call[b][g].kind \in {"create", "key", "import"}
                                 /\ call[b][g].secret = s
        BY <2>2 DEF Backed
      <3>2. CASE g # h
        BY <1>2, <3>1, <3>2 DEF Holds, Backed
      <3>3. CASE g = h
        BY <1>2, <1>4, <3>1, <3>3 DEF Holds, Backed
      <3> QED BY <3>2, <3>3
    <2> QED BY <1>4, <2>1, <2>2 DEF Holds
  <1>5. ASSUME NEW g \in Handler, call'[b][g].pc \in {"local", "mark"}, call'[b][g].kind # "sync"
        PROVE  OwnedBy(db'[b], call'[b][g].secret)
    <2>1. CASE g = h
      BY <1>2, <1>5, <2>1
    <2>2. CASE g # h
      BY <1>1, <1>2, <1>3, <1>5, <2>2 DEF KeyInv
    <2> QED BY <2>1, <2>2
  <1>6. ASSUME ~failed'[b], memory'[b].export # NoSecret
        PROVE  Holds(b, memory[b].export)'
    <2>1. CASE memory'[b].export = memory[b].export
      <3>1. Holds(b, memory[b].export)
        BY <1>3, <1>6, <2>1 DEF KeyInv
      <3>2. memory[b].export \in Secret
        BY <1>1, <1>6, <2>1
      <3> QED BY <1>4, <1>6, <2>1, <3>1, <3>2 DEF Holds, Backed
    <2>2. CASE OwnedBy(db'[b], memory'[b].export)
      BY <2>2 DEF Holds
    <2>3. CASE /\ c.pc \in Early /\ c.kind \in {"create", "key", "import"}
               /\ c.secret = memory'[b].export
      BY <1>2, <2>3 DEF Holds, Backed
    <2> QED BY <1>6, <2>1, <2>2, <2>3
  <1>7. ASSUME ~failed'[b], NEW g \in Handler, call'[b][g].pc = "deliver"
        PROVE  Holds(b, call[b][g].secret)'
    <2>1. CASE g = h
      <3>1. CASE OwnedBy(db'[b], c.secret)
        BY <1>2, <2>1, <3>1 DEF Holds
      <3>2. CASE c.secret \in Secret /\ Holds(b, c.secret)
        BY <1>2, <1>4, <1>7, <2>1, <3>2 DEF Holds, Backed
      <3> QED BY <1>2, <1>7, <2>1, <3>1, <3>2
    <2>2. CASE g # h
      <3>1. call[b][g].pc = "deliver" /\ call'[b][g].secret = call[b][g].secret
        BY <1>2, <1>7, <2>2
      <3>2. Holds(b, call[b][g].secret) /\ call[b][g].secret \in Secret
        BY <1>1, <1>3, <1>7, <3>1 DEF KeyInv
      <3> QED BY <1>4, <1>7, <3>1, <3>2 DEF Holds, Backed
    <2> QED BY <2>1, <2>2
  <1>8. KeyInv(b)'
    BY <1>5, <1>6, <1>7 DEF KeyInv
  <1> QED BY <1>2, <1>8, OthersKeepKeys

(* A handler's step that leaves memory alone. *)
LEMMA GotoKeepsKeys ==
    ASSUME IInv, KeysInv, NEW b \in Browser, NEW h \in Handler, NEW pc \in Pc,
           call[b][h].pc # "idle", Goto(b, h, pc), pc # "deliver",
           UNCHANGED <<memory, failed>>,
           \A x \in Browser : x # b => db'[x] = db[x],
           \A s \in Secret : OwnedBy(db[b], s) => OwnedBy(db'[b], s),
           \/ call[b][h].pc \notin Early \/ pc \in Early
           \/ OwnedBy(db'[b], call[b][h].secret),
           pc \in {"local", "mark"} /\ call[b][h].kind # "sync"
              => OwnedBy(db'[b], call[b][h].secret)
    PROVE  KeysInv'
  <1> DEFINE c == IF pc = "idle" THEN Idle ELSE [call[b][h] EXCEPT !.pc = pc]
  <1>1. call[b][h] \in CallRecord /\ call \in [Browser -> [Handler -> CallRecord]]
    BY DEF IInv, TypeOK
  <1>2. c.pc = pc
    BY <1>1 DEF CallRecord, Idle
  <1>3. pc # "idle" => c.kind = call[b][h].kind /\ c.secret = call[b][h].secret
    BY <1>1 DEF CallRecord
  <1>4. call' = [call EXCEPT ![b][h] = c]
    BY <1>1 DEF Goto
  <1>5. pc \in Early \cup {"local", "mark"} => pc # "idle"
    BY DEF Early
  <1> HIDE DEF c
  <1> QED BY <1>2, <1>3, <1>4, <1>5, CallKeepsKeys

(* The transactions of an activation. *)
LEMMA ActivationKeepsKeys ==
    ASSUME IInv, KeysInv, NEW b \in Browser, NEW h \in Handler,
           \/ RegisterDevice(b, h) \/ EnsureDomains(b, h) \/ RegisterContentKey(b, h)
           \/ ApplyAuthority(b, h) \/ ApplyLocal(b, h) \/ ApplyProvider(b, h)
           \/ ApplyBundle(b, h)
    PROVE  KeysInv'
  <1> DEFINE s == call[b][h].secret
  <1>0. /\ DbInv(db[b]) /\ db \in [Browser -> Tables] /\ KeyInv(b)
        /\ {Authority, Provider, b} \subseteq Member
        /\ Pc = {"idle"} \cup Early \cup {"enroll", "local", "lock", "provider", "endpoint",
                                          "mark", "deliver", "bundle"}
    BY DEF IInv, TypeOK, KeysInv, Member, Pc, Early
  <1>a. call[b][h].pc # "idle" => s \in Secret
    BY BusySecret
  <1>1. CASE RegisterDevice(b, h)
    <2>1. db' = [db EXCEPT ![b] = [db[b] EXCEPT !.provider[b] = FALSE]]
      BY <1>0, <1>1 DEF RegisterDevice
    <2>2. \A u \in Secret : OwnedBy(db[b], u) => OwnedBy(db'[b], u)
      BY <1>0, <2>1, RegisterKeepsOwner
    <2>3. /\ call[b][h].pc # "idle" /\ Goto(b, h, "domains")
          /\ UNCHANGED <<memory, failed>>
          /\ \A x \in Browser : x # b => db'[x] = db[x]
          /\ "domains" \in Pc /\ "domains" \in Early
      BY <1>0, <1>1, <2>1 DEF RegisterDevice, At, Early
    <2> QED BY <2>2, <2>3, GotoKeepsKeys
  <1>2. CASE EnsureDomains(b, h)
    <2>1. /\ call[b][h].pc # "idle" /\ Goto(b, h, "content-key")
          /\ UNCHANGED <<db, memory, failed>>
          /\ "content-key" \in Pc /\ "content-key" \in Early
      BY <1>0, <1>2 DEF EnsureDomains, At, Early
    <2> QED BY <2>1, GotoKeepsKeys
  <1>3. CASE RegisterContentKey(b, h)
    <2>1. /\ call[b][h].pc # "idle" /\ Goto(b, h, "authority")
          /\ UNCHANGED <<db, memory, failed>>
          /\ "authority" \in Pc /\ "authority" \in Early
      BY <1>0, <1>3 DEF RegisterContentKey, At, Early
    <2> QED BY <2>1, GotoKeepsKeys
  (* A record of s is applied. *)
  <1>b. ASSUME NEW d \in Member, NEW pc, call[b][h].pc # "idle", EnrollInDatabase(b, h, d, pc)
        PROVE  /\ db' = [db EXCEPT ![b] = After(db[b], Enroll(s, d))]
               /\ Passes(db[b], Enroll(s, d))
               /\ \A x \in Browser : x # b => db'[x] = db[x]
               /\ \A u \in Secret : OwnedBy(db[b], u) => OwnedBy(db'[b], u)
               /\ Goto(b, h, pc) /\ UNCHANGED <<memory, failed>>
    <2>1. Enroll(s, d) \in SignedRecord
      BY <1>a, <1>b DEF SignedRecord
    <2>2. /\ db' = [db EXCEPT ![b] = After(db[b], Enroll(s, d))]
          /\ Passes(db[b], Enroll(s, d))
          /\ Goto(b, h, pc) /\ UNCHANGED <<memory, failed>>
      BY <1>b DEF EnrollInDatabase
    <2>3. db'[b] = After(db[b], Enroll(s, d)) /\ \A x \in Browser : x # b => db'[x] = db[x]
      BY <1>0, <2>2
    <2> QED BY <1>0, <2>1, <2>2, <2>3, AfterKeepsOwner
  <1>4. CASE ApplyAuthority(b, h)
    <2>1. /\ call[b][h].pc # "idle" /\ EnrollInDatabase(b, h, Authority, "local")
          /\ "local" \in Pc
      BY <1>0, <1>4 DEF ApplyAuthority, At
    <2>2. OwnedBy(db'[b], s)
      BY <1>0, <1>a, <1>b, <2>1, AuthorityOwns
    <2> QED BY <1>0, <1>b, <2>1, <2>2, GotoKeepsKeys
  <1>5. CASE ApplyLocal(b, h)
    <2> DEFINE pc == IF call[b][h].kind = "sync" THEN "provider" ELSE "mark"
    <2>1. /\ call[b][h].pc = "local" /\ EnrollInDatabase(b, h, b, pc)
          /\ pc \in Pc /\ pc # "deliver" /\ call[b][h].pc \notin Early
          /\ pc = "mark" => call[b][h].kind # "sync"
          /\ pc # "local" /\ call[b][h].pc # "idle"
      BY <1>0, <1>5 DEF ApplyLocal, At, Early
    <2>2. pc = "mark" => OwnedBy(db[b], s)
      BY <1>0, <2>1 DEF KeyInv
    <2> HIDE DEF pc
    <2>3. pc = "mark" => OwnedBy(db'[b], s)
      BY <1>0, <1>a, <1>b, <2>1, <2>2
    <2> QED BY <1>0, <1>b, <2>1, <2>3, GotoKeepsKeys
  <1>6. CASE ApplyProvider(b, h)
    <2>1. /\ call[b][h].pc # "idle" /\ EnrollInDatabase(b, h, Provider, "endpoint")
          /\ call[b][h].pc \notin Early /\ "endpoint" \in Pc
      BY <1>0, <1>6 DEF ApplyProvider, At, Early
    <2> QED BY <1>0, <1>b, <2>1, GotoKeepsKeys
  <1>7. CASE ApplyBundle(b, h)
    <2> DEFINE t == After(db[b], Enroll(s, Authority))
    <2>1. /\ call[b][h].pc # "idle" /\ Goto(b, h, "register")
          /\ UNCHANGED <<memory, failed>>
          /\ db' = [db EXCEPT ![b] = After(t, Enroll(s, b))]
          /\ "register" \in Pc /\ "register" \in Early
      BY <1>0, <1>7 DEF ApplyBundle, At, Early
    <2>2. Enroll(s, Authority) \in SignedRecord /\ Enroll(s, b) \in SignedRecord
      BY <1>0, <1>a, <2>1 DEF SignedRecord
    <2>3. DbInv(t) /\ \A u \in Secret : OwnedBy(db[b], u) => OwnedBy(t, u)
      BY <1>0, <2>2, AfterKeepsDbInv, AfterKeepsOwner
    <2> HIDE DEF t
    <2>4. \A u \in Secret : OwnedBy(db[b], u) => OwnedBy(db'[b], u)
      BY <1>0, <2>1, <2>2, <2>3, AfterKeepsOwner
    <2>5. \A x \in Browser : x # b => db'[x] = db[x]
      BY <1>0, <2>1
    <2> QED BY <2>1, <2>4, <2>5, GotoKeepsKeys
  <1> QED BY <1>1, <1>2, <1>3, <1>4, <1>5, <1>6, <1>7

(* The steps around an activation: the mutex, what is delivered, errors. *)
LEMMA OtherStepsKeepKeys ==
    ASSUME IInv, KeysInv, NEW b \in Browser, NEW h \in Handler,
           \/ LockForProvider(b, h) \/ UpsertProvider(b, h) \/ Deliver(b, h)
           \/ DeliverBundle(b, h) \/ Refused(b, h) \/ StepFails(b, h)
    PROVE  KeysInv'
  <1>0. {"idle", "provider", "mark"} \subseteq Pc
    BY DEF Pc
  <1>1. CASE LockForProvider(b, h) \/ Deliver(b, h) \/ DeliverBundle(b, h)
    <2> DEFINE pc == IF At(b, h, "lock") THEN "provider" ELSE "idle"
    <2>1. /\ call[b][h].pc # "idle" /\ Goto(b, h, pc) /\ UNCHANGED <<db, memory, failed>>
          /\ call[b][h].pc \notin Early /\ pc \in Pc /\ pc \notin {"deliver", "local", "mark"}
      BY <1>0, <1>1 DEF LockForProvider, Deliver, DeliverBundle, At, Early
    <2> HIDE DEF pc
    <2> QED BY <2>1, GotoKeepsKeys
  <1>2. CASE UpsertProvider(b, h)
    <2> DEFINE pc == IF call[b][h].kind = "sync" THEN "mark" ELSE "idle"
    <2>1. /\ call[b][h].pc # "idle" /\ Goto(b, h, pc) /\ UNCHANGED <<db, memory, failed>>
          /\ call[b][h].pc \notin Early /\ pc \in Pc /\ pc \notin {"deliver", "local"}
          /\ pc = "mark" => call[b][h].kind = "sync"
      BY <1>0, <1>2 DEF UpsertProvider, At, Early
    <2> HIDE DEF pc
    <2> QED BY <2>1, GotoKeepsKeys
  <1>3. CASE Refused(b, h) \/ StepFails(b, h)
    <2>1. Aborts(b, h)
      BY <1>3 DEF Refused, StepFails
    <2>2. /\ call \in [Browser -> [Handler -> CallRecord]] /\ failed \in [Browser -> BOOLEAN]
      BY DEF IInv, TypeOK
    <2>3. /\ call' = [call EXCEPT ![b][h] = Idle] /\ Idle.pc = "idle"
          /\ UNCHANGED <<db, memory>>
      BY <2>1, <2>2 DEF Aborts, Goto, Idle
    <2>4. /\ \A x \in Browser : x # b => failed'[x] = failed[x]
          /\ failed'[b] \/ failed'[b] = failed[b]
          /\ call[b][h].pc \in Early /\ call[b][h].kind \in {"create", "key", "import"}
                => failed'[b]
      BY <2>1, <2>2 DEF Aborts, At, Early
    <2> QED BY <2>3, <2>4, CallKeepsKeys DEF Early
  <1> QED BY <1>1, <1>2, <1>3

LEMMA MarkKeepsKeys ==
    ASSUME IInv, KeysInv, NEW b \in Browser, NEW h \in Handler, Mark(b, h)
    PROVE  KeysInv'
  <1> DEFINE pc == IF call[b][h].kind = "key" THEN "deliver" ELSE "idle"
             c == IF pc = "idle" THEN Idle ELSE [call[b][h] EXCEPT !.pc = pc]
  <1>1. /\ call[b][h] \in CallRecord /\ call \in [Browser -> [Handler -> CallRecord]]
        /\ memory \in [Browser -> [export : Secret \cup {NoSecret}, ready : BOOLEAN]]
    BY DEF IInv, TypeOK
  <1>2. call[b][h].pc = "mark" /\ UNCHANGED <<db, failed>>
    BY DEF Mark, At
  <1>3. call[b][h].kind # "sync" => OwnedBy(db[b], call[b][h].secret)
    BY <1>2 DEF KeysInv, KeyInv
  <1>4. call' = [call EXCEPT ![b][h] = c]
    BY <1>1 DEF Mark, Goto
  <1>5. /\ c.pc \in {"idle", "deliver"}
        /\ c.pc = "deliver" => call[b][h].kind = "key" /\ c.secret = call[b][h].secret
    BY <1>1 DEF CallRecord, Idle
  <1>6. /\ \A x \in Browser : x # b => memory'[x] = memory[x]
        /\ memory'[b].export = IF call[b][h].kind = "handoff" THEN call[b][h].secret
                               ELSE memory[b].export
    BY <1>1 DEF Mark
  <1>7. call[b][h].pc \notin Early
    BY <1>2 DEF Early
  <1> HIDE DEF c
  <1>8. memory'[b].export = memory[b].export \/ OwnedBy(db'[b], memory'[b].export)
    BY <1>2, <1>3, <1>6
  <1>9. c.pc = "deliver" => OwnedBy(db'[b], c.secret)
    BY <1>2, <1>3, <1>5
  <1> QED BY <1>2, <1>4, <1>5, <1>6, <1>7, <1>8, <1>9, CallKeepsKeys

(* A request that puts s into memory, to activate with it. *)
LEMMA LoadKeepsKeys ==
    ASSUME IInv, KeysInv, NEW b \in Browser, NEW h \in Handler, NEW s \in Secret,
           NEW kind \in {"create", "key", "import"}, call[b][h].pc = "idle",
           memory' = [memory EXCEPT ![b] = [export |-> s, ready |-> FALSE]],
           Start(b, h, "register", kind, s, b), UNCHANGED <<db, failed>>
    PROVE  KeysInv'
  <1> DEFINE c == [pc |-> "register", kind |-> kind, secret |-> s, target |-> b]
  <1>1. call' = [call EXCEPT ![b][h] = c]
    BY DEF Start
  <1>2. /\ c.pc = "register" /\ c.kind = kind /\ c.secret = s
        /\ "idle" \notin Early /\ "register" \in Early
    BY DEF Early
  <1>3. /\ memory'[b].export = s
        /\ \A x \in Browser : x # b => memory'[x] = memory[x]
    BY DEF IInv, TypeOK
  <1> HIDE DEF c
  <1> QED BY <1>1, <1>2, <1>3, CallKeepsKeys

(* A request that uses the secret in memory, or a bundle's. *)
LEMMA UseKeepsKeys ==
    ASSUME IInv, KeysInv, NEW b \in Browser, NEW h \in Handler, NEW s \in Secret,
           NEW pc \in {"deliver", "bundle", "lock", "register", "enroll"}, NEW kind, NEW d,
           call[b][h].pc = "idle", Start(b, h, pc, kind, s, d), UNCHANGED <<db, failed>>,
           memory' = memory \/ memory' = [memory EXCEPT ![b] = Refreshed(b)],
           pc = "deliver" => s = memory[b].export
    PROVE  KeysInv'
  <1> DEFINE c == [pc |-> pc, kind |-> kind, secret |-> s, target |-> d]
  <1>1. call' = [call EXCEPT ![b][h] = c]
    BY DEF Start
  <1>2. c.pc = pc /\ c.kind = kind /\ c.secret = s /\ "idle" \notin Early
    BY DEF Early
  <1>3. /\ memory'[b].export = memory[b].export
        /\ \A x \in Browser : x # b => memory'[x] = memory[x]
    BY DEF IInv, TypeOK, Refreshed
  <1>4. ~failed[b] /\ pc = "deliver" => Holds(b, s)
    BY NameAssumption DEF KeysInv, KeyInv
  <1> HIDE DEF c
  <1> QED BY <1>1, <1>2, <1>3, <1>4, CallKeepsKeys

LEMMA RequestKeepsKeys ==
    ASSUME IInv, KeysInv, NEW b \in Browser, NEW h \in Handler, RequestArrives(b, h)
    PROVE  KeysInv'
  <1>0. /\ memory \in [Browser -> [export : Secret \cup {NoSecret}, ready : BOOLEAN]]
        /\ keyFiles \subseteq Secret /\ bundles \subseteq Secret \X Browser
    BY DEF IInv, TypeOK
  <1>1. CASE Check(b, h)
    <2>1. /\ UNCHANGED <<db, call, failed>>
          /\ memory' = [memory EXCEPT ![b] = Refreshed(b)]
      BY <1>1 DEF Check
    <2>2. \A x \in Browser : memory'[x].export = memory[x].export
      BY <1>0, <2>1 DEF Refreshed
    <2> QED BY <2>1, <2>2 DEF KeysInv, KeyInv, Holds, Backed
  <1>2. CASE ExportLoadedKey(b, h)
    BY <1>0, <1>2, UseKeepsKeys DEF ExportLoadedKey, Arrives
  <1>3. ASSUME NEW s \in Secret, Create(b, h, s) PROVE KeysInv'
    BY <1>3, LoadKeepsKeys DEF Create, Arrives, Generate
  <1>4. ASSUME NEW s \in Secret, ExportFirstKey(b, h, s) PROVE KeysInv'
    BY <1>4, LoadKeepsKeys DEF ExportFirstKey, Arrives, Generate
  <1>5. ASSUME NEW s \in Secret, Import(b, h, s) PROVE KeysInv'
    BY <1>5, LoadKeepsKeys DEF Import, Arrives
  <1>6. ASSUME NEW s \in Secret, ImportBundle(b, h, s) PROVE KeysInv'
    BY <1>6, UseKeepsKeys DEF ImportBundle, Arrives
  <1>7. ASSUME NEW pc \in {"bundle", "lock", "register"}, NEW kind, NEW d,
               UseSecret(b, h, pc, kind, d)
        PROVE  KeysInv'
    <2>1. /\ memory[b].export \in Secret /\ call[b][h].pc = "idle"
          /\ memory' = [memory EXCEPT ![b] = Refreshed(b)]
          /\ Start(b, h, pc, kind, memory[b].export, d) /\ UNCHANGED <<db, failed>>
      BY <1>0, <1>7 DEF UseSecret, Arrives
    <2>2. pc \in {"deliver", "bundle", "lock", "register", "enroll"} /\ pc # "deliver"
      BY <1>7
    <2> QED BY <2>1, <2>2, UseKeepsKeys
  <1>8. ASSUME NEW d \in Browser, CreateBundle(b, h, d) PROVE KeysInv'
    BY <1>7, <1>8 DEF CreateBundle
  <1>9. CASE ActivateProvider(b, h)
    BY <1>7, <1>9 DEF ActivateProvider
  <1>10. CASE RunSync(b, h)
    BY <1>7, <1>10 DEF RunSync
  <1> QED BY <1>1, <1>2, <1>3, <1>4, <1>5, <1>6, <1>8, <1>9, <1>10 DEF RequestArrives

LEMMA CrashKeepsKeys ==
    ASSUME IInv, KeysInv, NEW b \in Browser, Crash(b)
    PROVE  KeysInv'
  <1>1. /\ db' = db
        /\ \A x \in Browser : x # b => /\ call'[x] = call[x] /\ memory'[x] = memory[x]
                                       /\ failed'[x] = failed[x]
        /\ memory'[b].export = NoSecret
        /\ \A h \in Handler : call'[b][h].pc = "idle"
    BY DEF IInv, TypeOK, Crash, NewShell, Idle
  <1>2. KeyInv(b)'
    BY <1>1 DEF KeyInv
  <1> QED BY <1>1, <1>2, OthersKeepKeys

LEMMA RevocationKeepsKeys ==
    ASSUME IInv, KeysInv, NEW b \in Browser, NEW s \in Secret, PullRevocation(b, s)
    PROVE  KeysInv'
  <1>1. /\ db \in [Browser -> Tables] /\ DbInv(db[b]) /\ Revoke(s, b) \in SignedRecord
        /\ db[b] \in Tables
    BY DEF IInv, TypeOK, SignedRecord
  <1>2. /\ db' = [db EXCEPT ![b] = ApplyRecord(db[b], Revoke(s, b))]
        /\ Accepts(db[b], Revoke(s, b)) /\ UNCHANGED <<call, memory, failed>>
    BY DEF PullRevocation
  <1>3. /\ db'[b] = ApplyRecord(db[b], Revoke(s, b))
        /\ \A x \in Browser : x # b => db'[x] = db[x]
    BY <1>1, <1>2
  <1>4. \A u \in Secret : OwnedBy(db[b], u) => OwnedBy(db'[b], u)
    BY <1>1, <1>2, <1>3, NextRecord
  <1>5. /\ memory[b].export \in Secret \cup {NoSecret}
        /\ \A h \in Handler : call[b][h].pc # "idle" => call[b][h].secret \in Secret
    BY BusySecret DEF IInv, TypeOK
  <1>6. \A u \in Secret : Holds(b, u) => Holds(b, u)'
    BY <1>2, <1>4 DEF Holds, Backed
  <1>7. KeyInv(b)
    BY DEF KeysInv
  <1>8. ASSUME ~failed'[b], memory'[b].export # NoSecret PROVE Holds(b, memory[b].export)'
    <2>1. Holds(b, memory[b].export)
      BY <1>2, <1>7, <1>8 DEF KeyInv
    <2> QED BY <1>2, <1>4, <1>5, <1>8, <2>1 DEF Holds, Backed
  <1>9. ASSUME ~failed'[b], NEW h \in Handler, call'[b][h].pc = "deliver"
        PROVE  Holds(b, call[b][h].secret)'
    <2>1. Holds(b, call[b][h].secret)
      BY <1>2, <1>7, <1>9 DEF KeyInv
    <2> QED BY <1>2, <1>4, <1>5, <1>9, <2>1 DEF Holds, Backed
  <1>10. \A h \in Handler : call'[b][h].pc \in {"local", "mark"} /\ call'[b][h].kind # "sync"
                              => OwnedBy(db'[b], call'[b][h].secret)
    BY <1>2, <1>4, <1>5, <1>7 DEF KeyInv
  <1>11. KeyInv(b)'
    BY <1>8, <1>9, <1>10 DEF KeyInv
  <1> QED BY <1>2, <1>3, <1>11, OthersKeepKeys

LEMMA NextKeys == IInv /\ KeysInv /\ [Next]_vars => KeysInv'
  <1> SUFFICES ASSUME IInv, KeysInv, [Next]_vars PROVE KeysInv'
    OBVIOUS
  <1>1. ASSUME NEW b \in Browser, NEW h \in Handler, RequestArrives(b, h) PROVE KeysInv'
    BY <1>1, RequestKeepsKeys
  <1>2. ASSUME NEW b \in Browser, NEW h \in Handler, HandlerStep(b, h) PROVE KeysInv'
    BY <1>2, ActivationKeepsKeys, OtherStepsKeepKeys, MarkKeepsKeys DEF HandlerStep
  <1>3. ASSUME NEW b \in Browser, Crash(b) PROVE KeysInv'
    BY <1>3, CrashKeepsKeys
  <1>4. ASSUME NEW b \in Browser, NEW s \in Secret, PullRevocation(b, s) PROVE KeysInv'
    BY <1>4, RevocationKeepsKeys
  <1>5. CASE UNCHANGED vars
    BY <1>5 DEF vars, KeysInv, KeyInv, Holds, Backed
  <1> QED BY <1>1, <1>2, <1>3, <1>4, <1>5 DEF Next

LEMMA InitKeys == Init => KeysInv
  BY DEF Init, KeysInv, KeyInv, Idle, NewShell

LEMMA KeysInvMemoryKey == IInv /\ KeysInv => MemoryKeyIsProfiles
  <1> SUFFICES ASSUME IInv, KeysInv, NEW b \in Browser, Settled(b), ~failed[b]
               PROVE  /\ memory[b].export # NoSecret => OwnSecret(b, memory[b].export)
                      /\ \A h \in Handler :
                            At(b, h, "deliver") => OwnSecret(b, call[b][h].secret)
    BY DEF MemoryKeyIsProfiles
  <1>1. ASSUME NEW s \in Secret, Holds(b, s) PROVE OwnSecret(b, s)
    <2>1. OwnedBy(db[b], s)
      BY <1>1 DEF Holds, Backed, Settled, Early
    <2>2. db[b].keys[Authority] = [key |-> <<s, Authority>>, epoch |-> 1, trusted |-> TRUE]
      BY <2>1, AuthorityRow
    <2>3. [key |-> <<s, Authority>>, epoch |-> 1, trusted |-> TRUE] \in KeyRow
      BY DEF KeyRow, KeyOf, Member
    <2>4. db[b].keys[Authority] # NoKey
      BY <2>2, <2>3, KeyAssumption
    <2> QED BY <2>2, <2>4 DEF OwnSecret
  <1>2. /\ memory[b].export \in Secret \cup {NoSecret}
        /\ \A h \in Handler : call[b][h].pc # "idle" => call[b][h].secret \in Secret
    BY BusySecret DEF IInv, TypeOK
  <1>3. KeyInv(b)
    BY DEF KeysInv
  <1> QED BY <1>1, <1>2, <1>3 DEF KeyInv, At

(* What the shell hands out is the profile's key: with no request under    *)
(* way, and unless a creation or an import has failed since the shell      *)
(* started, the key in memory, and that of a download about to be written, *)
(* is the one of the database's authority row (MemoryKeyIsProfiles).       *)
THEOREM MemoryKeyCorrect == Spec => []MemoryKeyIsProfiles
  BY IInvHolds, InitKeys, NextKeys, KeysInvMemoryKey, PTL DEF Spec

=============================================================================
