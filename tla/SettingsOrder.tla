---------------------------- MODULE SettingsOrder ----------------------------
(***************************************************************************)
(* Which of several changes of one setting wins.  A change is a record     *)
(* with at least the fields key, device, seq and clock.                    *)
(***************************************************************************)
EXTENDS Integers

(* Variant of Precedes: the device id does not break ties. *)
PrecedesWithoutDevice(a, b) ==
    a.clock < b.clock \/ (a.clock = b.clock /\ a.seq < b.seq)

(* The order of setting_change_wins: clock, then device, then sequence. *)
Precedes(a, b) ==
    \/ a.clock < b.clock
    \/ a.clock = b.clock /\ a.device < b.device
    \/ a.clock = b.clock /\ a.device = b.device /\ a.seq < b.seq

OfKey(S, k) == {c \in S : c.key = k}

(* w is the row of S that ORDER BY clock, device, sequence DESC selects. *)
SyncSettingWinner(w, S) == w \in S /\ \A c \in S : c = w \/ Precedes(c, w)

(* Variant of SettingChangeWins: an equal clock wins. *)
SettingChangeWinsOnClock(c, S) ==
    \A w \in OfKey(S, c.key) :
       SyncSettingWinner(w, OfKey(S, c.key)) => w.clock <= c.clock

SettingChangeWins(c, S) ==
    \A w \in OfKey(S, c.key) :
       SyncSettingWinner(w, OfKey(S, c.key)) => Precedes(w, c)

=============================================================================
