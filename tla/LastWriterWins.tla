--------------------------- MODULE LastWriterWins ---------------------------
(***************************************************************************)
(* What the settings log promises: a map in which the last writer wins.    *)
(* Devices write changes and hear of each other's; at any time a device    *)
(* shows, for each key, the greatest change it has heard of, and a change  *)
(* it writes is greater than all it has heard of.  Nothing is said of      *)
(* clocks, sequence numbers, applied rows or duplicates.                   *)
(***************************************************************************)
CONSTANTS Device, Key, NoValue,
          Precedes(_, _)   \* the order of changes

VARIABLES heard,   \* heard[d]: the changes d has heard of, its own included
          shown    \* shown[d][k]: what d shows

(* What a device that has heard of S shows. *)
Greatest(S, k) ==
    CHOOSE w \in S : w.key = k /\ \A c \in S : c.key = k => c = w \/ Precedes(c, w)

View(S) == [k \in Key |-> IF \E c \in S : c.key = k THEN Greatest(S, k).value ELSE NoValue]

Init == /\ heard = [d \in Device |-> {}]
        /\ shown = [d \in Device |-> View({})]

(* d hears of c: shown follows. *)
Learn(d, c) ==
    /\ heard' = [heard EXCEPT ![d] = @ \cup {c}]
    /\ shown' = [shown EXCEPT ![d] = View(heard[d] \cup {c})]

(* d writes something new, which is above all it has heard of. *)
Write(d) == \E c \in heard'[d] \ UNION {heard[e] : e \in Device} :
               /\ c.device = d
               /\ \A x \in heard[d] : Precedes(x, c)
               /\ Learn(d, c)

Hear(d) == \E e \in Device : \E c \in heard[e] \ heard[d] : Learn(d, c)

Next == \E d \in Device : Write(d) \/ Hear(d)

Spec == Init /\ [][Next]_<<heard, shown>>

=============================================================================
