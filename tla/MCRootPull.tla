----------------------------- MODULE MCRootPull -----------------------------
(* RootPull on small instances. *)
EXTENDS RootPull

TwoDevices == {1, 2}
FirstDevice == {1}
SecondDevice == {2}

(* Two settings of one domain. *)
TwoKeys == {"k1", "k2"}
OneDomain == [k \in TwoKeys |-> 1]

=============================================================================
