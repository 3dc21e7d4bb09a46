-------------------------- MODULE MCSettingsWatcher --------------------------
(* SettingsWatcher on small instances: one or two shells, the zoom and one *)
(* or two bindings, and a setting of another domain.                       *)
EXTENDS SettingsWatcher

CONSTANTS s1, s2, b1, b2, t0, t1

OneShell == {s1}
TwoShells == {s1, s2}
OneBinding == {b1}
TwoBindings == {b1, b2}

(* The form of the settings page carries all bindings; a request without    *)
(* some of them, or without any, is possible too.                           *)
NoBindings == [k \in {} |-> t1]
Requests == {NoBindings, [k \in {b1} |-> t1]}

=============================================================================
