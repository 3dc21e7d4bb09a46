----------------------------- MODULE MCEnrollment -----------------------------
(***************************************************************************)
(* Two browsers with two handler threads each and two secrets: a browser   *)
(* creates or imports a key while it has another, or two at a time.        *)
(***************************************************************************)
EXTENDS Enrollment

CONSTANTS b1, b2, s1, s2, h1, h2

=============================================================================
