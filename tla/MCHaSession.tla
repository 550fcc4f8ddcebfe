---------------------------- MODULE MCHaSession ----------------------------
(* Instances of HaSession for TLC. *)
EXTENDS HaSession

\* Two calls fill the table, the third finds it full.
MCRequests == 1..3
=============================================================================
