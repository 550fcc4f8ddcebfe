--------------------------- MODULE MCEntityMirror ---------------------------
(* Instances of EntityMirror for TLC. *)
EXTENDS EntityMirror

CONSTANTS state, speed, mode, v1, v2

\* Two attributes, so that a change can name one, remove one and leave one.
MCFields == {state, speed, mode}
Body(s, a, b) == (state :> s) @@ (speed :> a) @@ (mode :> b)
MCBodies == {Body(v1, v1, v1), Body(v2, v2, v1), Body(v2, NoValue, v2)}
MCBlank == Body(NoValue, NoValue, NoValue)
=============================================================================
