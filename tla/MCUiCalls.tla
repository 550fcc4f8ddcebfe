----------------------------- MODULE MCUiCalls -----------------------------
(* Instances of UiCalls for TLC: the two lights, two of the presets and  *)
(* the ceiling toggle, as main.rs wires them.                              *)
EXTENDS UiCalls

CONSTANTS ceiling, monitor, dim, full, ceilingToggle

MCEntities == {ceiling, monitor}
MCPresets == {dim, full}
MCToggles == {ceilingToggle}
MCEntityOf == [t \in Toggles |-> ceiling]
MCCallsOf ==
    [b \in Buttons |->
        CASE b = dim -> <<{ceiling}, {monitor}>>
          [] b = full -> <<{ceiling, monitor}>>
          [] OTHER -> <<{EntityOf[b]}>>]
MCRequests == 2..MaxRequest
=============================================================================
