---------------------------- MODULE MCPanelPower ----------------------------
(* Instances of PanelPower for TLC. *)
EXTENDS PanelPower

\* One brightness below the readable threshold and one above the wake brightness.
MCSavedLevels == {1, 200}
MCRequests == {0, 200}
MCNoFailure == {}
MCOffFails == {FALSE}
MCOnFails == {TRUE}
=============================================================================
