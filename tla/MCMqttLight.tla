---------------------------- MODULE MCMqttLight ----------------------------
(* An instance of MqttLight for TLC.  Two levels: one command sets the      *)
(* brightness, the other and the state found retained leave it out.         *)
EXTENDS MqttLight

CONSTANTS low, high

MCLevels == {low, high}
MCDefault == [on |-> TRUE, brightness |-> high]
MCStale == [on |-> FALSE, brightness |-> high]
MCCommands ==
    {[on |-> FALSE, brightness |-> low], [on |-> TRUE, brightness |-> NoState]}
MCFound == {[on |-> TRUE, brightness |-> NoState], NoState, Garbage}
=============================================================================
