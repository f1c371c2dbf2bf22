-------------------------- MODULE MCResourceMonitor --------------------------
(***************************************************************************)
(* Two services that each need the one unit there is of a measured         *)
(* resource, which another program may take as well.                       *)
(***************************************************************************)
EXTENDS ResourceMonitorProperties, TLC

CONSTANTS chat, draw, vram

MCCapacity    == [r \in Resources |-> 1]
MCRequirement == [s \in Services |-> [r \in Resources |-> 1]]
MCOthers      == [r \in Resources |-> {0, 1}]
=============================================================================
