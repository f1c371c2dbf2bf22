------------------------------ MODULE MCShutdown ------------------------------
(***************************************************************************)
(* Two services, one of whose processes may return early; another          *)
(* goroutine stops that one, too, whatever its start does.                 *)
(***************************************************************************)
EXTENDS ShutdownProperties

CONSTANTS chat, draw, idle

MCVictim == [a \in Callers |-> draw]
=============================================================================
