---------------------------- MODULE MCStartupProbe ----------------------------
(***************************************************************************)
(* A startup timeout of several health checks and several dials, with      *)
(* waits of different lengths; the clock may run past every bound claimed. *)
(***************************************************************************)
EXTENDS StartupProbe

MCHorizon == Timeout + DialTimeout + MaxPause + Interval + 1
=============================================================================
