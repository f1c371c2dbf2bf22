---------------------------- MODULE MCServiceManager ----------------------------
(***************************************************************************)
(* Two services that need the same unit of one resource, so that starting  *)
(* one requires stopping the other; c1 and c2 are clients of the first.    *)
(***************************************************************************)
EXTENDS ServiceManagerProperties, TLC

CONSTANTS c1, c2, c3, t1, chat, draw, vram

MCTarget == [c \in Connections |-> IF c = c3 THEN draw ELSE chat]
MCAmount == vram :> 1
MCRequirement == [s \in Services |-> vram :> 1]

Symmetry == Permutations({c1, c2})
=============================================================================
