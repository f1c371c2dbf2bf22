--------------------------- MODULE ResourceUnits ---------------------------
(***************************************************************************)
(* The amount of a resource a set of users takes together.  Each user x    *)
(* contributes req[x][r] distinct units of resource r, so the sum is the   *)
(* size of a set and needs no recursion.                                   *)
(***************************************************************************)
EXTENDS Naturals, FiniteSets

Units(req, users, r) == UNION {{x} \X (1..req[x][r]) : x \in users}
Use(req, users, r)   == Cardinality(Units(req, users, r))
=============================================================================
