--------------------------- MODULE ResourceLedger ---------------------------
(***************************************************************************)
(* What the static resource accounting promises: a service takes all of    *)
(* its requirement at once and only when it fits, gives all of it back at  *)
(* once, and never takes it twice.  The abstract specification that        *)
(* ServiceManager implements.                                              *)
(***************************************************************************)
EXTENDS Integers

CONSTANTS Services, Resources, Amount, Requirement

VARIABLES
    holders, \* the services whose requirement is taken
    used     \* resourceManager.resourcesInUse

ledgerVars == <<holders, used>>

Fits(s) ==
    \A r \in Resources :
        Requirement[s][r] > 0 => Requirement[s][r] <= Amount[r] - used[r]

LedgerInit ==
    /\ holders = {}
    /\ used = [r \in Resources |-> 0]

Acquire(s) ==
    /\ s \notin holders
    /\ Fits(s)
    /\ holders' = holders \cup {s}
    /\ used' = [r \in Resources |-> used[r] + Requirement[s][r]]

Release(s) ==
    /\ s \in holders
    /\ holders' = holders \ {s}
    /\ used' = [r \in Resources |-> used[r] - Requirement[s][r]]

LedgerNext == \E s \in Services : Acquire(s) \/ Release(s)

LedgerSpec == LedgerInit /\ [][LedgerNext]_ledgerVars
=============================================================================
