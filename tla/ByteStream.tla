----------------------------- MODULE ByteStream -----------------------------
(***************************************************************************)
(* What forwarding a connection promises: the service receives the bytes   *)
(* its client sent, each once and in their order, from the first one on,   *)
(* until the stream ends; whole when it ends cleanly.                      *)
(***************************************************************************)
EXTENDS Integers, Sequences

VARIABLES
    from,     \* the position in what the client sends where the stream begins
    sent,     \* the position the client has sent up to
    received, \* what the service has received
    ended     \* the service will receive no more

streamVars == <<from, sent, received, ended>>

\* The first n bytes of the stream; a byte is named by its position.
Prefix(n) == [i \in 1..n |-> from + i]

StreamInit == from \in Nat /\ sent \in Nat /\ received = << >> /\ ended = FALSE

\* Until the first byte is delivered the stream may still begin later.
Begin ==
    /\ received = << >> /\ ~ended
    /\ from' >= from /\ from' \in Nat
    /\ UNCHANGED <<sent, received, ended>>

Send ==
    /\ sent' > sent /\ sent' \in Nat
    /\ UNCHANGED <<from, received, ended>>

Deliver ==
    /\ ~ended
    /\ \E n \in Len(received) + 1 .. sent - from : received' = Prefix(n)
    /\ UNCHANGED <<from, sent, ended>>

End == ~ended /\ ended' /\ UNCHANGED <<from, sent, received>>

StreamNext == Begin \/ Send \/ Deliver \/ End

StreamSpec == StreamInit /\ [][StreamNext]_streamVars
=============================================================================
