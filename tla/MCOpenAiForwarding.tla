-------------------------- MODULE MCOpenAiForwarding --------------------------
(***************************************************************************)
(* A connection to a service's port, or one to the OpenAI API that sends   *)
(* these requests.                                                         *)
(***************************************************************************)
EXTENDS OpenAiForwarding

\* Handlers that leave nothing of a request unread.
MCScript == << [kind |-> "list", body |-> 0],
               [kind |-> "unknown", body |-> 1],
               [kind |-> "completion", body |-> 1] >>

\* A request with a body to a URL that is not supported.
MCUnsupported == << [kind |-> "unsupported", body |-> 1],
                    [kind |-> "completion", body |-> 1] >>
=============================================================================
