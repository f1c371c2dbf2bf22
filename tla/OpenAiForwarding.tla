-------------------------- MODULE OpenAiForwarding --------------------------
(***************************************************************************)
(* A connection to the OpenAI API port: an HTTP server reads requests from *)
(* it through a rawCaptureConnection that keeps a copy of every byte.  The *)
(* first request for a model of a service is hijacked: its captured bytes  *)
(* are replayed to the service and the rest of the connection is forwarded *)
(* (Forwarding).  openai_api.go.  A connection to a service's own port is  *)
(* forwarded from its first byte.                                          *)
(*                                                                         *)
(* The capture buffer always holds the bytes read since it was last reset, *)
(* so the position of that reset stands for it.  The HTTP server is        *)
(* net/http: it reads ahead into its own buffer, and after a handler it    *)
(* reads and drops what is left of the request before it answers.  Clients *)
(* send a request after they have the answer to the one before.            *)
(***************************************************************************)
EXTENDS Forwarding

CONSTANT
    Script  \* the requests a client sends: [kind, body], body its size

Kinds == {"list", "unsupported", "unknown", "completion"}

ASSUME ScriptAssumption == Script \in Seq([kind : Kinds, body : Nat])

VARIABLES
    http,    \* where the HTTP server is with this connection
    request, \* the number of the request it is at
    begin,   \* bytes the client sends before that request
    parsed,  \* bytes the server has consumed
    mark     \* bytes read when the capture buffer was last reset

httpVars == <<http, request, begin, parsed, mark>>
allVars == <<vars, httpVars>>

\* Where the request ends: one unit of header, then its body.
End == begin + 1 + Script[request].body

Init ==
    /\ ForwardingInit
    /\ \/ http = "direct" /\ handler = "accepted"    \* startProxy
       \/ http = "idle" /\ handler = "http"          \* startOpenAiApi
    /\ request = 1 /\ begin = 0 /\ parsed = 0 /\ mark = 0

\* What the client may have sent by now.
Allowance == CASE http \in {"direct", "hijacked"} -> MaxBytes
               [] OTHER -> IF request > Len(Script) THEN sent ELSE End

ClientSends ==
    /\ client = "open"
    /\ \E n \in sent + 1 .. Allowance : n <= MaxBytes /\ sent' = n
    /\ UNCHANGED <<client, service, replied, taken, got, received, connVars,
                   pipe, replay, handler, monitor, loopVars, chunk, eof, httpVars>>
-----------------------------------------------------------------------------
Kind == Script[request].kind

\* The places where the HTTP server reads, its own buffer being empty.
Reading == /\ http \in {"idle", "body", "discard"} /\ parsed = taken
           /\ http # "idle" => parsed < End

\* rawCaptureConnection.Read.
Fill ==
    /\ Reading /\ client # "reset"
    /\ \E n \in 1..Unread : n <= MaxChunk /\ taken' = taken + n
    /\ UNCHANGED <<peerVars, got, received, connVars, pipe, replay, handler,
                   monitor, loopVars, chunk, eof, httpVars>>

\* The server gives up on a client that is gone.
HttpEnds ==
    /\ Reading
    /\ client = "reset" \/ (client = "finished" /\ Unread = 0)
    /\ http' = "closed"
    /\ clientConn' = "closed"
    /\ UNCHANGED <<peerVars, taken, got, received, serviceConn, pipe, replay,
                   handler, monitor, loopVars, chunk, eof, request, begin,
                   parsed, mark>>

OnlyHttp == UNCHANGED vars

ReadHeader ==
    /\ http = "idle" /\ parsed < taken
    /\ parsed' = parsed + 1
    /\ http' = IF Kind \in {"unknown", "completion"} THEN "body" ELSE "answer"
    /\ OnlyHttp /\ UNCHANGED <<request, begin, mark>>

\* Consume what the server's buffer holds of the request.
Consume(place) ==
    /\ http = place /\ parsed < taken /\ parsed < End
    /\ parsed' = IF taken < End THEN taken ELSE End
    /\ OnlyHttp /\ UNCHANGED <<http, request, begin, mark>>

\* handleCompletions: io.ReadAll.
ReadBody == Consume("body")

BadReset == UNCHANGED mark                       \* fault: kept for the next one

\* resetConnectionBuffer.
Reset == mark' = taken

\* A model that no service has.
Reject ==
    /\ http = "body" /\ parsed = End /\ Kind = "unknown"
    /\ Reset
    /\ http' = "discard"
    /\ OnlyHttp /\ UNCHANGED <<request, begin, parsed>>

\* The handlers that do not look at the body.
AnswerLocally ==
    /\ http = "answer"
    /\ Reset
    /\ http' = "discard"
    /\ OnlyHttp /\ UNCHANGED <<request, begin, parsed>>

DropBody == Consume("discard")

\* The answer is written and the server waits for the next request.
Answered ==
    /\ http = "discard" /\ parsed = End
    /\ http' = "idle"
    /\ request' = request + 1
    /\ begin' = End
    /\ OnlyHttp /\ UNCHANGED <<parsed, mark>>

\* The connection is taken over with all that was captured.
Hijack ==
    /\ http = "body" /\ parsed = End /\ Kind = "completion"
    /\ http' = "hijacked"
    /\ replay' = Bytes(mark, taken - mark)
    /\ handler' = "accepted"
    /\ UNCHANGED <<peerVars, taken, got, received, connVars, pipe, monitor,
                   loopVars, chunk, eof, request, begin, parsed, mark>>
-----------------------------------------------------------------------------
HttpStep == Fill \/ HttpEnds \/ ReadHeader \/ ReadBody \/ Reject
            \/ AnswerLocally \/ DropBody \/ Answered \/ Hijack

Next == ClientSends \/ HttpStep \/ (ForwardingNext /\ UNCHANGED httpVars)

Spec == Init /\ [][Next]_allVars

(***************************************************************************)
(* The goroutines run; both peers read what they are sent.  A start may    *)
(* take as long as it likes unless it sees that the client is gone.        *)
(***************************************************************************)
Fairness ==
    /\ WF_allVars(HttpStep)
    /\ WF_allVars(MonitorStep /\ UNCHANGED httpVars)
    /\ WF_allVars(Disconnected /\ StartStep /\ UNCHANGED httpVars)
    /\ WF_allVars(HandlerStep /\ UNCHANGED httpVars)
    /\ WF_allVars(UpStep /\ UNCHANGED httpVars)
    /\ WF_allVars(DownStep /\ UNCHANGED httpVars)

FairSpec == Spec /\ Fairness
-----------------------------------------------------------------------------
\* Type invariant: every variable keeps its type, and the bytes are read before
\* they are written and sent before they are read.
TypeOK ==
    /\ client \in {"open", "finished", "reset"}
    /\ service \in {"open", "ended"}
    /\ taken \in 0..sent /\ sent \in 0..MaxBytes
    /\ got \in 0..replied /\ replied \in 0..MaxReplies
    /\ received \in Seq(1..sent) /\ replay \in Seq(1..sent)
    /\ clientConn \in {"open", "closed"}
    /\ serviceConn \in {"none", "open", "closed"}
    /\ pipe \in [buf : Seq(1..sent), writerDone : BOOLEAN, closed : BOOLEAN]
    /\ handler \in {"http", "accepted", "start", "replay", "forward", "return", "done"}
    /\ monitor \in {"off", "read", "write", "done"}
    /\ up \in {"off", "read", "write", "set", "close", "done"}
    /\ down \in {"off", "read", "set", "close", "done"}
    /\ chunk \in [{"monitor", "up"} -> Seq(1..sent)]
    /\ eof \in {"nil", "true", "false"}
    /\ http \in {"direct", "idle", "body", "answer", "discard", "hijacked", "closed"}
    /\ request \in 1..Len(Script) + 1
    /\ begin \in 0..taken /\ parsed \in begin..taken /\ mark \in 0..taken

\* What is replayed to a service is the request that asked for it, whole, and
\* nothing of the requests before it on the same connection: openai_api.go:207,
\* "so that if another request is received through the same connection, it
\* starts from scratch".
ReplayIsTheRequest ==
    http = "hijacked" =>
        replay = Bytes(begin, 1 + Script[request].body)

Stream == INSTANCE ByteStream WITH
    from  <- begin,
    ended <- serviceConn = "closed"

\* The service receives what its client sent from its request on, in order and
\* once, although the bytes pass through a capture buffer that is replayed, a
\* bounded pipe and three goroutines.
ImplementsStream == Stream!StreamSpec

\* The pipe holds no more than its limit or one write (connection.go:79-84).
BacklogBounded ==
    Limit > 0 => Len(pipe.buf) <= IF Limit > MaxChunk THEN Limit ELSE MaxChunk

\* When the client has finished and the service has not, the connection to the
\* service is only closed after the service has all that the client sent
\* (connection.go:98-103, "partially-buffered request bytes are still
\* delivered before EOF").
FinishedMeansDelivered ==
    [][/\ serviceConn = "open" /\ serviceConn' = "closed"
       /\ client = "finished" /\ service = "open" /\ clientConn = "open"
       => received = Bytes(begin, sent - begin)]_allVars

\* handleConnection returns with both connections closed and, after
\* forwarding, with a reason to log: neither copy, in whatever order they
\* end, leaves the other waiting or the pointer nil (connection.go:309-340).
ClosedAtReturn ==
    handler \in {"return", "done"} =>
        /\ clientConn = "closed" /\ serviceConn # "open"
        /\ up = "done" => eof # "nil"

Over == /\ clientConn = "closed" /\ serviceConn # "open"
        /\ handler \in {"http", "done"} /\ monitor \in {"off", "done"}

\* A connection whose client leaves or whose service ends is over in the end,
\* with both sockets closed and no goroutine left; the client is noticed to be
\* gone also while its service starts and bytes it sent are waiting, as long
\* as they fit into the pipe (connection.go:50-57, 152-163).
Ends ==
    (service = "ended" \/ (client # "open" /\ (Limit = 0 \/ sent <= Limit))) ~> Over
=============================================================================
