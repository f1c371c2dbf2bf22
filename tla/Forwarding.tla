----------------------------- MODULE Forwarding -----------------------------
(***************************************************************************)
(* One client connection from its accept to the return of                  *)
(* handleConnection: the client read monitor with its bounded pipe, the    *)
(* start of the service, the replay of what was read before, and the two   *)
(* copy loops.  connection.go; the counters and the start itself are in    *)
(* ServiceManager.                                                         *)
(*                                                                         *)
(* A byte is named by its position in what the client sends.  A read takes *)
(* any part of what is there.  A peer reads what it is sent as long as its *)
(* end is open, so a write is one step that succeeds or fails.             *)
(***************************************************************************)
EXTENDS BufferedPipe, FiniteSets

CONSTANTS
    MaxBytes,   \* bound: what the client sends in all
    MaxChunk,   \* bound: what one read takes at most
    MaxReplies  \* bound: what the service answers in all

ASSUME BoundsAssumption ==
    /\ MaxBytes \in Nat
    /\ MaxChunk \in Nat \ {0}
    /\ MaxReplies \in Nat

VARIABLES
    client,     \* the client's end: open, finished (FIN) or reset
    service,    \* the service's end: open or ended
    sent,       \* bytes the client has sent
    taken,      \* bytes the proxy has read from the client's socket
    replied,    \* bytes the service has sent
    got,        \* bytes of them written to the client
    received,   \* bytes written to the service
    clientConn, \* the proxy's end of the client connection
    serviceConn,\* the proxy's connection to the service
    pipe,       \* the bufferedPipe
    replay,     \* dataToSendToServiceBeforeForwardingFromClient
    handler,    \* where handleConnection is
    monitor,    \* where the goroutine of startClientReadMonitor is
    up,         \* where the client -> service copy is
    down,       \* where the service -> client copy is
    chunk,      \* what the monitor and the two copies have read, not written
    eof         \* EOFOnWriteFromServerToClient

peerVars  == <<client, service, sent, replied>>
connVars  == <<clientConn, serviceConn>>
loopVars  == <<up, down>>
vars == <<peerVars, taken, got, received, connVars, pipe, replay, handler,
          monitor, loopVars, chunk, eof>>
-----------------------------------------------------------------------------
\* Bytes the client has sent and nobody has read yet.
Unread == sent - taken

Bytes(n, m) == [i \in 1..m |-> n + i]

Hold(who, bytes) == chunk' = [chunk EXCEPT ![who] = bytes]

ForwardingInit ==
    /\ client = "open" /\ service = "open"
    /\ sent = 0 /\ taken = 0 /\ replied = 0 /\ got = 0
    /\ received = << >> /\ replay = << >>
    /\ clientConn = "open" /\ serviceConn = "none"
    /\ pipe = EmptyPipe
    /\ monitor = "off" /\ up = "off" /\ down = "off"
    /\ chunk = [who \in {"monitor", "up"} |-> << >>]
    /\ eof = "nil"
-----------------------------------------------------------------------------
(***************************************************************************)
(* The client and the service: each may end at any time.  A client that    *)
(* resets its connection loses what was not read.                          *)
(***************************************************************************)
ClientEnds ==
    /\ client = "open"
    /\ client' \in {"finished", "reset"}
    /\ UNCHANGED <<service, sent, replied, taken, got, received, connVars, pipe,
                   replay, handler, monitor, loopVars, chunk, eof>>

ServiceReplies ==
    /\ service = "open" /\ serviceConn = "open" /\ replied < MaxReplies
    /\ replied' = replied + 1
    /\ UNCHANGED <<client, service, sent, taken, got, received, connVars, pipe,
                   replay, handler, monitor, loopVars, chunk, eof>>

ServiceEnds ==
    /\ service = "open" /\ serviceConn # "none"
    /\ service' = "ended"
    /\ UNCHANGED <<client, sent, replied, taken, got, received, connVars, pipe,
                   replay, handler, monitor, loopVars, chunk, eof>>
-----------------------------------------------------------------------------
(***************************************************************************)
(* startClientReadMonitor: io.Copy from the client into the pipe.          *)
(***************************************************************************)
\* The test of interrupted before it is left to Shutdown.
Accepted ==
    /\ handler = "accepted"
    /\ handler' = "start"
    /\ monitor' = "read"
    /\ UNCHANGED <<peerVars, taken, got, received, connVars, pipe, replay,
                   loopVars, chunk, eof>>

BadMonitorRead ==
    /\ monitor = "read" /\ clientConn = "open" /\ client # "reset"
    /\ \E n \in 1..Unread :
        /\ n <= MaxChunk
        /\ taken' = taken + n
        /\ Hold("monitor", Bytes(taken, MaxChunk)) \* fault: p, not p[:n]
    /\ monitor' = "write"
    /\ UNCHANGED <<peerVars, got, received, connVars, pipe, replay, handler,
                   loopVars, eof>>

MonitorRead ==
    /\ monitor = "read" /\ clientConn = "open" /\ client # "reset"
    /\ \E n \in 1..Unread :
        /\ n <= MaxChunk
        /\ taken' = taken + n
        /\ Hold("monitor", Bytes(taken, n))
    /\ monitor' = "write"
    /\ UNCHANGED <<peerVars, got, received, connVars, pipe, replay, handler,
                   loopVars, eof>>

MonitorWrite ==
    /\ monitor = "write"
    /\ CanWrite(pipe, chunk["monitor"])
    /\ pipe' = AfterWrite(pipe, chunk["monitor"])
    /\ Hold("monitor", << >>)
    /\ monitor' = "read"
    /\ UNCHANGED <<peerVars, taken, got, received, connVars, replay, handler,
                   loopVars, eof>>

\* The read or the write failed or the client is done: closeWrite, and the
\* channel clientDisconnected is closed.
MonitorEnds ==
    /\ \/ /\ monitor = "read"
          /\ \/ clientConn = "closed" \/ client = "reset"
             \/ client = "finished" /\ Unread = 0
       \/ monitor = "write" /\ WriteFails(pipe)
    /\ monitor' = "done"
    /\ pipe' = CloseWrite(pipe)
    /\ Hold("monitor", << >>)
    /\ UNCHANGED <<peerVars, taken, got, received, connVars, replay, handler,
                   loopVars, eof>>

Disconnected == monitor = "done"
-----------------------------------------------------------------------------
(***************************************************************************)
(* handleConnection.                                                       *)
(***************************************************************************)
StartOk ==
    /\ handler = "start"
    /\ serviceConn' = "open"
    /\ handler' = "replay"
    /\ UNCHANGED <<peerVars, taken, got, received, clientConn, pipe, replay,
                   monitor, loopVars, chunk, eof>>

\* The service did not start, or the client left meanwhile.
StartFails ==
    /\ handler = "start"
    /\ clientConn' = "closed"
    /\ handler' = "return"
    /\ UNCHANGED <<peerVars, taken, got, received, serviceConn, pipe, replay,
                   monitor, loopVars, chunk, eof>>

BadReplayOk ==
    /\ handler = "replay"
    /\ up' = "read" /\ down' = "read"
    /\ handler' = "forward"                      \* fault: the request is lost
    /\ UNCHANGED <<peerVars, taken, got, received, connVars, pipe, replay,
                   monitor, chunk, eof>>

\* The bytes read before go first, then forwardConnection starts both copies.
ReplayOk ==
    /\ handler = "replay"
    /\ received' = received \o replay
    /\ up' = "read" /\ down' = "read"
    /\ handler' = "forward"
    /\ UNCHANGED <<peerVars, taken, got, connVars, pipe, replay, monitor, chunk,
                   eof>>

ReplayFails ==
    /\ handler = "replay" /\ replay # << >> /\ service = "ended"
    /\ clientConn' = "closed" /\ serviceConn' = "closed"
    /\ handler' = "return"
    /\ UNCHANGED <<peerVars, taken, got, received, pipe, replay, monitor,
                   loopVars, chunk, eof>>

Forwarded ==
    /\ handler = "forward" /\ up = "done" /\ down = "done"
    /\ handler' = "return"
    /\ UNCHANGED <<peerVars, taken, got, received, connVars, pipe, replay,
                   monitor, loopVars, chunk, eof>>

\* The deferred closeClientReader.
Return ==
    /\ handler = "return"
    /\ pipe' = CloseRead(pipe)
    /\ handler' = "done"
    /\ UNCHANGED <<peerVars, taken, got, received, connVars, replay, monitor,
                   loopVars, chunk, eof>>
-----------------------------------------------------------------------------
(***************************************************************************)
(* forwardConnection: client -> service ("up") from the pipe, service ->   *)
(* client ("down") from the socket.  Each copy that ends tests the shared  *)
(* pointer, sets it when it is nil and closes the other side.              *)
(***************************************************************************)
UpRead ==
    /\ up = "read"
    /\ \E n \in 1..MaxChunk :
        /\ CanRead(pipe, n)
        /\ Hold("up", ReadBytes(pipe, n))
        /\ pipe' = AfterRead(pipe, n)
    /\ up' = "write"
    /\ UNCHANGED <<peerVars, taken, got, received, connVars, replay, handler,
                   monitor, down, eof>>

\* The service may take bytes although it is about to end.
UpWrite ==
    /\ up = "write" /\ serviceConn = "open"
    /\ received' = received \o chunk["up"]
    /\ Hold("up", << >>)
    /\ up' = "read"
    /\ UNCHANGED <<peerVars, taken, got, connVars, pipe, replay, handler,
                   monitor, down, eof>>

UpEnds ==
    /\ \/ up = "read" /\ ReadEnds(pipe)
       \/ up = "write" /\ (serviceConn = "closed" \/ service = "ended")
    /\ up' = IF eof = "nil" THEN "set" ELSE "close"
    /\ Hold("up", << >>)
    /\ UNCHANGED <<peerVars, taken, got, received, connVars, pipe, replay,
                   handler, monitor, down, eof>>

UpSets ==
    /\ up = "set"
    /\ eof' = "true"
    /\ up' = "close"
    /\ UNCHANGED <<peerVars, taken, got, received, connVars, pipe, replay,
                   handler, monitor, down, chunk>>

UpCloses ==
    /\ up = "close"
    /\ serviceConn' = "closed"
    /\ up' = "done"
    /\ UNCHANGED <<peerVars, taken, got, received, clientConn, pipe, replay,
                   handler, monitor, down, chunk, eof>>

DownCopies ==
    /\ down = "read" /\ got < replied
    /\ serviceConn = "open" /\ clientConn = "open" /\ client # "reset"
    /\ got' = replied
    /\ UNCHANGED <<peerVars, taken, received, connVars, pipe, replay, handler,
                   monitor, loopVars, chunk, eof>>

\* The service ended and is drained, or one of the connections broke.
DownEnds ==
    /\ down = "read"
    /\ \/ serviceConn = "closed"
       \/ service = "ended" /\ got = replied
       \/ got < replied /\ client # "open"
    /\ down' = IF eof = "nil" THEN "set" ELSE "close"
    /\ UNCHANGED <<peerVars, taken, got, received, connVars, pipe, replay,
                   handler, monitor, up, chunk, eof>>

DownSets ==
    /\ down = "set"
    /\ eof' = "false"
    /\ down' = "close"
    /\ UNCHANGED <<peerVars, taken, got, received, connVars, pipe, replay,
                   handler, monitor, up, chunk>>

BadDownCloses ==
    /\ down = "close"
    /\ down' = "done"                            \* fault: the client stays open
    /\ UNCHANGED <<peerVars, taken, got, received, connVars, pipe, replay,
                   handler, monitor, up, chunk, eof>>

DownCloses ==
    /\ down = "close"
    /\ clientConn' = "closed"
    /\ down' = "done"
    /\ UNCHANGED <<peerVars, taken, got, received, serviceConn, pipe, replay,
                   handler, monitor, up, chunk, eof>>
-----------------------------------------------------------------------------
MonitorStep == MonitorRead \/ MonitorWrite \/ MonitorEnds
StartStep   == StartOk \/ StartFails
HandlerStep == Accepted \/ ReplayOk \/ ReplayFails \/ Forwarded \/ Return
UpStep      == UpRead \/ UpWrite \/ UpEnds \/ UpSets \/ UpCloses
DownStep    == DownCopies \/ DownEnds \/ DownSets \/ DownCloses

ForwardingNext ==
    \/ ClientEnds \/ ServiceReplies \/ ServiceEnds
    \/ MonitorStep \/ StartStep \/ HandlerStep \/ UpStep \/ DownStep
=============================================================================
