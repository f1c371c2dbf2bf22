---------------------------- MODULE BufferedPipe ----------------------------
(***************************************************************************)
(* bufferedPipe of connection.go: what its methods do to the buffer and    *)
(* its two flags under the pipe's own mutex.  Write and Read block on a    *)
(* condition until they may go on or have to fail.                         *)
(***************************************************************************)
EXTENDS Integers, Sequences

CONSTANT Limit     \* ClientRequestBufferLimitBytes, 0 for no limit

ASSUME LimitAssumption == Limit \in Nat

EmptyPipe == [buf |-> << >>, writerDone |-> FALSE, closed |-> FALSE]

BadHasRoom(pipe, p) == pipe.buf = << >>          \* fault: io.Pipe, in effect

BadCanWrite(pipe, p) == ~pipe.closed             \* fault: grows without limit

\* A write into an empty buffer is always allowed.
HasRoom(pipe, p) ==
    Limit = 0 \/ pipe.buf = << >> \/ Len(pipe.buf) + Len(p) <= Limit

\* Write(p): nil, or io.ErrClosedPipe.
CanWrite(pipe, p)     == ~pipe.closed /\ HasRoom(pipe, p)
WriteFails(pipe)      == pipe.closed
AfterWrite(pipe, p)   == [pipe EXCEPT !.buf = @ \o p]

\* Read: some bytes, io.EOF once the writer is done and the buffer drained, or
\* io.ErrClosedPipe.
BadReadEnds(pipe) == pipe.writerDone \/ pipe.closed   \* fault: not drained

ReadEnds(pipe) == pipe.buf = << >> /\ (pipe.writerDone \/ pipe.closed)
CanRead(pipe, n)   == n \in 1..Len(pipe.buf)
ReadBytes(pipe, n) == SubSeq(pipe.buf, 1, n)
AfterRead(pipe, n) == [pipe EXCEPT !.buf = SubSeq(@, n + 1, Len(@))]

CloseWrite(pipe) == [pipe EXCEPT !.writerDone = TRUE]

CloseRead(pipe)  == [pipe EXCEPT !.closed = TRUE]
=============================================================================
