----------------------- MODULE OpenAiForwardingTheorems -----------------------
(***************************************************************************)
(* What is proved of OpenAiForwarding, and so of Forwarding and of         *)
(* BufferedPipe, for every limit of the pipe, every size of a read and     *)
(* every script of requests.                                               *)
(***************************************************************************)
EXTENDS OpenAiForwarding, SequenceTheorems, TLAPS

\* The HTTP server is at one of the client's requests, or waits for it, and
\* the client has sent nothing of the next one.
HttpInv ==
    /\ http \in {"direct", "hijacked"} <=> handler # "http"
    /\ http \in {"body", "answer", "discard", "hijacked"} => request <= Len(Script)
    /\ http = "idle" =>
          /\ parsed = begin
          /\ request <= Len(Script) => sent <= End
          /\ request > Len(Script) => sent <= begin
    /\ http \in {"body", "answer", "discard"} =>
          begin < parsed /\ parsed <= End /\ sent <= End
    /\ http = "body" => Kind \in {"unknown", "completion"}
    /\ http = "answer" => Kind \in {"list", "unsupported"}

\* Which goroutines run is told by where handleConnection is.
PlaceInv ==
    /\ monitor = "off" <=> handler \in {"http", "accepted"}
    /\ up = "off" <=> down = "off"
    /\ handler \in {"http", "accepted", "start", "replay"} => up = "off"
    /\ handler = "forward" => up # "off"
    /\ handler \in {"return", "done"} =>
          up \in {"off", "done"} /\ down \in {"off", "done"}

\* The flags of the pipe are told by where its users are; what a goroutine has
\* read is bounded by a read and held between its read and its write only.
PipeInv ==
    /\ pipe.closed => handler = "done"
    /\ pipe.writerDone <=> monitor = "done"
    /\ handler \in {"http", "accepted"} => pipe.buf = << >>
    /\ monitor # "write" => chunk["monitor"] = << >>
    /\ up # "write" => chunk["up"] = << >>
    /\ up = "write" => chunk["up"] # << >>
    /\ Len(chunk["monitor"]) <= MaxChunk

\* A copy that ended has closed the other side, and given its reason if there
\* was none.
CloseInv ==
    /\ handler \in {"http", "accepted", "start"} => serviceConn = "none"
    /\ handler = "replay" => serviceConn = "open"
    /\ up \in {"read", "write", "set", "close"} => serviceConn = "open"
    /\ up = "done" => serviceConn = "closed"
    /\ down = "done" => clientConn = "closed"
    /\ handler \in {"return", "done"} /\ up = "off" =>
          clientConn = "closed" /\ serviceConn # "open"
    /\ up \in {"close", "done"} \/ down \in {"close", "done"} => eof # "nil"

\* A monitor that is done has read all that a client in good order sent, and a
\* copy that ends while the service is in good order has drained the pipe.
DrainInv ==
    /\ /\ monitor = "done" /\ ~pipe.closed
       /\ clientConn = "open" /\ client # "reset"
       => client = "finished" /\ taken = sent
    /\ up \in {"set", "close"} /\ service = "open" =>
          monitor = "done" /\ pipe.buf = << >>

\* The inductive invariant of the control.
ControlInv ==
    /\ TypeOK /\ HttpInv /\ PlaceInv /\ PipeInv /\ CloseInv /\ DrainInv
    /\ BacklogBounded

\* Handlers leave nothing of a request unread: the ones that do not look at the
\* body, of the list of models and of unsupported URLs, would if the request
\* had one (for which the run StaleReplay refutes ReplayIsTheRequest).
BodiesAreRead ==
    \A k \in DOMAIN Script :
        Script[k].kind \in {"list", "unsupported"} => Script[k].body = 0

\* The capture buffer begins with the request.
MarkInv ==
    /\ http \in {"idle", "body", "answer"} => mark = begin
    /\ http = "discard" => mark = End
    /\ ReplayIsTheRequest

\* Where the bytes begin that neither were replayed nor written yet.
Base == begin + IF up = "off" THEN Len(replay) ELSE Len(received)

\* Nothing has been given up of what the client sent.
Flowing ==
    /\ handler # "http" /\ ~pipe.closed
    /\ up \in {"off", "read", "write"} \/ (up \in {"set", "close"} /\ service = "open")

\* What was replayed, what was written, what the copy holds, what the pipe
\* holds and what the monitor holds are all that was read, in order.
OrderInv ==
    /\ handler = "http" => replay = << >>
    /\ up = "off" => received = << >>
    /\ replay = Bytes(begin, Len(replay))
    /\ received = Bytes(begin, Len(received))
    /\ Flowing =>
        /\ chunk["up"] = Bytes(Base, Len(chunk["up"]))
        /\ pipe.buf = Bytes(Base + Len(chunk["up"]), Len(pipe.buf))
        /\ chunk["monitor"] =
              Bytes(Base + Len(chunk["up"]) + Len(pipe.buf), Len(chunk["monitor"]))
        /\ Base + Len(chunk["up"]) + Len(pipe.buf) + Len(chunk["monitor"]) = taken

\* The inductive invariant of the bytes.
StreamInv == MarkInv /\ OrderInv
-----------------------------------------------------------------------------
\* Bytes are a sequence of as many as asked for.
LEMMA BytesType ==
  ASSUME NEW n \in Nat, NEW m \in Nat, NEW last \in Nat, n + m <= last
  PROVE  Bytes(n, m) \in Seq(1..last) /\ Len(Bytes(n, m)) = m
<1>1. \A i \in 1..m : n + i \in 1..last
  OBVIOUS
<1>2. Bytes(n, m) \in [1..m -> 1..last]
  BY <1>1 DEF Bytes
<1> QED
  BY <1>2

\* What follows is appended.
LEMMA BytesAppend ==
  ASSUME NEW n \in Nat, NEW m \in Nat, NEW k \in Nat
  PROVE  Bytes(n, m) \o Bytes(n + m, k) = Bytes(n, m + k)
<1> DEFINE s == Bytes(n, m)
           t == Bytes(n + m, k)
           u == Bytes(n, m + k)
<1>1. /\ s \in Seq(Nat) /\ Len(s) = m /\ \A i \in 1..m : s[i] = n + i
      /\ t \in Seq(Nat) /\ Len(t) = k /\ \A i \in 1..k : t[i] = n + m + i
      /\ u \in Seq(Nat) /\ Len(u) = m + k /\ \A i \in 1..m + k : u[i] = n + i
  <2>1. s \in [1..m -> Nat] /\ t \in [1..k -> Nat] /\ u \in [1..m + k -> Nat]
    BY DEF Bytes
  <2> QED
    BY <2>1 DEF Bytes
<1> HIDE DEF s, t, u
<1>2. /\ s \o t \in Seq(Nat) /\ Len(s \o t) = m + k
      /\ \A i \in 1..m + k : (s \o t)[i] = IF i <= m THEN s[i] ELSE t[i - m]
  BY <1>1, ConcatProperties
<1>3. ASSUME NEW i \in 1..m + k PROVE (s \o t)[i] = u[i]
  <2>1. CASE i <= m
    BY <1>1, <1>2, <2>1
  <2>2. CASE ~(i <= m)
    <3>1. i - m \in 1..k /\ n + m + (i - m) = n + i
      BY <2>2
    <3> QED
      BY <1>1, <1>2, <2>2, <3>1
  <2> QED
    BY <2>1, <2>2
<1>4. s \o t = u
  BY <1>1, <1>2, <1>3, SeqEqual
<1> QED
  BY <1>4 DEF s, t, u

\* A read splits what is there.
LEMMA BytesSplit ==
  ASSUME NEW n \in Nat, NEW m \in Nat, NEW k \in 1..m
  PROVE  /\ SubSeq(Bytes(n, m), 1, k) = Bytes(n, k)
         /\ SubSeq(Bytes(n, m), k + 1, m) = Bytes(n + k, m - k)
<1> DEFINE s == Bytes(n, m)
           t == Bytes(n, k)
           u == Bytes(n + k, m - k)
<1>1. /\ s \in Seq(Nat) /\ Len(s) = m /\ \A i \in 1..m : s[i] = n + i
      /\ t \in Seq(Nat) /\ Len(t) = k /\ \A i \in 1..k : t[i] = n + i
      /\ u \in Seq(Nat) /\ Len(u) = m - k /\ \A i \in 1..m - k : u[i] = n + k + i
  <2>1. m - k \in Nat
    OBVIOUS
  <2>2. s \in [1..m -> Nat] /\ t \in [1..k -> Nat] /\ u \in [1..m - k -> Nat]
    BY <2>1 DEF Bytes
  <2> QED
    BY <2>1, <2>2 DEF Bytes
<1> HIDE DEF s, t, u
<1>2. /\ SubSeq(s, 1, k) \in Seq(Nat) /\ Len(SubSeq(s, 1, k)) = k
      /\ \A i \in 1..k : SubSeq(s, 1, k)[i] = s[i]
  BY <1>1, SubSeqProperties
<1>3. /\ SubSeq(s, k + 1, m) \in Seq(Nat) /\ Len(SubSeq(s, k + 1, m)) = m - k
      /\ \A i \in 1..m - k : SubSeq(s, k + 1, m)[i] = s[k + i]
  <2>1. k + 1 \in Int /\ m \in Int /\ \A i \in k + 1..m : s[i] \in Nat
    BY <1>1
  <2>2. /\ SubSeq(s, k + 1, m) \in Seq(Nat)
        /\ Len(SubSeq(s, k + 1, m)) = IF k + 1 <= m THEN m - (k + 1) + 1 ELSE 0
        /\ \A i \in 1..m - (k + 1) + 1 :
              SubSeq(s, k + 1, m)[i] = s[k + 1 + i - 1]
    BY <2>1, SubSeqProperties
  <2>3. m - (k + 1) + 1 = m - k /\ \A i \in Int : k + 1 + i - 1 = k + i
    OBVIOUS
  <2>4. (IF k + 1 <= m THEN m - (k + 1) + 1 ELSE 0) = m - k
    OBVIOUS
  <2> QED
    BY <2>2, <2>3, <2>4
<1>4. SubSeq(s, 1, k) = t
  BY <1>1, <1>2, SeqEqual
<1>5. SubSeq(s, k + 1, m) = u
  <2>1. \A i \in 1..m - k : SubSeq(s, k + 1, m)[i] = u[i]
    BY <1>1, <1>3
  <2> QED
    BY <1>1, <1>3, <2>1, SeqEqual
<1> QED
  BY <1>4, <1>5 DEF s, t, u
-----------------------------------------------------------------------------
\* While there is a request, its kind is known and its end is a position.
LEMMA EndType ==
  ASSUME TypeOK, request <= Len(Script)
  PROVE  /\ request \in DOMAIN Script /\ Script[request].body \in Nat
         /\ Kind \in Kinds
         /\ begin \in Nat /\ End \in Nat /\ begin < End
<1>1. request \in Nat /\ request \in 1..Len(Script) /\ begin \in Nat
  BY ScriptAssumption DEF TypeOK
<1>2. request \in DOMAIN Script
  BY <1>1, ScriptAssumption
<1>3. Script[request] \in [kind : Kinds, body : Nat]
  BY <1>1, ScriptAssumption, ElementOfSeq
<1> QED
  BY <1>1, <1>2, <1>3 DEF Kind, End
-----------------------------------------------------------------------------
\* Every step keeps the server at one request.
LEMMA HttpPreserved ==
  ASSUME TypeOK, HttpInv, [Next]_allVars
  PROVE  HttpInv'
<1> USE BoundsAssumption, LimitAssumption, ScriptAssumption
<1> USE DEF TypeOK, HttpInv
<1>1. ASSUME ClientSends PROVE HttpInv'
  <2>1. /\ UNCHANGED <<http, request, begin, parsed, handler>>
        /\ sent' \in Nat /\ sent' <= Allowance /\ sent' > sent
    BY <1>1, SMTT(20) DEF ClientSends, httpVars
  <2>2. End' = End /\ Kind' = Kind
    BY <2>1 DEF End, Kind
  <2>3. http \in {"idle", "body", "answer", "discard"} =>
            Allowance = IF request > Len(Script) THEN sent ELSE End
    BY DEF Allowance
  <2> QED
    BY <2>1, <2>2, <2>3, EndType
<1>2. ASSUME Fill PROVE HttpInv'
  BY <1>2 DEF Fill, Unread, Reading, peerVars, connVars, loopVars, httpVars,
       Kind, End
<1>3. ASSUME HttpEnds PROVE HttpInv'
  BY <1>3 DEF HttpEnds, Unread, Reading, peerVars, loopVars, Kind, End
<1>4. ASSUME ReadHeader PROVE HttpInv'
  <2>1. /\ http = "idle" /\ parsed < taken /\ parsed' = parsed + 1
        /\ http' = IF Kind \in {"unknown", "completion"} THEN "body" ELSE "answer"
        /\ UNCHANGED <<request, begin, sent, handler>>
    BY <1>4 DEF ReadHeader, OnlyHttp, vars, peerVars
  <2>2. request <= Len(Script)
    BY <2>1
  <2>3. /\ End' = End /\ Kind' = Kind
        /\ Script[request].body \in Nat /\ End = begin + 1 + Script[request].body
        /\ Kind \in Kinds
    BY <2>1, <2>2, EndType DEF End, Kind
  <2> QED
    BY <2>1, <2>2, <2>3, SMTT(20) DEF Kinds
<1>5. ASSUME ReadBody PROVE HttpInv'
  <2>1. /\ http = "body" /\ parsed < taken /\ parsed < End
        /\ parsed' = IF taken < End THEN taken ELSE End
        /\ UNCHANGED <<http, request, begin, sent, handler>>
    BY <1>5 DEF ReadBody, Consume, OnlyHttp, vars, peerVars
  <2>2. End' = End /\ Kind' = Kind /\ End \in Nat
    BY <2>1, EndType DEF End, Kind
  <2>3. begin < parsed' /\ parsed' <= End
    BY <2>1, <2>2
  <2> HIDE DEF TypeOK
  <2> QED
    BY <2>1, <2>2, <2>3
<1>6. ASSUME Reject PROVE HttpInv'
  BY <1>6 DEF Reject, Reset, OnlyHttp, peerVars, connVars, loopVars, vars,
       Kind, End
<1>7. ASSUME AnswerLocally PROVE HttpInv'
  BY <1>7 DEF AnswerLocally, Reset, OnlyHttp, peerVars, connVars, loopVars,
       vars, Kind, End
<1>8. ASSUME DropBody PROVE HttpInv'
  <2>1. /\ http = "discard" /\ parsed < taken /\ parsed < End
        /\ parsed' = IF taken < End THEN taken ELSE End
        /\ UNCHANGED <<http, request, begin, sent, handler>>
    BY <1>8 DEF DropBody, Consume, OnlyHttp, vars, peerVars
  <2>2. End' = End /\ Kind' = Kind /\ End \in Nat
    BY <2>1, EndType DEF End, Kind
  <2>3. begin < parsed' /\ parsed' <= End
    BY <2>1, <2>2
  <2> HIDE DEF TypeOK
  <2> QED
    BY <2>1, <2>2, <2>3
<1>9. ASSUME Answered PROVE HttpInv'
  <2>1. /\ http = "discard" /\ parsed = End /\ http' = "idle"
        /\ request' = request + 1 /\ begin' = End
        /\ UNCHANGED <<parsed, sent, handler>>
    BY <1>9 DEF Answered, OnlyHttp, vars, peerVars
  <2>2. End \in Nat /\ sent = begin'
    BY <2>1, EndType
  <2>3. request' <= Len(Script) => sent' <= End'
    <3> SUFFICES ASSUME request' <= Len(Script) PROVE sent' <= End'
      OBVIOUS
    <3>1. request' \in 1..Len(Script)
      BY <2>1, ScriptAssumption
    <3>2. Script[request'] \in [kind : Kinds, body : Nat]
      BY <3>1, ScriptAssumption, ElementOfSeq
    <3>3. End' = begin' + 1 + Script[request'].body
      BY DEF End
    <3>4. sent' = begin' /\ begin' \in Nat
      BY <2>1, <2>2
    <3> HIDE DEF TypeOK, HttpInv
    <3> QED
      BY <3>2, <3>3, <3>4
  <2> QED
    BY <2>1, <2>2, <2>3
<1>10. ASSUME Hijack PROVE HttpInv'
  BY <1>10 DEF Hijack, peerVars, connVars, loopVars, Kind, End
<1>11. ASSUME ClientEnds, UNCHANGED httpVars PROVE HttpInv'
  BY <1>11 DEF ClientEnds, connVars, loopVars, httpVars, Kind, End
<1>12. ASSUME ServiceReplies, UNCHANGED httpVars PROVE HttpInv'
  BY <1>12 DEF ServiceReplies, connVars, loopVars, httpVars, Kind, End
<1>13. ASSUME ServiceEnds, UNCHANGED httpVars PROVE HttpInv'
  BY <1>13 DEF ServiceEnds, connVars, loopVars, httpVars, Kind, End
<1>14. ASSUME Accepted, UNCHANGED httpVars PROVE HttpInv'
  BY <1>14 DEF Accepted, peerVars, connVars, loopVars, httpVars, Kind, End
<1>15. ASSUME MonitorRead, UNCHANGED httpVars PROVE HttpInv'
  BY <1>15 DEF MonitorRead, Unread, Hold, peerVars, connVars, loopVars,
       httpVars, Kind, End
<1>16. ASSUME MonitorWrite, UNCHANGED httpVars PROVE HttpInv'
  BY <1>16 DEF MonitorWrite, Hold, CanWrite, HasRoom, AfterWrite, peerVars,
       connVars, loopVars, httpVars, Kind, End
<1>17. ASSUME MonitorEnds, UNCHANGED httpVars PROVE HttpInv'
  BY <1>17 DEF MonitorEnds, Unread, Hold, WriteFails, CloseWrite, peerVars,
       connVars, loopVars, httpVars, Kind, End
<1>18. ASSUME StartOk, UNCHANGED httpVars PROVE HttpInv'
  BY <1>18 DEF StartOk, peerVars, loopVars, httpVars, Kind, End
<1>19. ASSUME StartFails, UNCHANGED httpVars PROVE HttpInv'
  BY <1>19 DEF StartFails, peerVars, loopVars, httpVars, Kind, End
<1>20. ASSUME ReplayOk, UNCHANGED httpVars PROVE HttpInv'
  BY <1>20 DEF ReplayOk, peerVars, connVars, httpVars, Kind, End
<1>21. ASSUME ReplayFails, UNCHANGED httpVars PROVE HttpInv'
  BY <1>21 DEF ReplayFails, peerVars, loopVars, httpVars, Kind, End
<1>22. ASSUME Forwarded, UNCHANGED httpVars PROVE HttpInv'
  BY <1>22 DEF Forwarded, peerVars, connVars, loopVars, httpVars, Kind, End
<1>23. ASSUME Return, UNCHANGED httpVars PROVE HttpInv'
  BY <1>23 DEF Return, CloseRead, peerVars, connVars, loopVars, httpVars, Kind,
       End
<1>24. ASSUME UpRead, UNCHANGED httpVars PROVE HttpInv'
  BY <1>24 DEF UpRead, Hold, CanRead, ReadBytes, AfterRead, peerVars, connVars,
       httpVars, Kind, End
<1>25. ASSUME UpWrite, UNCHANGED httpVars PROVE HttpInv'
  BY <1>25 DEF UpWrite, Hold, peerVars, connVars, httpVars, Kind, End
<1>26. ASSUME UpEnds, UNCHANGED httpVars PROVE HttpInv'
  BY <1>26 DEF UpEnds, Hold, ReadEnds, peerVars, connVars, httpVars, Kind, End
<1>27. ASSUME UpSets, UNCHANGED httpVars PROVE HttpInv'
  BY <1>27 DEF UpSets, peerVars, connVars, httpVars, Kind, End
<1>28. ASSUME UpCloses, UNCHANGED httpVars PROVE HttpInv'
  BY <1>28 DEF UpCloses, peerVars, httpVars, Kind, End
<1>29. ASSUME DownCopies, UNCHANGED httpVars PROVE HttpInv'
  BY <1>29 DEF DownCopies, peerVars, connVars, loopVars, httpVars, Kind, End
<1>30. ASSUME DownEnds, UNCHANGED httpVars PROVE HttpInv'
  BY <1>30 DEF DownEnds, peerVars, connVars, httpVars, Kind, End
<1>31. ASSUME DownSets, UNCHANGED httpVars PROVE HttpInv'
  BY <1>31 DEF DownSets, peerVars, connVars, httpVars, Kind, End
<1>32. ASSUME DownCloses, UNCHANGED httpVars PROVE HttpInv'
  BY <1>32 DEF DownCloses, peerVars, httpVars, Kind, End
<1>33. CASE UNCHANGED allVars
  BY <1>33 DEF allVars, vars, httpVars, peerVars, connVars, loopVars, Kind, End
<1> QED
  BY <1>1, <1>2, <1>3, <1>4, <1>5, <1>6, <1>7, <1>8, <1>9, <1>10, <1>11, <1>12,
     <1>13, <1>14, <1>15, <1>16, <1>17, <1>18, <1>19, <1>20, <1>21, <1>22,
     <1>23, <1>24, <1>25, <1>26, <1>27, <1>28, <1>29, <1>30, <1>31, <1>32,
     <1>33
  DEF Next, HttpStep, ForwardingNext, MonitorStep, StartStep, HandlerStep,
      UpStep, DownStep
-----------------------------------------------------------------------------
\* Every step keeps the goroutines where handleConnection has them.
LEMMA PlacePreserved ==
  ASSUME TypeOK, HttpInv, PlaceInv, [Next]_allVars
  PROVE  PlaceInv'
<1> USE BoundsAssumption, LimitAssumption, ScriptAssumption
<1> USE DEF TypeOK, HttpInv, PlaceInv
<1>1. ASSUME ClientSends PROVE PlaceInv'
  BY <1>1 DEF ClientSends, Allowance, connVars, loopVars, httpVars
<1>2. ASSUME Fill PROVE PlaceInv'
  BY <1>2 DEF Fill, Unread, Reading, peerVars, connVars, loopVars, httpVars
<1>3. ASSUME HttpEnds PROVE PlaceInv'
  BY <1>3 DEF HttpEnds, Unread, Reading, peerVars, loopVars
<1>4. ASSUME ReadHeader PROVE PlaceInv'
  BY <1>4 DEF ReadHeader, OnlyHttp, peerVars, connVars, loopVars, vars
<1>5. ASSUME ReadBody PROVE PlaceInv'
  BY <1>5 DEF ReadBody, Consume, OnlyHttp, peerVars, connVars, loopVars, vars
<1>6. ASSUME Reject PROVE PlaceInv'
  BY <1>6 DEF Reject, Reset, OnlyHttp, peerVars, connVars, loopVars, vars
<1>7. ASSUME AnswerLocally PROVE PlaceInv'
  BY <1>7 DEF AnswerLocally, Reset, OnlyHttp, peerVars, connVars, loopVars,
       vars
<1>8. ASSUME DropBody PROVE PlaceInv'
  BY <1>8 DEF DropBody, Consume, OnlyHttp, peerVars, connVars, loopVars, vars
<1>9. ASSUME Answered PROVE PlaceInv'
  BY <1>9 DEF Answered, OnlyHttp, peerVars, connVars, loopVars, vars
<1>10. ASSUME Hijack PROVE PlaceInv'
  BY <1>10 DEF Hijack, peerVars, connVars, loopVars
<1>11. ASSUME ClientEnds, UNCHANGED httpVars PROVE PlaceInv'
  BY <1>11 DEF ClientEnds, connVars, loopVars, httpVars
<1>12. ASSUME ServiceReplies, UNCHANGED httpVars PROVE PlaceInv'
  BY <1>12 DEF ServiceReplies, connVars, loopVars, httpVars
<1>13. ASSUME ServiceEnds, UNCHANGED httpVars PROVE PlaceInv'
  BY <1>13 DEF ServiceEnds, connVars, loopVars, httpVars
<1>14. ASSUME Accepted, UNCHANGED httpVars PROVE PlaceInv'
  BY <1>14 DEF Accepted, peerVars, connVars, loopVars, httpVars
<1>15. ASSUME MonitorRead, UNCHANGED httpVars PROVE PlaceInv'
  BY <1>15 DEF MonitorRead, Unread, Hold, peerVars, connVars, loopVars,
       httpVars
<1>16. ASSUME MonitorWrite, UNCHANGED httpVars PROVE PlaceInv'
  BY <1>16 DEF MonitorWrite, Hold, CanWrite, HasRoom, AfterWrite, peerVars,
       connVars, loopVars, httpVars
<1>17. ASSUME MonitorEnds, UNCHANGED httpVars PROVE PlaceInv'
  BY <1>17 DEF MonitorEnds, Unread, Hold, WriteFails, CloseWrite, peerVars,
       connVars, loopVars, httpVars
<1>18. ASSUME StartOk, UNCHANGED httpVars PROVE PlaceInv'
  BY <1>18 DEF StartOk, peerVars, loopVars, httpVars
<1>19. ASSUME StartFails, UNCHANGED httpVars PROVE PlaceInv'
  BY <1>19 DEF StartFails, peerVars, loopVars, httpVars
<1>20. ASSUME ReplayOk, UNCHANGED httpVars PROVE PlaceInv'
  BY <1>20 DEF ReplayOk, peerVars, connVars, httpVars
<1>21. ASSUME ReplayFails, UNCHANGED httpVars PROVE PlaceInv'
  BY <1>21 DEF ReplayFails, peerVars, loopVars, httpVars
<1>22. ASSUME Forwarded, UNCHANGED httpVars PROVE PlaceInv'
  BY <1>22 DEF Forwarded, peerVars, connVars, loopVars, httpVars
<1>23. ASSUME Return, UNCHANGED httpVars PROVE PlaceInv'
  BY <1>23 DEF Return, CloseRead, peerVars, connVars, loopVars, httpVars
<1>24. ASSUME UpRead, UNCHANGED httpVars PROVE PlaceInv'
  BY <1>24 DEF UpRead, Hold, CanRead, ReadBytes, AfterRead, peerVars, connVars,
       httpVars
<1>25. ASSUME UpWrite, UNCHANGED httpVars PROVE PlaceInv'
  BY <1>25 DEF UpWrite, Hold, peerVars, connVars, httpVars
<1>26. ASSUME UpEnds, UNCHANGED httpVars PROVE PlaceInv'
  BY <1>26 DEF UpEnds, Hold, ReadEnds, peerVars, connVars, httpVars
<1>27. ASSUME UpSets, UNCHANGED httpVars PROVE PlaceInv'
  BY <1>27 DEF UpSets, peerVars, connVars, httpVars
<1>28. ASSUME UpCloses, UNCHANGED httpVars PROVE PlaceInv'
  BY <1>28 DEF UpCloses, peerVars, httpVars
<1>29. ASSUME DownCopies, UNCHANGED httpVars PROVE PlaceInv'
  BY <1>29 DEF DownCopies, peerVars, connVars, loopVars, httpVars
<1>30. ASSUME DownEnds, UNCHANGED httpVars PROVE PlaceInv'
  BY <1>30 DEF DownEnds, peerVars, connVars, httpVars
<1>31. ASSUME DownSets, UNCHANGED httpVars PROVE PlaceInv'
  BY <1>31 DEF DownSets, peerVars, connVars, httpVars
<1>32. ASSUME DownCloses, UNCHANGED httpVars PROVE PlaceInv'
  BY <1>32 DEF DownCloses, peerVars, httpVars
<1>33. CASE UNCHANGED allVars
  BY <1>33 DEF allVars, vars, httpVars, peerVars, connVars, loopVars
<1> QED
  BY <1>1, <1>2, <1>3, <1>4, <1>5, <1>6, <1>7, <1>8, <1>9, <1>10, <1>11, <1>12,
     <1>13, <1>14, <1>15, <1>16, <1>17, <1>18, <1>19, <1>20, <1>21, <1>22,
     <1>23, <1>24, <1>25, <1>26, <1>27, <1>28, <1>29, <1>30, <1>31, <1>32,
     <1>33
  DEF Next, HttpStep, ForwardingNext, MonitorStep, StartStep, HandlerStep,
      UpStep, DownStep
-----------------------------------------------------------------------------
\* Every step keeps what a copy that ended has done.
LEMMA ClosePreserved ==
  ASSUME TypeOK, HttpInv, PlaceInv, CloseInv, [Next]_allVars
  PROVE  CloseInv'
<1> USE BoundsAssumption, LimitAssumption, ScriptAssumption
<1> USE DEF TypeOK, HttpInv, PlaceInv, CloseInv
<1>1. ASSUME ClientSends PROVE CloseInv'
  BY <1>1 DEF ClientSends, Allowance, connVars, loopVars, httpVars
<1>2. ASSUME Fill PROVE CloseInv'
  BY <1>2 DEF Fill, Unread, Reading, peerVars, connVars, loopVars, httpVars
<1>3. ASSUME HttpEnds PROVE CloseInv'
  BY <1>3 DEF HttpEnds, Unread, Reading, peerVars, loopVars
<1>4. ASSUME ReadHeader PROVE CloseInv'
  BY <1>4 DEF ReadHeader, OnlyHttp, peerVars, connVars, loopVars, vars
<1>5. ASSUME ReadBody PROVE CloseInv'
  BY <1>5 DEF ReadBody, Consume, OnlyHttp, peerVars, connVars, loopVars, vars
<1>6. ASSUME Reject PROVE CloseInv'
  BY <1>6 DEF Reject, Reset, OnlyHttp, peerVars, connVars, loopVars, vars
<1>7. ASSUME AnswerLocally PROVE CloseInv'
  BY <1>7 DEF AnswerLocally, Reset, OnlyHttp, peerVars, connVars, loopVars,
       vars
<1>8. ASSUME DropBody PROVE CloseInv'
  BY <1>8 DEF DropBody, Consume, OnlyHttp, peerVars, connVars, loopVars, vars
<1>9. ASSUME Answered PROVE CloseInv'
  BY <1>9 DEF Answered, OnlyHttp, peerVars, connVars, loopVars, vars
<1>10. ASSUME Hijack PROVE CloseInv'
  BY <1>10 DEF Hijack, peerVars, connVars, loopVars
<1>11. ASSUME ClientEnds, UNCHANGED httpVars PROVE CloseInv'
  BY <1>11 DEF ClientEnds, connVars, loopVars, httpVars
<1>12. ASSUME ServiceReplies, UNCHANGED httpVars PROVE CloseInv'
  BY <1>12 DEF ServiceReplies, connVars, loopVars, httpVars
<1>13. ASSUME ServiceEnds, UNCHANGED httpVars PROVE CloseInv'
  BY <1>13 DEF ServiceEnds, connVars, loopVars, httpVars
<1>14. ASSUME Accepted, UNCHANGED httpVars PROVE CloseInv'
  BY <1>14 DEF Accepted, peerVars, connVars, loopVars, httpVars
<1>15. ASSUME MonitorRead, UNCHANGED httpVars PROVE CloseInv'
  BY <1>15 DEF MonitorRead, Unread, Hold, peerVars, connVars, loopVars,
       httpVars
<1>16. ASSUME MonitorWrite, UNCHANGED httpVars PROVE CloseInv'
  BY <1>16 DEF MonitorWrite, Hold, CanWrite, HasRoom, AfterWrite, peerVars,
       connVars, loopVars, httpVars
<1>17. ASSUME MonitorEnds, UNCHANGED httpVars PROVE CloseInv'
  BY <1>17 DEF MonitorEnds, Unread, Hold, WriteFails, CloseWrite, peerVars,
       connVars, loopVars, httpVars
<1>18. ASSUME StartOk, UNCHANGED httpVars PROVE CloseInv'
  BY <1>18 DEF StartOk, peerVars, loopVars, httpVars
<1>19. ASSUME StartFails, UNCHANGED httpVars PROVE CloseInv'
  BY <1>19 DEF StartFails, peerVars, loopVars, httpVars
<1>20. ASSUME ReplayOk, UNCHANGED httpVars PROVE CloseInv'
  BY <1>20 DEF ReplayOk, peerVars, connVars, httpVars
<1>21. ASSUME ReplayFails, UNCHANGED httpVars PROVE CloseInv'
  BY <1>21 DEF ReplayFails, peerVars, loopVars, httpVars
<1>22. ASSUME Forwarded, UNCHANGED httpVars PROVE CloseInv'
  BY <1>22 DEF Forwarded, peerVars, connVars, loopVars, httpVars
<1>23. ASSUME Return, UNCHANGED httpVars PROVE CloseInv'
  BY <1>23 DEF Return, CloseRead, peerVars, connVars, loopVars, httpVars
<1>24. ASSUME UpRead, UNCHANGED httpVars PROVE CloseInv'
  BY <1>24 DEF UpRead, Hold, CanRead, ReadBytes, AfterRead, peerVars, connVars,
       httpVars
<1>25. ASSUME UpWrite, UNCHANGED httpVars PROVE CloseInv'
  BY <1>25 DEF UpWrite, Hold, peerVars, connVars, httpVars
<1>26. ASSUME UpEnds, UNCHANGED httpVars PROVE CloseInv'
  BY <1>26 DEF UpEnds, Hold, ReadEnds, peerVars, connVars, httpVars
<1>27. ASSUME UpSets, UNCHANGED httpVars PROVE CloseInv'
  BY <1>27 DEF UpSets, peerVars, connVars, httpVars
<1>28. ASSUME UpCloses, UNCHANGED httpVars PROVE CloseInv'
  BY <1>28 DEF UpCloses, peerVars, httpVars
<1>29. ASSUME DownCopies, UNCHANGED httpVars PROVE CloseInv'
  BY <1>29 DEF DownCopies, peerVars, connVars, loopVars, httpVars
<1>30. ASSUME DownEnds, UNCHANGED httpVars PROVE CloseInv'
  BY <1>30 DEF DownEnds, peerVars, connVars, httpVars
<1>31. ASSUME DownSets, UNCHANGED httpVars PROVE CloseInv'
  BY <1>31 DEF DownSets, peerVars, connVars, httpVars
<1>32. ASSUME DownCloses, UNCHANGED httpVars PROVE CloseInv'
  BY <1>32 DEF DownCloses, peerVars, httpVars
<1>33. CASE UNCHANGED allVars
  BY <1>33 DEF allVars, vars, httpVars, peerVars, connVars, loopVars
<1> QED
  BY <1>1, <1>2, <1>3, <1>4, <1>5, <1>6, <1>7, <1>8, <1>9, <1>10, <1>11, <1>12,
     <1>13, <1>14, <1>15, <1>16, <1>17, <1>18, <1>19, <1>20, <1>21, <1>22,
     <1>23, <1>24, <1>25, <1>26, <1>27, <1>28, <1>29, <1>30, <1>31, <1>32,
     <1>33
  DEF Next, HttpStep, ForwardingNext, MonitorStep, StartStep, HandlerStep,
      UpStep, DownStep
-----------------------------------------------------------------------------
Pipes(S) == [buf : Seq(S), writerDone : BOOLEAN, closed : BOOLEAN]

\* A write appends.
LEMMA PipeWrite ==
  ASSUME NEW S, NEW p \in Pipes(S), NEW b \in Seq(S)
  PROVE  /\ AfterWrite(p, b) \in Pipes(S)
         /\ AfterWrite(p, b).buf = p.buf \o b
         /\ Len(AfterWrite(p, b).buf) = Len(p.buf) + Len(b)
         /\ Len(p.buf) \in Nat /\ Len(b) \in Nat
         /\ AfterWrite(p, b).closed = p.closed
         /\ AfterWrite(p, b).writerDone = p.writerDone
<1>1. p.buf \in Seq(S)
  BY DEF Pipes
<1>2. p.buf \o b \in Seq(S) /\ Len(p.buf \o b) = Len(p.buf) + Len(b)
  BY <1>1, ConcatProperties
<1>3. Len(p.buf) \in Nat /\ Len(b) \in Nat
  BY <1>1, LenProperties
<1> QED
  BY <1>2, <1>3 DEF AfterWrite, Pipes

\* A read takes a piece off the front.
LEMMA PipeRead ==
  ASSUME NEW S, NEW p \in Pipes(S), NEW n \in 1..Len(p.buf)
  PROVE  /\ ReadBytes(p, n) \in Seq(S) /\ Len(ReadBytes(p, n)) = n
         /\ AfterRead(p, n) \in Pipes(S)
         /\ AfterRead(p, n).buf = SubSeq(p.buf, n + 1, Len(p.buf))
         /\ Len(AfterRead(p, n).buf) = Len(p.buf) - n /\ Len(p.buf) \in Nat
         /\ AfterRead(p, n).closed = p.closed
         /\ AfterRead(p, n).writerDone = p.writerDone
<1> DEFINE k == Len(p.buf)
<1>1. p.buf \in Seq(S) /\ k \in Nat
  BY DEF Pipes
<1>2. \A i \in 1..k : p.buf[i] \in S
  BY <1>1, ElementOfSeq
<1>3. SubSeq(p.buf, 1, n) \in Seq(S) /\ Len(SubSeq(p.buf, 1, n)) = n
  BY <1>1, <1>2, SubSeqProperties
<1>4. /\ SubSeq(p.buf, n + 1, k) \in Seq(S)
      /\ Len(SubSeq(p.buf, n + 1, k)) =
            IF n + 1 <= k THEN k - (n + 1) + 1 ELSE 0
  <2>1. n + 1 \in Int /\ k \in Int /\ \A i \in n + 1..k : p.buf[i] \in S
    BY <1>1, <1>2
  <2> QED
    BY <2>1, SubSeqProperties
<1>5. (IF n + 1 <= k THEN k - (n + 1) + 1 ELSE 0) = k - n
  BY <1>1
<1>6. AfterRead(p, n).buf = SubSeq(p.buf, n + 1, k)
  BY DEF AfterRead, Pipes
<1> QED
  BY <1>1, <1>3, <1>4, <1>5, <1>6 DEF ReadBytes, AfterRead, Pipes

\* A close sets a flag.
LEMMA PipeClose ==
  ASSUME NEW S, NEW p \in Pipes(S)
  PROVE  /\ CloseWrite(p) \in Pipes(S) /\ CloseRead(p) \in Pipes(S)
         /\ CloseWrite(p).buf = p.buf /\ CloseRead(p).buf = p.buf
         /\ CloseWrite(p).writerDone /\ CloseWrite(p).closed = p.closed
         /\ CloseRead(p).closed /\ CloseRead(p).writerDone = p.writerDone
BY DEF CloseWrite, CloseRead, Pipes
-----------------------------------------------------------------------------
\* Every step keeps the types.
LEMMA TypePreserved ==
  ASSUME TypeOK, HttpInv, [Next]_allVars
  PROVE  TypeOK'
<1> USE BoundsAssumption, LimitAssumption, ScriptAssumption
<1> USE DEF TypeOK, HttpInv
<1>1. ASSUME ClientSends PROVE TypeOK'
  <2>1. /\ sent' \in 0..MaxBytes /\ sent' > sent
        /\ UNCHANGED <<client, service, replied, taken, got, received, connVars,
                       pipe, replay, handler, monitor, loopVars, chunk, eof,
                       httpVars>>
    BY <1>1 DEF ClientSends
  <2>2. 1..sent \subseteq 1..sent'
    BY <2>1, SMTT(20)
  <2>3. Seq(1..sent) \subseteq Seq(1..sent')
    BY <2>2, SeqMonotonic
  <2> QED
    BY <2>1, <2>3 DEF connVars, loopVars, httpVars
<1>2. ASSUME Fill PROVE TypeOK'
  BY <1>2 DEF Fill, Unread, Reading, peerVars, connVars, loopVars, httpVars
<1>3. ASSUME HttpEnds PROVE TypeOK'
  BY <1>3 DEF HttpEnds, Unread, Reading, peerVars, loopVars
<1>4. ASSUME ReadHeader PROVE TypeOK'
  BY <1>4 DEF ReadHeader, OnlyHttp, peerVars, connVars, loopVars, vars
<1>5. ASSUME ReadBody PROVE TypeOK'
  BY <1>5 DEF ReadBody, Consume, OnlyHttp, peerVars, connVars, loopVars, vars
<1>6. ASSUME Reject PROVE TypeOK'
  BY <1>6 DEF Reject, Reset, OnlyHttp, peerVars, connVars, loopVars, vars
<1>7. ASSUME AnswerLocally PROVE TypeOK'
  BY <1>7 DEF AnswerLocally, Reset, OnlyHttp, peerVars, connVars, loopVars,
       vars
<1>8. ASSUME DropBody PROVE TypeOK'
  BY <1>8 DEF DropBody, Consume, OnlyHttp, peerVars, connVars, loopVars, vars
<1>9. ASSUME Answered PROVE TypeOK'
  BY <1>9 DEF Answered, OnlyHttp, peerVars, connVars, loopVars, vars
<1>10. ASSUME Hijack PROVE TypeOK'
  <2>1. Bytes(mark, taken - mark) \in Seq(1..sent)
    BY BytesType
  <2> QED
    BY <1>10, <2>1 DEF Hijack, peerVars, connVars, loopVars
<1>11. ASSUME ClientEnds, UNCHANGED httpVars PROVE TypeOK'
  BY <1>11 DEF ClientEnds, connVars, loopVars, httpVars
<1>12. ASSUME ServiceReplies, UNCHANGED httpVars PROVE TypeOK'
  BY <1>12 DEF ServiceReplies, connVars, loopVars, httpVars
<1>13. ASSUME ServiceEnds, UNCHANGED httpVars PROVE TypeOK'
  BY <1>13 DEF ServiceEnds, connVars, loopVars, httpVars
<1>14. ASSUME Accepted, UNCHANGED httpVars PROVE TypeOK'
  BY <1>14 DEF Accepted, peerVars, connVars, loopVars, httpVars
<1>15. ASSUME MonitorRead, UNCHANGED httpVars PROVE TypeOK'
  <2>1. PICK n \in 1..Unread : /\ n <= MaxChunk /\ taken' = taken + n
                               /\ Hold("monitor", Bytes(taken, n))
    BY <1>15 DEF MonitorRead
  <2>2. n \in Nat /\ taken \in Nat /\ sent \in Nat /\ taken + n <= sent
    BY <2>1 DEF Unread
  <2>3. Bytes(taken, n) \in Seq(1..sent)
    BY <2>2, BytesType
  <2> QED
    BY <1>15, <2>1, <2>2, <2>3, SMTT(20)
       DEF MonitorRead, Hold, peerVars, connVars, loopVars, httpVars
<1>16. ASSUME MonitorWrite, UNCHANGED httpVars PROVE TypeOK'
  <2>1. pipe \in Pipes(1..sent)
    BY DEF Pipes
  <2>2. AfterWrite(pipe, chunk["monitor"]) \in Pipes(1..sent)
    BY <2>1, PipeWrite
  <2> QED
    BY <1>16, <2>2
       DEF MonitorWrite, Hold, Pipes, peerVars, connVars, loopVars, httpVars
<1>17. ASSUME MonitorEnds, UNCHANGED httpVars PROVE TypeOK'
  <2>1. pipe \in Pipes(1..sent)
    BY DEF Pipes
  <2>2. CloseWrite(pipe) \in Pipes(1..sent)
    BY <2>1, PipeClose
  <2> QED
    BY <1>17, <2>2
       DEF MonitorEnds, Hold, Pipes, peerVars, connVars, loopVars, httpVars
<1>18. ASSUME StartOk, UNCHANGED httpVars PROVE TypeOK'
  BY <1>18 DEF StartOk, peerVars, loopVars, httpVars
<1>19. ASSUME StartFails, UNCHANGED httpVars PROVE TypeOK'
  BY <1>19 DEF StartFails, peerVars, loopVars, httpVars
<1>20. ASSUME ReplayOk, UNCHANGED httpVars PROVE TypeOK'
  BY <1>20 DEF ReplayOk, peerVars, connVars, httpVars
<1>21. ASSUME ReplayFails, UNCHANGED httpVars PROVE TypeOK'
  BY <1>21 DEF ReplayFails, peerVars, loopVars, httpVars
<1>22. ASSUME Forwarded, UNCHANGED httpVars PROVE TypeOK'
  BY <1>22 DEF Forwarded, peerVars, connVars, loopVars, httpVars
<1>23. ASSUME Return, UNCHANGED httpVars PROVE TypeOK'
  <2>1. pipe \in Pipes(1..sent)
    BY DEF Pipes
  <2>2. CloseRead(pipe) \in Pipes(1..sent)
    BY <2>1, PipeClose
  <2> QED
    BY <1>23, <2>2 DEF Return, Pipes, peerVars, connVars, loopVars, httpVars
<1>24. ASSUME UpRead, UNCHANGED httpVars PROVE TypeOK'
  <2>1. PICK n \in 1..MaxChunk : /\ CanRead(pipe, n)
                                 /\ Hold("up", ReadBytes(pipe, n))
                                 /\ pipe' = AfterRead(pipe, n)
    BY <1>24 DEF UpRead
  <2>2. pipe \in Pipes(1..sent) /\ n \in 1..Len(pipe.buf)
    BY <2>1 DEF CanRead, Pipes
  <2>3. ReadBytes(pipe, n) \in Seq(1..sent) /\ AfterRead(pipe, n) \in Pipes(1..sent)
    BY <2>2, PipeRead
  <2> QED
    BY <1>24, <2>1, <2>3
       DEF UpRead, Hold, Pipes, peerVars, connVars, loopVars, httpVars
<1>25. ASSUME UpWrite, UNCHANGED httpVars PROVE TypeOK'
  BY <1>25 DEF UpWrite, Hold, peerVars, connVars, httpVars
<1>26. ASSUME UpEnds, UNCHANGED httpVars PROVE TypeOK'
  BY <1>26 DEF UpEnds, Hold, ReadEnds, peerVars, connVars, httpVars
<1>27. ASSUME UpSets, UNCHANGED httpVars PROVE TypeOK'
  BY <1>27 DEF UpSets, peerVars, connVars, httpVars
<1>28. ASSUME UpCloses, UNCHANGED httpVars PROVE TypeOK'
  BY <1>28 DEF UpCloses, peerVars, httpVars
<1>29. ASSUME DownCopies, UNCHANGED httpVars PROVE TypeOK'
  BY <1>29 DEF DownCopies, peerVars, connVars, loopVars, httpVars
<1>30. ASSUME DownEnds, UNCHANGED httpVars PROVE TypeOK'
  BY <1>30 DEF DownEnds, peerVars, connVars, httpVars
<1>31. ASSUME DownSets, UNCHANGED httpVars PROVE TypeOK'
  BY <1>31 DEF DownSets, peerVars, connVars, httpVars
<1>32. ASSUME DownCloses, UNCHANGED httpVars PROVE TypeOK'
  BY <1>32 DEF DownCloses, peerVars, httpVars
<1>33. CASE UNCHANGED allVars
  BY <1>33 DEF allVars, vars, httpVars, peerVars, connVars, loopVars
<1> QED
  BY <1>1, <1>2, <1>3, <1>4, <1>5, <1>6, <1>7, <1>8, <1>9, <1>10, <1>11, <1>12,
     <1>13, <1>14, <1>15, <1>16, <1>17, <1>18, <1>19, <1>20, <1>21, <1>22,
     <1>23, <1>24, <1>25, <1>26, <1>27, <1>28, <1>29, <1>30, <1>31, <1>32,
     <1>33
  DEF Next, HttpStep, ForwardingNext, MonitorStep, StartStep, HandlerStep,
      UpStep, DownStep
-----------------------------------------------------------------------------
\* Every step keeps what the pipe and its users hold.
LEMMA PipePreserved ==
  ASSUME TypeOK, HttpInv, PlaceInv, PipeInv, [Next]_allVars
  PROVE  PipeInv'
<1> USE BoundsAssumption, LimitAssumption, ScriptAssumption
<1> USE DEF TypeOK, HttpInv, PlaceInv, PipeInv
<1>1. ASSUME ClientSends PROVE PipeInv'
  BY <1>1 DEF ClientSends, Allowance, connVars, loopVars, httpVars
<1>2. ASSUME Fill PROVE PipeInv'
  BY <1>2 DEF Fill, Unread, Reading, peerVars, connVars, loopVars, httpVars
<1>3. ASSUME HttpEnds PROVE PipeInv'
  BY <1>3 DEF HttpEnds, Unread, Reading, peerVars, loopVars
<1>4. ASSUME ReadHeader PROVE PipeInv'
  BY <1>4 DEF ReadHeader, OnlyHttp, peerVars, connVars, loopVars, vars
<1>5. ASSUME ReadBody PROVE PipeInv'
  BY <1>5 DEF ReadBody, Consume, OnlyHttp, peerVars, connVars, loopVars, vars
<1>6. ASSUME Reject PROVE PipeInv'
  BY <1>6 DEF Reject, Reset, OnlyHttp, peerVars, connVars, loopVars, vars
<1>7. ASSUME AnswerLocally PROVE PipeInv'
  BY <1>7 DEF AnswerLocally, Reset, OnlyHttp, peerVars, connVars, loopVars,
       vars
<1>8. ASSUME DropBody PROVE PipeInv'
  BY <1>8 DEF DropBody, Consume, OnlyHttp, peerVars, connVars, loopVars, vars
<1>9. ASSUME Answered PROVE PipeInv'
  BY <1>9 DEF Answered, OnlyHttp, peerVars, connVars, loopVars, vars
<1>10. ASSUME Hijack PROVE PipeInv'
  BY <1>10 DEF Hijack, peerVars, connVars, loopVars
<1>11. ASSUME ClientEnds, UNCHANGED httpVars PROVE PipeInv'
  BY <1>11 DEF ClientEnds, connVars, loopVars, httpVars
<1>12. ASSUME ServiceReplies, UNCHANGED httpVars PROVE PipeInv'
  BY <1>12 DEF ServiceReplies, connVars, loopVars, httpVars
<1>13. ASSUME ServiceEnds, UNCHANGED httpVars PROVE PipeInv'
  BY <1>13 DEF ServiceEnds, connVars, loopVars, httpVars
<1>14. ASSUME Accepted, UNCHANGED httpVars PROVE PipeInv'
  BY <1>14 DEF Accepted, peerVars, connVars, loopVars, httpVars
<1>15. ASSUME MonitorRead, UNCHANGED httpVars PROVE PipeInv'
  <2>1. PICK n \in 1..Unread : /\ n <= MaxChunk /\ taken' = taken + n
                               /\ Hold("monitor", Bytes(taken, n))
    BY <1>15 DEF MonitorRead
  <2>2. n \in Nat /\ taken \in Nat /\ sent \in Nat /\ taken + n <= sent
    BY <2>1 DEF Unread
  <2>3. Len(Bytes(taken, n)) = n
    BY <2>2, BytesType
  <2> QED
    BY <1>15, <2>1, <2>3
       DEF MonitorRead, Hold, peerVars, connVars, loopVars, httpVars
<1>16. ASSUME MonitorWrite, UNCHANGED httpVars PROVE PipeInv'
  BY <1>16 DEF MonitorWrite, Hold, CanWrite, HasRoom, AfterWrite, peerVars,
       connVars, loopVars, httpVars
<1>17. ASSUME MonitorEnds, UNCHANGED httpVars PROVE PipeInv'
  BY <1>17 DEF MonitorEnds, Unread, Hold, WriteFails, CloseWrite, peerVars,
       connVars, loopVars, httpVars
<1>18. ASSUME StartOk, UNCHANGED httpVars PROVE PipeInv'
  BY <1>18 DEF StartOk, peerVars, loopVars, httpVars
<1>19. ASSUME StartFails, UNCHANGED httpVars PROVE PipeInv'
  BY <1>19 DEF StartFails, peerVars, loopVars, httpVars
<1>20. ASSUME ReplayOk, UNCHANGED httpVars PROVE PipeInv'
  BY <1>20 DEF ReplayOk, peerVars, connVars, httpVars
<1>21. ASSUME ReplayFails, UNCHANGED httpVars PROVE PipeInv'
  BY <1>21 DEF ReplayFails, peerVars, loopVars, httpVars
<1>22. ASSUME Forwarded, UNCHANGED httpVars PROVE PipeInv'
  BY <1>22 DEF Forwarded, peerVars, connVars, loopVars, httpVars
<1>23. ASSUME Return, UNCHANGED httpVars PROVE PipeInv'
  BY <1>23 DEF Return, CloseRead, peerVars, connVars, loopVars, httpVars
<1>24. ASSUME UpRead, UNCHANGED httpVars PROVE PipeInv'
  <2>1. PICK n \in 1..MaxChunk : /\ CanRead(pipe, n)
                                 /\ Hold("up", ReadBytes(pipe, n))
                                 /\ pipe' = AfterRead(pipe, n)
    BY <1>24 DEF UpRead
  <2>2. pipe \in Pipes(1..sent) /\ n \in 1..Len(pipe.buf)
    BY <2>1 DEF CanRead, Pipes
  <2>3. /\ Len(ReadBytes(pipe, n)) = n
        /\ AfterRead(pipe, n).closed = pipe.closed
        /\ AfterRead(pipe, n).writerDone = pipe.writerDone
    BY <2>2, PipeRead
  <2>4. ReadBytes(pipe, n) # << >>
    BY <2>2, <2>3
  <2> QED
    BY <1>24, <2>1, <2>2, <2>3, <2>4
       DEF UpRead, Hold, peerVars, connVars, loopVars, httpVars
<1>25. ASSUME UpWrite, UNCHANGED httpVars PROVE PipeInv'
  BY <1>25 DEF UpWrite, Hold, peerVars, connVars, httpVars
<1>26. ASSUME UpEnds, UNCHANGED httpVars PROVE PipeInv'
  BY <1>26 DEF UpEnds, Hold, ReadEnds, peerVars, connVars, httpVars
<1>27. ASSUME UpSets, UNCHANGED httpVars PROVE PipeInv'
  BY <1>27 DEF UpSets, peerVars, connVars, httpVars
<1>28. ASSUME UpCloses, UNCHANGED httpVars PROVE PipeInv'
  BY <1>28 DEF UpCloses, peerVars, httpVars
<1>29. ASSUME DownCopies, UNCHANGED httpVars PROVE PipeInv'
  BY <1>29 DEF DownCopies, peerVars, connVars, loopVars, httpVars
<1>30. ASSUME DownEnds, UNCHANGED httpVars PROVE PipeInv'
  BY <1>30 DEF DownEnds, peerVars, connVars, httpVars
<1>31. ASSUME DownSets, UNCHANGED httpVars PROVE PipeInv'
  BY <1>31 DEF DownSets, peerVars, connVars, httpVars
<1>32. ASSUME DownCloses, UNCHANGED httpVars PROVE PipeInv'
  BY <1>32 DEF DownCloses, peerVars, httpVars
<1>33. CASE UNCHANGED allVars
  BY <1>33 DEF allVars, vars, httpVars, peerVars, connVars, loopVars
<1> QED
  BY <1>1, <1>2, <1>3, <1>4, <1>5, <1>6, <1>7, <1>8, <1>9, <1>10, <1>11, <1>12,
     <1>13, <1>14, <1>15, <1>16, <1>17, <1>18, <1>19, <1>20, <1>21, <1>22,
     <1>23, <1>24, <1>25, <1>26, <1>27, <1>28, <1>29, <1>30, <1>31, <1>32,
     <1>33
  DEF Next, HttpStep, ForwardingNext, MonitorStep, StartStep, HandlerStep,
      UpStep, DownStep
-----------------------------------------------------------------------------
\* Every step keeps what a copy that ends has drained.
LEMMA DrainPreserved ==
  ASSUME TypeOK, HttpInv, PlaceInv, PipeInv, CloseInv, DrainInv, [Next]_allVars
  PROVE  DrainInv'
<1> USE BoundsAssumption, LimitAssumption, ScriptAssumption
<1> USE DEF TypeOK, HttpInv, PlaceInv, PipeInv, CloseInv, DrainInv
<1>1. ASSUME ClientSends PROVE DrainInv'
  BY <1>1 DEF ClientSends, Allowance, connVars, loopVars, httpVars
<1>2. ASSUME Fill PROVE DrainInv'
  BY <1>2 DEF Fill, Unread, Reading, peerVars, connVars, loopVars, httpVars
<1>3. ASSUME HttpEnds PROVE DrainInv'
  BY <1>3 DEF HttpEnds, Unread, Reading, peerVars, loopVars
<1>4. ASSUME ReadHeader PROVE DrainInv'
  BY <1>4 DEF ReadHeader, OnlyHttp, peerVars, connVars, loopVars, vars
<1>5. ASSUME ReadBody PROVE DrainInv'
  BY <1>5 DEF ReadBody, Consume, OnlyHttp, peerVars, connVars, loopVars, vars
<1>6. ASSUME Reject PROVE DrainInv'
  BY <1>6 DEF Reject, Reset, OnlyHttp, peerVars, connVars, loopVars, vars
<1>7. ASSUME AnswerLocally PROVE DrainInv'
  BY <1>7 DEF AnswerLocally, Reset, OnlyHttp, peerVars, connVars, loopVars,
       vars
<1>8. ASSUME DropBody PROVE DrainInv'
  BY <1>8 DEF DropBody, Consume, OnlyHttp, peerVars, connVars, loopVars, vars
<1>9. ASSUME Answered PROVE DrainInv'
  BY <1>9 DEF Answered, OnlyHttp, peerVars, connVars, loopVars, vars
<1>10. ASSUME Hijack PROVE DrainInv'
  BY <1>10 DEF Hijack, peerVars, connVars, loopVars
<1>11. ASSUME ClientEnds, UNCHANGED httpVars PROVE DrainInv'
  BY <1>11 DEF ClientEnds, connVars, loopVars, httpVars
<1>12. ASSUME ServiceReplies, UNCHANGED httpVars PROVE DrainInv'
  BY <1>12 DEF ServiceReplies, connVars, loopVars, httpVars
<1>13. ASSUME ServiceEnds, UNCHANGED httpVars PROVE DrainInv'
  BY <1>13 DEF ServiceEnds, connVars, loopVars, httpVars
<1>14. ASSUME Accepted, UNCHANGED httpVars PROVE DrainInv'
  BY <1>14 DEF Accepted, peerVars, connVars, loopVars, httpVars
<1>15. ASSUME MonitorRead, UNCHANGED httpVars PROVE DrainInv'
  BY <1>15 DEF MonitorRead, Unread, Hold, peerVars, connVars, loopVars,
       httpVars
<1>16. ASSUME MonitorWrite, UNCHANGED httpVars PROVE DrainInv'
  BY <1>16 DEF MonitorWrite, Hold, CanWrite, HasRoom, AfterWrite, peerVars,
       connVars, loopVars, httpVars
<1>17. ASSUME MonitorEnds, UNCHANGED httpVars PROVE DrainInv'
  <2>1. pipe \in Pipes(1..sent)
    BY DEF Pipes
  <2>2. pipe' = CloseWrite(pipe)
    BY <1>17 DEF MonitorEnds
  <2>5. pipe'.closed = pipe.closed /\ pipe'.buf = pipe.buf
    BY <2>1, <2>2, PipeClose
  <2>3. /\ monitor' = "done" /\ UNCHANGED <<client, clientConn, service, sent, taken, up>>
        /\ \/ clientConn = "closed" \/ client = "reset" \/ pipe.closed
           \/ client = "finished" /\ Unread = 0
    BY <1>17 DEF MonitorEnds, WriteFails, peerVars, connVars, loopVars
  <2>4. Unread = 0 => taken = sent
    BY DEF Unread
  <2> QED
    BY <2>3, <2>4, <2>5
<1>18. ASSUME StartOk, UNCHANGED httpVars PROVE DrainInv'
  BY <1>18 DEF StartOk, peerVars, loopVars, httpVars
<1>19. ASSUME StartFails, UNCHANGED httpVars PROVE DrainInv'
  BY <1>19 DEF StartFails, peerVars, loopVars, httpVars
<1>20. ASSUME ReplayOk, UNCHANGED httpVars PROVE DrainInv'
  BY <1>20 DEF ReplayOk, peerVars, connVars, httpVars
<1>21. ASSUME ReplayFails, UNCHANGED httpVars PROVE DrainInv'
  BY <1>21 DEF ReplayFails, peerVars, loopVars, httpVars
<1>22. ASSUME Forwarded, UNCHANGED httpVars PROVE DrainInv'
  BY <1>22 DEF Forwarded, peerVars, connVars, loopVars, httpVars
<1>23. ASSUME Return, UNCHANGED httpVars PROVE DrainInv'
  BY <1>23 DEF Return, CloseRead, peerVars, connVars, loopVars, httpVars
<1>24. ASSUME UpRead, UNCHANGED httpVars PROVE DrainInv'
  BY <1>24 DEF UpRead, Hold, CanRead, ReadBytes, AfterRead, peerVars, connVars,
       httpVars
<1>25. ASSUME UpWrite, UNCHANGED httpVars PROVE DrainInv'
  BY <1>25 DEF UpWrite, Hold, peerVars, connVars, httpVars
<1>26. ASSUME UpEnds, UNCHANGED httpVars PROVE DrainInv'
  BY <1>26 DEF UpEnds, Hold, ReadEnds, peerVars, connVars, httpVars
<1>27. ASSUME UpSets, UNCHANGED httpVars PROVE DrainInv'
  BY <1>27 DEF UpSets, peerVars, connVars, httpVars
<1>28. ASSUME UpCloses, UNCHANGED httpVars PROVE DrainInv'
  BY <1>28 DEF UpCloses, peerVars, httpVars
<1>29. ASSUME DownCopies, UNCHANGED httpVars PROVE DrainInv'
  BY <1>29 DEF DownCopies, peerVars, connVars, loopVars, httpVars
<1>30. ASSUME DownEnds, UNCHANGED httpVars PROVE DrainInv'
  BY <1>30 DEF DownEnds, peerVars, connVars, httpVars
<1>31. ASSUME DownSets, UNCHANGED httpVars PROVE DrainInv'
  BY <1>31 DEF DownSets, peerVars, connVars, httpVars
<1>32. ASSUME DownCloses, UNCHANGED httpVars PROVE DrainInv'
  BY <1>32 DEF DownCloses, peerVars, httpVars
<1>33. CASE UNCHANGED allVars
  BY <1>33 DEF allVars, vars, httpVars, peerVars, connVars, loopVars
<1> QED
  BY <1>1, <1>2, <1>3, <1>4, <1>5, <1>6, <1>7, <1>8, <1>9, <1>10, <1>11, <1>12,
     <1>13, <1>14, <1>15, <1>16, <1>17, <1>18, <1>19, <1>20, <1>21, <1>22,
     <1>23, <1>24, <1>25, <1>26, <1>27, <1>28, <1>29, <1>30, <1>31, <1>32,
     <1>33
  DEF Next, HttpStep, ForwardingNext, MonitorStep, StartStep, HandlerStep,
      UpStep, DownStep
-----------------------------------------------------------------------------
\* Every step keeps the pipe bounded.
LEMMA BacklogPreserved ==
  ASSUME TypeOK, PipeInv, BacklogBounded, [Next]_allVars
  PROVE  BacklogBounded'
<1> USE BoundsAssumption, LimitAssumption, ScriptAssumption
<1> USE DEF TypeOK, PipeInv, BacklogBounded
<1>1. ASSUME ClientSends PROVE BacklogBounded'
  BY <1>1 DEF ClientSends, Allowance, connVars, loopVars, httpVars
<1>2. ASSUME Fill PROVE BacklogBounded'
  BY <1>2 DEF Fill, Unread, Reading, peerVars, connVars, loopVars, httpVars
<1>3. ASSUME HttpEnds PROVE BacklogBounded'
  BY <1>3 DEF HttpEnds, Unread, Reading, peerVars, loopVars
<1>4. ASSUME ReadHeader PROVE BacklogBounded'
  BY <1>4 DEF ReadHeader, OnlyHttp, peerVars, connVars, loopVars, vars
<1>5. ASSUME ReadBody PROVE BacklogBounded'
  BY <1>5 DEF ReadBody, Consume, OnlyHttp, peerVars, connVars, loopVars, vars
<1>6. ASSUME Reject PROVE BacklogBounded'
  BY <1>6 DEF Reject, Reset, OnlyHttp, peerVars, connVars, loopVars, vars
<1>7. ASSUME AnswerLocally PROVE BacklogBounded'
  BY <1>7 DEF AnswerLocally, Reset, OnlyHttp, peerVars, connVars, loopVars,
       vars
<1>8. ASSUME DropBody PROVE BacklogBounded'
  BY <1>8 DEF DropBody, Consume, OnlyHttp, peerVars, connVars, loopVars, vars
<1>9. ASSUME Answered PROVE BacklogBounded'
  BY <1>9 DEF Answered, OnlyHttp, peerVars, connVars, loopVars, vars
<1>10. ASSUME Hijack PROVE BacklogBounded'
  BY <1>10 DEF Hijack, peerVars, connVars, loopVars
<1>11. ASSUME ClientEnds, UNCHANGED httpVars PROVE BacklogBounded'
  BY <1>11 DEF ClientEnds, connVars, loopVars, httpVars
<1>12. ASSUME ServiceReplies, UNCHANGED httpVars PROVE BacklogBounded'
  BY <1>12 DEF ServiceReplies, connVars, loopVars, httpVars
<1>13. ASSUME ServiceEnds, UNCHANGED httpVars PROVE BacklogBounded'
  BY <1>13 DEF ServiceEnds, connVars, loopVars, httpVars
<1>14. ASSUME Accepted, UNCHANGED httpVars PROVE BacklogBounded'
  BY <1>14 DEF Accepted, peerVars, connVars, loopVars, httpVars
<1>15. ASSUME MonitorRead, UNCHANGED httpVars PROVE BacklogBounded'
  BY <1>15 DEF MonitorRead, Unread, Hold, peerVars, connVars, loopVars,
       httpVars
<1>16. ASSUME MonitorWrite, UNCHANGED httpVars PROVE BacklogBounded'
  <2>1. pipe \in Pipes(1..sent)
    BY DEF Pipes
  <2>2. /\ pipe' = AfterWrite(pipe, chunk["monitor"])
        /\ CanWrite(pipe, chunk["monitor"])
    BY <1>16 DEF MonitorWrite
  <2>3. /\ Len(pipe'.buf) = Len(pipe.buf) + Len(chunk["monitor"])
        /\ Len(pipe.buf) \in Nat /\ Len(chunk["monitor"]) \in Nat
    <3>1. chunk["monitor"] \in Seq(1..sent)
      OBVIOUS
    <3>2. /\ Len(AfterWrite(pipe, chunk["monitor"]).buf)
                = Len(pipe.buf) + Len(chunk["monitor"])
          /\ Len(pipe.buf) \in Nat /\ Len(chunk["monitor"]) \in Nat
      BY <2>1, <3>1, PipeWrite
    <3> QED
      BY <2>2, <3>2
  <2>4. pipe.buf = << >> => Len(pipe.buf) = 0
    OBVIOUS
  <2> QED
    BY <2>2, <2>3, <2>4, BoundsAssumption, LimitAssumption DEF CanWrite, HasRoom
<1>17. ASSUME MonitorEnds, UNCHANGED httpVars PROVE BacklogBounded'
  BY <1>17 DEF MonitorEnds, Unread, Hold, WriteFails, CloseWrite, peerVars,
       connVars, loopVars, httpVars
<1>18. ASSUME StartOk, UNCHANGED httpVars PROVE BacklogBounded'
  BY <1>18 DEF StartOk, peerVars, loopVars, httpVars
<1>19. ASSUME StartFails, UNCHANGED httpVars PROVE BacklogBounded'
  BY <1>19 DEF StartFails, peerVars, loopVars, httpVars
<1>20. ASSUME ReplayOk, UNCHANGED httpVars PROVE BacklogBounded'
  BY <1>20 DEF ReplayOk, peerVars, connVars, httpVars
<1>21. ASSUME ReplayFails, UNCHANGED httpVars PROVE BacklogBounded'
  BY <1>21 DEF ReplayFails, peerVars, loopVars, httpVars
<1>22. ASSUME Forwarded, UNCHANGED httpVars PROVE BacklogBounded'
  BY <1>22 DEF Forwarded, peerVars, connVars, loopVars, httpVars
<1>23. ASSUME Return, UNCHANGED httpVars PROVE BacklogBounded'
  BY <1>23 DEF Return, CloseRead, peerVars, connVars, loopVars, httpVars
<1>24. ASSUME UpRead, UNCHANGED httpVars PROVE BacklogBounded'
  <2>1. PICK n \in 1..MaxChunk : /\ CanRead(pipe, n)
                                 /\ Hold("up", ReadBytes(pipe, n))
                                 /\ pipe' = AfterRead(pipe, n)
    BY <1>24 DEF UpRead
  <2>2. pipe \in Pipes(1..sent) /\ n \in 1..Len(pipe.buf)
    BY <2>1 DEF CanRead, Pipes
  <2>3. /\ Len(AfterRead(pipe, n).buf) = Len(pipe.buf) - n
        /\ Len(pipe.buf) \in Nat
    <3> HIDE DEF TypeOK, PipeInv, BacklogBounded
    <3> QED
      BY <2>2, PipeRead
  <2> QED
    BY <2>1, <2>2, <2>3, BoundsAssumption, LimitAssumption
<1>25. ASSUME UpWrite, UNCHANGED httpVars PROVE BacklogBounded'
  BY <1>25 DEF UpWrite, Hold, peerVars, connVars, httpVars
<1>26. ASSUME UpEnds, UNCHANGED httpVars PROVE BacklogBounded'
  BY <1>26 DEF UpEnds, Hold, ReadEnds, peerVars, connVars, httpVars
<1>27. ASSUME UpSets, UNCHANGED httpVars PROVE BacklogBounded'
  BY <1>27 DEF UpSets, peerVars, connVars, httpVars
<1>28. ASSUME UpCloses, UNCHANGED httpVars PROVE BacklogBounded'
  BY <1>28 DEF UpCloses, peerVars, httpVars
<1>29. ASSUME DownCopies, UNCHANGED httpVars PROVE BacklogBounded'
  BY <1>29 DEF DownCopies, peerVars, connVars, loopVars, httpVars
<1>30. ASSUME DownEnds, UNCHANGED httpVars PROVE BacklogBounded'
  BY <1>30 DEF DownEnds, peerVars, connVars, httpVars
<1>31. ASSUME DownSets, UNCHANGED httpVars PROVE BacklogBounded'
  BY <1>31 DEF DownSets, peerVars, connVars, httpVars
<1>32. ASSUME DownCloses, UNCHANGED httpVars PROVE BacklogBounded'
  BY <1>32 DEF DownCloses, peerVars, httpVars
<1>33. CASE UNCHANGED allVars
  BY <1>33 DEF allVars, vars, httpVars, peerVars, connVars, loopVars
<1> QED
  BY <1>1, <1>2, <1>3, <1>4, <1>5, <1>6, <1>7, <1>8, <1>9, <1>10, <1>11, <1>12,
     <1>13, <1>14, <1>15, <1>16, <1>17, <1>18, <1>19, <1>20, <1>21, <1>22,
     <1>23, <1>24, <1>25, <1>26, <1>27, <1>28, <1>29, <1>30, <1>31, <1>32,
     <1>33
  DEF Next, HttpStep, ForwardingNext, MonitorStep, StartStep, HandlerStep,
      UpStep, DownStep
-----------------------------------------------------------------------------
\* If bodies are read, every reset of the buffer is at the end of a request.
LEMMA MarkPreserved ==
  ASSUME BodiesAreRead, TypeOK, HttpInv, MarkInv, [Next]_allVars
  PROVE  MarkInv'
<1> USE DEF TypeOK, HttpInv, MarkInv, ReplayIsTheRequest
<1>1. ASSUME ClientSends PROVE MarkInv'
  BY <1>1 DEF ClientSends, Allowance, connVars, loopVars, httpVars, End
<1>2. ASSUME Fill PROVE MarkInv'
  BY <1>2 DEF Fill, Unread, Reading, peerVars, connVars, loopVars, httpVars,
       End
<1>3. ASSUME HttpEnds PROVE MarkInv'
  BY <1>3 DEF HttpEnds, Unread, Reading, peerVars, loopVars, End
<1>4. ASSUME ReadHeader PROVE MarkInv'
  BY <1>4 DEF ReadHeader, OnlyHttp, peerVars, connVars, loopVars, vars, End
<1>5. ASSUME ReadBody PROVE MarkInv'
  BY <1>5 DEF ReadBody, Consume, OnlyHttp, peerVars, connVars, loopVars, vars,
       End
<1>6. ASSUME Reject PROVE MarkInv'
  <2>1. /\ http = "body" /\ parsed = End /\ mark' = taken /\ http' = "discard"
        /\ UNCHANGED <<request, begin, replay>>
    BY <1>6 DEF Reject, Reset, OnlyHttp, vars
  <2>2. taken = End /\ End' = End
    BY <2>1, EndType DEF End
  <2> QED
    BY <2>1, <2>2
<1>7. ASSUME AnswerLocally PROVE MarkInv'
  <2>1. /\ http = "answer" /\ mark' = taken /\ http' = "discard"
        /\ UNCHANGED <<request, begin, replay>>
    BY <1>7 DEF AnswerLocally, Reset, OnlyHttp, vars
  <2>2. Script[request].body = 0 /\ End = begin + 1 + Script[request].body
    BY <2>1, EndType DEF BodiesAreRead, Kind, End
  <2>3. taken = End /\ End' = End
    BY <2>1, <2>2 DEF End
  <2> QED
    BY <2>1, <2>3
<1>8. ASSUME DropBody PROVE MarkInv'
  BY <1>8 DEF DropBody, Consume, OnlyHttp, peerVars, connVars, loopVars, vars,
       End
<1>9. ASSUME Answered PROVE MarkInv'
  <2>1. /\ http = "discard" /\ parsed = End /\ http' = "idle" /\ begin' = End
        /\ UNCHANGED mark
    BY <1>9 DEF Answered
  <2> QED
    BY <2>1
<1>10. ASSUME Hijack PROVE MarkInv'
  <2>1. /\ http = "body" /\ parsed = End /\ http' = "hijacked"
        /\ replay' = Bytes(mark, taken - mark) /\ UNCHANGED <<request, begin>>
    BY <1>10 DEF Hijack
  <2>2. /\ taken = End /\ End = begin + 1 + Script[request].body
        /\ Script[request].body \in Nat
    BY <2>1, EndType DEF End
  <2>3. taken - mark = 1 + Script[request].body /\ mark = begin
    BY <2>1, <2>2, SMTT(20)
  <2> QED
    BY <2>1, <2>3
<1>11. ASSUME ClientEnds, UNCHANGED httpVars PROVE MarkInv'
  BY <1>11 DEF ClientEnds, connVars, loopVars, httpVars, End
<1>12. ASSUME ServiceReplies, UNCHANGED httpVars PROVE MarkInv'
  BY <1>12 DEF ServiceReplies, connVars, loopVars, httpVars, End
<1>13. ASSUME ServiceEnds, UNCHANGED httpVars PROVE MarkInv'
  BY <1>13 DEF ServiceEnds, connVars, loopVars, httpVars, End
<1>14. ASSUME Accepted, UNCHANGED httpVars PROVE MarkInv'
  BY <1>14 DEF Accepted, peerVars, connVars, loopVars, httpVars, End
<1>15. ASSUME MonitorRead, UNCHANGED httpVars PROVE MarkInv'
  BY <1>15 DEF MonitorRead, Unread, Hold, peerVars, connVars, loopVars,
       httpVars, End
<1>16. ASSUME MonitorWrite, UNCHANGED httpVars PROVE MarkInv'
  BY <1>16 DEF MonitorWrite, Hold, CanWrite, HasRoom, AfterWrite, peerVars,
       connVars, loopVars, httpVars, End
<1>17. ASSUME MonitorEnds, UNCHANGED httpVars PROVE MarkInv'
  BY <1>17 DEF MonitorEnds, Unread, Hold, WriteFails, CloseWrite, peerVars,
       connVars, loopVars, httpVars, End
<1>18. ASSUME StartOk, UNCHANGED httpVars PROVE MarkInv'
  BY <1>18 DEF StartOk, peerVars, loopVars, httpVars, End
<1>19. ASSUME StartFails, UNCHANGED httpVars PROVE MarkInv'
  BY <1>19 DEF StartFails, peerVars, loopVars, httpVars, End
<1>20. ASSUME ReplayOk, UNCHANGED httpVars PROVE MarkInv'
  BY <1>20 DEF ReplayOk, peerVars, connVars, httpVars, End
<1>21. ASSUME ReplayFails, UNCHANGED httpVars PROVE MarkInv'
  BY <1>21 DEF ReplayFails, peerVars, loopVars, httpVars, End
<1>22. ASSUME Forwarded, UNCHANGED httpVars PROVE MarkInv'
  BY <1>22 DEF Forwarded, peerVars, connVars, loopVars, httpVars, End
<1>23. ASSUME Return, UNCHANGED httpVars PROVE MarkInv'
  BY <1>23 DEF Return, CloseRead, peerVars, connVars, loopVars, httpVars, End
<1>24. ASSUME UpRead, UNCHANGED httpVars PROVE MarkInv'
  BY <1>24 DEF UpRead, Hold, CanRead, ReadBytes, AfterRead, peerVars, connVars,
       httpVars, End
<1>25. ASSUME UpWrite, UNCHANGED httpVars PROVE MarkInv'
  BY <1>25 DEF UpWrite, Hold, peerVars, connVars, httpVars, End
<1>26. ASSUME UpEnds, UNCHANGED httpVars PROVE MarkInv'
  BY <1>26 DEF UpEnds, Hold, ReadEnds, peerVars, connVars, httpVars, End
<1>27. ASSUME UpSets, UNCHANGED httpVars PROVE MarkInv'
  BY <1>27 DEF UpSets, peerVars, connVars, httpVars, End
<1>28. ASSUME UpCloses, UNCHANGED httpVars PROVE MarkInv'
  BY <1>28 DEF UpCloses, peerVars, httpVars, End
<1>29. ASSUME DownCopies, UNCHANGED httpVars PROVE MarkInv'
  BY <1>29 DEF DownCopies, peerVars, connVars, loopVars, httpVars, End
<1>30. ASSUME DownEnds, UNCHANGED httpVars PROVE MarkInv'
  BY <1>30 DEF DownEnds, peerVars, connVars, httpVars, End
<1>31. ASSUME DownSets, UNCHANGED httpVars PROVE MarkInv'
  BY <1>31 DEF DownSets, peerVars, connVars, httpVars, End
<1>32. ASSUME DownCloses, UNCHANGED httpVars PROVE MarkInv'
  BY <1>32 DEF DownCloses, peerVars, httpVars, End
<1>33. CASE UNCHANGED allVars
  BY <1>33 DEF allVars, vars, httpVars, peerVars, connVars, loopVars, End
<1> QED
  BY <1>1, <1>2, <1>3, <1>4, <1>5, <1>6, <1>7, <1>8, <1>9, <1>10, <1>11, <1>12,
     <1>13, <1>14, <1>15, <1>16, <1>17, <1>18, <1>19, <1>20, <1>21, <1>22,
     <1>23, <1>24, <1>25, <1>26, <1>27, <1>28, <1>29, <1>30, <1>31, <1>32,
     <1>33
  DEF Next, HttpStep, ForwardingNext, MonitorStep, StartStep, HandlerStep,
      UpStep, DownStep
-----------------------------------------------------------------------------
\* No bytes are the empty sequence.
LEMMA NoBytes ==
  ASSUME NEW n PROVE Bytes(n, 0) = << >>
BY DEF Bytes

\* The numbers in OrderInv.
LEMMA Sizes ==
  ASSUME TypeOK
  PROVE  /\ begin \in Nat /\ taken \in Nat /\ sent \in Nat
         /\ Len(replay) \in Nat /\ Len(received) \in Nat /\ Len(pipe.buf) \in Nat
         /\ Len(chunk["up"]) \in Nat /\ Len(chunk["monitor"]) \in Nat
         /\ Base \in Nat /\ Len(<< >>) = 0
<1>1. begin \in Nat /\ taken \in Nat /\ sent \in Nat
  BY BoundsAssumption DEF TypeOK
<1>2. /\ replay \in Seq(1..sent) /\ received \in Seq(1..sent)
      /\ pipe.buf \in Seq(1..sent) /\ chunk["up"] \in Seq(1..sent)
      /\ chunk["monitor"] \in Seq(1..sent)
  BY DEF TypeOK
<1>3. /\ Len(replay) \in Nat /\ Len(received) \in Nat /\ Len(pipe.buf) \in Nat
      /\ Len(chunk["up"]) \in Nat /\ Len(chunk["monitor"]) \in Nat
  BY <1>2, LenProperties
<1> QED
  BY <1>1, <1>3 DEF Base

\* A step that moves no bytes keeps them in order.
LEMMA OrderKept ==
  ASSUME OrderInv, UNCHANGED <<begin, received, replay, taken, chunk>>,
         pipe'.buf = pipe.buf, up' = "off" <=> up = "off",
         handler' = "http" => handler = "http", Flowing' => Flowing
  PROVE  OrderInv'
<1>1. Base' = Base
  BY DEF Base
<1> QED
  BY <1>1 DEF OrderInv

\* The HTTP server forwards no bytes.
LEMMA OrderHttp ==
  ASSUME TypeOK, HttpInv, PlaceInv, OrderInv, handler = "http",
         handler' = "http", UNCHANGED <<received, replay, up>>
  PROVE  OrderInv'
<1>1. received = << >> /\ replay = << >> /\ ~Flowing'
  BY DEF PlaceInv, OrderInv, Flowing
<1>2. Len(<< >>) = 0
  OBVIOUS
<1>3. << >> = Bytes(begin', 0)
  BY NoBytes
<1> QED
  BY <1>1, <1>2, <1>3 DEF OrderInv
-----------------------------------------------------------------------------
\* Every step keeps the bytes together and in order.
LEMMA OrderPreserved ==
  ASSUME TypeOK, HttpInv, PlaceInv, PipeInv, CloseInv, MarkInv, OrderInv, [Next]_allVars
  PROVE  OrderInv'
<1>1. ASSUME ClientSends PROVE OrderInv'
  <2>1. UNCHANGED <<begin, received, replay, taken, chunk, pipe, up, handler, service>>
    BY <1>1 DEF ClientSends, loopVars, httpVars
  <2> QED
    BY <2>1, OrderKept DEF Flowing
<1>2. ASSUME Fill PROVE OrderInv'
  <2>1. handler = "http" /\ handler' = "http" /\ UNCHANGED <<received, replay, up>>
    BY <1>2 DEF HttpInv, Fill, Reading, loopVars
  <2> QED
    BY <2>1, OrderHttp
<1>3. ASSUME HttpEnds PROVE OrderInv'
  <2>1. handler = "http" /\ handler' = "http" /\ UNCHANGED <<received, replay, up>>
    BY <1>3 DEF HttpInv, HttpEnds, Reading, loopVars
  <2> QED
    BY <2>1, OrderHttp
<1>4. ASSUME ReadHeader PROVE OrderInv'
  <2>1. handler = "http" /\ handler' = "http" /\ UNCHANGED <<received, replay, up>>
    BY <1>4 DEF HttpInv, ReadHeader, OnlyHttp, loopVars, vars
  <2> QED
    BY <2>1, OrderHttp
<1>5. ASSUME ReadBody PROVE OrderInv'
  <2>1. handler = "http" /\ handler' = "http" /\ UNCHANGED <<received, replay, up>>
    BY <1>5 DEF HttpInv, ReadBody, Consume, OnlyHttp, loopVars, vars
  <2> QED
    BY <2>1, OrderHttp
<1>6. ASSUME Reject PROVE OrderInv'
  <2>1. handler = "http" /\ handler' = "http" /\ UNCHANGED <<received, replay, up>>
    BY <1>6 DEF HttpInv, Reject, OnlyHttp, loopVars, vars
  <2> QED
    BY <2>1, OrderHttp
<1>7. ASSUME AnswerLocally PROVE OrderInv'
  <2>1. handler = "http" /\ handler' = "http" /\ UNCHANGED <<received, replay, up>>
    BY <1>7 DEF HttpInv, AnswerLocally, OnlyHttp, loopVars, vars
  <2> QED
    BY <2>1, OrderHttp
<1>8. ASSUME DropBody PROVE OrderInv'
  <2>1. handler = "http" /\ handler' = "http" /\ UNCHANGED <<received, replay, up>>
    BY <1>8 DEF HttpInv, DropBody, Consume, OnlyHttp, loopVars, vars
  <2> QED
    BY <2>1, OrderHttp
<1>9. ASSUME Answered PROVE OrderInv'
  <2>1. handler = "http" /\ handler' = "http" /\ UNCHANGED <<received, replay, up>>
    BY <1>9 DEF HttpInv, Answered, OnlyHttp, loopVars, vars
  <2> QED
    BY <2>1, OrderHttp
<1>10. ASSUME Hijack PROVE OrderInv'
  <2>1. /\ http = "body" /\ handler = "http" /\ handler' = "accepted"
        /\ replay' = Bytes(mark, taken - mark)
        /\ UNCHANGED <<begin, taken, received, chunk, pipe, up>>
    BY <1>10 DEF HttpInv, Hijack, loopVars
  <2>2. /\ received = << >> /\ chunk["up"] = << >> /\ chunk["monitor"] = << >>
        /\ pipe.buf = << >> /\ up = "off"
    BY <2>1 DEF PlaceInv, PipeInv, OrderInv
  <2>3. mark = begin /\ taken - begin \in Nat /\ begin + (taken - begin) = taken
    BY <2>1, Sizes DEF MarkInv, TypeOK
  <2>4. Len(replay') = taken - begin /\ replay' = Bytes(begin, taken - begin)
    BY <2>1, <2>3, BytesType, Sizes
  <2>5. Base' = taken
    BY <2>1, <2>2, <2>3, <2>4 DEF Base
  <2>6. \A n : Bytes(n, 0) = << >>
    BY NoBytes
  <2> QED
    BY <2>1, <2>2, <2>3, <2>4, <2>5, <2>6, Sizes DEF OrderInv
<1>11. ASSUME ClientEnds, UNCHANGED httpVars PROVE OrderInv'
  BY <1>11, OrderKept DEF ClientEnds, connVars, loopVars, httpVars, Flowing
<1>12. ASSUME ServiceReplies, UNCHANGED httpVars PROVE OrderInv'
  BY <1>12, OrderKept DEF ServiceReplies, connVars, loopVars, httpVars, Flowing
<1>13. ASSUME ServiceEnds, UNCHANGED httpVars PROVE OrderInv'
  BY <1>13, OrderKept DEF ServiceEnds, connVars, loopVars, httpVars, Flowing
<1>14. ASSUME Accepted, UNCHANGED httpVars PROVE OrderInv'
  BY <1>14, OrderKept DEF Accepted, peerVars, connVars, loopVars, httpVars,
       Flowing
<1>15. ASSUME MonitorRead, UNCHANGED httpVars PROVE OrderInv'
  <2>1. PICK n \in 1..Unread :
            taken' = taken + n /\ Hold("monitor", Bytes(taken, n))
    BY <1>15 DEF MonitorRead
  <2>2. /\ monitor = "read" /\ chunk["monitor"] = << >>
        /\ UNCHANGED <<begin, received, replay, pipe, up, handler, service>>
    BY <1>15 DEF MonitorRead, PipeInv, peerVars, loopVars, httpVars
  <2>3. n \in Nat /\ taken + n <= sent
    BY <2>1, Sizes DEF Unread
  <2>4. /\ chunk'["monitor"] = Bytes(taken, n) /\ chunk'["up"] = chunk["up"]
        /\ Len(Bytes(taken, n)) = n
    BY <2>1, <2>3, BytesType, Sizes DEF Hold, TypeOK
  <2>5. Base' = Base /\ (Flowing' => Flowing)
    BY <2>2 DEF Base, Flowing
  <2>6. Flowing => Base + Len(chunk["up"]) + Len(pipe.buf) = taken
    BY <2>2, Sizes DEF OrderInv
  <2> QED
    BY <2>1, <2>2, <2>3, <2>4, <2>5, <2>6, Sizes DEF OrderInv
<1>16. ASSUME MonitorWrite, UNCHANGED httpVars PROVE OrderInv'
  <2>1. /\ pipe \in Pipes(1..sent) /\ chunk["monitor"] \in Seq(1..sent)
    BY DEF TypeOK, Pipes
  <2>2. /\ pipe' = AfterWrite(pipe, chunk["monitor"])
        /\ chunk' = [chunk EXCEPT !["monitor"] = << >>]
        /\ UNCHANGED <<begin, received, replay, taken, up, handler, service>>
    BY <1>16 DEF MonitorWrite, Hold, peerVars, loopVars, httpVars
  <2>3. /\ AfterWrite(pipe, chunk["monitor"]).buf = pipe.buf \o chunk["monitor"]
        /\ Len(AfterWrite(pipe, chunk["monitor"]).buf)
              = Len(pipe.buf) + Len(chunk["monitor"])
        /\ AfterWrite(pipe, chunk["monitor"]).closed = pipe.closed
    BY <2>1, PipeWrite
  <2>4. /\ pipe'.buf = pipe.buf \o chunk["monitor"]
        /\ Len(pipe'.buf) = Len(pipe.buf) + Len(chunk["monitor"])
    BY <2>2, <2>3
  <2>5. chunk'["monitor"] = << >> /\ chunk'["up"] = chunk["up"]
    BY <2>2 DEF TypeOK
  <2>6. Base' = Base /\ (Flowing' => Flowing)
    BY <2>2, <2>3 DEF Base, Flowing
  <2>7. ASSUME Flowing PROVE pipe'.buf = Bytes(Base + Len(chunk["up"]), Len(pipe'.buf))
    <3> DEFINE a == Base + Len(chunk["up"])
               b == Len(pipe.buf)
               m == Len(chunk["monitor"])
    <3>1. a \in Nat /\ b \in Nat /\ m \in Nat
      BY Sizes
    <3>2. pipe.buf = Bytes(a, b) /\ chunk["monitor"] = Bytes(a + b, m)
      BY <2>7 DEF OrderInv
    <3> HIDE DEF a, b, m
    <3>3. Bytes(a, b) \o Bytes(a + b, m) = Bytes(a, b + m)
      BY <3>1, BytesAppend
    <3>4. pipe'.buf = Bytes(a, b + m)
      BY <2>4, <3>2, <3>3
    <3> QED
      BY <2>4, <3>4 DEF a, b, m
  <2>8. /\ chunk'["monitor"] = Bytes(Base + Len(chunk["up"]) + Len(pipe'.buf), 0)
        /\ Len(chunk'["monitor"]) = 0
    BY <2>5, NoBytes, Sizes
  <2>9. ASSUME Flowing
        PROVE  Base + Len(chunk["up"]) + Len(pipe'.buf) + 0 = taken
    <3> DEFINE b == Len(pipe.buf)
               m == Len(chunk["monitor"])
               a == Base + Len(chunk["up"])
    <3>1. a + b + m = taken /\ a \in Nat /\ b \in Nat /\ m \in Nat
      BY <2>9, Sizes DEF OrderInv
    <3>2. Len(pipe'.buf) = b + m
      BY <2>4
    <3> HIDE DEF a, b, m
    <3>3. a + (b + m) + 0 = taken
      BY <3>1
    <3>4. a + Len(pipe'.buf) + 0 = taken
      BY <3>2, <3>3
    <3> QED
      BY <3>4 DEF a
  <2> QED
    BY <2>2, <2>5, <2>6, <2>7, <2>8, <2>9 DEF OrderInv
<1>17. ASSUME MonitorEnds, UNCHANGED httpVars PROVE OrderInv'
  <2>1. pipe \in Pipes(1..sent)
    BY DEF TypeOK, Pipes
  <2>2. /\ pipe' = CloseWrite(pipe) /\ chunk' = [chunk EXCEPT !["monitor"] = << >>]
        /\ monitor = "write" => pipe.closed
        /\ UNCHANGED <<begin, received, replay, taken, up, handler, service>>
    BY <1>17 DEF MonitorEnds, Hold, WriteFails, peerVars, loopVars, httpVars
  <2>3. pipe'.buf = pipe.buf /\ pipe'.closed = pipe.closed
    BY <2>1, <2>2, PipeClose
  <2>4. CASE chunk["monitor"] = << >>
    <3>1. chunk' = chunk
      BY <2>2, <2>4 DEF TypeOK
    <3> QED
      BY <2>2, <2>3, <3>1, OrderKept DEF Flowing
  <2>5. CASE chunk["monitor"] # << >>
    <3>1. ~Flowing'
      BY <2>2, <2>3, <2>5 DEF PipeInv, Flowing
    <3> QED
      BY <2>2, <3>1 DEF OrderInv
  <2> QED
    BY <2>4, <2>5
<1>18. ASSUME StartOk, UNCHANGED httpVars PROVE OrderInv'
  BY <1>18, OrderKept DEF StartOk, peerVars, loopVars, httpVars, Flowing
<1>19. ASSUME StartFails, UNCHANGED httpVars PROVE OrderInv'
  BY <1>19, OrderKept DEF StartFails, peerVars, loopVars, httpVars, Flowing
<1>20. ASSUME ReplayOk, UNCHANGED httpVars PROVE OrderInv'
  <2>1. /\ handler = "replay" /\ handler' = "forward" /\ up = "off" /\ up' = "read"
        /\ received' = received \o replay
        /\ UNCHANGED <<begin, replay, taken, chunk, pipe, service>>
    BY <1>20 DEF ReplayOk, PlaceInv, peerVars, httpVars
  <2>2. received = << >> /\ replay \in Seq(1..sent)
    BY <2>1 DEF OrderInv, TypeOK
  <2>3. received' = replay
    BY <2>1, <2>2, ConcatEmptySeq
  <2>4. Base' = Base /\ (Flowing' => Flowing)
    BY <2>1, <2>3 DEF Base, Flowing
  <2> QED
    BY <2>1, <2>3, <2>4 DEF OrderInv
<1>21. ASSUME ReplayFails, UNCHANGED httpVars PROVE OrderInv'
  BY <1>21, OrderKept DEF ReplayFails, peerVars, loopVars, httpVars, Flowing
<1>22. ASSUME Forwarded, UNCHANGED httpVars PROVE OrderInv'
  BY <1>22, OrderKept DEF Forwarded, peerVars, connVars, loopVars, httpVars,
       Flowing
<1>23. ASSUME Return, UNCHANGED httpVars PROVE OrderInv'
  <2>1. pipe \in Pipes(1..sent)
    BY DEF TypeOK, Pipes
  <2>2. pipe' = CloseRead(pipe)
    BY <1>23 DEF Return
  <2>3. pipe'.buf = pipe.buf /\ pipe'.closed
    BY <2>1, <2>2, PipeClose
  <2> QED
    BY <1>23, <2>3, OrderKept
       DEF Return, Flowing, peerVars, connVars, loopVars, httpVars
<1>24. ASSUME UpRead, UNCHANGED httpVars PROVE OrderInv'
  <2>1. PICK n \in 1..MaxChunk : /\ CanRead(pipe, n)
                                 /\ Hold("up", ReadBytes(pipe, n))
                                 /\ pipe' = AfterRead(pipe, n)
    BY <1>24 DEF UpRead
  <2>2. /\ pipe \in Pipes(1..sent) /\ n \in 1..Len(pipe.buf)
        /\ ReadBytes(pipe, n) = SubSeq(pipe.buf, 1, n)
    BY <2>1 DEF CanRead, Pipes, TypeOK, ReadBytes
  <2>3. /\ Len(ReadBytes(pipe, n)) = n
        /\ AfterRead(pipe, n).buf = SubSeq(pipe.buf, n + 1, Len(pipe.buf))
        /\ Len(AfterRead(pipe, n).buf) = Len(pipe.buf) - n
        /\ AfterRead(pipe, n).closed = pipe.closed
    BY <2>2, PipeRead
  <2>4. /\ up = "read" /\ up' = "write" /\ chunk["up"] = << >>
        /\ UNCHANGED <<begin, received, replay, taken, handler, service>>
    BY <1>24 DEF UpRead, PipeInv, peerVars, httpVars
  <2>5. /\ chunk'["up"] = SubSeq(pipe.buf, 1, n) /\ Len(chunk'["up"]) = n
        /\ chunk'["monitor"] = chunk["monitor"]
        /\ pipe'.buf = SubSeq(pipe.buf, n + 1, Len(pipe.buf))
        /\ Len(pipe'.buf) = Len(pipe.buf) - n
    BY <2>1, <2>2, <2>3 DEF Hold, TypeOK
  <2>6. Base' = Base /\ (Flowing' => Flowing)
    BY <2>1, <2>3, <2>4 DEF Base, Flowing
  <2>7. ASSUME Flowing
        PROVE  /\ chunk'["up"] = Bytes(Base, n)
               /\ pipe'.buf = Bytes(Base + n, Len(pipe.buf) - n)
    <3> DEFINE a == Base
               b == Len(pipe.buf)
    <3>1. a \in Nat /\ b \in Nat /\ n \in 1..b /\ a + 0 = a /\ Len(<< >>) = 0
      BY <2>2, Sizes
    <3>2. pipe.buf = Bytes(a, b)
      BY <2>4, <2>7, <3>1 DEF OrderInv
    <3> HIDE DEF a, b
    <3>3. /\ SubSeq(Bytes(a, b), 1, n) = Bytes(a, n)
          /\ SubSeq(Bytes(a, b), n + 1, b) = Bytes(a + n, b - n)
      BY <3>1, BytesSplit
    <3>4. Len(pipe.buf) = b
      BY DEF b
    <3>5. chunk'["up"] = Bytes(a, n) /\ pipe'.buf = Bytes(a + n, b - n)
      BY <2>5, <3>2, <3>3, <3>4
    <3> QED
      BY <3>5 DEF a, b
  <2>8. n \in Nat /\ Base + n + (Len(pipe.buf) - n) = Base + 0 + Len(pipe.buf)
    BY <2>2, Sizes
  <2>9. ASSUME Flowing
        PROVE  /\ chunk["monitor"] =
                     Bytes(Base + n + (Len(pipe.buf) - n), Len(chunk["monitor"]))
               /\ Base + n + (Len(pipe.buf) - n) + Len(chunk["monitor"]) = taken
    BY <2>4, <2>8, <2>9, Sizes DEF OrderInv
  <2> QED
    BY <2>4, <2>5, <2>6, <2>7, <2>9 DEF OrderInv
<1>25. ASSUME UpWrite, UNCHANGED httpVars PROVE OrderInv'
  <2>1. /\ up = "write" /\ up' = "read" /\ received' = received \o chunk["up"]
        /\ chunk' = [chunk EXCEPT !["up"] = << >>]
        /\ UNCHANGED <<begin, replay, taken, pipe, handler, service>>
    BY <1>25 DEF UpWrite, Hold, peerVars, httpVars
  <2>2. chunk'["up"] = << >> /\ chunk'["monitor"] = chunk["monitor"]
    BY <2>1 DEF TypeOK
  <2>3. Flowing /\ Base = begin + Len(received)
    BY <2>1 DEF Flowing, Base, PlaceInv, PipeInv, HttpInv
  <2>4. /\ received' = Bytes(begin, Len(received) + Len(chunk["up"]))
        /\ Len(received') = Len(received) + Len(chunk["up"])
    <3> DEFINE r == Len(received)
               m == Len(chunk["up"])
    <3>1. begin \in Nat /\ r \in Nat /\ m \in Nat
      BY Sizes
    <3>2. received = Bytes(begin, r) /\ chunk["up"] = Bytes(begin + r, m)
      BY <2>3 DEF OrderInv
    <3>3. /\ received \in Seq(1..sent) /\ chunk["up"] \in Seq(1..sent)
      BY DEF TypeOK
    <3>4. Len(received \o chunk["up"]) = r + m
      BY <3>3, ConcatProperties
    <3> HIDE DEF r, m
    <3>5. Bytes(begin, r) \o Bytes(begin + r, m) = Bytes(begin, r + m)
      BY <3>1, BytesAppend
    <3>6. received' = Bytes(begin, r + m) /\ Len(received') = r + m
      BY <2>1, <3>2, <3>4, <3>5
    <3> QED
      BY <3>6 DEF r, m
  <2>5. Base' = Base + Len(chunk["up"]) /\ Base' + 0 = Base + Len(chunk["up"])
    <3>1. Base' = begin + Len(received')
      BY <2>1 DEF Base
    <3> QED
      BY <2>3, <2>4, <3>1, Sizes
  <2>6. Len(chunk'["up"]) = 0 /\ chunk'["up"] = Bytes(Base', 0)
    BY <2>2, NoBytes, Sizes
  <2>7. /\ pipe.buf = Bytes(Base' + 0, Len(pipe.buf))
        /\ chunk["monitor"] =
              Bytes(Base' + 0 + Len(pipe.buf), Len(chunk["monitor"]))
        /\ Base' + 0 + Len(pipe.buf) + Len(chunk["monitor"]) = taken
    BY <2>3, <2>5 DEF OrderInv
  <2>8. replay = Bytes(begin, Len(replay)) /\ up' # "off" /\ handler # "http"
    BY <2>1, <2>3 DEF OrderInv, Flowing
  <2> QED
    BY <2>1, <2>2, <2>4, <2>6, <2>7, <2>8 DEF OrderInv
<1>26. ASSUME UpEnds, UNCHANGED httpVars PROVE OrderInv'
  <2>1. /\ up \in {"read", "write"} /\ up' \in {"set", "close"}
        /\ chunk' = [chunk EXCEPT !["up"] = << >>]
        /\ up = "write" => serviceConn = "closed" \/ service = "ended"
        /\ UNCHANGED <<begin, received, replay, taken, pipe, handler, service>>
    BY <1>26 DEF UpEnds, Hold, peerVars, httpVars
  <2>2. CASE chunk["up"] = << >>
    <3>1. chunk' = chunk
      BY <2>1, <2>2 DEF TypeOK
    <3> QED
      BY <2>1, <3>1, OrderKept DEF Flowing
  <2>3. CASE chunk["up"] # << >>
    <3>1. ~Flowing'
      BY <2>1, <2>3 DEF PipeInv, CloseInv, Flowing
    <3> QED
      BY <2>1, <3>1 DEF OrderInv
  <2> QED
    BY <2>2, <2>3
<1>27. ASSUME UpSets, UNCHANGED httpVars PROVE OrderInv'
  BY <1>27, OrderKept DEF UpSets, peerVars, connVars, httpVars, Flowing
<1>28. ASSUME UpCloses, UNCHANGED httpVars PROVE OrderInv'
  BY <1>28, OrderKept DEF UpCloses, peerVars, httpVars, Flowing
<1>29. ASSUME DownCopies, UNCHANGED httpVars PROVE OrderInv'
  BY <1>29, OrderKept DEF DownCopies, peerVars, connVars, loopVars, httpVars,
       Flowing
<1>30. ASSUME DownEnds, UNCHANGED httpVars PROVE OrderInv'
  BY <1>30, OrderKept DEF DownEnds, peerVars, connVars, httpVars, Flowing
<1>31. ASSUME DownSets, UNCHANGED httpVars PROVE OrderInv'
  BY <1>31, OrderKept DEF DownSets, peerVars, connVars, httpVars, Flowing
<1>32. ASSUME DownCloses, UNCHANGED httpVars PROVE OrderInv'
  BY <1>32, OrderKept DEF DownCloses, peerVars, httpVars, Flowing
<1>33. CASE UNCHANGED allVars
  <2>1. UNCHANGED <<begin, received, replay, taken, chunk, pipe, up, handler, service>>
    BY <1>33 DEF allVars, vars, peerVars, loopVars, httpVars
  <2> QED
    BY <2>1, OrderKept DEF Flowing
<1> QED
  BY <1>1, <1>2, <1>3, <1>4, <1>5, <1>6, <1>7, <1>8, <1>9, <1>10, <1>11, <1>12,
     <1>13, <1>14, <1>15, <1>16, <1>17, <1>18, <1>19, <1>20, <1>21, <1>22,
     <1>23, <1>24, <1>25, <1>26, <1>27, <1>28, <1>29, <1>30, <1>31, <1>32,
     <1>33
  DEF Next, HttpStep, ForwardingNext, MonitorStep, StartStep, HandlerStep,
      UpStep, DownStep
-----------------------------------------------------------------------------
\* The connection to the service is closed by the copy to it, or by
\* handleConnection because the service did not take the replay.
Closing == \/ serviceConn' \in {serviceConn, "open"}
           \/ UpCloses \/ ReplayFails

\* No other step closes it.
LEMMA WhoCloses ==
  ASSUME [Next]_allVars
  PROVE  Closing
<1> USE DEF Closing
<1>1. ASSUME ClientSends PROVE Closing
  BY <1>1 DEF ClientSends, Allowance, connVars, loopVars, httpVars
<1>2. ASSUME Fill PROVE Closing
  BY <1>2 DEF Fill, Unread, Reading, peerVars, connVars, loopVars, httpVars
<1>3. ASSUME HttpEnds PROVE Closing
  BY <1>3 DEF HttpEnds, Unread, Reading, peerVars, loopVars
<1>4. ASSUME ReadHeader PROVE Closing
  BY <1>4 DEF ReadHeader, OnlyHttp, peerVars, connVars, loopVars, vars
<1>5. ASSUME ReadBody PROVE Closing
  BY <1>5 DEF ReadBody, Consume, OnlyHttp, peerVars, connVars, loopVars, vars
<1>6. ASSUME Reject PROVE Closing
  BY <1>6 DEF Reject, Reset, OnlyHttp, peerVars, connVars, loopVars, vars
<1>7. ASSUME AnswerLocally PROVE Closing
  BY <1>7 DEF AnswerLocally, Reset, OnlyHttp, peerVars, connVars, loopVars,
       vars
<1>8. ASSUME DropBody PROVE Closing
  BY <1>8 DEF DropBody, Consume, OnlyHttp, peerVars, connVars, loopVars, vars
<1>9. ASSUME Answered PROVE Closing
  BY <1>9 DEF Answered, OnlyHttp, peerVars, connVars, loopVars, vars
<1>10. ASSUME Hijack PROVE Closing
  BY <1>10 DEF Hijack, peerVars, connVars, loopVars
<1>11. ASSUME ClientEnds, UNCHANGED httpVars PROVE Closing
  BY <1>11 DEF ClientEnds, connVars, loopVars, httpVars
<1>12. ASSUME ServiceReplies, UNCHANGED httpVars PROVE Closing
  BY <1>12 DEF ServiceReplies, connVars, loopVars, httpVars
<1>13. ASSUME ServiceEnds, UNCHANGED httpVars PROVE Closing
  BY <1>13 DEF ServiceEnds, connVars, loopVars, httpVars
<1>14. ASSUME Accepted, UNCHANGED httpVars PROVE Closing
  BY <1>14 DEF Accepted, peerVars, connVars, loopVars, httpVars
<1>15. ASSUME MonitorRead, UNCHANGED httpVars PROVE Closing
  BY <1>15 DEF MonitorRead, Unread, Hold, peerVars, connVars, loopVars,
       httpVars
<1>16. ASSUME MonitorWrite, UNCHANGED httpVars PROVE Closing
  BY <1>16 DEF MonitorWrite, Hold, CanWrite, HasRoom, AfterWrite, peerVars,
       connVars, loopVars, httpVars
<1>17. ASSUME MonitorEnds, UNCHANGED httpVars PROVE Closing
  BY <1>17 DEF MonitorEnds, Unread, Hold, WriteFails, CloseWrite, peerVars,
       connVars, loopVars, httpVars
<1>18. ASSUME StartOk, UNCHANGED httpVars PROVE Closing
  BY <1>18 DEF StartOk, peerVars, loopVars, httpVars
<1>19. ASSUME StartFails, UNCHANGED httpVars PROVE Closing
  BY <1>19 DEF StartFails, peerVars, loopVars, httpVars
<1>20. ASSUME ReplayOk, UNCHANGED httpVars PROVE Closing
  BY <1>20 DEF ReplayOk, peerVars, connVars, httpVars
<1>21. ASSUME ReplayFails, UNCHANGED httpVars PROVE Closing
  BY <1>21
<1>22. ASSUME Forwarded, UNCHANGED httpVars PROVE Closing
  BY <1>22 DEF Forwarded, peerVars, connVars, loopVars, httpVars
<1>23. ASSUME Return, UNCHANGED httpVars PROVE Closing
  BY <1>23 DEF Return, CloseRead, peerVars, connVars, loopVars, httpVars
<1>24. ASSUME UpRead, UNCHANGED httpVars PROVE Closing
  BY <1>24 DEF UpRead, Hold, CanRead, ReadBytes, AfterRead, peerVars, connVars,
       httpVars
<1>25. ASSUME UpWrite, UNCHANGED httpVars PROVE Closing
  BY <1>25 DEF UpWrite, Hold, peerVars, connVars, httpVars
<1>26. ASSUME UpEnds, UNCHANGED httpVars PROVE Closing
  BY <1>26 DEF UpEnds, Hold, ReadEnds, peerVars, connVars, httpVars
<1>27. ASSUME UpSets, UNCHANGED httpVars PROVE Closing
  BY <1>27 DEF UpSets, peerVars, connVars, httpVars
<1>28. ASSUME UpCloses, UNCHANGED httpVars PROVE Closing
  BY <1>28
<1>29. ASSUME DownCopies, UNCHANGED httpVars PROVE Closing
  BY <1>29 DEF DownCopies, peerVars, connVars, loopVars, httpVars
<1>30. ASSUME DownEnds, UNCHANGED httpVars PROVE Closing
  BY <1>30 DEF DownEnds, peerVars, connVars, httpVars
<1>31. ASSUME DownSets, UNCHANGED httpVars PROVE Closing
  BY <1>31 DEF DownSets, peerVars, connVars, httpVars
<1>32. ASSUME DownCloses, UNCHANGED httpVars PROVE Closing
  BY <1>32 DEF DownCloses, peerVars, httpVars
<1>33. CASE UNCHANGED allVars
  BY <1>33 DEF allVars, vars, httpVars, peerVars, connVars, loopVars
<1> QED
  BY <1>1, <1>2, <1>3, <1>4, <1>5, <1>6, <1>7, <1>8, <1>9, <1>10, <1>11, <1>12,
     <1>13, <1>14, <1>15, <1>16, <1>17, <1>18, <1>19, <1>20, <1>21, <1>22,
     <1>23, <1>24, <1>25, <1>26, <1>27, <1>28, <1>29, <1>30, <1>31, <1>32,
     <1>33
  DEF Next, HttpStep, ForwardingNext, MonitorStep, StartStep, HandlerStep,
      UpStep, DownStep
-----------------------------------------------------------------------------
\* When it is closed while all is in good order, everything was delivered.
LEMMA WholeAtClose ==
  ASSUME ControlInv, StreamInv, [Next]_allVars,
         serviceConn = "open", serviceConn' = "closed",
         client = "finished", service = "open", clientConn = "open"
  PROVE  received = Bytes(begin, sent - begin)
<1>1. up = "close"
  BY WhoCloses DEF Closing, UpCloses, ReplayFails
<1>2. handler # "http" /\ ~pipe.closed
  BY <1>1 DEF ControlInv, PlaceInv, PipeInv
<1>3. monitor = "done" /\ pipe.buf = << >> /\ taken = sent
  BY <1>1, <1>2 DEF ControlInv, DrainInv
<1>4. chunk["up"] = << >> /\ chunk["monitor"] = << >>
  BY <1>1, <1>3 DEF ControlInv, PipeInv
<1>5. Flowing
  BY <1>1, <1>2 DEF Flowing
<1>6. Base = begin + Len(received)
  BY <1>1 DEF Base
<1>7. Base + 0 + 0 + 0 = taken
  BY <1>3, <1>4, <1>5, Sizes DEF StreamInv, OrderInv, ControlInv
<1>8. Len(received) = sent - begin
  BY <1>3, <1>6, <1>7, Sizes DEF ControlInv
<1> QED
  BY <1>8 DEF StreamInv, OrderInv
-----------------------------------------------------------------------------
\* What a step may be to the stream that the service is promised.
StreamStep == Stream!StreamNext \/ UNCHANGED Stream!streamVars

\* A step that neither sends nor delivers nor ends the stream.
LEMMA StreamQuiet ==
  ASSUME UNCHANGED <<begin, sent, received>>,
         serviceConn' = "closed" <=> serviceConn = "closed"
  PROVE  StreamStep
BY DEF StreamStep, Stream!streamVars

\* A delivery of the next n bytes.
LEMMA StreamDelivers ==
  ASSUME ControlInv, StreamInv, UNCHANGED <<begin, sent>>, serviceConn = "open",
         serviceConn' = "open", NEW n \in Nat, Len(received) < n, begin + n <= sent,
         received' = Bytes(begin, n)
  PROVE  StreamStep
<1>1. n \in Len(received) + 1..sent - begin
  BY Sizes DEF ControlInv
<1>2. received' = Stream!Prefix(n)
  BY DEF Bytes, Stream!Prefix
<1>3. Stream!Deliver
  BY <1>1, <1>2 DEF Stream!Deliver
<1> QED
  BY <1>3 DEF StreamStep, Stream!StreamNext
-----------------------------------------------------------------------------
\* Every step is a step of the stream, or leaves it alone.
LEMMA StreamStepTaken ==
  ASSUME ControlInv, StreamInv, [Next]_allVars
  PROVE  StreamStep
<1>1. ASSUME ClientSends PROVE StreamStep
  <2>1. /\ UNCHANGED <<begin, received, serviceConn>>
        /\ sent' > sent /\ sent' \in Nat
    BY <1>1, Sizes DEF ClientSends, ControlInv, connVars, httpVars
  <2>2. Stream!Send
    BY <2>1 DEF Stream!Send
  <2> QED
    BY <2>2 DEF StreamStep, Stream!StreamNext
<1>2. ASSUME Fill PROVE StreamStep
  BY <1>2, StreamQuiet DEF Fill, peerVars, connVars, loopVars, httpVars
<1>3. ASSUME HttpEnds PROVE StreamStep
  BY <1>3, StreamQuiet DEF HttpEnds, peerVars, loopVars
<1>4. ASSUME ReadHeader PROVE StreamStep
  BY <1>4, StreamQuiet DEF ReadHeader, OnlyHttp, peerVars, connVars, loopVars,
       vars
<1>5. ASSUME ReadBody PROVE StreamStep
  BY <1>5, StreamQuiet DEF ReadBody, Consume, OnlyHttp, peerVars, connVars,
       loopVars, vars
<1>6. ASSUME Reject PROVE StreamStep
  BY <1>6, StreamQuiet DEF Reject, Reset, OnlyHttp, peerVars, connVars,
       loopVars, vars
<1>7. ASSUME AnswerLocally PROVE StreamStep
  BY <1>7, StreamQuiet DEF AnswerLocally, Reset, OnlyHttp, peerVars, connVars,
       loopVars, vars
<1>8. ASSUME DropBody PROVE StreamStep
  BY <1>8, StreamQuiet DEF DropBody, Consume, OnlyHttp, peerVars, connVars,
       loopVars, vars
<1>9. ASSUME Answered PROVE StreamStep
  <2>1. /\ http = "discard" /\ begin' = End /\ handler = "http"
        /\ UNCHANGED <<sent, received, serviceConn>>
    BY <1>9 DEF Answered, OnlyHttp, vars, peerVars, connVars, ControlInv, HttpInv
  <2>2. received = << >> /\ serviceConn = "none"
    BY <2>1 DEF ControlInv, PlaceInv, CloseInv, StreamInv, OrderInv
  <2>3. begin' \in Nat /\ begin' >= begin
    BY <2>1, EndType DEF ControlInv, HttpInv
  <2>4. Stream!Begin
    BY <2>1, <2>2, <2>3 DEF Stream!Begin
  <2> QED
    BY <2>4 DEF StreamStep, Stream!StreamNext
<1>10. ASSUME Hijack PROVE StreamStep
  BY <1>10, StreamQuiet DEF Hijack, peerVars, connVars, loopVars
<1>11. ASSUME ClientEnds, UNCHANGED httpVars PROVE StreamStep
  BY <1>11, StreamQuiet DEF ClientEnds, connVars, loopVars, httpVars
<1>12. ASSUME ServiceReplies, UNCHANGED httpVars PROVE StreamStep
  BY <1>12, StreamQuiet DEF ServiceReplies, connVars, loopVars, httpVars
<1>13. ASSUME ServiceEnds, UNCHANGED httpVars PROVE StreamStep
  BY <1>13, StreamQuiet DEF ServiceEnds, connVars, loopVars, httpVars
<1>14. ASSUME Accepted, UNCHANGED httpVars PROVE StreamStep
  BY <1>14, StreamQuiet DEF Accepted, peerVars, connVars, loopVars, httpVars
<1>15. ASSUME MonitorRead, UNCHANGED httpVars PROVE StreamStep
  BY <1>15, StreamQuiet DEF MonitorRead, peerVars, connVars, loopVars, httpVars
<1>16. ASSUME MonitorWrite, UNCHANGED httpVars PROVE StreamStep
  BY <1>16, StreamQuiet DEF MonitorWrite, peerVars, connVars, loopVars,
       httpVars
<1>17. ASSUME MonitorEnds, UNCHANGED httpVars PROVE StreamStep
  BY <1>17, StreamQuiet DEF MonitorEnds, peerVars, connVars, loopVars, httpVars
<1>18. ASSUME StartOk, UNCHANGED httpVars PROVE StreamStep
  <2>1. /\ serviceConn = "none" /\ serviceConn' = "open"
        /\ UNCHANGED <<begin, sent, received>>
    BY <1>18 DEF StartOk, ControlInv, CloseInv, peerVars, httpVars
  <2> QED
    BY <2>1, StreamQuiet
<1>19. ASSUME StartFails, UNCHANGED httpVars PROVE StreamStep
  BY <1>19, StreamQuiet DEF StartFails, peerVars, loopVars, httpVars
<1>20. ASSUME ReplayOk, UNCHANGED httpVars PROVE StreamStep
  <2>1. /\ up = "off" /\ handler = "replay" /\ received' = received \o replay
        /\ UNCHANGED <<begin, sent, serviceConn>>
    BY <1>20 DEF ReplayOk, ControlInv, PlaceInv, peerVars, connVars, httpVars
  <2>2. /\ received = << >> /\ replay \in Seq(1..sent) /\ serviceConn = "open"
        /\ replay = Bytes(begin, Len(replay))
    BY <2>1 DEF ControlInv, CloseInv, StreamInv, OrderInv, TypeOK
  <2>3. received' = replay
    BY <2>1, <2>2, ConcatEmptySeq
  <2>4. CASE Len(replay) = 0
    <3>1. received' = received
      BY <2>2, <2>3, <2>4, EmptySeq
    <3> QED
      BY <2>1, <3>1, StreamQuiet
  <2>5. CASE Len(replay) # 0
    <3>1. Flowing /\ Base = begin + Len(replay)
      BY <2>1 DEF Flowing, Base, ControlInv, PipeInv
    <3>2. begin + Len(replay) <= taken /\ taken <= sent
      <4> DEFINE u == Len(chunk["up"])
                 b == Len(pipe.buf)
                 m == Len(chunk["monitor"])
      <4>1. Base + u + b + m = taken
        BY <3>1 DEF StreamInv, OrderInv
      <4>2. Base \in Nat /\ u \in Nat /\ b \in Nat /\ m \in Nat /\ taken <= sent
        BY Sizes DEF ControlInv, TypeOK
      <4> HIDE DEF u, b, m
      <4>3. Base <= taken
        BY <4>1, <4>2
      <4> QED
        BY <3>1, <4>2, <4>3
    <3>3. /\ Len(received) < Len(replay) /\ begin + Len(replay) <= sent
          /\ Len(replay) \in Nat
      BY <2>2, <2>5, <3>2, Sizes DEF ControlInv
    <3>4. received' = Bytes(begin, Len(replay))
      BY <2>2, <2>3
    <3> QED
      BY <2>1, <2>2, <3>3, <3>4, StreamDelivers
  <2> QED
    BY <2>4, <2>5
<1>21. ASSUME ReplayFails, UNCHANGED httpVars PROVE StreamStep
  <2>1. /\ serviceConn = "open" /\ serviceConn' = "closed"
        /\ UNCHANGED <<begin, sent, received>>
    BY <1>21 DEF ReplayFails, ControlInv, CloseInv, peerVars, httpVars
  <2>2. Stream!End
    BY <2>1 DEF Stream!End
  <2> QED
    BY <2>2 DEF StreamStep, Stream!StreamNext
<1>22. ASSUME Forwarded, UNCHANGED httpVars PROVE StreamStep
  BY <1>22, StreamQuiet DEF Forwarded, peerVars, connVars, loopVars, httpVars
<1>23. ASSUME Return, UNCHANGED httpVars PROVE StreamStep
  BY <1>23, StreamQuiet DEF Return, peerVars, connVars, loopVars, httpVars
<1>24. ASSUME UpRead, UNCHANGED httpVars PROVE StreamStep
  BY <1>24, StreamQuiet DEF UpRead, peerVars, connVars, httpVars
<1>25. ASSUME UpWrite, UNCHANGED httpVars PROVE StreamStep
  <2> DEFINE r == Len(received)
             m == Len(chunk["up"])
  <2>1. /\ up = "write" /\ serviceConn = "open" /\ received' = received \o chunk["up"]
        /\ UNCHANGED <<begin, sent, serviceConn>>
    BY <1>25 DEF UpWrite, peerVars, connVars, httpVars
  <2>2. Flowing /\ Base = begin + r /\ chunk["up"] # << >>
    BY <2>1 DEF Flowing, Base, ControlInv, PlaceInv, PipeInv
  <2>3. /\ received = Bytes(begin, r) /\ chunk["up"] = Bytes(begin + r, m)
        /\ begin + r + m + Len(pipe.buf) + Len(chunk["monitor"]) = taken
    BY <2>2 DEF StreamInv, OrderInv
  <2>4. /\ begin \in Nat /\ r \in Nat /\ m \in Nat /\ Len(pipe.buf) \in Nat
        /\ Len(chunk["monitor"]) \in Nat /\ taken \in Nat /\ sent \in Nat
    BY Sizes DEF ControlInv
  <2>5. m # 0 /\ taken <= sent
    <3>1. chunk["up"] \in Seq(1..sent)
      BY DEF ControlInv, TypeOK
    <3>2. m # 0
      BY <2>2, <3>1, EmptySeq
    <3> QED
      BY <3>2, <2>4 DEF ControlInv, TypeOK
  <2> HIDE DEF r, m
  <2>6. Bytes(begin, r) \o Bytes(begin + r, m) = Bytes(begin, r + m)
    BY <2>4, BytesAppend
  <2>7. received' = Bytes(begin, r + m)
    BY <2>1, <2>3, <2>6
  <2>8. r + m \in Nat /\ r < r + m /\ begin + (r + m) <= sent
    <3> DEFINE b == Len(pipe.buf)
               k == Len(chunk["monitor"])
    <3>1. /\ begin + r + m + b + k = taken /\ taken <= sent /\ m # 0
          /\ begin \in Nat /\ r \in Nat /\ m \in Nat /\ b \in Nat /\ k \in Nat
          /\ taken \in Nat /\ sent \in Nat
      BY <2>3, <2>4, <2>5
    <3> HIDE DEF b, k
    <3> QED
      BY <3>1
  <2>9. Len(received) < r + m
    BY <2>8 DEF r
  <2> QED
    BY <2>1, <2>7, <2>8, <2>9, StreamDelivers
<1>26. ASSUME UpEnds, UNCHANGED httpVars PROVE StreamStep
  BY <1>26, StreamQuiet DEF UpEnds, peerVars, connVars, httpVars
<1>27. ASSUME UpSets, UNCHANGED httpVars PROVE StreamStep
  BY <1>27, StreamQuiet DEF UpSets, peerVars, connVars, httpVars
<1>28. ASSUME UpCloses, UNCHANGED httpVars PROVE StreamStep
  <2>1. /\ serviceConn = "open" /\ serviceConn' = "closed"
        /\ UNCHANGED <<begin, sent, received>>
    BY <1>28 DEF UpCloses, ControlInv, CloseInv, peerVars, httpVars
  <2>2. Stream!End
    BY <2>1 DEF Stream!End
  <2> QED
    BY <2>2 DEF StreamStep, Stream!StreamNext
<1>29. ASSUME DownCopies, UNCHANGED httpVars PROVE StreamStep
  BY <1>29, StreamQuiet DEF DownCopies, peerVars, connVars, loopVars, httpVars
<1>30. ASSUME DownEnds, UNCHANGED httpVars PROVE StreamStep
  BY <1>30, StreamQuiet DEF DownEnds, peerVars, connVars, httpVars
<1>31. ASSUME DownSets, UNCHANGED httpVars PROVE StreamStep
  BY <1>31, StreamQuiet DEF DownSets, peerVars, connVars, httpVars
<1>32. ASSUME DownCloses, UNCHANGED httpVars PROVE StreamStep
  BY <1>32, StreamQuiet DEF DownCloses, peerVars, httpVars
<1>33. CASE UNCHANGED allVars
  <2>1. UNCHANGED <<begin, sent, received, serviceConn>>
    BY <1>33 DEF allVars, vars, peerVars, connVars, httpVars
  <2> QED
    BY <2>1, StreamQuiet
<1> QED
  BY <1>1, <1>2, <1>3, <1>4, <1>5, <1>6, <1>7, <1>8, <1>9, <1>10, <1>11, <1>12,
     <1>13, <1>14, <1>15, <1>16, <1>17, <1>18, <1>19, <1>20, <1>21, <1>22,
     <1>23, <1>24, <1>25, <1>26, <1>27, <1>28, <1>29, <1>30, <1>31, <1>32,
     <1>33
  DEF Next, HttpStep, ForwardingNext, MonitorStep, StartStep, HandlerStep,
      UpStep, DownStep
-----------------------------------------------------------------------------
\* The program starts with the invariant of the control.
LEMMA InitControl ==
  ASSUME Init PROVE ControlInv
<1> USE BoundsAssumption, LimitAssumption, ScriptAssumption
<1>1. /\ sent = 0 /\ taken = 0 /\ pipe = EmptyPipe
      /\ << >> \in Seq(1..sent) /\ Len(<< >>) = 0 /\ Len(Script) \in Nat
  BY DEF Init, ForwardingInit
<1>2. TypeOK
  BY <1>1 DEF Init, ForwardingInit, TypeOK, EmptyPipe
<1>3. HttpInv
  BY <1>1, <1>2, EndType DEF Init, ForwardingInit, HttpInv
<1>4. PlaceInv /\ PipeInv /\ CloseInv /\ DrainInv
  BY <1>1 DEF Init, ForwardingInit, PlaceInv, PipeInv, CloseInv, DrainInv, EmptyPipe
<1>5. BacklogBounded
  BY <1>1 DEF BacklogBounded, EmptyPipe
<1> QED
  BY <1>2, <1>3, <1>4, <1>5 DEF ControlInv

\* Every step keeps the invariant of the control.
LEMMA ControlStep ==
  ASSUME ControlInv, [Next]_allVars PROVE ControlInv'
BY TypePreserved, HttpPreserved, PlacePreserved, PipePreserved, ClosePreserved,
   DrainPreserved, BacklogPreserved DEF ControlInv

\* The program starts with the invariant of the bytes.
LEMMA InitStream ==
  ASSUME Init PROVE StreamInv
<1>1. /\ received = << >> /\ replay = << >> /\ begin = 0 /\ mark = 0 /\ taken = 0
      /\ pipe.buf = << >> /\ chunk["up"] = << >> /\ chunk["monitor"] = << >>
      /\ up = "off" /\ http \in {"direct", "idle"}
  BY DEF Init, ForwardingInit, EmptyPipe
<1>2. Len(<< >>) = 0 /\ Bytes(0, 0) = << >> /\ Base = 0
  BY <1>1, NoBytes DEF Base
<1> QED
  BY <1>1, <1>2 DEF StreamInv, MarkInv, ReplayIsTheRequest, OrderInv

\* If bodies are read, every step keeps the invariant of the bytes.
LEMMA StreamKept ==
  ASSUME BodiesAreRead, ControlInv, StreamInv, [Next]_allVars
  PROVE  StreamInv'
BY MarkPreserved, OrderPreserved DEF ControlInv, StreamInv

\* The invariant of the control holds of every reachable state.
THEOREM ControlInvariant == Spec => []ControlInv
BY InitControl, ControlStep, PTL DEF Spec

\* Every variable keeps its type; bytes are read after they are sent.
THEOREM TypeCorrect == Spec => []TypeOK
<1>1. ControlInv => TypeOK
  BY DEF ControlInv
<1> QED
  BY ControlInvariant, <1>1, PTL

\* The pipe holds no more than its limit or one write.
THEOREM PipeIsBounded == Spec => []BacklogBounded
<1>1. ControlInv => BacklogBounded
  BY DEF ControlInv
<1> QED
  BY ControlInvariant, <1>1, PTL

\* handleConnection returns with both connections closed and with a reason.
THEOREM ReturnsClosed == Spec => []ClosedAtReturn
<1>1. ControlInv => ClosedAtReturn
  BY DEF ControlInv, PlaceInv, CloseInv, ClosedAtReturn
<1> QED
  BY ControlInvariant, <1>1, PTL

\* If bodies are read, both invariants hold of every reachable state.
THEOREM StreamInvariant ==
  ASSUME BodiesAreRead PROVE Spec => [](ControlInv /\ StreamInv)
<1>1. Init => ControlInv /\ StreamInv
  BY InitControl, InitStream
<1>2. ControlInv /\ StreamInv /\ [Next]_allVars => (ControlInv /\ StreamInv)'
  BY ControlStep, StreamKept
<1> QED
  BY <1>1, <1>2, PTL DEF Spec

\* What is replayed to a service is the request that asked for it, whole, and
\* nothing of the requests before it, provided that no request for the list of
\* models or to an unsupported URL has a body.
THEOREM ReplaysTheRequest ==
  ASSUME BodiesAreRead PROVE Spec => []ReplayIsTheRequest
<1>1. StreamInv => ReplayIsTheRequest
  BY DEF StreamInv, MarkInv
<1> QED
  BY StreamInvariant, <1>1, PTL

\* A client that has finished has all its bytes delivered before the connection
\* to a service that has not ended is closed.
THEOREM DeliversAll ==
  ASSUME BodiesAreRead PROVE Spec => FinishedMeansDelivered
<1>1. ControlInv /\ StreamInv /\ [Next]_allVars =>
        [/\ serviceConn = "open" /\ serviceConn' = "closed"
         /\ client = "finished" /\ service = "open" /\ clientConn = "open"
         => received = Bytes(begin, sent - begin)]_allVars
  BY WholeAtClose
<1> QED
  BY StreamInvariant, <1>1, PTL DEF Spec, FinishedMeansDelivered

\* The service receives what its client sent from its request on, in order and
\* once: every step is a step of ByteStream or leaves it alone.
THEOREM StreamImplemented ==
  ASSUME BodiesAreRead PROVE Spec => ImplementsStream
<1>1. Init => Stream!StreamInit
  BY DEF Init, ForwardingInit, Stream!StreamInit
<1>2. ControlInv /\ StreamInv /\ [Next]_allVars =>
        [Stream!StreamNext]_(Stream!streamVars)
  BY StreamStepTaken DEF StreamStep
<1> QED
  BY StreamInvariant, <1>1, <1>2, PTL DEF Spec, ImplementsStream, Stream!StreamSpec
=============================================================================
