-------------------------- MODULE HttpServerProofs --------------------------
(***************************************************************************)
(* Proofs about the event loop, for every set of connections, script and   *)
(* size.  IInv is the inductive invariant: it says of every value of `op`  *)
(* what the request the thread works on looks like, and of all the other   *)
(* live requests that they are as epoll_wait finds them.                   *)
(*                                                                         *)
(* Then what the server takes from the system: memory, as server->memused  *)
(* counts it, and events, of which edge triggering reports each once.      *)
(***************************************************************************)
EXTENDS HttpServer, FiniteSums, SequenceTheorems

(* The units on their way are units of the script.                         *)
UnitsInScript ==
  \A c \in Conns :
    /\ \A j \in 1..Len(buffer[c].data) : buffer[c].data[j].r \in DOMAIN Script[c]
    /\ \A j \in 1..Len(inq[c]) : inq[c][j].r \in DOMAIN Script[c]

(* A connection not accepted yet has no request.                           *)
Fresh(c) ==
  /\ c \notin live /\ buffer[c].kind = "null" /\ written[c] = 0 /\ ~keepalive[c]
  /\ seen[c] = <<>> /\ done[c] = 0

Pending ==
  /\ \A c \in Conns : peer[c] = "none" => Fresh(c)
  /\ \A i \in 1..Len(backlog) : Fresh(backlog[i]) /\ peer[backlog[i]] # "none"
  /\ \A i, j \in 1..Len(backlog) : backlog[i] = backlog[j] => i = j

Waiting(c) ==
  /\ timeout[c] \in 1..REQUEST_TIMEOUT
  /\ \/ state[c] = "READ" /\ buffer[c].kind = "request" /\ interest[c] = "in"
     \/ /\ state[c] = "WRITE" /\ buffer[c].kind = "response" /\ interest[c] = "out"
        /\ written[c] < RESPONSE_SIZE

Busy == op \in {"read", "fill", "parse", "handle", "write"}

WorkingOn(c) ==
  /\ c \in live
  /\ op = "read" => buffer[c].kind \in {"null", "request"} /\ interest[c] = "in"
  /\ op \in {"fill", "parse"} => /\ state[c] = "READ" /\ buffer[c].kind = "request"
                                 /\ interest[c] = "in" /\ timeout[c] = REQUEST_TIMEOUT
  /\ op = "handle" => Found(c) /\ buffer[c].kind = "request" /\ timeout[c] = REQUEST_TIMEOUT
  /\ op = "write" => /\ state[c] = "WRITE" /\ buffer[c].kind = "response" /\ interest[c] = "out"

Control ==
  /\ Busy => WorkingOn(cur)
  /\ op = "rewrite" /\ cur \in live => state[cur] = "WRITE" /\ ~keepalive[cur]
  /\ again => op = "write" /\ ~keepalive[cur]
  /\ \A c \in live : (Busy /\ c = cur) \/ Waiting(c)

Events == ioReady \cup timerReady \cup timers \subseteq live

Counts ==
  \A c \in live :
    /\ seen[c] = <<>> => done[c] = 0 /\ ~keepalive[c]
    /\ seen[c] # <<>> => Len(seen[c]) = done[c] + IF buffer[c].kind = "response" THEN 1 ELSE 0

IInv == TypeOK /\ UnitsInScript /\ Pending /\ Control /\ Events /\ Counts

-----------------------------------------------------------------------------
(* The handler's actions, by the function they belong to.                  *)
AcceptSteps == AcceptStop \/ \E c \in Conns : Accept(c)
ReadSteps   == \E c \in Conns : EnterRead(c) \/ ReadBytes(c) \/ ReadEof(c) \/ ReadFails(c)
ParseSteps  == \E c \in Conns : ParseStuck(c) \/ ParseMore(c) \/ ParseDone(c) \/ Handle(c)
WriteSteps  == \E c \in Conns :
  WriteError(c) \/ WriteMore(c) \/ WriteClose(c) \/ WriteKeepAlive(c) \/ Rewrite(c)
ClientSteps == \E c \in Conns : Client(c) \/ Expire(c)

(* Next, grouped by the part of the server that takes the step.            *)
LEMMA NextSteps ==
  [Next]_vars => \/ ClientSteps \/ Wait \/ AcceptSteps \/ ReadSteps \/ ParseSteps \/ WriteSteps
                 \/ UNCHANGED vars
BY DEF Next, Handler, ClientSteps, AcceptSteps, ReadSteps, ParseSteps, WriteSteps

(* A request the parser has found is one of the script.                    *)
LEMMA ParsedType ==
  ASSUME TypeOK, UnitsInScript, NEW c \in Conns, Found(c)
  PROVE  Current(c) \in DOMAIN Script[c] /\ Parsed(c) \in Request
<1>1. buffer[c].data \in Seq(Unit) /\ Script[c] \in Seq(Request)
  BY ScriptAssumption DEF TypeOK, TypeBuffer, Buffer
<1>2. PICK j \in 1..Len(buffer[c].data) : buffer[c].data[j].r = Current(c)
  BY <1>1, LenProperties DEF Found
<1>3. Current(c) \in DOMAIN Script[c]
  BY <1>2 DEF UnitsInScript
<1> QED BY <1>1, <1>3, LenProperties, ElementOfSeq DEF Parsed

-----------------------------------------------------------------------------
(* The types, part by part.                                                *)

(* Every step leaves the thread's own variables in their types.            *)
LEMMA ThreadTyped == ASSUME TypeOK, [Next]_vars PROVE TypeThread'
<1> USE DEF TypeOK, TypeThread, TypeRequest, TypeEpoll, Ops
<1>1. CASE ClientSteps
  BY <1>1 DEF ClientSteps, Client, Connect, Send, Fin, Rst, Drain, Expire, thread
<1>2. CASE Wait
  BY <1>2 DEF Wait, WaitListen, WaitIO, WaitTimer, thread
<1>3. CASE AcceptSteps
  BY <1>3 DEF AcceptSteps, AcceptStop, Accept, Call
<1>4. CASE ReadSteps
  BY <1>4 DEF ReadSteps, EnterRead, ReadBytes, ReadEof, ReadFails, Return
<1>5. CASE ParseSteps
  BY <1>5 DEF ParseSteps, ParseStuck, ParseMore, ParseDone, Handle, Return
<1>6. CASE WriteSteps
  BY <1>6 DEF WriteSteps, WriteError, WriteMore, WriteClose, WriteKeepAlive, Rewrite, WriteSocket,
              ErrnoAfter, Return
<1>7. CASE UNCHANGED vars
  BY <1>7 DEF vars, thread
<1> QED BY <1>1, <1>2, <1>3, <1>4, <1>5, <1>6, <1>7, NextSteps

(* Every step leaves the fields of the requests in their types; the write  *)
(* offset needs that a write takes no more than what remains.              *)
LEMMA RequestTyped == ASSUME IInv, [Next]_vars PROVE TypeRequest'
<1> USE SizesAssumption DEF IInv, TypeOK, TypeRequest, TypeWire, TypeEpoll
<1>1. CASE ClientSteps
  BY <1>1 DEF ClientSteps, Client, Connect, Send, Fin, Rst, Drain, Expire, parse
<1>2. CASE WaitListen
  BY <1>2 DEF WaitListen, parse
<1>3. ASSUME NEW c \in Conns, WaitIO(c) PROVE TypeRequest'
  BY <1>3 DEF WaitIO, parse
<1>4. ASSUME NEW c \in Conns, WaitTimer(c) PROVE TypeRequest'
  <2>1. live' \subseteq Conns
    BY <1>4 DEF WaitTimer, Terminate
  <2> QED BY <1>4, <2>1 DEF WaitTimer, parse
<1>5. CASE AcceptStop
  BY <1>5 DEF AcceptStop, parse
<1>6. ASSUME NEW c \in Conns, Accept(c) PROVE TypeRequest'
  <2>1. /\ live' = live \cup {c}
        /\ timeout' = [timeout EXCEPT ![c] = REQUEST_TIMEOUT]
        /\ \E x \in {"READ", "WRITE"} : state' = [state EXCEPT ![c] = x]
        /\ UNCHANGED <<keepalive, written, phase>>
    BY <1>6 DEF Accept, parse
  <2> QED BY <2>1
<1>7. CASE ReadSteps
  <2>1. ASSUME NEW c \in Conns, EnterRead(c) PROVE TypeRequest'
    <3>1. /\ state' = [state EXCEPT ![c] = "READ"]
          /\ timeout' = [timeout EXCEPT ![c] = REQUEST_TIMEOUT]
          /\ UNCHANGED <<live, keepalive, written>>
      BY <2>1 DEF EnterRead
    <3>2. phase' = [phase EXCEPT ![c] = "head"] \/ phase' = phase
      BY <2>1 DEF EnterRead
    <3>3. phase' \in [Conns -> {"head", "body", "refused", "stuck"}]
      BY <3>2
    <3>4. REQUEST_TIMEOUT \in Int
      OBVIOUS
    <3>5. timeout' \in [Conns -> Int]
      BY <3>1, <3>4
    <3>6. state' \in [Conns -> {"INIT", "READ", "WRITE", "NOP"}]
      BY <3>1
    <3> QED BY <3>1, <3>3, <3>5, <3>6
  <2>2. ASSUME NEW c \in Conns, ReadBytes(c) PROVE TypeRequest'
    BY <2>2 DEF ReadBytes, parse
  <2>3. ASSUME NEW c \in Conns, ReadEof(c) PROVE TypeRequest'
    BY <2>3 DEF ReadEof, Terminate, parse
  <2>4. ASSUME NEW c \in Conns, ReadFails(c) PROVE TypeRequest'
    BY <2>4 DEF ReadFails, parse
  <2> QED BY <1>7, <2>1, <2>2, <2>3, <2>4 DEF ReadSteps
<1>8. CASE \E c \in Conns : ParseStuck(c) \/ ParseMore(c) \/ ParseDone(c)
  <2>1. PICK c \in Conns : ParseStuck(c) \/ ParseMore(c) \/ ParseDone(c)
    BY <1>8
  <2>2. CASE ParseStuck(c)
    <3>1. UNCHANGED phase \/ \E p \in {"stuck", "refused"} : phase' = [phase EXCEPT ![c] = p]
      BY <2>2 DEF ParseStuck
    <3>2. phase' \in [Conns -> {"head", "body", "refused", "stuck"}]
      BY <3>1
    <3> QED BY <2>2, <3>2 DEF ParseStuck
  <2> QED BY <2>1, <2>2 DEF ParseMore, ParseDone
<1>9. ASSUME NEW c \in Conns, Handle(c) PROVE TypeRequest'
  <2>1. Parsed(c).ka \in BOOLEAN
    BY <1>9, ParsedType DEF Handle, Control, Busy, WorkingOn, Request
  <2>2. keepalive' \in [Conns -> BOOLEAN]
    BY <1>9, <2>1 DEF Handle
  <2> QED BY <1>9, <2>2 DEF Handle, parse
<1>10. CASE WriteSteps
  <2>1. ASSUME NEW c \in Conns, WriteSocket(c) PROVE written' \in [Conns -> 0..RESPONSE_SIZE]
    <3>1. Taken(c) \in 0..RESPONSE_SIZE - written[c]
      BY DEF Taken, Remaining
    <3>2. written' = [written EXCEPT ![c] = @ + Taken(c)]
      BY <2>1 DEF WriteSocket
    <3> QED BY <3>1, <3>2
  <2>2. ASSUME NEW c \in Conns, WriteError(c) \/ WriteMore(c) \/ WriteClose(c) \/ WriteKeepAlive(c)
        PROVE  TypeRequest'
    <3>1. WriteSocket(c)
      BY <2>2 DEF WriteError, WriteMore, WriteClose, WriteKeepAlive
    <3>2. live' \subseteq live
      BY <2>2 DEF WriteError, WriteMore, WriteClose, WriteKeepAlive, Terminate
    <3>3. \E t \in Int : timeout' = [timeout EXCEPT ![c] = t]
      BY <2>2 DEF WriteError, WriteMore, WriteClose, WriteKeepAlive
    <3>4. state' = [state EXCEPT ![c] = "READ"] \/ UNCHANGED state
      BY <2>2 DEF WriteError, WriteMore, WriteClose, WriteKeepAlive
    <3>5. UNCHANGED <<keepalive, phase>>
      BY <3>1 DEF WriteSocket, parse
    <3> QED BY <2>1, <3>1, <3>2, <3>3, <3>4, <3>5
  <2>6. ASSUME NEW c \in Conns, Rewrite(c) PROVE TypeRequest'
    BY <2>6 DEF Rewrite, parse
  <2> QED BY <1>10, <2>2, <2>6 DEF WriteSteps
<1>11. CASE UNCHANGED vars
  BY <1>11 DEF vars, parse
<1> QED BY <1>1, <1>2, <1>3, <1>4, <1>5, <1>6, <1>7, <1>8, <1>9, <1>10, <1>11, NextSteps
        DEF Wait, AcceptSteps, ParseSteps

(* Watch keeps the types of what epoll holds.                              *)
LEMMA WatchTyped ==
  ASSUME TypeEpoll, NEW c \in Conns, NEW mask \in {"in", "out"}, Watch(c, mask)
  PROVE  /\ listenReady' \in BOOLEAN /\ ioReady' \subseteq Conns /\ timerReady' \subseteq Conns
         /\ interest' \in [Conns -> {"in", "out"}]
<1>1. interest' = [interest EXCEPT ![c] = mask] /\ UNCHANGED <<listenReady, timerReady>>
  BY DEF Watch
<1>2. ioReady' \subseteq Conns
  BY DEF Watch, TypeEpoll
<1> QED BY <1>1, <1>2 DEF TypeEpoll

(* Terminate keeps the types of what epoll holds.                          *)
LEMMA TerminateTyped ==
  ASSUME TypeEpoll, NEW c \in Conns, Terminate(c) PROVE TypeEpoll'
BY DEF TypeEpoll, Terminate

(* Every step leaves the state of epoll in its types.                      *)
LEMMA EpollTyped == ASSUME IInv, [Next]_vars PROVE TypeEpoll'
<1> USE DEF IInv, TypeOK
<1>1. CASE ClientSteps
  <2>1. ASSUME NEW c \in Conns, Client(c) PROVE TypeEpoll'
    <3>1. /\ ioReady' = ioReady \/ ioReady' = ioReady \cup {c}
          /\ listenReady' \in BOOLEAN
          /\ UNCHANGED <<timerReady, timers, interest>>
      BY <2>1 DEF Client, Connect, Send, Fin, Rst, Drain, Edge, TypeEpoll
    <3> QED BY <3>1 DEF TypeEpoll
  <2>2. ASSUME NEW c \in Conns, Expire(c) PROVE TypeEpoll'
    BY <2>2 DEF Expire, TypeEpoll
  <2> QED BY <1>1, <2>1, <2>2 DEF ClientSteps
<1>2. CASE Wait
  <2>1. CASE WaitListen BY <2>1 DEF WaitListen, TypeEpoll
  <2>2. ASSUME NEW c \in Conns, WaitIO(c) PROVE TypeEpoll' BY <2>2 DEF WaitIO, TypeEpoll
  <2>3. ASSUME NEW c \in Conns, WaitTimer(c) PROVE TypeEpoll'
    BY <2>3, TerminateTyped DEF WaitTimer, TypeEpoll
  <2> QED BY <1>2, <2>1, <2>2, <2>3 DEF Wait
<1>3. CASE AcceptSteps
  <2>1. CASE AcceptStop BY <2>1 DEF AcceptStop, epoll, TypeEpoll
  <2>2. ASSUME NEW c \in Conns, Accept(c) PROVE TypeEpoll'
    <3>1. Watch(c, "in") \/ Watch(c, "out")
      BY <2>2 DEF Accept
    <3>2. timers' \subseteq Conns
      BY <2>2 DEF Accept, TypeEpoll
    <3> QED BY <3>1, <3>2, WatchTyped DEF TypeEpoll
  <2> QED BY <1>3, <2>1, <2>2 DEF AcceptSteps
<1>4. CASE ReadSteps
  <2>1. ASSUME NEW c \in Conns, EnterRead(c) \/ ReadBytes(c) \/ ReadFails(c) PROVE TypeEpoll'
    BY <2>1 DEF EnterRead, ReadBytes, ReadFails, epoll, TypeEpoll
  <2>2. ASSUME NEW c \in Conns, ReadEof(c) PROVE TypeEpoll'
    BY <2>2, TerminateTyped DEF ReadEof
  <2> QED BY <1>4, <2>1, <2>2 DEF ReadSteps
<1>5. CASE ParseSteps
  <2>1. ASSUME NEW c \in Conns, ParseStuck(c) \/ ParseMore(c) \/ ParseDone(c) PROVE TypeEpoll'
    BY <2>1 DEF ParseStuck, ParseMore, ParseDone, epoll, TypeEpoll
  <2>2. ASSUME NEW c \in Conns, Handle(c) PROVE TypeEpoll'
    <3>1. Watch(c, "out") /\ UNCHANGED timers
      BY <2>2 DEF Handle
    <3> QED BY <3>1, WatchTyped DEF TypeEpoll
  <2> QED BY <1>5, <2>1, <2>2 DEF ParseSteps
<1>6. CASE WriteSteps
  <2>1. ASSUME NEW c \in Conns, WriteError(c) \/ WriteClose(c) PROVE TypeEpoll'
    BY <2>1, TerminateTyped DEF WriteError, WriteClose
  <2>2. ASSUME NEW c \in Conns, WriteMore(c) PROVE TypeEpoll'
    BY <2>2 DEF WriteMore, epoll, TypeEpoll
  <2>3. ASSUME NEW c \in Conns, WriteKeepAlive(c) \/ Rewrite(c) PROVE TypeEpoll'
    <3>1. (Watch(c, "in") \/ Watch(c, "out")) /\ UNCHANGED timers
      BY <2>3 DEF WriteKeepAlive, Rewrite
    <3> QED BY <3>1, WatchTyped DEF TypeEpoll
  <2> QED BY <1>6, <2>1, <2>2, <2>3 DEF WriteSteps
<1>7. CASE UNCHANGED vars
  BY <1>7 DEF vars, epoll, TypeEpoll
<1> QED BY <1>1, <1>2, <1>3, <1>4, <1>5, <1>6, <1>7, NextSteps

(* Every step leaves the buffers and memused in their types.               *)
LEMMA BufferTyped == ASSUME IInv, [Next]_vars PROVE TypeBuffer'
<1> USE DEF IInv, TypeOK
<1>0. /\ NoBuffer \in Buffer /\ ReadBuffer \in Buffer /\ ResponseBuffer \in Buffer
      /\ REQUEST_BUF_SIZE \in Int /\ RESPONSE_SIZE \in Int
  BY SizesAssumption DEF NoBuffer, ReadBuffer, ResponseBuffer, Buffer
<1>1. CASE ClientSteps
  BY <1>1 DEF ClientSteps, Client, Connect, Send, Fin, Rst, Drain, Expire, TypeBuffer
<1>2. ASSUME NEW c \in Conns, Terminate(c) PROVE TypeBuffer'
  BY <1>0, <1>2 DEF Terminate, TypeBuffer, Buffer
<1>3. CASE Wait
  BY <1>2, <1>3 DEF Wait, WaitListen, WaitIO, WaitTimer, TypeBuffer
<1>4. CASE AcceptSteps
  <2>1. CASE AcceptStop BY <2>1 DEF AcceptStop, TypeBuffer
  <2>2. ASSUME NEW c \in Conns, Accept(c) PROVE TypeBuffer'
    <3>1. \/ buffer' = [buffer EXCEPT ![c] = ResponseBuffer] /\ memused' = memused + RESPONSE_SIZE
          \/ UNCHANGED <<buffer, memused>>
      BY <2>2 DEF Accept
    <3> QED BY <1>0, <3>1 DEF TypeBuffer
  <2> QED BY <1>4, <2>1, <2>2 DEF AcceptSteps
<1>5. CASE ReadSteps
  <2>1. ASSUME NEW c \in Conns, EnterRead(c) PROVE TypeBuffer'
    <3>1. \/ buffer' = [buffer EXCEPT ![c] = ReadBuffer] /\ memused' = memused + REQUEST_BUF_SIZE
          \/ UNCHANGED <<buffer, memused>>
      BY <2>1 DEF EnterRead
    <3> QED BY <1>0, <3>1 DEF TypeBuffer
  <2>2. ASSUME NEW c \in Conns, ReadBytes(c) PROVE TypeBuffer'
    <3> DEFINE b == buffer[c]
               n == IF Len(inq[c]) < b.cap - Len(b.data) THEN Len(inq[c]) ELSE b.cap - Len(b.data)
               data == b.data \o SubSeq(inq[c], 1, n)
               cap == IF Len(data) < b.cap THEN b.cap
                      ELSE IF 2 * b.cap > MAX_REQUEST_BUF_SIZE THEN MAX_REQUEST_BUF_SIZE ELSE 2 * b.cap
    <3>1. b \in Buffer /\ b.cap \in Nat /\ b.data \in Seq(Unit) /\ inq[c] \in Seq(Unit)
      BY DEF TypeBuffer, Buffer, TypeWire
    <3>2. /\ n > 0
          /\ buffer' = [buffer EXCEPT ![c].data = data, ![c].cap = cap]
          /\ memused' = memused - b.cap + cap
      BY <2>2 DEF ReadBytes
    <3>3. n \in 1..Len(inq[c])
      BY <3>1, <3>2, LenProperties
    <3>4. data \in Seq(Unit)
      <4>1. SubSeq(inq[c], 1, n) \in Seq(Unit)
        BY <3>1, <3>3, SubSeqProperties, ElementOfSeq
      <4> QED BY <3>1, <4>1, ConcatProperties
    <3>5. cap \in Nat
      <4>1. 2 * b.cap \in Nat /\ MAX_REQUEST_BUF_SIZE \in Nat /\ b.cap \in Nat
        BY <3>1, SizesAssumption
      <4>2. cap \in {b.cap, MAX_REQUEST_BUF_SIZE, 2 * b.cap}
        OBVIOUS
      <4> HIDE DEF cap, b
      <4> QED BY <4>1, <4>2
    <3> HIDE DEF data, cap, n
    <3>6. [b EXCEPT !.data = data, !.cap = cap] \in Buffer
      BY <3>1, <3>4, <3>5 DEF Buffer
    <3>7. buffer' \in [Conns -> Buffer]
      BY <3>2, <3>6 DEF TypeBuffer
    <3> QED BY <3>1, <3>2, <3>5, <3>7 DEF TypeBuffer
  <2>3. ASSUME NEW c \in Conns, ReadEof(c) PROVE TypeBuffer'
    BY <1>2, <2>3 DEF ReadEof
  <2>4. ASSUME NEW c \in Conns, ReadFails(c) PROVE TypeBuffer'
    BY <2>4 DEF ReadFails, TypeBuffer
  <2> QED BY <1>5, <2>1, <2>2, <2>3, <2>4 DEF ReadSteps
<1>6. CASE ParseSteps
  <2>1. ASSUME NEW c \in Conns, ParseStuck(c) \/ ParseDone(c) PROVE TypeBuffer'
    BY <2>1 DEF ParseStuck, ParseDone, TypeBuffer
  <2>2. ASSUME NEW c \in Conns, ParseMore(c) PROVE TypeBuffer'
    <3>1. CASE HeadDone(c)
      <4>1. Units(Parsed(c)) \in Nat
        BY <3>1, ParsedType DEF HeadDone, Units, Request
      <4> DEFINE k == IF Units(Parsed(c)) > buffer[c].cap THEN Units(Parsed(c)) ELSE buffer[c].cap
      <4>2. k \in Nat
        BY <4>1 DEF TypeBuffer, Buffer
      <4>3. UNCHANGED memused /\ buffer' = [buffer EXCEPT ![c].cap = k]
        BY <2>2, <3>1 DEF ParseMore
      <4> HIDE DEF k
      <4>4. [buffer[c] EXCEPT !.cap = k] \in Buffer
        BY <4>2 DEF TypeBuffer, Buffer
      <4> QED BY <4>3, <4>4 DEF TypeBuffer
    <3>2. CASE ~HeadDone(c)
      BY <2>2, <3>2 DEF ParseMore, TypeBuffer
    <3> QED BY <3>1, <3>2
  <2>3. ASSUME NEW c \in Conns, Handle(c) PROVE TypeBuffer'
    <3>1. /\ buffer' = [buffer EXCEPT ![c] = ResponseBuffer]
          /\ memused' = memused + RESPONSE_SIZE - buffer[c].cap
      BY <2>3 DEF Handle
    <3>2. buffer[c].cap \in Int
      BY DEF TypeBuffer, Buffer
    <3> QED BY <1>0, <3>1, <3>2 DEF TypeBuffer
  <2> QED BY <1>6, <2>1, <2>2, <2>3 DEF ParseSteps
<1>7. CASE WriteSteps
  <2>1. ASSUME NEW c \in Conns, WriteError(c) \/ WriteClose(c) PROVE TypeBuffer'
    BY <1>2, <2>1 DEF WriteError, WriteClose
  <2>2. ASSUME NEW c \in Conns, WriteMore(c) \/ Rewrite(c) PROVE TypeBuffer'
    BY <2>2 DEF WriteMore, Rewrite, TypeBuffer
  <2>3. ASSUME NEW c \in Conns, WriteKeepAlive(c) PROVE TypeBuffer'
    <3>1. buffer' = [buffer EXCEPT ![c] = NoBuffer] /\ memused' = memused - buffer[c].cap
      BY <2>3 DEF WriteKeepAlive
    <3>2. buffer[c].cap \in Int
      BY DEF TypeBuffer, Buffer
    <3> QED BY <1>0, <3>1, <3>2 DEF TypeBuffer
  <2> QED BY <1>7, <2>1, <2>2, <2>3 DEF WriteSteps
<1>8. CASE UNCHANGED vars
  BY <1>8 DEF vars, TypeBuffer
<1> QED BY <1>1, <1>3, <1>4, <1>5, <1>6, <1>7, <1>8, NextSteps

(* Every step leaves token layouts in the token arrays.                    *)
LEMMA TokensTyped == ASSUME IInv, [Next]_vars PROVE TypeTokens'
<1> USE DEF IInv, TypeOK, TypeTokens
<1>1. CASE ClientSteps
  BY <1>1 DEF ClientSteps, Client, Connect, Send, Fin, Rst, Drain, Expire, parse
<1>2. CASE Wait
  BY <1>2 DEF Wait, WaitListen, WaitIO, WaitTimer, parse
<1>3. CASE AcceptSteps
  BY <1>3 DEF AcceptSteps, AcceptStop, Accept, parse
<1>4. CASE ReadSteps
  BY <1>4 DEF ReadSteps, EnterRead, ReadBytes, ReadEof, ReadFails, parse
<1>5. CASE ParseSteps
  <2>1. ASSUME NEW c \in Conns, ParseStuck(c) \/ ParseMore(c) \/ Handle(c) PROVE TypeTokens'
    BY <2>1 DEF ParseStuck, ParseMore, Handle, parse
  <2>2. ASSUME NEW c \in Conns, ParseDone(c) PROVE TypeTokens'
    <3> DEFINE shape == IF Shifted(c) THEN "shifted" ELSE Parsed(c).shape
    <3>1. shape \in Layouts \cup {"shifted"}
      <4>1. Parsed(c) \in Request
        BY <2>2, ParsedType DEF ParseDone, Complete, HeadDone
      <4>2. Parsed(c).shape \in Layouts
        BY <4>1 DEF Request
      <4>3. CASE Shifted(c) BY <4>3
      <4>4. CASE ~Shifted(c) BY <4>2, <4>4
      <4> QED BY <4>3, <4>4
    <3>2. tokens' = [tokens EXCEPT ![c] = Append(@, shape)]
      BY <2>2 DEF ParseDone
    <3> HIDE DEF shape
    <3>3. Append(tokens[c], shape) \in Seq(Layouts \cup {"shifted"})
      BY <3>1, AppendProperties
    <3> QED BY <3>2, <3>3
  <2> QED BY <1>5, <2>1, <2>2 DEF ParseSteps
<1>6. CASE WriteSteps
  BY <1>6 DEF WriteSteps, WriteError, WriteMore, WriteClose, WriteKeepAlive, Rewrite, WriteSocket, parse
<1>7. CASE UNCHANGED vars
  BY <1>7 DEF vars, parse
<1> QED BY <1>1, <1>2, <1>3, <1>4, <1>5, <1>6, <1>7, NextSteps

(* Every step leaves the queues of the kernel in their types.              *)
LEMMA WireTyped == ASSUME IInv, [Next]_vars PROVE TypeWire'
<1> USE DEF IInv, TypeOK
<1>1. CASE ClientSteps
  <2>1. ASSUME NEW c \in Conns, Connect(c) PROVE TypeWire'
    BY <2>1, AppendProperties DEF Connect, TypeWire
  <2>2. ASSUME NEW c \in Conns, Send(c) PROVE TypeWire'
    <3>1. next[c] \in Unit /\ inq[c] \in Seq(Unit)
      BY DEF TypeWire, TypeHist
    <3>2. Append(inq[c], next[c]) \in Seq(Unit)
      BY <3>1, AppendProperties
    <3>3. inq' = [inq EXCEPT ![c] = Append(@, next[c])] /\ UNCHANGED <<backlog, peer, serr, space>>
      BY <2>2 DEF Send
    <3> QED BY <3>2, <3>3 DEF TypeWire
  <2>3. ASSUME NEW c \in Conns, Fin(c) PROVE TypeWire'
    BY <2>3 DEF Fin, TypeWire
  <2>4. ASSUME NEW c \in Conns, Rst(c) PROVE TypeWire'
    BY <2>4 DEF Rst, TypeWire
  <2>5. ASSUME NEW c \in Conns, Drain(c) PROVE TypeWire'
    <3>1. space' = [space EXCEPT ![c] = @ + 1] /\ space[c] < SendBuffer
          /\ UNCHANGED <<backlog, inq, peer, serr>>
      BY <2>5 DEF Drain
    <3> QED BY <3>1, SizesAssumption DEF TypeWire
  <2>6. ASSUME NEW c \in Conns, Expire(c) PROVE TypeWire'
    BY <2>6 DEF Expire, wire, TypeWire
  <2> QED BY <1>1, <2>1, <2>2, <2>3, <2>4, <2>5, <2>6 DEF ClientSteps, Client
<1>2. CASE Wait
  BY <1>2 DEF Wait, WaitListen, WaitIO, WaitTimer, wire, TypeWire
<1>3. CASE AcceptSteps
  <2>1. CASE AcceptStop BY <2>1 DEF AcceptStop, wire, TypeWire
  <2>2. ASSUME NEW c \in Conns, Accept(c) PROVE TypeWire'
    <3>1. backlog # <<>> /\ backlog' = Tail(backlog) /\ UNCHANGED <<inq, peer, serr, space>>
      BY <2>2 DEF Accept
    <3> QED BY <3>1, HeadTailProperties DEF TypeWire
  <2> QED BY <1>3, <2>1, <2>2 DEF AcceptSteps
<1>4. CASE ReadSteps
  <2>1. ASSUME NEW c \in Conns, EnterRead(c) \/ ReadEof(c) PROVE TypeWire'
    BY <2>1 DEF EnterRead, ReadEof, wire, TypeWire
  <2>2. ASSUME NEW c \in Conns, ReadFails(c) PROVE TypeWire'
    BY <2>2 DEF ReadFails, TypeWire
  <2>3. ASSUME NEW c \in Conns, ReadBytes(c) PROVE TypeWire'
    <3> DEFINE b == buffer[c]
               n == IF Len(inq[c]) < b.cap - Len(b.data) THEN Len(inq[c]) ELSE b.cap - Len(b.data)
    <3>1. b \in Buffer /\ b.cap \in Nat /\ b.data \in Seq(Unit) /\ inq[c] \in Seq(Unit)
      BY DEF TypeBuffer, Buffer, TypeWire
    <3>2. /\ n > 0
          /\ inq' = [inq EXCEPT ![c] = SubSeq(@, n + 1, Len(@))]
          /\ UNCHANGED <<backlog, peer, serr, space>>
      BY <2>3 DEF ReadBytes
    <3>3. n \in 1..Len(inq[c])
      BY <3>1, <3>2, LenProperties
    <3> HIDE DEF n
    <3>4. SubSeq(inq[c], n + 1, Len(inq[c])) \in Seq(Unit)
      BY <3>1, <3>3, SubSeqProperties, ElementOfSeq, LenProperties
    <3> QED BY <3>2, <3>4 DEF TypeWire
  <2> QED BY <1>4, <2>1, <2>2, <2>3 DEF ReadSteps
<1>5. CASE ParseSteps
  BY <1>5 DEF ParseSteps, ParseStuck, ParseMore, ParseDone, Handle, wire, TypeWire
<1>6. CASE WriteSteps
  <2>1. ASSUME NEW c \in Conns, WriteSocket(c) PROVE TypeWire'
    <3>1. Taken(c) \in 0..space[c]
      <4>1. space[c] \in 0..SendBuffer /\ written[c] \in 0..RESPONSE_SIZE /\ SendBuffer \in Nat
            /\ RESPONSE_SIZE \in Nat
        BY SizesAssumption DEF TypeWire, TypeRequest
      <4> QED BY <4>1 DEF Taken, Remaining
    <3>2. /\ space' = [space EXCEPT ![c] = @ - Taken(c)]
          /\ serr' = [serr EXCEPT ![c] = IF @ = "reset" THEN "pipe" ELSE @]
          /\ UNCHANGED <<backlog, inq, peer>>
      BY <2>1 DEF WriteSocket
    <3>3. space' \in [Conns -> 0..SendBuffer]
      <4> space[c] - Taken(c) \in 0..SendBuffer
        BY <3>1, SizesAssumption DEF TypeWire
      <4> QED BY <3>2 DEF TypeWire
    <3> QED BY <3>2, <3>3 DEF TypeWire
  <2>2. ASSUME NEW c \in Conns, Rewrite(c) PROVE TypeWire'
    BY <2>2 DEF Rewrite, wire, TypeWire
  <2> QED BY <1>6, <2>1, <2>2 DEF WriteSteps, WriteError, WriteMore, WriteClose, WriteKeepAlive
<1>7. CASE UNCHANGED vars
  BY <1>7 DEF vars, wire, TypeWire
<1> QED BY <1>1, <1>2, <1>3, <1>4, <1>5, <1>6, <1>7, NextSteps

(* Every step leaves the histories in their types.                         *)
LEMMA HistTyped == ASSUME IInv, [Next]_vars PROVE TypeHist'
<1> USE DEF IInv, TypeOK
<1>1. CASE ClientSteps
  <2>1. ASSUME NEW c \in Conns, Send(c) PROVE TypeHist'
    <3> DEFINE r == next[c].r
               i == next[c].i
               u == IF i < Units(Script[c][r]) THEN [r |-> r, i |-> i + 1] ELSE [r |-> r + 1, i |-> 1]
    <3>1. next' = [next EXCEPT ![c] = u] /\ UNCHANGED <<seen, done, uncounted>>
      BY <2>1 DEF Send
    <3>2. r \in Nat \ {0} /\ i \in Nat \ {0}
      BY DEF TypeHist, Unit
    <3>3. u \in Unit
      <4> HIDE DEF r, i
      <4>1. [r |-> r, i |-> i + 1] \in Unit /\ [r |-> r + 1, i |-> 1] \in Unit
        BY <3>2 DEF Unit
      <4> QED BY <4>1
    <3> HIDE DEF u
    <3> QED BY <3>1, <3>3 DEF TypeHist
  <2>2. ASSUME NEW c \in Conns, Connect(c) \/ Fin(c) \/ Rst(c) \/ Drain(c) \/ Expire(c)
        PROVE  TypeHist'
    BY <2>2 DEF Connect, Fin, Rst, Drain, Expire, hist, TypeHist
  <2> QED BY <1>1, <2>1, <2>2 DEF ClientSteps, Client
<1>2. CASE Wait
  BY <1>2 DEF Wait, WaitListen, WaitIO, WaitTimer, hist, TypeHist
<1>3. CASE AcceptSteps
  BY <1>3 DEF AcceptSteps, AcceptStop, Accept, hist, TypeHist
<1>4. CASE ReadSteps
  BY <1>4 DEF ReadSteps, EnterRead, ReadBytes, ReadEof, ReadFails, hist, TypeHist
<1>5. CASE ParseSteps
  <2>1. ASSUME NEW c \in Conns, ParseStuck(c) \/ ParseDone(c) PROVE TypeHist'
    BY <2>1 DEF ParseStuck, ParseDone, hist, TypeHist
  <2>2. ASSUME NEW c \in Conns, ParseMore(c) PROVE TypeHist'
    <3>1. UNCHANGED <<next, seen, done>>
      BY <2>2 DEF ParseMore
    <3>2. CASE HeadDone(c)
      <4> DEFINE k == IF Units(Parsed(c)) > buffer[c].cap THEN Units(Parsed(c)) ELSE buffer[c].cap
      <4>1. Units(Parsed(c)) \in Nat
        BY <3>2, ParsedType DEF HeadDone, Units, Request
      <4>2. k \in Nat /\ buffer[c].cap \in Nat /\ k >= buffer[c].cap
        BY <4>1 DEF TypeBuffer, Buffer
      <4>3. /\ buffer' = [buffer EXCEPT ![c].cap = k]
            /\ uncounted' = uncounted + buffer'[c].cap - buffer[c].cap
        BY <2>2, <3>2 DEF ParseMore
      <4> HIDE DEF k
      <4>4. buffer'[c].cap = k
        BY <4>3 DEF TypeBuffer, Buffer
      <4>5. uncounted' \in Nat
        BY <4>2, <4>3, <4>4 DEF TypeHist
      <4> QED BY <3>1, <4>5 DEF TypeHist
    <3>3. CASE ~HeadDone(c)
      BY <2>2, <3>1, <3>3 DEF ParseMore, TypeHist
    <3> QED BY <3>2, <3>3
  <2>3. ASSUME NEW c \in Conns, Handle(c) PROVE TypeHist'
    <3> DEFINE e == [r |-> Current(c), exact |-> Exact(c)]
    <3>1. Current(c) \in Nat
      <4>1. Found(c)
        BY <2>3 DEF Handle, Control, Busy, WorkingOn
      <4> QED BY <4>1, ParsedType, ScriptAssumption, LenProperties
    <3>2. e \in [r : Nat, exact : BOOLEAN]
      BY <3>1 DEF Exact
    <3>3. seen' = [seen EXCEPT ![c] = Append(@, e)] /\ UNCHANGED <<next, done, uncounted>>
      BY <2>3 DEF Handle
    <3> HIDE DEF e
    <3>4. Append(seen[c], e) \in Seq([r : Nat, exact : BOOLEAN])
      BY <3>2, AppendProperties DEF TypeHist
    <3> QED BY <3>3, <3>4 DEF TypeHist
  <2> QED BY <1>5, <2>1, <2>2, <2>3 DEF ParseSteps
<1>6. CASE WriteSteps
  <2>1. ASSUME NEW c \in Conns, WriteSocket(c), UNCHANGED done \/ done' = [done EXCEPT ![c] = @ + 1]
        PROVE  TypeHist'
    BY <2>1 DEF WriteSocket, TypeHist
  <2>2. ASSUME NEW c \in Conns, Rewrite(c) PROVE TypeHist'
    BY <2>2 DEF Rewrite, hist, TypeHist
  <2> QED BY <1>6, <2>1, <2>2 DEF WriteSteps, WriteError, WriteMore, WriteClose, WriteKeepAlive
<1>7. CASE UNCHANGED vars
  BY <1>7 DEF vars, hist, TypeHist
<1> QED BY <1>1, <1>2, <1>3, <1>4, <1>5, <1>6, <1>7, NextSteps

(* TypeOK is kept, from its seven parts.                                   *)
LEMMA Typed == ASSUME IInv, [Next]_vars PROVE TypeOK'
BY ThreadTyped, RequestTyped, BufferTyped, TokensTyped, EpollTyped, WireTyped, HistTyped
   DEF IInv, TypeOK

-----------------------------------------------------------------------------
(* The other parts of the invariant.                                       *)

(* What is read, buffered or kept comes from the script.                   *)
LEMMA UnitsStayInScript == ASSUME IInv, [Next]_vars PROVE UnitsInScript'
<1> USE DEF IInv, TypeOK
<1>1. ASSUME UNCHANGED <<buffer, inq>> PROVE UnitsInScript'
  BY <1>1 DEF UnitsInScript
<1>2. ASSUME NEW c \in Conns, NEW b \in Buffer, b.data = <<>>,
             buffer' = [buffer EXCEPT ![c] = b], UNCHANGED inq
      PROVE  UnitsInScript'
  BY <1>2, LenProperties DEF UnitsInScript, TypeBuffer
<1>3. /\ NoBuffer \in Buffer /\ ReadBuffer \in Buffer /\ ResponseBuffer \in Buffer
      /\ NoBuffer.data = <<>> /\ ReadBuffer.data = <<>> /\ ResponseBuffer.data = <<>>
  BY SizesAssumption DEF NoBuffer, ReadBuffer, ResponseBuffer, Buffer
<1>4. ASSUME NEW c \in Conns, Terminate(c), UNCHANGED inq PROVE UnitsInScript'
  BY <1>2, <1>3, <1>4 DEF Terminate
<1>5. CASE ClientSteps
  <2>1. ASSUME NEW c \in Conns, Send(c) PROVE UnitsInScript'
    <3>1. /\ next[c] \in Unit /\ inq[c] \in Seq(Unit) /\ Script[c] \in Seq(Request)
          /\ next[c].r \in Nat \ {0}
      BY ScriptAssumption DEF TypeWire, TypeHist, Unit
    <3>2. /\ inq' = [inq EXCEPT ![c] = Append(@, next[c])] /\ UNCHANGED buffer
          /\ next[c].r <= Len(Script[c])
      BY <2>1 DEF Send
    <3>3. next[c].r \in DOMAIN Script[c]
      BY <3>1, <3>2, LenProperties
    <3>4. \A j \in 1..Len(Append(inq[c], next[c])) : Append(inq[c], next[c])[j].r \in DOMAIN Script[c]
      BY <3>1, <3>3, AppendProperties, LenProperties DEF UnitsInScript
    <3> QED BY <3>2, <3>4 DEF UnitsInScript, TypeWire
  <2>2. ASSUME NEW c \in Conns, Connect(c) \/ Fin(c) \/ Rst(c) \/ Drain(c) \/ Expire(c)
        PROVE  UNCHANGED <<buffer, inq>>
    BY <2>2 DEF Connect, Fin, Rst, Drain, Expire, wire
  <2> QED BY <1>1, <1>5, <2>1, <2>2 DEF ClientSteps, Client
<1>6. CASE Wait
  <2>1. ASSUME NEW c \in Conns, WaitTimer(c) PROVE UnitsInScript'
    BY <1>1, <1>4, <2>1 DEF WaitTimer, wire
  <2> QED BY <1>1, <1>6, <2>1 DEF Wait, WaitListen, WaitIO, wire
<1>7. CASE AcceptSteps
  <2>1. ASSUME NEW c \in Conns, Accept(c) PROVE UnitsInScript'
    <3>1. buffer' = [buffer EXCEPT ![c] = ResponseBuffer] \/ UNCHANGED buffer
      BY <2>1 DEF Accept
    <3>2. UNCHANGED inq
      BY <2>1 DEF Accept
    <3> QED BY <1>1, <1>2, <1>3, <3>1, <3>2
  <2> QED BY <1>1, <1>7, <2>1 DEF AcceptSteps, AcceptStop, wire
<1>8. CASE ReadSteps
  <2>1. ASSUME NEW c \in Conns, EnterRead(c) PROVE UnitsInScript'
    <3>1. (buffer' = [buffer EXCEPT ![c] = ReadBuffer] \/ UNCHANGED buffer) /\ UNCHANGED inq
      BY <2>1 DEF EnterRead, wire
    <3> QED BY <1>1, <1>2, <1>3, <3>1
  <2>2. ASSUME NEW c \in Conns, ReadEof(c) PROVE UnitsInScript'
    BY <1>4, <2>2 DEF ReadEof, wire
  <2>3. ASSUME NEW c \in Conns, ReadFails(c) PROVE UnitsInScript'
    BY <1>1, <2>3 DEF ReadFails
  <2>4. ASSUME NEW c \in Conns, ReadBytes(c) PROVE UnitsInScript'
    <3> DEFINE b == buffer[c]
               q == inq[c]
               n == IF Len(q) < b.cap - Len(b.data) THEN Len(q) ELSE b.cap - Len(b.data)
               data == b.data \o SubSeq(q, 1, n)
               rest == SubSeq(q, n + 1, Len(q))
    <3>1. b \in Buffer /\ b.cap \in Nat /\ b.data \in Seq(Unit) /\ q \in Seq(Unit)
      BY DEF TypeBuffer, Buffer, TypeWire
    <3>2. n > 0 /\ inq' = [inq EXCEPT ![c] = rest]
      BY <2>4 DEF ReadBytes
    <3>3. \E k \in Int : buffer' = [buffer EXCEPT ![c].data = data, ![c].cap = k]
      <4>1. MAX_REQUEST_BUF_SIZE \in Int /\ 2 * b.cap \in Int /\ b.cap \in Int
        BY <3>1, SizesAssumption
      <4> QED BY <2>4, <4>1 DEF ReadBytes
    <3>4. PICK k \in Int : buffer' = [buffer EXCEPT ![c].data = data, ![c].cap = k]
      BY <3>3
    <3>5. n \in 1..Len(q)
      BY SMTT(30), <3>1, <3>2, LenProperties
    <3> HIDE DEF n
    <3>6. /\ SubSeq(q, 1, n) \in Seq(Unit) /\ Len(SubSeq(q, 1, n)) = n
          /\ \A j \in 1..n : SubSeq(q, 1, n)[j] = q[j]
      BY <3>1, <3>5, SubSeqProperties, ElementOfSeq
    <3>7. /\ Len(rest) = Len(q) - n
          /\ \A j \in 1..Len(q) - n : rest[j] = q[n + j]
      BY <3>1, <3>5, SubSeqProperties, LenProperties
    <3>8. /\ Len(data) = Len(b.data) + n
          /\ \A j \in 1..Len(b.data) : data[j] = b.data[j]
          /\ \A j \in Len(b.data) + 1..Len(b.data) + n : data[j] = SubSeq(q, 1, n)[j - Len(b.data)]
      BY <3>1, <3>6, ConcatProperties, LenProperties
    <3> HIDE DEF data, rest
    <3>9. /\ \A j \in 1..Len(q) : q[j].r \in DOMAIN Script[c]
          /\ \A j \in 1..Len(b.data) : b.data[j].r \in DOMAIN Script[c]
          /\ Len(q) \in Nat /\ Len(b.data) \in Nat
      BY <3>1, LenProperties DEF UnitsInScript
    <3> HIDE DEF q
    <3>10. \A j \in 1..Len(data) : data[j].r \in DOMAIN Script[c]
      <4> HIDE DEF b
      <4> SUFFICES ASSUME NEW j \in 1..Len(data) PROVE data[j].r \in DOMAIN Script[c]
        OBVIOUS
      <4>1. CASE j <= Len(b.data)
        BY <3>5, <3>8, <3>9, <4>1
      <4>2. CASE j > Len(b.data)
        <5>1. j - Len(b.data) \in 1..n
          BY <3>5, <3>8, <3>9, <4>2
        <5>2. data[j] = q[j - Len(b.data)]
          BY <3>5, <3>6, <3>8, <3>9, <5>1
        <5>3. j - Len(b.data) \in 1..Len(q)
          BY <3>5, <3>9, <5>1
        <5>4. q[j - Len(b.data)].r \in DOMAIN Script[c]
          BY <3>9, <5>3
        <5> QED BY <5>2, <5>4
      <4> QED BY <3>5, <3>8, <3>9, <4>1, <4>2
    <3>11. \A j \in 1..Len(rest) : rest[j].r \in DOMAIN Script[c]
      BY <3>5, <3>7, <3>9
    <3>12. buffer'[c].data = data /\ \A d \in Conns \ {c} : buffer'[d] = buffer[d]
      BY <3>1, <3>4 DEF TypeBuffer, Buffer
    <3>13. inq'[c] = rest /\ \A d \in Conns \ {c} : inq'[d] = inq[d]
      BY <3>2 DEF TypeWire
    <3> QED BY <3>10, <3>11, <3>12, <3>13 DEF UnitsInScript
  <2> QED BY <1>8, <2>1, <2>2, <2>3, <2>4 DEF ReadSteps
<1>9. CASE ParseSteps
  <2>1. ASSUME NEW c \in Conns, ParseStuck(c) \/ ParseDone(c) PROVE UnitsInScript'
    BY <1>1, <2>1 DEF ParseStuck, ParseDone, wire
  <2>2. ASSUME NEW c \in Conns, ParseMore(c) PROVE UnitsInScript'
    <3>1. UNCHANGED inq
      BY <2>2 DEF ParseMore, wire
    <3>2. (\E k : buffer' = [buffer EXCEPT ![c].cap = k]) \/ UNCHANGED buffer
      <4>1. CASE HeadDone(c) BY <2>2, <4>1 DEF ParseMore
      <4>2. CASE ~HeadDone(c) BY <2>2, <4>2 DEF ParseMore
      <4> QED BY <4>1, <4>2
    <3>3. \A d \in Conns : buffer'[d].data = buffer[d].data
      BY SMTT(30), <3>2 DEF TypeBuffer, Buffer
    <3> QED BY <3>1, <3>3 DEF UnitsInScript
  <2>3. ASSUME NEW c \in Conns, Handle(c) PROVE UnitsInScript'
    BY <1>2, <1>3, <2>3 DEF Handle, wire
  <2> QED BY <1>9, <2>1, <2>2, <2>3 DEF ParseSteps
<1>10. CASE WriteSteps
  <2>1. ASSUME NEW c \in Conns, WriteError(c) \/ WriteClose(c) PROVE UnitsInScript'
    BY <1>4, <2>1 DEF WriteError, WriteClose, WriteSocket
  <2>2. ASSUME NEW c \in Conns, WriteMore(c) \/ Rewrite(c) PROVE UnitsInScript'
    BY <1>1, <2>2 DEF WriteMore, Rewrite, WriteSocket, wire
  <2>3. ASSUME NEW c \in Conns, WriteKeepAlive(c) PROVE UnitsInScript'
    BY <1>2, <1>3, <2>3 DEF WriteKeepAlive, WriteSocket
  <2> QED BY <1>10, <2>1, <2>2, <2>3 DEF WriteSteps
<1>11. CASE UNCHANGED vars
  BY <1>1, <1>11 DEF vars, wire
<1> QED BY <1>5, <1>6, <1>7, <1>8, <1>9, <1>10, <1>11, NextSteps

(* A step that works on c leaves the requests of the others alone.         *)
Others(c) ==
  \A d \in Conns \ {c} :
    /\ d \in live' <=> d \in live
    /\ state'[d] = state[d] /\ timeout'[d] = timeout[d] /\ keepalive'[d] = keepalive[d]
    /\ buffer'[d] = buffer[d] /\ written'[d] = written[d] /\ interest'[d] = interest[d]
    /\ seen'[d] = seen[d] /\ done'[d] = done[d]

(* The same of every request, and of the variables none of the request     *)
(* handlers looks at.                                                      *)
Requests == <<live, state, timeout, keepalive, buffer, written, interest, seen, done>>

Working(c) ==
  \/ WaitTimer(c)
  \/ EnterRead(c) \/ ReadBytes(c) \/ ReadEof(c) \/ ReadFails(c)
  \/ ParseStuck(c) \/ ParseMore(c) \/ ParseDone(c) \/ Handle(c)
  \/ WriteError(c) \/ WriteMore(c) \/ WriteClose(c) \/ WriteKeepAlive(c) \/ Rewrite(c)

(* A step on one request leaves all that is kept of the others alone.      *)
LEMMA WorkingFrame ==
  ASSUME IInv, NEW c \in Conns, Working(c)
  PROVE  Others(c) /\ UNCHANGED <<backlog, peer>>
<1> USE DEF IInv, TypeOK, TypeRequest, TypeBuffer, TypeEpoll, TypeHist
<1>1. ASSUME Terminate(c) PROVE \A d \in Conns \ {c} : /\ d \in live' <=> d \in live
                                                      /\ buffer'[d] = buffer[d]
                                                      /\ interest'[d] = interest[d]
  BY <1>1 DEF Terminate
<1>2. CASE WaitTimer(c)
  <2>1. \A d \in Conns \ {c} : /\ d \in live' <=> d \in live
                              /\ buffer'[d] = buffer[d] /\ interest'[d] = interest[d]
    BY <1>1, <1>2 DEF WaitTimer
  <2>2. /\ timeout' = [timeout EXCEPT ![c] = @ - 1]
        /\ UNCHANGED <<state, keepalive, written, backlog, peer, seen, done>>
    BY <1>2 DEF WaitTimer, wire, hist
  <2> QED BY <2>1, <2>2 DEF Others
<1>3. CASE EnterRead(c)
  <2>1. /\ state' = [state EXCEPT ![c] = "READ"]
        /\ timeout' = [timeout EXCEPT ![c] = REQUEST_TIMEOUT]
        /\ buffer' = [buffer EXCEPT ![c] = ReadBuffer] \/ UNCHANGED buffer
        /\ UNCHANGED <<live, keepalive, written, interest, backlog, peer, seen, done>>
    BY <1>3 DEF EnterRead, epoll, wire, hist
  <2> QED BY <2>1 DEF Others
<1>4. CASE ReadBytes(c)
  <2>1. UNCHANGED <<live, state, timeout, keepalive, written, interest, backlog, peer, seen, done>>
    BY <1>4 DEF ReadBytes, epoll, hist
  <2>2. \A d \in Conns \ {c} : buffer'[d] = buffer[d]
    BY <1>4 DEF ReadBytes
  <2> QED BY <2>1, <2>2 DEF Others
<1>5. CASE ReadEof(c)
  <2>1. UNCHANGED <<state, timeout, keepalive, written, backlog, peer, seen, done>> /\ Terminate(c)
    BY <1>5 DEF ReadEof, wire, hist
  <2> QED BY <1>1, <2>1 DEF Others
<1>6. CASE ReadFails(c) \/ ParseStuck(c)
  BY <1>6 DEF ReadFails, ParseStuck, epoll, wire, hist, Others
<1>7. CASE ParseMore(c)
  <2>1. UNCHANGED <<live, state, timeout, keepalive, written, interest, backlog, peer, seen, done>>
    BY <1>7 DEF ParseMore, epoll, wire, hist
  <2>2. \A d \in Conns \ {c} : buffer'[d] = buffer[d]
    <3>1. CASE HeadDone(c) BY <1>7, <3>1 DEF ParseMore
    <3>2. CASE ~HeadDone(c) BY <1>7, <3>2 DEF ParseMore
    <3> QED BY <3>1, <3>2
  <2> QED BY <2>1, <2>2 DEF Others
<1>8. CASE ParseDone(c)
  BY <1>8 DEF ParseDone, epoll, wire, hist, Others
<1>9. CASE Handle(c)
  <2>1. /\ \E ka : keepalive' = [keepalive EXCEPT ![c] = ka]
        /\ buffer' = [buffer EXCEPT ![c] = ResponseBuffer]
        /\ written' = [written EXCEPT ![c] = 0]
        /\ state' = [state EXCEPT ![c] = "WRITE"]
        /\ interest' = [interest EXCEPT ![c] = "out"]
        /\ \E x : seen' = [seen EXCEPT ![c] = x]
        /\ UNCHANGED <<live, timeout, backlog, peer, done>>
    BY <1>9 DEF Handle, Watch, wire
  <2> QED BY <2>1 DEF Others
<1>10. ASSUME WriteSocket(c)
       PROVE  /\ \A d \in Conns \ {c} : written'[d] = written[d]
              /\ UNCHANGED <<keepalive, backlog, peer, seen>>
  BY <1>10 DEF WriteSocket
<1>11. CASE WriteError(c) \/ WriteClose(c)
  <2>1. /\ WriteSocket(c) /\ Terminate(c) /\ UNCHANGED state
        /\ timeout' = [timeout EXCEPT ![c] = REQUEST_TIMEOUT]
        /\ UNCHANGED done \/ done' = [done EXCEPT ![c] = @ + 1]
    BY <1>11 DEF WriteError, WriteClose
  <2> QED BY <1>1, <1>10, <2>1 DEF Others
<1>12. CASE WriteMore(c)
  <2>1. /\ WriteSocket(c) /\ timeout' = [timeout EXCEPT ![c] = REQUEST_TIMEOUT]
        /\ UNCHANGED <<live, state, buffer, interest, done>>
    BY <1>12 DEF WriteMore, epoll
  <2> QED BY <1>10, <2>1 DEF Others
<1>13. CASE WriteKeepAlive(c)
  <2>1. /\ WriteSocket(c) /\ timeout' = [timeout EXCEPT ![c] = KEEP_ALIVE_TIMEOUT]
        /\ done' = [done EXCEPT ![c] = @ + 1]
        /\ buffer' = [buffer EXCEPT ![c] = NoBuffer]
        /\ state' = [state EXCEPT ![c] = "READ"]
        /\ interest' = [interest EXCEPT ![c] = "in"]
        /\ UNCHANGED live
    BY <1>13 DEF WriteKeepAlive, Watch
  <2> QED BY <1>10, <2>1 DEF Others
<1>14. CASE Rewrite(c)
  <2>1. /\ state' = [state EXCEPT ![c] = "WRITE"] /\ interest' = [interest EXCEPT ![c] = "out"]
        /\ UNCHANGED <<live, timeout, keepalive, buffer, written, backlog, peer, seen, done>>
    BY <1>14 DEF Rewrite, Watch, wire, hist
  <2> QED BY <2>1 DEF Others
<1> QED BY <1>2, <1>3, <1>4, <1>5, <1>6, <1>7, <1>8, <1>9, <1>11, <1>12, <1>13, <1>14 DEF Working

(* The steps once more: those that work on a live request, accept, and     *)
(* those that leave every request alone.                                   *)
LEMMA Steps ==
  ASSUME IInv, [Next]_vars
  PROVE  \/ \E c \in live : Working(c)
         \/ \E c \in Conns : Accept(c)
         \/ UNCHANGED Requests /\ (ClientSteps \/ AcceptStop \/ WaitListen \/ UNCHANGED vars)
         \/ \E c \in live : WaitIO(c)
<1> USE DEF IInv, TypeOK
<1>1. CASE ClientSteps
  BY ZenonT(60), <1>1 DEF ClientSteps, Client, Connect, Send, Fin, Rst, Drain, Expire, hist, Requests
<1>2. CASE Wait
  <2>1. CASE WaitListen BY <2>1 DEF WaitListen, hist, Requests
  <2>2. ASSUME NEW c \in Conns, WaitIO(c) \/ WaitTimer(c) PROVE c \in live
    BY <2>2 DEF WaitIO, WaitTimer, Events
  <2> QED BY <1>2, <2>1, <2>2 DEF Wait, Working
<1>3. CASE AcceptSteps
  BY <1>3 DEF AcceptSteps, AcceptStop, epoll, hist, Requests
<1>4. CASE ReadSteps
  <2>1. PICK c \in Conns : EnterRead(c) \/ ReadBytes(c) \/ ReadEof(c) \/ ReadFails(c)
    BY <1>4 DEF ReadSteps
  <2>2. c = cur /\ Busy
    BY <2>1 DEF EnterRead, ReadBytes, ReadEof, ReadFails, Busy
  <2> QED BY <2>1, <2>2 DEF Working, Control, WorkingOn
<1>5. CASE ParseSteps
  <2>1. PICK c \in Conns : ParseStuck(c) \/ ParseMore(c) \/ ParseDone(c) \/ Handle(c)
    BY <1>5 DEF ParseSteps
  <2>2. c = cur /\ Busy
    BY <2>1 DEF ParseStuck, ParseMore, ParseDone, Handle, Busy
  <2> QED BY <2>1, <2>2 DEF Working, Control, WorkingOn
<1>6. CASE WriteSteps
  <2>1. PICK c \in Conns :
          WriteError(c) \/ WriteMore(c) \/ WriteClose(c) \/ WriteKeepAlive(c) \/ Rewrite(c)
    BY <1>6 DEF WriteSteps
  <2>2. c \in live
    BY <2>1 DEF WriteError, WriteMore, WriteClose, WriteKeepAlive, WriteSocket, Rewrite, Busy,
                Control, WorkingOn
  <2> QED BY <2>1, <2>2 DEF Working
<1>7. CASE UNCHANGED vars
  BY <1>7 DEF vars, epoll, hist, Requests
<1> QED BY <1>1, <1>2, <1>3, <1>4, <1>5, <1>6, <1>7, NextSteps

(* A connection in the backlog has no request, and is there once.          *)
LEMMA PendingKept == ASSUME IInv, [Next]_vars PROVE Pending'
<1> USE DEF IInv, TypeOK
<1>0. /\ backlog \in Seq(Conns) /\ Len(backlog) \in Nat
      /\ \A i \in 1..Len(backlog) : backlog[i] \in Conns
  BY LenProperties, ElementOfSeq DEF TypeWire
<1>1. CASE \E c \in live : Working(c)
  <2>1. PICK c \in live : Working(c)
    BY <1>1
  <2>2. Others(c) /\ UNCHANGED <<backlog, peer>>
    BY <2>1, WorkingFrame DEF TypeRequest
  <2>3. \A d \in Conns : Fresh(d) => d # c /\ Fresh(d)'
    BY <2>2 DEF Fresh, Others
  <2> QED BY <1>0, <2>2, <2>3 DEF Pending
<1>2. ASSUME NEW c \in Conns, Accept(c) PROVE Pending'
  <2>1. backlog # <<>> /\ c = Head(backlog) /\ backlog' = Tail(backlog) /\ UNCHANGED peer
    BY <1>2 DEF Accept
  <2>2. /\ Len(backlog) > 0 /\ c = backlog[1] /\ Len(backlog') = Len(backlog) - 1
        /\ \A i \in 1..Len(backlog') : backlog'[i] = backlog[i + 1]
    BY <1>0, <2>1, HeadTailProperties, EmptySeq, LenProperties
  <2>3. peer[c] # "none" /\ \A i \in 1..Len(backlog') : backlog'[i] # c
    BY <1>0, <2>2 DEF Pending
  <2>4. \A d \in Conns \ {c} : /\ d \in live' <=> d \in live
                              /\ buffer'[d] = buffer[d]
    <3>1. live' = live \cup {c}
      BY <1>2 DEF Accept
    <3>2. buffer' = [buffer EXCEPT ![c] = ResponseBuffer] \/ UNCHANGED buffer
      BY <1>2 DEF Accept
    <3> QED BY <3>1, <3>2 DEF TypeBuffer
  <2>5. UNCHANGED <<written, keepalive, seen, done>>
    BY <1>2 DEF Accept, hist
  <2>6. \A d \in Conns \ {c} : Fresh(d) => Fresh(d)'
    BY <2>4, <2>5 DEF Fresh
  <2>7. \A d \in Conns : peer'[d] = "none" => Fresh(d)'
    BY <2>1, <2>3, <2>6 DEF Pending
  <2>8. \A i \in 1..Len(backlog') : /\ i + 1 \in 1..Len(backlog)
                                  /\ backlog'[i] \in Conns \ {c}
                                  /\ Fresh(backlog'[i]) /\ peer'[backlog'[i]] # "none"
    BY <1>0, <2>1, <2>2, <2>3 DEF Pending
  <2>9. \A i, j \in 1..Len(backlog') : backlog'[i] = backlog'[j] => i = j
    BY <1>0, <2>2, <2>8 DEF Pending
  <2>10. (\A i \in 1..Len(backlog) : Fresh(backlog[i]))'
    BY <2>6, <2>8 DEF Fresh
  <2> QED BY <2>7, <2>8, <2>9, <2>10 DEF Pending
<1>3. CASE UNCHANGED Requests /\ (ClientSteps \/ AcceptStop \/ WaitListen \/ UNCHANGED vars)
  <2>1. \A d \in Conns : Fresh(d)' <=> Fresh(d)
    BY <1>3 DEF Fresh, Requests
  <2>2. CASE UNCHANGED <<backlog, peer>>
    BY <1>0, <2>1, <2>2 DEF Pending
  <2>3. ASSUME NEW c \in Conns, Connect(c) PROVE Pending'
    <3>1. peer[c] = "none" /\ backlog' = Append(backlog, c) /\ peer' = [peer EXCEPT ![c] = "open"]
      BY <2>3 DEF Connect
    <3>2. Fresh(c) /\ \A i \in 1..Len(backlog) : backlog[i] # c
      BY <3>1 DEF Pending
    <3>3. /\ Len(backlog') = Len(backlog) + 1 /\ backlog'[Len(backlog) + 1] = c
          /\ \A i \in 1..Len(backlog) : backlog'[i] = backlog[i]
      BY <1>0, <3>1, AppendProperties
    <3>4. \A d \in Conns : (peer'[d] = "none" <=> d # c /\ peer[d] = "none")
      BY <3>1 DEF TypeWire
    <3>5. \A i \in 1..Len(backlog') : Fresh(backlog'[i]) /\ peer'[backlog'[i]] # "none"
                                    /\ backlog'[i] \in Conns
      BY <1>0, <3>2, <3>3, <3>4 DEF Pending
    <3>6. \A i, j \in 1..Len(backlog') : backlog'[i] = backlog'[j] => i = j
      BY <1>0, <3>2, <3>3 DEF Pending
    <3>7. (\A i \in 1..Len(backlog) : Fresh(backlog[i]))'
      BY <1>3, <3>5 DEF Fresh, Requests
    <3> QED BY <2>1, <3>4, <3>5, <3>6, <3>7 DEF Pending
  <2>4. ASSUME NEW c \in Conns, Fin(c) \/ Rst(c) PROVE Pending'
    <3>1. \E x \in {"fin", "rst"} : peer' = [peer EXCEPT ![c] = x]
      BY <2>4 DEF Fin, Rst
    <3>2. UNCHANGED backlog /\ peer[c] # "none"
      BY <2>4 DEF Fin, Rst
    <3>3. \A d \in Conns : peer'[d] = "none" <=> peer[d] = "none"
      BY <3>1, <3>2 DEF TypeWire
    <3> QED BY <1>0, <2>1, <3>2, <3>3 DEF Pending
  <2>5. ASSUME NEW c \in Conns, Send(c) \/ Drain(c) \/ Expire(c) PROVE UNCHANGED <<backlog, peer>>
    BY <2>5 DEF Send, Drain, Expire, wire
  <2>6. CASE AcceptStop \/ WaitListen \/ UNCHANGED vars
    BY <2>2, <2>6 DEF AcceptStop, WaitListen, vars, wire
  <2> QED BY <1>3, <2>2, <2>3, <2>4, <2>5, <2>6 DEF ClientSteps, Client
<1>4. ASSUME NEW c \in live, WaitIO(c) PROVE Pending'
  <2>1. UNCHANGED Requests /\ UNCHANGED <<backlog, peer>>
    BY <1>4 DEF WaitIO, wire, hist, Requests
  <2>2. \A d \in Conns : Fresh(d)' <=> Fresh(d)
    BY <2>1 DEF Fresh, Requests
  <2> QED BY <1>0, <2>1, <2>2 DEF Pending
<1> QED BY <1>1, <1>2, <1>3, <1>4, Steps

(* epoll holds nothing of a request that is not live.                      *)
LEMMA EventsKept == ASSUME IInv, [Next]_vars PROVE Events'
<1> USE DEF IInv, Events
<1>1. ASSUME NEW c \in Conns, Terminate(c) PROVE Events'
  BY <1>1 DEF Terminate
<1>2. ASSUME NEW c \in live', NEW mask, Watch(c, mask), live \subseteq live',
             timers' \subseteq live'
      PROVE  Events'
  BY <1>2 DEF Watch
<1>3. CASE \E c \in live : Working(c)
  <2>1. PICK c \in live : Working(c)
    BY <1>3
  <2>2. c \in Conns
    BY DEF TypeOK, TypeRequest
  <2>3. CASE WaitTimer(c)
    BY <1>1, <2>2, <2>3 DEF WaitTimer
  <2>4. CASE EnterRead(c) \/ ReadBytes(c) \/ ReadFails(c) \/ ParseStuck(c) \/ ParseMore(c)
             \/ ParseDone(c) \/ WriteMore(c)
    BY <2>4 DEF EnterRead, ReadBytes, ReadFails, ParseStuck, ParseMore, ParseDone, WriteMore, epoll
  <2>5. CASE ReadEof(c) \/ WriteError(c) \/ WriteClose(c)
    BY <1>1, <2>2, <2>5 DEF ReadEof, WriteError, WriteClose
  <2>6. CASE Handle(c) \/ WriteKeepAlive(c) \/ Rewrite(c)
    <3>1. UNCHANGED <<live, timers>> /\ \E mask \in {"in", "out"} : Watch(c, mask)
      BY <2>6 DEF Handle, WriteKeepAlive, Rewrite
    <3> QED BY <1>2, <3>1
  <2> QED BY <2>1, <2>3, <2>4, <2>5, <2>6 DEF Working
<1>4. ASSUME NEW c \in Conns, Accept(c) PROVE Events'
  <2>1. live' = live \cup {c} /\ timers' \subseteq timers \cup {c}
        /\ \E mask \in {"in", "out"} : Watch(c, mask)
    BY <1>4 DEF Accept
  <2> QED BY <1>2, <2>1
<1>5. CASE UNCHANGED Requests /\ (ClientSteps \/ AcceptStop \/ WaitListen \/ UNCHANGED vars)
  <2>1. ASSUME NEW c \in Conns, Client(c) PROVE Events'
    <3>1. ioReady' \subseteq ioReady \cup live /\ UNCHANGED <<live, timers, timerReady>>
      BY <2>1 DEF Client, Connect, Send, Fin, Rst, Drain, Edge
    <3> QED BY <3>1
  <2>2. ASSUME NEW c \in Conns, Expire(c) PROVE Events'
    BY <2>2 DEF Expire
  <2>3. CASE AcceptStop \/ WaitListen \/ UNCHANGED vars
    BY <2>3 DEF AcceptStop, WaitListen, epoll, vars
  <2> QED BY <1>5, <2>1, <2>2, <2>3 DEF ClientSteps
<1>6. ASSUME NEW c \in live, WaitIO(c) PROVE Events'
  BY <1>6 DEF WaitIO
<1> QED BY <1>3, <1>4, <1>5, <1>6, Steps

(* What Return leaves behind when the request has not to be written again. *)
LEMMA ReturnControl ==
  ASSUME IInv, Return, op \in {"fill", "parse"} \/ ~again
  PROVE  op' \in {"wait", "accept"} /\ ~again'
BY DEF Return, IInv, TypeOK, TypeThread, Control

(* The request worked on is in the state `op` promises, all others as      *)
(* epoll_wait finds them.                                                  *)
LEMMA ControlKept == ASSUME IInv, [Next]_vars PROVE Control'
<1> USE DEF IInv, TypeOK
<1>1. ASSUME NEW c \in live, Working(c) PROVE Control'
  <2>0. c \in Conns /\ Others(c)
    BY <1>1, WorkingFrame DEF TypeRequest
  <2>1. ASSUME \A d \in live \ {c} : Waiting(d)
        PROVE  \A d \in live' \ {c} : Waiting(d)'
    <3>1. \A d \in live' \ {c} : d \in live \ {c} /\ d \in Conns \ {c}
      BY <2>0, Typed DEF Others, TypeRequest
    <3> QED BY <2>0, <2>1, <3>1 DEF Others, Waiting
  <2>2. CASE WaitTimer(c)
    <3>1. op' = "wait" /\ op = "wait" /\ UNCHANGED again
      BY <2>2 DEF WaitTimer, thread
    <3>2. \A d \in live : Waiting(d)
      BY <3>1 DEF Control, Busy
    <3>3. c \in live' => Waiting(c)'
      <4>1. CASE timeout[c] - 1 = 0
        BY <2>2, <4>1 DEF WaitTimer, Terminate
      <4>2. CASE timeout[c] - 1 # 0
        <5>1. timeout'[c] = timeout[c] - 1 /\ UNCHANGED <<state, buffer, interest, written>>
          BY <2>0, <2>2, <4>2 DEF WaitTimer, TypeRequest
        <5> QED BY <3>2, <4>2, <5>1, SizesAssumption DEF Waiting
      <4> QED BY <4>1, <4>2
    <3> QED BY <2>1, <3>1, <3>2, <3>3 DEF Control, Busy
  <2> HIDE DEF TypeOK
  <2>3. CASE ~WaitTimer(c) /\ ~Rewrite(c)
    <3>1. Busy /\ c = cur
      BY <1>1, <2>3 DEF Working, Busy, EnterRead, ReadBytes, ReadEof, ReadFails, ParseStuck,
                        ParseMore, ParseDone, Handle, WriteError, WriteMore, WriteClose,
                        WriteKeepAlive, WriteSocket
    <3>2. WorkingOn(c) /\ \A d \in live' \ {c} : Waiting(d)'
      BY <2>1, <3>1 DEF Control
    <3>3. CASE EnterRead(c)
      <4>1. /\ op = "read" /\ op' \in {"fill", "parse"}
            /\ state' = [state EXCEPT ![c] = "READ"]
            /\ timeout' = [timeout EXCEPT ![c] = REQUEST_TIMEOUT]
            /\ \/ buffer' = [buffer EXCEPT ![c] = ReadBuffer]
               \/ UNCHANGED buffer /\ buffer[c].kind # "null"
            /\ UNCHANGED <<cur, again, live, interest>>
        BY <3>3 DEF EnterRead, epoll
      <4>2. ~again
        BY <4>1 DEF Control
      <4>3. /\ state'[c] = "READ" /\ timeout'[c] = REQUEST_TIMEOUT
            /\ buffer'[c].kind = "request" /\ interest'[c] = "in"
        BY <2>0, <3>2, <4>1 DEF WorkingOn, ReadBuffer, TypeOK, TypeRequest, TypeBuffer
      <4> QED BY <3>1, <3>2, <4>1, <4>2, <4>3 DEF Control, Busy, WorkingOn
    <3>4. CASE ReadBytes(c)
      <4>1. /\ op = "fill" /\ op' \in {"fill", "parse"}
            /\ UNCHANGED <<cur, again, live, state, timeout, interest>>
        BY <3>4 DEF ReadBytes, epoll
      <4>2. buffer'[c].kind = buffer[c].kind
        <5>1. buffer[c] \in Buffer
          BY <2>0 DEF TypeOK, TypeBuffer
        <5>2. \E x, k : buffer' = [buffer EXCEPT ![c].data = x, ![c].cap = k]
          BY <3>4 DEF ReadBytes
        <5> QED BY <2>0, <5>1, <5>2 DEF TypeOK, TypeBuffer, Buffer
      <4>3. ~again
        BY <4>1 DEF Control
      <4> QED BY <3>1, <3>2, <4>1, <4>2, <4>3 DEF Control, Busy, WorkingOn
    <3>5. CASE ReadEof(c)
      <4>1. op' \in {"wait", "accept"} /\ ~again'
        BY <3>5, ReturnControl DEF ReadEof
      <4>2. c \notin live'
        BY <3>5 DEF ReadEof, Terminate
      <4> QED BY <3>2, <4>1, <4>2 DEF Control, Busy
    <3>6. CASE ReadFails(c)
      <4>1. /\ op = "fill" /\ op' = "parse"
            /\ UNCHANGED <<cur, again, live, state, timeout, buffer, interest>>
        BY <3>6 DEF ReadFails, epoll
      <4>2. ~again
        BY <4>1 DEF Control
      <4> QED BY <3>1, <3>2, <4>1, <4>2 DEF Control, Busy, WorkingOn
    <3>7. CASE ParseStuck(c) \/ ParseMore(c)
      <4>1. op = "parse" /\ Return
        BY <3>7 DEF ParseStuck, ParseMore
      <4>2. op' \in {"wait", "accept"} /\ ~again'
        BY <4>1, ReturnControl
      <4>3. UNCHANGED <<live, state, timeout, interest, written>>
        BY <3>7 DEF ParseStuck, ParseMore, epoll
      <4>4. buffer'[c].kind = buffer[c].kind
        <5>1. UNCHANGED buffer \/ \E k : buffer' = [buffer EXCEPT ![c].cap = k]
          <6>1. CASE HeadDone(c) BY <3>7, <6>1 DEF ParseStuck, ParseMore
          <6>2. CASE ~HeadDone(c) BY <3>7, <6>2 DEF ParseStuck, ParseMore
          <6> QED BY <6>1, <6>2
        <5> QED BY <2>0, <5>1 DEF TypeOK, TypeBuffer, Buffer
      <4>5. Waiting(c)'
        BY <3>2, <4>1, <4>3, <4>4, SizesAssumption DEF WorkingOn, Waiting
      <4> QED BY <3>2, <4>2, <4>5 DEF Control, Busy
    <3>8. CASE ParseDone(c)
      <4>1. /\ op = "parse" /\ op' = "handle"
            /\ UNCHANGED <<cur, again, live, timeout, buffer>>
        BY <3>8 DEF ParseDone
      <4>2. Found(c)'
        BY <3>8, <4>1 DEF ParseDone, Complete, HeadDone, Found, Current, Shifted
      <4>3. ~again
        BY <4>1 DEF Control
      <4> QED BY <3>1, <3>2, <4>1, <4>2, <4>3 DEF Control, Busy, WorkingOn
    <3>9. CASE Handle(c)
      <4>1. /\ op = "handle" /\ op' = "write"
            /\ state' = [state EXCEPT ![c] = "WRITE"]
            /\ buffer' = [buffer EXCEPT ![c] = ResponseBuffer]
            /\ interest' = [interest EXCEPT ![c] = "out"]
            /\ UNCHANGED <<cur, again, live>>
        BY <3>9 DEF Handle, Watch
      <4>2. ~again
        BY <4>1 DEF Control
      <4>3. state'[c] = "WRITE" /\ buffer'[c].kind = "response" /\ interest'[c] = "out"
        BY <2>0, <4>1 DEF ResponseBuffer, TypeOK, TypeRequest, TypeBuffer, TypeEpoll
      <4> QED BY <3>1, <3>2, <4>1, <4>2, <4>3 DEF Control, Busy, WorkingOn
    <3>10. ASSUME WriteSocket(c), Return, c \in live' => Waiting(c)' /\ state'[c] = state[c]
           PROVE  Control'
      <4>1. op = "write" /\ UNCHANGED keepalive
        BY <3>10 DEF WriteSocket
      <4>2. CASE ~again
        BY <3>2, <3>10, <4>2, ReturnControl DEF Control, Busy
      <4>3. CASE again
        <5>1. op' = "rewrite" /\ cur' = c /\ ~again' /\ ~keepalive'[c]
          BY <3>1, <3>10, <4>1, <4>3 DEF Return, Control
        <5>2. state[c] = "WRITE"
          BY <3>2, <4>1 DEF WorkingOn
        <5>3. c \in live' => state'[c] = "WRITE"
          BY <3>10, <5>2
        <5> QED BY <3>2, <3>10, <5>1, <5>3 DEF Control, Busy
      <4> QED BY <4>2, <4>3
    <3>11. CASE WriteError(c) \/ WriteClose(c)
      BY <3>10, <3>11 DEF WriteError, WriteClose, Terminate
    <3>12. CASE WriteMore(c)
      <4>1. /\ WriteSocket(c) /\ Return /\ written'[c] # RESPONSE_SIZE
            /\ timeout' = [timeout EXCEPT ![c] = REQUEST_TIMEOUT]
            /\ UNCHANGED <<state, buffer, interest>> /\ op = "write"
        BY <3>12 DEF WriteMore, WriteSocket, All, epoll
      <4>2. written'[c] < RESPONSE_SIZE /\ timeout'[c] = REQUEST_TIMEOUT
        BY <2>0, <4>1, Typed, SizesAssumption DEF TypeOK, TypeRequest
      <4>3. Waiting(c)'
        BY <3>2, <4>1, <4>2, SizesAssumption DEF Waiting, WorkingOn
      <4> QED BY <3>10, <4>1, <4>3
    <3>13. CASE WriteKeepAlive(c)
      <4>1. /\ op' = "read" /\ UNCHANGED <<cur, again, live>> /\ keepalive[c]
            /\ buffer' = [buffer EXCEPT ![c] = NoBuffer]
            /\ interest' = [interest EXCEPT ![c] = "in"]
        BY <3>13 DEF WriteKeepAlive, Watch
      <4>2. ~again
        BY <3>1, <4>1 DEF Control
      <4>3. buffer'[c].kind = "null" /\ interest'[c] = "in"
        BY <2>0, <4>1 DEF NoBuffer, TypeOK, TypeBuffer, TypeEpoll
      <4> QED BY <3>1, <3>2, <4>1, <4>2, <4>3 DEF Control, Busy, WorkingOn
    <3> QED BY <1>1, <2>3, <3>3, <3>4, <3>5, <3>6, <3>7, <3>8, <3>9, <3>11, <3>12, <3>13 DEF Working
  <2>4. CASE Rewrite(c)
    <3>1. /\ op = "rewrite" /\ c = cur /\ op' = "write" /\ UNCHANGED <<cur, again, live, buffer>>
          /\ state' = [state EXCEPT ![c] = "WRITE"] /\ interest' = [interest EXCEPT ![c] = "out"]
      BY <2>4 DEF Rewrite, Watch
    <3>2. ~again /\ state[c] = "WRITE" /\ \A d \in live : Waiting(d)
      BY <3>1 DEF Control, Busy
    <3>3. buffer'[c].kind = "response" /\ state'[c] = "WRITE" /\ interest'[c] = "out"
      BY <2>0, <3>1, <3>2 DEF Waiting, TypeOK, TypeRequest, TypeEpoll
    <3> QED BY <2>1, <3>1, <3>2, <3>3 DEF Control, Busy, WorkingOn
  <2> QED BY <2>2, <2>3, <2>4
<1>2. ASSUME NEW c \in Conns, Accept(c) PROVE Control'
  <2>1. Fresh(c)
    <3>1. backlog # <<>> /\ c = Head(backlog) /\ backlog \in Seq(Conns)
      BY <1>2 DEF Accept, TypeWire
    <3>2. 1 \in 1..Len(backlog) /\ c = backlog[1]
      BY <3>1, HeadTailProperties, EmptySeq, LenProperties
    <3> QED BY <3>2 DEF Pending
  <2>2. /\ op = "accept" /\ cur' = c /\ live' = live \cup {c}
        /\ timeout' = [timeout EXCEPT ![c] = REQUEST_TIMEOUT]
        /\ UNCHANGED <<keepalive, written>>
    BY <1>2 DEF Accept, Call
  <2>3. \/ /\ op' = "write" /\ state' = [state EXCEPT ![c] = "WRITE"]
           /\ buffer' = [buffer EXCEPT ![c] = ResponseBuffer]
           /\ interest' = [interest EXCEPT ![c] = "out"]
        \/ /\ op' = "read" /\ state' = [state EXCEPT ![c] = "READ"] /\ UNCHANGED <<again, buffer>>
           /\ interest' = [interest EXCEPT ![c] = "in"]
    BY <1>2 DEF Accept, Watch, Call
  <2>4. ~again /\ \A d \in live : Waiting(d)
    BY <2>2 DEF Control, Busy
  <2>5. \A d \in live' \ {c} : Waiting(d)'
    <3>1. \A d \in live' \ {c} : d \in live /\ d \in Conns \ {c}
      BY <2>2 DEF TypeRequest
    <3>2. \A d \in Conns \ {c} : /\ state'[d] = state[d] /\ timeout'[d] = timeout[d]
                                /\ buffer'[d] = buffer[d] /\ interest'[d] = interest[d]
                                /\ written'[d] = written[d]
      BY <2>2, <2>3 DEF TypeRequest, TypeBuffer, TypeEpoll
    <3> QED BY <2>4, <3>1, <3>2 DEF Waiting
  <2>6. WorkingOn(c)'
    BY <2>1, <2>2, <2>3 DEF WorkingOn, Fresh, ResponseBuffer, TypeRequest, TypeBuffer, TypeEpoll
  <2>7. again' => op' = "write" /\ ~keepalive'[c]
    BY <2>1, <2>2, <2>3, <2>4 DEF Fresh
  <2> QED BY <2>2, <2>3, <2>5, <2>6, <2>7 DEF Control, Busy
<1>3. CASE UNCHANGED Requests /\ (ClientSteps \/ AcceptStop \/ WaitListen \/ UNCHANGED vars)
  <2>1. \A d \in Conns : Waiting(d)' <=> Waiting(d)
    BY <1>3 DEF Waiting, Requests
  <2>2. ASSUME UNCHANGED <<op, cur, again>> PROVE Control'
    <3>1. \A d \in Conns : WorkingOn(d)' <=> WorkingOn(d)
      BY <1>3, <2>2 DEF WorkingOn, Requests, Found, Current, Shifted
    <3>2. Busy' <=> Busy
      BY <2>2 DEF Busy
    <3>3. Busy => cur \in Conns
      BY DEF Control, WorkingOn, TypeRequest
    <3> QED BY <1>3, <2>1, <2>2, <3>1, <3>2, <3>3 DEF Control, Requests, TypeRequest
  <2>3. CASE ClientSteps \/ UNCHANGED vars
    BY <2>2, <2>3 DEF ClientSteps, Client, Connect, Send, Fin, Rst, Drain, Expire, vars, thread
  <2>4. CASE AcceptStop \/ WaitListen
    <3>1. op \in {"wait", "accept"} /\ op' \in {"wait", "accept"} /\ UNCHANGED again
      BY <2>4 DEF AcceptStop, WaitListen
    <3> QED BY <1>3, <2>1, <3>1 DEF Control, Busy, Requests, TypeRequest
  <2> QED BY <1>3, <2>3, <2>4
<1>4. ASSUME NEW c \in live, WaitIO(c) PROVE Control'
  <2>1. op = "wait" /\ UNCHANGED <<live, state, timeout, buffer, interest, written, again>>
    BY <1>4 DEF WaitIO
  <2>2. ~again /\ \A d \in live : Waiting(d)
    BY <2>1 DEF Control, Busy
  <2>3. \A d \in live : Waiting(d)'
    BY <2>1, <2>2 DEF Waiting
  <2>4. CASE state[c] = "READ"
    <3>1. op' = "read" /\ cur' = c
      BY <1>4, <2>4 DEF WaitIO
    <3>2. buffer[c].kind = "request" /\ interest[c] = "in"
      BY <2>2, <2>4 DEF Waiting
    <3>3. WorkingOn(c)'
      BY <2>1, <3>1, <3>2 DEF WorkingOn
    <3> QED BY <2>1, <2>2, <2>3, <3>1, <3>3 DEF Control, Busy
  <2>5. CASE state[c] = "WRITE"
    <3>1. op' = "write" /\ cur' = c
      BY <1>4, <2>5 DEF WaitIO
    <3>2. buffer[c].kind = "response" /\ interest[c] = "out"
      BY <2>2, <2>5 DEF Waiting
    <3>3. WorkingOn(c)'
      BY <2>1, <2>5, <3>1, <3>2 DEF WorkingOn
    <3> QED BY <2>1, <2>2, <2>3, <3>1, <3>3 DEF Control, Busy
  <2> QED BY <2>2, <2>4, <2>5 DEF Waiting
<1> QED BY <1>1, <1>2, <1>3, <1>4, Steps

(* The calls of the handler are one per response, written or in the        *)
(* buffer.                                                                 *)
LEMMA CountsKept == ASSUME IInv, [Next]_vars PROVE Counts'
<1> USE DEF IInv
<1> DEFINE Count(c) ==
      /\ seen[c] = <<>> => done[c] = 0 /\ ~keepalive[c]
      /\ seen[c] # <<>> => Len(seen[c]) = done[c] + IF buffer[c].kind = "response" THEN 1 ELSE 0
<1>0. Counts <=> \A c \in live : Count(c)
  BY DEF Counts
<1>1. ASSUME NEW c \in live, Working(c) PROVE Counts'
  <2>0. c \in Conns /\ Others(c)
    BY <1>1, WorkingFrame DEF TypeOK, TypeRequest
  <2>1. ASSUME c \in live' => Count(c)' PROVE Counts'
    <3>1. \A d \in live' \ {c} : d \in live /\ d \in Conns \ {c}
      BY <2>0, Typed DEF Others, TypeOK, TypeRequest
    <3>2. \A d \in live' \ {c} : Count(d)'
      BY <1>0, <2>0, <3>1 DEF Others
    <3> QED BY <2>1, <3>2 DEF Counts
  <2>2. Count(c)
    BY <1>0
  <2>3. /\ seen[c] \in Seq([r : Nat, exact : BOOLEAN]) /\ done[c] \in Nat
        /\ keepalive[c] \in BOOLEAN /\ buffer[c] \in Buffer
    BY <2>0 DEF TypeOK, TypeHist, TypeRequest, TypeBuffer
  <2>4. ASSUME UNCHANGED <<seen, done, keepalive>>,
               \/ buffer'[c].kind = buffer[c].kind
               \/ {buffer[c].kind, buffer'[c].kind} \subseteq {"null", "request"}
        PROVE  Counts'
    BY <2>1, <2>2, <2>4
  <2>5. CASE c \notin live'
    BY <2>1, <2>5
  <2>6. CASE WaitTimer(c) /\ c \in live'
    BY <2>4, <2>6 DEF WaitTimer, Terminate, hist
  <2>7. CASE EnterRead(c)
    <3>1. /\ \/ buffer' = [buffer EXCEPT ![c] = ReadBuffer] /\ buffer[c].kind = "null"
             \/ UNCHANGED buffer
          /\ UNCHANGED <<seen, done, keepalive>>
      BY <2>7 DEF EnterRead, hist
    <3>2. buffer' = [buffer EXCEPT ![c] = ReadBuffer] => buffer'[c].kind = "request"
      BY <2>0 DEF ReadBuffer, TypeOK, TypeBuffer
    <3> QED BY <2>4, <3>1, <3>2
  <2>8. CASE ReadBytes(c)
    <3>1. \E x, k : buffer' = [buffer EXCEPT ![c].data = x, ![c].cap = k]
      BY <2>8 DEF ReadBytes
    <3>2. buffer'[c].kind = buffer[c].kind
      BY <2>0, <2>3, <3>1 DEF TypeOK, TypeBuffer, Buffer
    <3>3. UNCHANGED <<seen, done, keepalive>>
      BY <2>8 DEF ReadBytes, hist
    <3> QED BY <2>4, <3>2, <3>3
  <2>9. CASE ReadFails(c) \/ ParseStuck(c) \/ ParseDone(c) \/ Rewrite(c)
    BY <2>4, <2>9 DEF ReadFails, ParseStuck, ParseDone, Rewrite, hist
  <2>10. CASE ParseMore(c)
    <3>1. UNCHANGED buffer \/ \E k : buffer' = [buffer EXCEPT ![c].cap = k]
      <4>1. CASE HeadDone(c) BY <2>10, <4>1 DEF ParseMore
      <4>2. CASE ~HeadDone(c) BY <2>10, <4>2 DEF ParseMore
      <4> QED BY <4>1, <4>2
    <3>2. buffer'[c].kind = buffer[c].kind
      BY <2>0, <2>3, <3>1 DEF TypeOK, TypeBuffer, Buffer
    <3>3. UNCHANGED <<seen, done, keepalive>>
      BY <2>10 DEF ParseMore, hist
    <3> QED BY <2>4, <3>2, <3>3
  <2>11. CASE Handle(c)
    <3> DEFINE e == [r |-> Current(c), exact |-> Exact(c)]
    <3>1. buffer[c].kind = "request"
      BY <1>1, <2>11 DEF Handle, Control, Busy, WorkingOn
    <3>2. /\ seen' = [seen EXCEPT ![c] = Append(@, e)] /\ UNCHANGED done
          /\ buffer' = [buffer EXCEPT ![c] = ResponseBuffer]
      BY <2>11 DEF Handle
    <3> HIDE DEF e
    <3>3. seen'[c] = Append(seen[c], e) /\ buffer'[c].kind = "response"
      BY <2>0, <3>2 DEF ResponseBuffer, TypeOK, TypeBuffer, TypeHist
    <3>4. Len(seen'[c]) = Len(seen[c]) + 1 /\ seen'[c] # <<>>
      <4>1. e \in [r : Nat, exact : BOOLEAN]
        <5>1. seen'[c] \in Seq([r : Nat, exact : BOOLEAN]) /\ Found(c)
          BY <1>1, <2>0, <2>11, Typed DEF TypeOK, TypeHist, Handle, Control, Busy, WorkingOn
        <5>2. Current(c) \in Nat
          BY <2>0, <5>1, ParsedType, ScriptAssumption, LenProperties
        <5>3. Exact(c) \in BOOLEAN
          BY DEF Exact
        <5> QED BY <5>2, <5>3 DEF e
      <4>2. Len(Append(seen[c], e)) = Len(seen[c]) + 1 /\ Append(seen[c], e) # <<>>
        BY <2>3, <4>1, AppendProperties
      <4> QED BY <3>3, <4>2
    <3>5. Len(seen[c]) = done[c]
      BY <2>2, <2>3, <3>1, LenProperties
    <3> QED BY <2>1, <2>3, <3>2, <3>3, <3>4, <3>5
  <2>12. CASE WriteMore(c)
    BY <2>4, <2>12 DEF WriteMore, WriteSocket
  <2>13. CASE WriteKeepAlive(c)
    <3>1. /\ op = "write" /\ c = cur /\ keepalive[c] /\ UNCHANGED <<seen, keepalive>>
          /\ done' = [done EXCEPT ![c] = @ + 1] /\ buffer' = [buffer EXCEPT ![c] = NoBuffer]
      BY <2>13 DEF WriteKeepAlive, WriteSocket
    <3>2. buffer[c].kind = "response"
      BY <3>1 DEF Control, Busy, WorkingOn
    <3>3. done'[c] = done[c] + 1 /\ buffer'[c].kind = "null"
      BY <2>0, <3>1 DEF NoBuffer, TypeOK, TypeBuffer, TypeHist
    <3> QED BY <2>1, <2>2, <2>3, <3>1, <3>2, <3>3
  <2>14. CASE ReadEof(c) \/ WriteError(c) \/ WriteClose(c)
    BY <2>5, <2>14 DEF ReadEof, WriteError, WriteClose, Terminate
  <2> QED BY <1>1, <2>5, <2>6, <2>7, <2>8, <2>9, <2>10, <2>11, <2>12, <2>13, <2>14 DEF Working
<1>2. ASSUME NEW c \in Conns, Accept(c) PROVE Counts'
  <2>1. Fresh(c)
    <3>1. backlog # <<>> /\ c = Head(backlog) /\ backlog \in Seq(Conns)
      BY <1>2 DEF Accept, TypeOK, TypeWire
    <3>2. 1 \in 1..Len(backlog) /\ c = backlog[1]
      BY <3>1, HeadTailProperties, EmptySeq, LenProperties
    <3> QED BY <3>2 DEF Pending
  <2>2. live' = live \cup {c} /\ UNCHANGED <<keepalive, seen, done>>
    BY <1>2 DEF Accept, hist
  <2>3. buffer' = [buffer EXCEPT ![c] = ResponseBuffer] \/ UNCHANGED buffer
    BY <1>2 DEF Accept
  <2>4. \A d \in live \ {c} : buffer'[d] = buffer[d]
    BY <2>3 DEF TypeOK, TypeBuffer, TypeRequest
  <2>5. Count(c)' /\ \A d \in live \ {c} : Count(d)'
    BY <1>0, <2>1, <2>2, <2>4 DEF Fresh
  <2> QED BY <2>2, <2>5 DEF Counts
<1>3. CASE UNCHANGED Requests
  BY <1>3 DEF Counts, Requests
<1>4. ASSUME NEW c \in live, WaitIO(c) PROVE UNCHANGED Requests
  BY <1>4 DEF WaitIO, Requests, hist
<1> QED BY <1>1, <1>2, <1>3, <1>4, Steps

-----------------------------------------------------------------------------
(* IInv is inductive.                                                      *)

(* The initial states satisfy the invariant.                               *)
LEMMA InitIInv == Init => IInv
<1> SUFFICES ASSUME Init PROVE IInv
  OBVIOUS
<1> USE DEF Init
<1>1. TypeThread /\ TypeEpoll
  BY DEF TypeThread, TypeEpoll, Ops
<1>0. TypeRequest
  <2>1. REQUEST_TIMEOUT \in Int /\ 0 \in 0..RESPONSE_SIZE
    BY SizesAssumption
  <2> QED BY <2>1 DEF TypeRequest
<1>2. TypeBuffer
  BY DEF TypeBuffer, Buffer, NoBuffer
<1>3. TypeTokens /\ TypeWire
  BY SizesAssumption DEF TypeTokens, TypeWire
<1>4. TypeHist
  BY DEF TypeHist, Unit
<1>5. UnitsInScript
  BY DEF UnitsInScript, NoBuffer
<1>6. Pending
  BY DEF Pending, Fresh, NoBuffer
<1>7. Control /\ Events /\ Counts
  BY DEF Control, Busy, Events, Counts
<1> QED BY <1>0, <1>1, <1>2, <1>3, <1>4, <1>5, <1>6, <1>7 DEF IInv, TypeOK

(* Every step keeps the invariant.                                         *)
LEMMA NextIInv == IInv /\ [Next]_vars => IInv'
BY Typed, UnitsStayInScript, PendingKept, ControlKept, EventsKept, CountsKept DEF IInv

(* The invariant holds in every state of every behaviour.                  *)
LEMMA Invariance == Spec => []IInv
<1>1. Init => IInv
  BY InitIInv
<1>2. IInv /\ [Next]_vars => IInv'
  BY NextIInv
<1> QED BY <1>1, <1>2, PTL DEF Spec

-----------------------------------------------------------------------------
(* Every variable of the event loop keeps its type, the write offset never *)
(* passes the end of the response and the send buffer is never overdrawn.  *)
THEOREM TypeCorrect == Spec => []TypeOK
<1>1. IInv => TypeOK
  BY DEF IInv
<1> QED BY <1>1, Invariance, PTL

(* No handler of any event reaches a request that was freed, and nothing   *)
(* of a freed request is left in epoll.                                    *)
THEOREM FreedIsGone == Spec => []NoUseAfterFree
<1>1. IInv => NoUseAfterFree
  BY DEF IInv, NoUseAfterFree, Control, Busy, WorkingOn, Events
<1> QED BY <1>1, Invariance, PTL

(* Whenever the thread is in epoll_wait every connection is either being   *)
(* read into a request buffer or has part of a response left to write.     *)
THEOREM BufferAlwaysFitsState == Spec => []BufferFitsState
<1>1. IInv => BufferFitsState
  BY DEF IInv, BufferFitsState, Control, Busy, Waiting
<1> QED BY <1>1, Invariance, PTL

(* The handler is called once per response, however the client pipelines,  *)
(* half closes or resets and whatever the timers do.                       *)
THEOREM HandlerOncePerResponse == Spec => []OneAnswerEach
<1>1. IInv => OneAnswerEach
  BY DEF IInv, OneAnswerEach, Counts
<1> QED BY <1>1, Invariance, PTL

(* The timer handler never finds a count that has passed zero, so that     *)
(* testing it for equality with zero is enough.                            *)
THEOREM TimerStopsInTime == Spec => []TimeoutInRange
<1>1. IInv => TimeoutInRange
  BY DEF IInv, TimeoutInRange, Control, Busy, Waiting
<1> QED BY <1>1, Invariance, PTL

-----------------------------------------------------------------------------
(* Memory and events.  Each step of a handler changes one buffer, and      *)
(* memused by as much, but for the room that is made for a small body.     *)
(* A connection the thread does not work on is awake, and the thread       *)
(* leaves the one it works on awake, because every read and write goes on  *)
(* until the kernel has no more to give or the mask is set anew.           *)

Caps == [c \in Conns |-> buffer[c].cap]

(* The sum is the one of the lemmas about sums, before and after a step.   *)
LEMMA CapsSum == SumFunction(Caps) = Sum(Caps, Conns) /\ SumFunction(Caps') = Sum(Caps', Conns)
BY DEF SumFunction, Sum, Caps

(* A buffer that is read into never has less room than it started with,    *)
(* and no buffer has none.                                                 *)
Room(c) ==
  /\ buffer[c].kind = "request" => buffer[c].cap >= REQUEST_BUF_SIZE
  /\ buffer[c].kind = "null" => buffer[c].cap = 0
Rooms == \A c \in Conns : Room(c)

(* Every body that is taken whole has room in the first buffer, with the   *)
(* head in front of it.                                                    *)
BodiesFit ==
  \A c \in Conns : \A k \in DOMAIN Script[c] :
    Script[c][k].kind = "small" => Units(Script[c][k]) <= REQUEST_BUF_SIZE

(* memused never says more than is allocated (httpserver.h:76-78).         *)
MemNeverOver == memused <= SumFunction(Caps)

(* memused is just what is allocated.                                      *)
MemExact == memused = SumFunction(Caps)

(* One buffer changes, and memused and what it leaves out by as much; no   *)
(* room is left out where none is made for bodies.                         *)
Counted(c) ==
  /\ \A d \in Conns \ {c} : buffer'[d] = buffer[d]
  /\ Room(c)'
  /\ memused' + uncounted' = memused + uncounted - buffer[c].cap + buffer'[c].cap
  /\ BodiesFit => uncounted' = uncounted

-----------------------------------------------------------------------------
(* A read buffer is doubled, up to its largest size, or keeps its room.    *)
LEMMA ReadBytesRoom ==
  ASSUME IInv, Rooms, NEW c \in live, ReadBytes(c)
  PROVE  /\ buffer'[c].cap \in Nat /\ buffer'[c].cap >= REQUEST_BUF_SIZE
         /\ buffer'[c].kind = "request"
         /\ memused' = memused - buffer[c].cap + buffer'[c].cap
<1> USE DEF IInv, TypeOK, TypeRequest, TypeBuffer, Buffer
<1> DEFINE b    == buffer[c]
           n    == IF Len(inq[c]) < b.cap - Len(b.data) THEN Len(inq[c]) ELSE b.cap - Len(b.data)
           data == b.data \o SubSeq(inq[c], 1, n)
           cap  == IF Len(data) < b.cap THEN b.cap
                   ELSE IF 2 * b.cap > MAX_REQUEST_BUF_SIZE THEN MAX_REQUEST_BUF_SIZE ELSE 2 * b.cap
<1>1. /\ buffer' = [buffer EXCEPT ![c].data = data, ![c].cap = cap]
      /\ memused' = memused - b.cap + cap /\ op = "fill" /\ c = cur
  BY DEF ReadBytes
<1>2. b \in Buffer /\ b.kind = "request" /\ b.cap \in Nat /\ b.cap >= REQUEST_BUF_SIZE
  BY <1>1 DEF Control, Busy, WorkingOn, Rooms, Room
<1> HIDE DEF n, data
<1>3. cap \in Nat /\ cap >= REQUEST_BUF_SIZE
  BY <1>2, SizesAssumption
<1>4. buffer'[c].cap = cap /\ buffer'[c].kind = buffer[c].kind
  BY <1>1
<1> HIDE DEF cap
<1> QED BY <1>1, <1>2, <1>3, <1>4

(* The end of a head makes room, if the first buffer has too little.       *)
LEMMA ParseMoreRoom ==
  ASSUME IInv, Rooms, NEW c \in live, ParseMore(c)
  PROVE  /\ buffer'[c].cap \in Nat /\ buffer'[c].cap >= buffer[c].cap
         /\ uncounted' = uncounted + buffer'[c].cap - buffer[c].cap
         /\ buffer[c].cap >= REQUEST_BUF_SIZE /\ buffer'[c].kind = "request"
         /\ BodiesFit => buffer'[c].cap = buffer[c].cap
<1> USE DEF IInv, TypeOK, TypeRequest, TypeBuffer, Buffer
<1>1. /\ op = "parse" /\ c = cur /\ ~Complete(c)
      /\ IF HeadDone(c)
         THEN /\ buffer' = [buffer EXCEPT ![c].cap =
                               IF Units(Parsed(c)) > @ THEN Units(Parsed(c)) ELSE @]
              /\ uncounted' = uncounted + buffer'[c].cap - buffer[c].cap
         ELSE UNCHANGED <<buffer, uncounted>>
  BY DEF ParseMore
<1>2. buffer[c] \in Buffer /\ buffer[c].kind = "request" /\ buffer[c].cap >= REQUEST_BUF_SIZE
  BY <1>1 DEF Control, Busy, WorkingOn, Rooms, Room
<1>3. CASE ~HeadDone(c)
  <2>1. buffer' = buffer /\ uncounted' = uncounted
    BY <1>1, <1>3
  <2>2. uncounted \in Nat
    BY DEF TypeHist
  <2> QED BY <1>2, <2>1, <2>2
<1>4. CASE HeadDone(c)
  <2>1. Parsed(c).kind = "small"
    BY <1>1, <1>4 DEF Complete
  <2>2. Current(c) \in DOMAIN Script[c] /\ Parsed(c) \in Request
    BY <1>4, ParsedType DEF HeadDone
  <2>3. Units(Parsed(c)) \in Nat
    BY <2>2 DEF Units, Request
  <2>4. BodiesFit => Units(Parsed(c)) <= REQUEST_BUF_SIZE
    BY <2>1, <2>2 DEF BodiesFit, Parsed
  <2>5. /\ buffer'[c].cap = IF Units(Parsed(c)) > buffer[c].cap THEN Units(Parsed(c))
                            ELSE buffer[c].cap
        /\ buffer'[c].kind = buffer[c].kind
    <3> DEFINE room == IF Units(Parsed(c)) > buffer[c].cap THEN Units(Parsed(c)) ELSE buffer[c].cap
    <3>1. buffer' = [buffer EXCEPT ![c].cap = room]
      BY <1>1, <1>4
    <3> HIDE DEF room
    <3>2. buffer'[c].cap = room /\ buffer'[c].kind = buffer[c].kind
      BY <1>2, <3>1
    <3> QED BY <3>2 DEF room
  <2>6. buffer[c].cap \in Nat /\ buffer[c].cap >= REQUEST_BUF_SIZE /\ REQUEST_BUF_SIZE \in Nat
    BY <1>2, SizesAssumption
  <2>7. uncounted' = uncounted + buffer'[c].cap - buffer[c].cap
    BY <1>1, <1>4
  <2> QED BY <1>2, <2>3, <2>4, <2>5, <2>6, <2>7
<1> QED BY <1>3, <1>4

(* Every step either leaves the memory alone or changes one buffer and the *)
(* count with it.                                                          *)
LEMMA MemorySteps ==
  ASSUME IInv, Rooms, [Next]_vars
  PROVE  UNCHANGED <<memused, buffer, uncounted>> \/ \E c \in Conns : Counted(c)
<1> USE SizesAssumption DEF IInv, TypeOK, TypeRequest, TypeBuffer, Buffer, Rooms, Room
<1>0. memused \in Int /\ uncounted \in Int
  BY DEF TypeHist
<1>1. ASSUME NEW c \in live, Working(c)
      PROVE  UNCHANGED <<memused, buffer, uncounted>> \/ Counted(c)
  <2>0. c \in Conns /\ (\A d \in Conns \ {c} : buffer'[d] = buffer[d]) /\ buffer[c].cap \in Nat
    BY <1>1, WorkingFrame DEF Others
  <2>1. CASE Terminate(c) /\ memused' = memused - buffer[c].cap /\ uncounted' = uncounted
    BY <1>0, <2>0, <2>1 DEF Terminate, Counted, NoBuffer
  <2>2. CASE EnterRead(c)
    <3>1. CASE buffer[c].kind = "null"
      <4>1. buffer[c].cap = 0
        BY <3>1
      <4>2. /\ buffer' = [buffer EXCEPT ![c] = ReadBuffer] /\ uncounted' = uncounted
            /\ memused' = memused + REQUEST_BUF_SIZE
        BY <2>2, <3>1 DEF EnterRead, hist
      <4> QED BY <1>0, <2>0, <4>1, <4>2 DEF Counted, ReadBuffer
    <3> QED BY <2>2, <3>1 DEF EnterRead, hist
  <2>3. CASE ReadBytes(c)
    <3>1. uncounted' = uncounted
      BY <2>3 DEF ReadBytes, hist
    <3>2. /\ buffer'[c].cap \in Nat /\ buffer'[c].cap >= REQUEST_BUF_SIZE
          /\ buffer'[c].kind = "request" /\ memused' = memused - buffer[c].cap + buffer'[c].cap
      BY <2>3, ReadBytesRoom
    <3>3. Room(c)'
      BY <3>2
    <3>4. memused' + uncounted' = memused + uncounted - buffer[c].cap + buffer'[c].cap
      BY <1>0, <2>0, <3>1, <3>2
    <3> QED BY <2>0, <3>1, <3>3, <3>4 DEF Counted
  <2>4. CASE ParseMore(c)
    <3>1. memused' = memused
      BY <2>4 DEF ParseMore
    <3>2. /\ buffer'[c].cap \in Nat /\ buffer'[c].cap >= buffer[c].cap
          /\ uncounted' = uncounted + buffer'[c].cap - buffer[c].cap
          /\ buffer[c].cap >= REQUEST_BUF_SIZE /\ buffer'[c].kind = "request"
          /\ BodiesFit => buffer'[c].cap = buffer[c].cap
      BY <2>4, ParseMoreRoom
    <3>3. Room(c)'
      BY <3>2
    <3>4. memused' + uncounted' = memused + uncounted - buffer[c].cap + buffer'[c].cap
      BY <1>0, <2>0, <3>1, <3>2
    <3>5. BodiesFit => uncounted' = uncounted
      BY <1>0, <2>0, <3>2
    <3> QED BY <2>0, <3>3, <3>4, <3>5 DEF Counted
  <2>5. CASE Handle(c)
    <3>1. /\ buffer' = [buffer EXCEPT ![c] = ResponseBuffer] /\ uncounted' = uncounted
          /\ memused' = memused + RESPONSE_SIZE - buffer[c].cap
      BY <2>5 DEF Handle
    <3> QED BY <1>0, <2>0, <3>1 DEF Counted, ResponseBuffer
  <2>6. CASE WriteKeepAlive(c)
    <3>1. /\ buffer' = [buffer EXCEPT ![c] = NoBuffer] /\ uncounted' = uncounted
          /\ memused' = memused - buffer[c].cap
      BY <2>6 DEF WriteKeepAlive, WriteSocket
    <3> QED BY <1>0, <2>0, <3>1 DEF Counted, NoBuffer
  <2>7. CASE ReadFails(c) \/ ParseStuck(c) \/ ParseDone(c) \/ WriteMore(c) \/ Rewrite(c)
    BY <2>7 DEF ReadFails, ParseStuck, ParseDone, WriteMore, Rewrite, WriteSocket, hist
  <2>8. CASE WaitTimer(c) \/ ReadEof(c) \/ WriteError(c) \/ WriteClose(c)
    BY <2>1, <2>8 DEF WaitTimer, ReadEof, WriteError, WriteClose, Terminate, WriteSocket, hist
  <2> QED BY <1>1, <2>2, <2>3, <2>4, <2>5, <2>6, <2>7, <2>8 DEF Working
<1>2. ASSUME NEW c \in Conns, Accept(c)
      PROVE  UNCHANGED <<memused, buffer, uncounted>> \/ Counted(c)
  <2>1. buffer[c].cap = 0
    <3>1. backlog # <<>> /\ c = Head(backlog) /\ backlog \in Seq(Conns)
      BY <1>2 DEF Accept, TypeWire
    <3>2. c = backlog[1] /\ 1 \in 1..Len(backlog)
      BY <3>1, EmptySeq, LenProperties
    <3>3. Fresh(c)
      BY <3>2 DEF Pending
    <3> QED BY <3>3 DEF Fresh
  <2>2. /\ \/ UNCHANGED <<buffer, memused>>
           \/ buffer' = [buffer EXCEPT ![c] = ResponseBuffer] /\ memused' = memused + RESPONSE_SIZE
        /\ uncounted' = uncounted
    BY <1>2 DEF Accept, hist
  <2> QED BY <1>0, <2>1, <2>2 DEF Counted, ResponseBuffer
<1>3. CASE ClientSteps \/ AcceptStop \/ WaitListen \/ UNCHANGED vars
  BY <1>3 DEF ClientSteps, Client, Connect, Send, Fin, Rst, Drain, Expire, AcceptStop, WaitListen,
              vars, hist
<1>4. ASSUME NEW c \in live, WaitIO(c) PROVE UNCHANGED <<memused, buffer, uncounted>>
  BY <1>4 DEF WaitIO, hist
<1> QED BY <1>1, <1>2, <1>3, <1>4, Steps

-----------------------------------------------------------------------------
(* What the count is worth: what it leaves out is the room made for bodies *)
(* that need more than the first buffer, and nothing where none do.        *)
MemInv ==
  /\ IInv /\ Rooms /\ MemAccounted
  /\ BodiesFit => uncounted = 0

(* At first there is no buffer.                                            *)
LEMMA MemInit == Init => MemInv
<1> SUFFICES ASSUME Init PROVE MemInv
  OBVIOUS
<1>1. Rooms /\ \A c \in Conns : Caps[c] = 0
  BY DEF Init, Rooms, Room, NoBuffer, Caps
<1>2. memused = 0 /\ uncounted = 0 /\ Sum(Caps, Conns) = 0
  BY <1>1, SumOfZeros, ConnsAssumption DEF Init
<1> QED BY <1>1, <1>2, InitIInv, CapsSum DEF MemInv, MemAccounted, Caps

(* A step changes memused, with what it leaves out, as it changes the      *)
(* buffers.                                                                *)
LEMMA MemNext == MemInv /\ [Next]_vars => MemInv'
<1> SUFFICES ASSUME MemInv, [Next]_vars PROVE MemInv'
  OBVIOUS
<1>1. IInv /\ Rooms /\ IInv'
  BY NextIInv DEF MemInv
<1>2. /\ \A c \in Conns : Caps[c] \in Int /\ Caps'[c] \in Int
      /\ memused \in Int /\ memused' \in Int /\ uncounted \in Int /\ uncounted' \in Int
  BY <1>1 DEF IInv, TypeOK, TypeBuffer, Buffer, TypeHist, Caps
<1>3. /\ MemAccounted <=> memused + uncounted = Sum(Caps, Conns)
      /\ MemAccounted' <=> memused' + uncounted' = Sum(Caps', Conns)
  BY CapsSum DEF MemAccounted, Caps
<1>4. Sum(Caps, Conns) \in Int /\ Sum(Caps', Conns) \in Int
  BY <1>2, SumIsNumber, ConnsAssumption
<1>5. CASE UNCHANGED <<memused, buffer, uncounted>>
  <2>1. Rooms'
    BY <1>1, <1>5 DEF Rooms, Room
  <2>2. Sum(Caps', Conns) = Sum(Caps, Conns)
    BY <1>5 DEF Caps
  <2> QED BY <1>1, <1>3, <1>5, <2>1, <2>2 DEF MemInv, BodiesFit
<1>6. ASSUME NEW c \in Conns, Counted(c) PROVE MemInv'
  <2>1. Rooms'
    BY <1>1, <1>6 DEF Counted, Rooms, Room
  <2>2. \A d \in Conns \ {c} : Caps'[d] = Caps[d]
    BY <1>6 DEF Counted, Caps
  <2>3. Sum(Caps', Conns) = Sum(Caps, Conns) - Caps[c] + Caps'[c]
    BY <1>2, <2>2, SumOfChange, ConnsAssumption
  <2>4. memused' + uncounted' = memused + uncounted - Caps[c] + Caps'[c]
    BY <1>6 DEF Counted, Caps
  <2>5. MemAccounted /\ (BodiesFit => uncounted = 0) /\ (BodiesFit' <=> BodiesFit)
    BY DEF MemInv, BodiesFit
  <2>6. Caps[c] \in Int /\ Caps'[c] \in Int
    BY <1>2
  <2>7. MemAccounted'
    BY <1>2, <1>3, <1>4, <2>3, <2>4, <2>5, <2>6
  <2>8. BodiesFit => uncounted' = 0
    BY <1>6, <2>5 DEF Counted
  <2> QED BY <1>1, <2>1, <2>5, <2>7, <2>8 DEF MemInv
<1> QED BY <1>1, <1>5, <1>6, MemorySteps

(* The strengthened invariant holds in every state of every behaviour.     *)
LEMMA MemInvariance == Spec => []MemInv
<1>1. Init => MemInv
  BY MemInit
<1>2. MemInv /\ [Next]_vars => MemInv'
  BY MemNext
<1> QED BY <1>1, <1>2, PTL DEF Spec

(* The count differs from what is allocated by the room made for bodies,   *)
(* and by nothing else, whatever the requests: httpserver.h:1686 is the    *)
(* only place that takes memory without counting it.                       *)
THEOREM MemoryExact == Spec => []MemAccounted
<1>1. MemInv => MemAccounted
  BY DEF MemInv
<1> QED BY <1>1, MemInvariance, PTL

(* The server never counts more memory than its buffers hold, whatever the *)
(* requests: a 503 for want of memory is given only when the buffers       *)
(* really hold more than the limit.                                        *)
THEOREM MemoryNeverOverstated == Spec => []MemNeverOver
<1>1. ASSUME MemInv PROVE MemNeverOver
  <2>1. memused + uncounted = Sum(Caps, Conns)
    BY <1>1, CapsSum DEF MemInv, MemAccounted, Caps
  <2>2. memused \in Int /\ uncounted \in Nat /\ \A c \in Conns : Caps[c] \in Int
    BY <1>1 DEF MemInv, IInv, TypeOK, TypeBuffer, Buffer, TypeHist, Caps
  <2>3. Sum(Caps, Conns) \in Int
    BY <2>2, SumIsNumber, ConnsAssumption
  <2>4. memused <= Sum(Caps, Conns)
    BY <2>1, <2>2, <2>3
  <2> QED BY <2>4, CapsSum DEF MemNeverOver
<1> QED BY <1>1, MemInvariance, PTL

(* Where every small body fits in the first buffer with its head, the      *)
(* count is just what is allocated, at every step of every handler.        *)
THEOREM MemoryExactIfBodiesFit ==
  ASSUME BodiesFit
  PROVE  Spec => []MemExact
<1>1. ASSUME MemInv PROVE MemExact
  <2>1. memused + uncounted = Sum(Caps, Conns) /\ uncounted = 0
    BY <1>1, CapsSum DEF MemInv, MemAccounted, Caps
  <2>2. memused \in Int
    BY <1>1 DEF MemInv, IInv, TypeOK, TypeBuffer
  <2> QED BY <2>1, <2>2, CapsSum DEF MemExact
<1> QED BY <1>1, MemInvariance, PTL

-----------------------------------------------------------------------------
(* What NoLostWakeup says of one connection.                               *)
Awaited(c) ==
  \/ /\ state[c] = "READ" /\ phase[c] # "stuck" /\ buffer[c].cap < MAX_REQUEST_BUF_SIZE
     /\ inq[c] # <<>> \/ peer[c] = "fin"
  \/ state[c] = "WRITE" /\ space[c] > 0 /\ peer[c] # "rst"
Awake(c) == Awaited(c) => c \in ioReady

(* The thread is still reading from or writing to the connection.          *)
Serving(c) == op \in {"read", "fill", "handle", "write"} /\ c = cur

(* A socket has an error to report only after a reset.                     *)
Wakeups ==
  /\ \A c \in live : Serving(c) \/ Awake(c)
  /\ \A c \in Conns : serr[c] # "none" => peer[c] = "rst"

(* Nothing an event may be about changes but for the request worked on.    *)
Asleep(c) ==
  \A d \in Conns \ {c} :
    /\ d \in ioReady' <=> d \in ioReady
    /\ phase'[d] = phase[d] /\ inq'[d] = inq[d] /\ space'[d] = space[d] /\ serr'[d] = serr[d]

(* A step on one request leaves the events of all others alone.            *)
LEMMA WakeFrame ==
  ASSUME IInv, NEW c \in Conns, Working(c) \/ Accept(c)
  PROVE  Asleep(c)
<1> USE DEF IInv, TypeOK, TypeRequest, TypeEpoll, TypeWire, TypeBuffer
<1>1. ASSUME Terminate(c) \/ \E mask : Watch(c, mask)
      PROVE  \A d \in Conns \ {c} : d \in ioReady' <=> d \in ioReady
  BY <1>1 DEF Terminate, Watch
<1>2. ASSUME WriteSocket(c)
      PROVE  \A d \in Conns \ {c} : phase'[d] = phase[d] /\ inq'[d] = inq[d]
                                    /\ space'[d] = space[d] /\ serr'[d] = serr[d]
  BY <1>2 DEF WriteSocket, parse
<1>3. CASE WaitTimer(c)
  <2>1. UNCHANGED <<phase, inq, space, serr>>
    BY <1>3 DEF WaitTimer, parse, wire
  <2>2. Terminate(c) \/ UNCHANGED ioReady
    BY <1>3 DEF WaitTimer
  <2> QED BY <1>1, <2>1, <2>2 DEF Asleep
<1>4. CASE EnterRead(c)
  <2>1. /\ UNCHANGED <<ioReady, inq, space, serr>>
        /\ phase' = [phase EXCEPT ![c] = "head"] \/ UNCHANGED phase
    BY <1>4 DEF EnterRead, epoll, wire
  <2> QED BY <2>1 DEF Asleep
<1>5. CASE ReadBytes(c)
  <2>1. /\ UNCHANGED <<ioReady, space, serr>>
        /\ \A d \in Conns \ {c} : phase'[d] = phase[d] /\ inq'[d] = inq[d]
    BY <1>5 DEF ReadBytes, epoll
  <2> QED BY <2>1 DEF Asleep
<1>6. CASE ReadEof(c)
  <2>1. Terminate(c) /\ UNCHANGED <<phase, inq, space, serr>>
    BY <1>6 DEF ReadEof, parse, wire
  <2> QED BY <1>1, <2>1 DEF Asleep
<1>7. CASE ReadFails(c)
  <2>1. /\ UNCHANGED <<phase, inq, space, ioReady>>
        /\ \A d \in Conns \ {c} : serr'[d] = serr[d]
    BY <1>7 DEF ReadFails, parse, epoll
  <2> QED BY <2>1 DEF Asleep
<1>8. CASE ParseStuck(c) \/ ParseMore(c) \/ ParseDone(c)
  <2>1. /\ UNCHANGED <<inq, space, serr, ioReady>>
        /\ \A d \in Conns \ {c} : phase'[d] = phase[d]
    BY <1>8 DEF ParseStuck, ParseMore, ParseDone, epoll, wire
  <2> QED BY <2>1 DEF Asleep
<1>9. CASE Handle(c) \/ Rewrite(c)
  <2>1. (\E mask : Watch(c, mask)) /\ UNCHANGED <<phase, inq, space, serr>>
    BY <1>9 DEF Handle, Rewrite, parse, wire
  <2> QED BY <1>1, <2>1 DEF Asleep
<1>10. CASE WriteError(c) \/ WriteClose(c)
  <2>1. WriteSocket(c) /\ Terminate(c)
    BY <1>10 DEF WriteError, WriteClose
  <2> QED BY <1>1, <1>2, <2>1 DEF Asleep
<1>11. CASE WriteMore(c)
  <2>1. WriteSocket(c) /\ UNCHANGED ioReady
    BY <1>11 DEF WriteMore, epoll
  <2> QED BY <1>2, <2>1 DEF Asleep
<1>12. CASE WriteKeepAlive(c)
  <2>1. WriteSocket(c) /\ \E mask : Watch(c, mask)
    BY <1>12 DEF WriteKeepAlive
  <2> QED BY <1>1, <1>2, <2>1 DEF Asleep
<1>13. CASE Accept(c)
  <2>1. (\E mask : Watch(c, mask)) /\ UNCHANGED <<phase, inq, space, serr>>
    BY <1>13 DEF Accept, parse
  <2> QED BY <1>1, <2>1 DEF Asleep
<1> QED BY <1>3, <1>4, <1>5, <1>6, <1>7, <1>8, <1>9, <1>10, <1>11, <1>12, <1>13 DEF Working

(* While the thread serves another, the mask of a connection is the one    *)
(* its state needs.                                                        *)
LEMMA MaskFits ==
  ASSUME IInv, NEW c \in live, ~Serving(c)
  PROVE  /\ state[c] = "READ" => interest[c] = "in"
         /\ state[c] = "WRITE" => interest[c] = "out"
<1>1. CASE Busy /\ c = cur
  BY <1>1 DEF IInv, Control, WorkingOn, Busy, Serving
<1>2. CASE ~(Busy /\ c = cur)
  BY <1>2 DEF IInv, Control, Waiting
<1> QED BY <1>1, <1>2

(* No step of a client puts a connection to sleep: what it changes raises  *)
(* an edge, if anybody waits for it.                                       *)
LEMMA ClientWakes ==
  ASSUME IInv, Wakeups, UNCHANGED Requests, ClientSteps
  PROVE  Wakeups'
<1> USE DEF IInv, TypeOK, TypeRequest, TypeEpoll, TypeWire
<1>1. PICK c \in Conns : Client(c) \/ Expire(c)
  BY DEF ClientSteps
<1>2. UNCHANGED <<op, cur, live, state, phase, buffer, interest>>
  BY <1>1 DEF Client, Connect, Send, Fin, Rst, Drain, Expire, thread, parse, Requests
<1>3. ioReady \subseteq ioReady'
  BY <1>1 DEF Client, Connect, Send, Fin, Rst, Drain, Expire, Edge
<1>4. \A d \in Conns : serr'[d] # "none" => peer'[d] = "rst"
  BY ZenonT(60), <1>1 DEF Client, Connect, Send, Fin, Rst, Drain, Expire, wire, Wakeups
<1>5. ASSUME NEW d \in live, ~Serving(d) PROVE Awake(d)'
  <2>1. CASE d # c
    <3>1. inq'[d] = inq[d] /\ peer'[d] = peer[d] /\ space'[d] = space[d]
      BY <1>1, <2>1 DEF Client, Connect, Send, Fin, Rst, Drain, Expire, wire
    <3> QED BY <1>2, <1>3, <1>5, <3>1 DEF Wakeups, Awake, Awaited
  <2>2. CASE d = c /\ (Send(c) \/ Fin(c))
    <3>1. UNCHANGED space /\ Edge(c, interest[c] = "in") /\ (peer'[c] = "rst" <=> peer[c] = "rst")
      BY <2>2 DEF Send, Fin
    <3> QED BY <1>2, <1>3, <1>5, <2>2, <3>1, MaskFits DEF Wakeups, Awake, Awaited, Edge
  <2>3. CASE d = c /\ Rst(c)
    BY <1>2, <1>3, <1>5, <2>3 DEF Awake, Edge, Rst
  <2>4. CASE d = c /\ Drain(c)
    <3>1. UNCHANGED <<inq, peer>> /\ Edge(c, interest[c] = "out")
      BY <2>4 DEF Drain
    <3> QED BY <1>2, <1>3, <1>5, <2>4, <3>1, MaskFits DEF Wakeups, Awake, Awaited, Edge
  <2>5. CASE d = c /\ Expire(c)
    BY <1>2, <1>3, <1>5, <2>5 DEF Expire, wire, Wakeups, Awake, Awaited
  <2>6. ~Connect(d)
    BY DEF Connect, Pending, Fresh
  <2> QED BY <1>1, <2>1, <2>2, <2>3, <2>4, <2>5, <2>6 DEF Client
<1> QED BY <1>2, <1>4, <1>5 DEF Wakeups, Serving

(* A step of the thread on a request leaves it awake, unless the thread    *)
(* goes on with it.                                                        *)
LEMMA WorkWakes ==
  ASSUME IInv, Rooms, Wakeups, NEW c \in live, Working(c), c \in live'
  PROVE  Serving(c)' \/ Awake(c)'
<1> USE DEF IInv, TypeOK, TypeRequest, TypeEpoll, TypeWire, TypeBuffer
<1>0. UNCHANGED peer /\ c \in Conns
  BY WorkingFrame
<1>1. ASSUME Terminate(c) PROVE FALSE
  BY <1>1 DEF Terminate
<1>2. CASE WaitTimer(c)
  <2>1. op = "wait" /\ UNCHANGED <<state, phase, buffer, inq, peer, space, ioReady>>
    BY <1>1, <1>2 DEF WaitTimer, parse, wire
  <2> QED BY <2>1 DEF Wakeups, Serving, Awake, Awaited
<1>3. CASE EnterRead(c)
  <2>1. state'[c] = "READ" /\ c = cur' /\ (op' = "fill" \/ phase'[c] = "stuck")
    BY <1>3 DEF EnterRead
  <2> QED BY <2>1 DEF Serving, Awake, Awaited
<1>4. CASE ReadBytes(c)
  <2>1. c = cur /\ op = "fill" /\ UNCHANGED <<cur, state>>
    BY <1>4 DEF ReadBytes
  <2>2. state[c] = "READ"
    BY <2>1 DEF Control, Busy, WorkingOn
  <2>3. op' = IF buffer'[c].cap < MAX_REQUEST_BUF_SIZE THEN "fill" ELSE "parse"
    BY <1>0, <1>4 DEF ReadBytes, Buffer
  <2> QED BY <2>1, <2>2, <2>3 DEF Serving, Awake, Awaited
<1>5. CASE ReadFails(c)
  <2>1. /\ c = cur /\ op = "fill" /\ UNCHANGED <<state, inq>> /\ inq[c] = <<>>
        /\ peer[c] = "open" \/ serr[c] = "reset"
    BY <1>5 DEF ReadFails
  <2>2. state[c] = "READ" /\ peer'[c] # "fin"
    BY <1>0, <2>1 DEF Control, Busy, WorkingOn, Wakeups
  <2> QED BY <2>1, <2>2 DEF Awake, Awaited
<1>6. CASE ParseStuck(c)
  <2>1. op = "parse" /\ UNCHANGED <<state, inq, space, ioReady, buffer>>
    BY <1>6 DEF ParseStuck, wire, epoll
  <2>2. phase'[c] # "stuck" => phase[c] # "stuck"
    BY <1>6 DEF ParseStuck, Halted
  <2> QED BY <1>0, <2>1, <2>2 DEF Wakeups, Serving, Awake, Awaited
<1>7. CASE ParseMore(c)
  <2>1. op = "parse" /\ phase[c] # "stuck" /\ UNCHANGED <<state, inq, space, ioReady>>
    BY <1>7 DEF ParseMore, Halted, wire, epoll
  <2>2. buffer'[c].cap \in Nat /\ buffer'[c].cap >= buffer[c].cap
    BY <1>7, ParseMoreRoom
  <2>3. buffer[c].cap \in Nat /\ MAX_REQUEST_BUF_SIZE \in Nat
    BY <1>0, SizesAssumption DEF Buffer
  <2>4. buffer'[c].cap < MAX_REQUEST_BUF_SIZE => buffer[c].cap < MAX_REQUEST_BUF_SIZE
    BY <2>2, <2>3
  <2> QED BY <1>0, <2>1, <2>4 DEF Wakeups, Serving, Awake, Awaited
<1>8. CASE ParseDone(c) \/ Handle(c) \/ WriteKeepAlive(c) \/ Rewrite(c)
  BY <1>8 DEF ParseDone, Handle, WriteKeepAlive, Rewrite, WriteSocket, Serving
<1>9. CASE WriteMore(c)
  <2>1. /\ op = "write" /\ c = cur /\ UNCHANGED state
        /\ written'[c] = written[c] + Taken(c) /\ space'[c] = space[c] - Taken(c)
        /\ written'[c] # RESPONSE_SIZE
    BY <1>0, <1>9 DEF WriteMore, WriteSocket, All
  <2>2. state'[c] = "WRITE"
    BY <2>1 DEF Control, Busy, WorkingOn
  <2>3. CASE serr[c] # "none"
    BY <1>0, <2>2, <2>3 DEF Wakeups, Awake, Awaited
  <2>4. CASE serr[c] = "none"
    <3>1. written[c] \in Nat /\ space[c] \in Nat /\ RESPONSE_SIZE \in Nat
      BY <1>0, SizesAssumption
    <3>2. Taken(c) = space[c]
      BY <2>1, <2>4, <3>1 DEF Taken, Remaining
    <3>3. space'[c] = 0
      BY <2>1, <3>1, <3>2
    <3> QED BY <2>2, <3>3 DEF Awake, Awaited
  <2> QED BY <2>3, <2>4
<1>10. CASE ReadEof(c) \/ WriteError(c) \/ WriteClose(c)
  BY <1>1, <1>10 DEF ReadEof, WriteError, WriteClose
<1> QED BY <1>2, <1>3, <1>4, <1>5, <1>6, <1>7, <1>8, <1>9, <1>10 DEF Working

(* Every step keeps all connections awake that nobody serves.              *)
LEMMA WakeNext ==
  ASSUME IInv, Rooms, Wakeups, [Next]_vars
  PROVE  Wakeups'
<1> USE DEF IInv, TypeOK, TypeRequest, TypeEpoll, TypeWire
<1>1. ASSUME NEW c \in live, Working(c) PROVE Wakeups'
  <2>1. c \in Conns /\ Others(c) /\ Asleep(c) /\ UNCHANGED peer
    BY <1>1, WorkingFrame, WakeFrame
  <2>2. c = cur \/ op = "wait"
    BY <1>1 DEF Working, WaitTimer, EnterRead, ReadBytes, ReadEof, ReadFails, ParseStuck, ParseMore,
                ParseDone, Handle, WriteError, WriteMore, WriteClose, WriteKeepAlive, WriteSocket,
                Rewrite
  <2>3. ASSUME NEW d \in live', d # c PROVE Awake(d)'
    <3>1. d \in live /\ d \in Conns \ {c} /\ ~Serving(d)
      BY <2>1, <2>2, <2>3, Typed DEF Others, Serving
    <3> QED BY <2>1, <3>1 DEF Wakeups, Others, Asleep, Awake, Awaited
  <2>4. serr'[c] # "none" => serr[c] # "none"
    BY <1>1, <2>1 DEF Working, WaitTimer, EnterRead, ReadBytes, ReadEof, ReadFails, ParseStuck,
                ParseMore, ParseDone, Handle, WriteError, WriteMore, WriteClose, WriteKeepAlive,
                WriteSocket, Rewrite, wire
  <2>5. \A d \in Conns : serr'[d] # "none" => peer'[d] = "rst"
    BY <2>1, <2>4 DEF Asleep, Wakeups
  <2>6. c \in live' => Serving(c)' \/ Awake(c)'
    BY <1>1, WorkWakes
  <2> QED BY <2>3, <2>5, <2>6 DEF Wakeups
<1>2. ASSUME NEW c \in Conns, Accept(c) PROVE Wakeups'
  <2>1. /\ op = "accept" /\ op' \in {"read", "write"} /\ cur' = c /\ live' = live \cup {c}
        /\ UNCHANGED <<peer, serr>>
        /\ \A d \in Conns \ {c} : state'[d] = state[d] /\ buffer'[d] = buffer[d]
    BY <1>2 DEF Accept, Call, TypeBuffer
  <2>2. Asleep(c)
    BY <1>2, WakeFrame
  <2>3. ASSUME NEW d \in live, d # c PROVE Awake(d)'
    <3>1. Awake(d)
      BY <2>1 DEF Wakeups, Serving
    <3> QED BY <2>1, <2>2, <2>3, <3>1 DEF Asleep, Awake, Awaited
  <2>4. Serving(c)'
    BY <2>1 DEF Serving
  <2> QED BY <2>1, <2>3, <2>4 DEF Wakeups
<1>3. CASE UNCHANGED Requests /\ ClientSteps
  BY <1>3, ClientWakes
<1>4. CASE AcceptStop \/ WaitListen \/ UNCHANGED vars
  <2>1. /\ UNCHANGED <<cur, live, state, phase, buffer, inq, peer, space, serr, ioReady>>
        /\ Serving(cur)' <=> Serving(cur)
    BY <1>4 DEF AcceptStop, WaitListen, vars, parse, wire, epoll, thread, Serving
  <2> QED BY <2>1 DEF Wakeups, Serving, Awake, Awaited
<1>5. ASSUME NEW c \in live, WaitIO(c) PROVE Wakeups'
  <2>1. /\ op = "wait" /\ ioReady' = ioReady \ {c}
        /\ UNCHANGED <<live, state, phase, buffer, inq, peer, space, serr>>
    BY <1>5 DEF WaitIO, parse, wire
  <2>2. state[c] \in {"READ", "WRITE"}
    BY <2>1 DEF Control, Busy, Waiting
  <2>3. op' \in {"read", "write"} /\ cur' = c
    BY <1>5, <2>2 DEF WaitIO
  <2> QED BY <2>1, <2>3 DEF Wakeups, Serving, Awake, Awaited
<1> QED BY <1>1, <1>2, <1>3, <1>4, <1>5, Steps

(* No wakeup is lost, however the clients' steps fall between the system   *)
(* calls of a handler, for every script and every size of the buffers.     *)
THEOREM NoWakeupIsLost == Spec => []NoLostWakeup
<1>1. Init => Wakeups
  BY DEF Init, Wakeups
<1>2. MemInv /\ Wakeups /\ [Next]_vars => Wakeups'
  BY WakeNext DEF MemInv
<1>3. Wakeups => NoLostWakeup
  BY DEF Wakeups, NoLostWakeup, Serving, Awake, Awaited
<1> QED BY <1>1, <1>2, <1>3, MemInvariance, PTL DEF Spec
=============================================================================
