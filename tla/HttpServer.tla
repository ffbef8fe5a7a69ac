----------------------------- MODULE HttpServer -----------------------------
(***************************************************************************)
(* The event loop of src/httpserver.h as emb-http-lua compiles it (EPOLL): *)
(* one thread that waits in epoll_wait for one event, runs the handler of  *)
(* that event to its end and waits again.                                  *)
(*                                                                         *)
(* A handler is a chain of C calls that never looks at its request again   *)
(* after the call it ends with, so the C stack is abstracted to `op`, what *)
(* the thread does next, and `cur`, the request it does it to.  Only two   *)
(* frames have work left when the chain returns: the accept loop           *)
(* (`accepting`) and hs_request_respond_error (`again`).                   *)
(*                                                                         *)
(* Between two system calls of a handler the clients and the clock run.    *)
(* What a client sends is a stream of units, a unit being a run of bytes   *)
(* that arrives as a whole: the units 1..head of a request are its request *)
(* line and headers, the others its body.                                  *)
(***************************************************************************)
EXTENDS Integers, Sequences, FiniteSetsExt

CONSTANTS
  Conns,                 \* the connections clients may make, each once
  NoConn,                \* no connection
  Layouts,               \* the layouts of request heads
  Script,                \* what each client sends: a sequence of requests
  REQUEST_TIMEOUT,       \* HTTP_REQUEST_TIMEOUT, in timer events
  KEEP_ALIVE_TIMEOUT,    \* HTTP_KEEP_ALIVE_TIMEOUT, in timer events
  REQUEST_BUF_SIZE,      \* HTTP_REQUEST_BUF_SIZE, in units
  MAX_REQUEST_BUF_SIZE,  \* HTTP_MAX_REQUEST_BUF_SIZE, in units
  RESPONSE_SIZE,         \* length and capacity of a response, in units
  MAX_MEM_USAGE,         \* HTTP_MAX_TOTAL_EST_MEM_USAGE, in units
  MaxFds,                \* descriptors left for sockets and timers
  SendBuffer,            \* units the kernel takes before a write is short
  Pipelining,            \* a client sends a request before the last answer
  Fins, Resets,          \* clients that half close, that reset
  Clock                  \* FALSE freezes the request timers

Kinds == {"none", "small", "stream", "bad"}

(* A request: the layout of its head (where the method, target, version    *)
(* and headers lie), what it says of keep-alive, its units and the framing *)
(* of its body.  "stream" is a chunked body or one larger than the buffer  *)
(* may grow to; a "bad" head is one the grammar refuses.                   *)
Request == [shape : Layouts, ka : BOOLEAN, head : 1..2, body : Nat, kind : Kinds]

ASSUME ConnsAssumption == NoConn \notin Conns /\ IsFiniteSet(Conns)
ASSUME ScriptAssumption ==
  /\ Script \in [Conns -> Seq(Request)]
  /\ \A c \in Conns : \A k \in DOMAIN Script[c] :
       /\ Script[c][k].kind = "small"  => Script[c][k].body >= 2
       /\ Script[c][k].kind = "none"   => Script[c][k].body = 0
ASSUME SizesAssumption ==
  /\ REQUEST_TIMEOUT \in Nat \ {0} /\ KEEP_ALIVE_TIMEOUT \in Nat \ {0}
  /\ REQUEST_BUF_SIZE \in Nat \ {0} /\ MAX_REQUEST_BUF_SIZE \in Nat
  /\ REQUEST_BUF_SIZE <= MAX_REQUEST_BUF_SIZE
  /\ RESPONSE_SIZE \in Nat \ {0} /\ SendBuffer \in Nat \ {0}
  /\ MAX_MEM_USAGE \in Nat /\ MaxFds \in Nat
ASSUME SwitchesAssumption ==
  /\ Pipelining \in BOOLEAN /\ Clock \in BOOLEAN
  /\ Fins \subseteq Conns /\ Resets \subseteq Conns

VARIABLES
  (* the server thread *)
  op, cur, accepting, again,
  errno,        \* what the last failing call left: "EPIPE" or "other"
  memused,      \* server->memused
  (* struct http_request_s, for the requests that are allocated *)
  live, state, timeout,
  keepalive,    \* the HTTP_KEEP_ALIVE bit of request->flags
  buffer,       \* request->buffer: nothing, bytes read, or a response
  phase,        \* the parser: in the head, in a small body, or past a byte
                \* it refused, with all consumed ("refused") or not ("stuck")
  tokens,       \* the layouts in request->tokens, one per request parsed
  written,      \* request->bytes_written
  (* the kernel *)
  backlog, listenReady, ioReady, timerReady, timers,
  interest,     \* the event mask of the socket in epoll
  inq, peer, serr, space,
  (* the clients, and what happened *)
  next,         \* the next unit the client sends
  seen,         \* what the handler was given, one entry per call
  done,         \* responses written completely
  uncounted     \* room made for bodies, over all time, that memused leaves out

thread == <<op, cur, accepting, again>>
parse  == <<phase, tokens>>
epoll  == <<listenReady, ioReady, timerReady, timers, interest>>
wire   == <<backlog, inq, peer, serr, space>>
hist   == <<next, seen, done, uncounted>>
vars   == <<thread, errno, memused, live, state, timeout, keepalive, buffer,
            parse, written, epoll, wire, hist>>

-----------------------------------------------------------------------------
Units(r) == r.head + r.body
NoBuffer == [kind |-> "null", cap |-> 0, data |-> <<>>]
ReadBuffer == [kind |-> "request", cap |-> REQUEST_BUF_SIZE, data |-> <<>>]
ResponseBuffer == [kind |-> "response", cap |-> RESPONSE_SIZE, data |-> <<>>]

Init ==
  /\ op = "wait" /\ cur = NoConn /\ accepting = FALSE /\ again = FALSE
  /\ errno = "other" /\ memused = 0
  /\ live = {} /\ state = [c \in Conns |-> "INIT"]
  /\ timeout = [c \in Conns |-> REQUEST_TIMEOUT]
  /\ keepalive = [c \in Conns |-> FALSE]
  /\ buffer = [c \in Conns |-> NoBuffer]
  /\ phase = [c \in Conns |-> "head"] /\ tokens = [c \in Conns |-> <<>>]
  /\ written = [c \in Conns |-> 0]
  /\ backlog = <<>> /\ listenReady = FALSE
  /\ ioReady = {} /\ timerReady = {} /\ timers = {}
  /\ interest = [c \in Conns |-> "in"]
  /\ inq = [c \in Conns |-> <<>>] /\ peer = [c \in Conns |-> "none"]
  /\ serr = [c \in Conns |-> "none"] /\ space = [c \in Conns |-> SendBuffer]
  /\ next = [c \in Conns |-> [r |-> 1, i |-> 1]]
  /\ seen = [c \in Conns |-> <<>>] /\ done = [c \in Conns |-> 0] /\ uncounted = 0

-----------------------------------------------------------------------------
(* epoll: what makes a socket ready under its mask.  EPOLLERR and EPOLLHUP *)
(* are reported whatever the mask.                                         *)
Readable(c) == inq[c] # <<>> \/ peer[c] \in {"fin", "rst"}
SocketReady(c, mask) ==
  \/ mask = "in" /\ Readable(c)
  \/ mask = "out" /\ space[c] > 0
  \/ peer[c] = "rst"

(* EPOLL_CTL_ADD and EPOLL_CTL_MOD: the new mask is tested at once.        *)
Watch(c, mask) ==
  /\ interest' = [interest EXCEPT ![c] = mask]
  /\ ioReady' = IF SocketReady(c, mask) THEN ioReady \cup {c} ELSE ioReady \ {c}
  /\ UNCHANGED <<listenReady, timerReady>>

(* An edge: an event on a registered socket whose mask lets it through.    *)
Edge(c, passes) == ioReady' = IF c \in live /\ passes THEN ioReady \cup {c} ELSE ioReady

-----------------------------------------------------------------------------
(* The clients and the clock.                                              *)

Connect(c) ==
  /\ peer[c] = "none"
  /\ peer' = [peer EXCEPT ![c] = "open"]
  /\ backlog' = Append(backlog, c)
  /\ listenReady' = TRUE
  /\ UNCHANGED <<thread, errno, memused, live, state, timeout, keepalive, buffer, parse,
                 written, ioReady, timerReady, timers, interest, inq, serr, space, hist>>

Connected(c) == c \in live \/ c \in Range(backlog)

Send(c) ==
  LET r == next[c].r
      i == next[c].i
  IN  /\ peer[c] = "open" /\ Connected(c)
      /\ r <= Len(Script[c])
      /\ i = 1 /\ ~Pipelining => done[c] = r - 1
      /\ inq' = [inq EXCEPT ![c] = Append(@, next[c])]
      /\ next' = [next EXCEPT ![c] = IF i < Units(Script[c][r]) THEN [r |-> r, i |-> i + 1]
                                                                 ELSE [r |-> r + 1, i |-> 1]]
      /\ Edge(c, interest[c] = "in")
      /\ UNCHANGED <<thread, errno, memused, live, state, timeout, keepalive, buffer, parse,
                     written, listenReady, timerReady, timers, interest, backlog, peer,
                     serr, space, seen, done, uncounted>>

(* shutdown(SHUT_WR), or close once the answer has come.                   *)
Fin(c) ==
  /\ c \in Fins /\ peer[c] = "open" /\ Connected(c)
  /\ peer' = [peer EXCEPT ![c] = "fin"]
  /\ Edge(c, interest[c] = "in")
  /\ UNCHANGED <<thread, errno, memused, live, state, timeout, keepalive, buffer, parse,
                 written, listenReady, timerReady, timers, interest, backlog, inq, serr,
                 space, hist>>

(* A reset: the next call on the socket fails with ECONNRESET, later ones  *)
(* with EPIPE; after a FIN it is EPIPE at once.                            *)
Rst(c) ==
  /\ c \in Resets /\ peer[c] \in {"open", "fin"} /\ Connected(c)
  /\ peer' = [peer EXCEPT ![c] = "rst"]
  /\ serr' = [serr EXCEPT ![c] = IF peer[c] = "fin" THEN "pipe" ELSE "reset"]
  /\ Edge(c, TRUE)
  /\ UNCHANGED <<thread, errno, memused, live, state, timeout, keepalive, buffer, parse,
                 written, listenReady, timerReady, timers, interest, backlog, inq, space, hist>>

(* The client takes a unit of the response out of the send buffer.         *)
Drain(c) ==
  /\ c \in live /\ peer[c] \in {"open", "fin"} /\ space[c] < SendBuffer
  /\ space' = [space EXCEPT ![c] = @ + 1]
  /\ Edge(c, interest[c] = "out")
  /\ UNCHANGED <<thread, errno, memused, live, state, timeout, keepalive, buffer, parse,
                 written, listenReady, timerReady, timers, interest, backlog, inq, peer,
                 serr, hist>>

(* The timerfd of a request expires; expirations that are not read add up  *)
(* to one event.                                                           *)
Expire(c) ==
  /\ Clock /\ c \in timers \ timerReady
  /\ timerReady' = timerReady \cup {c}
  /\ UNCHANGED <<thread, errno, memused, live, state, timeout, keepalive, buffer, parse,
                 written, listenReady, ioReady, timers, interest, wire, hist>>

-----------------------------------------------------------------------------
(* The end of a call chain: respond_error writes once more, the accept     *)
(* loop goes on, or control is back in the event loop.                     *)
Return ==
  /\ again' = FALSE
  /\ op' = IF again THEN "rewrite" ELSE IF accepting THEN "accept" ELSE "wait"
  /\ cur' = IF again THEN cur ELSE NoConn
  /\ UNCHANGED accepting

Call(step, c) == op' = step /\ cur' = c

(* Mutants of Terminate: the timer stays in epoll; every buffer counts as  *)
(* one of the first size.                                                  *)
TerminateKeepsTimer(c) ==
  /\ live' = live \ {c} /\ ioReady' = ioReady \ {c}
  /\ memused' = memused - buffer[c].cap
  /\ buffer' = [buffer EXCEPT ![c] = NoBuffer]
  /\ UNCHANGED <<timers, timerReady, listenReady, interest>>

TerminateMiscounts(c) ==
  /\ live' = live \ {c} /\ timers' = timers \ {c}
  /\ ioReady' = ioReady \ {c} /\ timerReady' = timerReady \ {c}
  /\ memused' = memused - REQUEST_BUF_SIZE
  /\ buffer' = [buffer EXCEPT ![c] = NoBuffer]
  /\ UNCHANGED <<listenReady, interest>>

(* hs_request_terminate_connection: timer and socket leave epoll and are   *)
(* closed, the buffer and the request are freed.                           *)
Terminate(c) ==
  /\ live' = live \ {c} /\ timers' = timers \ {c}
  /\ ioReady' = ioReady \ {c} /\ timerReady' = timerReady \ {c}
  /\ memused' = memused - buffer[c].cap
  /\ buffer' = [buffer EXCEPT ![c] = NoBuffer]
  /\ UNCHANGED <<listenReady, interest>>

-----------------------------------------------------------------------------
(* hs_server_run_event_loop: one event per epoll_wait.                     *)

WaitListen ==
  /\ op = "wait" /\ listenReady
  /\ listenReady' = FALSE
  /\ op' = "accept" /\ accepting' = TRUE
  /\ UNCHANGED <<cur, again, errno, memused, live, state, timeout, keepalive, buffer, parse,
                 written, ioReady, timerReady, timers, interest, wire, hist>>

(* _hs_on_epoll_client_connection_event; epoll_wait reports no event that  *)
(* is no longer there.                                                     *)
WaitIO(c) ==
  /\ op = "wait" /\ c \in ioReady /\ SocketReady(c, interest[c])
  /\ ioReady' = ioReady \ {c}
  /\ op' = CASE state[c] = "READ" -> "read" [] state[c] = "WRITE" -> "write" [] OTHER -> op
  /\ cur' = IF state[c] \in {"READ", "WRITE"} THEN c ELSE cur
  /\ UNCHANGED <<accepting, again, errno, memused, live, state, timeout, keepalive, buffer,
                 parse, written, listenReady, timerReady, timers, interest, wire, hist>>

(* Mutants of WaitTimer: the count runs past zero; it stops during a write. *)
WaitTimerPastZero(c) ==
  /\ op = "wait" /\ c \in timerReady
  /\ timeout' = [timeout EXCEPT ![c] = @ - 1]
  /\ IF timeout[c] - 1 < 0
     THEN Terminate(c)
     ELSE /\ timerReady' = timerReady \ {c}
          /\ UNCHANGED <<live, timers, ioReady, memused, buffer, listenReady, interest>>
  /\ UNCHANGED <<thread, errno, state, keepalive, parse, written, wire, hist>>

WaitTimerReadOnly(c) ==
  /\ op = "wait" /\ c \in timerReady
  /\ timeout' = [timeout EXCEPT ![c] = IF state[c] = "READ" THEN @ - 1 ELSE @]
  /\ IF timeout'[c] = 0
     THEN Terminate(c)
     ELSE /\ timerReady' = timerReady \ {c}
          /\ UNCHANGED <<live, timers, ioReady, memused, buffer, listenReady, interest>>
  /\ UNCHANGED <<thread, errno, state, keepalive, parse, written, wire, hist>>

(* _hs_on_epoll_request_timer_event *)
WaitTimer(c) ==
  /\ op = "wait" /\ c \in timerReady
  /\ timeout' = [timeout EXCEPT ![c] = @ - 1]
  /\ IF timeout[c] - 1 = 0
     THEN Terminate(c)
     ELSE /\ timerReady' = timerReady \ {c}
          /\ UNCHANGED <<live, timers, ioReady, memused, buffer, listenReady, interest>>
  /\ UNCHANGED <<thread, errno, state, keepalive, parse, written, wire, hist>>

-----------------------------------------------------------------------------
(* _hs_accept_and_begin_request_cycle *)

UsedFds == Cardinality(live) + Cardinality(timers)

(* hs_server_accept_connection gives a request; over the memory limit the  *)
(* loop answers 503 (the request has no token yet, so its keep-alive bit   *)
(* stays clear), else it begins to read.                                   *)
Accept(c) ==
  /\ op = "accept" /\ backlog # <<>> /\ c = Head(backlog) /\ UsedFds < MaxFds
  /\ backlog' = Tail(backlog)
  /\ live' = live \cup {c}
  /\ timers' = IF UsedFds + 1 < MaxFds THEN timers \cup {c} ELSE timers
  /\ timeout' = [timeout EXCEPT ![c] = REQUEST_TIMEOUT]
  /\ \/ /\ memused > MAX_MEM_USAGE
        /\ state' = [state EXCEPT ![c] = "WRITE"]
        /\ buffer' = [buffer EXCEPT ![c] = ResponseBuffer]
        /\ memused' = memused + RESPONSE_SIZE
        /\ Watch(c, "out") /\ Call("write", c) /\ again' = TRUE
     \/ /\ memused <= MAX_MEM_USAGE
        /\ state' = [state EXCEPT ![c] = "READ"]
        /\ Watch(c, "in") /\ Call("read", c)
        /\ UNCHANGED <<again, buffer, memused>>
  /\ UNCHANGED <<accepting, errno, keepalive, parse, written, inq, peer, serr, space, hist>>

(* accept fails, with EAGAIN or EMFILE: the loop ends.                     *)
AcceptStop ==
  /\ op = "accept" /\ (backlog = <<>> \/ UsedFds >= MaxFds)
  /\ errno' = "other" /\ op' = "wait" /\ accepting' = FALSE
  /\ UNCHANGED <<cur, again, memused, live, state, timeout, keepalive, buffer, parse,
                 written, epoll, wire, hist>>

-----------------------------------------------------------------------------
(* hs_read_request_and_exec_user_cb *)

(* Up to the read loop: the timeout starts anew, a request without a       *)
(* buffer gets one and a fresh parser, and the socket is read only if the  *)
(* parser has consumed what is there: a stuck parser never has.            *)
EnterRead(c) ==
  /\ op = "read" /\ c = cur
  /\ state' = [state EXCEPT ![c] = "READ"]
  /\ timeout' = [timeout EXCEPT ![c] = REQUEST_TIMEOUT]
  /\ IF buffer[c].kind = "null"
     THEN /\ buffer' = [buffer EXCEPT ![c] = ReadBuffer]
          /\ memused' = memused + REQUEST_BUF_SIZE
          /\ phase' = [phase EXCEPT ![c] = "head"]
     ELSE UNCHANGED <<buffer, memused, phase>>
  /\ op' = IF phase'[c] = "stuck" THEN "parse" ELSE "fill"
  /\ UNCHANGED <<cur, accepting, again, errno, live, keepalive, tokens, written, epoll, wire,
                 hist>>

(* _hs_read_into_buffer: one read that returns bytes.  A full buffer is    *)
(* doubled; at its largest size the loop ends.                             *)
ReadBytes(c) ==
  LET b    == buffer[c]
      n    == IF Len(inq[c]) < b.cap - Len(b.data) THEN Len(inq[c]) ELSE b.cap - Len(b.data)
      data == b.data \o SubSeq(inq[c], 1, n)
      cap  == IF Len(data) < b.cap THEN b.cap
              ELSE IF 2 * b.cap > MAX_REQUEST_BUF_SIZE THEN MAX_REQUEST_BUF_SIZE ELSE 2 * b.cap
  IN  /\ op = "fill" /\ c = cur /\ n > 0
      /\ inq' = [inq EXCEPT ![c] = SubSeq(@, n + 1, Len(@))]
      /\ buffer' = [buffer EXCEPT ![c].data = data, ![c].cap = cap]
      /\ memused' = memused - b.cap + cap
      /\ phase' = [phase EXCEPT ![c] = IF @ = "refused" THEN "stuck" ELSE @]
      /\ op' = IF cap < MAX_REQUEST_BUF_SIZE THEN "fill" ELSE "parse"
      /\ UNCHANGED <<cur, accepting, again, errno, live, state, timeout, keepalive, tokens,
                     written, epoll, backlog, peer, serr, space, hist>>

(* read returns 0: the peer has closed, or the buffer has no room left.    *)
(* HS_READ_RC_SOCKET_ERR, whatever was read before.                        *)
ReadEof(c) ==
  /\ op = "fill" /\ c = cur
  /\ \/ Len(buffer[c].data) = buffer[c].cap
     \/ inq[c] = <<>> /\ peer[c] \in {"fin", "rst"} /\ serr[c] # "reset"
  /\ Terminate(c) /\ Return
  /\ UNCHANGED <<errno, state, timeout, keepalive, parse, written, wire, hist>>

(* read returns -1, with EAGAIN or ECONNRESET: on to the parser.           *)
ReadFails(c) ==
  /\ op = "fill" /\ c = cur /\ Len(buffer[c].data) < buffer[c].cap /\ inq[c] = <<>>
  /\ peer[c] = "open" \/ serr[c] = "reset"
  /\ serr' = [serr EXCEPT ![c] = IF @ = "reset" THEN "pipe" ELSE @]
  /\ errno' = "other" /\ op' = "parse"
  /\ UNCHANGED <<cur, accepting, again, memused, live, state, timeout, keepalive, buffer,
                 parse, written, epoll, backlog, inq, peer, space, hist>>

-----------------------------------------------------------------------------
(* _hs_parse_buffer_and_exec_user_cb over hsh_parser_exec.  A buffer       *)
(* starts with the head of a request or with body bytes the request before *)
(* it left behind; the grammar may refuse those or take them for the start *)
(* of a method, after which the layout is that of no script.               *)

Shifted(c) == buffer[c].data # <<>> /\ buffer[c].data[1].i # 1
Current(c) == IF Shifted(c) THEN buffer[c].data[1].r + 1 ELSE buffer[c].data[1].r
Found(c)   == \E j \in DOMAIN buffer[c].data : buffer[c].data[j].r = Current(c)
Own(c)     == Cardinality({j \in DOMAIN buffer[c].data : buffer[c].data[j].r = Current(c)})
Parsed(c)  == Script[c][Current(c)]
HeadDone(c) == Found(c) /\ Parsed(c).kind # "bad" /\ Own(c) >= Parsed(c).head

(* A body that fits is taken as complete once pe >= last_body_byte: one    *)
(* byte, the last unit, may still be missing.                              *)
Complete(c) == HeadDone(c) /\ (Parsed(c).kind = "small" => Own(c) >= Units(Parsed(c)) - 1)

MustRefuse(c) == Found(c) /\ Parsed(c).kind = "bad"

Halted(c) == phase[c] \in {"stuck", "refused"}

(* The byte refused is the last one read: it lies in the last unit, which  *)
(* is left over or of the head that is refused.                            *)
RefusesLast(c) ==
  LET u == buffer[c].data[Len(buffer[c].data)]
  IN  u.r = Current(c) => u.i <= Parsed(c).head

(* The parser stops behind the byte it refuses and says nothing: its error *)
(* actions are empty and no HSH_TOK_ERR token exists.  Only if that byte   *)
(* was the last one will the socket be read once more.                     *)
ParseStuck(c) ==
  /\ op = "parse" /\ c = cur
  /\ Halted(c) \/ Shifted(c) \/ MustRefuse(c)
  /\ \/ /\ ~Halted(c)
        /\ \E p \in {"stuck"} \cup (IF RefusesLast(c) THEN {"refused"} ELSE {}) :
             phase' = [phase EXCEPT ![c] = p]
     \/ Halted(c) /\ UNCHANGED phase
  /\ Return
  /\ UNCHANGED <<errno, memused, live, state, timeout, keepalive, buffer, tokens, written,
                 epoll, wire, hist>>

(* All of the buffer is consumed and the request is not complete.  The end *)
(* of a head makes room for a small body, past the count in memused.       *)
ParseMore(c) ==
  /\ op = "parse" /\ c = cur
  /\ ~Halted(c) /\ ~MustRefuse(c) /\ ~Complete(c)
  /\ IF HeadDone(c)
     THEN /\ phase' = [phase EXCEPT ![c] = "body"]
          /\ buffer' = [buffer EXCEPT ![c].cap =
                          IF Units(Parsed(c)) > @ THEN Units(Parsed(c)) ELSE @]
          /\ uncounted' = uncounted + buffer'[c].cap - buffer[c].cap
     ELSE UNCHANGED <<phase, buffer, uncounted>>
  /\ Return
  /\ UNCHANGED <<errno, memused, live, state, timeout, keepalive, tokens, written, epoll, wire,
                 next, seen, done>>

(* The request is complete: its tokens are behind those of the requests    *)
(* before it, and the handler is called.                                   *)
ParseDone(c) ==
  /\ op = "parse" /\ c = cur
  /\ ~Halted(c) /\ Complete(c)
  /\ tokens' = [tokens EXCEPT ![c] = Append(@, IF Shifted(c) THEN "shifted" ELSE Parsed(c).shape)]
  /\ state' = [state EXCEPT ![c] = "NOP"]
  /\ op' = "handle"
  /\ UNCHANGED <<cur, accepting, again, errno, memused, live, timeout, keepalive, buffer, phase,
                 written, epoll, wire, hist>>

-----------------------------------------------------------------------------
(* handle_request and http_respond: every path of the handler responds     *)
(* before it returns.  The method, target and version are read through the *)
(* FIRST tokens of their type, the headers through all; where the head of  *)
(* another layout lies under any of them, what they hold, and so the       *)
(* keep-alive bit, may be anything.                                        *)
Exact(c) == \A j \in DOMAIN tokens[c] : tokens[c][j] = tokens[c][Len(tokens[c])]

Handle(c) ==
  /\ op = "handle" /\ c = cur
  /\ \E ka \in IF Exact(c) THEN {Parsed(c).ka} ELSE BOOLEAN :
       keepalive' = [keepalive EXCEPT ![c] = ka]
  /\ seen' = [seen EXCEPT ![c] = Append(@, [r |-> Current(c), exact |-> Exact(c)])]
  /\ memused' = memused + RESPONSE_SIZE - buffer[c].cap
  /\ buffer' = [buffer EXCEPT ![c] = ResponseBuffer]
  /\ written' = [written EXCEPT ![c] = 0]
  /\ state' = [state EXCEPT ![c] = "WRITE"]
  /\ Watch(c, "out") /\ op' = "write"
  /\ UNCHANGED <<cur, accepting, again, errno, live, timeout, parse, timers, wire, next, done,
                 uncounted>>

-----------------------------------------------------------------------------
(* _hs_write_socket_and_handle_return_code: one write, then its outcome.   *)

Remaining(c)  == RESPONSE_SIZE - written[c]
TakenSigned(c) == IF serr[c] # "none" \/ space[c] = 0 THEN -1   \* mutant: -1 is added as well
                  ELSE IF space[c] < Remaining(c) THEN space[c] ELSE Remaining(c)
Taken(c)      == IF serr[c] # "none" THEN 0
                 ELSE IF space[c] < Remaining(c) THEN space[c] ELSE Remaining(c)
ErrnoAnyFailure(c) == IF Taken(c) = 0 THEN "EPIPE" ELSE errno  \* mutant: a full socket is an error
ErrnoAfter(c) == IF serr[c] = "pipe" THEN "EPIPE" ELSE IF Taken(c) = 0 THEN "other" ELSE errno

WriteSocket(c) ==
  /\ op = "write" /\ c = cur
  /\ errno' = ErrnoAfter(c)
  /\ written' = [written EXCEPT ![c] = @ + Taken(c)]
  /\ space' = [space EXCEPT ![c] = @ - Taken(c)]
  /\ serr' = [serr EXCEPT ![c] = IF @ = "reset" THEN "pipe" ELSE @]
  /\ UNCHANGED <<keepalive, parse, backlog, inq, peer, next, seen, uncounted>>

Broken == errno' = "EPIPE"
All(c) == written'[c] = RESPONSE_SIZE

(* HS_WRITE_RC_SOCKET_ERR: errno says EPIPE, from this write or another.   *)
WriteError(c) ==
  /\ WriteSocket(c) /\ Broken
  /\ timeout' = [timeout EXCEPT ![c] = REQUEST_TIMEOUT]
  /\ Terminate(c) /\ Return
  /\ UNCHANGED <<state, done>>

(* Mutant of WriteMore: the buffer is freed after every write.             *)
WriteMoreFrees(c) ==
  /\ WriteSocket(c) /\ ~Broken /\ ~All(c)
  /\ timeout' = [timeout EXCEPT ![c] = REQUEST_TIMEOUT]
  /\ memused' = memused - buffer[c].cap
  /\ buffer' = [buffer EXCEPT ![c] = NoBuffer]
  /\ Return
  /\ UNCHANGED <<live, state, epoll, done>>

(* HS_WRITE_RC_CONTINUE *)
WriteMore(c) ==
  /\ WriteSocket(c) /\ ~Broken /\ ~All(c)
  /\ timeout' = [timeout EXCEPT ![c] = REQUEST_TIMEOUT]
  /\ Return
  /\ UNCHANGED <<memused, live, state, buffer, epoll, done>>

(* HS_WRITE_RC_SUCCESS_CLOSE *)
WriteClose(c) ==
  /\ WriteSocket(c) /\ ~Broken /\ All(c) /\ ~keepalive[c]
  /\ timeout' = [timeout EXCEPT ![c] = REQUEST_TIMEOUT]
  /\ done' = [done EXCEPT ![c] = @ + 1]
  /\ Terminate(c) /\ Return
  /\ UNCHANGED state

(* Mutants of WriteKeepAlive: the mask stays EPOLLOUT; the response stays  *)
(* in the buffer.                                                          *)
WriteKeepAliveNoMod(c) ==
  /\ WriteSocket(c) /\ ~Broken /\ All(c) /\ keepalive[c]
  /\ timeout' = [timeout EXCEPT ![c] = KEEP_ALIVE_TIMEOUT]
  /\ done' = [done EXCEPT ![c] = @ + 1]
  /\ memused' = memused - buffer[c].cap
  /\ buffer' = [buffer EXCEPT ![c] = NoBuffer]
  /\ state' = [state EXCEPT ![c] = "READ"] /\ op' = "read"
  /\ UNCHANGED <<cur, accepting, again, live, epoll>>

WriteKeepAliveNoFree(c) ==
  /\ WriteSocket(c) /\ ~Broken /\ All(c) /\ keepalive[c]
  /\ timeout' = [timeout EXCEPT ![c] = KEEP_ALIVE_TIMEOUT]
  /\ done' = [done EXCEPT ![c] = @ + 1]
  /\ state' = [state EXCEPT ![c] = "READ"]
  /\ Watch(c, "in") /\ op' = "read"
  /\ UNCHANGED <<cur, accepting, again, memused, live, buffer, timers>>

(* HS_WRITE_RC_SUCCESS: the connection is kept, and read at once.          *)
WriteKeepAlive(c) ==
  /\ WriteSocket(c) /\ ~Broken /\ All(c) /\ keepalive[c]
  /\ timeout' = [timeout EXCEPT ![c] = KEEP_ALIVE_TIMEOUT]
  /\ done' = [done EXCEPT ![c] = @ + 1]
  /\ memused' = memused - buffer[c].cap
  /\ buffer' = [buffer EXCEPT ![c] = NoBuffer]
  /\ state' = [state EXCEPT ![c] = "READ"]
  /\ Watch(c, "in") /\ op' = "read"
  /\ UNCHANGED <<cur, accepting, again, live, timers>>

(* hs_request_respond_error calls hs_request_begin_write a second time; if *)
(* the first call has freed the request what follows is undefined, and the *)
(* model ends there.                                                       *)
Rewrite(c) ==
  /\ op = "rewrite" /\ c = cur /\ c \in live
  /\ state' = [state EXCEPT ![c] = "WRITE"]
  /\ Watch(c, "out") /\ op' = "write"
  /\ UNCHANGED <<cur, accepting, again, errno, memused, live, timeout, keepalive, buffer, parse,
                 written, timers, wire, hist>>

-----------------------------------------------------------------------------
Client(c) == Connect(c) \/ Send(c) \/ Fin(c) \/ Rst(c) \/ Drain(c)

Wait == WaitListen \/ \E c \in Conns : WaitIO(c) \/ WaitTimer(c)

Handler ==
  \/ AcceptStop
  \/ \E c \in Conns :
       \/ Accept(c)
       \/ EnterRead(c) \/ ReadBytes(c) \/ ReadEof(c) \/ ReadFails(c)
       \/ ParseStuck(c) \/ ParseMore(c) \/ ParseDone(c) \/ Handle(c)
       \/ WriteError(c) \/ WriteMore(c) \/ WriteClose(c) \/ WriteKeepAlive(c) \/ Rewrite(c)

Next == Wait \/ Handler \/ \E c \in Conns : Client(c) \/ Expire(c)

Spec == Init /\ [][Next]_vars

(* The thread never stops inside a handler.  The ready list of epoll is a  *)
(* queue, so an event that keeps being ready whenever the thread waits is  *)
(* reported.  Time passes, and a client reads what it is sent.             *)
Fairness ==
  /\ WF_vars(Handler)
  /\ SF_vars(WaitListen)
  /\ \A c \in Conns : SF_vars(WaitIO(c)) /\ SF_vars(WaitTimer(c))
  /\ \A c \in Conns : WF_vars(Drain(c)) /\ WF_vars(Expire(c))

FairSpec == Spec /\ Fairness

-----------------------------------------------------------------------------
Ops == {"wait", "accept", "read", "fill", "parse", "handle", "write", "rewrite"}

Unit == [r : Nat \ {0}, i : Nat \ {0}]
Buffer == [kind : {"null", "request", "response"}, cap : Nat, data : Seq(Unit)]

(* The types of the variables, by the part of the system they belong to.   *)
TypeThread ==
  /\ op \in Ops /\ cur \in Conns \cup {NoConn}
  /\ accepting \in BOOLEAN /\ again \in BOOLEAN
  /\ errno \in {"EPIPE", "other"}
TypeRequest ==
  /\ live \subseteq Conns
  /\ state \in [Conns -> {"INIT", "READ", "WRITE", "NOP"}]
  /\ timeout \in [Conns -> Int]
  /\ keepalive \in [Conns -> BOOLEAN]
  /\ written \in [Conns -> 0..RESPONSE_SIZE]
  /\ phase \in [Conns -> {"head", "body", "refused", "stuck"}]
TypeBuffer == memused \in Int /\ buffer \in [Conns -> Buffer]
TypeTokens == tokens \in [Conns -> Seq(Layouts \cup {"shifted"})]
TypeEpoll ==
  /\ listenReady \in BOOLEAN /\ ioReady \subseteq Conns
  /\ timerReady \subseteq Conns /\ timers \subseteq Conns
  /\ interest \in [Conns -> {"in", "out"}]
TypeWire ==
  /\ backlog \in Seq(Conns)
  /\ inq \in [Conns -> Seq(Unit)]
  /\ peer \in [Conns -> {"none", "open", "fin", "rst"}]
  /\ serr \in [Conns -> {"none", "reset", "pipe"}]
  /\ space \in [Conns -> 0..SendBuffer]
TypeHist ==
  /\ next \in [Conns -> Unit]
  /\ seen \in [Conns -> Seq([r : Nat, exact : BOOLEAN])]
  /\ done \in [Conns -> Nat] /\ uncounted \in Nat
TypeOK == TypeThread /\ TypeRequest /\ TypeBuffer /\ TypeTokens /\ TypeEpoll /\ TypeWire /\ TypeHist

(* No handler touches a request that hs_request_terminate_connection has   *)
(* freed, whatever events were pending when it was; the second write of    *)
(* hs_request_respond_error is AnswerKeepsRequest's.                       *)
NoUseAfterFree ==
  /\ op \in {"read", "fill", "parse", "handle", "write"} => cur \in live
  /\ ioReady \cup timerReady \cup timers \subseteq live

(* httpserver.h:76-78: over the memory limit "new requests will get 503    *)
(* responses", from a request that still exists when it is written to.     *)
AnswerKeepsRequest == op = "rewrite" => cur \in live

(* httpserver.h:76-78: memused is "the amount of read/write buffer space"  *)
(* that is allocated, at every step of every handler, but for the room     *)
(* made for bodies at the end of their heads (:1684-1686): that is never   *)
(* counted, and since a buffer is given back with all its room, memused    *)
(* stays too low by it for ever after.                                     *)
MemAccounted == memused + uncounted = SumFunction([c \in Conns |-> buffer[c].cap])

(* In epoll_wait every connection is either reading into a request buffer  *)
(* or has a response left to write, so that its next event goes to the     *)
(* handler that its buffer is for; none is parked in a callback.           *)
BufferFitsState ==
  op = "wait" => \A c \in live :
    \/ state[c] = "READ" /\ buffer[c].kind = "request" /\ interest[c] = "in"
    \/ /\ state[c] = "WRITE" /\ buffer[c].kind = "response" /\ interest[c] = "out"
       /\ written[c] < RESPONSE_SIZE

(* Edge triggering loses nothing: what a connection waits for and has      *)
(* already happened is in epoll's ready list.  A parser that is stuck no   *)
(* longer reads, a buffer at its largest size is not read until the socket *)
(* is empty, and after a reset only the timer acts.                        *)
NoLostWakeup ==
  op = "wait" => \A c \in live :
    \/ /\ state[c] = "READ" /\ phase[c] # "stuck" /\ buffer[c].cap < MAX_REQUEST_BUF_SIZE
       /\ inq[c] # <<>> \/ peer[c] = "fin"
    \/ state[c] = "WRITE" /\ space[c] > 0 /\ peer[c] # "rst"
    => c \in ioReady

(* The timer handler tests timeout == 0 after the decrement: whenever it   *)
(* may run, the count is above zero and below a first request's.           *)
TimeoutInRange == op = "wait" => \A c \in live : timeout[c] \in 1..REQUEST_TIMEOUT

(* The handler is called once per response: never a second time before the *)
(* first response is written to its end.                                   *)
OneAnswerEach ==
  \A c \in live :
    seen[c] # <<>> => Len(seen[c]) = done[c] + IF buffer[c].kind = "response" THEN 1 ELSE 0

(* A client that neither closes nor resets loses its connection only to    *)
(* the timer or after a complete response that announced the close.        *)
HealthyNotCut ==
  [][\A c \in live \ live' : peer[c] = "open" =>
       \/ op = "wait" /\ timeout[c] = 1
       \/ done'[c] = done[c] + 1 /\ ~keepalive[c]]_vars

(* httpserver.h:232-238: the handler is given the target "from the HTTP    *)
(* request line" of the request it is called for.                          *)
SeesOwnRequest == \A c \in Conns : \A k \in DOMAIN seen[c] : seen[c][k].exact

(* httpserver.h:73-74: HTTP_KEEP_ALIVE_TIMEOUT is how long a connection    *)
(* lasts once "a keep-alive request has completed"; so it is what an idle  *)
(* connection has left while no timer event has been taken.                *)
IdleHasKeepAliveTimeout ==
  op = "wait" /\ ~Clock => \A c \in live :
    state[c] = "READ" /\ done[c] > 0 /\ buffer[c].data = <<>> => timeout[c] = KEEP_ALIVE_TIMEOUT

(* A well-formed request sent after the previous answer is answered, when  *)
(* no timer expires: no wakeup is lost and no connection starves another.  *)
Answered ==
  \A c \in Conns : \A k \in DOMAIN Script[c] : next[c].r > k ~> done[c] >= k

(* Every connection is accepted and, in the end, closed: the timer closes  *)
(* those whose client goes silent, whose parser is stuck or that reset.    *)
EveryConnectionEnds == \A c \in Conns : Connected(c) ~> ~Connected(c)
=============================================================================
