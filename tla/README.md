# A verification of emb-http-lua

*emb-http-lua* is a small web server in C.  It serves a directory of assets and
a Lua application, from the file system or from an image of itself in which the
directory is packed.  This directory holds TLA+ models of its parts, the TLC
runs that check them on small instances, and proofs that TLAPS checks for every
value of the constants.  Source lines are given as `file:line` below `src/`;
`PROJECT.json` maps every definition to the lines it models.

## 1. Inventory

| Component | Files | State | Operations | Module |
|---|---|---|---|---|
| event loop and connections | `httpserver.h` | `http_server_t`: listening socket, epoll, `memused`; per connection `http_request_t`: state, timeout, flags, buffer, parser, tokens, `bytes_written`, timerfd | accept, read, parse and call the handler, respond, write, keep, terminate, timer | `HttpServer` |
| request parser | `httpserver.h` (generated by Ragel) | `hsh_parser_s`: Ragel state, token limits, content length, flags; the read buffer | `hsh_parser_exec`, `_hs_read_into_buffer`, `_hs_parse_buffer_and_exec_user_cb` | `RequestParser`; its outcomes in `HttpServer` |
| response serialisation | `httpserver.h` | headers, body, output buffer | `_grwprintf`, `_grwmemcpy`, `hs_request_respond` | `Responder`, with the parser in `Exchange` |
| hash map | `hashmap.c` | buckets, count, thresholds, `oom` | new, set, get, delete, clear, setters, iteration | `HashMap`, `MapSpec` |
| virtual file system | `vfs.c` | `g_vfs`: path to file or memory | scan, load from memory, get, pack | `SelfPack` |
| program, self-packing | `main.c` | mode, ELF image, handler | start-up, `self_pack`, `handle_request` | `SelfPack` |
| cursors, file helpers | `utils.c` | none | `mem_read*`, `mem_write*`, `read_full`, `write_full` | outcomes only, in `SelfPack` |
| Lua application | `luaapp.c`, `main.c` | the Lua stack, the registered callback | load, call, error handling | `LuaApp` |
| MIME table, log, hash functions | `mime.c`, `log.c`, `hashmap.c` | a map; none; none | load and look up; print; hash | none |
| kqueue variant | `httpserver.h` | | | none: the Makefile builds with `EPOLL` |

How they interact.  `main` fills the vfs from the directory or from the bytes of
its own image, loads `/mime.types`, `/lib.lua` and `/main.lua`, and runs the
event loop.  The loop is one thread.  It calls `handle_request` through a
callback when a request is complete; that looks the path up in the vfs, else
asks Lua, and in each case calls `http_respond` before it returns, which starts
the write in the same chain of calls.  All components share memory and none has
a lock: what interleaves is the kernel (edges on sockets and timers that become
pending while a handler runs), the clients, and the file system, which other
processes change.

Where it is hard, and what would make each component correct:

- **Event loop.**  Several events about one request can be pending when a
  handler frees it.  Edge triggering reports a change once.  A chain of calls
  may free its request at any depth.  `memused` is adjusted in six places.
  *Correct when* no handler reaches a freed request, no edge is lost, the buffer
  is the one the state is for, `memused` counts what is allocated but for the room made for bodies, the handler
  runs once per response, every request is answered and every connection ends.
- **Parser.**  Input arrives in any pieces.  *Correct when* the tokens depend on
  the bytes and not on the pieces, a well-formed request reaches the handler, and
  the handler is told what the request says.
- **Response.**  Text is printed into a buffer that may grow in between.  *Correct
  when* what is sent is the response, and `memused` follows the buffer.
- **Hash map.**  Unbounded probe loops, displacement during an insertion,
  backward shift across the wrap of the table, growth that fails.  *Correct
  when* it is a map, and every call returns.
- **vfs and packing.**  Sizes are taken at start-up and contents later; writes
  and opens fail half-way.  *Correct when* the image serves what the directory
  held, and the layout of the image does not overlap.
- **Lua application.**  All of it works by indices from the top of one stack that
  lives as long as the process, the result of `lua_pcall` is not looked at, and
  strings are kept by pointer while a collector runs.  *Correct when* an answer is
  the one of its request's own callback, whatever failed before, when its texts
  are still there, and when nothing piles up on the stack.

`PROJECT.json` lists the hazards one by one, each at its line and with the
properties that would catch it.

## 2. Plan

| Step | Modules | State |
|---|---|---|
| 1 | `HttpServer`, `MCHttpServer`: the event loop | done |
| 2 | `HttpServerProofs`: its invariant, its memory and its wakeups | done, all seven invariants proved |
| 3 | `MapSpec`, `HashMap`, `MCHashMap`: the map and its implementation | done, model-checked and proved |
| 4 | `SelfPack`, `MCSelfPack`: vfs and packing | done, model-checked and proved |
| 5 | `LuaApp`, `MCLuaApp`: the Lua stack over requests and failing callbacks | done, model-checked; its invariants proved |
| 6 | `RequestParser`: text in pieces, token limits, the room made for a small body | done, model-checked; its token limits and tokens proved |
| 7 | `Responder`, and `Exchange`, `MCExchange` that compose both: one request and its response | done, model-checked; response, memory and keep-alive proved |
| 8 | `HashMapProofs`, `SelfPackProofs`, `LuaAppProofs`, `ResponseProofs`, `ExchangeProofs`, `TokenProofs`, and `FiniteSums` for what they share | done: every safety property but `HealthyNotCut`, and the refinement (section 6) |
| 9 | the MIME table, as a function from lines to a map | if anything is left to say |

`HttpServer` uses the parser through its outcomes, over all the requests of a
connection; `Exchange` looks inside one of them.  Two definitions are the bridge:
a refused head ends in `ParseStuck` there and in `Refuse` here, and a body is
`Complete` there when its last unit has arrived and here when its last symbol but
one has.  `MapSpec` is the abstract specification of the hash map; `SelfPack` uses
that promise, one item per path.  Abstract specifications still to state: one
request, one answer, for the event loop; a map from paths to bytes for the vfs in
both modes.

## 3. The models

### HttpServer

One epoll event is taken at a time and its handler runs to its end.  `op` is
what the thread does next and `cur` the request it does it to; this replaces
the C stack, since no call looks at its request after the call it ends with,
except in two frames: the accept loop (`accepting`) and
`hs_request_respond_error`, which writes again (`again`).  One action is the
code between two system calls, so a client, a timer or an edge may come between
any two calls of the kernel in a handler.

| Action | Code |
|---|---|
| `WaitListen`, `WaitIO`, `WaitTimer` | `hs_server_run_event_loop` and the handlers epoll calls |
| `Accept`, `AcceptStop` | `_hs_accept_and_begin_request_cycle`, `hs_server_accept_connection`, with the 503 over the memory limit |
| `EnterRead`, `ReadBytes`, `ReadEof`, `ReadFails` | `hs_request_begin_read`, `hs_read_request_and_exec_user_cb`, `_hs_read_into_buffer` |
| `ParseMore`, `ParseDone`, `ParseStuck` | `_hs_parse_buffer_and_exec_user_cb` by the outcome of `hsh_parser_exec` |
| `Handle` | `handle_request`, `http_respond`, `hs_request_respond`, `hs_request_begin_write` |
| `WriteMore`, `WriteClose`, `WriteKeepAlive`, `WriteError` | `hs_write_socket` and the switch on its result |
| `Rewrite` | the second `http_write` of `hs_request_respond_error` |
| `Terminate` (part of the above) | `hs_request_terminate_connection` |
| `Connect`, `Send`, `Fin`, `Rst`, `Drain`, `Expire` | the clients, the kernel and the clock |

A client sends a script of requests as units, a unit being bytes that arrive as
a whole.  A request has a layout (where its tokens lie), a head of one or two
units, a body that is absent, small, or streamed, or a head the grammar refuses.
The layout is data the tokens hold; two different layouts are enough to see a
request read through another one's tokens.  After a refused head the parser stops
behind the byte, without an error; the socket is read once more only if that byte
was the last one read (phases `stuck` and `refused`).  `errno` is a variable because the
code reads it after calls that did not set it.  `uncounted` is history: the room
that `ParseMore` has made for bodies, which `memused` leaves out
(`httpserver.h:1684-1686`).  The model of the kernel: an
edge sets `ioReady` if the mask lets it through, `EPOLL_CTL_MOD` tests the mask
at once, closing removes what is pending; a reset makes the next call fail with
`ECONNRESET` and later ones with `EPIPE`.

Where the code's behaviour is undefined the model stops: a `Rewrite` of a freed
request has no successor.  So no property holds or fails because of what a
particular build happens to do with freed memory.

### MapSpec and HashMap

`MapSpec` is what `hashmap.h` tells a caller: a call begins and later returns
with its effect and its answer, or, for `hashmap_set`, with "out of memory" and
no effect.  Of `hashmap_oom` the comment says that it is about the last
`hashmap_set` (`hashmap.c:428`), while a delete clears it (`hashmap.c:370`).  So
`MapSpec` promises the answer of the last set until the next delete, and from there
to the next set nothing.  `HashMap` is `hashmap.c`: one action is one iteration of a loop (a
probe of `hashmap_set_with_hash`, one bucket of `resize0`, one backward shift),
and `malloc` may fail whenever it is called.  `Contents` is the refinement
mapping: what the table holds, together with the entry in hand while one is
displaced or moved to a new table; a call takes effect when it returns.

### SelfPack

One action is one entry of a loop over files, or one stage of `main`.  The
directory may change at any step.  A `readdir` stream returns every file that was
there throughout and perhaps those that came or went; a `read` or `write` may be
short; an `open` may fail.  A file that has grown is read past the buffer
allocated for it, and the model lets the program end there (`Overrun`).  `calm` is
history: the directory stayed as it was, and every call succeeded.

### RequestParser

A request is a sequence of symbols.  A symbol is a character, or a word that the
parser or its callers tell from other texts (`Content-Length`, `chunked`,
`HTTP/1.1`), so that a well-formed head of a few lines has twenty to forty
symbols.  `Rules` is the automaton of the Ragel tables, with the actions of each
transition in the order the tables give them; that a header value may begin with
spaces, each of which enters the token anew, or that a lone `cr` after a header
may be followed by a key, is read off the tables.  One action is one call of
`read` or one symbol of `hsh_parser_exec`.  Symbols arrive one at a time between
reads; arrivals during parsing are not told apart from those just after, since
parsing looks at what was read and at nothing else.

`buffer`, `parser`, `tokens` are the fields of the C structs.  The sequence
numbers by which the parser knows that something was read are reduced to
`fresh`: equal or not.  The realloc that makes room for a body may move the
buffer while `p` still points into the old one (`httpserver.h:1685`); `index` is
then an arbitrary number, and the parser starts from it.  The model allows it,
and shows that the state it starts in reads nothing through `p`.  `reads` is
history.

### Responder and Exchange

`Responder` is the growing buffer: pieces with a name and a length, and a buffer
that knows of each byte which piece it is from.  `vsnprintf` ends its text with a
NUL; with negative room its size argument is huge.  The second `vsnprintf` of
`_grwprintf` takes its arguments from a `va_list` that the first has used up:
undefined, and the model lets it print a stray text of any of the lengths
`Strays`, or crash (`RespondCrashes`).

`Exchange` composes the two for one request on one connection: `RequestParser`
until the handler is called, `DetectKeepAlive` through the tokens, the response
that takes the place of the read buffer, and `memused` through all of it.  What
the connection does next is in `HttpServer`.

### LuaApp

The Lua stack is a sequence of objects, each with the number of its request, and
every push and pop of `luaapp.c` is made on it by the index the code uses.  The
Lua program is external: a callback ends with any of the contents in `Writes`
in the table it is given, or fails with a text, a table or another value.  The
C code then reads whatever is on top: the response, or the error object.  A
pointer to a string is `held` by a table, `converted` from a number (and on no
stack), or a literal; when something is allocated the collector may run, and what
is held only by a table that is no longer on the stack is freed.  `given` is what
the callback is told of the target.  `file` is where the files of the table are, and
what the lookup of this request got (`Lookup`, `vfs_get`): a file of the image is
always there, one on disk may no longer open, and then the request goes to Lua.
Where Lua calls `lua_atpanic` or C reads a
null pointer, the process ends (`Abort`).

## 4. The checks

TLC's passing runs explore their state spaces completely.

| Run | Question | Result |
|---|---|---|
| `http_safety` | Pipelined, chunked, half-closed and reset connections under timers, a body that outgrows the first buffer, the memory limit (`MAX_MEM_USAGE = 2`) and one descriptor too few (`MaxFds = 3`) | `TypeOK`, `NoUseAfterFree`, `MemAccounted`, `BufferFitsState`, `NoLostWakeup`, `TimeoutInRange`, `OneAnswerEach` hold |
| `http_answers` | Two polite clients, no timer | `Answered`, `HealthyNotCut` hold |
| `http_ends` | A client that goes silent in a refused head, one that may vanish | `EveryConnectionEnds` holds |
| `hash_map` | Four colliding keys, growth, shrinking, failing allocations, the highest load factor | `TypeOK`, `RobinHood`, `CountIsItems`, `FreeBucket`, `WithinMemory`, `ImplementsMap`, `CallsReturn` hold |
| `self_pack` | A directory that changes at any time, packed, run, killed and run again | `TypeOK`, `LayoutFits`, `RoundTrip`, `AnswersAsAtStartup` hold |
| `lua_app` | Three requests, for pages and for files that may no longer open, to callbacks that succeed or fail in every way | `TypeOK`, `StackAtRest`, `AnswerIsOutcome`, `HasContentType`, `TextsAlive`, `LuaAfterFiles`, `TameIsAnswered` hold |
| `exchange` | Fifteen requests in every cut into pieces, each with responses around the size of the first buffer | `TypeOK`, `TokensExact`, `OverlongTrickles`, `KeepAliveAsAsked`, `ResponseExact`, `MemUnderestimates`, `WellFormedHandled` hold |
| `http_stale_tokens` | `SeesOwnRequest` | **violated**, finding 1 |
| `http_keep_alive` | `IdleHasKeepAliveTimeout` | **violated**, finding 2 |
| `http_overload` | `AnswerKeepsRequest` | **violated**, finding 3 |
| `http_sticky_errno` | `HealthyNotCut`, with a client that resets | **violated**, finding 4 |
| `responder_growth` | `GrowsAutomatically` | **violated**, finding 5 |

**Bounds.**  Event loop: two connections, because what can go wrong relates one
connection to itself or to one other (a shared `errno`, the memory limit, the
accept loop); one or two requests each, because the state carried over a
kept connection is that of one request to the next; responses of two units
and a send buffer of one, so that writes are short; a read buffer of three or four
units, so that pipelined units share it, that may grow to sixteen.  In `http_safety`
it is three, and a body of three units behind a head of one needs more: the room is
made in `ParseMore`, and the state that follows is explored to the end (2,265,305
states).  `http_overload` has a send buffer of two, so that the first write takes the
whole 503, and no resets or half closes.  Timeouts of two and three events are told
apart and expire.  Hash map: four keys on two buckets at first, of which two have the same home at every size, one joins
them only in small tables, and one is where the table wraps; tables reach eight
buckets and shrink again; load factors are the default and 95, with growth by a
factor of two.  Packing: two files, one of which is needed at start, contents of
length zero and three, a page of four bytes, and an executable just below and at
a multiple of the page.  Directories of 4 GiB, where a `uint32` wraps, are
outside the model.  Lua: three requests, since a table left by one failure must
be met by a later success and by a later failure; one file and two kinds of
pages; six contents of a table, which between them have every kind of key and of
value, and a Content-Type twice.  Exchange: a read buffer of four symbols that
grows to 8, 16, 32 and 36, so that the last growth is cut off by the maximum;
limits of one to three symbols per token, so that a token can pass them; a body
that enlarges the buffer and one that cannot fit the largest; one request that
fills the largest buffer; `reads` is told apart up to three; a response buffer of
twelve with heads from eight to fourteen bytes.

**Fairness.**  The thread never stops inside a handler (`WF(Handler)`).  epoll's
ready list is a queue, so an event that is ready again and again when the thread
waits is reported (`SF` per event).  Timers expire and a client reads what it is
sent (`WF(Expire)`, `WF(Drain)`).  Nothing obliges a client to connect, send,
close or reset.  In `HashMap`, a call that has begun goes on (`WF(Running)`), and
nothing obliges the caller to make one.  `SelfPack` has safety properties only.  In `LuaApp` the thread goes on with a
request and callbacks end (`WF(Serve)`).  In `Exchange` it reads and parses what an
event has told it of (`WF(Reading)`); the timer is not forced to expire and does
not while an edge is pending, since twenty seconds are long to a thread that is
awake; and nothing obliges the client to send.

**Deadlock** is not checked in the runs of the event loop: when the clients are
done and the timers are frozen or gone, the server waits for events for ever.
Nor in those of `Exchange`, which end after one response.

**Mutants.**  Every property of a passing run has a mutant, an operator next to the
definition it changes as a plausible mistake would (a timer left in epoll, a mask
not changed back, a threshold rounded up, a `dib` not decremented), and is violated
under it in the run's own configuration.

## 5. Findings

1. `httpserver.h:1851`: the tokens of earlier requests stay in a kept
   connection's array and are found first, so the method, target and headers of
   the second request are read at the first one's offsets.
2. `httpserver.h:2602`: the keep-alive timeout is overwritten with the
   request timeout by the `hs_request_begin_read` called next.
3. `httpserver.h:2239`: the 503 answer begins a second write, on a request that
   a first, complete write has freed.  In the run's trace a client connects, is
   accepted over the memory limit, and its 503 is written whole at once.
4. `httpserver.h:2428`: `errno` is compared with `EPIPE` after writes that
   succeeded, so one broken connection drops another.
5. `httpserver.h:2091`: a line that fills the response buffer exactly loses its
   last byte to the NUL of `vsnprintf`; when the buffer grows, the second
   attempt uses a spent `va_list`, and the lengths of both are added.

Two comments say more than the code does, of things that nothing in the program
depends on; the models follow the code, and the properties ask for no more than it
does:

- "hashmap_oom returns true if the last hashmap_set() call failed due to the system
  being out of memory" (`hashmap.c:428-429`).  `hashmap_delete` clears the flag
  (`hashmap.c:370`), so after a set that failed and a delete it returns false.
  `ImplementsMap` leaves the flag open from a delete to the next set.  The program
  calls neither.
- "HTTP_MAX_TOKEN_LENGTH - default 8192 (8KB) - This is the max size of any non body
  http tokens" (`httpserver.h:80-82`).  The limit stops the parser until the next read and no
  further (`httpserver.h:1656`): a token that comes in pieces passes it, by one
  symbol for each read.  `OverlongTrickles` says that much and no more.

Observed on the way, and in the models, but against nothing the repository says in
so many words: packing reports success although a file was left out or the image was cut short
(`main.c:133`, `main.c:222`); the handler is called one byte before the end of a
body (`httpserver.h:1758`); a file that no longer opens is asked of Lua
(`vfs.c:78-81`, `main.c:111`); a callback whose headers have a number as key
ends the process (`luaapp.c:328`), and so does an error object that is neither text
nor table (`luaapp.c:314`); a failing callback leaves one table on the Lua stack.

## 6. The proofs

TLAPS checks the theorems below for every value of the constants that meets the
assumptions of the modules, which TLC evaluates in each run.  Each property is one
that a run checks, but for `MemNeverOver` and `MemExact`, which say what
`MemAccounted` comes to without and with a hypothesis on the bodies.

| Module | Theorem | Property |
|---|---|---|
| `HttpServerProofs` | `TypeCorrect` | `TypeOK` |
| | `FreedIsGone` | `NoUseAfterFree` |
| | `BufferAlwaysFitsState` | `BufferFitsState` |
| | `HandlerOncePerResponse` | `OneAnswerEach` |
| | `TimerStopsInTime` | `TimeoutInRange` |
| | `MemoryExact` | `MemAccounted` |
| | `MemoryNeverOverstated` | `MemNeverOver`: `memused` is at most what is allocated |
| | `MemoryExactIfBodiesFit` | `MemExact`: `memused` is what is allocated, if `BodiesFit` |
| | `NoWakeupIsLost` | `NoLostWakeup` |
| `HashMapProofs` | `TypeCorrect` | `TypeOK` |
| | `TableKeepsOrder` | `RobinHood` |
| | `CountIsRight` | `CountIsItems` |
| | `ProbesEnd` | `FreeBucket` |
| | `MemoryHolds` | `WithinMemory` |
| | `Refines` | `ImplementsMap` |
| `SelfPackProofs` | `TypeCorrect` | `TypeOK` |
| | `NothingIsOverwritten` | `LayoutFits` |
| | `ImageIsDirectory` | `RoundTrip` |
| | `FilesAsAtStartup` | `AnswersAsAtStartup` |
| `LuaAppProofs` | `TypeCorrect` | `TypeOK` |
| | `StackRests` | `StackAtRest` |
| | `AnswersOwnRequest` | `AnswerIsOutcome` |
| | `ContentTyped` | `HasContentType` |
| | `TextsStay` | `TextsAlive` |
| | `FilesComeFirst` | `LuaAfterFiles` |
| `ExchangeProofs` | `TypeCorrect` | `TypeOK` |
| | `OverlongCostsReads` | `OverlongTrickles` |
| | `ResponseIsExact` | `ResponseExact` |
| | `MemoryOnlyUnderestimated` | `MemUnderestimates` |
| `TokenProofs` | `KeepAliveIsAsAsked` | `KeepAliveAsAsked`, if `Delimited(request)` |
| | `TokensAreExact` | `TokensExact`, if `Delimited(request)` and `Numbered(request)` |

**The event loop.**  The properties speak of the moments in `epoll_wait`, or of one
field, and are not inductive: a handler breaks and restores what holds in between.
The invariant `IInv` says what is true inside a handler.

- `Control`: for each value of `op`, what the request being worked on looks like
  (`WorkingOn(cur)`); all other live requests are as `epoll_wait` finds them
  (`Waiting`).  A pending second write belongs to a request without keep-alive,
  which is why `Rewrite` never leads to a kept connection.
- `Events`: epoll holds nothing of a request that is not live.
- `Pending`: what is in the backlog is there once and has no history, which is
  why `Accept` starts from a clean request.
- `Counts`: calls of the handler are responses written, or in the buffer.
- `UnitsInScript`: bytes come from a script, so that `Parsed` has a value.
- `TypeOK`; that the write offset stays within the response is part of it.

`WorkingFrame` carries the argument: a step on one request changes nothing that is
kept about another.  `Steps` sorts all actions into working on a live request,
accepting one, leaving all alone, or taking an event; each part of `IInv` is then
shown to be kept by each kind.

**Its memory and its wakeups.**  `MemInv` adds to `IInv` what each step does to one
buffer and to `memused` (`Counted`); `FiniteSums` turns that into the sum over
all connections.  The room made for a small body that exceeds its buffer is
not counted (`httpserver.h:1686`), but subtracted with the buffer later: `memused`
drifts down by as much each time.  `MemAccounted` says that it differs from what is
allocated by this (`uncounted`) and by nothing else, at every step of every handler.
So `memused` is never too large, and exact under the hypothesis `BodiesFit`: every
small body has room, with its head, in the buffer as it is first allocated.  `Wakeups` says who is
owed an event at any step: everybody but the request that is being worked on, and
that one too once the thread is back in `epoll_wait`.  `NoLostWakeup` excepts a buffer
that is as large as it may get: the read loop then ends without an `EAGAIN`
(`httpserver.h:1889`), so that nothing is owed for what it left in the socket.

**The hash table.**  `RobinHood` and `CountIsItems` hold between calls.  Inside one:

- `Ordered` (every entry is as far from home as its `dib` says, and at most one
  further than the bucket before it) holds of the table, `Probing` of the entry in
  hand and the bucket it is at, and in a backward shift the table is `Holed`:
  ordered as if the bucket to be filled were free.
- `SizesFit`: the table is the smallest one, doubled some number of times
  (`Doubled`), and `growat` leaves a bucket free at every load factor that the
  setter lets through; with the count that gives `FreeBucket`.
- `MoveFits`: what a resize has moved and what it has left add up to `count`.

The refinement adds that no key is in two places (`OnePlaceEach`), and what each
loop has done of its call so far (`ServesCall`).  Its heart is `HoldsBack`: from the
home of a key to the bucket where its entry is, every `dib` is at least the
distance so far.  That is why a probe that meets a free bucket, or an entry
nearer to its home, may conclude that the key is nowhere: with it a set puts its
item down once, and a get that stops has missed nothing.  Each action of
`HashMap` is then a step of `MapSpec`, or changes nothing of it (`NextMap`): growing,
shrinking and the shift after a delete among the latter.

**Packing.**  `SumsFit`: what has been written and what is still to be written add up
to what `vfs_compute_size` found, so that nothing passes the end of the buffer;
`ImageFits` is the arithmetic of the pages, for any page size; `Undisturbed`: as long
as the directory stays as it was and nothing fails, each entry is its file.

**Lua.**  `StackFits` says of each index of the stack what is there, at each step: the
tables that failed callbacks left behind, then what this request has pushed.  What
is read by an index from the top is thereby this request's (`ReplyFits`,
`AnswerFits`), and what is pointed to is still reachable from the stack.

**A request and its response.**  The parser is in a token from its first symbol
to the one behind it, and `limit_count` is its length so far (`CountFits`).  A limit
is tested once a read, so each symbol beyond it has been paid for with one
(`ReadsPay`).  `RuleFits` is what that needs of the transition table, and is checked
rule by rule.  The index is lost by the realloc for a body only between two states
that do not use it (`BufferFits`).  `MemFits` bounds what `memused` leaves out by the
room made for the body.  `ResponseProofs` works out `FlattenSeq` and the fold over the
pieces of a response, for any number of pieces: if the head fits in the first
buffer, what is sent is the pieces, each once and in order (`ResponseExact`).

**The tokens of a text.**  `TokensExact` and `KeepAliveAsAsked` compare the tokens
with those of a reference that reads the whole text at once.  The text of a
request is a fixed sequence, so the proof says where in it the parser is.

- `TextLaw`: which symbol of `TextOf` is at which place, for any number of headers.
- `Where` gives, for each state of the automaton, the places it can be at, what
  token it is in and how many are pushed; `IsPlace` the place of each token.
- `RuleTable` sorts the transition rules by the part of a request they read;
  from each place, the one rule that reads the next symbol leads to a place, and
  ends a token only at its own (`Comes`, `RuleFollows`).  With what was read, that is
  `Places`, and inductive.
- `Lengths`: the number the parser counts is the one that the digits so far make
  (`Counted`), from which follows the length of the body and when it is there.
- `SaysText`: a token at its place has its text in the buffer, whatever has been
  read behind it.

The first hypothesis, `Delimited`, is that no part of the request holds the symbol that
ends it: no space in a method or target, no colon in a key, no `CR` in a header, and no
colon in a body without headers, which the automaton reads as a key.  Without it
the text is that of another request too, and nothing distinguishes them.  The second,
`Numbered`, is that `Content-Length` appears at most once and is a number: two are
concatenated (`httpserver.h:1635`), which is why TLC gets a request with two.  All
fifteen requests of the run are delimited, fourteen numbered.  A version and a value need
limits of at least one symbol (`LimitAssumption`); the limits of the code are far above.

**Induction.**  Sums over finite sets, the tables of `FlattenSeq` and of the folds,
and repeated doubling are defined by recursive functions; where a proof needs what
they compute for every argument, it takes a least counterexample and refutes it.

**Only model-checked.**

- Liveness: `Answered`, `EveryConnectionEnds`, `CallsReturn`, `TameIsAnswered`,
  `WellFormedHandled`.  The prover has no means for fairness.
- `HealthyNotCut`, which depends on the clients of its run (finding 4).
- `TokensExact` for requests that declare two lengths, or one that is no number.

## 7. Not modelled

- The kqueue variant and `http_server_poll`, not used by the program; chunked
  responses and reading a streamed body, which have no caller in it.
- The hash functions: `HashMap` allows any function from keys to numbers, and the
  run takes one whose values collide at home, in small tables only, and at the wrap.
- `hashmap_probe`, `hashmap_scan` and `hashmap_iter` read only; `elfree` and custom
  allocators have no caller.
- A `hashmap_set` without memory inside the vfs, whose result nobody looks at.
- The MIME table, the log, and the wording of responses: pure functions or output.
- The parser's states for chunks and for a body that is streamed: the handler has
  answered before they run, and the answer frees the buffer.  Its states inside a
  word, and the case of letters: a word is one symbol.
- The widths of `limit_count` (16 bits) and `content_length`: the first wraps only in a
  token of 32768 symbols, more than the largest buffer of any run.
- A second request on the same connection in `Exchange`: `HttpServer` has it.
- In `LuaApp`: `luaapp_dump_stack`, which prints; metamethods that a program may
  set on the tables; memory running out inside Lua; a headers table that has both a
  number and its text as keys.
