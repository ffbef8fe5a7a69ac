--------------------------- MODULE RequestParser ---------------------------
(***************************************************************************)
(* hsh_parser_exec of src/httpserver.h and what feeds it: the read buffer  *)
(* of a connection, the loop that reads into it and the one that takes     *)
(* tokens out of it, from an accepted connection to the call of the        *)
(* handler.                                                                *)
(*                                                                         *)
(* A request is a sequence of symbols: a symbol is a character, or a word  *)
(* that the parser or its callers tell from other texts.  It arrives in    *)
(* any pieces: a symbol at a time, and a read takes what has arrived.      *)
(* The Ragel tables are the transition rules below, of which the states    *)
(* inside a word are left out, and so are reads that end inside one.       *)
(***************************************************************************)
EXTENDS Integers, Sequences, FiniteSets, FiniteSetsExt, SequencesExt

CONSTANTS
  Requests,             \* what clients may send
  Limit,                \* the longest token of each type, in symbols
  RequestBufSize,       \* HTTP_REQUEST_BUF_SIZE
  MaxRequestBufSize,    \* HTTP_MAX_REQUEST_BUF_SIZE
  MaxReads              \* reads are told apart up to here

Digit    == [d \in {"0", "2", "9"} |-> IF d = "0" THEN 0 ELSE IF d = "2" THEN 2 ELSE 9]
Letters  == {"a", "chunked", "close", "Connection"}
Versions == {"HTTP/1.0", "HTTP/1.1"}
Alphabet == Letters \cup Versions \cup DOMAIN Digit \cup
            {"Content-Length", "Transfer-Encoding", "/", ":", "sp", "cr", "lf"}
TokenTypes == {"METHOD", "TARGET", "VERSION", "HEADER_KEY", "HEADER_VALUE"}

MaxLimit == 32767  \* limit_max is an int16_t

ASSUME RequestsAssumption ==
  \A r \in Requests :
    /\ DOMAIN r = {"method", "target", "version", "headers", "body"}
    /\ r.method \in Seq(Alphabet) /\ r.target \in Seq(Alphabet) /\ r.body \in Seq(Alphabet)
    /\ r.version \in Versions
    /\ r.headers \in Seq([key : Seq(Alphabet), val : Seq(Alphabet)])
ASSUME LimitAssumption ==
  /\ Limit \in [TokenTypes -> Nat] /\ Limit["VERSION"] >= 1 /\ Limit["HEADER_VALUE"] >= 1
  /\ \A t \in TokenTypes : Limit[t] <= MaxLimit
ASSUME BufSizeAssumption ==
  /\ RequestBufSize \in Nat \ {0} /\ MaxRequestBufSize \in Nat
  /\ RequestBufSize <= MaxRequestBufSize
ASSUME MaxReadsAssumption == MaxReads \in Nat

(* The text of a request.                                                  *)
HeadOf(r) ==
  r.method \o <<"sp">> \o r.target \o <<"sp", r.version, "cr", "lf">>
  \o FlattenSeq([i \in DOMAIN r.headers |->
       r.headers[i].key \o <<":", "sp">> \o r.headers[i].val \o <<"cr", "lf">>])
  \o <<"cr", "lf">>
TextOf == [r \in Requests |-> HeadOf(r) \o r.body]

-----------------------------------------------------------------------------
(* The transitions: from a state, at one of some symbols, to a state; then *)
(* the actions, in this order: a digit of the content length or the word   *)
(* chunked is noted, a token is entered, the symbol is counted, the token  *)
(* is ready or the head is done.                                           *)

Rule(from, at, to, enter, does) ==
  [from |-> from, at |-> at, to |-> to, enter |-> enter, does |-> does]

InKey   == Alphabet \ (Versions \cup {"/", ":", "sp"})
AllBut(s) == Alphabet \ s

(* A header line is begun at state s; a lone cr is the end of the head     *)
(* after another header, and a character of the key after the first line.  *)
KeyRules(s, plain) ==
  { Rule(s, plain \ {"Content-Length", "Transfer-Encoding"}, "key", "HEADER_KEY", {"count"}),
    Rule(s, {"Content-Length"}, "length", "HEADER_KEY", {"count"}),
    Rule(s, {"Transfer-Encoding"}, "coding", "HEADER_KEY", {"count"}) }

(* The key in state s goes on or ends; the value is begun at state v.      *)
KeyEndRules(s, sep) ==
  { Rule(s, InKey, "key", "", {"count"}), Rule(s, {":"}, sep, "", {"ready"}) }
ValueBeginSpaces(sep, v, special) ==  \* mutant: one space is passed over
  { Rule(sep, {"sp"}, v, "", {}),
    Rule(v, {"cr"}, "empty", "HEADER_VALUE", {"count", "ready"}),
    Rule(v, {"sp"}, "value", "HEADER_VALUE", {"count"}),
    Rule(v, AllBut({"cr", "sp"} \cup special), "value", "HEADER_VALUE", {"count"}) }
ValueBeginRules(sep, v, special) ==
  { Rule(sep, {"sp"}, v, "", {}),
    Rule(v, {"cr"}, "empty", "HEADER_VALUE", {"count", "ready"}),
    Rule(v, {"sp"}, v, "HEADER_VALUE", {"count"}),
    Rule(v, AllBut({"cr", "sp"} \cup special), "value", "HEADER_VALUE", {"count"}) }
ValueRules(s, special) ==
  { Rule(s, {"cr"}, "valcr", "", {"ready"}),
    Rule(s, AllBut({"cr", "lf"} \cup special), "value", "", {"count"}) }

Rules ==
  { Rule("start", Letters, "method", "METHOD", {"count"}),
    Rule("method", Letters, "method", "", {"count"}),
    Rule("method", {"sp"}, "target0", "", {"ready"}),
    Rule("target0", AllBut({"sp"}), "target", "TARGET", {"count"}),
    Rule("target", {"sp"}, "version0", "", {"ready"}),
    Rule("target", AllBut({"sp"}), "target", "", {"count"}),
    Rule("version0", Versions, "version", "VERSION", {}),
    Rule("version", {"cr"}, "line", "", {"ready"}),
    Rule("line", {"lf"}, "key0", "", {}),
    Rule("valcr", {"lf"}, "next", "", {"count"}),
    Rule("next", {"cr"}, "last", "HEADER_KEY", {"count"}),
    Rule("last", {"lf"}, "done", "", {"count", "done"}),
    Rule("last", InKey \ {"lf"}, "key", "", {"count"}),
    Rule("last", {":"}, "sep", "", {"ready"}),
    Rule("length0", DOMAIN Digit, "lengthval", "HEADER_VALUE", {"digit", "count"}),
    Rule("lengthval", DOMAIN Digit, "lengthval", "", {"digit", "count"}),
    Rule("coding0", {"chunked"}, "value", "HEADER_VALUE", {"chunked", "count"}),
    Rule("empty", {"lf"}, "next", "", {"count"}),
    Rule("empty", {"cr"}, "valcr", "", {"ready"}),
    Rule("empty", AllBut({"cr", "lf"}), "value", "", {"count"}) }
  \cup KeyRules("key0", InKey) \cup KeyRules("next", InKey \ {"cr"})
  \cup KeyEndRules("key", "sep") \cup KeyEndRules("length", "lengthsep")
  \cup KeyEndRules("coding", "codingsep")
  \cup ValueBeginRules("sep", "value0", {})
  \cup ValueBeginRules("lengthsep", "length0", DOMAIN Digit)
  \cup ValueBeginRules("codingsep", "coding0", {"chunked"})
  \cup ValueRules("value", {}) \cup ValueRules("lengthval", DOMAIN Digit)

States  == {r.from : r \in Rules} \cup {"body", "chunked", "large", "done", "error"}
RulesAt == [s \in States |-> [c \in Alphabet |-> {r \in Rules : r.from = s /\ c \in r.at}]]

-----------------------------------------------------------------------------
VARIABLES
  pc,        \* wait (for an event), read, exec, and how it ended
  request,   \* what the client sends
  sent,      \* the symbols that have arrived
  edge,      \* an epoll event of the socket is pending
  buffer,    \* hsh_buffer_s, but for the text: it is the beginning of the request
  parser,    \* hsh_parser_s; fresh: its sequence_id is not that of the buffer
  tokens,    \* hs_token_array_s
  memused,   \* of the server, as far as this connection counts
  reads      \* history: how often _hs_read_into_buffer was called

parserVars == <<pc, request, sent, edge, buffer, parser, tokens, memused, reads>>

Stream == TextOf[request]

(* hs_server_accept_connection, and hs_request_begin_read up to the read.  *)
ParserInit ==
  /\ pc = "read" /\ request \in Requests /\ sent = 0 /\ edge = FALSE
  /\ buffer = [capacity |-> RequestBufSize, length |-> 0, index |-> 0,
               after_headers_index |-> 0]
  /\ parser = [state |-> "start", type |-> "", index |-> 0, limit_count |-> 0, limit_max |-> 0,
               content_length |-> 0, chunked |-> FALSE, done |-> FALSE, fresh |-> FALSE]
  /\ tokens = <<>> /\ memused = RequestBufSize /\ reads = 0

(* The client: the next symbol arrives.  What arrives while the server     *)
(* parses is noticed at the next read or wait only, and arrives there.     *)
Arrive ==
  /\ pc \in {"wait", "read"} /\ sent < Len(Stream)
  /\ sent' = sent + 1 /\ edge' = TRUE
  /\ UNCHANGED <<pc, request, buffer, parser, tokens, memused, reads>>

(* An event: it is read only if the parser has come to the end of what was *)
(* read (_hs_buffer_requires_read).                                        *)
Event ==
  /\ pc = "wait" /\ edge /\ edge' = FALSE
  /\ pc' = IF buffer.index >= buffer.length THEN "read" ELSE "exec"
  /\ UNCHANGED <<request, sent, buffer, parser, tokens, memused, reads>>

-----------------------------------------------------------------------------
(* _hs_read_into_buffer *)

Room == buffer.capacity - buffer.length
Least(a, b) == IF a < b THEN a ELSE b
NextReads == Least(reads + 1, MaxReads)

(* One read that gets something.  A buffer that is full is doubled, up to  *)
(* the maximum; once it has that size no further read is made.             *)
ReadOnce ==  \* mutant: the loop is left once something was read
  /\ pc = "read" /\ Room > 0 /\ sent > buffer.length
  /\ LET length == buffer.length + Least(Room, sent - buffer.length)
         grows  == length = buffer.capacity /\ buffer.capacity # MaxRequestBufSize
         room   == IF grows THEN Least(2 * buffer.capacity, MaxRequestBufSize)
                   ELSE buffer.capacity
         again  == FALSE
     IN  /\ buffer' = [buffer EXCEPT !.length = length, !.capacity = room]
         /\ parser' = [parser EXCEPT !.fresh = @ \/ ~again]
         /\ reads' = IF again THEN reads ELSE NextReads
         /\ memused' = memused - buffer.capacity + room
         /\ pc' = IF again THEN "read" ELSE "exec"
  /\ UNCHANGED <<request, sent, edge, tokens>>

ReadUncapped ==  \* mutant: the maximum is looked at before the doubling only
  /\ pc = "read" /\ Room > 0 /\ sent > buffer.length
  /\ LET length == buffer.length + Least(Room, sent - buffer.length)
         grows  == length = buffer.capacity /\ buffer.capacity # MaxRequestBufSize
         room   == IF grows THEN 2 * buffer.capacity
                   ELSE buffer.capacity
         again  == room < MaxRequestBufSize
     IN  /\ buffer' = [buffer EXCEPT !.length = length, !.capacity = room]
         /\ parser' = [parser EXCEPT !.fresh = @ \/ ~again]
         /\ reads' = IF again THEN reads ELSE NextReads
         /\ memused' = memused - buffer.capacity + room
         /\ pc' = IF again THEN "read" ELSE "exec"
  /\ UNCHANGED <<request, sent, edge, tokens>>

ReadSome ==
  /\ pc = "read" /\ Room > 0 /\ sent > buffer.length
  /\ LET length == buffer.length + Least(Room, sent - buffer.length)
         grows  == length = buffer.capacity /\ buffer.capacity # MaxRequestBufSize
         room   == IF grows THEN Least(2 * buffer.capacity, MaxRequestBufSize)
                   ELSE buffer.capacity
         again  == room < MaxRequestBufSize
     IN  /\ buffer' = [buffer EXCEPT !.length = length, !.capacity = room]
         /\ parser' = [parser EXCEPT !.fresh = @ \/ ~again]
         /\ reads' = IF again THEN reads ELSE NextReads
         /\ memused' = memused - buffer.capacity + room
         /\ pc' = IF again THEN "read" ELSE "exec"
  /\ UNCHANGED <<request, sent, edge, tokens>>

(* A read that gets nothing ends the loop.                                 *)
ReadNothing ==
  /\ pc = "read" /\ Room > 0 /\ sent = buffer.length
  /\ parser' = [parser EXCEPT !.fresh = TRUE] /\ reads' = NextReads
  /\ pc' = "exec"
  /\ UNCHANGED <<request, sent, edge, buffer, tokens, memused>>

(* A read into no room returns 0, which is taken for the end of the file:  *)
(* hs_request_terminate_connection.                                        *)
ReadFull ==
  /\ pc = "read" /\ Room = 0
  /\ pc' = "closed" /\ memused' = memused - buffer.capacity
  /\ UNCHANGED <<request, sent, edge, buffer, parser, tokens, reads>>

-----------------------------------------------------------------------------
(* hsh_parser_exec and _hs_parse_buffer_and_exec_user_cb *)

Fresh  == ~parser.done /\ parser.fresh
Symbol == Stream[buffer.index + 1]
Apply  == RulesAt[parser.state][Symbol]

(* No token: the loop is left, and nothing is parsed before the next read. *)
Stop(cs, index) ==
  /\ parser' = [parser EXCEPT !.state = cs, !.fresh = FALSE]
  /\ buffer' = [buffer EXCEPT !.index = index]
  /\ pc' = "wait"
  /\ UNCHANGED <<request, sent, edge, tokens, memused, reads>>

(* Called for an event without a read.                                     *)
NotFresh ==
  /\ pc = "exec" /\ ~Fresh /\ pc' = "wait"
  /\ UNCHANGED <<request, sent, edge, buffer, parser, tokens, memused, reads>>

(* All that was read is parsed, or a symbol was refused some time before.  *)
NoMore ==
  /\ pc = "exec" /\ Fresh
  /\ buffer.index = buffer.length \/ parser.state = "error"
  /\ Stop(parser.state, buffer.index)

Parses == pc = "exec" /\ Fresh /\ buffer.index # buffer.length /\ parser.state # "error"
InHead == Parses /\ parser.state # "body"

(* Action 18: the symbol is passed over.                                   *)
Refuse ==
  /\ InHead /\ Apply = {}
  /\ Stop("error", buffer.index + 1)

(* The parser after a rule; a token that is entered begins at the symbol.  *)
After(r) ==
  LET enters == r.enter # ""
  IN  [parser EXCEPT
        !.state = r.to,
        !.type  = IF enters THEN r.enter ELSE @,
        !.index = IF enters THEN buffer.index ELSE @,
        !.limit_max   = IF enters THEN Limit[r.enter] ELSE @,
        !.limit_count = (IF enters THEN 0 ELSE @) + IF "count" \in r.does THEN 1 ELSE 0,
        !.content_length = IF "digit" \in r.does THEN 10 * @ + Digit[Symbol] ELSE @,
        !.chunked = @ \/ "chunked" \in r.does]
NeverTooLong(p, r) == FALSE  \* mutant of TooLong: no limit
TooLong(p, r) == "count" \in r.does /\ p.limit_count > p.limit_max

(* Action 10 over the limit: the parser stops behind the symbol, without   *)
(* an error, and goes on from there after another read.                    *)
OverLimit ==
  /\ InHead
  /\ \E r \in Apply :
       /\ TooLong(After(r), r)
       /\ parser' = [After(r) EXCEPT !.fresh = FALSE]
  /\ buffer' = [buffer EXCEPT !.index = @ + 1]
  /\ pc' = "wait"
  /\ UNCHANGED <<request, sent, edge, tokens, memused, reads>>

(* A symbol inside a token, or between two.                                *)
Advance ==
  /\ InHead
  /\ \E r \in Apply :
       /\ ~TooLong(After(r), r) /\ r.does \cap {"ready", "done"} = {}
       /\ parser' = After(r)
  /\ buffer' = [buffer EXCEPT !.index = @ + 1]
  /\ UNCHANGED <<pc, request, sent, edge, tokens, memused, reads>>

(* Action 6: the token ends in front of the symbol and is pushed.          *)
TokenReady ==
  /\ InHead
  /\ \E r \in Apply :
       /\ ~TooLong(After(r), r) /\ "ready" \in r.does
       /\ parser' = After(r)
       /\ tokens' = Append(tokens, [type |-> After(r).type, index |-> After(r).index,
                                    len |-> buffer.index - After(r).index])
  /\ buffer' = [buffer EXCEPT !.index = @ + 1]
  /\ UNCHANGED <<pc, request, sent, edge, memused, reads>>

(* Action 11: a body in chunks, or one that the largest buffer has no room *)
(* for, is left to the handler, who is called at once, as without a body.  *)
(* For any other body room is made, of which memused is not told; p still  *)
(* points into the old buffer, and if the new one lies elsewhere, index    *)
(* becomes the distance between the two: any number, which -1 stands for,  *)
(* or by chance the length.                                                *)
HeadersDone ==
  /\ InHead
  /\ \E r \in Apply :
       LET after == buffer.index + 1
           need  == parser.content_length + after
           kind  == IF parser.chunked THEN "chunked"
                    ELSE IF parser.content_length = 0 THEN "done"
                    ELSE IF need > MaxRequestBufSize THEN "large" ELSE "body"
           grows == kind = "body" /\ need > buffer.capacity
       IN  /\ ~TooLong(After(r), r) /\ "done" \in r.does
           /\ parser' = [After(r) EXCEPT !.state = kind, !.type = "HEADERS_DONE", !.index = 0]
           /\ \E index \in {after} \cup IF grows THEN {-1, buffer.length} ELSE {} :
                buffer' = [buffer EXCEPT !.index = index, !.after_headers_index = after,
                             !.capacity = IF grows THEN need ELSE @]
           /\ pc' = IF kind = "body" THEN "exec" ELSE "handled"
  /\ tokens' = Append(tokens, [type |-> "HEADERS_DONE", index |-> 0, len |-> 0])
  /\ UNCHANGED <<request, sent, edge, memused, reads>>

(* Actions 5 and 16: whatever p points to, it is not read, and all that    *)
(* was read is passed over; the body is there when what was read reaches   *)
(* its last symbol.                                                        *)
Body ==
  /\ Parses /\ parser.state = "body"
  /\ LET after == buffer.after_headers_index
         size  == parser.content_length
         there == buffer.length >= after + size - 1
     IN  /\ parser' = [parser EXCEPT !.type = "BODY", !.index = after, !.done = there,
                        !.fresh = there]
         /\ tokens' = IF there THEN Append(tokens, [type |-> "BODY", index |-> after, len |-> size])
                      ELSE tokens
         /\ pc' = IF there THEN "handled" ELSE "wait"
  /\ buffer' = [buffer EXCEPT !.index = buffer.length]
  /\ UNCHANGED <<request, sent, edge, memused, reads>>

(* The timer: nothing has come for too long.                               *)
Expire ==
  /\ pc = "wait" /\ ~edge
  /\ pc' = "closed" /\ memused' = memused - buffer.capacity
  /\ UNCHANGED <<request, sent, edge, buffer, parser, tokens, reads>>

Exec == NotFresh \/ NoMore \/ Refuse \/ OverLimit \/ Advance \/ TokenReady \/ HeadersDone \/ Body
Serve == Event \/ ReadSome \/ ReadNothing \/ ReadFull \/ Exec

-----------------------------------------------------------------------------
(* What a request says, by its structure.                                  *)

Trimmed(v) ==
  LET rest == {i \in DOMAIN v : v[i] # "sp"}
  IN  IF rest = {} THEN <<>> ELSE SubSeq(v, Min(rest), Len(v))

Named(r, name) == {i \in DOMAIN r.headers : r.headers[i].key = <<name>>}
FirstNamed(r, name) ==
  LET at == Named(r, name)
  IN  IF at = {} THEN <<>>
      ELSE Trimmed(r.headers[Min(at)].val)
IsChunked(r) == \E i \in Named(r, "Transfer-Encoding") : Trimmed(r.headers[i].val) = <<"chunked">>
IsNumber(v)  == v # <<>> /\ \A i \in DOMAIN v : v[i] \in DOMAIN Digit
NumberOf(v)  == FoldLeft(LAMBDA n, d : 10 * n + Digit[d], 0, v)
Declared(r) ==
  LET v == FirstNamed(r, "Content-Length") IN IF IsNumber(v) THEN NumberOf(v) ELSE 0

(* The tokens of its head and its body, with their texts.                  *)
Expected(r) ==
  <<[type |-> "METHOD", text |-> r.method], [type |-> "TARGET", text |-> r.target],
    [type |-> "VERSION", text |-> <<r.version>>]>>
  \o FlattenSeq([i \in DOMAIN r.headers |->
       <<[type |-> "HEADER_KEY", text |-> r.headers[i].key],
         [type |-> "HEADER_VALUE", text |-> Trimmed(r.headers[i].val)]>>])
  \o <<[type |-> "HEADERS_DONE", text |-> <<>>],
       [type |-> "BODY", text |-> SubSeq(r.body, 1, Least(Declared(r), Len(r.body)))]>>

(* A request the parser takes: some header, a key of every header, at most *)
(* one length, which is a number and that of the body, and every token     *)
(* within its limit, a value strictly.                                     *)
WellFormed(r) ==
  /\ r.headers # <<>> /\ r.method \in Seq(Letters) /\ \A i \in DOMAIN r.target : r.target[i] # "sp"
  /\ Len(r.method) \in 1..Limit["METHOD"] /\ Len(r.target) \in 1..Limit["TARGET"]
  /\ \A i \in DOMAIN r.headers :
       /\ r.headers[i].key \in Seq(InKey) /\ Len(r.headers[i].key) \in 1..Limit["HEADER_KEY"]
       /\ \A j \in DOMAIN r.headers[i].val : r.headers[i].val[j] \notin {"cr", "lf"}
       /\ Len(Trimmed(r.headers[i].val)) < Limit["HEADER_VALUE"]
  /\ Cardinality(Named(r, "Content-Length")) <= 1
  /\ \A i \in Named(r, "Content-Length") : IsNumber(Trimmed(r.headers[i].val))
  /\ IsChunked(r) \/ Len(r.body) = Declared(r)

(* The last size of a buffer that is doubled before it has the maximum.    *)
LastCapacity ==
  LET last[c \in Nat] == IF 2 * c >= MaxRequestBufSize THEN c ELSE last[2 * c]
  IN  IF RequestBufSize < MaxRequestBufSize THEN last[RequestBufSize] ELSE 0
Taken == {r \in Requests : WellFormed(r) /\ Len(TextOf[r]) < LastCapacity}

Ended   == {"write", "kept", "ended"}  \* what comes after the handler: see Exchange
Handled == pc \in {"handled", "crashed"} \cup Ended

(* The types of the variables, and where a position may be.                *)
ParserTypeOK ==
  /\ pc \in {"wait", "read", "exec", "handled", "crashed", "closed"} \cup Ended
  /\ request \in Requests /\ sent \in 0..Len(Stream) /\ edge \in BOOLEAN
  /\ pc \notin Ended =>
       /\ buffer.capacity \in RequestBufSize..MaxRequestBufSize
       /\ buffer.length \in 0..buffer.capacity /\ buffer.length <= sent
       /\ buffer.index \in (-1)..buffer.length
       /\ IF buffer.index = -1 THEN pc = "exec" /\ parser.state = "body"
          ELSE buffer.after_headers_index \in 0..buffer.index
  /\ parser.state \in States /\ parser.type \in TokenTypes \cup {"", "HEADERS_DONE", "BODY"}
  /\ parser.content_length \in Nat /\ parser.limit_max \in Nat /\ parser.limit_max <= MaxLimit
  /\ parser.limit_count \in 0..(sent + 1)
  /\ parser.fresh \in BOOLEAN /\ parser.chunked \in BOOLEAN /\ parser.done \in BOOLEAN
  /\ reads \in 0..MaxReads
  /\ \A i \in DOMAIN tokens : tokens[i].index \in 0..sent /\ tokens[i].len \in Nat
  /\ memused \in Int

(* In whatever pieces a request arrives, and however the buffer is grown   *)
(* in between, the tokens are those of its text, in their order and with   *)
(* their positions; of a body the handler is given, the last symbol may    *)
(* not have arrived.                                                       *)
TokensExact ==
  LET read     == SubSeq(Stream, 1, buffer.length)
      text(t)  == SubSeq(read, t.index + 1, Least(t.index + t.len, buffer.length))
      want     == Expected(request)
  IN  /\ Len(tokens) <= Len(want)
      /\ pc \notin Ended => \A i \in DOMAIN tokens :
           /\ tokens[i].type = want[i].type
           /\ \/ text(tokens[i]) = want[i].text
              \/ tokens[i].type = "BODY" /\ text(tokens[i]) = Front(want[i].text)

(* A token that is longer than its limit takes a read for every symbol it  *)
(* is too long by: the limit holds for a request that comes in one piece,  *)
(* not for one that trickles in.                                           *)
OverlongTrickles ==
  \A i \in DOMAIN tokens :
    tokens[i].type \in TokenTypes =>
      reads > Least(tokens[i].len - Limit[tokens[i].type], MaxReads - 1)

(* Once all of it has arrived, a request that the parser takes, and that   *)
(* does not fill the buffer up to its last doubling, is handled, in        *)
(* whatever pieces it came; neither an event is missed nor the timer needed.*)
WellFormedHandled ==
  pc # "closed" /\ sent = Len(Stream) /\ request \in Taken ~> Handled
=============================================================================
