------------------------------ MODULE Exchange ------------------------------
(***************************************************************************)
(* One request and its response on one connection: RequestParser up to the *)
(* call of the handler, what the handler is told of the connection         *)
(* (request_util.c in src/httpserver.h), and Responder, whose buffer takes *)
(* the place of the one that was read into.                                *)
(***************************************************************************)
EXTENDS RequestParser

CONSTANTS
  ResponseBufSize,  \* HTTP_RESPONSE_BUF_SIZE
  Responses,        \* the lengths of the pieces of the responses handlers give
  Strays            \* the lengths of what is printed of arguments that are not there

R == INSTANCE Responder

ASSUME ResponseBufSizeAssumption == ResponseBufSize \in Nat \ {0}
ASSUME ResponsesAssumption ==
  \A r \in Responses :
    /\ DOMAIN r = {"status", "length", "connection", "headers", "body"}
    /\ {r.status, r.length, r.connection} \subseteq Nat
    /\ r.headers \in Seq([of : STRING, len : Nat])
    /\ r.body \in Seq(Nat) /\ Len(r.body) <= 1

ASSUME StraysAssumption == Strays \subseteq Nat

VARIABLES
  response,   \* what the handler has given
  keepAlive,  \* HTTP_KEEP_ALIVE of the request
  out         \* grwprintf_t, then the text of the buffer of the request

vars == <<parserVars, response, keepAlive, out>>

NoResponse == [status |-> 0, length |-> 0, connection |-> 0, headers |-> <<>>, body |-> <<>>]

Init ==
  /\ ParserInit
  /\ response = NoResponse /\ keepAlive = FALSE /\ out = R!GrwInit

-----------------------------------------------------------------------------
(* hs_get_token_string and hs_request_header: the first one.               *)
TokenText(t) == SubSeq(Stream, t.index + 1, t.index + t.len)
TokensOf(type) == {i \in DOMAIN tokens : tokens[i].type = type}
Version == TokenText(tokens[Min(TokensOf("VERSION"))])
Header(name) ==
  LET at == {i \in TokensOf("HEADER_KEY") : TokenText(tokens[i]) = <<name>>}
  IN  IF at = {} THEN <<>> ELSE TokenText(tokens[Min(at) + 1])

(* Mutant of DetectKeepAlive: a header without a value asks for closing.   *)
DetectEmptyCloses ==
  ~(Header("Connection") = <<"close">> \/ Header("Connection") = <<>>)

(* hs_request_detect_keep_alive_flag *)
DetectKeepAlive ==
  ~ \/ Header("Connection") = <<"close">>
    \/ Header("Connection") = <<>> /\ Version # <<"HTTP/1.1">>

(* What it should be, by the structure of the request.                     *)
AsksKeepAlive(r) ==
  LET conn == FirstNamed(r, "Connection")
  IN  conn # <<"close">> /\ (conn = <<>> => r.version # "HTTP/1.0")

Connection(keep) == IF keep THEN "keep-alive" ELSE "close"

(* The buffer of each response, and what should be in it; n bytes are      *)
(* printed by a second vsnprintf, of arguments that are not there.         *)
Serialized ==
  [r \in Responses |-> [keep \in BOOLEAN |-> [n \in Strays |->
     R!Serialize(r, Connection(keep), [of |-> "stray", len |-> n])]]]
Exactly == [r \in Responses |-> [keep \in BOOLEAN |-> R!Exactly(r, Connection(keep))]]
HeadLen(r) == Len(R!Bytes(R!HeadPieces(r, "")))

(* The handler responds: hs_request_respond and _http_perform_response.    *)
RespondKeepsMem ==  \* mutant: the read buffer is not subtracted
  /\ pc = "handled" /\ pc' = "write"
  /\ keepAlive' = DetectKeepAlive
  /\ \E r \in Responses, n \in Strays :
       response' = r /\ out' = Serialized[r][keepAlive'][n]
  /\ buffer' = [buffer EXCEPT !.length = out'.size, !.capacity = Len(out'.buf)]
  /\ memused' = memused + Len(out'.buf)
  /\ UNCHANGED <<request, sent, edge, parser, tokens, reads>>

Respond ==
  /\ pc = "handled" /\ pc' = "write"
  /\ keepAlive' = DetectKeepAlive
  /\ \E r \in Responses, n \in Strays :
       response' = r /\ out' = Serialized[r][keepAlive'][n]
  /\ buffer' = [buffer EXCEPT !.length = out'.size, !.capacity = Len(out'.buf)]
  /\ memused' = memused - buffer.capacity + Len(out'.buf)
  /\ UNCHANGED <<request, sent, edge, parser, tokens, reads>>

(* Or the process dies of reading such arguments: some line of the head    *)
(* had no room in the first buffer, other than the blank one.              *)
RespondCrashes ==
  /\ pc = "handled" /\ pc' = "crashed"
  /\ \E r \in Responses : HeadLen(r) - 1 > ResponseBufSize
  /\ UNCHANGED <<request, sent, edge, buffer, parser, tokens, memused, reads, response, keepAlive,
                 out>>

(* _hs_write_socket_and_handle_return_code once all is written; what a     *)
(* kept connection does next is in HttpServer.                             *)
Written ==
  /\ pc = "write" /\ pc' = IF keepAlive THEN "kept" ELSE "ended"
  /\ memused' = memused - buffer.capacity
  /\ UNCHANGED <<request, sent, edge, buffer, parser, tokens, reads, response, keepAlive, out>>

Reading == Serve /\ UNCHANGED <<response, keepAlive, out>>
Server  == Reading \/ Respond \/ RespondCrashes \/ Written
Next == Server \/ ((Arrive \/ Expire) /\ UNCHANGED <<response, keepAlive, out>>)

Spec == Init /\ [][Next]_vars

(* The thread reads and parses what an event has told it of.               *)
FairSpec == Spec /\ WF_vars(Reading)

-----------------------------------------------------------------------------
(* The types of the variables.                                             *)
TypeOK ==
  /\ ParserTypeOK /\ keepAlive \in BOOLEAN
  /\ IF pc \in Ended THEN response \in Responses ELSE response = NoResponse
  /\ out.size \in Nat /\ out.overrun \in BOOLEAN
  /\ pc \in Ended => buffer.capacity = Len(out.buf) /\ buffer.length = out.size

(* The Connection header of the response, and the connection after it, are *)
(* what the version and the first Connection header of the request ask     *)
(* for, however the request arrived and whatever other headers it has.     *)
KeepAliveAsAsked == pc \in Ended => keepAlive = AsksKeepAlive(request)

(* A response whose head is shorter than the first buffer is sent as it    *)
(* was made, whatever the length of its body, and nothing behind it.       *)
ResponseExact ==
  pc \in Ended /\ HeadLen(response) < ResponseBufSize =>
    ~out.overrun /\ R!SentBytes(out) = Exactly[response][keepAlive]

(* What the server says of its response buffer: it grows automatically if  *)
(* its capacity is reached.  What is sent is the response all the same.    *)
GrowsAutomatically ==
  pc \in Ended => ~out.overrun /\ R!SentBytes(out) = Exactly[response][keepAlive]

(* memused never says more than is allocated for the connection; it says   *)
(* less only after room was made for a body, and then by no more than that.*)
MemUnderestimates ==
  LET allocated == IF pc \in {"closed", "kept", "ended"} THEN 0 ELSE buffer.capacity
      room      == buffer.after_headers_index + parser.content_length
  IN  /\ memused <= allocated
      /\ memused < allocated => parser.state = "body" /\ allocated - memused <= room - RequestBufSize
=============================================================================
