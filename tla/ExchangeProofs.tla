--------------------------- MODULE ExchangeProofs ----------------------------
(***************************************************************************)
(* Proofs about one request and its response, for any requests, limits,    *)
(* sizes of the buffers and responses.  The parser is in a token from its  *)
(* first symbol to the one behind it, and what it has counted since is the *)
(* length so far; each symbol over the limit has cost a read.  What is     *)
(* allocated and not in memused is what HeadersDone added for a body.      *)
(***************************************************************************)
EXTENDS ResponseProofs

-----------------------------------------------------------------------------
(* The transition rules.                                                   *)

(* The states inside a token, all of whose symbols are counted.            *)
Inside == {"method", "target", "key", "length", "coding", "last", "value", "lengthval", "empty"}

Fits(from, at, to, enter, does) ==
  /\ to \in States \ {"body", "error"} /\ enter \in TokenTypes \cup {""}
  /\ to \in Inside => "count" \in does /\ (enter # "" \/ from \in Inside)
  /\ to = "version" => enter = "VERSION" /\ "count" \notin does
  /\ "ready" \in does =>
       \/ from \in Inside \cup {"version"} /\ enter = "" /\ "count" \notin does
       \/ enter = "HEADER_VALUE" /\ "count" \in does
  /\ "digit" \in does => at \subseteq DOMAIN Digit /\ "done" \notin does
RuleFits(r) == Fits(r.from, r.at, r.to, r.enter, r.does)

(* Every state that a rule leads to is one of the states.                  *)
LEMMA StatesNamed ==
  /\ "start" \in States /\ "method" \in States /\ "target0" \in States /\ "target" \in States
  /\ "version0" \in States /\ "version" \in States /\ "line" \in States /\ "valcr" \in States
  /\ "next" \in States /\ "last" \in States /\ "lengthval" \in States /\ "empty" \in States
  /\ "key0" \in States /\ "key" \in States /\ "length" \in States /\ "coding" \in States
  /\ "sep" \in States /\ "lengthsep" \in States /\ "codingsep" \in States /\ "value0" \in States
  /\ "length0" \in States /\ "coding0" \in States /\ "value" \in States /\ "done" \in States
<1>1. \A s \in {"start", "method", "target0", "target", "version0", "version", "line", "valcr",
                "next", "last", "length0", "lengthval", "coding0", "empty", "key0", "key",
                "length", "coding", "sep", "lengthsep", "codingsep", "value0", "value"} :
        \E r \in Rules : r.from = s
  BY DEF Rules, KeyRules, KeyEndRules, ValueBeginRules, ValueRules, Rule
<1> QED BY <1>1 DEF States

(* A rule has the parts it is made of.                                     *)
LEMMA RuleParts ==
  ASSUME NEW from, NEW at, NEW to, NEW enter, NEW does, Fits(from, at, to, enter, does)
  PROVE  RuleFits(Rule(from, at, to, enter, does))
<1>1. LET r == Rule(from, at, to, enter, does)
      IN  r.from = from /\ r.at = at /\ r.to = to /\ r.enter = enter /\ r.does = does
  BY DEF Rule
<1> QED BY <1>1 DEF RuleFits

(* Every rule leads to a state that has rules, or to the end; a token is   *)
(* counted from its first symbol on, the version not at all.               *)
LEMMA RulesFit == \A r \in Rules : RuleFits(r)
<1>1. ASSUME NEW s, NEW plain, s \in {"key0", "next"}, NEW r \in KeyRules(s, plain)
      PROVE  RuleFits(r)
  <2>1. /\ Fits(s, plain \ {"Content-Length", "Transfer-Encoding"}, "key", "HEADER_KEY", {"count"})
        /\ Fits(s, {"Content-Length"}, "length", "HEADER_KEY", {"count"})
        /\ Fits(s, {"Transfer-Encoding"}, "coding", "HEADER_KEY", {"count"})
    BY StatesNamed DEF Fits, Inside, TokenTypes
  <2>2. /\ RuleFits(Rule(s, plain \ {"Content-Length", "Transfer-Encoding"}, "key", "HEADER_KEY", {"count"}))
        /\ RuleFits(Rule(s, {"Content-Length"}, "length", "HEADER_KEY", {"count"}))
        /\ RuleFits(Rule(s, {"Transfer-Encoding"}, "coding", "HEADER_KEY", {"count"}))
    BY <2>1, RuleParts, Zenon
  <2> QED BY <2>2 DEF KeyRules
<1>2. ASSUME NEW s \in {"key", "length", "coding"}, NEW sep \in {"sep", "lengthsep", "codingsep"},
             NEW r \in KeyEndRules(s, sep)
      PROVE  RuleFits(r)
  <2>1. Fits(s, InKey, "key", "", {"count"}) /\ Fits(s, {":"}, sep, "", {"ready"})
    BY StatesNamed DEF Fits, Inside, TokenTypes
  <2>2. /\ RuleFits(Rule(s, InKey, "key", "", {"count"}))
        /\ RuleFits(Rule(s, {":"}, sep, "", {"ready"}))
    BY <2>1, RuleParts, Zenon
  <2> QED BY <2>2 DEF KeyEndRules
<1>3. ASSUME NEW sep, NEW v \in {"value0", "length0", "coding0"}, NEW special,
             NEW r \in ValueBeginRules(sep, v, special)
      PROVE  RuleFits(r)
  <2>1. /\ Fits(sep, {"sp"}, v, "", {})
        /\ Fits(v, {"cr"}, "empty", "HEADER_VALUE", {"count", "ready"})
        /\ Fits(v, {"sp"}, v, "HEADER_VALUE", {"count"})
        /\ Fits(v, AllBut({"cr", "sp"} \cup special), "value", "HEADER_VALUE", {"count"})
    BY StatesNamed DEF Fits, Inside, TokenTypes
  <2>2. /\ RuleFits(Rule(sep, {"sp"}, v, "", {}))
        /\ RuleFits(Rule(v, {"cr"}, "empty", "HEADER_VALUE", {"count", "ready"}))
        /\ RuleFits(Rule(v, {"sp"}, v, "HEADER_VALUE", {"count"}))
        /\ RuleFits(Rule(v, AllBut({"cr", "sp"} \cup special), "value", "HEADER_VALUE", {"count"}))
    BY <2>1, RuleParts, Zenon
  <2> QED BY <2>2 DEF ValueBeginRules
<1>4. ASSUME NEW s \in {"value", "lengthval"}, NEW special, NEW r \in ValueRules(s, special)
      PROVE  RuleFits(r)
  <2>1. /\ Fits(s, {"cr"}, "valcr", "", {"ready"})
        /\ Fits(s, AllBut({"cr", "lf"} \cup special), "value", "", {"count"})
    BY StatesNamed DEF Fits, Inside, TokenTypes
  <2>2. /\ RuleFits(Rule(s, {"cr"}, "valcr", "", {"ready"}))
        /\ RuleFits(Rule(s, AllBut({"cr", "lf"} \cup special), "value", "", {"count"}))
    BY <2>1, RuleParts, Zenon
  <2> QED BY <2>2 DEF ValueRules
<1> DEFINE Line ==
             { Rule("start", Letters, "method", "METHOD", {"count"}),
               Rule("method", Letters, "method", "", {"count"}),
               Rule("method", {"sp"}, "target0", "", {"ready"}),
               Rule("target0", AllBut({"sp"}), "target", "TARGET", {"count"}),
               Rule("target", {"sp"}, "version0", "", {"ready"}),
               Rule("target", AllBut({"sp"}), "target", "", {"count"}),
               Rule("version0", Versions, "version", "VERSION", {}),
               Rule("version", {"cr"}, "line", "", {"ready"}),
               Rule("line", {"lf"}, "key0", "", {}),
               Rule("valcr", {"lf"}, "next", "", {"count"}) }
           Ends ==
             { Rule("next", {"cr"}, "last", "HEADER_KEY", {"count"}),
               Rule("last", {"lf"}, "done", "", {"count", "done"}),
               Rule("last", InKey \ {"lf"}, "key", "", {"count"}),
               Rule("last", {":"}, "sep", "", {"ready"}),
               Rule("length0", DOMAIN Digit, "lengthval", "HEADER_VALUE", {"digit", "count"}),
               Rule("lengthval", DOMAIN Digit, "lengthval", "", {"digit", "count"}),
               Rule("coding0", {"chunked"}, "value", "HEADER_VALUE", {"chunked", "count"}),
               Rule("empty", {"lf"}, "next", "", {"count"}),
               Rule("empty", {"cr"}, "valcr", "", {"ready"}),
               Rule("empty", AllBut({"cr", "lf"}), "value", "", {"count"}) }
<1> HIDE DEF Line, Ends
<1>5. \A r \in Line : RuleFits(r)
  <2>1. /\ Fits("start", Letters, "method", "METHOD", {"count"})
        /\ Fits("method", Letters, "method", "", {"count"})
        /\ Fits("method", {"sp"}, "target0", "", {"ready"})
        /\ Fits("target0", AllBut({"sp"}), "target", "TARGET", {"count"})
        /\ Fits("target", {"sp"}, "version0", "", {"ready"})
    BY StatesNamed DEF Fits, Inside, TokenTypes
  <2>2. /\ Fits("target", AllBut({"sp"}), "target", "", {"count"})
        /\ Fits("version0", Versions, "version", "VERSION", {})
        /\ Fits("version", {"cr"}, "line", "", {"ready"})
        /\ Fits("line", {"lf"}, "key0", "", {})
        /\ Fits("valcr", {"lf"}, "next", "", {"count"})
    BY StatesNamed DEF Fits, Inside, TokenTypes
  <2>3. /\ RuleFits(Rule("start", Letters, "method", "METHOD", {"count"}))
        /\ RuleFits(Rule("method", Letters, "method", "", {"count"}))
        /\ RuleFits(Rule("method", {"sp"}, "target0", "", {"ready"}))
        /\ RuleFits(Rule("target0", AllBut({"sp"}), "target", "TARGET", {"count"}))
        /\ RuleFits(Rule("target", {"sp"}, "version0", "", {"ready"}))
        /\ RuleFits(Rule("target", AllBut({"sp"}), "target", "", {"count"}))
        /\ RuleFits(Rule("version0", Versions, "version", "VERSION", {}))
        /\ RuleFits(Rule("version", {"cr"}, "line", "", {"ready"}))
        /\ RuleFits(Rule("line", {"lf"}, "key0", "", {}))
        /\ RuleFits(Rule("valcr", {"lf"}, "next", "", {"count"}))
    BY <2>1, <2>2, RuleParts, Zenon
  <2> QED BY <2>3 DEF Line, Ends
<1>6. \A r \in Ends : RuleFits(r)
  <2>1. /\ Fits("next", {"cr"}, "last", "HEADER_KEY", {"count"})
        /\ Fits("last", {"lf"}, "done", "", {"count", "done"})
        /\ Fits("last", InKey \ {"lf"}, "key", "", {"count"})
        /\ Fits("last", {":"}, "sep", "", {"ready"})
        /\ Fits("length0", DOMAIN Digit, "lengthval", "HEADER_VALUE", {"digit", "count"})
    BY StatesNamed DEF Fits, Inside, TokenTypes
  <2>2. /\ Fits("lengthval", DOMAIN Digit, "lengthval", "", {"digit", "count"})
        /\ Fits("coding0", {"chunked"}, "value", "HEADER_VALUE", {"chunked", "count"})
        /\ Fits("empty", {"lf"}, "next", "", {"count"})
        /\ Fits("empty", {"cr"}, "valcr", "", {"ready"})
        /\ Fits("empty", AllBut({"cr", "lf"}), "value", "", {"count"})
    BY StatesNamed DEF Fits, Inside, TokenTypes
  <2>3. /\ RuleFits(Rule("next", {"cr"}, "last", "HEADER_KEY", {"count"}))
        /\ RuleFits(Rule("last", {"lf"}, "done", "", {"count", "done"}))
        /\ RuleFits(Rule("last", InKey \ {"lf"}, "key", "", {"count"}))
        /\ RuleFits(Rule("last", {":"}, "sep", "", {"ready"}))
        /\ RuleFits(Rule("length0", DOMAIN Digit, "lengthval", "HEADER_VALUE", {"digit", "count"}))
        /\ RuleFits(Rule("lengthval", DOMAIN Digit, "lengthval", "", {"digit", "count"}))
        /\ RuleFits(Rule("coding0", {"chunked"}, "value", "HEADER_VALUE", {"chunked", "count"}))
        /\ RuleFits(Rule("empty", {"lf"}, "next", "", {"count"}))
        /\ RuleFits(Rule("empty", {"cr"}, "valcr", "", {"ready"}))
        /\ RuleFits(Rule("empty", AllBut({"cr", "lf"}), "value", "", {"count"}))
    BY <2>1, <2>2, RuleParts, Zenon
  <2> QED BY <2>3 DEF Line, Ends
<1>7. ASSUME NEW r \in Rules
      PROVE  \/ r \in Line \/ r \in Ends
             \/ r \in KeyRules("key0", InKey) \/ r \in KeyRules("next", InKey \ {"cr"})
             \/ r \in KeyEndRules("key", "sep") \/ r \in KeyEndRules("length", "lengthsep")
             \/ r \in KeyEndRules("coding", "codingsep")
             \/ r \in ValueBeginRules("sep", "value0", {})
             \/ r \in ValueBeginRules("lengthsep", "length0", DOMAIN Digit)
             \/ r \in ValueBeginRules("codingsep", "coding0", {"chunked"})
             \/ r \in ValueRules("value", {}) \/ r \in ValueRules("lengthval", DOMAIN Digit)
  BY DEF Rules, Line, Ends
<1>8. \A r \in Rules : RuleFits(r)
  <2> SUFFICES ASSUME NEW r \in Rules PROVE RuleFits(r)
    OBVIOUS
  <2>1. CASE r \in Line \/ r \in Ends
    BY <2>1, <1>5, <1>6
  <2>2. CASE r \in KeyRules("key0", InKey) \/ r \in KeyRules("next", InKey \ {"cr"})
    BY <2>2, <1>1
  <2>3. CASE \/ r \in KeyEndRules("key", "sep") \/ r \in KeyEndRules("length", "lengthsep")
             \/ r \in KeyEndRules("coding", "codingsep")
    BY <2>3, <1>2
  <2>4. CASE \/ r \in ValueBeginRules("sep", "value0", {})
             \/ r \in ValueBeginRules("lengthsep", "length0", DOMAIN Digit)
             \/ r \in ValueBeginRules("codingsep", "coding0", {"chunked"})
    BY <2>4, <1>3
  <2>5. CASE r \in ValueRules("value", {}) \/ r \in ValueRules("lengthval", DOMAIN Digit)
    BY <2>5, <1>4
  <2> QED BY <1>7, <2>1, <2>2, <2>3, <2>4, <2>5
<1> QED BY <1>8

-----------------------------------------------------------------------------
(* The inductive invariant.                                                *)

Kinds == TokenTypes \cup {"", "HEADERS_DONE", "BODY"}
BufferTyped(b) ==
  /\ DOMAIN b = {"capacity", "length", "index", "after_headers_index"}
  /\ b.capacity \in Nat /\ b.length \in Nat /\ b.index \in Int /\ b.after_headers_index \in Nat
Parts == {"state", "type", "index", "limit_count", "limit_max", "content_length", "chunked",
          "done", "fresh"}
ParserTyped(p) ==
  /\ DOMAIN p = Parts
  /\ p.state \in States /\ p.type \in Kinds /\ p.index \in Nat
  /\ p.limit_count \in Nat /\ p.limit_max \in Nat /\ p.limit_max <= MaxLimit /\ p.content_length \in Nat
  /\ p.chunked \in BOOLEAN /\ p.done \in BOOLEAN /\ p.fresh \in BOOLEAN
TokenSet  == [type : Kinds, index : Nat, len : Nat]
PCs == {"wait", "read", "exec", "handled", "crashed", "closed"} \cup Ended

Types ==
  /\ pc \in PCs /\ request \in Requests /\ sent \in 0..Len(Stream) /\ edge \in BOOLEAN
  /\ BufferTyped(buffer) /\ ParserTyped(parser) /\ tokens \in Seq(TokenSet)
  /\ memused \in Int /\ reads \in 0..MaxReads /\ keepAlive \in BOOLEAN

(* Until the response takes its place, the buffer holds what was read.  Its *)
(* index is lost only between the two tokens of a head and a body.         *)
BufferFits(b, p, c) ==
  /\ b.capacity \in RequestBufSize..MaxRequestBufSize
  /\ b.length <= b.capacity /\ b.length <= sent
  /\ b.index >= -1 /\ b.index <= b.length /\ b.after_headers_index <= b.length
  /\ b.index = -1 => c = "exec" /\ p.state = "body" /\ p.fresh /\ ~p.done
  /\ b.index # -1 => b.after_headers_index <= b.index

(* What is counted of a token that goes on is its length up to here.       *)
CountFits(b, p) ==
  /\ p.limit_count <= sent /\ p.index <= sent
  /\ p.state # "body" => p.limit_count <= b.index
  /\ p.state \in Inside =>
       p.type \in TokenTypes /\ p.limit_max = Limit[p.type] /\ p.limit_count = b.index - p.index
  /\ p.state = "version" => p.type = "VERSION" /\ b.index = p.index + 1

(* Each symbol over the limit has cost a read, and one was made since.     *)
ReadsPay(p, n) ==
  \A k \in 0..(MaxReads - 1) :
    k = 0 \/ k <= p.limit_count - p.limit_max => IF p.fresh THEN n > k ELSE n >= k

TokenFits(t, s, n) ==
  /\ t.index <= s
  /\ t.type \in TokenTypes => n > Least(t.len - Limit[t.type], MaxReads - 1)

(* memused is told of all that is allocated but the room for a body.       *)
MemFits(b, p, m, c) ==
  LET allocated == IF c \in {"closed", "kept", "ended"} THEN 0 ELSE b.capacity
  IN  /\ m <= allocated
      /\ m < allocated => /\ p.state = "body"
                          /\ allocated - m <= b.after_headers_index + p.content_length - RequestBufSize

(* The buffer that is sent, and how it was made.                           *)
OutFits ==
  /\ pc \notin Ended => response = NoResponse /\ out = R!GrwInit
  /\ pc \in Ended =>
       /\ response \in Responses /\ Bounded(out)
       /\ buffer.capacity = Len(out.buf) /\ buffer.length = out.size

IInv ==
  /\ Types
  /\ pc \notin Ended => BufferFits(buffer, parser, pc)
  /\ pc \notin Ended => CountFits(buffer, parser)
  /\ parser.limit_count <= sent
  /\ ReadsPay(parser, reads)
  /\ \A i \in DOMAIN tokens : TokenFits(tokens[i], sent, reads)
  /\ MemFits(buffer, parser, memused, pc)
  /\ OutFits /\ ResponseExact

-----------------------------------------------------------------------------
(* The text of a request, and a step of the parser.                        *)

(* The text of a request is a sequence of symbols.                         *)
LEMMA TextFits == \A r \in Requests : TextOf[r] \in Seq(Alphabet) /\ Len(TextOf[r]) \in Nat
<1> SUFFICES ASSUME NEW r \in Requests PROVE TextOf[r] \in Seq(Alphabet)
  BY LenProperties
<1> DEFINE line(h) == h.key \o <<":", "sp">> \o h.val \o <<"cr", "lf">>
           n == Len(r.headers)
           q == [i \in 1..n |-> line(r.headers[i])]
           lines == FlattenSeq(q)
           first == r.method \o <<"sp">> \o r.target \o <<"sp", r.version, "cr", "lf">>
           end == <<"cr", "lf">>
           S == Seq(Alphabet)
<1>1. /\ r.method \in S /\ r.target \in S /\ r.body \in S /\ r.version \in Versions
      /\ r.headers \in Seq([key : S, val : S])
  BY RequestsAssumption
<1>2. /\ <<"sp">> \in S /\ <<":", "sp">> \in S /\ end \in S /\ <<"sp", r.version, "cr", "lf">> \in S
  <2>1. "sp" \in Alphabet /\ ":" \in Alphabet /\ "cr" \in Alphabet /\ "lf" \in Alphabet
        /\ r.version \in Alphabet
    BY <1>1 DEF Alphabet
  <2> HIDE DEF Alphabet
  <2> QED BY <2>1
<1> HIDE DEF end
<1>3. \A s, t \in S : s \o t \in S
  BY ConcatProperties
<1> HIDE DEF S
<1>4. first \in S
  BY <1>1, <1>2, <1>3
<1>5. lines \in S
  <2>1. n \in Nat /\ DOMAIN r.headers = 1..n
    <3> DEFINE H == [key : S, val : S]
               h == r.headers
    <3>1. h \in Seq(H)
      BY <1>1
    <3> HIDE DEF H, h
    <3>2. Len(h) \in Nat /\ DOMAIN h = 1..Len(h)
      BY <3>1, LenProperties
    <3> QED BY <3>2 DEF h
  <2>2. \A i \in 1..n : line(r.headers[i]) \in S
    <3>1. TAKE i \in 1..n
    <3> DEFINE H == [key : S, val : S]
               h == r.headers[i]
    <3>2. h \in H
      <4>1. r.headers \in Seq(H)
        BY <1>1
      <4> HIDE DEF H
      <4> QED BY <3>1, <4>1, ElementOfSeq
    <3>3. h.key \in S /\ h.val \in S
      <4> HIDE DEF h
      <4> QED BY <3>2
    <3> HIDE DEF h
    <3>4. line(h) \in S
      BY <1>2, <1>3, <3>3 DEF end
    <3> QED BY <3>4 DEF h
  <2> HIDE DEF line, n
  <2>3. q \in Seq(S)
    BY <2>1, <2>2
  <2> HIDE DEF q
  <2> QED BY <2>3, FlattenFits DEF S
<1>6. TextOf[r] = (first \o lines \o end) \o r.body
  <2>1. n \in Nat /\ DOMAIN r.headers = 1..n
    <3> DEFINE H == [key : S, val : S]
               h == r.headers
    <3>1. h \in Seq(H)
      BY <1>1
    <3> HIDE DEF H, h
    <3>2. Len(h) \in Nat /\ DOMAIN h = 1..Len(h)
      BY <3>1, LenProperties
    <3> QED BY <3>2 DEF h
  <2>2. TextOf[r] = HeadOf(r) \o r.body
    BY DEF TextOf
  <2> HIDE DEF n
  <2> QED BY <2>1, <2>2, Zenon DEF HeadOf, end
<1> HIDE DEF first, lines
<1>7. TextOf[r] \in S
  BY <1>1, <1>2, <1>3, <1>4, <1>5, <1>6
<1> QED BY <1>7 DEF S

(* The rules that apply are of the state and of the symbol.                *)
LEMMA AppliesFit ==
  ASSUME NEW s \in States, NEW c \in Alphabet, NEW r \in RulesAt[s][c]
  PROVE  r \in Rules /\ r.from = s /\ c \in r.at /\ RuleFits(r)
<1>1. RulesAt[s][c] = {w \in Rules : w.from = s /\ c \in w.at}
  <2> HIDE DEF Rules, States, Alphabet
  <2> QED BY DEF RulesAt
<1> QED BY <1>1, RulesFit

(* The parser takes the next symbol of what was read.                      *)
LEMMA HeadStep ==
  ASSUME IInv, InHead
  PROVE  /\ pc = "exec" /\ pc \notin Ended /\ parser.fresh = TRUE /\ parser.done = FALSE
         /\ ParserTyped(parser) /\ parser.state # "body"
         /\ BufferFits(buffer, parser, pc) /\ CountFits(buffer, parser) /\ BufferTyped(buffer)
         /\ buffer.index \in Nat /\ buffer.index + 1 <= buffer.length
         /\ buffer.length <= sent /\ sent \in Nat
         /\ Symbol \in Alphabet /\ \A r \in Apply : RuleFits(r) /\ Symbol \in r.at
<1>1. /\ pc = "exec" /\ Fresh /\ parser.state # "body" /\ buffer.index # buffer.length
  BY DEF InHead, Parses
<1>2. /\ Types /\ pc \notin Ended /\ BufferFits(buffer, parser, pc) /\ CountFits(buffer, parser)
  BY <1>1 DEF IInv, Ended
<1>3. ParserTyped(parser) /\ BufferTyped(buffer) /\ sent \in 0..Len(Stream) /\ request \in Requests
  BY <1>2 DEF Types
<1>4. parser.fresh = TRUE /\ parser.done = FALSE /\ parser.state \in States
  <2>1. parser.fresh \in BOOLEAN /\ parser.done \in BOOLEAN /\ parser.state \in States
    BY <1>3 DEF ParserTyped
  <2>2. parser.fresh /\ ~parser.done
    BY <1>1 DEF Fresh
  <2> QED BY <2>1, <2>2
<1>5. buffer.index \in Int /\ buffer.length \in Nat
  BY <1>3 DEF BufferTyped
<1>6. /\ buffer.index >= -1 /\ buffer.index <= buffer.length /\ buffer.length <= sent
      /\ buffer.index # -1
  BY <1>1, <1>2 DEF BufferFits
<1>7. Stream \in Seq(Alphabet) /\ Len(Stream) \in Nat
  BY <1>3, TextFits DEF Stream
<1>8. /\ buffer.index \in Nat /\ buffer.index + 1 <= buffer.length /\ sent \in Nat
      /\ buffer.index + 1 \in 1..Len(Stream)
  BY <1>1, <1>3, <1>5, <1>6, <1>7
<1>9. Symbol \in Alphabet
  <2> DEFINE i == buffer.index + 1
  <2>1. i \in 1..Len(Stream)
    BY <1>8
  <2> HIDE DEF i
  <2>2. Stream[i] \in Alphabet
    BY <1>7, <2>1, ElementOfSeq
  <2> QED BY <2>2 DEF Symbol, i
<1>10. \A r \in Apply : RuleFits(r) /\ Symbol \in r.at
  BY <1>4, <1>9, AppliesFit DEF Apply
<1> QED BY <1>1, <1>2, <1>3, <1>4, <1>6, <1>8, <1>9, <1>10

(* The parts of a parser of which seven are changed.                       *)
LEMMA ParserParts ==
  ASSUME NEW q, DOMAIN q = Parts, NEW s, NEW t, NEW i, NEW m, NEW c, NEW l, NEW k
  PROVE  LET p == [q EXCEPT !.state = s, !.type = t, !.index = i, !.limit_max = m,
                            !.limit_count = c, !.content_length = l, !.chunked = k]
         IN  /\ DOMAIN p = Parts
             /\ p.state = s /\ p.type = t /\ p.index = i /\ p.limit_max = m /\ p.limit_count = c
             /\ p.content_length = l /\ p.chunked = k /\ p.fresh = q.fresh /\ p.done = q.done
BY DEF Parts

(* The parts of the parser after a rule.                                   *)
LEMMA AfterParts ==
  ASSUME DOMAIN parser = Parts, NEW r
  PROVE  LET p == After(r)
             start == IF r.enter # "" THEN 0 ELSE parser.limit_count
         IN  /\ DOMAIN p = Parts
             /\ p.state = r.to
             /\ p.type = IF r.enter # "" THEN r.enter ELSE parser.type
             /\ p.index = IF r.enter # "" THEN buffer.index ELSE parser.index
             /\ p.limit_max = IF r.enter # "" THEN Limit[r.enter] ELSE parser.limit_max
             /\ p.limit_count = start + IF "count" \in r.does THEN 1 ELSE 0
             /\ p.content_length = IF "digit" \in r.does
                                   THEN 10 * parser.content_length + Digit[Symbol]
                                   ELSE parser.content_length
             /\ p.chunked = (parser.chunked \/ "chunked" \in r.does)
             /\ p.fresh = parser.fresh /\ p.done = parser.done
<1> DEFINE t == IF r.enter # "" THEN r.enter ELSE parser.type
           i == IF r.enter # "" THEN buffer.index ELSE parser.index
           m == IF r.enter # "" THEN Limit[r.enter] ELSE parser.limit_max
           c == (IF r.enter # "" THEN 0 ELSE parser.limit_count)
                + IF "count" \in r.does THEN 1 ELSE 0
           l == IF "digit" \in r.does THEN 10 * parser.content_length + Digit[Symbol]
                ELSE parser.content_length
           k == parser.chunked \/ "chunked" \in r.does
           p == [parser EXCEPT !.state = r.to, !.type = t, !.index = i, !.limit_max = m,
                               !.limit_count = c, !.content_length = l, !.chunked = k]
<1>1. After(r) = p
  BY DEF After
<1> HIDE DEF t, i, m, c, l, k
<1>2. /\ DOMAIN p = Parts
      /\ p.state = r.to /\ p.type = t /\ p.index = i /\ p.limit_max = m /\ p.limit_count = c
      /\ p.content_length = l /\ p.chunked = k /\ p.fresh = parser.fresh /\ p.done = parser.done
  BY ParserParts
<1> HIDE DEF p
<1> QED BY <1>1, <1>2, Zenon DEF t, i, m, c, l, k

(* What reads have paid for, up to the number that is told apart.          *)
LEMMA LeastPays ==
  ASSUME NEW n \in 0..MaxReads, NEW a \in Int,
         \A k \in 0..(MaxReads - 1) : k = 0 \/ k <= a => n > k
  PROVE  n > Least(a, MaxReads - 1)
<1>1. MaxReads \in Nat /\ n \in Nat
  BY MaxReadsAssumption
<1>2. CASE MaxReads = 0
  BY <1>1, <1>2 DEF Least
<1>3. CASE MaxReads # 0 /\ a < MaxReads - 1
  <2>1. 0 \in 0..(MaxReads - 1)
    BY <1>1, <1>3
  <2>2. n > 0
    BY <2>1
  <2>3. a < 0 \/ a \in 0..(MaxReads - 1)
    BY <1>1, <1>3
  <2>4. n > a
    BY <1>1, <2>2, <2>3
  <2> QED BY <1>3, <2>4 DEF Least
<1>4. CASE MaxReads # 0 /\ ~(a < MaxReads - 1)
  <2>1. MaxReads - 1 \in 0..(MaxReads - 1) /\ MaxReads - 1 <= a
    BY <1>1, <1>4
  <2> QED BY <1>4, <2>1 DEF Least
<1> QED BY <1>2, <1>3, <1>4

(* The parts of the parser after a rule, by whether a token is entered.    *)
LEMMA AfterCases ==
  ASSUME ParserTyped(parser), NEW r, RuleFits(r)
  PROVE  LET p == After(r)
         IN  \E e \in {0, 1} :
               /\ "count" \in r.does <=> e = 1
               /\ r.enter # "" =>
                    /\ p.type = r.enter /\ p.index = buffer.index
                    /\ p.limit_max = Limit[r.enter] /\ p.limit_count = e
                    /\ p.type \in TokenTypes /\ p.limit_max \in Nat /\ p.limit_max <= MaxLimit
               /\ r.enter = "" =>
                    /\ p.type = parser.type /\ p.index = parser.index
                    /\ p.limit_max = parser.limit_max /\ p.limit_count = parser.limit_count + e
                    /\ p.type \in Kinds /\ p.limit_max \in Nat /\ p.limit_max <= MaxLimit
<1> DEFINE p == After(r)
           e == IF "count" \in r.does THEN 1 ELSE 0
<1>1. e \in {0, 1} /\ ("count" \in r.does <=> e = 1)
  OBVIOUS
<1>2. r.enter \in TokenTypes \cup {""}
  BY DEF RuleFits, Fits
<1>3. DOMAIN parser = Parts /\ parser.type \in Kinds /\ parser.limit_max \in Nat
      /\ parser.limit_max <= MaxLimit
  BY DEF ParserTyped
<1>4. /\ p.type = IF r.enter # "" THEN r.enter ELSE parser.type
      /\ p.index = IF r.enter # "" THEN buffer.index ELSE parser.index
      /\ p.limit_max = IF r.enter # "" THEN Limit[r.enter] ELSE parser.limit_max
      /\ p.limit_count = (IF r.enter # "" THEN 0 ELSE parser.limit_count) + e
  BY <1>3, AfterParts
<1> HIDE DEF p, e
<1>5. ASSUME r.enter # ""
      PROVE  /\ p.type = r.enter /\ p.index = buffer.index
             /\ p.limit_max = Limit[r.enter] /\ p.limit_count = e
             /\ p.type \in TokenTypes /\ p.limit_max \in Nat /\ p.limit_max <= MaxLimit
  <2>1. r.enter \in TokenTypes
    BY <1>2, <1>5
  <2>2. Limit[r.enter] \in Nat /\ Limit[r.enter] <= MaxLimit
    BY <2>1, LimitAssumption
  <2>3. p.limit_count = 0 + e
    BY <1>4, <1>5
  <2>4. p.limit_count = e
    BY <1>1, <2>3
  <2> QED BY <1>4, <1>5, <2>1, <2>2, <2>4
<1>6. ASSUME r.enter = ""
      PROVE  /\ p.type = parser.type /\ p.index = parser.index
             /\ p.limit_max = parser.limit_max /\ p.limit_count = parser.limit_count + e
             /\ p.type \in Kinds /\ p.limit_max \in Nat /\ p.limit_max <= MaxLimit
  BY <1>3, <1>4, <1>6
<1> QED BY <1>1, <1>5, <1>6 DEF p

(* A step of the parser keeps its types and what it counts.                *)
LEMMA AfterFits ==
  ASSUME IInv, InHead, NEW r \in Apply
  PROVE  LET p == After(r)
         IN  /\ ParserTyped(p) /\ p.state = r.to /\ p.state \notin {"body", "error"}
             /\ p.fresh = TRUE /\ p.done = FALSE
             /\ "done" \in r.does => p.content_length = parser.content_length
             /\ p.limit_count <= buffer.index + 1 /\ p.index <= sent
             /\ \A b : b.index = buffer.index + 1 => CountFits(b, p)
<1> DEFINE p == After(r)
           i == buffer.index
           l == parser.content_length
<1>1. /\ ParserTyped(parser) /\ parser.fresh = TRUE /\ parser.done = FALSE
      /\ parser.state # "body" /\ CountFits(buffer, parser)
      /\ RuleFits(r) /\ Symbol \in r.at
  BY HeadStep
<1>2. i \in Nat /\ i + 1 <= sent /\ sent \in Nat
  <2>1. i \in Nat /\ i + 1 <= buffer.length /\ buffer.length <= sent /\ sent \in Nat
        /\ buffer.length \in Nat
    BY HeadStep DEF BufferTyped
  <2> QED BY <2>1
<1>3. Fits(r.from, r.at, r.to, r.enter, r.does) /\ r.from = parser.state
  <2>1. Symbol \in Alphabet /\ parser.state \in States
    BY <1>1, HeadStep DEF ParserTyped
  <2>2. r.from = parser.state
    BY <2>1, AppliesFit DEF Apply
  <2> QED BY <1>1, <2>2 DEF RuleFits
<1>4. r.to \in States /\ r.to \notin {"body", "error"}
  BY <1>3 DEF Fits
<1>5. /\ r.to \in Inside => "count" \in r.does /\ (r.enter # "" \/ parser.state \in Inside)
      /\ r.to = "version" => r.enter = "VERSION"
  BY <1>3 DEF Fits
<1>6. "digit" \in r.does => Symbol \in DOMAIN Digit /\ "done" \notin r.does
  BY <1>1, <1>3 DEF Fits
<1>7. /\ parser.limit_count \in Nat /\ parser.index \in Nat /\ l \in Nat
      /\ parser.chunked \in BOOLEAN /\ DOMAIN parser = Parts
  BY <1>1 DEF ParserTyped
<1>8. /\ parser.limit_count <= i /\ parser.index <= sent
      /\ parser.state \in Inside =>
           /\ parser.type \in TokenTypes /\ parser.limit_max = Limit[parser.type]
           /\ parser.limit_count = i - parser.index
  BY <1>1 DEF CountFits
<1>9. /\ DOMAIN p = Parts /\ p.state = r.to
      /\ p.content_length = IF "digit" \in r.does THEN 10 * l + Digit[Symbol] ELSE l
      /\ p.chunked = (parser.chunked \/ "chunked" \in r.does)
      /\ p.fresh = parser.fresh /\ p.done = parser.done
  BY <1>7, AfterParts
<1>10. PICK e \in {0, 1} :
         /\ "count" \in r.does <=> e = 1
         /\ r.enter # "" =>
              /\ p.type = r.enter /\ p.index = i
              /\ p.limit_max = Limit[r.enter] /\ p.limit_count = e
              /\ p.type \in TokenTypes /\ p.limit_max \in Nat /\ p.limit_max <= MaxLimit
         /\ r.enter = "" =>
              /\ p.type = parser.type /\ p.index = parser.index
              /\ p.limit_max = parser.limit_max /\ p.limit_count = parser.limit_count + e
              /\ p.type \in Kinds /\ p.limit_max \in Nat /\ p.limit_max <= MaxLimit
  BY <1>1, AfterCases
<1> HIDE DEF p, i, l
<1>11. /\ p.limit_count \in Nat /\ p.limit_count <= i + 1 /\ p.limit_count <= sent
       /\ p.index \in Nat /\ p.index <= sent
  <2> DEFINE x == parser.limit_count
             y == parser.index
             px == p.limit_count
             py == p.index
  <2>1. x \in Nat /\ x <= i /\ y \in Nat /\ y <= sent
    BY <1>7, <1>8
  <2>2. (px = e /\ py = i) \/ (px = x + e /\ py = y)
    BY <1>10
  <2> HIDE DEF x, y, px, py
  <2>3. px \in Nat /\ px <= i + 1 /\ px <= sent /\ py \in Nat /\ py <= sent
    BY <1>2, <2>1, <2>2
  <2> QED BY <2>3 DEF px, py
<1>12. p.type \in Kinds /\ p.limit_max \in Nat /\ p.limit_max <= MaxLimit
  BY <1>10 DEF Kinds
<1>13. p.content_length \in Nat /\ ("done" \in r.does => p.content_length = l)
  <2>1. CASE "digit" \in r.does
    <3>1. Digit[Symbol] \in Nat
      BY <1>6, <2>1 DEF Digit
    <3>2. p.content_length = 10 * l + Digit[Symbol]
      BY <1>9, <2>1
    <3> QED BY <1>6, <1>7, <2>1, <3>1, <3>2
  <2>2. CASE "digit" \notin r.does
    BY <1>7, <1>9, <2>2
  <2> QED BY <2>1, <2>2
<1>14. p.chunked \in BOOLEAN /\ p.fresh = TRUE /\ p.done = FALSE
  <2>1. p.chunked \in BOOLEAN
    BY <1>9
  <2> QED BY <1>1, <1>9, <2>1
<1>15. ParserTyped(p)
  BY <1>4, <1>9, <1>11, <1>12, <1>13, <1>14 DEF ParserTyped
<1>16. ASSUME NEW b, b.index = i + 1 PROVE CountFits(b, p)
  <2>1. ASSUME p.state \in Inside
        PROVE  /\ p.type \in TokenTypes /\ p.limit_max = Limit[p.type]
               /\ p.limit_count = (i + 1) - p.index
    <3>1. "count" \in r.does /\ (r.enter # "" \/ parser.state \in Inside) /\ e = 1
      BY <1>5, <1>9, <1>10, <2>1
    <3> DEFINE x == parser.limit_count
               y == parser.index
               px == p.limit_count
               py == p.index
    <3>2. CASE r.enter # ""
      <4>1. px = e /\ py = i /\ p.type \in TokenTypes /\ p.limit_max = Limit[p.type]
        BY <1>10, <3>2
      <4>2. px = 1 /\ py = i /\ i \in Nat
        BY <1>2, <3>1, <4>1
      <4> HIDE DEF px, py
      <4>3. px = (i + 1) - py
        BY <4>2
      <4> QED BY <4>1, <4>3 DEF px, py
    <3>3. CASE r.enter = ""
      <4>1. /\ px = x + e /\ py = y /\ p.type \in TokenTypes /\ p.limit_max = Limit[p.type]
            /\ x = i - y
        BY <1>8, <1>10, <3>1, <3>3
      <4>2. x \in Nat /\ y \in Nat
        BY <1>7
      <4>3. px = x + 1 /\ py = y /\ x = i - y /\ i \in Nat
        BY <1>2, <3>1, <4>1
      <4> HIDE DEF px, py, x, y
      <4>4. px = (i + 1) - py
        BY <4>2, <4>3
      <4> QED BY <4>1, <4>4 DEF px, py
    <3> QED BY <3>2, <3>3
  <2>2. p.state = "version" => p.type = "VERSION" /\ i + 1 = p.index + 1
    BY <1>5, <1>9, <1>10
  <2> QED BY <1>11, <1>16, <2>1, <2>2 DEF CountFits
<1> QED BY <1>4, <1>9, <1>11, <1>13, <1>14, <1>15, <1>16 DEF p, i, l

(* Each symbol over the limit has been paid for by a read.                 *)
LEMMA AfterPays ==
  ASSUME IInv, InHead, NEW r \in Apply
  PROVE  LET p == After(r)
         IN  \A q : /\ q.limit_count = p.limit_count /\ q.limit_max = p.limit_max
                    /\ q.fresh => ~TooLong(p, r)
                    => ReadsPay(q, reads)
<1> DEFINE p == After(r)
           x == parser.limit_count
           m == parser.limit_max
           px == p.limit_count
           pm == p.limit_max
<1>1. /\ ParserTyped(parser) /\ parser.fresh = TRUE /\ ReadsPay(parser, reads)
      /\ reads \in 0..MaxReads /\ RuleFits(r)
  BY HeadStep DEF IInv, Types
<1>2. ParserTyped(p)
  BY AfterFits
<1>3. /\ x \in Nat /\ m \in Nat /\ px \in Nat /\ pm \in Nat /\ reads \in Nat /\ MaxReads \in Nat
  BY <1>1, <1>2, MaxReadsAssumption DEF ParserTyped
<1>4. \E e \in {0, 1} : /\ "count" \in r.does <=> e = 1
                        /\ (px = e) \/ (px = x + e /\ pm = m)
  BY <1>1, AfterCases
<1>5. \A k \in 0..(MaxReads - 1) : k = 0 \/ k <= x - m => reads > k
  BY <1>1 DEF ReadsPay
<1>6. TooLong(p, r) <=> "count" \in r.does /\ px > pm
  BY DEF TooLong
<1> HIDE DEF p, x, m, px, pm
<1> SUFFICES ASSUME NEW q, q.limit_count = px /\ q.limit_max = pm, q.fresh => ~TooLong(p, r)
             PROVE  ReadsPay(q, reads)
  BY DEF p, px, pm
<1>7. ASSUME NEW k \in 0..(MaxReads - 1), k = 0 \/ k <= px - pm
      PROVE  reads >= k /\ (~TooLong(p, r) => reads > k)
  <2>1. k \in Nat /\ 0 \in 0..(MaxReads - 1)
    BY <1>3
  <2>2. reads > 0
    BY <1>5, <2>1
  <2>3. CASE k = 0
    BY <1>3, <2>2, <2>3
  <2>4. CASE k # 0
    <3>1. k - 1 \in 0..(MaxReads - 1) /\ k <= px - pm /\ px > pm
      BY <1>3, <1>7, <2>1, <2>4
    <3>2. PICK e \in {0, 1} : /\ "count" \in r.does <=> e = 1
                              /\ (px = e) \/ (px = x + e /\ pm = m)
      BY <1>4
    <3>3. CASE e = 1 /\ px = e
      <4>1. TooLong(p, r)
        BY <1>6, <3>1, <3>2, <3>3
      <4>2. k = 1
        BY <1>3, <2>1, <2>4, <3>1, <3>3
      <4> QED BY <1>3, <2>2, <4>1, <4>2
    <3>4. CASE e = 1 /\ px = x + e /\ pm = m
      <4>1. TooLong(p, r)
        BY <1>6, <3>1, <3>2, <3>4
      <4>2. k - 1 <= x - m
        BY <1>3, <2>1, <3>1, <3>4
      <4>3. reads > k - 1
        BY <1>5, <3>1, <4>2
      <4> QED BY <1>3, <2>1, <4>1, <4>3
    <3>5. CASE e = 0 /\ px = e
      BY <1>3, <3>1, <3>5
    <3>6. CASE e = 0 /\ px = x + e /\ pm = m
      <4>1. k <= x - m
        BY <1>3, <2>1, <3>1, <3>6
      <4>2. reads > k
        BY <1>5, <1>7, <4>1
      <4> QED BY <1>3, <2>1, <4>2
    <3> QED BY <3>2, <3>3, <3>4, <3>5, <3>6
  <2> QED BY <2>3, <2>4
<1> QED BY <1>7 DEF ReadsPay, px, pm

(* A token that is ready has been paid for.                                *)
LEMMA ReadyFits ==
  ASSUME IInv, InHead, NEW r \in Apply, "ready" \in r.does
  PROVE  LET p == After(r)
             t == [type |-> p.type, index |-> p.index, len |-> buffer.index - p.index]
         IN  t \in TokenSet /\ TokenFits(t, sent, reads)
<1> DEFINE p == After(r)
           i == buffer.index
           len == i - p.index
           t == [type |-> p.type, index |-> p.index, len |-> len]
           x == parser.limit_count
           m == parser.limit_max
<1>1. /\ ParserTyped(parser) /\ parser.fresh = TRUE /\ ReadsPay(parser, reads)
      /\ reads \in 0..MaxReads /\ RuleFits(r) /\ CountFits(buffer, parser)
  BY HeadStep DEF IInv, Types
<1>2. i \in Nat
  BY HeadStep
<1>3. Fits(r.from, r.at, r.to, r.enter, r.does) /\ r.from = parser.state
  <2>1. Symbol \in Alphabet /\ parser.state \in States
    BY <1>1, HeadStep DEF ParserTyped
  <2>2. r.from = parser.state
    BY <2>1, AppliesFit DEF Apply
  <2> QED BY <1>1, <2>2 DEF RuleFits
<1>4. \/ parser.state \in Inside \cup {"version"} /\ r.enter = "" /\ "count" \notin r.does
      \/ r.enter = "HEADER_VALUE"
  BY <1>3 DEF Fits
<1>5. \A k \in 0..(MaxReads - 1) : k = 0 \/ k <= x - m => reads > k
  BY <1>1 DEF ReadsPay
<1>6. x \in Nat /\ m \in Nat /\ parser.index \in Nat
  BY <1>1 DEF ParserTyped
<1>7. ParserTyped(p) /\ p.index <= sent
  BY AfterFits
<1>8. p.index \in Nat /\ p.type \in Kinds
  BY <1>7 DEF ParserTyped
<1>9. PICK e \in {0, 1} :
        /\ "count" \in r.does <=> e = 1
        /\ r.enter # "" =>
             /\ p.type = r.enter /\ p.index = i
             /\ p.limit_max = Limit[r.enter] /\ p.limit_count = e
             /\ p.type \in TokenTypes /\ p.limit_max \in Nat /\ p.limit_max <= MaxLimit
        /\ r.enter = "" =>
             /\ p.type = parser.type /\ p.index = parser.index
             /\ p.limit_max = parser.limit_max /\ p.limit_count = parser.limit_count + e
             /\ p.type \in Kinds /\ p.limit_max \in Nat /\ p.limit_max <= MaxLimit
  BY <1>1, AfterCases
<1> HIDE DEF p, i, x, m
<1> DEFINE a == len - Limit[p.type]
<1>10. len \in Nat /\ p.type \in TokenTypes /\ Limit[p.type] \in Nat /\ (a <= 0 \/ a = x - m)
  <2>1. CASE r.enter = "HEADER_VALUE"
    <3>1. r.enter # "" /\ "HEADER_VALUE" \in TokenTypes
      BY <2>1 DEF TokenTypes
    <3>2. p.index = i /\ p.type = "HEADER_VALUE"
      BY <1>9, <2>1, <3>1
    <3>3. Limit[p.type] \in Nat
      BY <3>1, <3>2, LimitAssumption
    <3>4. len = 0
      BY <1>2, <3>2
    <3> HIDE DEF len
    <3>5. a <= 0
      BY <3>3, <3>4
    <3> QED BY <3>1, <3>2, <3>3, <3>4, <3>5
  <2>2. CASE parser.state \in Inside /\ r.enter = ""
    <3>1. /\ parser.type \in TokenTypes /\ m = Limit[parser.type] /\ x = i - parser.index
      BY <1>1, <2>2 DEF CountFits, i, x, m
    <3>2. p.index = parser.index /\ p.type = parser.type
      BY <1>9, <2>2
    <3>3. len = x /\ Limit[p.type] = m
      BY <3>1, <3>2
    <3> HIDE DEF len
    <3> QED BY <1>6, <3>1, <3>2, <3>3
  <2>3. CASE parser.state = "version" /\ r.enter = ""
    <3>1. parser.type = "VERSION" /\ i = parser.index + 1
      BY <1>1, <2>3 DEF CountFits, i
    <3>2. p.index = parser.index /\ p.type = "VERSION"
      BY <1>9, <2>3, <3>1
    <3>3. "VERSION" \in TokenTypes
      BY DEF TokenTypes
    <3>4. Limit[p.type] \in Nat /\ Limit[p.type] >= 1
      BY <3>2, <3>3, LimitAssumption
    <3>5. len = 1
      BY <1>6, <3>1, <3>2
    <3> HIDE DEF len
    <3>6. a <= 0
      BY <3>4, <3>5
    <3> QED BY <3>2, <3>3, <3>4, <3>5, <3>6
  <2> QED BY <1>4, <2>1, <2>2, <2>3
<1> HIDE DEF len
<1>11. reads > Least(a, MaxReads - 1)
  <2>1. a \in Int
    BY <1>10
  <2>2. a <= 0 \/ a = x - m
    BY <1>10
  <2> HIDE DEF a
  <2>3. ASSUME NEW k \in 0..(MaxReads - 1), k = 0 \/ k <= a PROVE reads > k
    <3>1. k = 0 \/ k <= x - m
      BY <2>1, <2>2, <2>3, MaxReadsAssumption
    <3> QED BY <1>5, <3>1
  <2> QED BY <1>1, <2>1, <2>3, LeastPays
<1>12. t.type = p.type /\ t.index = p.index /\ t.len = len /\ t \in TokenSet
  BY <1>8, <1>10 DEF TokenSet
<1> HIDE DEF t
<1>13. TokenFits(t, sent, reads)
  BY <1>7, <1>11, <1>12 DEF TokenFits
<1> QED BY <1>12, <1>13 DEF t, len, p, i

-----------------------------------------------------------------------------
(* What the steps have in common.                                          *)

(* The tokens there are stay paid for.                                     *)
LEMMA TokensKept ==
  ASSUME IInv, tokens' = tokens, sent \in Nat, sent' \in Nat, sent <= sent',
         reads' \in Nat, reads <= reads'
  PROVE  tokens' \in Seq(TokenSet) /\ \A i \in DOMAIN tokens' : TokenFits(tokens'[i], sent', reads')
<1>1. tokens \in Seq(TokenSet) /\ reads \in 0..MaxReads
  BY DEF IInv, Types
<1>2. ASSUME NEW i \in DOMAIN tokens PROVE TokenFits(tokens[i], sent', reads')
  <2>1. TokenFits(tokens[i], sent, reads)
    BY <1>2 DEF IInv
  <2> DEFINE t == tokens[i]
  <2>2. t \in TokenSet
    <3>1. DOMAIN tokens = 1..Len(tokens)
      BY <1>1, LenProperties
    <3> QED BY <1>1, <1>2, <3>1, ElementOfSeq
  <2> DEFINE a == t.len - Limit[t.type]
             l == Least(a, MaxReads - 1)
  <2>3. t.type \in TokenTypes => l \in Int
    <3>1. ASSUME t.type \in TokenTypes PROVE a \in Int
      <4>1. Limit[t.type] \in Nat
        BY <3>1, LimitAssumption
      <4>2. t.len \in Nat
        BY <2>2 DEF TokenSet
      <4> QED BY <4>1, <4>2
    <3> QED BY <3>1, MaxReadsAssumption DEF Least
  <2>4. t.index \in Nat /\ t.index <= sent /\ (t.type \in TokenTypes => reads > l)
    BY <2>1, <2>2 DEF TokenFits, TokenSet
  <2> HIDE DEF l
  <2>5. t.index <= sent' /\ (t.type \in TokenTypes => reads' > l)
    BY <1>1, <2>3, <2>4, MaxReadsAssumption
  <2> QED BY <2>5 DEF TokenFits, l
<1> QED BY <1>1, <1>2

(* One more that is paid for may be pushed.                                *)
LEMMA TokenPushed ==
  ASSUME IInv, NEW t \in TokenSet, TokenFits(t, sent, reads)
  PROVE  LET ts == Append(tokens, t)
         IN  ts \in Seq(TokenSet) /\ \A i \in DOMAIN ts : TokenFits(ts[i], sent, reads)
<1> DEFINE ts == Append(tokens, t)
           n == Len(tokens)
<1>1. tokens \in Seq(TokenSet)
  BY DEF IInv, Types
<1>2. n \in Nat /\ DOMAIN tokens = 1..n
  BY <1>1, LenProperties
<1>3. /\ ts \in Seq(TokenSet) /\ Len(ts) = n + 1 /\ ts[n + 1] = t
      /\ \A i \in 1..n : ts[i] = tokens[i]
  BY <1>1, AppendProperties
<1> HIDE DEF ts, n
<1>4. DOMAIN ts = 1..n + 1
  BY <1>3, LenProperties
<1>5. ASSUME NEW i \in DOMAIN ts PROVE TokenFits(ts[i], sent, reads)
  <2>1. i = n + 1 \/ i \in 1..n
    BY <1>2, <1>4
  <2>2. \A k \in 1..n : TokenFits(tokens[k], sent, reads)
    BY <1>2 DEF IInv
  <2> QED BY <1>3, <2>1, <2>2
<1> QED BY <1>3, <1>5 DEF ts

(* The parts of the invariant that are about reading and parsing.          *)
Reads ==
  /\ BufferTyped(buffer) /\ ParserTyped(parser) /\ memused \in Int
  /\ BufferFits(buffer, parser, pc) /\ CountFits(buffer, parser)
  /\ ReadsPay(parser, reads) /\ MemFits(buffer, parser, memused, pc)
Tokened == tokens \in Seq(TokenSet) /\ \A i \in DOMAIN tokens : TokenFits(tokens[i], sent, reads)

(* Before the response a step keeps the invariant if it keeps them.        *)
LEMMA StepKeeps ==
  ASSUME IInv, pc \notin Ended, pc' \in PCs, pc' \notin Ended,
         UNCHANGED <<request, response, keepAlive, out>>,
         sent' \in 0..Len(Stream), edge' \in BOOLEAN, reads' \in 0..MaxReads, Reads', Tokened'
  PROVE  IInv'
<1>1. Types /\ OutFits
  BY DEF IInv
<1>2. Stream' = Stream
  BY DEF Stream
<1>3. Types'
  <2>1. sent' \in 0..Len(Stream')
    BY <1>2
  <2>2. request \in Requests /\ keepAlive \in BOOLEAN
    BY <1>1 DEF Types
  <2> QED BY <2>1, <2>2 DEF Types, Reads, Tokened
<1>4. OutFits'
  BY <1>1 DEF OutFits
<1>5. ResponseExact'
  BY DEF ResponseExact
<1>6. (parser.limit_count <= sent)'
  BY DEF Reads, CountFits
<1> QED BY <1>3, <1>4, <1>5, <1>6 DEF IInv, Reads, Tokened

(* What holds before the response.                                         *)
LEMMA Before ==
  ASSUME IInv, pc \notin Ended
  PROVE  /\ Reads /\ Tokened /\ pc \in PCs /\ edge \in BOOLEAN
         /\ reads \in 0..MaxReads /\ reads \in Nat /\ MaxReads \in Nat
         /\ sent \in 0..Len(Stream) /\ sent \in Nat /\ Len(Stream) \in Nat
<1>1. /\ Types /\ BufferFits(buffer, parser, pc) /\ CountFits(buffer, parser)
      /\ ReadsPay(parser, reads) /\ MemFits(buffer, parser, memused, pc)
      /\ \A i \in DOMAIN tokens : TokenFits(tokens[i], sent, reads)
  BY DEF IInv
<1>2. Len(Stream) \in Nat
  BY <1>1, TextFits DEF Types, Stream
<1>3. sent \in 0..Len(Stream) /\ reads \in 0..MaxReads
  BY <1>1 DEF Types
<1> QED BY <1>1, <1>2, <1>3, MaxReadsAssumption DEF Types, Reads, Tokened

(* Nothing moves but the client, or the place in the program.              *)
LEMMA UnmovedKeeps ==
  ASSUME IInv, pc \notin Ended, pc # "closed", pc' \in PCs, pc' \notin Ended, pc' # "closed",
         buffer.index # -1, sent' \in {sent, sent + 1}, sent' <= Len(Stream), edge' \in BOOLEAN,
         UNCHANGED <<request, buffer, parser, tokens, memused, reads, response, keepAlive, out>>
  PROVE  IInv'
<1>1. Reads /\ Tokened /\ reads \in 0..MaxReads /\ reads \in Nat /\ sent \in Nat /\ Len(Stream) \in Nat
  BY Before
<1>2. sent' \in 0..Len(Stream) /\ sent' \in Nat /\ sent <= sent' /\ reads' \in Nat /\ reads <= reads'
  BY <1>1
<1>3. Tokened'
  BY <1>1, <1>2, TokensKept DEF Tokened
<1>4. BufferFits(buffer, parser, pc)'
  <2>1. BufferTyped(buffer) /\ BufferFits(buffer, parser, pc)
    BY <1>1 DEF Reads
  <2>2. buffer.length <= sent'
    BY <1>1, <1>2, <2>1 DEF BufferTyped, BufferFits
  <2> QED BY <2>1, <2>2 DEF BufferFits
<1>5. CountFits(buffer, parser)'
  <2>1. ParserTyped(parser) /\ CountFits(buffer, parser)
    BY <1>1 DEF Reads
  <2>2. parser.limit_count <= sent' /\ parser.index <= sent'
    BY <1>1, <1>2, <2>1 DEF ParserTyped, CountFits
  <2> QED BY <2>1, <2>2 DEF CountFits
<1>6. MemFits(buffer, parser, memused, pc)'
  <2>1. pc \notin {"closed", "kept", "ended"} /\ pc' \notin {"closed", "kept", "ended"}
    BY DEF Ended
  <2> QED BY <1>1, <2>1 DEF Reads, MemFits
<1>7. Reads'
  BY <1>1, <1>4, <1>5, <1>6 DEF Reads, BufferTyped, ParserTyped, ReadsPay
<1> QED BY <1>1, <1>2, <1>3, <1>7, StepKeeps

(* The connection is closed, and memused is told of it.                    *)
LEMMA ClosedKeeps ==
  ASSUME IInv, pc \in {"wait", "read"}, pc' = "closed", memused' = memused - buffer.capacity,
         UNCHANGED <<request, sent, edge, buffer, parser, tokens, reads, response, keepAlive, out>>
  PROVE  IInv'
<1>1. pc \notin Ended /\ pc' \notin Ended /\ pc' \in PCs /\ pc \notin {"closed", "kept", "ended"}
  BY DEF Ended, PCs
<1>2. /\ Reads /\ Tokened /\ reads \in 0..MaxReads /\ reads \in Nat
      /\ sent \in 0..Len(Stream) /\ sent \in Nat /\ edge \in BOOLEAN
  BY <1>1, Before
<1>3. Tokened'
  BY <1>2, TokensKept DEF Tokened
<1>4. BufferFits(buffer, parser, pc)'
  BY <1>2 DEF Reads, BufferFits
<1>5. CountFits(buffer, parser)'
  BY <1>2 DEF Reads, CountFits
<1>6. MemFits(buffer, parser, memused, pc)' /\ memused' \in Int
  <2> DEFINE c == buffer.capacity
             room == buffer.after_headers_index + parser.content_length - RequestBufSize
  <2>1. /\ c \in Nat /\ memused \in Int /\ memused <= c
        /\ memused < c => parser.state = "body" /\ c - memused <= room
    BY <1>1, <1>2 DEF Reads, BufferTyped, MemFits
  <2> HIDE DEF c, room
  <2>2. memused' = memused - c
    BY DEF c
  <2>3. memused' \in Int /\ memused' <= 0 /\ 0 - memused' = c - memused /\ (memused' < 0 <=> memused < c)
    BY <2>1, <2>2
  <2>4. memused' < 0 => parser.state = "body" /\ 0 - memused' <= room
    BY <2>1, <2>3
  <2>5. room = buffer'.after_headers_index + parser'.content_length - RequestBufSize
    BY DEF room
  <2> QED BY <2>3, <2>4, <2>5 DEF MemFits
<1>7. Reads'
  BY <1>2, <1>4, <1>5, <1>6 DEF Reads, BufferTyped, ParserTyped, ReadsPay
<1> QED BY <1>1, <1>2, <1>3, <1>7, StepKeeps

(* What is read fits in the buffer, which is grown up to the maximum.      *)
LEMMA ReadSomeKeeps ==
  ASSUME IInv, ReadSome, UNCHANGED <<response, keepAlive, out>> PROVE IInv'
<1>1. pc = "read" /\ pc \notin Ended /\ pc \in PCs /\ pc \notin {"closed", "kept", "ended"}
  BY DEF ReadSome, Ended, PCs
<1>2. /\ Reads /\ Tokened /\ reads \in 0..MaxReads /\ reads \in Nat /\ MaxReads \in Nat
      /\ sent \in 0..Len(Stream) /\ sent \in Nat /\ edge \in BOOLEAN
  BY <1>1, Before
<1> DEFINE cap == buffer.capacity
           len == buffer.length
           length == len + Least(cap - len, sent - len)
           grows == length = cap /\ cap # MaxRequestBufSize
           room == IF grows THEN Least(2 * cap, MaxRequestBufSize) ELSE cap
           again == room < MaxRequestBufSize
           i == buffer.index
           after == buffer.after_headers_index
<1>3. /\ cap - len > 0 /\ sent > len
      /\ buffer' = [buffer EXCEPT !.length = length, !.capacity = room]
      /\ parser' = [parser EXCEPT !.fresh = @ \/ ~again]
      /\ reads' = IF again THEN reads ELSE NextReads
      /\ memused' = memused - cap + room
      /\ pc' = IF again THEN "read" ELSE "exec"
      /\ UNCHANGED <<request, sent, edge, tokens>>
  BY DEF ReadSome, Room
<1>4. /\ cap \in Nat /\ len \in Nat /\ i \in Int /\ after \in Nat /\ memused \in Int
      /\ DOMAIN buffer = {"capacity", "length", "index", "after_headers_index"}
      /\ cap >= RequestBufSize /\ cap <= MaxRequestBufSize /\ len <= cap
      /\ i # -1 /\ i >= -1 /\ i <= len /\ after <= i
      /\ RequestBufSize \in Nat \ {0} /\ MaxRequestBufSize \in Nat
  <2>1. BufferTyped(buffer) /\ BufferFits(buffer, parser, pc) /\ memused \in Int
    BY <1>2 DEF Reads
  <2>2. cap \in RequestBufSize..MaxRequestBufSize
    BY <2>1 DEF BufferFits
  <2> QED BY <1>1, <2>1, <2>2, BufSizeAssumption DEF BufferTyped, BufferFits
<1>5. /\ DOMAIN buffer' = DOMAIN buffer /\ buffer'.length = length /\ buffer'.capacity = room
      /\ buffer'.index = i /\ buffer'.after_headers_index = after
  <2> HIDE DEF length, room
  <2> QED BY <1>3, <1>4
<1>6. ParserTyped(parser)
  BY <1>2 DEF Reads
<1>7. /\ DOMAIN parser' = Parts
      /\ parser'.state = parser.state /\ parser'.type = parser.type /\ parser'.index = parser.index
      /\ parser'.limit_count = parser.limit_count /\ parser'.limit_max = parser.limit_max
      /\ parser'.content_length = parser.content_length /\ parser'.chunked = parser.chunked
      /\ parser'.done = parser.done /\ parser'.fresh = (parser.fresh \/ ~again)
  <2>1. DOMAIN parser = Parts
    BY <1>6 DEF ParserTyped
  <2> HIDE DEF again
  <2> QED BY <1>3, <2>1 DEF Parts
<1> HIDE DEF cap, len, i, after
<1>8. length \in Nat /\ length > len /\ length <= cap /\ length <= sent
  BY SMTT(30), <1>2, <1>3, <1>4 DEF Least
<1> HIDE DEF length
<1>9. room \in Nat /\ room >= cap /\ room <= MaxRequestBufSize
  BY <1>4 DEF Least
<1> HIDE DEF room, grows
<1>10. /\ reads' \in 0..MaxReads /\ reads' \in Nat /\ reads <= reads'
       /\ ~again => \A k \in 0..(MaxReads - 1) : reads >= k => reads' > k
  <2>1. NextReads \in Nat /\ NextReads <= MaxReads /\ reads <= NextReads
        /\ \A k \in 0..(MaxReads - 1) : reads >= k => NextReads > k
    BY <1>2 DEF NextReads, Least
  <2> HIDE DEF again
  <2> QED BY <1>2, <1>3, <2>1
<1>11. Tokened'
  BY <1>2, <1>3, <1>10, TokensKept DEF Tokened
<1>12. BufferTyped(buffer')
  BY <1>4, <1>5, <1>8, <1>9 DEF BufferTyped
<1>13. ParserTyped(parser')
  <2>1. parser'.fresh \in BOOLEAN
    BY <1>7
  <2> QED BY <1>6, <1>7, <2>1 DEF ParserTyped
<1>14. BufferFits(buffer, parser, pc)'
  <2>1. buffer'.capacity \in RequestBufSize..MaxRequestBufSize
    BY <1>4, <1>5, <1>9
  <2>2. /\ buffer'.length <= buffer'.capacity /\ buffer'.length <= sent'
        /\ buffer'.index >= -1 /\ buffer'.index # -1 /\ buffer'.index <= buffer'.length
        /\ buffer'.after_headers_index <= buffer'.index
        /\ buffer'.after_headers_index <= buffer'.length
    BY SMTT(30), <1>2, <1>3, <1>4, <1>5, <1>8, <1>9
  <2> QED BY <2>1, <2>2 DEF BufferFits
<1>15. CountFits(buffer, parser)'
  <2>1. CountFits(buffer, parser)
    BY <1>2 DEF Reads
  <2> QED BY <1>3, <1>5, <1>7, <2>1 DEF CountFits, i
<1>16. ReadsPay(parser, reads)'
  <2> DEFINE x == parser.limit_count - parser.limit_max
  <2>1. \A k \in 0..(MaxReads - 1) :
          k = 0 \/ k <= x => IF parser.fresh THEN reads > k ELSE reads >= k
    BY <1>2 DEF Reads, ReadsPay
  <2>2. x = parser'.limit_count - parser'.limit_max
    BY <1>7
  <2> HIDE DEF x, again
  <2>3. ASSUME NEW k \in 0..(MaxReads - 1), k = 0 \/ k <= x
        PROVE  IF parser'.fresh THEN reads' > k ELSE reads' >= k
    <3>1. k \in Nat /\ reads >= k /\ (parser.fresh => reads > k)
      BY <1>2, <2>1, <2>3
    <3>2. reads' >= k /\ (parser.fresh => reads' > k)
      BY <1>2, <1>10, <3>1
    <3>3. ~again => reads' > k
      BY <1>10, <3>1
    <3> QED BY <1>7, <3>2, <3>3
  <2> QED BY <2>2, <2>3 DEF ReadsPay
<1>17. MemFits(buffer, parser, memused, pc)' /\ memused' \in Int
  <2> DEFINE most == after + parser.content_length - RequestBufSize
  <2>1. memused <= cap /\ (memused < cap => parser.state = "body" /\ cap - memused <= most)
    BY <1>1, <1>2 DEF Reads, MemFits, cap, after
  <2>2. most = buffer'.after_headers_index + parser'.content_length - RequestBufSize
    BY <1>5, <1>7
  <2> HIDE DEF most
  <2>3. memused' = memused - cap + room
    BY <1>3
  <2>4. memused' \in Int /\ memused' <= room /\ room - memused' = cap - memused
        /\ (memused' < room <=> memused < cap)
    BY <1>4, <1>9, <2>1, <2>3
  <2>5. memused' < room => parser'.state = "body" /\ room - memused' <= most
    BY <1>7, <2>1, <2>4
  <2>6. pc' \notin {"closed", "kept", "ended"}
    BY <1>3
  <2> QED BY <1>5, <2>2, <2>4, <2>5, <2>6 DEF MemFits
<1>18. Reads'
  BY <1>12, <1>13, <1>14, <1>15, <1>16, <1>17 DEF Reads
<1>19. pc' \in PCs /\ pc' \notin Ended
  BY <1>3 DEF PCs, Ended
<1> QED BY <1>1, <1>2, <1>3, <1>10, <1>11, <1>18, <1>19, StepKeeps

(* A read that gets nothing pays for one more symbol, too.                 *)
LEMMA ReadNothingKeeps ==
  ASSUME IInv, ReadNothing, UNCHANGED <<response, keepAlive, out>> PROVE IInv'
<1>1. pc = "read" /\ pc \notin Ended /\ pc \in PCs /\ pc \notin {"closed", "kept", "ended"}
  BY DEF ReadNothing, Ended, PCs
<1>2. /\ Reads /\ Tokened /\ reads \in 0..MaxReads /\ reads \in Nat /\ MaxReads \in Nat
      /\ sent \in 0..Len(Stream) /\ sent \in Nat /\ edge \in BOOLEAN
  BY <1>1, Before
<1>3. /\ parser' = [parser EXCEPT !.fresh = TRUE] /\ reads' = NextReads /\ pc' = "exec"
      /\ UNCHANGED <<request, sent, edge, buffer, tokens, memused>>
  BY DEF ReadNothing
<1>4. ParserTyped(parser)
  BY <1>2 DEF Reads
<1>5. /\ DOMAIN parser' = Parts
      /\ parser'.state = parser.state /\ parser'.type = parser.type /\ parser'.index = parser.index
      /\ parser'.limit_count = parser.limit_count /\ parser'.limit_max = parser.limit_max
      /\ parser'.content_length = parser.content_length /\ parser'.chunked = parser.chunked
      /\ parser'.done = parser.done /\ parser'.fresh = TRUE
  <2>1. DOMAIN parser = Parts
    BY <1>4 DEF ParserTyped
  <2> QED BY <1>3, <2>1 DEF Parts
<1>6. /\ reads' \in 0..MaxReads /\ reads' \in Nat /\ reads <= reads'
      /\ \A k \in 0..(MaxReads - 1) : reads >= k => reads' > k
  BY <1>2, <1>3 DEF NextReads, Least
<1>7. Tokened'
  BY <1>2, <1>3, <1>6, TokensKept DEF Tokened
<1>8. ParserTyped(parser')
  BY <1>4, <1>5 DEF ParserTyped
<1>9. BufferFits(buffer, parser, pc)'
  BY <1>1, <1>2, <1>3 DEF Reads, BufferFits
<1>10. CountFits(buffer, parser)'
  <2>1. CountFits(buffer, parser)
    BY <1>2 DEF Reads
  <2> QED BY <1>3, <1>5, <2>1 DEF CountFits
<1>11. ReadsPay(parser, reads)'
  <2> DEFINE x == parser.limit_count - parser.limit_max
  <2>1. \A k \in 0..(MaxReads - 1) :
          k = 0 \/ k <= x => IF parser.fresh THEN reads > k ELSE reads >= k
    BY <1>2 DEF Reads, ReadsPay
  <2>2. x = parser'.limit_count - parser'.limit_max
    BY <1>5
  <2> HIDE DEF x
  <2>3. ASSUME NEW k \in 0..(MaxReads - 1), k = 0 \/ k <= x PROVE reads' > k
    <3>1. k \in Nat /\ reads >= k
      BY <1>2, <2>1, <2>3
    <3> QED BY <1>6, <3>1
  <2> QED BY <1>5, <2>2, <2>3 DEF ReadsPay
<1>12. MemFits(buffer, parser, memused, pc)'
  BY <1>1, <1>2, <1>3, <1>5 DEF Reads, MemFits
<1>13. Reads'
  BY <1>2, <1>3, <1>8, <1>9, <1>10, <1>11, <1>12 DEF Reads, BufferTyped
<1>14. pc' \in PCs /\ pc' \notin Ended
  BY <1>3 DEF PCs, Ended
<1> QED BY <1>1, <1>2, <1>3, <1>6, <1>7, <1>13, <1>14, StepKeeps

(* The parser stops without a token.                                       *)
LEMMA StopKeeps ==
  ASSUME IInv, pc = "exec", Fresh, NEW cs \in States, NEW i, Stop(cs, i),
         i \in Nat, i <= buffer.length, buffer.after_headers_index <= i,
         \/ cs = parser.state /\ i = buffer.index
         \/ cs = "error" /\ parser.state # "body" /\ i = buffer.index + 1 /\ buffer.index \in Nat,
         UNCHANGED <<response, keepAlive, out>>
  PROVE  IInv'
<1>1. pc \notin Ended /\ pc \in PCs /\ pc \notin {"closed", "kept", "ended"}
  BY DEF Ended, PCs
<1>2. /\ Reads /\ Tokened /\ reads \in 0..MaxReads /\ reads \in Nat /\ MaxReads \in Nat
      /\ sent \in 0..Len(Stream) /\ sent \in Nat /\ edge \in BOOLEAN
  BY <1>1, Before
<1>3. /\ parser' = [parser EXCEPT !.state = cs, !.fresh = FALSE]
      /\ buffer' = [buffer EXCEPT !.index = i] /\ pc' = "wait"
      /\ UNCHANGED <<request, sent, edge, tokens, memused, reads>>
  BY DEF Stop
<1>4. ParserTyped(parser) /\ BufferTyped(buffer) /\ BufferFits(buffer, parser, pc)
  BY <1>2 DEF Reads
<1>5. /\ DOMAIN parser' = Parts
      /\ parser'.state = cs /\ parser'.type = parser.type /\ parser'.index = parser.index
      /\ parser'.limit_count = parser.limit_count /\ parser'.limit_max = parser.limit_max
      /\ parser'.content_length = parser.content_length /\ parser'.chunked = parser.chunked
      /\ parser'.done = parser.done /\ parser'.fresh = FALSE
  <2>1. DOMAIN parser = Parts
    BY <1>4 DEF ParserTyped
  <2> QED BY <1>3, <2>1 DEF Parts
<1>6. /\ DOMAIN buffer' = DOMAIN buffer /\ buffer'.length = buffer.length
      /\ buffer'.capacity = buffer.capacity /\ buffer'.index = i
      /\ buffer'.after_headers_index = buffer.after_headers_index
  BY <1>3, <1>4 DEF BufferTyped
<1>7. ParserTyped(parser')
  BY <1>4, <1>5 DEF ParserTyped
<1>8. BufferTyped(buffer')
  BY <1>4, <1>6 DEF BufferTyped
<1>9. BufferFits(buffer, parser, pc)'
  <2>1. i # -1 /\ i >= -1
    OBVIOUS
  <2> QED BY <1>3, <1>4, <1>6, <2>1 DEF BufferFits
<1>10. CountFits(buffer, parser)'
  <2>1. CountFits(buffer, parser)
    BY <1>2 DEF Reads
  <2>2. CASE cs = parser.state /\ i = buffer.index
    BY <1>3, <1>5, <1>6, <2>1, <2>2 DEF CountFits
  <2>3. CASE cs = "error" /\ parser.state # "body" /\ i = buffer.index + 1 /\ buffer.index \in Nat
    <3>1. parser.limit_count <= i
      <4>1. parser.limit_count \in Nat /\ parser.limit_count <= buffer.index
        BY <1>4, <2>1, <2>3 DEF ParserTyped, CountFits
      <4> QED BY <2>3, <4>1
    <3>2. "error" \notin Inside
      BY DEF Inside
    <3> QED BY <1>3, <1>5, <1>6, <2>1, <2>3, <3>1, <3>2 DEF CountFits
  <2> QED BY <2>2, <2>3
<1>11. ReadsPay(parser, reads)'
  <2> DEFINE x == parser.limit_count - parser.limit_max
  <2>1. \A k \in 0..(MaxReads - 1) :
          k = 0 \/ k <= x => IF parser.fresh THEN reads > k ELSE reads >= k
    BY <1>2 DEF Reads, ReadsPay
  <2>2. x = parser'.limit_count - parser'.limit_max
    BY <1>5
  <2> HIDE DEF x
  <2>3. ASSUME NEW k \in 0..(MaxReads - 1), k = 0 \/ k <= x PROVE reads >= k
    BY <1>2, <2>1, <2>3
  <2> QED BY <1>3, <1>5, <2>2, <2>3 DEF ReadsPay
<1>12. MemFits(buffer, parser, memused, pc)'
  <2>1. /\ memused <= buffer.capacity
        /\ memused < buffer.capacity =>
             /\ parser.state = "body"
             /\ buffer.capacity - memused
                <= buffer.after_headers_index + parser.content_length - RequestBufSize
    BY <1>1, <1>2 DEF Reads, MemFits
  <2> QED BY <1>3, <1>5, <1>6, <2>1 DEF MemFits
<1>13. Tokened'
  BY <1>2, <1>3, TokensKept DEF Tokened
<1>14. Reads'
  BY <1>2, <1>3, <1>7, <1>8, <1>9, <1>10, <1>11, <1>12 DEF Reads
<1>15. pc' \in PCs /\ pc' \notin Ended
  BY <1>3 DEF PCs, Ended
<1> QED BY <1>1, <1>2, <1>3, <1>13, <1>14, <1>15, StepKeeps

(* A rule is applied in the head: the parser goes on, or stops at a limit. *)
LEMMA RuleKeeps ==
  ASSUME IInv, InHead, NEW r \in Apply, NEW fresh \in BOOLEAN, fresh => ~TooLong(After(r), r),
         parser' = [After(r) EXCEPT !.fresh = fresh], buffer' = [buffer EXCEPT !.index = @ + 1],
         pc' \in {"exec", "wait"}, Tokened',
         UNCHANGED <<request, sent, edge, memused, reads, response, keepAlive, out>>
  PROVE  IInv'
<1> DEFINE p == After(r)
           i == buffer.index
<1>1. pc \notin Ended /\ pc \in PCs /\ pc \notin {"closed", "kept", "ended"}
  BY HeadStep DEF Ended, PCs
<1>2. /\ Reads /\ reads \in 0..MaxReads /\ reads \in Nat /\ MaxReads \in Nat
      /\ sent \in 0..Len(Stream) /\ sent \in Nat /\ edge \in BOOLEAN
  BY <1>1, Before
<1>3. /\ i \in Nat /\ i + 1 <= buffer.length /\ parser.state # "body"
      /\ BufferTyped(buffer) /\ BufferFits(buffer, parser, pc)
  BY HeadStep
<1>4. /\ ParserTyped(p) /\ p.fresh = TRUE /\ p.done = FALSE
      /\ \A b : b.index = i + 1 => CountFits(b, p)
  BY AfterFits
<1>5. \A q : /\ q.limit_count = p.limit_count /\ q.limit_max = p.limit_max
             /\ q.fresh => ~TooLong(p, r)
             => ReadsPay(q, reads)
  BY AfterPays
<1>6. parser' = [p EXCEPT !.fresh = fresh] /\ (fresh => ~TooLong(p, r))
  OBVIOUS
<1> HIDE DEF p
<1>7. /\ DOMAIN parser' = Parts
      /\ parser'.state = p.state /\ parser'.type = p.type /\ parser'.index = p.index
      /\ parser'.limit_count = p.limit_count /\ parser'.limit_max = p.limit_max
      /\ parser'.content_length = p.content_length /\ parser'.chunked = p.chunked
      /\ parser'.done = p.done /\ parser'.fresh = fresh
  <2>1. DOMAIN p = Parts
    BY <1>4 DEF ParserTyped
  <2> QED BY <1>6, <2>1 DEF Parts
<1>8. /\ DOMAIN buffer' = DOMAIN buffer /\ buffer'.length = buffer.length
      /\ buffer'.capacity = buffer.capacity /\ buffer'.index = i + 1
      /\ buffer'.after_headers_index = buffer.after_headers_index
  BY <1>3 DEF BufferTyped
<1>9. ParserTyped(parser')
  BY <1>4, <1>7 DEF ParserTyped
<1>10. BufferTyped(buffer')
  BY <1>3, <1>8 DEF BufferTyped
<1>11. BufferFits(buffer, parser, pc)'
  <2>1. i # -1 /\ buffer.after_headers_index \in Nat /\ buffer.length \in Nat
    BY <1>3 DEF BufferTyped
  <2>2. buffer.after_headers_index <= i
    BY <1>3, <2>1 DEF BufferFits
  <2>3. buffer.after_headers_index <= i + 1 /\ i + 1 # -1 /\ i + 1 >= -1
    BY <1>3, <2>1, <2>2
  <2> QED BY <1>3, <1>8, <2>3 DEF BufferFits
<1>12. CountFits(buffer, parser)'
  <2>1. CountFits(buffer', p)
    BY <1>4, <1>8
  <2> QED BY <1>7, <2>1 DEF CountFits
<1>13. ReadsPay(parser, reads)'
  <2>1. ReadsPay(parser', reads)
    BY <1>5, <1>6, <1>7
  <2> QED BY <2>1 DEF ReadsPay
<1>14. MemFits(buffer, parser, memused, pc)'
  <2>1. memused <= buffer.capacity /\ ~(memused < buffer.capacity)
    BY <1>1, <1>2, <1>3 DEF Reads, MemFits
  <2>2. pc' \notin {"closed", "kept", "ended"}
    OBVIOUS
  <2> QED BY <1>8, <2>1, <2>2 DEF MemFits
<1>15. Reads'
  BY <1>2, <1>9, <1>10, <1>11, <1>12, <1>13, <1>14 DEF Reads
<1>16. pc' \in PCs /\ pc' \notin Ended
  BY DEF PCs, Ended
<1> QED BY <1>1, <1>2, <1>15, <1>16, StepKeeps

(* The head is done: room is made for a body that the buffer may hold.     *)
LEMMA HeadersDoneKeeps ==
  ASSUME IInv, HeadersDone, UNCHANGED <<response, keepAlive, out>> PROVE IInv'
<1> DEFINE i == buffer.index
           after == i + 1
           l == parser.content_length
           need == l + after
           kind == IF parser.chunked THEN "chunked"
                   ELSE IF l = 0 THEN "done"
                   ELSE IF need > MaxRequestBufSize THEN "large" ELSE "body"
           cap == buffer.capacity
           grows == kind = "body" /\ need > cap
           t == [type |-> "HEADERS_DONE", index |-> 0, len |-> 0]
           room == IF grows THEN need ELSE cap
<1>1. InHead /\ tokens' = Append(tokens, t) /\ UNCHANGED <<request, sent, edge, memused, reads>>
  BY DEF HeadersDone
<1>2. PICK r \in Apply :
        /\ ~TooLong(After(r), r) /\ "done" \in r.does
        /\ parser' = [After(r) EXCEPT !.state = kind, !.type = "HEADERS_DONE", !.index = 0]
        /\ \E index \in {after} \cup IF grows THEN {-1, buffer.length} ELSE {} :
             buffer' = [buffer EXCEPT !.index = index, !.after_headers_index = after,
                          !.capacity = IF grows THEN need ELSE @]
        /\ pc' = IF kind = "body" THEN "exec" ELSE "handled"
  BY DEF HeadersDone
<1> DEFINE p == After(r)
<1>3. PICK index \in {after} \cup IF grows THEN {-1, buffer.length} ELSE {} :
        buffer' = [buffer EXCEPT !.index = index, !.after_headers_index = after, !.capacity = room]
  BY <1>2
<1>4. pc \notin Ended /\ pc \in PCs /\ pc \notin {"closed", "kept", "ended"}
  BY <1>1, HeadStep DEF Ended, PCs
<1>5. /\ Reads /\ reads \in 0..MaxReads /\ reads \in Nat /\ MaxReads \in Nat
      /\ sent \in 0..Len(Stream) /\ sent \in Nat /\ edge \in BOOLEAN
  BY <1>4, Before
<1>6. /\ i \in Nat /\ i + 1 <= buffer.length /\ parser.state # "body" /\ ParserTyped(parser)
      /\ BufferTyped(buffer) /\ BufferFits(buffer, parser, pc)
  BY <1>1, HeadStep
<1>7. /\ ParserTyped(p) /\ p.fresh = TRUE /\ p.done = FALSE
      /\ p.content_length = l /\ p.limit_count <= i + 1
  BY <1>1, <1>2, AfterFits
<1>8. \A q : /\ q.limit_count = p.limit_count /\ q.limit_max = p.limit_max
             /\ q.fresh => ~TooLong(p, r)
             => ReadsPay(q, reads)
  BY <1>1, AfterPays
<1>9. parser' = [p EXCEPT !.state = kind, !.type = "HEADERS_DONE", !.index = 0] /\ ~TooLong(p, r)
  BY <1>2
<1> HIDE DEF p
<1>10. /\ cap \in Nat /\ RequestBufSize \in Nat /\ MaxRequestBufSize \in Nat
       /\ RequestBufSize <= cap /\ cap <= MaxRequestBufSize
       /\ buffer.length \in Nat /\ buffer.length <= cap /\ buffer.length <= sent
       /\ DOMAIN buffer = {"capacity", "length", "index", "after_headers_index"} /\ l \in Nat
  <2>1. cap \in RequestBufSize..MaxRequestBufSize
    BY <1>6 DEF BufferFits
  <2> QED BY <1>6, <2>1, BufSizeAssumption DEF BufferTyped, BufferFits, ParserTyped
<1>11. kind \in {"chunked", "done", "large", "body"} /\ (kind = "body" => ~(need > MaxRequestBufSize))
  OBVIOUS
<1>12. /\ kind \in States /\ kind \notin Inside /\ kind # "version" /\ "HEADERS_DONE" \in Kinds
       /\ "HEADERS_DONE" \notin TokenTypes
  <2> HIDE DEF kind
  <2>1. kind \in States
    BY <1>11 DEF States
  <2> QED BY <1>11, <2>1 DEF Inside, Kinds, TokenTypes
<1>13. memused \in Int /\ memused = cap
  <2>1. memused \in Int /\ memused <= cap /\ ~(memused < cap)
    BY <1>4, <1>5, <1>6 DEF Reads, MemFits
  <2> QED BY <1>10, <2>1
<1>14. pc' \in {"exec", "handled"} /\ (kind = "body" => pc' = "exec")
  BY <1>2
<1>15. grows => kind = "body" /\ need > cap
  OBVIOUS
<1> HIDE DEF kind
<1>16. need \in Nat /\ after \in Nat /\ need = l + after
  BY <1>6, <1>10
<1>17. room = IF grows THEN need ELSE cap
  OBVIOUS
<1>18. index = after \/ (grows /\ index \in {-1, buffer.length})
  OBVIOUS
<1> HIDE DEF need, grows, room
<1>19. /\ DOMAIN parser' = Parts
       /\ parser'.state = kind /\ parser'.type = "HEADERS_DONE" /\ parser'.index = 0
       /\ parser'.limit_count = p.limit_count /\ parser'.limit_max = p.limit_max
       /\ parser'.content_length = p.content_length /\ parser'.chunked = p.chunked
       /\ parser'.done = p.done /\ parser'.fresh = p.fresh
  <2>1. DOMAIN p = Parts
    BY <1>7 DEF ParserTyped
  <2> QED BY <1>9, <2>1 DEF Parts
<1>20. /\ DOMAIN buffer' = DOMAIN buffer /\ buffer'.length = buffer.length
       /\ buffer'.capacity = room /\ buffer'.index = index /\ buffer'.after_headers_index = after
  <2> HIDE DEF i, after
  <2> QED BY <1>3, <1>10
<1>21. ParserTyped(parser')
  BY <1>7, <1>12, <1>19 DEF ParserTyped
<1>22. /\ room \in Nat /\ RequestBufSize <= room /\ room <= MaxRequestBufSize /\ cap <= room
  <2>1. CASE grows
    BY <1>10, <1>11, <1>15, <1>16, <1>17, <2>1
  <2>2. CASE ~grows
    BY <1>10, <1>17, <2>2
  <2> QED BY <2>1, <2>2
<1>23. index \in Int /\ index >= -1 /\ index <= buffer.length /\ (index # -1 => after <= index)
  BY <1>6, <1>10, <1>16, <1>18
<1>24. BufferTyped(buffer')
  BY <1>10, <1>16, <1>20, <1>22, <1>23 DEF BufferTyped
<1>25. index = -1 => kind = "body" /\ pc' = "exec"
  BY <1>6, <1>14, <1>15, <1>18
<1>26. BufferFits(buffer, parser, pc)'
  <2>1. buffer'.capacity \in RequestBufSize..MaxRequestBufSize
    BY <1>10, <1>20, <1>22
  <2>2. /\ buffer'.length <= buffer'.capacity /\ buffer'.length <= sent'
        /\ buffer'.index >= -1 /\ buffer'.index <= buffer'.length
        /\ buffer'.after_headers_index <= buffer'.length
        /\ buffer'.index # -1 => buffer'.after_headers_index <= buffer'.index
    BY <1>1, <1>6, <1>10, <1>20, <1>22, <1>23
  <2>3. buffer'.index = -1 => pc' = "exec" /\ parser'.state = "body" /\ parser'.fresh /\ ~parser'.done
    BY <1>7, <1>19, <1>20, <1>25
  <2> QED BY <2>1, <2>2, <2>3 DEF BufferFits
<1>27. CountFits(buffer, parser)'
  <2> DEFINE x == p.limit_count
  <2>1. x \in Nat /\ x <= i + 1 /\ parser'.limit_count = x
    BY <1>7, <1>19 DEF ParserTyped
  <2> HIDE DEF x
  <2>2. x <= sent
    BY <1>5, <1>6, <1>10, <2>1
  <2>3. kind # "body" => buffer'.index = i + 1
    BY <1>15, <1>18, <1>20
  <2>4. 0 <= sent
    BY <1>5
  <2> QED BY <1>1, <1>12, <1>19, <2>1, <2>2, <2>3, <2>4 DEF CountFits
<1>28. ReadsPay(parser, reads)'
  <2>1. ReadsPay(parser', reads)
    BY <1>8, <1>9, <1>19
  <2> QED BY <1>1, <2>1 DEF ReadsPay
<1>29. MemFits(buffer, parser, memused, pc)'
  <2>1. pc' \notin {"closed", "kept", "ended"} /\ memused' = cap /\ buffer'.capacity = room
    BY <1>1, <1>13, <1>14, <1>20
  <2>2. parser'.content_length = l /\ buffer'.after_headers_index = after
    BY <1>7, <1>19, <1>20
  <2>3. CASE grows
    <3>1. room - cap <= after + l - RequestBufSize /\ cap <= room
      BY <1>10, <1>16, <1>17, <1>22, <2>3
    <3> QED BY <1>15, <1>19, <2>1, <2>2, <2>3, <3>1 DEF MemFits
  <2>4. CASE ~grows
    <3>1. cap <= room /\ ~(cap < room)
      BY <1>10, <1>17, <2>4
    <3> QED BY <2>1, <3>1 DEF MemFits
  <2> QED BY <2>3, <2>4
<1>30. Tokened'
  <2>1. t \in TokenSet /\ t.index = 0 /\ t.type = "HEADERS_DONE"
    BY <1>12 DEF TokenSet
  <2> HIDE DEF t
  <2>2. TokenFits(t, sent, reads)
    BY <1>5, <1>12, <2>1 DEF TokenFits
  <2> QED BY <1>1, <2>1, <2>2, TokenPushed DEF Tokened
<1>31. Reads'
  BY <1>1, <1>13, <1>21, <1>24, <1>26, <1>27, <1>28, <1>29 DEF Reads
<1>32. pc' \in PCs /\ pc' \notin Ended
  BY <1>14 DEF PCs, Ended
<1> QED BY <1>1, <1>4, <1>5, <1>30, <1>31, <1>32, StepKeeps

(* Of the body only its place is noted, and whether it is there.           *)
LEMMA BodyKeeps ==
  ASSUME IInv, Body, UNCHANGED <<response, keepAlive, out>> PROVE IInv'
<1> DEFINE after == buffer.after_headers_index
           size == parser.content_length
           there == buffer.length >= after + size - 1
           t == [type |-> "BODY", index |-> after, len |-> size]
<1>1. /\ pc = "exec" /\ Fresh /\ parser.state = "body"
      /\ parser' = [parser EXCEPT !.type = "BODY", !.index = after, !.done = there, !.fresh = there]
      /\ tokens' = IF there THEN Append(tokens, t) ELSE tokens
      /\ pc' = IF there THEN "handled" ELSE "wait"
      /\ buffer' = [buffer EXCEPT !.index = buffer.length]
      /\ UNCHANGED <<request, sent, edge, memused, reads>>
  BY DEF Body, Parses
<1>2. pc \notin Ended /\ pc \in PCs /\ pc \notin {"closed", "kept", "ended"}
  BY <1>1 DEF Ended, PCs
<1>3. /\ Reads /\ Tokened /\ reads \in 0..MaxReads /\ reads \in Nat /\ MaxReads \in Nat
      /\ sent \in 0..Len(Stream) /\ sent \in Nat /\ edge \in BOOLEAN
  BY <1>2, Before
<1>4. there \in BOOLEAN
  OBVIOUS
<1> HIDE DEF there, t
<1>5. /\ BufferTyped(buffer) /\ ParserTyped(parser) /\ BufferFits(buffer, parser, pc)
      /\ CountFits(buffer, parser)
  BY <1>3 DEF Reads
<1>6. /\ DOMAIN parser' = Parts
      /\ parser'.state = parser.state /\ parser'.type = "BODY" /\ parser'.index = after
      /\ parser'.limit_count = parser.limit_count /\ parser'.limit_max = parser.limit_max
      /\ parser'.content_length = parser.content_length /\ parser'.chunked = parser.chunked
      /\ parser'.done = there /\ parser'.fresh = there
  <2>1. DOMAIN parser = Parts
    BY <1>5 DEF ParserTyped
  <2> QED BY <1>1, <2>1 DEF Parts
<1>7. /\ DOMAIN buffer' = DOMAIN buffer /\ buffer'.length = buffer.length
      /\ buffer'.capacity = buffer.capacity /\ buffer'.index = buffer.length
      /\ buffer'.after_headers_index = after
  BY <1>1, <1>5 DEF BufferTyped
<1>8. after \in Nat /\ size \in Nat /\ buffer.length \in Nat
  BY <1>5 DEF BufferTyped, ParserTyped
<1>9. after <= buffer.length /\ buffer.length <= sent
  BY <1>5 DEF BufferFits
<1>10. "BODY" \in Kinds /\ "BODY" \notin TokenTypes /\ "body" \notin Inside
  BY DEF Kinds, TokenTypes, Inside
<1>11. ParserTyped(parser')
  BY <1>4, <1>5, <1>6, <1>8, <1>10 DEF ParserTyped
<1>12. BufferTyped(buffer')
  BY <1>5, <1>7, <1>8 DEF BufferTyped
<1>13. BufferFits(buffer, parser, pc)'
  <2>1. buffer.length # -1 /\ buffer.length >= -1 /\ buffer.length <= buffer.length
    BY <1>8
  <2> QED BY <1>1, <1>5, <1>7, <1>9, <2>1 DEF BufferFits
<1>14. CountFits(buffer, parser)'
  <2>1. after <= sent /\ parser.limit_count <= sent
    BY <1>3, <1>5, <1>8, <1>9 DEF CountFits
  <2> QED BY <1>1, <1>6, <1>10, <2>1 DEF CountFits
<1>15. ReadsPay(parser, reads)'
  <2> DEFINE x == parser.limit_count - parser.limit_max
  <2>1. \A k \in 0..(MaxReads - 1) :
          k = 0 \/ k <= x => IF parser.fresh THEN reads > k ELSE reads >= k
    BY <1>3 DEF Reads, ReadsPay
  <2>2. x = parser'.limit_count - parser'.limit_max
    BY <1>6
  <2>3. parser.fresh
    BY <1>1 DEF Fresh
  <2> HIDE DEF x
  <2>4. ASSUME NEW k \in 0..(MaxReads - 1), k = 0 \/ k <= x PROVE reads > k /\ reads >= k
    <3>1. reads > k
      BY <2>1, <2>3, <2>4
    <3> QED BY <1>3, <3>1
  <2> QED BY <1>1, <2>2, <2>4 DEF ReadsPay
<1>16. MemFits(buffer, parser, memused, pc)'
  <2>1. pc' \notin {"closed", "kept", "ended"}
    BY <1>1
  <2> QED BY <1>1, <1>2, <1>3, <1>6, <1>7, <2>1 DEF Reads, MemFits
<1>17. Tokened'
  <2>1. t \in TokenSet /\ t.index = after /\ t.type = "BODY"
    BY <1>8, <1>10 DEF TokenSet, t
  <2>2. TokenFits(t, sent, reads)
    BY <1>3, <1>8, <1>9, <1>10, <2>1 DEF TokenFits
  <2>3. CASE there
    BY <1>1, <2>1, <2>2, <2>3, TokenPushed DEF Tokened
  <2>4. CASE ~there
    BY <1>1, <1>3, <2>4, TokensKept DEF Tokened
  <2> QED BY <2>3, <2>4
<1>18. Reads'
  BY <1>1, <1>3, <1>11, <1>12, <1>13, <1>14, <1>15, <1>16 DEF Reads
<1>19. pc' \in PCs /\ pc' \notin Ended
  BY <1>1 DEF PCs, Ended
<1> QED BY <1>1, <1>2, <1>3, <1>17, <1>18, <1>19, StepKeeps

-----------------------------------------------------------------------------
(* The response.                                                           *)

(* The tables of the responses, and what they are the tables of.           *)
LEMMA TablesFit ==
  ASSUME NEW r \in Responses, NEW keep \in BOOLEAN, NEW n \in Strays
  PROVE  LET o == Serialized[r][keep][n]
         IN  /\ Bounded(o)
             /\ HeadLen(r) < ResponseBufSize =>
                  ~o.overrun /\ R!SentBytes(o) = Exactly[r][keep]
<1> DEFINE c == Connection(keep)
           again == [of |-> "stray", len |-> n]
           o == Serialized[r][keep][n]
           s == R!Serialize(r, c, again)
<1>1. c \in Name /\ n \in Nat
  BY NamesFit, StraysAssumption DEF Connection
<1>2. o = s
  BY Zenon DEF Serialized
<1>3. Exactly[r][keep] = R!Exactly(r, c)
  BY Zenon DEF Exactly
<1> HIDE DEF c
<1>4. Bounded(s)
  BY <1>1, SerializeFits
<1>5. HeadLen(r) < ResponseBufSize => ~s.overrun /\ R!SentBytes(s) = R!Exactly(r, c)
  BY <1>1, SerializesExactly
<1> HIDE DEF o, s
<1> QED BY <1>2, <1>3, <1>4, <1>5, Zenon DEF o

(* The buffer of the response takes the place of the one that was read.    *)
LEMMA RespondKeeps == ASSUME IInv, Respond PROVE IInv'
<1>1. /\ pc = "handled" /\ pc' = "write" /\ keepAlive' = DetectKeepAlive
      /\ buffer' = [buffer EXCEPT !.length = out'.size, !.capacity = Len(out'.buf)]
      /\ memused' = memused - buffer.capacity + Len(out'.buf)
      /\ UNCHANGED <<request, sent, edge, parser, tokens, reads>>
  BY DEF Respond
<1>2. PICK r \in Responses, n \in Strays : response' = r /\ out' = Serialized[r][keepAlive'][n]
  BY DEF Respond
<1>3. pc \notin Ended /\ pc' \in Ended /\ pc' \in PCs /\ pc' \notin {"closed", "kept", "ended"}
      /\ pc \notin {"closed", "kept", "ended"}
  BY <1>1 DEF Ended, PCs
<1>4. Reads /\ Tokened /\ edge \in BOOLEAN /\ reads \in 0..MaxReads /\ sent \in 0..Len(Stream)
  BY <1>3, Before
<1>5. keepAlive' \in BOOLEAN
  BY <1>1 DEF DetectKeepAlive
<1> DEFINE o == out'
<1>6. /\ Bounded(o)
      /\ HeadLen(r) < ResponseBufSize => ~o.overrun /\ R!SentBytes(o) = Exactly[r][keepAlive']
  BY <1>2, <1>5, TablesFit, Zenon
<1>7. Len(o.buf) \in Nat /\ o.size \in Nat
  <2> HIDE DEF o
  <2>1. o \in Out
    BY <1>6 DEF Bounded
  <2>2. o.buf \in Seq(Name) /\ o.size \in Nat
    BY <2>1 DEF Out
  <2> QED BY <2>2, LenProperties
<1>8. BufferTyped(buffer) /\ ParserTyped(parser) /\ memused \in Int
  BY <1>4 DEF Reads
<1> DEFINE len == Len(o.buf)
           size == o.size
<1>9. buffer' = [buffer EXCEPT !.length = size, !.capacity = len]
  BY <1>1
<1>10. len \in Nat /\ size \in Nat /\ memused' = memused - buffer.capacity + len
  BY <1>1, <1>7
<1> HIDE DEF len, size
<1>11. /\ DOMAIN buffer' = DOMAIN buffer /\ buffer'.length = size /\ buffer'.capacity = len
       /\ buffer'.index = buffer.index /\ buffer'.after_headers_index = buffer.after_headers_index
  BY <1>8, <1>9 DEF BufferTyped
<1>12. BufferTyped(buffer')
  BY <1>8, <1>10, <1>11 DEF BufferTyped
<1>13. MemFits(buffer, parser, memused, pc)' /\ memused' \in Int
  <2> DEFINE cap == buffer.capacity
             most == buffer.after_headers_index + parser.content_length - RequestBufSize
  <2>1. /\ cap \in Nat /\ memused <= cap
        /\ memused < cap => parser.state = "body" /\ cap - memused <= most
    BY <1>3, <1>4, <1>8 DEF Reads, MemFits, BufferTyped
  <2>2. most = buffer'.after_headers_index + parser'.content_length - RequestBufSize
    BY <1>1, <1>11
  <2>3. memused' = memused - cap + len
    BY <1>10
  <2> HIDE DEF cap, most
  <2>4. /\ memused' \in Int /\ memused' <= len /\ len - memused' = cap - memused
        /\ memused' < len <=> memused < cap
    BY <1>8, <1>10, <2>1, <2>3
  <2>5. memused' < len => parser.state = "body" /\ len - memused' <= most
    BY <2>1, <2>4
  <2> QED BY <1>1, <1>3, <1>11, <2>2, <2>4, <2>5 DEF MemFits
<1>14. Types'
  <2>1. Stream' = Stream
    BY <1>1 DEF Stream
  <2>2. request \in Requests
    BY DEF IInv, Types
  <2>3. sent' \in 0..Len(Stream')
    BY <1>1, <1>4, <2>1
  <2>4. ParserTyped(parser') /\ tokens' \in Seq(TokenSet)
    BY <1>1, <1>4, <1>8 DEF Tokened
  <2> QED BY <1>1, <1>3, <1>4, <1>5, <1>12, <1>13, <2>2, <2>3, <2>4 DEF Types
<1>15. (parser.limit_count <= sent)' /\ ReadsPay(parser, reads)'
  BY <1>1, <1>4 DEF Reads, CountFits, ReadsPay
<1>16. (\A i \in DOMAIN tokens : TokenFits(tokens[i], sent, reads))'
  BY <1>1, <1>4 DEF Tokened
<1>17. OutFits'
  BY <1>2, <1>3, <1>6, <1>11 DEF OutFits, len, size
<1>18. ResponseExact'
  <2>1. response' = r
    BY <1>2
  <2>2. HeadLen(response)' = HeadLen(response')
    BY DEF HeadLen
  <2>3. R!SentBytes(out)' = R!SentBytes(out')
    BY DEF R!SentBytes, R!Copies
  <2>4. Exactly[response][keepAlive]' = Exactly[response'][keepAlive']
    BY Zenon DEF Exactly
  <2> QED BY <1>6, <2>1, <2>2, <2>3, <2>4, Zenon DEF ResponseExact
<1> QED BY <1>3, <1>13, <1>14, <1>15, <1>16, <1>17, <1>18 DEF IInv

(* The response is sent, or the process dies of making it.                 *)
LEMMA WrittenKeeps == ASSUME IInv, Written PROVE IInv'
<1>1. /\ pc = "write" /\ pc' \in {"kept", "ended"} /\ memused' = memused - buffer.capacity
      /\ UNCHANGED <<request, sent, edge, buffer, parser, tokens, reads, response, keepAlive, out>>
  BY DEF Written
<1>2. /\ pc \in Ended /\ pc' \in Ended /\ pc' \in PCs /\ pc \notin {"closed", "kept", "ended"}
  BY <1>1 DEF Ended, PCs
<1>3. /\ Types /\ OutFits /\ ResponseExact /\ MemFits(buffer, parser, memused, pc)
      /\ parser.limit_count <= sent /\ ReadsPay(parser, reads)
      /\ \A i \in DOMAIN tokens : TokenFits(tokens[i], sent, reads)
  BY DEF IInv
<1>4. MemFits(buffer, parser, memused, pc)' /\ memused' \in Int
  <2> DEFINE c == buffer.capacity
             room == buffer.after_headers_index + parser.content_length - RequestBufSize
  <2>1. /\ c \in Nat /\ memused \in Int /\ memused <= c
        /\ memused < c => parser.state = "body" /\ c - memused <= room
    BY <1>2, <1>3 DEF Types, BufferTyped, MemFits
  <2>2. memused' = memused - c
    BY <1>1
  <2>3. room = buffer'.after_headers_index + parser'.content_length - RequestBufSize
    BY <1>1
  <2> HIDE DEF c, room
  <2>4. memused' \in Int /\ memused' <= 0 /\ 0 - memused' = c - memused /\ (memused' < 0 <=> memused < c)
    BY <2>1, <2>2
  <2>5. memused' < 0 => parser.state = "body" /\ 0 - memused' <= room
    BY <2>1, <2>4
  <2> QED BY <1>1, <2>3, <2>4, <2>5 DEF MemFits
<1>5. Types'
  <2>1. Stream' = Stream
    BY <1>1 DEF Stream
  <2>2. BufferTyped(buffer') /\ ParserTyped(parser')
    BY <1>1, <1>3 DEF Types
  <2> QED BY <1>1, <1>2, <1>3, <1>4, <2>1, <2>2 DEF Types
<1>6. (parser.limit_count <= sent)' /\ ReadsPay(parser, reads)'
  BY <1>1, <1>3 DEF ReadsPay
<1>7. (\A i \in DOMAIN tokens : TokenFits(tokens[i], sent, reads))'
  BY <1>1, <1>3
<1>8. OutFits'
  BY <1>1, <1>2, <1>3 DEF OutFits
<1>9. ResponseExact'
  <2>1. HeadLen(response)' = HeadLen(response)
    BY <1>1 DEF HeadLen
  <2>2. R!SentBytes(out)' = R!SentBytes(out)
    BY <1>1 DEF R!SentBytes, R!Copies
  <2>3. (Exactly[response][keepAlive])' = Exactly[response][keepAlive] /\ out' = out
    BY <1>1
  <2> QED BY <1>2, <1>3, <2>1, <2>2, <2>3 DEF ResponseExact
<1> QED BY <1>2, <1>4, <1>5, <1>6, <1>7, <1>8, <1>9 DEF IInv

(* Except between the tokens of a head and a body, the index is one of the *)
(* buffer.                                                                 *)
LEMMA IndexFits ==
  ASSUME IInv, pc \in {"wait", "read", "handled"} \/ (pc = "exec" /\ ~Fresh)
  PROVE  pc \notin Ended /\ pc # "closed" /\ buffer.index # -1 /\ sent \in 0..Len(Stream)
         /\ edge \in BOOLEAN /\ sent <= Len(Stream)
<1>1. pc \notin Ended /\ pc # "closed"
  BY DEF Ended
<1>2. Reads /\ sent \in 0..Len(Stream) /\ edge \in BOOLEAN
  BY <1>1, Before
<1>3. BufferFits(buffer, parser, pc)
  BY <1>2 DEF Reads
<1>4. buffer.index # -1
  BY <1>3 DEF BufferFits, Fresh
<1> QED BY <1>1, <1>2, <1>4

-----------------------------------------------------------------------------
(* The whole of it.                                                        *)

(* A connection that is accepted.                                          *)
LEMMA InitFits == Init => IInv
<1> SUFFICES ASSUME Init PROVE IInv
  OBVIOUS
<1>1. /\ pc = "read" /\ request \in Requests /\ sent = 0 /\ edge = FALSE
      /\ buffer = [capacity |-> RequestBufSize, length |-> 0, index |-> 0,
                   after_headers_index |-> 0]
      /\ parser = [state |-> "start", type |-> "", index |-> 0, limit_count |-> 0, limit_max |-> 0,
                   content_length |-> 0, chunked |-> FALSE, done |-> FALSE, fresh |-> FALSE]
      /\ tokens = <<>> /\ memused = RequestBufSize /\ reads = 0
      /\ response = NoResponse /\ keepAlive = FALSE /\ out = R!GrwInit
  BY DEF Init, ParserInit
<1>2. pc \in PCs /\ pc \notin Ended /\ pc \notin {"closed", "kept", "ended"} /\ pc # "exec"
  BY <1>1 DEF PCs, Ended
<1>3. /\ RequestBufSize \in Nat /\ MaxRequestBufSize \in Nat /\ RequestBufSize <= MaxRequestBufSize
      /\ MaxReads \in Nat
  BY BufSizeAssumption, MaxReadsAssumption
<1>4. /\ DOMAIN buffer = {"capacity", "length", "index", "after_headers_index"}
      /\ buffer.capacity = RequestBufSize /\ buffer.length = 0 /\ buffer.index = 0
      /\ buffer.after_headers_index = 0
  BY <1>1
<1>5. /\ DOMAIN parser = Parts
      /\ parser.state = "start" /\ parser.type = "" /\ parser.index = 0
      /\ parser.limit_count = 0 /\ parser.limit_max = 0
      /\ parser.content_length = 0 /\ parser.chunked = FALSE
      /\ parser.done = FALSE /\ parser.fresh = FALSE
  BY <1>1 DEF Parts
<1>6. BufferTyped(buffer)
  BY <1>3, <1>4 DEF BufferTyped
<1>7. ParserTyped(parser)
  <2>1. "start" \in States /\ "" \in Kinds /\ 0 <= MaxLimit /\ 0 \in Nat
    BY StatesNamed DEF Kinds, MaxLimit
  <2> QED BY <1>5, <2>1 DEF ParserTyped
<1>8. /\ request \in Requests /\ sent = 0 /\ edge \in BOOLEAN /\ keepAlive \in BOOLEAN
      /\ memused = RequestBufSize /\ reads = 0
  BY <1>1
<1>9. Types
  <2>1. Len(Stream) \in Nat
    BY <1>8, TextFits DEF Stream
  <2> DEFINE n == Len(Stream)
  <2> HIDE DEF n
  <2>2. 0 \in 0..n /\ 0 \in 0..MaxReads
    BY <1>3, <2>1 DEF n
  <2>3. sent \in 0..Len(Stream) /\ reads \in 0..MaxReads
    BY <1>8, <2>2 DEF n
  <2>4. tokens \in Seq(TokenSet)
    <3>1. tokens = <<>>
      BY <1>1
    <3> QED BY <3>1
  <2>5. memused \in Int
    BY <1>3, <1>8
  <2> QED BY <1>8, <1>2, <1>3, <1>6, <1>7, <2>3, <2>4, <2>5 DEF Types
<1>10. BufferFits(buffer, parser, pc)
  <2>1. buffer.capacity \in RequestBufSize..MaxRequestBufSize
    BY <1>3, <1>4
  <2>2. 0 <= RequestBufSize /\ 0 >= -1 /\ 0 # -1 /\ 0 <= 0
    BY <1>3
  <2> QED BY <1>1, <1>4, <2>1, <2>2 DEF BufferFits
<1>11. CountFits(buffer, parser)
  <2>1. parser.state \notin Inside /\ parser.state # "version"
    BY <1>5 DEF Inside
  <2>2. parser.limit_count = 0 /\ parser.index = 0
    BY <1>5
  <2>3. parser.limit_count <= sent /\ parser.index <= sent /\ parser.limit_count <= buffer.index
    BY <1>4, <1>8, <2>2
  <2> QED BY <2>1, <2>3 DEF CountFits
<1>12. ReadsPay(parser, reads)
  <2>1. ASSUME NEW k \in 0..(MaxReads - 1), k = 0 \/ k <= 0 PROVE 0 >= k
    <3>1. k \in Int /\ 0 <= k /\ (k = 0 \/ k <= 0)
      BY <1>3, <2>1
    <3> QED BY <3>1
  <2>2. parser.limit_count - parser.limit_max = 0
    <3>1. parser.limit_count = 0 /\ parser.limit_max = 0
      BY <1>5
    <3> QED BY <3>1
  <2> QED BY <1>8, <1>5, <2>1, <2>2 DEF ReadsPay
<1>13. MemFits(buffer, parser, memused, pc)
  BY <1>8, <1>2, <1>3, <1>4 DEF MemFits
<1>14. OutFits /\ ResponseExact
  <2>1. response = NoResponse /\ out = R!GrwInit
    BY <1>1
  <2> QED BY <1>2, <2>1, Zenon DEF OutFits, ResponseExact
<1>15. \A i \in DOMAIN tokens : TokenFits(tokens[i], sent, reads)
  <2>1. DOMAIN tokens = {}
    <3>1. tokens = <<>>
      BY <1>1
    <3> QED BY <3>1
  <2> QED BY <2>1
<1>16. parser.limit_count <= sent
  <2>1. parser.limit_count = 0
    BY <1>5
  <2> QED BY <1>8, <2>1
<1> QED BY <1>9, <1>10, <1>11, <1>12, <1>13, <1>14, <1>15, <1>16 DEF IInv

(* A step of the parser that pushes no token.                              *)
LEMMA KeptTokens ==
  ASSUME IInv, InHead, UNCHANGED <<sent, tokens, reads>> PROVE Tokened'
<1>1. pc \notin Ended
  BY HeadStep
<1>2. Tokened
  BY <1>1, Before
<1> QED BY <1>2 DEF Tokened

(* Nothing changes.                                                        *)
LEMMA StutterKeeps == ASSUME IInv, UNCHANGED vars PROVE IInv'
<1>1. /\ UNCHANGED <<pc, request, sent, edge, buffer, parser, tokens, memused, reads>>
      /\ UNCHANGED <<response, keepAlive, out>>
  BY DEF vars, parserVars
<1>2. Types'
  <2>1. Types /\ Stream' = Stream
    BY <1>1 DEF IInv, Stream
  <2> QED BY <1>1, <2>1 DEF Types, BufferTyped, ParserTyped
<1>3. /\ (pc \notin Ended => BufferFits(buffer, parser, pc))'
      /\ (pc \notin Ended => CountFits(buffer, parser))'
  BY <1>1 DEF IInv, BufferFits, CountFits
<1>4. /\ (parser.limit_count <= sent)' /\ ReadsPay(parser, reads)'
      /\ (\A i \in DOMAIN tokens : TokenFits(tokens[i], sent, reads))'
      /\ MemFits(buffer, parser, memused, pc)'
  BY <1>1 DEF IInv, ReadsPay, MemFits
<1>5. OutFits'
  BY <1>1 DEF IInv, OutFits
<1>6. ResponseExact'
  <2>1. ResponseExact
    BY DEF IInv
  <2>2. HeadLen(response)' = HeadLen(response)
    BY <1>1 DEF HeadLen
  <2>3. R!SentBytes(out)' = R!SentBytes(out)
    BY <1>1 DEF R!SentBytes, R!Copies
  <2>4. (Exactly[response][keepAlive])' = Exactly[response][keepAlive] /\ out' = out /\ pc' = pc
    BY <1>1
  <2> QED BY <2>1, <2>2, <2>3, <2>4 DEF ResponseExact
<1> QED BY <1>2, <1>3, <1>4, <1>5, <1>6 DEF IInv

(* A parser that goes on is one whose sequence_id is not the buffer's.     *)
LEMMA AfterIsFresh ==
  ASSUME IInv, InHead, NEW r \in Apply
  PROVE  After(r) = [After(r) EXCEPT !.fresh = TRUE]
<1> DEFINE p == After(r)
<1>1. DOMAIN p = Parts /\ p.fresh = TRUE
  BY AfterFits DEF ParserTyped
<1>2. p = [x \in DOMAIN p |-> p[x]]
  BY DEF After
<1> HIDE DEF p
<1>3. "fresh" \in DOMAIN p
  BY <1>1 DEF Parts
<1>4. p = [p EXCEPT !.fresh = TRUE]
  BY <1>1, <1>2, <1>3
<1> QED BY <1>4 DEF p

(* Every step keeps the invariant.                                         *)
LEMMA NextKeeps == IInv /\ [Next]_vars => IInv'
<1> SUFFICES ASSUME IInv, [Next]_vars PROVE IInv'
  OBVIOUS
<1>1. CASE UNCHANGED vars
  BY <1>1, StutterKeeps
<1>2. ASSUME Arrive, UNCHANGED <<response, keepAlive, out>> PROVE IInv'
  <2>1. /\ pc \in {"wait", "read"} /\ sent < Len(Stream) /\ sent' = sent + 1 /\ edge' = TRUE
        /\ UNCHANGED <<pc, request, buffer, parser, tokens, memused, reads>>
    BY <1>2 DEF Arrive
  <2>2. /\ pc \notin Ended /\ pc # "closed" /\ buffer.index # -1 /\ sent \in 0..Len(Stream)
        /\ edge \in BOOLEAN /\ sent <= Len(Stream)
    <3>1. pc \in {"wait", "read", "handled"}
      BY <2>1
    <3>2. pc \in {"wait", "read", "handled"} \/ (pc = "exec" /\ ~Fresh)
      BY <3>1
    <3> QED BY <3>2, IndexFits, Zenon
  <2>3. Len(Stream) \in Nat /\ pc \in PCs
    BY <2>2, Before
  <2>4. sent' <= Len(Stream)
    BY <2>1, <2>2, <2>3
  <2> QED BY <1>2, <2>1, <2>2, <2>3, <2>4, UnmovedKeeps
<1>3. ASSUME Event, UNCHANGED <<response, keepAlive, out>> PROVE IInv'
  <2>1. /\ pc = "wait" /\ edge' = FALSE /\ pc' \in {"read", "exec"}
        /\ UNCHANGED <<request, sent, buffer, parser, tokens, memused, reads>>
    BY <1>3 DEF Event
  <2>2. pc' \in PCs /\ pc' \notin Ended /\ pc' # "closed"
    BY <2>1 DEF PCs, Ended
  <2>3. /\ pc \notin Ended /\ pc # "closed" /\ buffer.index # -1 /\ sent \in 0..Len(Stream)
        /\ edge \in BOOLEAN /\ sent <= Len(Stream)
    <3>1. pc \in {"wait", "read", "handled"}
      BY <2>1
    <3>2. pc \in {"wait", "read", "handled"} \/ (pc = "exec" /\ ~Fresh)
      BY <3>1
    <3> QED BY <3>2, IndexFits, Zenon
  <2>4. sent' \in {sent, sent + 1} /\ sent' <= Len(Stream) /\ edge' \in BOOLEAN
    BY <2>1, <2>3
  <2> QED BY <1>3, <2>1, <2>2, <2>3, <2>4, UnmovedKeeps
<1>4. ASSUME ReadSome \/ ReadNothing, UNCHANGED <<response, keepAlive, out>> PROVE IInv'
  BY <1>4, ReadSomeKeeps, ReadNothingKeeps
<1>5. ASSUME ReadFull \/ Expire, UNCHANGED <<response, keepAlive, out>> PROVE IInv'
  <2>1. /\ pc \in {"wait", "read"} /\ pc' = "closed" /\ memused' = memused - buffer.capacity
        /\ UNCHANGED <<request, sent, edge, buffer, parser, tokens, reads>>
    BY <1>5 DEF ReadFull, Expire
  <2> QED BY <1>5, <2>1, ClosedKeeps
<1>6. ASSUME NotFresh, UNCHANGED <<response, keepAlive, out>> PROVE IInv'
  <2>1. /\ pc = "exec" /\ ~Fresh /\ pc' = "wait"
        /\ UNCHANGED <<request, sent, edge, buffer, parser, tokens, memused, reads>>
    BY <1>6 DEF NotFresh
  <2>2. pc' \in PCs /\ pc' \notin Ended /\ pc' # "closed"
    BY <2>1 DEF PCs, Ended
  <2> QED BY <1>6, <2>1, <2>2, IndexFits, UnmovedKeeps
<1>7. ASSUME NoMore, UNCHANGED <<response, keepAlive, out>> PROVE IInv'
  <2> DEFINE i == buffer.index
  <2>1. /\ pc = "exec" /\ Fresh /\ Stop(parser.state, i)
        /\ i = buffer.length \/ parser.state = "error"
    BY <1>7 DEF NoMore
  <2>2. pc \notin Ended
    BY <2>1 DEF Ended
  <2>3. BufferTyped(buffer) /\ BufferFits(buffer, parser, pc) /\ ParserTyped(parser)
    BY <2>2, Before DEF Reads
  <2>4. i \in Int /\ buffer.length \in Nat /\ buffer.after_headers_index \in Nat /\ parser.state \in States
    BY <2>3 DEF BufferTyped, ParserTyped
  <2>5. /\ i >= -1 /\ i <= buffer.length
        /\ i = -1 => parser.state = "body"
        /\ i # -1 => buffer.after_headers_index <= i
    BY <2>3 DEF BufferFits
  <2>6. i # -1
    BY <2>1, <2>4, <2>5
  <2>7. i \in Nat /\ i <= buffer.length /\ buffer.after_headers_index <= i
    BY <2>4, <2>5, <2>6
  <2> QED BY <1>7, <2>1, <2>4, <2>7, StopKeeps
<1>8. ASSUME Refuse, UNCHANGED <<response, keepAlive, out>> PROVE IInv'
  <2> DEFINE i == buffer.index + 1
  <2>1. InHead /\ Stop("error", i) /\ pc = "exec" /\ Fresh
    BY <1>8 DEF Refuse, InHead, Parses
  <2>2. /\ parser.state # "body" /\ BufferTyped(buffer) /\ BufferFits(buffer, parser, pc)
        /\ buffer.index \in Nat /\ i <= buffer.length
    BY <2>1, HeadStep
  <2>3. buffer.after_headers_index \in Nat /\ buffer.after_headers_index <= buffer.index
    <3>1. buffer.index # -1
      BY <2>2
    <3> QED BY <2>2, <3>1 DEF BufferTyped, BufferFits
  <2>4. i \in Nat /\ buffer.after_headers_index <= i
    BY <2>2, <2>3
  <2>5. "error" \in States
    BY DEF States
  <2> QED BY <1>8, <2>1, <2>2, <2>4, <2>5, StopKeeps
<1>9. ASSUME OverLimit, UNCHANGED <<response, keepAlive, out>> PROVE IInv'
  <2>1. /\ InHead /\ buffer' = [buffer EXCEPT !.index = @ + 1] /\ pc' = "wait"
        /\ UNCHANGED <<request, sent, edge, tokens, memused, reads>>
    BY <1>9 DEF OverLimit
  <2>2. PICK r \in Apply : parser' = [After(r) EXCEPT !.fresh = FALSE]
    BY <1>9 DEF OverLimit
  <2>3. Tokened'
    BY <2>1, KeptTokens
  <2>4. FALSE \in BOOLEAN /\ ~FALSE
    OBVIOUS
  <2> QED BY <1>9, <2>1, <2>2, <2>3, <2>4, RuleKeeps
<1>10. ASSUME Advance, UNCHANGED <<response, keepAlive, out>> PROVE IInv'
  <2>1. /\ InHead /\ buffer' = [buffer EXCEPT !.index = @ + 1]
        /\ UNCHANGED <<pc, request, sent, edge, tokens, memused, reads>>
    BY <1>10 DEF Advance
  <2>2. PICK r \in Apply : ~TooLong(After(r), r) /\ parser' = After(r)
    BY <1>10 DEF Advance
  <2>3. parser' = [After(r) EXCEPT !.fresh = TRUE] /\ TRUE \in BOOLEAN
    BY <2>1, <2>2, AfterIsFresh
  <2>4. Tokened'
    BY <2>1, KeptTokens
  <2>5. pc' = "exec"
    BY <2>1 DEF InHead, Parses
  <2> QED BY <1>10, <2>1, <2>2, <2>3, <2>4, <2>5, RuleKeeps
<1>11. ASSUME TokenReady, UNCHANGED <<response, keepAlive, out>> PROVE IInv'
  <2>1. /\ InHead /\ buffer' = [buffer EXCEPT !.index = @ + 1]
        /\ UNCHANGED <<pc, request, sent, edge, memused, reads>>
    BY <1>11 DEF TokenReady
  <2>2. PICK r \in Apply :
          /\ ~TooLong(After(r), r) /\ "ready" \in r.does /\ parser' = After(r)
          /\ tokens' = Append(tokens, [type |-> After(r).type, index |-> After(r).index,
                                       len |-> buffer.index - After(r).index])
    BY <1>11 DEF TokenReady
  <2>3. parser' = [After(r) EXCEPT !.fresh = TRUE] /\ TRUE \in BOOLEAN
    BY <2>1, <2>2, AfterIsFresh
  <2>4. Tokened'
    <3> DEFINE t == [type |-> After(r).type, index |-> After(r).index,
                     len |-> buffer.index - After(r).index]
    <3>1. t \in TokenSet /\ TokenFits(t, sent, reads)
      BY <2>1, <2>2, ReadyFits
    <3>2. tokens' = Append(tokens, t)
      BY <2>2
    <3> HIDE DEF t
    <3> QED BY <2>1, <3>1, <3>2, TokenPushed DEF Tokened
  <2>5. pc' = "exec"
    BY <2>1 DEF InHead, Parses
  <2> QED BY <1>11, <2>1, <2>2, <2>3, <2>4, <2>5, RuleKeeps
<1>12. ASSUME HeadersDone \/ Body, UNCHANGED <<response, keepAlive, out>> PROVE IInv'
  BY <1>12, HeadersDoneKeeps, BodyKeeps
<1>13. CASE Respond \/ Written
  BY <1>13, RespondKeeps, WrittenKeeps
<1>14. CASE RespondCrashes
  <2>1. /\ pc = "handled" /\ pc' = "crashed"
        /\ UNCHANGED <<request, sent, edge, buffer, parser, tokens, memused, reads, response,
                       keepAlive, out>>
    BY <1>14 DEF RespondCrashes
  <2>2. pc' \in PCs /\ pc' \notin Ended /\ pc' # "closed"
    BY <2>1 DEF PCs, Ended
  <2>3. /\ pc \notin Ended /\ pc # "closed" /\ buffer.index # -1 /\ sent \in 0..Len(Stream)
        /\ edge \in BOOLEAN /\ sent <= Len(Stream)
    <3>1. pc \in {"wait", "read", "handled"}
      BY <2>1
    <3>2. pc \in {"wait", "read", "handled"} \/ (pc = "exec" /\ ~Fresh)
      BY <3>1
    <3> QED BY <3>2, IndexFits, Zenon
  <2>4. sent' \in {sent, sent + 1} /\ sent' <= Len(Stream) /\ edge' \in BOOLEAN
    BY <2>1, <2>3
  <2> QED BY <2>1, <2>2, <2>3, <2>4, UnmovedKeeps
<1>15. CASE Next
  <2>1. ASSUME Serve, UNCHANGED <<response, keepAlive, out>> PROVE IInv'
    BY <2>1, <1>3, <1>4, <1>5, <1>6, <1>7, <1>8, <1>9, <1>10, <1>11, <1>12 DEF Serve, Exec
  <2> QED BY <1>15, <2>1, <1>2, <1>5, <1>13, <1>14 DEF Next, Server, Reading
<1> QED BY <1>1, <1>15

(* The invariant contains the types.                                       *)
LEMMA IInvTypeOK == IInv => TypeOK
<1> SUFFICES ASSUME IInv PROVE TypeOK
  OBVIOUS
<1>1. Types /\ OutFits /\ parser.limit_count <= sent
  BY DEF IInv
<1>2. BufferTyped(buffer) /\ ParserTyped(parser) /\ tokens \in Seq(TokenSet) /\ sent \in 0..Len(Stream)
  BY <1>1 DEF Types
<1>3. Len(Stream) \in Nat
  BY <1>1, TextFits DEF Types, Stream
<1>4. sent \in Nat
  BY <1>2, <1>3
<1>5. ASSUME pc \notin Ended
      PROVE  /\ buffer.capacity \in RequestBufSize..MaxRequestBufSize
             /\ buffer.length \in 0..buffer.capacity /\ buffer.length <= sent
             /\ buffer.index \in (-1)..buffer.length
             /\ IF buffer.index = -1 THEN pc = "exec" /\ parser.state = "body"
                ELSE buffer.after_headers_index \in 0..buffer.index
  <2>1. BufferFits(buffer, parser, pc)
    BY <1>5 DEF IInv
  <2> DEFINE len == buffer.length
             i == buffer.index
             cap == buffer.capacity
             after == buffer.after_headers_index
  <2>2. len \in Nat /\ i \in Int /\ cap \in Nat /\ after \in Nat
    BY <1>2 DEF BufferTyped
  <2>3. /\ cap \in RequestBufSize..MaxRequestBufSize /\ len <= cap /\ len <= sent
        /\ i >= -1 /\ i <= len
        /\ i = -1 => pc = "exec" /\ parser.state = "body"
        /\ i # -1 => after <= i
    BY <2>1 DEF BufferFits
  <2> HIDE DEF len, i, cap, after
  <2>4. len \in 0..cap /\ i \in (-1)..len /\ (i # -1 => after \in 0..i)
    BY <2>2, <2>3
  <2> QED BY <2>3, <2>4 DEF len, i, cap, after
<1>6. parser.limit_count \in 0..(sent + 1)
  <2> DEFINE x == parser.limit_count
  <2>1. x \in Nat /\ x <= sent
    BY <1>1, <1>2 DEF ParserTyped
  <2> HIDE DEF x
  <2>2. x \in 0..(sent + 1)
    BY <1>4, <2>1
  <2> QED BY <2>2 DEF x
<1>7. ASSUME NEW j \in DOMAIN tokens PROVE tokens[j].index \in 0..sent /\ tokens[j].len \in Nat
  <2>1. TokenFits(tokens[j], sent, reads)
    BY DEF IInv
  <2> DEFINE t == tokens[j]
  <2>2. t \in TokenSet
    <3>1. DOMAIN tokens = 1..Len(tokens)
      BY <1>2, LenProperties
    <3> QED BY <1>2, <1>7, <3>1, ElementOfSeq
  <2>3. t.index <= sent
    BY <2>1 DEF TokenFits
  <2> HIDE DEF t
  <2>4. t.index \in 0..sent /\ t.len \in Nat
    BY <1>4, <2>2, <2>3 DEF TokenSet
  <2> QED BY <2>4 DEF t
<1>8. ParserTypeOK
  <2>1. /\ parser.state \in States /\ parser.type \in TokenTypes \cup {"", "HEADERS_DONE", "BODY"}
        /\ parser.content_length \in Nat /\ parser.limit_max \in Nat /\ parser.limit_max <= MaxLimit
        /\ parser.fresh \in BOOLEAN /\ parser.chunked \in BOOLEAN /\ parser.done \in BOOLEAN
    BY <1>2 DEF ParserTyped, Kinds
  <2>2. /\ pc \in {"wait", "read", "exec", "handled", "crashed", "closed"} \cup Ended
        /\ request \in Requests /\ edge \in BOOLEAN /\ reads \in 0..MaxReads /\ memused \in Int
    BY <1>1 DEF Types, PCs
  <2> QED BY <1>2, <1>5, <1>6, <1>7, <2>1, <2>2 DEF ParserTypeOK
<1>9. out.size \in Nat /\ out.overrun \in BOOLEAN
  <2>1. out \in Out
    BY <1>1, GrwInitFits DEF OutFits, Bounded
  <2> QED BY <2>1 DEF Out
<1>10. keepAlive \in BOOLEAN
  BY <1>1 DEF Types
<1> QED BY <1>1, <1>8, <1>9, <1>10 DEF TypeOK, OutFits

-----------------------------------------------------------------------------
(* The theorems.                                                           *)

(* The invariant holds from the accepted connection on.                    *)
LEMMA Invariance == Spec => []IInv
BY InitFits, NextKeeps, PTL DEF Spec

(* A position of the read buffer or of a token never lies behind what has  *)
(* arrived or what is allocated, whatever a client sends, in whatever      *)
(* pieces, and however often the buffer is grown; the one that is not kept *)
(* within it, of a buffer moved for a body, is set again before its use.   *)
THEOREM TypeCorrect == Spec => []TypeOK
BY Invariance, IInvTypeOK, PTL

(* The limits of the tokens, of any values, are enforced once a read only: *)
(* a token that is pushed and longer than its limit has taken a read for   *)
(* every symbol it is too long by, and one more.                           *)
THEOREM OverlongCostsReads == Spec => []OverlongTrickles
<1>1. IInv => OverlongTrickles
  BY DEF IInv, TokenFits, OverlongTrickles
<1> QED BY <1>1, Invariance, PTL

(* Whatever the pieces of a response, and of a body of any length: if the  *)
(* head is shorter than the first buffer, the bytes that are sent are the  *)
(* status line, the headers and the body, in this order, and no others.    *)
THEOREM ResponseIsExact == Spec => []ResponseExact
<1>1. IInv => ResponseExact
  BY DEF IInv
<1> QED BY <1>1, Invariance, PTL

(* Through growth, response and end, memused says of a connection what is  *)
(* allocated for it, but for the room that was made for a body.            *)
THEOREM MemoryOnlyUnderestimated == Spec => []MemUnderestimates
<1>1. IInv => MemUnderestimates
  <2> SUFFICES ASSUME IInv PROVE MemUnderestimates
    OBVIOUS
  <2> DEFINE a == IF pc \in {"closed", "kept", "ended"} THEN 0 ELSE buffer.capacity
             room == buffer.after_headers_index + parser.content_length
  <2>1. /\ memused <= a
        /\ memused < a => parser.state = "body" /\ a - memused <= room - RequestBufSize
    <3>1. MemFits(buffer, parser, memused, pc)
      BY DEF IInv
    <3>2. memused <= a /\ (memused < a => parser.state = "body")
      BY <3>1, Zenon DEF MemFits
    <3> DEFINE most == buffer.after_headers_index + (parser.content_length - RequestBufSize)
    <3>3. memused < a => a - memused <= most
      BY <3>1, Zenon DEF MemFits
    <3>4. most = room - RequestBufSize
      <4>1. /\ buffer.after_headers_index \in Nat /\ parser.content_length \in Nat
            /\ RequestBufSize \in Nat
        BY BufSizeAssumption DEF IInv, Types, BufferTyped, ParserTyped
      <4> QED BY <4>1
    <3> HIDE DEF most
    <3> QED BY <3>2, <3>3, <3>4, Zenon
  <2>2. (/\ memused <= a
         /\ memused < a => parser.state = "body" /\ a - memused <= room - RequestBufSize)
        => MemUnderestimates
    BY Zenon DEF MemUnderestimates
  <2> QED BY <2>1, <2>2
<1> QED BY <1>1, Invariance, PTL
=============================================================================
