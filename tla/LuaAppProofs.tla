---------------------------- MODULE LuaAppProofs ----------------------------
(***************************************************************************)
(* Proofs about the Lua glue, for any files, targets, Lua programs and     *)
(* number of requests: what is on the Lua stack when, and that what is     *)
(* sent is what the callback of this request left.                         *)
(*                                                                         *)
(* The invariant says of every index of the stack what is there: first the *)
(* responses that failed callbacks left, then what the current request has *)
(* pushed, which is read by indices from the top.                          *)
(***************************************************************************)
EXTENDS LuaApp, SequenceTheorems, FiniteSetTheorems, TLAPS

Item == [is : TableOf \cup {"callback", "headers", "key"}, k : 1..MaxRequests]
HeaderName == {"text", "content-type"}
Header == [name : HeaderName, key : Ptr, val : Ptr]

(* How many headers of a reply, and entries of a table, have a name.       *)
Named(r, n) == Cardinality({i \in DOMAIN r.headers : r.headers[i].name = n})
Keyed(es, n) == Cardinality({e \in es : e.key = n})

(* A text that Lua holds is still there.                                   *)
Alive(p) == p.to = "held" => p.live
AllAlive(r) ==
  Alive(r.body) /\ \A i \in DOMAIN r.headers : Alive(r.headers[i].key) /\ Alive(r.headers[i].val)

-----------------------------------------------------------------------------
(* The stack.                                                              *)

(* A pop leaves what is below.                                             *)
LEMMA Popped ==
  ASSUME NEW S, NEW s \in Seq(S), NEW n \in 0..Len(s)
  PROVE  LET t == SubSeq(s, 1, Len(s) - n)
         IN  t \in Seq(S) /\ Len(t) = Len(s) - n /\ \A i \in 1..Len(s) - n : t[i] = s[i]
<1>1. Len(s) \in Nat /\ \A i \in 1..Len(s) : s[i] \in S
  BY LenProperties, ElementOfSeq
<1>2. Len(s) - n \in Nat /\ \A i \in 1..Len(s) - n : s[i] \in S
  BY <1>1
<1> DEFINE m == Len(s) - n
<1> HIDE DEF m
<1>3. m \in Nat /\ \A i \in 1..m : s[i] \in S
  BY <1>2 DEF m
<1>4. SubSeq(s, 1, m) \in Seq(S) /\ Len(SubSeq(s, 1, m)) = m
      /\ \A i \in 1..m : SubSeq(s, 1, m)[i] = s[i]
  <2>1. /\ SubSeq(s, 1, m) \in Seq(S)
        /\ Len(SubSeq(s, 1, m)) = IF 1 <= m THEN m - 1 + 1 ELSE 0
        /\ \A i \in 1..m - 1 + 1 : SubSeq(s, 1, m)[i] = s[1 + i - 1]
    BY <1>3, SubSeqProperties
  <2> QED BY <1>3, <2>1
<1> QED BY <1>4 DEF m

(* What two pushes put on top.                                             *)
LEMMA PushedTwo ==
  ASSUME NEW S, NEW s \in Seq(S), NEW a \in S, NEW b \in S
  PROVE  LET t == s \o <<a, b>>
         IN  /\ t \in Seq(S) /\ Len(t) = Len(s) + 2
             /\ \A i \in 1..Len(s) : t[i] = s[i]
             /\ t[Len(s) + 1] = a /\ t[Len(s) + 2] = b
<1>1. <<a, b>> \in Seq(S) /\ Len(<<a, b>>) = 2 /\ <<a, b>>[1] = a /\ <<a, b>>[2] = b
  OBVIOUS
<1>2. Len(s) \in Nat
  BY LenProperties
<1> QED BY <1>1, <1>2, ConcatProperties

(* What the four pushes of luaapp_process_http put there.                  *)
LEMMA PushedFour ==
  ASSUME NEW S, NEW s \in Seq(S), NEW a \in S, NEW b \in S, NEW c \in S
  PROVE  LET u == s \o <<a, b, c>>
             t == Append(u, u[Len(u) - 2])
         IN  /\ t \in Seq(S) /\ Len(t) = Len(s) + 4
             /\ \A i \in 1..Len(s) : t[i] = s[i]
             /\ t[Len(s) + 1] = a /\ t[Len(s) + 2] = b /\ t[Len(s) + 3] = c /\ t[Len(s) + 4] = a
<1>1. /\ <<a, b, c>> \in Seq(S) /\ Len(<<a, b, c>>) = 3
      /\ <<a, b, c>>[1] = a /\ <<a, b, c>>[2] = b /\ <<a, b, c>>[3] = c
  OBVIOUS
<1> DEFINE u == s \o <<a, b, c>>
<1>2. Len(s) \in Nat
  BY LenProperties
<1>3. /\ u \in Seq(S) /\ Len(u) = Len(s) + 3 /\ \A i \in 1..Len(s) : u[i] = s[i]
      /\ u[Len(s) + 1] = a /\ u[Len(s) + 2] = b /\ u[Len(s) + 3] = c
  BY <1>1, <1>2, ConcatProperties
<1> HIDE DEF u
<1>4. u[Len(u) - 2] = a
  BY <1>2, <1>3
<1>5. /\ Append(u, a) \in Seq(S) /\ Len(Append(u, a)) = Len(u) + 1
      /\ \A i \in 1..Len(u) : Append(u, a)[i] = u[i]
      /\ Append(u, a)[Len(u) + 1] = a
  BY <1>3, AppendProperties
<1>6. /\ Append(u, a) \in Seq(S) /\ Len(Append(u, a)) = Len(s) + 4
      /\ \A i \in 1..Len(s) : Append(u, a)[i] = s[i]
      /\ Append(u, a)[Len(s) + 1] = a /\ Append(u, a)[Len(s) + 2] = b
      /\ Append(u, a)[Len(s) + 3] = c /\ Append(u, a)[Len(s) + 4] = a
  BY <1>2, <1>3, <1>5
<1> QED BY <1>4, <1>6 DEF u

-----------------------------------------------------------------------------
(* The reply.                                                              *)

(* The fields of a reply.                                                  *)
LEMMA ReplyFields ==
  ASSUME NEW r \in Reply
  PROVE  /\ r.code \in 100..599 /\ r.body \in Ptr /\ r.headers \in Seq(Header)
         /\ Len(r.headers) \in Nat /\ DOMAIN r.headers = 1..Len(r.headers)
         /\ r.headers \in [1..Len(r.headers) -> Header]
<1>1. r.code \in 100..599 /\ r.body \in Ptr /\ r.headers \in Seq(Header)
  BY DEF Reply, Header, HeaderName
<1> QED BY <1>1, LenProperties

(* The collector leaves the shape of a reply, and the texts that are held  *)
(* by an object on the stack: of one pointer,                              *)
LEMMA SweptPointer ==
  ASSUME NEW p \in Ptr, NEW held \in BOOLEAN
  PROVE  /\ Swept(p, held) \in Ptr /\ Swept(p, held).to = p.to
         /\ held /\ Alive(p) => Alive(Swept(p, held))
<1> DEFINE v == p.live /\ (p.to = "literal" \/ (p.to = "held" /\ held))
<1>1. v \in BOOLEAN /\ p.to \in {"literal", "held", "converted"} /\ p.live \in BOOLEAN
  BY DEF Ptr
<1>2. Swept(p, held) = [p EXCEPT !.live = v]
  BY DEF Swept
<1>3. held /\ Alive(p) /\ p.to = "held" => v
  BY DEF Alive
<1> HIDE DEF v
<1>4. Swept(p, held) \in Ptr /\ Swept(p, held).to = p.to /\ Swept(p, held).live = v
  BY <1>1, <1>2 DEF Ptr
<1> QED BY <1>3, <1>4 DEF Alive

(* and of them all.                                                        *)
LEMMA SweptKeeps ==
  ASSUME NEW r \in Reply, NEW held \in BOOLEAN
  PROVE  LET q == SweptReply(r, held)
         IN  /\ q \in Reply /\ q.code = r.code /\ q.body.to = r.body.to
             /\ DOMAIN q.headers = DOMAIN r.headers
             /\ \A n \in HeaderName : Named(q, n) = Named(r, n)
             /\ held /\ AllAlive(r) => AllAlive(q)
<1> DEFINE hs == [i \in DOMAIN r.headers |-> SweptHeader(r.headers[i], held)]
           b == Swept(r.body, held)
           q == SweptReply(r, held)
           N == Len(r.headers)
<1>1. /\ r.code \in 100..599 /\ r.body \in Ptr /\ N \in Nat /\ DOMAIN r.headers = 1..N
      /\ r.headers \in [1..N -> Header]
  BY ReplyFields
<1>2. ASSUME NEW i \in 1..N
      PROVE  /\ hs[i] \in Header /\ hs[i].name = r.headers[i].name
             /\ hs[i].key = Swept(r.headers[i].key, held)
             /\ hs[i].val = Swept(r.headers[i].val, held)
             /\ r.headers[i].key \in Ptr /\ r.headers[i].val \in Ptr
  <2> DEFINE h == r.headers[i]
             k == Swept(h.key, held)
             v == Swept(h.val, held)
  <2>1. h \in Header
    BY <1>1
  <2>2. h.key \in Ptr /\ h.val \in Ptr
    BY <2>1 DEF Header
  <2>3. k \in Ptr /\ v \in Ptr
    BY <2>2, SweptPointer
  <2>4. hs[i] = [h EXCEPT !.key = k, !.val = v]
    BY <1>1 DEF SweptHeader
  <2> HIDE DEF h, k, v, hs
  <2>5. hs[i] \in Header /\ hs[i].name = h.name /\ hs[i].key = k /\ hs[i].val = v
    BY <2>1, <2>3, <2>4 DEF Header
  <2> QED BY <2>2, <2>5 DEF h, k, v
<1>3. hs \in [1..N -> Header] /\ DOMAIN hs = 1..N
  BY <1>1, <1>2
<1>4. hs \in Seq(Header)
  <2> HIDE DEF hs
  <2> QED BY <1>1, <1>3, SeqDef
<1>5. b \in Ptr /\ b.to = r.body.to /\ (held /\ Alive(r.body) => Alive(b))
  BY <1>1, SweptPointer
<1>6. q = [r EXCEPT !.body = b, !.headers = hs]
  BY DEF SweptReply
<1> HIDE DEF hs, b, q
<1>7. q \in Reply /\ q.code = r.code /\ q.body = b /\ q.headers = hs
  BY <1>1, <1>4, <1>5, <1>6 DEF Reply, Header, HeaderName
<1>8. ASSUME NEW n \in HeaderName PROVE Named(q, n) = Named(r, n)
  <2>1. {i \in DOMAIN hs : hs[i].name = n} = {i \in DOMAIN r.headers : r.headers[i].name = n}
    BY <1>1, <1>2, <1>3
  <2> QED BY <1>7, <2>1 DEF Named
<1>9. ASSUME held, AllAlive(r) PROVE AllAlive(q)
  <2>1. ASSUME NEW i \in 1..N PROVE Alive(hs[i].key) /\ Alive(hs[i].val)
    BY <1>1, <1>2, <1>9, SweptPointer DEF AllAlive
  <2>2. Alive(b)
    BY <1>5, <1>9 DEF AllAlive
  <2> QED BY <1>3, <1>7, <2>1, <2>2 DEF AllAlive
<1>10. DOMAIN q.headers = DOMAIN r.headers
  BY <1>1, <1>3, <1>7
<1> QED BY <1>5, <1>7, <1>8, <1>9, <1>10 DEF q

(* Another header counts under its own name.                               *)
LEMMA HeaderAdded ==
  ASSUME NEW r \in Reply, NEW m \in HeaderName, NEW p \in Ptr, NEW q \in Ptr
  PROVE  LET a == AddHeader(r, m, p, q)
         IN  /\ a \in Reply /\ a.code = r.code /\ a.body = r.body
             /\ \A n \in HeaderName : Named(a, n) = IF n = m THEN Named(r, n) + 1 ELSE Named(r, n)
             /\ AllAlive(r) /\ Alive(p) /\ Alive(q) => AllAlive(a)
<1> DEFINE h == [name |-> m, key |-> p, val |-> q]
           hs == Append(r.headers, h)
           N == Len(r.headers)
           a == AddHeader(r, m, p, q)
<1>1. /\ r.code \in 100..599 /\ r.body \in Ptr /\ N \in Nat /\ DOMAIN r.headers = 1..N
      /\ r.headers \in Seq(Header)
  BY ReplyFields
<1>2. h \in Header /\ h.name = m /\ h.key = p /\ h.val = q
  BY DEF Header
<1> HIDE DEF h
<1>3. /\ hs \in Seq(Header) /\ Len(hs) = N + 1 /\ hs[N + 1] = h
      /\ \A i \in 1..N : hs[i] = r.headers[i]
  BY <1>1, <1>2, AppendProperties
<1>4. DOMAIN hs = 1..N + 1
  BY <1>3, LenProperties
<1>5. a = [r EXCEPT !.headers = hs]
  BY DEF AddHeader, h
<1> HIDE DEF hs, a
<1>6. a \in Reply /\ a.code = r.code /\ a.body = r.body /\ a.headers = hs
  BY <1>1, <1>3, <1>5 DEF Reply, Header, HeaderName
<1>7. ASSUME NEW n \in HeaderName
      PROVE  Named(a, n) = IF n = m THEN Named(r, n) + 1 ELSE Named(r, n)
  <2> DEFINE I == {i \in DOMAIN r.headers : r.headers[i].name = n}
  <2>1. IsFiniteSet(I) /\ N + 1 \notin I
    <3>1. IsFiniteSet(1..N) /\ I \subseteq 1..N
      BY <1>1, FS_Interval
    <3> QED BY <1>1, <3>1, FS_Subset
  <2>2. {i \in DOMAIN hs : hs[i].name = n} = IF n = m THEN I \cup {N + 1} ELSE I
    <3>1. \A i \in 1..N : hs[i].name = r.headers[i].name
      BY <1>3
    <3>2. hs[N + 1].name = m
      BY <1>2, <1>3
    <3>3. 1..N + 1 = (1..N) \cup {N + 1}
      BY <1>1
    <3> QED BY <1>1, <1>4, <3>1, <3>2, <3>3
  <2>3. Cardinality(I \cup {N + 1}) = Cardinality(I) + 1
    BY <2>1, FS_AddElement
  <2> QED BY <1>6, <2>2, <2>3 DEF Named
<1>8. ASSUME AllAlive(r), Alive(p), Alive(q) PROVE AllAlive(a)
  <2>1. ASSUME NEW i \in 1..N + 1 PROVE Alive(hs[i].key) /\ Alive(hs[i].val)
    <3>1. CASE i \in 1..N
      BY <1>1, <1>3, <1>8, <3>1 DEF AllAlive
    <3>2. CASE i = N + 1
      BY <1>2, <1>3, <1>8, <3>2
    <3> QED BY <1>1, <3>1, <3>2
  <2> QED BY <1>4, <1>6, <1>8, <2>1 DEF AllAlive
<1> QED BY <1>6, <1>7, <1>8 DEF a

(* The reply that is filled starts empty.                                  *)
LEMMA EmptyFits ==
  /\ EmptyReply \in Reply /\ EmptyReply.headers = <<>> /\ AllAlive(EmptyReply)
  /\ Literal \in Ptr /\ Alive(Literal)
  /\ \A n : Named(EmptyReply, n) = 0
<1>1. Literal \in Ptr /\ Literal.to = "literal"
  BY DEF Literal, Ptr
<1>2. <<>> \in Seq(Header) /\ DOMAIN <<>> = {}
  OBVIOUS
<1>3. EmptyReply.headers = <<>> /\ EmptyReply.body = Literal /\ EmptyReply.code = 200
  BY DEF EmptyReply
<1>4. EmptyReply \in Reply
  BY <1>1, <1>2 DEF EmptyReply, Reply, Header, HeaderName
<1>5. \A n : Named(EmptyReply, n) = 0
  BY <1>2, <1>3, FS_EmptySet DEF Named
<1> QED BY <1>1, <1>2, <1>3, <1>4, <1>5 DEF AllAlive, Alive

(* A pointer that is read from Lua.                                        *)
LEMMA PointerFits ==
  ASSUME NEW v
  PROVE  Pointer(v) \in Ptr /\ Alive(Pointer(v))
BY EmptyFits DEF Pointer, Ptr, Alive

(* The tables of headers are finite.                                       *)
LEMMA EntriesFinite == \A es \in SUBSET Entry : IsFiniteSet(es)
<1> DEFINE K == {"text", "content-type", "number", "other"}
           V == {"text", "number", "other"}
           f == [p \in K \X V |-> [key |-> p[1], val |-> p[2]]]
<1>1. IsFiniteSet(K) /\ IsFiniteSet(V)
  <2>1. \A x, y, z : IsFiniteSet({x, y, z})
    <3>1. \A x : IsFiniteSet({x})
      BY FS_Singleton
    <3>2. \A x, y : IsFiniteSet({x} \cup {y})
      BY <3>1, FS_AddElement
    <3>3. \A x, y, z : IsFiniteSet(({x} \cup {y}) \cup {z})
      BY <3>2, FS_AddElement
    <3>4. \A x, y, z : {x, y, z} = ({x} \cup {y}) \cup {z}
      OBVIOUS
    <3> QED BY <3>3, <3>4
  <2>2. IsFiniteSet({"text", "content-type", "number"} \cup {"other"})
    BY <2>1, FS_AddElement
  <2>3. K = {"text", "content-type", "number"} \cup {"other"}
    OBVIOUS
  <2> QED BY <2>1, <2>2, <2>3
<1>2. IsFiniteSet(K \X V)
  <2> HIDE DEF K, V
  <2> QED BY <1>1, FS_Product
<1>3. f \in Surjection(K \X V, Entry)
  <2>1. \A p \in K \X V : f[p] \in Entry
    BY DEF Entry
  <2>2. ASSUME NEW e \in Entry PROVE \E p \in K \X V : f[p] = e
    <3>1. <<e.key, e.val>> \in K \X V /\ e = [key |-> e.key, val |-> e.val]
      BY DEF Entry
    <3>2. f[<<e.key, e.val>>] = e
      BY <3>1
    <3> QED BY <3>1, <3>2
  <2> QED BY <2>1, <2>2 DEF Surjection
<1>4. IsFiniteSet(Entry)
  <2> HIDE DEF K, V, f
  <2> QED BY <1>2, <1>3, FS_Surjection
<1> QED BY <1>4, FS_Subset

(* One entry more of those that were come to.                              *)
LEMMA EntryTaken ==
  ASSUME NEW es, IsFiniteSet(es), NEW left, NEW e \in left, e \in es, NEW n
  PROVE  Keyed(es \ (left \ {e}), n) =
           IF e.key = n THEN Keyed(es \ left, n) + 1 ELSE Keyed(es \ left, n)
<1> DEFINE A == {x \in es \ left : x.key = n}
<1>1. IsFiniteSet(A) /\ e \notin A
  BY FS_Subset
<1>2. {x \in es \ (left \ {e}) : x.key = n} = IF e.key = n THEN A \cup {e} ELSE A
  OBVIOUS
<1>3. Cardinality(A \cup {e}) = Cardinality(A) + 1
  BY <1>1, FS_AddElement
<1> QED BY <1>2, <1>3 DEF Keyed

-----------------------------------------------------------------------------
(* The inductive invariant.                                                *)
Busy == pc \in {"push", "call", "code", "next", "content", "abort"}
Reading == pc \in {"code", "next", "content"}
Source == IF outcome.end = "done" THEN "response" ELSE "error"

(* How much of the current request is on the stack after the call.         *)
Result == IF outcome.end = "done" THEN 1 ELSE 2

(* Under what the current request has pushed are the responses of earlier  *)
(* ones whose callbacks failed; what is read is on top.                    *)
StackFits ==
  /\ failed <= Len(stack) /\ (Busy => failed < asked)
  /\ \A i \in 1..failed : /\ stack[i].is = "response" /\ stack[i].k <= asked
                          /\ Busy => stack[i].k < asked
                          /\ i > 1 => stack[i - 1].k < stack[i].k
  /\ pc \in {"lib", "main", "ref", "exit", "idle", "push"} => Len(stack) = failed
  /\ pc = "call" => /\ Len(stack) = failed + 4
                    /\ stack[failed + 1] = Object("response")
                    /\ stack[failed + 4] = Object("response")
  /\ pc \in {"code", "content"} => Len(stack) = failed + Result
  /\ pc = "next" => Len(stack) = failed + Result + 2
  /\ Reading => /\ stack[failed + 1] = Object("response")
                /\ stack[failed + Result] = Object(Source)
                /\ tables[Source] = outcome.fields

(* The code and the headers of a reply are those the callback left.        *)
HeadedAsSet(r) ==
  LET typed == Keyed(outcome.fields.entries, "content-type")
  IN  /\ r.code = Status(outcome.fields.code)
      /\ Named(r, "text") = Keyed(outcome.fields.entries, "text")
      /\ Named(r, "content-type") = IF typed = 0 THEN 1 ELSE typed

ReplyFits ==
  /\ pc = "code" => reply = EmptyReply
  /\ pc \in {"next", "content"} => AllAlive(reply)
  /\ pc = "next" =>
       /\ todo \subseteq outcome.fields.entries /\ reply.code = Status(outcome.fields.code)
       /\ \A n \in HeaderName : Named(reply, n) = Keyed(outcome.fields.entries \ todo, n)
  /\ pc = "content" => HeadedAsSet(reply)

AnswerFits ==
  /\ pc \in {"lib", "main", "ref", "exit"} => answer.of = "none"
  /\ answer.of = "lua" => AllAlive(answer.reply)
  /\ pc = "idle" /\ answer.of = "lua" =>
       /\ answer.by = Source /\ HeadedAsSet(answer.reply)
       /\ answer.reply.body.to = Pointer(outcome.fields.content).to

(* Lua is asked about what no file answers, or one that did not open.      *)
AskedFits ==
  /\ pc \in {"push", "call"} /\ target.path \in Files =>
       file = [in |-> "disk", got |-> "unopened"]
  /\ pc = "call" => given.path = LuaPath(target)

IInv == TypeOK /\ StackFits /\ ReplyFits /\ AnswerFits /\ AskedFits

(* It holds when the program starts.                                       *)
LEMMA InitFits == Init => IInv
<1> SUFFICES ASSUME Init PROVE IInv
  OBVIOUS
<1>1. Absent \in Fields
  BY DEF Absent, Fields
<1>2. TypeOK
  <2>1. stack \in Seq(Item) /\ Len(stack) = 0
    BY DEF Init
  <2>2. answer \in [of : {"none", "file", "lua"}, by : TableOf \cup {"none"}, reply : Reply]
    BY EmptyFits DEF Init
  <2>3. outcome \in [end : {"none", "done", "text", "table", "plain"}, fields : Fields]
    BY <1>1 DEF Init
  <2>4. tables \in [TableOf -> Fields]
    BY <1>1 DEF Init, TableOf
  <2>5. \E t \in Targets : given.path \in {VfsPath(t), LuaPath(t)}
    <3>1. target \in Targets /\ given.path = VfsPath(target)
      BY DEF Init
    <3> QED BY <3>1
  <2>6. pc \in Stages /\ callback \in BOOLEAN
    BY DEF Init, Stages
  <2>7. todo \subseteq Entry /\ reply \in Reply /\ target \in Targets
    BY EmptyFits DEF Init
  <2>8. file \in [in : {"image", "disk"}, got : {"none", "data", "unopened"}]
    BY DEF Init
  <2>9. asked \in 0..MaxRequests /\ failed \in 0..asked
    BY MaxRequestsAssumption DEF Init
  <2> QED BY <2>1, <2>2, <2>3, <2>4, <2>5, <2>6, <2>7, <2>8, <2>9 DEF TypeOK, Item
<1>3. StackFits
  BY DEF Init, StackFits, Busy, Reading
<1>4. ReplyFits /\ AnswerFits /\ AskedFits
  BY DEF Init, ReplyFits, AnswerFits, AskedFits
<1> QED BY <1>2, <1>3, <1>4 DEF IInv

(* An object of the current request.                                       *)
LEMMA ObjectFits ==
  ASSUME IInv, Busy, NEW type \in TableOf \cup {"callback", "headers", "key"}
  PROVE  Object(type) \in Item /\ Object(type).is = type /\ Object(type).k = asked
<1>1. asked \in 1..MaxRequests
  BY MaxRequestsAssumption DEF IInv, TypeOK, StackFits
<1> QED BY <1>1 DEF Object, Item

(* What luaapp_pop_response reads is what the callback has left.           *)
LEMMA OnTop ==
  ASSUME IInv, pc \in {"code", "content"}
  PROVE  /\ At(-1) = Object(Source) /\ At(-1).is = Source
         /\ FieldsOf(At(-1)) = outcome.fields /\ outcome.fields \in Fields
         /\ Len(stack) = failed + Result /\ Result \in {1, 2} /\ failed \in Nat
         /\ stack \in Seq(Item)
<1> USE DEF IInv, StackFits, Busy, Reading
<1>1. /\ Len(stack) = failed + Result /\ stack[failed + Result] = Object(Source)
      /\ tables[Source] = outcome.fields
  BY DEF Result
<1>2. Result \in {1, 2} /\ failed \in Nat /\ outcome.fields \in Fields /\ stack \in Seq(Item)
  BY DEF TypeOK, Result, Item
<1>3. At(-1) = Object(Source)
  <2>1. Len(stack) + 1 + (-1) = failed + Result
    BY <1>1, <1>2
  <2> QED BY <1>1, <2>1 DEF At
<1>4. Object(Source).is = Source /\ Object(Source).k = asked
  BY DEF Object
<1> QED BY <1>1, <1>2, <1>3, <1>4 DEF FieldsOf

(* Where the source of the reply is on the stack, nothing it holds goes.   *)
LEMMA AllocKeeps ==
  ASSUME NEW r \in Reply, NEW s, \E i \in DOMAIN s : s[i] = Object(Source), NEW q \in AfterAlloc(r, s)
  PROVE  /\ q \in Reply /\ q.code = r.code /\ q.body.to = r.body.to
         /\ \A n \in HeaderName : Named(q, n) = Named(r, n)
         /\ AllAlive(r) => AllAlive(q)
<1> DEFINE source == Object(IF outcome.end = "done" THEN "response" ELSE "error")
           held == \E i \in DOMAIN s : s[i] = source
<1>1. held = TRUE
  BY DEF Source
<1>2. q \in {r, SweptReply(r, held)}
  BY DEF AfterAlloc
<1> HIDE DEF held, source
<1>3. q = r \/ q = SweptReply(r, TRUE)
  BY <1>1, <1>2
<1>4. CASE q = SweptReply(r, TRUE)
  BY <1>4, SweptKeeps
<1> QED BY <1>3, <1>4

-----------------------------------------------------------------------------
(* Each step keeps the invariant.                                          *)

(* The start of the program makes no request.                              *)
LEMMA StartKeeps ==
  ASSUME IInv, RunFile \/ RefCallback
  PROVE  IInv'
<1> USE DEF IInv
<1>1. /\ pc \in {"lib", "main", "ref"} /\ pc' \in {"main", "ref", "exit", "idle"} /\ callback' \in BOOLEAN
      /\ UNCHANGED <<stack, tables, todo, reply, target, file, given, asked, failed, outcome, answer>>
  BY DEF RunFile, RefCallback, serving, TypeOK
<1>2. TypeOK'
  BY <1>1 DEF TypeOK, Stages
<1>3. StackFits'
  BY <1>1 DEF StackFits, Busy, Reading
<1>4. ReplyFits' /\ AnswerFits' /\ AskedFits'
  BY <1>1 DEF ReplyFits, AnswerFits, AskedFits
<1> QED BY <1>2, <1>3, <1>4

(* A request for a file is answered, another waits for Lua.                *)
LEMMA RequestKeeps ==
  ASSUME IInv, NEW t \in Targets, Request(t)
  PROVE  IInv'
<1> USE DEF IInv
<1>1. PICK got \in Lookup(t.path) :
        /\ file' = [file EXCEPT !.got = got]
        /\ IF got = "data"
           THEN answer' = [of |-> "file", by |-> "none", reply |-> EmptyReply] /\ pc' = pc
           ELSE pc' = "push" /\ UNCHANGED answer
  BY DEF Request
<1>2. /\ pc = "idle" /\ asked < MaxRequests /\ target' = t /\ asked' = asked + 1
      /\ UNCHANGED <<callback, stack, tables, todo, reply, given, failed, outcome>>
      /\ \/ answer' = [of |-> "file", by |-> "none", reply |-> EmptyReply] /\ pc' = "idle"
         \/ pc' = "push" /\ UNCHANGED answer
  BY <1>1 DEF Request
<1>3. file' \in [in : {"image", "disk"}, got : {"none", "data", "unopened"}]
  BY <1>1 DEF Lookup, TypeOK
<1>4. pc' = "push" /\ t.path \in Files => file' = [in |-> "disk", got |-> "unopened"]
  <2>1. SUFFICES ASSUME pc' = "push", t.path \in Files PROVE file' = [in |-> "disk", got |-> "unopened"]
    OBVIOUS
  <2>2. got # "data"
    BY <1>1, <1>2, <2>1
  <2>3. file \in [in : {"image", "disk"}, got : {"none", "data", "unopened"}]
    BY DEF TypeOK
  <2>4. got = "unopened" /\ file.in = "disk"
    BY <2>1, <2>2, <2>3 DEF Lookup
  <2> QED BY <1>1, <2>3, <2>4
<1>5. asked \in Nat /\ failed \in Nat /\ failed <= asked /\ MaxRequests \in Nat
  BY MaxRequestsAssumption DEF TypeOK
<1>6. TypeOK'
  <2>1. asked' \in 0..MaxRequests /\ failed' \in 0..asked'
    BY <1>2, <1>5
  <2>2. answer' \in [of : {"none", "file", "lua"}, by : TableOf \cup {"none"}, reply : Reply]
    BY <1>2, EmptyFits DEF TypeOK
  <2> QED BY <1>2, <1>3, <2>1, <2>2 DEF TypeOK, Stages
<1>7. StackFits'
  <2>1. \A i \in 1..failed : stack[i].k <= asked /\ stack[i].k \in Nat
    <3>1. stack \in Seq(Item) /\ Len(stack) = failed
      BY <1>2 DEF TypeOK, StackFits, Item
    <3>2. \A i \in 1..failed : stack[i] \in Item
      BY <3>1, ElementOfSeq
    <3> QED BY <1>2, <3>2 DEF StackFits, Item
  <2>2. \A i \in 1..failed : stack[i].k < asked + 1 /\ stack[i].k <= asked + 1
    BY <1>5, <2>1
  <2> QED BY <1>2, <1>5, <2>2 DEF StackFits, Busy, Reading
<1>8. ReplyFits' /\ AnswerFits' /\ AskedFits'
  BY <1>2, <1>4 DEF ReplyFits, AnswerFits, AskedFits, HeadedAsSet, Source
<1> QED BY <1>6, <1>7, <1>8

(* The response, the callback, the request and the response once more.     *)
LEMMA PushKeeps ==
  ASSUME IInv, Push
  PROVE  IInv'
<1> USE DEF IInv
<1> DEFINE a == Object("response")
           b == Object("callback")
           c == Object("request")
<1>1. /\ pc = "push" /\ pc' = "call"
      /\ stack' = LET u == stack \o <<a, b, c>> IN Append(u, u[Len(u) - 2])
      /\ tables' = [response |-> Fresh, request |-> Absent, error |-> Absent]
      /\ given' = [path |-> LuaPath(target), params |-> QueryParams(target)]
      /\ UNCHANGED <<callback, todo, reply, target, file, asked, failed, outcome, answer>>
  BY DEF Push
<1>2. a \in Item /\ b \in Item /\ c \in Item
  BY <1>1, ObjectFits DEF Busy, TableOf
<1>3. stack \in Seq(Item) /\ Len(stack) = failed /\ failed \in Nat
  BY <1>1 DEF TypeOK, StackFits, Item
<1>4. /\ stack' \in Seq(Item) /\ Len(stack') = failed + 4
      /\ \A i \in 1..failed : stack'[i] = stack[i]
      /\ stack'[failed + 1] = a /\ stack'[failed + 4] = a
  <2> HIDE DEF a, b, c
  <2> QED BY <1>1, <1>2, <1>3, PushedFour
<1>5. a' = a
  BY <1>1 DEF Object
<1>6. TypeOK'
  <2>1. tables' \in [TableOf -> Fields]
    <3>1. Fresh \in Fields /\ Absent \in Fields
      BY DEF Fresh, Absent, Fields
    <3> QED BY <1>1, <3>1 DEF TableOf
  <2>2. given'.path = LuaPath(target)
    BY <1>1
  <2> QED BY <1>1, <1>4, <2>1, <2>2 DEF TypeOK, Stages, Item
<1> HIDE DEF b, c
<1>7. StackFits'
  <2>1. \A i \in 1..failed : i > 1 => i - 1 \in 1..failed
    BY <1>3
  <2>2. failed' <= Len(stack')
    BY <1>1, <1>3, <1>4
  <2> QED BY <1>1, <1>4, <1>5, <2>1, <2>2 DEF StackFits, Busy, Reading
<1>8. ReplyFits' /\ AnswerFits' /\ AskedFits'
  BY <1>1 DEF ReplyFits, AnswerFits, AskedFits
<1> QED BY <1>6, <1>7, <1>8

(* The call takes the callback and its two arguments, and may put an error *)
(* object in their place.                                                  *)
LEMMA CallKeeps ==
  ASSUME IInv, CallDone \/ CallFails
  PROVE  IInv'
<1> USE DEF IInv
<1>1. /\ pc = "call" /\ pc' = "code" /\ reply' = EmptyReply
      /\ UNCHANGED <<callback, todo, target, file, given, asked, failed, answer>>
  BY DEF CallDone, CallFails
<1>2. /\ stack \in Seq(Item) /\ Len(stack) = failed + 4 /\ failed \in Nat /\ failed < asked
      /\ stack[failed + 1] = Object("response") /\ stack[failed + 4] = Object("response")
  BY <1>1 DEF TypeOK, StackFits, Item, Busy
<1>3. /\ Pop(3) \in Seq(Item) /\ Len(Pop(3)) = failed + 1
      /\ \A i \in 1..failed + 1 : Pop(3)[i] = stack[i]
  <2>1. 3 \in 0..Len(stack) /\ Len(stack) - 3 = failed + 1
    BY <1>2
  <2> QED BY <1>2, <2>1, Popped DEF Pop
<1>4. At(-1).is = "response"
  <2>1. Len(stack) + 1 + (-1) = failed + 4
    BY <1>2
  <2> QED BY <1>2, <2>1 DEF At, Object
<1>5. \A e \in Failures : e \in {"text", "table", "plain"}
  BY FailuresAssumption
<1>6. PICK end \in {"done", "text", "table", "plain"}, f \in Fields :
        /\ outcome' = [end |-> end, fields |-> f]
        /\ IF end = "done" THEN tables' = [tables EXCEPT !["response"] = f] /\ stack' = Pop(3)
           ELSE tables' = [tables EXCEPT !["error"] = f] /\ stack' = Append(Pop(3), Object("error"))
  <2>1. CASE CallDone
    <3>1. PICK f \in Writes : /\ outcome' = [end |-> "done", fields |-> f] /\ stack' = Pop(3)
                              /\ tables' = IF At(-1).is \in DOMAIN tables
                                           THEN [tables EXCEPT ![At(-1).is] = f] ELSE tables
      BY <2>1 DEF CallDone
    <3>2. f \in Fields
      BY WritesAssumption
    <3>3. tables' = [tables EXCEPT !["response"] = f]
      <4>1. "response" \in DOMAIN tables
        BY DEF TypeOK, TableOf
      <4> QED BY <1>4, <3>1, <4>1
    <3> QED BY <3>1, <3>2, <3>3
  <2>2. CASE CallFails
    <3>1. PICK e \in Failures, f \in Writes :
                  /\ outcome' = [end |-> e, fields |-> f] /\ tables' = [tables EXCEPT !["error"] = f]
                  /\ stack' = Append(Pop(3), Object("error"))
      BY <2>2 DEF CallFails
    <3>2. f \in Fields
      BY WritesAssumption
    <3> QED BY <1>5, <3>1, <3>2
  <2> QED BY <2>1, <2>2
<1>7. outcome'.end = end /\ outcome'.fields = f
  BY <1>6
<1>8. tables' \in [TableOf -> Fields] /\ tables'[Source'] = f
  BY <1>6, <1>7 DEF Source, TypeOK, TableOf
<1>9. /\ stack' \in Seq(Item) /\ Len(stack') = failed + Result'
      /\ \A i \in 1..failed + 1 : stack'[i] = stack[i]
      /\ stack'[failed + Result'] = Object(Source')
  <2>1. CASE end = "done"
    <3>1. Result' = 1 /\ Source' = "response" /\ stack' = Pop(3)
      BY <1>6, <1>7, <2>1 DEF Result, Source
    <3>2. failed + 1 \in 1..failed + 1
      BY <1>2
    <3> QED BY <1>2, <1>3, <3>1, <3>2
  <2>2. CASE end # "done"
    <3>1. Result' = 2 /\ Source' = "error" /\ stack' = Append(Pop(3), Object("error"))
      BY <1>6, <1>7, <2>2 DEF Result, Source
    <3>2. Object("error") \in Item
      BY <1>1, ObjectFits DEF Busy, TableOf
    <3>3. /\ stack' \in Seq(Item) /\ Len(stack') = Len(Pop(3)) + 1
          /\ \A i \in 1..Len(Pop(3)) : stack'[i] = Pop(3)[i]
          /\ stack'[Len(Pop(3)) + 1] = Object("error")
      BY <1>3, <3>1, <3>2, AppendProperties
    <3>4. failed + 1 + 1 = failed + 2
      BY <1>2
    <3> QED BY <1>3, <3>1, <3>3, <3>4
  <2> QED BY <2>1, <2>2
<1>10. TypeOK'
  BY <1>1, <1>6, <1>8, <1>9, EmptyFits DEF TypeOK, Stages, Item
<1>11. StackFits'
  <2>1. \A i \in 1..failed : i \in 1..failed + 1 /\ (i > 1 => i - 1 \in 1..failed + 1)
    BY <1>2
  <2>2. failed' <= Len(stack') /\ failed + 1 \in 1..failed + 1
    BY <1>1, <1>2, <1>9 DEF Result
  <2>3. Reading' => /\ stack'[failed' + 1] = Object("response")'
                    /\ stack'[failed' + Result'] = Object(Source)'
                    /\ tables'[Source'] = outcome'.fields
    BY <1>1, <1>2, <1>7, <1>8, <1>9, <2>2 DEF Object
  <2> QED BY <1>1, <1>9, <2>1, <2>2, <2>3 DEF StackFits, Busy
<1>12. ReplyFits' /\ AnswerFits' /\ AskedFits'
  BY <1>1 DEF ReplyFits, AnswerFits, AskedFits
<1> QED BY <1>10, <1>11, <1>12

(* lua_atpanic: the process is gone, and all is as it was.                 *)
LEMMA AbortKeeps ==
  ASSUME IInv, CannotIndex \/ \E e \in Entry : BadKey(e)
  PROVE  IInv'
<1> USE DEF IInv
<1>1. /\ Busy /\ pc' = "abort"
      /\ UNCHANGED <<callback, stack, tables, todo, reply, target, file, given, asked, failed, outcome,
                     answer>>
  BY DEF CannotIndex, BadKey, Abort, Busy
<1>2. TypeOK'
  BY <1>1 DEF TypeOK, Stages
<1>3. StackFits'
  BY <1>1 DEF StackFits, Busy, Reading
<1>4. ReplyFits' /\ AnswerFits' /\ AskedFits'
  BY <1>1 DEF ReplyFits, AnswerFits, AskedFits
<1> QED BY <1>2, <1>3, <1>4

(* The code is read, and the headers and a first key are pushed.           *)
LEMMA ReadCodeKeeps ==
  ASSUME IInv, ReadCode
  PROVE  IInv'
<1> USE DEF IInv
<1>1. /\ pc = "code" /\ pc' = "next"
      /\ reply' = [reply EXCEPT !.code = Status(FieldsOf(At(-1)).code)]
      /\ todo' = FieldsOf(At(-1)).entries
      /\ stack' = stack \o <<Object("headers"), Object("key")>>
      /\ UNCHANGED <<callback, tables, target, file, given, asked, failed, outcome, answer>>
  BY DEF ReadCode
<1>2. /\ FieldsOf(At(-1)) = outcome.fields /\ outcome.fields \in Fields
      /\ Len(stack) = failed + Result /\ Result \in {1, 2} /\ failed \in Nat /\ stack \in Seq(Item)
  BY <1>1, OnTop
<1>3. /\ stack' \in Seq(Item) /\ Len(stack') = failed + Result + 2
      /\ \A i \in 1..failed + Result : stack'[i] = stack[i]
  <2>1. Object("headers") \in Item /\ Object("key") \in Item
    BY <1>1, ObjectFits DEF Busy
  <2> QED BY <1>1, <1>2, <2>1, PushedTwo
<1>4. outcome.fields.code \in Int /\ outcome.fields.entries \in SUBSET Entry
  BY <1>2 DEF Fields
<1>5. Status(outcome.fields.code) \in 100..599
  BY <1>4 DEF Status
<1>6. /\ reply' \in Reply /\ reply'.code = Status(outcome.fields.code)
      /\ AllAlive(reply') /\ reply'.headers = <<>>
  <2> DEFINE c == Status(outcome.fields.code)
  <2>1. reply = EmptyReply /\ reply' = [reply EXCEPT !.code = c]
    BY <1>1, <1>2 DEF ReplyFits
  <2> HIDE DEF c
  <2>2. reply \in Reply /\ reply.headers = <<>> /\ AllAlive(reply)
    BY <2>1, EmptyFits
  <2>3. reply' \in Reply /\ reply'.code = c /\ reply'.headers = reply.headers /\ reply'.body = reply.body
    <3>1. c \in 100..599 /\ reply' = [reply EXCEPT !.code = c]
      BY <1>5, <2>1 DEF c
    <3> QED BY ZenonT(60), <2>2, <3>1 DEF Reply
  <2> QED BY <2>2, <2>3 DEF AllAlive, c
<1>7. TypeOK'
  BY <1>1, <1>2, <1>3, <1>4, <1>6 DEF TypeOK, Stages, Item
<1>8. StackFits'
  <2>1. \A i \in 1..failed : i \in 1..failed + Result /\ (i > 1 => i - 1 \in 1..failed + Result)
    BY <1>2
  <2>2. failed <= Len(stack') /\ failed + 1 \in 1..failed + Result /\ failed + Result \in 1..failed + Result
    BY <1>2, <1>3
  <2>3. Result' = Result /\ Source' = Source /\ Object(Source)' = Object(Source)
        /\ Object("response")' = Object("response")
    BY <1>1 DEF Result, Source, Object
  <2>4. /\ stack'[failed' + 1] = Object("response")'
        /\ stack'[failed' + Result'] = Object(Source)'
        /\ tables'[Source'] = outcome'.fields
    BY <1>1, <1>3, <2>2, <2>3 DEF StackFits, Reading
  <2> QED BY <1>1, <1>3, <2>1, <2>2, <2>3, <2>4 DEF StackFits, Busy
<1>9. ReplyFits'
  <2>1. ASSUME NEW n \in HeaderName
        PROVE  Named(reply', n) = Keyed(outcome.fields.entries \ todo', n)
    <3>1. outcome.fields.entries \ todo' = {}
      BY <1>1, <1>2
    <3>2. {i \in DOMAIN reply'.headers : reply'.headers[i].name = n} = {}
      BY <1>6
    <3> QED BY <3>1, <3>2 DEF Named, Keyed
  <2> QED BY <1>1, <1>2, <1>6, <2>1 DEF ReplyFits
<1>10. AnswerFits' /\ AskedFits'
  BY <1>1 DEF AnswerFits, AskedFits
<1> QED BY <1>7, <1>8, <1>9, <1>10

(* While the headers are read, their table and what holds it is on the     *)
(* stack.                                                                  *)
LEMMA NextFacts ==
  ASSUME IInv, pc = "next"
  PROVE  /\ \E i \in DOMAIN stack : stack[i] = Object(Source)
         /\ outcome.fields.entries \in SUBSET Entry
         /\ reply \in Reply /\ todo \subseteq outcome.fields.entries /\ AllAlive(reply)
         /\ reply.code = Status(outcome.fields.code)
         /\ stack \in Seq(Item) /\ Len(stack) = failed + Result + 2
         /\ Result \in {1, 2} /\ failed \in Nat
<1> USE DEF IInv
<1>1. /\ stack \in Seq(Item) /\ Len(stack) = failed + Result + 2
      /\ Result \in {1, 2} /\ failed \in Nat /\ stack[failed + Result] = Object(Source)
  BY DEF StackFits, TypeOK, Result, Reading, Item
<1>2. DOMAIN stack = 1..Len(stack)
  BY <1>1, LenProperties
<1>3. failed + Result \in DOMAIN stack
  BY <1>1, <1>2
<1>4. outcome.fields.entries \in SUBSET Entry
  <2>1. outcome.fields \in Fields
    BY DEF TypeOK
  <2> QED BY <2>1 DEF Fields
<1> QED BY <1>1, <1>3, <1>4 DEF ReplyFits, TypeOK

(* A header is added, and the collector may run.                           *)
LEMMA NextHeaderKeeps ==
  ASSUME IInv, NEW e \in Entry, NextHeader(e)
  PROVE  IInv'
<1> USE DEF IInv
<1> DEFINE r == AddHeader(reply, e.key, Pointer("text"), Pointer(e.val))
<1>1. /\ pc = "next" /\ e \in todo /\ e.key \in HeaderName /\ todo' = todo \ {e}
      /\ UNCHANGED <<pc, callback, stack, tables, target, file, given, asked, failed, outcome, answer>>
      /\ reply' \in IF e.val = "number" THEN AfterAlloc(r, stack) ELSE {r}
  BY DEF NextHeader, HeaderName
<1>2. /\ \E i \in DOMAIN stack : stack[i] = Object(Source)
      /\ outcome.fields.entries \in SUBSET Entry
      /\ reply \in Reply /\ todo \subseteq outcome.fields.entries /\ AllAlive(reply)
      /\ reply.code = Status(outcome.fields.code)
  BY <1>1, NextFacts
<1>3. /\ r \in Reply /\ r.code = reply.code /\ AllAlive(r)
      /\ \A n \in HeaderName : Named(r, n) = IF n = e.key THEN Named(reply, n) + 1 ELSE Named(reply, n)
  BY <1>1, <1>2, HeaderAdded, PointerFits
<1> HIDE DEF r
<1>4. /\ reply' \in Reply /\ reply'.code = r.code /\ AllAlive(reply')
      /\ \A n \in HeaderName : Named(reply', n) = Named(r, n)
  <2>1. CASE reply' = r
    BY <1>3, <2>1
  <2>2. CASE reply' \in AfterAlloc(r, stack)
    BY <1>2, <1>3, <2>2, AllocKeeps
  <2> QED BY <1>1, <2>1, <2>2
<1>5. TypeOK'
  BY <1>1, <1>4 DEF TypeOK
<1>6. StackFits'
  BY <1>1 DEF StackFits, Busy, Reading, Source, Result, Object
<1>7. ReplyFits'
  <2>1. ASSUME NEW n \in HeaderName
        PROVE  Named(reply', n) = Keyed(outcome.fields.entries \ todo', n)
    <3>1. Named(reply, n) = Keyed(outcome.fields.entries \ todo, n)
      BY <1>1 DEF ReplyFits
    <3>2. Keyed(outcome.fields.entries \ todo', n) =
            IF e.key = n THEN Keyed(outcome.fields.entries \ todo, n) + 1
            ELSE Keyed(outcome.fields.entries \ todo, n)
      <4> DEFINE es == outcome.fields.entries
      <4>1. e \in todo /\ todo' = todo \ {e} /\ e \in es /\ IsFiniteSet(es)
        BY <1>1, <1>2, EntriesFinite
      <4> HIDE DEF es
      <4>2. Keyed(es \ (todo \ {e}), n) =
              IF e.key = n THEN Keyed(es \ todo, n) + 1 ELSE Keyed(es \ todo, n)
        BY <4>1, EntryTaken
      <4> QED BY <4>1, <4>2 DEF es
    <3> QED BY <1>3, <1>4, <3>1, <3>2
  <2> QED BY <1>1, <1>2, <1>3, <1>4, <2>1 DEF ReplyFits
<1>8. AnswerFits' /\ AskedFits'
  BY <1>1 DEF AnswerFits, AskedFits
<1> QED BY <1>5, <1>6, <1>7, <1>8

(* The headers and the key are popped, and a Content-Type is there.        *)
LEMMA HeadersEndKeeps ==
  ASSUME IInv, HeadersEnd
  PROVE  IInv'
<1> USE DEF IInv
<1> DEFINE typed == \E i \in DOMAIN reply.headers : reply.headers[i].name = "content-type"
           n == Named(reply, "content-type")
<1>1. /\ pc = "next" /\ todo = {} /\ stack' = Pop(2) /\ pc' = "content"
      /\ reply' = IF typed THEN reply ELSE AddHeader(reply, "content-type", Literal, Literal)
      /\ UNCHANGED <<callback, tables, todo, target, file, given, asked, failed, outcome, answer>>
  BY DEF HeadersEnd
<1>2. /\ outcome.fields.entries \in SUBSET Entry /\ reply \in Reply /\ AllAlive(reply)
      /\ reply.code = Status(outcome.fields.code)
      /\ stack \in Seq(Item) /\ Len(stack) = failed + Result + 2
      /\ Result \in {1, 2} /\ failed \in Nat
  BY <1>1, NextFacts
<1>3. /\ stack' \in Seq(Item) /\ Len(stack') = failed + Result
      /\ \A i \in 1..failed + Result : stack'[i] = stack[i]
  <2>1. 2 \in 0..Len(stack) /\ Len(stack) - 2 = failed + Result
    BY <1>2
  <2> QED BY <1>1, <1>2, <2>1, Popped DEF Pop
<1>4. \A m \in HeaderName : Named(reply, m) = Keyed(outcome.fields.entries, m)
  <2>1. outcome.fields.entries \ todo = outcome.fields.entries
    BY <1>1
  <2> QED BY <1>1, <2>1 DEF ReplyFits
<1>5. ~typed <=> n = 0
  <2>1. DOMAIN reply.headers = 1..Len(reply.headers) /\ Len(reply.headers) \in Nat
    BY <1>2, ReplyFields
  <2>2. IsFiniteSet({i \in DOMAIN reply.headers : reply.headers[i].name = "content-type"})
    <3>1. IsFiniteSet(1..Len(reply.headers))
      BY <2>1, FS_Interval
    <3> QED BY <2>1, <3>1, FS_Subset
  <2> QED BY <2>2, FS_EmptySet DEF Named, typed, n
<1> HIDE DEF typed, n
<1>6. /\ reply' \in Reply /\ reply'.code = reply.code /\ AllAlive(reply')
      /\ Named(reply', "text") = Named(reply, "text")
      /\ Named(reply', "content-type") = IF n = 0 THEN 1 ELSE n
  <2>1. CASE typed
    BY <1>1, <1>2, <1>5, <2>1 DEF n
  <2>2. CASE ~typed
    <3>1. reply' = AddHeader(reply, "content-type", Literal, Literal) /\ n = 0
      BY <1>1, <1>5, <2>2
    <3>2. "content-type" \in HeaderName /\ "text" \in HeaderName
      BY DEF HeaderName
    <3>3. /\ reply' \in Reply /\ reply'.code = reply.code /\ AllAlive(reply')
          /\ Named(reply', "text") = Named(reply, "text")
          /\ Named(reply', "content-type") = Named(reply, "content-type") + 1
      BY <1>2, <3>1, <3>2, EmptyFits, HeaderAdded
    <3> QED BY <3>1, <3>3 DEF n
  <2> QED BY <2>1, <2>2
<1>7. TypeOK'
  BY <1>1, <1>3, <1>6 DEF TypeOK, Stages, Item
<1>8. StackFits'
  <2>1. \A i \in 1..failed : i \in 1..failed + Result /\ (i > 1 => i - 1 \in 1..failed + Result)
    BY <1>2
  <2>2. failed <= Len(stack') /\ failed + 1 \in 1..failed + Result /\ failed + Result \in 1..failed + Result
    BY <1>2, <1>3
  <2>3. Result' = Result /\ Source' = Source /\ Object(Source)' = Object(Source)
        /\ Object("response")' = Object("response")
    BY <1>1 DEF Result, Source, Object
  <2>4. /\ stack'[failed' + 1] = Object("response")'
        /\ stack'[failed' + Result'] = Object(Source)'
        /\ tables'[Source'] = outcome'.fields
    BY <1>1, <1>3, <2>2, <2>3 DEF StackFits, Reading
  <2> QED BY <1>1, <1>3, <2>1, <2>2, <2>3, <2>4 DEF StackFits, Busy
<1>9. ReplyFits'
  <2>1. HeadedAsSet(reply')
    BY <1>2, <1>4, <1>6 DEF HeadedAsSet, HeaderName, n
  <2>2. HeadedAsSet(reply)'
    BY <1>1, <2>1 DEF HeadedAsSet
  <2> QED BY <1>1, <1>6, <2>2 DEF ReplyFits
<1>10. AnswerFits' /\ AskedFits'
  BY <1>1 DEF AnswerFits, AskedFits
<1> QED BY <1>7, <1>8, <1>9, <1>10

(* The content is read, its object is popped, and the answer is sent.      *)
LEMMA ContentKeeps ==
  ASSUME IInv, ReadContent
  PROVE  IInv'
<1> USE DEF IInv
<1> DEFINE body == Pointer(FieldsOf(At(-1)).content)
           r == [reply EXCEPT !.body = body]
<1>1. /\ pc = "content" /\ stack' = Pop(1) /\ pc' = "idle"
      /\ failed' = IF outcome.end = "done" THEN failed ELSE failed + 1
      /\ UNCHANGED <<callback, tables, todo, reply, target, file, given, asked, outcome>>
  BY DEF ReadContent
<1>2. PICK q \in AfterAlloc(r, stack) : answer' = [of |-> "lua", by |-> At(-1).is, reply |-> q]
  BY DEF ReadContent
<1>3. /\ At(-1).is = Source /\ FieldsOf(At(-1)) = outcome.fields
      /\ Len(stack) = failed + Result /\ Result \in {1, 2} /\ failed \in Nat /\ stack \in Seq(Item)
  BY <1>1, OnTop
<1>4. body = Pointer(outcome.fields.content) /\ body \in Ptr /\ Alive(body)
  BY <1>3, PointerFits
<1> HIDE DEF body
<1>5. /\ r \in Reply /\ r.code = reply.code /\ r.body = body /\ AllAlive(r)
      /\ \A n : Named(r, n) = Named(reply, n)
  <2>1. reply \in Reply /\ AllAlive(reply)
    BY <1>1 DEF TypeOK, ReplyFits
  <2>2. r \in Reply /\ r.code = reply.code /\ r.body = body /\ r.headers = reply.headers
    BY <1>4, <2>1 DEF Reply
  <2> HIDE DEF r
  <2> QED BY <1>4, <2>1, <2>2 DEF AllAlive, Named
<1> HIDE DEF r
<1>6. \E i \in DOMAIN stack : stack[i] = Object(Source)
  <2>1. DOMAIN stack = 1..Len(stack) /\ failed + Result \in 1..Len(stack)
    BY <1>3, LenProperties
  <2>2. stack[failed + Result] = Object(Source)
    BY <1>1 DEF StackFits, Reading
  <2> QED BY <2>1, <2>2
<1>7. /\ q \in Reply /\ q.code = r.code /\ q.body.to = r.body.to
      /\ \A n \in HeaderName : Named(q, n) = Named(r, n)
      /\ AllAlive(q)
  BY <1>2, <1>5, <1>6, AllocKeeps
<1>8. /\ stack' \in Seq(Item) /\ Len(stack') = failed + Result - 1
      /\ \A i \in 1..failed + Result - 1 : stack'[i] = stack[i]
  <2>1. 1 \in 0..Len(stack) /\ Len(stack) - 1 = failed + Result - 1
    BY <1>3
  <2> QED BY <1>1, <1>3, <2>1, Popped DEF Pop
<1>9. Len(stack') = failed' /\ failed' \in Nat /\ failed' \in failed..failed + 1 /\ failed + Result - 1 = failed'
  BY <1>1, <1>3, <1>8 DEF Result
<1>10. failed < asked /\ asked \in Nat
  BY <1>1 DEF StackFits, Busy, TypeOK
<1>11. TypeOK'
  <2>1. failed' \in 0..asked
    BY <1>1, <1>3, <1>9, <1>10
  <2>2. answer' \in [of : {"none", "file", "lua"}, by : TableOf \cup {"none"}, reply : Reply]
    BY <1>2, <1>3, <1>7 DEF Source, TableOf
  <2> QED BY <1>1, <1>8, <2>1, <2>2 DEF TypeOK, Stages, Item
<1>12. StackFits'
  <2>1. ASSUME NEW i \in 1..failed'
        PROVE  /\ stack'[i].is = "response" /\ stack'[i].k <= asked
               /\ i > 1 => stack'[i - 1].k < stack'[i].k
    <3>1. stack'[i] = stack[i] /\ (i > 1 => stack'[i - 1] = stack[i - 1])
      BY <1>3, <1>8, <1>9
    <3>2. CASE i \in 1..failed
      BY <1>1, <3>1, <3>2 DEF StackFits
    <3>3. CASE i = failed + 1
      <4>1. stack[i].is = "response" /\ stack[i].k = asked
        BY <1>1, <3>3 DEF StackFits, Reading, Object
      <4>2. ASSUME i > 1 PROVE stack[i - 1].k < asked
        <5>1. i - 1 \in 1..failed
          BY <1>3, <3>3, <4>2
        <5> QED BY <1>1, <5>1 DEF StackFits, Busy
      <4> QED BY <1>10, <3>1, <4>1, <4>2
    <3> QED BY <1>3, <1>9, <3>2, <3>3
  <2> QED BY <1>1, <1>9, <2>1 DEF StackFits, Busy, Reading
<1>13. AnswerFits'
  <2>1. answer'.of = "lua" /\ answer'.by = Source /\ answer'.reply = q
    BY <1>2, <1>3
  <2>2. HeadedAsSet(q)
    BY <1>1, <1>5, <1>7 DEF ReplyFits, HeadedAsSet, HeaderName
  <2>3. q.body.to = Pointer(outcome.fields.content).to
    BY <1>4, <1>5, <1>7
  <2> QED BY <1>1, <1>7, <2>1, <2>2, <2>3 DEF AnswerFits, HeadedAsSet, Source
<1>14. ReplyFits' /\ AskedFits'
  BY <1>1 DEF ReplyFits, AskedFits
<1> QED BY <1>11, <1>12, <1>13, <1>14

(* Every step of the program keeps the invariant.                          *)
LEMMA NextKeeps == IInv /\ [Next]_vars => IInv'
<1> SUFFICES ASSUME IInv, [Next]_vars PROVE IInv'
  OBVIOUS
<1>1. CASE RunFile \/ RefCallback
  BY <1>1, StartKeeps
<1>2. CASE \E t \in Targets : Request(t)
  BY <1>2, RequestKeeps
<1>3. CASE Serve
  BY <1>3, PushKeeps, CallKeeps, AbortKeeps, ReadCodeKeeps, NextHeaderKeeps, HeadersEndKeeps,
     ContentKeeps DEF Serve
<1>4. CASE UNCHANGED vars
  <2>1. TypeOK'
    BY <1>4 DEF vars, IInv, TypeOK
  <2>2. StackFits'
    BY <1>4 DEF vars, IInv, StackFits, Busy, Reading, Source, Result, Object
  <2>3. ReplyFits' /\ AnswerFits' /\ AskedFits'
    BY <1>4 DEF vars, IInv, ReplyFits, AnswerFits, AskedFits, Source, HeadedAsSet
  <2> QED BY <2>1, <2>2, <2>3 DEF IInv
<1> QED BY <1>1, <1>2, <1>3, <1>4 DEF Next

(* So it always holds.                                                     *)
LEMMA Invariance == Spec => []IInv
BY InitFits, NextKeeps, PTL DEF Spec

-----------------------------------------------------------------------------
(* The variables have their types: the stack never runs empty, and the     *)
(* status of a reply is one that hs_response_set_status lets through.      *)
THEOREM TypeCorrect == Spec => []TypeOK
<1>1. IInv => TypeOK
  BY DEF IInv
<1> QED BY <1>1, Invariance, PTL

(* Between two requests the stack holds one response of each failed        *)
(* callback, in order, and nothing else.                                   *)
THEOREM StackRests == Spec => []StackAtRest
<1>1. ASSUME IInv PROVE StackAtRest
  <2> SUFFICES ASSUME pc = "idle" PROVE StackAtRest!2
    BY DEF StackAtRest
  <2>1. stack \in Seq(Item) /\ Len(stack) = failed
    BY <1>1 DEF IInv, TypeOK, StackFits, Item
  <2>2. DOMAIN stack = 1..failed
    BY <2>1, LenProperties
  <2> QED BY <1>1, <2>1, <2>2 DEF IInv, StackFits
<1> QED BY <1>1, Invariance, PTL

(* What is sent is what the callback of this request left in its response, *)
(* or raised, whatever earlier requests left on the stack.                 *)
THEOREM AnswersOwnRequest == Spec => []AnswerIsOutcome
<1>1. IInv => AnswerIsOutcome
  BY DEF IInv, AnswerFits, AnswerIsOutcome, HeadedAsSet, Source, Named, Keyed
<1> QED BY <1>1, Invariance, PTL

(* A reply has the Content-Type headers that the callback set, or one.     *)
THEOREM ContentTyped == Spec => []HasContentType
<1>1. ASSUME IInv PROVE HasContentType
  <2> DEFINE set == {e \in outcome.fields.entries : e.key = "content-type"}
  <2>1. set = {} <=> Cardinality(set) = 0
    <3>1. outcome.fields \in Fields
      BY <1>1 DEF IInv, TypeOK
    <3>2. set \in SUBSET Entry
      BY <3>1 DEF Fields
    <3> QED BY <3>2, EntriesFinite, FS_EmptySet
  <2> QED BY <1>1, <2>1 DEF IInv, AnswerFits, HasContentType, HeadedAsSet, Named, Keyed
<1> QED BY <1>1, Invariance, PTL

(* The texts of a reply that Lua holds are not collected before it is      *)
(* serialised, whenever the collector runs.                                *)
THEOREM TextsStay == Spec => []TextsAlive
<1>1. IInv => TextsAlive
  BY DEF IInv, AnswerFits, TextsAlive, AllAlive, Alive
<1> QED BY <1>1, Invariance, PTL

(* The callback is given the path that was looked up, and that path names  *)
(* no file but one on disk that no longer opened.                          *)
THEOREM FilesComeFirst == Spec => []LuaAfterFiles
<1>1. ASSUME IInv PROVE LuaAfterFiles
  <2> SUFFICES ASSUME pc = "call", target.path # ""
               PROVE  /\ given.path = VfsPath(target)
                      /\ target.path \in Files => file = [in |-> "disk", got |-> "unopened"]
    BY DEF LuaAfterFiles
  <2>1. /\ given.path = LuaPath(target)
        /\ target.path \in Files => file = [in |-> "disk", got |-> "unopened"]
    BY <1>1 DEF IInv, AskedFits
  <2>2. (target.ask /\ target.path = "") = FALSE
    OBVIOUS
  <2> QED BY <2>1, <2>2 DEF LuaPath, VfsPath
<1> QED BY <1>1, Invariance, PTL
=============================================================================
