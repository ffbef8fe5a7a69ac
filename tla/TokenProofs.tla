---------------------------- MODULE TokenProofs -----------------------------
(***************************************************************************)
(* The tokens of a request, proved from its text: for any requests whose   *)
(* parts are delimited, in whatever pieces they arrive, the parser is at   *)
(* each moment at one place of the text (Where), which the rules take it   *)
(* along; so each token is pushed at its place (Places), and has its text. *)
(* The length of the body is the number that the digits read so far make   *)
(* (Lengths), for a request that declares it once, as a number.            *)
(***************************************************************************)
EXTENDS ExchangeProofs

(* Two sequences, one after the other, place by place.                     *)
LEMMA TwoParts ==
  ASSUME NEW S, NEW s \in Seq(S), NEW t \in Seq(S)
  PROVE  /\ s \o t \in Seq(S) /\ Len(s) \in Nat /\ Len(t) \in Nat /\ Len(s \o t) = Len(s) + Len(t)
         /\ \A i \in 1..Len(s) : (s \o t)[i] = s[i]
         /\ \A i \in 1..Len(t) : (s \o t)[Len(s) + i] = t[i]
<1>1. /\ s \o t \in Seq(S) /\ Len(s) \in Nat /\ Len(t) \in Nat /\ Len(s \o t) = Len(s) + Len(t)
      /\ \A i \in 1..Len(s) + Len(t) : (s \o t)[i] = IF i <= Len(s) THEN s[i] ELSE t[i - Len(s)]
  BY ConcatProperties, LenProperties
<1> DEFINE a == Len(s)
           b == Len(t)
           u == s \o t
<1> HIDE DEF a, b, u
<1>2. \A i \in 1..a : u[i] = s[i]
  BY <1>1 DEF a, b, u
<1>3. ASSUME NEW i \in 1..b PROVE u[a + i] = t[i]
  <2>1. a + i \in 1..a + b /\ ~(a + i <= a) /\ a + i - a = i
    BY <1>1 DEF a, b
  <2> QED BY <1>1, <2>1 DEF a, b, u
<1> QED BY <1>1, <1>2, <1>3 DEF a, b, u

(* Where the k-th of the sequences ends in what FlattenSeq makes of them.  *)
EndOf(q, k) == IF k = 0 THEN 0 ELSE Len(Flat(q)[k])

(* Each of them is there, from the end of the one before it on.            *)
LEMMA FlatPlaces ==
  ASSUME NEW S, NEW q \in Seq(Seq(S))
  PROVE  /\ \A k \in 0..Len(q) : EndOf(q, k) \in Nat
         /\ \A k \in 1..Len(q) : Len(q[k]) \in Nat /\ EndOf(q, k) = EndOf(q, k - 1) + Len(q[k])
         /\ FlattenSeq(q) \in Seq(S) /\ Len(FlattenSeq(q)) = EndOf(q, Len(q))
         /\ \A k \in 1..Len(q) : \A i \in 1..Len(q[k]) : FlattenSeq(q)[EndOf(q, k - 1) + i] = q[k][i]
<1> DEFINE n == Len(q)
           g == Flat(q)
           L(k) == EndOf(q, k)
<1>1. n \in Nat /\ \A k \in 1..n : q[k] \in Seq(S) /\ Len(q[k]) \in Nat
  BY ElementOfSeq, LenProperties
<1>2. \A k \in 1..n : g[k] = Joined(g, q, k) /\ g[k] \in Seq(S)
  BY FlatLaw
<1>3. L(0) = 0 /\ \A k \in 1..n : L(k) = Len(g[k]) /\ L(k) \in Nat
  BY <1>2, LenProperties DEF EndOf
<1> HIDE DEF n, g, L
<1>4. ASSUME NEW k \in 1..n
      PROVE  /\ L(k) = L(k - 1) + Len(q[k])
             /\ \A i \in 1..Len(q[k]) : g[k][L(k - 1) + i] = q[k][i]
             /\ k # 1 => \A i \in 1..L(k - 1) : g[k][i] = g[k - 1][i]
  <2>1. CASE k = 1
    <3>1. g[k] = q[k] /\ L(k - 1) = 0
      BY <1>2, <1>3, <2>1 DEF Joined
    <3>2. \A i \in 1..Len(q[k]) : 0 + i = i
      OBVIOUS
    <3> QED BY <1>1, <1>3, <2>1, <3>1, <3>2
  <2>2. CASE k # 1
    <3>1. k - 1 \in 1..n
      BY <1>1, <2>2
    <3>2. g[k] = g[k - 1] \o q[k] /\ g[k - 1] \in Seq(S) /\ q[k] \in Seq(S)
      BY <1>1, <1>2, <2>2, <3>1 DEF Joined
    <3>3. L(k) = Len(g[k]) /\ L(k - 1) = Len(g[k - 1])
      BY <1>3, <3>1
    <3> DEFINE a == g[k - 1]
               b == q[k]
    <3> HIDE DEF a, b
    <3>4. /\ Len(a \o b) = Len(a) + Len(b)
          /\ \A i \in 1..Len(a) : (a \o b)[i] = a[i]
          /\ \A i \in 1..Len(b) : (a \o b)[Len(a) + i] = b[i]
      <4>1. a \in Seq(S) /\ b \in Seq(S)
        BY <3>2 DEF a, b
      <4> QED BY <4>1, TwoParts
    <3>5. L(k) = Len(g[k]) /\ L(k - 1) = Len(a) /\ g[k] = a \o b
      BY <3>2, <3>3 DEF a, b
    <3> QED BY <3>4, <3>5 DEF a, b
  <2> QED BY <2>1, <2>2
<1>5. ASSUME NEW k \in 1..n, NEW i \in 1..Len(q[k])
      PROVE  g[n][L(k - 1) + i] = q[k][i]
  <2> DEFINE p == L(k - 1) + i
             Bad == {m \in Nat : m \in k..n /\ ~(p <= L(m) /\ g[m][p] = q[k][i])}
  <2>1. k \in Nat /\ L(k - 1) \in Nat /\ i \in Nat /\ p \in Nat /\ p >= 1
    <3>1. k - 1 = 0 \/ k - 1 \in 1..n
      BY <1>1
    <3>2. L(k - 1) \in Nat
      BY <1>3, <3>1
    <3> QED BY <3>2
  <2>2. p <= L(k) /\ g[k][p] = q[k][i]
    <3>1. i <= Len(q[k]) /\ Len(q[k]) \in Nat
      BY <1>1
    <3> QED BY <1>4, <2>1, <3>1
  <2> HIDE DEF p
  <2>3. Bad = {}
    <3>1. SUFFICES ASSUME Bad # {} PROVE FALSE
      OBVIOUS
    <3>2. PICK m \in Bad : \A j \in Bad : m <= j
      <4> HIDE DEF Bad
      <4>1. Bad \in SUBSET Nat
        BY DEF Bad
      <4> QED BY <3>1, <4>1, LeastNumber
    <3>3. m # k /\ m \in k..n /\ m \in Nat
      BY <2>2, <3>2
    <3>4. m - 1 \in k..n /\ m - 1 \in 1..n /\ m \in 1..n /\ m # 1 /\ m - 1 \in Nat /\ ~(m <= m - 1)
      BY <1>1, <2>1, <3>3
    <3>5. p <= L(m - 1) /\ g[m - 1][p] = q[k][i]
      BY <3>2, <3>4
    <3>6. L(m) = L(m - 1) + Len(q[m]) /\ L(m - 1) \in Nat /\ Len(q[m]) \in Nat
      BY <1>1, <1>3, <1>4, <3>4
    <3>7. p \in 1..L(m - 1) /\ p <= L(m)
      BY <2>1, <3>5, <3>6
    <3>8. g[m][p] = g[m - 1][p]
      BY <1>4, <3>4, <3>7
    <3> QED BY <3>2, <3>5, <3>7, <3>8
  <2>4. n \in k..n /\ n \in Nat
    BY <1>1
  <2>5. g[n][p] = q[k][i]
    BY <2>3, <2>4
  <2> QED BY <2>5 DEF p
<1>6. FlattenSeq(q) = IF n = 0 THEN <<>> ELSE g[n]
  <2>1. CASE n = 0
    <3>1. q = <<>>
      BY <2>1, EmptySeq DEF n
    <3> QED BY <2>1, <3>1, FlattenFits
  <2>2. CASE n # 0
    BY <2>2, FlattenIsLast DEF n, g
  <2> QED BY <2>1, <2>2
<1>7. FlattenSeq(q) \in Seq(S)
  BY FlattenFits
<1>8. Len(FlattenSeq(q)) = L(n)
  <2>1. CASE n = 0
    BY <1>3, <1>6, <2>1, EmptySeq
  <2>2. CASE n # 0
    <3>1. n \in 1..n
      BY <1>1, <2>2
    <3> QED BY <1>3, <1>6, <2>2, <3>1
  <2> QED BY <2>1, <2>2
<1>9. \A k \in 1..n : \A i \in 1..Len(q[k]) : FlattenSeq(q)[L(k - 1) + i] = q[k][i]
  <2>1. \A k \in 1..n : n # 0
    BY <1>1
  <2> QED BY <1>5, <1>6, <2>1
<1>10. \A k \in 0..n : L(k) \in Nat
  <2>1. \A k \in 0..n : k = 0 \/ k \in 1..n
    BY <1>1
  <2> QED BY <1>3, <2>1
<1> QED BY <1>1, <1>4, <1>7, <1>8, <1>9, <1>10 DEF n, L

-----------------------------------------------------------------------------
(* Where the parts of a request are in its text.                           *)
HeaderLine(h) == h.key \o <<":", "sp">> \o h.val \o <<"cr", "lf">>
Lines(r) == [i \in DOMAIN r.headers |-> HeaderLine(r.headers[i])]

(* What comes before the k-th header; the end of the head is the last one. *)
Ahead(r, k) == Len(r.method) + Len(r.target) + 5 + EndOf(Lines(r), k - 1)

(* The k-th header, and what comes before its value.                       *)
Key(r, k) == r.headers[k].key
Val(r, k) == r.headers[k].val
ValAt(r, k) == Ahead(r, k) + Len(Key(r, k)) + 2

(* A request has the parts it is made of.                                  *)
LEMMA RequestParts ==
  ASSUME NEW r \in Requests
  PROVE  /\ r.method \in Seq(Alphabet) /\ r.target \in Seq(Alphabet) /\ r.body \in Seq(Alphabet)
         /\ r.version \in Versions
         /\ Len(r.method) \in Nat /\ Len(r.target) \in Nat /\ Len(r.body) \in Nat
         /\ Len(r.headers) \in Nat /\ DOMAIN r.headers = 1..Len(r.headers)
         /\ \A k \in 1..Len(r.headers) :
              /\ Key(r, k) \in Seq(Alphabet) /\ Val(r, k) \in Seq(Alphabet)
              /\ Len(Key(r, k)) \in Nat /\ Len(Val(r, k)) \in Nat
<1> DEFINE H == [key : Seq(Alphabet), val : Seq(Alphabet)]
           h == r.headers
           S == Seq(Alphabet)
<1>1. /\ r.method \in S /\ r.target \in S /\ r.body \in S /\ r.version \in Versions /\ h \in Seq(H)
  BY RequestsAssumption
<1>2. \A s \in S : Len(s) \in Nat
  BY LenProperties
<1>3. \A x \in H : x.key \in S /\ x.val \in S
  OBVIOUS
<1> HIDE DEF H, h, S
<1>4. Len(h) \in Nat /\ DOMAIN h = 1..Len(h) /\ \A k \in 1..Len(h) : h[k] \in H
  BY <1>1, LenProperties, ElementOfSeq
<1>5. \A k \in 1..Len(h) : h[k].key \in S /\ h[k].val \in S
  BY <1>3, <1>4
<1> QED BY <1>1, <1>2, <1>4, <1>5 DEF h, S, Key, Val

(* A header line, place by place.                                          *)
LEMMA LineLaw ==
  ASSUME NEW h, h.key \in Seq(Alphabet), h.val \in Seq(Alphabet)
  PROVE  LET t == HeaderLine(h)
             m == Len(h.key)
             n == Len(h.val)
         IN  /\ t \in Seq(Alphabet) /\ Len(t) = m + n + 4
             /\ \A i \in 1..m : t[i] = h.key[i]
             /\ t[m + 1] = ":" /\ t[m + 2] = "sp"
             /\ \A i \in 1..n : t[m + 2 + i] = h.val[i]
             /\ t[m + n + 3] = "cr" /\ t[m + n + 4] = "lf"
<1> DEFINE S == Alphabet
           m == Len(h.key)
           n == Len(h.val)
           k == h.key
           v == h.val
           c == <<":", "sp">>
           e == <<"cr", "lf">>
           s == k \o c
           u == s \o v
           t == u \o e
<1>1. /\ k \in Seq(S) /\ v \in Seq(S) /\ c \in Seq(S) /\ e \in Seq(S)
      /\ c[1] = ":" /\ c[2] = "sp" /\ Len(c) = 2 /\ e[1] = "cr" /\ e[2] = "lf" /\ Len(e) = 2
  <2>1. ":" \in S /\ "sp" \in S /\ "cr" \in S /\ "lf" \in S
    BY DEF Alphabet
  <2> HIDE DEF S
  <2> QED BY <2>1 DEF S
<1>2. t = HeaderLine(h)
  BY DEF HeaderLine
<1> HIDE DEF S, c, e, k, v
<1>3. /\ s \in Seq(S) /\ m \in Nat /\ Len(s) = m + 2
      /\ \A i \in 1..m : s[i] = k[i]
      /\ \A i \in 1..2 : s[m + i] = c[i]
  <2>1. k \in Seq(S) /\ c \in Seq(S)
    BY <1>1
  <2>2. /\ s \in Seq(S) /\ Len(k) \in Nat /\ Len(c) \in Nat /\ Len(s) = Len(k) + Len(c)
        /\ \A i \in 1..Len(k) : s[i] = k[i]
        /\ \A i \in 1..Len(c) : s[Len(k) + i] = c[i]
    BY <2>1, TwoParts
  <2> HIDE DEF s
  <2> QED BY <1>1, <2>2 DEF m, k
<1> HIDE DEF s
<1>4. /\ u \in Seq(S) /\ n \in Nat /\ Len(u) = m + 2 + n
      /\ \A i \in 1..m + 2 : u[i] = s[i]
      /\ \A i \in 1..n : u[m + 2 + i] = v[i]
  <2>0. Len(v) = n
    BY DEF v
  <2>1. s \in Seq(S) /\ v \in Seq(S)
    BY <1>1, <1>3
  <2>2. /\ u \in Seq(S) /\ Len(s) \in Nat /\ Len(v) \in Nat /\ Len(u) = Len(s) + Len(v)
        /\ \A i \in 1..Len(s) : u[i] = s[i]
        /\ \A i \in 1..Len(v) : u[Len(s) + i] = v[i]
    BY <2>1, TwoParts
  <2> HIDE DEF u, n
  <2> QED BY <1>3, <2>0, <2>2
<1> HIDE DEF u
<1>5. /\ t \in Seq(S) /\ Len(t) = m + 2 + n + 2
      /\ \A i \in 1..m + 2 + n : t[i] = u[i]
      /\ \A i \in 1..2 : t[m + 2 + n + i] = e[i]
  <2>1. u \in Seq(S) /\ e \in Seq(S)
    BY <1>1, <1>4
  <2>2. /\ t \in Seq(S) /\ Len(u) \in Nat /\ Len(e) \in Nat /\ Len(t) = Len(u) + Len(e)
        /\ \A i \in 1..Len(u) : t[i] = u[i]
        /\ \A i \in 1..Len(e) : t[Len(u) + i] = e[i]
    BY <2>1, TwoParts
  <2> HIDE DEF t
  <2> QED BY <1>1, <1>4, <2>2
<1> HIDE DEF t, m, n
<1>6. \A i \in 1..m : t[i] = k[i]
  BY <1>3, <1>4, <1>5
<1>7. t[m + 1] = ":" /\ t[m + 2] = "sp"
  <2>1. /\ m + 1 \in 1..m + 2 /\ m + 2 \in 1..m + 2
        /\ m + 1 \in 1..m + 2 + n /\ m + 2 \in 1..m + 2 + n /\ 1 \in 1..2 /\ 2 \in 1..2
    BY <1>3, <1>4
  <2> QED BY <1>1, <1>3, <1>4, <1>5, <2>1
<1>8. \A i \in 1..n : t[m + 2 + i] = v[i]
  BY <1>3, <1>4, <1>5
<1>9. t[m + n + 3] = "cr" /\ t[m + n + 4] = "lf"
  <2>1. 1 \in 1..2 /\ 2 \in 1..2 /\ m + 2 + n + 1 = m + n + 3 /\ m + 2 + n + 2 = m + n + 4
    BY <1>3, <1>4
  <2> QED BY <1>1, <1>5, <2>1
<1>10. Len(t) = m + n + 4
  BY <1>3, <1>4, <1>5
<1> QED BY <1>2, <1>5, <1>6, <1>7, <1>8, <1>9, <1>10 DEF k, v, m, n, S

(* The request line, a header and the end of the head at their places in x *)
FirstPlaces(r, x, m, t) ==
  /\ \A i \in 1..m : x[i] = r.method[i]
  /\ x[m + 1] = "sp"
  /\ \A i \in 1..t : x[m + 1 + i] = r.target[i]
  /\ x[m + t + 2] = "sp" /\ x[m + t + 3] = r.version
  /\ x[m + t + 4] = "cr" /\ x[m + t + 5] = "lf"

(* The k-th header, its key of length c behind p and its value of length d *)
(* behind v.                                                               *)
LinePlaces(r, x, k, p, v, c, d) ==
  /\ \A i \in 1..c : x[p + i] = Key(r, k)[i]
  /\ x[v - 1] = ":" /\ x[v] = "sp"
  /\ \A i \in 1..d : x[v + i] = Val(r, k)[i]
  /\ x[v + d + 1] = "cr" /\ x[v + d + 2] = "lf"

(* The empty line behind e, and a body of length b.                        *)
LastPlaces(r, x, e, b) ==
  /\ x[e + 1] = "cr" /\ x[e + 2] = "lf"
  /\ \A i \in 1..b : x[e + 2 + i] = r.body[i]
  /\ Len(x) = e + 2 + b

(* The text of a request, place by place.                                  *)
LEMMA TextLaw ==
  ASSUME NEW r \in Requests
  PROVE  /\ FirstPlaces(r, TextOf[r], Len(r.method), Len(r.target))
         /\ Ahead(r, 1) = Len(r.method) + Len(r.target) + 5
         /\ \A k \in 1..Len(r.headers) + 1 : Ahead(r, k) \in Nat
         /\ \A k \in 1..Len(r.headers) :
              /\ Ahead(r, k + 1) = ValAt(r, k) + Len(Val(r, k)) + 2
              /\ LinePlaces(r, TextOf[r], k, Ahead(r, k), ValAt(r, k), Len(Key(r, k)), Len(Val(r, k)))
         /\ LastPlaces(r, TextOf[r], Ahead(r, Len(r.headers) + 1), Len(r.body))
<1> DEFINE S == Alphabet
           m == Len(r.method)
           t == Len(r.target)
           n == Len(r.headers)
           b == Len(r.body)
           q == Lines(r)
           lines == FlattenSeq(q)
           four == <<"sp", r.version, "cr", "lf">>
           end == <<"cr", "lf">>
           a1 == r.method \o <<"sp">>
           a2 == a1 \o r.target
           a3 == a2 \o four
           a4 == a3 \o lines
           a5 == a4 \o end
           x == a5 \o r.body
<1>1. /\ r.method \in Seq(S) /\ r.target \in Seq(S) /\ r.body \in Seq(S)
      /\ m \in Nat /\ t \in Nat /\ n \in Nat /\ b \in Nat /\ DOMAIN r.headers = 1..n
      /\ \A k \in 1..n : Key(r, k) \in Seq(S) /\ Val(r, k) \in Seq(S)
  BY RequestParts
<1>2. /\ <<"sp">> \in Seq(S) /\ four \in Seq(S) /\ end \in Seq(S)
      /\ Len(<<"sp">>) = 1 /\ Len(four) = 4 /\ Len(end) = 2
      /\ four[1] = "sp" /\ four[2] = r.version /\ four[3] = "cr" /\ four[4] = "lf"
      /\ end[1] = "cr" /\ end[2] = "lf"
  <2>1. "sp" \in S /\ "cr" \in S /\ "lf" \in S /\ r.version \in S
    BY RequestParts DEF Alphabet
  <2> HIDE DEF S
  <2> QED BY <2>1
<1>3. x = TextOf[r]
  BY Zenon DEF TextOf, HeadOf, Lines, HeaderLine
<1> HIDE DEF four, end, S
<1>4. /\ q \in Seq(Seq(S)) /\ Len(q) = n
      /\ \A k \in 1..n : q[k] = HeaderLine(r.headers[k])
  <2> DEFINE l(k) == HeaderLine(r.headers[k])
             p == [k \in 1..n |-> l(k)]
             T == Seq(S)
  <2>1. \A k \in 1..n : l(k) \in T
    BY <1>1, LineLaw DEF Key, Val, S
  <2>2. q = p
    BY <1>1 DEF Lines
  <2> HIDE DEF l, T, n, q
  <2>3. p \in Seq(T) /\ Len(p) = n /\ \A k \in 1..n : p[k] = l(k)
    BY <1>1, <2>1
  <2> QED BY <2>2, <2>3 DEF l, T
<1> HIDE DEF q
<1>5. /\ lines \in Seq(S) /\ Len(lines) = EndOf(q, n)
      /\ \A k \in 0..n : EndOf(q, k) \in Nat
      /\ \A k \in 1..n : EndOf(q, k) = EndOf(q, k - 1) + Len(q[k])
      /\ \A k \in 1..n : \A i \in 1..Len(q[k]) : lines[EndOf(q, k - 1) + i] = q[k][i]
  BY <1>4, FlatPlaces
<1> HIDE DEF lines, n
<1> DEFINE a == m + t + 5
           f == a + EndOf(q, n)
<1>6. a \in Nat /\ f \in Nat /\ EndOf(q, n) \in Nat
  <2>1. n \in 0..n
    BY <1>1
  <2>2. EndOf(q, n) \in Nat
    BY <1>5, <2>1
  <2>3. m \in Nat /\ t \in Nat
    BY <1>1
  <2> HIDE DEF m, t
  <2> QED BY <2>2, <2>3
<1>7. /\ a1 \in Seq(S) /\ Len(a1) = m + 1
      /\ \A i \in 1..m : a1[i] = r.method[i]
      /\ a1[m + 1] = "sp"
  <2>1. /\ a1 \in Seq(S) /\ Len(a1) = m + 1
        /\ \A i \in 1..m : a1[i] = r.method[i]
        /\ \A i \in 1..1 : a1[m + i] = <<"sp">>[i]
    BY <1>1, <1>2, TwoParts
  <2> HIDE DEF a1, m
  <2> QED BY <2>1
<1> HIDE DEF a1
<1>8. /\ a2 \in Seq(S) /\ Len(a2) = m + 1 + t
      /\ \A i \in 1..m + 1 : a2[i] = a1[i]
      /\ \A i \in 1..t : a2[m + 1 + i] = r.target[i]
  <2>0. t = Len(r.target) /\ m \in Nat
    BY <1>1
  <2>1. a1 \in Seq(S) /\ r.target \in Seq(S)
    BY <1>1, <1>7
  <2>2. /\ a2 \in Seq(S) /\ Len(a1) \in Nat /\ Len(r.target) \in Nat /\ Len(a2) = Len(a1) + Len(r.target)
        /\ \A i \in 1..Len(a1) : a2[i] = a1[i]
        /\ \A i \in 1..Len(r.target) : a2[Len(a1) + i] = r.target[i]
    BY <2>1, TwoParts
  <2> HIDE DEF a2, m, t
  <2> QED BY <1>7, <2>0, <2>2
<1> HIDE DEF a2
<1>9. /\ a3 \in Seq(S) /\ Len(a3) = a
      /\ \A i \in 1..m + 1 + t : a3[i] = a2[i]
      /\ \A i \in 1..4 : a3[m + 1 + t + i] = four[i]
  <2>0. m \in Nat /\ t \in Nat
    BY <1>1
  <2>1. a2 \in Seq(S) /\ four \in Seq(S)
    BY <1>2, <1>8
  <2>2. /\ a3 \in Seq(S) /\ Len(a2) \in Nat /\ Len(four) \in Nat /\ Len(a3) = Len(a2) + Len(four)
        /\ \A i \in 1..Len(a2) : a3[i] = a2[i]
        /\ \A i \in 1..Len(four) : a3[Len(a2) + i] = four[i]
    BY <2>1, TwoParts
  <2> HIDE DEF a3, m, t
  <2> QED BY <1>2, <1>8, <2>0, <2>2
<1> HIDE DEF a3
<1>10. /\ a4 \in Seq(S) /\ Len(a4) = f
       /\ \A i \in 1..a : a4[i] = a3[i]
       /\ \A i \in 1..EndOf(q, n) : a4[a + i] = lines[i]
  <2>1. a3 \in Seq(S) /\ lines \in Seq(S)
    BY <1>5, <1>9
  <2>2. /\ a4 \in Seq(S) /\ Len(a3) \in Nat /\ Len(lines) \in Nat /\ Len(a4) = Len(a3) + Len(lines)
        /\ \A i \in 1..Len(a3) : a4[i] = a3[i]
        /\ \A i \in 1..Len(lines) : a4[Len(a3) + i] = lines[i]
    BY <2>1, TwoParts
  <2> HIDE DEF a4, a
  <2> QED BY <1>5, <1>6, <1>9, <2>2
<1> HIDE DEF a4
<1>11. /\ a5 \in Seq(S) /\ Len(a5) = f + 2
       /\ \A i \in 1..f : a5[i] = a4[i]
       /\ \A i \in 1..2 : a5[f + i] = end[i]
  <2>1. a4 \in Seq(S) /\ end \in Seq(S)
    BY <1>2, <1>10
  <2>2. /\ a5 \in Seq(S) /\ Len(a4) \in Nat /\ Len(end) \in Nat /\ Len(a5) = Len(a4) + Len(end)
        /\ \A i \in 1..Len(a4) : a5[i] = a4[i]
        /\ \A i \in 1..Len(end) : a5[Len(a4) + i] = end[i]
    BY <2>1, TwoParts
  <2> HIDE DEF a5, f
  <2> QED BY <1>2, <1>6, <1>10, <2>2
<1> HIDE DEF a5
<1>12. /\ x \in Seq(S) /\ Len(x) = f + 2 + b
       /\ \A i \in 1..f + 2 : x[i] = a5[i]
       /\ \A i \in 1..b : x[f + 2 + i] = r.body[i]
  <2>0. b = Len(r.body) /\ b \in Nat
    BY <1>1
  <2>1. a5 \in Seq(S) /\ r.body \in Seq(S)
    BY <1>1, <1>11
  <2>2. /\ x \in Seq(S) /\ Len(a5) \in Nat /\ Len(r.body) \in Nat /\ Len(x) = Len(a5) + Len(r.body)
        /\ \A i \in 1..Len(a5) : x[i] = a5[i]
        /\ \A i \in 1..Len(r.body) : x[Len(a5) + i] = r.body[i]
    BY <2>1, TwoParts
  <2> HIDE DEF x, f, b
  <2> QED BY <1>6, <1>11, <2>0, <2>2
<1> HIDE DEF x, m, t, b
<1>13. /\ \A i \in 1..a : x[i] = a3[i]
       /\ \A i \in 1..EndOf(q, n) : x[a + i] = lines[i]
       /\ x[f + 1] = "cr" /\ x[f + 2] = "lf"
  <2>1. \A i \in 1..a : i \in 1..f /\ i \in 1..f + 2
    BY <1>6
  <2>2. \A i \in 1..EndOf(q, n) : a + i \in 1..f /\ a + i \in 1..f + 2
    BY <1>6
  <2>3. f + 1 \in 1..f + 2 /\ f + 2 \in 1..f + 2 /\ 1 \in 1..2 /\ 2 \in 1..2
    BY <1>6
  <2> HIDE DEF a, f
  <2> QED BY <1>2, <1>10, <1>11, <1>12, <2>1, <2>2, <2>3
<1>14. /\ \A i \in 1..m : x[i] = r.method[i]
       /\ x[m + 1] = "sp"
       /\ \A i \in 1..t : x[m + 1 + i] = r.target[i]
  <2>1. \A i \in 1..m : i \in 1..a /\ i \in 1..m + 1 + t /\ i \in 1..m + 1
    BY <1>1
  <2>2. m + 1 \in 1..a /\ m + 1 \in 1..m + 1 + t /\ m + 1 \in 1..m + 1
    BY <1>1
  <2>3. \A i \in 1..t : m + 1 + i \in 1..a /\ m + 1 + i \in 1..m + 1 + t
    BY <1>1
  <2> HIDE DEF a
  <2> QED BY <1>7, <1>8, <1>9, <1>13, <2>1, <2>2, <2>3
<1>15. x[m + t + 2] = "sp" /\ x[m + t + 3] = r.version /\ x[m + t + 4] = "cr" /\ x[m + t + 5] = "lf"
  <2>1. \A i \in 1..4 : x[m + 1 + t + i] = four[i]
    <3>1. \A i \in 1..4 : m + 1 + t + i \in 1..a
      BY <1>1
    <3> HIDE DEF a
    <3> QED BY <1>9, <1>13, <3>1
  <2>2. /\ m + 1 + t + 1 = m + t + 2 /\ m + 1 + t + 2 = m + t + 3 /\ m + 1 + t + 3 = m + t + 4
        /\ m + 1 + t + 4 = m + t + 5 /\ 1 \in 1..4 /\ 2 \in 1..4 /\ 3 \in 1..4 /\ 4 \in 1..4
    BY <1>1
  <2> QED BY <1>2, <2>1, <2>2
<1>16. \A k \in 1..n + 1 : Ahead(r, k) = a + EndOf(q, k - 1) /\ Ahead(r, k) \in Nat
  <2>1. \A k \in 1..n + 1 : k - 1 \in 0..n
    BY <1>1
  <2>2. \A k \in 1..n + 1 : Ahead(r, k) = a + EndOf(q, k - 1)
    BY DEF Ahead, q, m, t
  <2>3. \A k \in 1..n + 1 : EndOf(q, k - 1) \in Nat
    BY <1>5, <2>1
  <2> HIDE DEF a
  <2> QED BY <1>6, <2>2, <2>3
<1>17. Ahead(r, 1) = a /\ Ahead(r, n + 1) = f
  <2>1. 1 \in 1..n + 1 /\ n + 1 \in 1..n + 1 /\ (n + 1) - 1 = n /\ 1 - 1 = 0
    BY <1>1
  <2>2. EndOf(q, 0) = 0
    BY DEF EndOf
  <2>3. \A k \in 1..n + 1 : Ahead(r, k) = a + EndOf(q, k - 1)
    BY <1>16
  <2>4. Ahead(r, 1) = a + EndOf(q, 1 - 1)
    <3> HIDE DEF a
    <3> QED BY <2>1, <2>3
  <2>5. Ahead(r, n + 1) = a + EndOf(q, (n + 1) - 1)
    <3> DEFINE l == n + 1
    <3>1. l \in 1..n + 1
      BY <2>1
    <3> HIDE DEF a, l
    <3>2. Ahead(r, l) = a + EndOf(q, l - 1)
      BY <2>3, <3>1
    <3> QED BY <3>2 DEF l
  <2>6. a + EndOf(q, 1 - 1) = a
    <3> HIDE DEF a
    <3>1. EndOf(q, 1 - 1) = EndOf(q, 0)
      BY <2>1
    <3> QED BY <1>6, <2>2, <3>1
  <2>7. a + EndOf(q, (n + 1) - 1) = f
    <3> HIDE DEF a
    <3> QED BY <2>1
  <2> HIDE DEF a, f
  <2> QED BY <2>4, <2>5, <2>6, <2>7
<1>18. ASSUME NEW k \in 1..n
       PROVE  /\ Ahead(r, k + 1) = ValAt(r, k) + Len(Val(r, k)) + 2
              /\ LinePlaces(r, x, k, Ahead(r, k), ValAt(r, k), Len(Key(r, k)), Len(Val(r, k)))
  <2> DEFINE h == r.headers[k]
             c == Len(h.key)
             d == Len(h.val)
             l == q[k]
             o == EndOf(q, k - 1)
             p == Ahead(r, k)
  <2>1. /\ Len(l) = c + d + 4
        /\ \A i \in 1..c : l[i] = h.key[i]
        /\ l[c + 1] = ":" /\ l[c + 2] = "sp"
        /\ \A i \in 1..d : l[c + 2 + i] = h.val[i]
        /\ l[c + d + 3] = "cr" /\ l[c + d + 4] = "lf"
    <3>1. h.key \in Seq(Alphabet) /\ h.val \in Seq(Alphabet)
      BY <1>1 DEF Key, Val, S
    <3>2. l = HeaderLine(h)
      BY <1>4
    <3> HIDE DEF l, h
    <3> QED BY <3>1, <3>2, LineLaw
  <2>2. c \in Nat /\ d \in Nat /\ Key(r, k) = h.key /\ Val(r, k) = h.val
    BY RequestParts DEF Key, Val, n
  <2>3. k - 1 \in 0..n /\ k \in 0..n /\ k \in 1..n + 1 /\ k + 1 \in 1..n + 1 /\ k + 1 - 1 = k
    BY <1>1
  <2>4. p = a + o /\ o \in Nat /\ p \in Nat /\ Ahead(r, k + 1) = a + EndOf(q, k)
        /\ EndOf(q, k) = o + c + d + 4
    <3>1. EndOf(q, k) = o + Len(l) /\ o \in Nat
      BY <1>5, <2>3
    <3> HIDE DEF o, l, c, d
    <3> QED BY <1>16, <2>1, <2>2, <2>3, <3>1 DEF o
  <2>5. \A i \in 1..Len(l) : x[p + i] = l[i]
    <3>1. TAKE i \in 1..Len(l)
    <3>2. o + i <= EndOf(q, k) /\ o + i >= 1 /\ o + i \in Nat
      <4> HIDE DEF c, d, l, o
      <4> QED BY <2>1, <2>2, <2>4
    <3>3. EndOf(q, k) <= EndOf(q, n)
      <4> DEFINE Bad == {j \in Nat : j \in k..n /\ ~(EndOf(q, k) <= EndOf(q, j))}
      <4>1. Bad = {}
        <5>1. SUFFICES ASSUME Bad # {} PROVE FALSE
          OBVIOUS
        <5>2. PICK j \in Bad : \A y \in Bad : j <= y
          <6>1. Bad \in SUBSET Nat
            OBVIOUS
          <6> HIDE DEF Bad
          <6> QED BY <5>1, <6>1, LeastNumber
        <5>3. EndOf(q, k) \in Nat
          BY <1>5, <2>3
        <5>4. j # k /\ j \in k..n
          BY <5>2, <5>3
        <5>5. j - 1 \in k..n /\ j \in 1..n /\ j - 1 \in 0..n /\ j - 1 \in Nat /\ ~(j <= j - 1)
          BY <1>1, <5>4
        <5>6. EndOf(q, k) <= EndOf(q, j - 1)
          BY <5>2, <5>5
        <5>7. EndOf(q, j) = EndOf(q, j - 1) + Len(q[j]) /\ EndOf(q, j - 1) \in Nat
          BY <1>5, <5>5
        <5>8. Len(q[j]) \in Nat
          <6>1. q[j] \in Seq(S)
            BY <1>4, <5>5, ElementOfSeq
          <6> QED BY <6>1, LenProperties
        <5>9. EndOf(q, k) <= EndOf(q, j)
          BY <5>3, <5>6, <5>7, <5>8
        <5> QED BY <5>2, <5>9
      <4>2. n \in k..n /\ n \in Nat
        BY <1>1
      <4> QED BY <4>1, <4>2
    <3>4. EndOf(q, k) \in Nat
      BY <1>5, <2>3
    <3>5. o + i \in 1..EndOf(q, n)
      <4> HIDE DEF o
      <4> QED BY <1>6, <3>2, <3>3, <3>4
    <3>6. x[a + (o + i)] = lines[o + i] /\ lines[o + i] = l[i]
      BY <1>5, <1>13, <3>5
    <3>7. a + (o + i) = p + i
      <4>1. i \in Int
        OBVIOUS
      <4> HIDE DEF a, o, p
      <4> QED BY <1>6, <2>4, <4>1
    <3> QED BY <3>6, <3>7
  <2>6. ValAt(r, k) = p + c + 2
    BY <2>2 DEF ValAt
  <2> HIDE DEF c, d, l, o, p
  <2>7. Ahead(r, k + 1) = p + c + 2 + d + 2
    <3> HIDE DEF a
    <3> QED BY <1>6, <2>2, <2>4
  <2>8. \A i \in 1..c : x[p + i] = h.key[i]
    BY <2>1, <2>2, <2>5
  <2>9. x[p + (c + 1)] = ":" /\ x[p + (c + 2)] = "sp"
    <3>1. c + 1 \in 1..Len(l) /\ c + 2 \in 1..Len(l)
      BY <2>1, <2>2
    <3> QED BY <2>1, <2>5, <3>1
  <2>10. ASSUME NEW i \in 1..d PROVE x[p + (c + 2 + i)] = h.val[i]
    <3>1. c + 2 + i \in 1..Len(l)
      BY <2>1, <2>2
    <3> QED BY <2>1, <2>5, <3>1
  <2>11. x[p + (c + d + 3)] = "cr" /\ x[p + (c + d + 4)] = "lf"
    <3>1. c + d + 3 \in 1..Len(l) /\ c + d + 4 \in 1..Len(l)
      BY <2>1, <2>2
    <3> QED BY <2>1, <2>5, <3>1
  <2> DEFINE v == p + c + 2
  <2>12. /\ p + (c + 1) = v - 1 /\ p + (c + 2) = v
         /\ p + (c + d + 3) = v + d + 1 /\ p + (c + d + 4) = v + d + 2
         /\ \A i \in 1..d : p + (c + 2 + i) = v + i
    BY <2>2, <2>4
  <2>13. v = p + c + 2 /\ Ahead(r, k + 1) = v + d + 2
    BY <2>7
  <2> HIDE DEF v
  <2>14. x[v - 1] = ":" /\ x[v] = "sp" /\ x[v + d + 1] = "cr" /\ x[v + d + 2] = "lf"
    BY <2>9, <2>11, <2>12
  <2>15. \A i \in 1..d : x[v + i] = h.val[i]
    BY <2>10, <2>12
  <2>16. Len(Key(r, k)) = c /\ Len(Val(r, k)) = d /\ Ahead(r, k) = p /\ ValAt(r, k) = p + c + 2
    BY <2>2, <2>6 DEF c, d, p
  <2> HIDE DEF h
  <2>17. LinePlaces(r, x, k, p, v, c, d)
    BY Zenon, <2>2, <2>8, <2>14, <2>15 DEF LinePlaces
  <2> QED BY <2>13, <2>16, <2>17
<1>19. m = Len(r.method) /\ t = Len(r.target) /\ n = Len(r.headers) /\ b = Len(r.body)
  BY DEF m, t, n, b
<1>20. Ahead(r, 1) = m + t + 5
  BY <1>17
<1>21. FirstPlaces(r, x, m, t)
  BY Zenon, <1>14, <1>15 DEF FirstPlaces
<1> HIDE DEF a, f
<1>22. LastPlaces(r, x, f, b)
  BY Zenon, <1>12, <1>13 DEF LastPlaces
<1>23. \A k \in 1..n + 1 : Ahead(r, k) \in Nat
  BY <1>16
<1> QED BY <1>3, <1>17, <1>18, <1>19, <1>20, <1>21, <1>22, <1>23

-----------------------------------------------------------------------------
(* The rules, by the part of the request that they read.                   *)

(* The states in a key, between a key and its value, in the spaces before  *)
(* a value, and in a value.                                                *)
Keying     == {"key", "length", "coding"}
Separating == {"sep", "lengthsep", "codingsep"}
Beginning  == {"value0", "length0", "coding0"}
Valuing    == {"value", "lengthval"}

(* A rule, field by field.                                                 *)
Is(r, from, at, to, enter, does) ==
  /\ r.from = from /\ r.at = at /\ r.to = to /\ r.enter = enter /\ r.does = does

(* The rules of the request line.                                          *)
FirstRule(r) ==
  \/ Is(r, "start", Letters, "method", "METHOD", {"count"})
  \/ Is(r, "method", Letters, "method", "", {"count"})
  \/ Is(r, "method", {"sp"}, "target0", "", {"ready"})
  \/ Is(r, "target0", AllBut({"sp"}), "target", "TARGET", {"count"})
  \/ Is(r, "target", {"sp"}, "version0", "", {"ready"})
  \/ Is(r, "target", AllBut({"sp"}), "target", "", {"count"})
  \/ Is(r, "version0", Versions, "version", "VERSION", {})
  \/ Is(r, "version", {"cr"}, "line", "", {"ready"})
  \/ Is(r, "line", {"lf"}, "key0", "", {})

(* The rules of the ends of lines.                                         *)
BreakRule(r) ==
  \/ Is(r, "valcr", {"lf"}, "next", "", {"count"})
  \/ Is(r, "next", {"cr"}, "last", "HEADER_KEY", {"count"})
  \/ Is(r, "last", {"lf"}, "done", "", {"count", "done"})
  \/ Is(r, "last", InKey \ {"lf"}, "key", "", {"count"})
  \/ Is(r, "last", {":"}, "sep", "", {"ready"})
  \/ Is(r, "empty", {"lf"}, "next", "", {"count"})
  \/ Is(r, "empty", {"cr"}, "valcr", "", {"ready"})
  \/ Is(r, "empty", AllBut({"cr", "lf"}), "value", "", {"count"})

(* The rules of a key, up to its colon.                                    *)
KeyRule(r) ==
  \/ /\ r.from \in {"key0", "next"} /\ r.enter = "HEADER_KEY" /\ r.does = {"count"}
     /\ r.from = "next" => "cr" \notin r.at
     /\ \/ r.to = "key" /\ "Content-Length" \notin r.at /\ ":" \notin r.at
        \/ r.to = "length" /\ r.at = {"Content-Length"}
        \/ r.to = "coding" /\ r.at = {"Transfer-Encoding"}
  \/ r.from \in Keying /\ Is(r, r.from, InKey, "key", "", {"count"})
  \/ /\ r.from \in Keying /\ r.at = {":"} /\ r.to \in Separating /\ r.enter = "" /\ r.does = {"ready"}
     /\ r.to = "lengthsep" <=> r.from = "length"

(* The rules of a value, up to its cr.                                     *)
ValueRule(r) ==
  \/ /\ r.from \in Separating /\ r.at = {"sp"} /\ r.to \in Beginning /\ r.enter = "" /\ r.does = {}
     /\ r.to = "length0" <=> r.from = "lengthsep"
  \/ /\ r.from \in Beginning /\ r.enter = "HEADER_VALUE"
     /\ \/ r.at = {"cr"} /\ r.to = "empty" /\ r.does = {"count", "ready"}
        \/ r.at = {"sp"} /\ r.to = r.from /\ r.does = {"count"}
        \/ "cr" \notin r.at /\ "sp" \notin r.at /\ r.to = "value" /\ r.does = {"count"}
           /\ (r.from = "length0" => r.at \cap DOMAIN Digit = {})
        \/ r.from = "coding0" /\ Is(r, r.from, {"chunked"}, "value", "HEADER_VALUE", {"chunked", "count"})
        \/ r.from = "length0" /\ r.at = DOMAIN Digit /\ r.to = "lengthval" /\ r.does = {"digit", "count"}
  \/ r.from \in Valuing /\ Is(r, r.from, {"cr"}, "valcr", "", {"ready"})
  \/ /\ r.from \in Valuing /\ r.to = "value" /\ r.enter = "" /\ r.does = {"count"}
     /\ "cr" \notin r.at /\ (r.from = "lengthval" => r.at \cap DOMAIN Digit = {})
  \/ Is(r, "lengthval", DOMAIN Digit, "lengthval", "", {"digit", "count"})

(* A rule is made of its fields.                                           *)
LEMMA RuleIs ==
  ASSUME NEW from, NEW at, NEW to, NEW enter, NEW does
  PROVE  Is(Rule(from, at, to, enter, does), from, at, to, enter, does)
BY DEF Is, Rule

(* These are all the rules of the automaton.                               *)
LEMMA RuleTable ==
  ASSUME NEW r \in Rules
  PROVE  FirstRule(r) \/ BreakRule(r) \/ KeyRule(r) \/ ValueRule(r)
<1>1. ASSUME NEW s \in {"key0", "next"}, NEW plain, ":" \notin plain, s = "next" => "cr" \notin plain,
             r \in KeyRules(s, plain)
      PROVE  KeyRule(r)
  <2>0. /\ Is(Rule(s, plain \ {"Content-Length", "Transfer-Encoding"}, "key", "HEADER_KEY", {"count"}), s, plain \ {"Content-Length", "Transfer-Encoding"}, "key", "HEADER_KEY", {"count"})
        /\ Is(Rule(s, {"Content-Length"}, "length", "HEADER_KEY", {"count"}), s, {"Content-Length"}, "length", "HEADER_KEY", {"count"})
        /\ Is(Rule(s, {"Transfer-Encoding"}, "coding", "HEADER_KEY", {"count"}), s, {"Transfer-Encoding"}, "coding", "HEADER_KEY", {"count"})
    BY RuleIs, Zenon
  <2>1. \/ Is(r, s, plain \ {"Content-Length", "Transfer-Encoding"}, "key", "HEADER_KEY", {"count"})
        \/ Is(r, s, {"Content-Length"}, "length", "HEADER_KEY", {"count"})
        \/ Is(r, s, {"Transfer-Encoding"}, "coding", "HEADER_KEY", {"count"})
    BY <1>1, <2>0 DEF KeyRules
  <2> DEFINE rest == plain \ {"Content-Length", "Transfer-Encoding"}
  <2>2. /\ ":" \notin rest /\ "Content-Length" \notin rest /\ (s = "next" => "cr" \notin rest)
        /\ "cr" \notin {"Content-Length"} /\ "cr" \notin {"Transfer-Encoding"}
    BY <1>1
  <2> HIDE DEF rest
  <2>3. CASE Is(r, s, rest, "key", "HEADER_KEY", {"count"})
    BY <2>2, <2>3 DEF KeyRule, Is
  <2>4. CASE Is(r, s, {"Content-Length"}, "length", "HEADER_KEY", {"count"})
    BY <2>2, <2>4 DEF KeyRule, Is
  <2>5. CASE Is(r, s, {"Transfer-Encoding"}, "coding", "HEADER_KEY", {"count"})
    BY <2>2, <2>5 DEF KeyRule, Is
  <2> QED BY <2>1, <2>3, <2>4, <2>5 DEF rest
<1>2. ASSUME NEW s \in Keying, NEW sep \in Separating, sep = "lengthsep" <=> s = "length",
             r \in KeyEndRules(s, sep)
      PROVE  KeyRule(r)
  <2>0. /\ Is(Rule(s, InKey, "key", "", {"count"}), s, InKey, "key", "", {"count"})
        /\ Is(Rule(s, {":"}, sep, "", {"ready"}), s, {":"}, sep, "", {"ready"})
    BY RuleIs, Zenon
  <2>1. \/ Is(r, s, InKey, "key", "", {"count"})
        \/ Is(r, s, {":"}, sep, "", {"ready"})
    BY <1>2, <2>0 DEF KeyEndRules
  <2> QED BY <1>2, <2>1 DEF KeyRule, Is
<1>3. ASSUME NEW sep \in Separating, NEW v \in Beginning, NEW special,
             v = "length0" <=> sep = "lengthsep", v = "length0" => special = DOMAIN Digit,
             r \in ValueBeginRules(sep, v, special)
      PROVE  ValueRule(r)
  <2> DEFINE plain == AllBut({"cr", "sp"} \cup special)
  <2>0. /\ Is(Rule(sep, {"sp"}, v, "", {}), sep, {"sp"}, v, "", {})
        /\ Is(Rule(v, {"cr"}, "empty", "HEADER_VALUE", {"count", "ready"}), v, {"cr"}, "empty", "HEADER_VALUE", {"count", "ready"})
        /\ Is(Rule(v, {"sp"}, v, "HEADER_VALUE", {"count"}), v, {"sp"}, v, "HEADER_VALUE", {"count"})
        /\ Is(Rule(v, plain, "value", "HEADER_VALUE", {"count"}), v, plain, "value", "HEADER_VALUE", {"count"})
    BY RuleIs, Zenon
  <2>1. \/ Is(r, sep, {"sp"}, v, "", {})
        \/ Is(r, v, {"cr"}, "empty", "HEADER_VALUE", {"count", "ready"})
        \/ Is(r, v, {"sp"}, v, "HEADER_VALUE", {"count"})
        \/ Is(r, v, plain, "value", "HEADER_VALUE", {"count"})
    BY <1>3, <2>0 DEF ValueBeginRules
  <2>2. "cr" \notin plain /\ "sp" \notin plain /\ plain \cap special = {}
    BY DEF AllBut
  <2> HIDE DEF plain
  <2>3. CASE Is(r, sep, {"sp"}, v, "", {})
    BY <1>3, <2>3 DEF ValueRule, Is
  <2>4. CASE Is(r, v, {"cr"}, "empty", "HEADER_VALUE", {"count", "ready"})
    BY <1>3, <2>4 DEF ValueRule, Is
  <2>5. CASE Is(r, v, {"sp"}, v, "HEADER_VALUE", {"count"})
    BY <1>3, <2>5 DEF ValueRule, Is
  <2>6. CASE Is(r, v, plain, "value", "HEADER_VALUE", {"count"})
    <3>1. r.from = v /\ r.enter = "HEADER_VALUE" /\ r.to = "value" /\ r.does = {"count"} /\ r.at = plain
      BY <2>6 DEF Is
    <3>2. r.from = "length0" => r.at \cap DOMAIN Digit = {}
      BY <1>3, <2>2, <3>1
    <3> QED BY <1>3, <2>2, <3>1, <3>2 DEF ValueRule
  <2> QED BY <2>1, <2>3, <2>4, <2>5, <2>6
<1>4. ASSUME NEW s \in Valuing, NEW special, s = "lengthval" => special = DOMAIN Digit,
             r \in ValueRules(s, special)
      PROVE  ValueRule(r)
  <2> DEFINE plain == AllBut({"cr", "lf"} \cup special)
  <2>0. /\ Is(Rule(s, {"cr"}, "valcr", "", {"ready"}), s, {"cr"}, "valcr", "", {"ready"})
        /\ Is(Rule(s, plain, "value", "", {"count"}), s, plain, "value", "", {"count"})
    BY RuleIs, Zenon
  <2>1. \/ Is(r, s, {"cr"}, "valcr", "", {"ready"})
        \/ Is(r, s, plain, "value", "", {"count"})
    BY <1>4, <2>0 DEF ValueRules
  <2>2. "cr" \notin plain /\ plain \cap special = {}
    BY DEF AllBut
  <2> HIDE DEF plain
  <2>3. CASE Is(r, s, {"cr"}, "valcr", "", {"ready"})
    BY <1>4, <2>3 DEF ValueRule, Is
  <2>4. CASE Is(r, s, plain, "value", "", {"count"})
    <3>1. r.from = s /\ r.enter = "" /\ r.to = "value" /\ r.does = {"count"} /\ r.at = plain
      BY <2>4 DEF Is
    <3>2. r.from = "lengthval" => r.at \cap DOMAIN Digit = {}
      BY <1>4, <2>2, <3>1
    <3> QED BY <1>4, <2>2, <3>1, <3>2 DEF ValueRule
  <2> QED BY <2>1, <2>3, <2>4
<1> DEFINE First ==
             { Rule("start", Letters, "method", "METHOD", {"count"}),
               Rule("method", Letters, "method", "", {"count"}),
               Rule("method", {"sp"}, "target0", "", {"ready"}),
               Rule("target0", AllBut({"sp"}), "target", "TARGET", {"count"}),
               Rule("target", {"sp"}, "version0", "", {"ready"}),
               Rule("target", AllBut({"sp"}), "target", "", {"count"}),
               Rule("version0", Versions, "version", "VERSION", {}),
               Rule("version", {"cr"}, "line", "", {"ready"}),
               Rule("line", {"lf"}, "key0", "", {}) }
           Break ==
             { Rule("valcr", {"lf"}, "next", "", {"count"}),
               Rule("next", {"cr"}, "last", "HEADER_KEY", {"count"}),
               Rule("last", {"lf"}, "done", "", {"count", "done"}),
               Rule("last", InKey \ {"lf"}, "key", "", {"count"}),
               Rule("last", {":"}, "sep", "", {"ready"}),
               Rule("empty", {"lf"}, "next", "", {"count"}),
               Rule("empty", {"cr"}, "valcr", "", {"ready"}),
               Rule("empty", AllBut({"cr", "lf"}), "value", "", {"count"}) }
           Special ==
             { Rule("length0", DOMAIN Digit, "lengthval", "HEADER_VALUE", {"digit", "count"}),
               Rule("lengthval", DOMAIN Digit, "lengthval", "", {"digit", "count"}),
               Rule("coding0", {"chunked"}, "value", "HEADER_VALUE", {"chunked", "count"}) }
<1>5. r \in First => FirstRule(r)
  <2>1. /\ Is(Rule("start", Letters, "method", "METHOD", {"count"}), "start", Letters, "method", "METHOD", {"count"})
        /\ Is(Rule("method", Letters, "method", "", {"count"}), "method", Letters, "method", "", {"count"})
        /\ Is(Rule("method", {"sp"}, "target0", "", {"ready"}), "method", {"sp"}, "target0", "", {"ready"})
        /\ Is(Rule("target0", AllBut({"sp"}), "target", "TARGET", {"count"}), "target0", AllBut({"sp"}), "target", "TARGET", {"count"})
        /\ Is(Rule("target", {"sp"}, "version0", "", {"ready"}), "target", {"sp"}, "version0", "", {"ready"})
        /\ Is(Rule("target", AllBut({"sp"}), "target", "", {"count"}), "target", AllBut({"sp"}), "target", "", {"count"})
        /\ Is(Rule("version0", Versions, "version", "VERSION", {}), "version0", Versions, "version", "VERSION", {})
        /\ Is(Rule("version", {"cr"}, "line", "", {"ready"}), "version", {"cr"}, "line", "", {"ready"})
        /\ Is(Rule("line", {"lf"}, "key0", "", {}), "line", {"lf"}, "key0", "", {})
    BY RuleIs, Zenon
  <2> QED BY <2>1 DEF First, FirstRule
<1>6. r \in Break => BreakRule(r)
  <2>1. /\ Is(Rule("valcr", {"lf"}, "next", "", {"count"}), "valcr", {"lf"}, "next", "", {"count"})
        /\ Is(Rule("next", {"cr"}, "last", "HEADER_KEY", {"count"}), "next", {"cr"}, "last", "HEADER_KEY", {"count"})
        /\ Is(Rule("last", {"lf"}, "done", "", {"count", "done"}), "last", {"lf"}, "done", "", {"count", "done"})
        /\ Is(Rule("last", InKey \ {"lf"}, "key", "", {"count"}), "last", InKey \ {"lf"}, "key", "", {"count"})
        /\ Is(Rule("last", {":"}, "sep", "", {"ready"}), "last", {":"}, "sep", "", {"ready"})
        /\ Is(Rule("empty", {"lf"}, "next", "", {"count"}), "empty", {"lf"}, "next", "", {"count"})
        /\ Is(Rule("empty", {"cr"}, "valcr", "", {"ready"}), "empty", {"cr"}, "valcr", "", {"ready"})
        /\ Is(Rule("empty", AllBut({"cr", "lf"}), "value", "", {"count"}), "empty", AllBut({"cr", "lf"}), "value", "", {"count"})
    BY RuleIs, Zenon
  <2> QED BY <2>1 DEF Break, BreakRule
<1>7. r \in Special => ValueRule(r)
  <2>1. /\ Is(Rule("length0", DOMAIN Digit, "lengthval", "HEADER_VALUE", {"digit", "count"}), "length0", DOMAIN Digit, "lengthval", "HEADER_VALUE", {"digit", "count"})
        /\ Is(Rule("lengthval", DOMAIN Digit, "lengthval", "", {"digit", "count"}), "lengthval", DOMAIN Digit, "lengthval", "", {"digit", "count"})
        /\ Is(Rule("coding0", {"chunked"}, "value", "HEADER_VALUE", {"chunked", "count"}), "coding0", {"chunked"}, "value", "HEADER_VALUE", {"chunked", "count"})
    BY RuleIs, Zenon
  <2>2. r \in Special =>
           \/ Is(r, "length0", DOMAIN Digit, "lengthval", "HEADER_VALUE", {"digit", "count"})
           \/ Is(r, "lengthval", DOMAIN Digit, "lengthval", "", {"digit", "count"})
           \/ Is(r, "coding0", {"chunked"}, "value", "HEADER_VALUE", {"chunked", "count"})
    BY <2>1 DEF Special
  <2> QED BY <2>2 DEF ValueRule, Is, Beginning, Valuing
<1>8. \/ r \in First \/ r \in Break \/ r \in Special
      \/ r \in KeyRules("key0", InKey) \/ r \in KeyRules("next", InKey \ {"cr"})
      \/ r \in KeyEndRules("key", "sep") \/ r \in KeyEndRules("length", "lengthsep")
      \/ r \in KeyEndRules("coding", "codingsep")
      \/ r \in ValueBeginRules("sep", "value0", {})
      \/ r \in ValueBeginRules("lengthsep", "length0", DOMAIN Digit)
      \/ r \in ValueBeginRules("codingsep", "coding0", {"chunked"})
      \/ r \in ValueRules("value", {}) \/ r \in ValueRules("lengthval", DOMAIN Digit)
  BY DEF Rules, First, Break, Special
<1> HIDE DEF First, Break, Special
<1>9. r \in KeyRules("key0", InKey) \/ r \in KeyRules("next", InKey \ {"cr"}) => KeyRule(r)
  <2>1. ":" \notin InKey /\ ":" \notin InKey \ {"cr"} /\ "cr" \notin InKey \ {"cr"}
    BY DEF InKey
  <2>2. "key0" \in {"key0", "next"} /\ "next" \in {"key0", "next"} /\ "key0" # "next"
    OBVIOUS
  <2> HIDE DEF KeyRules, KeyRule
  <2> QED BY <1>1, <2>1, <2>2
<1>10. \/ r \in KeyEndRules("key", "sep") \/ r \in KeyEndRules("length", "lengthsep")
       \/ r \in KeyEndRules("coding", "codingsep")
       => KeyRule(r)
  BY <1>2 DEF Keying, Separating
<1>11. \/ r \in ValueBeginRules("sep", "value0", {})
       \/ r \in ValueBeginRules("lengthsep", "length0", DOMAIN Digit)
       \/ r \in ValueBeginRules("codingsep", "coding0", {"chunked"})
       => ValueRule(r)
  BY <1>3 DEF Separating, Beginning
<1>12. r \in ValueRules("value", {}) \/ r \in ValueRules("lengthval", DOMAIN Digit) => ValueRule(r)
  BY <1>4 DEF Valuing
<1> QED BY <1>5, <1>6, <1>7, <1>8, <1>9, <1>10, <1>11, <1>12

(* A request whose parts do not hold the symbol that ends them: no space   *)
(* in the method and the target, no colon in a key, no cr in a key and a   *)
(* value; and no colon in the body of a request without headers, which     *)
(* hsh_parser_exec reads as a key.                                         *)
Delimited(r) ==
  /\ \A i \in 1..Len(r.method) : r.method[i] # "sp"
  /\ \A i \in 1..Len(r.target) : r.target[i] # "sp"
  /\ \A k \in 1..Len(r.headers) :
       /\ \A i \in 1..Len(Key(r, k)) : Key(r, k)[i] # ":" /\ Key(r, k)[i] # "cr"
       /\ \A i \in 1..Len(Val(r, k)) : Val(r, k)[i] # "cr"
  /\ Len(r.headers) = 0 => \A i \in 1..Len(r.body) : r.body[i] # ":"

(* A request that declares its length once at most, and as a number.       *)
Numbered(r) ==
  \A i \in Named(r, "Content-Length") :
    IsNumber(Trimmed(Val(r, i))) /\ \A j \in Named(r, "Content-Length") : i = j

(* A token of type y, of length l, behind p.                               *)
Tok(y, p, l) == [type |-> y, index |-> p, len |-> l]

(* The k-th header declares the length.                                    *)
IsLength(r, k) == Key(r, k) = <<"Content-Length">>

(* A value begins with j spaces.                                           *)
Spaces(v, j) == \A l \in 1..j : v[l] = "sp"

(* Where the parser is, when it is in state s behind i symbols, its token  *)
(* of type y began behind p, and T tokens are pushed: in a key, ...        *)
AtKey(r, s, i, p, y, T) ==
  \E k \in 1..Len(r.headers) :
    /\ T = 1 + 2 * k /\ p = Ahead(r, k) /\ y = "HEADER_KEY"
    /\ i > p /\ i <= p + Len(Key(r, k))
    /\ s = "length" <=> i = p + 1 /\ Key(r, k)[1] = "Content-Length"

(* between a key and its value, ...                                        *)
AtSep(r, s, i, T) ==
  \E k \in 1..Len(r.headers) :
    /\ T = 2 + 2 * k /\ i = ValAt(r, k) - 1
    /\ s = "lengthsep" <=> IsLength(r, k)

(* in the spaces before a value, ...                                       *)
AtBegin(r, s, i, T) ==
  \E k \in 1..Len(r.headers) :
    /\ T = 2 + 2 * k /\ i >= ValAt(r, k) /\ i <= ValAt(r, k) + Len(Val(r, k))
    /\ Spaces(Val(r, k), i - ValAt(r, k))
    /\ s = "length0" <=> IsLength(r, k)

(* in a value behind its spaces, ...                                       *)
AtValue(r, s, i, p, y, T) ==
  \E k \in 1..Len(r.headers) :
    /\ T = 2 + 2 * k /\ y = "HEADER_VALUE" /\ p >= ValAt(r, k) /\ p < i
    /\ i <= ValAt(r, k) + Len(Val(r, k))
    /\ Spaces(Val(r, k), p - ValAt(r, k)) /\ Val(r, k)[p - ValAt(r, k) + 1] # "sp"
    /\ s = "lengthval" => IsLength(r, k)

(* at the end of a header, ...                                             *)
AtLf(r, i, T) ==
  \E k \in 1..Len(r.headers) : T = 3 + 2 * k /\ i = ValAt(r, k) + Len(Val(r, k)) + 1

(* and behind it.                                                          *)
AtNext(r, i, T) ==
  \E k \in 1..Len(r.headers) : T = 3 + 2 * k /\ i = Ahead(r, k + 1)

(* The same, for each state of the request line, ...                       *)
WhereFirst(r, s, i, p, y, T) ==
  LET m == Len(r.method)
      t == Len(r.target)
  IN  /\ s = "start" => i = 0 /\ T = 0
      /\ s = "method" => p = 0 /\ y = "METHOD" /\ i >= 1 /\ i <= m /\ T = 0
      /\ s = "target0" => i = m + 1 /\ T = 1
      /\ s = "target" => p = m + 1 /\ y = "TARGET" /\ i >= m + 2 /\ i <= m + t + 1 /\ T = 1
      /\ s = "version0" => i = m + t + 2 /\ T = 2
      /\ s = "version" => p = m + t + 2 /\ y = "VERSION" /\ i = m + t + 3 /\ T = 2
      /\ s = "line" => i = m + t + 4 /\ T = 3
      /\ s = "key0" => i = Ahead(r, 1) /\ T = 3

(* for each state of the headers, ...                                      *)
WhereLines(r, s, i, p, y, T) ==
  /\ s \in Keying =>
       \/ AtKey(r, s, i, p, y, T)
       \/ Len(r.headers) = 0 /\ T = 3 /\ i >= Ahead(r, 1) /\ s = "key"
  /\ s \in Separating => AtSep(r, s, i, T)
  /\ s \in Beginning => AtBegin(r, s, i, T)
  /\ s \in Valuing => AtValue(r, s, i, p, y, T)
  /\ s \in {"valcr", "empty"} => AtLf(r, i, T)
  /\ s = "next" => AtNext(r, i, T)
  /\ s = "last" => i = Ahead(r, Len(r.headers) + 1) + 1 /\ T = 3 + 2 * Len(r.headers)

(* and for all of them.                                                    *)
Where(r, s, i, p, y, T) == WhereFirst(r, s, i, p, y, T) /\ WhereLines(r, s, i, p, y, T)

(* The j-th token of a request, by its place in the text.                  *)
IsPlace(r, j, t) ==
  LET n == Len(r.headers)
  IN  /\ j = 1 => t = Tok("METHOD", 0, Len(r.method))
      /\ j = 2 => t = Tok("TARGET", Len(r.method) + 1, Len(r.target))
      /\ j = 3 => t = Tok("VERSION", Len(r.method) + Len(r.target) + 2, 1)
      /\ \A k \in 1..n :
           /\ j = 2 + 2 * k => t = Tok("HEADER_KEY", Ahead(r, k), Len(Key(r, k)))
           /\ j = 3 + 2 * k =>
                LET d == Len(Trimmed(Val(r, k)))
                IN  t = Tok("HEADER_VALUE", ValAt(r, k) + Len(Val(r, k)) - d, d)
      /\ j = 4 + 2 * n => t = Tok("HEADERS_DONE", 0, 0)
      /\ j = 5 + 2 * n => t.type = "BODY" /\ t.index = Ahead(r, n + 1) + 2
      /\ j <= 5 + 2 * n

(* A rule takes the parser from its place to the next one; the token that  *)
(* it ends, if any, is in its place.                                       *)
Comes(q, r, i, p, y, T) ==
  LET P == IF r.enter # "" THEN i ELSE p
      Y == IF r.enter # "" THEN r.enter ELSE y
      U == IF "ready" \in r.does THEN T + 1 ELSE T
  IN  /\ Where(q, r.to, i + 1, P, Y, U)
      /\ "ready" \in r.does => IsPlace(q, U, Tok(Y, P, i - P))

(* The request line.                                                       *)
LEMMA FollowsFirst ==
  ASSUME NEW q \in Requests, Delimited(q), NEW r, FirstRule(r),
         NEW i \in Nat, NEW p \in Nat, NEW y, NEW T \in Nat,
         WhereFirst(q, r.from, i, p, y, T), TextOf[q][i + 1] \in r.at
  PROVE  Comes(q, r, i, p, y, T)
<1> DEFINE m == Len(q.method)
           t == Len(q.target)
           n == Len(q.headers)
           x == TextOf[q]
           a == Ahead(q, 1)
<1>1. m \in Nat /\ t \in Nat /\ n \in Nat /\ a = m + t + 5
  BY RequestParts, TextLaw
<1>2. /\ \A j \in 1..m : x[j] # "sp"
      /\ x[m + 1] = "sp"
      /\ \A j \in 1..t : x[m + 1 + j] # "sp"
      /\ x[m + t + 2] = "sp"
  BY TextLaw DEF FirstPlaces, Delimited
<1>3. WhereFirst(q, r.from, i, p, y, T) /\ x[i + 1] \in r.at
  OBVIOUS
<1> HIDE DEF m, t, n, x, a
<1>4. \A j \in m + 2..m + 1 + t : x[j] # "sp"
  <2>1. TAKE j \in m + 2..m + 1 + t
  <2>2. j - (m + 1) \in 1..t /\ m + 1 + (j - (m + 1)) = j
    BY <1>1
  <2> HIDE DEF t
  <2> QED BY <1>2, <2>2
<1> DEFINE First(s, k, l, z, W) ==
             /\ s = "start" => k = 0 /\ W = 0
             /\ s = "method" => l = 0 /\ z = "METHOD" /\ k >= 1 /\ k <= m /\ W = 0
             /\ s = "target0" => k = m + 1 /\ W = 1
             /\ s = "target" => l = m + 1 /\ z = "TARGET" /\ k >= m + 2 /\ k <= m + t + 1 /\ W = 1
             /\ s = "version0" => k = m + t + 2 /\ W = 2
             /\ s = "version" => l = m + t + 2 /\ z = "VERSION" /\ k = m + t + 3 /\ W = 2
             /\ s = "line" => k = m + t + 4 /\ W = 3
             /\ s = "key0" => k = a /\ W = 3
           Firsts == {"method", "target0", "target", "version0", "version", "line", "key0"}
<1>5. \A s, k, l, z, W : WhereFirst(q, s, k, l, z, W) <=> First(s, k, l, z, W)
  BY DEF WhereFirst, m, t, a
<1>6. \A s \in Firsts : \A k, l, z, W : WhereLines(q, s, k, l, z, W)
  BY DEF WhereLines, Keying, Separating, Beginning, Valuing
<1>7. ASSUME NEW j \in {1, 2, 3}, NEW u,
             j = 1 => u = Tok("METHOD", 0, m), j = 2 => u = Tok("TARGET", m + 1, t),
             j = 3 => u = Tok("VERSION", m + t + 2, 1)
      PROVE  IsPlace(q, j, u)
  <2>1. \A k \in 1..n : j # 2 + 2 * k /\ j # 3 + 2 * k
    BY <1>1
  <2>2. j # 4 + 2 * n /\ j # 5 + 2 * n /\ j <= 5 + 2 * n
    BY <1>1
  <2> QED BY <1>7, <2>1, <2>2 DEF IsPlace, m, t, n
<1> DEFINE P == IF r.enter # "" THEN i ELSE p
           Y == IF r.enter # "" THEN r.enter ELSE y
           U == IF "ready" \in r.does THEN T + 1 ELSE T
           Goal == /\ r.to \in Firsts /\ First(r.to, i + 1, P, Y, U)
                   /\ "ready" \in r.does => /\ U \in {1, 2, 3}
                                            /\ U = 1 => Tok(Y, P, i - P) = Tok("METHOD", 0, m)
                                            /\ U = 2 => Tok(Y, P, i - P) = Tok("TARGET", m + 1, t)
                                            /\ U = 3 => Tok(Y, P, i - P) = Tok("VERSION", m + t + 2, 1)
<1> SUFFICES Goal
  <2> HIDE DEF First, P, Y, U
  <2>1. SUFFICES ASSUME Goal PROVE Comes(q, r, i, p, y, T)
    OBVIOUS
  <2>2. Where(q, r.to, i + 1, P, Y, U)
    BY <1>5, <1>6, <2>1 DEF Where
  <2>3. "ready" \in r.does => IsPlace(q, U, Tok(Y, P, i - P))
    BY <1>7, <2>1
  <2> QED BY <2>2, <2>3 DEF Comes, P, Y, U
<1>8. First(r.from, i, p, y, T)
  BY <1>3, <1>5
<1>9. CASE Is(r, "start", Letters, "method", "METHOD", {"count"})
  <2>1. i = 0 /\ T = 0 /\ P = 0 /\ Y = "METHOD" /\ U = 0
    BY <1>8, <1>9 DEF Is
  <2> HIDE DEF P, Y, U
  <2>2. m # 0
    <3>1. x[i + 1] # "sp"
      BY <1>3, <1>9 DEF Is, Letters
    <3> QED BY <1>2, <2>1, <3>1
  <2>3. i + 1 = 1 /\ 1 <= m
    BY <1>1, <2>1, <2>2
  <2> QED BY <1>9, <2>1, <2>3 DEF Is
<1>10. CASE Is(r, "method", Letters, "method", "", {"count"})
  <2>1. i >= 1 /\ i <= m /\ T = 0 /\ P = 0 /\ Y = "METHOD" /\ U = 0
    BY <1>8, <1>10 DEF Is
  <2> HIDE DEF P, Y, U
  <2>2. i # m
    <3>1. x[i + 1] # "sp"
      BY <1>3, <1>10 DEF Is, Letters
    <3> QED BY <1>2, <3>1
  <2>3. i + 1 >= 1 /\ i + 1 <= m
    BY <1>1, <2>1, <2>2
  <2> QED BY <1>10, <2>1, <2>3 DEF Is
<1>11. CASE Is(r, "method", {"sp"}, "target0", "", {"ready"})
  <2>0. r.enter = "" /\ "ready" \in r.does /\ r.from = "method"
    BY <1>11 DEF Is
  <2>5. i >= 1 /\ i <= m /\ T = 0 /\ P = 0
    BY <1>8, <2>0
  <2>6. Y = "METHOD"
    BY <1>8, <2>0
  <2>7. U = 1
    <3>1. U = T + 1
      BY <2>0, Zenon
    <3>2. T = 0
      BY <2>5
    <3> HIDE DEF U
    <3> QED BY <3>1, <3>2
  <2>1. i >= 1 /\ i <= m /\ T = 0 /\ P = 0 /\ Y = "METHOD" /\ U = 1
    BY <2>5, <2>6, <2>7, Zenon
  <2> HIDE DEF P, Y, U
  <2>2. i = m
    <3>1. x[i + 1] = "sp"
      BY <1>3, <1>11 DEF Is
    <3>2. i < m => i + 1 \in 1..m
      BY <1>1
    <3> QED BY <1>1, <1>2, <2>1, <3>1, <3>2
  <2>3. i + 1 = m + 1 /\ i - 0 = m
    BY <1>1, <2>1, <2>2
  <2>4. i - P = m
    BY <2>3, <2>1, Zenon
  <2>8. Tok(Y, P, i - P) = Tok("METHOD", 0, m)
    BY <2>1, <2>4, Zenon
  <2>9. U \in {1, 2, 3} /\ r.to \in Firsts /\ U # 2 /\ U # 3
    <3>1. r.to \in Firsts
      BY <1>11 DEF Is
    <3>2. U \in {1, 2, 3} /\ U # 2 /\ U # 3
      BY <2>7
    <3> QED BY <3>1, <3>2
  <2>10. First(r.to, i + 1, P, Y, U)
    BY <1>11, <2>1, <2>3 DEF Is
  <2> QED BY <2>1, <2>8, <2>9, <2>10
<1>12. CASE Is(r, "target0", AllBut({"sp"}), "target", "TARGET", {"count"})
  <2>1. i = m + 1 /\ T = 1 /\ P = m + 1 /\ Y = "TARGET" /\ U = 1
    BY <1>8, <1>12 DEF Is
  <2> HIDE DEF P, Y, U
  <2>2. t # 0
    <3>1. x[i + 1] # "sp"
      BY <1>3, <1>12 DEF Is, AllBut
    <3>2. i + 1 = m + 0 + 2
      BY <1>1, <2>1
    <3> QED BY <1>2, <3>1, <3>2
  <2>3. i + 1 >= m + 2 /\ i + 1 <= m + t + 1
    BY <1>1, <2>1, <2>2
  <2> QED BY <1>12, <2>1, <2>3 DEF Is
<1>13. CASE Is(r, "target", {"sp"}, "version0", "", {"ready"})
  <2>0. r.enter = "" /\ "ready" \in r.does /\ r.from = "target"
    BY <1>13 DEF Is
  <2>5. i >= m + 2 /\ i <= m + t + 1 /\ T = 1 /\ P = m + 1
    BY <1>8, <2>0
  <2>6. Y = "TARGET"
    BY <1>8, <2>0
  <2>7. U = 2
    <3>1. U = T + 1
      BY <2>0, Zenon
    <3>2. T = 1
      BY <2>5
    <3> HIDE DEF U
    <3> QED BY <3>1, <3>2
  <2>1. i >= m + 2 /\ i <= m + t + 1 /\ T = 1 /\ P = m + 1 /\ Y = "TARGET" /\ U = 2
    BY <2>5, <2>6, <2>7, Zenon
  <2> HIDE DEF P, Y, U
  <2>2. i = m + t + 1
    <3>1. x[i + 1] = "sp"
      BY <1>3, <1>13 DEF Is
    <3>2. i < m + t + 1 => i + 1 \in m + 2..m + 1 + t
      BY <1>1, <2>1
    <3> QED BY <1>1, <1>4, <2>1, <3>1, <3>2
  <2>3. i + 1 = m + t + 2 /\ i - (m + 1) = t
    BY <1>1, <2>1, <2>2
  <2>4. i - P = t
    BY <2>3, <2>1, Zenon
  <2>8. Tok(Y, P, i - P) = Tok("TARGET", m + 1, t)
    BY <2>1, <2>4, Zenon
  <2>9. U \in {1, 2, 3} /\ r.to \in Firsts /\ U # 1 /\ U # 3
    <3>1. r.to \in Firsts
      BY <1>13 DEF Is
    <3>2. U \in {1, 2, 3} /\ U # 1 /\ U # 3
      BY <2>7
    <3> QED BY <3>1, <3>2
  <2>10. First(r.to, i + 1, P, Y, U)
    BY <1>13, <2>1, <2>3 DEF Is
  <2> QED BY <2>1, <2>8, <2>9, <2>10
<1>14. CASE Is(r, "target", AllBut({"sp"}), "target", "", {"count"})
  <2>1. i >= m + 2 /\ i <= m + t + 1 /\ T = 1 /\ P = m + 1 /\ Y = "TARGET" /\ U = 1
    BY <1>8, <1>14 DEF Is
  <2> HIDE DEF P, Y, U
  <2>2. i # m + t + 1
    <3>1. x[i + 1] # "sp"
      BY <1>3, <1>14 DEF Is, AllBut
    <3>2. (m + t + 1) + 1 = m + t + 2
      BY <1>1
    <3> QED BY <1>2, <3>1, <3>2
  <2>3. i + 1 >= m + 2 /\ i + 1 <= m + t + 1
    BY <1>1, <2>1, <2>2
  <2> QED BY <1>14, <2>1, <2>3 DEF Is
<1>15. CASE Is(r, "version0", Versions, "version", "VERSION", {})
  <2>1. i = m + t + 2 /\ T = 2 /\ P = m + t + 2 /\ Y = "VERSION" /\ U = 2
    BY <1>8, <1>15 DEF Is
  <2> HIDE DEF P, Y, U
  <2>2. i + 1 = m + t + 3
    BY <1>1, <2>1
  <2> QED BY <1>15, <2>1, <2>2 DEF Is
<1>16. CASE Is(r, "version", {"cr"}, "line", "", {"ready"})
  <2>0. r.enter = "" /\ "ready" \in r.does /\ r.from = "version"
    BY <1>16 DEF Is
  <2>5. i = m + t + 3 /\ T = 2 /\ P = m + t + 2
    BY <1>8, <2>0
  <2>6. Y = "VERSION"
    BY <1>8, <2>0
  <2>7. U = 3
    <3>1. U = T + 1
      BY <2>0, Zenon
    <3>2. T = 2
      BY <2>5
    <3> HIDE DEF U
    <3> QED BY <3>1, <3>2
  <2>1. i = m + t + 3 /\ T = 2 /\ P = m + t + 2 /\ Y = "VERSION" /\ U = 3
    BY <2>5, <2>6, <2>7, Zenon
  <2> HIDE DEF P, Y, U
  <2>2. i + 1 = m + t + 4 /\ i - (m + t + 2) = 1
    BY <1>1, <2>1
  <2>4. i - P = 1
    BY <2>2, <2>1, Zenon
  <2>8. Tok(Y, P, i - P) = Tok("VERSION", m + t + 2, 1)
    BY <2>1, <2>4, Zenon
  <2>9. U \in {1, 2, 3} /\ r.to \in Firsts /\ U # 1 /\ U # 2
    <3>1. r.to \in Firsts
      BY <1>16 DEF Is
    <3>2. U \in {1, 2, 3} /\ U # 1 /\ U # 2
      BY <2>7
    <3> QED BY <3>1, <3>2
  <2>10. First(r.to, i + 1, P, Y, U)
    BY <1>16, <2>1, <2>2 DEF Is
  <2> QED BY <2>1, <2>8, <2>9, <2>10
<1>17. CASE Is(r, "line", {"lf"}, "key0", "", {})
  <2>1. i = m + t + 4 /\ T = 3 /\ U = 3
    BY <1>8, <1>17 DEF Is
  <2> HIDE DEF P, Y, U
  <2>2. i + 1 = a
    BY <1>1, <2>1
  <2> QED BY <1>17, <2>1, <2>2 DEF Is
<1> HIDE DEF Goal
<1> QED BY <1>9, <1>10, <1>11, <1>12, <1>13, <1>14, <1>15, <1>16, <1>17 DEF FirstRule

(* What the symbols of a header line are not.                              *)
LEMMA LineFacts ==
  ASSUME NEW q \in Requests, Delimited(q), NEW k \in 1..Len(q.headers)
  PROVE  LET x == TextOf[q]
             b == Ahead(q, k)
             c == Len(Key(q, k))
             v == ValAt(q, k)
             d == Len(Val(q, k))
         IN  /\ b \in Nat /\ c \in Nat /\ d \in Nat /\ v = b + c + 2 /\ Ahead(q, k + 1) = v + d + 2
             /\ \A j \in 1..c : x[b + j] = Key(q, k)[j] /\ x[b + j] # ":" /\ x[b + j] # "cr"
             /\ x[v - 1] = ":" /\ x[v] = "sp"
             /\ \A j \in 1..d : x[v + j] = Val(q, k)[j] /\ x[v + j] # "cr"
             /\ x[v + d + 1] = "cr" /\ x[v + d + 2] = "lf"
<1> DEFINE x == TextOf[q]
           b == Ahead(q, k)
           c == Len(Key(q, k))
           v == ValAt(q, k)
           d == Len(Val(q, k))
<1>1. k \in 1..Len(q.headers) + 1
  BY RequestParts
<1>2. b \in Nat /\ c \in Nat /\ d \in Nat /\ v = b + c + 2 /\ Ahead(q, k + 1) = v + d + 2
  BY <1>1, RequestParts, TextLaw DEF ValAt
<1>3. LinePlaces(q, x, k, b, v, c, d)
  BY TextLaw
<1>4. /\ \A j \in 1..c : Key(q, k)[j] # ":" /\ Key(q, k)[j] # "cr"
      /\ \A j \in 1..d : Val(q, k)[j] # "cr"
  BY DEF Delimited
<1> HIDE DEF x, b, c, v, d
<1>5. \A j \in 1..c : x[b + j] = Key(q, k)[j] /\ x[b + j] # ":" /\ x[b + j] # "cr"
  BY <1>3, <1>4 DEF LinePlaces
<1>6. \A j \in 1..d : x[v + j] = Val(q, k)[j] /\ x[v + j] # "cr"
  BY <1>3, <1>4 DEF LinePlaces
<1>7. x[v - 1] = ":" /\ x[v] = "sp" /\ x[v + d + 1] = "cr" /\ x[v + d + 2] = "lf"
  BY <1>3 DEF LinePlaces
<1> QED BY <1>2, <1>5, <1>6, <1>7 DEF x, b, c, v, d

(* The places of the tokens of a header.                                   *)
LEMMA KeyPlace ==
  ASSUME NEW q \in Requests, NEW k \in 1..Len(q.headers), NEW u,
         u = Tok("HEADER_KEY", Ahead(q, k), Len(Key(q, k)))
  PROVE  IsPlace(q, 2 + 2 * k, u)
<1> DEFINE n == Len(q.headers)
           j == 2 + 2 * k
<1>1. n \in Nat /\ k \in Nat /\ k >= 1 /\ k <= n
  BY RequestParts
<1> HIDE DEF n
<1>2. j # 1 /\ j # 2 /\ j # 3 /\ j # 4 + 2 * n /\ j # 5 + 2 * n /\ j <= 5 + 2 * n
  BY <1>1
<1>3. \A l \in 1..n : (j = 2 + 2 * l => l = k) /\ j # 3 + 2 * l
  BY <1>1
<1> HIDE DEF j
<1>4. IsPlace(q, j, u)
  BY <1>2, <1>3 DEF IsPlace, n
<1> QED BY <1>4 DEF j

(* The place of a value.                                                   *)
LEMMA ValuePlace ==
  ASSUME NEW q \in Requests, NEW k \in 1..Len(q.headers), NEW u, NEW d,
         d = Len(Trimmed(Val(q, k))),
         u = Tok("HEADER_VALUE", ValAt(q, k) + Len(Val(q, k)) - d, d)
  PROVE  IsPlace(q, 3 + 2 * k, u)
<1> DEFINE n == Len(q.headers)
           j == 3 + 2 * k
<1>1. n \in Nat /\ k \in Nat /\ k >= 1 /\ k <= n
  BY RequestParts
<1> HIDE DEF n
<1>2. j # 1 /\ j # 2 /\ j # 3 /\ j # 4 + 2 * n /\ j # 5 + 2 * n /\ j <= 5 + 2 * n
  BY <1>1
<1>3. \A l \in 1..n : (j = 3 + 2 * l => l = k) /\ j # 2 + 2 * l
  BY <1>1
<1> HIDE DEF j
<1>4. IsPlace(q, j, u)
  BY <1>2, <1>3 DEF IsPlace, n
<1> QED BY <1>4 DEF j

(* A state of a header line is none of the first line.                     *)
LEMMA WhereLater ==
  ASSUME NEW q, NEW s, NEW i, NEW p, NEW y, NEW T, WhereLines(q, s, i, p, y, T),
         s \in Keying \cup Separating \cup Beginning \cup Valuing \cup {"valcr", "empty", "next", "last"}
  PROVE  Where(q, s, i, p, y, T)
BY DEF Where, WhereFirst, Keying, Separating, Beginning, Valuing

(* A key that is one symbol.                                               *)
LEMMA IsLengthLaw ==
  ASSUME NEW q \in Requests, NEW k \in 1..Len(q.headers)
  PROVE  IsLength(q, k) <=> Len(Key(q, k)) = 1 /\ Key(q, k)[1] = "Content-Length"
<1> DEFINE key == Key(q, k)
           one == <<"Content-Length">>
<1>1. key \in Seq(Alphabet)
  BY RequestParts
<1>2. Len(one) = 1 /\ one[1] = "Content-Length" /\ one \in Seq(Alphabet)
  <2>1. "Content-Length" \in Alphabet
    BY DEF Alphabet
  <2> HIDE DEF Alphabet
  <2> QED BY <2>1
<1> HIDE DEF key, one
<1>3. ASSUME Len(key) = 1, key[1] = "Content-Length" PROVE key = one
  <2>1. \A i \in 1..Len(key) : key[i] = one[i]
    BY <1>2, <1>3
  <2>2. Len(key) = Len(one)
    BY <1>2, <1>3
  <2> QED BY <1>1, <1>2, <2>1, <2>2, SeqEqual
<1> QED BY <1>2, <1>3 DEF IsLength, key, one

(* The begin of a header line.                                             *)
LEMMA KeyBegins ==
  ASSUME NEW q \in Requests, Delimited(q), NEW j \in 1..Len(q.headers) + 1, NEW i, NEW s,
         i = Ahead(q, j), NEW at, TextOf[q][i + 1] \in at, ":" \notin at, j # 1 => "cr" \notin at,
         \/ s = "key" /\ "Content-Length" \notin at
         \/ s = "length" /\ at = {"Content-Length"}
         \/ s = "coding" /\ at = {"Transfer-Encoding"}
  PROVE  Where(q, s, i + 1, i, "HEADER_KEY", 1 + 2 * j)
<1> DEFINE n == Len(q.headers)
           x == TextOf[q]
<1>1. n \in Nat
  BY RequestParts
<1>2. CASE j \in 1..n
  <2> DEFINE c == Len(Key(q, j))
             z == Key(q, j)[1]
  <2>1. /\ i \in Nat /\ c \in Nat /\ x[i + c + 1] = ":"
        /\ \A l \in 1..c : x[i + l] = Key(q, j)[l]
    <3> DEFINE v == ValAt(q, j)
    <3>1. /\ i \in Nat /\ c \in Nat /\ v = i + c + 2 /\ x[v - 1] = ":"
          /\ \A l \in 1..c : x[i + l] = Key(q, j)[l]
      BY <1>2, LineFacts
    <3> HIDE DEF c, x, v
    <3>2. v - 1 = i + c + 1
      BY <3>1
    <3> QED BY <3>1, <3>2
  <2>2. c >= 1 /\ x[i + 1] = z
    <3> HIDE DEF c, x
    <3>1. x[i + 1] # ":"
      BY DEF x
    <3>2. c # 0
      BY <2>1, <3>1
    <3>3. 1 \in 1..c
      BY <2>1, <3>2
    <3> QED BY <2>1, <3>3 DEF c
  <2> HIDE DEF c, x, z
  <2>3. i + 1 > i /\ i + 1 <= i + c
    BY <2>1, <2>2
  <2>4. s = "length" <=> z = "Content-Length"
    BY <2>2 DEF x
  <2>5. AtKey(q, s, i + 1, i, "HEADER_KEY", 1 + 2 * j)
    BY <1>2, <2>3, <2>4 DEF AtKey, c, z
  <2>6. s \in Keying
    BY DEF Keying
  <2>7. WhereLines(q, s, i + 1, i, "HEADER_KEY", 1 + 2 * j)
    BY <2>5, <2>6 DEF WhereLines, Keying, Separating, Beginning, Valuing
  <2> QED BY <2>6, <2>7, WhereLater
<1>3. CASE j \notin 1..n
  <2>1. j = n + 1
    BY <1>1, <1>3
  <2>2. x[i + 1] = "cr"
    BY <2>1, TextLaw DEF LastPlaces
  <2>3. j = 1 /\ s = "key"
    BY <2>2
  <2>4. n = 0 /\ i \in Nat
    <3>1. Ahead(q, j) \in Nat
      BY TextLaw
    <3> QED BY <1>1, <2>1, <2>3, <3>1
  <2>5. i + 1 >= Ahead(q, 1) /\ 1 + 2 * j = 3
    BY <2>3, <2>4
  <2>6. s \in Keying
    BY <2>3 DEF Keying
  <2>7. WhereLines(q, s, i + 1, i, "HEADER_KEY", 1 + 2 * j)
    BY <2>3, <2>4, <2>5 DEF WhereLines, Keying, Separating, Beginning, Valuing
  <2> QED BY <2>6, <2>7, WhereLater
<1> QED BY <1>2, <1>3

(* Inside a key, and at its end.                                           *)
LEMMA KeyGoes ==
  ASSUME NEW q \in Requests, Delimited(q), NEW s \in Keying, NEW i \in Nat, NEW p, NEW y, NEW T,
         Where(q, s, i, p, y, T), NEW at, TextOf[q][i + 1] \in at, at = InKey
  PROVE  Where(q, "key", i + 1, p, y, T)
<1> DEFINE n == Len(q.headers)
           x == TextOf[q]
<1>1. AtKey(q, s, i, p, y, T) \/ (n = 0 /\ T = 3 /\ i >= Ahead(q, 1))
  <2>1. WhereLines(q, s, i, p, y, T) /\ s \in Keying
    BY DEF Where
  <2>2. \/ AtKey(q, s, i, p, y, T)
        \/ Len(q.headers) = 0 /\ T = 3 /\ i >= Ahead(q, 1) /\ s = "key"
    BY <2>1 DEF WhereLines
  <2> QED BY <2>2
<1>2. AtKey(q, "key", i + 1, p, y, T) \/ (n = 0 /\ T = 3 /\ i + 1 >= Ahead(q, 1))
  <2>1. CASE AtKey(q, s, i, p, y, T)
    <3>1. PICK k \in 1..n :
            /\ T = 1 + 2 * k /\ p = Ahead(q, k) /\ y = "HEADER_KEY"
            /\ i > p /\ i <= p + Len(Key(q, k))
      BY <2>1 DEF AtKey
    <3> DEFINE c == Len(Key(q, k))
               v == ValAt(q, k)
    <3>2. p \in Nat /\ c \in Nat /\ v = p + c + 2 /\ x[v - 1] = ":"
      BY <3>1, LineFacts
    <3>3. x[i + 1] # ":"
      BY DEF InKey
    <3> HIDE DEF c, x, v
    <3>4. i # p + c
      <4>1. v - 1 = (p + c) + 1
        BY <3>2
      <4> QED BY <3>2, <3>3, <4>1
    <3>5. i > p /\ i <= p + c
      BY <3>1 DEF c
    <3>6. i + 1 > p /\ i + 1 <= p + c /\ i + 1 # p + 1
      BY <3>2, <3>4, <3>5
    <3>7. ~("key" = "length" /\ TRUE)
      OBVIOUS
    <3>8. AtKey(q, "key", i + 1, p, y, T)
      <4>1. /\ T = 1 + 2 * k /\ p = Ahead(q, k) /\ y = "HEADER_KEY"
            /\ i + 1 > p /\ i + 1 <= p + Len(Key(q, k))
            /\ "key" = "length" <=> i + 1 = p + 1 /\ Key(q, k)[1] = "Content-Length"
        BY <3>1, <3>6 DEF c
      <4> QED BY <4>1 DEF AtKey
    <3> QED BY <3>8
  <2>2. CASE n = 0 /\ T = 3 /\ i >= Ahead(q, 1)
    <3>1. Ahead(q, 1) \in Nat
      <4>1. 1 \in 1..n + 1
        BY <2>2
      <4> QED BY <4>1, TextLaw
    <3> QED BY <2>2, <3>1
  <2> QED BY <1>1, <2>1, <2>2
<1>3. WhereLines(q, "key", i + 1, p, y, T)
  BY <1>2 DEF WhereLines, Keying, Separating, Beginning, Valuing
<1> QED BY <1>3, WhereLater DEF Keying

(* The colon ends a key: the token is in its place.                        *)
LEMMA KeyEnds ==
  ASSUME NEW q \in Requests, Delimited(q), NEW s \in Keying, NEW i \in Nat, NEW p, NEW y, NEW T,
         Where(q, s, i, p, y, T), i < Len(TextOf[q]), TextOf[q][i + 1] = ":",
         NEW sep \in Separating, sep = "lengthsep" <=> s = "length", NEW z, NEW w
  PROVE  /\ Where(q, sep, i + 1, w, z, T + 1)
         /\ IsPlace(q, T + 1, Tok(y, p, i - p))
<1> DEFINE n == Len(q.headers)
           x == TextOf[q]
<1>1. AtKey(q, s, i, p, y, T) \/ (n = 0 /\ T = 3 /\ i >= Ahead(q, 1))
  <2>1. WhereLines(q, s, i, p, y, T) /\ s \in Keying
    BY DEF Where
  <2>2. \/ AtKey(q, s, i, p, y, T)
        \/ Len(q.headers) = 0 /\ T = 3 /\ i >= Ahead(q, 1) /\ s = "key"
    BY <2>1 DEF WhereLines
  <2> QED BY <2>2
<1>2. ~(n = 0 /\ T = 3 /\ i >= Ahead(q, 1))
  <2>1. SUFFICES ASSUME n = 0, i >= Ahead(q, 1) PROVE FALSE
    OBVIOUS
  <2> DEFINE e == Ahead(q, 1)
             b == Len(q.body)
  <2>2. e \in Nat /\ b \in Nat
    <3>1. 1 \in 1..n + 1
      BY <2>1
    <3> QED BY <3>1, TextLaw, RequestParts
  <2>3. LastPlaces(q, x, e, b)
    <3>1. n + 1 = 1
      BY <2>1
    <3> QED BY <3>1, TextLaw
  <2>4. \A j \in 1..b : q.body[j] # ":"
    BY <2>1 DEF Delimited
  <2>5. i >= e /\ i < Len(x) /\ x[i + 1] = ":"
    BY <2>1
  <2> HIDE DEF e, b, x
  <2>6. i = e \/ i = e + 1 \/ i - (e + 1) \in 1..b
    BY <2>2, <2>3, <2>5 DEF LastPlaces
  <2>7. CASE i = e
    BY <2>3, <2>5, <2>7 DEF LastPlaces
  <2>8. CASE i = e + 1
    <3>1. i + 1 = e + 2
      BY <2>2, <2>8
    <3> QED BY <2>3, <2>5, <3>1 DEF LastPlaces
  <2>9. CASE i - (e + 1) \in 1..b
    <3> DEFINE j == i - (e + 1)
    <3>1. e + 2 + j = i + 1
      BY <2>2
    <3>2. j \in 1..b
      BY <2>9
    <3> HIDE DEF j
    <3> QED BY <2>3, <2>4, <2>5, <3>1, <3>2 DEF LastPlaces
  <2> QED BY <2>6, <2>7, <2>8, <2>9
<1>3. PICK k \in 1..n :
        /\ T = 1 + 2 * k /\ p = Ahead(q, k) /\ y = "HEADER_KEY"
        /\ i > p /\ i <= p + Len(Key(q, k))
        /\ s = "length" <=> i = p + 1 /\ Key(q, k)[1] = "Content-Length"
  BY <1>1, <1>2 DEF AtKey
<1> DEFINE c == Len(Key(q, k))
           v == ValAt(q, k)
<1>4. p \in Nat /\ c \in Nat /\ v = p + c + 2 /\ \A j \in 1..c : x[p + j] # ":"
  BY <1>3, LineFacts
<1>5. IsLength(q, k) <=> c = 1 /\ Key(q, k)[1] = "Content-Length"
  BY IsLengthLaw
<1> HIDE DEF c, v, x
<1>6. i = p + c
  <2> DEFINE j == i - p + 1
  <2>1. i > p /\ i <= p + c
    BY <1>3 DEF c
  <2>2. p + j = i + 1 /\ (i # p + c => j \in 1..c)
    BY <1>4, <2>1
  <2> HIDE DEF j
  <2>3. j \notin 1..c
    BY <1>4, <2>2 DEF x
  <2> QED BY <2>2, <2>3
<1>7. i + 1 = v - 1 /\ i - p = c /\ T + 1 = 2 + 2 * k /\ (i = p + 1 <=> c = 1)
  <2>1. T = 1 + 2 * k /\ k \in Nat
    BY <1>3, RequestParts
  <2> QED BY <1>4, <1>6, <2>1
<1>8. sep = "lengthsep" <=> IsLength(q, k)
  BY <1>3, <1>5, <1>7
<1>9. AtSep(q, sep, i + 1, T + 1)
  BY <1>7, <1>8 DEF AtSep, v
<1>10. WhereLines(q, sep, i + 1, w, z, T + 1)
  BY <1>9 DEF WhereLines, Keying, Separating, Beginning, Valuing
<1>11. Tok(y, p, i - p) = Tok("HEADER_KEY", Ahead(q, k), Len(Key(q, k)))
  BY <1>3, <1>7, Zenon DEF c
<1>12. IsPlace(q, 2 + 2 * k, Tok(y, p, i - p))
  BY <1>11, KeyPlace
<1> QED BY <1>7, <1>10, <1>12, WhereLater

(* The least element of a set of numbers.                                  *)
LEMMA MinLaw ==
  ASSUME NEW S \in SUBSET Nat, NEW l \in S, \A j \in S : l <= j
  PROVE  Min(S) = l
<1>1. \A j \in S : (\A k \in S : j <= k) => j = l
  <2>1. TAKE j \in S
  <2>2. j \in Nat /\ l \in Nat /\ l <= j
    OBVIOUS
  <2>3. (\A k \in S : j <= k) => j <= l
    OBVIOUS
  <2> QED BY <2>2, <2>3
<1>2. Min(S) = CHOOSE j \in S : \A k \in S : j <= k
  BY Zenon DEF Min
<1>3. \E j \in S : \A k \in S : j <= k
  OBVIOUS
<1> QED BY <1>1, <1>2, <1>3, Zenon

(* What is left of a value without the spaces it begins with.              *)
LEMMA TrimmedLaw ==
  ASSUME NEW v \in Seq(Alphabet)
  PROVE  /\ Spaces(v, Len(v)) => Trimmed(v) = <<>> /\ Len(Trimmed(v)) = 0
         /\ \A l \in 1..Len(v) : Spaces(v, l - 1) /\ v[l] # "sp" =>
              Trimmed(v) = SubSeq(v, l, Len(v)) /\ Len(Trimmed(v)) = Len(v) - (l - 1)
<1> DEFINE d == Len(v)
           rest == {i \in DOMAIN v : v[i] # "sp"}
<1>1. d \in Nat /\ DOMAIN v = 1..d
  BY LenProperties
<1>2. rest = {i \in 1..d : v[i] # "sp"}
  BY <1>1
<1>3. Trimmed(v) = IF rest = {} THEN <<>> ELSE SubSeq(v, Min(rest), d)
  BY Zenon DEF Trimmed
<1> HIDE DEF rest, d
<1>4. ASSUME Spaces(v, d) PROVE Trimmed(v) = <<>> /\ Len(Trimmed(v)) = 0
  <2>1. rest = {}
    BY <1>2, <1>4 DEF Spaces
  <2>2. Trimmed(v) = <<>>
    BY <1>3, <2>1
  <2> QED BY <2>2, EmptySeq
<1>5. ASSUME NEW l \in 1..d, Spaces(v, l - 1), v[l] # "sp"
      PROVE  Trimmed(v) = SubSeq(v, l, d) /\ Len(Trimmed(v)) = d - (l - 1)
  <2>1. l \in rest /\ rest \in SUBSET Nat
    BY <1>1, <1>2, <1>5
  <2>2. \A j \in rest : l <= j
    <3>1. TAKE j \in rest
    <3>2. j \in 1..d /\ v[j] # "sp"
      BY <1>2
    <3>3. j \notin 1..l - 1
      BY <1>5, <3>2 DEF Spaces
    <3> QED BY <1>1, <3>2, <3>3
  <2>3. Min(rest) = l
    BY <2>1, <2>2, MinLaw
  <2>4. Trimmed(v) = SubSeq(v, l, d)
    BY <1>3, <2>1, <2>3
  <2>5. Len(SubSeq(v, l, d)) = d - (l - 1)
    <3>1. l \in 1..d + 1 /\ d \in l - 1..d
      BY <1>1
    <3>2. Len(SubSeq(v, l, d)) = IF l <= d THEN d - l + 1 ELSE 0
      BY <1>1, <3>1, SubSeqProperties, LenProperties DEF d
    <3> QED BY <1>1, <3>2
  <2> QED BY <2>4, <2>5
<1> QED BY <1>4, <1>5 DEF d

(* What the states of a header line say of the place.                      *)
LEMMA LinesSay ==
  ASSUME NEW q, NEW s, NEW i, NEW p, NEW y, NEW T, Where(q, s, i, p, y, T)
  PROVE  /\ s \in Separating => AtSep(q, s, i, T)
         /\ s \in Beginning => AtBegin(q, s, i, T)
         /\ s \in Valuing => AtValue(q, s, i, p, y, T)
         /\ s \in {"valcr", "empty"} => AtLf(q, i, T)
         /\ s = "next" => AtNext(q, i, T)
         /\ s = "last" => i = Ahead(q, Len(q.headers) + 1) + 1 /\ T = 3 + 2 * Len(q.headers)
<1>1. WhereLines(q, s, i, p, y, T)
  BY DEF Where
<1> QED BY <1>1 DEF WhereLines

(* It is enough to know where the parser is for its own state.             *)
LEMMA LinesAt ==
  ASSUME NEW q, NEW s, NEW i, NEW p, NEW y, NEW T,
         \/ s \in Separating /\ AtSep(q, s, i, T)
         \/ s \in Beginning /\ AtBegin(q, s, i, T)
         \/ s \in Valuing /\ AtValue(q, s, i, p, y, T)
         \/ s \in {"valcr", "empty"} /\ AtLf(q, i, T)
         \/ s = "next" /\ AtNext(q, i, T)
         \/ s = "last" /\ i = Ahead(q, Len(q.headers) + 1) + 1 /\ T = 3 + 2 * Len(q.headers)
  PROVE  Where(q, s, i, p, y, T)
<1>1. WhereLines(q, s, i, p, y, T)
  BY DEF WhereLines, Keying, Separating, Beginning, Valuing
<1> QED BY <1>1, WhereLater

(* The space behind the colon of a key.                                    *)
LEMMA SepGoes ==
  ASSUME NEW q \in Requests, Delimited(q), NEW s \in Separating, NEW i \in Nat, NEW p, NEW y, NEW T,
         Where(q, s, i, p, y, T), NEW to \in Beginning, to = "length0" <=> s = "lengthsep"
  PROVE  Where(q, to, i + 1, p, y, T)
<1>1. PICK k \in 1..Len(q.headers) :
        T = 2 + 2 * k /\ i = ValAt(q, k) - 1 /\ (s = "lengthsep" <=> IsLength(q, k))
  BY LinesSay DEF AtSep
<1> DEFINE v == ValAt(q, k)
           d == Len(Val(q, k))
<1>2. v \in Nat /\ d \in Nat /\ i = v - 1
  BY <1>1, LineFacts
<1> HIDE DEF v, d
<1>3. i + 1 >= v /\ i + 1 <= v + d /\ (i + 1) - v = 0
  BY <1>2
<1>4. Spaces(Val(q, k), (i + 1) - v)
  BY <1>3 DEF Spaces
<1>5. AtBegin(q, to, i + 1, T)
  BY <1>1, <1>3, <1>4 DEF AtBegin, v, d
<1> QED BY <1>5, LinesAt

(* A value that is empty, or spaces only.                                  *)
LEMMA BeginEnds ==
  ASSUME NEW q \in Requests, Delimited(q), NEW s \in Beginning, NEW i \in Nat, NEW p, NEW y, NEW T,
         Where(q, s, i, p, y, T), TextOf[q][i + 1] = "cr", NEW w, NEW z
  PROVE  /\ Where(q, "empty", i + 1, w, z, T + 1)
         /\ IsPlace(q, T + 1, Tok("HEADER_VALUE", i, 0))
<1>1. PICK k \in 1..Len(q.headers) :
        /\ T = 2 + 2 * k /\ i >= ValAt(q, k) /\ i <= ValAt(q, k) + Len(Val(q, k))
        /\ Spaces(Val(q, k), i - ValAt(q, k))
  BY LinesSay DEF AtBegin
<1> DEFINE x == TextOf[q]
           v == ValAt(q, k)
           val == Val(q, k)
           d == Len(val)
           j == i - v + 1
<1>2. /\ v \in Nat /\ d \in Nat /\ k \in Nat /\ val \in Seq(Alphabet)
      /\ \A l \in 1..d : x[v + l] # "cr"
  <2>1. val \in Seq(Alphabet)
    BY RequestParts
  <2>2. v \in Nat /\ d \in Nat /\ \A l \in 1..d : x[v + l] # "cr"
    BY LineFacts
  <2> QED BY <2>1, <2>2
<1>3. x[i + 1] = "cr" /\ i >= v /\ i <= v + d /\ Spaces(val, i - v) /\ T = 2 + 2 * k
  BY <1>1
<1> HIDE DEF x, v, d, val
<1>4. j \in Int /\ v + j = i + 1 /\ (i # v + d => j \in 1..d)
  <2>1. v \in Nat /\ d \in Nat /\ i >= v /\ i <= v + d
    BY <1>2, <1>3
  <2> QED BY <2>1
<1> HIDE DEF x, v, d, j, val
<1>5. i = v + d
  BY <1>2, <1>3, <1>4
<1>6. i - v = d /\ i + 1 = v + d + 1 /\ i = v + d - 0 /\ T + 1 = 3 + 2 * k
  BY <1>2, <1>3, <1>5
<1>7. Len(Trimmed(val)) = 0
  BY <1>2, <1>3, <1>6, TrimmedLaw DEF d
<1>8. AtLf(q, i + 1, T + 1)
  BY <1>6 DEF AtLf, v, d, val
<1>9. Tok("HEADER_VALUE", i, 0) = Tok("HEADER_VALUE", v + d - 0, 0)
  BY <1>6, Zenon
<1>10. IsPlace(q, 3 + 2 * k, Tok("HEADER_VALUE", i, 0))
  BY <1>7, <1>9, ValuePlace DEF v, d, val
<1> QED BY <1>6, <1>8, <1>10, LinesAt

(* One more space before a value.                                          *)
LEMMA BeginSpace ==
  ASSUME NEW q \in Requests, Delimited(q), NEW s \in Beginning, NEW i \in Nat, NEW p, NEW y, NEW T,
         Where(q, s, i, p, y, T), TextOf[q][i + 1] = "sp", NEW w, NEW z
  PROVE  Where(q, s, i + 1, w, z, T)
<1>1. PICK k \in 1..Len(q.headers) :
        /\ T = 2 + 2 * k /\ i >= ValAt(q, k) /\ i <= ValAt(q, k) + Len(Val(q, k))
        /\ Spaces(Val(q, k), i - ValAt(q, k)) /\ (s = "length0" <=> IsLength(q, k))
  BY LinesSay DEF AtBegin
<1> DEFINE x == TextOf[q]
           v == ValAt(q, k)
           val == Val(q, k)
           d == Len(val)
           j == i - v + 1
<1>2. /\ v \in Nat /\ d \in Nat /\ x[v + d + 1] = "cr" /\ \A l \in 1..d : x[v + l] = val[l]
  BY LineFacts
<1>3. x[i + 1] = "sp" /\ i >= v /\ i <= v + d /\ Spaces(val, i - v)
  BY <1>1
<1> HIDE DEF x, v, d, val
<1>4. j \in Int /\ v + j = i + 1 /\ (i # v + d => j \in 1..d) /\ (i + 1) - v = j /\ j - 1 = i - v
  <2>1. v \in Nat /\ d \in Nat /\ i >= v /\ i <= v + d
    BY <1>2, <1>3
  <2> QED BY <2>1
<1> HIDE DEF x, v, d, j, val
<1>5. i # v + d
  BY <1>2, <1>3
<1>6. j \in 1..d /\ val[j] = "sp"
  <2>1. j \in 1..d
    BY <1>4, <1>5
  <2> QED BY <1>2, <1>3, <1>4, <2>1
<1>7. Spaces(val, (i + 1) - v)
  <2>1. \A l \in 1..j : l = j \/ l \in 1..j - 1
    BY <1>4
  <2>2. \A l \in 1..j : val[l] = "sp"
    BY <1>3, <1>4, <1>6, <2>1 DEF Spaces
  <2> QED BY <1>4, <2>2 DEF Spaces
<1>8. i + 1 >= v /\ i + 1 <= v + d
  BY <1>2, <1>3, <1>5
<1>9. AtBegin(q, s, i + 1, T)
  BY <1>1, <1>7, <1>8 DEF AtBegin, v, d, val
<1> QED BY <1>9, LinesAt

(* The first symbol of a value that is not a space.                        *)
LEMMA BeginValue ==
  ASSUME NEW q \in Requests, Delimited(q), NEW s \in Beginning, NEW i \in Nat, NEW p, NEW y, NEW T,
         Where(q, s, i, p, y, T), TextOf[q][i + 1] # "sp", TextOf[q][i + 1] # "cr",
         NEW to \in Valuing, to = "lengthval" => s = "length0"
  PROVE  Where(q, to, i + 1, i, "HEADER_VALUE", T)
<1>1. PICK k \in 1..Len(q.headers) :
        /\ T = 2 + 2 * k /\ i >= ValAt(q, k) /\ i <= ValAt(q, k) + Len(Val(q, k))
        /\ Spaces(Val(q, k), i - ValAt(q, k)) /\ (s = "length0" <=> IsLength(q, k))
  BY LinesSay DEF AtBegin
<1> DEFINE x == TextOf[q]
           v == ValAt(q, k)
           val == Val(q, k)
           d == Len(val)
           j == i - v + 1
<1>2. /\ v \in Nat /\ d \in Nat /\ x[v + d + 1] = "cr" /\ \A l \in 1..d : x[v + l] = val[l]
  BY LineFacts
<1>3. x[i + 1] # "sp" /\ x[i + 1] # "cr" /\ i >= v /\ i <= v + d /\ Spaces(val, i - v)
  BY <1>1
<1> HIDE DEF x, v, d, val
<1>4. j \in Int /\ v + j = i + 1 /\ (i # v + d => j \in 1..d)
  <2>1. v \in Nat /\ d \in Nat /\ i >= v /\ i <= v + d
    BY <1>2, <1>3
  <2> QED BY <2>1
<1> HIDE DEF x, v, d, val
<1>5. i # v + d
  BY <1>2, <1>3
<1>6. val[i - v + 1] # "sp"
  <2> HIDE DEF j
  <2>1. j \in 1..d
    BY <1>4, <1>5
  <2>2. val[j] # "sp"
    BY <1>2, <1>3, <1>4, <2>1
  <2> QED BY <2>2 DEF j
<1>7. i < i + 1 /\ i + 1 <= v + d
  BY <1>2, <1>3, <1>5
<1>8. AtValue(q, to, i + 1, i, "HEADER_VALUE", T)
  <2>1. /\ T = 2 + 2 * k /\ i >= ValAt(q, k) /\ i < i + 1 /\ i + 1 <= ValAt(q, k) + Len(Val(q, k))
        /\ Spaces(Val(q, k), i - ValAt(q, k)) /\ Val(q, k)[i - ValAt(q, k) + 1] # "sp"
        /\ to = "lengthval" => IsLength(q, k)
    BY <1>1, <1>6, <1>7 DEF v, d, val
  <2> QED BY <2>1 DEF AtValue
<1> QED BY <1>8, LinesAt

(* The end of a value.                                                     *)
LEMMA ValueEnds ==
  ASSUME NEW q \in Requests, Delimited(q), NEW s \in Valuing, NEW i \in Nat, NEW p \in Nat, NEW y, NEW T,
         Where(q, s, i, p, y, T), TextOf[q][i + 1] = "cr", NEW w, NEW z
  PROVE  /\ Where(q, "valcr", i + 1, w, z, T + 1)
         /\ IsPlace(q, T + 1, Tok(y, p, i - p))
<1>1. PICK k \in 1..Len(q.headers) :
        /\ T = 2 + 2 * k /\ y = "HEADER_VALUE" /\ p >= ValAt(q, k) /\ p < i
        /\ i <= ValAt(q, k) + Len(Val(q, k))
        /\ Spaces(Val(q, k), p - ValAt(q, k)) /\ Val(q, k)[p - ValAt(q, k) + 1] # "sp"
  BY LinesSay DEF AtValue
<1> DEFINE x == TextOf[q]
           v == ValAt(q, k)
           val == Val(q, k)
           d == Len(val)
           j == i - v + 1
           l == p - v + 1
<1>2. /\ v \in Nat /\ d \in Nat /\ k \in Nat /\ val \in Seq(Alphabet)
      /\ \A h \in 1..d : x[v + h] # "cr"
  <2>1. val \in Seq(Alphabet)
    BY RequestParts
  <2>2. v \in Nat /\ d \in Nat /\ \A h \in 1..d : x[v + h] # "cr"
    <3>1. v \in Nat
      BY LineFacts
    <3>2. d \in Nat
      BY LineFacts
    <3>3. \A h \in 1..d : x[v + h] # "cr"
      BY LineFacts
    <3> QED BY <3>1, <3>2, <3>3
  <2> QED BY <2>1, <2>2
<1>3. /\ x[i + 1] = "cr" /\ p >= v /\ p < i /\ i <= v + d /\ Spaces(val, p - v) /\ T = 2 + 2 * k
      /\ y = "HEADER_VALUE" /\ val[l] # "sp"
  BY <1>1
<1> HIDE DEF x, v, d, val
<1>4. j \in Int /\ v + j = i + 1 /\ (i # v + d => j \in 1..d)
  <2>1. v \in Nat /\ d \in Nat /\ i >= v /\ i <= v + d
    BY <1>2, <1>3
  <2> QED BY <2>1
<1>5. l \in 1..d /\ l - 1 = p - v
  BY <1>2, <1>3
<1> HIDE DEF x, v, d, j, l, val
<1>6. i = v + d
  BY <1>2, <1>3, <1>4
<1> DEFINE e == i - p
<1>7. d - (l - 1) = e /\ i + 1 = v + d + 1 /\ v + d - e = p /\ T + 1 = 3 + 2 * k
  BY <1>2, <1>3, <1>5, <1>6
<1> HIDE DEF e
<1>8. Len(Trimmed(val)) = e
  BY <1>2, <1>3, <1>5, <1>7, TrimmedLaw DEF d
<1>9. AtLf(q, i + 1, T + 1)
  BY <1>7 DEF AtLf, v, d, val
<1>10. Tok(y, p, e) = Tok("HEADER_VALUE", v + d - e, e)
  BY <1>3, <1>7, Zenon
<1>11. IsPlace(q, 3 + 2 * k, Tok(y, p, e))
  BY <1>8, <1>10, ValuePlace DEF v, d, val
<1> QED BY <1>7, <1>9, <1>11, LinesAt DEF e

(* One more symbol of a value.                                             *)
LEMMA ValueGoes ==
  ASSUME NEW q \in Requests, Delimited(q), NEW s \in Valuing, NEW i \in Nat, NEW p \in Nat, NEW y, NEW T,
         Where(q, s, i, p, y, T), TextOf[q][i + 1] # "cr",
         NEW to \in Valuing, to = "lengthval" => s = "lengthval"
  PROVE  Where(q, to, i + 1, p, y, T)
<1>1. PICK k \in 1..Len(q.headers) :
        /\ T = 2 + 2 * k /\ y = "HEADER_VALUE" /\ p >= ValAt(q, k) /\ p < i
        /\ i <= ValAt(q, k) + Len(Val(q, k))
        /\ Spaces(Val(q, k), p - ValAt(q, k)) /\ Val(q, k)[p - ValAt(q, k) + 1] # "sp"
        /\ s = "lengthval" => IsLength(q, k)
  BY LinesSay DEF AtValue
<1> DEFINE x == TextOf[q]
           v == ValAt(q, k)
           d == Len(Val(q, k))
<1>2. v \in Nat /\ d \in Nat /\ x[v + d + 1] = "cr"
  BY LineFacts
<1>3. x[i + 1] # "cr" /\ p < i /\ i <= v + d
  BY <1>1
<1> HIDE DEF x, v, d
<1>4. i # v + d
  BY <1>2, <1>3
<1>5. p < i + 1 /\ i + 1 <= v + d
  BY <1>2, <1>3, <1>4
<1>6. AtValue(q, to, i + 1, p, y, T)
  <2>1. p < i + 1 /\ i + 1 <= ValAt(q, k) + Len(Val(q, k)) /\ (to = "lengthval" => IsLength(q, k))
    BY <1>1, <1>5 DEF v, d
  <2> QED BY <1>1, <2>1 DEF AtValue
<1> QED BY <1>6, LinesAt

(* The end of a header line, and of the head.                              *)
LEMMA LfGoes ==
  ASSUME NEW q \in Requests, Delimited(q), NEW s \in {"valcr", "empty"}, NEW i \in Nat, NEW p, NEW y, NEW T,
         Where(q, s, i, p, y, T), NEW w, NEW z
  PROVE  TextOf[q][i + 1] = "lf" /\ Where(q, "next", i + 1, w, z, T)
<1>1. PICK k \in 1..Len(q.headers) : T = 3 + 2 * k /\ i = ValAt(q, k) + Len(Val(q, k)) + 1
  BY LinesSay DEF AtLf
<1> DEFINE x == TextOf[q]
           v == ValAt(q, k)
           d == Len(Val(q, k))
<1>2. v \in Nat /\ d \in Nat /\ x[v + d + 2] = "lf" /\ Ahead(q, k + 1) = v + d + 2 /\ i = v + d + 1
  BY <1>1, LineFacts
<1> HIDE DEF v, d
<1>3. i + 1 = v + d + 2
  BY <1>2
<1>4. AtNext(q, i + 1, T)
  BY <1>1, <1>2, <1>3 DEF AtNext
<1> QED BY <1>2, <1>3, <1>4, LinesAt

(* A cr where a line begins is the one of the empty line.                  *)
LEMMA NextEnds ==
  ASSUME NEW q \in Requests, Delimited(q), NEW i \in Nat, NEW p, NEW y, NEW T,
         Where(q, "next", i, p, y, T), TextOf[q][i + 1] = "cr", NEW w, NEW z
  PROVE  Where(q, "last", i + 1, w, z, T)
<1> DEFINE n == Len(q.headers)
           x == TextOf[q]
<1>1. PICK k \in 1..n : T = 3 + 2 * k /\ i = Ahead(q, k + 1)
  BY LinesSay DEF AtNext
<1>2. n \in Nat /\ x[i + 1] = "cr"
  BY RequestParts
<1>3. k = n
  <2>1. SUFFICES ASSUME k # n PROVE FALSE
    OBVIOUS
  <2> DEFINE h == k + 1
  <2>2. h \in 1..n
    BY <1>2, <2>1
  <2> DEFINE b == Ahead(q, h)
             c == Len(Key(q, h))
             v == ValAt(q, h)
  <2>3. i = b
    BY <1>1
  <2> HIDE DEF h
  <2>4. /\ b \in Nat /\ c \in Nat /\ v = b + c + 2 /\ x[v - 1] = ":"
        /\ \A j \in 1..c : x[b + j] # "cr"
    BY <2>2, LineFacts
  <2> HIDE DEF b, c, v, x
  <2>5. CASE c = 0
    <3>1. v - 1 = b + 1
      BY <2>4, <2>5
    <3> QED BY <1>2, <2>3, <2>4, <3>1
  <2>6. CASE c # 0
    <3>1. 1 \in 1..c
      BY <2>4, <2>6
    <3> QED BY <1>2, <2>3, <2>4, <3>1
  <2> QED BY <2>5, <2>6
<1>4. i + 1 = Ahead(q, n + 1) + 1 /\ T = 3 + 2 * n
  BY <1>1, <1>3
<1> QED BY <1>4, LinesAt

(* The empty line ends the head.                                           *)
LEMMA LastGoes ==
  ASSUME NEW q \in Requests, NEW i \in Nat, NEW p, NEW y, NEW T, Where(q, "last", i, p, y, T)
  PROVE  /\ TextOf[q][i + 1] = "lf" /\ i + 1 = Ahead(q, Len(q.headers) + 1) + 2
         /\ T = 3 + 2 * Len(q.headers)
<1> DEFINE n == Len(q.headers)
           e == Ahead(q, n + 1)
<1>1. i = e + 1 /\ T = 3 + 2 * n
  BY LinesSay
<1>2. TextOf[q][e + 2] = "lf"
  BY TextLaw DEF LastPlaces
<1>3. e \in Nat
  <2>1. n + 1 \in 1..n + 1
    BY RequestParts
  <2> QED BY <2>1, TextLaw
<1> HIDE DEF e
<1>4. i + 1 = e + 2
  BY <1>1, <1>3
<1> QED BY <1>1, <1>2, <1>4 DEF e

(* A rule that reads no token's end and one that does.                     *)
LEMMA ComesOn ==
  ASSUME NEW q, NEW r, NEW i \in Nat, NEW p, NEW y, NEW T, "ready" \notin r.does,
         Where(q, r.to, i + 1, IF r.enter # "" THEN i ELSE p, IF r.enter # "" THEN r.enter ELSE y, T)
  PROVE  Comes(q, r, i, p, y, T)
BY Zenon DEF Comes

(* A rule that reads the end of a token.                                   *)
LEMMA ComesEnd ==
  ASSUME NEW q, NEW r, NEW i \in Nat, NEW p, NEW y, NEW T, "ready" \in r.does,
         NEW P, NEW Y, P = (IF r.enter # "" THEN i ELSE p), Y = (IF r.enter # "" THEN r.enter ELSE y),
         Where(q, r.to, i + 1, P, Y, T + 1), IsPlace(q, T + 1, Tok(Y, P, i - P))
  PROVE  Comes(q, r, i, p, y, T)
BY Zenon DEF Comes

(* Only the end of the head is marked as such.                             *)
LEMMA NotDone ==
  ASSUME NEW r, \/ r.does = {} \/ r.does = {"count"} \/ r.does = {"ready"} \/ r.does = {"count", "ready"}
                \/ r.does = {"chunked", "count"} \/ r.does = {"digit", "count"}
  PROVE  "done" \notin r.does
OBVIOUS

(* Wherever the parser is in the text, a rule that applies takes it to     *)
(* where it should be, with the token that should be there.                *)
LEMMA Follows ==
  ASSUME NEW q \in Requests, Delimited(q), NEW r \in Rules,
         NEW i \in Nat, NEW p \in Nat, NEW y, NEW T \in Nat,
         Where(q, r.from, i, p, y, T), i < Len(TextOf[q]), TextOf[q][i + 1] \in r.at
  PROVE  IF "done" \in r.does
         THEN i + 1 = Ahead(q, Len(q.headers) + 1) + 2 /\ T = 3 + 2 * Len(q.headers)
         ELSE Comes(q, r, i, p, y, T)
<1> DEFINE c == TextOf[q][i + 1]
           s == r.from
<1>1. Where(q, s, i, p, y, T) /\ c \in r.at
  OBVIOUS
<1> HIDE DEF c
<1>2. CASE FirstRule(r)
  <2>1. "done" \notin r.does
    <3>1. \/ r.does = {} \/ r.does = {"count"} \/ r.does = {"ready"} \/ r.does = {"count", "ready"}
          \/ r.does = {"chunked", "count"} \/ r.does = {"digit", "count"}
      BY <1>2, Zenon DEF FirstRule, Is
    <3> QED BY <3>1, NotDone
  <2>2. WhereFirst(q, r.from, i, p, y, T)
    BY <1>1 DEF Where
  <2> QED BY <1>2, <2>1, <2>2, FollowsFirst
<1>3. CASE BreakRule(r)
  <2>1. CASE Is(r, "valcr", {"lf"}, "next", "", {"count"}) \/ Is(r, "empty", {"lf"}, "next", "", {"count"})
    <3>1. s \in {"valcr", "empty"} /\ r.to = "next" /\ "ready" \notin r.does /\ "done" \notin r.does
      BY <2>1 DEF Is
    <3>2. Comes(q, r, i, p, y, T)
      BY <1>1, <3>1, LfGoes, ComesOn
    <3> QED BY <3>1, <3>2
  <2>2. CASE Is(r, "next", {"cr"}, "last", "HEADER_KEY", {"count"})
    <3>1. s = "next" /\ r.to = "last" /\ "ready" \notin r.does /\ "done" \notin r.does /\ c = "cr"
      BY <1>1, <2>2 DEF Is
    <3>2. Where(q, "next", i, p, y, T) /\ TextOf[q][i + 1] = "cr"
      BY <1>1, <3>1 DEF c
    <3>3. Comes(q, r, i, p, y, T)
      BY <3>1, <3>2, NextEnds, ComesOn
    <3> QED BY <3>1, <3>3
  <2>3. CASE Is(r, "last", {"lf"}, "done", "", {"count", "done"})
    <3>1. s = "last" /\ "done" \in r.does
      BY <2>3 DEF Is
    <3>2. Where(q, "last", i, p, y, T)
      BY <1>1, <3>1
    <3> QED BY <3>1, <3>2, LastGoes
  <2>4. CASE \/ Is(r, "last", InKey \ {"lf"}, "key", "", {"count"})
             \/ Is(r, "last", {":"}, "sep", "", {"ready"})
    <3>1. s = "last" /\ c # "lf"
      BY <1>1, <2>4 DEF Is
    <3>2. Where(q, "last", i, p, y, T)
      BY <1>1, <3>1
    <3>3. c = "lf"
      BY <3>2, LastGoes DEF c
    <3> QED BY <3>1, <3>3
  <2>5. CASE \/ Is(r, "empty", {"cr"}, "valcr", "", {"ready"})
             \/ Is(r, "empty", AllBut({"cr", "lf"}), "value", "", {"count"})
    <3>1. s \in {"valcr", "empty"} /\ c # "lf"
      BY <1>1, <2>5 DEF Is, AllBut
    <3>2. c = "lf"
      BY <1>1, <3>1, LfGoes DEF c
    <3> QED BY <3>1, <3>2
  <2> QED BY <1>3, <2>1, <2>2, <2>3, <2>4, <2>5 DEF BreakRule
<1>4. CASE KeyRule(r)
  <2>1. "done" \notin r.does
    <3>1. \/ r.does = {} \/ r.does = {"count"} \/ r.does = {"ready"} \/ r.does = {"count", "ready"}
          \/ r.does = {"chunked", "count"} \/ r.does = {"digit", "count"}
      BY <1>4, Zenon DEF KeyRule, Is
    <3> QED BY <3>1, NotDone
  <2>2. CASE /\ s \in {"key0", "next"} /\ r.enter = "HEADER_KEY" /\ r.does = {"count"}
             /\ s = "next" => "cr" \notin r.at
             /\ \/ r.to = "key" /\ "Content-Length" \notin r.at /\ ":" \notin r.at
                \/ r.to = "length" /\ r.at = {"Content-Length"}
                \/ r.to = "coding" /\ r.at = {"Transfer-Encoding"}
    <3> DEFINE n == Len(q.headers)
    <3>1. \E j \in 1..n + 1 : i = Ahead(q, j) /\ T = 1 + 2 * j /\ (j # 1 => s = "next")
      <4>0. n \in Nat
        BY RequestParts
      <4>1. CASE s = "key0"
        <5>1. i = Ahead(q, 1) /\ T = 3
          <6>1. WhereFirst(q, s, i, p, y, T)
            BY <1>1 DEF Where
          <6> QED BY <4>1, <6>1, Zenon DEF WhereFirst
        <5>2. 1 \in 1..n + 1 /\ 3 = 1 + 2 * 1
          BY <4>0
        <5> QED BY <5>1, <5>2
      <4>2. CASE s = "next"
        <5>1. PICK k \in 1..n : T = 3 + 2 * k /\ i = Ahead(q, k + 1)
          BY <1>1, <4>2, LinesSay DEF AtNext
        <5>2. k + 1 \in 1..n + 1 /\ T = 1 + 2 * (k + 1)
          BY <4>0, <5>1
        <5> QED BY <4>2, <5>1, <5>2
      <4> QED BY <2>2, <4>1, <4>2
    <3>2. PICK j \in 1..n + 1 : i = Ahead(q, j) /\ T = 1 + 2 * j /\ (j # 1 => s = "next")
      BY <3>1
    <3>3. /\ ":" \notin r.at /\ (j # 1 => "cr" \notin r.at)
          /\ \/ r.to = "key" /\ "Content-Length" \notin r.at
             \/ r.to = "length" /\ r.at = {"Content-Length"}
             \/ r.to = "coding" /\ r.at = {"Transfer-Encoding"}
      BY <2>2, <3>2
    <3>4. Where(q, r.to, i + 1, i, "HEADER_KEY", T)
      BY <1>1, <3>2, <3>3, KeyBegins DEF c
    <3>5. "ready" \notin r.does /\ r.enter # "" /\ r.enter = "HEADER_KEY"
      BY <2>2
    <3>6. Comes(q, r, i, p, y, T)
      BY <3>4, <3>5, ComesOn
    <3> QED BY <2>1, <3>6
  <2>3. CASE s \in Keying /\ Is(r, s, InKey, "key", "", {"count"})
    <3>1. r.to = "key" /\ r.enter = "" /\ "ready" \notin r.does /\ r.at = InKey
      BY <2>3 DEF Is
    <3>2. Where(q, "key", i + 1, p, y, T)
      BY <1>1, <2>3, <3>1, KeyGoes DEF c
    <3>3. Comes(q, r, i, p, y, T)
      BY <3>1, <3>2, ComesOn
    <3> QED BY <2>1, <3>3
  <2>4. CASE /\ s \in Keying /\ r.at = {":"} /\ r.to \in Separating /\ r.enter = "" /\ r.does = {"ready"}
             /\ r.to = "lengthsep" <=> s = "length"
    <3>1. TextOf[q][i + 1] = ":"
      BY <1>1, <2>4 DEF c
    <3>2. Where(q, r.to, i + 1, p, y, T + 1) /\ IsPlace(q, T + 1, Tok(y, p, i - p))
      BY <1>1, <2>4, <3>1, KeyEnds
    <3>3. "ready" \in r.does /\ r.enter = ""
      BY <2>4
    <3>4. Comes(q, r, i, p, y, T)
      BY <3>2, <3>3, ComesEnd
    <3> QED BY <2>1, <3>4
  <2> QED BY <1>4, <2>2, <2>3, <2>4 DEF KeyRule
<1>5. CASE ValueRule(r)
  <2>1. "done" \notin r.does
    <3>1. \/ r.does = {} \/ r.does = {"count"} \/ r.does = {"ready"} \/ r.does = {"count", "ready"}
          \/ r.does = {"chunked", "count"} \/ r.does = {"digit", "count"}
      BY <1>5, Zenon DEF ValueRule, Is
    <3> QED BY <3>1, NotDone
  <2>2. CASE /\ s \in Separating /\ r.at = {"sp"} /\ r.to \in Beginning /\ r.enter = "" /\ r.does = {}
             /\ r.to = "length0" <=> s = "lengthsep"
    <3>1. "ready" \notin r.does /\ r.enter = ""
      BY <2>2
    <3>2. Where(q, r.to, i + 1, p, y, T)
      BY <1>1, <2>2, SepGoes
    <3>3. Comes(q, r, i, p, y, T)
      BY <3>1, <3>2, ComesOn
    <3> QED BY <2>1, <3>3
  <2>3. CASE /\ s \in Beginning /\ r.enter = "HEADER_VALUE"
             /\ r.at = {"cr"} /\ r.to = "empty" /\ r.does = {"count", "ready"}
    <3>1. TextOf[q][i + 1] = "cr" /\ "ready" \in r.does /\ r.enter # "" /\ r.enter = "HEADER_VALUE"
      BY <1>1, <2>3 DEF c
    <3>2. Where(q, "empty", i + 1, i, "HEADER_VALUE", T + 1) /\ IsPlace(q, T + 1, Tok("HEADER_VALUE", i, 0))
      BY <1>1, <2>3, <3>1, BeginEnds
    <3>3. i - i = 0
      OBVIOUS
    <3>4. Comes(q, r, i, p, y, T)
      BY <2>3, <3>1, <3>2, <3>3, ComesEnd
    <3> QED BY <2>1, <3>4
  <2>4. CASE /\ s \in Beginning /\ r.enter = "HEADER_VALUE"
             /\ r.at = {"sp"} /\ r.to = s /\ r.does = {"count"}
    <3>1. TextOf[q][i + 1] = "sp" /\ "ready" \notin r.does /\ r.enter # ""
      BY <1>1, <2>4 DEF c
    <3>2. Where(q, s, i + 1, i, "HEADER_VALUE", T)
      BY <1>1, <2>4, <3>1, BeginSpace
    <3>3. Comes(q, r, i, p, y, T)
      BY <2>4, <3>1, <3>2, ComesOn
    <3> QED BY <2>1, <3>3
  <2>5. CASE /\ s \in Beginning /\ r.enter = "HEADER_VALUE"
             /\ "cr" \notin r.at /\ "sp" \notin r.at /\ r.to \in Valuing /\ "ready" \notin r.does
             /\ r.to = "lengthval" => s = "length0"
    <3>1. TextOf[q][i + 1] # "sp" /\ TextOf[q][i + 1] # "cr" /\ r.enter # ""
      BY <1>1, <2>5 DEF c
    <3>2. Where(q, r.to, i + 1, i, "HEADER_VALUE", T)
      BY <1>1, <2>5, <3>1, BeginValue
    <3>3. Comes(q, r, i, p, y, T)
      BY <2>5, <3>1, <3>2, ComesOn
    <3> QED BY <2>1, <3>3
  <2>6. CASE s \in Valuing /\ Is(r, s, {"cr"}, "valcr", "", {"ready"})
    <3>1. TextOf[q][i + 1] = "cr" /\ "ready" \in r.does /\ r.enter = "" /\ r.to = "valcr"
      BY <1>1, <2>6 DEF c, Is
    <3>2. Where(q, "valcr", i + 1, p, y, T + 1) /\ IsPlace(q, T + 1, Tok(y, p, i - p))
      BY <1>1, <2>6, <3>1, ValueEnds
    <3>3. Comes(q, r, i, p, y, T)
      BY <3>1, <3>2, ComesEnd
    <3> QED BY <2>1, <3>3
  <2>7. CASE /\ s \in Valuing /\ r.to \in Valuing /\ r.enter = "" /\ "ready" \notin r.does
             /\ "cr" \notin r.at /\ (r.to = "lengthval" => s = "lengthval")
    <3>1. TextOf[q][i + 1] # "cr"
      BY <1>1, <2>7 DEF c
    <3>2. Where(q, r.to, i + 1, p, y, T)
      BY <1>1, <2>7, <3>1, ValueGoes
    <3>3. Comes(q, r, i, p, y, T)
      BY <2>7, <3>2, ComesOn
    <3> QED BY <2>1, <3>3
  <2>8. "cr" \notin DOMAIN Digit /\ "sp" \notin DOMAIN Digit /\ "value" \in Valuing /\ "lengthval" \in Valuing
        /\ "length0" \in Beginning
    BY DEF Digit, Valuing, Beginning
  <2>9. CASE r.from \in Separating
    BY <1>5, <2>2, <2>9 DEF ValueRule, Is, Separating, Beginning, Valuing
  <2>10. CASE r.from \in Beginning
    <3>1. /\ r.enter = "HEADER_VALUE"
          /\ \/ r.at = {"cr"} /\ r.to = "empty" /\ r.does = {"count", "ready"}
             \/ r.at = {"sp"} /\ r.to = r.from /\ r.does = {"count"}
             \/ "cr" \notin r.at /\ "sp" \notin r.at /\ r.to = "value" /\ r.does = {"count"}
             \/ r.at = {"chunked"} /\ r.to = "value" /\ r.does = {"chunked", "count"}
             \/ r.from = "length0" /\ r.at = DOMAIN Digit /\ r.to = "lengthval" /\ r.does = {"digit", "count"}
      BY <1>5, <2>10 DEF ValueRule, Is, Separating, Beginning, Valuing
    <3>2. CASE r.at = {"cr"} /\ r.to = "empty" /\ r.does = {"count", "ready"}
      BY <2>3, <2>10, <3>1, <3>2
    <3>3. CASE r.at = {"sp"} /\ r.to = r.from /\ r.does = {"count"}
      BY <2>4, <2>10, <3>1, <3>3
    <3>4. CASE \/ "cr" \notin r.at /\ "sp" \notin r.at /\ r.to = "value" /\ r.does = {"count"}
               \/ r.at = {"chunked"} /\ r.to = "value" /\ r.does = {"chunked", "count"}
      <4>1. "cr" \notin r.at /\ "sp" \notin r.at /\ r.to = "value" /\ "ready" \notin r.does
        BY <3>4
      <4> QED BY <2>5, <2>8, <2>10, <3>1, <4>1
    <3>5. CASE r.from = "length0" /\ r.at = DOMAIN Digit /\ r.to = "lengthval" /\ r.does = {"digit", "count"}
      <4>1. "ready" \notin r.does
        BY <3>5
      <4> HIDE DEF Digit
      <4> QED BY <2>5, <2>8, <2>10, <3>1, <3>5, <4>1
    <3> QED BY <3>1, <3>2, <3>3, <3>4, <3>5
  <2>11. CASE r.from \in Valuing
    <3>1. \/ Is(r, s, {"cr"}, "valcr", "", {"ready"})
          \/ r.to = "value" /\ r.enter = "" /\ r.does = {"count"} /\ "cr" \notin r.at
          \/ Is(r, "lengthval", DOMAIN Digit, "lengthval", "", {"digit", "count"})
      BY <1>5, <2>11 DEF ValueRule, Separating, Beginning, Valuing
    <3>2. CASE r.to = "value" /\ r.enter = "" /\ r.does = {"count"} /\ "cr" \notin r.at
      <4>1. "ready" \notin r.does
        BY <3>2
      <4> QED BY <2>7, <2>8, <2>11, <3>2, <4>1
    <3>3. CASE Is(r, "lengthval", DOMAIN Digit, "lengthval", "", {"digit", "count"})
      <4>1. r.to = "lengthval" /\ r.enter = "" /\ "ready" \notin r.does /\ r.at = DOMAIN Digit /\ s = "lengthval"
        BY <3>3 DEF Is
      <4> QED BY <2>7, <2>8, <2>11, <4>1
    <3> QED BY <2>6, <2>11, <3>1, <3>2, <3>3
  <2>12. r.from \in Separating \/ r.from \in Beginning \/ r.from \in Valuing
    BY <1>5 DEF ValueRule, Is, Valuing
  <2> QED BY <2>9, <2>10, <2>11, <2>12
<1> QED BY <1>2, <1>3, <1>4, <1>5, RuleTable

(* The rule that ends the head is the only one of its kind.                *)
LEMMA DoneRule == \A r \in Rules : "done" \in r.does => Is(r, "last", {"lf"}, "done", "", {"count", "done"})
<1> SUFFICES ASSUME NEW r \in Rules, "done" \in r.does
             PROVE  Is(r, "last", {"lf"}, "done", "", {"count", "done"})
  OBVIOUS
<1>1. CASE r.does = {"count", "done"}
  <2>1. r.does # {} /\ r.does # {"count"} /\ r.does # {"ready"} /\ r.does # {"count", "ready"}
        /\ r.does # {"chunked", "count"} /\ r.does # {"digit", "count"}
    BY <1>1
  <2> QED BY <2>1, RuleTable, Zenon DEF FirstRule, BreakRule, KeyRule, ValueRule, Is
<1>2. r.does = {"count", "done"}
  <2>1. \/ r.does = {} \/ r.does = {"count"} \/ r.does = {"ready"} \/ r.does = {"count", "ready"}
        \/ r.does = {"chunked", "count"} \/ r.does = {"digit", "count"} \/ r.does = {"count", "done"}
    BY RuleTable, Zenon DEF FirstRule, BreakRule, KeyRule, ValueRule, Is
  <2> QED BY <2>1, NotDone
<1> QED BY <1>1, <1>2

(* Until the head ends the parser is where the text says; the tokens are   *)
(* at the places of the parts of the request, and within what was read.    *)
Placed == Where(request, parser.state, buffer.index, parser.index, parser.type, Len(tokens))

(* The tokens are at the places of the parts of the request.               *)
TokensPlaced ==
  /\ Len(tokens) <= 5 + 2 * Len(request.headers)
  /\ \A j \in 1..Len(tokens) : IsPlace(request, j, tokens[j])

(* In the body all tokens of the head are pushed, and after_headers_index  *)
(* is behind the head.                                                     *)
BodyNext ==
  parser.state = "body" =>
    /\ Len(tokens) = 4 + 2 * Len(request.headers) + (IF parser.done THEN 1 ELSE 0)
    /\ buffer.after_headers_index = Ahead(request, Len(request.headers) + 1) + 2

(* The handler is called with all tokens of the head.                      *)
Handling == {"handled", "crashed"} \cup Ended
HeadThere == pc \in Handling => Len(tokens) >= 4 + 2 * Len(request.headers)

(* No token but the body goes beyond what was read.                        *)
WithinRead ==
  pc \notin Ended => \A j \in 1..Len(tokens) :
    tokens[j].type # "BODY" => tokens[j].index + tokens[j].len <= buffer.length

(* These parts together, for a delimited request.                          *)
Places == Placed /\ TokensPlaced /\ BodyNext /\ HeadThere /\ WithinRead
PlacesInv == Delimited(request) => Places

(* Behind the head, or stopped, the parser is nowhere in the lines.        *)
LEMMA PastHead ==
  ASSUME NEW q, NEW s \in {"chunked", "done", "large", "body", "error"}, NEW i, NEW p, NEW y, NEW T
  PROVE  Where(q, s, i, p, y, T)
BY DEF Where, WhereFirst, WhereLines, Keying, Separating, Beginning, Valuing

(* Neither the parser nor the tokens move.                                 *)
LEMMA PlacesHeld ==
  ASSUME IInv, Places, UNCHANGED <<request, tokens>>,
         parser'.state = parser.state, parser'.type = parser.type, parser'.index = parser.index,
         parser'.done = parser.done,
         buffer'.index = buffer.index, buffer'.after_headers_index = buffer.after_headers_index,
         pc' \in Handling => pc \in Handling,
         pc' \notin Ended => pc \notin Ended /\ buffer'.length \in Nat /\ buffer.length <= buffer'.length
  PROVE  Places'
<1>1. Placed'
  BY DEF Places, Placed
<1>2. TokensPlaced'
  BY DEF Places, TokensPlaced
<1>3. BodyNext'
  BY DEF Places, BodyNext
<1>4. HeadThere'
  BY DEF Places, HeadThere, Handling, Ended
<1>5. WithinRead'
  <2> SUFFICES ASSUME pc' \notin Ended, NEW j \in 1..Len(tokens), tokens[j].type # "BODY"
               PROVE  tokens[j].index + tokens[j].len <= buffer'.length
    BY DEF WithinRead, Ended
  <2>1. pc \notin Ended /\ buffer'.length \in Nat /\ buffer.length <= buffer'.length
    BY DEF Ended
  <2>2. tokens[j].index + tokens[j].len <= buffer.length
    BY <2>1 DEF Places, WithinRead
  <2>3. tokens[j].index \in Nat /\ tokens[j].len \in Nat /\ buffer.length \in Nat
    <3>1. tokens \in Seq(TokenSet) /\ BufferTyped(buffer)
      BY DEF IInv, Types
    <3>2. tokens[j] \in TokenSet
      BY <3>1, ElementOfSeq
    <3> QED BY <3>1, <3>2 DEF TokenSet, BufferTyped
  <2> DEFINE a == tokens[j].index
             b == tokens[j].len
             l == buffer.length
             m == buffer'.length
  <2>4. a \in Nat /\ b \in Nat /\ l \in Nat /\ m \in Nat /\ a + b <= l /\ l <= m
    BY <2>1, <2>2, <2>3
  <2> HIDE DEF a, b, l, m
  <2>5. a + b <= m
    BY <2>4
  <2> QED BY <2>5 DEF a, b, m
<1> QED BY <1>1, <1>2, <1>3, <1>4, <1>5 DEF Places

(* A rule that applies is one of the state.                                *)
LEMMA AppliedRule ==
  ASSUME IInv, InHead, NEW r \in Apply
  PROVE  r \in Rules /\ r.from = parser.state /\ Symbol \in r.at
<1>1. ParserTyped(parser) /\ Symbol \in Alphabet
  BY HeadStep
<1>2. parser.state \in States
  BY <1>1 DEF ParserTyped
<1> QED BY <1>1, <1>2, AppliesFit DEF Apply

(* A rule that applies is one for the symbol of the text that is next.     *)
LEMMA RuleFollows ==
  ASSUME IInv, Places, Delimited(request), InHead, NEW r \in Apply
  PROVE  IF "done" \in r.does
         THEN /\ buffer.index + 1 = Ahead(request, Len(request.headers) + 1) + 2
              /\ Len(tokens) = 3 + 2 * Len(request.headers)
         ELSE Comes(request, r, buffer.index, parser.index, parser.type, Len(tokens))
<1> DEFINE i == buffer.index
           x == TextOf[request]
<1>1. /\ ParserTyped(parser) /\ Symbol \in Alphabet /\ i \in Nat /\ i + 1 <= buffer.length
      /\ buffer.length <= sent /\ sent \in Nat /\ pc \notin Ended
  BY HeadStep
<1>2. request \in Requests /\ sent \in 0..Len(Stream) /\ tokens \in Seq(TokenSet) /\ BufferTyped(buffer)
  BY DEF IInv, Types
<1>3. r \in Rules /\ r.from = parser.state /\ Symbol \in r.at
  BY AppliedRule
<1>4. parser.index \in Nat /\ Len(tokens) \in Nat
  BY <1>1, <1>2, LenProperties DEF ParserTyped
<1>5. i < Len(x)
  <2>1. Len(x) \in Nat /\ buffer.length \in Nat
    BY <1>2, TextFits DEF BufferTyped
  <2>2. sent <= Len(x)
    BY <1>1, <1>2, <2>1 DEF Stream
  <2> QED BY <1>1, <2>1, <2>2
<1>6. x[i + 1] \in r.at
  BY <1>3 DEF Symbol, Stream
<1>7. Where(request, r.from, i, parser.index, parser.type, Len(tokens))
  BY <1>3 DEF Places, Placed
<1> QED BY <1>1, <1>2, <1>3, <1>4, <1>5, <1>6, <1>7, Follows

(* The parser after a rule, and the token that is ready.                   *)
LEMMA AfterComes ==
  ASSUME IInv, Places, Delimited(request), InHead, NEW r \in Apply, "done" \notin r.does
  PROVE  LET p == After(r)
         IN  /\ "ready" \notin r.does =>
                  Where(request, p.state, buffer.index + 1, p.index, p.type, Len(tokens))
             /\ "ready" \in r.does =>
                  /\ Where(request, p.state, buffer.index + 1, p.index, p.type, Len(tokens) + 1)
                  /\ IsPlace(request, Len(tokens) + 1, Tok(p.type, p.index, buffer.index - p.index))
<1> DEFINE p == After(r)
           T == Len(tokens)
           i == buffer.index
           P == IF r.enter # "" THEN i ELSE parser.index
           Y == IF r.enter # "" THEN r.enter ELSE parser.type
<1>1. Comes(request, r, i, parser.index, parser.type, T)
  BY RuleFollows
<1>2. p.state = r.to /\ p.type = Y /\ p.index = P
  <2>1. DOMAIN parser = Parts
    BY HeadStep DEF ParserTyped
  <2> QED BY <2>1, AfterParts, Zenon
<1>3. /\ Where(request, r.to, i + 1, P, Y, IF "ready" \in r.does THEN T + 1 ELSE T)
      /\ "ready" \in r.does => IsPlace(request, IF "ready" \in r.does THEN T + 1 ELSE T, Tok(Y, P, i - P))
  BY <1>1, Zenon DEF Comes
<1> HIDE DEF p, P, Y
<1>4. "ready" \notin r.does => Where(request, p.state, i + 1, p.index, p.type, T)
  BY <1>2, <1>3, Zenon
<1>5. "ready" \in r.does => Where(request, p.state, i + 1, p.index, p.type, T + 1)
  BY <1>2, <1>3, Zenon
<1>6. "ready" \in r.does => IsPlace(request, T + 1, Tok(p.type, p.index, i - p.index))
  BY <1>2, <1>3, Zenon
<1> QED BY <1>4, <1>5, <1>6 DEF p

(* A token is pushed at its place, and it ends within what was read.       *)
LEMMA PlacesAdded ==
  ASSUME IInv, TokensPlaced, WithinRead, pc \notin Ended, NEW t \in TokenSet, tokens' = Append(tokens, t),
         IsPlace(request, Len(tokens) + 1, t), UNCHANGED request,
         t.type # "BODY" => t.index + t.len <= buffer.length, buffer'.length = buffer.length
  PROVE  Len(tokens') = Len(tokens) + 1 /\ TokensPlaced' /\ WithinRead'
<1> DEFINE n == Len(request.headers)
           T == Len(tokens)
           u == tokens'
<1>1. T \in Nat /\ tokens \in Seq(TokenSet)
  BY LenProperties DEF IInv, Types
<1>2. Len(u) = T + 1 /\ u[T + 1] = t /\ \A j \in 1..T : u[j] = tokens[j]
  BY <1>1, AppendProperties
<1>3. \A j \in 1..(T + 1) : j \in 1..T \/ j = T + 1
  BY <1>1
<1>4. T + 1 <= 5 + 2 * n
  <2>1. IsPlace(request, T + 1, t)
    OBVIOUS
  <2> QED BY <2>1 DEF IsPlace
<1>5. TokensPlaced'
  <2>1. \A j \in 1..T : IsPlace(request, j, tokens[j])
    BY DEF TokensPlaced
  <2>2. \A j \in 1..(T + 1) : IsPlace(request, j, u[j])
    BY <1>2, <1>3, <2>1
  <2> QED BY <1>2, <1>4, <2>2 DEF TokensPlaced
<1>6. WithinRead'
  <2>1. \A j \in 1..T : tokens[j].type # "BODY" => tokens[j].index + tokens[j].len <= buffer.length
    BY DEF WithinRead
  <2>2. \A j \in 1..(T + 1) : u[j].type # "BODY" => u[j].index + u[j].len <= buffer.length
    BY <1>2, <1>3, <2>1
  <2> QED BY <1>2, <2>2 DEF WithinRead
<1> QED BY <1>2, <1>5, <1>6

(* A rule that is not the last of the head, over the limit or not.         *)
LEMMA RulePlaces ==
  ASSUME IInv, Places, Delimited(request), InHead, NEW r \in Apply,
         parser'.state = After(r).state, parser'.type = After(r).type, parser'.index = After(r).index,
         buffer'.index = buffer.index + 1, buffer'.length = buffer.length,
         pc' \in {"wait", "exec"}, UNCHANGED request,
         \/ "ready" \notin r.does /\ UNCHANGED tokens
         \/ /\ "ready" \in r.does /\ "done" \notin r.does /\ ~TooLong(After(r), r)
            /\ tokens' = Append(tokens, [type |-> After(r).type, index |-> After(r).index,
                                         len |-> buffer.index - After(r).index])
  PROVE  Places'
<1> DEFINE p == After(r)
           T == Len(tokens)
           i == buffer.index
           t == Tok(p.type, p.index, i - p.index)
<1>1. /\ ParserTyped(p) /\ p.state = r.to /\ p.state # "body"
  BY AfterFits
<1>2. pc' \notin Handling /\ pc' \notin Ended /\ pc \notin Ended
  BY HeadStep DEF Handling, Ended
<1>3. HeadThere' /\ BodyNext'
  BY <1>1, <1>2 DEF HeadThere, BodyNext, Handling, Ended
<1>4. i \in Nat /\ buffer.length \in Nat /\ i + 1 <= buffer.length
  BY HeadStep DEF BufferTyped
<1> HIDE DEF p, t
<1>5. CASE "ready" \notin r.does /\ UNCHANGED tokens
  <2>1. TokensPlaced' /\ WithinRead'
    BY <1>2, <1>5 DEF Places, TokensPlaced, WithinRead
  <2>2. Placed'
    <3>1. CASE "done" \in r.does
      <4>1. r.to = "done"
        BY <3>1, AppliedRule, DoneRule DEF Is
      <4> QED BY <1>1, <4>1, PastHead DEF Placed, p
    <3>2. CASE "done" \notin r.does
      <4>1. Where(request, p.state, i + 1, p.index, p.type, T)
        BY <1>5, <3>2, AfterComes DEF p
      <4> QED BY <1>5, <4>1 DEF Placed, p
    <3> QED BY <3>1, <3>2
  <2> QED BY <1>3, <2>1, <2>2 DEF Places
<1>6. CASE /\ "ready" \in r.does /\ "done" \notin r.does /\ ~TooLong(After(r), r)
           /\ tokens' = Append(tokens, [type |-> After(r).type, index |-> After(r).index,
                                        len |-> buffer.index - After(r).index])
  <2>1. t \in TokenSet /\ tokens' = Append(tokens, t)
    BY <1>6, ReadyFits DEF p, t, Tok
  <2>2. Where(request, p.state, i + 1, p.index, p.type, T + 1) /\ IsPlace(request, T + 1, t)
    BY <1>6, AfterComes DEF p, t
  <2>3. t.index + t.len <= buffer.length
    <3>1. t.index = p.index /\ t.len = i - p.index /\ p.index \in Nat
      BY <1>1 DEF t, Tok, ParserTyped
    <3> DEFINE a == p.index
    <3>2. a \in Nat /\ t.index = a /\ t.len = i - a
      BY <3>1
    <3> HIDE DEF a
    <3> QED BY <1>4, <3>2
  <2>4. Len(tokens') = T + 1 /\ TokensPlaced' /\ WithinRead'
    BY <1>2, <2>1, <2>2, <2>3, PlacesAdded DEF Places
  <2>5. Placed'
    BY <2>2, <2>4 DEF Placed, p
  <2> QED BY <1>3, <2>4, <2>5 DEF Places
<1> QED BY <1>5, <1>6

(* A value of length 0 that is ready is not over its limit.                *)
LEMMA ReadyWithin ==
  ASSUME IInv, InHead, NEW r \in Apply, TooLong(After(r), r)
  PROVE  "ready" \notin r.does
<1>1. SUFFICES ASSUME "ready" \in r.does PROVE FALSE
  OBVIOUS
<1>2. "count" \in r.does /\ After(r).limit_count > After(r).limit_max
  BY DEF TooLong
<1>3. r.enter = "HEADER_VALUE" /\ r.does = {"count", "ready"}
  <2>1. r \in Rules
    BY AppliedRule
  <2>2. r.does # {} /\ r.does # {"count"} /\ r.does # {"ready"} /\ r.does # {"chunked", "count"}
        /\ r.does # {"digit", "count"} /\ r.does # {"count", "done"}
    BY <1>1, <1>2
  <2> QED BY <2>1, <2>2, RuleTable, Zenon DEF FirstRule, BreakRule, KeyRule, ValueRule, Is
<1>4. DOMAIN parser = Parts
  BY HeadStep DEF ParserTyped
<1>5. After(r).limit_max = Limit["HEADER_VALUE"] /\ After(r).limit_count = 0 + 1
  <2>1. r.enter # "" /\ "count" \in r.does
    BY <1>3
  <2>2. After(r).limit_max = Limit[r.enter] /\ After(r).limit_count = 0 + 1
    BY <1>4, <2>1, AfterParts, Zenon
  <2> QED BY <1>3, <2>2
<1>6. Limit["HEADER_VALUE"] \in Nat /\ Limit["HEADER_VALUE"] >= 1
  BY LimitAssumption DEF TokenTypes
<1> QED BY <1>2, <1>5, <1>6

(* The end of the head.                                                    *)
LEMMA HeadersDonePlaces ==
  ASSUME IInv, Places, Delimited(request), HeadersDone
  PROVE  Places'
<1>1. InHead /\ tokens' = Append(tokens, [type |-> "HEADERS_DONE", index |-> 0, len |-> 0])
      /\ UNCHANGED <<request, sent, edge, memused, reads>>
  BY DEF HeadersDone
<1> DEFINE n == Len(request.headers)
           T == Len(tokens)
           after == buffer.index + 1
           t == Tok("HEADERS_DONE", 0, 0)
<1>2. PICK r \in Apply, kind \in {"chunked", "done", "large", "body"}, index \in Int, cap \in Int :
        /\ "done" \in r.does
        /\ parser' = [After(r) EXCEPT !.state = kind, !.type = "HEADERS_DONE", !.index = 0]
        /\ buffer' = [buffer EXCEPT !.index = index, !.after_headers_index = after, !.capacity = cap]
        /\ pc' = IF kind = "body" THEN "exec" ELSE "handled"
  <2> DEFINE need == parser.content_length + after
             kind == IF parser.chunked THEN "chunked"
                     ELSE IF parser.content_length = 0 THEN "done"
                     ELSE IF need > MaxRequestBufSize THEN "large" ELSE "body"
             grows == kind = "body" /\ need > buffer.capacity
  <2>1. PICK r \in Apply :
           /\ "done" \in r.does
           /\ parser' = [After(r) EXCEPT !.state = kind, !.type = "HEADERS_DONE", !.index = 0]
           /\ \E index \in {after} \cup IF grows THEN {-1, buffer.length} ELSE {} :
                buffer' = [buffer EXCEPT !.index = index, !.after_headers_index = after,
                             !.capacity = IF grows THEN need ELSE @]
           /\ pc' = IF kind = "body" THEN "exec" ELSE "handled"
    BY Zenon DEF HeadersDone
  <2>2. PICK index \in {after} \cup IF grows THEN {-1, buffer.length} ELSE {} :
                buffer' = [buffer EXCEPT !.index = index, !.after_headers_index = after,
                             !.capacity = IF grows THEN need ELSE @]
    BY <2>1
  <2>3. after \in Int /\ need \in Int /\ buffer.capacity \in Int /\ buffer.length \in Int
    BY <1>1, HeadStep DEF BufferTyped, ParserTyped
  <2> DEFINE cap == IF grows THEN need ELSE buffer.capacity
  <2>4. cap \in Int /\ index \in Int
    <3> HIDE DEF need, after, kind
    <3> QED BY <2>2, <2>3
  <2>5. buffer' = [buffer EXCEPT !.index = index, !.after_headers_index = after, !.capacity = cap]
    BY <2>2
  <2>6. kind \in {"chunked", "done", "large", "body"}
    <3> HIDE DEF need
    <3> QED OBVIOUS
  <2> HIDE DEF kind, cap, after
  <2> QED BY <2>1, <2>4, <2>5, <2>6
<1>3. /\ pc = "exec" /\ pc \notin Ended /\ BufferTyped(buffer) /\ buffer.length \in Nat
      /\ ParserTyped(After(r)) /\ After(r).done = FALSE
  BY <1>1, HeadStep, AfterFits DEF BufferTyped
<1>4. after = Ahead(request, n + 1) + 2 /\ T = 3 + 2 * n
  BY <1>1, <1>2, RuleFollows, Zenon
<1>5. /\ parser'.state = kind /\ parser'.done = FALSE
      /\ buffer'.after_headers_index = after /\ buffer'.length = buffer.length
  <2>1. DOMAIN After(r) = Parts /\ DOMAIN buffer = {"capacity", "length", "index", "after_headers_index"}
    BY <1>3 DEF ParserTyped, BufferTyped
  <2> DEFINE p == After(r)
  <2> HIDE DEF p, after
  <2>2. DOMAIN p = Parts /\ p.done = FALSE
        /\ parser' = [p EXCEPT !.state = kind, !.type = "HEADERS_DONE", !.index = 0]
    BY <1>2, <1>3, <2>1 DEF p
  <2> QED BY <1>2, <2>1, <2>2 DEF Parts
<1>6. n \in Nat /\ T \in Nat /\ Len(tokens') = T + 1 /\ TokensPlaced' /\ WithinRead'
  <2>1. request \in Requests /\ tokens \in Seq(TokenSet)
    BY DEF IInv, Types
  <2>2. n \in Nat /\ T \in Nat
    BY <2>1, RequestParts, LenProperties
  <2>3. IsPlace(request, T + 1, t)
    <3> DEFINE j == T + 1
    <3>1. j = 4 + 2 * n /\ j # 1 /\ j # 2 /\ j # 3 /\ j # 5 + 2 * n /\ j <= 5 + 2 * n
      BY <1>4, <2>2
    <3>2. \A k \in 1..n : j # 2 + 2 * k /\ j # 3 + 2 * k
      BY <2>2, <3>1
    <3> HIDE DEF j, t
    <3>3. IsPlace(request, j, t)
      BY <3>1, <3>2 DEF IsPlace, t, n
    <3> QED BY <3>3 DEF j
  <2>4. t \in TokenSet /\ tokens' = Append(tokens, t) /\ t.index + t.len <= buffer.length
    <3>1. t.index = 0 /\ t.len = 0 /\ t \in TokenSet
      BY DEF Tok, TokenSet, Kinds
    <3>2. tokens' = Append(tokens, t)
      BY <1>1 DEF Tok
    <3> HIDE DEF t
    <3> QED BY <1>3, <3>1, <3>2
  <2> HIDE DEF t
  <2> QED BY <1>1, <1>3, <1>5, <2>2, <2>3, <2>4, PlacesAdded DEF Places
<1>7. UNCHANGED request
  BY <1>1
<1>8. Len(tokens') = 4 + 2 * n
  BY <1>4, <1>6
<1>9. Placed'
  <2>1. parser'.state \in {"chunked", "done", "large", "body", "error"}
    <3>1. kind \in {"chunked", "done", "large", "body", "error"}
      OBVIOUS
    <3> QED BY <1>5, <3>1
  <2> QED BY <2>1, PastHead DEF Placed
<1>10. BodyNext'
  <2>1. Len(tokens') = 4 + 2 * Len(request'.headers) + (IF parser'.done THEN 1 ELSE 0)
    <3>1. (IF parser'.done THEN 1 ELSE 0) = 0
      BY <1>5
    <3>2. Len(request'.headers) = n /\ n \in Nat
      BY <1>6, <1>7
    <3> DEFINE e == IF parser'.done THEN 1 ELSE 0
               u == Len(tokens')
               m == Len(request'.headers)
    <3>3. e = 0 /\ m = n /\ u = 4 + 2 * n
      BY <1>8, <3>1, <3>2
    <3> HIDE DEF e, u, m, n
    <3> QED BY <3>2, <3>3 DEF e, u, m
  <2>2. buffer'.after_headers_index = Ahead(request', Len(request'.headers) + 1) + 2
    BY <1>4, <1>5, <1>7
  <2> QED BY <2>1, <2>2 DEF BodyNext
<1>11. HeadThere'
  <2>1. Len(tokens') >= 4 + 2 * Len(request'.headers)
    BY <1>6, <1>7, <1>8
  <2> QED BY <2>1 DEF HeadThere
<1> QED BY <1>6, <1>9, <1>10, <1>11 DEF Places

(* The body.                                                               *)
LEMMA BodyPlaces ==
  ASSUME IInv, Places, Delimited(request), Body
  PROVE  Places'
<1> DEFINE n == Len(request.headers)
           T == Len(tokens)
           after == buffer.after_headers_index
           size == parser.content_length
           there == buffer.length >= after + size - 1
           t == Tok("BODY", after, size)
<1>1. /\ pc = "exec" /\ Fresh /\ parser.state = "body"
      /\ parser' = [parser EXCEPT !.type = "BODY", !.index = after, !.done = there, !.fresh = there]
      /\ tokens' = IF there THEN Append(tokens, t) ELSE tokens
      /\ pc' = IF there THEN "handled" ELSE "wait"
      /\ buffer' = [buffer EXCEPT !.index = buffer.length]
      /\ UNCHANGED <<request, sent, edge, memused, reads>>
  BY DEF Body, Parses, Tok
<1>2. pc \notin Ended /\ request \in Requests /\ tokens \in Seq(TokenSet) /\ BufferTyped(buffer)
      /\ ParserTyped(parser)
  BY <1>1 DEF IInv, Types, Ended
<1>3. n \in Nat /\ T \in Nat /\ after \in Nat /\ size \in Nat
  BY <1>2, RequestParts, LenProperties DEF BufferTyped, ParserTyped
<1>4. parser.done = FALSE
  BY <1>1, <1>2 DEF Fresh, ParserTyped
<1>5. T = 4 + 2 * n /\ after = Ahead(request, n + 1) + 2
  BY <1>1, <1>3, <1>4 DEF Places, BodyNext
<1>6. there \in BOOLEAN
  OBVIOUS
<1> HIDE DEF there
<1>7. /\ parser'.state = "body" /\ parser'.done = there
      /\ buffer'.after_headers_index = after /\ buffer'.length = buffer.length
  BY <1>1, <1>2 DEF ParserTyped, Parts, BufferTyped
<1>8. Placed'
  BY <1>7, PastHead DEF Placed
<1>9. CASE there
  <2>1. IsPlace(request, T + 1, t)
    <3> DEFINE j == T + 1
    <3>1. j = 5 + 2 * n /\ j # 1 /\ j # 2 /\ j # 3 /\ j # 4 + 2 * n /\ j <= 5 + 2 * n
      BY <1>3, <1>5
    <3>2. \A k \in 1..n : j # 2 + 2 * k /\ j # 3 + 2 * k
      BY <1>3, <3>1
    <3>3. t.type = "BODY" /\ t.index = Ahead(request, n + 1) + 2
      BY <1>5 DEF Tok
    <3> HIDE DEF j, t
    <3>4. IsPlace(request, j, t)
      BY <3>1, <3>2, <3>3 DEF IsPlace, n
    <3> QED BY <3>4 DEF j
  <2>2. t \in TokenSet /\ t.type = "BODY" /\ tokens' = Append(tokens, t)
    BY <1>1, <1>3, <1>9 DEF Tok, TokenSet, Kinds
  <2>3. Len(tokens') = T + 1 /\ TokensPlaced' /\ WithinRead'
    <3> HIDE DEF t
    <3> QED BY <1>1, <1>2, <1>7, <2>1, <2>2, PlacesAdded DEF Places
  <2>4. BodyNext'
    <3>1. Len(tokens') = 4 + 2 * n + 1
      BY <1>3, <1>5, <2>3
    <3>2. Len(tokens') = 4 + 2 * Len(request'.headers) + (IF parser'.done THEN 1 ELSE 0)
      BY <1>1, <1>7, <1>9, <3>1
    <3> QED BY <1>1, <1>5, <1>7, <3>2 DEF BodyNext
  <2>5. HeadThere'
    <3>1. Len(tokens') >= 4 + 2 * n
      BY <1>3, <1>5, <2>3
    <3> QED BY <1>1, <3>1 DEF HeadThere
  <2> QED BY <1>8, <2>3, <2>4, <2>5 DEF Places
<1>10. CASE ~there
  <2>1. UNCHANGED tokens /\ pc' = "wait"
    BY <1>1, <1>10
  <2>2. TokensPlaced' /\ WithinRead'
    BY <1>1, <1>2, <1>7, <2>1 DEF Places, TokensPlaced, WithinRead
  <2>3. BodyNext'
    BY <1>1, <1>5, <1>3, <1>7, <1>10, <2>1 DEF BodyNext
  <2>4. HeadThere'
    BY <2>1 DEF HeadThere, Handling, Ended
  <2> QED BY <1>8, <2>2, <2>3, <2>4 DEF Places
<1> QED BY <1>9, <1>10

(* An accepted connection.                                                 *)
LEMMA InitPlaces == Init => PlacesInv
<1> SUFFICES ASSUME Init PROVE Places
  BY DEF PlacesInv
<1>1. /\ pc = "read" /\ request \in Requests /\ buffer.index = 0
      /\ parser.state = "start" /\ tokens = <<>>
  BY DEF Init, ParserInit
<1>2. Len(tokens) = 0
  BY <1>1
<1>3. Placed
  BY <1>1, <1>2 DEF Placed, Where, WhereFirst, WhereLines, Keying, Separating, Beginning, Valuing
<1>4. TokensPlaced
  <2>1. Len(request.headers) \in Nat
    BY <1>1, RequestParts
  <2> QED BY <1>2, <2>1 DEF TokensPlaced
<1>5. BodyNext /\ HeadThere /\ WithinRead
  BY <1>1, <1>2 DEF BodyNext, HeadThere, WithinRead, Handling, Ended
<1> QED BY <1>3, <1>4, <1>5 DEF Places

(* The steps of the parser.                                                *)
LEMMA ParsePlaces ==
  ASSUME IInv, Places, Delimited(request), Refuse \/ OverLimit \/ Advance \/ TokenReady
  PROVE  Places'
<1>1. InHead
  BY DEF Refuse, OverLimit, Advance, TokenReady
<1>2. /\ DOMAIN parser = Parts /\ pc = "exec" /\ pc \notin Ended
      /\ BufferTyped(buffer) /\ BufferFits(buffer, parser, pc)
  BY <1>1, HeadStep DEF ParserTyped
<1>3. CASE Refuse
  <2>1. /\ parser' = [parser EXCEPT !.state = "error", !.fresh = FALSE]
        /\ buffer' = [buffer EXCEPT !.index = buffer.index + 1]
        /\ pc' = "wait" /\ UNCHANGED <<request, sent, edge, tokens, memused, reads>>
    BY <1>3 DEF Refuse, Stop
  <2>2. parser'.state = "error" /\ buffer'.length = buffer.length
    BY <1>2, <2>1 DEF Parts, BufferTyped
  <2>3. Placed'
    BY <2>2, PastHead DEF Placed
  <2>4. TokensPlaced' /\ HeadThere' /\ BodyNext' /\ WithinRead'
    BY <1>2, <2>1, <2>2 DEF Places, TokensPlaced, HeadThere, BodyNext, WithinRead, Handling, Ended
  <2> QED BY <2>3, <2>4 DEF Places
<1>4. ASSUME buffer' = [buffer EXCEPT !.index = @ + 1]
      PROVE  buffer'.index = buffer.index + 1 /\ buffer'.length = buffer.length
  BY <1>2, <1>4 DEF BufferTyped
<1>5. CASE OverLimit
  <2>1. PICK r \in Apply : TooLong(After(r), r) /\ parser' = [After(r) EXCEPT !.fresh = FALSE]
    BY <1>5 DEF OverLimit
  <2>2. buffer' = [buffer EXCEPT !.index = @ + 1] /\ pc' = "wait"
        /\ UNCHANGED <<request, sent, edge, tokens, memused, reads>>
    BY <1>5 DEF OverLimit
  <2>3. "ready" \notin r.does
    BY <1>1, <2>1, ReadyWithin
  <2>4. parser'.state = After(r).state /\ parser'.type = After(r).type /\ parser'.index = After(r).index
    <3> DEFINE p == After(r)
    <3>1. DOMAIN p = Parts
      BY <1>2, AfterParts
    <3>2. parser' = [p EXCEPT !.fresh = FALSE]
      BY <2>1
    <3> HIDE DEF p
    <3>3. parser'.state = p.state /\ parser'.type = p.type /\ parser'.index = p.index
      BY <3>1, <3>2 DEF Parts
    <3> QED BY <3>3 DEF p
  <2> QED BY <1>1, <1>4, <2>1, <2>2, <2>3, <2>4, RulePlaces
<1>6. CASE Advance
  <2>1. PICK r \in Apply : r.does \cap {"ready", "done"} = {} /\ parser' = After(r)
    BY <1>6 DEF Advance
  <2>2. buffer' = [buffer EXCEPT !.index = @ + 1]
        /\ UNCHANGED <<pc, request, sent, edge, tokens, memused, reads>>
    BY <1>6 DEF Advance
  <2>3. "ready" \notin r.does
    BY <2>1
  <2> QED BY <1>1, <1>2, <1>4, <2>1, <2>2, <2>3, RulePlaces
<1>7. CASE TokenReady
  <2>1. PICK r \in Apply :
          /\ ~TooLong(After(r), r) /\ "ready" \in r.does /\ parser' = After(r)
          /\ tokens' = Append(tokens, [type |-> After(r).type, index |-> After(r).index,
                                       len |-> buffer.index - After(r).index])
    BY <1>7 DEF TokenReady
  <2>2. buffer' = [buffer EXCEPT !.index = @ + 1] /\ UNCHANGED <<pc, request, sent, edge, memused, reads>>
    BY <1>7 DEF TokenReady
  <2>3. "done" \notin r.does
    <3>1. SUFFICES ASSUME "done" \in r.does PROVE FALSE
      OBVIOUS
    <3>2. r.does = {"count", "done"}
      BY <1>1, <3>1, AppliedRule, DoneRule DEF Is
    <3> QED BY <2>1, <3>2
  <2> QED BY <1>1, <1>2, <1>4, <2>1, <2>2, <2>3, RulePlaces
<1> QED BY <1>3, <1>5, <1>6, <1>7

(* The steps of which the parser is not one.                               *)
LEMMA OtherPlaces ==
  ASSUME IInv, Places,
         \/ Arrive \/ Event \/ ReadSome \/ ReadNothing \/ ReadFull \/ Expire \/ NotFresh \/ NoMore
         \/ Respond \/ RespondCrashes \/ Written \/ UNCHANGED vars
  PROVE  Places'
<1>1. BufferTyped(buffer) /\ DOMAIN parser = Parts
  BY DEF IInv, Types, ParserTyped
<1> DEFINE Still == /\ parser'.state = parser.state /\ parser'.type = parser.type
                    /\ parser'.index = parser.index /\ parser'.done = parser.done
           Apart == /\ buffer'.index = buffer.index
                    /\ buffer'.after_headers_index = buffer.after_headers_index
           Read  == buffer'.length \in Nat /\ buffer.length <= buffer'.length
<1>2. ASSUME UNCHANGED buffer PROVE Apart /\ Read
  BY <1>1, <1>2 DEF BufferTyped
<1>3. ASSUME UNCHANGED parser PROVE Still
  BY <1>3
<1>4. CASE Arrive \/ Event \/ ReadFull \/ Expire \/ NotFresh
  BY <1>2, <1>3, <1>4, PlacesHeld DEF Arrive, Event, ReadFull, Expire, NotFresh, Handling, Ended
<1>5. CASE ReadNothing
  <2>1. Still
    BY <1>1, <1>5 DEF ReadNothing, Parts
  <2> QED BY <1>2, <1>5, <2>1, PlacesHeld DEF ReadNothing, Handling, Ended
<1>6. CASE NoMore
  <2>1. /\ parser' = [parser EXCEPT !.state = parser.state, !.fresh = FALSE]
        /\ buffer' = [buffer EXCEPT !.index = buffer.index]
        /\ pc = "exec" /\ pc' = "wait" /\ UNCHANGED <<request, sent, edge, tokens, memused, reads>>
    BY <1>6 DEF NoMore, Stop
  <2>2. Still /\ Apart /\ Read
    BY <1>1, <2>1 DEF Parts, BufferTyped
  <2> QED BY <2>1, <2>2, PlacesHeld DEF Handling, Ended
<1>7. CASE ReadSome
  <2>1. PICK length, room, fresh :
          /\ length = buffer.length + Least(Room, sent - buffer.length)
          /\ buffer' = [buffer EXCEPT !.length = length, !.capacity = room]
          /\ parser' = [parser EXCEPT !.fresh = fresh]
          /\ pc = "read" /\ Room > 0 /\ sent > buffer.length
          /\ pc' \in {"read", "exec"} /\ UNCHANGED <<request, tokens>>
    BY <1>7 DEF ReadSome
  <2>2. Still /\ Apart /\ buffer'.length = length
    BY <1>1, <2>1 DEF Parts, BufferTyped
  <2>3. Read
    <3>1. sent \in Nat /\ buffer.length \in Nat /\ buffer.capacity \in Nat
      <4>1. pc \notin Ended
        BY <2>1 DEF Ended
      <4> QED BY <1>1, <4>1, Before DEF BufferTyped
    <3> DEFINE l == buffer.length
               c == buffer.capacity
    <3>2. l \in Nat /\ c \in Nat /\ sent \in Nat /\ c - l > 0 /\ sent > l /\ length = l + Least(c - l, sent - l)
      BY <2>1, <3>1 DEF Room
    <3> HIDE DEF l, c
    <3>3. length \in Nat /\ l <= length
      BY <3>2 DEF Least
    <3> QED BY <2>2, <3>3 DEF l
  <2> QED BY <2>1, <2>2, <2>3, PlacesHeld DEF Handling, Ended
<1>8. CASE RespondCrashes
  BY <1>2, <1>3, <1>8, PlacesHeld DEF RespondCrashes, Handling, Ended
<1>9. CASE Respond
  <2>1. /\ pc = "handled" /\ pc' = "write" /\ UNCHANGED <<request, sent, edge, parser, tokens, reads>>
        /\ buffer' = [buffer EXCEPT !.length = out'.size, !.capacity = Len(out'.buf)]
    BY <1>9 DEF Respond
  <2>2. Apart
    BY <1>1, <2>1 DEF BufferTyped
  <2> QED BY <1>3, <2>1, <2>2, PlacesHeld DEF Handling, Ended
<1>10. CASE Written
  <2>1. /\ pc = "write" /\ pc' \in {"kept", "ended"}
        /\ UNCHANGED <<request, sent, edge, buffer, parser, tokens, reads>>
    BY <1>10 DEF Written
  <2> QED BY <1>2, <1>3, <2>1, PlacesHeld DEF Handling, Ended
<1>11. CASE UNCHANGED vars
  BY <1>2, <1>3, <1>11, PlacesHeld DEF vars, parserVars
<1> QED BY <1>4, <1>5, <1>6, <1>7, <1>8, <1>9, <1>10, <1>11

(* The request is the one that is sent.                                    *)
LEMMA NextRequest == [Next]_vars => request' = request
BY DEF Next, Server, Reading, Serve, Exec, Arrive, Expire, Event, ReadSome, ReadNothing, ReadFull,
       NotFresh, NoMore, Stop, Refuse, OverLimit, Advance, TokenReady, HeadersDone, Body,
       Respond, RespondCrashes, Written, vars, parserVars

(* Every step keeps the tokens at their places.                            *)
LEMMA NextPlaces == IInv /\ PlacesInv /\ [Next]_vars => PlacesInv'
<1> SUFFICES ASSUME IInv, PlacesInv, [Next]_vars, Delimited(request') PROVE Places'
  BY DEF PlacesInv
<1>1. request' = request
  BY NextRequest
<1>2. Delimited(request) /\ Places
  BY <1>1 DEF PlacesInv
<1>3. \/ Refuse \/ OverLimit \/ Advance \/ TokenReady \/ HeadersDone \/ Body
      \/ Arrive \/ Event \/ ReadSome \/ ReadNothing \/ ReadFull \/ Expire \/ NotFresh \/ NoMore
      \/ Respond \/ RespondCrashes \/ Written \/ UNCHANGED vars
  BY DEF Next, Server, Reading, Serve, Exec
<1> QED BY <1>2, <1>3, ParsePlaces, HeadersDonePlaces, BodyPlaces, OtherPlaces

(* So it is in every state: the parser is where the text says, and the     *)
(* tokens are at their places (hsh_parser_exec and its callers).           *)
LEMMA PlacesAlways == Spec => []PlacesInv
BY InitPlaces, NextPlaces, Invariance, PTL DEF Spec

(* A part of a sequence is the sequence that is found there.               *)
LEMMA SliceLaw ==
  ASSUME NEW S, NEW x, NEW w \in Seq(S), NEW a \in Nat, \A j \in 1..Len(w) : x[a + j] = w[j]
  PROVE  SubSeq(x, a + 1, a + Len(w)) = w
<1> DEFINE l == Len(w)
           y == SubSeq(x, a + 1, a + l)
<1>1. l \in Nat /\ \A j \in 1..l : w[j] \in S
  BY LenProperties, ElementOfSeq
<1>2. \A j \in 1..l : x[a + j] = w[j]
  OBVIOUS
<1> HIDE DEF l
<1>3. \A i \in a + 1..a + l : x[i] \in S
  <2>1. TAKE i \in a + 1..a + l
  <2>2. i - a \in 1..l /\ a + (i - a) = i
    BY <1>1
  <2> QED BY <1>1, <1>2, <2>2
<1>4. /\ y \in Seq(S) /\ Len(y) = (IF a + 1 <= a + l THEN (a + l) - (a + 1) + 1 ELSE 0)
      /\ \A i \in 1..(a + l) - (a + 1) + 1 : y[i] = x[a + 1 + i - 1]
  <2> DEFINE m == a + 1
             n == a + l
  <2>1. m \in Int /\ n \in Int /\ \A i \in m..n : x[i] \in S
    BY <1>1, <1>3
  <2> HIDE DEF m, n
  <2>2. /\ SubSeq(x, m, n) \in Seq(S) /\ Len(SubSeq(x, m, n)) = (IF m <= n THEN n - m + 1 ELSE 0)
        /\ \A i \in 1..n - m + 1 : SubSeq(x, m, n)[i] = x[m + i - 1]
    BY <2>1, SubSeqProperties
  <2> QED BY <2>2 DEF m, n
<1> HIDE DEF y
<1>5. Len(y) = l
  BY <1>1, <1>4
<1>6. \A i \in 1..l : y[i] = w[i]
  <2>1. TAKE i \in 1..l
  <2>2. i \in 1..(a + l) - (a + 1) + 1 /\ a + 1 + i - 1 = a + i
    BY <1>1
  <2> QED BY <1>2, <1>4, <2>2
<1>7. y = w
  <2>1. Len(w) = l
    BY DEF l
  <2> QED BY <1>4, <1>5, <1>6, <2>1, SeqEqual
<1> QED BY <1>7 DEF y, l

(* The token t of the request q is the text w.                             *)
Says(q, t, w) ==
  /\ w \in Seq(Alphabet) /\ t.index \in Nat /\ t.len = Len(w)
  /\ \A i \in 1..Len(w) : TextOf[q][t.index + i] = w[i]

(* It is found in the text, and in what was read of it.                    *)
LEMMA SaysText ==
  ASSUME NEW q \in Requests, NEW t, NEW w, Says(q, t, w)
  PROVE  /\ SubSeq(TextOf[q], t.index + 1, t.index + t.len) = w
         /\ \A l \in 0..Len(TextOf[q]) : t.index + t.len <= l =>
              SubSeq(SubSeq(TextOf[q], 1, l), t.index + 1, Least(t.index + t.len, l)) = w
<1> DEFINE x == TextOf[q]
           a == t.index
           e == Len(w)
<1>1. /\ w \in Seq(Alphabet) /\ a \in Nat /\ t.len = e /\ \A i \in 1..e : x[a + i] = w[i]
      /\ e \in Nat /\ x \in Seq(Alphabet) /\ Len(x) \in Nat
  BY LenProperties, TextFits DEF Says
<1> HIDE DEF x, a
<1>2. SubSeq(x, a + 1, a + e) = w
  BY <1>1, SliceLaw
<1>3. ASSUME NEW l \in 0..Len(x), a + e <= l
      PROVE  SubSeq(SubSeq(x, 1, l), a + 1, Least(a + e, l)) = w
  <2> DEFINE y == SubSeq(x, 1, l)
  <2>1. \A i \in 1..l : x[i] \in Alphabet
    <3>1. \A i \in 1..Len(x) : x[i] \in Alphabet
      BY <1>1, ElementOfSeq
    <3>2. \A i \in 1..l : i \in 1..Len(x)
      BY <1>1
    <3> QED BY <3>1, <3>2
  <2>2. l \in Int /\ 1 \in Int /\ l - 1 + 1 = l
    BY <1>1
  <2>3. \A i \in 1..l - 1 + 1 : y[i] = x[1 + i - 1]
    BY <2>1, <2>2, SubSeqProperties
  <2>4. \A i \in 1..l : y[i] = x[i]
    <3>1. TAKE i \in 1..l
    <3>2. i \in 1..l - 1 + 1 /\ 1 + i - 1 = i
      BY <1>1
    <3> HIDE DEF y
    <3> QED BY <2>3, <3>2
  <2> HIDE DEF y, e
  <2>5. \A i \in 1..e : y[a + i] = w[i]
    <3>1. TAKE i \in 1..e
    <3>2. a + i \in 1..l
      BY <1>1, <1>3
    <3> QED BY <1>1, <2>4, <3>2
  <2>6. SubSeq(y, a + 1, a + e) = w
    BY <1>1, <2>5, SliceLaw DEF e
  <2>7. Least(a + e, l) = a + e
    BY <1>1, <1>3 DEF Least
  <2> QED BY <2>6, <2>7 DEF y
<1> HIDE DEF e
<1> QED BY <1>1, <1>2, <1>3 DEF x, a

(* What is left of a value is its end.                                     *)
LEMMA TrimmedEnd ==
  ASSUME NEW v \in Seq(Alphabet)
  PROVE  LET w == Trimmed(v)
         IN  /\ w \in Seq(Alphabet) /\ Len(w) \in Nat /\ Len(w) <= Len(v)
             /\ \A i \in 1..Len(w) : w[i] = v[Len(v) - Len(w) + i]
<1> DEFINE d == Len(v)
           w == Trimmed(v)
<1>1. d \in Nat /\ \A i \in 1..d : v[i] \in Alphabet
  BY LenProperties, ElementOfSeq
<1> HIDE DEF d, w
<1>2. CASE Spaces(v, d)
  <2>1. w = <<>> /\ Len(w) = 0
    BY <1>2, TrimmedLaw DEF d, w
  <2>2. w \in Seq(Alphabet)
    BY <2>1
  <2> QED BY <1>1, <2>1, <2>2 DEF d, w
<1>3. CASE ~Spaces(v, d)
  <2> DEFINE Bad == {l \in Nat : l \in 1..d /\ v[l] # "sp"}
  <2>1. Bad # {}
    BY <1>1, <1>3 DEF Spaces
  <2>2. PICK l \in Bad : \A m \in Bad : l <= m
    BY <2>1, LeastNumber
  <2>3. l \in 1..d /\ v[l] # "sp"
    BY <2>2
  <2>4. Spaces(v, l - 1)
    <3>1. SUFFICES ASSUME NEW j \in 1..l - 1 PROVE v[j] = "sp"
      BY DEF Spaces
    <3>2. j \in Nat /\ j \in 1..d /\ j < l
      BY <1>1, <2>3
    <3>3. j \in Bad => l <= j
      BY <2>2
    <3> HIDE DEF Bad
    <3>4. j \notin Bad
      BY <2>3, <1>1, <3>2, <3>3
    <3> QED BY <3>2, <3>4 DEF Bad
  <2> HIDE DEF Bad
  <2>5. w = SubSeq(v, l, d) /\ Len(w) = d - (l - 1)
    BY <2>3, <2>4, TrimmedLaw DEF d, w
  <2>6. \A i \in l..d : v[i] \in Alphabet
    BY <1>1, <2>3
  <2>7. w \in Seq(Alphabet) /\ \A i \in 1..d - l + 1 : w[i] = v[l + i - 1]
    <3>1. l \in Int /\ d \in Int
      BY <1>1, <2>3
    <3> QED BY <2>5, <2>6, <3>1, SubSeqProperties
  <2>8. Len(w) \in Nat /\ Len(w) <= d /\ d - Len(w) = l - 1
    <3> DEFINE e == Len(w)
    <3>1. e = d - (l - 1)
      BY <2>5
    <3> HIDE DEF e
    <3>2. e \in Nat /\ e <= d /\ d - e = l - 1
      BY <1>1, <2>3, <3>1
    <3> QED BY <3>2 DEF e
  <2>9. \A i \in 1..Len(w) : w[i] = v[d - Len(w) + i]
    <3> DEFINE e == Len(w)
    <3>1. e = d - (l - 1) /\ e \in Nat
      BY <2>5, <2>8
    <3> HIDE DEF e
    <3>2. ASSUME NEW i \in 1..e PROVE w[i] = v[d - e + i]
      <4>1. i \in 1..d - l + 1 /\ l + i - 1 = d - e + i
        BY <1>1, <2>3, <3>1
      <4> QED BY <2>7, <4>1
    <3> QED BY <3>2 DEF e
  <2> QED BY <2>7, <2>8, <2>9 DEF d, w
<1> QED BY <1>2, <1>3

(* The number of a token is that of a part of the request.                 *)
LEMMA PartOf ==
  ASSUME NEW n \in Nat, NEW j \in Nat, 1 <= j, j <= 5 + 2 * n
  PROVE  j \in {1, 2, 3} \/ j = 4 + 2 * n \/ j = 5 + 2 * n \/ \E k \in 1..n : j = 2 + 2 * k \/ j = 3 + 2 * k
<1>1. PICK h \in Int : j = 2 * h \/ j = 2 * h + 1
  <2>1. j = 2 * (j \div 2) \/ j = 2 * (j \div 2) + 1
    OBVIOUS
  <2>2. j \div 2 \in Int
    OBVIOUS
  <2> QED BY <2>1, <2>2
<1>2. h - 1 < 1 \/ h - 1 \in 1..n \/ h - 1 > n
  BY <1>1
<1>3. CASE h - 1 < 1
  BY <1>1, <1>3
<1>4. CASE h - 1 > n
  BY <1>1, <1>4
<1>5. CASE h - 1 \in 1..n
  <2>1. j = 2 + 2 * (h - 1) \/ j = 3 + 2 * (h - 1)
    BY <1>1
  <2> QED BY <1>5, <2>1
<1> QED BY <1>2, <1>3, <1>4, <1>5

(* The token in the place of a value says the value without its spaces.    *)
LEMMA ValueSays ==
  ASSUME NEW q \in Requests, NEW j \in Nat, NEW t, IsPlace(q, j, t),
         NEW k \in 1..Len(q.headers), j = 3 + 2 * k
  PROVE  t.type = "HEADER_VALUE" /\ Says(q, t, Trimmed(Val(q, k)))
<1> DEFINE n == Len(q.headers)
           x == TextOf[q]
<1>1. Val(q, k) \in Seq(Alphabet) /\ Len(Val(q, k)) \in Nat
  BY RequestParts
<1>2. /\ Len(Val(q, k)) \in Nat /\ ValAt(q, k) \in Nat
      /\ \A i \in 1..Len(Val(q, k)) : x[ValAt(q, k) + i] = Val(q, k)[i]
  <2>1. n \in Nat /\ Key(q, k) \in Seq(Alphabet) /\ Len(Key(q, k)) \in Nat
    BY RequestParts
  <2>2. Ahead(q, k) \in Nat /\ LinePlaces(q, x, k, Ahead(q, k), ValAt(q, k), Len(Key(q, k)), Len(Val(q, k)))
    <3>1. k \in 1..n + 1
      BY <2>1
    <3> QED BY <3>1, TextLaw
  <2>3. ValAt(q, k) \in Nat
    BY <2>1, <2>2 DEF ValAt
  <2> QED BY <1>1, <2>2, <2>3 DEF LinePlaces
<1> DEFINE w == Trimmed(Val(q, k))
           v == Val(q, k)
           d == Len(v)
           e == Len(w)
           a == ValAt(q, k)
<1>3. t = Tok("HEADER_VALUE", a + d - e, e)
  BY DEF IsPlace
<1>4. t.type = "HEADER_VALUE" /\ t.index = a + d - e /\ t.len = e
  BY <1>3 DEF Tok
<1>5. /\ w \in Seq(Alphabet) /\ e \in Nat /\ e <= d
      /\ \A i \in 1..e : w[i] = v[d - e + i]
  BY <1>1, TrimmedEnd
<1>6. d \in Nat /\ a \in Nat /\ \A i \in 1..d : x[a + i] = v[i]
  BY <1>2
<1> HIDE DEF w, v, d, e, a
<1>7. a + d - e \in Nat
  BY <1>5, <1>6
<1>8. \A i \in 1..e : x[a + d - e + i] = w[i]
  <2>1. TAKE i \in 1..e
  <2>2. d - e + i \in 1..d /\ a + (d - e + i) = a + d - e + i
    BY <1>5, <1>6
  <2> QED BY <1>5, <1>6, <2>2
<1> QED BY <1>4, <1>5, <1>7, <1>8 DEF Says, w, e

(* The type and the text of a token at its place.                          *)
LEMMA PlaceSays ==
  ASSUME NEW q \in Requests, NEW j \in Nat, NEW t, IsPlace(q, j, t)
  PROVE  /\ j = 1 => t.type = "METHOD" /\ Says(q, t, q.method)
         /\ j = 2 => t.type = "TARGET" /\ Says(q, t, q.target)
         /\ j = 3 => t.type = "VERSION" /\ Says(q, t, <<q.version>>)
         /\ \A k \in 1..Len(q.headers) :
              /\ j = 2 + 2 * k => t.type = "HEADER_KEY" /\ Says(q, t, Key(q, k))
              /\ j = 3 + 2 * k => t.type = "HEADER_VALUE" /\ Says(q, t, Trimmed(Val(q, k)))
         /\ j = 4 + 2 * Len(q.headers) => t.type = "HEADERS_DONE" /\ Says(q, t, <<>>)
         /\ j = 5 + 2 * Len(q.headers) =>
              t.type = "BODY" /\ t.index = Ahead(q, Len(q.headers) + 1) + 2
<1> DEFINE m == Len(q.method)
           l == Len(q.target)
           n == Len(q.headers)
           x == TextOf[q]
<1>1. /\ q.method \in Seq(Alphabet) /\ q.target \in Seq(Alphabet) /\ q.version \in Versions
      /\ m \in Nat /\ l \in Nat /\ n \in Nat
      /\ \A k \in 1..n : Key(q, k) \in Seq(Alphabet) /\ Val(q, k) \in Seq(Alphabet)
                         /\ Len(Key(q, k)) \in Nat /\ Len(Val(q, k)) \in Nat
  BY RequestParts
<1>2. /\ \A i \in 1..m : x[i] = q.method[i]
      /\ \A i \in 1..l : x[m + 1 + i] = q.target[i]
      /\ x[m + l + 3] = q.version
  BY TextLaw DEF FirstPlaces
<1>3. \A k \in 1..n :
        /\ Ahead(q, k) \in Nat /\ ValAt(q, k) \in Nat
        /\ \A i \in 1..Len(Key(q, k)) : x[Ahead(q, k) + i] = Key(q, k)[i]
        /\ \A i \in 1..Len(Val(q, k)) : x[ValAt(q, k) + i] = Val(q, k)[i]
  <2>1. TAKE k \in 1..n
  <2>2. Ahead(q, k) \in Nat /\ LinePlaces(q, x, k, Ahead(q, k), ValAt(q, k), Len(Key(q, k)), Len(Val(q, k)))
    <3>1. k \in 1..n + 1
      BY <1>1
    <3> QED BY <3>1, TextLaw
  <2>3. ValAt(q, k) \in Nat
    BY <1>1, <2>2 DEF ValAt
  <2> QED BY <2>2, <2>3 DEF LinePlaces
<1>4. ASSUME j = 1 PROVE t.type = "METHOD" /\ Says(q, t, q.method)
  <2>1. t.type = "METHOD" /\ t.index = 0 /\ t.len = m
    BY <1>4 DEF IsPlace, Tok
  <2>2. \A i \in 1..m : x[0 + i] = q.method[i]
    <3>1. \A i \in 1..m : 0 + i = i
      BY <1>1
    <3> QED BY <1>2, <3>1
  <2> QED BY <1>1, <2>1, <2>2 DEF Says
<1>5. ASSUME j = 2 PROVE t.type = "TARGET" /\ Says(q, t, q.target)
  <2>1. t.type = "TARGET" /\ t.index = m + 1 /\ t.len = l
    BY <1>5 DEF IsPlace, Tok
  <2>2. m + 1 \in Nat
    BY <1>1
  <2> QED BY <1>1, <1>2, <2>1, <2>2 DEF Says
<1>6. ASSUME j = 3 PROVE t.type = "VERSION" /\ Says(q, t, <<q.version>>)
  <2> DEFINE a == m + l + 2
  <2>5. t = Tok("VERSION", a, 1)
    BY <1>6, Zenon DEF IsPlace
  <2>2. a \in Nat /\ a + 1 = m + l + 3
    <3> HIDE DEF m, l
    <3> QED BY <1>1
  <2> HIDE DEF a
  <2>1. t.type = "VERSION" /\ t.index = a /\ t.len = 1
    BY <2>5 DEF Tok
  <2> DEFINE w == <<q.version>>
  <2>3. w \in Seq(Alphabet) /\ Len(w) = 1 /\ w[1] = q.version
    <3>1. q.version \in Alphabet
      BY <1>1 DEF Alphabet
    <3> QED BY <3>1
  <2> HIDE DEF w
  <2>4. \A i \in 1..Len(w) : x[t.index + i] = w[i]
    <3>1. TAKE i \in 1..Len(w)
    <3>2. i = 1
      BY <2>3
    <3> QED BY <1>2, <2>1, <2>2, <2>3, <3>2
  <2> QED BY <2>1, <2>2, <2>3, <2>4 DEF Says, w
<1>7. ASSUME NEW k \in 1..n, j = 2 + 2 * k PROVE t.type = "HEADER_KEY" /\ Says(q, t, Key(q, k))
  <2>1. t = Tok("HEADER_KEY", Ahead(q, k), Len(Key(q, k)))
    BY <1>7 DEF IsPlace
  <2>2. t.type = "HEADER_KEY" /\ t.index = Ahead(q, k) /\ t.len = Len(Key(q, k))
    BY <2>1 DEF Tok
  <2> QED BY <1>1, <1>3, <2>2 DEF Says
<1>8. ASSUME NEW k \in 1..n, j = 3 + 2 * k PROVE t.type = "HEADER_VALUE" /\ Says(q, t, Trimmed(Val(q, k)))
  BY <1>8, ValueSays
<1>9. ASSUME j = 4 + 2 * n PROVE t.type = "HEADERS_DONE" /\ Says(q, t, <<>>)
  <2>1. t = Tok("HEADERS_DONE", 0, 0)
    BY <1>9 DEF IsPlace
  <2>2. t.type = "HEADERS_DONE" /\ t.index = 0 /\ t.len = 0
    BY <2>1 DEF Tok
  <2>3. <<>> \in Seq(Alphabet) /\ Len(<<>>) = 0
    OBVIOUS
  <2> QED BY <2>2, <2>3 DEF Says
<1>10. j = 5 + 2 * n => t.type = "BODY" /\ t.index = Ahead(q, n + 1) + 2
  BY DEF IsPlace
<1> HIDE DEF m, l, n
<1> QED BY <1>4, <1>5, <1>6, <1>7, <1>8, <1>9, <1>10 DEF n

(* What the tokens of a request that is handled say.                       *)
LEMMA TokensSay ==
  ASSUME IInv, Places
  PROVE  LET T == Len(tokens)
             n == Len(request.headers)
         IN  /\ request \in Requests /\ T \in Nat /\ n \in Nat /\ DOMAIN tokens = 1..T /\ T <= 5 + 2 * n
             /\ \A j \in 1..T : j \in Nat /\ IsPlace(request, j, tokens[j])
             /\ \A j \in 1..T :
                  j \in {1, 2, 3} \/ j = 4 + 2 * n \/ j = 5 + 2 * n
                  \/ \E k \in 1..n : j = 2 + 2 * k \/ j = 3 + 2 * k
<1> DEFINE T == Len(tokens)
           n == Len(request.headers)
<1>1. request \in Requests /\ tokens \in Seq(TokenSet)
  BY DEF IInv, Types
<1>2. T \in Nat /\ n \in Nat /\ DOMAIN tokens = 1..T
  BY <1>1, LenProperties, RequestParts
<1>3. T <= 5 + 2 * n /\ \A j \in 1..T : IsPlace(request, j, tokens[j])
  BY DEF Places, TokensPlaced
<1> HIDE DEF T, n
<1>4. \A j \in 1..T :
        j \in {1, 2, 3} \/ j = 4 + 2 * n \/ j = 5 + 2 * n \/ \E k \in 1..n : j = 2 + 2 * k \/ j = 3 + 2 * k
  <2>1. TAKE j \in 1..T
  <2>2. j \in Nat /\ 1 <= j /\ j <= 5 + 2 * n
    BY <1>2, <1>3
  <2> QED BY <1>2, <2>2, PartOf
<1>5. \A j \in 1..T : j \in Nat
  BY <1>2
<1> QED BY <1>1, <1>2, <1>3, <1>4, <1>5 DEF T, n

(* A token of some type is one of the parts of that type.                  *)
LEMMA PartTypes ==
  ASSUME NEW q \in Requests, NEW j \in Nat, NEW t, IsPlace(q, j, t)
  PROVE  LET n == Len(q.headers)
         IN  /\ t.type = "VERSION" => /\ j # 1 /\ j # 2 /\ j # 4 + 2 * n /\ j # 5 + 2 * n
                                      /\ \A k \in 1..n : j # 2 + 2 * k /\ j # 3 + 2 * k
             /\ t.type = "HEADER_KEY" => /\ j # 1 /\ j # 2 /\ j # 3 /\ j # 4 + 2 * n /\ j # 5 + 2 * n
                                         /\ \A k \in 1..n : j # 3 + 2 * k
<1> DEFINE n == Len(q.headers)
<1> DEFINE y == t.type
<1>1. j = 1 => y = "METHOD"
  BY PlaceSays
<1>2. j = 2 => y = "TARGET"
  BY PlaceSays
<1>3. j = 3 => y = "VERSION"
  BY PlaceSays
<1>4. ASSUME NEW k \in 1..n PROVE j = 2 + 2 * k => y = "HEADER_KEY"
  <2>1. SUFFICES ASSUME j = 2 + 2 * k PROVE y = "HEADER_KEY"
    OBVIOUS
  <2>2. t = Tok("HEADER_KEY", Ahead(q, k), Len(Key(q, k)))
    BY <2>1 DEF IsPlace
  <2> QED BY <2>2 DEF Tok
<1>5. ASSUME NEW k \in 1..n PROVE j = 3 + 2 * k => y = "HEADER_VALUE"
  <2>1. SUFFICES ASSUME j = 3 + 2 * k PROVE y = "HEADER_VALUE"
    OBVIOUS
  <2> DEFINE e == Len(Trimmed(Val(q, k)))
  <2>2. t = Tok("HEADER_VALUE", ValAt(q, k) + Len(Val(q, k)) - e, e)
    BY <2>1 DEF IsPlace
  <2> QED BY <2>2 DEF Tok
<1>6. j = 4 + 2 * n => y = "HEADERS_DONE"
  BY PlaceSays
<1>7. j = 5 + 2 * n => y = "BODY"
  BY PlaceSays
<1> HIDE DEF n, y
<1>8. ASSUME y = "VERSION"
      PROVE  /\ j # 1 /\ j # 2 /\ j # 4 + 2 * n /\ j # 5 + 2 * n
             /\ \A k \in 1..n : j # 2 + 2 * k /\ j # 3 + 2 * k
  <2>1. y # "METHOD" /\ y # "TARGET" /\ y # "HEADER_KEY" /\ y # "HEADER_VALUE"
        /\ y # "HEADERS_DONE" /\ y # "BODY"
    BY <1>8
  <2> QED BY <1>1, <1>2, <1>4, <1>5, <1>6, <1>7, <2>1, Zenon
<1>9. ASSUME y = "HEADER_KEY"
      PROVE  /\ j # 1 /\ j # 2 /\ j # 3 /\ j # 4 + 2 * n /\ j # 5 + 2 * n
             /\ \A k \in 1..n : j # 3 + 2 * k
  <2>1. y # "METHOD" /\ y # "TARGET" /\ y # "VERSION" /\ y # "HEADER_VALUE"
        /\ y # "HEADERS_DONE" /\ y # "BODY"
    BY <1>9
  <2> QED BY <1>1, <1>2, <1>3, <1>5, <1>6, <1>7, <2>1, Zenon
<1> QED BY <1>8, <1>9 DEF n, y

(* The version that the handler is told.                                   *)
LEMMA VersionIs ==
  ASSUME IInv, Places, pc = "handled"
  PROVE  Version = <<request.version>>
<1> DEFINE T == Len(tokens)
           n == Len(request.headers)
<1>1. /\ request \in Requests /\ T \in Nat /\ n \in Nat /\ DOMAIN tokens = 1..T /\ T <= 5 + 2 * n
      /\ \A j \in 1..T : j \in Nat /\ IsPlace(request, j, tokens[j])
      /\ \A j \in 1..T :
           j \in {1, 2, 3} \/ j = 4 + 2 * n \/ j = 5 + 2 * n \/ \E k \in 1..n : j = 2 + 2 * k \/ j = 3 + 2 * k
  BY TokensSay
<1>2. T >= 4 + 2 * n
  BY DEF Places, HeadThere, Handling
<1> HIDE DEF T, n
<1>3. 3 \in 1..T
  BY <1>1, <1>2
<1>4. tokens[3].type = "VERSION" /\ Says(request, tokens[3], <<request.version>>)
  BY <1>1, <1>3, PlaceSays
<1>5. ASSUME NEW j \in 1..T, tokens[j].type = "VERSION" PROVE j = 3
  <2>1. j \in Nat /\ IsPlace(request, j, tokens[j])
    BY <1>1
  <2>2. /\ j # 1 /\ j # 2 /\ j # 4 + 2 * n /\ j # 5 + 2 * n
        /\ \A k \in 1..n : j # 2 + 2 * k /\ j # 3 + 2 * k
    BY <1>1, <1>5, <2>1, PartTypes DEF n
  <2> QED BY <1>1, <2>2
<1>6. TokensOf("VERSION") = {3}
  <2> DEFINE V == TokensOf("VERSION")
  <2>1. V = {i \in 1..T : tokens[i].type = "VERSION"}
    BY <1>1 DEF TokensOf
  <2> HIDE DEF V
  <2>2. 3 \in V /\ \A j \in V : j = 3
    BY <1>3, <1>4, <1>5, <2>1
  <2> QED BY <2>2 DEF V
<1>7. Min({3}) = 3
  BY MinLaw
<1>8. TokenText(tokens[3]) = <<request.version>>
  BY <1>1, <1>4, SaysText DEF TokenText, Stream
<1> QED BY <1>6, <1>7, <1>8 DEF Version

(* The header that the handler is told, if any, is the first one.          *)
LEMMA HeaderIs ==
  ASSUME IInv, Places, pc = "handled", NEW name
  PROVE  Header(name) = FirstNamed(request, name)
<1> DEFINE T == Len(tokens)
           n == Len(request.headers)
           keys == TokensOf("HEADER_KEY")
           at == {i \in keys : TokenText(tokens[i]) = <<name>>}
           N == Named(request, name)
<1>1. /\ request \in Requests /\ T \in Nat /\ n \in Nat /\ DOMAIN tokens = 1..T /\ T <= 5 + 2 * n
      /\ \A j \in 1..T : j \in Nat /\ IsPlace(request, j, tokens[j])
      /\ \A j \in 1..T :
           j \in {1, 2, 3} \/ j = 4 + 2 * n \/ j = 5 + 2 * n \/ \E k \in 1..n : j = 2 + 2 * k \/ j = 3 + 2 * k
  BY TokensSay
<1>2. T >= 4 + 2 * n
  BY DEF Places, HeadThere, Handling
<1>3. N = {k \in 1..n : Key(request, k) = <<name>>}
  BY <1>1, RequestParts DEF Named, Key
<1>4. keys = {j \in 1..T : tokens[j].type = "HEADER_KEY"}
  BY <1>1 DEF TokensOf
<1> HIDE DEF T, n, keys, N
<1>5. ASSUME NEW k \in 1..n
      PROVE  /\ 2 + 2 * k \in keys /\ TokenText(tokens[2 + 2 * k]) = Key(request, k)
             /\ TokenText(tokens[3 + 2 * k]) = Trimmed(Val(request, k))
  <2>1. 2 + 2 * k \in 1..T /\ 3 + 2 * k \in 1..T
    BY <1>1, <1>2
  <2> DEFINE i == 2 + 2 * k
             j == 3 + 2 * k
  <2>2. tokens[i].type = "HEADER_KEY" /\ Says(request, tokens[i], Key(request, k))
    <3>1. i \in Nat /\ IsPlace(request, i, tokens[i])
      BY <1>1, <2>1
    <3> QED BY <1>1, <3>1, PlaceSays DEF n
  <2>3. Says(request, tokens[j], Trimmed(Val(request, k)))
    <3>1. j \in Nat /\ IsPlace(request, j, tokens[j])
      BY <1>1, <2>1
    <3> QED BY <1>1, <3>1, PlaceSays DEF n
  <2> HIDE DEF i, j
  <2>4. TokenText(tokens[i]) = Key(request, k) /\ TokenText(tokens[j]) = Trimmed(Val(request, k))
    BY <1>1, <2>2, <2>3, SaysText DEF TokenText, Stream
  <2> QED BY <1>4, <2>1, <2>2, <2>4 DEF i, j
<1>6. ASSUME NEW j \in keys PROVE \E k \in 1..n : j = 2 + 2 * k
  <2>1. j \in 1..T /\ tokens[j].type = "HEADER_KEY"
    BY <1>4
  <2>2. j \in Nat /\ IsPlace(request, j, tokens[j])
    BY <1>1, <2>1
  <2>3. /\ j # 1 /\ j # 2 /\ j # 3 /\ j # 4 + 2 * n /\ j # 5 + 2 * n
        /\ \A k \in 1..n : j # 3 + 2 * k
    BY <1>1, <2>1, <2>2, PartTypes DEF n
  <2> QED BY <1>1, <2>1, <2>3
<1>7. \A k \in N : k \in 1..n /\ 2 + 2 * k \in at
  BY <1>3, <1>5
<1>8. \A j \in at : \E k \in N : j = 2 + 2 * k
  <2>1. TAKE j \in at
  <2>2. PICK k \in 1..n : j = 2 + 2 * k
    BY <1>6
  <2>3. Key(request, k) = <<name>>
    BY <1>5, <2>2
  <2> QED BY <1>3, <2>2, <2>3
<1> HIDE DEF at
<1>9. Header(name) = IF at = {} THEN <<>> ELSE TokenText(tokens[Min(at) + 1])
  BY Zenon DEF Header, at, keys
<1>10. FirstNamed(request, name) = IF N = {} THEN <<>> ELSE Trimmed(Val(request, Min(N)))
  BY Zenon DEF FirstNamed, N, Val
<1>11. CASE N = {}
  BY <1>8, <1>9, <1>10, <1>11
<1>12. CASE N # {}
  <2>1. N \in SUBSET Nat
    BY <1>1, <1>7
  <2>2. PICK l \in N : \A k \in N : l <= k
    BY <1>12, <2>1, LeastNumber
  <2>3. Min(N) = l
    BY <2>1, <2>2, MinLaw
  <2>4. l \in 1..n /\ 2 + 2 * l \in at
    BY <1>7
  <2>5. at \in SUBSET Nat /\ \A j \in at : 2 + 2 * l <= j
    <3>1. \A j \in at : j \in Nat /\ 2 + 2 * l <= j
      <4>1. TAKE j \in at
      <4>2. PICK k \in N : j = 2 + 2 * k
        BY <1>8
      <4>3. k \in Nat /\ l \in Nat /\ l <= k
        BY <2>1, <2>2
      <4> QED BY <4>2, <4>3
    <3> QED BY <3>1
  <2>6. Min(at) = 2 + 2 * l
    BY <2>4, <2>5, MinLaw
  <2>7. Min(at) + 1 = 3 + 2 * l
    BY <1>1, <2>4, <2>6
  <2>8. Header(name) = Trimmed(Val(request, l))
    BY <1>5, <1>9, <2>4, <2>7
  <2> QED BY <1>10, <1>12, <2>3, <2>8
<1> QED BY <1>11, <1>12

(* What is detected is what the request asks for.                          *)
LEMMA DetectsAsked ==
  ASSUME IInv, Places, pc = "handled"
  PROVE  DetectKeepAlive = AsksKeepAlive(request)
<1> DEFINE conn == FirstNamed(request, "Connection")
<1>1. Header("Connection") = conn
  BY HeaderIs
<1>2. Version = <<request.version>>
  BY VersionIs
<1>3. request.version \in {"HTTP/1.0", "HTTP/1.1"}
  BY RequestParts DEF IInv, Types, Versions
<1> HIDE DEF conn
<1>4. <<request.version>> # <<"HTTP/1.1">> <=> request.version = "HTTP/1.0"
  <2> DEFINE w == <<request.version>>
             u == <<"HTTP/1.1">>
  <2>1. w[1] = request.version /\ u[1] = "HTTP/1.1"
    OBVIOUS
  <2>2. "HTTP/1.0" # "HTTP/1.1"
    OBVIOUS
  <2>3. request.version = "HTTP/1.1" => w = u
    OBVIOUS
  <2> HIDE DEF w, u
  <2>4. w # u <=> request.version = "HTTP/1.0"
    BY <1>3, <2>1, <2>2, <2>3
  <2> QED BY <2>4 DEF w, u
<1>5. DetectKeepAlive <=> AsksKeepAlive(request)
  BY <1>1, <1>2, <1>4, Zenon DEF DetectKeepAlive, AsksKeepAlive, conn
<1>6. DetectKeepAlive \in BOOLEAN /\ AsksKeepAlive(request) \in BOOLEAN
  BY Zenon DEF DetectKeepAlive, AsksKeepAlive
<1> QED BY <1>5, <1>6

(* Who is answered is told what was asked for.                             *)
KeepAliveInv == Delimited(request) => KeepAliveAsAsked

(* Each step keeps that.                                                   *)
LEMMA NextKeepsAlive == IInv /\ PlacesInv /\ KeepAliveInv /\ [Next]_vars => KeepAliveInv'
<1> SUFFICES ASSUME IInv, PlacesInv, KeepAliveInv, [Next]_vars, Delimited(request'), pc' \in Ended
             PROVE  keepAlive' = AsksKeepAlive(request')
  BY DEF KeepAliveInv, KeepAliveAsAsked
<1>1. request' = request
  BY NextRequest
<1>2. Delimited(request) /\ Places
  BY <1>1 DEF PlacesInv
<1>3. CASE Respond
  BY <1>1, <1>2, <1>3, DetectsAsked DEF Respond
<1>4. CASE ~Respond
  <2>1. pc \in Ended /\ keepAlive' = keepAlive
    BY <1>4 DEF Ended, Next, Server, Reading, Serve, Exec, Arrive, Expire, Event, ReadSome, ReadNothing,
         ReadFull, NotFresh, NoMore, Stop, Refuse, OverLimit, Advance, TokenReady, HeadersDone, Body,
         InHead, Parses, RespondCrashes, Written, vars, parserVars
  <2> QED BY <1>1, <1>2, <2>1 DEF KeepAliveInv, KeepAliveAsAsked
<1> QED BY <1>3, <1>4

(* Whatever the request, if its text can be divided: what the response     *)
(* says of the connection is what was asked for.                           *)
THEOREM KeepAliveIsAsAsked == Spec => [](Delimited(request) => KeepAliveAsAsked)
<1>1. Init => KeepAliveInv
  BY DEF Init, ParserInit, KeepAliveInv, KeepAliveAsAsked, Ended
<1>2. Spec => []KeepAliveInv
  BY <1>1, NextKeepsAlive, Invariance, PlacesAlways, PTL DEF Spec
<1>3. KeepAliveInv => (Delimited(request) => KeepAliveAsAsked)
  BY DEF KeepAliveInv
<1> QED BY <1>2, <1>3, PTL

-----------------------------------------------------------------------------
(* The number that digits are, one digit at a time.                        *)

(* The table that FoldLeft makes of it: an entry for every set of places.  *)
NumberNext(g, seq, U) == IF U = {} THEN 0 ELSE 10 * g[U \ {Max(U)}] + Digit[seq[Max(U)]]
IsTable(g, seq) == g = [U \in SUBSET DOMAIN seq |-> NumberNext(g, seq, U)]
Table(seq) == CHOOSE g : IsTable(g, seq)

(* The number is the entry of all places.                                  *)
LEMMA NumberIsEntry == ASSUME NEW seq PROVE NumberOf(seq) = Table(seq)[DOMAIN seq]
BY Zenon DEF NumberOf, FoldLeft, MapThenFoldSet, Max, Table, IsTable, NumberNext

(* The table can be filled in by the size of the sets.                     *)
LEMMA TableExists ==
  ASSUME NEW seq, NEW n \in Nat, DOMAIN seq = 1..n
  PROVE  IsTable(Table(seq), seq)
<1> DEFINE UpTo(g, m) ==
             \A U \in SUBSET (1..n) : Cardinality(U) <= m => g[U] = NumberNext(g, seq, U)
           Fills(m) == \E g : UpTo(g, m)
           Bad == {m \in Nat : ~Fills(m)}
<1>1. \A U \in SUBSET (1..n) : /\ IsFiniteSet(U) /\ Cardinality(U) \in Nat
                               /\ Cardinality(U) <= Cardinality(1..n)
  <2>1. IsFiniteSet(1..n)
    BY FS_Interval
  <2> QED BY <2>1, FS_Subset, FS_CardinalityType
<1>2. Fills(0)
  <2>1. UpTo([U \in SUBSET (1..n) |-> 0], 0)
    BY <1>1, FS_EmptySet DEF NumberNext
  <2> QED BY <2>1
<1>3. ASSUME NEW m \in Nat, Fills(m) PROVE Fills(m + 1)
  <2>1. PICK g : UpTo(g, m)
    BY <1>3
  <2> DEFINE h == [U \in SUBSET (1..n) |-> NumberNext(g, seq, U)]
  <2>2. SUFFICES ASSUME NEW U \in SUBSET (1..n), Cardinality(U) <= m + 1, U # {}
                 PROVE  h[U \ {Max(U)}] = g[U \ {Max(U)}]
    <3>1. UpTo(h, m + 1)
      BY <2>2 DEF NumberNext
    <3> QED BY <3>1
  <2>3. Max(U) \in U
    BY <2>2, LastPlace
  <2>4. Cardinality(U \ {Max(U)}) = Cardinality(U) - 1
    BY <2>2, <2>3, <1>1, FS_RemoveElement
  <2>5. Cardinality(U \ {Max(U)}) <= m /\ U \ {Max(U)} \in SUBSET (1..n)
    <3> DEFINE V == U \ {Max(U)}
               c == Cardinality(U)
               d == Cardinality(V)
    <3>1. c \in Nat /\ c <= m + 1 /\ d = c - 1
      BY <1>1, <2>2, <2>4
    <3>2. V \in SUBSET (1..n)
      OBVIOUS
    <3> HIDE DEF c, d
    <3>3. d <= m
      BY <3>1
    <3> QED BY <3>2, <3>3 DEF d
  <2> HIDE DEF h
  <2>6. h[U \ {Max(U)}] = NumberNext(g, seq, U \ {Max(U)})
    BY <2>5 DEF h
  <2> QED BY <2>1, <2>5, <2>6
<1>4. Bad = {}
  <2>1. SUFFICES ASSUME Bad # {} PROVE FALSE
    OBVIOUS
  <2> HIDE DEF Fills
  <2>2. PICK m \in Bad : \A k \in Bad : m <= k
    BY <2>1, LeastNumber
  <2>3. m # 0 /\ m - 1 \in Nat /\ m - 1 \notin Bad
    BY <1>2, <2>2
  <2> QED BY <1>3, <2>2, <2>3
<1>5. PICK g : UpTo(g, Cardinality(1..n))
  BY <1>1, <1>4
<1>6. IsTable([U \in SUBSET (1..n) |-> g[U]], seq)
  <2>1. ASSUME NEW U \in SUBSET (1..n)
        PROVE  g[U] = NumberNext([V \in SUBSET (1..n) |-> g[V]], seq, U)
    <3>1. g[U] = NumberNext(g, seq, U)
      BY <1>1, <1>5
    <3>2. U \ {Max(U)} \in SUBSET (1..n)
      OBVIOUS
    <3> QED BY <3>1, <3>2 DEF NumberNext
  <2> QED BY <2>1 DEF IsTable
<1> QED BY <1>6 DEF Table

(* The number that the first k digits are.                                 *)
NumberTo(seq, k) == Table(seq)[1..k]

(* The k-th digit is behind the ones before it.                            *)
LEMMA NumberLaw ==
  ASSUME NEW seq, NEW n \in Nat, DOMAIN seq = 1..n
  PROVE  /\ NumberTo(seq, 0) = 0
         /\ \A k \in 1..n :
              NumberTo(seq, k) = 10 * NumberTo(seq, k - 1) + Digit[seq[k]]
<1> DEFINE g == Table(seq)
           P(U) == NumberNext(g, seq, U)
<1>1. \A U \in SUBSET (1..n) : g[U] = P(U)
  <2>1. IsTable(g, seq)
    BY TableExists
  <2>2. g = [U \in SUBSET (1..n) |-> P(U)]
    BY <2>1 DEF IsTable
  <2> HIDE DEF P, g
  <2> QED BY <2>2
<1> HIDE DEF g
<1>2. g[1..0] = 0
  <2>1. 1..0 = {}
    OBVIOUS
  <2> QED BY <1>1, <2>1 DEF NumberNext
<1>3. ASSUME NEW k \in 1..n PROVE g[1..k] = 10 * g[1..k - 1] + Digit[seq[k]]
  <2>1. 1..k \in SUBSET (1..n) /\ 1..k # {}
    <3>1. k \in 1..k /\ \A i \in 1..k : i \in 1..n
      OBVIOUS
    <3> QED BY <3>1
  <2>2. Max(1..k) = k /\ (1..k) \ {k} = 1..k - 1
    BY LastPlace
  <2> QED BY <1>1, <2>1, <2>2 DEF NumberNext
<1> QED BY <1>2, <1>3 DEF NumberTo, g

(* The first places of two sequences that agree there are one number.      *)
LEMMA NumbersAgree ==
  ASSUME NEW s, NEW n \in Nat, DOMAIN s = 1..n, NEW t, NEW m \in Nat, DOMAIN t = 1..m,
         NEW k \in Nat, k <= n, k <= m, \A i \in 1..k : s[i] = t[i]
  PROVE  NumberTo(s, k) = NumberTo(t, k)
<1> DEFINE Bad == {i \in Nat : i <= k /\ NumberTo(s, i) # NumberTo(t, i)}
<1>1. SUFFICES ASSUME Bad # {} PROVE FALSE
  OBVIOUS
<1>2. PICK i \in Bad : \A j \in Bad : i <= j
  BY <1>1, LeastNumber
<1>3. i # 0
  BY <1>2, NumberLaw
<1>4. i \in 1..n /\ i \in 1..m /\ i \in 1..k /\ i - 1 \in Nat /\ i - 1 <= k /\ ~(i <= i - 1)
  BY <1>2, <1>3
<1>5. NumberTo(s, i - 1) = NumberTo(t, i - 1)
  BY <1>2, <1>4
<1>6. /\ NumberTo(s, i) = 10 * NumberTo(s, i - 1) + Digit[s[i]]
      /\ NumberTo(t, i) = 10 * NumberTo(t, i - 1) + Digit[t[i]]
  BY <1>4, NumberLaw
<1>7. s[i] = t[i]
  BY <1>4
<1>8. NumberTo(s, i) = NumberTo(t, i)
  BY <1>5, <1>6, <1>7, Zenon
<1> QED BY <1>2, <1>8

(* A digit more.                                                           *)
LEMMA OneMoreDigit ==
  ASSUME NEW v \in Seq(Alphabet), NEW a \in Nat, NEW b \in Nat, 1 <= a, a <= b, b <= Len(v)
  PROVE  NumberOf(SubSeq(v, a, b)) =
           (IF a = b THEN 0 ELSE 10 * NumberOf(SubSeq(v, a, b - 1))) + Digit[v[b]]
<1> DEFINE s == SubSeq(v, a, b)
           t == SubSeq(v, a, b - 1)
           n == (b - a) + 1
           m == b - a
<1>1. Len(v) \in Nat /\ \A i \in 1..Len(v) : v[i] \in Alphabet
  BY LenProperties, ElementOfSeq
<1>2. \A i \in a..b : v[i] \in Alphabet
  BY <1>1
<1>3. s \in Seq(Alphabet) /\ Len(s) = n /\ \A i \in 1..n : s[i] = v[a + i - 1]
  <2>1. a \in Int /\ b \in Int /\ b - a + 1 = n
    OBVIOUS
  <2>2. /\ s \in Seq(Alphabet) /\ Len(s) = (IF a <= b THEN b - a + 1 ELSE 0)
        /\ \A i \in 1..b - a + 1 : s[i] = v[a + i - 1]
    BY <1>2, <2>1, SubSeqProperties
  <2> HIDE DEF s
  <2> QED BY <2>1, <2>2
<1>4. t \in Seq(Alphabet) /\ Len(t) = m /\ \A i \in 1..m : t[i] = v[a + i - 1]
  <2> DEFINE c == b - 1
  <2>1. a \in Int /\ c \in Int /\ c - a + 1 = m /\ \A i \in a..c : v[i] \in Alphabet
    BY <1>2
  <2> HIDE DEF c
  <2>2. /\ SubSeq(v, a, c) \in Seq(Alphabet) /\ Len(SubSeq(v, a, c)) = (IF a <= c THEN c - a + 1 ELSE 0)
        /\ \A i \in 1..c - a + 1 : SubSeq(v, a, c)[i] = v[a + i - 1]
    BY <2>1, SubSeqProperties
  <2>3. t = SubSeq(v, a, c)
    BY DEF c
  <2> HIDE DEF t
  <2>4. a <= c \/ m = 0
    BY DEF c
  <2>5. Len(t) = m
    BY <2>1, <2>2, <2>3, <2>4
  <2> QED BY <2>1, <2>2, <2>3, <2>5
<1>5. DOMAIN s = 1..n /\ DOMAIN t = 1..m /\ n \in Nat /\ m \in Nat /\ n = m + 1 /\ n \in 1..n
  <2>1. DOMAIN s = 1..Len(s) /\ DOMAIN t = 1..Len(t)
    BY <1>3, <1>4, LenProperties
  <2>2. n \in Nat /\ m \in Nat /\ n = m + 1 /\ n \in 1..n
    OBVIOUS
  <2> QED BY <1>3, <1>4, <2>1, <2>2
<1>6. s[n] = v[b]
  <2>1. a + n - 1 = b
    OBVIOUS
  <2> HIDE DEF n, s
  <2> QED BY <1>3, <1>5, <2>1
<1>7. m = 0 <=> a = b
  OBVIOUS
<1>8. \A i \in 1..m : s[i] = t[i]
  <2>1. \A i \in 1..m : i \in 1..n
    OBVIOUS
  <2> HIDE DEF s, t, n, m
  <2> QED BY <1>3, <1>4, <2>1, Zenon
<1> HIDE DEF s, t, n, m
<1>9. NumberOf(s) = 10 * NumberTo(s, m) + Digit[v[b]]
  <2>1. NumberOf(s) = NumberTo(s, n)
    BY <1>5, NumberIsEntry DEF NumberTo
  <2>2. NumberTo(s, n) = 10 * NumberTo(s, n - 1) + Digit[s[n]]
    <3>1. DOMAIN s = 1..n /\ n \in Nat /\ n \in 1..n
      BY <1>5
    <3> QED BY <3>1, NumberLaw
  <2>3. n - 1 = m
    BY <1>5
  <2> QED BY <1>6, <2>1, <2>2, <2>3
<1>10. NumberTo(s, m) = NumberTo(t, m) /\ NumberTo(t, m) = NumberOf(t)
  <2>1. m <= n /\ m <= m
    BY <1>5
  <2>2. NumberTo(s, m) = NumberTo(t, m)
    BY <1>5, <1>8, <2>1, NumbersAgree
  <2>3. NumberTo(t, m) = NumberOf(t)
    BY <1>5, NumberIsEntry DEF NumberTo
  <2> QED BY <2>2, <2>3
<1>11. CASE a = b
  <2>1. NumberTo(s, m) = 0
    BY <1>5, <1>7, <1>11, NumberLaw
  <2>2. NumberOf(s) = 0 + Digit[v[b]]
    <3>1. NumberOf(s) = 10 * 0 + Digit[v[b]]
      BY <1>9, <2>1, Zenon
    <3>2. 10 * 0 = 0
      OBVIOUS
    <3> QED BY <3>1, <3>2, Zenon
  <2> QED BY <1>11, <2>2, Zenon DEF s
<1>12. CASE a # b
  <2>1. NumberOf(s) = 10 * NumberOf(t) + Digit[v[b]]
    BY <1>9, <1>10, Zenon
  <2> QED BY <1>12, <2>1, Zenon DEF s, t
<1> QED BY <1>11, <1>12

-----------------------------------------------------------------------------
(* The length that a request declares.                                     *)

(* What its first k - 1 headers declare.                                   *)
DeclaredBefore(q, k) == IF \E c \in Named(q, "Content-Length") : c < k THEN Declared(q) ELSE 0

(* The headers that are named so.                                          *)
LEMMA NamedLength ==
  ASSUME NEW q \in Requests
  PROVE  /\ Named(q, "Content-Length") \in SUBSET Nat
         /\ \A c \in Named(q, "Content-Length") : c \in 1..Len(q.headers)
         /\ \A k \in 1..Len(q.headers) : IsLength(q, k) <=> k \in Named(q, "Content-Length")
<1>1. DOMAIN q.headers = 1..Len(q.headers) /\ Len(q.headers) \in Nat
  BY RequestParts
<1> QED BY <1>1 DEF Named, IsLength, Key

(* A header of another name declares nothing.                              *)
LEMMA NothingDeclared ==
  ASSUME NEW q \in Requests, NEW k \in 1..Len(q.headers), ~IsLength(q, k)
  PROVE  DeclaredBefore(q, k + 1) = DeclaredBefore(q, k)
<1> DEFINE C == Named(q, "Content-Length")
<1>1. k \notin C /\ C \in SUBSET Nat /\ k \in Nat
  BY NamedLength, RequestParts
<1> HIDE DEF C
<1>2. (\E c \in C : c < k + 1) <=> (\E c \in C : c < k)
  BY <1>1
<1> QED BY <1>2 DEF DeclaredBefore, C

(* The first of them declares the length.                                  *)
LEMMA DeclaresLength ==
  ASSUME NEW q \in Requests, Numbered(q), NEW k \in 1..Len(q.headers), IsLength(q, k)
  PROVE  /\ IsNumber(Trimmed(Val(q, k)))
         /\ DeclaredBefore(q, k) = 0
         /\ DeclaredBefore(q, k + 1) = NumberOf(Trimmed(Val(q, k)))
<1> DEFINE C == Named(q, "Content-Length")
<1>1. k \in C /\ k \in Nat
  BY NamedLength, RequestParts
<1>2. C = {k} /\ IsNumber(Trimmed(Val(q, k)))
  BY <1>1 DEF Numbered
<1>3. Min(C) = k
  BY <1>1, <1>2, MinLaw
<1>4. FirstNamed(q, "Content-Length") = Trimmed(Val(q, k))
  BY <1>1, <1>3, Zenon DEF FirstNamed, Val
<1>5. Declared(q) = NumberOf(Trimmed(Val(q, k)))
  BY <1>2, <1>4, Zenon DEF Declared
<1> HIDE DEF C
<1>6. ~(\E c \in C : c < k) /\ \E c \in C : c < k + 1
  BY <1>1, <1>2
<1> QED BY <1>2, <1>5, <1>6 DEF DeclaredBefore, C

(* Before the first header nothing is declared, behind the last one all.   *)
LEMMA DeclaredEnds ==
  ASSUME NEW q \in Requests
  PROVE  DeclaredBefore(q, 1) = 0 /\ DeclaredBefore(q, Len(q.headers) + 1) = Declared(q)
<1> DEFINE C == Named(q, "Content-Length")
           n == Len(q.headers)
<1>1. \A c \in C : c \in 1..n /\ c \in Nat
  BY NamedLength
<1>2. n \in Nat
  BY RequestParts
<1>3. C = {} => Declared(q) = 0
  <2>1. C = {} => FirstNamed(q, "Content-Length") = <<>>
    BY Zenon DEF FirstNamed
  <2>2. ~IsNumber(<<>>)
    BY DEF IsNumber
  <2> QED BY <2>1, <2>2, Zenon DEF Declared
<1> HIDE DEF C, n
<1>4. ~(\E c \in C : c < 1)
  BY <1>1, <1>2
<1>5. C # {} => \E c \in C : c < n + 1
  BY <1>1, <1>2
<1> QED BY <1>3, <1>4, <1>5 DEF DeclaredBefore, C, n

(* Behind its spaces the value of such a header has digits only.           *)
LEMMA DigitsOnly ==
  ASSUME NEW q \in Requests, Numbered(q), NEW k \in 1..Len(q.headers), IsLength(q, k)
  PROVE  LET v == Val(q, k)
         IN  /\ Trimmed(v) # <<>> /\ Len(Trimmed(v)) # 0 /\ ~Spaces(v, Len(v))
             /\ \A l \in 1..Len(v) : Spaces(v, l - 1) /\ v[l] # "sp" =>
                  /\ Trimmed(v) = SubSeq(v, l, Len(v))
                  /\ \A j \in l..Len(v) : v[j] \in DOMAIN Digit
<1> DEFINE v == Val(q, k)
           w == Trimmed(v)
<1>1. v \in Seq(Alphabet) /\ Len(v) \in Nat
  BY RequestParts
<1>2. IsNumber(w)
  BY DeclaresLength
<1>3. w \in Seq(Alphabet) /\ Len(w) \in Nat /\ \A i \in 1..Len(w) : w[i] = v[Len(v) - Len(w) + i]
  BY <1>1, TrimmedEnd
<1>4. w # <<>> /\ \A i \in 1..Len(w) : w[i] \in DOMAIN Digit
  <2>1. DOMAIN w = 1..Len(w)
    BY <1>3, LenProperties
  <2> HIDE DEF w
  <2> QED BY <1>2, <2>1 DEF IsNumber
<1>5. Len(w) # 0
  BY <1>3, <1>4, EmptySeq
<1>6. ~Spaces(v, Len(v))
  BY <1>1, <1>5, TrimmedLaw
<1>7. ASSUME NEW l \in 1..Len(v), Spaces(v, l - 1), v[l] # "sp"
      PROVE  w = SubSeq(v, l, Len(v)) /\ \A j \in l..Len(v) : v[j] \in DOMAIN Digit
  <2>1. w = SubSeq(v, l, Len(v)) /\ Len(w) = Len(v) - (l - 1)
    BY <1>1, <1>7, TrimmedLaw
  <2>2. ASSUME NEW j \in l..Len(v) PROVE v[j] \in DOMAIN Digit
    <3> DEFINE i == j - (l - 1)
               m == Len(w)
               n == Len(v)
    <3>1. i \in 1..m /\ n - m + i = j
      <4>1. m = n - (l - 1) /\ n \in Nat /\ l \in 1..n /\ j \in l..n
        BY <1>1, <2>1
      <4> HIDE DEF m, n
      <4> QED BY <4>1
    <3>2. w[i] \in DOMAIN Digit /\ w[i] = v[n - m + i]
      BY <1>3, <1>4, <3>1
    <3> HIDE DEF i, m, n, w
    <3> QED BY <3>1, <3>2
  <2> QED BY <2>1, <2>2
<1> QED BY <1>4, <1>5, <1>6, <1>7

-----------------------------------------------------------------------------
(* The length that the parser has counted so far, c, when it is in state s *)
(* behind i symbols, the token it is in began behind p, and T are pushed:  *)
(* what the headers before declare, or the digits of the value it is in.   *)
CountedIn(q, s, i, p, k, c) ==
  IF s = "lengthval"
  THEN IsLength(q, k) /\ c = NumberOf(SubSeq(Val(q, k), p - ValAt(q, k) + 1, i - ValAt(q, k)))
  ELSE c = DeclaredBefore(q, k) /\ (s = "value" => ~IsLength(q, k))

(* ... for every number of tokens.                                         *)
Counted(q, s, i, p, T, c) ==
  /\ T <= 2 => c = 0
  /\ \A k \in 1..Len(q.headers) + 1 : T = 1 + 2 * k => c = DeclaredBefore(q, k)
  /\ \A k \in 1..Len(q.headers) : T = 2 + 2 * k => CountedIn(q, s, i, p, k, c)

(* In the request line nothing is counted.                                 *)
LEMMA CountedFirst ==
  ASSUME NEW q \in Requests, NEW s, NEW i, NEW p, NEW T \in Nat, T <= 2, NEW c, c = 0
  PROVE  Counted(q, s, i, p, T, c)
<1>1. Len(q.headers) \in Nat
  BY RequestParts
<1>2. (\A k \in 1..Len(q.headers) + 1 : T # 1 + 2 * k) /\ (\A k \in 1..Len(q.headers) : T # 2 + 2 * k)
  BY <1>1
<1> QED BY <1>2 DEF Counted

(* Between the headers it is what the ones before declare.                 *)
LEMMA CountedBetween ==
  ASSUME NEW q \in Requests, NEW s, NEW i, NEW p, NEW k \in 1..Len(q.headers) + 1, NEW T, T = 1 + 2 * k,
         NEW c, c = DeclaredBefore(q, k)
  PROVE  Counted(q, s, i, p, T, c)
<1>1. Len(q.headers) \in Nat
  BY RequestParts
<1>2. ~(T <= 2) /\ (\A j \in 1..Len(q.headers) + 1 : T = 1 + 2 * j => j = k)
      /\ (\A j \in 1..Len(q.headers) : T # 2 + 2 * j)
  BY <1>1
<1> QED BY <1>2 DEF Counted

(* In a header.                                                            *)
LEMMA CountedInside ==
  ASSUME NEW q \in Requests, NEW s, NEW i, NEW p, NEW k \in 1..Len(q.headers), NEW T, T = 2 + 2 * k,
         NEW c, CountedIn(q, s, i, p, k, c)
  PROVE  Counted(q, s, i, p, T, c)
<1>1. Len(q.headers) \in Nat
  BY RequestParts
<1>2. ~(T <= 2) /\ (\A j \in 1..Len(q.headers) + 1 : T # 1 + 2 * j)
      /\ (\A j \in 1..Len(q.headers) : T = 2 + 2 * j => j = k)
  BY <1>1
<1> QED BY <1>2 DEF Counted

(* Behind the headers.                                                     *)
LEMMA CountedPast ==
  ASSUME NEW q \in Requests, NEW s, NEW i, NEW p, NEW T \in Nat, T >= 4 + 2 * Len(q.headers), NEW c
  PROVE  Counted(q, s, i, p, T, c)
<1>1. Len(q.headers) \in Nat
  BY RequestParts
<1>2. ~(T <= 2) /\ (\A j \in 1..Len(q.headers) + 1 : T # 1 + 2 * j)
      /\ (\A j \in 1..Len(q.headers) : T # 2 + 2 * j)
  BY <1>1
<1> QED BY <1>2 DEF Counted

(* In the request line, up to its end.                                     *)
LEMMA CountFirst ==
  ASSUME NEW q \in Requests, NEW s, NEW i, NEW p, NEW T \in Nat, NEW c, Counted(q, s, i, p, T, c),
         NEW t, NEW j, NEW o, NEW U, (T <= 2 /\ (U = T \/ U = T + 1)) \/ (T = 3 /\ U = T)
  PROVE  Counted(q, t, j, o, U, c)
<1>1. Len(q.headers) \in Nat /\ DeclaredBefore(q, 1) = 0
  BY RequestParts, DeclaredEnds
<1>2. 1 \in 1..Len(q.headers) + 1 /\ 3 = 1 + 2 * 1
  BY <1>1
<1>3. c = 0
  <2>1. CASE T <= 2
    BY <2>1 DEF Counted
  <2>2. CASE T = 3
    BY <1>1, <1>2, <2>2 DEF Counted
  <2> QED BY <2>1, <2>2
<1>4. CASE U = 3
  BY <1>1, <1>2, <1>3, <1>4, CountedBetween
<1>5. CASE U # 3
  <2>1. U \in Nat /\ U <= 2
    BY <1>5
  <2> QED BY <1>3, <2>1, CountedFirst
<1> QED BY <1>4, <1>5

(* Between two headers, and in a key.                                      *)
LEMMA CountBetween ==
  ASSUME NEW q \in Requests, NEW s, NEW i, NEW p, NEW T, NEW c, Counted(q, s, i, p, T, c),
         NEW k \in 1..Len(q.headers) + 1, T = 1 + 2 * k, NEW t, NEW j, NEW o
  PROVE  Counted(q, t, j, o, T, c)
<1>1. c = DeclaredBefore(q, k)
  BY DEF Counted
<1> QED BY <1>1, CountedBetween

(* The end of a key.                                                       *)
LEMMA CountKey ==
  ASSUME NEW q \in Requests, NEW s, NEW i, NEW p, NEW T, NEW c, Counted(q, s, i, p, T, c),
         NEW k \in 1..Len(q.headers) + 1, T = 1 + 2 * k, NEW t, t # "lengthval", t # "value", NEW j, NEW o
  PROVE  Counted(q, t, j, o, T + 1, c)
<1>1. c = DeclaredBefore(q, k)
  BY DEF Counted
<1>2. Len(q.headers) \in Nat
  BY RequestParts
<1>3. CASE k \in 1..Len(q.headers)
  <2>1. CountedIn(q, t, j, o, k, c) /\ T + 1 = 2 + 2 * k
    BY <1>1 DEF CountedIn
  <2> QED BY <1>3, <2>1, CountedInside
<1>4. CASE k \notin 1..Len(q.headers)
  <2>1. T + 1 \in Nat /\ T + 1 >= 4 + 2 * Len(q.headers)
    BY <1>2, <1>4
  <2> QED BY <2>1, CountedPast
<1> QED BY <1>3, <1>4

(* The spaces before a value.                                              *)
LEMMA CountSpaces ==
  ASSUME NEW q \in Requests, NEW s, NEW i, NEW p, NEW T, NEW c, Counted(q, s, i, p, T, c),
         NEW k \in 1..Len(q.headers), T = 2 + 2 * k, s # "lengthval",
         NEW t, t # "lengthval", t # "value", NEW j, NEW o
  PROVE  Counted(q, t, j, o, T, c)
<1>1. CountedIn(q, t, j, o, k, c)
  BY DEF Counted, CountedIn
<1> QED BY <1>1, CountedInside

(* The end of a value of spaces.                                           *)
LEMMA CountEmpty ==
  ASSUME NEW q \in Requests, Delimited(q), Numbered(q), NEW s \in Beginning,
         NEW i \in Nat, NEW p, NEW y, NEW T, NEW c,
         Where(q, s, i, p, y, T), TextOf[q][i + 1] = "cr", Counted(q, s, i, p, T, c),
         NEW t, NEW j, NEW o
  PROVE  Counted(q, t, j, o, T + 1, c)
<1>1. PICK k \in 1..Len(q.headers) : T = 2 + 2 * k
  BY LinesSay DEF AtBegin
<1>2. IsPlace(q, T + 1, Tok("HEADER_VALUE", i, 0))
  BY BeginEnds
<1>3. k + 1 \in 1..Len(q.headers) + 1 /\ T + 1 = 3 + 2 * k /\ T + 1 = 1 + 2 * (k + 1)
  BY <1>1, RequestParts
<1>4. Len(Trimmed(Val(q, k))) = 0
  <2> DEFINE d == Len(Trimmed(Val(q, k)))
             u == Tok("HEADER_VALUE", i, 0)
  <2>1. u = Tok("HEADER_VALUE", ValAt(q, k) + Len(Val(q, k)) - d, d)
    BY <1>2, <1>3, Zenon DEF IsPlace
  <2>2. u.len = d /\ u.len = 0
    <3> HIDE DEF d
    <3> QED BY <2>1 DEF Tok
  <2> QED BY <2>2
<1>5. ~IsLength(q, k)
  BY <1>4, DigitsOnly
<1>6. c = DeclaredBefore(q, k)
  BY <1>1 DEF Counted, CountedIn, Beginning
<1> QED BY <1>3, <1>5, <1>6, NothingDeclared, CountedBetween

(* A symbol of a value.                                                    *)
LEMMA ValueSymbol ==
  ASSUME NEW q \in Requests, Delimited(q), NEW k \in 1..Len(q.headers), NEW i \in Nat,
         i >= ValAt(q, k), i <= ValAt(q, k) + Len(Val(q, k)), TextOf[q][i + 1] # "cr"
  PROVE  /\ ValAt(q, k) \in Nat /\ Len(Val(q, k)) \in Nat /\ Val(q, k) \in Seq(Alphabet)
         /\ i - ValAt(q, k) + 1 \in 1..Len(Val(q, k))
         /\ TextOf[q][i + 1] = Val(q, k)[i - ValAt(q, k) + 1]
<1> DEFINE x == TextOf[q]
           v == ValAt(q, k)
           val == Val(q, k)
           d == Len(val)
           j == i - v + 1
<1>1. /\ v \in Nat /\ d \in Nat /\ x[v + d + 1] = "cr" /\ \A l \in 1..d : x[v + l] = val[l]
  BY LineFacts
<1>2. val \in Seq(Alphabet)
  BY RequestParts
<1>3. x[i + 1] # "cr" /\ i >= v /\ i <= v + d
  OBVIOUS
<1> HIDE DEF x, v, d, val
<1>4. i # v + d
  BY <1>1, <1>3
<1>5. j \in 1..d /\ v + j = i + 1
  BY <1>1, <1>3, <1>4
<1> HIDE DEF j
<1>6. x[i + 1] = val[j]
  BY <1>1, <1>5
<1> QED BY <1>1, <1>2, <1>5, <1>6 DEF x, v, d, val, j

(* A digit more of a value.                                                *)
LEMMA CountDigit ==
  ASSUME NEW q \in Requests, Delimited(q), Numbered(q),
         NEW i \in Nat, NEW p \in Nat, NEW y, NEW T, NEW c,
         Where(q, "lengthval", i, p, y, T), TextOf[q][i + 1] # "cr", Counted(q, "lengthval", i, p, T, c)
  PROVE  Counted(q, "lengthval", i + 1, p, T, 10 * c + Digit[TextOf[q][i + 1]])
<1>1. PICK k \in 1..Len(q.headers) :
        /\ T = 2 + 2 * k /\ p >= ValAt(q, k) /\ p < i /\ i <= ValAt(q, k) + Len(Val(q, k))
  BY LinesSay DEF AtValue, Valuing
<1> DEFINE v == ValAt(q, k)
           val == Val(q, k)
           d == Len(val)
           a == p - v + 1
           b == (i + 1) - v
           x == TextOf[q][i + 1]
<1>2. v \in Nat /\ d \in Nat /\ val \in Seq(Alphabet) /\ i - v + 1 \in 1..d /\ x = val[i - v + 1]
  <2>1. i >= ValAt(q, k)
    <3>1. ValAt(q, k) \in Nat
      BY LineFacts
    <3> QED BY <1>1, <3>1
  <2> QED BY <1>1, <2>1, ValueSymbol
<1>3. IsLength(q, k) /\ c = NumberOf(SubSeq(val, a, i - v))
  BY <1>1, Zenon DEF Counted, CountedIn
<1>4. p >= v /\ p < i
  BY <1>1
<1> HIDE DEF v, val, d, x
<1>5. a \in Nat /\ b \in Nat /\ 1 <= a /\ a <= b /\ a # b /\ b <= d /\ b - 1 = i - v /\ b = i - v + 1
  BY <1>2, <1>4
<1> HIDE DEF a, b
<1>6. NumberOf(SubSeq(val, a, b)) = (IF a = b THEN 0 ELSE 10 * NumberOf(SubSeq(val, a, b - 1))) + Digit[val[b]]
  BY <1>2, <1>5, OneMoreDigit DEF d
<1>7. NumberOf(SubSeq(val, a, b)) = 10 * NumberOf(SubSeq(val, a, b - 1)) + Digit[val[b]]
  BY <1>5, <1>6, Zenon
<1>8. NumberOf(SubSeq(val, a, b)) = 10 * c + Digit[x]
  BY <1>2, <1>3, <1>5, <1>7, Zenon
<1>9. CountedIn(q, "lengthval", i + 1, p, k, 10 * c + Digit[x])
  BY <1>3, <1>8, Zenon DEF CountedIn, v, val, a, b
<1> QED BY <1>1, <1>9, CountedInside DEF x

(* The first digit of a value.                                             *)
LEMMA CountFirstDigit ==
  ASSUME NEW q \in Requests, Delimited(q), Numbered(q),
         NEW i \in Nat, NEW p, NEW y, NEW T, NEW c,
         Where(q, "length0", i, p, y, T), TextOf[q][i + 1] # "cr", Counted(q, "length0", i, p, T, c)
  PROVE  Counted(q, "lengthval", i + 1, i, T, 10 * c + Digit[TextOf[q][i + 1]])
<1>1. PICK k \in 1..Len(q.headers) :
        /\ T = 2 + 2 * k /\ i >= ValAt(q, k) /\ i <= ValAt(q, k) + Len(Val(q, k)) /\ IsLength(q, k)
  BY LinesSay DEF AtBegin, Beginning
<1> DEFINE v == ValAt(q, k)
           val == Val(q, k)
           d == Len(val)
           a == i - v + 1
           b == (i + 1) - v
           x == TextOf[q][i + 1]
<1>2. v \in Nat /\ d \in Nat /\ val \in Seq(Alphabet) /\ a \in 1..d /\ x = val[a]
  BY <1>1, ValueSymbol
<1>3. c = 0
  <2>1. c = DeclaredBefore(q, k)
    BY <1>1 DEF Counted, CountedIn
  <2> QED BY <1>1, <2>1, DeclaresLength
<1> HIDE DEF val, d, x
<1>4. a = b /\ a \in Nat /\ 1 <= a /\ a <= a /\ a <= d
  BY <1>2
<1> HIDE DEF v, a, b
<1>5. NumberOf(SubSeq(val, a, a)) = (IF a = a THEN 0 ELSE 10 * NumberOf(SubSeq(val, a, a - 1))) + Digit[val[a]]
  BY <1>2, <1>4, OneMoreDigit DEF d
<1>6. NumberOf(SubSeq(val, a, b)) = 0 + Digit[x]
  BY <1>2, <1>4, <1>5, Zenon
<1>7. 10 * c = 0
  BY <1>3
<1>8. NumberOf(SubSeq(val, a, b)) = 10 * c + Digit[x]
  BY <1>6, <1>7, Zenon
<1>9. CountedIn(q, "lengthval", i + 1, i, k, 10 * c + Digit[x])
  BY <1>1, <1>8, Zenon DEF CountedIn, v, val, a, b
<1> QED BY <1>1, <1>9, CountedInside DEF x

(* A value that is not one of digits, or no longer.                        *)
LEMMA CountBegin ==
  ASSUME NEW q \in Requests, Delimited(q), Numbered(q), NEW s \in Beginning,
         NEW i \in Nat, NEW p, NEW y, NEW T, NEW c, Where(q, s, i, p, y, T), Counted(q, s, i, p, T, c),
         TextOf[q][i + 1] # "sp", TextOf[q][i + 1] # "cr",
         s = "length0" => TextOf[q][i + 1] \notin DOMAIN Digit, NEW o
  PROVE  Counted(q, "value", i + 1, o, T, c)
<1>1. PICK k \in 1..Len(q.headers) :
        /\ T = 2 + 2 * k /\ i >= ValAt(q, k) /\ i <= ValAt(q, k) + Len(Val(q, k))
        /\ Spaces(Val(q, k), i - ValAt(q, k)) /\ (s = "length0" <=> IsLength(q, k))
  BY LinesSay DEF AtBegin
<1> DEFINE v == ValAt(q, k)
           val == Val(q, k)
           d == Len(val)
           l == i - v + 1
           x == TextOf[q][i + 1]
<1>2. v \in Nat /\ d \in Nat /\ l \in 1..d /\ x = val[l]
  BY <1>1, ValueSymbol
<1>3. ~IsLength(q, k)
  <2> SUFFICES ASSUME IsLength(q, k) PROVE FALSE
    OBVIOUS
  <2>1. x \notin DOMAIN Digit /\ x # "sp"
    BY <1>1
  <2>2. Spaces(val, l - 1) /\ l \in l..d
    <3>1. l - 1 = i - v /\ l \in l..d
      <4> HIDE DEF v, d
      <4> QED BY <1>2
    <3> QED BY <1>1, <3>1
  <2>3. val[l] \in DOMAIN Digit
    <3> HIDE DEF l
    <3> QED BY <1>2, <2>1, <2>2, DigitsOnly
  <2> QED BY <1>2, <2>1, <2>3
<1>4. c = DeclaredBefore(q, k)
  BY <1>1 DEF Counted, CountedIn, Beginning
<1>5. CountedIn(q, "value", i + 1, o, k, c)
  BY <1>3, <1>4 DEF CountedIn
<1> QED BY <1>1, <1>5, CountedInside

(* A symbol more of a value.                                               *)
LEMMA CountOn ==
  ASSUME NEW q \in Requests, Delimited(q), Numbered(q), NEW s \in Valuing,
         NEW i \in Nat, NEW p \in Nat, NEW y, NEW T, NEW c, Where(q, s, i, p, y, T), Counted(q, s, i, p, T, c),
         TextOf[q][i + 1] # "cr", s = "lengthval" => TextOf[q][i + 1] \notin DOMAIN Digit, NEW o
  PROVE  Counted(q, "value", i + 1, o, T, c)
<1>1. PICK k \in 1..Len(q.headers) :
        /\ T = 2 + 2 * k /\ p >= ValAt(q, k) /\ p < i /\ i <= ValAt(q, k) + Len(Val(q, k))
        /\ Spaces(Val(q, k), p - ValAt(q, k)) /\ Val(q, k)[p - ValAt(q, k) + 1] # "sp"
        /\ s = "lengthval" => IsLength(q, k)
  BY LinesSay DEF AtValue
<1> DEFINE v == ValAt(q, k)
           val == Val(q, k)
           d == Len(val)
           l == p - v + 1
           j == i - v + 1
           x == TextOf[q][i + 1]
<1>2. v \in Nat /\ d \in Nat /\ j \in 1..d /\ x = val[j]
  <2>1. i >= ValAt(q, k)
    <3>1. ValAt(q, k) \in Nat
      BY LineFacts
    <3> QED BY <1>1, <3>1
  <2> QED BY <1>1, <2>1, ValueSymbol
<1>3. CountedIn(q, s, i, p, k, c)
  BY <1>1 DEF Counted
<1>4. s # "lengthval"
  <2> SUFFICES ASSUME s = "lengthval" PROVE FALSE
    OBVIOUS
  <2>1. IsLength(q, k) /\ x \notin DOMAIN Digit
    BY <1>1
  <2>2. l \in 1..d /\ l - 1 = p - v /\ j \in l..d
    <3>1. p >= v /\ p < i
      BY <1>1
    <3> HIDE DEF v, d
    <3> QED BY <1>2, <3>1
  <2>3. Spaces(val, l - 1) /\ val[l] # "sp"
    BY <1>1, <2>2
  <2>4. val[j] \in DOMAIN Digit
    <3> HIDE DEF l, j
    <3> QED BY <2>1, <2>2, <2>3, DigitsOnly
  <2> QED BY <1>2, <2>1, <2>4
<1>5. CountedIn(q, "value", i + 1, o, k, c)
  BY <1>3, <1>4 DEF CountedIn, Valuing
<1> QED BY <1>1, <1>5, CountedInside

(* The end of a value.                                                     *)
LEMMA CountValue ==
  ASSUME NEW q \in Requests, Delimited(q), Numbered(q), NEW s \in Valuing,
         NEW i \in Nat, NEW p \in Nat, NEW y, NEW T, NEW c, Where(q, s, i, p, y, T), Counted(q, s, i, p, T, c),
         TextOf[q][i + 1] = "cr", NEW t, NEW j, NEW o
  PROVE  Counted(q, t, j, o, T + 1, c)
<1>1. PICK k \in 1..Len(q.headers) :
        /\ T = 2 + 2 * k /\ p >= ValAt(q, k) /\ p < i /\ i <= ValAt(q, k) + Len(Val(q, k))
        /\ Spaces(Val(q, k), p - ValAt(q, k)) /\ Val(q, k)[p - ValAt(q, k) + 1] # "sp"
  BY LinesSay DEF AtValue
<1>2. k + 1 \in 1..Len(q.headers) + 1 /\ T + 1 = 3 + 2 * k /\ T + 1 = 1 + 2 * (k + 1)
  BY <1>1, RequestParts
<1>3. CountedIn(q, s, i, p, k, c)
  BY <1>1 DEF Counted
<1>4. CASE s = "lengthval"
  <2> DEFINE v == ValAt(q, k)
             val == Val(q, k)
             d == Len(val)
             l == p - v + 1
  <2>1. IsLength(q, k) /\ c = NumberOf(SubSeq(val, l, i - v))
    BY <1>3, <1>4, Zenon DEF CountedIn
  <2>2. v \in Nat /\ d \in Nat /\ \A h \in 1..d : TextOf[q][v + h] # "cr"
    BY LineFacts
  <2>3. l \in 1..d /\ l - 1 = p - v /\ i - v = d
    <3>1. p >= v /\ p < i /\ i <= v + d /\ TextOf[q][i + 1] = "cr"
      BY <1>1
    <3> DEFINE h == i - v + 1
    <3> HIDE DEF v, d
    <3>2. l \in 1..d /\ l - 1 = p - v
      BY <2>2, <3>1
    <3>3. v + h = i + 1 /\ (i - v # d => h \in 1..d)
      BY <2>2, <3>1
    <3> HIDE DEF h
    <3>4. i - v = d
      BY <2>2, <3>1, <3>3
    <3> QED BY <3>2, <3>4
  <2>4. Spaces(val, l - 1) /\ val[l] # "sp"
    BY <1>1, <2>3
  <2>5. Trimmed(val) = SubSeq(val, l, d)
    <3> HIDE DEF l
    <3> QED BY <2>1, <2>3, <2>4, DigitsOnly
  <2>6. c = NumberOf(Trimmed(val))
    BY <2>1, <2>3, <2>5, Zenon
  <2>7. c = DeclaredBefore(q, k + 1)
    BY <2>1, <2>6, DeclaresLength
  <2> QED BY <1>2, <2>7, CountedBetween
<1>5. CASE s # "lengthval"
  <2>1. c = DeclaredBefore(q, k) /\ ~IsLength(q, k)
    BY <1>3, <1>5 DEF CountedIn, Valuing
  <2> QED BY <1>2, <2>1, NothingDeclared, CountedBetween
<1> QED BY <1>4, <1>5

(* A rule takes the parser to where what it has counted is what is there.  *)
Tallies(q, r, i, p, T, c) ==
  Counted(q, r.to, i + 1, IF r.enter # "" THEN i ELSE p, IF "ready" \in r.does THEN T + 1 ELSE T,
          IF "digit" \in r.does THEN 10 * c + Digit[TextOf[q][i + 1]] ELSE c)

(* What a rule does, by what it is marked with.                            *)
LEMMA Marks ==
  ASSUME NEW r
  PROVE  /\ r.does = {} => "ready" \notin r.does /\ "digit" \notin r.does
         /\ r.does = {"count"} => "ready" \notin r.does /\ "digit" \notin r.does
         /\ r.does = {"ready"} => "ready" \in r.does /\ "digit" \notin r.does
         /\ r.does = {"count", "ready"} => "ready" \in r.does /\ "digit" \notin r.does
         /\ r.does = {"chunked", "count"} => "ready" \notin r.does /\ "digit" \notin r.does
         /\ r.does = {"digit", "count"} => "ready" \notin r.does /\ "digit" \in r.does
OBVIOUS

(* Within a token,                                                         *)
LEMMA TalliesOn ==
  ASSUME NEW q, NEW r, NEW i, NEW p, NEW T, NEW c, "ready" \notin r.does, "digit" \notin r.does,
         Counted(q, r.to, i + 1, IF r.enter # "" THEN i ELSE p, T, c)
  PROVE  Tallies(q, r, i, p, T, c)
BY Zenon DEF Tallies

(* At the end of a token,                                                  *)
LEMMA TalliesEnd ==
  ASSUME NEW q, NEW r, NEW i, NEW p, NEW T, NEW c, "ready" \in r.does, "digit" \notin r.does,
         Counted(q, r.to, i + 1, IF r.enter # "" THEN i ELSE p, T + 1, c)
  PROVE  Tallies(q, r, i, p, T, c)
BY Zenon DEF Tallies

(* or at a digit of the length.                                            *)
LEMMA TalliesDigit ==
  ASSUME NEW q, NEW r, NEW i, NEW p, NEW T, NEW c, "ready" \notin r.does, "digit" \in r.does,
         NEW P, P = (IF r.enter # "" THEN i ELSE p),
         Counted(q, r.to, i + 1, P, T, 10 * c + Digit[TextOf[q][i + 1]])
  PROVE  Tallies(q, r, i, p, T, c)
BY Zenon DEF Tallies

(* Wherever the parser is in the text.                                     *)
LEMMA Tally ==
  ASSUME NEW q \in Requests, Delimited(q), Numbered(q), NEW r \in Rules, "done" \notin r.does,
         NEW i \in Nat, NEW p \in Nat, NEW y, NEW T \in Nat, NEW c,
         Where(q, r.from, i, p, y, T), i < Len(TextOf[q]), TextOf[q][i + 1] \in r.at,
         Counted(q, r.from, i, p, T, c)
  PROVE  Tallies(q, r, i, p, T, c)
<1> DEFINE x == TextOf[q][i + 1]
           s == r.from
           P == IF r.enter # "" THEN i ELSE p
           n == Len(q.headers)
<1>1. Where(q, s, i, p, y, T) /\ Counted(q, s, i, p, T, c) /\ x \in r.at
  OBVIOUS
<1>2. n \in Nat
  BY RequestParts
<1>3. s # "lengthval" /\ s # "value" => s \notin Valuing
  BY DEF Valuing
<1> HIDE DEF x, P, n
<1>4. CASE FirstRule(r)
  <2>1. WhereFirst(q, s, i, p, y, T)
    BY <1>1 DEF Where
  <2>2. CASE "ready" \in r.does
    <3>1. "digit" \notin r.does
      BY <1>4, <2>2, Marks, Zenon DEF FirstRule, Is
    <3>2. s \in {"method", "target", "version"}
      BY <1>4, <2>2, Marks, Zenon DEF FirstRule, Is
    <3>3. T <= 2
      <4>1. T = 0 \/ T = 1 \/ T = 2
        BY <2>1, <3>2, Zenon DEF WhereFirst
      <4> QED BY <4>1
    <3>4. Counted(q, r.to, i + 1, P, T + 1, c)
      <4> DEFINE U == T + 1
      <4>1. T <= 2 /\ U = T + 1
        BY <3>3
      <4> HIDE DEF U
      <4>2. Counted(q, r.to, i + 1, P, U, c)
        BY <1>1, <4>1, CountFirst
      <4> QED BY <4>2 DEF U
    <3> QED BY <2>2, <3>1, <3>4, TalliesEnd DEF P
  <2>3. CASE "ready" \notin r.does
    <3>1. "digit" \notin r.does
      BY <1>4, <2>3, Marks, Zenon DEF FirstRule, Is
    <3>2. s \in {"start", "method", "target0", "target", "version0", "line"}
      BY <1>4, <2>3, Marks, Zenon DEF FirstRule, Is
    <3>3. T <= 2 \/ T = 3
      <4>1. T = 0 \/ T = 1 \/ T = 2 \/ T = 3
        BY <2>1, <3>2, Zenon DEF WhereFirst
      <4> QED BY <4>1
    <3>4. Counted(q, r.to, i + 1, P, T, c)
      BY <1>1, <3>3, CountFirst
    <3> QED BY <2>3, <3>1, <3>4, TalliesOn DEF P
  <2> QED BY <2>2, <2>3
<1>5. CASE BreakRule(r)
  <2>1. CASE \/ Is(r, "valcr", {"lf"}, "next", "", {"count"}) \/ Is(r, "empty", {"lf"}, "next", "", {"count"})
             \/ Is(r, "next", {"cr"}, "last", "HEADER_KEY", {"count"})
    <3>1. s \in {"valcr", "empty", "next"} /\ "ready" \notin r.does /\ "digit" \notin r.does
      BY <2>1, Marks, Zenon DEF Is
    <3>2. \E k \in 1..n : T = 3 + 2 * k
      <4>1. s = "next" \/ s \in {"valcr", "empty"}
        BY <3>1
      <4> QED BY <1>1, <4>1, LinesSay DEF AtLf, AtNext, n
    <3>3. \E k \in 1..n + 1 : T = 1 + 2 * k
      <4>1. PICK k \in 1..n : T = 3 + 2 * k
        BY <3>2
      <4>2. k + 1 \in 1..n + 1 /\ T = 1 + 2 * (k + 1)
        BY <1>2, <4>1
      <4> QED BY <4>2
    <3>4. Counted(q, r.to, i + 1, P, T, c)
      BY <1>1, <3>3, CountBetween DEF n
    <3> QED BY <3>1, <3>4, TalliesOn DEF P
  <2>2. CASE Is(r, "last", {"lf"}, "done", "", {"count", "done"})
    BY <2>2 DEF Is
  <2>3. CASE \/ Is(r, "last", InKey \ {"lf"}, "key", "", {"count"})
             \/ Is(r, "last", {":"}, "sep", "", {"ready"})
    <3>1. s = "last" /\ x # "lf"
      BY <1>1, <2>3 DEF Is
    <3>2. Where(q, "last", i, p, y, T)
      BY <1>1, <3>1
    <3>3. x = "lf"
      BY <3>2, LastGoes DEF x
    <3> QED BY <3>1, <3>3
  <2>4. CASE \/ Is(r, "empty", {"cr"}, "valcr", "", {"ready"})
             \/ Is(r, "empty", AllBut({"cr", "lf"}), "value", "", {"count"})
    <3>1. s \in {"valcr", "empty"} /\ x # "lf"
      BY <1>1, <2>4 DEF Is, AllBut
    <3>2. x = "lf"
      BY <1>1, <3>1, LfGoes DEF x
    <3> QED BY <3>1, <3>2
  <2> QED BY <1>5, <2>1, <2>2, <2>3, <2>4 DEF BreakRule
<1>6. CASE KeyRule(r)
  <2>1. \E k \in 1..n + 1 : T = 1 + 2 * k
    <3>1. s \in {"key0", "next"} \/ s \in Keying
      BY <1>6 DEF KeyRule
    <3>2. T = 3 \/ \E k \in 1..n : T = 3 + 2 * k \/ T = 1 + 2 * k
      <4>1. CASE s = "key0"
        <5>1. WhereFirst(q, s, i, p, y, T)
          BY <1>1 DEF Where
        <5> QED BY <4>1, <5>1, Zenon DEF WhereFirst
      <4>2. CASE s = "next"
        BY <1>1, <4>2, LinesSay DEF AtNext, n
      <4>3. CASE s \in Keying
        <5>1. WhereLines(q, s, i, p, y, T)
          BY <1>1 DEF Where
        <5> QED BY <4>3, <5>1 DEF WhereLines, AtKey, n
      <4> QED BY <3>1, <4>1, <4>2, <4>3
    <3>3. CASE T = 3
      <4>1. 1 \in 1..n + 1 /\ T = 1 + 2 * 1
        BY <1>2, <3>3
      <4> QED BY <4>1
    <3>4. CASE \E k \in 1..n : T = 3 + 2 * k \/ T = 1 + 2 * k
      <4>1. PICK k \in 1..n : T = 3 + 2 * k \/ T = 1 + 2 * k
        BY <3>4
      <4>2. k \in 1..n + 1 /\ k + 1 \in 1..n + 1 /\ 3 + 2 * k = 1 + 2 * (k + 1)
        BY <1>2
      <4> QED BY <4>1, <4>2
    <3> QED BY <3>2, <3>3, <3>4
  <2>2. PICK k \in 1..n + 1 : T = 1 + 2 * k
    BY <2>1
  <2>3. CASE r.does = {"count"}
    <3>1. Counted(q, r.to, i + 1, P, T, c)
      BY <1>1, <2>2, CountBetween DEF n
    <3> QED BY <2>3, <3>1, Marks, TalliesOn DEF P
  <2>4. CASE r.to \in Separating /\ r.does = {"ready"}
    <3>1. r.to # "lengthval" /\ r.to # "value"
      BY <2>4 DEF Separating
    <3>2. Counted(q, r.to, i + 1, P, T + 1, c)
      BY <1>1, <2>2, <3>1, CountKey DEF n
    <3> QED BY <2>4, <3>2, Marks, TalliesEnd DEF P
  <2> QED BY <1>6, <2>3, <2>4 DEF KeyRule, Is
<1>7. CASE ValueRule(r)
  <2>1. "cr" \notin DOMAIN Digit /\ "sp" \notin DOMAIN Digit
    BY DEF Digit
  <2>2. CASE s \in Separating /\ r.to \in Beginning /\ r.does = {}
    <3>1. PICK k \in 1..n : T = 2 + 2 * k
      BY <1>1, <2>2, LinesSay DEF AtSep, n
    <3>2. s # "lengthval" /\ r.to # "lengthval" /\ r.to # "value"
      BY <2>2 DEF Separating, Beginning
    <3>3. Counted(q, r.to, i + 1, P, T, c)
      BY <1>1, <3>1, <3>2, CountSpaces DEF n
    <3> QED BY <2>2, <3>3, Marks, TalliesOn DEF P
  <2>3. CASE s \in Beginning
    <3>1. PICK k \in 1..n : T = 2 + 2 * k
      BY <1>1, <2>3, LinesSay DEF AtBegin, n
    <3>2. /\ r.enter = "HEADER_VALUE"
          /\ \/ r.at = {"cr"} /\ r.does = {"count", "ready"}
             \/ r.at = {"sp"} /\ r.to = s /\ r.does = {"count"}
             \/ /\ "cr" \notin r.at /\ "sp" \notin r.at /\ r.to = "value" /\ r.does = {"count"}
                /\ s = "length0" => r.at \cap DOMAIN Digit = {}
             \/ s = "coding0" /\ r.at = {"chunked"} /\ r.to = "value" /\ r.does = {"chunked", "count"}
             \/ s = "length0" /\ r.at = DOMAIN Digit /\ r.to = "lengthval" /\ r.does = {"digit", "count"}
      <4> HIDE DEF Digit
      <4> QED BY <1>7, <2>3 DEF ValueRule, Is, Separating, Beginning, Valuing
    <3>3. CASE r.at = {"cr"} /\ r.does = {"count", "ready"}
      <4>1. TextOf[q][i + 1] = "cr"
        BY <1>1, <3>3 DEF x
      <4>2. Counted(q, r.to, i + 1, P, T + 1, c)
        BY <1>1, <2>3, <4>1, CountEmpty
      <4> QED BY <3>3, <4>2, Marks, TalliesEnd DEF P
    <3>4. CASE r.at = {"sp"} /\ r.to = s /\ r.does = {"count"}
      <4>1. s # "lengthval" /\ s # "value"
        BY <2>3 DEF Beginning
      <4>2. Counted(q, r.to, i + 1, P, T, c)
        BY <1>1, <3>1, <3>4, <4>1, CountSpaces DEF n
      <4> QED BY <3>4, <4>2, Marks, TalliesOn DEF P
    <3>5. CASE /\ "cr" \notin r.at /\ "sp" \notin r.at /\ r.to = "value"
               /\ s = "length0" => r.at \cap DOMAIN Digit = {}
               /\ r.does = {"count"} \/ r.does = {"chunked", "count"}
      <4>1. TextOf[q][i + 1] # "cr" /\ TextOf[q][i + 1] # "sp"
            /\ (s = "length0" => TextOf[q][i + 1] \notin DOMAIN Digit)
        BY <1>1, <3>5 DEF x
      <4>2. Counted(q, r.to, i + 1, P, T, c)
        BY <1>1, <2>3, <3>5, <4>1, CountBegin
      <4> QED BY <3>5, <4>2, Marks, TalliesOn DEF P
    <3>6. CASE s = "length0" /\ r.at = DOMAIN Digit /\ r.to = "lengthval" /\ r.does = {"digit", "count"}
      <4>1. TextOf[q][i + 1] # "cr"
        BY <1>1, <2>1, <3>6 DEF x
      <4>2. Where(q, "length0", i, p, y, T) /\ Counted(q, "length0", i, p, T, c)
        BY <1>1, <3>6
      <4>3. Counted(q, "lengthval", i + 1, i, T, 10 * c + Digit[TextOf[q][i + 1]])
        BY <4>1, <4>2, CountFirstDigit
      <4>4. i = (IF r.enter # "" THEN i ELSE p)
        BY <3>2
      <4> QED BY <3>6, <4>3, <4>4, Marks, TalliesDigit
    <3>7. CASE s = "coding0" /\ r.at = {"chunked"} /\ r.to = "value" /\ r.does = {"chunked", "count"}
      <4>1. "cr" \notin r.at /\ "sp" \notin r.at /\ s # "length0"
        BY <3>7
      <4> QED BY <3>5, <3>7, <4>1
    <3> QED BY <3>2, <3>3, <3>4, <3>5, <3>6, <3>7
  <2>4. CASE s \in Valuing
    <3>1. \/ r.at = {"cr"} /\ r.does = {"ready"}
          \/ /\ r.to = "value" /\ r.enter = "" /\ r.does = {"count"} /\ "cr" \notin r.at
             /\ s = "lengthval" => r.at \cap DOMAIN Digit = {}
          \/ Is(r, "lengthval", DOMAIN Digit, "lengthval", "", {"digit", "count"})
      BY <1>7, <2>4 DEF ValueRule, Is, Separating, Beginning, Valuing
    <3>2. CASE r.at = {"cr"} /\ r.does = {"ready"}
      <4>1. TextOf[q][i + 1] = "cr"
        BY <1>1, <3>2 DEF x
      <4>2. Counted(q, r.to, i + 1, P, T + 1, c)
        BY <1>1, <2>4, <4>1, CountValue
      <4> QED BY <3>2, <4>2, Marks, TalliesEnd DEF P
    <3>3. CASE /\ r.to = "value" /\ r.enter = "" /\ r.does = {"count"} /\ "cr" \notin r.at
               /\ s = "lengthval" => r.at \cap DOMAIN Digit = {}
      <4>1. TextOf[q][i + 1] # "cr" /\ (s = "lengthval" => TextOf[q][i + 1] \notin DOMAIN Digit)
        BY <1>1, <3>3 DEF x
      <4>2. Counted(q, "value", i + 1, P, T, c)
        <5> HIDE DEF Digit
        <5> QED BY <1>1, <2>4, <4>1, CountOn
      <4> QED BY <3>3, <4>2, Marks, TalliesOn DEF P
    <3>4. CASE Is(r, "lengthval", DOMAIN Digit, "lengthval", "", {"digit", "count"})
      <4>1. s = "lengthval" /\ r.at = DOMAIN Digit /\ r.to = "lengthval" /\ r.enter = "" /\ r.does = {"digit", "count"}
        BY <3>4 DEF Is
      <4>2. TextOf[q][i + 1] # "cr"
        BY <1>1, <2>1, <4>1 DEF x
      <4>3. Where(q, "lengthval", i, p, y, T) /\ Counted(q, "lengthval", i, p, T, c)
        BY <1>1, <4>1
      <4>4. Counted(q, "lengthval", i + 1, p, T, 10 * c + Digit[TextOf[q][i + 1]])
        BY <4>2, <4>3, CountDigit
      <4>5. p = (IF r.enter # "" THEN i ELSE p)
        BY <4>1
      <4> QED BY <4>1, <4>4, <4>5, Marks, TalliesDigit
    <3> QED BY <3>1, <3>2, <3>3, <3>4
  <2> QED BY <1>7, <2>2, <2>3, <2>4 DEF ValueRule, Is, Valuing
<1> QED BY <1>4, <1>5, <1>6, <1>7, RuleTable

-----------------------------------------------------------------------------
(* Until a symbol is refused, the parser has counted what the headers up   *)
(* to where it is declare; the body has the length that is declared, and   *)
(* is pushed when what was read reaches its last symbol.                   *)
LengthCounted ==
  parser.state # "error" =>
    Counted(request, parser.state, buffer.index, parser.index, Len(tokens), parser.content_length)

(* In the body the count is the length that is declared.                   *)
BodyCounted == parser.state = "body" => parser.content_length = Declared(request)

(* The body has that length, and lies within what was read but for its     *)
(* last symbol.                                                            *)
BodyPlaced ==
  Len(tokens) = 5 + 2 * Len(request.headers) =>
    LET t == tokens[Len(tokens)]
    IN  /\ t.len = Declared(request)
        /\ pc \notin Ended => (t.index + t.len) - 1 <= buffer.length

(* These parts together, for a delimited request with a number for length. *)
Lengths == LengthCounted /\ BodyCounted /\ BodyPlaced
LengthsInv == Delimited(request) /\ Numbered(request) => Lengths

(* In the head no body was pushed, and the end of the head neither.        *)
LEMMA HeadTokens ==
  ASSUME NEW q \in Requests, NEW r \in Rules, NEW i, NEW p, NEW y, NEW T \in Nat, Where(q, r.from, i, p, y, T)
  PROVE  T <= 3 + 2 * Len(q.headers)
<1> DEFINE n == Len(q.headers)
           s == r.from
<1>1. n \in Nat
  BY RequestParts
<1>2. CASE FirstRule(r) \/ s = "key0"
  <2>1. s \in {"start", "method", "target0", "target", "version0", "version", "line", "key0"}
    BY <1>2 DEF FirstRule, Is
  <2>2. T = 0 \/ T = 1 \/ T = 2 \/ T = 3
    <3>1. WhereFirst(q, s, i, p, y, T)
      BY DEF Where
    <3> QED BY <2>1, <3>1, Zenon DEF WhereFirst
  <2> QED BY <1>1, <2>2
<1>3. CASE ~FirstRule(r) /\ s # "key0"
  <2>1. s \in {"valcr", "next", "last", "empty"} \/ s \in Keying \/ s \in Separating \/ s \in Beginning \/ s \in Valuing
    <3>1. "lengthval" \in Valuing
      BY DEF Valuing
    <3>2. BreakRule(r) \/ KeyRule(r) \/ ValueRule(r)
      BY <1>3, RuleTable
    <3>3. CASE BreakRule(r)
      BY <3>3 DEF BreakRule, Is
    <3>4. CASE KeyRule(r)
      BY <1>3, <3>4 DEF KeyRule
    <3>5. CASE ValueRule(r)
      BY <3>1, <3>5 DEF ValueRule, Is
    <3> QED BY <3>2, <3>3, <3>4, <3>5
  <2>2. T = 3 \/ T = 3 + 2 * n \/ \E k \in 1..n : T = 1 + 2 * k \/ T = 2 + 2 * k \/ T = 3 + 2 * k
    <3>1. WhereLines(q, s, i, p, y, T)
      BY DEF Where
    <3> QED BY <2>1, <3>1 DEF WhereLines, AtKey, AtSep, AtBegin, AtValue, AtLf, AtNext
  <2> QED BY <1>1, <2>2
<1> QED BY <1>2, <1>3

(* A rule that is not the last of the head, over the limit or not.         *)
LEMMA RuleLengths ==
  ASSUME IInv, Places, Lengths, Delimited(request), Numbered(request), InHead, NEW r \in Apply,
         "done" \notin r.does, NEW U, U = IF "ready" \in r.does THEN Len(tokens) + 1 ELSE Len(tokens)
  PROVE  /\ Counted(request, After(r).state, buffer.index + 1, After(r).index, U, After(r).content_length)
         /\ After(r).state # "body" /\ U \in Nat /\ U <= 4 + 2 * Len(request.headers)
<1> DEFINE p == After(r)
           T == Len(tokens)
           i == buffer.index
           x == TextOf[request]
           c == parser.content_length
<1>1. /\ ParserTyped(parser) /\ Symbol \in Alphabet /\ i \in Nat /\ i + 1 <= buffer.length
      /\ buffer.length <= sent /\ sent \in Nat /\ pc \notin Ended
  BY HeadStep
<1>2. request \in Requests /\ sent \in 0..Len(Stream) /\ tokens \in Seq(TokenSet) /\ BufferTyped(buffer)
  BY DEF IInv, Types
<1>3. r \in Rules /\ r.from = parser.state /\ Symbol \in r.at
  BY AppliedRule
<1>4. parser.index \in Nat /\ T \in Nat
  BY <1>1, <1>2, LenProperties DEF ParserTyped
<1>5. i < Len(x)
  <2>1. Len(x) \in Nat /\ buffer.length \in Nat
    BY <1>2, TextFits DEF BufferTyped
  <2>2. sent <= Len(x)
    BY <1>1, <1>2, <2>1 DEF Stream
  <2> QED BY <1>1, <2>1, <2>2
<1>6. x[i + 1] \in r.at /\ x[i + 1] = Symbol
  BY <1>3 DEF Symbol, Stream
<1>7. Where(request, r.from, i, parser.index, parser.type, T)
  BY <1>3 DEF Places, Placed
<1>8. Counted(request, r.from, i, parser.index, T, c)
  <2>1. parser.state # "error"
    BY DEF InHead, Parses
  <2> QED BY <1>3, <2>1 DEF Lengths, LengthCounted
<1>9. Tallies(request, r, i, parser.index, T, c)
  BY <1>1, <1>2, <1>3, <1>4, <1>5, <1>6, <1>7, <1>8, Tally
<1>10. /\ p.state = r.to /\ p.index = (IF r.enter # "" THEN i ELSE parser.index)
       /\ p.content_length = (IF "digit" \in r.does THEN 10 * c + Digit[Symbol] ELSE c)
  <2>1. DOMAIN parser = Parts
    BY <1>1 DEF ParserTyped
  <2> QED BY <2>1, AfterParts, Zenon
<1>11. Counted(request, p.state, i + 1, p.index, U, p.content_length)
  <2> HIDE DEF p
  <2> QED BY <1>6, <1>9, <1>10, Zenon DEF Tallies
<1>12. T <= 3 + 2 * Len(request.headers)
  BY <1>2, <1>3, <1>4, <1>7, HeadTokens
<1>13. U \in Nat /\ U <= 4 + 2 * Len(request.headers)
  <2>1. U = T \/ U = T + 1
    OBVIOUS
  <2>2. Len(request.headers) \in Nat
    BY <1>2, RequestParts
  <2> QED BY <1>4, <1>12, <2>1, <2>2
<1>14. p.state # "body"
  BY AfterFits
<1> QED BY <1>11, <1>13, <1>14

(* The steps of the parser.                                                *)
LEMMA ParseLengths ==
  ASSUME IInv, Places, Lengths, Delimited(request), Numbered(request),
         Refuse \/ OverLimit \/ Advance \/ TokenReady
  PROVE  Lengths'
<1>1. InHead
  BY DEF Refuse, OverLimit, Advance, TokenReady
<1>2. /\ DOMAIN parser = Parts /\ pc = "exec" /\ pc \notin Ended /\ BufferTyped(buffer) /\ tokens \in Seq(TokenSet)
      /\ request \in Requests
  BY <1>1, HeadStep DEF ParserTyped, IInv, Types
<1>3. Len(request.headers) \in Nat /\ Len(tokens) \in Nat
  BY <1>2, RequestParts, LenProperties
<1>4. CASE Refuse
  <2>1. /\ parser' = [parser EXCEPT !.state = "error", !.fresh = FALSE]
        /\ buffer' = [buffer EXCEPT !.index = buffer.index + 1]
        /\ pc' = "wait" /\ UNCHANGED <<request, sent, edge, tokens, memused, reads>>
    BY <1>4 DEF Refuse, Stop
  <2>2. parser'.state = "error" /\ buffer'.length = buffer.length
    BY <1>2, <2>1 DEF Parts, BufferTyped
  <2>3. LengthCounted' /\ BodyCounted'
    BY <2>2 DEF LengthCounted, BodyCounted
  <2>4. BodyPlaced'
    BY <1>2, <2>1, <2>2 DEF Lengths, BodyPlaced
  <2> QED BY <2>3, <2>4 DEF Lengths
<1>5. ASSUME NEW r \in Apply, "done" \notin r.does,
             parser'.state = After(r).state, parser'.index = After(r).index,
             parser'.content_length = After(r).content_length,
             buffer'.index = buffer.index + 1, UNCHANGED request,
             Len(tokens') = IF "ready" \in r.does THEN Len(tokens) + 1 ELSE Len(tokens)
      PROVE  Lengths'
  <2> DEFINE U == Len(tokens')
             p == After(r)
  <2>1. /\ Counted(request, p.state, buffer.index + 1, p.index, U, p.content_length)
        /\ p.state # "body" /\ U \in Nat /\ U <= 4 + 2 * Len(request.headers)
    BY <1>1, <1>5, RuleLengths
  <2>2. LengthCounted' /\ BodyCounted'
    BY <1>5, <2>1 DEF LengthCounted, BodyCounted
  <2>3. BodyPlaced'
    <3>1. U # 5 + 2 * Len(request'.headers)
      BY <1>3, <1>5, <2>1
    <3> QED BY <3>1 DEF BodyPlaced
  <2> QED BY <2>2, <2>3 DEF Lengths
<1>6. ASSUME buffer' = [buffer EXCEPT !.index = @ + 1]
      PROVE  buffer'.index = buffer.index + 1
  BY <1>2, <1>6 DEF BufferTyped
<1>7. ASSUME NEW r \in Apply, "done" \in r.does PROVE r.does = {"count", "done"}
  BY <1>1, <1>7, AppliedRule, DoneRule DEF Is
<1>8. CASE OverLimit
  <2>1. PICK r \in Apply : TooLong(After(r), r) /\ parser' = [After(r) EXCEPT !.fresh = FALSE]
    BY <1>8 DEF OverLimit
  <2>2. buffer' = [buffer EXCEPT !.index = @ + 1] /\ pc' = "wait"
        /\ UNCHANGED <<request, sent, edge, tokens, memused, reads>>
    BY <1>8 DEF OverLimit
  <2>3. "ready" \notin r.does
    BY <1>1, <2>1, ReadyWithin
  <2>4. /\ parser'.state = After(r).state /\ parser'.index = After(r).index
        /\ parser'.content_length = After(r).content_length
    <3> DEFINE p == After(r)
    <3>1. DOMAIN p = Parts
      BY <1>2, AfterParts
    <3>2. parser' = [p EXCEPT !.fresh = FALSE]
      BY <2>1
    <3> HIDE DEF p
    <3>3. parser'.state = p.state /\ parser'.index = p.index /\ parser'.content_length = p.content_length
      BY <3>1, <3>2 DEF Parts
    <3> QED BY <3>3 DEF p
  <2>5. CASE "done" \notin r.does
    BY <1>5, <1>6, <2>2, <2>3, <2>4, <2>5
  <2>6. CASE "done" \in r.does
    <3>1. After(r).state = r.to /\ r.to = "done" /\ After(r).content_length = parser.content_length
      <4>1. r.to = "done"
        BY <1>1, <2>6, AppliedRule, DoneRule DEF Is
      <4> QED BY <1>1, <2>6, <4>1, AfterFits
    <3>2. parser'.state = "done" /\ parser'.content_length = parser.content_length
      BY <2>4, <3>1
    <3>3. Len(tokens) = 3 + 2 * Len(request.headers)
      BY <1>1, <2>6, RuleFollows, Zenon
    <3>4. LengthCounted'
      <4> DEFINE k == Len(request.headers) + 1
      <4>1. k \in 1..k /\ Len(tokens) = 1 + 2 * k
        BY <1>3, <3>3
      <4>2. Counted(request, parser.state, buffer.index, parser.index, Len(tokens), parser.content_length)
        BY <1>1 DEF Lengths, LengthCounted, InHead, Parses
      <4>3. Counted(request, parser'.state, buffer'.index, parser'.index, Len(tokens), parser.content_length)
        BY <1>2, <4>1, <4>2, CountBetween
      <4> QED BY <2>2, <3>2, <4>3 DEF LengthCounted
    <3>5. BodyCounted' /\ BodyPlaced'
      <4>1. Len(tokens') # 5 + 2 * Len(request'.headers)
        BY <1>3, <2>2, <3>3
      <4> QED BY <3>2, <4>1 DEF BodyCounted, BodyPlaced
    <3> QED BY <3>4, <3>5 DEF Lengths
  <2> QED BY <2>5, <2>6
<1>9. CASE Advance
  <2>1. PICK r \in Apply : r.does \cap {"ready", "done"} = {} /\ parser' = After(r)
    BY <1>9 DEF Advance
  <2>2. buffer' = [buffer EXCEPT !.index = @ + 1]
        /\ UNCHANGED <<pc, request, sent, edge, tokens, memused, reads>>
    BY <1>9 DEF Advance
  <2>3. "ready" \notin r.does /\ "done" \notin r.does
    BY <2>1
  <2> QED BY <1>5, <1>6, <2>1, <2>2, <2>3
<1>10. CASE TokenReady
  <2>1. PICK r \in Apply :
          /\ ~TooLong(After(r), r) /\ "ready" \in r.does /\ parser' = After(r)
          /\ tokens' = Append(tokens, [type |-> After(r).type, index |-> After(r).index,
                                       len |-> buffer.index - After(r).index])
    BY <1>10 DEF TokenReady
  <2>2. buffer' = [buffer EXCEPT !.index = @ + 1] /\ UNCHANGED <<pc, request, sent, edge, memused, reads>>
    BY <1>10 DEF TokenReady
  <2>3. "done" \notin r.does
    <3>1. SUFFICES ASSUME "done" \in r.does PROVE FALSE
      OBVIOUS
    <3>2. r.does = {"count", "done"}
      BY <1>7, <3>1
    <3> QED BY <2>1, <3>2
  <2>4. Len(tokens') = Len(tokens) + 1
    <3> DEFINE t == [type |-> After(r).type, index |-> After(r).index, len |-> buffer.index - After(r).index]
    <3>1. t \in TokenSet
      BY <1>1, <2>1, ReadyFits
    <3> HIDE DEF t
    <3>2. tokens' = Append(tokens, t)
      BY <2>1 DEF t
    <3> QED BY <1>2, <3>1, <3>2, AppendProperties
  <2> QED BY <1>5, <1>6, <2>1, <2>2, <2>3, <2>4
<1> QED BY <1>4, <1>8, <1>9, <1>10

(* The end of the head.                                                    *)
LEMMA HeadersDoneLengths ==
  ASSUME IInv, Places, Lengths, Delimited(request), Numbered(request), HeadersDone
  PROVE  Lengths'
<1>1. InHead /\ tokens' = Append(tokens, [type |-> "HEADERS_DONE", index |-> 0, len |-> 0])
      /\ UNCHANGED <<request, sent, edge, memused, reads>>
  BY DEF HeadersDone
<1> DEFINE n == Len(request.headers)
           T == Len(tokens)
           t == [type |-> "HEADERS_DONE", index |-> 0, len |-> 0]
<1>11. PICK r \in Apply : \E kind :
         /\ "done" \in r.does
         /\ parser' = [After(r) EXCEPT !.state = kind, !.type = "HEADERS_DONE", !.index = 0]
  BY Zenon DEF HeadersDone
<1>2. PICK kind :
        /\ "done" \in r.does
        /\ parser' = [After(r) EXCEPT !.state = kind, !.type = "HEADERS_DONE", !.index = 0]
  BY <1>11
<1>3. request \in Requests /\ tokens \in Seq(TokenSet) /\ n \in Nat /\ T \in Nat
  BY RequestParts, LenProperties DEF IInv, Types
<1>4. T = 3 + 2 * n
  BY <1>1, <1>2, RuleFollows, Zenon
<1>5. parser'.content_length = parser.content_length
  <2> DEFINE p == After(r)
  <2>1. DOMAIN p = Parts /\ p.content_length = parser.content_length
    BY <1>1, <1>2, AfterFits DEF ParserTyped
  <2>2. parser' = [p EXCEPT !.state = kind, !.type = "HEADERS_DONE", !.index = 0]
    BY <1>2
  <2> HIDE DEF p
  <2>3. parser'.content_length = p.content_length
    BY <2>1, <2>2 DEF Parts
  <2> QED BY <2>1, <2>3
<1>6. parser.content_length = Declared(request)
  <2> DEFINE k == n + 1
  <2>1. Counted(request, parser.state, buffer.index, parser.index, T, parser.content_length)
    BY <1>1 DEF Lengths, LengthCounted, InHead, Parses
  <2>2. k \in 1..n + 1 /\ T = 1 + 2 * k
    BY <1>3, <1>4
  <2>3. parser.content_length = DeclaredBefore(request, k)
    <3> HIDE DEF k, T
    <3> QED BY <2>1, <2>2 DEF Counted
  <2> QED BY <1>3, <2>3, DeclaredEnds
<1>7. Len(tokens') = T + 1
  <2>1. t \in TokenSet
    BY DEF TokenSet, Kinds
  <2> HIDE DEF t
  <2>2. tokens' = Append(tokens, t)
    BY <1>1 DEF t
  <2> QED BY <1>3, <2>1, <2>2, AppendProperties
<1>8. LengthCounted'
  <2>1. Len(tokens') \in Nat /\ Len(tokens') >= 4 + 2 * n
    BY <1>3, <1>4, <1>7
  <2> QED BY <1>1, <1>3, <2>1, CountedPast DEF LengthCounted
<1>9. BodyCounted'
  BY <1>1, <1>5, <1>6 DEF BodyCounted
<1>10. BodyPlaced'
  <2>1. Len(tokens') # 5 + 2 * Len(request'.headers)
    BY <1>1, <1>3, <1>4, <1>7
  <2> QED BY <2>1 DEF BodyPlaced
<1> QED BY <1>8, <1>9, <1>10 DEF Lengths

(* The body.                                                               *)
LEMMA BodyLengths ==
  ASSUME IInv, Places, Lengths, Delimited(request), Numbered(request), Body
  PROVE  Lengths'
<1> DEFINE n == Len(request.headers)
           T == Len(tokens)
           after == buffer.after_headers_index
           size == parser.content_length
           there == buffer.length >= after + size - 1
           t == Tok("BODY", after, size)
<1>1. /\ pc = "exec" /\ Fresh /\ parser.state = "body"
      /\ parser' = [parser EXCEPT !.type = "BODY", !.index = after, !.done = there, !.fresh = there]
      /\ tokens' = IF there THEN Append(tokens, t) ELSE tokens
      /\ buffer' = [buffer EXCEPT !.index = buffer.length]
      /\ UNCHANGED <<request, sent, edge, memused, reads>>
  BY DEF Body, Parses, Tok
<1>2. pc \notin Ended /\ request \in Requests /\ tokens \in Seq(TokenSet) /\ BufferTyped(buffer)
      /\ ParserTyped(parser)
  BY <1>1 DEF IInv, Types, Ended
<1>3. n \in Nat /\ T \in Nat /\ after \in Nat /\ size \in Nat /\ buffer.length \in Nat
  BY <1>2, RequestParts, LenProperties DEF BufferTyped, ParserTyped
<1>4. parser.done = FALSE
  BY <1>1, <1>2 DEF Fresh, ParserTyped
<1>5. T = 4 + 2 * n
  BY <1>1, <1>3, <1>4 DEF Places, BodyNext
<1>6. size = Declared(request)
  BY <1>1 DEF Lengths, BodyCounted
<1>7. parser'.content_length = size /\ buffer'.length = buffer.length /\ buffer.length \in Nat
  <2> HIDE DEF there
  <2> QED BY <1>1, <1>2 DEF ParserTyped, Parts, BufferTyped
<1>8. there => t \in TokenSet /\ Len(tokens') = T + 1 /\ tokens'[T + 1] = t
  <2> SUFFICES ASSUME there PROVE t \in TokenSet /\ Len(tokens') = T + 1 /\ tokens'[T + 1] = t
    OBVIOUS
  <2>1. t \in TokenSet
    BY <1>3 DEF Tok, TokenSet, Kinds
  <2>2. tokens' = Append(tokens, t)
    BY <1>1
  <2> HIDE DEF t
  <2> QED BY <1>2, <2>1, <2>2, AppendProperties
<1>9. ~there => tokens' = tokens
  BY <1>1
<1>10. LengthCounted'
  <2>1. Len(tokens') \in Nat /\ Len(tokens') >= 4 + 2 * n
    <3> HIDE DEF there, t
    <3> QED BY <1>3, <1>5, <1>8, <1>9
  <2> QED BY <1>1, <1>2, <2>1, CountedPast DEF LengthCounted
<1>11. BodyCounted'
  BY <1>1, <1>6, <1>7 DEF BodyCounted
<1>12. BodyPlaced'
  <2>1. CASE ~there
    <3>1. Len(tokens') # 5 + 2 * Len(request'.headers)
      BY <1>1, <1>3, <1>5, <1>9, <2>1
    <3> QED BY <3>1 DEF BodyPlaced
  <2>2. CASE there
    <3>1. tokens'[Len(tokens')] = t /\ t.index = after /\ t.len = size
      BY <1>8, <2>2 DEF Tok
    <3>2. (after + size) - 1 <= buffer.length
      BY <1>3, <2>2
    <3> QED BY <1>1, <1>6, <1>7, <3>1, <3>2 DEF BodyPlaced
  <2> QED BY <2>1, <2>2
<1> QED BY <1>10, <1>11, <1>12 DEF Lengths

(* Neither what is counted nor the tokens change.                          *)
LEMMA LengthsHeld ==
  ASSUME IInv, Places, Lengths, UNCHANGED <<request, tokens>>,
         parser'.state = parser.state, parser'.index = parser.index,
         parser'.content_length = parser.content_length, buffer'.index = buffer.index,
         pc' \notin Ended => pc \notin Ended /\ buffer'.length \in Nat /\ buffer.length <= buffer'.length
  PROVE  Lengths'
<1>1. LengthCounted' /\ BodyCounted'
  BY DEF Lengths, LengthCounted, BodyCounted
<1>2. BodyPlaced'
  <2> SUFFICES ASSUME Len(tokens) = 5 + 2 * Len(request.headers)
               PROVE  /\ tokens[Len(tokens)].len = Declared(request)
                      /\ pc' \notin Ended =>
                           (tokens[Len(tokens)].index + tokens[Len(tokens)].len) - 1 <= buffer'.length
    BY DEF BodyPlaced, Ended
  <2> DEFINE t == tokens[Len(tokens)]
             a == t.index
             b == t.len
             l == buffer.length
             m == buffer'.length
  <2>1. b = Declared(request) /\ (pc \notin Ended => (a + b) - 1 <= l)
    BY DEF Lengths, BodyPlaced
  <2>2. a \in Nat /\ b \in Nat /\ l \in Nat
    <3>1. tokens \in Seq(TokenSet) /\ BufferTyped(buffer) /\ request \in Requests
      BY DEF IInv, Types
    <3>2. Len(tokens) \in 1..Len(tokens)
      <4>1. Len(request.headers) \in Nat
        BY <3>1, RequestParts
      <4>2. Len(tokens) \in Nat /\ Len(tokens) >= 1
        BY <4>1
      <4> QED BY <4>2
    <3>3. t \in TokenSet
      BY <3>1, <3>2, ElementOfSeq
    <3> QED BY <3>1, <3>3 DEF TokenSet, BufferTyped
  <2>3. pc' \notin Ended => pc \notin Ended /\ m \in Nat /\ l <= m
    OBVIOUS
  <2> HIDE DEF a, b, l, m
  <2>4. pc' \notin Ended => (a + b) - 1 <= m
    BY <2>1, <2>2, <2>3
  <2> QED BY <2>1, <2>4 DEF a, b, m
<1> QED BY <1>1, <1>2 DEF Lengths

(* The steps of which the parser is not one.                               *)
LEMMA OtherLengths ==
  ASSUME IInv, Places, Lengths,
         \/ Arrive \/ Event \/ ReadSome \/ ReadNothing \/ ReadFull \/ Expire \/ NotFresh \/ NoMore
         \/ Respond \/ RespondCrashes \/ Written \/ UNCHANGED vars
  PROVE  Lengths'
<1>1. BufferTyped(buffer) /\ DOMAIN parser = Parts
  BY DEF IInv, Types, ParserTyped
<1> DEFINE Still == /\ parser'.state = parser.state /\ parser'.index = parser.index
                    /\ parser'.content_length = parser.content_length
           Read  == buffer'.length \in Nat /\ buffer.length <= buffer'.length
<1>2. ASSUME UNCHANGED buffer PROVE buffer'.index = buffer.index /\ Read
  BY <1>1, <1>2 DEF BufferTyped
<1>3. ASSUME UNCHANGED parser PROVE Still
  BY <1>3
<1>4. CASE Arrive \/ Event \/ ReadFull \/ Expire \/ NotFresh
  BY <1>2, <1>3, <1>4, LengthsHeld DEF Arrive, Event, ReadFull, Expire, NotFresh, Ended
<1>5. CASE ReadNothing
  <2>1. Still
    BY <1>1, <1>5 DEF ReadNothing, Parts
  <2> QED BY <1>2, <1>5, <2>1, LengthsHeld DEF ReadNothing, Ended
<1>6. CASE NoMore
  <2>1. /\ parser' = [parser EXCEPT !.state = parser.state, !.fresh = FALSE]
        /\ buffer' = [buffer EXCEPT !.index = buffer.index]
        /\ pc = "exec" /\ pc' = "wait" /\ UNCHANGED <<request, sent, edge, tokens, memused, reads>>
    BY <1>6 DEF NoMore, Stop
  <2>2. Still /\ buffer'.index = buffer.index /\ Read
    BY <1>1, <2>1 DEF Parts, BufferTyped
  <2> QED BY <2>1, <2>2, LengthsHeld DEF Ended
<1>7. CASE ReadSome
  <2>1. PICK length, room, fresh :
          /\ length = buffer.length + Least(Room, sent - buffer.length)
          /\ buffer' = [buffer EXCEPT !.length = length, !.capacity = room]
          /\ parser' = [parser EXCEPT !.fresh = fresh]
          /\ pc = "read" /\ Room > 0 /\ sent > buffer.length
          /\ pc' \in {"read", "exec"} /\ UNCHANGED <<request, tokens>>
    BY <1>7 DEF ReadSome
  <2>2. Still /\ buffer'.index = buffer.index /\ buffer'.length = length
    BY <1>1, <2>1 DEF Parts, BufferTyped
  <2>3. Read
    <3>1. sent \in Nat /\ buffer.length \in Nat /\ buffer.capacity \in Nat
      <4>1. pc \notin Ended
        BY <2>1 DEF Ended
      <4> QED BY <1>1, <4>1, Before DEF BufferTyped
    <3> DEFINE l == buffer.length
               c == buffer.capacity
    <3>2. l \in Nat /\ c \in Nat /\ sent \in Nat /\ c - l > 0 /\ sent > l /\ length = l + Least(c - l, sent - l)
      BY <2>1, <3>1 DEF Room
    <3> HIDE DEF l, c
    <3>3. length \in Nat /\ l <= length
      BY <3>2 DEF Least
    <3> QED BY <2>2, <3>3 DEF l
  <2> QED BY <2>1, <2>2, <2>3, LengthsHeld DEF Ended
<1>8. CASE RespondCrashes
  BY <1>2, <1>3, <1>8, LengthsHeld DEF RespondCrashes, Ended
<1>9. CASE Respond
  <2>1. /\ pc = "handled" /\ pc' = "write" /\ UNCHANGED <<request, sent, edge, parser, tokens, reads>>
        /\ buffer' = [buffer EXCEPT !.length = out'.size, !.capacity = Len(out'.buf)]
    BY <1>9 DEF Respond
  <2>2. buffer'.index = buffer.index
    BY <1>1, <2>1 DEF BufferTyped
  <2> QED BY <1>3, <2>1, <2>2, LengthsHeld DEF Ended
<1>10. CASE Written
  <2>1. /\ pc = "write" /\ pc' \in {"kept", "ended"}
        /\ UNCHANGED <<request, sent, edge, buffer, parser, tokens, reads>>
    BY <1>10 DEF Written
  <2> QED BY <1>2, <1>3, <2>1, LengthsHeld DEF Ended
<1>11. CASE UNCHANGED vars
  BY <1>2, <1>3, <1>11, LengthsHeld DEF vars, parserVars
<1> QED BY <1>4, <1>5, <1>6, <1>7, <1>8, <1>9, <1>10, <1>11

(* An accepted connection.                                                 *)
LEMMA InitLengths == Init => LengthsInv
<1> SUFFICES ASSUME Init PROVE Lengths
  BY DEF LengthsInv
<1>1. /\ request \in Requests /\ parser.state = "start" /\ parser.content_length = 0 /\ tokens = <<>>
  BY DEF Init, ParserInit
<1>2. Len(tokens) = 0 /\ Len(request.headers) \in Nat
  BY <1>1, RequestParts
<1>3. LengthCounted
  BY <1>1, <1>2, CountedFirst DEF LengthCounted
<1>4. BodyCounted /\ BodyPlaced
  BY <1>1, <1>2 DEF BodyCounted, BodyPlaced
<1> QED BY <1>3, <1>4 DEF Lengths

(* Every step keeps it.                                                    *)
LEMMA NextLengths == IInv /\ PlacesInv /\ LengthsInv /\ [Next]_vars => LengthsInv'
<1> SUFFICES ASSUME IInv, PlacesInv, LengthsInv, [Next]_vars, Delimited(request'), Numbered(request')
             PROVE  Lengths'
  BY DEF LengthsInv
<1>1. request' = request
  BY NextRequest
<1>2. Delimited(request) /\ Numbered(request) /\ Places /\ Lengths
  BY <1>1 DEF PlacesInv, LengthsInv
<1>3. \/ Refuse \/ OverLimit \/ Advance \/ TokenReady \/ HeadersDone \/ Body
      \/ Arrive \/ Event \/ ReadSome \/ ReadNothing \/ ReadFull \/ Expire \/ NotFresh \/ NoMore
      \/ Respond \/ RespondCrashes \/ Written \/ UNCHANGED vars
  BY DEF Next, Server, Reading, Serve, Exec
<1> QED BY <1>2, <1>3, ParseLengths, HeadersDoneLengths, BodyLengths, OtherLengths

(* In every state the parser has counted what is declared.                 *)
LEMMA LengthsAlways == Spec => []LengthsInv
BY InitLengths, NextLengths, PlacesAlways, Invariance, PTL DEF Spec

-----------------------------------------------------------------------------
(* The tokens that are expected of a request, place by place.              *)
Want(y, w) == [type |-> y, text |-> w]

(* The token that is expected j-th.                                        *)
IsWanted(q, j, u) ==
  LET n == Len(q.headers)
  IN  /\ j = 1 => u = Want("METHOD", q.method)
      /\ j = 2 => u = Want("TARGET", q.target)
      /\ j = 3 => u = Want("VERSION", <<q.version>>)
      /\ \A k \in 1..n :
           /\ j = 2 + 2 * k => u = Want("HEADER_KEY", Key(q, k))
           /\ j = 3 + 2 * k => u = Want("HEADER_VALUE", Trimmed(Val(q, k)))
      /\ j = 4 + 2 * n => u = Want("HEADERS_DONE", <<>>)
      /\ j = 5 + 2 * n => u = Want("BODY", SubSeq(q.body, 1, Least(Declared(q), Len(q.body))))

(* What is made of pairs has twice as many.                                *)
LEMMA PairsEnd ==
  ASSUME NEW S, NEW h \in Seq(Seq(S)), \A k \in 1..Len(h) : Len(h[k]) = 2
  PROVE  \A k \in 0..Len(h) : EndOf(h, k) = 2 * k
<1> DEFINE n == Len(h)
           Bad == {k \in Nat : k <= n /\ EndOf(h, k) # 2 * k}
<1>1. n \in Nat /\ EndOf(h, 0) = 0
  BY LenProperties DEF EndOf
<1>2. Bad = {}
  <2>1. SUFFICES ASSUME Bad # {} PROVE FALSE
    OBVIOUS
  <2>2. PICK k \in Bad : \A j \in Bad : k <= j
    BY <2>1, LeastNumber
  <2>3. k # 0 /\ k \in Nat /\ k <= n
    BY <1>1, <2>2
  <2>4. k \in 1..n /\ k - 1 \in Nat /\ k - 1 <= n /\ ~(k <= k - 1)
    BY <1>1, <2>3
  <2>5. EndOf(h, k - 1) = 2 * (k - 1)
    BY <2>2, <2>4
  <2>6. EndOf(h, k) = EndOf(h, k - 1) + 2
    <3>1. EndOf(h, k) = EndOf(h, k - 1) + Len(h[k]) /\ Len(h[k]) = 2
      <4> HIDE DEF Bad
      <4> QED BY <2>4, FlatPlaces
    <3> QED BY <3>1, Zenon
  <2>7. EndOf(h, k) = 2 * k
    <3> DEFINE e == EndOf(h, k)
               f == EndOf(h, k - 1)
    <3> HIDE DEF e, f
    <3>1. f = 2 * (k - 1) /\ e = f + 2
      BY <2>5, <2>6 DEF e, f
    <3>2. e = 2 * k
      BY <2>3, <3>1
    <3> QED BY <3>2 DEF e
  <2> QED BY <2>2, <2>7
<1> HIDE DEF n
<1>3. \A k \in 0..n : k \in Nat /\ k <= n
  BY <1>1
<1> QED BY <1>2, <1>3 DEF n

(* The expected tokens, place by place.                                    *)
LEMMA ExpectedLaw ==
  ASSUME NEW q \in Requests
  PROVE  /\ Len(Expected(q)) = 5 + 2 * Len(q.headers)
         /\ \A j \in 1..5 + 2 * Len(q.headers) : IsWanted(q, j, Expected(q)[j])
<1> DEFINE n == Len(q.headers)
           w1 == Want("METHOD", q.method)
           w2 == Want("TARGET", q.target)
           w3 == Want("VERSION", <<q.version>>)
           w4 == Want("HEADERS_DONE", <<>>)
           w5 == Want("BODY", SubSeq(q.body, 1, Least(Declared(q), Len(q.body))))
           K(k) == Want("HEADER_KEY", Key(q, k))
           V(k) == Want("HEADER_VALUE", Trimmed(Val(q, k)))
           S == {w1, w2, w3, w4, w5} \cup {K(k) : k \in 1..n} \cup {V(k) : k \in 1..n}
           first == <<w1, w2, w3>>
           h == [k \in 1..n |-> <<K(k), V(k)>>]
           pairs == FlattenSeq(h)
           last == <<w4, w5>>
           x == (first \o pairs) \o last
<1>1. n \in Nat /\ DOMAIN q.headers = 1..n
  BY RequestParts
<1>2. x = Expected(q)
  BY <1>1, Zenon DEF Expected, Want, Key, Val
<1>3. first \in Seq(S) /\ Len(first) = 3 /\ first[1] = w1 /\ first[2] = w2 /\ first[3] = w3
  <2>1. w1 \in S /\ w2 \in S /\ w3 \in S
    OBVIOUS
  <2> HIDE DEF w1, w2, w3, S
  <2> QED BY <2>1
<1>4. last \in Seq(S) /\ Len(last) = 2 /\ last[1] = w4 /\ last[2] = w5
  <2>1. w4 \in S /\ w5 \in S
    OBVIOUS
  <2> HIDE DEF w4, w5, S
  <2> QED BY <2>1
<1>5. /\ h \in Seq(Seq(S)) /\ Len(h) = n
      /\ \A k \in 1..n : Len(h[k]) = 2 /\ h[k][1] = K(k) /\ h[k][2] = V(k)
  <2>1. \A k \in 1..n : K(k) \in S /\ V(k) \in S
    OBVIOUS
  <2> DEFINE l(k) == <<K(k), V(k)>>
             Z == Seq(S)
             p == [k \in 1..n |-> l(k)]
  <2> HIDE DEF K, V, S
  <2>2. \A k \in 1..n : l(k) \in Z /\ Len(l(k)) = 2 /\ l(k)[1] = K(k) /\ l(k)[2] = V(k)
    BY <2>1
  <2>3. h = p
    OBVIOUS
  <2> HIDE DEF l, Z, n, h
  <2>4. p \in Seq(Z) /\ Len(p) = n /\ \A k \in 1..n : p[k] = l(k)
    BY <1>1, <2>2
  <2> QED BY <2>2, <2>3, <2>4 DEF Z
<1> HIDE DEF first, last, h, S
<1>6. /\ pairs \in Seq(S) /\ Len(pairs) = 2 * n
      /\ \A k \in 1..n : pairs[2 * (k - 1) + 1] = K(k) /\ pairs[2 * (k - 1) + 2] = V(k)
  <2>1. \A k \in 0..n : EndOf(h, k) = 2 * k
    BY <1>5, PairsEnd
  <2>2. /\ pairs \in Seq(S) /\ Len(pairs) = EndOf(h, n)
        /\ \A k \in 1..n : \A i \in 1..2 : pairs[EndOf(h, k - 1) + i] = h[k][i]
    BY <1>5, FlatPlaces
  <2>3. n \in 0..n /\ \A k \in 1..n : k - 1 \in 0..n
    BY <1>1
  <2>4. 1 \in 1..2 /\ 2 \in 1..2
    OBVIOUS
  <2> HIDE DEF pairs, n, K, V
  <2>5. Len(pairs) = 2 * n
    BY <2>1, <2>2, <2>3
  <2>6. \A k \in 1..n : EndOf(h, k - 1) = 2 * (k - 1)
    BY <2>1, <2>3
  <2>7. \A k \in 1..n : pairs[2 * (k - 1) + 1] = h[k][1] /\ pairs[2 * (k - 1) + 2] = h[k][2]
    BY <2>2, <2>4, <2>6
  <2> QED BY <1>5, <2>2, <2>5, <2>7
<1> HIDE DEF pairs
<1> DEFINE y == first \o pairs
<1>7. /\ y \in Seq(S) /\ Len(y) = 3 + 2 * n
      /\ \A i \in 1..3 : y[i] = first[i]
      /\ \A i \in 1..2 * n : y[3 + i] = pairs[i]
  <2>1. first \in Seq(S) /\ pairs \in Seq(S)
    BY <1>3, <1>6
  <2>2. /\ y \in Seq(S) /\ Len(y) = Len(first) + Len(pairs)
        /\ \A i \in 1..Len(first) : y[i] = first[i]
        /\ \A i \in 1..Len(pairs) : y[Len(first) + i] = pairs[i]
    BY <2>1, TwoParts
  <2> HIDE DEF y
  <2> QED BY <1>3, <1>6, <2>2
<1> HIDE DEF y
<1>8. /\ Len(x) = 5 + 2 * n
      /\ \A i \in 1..3 + 2 * n : x[i] = y[i]
      /\ \A i \in 1..2 : x[3 + 2 * n + i] = last[i]
  <2>1. x = y \o last
    BY DEF y
  <2>2. /\ Len(x) = Len(y) + Len(last)
        /\ \A i \in 1..Len(y) : x[i] = y[i]
        /\ \A i \in 1..Len(last) : x[Len(y) + i] = last[i]
    <3>1. y \in Seq(S) /\ last \in Seq(S)
      BY <1>4, <1>7
    <3> HIDE DEF x
    <3> QED BY <2>1, <3>1, TwoParts
  <2> HIDE DEF x, n
  <2>3. Len(x) = 5 + 2 * n
    BY <1>1, <1>4, <1>7, <2>2
  <2> QED BY <1>4, <1>7, <2>2, <2>3
<1> HIDE DEF x, n, w1, w2, w3, w4, w5, K, V
<1>9. x[1] = w1 /\ x[2] = w2 /\ x[3] = w3
  <2>1. 1 \in 1..3 /\ 2 \in 1..3 /\ 3 \in 1..3
        /\ 1 \in 1..3 + 2 * n /\ 2 \in 1..3 + 2 * n /\ 3 \in 1..3 + 2 * n
    BY <1>1
  <2> QED BY <1>3, <1>7, <1>8, <2>1
<1>10. ASSUME NEW k \in 1..n PROVE x[2 + 2 * k] = K(k) /\ x[3 + 2 * k] = V(k)
  <2> DEFINE i == 2 * (k - 1) + 1
             m == 2 * (k - 1) + 2
  <2>1. i \in 1..2 * n /\ m \in 1..2 * n /\ 3 + i = 2 + 2 * k /\ 3 + m = 3 + 2 * k
        /\ 2 + 2 * k \in 1..3 + 2 * n /\ 3 + 2 * k \in 1..3 + 2 * n
    BY <1>1
  <2>2. pairs[i] = K(k) /\ pairs[m] = V(k)
    BY <1>6
  <2> HIDE DEF i, m
  <2>3. x[3 + i] = K(k) /\ x[3 + m] = V(k)
    BY <1>7, <1>8, <2>1, <2>2
  <2> QED BY <2>1, <2>3
<1>11. x[4 + 2 * n] = w4 /\ x[5 + 2 * n] = w5
  <2>1. 1 \in 1..2 /\ 2 \in 1..2 /\ 3 + 2 * n + 1 = 4 + 2 * n /\ 3 + 2 * n + 2 = 5 + 2 * n
    BY <1>1
  <2> QED BY <1>4, <1>8, <2>1
<1>12. ASSUME NEW j \in 1..5 + 2 * n PROVE IsWanted(q, j, x[j])
  <2>1. \A k \in 1..n : (j = 2 + 2 * k => x[j] = K(k)) /\ (j = 3 + 2 * k => x[j] = V(k))
    BY <1>10
  <2>2. /\ j = 1 => x[j] = w1
        /\ j = 2 => x[j] = w2
        /\ j = 3 => x[j] = w3
        /\ j = 4 + 2 * n => x[j] = w4
        /\ j = 5 + 2 * n => x[j] = w5
    BY <1>9, <1>11
  <2> QED BY <2>1, <2>2, Zenon DEF IsWanted, w1, w2, w3, w4, w5, K, V, n
<1> QED BY <1>2, <1>8, <1>12 DEF n

-----------------------------------------------------------------------------
(* The tokens are those of the text.                                       *)

(* What was read of a token.                                               *)
TextRead(t) ==
  SubSeq(SubSeq(Stream, 1, buffer.length), t.index + 1, Least(t.index + t.len, buffer.length))

(* The beginning of a beginning.                                           *)
LEMMA FrontOfPart ==
  ASSUME NEW S, NEW s \in Seq(S), NEW d \in Nat, d >= 1, d <= Len(s)
  PROVE  Front(SubSeq(s, 1, d)) = SubSeq(s, 1, d - 1)
<1> DEFINE w == SubSeq(s, 1, d)
           f == d - 1
<1>1. Len(s) \in Nat /\ \A i \in 1..Len(s) : s[i] \in S
  BY LenProperties, ElementOfSeq
<1>2. w \in Seq(S) /\ Len(w) = d /\ \A i \in 1..d : w[i] = s[i]
  <2>1. d \in Int /\ 1 \in Int /\ d - 1 + 1 = d /\ \A i \in 1..d : s[i] \in S
    BY <1>1
  <2>2. /\ w \in Seq(S) /\ Len(w) = (IF 1 <= d THEN d - 1 + 1 ELSE 0)
        /\ \A i \in 1..d - 1 + 1 : w[i] = s[1 + i - 1]
    BY <2>1, SubSeqProperties
  <2>3. \A i \in 1..d : 1 + i - 1 = i
    OBVIOUS
  <2> HIDE DEF w
  <2> QED BY <2>1, <2>2, <2>3
<1>3. f \in Nat /\ 1 + f - 1 = f /\ f <= d
  OBVIOUS
<1> HIDE DEF w, f
<1> DEFINE u == SubSeq(s, 1, f)
<1>4. u \in Seq(S) /\ Len(u) = f /\ \A i \in 1..f : u[i] = s[i]
  <2>1. f \in Int /\ 1 \in Int /\ f - 1 + 1 = f /\ \A i \in 1..f : s[i] \in S
    BY <1>1, <1>3
  <2>2. /\ u \in Seq(S) /\ Len(u) = (IF 1 <= f THEN f - 1 + 1 ELSE 0)
        /\ \A i \in 1..f - 1 + 1 : u[i] = s[1 + i - 1]
    BY <2>1, SubSeqProperties
  <2>3. \A i \in 1..f : 1 + i - 1 = i
    BY <1>3
  <2> HIDE DEF u
  <2> QED BY <1>3, <2>1, <2>2, <2>3
<1> HIDE DEF u
<1>5. SubSeq(w, 0 + 1, 0 + Len(u)) = u
  <2>1. \A i \in 1..Len(u) : w[0 + i] = u[i]
    BY <1>2, <1>3, <1>4
  <2> QED BY <1>4, <2>1, SliceLaw
<1>6. 0 + 1 = 1 /\ 0 + Len(u) = Len(w) - 1
  BY <1>2, <1>3, <1>4 DEF f
<1> QED BY <1>5, <1>6 DEF Front, u, w, f

(* The body: what is there of it, which is one symbol less at most.        *)
LEMMA BodyExact ==
  ASSUME NEW q \in Requests, NEW t, NEW D \in Nat, NEW l \in 0..Len(TextOf[q]),
         t.index = Ahead(q, Len(q.headers) + 1) + 2, t.len = D, (t.index + D) - 1 <= l
  PROVE  LET w == SubSeq(q.body, 1, Least(D, Len(q.body)))
             u == SubSeq(SubSeq(TextOf[q], 1, l), t.index + 1, Least(t.index + t.len, l))
         IN  u = w \/ u = Front(w)
<1> DEFINE a == t.index
           b == Len(q.body)
           x == TextOf[q]
           e == Least(a + D, l) - a
           u == SubSeq(SubSeq(x, 1, l), a + 1, Least(a + t.len, l))
           w == SubSeq(q.body, 1, Least(D, b))
<1>1. /\ q.body \in Seq(Alphabet) /\ b \in Nat /\ a \in Nat /\ Len(x) = a + b /\ t.len = D
      /\ \A i \in 1..b : x[a + i] = q.body[i]
  <2>1. q.body \in Seq(Alphabet) /\ b \in Nat
    BY RequestParts
  <2>2. LastPlaces(q, x, Ahead(q, Len(q.headers) + 1), b)
    BY TextLaw
  <2>3. Ahead(q, Len(q.headers) + 1) \in Nat
    <3>1. Len(q.headers) + 1 \in 1..Len(q.headers) + 1
      BY RequestParts
    <3> QED BY <3>1, TextLaw
  <2> HIDE DEF x, b
  <2>4. Len(x) = (Ahead(q, Len(q.headers) + 1) + 2) + b
    BY <2>2 DEF LastPlaces
  <2>5. \A i \in 1..b : x[(Ahead(q, Len(q.headers) + 1) + 2) + i] = q.body[i]
    BY <2>2 DEF LastPlaces
  <2>6. a = Ahead(q, Len(q.headers) + 1) + 2
    OBVIOUS
  <2>7. a \in Nat
    BY <2>3, <2>6
  <2> QED BY <2>1, <2>4, <2>5, <2>6, <2>7
<1>2. l \in 0..(a + b) /\ (a + D) - 1 <= l /\ D \in Nat
  BY <1>1
<1> HIDE DEF a, b, x
<1>3. CASE e = -1
  <2>1. D = 0 /\ l = a - 1
    BY <1>1, <1>2, <1>3 DEF Least
  <2>2. Least(a + t.len, l) = l /\ Least(D, b) = 0
    BY <1>1, <1>2, <2>1 DEF Least
  <2>3. u = <<>>
    <3>1. l < a + 1 /\ l \in Int /\ a + 1 \in Int
      BY <1>1, <1>2, <2>1
    <3> QED BY <2>2, <3>1, SubSeqEmpty
  <2>4. w = <<>>
    BY <2>2, SubSeqEmpty
  <2> QED BY <2>3, <2>4 DEF a, b, x
<1>4. CASE e # -1
  <2>1. e \in Nat /\ e <= b /\ a + e <= l /\ Least(a + D, l) = a + e /\ (e = D \/ e = D - 1)
    BY <1>1, <1>2, <1>4 DEF Least
  <2> HIDE DEF e
  <2> DEFINE s == SubSeq(q.body, 1, e)
             v == Tok("BODY", a, e)
  <2>2. s \in Seq(Alphabet) /\ Len(s) = e /\ \A i \in 1..e : s[i] = q.body[i]
    <3>1. \A i \in 1..b : q.body[i] \in Alphabet
      BY <1>1, ElementOfSeq DEF b
    <3>2. e \in Int /\ 1 \in Int /\ e - 1 + 1 = e /\ \A i \in 1..e : q.body[i] \in Alphabet
      BY <1>1, <2>1, <3>1
    <3>3. /\ s \in Seq(Alphabet) /\ Len(s) = (IF 1 <= e THEN e - 1 + 1 ELSE 0)
          /\ \A i \in 1..e - 1 + 1 : s[i] = q.body[1 + i - 1]
      BY <3>2, SubSeqProperties
    <3>4. \A i \in 1..e : 1 + i - 1 = i
      BY <2>1
    <3> HIDE DEF s
    <3>5. Len(s) = e
      <4>1. 1 <= e \/ e = 0
        BY <2>1
      <4>2. e - 1 + 1 = e
        BY <2>1
      <4>3. (IF 1 <= e THEN e - 1 + 1 ELSE 0) = e
        BY <4>1, <4>2
      <4>4. Len(s) = (IF 1 <= e THEN e - 1 + 1 ELSE 0)
        BY <3>3
      <4> QED BY <4>3, <4>4
    <3>6. \A i \in 1..e : s[i] = q.body[1 + i - 1]
      BY <3>2, <3>3, Zenon
    <3>7. \A i \in 1..e : s[i] = q.body[i]
      BY <3>4, <3>6, Zenon
    <3> QED BY <3>3, <3>5, <3>7
  <2> HIDE DEF s
  <2>3. v.index = a /\ v.len = e
    BY DEF Tok
  <2> HIDE DEF v
  <2>4. Says(q, v, s)
    <3>1. \A i \in 1..e : x[a + i] = s[i]
      BY <1>1, <2>1, <2>2
    <3> QED BY <1>1, <2>2, <2>3, <3>1 DEF Says, x
  <2>5. l \in 0..Len(x) /\ v.index + v.len <= l
    BY <1>1, <1>2, <2>1, <2>3
  <2>6. SubSeq(SubSeq(x, 1, l), v.index + 1, Least(v.index + v.len, l)) = s
    BY <2>4, <2>5, SaysText DEF x
  <2>7. Least(a + e, l) = Least(a + t.len, l)
    BY <1>1, <1>2, <2>1 DEF Least
  <2>8. u = s
    BY <2>3, <2>6, <2>7, Zenon
  <2>9. CASE e = Least(D, b)
    BY <2>8, <2>9 DEF s, a, b, x
  <2>10. CASE e # Least(D, b)
    <3>1. Least(D, b) = D /\ D >= 1 /\ D <= b /\ e = D - 1
      BY <1>1, <1>2, <2>1, <2>10 DEF Least
    <3>2. Front(SubSeq(q.body, 1, D)) = SubSeq(q.body, 1, D - 1)
      BY <1>1, <1>2, <3>1, FrontOfPart DEF b
    <3>3. Front(w) = s
      BY <3>1, <3>2, Zenon DEF s
    <3> QED BY <2>8, <3>3 DEF a, b, x
  <2> QED BY <2>9, <2>10
<1> QED BY <1>3, <1>4

(* The read part of a token is what was expected of it.                    *)
IsExact(q, t, z, l) ==
  LET u == SubSeq(SubSeq(TextOf[q], 1, l), t.index + 1, Least(t.index + t.len, l))
  IN  t.type = z.type /\ (u = z.text \/ (t.type = "BODY" /\ u = Front(z.text)))

(* Before the body a token in its place and the one expected there have    *)
(* one type and one text.                                                  *)
LEMMA SamePlace ==
  ASSUME NEW q \in Requests, NEW j \in Nat, NEW t, NEW z, IsPlace(q, j, t), IsWanted(q, j, z),
         1 <= j, j <= 5 + 2 * Len(q.headers), j # 5 + 2 * Len(q.headers)
  PROVE  \E y, w : y # "BODY" /\ t.type = y /\ Says(q, t, w) /\ z = Want(y, w)
<1> DEFINE n == Len(q.headers)
<1>1. n \in Nat
  BY RequestParts
<1>2. \/ j = 1 \/ j = 2 \/ j = 3 \/ j = 4 + 2 * n
      \/ \E k \in 1..n : j = 2 + 2 * k \/ j = 3 + 2 * k
  <2>1. \/ j \in {1, 2, 3} \/ j = 4 + 2 * n \/ j = 5 + 2 * n
        \/ \E k \in 1..n : j = 2 + 2 * k \/ j = 3 + 2 * k
    BY <1>1, PartOf
  <2> QED BY <2>1
<1>3. j = 1 => t.type = "METHOD" /\ Says(q, t, q.method)
  BY PlaceSays
<1>4. j = 2 => t.type = "TARGET" /\ Says(q, t, q.target)
  BY PlaceSays
<1>5. j = 3 => t.type = "VERSION" /\ Says(q, t, <<q.version>>)
  BY PlaceSays
<1>6. j = 4 + 2 * n => t.type = "HEADERS_DONE" /\ Says(q, t, <<>>)
  BY PlaceSays
<1>7. \A k \in 1..n :
        /\ j = 2 + 2 * k => t.type = "HEADER_KEY" /\ Says(q, t, Key(q, k))
        /\ j = 3 + 2 * k => t.type = "HEADER_VALUE" /\ Says(q, t, Trimmed(Val(q, k)))
  <2>1. \A k \in 1..Len(q.headers) :
          /\ j = 2 + 2 * k => t.type = "HEADER_KEY" /\ Says(q, t, Key(q, k))
          /\ j = 3 + 2 * k => t.type = "HEADER_VALUE" /\ Says(q, t, Trimmed(Val(q, k)))
    <3> HIDE DEF n
    <3>1. TAKE k \in 1..Len(q.headers)
    <3>2. j = 2 + 2 * k => t.type = "HEADER_KEY" /\ Says(q, t, Key(q, k))
      BY PlaceSays
    <3>3. j = 3 + 2 * k => t.type = "HEADER_VALUE" /\ Says(q, t, Trimmed(Val(q, k)))
      BY ValueSays
    <3> QED BY <3>2, <3>3
  <2> QED BY <2>1
<1>8. j = 1 => z = Want("METHOD", q.method)
  BY DEF IsWanted
<1>9. j = 2 => z = Want("TARGET", q.target)
  BY DEF IsWanted
<1>10. j = 3 => z = Want("VERSION", <<q.version>>)
  BY DEF IsWanted
<1>11. j = 4 + 2 * n => z = Want("HEADERS_DONE", <<>>)
  BY DEF IsWanted
<1>12. \A k \in 1..n :
         /\ j = 2 + 2 * k => z = Want("HEADER_KEY", Key(q, k))
         /\ j = 3 + 2 * k => z = Want("HEADER_VALUE", Trimmed(Val(q, k)))
  BY DEF IsWanted
<1>13. /\ "METHOD" # "BODY" /\ "TARGET" # "BODY" /\ "VERSION" # "BODY" /\ "HEADER_KEY" # "BODY"
       /\ "HEADER_VALUE" # "BODY" /\ "HEADERS_DONE" # "BODY"
  OBVIOUS
<1> HIDE DEF n
<1>14. CASE j = 1
  BY <1>3, <1>8, <1>13, <1>14, Zenon
<1>15. CASE j = 2
  BY <1>4, <1>9, <1>13, <1>15, Zenon
<1>16. CASE j = 3
  BY <1>5, <1>10, <1>13, <1>16, Zenon
<1>17. CASE j = 4 + 2 * n
  BY <1>6, <1>11, <1>13, <1>17, Zenon
<1>18. CASE \E k \in 1..n : j = 2 + 2 * k \/ j = 3 + 2 * k
  <2>1. PICK k \in 1..n : j = 2 + 2 * k \/ j = 3 + 2 * k
    BY <1>18, Zenon
  <2>2. CASE j = 2 + 2 * k
    BY <1>7, <1>12, <1>13, <2>2, Zenon
  <2>3. CASE j = 3 + 2 * k
    BY <1>7, <1>12, <1>13, <2>3, Zenon
  <2> QED BY <2>1, <2>2, <2>3
<1> QED BY <1>2, <1>14, <1>15, <1>16, <1>17, <1>18

(* A token in its place is the one that is expected there.                 *)
LEMMA TokenExact ==
  ASSUME NEW q \in Requests, NEW j \in Nat, NEW t, NEW z, IsPlace(q, j, t), IsWanted(q, j, z),
         NEW l \in 0..Len(TextOf[q]), 1 <= j, j <= 5 + 2 * Len(q.headers),
         t.type # "BODY" => t.index + t.len <= l,
         j = 5 + 2 * Len(q.headers) => t.len \in Nat /\ t.len = Declared(q) /\ (t.index + t.len) - 1 <= l
  PROVE  IsExact(q, t, z, l)
<1> DEFINE n == Len(q.headers)
           u == SubSeq(SubSeq(TextOf[q], 1, l), t.index + 1, Least(t.index + t.len, l))
<1>1. n \in Nat
  BY RequestParts
<1>2. CASE j # 5 + 2 * n
  <2>1. PICK y, w : y # "BODY" /\ t.type = y /\ Says(q, t, w) /\ z = Want(y, w)
    BY <1>2, SamePlace
  <2>2. t.index + t.len <= l
    BY <2>1
  <2>3. u = w
    BY <2>1, <2>2, SaysText
  <2>4. z.type = y /\ z.text = w
    BY <2>1 DEF Want
  <2> QED BY <2>1, <2>3, <2>4, Zenon DEF IsExact, u
<1>3. CASE j = 5 + 2 * n
  <2> DEFINE D == t.len
             w == SubSeq(q.body, 1, Least(Declared(q), Len(q.body)))
  <2>1. t.type = "BODY" /\ t.index = Ahead(q, n + 1) + 2
    <3>1. j = 5 + 2 * Len(q.headers) => t.type = "BODY" /\ t.index = Ahead(q, Len(q.headers) + 1) + 2
      BY PlaceSays
    <3> QED BY <1>3, <3>1
  <2>2. z = Want("BODY", w)
    <3>1. j = 5 + 2 * n => z = Want("BODY", w)
      BY DEF IsWanted
    <3> QED BY <1>3, <3>1
  <2>3. z.type = "BODY" /\ z.text = w
    BY <2>2 DEF Want
  <2>4. D \in Nat /\ D = Declared(q) /\ (t.index + D) - 1 <= l
    BY <1>3
  <2>5. u = SubSeq(q.body, 1, Least(D, Len(q.body))) \/ u = Front(SubSeq(q.body, 1, Least(D, Len(q.body))))
    <3> HIDE DEF D
    <3>1. t.len = D
      BY DEF D
    <3> QED BY <2>1, <2>4, <3>1, BodyExact DEF u, n
  <2>6. u = w \/ u = Front(w)
    BY <2>4, <2>5, Zenon
  <2> HIDE DEF w, u, D
  <2>7. u = z.text \/ u = Front(z.text)
    BY <2>3, <2>6, Zenon
  <2> QED BY <2>1, <2>3, <2>7, Zenon DEF IsExact, u
<1> QED BY <1>2, <1>3

(* So it is in every state.                                                *)
LEMMA StateExact ==
  ASSUME IInv, Places, Lengths
  PROVE  TokensExact
<1> DEFINE n == Len(request.headers)
           T == Len(tokens)
           want == Expected(request)
<1>1. request \in Requests /\ tokens \in Seq(TokenSet) /\ sent \in 0..Len(Stream) /\ BufferTyped(buffer)
  BY DEF IInv, Types
<1>2. n \in Nat /\ T \in Nat /\ DOMAIN tokens = 1..T
  BY <1>1, RequestParts, LenProperties
<1>3. Len(want) = 5 + 2 * n /\ \A j \in 1..5 + 2 * n : IsWanted(request, j, want[j])
  BY <1>1, ExpectedLaw
<1>4. T <= 5 + 2 * n /\ \A j \in 1..T : IsPlace(request, j, tokens[j])
  BY DEF Places, TokensPlaced
<1>5. T <= Len(want)
  BY <1>3, <1>4
<1>6. ASSUME pc \notin Ended, NEW j \in 1..T
      PROVE  /\ tokens[j].type = want[j].type
             /\ \/ TextRead(tokens[j]) = want[j].text
                \/ tokens[j].type = "BODY" /\ TextRead(tokens[j]) = Front(want[j].text)
  <2> DEFINE l == buffer.length
             t == tokens[j]
             z == want[j]
  <2>1. l \in 0..Len(TextOf[request])
    <3>1. l <= sent
      BY <1>6 DEF IInv, BufferFits
    <3>2. Len(TextOf[request]) \in Nat /\ l \in Nat
      BY <1>1, TextFits DEF BufferTyped
    <3> DEFINE m == Len(TextOf[request])
    <3>3. sent \in 0..m /\ m \in Nat /\ l \in Nat /\ l <= sent
      BY <1>1, <3>1, <3>2 DEF Stream
    <3> HIDE DEF l, m
    <3>4. l \in 0..m
      BY <3>3
    <3> QED BY <3>4 DEF m
  <2>2. t.type # "BODY" => t.index + t.len <= l
    BY <1>6 DEF Places, WithinRead
  <2>3. j \in Nat /\ 1 <= j /\ j <= 5 + 2 * n /\ j \in 1..5 + 2 * n
    BY <1>2, <1>4
  <2>4. j = 5 + 2 * n => t.len \in Nat /\ t.len = Declared(request) /\ (t.index + t.len) - 1 <= l
    <3> SUFFICES ASSUME j = 5 + 2 * n
                 PROVE  t.len \in Nat /\ t.len = Declared(request) /\ (t.index + t.len) - 1 <= l
      OBVIOUS
    <3>1. T = 5 + 2 * n /\ j = T
      <4>1. n \in Nat /\ T \in Nat /\ T <= 5 + 2 * n /\ j \in 1..T /\ j = 5 + 2 * n
        BY <1>2, <1>4
      <4> HIDE DEF n, T, l, t, z
      <4> QED BY <4>1
    <3>2. t.len = Declared(request) /\ (t.index + t.len) - 1 <= l
      BY <1>6, <3>1 DEF Lengths, BodyPlaced
    <3>3. t \in TokenSet
      BY <1>1, ElementOfSeq
    <3> QED BY <3>2, <3>3 DEF TokenSet
  <2>5. IsPlace(request, j, t) /\ IsWanted(request, j, z)
    BY <1>3, <1>4, <2>3
  <2>7. /\ j <= 5 + 2 * Len(request.headers)
        /\ j = 5 + 2 * Len(request.headers) =>
             t.len \in Nat /\ t.len = Declared(request) /\ (t.index + t.len) - 1 <= l
    BY <2>3, <2>4
  <2> HIDE DEF l, t, z
  <2>6. IsExact(request, t, z, l)
    BY <1>1, <2>1, <2>2, <2>3, <2>5, <2>7, TokenExact
  <2> QED BY <2>6, Zenon DEF IsExact, TextRead, Stream, l, t, z
<1> QED BY <1>2, <1>5, <1>6, Zenon DEF TokensExact, TextRead

(* In whatever pieces a request arrives, and however the buffer is grown   *)
(* in between, its tokens are those of its text, for every request whose   *)
(* parts are delimited and whose length is a number declared once.         *)
THEOREM TokensAreExact == Spec => [](Delimited(request) /\ Numbered(request) => TokensExact)
<1>1. IInv /\ PlacesInv /\ LengthsInv => (Delimited(request) /\ Numbered(request) => TokensExact)
  BY StateExact DEF PlacesInv, LengthsInv
<1> QED BY <1>1, PlacesAlways, LengthsAlways, Invariance, PTL
=============================================================================
