--------------------------- MODULE ResponseProofs ----------------------------
(***************************************************************************)
(* Lemmas about the texts of requests and responses, for any of them:      *)
(* FlattenSeq and the fold over printed pieces are worked out one piece at *)
(* a time, and a response whose head fits in the first buffer is exactly   *)
(* its pieces, one after the other.                                        *)
(***************************************************************************)
EXTENDS Exchange, FiniteSums, SequenceTheorems

-----------------------------------------------------------------------------
(* The beginnings that FlattenSeq builds.                                  *)
Joined(g, q, i) == IF i = 1 THEN q[i] ELSE g[i - 1] \o q[i]
IsFlat(g, q) == g = [i \in 1..Len(q) |-> Joined(g, q, i)]
Flat(q) == CHOOSE g : IsFlat(g, q)

(* The result is the last of them.                                         *)
LEMMA FlattenIsLast ==
  ASSUME NEW q
  PROVE  FlattenSeq(q) = IF Len(q) = 0 THEN q ELSE Flat(q)[Len(q)]
BY Zenon DEF FlattenSeq, Flat, IsFlat, Joined

(* They can be built, from the first to the last.                          *)
LEMMA FlatExists == ASSUME NEW q, Len(q) \in Nat PROVE IsFlat(Flat(q), q)
<1> DEFINE UpTo(g, n) == \A i \in 1..n : g[i] = Joined(g, q, i)
           Fills(n) == \E g : UpTo(g, n)
           Bad == {n \in Nat : ~Fills(n)}
<1>1. Fills(0)
  OBVIOUS
<1>2. ASSUME NEW n \in Nat, Fills(n) PROVE Fills(n + 1)
  <2>1. PICK g : UpTo(g, n)
    BY <1>2
  <2> DEFINE h == [i \in 1..n + 1 |-> IF i = n + 1 THEN Joined(g, q, i) ELSE g[i]]
  <2>2. \A i \in 1..n : h[i] = g[i]
    OBVIOUS
  <2>3. h[n + 1] = Joined(g, q, n + 1)
    OBVIOUS
  <2> HIDE DEF h
  <2>4. ASSUME NEW i \in 1..n + 1 PROVE h[i] = Joined(h, q, i)
    <3>1. i = 1 \/ (i - 1 \in 1..n /\ h[i - 1] = g[i - 1])
      BY <2>2
    <3>2. Joined(h, q, i) = Joined(g, q, i)
      BY <3>1 DEF Joined
    <3>3. i = n + 1 \/ i \in 1..n
      OBVIOUS
    <3> QED BY <2>1, <2>2, <2>3, <3>2, <3>3
  <2>5. UpTo(h, n + 1)
    BY <2>4
  <2> QED BY <2>5
<1>3. Bad = {}
  <2>1. SUFFICES ASSUME Bad # {} PROVE FALSE
    OBVIOUS
  <2> HIDE DEF Fills
  <2>2. PICK m \in Bad : \A n \in Bad : m <= n
    BY <2>1, LeastNumber
  <2>3. m # 0 /\ m - 1 \in Nat /\ m - 1 \notin Bad
    BY <1>1, <2>2
  <2> QED BY <1>2, <2>2, <2>3
<1>4. PICK g : UpTo(g, Len(q))
  BY <1>3
<1> DEFINE h == [i \in 1..Len(q) |-> g[i]]
<1>5. \A i \in 1..Len(q) : g[i] = Joined(h, q, i)
  <2>1. TAKE i \in 1..Len(q)
  <2>2. i = 1 \/ i - 1 \in 1..Len(q)
    OBVIOUS
  <2>3. Joined(h, q, i) = Joined(g, q, i)
    BY <2>2 DEF Joined
  <2> QED BY <1>4, <2>3
<1>6. IsFlat(h, q)
  BY <1>5 DEF IsFlat
<1> QED BY <1>6 DEF Flat

(* Each is the one before and the next of the sequences, and a sequence.   *)
LEMMA FlatLaw ==
  ASSUME NEW S, NEW q \in Seq(Seq(S)), NEW i \in 1..Len(q)
  PROVE  Flat(q)[i] = Joined(Flat(q), q, i) /\ Flat(q)[i] \in Seq(S)
<1>1. Len(q) \in Nat /\ \A j \in 1..Len(q) : q[j] \in Seq(S)
  BY ElementOfSeq, LenProperties
<1> DEFINE g == Flat(q)
<1>2. \A j \in 1..Len(q) : g[j] = Joined(g, q, j)
  <2>1. IsFlat(g, q)
    BY <1>1, FlatExists
  <2> HIDE DEF g
  <2>2. g = [j \in 1..Len(q) |-> Joined(g, q, j)]
    BY <2>1 DEF IsFlat
  <2> DEFINE J(j) == Joined(g, q, j)
  <2>3. g = [j \in 1..Len(q) |-> J(j)]
    BY <2>2
  <2> HIDE DEF J
  <2>4. \A j \in 1..Len(q) : g[j] = J(j)
    BY <2>3
  <2> QED BY <2>4 DEF J
<1> HIDE DEF g
<1> DEFINE Bad == {j \in Nat : j \in 1..Len(q) /\ g[j] \notin Seq(S)}
<1>3. Bad = {}
  <2>1. SUFFICES ASSUME Bad # {} PROVE FALSE
    OBVIOUS
  <2>2. PICK m \in Bad : \A n \in Bad : m <= n
    BY <2>1, LeastNumber
  <2>3. CASE m = 1
    BY <1>1, <1>2, <2>2, <2>3 DEF Joined
  <2>4. CASE m # 1
    <3>1. m - 1 \in 1..Len(q) /\ m - 1 \notin Bad
      BY <1>1, <2>2, <2>4
    <3>2. m \in 1..Len(q) /\ m - 1 \in Nat
      BY <2>2, <3>1
    <3>3. g[m - 1] \in Seq(S)
      BY <3>1, <3>2
    <3>4. g[m] = g[m - 1] \o q[m]
      BY <1>2, <2>4, <3>2 DEF Joined
    <3>5. q[m] \in Seq(S)
      BY <1>1, <3>2
    <3>6. g[m] \in Seq(S)
      BY <3>3, <3>4, <3>5, ConcatProperties
    <3> QED BY <2>2, <3>6
  <2> QED BY <2>3, <2>4
<1> QED BY <1>1, <1>2, <1>3 DEF g

(* Sequences that begin in the same way are flattened in the same way.     *)
LEMMA FlatAgrees ==
  ASSUME NEW S, NEW p \in Seq(Seq(S)), NEW q \in Seq(Seq(S)), NEW n \in Nat,
         n <= Len(p), n <= Len(q), \A i \in 1..n : p[i] = q[i]
  PROVE  \A i \in 1..n : Flat(p)[i] = Flat(q)[i]
<1> DEFINE Differ(i) == Flat(p)[i] # Flat(q)[i]
           Bad == {i \in Nat : i \in 1..n /\ Differ(i)}
<1>1. SUFFICES ASSUME Bad # {} PROVE FALSE
  <2> HIDE DEF Differ
  <2>1. \A i \in 1..n : i \in Nat
    OBVIOUS
  <2>2. \A i \in 1..n : ~Differ(i)
    BY <2>1
  <2> QED BY <2>2 DEF Differ
<1>2. PICK m \in Bad : \A i \in Bad : m <= i
  <2> HIDE DEF Differ
  <2> QED BY <1>1, LeastNumber
<1>3. m \in 1..Len(p) /\ m \in 1..Len(q)
  BY <1>2, LenProperties
<1>4. Flat(p)[m] = Joined(Flat(p), p, m) /\ Flat(q)[m] = Joined(Flat(q), q, m)
  BY <1>3, FlatLaw
<1>5. m = 1 \/ (m - 1 \in 1..n /\ m - 1 \notin Bad)
  BY <1>2
<1> QED BY <1>2, <1>4, <1>5 DEF Joined

(* What FlattenSeq makes is a sequence; and it ends with the last of its   *)
(* sequences.                                                              *)
LEMMA FlattenFits ==
  ASSUME NEW S, NEW q \in Seq(Seq(S))
  PROVE  /\ FlattenSeq(q) \in Seq(S) /\ FlattenSeq(<<>>) = <<>>
         /\ \A s \in Seq(S) : FlattenSeq(Append(q, s)) = FlattenSeq(q) \o s
<1>1. Len(q) \in Nat
  BY LenProperties
<1>2. FlattenSeq(<<>>) = <<>>
  BY FlattenIsLast
<1>3. FlattenSeq(q) \in Seq(S)
  <2>1. CASE Len(q) = 0
    BY <1>2, <2>1, EmptySeq
  <2>2. CASE Len(q) # 0
    <3>1. Len(q) \in 1..Len(q)
      BY <1>1, <2>2
    <3> QED BY <2>2, <3>1, FlatLaw, FlattenIsLast
  <2> QED BY <2>1, <2>2
<1>4. ASSUME NEW s \in Seq(S) PROVE FlattenSeq(Append(q, s)) = FlattenSeq(q) \o s
  <2> DEFINE p == Append(q, s)
             n == Len(q)
  <2>1. /\ p \in Seq(Seq(S)) /\ Len(p) = n + 1 /\ p[n + 1] = s
        /\ \A i \in 1..n : p[i] = q[i]
    BY AppendProperties
  <2>2. n \in Nat
    BY <1>1
  <2> HIDE DEF p, n
  <2>3. n + 1 \in 1..Len(p) /\ n <= Len(p) /\ n <= n
    BY <2>1, <2>2
  <2>4. FlattenSeq(p) = Joined(Flat(p), p, n + 1)
    BY <2>1, <2>2, <2>3, FlatLaw, FlattenIsLast
  <2>5. CASE n = 0
    <3>1. FlattenSeq(p) = s
      BY <2>1, <2>4, <2>5 DEF Joined
    <3>2. q = <<>>
      BY <2>5, EmptySeq DEF n
    <3>3. <<>> \o s = s
      BY ConcatEmptySeq
    <3> QED BY <1>2, <3>1, <3>2, <3>3 DEF p
  <2>6. CASE n # 0
    <3>1. n \in 1..n /\ (n + 1) - 1 = n /\ n + 1 # 1
      BY <2>2, <2>6
    <3>2. Flat(p)[n] = Flat(q)[n]
      <4>1. n <= Len(q)
        BY <2>3 DEF n
      <4> QED BY <2>1, <2>2, <2>3, <3>1, <4>1, FlatAgrees
    <3>3. FlattenSeq(q) = Flat(q)[n]
      BY <2>6, FlattenIsLast DEF n
    <3> QED BY <2>1, <2>4, <3>1, <3>2, <3>3 DEF Joined, p
  <2> QED BY <2>5, <2>6
<1> QED BY <1>2, <1>3, <1>4

-----------------------------------------------------------------------------
(* The folds of a response.                                                *)

Name == STRING \cup {"junk", "nul", "stray", "status", "length", "blank", "body", "keep-alive", "close", ""}
Piece == [of : Name, len : Nat]

(* The tables that FoldLeft makes of the pieces that are printed, and of   *)
(* the body that is copied: an entry for every set of places.              *)
PrintNext(again, g, seq, U) ==
  IF U = {} THEN R!GrwInit ELSE R!Grwprintf(again, g[U \ {Max(U)}], seq[Max(U)])
IsPrinted(g, again, seq) == g = [U \in SUBSET DOMAIN seq |-> PrintNext(again, g, seq, U)]
Printed(again, seq) == CHOOSE g : IsPrinted(g, again, seq)

CopyNext(o, g, seq, U) ==
  IF U = {} THEN o ELSE R!Grwmemcpy(g[U \ {Max(U)}], seq[Max(U)])
IsCopied(g, o, seq) == g = [U \in SUBSET DOMAIN seq |-> CopyNext(o, g, seq, U)]
Copied(o, seq) == CHOOSE g : IsCopied(g, o, seq)

(* The response is what these make of its head, and then of its body.      *)
LEMMA SerializeIsEntry ==
  ASSUME NEW r, NEW c, NEW again
  PROVE  LET head == Printed(again, R!HeadPieces(r, c))[DOMAIN R!HeadPieces(r, c)]
         IN  R!Serialize(r, c, again) = Copied(head, R!BodyPieces(r))[DOMAIN R!BodyPieces(r)]
BY Zenon DEF R!Serialize, R!FoldLeft, R!MapThenFoldSet, R!Max, Max, Printed, IsPrinted, PrintNext,
             Copied, IsCopied, CopyNext

(* Places of a sequence have a last one, and the first k of them have k.   *)
LEMMA LastPlace ==
  ASSUME NEW n \in Nat
  PROVE  /\ \A U \in SUBSET (1..n) : U # {} => Max(U) \in U
         /\ \A k \in 1..n : Max(1..k) = k /\ (1..k) \ {k} = 1..k - 1
<1>1. ASSUME NEW U \in SUBSET (1..n), U # {} PROVE Max(U) \in U
  <2> DEFINE Above == {k \in Nat : \A u \in U : u <= k}
  <2>1. n \in Above
    OBVIOUS
  <2>2. PICK m \in Above : \A k \in Above : m <= k
    <3>1. Above \in SUBSET Nat /\ Above # {}
      BY <2>1
    <3> HIDE DEF Above
    <3> QED BY <3>1, LeastNumber
  <2>3. m \in U
    <3>1. SUFFICES ASSUME m \notin U PROVE FALSE
      OBVIOUS
    <3>2. \A u \in U : u \in Nat /\ 1 <= u /\ u <= m - 1
      <4>1. TAKE u \in U
      <4>2. u \in 1..n /\ u <= m /\ u # m /\ m \in Nat
        BY <2>2, <3>1, <4>1
      <4> QED BY <4>2
    <3>3. m \in Nat /\ m - 1 \in Nat
      <4>1. PICK u \in U : TRUE
        BY <1>1
      <4>2. u \in Nat /\ 1 <= u /\ u <= m - 1 /\ m \in Nat
        BY <2>2, <3>2, <4>1
      <4> QED BY <4>2
    <3>4. m - 1 \in Above
      BY <3>2, <3>3
    <3> QED BY <2>2, <3>3, <3>4
  <2>4. \A u \in U : m >= u
    BY <2>2
  <2> QED BY <2>3, <2>4 DEF Max
<1>2. ASSUME NEW k \in 1..n PROVE Max(1..k) = k /\ (1..k) \ {k} = 1..k - 1
  <2>1. k \in 1..k /\ \A y \in 1..k : k >= y
    OBVIOUS
  <2>2. Max(1..k) \in 1..k /\ \A y \in 1..k : Max(1..k) >= y
    BY <2>1 DEF Max
  <2> DEFINE m == Max(1..k)
  <2>3. m \in 1..k /\ m >= k
    BY <2>1, <2>2
  <2> HIDE DEF m
  <2>4. m = k
    BY <2>3
  <2>5. (1..k) \ {k} = 1..k - 1
    OBVIOUS
  <2> QED BY <2>4, <2>5 DEF m
<1> QED BY <1>1, <1>2

(* The table of what is printed can be filled in by the size of the sets.  *)
LEMMA PrintedExists ==
  ASSUME NEW again, NEW seq, NEW n \in Nat, DOMAIN seq = 1..n
  PROVE  IsPrinted(Printed(again, seq), again, seq)
<1> DEFINE UpTo(g, m) ==
             \A U \in SUBSET (1..n) : Cardinality(U) <= m => g[U] = PrintNext(again, g, seq, U)
           Fills(m) == \E g : UpTo(g, m)
           Bad == {m \in Nat : ~Fills(m)}
<1>1. \A U \in SUBSET (1..n) : /\ IsFiniteSet(U) /\ Cardinality(U) \in Nat
                               /\ Cardinality(U) <= Cardinality(1..n)
  <2>1. IsFiniteSet(1..n)
    BY FS_Interval
  <2> QED BY <2>1, FS_Subset, FS_CardinalityType
<1>2. Fills(0)
  <2>1. UpTo([U \in SUBSET (1..n) |-> R!GrwInit], 0)
    BY <1>1, FS_EmptySet DEF PrintNext
  <2> QED BY <2>1
<1>3. ASSUME NEW m \in Nat, Fills(m) PROVE Fills(m + 1)
  <2>1. PICK g : UpTo(g, m)
    BY <1>3
  <2> DEFINE h == [U \in SUBSET (1..n) |-> PrintNext(again, g, seq, U)]
  <2>2. SUFFICES ASSUME NEW U \in SUBSET (1..n), Cardinality(U) <= m + 1, U # {}
                 PROVE  h[U \ {Max(U)}] = g[U \ {Max(U)}]
    <3>1. UpTo(h, m + 1)
      BY <2>2 DEF PrintNext
    <3> QED BY <3>1
  <2>3. Max(U) \in U
    BY <2>2, LastPlace
  <2>4. Cardinality(U \ {Max(U)}) = Cardinality(U) - 1
    BY <2>2, <2>3, <1>1, FS_RemoveElement
  <2>5. Cardinality(U \ {Max(U)}) <= m /\ U \ {Max(U)} \in SUBSET (1..n)
    <3> DEFINE V == U \ {Max(U)}
               c == Cardinality(U)
               d == Cardinality(V)
    <3>1. c \in Nat /\ c <= m + 1 /\ d = c - 1
      BY <1>1, <2>2, <2>4
    <3>2. V \in SUBSET (1..n)
      OBVIOUS
    <3> HIDE DEF c, d
    <3>3. d <= m
      BY <3>1
    <3> QED BY <3>2, <3>3 DEF d
  <2> HIDE DEF h
  <2>6. h[U \ {Max(U)}] = PrintNext(again, g, seq, U \ {Max(U)})
    BY <2>5 DEF h
  <2> QED BY <2>1, <2>5, <2>6
<1>4. Bad = {}
  <2>1. SUFFICES ASSUME Bad # {} PROVE FALSE
    OBVIOUS
  <2> HIDE DEF Fills
  <2>2. PICK m \in Bad : \A k \in Bad : m <= k
    BY <2>1, LeastNumber
  <2>3. m # 0 /\ m - 1 \in Nat /\ m - 1 \notin Bad
    BY <1>2, <2>2
  <2> QED BY <1>3, <2>2, <2>3
<1>5. PICK g : UpTo(g, Cardinality(1..n))
  BY <1>1, <1>4
<1>6. IsPrinted([U \in SUBSET (1..n) |-> g[U]], again, seq)
  <2>1. ASSUME NEW U \in SUBSET (1..n)
        PROVE  g[U] = PrintNext(again, [V \in SUBSET (1..n) |-> g[V]], seq, U)
    <3>1. g[U] = PrintNext(again, g, seq, U)
      BY <1>1, <1>5
    <3>2. U \ {Max(U)} \in SUBSET (1..n)
      OBVIOUS
    <3> QED BY <3>1, <3>2 DEF PrintNext
  <2> QED BY <2>1 DEF IsPrinted
<1> QED BY <1>6 DEF Printed

(* What is printed after k pieces.                                         *)
PrintedTo(again, seq, k) == Printed(again, seq)[1..k]

(* It is one piece more than after k - 1.                                  *)
LEMMA PrintLaw ==
  ASSUME NEW again, NEW seq, NEW n \in Nat, DOMAIN seq = 1..n
  PROVE  /\ PrintedTo(again, seq, 0) = R!GrwInit
         /\ \A k \in 1..n :
              PrintedTo(again, seq, k) = R!Grwprintf(again, PrintedTo(again, seq, k - 1), seq[k])
<1> DEFINE g == Printed(again, seq)
           P(U) == PrintNext(again, g, seq, U)
<1>1. \A U \in SUBSET (1..n) : g[U] = P(U)
  <2>1. IsPrinted(g, again, seq)
    BY PrintedExists
  <2>2. g = [U \in SUBSET (1..n) |-> P(U)]
    BY <2>1 DEF IsPrinted
  <2> HIDE DEF P, g
  <2> QED BY <2>2
<1> HIDE DEF g
<1>2. g[1..0] = R!GrwInit
  <2>1. 1..0 = {}
    OBVIOUS
  <2> QED BY <1>1, <2>1 DEF PrintNext
<1>3. ASSUME NEW k \in 1..n PROVE g[1..k] = R!Grwprintf(again, g[1..k - 1], seq[k])
  <2>1. 1..k \in SUBSET (1..n) /\ 1..k # {}
    <3>1. k \in 1..k /\ \A i \in 1..k : i \in 1..n
      OBVIOUS
    <3> QED BY <3>1
  <2>2. Max(1..k) = k /\ (1..k) \ {k} = 1..k - 1
    BY LastPlace
  <2> QED BY <1>1, <2>1, <2>2 DEF PrintNext
<1> QED BY <1>2, <1>3 DEF PrintedTo, g

(* The body, which has one piece or none, is copied behind.                *)
LEMMA CopyLaw ==
  ASSUME NEW o, NEW seq, NEW n \in {0, 1}, DOMAIN seq = 1..n
  PROVE  Copied(o, seq)[DOMAIN seq] = IF n = 0 THEN o ELSE R!Grwmemcpy(o, seq[1])
<1> DEFINE g == [U \in SUBSET (1..n) |-> IF U = {} THEN o ELSE R!Grwmemcpy(o, seq[1])]
<1>1. ASSUME NEW U \in SUBSET (1..n), U # {} PROVE Max(U) = 1 /\ U \ {Max(U)} = {}
  <2>1. Max(U) \in U /\ n \in Nat
    BY <1>1, LastPlace
  <2>2. \A u \in U : u = 1
    BY <1>1
  <2> QED BY <2>1, <2>2
<1>2. g[{}] = o /\ \A U \in SUBSET (1..n) : U # {} => g[U] = R!Grwmemcpy(o, seq[1])
  OBVIOUS
<1>3. DOMAIN g = SUBSET (1..n) /\ \A U \in SUBSET (1..n) : g[U] = CopyNext(o, g, seq, U)
  <2> DEFINE h == g
  <2>1. DOMAIN h = SUBSET (1..n)
    OBVIOUS
  <2>2. h[{}] = o /\ \A U \in SUBSET (1..n) : U # {} => h[U] = R!Grwmemcpy(o, seq[1])
    BY <1>2
  <2> HIDE DEF g, h
  <2>3. ASSUME NEW U \in SUBSET (1..n) PROVE h[U] = CopyNext(o, h, seq, U)
    BY <1>1, <2>2 DEF CopyNext
  <2> QED BY <2>1, <2>3 DEF h
<1>4. \E h : IsCopied(h, o, seq)
  <2>1. g = [U \in SUBSET (1..n) |-> g[U]]
    OBVIOUS
  <2> HIDE DEF g
  <2>2. IsCopied(g, o, seq)
    BY <1>3, <2>1 DEF IsCopied
  <2> QED BY <2>2
<1> DEFINE c == Copied(o, seq)
           C(U) == CopyNext(o, c, seq, U)
<1>5. \A U \in SUBSET (1..n) : c[U] = C(U)
  <2>1. IsCopied(c, o, seq)
    BY <1>4 DEF Copied
  <2>2. c = [U \in SUBSET (1..n) |-> C(U)]
    BY <2>1 DEF IsCopied
  <2> HIDE DEF C, c
  <2> QED BY <2>2
<1> HIDE DEF c
<1>6. c[{}] = o
  BY <1>5 DEF CopyNext
<1>7. CASE n = 0
  <2>1. 1..n = {}
    BY <1>7
  <2> QED BY <1>6, <1>7, <2>1 DEF c
<1>8. CASE n = 1
  <2>1. 1..n # {} /\ 1..n \in SUBSET (1..n)
    BY <1>8
  <2>2. c[1..n] = R!Grwmemcpy(o, seq[1])
    BY <1>1, <1>5, <1>6, <2>1 DEF CopyNext
  <2> QED BY <1>8, <2>2 DEF c
<1> QED BY <1>7, <1>8

-----------------------------------------------------------------------------
(* What each of the calls does to the buffer.                              *)
Out == [buf : Seq(Name), size : Nat, overrun : BOOLEAN]

(* The shorter of two lengths.                                             *)
LEMMA ShorterFits ==
  ASSUME NEW a \in Int, NEW b \in Int
  PROVE  /\ R!Shorter(a, b) \in {a, b} /\ R!Shorter(a, b) <= a /\ R!Shorter(a, b) <= b
         /\ (a < b => R!Shorter(a, b) = a)
BY DEF R!Shorter

(* n copies of a name.                                                     *)
LEMMA CopiesFit ==
  ASSUME NEW S, NEW of \in S, NEW n \in Nat
  PROVE  /\ R!Copies(of, n) \in Seq(S) /\ Len(R!Copies(of, n)) = n
         /\ \A i \in 1..n : R!Copies(of, n)[i] = of
<1> DEFINE c == [i \in 1..n |-> of]
<1>1. c \in Seq(S) /\ Len(c) = n
  OBVIOUS
<1>2. R!Copies(of, n) = c
  BY DEF R!Copies
<1> QED BY <1>1, <1>2

(* A text that lies over part of a buffer leaves the rest as it was.       *)
LEMMA OverlayFits ==
  ASSUME NEW b \in Seq(Name), NEW n \in Nat, NEW t \in Seq(Name), n + Len(t) <= Len(b)
  PROVE  /\ R!Overlay(b, n, t) \in Seq(Name) /\ Len(R!Overlay(b, n, t)) = Len(b)
         /\ \A i \in 1..n : R!Overlay(b, n, t)[i] = b[i]
         /\ \A i \in 1..Len(t) : R!Overlay(b, n, t)[n + i] = t[i]
<1> DEFINE L == Len(b)
           k == Len(t)
           x == SubSeq(b, 1, n)
           z == SubSeq(b, n + k + 1, L)
<1>1. L \in Nat /\ k \in Nat /\ n + k <= L /\ \A i \in 1..L : b[i] \in Name
  BY LenProperties, ElementOfSeq
<1>2. x \in Seq(Name) /\ Len(x) = n /\ \A i \in 1..n : x[i] = b[i]
  <2> HIDE DEF L, k
  <2>1. \A i \in 1..n : b[i] \in Name
    BY <1>1
  <2>2. /\ x \in Seq(Name) /\ Len(x) = IF 1 <= n THEN n - 1 + 1 ELSE 0
        /\ \A i \in 1..n - 1 + 1 : x[i] = b[1 + i - 1]
    BY <2>1, SubSeqProperties
  <2> HIDE DEF x
  <2> QED BY <2>2
<1>3. z \in Seq(Name) /\ Len(z) = L - (n + k)
  <2> DEFINE m == n + k + 1
  <2>1. m \in Int /\ L \in Int /\ \A i \in m..L : b[i] \in Name
    <3> HIDE DEF L, k
    <3> QED BY <1>1
  <2> HIDE DEF m, L, k
  <2>2. SubSeq(b, m, L) \in Seq(Name) /\ Len(SubSeq(b, m, L)) = IF m <= L THEN L - m + 1 ELSE 0
    BY <2>1, SubSeqProperties
  <2> QED BY <1>1, <2>2 DEF m
<1> DEFINE y == x \o t
<1>4. R!Overlay(b, n, t) = y \o z
  BY DEF R!Overlay
<1>5. /\ y \in Seq(Name) /\ Len(y) = n + k
      /\ \A i \in 1..n + k : y[i] = IF i <= n THEN x[i] ELSE t[i - n]
  <2> HIDE DEF x
  <2> QED BY <1>2, ConcatProperties
<1>6. /\ y \o z \in Seq(Name) /\ Len(y \o z) = L
      /\ \A i \in 1..n + k : (y \o z)[i] = y[i]
  <2> HIDE DEF y, z, L, k
  <2>1. /\ y \o z \in Seq(Name) /\ Len(y \o z) = Len(y) + Len(z)
        /\ \A i \in 1..Len(y) + Len(z) : (y \o z)[i] = IF i <= Len(y) THEN y[i] ELSE z[i - Len(y)]
    <3>1. y \in Seq(Name) /\ z \in Seq(Name)
      BY <1>3, <1>5
    <3> QED BY <3>1, ConcatProperties
  <2> QED BY <1>1, <1>3, <1>5, <2>1
<1> HIDE DEF x, y, z, L, k
<1>7. \A i \in 1..n : (y \o z)[i] = b[i]
  BY <1>1, <1>2, <1>5, <1>6
<1>8. \A i \in 1..k : (y \o z)[n + i] = t[i]
  <2>1. TAKE i \in 1..k
  <2>2. n + i \in 1..n + k /\ ~(n + i <= n) /\ (n + i) - n = i
    BY <1>1
  <2> QED BY <1>5, <1>6, <2>2
<1> QED BY <1>4, <1>6, <1>7, <1>8 DEF L, k

(* The names that the code itself writes.                                  *)
LEMMA NamesFit ==
  /\ "junk" \in Name /\ "nul" \in Name /\ "stray" \in Name
  /\ "status" \in Name /\ "length" \in Name /\ "blank" \in Name /\ "body" \in Name
  /\ "keep-alive" \in Name /\ "close" \in Name /\ "" \in Name
BY DEF Name

(* The buffer is made with anything in it.                                 *)
LEMMA GrwInitFits == R!GrwInit \in Out /\ Len(R!GrwInit.buf) = ResponseBufSize
<1> DEFINE b == R!Copies("junk", ResponseBufSize)
<1>1. b \in Seq(Name) /\ Len(b) = ResponseBufSize
  BY NamesFit, CopiesFit, ResponseBufSizeAssumption
<1>2. R!GrwInit = [buf |-> b, size |-> 0, overrun |-> FALSE]
  BY DEF R!GrwInit
<1> HIDE DEF b
<1> QED BY <1>1, <1>2 DEF Out

(* vsnprintf writes what fits and an end, and changes nothing else, unless *)
(* it is told of less than no room.                                        *)
LEMMA VsnprintfFits ==
  ASSUME NEW o \in Out, NEW piece \in Piece
  PROVE  LET done == R!Vsnprintf(o, piece)
         IN  /\ done \in Out /\ Len(done.buf) = Len(o.buf) /\ done.size = o.size
             /\ o.size + piece.len < Len(o.buf) =>
                  /\ done.overrun = o.overrun
                  /\ \A i \in 1..o.size : done.buf[i] = o.buf[i]
                  /\ \A i \in 1..piece.len : done.buf[o.size + i] = piece.of
<1> DEFINE b == o.buf
           n == o.size
           room == Len(b) - n
           k == R!Shorter(piece.len, room - 1)
           text == R!Copies(piece.of, k) \o <<"nul">>
           full == R!Overlay(b, n, text)
           done == R!Vsnprintf(o, piece)
<1>1. /\ b \in Seq(Name) /\ Len(b) \in Nat /\ n \in Nat /\ o.overrun \in BOOLEAN
      /\ piece.of \in Name /\ piece.len \in Nat
  BY LenProperties DEF Out, Piece
<1>2. done = IF room < 0 THEN [o EXCEPT !.overrun = TRUE]
             ELSE IF room = 0 THEN o ELSE [o EXCEPT !.buf = full]
  BY DEF R!Vsnprintf
<1>3. CASE room < 0
  <2>1. done = [o EXCEPT !.overrun = TRUE]
    BY <1>2, <1>3
  <2>2. done \in Out /\ done.buf = b /\ done.size = n
    BY <2>1 DEF Out
  <2>3. ~(n + piece.len < Len(b))
    BY <1>1, <1>3
  <2> QED BY <2>2, <2>3
<1>4. CASE room = 0
  <2>1. done = o
    BY <1>2, <1>4
  <2>2. ~(n + piece.len < Len(b))
    BY <1>1, <1>4
  <2> QED BY <2>1, <2>2
<1>5. CASE room > 0
  <2>1. room \in Nat /\ room - 1 \in Nat /\ piece.len \in Nat
    BY <1>1, <1>5
  <2>2. k \in Nat /\ k <= room - 1 /\ (n + piece.len < Len(b) => k = piece.len)
    <3>1. /\ k \in {piece.len, room - 1} /\ k <= room - 1 /\ k <= piece.len
          /\ (piece.len < room - 1 => k = piece.len)
      <4>1. piece.len \in Int /\ room - 1 \in Int
        BY <2>1
      <4> QED BY <4>1, ShorterFits
    <3> HIDE DEF k
    <3> QED BY <1>1, <2>1, <3>1
  <2>3. /\ text \in Seq(Name) /\ Len(text) = k + 1
        /\ \A i \in 1..k : text[i] = piece.of
    <3> DEFINE t == R!Copies(piece.of, k)
    <3>1. t \in Seq(Name) /\ Len(t) = k /\ \A i \in 1..k : t[i] = piece.of
      <4>1. piece.of \in Name /\ k \in Nat
        BY <1>1, <2>2
      <4> HIDE DEF k
      <4> QED BY <4>1, CopiesFit
    <3>2. <<"nul">> \in Seq(Name) /\ Len(<<"nul">>) = 1
      <4>1. \A e \in Name : <<e>> \in Seq(Name) /\ Len(<<e>>) = 1
        OBVIOUS
      <4> QED BY <4>1, NamesFit
    <3> HIDE DEF t, k
    <3> DEFINE u == <<"nul">>
    <3> HIDE DEF u
    <3>3. /\ t \o u \in Seq(Name) /\ Len(t \o u) = k + 1
          /\ \A i \in 1..k + 1 : (t \o u)[i] = IF i <= k THEN t[i] ELSE u[i - k]
      BY <3>1, <3>2, ConcatProperties DEF u
    <3>4. \A i \in 1..k : (t \o u)[i] = t[i]
      BY <2>2, <3>3
    <3> QED BY <3>1, <3>3, <3>4 DEF t, u
  <2> HIDE DEF text, k
  <2>4. n + Len(text) <= Len(b)
    BY <1>1, <2>1, <2>2, <2>3
  <2>5. /\ full \in Seq(Name) /\ Len(full) = Len(b)
        /\ \A i \in 1..n : full[i] = b[i]
        /\ \A i \in 1..Len(text) : full[n + i] = text[i]
    BY <1>1, <2>3, <2>4, OverlayFits
  <2> HIDE DEF full
  <2>6. done = [o EXCEPT !.buf = full]
    BY <1>2, <1>5, <2>1
  <2> HIDE DEF done
  <2>7. done \in Out /\ done.buf = full /\ done.size = n /\ done.overrun = o.overrun
    BY <2>5, <2>6 DEF Out
  <2>8. \A i \in 1..k : full[n + i] = piece.of
    <3>1. \A i \in 1..k : i \in 1..Len(text)
      BY <2>2, <2>3
    <3> QED BY <2>3, <2>5, <3>1
  <2> QED BY <2>2, <2>5, <2>7, <2>8 DEF done
<1> QED BY <1>1, <1>3, <1>4, <1>5

(* The doubling of Doubled: it ends for every size but zero.               *)
Twice(g, n, c) == IF c >= n THEN c ELSE g[2 * c]
IsGrown(g, n) == g = [c \in Nat |-> Twice(g, n, c)]
GrownTo(n) == CHOOSE g : IsGrown(g, n)

(* Such a function exists: it is filled in from n downwards.               *)
LEMMA GrownExists == ASSUME NEW n \in Nat PROVE IsGrown(GrownTo(n), n)
<1> DEFINE Upward(g, m) == \A c \in Nat : c >= 1 /\ c + m >= n => g[c] = Twice(g, n, c)
           Fills(m) == \E g : Upward(g, m)
           Bad == {m \in Nat : ~Fills(m)}
<1>1. Fills(0)
  <2> DEFINE id == [c \in Nat |-> c]
  <2>1. \A c \in Nat : id[c] = c
    OBVIOUS
  <2> HIDE DEF id
  <2>2. Upward(id, 0)
    BY <2>1 DEF Twice
  <2> QED BY <2>2
<1>2. ASSUME NEW m \in Nat, Fills(m) PROVE Fills(m + 1)
  <2>1. PICK g : Upward(g, m)
    BY <1>2
  <2> DEFINE h == [c \in Nat |-> IF c + m >= n THEN g[c] ELSE g[2 * c]]
  <2>2. \A c \in Nat : h[c] = IF c + m >= n THEN g[c] ELSE g[2 * c]
    OBVIOUS
  <2> HIDE DEF h
  <2>3. ASSUME NEW c \in Nat, c >= 1, c + (m + 1) >= n PROVE h[c] = Twice(h, n, c)
    <3>1. 2 * c \in Nat /\ 2 * c + m >= n
      BY <2>3
    <3>2. h[2 * c] = g[2 * c]
      BY <2>2, <3>1
    <3>3. CASE c + m >= n
      BY <2>1, <2>2, <2>3, <3>2, <3>3 DEF Twice
    <3>4. CASE ~(c + m >= n)
      <4>1. ~(c >= n)
        BY <3>4
      <4> QED BY <2>2, <3>2, <3>4, <4>1 DEF Twice
    <3> QED BY <3>3, <3>4
  <2>4. Upward(h, m + 1)
    BY <2>3
  <2> QED BY <2>4
<1>3. Bad = {}
  <2>1. SUFFICES ASSUME Bad # {} PROVE FALSE
    OBVIOUS
  <2> HIDE DEF Fills
  <2>2. PICK m \in Bad : \A k \in Bad : m <= k
    BY <2>1, LeastNumber
  <2>3. m # 0 /\ m - 1 \in Nat /\ m - 1 \notin Bad
    BY <1>1, <2>2
  <2> QED BY <1>2, <2>2, <2>3
<1>4. PICK g : Upward(g, n)
  BY <1>3
<1> DEFINE h == [c \in Nat |-> IF c = 0 THEN 0 ELSE g[c]]
<1>5. \A c \in Nat : h[c] = IF c = 0 THEN 0 ELSE g[c]
  OBVIOUS
<1>6. h = [c \in Nat |-> h[c]]
  OBVIOUS
<1> HIDE DEF h
<1>7. ASSUME NEW c \in Nat PROVE h[c] = Twice(h, n, c)
  <2>1. CASE c = 0
    <3>1. 2 * c = c
      BY <2>1
    <3> QED BY <1>5, <2>1, <3>1 DEF Twice
  <2>2. CASE c # 0
    <3>1. c >= 1 /\ c + n >= n /\ 2 * c \in Nat /\ 2 * c # 0
      BY <2>2
    <3>2. g[c] = Twice(g, n, c)
      BY <1>4, <3>1
    <3> QED BY <1>5, <2>2, <3>1, <3>2 DEF Twice
  <2> QED BY <2>1, <2>2
<1>8. IsGrown(h, n)
  BY <1>6, <1>7 DEF IsGrown
<1> QED BY <1>8 DEF GrownTo

(* It never makes a buffer shorter.                                        *)
LEMMA GrownFits ==
  ASSUME NEW n \in Nat, NEW c \in Nat, c >= 1
  PROVE  GrownTo(n)[c] \in Nat /\ GrownTo(n)[c] >= c
<1> DEFINE g == GrownTo(n)
           T(b) == Twice(g, n, b)
<1>1. \A b \in Nat : g[b] = T(b)
  <2>1. IsGrown(g, n)
    BY GrownExists
  <2>2. g = [b \in Nat |-> T(b)]
    BY <2>1 DEF IsGrown
  <2> HIDE DEF T, g
  <2> QED BY <2>2
<1> HIDE DEF g
<1>2. \A b \in Nat : g[b] = IF b >= n THEN b ELSE g[2 * b]
  BY <1>1 DEF Twice
<1> DEFINE Good(b) == g[b] \in Nat /\ g[b] >= b
           Bad == {m \in Nat : \E b \in Nat : b >= 1 /\ b + m >= n /\ ~Good(b)}
<1>3. Bad = {}
  <2>1. SUFFICES ASSUME Bad # {} PROVE FALSE
    OBVIOUS
  <2>2. PICK m \in Bad : \A k \in Bad : m <= k
    <3> HIDE DEF Good
    <3> QED BY <2>1, LeastNumber
  <2>3. PICK b \in Nat : b >= 1 /\ b + m >= n /\ ~Good(b)
    BY <2>2
  <2>4. ~(b >= n)
    BY <1>2, <2>3
  <2>5. m - 1 \in Nat /\ 2 * b \in Nat /\ 2 * b >= 1 /\ 2 * b + (m - 1) >= n
    <3>1. m \in Nat
      BY <2>2
    <3> QED BY <2>3, <2>4, <3>1
  <2>6. m - 1 \notin Bad
    <3>1. m \in Nat
      BY <2>2
    <3> HIDE DEF Bad
    <3>2. m - 1 \in Bad => m <= m - 1
      BY <2>2
    <3> QED BY <3>1, <3>2
  <2>7. Good(2 * b)
    <3> HIDE DEF Good
    <3> QED BY <2>5, <2>6
  <2>8. g[b] = g[2 * b]
    BY <1>2, <2>4
  <2> QED BY <2>3, <2>5, <2>7, <2>8
<1>4. Good(c)
  <2>1. n \notin Bad /\ c + n >= n
    BY <1>3
  <2> HIDE DEF Good
  <2> QED BY <2>1
<1> QED BY <1>4 DEF g

(* A buffer that is not empty stays one, and is not made shorter.          *)
Bounded(o) == o \in Out /\ Len(o.buf) >= 1

(* Doubled leaves what is in the buffer.                                   *)
LEMMA DoubledFits ==
  ASSUME NEW o, Bounded(o), NEW n \in Nat
  PROVE  Bounded(R!Doubled(o, n))
<1> DEFINE b == o.buf
           c == Len(b)
           k == GrownTo(n)[c] - c
           junk == R!Copies("junk", k)
           more == b \o junk
<1>1. R!Doubled(o, n) = [o EXCEPT !.buf = more]
  BY Zenon DEF R!Doubled, GrownTo, IsGrown, Twice
<1>2. b \in Seq(Name) /\ c \in Nat /\ c >= 1
  BY LenProperties DEF Bounded, Out
<1>3. k \in Nat
  <2> DEFINE g == GrownTo(n)[c]
  <2>1. g \in Nat /\ g >= c
    <3> HIDE DEF c
    <3> QED BY <1>2, GrownFits
  <2> HIDE DEF g
  <2>2. g - c \in Nat
    BY <1>2, <2>1
  <2> QED BY <2>2 DEF g
<1> HIDE DEF k
<1>4. junk \in Seq(Name) /\ Len(junk) = k
  BY <1>3, NamesFit, CopiesFit
<1> HIDE DEF junk
<1>5. more \in Seq(Name) /\ Len(more) = c + k
  BY <1>2, <1>4, ConcatProperties
<1> HIDE DEF more
<1> QED BY <1>1, <1>2, <1>3, <1>5 DEF Bounded, Out

(* A piece is appended to what is in the buffer.                           *)
Appended(o, done, piece) ==
  /\ done.size = o.size + piece.len /\ done.overrun = o.overrun
  /\ \A i \in 1..o.size : done.buf[i] = o.buf[i]
  /\ \A i \in 1..piece.len : done.buf[o.size + i] = piece.of

(* _grwprintf does so with a piece that fits; one that does not leaves     *)
(* some buffer.                                                            *)
LEMMA GrwprintfFits ==
  ASSUME NEW again \in Piece, NEW o, Bounded(o), NEW piece \in Piece
  PROVE  LET done == R!Grwprintf(again, o, piece)
         IN  /\ Bounded(done)
             /\ o.size + piece.len < Len(o.buf) =>
                  Appended(o, done, piece) /\ Len(done.buf) = Len(o.buf)
<1> DEFINE need == o.size + piece.len
           first == R!Vsnprintf(o, piece)
           text == IF piece.of = "blank" THEN piece ELSE again
           more == R!Doubled(first, need)
           second == R!Vsnprintf(more, text)
           done == R!Grwprintf(again, o, piece)
<1>1. done = IF need > Len(o.buf) THEN [second EXCEPT !.size = need + text.len]
             ELSE [first EXCEPT !.size = need]
  BY DEF R!Grwprintf
<1>2. /\ o \in Out /\ Len(o.buf) \in Nat /\ Len(o.buf) >= 1
      /\ need \in Nat /\ text \in Piece /\ text.len \in Nat /\ o.size \in Nat
  BY LenProperties DEF Bounded, Out, Piece
<1>3. /\ first \in Out /\ Len(first.buf) = Len(o.buf) /\ first.size = o.size
      /\ need < Len(o.buf) =>
           /\ first.overrun = o.overrun
           /\ \A i \in 1..o.size : first.buf[i] = o.buf[i]
           /\ \A i \in 1..piece.len : first.buf[o.size + i] = piece.of
  BY <1>2, VsnprintfFits
<1> HIDE DEF first
<1>4. Bounded(first)
  BY <1>2, <1>3 DEF Bounded
<1>5. Bounded(more)
  <2> HIDE DEF need
  <2> QED BY <1>2, <1>4, DoubledFits
<1> HIDE DEF more
<1>6. second \in Out /\ Len(second.buf) = Len(more.buf)
  <2>1. more \in Out /\ text \in Piece
    BY <1>2, <1>5 DEF Bounded
  <2> HIDE DEF text
  <2> QED BY <2>1, VsnprintfFits
<1> HIDE DEF second, need, text
<1>7. CASE need > Len(o.buf)
  <2> DEFINE n == need + text.len
  <2>1. n \in Nat /\ done = [second EXCEPT !.size = n]
    BY <1>1, <1>2, <1>7
  <2> HIDE DEF n, done
  <2>2. done \in Out /\ done.buf = second.buf
    BY <1>6, <2>1 DEF Out
  <2>3. ~(need < Len(o.buf))
    BY <1>2, <1>7
  <2>4. Len(done.buf) >= 1
    BY <1>5, <1>6, <2>2 DEF Bounded
  <2> QED BY <2>2, <2>3, <2>4 DEF Bounded, done, need
<1>8. CASE ~(need > Len(o.buf))
  <2>1. done = [first EXCEPT !.size = need]
    BY <1>1, <1>8
  <2> HIDE DEF done
  <2>2. done \in Out /\ done.buf = first.buf /\ done.size = need /\ done.overrun = first.overrun
    BY <1>2, <1>3, <2>1 DEF Out
  <2> QED BY <1>2, <1>3, <2>2 DEF Bounded, Appended, done, need
<1> QED BY <1>7, <1>8

(* The body is always appended, to a buffer that is made long enough.      *)
LEMMA GrwmemcpyFits ==
  ASSUME NEW o, Bounded(o), NEW piece \in Piece
  PROVE  LET done == R!Grwmemcpy(o, piece)
         IN  /\ Bounded(done) /\ done.size <= Len(done.buf)
             /\ o.size <= Len(o.buf) => Appended(o, done, piece)
<1> DEFINE b == o.buf
           size == o.size
           need == size + piece.len
           k == need - Len(b)
           long == b \o R!Copies("junk", k)
           grown == IF need > Len(b) THEN long ELSE b
           text == R!Copies(piece.of, piece.len)
           full == R!Overlay(grown, size, text)
           done == R!Grwmemcpy(o, piece)
<1>1. done = [o EXCEPT !.size = need, !.buf = full]
  BY DEF R!Grwmemcpy
<1>2. /\ o \in Out /\ b \in Seq(Name) /\ Len(b) \in Nat /\ Len(b) >= 1 /\ size \in Nat
      /\ piece.of \in Name /\ piece.len \in Nat /\ need \in Nat /\ need >= size
  BY LenProperties DEF Bounded, Out, Piece
<1>3. /\ grown \in Seq(Name) /\ Len(grown) \in Nat /\ Len(grown) >= need /\ Len(grown) >= Len(b)
      /\ \A i \in 1..Len(b) : grown[i] = b[i]
  <2>1. CASE need > Len(b)
    <3>1. k \in Nat
      BY <1>2, <2>1
    <3> DEFINE junk == R!Copies("junk", k)
    <3>2. junk \in Seq(Name) /\ Len(junk) = k
      <4> HIDE DEF k
      <4> QED BY <3>1, NamesFit, CopiesFit
    <3>3. /\ long \in Seq(Name) /\ Len(long) = Len(b) + k
          /\ \A i \in 1..Len(b) + k : long[i] = IF i <= Len(b) THEN b[i] ELSE junk[i - Len(b)]
      <4>1. b \in Seq(Name) /\ junk \in Seq(Name)
        BY <1>2, <3>2
      <4> HIDE DEF b, junk, k
      <4>2. /\ b \o junk \in Seq(Name) /\ Len(b \o junk) = Len(b) + Len(junk)
            /\ \A i \in 1..Len(b) + Len(junk) :
                 (b \o junk)[i] = IF i <= Len(b) THEN b[i] ELSE junk[i - Len(b)]
        BY <4>1, ConcatProperties
      <4>3. long = b \o junk
        BY DEF junk
      <4> HIDE DEF long
      <4> QED BY <3>2, <4>2, <4>3
    <3>4. \A i \in 1..Len(b) : long[i] = b[i]
      <4> HIDE DEF long, k, b
      <4> QED BY <1>2, <3>1, <3>3
    <3>5. Len(b) + k = need
      BY <1>2
    <3>6. grown = long
      BY <2>1
    <3> HIDE DEF long, k, grown
    <3> QED BY <1>2, <2>1, <3>1, <3>3, <3>4, <3>5, <3>6
  <2>2. CASE ~(need > Len(b))
    <3>1. grown = b
      BY <2>2
    <3> HIDE DEF grown
    <3> QED BY <1>2, <2>2, <3>1
  <2> QED BY <2>1, <2>2
<1>4. text \in Seq(Name) /\ Len(text) = piece.len /\ \A i \in 1..piece.len : text[i] = piece.of
  BY <1>2, CopiesFit
<1> HIDE DEF grown, text
<1>5. /\ full \in Seq(Name) /\ Len(full) = Len(grown)
      /\ \A i \in 1..size : full[i] = grown[i]
      /\ \A i \in 1..piece.len : full[size + i] = piece.of
  <2>1. size + Len(text) <= Len(grown)
    BY <1>3, <1>4
  <2>2. /\ full \in Seq(Name) /\ Len(full) = Len(grown)
        /\ \A i \in 1..size : full[i] = grown[i]
        /\ \A i \in 1..Len(text) : full[size + i] = text[i]
    BY <1>2, <1>3, <1>4, <2>1, OverlayFits
  <2> QED BY <1>4, <2>2
<1> HIDE DEF full, need
<1>6. /\ done \in Out /\ done.buf = full /\ done.size = need /\ done.overrun = o.overrun
  <2> HIDE DEF done
  <2> QED BY <1>1, <1>2, <1>5 DEF Out
<1>7. Bounded(done) /\ done.size <= Len(done.buf)
  <2> HIDE DEF done
  <2> QED BY <1>2, <1>3, <1>5, <1>6 DEF Bounded
<1>8. ASSUME size <= Len(b) PROVE Appended(o, done, piece)
  <2>1. \A i \in 1..size : i \in 1..Len(b)
    BY <1>2, <1>8
  <2> HIDE DEF done
  <2> QED BY <1>2, <1>3, <1>5, <1>6, <2>1 DEF Appended, need
<1> QED BY <1>7, <1>8

-----------------------------------------------------------------------------
(* The pieces of a response, and the text that they make.                  *)

(* A sequence is a sequence the other way around, too.                     *)
LEMMA ReverseFits ==
  ASSUME NEW S, NEW T, S \subseteq T, NEW s \in Seq(S)
  PROVE  R!Reverse(s) \in Seq(T) /\ Len(R!Reverse(s)) = Len(s)
<1> DEFINE n == Len(s)
           t == [i \in 1..n |-> s[n - i + 1]]
<1>1. n \in Nat /\ \A i \in 1..n : s[i] \in T
  BY ElementOfSeq, LenProperties
<1> HIDE DEF n
<1>2. \A i \in 1..n : s[n - i + 1] \in T
  <2>1. TAKE i \in 1..n
  <2>2. n - i + 1 \in 1..n
    BY <1>1
  <2> QED BY <1>1, <2>2
<1>3. t \in Seq(T) /\ Len(t) = n
  BY <1>1, <1>2
<1>4. R!Reverse(s) = t
  BY DEF R!Reverse, n
<1> QED BY <1>3, <1>4 DEF n

(* Responses that differ in the name of the connection have heads of the   *)
(* same lengths; a body is one piece or none.                              *)
LEMMA PiecesFit ==
  ASSUME NEW r \in Responses, NEW c \in Name, NEW d \in Name
  PROVE  LET p == R!HeadPieces(r, c)
             q == R!HeadPieces(r, d)
             b == R!BodyPieces(r)
         IN  /\ p \in Seq(Piece) /\ q \in Seq(Piece) /\ Len(p) = Len(q)
             /\ \A i \in 1..Len(p) : p[i].len = q[i].len
             /\ b \in Seq(Piece) /\ Len(b) \in {0, 1}
<1>1. /\ r.status \in Nat /\ r.length \in Nat /\ r.connection \in Nat
      /\ r.headers \in Seq([of : STRING, len : Nat])
      /\ r.body \in Seq(Nat) /\ Len(r.body) <= 1
  BY ResponsesAssumption
<1> DEFINE first(n) == <<[of |-> "status", len |-> r.status], [of |-> "length", len |-> r.length],
                         [of |-> n, len |-> r.connection]>>
           rest == R!Reverse(r.headers)
           blank == <<[of |-> "blank", len |-> 1]>>
           two(n) == first(n) \o rest
           b == R!BodyPieces(r)
<1>2. rest \in Seq(Piece) /\ Len(rest) = Len(r.headers)
  <2>1. [of : STRING, len : Nat] \subseteq Piece
    BY DEF Piece, Name
  <2> HIDE DEF rest
  <2> QED BY <1>1, <2>1, ReverseFits DEF rest
<1>3. blank \in Seq(Piece) /\ Len(blank) = 1
  <2>1. [of |-> "blank", len |-> 1] \in Piece
    BY NamesFit DEF Piece
  <2> QED BY <2>1
<1>4. ASSUME NEW n \in Name
      PROVE  /\ first(n) \in Seq(Piece) /\ Len(first(n)) = 3
             /\ first(n)[1].len = r.status /\ first(n)[2].len = r.length
             /\ first(n)[3].len = r.connection
  <2>1. /\ [of |-> "status", len |-> r.status] \in Piece /\ [of |-> "length", len |-> r.length] \in Piece
        /\ [of |-> n, len |-> r.connection] \in Piece
    BY <1>1, NamesFit DEF Piece
  <2> QED BY <2>1
<1> HIDE DEF first, rest, blank
<1>5. ASSUME NEW n \in Name
      PROVE  /\ two(n) \in Seq(Piece) /\ Len(two(n)) = 3 + Len(rest)
             /\ \A i \in 1..3 + Len(rest) :
                  two(n)[i] = IF i <= 3 THEN first(n)[i] ELSE rest[i - 3]
  <2>1. first(n) \in Seq(Piece) /\ rest \in Seq(Piece)
    BY <1>2, <1>4
  <2>2. Len(first(n)) = 3
    BY <1>4
  <2> QED BY SMTT(30), <2>1, <2>2, ConcatProperties
<1> HIDE DEF two
<1>6. Len(rest) \in Nat
  BY <1>2, LenProperties
<1>7. ASSUME NEW n \in Name
      PROVE  LET p == R!HeadPieces(r, n)
             IN  /\ p \in Seq(Piece) /\ Len(p) = 4 + Len(rest)
                 /\ \A i \in 1..4 + Len(rest) :
                      p[i] = IF i <= 3 + Len(rest) THEN two(n)[i] ELSE blank[i - (3 + Len(rest))]
  <2> DEFINE p == two(n) \o blank
             k == 3 + Len(rest)
  <2>1. two(n) \in Seq(Piece) /\ blank \in Seq(Piece)
    BY <1>3, <1>5
  <2>2. Len(two(n)) = k /\ Len(blank) = 1 /\ k \in Nat /\ 4 + Len(rest) = k + 1
    BY <1>3, <1>5, <1>6
  <2> HIDE DEF k
  <2>3. /\ p \in Seq(Piece) /\ Len(p) = k + 1
        /\ \A i \in 1..k + 1 : p[i] = IF i <= k THEN two(n)[i] ELSE blank[i - k]
    <3> DEFINE t == two(n)
    <3>1. t \in Seq(Piece) /\ blank \in Seq(Piece)
      BY <2>1
    <3> HIDE DEF t
    <3>2. /\ t \o blank \in Seq(Piece) /\ Len(t \o blank) = Len(t) + Len(blank)
          /\ \A i \in 1..Len(t) + Len(blank) :
               (t \o blank)[i] = IF i <= Len(t) THEN t[i] ELSE blank[i - Len(t)]
      BY <3>1, ConcatProperties
    <3> QED BY <2>2, <3>2 DEF t
  <2>4. R!HeadPieces(r, n) = p
    BY DEF R!HeadPieces, two, first, rest, blank
  <2> HIDE DEF p
  <2> QED BY <2>2, <2>3, <2>4 DEF k
<1> DEFINE p == R!HeadPieces(r, c)
           q == R!HeadPieces(r, d)
<1>8. \A i \in 1..Len(p) : p[i].len = q[i].len
  <2> HIDE DEF p, q
  <2>1. TAKE i \in 1..Len(p)
  <2>2. i \in 1..4 + Len(rest)
    BY <1>7 DEF p
  <2>3. CASE i > 3 + Len(rest)
    BY <1>6, <1>7, <2>2, <2>3 DEF p, q
  <2>4. CASE i > 3 /\ i <= 3 + Len(rest)
    <3>1. i \in 1..3 + Len(rest) /\ ~(i <= 3)
      BY <1>6, <2>2, <2>4
    <3>2. p[i] = rest[i - 3] /\ q[i] = rest[i - 3]
      BY <1>5, <1>7, <2>2, <2>4, <3>1 DEF p, q
    <3> QED BY <3>2
  <2>5. CASE i <= 3
    <3>1. i \in 1..3 + Len(rest) /\ i <= 3 + Len(rest)
      BY <1>6, <2>2, <2>5
    <3>2. p[i] = first(c)[i] /\ q[i] = first(d)[i]
      BY <1>5, <1>7, <2>2, <2>5, <3>1 DEF p, q
    <3>3. i = 1 \/ i = 2 \/ i = 3
      BY <1>6, <2>2, <2>5
    <3> QED BY <1>4, <3>2, <3>3
  <2> QED BY <1>6, <2>2, <2>3, <2>4, <2>5
<1>9. b \in Seq(Piece) /\ Len(b) \in {0, 1}
  <2> DEFINE n == Len(r.body)
             e == [i \in 1..n |-> [of |-> "body", len |-> r.body[i]]]
  <2>1. n \in Nat /\ n \in {0, 1} /\ DOMAIN r.body = 1..n
    <3> DEFINE w == r.body
    <3>1. w \in Seq(Nat) /\ Len(w) <= 1
      BY <1>1
    <3> HIDE DEF w
    <3>2. Len(w) \in Nat /\ DOMAIN w = 1..Len(w)
      BY <3>1, LenProperties
    <3>3. Len(w) = 0 \/ Len(w) = 1
      BY <3>1, <3>2
    <3>4. n = Len(w) /\ DOMAIN r.body = DOMAIN w
      BY DEF w
    <3> HIDE DEF n
    <3> QED BY <3>2, <3>3, <3>4
  <2>2. \A i \in 1..n : [of |-> "body", len |-> r.body[i]] \in Piece
    <3>1. TAKE i \in 1..n
    <3>2. r.body[i] \in Nat
      BY <1>1, <3>1, ElementOfSeq
    <3> QED BY <3>2, NamesFit DEF Piece
  <2>3. b = e
    BY <2>1 DEF R!BodyPieces
  <2> HIDE DEF n, Piece
  <2>4. e \in Seq(Piece) /\ Len(e) = n
    BY <2>1, <2>2
  <2> QED BY <2>1, <2>3, <2>4
<1> QED BY <1>7, <1>8, <1>9

(* The text of the first k pieces.                                         *)
Texts(p) == [i \in DOMAIN p |-> R!Copies(p[i].of, p[i].len)]
Start(p, k) == IF k = 0 THEN <<>> ELSE Flat(Texts(p))[k]

(* It is longer by each of them.                                           *)
LEMMA StartLaw ==
  ASSUME NEW p \in Seq(Piece)
  PROVE  /\ Texts(p) \in Seq(Seq(Name)) /\ Len(Texts(p)) = Len(p)
         /\ R!Bytes(p) = Start(p, Len(p)) /\ Start(p, 0) = <<>>
         /\ \A k \in 0..Len(p) : Start(p, k) \in Seq(Name)
         /\ \A k \in 1..Len(p) :
              /\ Start(p, k) = Start(p, k - 1) \o R!Copies(p[k].of, p[k].len)
              /\ Len(Start(p, k)) = Len(Start(p, k - 1)) + p[k].len
<1> DEFINE n == Len(p)
           t(i) == R!Copies(p[i].of, p[i].len)
           q == Texts(p)
<1>1. n \in Nat /\ DOMAIN p = 1..n
  BY LenProperties
<1>2. \A i \in 1..n : /\ p[i].of \in Name /\ p[i].len \in Nat
                      /\ t(i) \in Seq(Name) /\ Len(t(i)) = p[i].len
  <2>1. TAKE i \in 1..n
  <2>2. p[i] \in Piece
    BY <2>1, ElementOfSeq
  <2>3. p[i].of \in Name /\ p[i].len \in Nat
    BY <2>2 DEF Piece
  <2> QED BY <2>3, CopiesFit
<1> HIDE DEF t, n
<1>3. q \in Seq(Seq(Name)) /\ Len(q) = n /\ \A i \in 1..n : q[i] = t(i)
  <2> DEFINE S == Seq(Name)
             e == [i \in 1..n |-> t(i)]
  <2>1. \A i \in 1..n : t(i) \in S
    BY <1>2
  <2> HIDE DEF S
  <2>2. e \in Seq(S) /\ Len(e) = n /\ \A i \in 1..n : e[i] = t(i)
    BY <1>1, <2>1
  <2>3. q = e
    BY <1>1 DEF Texts, t
  <2> HIDE DEF e, q
  <2> QED BY <2>2, <2>3 DEF S
<1> HIDE DEF q
<1>4. Start(p, 0) = <<>> /\ \A k \in 1..n : Start(p, k) = Flat(q)[k]
  BY <1>1 DEF Start, q
<1>5. \A k \in 1..n : Start(p, k) \in Seq(Name) /\ Start(p, k) = Joined(Flat(q), q, k)
  BY <1>3, <1>4, FlatLaw
<1>6. \A k \in 0..n : Start(p, k) \in Seq(Name)
  <2>1. \A k \in 0..n : k = 0 \/ k \in 1..n
    BY <1>1
  <2> QED BY <1>4, <1>5, <2>1, EmptySeq
<1>7. ASSUME NEW k \in 1..n PROVE Start(p, k) = Start(p, k - 1) \o t(k)
  <2>1. CASE k = 1
    <3>1. Start(p, k) = t(k) /\ Start(p, k - 1) = <<>>
      BY <1>3, <1>4, <1>5, <2>1 DEF Joined
    <3> QED BY <1>2, <3>1, ConcatEmptySeq
  <2>2. CASE k # 1
    <3>1. k - 1 \in 1..n
      BY <1>1, <2>2
    <3> QED BY <1>3, <1>4, <1>5, <2>2, <3>1 DEF Joined
  <2> QED BY <2>1, <2>2
<1>8. ASSUME NEW k \in 1..n PROVE Len(Start(p, k)) = Len(Start(p, k - 1)) + p[k].len
  <2>1. k - 1 \in 0..n
    BY <1>1
  <2> DEFINE a == Start(p, k - 1)
             b == t(k)
  <2>2. a \in Seq(Name) /\ b \in Seq(Name)
    BY <1>2, <1>6, <2>1
  <2> HIDE DEF a, b
  <2>3. Len(a \o b) = Len(a) + Len(b)
    BY <2>2, ConcatProperties
  <2> QED BY <1>2, <1>7, <2>3 DEF a, b
<1>9. R!Bytes(p) = Start(p, n)
  <2>1. R!Bytes(p) = FlattenSeq(q)
    BY DEF R!Bytes, R!FlattenSeq, FlattenSeq, q, Texts
  <2>2. CASE n = 0
    <3>1. q = <<>>
      BY <1>3, <2>2, EmptySeq
    <3> QED BY <1>3, <1>4, <2>1, <2>2, <3>1, FlattenIsLast
  <2>3. CASE n # 0
    <3>1. n \in 1..n
      BY <1>1, <2>3
    <3> QED BY <1>3, <1>4, <2>1, <2>3, <3>1, FlattenIsLast
  <2> QED BY <2>2, <2>3
<1> QED BY <1>3, <1>4, <1>6, <1>7, <1>8, <1>9 DEF n, q, t

(* Each of these texts is at most as long as the last one, and the lengths *)
(* are those of any pieces that are equally long.                          *)
LEMMA StartLengths ==
  ASSUME NEW p \in Seq(Piece), NEW q \in Seq(Piece), Len(p) = Len(q),
         \A i \in 1..Len(p) : p[i].len = q[i].len
  PROVE  \A k \in 0..Len(p) : /\ Len(Start(p, k)) \in Nat /\ Len(Start(p, k)) = Len(Start(q, k))
                              /\ Len(Start(p, k)) <= Len(Start(p, Len(p)))
<1> DEFINE n == Len(p)
           P(k) == Len(Start(p, k))
           Q(k) == Len(Start(q, k))
           Differ == {k \in Nat : k \in 0..n /\ P(k) # Q(k)}
           Longer == {k \in Nat : k \in 0..n /\ ~(P(n - k) <= P(n))}
<1>1. n \in Nat /\ \A i \in 1..n : p[i].len \in Nat
  <2>1. ASSUME NEW i \in 1..n PROVE p[i].len \in Nat
    <3>1. p[i] \in Piece
      BY <2>1, ElementOfSeq
    <3> QED BY <3>1 DEF Piece
  <2> QED BY <2>1, LenProperties
<1>2. /\ P(0) = 0 /\ Q(0) = 0
      /\ \A k \in 0..n : P(k) \in Nat
      /\ \A k \in 1..n : P(k) = P(k - 1) + p[k].len /\ Q(k) = Q(k - 1) + p[k].len
  <2>1. \A k \in 0..n : Start(p, k) \in Seq(Name)
    BY StartLaw
  <2>2. \A k \in 0..n : P(k) \in Nat
    BY <2>1, LenProperties
  <2>3. /\ Start(p, 0) = <<>> /\ Start(q, 0) = <<>>
        /\ \A k \in 1..n : P(k) = P(k - 1) + p[k].len
        /\ \A k \in 1..n : Q(k) = Q(k - 1) + q[k].len
    BY StartLaw
  <2> QED BY <2>2, <2>3
<1> HIDE DEF n, P, Q
<1>3. Differ = {}
  <2>1. SUFFICES ASSUME Differ # {} PROVE FALSE
    OBVIOUS
  <2>2. PICK m \in Differ : \A k \in Differ : m <= k
    BY <2>1, LeastNumber
  <2>3. m # 0
    BY <1>2, <2>2
  <2>4. m \in 1..n /\ m - 1 \in 0..n /\ m - 1 \notin Differ
    BY <1>1, <2>2, <2>3
  <2> QED BY <1>1, <1>2, <2>2, <2>4
<1>4. Longer = {}
  <2>1. SUFFICES ASSUME Longer # {} PROVE FALSE
    OBVIOUS
  <2>2. PICK m \in Longer : \A k \in Longer : m <= k
    BY <2>1, LeastNumber
  <2>3. m # 0
    <3>1. n - 0 = n /\ n \in 0..n
      BY <1>1
    <3>2. P(n - 0) <= P(n)
      BY <1>2, <3>1
    <3> QED BY <2>2, <3>2
  <2> DEFINE k == n - m + 1
  <2>4. m \in 1..n /\ m - 1 \in 0..n /\ m - 1 \notin Longer /\ n - (m - 1) = k
    <3>1. m \in 0..n /\ m \in Nat
      BY <2>2
    <3>2. m - 1 \in 0..n /\ m - 1 \in Nat /\ ~(m <= m - 1)
      BY <1>1, <2>3, <3>1
    <3>3. m - 1 \notin Longer
      <4> HIDE DEF Longer
      <4> QED BY <2>2, <3>2
    <3> QED BY <1>1, <2>3, <3>1, <3>2, <3>3
  <2>5. k \in 1..n /\ k - 1 \in 0..n /\ k \in 0..n /\ n - m = k - 1
    BY <1>1, <2>4
  <2>6. P(k) <= P(n)
    BY <2>4, <2>5
  <2>7. P(k) = P(k - 1) + p[k].len /\ P(k) \in Nat /\ P(k - 1) \in Nat /\ p[k].len \in Nat
    BY <1>1, <1>2, <2>5
  <2>8. P(n) \in Nat
    BY <1>1, <1>2
  <2>9. ~(P(k - 1) <= P(n))
    BY <2>2, <2>5
  <2> HIDE DEF k
  <2> QED BY <2>6, <2>7, <2>8, <2>9
<1>5. ASSUME NEW k \in 0..n PROVE P(k) = Q(k) /\ P(k) <= P(n)
  <2>1. k \notin Differ /\ k \in Nat /\ n - k \in 0..n /\ n - k \in Nat /\ n - (n - k) = k
    BY <1>1, <1>3
  <2>2. n - k \notin Longer
    BY <1>4
  <2>3. P(n - (n - k)) <= P(n)
    BY <2>1, <2>2
  <2> QED BY <2>1, <2>3
<1> QED BY <1>2, <1>5 DEF n, P, Q

(* What has been printed into the first buffer is the text.                *)
Begins(o, text) ==
  /\ Bounded(o) /\ ~o.overrun /\ Len(o.buf) = ResponseBufSize
  /\ o.size = Len(text) /\ \A i \in 1..o.size : o.buf[i] = text[i]

(* A piece that is appended to it is appended to the text.                 *)
LEMMA AppendedBegins ==
  ASSUME NEW o, NEW text \in Seq(Name), NEW done, NEW piece \in Piece,
         Begins(o, text), Appended(o, done, piece)
  PROVE  LET more == text \o R!Copies(piece.of, piece.len)
         IN  done.size = Len(more) /\ \A i \in 1..done.size : done.buf[i] = more[i]
<1> DEFINE t == R!Copies(piece.of, piece.len)
           more == text \o t
           n == Len(text)
           l == piece.len
<1>1. piece.of \in Name /\ l \in Nat /\ n \in Nat
  BY LenProperties DEF Piece
<1>2. t \in Seq(Name) /\ Len(t) = l /\ \A i \in 1..l : t[i] = piece.of
  BY <1>1, CopiesFit
<1>3. text \in Seq(Name) /\ t \in Seq(Name)
  BY <1>2
<1> HIDE DEF t
<1>4. /\ Len(text \o t) = Len(text) + Len(t)
      /\ \A i \in 1..Len(text) + Len(t) :
           (text \o t)[i] = IF i <= Len(text) THEN text[i] ELSE t[i - Len(text)]
  BY <1>3, ConcatProperties
<1>5. /\ Len(more) = n + l
      /\ \A i \in 1..n + l : more[i] = IF i <= n THEN text[i] ELSE t[i - n]
  BY <1>2, <1>4
<1> HIDE DEF more
<1>6. /\ o.size = n /\ (\A i \in 1..n : o.buf[i] = text[i]) /\ done.size = n + l
      /\ \A i \in 1..n : done.buf[i] = o.buf[i]
      /\ \A i \in 1..l : done.buf[n + i] = piece.of
  BY DEF Begins, Appended
<1> HIDE DEF n, l
<1>7. ASSUME NEW i \in 1..n + l PROVE done.buf[i] = more[i]
  <2>1. CASE i <= n
    <3>1. i \in 1..n
      BY <1>1, <2>1
    <3> QED BY <1>5, <1>6, <2>1, <3>1
  <2>2. CASE ~(i <= n)
    <3>1. i - n \in 1..l /\ n + (i - n) = i
      BY <1>1, <2>2
    <3>2. more[i] = t[i - n]
      BY <1>5, <2>2
    <3>3. t[i - n] = piece.of
      BY <1>2, <3>1 DEF l
    <3>4. done.buf[n + (i - n)] = piece.of
      BY <1>6, <3>1
    <3> QED BY <3>1, <3>2, <3>3, <3>4
  <2> QED BY <2>1, <2>2
<1> QED BY <1>5, <1>6, <1>7 DEF more, t

(* As long as all of the text has room and one byte more, each piece is    *)
(* printed as it is.                                                       *)
LEMMA PrintsExactly ==
  ASSUME NEW p \in Seq(Piece), NEW again \in Piece, Len(Start(p, Len(p))) < ResponseBufSize
  PROVE  \A k \in 0..Len(p) : Begins(PrintedTo(again, p, k), Start(p, k))
<1> DEFINE n == Len(p)
           B(k) == Begins(PrintedTo(again, p, k), Start(p, k))
           Bad == {k \in Nat : k \in 0..n /\ ~B(k)}
<1>1. n \in Nat /\ DOMAIN p = 1..n /\ \A i \in 1..n : p[i] \in Piece
  <2>1. \A i \in 1..n : p[i] \in Piece
    BY ElementOfSeq
  <2> QED BY <2>1, LenProperties
<1>2. /\ PrintedTo(again, p, 0) = R!GrwInit
      /\ \A k \in 1..n :
           PrintedTo(again, p, k) = R!Grwprintf(again, PrintedTo(again, p, k - 1), p[k])
  <2> HIDE DEF n
  <2> QED BY <1>1, PrintLaw
<1>3. B(0)
  <2>1. /\ R!GrwInit \in Out /\ Len(R!GrwInit.buf) = ResponseBufSize
        /\ R!GrwInit.size = 0 /\ R!GrwInit.overrun = FALSE
    BY GrwInitFits DEF R!GrwInit
  <2>2. Start(p, 0) = <<>>
    BY DEF Start
  <2> QED BY <1>2, <2>1, <2>2, ResponseBufSizeAssumption DEF Begins, Bounded
<1>4. ASSUME NEW k \in 1..n, B(k - 1) PROVE B(k)
  <2> DEFINE o == PrintedTo(again, p, k - 1)
             text == Start(p, k - 1)
             piece == p[k]
             done == R!Grwprintf(again, o, piece)
             more == text \o R!Copies(piece.of, piece.len)
  <2>1. k - 1 \in 0..n /\ k \in 0..n /\ piece \in Piece
    BY <1>1
  <2>2. text \in Seq(Name) /\ Start(p, k) = more /\ Len(Start(p, k)) = Len(text) + piece.len
    BY <2>1, StartLaw
  <2>3. Len(Start(p, k)) <= Len(Start(p, n)) /\ Len(Start(p, k)) \in Nat /\ Len(Start(p, n)) \in Nat
    <3>1. n \in 0..n
      BY <1>1
    <3>2. Len(p) = Len(p) /\ \A i \in 1..Len(p) : p[i].len = p[i].len
      OBVIOUS
    <3> QED BY <2>1, <3>1, <3>2, StartLengths
  <2>4. Bounded(o) /\ Begins(o, text) /\ PrintedTo(again, p, k) = done
    BY <1>2, <1>4 DEF Begins
  <2> HIDE DEF o, text, piece
  <2>5. o.size = Len(text) /\ Len(o.buf) = ResponseBufSize
    BY <2>4 DEF Begins
  <2>6. o.size + piece.len < Len(o.buf)
    BY <2>2, <2>3, <2>5, ResponseBufSizeAssumption
  <2>7. Bounded(done) /\ Appended(o, done, piece) /\ Len(done.buf) = Len(o.buf)
    BY <2>1, <2>4, <2>6, GrwprintfFits
  <2> HIDE DEF done
  <2>8. done.size = Len(more) /\ \A i \in 1..done.size : done.buf[i] = more[i]
    <3>1. text \in Seq(Name) /\ piece \in Piece /\ Begins(o, text) /\ Appended(o, done, piece)
      BY <2>1, <2>2, <2>4, <2>7
    <3> QED BY ONLY <3>1, AppendedBegins
  <2>9. ~done.overrun
    BY <2>4, <2>7 DEF Begins, Appended
  <2> HIDE DEF more
  <2> QED BY <2>2, <2>4, <2>5, <2>7, <2>8, <2>9 DEF Begins
<1> HIDE DEF B
<1>5. Bad = {}
  <2>1. SUFFICES ASSUME Bad # {} PROVE FALSE
    OBVIOUS
  <2>2. PICK m \in Bad : \A k \in Bad : m <= k
    BY <2>1, LeastNumber
  <2>3. m # 0
    BY <1>3, <2>2
  <2>4. m \in 1..n /\ m - 1 \in 0..n /\ m - 1 \in Nat /\ ~(m <= m - 1)
    BY <1>1, <2>2, <2>3
  <2>5. B(m - 1)
    BY <2>2, <2>4
  <2> QED BY <1>4, <2>2, <2>4, <2>5
<1> QED BY <1>1, <1>5 DEF B

(* Whatever is printed, some buffer is left, at least as large as before.  *)
LEMMA PrintsBounded ==
  ASSUME NEW p \in Seq(Piece), NEW again \in Piece
  PROVE  Bounded(PrintedTo(again, p, Len(p)))
<1> DEFINE n == Len(p)
           B(k) == Bounded(PrintedTo(again, p, k))
           Bad == {k \in Nat : k \in 0..n /\ ~B(k)}
<1>1. n \in Nat /\ DOMAIN p = 1..n /\ \A i \in 1..n : p[i] \in Piece
  <2>1. \A i \in 1..n : p[i] \in Piece
    BY ElementOfSeq
  <2> QED BY <2>1, LenProperties
<1>2. /\ PrintedTo(again, p, 0) = R!GrwInit
      /\ \A k \in 1..n :
           PrintedTo(again, p, k) = R!Grwprintf(again, PrintedTo(again, p, k - 1), p[k])
  <2> HIDE DEF n
  <2> QED BY <1>1, PrintLaw
<1>3. B(0)
  <2>1. /\ R!GrwInit \in Out /\ Len(R!GrwInit.buf) = ResponseBufSize
        /\ R!GrwInit.size = 0 /\ R!GrwInit.overrun = FALSE
    BY GrwInitFits DEF R!GrwInit
  <2> QED BY <1>2, <2>1, ResponseBufSizeAssumption DEF Bounded
<1>4. ASSUME NEW k \in 1..n, B(k - 1) PROVE B(k)
  <2> DEFINE o == PrintedTo(again, p, k - 1)
             piece == p[k]
  <2>1. Bounded(o) /\ piece \in Piece
    BY <1>1, <1>4
  <2> HIDE DEF o, piece
  <2>2. Bounded(R!Grwprintf(again, o, piece))
    BY <2>1, GrwprintfFits
  <2> QED BY <1>2, <2>2 DEF o, piece
<1> HIDE DEF B
<1>5. Bad = {}
  <2>1. SUFFICES ASSUME Bad # {} PROVE FALSE
    OBVIOUS
  <2>2. PICK m \in Bad : \A k \in Bad : m <= k
    BY <2>1, LeastNumber
  <2>3. m # 0
    BY <1>3, <2>2
  <2>4. m \in 1..n /\ m - 1 \in 0..n /\ m - 1 \in Nat /\ ~(m <= m - 1)
    BY <1>1, <2>2, <2>3
  <2>5. B(m - 1)
    BY <2>2, <2>4
  <2> QED BY <1>4, <2>2, <2>4, <2>5
<1> QED BY <1>1, <1>5 DEF B

(* The bytes that are sent are those that were counted, if they are there. *)
LEMMA SentIs ==
  ASSUME NEW o \in Out, NEW text \in Seq(Name), o.size = Len(text), o.size <= Len(o.buf),
         \A i \in 1..o.size : o.buf[i] = text[i]
  PROVE  R!SentBytes(o) = text
<1> DEFINE b == o.buf
           n == o.size
           junk == R!Copies("junk", n)
           long == b \o junk
           s == SubSeq(long, 1, n)
<1>1. b \in Seq(Name) /\ n \in Nat /\ Len(b) \in Nat
  BY LenProperties DEF Out
<1>2. junk \in Seq(Name) /\ Len(junk) = n
  <2> HIDE DEF n
  <2> QED BY <1>1, NamesFit, CopiesFit
<1> HIDE DEF junk
<1>3. /\ long \in Seq(Name) /\ Len(long) = Len(b) + n
      /\ \A i \in 1..Len(b) : long[i] = b[i]
  <2>1. b \in Seq(Name) /\ junk \in Seq(Name)
    BY <1>1, <1>2
  <2> HIDE DEF b, n
  <2>2. /\ b \o junk \in Seq(Name) /\ Len(b \o junk) = Len(b) + Len(junk)
        /\ \A i \in 1..Len(b) + Len(junk) :
             (b \o junk)[i] = IF i <= Len(b) THEN b[i] ELSE junk[i - Len(b)]
    BY <2>1, ConcatProperties
  <2>3. long = b \o junk
    OBVIOUS
  <2> HIDE DEF long
  <2>4. \A i \in 1..Len(b) : i \in 1..Len(b) + n /\ i <= Len(b)
    BY <1>1
  <2> QED BY <1>2, <2>2, <2>3, <2>4
<1> HIDE DEF long
<1>4. s \in Seq(Name) /\ Len(s) = n /\ \A i \in 1..n : s[i] = long[i]
  <2>1. 1 \in 1..Len(long) + 1 /\ n \in 0..Len(long)
    BY <1>1, <1>3
  <2> HIDE DEF n
  <2>2. /\ SubSeq(long, 1, n) \in Seq(Name)
        /\ Len(SubSeq(long, 1, n)) = n - 1 + 1
        /\ \A i \in 1..n - 1 + 1 : SubSeq(long, 1, n)[i] = long[1 + i - 1]
    BY <1>1, <1>3, <2>1, SubSeqProperties
  <2>3. n - 1 + 1 = n /\ \A i \in 1..n : 1 + i - 1 = i
    BY <1>1
  <2> QED BY <2>2, <2>3
<1> HIDE DEF s
<1>5. \A i \in 1..n : s[i] = text[i]
  <2>1. TAKE i \in 1..n
  <2>2. i \in 1..Len(b)
    BY <1>1
  <2> QED BY <1>3, <1>4, <2>2
<1>6. s = text
  <2>1. Len(s) = Len(text) /\ \A i \in 1..Len(s) : s[i] = text[i]
    BY <1>4, <1>5
  <2> QED BY <1>4, <2>1, SeqEqual
<1> QED BY <1>6 DEF R!SentBytes, s, long, junk

(* Whatever a handler gives, some buffer is sent.                          *)
LEMMA SerializeFits ==
  ASSUME NEW r \in Responses, NEW c \in Name, NEW n \in Nat
  PROVE  Bounded(R!Serialize(r, c, [of |-> "stray", len |-> n]))
<1> DEFINE again == [of |-> "stray", len |-> n]
           p == R!HeadPieces(r, c)
           b == R!BodyPieces(r)
           head == PrintedTo(again, p, Len(p))
<1>1. again \in Piece
  BY NamesFit DEF Piece
<1> HIDE DEF again
<1>2. p \in Seq(Piece) /\ b \in Seq(Piece) /\ Len(b) \in {0, 1}
  BY PiecesFit
<1>3. R!Serialize(r, c, again) = Copied(head, b)[DOMAIN b]
  <2>1. DOMAIN p = 1..Len(p)
    BY <1>2, LenProperties
  <2> QED BY <2>1, SerializeIsEntry DEF PrintedTo
<1> HIDE DEF p, b
<1>4. Bounded(head)
  BY <1>1, <1>2, PrintsBounded
<1> HIDE DEF head
<1>5. Copied(head, b)[DOMAIN b] = IF Len(b) = 0 THEN head ELSE R!Grwmemcpy(head, b[1])
  <2>1. DOMAIN b = 1..Len(b)
    BY <1>2, LenProperties
  <2> QED BY <1>2, <2>1, CopyLaw
<1>6. CASE Len(b) = 0
  BY <1>3, <1>4, <1>5, <1>6 DEF again
<1>7. CASE Len(b) = 1
  <2>1. 1 \in 1..Len(b)
    BY <1>7
  <2>2. b[1] \in Piece
    BY <1>2, <2>1, ElementOfSeq
  <2>3. Bounded(R!Grwmemcpy(head, b[1]))
    BY <1>4, <2>2, GrwmemcpyFits
  <2> QED BY <1>3, <1>5, <1>7, <2>3 DEF again
<1> QED BY <1>2, <1>6, <1>7

(* One piece more makes the text of the pieces and of it.                  *)
LEMMA BytesOfMore ==
  ASSUME NEW p \in Seq(Piece), NEW b \in Seq(Piece), Len(b) \in {0, 1}
  PROVE  R!Bytes(p \o b) = IF Len(b) = 0 THEN R!Bytes(p)
                           ELSE R!Bytes(p) \o R!Copies(b[1].of, b[1].len)
<1>1. CASE Len(b) = 0
  <2>1. b = <<>>
    BY <1>1, EmptySeq
  <2>2. p \o b = p
    BY <2>1, ConcatEmptySeq
  <2> QED BY <1>1, <2>2
<1>2. CASE Len(b) = 1
  <2> DEFINE n == Len(p)
             q == p \o b
  <2>1. /\ q \in Seq(Piece) /\ Len(q) = n + 1
        /\ \A i \in 1..n + 1 : q[i] = IF i <= n THEN p[i] ELSE b[i - n]
    <3>1. p \in Seq(Piece) /\ b \in Seq(Piece)
      OBVIOUS
    <3> QED BY <1>2, <3>1, ConcatProperties
  <2>2. n \in Nat /\ DOMAIN p = 1..n
    BY LenProperties
  <2> HIDE DEF q
  <2>3. DOMAIN q = 1..n + 1
    BY <2>1, LenProperties
  <2>4. n \in 0..n /\ n + 1 \in 1..n + 1 /\ ~(n + 1 <= n) /\ (n + 1) - n = 1 /\ (n + 1) - 1 = n
        /\ \A i \in 1..n : i \in 1..n + 1 /\ i <= n
    BY <2>2
  <2>5. q[n + 1] = b[1] /\ \A i \in 1..n : q[i] = p[i]
    BY <2>1, <2>4
  <2>6. Start(q, n) = Start(p, n)
    <3>1. /\ Texts(p) \in Seq(Seq(Name)) /\ Texts(q) \in Seq(Seq(Name))
          /\ Len(Texts(p)) = n /\ Len(Texts(q)) = n + 1
      BY <2>1, StartLaw
    <3>2. \A i \in 1..n : Texts(p)[i] = Texts(q)[i]
      BY <2>2, <2>3, <2>4, <2>5 DEF Texts
    <3>3. n <= Len(Texts(p)) /\ n <= Len(Texts(q))
      BY <2>2, <3>1
    <3>4. \A i \in 1..n : Flat(Texts(p))[i] = Flat(Texts(q))[i]
      BY <2>2, <3>1, <3>2, <3>3, FlatAgrees
    <3>5. n = 0 \/ n \in 1..n
      BY <2>2
    <3> HIDE DEF n
    <3> QED BY <3>4, <3>5 DEF Start
  <2>7. R!Bytes(p) = Start(p, n) /\ R!Bytes(q) = Start(q, n + 1)
    BY <2>1, StartLaw
  <2>8. Start(q, n + 1) = Start(q, n) \o R!Copies(b[1].of, b[1].len)
    <3>1. n + 1 \in 1..Len(q)
      BY <2>1, <2>4
    <3>2. Start(q, n + 1) = Start(q, (n + 1) - 1) \o R!Copies(q[n + 1].of, q[n + 1].len)
      BY <2>1, <3>1, StartLaw
    <3> QED BY <2>4, <2>5, <3>2
  <2> QED BY <1>2, <2>6, <2>7, <2>8 DEF q
<1> QED BY <1>1, <1>2

(* A response whose head is shorter than the first buffer is sent as its   *)
(* pieces are, one after the other.                                        *)
LEMMA SerializesExactly ==
  ASSUME NEW r \in Responses, NEW c \in Name, NEW n \in Nat, HeadLen(r) < ResponseBufSize
  PROVE  LET sent0 == R!Serialize(r, c, [of |-> "stray", len |-> n])
         IN  ~sent0.overrun /\ R!SentBytes(sent0) = R!Exactly(r, c)
<1> DEFINE again == [of |-> "stray", len |-> n]
           p == R!HeadPieces(r, c)
           q == R!HeadPieces(r, "")
           b == R!BodyPieces(r)
           k == Len(p)
           text == Start(p, k)
           head == PrintedTo(again, p, k)
           done == R!Serialize(r, c, again)
<1>1. again \in Piece
  BY NamesFit DEF Piece
<1> HIDE DEF again
<1>2. /\ p \in Seq(Piece) /\ q \in Seq(Piece) /\ Len(p) = Len(q)
      /\ (\A i \in 1..Len(p) : p[i].len = q[i].len)
      /\ b \in Seq(Piece) /\ Len(b) \in {0, 1}
  <2> DEFINE d == ""
  <2>1. d \in Name
    BY NamesFit
  <2> HIDE DEF d
  <2> DEFINE w == R!HeadPieces(r, d)
  <2>2. /\ p \in Seq(Piece) /\ w \in Seq(Piece) /\ Len(p) = Len(w)
        /\ (\A i \in 1..Len(p) : p[i].len = w[i].len)
        /\ b \in Seq(Piece) /\ Len(b) \in {0, 1}
    BY <2>1, PiecesFit
  <2>3. w = q
    BY DEF d
  <2> HIDE DEF w, p, q, b
  <2> QED BY <2>2, <2>3
<1>3. done = Copied(head, b)[DOMAIN b]
  <2>1. DOMAIN p = 1..k
    BY <1>2, LenProperties
  <2> QED BY <2>1, SerializeIsEntry DEF PrintedTo
<1>4. R!Exactly(r, c) = R!Bytes(p \o b)
  BY DEF R!Exactly
<1>5. HeadLen(r) = Len(R!Bytes(q))
  BY DEF HeadLen
<1> HIDE DEF p, q, b, done
<1>6. k \in Nat /\ k \in 0..k
  BY <1>2, LenProperties
<1>7. Len(text) < ResponseBufSize /\ text \in Seq(Name) /\ R!Bytes(p) = text
  <2>1. R!Bytes(q) = Start(q, k) /\ R!Bytes(p) = text /\ text \in Seq(Name)
    BY <1>2, <1>6, StartLaw
  <2>2. Len(Start(p, k)) = Len(Start(q, k))
    BY <1>2, <1>6, StartLengths
  <2> QED BY <1>5, <2>1, <2>2
<1>8. Begins(head, text)
  BY <1>1, <1>2, <1>6, <1>7, PrintsExactly
<1> HIDE DEF k, text, head
<1>9. /\ Bounded(head) /\ head \in Out /\ ~head.overrun /\ head.size = Len(text)
      /\ head.size <= Len(head.buf) /\ \A i \in 1..head.size : head.buf[i] = text[i]
  <2>1. Len(text) \in Nat
    BY <1>7, LenProperties
  <2> QED BY <1>7, <1>8, <2>1, ResponseBufSizeAssumption DEF Begins, Bounded
<1>10. Copied(head, b)[DOMAIN b] = IF Len(b) = 0 THEN head ELSE R!Grwmemcpy(head, b[1])
  <2>1. DOMAIN b = 1..Len(b)
    BY <1>2, LenProperties
  <2> QED BY ZenonT(60), <1>2, <2>1, CopyLaw
<1>11. R!Bytes(p \o b) = IF Len(b) = 0 THEN text ELSE text \o R!Copies(b[1].of, b[1].len)
  BY <1>2, <1>7, BytesOfMore
<1>12. CASE Len(b) = 0
  <2>1. done = head /\ R!Exactly(r, c) = text
    BY <1>3, <1>4, <1>10, <1>11, <1>12
  <2>2. R!SentBytes(head) = text
    BY <1>7, <1>9, SentIs
  <2> QED BY <1>9, <2>1, <2>2 DEF done, again
<1>13. CASE Len(b) = 1
  <2> DEFINE piece == b[1]
             more == text \o R!Copies(piece.of, piece.len)
  <2>1. piece \in Piece
    <3>1. 1 \in 1..Len(b)
      BY <1>13
    <3> QED BY <1>2, <3>1, ElementOfSeq
  <2>2. done = R!Grwmemcpy(head, piece) /\ R!Exactly(r, c) = more
    BY <1>3, <1>4, <1>10, <1>11, <1>13
  <2>3. more \in Seq(Name)
    <3> DEFINE t == R!Copies(piece.of, piece.len)
    <3>1. piece.of \in Name /\ piece.len \in Nat
      BY <2>1 DEF Piece
    <3>2. t \in Seq(Name)
      BY <3>1, CopiesFit
    <3> HIDE DEF t
    <3> QED BY <1>7, <3>2, ConcatProperties DEF t
  <2> HIDE DEF piece
  <2>4. Bounded(done) /\ done.size <= Len(done.buf) /\ Appended(head, done, piece)
    BY <1>9, <2>1, <2>2, GrwmemcpyFits
  <2>5. done.size = Len(more) /\ \A i \in 1..done.size : done.buf[i] = more[i]
    BY <1>7, <1>8, <2>1, <2>4, AppendedBegins
  <2>6. done \in Out /\ ~done.overrun
    BY <1>9, <2>4 DEF Bounded, Appended
  <2> HIDE DEF more
  <2>7. R!SentBytes(done) = more
    BY <2>3, <2>4, <2>5, <2>6, SentIs
  <2> QED BY <2>2, <2>6, <2>7 DEF done, again
<1> QED BY <1>2, <1>12, <1>13
=============================================================================
