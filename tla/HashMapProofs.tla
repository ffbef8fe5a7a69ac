---------------------------- MODULE HashMapProofs ----------------------------
(***************************************************************************)
(* Proofs about the hash table, for every hash function, every smallest    *)
(* size, load factor and growth: robin hood hashing keeps its order, the   *)
(* count is right, every table that is probed has a free bucket, and the   *)
(* table implements the map of MapSpec.                                    *)
(*                                                                         *)
(* The order is kept by a local condition, of a bucket and the one before  *)
(* it; that no probe walks around the table follows from it and from the   *)
(* free bucket, which follows from the count.  In a backward shift the     *)
(* table is looked at as if the bucket to be filled were free already.     *)
(*                                                                         *)
(* The refinement needs that no key is in two places (the table, the two   *)
(* of a resize, the entry in hand) and what each loop has done of its      *)
(* call.  A free bucket, or an entry nearer to its home than the probe is, *)
(* tells that the key is nowhere: HoldsBack carries the order from bucket  *)
(* to bucket.                                                              *)
(***************************************************************************)
EXTENDS HashMap, FiniteSums

-----------------------------------------------------------------------------
(* Indices of a table of n buckets.                                        *)
Before(i, n) == (i - 1) % n
Since(h, i, n) == (i - h) % n

(* One step forward and one back.                                          *)
LEMMA Neighbours ==
  ASSUME NEW n \in Nat \ {0}, NEW i \in 0..n - 1
  PROVE  /\ Succ(i, n) \in 0..n - 1 /\ Before(i, n) \in 0..n - 1
         /\ Before(Succ(i, n), n) = i /\ Succ(Before(i, n), n) = i
         /\ n > 1 => Succ(i, n) # i /\ Before(i, n) # i
<1>1. Succ(i, n) = IF i = n - 1 THEN 0 ELSE i + 1
  BY DEF Succ
<1>2. \A j \in 0..n - 1 : Before(j, n) = IF j = 0 THEN n - 1 ELSE j - 1
  BY DEF Before
<1>3. \A j \in 0..n - 1 : Succ(j, n) = IF j = n - 1 THEN 0 ELSE j + 1
  BY DEF Succ
<1> QED BY <1>1, <1>2, <1>3

(* The distance from home grows by one with each step, up to n - 1.        *)
LEMMA Distance ==
  ASSUME NEW n \in Nat \ {0}, NEW i \in 0..n - 1, NEW h \in 0..n - 1
  PROVE  /\ Since(h, i, n) \in 0..n - 1
         /\ Since(i, i, n) = 0
         /\ Since(h, i, n) < n - 1 => Since(h, Succ(i, n), n) = Since(h, i, n) + 1
         /\ Since(h, Succ(i, n), n) > 0 => Since(h, i, n) = Since(h, Succ(i, n), n) - 1
<1>1. \A j \in 0..n - 1 : Since(h, j, n) = IF j >= h THEN j - h ELSE j - h + n
  BY DEF Since
<1>2. Succ(i, n) = IF i = n - 1 THEN 0 ELSE i + 1
  BY DEF Succ
<1>3. Since(i, i, n) = 0
  BY DEF Since
<1> QED BY <1>1, <1>2, <1>3

(* The index at a distance from another.                                   *)
LEMMA Along ==
  ASSUME NEW n \in Nat \ {0}, NEW f \in 0..n - 1, NEW i \in 0..n - 1, i # f
  PROVE  Before(i, n) \in 0..n - 1 /\ Since(f, Before(i, n), n) = Since(f, i, n) - 1
<1>1. \A j \in 0..n - 1 : Since(f, j, n) = IF j >= f THEN j - f ELSE j - f + n
  BY DEF Since
<1>2. Before(i, n) = IF i = 0 THEN n - 1 ELSE i - 1
  BY DEF Before
<1> QED BY <1>1, <1>2

(* A table that is not empty has a first index.                            *)
LEMMA FirstIndex == \A n \in Nat : n > 0 => 0 \in 0..n - 1
OBVIOUS

(* The home of a key is an index.                                          *)
LEMMA HomeIndex ==
  ASSUME NEW n \in Nat \ {0}, NEW k \in Keys
  PROVE  Home(k, n) \in 0..n - 1
<1>1. Hash[k] \in Nat
  BY HashAssumption
<1> QED BY <1>1 DEF Home

-----------------------------------------------------------------------------
(* A table in robin hood order, and an entry looking for its place there.  *)
Placed(t, n, i) ==
  t[i].dib # 0 => t[i].key \in Keys /\ t[i].dib = 1 + Since(Home(t[i].key, n), i, n)
Stepped(t, n, i) == t[i].dib <= t[Before(i, n)].dib + 1
Typed(t, n) == n \in Nat \ {0, 1} /\ t \in [0..n - 1 -> Entries]
Ordered(t, n) ==
  /\ Typed(t, n)
  /\ \A i \in 0..n - 1 : Placed(t, n, i) /\ Stepped(t, n, i)

Probing(t, n, e, p) ==
  /\ e \in Entries /\ e.key \in Keys /\ p \in 0..n - 1
  /\ e.dib = 1 + Since(Home(e.key, n), p, n)
  /\ e.dib <= t[Before(p, n)].dib + 1

(* No entry is further from its home than from the free bucket behind it.  *)
LEMMA HomeAfterFree ==
  ASSUME NEW t, NEW n, Ordered(t, n), NEW f \in 0..n - 1, t[f].dib = 0, NEW i \in 0..n - 1
  PROVE  t[i].dib <= Since(f, i, n)
<1> DEFINE Bad == {Since(f, j, n) : j \in {k \in 0..n - 1 : ~(t[k].dib <= Since(f, k, n))}}
<1>1. n \in Nat \ {0} /\ \A j \in 0..n - 1 : t[j].dib \in Nat /\ Since(f, j, n) \in Nat
  <2>1. n \in Nat \ {0} /\ \A j \in 0..n - 1 : t[j].dib \in Nat
    BY DEF Ordered, Typed, Entries
  <2>2. \A j \in 0..n - 1 : Since(f, j, n) \in 0..n - 1
    BY <2>1, Distance
  <2> QED BY <2>1, <2>2
<1>2. SUFFICES ASSUME Since(f, i, n) \in Bad PROVE FALSE
  OBVIOUS
<1>3. PICK m \in Bad : \A k \in Bad : m <= k
  <2>1. Bad \in SUBSET Nat
    BY <1>1
  <2> HIDE DEF Bad
  <2> QED BY <1>2, <2>1, LeastNumber
<1>4. PICK j \in 0..n - 1 : m = Since(f, j, n) /\ ~(t[j].dib <= Since(f, j, n))
  BY <1>3
<1>5. j # f
  <2>1. Since(f, f, n) = 0
    BY <1>1, Distance
  <2> QED BY <1>4, <2>1
<1> DEFINE b == Before(j, n)
<1>6. b \in 0..n - 1 /\ Since(f, b, n) = m - 1 /\ m \in Nat
  BY <1>1, <1>4, <1>5, Along
<1>7. t[b].dib <= m - 1
  <2>1. Since(f, b, n) \notin Bad
    BY <1>3, <1>6
  <2> QED BY <1>6, <2>1
<1>8. t[j].dib <= t[b].dib + 1
  BY DEF Ordered, Stepped
<1>9. t[j].dib \in Nat /\ t[b].dib \in Nat
  BY <1>1, <1>6
<1> HIDE DEF b
<1> QED BY <1>4, <1>6, <1>7, <1>8, <1>9

(* An entry at a used bucket has not gone around the table.                *)
LEMMA NotAround ==
  ASSUME NEW t, NEW n, Ordered(t, n), \E f \in 0..n - 1 : t[f].dib = 0,
         NEW e, NEW p, Probing(t, n, e, p), t[p].dib # 0
  PROVE  /\ Since(Home(e.key, n), p, n) < n - 1
         /\ Since(Home(t[p].key, n), p, n) < n - 1
<1>1. n \in Nat \ {0, 1} /\ p \in 0..n - 1 /\ (\A j \in 0..n - 1 : t[j].dib \in Nat) /\ e.dib \in Nat
  BY DEF Ordered, Typed, Entries, Probing
<1>2. PICK f \in 0..n - 1 : t[f].dib = 0
  OBVIOUS
<1>3. p # f
  BY <1>2
<1>4. /\ Before(p, n) \in 0..n - 1 /\ Since(f, Before(p, n), n) = Since(f, p, n) - 1
      /\ Since(f, p, n) \in 0..n - 1
  BY <1>1, <1>3, Along, Distance
<1>5. t[p].dib <= Since(f, p, n) /\ t[Before(p, n)].dib <= Since(f, p, n) - 1
  BY <1>1, <1>2, <1>4, HomeAfterFree
<1>6. e.dib <= n - 1 /\ t[p].dib <= n - 1
  BY <1>1, <1>4, <1>5 DEF Probing
<1>7. Home(e.key, n) \in 0..n - 1 /\ Home(t[p].key, n) \in 0..n - 1
  BY <1>1, HomeIndex DEF Ordered, Placed, Probing
<1>8. Since(Home(e.key, n), p, n) \in Nat /\ Since(Home(t[p].key, n), p, n) \in Nat
  BY <1>1, <1>7, Distance
<1> QED BY <1>1, <1>6, <1>8 DEF Probing, Ordered, Placed

(* A free bucket may take the entry.                                       *)
LEMMA TakeFree ==
  ASSUME NEW t, NEW n, Ordered(t, n), NEW e, NEW p, Probing(t, n, e, p), t[p].dib = 0
  PROVE  Ordered([t EXCEPT ![p] = e], n)
<1> DEFINE u == [t EXCEPT ![p] = e]
<1>1. n \in Nat \ {0, 1} /\ p \in 0..n - 1 /\ t \in [0..n - 1 -> Entries] /\ e \in Entries
  BY DEF Ordered, Typed, Probing
<1>2. u \in [0..n - 1 -> Entries] /\ u[p] = e /\ \A i \in 0..n - 1 : i # p => u[i] = t[i]
  BY <1>1
<1>3. \A i \in 0..n - 1 : t[i].dib \in Nat
  BY <1>1 DEF Entries
<1> HIDE DEF u
<1>4. ASSUME NEW i \in 0..n - 1 PROVE Placed(u, n, i)
  BY <1>2 DEF Placed, Ordered, Probing
<1>5. ASSUME NEW i \in 0..n - 1 PROVE Stepped(u, n, i)
  <2>1. Before(i, n) \in 0..n - 1 /\ Before(p, n) \in 0..n - 1 /\ Before(p, n) # p
    <3>1. n \in Nat \ {0} /\ n > 1
      BY <1>1
    <3> QED BY <1>1, <3>1, Neighbours
  <2>2. CASE i = p
    <3>1. u[i] = e /\ u[Before(i, n)] = t[Before(i, n)]
      BY <1>2, <2>1, <2>2
    <3> QED BY <2>2, <3>1 DEF Probing, Stepped
  <2>3. CASE i # p /\ Before(i, n) # p
    BY <1>2, <2>1, <2>3 DEF Ordered, Stepped
  <2>4. CASE i # p /\ Before(i, n) = p
    <3>1. t[i].dib <= 1
      BY <2>4 DEF Ordered, Stepped
    <3>2. u[i].dib = t[i].dib /\ u[Before(i, n)].dib \in Nat
      BY <1>1, <1>2, <2>4 DEF Entries
    <3> QED BY <1>3, <3>1, <3>2 DEF Stepped
  <2> QED BY <2>2, <2>3, <2>4
<1>6. Ordered(u, n)
  BY <1>1, <1>2, <1>4, <1>5 DEF Ordered, Typed
<1> QED BY <1>6 DEF u

(* An entry further from home may take the place of another.               *)
LEMMA TakePlace ==
  ASSUME NEW t, NEW n, Ordered(t, n), \E f \in 0..n - 1 : t[f].dib = 0,
         NEW e, NEW p, Probing(t, n, e, p), t[p].dib # 0, t[p].dib < e.dib
  PROVE  LET u == [t EXCEPT ![p] = e]
         IN  Ordered(u, n) /\ Probing(u, n, Further(t[p]), Succ(p, n))
<1> DEFINE u == [t EXCEPT ![p] = e]
           s == Succ(p, n)
<1>1. n \in Nat \ {0, 1} /\ p \in 0..n - 1 /\ t \in [0..n - 1 -> Entries] /\ e \in Entries
  BY DEF Ordered, Typed, Probing
<1>2. u \in [0..n - 1 -> Entries] /\ u[p] = e /\ \A i \in 0..n - 1 : i # p => u[i] = t[i]
  BY <1>1
<1>3. e.dib \in Nat /\ \A i \in 0..n - 1 : t[i].dib \in Nat
  BY <1>1 DEF Entries
<1> HIDE DEF u
<1>4. ASSUME NEW i \in 0..n - 1 PROVE Placed(u, n, i)
  BY <1>2 DEF Placed, Ordered, Probing
<1>5. ASSUME NEW i \in 0..n - 1 PROVE Stepped(u, n, i)
  <2>1. Before(i, n) \in 0..n - 1 /\ Before(p, n) \in 0..n - 1 /\ Before(p, n) # p
    <3>1. n \in Nat \ {0} /\ n > 1
      BY <1>1
    <3> QED BY <1>1, <3>1, Neighbours
  <2>2. CASE i = p
    <3>1. u[i] = e /\ u[Before(i, n)] = t[Before(i, n)]
      BY <1>2, <2>1, <2>2
    <3> QED BY <2>2, <3>1 DEF Probing, Stepped
  <2>3. CASE i # p /\ Before(i, n) # p
    BY <1>2, <2>1, <2>3 DEF Ordered, Stepped
  <2>4. CASE i # p /\ Before(i, n) = p
    <3>1. t[i].dib <= t[p].dib + 1
      BY <2>4 DEF Ordered, Stepped
    <3>2. u[i].dib = t[i].dib /\ u[Before(i, n)].dib = e.dib
      BY <1>2, <2>4
    <3> QED BY <1>1, <1>3, <3>1, <3>2 DEF Stepped
  <2> QED BY <2>2, <2>3, <2>4
<1>6. Ordered(u, n)
  BY <1>1, <1>2, <1>4, <1>5 DEF Ordered, Typed
<1>7. s \in 0..n - 1 /\ Before(s, n) = p
  BY <1>1, Neighbours
<1>8. /\ Further(t[p]) \in Entries /\ Further(t[p]).key = t[p].key
      /\ Further(t[p]).dib = t[p].dib + 1 /\ t[p].key \in Keys
  <2>1. t[p] \in Entries /\ t[p].key \in Keys
    BY <1>1 DEF Ordered, Placed
  <2> QED BY <2>1 DEF Further, Entries
<1>9. Home(t[p].key, n) \in 0..n - 1
  BY <1>1, <1>8, HomeIndex
<1>10. Since(Home(t[p].key, n), s, n) = Since(Home(t[p].key, n), p, n) + 1
  BY <1>1, <1>9, NotAround, Distance
<1>11. t[p].dib = 1 + Since(Home(t[p].key, n), p, n)
  BY <1>1 DEF Ordered, Placed
<1>12. Since(Home(t[p].key, n), p, n) \in Nat
  BY <1>1, <1>9, Distance
<1> HIDE DEF s
<1>13. Further(t[p]).dib <= u[Before(s, n)].dib + 1
  BY <1>1, <1>2, <1>3, <1>7, <1>8
<1>14. Further(t[p]).dib = 1 + Since(Home(t[p].key, n), s, n)
  BY <1>8, <1>10, <1>11, <1>12
<1>15. Probing(u, n, Further(t[p]), s)
  BY <1>7, <1>8, <1>13, <1>14 DEF Probing
<1> QED BY <1>6, <1>15 DEF u, s

(* Any other entry goes on.                                                *)
LEMMA GoOn ==
  ASSUME NEW t, NEW n, Ordered(t, n), \E f \in 0..n - 1 : t[f].dib = 0,
         NEW e, NEW p, Probing(t, n, e, p), t[p].dib # 0, ~(t[p].dib < e.dib)
  PROVE  Probing(t, n, Further(e), Succ(p, n))
<1> DEFINE s == Succ(p, n)
<1>1. n \in Nat \ {0, 1} /\ p \in 0..n - 1 /\ e \in Entries /\ t[p] \in Entries
  BY DEF Ordered, Typed, Probing
<1>2. s \in 0..n - 1 /\ Before(s, n) = p
  BY <1>1, Neighbours
<1>3. /\ Further(e) \in Entries /\ Further(e).key = e.key /\ Further(e).dib = e.dib + 1
      /\ e.key \in Keys /\ e.dib \in Nat /\ t[p].dib \in Nat
  BY <1>1 DEF Further, Entries, Probing
<1>4. Home(e.key, n) \in 0..n - 1
  BY <1>1, <1>3, HomeIndex
<1>5. Since(Home(e.key, n), s, n) = Since(Home(e.key, n), p, n) + 1
  BY <1>1, <1>4, NotAround, Distance
<1>6. e.dib = 1 + Since(Home(e.key, n), p, n) /\ Since(Home(e.key, n), p, n) \in Nat
  BY <1>1, <1>4, Distance DEF Probing
<1> HIDE DEF s
<1>7. Probing(t, n, Further(e), s)
  BY <1>1, <1>2, <1>3, <1>5, <1>6 DEF Probing
<1> QED BY <1>7 DEF s

-----------------------------------------------------------------------------
(* The backward shift.  A table with a hole at p, where only the entry     *)
(* behind the hole may be two further from home than the one before it.    *)
Holed(t, n, p) ==
  /\ Typed(t, n) /\ p \in 0..n - 1 /\ t[p] = Free
  /\ \A i \in 0..n - 1 : Placed(t, n, i) /\ (i # Succ(p, n) => Stepped(t, n, i))
  /\ t[Succ(p, n)].dib <= t[Before(p, n)].dib + 2

Vacate(t, p) == [t EXCEPT ![p] = Free]
MovedBack(t, p, s) == [t EXCEPT ![p] = [t[s] EXCEPT !.dib = @ - 1], ![s] = Free]

(* A free bucket is an entry of a table.                                   *)
LEMMA FreeEntry == Free \in Entries /\ Free.dib = 0
BY DEF Free, Entries

(* Taking an entry out leaves a hole.                                      *)
LEMMA HoleMade ==
  ASSUME NEW t, NEW n, Ordered(t, n), NEW p \in 0..n - 1
  PROVE  Holed(Vacate(t, p), n, p)
<1> DEFINE u == Vacate(t, p)
           s == Succ(p, n)
           b == Before(p, n)
<1>1. n \in Nat \ {0} /\ n > 1 /\ t \in [0..n - 1 -> Entries] /\ \A i \in 0..n - 1 : t[i].dib \in Nat
  BY DEF Ordered, Typed, Entries
<1>2. u \in [0..n - 1 -> Entries] /\ u[p] = Free /\ \A i \in 0..n - 1 : i # p => u[i] = t[i]
  BY <1>1, FreeEntry DEF Vacate
<1>3. /\ s \in 0..n - 1 /\ b \in 0..n - 1 /\ Before(s, n) = p /\ s # p /\ b # p
      /\ \A i \in 0..n - 1 : Before(i, n) \in 0..n - 1 /\ (Before(i, n) = p => i = s)
  <2>1. \A i \in 0..n - 1 : Before(i, n) \in 0..n - 1 /\ Succ(Before(i, n), n) = i
    BY <1>1, Neighbours
  <2>2. s \in 0..n - 1 /\ b \in 0..n - 1 /\ Before(s, n) = p /\ s # p /\ b # p
    BY <1>1, Neighbours
  <2> QED BY <2>1, <2>2
<1> HIDE DEF u, s, b
<1>4. ASSUME NEW i \in 0..n - 1 PROVE Placed(u, n, i)
  BY <1>2, FreeEntry DEF Placed, Ordered
<1>5. ASSUME NEW i \in 0..n - 1, i # s PROVE Stepped(u, n, i)
  <2>1. Before(i, n) \in 0..n - 1 /\ u[Before(i, n)] = t[Before(i, n)]
    BY <1>2, <1>3, <1>5
  <2>2. CASE i # p
    BY <1>2, <2>1, <2>2 DEF Ordered, Stepped
  <2>3. CASE i = p
    <3>1. u[i].dib = 0 /\ u[Before(i, n)].dib \in Nat
      BY <1>1, <1>2, <2>1, <2>3, FreeEntry
    <3> QED BY <3>1 DEF Stepped
  <2> QED BY <2>2, <2>3
<1>6. u[s].dib <= u[b].dib + 2
  <2>1. t[s].dib <= t[p].dib + 1 /\ t[p].dib <= t[b].dib + 1
    BY <1>3 DEF Ordered, Stepped, b
  <2>2. u[s] = t[s] /\ u[b] = t[b]
    BY <1>2, <1>3
  <2>3. t[s].dib \in Nat /\ t[b].dib \in Nat /\ t[p].dib \in Nat
    BY <1>1, <1>3
  <2> QED BY <2>1, <2>2, <2>3
<1> QED BY <1>1, <1>2, <1>4, <1>5, <1>6 DEF Holed, Typed, u, s, b

(* Where the next entry is at home or there is none, the hole may stay.    *)
LEMMA HoleLeft ==
  ASSUME NEW t, NEW n, NEW p, Holed(t, n, p), t[Succ(p, n)].dib <= 1
  PROVE  Ordered(t, n)
<1>1. n \in Nat \ {0} /\ p \in 0..n - 1 /\ t[p].dib = 0
  BY FreeEntry DEF Holed, Typed
<1>2. Succ(p, n) \in 0..n - 1 /\ Before(Succ(p, n), n) = p
  BY <1>1, Neighbours
<1>3. Stepped(t, n, Succ(p, n))
  BY <1>1, <1>2 DEF Stepped
<1> QED BY <1>3 DEF Holed, Ordered

(* An entry that is not at home moves back, and the hole with it.          *)
LEMMA HoleMoved ==
  ASSUME NEW t, NEW n, NEW p, Holed(t, n, p), t[Succ(p, n)].dib > 1
  PROVE  Holed(MovedBack(t, p, Succ(p, n)), n, Succ(p, n))
<1> DEFINE s == Succ(p, n)
           q == Succ(s, n)
           b == Before(p, n)
           u == MovedBack(t, p, s)
           e == [t[s] EXCEPT !.dib = @ - 1]
<1>1. /\ n \in Nat \ {0} /\ n > 1 /\ t \in [0..n - 1 -> Entries]
      /\ p \in 0..n - 1 /\ t[p].dib = 0 /\ \A i \in 0..n - 1 : t[i].dib \in Nat
  BY SMTT(30), FreeEntry DEF Holed, Typed, Entries
<1>2. /\ s \in 0..n - 1 /\ b \in 0..n - 1 /\ Before(s, n) = p /\ s # p /\ b # p
      /\ \A i \in 0..n - 1 : Before(i, n) \in 0..n - 1 /\ Succ(Before(i, n), n) = i
  BY <1>1, Neighbours
<1>3. q \in 0..n - 1 /\ Before(q, n) = s /\ q # s
  BY <1>1, <1>2, Neighbours
<1>4. /\ t[s] \in Entries /\ t[s].dib > 1 /\ t[s].dib \in Nat
      /\ t[s].key \in Keys /\ t[s].dib = 1 + Since(Home(t[s].key, n), s, n)
  <2>1. t[s] \in Entries /\ t[s].dib > 1 /\ t[s].dib \in Nat
    BY <1>1, <1>2
  <2> QED BY <1>2, <2>1 DEF Holed, Placed
<1>5. e \in Entries /\ e.key = t[s].key /\ e.dib = t[s].dib - 1 /\ e.dib \in Nat
  BY <1>4 DEF Entries
<1>6. /\ u \in [0..n - 1 -> Entries] /\ u[p] = e /\ u[s] = Free
      /\ \A i \in 0..n - 1 : i \notin {p, s} => u[i] = t[i]
  BY <1>1, <1>2, <1>5, FreeEntry DEF MovedBack
<1> HIDE DEF u, e, q, s, b
<1>7. Placed(u, n, p)
  <2>1. Home(t[s].key, n) \in 0..n - 1
    BY <1>1, <1>4, HomeIndex
  <2>2. Since(Home(t[s].key, n), s, n) \in 0..n - 1
    BY <1>1, <1>2, <2>1, Distance
  <2>3. Since(Home(t[s].key, n), p, n) = Since(Home(t[s].key, n), s, n) - 1
    BY <1>1, <1>4, <2>1, <2>2, Distance DEF s
  <2> QED BY <1>4, <1>5, <1>6, <2>2, <2>3 DEF Placed
<1>8. ASSUME NEW i \in 0..n - 1 PROVE Placed(u, n, i)
  BY <1>6, <1>7, FreeEntry DEF Placed, Holed
<1>9. t[s].dib <= t[b].dib + 2
  BY DEF Holed, s, b
<1>10. ASSUME NEW i \in 0..n - 1, i # q PROVE Stepped(u, n, i)
  <2>1. Before(i, n) \in 0..n - 1 /\ Before(i, n) # s
    BY <1>2, <1>10 DEF q
  <2>2. CASE i = s
    <3>1. u[i].dib = 0 /\ u[Before(i, n)].dib = e.dib
      BY <1>2, <1>6, <2>2, FreeEntry
    <3> QED BY <1>5, <3>1 DEF Stepped
  <2>3. CASE i = p
    <3>1. Before(i, n) = b /\ b # s
      BY <2>1, <2>3 DEF b
    <3>2. u[i].dib = t[s].dib - 1 /\ u[Before(i, n)].dib = t[b].dib
      BY <1>2, <1>5, <1>6, <2>3, <3>1
    <3>3. t[b].dib \in Nat
      BY <1>1, <1>2
    <3> QED BY <1>4, <1>9, <3>2, <3>3 DEF Stepped
  <2>4. CASE i \notin {p, s}
    <3>1. Before(i, n) # p
      BY <1>2, <2>4 DEF s
    <3>2. u[i] = t[i] /\ u[Before(i, n)] = t[Before(i, n)]
      BY <1>6, <2>1, <2>4, <3>1
    <3>3. Stepped(t, n, i)
      BY <2>4 DEF Holed, s
    <3> QED BY <3>2, <3>3 DEF Stepped
  <2> QED BY <2>2, <2>3, <2>4
<1>11. u[q].dib <= u[p].dib + 2
  <2>1. CASE q = p
    BY <1>5, <1>6, <2>1
  <2>2. CASE q # p
    <3>1. t[q].dib <= t[s].dib + 1
      BY <1>3, <1>2 DEF Holed, Stepped, s
    <3>2. u[q] = t[q] /\ u[p].dib = t[s].dib - 1
      BY <1>3, <1>5, <1>6, <2>2
    <3> QED BY <1>1, <1>3, <1>4, <3>1, <3>2
  <2> QED BY <2>1, <2>2
<1>12. Holed(u, n, s)
  BY <1>1, <1>2, <1>6, <1>8, <1>10, <1>11 DEF Holed, Typed, q
<1> QED BY <1>12 DEF u, s

-----------------------------------------------------------------------------
(* How many buckets are used.                                              *)
Many(t) == Cardinality(Used(t))

(* The used buckets are finitely many, and if fewer than the buckets there *)
(* is a free one.                                                          *)
LEMMA Room ==
  ASSUME NEW t, NEW n, Typed(t, n)
  PROVE  /\ IsFiniteSet(Used(t)) /\ Many(t) \in Nat /\ Cardinality(DOMAIN t) = n
         /\ Many(t) < n => \E f \in 0..n - 1 : t[f].dib = 0
<1>1. n \in Nat /\ DOMAIN t = 0..n - 1
  BY DEF Typed
<1>2. IsFiniteSet(0..n - 1) /\ Cardinality(0..n - 1) = n
  BY <1>1, FS_Interval
<1>3. Used(t) \subseteq 0..n - 1
  BY <1>1 DEF Used
<1>4. IsFiniteSet(Used(t)) /\ Many(t) \in Nat
  BY <1>2, <1>3, FS_Subset, FS_CardinalityType DEF Many
<1>5. ASSUME Many(t) < n PROVE \E f \in 0..n - 1 : t[f].dib = 0
  <2>1. Used(t) # 0..n - 1
    BY <1>1, <1>2, <1>5 DEF Many
  <2> QED BY <1>1, <1>3, <2>1 DEF Used
<1> QED BY <1>1, <1>2, <1>4, <1>5

(* A bucket that changes from free to used, or back, or neither.           *)
LEMMA ManyAfter ==
  ASSUME NEW t, NEW n, Typed(t, n), NEW p \in 0..n - 1, NEW e \in Entries
  PROVE  LET u == [t EXCEPT ![p] = e]
         IN  /\ t[p].dib = 0 /\ e.dib # 0 => Many(u) = Many(t) + 1
             /\ t[p].dib # 0 /\ e.dib = 0 => Many(u) = Many(t) - 1
             /\ t[p].dib # 0 /\ e.dib # 0 => Many(u) = Many(t)
<1> DEFINE u == [t EXCEPT ![p] = e]
<1>1. DOMAIN t = 0..n - 1 /\ DOMAIN u = 0..n - 1 /\ u[p] = e /\ \A i \in 0..n - 1 : i # p => u[i] = t[i]
  BY DEF Typed
<1>2. IsFiniteSet(Used(t)) /\ Many(t) \in Nat
  BY Room
<1> HIDE DEF u
<1>3. Used(u) = IF e.dib # 0 THEN Used(t) \cup {p} ELSE Used(t) \ {p}
  BY <1>1 DEF Used
<1>4. p \in Used(t) <=> t[p].dib # 0
  BY <1>1 DEF Used
<1>5. CASE e.dib # 0
  <2>1. Cardinality(Used(t) \cup {p}) = IF p \in Used(t) THEN Many(t) ELSE Many(t) + 1
    BY <1>2, FS_AddElement DEF Many
  <2>2. Many(u) = IF t[p].dib # 0 THEN Many(t) ELSE Many(t) + 1
    BY <1>3, <1>4, <1>5, <2>1 DEF Many
  <2> QED BY <1>2, <1>5, <2>2 DEF u
<1>6. CASE e.dib = 0
  <2>1. Cardinality(Used(t) \ {p}) = IF p \in Used(t) THEN Many(t) - 1 ELSE Many(t)
    BY <1>2, FS_RemoveElement DEF Many
  <2>2. Many(u) = IF t[p].dib # 0 THEN Many(t) - 1 ELSE Many(t)
    BY <1>3, <1>4, <1>6, <2>1 DEF Many
  <2> QED BY <1>2, <1>6, <2>2 DEF u
<1> QED BY <1>5, <1>6

(* A table without entries is in order.                                    *)
LEMMA EmptyOrdered ==
  ASSUME NEW n \in Nat \ {0, 1}
  PROVE  Ordered(Empty(n), n) /\ Many(Empty(n)) = 0
<1>1. Empty(n) \in [0..n - 1 -> Entries] /\ \A i \in 0..n - 1 : Empty(n)[i].dib = 0
  BY FreeEntry DEF Empty
<1>2. \A i \in 0..n - 1 : Before(i, n) \in 0..n - 1
  BY Neighbours
<1>3. Used(Empty(n)) = {}
  BY <1>1 DEF Used
<1>4. Many(Empty(n)) = 0
  BY <1>3, FS_EmptySet DEF Many
<1> QED BY <1>1, <1>2, <1>4 DEF Ordered, Typed, Placed, Stepped

-----------------------------------------------------------------------------
(* The sizes a table has.                                                  *)

(* n is m doubled some number of times.                                    *)
Doubled(m, n) ==
  n \in Nat /\ \A S \in SUBSET Nat : m \in S /\ (\A x \in S : 2 * x \in S) => n \in S

(* Doubling once more, and taking a doubling back.                         *)
LEMMA DoubledStep ==
  ASSUME NEW m \in Nat \ {0, 1}
  PROVE  /\ Doubled(m, m)
         /\ \A n : Doubled(m, n) => Doubled(m, 2 * n) /\ n >= m
         /\ \A n : Doubled(m, n) /\ n # m => /\ Doubled(m, n \div 2)
                                            /\ n = 2 * (n \div 2)
<1>1. Doubled(m, m)
  BY DEF Doubled
<1>2. ASSUME NEW n, Doubled(m, n) PROVE Doubled(m, 2 * n)
  BY <1>2 DEF Doubled
<1>3. ASSUME NEW n, Doubled(m, n) PROVE n >= m
  <2> DEFINE S == {x \in Nat : x >= m}
  <2>1. S \in SUBSET Nat /\ m \in S /\ \A x \in S : 2 * x \in S
    OBVIOUS
  <2>2. n \in S
    BY <1>3, <2>1 DEF Doubled
  <2> QED BY <2>2
<1>4. ASSUME NEW n, Doubled(m, n), n # m
      PROVE  Doubled(m, n \div 2) /\ n = 2 * (n \div 2)
  <2> DEFINE S == {x \in Nat : x = m \/ \E y \in Nat : x = 2 * y /\ Doubled(m, y)}
  <2>1. \A x \in S : 2 * x \in S
    <3>1. SUFFICES ASSUME NEW x \in S PROVE Doubled(m, x)
      OBVIOUS
    <3> QED BY <1>1, <1>2
  <2>2. n \in S
    BY <1>4, <2>1 DEF Doubled
  <2>3. PICK y \in Nat : n = 2 * y /\ Doubled(m, y)
    BY <1>4, <2>2
  <2>4. n \div 2 = y
    BY <2>3
  <2> QED BY <2>3, <2>4
<1> QED BY <1>1, <1>2, <1>3, <1>4

(* Growth by a power of two is at least doubling.                          *)
LEMMA Grown ==
  ASSUME NEW p \in 1..16, NEW m \in Nat \ {0, 1}, NEW n, Doubled(m, n)
  PROVE  2 ^ p \in Nat /\ n * 2 ^ p \in Nat /\ n * 2 ^ p >= 2 * n /\ Doubled(m, n * 2 ^ p)
<1> DEFINE Fine(x) == x \in Nat /\ n * x \in Nat /\ n * x >= 2 * n /\ Doubled(m, n * x)
<1>1. n \in Nat
  BY DEF Doubled
<1>2. Fine(2)
  BY <1>1, DoubledStep
<1>3. ASSUME NEW x \in Nat, Fine(x) PROVE Fine(2 * x)
  <2>1. Doubled(m, 2 * (n * x))
    BY <1>3, DoubledStep
  <2>2. n * (2 * x) = 2 * (n * x)
    BY <1>1
  <2>3. n * x \in Nat /\ n * x >= 2 * n /\ 2 * (n * x) \in Nat
    BY <1>3
  <2>4. 2 * (n * x) >= 2 * n
    BY <1>1, <2>3
  <2> QED BY <2>1, <2>2, <2>3, <2>4
<1> HIDE DEF Fine
<1>4. Fine(4)
  <2>1. 4 = 2 * 2
    OBVIOUS
  <2> QED BY <1>3, <1>2, <2>1
<1>5. Fine(8)
  <2>1. 8 = 2 * 4
    OBVIOUS
  <2> QED BY <1>3, <1>4, <2>1
<1>6. Fine(16)
  <2>1. 16 = 2 * 8
    OBVIOUS
  <2> QED BY <1>3, <1>5, <2>1
<1>7. Fine(32)
  <2>1. 32 = 2 * 16
    OBVIOUS
  <2> QED BY <1>3, <1>6, <2>1
<1>8. Fine(64)
  <2>1. 64 = 2 * 32
    OBVIOUS
  <2> QED BY <1>3, <1>7, <2>1
<1>9. Fine(128)
  <2>1. 128 = 2 * 64
    OBVIOUS
  <2> QED BY <1>3, <1>8, <2>1
<1>10. Fine(256)
  <2>1. 256 = 2 * 128
    OBVIOUS
  <2> QED BY <1>3, <1>9, <2>1
<1>11. Fine(512)
  <2>1. 512 = 2 * 256
    OBVIOUS
  <2> QED BY <1>3, <1>10, <2>1
<1>12. Fine(1024)
  <2>1. 1024 = 2 * 512
    OBVIOUS
  <2> QED BY <1>3, <1>11, <2>1
<1>13. Fine(2048)
  <2>1. 2048 = 2 * 1024
    OBVIOUS
  <2> QED BY <1>3, <1>12, <2>1
<1>14. Fine(4096)
  <2>1. 4096 = 2 * 2048
    OBVIOUS
  <2> QED BY <1>3, <1>13, <2>1
<1>15. Fine(8192)
  <2>1. 8192 = 2 * 4096
    OBVIOUS
  <2> QED BY <1>3, <1>14, <2>1
<1>16. Fine(16384)
  <2>1. 16384 = 2 * 8192
    OBVIOUS
  <2> QED BY <1>3, <1>15, <2>1
<1>17. Fine(32768)
  <2>1. 32768 = 2 * 16384
    OBVIOUS
  <2> QED BY <1>3, <1>16, <2>1
<1>18. Fine(65536)
  <2>1. 65536 = 2 * 32768
    OBVIOUS
  <2> QED BY <1>3, <1>17, <2>1
<1>19. Fine(2 ^ p)
  <2>1. CASE p = 1
    BY <2>1, <1>2
  <2>2. CASE p = 2
    BY <2>2, <1>4
  <2>3. CASE p = 3
    BY <2>3, <1>5
  <2>4. CASE p = 4
    BY <2>4, <1>6
  <2>5. CASE p = 5
    BY <2>5, <1>7
  <2>6. CASE p = 6
    BY <2>6, <1>8
  <2>7. CASE p = 7
    BY <2>7, <1>9
  <2>8. CASE p = 8
    BY <2>8, <1>10
  <2>9. CASE p = 9
    BY <2>9, <1>11
  <2>10. CASE p = 10
    BY <2>10, <1>12
  <2>11. CASE p = 11
    BY <2>11, <1>13
  <2>12. CASE p = 12
    BY <2>12, <1>14
  <2>13. CASE p = 13
    BY <2>13, <1>15
  <2>14. CASE p = 14
    BY <2>14, <1>16
  <2>15. CASE p = 15
    BY <2>15, <1>17
  <2>16. CASE p = 16
    BY <2>16, <1>18
  <2> QED BY <2>1, <2>2, <2>3, <2>4, <2>5, <2>6, <2>7, <2>8, <2>9, <2>10, <2>11, <2>12, <2>13, <2>14, <2>15, <2>16
<1> QED BY <1>19 DEF Fine

(* A load factor leaves at least one bucket free, and so does shrinking.   *)
LEMMA LoadLeavesRoom ==
  ASSUME NEW n \in Nat \ {0, 1}
  PROVE  /\ \A f \in 50..95 : GrowAt(n, f) \in Nat /\ GrowAt(n, f) < n
         /\ ShrinkAt(n) \in Nat /\ (n >= 4 => ShrinkAt(n) < n \div 2)
<1>1. ASSUME NEW f \in 50..95 PROVE GrowAt(n, f) \in Nat /\ GrowAt(n, f) < n
  <2>1. n * f \in Nat /\ n * f <= n * 95
    OBVIOUS
  <2> QED BY <2>1 DEF GrowAt
<1>2. ShrinkAt(n) \in Nat /\ (n >= 4 => ShrinkAt(n) < n \div 2)
  BY DEF ShrinkAt, ShrinkLoad
<1> QED BY <1>1, <1>2

-----------------------------------------------------------------------------
(* The inductive invariant.                                                *)
tsize == Cardinality(DOMAIN table)
Resizing == op \in {"resize", "place"}
View == IF op = "shift" THEN Vacate(buckets, pos) ELSE buckets
CallsMade ==
  [op : {"set"}, key : Keys, val : Vals] \cup [op : {"get", "delete"}, key : Keys, val : {Null}]

Types ==
  /\ op \in {"idle", "enter", "set", "resize", "place", "get", "delete", "shift"}
  /\ oom \in BOOLEAN /\ spare \in Vals \cup {Null} /\ entry \in Entries
  /\ count \in Nat /\ from \in Nat
  /\ op # "place" => pos \in 0..nbuckets - 1

(* The sizes belong together, whatever was grown, shrunk and cleared.      *)
SizesFit ==
  /\ cap \in Nat \ {0, 1} /\ Doubled(cap, nbuckets) /\ alloc \in Nat /\ nbuckets <= alloc
  /\ loadfactor \in 50..95 /\ growpower \in 1..16
  /\ growat \in Nat /\ growat < nbuckets /\ shrinkat = ShrinkAt(nbuckets)

(* Each loop serves a call that has it.                                    *)
CallFits ==
  /\ op = "idle" => call = NoCall
  /\ op # "idle" => call \in CallsMade
  /\ op \in {"enter", "set"} => call.op = "set"
  /\ op \in {"delete", "shift"} => call.op = "delete"
  /\ op \in {"idle", "enter", "resize"} => pos = 0
  /\ ~Resizing => table = NoTable /\ from = 0

(* The table is in order, and has the entries that are counted.            *)
TableFits ==
  /\ Typed(buckets, nbuckets) /\ count < nbuckets
  /\ op # "shift" => Ordered(buckets, nbuckets) /\ Many(buckets) = count
  /\ op = "shift" => Holed(View, nbuckets, pos) /\ Many(View) = count - 1
  /\ op = "set" => Probing(buckets, nbuckets, entry, pos) /\ count + 1 < nbuckets

(* So has the new table, which has room for all that are to be moved.      *)
MoveFits ==
  Resizing =>
    /\ Ordered(table, tsize) /\ Doubled(cap, tsize) /\ tsize <= nbuckets * 2 ^ growpower
    /\ count < tsize /\ (call.op = "set" => count + 1 < tsize)
    /\ from \in 0..nbuckets
    /\ Many(table) + (IF op = "place" THEN 1 ELSE 0) = Cardinality({i \in Used(buckets) : i < from})
    /\ op = "place" => Probing(table, tsize, entry, pos)

IInv == Types /\ SizesFit /\ CallFits /\ TableFits /\ MoveFits

(* An entry that sets out is at home.                                      *)
LEMMA SetOut ==
  ASSUME NEW t, NEW n, Typed(t, n), NEW e \in Entries, e.key \in Keys, e.dib = 1
  PROVE  Probing(t, n, e, Home(e.key, n))
<1>1. n \in Nat \ {0} /\ Home(e.key, n) \in 0..n - 1
  BY HomeIndex DEF Typed
<1>2. Since(Home(e.key, n), Home(e.key, n), n) = 0 /\ Before(Home(e.key, n), n) \in 0..n - 1
  BY <1>1, Distance, Neighbours
<1>3. t[Before(Home(e.key, n), n)].dib \in Nat
  BY <1>1, <1>2 DEF Typed, Entries
<1> QED BY <1>1, <1>2, <1>3 DEF Probing

(* The calls of the library's user, but for hashmap_clear.                 *)
LEMMA CallsKeep ==
  ASSUME IInv,
         \/ \E f \in LoadFactors : SetLoadFactor(f)
         \/ \E p \in GrowPowers : SetGrowByPower(p)
         \/ \E k \in Keys : GetCall(k) \/ DeleteCall(k) \/ \E v \in Vals : SetCall(k, v)
  PROVE  IInv'
<1>1. ~Resizing /\ op = "idle" /\ nbuckets \in Nat \ {0, 1}
  BY DEF SetLoadFactor, SetGrowByPower, GetCall, DeleteCall, SetCall, Lookup, Resizing, IInv,
         TableFits, Typed
<1>2. CASE \E f \in LoadFactors : SetLoadFactor(f)
  <2>1. PICK f \in LoadFactors : SetLoadFactor(f)
    BY <1>2
  <2>2. f \in 50..95 /\ GrowAt(nbuckets, f) \in Nat /\ GrowAt(nbuckets, f) < nbuckets
    BY <1>1, SettersAssumption, LoadLeavesRoom
  <2> QED BY <1>1, <2>1, <2>2 DEF SetLoadFactor, moving, IInv, Types, SizesFit, CallFits,
                                  TableFits, MoveFits, Resizing, View
<1>3. CASE \E p \in GrowPowers : SetGrowByPower(p)
  <2>1. PICK p \in GrowPowers : SetGrowByPower(p)
    BY <1>3
  <2>2. p \in 1..16
    BY SettersAssumption
  <2> QED BY <1>1, <2>1, <2>2 DEF SetGrowByPower, sizes, moving, IInv, Types, SizesFit, CallFits,
                                  TableFits, MoveFits, Resizing, View
<1>4. CASE \E k \in Keys : GetCall(k) \/ DeleteCall(k) \/ \E v \in Vals : SetCall(k, v)
  <2>1. PICK k \in Keys : GetCall(k) \/ DeleteCall(k) \/ \E v \in Vals : SetCall(k, v)
    BY <1>4
  <2>2. Home(k, nbuckets) \in 0..nbuckets - 1
    BY <1>1, HomeIndex
  <2>3. /\ UNCHANGED <<buckets, nbuckets, cap, growat, shrinkat, alloc, count, loadfactor,
                       growpower, entry, table, from, spare>>
        /\ oom' \in BOOLEAN /\ call' \in CallsMade
        /\ \/ op' = "enter" /\ call'.op = "set" /\ UNCHANGED pos
           \/ op' \in {"get", "delete"} /\ call'.op = op' /\ pos' = Home(k, nbuckets)
    <3>1. ASSUME NEW name \in {"get", "delete"}, Lookup(name, k), oom' \in BOOLEAN PROVE <2>3!:
      <4>1. [op |-> name, key |-> k, val |-> Null] \in CallsMade
        BY DEF CallsMade
      <4> QED BY <3>1, <4>1 DEF Lookup, sizes, knobs, moving
    <3>2. CASE GetCall(k)
      BY <3>1, <3>2 DEF GetCall, IInv, Types
    <3>3. CASE DeleteCall(k)
      BY <3>1, <3>3 DEF DeleteCall
    <3>4. ASSUME NEW v \in Vals, SetCall(k, v) PROVE <2>3!:
      <4>1. [op |-> "set", key |-> k, val |-> v] \in CallsMade
        BY DEF CallsMade
      <4> QED BY <3>4, <4>1 DEF SetCall, sizes, knobs, moving
    <3> QED BY <2>1, <3>2, <3>3, <3>4
  <2> QED BY <1>1, <2>2, <2>3 DEF IInv, Types, SizesFit, CallFits, TableFits, MoveFits,
                                  Resizing, View
<1> QED BY <1>2, <1>3, <1>4

(* hashmap_clear leaves an empty table of a size that was allocated.       *)
LEMMA ClearKeeps ==
  ASSUME IInv, NEW u \in BOOLEAN, Clear(u)
  PROVE  IInv'
<1>1. /\ op = "idle" /\ op' = "idle" /\ nbuckets \in Nat \ {0, 1}
      /\ cap \in Nat \ {0, 1} /\ alloc \in Nat /\ nbuckets <= alloc /\ Doubled(cap, nbuckets)
  BY DEF Clear, IInv, TableFits, Typed, SizesFit
<1>2. /\ nbuckets' \in {nbuckets, cap} /\ cap' = nbuckets' /\ nbuckets' <= nbuckets
      /\ nbuckets' \in Nat \ {0, 1}
  BY <1>1, DoubledStep DEF Clear
<1>3. alloc' \in Nat /\ nbuckets' <= alloc'
  BY <1>1, <1>2 DEF Clear
<1>4. /\ growat' = GrowAt(nbuckets', loadfactor) /\ shrinkat' = ShrinkAt(nbuckets')
      /\ UNCHANGED <<loadfactor, growpower, oom, call, entry, pos, table, from, spare>>
      /\ pos = 0 /\ count' = 0 /\ buckets' = Empty(nbuckets')
  BY <1>1 DEF Clear, knobs, moving, IInv, CallFits
<1>5. SizesFit'
  <2>1. GrowAt(nbuckets', loadfactor) \in Nat /\ GrowAt(nbuckets', loadfactor) < nbuckets'
    BY <1>2, LoadLeavesRoom DEF IInv, SizesFit
  <2>2. Doubled(cap', nbuckets')
    BY <1>2, DoubledStep
  <2> QED BY <1>2, <1>3, <1>4, <2>1, <2>2 DEF IInv, SizesFit
<1>6. Ordered(buckets', nbuckets') /\ Many(buckets') = 0
  BY <1>2, <1>4, EmptyOrdered
<1>7. TableFits'
  <2>1. Typed(buckets', nbuckets')
    BY <1>6 DEF Ordered
  <2> QED BY <1>1, <1>2, <1>4, <1>6, <2>1 DEF TableFits
<1>8. Types'
  <2>1. nbuckets' \in Nat /\ nbuckets' > 0
    BY <1>2
  <2>2. pos' = 0
    BY <1>4
  <2>3. pos' \in 0..nbuckets' - 1
    BY <2>1, <2>2, FirstIndex
  <2>4. /\ oom' \in BOOLEAN /\ spare' \in Vals \cup {Null} /\ entry' \in Entries
        /\ count' \in Nat /\ from' \in Nat
    BY <1>4 DEF IInv, Types
  <2> QED BY <1>1, <2>3, <2>4 DEF Types
<1>9. CallFits' /\ MoveFits'
  BY <1>1, <1>4 DEF IInv, CallFits, MoveFits, Resizing
<1> QED BY <1>5, <1>7, <1>8, <1>9 DEF IInv

(* hashmap_set: to its loop, to the larger table, or back without memory.  *)
LEMMA EnterKeeps ==
  ASSUME IInv, EnterSet \/ EnterGrow \/ EnterOom
  PROVE  IInv'
<1> USE DEF IInv
<1>1. /\ op = "enter" /\ ~Resizing /\ call \in CallsMade /\ call.op = "set" /\ pos = 0
      /\ nbuckets \in Nat \ {0, 1} /\ Ordered(buckets, nbuckets) /\ Many(buckets) = count
      /\ Typed(buckets, nbuckets) /\ table = NoTable /\ from = 0
  BY DEF EnterSet, EnterGrow, EnterOom, Resizing, TableFits, Typed, CallFits
<1>2. CASE EnterSet
  <2>1. /\ call.key \in Keys /\ call.val \in Vals /\ entry' = [key |-> call.key, val |-> call.val, dib |-> 1]
        /\ op' = "set" /\ pos' = Home(call.key, nbuckets) /\ count < growat
        /\ UNCHANGED <<buckets, sizes, count, knobs, oom, call, moving, spare>>
    BY <1>1, <1>2 DEF EnterSet, StartSet, CallsMade
  <2>2. entry' \in Entries /\ entry'.key = call.key /\ entry'.dib = 1
    BY <2>1 DEF Entries
  <2>3. Probing(buckets, nbuckets, entry', pos')
    BY <1>1, <2>1, <2>2, SetOut
  <2>4. count + 1 < nbuckets
    BY <1>1, <2>1 DEF SizesFit, Types
  <2>5. pos' \in 0..nbuckets - 1
    BY <2>3 DEF Probing
  <2>6. Types'
    BY <2>1, <2>2, <2>5 DEF Types, sizes, moving
  <2>7. SizesFit' /\ CallFits' /\ MoveFits'
    BY <1>1, <2>1 DEF SizesFit, CallFits, MoveFits, Resizing, sizes, knobs, moving
  <2>8. TableFits'
    BY <1>1, <2>1, <2>3, <2>4 DEF TableFits, sizes, moving
  <2> QED BY <2>6, <2>7, <2>8
<1>3. CASE EnterGrow
  <2> DEFINE n == nbuckets * 2 ^ growpower
  <2>1. /\ op' = "resize" /\ table' = Empty(n) /\ from' = 0
        /\ UNCHANGED <<buckets, sizes, count, knobs, oom, call, entry, pos, spare>>
    BY <1>3 DEF EnterGrow, StartResize
  <2>2. n \in Nat /\ n >= 2 * nbuckets /\ Doubled(cap, n)
    BY Grown DEF SizesFit
  <2> HIDE DEF n
  <2>3. n \in Nat \ {0, 1} /\ count + 1 < n /\ count < n
    BY <1>1, <2>2 DEF TableFits, Types
  <2>4. Ordered(table', n) /\ Many(table') = 0
    BY <2>1, <2>3, EmptyOrdered
  <2>5. Cardinality(DOMAIN table') = n
    BY <2>4, Room DEF Ordered
  <2>6. Cardinality({i \in Used(buckets) : i < 0}) = 0
    <3>1. {i \in Used(buckets) : i < 0} = {}
      BY DEF Used, TableFits, Typed
    <3> QED BY <3>1, FS_EmptySet
  <2>7. MoveFits'
    BY <1>1, <2>1, <2>2, <2>3, <2>4, <2>5, <2>6 DEF MoveFits, Resizing, tsize, sizes, knobs, n
  <2>8. Types' /\ SizesFit' /\ CallFits' /\ TableFits'
    BY <1>1, <2>1 DEF Types, SizesFit, CallFits, TableFits, Resizing, sizes, knobs
  <2> QED BY <2>7, <2>8
<1>4. CASE EnterOom
  <2>1. /\ op' = "idle" /\ call' = NoCall /\ spare' = Null /\ entry' = Free /\ pos' = 0 /\ oom' = TRUE
        /\ UNCHANGED <<buckets, sizes, count, knobs, moving>>
    BY <1>4 DEF EnterOom, Return, Drop
  <2>2. Types'
    BY <1>1, <2>1, FreeEntry DEF Types, sizes, moving
  <2>3. SizesFit' /\ CallFits' /\ TableFits' /\ MoveFits'
    BY <1>1, <2>1 DEF SizesFit, CallFits, TableFits, MoveFits, Resizing, sizes, knobs, moving
  <2> QED BY <2>2, <2>3
<1> QED BY <1>2, <1>3, <1>4

(* One probe of hashmap_set.                                               *)
LEMMA SetStepKeeps ==
  ASSUME IInv, SetStep
  PROVE  IInv'
<1> USE DEF IInv
<1> DEFINE b == buckets[pos]
<1>1. /\ op = "set" /\ ~Resizing /\ call \in CallsMade /\ call.op = "set"
      /\ nbuckets \in Nat \ {0, 1} /\ Ordered(buckets, nbuckets) /\ Many(buckets) = count
      /\ Typed(buckets, nbuckets) /\ table = NoTable /\ from = 0 /\ count \in Nat
      /\ Probing(buckets, nbuckets, entry, pos) /\ count + 1 < nbuckets
      /\ UNCHANGED <<sizes, knobs, oom, moving>>
  BY DEF SetStep, Resizing, TableFits, Typed, CallFits, Types
<1>2. /\ pos \in 0..nbuckets - 1 /\ entry \in Entries /\ entry.dib # 0 /\ b \in Entries
      /\ \E f \in 0..nbuckets - 1 : buckets[f].dib = 0
  <2>1. pos \in 0..nbuckets - 1 /\ entry \in Entries /\ b \in Entries
    BY <1>1 DEF Probing, Typed
  <2>2. entry.dib # 0
    <3>1. Home(entry.key, nbuckets) \in 0..nbuckets - 1
      BY <1>1, HomeIndex DEF Probing
    <3>2. Since(Home(entry.key, nbuckets), pos, nbuckets) \in 0..nbuckets - 1
      BY <1>1, <2>1, <3>1, Distance
    <3> QED BY <1>1, <3>2 DEF Probing
  <2> QED BY <1>1, <2>1, <2>2, Room
<1>3. SizesFit'
  BY <1>1 DEF SizesFit, sizes, knobs
<1>4. CASE b.dib = 0
  <2>1. /\ buckets' = [buckets EXCEPT ![pos] = entry] /\ count' = count + 1
        /\ op' = "idle" /\ call' = NoCall /\ spare' = Null /\ entry' = Free /\ pos' = 0
    BY <1>4 DEF SetStep, Return, Drop
  <2>2. Ordered(buckets', nbuckets)
    BY <1>1, <1>4, <2>1, TakeFree
  <2>3. Many(buckets') = count + 1
    <3>1. buckets[pos].dib = 0 /\ entry.dib # 0 /\ pos \in 0..nbuckets - 1 /\ entry \in Entries
      BY <1>2, <1>4
    <3>2. Many([buckets EXCEPT ![pos] = entry]) = Many(buckets) + 1
      BY <1>1, <3>1, ManyAfter
    <3> QED BY <1>1, <2>1, <3>2
  <2>4. TableFits'
    BY <1>1, <2>1, <2>2, <2>3 DEF TableFits, Ordered, sizes
  <2>5. Types' /\ CallFits' /\ MoveFits'
    BY <1>1, <2>1, FreeEntry DEF Types, CallFits, MoveFits, Resizing, sizes, moving
  <2> QED BY <1>3, <2>4, <2>5
<1>5. CASE b.dib # 0 /\ b.key = entry.key
  <2>1. /\ buckets' = [buckets EXCEPT ![pos].val = entry.val] /\ count' = count
        /\ op' = "idle" /\ call' = NoCall /\ spare' = b.val /\ entry' = Free /\ pos' = 0
    BY <1>5 DEF SetStep, Return, Drop
  <2>2. /\ buckets' \in [0..nbuckets - 1 -> Entries]
        /\ \A i \in 0..nbuckets - 1 : buckets'[i].key = buckets[i].key
                                      /\ buckets'[i].dib = buckets[i].dib
    BY <1>1, <1>2, <2>1 DEF Typed, Entries
  <2>3. Ordered(buckets', nbuckets)
    <3>1. \A i \in 0..nbuckets - 1 : Before(i, nbuckets) \in 0..nbuckets - 1
      BY <1>1, Neighbours
    <3> QED BY <1>1, <2>2, <3>1 DEF Ordered, Typed, Placed, Stepped
  <2>4. Many(buckets') = count
    <3>1. Used(buckets') = Used(buckets)
      BY <1>1, <2>2 DEF Used, Typed
    <3> QED BY <1>1, <3>1 DEF Many
  <2>5. TableFits'
    BY <1>1, <2>1, <2>3, <2>4 DEF TableFits, Ordered, sizes
  <2>6. spare' \in Vals \cup {Null}
    BY <1>2, <2>1 DEF Entries
  <2>7. Types' /\ CallFits' /\ MoveFits'
    BY <1>1, <2>1, <2>6, FreeEntry DEF Types, CallFits, MoveFits, Resizing, sizes, moving
  <2> QED BY <1>3, <2>5, <2>7
<1>6. CASE b.dib # 0 /\ b.key # entry.key
  <2>1. /\ pos' = Succ(pos, nbuckets) /\ UNCHANGED <<count, op, call, spare>>
        /\ \/ /\ b.dib < entry.dib
              /\ buckets' = [buckets EXCEPT ![pos] = entry] /\ entry' = Further(b)
           \/ /\ ~(b.dib < entry.dib) /\ UNCHANGED buckets /\ entry' = Further(entry)
    BY <1>6 DEF SetStep, Nearer
  <2>2. /\ Ordered(buckets', nbuckets) /\ Many(buckets') = count
        /\ Probing(buckets', nbuckets, entry', pos')
    <3>1. CASE b.dib < entry.dib
      <4>1. buckets' = [buckets EXCEPT ![pos] = entry] /\ entry' = Further(b)
        BY <2>1, <3>1
      <4>2. Ordered(buckets', nbuckets) /\ Probing(buckets', nbuckets, entry', pos')
        BY <1>1, <1>2, <1>6, <2>1, <3>1, <4>1, TakePlace
      <4>3. Many(buckets') = count
        BY <1>1, <1>2, <1>6, <4>1, ManyAfter
      <4> QED BY <4>2, <4>3
    <3>2. CASE ~(b.dib < entry.dib)
      BY <1>1, <1>2, <1>6, <2>1, <3>2, GoOn
    <3> QED BY <3>1, <3>2
  <2>3. TableFits'
    BY <1>1, <2>1, <2>2 DEF TableFits, Ordered, sizes
  <2>4. entry' \in Entries /\ pos' \in 0..nbuckets - 1
    BY <2>2 DEF Probing
  <2>5. Types' /\ CallFits' /\ MoveFits'
    BY <1>1, <2>1, <2>4 DEF Types, CallFits, MoveFits, Resizing, sizes, moving
  <2> QED BY <1>3, <2>3, <2>5
<1> QED BY <1>4, <1>5, <1>6

(* The used buckets of a table before an index.                            *)
UsedBefore(t, j) == {i \in Used(t) : i < j}

(* One bucket later there is one more of them, or as many.                 *)
LEMMA OneBucketLater ==
  ASSUME NEW t, NEW n, Typed(t, n), NEW j \in 0..n - 1
  PROVE  /\ Cardinality(UsedBefore(t, j)) \in Nat
         /\ Cardinality(UsedBefore(t, j + 1)) =
              IF t[j].dib = 0 THEN Cardinality(UsedBefore(t, j))
              ELSE Cardinality(UsedBefore(t, j)) + 1
<1>1. DOMAIN t = 0..n - 1 /\ IsFiniteSet(Used(t))
  BY Room DEF Typed
<1>2. IsFiniteSet(UsedBefore(t, j)) /\ Cardinality(UsedBefore(t, j)) \in Nat
  BY <1>1, FS_Subset, FS_CardinalityType DEF UsedBefore
<1>3. \A i \in Used(t) : i \in Nat
  BY <1>1 DEF Used, Typed
<1>4. UsedBefore(t, j + 1) = IF t[j].dib = 0 THEN UsedBefore(t, j) ELSE UsedBefore(t, j) \cup {j}
  <2>1. j \in Used(t) <=> t[j].dib # 0
    BY <1>1 DEF Used
  <2>2. \A i \in Used(t) : i < j + 1 <=> i < j \/ i = j
    BY <1>3
  <2> QED BY <2>1, <2>2 DEF UsedBefore
<1>5. j \notin UsedBefore(t, j)
  BY DEF UsedBefore
<1>6. Cardinality(UsedBefore(t, j) \cup {j}) = Cardinality(UsedBefore(t, j)) + 1
  BY <1>2, <1>5, FS_AddElement
<1> QED BY <1>2, <1>4, <1>6

(* What is known in the loops of resize0.                                  *)
LEMMA Moves ==
  ASSUME IInv, op \in {"resize", "place"}
  PROVE  /\ Resizing /\ call \in CallsMade
         /\ nbuckets \in Nat \ {0, 1} /\ Ordered(buckets, nbuckets) /\ Many(buckets) = count
         /\ Typed(buckets, nbuckets) /\ count \in Nat /\ from \in 0..nbuckets
         /\ Ordered(table, tsize) /\ Typed(table, tsize) /\ tsize \in Nat \ {0, 1}
         /\ Many(table) \in Nat
         /\ Many(table) + (IF op = "place" THEN 1 ELSE 0) = Cardinality(UsedBefore(buckets, from))
         /\ Cardinality(UsedBefore(buckets, from)) <= count
         /\ \E f \in 0..tsize - 1 : table[f].dib = 0
<1> USE DEF IInv, Types, TableFits, MoveFits, CallFits, Resizing
<1>1. /\ Resizing /\ call \in CallsMade
      /\ nbuckets \in Nat \ {0, 1} /\ Ordered(buckets, nbuckets) /\ Many(buckets) = count
      /\ Typed(buckets, nbuckets) /\ count \in Nat /\ from \in 0..nbuckets
      /\ Ordered(table, tsize) /\ count < tsize
      /\ Many(table) + (IF op = "place" THEN 1 ELSE 0) = Cardinality(UsedBefore(buckets, from))
  BY DEF UsedBefore, Typed
<1>2. Typed(table, tsize) /\ tsize \in Nat \ {0, 1}
  BY <1>1 DEF Ordered, Typed
<1>3. Many(table) \in Nat /\ IsFiniteSet(Used(buckets))
  BY <1>1, <1>2, Room
<1>4. UsedBefore(buckets, from) \subseteq Used(buckets)
  BY DEF UsedBefore
<1>5. Cardinality(UsedBefore(buckets, from)) <= count
  BY <1>1, <1>3, <1>4, FS_Subset DEF Many
<1>6. Many(table) < tsize
  BY <1>1, <1>2, <1>3, <1>5
<1> QED BY <1>1, <1>2, <1>3, <1>5, <1>6, Room

(* resize0, the outer loop: the next entry sets out for its place.         *)
LEMMA ResizeNextKeeps ==
  ASSUME IInv, ResizeNext
  PROVE  IInv'
<1> USE DEF IInv
<1>1. op = "resize" /\ from < nbuckets /\ from' = from + 1
      /\ UNCHANGED <<buckets, sizes, count, knobs, oom, call, table, spare>>
  BY DEF ResizeNext
<1>2. /\ nbuckets \in Nat \ {0, 1} /\ Ordered(buckets, nbuckets) /\ Typed(buckets, nbuckets)
      /\ from \in 0..nbuckets /\ from \in 0..nbuckets - 1 /\ from' \in 0..nbuckets
      /\ Typed(table, tsize) /\ Resizing /\ Many(table) \in Nat
      /\ Many(table) = Cardinality(UsedBefore(buckets, from))
  BY <1>1, Moves
<1>3. SizesFit' /\ UNCHANGED tsize
  BY <1>1 DEF SizesFit, sizes, knobs, tsize
<1>4. Cardinality(UsedBefore(buckets, from')) =
        IF buckets[from].dib = 0 THEN Many(table) ELSE Many(table) + 1
  BY <1>1, <1>2, OneBucketLater
<1>5. CASE buckets[from].dib = 0
  <2>1. UNCHANGED <<op, entry, pos>>
    BY <1>5 DEF ResizeNext
  <2>2. Types' /\ CallFits' /\ TableFits'
    BY <1>1, <1>2, <2>1 DEF Types, CallFits, TableFits, Resizing, sizes
  <2>3. Many(table') + 0 = Cardinality(UsedBefore(buckets', from'))
    BY <1>1, <1>2, <1>4, <1>5
  <2>4. MoveFits'
    BY <1>1, <1>2, <1>3, <2>1, <2>3 DEF MoveFits, Resizing, UsedBefore, sizes, knobs
  <2> QED BY <1>3, <2>2, <2>4
<1>6. CASE buckets[from].dib # 0
  <2>1. /\ op' = "place" /\ entry' = [buckets[from] EXCEPT !.dib = 1]
        /\ pos' = Home(entry'.key, tsize)
    BY <1>6 DEF ResizeNext, tsize
  <2>2. buckets[from] \in Entries /\ buckets[from].key \in Keys
    BY <1>2, <1>6 DEF Ordered, Typed, Placed
  <2>3. entry' \in Entries /\ entry'.key \in Keys /\ entry'.dib = 1
    BY <2>1, <2>2 DEF Entries
  <2>4. Probing(table, tsize, entry', pos')
    BY <1>2, <2>1, <2>3, SetOut
  <2>5. Types' /\ CallFits' /\ TableFits'
    BY <1>1, <1>2, <2>1, <2>3 DEF Types, CallFits, TableFits, Resizing, sizes
  <2>6. Many(table') + 1 = Cardinality(UsedBefore(buckets', from'))
    BY <1>1, <1>2, <1>4, <1>6
  <2>7. MoveFits'
    BY <1>1, <1>2, <1>3, <2>1, <2>4, <2>6 DEF MoveFits, Resizing, UsedBefore, sizes, knobs
  <2> QED BY <1>3, <2>5, <2>7
<1> QED BY <1>5, <1>6

(* resize0, the inner loop: one probe of the new table.                    *)
LEMMA ResizePlaceKeeps ==
  ASSUME IInv, ResizePlace
  PROVE  IInv'
<1> USE DEF IInv
<1> DEFINE b == table[pos]
<1>1. op = "place" /\ UNCHANGED <<buckets, sizes, count, knobs, oom, call, from, spare>>
  BY DEF ResizePlace
<1>2. /\ nbuckets \in Nat \ {0, 1} /\ Typed(table, tsize) /\ Resizing /\ Many(table) \in Nat
      /\ Ordered(table, tsize) /\ tsize \in Nat \ {0, 1}
      /\ Many(table) + 1 = Cardinality(UsedBefore(buckets, from))
      /\ \E f \in 0..tsize - 1 : table[f].dib = 0
  BY <1>1, Moves
<1>3. SizesFit'
  BY <1>1 DEF SizesFit, sizes, knobs
<1>4. Probing(table, tsize, entry, pos) /\ pos \in 0..tsize - 1 /\ entry \in Entries /\ entry.key \in Keys
  BY <1>1 DEF MoveFits, Resizing, Probing
<1>5. entry.dib # 0
  <2>1. Home(entry.key, tsize) \in 0..tsize - 1
    BY <1>2, <1>4, HomeIndex
  <2>2. Since(Home(entry.key, tsize), pos, tsize) \in 0..tsize - 1
    BY <1>2, <1>4, <2>1, Distance
  <2> QED BY <1>2, <1>4, <2>2 DEF Probing
<1>6. ASSUME Typed(table', tsize) PROVE UNCHANGED tsize
  BY <1>6, Room DEF tsize
<1>7. CASE b.dib = 0
  <2>1. table' = [table EXCEPT ![pos] = entry] /\ op' = "resize" /\ entry' = Free /\ pos' = 0
    BY <1>7 DEF ResizePlace, Drop
  <2>2. Ordered(table', tsize) /\ Typed(table', tsize)
    BY <1>2, <1>4, <1>7, <2>1, TakeFree DEF Ordered
  <2>3. Many(table') + 0 = Cardinality(UsedBefore(buckets', from'))
    <3>1. table[pos].dib = 0
      BY <1>7
    <3>2. Many([table EXCEPT ![pos] = entry]) = Many(table) + 1
      BY <1>2, <1>4, <1>5, <3>1, ManyAfter
    <3> QED BY <1>1, <1>2, <2>1, <3>2
  <2>4. MoveFits'
    BY <1>1, <1>2, <1>6, <2>1, <2>2, <2>3 DEF MoveFits, Resizing, UsedBefore, sizes, knobs
  <2>5. Types' /\ CallFits' /\ TableFits'
    BY <1>1, <1>2, <2>1, FreeEntry DEF Types, CallFits, TableFits, Resizing, sizes
  <2> QED BY <1>3, <2>4, <2>5
<1>8. CASE b.dib # 0
  <2>1. /\ pos' = Succ(pos, tsize) /\ UNCHANGED op
        /\ \/ b.dib < entry.dib /\ table' = [table EXCEPT ![pos] = entry] /\ entry' = Further(b)
           \/ ~(b.dib < entry.dib) /\ UNCHANGED table /\ entry' = Further(entry)
    BY <1>8 DEF ResizePlace, Nearer, tsize
  <2>2. Ordered(table', tsize) /\ Probing(table', tsize, entry', pos') /\ Many(table') = Many(table)
    <3>1. CASE b.dib < entry.dib
      <4>1. table' = [table EXCEPT ![pos] = entry] /\ entry' = Further(b)
        BY <2>1, <3>1
      <4>2. Ordered(table', tsize) /\ Probing(table', tsize, entry', pos')
        BY <1>2, <1>4, <1>8, <2>1, <3>1, <4>1, TakePlace
      <4>3. Many(table') = Many(table)
        BY <1>2, <1>4, <1>5, <1>8, <4>1, ManyAfter
      <4> QED BY <4>2, <4>3
    <3>2. CASE ~(b.dib < entry.dib)
      BY <1>2, <1>4, <1>8, <2>1, <3>2, GoOn
    <3> QED BY <3>1, <3>2
  <2>3. UNCHANGED tsize
    BY <1>6, <2>2 DEF Ordered
  <2>4. MoveFits'
    BY <1>1, <1>2, <2>1, <2>2, <2>3 DEF MoveFits, Resizing, UsedBefore, sizes, knobs
  <2>5. entry' \in Entries /\ pos' \in 0..tsize - 1
    BY <2>2 DEF Probing
  <2>6. Types' /\ CallFits' /\ TableFits'
    BY <1>1, <1>2, <2>1, <2>5 DEF Types, CallFits, TableFits, Resizing, sizes
  <2> QED BY <1>3, <2>4, <2>6
<1> QED BY <1>7, <1>8

(* The new table replaces the old one.                                     *)
LEMMA ResizeDoneKeeps ==
  ASSUME IInv, ResizeDone
  PROVE  IInv'
<1> USE DEF IInv
<1> DEFINE n == tsize
<1>1. /\ op = "resize" /\ from = nbuckets
      /\ buckets' = table /\ nbuckets' = n /\ alloc' = n
      /\ growat' = GrowAt(n, DefaultLoad) /\ shrinkat' = ShrinkAt(n)
      /\ table' = NoTable /\ from' = 0
      /\ UNCHANGED <<count, cap, knobs, oom>>
  BY DEF ResizeDone, tsize
<1>2. /\ Ordered(table, n) /\ Typed(table, n) /\ n \in Nat \ {0, 1} /\ Resizing
      /\ Many(table) + 0 = Cardinality(UsedBefore(buckets, nbuckets)) /\ Many(table) \in Nat
      /\ Typed(buckets, nbuckets) /\ Many(buckets) = count /\ call \in CallsMade
  BY <1>1, Moves
<1>3. Many(table) = count
  <2>1. UsedBefore(buckets, nbuckets) = Used(buckets)
    BY <1>2 DEF UsedBefore, Used, Typed
  <2> QED BY <1>2, <2>1 DEF Many
<1>4. Doubled(cap, n) /\ count < n /\ (call.op = "set" => count + 1 < n)
  BY <1>1, <1>2 DEF MoveFits
<1>5. SizesFit'
  <2>1. GrowAt(n, DefaultLoad) \in Nat /\ GrowAt(n, DefaultLoad) < n
    BY <1>2, LoadLeavesRoom DEF DefaultLoad
  <2> HIDE DEF n
  <2> QED BY <1>1, <1>2, <1>4, <2>1 DEF SizesFit, knobs
<1>6. \/ /\ call.op = "set" /\ op' = "set" /\ pos' = Home(call.key, n) /\ UNCHANGED <<call, spare>>
         /\ entry' = [key |-> call.key, val |-> call.val, dib |-> 1]
      \/ /\ call.op # "set" /\ op' = "idle" /\ call' = NoCall /\ spare' = spare
         /\ entry' = Free /\ pos' = 0
  BY DEF ResizeDone, StartSet, Return, Drop, tsize
<1> HIDE DEF n
<1>7. CASE call.op = "set"
  <2>1. call.key \in Keys /\ entry' = [key |-> call.key, val |-> call.val, dib |-> 1] /\ call.val \in Vals
    BY <1>2, <1>6, <1>7 DEF CallsMade
  <2>2. entry' \in Entries /\ entry'.key = call.key /\ entry'.dib = 1
    BY <2>1 DEF Entries
  <2>3. op' = "set" /\ pos' = Home(call.key, n) /\ UNCHANGED <<call, spare>>
    BY <1>6, <1>7
  <2>4. Probing(table, n, entry', pos')
    BY <1>2, <2>1, <2>2, <2>3, SetOut
  <2>5. pos' \in 0..n - 1
    BY <2>4 DEF Probing
  <2>6. TableFits'
    BY <1>1, <1>2, <1>3, <1>4, <1>7, <2>3, <2>4 DEF TableFits
  <2>7. Types'
    BY <1>1, <2>2, <2>3, <2>5 DEF Types
  <2>8. CallFits' /\ MoveFits'
    BY <1>1, <1>2, <1>7, <2>3 DEF CallFits, MoveFits, Resizing
  <2> QED BY <1>5, <2>6, <2>7, <2>8
<1>8. CASE call.op # "set"
  <2>1. op' = "idle" /\ call' = NoCall /\ spare' = spare /\ entry' = Free /\ pos' = 0
    BY <1>6, <1>8
  <2>2. 0 \in 0..n - 1
    BY <1>2, FirstIndex
  <2>3. TableFits'
    BY <1>1, <1>2, <1>3, <1>4, <2>1 DEF TableFits
  <2>4. Types'
    BY <1>1, <2>1, <2>2, FreeEntry DEF Types
  <2>5. CallFits' /\ MoveFits'
    BY <1>1, <2>1 DEF CallFits, MoveFits, Resizing
  <2> QED BY <1>5, <2>3, <2>4, <2>5
<1> QED BY <1>7, <1>8

(* One probe of hashmap_get or hashmap_delete, until the key is found.     *)
LEMMA LookupKeeps ==
  ASSUME IInv, GetStep \/ DeleteStep
  PROVE  IInv'
<1> USE DEF IInv
<1> DEFINE b == buckets[pos]
<1>1. /\ op \in {"get", "delete"} /\ ~Resizing /\ call \in CallsMade
      /\ nbuckets \in Nat \ {0, 1} /\ Ordered(buckets, nbuckets) /\ Many(buckets) = count
      /\ Typed(buckets, nbuckets) /\ pos \in 0..nbuckets - 1
      /\ UNCHANGED <<sizes, count, knobs, oom, moving>>
  BY DEF GetStep, DeleteStep, Resizing, TableFits, Typed, CallFits, Types
<1>2. b \in Entries /\ 0 \in 0..nbuckets - 1
  BY <1>1, FirstIndex DEF Typed
<1>3. SizesFit'
  BY <1>1 DEF SizesFit, sizes, knobs
<1>4. CASE /\ UNCHANGED buckets /\ op' = "idle" /\ call' = NoCall /\ spare' \in {Null, b.val}
           /\ entry' = Free /\ pos' = 0
  <2>1. spare' \in Vals \cup {Null}
    BY <1>2, <1>4 DEF Entries
  <2>2. Types' /\ CallFits' /\ TableFits' /\ MoveFits'
    BY <1>1, <1>2, <1>4, <2>1, FreeEntry DEF Types, CallFits, TableFits, MoveFits, Resizing, sizes, moving
  <2> QED BY <1>3, <2>2
<1>5. CASE UNCHANGED <<buckets, op, call, spare, entry>> /\ pos' = Succ(pos, nbuckets)
  <2>1. pos' \in 0..nbuckets - 1
    BY <1>1, <1>5, Neighbours
  <2>2. Types' /\ CallFits' /\ TableFits' /\ MoveFits'
    BY <1>1, <1>2, <1>5, <2>1 DEF Types, CallFits, TableFits, MoveFits, Resizing, sizes, moving
  <2> QED BY <1>3, <2>2
<1>6. CASE /\ op = "delete" /\ b.dib # 0 /\ b.key = call.key /\ spare' = b.val /\ op' = "shift"
           /\ buckets' = [buckets EXCEPT ![pos].dib = 0] /\ UNCHANGED <<call, pos, entry>>
  <2>1. Typed(buckets', nbuckets)
    BY <1>1, <1>2, <1>6 DEF Typed, Entries
  <2>2. Vacate(buckets', pos) = Vacate(buckets, pos)
    BY <1>1, <1>6 DEF Vacate, Typed
  <2>3. Holed(Vacate(buckets, pos), nbuckets, pos)
    BY <1>1, HoleMade
  <2>4. Many(Vacate(buckets, pos)) = count - 1
    <3>1. buckets[pos].dib # 0 /\ Free \in Entries /\ Free.dib = 0
      BY <1>6, FreeEntry
    <3> QED BY <1>1, <3>1, ManyAfter DEF Vacate
  <2>5. TableFits'
    BY <1>1, <1>6, <2>1, <2>2, <2>3, <2>4 DEF TableFits, View, sizes
  <2>6. spare' \in Vals \cup {Null}
    BY <1>2, <1>6 DEF Entries
  <2>7. Types' /\ CallFits' /\ MoveFits'
    BY <1>1, <1>6, <2>6 DEF Types, CallFits, MoveFits, Resizing, sizes, moving
  <2> QED BY <1>3, <2>5, <2>7
<1>7. <1>4!1 \/ <1>5!1 \/ <1>6!1
  BY DEF GetStep, DeleteStep, Return, Drop
<1> QED BY <1>4, <1>5, <1>6, <1>7

(* What is known in the backward shift, of the table as it looks with its  *)
(* hole.                                                                   *)
LEMMA Shifts ==
  ASSUME IInv, op = "shift"
  PROVE  LET s == Succ(pos, nbuckets)
         IN  /\ ~Resizing /\ call \in CallsMade /\ call.op = "delete"
             /\ nbuckets \in Nat \ {0, 1} /\ Typed(buckets, nbuckets) /\ pos \in 0..nbuckets - 1
             /\ View = Vacate(buckets, pos) /\ Holed(View, nbuckets, pos) /\ Typed(View, nbuckets)
             /\ Many(View) = count - 1 /\ count - 1 \in Nat /\ count < nbuckets
             /\ s \in 0..nbuckets - 1 /\ s # pos /\ View[s] = buckets[s]
<1> USE DEF IInv
<1>1. /\ ~Resizing /\ call \in CallsMade /\ call.op = "delete"
      /\ nbuckets \in Nat \ {0, 1} /\ Typed(buckets, nbuckets) /\ pos \in 0..nbuckets - 1
      /\ View = Vacate(buckets, pos) /\ Holed(View, nbuckets, pos)
      /\ Many(View) = count - 1 /\ count < nbuckets
  BY DEF Resizing, CallFits, TableFits, Typed, Types, View
<1>2. Typed(View, nbuckets)
  BY <1>1 DEF Holed
<1>3. Many(View) \in Nat
  BY <1>2, Room
<1>4. Succ(pos, nbuckets) \in 0..nbuckets - 1 /\ Succ(pos, nbuckets) # pos
  <2>1. nbuckets \in Nat \ {0} /\ nbuckets > 1
    BY <1>1
  <2> QED BY <1>1, <2>1, Neighbours
<1>5. View[Succ(pos, nbuckets)] = buckets[Succ(pos, nbuckets)]
  BY <1>1, <1>4 DEF Vacate, Typed
<1> QED BY <1>1, <1>2, <1>3, <1>4, <1>5

(* One step of the backward shift.                                         *)
LEMMA ShiftKeeps ==
  ASSUME IInv, Shift
  PROVE  IInv'
<1> USE DEF IInv
<1> DEFINE s == Succ(pos, nbuckets)
           b == buckets[s]
           e == [b EXCEPT !.dib = @ - 1]
<1>1. /\ op = "shift" /\ b.dib > 1 /\ pos' = s
      /\ buckets' = [buckets EXCEPT ![pos] = e]
      /\ UNCHANGED <<sizes, count, knobs, oom, op, call, entry, moving, spare>>
  BY DEF Shift
<1>2. /\ ~Resizing /\ nbuckets \in Nat \ {0, 1} /\ Typed(buckets, nbuckets) /\ pos \in 0..nbuckets - 1
      /\ View = Vacate(buckets, pos) /\ Holed(View, nbuckets, pos) /\ Typed(View, nbuckets)
      /\ Many(View) = count - 1 /\ s \in 0..nbuckets - 1 /\ s # pos /\ View[s] = b
      /\ count - 1 \in Nat
  BY <1>1, Shifts
<1>3. b \in Entries /\ e \in Entries /\ e.dib # 0 /\ b.dib # 0
  <2>1. b \in Entries
    BY <1>2 DEF Typed
  <2> HIDE DEF b
  <2> QED BY <1>1, <2>1 DEF Entries
<1>4. View[pos] = Free /\ View[pos].dib = 0
  BY <1>2, FreeEntry DEF Holed
<1> DEFINE v == [View EXCEPT ![pos] = e]
<1>5. Typed(buckets', nbuckets) /\ Typed(v, nbuckets)
  BY <1>1, <1>2, <1>3 DEF Typed
<1>6. View' = [v EXCEPT ![s] = Free]
  <2>1. View' = [buckets' EXCEPT ![s] = Free]
    BY <1>1 DEF View, Vacate
  <2> HIDE DEF s, e
  <2> QED BY <1>1, <1>2, <2>1 DEF Vacate, Typed
<1>7. View' = MovedBack(View, pos, s)
  <2>1. [View[s] EXCEPT !.dib = @ - 1] = e
    BY <1>2
  <2> HIDE DEF s, e
  <2> QED BY <1>2, <1>6, <2>1 DEF MovedBack, Typed
<1>8. Holed(View', nbuckets, s)
  <2>1. View[Succ(pos, nbuckets)].dib > 1
    BY <1>1, <1>2
  <2> QED BY <1>2, <1>7, <2>1, HoleMoved
<1>9. Many(View') = count - 1
  <2>1. Many(v) = Many(View) + 1
    <3> HIDE DEF e, s
    <3> QED BY <1>2, <1>3, <1>4, ManyAfter
  <2>2. v[s].dib # 0 /\ Free \in Entries /\ Free.dib = 0
    <3>1. v[s] = b
      BY <1>2 DEF Typed
    <3> QED BY <1>3, <3>1, FreeEntry
  <2> HIDE DEF v, s, e
  <2>3. Many([v EXCEPT ![s] = Free]) = Many(v) - 1
    BY <1>2, <1>5, <2>2, ManyAfter
  <2> QED BY <1>2, <1>6, <2>1, <2>3
<1> HIDE DEF s, b, e, v
<1>10. SizesFit'
  BY <1>1 DEF SizesFit, sizes, knobs
<1>11. TableFits'
  BY <1>1, <1>2, <1>5, <1>8, <1>9 DEF TableFits, sizes
<1>12. Types' /\ CallFits' /\ MoveFits'
  BY <1>1, <1>2 DEF Types, CallFits, MoveFits, Resizing, sizes, moving
<1> QED BY <1>10, <1>11, <1>12

(* The end of the backward shift, and the start of shrinking.              *)
LEMMA ShiftDoneKeeps ==
  ASSUME IInv, ShiftDone
  PROVE  IInv'
<1> USE DEF IInv
<1> DEFINE h == nbuckets \div 2
<1>1. /\ op = "shift" /\ buckets[Succ(pos, nbuckets)].dib <= 1 /\ count' = count - 1
      /\ buckets' = Vacate(buckets, pos) /\ entry' = Free /\ pos' = 0
      /\ UNCHANGED <<sizes, knobs, oom>> /\ UNCHANGED spare
      /\ \/ /\ MayShrink /\ table' = Empty(h) /\ from' = 0 /\ op' = "resize" /\ UNCHANGED call
         \/ op' = "idle" /\ call' = NoCall /\ UNCHANGED moving
  BY DEF ShiftDone, Return, Drop, Vacate
<1>2. /\ ~Resizing /\ call \in CallsMade /\ call.op = "delete"
      /\ nbuckets \in Nat \ {0, 1} /\ View = Vacate(buckets, pos)
      /\ Holed(View, nbuckets, pos) /\ Typed(View, nbuckets)
      /\ Many(View) = count - 1 /\ count - 1 \in Nat /\ count < nbuckets
      /\ View[Succ(pos, nbuckets)] = buckets[Succ(pos, nbuckets)] /\ count \in Nat
  BY <1>1, Shifts DEF Types
<1>3. Ordered(buckets', nbuckets) /\ Many(buckets') = count' /\ Typed(buckets', nbuckets)
  BY <1>1, <1>2, HoleLeft
<1>4. 0 \in 0..nbuckets - 1
  BY <1>2, FirstIndex
<1>5. SizesFit'
  BY <1>1 DEF SizesFit, sizes, knobs
<1>6. TableFits'
  BY <1>1, <1>2, <1>3 DEF TableFits, sizes
<1>7. CASE op' = "idle"
  <2>1. op' = "idle" /\ call' = NoCall /\ UNCHANGED moving
    BY <1>1, <1>7
  <2>2. Types'
    BY <1>1, <1>2, <1>4, <2>1, FreeEntry DEF Types, sizes, moving
  <2>3. CallFits' /\ MoveFits'
    BY <1>1, <1>2, <2>1 DEF CallFits, MoveFits, Resizing, moving
  <2> QED BY <1>5, <1>6, <2>2, <2>3
<1>8. CASE op' = "resize"
  <2>1. /\ nbuckets > cap /\ count - 1 <= ShrinkAt(nbuckets)
        /\ table' = Empty(h) /\ from' = 0 /\ UNCHANGED call
    BY <1>1, <1>8 DEF MayShrink, SizesFit
  <2>2. cap \in Nat \ {0, 1} /\ Doubled(cap, nbuckets) /\ growpower \in 1..16
    BY DEF SizesFit
  <2>3. Doubled(cap, h) /\ nbuckets = 2 * h
    BY <2>1, <2>2, DoubledStep
  <2>4. h >= cap
    BY <2>2, <2>3, DoubledStep
  <2>5. h \in Nat
    BY <2>3 DEF Doubled
  <2> HIDE DEF h
  <2>6. nbuckets >= 4 /\ h \in Nat \ {0, 1}
    BY <2>2, <2>3, <2>4, <2>5
  <2>7. ShrinkAt(nbuckets) \in Nat /\ ShrinkAt(nbuckets) < h
    BY <1>2, <2>6, LoadLeavesRoom DEF h
  <2>8. count' < h
    BY <1>1, <1>2, <2>1, <2>5, <2>7
  <2>9. Ordered(table', h) /\ Many(table') = 0
    BY <2>1, <2>6, EmptyOrdered
  <2>10. tsize' = h
    BY <2>9, Room DEF Ordered, tsize
  <2>11. h <= nbuckets * 2 ^ growpower
    <3>1. nbuckets * 2 ^ growpower \in Nat /\ nbuckets * 2 ^ growpower >= 2 * nbuckets
      BY <2>2, Grown
    <3> QED BY <1>2, <2>3, <2>5, <3>1
  <2>12. Cardinality({i \in Used(buckets') : i < 0}) = 0
    <3>1. {i \in Used(buckets') : i < 0} = {}
      BY <1>3 DEF Used, Typed
    <3> QED BY <3>1, FS_EmptySet
  <2>13. MoveFits'
    BY <1>1, <1>2, <1>8, <2>1, <2>3, <2>8, <2>9, <2>10, <2>11, <2>12
       DEF MoveFits, Resizing, sizes, knobs
  <2>14. Types'
    BY <1>1, <1>2, <1>4, <1>8, <2>1, FreeEntry DEF Types, sizes
  <2>15. CallFits'
    BY <1>1, <1>2, <1>8, <2>1 DEF CallFits, Resizing
  <2> QED BY <1>5, <1>6, <2>13, <2>14, <2>15
<1> QED BY <1>1, <1>7, <1>8

-----------------------------------------------------------------------------
(* The invariant holds of the new table of hashmap_new.                    *)
LEMMA InitFits == Init => IInv
<1> SUFFICES ASSUME Init PROVE IInv
  OBVIOUS
<1> DEFINE n == MinBuckets
<1>1. n \in Nat \ {0, 1} /\ 0 \in 0..n - 1
  BY MinBucketsAssumption, FirstIndex
<1>2. Ordered(Empty(n), n) /\ Many(Empty(n)) = 0 /\ Doubled(n, n)
  BY <1>1, EmptyOrdered, DoubledStep
<1>3. GrowAt(n, DefaultLoad) \in Nat /\ GrowAt(n, DefaultLoad) < n
  BY <1>1, LoadLeavesRoom DEF DefaultLoad
<1>4. Typed(Empty(n), n)
  BY <1>2 DEF Ordered
<1>5. Types
  BY <1>1, FreeEntry DEF Init, Types
<1> HIDE DEF n
<1>6. SizesFit
  BY <1>1, <1>2, <1>3 DEF Init, SizesFit, DefaultLoad, n
<1>7. CallFits /\ TableFits /\ MoveFits
  BY <1>1, <1>2, <1>4 DEF Init, CallFits, TableFits, MoveFits, Resizing, n
<1> QED BY <1>5, <1>6, <1>7 DEF IInv

(* Every call and every iteration of a loop keeps the invariant.           *)
LEMMA NextKeeps == IInv /\ [Next]_vars => IInv'
<1> SUFFICES ASSUME IInv, [Next]_vars PROVE IInv'
  OBVIOUS
<1>1. CASE Caller
  <2>1. CASE \E u \in BOOLEAN : Clear(u)
    BY <2>1, ClearKeeps
  <2>2. CASE ~ \E u \in BOOLEAN : Clear(u)
    BY <1>1, <2>2, CallsKeep DEF Caller
  <2> QED BY <2>1, <2>2
<1>2. CASE Running
  BY <1>2, EnterKeeps, SetStepKeeps, ResizeNextKeeps, ResizePlaceKeeps, ResizeDoneKeeps,
     LookupKeeps, ShiftKeeps, ShiftDoneKeeps DEF Running
<1>3. CASE UNCHANGED vars
  BY <1>3 DEF vars, sizes, knobs, moving, IInv, Types, SizesFit, CallFits, TableFits, MoveFits,
              Resizing, View, tsize
<1> QED BY <1>1, <1>2, <1>3 DEF Next

(* So it holds of every state of the map.                                  *)
LEMMA Invariance == Spec => []IInv
BY InitFits, NextKeeps, PTL DEF Spec

-----------------------------------------------------------------------------
(* Every index the loops use is inside the table it is used on, whatever   *)
(* was grown, shrunk or cleared (TypeOK of HashMap.tla).                   *)
THEOREM TypeCorrect == Spec => []TypeOK
<1>1. ASSUME IInv PROVE TypeOK
  <2> USE <1>1 DEF IInv
  <2>1. nbuckets \in Nat \ {0, 1} /\ DOMAIN buckets = 0..nbuckets - 1
        /\ buckets \in [0..nbuckets - 1 -> Entries]
    BY DEF TableFits, Typed
  <2>2. {nbuckets, cap, alloc} \subseteq Nat \ {0, 1}
    BY <2>1 DEF SizesFit
  <2>3. {count, growat, shrinkat, from} \subseteq Nat
    BY <2>1, LoadLeavesRoom DEF SizesFit, Types
  <2>4. \E n \in 0..2 ^ growpower * nbuckets : table \in [0..n - 1 -> Entries]
    <3>1. 2 ^ growpower \in Nat /\ nbuckets * 2 ^ growpower \in Nat
      BY Grown DEF SizesFit
    <3>2. 2 ^ growpower * nbuckets = nbuckets * 2 ^ growpower
      BY <2>1, <3>1
    <3>3. CASE op \in {"resize", "place"}
      <4>1. tsize \in Nat /\ table \in [0..tsize - 1 -> Entries]
        BY <3>3, Moves DEF Typed
      <4>2. tsize <= nbuckets * 2 ^ growpower
        BY <3>3 DEF MoveFits, Resizing
      <4> HIDE DEF tsize
      <4>3. tsize \in 0..2 ^ growpower * nbuckets
        BY <3>1, <3>2, <4>1, <4>2
      <4> QED BY <4>1, <4>3
    <3>4. CASE op \notin {"resize", "place"}
      <4>1. table = [i \in {} |-> Free]
        BY <3>4 DEF CallFits, Resizing, NoTable
      <4>2. 0..0 - 1 = {}
        OBVIOUS
      <4>3. table \in [0..0 - 1 -> Entries]
        BY <4>1, <4>2
      <4>4. 0 \in 0..2 ^ growpower * nbuckets
        BY <3>1, <3>2
      <4> QED BY <4>3, <4>4
    <3> QED BY <3>3, <3>4
  <2>5. pos \in DOMAIN (IF op = "place" THEN table ELSE buckets)
    <3>1. CASE op = "place"
      <4>1. DOMAIN table = 0..tsize - 1 /\ Probing(table, tsize, entry, pos)
        BY <3>1, Moves DEF Typed, MoveFits
      <4> QED BY <3>1, <4>1 DEF Probing
    <3>2. CASE op # "place"
      BY <2>1, <3>2 DEF Types
    <3> QED BY <3>1, <3>2
  <2>6. loadfactor \in 1..99 /\ growpower \in 1..16 /\ oom \in BOOLEAN
    BY DEF SizesFit, Types
  <2>7. /\ op \in {"idle", "enter", "set", "resize", "place", "get", "delete", "shift"}
        /\ entry \in Entries /\ spare \in Vals \cup {Null}
    BY DEF Types
  <2> QED BY <2>1, <2>2, <2>3, <2>4, <2>5, <2>6, <2>7 DEF TypeOK
<1> QED BY <1>1, Invariance, PTL

(* Between two calls every entry is as far from home as it says, and at    *)
(* most one further than the bucket before it: lookups may stop at a free  *)
(* bucket, after whatever sets, deletes and resizes.                       *)
THEOREM TableKeepsOrder == Spec => []RobinHood
<1>1. ASSUME IInv PROVE RobinHood
  <2> SUFFICES ASSUME op = "idle", NEW i \in Used(buckets)
               PROVE  /\ buckets[i].dib = 1 + ((i - Home(buckets[i].key, nbuckets)) % nbuckets)
                      /\ buckets[i].dib <= buckets[(i - 1) % nbuckets].dib + 1
    BY DEF RobinHood
  <2>1. Ordered(buckets, nbuckets) /\ i \in 0..nbuckets - 1 /\ buckets[i].dib # 0
    BY <1>1 DEF IInv, TableFits, Typed, Used
  <2> QED BY <2>1 DEF Ordered, Placed, Stepped, Since, Before
<1> QED BY <1>1, Invariance, PTL

(* Between two calls map->count is the number of entries, across growth,   *)
(* growth that failed, and shrinking.                                      *)
THEOREM CountIsRight == Spec => []CountIsItems
<1>1. IInv => CountIsItems
  BY DEF IInv, TableFits, CountIsItems, Many
<1> QED BY <1>1, Invariance, PTL

(* Every table that is probed has a free bucket, also while it is being    *)
(* filled by a resize: the probing loops have no other end.                *)
THEOREM ProbesEnd == Spec => []FreeBucket
<1>1. ASSUME IInv PROVE FreeBucket
  <2> USE <1>1 DEF IInv
  <2>1. /\ Typed(buckets, nbuckets) /\ DOMAIN buckets = 0..nbuckets - 1 /\ count < nbuckets
        /\ pos \in 0..nbuckets - 1 \/ op # "shift"
    BY DEF TableFits, Typed, Types
  <2>2. \E i \in DOMAIN buckets : buckets[i].dib = 0
    <3>1. CASE op # "shift" \/ buckets[pos].dib # 0
      <4>1. Many(buckets) = count
        <5>1. CASE op # "shift"
          BY <5>1 DEF TableFits
        <5>2. CASE op = "shift"
          <6>1. Many(Vacate(buckets, pos)) = count - 1 /\ count \in Nat
            BY <5>2 DEF TableFits, View, Types
          <6>2. Many(buckets) \in Nat
            BY <2>1, Room
          <6>3. Many(Vacate(buckets, pos)) = Many(buckets) - 1
            <7>1. buckets[pos].dib # 0 /\ Free.dib = 0 /\ Free \in Entries
              BY <3>1, <5>2, FreeEntry
            <7> QED BY ZenonT(60), <2>1, <5>2, <7>1, ManyAfter DEF Vacate
          <6> QED BY <6>1, <6>2, <6>3
        <5> QED BY <5>1, <5>2
      <4> QED BY <2>1, <4>1, Room
    <3>2. CASE op = "shift" /\ buckets[pos].dib = 0
      BY <2>1, <3>2
    <3> QED BY <3>1, <3>2
  <2>3. ASSUME op \in {"resize", "place"} PROVE \E i \in DOMAIN table : table[i].dib = 0
    BY <2>3, Moves DEF Typed
  <2> QED BY <2>2, <2>3 DEF FreeBucket
<1> QED BY <1>1, Invariance, PTL

(* The table never has more buckets than memory was allocated for, though  *)
(* a clear without memory keeps the larger one.                            *)
THEOREM MemoryHolds == Spec => []WithinMemory
<1>1. IInv => WithinMemory
  BY DEF IInv, SizesFit, WithinMemory
<1> QED BY <1>1, Invariance, PTL

-----------------------------------------------------------------------------
(* The refinement of MapSpec.  What a table holds at the indices S, and    *)
(* that no key is there twice, or not at all.                              *)
Holds(t, S, k, v) == \E i \in S : t[i].dib # 0 /\ t[i].key = k /\ t[i].val = v
Without(t, S, k) == \A i \in S : t[i].dib # 0 => t[i].key # k
Distinct(t, S) ==
  \A i, j \in S : t[i].dib # 0 /\ t[j].dib # 0 /\ t[i].key = t[j].key => i = j

(* A probe for k that has come to p has not passed it by.                  *)
NotPassed(t, n, k, p) ==
  \A i \in 0..n - 1 : Since(Home(k, n), i, n) < Since(Home(k, n), p, n)
                      => t[i].dib = 0 \/ t[i].key # k

Indices == 0..nbuckets - 1
Left == from..nbuckets - 1     \* what a resize has not moved yet
Fresh == 0..tsize - 1

(* No key is in two places: in the table, in the two of a resize, in hand. *)
OnePlaceEach ==
  /\ ~Resizing => Distinct(View, Indices)
  /\ Resizing =>
       /\ Distinct(buckets, Left) /\ Distinct(table, Fresh)
       /\ \A i \in Left : buckets[i].dib # 0 => Without(table, Fresh, buckets[i].key)
  /\ op = "place" => Without(table, Fresh, entry.key) /\ Without(buckets, Left, entry.key)
  /\ Displacing => Without(buckets, Indices, entry.key)

(* Each loop is about the key of its call: a search has not passed it, a   *)
(* set that displaces others has put its item down, what a delete took out *)
(* is gone; only a search leaves hashmap_oom as it was.                    *)
ServesCall ==
  /\ op = "set" /\ ~Displacing =>
       entry.val = call.val /\ NotPassed(buckets, nbuckets, call.key, pos)
  /\ Displacing => Holds(buckets, Indices, call.key, call.val)
  /\ op \in {"get", "delete"} => NotPassed(buckets, nbuckets, call.key, pos)
  /\ Removed /\ ~Resizing => Without(View, Indices, call.key)
  /\ Removed /\ Resizing =>
       Without(buckets, Left, call.key) /\ Without(table, Fresh, call.key)
  /\ Removed /\ op = "place" => entry.key # call.key
  /\ op = "shift" =>
       buckets[pos].dib = 0 \/ Holds(View, Indices, buckets[pos].key, buckets[pos].val)
  /\ Resizing => call.op \in {"set", "delete"}
  /\ op = "get" => call.op = "get"
  /\ call.op \in {"set", "delete"} => ~oom

JInv == IInv /\ OnePlaceEach /\ ServesCall

(* An entry put at a free bucket joins what the table holds.               *)
LEMMA JoinsTable ==
  ASSUME NEW t, NEW n, Typed(t, n), NEW p \in 0..n - 1, t[p].dib = 0, NEW e, e.dib # 0
  PROVE  LET u == [t EXCEPT ![p] = e]
         IN  /\ \A k, v : Holds(u, 0..n - 1, k, v) <=>
                            Holds(t, 0..n - 1, k, v) \/ (e.key = k /\ e.val = v)
             /\ Distinct(t, 0..n - 1) /\ Without(t, 0..n - 1, e.key) => Distinct(u, 0..n - 1)
             /\ \A k : Without(t, 0..n - 1, k) /\ e.key # k => Without(u, 0..n - 1, k)
<1> DEFINE u == [t EXCEPT ![p] = e]
<1>1. u[p] = e /\ \A i \in 0..n - 1 : i # p => u[i] = t[i]
  BY DEF Typed
<1> HIDE DEF u
<1>2. ASSUME NEW k, NEW v
      PROVE  Holds(u, 0..n - 1, k, v) <=> Holds(t, 0..n - 1, k, v) \/ (e.key = k /\ e.val = v)
  BY <1>1 DEF Holds
<1>3. Distinct(t, 0..n - 1) /\ Without(t, 0..n - 1, e.key) => Distinct(u, 0..n - 1)
  BY <1>1 DEF Distinct, Without
<1>4. ASSUME NEW k PROVE Without(t, 0..n - 1, k) /\ e.key # k => Without(u, 0..n - 1, k)
  BY <1>1 DEF Without
<1> QED BY <1>2, <1>3, <1>4 DEF u

(* An entry that takes the place of another: the other one is in hand.     *)
LEMMA ChangesPlaces ==
  ASSUME NEW t, NEW n, Typed(t, n), NEW p \in 0..n - 1, t[p].dib # 0, NEW e, e.dib # 0,
         Distinct(t, 0..n - 1), Without(t, 0..n - 1, e.key)
  PROVE  LET u == [t EXCEPT ![p] = e]
         IN  /\ \A k, v : Holds(u, 0..n - 1, k, v) \/ (t[p].key = k /\ t[p].val = v) <=>
                            Holds(t, 0..n - 1, k, v) \/ (e.key = k /\ e.val = v)
             /\ Distinct(u, 0..n - 1) /\ Without(u, 0..n - 1, t[p].key)
             /\ \A k : Without(t, 0..n - 1, k) /\ e.key # k =>
                         Without(u, 0..n - 1, k) /\ t[p].key # k
<1> DEFINE u == [t EXCEPT ![p] = e]
<1>1. u[p] = e /\ \A i \in 0..n - 1 : i # p => u[i] = t[i]
  BY DEF Typed
<1> HIDE DEF u
<1>2. ASSUME NEW k, NEW v
      PROVE  Holds(u, 0..n - 1, k, v) \/ (t[p].key = k /\ t[p].val = v) <=>
               Holds(t, 0..n - 1, k, v) \/ (e.key = k /\ e.val = v)
  BY <1>1 DEF Holds
<1>3. Distinct(u, 0..n - 1)
  BY <1>1 DEF Distinct, Without
<1>4. Without(u, 0..n - 1, t[p].key)
  BY <1>1 DEF Distinct, Without
<1>5. ASSUME NEW k
      PROVE  Without(t, 0..n - 1, k) /\ e.key # k => Without(u, 0..n - 1, k) /\ t[p].key # k
  BY <1>1 DEF Without
<1> QED BY <1>2, <1>3, <1>4, <1>5 DEF u

(* Taking an entry out takes its key out, and no other.                    *)
LEMMA LeavesTable ==
  ASSUME NEW t, NEW n, Typed(t, n), NEW p \in 0..n - 1, t[p].dib # 0, Distinct(t, 0..n - 1)
  PROVE  LET u == Vacate(t, p)
         IN  /\ \A k, v : Holds(u, 0..n - 1, k, v) <=> Holds(t, 0..n - 1, k, v) /\ k # t[p].key
             /\ Distinct(u, 0..n - 1) /\ Without(u, 0..n - 1, t[p].key)
<1> DEFINE u == Vacate(t, p)
<1>1. u[p].dib = 0 /\ \A i \in 0..n - 1 : i # p => u[i] = t[i]
  BY FreeEntry DEF Typed, Vacate
<1> HIDE DEF u
<1>2. ASSUME NEW k, NEW v
      PROVE  Holds(u, 0..n - 1, k, v) <=> Holds(t, 0..n - 1, k, v) /\ k # t[p].key
  BY <1>1 DEF Holds, Distinct
<1>3. Distinct(u, 0..n - 1) /\ Without(u, 0..n - 1, t[p].key)
  BY <1>1 DEF Distinct, Without
<1> QED BY <1>2, <1>3 DEF u

(* An entry moved back by the shift is the one it was.                     *)
LEMMA StaysInTable ==
  ASSUME NEW t, NEW n, Typed(t, n), NEW p \in 0..n - 1, NEW s \in 0..n - 1, p # s,
         t[p].dib = 0, t[s].dib > 1
  PROVE  LET u == MovedBack(t, p, s)
         IN  /\ u[p].dib # 0 /\ u[p].key = t[s].key /\ u[p].val = t[s].val
             /\ \A k, v : Holds(u, 0..n - 1, k, v) <=> Holds(t, 0..n - 1, k, v)
             /\ Distinct(t, 0..n - 1) => Distinct(u, 0..n - 1)
             /\ \A k : Without(t, 0..n - 1, k) => Without(u, 0..n - 1, k)
<1> DEFINE u == MovedBack(t, p, s)
<1>1. t[s] \in Entries /\ DOMAIN t = 0..n - 1
  BY DEF Typed
<1>2. /\ u[p].dib # 0 /\ u[p].key = t[s].key /\ u[p].val = t[s].val
      /\ u[s].dib = 0 /\ \A i \in 0..n - 1 : i # p /\ i # s => u[i] = t[i]
  <2>1. u[p] = [t[s] EXCEPT !.dib = @ - 1] /\ u[s] = Free
        /\ \A i \in 0..n - 1 : i # p /\ i # s => u[i] = t[i]
    BY <1>1 DEF MovedBack
  <2>2. [t[s] EXCEPT !.dib = @ - 1].dib # 0 /\ [t[s] EXCEPT !.dib = @ - 1].key = t[s].key
        /\ [t[s] EXCEPT !.dib = @ - 1].val = t[s].val
    BY <1>1 DEF Entries
  <2> HIDE DEF u
  <2> QED BY <2>1, <2>2, FreeEntry
<1> HIDE DEF u
<1>3. t[s].dib # 0
  BY <1>1 DEF Entries
<1>4. ASSUME NEW k, NEW v PROVE Holds(u, 0..n - 1, k, v) <=> Holds(t, 0..n - 1, k, v)
  BY <1>2, <1>3 DEF Holds
<1>5. Distinct(t, 0..n - 1) => Distinct(u, 0..n - 1)
  BY <1>2, <1>3 DEF Distinct
<1>6. ASSUME NEW k PROVE Without(t, 0..n - 1, k) => Without(u, 0..n - 1, k)
  BY <1>2, <1>3 DEF Without
<1> QED BY <1>2, <1>4, <1>5, <1>6 DEF u

(* A bucket between a home and an entry of that home is as far from it as  *)
(* the distance says, or further: that is why a set that may displace an   *)
(* entry, or a lookup that meets a free bucket, need not look on.          *)
LEMMA HoldsBack ==
  ASSUME NEW t, NEW n, Ordered(t, n), NEW j \in 0..n - 1, t[j].dib # 0,
         NEW i \in 0..n - 1, Since(Home(t[j].key, n), i, n) <= Since(Home(t[j].key, n), j, n)
  PROVE  t[i].dib >= 1 + Since(Home(t[j].key, n), i, n)
<1> DEFINE h == Home(t[j].key, n)
           D(x) == Since(h, x, n)
           Bad == {D(j) - D(x) : x \in {y \in 0..n - 1 : D(y) <= D(j) /\ ~(t[y].dib >= 1 + D(y))}}
<1>1. n \in Nat \ {0} /\ n \in Nat \ {0, 1} /\ \A x \in 0..n - 1 : t[x].dib \in Nat
  BY DEF Ordered, Typed, Entries
<1>2. h \in 0..n - 1
  BY <1>1, HomeIndex DEF Ordered, Placed
<1> HIDE DEF h
<1>3. \A x \in 0..n - 1 : D(x) \in 0..n - 1
  BY <1>1, <1>2, Distance
<1>4. t[j].dib = 1 + D(j)
  BY DEF Ordered, Placed, h
<1> SUFFICES ASSUME ~(t[i].dib >= 1 + D(i)) PROVE FALSE
  BY DEF h
<1>5. D(i) <= D(j)
  BY DEF h
<1> HIDE DEF D
<1>6. D(j) - D(i) \in Bad /\ Bad \in SUBSET Nat
  BY <1>3, <1>5
<1>7. PICK m \in Bad : \A x \in Bad : m <= x
  <2> HIDE DEF Bad
  <2> QED BY <1>6, LeastNumber
<1>8. PICK x \in 0..n - 1 : m = D(j) - D(x) /\ D(x) <= D(j) /\ ~(t[x].dib >= 1 + D(x))
  BY <1>7
<1>9. D(x) # D(j)
  <2>1. ASSUME D(x) = D(j) PROVE x = j
    BY <1>1, <1>2, <2>1 DEF D, Since
  <2> QED BY <1>1, <1>3, <1>4, <1>8, <2>1
<1> DEFINE s == Succ(x, n)
<1>10. s \in 0..n - 1 /\ Before(s, n) = x
  BY <1>1, Neighbours
<1>11. D(s) = D(x) + 1
  <2>1. D(x) < n - 1
    BY <1>1, <1>3, <1>8, <1>9
  <2> QED BY <1>1, <1>2, <2>1, Distance DEF D
<1> HIDE DEF s
<1>12. t[s].dib <= t[x].dib + 1
  BY <1>10 DEF Ordered, Stepped
<1>13. D(j) - D(s) \notin Bad
  <2>1. D(j) - D(s) < m
    BY <1>3, <1>8, <1>11
  <2>2. D(j) - D(s) \in Int /\ m \in Int
    BY <1>3, <1>8, <1>10
  <2> HIDE DEF Bad
  <2> QED BY <1>7, <2>1, <2>2
<1>14. t[s].dib >= 1 + D(s)
  BY <1>3, <1>8, <1>9, <1>10, <1>11, <1>13
<1> HIDE DEF Bad
<1> QED BY <1>1, <1>3, <1>8, <1>10, <1>11, <1>12, <1>14

(* A search that has not passed its key and meets a free bucket, or a set  *)
(* an entry nearer to its home, shows that the key is nowhere.             *)
LEMMA NotFurther ==
  ASSUME NEW t, NEW n, Ordered(t, n), NEW k \in Keys, NEW p \in 0..n - 1,
         NotPassed(t, n, k, p), t[p].dib < 1 + Since(Home(k, n), p, n)
  PROVE  Without(t, 0..n - 1, k)
<1> SUFFICES ASSUME NEW j \in 0..n - 1, t[j].dib # 0, t[j].key = k PROVE FALSE
  BY DEF Without
<1>1. n \in Nat \ {0} /\ t[p].dib \in Nat
  BY DEF Ordered, Typed, Entries
<1>2. Home(k, n) \in 0..n - 1
  BY <1>1, HomeIndex
<1>3. Since(Home(k, n), p, n) \in Nat /\ Since(Home(k, n), j, n) \in Nat
  <2>1. Since(Home(k, n), p, n) \in 0..n - 1 /\ Since(Home(k, n), j, n) \in 0..n - 1
    BY <1>1, <1>2, Distance
  <2> QED BY <1>1, <2>1
<1>4. Since(Home(k, n), p, n) <= Since(Home(k, n), j, n)
  BY <1>3 DEF NotPassed
<1>5. t[p].dib >= 1 + Since(Home(k, n), p, n)
  BY <1>4, HoldsBack
<1> QED BY <1>1, <1>3, <1>5

(* A search begins with nothing passed, and passes what is not its key.    *)
LEMMA PassesOn ==
  ASSUME NEW t, NEW n \in Nat \ {0}, NEW k \in Keys
  PROVE  /\ NotPassed(t, n, k, Home(k, n))
         /\ \A p \in 0..n - 1 : NotPassed(t, n, k, p) /\ t[p].key # k
                                => NotPassed(t, n, k, Succ(p, n))
<1> DEFINE h == Home(k, n)
<1>1. h \in 0..n - 1
  BY HomeIndex
<1>2. \A i \in 0..n - 1 : Since(h, i, n) \in 0..n - 1 /\ Since(h, h, n) = 0
  BY <1>1, Distance
<1>3. NotPassed(t, n, k, h)
  BY <1>2 DEF NotPassed
<1>4. ASSUME NEW p \in 0..n - 1, NotPassed(t, n, k, p), t[p].key # k,
             NEW i \in 0..n - 1, Since(h, i, n) < Since(h, Succ(p, n), n)
      PROVE  t[i].dib = 0 \/ t[i].key # k
  <2>1. Succ(p, n) \in 0..n - 1
    BY Neighbours
  <2>2. Since(h, Succ(p, n), n) > 0
    BY <1>2, <1>4, <2>1
  <2>3. Since(h, p, n) = Since(h, Succ(p, n), n) - 1
    BY <1>1, <2>2, Distance
  <2>4. Since(h, i, n) < Since(h, p, n) \/ Since(h, i, n) = Since(h, p, n)
    BY <1>2, <1>4, <2>1, <2>3
  <2>5. ASSUME Since(h, i, n) = Since(h, p, n) PROVE i = p
    BY <1>1, <2>5 DEF Since
  <2> QED BY <1>4, <2>4, <2>5 DEF NotPassed
<1> QED BY <1>3, <1>4 DEF NotPassed

-----------------------------------------------------------------------------
(* What the map holds, as its items lie.                                   *)
HoldsNow(k, v) ==
  \/ ~Resizing /\ Holds(View, Indices, k, v)
  \/ Resizing /\ (Holds(buckets, Left, k, v) \/ Holds(table, Fresh, k, v))
  \/ (op = "place" \/ Displacing) /\ entry.key = k /\ entry.val = v

(* The key whose effect waits for the return of its call.                  *)
Pending(k) == k = call.key /\ (Removed \/ Displacing)

ContentsAre ==
  /\ Contents \in [Keys -> {Contents[k] : k \in Keys}]
  /\ \A k \in Keys :
       /\ Pending(k) => Contents[k] = IF Removed THEN spare ELSE Null
       /\ ~Pending(k) =>
            /\ \A v : HoldsNow(k, v) => Contents[k] = v
            /\ (\A v : ~HoldsNow(k, v)) => Contents[k] = Null

(* Held is what the indices hold: in a shift, the bucket to be filled has  *)
(* nothing, or an item that has been moved on already.                     *)
LEMMA HeldIs ==
  ASSUME JInv
  PROVE  \A k, v : v \in Held(k) <=> HoldsNow(k, v)
<1> USE DEF JInv, IInv
<1> SUFFICES ASSUME NEW k, NEW v PROVE v \in Held(k) <=> HoldsNow(k, v)
  OBVIOUS
<1>1. /\ nbuckets \in Nat \ {0, 1} /\ DOMAIN buckets = 0..nbuckets - 1
      /\ from \in Nat /\ buckets \in [0..nbuckets - 1 -> Entries]
  BY DEF TableFits, Typed, Types
<1>2. v \in Held(k) <=> (\E e \in InTable : e.key = k /\ e.val = v)
                        \/ ((op = "place" \/ Displacing) /\ entry.key = k /\ entry.val = v)
  <2>1. v \in Held(k) <=> \E e \in InTable \cup InHand : e.key = k /\ e.val = v
    BY DEF Held
  <2>2. (\E e \in InHand : e.key = k /\ e.val = v)
        <=> (op = "place" \/ Displacing) /\ entry.key = k /\ entry.val = v
    BY DEF InHand
  <2> QED BY <2>1, <2>2
<1>3. CASE Resizing
  <2>1. DOMAIN table = 0..tsize - 1
    BY <1>3, Moves DEF Resizing, Typed
  <2>2. (\E e \in {buckets[i] : i \in Used(buckets) \cap from..nbuckets} : e.key = k /\ e.val = v)
        <=> Holds(buckets, Left, k, v)
    BY <1>1 DEF Holds, Left, Used
  <2>3. (\E e \in {table[i] : i \in Used(table)} : e.key = k /\ e.val = v)
        <=> Holds(table, Fresh, k, v)
    BY <2>1 DEF Holds, Fresh, Used
  <2>4. InTable = {buckets[i] : i \in Used(buckets) \cap from..nbuckets} \cup {table[i] : i \in Used(table)}
    BY <1>3 DEF InTable, Resizing
  <2>5. (\E e \in InTable : e.key = k /\ e.val = v)
        <=> Holds(buckets, Left, k, v) \/ Holds(table, Fresh, k, v)
    BY <2>2, <2>3, <2>4
  <2> HIDE DEF JInv, IInv
  <2> QED BY <1>2, <1>3, <2>5 DEF HoldsNow
<1>4. CASE ~Resizing
  <2>1. (\E e \in InTable : e.key = k /\ e.val = v) <=> Holds(buckets, Indices, k, v)
    BY <1>1, <1>4 DEF InTable, Resizing, Holds, Indices, Used
  <2>2. Holds(buckets, Indices, k, v) <=> Holds(View, Indices, k, v)
    <3>1. CASE op = "shift"
      <4>1. /\ pos \in 0..nbuckets - 1 /\ View[pos].dib = 0
            /\ \A i \in 0..nbuckets - 1 : i # pos => View[i] = buckets[i]
        BY <1>1, <3>1, FreeEntry DEF View, Vacate, Types
      <4>2. buckets[pos].dib = 0 \/ Holds(View, Indices, buckets[pos].key, buckets[pos].val)
        BY <3>1 DEF ServesCall
      <4> QED BY <4>1, <4>2 DEF Holds, Indices
    <3>2. CASE op # "shift"
      BY <3>2 DEF View
    <3> QED BY <3>1, <3>2
  <2> HIDE DEF JInv, IInv
  <2> QED BY <1>2, <1>4, <2>1, <2>2 DEF HoldsNow
<1> QED BY <1>3, <1>4

(* No key holds two values.                                                *)
LEMMA OneValue ==
  ASSUME JInv, NEW k, NEW v, NEW w, HoldsNow(k, v), HoldsNow(k, w)
  PROVE  v = w
<1> USE DEF JInv, OnePlaceEach
<1>1. CASE Resizing
  BY <1>1 DEF HoldsNow, Holds, Distinct, Without, Displacing, Resizing
<1>2. CASE ~Resizing
  <2>1. Displacing => View = buckets
    BY DEF Displacing, View
  <2> QED BY <1>2, <2>1 DEF HoldsNow, Holds, Distinct, Without, Resizing
<1> QED BY <1>1, <1>2

(* So Contents says what is held, but for the key that waits.              *)
LEMMA ContentsLaw == JInv => ContentsAre
<1> SUFFICES ASSUME JInv PROVE ContentsAre
  OBVIOUS
<1>1. ~(Removed /\ Displacing)
  BY DEF JInv, IInv, CallFits, Removed, Displacing
<1>2. Contents \in [Keys -> {Contents[k] : k \in Keys}]
  BY DEF Contents
<1>3. ASSUME NEW k \in Keys
      PROVE  /\ Pending(k) => Contents[k] = IF Removed THEN spare ELSE Null
             /\ ~Pending(k) =>
                  /\ \A v : HoldsNow(k, v) => Contents[k] = v
                  /\ (\A v : ~HoldsNow(k, v)) => Contents[k] = Null
  <2>1. Contents[k] = IF Removed /\ k = call.key THEN spare
                      ELSE IF Held(k) = {} \/ (Displacing /\ k = call.key) THEN Null
                      ELSE CHOOSE v \in Held(k) : TRUE
    BY DEF Contents
  <2>2. \A v : v \in Held(k) <=> HoldsNow(k, v)
    BY HeldIs
  <2>3. \A v, w : HoldsNow(k, v) /\ HoldsNow(k, w) => v = w
    BY OneValue
  <2>4. CASE Pending(k)
    BY <1>1, <2>1, <2>4 DEF Pending
  <2>5. CASE ~Pending(k)
    <3>1. Contents[k] = IF Held(k) = {} THEN Null ELSE CHOOSE v \in Held(k) : TRUE
      BY <2>1, <2>5 DEF Pending
    <3>2. Held(k) # {} => (CHOOSE v \in Held(k) : TRUE) \in Held(k)
      OBVIOUS
    <3>3. ASSUME NEW v, HoldsNow(k, v) PROVE Contents[k] = v
      <4>1. v \in Held(k)
        BY <2>2, <3>3
      <4>2. Contents[k] \in Held(k)
        BY <3>1, <3>2, <4>1
      <4> QED BY <2>2, <2>3, <3>3, <4>2
    <3>4. ASSUME \A v : ~HoldsNow(k, v) PROVE Contents[k] = Null
      <4>1. Held(k) = {}
        BY <2>2, <3>4
      <4> QED BY <3>1, <4>1
    <3> QED BY <2>5, <3>3, <3>4
  <2> QED BY <2>4, <2>5
<1> QED BY <1>2, <1>3 DEF ContentsAre

(* The law of Contents, after a step.                                      *)
LEMMA ContentsLater == JInv' => ContentsAre'
BY ContentsLaw, PTL

(* What is held by a key that does not wait, before and after, is shown.   *)
LEMMA SameAt ==
  ASSUME ContentsAre, ContentsAre', NEW k \in Keys, ~Pending(k), ~Pending(k)',
         \A v : HoldsNow(k, v)' <=> HoldsNow(k, v)
  PROVE  Contents'[k] = Contents[k]
<1>1. ASSUME NEW v, HoldsNow(k, v) PROVE Contents'[k] = Contents[k]
  <2>1. Contents[k] = v
    BY <1>1 DEF ContentsAre
  <2>2. Contents'[k] = v
    BY <1>1 DEF ContentsAre
  <2> QED BY <2>1, <2>2
<1>2. CASE \A v : ~HoldsNow(k, v)
  <2>1. Contents[k] = Null
    BY <1>2 DEF ContentsAre
  <2>2. Contents'[k] = Null
    BY <1>2 DEF ContentsAre
  <2> QED BY <2>1, <2>2
<1> QED BY <1>1, <1>2

(* The answer that hashmap_oom and the call's result are.                  *)
Answer == [oom |-> oom, item |-> IF op = "idle" THEN spare ELSE Null]
MapStep == Map!Next \/ UNCHANGED <<Contents, call, Answer>>

(* Two functions that agree.                                               *)
LEMMA SameMap ==
  ASSUME ContentsAre, ContentsAre', \A k \in Keys : Contents'[k] = Contents[k]
  PROVE  Contents' = Contents
BY DEF ContentsAre

(* The new map of hashmap_new is the empty one.                            *)
LEMMA InitMap == Init => JInv /\ Map!Init
<1> SUFFICES ASSUME Init PROVE JInv /\ Map!Init
  OBVIOUS
<1>1. /\ buckets = Empty(MinBuckets) /\ nbuckets = MinBuckets /\ op = "idle" /\ call = NoCall
      /\ spare = Null /\ oom = FALSE
  BY DEF Init
<1>2. ~Resizing /\ ~Displacing /\ ~Removed /\ View = buckets
  BY <1>1 DEF Resizing, Displacing, Removed, View
<1>3. \A i \in Indices : buckets[i].dib = 0
  BY <1>1 DEF Indices, Empty, Free
<1>4. OnePlaceEach
  BY <1>1, <1>2, <1>3 DEF OnePlaceEach, Distinct
<1>5. ServesCall
  BY <1>1, <1>2 DEF ServesCall, NoCall
<1>6. JInv
  BY <1>4, <1>5, InitFits DEF JInv
<1>7. ContentsAre
  BY <1>6, ContentsLaw
<1>8. \A k \in Keys : Contents[k] = Null
  <2>1. \A k, v : ~Pending(k) /\ ~HoldsNow(k, v)
    BY <1>1, <1>2, <1>3 DEF Pending, HoldsNow, Holds
  <2> QED BY <1>7, <2>1 DEF ContentsAre
<1>9. Contents = [k \in Keys |-> Null]
  BY <1>7, <1>8 DEF ContentsAre
<1> QED BY <1>1, <1>6, <1>9 DEF Map!Init, Map!NoCall, NoCall

(* A call begins, or one of the setters is called: the table is as it was. *)
LEMMA CallsRefine ==
  ASSUME JInv, IInv',
         \/ \E f \in LoadFactors : SetLoadFactor(f)
         \/ \E p \in GrowPowers : SetGrowByPower(p)
         \/ \E k \in Keys : GetCall(k) \/ DeleteCall(k) \/ \E v \in Vals : SetCall(k, v)
  PROVE  JInv' /\ MapStep
<1>1. /\ op = "idle" /\ call = NoCall /\ nbuckets \in Nat \ {0, 1}
      /\ UNCHANGED <<buckets, nbuckets, entry, table, from, spare>>
      /\ \/ UNCHANGED <<op, call, oom, pos>>
         \/ \E k \in Keys, v \in Vals :
              op' = "enter" /\ call' = [op |-> "set", key |-> k, val |-> v] /\ oom' = FALSE
         \/ \E k \in Keys : /\ op' = "get" /\ call' = [op |-> "get", key |-> k, val |-> Null]
                            /\ UNCHANGED oom /\ pos' = Home(k, nbuckets)
         \/ \E k \in Keys : /\ op' = "delete" /\ call' = [op |-> "delete", key |-> k, val |-> Null]
                            /\ oom' = FALSE /\ pos' = Home(k, nbuckets)
  BY DEF SetLoadFactor, SetGrowByPower, GetCall, DeleteCall, SetCall, Lookup, sizes, knobs, moving,
         JInv, IInv, CallFits, TableFits, Typed
<1>2. /\ op' \in {"idle", "enter", "get", "delete"}
      /\ op' = "delete" \/ call'.op # "delete"
      /\ op' = "get" => call'.op = "get"
      /\ op' \in {"get", "delete"} => call'.key \in Keys /\ pos' = Home(call'.key, nbuckets)
      /\ call'.op \in {"set", "delete"} => ~oom'
  BY <1>1 DEF NoCall
<1>3. /\ ~Resizing /\ ~Displacing /\ ~Removed /\ View = buckets
      /\ ~Resizing' /\ ~Displacing' /\ ~Removed' /\ View' = buckets
  BY <1>1, <1>2 DEF Resizing, Displacing, Removed, View
<1>4. OnePlaceEach'
  <2>1. Distinct(buckets, Indices)
    BY <1>3 DEF JInv, OnePlaceEach
  <2> QED BY <1>1, <1>2, <1>3, <2>1 DEF OnePlaceEach, Indices
<1>5. ServesCall'
  <2>1. op' \in {"get", "delete"} => NotPassed(buckets, nbuckets, call'.key, pos')
    BY <1>1, <1>2, PassesOn
  <2> QED BY <1>1, <1>2, <1>3, <2>1 DEF ServesCall
<1>6. JInv'
  BY <1>4, <1>5 DEF JInv
<1>7. ContentsAre /\ ContentsAre'
  BY <1>6, ContentsLaw, ContentsLater
<1>8. \A k \in Keys : Contents'[k] = Contents[k]
  <2> TAKE k \in Keys
  <2>1. ~Pending(k) /\ ~Pending(k)'
    BY <1>3 DEF Pending
  <2>2. \A v : HoldsNow(k, v)' <=> HoldsNow(k, v)
    BY <1>1, <1>2, <1>3 DEF HoldsNow, Indices
  <2> QED BY <1>7, <2>1, <2>2, SameAt
<1>9. Contents' = Contents
  BY <1>7, <1>8, SameMap
<1>10. CASE UNCHANGED <<op, call, oom, pos>>
  <2>1. Answer' = Answer
    BY <1>1, <1>10 DEF Answer
  <2> QED BY <1>6, <1>9, <1>10, <2>1 DEF MapStep
<1>11. ASSUME op' # "idle", call' \in Map!Calls,
              oom' \in CASE call'.op = "set" -> {FALSE} [] call'.op = "get" -> {oom}
                          [] OTHER -> BOOLEAN
       PROVE  MapStep
  <2>1. oom' \in Map!OomAfter(call')
    BY <1>11 DEF Map!OomAfter
  <2>2. Answer' \in [oom : Map!OomAfter(call'), item : {Null}]
    BY <1>11, <2>1 DEF Answer
  <2>3. Map!Begin(call')
    BY <1>1, <1>9, <2>2 DEF Map!Begin, Map!NoCall, NoCall, Answer
  <2> QED BY <1>11, <2>3 DEF MapStep, Map!Next
<1>12. CASE \E k \in Keys, v \in Vals :
              op' = "enter" /\ call' = [op |-> "set", key |-> k, val |-> v] /\ oom' = FALSE
  <2>1. call' \in Map!Calls /\ call'.op = "set"
    BY <1>12 DEF Map!Calls
  <2> QED BY <1>6, <1>11, <1>12, <2>1
<1>13. CASE \E k \in Keys : /\ op' = "get" /\ call' = [op |-> "get", key |-> k, val |-> Null]
                            /\ UNCHANGED oom /\ pos' = Home(k, nbuckets)
  <2>1. call' \in Map!Calls /\ call'.op = "get"
    BY <1>13 DEF Map!Calls
  <2> QED BY <1>6, <1>11, <1>13, <2>1
<1>14. CASE \E k \in Keys : /\ op' = "delete" /\ call' = [op |-> "delete", key |-> k, val |-> Null]
                            /\ oom' = FALSE /\ pos' = Home(k, nbuckets)
  <2>1. call' \in Map!Calls /\ call'.op = "delete"
    BY <1>14 DEF Map!Calls
  <2> QED BY <1>6, <1>11, <1>14, <2>1
<1> QED BY <1>1, <1>6, <1>10, <1>12, <1>13, <1>14

(* hashmap_clear empties the map.                                          *)
LEMMA ClearRefines ==
  ASSUME JInv, IInv', NEW u \in BOOLEAN, Clear(u)
  PROVE  JInv' /\ MapStep
<1>1. /\ op = "idle" /\ op' = "idle" /\ call = NoCall /\ call' = NoCall
      /\ buckets' = Empty(nbuckets') /\ UNCHANGED <<oom, spare>>
  BY DEF Clear, knobs, moving, JInv, IInv, CallFits
<1>2. ~Resizing' /\ ~Displacing' /\ ~Removed' /\ View' = buckets'
  BY <1>1 DEF Resizing, Displacing, Removed, View
<1>3. \A i \in Indices' : buckets'[i].dib = 0
  BY <1>1 DEF Indices, Empty, Free
<1>4. OnePlaceEach'
  BY <1>1, <1>2, <1>3 DEF OnePlaceEach, Distinct
<1>5. ServesCall'
  BY <1>1, <1>2 DEF ServesCall, NoCall
<1>6. JInv'
  BY <1>4, <1>5 DEF JInv
<1>7. ContentsAre'
  BY <1>6, ContentsLater
<1>8. \A k \in Keys : Contents'[k] = Null
  <2>1. \A k, v : ~Pending(k)' /\ ~HoldsNow(k, v)'
    BY <1>1, <1>2, <1>3 DEF Pending, HoldsNow, Holds
  <2> QED BY <1>7, <2>1 DEF ContentsAre
<1>9. Contents' = [k \in Keys |-> Null]
  BY <1>7, <1>8 DEF ContentsAre
<1>10. Map!Clear
  BY <1>1, <1>9 DEF Map!Clear, Map!NoCall, NoCall
<1> QED BY <1>6, <1>10 DEF MapStep, Map!Next

(* A step inside a call that leaves what is shown is a stutter.            *)
LEMMA Unnoticed ==
  ASSUME ContentsAre, ContentsAre', op # "idle", op' # "idle", UNCHANGED <<call, oom>>,
         \A k \in Keys : Contents'[k] = Contents[k]
  PROVE  MapStep
<1>1. Contents' = Contents
  BY SameMap
<1>2. Answer' = Answer
  BY DEF Answer
<1> QED BY <1>1, <1>2 DEF MapStep

(* A return that changes what is shown of the key of the call.             *)
LEMMA OneChanged ==
  ASSUME ContentsAre, ContentsAre', NEW k \in Keys, NEW x, Contents'[k] = x,
         \A j \in Keys \ {k} : Contents'[j] = Contents[j]
  PROVE  Contents' = [Contents EXCEPT ![k] = x]
BY DEF ContentsAre

(* A new table is empty.                                                   *)
LEMMA NothingYet ==
  ASSUME NEW n \in Nat \ {0, 1}, table' = Empty(n)
  PROVE  Fresh' = 0..n - 1 /\ \A i \in Fresh' : table'[i].dib = 0
<1>1. Ordered(table', n)
  BY EmptyOrdered
<1>2. tsize' = n
  BY <1>1, Room DEF Ordered, tsize
<1> QED BY <1>2 DEF Fresh, Empty, Free

(* hashmap_set, up to its loop.                                            *)
LEMMA EnterRefines ==
  ASSUME JInv, IInv', EnterSet \/ EnterGrow \/ EnterOom
  PROVE  JInv' /\ MapStep
<1>1. /\ op = "enter" /\ call \in CallsMade /\ call.op = "set" /\ nbuckets \in Nat \ {0, 1}
      /\ ~oom /\ growpower \in 1..16 /\ call.key \in Keys
      /\ UNCHANGED <<buckets, nbuckets>>
  BY DEF EnterSet, EnterGrow, EnterOom, StartResize, Return, sizes, JInv, IInv, CallFits, TableFits, Typed,
         ServesCall, SizesFit, CallsMade
<1>2. ~Resizing /\ ~Displacing /\ ~Removed /\ View = buckets
  BY <1>1 DEF Resizing, Displacing, Removed, View
<1>3. Distinct(buckets, Indices) /\ Indices' = Indices
  BY <1>1, <1>2 DEF JInv, OnePlaceEach, Indices
<1>4. ContentsAre
  BY ContentsLaw
<1>5. CASE EnterSet
  <2>1. /\ op' = "set" /\ entry' = [key |-> call.key, val |-> call.val, dib |-> 1]
        /\ pos' = Home(call.key, nbuckets) /\ UNCHANGED <<call, oom, spare>>
    BY <1>5 DEF EnterSet, StartSet
  <2>2. ~Resizing' /\ ~Displacing' /\ ~Removed' /\ View' = buckets
    BY <1>1, <2>1 DEF Resizing, Displacing, Removed, View
  <2>3. NotPassed(buckets, nbuckets, call.key, pos')
    BY <1>1, <2>1, PassesOn
  <2>4. OnePlaceEach'
    BY <1>3, <2>1, <2>2 DEF OnePlaceEach
  <2>5. ServesCall'
    BY <1>1, <2>1, <2>2, <2>3 DEF ServesCall
  <2>6. JInv' /\ ContentsAre'
    BY <2>4, <2>5, ContentsLater DEF JInv
  <2>7. \A k \in Keys : Contents'[k] = Contents[k]
    <3> TAKE k \in Keys
    <3>1. ~Pending(k) /\ ~Pending(k)'
      BY <1>2, <2>2 DEF Pending
    <3>2. \A v : HoldsNow(k, v)' <=> HoldsNow(k, v)
      BY <1>1, <1>2, <1>3, <2>1, <2>2 DEF HoldsNow
    <3> QED BY <1>4, <2>6, <3>1, <3>2, SameAt
  <2> QED BY <1>1, <1>4, <2>1, <2>6, <2>7, Unnoticed
<1>6. CASE EnterGrow
  <2> DEFINE n == nbuckets * 2 ^ growpower
  <2>1. /\ op' = "resize" /\ table' = Empty(n) /\ from' = 0 /\ UNCHANGED <<call, oom, spare>>
    BY <1>6 DEF EnterGrow, StartResize
  <2>2. n \in Nat \ {0, 1}
    <3>1. n \in Nat /\ n >= 2 * nbuckets
      BY Grown DEF JInv, IInv, SizesFit
    <3> HIDE DEF n
    <3> QED BY <1>1, <3>1
  <2>3. Fresh' = 0..n - 1 /\ \A i \in Fresh' : table'[i].dib = 0
    <3> HIDE DEF n
    <3> QED BY <2>1, <2>2, NothingYet
  <2> HIDE DEF n
  <2>4. Resizing' /\ ~Displacing' /\ ~Removed' /\ Left' = Indices
    BY <1>1, <2>1 DEF Resizing, Displacing, Removed, Left, Indices
  <2>5. OnePlaceEach'
    BY <1>1, <1>3, <2>1, <2>3, <2>4 DEF OnePlaceEach, Distinct, Without
  <2>6. ServesCall'
    BY <1>1, <2>1, <2>4 DEF ServesCall
  <2>7. JInv' /\ ContentsAre'
    BY <2>5, <2>6, ContentsLater DEF JInv
  <2>8. \A k \in Keys : Contents'[k] = Contents[k]
    <3> TAKE k \in Keys
    <3>1. ~Pending(k) /\ ~Pending(k)'
      BY <1>2, <2>4 DEF Pending
    <3>2. \A v : HoldsNow(k, v)' <=> HoldsNow(k, v)
      BY <1>1, <1>2, <2>1, <2>3, <2>4 DEF HoldsNow, Holds
    <3> QED BY <1>4, <2>7, <3>1, <3>2, SameAt
  <2> QED BY <1>1, <1>4, <2>1, <2>7, <2>8, Unnoticed
<1>7. CASE EnterOom
  <2>1. op' = "idle" /\ call' = NoCall /\ spare' = Null /\ oom' = TRUE /\ UNCHANGED moving
    BY <1>7 DEF EnterOom, Return
  <2>2. ~Resizing' /\ ~Displacing' /\ ~Removed' /\ View' = buckets
    BY <1>1, <2>1 DEF Resizing, Displacing, Removed, View
  <2>3. OnePlaceEach'
    BY <1>3, <2>1, <2>2 DEF OnePlaceEach
  <2>4. ServesCall'
    BY <2>1, <2>2 DEF ServesCall, NoCall
  <2>5. JInv' /\ ContentsAre'
    BY <2>3, <2>4, ContentsLater DEF JInv
  <2>6. \A k \in Keys : Contents'[k] = Contents[k]
    <3> TAKE k \in Keys
    <3>1. ~Pending(k) /\ ~Pending(k)'
      BY <1>2, <2>2 DEF Pending
    <3>2. \A v : HoldsNow(k, v)' <=> HoldsNow(k, v)
      BY <1>1, <1>2, <1>3, <2>1, <2>2 DEF HoldsNow
    <3> QED BY <1>4, <2>5, <3>1, <3>2, SameAt
  <2>7. Contents' = Contents
    BY <1>4, <2>5, <2>6, SameMap
  <2>8. Map!Set
    BY <1>1, <2>1, <2>7 DEF Map!Set, Map!NoCall, NoCall
  <2> QED BY <2>5, <2>8 DEF MapStep, Map!Next
<1> QED BY <1>5, <1>6, <1>7

(* What is known in the loop of hashmap_set: where the entry in hand may   *)
(* be put down its key is nowhere, and it is not in the table elsewhere    *)
(* once its item is.                                                       *)
LEMMA Sets ==
  ASSUME JInv, op = "set"
  PROVE  /\ ~Resizing /\ ~Removed /\ View = buckets /\ oom = FALSE
         /\ call \in CallsMade /\ call.op = "set" /\ call.key \in Keys
         /\ nbuckets \in Nat \ {0, 1} /\ Typed(buckets, nbuckets) /\ Ordered(buckets, nbuckets)
         /\ pos \in Indices /\ entry \in Entries /\ entry.key \in Keys /\ entry.dib # 0
         /\ Distinct(buckets, Indices)
         /\ buckets[pos].dib < entry.dib => Without(buckets, Indices, entry.key)
<1> USE DEF JInv, IInv
<1>1. /\ ~Resizing /\ ~Removed /\ View = buckets
      /\ call \in CallsMade /\ call.op = "set"
      /\ nbuckets \in Nat \ {0, 1} /\ Typed(buckets, nbuckets) /\ Ordered(buckets, nbuckets)
      /\ Probing(buckets, nbuckets, entry, pos)
  BY DEF Resizing, Removed, View, CallFits, TableFits, Typed
<1>2. oom = FALSE /\ Distinct(buckets, Indices) /\ call.key \in Keys
  BY <1>1 DEF ServesCall, OnePlaceEach, CallsMade, Types
<1>3. pos \in Indices /\ entry \in Entries /\ entry.key \in Keys
  BY <1>1 DEF Probing, Indices
<1>4. entry.dib = 1 + Since(Home(entry.key, nbuckets), pos, nbuckets)
  BY <1>1 DEF Probing
<1>5. entry.dib # 0
  <2>1. Home(entry.key, nbuckets) \in 0..nbuckets - 1
    BY <1>1, <1>3, HomeIndex
  <2>2. Since(Home(entry.key, nbuckets), pos, nbuckets) \in 0..nbuckets - 1
    BY <1>1, <1>3, <2>1, Distance DEF Indices
  <2> QED BY <1>1, <1>4, <2>2
<1>6. ASSUME buckets[pos].dib < entry.dib PROVE Without(buckets, Indices, entry.key)
  <2>1. CASE Displacing
    BY <2>1 DEF OnePlaceEach
  <2>2. CASE ~Displacing
    <3>1. entry.key = call.key /\ NotPassed(buckets, nbuckets, entry.key, pos)
      BY <2>2 DEF Displacing, ServesCall
    <3> HIDE DEF JInv, IInv
    <3> QED BY <1>1, <1>3, <1>4, <1>6, <3>1, NotFurther DEF Indices
  <2> QED BY <2>1, <2>2
<1> QED BY <1>1, <1>2, <1>3, <1>5, <1>6

(* hashmap_set, a free bucket: the item is added, or the last one that was *)
(* displaced comes to rest, and with it the item counts.                   *)
LEMMA SetAdds ==
  ASSUME JInv, IInv', SetStep, buckets[pos].dib = 0
  PROVE  JInv' /\ MapStep
<1>1. /\ op = "set" /\ op' = "idle" /\ call' = NoCall /\ spare' = Null
      /\ buckets' = [buckets EXCEPT ![pos] = entry] /\ UNCHANGED <<nbuckets, oom>>
  BY DEF SetStep, Return, sizes
<1>2. /\ ~Resizing /\ ~Removed /\ View = buckets /\ oom = FALSE
      /\ call \in CallsMade /\ call.op = "set" /\ call.key \in Keys
      /\ Typed(buckets, nbuckets) /\ pos \in 0..nbuckets - 1 /\ entry.dib # 0 /\ entry \in Entries
      /\ Distinct(buckets, Indices) /\ (buckets[pos].dib < entry.dib => Without(buckets, Indices, entry.key))
  BY <1>1, Sets DEF Indices
<1>3. Without(buckets, Indices, entry.key)
  <2>1. 0 < entry.dib
    BY <1>2 DEF Entries
  <2> QED BY <1>2, <2>1
<1>4. ~Resizing' /\ ~Displacing' /\ ~Removed' /\ View' = buckets' /\ Indices' = Indices
  BY <1>1 DEF Resizing, Displacing, Removed, View, Indices
<1>5. /\ \A k, v : Holds(buckets', Indices, k, v) <=>
                     Holds(buckets, Indices, k, v) \/ (entry.key = k /\ entry.val = v)
      /\ Distinct(buckets', Indices)
  <2> DEFINE u == [buckets EXCEPT ![pos] = entry]
             n == nbuckets
  <2>1. /\ \A k, v : Holds(u, 0..n - 1, k, v) <=>
                        Holds(buckets, 0..n - 1, k, v) \/ (entry.key = k /\ entry.val = v)
        /\ Distinct(buckets, 0..n - 1) /\ Without(buckets, 0..n - 1, entry.key)
           => Distinct(u, 0..n - 1)
    BY ONLY <1>2, JoinsTable, buckets[pos].dib = 0
  <2>2. Indices = 0..n - 1 /\ buckets' = u
    BY <1>1 DEF Indices
  <2> HIDE DEF u, n
  <2> QED BY <1>2, <1>3, <2>1, <2>2
<1>6. OnePlaceEach'
  BY <1>1, <1>4, <1>5 DEF OnePlaceEach
<1>7. ServesCall'
  BY <1>1, <1>4 DEF ServesCall, NoCall
<1>8. JInv' /\ ContentsAre' /\ ContentsAre
  BY <1>6, <1>7, ContentsLater, ContentsLaw DEF JInv
<1>9. \A k \in Keys \ {call.key} : Contents'[k] = Contents[k]
  <2> TAKE k \in Keys \ {call.key}
  <2>1. ~Pending(k) /\ ~Pending(k)'
    BY <1>4 DEF Pending
  <2>2. \A v : HoldsNow(k, v)' <=> HoldsNow(k, v)
    BY <1>1, <1>2, <1>4, <1>5 DEF HoldsNow, Displacing
  <2> QED BY <1>8, <2>1, <2>2, SameAt
<1>10. Contents[call.key] = Null
  <2>1. CASE Displacing
    BY <1>2, <1>8, <2>1 DEF ContentsAre, Pending
  <2>2. CASE ~Displacing
    <3>1. \A v : ~HoldsNow(call.key, v)
      BY <1>1, <1>2, <1>3, <2>2 DEF HoldsNow, Holds, Without, Displacing
    <3> QED BY <1>2, <1>8, <2>2, <3>1 DEF ContentsAre, Pending
  <2> QED BY <2>1, <2>2
<1>11. Contents'[call.key] = call.val
  <2>1. Holds(buckets', Indices, call.key, call.val)
    <3>1. CASE Displacing
      BY <1>5, <3>1 DEF JInv, ServesCall
    <3>2. CASE ~Displacing
      BY <1>1, <1>5, <3>2 DEF JInv, ServesCall, Displacing
    <3> QED BY <3>1, <3>2
  <2>2. PICK k \in Keys, v \in {call.val} : k = call.key /\ v = call.val
    BY <1>2
  <2>3. HoldsNow(k, v)' /\ ~Pending(k)'
    BY <1>4, <2>1, <2>2 DEF HoldsNow, Pending
  <2>4. Contents'[k] = v
    BY <1>8, <2>3 DEF ContentsAre
  <2> QED BY <2>2, <2>4
<1>12. Contents' = [Contents EXCEPT ![call.key] = call.val]
  BY <1>2, <1>8, <1>9, <1>11, OneChanged
<1>13. Map!Set
  BY <1>1, <1>2, <1>10, <1>12 DEF Map!Set, Map!NoCall, NoCall
<1> QED BY <1>8, <1>13 DEF MapStep, Map!Next

(* hashmap_set, the bucket of its key: the item is replaced.               *)
LEMMA SetReplaces ==
  ASSUME JInv, IInv', SetStep, buckets[pos].dib # 0, buckets[pos].key = entry.key
  PROVE  JInv' /\ MapStep
<1> DEFINE b == buckets[pos]
<1>1. /\ op = "set" /\ op' = "idle" /\ call' = NoCall /\ spare' = b.val
      /\ buckets' = [buckets EXCEPT ![pos].val = entry.val] /\ UNCHANGED <<nbuckets, oom>>
  BY DEF SetStep, Return, sizes
<1>2. /\ ~Resizing /\ ~Removed /\ View = buckets /\ oom = FALSE
      /\ call \in CallsMade /\ call.op = "set" /\ call.key \in Keys
      /\ Typed(buckets, nbuckets) /\ pos \in Indices /\ Distinct(buckets, Indices)
  BY <1>1, Sets
<1>3. ~Displacing /\ entry.key = call.key /\ entry.val = call.val
  <2>1. ~Without(buckets, Indices, entry.key)
    BY <1>2 DEF Without
  <2>2. ~Displacing
    BY <2>1 DEF JInv, OnePlaceEach
  <2> QED BY <1>1, <2>2 DEF JInv, ServesCall, Displacing
<1>4. ~Resizing' /\ ~Displacing' /\ ~Removed' /\ View' = buckets' /\ Indices' = Indices
  BY <1>1 DEF Resizing, Displacing, Removed, View, Indices
<1>5. /\ \A i \in Indices : buckets'[i].key = buckets[i].key /\ buckets'[i].dib = buckets[i].dib
      /\ buckets'[pos].val = call.val /\ \A i \in Indices : i # pos => buckets'[i] = buckets[i]
  <2>1. \A i \in Indices : i \in DOMAIN buckets /\ buckets[i] \in Entries
    BY <1>2 DEF Typed, Indices
  <2> QED BY <1>1, <1>2, <1>3, <2>1 DEF Entries
<1>6. OnePlaceEach'
  BY <1>1, <1>2, <1>4, <1>5 DEF OnePlaceEach, Distinct
<1>7. ServesCall'
  BY <1>1, <1>4 DEF ServesCall, NoCall
<1>8. JInv' /\ ContentsAre' /\ ContentsAre
  BY <1>6, <1>7, ContentsLater, ContentsLaw DEF JInv
<1>9. \A k \in Keys \ {call.key} : Contents'[k] = Contents[k]
  <2> TAKE k \in Keys \ {call.key}
  <2>1. ~Pending(k) /\ ~Pending(k)'
    BY <1>4 DEF Pending
  <2>2. ASSUME NEW v PROVE Holds(buckets', Indices, k, v) <=> Holds(buckets, Indices, k, v)
    BY <1>3, <1>5 DEF Holds
  <2>3. \A v : HoldsNow(k, v)' <=> HoldsNow(k, v)
    BY <1>1, <1>2, <1>3, <1>4, <2>2 DEF HoldsNow
  <2> QED BY <1>8, <2>1, <2>3, SameAt
<1>10. Contents[call.key] = b.val
  <2>1. HoldsNow(call.key, b.val) /\ ~Pending(call.key)
    BY <1>2, <1>3 DEF HoldsNow, Holds, Pending
  <2> QED BY <1>2, <1>8, <2>1 DEF ContentsAre
<1>11. Contents'[call.key] = call.val
  <2>1. Holds(buckets', Indices, call.key, call.val)
    BY <1>2, <1>3, <1>5 DEF Holds
  <2>2. PICK k \in Keys, v \in {call.val} : k = call.key /\ v = call.val
    BY <1>2
  <2>3. HoldsNow(k, v)' /\ ~Pending(k)'
    BY <1>4, <2>1, <2>2 DEF HoldsNow, Pending
  <2>4. Contents'[k] = v
    BY <1>8, <2>3 DEF ContentsAre
  <2> QED BY <2>2, <2>4
<1>12. Contents' = [Contents EXCEPT ![call.key] = call.val]
  BY <1>2, <1>8, <1>9, <1>11, OneChanged
<1>13. Map!Set
  BY <1>1, <1>2, <1>10, <1>12 DEF Map!Set, Map!NoCall, NoCall
<1> QED BY <1>8, <1>13 DEF MapStep, Map!Next

(* hashmap_set goes on, with an entry it has displaced: nothing is shown.  *)
LEMMA SetDisplaces ==
  ASSUME JInv, IInv', SetStep, buckets[pos].dib # 0, buckets[pos].key # entry.key,
         buckets[pos].dib < entry.dib
  PROVE  JInv' /\ MapStep
<1> DEFINE b == buckets[pos]
<1>1. /\ op = "set" /\ op' = "set" /\ UNCHANGED <<call, oom, nbuckets, spare>>
      /\ buckets' = [buckets EXCEPT ![pos] = entry] /\ entry' = Further(b)
  BY DEF SetStep, Nearer, sizes
<1>2. /\ ~Resizing /\ ~Removed /\ View = buckets /\ oom = FALSE
      /\ call \in CallsMade /\ call.op = "set" /\ call.key \in Keys
      /\ Typed(buckets, nbuckets) /\ pos \in 0..nbuckets - 1 /\ entry.dib # 0
      /\ Distinct(buckets, 0..nbuckets - 1) /\ Without(buckets, 0..nbuckets - 1, entry.key)
      /\ Indices = 0..nbuckets - 1
  BY <1>1, Sets DEF Indices
<1>3. entry'.key = b.key /\ entry'.val = b.val
  <2>1. b \in Entries
    BY <1>2 DEF Typed
  <2> QED BY <1>1, <2>1 DEF Further, Entries
<1>4. /\ ~Resizing' /\ ~Removed' /\ View' = buckets' /\ Indices' = Indices
      /\ Displacing' <=> b.key # call.key
  BY <1>1, <1>2, <1>3 DEF Resizing, Displacing, Removed, View, Indices
<1>5. /\ \A k, v : Holds(buckets', Indices, k, v) \/ (b.key = k /\ b.val = v) <=>
                     Holds(buckets, Indices, k, v) \/ (entry.key = k /\ entry.val = v)
      /\ Distinct(buckets', Indices) /\ Without(buckets', Indices, b.key)
  <2> DEFINE u == [buckets EXCEPT ![pos] = entry]
             n == nbuckets
  <2>1. /\ \A k, v : Holds(u, 0..n - 1, k, v) \/ (b.key = k /\ b.val = v) <=>
                        Holds(buckets, 0..n - 1, k, v) \/ (entry.key = k /\ entry.val = v)
        /\ Distinct(u, 0..n - 1) /\ Without(u, 0..n - 1, b.key)
    BY ONLY <1>2, ChangesPlaces, buckets[pos].dib # 0
  <2>2. Indices = 0..n - 1 /\ buckets' = u
    BY <1>1, <1>2
  <2> HIDE DEF u, n
  <2> QED BY <2>1, <2>2
<1>6. OnePlaceEach'
  BY <1>1, <1>3, <1>4, <1>5 DEF OnePlaceEach
<1>7. Holds(buckets, Indices, call.key, call.val) \/ (entry.key = call.key /\ entry.val = call.val)
  BY <1>1 DEF JInv, ServesCall, Displacing
<1>8. ServesCall'
  <2>1. CASE Displacing'
    <3>1. Holds(buckets', Indices, call.key, call.val)
      BY <1>4, <1>5, <1>7, <2>1
    <3> QED BY <1>1, <1>2, <1>4, <2>1, <3>1 DEF ServesCall
  <2>2. CASE ~Displacing'
    <3>1. b.key = call.key /\ ~(entry.key = call.key)
      BY <1>4, <2>2
    <3>2. entry'.val = call.val
      <4>1. Holds(buckets, Indices, call.key, call.val)
        BY <1>7, <3>1
      <4> QED BY <1>2, <1>3, <3>1, <4>1 DEF Holds, Distinct
    <3>3. NotPassed(buckets', nbuckets, call.key, pos')
      BY <1>2, <1>5, <3>1 DEF Without, NotPassed
    <3> QED BY <1>1, <1>2, <1>4, <2>2, <3>2, <3>3 DEF ServesCall
  <2> QED BY <2>1, <2>2
<1>9. JInv' /\ ContentsAre' /\ ContentsAre
  BY <1>6, <1>8, ContentsLater, ContentsLaw DEF JInv
<1>10. ASSUME NEW k \in Keys, k # call.key PROVE Contents'[k] = Contents[k]
  <2>1. ~Pending(k) /\ ~Pending(k)'
    BY <1>1, <1>10 DEF Pending
  <2>2. ASSUME NEW v
        PROVE  HoldsNow(k, v) <=> Holds(buckets, Indices, k, v) \/ (entry.key = k /\ entry.val = v)
    BY <1>1, <1>2, <1>10 DEF HoldsNow, Displacing
  <2>3. ASSUME NEW v
        PROVE  HoldsNow(k, v)' <=> Holds(buckets', Indices, k, v) \/ (b.key = k /\ b.val = v)
    BY <1>1, <1>3, <1>4, <1>10 DEF HoldsNow
  <2>4. \A v : HoldsNow(k, v)' <=> HoldsNow(k, v)
    BY <1>5, <2>2, <2>3
  <2> QED BY <1>9, <2>1, <2>4, SameAt
<1>11. Contents[call.key] = Null
  <2>1. CASE Displacing
    BY <1>2, <1>9, <2>1 DEF ContentsAre, Pending
  <2>2. CASE ~Displacing
    <3>1. \A v : ~HoldsNow(call.key, v)
      BY <1>1, <1>2, <2>2 DEF HoldsNow, Holds, Without, Displacing
    <3> QED BY <1>2, <1>9, <2>2, <3>1 DEF ContentsAre, Pending
  <2> QED BY <2>1, <2>2
<1>12. Contents'[call.key] = Null
  <2>1. PICK k \in Keys : k = call.key
    BY <1>2
  <2>2. CASE Displacing'
    <3>1. Pending(k)' /\ ~Removed'
      BY <1>1, <1>4, <2>1, <2>2 DEF Pending
    <3>2. Contents'[k] = Null
      BY <1>9, <3>1 DEF ContentsAre
    <3> QED BY <2>1, <3>2
  <2>3. CASE ~Displacing'
    <3>1. \A v : ~HoldsNow(k, v)'
      BY <1>1, <1>4, <1>5, <2>1, <2>3 DEF HoldsNow, Holds, Without
    <3>2. ~Pending(k)'
      BY <1>4, <2>3 DEF Pending
    <3>3. Contents'[k] = Null
      BY <1>9, <3>1, <3>2 DEF ContentsAre
    <3> QED BY <2>1, <3>3
  <2> QED BY <2>2, <2>3
<1>13. \A k \in Keys : Contents'[k] = Contents[k]
  BY <1>10, <1>11, <1>12
<1> QED BY <1>1, <1>9, <1>13, Unnoticed

(* hashmap_set goes on with the entry it has.                              *)
LEMMA SetGoesOn ==
  ASSUME JInv, IInv', SetStep, buckets[pos].dib # 0, buckets[pos].key # entry.key,
         ~(buckets[pos].dib < entry.dib)
  PROVE  JInv' /\ MapStep
<1>1. /\ op = "set" /\ op' = "set" /\ UNCHANGED <<buckets, call, oom, nbuckets, spare>>
      /\ entry' = Further(entry) /\ pos' = Succ(pos, nbuckets)
  BY DEF SetStep, Nearer, sizes
<1>2. /\ ~Resizing /\ ~Removed /\ View = buckets /\ oom = FALSE
      /\ call \in CallsMade /\ call.op = "set" /\ call.key \in Keys /\ entry \in Entries
      /\ nbuckets \in Nat \ {0} /\ pos \in 0..nbuckets - 1 /\ Distinct(buckets, Indices)
  BY <1>1, Sets DEF Indices
<1>3. entry'.key = entry.key /\ entry'.val = entry.val
  BY <1>1, <1>2 DEF Further, Entries
<1>4. /\ ~Resizing' /\ ~Removed' /\ View' = buckets' /\ Indices' = Indices
      /\ Displacing' <=> Displacing
  BY <1>1, <1>2, <1>3 DEF Resizing, Displacing, Removed, View, Indices
<1>5. OnePlaceEach'
  BY <1>1, <1>2, <1>3, <1>4 DEF JInv, OnePlaceEach
<1>6. ServesCall'
  <2>1. CASE Displacing
    BY <1>1, <1>2, <1>4, <2>1 DEF JInv, ServesCall
  <2>2. CASE ~Displacing
    <3>1. entry.key = call.key /\ entry.val = call.val /\ NotPassed(buckets, nbuckets, call.key, pos)
      BY <1>1, <2>2 DEF JInv, ServesCall, Displacing
    <3>2. NotPassed(buckets, nbuckets, call.key, Succ(pos, nbuckets))
      BY <1>2, <3>1, PassesOn
    <3> QED BY <1>1, <1>2, <1>3, <1>4, <2>2, <3>1, <3>2 DEF ServesCall
  <2> QED BY <2>1, <2>2
<1>7. JInv' /\ ContentsAre' /\ ContentsAre
  BY <1>5, <1>6, ContentsLater, ContentsLaw DEF JInv
<1>8. ASSUME NEW k \in Keys PROVE Contents'[k] = Contents[k]
  <2>1. CASE Pending(k)
    <3>1. Pending(k)'
      BY <1>1, <1>4, <2>1 DEF Pending, Removed
    <3> QED BY <1>2, <1>4, <1>7, <2>1, <3>1 DEF ContentsAre
  <2>2. CASE ~Pending(k)
    <3>1. ~Pending(k)'
      BY <1>1, <1>2, <1>4, <2>2 DEF Pending
    <3>2. \A v : HoldsNow(k, v)' <=> HoldsNow(k, v)
      BY <1>1, <1>2, <1>3, <1>4 DEF HoldsNow
    <3> QED BY <1>7, <2>2, <3>1, <3>2, SameAt
  <2> QED BY <2>1, <2>2
<1> QED BY <1>1, <1>7, <1>8, Unnoticed

(* So one probe of hashmap_set is a step of the map.                       *)
LEMMA SetStepRefines ==
  ASSUME JInv, IInv', SetStep
  PROVE  JInv' /\ MapStep
BY SetAdds, SetReplaces, SetDisplaces, SetGoesOn

(* What is known in the loops of a resize: nothing of it is shown.         *)
LEMMA Resizes ==
  ASSUME JInv, op \in {"resize", "place"}
  PROVE  /\ Resizing /\ ~Displacing /\ call \in CallsMade
         /\ nbuckets \in Nat \ {0, 1} /\ Typed(buckets, nbuckets) /\ from \in 0..nbuckets
         /\ Typed(table, tsize) /\ tsize \in Nat \ {0, 1}
         /\ Distinct(buckets, Left) /\ Distinct(table, Fresh)
         /\ \A i \in Left : buckets[i].dib # 0 => Without(table, Fresh, buckets[i].key)
         /\ Removed => Without(buckets, Left, call.key) /\ Without(table, Fresh, call.key)
<1>1. /\ Resizing /\ call \in CallsMade
      /\ nbuckets \in Nat \ {0, 1} /\ Typed(buckets, nbuckets) /\ from \in 0..nbuckets
      /\ Typed(table, tsize) /\ tsize \in Nat \ {0, 1}
  BY Moves DEF JInv
<1>2. ~Displacing
  BY DEF Displacing
<1> QED BY <1>1, <1>2 DEF JInv, OnePlaceEach, ServesCall

(* A step of a resize that holds on to everything is a stutter.            *)
LEMMA NothingMoves ==
  ASSUME JInv, JInv', op \in {"resize", "place"}, op' \in {"resize", "place"},
         UNCHANGED <<call, oom, spare>>, \A k, v : HoldsNow(k, v)' <=> HoldsNow(k, v)
  PROVE  MapStep
<1>1. ContentsAre /\ ContentsAre'
  BY ContentsLater, ContentsLaw
<1>2. ~Displacing /\ ~Displacing' /\ (Removed' <=> Removed)
  BY DEF Displacing, Removed
<1>3. ASSUME NEW k \in Keys PROVE Contents'[k] = Contents[k]
  <2>1. Pending(k)' <=> Pending(k)
    BY <1>2 DEF Pending
  <2>2. CASE Pending(k)
    <3>1. Removed /\ Removed'
      BY <1>2, <2>2 DEF Pending
    <3> QED BY <1>1, <2>1, <2>2, <3>1 DEF ContentsAre
  <2>3. CASE ~Pending(k)
    BY <1>1, <2>1, <2>3, SameAt
  <2> QED BY <2>2, <2>3
<1> QED BY <1>1, <1>3, Unnoticed

(* resize0, the outer loop: an entry is taken up.                          *)
LEMMA ResizeNextRefines ==
  ASSUME JInv, IInv', ResizeNext
  PROVE  JInv' /\ MapStep
<1>1. /\ op = "resize" /\ from < nbuckets /\ from' = from + 1
      /\ UNCHANGED <<buckets, nbuckets, oom, call, table, spare>>
  BY DEF ResizeNext, sizes
<1>2. /\ Resizing /\ ~Displacing /\ call \in CallsMade /\ nbuckets \in Nat /\ from \in Nat
      /\ Distinct(buckets, Left) /\ Distinct(table, Fresh)
      /\ \A i \in Left : buckets[i].dib # 0 => Without(table, Fresh, buckets[i].key)
      /\ Removed => Without(buckets, Left, call.key) /\ Without(table, Fresh, call.key)
      /\ \A i \in Left : buckets[i] \in Entries
  BY <1>1, Resizes DEF Typed, Left
<1>3. /\ Fresh' = Fresh /\ from \in Left /\ from \notin Left' /\ Left = Left' \cup {from}
  BY <1>1, <1>2 DEF Left, Fresh, tsize
<1>4. /\ Distinct(buckets, Left')
      /\ \A k : Without(buckets, Left, k) => Without(buckets, Left', k)
  <2>1. \A i \in Left' : i \in Left
    BY <1>3
  <2>2. Distinct(buckets, Left')
    BY <1>2, <2>1 DEF Distinct
  <2>3. ASSUME NEW k, Without(buckets, Left, k) PROVE Without(buckets, Left', k)
    BY <2>1, <2>3 DEF Without
  <2> QED BY <2>2, <2>3
<1>5. CASE buckets[from].dib = 0
  <2>1. op' = "resize" /\ UNCHANGED entry
    BY <1>1, <1>5 DEF ResizeNext
  <2>2. Resizing' /\ ~Displacing' /\ (Removed' <=> Removed)
    BY <1>1, <2>1 DEF Resizing, Displacing, Removed
  <2>3. OnePlaceEach'
    BY <1>1, <1>2, <1>3, <1>4, <2>1, <2>2 DEF OnePlaceEach
  <2>4. ServesCall'
    BY <1>1, <1>2, <1>3, <1>4, <2>1, <2>2 DEF JInv, ServesCall
  <2>5. \A k, v : Holds(buckets, Left', k, v) <=> Holds(buckets, Left, k, v)
    BY <1>3, <1>5 DEF Holds
  <2>6. \A k, v : HoldsNow(k, v)' <=> HoldsNow(k, v)
    BY <1>1, <1>2, <1>3, <2>1, <2>2, <2>5 DEF HoldsNow
  <2>7. JInv'
    BY <2>3, <2>4 DEF JInv
  <2> QED BY <1>1, <2>1, <2>6, <2>7, NothingMoves
<1>6. CASE buckets[from].dib # 0
  <2>1. op' = "place" /\ entry' = [buckets[from] EXCEPT !.dib = 1]
    BY <1>6 DEF ResizeNext
  <2>2. entry'.key = buckets[from].key /\ entry'.val = buckets[from].val
    <3>1. buckets[from] \in Entries
      BY <1>2, <1>3
    <3> QED BY <2>1, <3>1 DEF Entries
  <2>3. Resizing' /\ ~Displacing' /\ (Removed' <=> Removed)
    BY <1>1, <2>1 DEF Resizing, Displacing, Removed
  <2>4. Without(buckets, Left', entry'.key) /\ Without(table, Fresh, entry'.key)
    <3>1. Without(buckets, Left', buckets[from].key)
      BY <1>2, <1>3, <1>6 DEF Distinct, Without
    <3> QED BY <1>2, <1>3, <1>6, <2>2, <3>1
  <2>5. OnePlaceEach'
    BY <1>1, <1>2, <1>3, <1>4, <2>1, <2>3, <2>4 DEF OnePlaceEach
  <2>6. Removed => entry'.key # call.key
    BY <1>2, <1>3, <1>6, <2>2 DEF Without
  <2>7. ServesCall'
    BY <1>1, <1>2, <1>3, <1>4, <2>1, <2>3, <2>6 DEF JInv, ServesCall
  <2>8. ASSUME NEW k, NEW v
        PROVE  Holds(buckets, Left, k, v)
               <=> Holds(buckets, Left', k, v) \/ (entry'.key = k /\ entry'.val = v)
    BY <1>3, <1>6, <2>2 DEF Holds
  <2>9. \A k, v : HoldsNow(k, v)' <=> HoldsNow(k, v)
    BY <1>1, <1>2, <1>3, <2>1, <2>3, <2>8 DEF HoldsNow
  <2>10. JInv'
    BY <2>5, <2>7 DEF JInv
  <2> QED BY <1>1, <2>1, <2>9, <2>10, NothingMoves
<1> QED BY <1>5, <1>6

(* resize0, the inner loop: it comes to rest, or another is taken up.      *)
LEMMA ResizePlaceRefines ==
  ASSUME JInv, IInv', ResizePlace
  PROVE  JInv' /\ MapStep
<1> DEFINE b == table[pos]
           n == tsize
<1>1. op = "place" /\ UNCHANGED <<buckets, nbuckets, oom, call, from, spare>>
  BY DEF ResizePlace, sizes
<1>2. /\ Resizing /\ ~Displacing /\ call \in CallsMade
      /\ Typed(table, n) /\ n \in Nat \ {0, 1} /\ Fresh = 0..n - 1
      /\ Distinct(buckets, Left) /\ Distinct(table, Fresh)
      /\ \A i \in Left : buckets[i].dib # 0 => Without(table, Fresh, buckets[i].key)
      /\ Removed => Without(buckets, Left, call.key) /\ Without(table, Fresh, call.key)
  BY <1>1, Resizes DEF Fresh
<1>3. /\ Without(table, Fresh, entry.key) /\ Without(buckets, Left, entry.key)
      /\ Removed => entry.key # call.key
  BY <1>1 DEF JInv, OnePlaceEach, ServesCall
<1>4. pos \in 0..n - 1 /\ entry \in Entries /\ entry.dib # 0 /\ b \in Entries
  <2>1. Probing(table, n, entry, pos)
    BY <1>1, <1>2 DEF JInv, IInv, MoveFits
  <2>2. Home(entry.key, n) \in 0..n - 1
    BY <1>2, <2>1, HomeIndex DEF Probing
  <2>3. Since(Home(entry.key, n), pos, n) \in 0..n - 1
    BY <1>2, <2>1, <2>2, Distance DEF Probing
  <2> HIDE DEF n
  <2> QED BY <1>2, <2>1, <2>3 DEF Probing, Typed
<1>5. Left' = Left
  BY <1>1 DEF Left
<1>6. CASE b.dib = 0
  <2> DEFINE u == [table EXCEPT ![pos] = entry]
  <2>1. table' = u /\ op' = "resize"
    BY <1>6 DEF ResizePlace
  <2>2. Fresh' = Fresh
    BY <2>1 DEF Fresh, tsize
  <2>3. Resizing' /\ ~Displacing' /\ (Removed' <=> Removed)
    BY <1>1, <2>1 DEF Resizing, Displacing, Removed
  <2> HIDE DEF n
  <2>4. /\ \A k, v : Holds(u, 0..n - 1, k, v) <=>
                        Holds(table, 0..n - 1, k, v) \/ (entry.key = k /\ entry.val = v)
        /\ Distinct(table, 0..n - 1) /\ Without(table, 0..n - 1, entry.key)
           => Distinct(u, 0..n - 1)
        /\ \A k : Without(table, 0..n - 1, k) /\ entry.key # k => Without(u, 0..n - 1, k)
    BY ONLY <1>2, <1>4, <1>6, JoinsTable
  <2> HIDE DEF u, b
  <2>5. OnePlaceEach'
    <3>1. \A i \in Left : buckets[i].dib # 0 => Without(u, Fresh, buckets[i].key)
      BY <1>2, <1>3, <2>4 DEF Without
    <3> QED BY <1>1, <1>2, <1>3, <1>5, <2>1, <2>2, <2>3, <2>4, <3>1 DEF OnePlaceEach
  <2>6. ServesCall'
    BY <1>1, <1>2, <1>3, <1>5, <2>1, <2>2, <2>3, <2>4 DEF JInv, ServesCall
  <2>7. \A k, v : HoldsNow(k, v)' <=> HoldsNow(k, v)
    BY <1>1, <1>2, <1>5, <2>1, <2>2, <2>3, <2>4 DEF HoldsNow
  <2>8. JInv'
    BY <2>5, <2>6 DEF JInv
  <2> QED BY <1>1, <2>1, <2>7, <2>8, NothingMoves
<1>7. CASE b.dib # 0 /\ b.dib < entry.dib
  <2> DEFINE u == [table EXCEPT ![pos] = entry]
  <2>1. table' = u /\ entry' = Further(b) /\ op' = "place"
    BY <1>1, <1>7 DEF ResizePlace, Nearer
  <2>2. Fresh' = Fresh
    BY <2>1 DEF Fresh, tsize
  <2>3. Resizing' /\ ~Displacing' /\ (Removed' <=> Removed)
    BY <1>1, <2>1 DEF Resizing, Displacing, Removed
  <2>4. entry'.key = b.key /\ entry'.val = b.val
    BY <1>4, <2>1 DEF Further, Entries
  <2> HIDE DEF n
  <2>5. /\ \A k, v : Holds(u, 0..n - 1, k, v) \/ (b.key = k /\ b.val = v) <=>
                        Holds(table, 0..n - 1, k, v) \/ (entry.key = k /\ entry.val = v)
        /\ Distinct(u, 0..n - 1) /\ Without(u, 0..n - 1, b.key)
        /\ \A k : Without(table, 0..n - 1, k) /\ entry.key # k =>
                    Without(u, 0..n - 1, k) /\ b.key # k
    <3>1. Distinct(table, 0..n - 1) /\ Without(table, 0..n - 1, entry.key)
      BY <1>2, <1>3
    <3> QED BY ONLY <1>2, <1>4, <1>7, <3>1, ChangesPlaces
  <2>6. Without(buckets, Left, b.key)
    BY <1>2, <1>4, <1>7 DEF Without
  <2> HIDE DEF u, b
  <2>7. OnePlaceEach'
    <3>1. \A i \in Left : buckets[i].dib # 0 => Without(u, Fresh, buckets[i].key)
      BY <1>2, <1>3, <2>5 DEF Without
    <3> QED BY <1>1, <1>2, <1>5, <2>1, <2>2, <2>3, <2>4, <2>5, <2>6, <3>1 DEF OnePlaceEach
  <2>8. ServesCall'
    BY <1>1, <1>2, <1>3, <1>5, <2>1, <2>2, <2>3, <2>4, <2>5 DEF JInv, ServesCall
  <2>9. \A k, v : HoldsNow(k, v)' <=> HoldsNow(k, v)
    BY <1>1, <1>2, <1>5, <2>1, <2>2, <2>3, <2>4, <2>5 DEF HoldsNow
  <2>10. JInv'
    BY <2>7, <2>8 DEF JInv
  <2> QED BY <1>1, <2>1, <2>9, <2>10, NothingMoves
<1>8. CASE b.dib # 0 /\ ~(b.dib < entry.dib)
  <2>1. UNCHANGED table /\ entry' = Further(entry) /\ op' = "place"
    BY <1>1, <1>8 DEF ResizePlace, Nearer
  <2>2. Fresh' = Fresh
    BY <2>1 DEF Fresh, tsize
  <2>3. Resizing' /\ ~Displacing' /\ (Removed' <=> Removed)
    BY <1>1, <2>1 DEF Resizing, Displacing, Removed
  <2>4. entry'.key = entry.key /\ entry'.val = entry.val
    BY <1>4, <2>1 DEF Further, Entries
  <2>5. OnePlaceEach'
    BY <1>1, <1>2, <1>3, <1>5, <2>1, <2>2, <2>3, <2>4 DEF OnePlaceEach
  <2>6. ServesCall'
    BY <1>1, <1>2, <1>3, <1>5, <2>1, <2>2, <2>3, <2>4 DEF JInv, ServesCall
  <2>7. \A k, v : HoldsNow(k, v)' <=> HoldsNow(k, v)
    BY <1>1, <1>2, <1>5, <2>1, <2>2, <2>3, <2>4 DEF HoldsNow
  <2>8. JInv'
    BY <2>5, <2>6 DEF JInv
  <2> QED BY <1>1, <2>1, <2>7, <2>8, NothingMoves
<1> QED BY <1>6, <1>7, <1>8

(* The new table replaces the old one: a set goes on, a delete returns.    *)
LEMMA ResizeDoneRefines ==
  ASSUME JInv, IInv', ResizeDone
  PROVE  JInv' /\ MapStep
<1>1. /\ op = "resize" /\ from = nbuckets /\ buckets' = table /\ nbuckets' = tsize
      /\ UNCHANGED oom
      /\ \/ /\ call.op = "set" /\ op' = "set" /\ pos' = Home(call.key, tsize) /\ UNCHANGED call
            /\ entry' = [key |-> call.key, val |-> call.val, dib |-> 1]
         \/ call.op # "set" /\ op' = "idle" /\ call' = NoCall /\ spare' = spare
  BY DEF ResizeDone, StartSet, Return, tsize
<1>2. /\ Resizing /\ ~Displacing /\ call \in CallsMade /\ call.op \in {"set", "delete"}
      /\ nbuckets \in Nat /\ tsize \in Nat \ {0} /\ Distinct(table, Fresh)
      /\ Removed => Without(table, Fresh, call.key)
      /\ call.key \in Keys /\ oom = FALSE
  <2>1. call.op \in {"set", "delete"} /\ oom = FALSE
    BY <1>1, Resizes DEF JInv, ServesCall, IInv, Types
  <2> QED BY <1>1, <2>1, Resizes DEF CallsMade
<1>3. Left = {} /\ Indices' = Fresh
  BY <1>1, <1>2 DEF Left, Indices, Fresh
<1>4. ~Resizing' /\ ~Displacing' /\ ~Removed' /\ View' = table
  BY <1>1, <1>2 DEF Resizing, Displacing, Removed, View, NoCall
<1>5. \A k, v : HoldsNow(k, v)' <=> HoldsNow(k, v)
  <2>1. ASSUME NEW k, NEW v PROVE HoldsNow(k, v)' <=> Holds(table, Fresh, k, v)
    BY <1>1, <1>3, <1>4 DEF HoldsNow
  <2>2. ASSUME NEW k, NEW v PROVE HoldsNow(k, v) <=> Holds(table, Fresh, k, v)
    BY <1>1, <1>2, <1>3 DEF HoldsNow, Holds
  <2> QED BY <2>1, <2>2
<1>6. OnePlaceEach'
  BY <1>1, <1>2, <1>3, <1>4 DEF OnePlaceEach
<1>7. CASE call.op = "set"
  <2>1. /\ op' = "set" /\ pos' = Home(call.key, tsize) /\ UNCHANGED call
        /\ entry'.key = call.key /\ entry'.val = call.val
    BY <1>1, <1>7
  <2>2. NotPassed(table, tsize, call.key, pos')
    <3> HIDE DEF tsize
    <3> QED BY <1>2, <2>1, PassesOn
  <2>3. ServesCall'
    BY <1>1, <1>2, <1>4, <2>1, <2>2 DEF ServesCall
  <2>4. JInv' /\ ContentsAre' /\ ContentsAre
    BY <1>6, <2>3, ContentsLater, ContentsLaw DEF JInv
  <2>5. ASSUME NEW k \in Keys PROVE Contents'[k] = Contents[k]
    <3>1. ~Pending(k) /\ ~Pending(k)'
      BY <1>2, <1>4, <1>7 DEF Pending, Removed
    <3> QED BY <1>5, <2>4, <3>1, SameAt
  <2> QED BY <1>1, <2>1, <2>4, <2>5, Unnoticed
<1>8. CASE call.op = "delete"
  <2>1. op' = "idle" /\ call' = NoCall /\ spare' = spare
    BY <1>1, <1>8
  <2>2. ServesCall'
    BY <1>1, <1>4, <2>1 DEF ServesCall, NoCall
  <2>3. JInv' /\ ContentsAre' /\ ContentsAre
    BY <1>6, <2>2, ContentsLater, ContentsLaw DEF JInv
  <2>4. Removed
    BY <1>1, <1>8 DEF Removed
  <2>5. ASSUME NEW k \in Keys \ {call.key} PROVE Contents'[k] = Contents[k]
    <3>1. ~Pending(k) /\ ~Pending(k)'
      BY <1>4 DEF Pending
    <3> QED BY <1>5, <2>3, <3>1, SameAt
  <2>6. Contents[call.key] = spare
    BY <1>2, <2>3, <2>4 DEF ContentsAre, Pending
  <2>7. Contents'[call.key] = Null
    <3>1. PICK k \in Keys : k = call.key
      BY <1>2
    <3>2. \A v : ~Holds(table, Fresh, k, v)
      BY <1>2, <2>4, <3>1 DEF Holds, Without
    <3>3. ~Pending(k)' /\ \A v : ~HoldsNow(k, v)'
      BY <1>1, <1>3, <1>4, <3>2 DEF HoldsNow, Pending
    <3>4. Contents'[k] = Null
      BY <2>3, <3>3 DEF ContentsAre
    <3> QED BY <3>1, <3>4
  <2>8. Contents' = [Contents EXCEPT ![call.key] = Null]
    BY <1>2, <2>3, <2>5, <2>7, OneChanged
  <2>9. Map!Delete
    BY <1>1, <1>2, <1>8, <2>1, <2>6, <2>8 DEF Map!Delete, Map!NoCall, NoCall
  <2> QED BY <2>3, <2>9 DEF MapStep, Map!Next
<1> QED BY <1>2, <1>7, <1>8

(* What is known in a search: what is not met is nowhere.                  *)
LEMMA Searches ==
  ASSUME JInv, op \in {"get", "delete"}
  PROVE  /\ ~Resizing /\ ~Displacing /\ ~Removed /\ View = buckets
         /\ call \in CallsMade /\ call.key \in Keys
         /\ nbuckets \in Nat \ {0, 1} /\ Typed(buckets, nbuckets) /\ pos \in Indices
         /\ Distinct(buckets, Indices) /\ oom \in BOOLEAN
         /\ NotPassed(buckets, nbuckets, call.key, pos)
         /\ buckets[pos].dib = 0 => Without(buckets, Indices, call.key)
<1> USE DEF JInv, IInv
<1>1. /\ ~Resizing /\ ~Displacing /\ View = buckets
      /\ call \in CallsMade /\ nbuckets \in Nat \ {0, 1} /\ Typed(buckets, nbuckets)
      /\ Ordered(buckets, nbuckets) /\ pos \in Indices /\ oom \in BOOLEAN
      /\ NotPassed(buckets, nbuckets, call.key, pos)
  BY DEF Resizing, Displacing, View, CallFits, TableFits, Typed, Types, Indices, ServesCall
<1>2. ~Removed
  BY DEF Removed, CallFits, CallsMade, ServesCall
<1>3. call.key \in Keys /\ Distinct(buckets, Indices)
  BY <1>1 DEF CallsMade, OnePlaceEach
<1>4. ASSUME buckets[pos].dib = 0 PROVE Without(buckets, Indices, call.key)
  <2>1. Home(call.key, nbuckets) \in 0..nbuckets - 1
    BY <1>1, <1>3, HomeIndex
  <2>2. Since(Home(call.key, nbuckets), pos, nbuckets) \in 0..nbuckets - 1
    BY <1>1, <2>1, Distance DEF Indices
  <2>3. buckets[pos].dib < 1 + Since(Home(call.key, nbuckets), pos, nbuckets)
    BY <1>1, <1>4, <2>2
  <2> HIDE DEF JInv, IInv
  <2> QED BY <1>1, <1>3, <2>3, NotFurther DEF Indices
<1> QED BY <1>1, <1>2, <1>3, <1>4

(* hashmap_get answers what is held, and changes nothing.                  *)
LEMMA GetRefines ==
  ASSUME JInv, IInv', GetStep
  PROVE  JInv' /\ MapStep
<1> DEFINE b == buckets[pos]
<1>1. /\ op = "get" /\ UNCHANGED <<buckets, nbuckets, oom>>
      /\ \/ b.dib = 0 /\ op' = "idle" /\ call' = NoCall /\ spare' = Null
         \/ b.dib # 0 /\ b.key = call.key /\ op' = "idle" /\ call' = NoCall /\ spare' = b.val
         \/ /\ b.dib # 0 /\ b.key # call.key /\ pos' = Succ(pos, nbuckets)
            /\ UNCHANGED <<op, call, spare>>
  BY DEF GetStep, Return, sizes
<1>2. /\ ~Resizing /\ ~Displacing /\ ~Removed /\ View = buckets
      /\ call \in CallsMade /\ call.key \in Keys /\ call.op = "get"
      /\ nbuckets \in Nat \ {0} /\ pos \in Indices /\ Indices = 0..nbuckets - 1
      /\ Distinct(buckets, Indices) /\ oom \in BOOLEAN
      /\ NotPassed(buckets, nbuckets, call.key, pos)
      /\ b.dib = 0 => Without(buckets, Indices, call.key)
  <2>1. call.op = "get"
    BY <1>1 DEF JInv, ServesCall
  <2> QED BY <1>1, <2>1, Searches DEF Indices
<1>3. /\ ~Resizing' /\ ~Displacing' /\ ~Removed' /\ View' = buckets /\ Indices' = Indices
  BY <1>1, <1>2 DEF Resizing, Displacing, Removed, View, Indices, NoCall
<1>4. OnePlaceEach'
  BY <1>1, <1>2, <1>3 DEF OnePlaceEach
<1>5. ServesCall'
  <2>1. CASE op' = "idle"
    BY <1>1, <1>2, <1>3, <2>1 DEF ServesCall, NoCall
  <2>2. CASE op' # "idle"
    <3>1. b.key # call.key /\ pos' = Succ(pos, nbuckets) /\ op' = "get" /\ UNCHANGED call
      BY <1>1, <2>2
    <3>2. NotPassed(buckets, nbuckets, call.key, Succ(pos, nbuckets))
      BY <1>2, <3>1, PassesOn
    <3> QED BY <1>1, <1>2, <1>3, <3>1, <3>2 DEF ServesCall
  <2> QED BY <2>1, <2>2
<1>6. JInv' /\ ContentsAre' /\ ContentsAre
  BY <1>4, <1>5, ContentsLater, ContentsLaw DEF JInv
<1>7. ASSUME NEW k \in Keys PROVE Contents'[k] = Contents[k]
  <2>1. ~Pending(k) /\ ~Pending(k)'
    BY <1>2, <1>3 DEF Pending
  <2>2. \A v : HoldsNow(k, v)' <=> HoldsNow(k, v)
    BY <1>1, <1>2, <1>3 DEF HoldsNow
  <2> QED BY <1>6, <2>1, <2>2, SameAt
<1>8. Contents' = Contents
  BY <1>6, <1>7, SameMap
<1>9. CASE op' = "idle"
  <2>1. call' = NoCall /\ spare' = Contents[call.key]
    <3>1. CASE b.dib = 0
      <4>1. \A v : ~HoldsNow(call.key, v)
        BY <1>1, <1>2, <3>1 DEF HoldsNow, Holds, Without
      <4>2. Contents[call.key] = Null
        BY <1>2, <1>6, <4>1 DEF ContentsAre, Pending
      <4> QED BY <1>1, <1>9, <3>1, <4>2
    <3>2. CASE b.dib # 0
      <4>1. b.key = call.key /\ spare' = b.val /\ call' = NoCall
        BY <1>1, <1>9, <3>2
      <4>2. HoldsNow(call.key, b.val)
        BY <1>2, <3>2, <4>1 DEF HoldsNow, Holds
      <4>3. Contents[call.key] = b.val
        BY <1>2, <1>6, <4>2 DEF ContentsAre, Pending
      <4> QED BY <4>1, <4>3
    <3> QED BY <3>1, <3>2
  <2>2. Map!Get
    BY <1>1, <1>2, <1>8, <1>9, <2>1 DEF Map!Get, Map!NoCall, NoCall
  <2> QED BY <1>6, <2>2 DEF MapStep, Map!Next
<1>10. CASE op' # "idle"
  BY <1>1, <1>6, <1>7, <1>10, Unnoticed
<1> QED BY <1>9, <1>10

(* hashmap_delete, the search: it takes out what is held, if anything is.  *)
LEMMA DeleteRefines ==
  ASSUME JInv, IInv', DeleteStep
  PROVE  JInv' /\ MapStep
<1> DEFINE b == buckets[pos]
<1>1. op = "delete" /\ UNCHANGED <<nbuckets, oom>>
  BY DEF DeleteStep, sizes
<1>2. /\ ~Resizing /\ ~Displacing /\ ~Removed /\ View = buckets
      /\ call \in CallsMade /\ call.key \in Keys /\ call.op = "delete" /\ oom = FALSE
      /\ nbuckets \in Nat \ {0} /\ pos \in Indices /\ Indices = 0..nbuckets - 1
      /\ Typed(buckets, nbuckets) /\ Distinct(buckets, Indices)
      /\ NotPassed(buckets, nbuckets, call.key, pos)
      /\ b.dib = 0 => Without(buckets, Indices, call.key)
  <2>1. call.op = "delete" /\ ~oom
    BY <1>1 DEF JInv, IInv, CallFits, ServesCall
  <2> QED BY <1>1, <2>1, Searches DEF Indices
<1>3. Indices' = Indices /\ ContentsAre
  BY <1>1, ContentsLaw DEF Indices
<1>4. CASE b.dib = 0
  <2>1. op' = "idle" /\ call' = NoCall /\ spare' = Null /\ UNCHANGED buckets
    BY <1>4 DEF DeleteStep, Return
  <2>2. ~Resizing' /\ ~Displacing' /\ ~Removed' /\ View' = buckets
    BY <2>1 DEF Resizing, Displacing, Removed, View
  <2>3. OnePlaceEach'
    BY <1>2, <1>3, <2>1, <2>2 DEF OnePlaceEach
  <2>4. ServesCall'
    BY <2>1, <2>2 DEF ServesCall, NoCall
  <2>5. JInv' /\ ContentsAre'
    BY <2>3, <2>4, ContentsLater DEF JInv
  <2>6. ASSUME NEW k \in Keys PROVE Contents'[k] = Contents[k]
    <3>1. ~Pending(k) /\ ~Pending(k)'
      BY <1>2, <2>2 DEF Pending
    <3>2. \A v : HoldsNow(k, v)' <=> HoldsNow(k, v)
      BY <1>1, <1>2, <1>3, <2>1, <2>2 DEF HoldsNow
    <3> QED BY <1>3, <2>5, <3>1, <3>2, SameAt
  <2>7. Contents[call.key] = Null
    <3>1. \A v : ~HoldsNow(call.key, v)
      BY <1>1, <1>2, <1>4 DEF HoldsNow, Holds, Without
    <3> QED BY <1>2, <1>3, <3>1 DEF ContentsAre, Pending
  <2>8. Contents' = [Contents EXCEPT ![call.key] = Null]
    BY <1>2, <1>3, <2>5, <2>6, <2>7, OneChanged
  <2>9. Map!Delete
    BY <1>1, <1>2, <2>1, <2>7, <2>8 DEF Map!Delete, Map!NoCall, NoCall
  <2> QED BY <2>5, <2>9 DEF MapStep, Map!Next
<1>5. CASE b.dib # 0 /\ b.key = call.key
  <2>1. /\ op' = "shift" /\ spare' = b.val /\ UNCHANGED <<call, pos>>
        /\ buckets' = [buckets EXCEPT ![pos].dib = 0]
    BY <1>5 DEF DeleteStep
  <2>2. View' = Vacate(buckets, pos)
    BY <1>2, <2>1 DEF View, Vacate, Typed
  <2>3. ~Resizing' /\ ~Displacing' /\ Removed'
    BY <1>2, <2>1 DEF Resizing, Displacing, Removed
  <2>4. /\ \A k, v : Holds(View', Indices, k, v) <=> Holds(buckets, Indices, k, v) /\ k # b.key
        /\ Distinct(View', Indices) /\ Without(View', Indices, b.key)
    <3>1. /\ \A k, v : Holds(Vacate(buckets, pos), 0..nbuckets - 1, k, v)
                       <=> Holds(buckets, 0..nbuckets - 1, k, v) /\ k # b.key
          /\ Distinct(Vacate(buckets, pos), 0..nbuckets - 1)
          /\ Without(Vacate(buckets, pos), 0..nbuckets - 1, b.key)
      <4>1. pos \in 0..nbuckets - 1 /\ Distinct(buckets, 0..nbuckets - 1)
        BY <1>2
      <4> QED BY ONLY <1>2, <1>5, <4>1, LeavesTable
    <3> QED BY <1>2, <2>2, <3>1
  <2>5. OnePlaceEach'
    BY <1>3, <2>1, <2>3, <2>4 DEF OnePlaceEach
  <2>6. buckets'[pos].dib = 0
    BY <1>2, <2>1 DEF Typed, Entries
  <2>7. ServesCall'
    BY <1>1, <1>2, <1>3, <1>5, <2>1, <2>3, <2>4, <2>6 DEF ServesCall
  <2>8. JInv' /\ ContentsAre'
    BY <2>5, <2>7, ContentsLater DEF JInv
  <2>9. ASSUME NEW k \in Keys, k # call.key PROVE Contents'[k] = Contents[k]
    <3>1. ~Pending(k) /\ ~Pending(k)'
      BY <2>1, <2>9 DEF Pending
    <3>2. \A v : HoldsNow(k, v)' <=> HoldsNow(k, v)
      BY <1>1, <1>2, <1>3, <1>5, <2>1, <2>3, <2>4, <2>9 DEF HoldsNow
    <3> QED BY <1>3, <2>8, <3>1, <3>2, SameAt
  <2>10. Contents[call.key] = b.val
    <3>1. HoldsNow(call.key, b.val)
      BY <1>2, <1>5 DEF HoldsNow, Holds
    <3> QED BY <1>2, <1>3, <3>1 DEF ContentsAre, Pending
  <2>11. Contents'[call.key] = b.val
    <3>1. PICK k \in Keys : k = call.key
      BY <1>2
    <3>2. Pending(k)'
      BY <2>1, <2>3, <3>1 DEF Pending
    <3>3. Contents'[k] = spare'
      BY <2>3, <2>8, <3>2 DEF ContentsAre
    <3> QED BY <2>1, <3>1, <3>3
  <2>12. \A k \in Keys : Contents'[k] = Contents[k]
    BY <2>9, <2>10, <2>11
  <2> QED BY <1>1, <1>3, <2>1, <2>8, <2>12, Unnoticed
<1>6. CASE b.dib # 0 /\ b.key # call.key
  <2>1. op' = "delete" /\ pos' = Succ(pos, nbuckets) /\ UNCHANGED <<buckets, call, spare>>
    BY <1>1, <1>6 DEF DeleteStep
  <2>2. ~Resizing' /\ ~Displacing' /\ ~Removed' /\ View' = buckets
    BY <2>1 DEF Resizing, Displacing, Removed, View
  <2>3. NotPassed(buckets, nbuckets, call.key, pos')
    BY <1>2, <1>6, <2>1, PassesOn
  <2>4. OnePlaceEach'
    BY <1>2, <1>3, <2>1, <2>2 DEF OnePlaceEach
  <2>5. ServesCall'
    BY <1>1, <1>2, <2>1, <2>2, <2>3 DEF ServesCall
  <2>6. JInv' /\ ContentsAre'
    BY <2>4, <2>5, ContentsLater DEF JInv
  <2>7. ASSUME NEW k \in Keys PROVE Contents'[k] = Contents[k]
    <3>1. ~Pending(k) /\ ~Pending(k)'
      BY <1>2, <2>2 DEF Pending
    <3>2. \A v : HoldsNow(k, v)' <=> HoldsNow(k, v)
      BY <1>1, <1>2, <1>3, <2>1, <2>2 DEF HoldsNow
    <3> QED BY <1>3, <2>6, <3>1, <3>2, SameAt
  <2> QED BY <1>1, <1>3, <2>1, <2>6, <2>7, Unnoticed
<1> QED BY <1>4, <1>5, <1>6

(* One step of the backward shift shows nothing.                           *)
LEMMA ShiftRefines ==
  ASSUME JInv, IInv', Shift
  PROVE  JInv' /\ MapStep
<1> DEFINE s == Succ(pos, nbuckets)
           b == buckets[s]
           e == [b EXCEPT !.dib = @ - 1]
<1>1. /\ op = "shift" /\ op' = "shift" /\ b.dib > 1 /\ pos' = s
      /\ buckets' = [buckets EXCEPT ![pos] = e]
      /\ UNCHANGED <<nbuckets, oom, call, spare>>
  BY DEF Shift, sizes
<1>2. /\ ~Resizing /\ call \in CallsMade /\ call.op = "delete" /\ call.key \in Keys
      /\ Typed(buckets, nbuckets) /\ pos \in 0..nbuckets - 1
      /\ View = Vacate(buckets, pos) /\ Typed(View, nbuckets) /\ View[pos] = Free
      /\ s \in 0..nbuckets - 1 /\ s # pos /\ View[s] = b /\ b \in Entries
  BY <1>1, Shifts DEF JInv, CallsMade, Typed, Holed
<1>3. /\ Removed /\ Removed' /\ ~Displacing /\ ~Displacing' /\ ~Resizing'
      /\ Indices' = Indices /\ Indices = 0..nbuckets - 1 /\ ContentsAre
  BY <1>1, <1>2, ContentsLaw DEF Removed, Displacing, Resizing, Indices
<1>4. View' = MovedBack(View, pos, s)
  <2>1. View' = [buckets' EXCEPT ![s] = Free]
    BY <1>1 DEF View, Vacate
  <2>2. [View[s] EXCEPT !.dib = @ - 1] = e
    BY <1>2
  <2> HIDE DEF s, e
  <2> QED BY <1>1, <1>2, <2>1, <2>2 DEF MovedBack, Vacate, Typed
<1>5. /\ View'[pos].dib # 0 /\ View'[pos].key = b.key /\ View'[pos].val = b.val
      /\ \A k, v : Holds(View', Indices, k, v) <=> Holds(View, Indices, k, v)
      /\ Distinct(View, Indices) => Distinct(View', Indices)
      /\ \A k : Without(View, Indices, k) => Without(View', Indices, k)
  <2>1. View[pos].dib = 0 /\ View[s].dib > 1
    BY <1>1, <1>2, FreeEntry
  <2> DEFINE u == MovedBack(View, pos, s)
             n == nbuckets
  <2>2. /\ u[pos].dib # 0 /\ u[pos].key = View[s].key /\ u[pos].val = View[s].val
        /\ \A k, v : Holds(u, 0..n - 1, k, v) <=> Holds(View, 0..n - 1, k, v)
        /\ Distinct(View, 0..n - 1) => Distinct(u, 0..n - 1)
        /\ \A k : Without(View, 0..n - 1, k) => Without(u, 0..n - 1, k)
    BY ONLY <1>2, <2>1, StaysInTable
  <2> HIDE DEF u, n, s, b
  <2> QED BY <1>2, <1>3, <1>4, <2>2 DEF u, n
<1>6. OnePlaceEach'
  BY <1>1, <1>2, <1>3, <1>5 DEF JInv, OnePlaceEach
<1>7. ServesCall'
  <2>1. buckets'[pos'] = b
    <3> HIDE DEF s, e
    <3> QED BY <1>1, <1>2 DEF Typed, b
  <2>2. Holds(View', Indices, b.key, b.val)
    BY <1>2, <1>3, <1>5 DEF Holds
  <2>3. Without(View', Indices, call.key) /\ ~oom
    BY <1>2, <1>3, <1>5 DEF JInv, ServesCall
  <2> HIDE DEF b
  <2> QED BY <1>1, <1>2, <1>3, <2>1, <2>2, <2>3 DEF ServesCall
<1>8. JInv' /\ ContentsAre'
  BY <1>6, <1>7, ContentsLater DEF JInv
<1>9. ASSUME NEW k \in Keys PROVE Contents'[k] = Contents[k]
  <2>1. CASE k = call.key
    <3>1. Pending(k) /\ Pending(k)'
      BY <1>1, <1>3, <2>1 DEF Pending
    <3> QED BY <1>1, <1>3, <1>8, <3>1 DEF ContentsAre
  <2>2. CASE k # call.key
    <3>1. ~Pending(k) /\ ~Pending(k)'
      BY <1>1, <2>2 DEF Pending
    <3>2. \A v : HoldsNow(k, v)' <=> HoldsNow(k, v)
      BY <1>1, <1>2, <1>3, <1>5 DEF HoldsNow
    <3> QED BY <1>3, <1>8, <3>1, <3>2, SameAt
  <2> QED BY <2>1, <2>2
<1> QED BY <1>1, <1>3, <1>8, <1>9, Unnoticed

(* The end of the shift: the delete returns, or shrinks the table first.   *)
LEMMA ShiftDoneRefines ==
  ASSUME JInv, IInv', ShiftDone
  PROVE  JInv' /\ MapStep
<1> DEFINE h == nbuckets \div 2
<1>1. /\ op = "shift" /\ buckets' = Vacate(buckets, pos) /\ UNCHANGED <<nbuckets, oom, spare>>
      /\ \/ /\ table' = Empty(h) /\ from' = 0 /\ op' = "resize" /\ UNCHANGED call
            /\ MayShrink
         \/ op' = "idle" /\ call' = NoCall
  BY DEF ShiftDone, Return, Vacate, sizes
<1>2. /\ ~Resizing /\ call \in CallsMade /\ call.op = "delete" /\ call.key \in Keys
      /\ View = Vacate(buckets, pos) /\ nbuckets \in Nat \ {0, 1}
  BY <1>1, Shifts DEF JInv, CallsMade
<1>3. Removed /\ ~Displacing /\ Indices' = Indices /\ Indices = 0..nbuckets - 1 /\ ContentsAre
  BY <1>1, <1>2, ContentsLaw DEF Removed, Displacing, Indices
<1>4. /\ oom = FALSE /\ Distinct(buckets', Indices) /\ Without(buckets', Indices, call.key)
      /\ \A k, v : HoldsNow(k, v) <=> Holds(buckets', Indices, k, v)
  <2>1. oom = FALSE /\ Distinct(View, Indices) /\ Without(View, Indices, call.key)
    BY <1>1, <1>2, <1>3 DEF JInv, IInv, Types, OnePlaceEach, ServesCall
  <2>2. \A k, v : HoldsNow(k, v) <=> Holds(View, Indices, k, v)
    BY <1>1, <1>2, <1>3 DEF HoldsNow
  <2> QED BY <1>1, <1>2, <2>1, <2>2
<1>5. CASE op' = "idle"
  <2>1. op' = "idle" /\ call' = NoCall
    BY <1>1, <1>5
  <2>2. ~Resizing' /\ ~Displacing' /\ ~Removed' /\ View' = buckets'
    BY <2>1 DEF Resizing, Displacing, Removed, View
  <2>3. OnePlaceEach'
    BY <1>3, <1>4, <2>1, <2>2 DEF OnePlaceEach
  <2>4. ServesCall'
    BY <2>1, <2>2 DEF ServesCall, NoCall
  <2>5. JInv' /\ ContentsAre'
    BY <2>3, <2>4, ContentsLater DEF JInv
  <2>6. \A k, v : HoldsNow(k, v)' <=> HoldsNow(k, v)
    BY <1>3, <1>4, <2>1, <2>2 DEF HoldsNow
  <2>7. ASSUME NEW k \in Keys \ {call.key} PROVE Contents'[k] = Contents[k]
    <3>1. ~Pending(k) /\ ~Pending(k)'
      BY <2>2 DEF Pending
    <3> QED BY <1>3, <2>5, <2>6, <3>1, SameAt
  <2>8. Contents[call.key] = spare
    BY <1>2, <1>3 DEF ContentsAre, Pending
  <2>9. Contents'[call.key] = Null
    <3>1. PICK k \in Keys : k = call.key
      BY <1>2
    <3>2. \A v : ~HoldsNow(k, v)
      BY <1>4, <3>1 DEF Holds, Without
    <3>3. ~Pending(k)' /\ \A v : ~HoldsNow(k, v)'
      BY <2>2, <2>6, <3>2 DEF Pending
    <3>4. Contents'[k] = Null
      BY <2>5, <3>3 DEF ContentsAre
    <3> QED BY <3>1, <3>4
  <2>10. Contents' = [Contents EXCEPT ![call.key] = Null]
    BY <1>2, <1>3, <2>5, <2>7, <2>9, OneChanged
  <2>11. Map!Delete
    BY <1>1, <1>2, <1>4, <2>1, <2>8, <2>10 DEF Map!Delete, Map!NoCall, NoCall
  <2> QED BY <2>5, <2>11 DEF MapStep, Map!Next
<1>6. CASE op' = "resize"
  <2>1. table' = Empty(h) /\ from' = 0 /\ UNCHANGED call /\ nbuckets > cap
    BY <1>1, <1>6 DEF MayShrink
  <2>2. h \in Nat \ {0, 1}
    <3>1. cap \in Nat \ {0, 1} /\ Doubled(cap, nbuckets)
      BY DEF JInv, IInv, SizesFit
    <3>2. Doubled(cap, h) /\ h >= cap
      BY <2>1, <3>1, DoubledStep
    <3>3. h \in Nat
      BY <3>2 DEF Doubled
    <3> HIDE DEF h
    <3> QED BY <3>1, <3>2, <3>3
  <2>3. \A i \in Fresh' : table'[i].dib = 0
    <3> HIDE DEF h
    <3> QED BY <2>1, <2>2, NothingYet
  <2> HIDE DEF h
  <2>4. Resizing' /\ ~Displacing' /\ Removed' /\ Left' = Indices
    BY <1>1, <1>2, <1>3, <1>6, <2>1 DEF Resizing, Displacing, Removed, Left
  <2>5. OnePlaceEach'
    BY <1>4, <1>6, <2>3, <2>4 DEF OnePlaceEach, Distinct, Without
  <2>6. ServesCall'
    <3>1. Without(table', Fresh', call.key)
      BY <2>3 DEF Without
    <3> QED BY <1>1, <1>2, <1>4, <1>6, <2>1, <2>4, <3>1 DEF ServesCall
  <2>7. JInv' /\ ContentsAre'
    BY <2>5, <2>6, ContentsLater DEF JInv
  <2>8. \A k, v : HoldsNow(k, v)' <=> HoldsNow(k, v)
    BY <1>4, <1>6, <2>3, <2>4 DEF HoldsNow, Holds
  <2>9. ASSUME NEW k \in Keys PROVE Contents'[k] = Contents[k]
    <3>1. CASE k = call.key
      <4>1. Pending(k) /\ Pending(k)'
        BY <1>3, <2>1, <2>4, <3>1 DEF Pending
      <4> QED BY <1>1, <1>3, <2>4, <2>7, <4>1 DEF ContentsAre
    <3>2. CASE k # call.key
      <4>1. ~Pending(k) /\ ~Pending(k)'
        BY <2>1, <3>2 DEF Pending
      <4> QED BY <1>3, <2>7, <2>8, <4>1, SameAt
    <3> QED BY <3>1, <3>2
  <2> QED BY <1>1, <1>3, <1>6, <2>1, <2>7, <2>9, Unnoticed
<1> QED BY <1>1, <1>5, <1>6

(* Every step of the table is one of the map, or changes nothing of it.    *)
LEMMA NextMap ==
  ASSUME JInv, [Next]_vars
  PROVE  JInv' /\ MapStep
<1>1. IInv'
  BY NextKeeps DEF JInv
<1>2. CASE Caller
  <2>1. CASE \E u \in BOOLEAN : Clear(u)
    BY <1>1, <2>1, ClearRefines
  <2>2. CASE ~ \E u \in BOOLEAN : Clear(u)
    BY <1>1, <1>2, <2>2, CallsRefine DEF Caller
  <2> QED BY <2>1, <2>2
<1>3. CASE Running
  BY <1>1, <1>3, EnterRefines, SetStepRefines, ResizeNextRefines, ResizePlaceRefines,
     ResizeDoneRefines, GetRefines, DeleteRefines, ShiftRefines, ShiftDoneRefines DEF Running
<1>4. CASE UNCHANGED vars
  <2>1. UNCHANGED <<buckets, nbuckets, table, from, entry, pos, op, call, spare, oom, tsize>>
    BY <1>4 DEF vars, sizes, knobs, moving, tsize
  <2>2. OnePlaceEach' /\ ServesCall'
    BY <2>1 DEF JInv, OnePlaceEach, ServesCall, Resizing, Displacing, Removed, View,
                Indices, Left, Fresh
  <2>3. UNCHANGED <<Contents, call, Answer>>
    BY <2>1 DEF Contents, Held, InTable, InHand, Removed, Displacing, Used, Answer
  <2> QED BY <1>1, <2>2, <2>3 DEF JInv, MapStep
<1> QED BY <1>2, <1>3, <1>4 DEF Next

(* The table implements the map of hashmap.h: whatever its hashes collide, *)
(* and wherever its memory ends, each call returns what the map says, and  *)
(* growing, shrinking and shifting change nothing of what it holds.        *)
THEOREM Refines == Spec => ImplementsMap
<1>1. MapStep => [Map!Next]_(Map!mapVars)
  BY DEF MapStep, Map!mapVars, Answer
<1>2. JInv /\ [Next]_vars => JInv' /\ [Map!Next]_(Map!mapVars)
  BY <1>1, NextMap
<1> QED BY <1>2, InitMap, PTL DEF Spec, ImplementsMap, Map!Spec
=============================================================================
