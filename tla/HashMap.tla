------------------------------- MODULE HashMap -------------------------------
(***************************************************************************)
(* src/hashmap.c: open addressing with robin hood hashing.  One action is  *)
(* one iteration of a loop of the code; `op` is the loop the call is in.   *)
(* Two items compare equal only if their hashes do, so that the test       *)
(* `hash == hash && compare == 0` is equality of keys.                     *)
(***************************************************************************)
EXTENDS Integers, FiniteSets

CONSTANTS
  Keys, Vals, Null,
  Hash,          \* clip_hash of the hash of each key
  MinBuckets,    \* the smallest table; 16 in the code
  LoadFactors,   \* percentages hashmap_set_load_factor is called with
  GrowPowers     \* arguments of hashmap_set_grow_by_power

ASSUME HashAssumption == Hash \in [Keys -> Nat]
ASSUME NullNotVal == Null \notin Vals
ASSUME MinBucketsAssumption == MinBuckets \in Nat \ {0, 1}
ASSUME SettersAssumption == LoadFactors \subseteq 50..95 /\ GrowPowers \subseteq 1..16

DefaultLoad == 60    \* GROW_AT in percent
ShrinkLoad == 10     \* SHRINK_AT in percent

VARIABLES
  buckets,     \* map->buckets: what each index holds
  nbuckets, cap, count, growat, shrinkat, loadfactor, growpower, oom,
  alloc,       \* how many buckets the memory at map->buckets has room for
  op, call,    \* the loop the thread is in, the call it serves
  entry, pos,  \* the entry being placed (edata) and the index i or j
  table, from, \* resize0: map2->buckets and the outer index
  spare        \* what the call returns

sizes  == <<nbuckets, cap, growat, shrinkat, alloc>>
knobs  == <<loadfactor, growpower>>
moving == <<table, from>>
vars   == <<buckets, sizes, count, knobs, oom, op, call, entry, pos, moving, spare>>

-----------------------------------------------------------------------------
Free == [key |-> Null, val |-> Null, dib |-> 0]
Empty(n) == [i \in 0..n - 1 |-> Free]
NoTable == [i \in {} |-> Free]
NoCall == [op |-> "none", key |-> Null, val |-> Null]

GrowAtRounded(n, load) == (n * load + 99) \div 100  \* mutant: rounded up, not down
GrowAt(n, load) == (n * load) \div 100
ShrinkAt(n) == (n * ShrinkLoad) \div 100
Home(k, n) == Hash[k] % n
SuccNoMask(i, n) == i + 1                          \* mutant: the mask is forgotten
Succ(i, n) == (i + 1) % n

Init ==
  /\ buckets = Empty(MinBuckets)
  /\ nbuckets = MinBuckets /\ cap = MinBuckets /\ alloc = MinBuckets
  /\ count = 0 /\ oom = FALSE
  /\ loadfactor = DefaultLoad /\ growpower = 1
  /\ growat = GrowAt(MinBuckets, DefaultLoad) /\ shrinkat = ShrinkAt(MinBuckets)
  /\ op = "idle" /\ call = NoCall /\ spare = Null
  /\ entry = Free /\ pos = 0 /\ table = NoTable /\ from = 0

-----------------------------------------------------------------------------
SetLoadFactor(f) ==
  /\ op = "idle"
  /\ loadfactor' = f /\ growat' = GrowAt(nbuckets, f)
  /\ UNCHANGED <<buckets, nbuckets, cap, shrinkat, alloc, count, growpower, oom, op, call, entry,
                 pos, moving, spare>>

SetGrowByPower(p) ==
  /\ op = "idle"
  /\ growpower' = p
  /\ UNCHANGED <<buckets, sizes, count, loadfactor, oom, op, call, entry, pos, moving, spare>>

(* Mutants of Clear: the count is kept; the size is, and not the memory.   *)
ClearKeepsCount(updateCap) ==
  /\ op = "idle"
  /\ count' = count
  /\ cap' = IF updateCap THEN nbuckets ELSE cap
  /\ nbuckets' = cap'
  /\ alloc' \in IF nbuckets' = nbuckets THEN {alloc} ELSE {alloc, nbuckets'}
  /\ buckets' = Empty(nbuckets')
  /\ growat' = GrowAt(nbuckets', loadfactor) /\ shrinkat' = ShrinkAt(nbuckets')
  /\ UNCHANGED <<knobs, oom, op, call, entry, pos, moving, spare>>

ClearKeepsSize(updateCap) ==
  /\ op = "idle"
  /\ count' = 0
  /\ cap' = IF updateCap THEN nbuckets ELSE cap
  /\ nbuckets' = nbuckets
  /\ alloc' = IF cap' = nbuckets THEN alloc ELSE cap'
  /\ buckets' = Empty(nbuckets')
  /\ growat' = GrowAt(nbuckets', loadfactor) /\ shrinkat' = ShrinkAt(nbuckets')
  /\ UNCHANGED <<knobs, oom, op, call, entry, pos, moving, spare>>

(* hashmap_clear; new_buckets may be NULL, and then the old memory is kept *)
(* with its larger size.                                                   *)
Clear(updateCap) ==
  /\ op = "idle"
  /\ count' = 0
  /\ cap' = IF updateCap THEN nbuckets ELSE cap
  /\ nbuckets' = cap'
  /\ alloc' \in IF nbuckets' = nbuckets THEN {alloc} ELSE {alloc, nbuckets'}
  /\ buckets' = Empty(nbuckets')
  /\ growat' = GrowAt(nbuckets', loadfactor) /\ shrinkat' = ShrinkAt(nbuckets')
  /\ UNCHANGED <<knobs, oom, op, call, entry, pos, moving, spare>>

-----------------------------------------------------------------------------
(* hashmap_set, hashmap_get and hashmap_delete, up to their first loop.    *)

(* The entry of a set starts at its home bucket, with dib 1.               *)
StartSet(n) ==
  /\ op' = "set"
  /\ entry' = [key |-> call.key, val |-> call.val, dib |-> 1]
  /\ pos' = Home(call.key, n)

SetCall(k, v) ==
  /\ op = "idle" /\ op' = "enter"
  /\ call' = [op |-> "set", key |-> k, val |-> v]
  /\ oom' = FALSE
  /\ UNCHANGED <<buckets, sizes, count, knobs, entry, pos, moving, spare>>

Lookup(name, k) ==
  /\ op = "idle" /\ op' = name
  /\ call' = [op |-> name, key |-> k, val |-> Null]
  /\ pos' = Home(k, nbuckets)
  /\ UNCHANGED <<buckets, sizes, count, knobs, entry, moving, spare>>

GetCall(k) == Lookup("get", k) /\ UNCHANGED oom
DeleteCall(k) == Lookup("delete", k) /\ oom' = FALSE

(* resize0 with memory for its table; without, no step of it is taken.      *)
StartResize(n) ==
  /\ op' = "resize" /\ table' = Empty(n) /\ from' = 0
  /\ UNCHANGED <<buckets, sizes, knobs, call, entry, pos>>

(* The locals of a loop that ends are dropped.                             *)
Drop == entry' = Free /\ pos' = 0
Return(item) ==
  /\ op' = "idle" /\ call' = NoCall /\ spare' = item /\ Drop

(* Mutant of EnterSet: the table grows one entry late.                     *)
EnterSetLate ==
  /\ op = "enter" /\ count <= growat
  /\ StartSet(nbuckets)
  /\ UNCHANGED <<buckets, sizes, count, knobs, oom, call, moving, spare>>

EnterSet ==
  /\ op = "enter" /\ count < growat
  /\ StartSet(nbuckets)
  /\ UNCHANGED <<buckets, sizes, count, knobs, oom, call, moving, spare>>

EnterGrow ==
  /\ op = "enter" /\ count >= growat
  /\ StartResize(nbuckets * 2 ^ growpower)
  /\ UNCHANGED <<count, oom, spare>>

EnterOom ==
  /\ op = "enter" /\ count >= growat
  /\ oom' = TRUE
  /\ Return(Null)
  /\ UNCHANGED <<buckets, sizes, count, knobs, moving>>

-----------------------------------------------------------------------------
(* One probe of robin hood hashing: the entry takes a free bucket, or      *)
(* takes the place of one that is nearer to its home, and goes on.         *)
NearerOrSame(b, e) == b.dib <= e.dib  \* mutant: an entry as near gives way too
Nearer(b, e) == b.dib < e.dib
Further(e) == [e EXCEPT !.dib = @ + 1]

(* hashmap_set *)
SetStep ==
  /\ op = "set"
  /\ LET b == buckets[pos]
     IN  \/ /\ b.dib = 0
            /\ buckets' = [buckets EXCEPT ![pos] = entry]
            /\ count' = count + 1
            /\ Return(Null)
         \/ /\ b.dib # 0 /\ b.key = entry.key
            /\ buckets' = [buckets EXCEPT ![pos].val = entry.val]
            /\ Return(b.val)
            /\ UNCHANGED count
         \/ /\ b.dib # 0 /\ b.key # entry.key
            /\ IF Nearer(b, entry)
               THEN buckets' = [buckets EXCEPT ![pos] = entry] /\ entry' = Further(b)
               ELSE entry' = Further(entry) /\ UNCHANGED buckets
            /\ pos' = Succ(pos, nbuckets)
            /\ UNCHANGED <<count, op, call, spare>>
  /\ UNCHANGED <<sizes, knobs, oom, moving>>

(* resize0: the outer loop, which empties the old table in order ...       *)
ResizeNext ==
  /\ op = "resize" /\ from < nbuckets
  /\ from' = from + 1
  /\ IF buckets[from].dib = 0
     THEN UNCHANGED <<op, entry, pos>>
     ELSE /\ op' = "place"
          /\ entry' = [buckets[from] EXCEPT !.dib = 1]
          /\ pos' = Home(entry'.key, Cardinality(DOMAIN table))
  /\ UNCHANGED <<buckets, sizes, count, knobs, oom, call, table, spare>>

(* ... and the inner one, which fills the new one.                         *)
ResizePlace ==
  /\ op = "place"
  /\ LET b == table[pos]
     IN  \/ /\ b.dib = 0
            /\ table' = [table EXCEPT ![pos] = entry]
            /\ op' = "resize" /\ Drop
         \/ /\ b.dib # 0
            /\ IF Nearer(b, entry)
               THEN table' = [table EXCEPT ![pos] = entry] /\ entry' = Further(b)
               ELSE entry' = Further(entry) /\ UNCHANGED table
            /\ pos' = Succ(pos, Cardinality(DOMAIN table))
            /\ UNCHANGED op
  /\ UNCHANGED <<buckets, sizes, count, knobs, oom, call, from, spare>>

(* The new table replaces the old one, with the default load factor; a set *)
(* goes on to its loop, a delete returns what it removed.                  *)
ResizeDone ==
  LET n == Cardinality(DOMAIN table)
  IN  /\ op = "resize" /\ from = nbuckets
      /\ buckets' = table /\ nbuckets' = n /\ alloc' = n
      /\ growat' = GrowAt(n, DefaultLoad) /\ shrinkat' = ShrinkAt(n)
      /\ table' = NoTable /\ from' = 0
      /\ IF call.op = "set"
         THEN StartSet(n) /\ UNCHANGED <<call, spare>>
         ELSE Return(spare)
      /\ UNCHANGED <<count, cap, knobs, oom>>

(* hashmap_get *)
GetStep ==
  /\ op = "get"
  /\ LET b == buckets[pos]
     IN  \/ b.dib = 0 /\ Return(Null)
         \/ b.dib # 0 /\ b.key = call.key /\ Return(b.val)
         \/ /\ b.dib # 0 /\ b.key # call.key
            /\ pos' = Succ(pos, nbuckets)
            /\ UNCHANGED <<op, call, spare, entry>>
  /\ UNCHANGED <<buckets, sizes, count, knobs, oom, moving>>

(* hashmap_delete: the search ...                                          *)
DeleteStep ==
  /\ op = "delete"
  /\ LET b == buckets[pos]
     IN  \/ b.dib = 0 /\ Return(Null) /\ UNCHANGED buckets
         \/ /\ b.dib # 0 /\ b.key = call.key
            /\ spare' = b.val /\ op' = "shift"
            /\ buckets' = [buckets EXCEPT ![pos].dib = 0]
            /\ UNCHANGED <<call, pos, entry>>
         \/ /\ b.dib # 0 /\ b.key # call.key
            /\ pos' = Succ(pos, nbuckets)
            /\ UNCHANGED <<buckets, op, call, spare, entry>>
  /\ UNCHANGED <<sizes, count, knobs, oom, moving>>

(* ... the backward shift of what follows the bucket at pos ...            *)
(* Mutant of Shift: the entry that moves back keeps its dib.               *)
ShiftKeepsDib ==
  LET b == buckets[Succ(pos, nbuckets)]
  IN  /\ op = "shift" /\ b.dib > 1
      /\ buckets' = [buckets EXCEPT ![pos] = b]
      /\ pos' = Succ(pos, nbuckets)
      /\ UNCHANGED <<sizes, count, knobs, oom, op, call, entry, moving, spare>>

Shift ==
  LET b == buckets[Succ(pos, nbuckets)]
  IN  /\ op = "shift" /\ b.dib > 1
      /\ buckets' = [buckets EXCEPT ![pos] = [b EXCEPT !.dib = @ - 1]]
      /\ pos' = Succ(pos, nbuckets)
      /\ UNCHANGED <<sizes, count, knobs, oom, op, call, entry, moving, spare>>

(* ... and its end, which may shrink the table if memory allows.           *)
MayShrink == nbuckets > cap /\ count - 1 <= shrinkat

ShiftDone ==
  LET b == buckets[Succ(pos, nbuckets)]
  IN  /\ op = "shift" /\ b.dib <= 1
      /\ count' = count - 1
      /\ \/ /\ MayShrink
            /\ table' = Empty(nbuckets \div 2) /\ from' = 0 /\ op' = "resize" /\ Drop
            /\ UNCHANGED <<call, spare>>
         \/ Return(spare) /\ UNCHANGED moving
      /\ buckets' = [buckets EXCEPT ![pos] = Free]
      /\ UNCHANGED <<sizes, knobs, oom>>

-----------------------------------------------------------------------------
Caller ==
  \/ \E f \in LoadFactors : SetLoadFactor(f)
  \/ \E p \in GrowPowers : SetGrowByPower(p)
  \/ \E u \in BOOLEAN : Clear(u)
  \/ \E k \in Keys : GetCall(k) \/ DeleteCall(k) \/ \E v \in Vals : SetCall(k, v)

Running ==
  \/ EnterSet \/ EnterGrow \/ EnterOom
  \/ SetStep \/ ResizeNext \/ ResizePlace \/ ResizeDone
  \/ GetStep \/ DeleteStep \/ Shift \/ ShiftDone

Next == Caller \/ Running

Spec == Init /\ [][Next]_vars

(* The code does not stop inside a call.                                   *)
FairSpec == Spec /\ WF_vars(Running)

-----------------------------------------------------------------------------
(* Properties.                                                             *)

Entries == [key : Keys \cup {Null}, val : Vals \cup {Null}, dib : Nat]
Used(t) == {i \in DOMAIN t : t[i].dib # 0}

(* Every index stays inside its table, and every field in its type.        *)
TypeOK ==
  /\ {nbuckets, cap, alloc} \subseteq Nat \ {0, 1}
  /\ {count, growat, shrinkat, from} \subseteq Nat
  /\ loadfactor \in 1..99 /\ growpower \in 1..16 /\ oom \in BOOLEAN
  /\ buckets \in [0..nbuckets - 1 -> Entries]
  /\ \E n \in 0..2 ^ growpower * nbuckets : table \in [0..n - 1 -> Entries]
  /\ op \in {"idle", "enter", "set", "resize", "place", "get", "delete", "shift"}
  /\ entry \in Entries /\ spare \in Vals \cup {Null}
  /\ pos \in DOMAIN (IF op = "place" THEN table ELSE buckets)

(* Between two calls an entry's dib is its distance from home, plus one,   *)
(* and no entry is further from home than its predecessor by more than 1:  *)
(* that is why a lookup may stop at a free bucket after a delete (:383).   *)
RobinHood ==
  op = "idle" =>
    \A i \in Used(buckets) :
      LET before == buckets[(i - 1) % nbuckets]
      IN  /\ buckets[i].dib = 1 + ((i - Home(buckets[i].key, nbuckets)) % nbuckets)
          /\ buckets[i].dib <= before.dib + 1

(* map->count, which decides when the table grows and shrinks, is the      *)
(* number of entries, across growth, failed growth and shrinking.          *)
CountIsItems == op = "idle" => count = Cardinality(Used(buckets))

(* Every table that is probed has a free bucket, so the `while(1)` loops   *)
(* of lookups, insertions and resizing end (:238, :290, :332, :372).       *)
FreeBucket ==
  /\ op # "place" => \E i \in DOMAIN buckets : buckets[i].dib = 0
  /\ op \in {"resize", "place"} => \E i \in DOMAIN table : table[i].dib = 0

(* nbuckets never promises more than was allocated, although a clear whose *)
(* malloc fails keeps the old memory under a new size (:212-218).          *)
WithinMemory == nbuckets <= alloc

(* Every call returns: the probes, the backward shift and the resize end.  *)
CallsReturn == op # "idle" ~> op = "idle"

(* What the map holds: the entries of the table, or, in the middle of a    *)
(* resize, those not moved yet, those moved, and the one on its way.  The  *)
(* effect of a call counts from its return on: a set's own item does not   *)
(* count yet if an entry it displaced is still looking for a place, and    *)
(* what a delete took out still counts.                                    *)
InTable ==
  IF op \in {"resize", "place"}
  THEN {buckets[i] : i \in Used(buckets) \cap from..nbuckets} \cup {table[i] : i \in Used(table)}
  ELSE {buckets[i] : i \in Used(buckets)}
Removed == op # "idle" /\ call.op = "delete" /\ op # "delete"
Displacing == op = "set" /\ entry.key # call.key
InHand == IF op = "place" \/ Displacing THEN {entry} ELSE {}

Held(k) == {e.val : e \in {x \in InTable \cup InHand : x.key = k}}
Contents ==
  [k \in Keys |-> IF Removed /\ k = call.key THEN spare
                  ELSE IF Held(k) = {} \/ (Displacing /\ k = call.key) THEN Null
                  ELSE CHOOSE v \in Held(k) : TRUE]

(* The table implements the map of hashmap.h: what a call returns and      *)
(* leaves behind is what the map says, and nothing else ever changes it.   *)
(* What hashmap_oom says is part of it from a set up to the next delete,   *)
(* which clears the flag against the words of hashmap.c:428.               *)
Map == INSTANCE MapSpec WITH
  store <- Contents,
  reply <- [oom |-> oom, item |-> IF op = "idle" THEN spare ELSE Null]
ImplementsMap == Map!Spec
=============================================================================
