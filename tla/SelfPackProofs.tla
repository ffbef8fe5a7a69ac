--------------------------- MODULE SelfPackProofs ---------------------------
(***************************************************************************)
(* Proofs about packing, for any files, contents, sizes and page size: the *)
(* table stays in the buffer that was measured for it, the image has the   *)
(* layout the loader expects, and what it serves is what was packed.       *)
(*                                                                         *)
(* What vfs_pack has written and what it still has to write add up to what *)
(* vfs_compute_size measured; and as long as nothing disturbs it, what it  *)
(* has written is what the directory held, which is what it still holds.   *)
(***************************************************************************)
EXTENDS SelfPack, FiniteSums, SequenceTheorems

-----------------------------------------------------------------------------
(* Pages.                                                                  *)

(* There is one quotient and one remainder.                                *)
LEMMA OneQuotient ==
  ASSUME NEW q \in Int, NEW r \in Int, NEW a \in 0..Page - 1, NEW b \in 0..Page - 1,
         Page * q + a = Page * r + b
  PROVE  q = r /\ a = b
<1> USE PageAssumption
<1>1. ASSUME NEW u \in Int, NEW v \in Int, u < v PROVE Page * u + Page <= Page * v
  <2>1. u + 1 <= v
    BY <1>1
  <2>2. Page * (u + 1) <= Page * v
    BY <2>1
  <2>3. Page * (u + 1) = Page * u + Page
    OBVIOUS
  <2> QED BY <2>2, <2>3
<1>2. Page * q \in Int /\ Page * r \in Int
  OBVIOUS
<1>3. CASE q < r
  BY <1>1, <1>2, <1>3
<1>4. CASE r < q
  BY <1>1, <1>2, <1>4
<1>5. CASE q = r
  BY <1>2, <1>5
<1> QED BY <1>3, <1>4, <1>5

(* A multiple of the page size has no remainder, and adding a page to a    *)
(* value leaves its remainder.                                             *)
LEMMA Remainder ==
  ASSUME NEW x \in Nat
  PROVE  /\ x % Page \in 0..Page - 1 /\ x \div Page \in Nat
         /\ x % Page = x - Page * (x \div Page)
         /\ (Page * x) % Page = 0
         /\ (x + Page) % Page = x % Page
<1> USE PageAssumption
<1>1. \A y \in Nat : /\ y % Page \in 0..Page - 1 /\ y \div Page \in Nat
                     /\ y % Page = y - Page * (y \div Page)
  <2>1. \A y \in Nat : y % Page \in 0..Page - 1 /\ y \div Page \in Nat
    OBVIOUS
  <2>2. \A y \in Nat : y % Page = y - Page * (y \div Page)
    BY SMT
  <2> QED BY <2>1, <2>2
<1>2. (Page * x) % Page = 0
  OBVIOUS
<1> DEFINE y == x + Page
           q == x \div Page
           r == y \div Page
           a == x % Page
           b == y % Page
<1>3. /\ q \in Nat /\ r \in Nat /\ a \in 0..Page - 1 /\ b \in 0..Page - 1
      /\ a = x - Page * q /\ b = y - Page * r
  <2>1. y \in Nat
    OBVIOUS
  <2> HIDE DEF y
  <2> QED BY <1>1, <2>1
<1> HIDE DEF q, r, a, b
<1>4. Page * (q + 1) + a = Page * r + b
  <2>1. Page * (q + 1) = Page * q + Page /\ Page * q \in Nat /\ Page * r \in Nat
    BY <1>3
  <2>2. b = x + Page - Page * r
    BY <1>3
  <2> QED BY <1>3, <2>1, <2>2
<1>5. b = a
  <2>1. q + 1 \in Int /\ r \in Int
    BY <1>3
  <2> QED BY <1>3, <1>4, <2>1, OneQuotient
<1> QED BY <1>1, <1>2, <1>5 DEF a, b

(* An aligned value is a multiple of the page size, and larger.            *)
LEMMA AlignFits ==
  ASSUME NEW x \in Nat
  PROVE  /\ Align(x) \in Nat /\ x < Align(x) /\ Align(x) % Page = 0
         /\ Align(x + Page) = Align(x) + Page
<1>1. /\ Page \in Nat \ {0} /\ x % Page \in 0..Page - 1 /\ (x + Page) % Page = x % Page
      /\ x % Page = x - Page * (x \div Page)
  BY PageAssumption, Remainder
<1>2. Align(x) \in Nat /\ x < Align(x) /\ Align(x + Page) = Align(x) + Page
  BY <1>1 DEF Align
<1>3. x \div Page \in Nat
  BY Remainder
<1>4. Align(x) = Page * (x \div Page + 1)
  <2>1. Page * (x \div Page + 1) = Page * (x \div Page) + Page
    BY <1>1, <1>3
  <2> QED BY <1>1, <1>3, <2>1 DEF Align
<1>5. x \div Page + 1 \in Nat
  BY <1>3
<1> QED BY <1>2, <1>4, <1>5, Remainder

-----------------------------------------------------------------------------
(* The sizes that are added up.                                            *)
Stored == [in : {"fs", "mem"}, len : Nat, of : Contents \cup {Unread}]
Packed == [path : Files, len : Nat, of : Contents \cup {Unread}]
Costs(table) == [f \in {g \in Files : table[g] # NoEntry} |-> EntrySize(f, table[f].len)]
Written(b) == [i \in DOMAIN b |-> EntrySize(b[i].path, b[i].len)]

(* The size of an entry is a number.                                       *)
LEMMA EntrySizeFits ==
  ASSUME NEW f \in Files, NEW len \in Nat
  PROVE  EntrySize(f, len) \in Nat
<1>1. PathLen[f] \in Nat
  BY PathsAssumption
<1> QED BY <1>1 DEF EntrySize

(* What is written grows by the entry that is appended.                    *)
LEMMA WrittenGrows ==
  ASSUME NEW b \in Seq(Packed), NEW e \in Packed
  PROVE  /\ Sum(Written(b), DOMAIN b) \in Nat
         /\ Sum(Written(Append(b, e)), DOMAIN Append(b, e)) =
              Sum(Written(b), DOMAIN b) + EntrySize(e.path, e.len)
<1> DEFINE c == Append(b, e)
           N == Len(b)
<1>1. /\ N \in Nat /\ DOMAIN b = 1..N /\ \A i \in 1..N : b[i] \in Packed
      /\ c \in Seq(Packed) /\ DOMAIN c = 1..N + 1 /\ c[N + 1] = e /\ \A i \in 1..N : c[i] = b[i]
  <2>1. N \in Nat /\ DOMAIN b = 1..N /\ \A i \in 1..N : b[i] \in Packed
    BY LenProperties, ElementOfSeq
  <2>2. /\ c \in Seq(Packed) /\ Len(c) = N + 1 /\ c[N + 1] = e /\ \A i \in 1..N : c[i] = b[i]
    BY AppendProperties
  <2>3. DOMAIN c = 1..N + 1
    BY <2>2, LenProperties
  <2> QED BY <2>1, <2>2, <2>3
<1> HIDE DEF c
<1>2. IsFiniteSet(1..N) /\ IsFiniteSet(1..N + 1) /\ N + 1 \in 1..N + 1 /\ (1..N + 1) \ {N + 1} = 1..N
  <2>1. N \in Nat
    BY <1>1
  <2> HIDE DEF N
  <2>2. N \in Int /\ N + 1 \in Int /\ 1 \in Int
    BY <2>1
  <2>3. IsFiniteSet(1..N) /\ IsFiniteSet(1..N + 1)
    BY <2>2, FS_Interval
  <2>4. N + 1 \in 1..N + 1 /\ (1..N + 1) \ {N + 1} = 1..N
    BY <2>1
  <2> QED BY <2>3, <2>4
<1>3. \A p \in Packed : EntrySize(p.path, p.len) \in Nat
  BY EntrySizeFits DEF Packed
<1>4. \A i \in 1..N : Written(b)[i] \in Nat /\ Written(c)[i] = Written(b)[i]
  BY <1>1, <1>3 DEF Written
<1>5. Written(c)[N + 1] = EntrySize(e.path, e.len) /\ Written(c)[N + 1] \in Nat
  BY <1>1, <1>2, <1>3 DEF Written
<1>6. Sum(Written(b), 1..N) \in Nat
  BY <1>2, <1>4, SumIsNumber
<1>7. Sum(Written(c), 1..N) = Sum(Written(b), 1..N)
  BY <1>2, <1>4, SumOfSame
<1>8. \A i \in 1..N + 1 : Written(c)[i] \in Int
  <2>1. \A i \in 1..N + 1 : i \in 1..N \/ i = N + 1
    BY <1>1
  <2> QED BY <1>4, <1>5, <2>1
<1>9. Sum(Written(c), 1..N + 1) = Written(c)[N + 1] + Sum(Written(c), (1..N + 1) \ {N + 1})
  BY <1>2, <1>8, SumOfOneMore
<1>10. Sum(Written(c), 1..N + 1) = Sum(Written(b), 1..N) + EntrySize(e.path, e.len)
  <2> DEFINE total == Sum(Written(c), 1..N + 1)
             old == Sum(Written(b), 1..N)
             size == EntrySize(e.path, e.len)
  <2>1. total = size + old /\ size \in Nat /\ old \in Nat
    BY <1>2, <1>5, <1>6, <1>7, <1>9
  <2> HIDE DEF total, old, size
  <2>2. total = old + size
    BY <2>1
  <2> QED BY <2>2 DEF total, old, size
<1> QED BY <1>1, <1>6, <1>10 DEF c

(* The sizes of the entries of a table, and of one entry and the others.   *)
LEMMA CostsFit ==
  ASSUME NEW table \in [Files -> Stored \cup {NoEntry}],
         NEW S \in SUBSET {g \in Files : table[g] # NoEntry}
  PROVE  /\ Sum(Costs(table), S) \in Nat
         /\ \A f \in S : Sum(Costs(table), S) =
                           EntrySize(f, table[f].len) + Sum(Costs(table), S \ {f})
<1> DEFINE T == {g \in Files : table[g] # NoEntry}
<1>1. \A f \in S : Costs(table)[f] = EntrySize(f, table[f].len) /\ Costs(table)[f] \in Nat
  <2>1. ASSUME NEW f \in S PROVE Costs(table)[f] = EntrySize(f, table[f].len) /\ Costs(table)[f] \in Nat
    <3>1. f \in T /\ f \in Files /\ table[f] \in Stored
      OBVIOUS
    <3>2. table[f].len \in Nat
      BY <3>1 DEF Stored
    <3>3. Costs(table)[f] = EntrySize(f, table[f].len)
      BY <3>1 DEF Costs
    <3> QED BY <3>1, <3>2, <3>3, EntrySizeFits
  <2> QED BY <2>1
<1>2. IsFiniteSet(S)
  BY PathsAssumption, FS_Subset
<1>3. Sum(Costs(table), S) \in Nat
  BY <1>1, <1>2, SumIsNumber
<1>4. \A f \in S : Costs(table)[f] \in Int
  BY <1>1
<1>5. ASSUME NEW f \in S
      PROVE  Sum(Costs(table), S) = EntrySize(f, table[f].len) + Sum(Costs(table), S \ {f})
  BY <1>1, <1>2, <1>4, SumOfOneMore
<1> QED BY <1>3, <1>5

(* The two sizes that the code computes.                                   *)
LEMMA SizesAreSums ==
  /\ ComputeSize = 4 + Sum(Costs(vfs), Table)
  /\ Cursor = 4 + Sum(Written(buffer), DOMAIN buffer)
<1>1. Costs(vfs) = [f \in Table |-> EntrySize(f, vfs[f].len)] /\ DOMAIN Costs(vfs) = Table
  BY DEF Costs, Table
<1>2. ComputeSize = 4 + SumFunction(Costs(vfs))
  BY <1>1 DEF ComputeSize
<1>3. Cursor = 4 + SumFunction(Written(buffer)) /\ DOMAIN Written(buffer) = DOMAIN buffer
  BY DEF Cursor, Written
<1>4. SumFunction(Costs(vfs)) = Sum(Costs(vfs), Table)
  BY <1>1 DEF SumFunction, Sum
<1>5. SumFunction(Written(buffer)) = Sum(Written(buffer), DOMAIN buffer)
  BY <1>3 DEF SumFunction, Sum
<1> QED BY <1>2, <1>3, <1>4, <1>5

-----------------------------------------------------------------------------
(* The inductive invariant.                                                *)

(* What each stage of main() has, and no longer has.                       *)
StageFits ==
  /\ stage \in {"scan", "pack", "write"} => mode = "standalone" /\ image = NoImage
  /\ stage \in {"start", "serve"} /\ mode = "standalone" => image = NoImage
  /\ mode = "embedded" => image # NoImage
  /\ stage = "load" => mode = "embedded"
  /\ stage \in {"packed", "failed", "load"} => vfs = NoVfs
  /\ stage # "pack" => todo = {}
  /\ stage \notin {"pack", "write"} => buffer = <<>>
  /\ stage \notin {"start", "serve"} => started = 0
  /\ stage # "serve" => answer = NoEntry

(* What is written and what is still to be written make the whole table.   *)
SumsFit ==
  /\ stage = "pack" =>
       /\ Sum(Written(buffer), DOMAIN buffer) + Sum(Costs(vfs), todo) = Sum(Costs(vfs), Table)
       /\ Len(buffer) + Cardinality(todo) = Cardinality(Table)
  /\ stage = "write" =>
       /\ Sum(Written(buffer), DOMAIN buffer) <= Sum(Costs(vfs), Table)
       /\ Len(buffer) <= Cardinality(Table)

ImageFits ==
  image # NoImage =>
    /\ image.entries \in Seq(Packed)
    /\ image.segment \in Nat /\ image.segment % Page = 0 /\ image.used <= image.segment

(* As long as nothing disturbs it, the program has found, written and      *)
(* loaded the directory as it was, and it still is.                        *)
AsWas(e) == first[e.path] # Gone /\ e.len = Size[first[e.path]] /\ e.of = first[e.path]
Undisturbed ==
  calm =>
    /\ image = NoImage => disk = first
    /\ stage = "scan" =>
         \A f \in Files :
           /\ listing[f] # "may"
           /\ listing[f] = "none" => first[f] = Gone /\ vfs[f] = NoEntry
           /\ listing[f] = "must" => first[f] # Gone /\ vfs[f] = NoEntry
           /\ listing[f] = "done" => first[f] # Gone /\ vfs[f] = OnDisk(Size[first[f]])
    /\ stage \in {"pack", "write", "start", "serve"} /\ mode = "standalone" =>
         \A f \in Files : vfs[f] = IF first[f] = Gone THEN NoEntry ELSE OnDisk(Size[first[f]])
    /\ stage \in {"pack", "write"} =>
         /\ \A i \in DOMAIN buffer : AsWas(buffer[i])
         /\ \A f \in Table \ todo : \E i \in DOMAIN buffer : buffer[i].path = f
    /\ image # NoImage =>
         /\ image.cut = FALSE /\ \A i \in DOMAIN image.entries : AsWas(image.entries[i])
         /\ \A f \in Files : first[f] # Gone => \E i \in DOMAIN image.entries : image.entries[i].path = f

IInv == TypeOK /\ StageFits /\ SumsFit /\ ImageFits /\ Undisturbed /\ RoundTrip /\ AnswersAsAtStartup

(* Entries of the two kinds.                                               *)
LEMMA EntriesFit ==
  /\ Entries = Stored \cup {NoEntry} /\ NoEntry \notin Stored
  /\ \A n \in Nat : OnDisk(n) \in Stored /\ OnDisk(n).in = "fs" /\ OnDisk(n).len = n
  /\ \A n \in Nat, of \in Contents \cup {Unread} :
       /\ InMemory(n, of) \in Stored /\ InMemory(n, of).in = "mem"
       /\ InMemory(n, of).len = n /\ InMemory(n, of).of = of
  /\ \A c \in Contents : Size[c] \in Nat /\ c # Gone /\ c # Unread
BY SizesAssumption, NoEntryAssumption DEF Entries, Stored, OnDisk, InMemory

(* A program that ends leaves nothing behind but its image.                *)
LEMMA ExitKeeps ==
  ASSUME IInv, NEW s \in {"failed", "packed"}, Exit(s), UNCHANGED <<image, history>>
  PROVE  IInv'
<1> USE DEF IInv
<1>1. /\ stage' = s /\ vfs' = NoVfs /\ todo' = {} /\ buffer' = <<>> /\ started' = 0
      /\ listing' = NotOpen /\ answer' = NoEntry
      /\ UNCHANGED <<disk, mode, packs, image, first, calm>>
  BY DEF Exit, history
<1>2. Table' = {}
  BY <1>1 DEF Table, NoVfs
<1>3. TypeOK'
  <2>1. vfs' \in [Files -> Entries] /\ listing' \in [Files -> {"none", "must", "may", "done"}]
    BY <1>1 DEF NoVfs, NotOpen, Entries
  <2>2. started' \in 0..Len(StartFiles)
    BY <1>1, StartFilesAssumption
  <2> QED BY <1>1, <1>2, <2>1, <2>2 DEF TypeOK
<1>4. StageFits' /\ SumsFit' /\ ImageFits'
  BY <1>1 DEF StageFits, SumsFit, ImageFits
<1>5. Undisturbed' /\ RoundTrip' /\ AnswersAsAtStartup'
  BY <1>1 DEF Undisturbed, RoundTrip, AnswersAsAtStartup, AsWas
<1> QED BY <1>3, <1>4, <1>5

(* The program is started with a data directory.                           *)
LEMMA InitFits == ASSUME Init PROVE IInv
<1>1. Table = {} /\ vfs \in [Files -> Entries]
  BY DEF Init, Table, NoVfs, Entries
<1>2. TypeOK
  <2>1. listing \in [Files -> {"none", "must", "may", "done"}]
    BY DEF Init, Listing
  <2>2. started \in 0..Len(StartFiles)
    BY StartFilesAssumption DEF Init
  <2> QED BY <1>1, <2>1, <2>2 DEF Init, TypeOK
<1>3. StageFits /\ SumsFit /\ ImageFits /\ RoundTrip /\ AnswersAsAtStartup
  BY DEF Init, StageFits, SumsFit, ImageFits, RoundTrip, AnswersAsAtStartup
<1>4. Undisturbed
  <2>1. \A f \in Files : vfs[f] = NoEntry /\ listing[f] = IF first[f] = Gone THEN "none" ELSE "must"
    BY DEF Init, NoVfs, Listing
  <2> QED BY <2>1 DEF Init, Undisturbed
<1> QED BY <1>2, <1>3, <1>4 DEF IInv

(* A change of the directory: what is read from it is then no longer       *)
(* calm; an image that is written already does not depend on it.           *)
LEMMA ChangeKeeps ==
  ASSUME IInv, NEW f \in Files, NEW c \in Contents \cup {Gone}, Change(f, c)
  PROVE  IInv'
<1> USE DEF IInv
<1>1. UNCHANGED <<mode, stage, packs, vfs, todo, buffer, started, image, answer, first>>
  BY DEF Change, process
<1>2. calm' \in BOOLEAN /\ (calm' => calm /\ image # NoImage)
  BY DEF Change, TypeOK
<1>3. TypeOK'
  <2>1. disk' \in [Files -> Contents \cup {Gone}]
    BY DEF Change, TypeOK
  <2>2. listing' \in [Files -> {"none", "must", "may", "done"}]
    BY DEF Change, TypeOK
  <2>3. Table' = Table
    BY <1>1 DEF Table
  <2> QED BY <1>1, <1>2, <2>1, <2>2, <2>3 DEF TypeOK
<1>4. StageFits' /\ SumsFit' /\ ImageFits'
  <2>1. Table' = Table
    BY <1>1 DEF Table
  <2> QED BY <1>1, <2>1 DEF StageFits, SumsFit, ImageFits
<1>5. RoundTrip' /\ AnswersAsAtStartup'
  BY <1>1, <1>2 DEF RoundTrip, AnswersAsAtStartup
<1>6. Undisturbed'
  BY <1>1, <1>2 DEF Undisturbed, StageFits, AsWas
<1> QED BY <1>3, <1>4, <1>5, <1>6

(* A file that readdir returned.                                           *)
LEMMA ScanFileKeeps == ASSUME IInv, NEW f \in Files, ScanFile(f) PROVE IInv'
<1> USE DEF IInv
<1>1. /\ stage = "scan" /\ disk[f] # Gone /\ listing[f] \in {"must", "may"}
      /\ UNCHANGED <<disk, mode, stage, packs, todo, buffer, started, image, answer, first, calm>>
  BY DEF ScanFile, history
<1>2. mode = "standalone" /\ image = NoImage /\ todo = {}
  BY <1>1 DEF StageFits
<1>3. Size[disk[f]] \in Nat
  BY <1>1, EntriesFit DEF TypeOK
<1>4. OnDisk(Size[disk[f]]) \in Entries /\ OnDisk(Size[disk[f]]).in = "fs"
  BY <1>3, EntriesFit
<1>5. /\ vfs' \in [Files -> Entries] /\ vfs'[f] = OnDisk(Size[disk[f]])
      /\ \A g \in Files \ {f} : vfs'[g] = vfs[g]
      /\ listing' \in [Files -> {"none", "must", "may", "done"}] /\ listing'[f] = "done"
      /\ \A g \in Files \ {f} : listing'[g] = listing[g]
  <2> DEFINE e == OnDisk(Size[disk[f]])
  <2>1. vfs' = [vfs EXCEPT ![f] = e] /\ listing' = [listing EXCEPT ![f] = "done"]
    BY DEF ScanFile
  <2>2. e \in Entries /\ vfs \in [Files -> Entries]
    BY <1>4 DEF TypeOK
  <2> HIDE DEF e
  <2>3. vfs' \in [Files -> Entries] /\ vfs'[f] = e /\ \A g \in Files \ {f} : vfs'[g] = vfs[g]
    BY <2>1, <2>2
  <2>4. /\ listing' \in [Files -> {"none", "must", "may", "done"}] /\ listing'[f] = "done"
        /\ \A g \in Files \ {f} : listing'[g] = listing[g]
    BY <2>1 DEF TypeOK
  <2> QED BY <2>3, <2>4 DEF e
<1>6. \A g \in Files : vfs'[g] # NoEntry => vfs'[g].in = "fs"
  <2>1. \A g \in Files : vfs[g] # NoEntry => vfs[g].in = "fs"
    BY <1>2 DEF TypeOK, Table
  <2> QED BY <1>4, <1>5, <2>1
<1>7. TypeOK'
  BY <1>1, <1>2, <1>5, <1>6 DEF TypeOK, Table
<1>8. StageFits' /\ SumsFit' /\ ImageFits' /\ RoundTrip'
  BY <1>1 DEF StageFits, SumsFit, ImageFits, RoundTrip
<1>9. AnswersAsAtStartup'
  BY <1>1 DEF AnswersAsAtStartup
<1>10. Undisturbed'
  <2>1. SUFFICES ASSUME calm PROVE Undisturbed'
    BY <1>1 DEF Undisturbed
  <2>2. disk = first
    BY <1>2, <2>1 DEF Undisturbed
  <2>3. \A g \in Files :
          /\ listing'[g] # "may"
          /\ listing'[g] = "none" => first[g] = Gone /\ vfs'[g] = NoEntry
          /\ listing'[g] = "must" => first[g] # Gone /\ vfs'[g] = NoEntry
          /\ listing'[g] = "done" => first[g] # Gone /\ vfs'[g] = OnDisk(Size[first[g]])
    <3>1. TAKE g \in Files
    <3>2. CASE g = f
      BY <1>1, <1>5, <2>2, <3>2
    <3>3. CASE g # f
      BY <1>1, <1>5, <2>1, <3>3 DEF Undisturbed
    <3> QED BY <3>2, <3>3
  <2> QED BY <1>1, <1>2, <2>2, <2>3 DEF Undisturbed
<1> QED BY <1>7, <1>8, <1>9, <1>10

(* The directory is read.                                                  *)
LEMMA ScanDoneKeeps == ASSUME IInv, ScanDone PROVE IInv'
<1> USE DEF IInv
<1>1. /\ stage = "scan" /\ listing' = NotOpen /\ \A f \in Files : listing[f] # "must"
      /\ UNCHANGED <<disk, mode, packs, vfs, buffer, started, image, answer, first, calm>>
  BY DEF ScanDone, history
<1>2. \/ stage' = "pack" /\ todo' = Table
      \/ stage' = "start" /\ todo' = todo
  BY DEF ScanDone
<1>3. mode = "standalone" /\ image = NoImage /\ todo = {} /\ buffer = <<>>
  BY <1>1 DEF StageFits
<1>4. Table' = Table
  BY <1>1 DEF Table
<1>5. TypeOK'
  <2>1. listing' \in [Files -> {"none", "must", "may", "done"}]
    BY <1>1 DEF NotOpen
  <2> QED BY <1>1, <1>2, <1>3, <1>4, <2>1 DEF TypeOK
<1>6. StageFits' /\ ImageFits' /\ RoundTrip' /\ AnswersAsAtStartup'
  BY <1>1, <1>2, <1>3 DEF StageFits, ImageFits, RoundTrip, AnswersAsAtStartup
<1>7. SumsFit'
  <2>1. SUFFICES ASSUME stage' = "pack" PROVE SumsFit'
    BY <1>2 DEF SumsFit
  <2>2. todo' = Table /\ buffer' = <<>>
    BY <1>1, <1>2, <1>3, <2>1
  <2>3. DOMAIN buffer' = {} /\ Len(buffer') = 0
    BY <2>2
  <2>4. Sum(Written(buffer'), DOMAIN buffer') = 0
    BY <2>3, SumOfNone
  <2>5. Sum(Costs(vfs), Table) \in Nat
    BY CostsFit, EntriesFit DEF TypeOK, Table
  <2>6. Cardinality(Table) \in Nat
    BY PathsAssumption, FS_Subset, FS_CardinalityType DEF Table
  <2>7. 0 + Sum(Costs(vfs), Table) = Sum(Costs(vfs), Table) /\ 0 + Cardinality(Table) = Cardinality(Table)
    <3> DEFINE total == Sum(Costs(vfs), Table)
               count == Cardinality(Table)
    <3>1. total \in Nat /\ count \in Nat
      BY <2>5, <2>6
    <3> HIDE DEF total, count
    <3>2. 0 + total = total /\ 0 + count = count
      BY <3>1
    <3> QED BY <3>2 DEF total, count
  <2>8. vfs' = vfs
    BY <1>1
  <2> QED BY <1>4, <2>1, <2>2, <2>3, <2>4, <2>7, <2>8 DEF SumsFit
<1>8. Undisturbed'
  <2>1. SUFFICES ASSUME calm PROVE Undisturbed'
    BY <1>1 DEF Undisturbed
  <2>2. \A f \in Files : vfs[f] = IF first[f] = Gone THEN NoEntry ELSE OnDisk(Size[first[f]])
    <3>1. TAKE f \in Files
    <3>2. listing[f] \in {"none", "done"}
      BY <1>1, <2>1 DEF TypeOK, Undisturbed
    <3> QED BY <1>1, <2>1, <3>2 DEF Undisturbed
  <2>3. DOMAIN buffer' = {} /\ (stage' = "pack" => Table' \ todo' = {})
    BY <1>1, <1>2, <1>3, <1>4
  <2> QED BY <1>1, <1>2, <1>3, <2>1, <2>2, <2>3 DEF Undisturbed
<1> QED BY <1>5, <1>6, <1>7, <1>8

(* What is measured, written and left are numbers, and so are the counts.  *)
LEMMA PackNumbers ==
  ASSUME IInv
  PROVE  /\ Sum(Costs(vfs), Table) \in Nat /\ Sum(Costs(vfs), todo) \in Nat
         /\ Sum(Written(buffer), DOMAIN buffer) \in Nat
         /\ IsFiniteSet(Table) /\ IsFiniteSet(todo)
         /\ Cardinality(Table) \in Nat /\ Cardinality(todo) \in Nat /\ Len(buffer) \in Nat
         /\ vfs \in [Files -> Stored \cup {NoEntry}] /\ buffer \in Seq(Packed)
         /\ Table = {g \in Files : vfs[g] # NoEntry} /\ todo \subseteq Table
<1>1. /\ vfs \in [Files -> Stored \cup {NoEntry}] /\ buffer \in Seq(Packed)
      /\ Table = {g \in Files : vfs[g] # NoEntry} /\ todo \subseteq Table
  BY EntriesFit DEF IInv, TypeOK, Table, Packed
<1>2. Sum(Costs(vfs), Table) \in Nat /\ Sum(Costs(vfs), todo) \in Nat
  BY <1>1, CostsFit
<1>3. IsFiniteSet(Table) /\ IsFiniteSet(todo)
  <2>1. Table \subseteq Files /\ todo \subseteq Files
    BY <1>1
  <2> QED BY <2>1, PathsAssumption, FS_Subset
<1>4. Sum(Written(buffer), DOMAIN buffer) \in Nat
  <2>1. DOMAIN buffer = 1..Len(buffer) /\ Len(buffer) \in Nat
    BY <1>1, LenProperties
  <2>2. IsFiniteSet(DOMAIN buffer)
    BY <2>1, FS_Interval
  <2>3. \A i \in DOMAIN buffer : Written(buffer)[i] \in Nat
    <3>1. \A p \in Packed : EntrySize(p.path, p.len) \in Nat
      BY EntrySizeFits DEF Packed
    <3>2. \A i \in DOMAIN buffer : buffer[i] \in Packed
      BY <1>1, <2>1, ElementOfSeq
    <3> QED BY <3>1, <3>2 DEF Written
  <2> QED BY <2>2, <2>3, SumIsNumber
<1>5. Cardinality(Table) \in Nat /\ Cardinality(todo) \in Nat /\ Len(buffer) \in Nat
  BY <1>1, <1>3, FS_CardinalityType, LenProperties
<1> QED BY <1>1, <1>2, <1>3, <1>4, <1>5

(* One entry is written.                                                   *)
LEMMA PackEntryKeeps == ASSUME IInv, NEW f \in Files, PackEntry(f) PROVE IInv'
<1> USE DEF IInv
<1>1. /\ stage = "pack" /\ f \in todo /\ todo' = todo \ {f}
      /\ UNCHANGED <<disk, listing, mode, stage, packs, vfs, started, image, answer, first>>
  BY DEF PackEntry
<1>2. mode = "standalone" /\ image = NoImage
  BY <1>1 DEF StageFits
<1>3. Table' = Table
  BY <1>1 DEF Table
<1>4. PICK of \in Bytes(vfs[f], f) :
        /\ buffer' = Append(buffer, [path |-> f, len |-> vfs[f].len, of |-> of])
        /\ calm' = (calm /\ of # Unread)
  BY DEF PackEntry
<1> DEFINE e == [path |-> f, len |-> vfs[f].len, of |-> of]
<1>5. f \in Table /\ vfs[f] \in Stored /\ vfs[f].in = "fs"
  BY <1>1, <1>2, PackNumbers DEF TypeOK
<1>6. disk[f] # Gone /\ disk[f] \in Contents /\ of \in {disk[f], Unread}
  BY <1>4, <1>5 DEF Bytes, TypeOK
<1>7. e \in Packed
  BY <1>5, <1>6 DEF Packed, Stored
<1>8. /\ buffer' = Append(buffer, e) /\ e.path = f /\ e.len = vfs[f].len /\ e.of = of
  BY <1>4
<1> HIDE DEF e
<1> DEFINE N == Len(buffer)
<1>9. /\ N \in Nat /\ DOMAIN buffer = 1..N
      /\ buffer' \in Seq(Packed) /\ Len(buffer') = N + 1 /\ DOMAIN buffer' = 1..N + 1
      /\ buffer'[N + 1] = e /\ \A i \in 1..N : buffer'[i] = buffer[i]
  <2>1. buffer \in Seq(Packed)
    BY PackNumbers
  <2>2. N \in Nat /\ DOMAIN buffer = 1..N
    BY <2>1, LenProperties
  <2>3. /\ buffer' \in Seq(Packed) /\ Len(buffer') = N + 1
        /\ buffer'[N + 1] = e /\ \A i \in 1..N : buffer'[i] = buffer[i]
    BY <1>7, <1>8, <2>1, AppendProperties
  <2>4. DOMAIN buffer' = 1..N + 1
    BY <2>3, LenProperties
  <2> QED BY <2>2, <2>3, <2>4
<1>10. calm' \in BOOLEAN /\ (calm' => calm /\ of # Unread)
  BY <1>4 DEF TypeOK
<1>11. TypeOK'
  BY <1>1, <1>3, <1>9, <1>10 DEF TypeOK, Packed
<1>12. StageFits' /\ ImageFits'
  BY <1>1, <1>2 DEF StageFits, ImageFits
<1>13. RoundTrip' /\ AnswersAsAtStartup'
  BY <1>1, <1>10 DEF RoundTrip, AnswersAsAtStartup
<1>14. SumsFit'
  <2> DEFINE written == Sum(Written(buffer), DOMAIN buffer)
             left == Sum(Costs(vfs), todo)
             rest == Sum(Costs(vfs), todo')
             total == Sum(Costs(vfs), Table)
             size == EntrySize(f, vfs[f].len)
             grown == Sum(Written(buffer'), DOMAIN buffer')
             count == Cardinality(Table)
             open == Cardinality(todo)
             still == Cardinality(todo')
  <2>1. written \in Nat /\ left \in Nat /\ total \in Nat /\ count \in Nat /\ open \in Nat
    BY PackNumbers
  <2>2. written + left = total /\ N + open = count
    BY <1>1 DEF SumsFit
  <2>3. left = size + rest
    BY <1>1, PackNumbers, CostsFit
  <2>4. rest \in Nat
    <3>1. todo \ {f} \in SUBSET {g \in Files : vfs[g] # NoEntry}
      BY PackNumbers
    <3>2. Sum(Costs(vfs), todo \ {f}) \in Nat
      BY <3>1, PackNumbers, CostsFit
    <3> QED BY <1>1, <3>2
  <2>5. size \in Nat
    BY <1>5, EntrySizeFits DEF Stored
  <2>6. grown = written + size
    <3>1. e \in Packed /\ buffer \in Seq(Packed)
      BY <1>7, PackNumbers
    <3>2. Sum(Written(Append(buffer, e)), DOMAIN Append(buffer, e)) =
            Sum(Written(buffer), DOMAIN buffer) + EntrySize(e.path, e.len)
      BY <3>1, WrittenGrows
    <3> QED BY <1>8, <3>2
  <2>7. still = open - 1
    BY <1>1, PackNumbers, FS_RemoveElement
  <2>8. Len(buffer') = N + 1 /\ N \in Nat
    BY <1>9
  <2>9. stage' = "pack" /\ vfs' = vfs
    BY <1>1
  <2> HIDE DEF written, left, rest, total, size, grown, count, open, still, N
  <2>10. grown + rest = total /\ Len(buffer') + still = count
    BY <2>1, <2>2, <2>3, <2>4, <2>5, <2>6, <2>7, <2>8
  <2> QED BY <1>3, <2>9, <2>10 DEF SumsFit, rest, total, grown, count, still
<1>15. Undisturbed'
  <2>1. SUFFICES ASSUME calm' PROVE Undisturbed'
    BY DEF Undisturbed
  <2>2. calm /\ of # Unread
    BY <1>10, <2>1
  <2>3. disk = first /\ vfs[f] = OnDisk(Size[first[f]])
    BY <1>1, <1>2, <1>6, <2>2 DEF Undisturbed
  <2>4. AsWas(e)
    <3>1. vfs[f].len = Size[first[f]]
      BY <1>6, <2>3, EntriesFit
    <3>2. first[f] # Gone /\ of = first[f]
      BY <1>6, <2>2, <2>3
    <3> QED BY <1>8, <3>1, <3>2 DEF AsWas
  <2>5. \A i \in DOMAIN buffer' : AsWas(buffer'[i])
    <3>1. \A i \in 1..N : AsWas(buffer[i])
      BY <1>1, <1>9, <2>2 DEF Undisturbed
    <3>2. \A i \in 1..N + 1 : i \in 1..N \/ i = N + 1
      BY <1>9
    <3> HIDE DEF N
    <3> QED BY <1>9, <2>4, <3>1, <3>2
  <2>6. \A g \in Table \ todo' : \E i \in DOMAIN buffer' : buffer'[i].path = g
    <3>1. TAKE g \in Table \ todo'
    <3>2. CASE g = f
      <4>1. N + 1 \in DOMAIN buffer' /\ buffer'[N + 1].path = f
        BY <1>8, <1>9
      <4> QED BY <3>2, <4>1
    <3>3. CASE g # f
      <4>1. PICK i \in DOMAIN buffer : buffer[i].path = g
        BY <1>1, <2>2, <3>1, <3>3 DEF Undisturbed
      <4>2. i \in DOMAIN buffer' /\ buffer'[i].path = g
        BY <1>9, <4>1
      <4> QED BY <4>2
    <3> QED BY <3>2, <3>3
  <2>7. \A g \in Files : vfs[g] = IF first[g] = Gone THEN NoEntry ELSE OnDisk(Size[first[g]])
    BY <1>1, <1>2, <2>2 DEF Undisturbed
  <2> QED BY <1>1, <1>2, <1>3, <2>3, <2>5, <2>6, <2>7 DEF Undisturbed, AsWas
<1> QED BY <1>11, <1>12, <1>13, <1>14, <1>15

(* An entry does not open: what is written is at most what was measured.   *)
LEMMA PackGivesUpKeeps == ASSUME IInv, NEW f \in Files, PackGivesUp(f) PROVE IInv'
<1> USE DEF IInv
<1>1. /\ stage = "pack" /\ todo' = {} /\ stage' = "write" /\ calm' = FALSE
      /\ UNCHANGED <<disk, listing, mode, packs, vfs, buffer, started, image, answer, first>>
  BY DEF PackGivesUp
<1>2. Table' = Table
  BY <1>1 DEF Table
<1>3. TypeOK' /\ ImageFits'
  BY <1>1, <1>2 DEF TypeOK, ImageFits
<1>4. StageFits'
  BY <1>1 DEF StageFits
<1>5. RoundTrip' /\ AnswersAsAtStartup' /\ Undisturbed'
  BY <1>1 DEF RoundTrip, AnswersAsAtStartup, Undisturbed
<1>6. SumsFit'
  <2> DEFINE written == Sum(Written(buffer), DOMAIN buffer)
             left == Sum(Costs(vfs), todo)
             total == Sum(Costs(vfs), Table)
             count == Cardinality(Table)
             open == Cardinality(todo)
             N == Len(buffer)
  <2>1. /\ written \in Nat /\ left \in Nat /\ total \in Nat
        /\ count \in Nat /\ open \in Nat /\ N \in Nat
    BY PackNumbers
  <2>2. written + left = total /\ N + open = count
    BY <1>1 DEF SumsFit
  <2> HIDE DEF written, left, total, count, open, N
  <2>3. written <= total /\ N <= count
    BY <2>1, <2>2
  <2> QED BY <1>1, <1>2, <2>3 DEF SumsFit, written, total, count, N
<1> QED BY <1>3, <1>4, <1>5, <1>6

(* Every entry is written.                                                 *)
LEMMA PackDoneKeeps == ASSUME IInv, PackDone PROVE IInv'
<1> USE DEF IInv
<1>1. /\ stage = "pack" /\ todo = {} /\ stage' = "write"
      /\ UNCHANGED <<disk, listing, mode, packs, vfs, todo, buffer, started, image, answer, first, calm>>
  BY DEF PackDone, history
<1>2. Table' = Table
  BY <1>1 DEF Table
<1>3. TypeOK' /\ ImageFits'
  BY <1>1, <1>2 DEF TypeOK, ImageFits
<1>4. StageFits'
  BY <1>1 DEF StageFits
<1>5. RoundTrip' /\ AnswersAsAtStartup'
  BY <1>1 DEF RoundTrip, AnswersAsAtStartup
<1>6. SumsFit'
  <2> DEFINE written == Sum(Written(buffer), DOMAIN buffer)
             left == Sum(Costs(vfs), todo)
             total == Sum(Costs(vfs), Table)
             count == Cardinality(Table)
             open == Cardinality(todo)
             N == Len(buffer)
  <2>1. /\ written \in Nat /\ left \in Nat /\ total \in Nat
        /\ count \in Nat /\ open \in Nat /\ N \in Nat
    BY PackNumbers
  <2>2. written + left = total /\ N + open = count
    BY <1>1 DEF SumsFit
  <2> HIDE DEF written, left, total, count, open, N
  <2>3. written <= total /\ N <= count
    BY <2>1, <2>2
  <2> QED BY <1>1, <1>2, <2>3 DEF SumsFit, written, total, count, N
<1>7. Undisturbed'
  BY <1>1, <1>2 DEF Undisturbed, AsWas
<1> QED BY <1>3, <1>4, <1>5, <1>6, <1>7

(* What was written fits in what was measured, and that in the segment.    *)
LEMMA SegmentFits ==
  ASSUME IInv, stage \in {"pack", "write"}
  PROVE  /\ ComputeSize \in Nat /\ Cursor <= ComputeSize
         /\ Align(ComputeSize) \in Nat /\ Align(ComputeSize) % Page = 0
         /\ Cursor <= Align(ComputeSize)
<1> DEFINE written == Sum(Written(buffer), DOMAIN buffer)
           left == Sum(Costs(vfs), todo)
           total == Sum(Costs(vfs), Table)
<1>1. written \in Nat /\ left \in Nat /\ total \in Nat
  BY PackNumbers
<1>2. stage = "pack" => written + left = total
  BY DEF IInv, SumsFit
<1>3. stage = "write" => written <= total
  BY DEF IInv, SumsFit
<1>4. ComputeSize = 4 + total /\ Cursor = 4 + written
  BY SizesAreSums
<1> HIDE DEF written, left, total
<1>5. written <= total
  BY <1>1, <1>2, <1>3
<1>6. ComputeSize \in Nat /\ Cursor \in Nat /\ Cursor <= ComputeSize
  BY <1>1, <1>4, <1>5
<1>7. Align(ComputeSize) \in Nat /\ ComputeSize < Align(ComputeSize) /\ Align(ComputeSize) % Page = 0
  BY <1>6, AlignFits
<1> DEFINE size == ComputeSize
           segment == Align(ComputeSize)
           used == Cursor
<1>8. used <= segment
  <2>1. used \in Nat /\ size \in Nat /\ segment \in Nat /\ used <= size /\ size < segment
    BY <1>6, <1>7
  <2> HIDE DEF used, size, segment
  <2> QED BY <2>1
<1> QED BY <1>6, <1>7, <1>8

(* The image is written.                                                   *)
LEMMA WriteImageKeeps == ASSUME IInv, WriteImage PROVE IInv'
<1> USE DEF IInv
<1>1. stage = "write" /\ image = NoImage /\ Exit("packed") /\ first' = first
  BY DEF WriteImage
<1>2. PICK cut \in BOOLEAN :
        /\ image' = [segment |-> Align(ComputeSize), used |-> Cursor,
                     count |-> Cardinality(Table), entries |-> buffer, cut |-> cut]
        /\ calm' = (calm /\ ~cut)
  BY DEF WriteImage
<1>3. /\ stage' = "packed" /\ vfs' = NoVfs /\ todo' = {} /\ buffer' = <<>> /\ started' = 0
      /\ listing' = NotOpen /\ answer' = NoEntry /\ UNCHANGED <<disk, mode, packs>>
  BY <1>1 DEF Exit
<1>4. mode = "standalone" /\ todo = {}
  BY <1>1 DEF StageFits
<1>5. /\ image'.segment = Align(ComputeSize) /\ image'.used = Cursor
      /\ image'.count = Cardinality(Table) /\ image'.entries = buffer /\ image'.cut = cut
  BY <1>2
<1>6. Table' = {}
  BY <1>3 DEF Table, NoVfs
<1>7. TypeOK'
  <2>1. vfs' \in [Files -> Entries] /\ listing' \in [Files -> {"none", "must", "may", "done"}]
    BY <1>3 DEF NoVfs, NotOpen, Entries
  <2>2. started' \in 0..Len(StartFiles)
    BY <1>3, StartFilesAssumption
  <2>3. Len(buffer) <= Cardinality(Table)
    BY <1>1 DEF SumsFit
  <2>4. calm' \in BOOLEAN
    BY <1>2
  <2>5. buffer' \in Seq([path : Files, len : Nat, of : Contents \cup {Unread}])
    BY <1>3
  <2>6. Len(image'.entries) <= image'.count
    BY <1>5, <2>3
  <2> QED BY <1>1, <1>3, <1>6, <2>1, <2>2, <2>4, <2>5, <2>6 DEF TypeOK
<1>8. StageFits' /\ SumsFit' /\ RoundTrip' /\ AnswersAsAtStartup'
  BY <1>3, <1>4 DEF StageFits, SumsFit, RoundTrip, AnswersAsAtStartup
<1>9. ImageFits'
  BY <1>1, <1>5, SegmentFits, PackNumbers DEF ImageFits
<1>10. Undisturbed'
  <2>1. SUFFICES ASSUME calm' PROVE Undisturbed'
    BY DEF Undisturbed
  <2>2. calm /\ cut = FALSE
    BY <1>2, <2>1 DEF TypeOK
  <2>3. disk = first /\ \A i \in DOMAIN buffer : AsWas(buffer[i])
    BY <1>1, <2>2 DEF Undisturbed
  <2>4. \A f \in Files : first[f] # Gone => \E i \in DOMAIN buffer : buffer[i].path = f
    <3>1. SUFFICES ASSUME NEW f \in Files, first[f] # Gone
                   PROVE  \E i \in DOMAIN buffer : buffer[i].path = f
      OBVIOUS
    <3>2. vfs[f] = OnDisk(Size[first[f]])
      BY <1>1, <1>4, <2>2, <3>1 DEF Undisturbed
    <3>3. first[f] \in Contents
      BY <3>1 DEF TypeOK
    <3>4. vfs[f] # NoEntry
      BY <3>2, <3>3, EntriesFit
    <3>5. f \in Table \ todo
      BY <1>4, <3>4 DEF Table
    <3> QED BY <1>1, <2>2, <3>5 DEF Undisturbed
  <2>5. /\ image'.cut = FALSE
        /\ \A i \in DOMAIN image'.entries :
             /\ first'[image'.entries[i].path] # Gone
             /\ image'.entries[i].len = Size[first'[image'.entries[i].path]]
             /\ image'.entries[i].of = first'[image'.entries[i].path]
        /\ \A f \in Files :
             first'[f] # Gone => \E i \in DOMAIN image'.entries : image'.entries[i].path = f
    BY <1>1, <1>5, <2>2, <2>3, <2>4 DEF AsWas
  <2> QED BY <1>1, <1>3, <2>3, <2>5 DEF Undisturbed, AsWas
<1> QED BY <1>7, <1>8, <1>9, <1>10

(* The image is loaded.                                                    *)
LEMMA LoadImageKeeps == ASSUME IInv, LoadImage PROVE IInv'
<1> USE DEF IInv
<1>1. /\ stage = "load" /\ stage' = "start"
      /\ UNCHANGED <<disk, listing, mode, packs, todo, buffer, started, image, answer, first, calm>>
  BY DEF LoadImage, history
<1>2. mode = "embedded" /\ image # NoImage /\ todo = {} /\ buffer = <<>>
  BY <1>1 DEF StageFits
<1> DEFINE b == image.entries
<1>3. PICK n \in 0..Len(b) :
        /\ ~image.cut => n = Len(b)
        /\ vfs' = [f \in Files |->
             IF {i \in 1..n : b[i].path = f} = {} THEN NoEntry
             ELSE InMemory(b[CHOOSE i \in {i \in 1..n : b[i].path = f} : TRUE].len,
                           b[CHOOSE i \in {i \in 1..n : b[i].path = f} : TRUE].of)]
  BY DEF LoadImage
<1> DEFINE Read(f) == {i \in 1..n : b[i].path = f}
           Entry(f) == CHOOSE i \in Read(f) : TRUE
<1>4. b \in Seq(Packed) /\ Len(b) \in Nat /\ DOMAIN b = 1..Len(b) /\ n \in Nat /\ n <= Len(b)
  <2>1. b \in Seq(Packed)
    BY <1>2 DEF ImageFits
  <2>2. Len(b) \in Nat /\ DOMAIN b = 1..Len(b)
    BY <2>1, LenProperties
  <2> QED BY <1>3, <2>1, <2>2
<1>5. \A i \in 1..n : i \in DOMAIN b /\ b[i] \in Packed
  <2> HIDE DEF b
  <2>1. \A i \in 1..n : i \in 1..Len(b)
    BY <1>4
  <2> QED BY <1>4, <2>1, ElementOfSeq
<1>6. \A f \in Files : \/ Read(f) = {} /\ vfs'[f] = NoEntry
                       \/ /\ Entry(f) \in 1..n /\ b[Entry(f)].path = f
                          /\ vfs'[f] = InMemory(b[Entry(f)].len, b[Entry(f)].of)
  <2>1. TAKE f \in Files
  <2>2. CASE Read(f) = {}
    BY <1>3, <2>2
  <2>3. CASE Read(f) # {}
    <3>1. Entry(f) \in Read(f)
      BY <2>3
    <3>2. vfs'[f] = InMemory(b[Entry(f)].len, b[Entry(f)].of)
      BY <1>3, <2>3
    <3> HIDE DEF Entry
    <3> QED BY <3>1, <3>2
  <2> QED BY <2>2, <2>3
<1>7. \A f \in Files : vfs'[f] \in Entries /\ (vfs'[f] # NoEntry => vfs'[f].in = "mem")
  <2>1. TAKE f \in Files
  <2>2. CASE vfs'[f] = NoEntry
    BY <2>2 DEF Entries
  <2>3. CASE vfs'[f] # NoEntry
    <3>1. PICK i \in 1..n : vfs'[f] = InMemory(b[i].len, b[i].of)
      BY <1>6, <2>3
    <3>2. b[i].len \in Nat /\ b[i].of \in Contents \cup {Unread}
      BY <1>5, <3>1 DEF Packed
    <3> HIDE DEF b
    <3> QED BY <3>1, <3>2, EntriesFit
  <2> QED BY <2>2, <2>3
<1>8. DOMAIN vfs' = Files /\ vfs' = [f \in Files |-> vfs'[f]]
  BY <1>3
<1>9. vfs' \in [Files -> Entries]
  BY <1>7, <1>8
<1>10. TypeOK'
  BY <1>1, <1>2, <1>7, <1>9 DEF TypeOK, Table
<1>11. StageFits' /\ SumsFit' /\ ImageFits' /\ AnswersAsAtStartup'
  BY <1>1, <1>2 DEF StageFits, SumsFit, ImageFits, AnswersAsAtStartup
<1>12. Undisturbed'
  BY <1>1, <1>2 DEF Undisturbed, AsWas
<1>13. RoundTrip'
  <2>1. SUFFICES ASSUME calm PROVE vfs' = AsIn(first)
    BY <1>1 DEF RoundTrip, AsIn
  <2>2. /\ image.cut = FALSE /\ \A i \in DOMAIN b : AsWas(b[i])
        /\ \A f \in Files : first[f] # Gone => \E i \in DOMAIN b : b[i].path = f
    BY <1>2, <2>1 DEF Undisturbed
  <2>3. DOMAIN b = 1..n
    BY <1>3, <1>4, <2>2
  <2>4. \A f \in Files : vfs'[f] = AsIn(first)[f]
    <3>1. TAKE f \in Files
    <3>2. CASE first[f] = Gone
      <4>1. \A i \in 1..n : b[i].path # f
        BY <2>2, <2>3, <3>2 DEF AsWas
      <4>2. vfs'[f] = NoEntry
        BY <1>6, <4>1
      <4> QED BY <3>2, <4>2 DEF AsIn
    <3>3. CASE first[f] # Gone
      <4>1. Read(f) # {}
        BY <2>2, <2>3, <3>3
      <4>2. PICK i \in 1..n : b[i].path = f /\ vfs'[f] = InMemory(b[i].len, b[i].of)
        <5> HIDE DEF Entry, Read
        <5> QED BY <1>6, <4>1
      <4>3. b[i].len = Size[first[f]] /\ b[i].of = first[f]
        BY <2>2, <2>3, <4>2 DEF AsWas
      <4> QED BY <3>3, <4>2, <4>3 DEF AsIn
    <3> QED BY <3>2, <3>3
  <2> QED BY <1>8, <2>4 DEF AsIn
<1> QED BY <1>10, <1>11, <1>12, <1>13

(* A file that app_run needs is loaded, or all of them are.                *)
LEMMA StartKeeps == ASSUME IInv, StartFile \/ StartDone PROVE IInv'
<1> USE DEF IInv
<1>1. /\ stage = "start" /\ stage' \in {"start", "serve"}
      /\ UNCHANGED <<disk, listing, mode, packs, vfs, todo, buffer, image, answer, first, calm>>
  BY DEF StartFile, StartDone, history
<1>2. started' \in 0..Len(StartFiles)
  <2>1. Len(StartFiles) \in Nat /\ started \in 0..Len(StartFiles)
    BY StartFilesAssumption, LenProperties DEF TypeOK
  <2>2. \/ started < Len(StartFiles) /\ started' = started + 1
        \/ started' = started
    BY DEF StartFile, StartDone
  <2> QED BY <2>1, <2>2
<1>3. Table' = Table
  BY <1>1 DEF Table
<1>4. TypeOK'
  BY <1>1, <1>2, <1>3 DEF TypeOK
<1>5. StageFits' /\ SumsFit' /\ ImageFits'
  BY <1>1 DEF StageFits, SumsFit, ImageFits
<1>6. RoundTrip' /\ AnswersAsAtStartup' /\ Undisturbed'
  BY <1>1 DEF RoundTrip, AnswersAsAtStartup, Undisturbed, AsIn, AsWas
<1> QED BY <1>4, <1>5, <1>6

(* A request is answered with a file: from disk with what it now holds,    *)
(* from memory with what was packed.                                       *)
LEMMA ServeFileKeeps == ASSUME IInv, NEW f \in Files, ServeFile(f) PROVE IInv'
<1> USE DEF IInv
<1>1. /\ stage = "serve" /\ f \in Table
      /\ UNCHANGED <<disk, listing, mode, stage, packs, vfs, todo, buffer, started, image, first>>
  BY DEF ServeFile, process
<1>2. PICK of \in Bytes(vfs[f], f) :
        /\ answer' = [path |-> f, len |-> vfs[f].len, of |-> of]
        /\ calm' = (calm /\ (vfs[f].in = "fs" => of # Unread))
  BY DEF ServeFile
<1>3. calm' \in BOOLEAN /\ (calm' => calm /\ (vfs[f].in = "fs" => of # Unread))
  BY <1>2 DEF TypeOK
<1>4. answer'.path = f /\ answer'.len = vfs[f].len /\ answer'.of = of
  BY <1>2
<1>5. Table' = Table
  BY <1>1 DEF Table
<1>6. TypeOK' /\ StageFits' /\ SumsFit' /\ ImageFits'
  BY <1>1, <1>3, <1>5 DEF TypeOK, StageFits, SumsFit, ImageFits
<1>7. RoundTrip' /\ Undisturbed'
  BY <1>1, <1>3 DEF RoundTrip, Undisturbed, AsIn, AsWas
<1>8. AnswersAsAtStartup'
  <2>1. SUFFICES ASSUME calm' PROVE of = first[f] /\ vfs[f].len = Size[of]
    BY <1>1, <1>4 DEF AnswersAsAtStartup
  <2>2. calm /\ (vfs[f].in = "fs" => of # Unread)
    BY <1>3, <2>1
  <2>3. mode \in {"standalone", "embedded"} /\ vfs[f] # NoEntry /\ first[f] \in Contents \cup {Gone}
    BY <1>1 DEF TypeOK, Table
  <2>4. vfs[f].in = IF mode = "embedded" THEN "mem" ELSE "fs"
    BY <1>1 DEF TypeOK
  <2>5. CASE mode = "standalone"
    <3>1. disk = first /\ first[f] # Gone /\ vfs[f] = OnDisk(Size[first[f]])
      BY <1>1, <2>2, <2>3, <2>5 DEF StageFits, Undisturbed
    <3>2. vfs[f].len = Size[first[f]]
      BY <2>3, <3>1, EntriesFit
    <3>3. of \in {disk[f], Unread} /\ of # Unread
      BY <1>2, <2>2, <2>4, <2>5, <3>1 DEF Bytes
    <3> QED BY <3>1, <3>2, <3>3
  <2>6. CASE mode = "embedded"
    <3>1. first[f] # Gone /\ vfs[f] = InMemory(Size[first[f]], first[f])
      BY <1>1, <2>2, <2>3, <2>6 DEF RoundTrip, AsIn
    <3>2. vfs[f].of = first[f] /\ vfs[f].len = Size[first[f]]
      BY <2>3, <3>1, EntriesFit
    <3>3. of = vfs[f].of
      BY <1>2, <2>4, <2>6 DEF Bytes
    <3> QED BY <3>2, <3>3
  <2> QED BY <2>3, <2>5, <2>6
<1> QED BY <1>6, <1>7, <1>8

(* A request is left to Lua.                                               *)
LEMMA ServeLuaKeeps == ASSUME IInv, NEW f \in Files, ServeLua(f) PROVE IInv'
<1> USE DEF IInv
<1>1. /\ stage = "serve" /\ answer' = NoEntry
      /\ UNCHANGED <<disk, listing, mode, stage, packs, vfs, todo, buffer, started, image, first, calm>>
  BY DEF ServeLua, process, history
<1>2. Table' = Table
  BY <1>1 DEF Table
<1>3. TypeOK' /\ StageFits' /\ SumsFit' /\ ImageFits'
  BY <1>1, <1>2 DEF TypeOK, StageFits, SumsFit, ImageFits
<1>4. RoundTrip' /\ Undisturbed' /\ AnswersAsAtStartup'
  BY <1>1 DEF RoundTrip, Undisturbed, AnswersAsAtStartup, AsIn, AsWas
<1> QED BY <1>3, <1>4

(* The program is started again, with the directory as it now is.          *)
LEMMA RunProgramKeeps == ASSUME IInv, RunProgram PROVE IInv'
<1> USE DEF IInv
<1>1. /\ stage = "failed" /\ image = NoImage /\ stage' = "scan" /\ packs' \in BOOLEAN
      /\ listing' = Listing(disk) /\ first' = disk /\ calm' = TRUE
      /\ UNCHANGED <<disk, mode, vfs, todo, buffer, started, image, answer>>
  BY DEF RunProgram
<1>2. /\ vfs = NoVfs /\ todo = {} /\ buffer = <<>> /\ started = 0 /\ answer = NoEntry
      /\ mode = "standalone"
  BY <1>1 DEF StageFits, TypeOK
<1>3. Table' = Table
  BY <1>1 DEF Table
<1>4. TypeOK'
  <2>1. listing' \in [Files -> {"none", "must", "may", "done"}]
    BY <1>1 DEF Listing
  <2> QED BY <1>1, <1>3, <2>1 DEF TypeOK
<1>5. StageFits' /\ SumsFit' /\ ImageFits' /\ RoundTrip' /\ AnswersAsAtStartup'
  BY <1>1, <1>2 DEF StageFits, SumsFit, ImageFits, RoundTrip, AnswersAsAtStartup
<1>6. Undisturbed'
  <2>1. \A f \in Files : vfs'[f] = NoEntry /\ listing'[f] = IF first'[f] = Gone THEN "none" ELSE "must"
    BY <1>1, <1>2 DEF NoVfs, Listing
  <2> QED BY <1>1, <2>1 DEF Undisturbed
<1> QED BY <1>4, <1>5, <1>6

(* The image is started.                                                   *)
LEMMA RunImageKeeps == ASSUME IInv, RunImage PROVE IInv'
<1> USE DEF IInv
<1>1. /\ stage \in {"packed", "failed"} /\ image # NoImage /\ mode' = "embedded" /\ stage' = "load"
      /\ UNCHANGED <<disk, listing, packs, vfs, todo, buffer, started, image, answer, first, calm>>
  BY DEF RunImage, history
<1>2. vfs = NoVfs /\ todo = {} /\ buffer = <<>> /\ started = 0 /\ answer = NoEntry
  BY <1>1 DEF StageFits
<1>3. Table' = {} /\ Table = {}
  BY <1>1, <1>2 DEF Table, NoVfs
<1>4. TypeOK'
  BY <1>1, <1>3 DEF TypeOK
<1>5. StageFits' /\ SumsFit' /\ ImageFits' /\ RoundTrip' /\ AnswersAsAtStartup'
  BY <1>1, <1>2 DEF StageFits, SumsFit, ImageFits, RoundTrip, AnswersAsAtStartup
<1>6. Undisturbed'
  BY <1>1 DEF Undisturbed, AsWas
<1> QED BY <1>4, <1>5, <1>6

(* The ways the program ends without writing an image.                     *)
LEMMA EndKeeps ==
  ASSUME IInv,
         \/ \E f \in Files : ScanFails(f) \/ Overrun(f)
         \/ WriteFails \/ LoadCrashes \/ StartFails \/ Kill
  PROVE  IInv'
<1>1. Exit("failed") /\ UNCHANGED <<image, history>>
  BY DEF ScanFails, Overrun, WriteFails, LoadCrashes, StartFails, Kill
<1> QED BY <1>1, ExitKeeps

(* Every step keeps the invariant.                                         *)
LEMMA NextKeeps == ASSUME IInv, [Next]_vars PROVE IInv'
<1>1. CASE Environment
  <2>1. ASSUME NEW f \in Files, NEW c \in Contents \cup {Gone}, Change(f, c) PROVE IInv'
    BY <2>1, ChangeKeeps
  <2>2. ASSUME NEW f \in Files, ServeFile(f) \/ ServeLua(f) PROVE IInv'
    BY <2>2, ServeFileKeeps, ServeLuaKeeps
  <2>3. ASSUME RunProgram \/ RunImage \/ Kill PROVE IInv'
    BY <2>3, RunProgramKeeps, RunImageKeeps, EndKeeps
  <2> QED BY <1>1, <2>1, <2>2, <2>3 DEF Environment
<1>2. CASE Program
  <2>1. ASSUME NEW f \in Files, ScanFile(f) \/ ScanFails(f) PROVE IInv'
    BY <2>1, ScanFileKeeps, EndKeeps
  <2>2. ASSUME NEW f \in Files, PackEntry(f) \/ PackGivesUp(f) \/ Overrun(f) PROVE IInv'
    BY <2>2, PackEntryKeeps, PackGivesUpKeeps, EndKeeps
  <2>3. ASSUME ScanDone \/ PackDone \/ WriteImage \/ LoadImage \/ StartFile \/ StartDone PROVE IInv'
    BY <2>3, ScanDoneKeeps, PackDoneKeeps, WriteImageKeeps, LoadImageKeeps, StartKeeps
  <2>4. ASSUME WriteFails \/ LoadCrashes \/ StartFails PROVE IInv'
    BY <2>4, EndKeeps
  <2> QED BY <1>2, <2>1, <2>2, <2>3, <2>4 DEF Program
<1>3. CASE UNCHANGED vars
  <2>1. Table' = Table
    BY <1>3 DEF vars, process, Table
  <2>2. TypeOK' /\ StageFits' /\ SumsFit' /\ ImageFits'
    BY <1>3, <2>1 DEF vars, process, history, IInv, TypeOK, StageFits, SumsFit, ImageFits
  <2>3. Undisturbed' /\ RoundTrip' /\ AnswersAsAtStartup'
    BY <1>3, <2>1
       DEF vars, process, history, IInv, Undisturbed, RoundTrip, AnswersAsAtStartup, AsIn, AsWas
  <2> QED BY <2>2, <2>3 DEF IInv
<1> QED BY <1>1, <1>2, <1>3 DEF Next

(* Every state that the program reaches satisfies the invariant.           *)
LEMMA Invariance == Spec => []IInv
<1>1. Init => IInv
  BY InitFits
<1>2. IInv /\ [Next]_vars => IInv'
  BY NextKeeps
<1> QED BY <1>1, <1>2, PTL DEF Spec

-----------------------------------------------------------------------------
(* Every file has one state, and every entry is where the mode says: on    *)
(* disk in the program, in memory in the image (is_embedded).              *)
THEOREM TypeCorrect == Spec => []TypeOK
<1>1. IInv => TypeOK
  BY DEF IInv
<1> QED BY <1>1, Invariance, PTL

(* vfs_pack never writes past the buffer that vfs_compute_size measured,   *)
(* and the segment lies between the moved executable and the end of file.  *)
THEOREM NothingIsOverwritten == Spec => []LayoutFits
<1>1. ASSUME IInv PROVE LayoutFits
  <2>1. stage \in {"pack", "write"} => Cursor <= Align(ComputeSize)
    BY <1>1, SegmentFits
  <2>2. ASSUME image # NoImage, NEW input \in InputSizes
        PROVE  LET l == Layout(input, image.segment)
               IN  /\ l.offset % Page = 0 /\ input + Page <= l.offset
                   /\ l.offset + image.segment <= l.output
    <3> DEFINE offset == Align(input + Page)
               start == Align(input)
               segment == image.segment
    <3>1. input \in Nat /\ Page \in Nat \ {0}
      BY PageAssumption
    <3>2. input + Page \in Nat
      BY <3>1
    <3>3. offset % Page = 0 /\ offset \in Nat /\ input + Page < offset
      BY <3>2, AlignFits
    <3>4. offset = start + Page /\ start \in Nat
      BY <3>1, AlignFits
    <3>5. segment \in Nat
      BY <1>1, <2>2 DEF IInv, ImageFits
    <3> HIDE DEF offset, start, segment
    <3>6. input + Page <= offset /\ offset + segment <= start + segment + Page
      BY <3>1, <3>3, <3>4, <3>5
    <3> QED BY <3>3, <3>6 DEF Layout, offset, start, segment
  <2>3. image # NoImage => image.used <= image.segment
    BY <1>1 DEF IInv, ImageFits
  <2> QED BY <2>1, <2>2, <2>3 DEF LayoutFits
<1> QED BY <1>1, Invariance, PTL

(* What an undisturbed program packs is what its image loads: the data     *)
(* directory as it was when the program was started.                       *)
THEOREM ImageIsDirectory == Spec => []RoundTrip
<1>1. IInv => RoundTrip
  BY DEF IInv
<1> QED BY <1>1, Invariance, PTL

(* handle_request answers with the file as it was at startup, in full.     *)
THEOREM FilesAsAtStartup == Spec => []AnswersAsAtStartup
<1>1. IInv => AnswersAsAtStartup
  BY DEF IInv
<1> QED BY <1>1, Invariance, PTL
=============================================================================
