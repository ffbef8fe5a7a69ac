------------------------------ MODULE SelfPack -------------------------------
(***************************************************************************)
(* src/main.c and src/vfs.c: the program reads a data directory into its   *)
(* virtual file system (vfs) and serves it, or packs it with its own       *)
(* executable into an image that later serves it from memory.  The         *)
(* directory may change at any time; a read, a write or an open may fail.  *)
(* One action is one entry of a loop over the files, or one stage.         *)
(***************************************************************************)
EXTENDS Integers, Sequences, FiniteSets, Functions

CONSTANTS
  Files,        \* paths of regular files under the data directory
  PathLen,      \* strlen of each path
  Contents,     \* what a file may hold
  Size,         \* how long each content is
  Gone,         \* the content of a file that is not there
  Unread,       \* the bytes of a buffer that read_full failed to fill
  NoEntry,      \* hashmap_get found nothing
  NoImage,      \* nothing was written at the -o path
  StartFiles,   \* /mime.types, /lib.lua, /main.lua
  Page,         \* 4096: the alignment, and move_size
  InputSizes    \* sizes the executable may have

ASSUME PathsAssumption == PathLen \in [Files -> Nat] /\ IsFiniteSet(Files)
ASSUME SizesAssumption == Size \in [Contents -> Nat] /\ {Gone, Unread} \cap Contents = {}
ASSUME PageAssumption == Page \in Nat \ {0} /\ InputSizes \subseteq Nat
ASSUME NoEntryAssumption ==
  NoEntry \notin [in : {"fs", "mem"}, len : Nat, of : Contents \cup {Unread}]
ASSUME StartFilesAssumption == StartFiles \in Seq(Files)

VARIABLES
  disk,     \* the data directory
  listing,  \* readdir: a file is not there, must be or may be returned, or was
  mode,     \* "standalone" or "embedded": is_embedded()
  stage,    \* where main() is
  packs,    \* -o was given
  vfs,      \* g_vfs: for each path its entry
  todo,     \* hashmap_iter of vfs_pack: entries still to come
  buffer,   \* vfs_buffer: the entries written to it
  image,    \* the file at the -o path
  started,  \* how many of StartFiles app_run has loaded
  answer,   \* what the last request was answered with
  first,    \* history: the data directory when the program was started,
  calm      \*   and whether it stayed so, and every call succeeded, until
            \*   its image was written

process == <<mode, stage, packs, vfs, todo, buffer, started>>
history == <<first, calm>>
vars    == <<disk, listing, process, image, answer, history>>

-----------------------------------------------------------------------------
(* main.c:116: a multiple of a page is not left as it is.                  *)
Align(val) == val + (Page - (val % Page))

(* An entry on disk is known by its size at startup, one in memory by its  *)
(* bytes: len bytes of a buffer that holds `of`.                           *)
OnDisk(size) == [in |-> "fs", len |-> size, of |-> Unread]
InMemory(len, of) == [in |-> "mem", len |-> len, of |-> of]
NoVfs == [f \in Files |-> NoEntry]
Open == {"none", "must", "may"}
NotOpen == [f \in Files |-> "done"]
Listing(dir) == [f \in Files |-> IF dir[f] = Gone THEN "none" ELSE "must"]
Table == {f \in Files : vfs[f] # NoEntry}

(* vfs_compute_size: count, and per entry two lengths, two NULs, the path  *)
(* and the data.  Directories of 4 GiB, where this uint32 wraps, are out.  *)
EntrySize(f, len) == 4 + PathLen[f] + 1 + 4 + len + 1
ComputeSizeNoNul ==  \* mutant: without the NULs
  4 + SumFunction([f \in Table |-> EntrySize(f, vfs[f].len) - 2])
ComputeSize == 4 + SumFunction([f \in Table |-> EntrySize(f, vfs[f].len)])

(* The cursor of vfs_pack.                                                 *)
Cursor == 4 + SumFunction([i \in DOMAIN buffer |-> EntrySize(buffer[i].path, buffer[i].len)])

Init ==
  /\ disk \in [Files -> Contents \cup {Gone}]
  /\ listing = Listing(disk)
  /\ mode = "standalone" /\ stage = "scan" /\ packs \in BOOLEAN
  /\ vfs = NoVfs /\ todo = {} /\ buffer = <<>> /\ started = 0
  /\ image = NoImage /\ answer = NoEntry /\ first = disk /\ calm = TRUE

-----------------------------------------------------------------------------
(* Someone writes, creates or removes a file.  A directory stream that is  *)
(* open may or may not return what was created or removed since.           *)
Change(f, c) ==
  /\ c # disk[f]
  /\ disk' = [disk EXCEPT ![f] = c]
  /\ listing' = IF Gone \in {c, disk[f]} /\ listing[f] \in Open
                THEN [listing EXCEPT ![f] = "may"] ELSE listing
  /\ calm' = (calm /\ image # NoImage)
  /\ UNCHANGED <<process, image, answer, first>>

(* The program ends, and its memory is gone.                               *)
ExitKeepsTodo(s) ==  \* mutant: the table is freed under an iteration
  /\ stage' = s
  /\ vfs' = NoVfs /\ buffer' = <<>> /\ started' = 0
  /\ listing' = NotOpen /\ answer' = NoEntry
  /\ UNCHANGED <<disk, mode, packs, todo>>
Exit(s) ==
  /\ stage' = s
  /\ vfs' = NoVfs /\ todo' = {} /\ buffer' = <<>> /\ started' = 0
  /\ listing' = NotOpen /\ answer' = NoEntry
  /\ UNCHANGED <<disk, mode, packs>>

(* vfs_fill_fs and vfs_fill_file: a file readdir returned, and its size.   *)
ScanFile(f) ==
  /\ stage = "scan" /\ listing[f] \in {"must", "may"} /\ disk[f] # Gone
  /\ listing' = [listing EXCEPT ![f] = "done"]
  /\ vfs' = [vfs EXCEPT ![f] = OnDisk(Size[disk[f]])]
  /\ UNCHANGED <<disk, mode, stage, packs, todo, buffer, started, image, answer, history>>

(* stat or open fails, as for a file removed since readdir returned it:    *)
(* vfs_init_fs frees the table, and the program ends.                      *)
ScanFails(f) ==
  /\ stage = "scan" /\ listing[f] \in {"must", "may"}
  /\ Exit("failed")
  /\ UNCHANGED <<image, history>>

ScanDone ==
  /\ stage = "scan" /\ \A f \in Files : listing[f] # "must"
  /\ IF packs THEN stage' = "pack" /\ todo' = Table
              ELSE stage' = "start" /\ UNCHANGED todo
  /\ listing' = NotOpen
  /\ UNCHANGED <<disk, mode, packs, vfs, buffer, started, image, answer, history>>

-----------------------------------------------------------------------------
(* vfs_buffer_get: the buffer has the size of the entry, and of a file on  *)
(* disk holds what the file does by now; read_full's result is not looked  *)
(* at.  The file may not open at all.                                      *)
BytesOnDisk(e, f) == IF disk[f] = Gone THEN {} ELSE {disk[f], Unread}  \* mutant: no image
Bytes(e, f) ==
  IF e.in = "mem" THEN {e.of} ELSE IF disk[f] = Gone THEN {} ELSE {disk[f], Unread}

(* read_full reads to the end of the file: one that grew is written past   *)
(* the end of the buffer, and the program may not survive it.              *)
Overrun(f) ==
  /\ f \in IF stage = "pack" THEN todo ELSE IF stage \in {"start", "serve"} THEN Table ELSE {}
  /\ vfs[f].in = "fs" /\ disk[f] # Gone /\ Size[disk[f]] > vfs[f].len
  /\ Exit("failed")
  /\ UNCHANGED <<image, history>>

(* vfs_pack: one entry, in any order the table has them.                   *)
PackEntry(f) ==
  /\ stage = "pack" /\ f \in todo
  /\ todo' = todo \ {f}
  /\ \E of \in Bytes(vfs[f], f) :
       /\ buffer' = Append(buffer, [path |-> f, len |-> vfs[f].len, of |-> of])
       /\ calm' = (calm /\ of # Unread)
  /\ UNCHANGED <<disk, listing, mode, stage, packs, vfs, started, image, answer, first>>

(* An entry that cannot be opened ends vfs_pack with -1 and the buffer as  *)
(* it is; self_pack goes on (main.c:133).                                  *)
PackGivesUp(f) ==
  /\ stage = "pack" /\ f \in todo
  /\ todo' = {} /\ stage' = "write" /\ calm' = FALSE
  /\ UNCHANGED <<disk, listing, mode, packs, vfs, buffer, started, image, answer, first>>

(* Mutant of PackDone: the iteration ends one entry early.                 *)
PackDoneEarly ==
  /\ stage = "pack" /\ Cardinality(todo) <= 1
  /\ stage' = "write"
  /\ UNCHANGED <<disk, listing, mode, packs, vfs, todo, buffer, started, image, answer, history>>

PackDone ==
  /\ stage = "pack" /\ todo = {}
  /\ stage' = "write"
  /\ UNCHANGED <<disk, listing, mode, packs, vfs, todo, buffer, started, image, answer, history>>

(* self_pack: the image is a page for the header, the executable moved by  *)
(* it, and the vfs as a new segment.                                       *)
LayoutNoMove(input, segment) ==  \* mutant: the offset forgets that the executable moved
  [offset |-> Align(input), output |-> Align(input) + segment + Page]
Layout(input, segment) ==
  [offset |-> Align(input + Page), output |-> Align(input) + segment + Page]

(* write_full may stop in the middle, which nobody looks at; the exit      *)
(* status is 0.                                                            *)
WriteImage ==
  /\ stage = "write" /\ image = NoImage
  /\ \E cut \in BOOLEAN :
       /\ image' = [segment |-> Align(ComputeSize), used |-> Cursor,
                    count |-> Cardinality(Table), entries |-> buffer, cut |-> cut]
       /\ calm' = (calm /\ ~cut)
  /\ Exit("packed")
  /\ UNCHANGED first

(* /proc/self/exe or the -o path does not open (O_EXCL).                   *)
WriteFails ==
  /\ stage = "write"
  /\ Exit("failed")
  /\ UNCHANGED <<image, history>>

-----------------------------------------------------------------------------
(* The image is run: vfs_init_mem reads `count` entries.  Where it was cut *)
(* off, or vfs_pack gave up, the bytes are not an entry: the program       *)
(* crashes, or it finds entries of no path that is ever asked for.         *)
LoadImage ==
  /\ stage = "load"
  /\ \E n \in 0..Len(image.entries) :
       LET Read(f) == {i \in 1..n : image.entries[i].path = f}
           Entry(i) == InMemory(image.entries[i].len, image.entries[i].of)
       IN  /\ ~image.cut => n = Len(image.entries)
           /\ vfs' = [f \in Files |->
                       IF Read(f) = {} THEN NoEntry ELSE Entry(CHOOSE i \in Read(f) : TRUE)]
  /\ stage' = "start"
  /\ UNCHANGED <<disk, listing, mode, packs, todo, buffer, started, image, answer, history>>

LoadCrashes ==
  /\ stage = "load"
  /\ image.cut \/ Len(image.entries) < image.count
  /\ Exit("failed")
  /\ UNCHANGED <<image, history>>

(* app_run: mime_load and luaapp_runfile, each ending the program when its *)
(* file is not there; a script may also fail, and -p be missing.           *)
StartFile ==
  /\ stage = "start" /\ started < Len(StartFiles)
  /\ LET f == StartFiles[started + 1]
     IN  vfs[f] # NoEntry /\ Bytes(vfs[f], f) # {}
  /\ started' = started + 1
  /\ UNCHANGED <<disk, listing, mode, stage, packs, vfs, todo, buffer, image, answer, history>>

StartFails ==
  /\ stage = "start"
  /\ Exit("failed")
  /\ UNCHANGED <<image, history>>

StartDone ==
  /\ stage = "start" /\ started = Len(StartFiles)
  /\ stage' = "serve"
  /\ UNCHANGED <<disk, listing, mode, packs, vfs, todo, buffer, started, image, answer, history>>

(* handle_request: a path in the table is answered with its bytes, and any *)
(* other, or one that does not open, is left to Lua.                       *)
ServeFile(f) ==
  /\ stage = "serve" /\ f \in Table
  /\ \E of \in Bytes(vfs[f], f) :
       /\ answer' = [path |-> f, len |-> vfs[f].len, of |-> of]
       /\ calm' = (calm /\ (vfs[f].in = "fs" => of # Unread))
  /\ UNCHANGED <<disk, listing, process, image, first>>

ServeLua(f) ==
  /\ stage = "serve"
  /\ f \in Table => vfs[f].in = "fs"
  /\ answer' = NoEntry
  /\ UNCHANGED <<disk, listing, process, image, history>>

-----------------------------------------------------------------------------
(* The program is started with -d, until an image is there, or the image   *)
(* is: again and again, the server being killed in between.                *)
RunProgram ==
  /\ stage = "failed" /\ image = NoImage
  /\ stage' = "scan" /\ packs' \in BOOLEAN
  /\ listing' = Listing(disk)
  /\ first' = disk /\ calm' = TRUE
  /\ UNCHANGED <<disk, mode, vfs, todo, buffer, started, image, answer>>

RunImage ==
  /\ stage \in {"packed", "failed"} /\ image # NoImage
  /\ mode' = "embedded" /\ stage' = "load"
  /\ UNCHANGED <<disk, listing, packs, vfs, todo, buffer, started, image, answer, history>>

Kill ==
  /\ stage = "serve"
  /\ Exit("failed")
  /\ UNCHANGED <<image, history>>

Environment ==
  \/ \E f \in Files, c \in Contents \cup {Gone} : Change(f, c)
  \/ \E f \in Files : ServeFile(f) \/ ServeLua(f)
  \/ RunProgram \/ RunImage \/ Kill

Program ==
  \/ \E f \in Files : ScanFile(f) \/ ScanFails(f)
  \/ \E f \in Files : PackEntry(f) \/ PackGivesUp(f) \/ Overrun(f)
  \/ ScanDone \/ PackDone \/ WriteImage \/ WriteFails
  \/ LoadImage \/ LoadCrashes \/ StartFile \/ StartFails \/ StartDone

Next == Environment \/ Program

Spec == Init /\ [][Next]_vars

-----------------------------------------------------------------------------
(* Properties.                                                             *)

Entries ==
  [in : {"fs", "mem"}, len : Nat, of : Contents \cup {Unread}] \cup {NoEntry}

(* Every file is in one state of the listing, every entry of the table in  *)
(* the file system or in memory, according to the mode.                    *)
TypeOK ==
  /\ disk \in [Files -> Contents \cup {Gone}] /\ first \in [Files -> Contents \cup {Gone}]
  /\ listing \in [Files -> {"none", "must", "may", "done"}]
  /\ mode \in {"standalone", "embedded"} /\ {packs, calm} \subseteq BOOLEAN
  /\ stage \in {"scan", "pack", "write", "packed", "load", "start", "serve", "failed"}
  /\ vfs \in [Files -> Entries] /\ todo \subseteq Table
  /\ \A f \in Table : vfs[f].in = IF mode = "embedded" THEN "mem" ELSE "fs"
  /\ started \in 0..Len(StartFiles)
  /\ buffer \in Seq([path : Files, len : Nat, of : Contents \cup {Unread}])
  /\ image # NoImage => Len(image.entries) <= image.count

(* vfs_pack stays in the buffer that vfs_compute_size measured, whatever   *)
(* became of the files since; in the image the vfs starts on a page, after *)
(* the moved executable, and ends where the file ends (main.c:150-211).    *)
LayoutFits ==
  /\ stage \in {"pack", "write"} => Cursor <= Align(ComputeSize)
  /\ image # NoImage =>
       /\ image.used <= image.segment
       /\ \A input \in InputSizes :
            LET l == Layout(input, image.segment)
            IN  /\ l.offset % Page = 0 /\ input + Page <= l.offset
                /\ l.offset + image.segment <= l.output

AsIn(dir) ==
  [f \in Files |-> IF dir[f] = Gone THEN NoEntry ELSE InMemory(Size[dir[f]], dir[f])]

(* What the image loads is what the data directory held when the program   *)
(* that packed it was started, if the directory stayed as it was and every *)
(* read and write succeeded.                                               *)
RoundTrip ==
  mode = "embedded" /\ stage \in {"start", "serve"} /\ calm => vfs = AsIn(first)

(* A request is answered with the file as it was at startup, in full: from *)
(* disk, as long as the directory does not change; from an image, even     *)
(* when it does.                                                           *)
AnswersAsAtStartup ==
  answer # NoEntry /\ calm => answer.of = first[answer.path] /\ answer.len = Size[answer.of]
=============================================================================
