------------------------------- MODULE LuaApp -------------------------------
(***************************************************************************)
(* src/luaapp.c and its callers in src/main.c: the one Lua state of the    *)
(* process, its start and what becomes of a request that no file answers.  *)
(*                                                                         *)
(* All of luaapp.c works on one Lua stack by indices from its top, so the  *)
(* stack is explicit: it holds the objects of the requests, each with the  *)
(* number of its request.  Three things happen in Lua that C sees: a call  *)
(* ends or fails, a table is found to hold something else than text, and   *)
(* the collector runs when something is allocated.  The Lua program is     *)
(* external: it may do all that the C code tells apart.                    *)
(***************************************************************************)
EXTENDS Integers, Sequences, FiniteSets

CONSTANTS
  Files,       \* paths of the virtual file system
  Targets,     \* request targets: a path, and what follows a question mark
  NoValue,     \* a query parameter that strtok finds no value for
  Writes,      \* the fields a callback may leave in a table
  Failures,    \* the kinds of error objects a callback may raise
  MaxRequests  \* requests served

(* Code 0 stands for what lua_tonumber finds no number in; `entries` are   *)
(* the pairs of a headers table, none if the field is no table.            *)
Entry  == [key : {"text", "content-type", "number", "other"}, val : {"text", "number", "other"}]
Fields == [code : Int, entries : SUBSET Entry, content : {"text", "number", "other"}]
Absent == [code |-> 0, entries |-> {}, content |-> "other"]
Fresh  == [code |-> 200, entries |-> {}, content |-> "text"]

ASSUME TargetsAssumption ==
  \A t \in Targets : DOMAIN t = {"path", "ask", "params"} /\ t.ask \in BOOLEAN
ASSUME WritesAssumption == Writes \subseteq Fields
ASSUME FailuresAssumption == Failures \subseteq {"text", "table", "plain"}
ASSUME MaxRequestsAssumption == MaxRequests \in Nat

VARIABLES
  pc,        \* where the thread is in app_run or handle_request
  callback,  \* g_http_callback: a reference was taken
  stack,     \* the Lua stack
  tables,    \* the fields of the tables made for the current request
  todo,      \* the entries lua_next has not come to yet
  reply,     \* the http_response_s that is being filled
  target,    \* the target of the current request
  file,      \* where the files are, and what the last look at them gave
  given,     \* the path and the parameters its callback is given
  asked,     \* requests so far
  failed,    \* failed callbacks that were survived
  outcome,   \* how the last callback ended, and with what fields
  answer     \* the last answer: where it came from, and the reply

vars == <<pc, callback, stack, tables, todo, reply, target, file, given, asked, failed,
          outcome, answer>>

-----------------------------------------------------------------------------
(* The Lua stack.                                                          *)

Object(type) == [is |-> type, k |-> asked]
At(i)        == stack[Len(stack) + 1 + i]
Pop(n)       == SubSeq(stack, 1, Len(stack) - n)
FieldsOf(o)  == IF o.k = asked THEN tables[o.is] ELSE Absent

(* A pointer that C keeps: to a literal, to a string that a table holds,   *)
(* or to one that lua_tostring has just made out of a number.              *)
Literal      == [to |-> "literal", live |-> TRUE]
Pointer(v)   == IF v = "other" THEN Literal
                ELSE [to |-> IF v = "number" THEN "converted" ELSE "held", live |-> TRUE]
EmptyReply   == [code |-> 200, headers |-> <<>>, body |-> Literal]

(* What the collector leaves of a pointer, the table it was read from      *)
(* being on the stack or not: a converted string is on no stack.           *)
Swept(p, held) ==
  [p EXCEPT !.live = @ /\ (p.to = "literal" \/ (p.to = "held" /\ held))]
SweptHeader(h, held) == [h EXCEPT !.key = Swept(@, held), !.val = Swept(@, held)]
SweptReply(r, held) ==
  [r EXCEPT !.body = Swept(@, held),
            !.headers = [i \in DOMAIN @ |-> SweptHeader(@[i], held)]]

(* An allocation: the collector runs or does not, s being the stack.  What *)
(* is held is held by the object that the reply is read from.              *)
AfterAlloc(r, s) ==
  LET source == Object(IF outcome.end = "done" THEN "response" ELSE "error")
  IN  {r, SweptReply(r, \E i \in DOMAIN s : s[i] = source)}

-----------------------------------------------------------------------------
(* What of a request goes where.                                           *)

(* What is looked up in the file system, and what Lua is given as path: it *)
(* is cut at a question mark only if something is in front of it.          *)
VfsPath(t) == [path |-> t.path, whole |-> FALSE]
LuaPath(t) == [path |-> t.path, whole |-> t.ask /\ t.path = ""]

(* luaapp_parse_query, into a table: of parameters with the same name the  *)
(* last one stays, and one without a value is dropped.                     *)
QueryParams(t) ==
  LET held == {i \in DOMAIN t.params : t.params[i].value # NoValue}
      last == {i \in held : \A j \in held : t.params[j].name = t.params[i].name => j <= i}
  IN  IF LuaPath(t).whole \/ ~t.ask THEN {} ELSE {t.params[i] : i \in last}

Init ==
  /\ pc = "lib" /\ callback = FALSE /\ stack = <<>>
  /\ tables = [t \in {"response", "request", "error"} |-> Absent]
  /\ todo = {} /\ reply = EmptyReply /\ target \in Targets
  /\ file \in [in : {"image", "disk"}, got : {"none"}]
  /\ given = [path |-> VfsPath(target), params |-> {}]
  /\ asked = 0 /\ failed = 0
  /\ outcome = [end |-> "none", fields |-> Absent]
  /\ answer = [of |-> "none", by |-> "none", reply |-> EmptyReply]

-----------------------------------------------------------------------------
(* app_run: the start.                                                     *)

serving == <<tables, todo, reply, target, file, given, asked, failed, outcome, answer>>

(* luaapp_runfile of /lib.lua, then of /main.lua.  A missing file pushes   *)
(* nothing; an error of the load or of the run is pushed and popped.       *)
RunFile ==
  /\ pc \in {"lib", "main"}
  /\ \E end \in {"missing", "error", "done"} :
       pc' = IF end # "done" THEN "exit" ELSE IF pc = "lib" THEN "main" ELSE "ref"
  /\ UNCHANGED <<callback, stack, serving>>

(* luaapp_refcallback: luaL_ref pops a function; anything else is popped.  *)
RefCallback ==
  /\ pc = "ref"
  /\ \E found \in BOOLEAN : callback' = found /\ pc' = IF found THEN "idle" ELSE "exit"
  /\ UNCHANGED <<stack, serving>>

-----------------------------------------------------------------------------
(* handle_request *)

(* vfs_get: a path that is in the table has its bytes, in the image always *)
(* and on disk if the file still opens.                                    *)
Lookup(path) ==
  IF path \notin Files THEN {"none"}
  ELSE IF file.in = "image" THEN {"data"} ELSE {"data", "unopened"}

(* Mutant of Request: the query is looked up with the path.                *)
RequestWithQuery(t) ==
  /\ pc = "idle" /\ asked < MaxRequests
  /\ target' = t /\ asked' = asked + 1
  /\ \E got \in IF t.ask THEN {"none"} ELSE Lookup(t.path) :
       /\ file' = [file EXCEPT !.got = got]
       /\ IF got = "data"
          THEN answer' = [of |-> "file", by |-> "none", reply |-> EmptyReply] /\ pc' = pc
          ELSE pc' = "push" /\ UNCHANGED answer
  /\ UNCHANGED <<callback, stack, tables, todo, reply, given, failed, outcome>>

(* A request: a file answers it, or Lua is asked, also when the file of    *)
(* the table could not be opened.                                          *)
Request(t) ==
  /\ pc = "idle" /\ asked < MaxRequests
  /\ target' = t /\ asked' = asked + 1
  /\ \E got \in Lookup(t.path) :
       /\ file' = [file EXCEPT !.got = got]
       /\ IF got = "data"
          THEN answer' = [of |-> "file", by |-> "none", reply |-> EmptyReply] /\ pc' = pc
          ELSE pc' = "push" /\ UNCHANGED answer
  /\ UNCHANGED <<callback, stack, tables, todo, reply, given, failed, outcome>>

(* luaapp_process_http up to the call: luaapp_push_response, the callback, *)
(* luaapp_push_request, and the response once more.                        *)
PushDupMinus2 ==  \* mutant: the index does not count the request
  /\ pc = "push" /\ pc' = "call"
  /\ LET s == stack \o <<Object("response"), Object("callback"), Object("request")>>
     IN  stack' = Append(s, s[Len(s) - 1])
  /\ tables' = [response |-> Fresh, request |-> Absent, error |-> Absent]
  /\ given' = [path |-> LuaPath(target), params |-> QueryParams(target)]
  /\ UNCHANGED <<callback, todo, reply, target, file, asked, failed, outcome, answer>>

Push ==
  /\ pc = "push" /\ pc' = "call"
  /\ LET s == stack \o <<Object("response"), Object("callback"), Object("request")>>
     IN  stack' = Append(s, s[Len(s) - 2])
  /\ tables' = [response |-> Fresh, request |-> Absent, error |-> Absent]
  /\ given' = [path |-> LuaPath(target), params |-> QueryParams(target)]
  /\ UNCHANGED <<callback, todo, reply, target, file, asked, failed, outcome, answer>>

(* lua_pcall, whose result nobody reads: the callback and its arguments    *)
(* are gone, and after an error its object is in their place.              *)
CallDone ==
  /\ pc = "call"
  /\ \E f \in Writes :
       /\ tables' = IF At(-1).is \in DOMAIN tables THEN [tables EXCEPT ![At(-1).is] = f] ELSE tables
       /\ outcome' = [end |-> "done", fields |-> f]
  /\ stack' = Pop(3) /\ pc' = "code" /\ reply' = EmptyReply
  /\ UNCHANGED <<callback, todo, target, file, given, asked, failed, answer>>

CallFails ==
  /\ pc = "call"
  /\ \E e \in Failures, f \in Writes :
       /\ e # "table" => f = Absent
       /\ tables' = [tables EXCEPT !["error"] = f]
       /\ outcome' = [end |-> e, fields |-> f]
  /\ stack' = Append(Pop(3), Object("error")) /\ pc' = "code" /\ reply' = EmptyReply
  /\ UNCHANGED <<callback, todo, target, file, given, asked, failed, answer>>

-----------------------------------------------------------------------------
(* luaapp_pop_response reads the value on top of the stack.  A text can be *)
(* indexed (by its metatable) and has no such fields; a plain value can    *)
(* not, and no protected call is active: lua_atpanic aborts the process.   *)

Abort ==
  /\ pc' = "abort"
  /\ UNCHANGED <<callback, stack, tables, todo, reply, target, file, given, asked, failed, outcome,
                 answer>>

CannotIndex == pc = "code" /\ At(-1).is = "error" /\ outcome.end = "plain" /\ Abort

StatusAsGiven(code) == code  \* mutant of Status: any number is taken

(* hs_response_set_status *)
Status(code) == IF code > 599 \/ code < 100 THEN 500 ELSE code

(* The code, then the headers: the table is pushed, and nil as first key.  *)
ReadCode ==
  /\ pc = "code" /\ ~(At(-1).is = "error" /\ outcome.end = "plain")
  /\ reply' = [reply EXCEPT !.code = Status(FieldsOf(At(-1)).code)]
  /\ todo' = FieldsOf(At(-1)).entries
  /\ stack' = stack \o <<Object("headers"), Object("key")>>
  /\ pc' = "next"
  /\ UNCHANGED <<callback, tables, target, file, given, asked, failed, outcome, answer>>

AddHeader(r, name, p, q) ==
  [r EXCEPT !.headers = Append(@, [name |-> name, key |-> p, val |-> q])]

(* Mutant of NextHeader: the value is not popped and is the next key.      *)
NextHeaderKeepsValue(e) ==
  /\ pc = "next" /\ e \in todo /\ e.key \in {"text", "content-type"}
  /\ reply' = AddHeader(reply, e.key, Pointer("text"), Pointer(e.val))
  /\ todo' = todo \ {e}
  /\ pc' = "abort"
  /\ UNCHANGED <<callback, stack, tables, target, file, given, asked, failed, outcome, answer>>

(* One round of lua_next with a text as key: the value is popped, and what *)
(* was popped is then made a string; a number is converted.                *)
NextHeader(e) ==
  /\ pc = "next" /\ e \in todo /\ e.key \in {"text", "content-type"}
  /\ LET r == AddHeader(reply, e.key, Pointer("text"), Pointer(e.val))
     IN  reply' \in IF e.val = "number" THEN AfterAlloc(r, stack) ELSE {r}
  /\ todo' = todo \ {e}
  /\ UNCHANGED <<pc, callback, stack, tables, target, file, given, asked, failed, outcome, answer>>

(* A number as key is converted in its place on the stack, and lua_next    *)
(* does not find that text in the table (no table has a number and its     *)
(* text as keys); of any other key strcasecmp is given a null pointer.     *)
BadKey(e) == pc = "next" /\ e \in todo /\ e.key \in {"number", "other"} /\ Abort

(* Mutant of HeadersEnd: the comparison of the names minds the case.       *)
HeadersEndDefault ==
  /\ pc = "next" /\ todo = {}
  /\ stack' = Pop(2) /\ pc' = "content"
  /\ reply' = AddHeader(reply, "content-type", Literal, Literal)
  /\ UNCHANGED <<callback, tables, todo, target, file, given, asked, failed, outcome, answer>>

(* The end of the table pops the key, and the table is popped.  Without a  *)
(* Content-Type, in any case of letters, it is text/plain.                 *)
HeadersEnd ==
  /\ pc = "next" /\ todo = {}
  /\ stack' = Pop(2) /\ pc' = "content"
  /\ LET typed == \E i \in DOMAIN reply.headers : reply.headers[i].name = "content-type"
     IN  reply' = IF typed THEN reply ELSE AddHeader(reply, "content-type", Literal, Literal)
  /\ UNCHANGED <<callback, tables, todo, target, file, given, asked, failed, outcome, answer>>

(* Mutants of ReadContent: the object is popped first; it is not popped.   *)
ReadContentPopsFirst ==
  /\ pc = "content" /\ stack' = Pop(1) /\ pc' = "idle"
  /\ \E r \in AfterAlloc([reply EXCEPT !.body = Pointer(FieldsOf(At(-1)).content)], stack') :
       answer' = [of |-> "lua", by |-> At(-1).is, reply |-> r]
  /\ failed' = IF outcome.end = "done" THEN failed ELSE failed + 1
  /\ UNCHANGED <<callback, tables, todo, reply, target, file, given, asked, outcome>>

ReadContentKeeps ==
  /\ pc = "content" /\ stack' = stack /\ pc' = "idle"
  /\ \E r \in AfterAlloc([reply EXCEPT !.body = Pointer(FieldsOf(At(-1)).content)], stack) :
       answer' = [of |-> "lua", by |-> At(-1).is, reply |-> r]
  /\ failed' = IF outcome.end = "done" THEN failed ELSE failed + 1
  /\ UNCHANGED <<callback, tables, todo, reply, target, file, given, asked, outcome>>

(* The content; the object on top is popped and the reply is serialised at *)
(* once, before anything else is allocated in Lua.                         *)
ReadContent ==
  /\ pc = "content" /\ stack' = Pop(1) /\ pc' = "idle"
  /\ \E r \in AfterAlloc([reply EXCEPT !.body = Pointer(FieldsOf(At(-1)).content)], stack) :
       answer' = [of |-> "lua", by |-> At(-1).is, reply |-> r]
  /\ failed' = IF outcome.end = "done" THEN failed ELSE failed + 1
  /\ UNCHANGED <<callback, tables, todo, reply, target, file, given, asked, outcome>>

-----------------------------------------------------------------------------
Serve ==
  \/ Push \/ CallDone \/ CallFails \/ CannotIndex \/ ReadCode \/ HeadersEnd \/ ReadContent
  \/ \E e \in Entry : NextHeader(e) \/ BadKey(e)

Next == RunFile \/ RefCallback \/ (\E t \in Targets : Request(t)) \/ Serve

Spec == Init /\ [][Next]_vars

(* The thread goes on with the request it has; callbacks end.              *)
FairSpec == Spec /\ WF_vars(Serve)

-----------------------------------------------------------------------------
Stages == {"lib", "main", "ref", "exit", "idle", "push", "call", "code", "next", "content",
           "abort"}
TableOf == {"response", "request", "error"}
Ptr == [to : {"literal", "held", "converted"}, live : BOOLEAN]
Reply == [code : 100..599, body : Ptr,
          headers : Seq([name : {"text", "content-type"}, key : Ptr, val : Ptr])]

(* The types of the variables.                                             *)
TypeOK ==
  /\ pc \in Stages /\ callback \in BOOLEAN
  /\ stack \in Seq([is : TableOf \cup {"callback", "headers", "key"}, k : 1..MaxRequests])
  /\ tables \in [TableOf -> Fields] /\ todo \subseteq Entry /\ reply \in Reply
  /\ file \in [in : {"image", "disk"}, got : {"none", "data", "unopened"}]
  /\ target \in Targets /\ \E t \in Targets : given.path \in {VfsPath(t), LuaPath(t)}
  /\ asked \in 0..MaxRequests /\ failed \in 0..asked
  /\ outcome \in [end : {"none", "done", "text", "table", "plain"}, fields : Fields]
  /\ answer \in [of : {"none", "file", "lua"}, by : TableOf \cup {"none"}, reply : Reply]

(* Between two requests the stack holds nothing but the response tables of *)
(* the callbacks that failed, one each and in their order: a request that  *)
(* succeeds leaves no trace, and a failed one what lua_pcall's unread      *)
(* result makes luaapp_pop_response leave behind.                          *)
StackAtRest ==
  pc = "idle" =>
    /\ Len(stack) = failed
    /\ \A i \in DOMAIN stack : /\ stack[i].is = "response" /\ stack[i].k <= asked
                                /\ i > 1 => stack[i - 1].k < stack[i].k

(* What is sent is what the callback of this very request left in the      *)
(* response it was given, or what its error object holds; the tables of    *)
(* earlier requests that are still on the stack are never read.            *)
AnswerIsOutcome ==
  pc = "idle" /\ answer.of = "lua" =>
    LET names(n) == {i \in DOMAIN answer.reply.headers : answer.reply.headers[i].name = n}
        keys(n)  == {e \in outcome.fields.entries : e.key = n}
    IN  /\ answer.by = IF outcome.end = "done" THEN "response" ELSE "error"
        /\ answer.reply.code = Status(outcome.fields.code)
        /\ answer.reply.body.to = Pointer(outcome.fields.content).to
        /\ Cardinality(names("text")) = Cardinality(keys("text"))

(* An answer has the Content-Type headers the callback set, else one.      *)
HasContentType ==
  pc = "idle" /\ answer.of = "lua" =>
    LET set  == {e \in outcome.fields.entries : e.key = "content-type"}
        sent == {i \in DOMAIN answer.reply.headers : answer.reply.headers[i].name = "content-type"}
    IN  Cardinality(sent) = IF set = {} THEN 1 ELSE Cardinality(set)

(* The texts of a reply, read through pointers into Lua and popped before  *)
(* they are used, are still there when the reply is serialised, whenever   *)
(* the collector runs.  Texts made out of numbers are excepted: nothing    *)
(* keeps those.                                                            *)
TextsAlive ==
  answer.of = "lua" =>
    /\ answer.reply.body.to = "held" => answer.reply.body.live
    /\ \A i \in DOMAIN answer.reply.headers :
         LET h == answer.reply.headers[i]
         IN  /\ h.key.to = "held" => h.key.live
             /\ h.val.to = "held" => h.val.live

(* The path a callback is given was looked up, and names no file but one   *)
(* on disk that no longer opened (vfs.c:77-81): the handler and            *)
(* luaapp_push_request cut the target at the same place, but for a target  *)
(* that begins with the question mark.                                     *)
LuaAfterFiles ==
  pc = "call" /\ target.path # "" =>
    /\ given.path = VfsPath(target)
    /\ target.path \in Files => file = [in |-> "disk", got |-> "unopened"]

(* A request is answered whenever its callback succeeds, or raises a text  *)
(* or a table, and the headers have texts as keys, whatever their values.  *)
TameIsAnswered ==
  /\ pc = "code" /\ outcome.end # "plain"
  /\ \A e \in outcome.fields.entries : e.key \in {"text", "content-type"}
  ~> pc = "idle"
=============================================================================
