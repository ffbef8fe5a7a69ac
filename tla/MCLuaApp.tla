------------------------------ MODULE MCLuaApp ------------------------------
(* What Lua programs do, for TLC.                                          *)
EXTENDS LuaApp, TLC

E(key, val) == [key |-> key, val |-> val]
F(code, entries, content) == [code |-> code, entries |-> entries, content |-> content]

(* The default; a code out of range with headers of all values; a content  *)
(* type twice; numbers that have to be converted; and keys that are none.  *)
SomeWrites ==
  { Absent, Fresh,
    F(404, {E("text", "text"), E("content-type", "number"), E("text", "other")}, "text"),
    F(700, {E("content-type", "text"), E("content-type", "number")}, "number"),
    F(0, {E("text", "number"), E("number", "text")}, "text"),
    F(599, {E("other", "text"), E("text", "text")}, "other") }

P(name, value) == [name |-> name, value |-> value]

(* A file, with a query and without; a page with a name given twice and    *)
(* one without a value; a target that begins with the question mark.       *)
SomeTargets ==
  { [path |-> "file", ask |-> FALSE, params |-> <<>>],
    [path |-> "file", ask |-> TRUE,  params |-> <<P("a", "1")>>],
    [path |-> "page", ask |-> TRUE,  params |-> <<P("a", "1"), P("b", NoValue), P("a", "2")>>],
    [path |-> "",     ask |-> TRUE,  params |-> <<P("a", "1")>>] }
=============================================================================
