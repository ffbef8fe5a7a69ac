------------------------------- MODULE MapSpec -------------------------------
(***************************************************************************)
(* What hashmap.h promises a caller: a map from keys to items.  A call is  *)
(* made, and later it returns with its effect and its answer: the item     *)
(* that was there before (NULL if none), or, from hashmap_set only, that   *)
(* memory ran out and nothing changed.                                     *)
(***************************************************************************)
CONSTANTS Keys, Vals, Null   \* Null is no member of Vals

VARIABLES
  store,    \* the map: what each key holds, Null if nothing
  call,     \* the call being made
  reply     \* the answer to the last call, and hashmap_oom's

mapVars == <<store, call, reply>>

NoCall == [op |-> "none", key |-> Null, val |-> Null]
Calls ==
  [op : {"set"}, key : Keys, val : Vals] \cup [op : {"get", "delete"}, key : Keys, val : {Null}]

Init ==
  /\ store = [k \in Keys |-> Null]
  /\ call = NoCall
  /\ reply = [oom |-> FALSE, item |-> Null]

(* hashmap_oom is about the last hashmap_set (hashmap.c:428).  It says     *)
(* nothing yet when a set begins, and a get leaves it alone.  A delete     *)
(* leaves it alone as well by that sentence, and clears it in the code     *)
(* (:370): so nothing is promised of it from a delete to the next set.     *)
OomAfter(c) ==
  CASE c.op = "set" -> {FALSE} [] c.op = "get" -> {reply.oom} [] OTHER -> BOOLEAN

Begin(c) ==
  /\ call = NoCall /\ call' = c
  /\ reply' \in [oom : OomAfter(c), item : {Null}]
  /\ UNCHANGED store

(* hashmap_set: an item replaced is returned; without memory nothing is.   *)
Set ==
  /\ call.op = "set" /\ call' = NoCall
  /\ \/ /\ store' = [store EXCEPT ![call.key] = call.val]
        /\ reply' = [oom |-> FALSE, item |-> store[call.key]]
     \/ /\ reply' = [oom |-> TRUE, item |-> Null]
        /\ UNCHANGED store

Get ==
  /\ call.op = "get" /\ call' = NoCall
  /\ reply' = [reply EXCEPT !.item = store[call.key]]
  /\ UNCHANGED store

(* hashmap_delete: shrinking may fail unnoticed, the removal may not.      *)
Delete ==
  /\ call.op = "delete" /\ call' = NoCall
  /\ store' = [store EXCEPT ![call.key] = Null]
  /\ reply' = [reply EXCEPT !.item = store[call.key]]

Clear ==
  /\ call = NoCall
  /\ store' = [k \in Keys |-> Null]
  /\ UNCHANGED <<call, reply>>

Next == (\E c \in Calls : Begin(c)) \/ Set \/ Get \/ Delete \/ Clear

Spec == Init /\ [][Next]_mapVars
=============================================================================
