----------------------------- MODULE MCSelfPack ------------------------------
(* Two files, one of them needed at startup, with short and long contents. *)
EXTENDS SelfPack, TLC

CONSTANTS main, page, short, long

Lengths == (main :> 1) @@ (page :> 2)
Sizes == (short :> 0) @@ (long :> 3)
Start == <<main>>
=============================================================================
