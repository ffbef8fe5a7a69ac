---------------------------- MODULE MCHttpServer ----------------------------
(* Scripts of the clients for TLC.                                         *)
EXTENDS HttpServer, TLC

CONSTANTS c1, c2

Req(shape, ka, body, kind) == [shape |-> shape, ka |-> ka, head |-> 1, body |-> body, kind |-> kind]

(* A small body that may outgrow the first buffer, and then a close; a     *)
(* chunked body.                                                           *)
MixedScript == (c1 :> <<Req("a", TRUE, 3, "small"), Req("a", FALSE, 0, "none")>>)
            @@ (c2 :> <<Req("a", TRUE, 1, "stream")>>)

(* Well-formed requests one after the other, a small body at the end.      *)
PoliteScript == (c1 :> <<Req("a", TRUE, 0, "none"), Req("b", TRUE, 2, "small")>>)
             @@ (c2 :> <<Req("a", TRUE, 0, "none"), Req("a", FALSE, 0, "none")>>)

(* A refused head; a large answer to a client that may vanish.             *)
MuteScript == (c1 :> <<Req("a", TRUE, 0, "bad")>>) @@ (c2 :> <<Req("a", TRUE, 0, "none")>>)
=============================================================================
