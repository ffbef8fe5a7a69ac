----------------------------- MODULE Responder -----------------------------
(***************************************************************************)
(* The serialisation of a response in src/httpserver.h: grwprintf_t, a     *)
(* buffer that is printed into, and the order of what is printed.  A piece *)
(* is a name and a length; the buffer holds of every byte which piece it   *)
(* is of, or "nul" for the end vsnprintf writes, or "junk" if nothing was  *)
(* written there.                                                          *)
(***************************************************************************)
EXTENDS Integers, Sequences, SequencesExt

CONSTANT ResponseBufSize  \* HTTP_RESPONSE_BUF_SIZE

Shorter(a, b) == IF a < b THEN a ELSE b
Copies(of, n) == [i \in 1..n |-> of]

(* What is in buf once text is written to it behind its first n bytes.     *)
Overlay(buf, n, text) ==
  SubSeq(buf, 1, n) \o text \o SubSeq(buf, n + Len(text) + 1, Len(buf))

(* _grwprintf_init: malloc, whose bytes are anything.                      *)
GrwInit == [buf |-> Copies("junk", ResponseBufSize), size |-> 0, overrun |-> FALSE]

(* vsnprintf with the room that is left: it writes what fits and an end,   *)
(* or nothing without room.  If size has passed the capacity, the room is  *)
(* negative and a huge size_t: what is written lies behind the buffer.     *)
Vsnprintf(out, piece) ==
  LET room == Len(out.buf) - out.size
      text == Copies(piece.of, Shorter(piece.len, room - 1)) \o <<"nul">>
  IN  IF room < 0 THEN [out EXCEPT !.overrun = TRUE]
      ELSE IF room = 0 THEN out
      ELSE [out EXCEPT !.buf = Overlay(@, out.size, text)]

(* Grown to hold n bytes, by doubling.                                     *)
Doubled(out, n) ==
  LET grown[c \in Nat] == IF c >= n THEN c ELSE grown[2 * c]
  IN  [out EXCEPT !.buf = @ \o Copies("junk", grown[Len(@)] - Len(@))]

(* _grwprintf: the lengths of both attempts are added to the size.  The    *)
(* second one takes its arguments from a va_list that the first has used   *)
(* up, and prints any text, here `again`; there are none in a blank line.  *)
GrwprintfCountsNul(again, out, piece) ==  \* mutant: the end is counted with the text
  LET need   == out.size + piece.len
      first  == Vsnprintf(out, piece)
      text   == IF piece.of = "blank" THEN piece ELSE again
      second == Vsnprintf(Doubled(first, need), text)
  IN  IF need > Len(out.buf) THEN [second EXCEPT !.size = need + text.len]
      ELSE [first EXCEPT !.size = need + 1]

Grwprintf(again, out, piece) ==
  LET need   == out.size + piece.len
      first  == Vsnprintf(out, piece)
      text   == IF piece.of = "blank" THEN piece ELSE again
      second == Vsnprintf(Doubled(first, need), text)
  IN  IF need > Len(out.buf) THEN [second EXCEPT !.size = need + text.len]
      ELSE [first EXCEPT !.size = need]

(* _grwmemcpy *)
Grwmemcpy(out, piece) ==
  LET need  == out.size + piece.len
      grown == IF need > Len(out.buf) THEN out.buf \o Copies("junk", need - Len(out.buf))
               ELSE out.buf
  IN  [out EXCEPT !.size = need, !.buf = Overlay(grown, out.size, Copies(piece.of, piece.len))]

(* _http_serialize_headers: each is one call of _grwprintf.  A header is   *)
(* put in front of the list, and Connection is the last one to be set.     *)
HeadPieces(response, connection) ==
  <<[of |-> "status", len |-> response.status], [of |-> "length", len |-> response.length],
    [of |-> connection, len |-> response.connection]>>
  \o Reverse(response.headers) \o <<[of |-> "blank", len |-> 1]>>
BodyPieces(response) == [i \in DOMAIN response.body |-> [of |-> "body", len |-> response.body[i]]]

(* hs_request_respond up to the write; a response has a body or has none.  *)
Serialize(response, connection, again) ==
  LET print(out, piece) == Grwprintf(again, out, piece)
  IN  FoldLeft(Grwmemcpy, FoldLeft(print, GrwInit, HeadPieces(response, connection)),
               BodyPieces(response))

(* What it should be: the pieces, one after the other.                     *)
Bytes(pieces) == FlattenSeq([i \in DOMAIN pieces |-> Copies(pieces[i].of, pieces[i].len)])
Exactly(response, connection) == Bytes(HeadPieces(response, connection) \o BodyPieces(response))

(* What hs_write_socket sends of it: size bytes, wherever the buffer ends. *)
SentBytes(out) == SubSeq(out.buf \o Copies("junk", out.size), 1, out.size)
=============================================================================
