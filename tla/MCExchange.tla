----------------------------- MODULE MCExchange -----------------------------
EXTENDS Exchange

H(key, val) == [key |-> key, val |-> val]
Req(method, target, version, headers, body) ==
  [method |-> method, target |-> target, version |-> version, headers |-> headers, body |-> body]
Get(version, headers, body) == Req(<<"a">>, <<"/">>, version, headers, body)
Rep(s, n) == [i \in 1..n |-> s]

A        == H(<<"a">>, <<"a">>)
Length(v) == H(<<"Content-Length">>, v)
Conn(v)  == H(<<"Connection">>, v)

MCLimit ==
  [METHOD |-> 2, TARGET |-> 3, VERSION |-> 1, HEADER_KEY |-> 2, HEADER_VALUE |-> 3]

MCRequests ==
  { Get("HTTP/1.1", <<A>>, <<>>), Get("HTTP/1.0", <<A>>, <<>>),
    Get("HTTP/1.1", <<>>, <<>>),
    Get("HTTP/1.1", <<H(<<"a">>, <<"sp", "a", "sp">>), H(<<"a", "2">>, <<>>)>>, <<>>),
    Get("HTTP/1.1", <<H(<<"a", "/">>, <<"a">>)>>, <<>>),
    Get("HTTP/1.1", <<Conn(<<"close">>)>>, <<>>),
    Get("HTTP/1.0", <<Conn(<<"a">>), Conn(<<"close">>)>>, <<>>),
    Get("HTTP/1.1", <<Conn(<<>>)>>, <<>>),
    Get("HTTP/1.1", <<Length(<<"9">>)>>, Rep("a", 9)),
    Get("HTTP/1.1", <<Length(<<"2">>), Length(<<"2">>)>>, Rep("a", 2)),
    Get("HTTP/1.1", <<Length(<<"9", "9">>)>>, Rep("a", 2)),
    Get("HTTP/1.1", <<H(<<"Transfer-Encoding">>, <<"chunked">>)>>, <<"2">>),
    Req(<<"a", "a", "a">>, <<"/">>, "HTTP/1.1", <<A>>, <<>>),
    Req(<<"a">>, <<"/", "a", "a", "a", "a">>, "HTTP/1.1", <<H(<<"a">>, <<"a", "a", "a">>)>>, <<>>),
    Get("HTTP/1.1", [i \in 1..5 |-> A], <<>>) }

(* Heads of 12, 13 and 14 bytes, 12 being the first size of the buffer.    *)
LongResponses ==
  { [status |-> 3, length |-> 2, connection |-> 2, headers |-> <<[of |-> "h1", len |-> n]>>,
     body |-> b] : n \in 4..6, b \in { <<>>, <<6>> } }
MCResponses ==
  { [status |-> 3, length |-> 2, connection |-> 2, headers |-> h, body |-> b] :
      h \in { <<>>, <<[of |-> "h1", len |-> 1]>>,
              <<[of |-> "h1", len |-> 1], [of |-> "h2", len |-> 2]>> },
      b \in { <<>>, <<0>>, <<6>> } }
  \cup LongResponses
OneRequest == { Get("HTTP/1.1", <<A>>, <<>>) }
=============================================================================
