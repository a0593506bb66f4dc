------------------------------- MODULE Headers -------------------------------
(***************************************************************************)
(* The two header values the server interprets once a request is framed:   *)
(* Connection (Request::wants_keep_alive) and Host (is_valid_host), as a   *)
(* client writes them, character by character and header by header.        *)
(***************************************************************************)
EXTENDS Router

CONSTANTS
  HeaderNames,  \* of the headers written
  Characters,   \* of their values
  MaxHeaders,   \* how many headers
  MaxLength     \* how many characters in all of them

VARIABLE request

Written == FlattenSeq([i \in DOMAIN request.headers |-> request.headers[i].value])

Init ==
  \E v \in {"1.0", "1.1"} :
    request = [version |-> v, method |-> Get, target |-> <<47>>, headers |-> <<>>]

BeginHeader ==
  /\ Len(request.headers) < MaxHeaders
  /\ \E n \in HeaderNames :
       request' = [request EXCEPT !.headers = Append(@, [name |-> n, value |-> <<>>])]

WriteCharacter ==
  /\ request.headers # <<>>
  /\ Len(Written) < MaxLength
  /\ \E c \in Characters :
       request' = [request EXCEPT !.headers[Len(request.headers)].value = Append(@, c)]

Sent ==
  /\ Len(request.headers) = MaxHeaders
  /\ Len(Written) = MaxLength
  /\ UNCHANGED request

Next == BeginHeader \/ WriteCharacter \/ Sent

Spec == Init /\ [][Next]_request

-----------------------------------------------------------------------------
\* One Connection header that lists what all of them list.
JoinedValue ==
  LET values == ValuesOf(request, "Connection")
  IN  FlattenSeq([i \in DOMAIN values |-> values[i] \o <<Comma>>])

\* The word stands alone between two commas, or a comma and an end.
IsListed(list, word) ==
  \E i \in DOMAIN list :
    /\ list[i] = word
    /\ \E l \in 0 .. i - 1 : (l = 0 \/ list[l] = Comma) /\ \A k \in l + 1 .. i - 1 : list[k] = Space
    /\ \E r \in i + 1 .. Len(list) : list[r] = Comma /\ \A k \in i + 1 .. r - 1 : list[k] = Space

\* wants_keep_alive follows the rule of request.hpp on the list that all the
\* Connection headers form together, however it is spread over them: close
\* wins over keep-alive wherever either stands, and HTTP/1.0 must ask to stay.
KeepAliveFollowsList ==
  WantsKeepAlive(request) <=>
    /\ ~ IsListed(JoinedValue, CloseWord)
    /\ request.version = "1.1" \/ IsListed(JoinedValue, KeepAliveWord)

\* name or [address], then nothing or a colon and digits
IsHost(host) ==
  \E i \in 1 .. Len(host) :
    LET name == SubSeq(host, 1, i)
        port == SubSeq(host, i + 1, Len(host))
    IN  /\ port = <<>> \/ (Head(port) = Colon /\ ToSet(Tail(port)) \subseteq Digit)
        /\ \/ ToSet(name) \subseteq NameCharacters
           \/ /\ Len(name) > 2 /\ Head(name) = 91 /\ Last(name) = 93
              /\ ToSet(SubSeq(name, 2, i - 1)) \subseteq LiteralCharacters

\* is_valid_host accepts exactly uri-host [":" port] in the simplified form its
\* comment gives, wherever brackets and colons are missing, doubled or last.
HostFollowsGrammar ==
  \A h \in ToSet(ValuesOf(request, "Host")) : IsValidHost(h) <=> IsHost(h)

=============================================================================
