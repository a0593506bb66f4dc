---------------------------- MODULE MCConnection ----------------------------
(* Requests for model checking Connection.                                  *)
EXTENDS Connection

Req(head, body, valid, keepAlive, method, throws) ==
  [head |-> head, body |-> body, valid |-> valid, keepAlive |-> keepAlive,
   method |-> method, throws |-> throws]

Get   == Req(2, 0, TRUE, TRUE, "GET", FALSE)
HeadR == Req(1, 0, TRUE, TRUE, "HEAD", FALSE)
Post  == Req(2, 1, TRUE, TRUE, "GET", FALSE)
Close == Req(1, 0, TRUE, FALSE, "GET", FALSE)
Throw == Req(1, 0, TRUE, TRUE, "GET", TRUE)
Bad   == Req(1, 1, FALSE, TRUE, "GET", FALSE)
Huge  == Req(3, 0, TRUE, TRUE, "GET", FALSE)

WellFormedRequests == {Get, HeadR, Post, Close}
PipeliningRequests == WellFormedRequests \cup {Huge}
ClosingRequests == {Post, Throw, Bad, Huge}

=============================================================================
