----------------------------- MODULE MCTgGateway -----------------------------
(* A small instance of TgGateway for TLC.                                   *)
EXTENDS TgGateway, TLC

CONSTANTS a, b

Texts(first, second) == [c \in {a, b} |-> IF c = a THEN first ELSE second]

\* Enough to go round the ring, to fill the queue, to clog the gateway, and for
\* the numbers of two bots to meet.
Traffic == {
  Texts(<<"file", "file">>, <<>>),
  Texts(<<"text", "text", "text">>, <<>>),
  Texts(<<"other", "text">>, <<>>),
  Texts(<<"other", "other", "text">>, <<>>),
  Texts(<<"text">>, <<"text">>)}
=============================================================================
