----------------------------- MODULE MCGateway -----------------------------
(* Instances of Gateway: the kinds of the updates that arrive, in order.    *)
EXTENDS Gateway

TwoTexts == <<"text", "other", "text">>
=============================================================================
