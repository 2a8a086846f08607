------------------------- MODULE MCResponseWriters -------------------------
(* A small instance of ResponseWriters for TLC: every status the wrappers   *)
(* tell apart, and policies in every order that applyHeaders tells apart.   *)
EXTENDS ResponseWriters

MCCodes        == {200, 403, 406, 404}
MCUpstreamCSPs == {<<>>, <<"sandbox">>, <<"other">>, <<"other", "sandbox">>,
                   <<"other", "other">>}
MCRefusals     == {403, 413, 429}
MCDenials      == {403, 406, 413}
=============================================================================
