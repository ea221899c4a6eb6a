--------------------------- MODULE MCStatusCollect ---------------------------
EXTENDS StatusCollect

MCNameOf == [a |-> <<"a">>, b |-> <<"b">>, c |-> <<"b", "a">>]
MCNetworks == <<{"b", "c"}, {"c"}>>
MCNumRows == [a |-> 3, b |-> 1, c |-> 2]
=============================================================================
