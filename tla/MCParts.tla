------------------------------- MODULE MCParts -------------------------------
(* A small instance of Parts for TLC; works and requests are those of       *)
(* MCWorksAndRequests.                                                      *)
EXTENDS Parts

INSTANCE MCWorksAndRequests

MCLists == {<<1, 2, 1>>, <<1>>}
MCSaved == {[ok |-> 1, fail |-> 0, until |-> 0], [ok |-> 4, fail |-> 3, until |-> 99],
            [ok |-> 5, fail |-> 0, until |-> 0], [ok |-> 0, fail |-> 6, until |-> 8],
            [ok |-> 99, fail |-> 3, until |-> 5]}
=============================================================================
