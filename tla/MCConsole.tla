---------------------------- MODULE MCConsole ------------------------------
(***************************************************************************)
(* Two calls: Main collects an artifact, Other lists or queries.            *)
(***************************************************************************)
EXTENDS Console

CONSTANTS Main, Other

MCCalls == {Main, Other}
MCKinds == [k \in MCCalls |-> IF k = Main THEN {"collect"}
                              ELSE {"artifacts", "server", "malformed"}]

(* A quoted apostrophe after a backslash between parentheses, and a lone  *)
(* parenthesis: no call is found and the request is refused.               *)
MCArgs == [k \in MCCalls |->
             IF k = Main THEN {<<"(", Backslash, Apostrophe, ")">>, <<"(">>}
                         ELSE {<<"x", ",">>}]

MCMaxRows == [k \in MCCalls |-> 2]
MCMaxLogs == [k \in MCCalls |-> 2]
=============================================================================
