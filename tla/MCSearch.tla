----------------------------- MODULE MCSearch ------------------------------
(***************************************************************************)
(* Search for TLC: a domain of sessions with two files and one of flat     *)
(* files with one, the words "a" and "b" and "A", a spelling of "a".       *)
(***************************************************************************)
EXTENDS Search

Line(r, ws) == [role |-> r, text |-> ws]

MCDomains == <<"sessions", "notifications">>
MCLayout == [d \in {"sessions", "notifications"} |-> IF d = "sessions" THEN "dirs" ELSE "files"]
MCDomainOf == <<"sessions", "sessions", "notifications">>
MCDateOf == <<1, 2, 1>>
MCLower(w) == IF w = "A" THEN "a" ELSE w

MCLines == {Line("user", <<>>), Line("user", <<"a">>), Line("assistant", <<"A", "b">>)}

Query(ws, any, exact, r, from) ==
    [words |-> ws, any |-> any, exact |-> exact, role |-> r, from |-> from, to |-> 2]

MCQueries == {
    Query(<<"a">>, TRUE, FALSE, "any", 1),
    Query(<<"b", "A">>, TRUE, FALSE, "any", 1),
    Query(<<"a", "b">>, FALSE, FALSE, "any", 1),
    Query(<<"A">>, TRUE, TRUE, "any", 1),
    Query(<<"a">>, TRUE, FALSE, "user", 2)}
=============================================================================
