----------------------------- MODULE MCMatcher ------------------------------
(***************************************************************************)
(* A small instance of Matcher for TLC: rows that shadow one another,      *)
(* that share a node under different names, whose literal branch is a      *)
(* dead end, and collections above and below other patterns.               *)
(***************************************************************************)
EXTENDS Matcher

Static(method, path) == [method |-> method, path |-> path, kind |-> "static"]
CollectionRow(path) == [method |-> MethodAny, path |-> path, kind |-> "collection"]

MCRows ==
    << Static("GET",    <<>>),
       CollectionRow(<<"a">>),
       Static("POST",   <<"a">>),
       Static("GET",    <<"a", "b">>),
       Static("GET",    <<"a", "b", "c">>),
       Static("DELETE", <<"a", "{x}">>),
       Static("*",      <<"{x}">>),
       Static("PUT",    <<"{x}", "a">>),
       Static("HEAD",   <<"{x}", "b">>),
       Static("POST",   <<"{x}", "b", "a">>),
       CollectionRow(<<"{y}">>),
       Static("GET",    <<"{y}", "{z}">>) >>

MCParams == {"{id}", "{x}", "{y}", "{z}"}
MCMethods == {"GET", "HEAD", "POST", "PUT", "PATCH", "DELETE"}

MCSegments == MCParams \union {"a", "b", "c"}
MCPaths ==
    UNION {[1..n -> {"a", "b", "c"}] : n \in 0..2}
        \union {<<"a", "b", "a">>, <<"a", "b", "c">>, <<"{x}">>, <<"{z}", "b">>}
=============================================================================
