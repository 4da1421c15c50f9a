------------------------------ MODULE Matcher -------------------------------
(***************************************************************************)
(* How a request is matched to a route of its project: the expansion of    *)
(* endpoint rows into routes, the trie they are inserted into one by one,  *)
(* and the search of it (internal/mock).  A path is its sequence of        *)
(* segments, split and decoded; a row's place in Rows is its place in the  *)
(* order of the query, path_pattern then method.                           *)
(***************************************************************************)
EXTENDS Naturals, Sequences, FiniteSets, SequencesExt

CONSTANTS
    Rows,           \* the rows the database may hold, in the query's order:
                    \* records of method, path and kind
    Segments,       \* what a pattern or a path has between its slashes
    Params,         \* the segments that are parameters in a pattern
    Param,          \* how the trie marks a parameter, whatever its name: the
                    \* one child of a node that is under no segment
    Methods,        \* the methods requests are made with
    Paths           \* the paths they are made to

MethodAny == "*"    \* core.MethodAny

NoRoute == [method |-> "none", path |-> <<>>, row |-> 0]

DocumentParam == "{id}"

(* A collection row is one route for each: its verb, and whether it is     *)
(* about one document or about the collection.                             *)
CollectionOps ==
    <<<<"GET", FALSE>>, <<"POST", FALSE>>,
      <<"GET", TRUE>>, <<"PUT", TRUE>>, <<"PATCH", TRUE>>, <<"DELETE", TRUE>>>>

ASSUME SegmentsAssumption ==
    /\ DocumentParam \in Params
    /\ Params \subseteq Segments
    /\ Param \notin Segments

ASSUME MethodsAssumption ==
    {"GET", "HEAD", "POST", "PUT", "PATCH", "DELETE"} \subseteq Methods

ASSUME RowsAssumption ==
    Rows \in Seq([kind   : {"static", "collection"},
                  method : Methods \union {MethodAny},
                  path   : Seq(Segments)])

ASSUME PathsAssumption == Paths \subseteq Seq(Segments)
-----------------------------------------------------------------------------
VARIABLES
    read,           \* the rows BuildTable has been through
    trie,           \* the routes ending at each node, by method
    refs            \* the routes inserted, whether they serve or not

matcherVars == <<read, trie, refs>>

IsParam(segment) == segment \in Params

(* The node a pattern ends at: parameters share one child, whatever their  *)
(* names.                                                                  *)
Shape(path) == [i \in DOMAIN path |-> IF IsParam(path[i]) THEN Param ELSE path[i]]

(* expand: a row is one route, a collection row six.                       *)
Expand(i) ==
    LET row == Rows[i]
    IN  IF row.kind = "static"
        THEN <<[method |-> row.method, path |-> row.path, row |-> i]>>
        ELSE [n \in DOMAIN CollectionOps |->
                [method |-> CollectionOps[n][1],
                 path   |-> IF CollectionOps[n][2]
                            THEN Append(row.path, DocumentParam) ELSE row.path,
                 row    |-> i]]
-----------------------------------------------------------------------------
(* insert: the nodes down to the pattern's own come to be, and the first   *)
(* route of a method at a node stays.                                      *)
NodesDownTo(shape) == Prefixes(shape)

RoutesAt(t, node) == IF node \in DOMAIN t THEN t[node] ELSE <<>>

LastWins(here, route) ==
    [m \in DOMAIN here \union {route.method} |-> IF m = route.method THEN route ELSE here[m]]
FirstWins(here, route) ==
    [m \in DOMAIN here \union {route.method} |-> IF m \in DOMAIN here THEN here[m] ELSE route]

Insert(t, route) ==
    LET shape == Shape(route.path)
    IN  [node \in DOMAIN t \union NodesDownTo(shape) |->
            IF node = shape THEN FirstWins(RoutesAt(t, node), route) ELSE RoutesAt(t, node)]

Inserted(t, routes) ==
    LET after[n \in 0..Len(routes)] ==
            IF n = 0 THEN t ELSE Insert(after[n - 1], routes[n])
    IN  after[Len(routes)]

(* pick: the exact verb, the wildcard, and for HEAD the GET route.         *)
Pick(routes, method) ==
    IF method \in DOMAIN routes THEN routes[method]
    ELSE IF MethodAny \in DOMAIN routes THEN routes[MethodAny]
    ELSE IF method = "HEAD" /\ "GET" \in DOMAIN routes THEN routes["GET"]
    ELSE NoRoute

Miss == [route |-> NoRoute, values |-> <<>>, allow |-> {}]

ArriveAt(routes, method) ==
    LET route == Pick(routes, method)
    IN  IF route # NoRoute THEN [route |-> route, values |-> <<>>, allow |-> {}]
        ELSE [route |-> NoRoute, values |-> <<>>, allow |-> DOMAIN routes]

(* walk: the literal child first, and the parameter's when no route below  *)
(* the literal answers.  What is found below a parameter's node has the    *)
(* segment before its own values.                                          *)
Bound(segment, found) ==
    [route |-> found.route, values |-> <<segment>> \o found.values, allow |-> found.allow]

Committed(literal, param) == IF literal = Miss THEN param ELSE literal

InTurn(literal, param) ==
    IF literal.route # NoRoute THEN literal
    ELSE [route |-> param.route, values |-> param.values,
          allow |-> literal.allow \union param.allow]

Below(t, walk, node) == IF node \in DOMAIN t THEN walk[node] ELSE Miss

Visit(t, path, method, walk, node) ==
    IF Len(node) = Len(path) THEN ArriveAt(t[node], method)
    ELSE LET segment == path[Len(node) + 1]
         IN  InTurn(Below(t, walk, Append(node, segment)),
                    Bound(segment, Below(t, walk, Append(node, Param))))

WithinReach(t, path) == {node \in DOMAIN t : Len(node) <= Len(path)}

Search(t, path, method) ==
    LET walk[node \in WithinReach(t, path)] == Visit(t, path, method, walk, node)
    IN  walk[<<>>]

(* HEAD is allowed wherever GET is, since Pick answers it.                 *)
AllowedAsFound(found) == found
AllowedVerbs(found) == found \union (IF "GET" \in found THEN {"HEAD"} ELSE {})

LookupIn(t, method, path) ==
    LET search == Search(t, path, method)
    IN  IF search.route # NoRoute
        THEN [outcome |-> "matched", route |-> search.route, values |-> search.values,
              allow |-> {}]
        ELSE [outcome |-> IF search.allow = {} THEN "no route" ELSE "wrong method",
              route |-> NoRoute, values |-> <<>>, allow |-> AllowedVerbs(search.allow)]

Lookup(method, path) == LookupIn(trie, method, path)
-----------------------------------------------------------------------------
EmptyTrie == [node \in {<<>>} |-> <<>>]

MatcherInit ==
    /\ read = {}
    /\ trie = EmptyTrie
    /\ refs = {}

(* BuildTable takes the rows there are in their order.                     *)
AddRow(i) ==
    /\ \A j \in read : j < i
    /\ read' = read \union {i}
    /\ trie' = Inserted(trie, Expand(i))
    /\ refs' = refs \union ToSet(Expand(i))

MatcherNext == \E i \in DOMAIN Rows : AddRow(i)

MatcherSpec == MatcherInit /\ [][MatcherNext]_matcherVars
-----------------------------------------------------------------------------
(* The trie after BuildTable's rows: its nodes are the beginnings of the   *)
(* patterns read, at a node are only routes whose pattern it is and that   *)
(* are served by no other verb, and there is one for every route read, of  *)
(* that row or of one before it.                                           *)
MatcherTypeOK ==
    /\ read \in SUBSET DOMAIN Rows
    /\ refs = UNION {ToSet(Expand(i)) : i \in read}

NodesArePatterns ==
    DOMAIN trie = {<<>>} \union UNION {Prefixes(Shape(r.path)) : r \in refs}

RoutesAreTheirNodes ==
    \A node \in DOMAIN trie : \A m \in DOMAIN trie[node] :
        /\ trie[node][m] \in refs
        /\ trie[node][m].method = m
        /\ Shape(trie[node][m].path) = node

FirstIsServed ==
    \A r \in refs :
        /\ r.method \in DOMAIN trie[Shape(r.path)]
        /\ trie[Shape(r.path)][r.method].row <= r.row

MatcherIInv ==
    /\ MatcherTypeOK
    /\ NodesArePatterns
    /\ RoutesAreTheirNodes
    /\ FirstIsServed

(* What the search is for, said without a trie: among the routes whose     *)
(* pattern fits the path and whose verb fits the method, the one whose     *)
(* pattern is literal at the first segment where they differ, then the     *)
(* one with the better verb, then the one whose row came first.            *)
Fits(route, path) ==
    /\ Len(route.path) = Len(path)
    /\ \A i \in DOMAIN path : IsParam(route.path[i]) \/ route.path[i] = path[i]

Rank(route, method) ==
    IF route.method = method THEN 1
    ELSE IF route.method = MethodAny THEN 2
    ELSE IF method = "HEAD" /\ route.method = "GET" THEN 3
    ELSE 4

MoreLiteral(r, s) ==
    \E i \in DOMAIN r.path :
        /\ ~IsParam(r.path[i]) /\ IsParam(s.path[i])
        /\ \A j \in 1..(i - 1) : IsParam(r.path[j]) <=> IsParam(s.path[j])

Precedes(r, s, method) ==
    \/ MoreLiteral(r, s)
    \/ /\ ~MoreLiteral(s, r)
       /\ \/ Rank(r, method) < Rank(s, method)
          \/ Rank(r, method) = Rank(s, method) /\ r.row < s.row

Fitting(path) == {r \in refs : Fits(r, path)}

Answering(method, path) == {r \in Fitting(path) : Rank(r, method) < 4}

(* Where a route has parameters, of the segments from one to another.      *)
ParamPlaces(route, from, to) == {i \in from..to : IsParam(route.path[i])}

(* The trie answers what that says, with a value for each parameter in its *)
(* turn, the segment that stands there, and a path no route answers gets   *)
(* the verbs of every pattern that fits it, or none.  An empty table,      *)
(* which answers nothing, is left out.                                     *)
LookupIsPrecedence ==
    read # {} => \A method \in Methods, path \in Paths :
        LET answer == Lookup(method, path)
            answering == Answering(method, path)
        IN  IF answering = {}
            THEN /\ answer.outcome # "matched"
                 /\ answer.outcome = "no route" <=> Fitting(path) = {}
            ELSE /\ answer.route \in answering
                 /\ \A s \in answering \ {answer.route} : Precedes(answer.route, s, method)
                 /\ Len(answer.values) = Cardinality(ParamPlaces(answer.route, 1, Len(path)))
                 /\ \A i \in ParamPlaces(answer.route, 1, Len(path)) :
                       answer.values[Cardinality(ParamPlaces(answer.route, 1, i))] = path[i]

(* "The header has to describe what the server will actually do"           *)
(* (allowed): the verbs a 405 lists are those the same path answers.       *)
AllowIsTruthful ==
    read # {} => \A path \in Paths :
        LET answered == {m \in Methods : Lookup(m, path).outcome = "matched"}
        IN  \A method \in Methods :
                LET answer == Lookup(method, path)
                IN  answer.outcome = "wrong method" => answer.allow = answered

(* Adding a row never takes an answer away: what matched still matches,    *)
(* and by the same route unless a more literal pattern, or a better verb,  *)
(* was added.                                                              *)
AddingKeepsAnswers ==
    [][read # {} => \A method \in Methods, path \in Paths :
          LET before == Lookup(method, path)
              after  == LookupIn(trie', method, path)
          IN  before.outcome = "matched" =>
                  /\ after.outcome = "matched"
                  /\ \/ after.route = before.route
                     \/ /\ after.route \in refs' \ refs
                        /\ Precedes(after.route, before.route, method)]_matcherVars
=============================================================================
