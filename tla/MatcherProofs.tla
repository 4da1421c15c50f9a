--------------------------- MODULE MatcherProofs ----------------------------
(***************************************************************************)
(* Proofs about Matcher, for any rows, any methods and any paths: what     *)
(* the trie holds after the rows read, and that the search of it answers   *)
(* by precedence, whatever the request.                                    *)
(***************************************************************************)
EXTENDS Matcher, FiniteSetTheorems, SequenceTheorems, WellFoundedInduction, TLAPS

(* A set of natural numbers that is not empty has a least one.             *)
LEMMA LeastOf ==
    ASSUME NEW T, T \subseteq Nat, T # {}
    PROVE  \E m \in T : \A n \in T : m <= n
<1> DEFINE R == OpToRel(<, Nat)
<1>1. IsWellFoundedOn(R, Nat)
    BY NatLessThanWellFounded
<1>2. \A x, y \in Nat : <<x, y>> \in R <=> x < y
    BY DEF OpToRel
<1> HIDE DEF R
<1>3. PICK m \in T : \A n \in T : ~(<<n, m>> \in R)
    BY <1>1, WFMin
<1>4. \A n \in T : ~(n < m)
    BY <1>2, <1>3, Zenon
<1> QED
    BY <1>4
-----------------------------------------------------------------------------
(* Patterns and routes.                                                    *)
Edges == Segments \union {Param}

Route == [method : Methods \union {MethodAny}, path : Seq(Segments), row : DOMAIN Rows]

LEMMA RowsAreTyped ==
    ASSUME NEW i \in DOMAIN Rows
    PROVE  /\ i \in Nat \ {0}
           /\ Rows[i].kind \in {"static", "collection"}
           /\ Rows[i].method \in Methods \union {MethodAny}
           /\ Rows[i].path \in Seq(Segments)
<1>1. DOMAIN Rows = 1..Len(Rows) /\ Len(Rows) \in Nat
    BY RowsAssumption, LenProperties
<1>2. Rows[i] \in [kind   : {"static", "collection"},
                  method : Methods \union {MethodAny},
                  path   : Seq(Segments)]
    BY <1>1, RowsAssumption, ElementOfSeq
<1> QED
    BY <1>1, <1>2

LEMMA OpsAreTyped ==
    /\ DOMAIN CollectionOps = 1..6
    /\ \A n \in 1..6 : CollectionOps[n][1] \in Methods /\ CollectionOps[n][2] \in BOOLEAN
    /\ \A n, k \in 1..6 :
          CollectionOps[n][1] = CollectionOps[k][1] /\ CollectionOps[n][2] = CollectionOps[k][2]
            => n = k
<1>1. DOMAIN CollectionOps = 1..6
    BY DEF CollectionOps
<1>2. \A n \in 1..6 : n = 1 \/ n = 2 \/ n = 3 \/ n = 4 \/ n = 5 \/ n = 6
    OBVIOUS
<1>3. /\ CollectionOps[1][1] = "GET"    /\ CollectionOps[1][2] = FALSE
      /\ CollectionOps[2][1] = "POST"   /\ CollectionOps[2][2] = FALSE
      /\ CollectionOps[3][1] = "GET"    /\ CollectionOps[3][2] = TRUE
      /\ CollectionOps[4][1] = "PUT"    /\ CollectionOps[4][2] = TRUE
      /\ CollectionOps[5][1] = "PATCH"  /\ CollectionOps[5][2] = TRUE
      /\ CollectionOps[6][1] = "DELETE" /\ CollectionOps[6][2] = TRUE
    BY DEF CollectionOps
<1> HIDE DEF CollectionOps
<1>4. \A n \in 1..6 : CollectionOps[n][1] \in Methods /\ CollectionOps[n][2] \in BOOLEAN
    BY <1>2, <1>3, MethodsAssumption
<1>5. \A n, k \in 1..6 :
          CollectionOps[n][1] = CollectionOps[k][1] /\ CollectionOps[n][2] = CollectionOps[k][2]
            => n = k
    BY <1>2, <1>3
<1> QED
    BY <1>1, <1>4, <1>5

LEMMA ExpandIsTyped ==
    ASSUME NEW i \in DOMAIN Rows
    PROVE  /\ Expand(i) \in Seq(Route)
           /\ \A n \in DOMAIN Expand(i) : Expand(i)[n].row = i
<1>1. CASE Rows[i].kind = "static"
    BY <1>1, RowsAreTyped DEF Expand, Route
<1>2. CASE Rows[i].kind # "static"
    <2> DEFINE op(n) == [method |-> CollectionOps[n][1],
                         path   |-> IF CollectionOps[n][2]
                                    THEN Append(Rows[i].path, DocumentParam) ELSE Rows[i].path,
                         row    |-> i]
    <2>1. Expand(i) = [n \in 1..6 |-> op(n)]
        BY <1>2, OpsAreTyped DEF Expand
    <2>2. Rows[i].path \in Seq(Segments) /\ Append(Rows[i].path, DocumentParam) \in Seq(Segments)
        BY RowsAreTyped, SegmentsAssumption, AppendProperties
    <2>3. \A n \in 1..6 : op(n) \in Route /\ op(n).row = i
        BY <2>2, OpsAreTyped DEF Route
    <2> HIDE DEF op
    <2>4. Expand(i) \in [1..6 -> Route]
        BY <2>1, <2>3
    <2> QED
        BY <2>1, <2>3, <2>4
<1> QED
    BY <1>1, <1>2

(* Of one row, two routes have different verbs or lengths.                 *)
LEMMA RoutesDiffer ==
    ASSUME NEW i \in DOMAIN Rows, NEW r \in ToSet(Expand(i)), NEW s \in ToSet(Expand(i)),
           r.method = s.method, Len(r.path) = Len(s.path)
    PROVE  r = s
<1>1. CASE Rows[i].kind = "static"
    BY <1>1 DEF Expand, ToSet
<1>2. CASE Rows[i].kind # "static"
    <2> DEFINE op(n) == [method |-> CollectionOps[n][1],
                         path   |-> IF CollectionOps[n][2]
                                    THEN Append(Rows[i].path, DocumentParam) ELSE Rows[i].path,
                         row    |-> i]
    <2>1. Expand(i) = [n \in 1..6 |-> op(n)]
        BY <1>2, OpsAreTyped DEF Expand
    <2>2. PICK n \in 1..6, k \in 1..6 : r = op(n) /\ s = op(k)
        <3>1. DOMAIN Expand(i) = 1..6 /\ \A n \in 1..6 : Expand(i)[n] = op(n)
            BY <2>1
        <3> HIDE DEF op
        <3> QED
            BY <3>1 DEF ToSet
    <2>3. /\ Len(Rows[i].path) \in Nat
          /\ Len(Append(Rows[i].path, DocumentParam)) = Len(Rows[i].path) + 1
        BY RowsAreTyped, SegmentsAssumption, AppendProperties
    <2>4. Len(Append(Rows[i].path, DocumentParam)) # Len(Rows[i].path)
        BY <2>3
    <2>5. CollectionOps[n][2] \in BOOLEAN /\ CollectionOps[k][2] \in BOOLEAN
        BY OpsAreTyped
    <2>6. CollectionOps[n][2] = CollectionOps[k][2]
        BY <2>2, <2>4, <2>5, Zenon
    <2>7. CollectionOps[n][1] = CollectionOps[k][1]
        BY <2>2
    <2> QED
        BY <2>2, <2>6, <2>7, OpsAreTyped
<1> QED
    BY <1>1, <1>2

LEMMA ShapeIsTyped ==
    ASSUME NEW path \in Seq(Segments)
    PROVE  /\ Shape(path) \in Seq(Edges)
           /\ Len(Shape(path)) = Len(path)
           /\ Len(path) \in Nat
           /\ \A i \in 1..Len(path) :
                 /\ path[i] \in Segments
                 /\ Shape(path)[i] = IF IsParam(path[i]) THEN Param ELSE path[i]
                 /\ Shape(path)[i] = Param <=> IsParam(path[i])
    BY SegmentsAssumption DEF Shape, Edges

LEMMA PrefixesAreTyped ==
    ASSUME NEW S, NEW s \in Seq(S), NEW node \in Prefixes(s)
    PROVE  /\ node \in Seq(S)
           /\ Len(node) \in 0..Len(s)
           /\ \A i \in 1..Len(node) : node[i] = s[i]
    BY DEF Prefixes

LEMMA PrefixIs ==
    ASSUME NEW S, NEW s \in Seq(S), NEW node \in Seq(S), Len(node) <= Len(s),
           \A i \in 1..Len(node) : node[i] = s[i]
    PROVE  node \in Prefixes(s)
<1>1. Len(node) \in 0..Len(s)
    OBVIOUS
<1>2. node = SubSeq(s, 1, Len(node))
    BY <1>1
<1> QED
    BY <1>1, <1>2 DEF Prefixes

LEMMA PrefixesHave ==
    ASSUME NEW S, NEW s \in Seq(S)
    PROVE  s \in Prefixes(s) /\ <<>> \in Prefixes(s)
<1>1. s = SubSeq(s, 1, Len(s)) /\ Len(s) \in 0..Len(s)
    OBVIOUS
<1>2. <<>> = SubSeq(s, 1, 0) /\ 0 \in 0..Len(s)
    OBVIOUS
<1> QED
    BY <1>1, <1>2 DEF Prefixes
-----------------------------------------------------------------------------
(* The trie of a set of routes.                                            *)
Trie(t, R) ==
    /\ \A node :
          node \in DOMAIN t <=> node = <<>> \/ \E r \in R : node \in Prefixes(Shape(r.path))
    /\ \A node \in DOMAIN t : \A m \in DOMAIN t[node] :
          t[node][m] \in R /\ t[node][m].method = m /\ Shape(t[node][m].path) = node
    /\ \A r \in R :
          r.method \in DOMAIN t[Shape(r.path)] /\ t[Shape(r.path)][r.method].row <= r.row

(* Inserting a route of a row that is not before theirs keeps it so: the   *)
(* node of its pattern is the only one that changes, by that verb alone,   *)
(* and not if a route has it.                                              *)
LEMMA InsertKeepsTrie ==
    ASSUME NEW t, NEW R \in SUBSET Route, NEW route \in Route, Trie(t, R),
           \A r \in R : r.row <= route.row
    PROVE  Trie(Insert(t, route), R \union {route})
<1> DEFINE shape == Shape(route.path)
           u == Insert(t, route)
<1>0. shape \in Seq(Edges) /\ shape \in Prefixes(shape)
    BY ShapeIsTyped, PrefixesHave DEF Route
<1>1. DOMAIN u = DOMAIN t \union Prefixes(shape)
    BY DEF Insert, NodesDownTo
<1>2. \A node \in DOMAIN u :
          u[node] = IF node = shape THEN FirstWins(RoutesAt(t, node), route) ELSE RoutesAt(t, node)
    BY DEF Insert, NodesDownTo
<1>3. shape \in DOMAIN u
    BY <1>0, <1>1
<1> DEFINE here == RoutesAt(t, shape)
<1>4. /\ DOMAIN u[shape] = DOMAIN here \union {route.method}
      /\ \A m \in DOMAIN here : u[shape][m] = here[m]
      /\ route.method \notin DOMAIN here => u[shape][route.method] = route
    BY <1>2, <1>3 DEF FirstWins
<1>5. \A node : \A m \in DOMAIN RoutesAt(t, node) :
          node \in DOMAIN t /\ RoutesAt(t, node) = t[node] /\ m \in DOMAIN t[node]
    <2>1. DOMAIN <<>> = {}
        OBVIOUS
    <2> QED
        BY <2>1, Zenon DEF RoutesAt
<1> HIDE DEF u, shape, here
<1>6. \A node \in DOMAIN u : \A m \in DOMAIN u[node] :
          \/ node \in DOMAIN t /\ m \in DOMAIN t[node] /\ u[node][m] = t[node][m]
          \/ node = shape /\ m = route.method /\ u[node][m] = route
    <2> SUFFICES ASSUME NEW node \in DOMAIN u, NEW m \in DOMAIN u[node]
                 PROVE  \/ node \in DOMAIN t /\ m \in DOMAIN t[node] /\ u[node][m] = t[node][m]
                        \/ node = shape /\ m = route.method /\ u[node][m] = route
        OBVIOUS
    <2>1. CASE node # shape
        BY <1>2, <1>5, <2>1, Zenon
    <2>2. CASE node = shape /\ m \in DOMAIN here
        <3>1. u[node][m] = here[m]
            BY <1>4, <2>2, Zenon
        <3>2. node \in DOMAIN t /\ here = t[node] /\ m \in DOMAIN t[node]
            BY <1>5, <2>2, Zenon DEF here
        <3> QED
            BY <3>1, <3>2
    <2>3. CASE node = shape /\ m \notin DOMAIN here
        BY <1>4, <2>3, Zenon
    <2> QED
        BY <2>1, <2>2, <2>3
<1>7. \A node :
          node \in DOMAIN u
            <=> node = <<>> \/ \E r \in R \union {route} : node \in Prefixes(Shape(r.path))
    BY <1>1 DEF Trie, shape
<1>8. \A node \in DOMAIN u : \A m \in DOMAIN u[node] :
          /\ u[node][m] \in R \union {route}
          /\ u[node][m].method = m
          /\ Shape(u[node][m].path) = node
    <2>1. \A node \in DOMAIN t : \A m \in DOMAIN t[node] :
              t[node][m] \in R /\ t[node][m].method = m /\ Shape(t[node][m].path) = node
        BY DEF Trie
    <2> QED
        BY <1>6, <2>1 DEF shape
<1>9. \A r \in R \union {route} :
          /\ r.method \in DOMAIN u[Shape(r.path)]
          /\ u[Shape(r.path)][r.method].row <= r.row
    <2> SUFFICES ASSUME NEW r \in R \union {route}
                 PROVE  /\ r.method \in DOMAIN u[Shape(r.path)]
                        /\ u[Shape(r.path)][r.method].row <= r.row
        OBVIOUS
    <2>1. CASE r \in R
        <3>1. /\ r.method \in DOMAIN t[Shape(r.path)]
              /\ t[Shape(r.path)][r.method].row <= r.row
              /\ Shape(r.path) \in DOMAIN t
            <4>1. Shape(r.path) \in Prefixes(Shape(r.path))
                BY <2>1, ShapeIsTyped, PrefixesHave DEF Route
            <4> QED
                BY <2>1, <4>1, Zenon DEF Trie
        <3>2. RoutesAt(t, Shape(r.path)) = t[Shape(r.path)] /\ Shape(r.path) \in DOMAIN u
            BY <3>1, <1>1 DEF RoutesAt
        <3>3. CASE Shape(r.path) # shape
            BY <1>2, <3>1, <3>2, <3>3
        <3>4. CASE Shape(r.path) = shape
            BY <1>4, <3>1, <3>2, <3>4 DEF here
        <3> QED
            BY <3>3, <3>4
    <2>2. CASE r = route
        <3>1. route.row <= route.row
            BY RowsAreTyped DEF Route
        <3>2. route.method \in DOMAIN u[shape]
            BY <1>4
        <3>3. u[shape][route.method] \in R \union {route}
            BY <1>3, <1>8, <3>2, Zenon
        <3> QED
            BY <2>2, <3>1, <3>2, <3>3 DEF shape
    <2> QED
        BY <2>1, <2>2
<1> QED
    BY <1>7, <1>8, <1>9, Zenon DEF Trie, u

(* The routes of a row are inserted one after the other: what there is     *)
(* after the first n of them exists for every n,                           *)
LEMMA InsertedStepByStep ==
    ASSUME NEW t, NEW routes \in Seq(Route)
    PROVE  \E after :
              /\ after = [n \in 0..Len(routes) |->
                             IF n = 0 THEN t ELSE Insert(after[n - 1], routes[n])]
              /\ Inserted(t, routes) = after[Len(routes)]
<1> DEFINE Is(f, n) == f = [k \in 0..n |-> IF k = 0 THEN t ELSE Insert(f[k - 1], routes[k])]
           Bad == {n \in 0..Len(routes) : ~\E f : Is(f, n)}
<1>0. Len(routes) \in Nat
    OBVIOUS
<1>1. Bad = {}
    <2> SUFFICES ASSUME Bad # {} PROVE FALSE
        OBVIOUS
    <2>0. Bad \subseteq Nat
        BY <1>0
    <2>1. PICK n \in Bad : \A k \in Bad : n <= k
        <3> HIDE DEF Bad
        <3> QED
            BY <2>0, LeastOf
    <2>2. n \in 0..Len(routes) /\ n \in Nat
        BY <1>0
    <2>3. n # 0
        <3>1. Is([k \in 0..0 |-> t], 0)
            OBVIOUS
        <3> QED
            BY <3>1
    <2>4. n - 1 \in 0..Len(routes) /\ n - 1 \notin Bad
        <3>1. n - 1 \in Nat /\ n - 1 \in 0..Len(routes) /\ ~(n <= n - 1)
            BY <1>0, <2>2, <2>3
        <3> HIDE DEF Bad
        <3> QED
            BY <2>1, <3>1
    <2>5. PICK f : Is(f, n - 1)
        BY <2>4
    <2> DEFINE g == [k \in 0..n |-> IF k = n THEN Insert(f[n - 1], routes[n]) ELSE f[k]]
    <2>6. \A k \in 0..(n - 1) : g[k] = f[k]
        BY <2>2, <2>3
    <2>7. \A k \in 0..n : g[k] = IF k = 0 THEN t ELSE Insert(g[k - 1], routes[k])
        <3> SUFFICES ASSUME NEW k \in 0..n
                     PROVE  g[k] = IF k = 0 THEN t ELSE Insert(g[k - 1], routes[k])
            OBVIOUS
        <3>1. CASE k = n
            <4>1. g[n - 1] = f[n - 1]
                BY <2>2, <2>3, <2>6
            <4>2. g[n] = Insert(f[n - 1], routes[n])
                BY <2>2
            <4> HIDE DEF g
            <4> QED
                BY <2>3, <3>1, <4>1, <4>2
        <3>2. CASE k # n
            <4>1. k \in 0..(n - 1)
                BY <2>2, <3>2
            <4>2. f[k] = IF k = 0 THEN t ELSE Insert(f[k - 1], routes[k])
                BY <2>5, <4>1
            <4>3. k # 0 => k - 1 \in 0..(n - 1)
                BY <2>2, <4>1
            <4> HIDE DEF g
            <4> QED
                BY <2>6, <4>1, <4>2, <4>3
        <3> QED
            BY <3>1, <3>2
    <2>8. Is(g, n)
        <3> DEFINE h == [k \in 0..n |-> IF k = 0 THEN t ELSE Insert(g[k - 1], routes[k])]
        <3>1. DOMAIN g = 0..n /\ g = [k \in 0..n |-> g[k]]
            OBVIOUS
        <3> HIDE DEF g
        <3> QED
            BY <2>7, <3>1
    <2> QED
        BY <2>8
<1>2. PICK f : Is(f, Len(routes))
    <2>1. Len(routes) \in 0..Len(routes)
        BY <1>0
    <2> QED
        BY <1>1, <2>1
<1> QED
    BY <1>2, Zenon DEF Inserted

(* and is the trie of those before and of the first n.                     *)
LEMMA InsertedKeepsTrie ==
    ASSUME NEW t, NEW R \in SUBSET Route, NEW routes \in Seq(Route), NEW i \in Nat, Trie(t, R),
           \A r \in R : r.row <= i,
           \A n \in DOMAIN routes : routes[n].row = i
    PROVE  Trie(Inserted(t, routes), R \union ToSet(routes))
<1> DEFINE First(n) == R \union {routes[k] : k \in 1..n}
<1>0. Len(routes) \in Nat /\ DOMAIN routes = 1..Len(routes)
    BY LenProperties
<1>1. PICK after :
          /\ after = [n \in 0..Len(routes) |->
                         IF n = 0 THEN t ELSE Insert(after[n - 1], routes[n])]
          /\ Inserted(t, routes) = after[Len(routes)]
    BY InsertedStepByStep
<1>2. /\ after[0] = t
      /\ \A n \in 1..Len(routes) : after[n] = Insert(after[n - 1], routes[n])
    <2>1. \A n \in 0..Len(routes) :
              after[n] = IF n = 0 THEN t ELSE Insert(after[n - 1], routes[n])
        BY <1>1
    <2> QED
        BY <1>0, <2>1
<1>3. First(0) = R
    OBVIOUS
<1>4. \A n \in 1..Len(routes) : First(n) = First(n - 1) \union {routes[n]}
    BY <1>0
<1>5. \A n \in 0..Len(routes) :
          First(n) \in SUBSET Route /\ \A r \in First(n) : r.row <= i
    BY <1>0, ElementOfSeq
<1>6. First(Len(routes)) = R \union ToSet(routes)
    BY <1>0 DEF ToSet
<1> HIDE DEF First
<1> DEFINE Bad == {n \in 0..Len(routes) : ~Trie(after[n], First(n))}
<1>7. Bad = {}
    <2> SUFFICES ASSUME Bad # {} PROVE FALSE
        OBVIOUS
    <2>0. Bad \subseteq Nat
        BY <1>0
    <2>1. PICK n \in Bad : \A k \in Bad : n <= k
        <3> HIDE DEF Bad
        <3> QED
            BY <2>0, LeastOf
    <2>2. n \in 0..Len(routes) /\ ~Trie(after[n], First(n))
        OBVIOUS
    <2>3. n # 0
        BY <1>2, <1>3, <2>2
    <2>4. n \in 1..Len(routes) /\ n - 1 \in 0..Len(routes) /\ ~(n <= n - 1)
        BY <1>0, <2>2, <2>3
    <2>5. n - 1 \notin Bad
        <3> HIDE DEF Bad
        <3> QED
            BY <2>1, <2>4
    <2>6. Trie(after[n - 1], First(n - 1))
        BY <2>4, <2>5
    <2>7. routes[n] \in Route /\ routes[n].row = i
        BY <1>0, <2>4, ElementOfSeq
    <2>8. First(n - 1) \in SUBSET Route /\ \A r \in First(n - 1) : r.row <= routes[n].row
        BY <1>5, <2>4, <2>7
    <2>9. Trie(Insert(after[n - 1], routes[n]), First(n - 1) \union {routes[n]})
        BY <2>6, <2>7, <2>8, InsertKeepsTrie
    <2>10. after[n] = Insert(after[n - 1], routes[n]) /\ First(n) = First(n - 1) \union {routes[n]}
        BY <1>2, <1>4, <2>4
    <2> QED
        BY <2>2, <2>9, <2>10, Zenon
<1>8. Trie(after[Len(routes)], First(Len(routes)))
    <2>1. Len(routes) \in 0..Len(routes)
        BY <1>0
    <2> QED
        BY <1>7, <2>1
<1> QED
    BY <1>1, <1>6, <1>8, Zenon
-----------------------------------------------------------------------------
(* The inductive invariant, as what it says of the routes read.            *)
LEMMA InvIsTrie ==
    ASSUME NEW t, NEW R
    PROVE  Trie(t, R) <=>
              /\ DOMAIN t = {<<>>} \union UNION {Prefixes(Shape(r.path)) : r \in R}
              /\ \A node \in DOMAIN t : \A m \in DOMAIN t[node] :
                    t[node][m] \in R /\ t[node][m].method = m /\ Shape(t[node][m].path) = node
              /\ \A r \in R :
                    r.method \in DOMAIN t[Shape(r.path)]
                      /\ t[Shape(r.path)][r.method].row <= r.row
<1> DEFINE N == {<<>>} \union UNION {Prefixes(Shape(r.path)) : r \in R}
<1>1. \A node : node \in N <=> node = <<>> \/ \E r \in R : node \in Prefixes(Shape(r.path))
    OBVIOUS
<1>2. DOMAIN t = N <=> \A node : node \in DOMAIN t <=> node \in N
    <2> HIDE DEF N
    <2> QED
        OBVIOUS
<1>3. DOMAIN t = N <=>
        \A node :
          node \in DOMAIN t <=> node = <<>> \/ \E r \in R : node \in Prefixes(Shape(r.path))
    <2> HIDE DEF N
    <2> QED
        BY <1>1, <1>2
<1> QED
    BY <1>3 DEF Trie

(* The routes of some rows are routes, each of its row.                    *)
LEMMA RoutesOfRows ==
    ASSUME NEW rows \in SUBSET DOMAIN Rows,
           NEW R, R = UNION {ToSet(Expand(i)) : i \in rows}
    PROVE  /\ R \in SUBSET Route
           /\ \A r \in R : r.row \in rows /\ r \in ToSet(Expand(r.row))
<1> SUFFICES ASSUME NEW r \in R
             PROVE  r \in Route /\ r.row \in rows /\ r \in ToSet(Expand(r.row))
    OBVIOUS
<1>1. PICK i \in rows : r \in ToSet(Expand(i))
    OBVIOUS
<1>2. PICK n \in DOMAIN Expand(i) : r = Expand(i)[n]
    BY <1>1 DEF ToSet
<1>3. DOMAIN Expand(i) = 1..Len(Expand(i)) /\ Expand(i) \in Seq(Route) /\ Expand(i)[n].row = i
    BY ExpandIsTyped, LenProperties
<1>4. r \in Route
    BY <1>2, <1>3, ElementOfSeq
<1> QED
    BY <1>1, <1>2, <1>3, <1>4

LEMMA InitInv == MatcherInit => MatcherIInv
<1> SUFFICES ASSUME MatcherInit PROVE MatcherIInv
    OBVIOUS
<1>1. MatcherTypeOK
    BY DEF MatcherInit, MatcherTypeOK
<1>2. DOMAIN trie = {<<>>} /\ DOMAIN trie[<<>>] = {}
    BY DEF MatcherInit, EmptyTrie
<1>3. NodesArePatterns
    BY <1>2 DEF MatcherInit, NodesArePatterns
<1>4. RoutesAreTheirNodes
    BY <1>2 DEF RoutesAreTheirNodes
<1>5. FirstIsServed
    BY DEF MatcherInit, FirstIsServed
<1> QED
    BY <1>1, <1>3, <1>4, <1>5 DEF MatcherIInv

LEMMA AddRowKeepsInv ==
    ASSUME MatcherIInv, NEW i \in DOMAIN Rows, AddRow(i)
    PROVE  MatcherIInv'
<1>1. /\ read' = read \union {i}
      /\ trie' = Inserted(trie, Expand(i))
      /\ refs' = refs \union ToSet(Expand(i))
      /\ \A j \in read : j < i
    BY DEF AddRow
<1>2. read \in SUBSET DOMAIN Rows /\ refs = UNION {ToSet(Expand(j)) : j \in read}
    BY DEF MatcherIInv, MatcherTypeOK
<1>3. MatcherTypeOK'
    BY <1>1, <1>2 DEF MatcherTypeOK
<1>4. Trie(trie, refs)
    <2>1. NodesArePatterns /\ RoutesAreTheirNodes /\ FirstIsServed
        BY DEF MatcherIInv
    <2> QED
        BY <2>1, InvIsTrie DEF NodesArePatterns, RoutesAreTheirNodes, FirstIsServed
<1>5. refs \in SUBSET Route /\ \A r \in refs : r.row <= i
    <2>1. refs \in SUBSET Route /\ \A r \in refs : r.row \in read
        BY <1>2, RoutesOfRows
    <2>2. \A j \in read : j \in Nat /\ j < i
        BY <1>1, <1>2, RowsAreTyped
    <2>3. i \in Nat
        BY RowsAreTyped
    <2> QED
        BY <2>1, <2>2, <2>3
<1>6. Expand(i) \in Seq(Route) /\ i \in Nat /\ \A n \in DOMAIN Expand(i) : Expand(i)[n].row = i
    BY ExpandIsTyped, RowsAreTyped
<1>7. Trie(Inserted(trie, Expand(i)), refs \union ToSet(Expand(i)))
    BY <1>4, <1>5, <1>6, InsertedKeepsTrie
<1>8. Trie(trie', refs')
    BY <1>1, <1>7, Zenon
<1>9. NodesArePatterns' /\ RoutesAreTheirNodes' /\ FirstIsServed'
    BY <1>8, InvIsTrie DEF NodesArePatterns, RoutesAreTheirNodes, FirstIsServed
<1> QED
    BY <1>3, <1>9 DEF MatcherIInv

(* Whatever rows are read, the trie's nodes are the beginnings of their    *)
(* patterns, and for every pattern's shape and verb the first row's route  *)
(* is the one at the node.                                                 *)
THEOREM InvIsInductive == MatcherSpec => []MatcherIInv
<1>1. MatcherIInv /\ [MatcherNext]_matcherVars => MatcherIInv'
    <2>1. ASSUME MatcherIInv, MatcherNext PROVE MatcherIInv'
        BY <2>1, AddRowKeepsInv DEF MatcherNext
    <2>2. ASSUME MatcherIInv, UNCHANGED matcherVars PROVE MatcherIInv'
        BY <2>2 DEF MatcherIInv, MatcherTypeOK, NodesArePatterns, RoutesAreTheirNodes, FirstIsServed, matcherVars
    <2> QED
        BY <2>1, <2>2
<1> QED
    BY InitInv, <1>1, PTL DEF MatcherSpec

-----------------------------------------------------------------------------
(* The search, node by node.                                               *)
LEMMA NodesAreTyped ==
    ASSUME NEW t, NEW R \in SUBSET Route, Trie(t, R)
    PROVE  DOMAIN t \subseteq Seq(Edges) /\ <<>> \in DOMAIN t
<1>1. \A r \in R : \A node \in Prefixes(Shape(r.path)) : node \in Seq(Edges)
    BY ShapeIsTyped, PrefixesAreTyped DEF Route
<1>2. <<>> \in Seq(Edges)
    OBVIOUS
<1> QED
    BY <1>1, <1>2 DEF Trie

(* A node's children are one segment longer, and so is what it takes to    *)
(* reach the end of the path one less.                                     *)
LEMMA ChildrenAreTyped ==
    ASSUME NEW path \in Seq(Segments), NEW node \in Seq(Edges), Len(node) < Len(path)
    PROVE  /\ Len(node) + 1 \in 1..Len(path)
           /\ path[Len(node) + 1] \in Segments
           /\ \A edge \in {path[Len(node) + 1], Param} :
                 Append(node, edge) \in Seq(Edges) /\ Len(Append(node, edge)) = Len(node) + 1
<1>1. Len(node) \in Nat /\ Len(path) \in Nat
    BY LenProperties
<1>2. Len(node) + 1 \in 1..Len(path)
    BY <1>1
<1>3. path[Len(node) + 1] \in Segments
    BY <1>2, ElementOfSeq
<1>4. \A edge \in {path[Len(node) + 1], Param} : edge \in Edges
    BY <1>3 DEF Edges
<1> QED
    BY <1>2, <1>3, <1>4, AppendProperties

(* What a node answers depends on what its children do, and on nothing     *)
(* else of the walk.                                                       *)
LEMMA VisitAgrees ==
    ASSUME NEW t, DOMAIN t \subseteq Seq(Edges), NEW path \in Seq(Segments), NEW method,
           NEW f, NEW g, NEW node \in DOMAIN t, Len(node) <= Len(path),
           \A child \in WithinReach(t, path) : Len(child) = Len(node) + 1 => f[child] = g[child]
    PROVE  Visit(t, path, method, f, node) = Visit(t, path, method, g, node)
<1>1. CASE Len(node) = Len(path)
    BY <1>1 DEF Visit
<1>2. CASE Len(node) # Len(path)
    <2>0. Len(node) \in Nat /\ Len(path) \in Nat /\ node \in Seq(Edges)
        BY LenProperties
    <2>1. Len(node) < Len(path) /\ Len(node) + 1 <= Len(path)
        BY <1>2, <2>0
    <2>2. \A edge \in {path[Len(node) + 1], Param} : Len(Append(node, edge)) = Len(node) + 1
        BY <2>0, <2>1, ChildrenAreTyped
    <2>3. \A edge \in {path[Len(node) + 1], Param} :
              Below(t, f, Append(node, edge)) = Below(t, g, Append(node, edge))
        BY <2>1, <2>2 DEF Below, WithinReach
    <2>4. /\ Below(t, f, Append(node, path[Len(node) + 1]))
               = Below(t, g, Append(node, path[Len(node) + 1]))
          /\ Below(t, f, Append(node, Param)) = Below(t, g, Append(node, Param))
        BY <2>3
    <2> QED
        BY <1>2, <2>4, Zenon DEF Visit
<1> QED
    BY <1>1, <1>2

(* The walk of the trie exists: it is known at the nodes the path ends at, *)
(* and then at those ever less deep.                                       *)
LEMMA SearchStepByStep ==
    ASSUME NEW t, DOMAIN t \subseteq Seq(Edges), NEW path \in Seq(Segments), NEW method
    PROVE  \E walk :
              /\ walk = [node \in WithinReach(t, path) |-> Visit(t, path, method, walk, node)]
              /\ Search(t, path, method) = walk[<<>>]
<1> DEFINE W == WithinReach(t, path)
           Is(f, d) == \A node \in W :
                          Len(path) - Len(node) <= d => f[node] = Visit(t, path, method, f, node)
           Bad == {d \in 0..Len(path) : ~\E f : Is(f, d)}
<1>0. /\ Len(path) \in Nat
      /\ \A node \in W : node \in DOMAIN t /\ Len(node) \in Nat /\ Len(node) <= Len(path)
    BY LenProperties DEF WithinReach
<1>1. Bad = {}
    <2> SUFFICES ASSUME Bad # {} PROVE FALSE
        OBVIOUS
    <2>0. Bad \subseteq Nat
        BY <1>0
    <2>1. PICK d \in Bad : \A k \in Bad : d <= k
        <3> HIDE DEF Bad
        <3> QED
            BY <2>0, LeastOf
    <2>2. d \in 0..Len(path) /\ d \in Nat /\ ~\E f : Is(f, d)
        BY <1>0
    <2>3. \E f : \A node \in W :
              Len(path) - Len(node) < d => f[node] = Visit(t, path, method, f, node)
        <3>1. CASE d = 0
            <4>1. \A node \in W : ~(Len(path) - Len(node) < 0)
                BY <1>0
            <4> QED
                BY <3>1, <4>1
        <3>2. CASE d # 0
            <4>1. d - 1 \in 0..Len(path) /\ ~(d <= d - 1)
                BY <1>0, <2>2, <3>2
            <4>2. d - 1 \notin Bad
                <5> HIDE DEF Bad
                <5> QED
                    BY <2>1, <4>1
            <4>3. PICK f : Is(f, d - 1)
                BY <4>1, <4>2
            <4>4. \A node \in W : Len(path) - Len(node) < d => Len(path) - Len(node) <= d - 1
                BY <1>0, <2>2
            <4> QED
                BY <4>3, <4>4
        <3> QED
            BY <3>1, <3>2
    <2>4. PICK f : \A node \in W :
              Len(path) - Len(node) < d => f[node] = Visit(t, path, method, f, node)
        BY <2>3
    <2> DEFINE g == [node \in W |-> IF Len(path) - Len(node) < d THEN f[node]
                                    ELSE Visit(t, path, method, f, node)]
    <2>5. \A node \in W : g[node] = Visit(t, path, method, f, node)
        BY <2>4
    <2>6. \A node \in W : Len(path) - Len(node) < d => g[node] = f[node]
        OBVIOUS
    <2> HIDE DEF g
    <2>7. ASSUME NEW node \in W, Len(path) - Len(node) <= d
          PROVE  g[node] = Visit(t, path, method, g, node)
        <3>1. \A child \in W : Len(child) = Len(node) + 1 => Len(path) - Len(child) < d
            BY <1>0, <2>2, <2>7
        <3>2. \A child \in W : Len(child) = Len(node) + 1 => f[child] = g[child]
            BY <2>6, <3>1
        <3>3. node \in DOMAIN t /\ Len(node) <= Len(path)
            BY <1>0
        <3>4. Visit(t, path, method, f, node) = Visit(t, path, method, g, node)
            <4> HIDE DEF Is, Bad
            <4> QED
                BY <3>2, <3>3, VisitAgrees
        <3> QED
            BY <2>5, <3>4
    <2>8. Is(g, d)
        BY <2>7
    <2> QED
        BY <2>2, <2>8
<1>2. PICK f : Is(f, Len(path))
    <2>1. Len(path) \in 0..Len(path)
        BY <1>0
    <2> QED
        BY <1>1, <2>1
<1>3. \A node \in W : f[node] = Visit(t, path, method, f, node)
    <2>1. \A node \in W : Len(path) - Len(node) <= Len(path)
        BY <1>0
    <2> QED
        BY <1>2, <2>1
<1> DEFINE walk == [node \in W |-> f[node]]
<1>4. \A node \in W : walk[node] = Visit(t, path, method, walk, node)
    <2> SUFFICES ASSUME NEW node \in W
                 PROVE  walk[node] = Visit(t, path, method, walk, node)
        OBVIOUS
    <2>1. \A child \in W : f[child] = walk[child]
        OBVIOUS
    <2>2. node \in DOMAIN t /\ Len(node) <= Len(path)
        BY <1>0
    <2> HIDE DEF walk
    <2>3. Visit(t, path, method, f, node) = Visit(t, path, method, walk, node)
        BY <2>1, <2>2, VisitAgrees
    <2> QED
        BY <1>3, <2>1, <2>3
<1>5. walk = [node \in W |-> Visit(t, path, method, walk, node)]
    <2>1. DOMAIN walk = W /\ walk = [node \in W |-> walk[node]]
        OBVIOUS
    <2> HIDE DEF walk
    <2> QED
        BY <1>4, <2>1
<1> HIDE DEF walk
<1> QED
    BY <1>5, Zenon DEF Search

-----------------------------------------------------------------------------
(* What a walk must find at a node: of the routes below it whose pattern   *)
(* fits the path, the one that precedes the others, with the values of its *)
(* parameters from there on, or else the verbs of all of them.             *)
Through(R, path, node) == {r \in R : Fits(r, path) /\ node \in Prefixes(Shape(r.path))}

Served(S, method) == {r \in S : Rank(r, method) < 4}

Valued(found, path, from) ==
    /\ found.values \in Seq(Segments)
    /\ Len(found.values) = Cardinality(ParamPlaces(found.route, from, Len(path)))
    /\ \A i \in ParamPlaces(found.route, from, Len(path)) :
          found.values[Cardinality(ParamPlaces(found.route, from, i))] = path[i]

First(found, A, method) ==
    /\ found.route \in A
    /\ \A s \in A : s # found.route => Precedes(found.route, s, method)

Good(found, S, path, method, from) ==
    \/ /\ Served(S, method) = {}
       /\ found.route = NoRoute
       /\ found.allow = {r.method : r \in S}
    \/ /\ First(found, Served(S, method), method)
       /\ Valued(found, path, from)

NodeFits(node, path) == \A i \in 1..Len(node) : node[i] = Param \/ node[i] = path[i]

(* Of one row there are not two routes of a shape and a verb.              *)
Distinct(R) ==
    \A r, s \in R :
        r.row = s.row /\ r.method = s.method /\ Len(r.path) = Len(s.path) => r = s

LEMMA RouteIsTyped ==
    ASSUME NEW r \in Route
    PROVE  /\ r # NoRoute
           /\ r.row \in Nat
           /\ r.path \in Seq(Segments)
           /\ r.method \in Methods \union {MethodAny}
<1>1. r.row \in Nat \ {0}
    BY RowsAreTyped DEF Route
<1>2. NoRoute.row = 0
    BY DEF NoRoute
<1> QED
    BY <1>1, <1>2 DEF Route

LEMMA RankIs ==
    ASSUME NEW r, NEW method
    PROVE  /\ Rank(r, method) \in 1..4
           /\ Rank(r, method) = 1 <=> r.method = method
           /\ r.method = MethodAny => Rank(r, method) <= 2
           /\ Rank(r, method) <= 2 => r.method = method \/ r.method = MethodAny
           /\ method = "HEAD" /\ r.method = "GET" => Rank(r, method) <= 3
           /\ Rank(r, method) <= 3 =>
                 r.method = method \/ r.method = MethodAny \/ (method = "HEAD" /\ r.method = "GET")
    BY DEF Rank, MethodAny

LEMMA RanksOf ==
    ASSUME NEW n \in 1..4
    PROVE  /\ n <= 2 => n < 4
           /\ n < 4 <=> n <= 3
           /\ n = 1 => n <= 3
    OBVIOUS

(* A route passes a node if its pattern has a parameter wherever the node  *)
(* does, and the node's segment elsewhere.                                 *)
LEMMA ThroughIs ==
    ASSUME NEW r \in Route, NEW node \in Seq(Edges), node \in Prefixes(Shape(r.path))
    PROVE  /\ Len(node) <= Len(r.path)
           /\ \A i \in 1..Len(node) :
                 /\ node[i] = Shape(r.path)[i]
                 /\ node[i] = Param <=> IsParam(r.path[i])
                 /\ i \in 1..Len(r.path)
<1>1. /\ Shape(r.path) \in Seq(Edges)
      /\ Len(Shape(r.path)) = Len(r.path)
      /\ Len(r.path) \in Nat
      /\ \A i \in 1..Len(r.path) : Shape(r.path)[i] = Param <=> IsParam(r.path[i])
    BY RouteIsTyped, ShapeIsTyped
<1>2. Len(node) \in 0..Len(Shape(r.path)) /\ \A i \in 1..Len(node) : node[i] = Shape(r.path)[i]
    BY <1>1, PrefixesAreTyped
<1>3. Len(node) <= Len(r.path) /\ \A i \in 1..Len(node) : i \in 1..Len(r.path)
    BY <1>1, <1>2
<1> QED
    BY <1>1, <1>2, <1>3

LEMMA FitsIs ==
    ASSUME NEW r \in Route, NEW path \in Seq(Segments)
    PROVE  Fits(r, path) <=>
              /\ Len(r.path) = Len(path)
              /\ \A i \in 1..Len(path) : IsParam(r.path[i]) \/ r.path[i] = path[i]
    BY LenProperties DEF Fits

(* The routes of the node the path ends at are those that pass it.         *)
LEMMA RoutesAtEnd ==
    ASSUME NEW t, NEW R \in SUBSET Route, Trie(t, R), NEW path \in Seq(Segments),
           NEW node \in DOMAIN t, Len(node) = Len(path), NodeFits(node, path),
           NEW S, S = Through(R, path, node)
    PROVE  /\ \A r \in S :
                 /\ Shape(r.path) = node
                 /\ Len(r.path) = Len(path)
                 /\ r.method \in DOMAIN t[node]
                 /\ t[node][r.method].row <= r.row
           /\ \A m \in DOMAIN t[node] : t[node][m] \in S /\ t[node][m].method = m
<1>1. node \in Seq(Edges) /\ Len(path) \in Nat
    BY NodesAreTyped, LenProperties
<1>2. ASSUME NEW r \in S
      PROVE  /\ Shape(r.path) = node
             /\ Len(r.path) = Len(path)
             /\ r.method \in DOMAIN t[node]
             /\ t[node][r.method].row <= r.row
    <2>1. r \in R /\ r \in Route /\ node \in Prefixes(Shape(r.path)) /\ Fits(r, path)
        BY DEF Through
    <2>2. Len(r.path) = Len(path)
        BY <2>1 DEF Fits
    <2>3. /\ Shape(r.path) \in Seq(Edges)
          /\ Len(Shape(r.path)) = Len(node)
          /\ \A i \in 1..Len(node) : node[i] = Shape(r.path)[i]
        BY <1>1, <2>1, <2>2, RouteIsTyped, ShapeIsTyped, ThroughIs
    <2>4. Shape(r.path) = node
        BY <1>1, <2>3
    <2> QED
        BY <2>1, <2>2, <2>4 DEF Trie
<1>3. ASSUME NEW m \in DOMAIN t[node]
      PROVE  t[node][m] \in S /\ t[node][m].method = m
    <2> DEFINE r == t[node][m]
    <2>1. r \in R /\ r.method = m /\ Shape(r.path) = node
        BY DEF Trie
    <2> HIDE DEF r
    <2>2. /\ r \in Route
          /\ r.path \in Seq(Segments)
          /\ Shape(r.path) \in Seq(Edges)
          /\ Len(r.path) = Len(path)
          /\ \A i \in 1..Len(path) :
                /\ r.path[i] \in Segments
                /\ node[i] = IF IsParam(r.path[i]) THEN Param ELSE r.path[i]
        <3>1. r \in Route /\ r.path \in Seq(Segments)
            BY <2>1, RouteIsTyped
        <3> QED
            BY <2>1, <3>1, ShapeIsTyped
    <2>3. \A i \in 1..Len(path) : IsParam(r.path[i]) \/ r.path[i] = path[i]
        <3>1. \A i \in 1..Len(path) : node[i] = Param \/ node[i] = path[i]
            BY DEF NodeFits
        <3>2. \A i \in 1..Len(path) : r.path[i] # Param
            BY <2>2, SegmentsAssumption
        <3> QED
            BY <2>2, <3>1, <3>2, Zenon
    <2>4. Fits(r, path)
        BY <2>2, <2>3, FitsIs
    <2>5. node \in Prefixes(Shape(r.path))
        BY <2>1, <2>2, PrefixesHave
    <2>6. r \in S
        BY <2>1, <2>4, <2>5 DEF Through
    <2> QED
        BY <2>1, <2>6 DEF r
<1> QED
    BY <1>2, <1>3

LEMMA SameShape ==
    ASSUME NEW r \in Route, NEW s \in Route, Shape(r.path) = Shape(s.path)
    PROVE  ~MoreLiteral(r, s) /\ ~MoreLiteral(s, r) /\ Len(r.path) = Len(s.path)
<1>1. /\ Len(r.path) = Len(s.path)
      /\ DOMAIN r.path = 1..Len(r.path)
      /\ DOMAIN s.path = 1..Len(s.path)
      /\ \A i \in 1..Len(r.path) : Shape(r.path)[i] = Param <=> IsParam(r.path[i])
      /\ \A i \in 1..Len(s.path) : Shape(s.path)[i] = Param <=> IsParam(s.path[i])
    BY RouteIsTyped, ShapeIsTyped, LenProperties
<1>2. \A i \in 1..Len(r.path) : IsParam(r.path[i]) <=> IsParam(s.path[i])
    BY <1>1, Zenon
<1> QED
    BY <1>1, <1>2 DEF MoreLiteral

(* pick: the best verb of those at the node.                               *)
LEMMA PickIsBest ==
    ASSUME NEW at, NEW S \in SUBSET Route, NEW method,
           \A r \in S : r.method \in DOMAIN at,
           \A m \in DOMAIN at : at[m] \in S /\ at[m].method = m
    PROVE  \/ Served(S, method) = {} /\ Pick(at, method) = NoRoute
           \/ \E m \in DOMAIN at :
                 /\ Pick(at, method) = at[m]
                 /\ at[m] \in Served(S, method)
                 /\ \A s \in Served(S, method) :
                       Rank(at[m], method) < Rank(s, method) \/ s.method = m
<1>1. CASE method \in DOMAIN at
    <2>1. Pick(at, method) = at[method]
        BY <1>1 DEF Pick
    <2>2. Rank(at[method], method) = 1
        BY <1>1, RankIs
    <2>3. \A s \in S : Rank(at[method], method) < Rank(s, method) \/ s.method = method
        BY <2>2, RankIs
    <2> QED
        BY <1>1, <2>1, <2>2, <2>3 DEF Served
<1>2. CASE method \notin DOMAIN at /\ MethodAny \in DOMAIN at
    <2>1. Pick(at, method) = at[MethodAny]
        BY <1>2 DEF Pick
    <2>2. Rank(at[MethodAny], method) <= 2
        BY <1>2, RankIs
    <2>3. \A s \in S : Rank(s, method) <= 2 => s.method = MethodAny
        BY <1>2, RankIs
    <2>4. \A s \in S : Rank(at[MethodAny], method) < Rank(s, method) \/ s.method = MethodAny
        BY <2>2, <2>3, RankIs
    <2> QED
        BY <1>2, <2>1, <2>2, <2>4, RankIs DEF Served
<1>3. CASE method \notin DOMAIN at /\ MethodAny \notin DOMAIN at /\ method = "HEAD" /\ "GET" \in DOMAIN at
    <2>1. Pick(at, method) = at["GET"]
        BY <1>3 DEF Pick
    <2>2. Rank(at["GET"], method) <= 3
        BY <1>3, RankIs
    <2>3. \A s \in S : Rank(s, method) <= 3 => s.method = "GET"
        BY <1>3, RankIs
    <2>4. \A s \in S : Rank(at["GET"], method) < Rank(s, method) \/ s.method = "GET"
        BY <2>2, <2>3, RankIs
    <2> QED
        BY <1>3, <2>1, <2>2, <2>4, RankIs DEF Served
<1>4. CASE /\ method \notin DOMAIN at
           /\ MethodAny \notin DOMAIN at
           /\ ~(method = "HEAD" /\ "GET" \in DOMAIN at)
    <2>1. Pick(at, method) = NoRoute
        BY <1>4 DEF Pick
    <2>2. \A s \in S : ~(Rank(s, method) <= 3)
        BY <1>4, RankIs
    <2>3. Served(S, method) = {}
        BY <2>2, RankIs DEF Served
    <2> QED
        BY <2>1, <2>3
<1> QED
    BY <1>1, <1>2, <1>3, <1>4

LEMMA ArriveIsGood ==
    ASSUME NEW t, NEW R \in SUBSET Route, Trie(t, R), Distinct(R),
           NEW path \in Seq(Segments), NEW method,
           NEW node \in DOMAIN t, Len(node) = Len(path), NodeFits(node, path)
    PROVE  Good(ArriveAt(t[node], method), Through(R, path, node), path, method, Len(node) + 1)
<1> DEFINE S == Through(R, path, node)
           at == t[node]
           found == ArriveAt(at, method)
<1>1. S \in SUBSET Route /\ S \subseteq R
    BY DEF Through
<1>2. /\ \A r \in S :
            /\ Shape(r.path) = node
            /\ Len(r.path) = Len(path)
            /\ r.method \in DOMAIN at
            /\ at[r.method].row <= r.row
      /\ \A m \in DOMAIN at : at[m] \in S /\ at[m].method = m
    BY RoutesAtEnd
<1> HIDE DEF S, at
<1>3. CASE Served(S, method) = {} /\ Pick(at, method) = NoRoute
    <2>1. found.route = NoRoute /\ found.allow = DOMAIN at
        BY <1>3 DEF ArriveAt
    <2>2. DOMAIN at = {r.method : r \in S}
        BY <1>2
    <2> QED
        BY <1>3, <2>1, <2>2 DEF Good, S, at
<1>4. ASSUME NEW m \in DOMAIN at,
             Pick(at, method) = at[m], at[m] \in Served(S, method),
             \A s \in Served(S, method) : Rank(at[m], method) < Rank(s, method) \/ s.method = m
      PROVE  First(found, Served(S, method), method) /\ Valued(found, path, Len(node) + 1)
    <2>1. at[m] \in S /\ at[m] \in Route /\ at[m].method = m
        BY <1>1, <1>2
    <2>2. found.route = at[m] /\ found.values = <<>>
        BY <1>4, <2>1, RouteIsTyped DEF ArriveAt
    <2>3. ASSUME NEW s \in Served(S, method), s # at[m]
          PROVE  Precedes(at[m], s, method)
        <3>1. s \in S /\ s \in Route
            BY <1>1 DEF Served
        <3>2. ~MoreLiteral(s, at[m]) /\ Len(s.path) = Len(at[m].path)
            BY <1>2, <2>1, <3>1, SameShape
        <3>3. CASE Rank(at[m], method) < Rank(s, method)
            BY <3>2, <3>3 DEF Precedes
        <3>4. CASE s.method = m
            <4>1. Rank(at[m], method) = Rank(s, method)
                BY <2>1, <3>4 DEF Rank
            <4>2. at[m].row <= s.row
                BY <1>2, <3>1, <3>4
            <4>3. at[m].row # s.row
                BY <1>1, <2>1, <2>3, <3>1, <3>2, <3>4 DEF Distinct
            <4>4. at[m].row < s.row
                BY <2>1, <3>1, <4>2, <4>3, RouteIsTyped
            <4> QED
                BY <3>2, <4>1, <4>4 DEF Precedes
        <3> QED
            BY <1>4, <3>3, <3>4
    <2>4. First(found, Served(S, method), method)
        BY <1>4, <2>2, <2>3 DEF First
    <2>5. ParamPlaces(found.route, Len(node) + 1, Len(path)) = {}
        <3>1. Len(node) + 1 > Len(path) /\ Len(path) \in Nat
            BY LenProperties
        <3>2. (Len(node) + 1)..Len(path) = {}
            BY <3>1
        <3> QED
            BY <3>2 DEF ParamPlaces
    <2>6. Valued(found, path, Len(node) + 1)
        <3>1. <<>> \in Seq(Segments) /\ Len(<<>>) = 0
            OBVIOUS
        <3>2. Cardinality(ParamPlaces(found.route, Len(node) + 1, Len(path))) = 0
            BY <2>5, FS_EmptySet
        <3> HIDE DEF found
        <3> QED
            BY <2>2, <2>5, <3>1, <3>2, Zenon DEF Valued
    <2> QED
        BY <2>4, <2>6
<1>5. \/ Served(S, method) = {} /\ Pick(at, method) = NoRoute
      \/ \E m \in DOMAIN at :
            /\ Pick(at, method) = at[m]
            /\ at[m] \in Served(S, method)
            /\ \A s \in Served(S, method) : Rank(at[m], method) < Rank(s, method) \/ s.method = m
    <2> HIDE DEF found
    <2>1. \A r \in S : r.method \in DOMAIN at
        BY <1>2
    <2>2. \A m \in DOMAIN at : at[m] \in S /\ at[m].method = m
        BY <1>2
    <2> QED
        BY <1>1, <2>1, <2>2, PickIsBest
<1> QED
    BY <1>3, <1>4, <1>5 DEF Good, S, at

(* The routes that pass a node and fit the path pass its literal child for *)
(* the next segment, or its parameter's child if a parameter stands there. *)
LEMMA RoutesBelow ==
    ASSUME NEW R \in SUBSET Route, NEW path \in Seq(Segments),
           NEW node \in Seq(Edges), NEW k, k = Len(node) + 1, Len(node) < Len(path)
    PROVE  \A r \in R :
              /\ r \in Through(R, path, Append(node, path[k]))
                    <=> r \in Through(R, path, node) /\ ~IsParam(r.path[k])
              /\ r \in Through(R, path, Append(node, Param))
                    <=> r \in Through(R, path, node) /\ IsParam(r.path[k])
<1> SUFFICES ASSUME NEW r \in R
             PROVE  /\ r \in Through(R, path, Append(node, path[k]))
                          <=> r \in Through(R, path, node) /\ ~IsParam(r.path[k])
                    /\ r \in Through(R, path, Append(node, Param))
                          <=> r \in Through(R, path, node) /\ IsParam(r.path[k])
    OBVIOUS
<1>1. /\ k \in 1..Len(path) /\ path[k] \in Segments /\ path[k] \in Edges /\ Param \in Edges
      /\ k \in Nat /\ Len(node) \in Nat /\ Len(path) \in Nat
    BY ChildrenAreTyped, LenProperties DEF Edges
<1>2. CASE ~Fits(r, path)
    BY <1>2 DEF Through
<1>3. CASE Fits(r, path)
    <2> DEFINE shape == Shape(r.path)
    <2>1. /\ Len(r.path) = Len(path)
          /\ \A i \in 1..Len(path) : IsParam(r.path[i]) \/ r.path[i] = path[i]
        BY <1>3, FitsIs
    <2>2. /\ shape \in Seq(Edges)
          /\ Len(shape) = Len(path)
          /\ \A i \in 1..Len(path) :
                /\ shape[i] = IF IsParam(r.path[i]) THEN Param ELSE r.path[i]
                /\ shape[i] = Param <=> IsParam(r.path[i])
        BY <2>1, RouteIsTyped, ShapeIsTyped
    <2>3. path[k] # Param
        BY <1>1, SegmentsAssumption
    <2>4. /\ ~IsParam(r.path[k]) => shape[k] = path[k]
          /\ IsParam(r.path[k]) <=> shape[k] = Param
        BY <1>1, <2>1, <2>2
    <2> HIDE DEF shape
    <2>5. ASSUME NEW edge \in Edges
          PROVE  Append(node, edge) \in Prefixes(shape)
                    <=> node \in Prefixes(shape) /\ shape[k] = edge
        <3> DEFINE child == Append(node, edge)
        <3>1. /\ child \in Seq(Edges)
              /\ Len(child) = k
              /\ \A i \in 1..Len(node) : child[i] = node[i]
              /\ child[k] = edge
            BY AppendProperties
        <3> HIDE DEF child
        <3>2. ASSUME child \in Prefixes(shape)
              PROVE  node \in Prefixes(shape) /\ shape[k] = edge
            <4>1. \A i \in 1..k : child[i] = shape[i]
                BY <2>2, <3>1, <3>2, PrefixesAreTyped
            <4>2. k \in 1..k /\ \A i \in 1..Len(node) : i \in 1..k
                BY <1>1
            <4>3. Len(node) <= Len(shape) /\ \A i \in 1..Len(node) : node[i] = shape[i]
                BY <1>1, <2>2, <3>1, <4>1, <4>2
            <4>4. node \in Prefixes(shape)
                BY <2>2, <4>3, PrefixIs
            <4> QED
                BY <3>1, <4>1, <4>2, <4>4
        <3>3. ASSUME node \in Prefixes(shape), shape[k] = edge
              PROVE  child \in Prefixes(shape)
            <4>1. \A i \in 1..Len(node) : node[i] = shape[i]
                BY <2>2, <3>3, PrefixesAreTyped
            <4>2. \A i \in 1..k : i \in 1..Len(node) \/ i = k
                BY <1>1
            <4>3. \A i \in 1..Len(child) : child[i] = shape[i]
                BY <3>1, <3>3, <4>1, <4>2
            <4>4. Len(child) <= Len(shape)
                BY <1>1, <2>2, <3>1
            <4> QED
                BY <2>2, <3>1, <4>3, <4>4, PrefixIs
        <3> QED
            BY <3>2, <3>3 DEF child
    <2>6. /\ Append(node, path[k]) \in Prefixes(shape)
                <=> node \in Prefixes(shape) /\ ~IsParam(r.path[k])
          /\ Append(node, Param) \in Prefixes(shape)
                <=> node \in Prefixes(shape) /\ IsParam(r.path[k])
        BY <1>1, <2>3, <2>4, <2>5, Zenon
    <2> QED
        BY <1>3, <2>6 DEF Through, shape
<1> QED
    BY <1>2, <1>3

(* Below a node, a route by its literal child precedes one by the other.   *)
LEMMA LiteralPrecedes ==
    ASSUME NEW R \in SUBSET Route, NEW path \in Seq(Segments), NEW method,
           NEW node \in Seq(Edges), NEW k, k = Len(node) + 1, Len(node) < Len(path),
           NEW r \in Through(R, path, Append(node, path[k])),
           NEW s \in Through(R, path, Append(node, Param))
    PROVE  Precedes(r, s, method)
<1>1. r \in R /\ s \in R /\ r \in Route /\ s \in Route
    BY DEF Through
<1>2. /\ r \in Through(R, path, node) /\ ~IsParam(r.path[k])
      /\ s \in Through(R, path, node) /\ IsParam(s.path[k])
    BY <1>1, RoutesBelow
<1>3. /\ node \in Prefixes(Shape(r.path)) /\ node \in Prefixes(Shape(s.path))
      /\ Len(r.path) = Len(path) /\ DOMAIN r.path = 1..Len(path)
    BY <1>1, <1>2, RouteIsTyped, LenProperties DEF Through, Fits
<1>4. \A i \in 1..Len(node) : IsParam(r.path[i]) <=> IsParam(s.path[i])
    BY <1>1, <1>3, ThroughIs, Zenon
<1>5. k \in DOMAIN r.path /\ 1..(k - 1) = 1..Len(node)
    BY <1>3, LenProperties
<1>6. MoreLiteral(r, s)
    BY <1>2, <1>4, <1>5, Zenon DEF MoreLiteral
<1> QED
    BY <1>6 DEF Precedes

(* The places from a segment on: itself if a parameter stands there, and   *)
(* those from the next.                                                    *)
LEMMA PlacesAreFinite ==
    ASSUME NEW route, NEW k \in Nat, NEW n \in Nat
    PROVE  /\ IsFiniteSet(ParamPlaces(route, k, n))
           /\ Cardinality(ParamPlaces(route, k, n)) \in Nat
<1>1. k \in Int /\ n \in Int
    OBVIOUS
<1>2. IsFiniteSet(k..n)
    BY <1>1, FS_Interval
<1>3. ParamPlaces(route, k, n) \subseteq k..n
    BY DEF ParamPlaces
<1> QED
    BY <1>2, <1>3, FS_Subset, FS_CardinalityType

LEMMA LiteralPlace ==
    ASSUME NEW route, NEW k \in Nat, NEW n \in Nat, k <= n, ~IsParam(route.path[k])
    PROVE  ParamPlaces(route, k, n) = ParamPlaces(route, k + 1, n)
<1>1. k..n = (k + 1)..n \union {k}
    OBVIOUS
<1> QED
    BY <1>1 DEF ParamPlaces

LEMMA ParamPlace ==
    ASSUME NEW route, NEW k \in Nat, NEW n \in Nat, k <= n, IsParam(route.path[k])
    PROVE  /\ ParamPlaces(route, k, n) = ParamPlaces(route, k + 1, n) \union {k}
           /\ Cardinality(ParamPlaces(route, k, n))
                 = Cardinality(ParamPlaces(route, k + 1, n)) + 1
<1> DEFINE P == ParamPlaces(route, k + 1, n)
<1>1. k..n = (k + 1)..n \union {k} /\ k \notin (k + 1)..n
    OBVIOUS
<1>2. ParamPlaces(route, k, n) = P \union {k}
    BY <1>1 DEF ParamPlaces
<1>3. k \notin P
    BY <1>1 DEF ParamPlaces
<1>4. k + 1 \in Nat
    OBVIOUS
<1>5. IsFiniteSet(P) /\ Cardinality(P) \in Nat
    BY <1>4, PlacesAreFinite
<1> HIDE DEF P
<1>6. Cardinality(P \union {k}) = Cardinality(P) + 1
    BY <1>3, <1>5, FS_AddElement
<1> QED
    BY <1>2, <1>6 DEF P

LEMMA ValuedByLiteral ==
    ASSUME NEW found, NEW path, Len(path) \in Nat, NEW k \in Nat, k <= Len(path),
           Valued(found, path, k + 1), ~IsParam(found.route.path[k])
    PROVE  Valued(found, path, k)
<1>1. ASSUME NEW n \in Nat, k <= n
      PROVE  ParamPlaces(found.route, k, n) = ParamPlaces(found.route, k + 1, n)
    BY <1>1, LiteralPlace, Zenon
<1>2. \A i \in ParamPlaces(found.route, k, Len(path)) : i \in Nat /\ k <= i
    BY DEF ParamPlaces
<1> QED
    BY <1>1, <1>2 DEF Valued

LEMMA ValuedByParam ==
    ASSUME NEW found, NEW path, Len(path) \in Nat, NEW k \in Nat, k <= Len(path),
           path[k] \in Segments,
           Valued(found, path, k + 1), IsParam(found.route.path[k]),
           NEW bound, bound.route = found.route, bound.values = <<path[k]>> \o found.values
    PROVE  Valued(bound, path, k)
<1> DEFINE P(n) == ParamPlaces(found.route, k, n)
           Q(n) == ParamPlaces(found.route, k + 1, n)
           n == Len(path)
<1>1. /\ found.values \in Seq(Segments)
      /\ Len(found.values) = Cardinality(Q(n))
      /\ \A i \in Q(n) : found.values[Cardinality(Q(i))] = path[i]
    BY DEF Valued
<1>2. ASSUME NEW i \in Nat, k <= i
      PROVE  /\ IsFiniteSet(Q(i)) /\ Cardinality(Q(i)) \in Nat
             /\ P(i) = Q(i) \union {k} /\ Cardinality(P(i)) = Cardinality(Q(i)) + 1
    <2>1. k + 1 \in Nat
        OBVIOUS
    <2>2. IsFiniteSet(Q(i)) /\ Cardinality(Q(i)) \in Nat
        BY <2>1, PlacesAreFinite
    <2>3. P(i) = Q(i) \union {k} /\ Cardinality(P(i)) = Cardinality(Q(i)) + 1
        BY <1>2, ParamPlace
    <2> QED
        BY <2>2, <2>3
<1>3. /\ bound.values \in Seq(Segments)
      /\ Len(bound.values) = Len(found.values) + 1
      /\ bound.values[1] = path[k]
      /\ \A c \in 1..Len(found.values) : bound.values[c + 1] = found.values[c]
    <2>1. <<path[k]>> \in Seq(Segments) /\ Len(<<path[k]>>) = 1 /\ <<path[k]>>[1] = path[k]
        OBVIOUS
    <2>2. Len(found.values) \in Nat
        BY <1>1, LenProperties
    <2>3. /\ bound.values \in Seq(Segments)
          /\ Len(bound.values) = 1 + Len(found.values)
          /\ \A c \in 1..(1 + Len(found.values)) :
                bound.values[c] = IF c <= 1 THEN <<path[k]>>[c] ELSE found.values[c - 1]
        BY <1>1, <2>1, ConcatProperties
    <2>4. bound.values[1] = path[k]
        BY <2>1, <2>2, <2>3
    <2>5. \A c \in 1..Len(found.values) : bound.values[c + 1] = found.values[c]
        BY <2>2, <2>3
    <2>6. Len(bound.values) = Len(found.values) + 1
        BY <2>2, <2>3
    <2> QED
        BY <2>3, <2>4, <2>5, <2>6, Zenon
<1>4. Len(bound.values) = Cardinality(P(n))
    BY <1>1, <1>2, <1>3
<1>5. ASSUME NEW i \in P(n)
      PROVE  bound.values[Cardinality(P(i))] = path[i]
    <2>1. CASE i = k
        <3>1. Q(k) = {}
            BY DEF ParamPlaces
        <3>2. Cardinality(Q(k)) = 0
            BY <3>1, FS_EmptySet, Zenon
        <3>3. k \in Nat /\ k <= k
            OBVIOUS
        <3>4. Cardinality(P(k)) = Cardinality(Q(k)) + 1
            BY <1>2, <3>3
        <3> HIDE DEF P, Q
        <3>5. Cardinality(P(k)) = 1
            BY <3>2, <3>4
        <3> QED
            BY <1>3, <2>1, <3>5
    <2>2. CASE i # k
        <3>1. i \in Q(n)
            BY <1>2, <2>2
        <3>2. i \in Nat /\ k <= i /\ i \in Q(i) /\ Q(i) \subseteq Q(n)
            BY <3>1 DEF ParamPlaces
        <3> HIDE DEF P, Q, n
        <3>3. n \in Nat /\ k <= n
            BY DEF n
        <3>4. /\ IsFiniteSet(Q(n)) /\ Cardinality(Q(n)) \in Nat
              /\ IsFiniteSet(Q(i)) /\ Cardinality(Q(i)) \in Nat
            BY <1>2, <3>2, <3>3
        <3>5. Cardinality(Q(i)) <= Cardinality(Q(n))
            BY <3>2, <3>4, FS_Subset
        <3>6. Cardinality(Q(i)) # 0
            BY <3>2, <3>4, FS_EmptySet
        <3>7. Cardinality(Q(i)) \in 1..Len(found.values)
            BY <1>1, <3>4, <3>5, <3>6
        <3>8. bound.values[Cardinality(Q(i)) + 1] = found.values[Cardinality(Q(i))]
            BY <1>3, <3>7
        <3>9. Cardinality(P(i)) = Cardinality(Q(i)) + 1
            BY <1>2, <3>2
        <3> QED
            BY <1>1, <3>1, <3>8, <3>9
    <2> QED
        BY <2>1, <2>2
<1> QED
    BY <1>3, <1>4, <1>5 DEF Valued
-----------------------------------------------------------------------------

(* walk: what a node answers of what its two children do.                  *)
LEMMA InTurnIsGood ==
    ASSUME NEW R \in SUBSET Route, NEW path \in Seq(Segments), NEW method,
           NEW node \in Seq(Edges), NEW k, k = Len(node) + 1, Len(node) < Len(path),
           NEW literal, NEW param,
           Good(literal, Through(R, path, Append(node, path[k])), path, method, k + 1),
           Good(param, Through(R, path, Append(node, Param)), path, method, k + 1)
    PROVE  Good(InTurn(literal, Bound(path[k], param)), Through(R, path, node), path, method, k)
<1> DEFINE S == Through(R, path, node)
           L == Through(R, path, Append(node, path[k]))
           P == Through(R, path, Append(node, Param))
           found == InTurn(literal, Bound(path[k], param))
<1>1. /\ \A r \in S : r \in R /\ r \in Route
      /\ \A r \in L : r \in R /\ r \in Route
      /\ \A r \in P : r \in R /\ r \in Route
    BY DEF Through
<1>2. /\ \A r \in R : r \in L <=> r \in S /\ ~IsParam(r.path[k])
      /\ \A r \in R : r \in P <=> r \in S /\ IsParam(r.path[k])
    <2>1. ASSUME NEW r \in R, r \in L
          PROVE  r \in S /\ ~IsParam(r.path[k])
        BY <2>1, RoutesBelow
    <2>2. ASSUME NEW r \in R, r \in S, ~IsParam(r.path[k])
          PROVE  r \in L
        BY <2>2, RoutesBelow
    <2>3. ASSUME NEW r \in R, r \in P
          PROVE  r \in S /\ IsParam(r.path[k])
        BY <2>3, RoutesBelow
    <2>4. ASSUME NEW r \in R, r \in S, IsParam(r.path[k])
          PROVE  r \in P
        BY <2>4, RoutesBelow
    <2> QED
        BY <2>1, <2>2, <2>3, <2>4, Zenon
<1>3. \A r \in L, s \in P : Precedes(r, s, method)
    BY LiteralPrecedes
<1>4. /\ k \in Nat /\ k <= Len(path) /\ Len(path) \in Nat /\ path[k] \in Segments
    BY ChildrenAreTyped, LenProperties
<1>5. Good(literal, L, path, method, k + 1) /\ Good(param, P, path, method, k + 1)
    OBVIOUS
<1> HIDE DEF S, L, P
<1>6. S = L \union P
    BY <1>1, <1>2
<1>7. /\ Served(S, method) = Served(L, method) \union Served(P, method)
      /\ {r.method : r \in S} = {r.method : r \in L} \union {r.method : r \in P}
    BY <1>6 DEF Served
<1>8. CASE /\ Served(L, method) = {}
           /\ literal.route = NoRoute
           /\ literal.allow = {r.method : r \in L}
    <2>1. /\ found.route = param.route
          /\ found.values = <<path[k]>> \o param.values
          /\ found.allow = literal.allow \union param.allow
        BY <1>8 DEF InTurn, Bound
    <2> HIDE DEF found
    <2>2. Served(S, method) = Served(P, method)
        BY <1>7, <1>8
    <2>3. CASE /\ Served(P, method) = {}
               /\ param.route = NoRoute
               /\ param.allow = {r.method : r \in P}
        <3>1. found.allow = {r.method : r \in S}
            BY <1>7, <1>8, <2>1, <2>3
        <3> QED
            BY <2>1, <2>2, <2>3, <3>1 DEF Good, S, found
    <2>4. CASE First(param, Served(P, method), method) /\ Valued(param, path, k + 1)
        <3>1. First(found, Served(S, method), method)
            BY <2>1, <2>2, <2>4 DEF First
        <3>2. param.route \in P
            BY <2>4 DEF First, Served
        <3>3. IsParam(param.route.path[k])
            BY <1>1, <1>2, <3>2
        <3>4. Valued(found, path, k)
            BY <1>4, <2>1, <2>4, <3>3, ValuedByParam
        <3> QED
            BY <3>1, <3>4 DEF Good, S, found
    <2> QED
        BY <1>5, <2>3, <2>4 DEF Good
<1>9. CASE First(literal, Served(L, method), method) /\ Valued(literal, path, k + 1)
    <2>1. literal.route \in Served(L, method) /\ literal.route \in L
        BY <1>9 DEF First, Served
    <2>2. literal.route # NoRoute
        BY <1>1, <2>1, RouteIsTyped
    <2>3. found = literal
        BY <2>2 DEF InTurn
    <2>4. ASSUME NEW s \in Served(S, method), s # literal.route
          PROVE  Precedes(literal.route, s, method)
        <3>1. CASE s \in Served(L, method)
            BY <1>9, <2>4, <3>1 DEF First
        <3>2. CASE s \in Served(P, method)
            <4>1. s \in P
                BY <3>2 DEF Served
            <4> QED
                BY <1>3, <2>1, <4>1
        <3> QED
            BY <1>7, <3>1, <3>2
    <2>5. First(literal, Served(S, method), method)
        BY <1>7, <2>1, <2>4 DEF First
    <2>6. ~IsParam(literal.route.path[k])
        BY <1>1, <1>2, <2>1
    <2>7. Valued(literal, path, k)
        BY <1>4, <1>9, <2>6, ValuedByLiteral
    <2> HIDE DEF found
    <2>8. Good(found, S, path, method, k)
        BY <2>3, <2>5, <2>7 DEF Good
    <2> QED
        BY <2>8 DEF found, S
<1> QED
    BY <1>5, <1>8, <1>9 DEF Good

(* No route passes a node there is not.                                    *)
LEMMA MissIsGood ==
    ASSUME NEW t, NEW R \in SUBSET Route, Trie(t, R), NEW path, NEW method, NEW from,
           NEW node, node \notin DOMAIN t
    PROVE  Good(Miss, Through(R, path, node), path, method, from)
<1>1. Through(R, path, node) = {}
    BY DEF Through, Trie
<1>2. Served(Through(R, path, node), method) = {}
    BY <1>1 DEF Served
<1>3. Miss.route = NoRoute /\ Miss.allow = {}
    BY DEF Miss
<1> QED
    BY <1>1, <1>2, <1>3 DEF Good

(* The search finds what it must, by descent: at the deepest node where it *)
(* did not, it did at both children.                                       *)
LEMMA SearchIsGood ==
    ASSUME NEW t, NEW R \in SUBSET Route, Trie(t, R), Distinct(R),
           NEW path \in Seq(Segments), NEW method
    PROVE  Good(Search(t, path, method), Through(R, path, <<>>), path, method, 1)
<1>1. DOMAIN t \subseteq Seq(Edges) /\ <<>> \in DOMAIN t /\ Len(path) \in Nat
    BY NodesAreTyped, LenProperties
<1>2. PICK walk :
          /\ walk = [node \in WithinReach(t, path) |-> Visit(t, path, method, walk, node)]
          /\ Search(t, path, method) = walk[<<>>]
    BY <1>1, SearchStepByStep
<1>3. \A node \in WithinReach(t, path) : walk[node] = Visit(t, path, method, walk, node)
    BY <1>2
<1>4. \A node \in WithinReach(t, path) :
          node \in DOMAIN t /\ node \in Seq(Edges) /\ Len(node) \in Nat /\ Len(node) <= Len(path)
    BY <1>1, LenProperties DEF WithinReach
<1> DEFINE GoodAt(node) == Good(walk[node], Through(R, path, node), path, method, Len(node) + 1)
           Reached == {node \in WithinReach(t, path) : NodeFits(node, path)}
           Bad == {Len(path) - Len(node) : node \in {n \in Reached : ~GoodAt(n)}}
<1>5. \A node \in Reached : GoodAt(node)
    <2> SUFFICES ASSUME \E node \in Reached : ~GoodAt(node) PROVE FALSE
        OBVIOUS
    <2>1. Bad # {}
        OBVIOUS
    <2>2. Bad \subseteq Nat
        BY <1>1, <1>4
    <2>3. PICK d \in Bad : \A e \in Bad : d <= e
        <3> HIDE DEF Bad
        <3> QED
            BY <2>1, <2>2, LeastOf
    <2>4. PICK node \in Reached : ~GoodAt(node) /\ d = Len(path) - Len(node)
        OBVIOUS
    <2>5. /\ node \in WithinReach(t, path) /\ NodeFits(node, path)
          /\ node \in DOMAIN t /\ node \in Seq(Edges) /\ Len(node) \in Nat /\ Len(node) <= Len(path)
        BY <1>4
    <2>6. \A child \in Reached : Len(child) = Len(node) + 1 => GoodAt(child)
        <3> SUFFICES ASSUME NEW child \in Reached, Len(child) = Len(node) + 1, ~GoodAt(child)
                     PROVE  FALSE
            OBVIOUS
        <3>1. Len(path) - Len(child) \in Bad
            OBVIOUS
        <3>2. d <= Len(path) - Len(child)
            <4> HIDE DEF Bad
            <4> QED
                BY <2>3, <3>1
        <3> QED
            BY <1>1, <2>4, <2>5, <3>2
    <2>7. CASE Len(node) = Len(path)
        <3>1. walk[node] = ArriveAt(t[node], method)
            BY <1>3, <2>5, <2>7 DEF Visit
        <3>2. Good(ArriveAt(t[node], method), Through(R, path, node), path, method, Len(node) + 1)
            BY <2>5, <2>7, ArriveIsGood
        <3> QED
            BY <2>4, <3>1, <3>2
    <2>8. CASE Len(node) # Len(path)
        <3> DEFINE k == Len(node) + 1
                   literal == Below(t, walk, Append(node, path[k]))
                   param == Below(t, walk, Append(node, Param))
        <3>1. Len(node) < Len(path)
            BY <1>1, <2>5, <2>8
        <3>2. walk[node] = InTurn(literal, Bound(path[k], param))
            BY <1>3, <2>5, <2>8, Zenon DEF Visit
        <3>3. ASSUME NEW edge \in {path[k], Param}
              PROVE  Good(Below(t, walk, Append(node, edge)),
                          Through(R, path, Append(node, edge)), path, method, k + 1)
            <4> DEFINE child == Append(node, edge)
            <4>1. child \in Seq(Edges) /\ Len(child) = k /\ k <= Len(path) /\ edge \in Edges
                BY <2>5, <3>1, ChildrenAreTyped DEF Edges
            <4>2. \A i \in 1..Len(node) : child[i] = node[i]
                BY <2>5, <4>1, AppendProperties
            <4>3. child[k] = edge
                BY <2>5, <4>1, AppendProperties
            <4> HIDE DEF child
            <4>4. NodeFits(child, path)
                <5>1. \A i \in 1..k : i \in 1..Len(node) \/ i = k
                    BY <2>5
                <5>2. \A i \in 1..k : child[i] = Param \/ child[i] = path[i]
                    BY <2>5, <3>3, <4>2, <4>3, <5>1 DEF NodeFits
                <5> QED
                    BY <4>1, <5>2 DEF NodeFits
            <4>5. CASE child \in DOMAIN t
                <5>1. child \in Reached
                    BY <4>1, <4>4, <4>5 DEF WithinReach
                <5>2. GoodAt(child) /\ Below(t, walk, child) = walk[child]
                    BY <2>6, <4>1, <4>5, <5>1 DEF Below
                <5> QED
                    BY <4>1, <5>2 DEF child
            <4>6. CASE child \notin DOMAIN t
                <5>1. Below(t, walk, child) = Miss
                    BY <4>6 DEF Below
                <5>2. Good(Miss, Through(R, path, child), path, method, k + 1)
                    BY <4>6, MissIsGood
                <5> QED
                    BY <5>1, <5>2 DEF child
            <4> QED
                BY <4>5, <4>6
        <3>4. /\ Good(literal, Through(R, path, Append(node, path[k])), path, method, k + 1)
              /\ Good(param, Through(R, path, Append(node, Param)), path, method, k + 1)
            BY <3>3
        <3> HIDE DEF literal, param
        <3>5. Good(InTurn(literal, Bound(path[k], param)), Through(R, path, node), path, method, k)
            BY <2>5, <3>1, <3>4, InTurnIsGood
        <3> QED
            BY <2>4, <3>2, <3>5
    <2> QED
        BY <2>7, <2>8
<1>6. <<>> \in Reached /\ Len(<<>>) = 0
    <2>1. Len(<<>>) = 0 /\ 1..0 = {}
        OBVIOUS
    <2> QED
        BY <1>1, <2>1 DEF WithinReach, NodeFits
<1>7. Good(walk[<<>>], Through(R, path, <<>>), path, method, Len(<<>>) + 1)
    BY <1>5, <1>6
<1>8. Len(<<>>) + 1 = 1
    BY <1>6
<1> QED
    BY <1>2, <1>7, <1>8
-----------------------------------------------------------------------------

-----------------------------------------------------------------------------
(* What a table answers, of the routes it was built from.                  *)
LEMMA LookupIs ==
    ASSUME NEW t, NEW R \in SUBSET Route, Trie(t, R), Distinct(R),
           NEW path \in Seq(Segments), NEW method,
           NEW S, S = {r \in R : Fits(r, path)},
           NEW answer, answer = LookupIn(t, method, path)
    PROVE  \/ /\ Served(S, method) = {}
              /\ answer.outcome \in {"no route", "wrong method"}
              /\ answer.outcome = "no route" <=> S = {}
              /\ answer.allow = AllowedVerbs({r.method : r \in S})
           \/ /\ answer.outcome = "matched"
              /\ First(answer, Served(S, method), method)
              /\ Valued(answer, path, 1)
<1> DEFINE found == Search(t, path, method)
<1>1. S = Through(R, path, <<>>)
    <2>1. \A r \in R : <<>> \in Prefixes(Shape(r.path))
        BY RouteIsTyped, ShapeIsTyped, PrefixesHave
    <2> QED
        BY <2>1 DEF Through
<1>2. Good(found, S, path, method, 1)
    BY <1>1, SearchIsGood
<1>3. answer = IF found.route # NoRoute
               THEN [outcome |-> "matched", route |-> found.route, values |-> found.values,
                     allow |-> {}]
               ELSE [outcome |-> IF found.allow = {} THEN "no route" ELSE "wrong method",
                     route |-> NoRoute, values |-> <<>>, allow |-> AllowedVerbs(found.allow)]
    BY DEF LookupIn
<1> HIDE DEF found
<1>4. CASE /\ Served(S, method) = {}
           /\ found.route = NoRoute
           /\ found.allow = {r.method : r \in S}
    <2>1. {r.method : r \in S} = {} <=> S = {}
        OBVIOUS
    <2>2. answer = [outcome |-> IF found.allow = {} THEN "no route" ELSE "wrong method",
                    route |-> NoRoute, values |-> <<>>, allow |-> AllowedVerbs(found.allow)]
        BY <1>3, <1>4
    <2>3. ASSUME NEW o, NEW a,
                 answer = [outcome |-> o, route |-> NoRoute, values |-> <<>>, allow |-> a]
          PROVE  answer.outcome = o /\ answer.allow = a
        BY <2>3
    <2>4. /\ answer.outcome = IF found.allow = {} THEN "no route" ELSE "wrong method"
          /\ answer.allow = AllowedVerbs(found.allow)
        BY <2>2, <2>3, Zenon
    <2> QED
        BY <1>4, <2>1, <2>4
<1>5. CASE First(found, Served(S, method), method) /\ Valued(found, path, 1)
    <2>1. found.route \in R
        BY <1>5 DEF First, Served
    <2>2. found.route # NoRoute
        BY <2>1, RouteIsTyped
    <2>3. answer.outcome = "matched" /\ answer.route = found.route /\ answer.values = found.values
        BY <1>3, <2>2
    <2> QED
        BY <1>5, <2>3 DEF First, Valued
<1> QED
    BY <1>2, <1>4, <1>5 DEF Good

LEMMA RefsAreTyped ==
    ASSUME NEW rows \in SUBSET DOMAIN Rows,
           NEW R, R = UNION {ToSet(Expand(i)) : i \in rows}
    PROVE  R \in SUBSET Route /\ Distinct(R)
<1>1. R \in SUBSET Route /\ \A r \in R : r.row \in rows /\ r \in ToSet(Expand(r.row))
    BY RoutesOfRows
<1>2. Distinct(R)
    BY <1>1, RoutesDiffer DEF Distinct
<1> QED
    BY <1>1, <1>2

LEMMA InvOfRefs ==
    ASSUME MatcherIInv
    PROVE  refs \in SUBSET Route /\ Distinct(refs) /\ Trie(trie, refs)
<1>1. read \in SUBSET DOMAIN Rows /\ refs = UNION {ToSet(Expand(i)) : i \in read}
    BY DEF MatcherIInv, MatcherTypeOK
<1>2. refs \in SUBSET Route /\ Distinct(refs)
    BY <1>1, RefsAreTyped
<1>3. Trie(trie, refs)
    BY InvIsTrie DEF MatcherIInv, NodesArePatterns, RoutesAreTheirNodes, FirstIsServed
<1> QED
    BY <1>2, <1>3

LEMMA InvOfRefsNext ==
    ASSUME MatcherIInv'
    PROVE  refs' \in SUBSET Route /\ Distinct(refs') /\ Trie(trie', refs')
<1>1. read' \in SUBSET DOMAIN Rows /\ refs' = UNION {ToSet(Expand(i)) : i \in read'}
    BY DEF MatcherIInv, MatcherTypeOK
<1>2. refs' \in SUBSET Route /\ Distinct(refs')
    BY <1>1, RefsAreTyped
<1>3. Trie(trie', refs')
    BY InvIsTrie DEF MatcherIInv, NodesArePatterns, RoutesAreTheirNodes, FirstIsServed
<1> QED
    BY <1>2, <1>3

LEMMA InvIsPrecedence == MatcherIInv => LookupIsPrecedence
<1> SUFFICES ASSUME MatcherIInv, NEW method \in Methods, NEW path \in Paths
             PROVE  LET answer == Lookup(method, path)
                        answering == Answering(method, path)
                    IN  IF answering = {}
                        THEN /\ answer.outcome # "matched"
                             /\ answer.outcome = "no route" <=> Fitting(path) = {}
                        ELSE /\ answer.route \in answering
                             /\ \A s \in answering \ {answer.route} :
                                   Precedes(answer.route, s, method)
                             /\ Len(answer.values)
                                   = Cardinality(ParamPlaces(answer.route, 1, Len(path)))
                             /\ \A i \in ParamPlaces(answer.route, 1, Len(path)) :
                                   answer.values[Cardinality(ParamPlaces(answer.route, 1, i))]
                                      = path[i]
    BY DEF LookupIsPrecedence
<1> DEFINE answer == Lookup(method, path)
           S == Fitting(path)
<1>1. path \in Seq(Segments) /\ S = {r \in refs : Fits(r, path)} /\ answer = LookupIn(trie, method, path)
    BY PathsAssumption DEF Fitting, Lookup
<1>2. Answering(method, path) = Served(S, method)
    BY DEF Answering, Served
<1> HIDE DEF answer, S
<1>3. CASE /\ Served(S, method) = {}
           /\ answer.outcome \in {"no route", "wrong method"}
           /\ answer.outcome = "no route" <=> S = {}
    BY <1>2, <1>3 DEF answer, S
<1>4. CASE First(answer, Served(S, method), method) /\ Valued(answer, path, 1)
    BY <1>2, <1>4 DEF First, Valued, answer
<1> QED
    BY <1>1, <1>3, <1>4, InvOfRefs, LookupIs

(* For every request the trie answers as precedence among the routes read  *)
(* says, with the values of the path's parameters, and when it has no      *)
(* answer tells a path no pattern fits from a verb no route of them has.   *)
THEOREM PrecedenceHolds == MatcherSpec => []LookupIsPrecedence
    BY InvIsInductive, InvIsPrecedence, PTL

LEMMA InvIsTruthful == MatcherIInv => AllowIsTruthful
<1> SUFFICES ASSUME MatcherIInv, NEW method \in Methods, NEW path \in Paths,
                    Lookup(method, path).outcome = "wrong method"
             PROVE  Lookup(method, path).allow
                       = {m \in Methods : Lookup(m, path).outcome = "matched"}
    BY DEF AllowIsTruthful
<1> DEFINE S == {r \in refs : Fits(r, path)}
<1>1. path \in Seq(Segments) /\ refs \in SUBSET Route /\ Distinct(refs) /\ Trie(trie, refs)
    BY PathsAssumption, InvOfRefs
<1>2. S \in SUBSET Route
    BY <1>1
<1>3. ASSUME NEW m
      PROVE  \/ /\ Served(S, m) = {}
                /\ Lookup(m, path).outcome # "matched"
                /\ Lookup(m, path).allow = AllowedVerbs({r.method : r \in S})
             \/ Lookup(m, path).outcome = "matched" /\ Served(S, m) # {}
    <2> DEFINE answer == Lookup(m, path)
    <2>1. answer = LookupIn(trie, m, path)
        BY DEF Lookup
    <2> HIDE DEF answer, S
    <2>2. \/ /\ Served(S, m) = {}
             /\ answer.outcome \in {"no route", "wrong method"}
             /\ answer.allow = AllowedVerbs({r.method : r \in S})
          \/ /\ answer.outcome = "matched"
             /\ First(answer, Served(S, m), m)
        BY <1>1, <2>1, LookupIs DEF S
    <2> QED
        BY <2>2 DEF answer, First
<1> HIDE DEF S
<1>4. /\ Served(S, method) = {}
      /\ Lookup(method, path).allow = AllowedVerbs({r.method : r \in S})
    BY <1>3
<1>5. \A r \in S : r.method # MethodAny
    <2> SUFFICES ASSUME NEW r \in S, r.method = MethodAny
                 PROVE  FALSE
        OBVIOUS
    <2>1. Rank(r, method) \in 1..4 /\ Rank(r, method) <= 2
        BY RankIs
    <2>2. Rank(r, method) < 4
        BY <2>1, RanksOf, Zenon
    <2> QED
        BY <1>4, <2>2, Zenon DEF Served
<1>13. \A r \in S : r.method \in Methods
    BY <1>2, <1>5, RouteIsTyped
<1>6. ASSUME NEW m \in Methods
      PROVE  Served(S, m) # {} <=>
                \E r \in S : r.method = m \/ (m = "HEAD" /\ r.method = "GET")
    <2>1. ASSUME NEW r \in S
          PROVE  Rank(r, m) < 4 <=> r.method = m \/ (m = "HEAD" /\ r.method = "GET")
        <3>1. /\ Rank(r, m) \in 1..4
              /\ Rank(r, m) = 1 <=> r.method = m
              /\ m = "HEAD" /\ r.method = "GET" => Rank(r, m) <= 3
              /\ Rank(r, m) <= 3 =>
                    r.method = m \/ r.method = MethodAny \/ (m = "HEAD" /\ r.method = "GET")
            BY RankIs, Zenon
        <3>2. /\ Rank(r, m) < 4 <=> Rank(r, m) <= 3
              /\ Rank(r, m) = 1 => Rank(r, m) <= 3
            BY <3>1, RanksOf, Zenon
        <3> QED
            BY <1>5, <3>1, <3>2, Zenon
    <2> QED
        BY <2>1 DEF Served
<1>7. \A m \in Methods :
          m \in AllowedVerbs({r.method : r \in S})
             <=> \E r \in S : r.method = m \/ (m = "HEAD" /\ r.method = "GET")
    BY DEF AllowedVerbs
<1>8. AllowedVerbs({r.method : r \in S}) \subseteq Methods
    BY <1>13, MethodsAssumption DEF AllowedVerbs
<1>9. \A m \in Methods : Lookup(m, path).outcome = "matched" <=> Served(S, m) # {}
    BY <1>3
<1>10. \A m \in Methods :
          m \in AllowedVerbs({r.method : r \in S}) <=> Lookup(m, path).outcome = "matched"
    BY <1>6, <1>7, <1>9, Zenon
<1> DEFINE allow == Lookup(method, path).allow
<1>11. allow \subseteq Methods /\ \A m \in Methods : m \in allow <=> Lookup(m, path).outcome = "matched"
    BY <1>4, <1>8, <1>10, Zenon
<1> HIDE DEF allow
<1>12. allow = {m \in Methods : Lookup(m, path).outcome = "matched"}
    BY <1>11
<1> QED
    BY <1>12 DEF allow

(* For every request a 405 lists the verbs its path answers and no other.  *)
THEOREM AllowHolds == MatcherSpec => []AllowIsTruthful
    BY InvIsInductive, InvIsTruthful, PTL

(* Of two routes at most one precedes the other.                           *)
LEMMA PrecedenceIsStrict ==
    ASSUME NEW r \in Route, NEW s \in Route, NEW method,
           Len(r.path) = Len(s.path), Precedes(r, s, method)
    PROVE  ~Precedes(s, r, method)
<1>0. /\ DOMAIN r.path = 1..Len(r.path) /\ DOMAIN s.path = 1..Len(r.path) /\ Len(r.path) \in Nat
      /\ r.row \in Nat /\ s.row \in Nat
    BY RouteIsTyped, LenProperties
<1>1. ~(MoreLiteral(r, s) /\ MoreLiteral(s, r))
    <2> SUFFICES ASSUME MoreLiteral(r, s), MoreLiteral(s, r) PROVE FALSE
        OBVIOUS
    <2>1. PICK i \in 1..Len(r.path) :
              /\ ~IsParam(r.path[i]) /\ IsParam(s.path[i])
              /\ \A j \in 1..(i - 1) : IsParam(r.path[j]) <=> IsParam(s.path[j])
        BY <1>0 DEF MoreLiteral
    <2>2. PICK k \in 1..Len(r.path) :
              /\ ~IsParam(s.path[k]) /\ IsParam(r.path[k])
              /\ \A j \in 1..(k - 1) : IsParam(s.path[j]) <=> IsParam(r.path[j])
        BY <1>0 DEF MoreLiteral
    <2>3. i = k \/ i \in 1..(k - 1) \/ k \in 1..(i - 1)
        BY <1>0
    <2> QED
        BY <2>1, <2>2, <2>3
<1>2. Rank(r, method) \in Nat /\ Rank(s, method) \in Nat
    BY RankIs
<1>3. CASE MoreLiteral(r, s)
    BY <1>1, <1>3 DEF Precedes
<1>4. CASE ~MoreLiteral(r, s)
    BY <1>0, <1>2, <1>4 DEF Precedes
<1> QED
    BY <1>3, <1>4

LEMMA StepKeepsAnswers ==
    ASSUME MatcherIInv, MatcherIInv', [MatcherNext]_matcherVars,
           NEW method \in Methods, NEW path \in Paths,
           Lookup(method, path).outcome = "matched"
    PROVE  /\ Lookup(method, path)'.outcome = "matched"
           /\ \/ Lookup(method, path)'.route = Lookup(method, path).route
              \/ /\ Lookup(method, path)'.route \in refs' \ refs
                 /\ Precedes(Lookup(method, path)'.route, Lookup(method, path).route, method)
<1> DEFINE before == Lookup(method, path)
           after == Lookup(method, path)'
           S == {r \in refs : Fits(r, path)}
           T == {r \in refs' : Fits(r, path)}
<1>1. before = LookupIn(trie, method, path) /\ after = LookupIn(trie', method, path)
    BY DEF Lookup
<1>2. refs \subseteq refs'
    BY DEF MatcherNext, AddRow, matcherVars
<1>3. /\ path \in Seq(Segments)
      /\ refs \in SUBSET Route /\ Distinct(refs) /\ Trie(trie, refs)
      /\ refs' \in SUBSET Route /\ Distinct(refs') /\ Trie(trie', refs')
    BY PathsAssumption, InvOfRefs, InvOfRefsNext
<1>4. before.outcome = "matched"
    OBVIOUS
<1>5. S \subseteq T /\ \A r \in T : r \in Route /\ Len(r.path) = Len(path) /\ (r \in refs <=> r \in S)
    BY <1>2, <1>3 DEF Fits
<1> HIDE DEF before, after, S, T
<1>6. First(before, Served(S, method), method)
    BY <1>1, <1>3, <1>4, LookupIs DEF S
<1>7. before.route \in S /\ before.route \in Served(T, method)
    BY <1>5, <1>6 DEF First, Served
<1>8. after.outcome = "matched" /\ First(after, Served(T, method), method)
    BY <1>1, <1>3, <1>7, LookupIs DEF T
<1>9. after.route \in T /\ after.route \in Served(T, method)
    BY <1>8 DEF First, Served
<1>10. CASE after.route # before.route
    <2>1. Precedes(after.route, before.route, method)
        BY <1>7, <1>8, <1>10 DEF First
    <2>2. ~Precedes(before.route, after.route, method)
        BY <1>5, <1>7, <1>9, <2>1, PrecedenceIsStrict
    <2>3. after.route \notin Served(S, method)
        BY <1>6, <1>10, <2>2 DEF First
    <2>4. after.route \notin refs
        BY <1>5, <1>9, <2>3 DEF Served
    <2>5. after.route \in refs'
        BY <1>9 DEF T
    <2> QED
        BY <1>8, <2>1, <2>4, <2>5 DEF before, after
<1>11. CASE after.route = before.route
    BY <1>8, <1>11 DEF before, after
<1> QED
    BY <1>10, <1>11

(* Reading a row more never takes an answer away, and changes it to one of *)
(* that row's alone, and only to a route that precedes the one before.     *)
THEOREM AnswersAreKept == MatcherSpec => AddingKeepsAnswers
<1>1. MatcherIInv /\ MatcherIInv' /\ [MatcherNext]_matcherVars =>
          (read # {} => \A method \in Methods, path \in Paths :
             LET before == Lookup(method, path)
                 after  == LookupIn(trie', method, path)
             IN  before.outcome = "matched" =>
                     /\ after.outcome = "matched"
                     /\ \/ after.route = before.route
                        \/ /\ after.route \in refs' \ refs
                           /\ Precedes(after.route, before.route, method))
    <2>1. \A method, path : Lookup(method, path)' = LookupIn(trie', method, path)
        BY DEF Lookup
    <2> QED
        BY <2>1, StepKeepsAnswers
<1> QED
    BY <1>1, InvIsInductive, PTL DEF MatcherSpec, AddingKeepsAnswers
=============================================================================
