------------------------- MODULE DefinitionsProofs --------------------------
(***************************************************************************)
(* Proofs about Definitions, for any number of editors, owners, rows and   *)
(* requests: the tables stay consistent, and every change was asked for.   *)
(***************************************************************************)
EXTENDS Definitions, TLAPS

(* A table is a function from some of its ids to its rows.                 *)
LEMMA PartialIs ==
    ASSUME NEW D, NEW R, NEW f
    PROVE  f \in Partial(D, R) <=> DOMAIN f \subseteq D /\ f \in [DOMAIN f -> R]
BY DEF Partial

LEMMA EmptyTable == ASSUME NEW D, NEW R PROVE <<>> \in Partial(D, R) /\ DOMAIN <<>> = {}
<1>1. DOMAIN <<>> = {} /\ <<>> \in [{} -> R]
    OBVIOUS
<1> QED
    BY <1>1, PartialIs

(* Inserting, deleting and setting rows.                                   *)
LEMMA Inserted ==
    ASSUME NEW D, NEW R, NEW f, f \in Partial(D, R), NEW x \in D, NEW r \in R,
           NEW g, g = With(f, x, r)
    PROVE  /\ g \in Partial(D, R)
           /\ \A y : y \in DOMAIN g <=> y \in DOMAIN f \/ y = x
           /\ g[x] = r
           /\ \A y \in DOMAIN f : y # x => g[y] = f[y]
<1>1. DOMAIN f \subseteq D /\ f \in [DOMAIN f -> R]
    BY PartialIs
<1>2. /\ DOMAIN g = DOMAIN f \union {x}
      /\ g \in [DOMAIN f \union {x} -> R]
      /\ g[x] = r
      /\ \A y \in DOMAIN f \ {x} : g[y] = f[y]
    BY <1>1 DEF With
<1> QED
    BY <1>1, <1>2, PartialIs

LEMMA Deleted ==
    ASSUME NEW D, NEW R, NEW f, f \in Partial(D, R), NEW X, NEW g, g = Without(f, X)
    PROVE  /\ g \in Partial(D, R)
           /\ \A y : y \in DOMAIN g <=> y \in DOMAIN f /\ y \notin X
           /\ \A y \in DOMAIN g : g[y] = f[y]
<1>1. DOMAIN f \subseteq D /\ f \in [DOMAIN f -> R]
    BY PartialIs
<1>2. /\ DOMAIN g = DOMAIN f \ X
      /\ g \in [DOMAIN f \ X -> R]
      /\ \A y \in DOMAIN f \ X : g[y] = f[y]
    BY <1>1 DEF Without
<1> QED
    BY <1>1, <1>2, PartialIs
-----------------------------------------------------------------------------
(* What the tables keep whatever the requests hold.                        *)
TablesOK ==
    /\ projects \in Partial(ProjectIds, ProjectRows)
    /\ collections \in Partial(CollectionIds, CollectionRows)
    /\ endpoints \in Partial(EndpointIds, EndpointRows)
    /\ DOMAIN projects \union DOMAIN collections \union DOMAIN endpoints \subseteq issued
    /\ \A p \in DOMAIN projects : SlugFree(projects[p].slug, p)
    /\ EndpointServesItsProject

LEMMA Tabled ==
    ASSUME TablesOK
    PROVE  /\ projects \in Partial(ProjectIds, ProjectRows)
           /\ collections \in Partial(CollectionIds, CollectionRows)
           /\ endpoints \in Partial(EndpointIds, EndpointRows)
BY DEF TablesOK

(* A statement leaves the tables as they should be; no row of a table but  *)
(* a new one is other than it was; none is gone, or those of one owner.    *)
Sound == TablesOK' /\ issued \subseteq issued'

SameRows(old, new) == \A x \in issued : x \in DOMAIN new => x \in DOMAIN old /\ new[x] = old[x]

AllSame ==
    /\ SameRows(projects, projects')
    /\ SameRows(collections, collections')
    /\ SameRows(endpoints, endpoints')

NoneGone ==
    /\ \A p \in DOMAIN projects : p \in DOMAIN projects'
    /\ \A c \in DOMAIN collections : c \in DOMAIN collections'
    /\ \A x \in DOMAIN endpoints : x \in DOMAIN endpoints'

GoneOf(o) ==
    /\ \A p \in DOMAIN projects : p \in DOMAIN projects' \/ projects[p].owner = o
    /\ \A c \in DOMAIN collections :
           c \in DOMAIN collections' \/ projects[collections[c].project].owner = o
    /\ \A x \in DOMAIN endpoints :
           x \in DOMAIN endpoints' \/ projects[endpoints[x].project].owner = o

LEMMA Rows ==
    ASSUME TablesOK
    PROVE  /\ \A p \in DOMAIN projects : p \in ProjectIds /\ projects[p] \in ProjectRows
           /\ \A c \in DOMAIN collections :
                 /\ c \in CollectionIds /\ collections[c] \in CollectionRows
                 /\ collections[c].project \in DOMAIN projects
           /\ \A x \in DOMAIN endpoints :
                 /\ x \in EndpointIds /\ endpoints[x] \in EndpointRows
                 /\ endpoints[x].project \in DOMAIN projects
BY PartialIs DEF TablesOK, EndpointServesItsProject

LEMMA CreateProjectSound ==
    ASSUME TablesOK, NEW o \in Owners, NEW s \in Slugs, NEW n \in Names, CreateProject(o, s, n)
    PROVE  Sound /\ AllSame /\ NoneGone
<1> DEFINE r == [owner |-> o, slug |-> s, name |-> n]
<1>1. PICK p \in ProjectIds \ issued :
          /\ SlugFree(s, p) /\ projects' = With(projects, p, r)
          /\ issued' = issued \union {p} /\ UNCHANGED <<collections, endpoints>>
    BY DEF CreateProject, InsertProject
<1>2. r \in ProjectRows
    BY DEF ProjectRows
<1> HIDE DEF r
<1>3. /\ projects' \in Partial(ProjectIds, ProjectRows)
      /\ \A q : q \in DOMAIN projects' <=> q \in DOMAIN projects \/ q = p
      /\ projects'[p] = r
      /\ \A q \in DOMAIN projects : q # p => projects'[q] = projects[q]
    BY <1>1, <1>2, Inserted, Tabled
<1>4. p \notin DOMAIN projects /\ DOMAIN projects \subseteq issued
    BY <1>1 DEF TablesOK
<1>5. r.slug = s
    BY DEF r
<1>6. \A q \in DOMAIN projects' : SlugFree(projects[q].slug, q)'
    BY <1>1, <1>3, <1>4, <1>5 DEF TablesOK, SlugFree
<1>7. EndpointServesItsProject'
    BY <1>1, <1>3 DEF TablesOK, EndpointServesItsProject
<1> QED
    BY <1>1, <1>3, <1>4, <1>6, <1>7 DEF TablesOK, Sound, AllSame, SameRows, NoneGone

LEMMA UpdateProjectSound ==
    ASSUME TablesOK, NEW o, NEW p, NEW row, row.slug \in Slugs, row.name \in Names,
           UpdateProject(o, p, row)
    PROVE  /\ Sound
           /\ NoneGone /\ SameRows(collections, collections') /\ SameRows(endpoints, endpoints')
           /\ p \in DOMAIN projects /\ projects[p].owner = o
           /\ DOMAIN projects' = DOMAIN projects
           /\ \A q \in DOMAIN projects \ {p} : projects'[q] = projects[q]
           /\ projects'[p].owner = o /\ projects'[p].slug = row.slug
           /\ projects'[p].name = row.name /\ projects'[p] \in ProjectRows
<1>1. /\ p \in DOMAIN projects /\ projects[p].owner = o /\ SlugFree(row.slug, p)
      /\ projects' = [projects EXCEPT ![p].slug = row.slug, ![p].name = row.name]
      /\ UNCHANGED <<collections, endpoints, issued>>
    BY DEF UpdateProject, SetProject, OwnProject
<1>2. projects \in [DOMAIN projects -> ProjectRows] /\ DOMAIN projects \subseteq ProjectIds
    BY PartialIs DEF TablesOK
<1>3. /\ DOMAIN projects' = DOMAIN projects
      /\ \A q \in DOMAIN projects \ {p} : projects'[q] = projects[q]
      /\ projects'[p] = [owner |-> o, slug |-> row.slug, name |-> row.name]
    BY <1>1, <1>2 DEF ProjectRows
<1>4. projects[p] \in ProjectRows /\ projects'[p] \in ProjectRows
    BY <1>1, <1>2, <1>3 DEF ProjectRows
<1>5. projects' \in Partial(ProjectIds, ProjectRows)
    <2>1. projects' \in [DOMAIN projects -> ProjectRows]
        BY <1>1, <1>2, <1>3, <1>4
    <2> QED
        BY <1>2, <1>3, <2>1, PartialIs
<1>6. \A q \in DOMAIN projects' : SlugFree(projects[q].slug, q)'
    BY <1>1, <1>3 DEF TablesOK, SlugFree
<1>7. EndpointServesItsProject'
    BY <1>1, <1>3 DEF TablesOK, EndpointServesItsProject
<1> QED
    BY <1>1, <1>3, <1>4, <1>5, <1>6, <1>7 DEF TablesOK, Sound, SameRows, NoneGone

LEMMA DeleteProjectSound ==
    ASSUME TablesOK, NEW o, NEW p, DeleteProject(o, p)
    PROVE  Sound /\ AllSame /\ GoneOf(o)
<1> DEFINE Cs == {x \in DOMAIN collections : collections[x].project = p}
           Es == {x \in DOMAIN endpoints : endpoints[x].project = p}
<1>1. /\ projects' = Without(projects, {p}) /\ collections' = Without(collections, Cs)
      /\ endpoints' = Without(endpoints, Es) /\ issued' = issued
      /\ projects[p].owner = o
    BY DEF DeleteProject, RemoveProject, OwnProject
<1>2. /\ projects' \in Partial(ProjectIds, ProjectRows)
      /\ \A q : q \in DOMAIN projects' <=> q \in DOMAIN projects /\ q \notin {p}
      /\ \A q \in DOMAIN projects' : projects'[q] = projects[q]
    BY <1>1, Deleted, Tabled
<1>3. /\ collections' \in Partial(CollectionIds, CollectionRows)
      /\ \A c : c \in DOMAIN collections' <=> c \in DOMAIN collections /\ c \notin Cs
      /\ \A c \in DOMAIN collections' : collections'[c] = collections[c]
    BY <1>1, Deleted, Tabled
<1>4. /\ endpoints' \in Partial(EndpointIds, EndpointRows)
      /\ \A x : x \in DOMAIN endpoints' <=> x \in DOMAIN endpoints /\ x \notin Es
      /\ \A x \in DOMAIN endpoints' : endpoints'[x] = endpoints[x]
    BY <1>1, Deleted, Tabled
<1>5. \A q \in DOMAIN projects' : SlugFree(projects[q].slug, q)'
    BY <1>2 DEF TablesOK, SlugFree
<1>6. EndpointServesItsProject'
    BY <1>2, <1>3, <1>4 DEF TablesOK, EndpointServesItsProject
<1>7. GoneOf(o)
    BY <1>1, <1>2, <1>3, <1>4 DEF GoneOf
<1>8. AllSame
    BY <1>2, <1>3, <1>4 DEF AllSame, SameRows
<1> QED
    BY <1>1, <1>2, <1>3, <1>4, <1>5, <1>6, <1>7, <1>8 DEF TablesOK, Sound

LEMMA CreateCollectionSound ==
    ASSUME TablesOK, NEW o, NEW p \in ProjectIds, NEW n \in Names, NEW z \in Seeds,
           CreateCollection(o, p, n, z)
    PROVE  Sound /\ AllSame /\ NoneGone
<1> DEFINE r == [project |-> p, name |-> n, seed |-> z]
<1>1. PICK c \in CollectionIds \ issued :
          /\ p \in DOMAIN projects /\ collections' = With(collections, c, r)
          /\ issued' = issued \union {c} /\ UNCHANGED <<projects, endpoints>>
    BY DEF CreateCollection, InsertCollection, OwnProject
<1>2. r \in CollectionRows /\ r.project = p
    BY DEF CollectionRows
<1> HIDE DEF r
<1>3. /\ collections' \in Partial(CollectionIds, CollectionRows)
      /\ \A b : b \in DOMAIN collections' <=> b \in DOMAIN collections \/ b = c
      /\ collections'[c] = r
      /\ \A b \in DOMAIN collections : b # c => collections'[b] = collections[b]
    BY <1>1, <1>2, Inserted, Tabled
<1>4. c \notin DOMAIN collections
    BY <1>1 DEF TablesOK
<1>5. EndpointServesItsProject'
    BY <1>1, <1>2, <1>3, <1>4 DEF TablesOK, EndpointServesItsProject
<1>6. \A q \in DOMAIN projects' : SlugFree(projects[q].slug, q)'
    BY <1>1 DEF TablesOK, SlugFree
<1> QED
    BY <1>1, <1>3, <1>4, <1>5, <1>6 DEF TablesOK, Sound, AllSame, SameRows, NoneGone

LEMMA UpdateCollectionSound ==
    ASSUME TablesOK, NEW o, NEW c, NEW row, row.name \in Names, row.seed \in Seeds,
           UpdateCollection(o, c, row)
    PROVE  /\ Sound
           /\ NoneGone /\ SameRows(projects, projects') /\ SameRows(endpoints, endpoints')
           /\ c \in DOMAIN collections /\ projects[collections[c].project].owner = o
           /\ DOMAIN collections' = DOMAIN collections
           /\ \A b \in DOMAIN collections \ {c} : collections'[b] = collections[b]
           /\ collections'[c].project = collections[c].project
           /\ collections'[c].name = row.name /\ collections'[c].seed = row.seed
           /\ collections'[c] \in CollectionRows
<1>1. /\ c \in DOMAIN collections /\ projects[collections[c].project].owner = o
      /\ collections' = [collections EXCEPT ![c].name = row.name, ![c].seed = row.seed]
      /\ UNCHANGED <<projects, endpoints, issued>>
    BY DEF UpdateCollection, SetCollection, Owned
<1>2. /\ collections \in [DOMAIN collections -> CollectionRows]
      /\ DOMAIN collections \subseteq CollectionIds
    BY PartialIs DEF TablesOK
<1>3. /\ DOMAIN collections' = DOMAIN collections
      /\ \A b \in DOMAIN collections \ {c} : collections'[b] = collections[b]
      /\ collections'[c] =
            [project |-> collections[c].project, name |-> row.name, seed |-> row.seed]
    BY <1>1, <1>2 DEF CollectionRows
<1>4. collections[c] \in CollectionRows /\ collections'[c] \in CollectionRows
    BY <1>1, <1>2, <1>3 DEF CollectionRows
<1>5. collections' \in Partial(CollectionIds, CollectionRows)
    <2>1. collections' \in [DOMAIN collections -> CollectionRows]
        BY <1>1, <1>2, <1>3, <1>4
    <2> QED
        BY <1>2, <1>3, <2>1, PartialIs
<1>6. collections'[c].project = collections[c].project
    BY <1>3
<1>7. EndpointServesItsProject'
    BY <1>1, <1>3, <1>6 DEF TablesOK, EndpointServesItsProject
<1>8. \A q \in DOMAIN projects' : SlugFree(projects[q].slug, q)'
    BY <1>1 DEF TablesOK, SlugFree
<1> QED
    BY <1>1, <1>3, <1>4, <1>5, <1>6, <1>7, <1>8 DEF TablesOK, Sound, SameRows, NoneGone

LEMMA DeleteCollectionSound ==
    ASSUME TablesOK, NEW o, NEW c, DeleteCollection(o, c)
    PROVE  Sound /\ AllSame /\ GoneOf(o)
<1> DEFINE Es == {x \in DOMAIN endpoints : endpoints[x].serves = c}
<1>1. /\ collections' = Without(collections, {c}) /\ endpoints' = Without(endpoints, Es)
      /\ UNCHANGED <<projects, issued>>
    BY DEF DeleteCollection, RemoveCollection
<1>7. c \in DOMAIN collections /\ projects[collections[c].project].owner = o
    BY DEF DeleteCollection, RemoveCollection, Owned
<1>2. /\ collections' \in Partial(CollectionIds, CollectionRows)
      /\ \A b : b \in DOMAIN collections' <=> b \in DOMAIN collections /\ b \notin {c}
      /\ \A b \in DOMAIN collections' : collections'[b] = collections[b]
    BY <1>1, Deleted, Tabled
<1>3. /\ endpoints' \in Partial(EndpointIds, EndpointRows)
      /\ \A x : x \in DOMAIN endpoints' <=> x \in DOMAIN endpoints /\ x \notin Es
      /\ \A x \in DOMAIN endpoints' : endpoints'[x] = endpoints[x]
    BY <1>1, Deleted, Tabled
<1>8. GoneOf(o)
    <2>1. \A x \in DOMAIN endpoints : x \notin DOMAIN endpoints' => endpoints[x].serves = c
        BY <1>3
    <2>2. c # None
        BY <1>7, Rows, DefinitionsAssumption
    <2> QED
        BY <1>1, <1>2, <1>7, <2>1, <2>2 DEF GoneOf, TablesOK, EndpointServesItsProject
<1>9. AllSame
    BY <1>1, <1>2, <1>3 DEF AllSame, SameRows, TablesOK
<1>4. \A x \in DOMAIN endpoints' : x \in DOMAIN endpoints /\ endpoints[x].serves # c
    BY <1>3
<1> HIDE DEF Es
<1>6. EndpointServesItsProject'
    <2>1. \A b \in DOMAIN collections' : collections'[b].project \in DOMAIN projects'
        BY <1>1, <1>2 DEF TablesOK, EndpointServesItsProject
    <2>2. ASSUME NEW x \in DOMAIN endpoints'
          PROVE  /\ endpoints'[x].project \in DOMAIN projects'
                 /\ endpoints'[x].serves # None =>
                       /\ endpoints'[x].serves \in DOMAIN collections'
                       /\ collections'[endpoints'[x].serves].project = endpoints'[x].project
        <3>1. endpoints'[x] = endpoints[x] /\ x \in DOMAIN endpoints /\ endpoints[x].serves # c
            BY <1>3, <1>4
        <3>2. endpoints[x].serves # None =>
                  /\ endpoints[x].serves \in DOMAIN collections'
                  /\ collections'[endpoints[x].serves] = collections[endpoints[x].serves]
            BY <1>2, <3>1 DEF TablesOK, EndpointServesItsProject
        <3> QED
            BY <1>1, <3>1, <3>2 DEF TablesOK, EndpointServesItsProject
    <2> QED
        BY <2>1, <2>2 DEF EndpointServesItsProject
<1>5. \A q \in DOMAIN projects' : SlugFree(projects[q].slug, q)'
    BY <1>1 DEF TablesOK, SlugFree
<1> QED
    BY <1>1, <1>2, <1>3, <1>5, <1>6, <1>8, <1>9 DEF TablesOK, Sound

(* The two INSERTs: of no collection, or of one in the project.            *)
LEMMA CreateEndpointSound ==
    ASSUME TablesOK, NEW o, NEW p \in ProjectIds, NEW in, in.route \in Routes,
           in.serves \in CollectionIds \union {None}, CreateEndpoint(o, p, in)
    PROVE  Sound /\ AllSame /\ NoneGone
<1> DEFINE r == [project |-> p, route |-> in.route, serves |-> in.serves]
<1>1. PICK x \in EndpointIds \ issued :
          /\ p \in DOMAIN projects /\ (in.serves # None => InProject(in.serves, p))
          /\ endpoints' = With(endpoints, x, r)
          /\ issued' = issued \union {x} /\ UNCHANGED <<projects, collections>>
    BY DEF CreateEndpoint, InsertEndpoint, InsertCollectionEndpoint, OwnProject
<1>2. r \in EndpointRows /\ r.project = p /\ r.serves = in.serves
    BY DEF EndpointRows
<1> HIDE DEF r
<1>3. /\ endpoints' \in Partial(EndpointIds, EndpointRows)
      /\ \A y : y \in DOMAIN endpoints' <=> y \in DOMAIN endpoints \/ y = x
      /\ endpoints'[x] = r
      /\ \A y \in DOMAIN endpoints : y # x => endpoints'[y] = endpoints[y]
    BY <1>1, <1>2, Inserted, Tabled
<1>4. x \notin DOMAIN endpoints
    BY <1>1 DEF TablesOK
<1>5. EndpointServesItsProject'
    BY <1>1, <1>2, <1>3 DEF TablesOK, EndpointServesItsProject, InProject
<1>6. \A q \in DOMAIN projects' : SlugFree(projects[q].slug, q)'
    BY <1>1 DEF TablesOK, SlugFree
<1> QED
    BY <1>1, <1>3, <1>4, <1>5, <1>6 DEF TablesOK, Sound, AllSame, SameRows, NoneGone

LEMMA UpdateEndpointSound ==
    ASSUME TablesOK, NEW o, NEW x, NEW in, in.route \in Routes,
           in.serves \in CollectionIds \union {None}, UpdateEndpoint(o, x, in)
    PROVE  /\ Sound
           /\ NoneGone /\ SameRows(projects, projects') /\ SameRows(collections, collections')
           /\ x \in DOMAIN endpoints /\ projects[endpoints[x].project].owner = o
           /\ DOMAIN endpoints' = DOMAIN endpoints
           /\ \A y \in DOMAIN endpoints \ {x} : endpoints'[y] = endpoints[y]
<1>1. /\ x \in DOMAIN endpoints /\ projects[endpoints[x].project].owner = o
      /\ in.serves # None => InProject(in.serves, endpoints[x].project)
      /\ endpoints' = [endpoints EXCEPT ![x].route = in.route, ![x].serves = in.serves]
      /\ UNCHANGED <<projects, collections, issued>>
    BY DEF UpdateEndpoint, SetEndpoint, SetCollectionEndpoint, Owned
<1>2. endpoints \in [DOMAIN endpoints -> EndpointRows] /\ DOMAIN endpoints \subseteq EndpointIds
    BY PartialIs DEF TablesOK
<1>3. /\ DOMAIN endpoints' = DOMAIN endpoints
      /\ \A y \in DOMAIN endpoints \ {x} : endpoints'[y] = endpoints[y]
      /\ endpoints'[x] =
            [project |-> endpoints[x].project, route |-> in.route, serves |-> in.serves]
    BY <1>1, <1>2 DEF EndpointRows
<1>4. endpoints[x] \in EndpointRows /\ endpoints'[x] \in EndpointRows
    BY <1>1, <1>2, <1>3 DEF EndpointRows
<1>5. endpoints' \in Partial(EndpointIds, EndpointRows)
    <2>1. endpoints' \in [DOMAIN endpoints -> EndpointRows]
        BY <1>1, <1>2, <1>3, <1>4
    <2> QED
        BY <1>2, <1>3, <2>1, PartialIs
<1>6. endpoints'[x].project = endpoints[x].project /\ endpoints'[x].serves = in.serves
    BY <1>3
<1>7. EndpointServesItsProject'
    BY <1>1, <1>3, <1>6 DEF TablesOK, EndpointServesItsProject, InProject
<1>8. \A q \in DOMAIN projects' : SlugFree(projects[q].slug, q)'
    BY <1>1 DEF TablesOK, SlugFree
<1> QED
    BY <1>1, <1>3, <1>5, <1>7, <1>8 DEF TablesOK, Sound, SameRows, NoneGone

LEMMA DeleteEndpointSound ==
    ASSUME TablesOK, NEW o, NEW x, DeleteEndpoint(o, x)
    PROVE  Sound /\ AllSame /\ GoneOf(o)
<1>1. endpoints' = Without(endpoints, {x}) /\ UNCHANGED <<projects, collections, issued>>
    BY DEF DeleteEndpoint, RemoveEndpoint
<1>5. projects[endpoints[x].project].owner = o
    BY DEF DeleteEndpoint, RemoveEndpoint, Owned
<1>2. /\ endpoints' \in Partial(EndpointIds, EndpointRows)
      /\ \A y : y \in DOMAIN endpoints' <=> y \in DOMAIN endpoints /\ y \notin {x}
      /\ \A y \in DOMAIN endpoints' : endpoints'[y] = endpoints[y]
    BY <1>1, Deleted, Tabled
<1>3. EndpointServesItsProject'
    BY <1>1, <1>2 DEF TablesOK, EndpointServesItsProject
<1>4. \A q \in DOMAIN projects' : SlugFree(projects[q].slug, q)'
    BY <1>1 DEF TablesOK, SlugFree
<1> QED
    BY <1>1, <1>2, <1>3, <1>4, <1>5 DEF TablesOK, Sound, AllSame, SameRows, GoneOf
-----------------------------------------------------------------------------
(* What the requests under way hold.                                       *)
LEMMA EditSurvives ==
    ASSUME NEW e, EditOK(e, projects, collections, issued), issued \subseteq issued',
           SameRows(projects, projects'), SameRows(collections, collections')
    PROVE  EditOK(e, projects', collections', issued')
BY DEF EditOK, StaleOnlyWhereOvertaken, SameRows

(* A request moves on or ends, and no row that another one read changes.   *)
LEMMA EditsKept ==
    ASSUME EditsOK, NEW d \in Editors, NEW v, v \in Edits \union {None},
           edits' = [edits EXCEPT ![d] = v],
           EditOK(v, projects', collections', issued'), issued \subseteq issued',
           SameRows(projects, projects'), SameRows(collections, collections')
    PROVE  EditsOK'
<1>1. edits' \in [Editors -> Edits \union {None}]
    BY DEF EditsOK
<1>2. ASSUME NEW w \in Editors
      PROVE  EditOK(edits'[w], projects', collections', issued')
    <2>1. CASE w = d
        BY <2>1 DEF EditsOK
    <2>2. CASE w # d
        <3>1. edits'[w] = edits[w]
            BY <2>2 DEF EditsOK
        <3> QED
            BY <3>1, EditSurvives DEF EditsOK
    <2> QED
        BY <2>1, <2>2
<1> QED
    BY <1>1, <1>2 DEF EditsOK

LEMMA NoneIsOK == EditOK(None, projects', collections', issued')
BY DEF EditOK

(* The handlers that look something up.                                    *)
LEMMA FindProjectKeepsEdits ==
    ASSUME TablesOK, EditsOK, NEW d \in Editors, FindProject(d)
    PROVE  EditsOK'
<1>1. UNCHANGED <<projects, collections, endpoints, issued>>
    BY DEF FindProject, definitionTables
<1>2. issued \subseteq issued' /\ SameRows(projects, projects') /\ SameRows(collections, collections')
    BY <1>1 DEF SameRows, TablesOK
<1> DEFINE F(o, s, p, table, verb, at) ==
        [table |-> table, verb |-> verb, owner |-> o, slug |-> s, project |-> p,
         at |-> at, row |-> None, read |-> <<>>, given |-> <<>>, overtaken |-> {}]
           Row(o, s, p, verb, g) ==
        [F(o, s, p, "project", verb, "write") EXCEPT !.row = p, !.read = projects[p], !.given = g]
<1>3. PICK o \in Owners, s \in Slugs : \E p \in ProjectByOwnerAndSlug(o, s) :
          \/ \E g \in ProjectPatches :
                 edits' = [edits EXCEPT ![d] = Row(o, s, p, "update", g)]
          \/ edits' = [edits EXCEPT ![d] = Row(o, s, p, "delete", <<>>)]
          \/ \E table \in {"collection", "endpoint"} :
                 \/ edits' = [edits EXCEPT ![d] = F(o, s, p, table, "create", "write")]
                 \/ \E verb \in {"update", "delete"} :
                        edits' = [edits EXCEPT ![d] = F(o, s, p, table, verb, "row")]
    BY Zenon DEF FindProject
<1>4. PICK p \in ProjectByOwnerAndSlug(o, s) :
          \/ \E g \in ProjectPatches :
                 edits' = [edits EXCEPT ![d] = Row(o, s, p, "update", g)]
          \/ edits' = [edits EXCEPT ![d] = Row(o, s, p, "delete", <<>>)]
          \/ \E table \in {"collection", "endpoint"} :
                 \/ edits' = [edits EXCEPT ![d] = F(o, s, p, table, "create", "write")]
                 \/ \E verb \in {"update", "delete"} :
                        edits' = [edits EXCEPT ![d] = F(o, s, p, table, verb, "row")]
    BY <1>3, Zenon
<1>5. p \in ProjectIds /\ p \in issued /\ projects[p] \in ProjectRows
    BY Rows DEF TablesOK, ProjectByOwnerAndSlug
<1>6. ASSUME NEW table \in {"project", "collection", "endpoint"},
             NEW verb \in {"create", "update", "delete"}, NEW at \in {"row", "write"}
      PROVE  F(o, s, p, table, verb, at) \in Edits
    BY <1>5 DEF Edits
<1>7. ASSUME NEW verb \in {"update", "delete"}, NEW g \in ProjectPatches \union {<<>>},
             verb = "delete" \/ g \in ProjectPatches,
             edits' = [edits EXCEPT ![d] = Row(o, s, p, verb, g)]
      PROVE  EditsOK'
    <2>1. Row(o, s, p, verb, g) \in Edits
        <3>1. F(o, s, p, "project", verb, "write") \in Edits
            BY <1>6
        <3> HIDE DEF F
        <3> QED
            BY <1>5, <3>1 DEF Edits
    <2>2. EditOK(Row(o, s, p, verb, g), projects', collections', issued')
        BY <1>1, <1>5, <1>7 DEF EditOK, HoldsRow, StaleOnlyWhereOvertaken
    <2> HIDE DEF Row
    <2> QED
        BY <1>2, <1>7, <2>1, <2>2, EditsKept
<1>8. ASSUME NEW table \in {"collection", "endpoint"}, NEW verb \in {"create", "update", "delete"},
             NEW at \in {"write", "row"}, verb = "create" \/ at = "row",
             edits' = [edits EXCEPT ![d] = F(o, s, p, table, verb, at)]
      PROVE  EditsOK'
    <2>1. F(o, s, p, table, verb, at) \in Edits
        BY <1>6
    <2>2. EditOK(F(o, s, p, table, verb, at), projects', collections', issued')
        BY <1>8 DEF EditOK, HoldsRow
    <2> HIDE DEF F
    <2> QED
        BY <1>2, <1>8, <2>1, <2>2, EditsKept
<1> HIDE DEF F, Row
<1>9. CASE \E table \in {"collection", "endpoint"} :
               \/ edits' = [edits EXCEPT ![d] = F(o, s, p, table, "create", "write")]
               \/ \E verb \in {"update", "delete"} :
                      edits' = [edits EXCEPT ![d] = F(o, s, p, table, verb, "row")]
    BY <1>8, <1>9
<1> QED
    BY <1>4, <1>7, <1>9

LEMMA LookupsKeepEdits ==
    ASSUME TablesOK, EditsOK, NEW d \in Editors,
           FindCollection(d) \/ FindEndpoint(d) \/ ResolveCollection(d) \/ Refuse(d)
    PROVE  EditsOK'
<1>1. UNCHANGED <<projects, collections, endpoints, issued>>
    BY DEF FindCollection, FindEndpoint, ResolveCollection, Refuse, Found, definitionTables
<1>2. issued \subseteq issued' /\ SameRows(projects, projects') /\ SameRows(collections, collections')
    BY <1>1 DEF SameRows, TablesOK
<1>3. CASE Refuse(d)
    BY <1>2, <1>3, NoneIsOK, EditsKept DEF Refuse
<1> DEFINE e == edits[d]
<1>4. ~Refuse(d) => e \in Edits
    BY DEF EditsOK, FindCollection, FindEndpoint, ResolveCollection, Reading
<1>5. CASE FindCollection(d)
    <2>0. PICK c \in (UNION {CollectionById(e, b) : b \in CollectionIds})
                       \union (UNION {CollectionByName(e, n) : n \in Names}),
               g \in IF e.verb = "update" THEN CollectionPatches ELSE {<<>>} :
              Found(d, [e EXCEPT !.row = c, !.read = collections[c], !.given = g, !.at = "write"])
        BY <1>5, Zenon DEF FindCollection
    <2>1. c \in DOMAIN collections
        <3>1. \A b : CollectionById(e, b) \subseteq DOMAIN collections
            BY DEF CollectionById, CollectionByOwnerAndID, Owned
        <3>2. \A n : CollectionByName(e, n) \subseteq DOMAIN collections
            BY DEF CollectionByName, CollectionByOwnerAndName
        <3>3. \/ \E b \in CollectionIds : c \in CollectionById(e, b)
              \/ \E n \in Names : c \in CollectionByName(e, n)
            <4>1. \/ c \in UNION {CollectionById(e, b) : b \in CollectionIds}
                  \/ c \in UNION {CollectionByName(e, n) : n \in Names}
                OBVIOUS
            <4>2. ASSUME c \in UNION {CollectionById(e, b) : b \in CollectionIds}
                  PROVE  \E b \in CollectionIds : c \in CollectionById(e, b)
                BY <4>2
            <4>3. ASSUME c \in UNION {CollectionByName(e, n) : n \in Names}
                  PROVE  \E n \in Names : c \in CollectionByName(e, n)
                BY <4>3
            <4> QED
                BY <4>1, <4>2, <4>3
        <3> QED
            BY <3>1, <3>2, <3>3
    <2> DEFINE v == [e EXCEPT !.row = c, !.read = collections[c], !.given = g, !.at = "write"]
    <2>2. /\ c \in CollectionIds /\ c \in issued /\ collections[c] \in CollectionRows
          /\ e \in Edits /\ e.table = "collection"
        BY <1>4, <1>5, <2>1, Rows DEF TablesOK, FindCollection, Reading, EditsOK
    <2>3. v \in Edits
        BY <2>2 DEF Edits
    <2>4. EditOK(v, projects', collections', issued')
        BY <1>1, <2>2 DEF EditOK, HoldsRow, StaleOnlyWhereOvertaken, Edits
    <2> QED
        BY <1>2, <2>0, <2>3, <2>4, EditsKept DEF Found
<1>6. CASE FindEndpoint(d)
    <2>1. PICK x \in DOMAIN endpoints : Found(d, [e EXCEPT !.row = x, !.at = "write"])
        BY <1>6 DEF FindEndpoint, EndpointById, EndpointByOwnerAndID, Owned
    <2> DEFINE v == [e EXCEPT !.row = x, !.at = "write"]
    <2>2. x \in EndpointIds /\ e \in Edits /\ e.table = "endpoint"
        BY <1>6, Rows DEF FindEndpoint, Reading, EditsOK
    <2>3. v \in Edits
        BY <2>2 DEF Edits
    <2>4. EditOK(v, projects', collections', issued')
        BY <2>2 DEF EditOK, HoldsRow, Edits
    <2> QED
        BY <1>2, <2>1, <2>3, <2>4, EditsKept DEF Found
<1>7. CASE ResolveCollection(d)
    <2>1. PICK c \in DOMAIN collections :
              Found(d, [e EXCEPT !.given = [serves |-> c], !.at = "resolved"])
        BY <1>7 DEF ResolveCollection, CollectionByOwnerAndName
    <2> DEFINE v == [e EXCEPT !.given = [serves |-> c], !.at = "resolved"]
    <2>2. c \in CollectionIds /\ e \in Edits /\ e.table = "endpoint"
        BY <1>7, Rows DEF ResolveCollection, EditsOK
    <2>3. v \in Edits
        BY <2>2 DEF Edits
    <2>4. EditOK(v, projects', collections', issued')
        BY <2>2 DEF EditOK, HoldsRow, Edits
    <2> QED
        BY <1>2, <2>1, <2>3, <2>4, EditsKept DEF Found
<1> QED
    BY <1>3, <1>5, <1>6, <1>7
-----------------------------------------------------------------------------
(* The handlers that write.                                                *)
LEMMA DoneKeepsEdits ==
    ASSUME EditsOK, NEW d \in Editors, Done(d), issued \subseteq issued',
           SameRows(projects, projects'), SameRows(collections, collections')
    PROVE  EditsOK'
BY NoneIsOK, EditsKept DEF Done

(* What an update asks for can be written: every field has a value.        *)
LEMMA MergedProject ==
    ASSUME NEW e, e.read \in ProjectRows, e.given \in ProjectPatches
    PROVE  /\ Merged(e).slug \in Slugs /\ Merged(e).name \in Names
           /\ Merged(e).owner = e.read.owner
           /\ DOMAIN Merged(e) = {"owner", "slug", "name"}
           /\ \A f \in {"owner", "slug", "name"} :
                 Merged(e)[f] = IF f \in DOMAIN e.given THEN e.given[f] ELSE e.read[f]
BY DEF ProjectRows, ProjectPatches, Merged, Overlaid

LEMMA MergedCollection ==
    ASSUME NEW e, e.read \in CollectionRows, e.given \in CollectionPatches
    PROVE  /\ Merged(e).name \in Names /\ Merged(e).seed \in Seeds
           /\ Merged(e).project = e.read.project
           /\ DOMAIN Merged(e) = {"project", "name", "seed"}
           /\ \A f \in {"project", "name", "seed"} :
                 Merged(e)[f] = IF f \in DOMAIN e.given THEN e.given[f] ELSE e.read[f]
BY DEF CollectionRows, CollectionPatches, Merged, Overlaid

(* A request whose row another one wrote knows of every field it changed.  *)
LEMMA OvertakenIsOK ==
    ASSUME EditsOK, NEW w \in Editors, edits[w] # None, NEW now \in SUBSET Fields,
           NEW v, v = [edits[w] EXCEPT !.overtaken = @ \union now]
    PROVE  /\ v \in Edits
           /\ \A f \in {"table", "verb", "owner", "slug", "project", "at", "row", "read", "given"} :
                 v[f] = edits[w][f]
           /\ v.overtaken = edits[w].overtaken \union now
<1>1. edits[w] \in Edits
    BY DEF EditsOK
<1> QED
    BY <1>1 DEF Edits

LEMMA ProjectUpdateKeepsEdits ==
    ASSUME TablesOK, EditsOK, NEW d \in Editors, HandleProjectUpdate(d)
    PROVE  EditsOK'
<1> DEFINE e == edits[d]
           p == e.row
           now == Changed(projects[p], projects'[p])
<1>1. /\ e \in Edits /\ e # None /\ e.table = "project"
      /\ e.read \in ProjectRows /\ e.given \in ProjectPatches
    BY DEF HandleProjectUpdate, Writing, EditsOK, EditOK, HoldsRow
<1>2. /\ Sound /\ SameRows(collections, collections')
      /\ p \in DOMAIN projects
      /\ \A q \in DOMAIN projects \ {p} : projects'[q] = projects[q]
      /\ DOMAIN projects' = DOMAIN projects
      /\ projects'[p] \in ProjectRows
    BY <1>1, MergedProject, UpdateProjectSound DEF HandleProjectUpdate
<1>3. projects[p] \in ProjectRows
    BY <1>2, Rows
<1>4. now \in SUBSET Fields /\ \A f \in {"owner", "slug", "name"} \ now : projects'[p][f] = projects[p][f]
    BY <1>2, <1>3 DEF ProjectRows, Changed, Fields
<1>5. edits' = [w \in Editors |->
                   IF w = d THEN None
                   ELSE IF w \in {u \in Editors \ {d} :
                                     edits[u] # None /\ edits[u].table = e.table
                                     /\ edits[u].row = e.row}
                        THEN [edits[w] EXCEPT !.overtaken = @ \union now]
                        ELSE edits[w]]
    BY <1>1 DEF HandleProjectUpdate, DoneOvertaking
<1> HIDE DEF now
<1>6. ASSUME NEW w \in Editors
      PROVE  edits'[w] \in Edits \union {None}
             /\ EditOK(edits'[w], projects', collections', issued')
    <2>1. CASE w = d
        BY <1>5, <2>1, NoneIsOK
    <2>2. CASE w # d /\ edits[w] # None /\ edits[w].table = "project" /\ edits[w].row = p
        <3> DEFINE v == [edits[w] EXCEPT !.overtaken = @ \union now]
        <3>1. edits'[w] = v
            BY <1>1, <1>5, <2>2
        <3> HIDE DEF v
        <3>2. /\ v \in Edits
              /\ v.table = edits[w].table /\ v.at = edits[w].at /\ v.verb = edits[w].verb
              /\ v.row = edits[w].row /\ v.read = edits[w].read /\ v.given = edits[w].given
              /\ v.overtaken = edits[w].overtaken \union now
            BY <1>4, <2>2, OvertakenIsOK DEF v
        <3>3. EditOK(edits[w], projects, collections, issued)
            BY DEF EditsOK
        <3>4. HoldsRow(v, "project") =>
                  /\ v.read \in ProjectRows /\ v.given \in ProjectPatches
                  /\ StaleOnlyWhereOvertaken(v, projects', issued')
            <4> SUFFICES ASSUME HoldsRow(v, "project")
                         PROVE  /\ v.read \in ProjectRows /\ v.given \in ProjectPatches
                                /\ StaleOnlyWhereOvertaken(v, projects', issued')
                OBVIOUS
            <4>1. /\ v.read \in ProjectRows /\ v.given \in ProjectPatches
                  /\ StaleOnlyWhereOvertaken(edits[w], projects, issued)
                BY <2>2, <3>2, <3>3 DEF EditOK, HoldsRow
            <4>2. DOMAIN v.read = {"owner", "slug", "name"}
                BY <4>1 DEF ProjectRows
            <4> QED
                BY <1>2, <1>4, <2>2, <3>2, <4>1, <4>2 DEF StaleOnlyWhereOvertaken, Sound
        <3>5. EditOK(v, projects', collections', issued')
            BY <2>2, <3>2, <3>3, <3>4 DEF EditOK, HoldsRow
        <3> QED
            BY <3>1, <3>2, <3>5
    <2>3. CASE w # d /\ ~(edits[w] # None /\ edits[w].table = "project" /\ edits[w].row = p)
        <3>1. edits'[w] = edits[w]
            BY <1>1, <1>5, <2>3
        <3>2. edits[w] \in Edits \union {None} /\ EditOK(edits[w], projects, collections, issued)
            BY DEF EditsOK
        <3>3. EditOK(edits[w], projects', collections', issued')
            BY <1>2, <2>3, <3>2
            DEF EditOK, HoldsRow, StaleOnlyWhereOvertaken, Sound, SameRows
        <3> QED
            BY <3>1, <3>2, <3>3
    <2> QED
        BY <2>1, <2>2, <2>3
<1>7. edits' \in [Editors -> Edits \union {None}]
    <2>1. DOMAIN edits' = Editors /\ edits' = [w \in Editors |-> edits'[w]]
        BY <1>5
    <2> QED
        BY <1>6, <2>1
<1> QED
    BY <1>6, <1>7 DEF EditsOK

LEMMA CollectionUpdateKeepsEdits ==
    ASSUME TablesOK, EditsOK, NEW d \in Editors, HandleCollectionUpdate(d)
    PROVE  EditsOK'
<1> DEFINE e == edits[d]
           c == e.row
           now == Changed(collections[c], collections'[c])
<1>1. /\ e \in Edits /\ e # None /\ e.table = "collection"
      /\ e.read \in CollectionRows /\ e.given \in CollectionPatches
    BY DEF HandleCollectionUpdate, Writing, EditsOK, EditOK, HoldsRow
<1>2. /\ Sound /\ SameRows(projects, projects')
      /\ c \in DOMAIN collections
      /\ \A b \in DOMAIN collections \ {c} : collections'[b] = collections[b]
      /\ DOMAIN collections' = DOMAIN collections
      /\ collections'[c] \in CollectionRows
    BY <1>1, MergedCollection, UpdateCollectionSound DEF HandleCollectionUpdate
<1>3. collections[c] \in CollectionRows
    BY <1>2, Rows
<1>4. /\ now \in SUBSET Fields
      /\ \A f \in {"project", "name", "seed"} \ now : collections'[c][f] = collections[c][f]
    BY <1>2, <1>3 DEF CollectionRows, Changed, Fields
<1>5. edits' = [w \in Editors |->
                   IF w = d THEN None
                   ELSE IF w \in {u \in Editors \ {d} :
                                     edits[u] # None /\ edits[u].table = e.table
                                     /\ edits[u].row = e.row}
                        THEN [edits[w] EXCEPT !.overtaken = @ \union now]
                        ELSE edits[w]]
    BY <1>1 DEF HandleCollectionUpdate, DoneOvertaking
<1> HIDE DEF now
<1>6. ASSUME NEW w \in Editors
      PROVE  edits'[w] \in Edits \union {None}
             /\ EditOK(edits'[w], projects', collections', issued')
    <2>1. CASE w = d
        BY <1>5, <2>1, NoneIsOK
    <2>2. CASE w # d /\ edits[w] # None /\ edits[w].table = "collection" /\ edits[w].row = c
        <3> DEFINE v == [edits[w] EXCEPT !.overtaken = @ \union now]
        <3>1. edits'[w] = v
            BY <1>1, <1>5, <2>2
        <3> HIDE DEF v
        <3>2. /\ v \in Edits
              /\ v.table = edits[w].table /\ v.at = edits[w].at /\ v.verb = edits[w].verb
              /\ v.row = edits[w].row /\ v.read = edits[w].read /\ v.given = edits[w].given
              /\ v.overtaken = edits[w].overtaken \union now
            BY <1>4, <2>2, OvertakenIsOK DEF v
        <3>3. EditOK(edits[w], projects, collections, issued)
            BY DEF EditsOK
        <3>4. HoldsRow(v, "collection") =>
                  /\ v.read \in CollectionRows /\ v.given \in CollectionPatches
                  /\ StaleOnlyWhereOvertaken(v, collections', issued')
            <4> SUFFICES ASSUME HoldsRow(v, "collection")
                         PROVE  /\ v.read \in CollectionRows /\ v.given \in CollectionPatches
                                /\ StaleOnlyWhereOvertaken(v, collections', issued')
                OBVIOUS
            <4>1. /\ v.read \in CollectionRows /\ v.given \in CollectionPatches
                  /\ StaleOnlyWhereOvertaken(edits[w], collections, issued)
                BY <2>2, <3>2, <3>3 DEF EditOK, HoldsRow
            <4>2. DOMAIN v.read = {"project", "name", "seed"}
                BY <4>1 DEF CollectionRows
            <4> QED
                BY <1>2, <1>4, <2>2, <3>2, <4>1, <4>2 DEF StaleOnlyWhereOvertaken, Sound
        <3>5. EditOK(v, projects', collections', issued')
            BY <2>2, <3>2, <3>3, <3>4 DEF EditOK, HoldsRow
        <3> QED
            BY <3>1, <3>2, <3>5
    <2>3. CASE w # d /\ ~(edits[w] # None /\ edits[w].table = "collection" /\ edits[w].row = c)
        <3>1. edits'[w] = edits[w]
            BY <1>1, <1>5, <2>3
        <3>2. edits[w] \in Edits \union {None} /\ EditOK(edits[w], projects, collections, issued)
            BY DEF EditsOK
        <3>3. EditOK(edits[w], projects', collections', issued')
            BY <1>2, <2>3, <3>2
            DEF EditOK, HoldsRow, StaleOnlyWhereOvertaken, Sound, SameRows
        <3> QED
            BY <3>1, <3>2, <3>3
    <2> QED
        BY <2>1, <2>2, <2>3
<1>7. edits' \in [Editors -> Edits \union {None}]
    <2>1. DOMAIN edits' = Editors /\ edits' = [w \in Editors |-> edits'[w]]
        BY <1>5
    <2> QED
        BY <1>6, <2>1
<1> QED
    BY <1>6, <1>7 DEF EditsOK

(* Every write leaves the tables sound, and what the others hold good.     *)
LEMMA WriteKeeps ==
    ASSUME TablesOK, EditsOK, NEW d \in Editors, Write(d)
    PROVE  Sound /\ EditsOK'
<1> DEFINE e == edits[d]
<1>1. e # None => e \in Edits /\ EditOK(e, projects, collections, issued)
    BY DEF EditsOK
<1>2. CASE HandleProjectCreate(d)
    <2>1. Sound /\ AllSame
        BY <1>2, CreateProjectSound DEF HandleProjectCreate
    <2>2. edits' = edits /\ e = None /\ edits \in [Editors -> Edits \union {None}]
        BY <1>2 DEF HandleProjectCreate, EditsOK
    <2>3. edits' = [edits EXCEPT ![d] = None]
        BY <2>2
    <2> QED
        BY <2>1, <2>3, NoneIsOK, EditsKept DEF Sound, AllSame
<1>3. CASE HandleProjectUpdate(d)
    <2>1. e \in Edits /\ e.read \in ProjectRows /\ e.given \in ProjectPatches
        BY <1>1, <1>3 DEF HandleProjectUpdate, Writing, EditOK, HoldsRow, Edits
    <2> QED
        BY <1>3, <2>1, MergedProject, UpdateProjectSound, ProjectUpdateKeepsEdits
        DEF HandleProjectUpdate
<1>4. CASE HandleProjectDelete(d)
    BY <1>4, DeleteProjectSound, DoneKeepsEdits DEF HandleProjectDelete, Sound, AllSame
<1>5. CASE HandleCollectionCreate(d)
    <2>1. e.project \in ProjectIds
        BY <1>1, <1>5 DEF HandleCollectionCreate, Writing, Edits
    <2>2. Sound /\ AllSame
        BY <1>5, <2>1, CreateCollectionSound DEF HandleCollectionCreate
    <2> QED
        BY <1>5, <2>2, DoneKeepsEdits DEF HandleCollectionCreate, Sound, AllSame
<1>6. CASE HandleCollectionUpdate(d)
    <2>1. e \in Edits /\ e.read \in CollectionRows /\ e.given \in CollectionPatches
        BY <1>1, <1>6 DEF HandleCollectionUpdate, Writing, EditOK, HoldsRow, Edits
    <2> QED
        BY <1>6, <2>1, MergedCollection, UpdateCollectionSound, CollectionUpdateKeepsEdits
        DEF HandleCollectionUpdate
<1>7. CASE HandleCollectionDelete(d)
    BY <1>7, DeleteCollectionSound, DoneKeepsEdits DEF HandleCollectionDelete, Sound, AllSame
<1>8. \A in \in EndpointGiven(e) :
          Writing(d, "endpoint", "create") \/ Writing(d, "endpoint", "update") =>
              in.route \in Routes /\ in.serves \in CollectionIds \union {None}
    BY <1>1 DEF EndpointGiven, EditOK, Writing
<1>9. CASE HandleEndpointCreate(d)
    <2>1. e.project \in ProjectIds
        BY <1>1, <1>9 DEF HandleEndpointCreate, Writing, Edits
    <2>2. Sound /\ AllSame
        BY <1>8, <1>9, <2>1, CreateEndpointSound DEF HandleEndpointCreate
    <2> QED
        BY <1>9, <2>2, DoneKeepsEdits DEF HandleEndpointCreate, Sound, AllSame
<1>10. CASE HandleEndpointUpdate(d)
    <2>1. Sound /\ SameRows(projects, projects') /\ SameRows(collections, collections')
        BY <1>8, <1>10, UpdateEndpointSound DEF HandleEndpointUpdate
    <2> QED
        BY <1>10, <2>1, DoneKeepsEdits DEF HandleEndpointUpdate, Sound
<1>11. CASE HandleEndpointDelete(d)
    BY <1>11, DeleteEndpointSound, DoneKeepsEdits DEF HandleEndpointDelete, Sound, AllSame
<1> QED
    BY <1>2, <1>3, <1>4, <1>5, <1>6, <1>7, <1>9, <1>10, <1>11 DEF Write

LEMMA Whole == DefinitionsIInv <=> TablesOK /\ EditsOK /\ begun \in 0..MaxRequests
BY DEF DefinitionsIInv, DefinitionsTypeOK, TablesOK

LEMMA InitEstablishes == DefinitionsInit => DefinitionsIInv
<1> SUFFICES ASSUME DefinitionsInit PROVE DefinitionsIInv
    OBVIOUS
<1>1. TablesOK
    BY EmptyTable DEF DefinitionsInit, TablesOK, EndpointServesItsProject
<1>2. EditsOK
    BY DEF DefinitionsInit, EditsOK, EditOK
<1> QED
    BY <1>1, <1>2, DefinitionsAssumption, Whole DEF DefinitionsInit

LEMMA StepKeeps == DefinitionsIInv /\ [DefinitionsNext]_definitionsVars => DefinitionsIInv'
<1> SUFFICES ASSUME DefinitionsIInv, [DefinitionsNext]_definitionsVars PROVE DefinitionsIInv'
    OBVIOUS
<1>1. TablesOK /\ EditsOK /\ begun \in 0..MaxRequests /\ MaxRequests \in Nat
    BY Whole, DefinitionsAssumption
<1>2. CASE UNCHANGED definitionsVars
    BY <1>1, <1>2 DEF definitionsVars, DefinitionsIInv, DefinitionsTypeOK, EndpointServesItsProject,
                      EditsOK, SlugFree
<1>3. ASSUME NEW d \in Editors,
             \/ FindProject(d) \/ FindCollection(d) \/ FindEndpoint(d)
             \/ ResolveCollection(d) \/ Refuse(d)
      PROVE  DefinitionsIInv'
    <2>1. UNCHANGED <<projects, collections, endpoints, issued>>
        BY <1>3 DEF FindProject, FindCollection, FindEndpoint, ResolveCollection, Refuse, Found,
                    definitionTables
    <2>2. TablesOK'
        BY <1>1, <2>1 DEF TablesOK, EndpointServesItsProject, SlugFree
    <2>3. begun' \in 0..MaxRequests
        <3>1. FindProject(d) => begun < MaxRequests /\ begun' = begun + 1
            BY Zenon DEF FindProject
        <3>2. FindProject(d) \/ begun' = begun
            BY <1>3 DEF FindCollection, FindEndpoint, ResolveCollection, Refuse, Found
        <3> QED
            BY <1>1, <3>1, <3>2
    <2>4. EditsOK'
        BY <1>1, <1>3, FindProjectKeepsEdits, LookupsKeepEdits
    <2> QED
        BY <2>2, <2>3, <2>4 DEF DefinitionsIInv, DefinitionsTypeOK, TablesOK
<1>4. ASSUME NEW d \in Editors, Write(d) PROVE DefinitionsIInv'
    <2>1. begun' \in 0..MaxRequests
        BY <1>1, <1>4
        DEF Write, HandleProjectCreate, HandleProjectUpdate, HandleProjectDelete,
            HandleCollectionCreate, HandleCollectionUpdate, HandleCollectionDelete,
            HandleEndpointCreate, HandleEndpointUpdate, HandleEndpointDelete, Done, DoneOvertaking
    <2>2. TablesOK' /\ EditsOK'
        BY <1>1, <1>4, WriteKeeps DEF Sound
    <2> QED
        BY <2>1, <2>2 DEF DefinitionsIInv, DefinitionsTypeOK, TablesOK
<1> QED
    BY <1>2, <1>3, <1>4 DEF DefinitionsNext, Rest

(* However many requests interleave between their statements, the tables   *)
(* are consistent, and a request that holds a row knows of every field     *)
(* another one wrote since.                                                *)
THEOREM DefinitionsInvariant == DefinitionsSpec => []DefinitionsIInv
BY InitEstablishes, StepKeeps, PTL DEF DefinitionsSpec

(* The tables hold rows of theirs, and no two projects have one slug.      *)
THEOREM DefinitionsTypeCorrect == DefinitionsSpec => []DefinitionsTypeOK
<1>1. DefinitionsIInv => DefinitionsTypeOK
    BY DEF DefinitionsIInv
<1> QED
    BY <1>1, DefinitionsInvariant, PTL

(* No project comes to serve the documents of another one: the collection  *)
(* an endpoint serves is there and in the endpoint's project, though the   *)
(* handlers look one thing up after another with nothing around them.      *)
THEOREM EndpointsServeTheirProject == DefinitionsSpec => []EndpointServesItsProject
<1>1. DefinitionsIInv => EndpointServesItsProject
    BY DEF DefinitionsIInv
<1> QED
    BY <1>1, DefinitionsInvariant, PTL
-----------------------------------------------------------------------------
(* Every change was asked for.                                             *)
LEMMA NothingToAskFor ==
    ASSUME NEW table, NEW old, NEW new, NEW p, NEW along,
           \A x \in DOMAIN old : x \in DOMAIN new /\ new[x] = old[x]
    PROVE  AskedFor(table, old, new, p, along)
BY DEF AskedFor, Changed

Asked == ProjectsAskedFor /\ CollectionsAskedFor /\ EndpointsAskedFor

LEMMA SameRowsAskedFor ==
    /\ (\A p \in DOMAIN projects : p \in DOMAIN projects' /\ projects'[p] = projects[p])
           => ProjectsAskedFor
    /\ (\A c \in DOMAIN collections : c \in DOMAIN collections' /\ collections'[c] = collections[c])
           => CollectionsAskedFor
    /\ (\A x \in DOMAIN endpoints : x \in DOMAIN endpoints' /\ endpoints'[x] = endpoints[x])
           => EndpointsAskedFor
BY NothingToAskFor DEF ProjectsAskedFor, CollectionsAskedFor, EndpointsAskedFor

LEMMA InsertsAskForNothing ==
    ASSUME TablesOK, AllSame, NoneGone
    PROVE  Asked
<1>1. \A p \in DOMAIN projects : p \in DOMAIN projects' /\ projects'[p] = projects[p]
    BY DEF AllSame, NoneGone, SameRows, TablesOK
<1>2. \A c \in DOMAIN collections : c \in DOMAIN collections' /\ collections'[c] = collections[c]
    BY DEF AllSame, NoneGone, SameRows, TablesOK
<1>3. \A x \in DOMAIN endpoints : x \in DOMAIN endpoints' /\ endpoints'[x] = endpoints[x]
    BY DEF AllSame, NoneGone, SameRows, TablesOK
<1> QED
    BY <1>1, <1>2, <1>3, SameRowsAskedFor DEF Asked

(* What a deletion takes: the row, and what goes with it by cascade.       *)
Takes(table, row) ==
    /\ \A p \in DOMAIN projects : p \notin DOMAIN projects' => table = "project" /\ row = p
    /\ \A c \in DOMAIN collections : c \notin DOMAIN collections' =>
           \/ table = "collection" /\ row = c
           \/ table = "project" /\ row = collections[c].project
    /\ \A x \in DOMAIN endpoints : x \notin DOMAIN endpoints' =>
           \/ table = "endpoint" /\ row = x
           \/ table = "project" /\ row = endpoints[x].project
           \/ table = "collection" /\ row = endpoints[x].serves

LEMMA DeletionsTake ==
    /\ \A o, p : DeleteProject(o, p) => Takes("project", p)
    /\ \A o, c : DeleteCollection(o, c) => Takes("collection", c)
    /\ \A o, x : DeleteEndpoint(o, x) => Takes("endpoint", x)
BY DEF Takes, DeleteProject, RemoveProject, DeleteCollection, RemoveCollection,
       DeleteEndpoint, RemoveEndpoint, Without

(* What goes by cascade goes with a row of the same owner's.               *)
LEMMA DeletesAreAskedFor ==
    ASSUME TablesOK, EditsOK, AllSame, NEW d \in Editors, edits[d] # None, Done(d),
           edits[d].verb = "delete", GoneOf(edits[d].owner),
           Takes(edits[d].table, edits[d].row)
    PROVE  Asked
<1>1. edits'[d] = None
    BY DEF Done, EditsOK
<1>2. ASSUME NEW p \in DOMAIN projects
      PROVE  IF p \notin DOMAIN projects' THEN projects[p].owner = edits[d].owner
             ELSE projects'[p] = projects[p]
    BY DEF AllSame, SameRows, GoneOf, TablesOK
<1>3. ASSUME NEW c \in DOMAIN collections
      PROVE  IF c \notin DOMAIN collections'
             THEN projects[collections[c].project].owner = edits[d].owner
             ELSE collections'[c] = collections[c]
    BY DEF AllSame, SameRows, GoneOf, TablesOK
<1>4. ASSUME NEW x \in DOMAIN endpoints
      PROVE  IF x \notin DOMAIN endpoints'
             THEN projects[endpoints[x].project].owner = edits[d].owner
             ELSE endpoints'[x] = endpoints[x]
    BY DEF AllSame, SameRows, GoneOf, TablesOK
<1>5. ProjectsAskedFor
    BY <1>1, <1>2 DEF ProjectsAskedFor, AskedFor, Changed, Takes
<1>6. CollectionsAskedFor
    BY <1>1, <1>3 DEF CollectionsAskedFor, AskedFor, Changed, ProjectIn, WithProject, Takes
<1>7. EndpointsAskedFor
    BY <1>1, <1>4 DEF EndpointsAskedFor, AskedFor, Changed, ProjectIn, WithServed, Takes
<1> QED
    BY <1>5, <1>6, <1>7 DEF Asked

(* PATCH writes what it was given and puts back what it read: a field that *)
(* it was not given changes only where another request overtook this one.  *)
LEMMA ProjectUpdateIsAskedFor ==
    ASSUME TablesOK, EditsOK, NEW d \in Editors, HandleProjectUpdate(d)
    PROVE  Asked
<1> DEFINE e == edits[d]
           p == e.row
<1>1. /\ e \in Edits /\ e # None /\ e.table = "project" /\ e.verb = "update"
      /\ e.read \in ProjectRows /\ e.given \in ProjectPatches
      /\ StaleOnlyWhereOvertaken(e, projects, issued)
    BY DEF HandleProjectUpdate, Writing, EditsOK, EditOK, HoldsRow
<1>2. /\ NoneGone /\ SameRows(collections, collections') /\ SameRows(endpoints, endpoints')
      /\ p \in DOMAIN projects /\ projects[p].owner = e.owner
      /\ \A q \in DOMAIN projects \ {p} : projects'[q] = projects[q]
      /\ DOMAIN projects' = DOMAIN projects
      /\ projects'[p].owner = e.owner /\ projects'[p].slug = Merged(e).slug
      /\ projects'[p].name = Merged(e).name
    BY <1>1, MergedProject, UpdateProjectSound DEF HandleProjectUpdate
<1>3. projects[p] \in ProjectRows /\ DOMAIN projects[p] = {"owner", "slug", "name"}
    BY <1>2, Rows DEF ProjectRows
<1>4. edits'[d] = None
    BY DEF HandleProjectUpdate, DoneOvertaking
<1>5. \A f \in {"slug", "name"} :
          /\ projects'[p][f] = Merged(e)[f]
          /\ Merged(e)[f] = IF f \in DOMAIN e.given THEN e.given[f] ELSE e.read[f]
          /\ f \in e.overtaken \/ projects[p][f] = e.read[f]
    <2>1. DOMAIN e.read = {"owner", "slug", "name"}
        BY <1>1 DEF ProjectRows
    <2>2. \A f \in {"slug", "name"} : f \in e.overtaken \/ projects[p][f] = e.read[f]
        BY <1>1, <1>2, <2>1 DEF StaleOnlyWhereOvertaken
    <2>3. \A f \in {"slug", "name"} :
              Merged(e)[f] = IF f \in DOMAIN e.given THEN e.given[f] ELSE e.read[f]
        BY <1>1, MergedProject
    <2> QED
        BY <1>2, <2>2, <2>3
<1>6. \A f \in Changed(projects[p], projects'[p]) :
          \/ f \in DOMAIN e.given /\ projects'[p][f] = e.given[f]
          \/ f \in e.overtaken
    BY <1>2, <1>3, <1>5 DEF Changed
<1>7. ProjectsAskedFor
    BY <1>1, <1>2, <1>4, <1>6 DEF ProjectsAskedFor, AskedFor, Changed
<1>8. /\ CollectionsAskedFor
      /\ EndpointsAskedFor
    BY <1>2, SameRowsAskedFor DEF SameRows, NoneGone, TablesOK
<1> QED
    BY <1>7, <1>8 DEF Asked

LEMMA CollectionUpdateIsAskedFor ==
    ASSUME TablesOK, EditsOK, NEW d \in Editors, HandleCollectionUpdate(d)
    PROVE  Asked
<1> DEFINE e == edits[d]
           c == e.row
<1>1. /\ e \in Edits /\ e # None /\ e.table = "collection" /\ e.verb = "update"
      /\ e.read \in CollectionRows /\ e.given \in CollectionPatches
      /\ StaleOnlyWhereOvertaken(e, collections, issued)
    BY DEF HandleCollectionUpdate, Writing, EditsOK, EditOK, HoldsRow
<1>2. /\ NoneGone /\ SameRows(projects, projects') /\ SameRows(endpoints, endpoints')
      /\ c \in DOMAIN collections /\ projects[collections[c].project].owner = e.owner
      /\ \A b \in DOMAIN collections \ {c} : collections'[b] = collections[b]
      /\ DOMAIN collections' = DOMAIN collections
      /\ collections'[c].project = collections[c].project
      /\ collections'[c].name = Merged(e).name /\ collections'[c].seed = Merged(e).seed
    BY <1>1, MergedCollection, UpdateCollectionSound DEF HandleCollectionUpdate
<1>3. collections[c] \in CollectionRows /\ DOMAIN collections[c] = {"project", "name", "seed"}
    BY <1>2, Rows DEF CollectionRows
<1>4. edits'[d] = None
    BY DEF HandleCollectionUpdate, DoneOvertaking
<1>5. \A f \in {"name", "seed"} :
          /\ collections'[c][f] = Merged(e)[f]
          /\ Merged(e)[f] = IF f \in DOMAIN e.given THEN e.given[f] ELSE e.read[f]
          /\ f \in e.overtaken \/ collections[c][f] = e.read[f]
    <2>1. DOMAIN e.read = {"project", "name", "seed"}
        BY <1>1 DEF CollectionRows
    <2>2. \A f \in {"name", "seed"} : f \in e.overtaken \/ collections[c][f] = e.read[f]
        BY <1>1, <1>2, <2>1 DEF StaleOnlyWhereOvertaken
    <2>3. \A f \in {"name", "seed"} :
              Merged(e)[f] = IF f \in DOMAIN e.given THEN e.given[f] ELSE e.read[f]
        BY <1>1, MergedCollection
    <2> QED
        BY <1>2, <2>2, <2>3
<1>6. \A f \in Changed(collections[c], collections'[c]) :
          \/ f \in DOMAIN e.given /\ collections'[c][f] = e.given[f]
          \/ f \in e.overtaken
    BY <1>2, <1>3, <1>5 DEF Changed
<1>7. CollectionsAskedFor
    BY <1>1, <1>2, <1>4, <1>6 DEF CollectionsAskedFor, AskedFor, Changed, ProjectIn
<1>8. /\ ProjectsAskedFor
      /\ EndpointsAskedFor
    BY <1>2, SameRowsAskedFor DEF SameRows, NoneGone, TablesOK
<1> QED
    BY <1>7, <1>8 DEF Asked

(* An endpoint's definition is given whole.                                *)
LEMMA EndpointUpdateIsAskedFor ==
    ASSUME TablesOK, EditsOK, NEW d \in Editors, HandleEndpointUpdate(d)
    PROVE  Asked
<1> DEFINE e == edits[d]
           x == e.row
<1>1. /\ e # None /\ e \in Edits /\ e.table = "endpoint" /\ e.verb = "update"
      /\ EditOK(e, projects, collections, issued)
    BY DEF HandleEndpointUpdate, Writing, EditsOK
<1>2. \A in \in EndpointGiven(e) : in.route \in Routes /\ in.serves \in CollectionIds \union {None}
    BY <1>1 DEF EndpointGiven, EditOK
<1>3. /\ NoneGone /\ SameRows(projects, projects') /\ SameRows(collections, collections')
      /\ x \in DOMAIN endpoints /\ projects[endpoints[x].project].owner = e.owner
      /\ DOMAIN endpoints' = DOMAIN endpoints
      /\ \A y \in DOMAIN endpoints \ {x} : endpoints'[y] = endpoints[y]
    BY <1>2, UpdateEndpointSound DEF HandleEndpointUpdate
<1>4. edits'[d] = None
    BY DEF HandleEndpointUpdate, Done, EditsOK
<1>5. EndpointsAskedFor
    BY <1>1, <1>3, <1>4 DEF EndpointsAskedFor, AskedFor, Changed, ProjectIn
<1>6. /\ ProjectsAskedFor
      /\ CollectionsAskedFor
    BY <1>3, SameRowsAskedFor DEF SameRows, NoneGone, TablesOK
<1> QED
    BY <1>5, <1>6 DEF Asked

LEMMA StepAsks == DefinitionsIInv /\ [DefinitionsNext]_definitionsVars => Asked
<1> SUFFICES ASSUME DefinitionsIInv, [DefinitionsNext]_definitionsVars PROVE Asked
    OBVIOUS
<1>1. TablesOK /\ EditsOK
    BY Whole
<1>2. CASE UNCHANGED <<projects, collections, endpoints>>
    BY <1>2, SameRowsAskedFor DEF Asked
<1>3. \/ UNCHANGED <<projects, collections, endpoints>>
      \/ \E d \in Editors : Write(d)
    BY DEF DefinitionsNext, Rest, definitionsVars, FindProject, FindCollection, FindEndpoint,
           ResolveCollection, Refuse, Found, definitionTables
<1>4. ASSUME NEW d \in Editors, Write(d) PROVE Asked
    <2> DEFINE e == edits[d]
    <2>1. e # None => e \in Edits /\ EditOK(e, projects, collections, issued)
        BY <1>1 DEF EditsOK
    <2>2. CASE HandleProjectCreate(d)
        BY <1>1, <2>2, CreateProjectSound, InsertsAskForNothing DEF HandleProjectCreate
    <2>3. CASE HandleCollectionCreate(d)
        <3>1. e.project \in ProjectIds
            BY <2>1, <2>3 DEF HandleCollectionCreate, Writing, Edits
        <3> QED
            BY <1>1, <2>3, <3>1, CreateCollectionSound, InsertsAskForNothing
            DEF HandleCollectionCreate
    <2>4. CASE HandleEndpointCreate(d)
        <3>1. e.project \in ProjectIds
            BY <2>1, <2>4 DEF HandleEndpointCreate, Writing, Edits
        <3>2. \A in \in EndpointGiven(e) :
                  in.route \in Routes /\ in.serves \in CollectionIds \union {None}
            BY <2>1, <2>4 DEF HandleEndpointCreate, Writing, EndpointGiven, EditOK
        <3> QED
            BY <1>1, <2>4, <3>1, <3>2, CreateEndpointSound, InsertsAskForNothing
            DEF HandleEndpointCreate
    <2>5. CASE HandleProjectDelete(d)
        BY <1>1, <2>5, DeleteProjectSound, DeletionsTake, DeletesAreAskedFor
        DEF HandleProjectDelete, Writing
    <2>6. CASE HandleCollectionDelete(d)
        BY <1>1, <2>6, DeleteCollectionSound, DeletionsTake, DeletesAreAskedFor
        DEF HandleCollectionDelete, Writing
    <2>7. CASE HandleEndpointDelete(d)
        BY <1>1, <2>7, DeleteEndpointSound, DeletionsTake, DeletesAreAskedFor
        DEF HandleEndpointDelete, Writing
    <2> QED
        BY <1>1, <1>4, <2>2, <2>3, <2>4, <2>5, <2>6, <2>7, ProjectUpdateIsAskedFor,
           CollectionUpdateIsAskedFor, EndpointUpdateIsAskedFor DEF Write
<1> QED
    BY <1>2, <1>3, <1>4

(* A row goes only by a DELETE of its owner's that named it or what it     *)
(* goes with, and a field changes only to what an update of that row gave  *)
(* for it, or to what one had read before another wrote it.  The second is *)
(* the lost update of PATCH, against its comments: AbsentFieldsKept.       *)
THEOREM ChangesAskedFor == DefinitionsSpec => ChangesAreAskedFor
<1>1. DefinitionsIInv /\ [DefinitionsNext]_definitionsVars =>
          [ProjectsAskedFor /\ CollectionsAskedFor /\ EndpointsAskedFor]_definitionsVars
    BY StepAsks DEF Asked
<1> QED
    BY <1>1, DefinitionsInvariant, PTL DEF DefinitionsSpec, ChangesAreAskedFor
=============================================================================
