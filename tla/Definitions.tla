---------------------------- MODULE Definitions -----------------------------
(***************************************************************************)
(* The management of projects, collections and endpoints by concurrent     *)
(* requests: the pages and the API (internal/web/projects.go,              *)
(* collections.go, endpoints.go and the api_ files beside them) over the   *)
(* store (internal/core/project.go, collection.go, endpoint.go) and its    *)
(* statements (internal/core/dbgen).                                       *)
(*                                                                         *)
(* A handler is a chain of statements with nothing around it: it finds the *)
(* project under the slug of its URL, then what the rest of the URL names, *)
(* then a collection its body names, and then writes.  Every statement is  *)
(* one step; between two of them the slug may have come to name another    *)
(* project, and what was read may be gone.                                 *)
(*                                                                         *)
(* A row is a function of its fields.  The documents are in Collection and *)
(* the route table, rebuilt after each write, is in Router.                *)
(***************************************************************************)
EXTENDS Naturals, FiniteSets

CONSTANTS
    Editors,        \* concurrent requests, one at a time each
    Owners,         \* accounts
    ProjectIds, CollectionIds, EndpointIds,
    Slugs,          \* slugs that pass the validation
    Names,          \* names, of projects and of collections
    Seeds,          \* seeds, each with its identifier field and strategy
    Routes,         \* a verb and a path, together
    None,
    MaxRequests     \* a bound on the requests of a behaviour

ASSUME DefinitionsAssumption ==
    /\ None \notin ProjectIds \union CollectionIds \union EndpointIds
    /\ MaxRequests \in Nat
-----------------------------------------------------------------------------
VARIABLES
    projects,       \* the tables, by id
    collections,
    endpoints,
    issued,         \* every id there ever was: none comes twice
    edits,          \* each editor's request, or None
    begun           \* how many requests have begun

definitionsVars == <<projects, collections, endpoints, issued, edits, begun>>

definitionTables == <<projects, collections, endpoints, issued>>

Partial(D, R) == UNION {[S -> R] : S \in SUBSET D}

ProjectRows == [owner : Owners, slug : Slugs, name : Names]
CollectionRows == [project : ProjectIds, name : Names, seed : Seeds]
EndpointRows == [project : ProjectIds, route : Routes, serves : CollectionIds \union {None}]
-----------------------------------------------------------------------------
(* The statements that look something up, each scoped by the owner: the    *)
(* ids they return, one or none.                                           *)
ProjectByOwnerAndSlug(o, s) ==
    {p \in DOMAIN projects : projects[p].owner = o /\ projects[p].slug = s}

Owned(o, table) == {x \in DOMAIN table : projects[table[x].project].owner = o}

CollectionByOwnerAndID(o, c) == {c} \cap Owned(o, collections)

CollectionByOwnerAndName(o, s, n) ==
    {c \in DOMAIN collections :
        /\ collections[c].project \in ProjectByOwnerAndSlug(o, s)
        /\ collections[c].name = n}

EndpointByOwnerAndID(o, x) == {x} \cap Owned(o, endpoints)
-----------------------------------------------------------------------------
(* The statements that write.  One that matches no row writes nothing, as  *)
(* does one that a unique constraint refuses.                              *)
With(table, x, row) ==
    [y \in DOMAIN table \union {x} |-> IF y = x THEN row ELSE table[y]]

Without(table, xs) == [x \in DOMAIN table \ xs |-> table[x]]

SlugFree(s, p) == \A q \in DOMAIN projects \ {p} : projects[q].slug # s

NameFree(p, n, c) ==
    \A b \in DOMAIN collections \ {c} : collections[b].project # p \/ collections[b].name # n

RouteFree(p, r, x) ==
    \A y \in DOMAIN endpoints \ {x} : endpoints[y].project # p \/ endpoints[y].route # r

OwnProject(o, p) == p \in DOMAIN projects /\ projects[p].owner = o

InsertProject(p, row) ==
    /\ SlugFree(row.slug, p)
    /\ projects' = With(projects, p, row)

SetProject(o, p, row) ==
    /\ OwnProject(o, p) /\ SlugFree(row.slug, p)
    /\ projects' = [projects EXCEPT ![p].slug = row.slug, ![p].name = row.name]

(* The foreign keys delete by cascade.                                     *)
RemoveProject(o, p) ==
    LET in(table) == {x \in DOMAIN table : table[x].project = p} IN
    /\ OwnProject(o, p)
    /\ projects' = Without(projects, {p})
    /\ collections' = Without(collections, in(collections))
    /\ endpoints' = Without(endpoints, in(endpoints))

InsertCollection(o, c, row) ==
    /\ OwnProject(o, row.project) /\ NameFree(row.project, row.name, c)
    /\ collections' = With(collections, c, row)

SetCollection(o, c, row) ==
    /\ c \in Owned(o, collections) /\ NameFree(collections[c].project, row.name, c)
    /\ collections' = [collections EXCEPT ![c].name = row.name, ![c].seed = row.seed]

RemoveCollection(o, c) ==
    /\ c \in Owned(o, collections)
    /\ collections' = Without(collections, {c})
    /\ endpoints' = Without(endpoints, {x \in DOMAIN endpoints : endpoints[x].serves = c})

(* The two statements for an endpoint of kind collection join the          *)
(* collection, which has to be in the endpoint's project.                  *)
InProject(c, p) == c \in DOMAIN collections /\ collections[c].project = p

InsertEndpoint(o, p, x, r) ==
    /\ OwnProject(o, p) /\ RouteFree(p, r, x)
    /\ endpoints' = With(endpoints, x, [project |-> p, route |-> r, serves |-> None])

InsertEndpointOfOwner(o, p, x, r, c) ==
    /\ OwnProject(o, p) /\ c \in Owned(o, collections) /\ RouteFree(p, r, x)
    /\ endpoints' = With(endpoints, x, [project |-> p, route |-> r, serves |-> c])

InsertCollectionEndpoint(o, p, x, r, c) ==
    /\ OwnProject(o, p) /\ InProject(c, p) /\ RouteFree(p, r, x)
    /\ endpoints' = With(endpoints, x, [project |-> p, route |-> r, serves |-> c])

SetEndpoint(o, x, r) ==
    /\ x \in Owned(o, endpoints) /\ RouteFree(endpoints[x].project, r, x)
    /\ endpoints' = [endpoints EXCEPT ![x].route = r, ![x].serves = None]

SetCollectionEndpoint(o, x, r, c) ==
    /\ x \in Owned(o, endpoints) /\ InProject(c, endpoints[x].project)
    /\ RouteFree(endpoints[x].project, r, x)
    /\ endpoints' = [endpoints EXCEPT ![x].route = r, ![x].serves = c]

RemoveEndpoint(o, x) ==
    /\ x \in Owned(o, endpoints)
    /\ endpoints' = Without(endpoints, {x})
-----------------------------------------------------------------------------
(* The store: which statement, and a fresh id for what is new.             *)
CreateProject(o, slug, name) ==
    \E p \in ProjectIds \ issued :
        /\ InsertProject(p, [owner |-> o, slug |-> slug, name |-> name])
        /\ issued' = issued \union {p}
        /\ UNCHANGED <<collections, endpoints>>

UpdateProject(o, p, row) == SetProject(o, p, row) /\ UNCHANGED <<collections, endpoints, issued>>

DeleteProject(o, p) == RemoveProject(o, p) /\ UNCHANGED issued

CreateCollection(o, p, name, seed) ==
    \E c \in CollectionIds \ issued :
        /\ InsertCollection(o, c, [project |-> p, name |-> name, seed |-> seed])
        /\ issued' = issued \union {c}
        /\ UNCHANGED <<projects, endpoints>>

UpdateCollection(o, c, row) == SetCollection(o, c, row) /\ UNCHANGED <<projects, endpoints, issued>>

DeleteCollection(o, c) == RemoveCollection(o, c) /\ UNCHANGED <<projects, issued>>

CreateEndpoint(o, p, in) ==
    \E x \in EndpointIds \ issued :
        /\ \/ in.serves = None /\ InsertEndpoint(o, p, x, in.route)
           \/ in.serves # None /\ InsertCollectionEndpoint(o, p, x, in.route, in.serves)
        /\ issued' = issued \union {x}
        /\ UNCHANGED <<projects, collections>>

UpdateEndpoint(o, x, in) ==
    /\ \/ in.serves = None /\ SetEndpoint(o, x, in.route)
       \/ in.serves # None /\ SetCollectionEndpoint(o, x, in.route, in.serves)
    /\ UNCHANGED <<projects, collections, issued>>

DeleteEndpoint(o, x) == RemoveEndpoint(o, x) /\ UNCHANGED <<projects, collections, issued>>
-----------------------------------------------------------------------------
(* What the body of an update gives.  A form gives every field, and PATCH  *)
(* those it pleases.                                                       *)
ProjectPatches == [slug : Slugs, name : Names] \union [slug : Slugs] \union [name : Names]

CollectionPatches == [name : Names, seed : Seeds] \union [name : Names] \union [seed : Seeds]

(* Every handler but the one that creates a project begins by looking up   *)
(* the slug of its URL.  One that finds none answers 404 and is gone.      *)
FindProject(d) ==
    /\ edits[d] = None /\ begun < MaxRequests
    /\ begun' = begun + 1
    /\ \E o \in Owners, s \in Slugs : \E p \in ProjectByOwnerAndSlug(o, s) :
           LET found(table, verb, at) ==
                   [table |-> table, verb |-> verb, owner |-> o, slug |-> s, project |-> p,
                    at |-> at, row |-> None, read |-> <<>>, given |-> <<>>, overtaken |-> {}]
               row(verb, g) ==
                   [found("project", verb, "write")
                       EXCEPT !.row = p, !.read = projects[p], !.given = g]
           IN
           \/ \E g \in ProjectPatches : edits' = [edits EXCEPT ![d] = row("update", g)]
           \/ edits' = [edits EXCEPT ![d] = row("delete", <<>>)]
           \/ \E table \in {"collection", "endpoint"} :
                  \/ edits' = [edits EXCEPT ![d] = found(table, "create", "write")]
                  \/ \E verb \in {"update", "delete"} :
                         edits' = [edits EXCEPT ![d] = found(table, verb, "row")]
    /\ UNCHANGED definitionTables

(* The lookup after it finds nothing, the body cannot be read, a field     *)
(* fails its validation, the client has gone, or the statement matches no  *)
(* row or is refused by a constraint: the handler ends where it is, with   *)
(* nothing written.                                                        *)
Refuse(d) ==
    /\ edits[d] # None
    /\ edits' = [edits EXCEPT ![d] = None]
    /\ UNCHANGED <<definitionTables, begun>>

Found(d, e) ==
    /\ edits' = [edits EXCEPT ![d] = e]
    /\ UNCHANGED <<definitionTables, begun>>

Reading(d, table) == edits[d] # None /\ edits[d].at = "row" /\ edits[d].table = table

(* findCollection: by an id, and the project has to be the one in the URL. *)
CollectionById(e, c) ==
    {x \in CollectionByOwnerAndID(e.owner, c) : collections[x].project = e.project}

(* findAPICollection: by a name, in whatever project has the slug by now.  *)
CollectionByName(e, n) == CollectionByOwnerAndName(e.owner, e.slug, n)

FindCollection(d) ==
    LET e == edits[d]
        found == (UNION {CollectionById(e, c) : c \in CollectionIds})
                 \union (UNION {CollectionByName(e, n) : n \in Names})
    IN
    /\ Reading(d, "collection")
    /\ \E c \in found, g \in IF e.verb = "update" THEN CollectionPatches ELSE {<<>>} :
           Found(d, [e EXCEPT !.row = c, !.read = collections[c], !.given = g, !.at = "write"])

(* findEndpoint and findAPIEndpoint: by an id, in the project of the URL.  *)
EndpointById(e, x) ==
    {y \in EndpointByOwnerAndID(e.owner, x) : endpoints[y].project = e.project}

FindEndpoint(d) ==
    LET e == edits[d] IN
    /\ Reading(d, "endpoint")
    /\ \E x \in UNION {EndpointById(e, y) : y \in EndpointIds} :
           Found(d, [e EXCEPT !.row = x, !.at = "write"])

(* readEndpointRequest: a name in the body, under the same slug again.     *)
ResolveCollection(d) ==
    LET e == edits[d] IN
    /\ e # None /\ e.at = "write" /\ e.table = "endpoint" /\ e.verb # "delete"
    /\ \E n \in Names : \E c \in CollectionByOwnerAndName(e.owner, e.slug, n) :
           Found(d, [e EXCEPT !.given = [serves |-> c], !.at = "resolved"])

(* An endpoint's definition is always given whole, form or PUT.  The form  *)
(* sends the id of a collection as it was typed, or none.                  *)
EndpointGiven(e) ==
    IF e.at = "resolved"
    THEN {[route |-> r, serves |-> e.given.serves] : r \in Routes}
    ELSE [route : Routes, serves : CollectionIds \union {None}]

(* PATCH: what was read, with the fields given in its place.               *)
Overlaid(read, given) ==
    [f \in DOMAIN read |-> IF f \in DOMAIN given THEN given[f] ELSE read[f]]

MergedWithBlanks(e) ==
    Overlaid([e.read EXCEPT !.name = CHOOSE n \in Names : TRUE], e.given)

Merged(e) == Overlaid(e.read, e.given)

(* The handlers that write, at the statement that does, which is the last. *)
Writing(d, table, verb) ==
    /\ edits[d] # None /\ edits[d].at \in {"write", "resolved"}
    /\ edits[d].table = table /\ edits[d].verb = verb

Done(d) == edits' = [edits EXCEPT ![d] = None] /\ UNCHANGED begun

(* History: what this one changes in a row that others have already read.  *)
Changed(old, new) == {f \in DOMAIN old : old[f] # new[f]}

DoneOvertaking(d) ==
    LET e == edits[d]
        behind == {w \in Editors \ {d} :
                      edits[w] # None /\ edits[w].table = e.table /\ edits[w].row = e.row}
        now == IF e.table = "project" THEN Changed(projects[e.row], projects'[e.row])
               ELSE Changed(collections[e.row], collections'[e.row])
    IN
    /\ edits' = [w \in Editors |->
                    IF w = d THEN None
                    ELSE IF w \in behind THEN [edits[w] EXCEPT !.overtaken = @ \union now]
                    ELSE edits[w]]
    /\ UNCHANGED begun

(* The one handler with a single statement, but for the datasets.          *)
HandleProjectCreate(d) ==
    /\ edits[d] = None /\ begun < MaxRequests
    /\ \E o \in Owners, s \in Slugs, n \in Names : CreateProject(o, s, n)
    /\ begun' = begun + 1
    /\ UNCHANGED edits

HandleProjectUpdate(d) ==
    /\ Writing(d, "project", "update")
    /\ UpdateProject(edits[d].owner, edits[d].row, Merged(edits[d]))
    /\ DoneOvertaking(d)

HandleProjectDelete(d) ==
    /\ Writing(d, "project", "delete")
    /\ DeleteProject(edits[d].owner, edits[d].row)
    /\ Done(d)

HandleCollectionCreate(d) ==
    /\ Writing(d, "collection", "create")
    /\ \E n \in Names, z \in Seeds : CreateCollection(edits[d].owner, edits[d].project, n, z)
    /\ Done(d)

HandleCollectionUpdate(d) ==
    /\ Writing(d, "collection", "update")
    /\ UpdateCollection(edits[d].owner, edits[d].row, Merged(edits[d]))
    /\ DoneOvertaking(d)

HandleCollectionDelete(d) ==
    /\ Writing(d, "collection", "delete")
    /\ DeleteCollection(edits[d].owner, edits[d].row)
    /\ Done(d)

HandleEndpointCreate(d) ==
    /\ Writing(d, "endpoint", "create")
    /\ \E in \in EndpointGiven(edits[d]) : CreateEndpoint(edits[d].owner, edits[d].project, in)
    /\ Done(d)

HandleEndpointUpdate(d) ==
    /\ Writing(d, "endpoint", "update")
    /\ \E in \in EndpointGiven(edits[d]) : UpdateEndpoint(edits[d].owner, edits[d].row, in)
    /\ Done(d)

HandleEndpointDelete(d) ==
    /\ Writing(d, "endpoint", "delete")
    /\ DeleteEndpoint(edits[d].owner, edits[d].row)
    /\ Done(d)
-----------------------------------------------------------------------------
Write(d) ==
    \/ HandleProjectCreate(d) \/ HandleProjectUpdate(d) \/ HandleProjectDelete(d)
    \/ HandleCollectionCreate(d) \/ HandleCollectionUpdate(d) \/ HandleCollectionDelete(d)
    \/ HandleEndpointCreate(d) \/ HandleEndpointUpdate(d) \/ HandleEndpointDelete(d)

DefinitionsInit ==
    /\ projects = <<>> /\ collections = <<>> /\ endpoints = <<>> /\ issued = {}
    /\ edits = [d \in Editors |-> None]
    /\ begun = 0

(* The bound is used up, or the ids for projects, and every request ended. *)
Rest ==
    /\ \/ begun = MaxRequests
       \/ projects = <<>> /\ ProjectIds \subseteq issued
    /\ \A d \in Editors : edits[d] = None
    /\ UNCHANGED definitionsVars

DefinitionsNext ==
    \/ Rest
    \/ \E d \in Editors :
        \/ Refuse(d) \/ FindProject(d)
        \/ FindCollection(d) \/ FindEndpoint(d) \/ ResolveCollection(d)
        \/ Write(d)

DefinitionsSpec == DefinitionsInit /\ [][DefinitionsNext]_definitionsVars
-----------------------------------------------------------------------------
(* The tables hold rows of theirs under ids that were issued, and a slug,  *)
(* a collection's name and a route each stand for one row where they are   *)
(* looked up.                                                              *)
DefinitionsTypeOK ==
    /\ projects \in Partial(ProjectIds, ProjectRows)
    /\ collections \in Partial(CollectionIds, CollectionRows)
    /\ endpoints \in Partial(EndpointIds, EndpointRows)
    /\ DOMAIN projects \union DOMAIN collections \union DOMAIN endpoints \subseteq issued
    /\ \A p \in DOMAIN projects : SlugFree(projects[p].slug, p)
    /\ begun \in 0..MaxRequests

(* An endpoint lives in a project that is there, and the collection it     *)
(* serves is there, in the same project: however slugs change hands while  *)
(* a request looks up one thing after another, no project comes to serve   *)
(* the documents of another one.                                           *)
EndpointServesItsProject ==
    /\ \A c \in DOMAIN collections : collections[c].project \in DOMAIN projects
    /\ \A x \in DOMAIN endpoints :
           /\ endpoints[x].project \in DOMAIN projects
           /\ endpoints[x].serves # None =>
                  /\ endpoints[x].serves \in DOMAIN collections
                  /\ collections[endpoints[x].serves].project = endpoints[x].project

(* A row goes only by a request of its owner's that has just ended and     *)
(* named it, or the row it goes with by cascade; and a field changes only  *)
(* by one that was to update that row, and gave the field.  A field it did *)
(* not give also changes where another request wrote the row after it was  *)
(* read: AbsentFieldsKept.                                                 *)
AskedFor(table, old, new, p, along) ==
    \A x \in DOMAIN old :
        LET by == {d \in Editors :
                      /\ edits[d] # None /\ edits'[d] = None
                      /\ edits[d].owner = projects[p[x]].owner}
        IN
        IF x \notin DOMAIN new
        THEN \E d \in by :
                 /\ edits[d].verb = "delete"
                 /\ <<edits[d].table, edits[d].row>> \in {<<table, x>>} \union along[x]
        ELSE \A f \in Changed(old[x], new[x]) :
                 \E d \in by :
                     /\ edits[d].verb = "update"
                     /\ edits[d].table = table /\ edits[d].row = x
                     /\ \/ table = "endpoint"
                        \/ f \in DOMAIN edits[d].given /\ new[x][f] = edits[d].given[f]
                        \/ f \in edits[d].overtaken

ProjectIn(table) == [x \in DOMAIN table |-> table[x].project]

(* What a row goes with when it goes: its project, or what it serves.      *)
WithProject(table) == [x \in DOMAIN table |-> {<<"project", table[x].project>>}]

WithServed ==
    [x \in DOMAIN endpoints |->
        {<<"project", endpoints[x].project>>, <<"collection", endpoints[x].serves>>}]

ProjectsAskedFor ==
    AskedFor("project", projects, projects', [p \in DOMAIN projects |-> p],
             [p \in DOMAIN projects |-> {}])

CollectionsAskedFor ==
    AskedFor("collection", collections, collections', ProjectIn(collections),
             WithProject(collections))

EndpointsAskedFor ==
    AskedFor("endpoint", endpoints, endpoints', ProjectIn(endpoints), WithServed)

ChangesAreAskedFor ==
    [][ProjectsAskedFor /\ CollectionsAskedFor /\ EndpointsAskedFor]_definitionsVars
-----------------------------------------------------------------------------
(* The strengthening the proofs use: what a request holds while it waits   *)
(* for its next statement.                                                 *)
Fields == {"owner", "slug", "name", "project", "seed"}

Edits ==
    [table : {"project", "collection", "endpoint"}, verb : {"create", "update", "delete"},
     owner : Owners, slug : Slugs, project : ProjectIds, at : {"row", "write", "resolved"},
     row : ProjectIds \union CollectionIds \union EndpointIds \union {None},
     read : ProjectRows \union CollectionRows \union {<<>>},
     given : ProjectPatches \union CollectionPatches
                 \union [serves : CollectionIds] \union {<<>>},
     overtaken : SUBSET Fields]

(* A row read and not yet written: what the request will merge into it.    *)
HoldsRow(e, table) == e.at = "write" /\ e.table = table /\ e.verb = "update"

(* Of a row that is still there, all is as it was read but what others     *)
(* have written since; one that is gone does not come back.                *)
StaleOnlyWhereOvertaken(e, table, ids) ==
    /\ e.row \in ids
    /\ e.row \in DOMAIN table =>
          \A f \in DOMAIN e.read : f \in e.overtaken \/ table[e.row][f] = e.read[f]

EditOK(e, ps, cs, ids) ==
    e # None =>
        /\ e.at = "resolved" => e.table = "endpoint" /\ e.given \in [serves : CollectionIds]
        /\ e.table = "project" => e.at = "write"
        /\ HoldsRow(e, "project") =>
              /\ e.read \in ProjectRows /\ e.given \in ProjectPatches
              /\ StaleOnlyWhereOvertaken(e, ps, ids)
        /\ HoldsRow(e, "collection") =>
              /\ e.read \in CollectionRows /\ e.given \in CollectionPatches
              /\ StaleOnlyWhereOvertaken(e, cs, ids)

EditsOK ==
    /\ edits \in [Editors -> Edits \union {None}]
    /\ \A d \in Editors : EditOK(edits[d], projects, collections, issued)

DefinitionsIInv == DefinitionsTypeOK /\ EndpointServesItsProject /\ EditsOK
-----------------------------------------------------------------------------
(* What comments of the code say, and the code does not do: an absent      *)
(* field of a PATCH "keeps what the project has" (projectUpdateRequest)    *)
(* and means "leave it alone" (collectionUpdateRequest).  The update       *)
(* writes the whole row, with what it had read in the absent fields.       *)
Written(e, old, new) ==
    IF e.row \in DOMAIN old \cap DOMAIN new THEN Changed(old[e.row], new[e.row]) ELSE {}

AbsentFieldsKept ==
    [][\A d \in Editors :
          LET e == edits[d] IN
          e # None /\ edits'[d] = None /\ e.verb = "update" =>
              /\ e.table = "project" => Written(e, projects, projects') \subseteq DOMAIN e.given
              /\ e.table = "collection" =>
                    Written(e, collections, collections') \subseteq DOMAIN e.given]_definitionsVars
=============================================================================
