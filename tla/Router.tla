------------------------------- MODULE Router -------------------------------
(***************************************************************************)
(* How an edit of a project or an endpoint reaches the mock server: the    *)
(* handlers that commit a change and reload (internal/web), the reload     *)
(* with its two statements (Store.MockData) and its swap of the table      *)
(* (internal/mock/router.go), and the refresh that repeats it.  Nothing    *)
(* orders two reloads: each installs what it read, when it gets to it.     *)
(*                                                                         *)
(* What a request is answered from is the table, a snapshot of which       *)
(* project each slug names and which endpoints it serves; how a path is    *)
(* matched against those is Matcher's subject.  An endpoint that is        *)
(* disabled is one the statement does not return, like one deleted.        *)
(***************************************************************************)
EXTENDS Naturals, FiniteSets

CONSTANTS
    Handlers,       \* handlers of the forms and of the API, at most at once
    Projects,       \* projects that ever exist; an id is not used again
    Slugs,          \* the names they go by
    Endpoints,      \* endpoints that ever exist, each of one project
    ProjectOf,      \* which
    None,
    MaxEdits,       \* bound: changes committed
    MaxFailures     \* bound: reloads that fail

ASSUME ProjectOfAssumption == ProjectOf \in [Endpoints -> Projects]
ASSUME NoneAssumption == None \notin Projects \union Slugs
ASSUME MaxEditsAssumption == MaxEdits \in Nat
ASSUME MaxFailuresAssumption == MaxFailures \in Nat
-----------------------------------------------------------------------------
VARIABLES
    slugOf,         \* projects: the slug of each, or None
    enabled,        \* endpoints: those MockEndpoints returns
    created,        \* the projects created so far
    table,          \* r.table
    reload,         \* where each caller of Reload is, and what it has read
    touched,        \* the projects that have ever been changed
    edits, failures \* how many there were

db == <<slugOf, enabled, created, touched, edits>>

routerVars == <<db, table, reload, failures>>

(* The goroutine of Refresh is one more caller of Reload.                  *)
Refresh == "refresh"

Callers == Handlers \union {Refresh}

ReloadSteps == {"idle", "projects", "endpoints", "install"}

Exists(p) == slugOf[p] # None

Named(slug) == {p \in Projects : slugOf[p] = slug}

NoReload == [at |-> "idle", projects |-> {}, endpoints |-> {}]
-----------------------------------------------------------------------------
(* BuildTable: endpoints find their project by the slug the second         *)
(* statement joined to them, and one that finds none is dropped.           *)
NoProject == [project |-> None, routes |-> {}]

TableOf(projects, endpoints) ==
    [slug \in Slugs |->
        IF \E row \in projects : row.slug = slug
        THEN [project |-> (CHOOSE row \in projects : row.slug = slug).id,
              routes  |-> {row.id : row \in {x \in endpoints : x.slug = slug}}]
        ELSE NoProject]

MockProjects == {[id |-> p, slug |-> slugOf[p]] : p \in {p \in Projects : Exists(p)}}

MockEndpoints == {[id |-> e, slug |-> slugOf[ProjectOf[e]]] : e \in enabled}

Current == TableOf(MockProjects, MockEndpoints)
-----------------------------------------------------------------------------
(* One handler: the change is committed, and the reload it asks for is     *)
(* still to come.                                                          *)
ReloadRoutes(h) == reload' = [reload EXCEPT ![h].at = "projects"]

Commits(h, p) ==
    /\ reload[h].at = "idle"
    /\ edits < MaxEdits
    /\ edits' = edits + 1
    /\ touched' = touched \union {p}
    /\ ReloadRoutes(h)
    /\ UNCHANGED <<table, failures>>

CreateProject(h, p, slug) ==
    /\ p \notin created
    /\ Named(slug) = {}
    /\ slugOf' = [slugOf EXCEPT ![p] = slug]
    /\ created' = created \union {p}
    /\ UNCHANGED enabled
    /\ Commits(h, p)

UpdateProject(h, p, slug) ==
    /\ Exists(p)
    /\ Named(slug) \subseteq {p}
    /\ slugOf' = [slugOf EXCEPT ![p] = slug]
    /\ UNCHANGED <<enabled, created>>
    /\ Commits(h, p)

(* The endpoints go with it, by on delete cascade.                         *)
CascadeForgotten(p) == enabled
Cascade(p) == {e \in enabled : ProjectOf[e] # p}

DeleteProject(h, p) ==
    /\ Exists(p)
    /\ slugOf' = [slugOf EXCEPT ![p] = None]
    /\ enabled' = Cascade(p)
    /\ UNCHANGED created
    /\ Commits(h, p)

SaveEndpoint(h, e) ==
    /\ Exists(ProjectOf[e])
    /\ e \notin enabled
    /\ enabled' = enabled \union {e}
    /\ UNCHANGED <<slugOf, created>>
    /\ Commits(h, ProjectOf[e])

RemoveEndpoint(h, e) ==
    /\ e \in enabled
    /\ enabled' = enabled \ {e}
    /\ UNCHANGED <<slugOf, created>>
    /\ Commits(h, ProjectOf[e])
-----------------------------------------------------------------------------
RefreshTick ==
    /\ reload[Refresh].at = "idle"
    /\ reload' = [reload EXCEPT ![Refresh].at = "projects"]
    /\ UNCHANGED <<db, table, failures>>

ReadProjects(c) ==
    /\ reload[c].at = "projects"
    /\ reload' = [reload EXCEPT ![c] = [at        |-> "endpoints",
                                        projects  |-> MockProjects,
                                        endpoints |-> {}]]
    /\ UNCHANGED <<db, table, failures>>

ReadEndpoints(c) ==
    /\ reload[c].at = "endpoints"
    /\ reload' = [reload EXCEPT ![c].at = "install", ![c].endpoints = MockEndpoints]
    /\ UNCHANGED <<db, table, failures>>

Install(c) ==
    /\ reload[c].at = "install"
    /\ table' = TableOf(reload[c].projects, reload[c].endpoints)
    /\ reload' = [reload EXCEPT ![c] = NoReload]
    /\ UNCHANGED <<db, failures>>

(* Either statement fails, or the client of the handler has gone: the      *)
(* error is logged, and the table is left as it was.                       *)
EmptyTable == table' = TableOf({}, {})
OldTable == UNCHANGED table

RefreshGivenUp(c) == IF c = Refresh THEN [NoReload EXCEPT !.at = "stopped"] ELSE NoReload
AfterFailure(c) == NoReload

ReloadFails(c) ==
    /\ reload[c].at \in {"projects", "endpoints"}
    /\ failures < MaxFailures
    /\ failures' = failures + 1
    /\ reload' = [reload EXCEPT ![c] = AfterFailure(c)]
    /\ OldTable
    /\ UNCHANGED db
-----------------------------------------------------------------------------
(* run does not open the listener before a first reload has succeeded.     *)
RouterInit ==
    /\ slugOf \in [Projects -> Slugs \union {None}]
    /\ \A p, q \in Projects : slugOf[p] = slugOf[q] /\ Exists(p) => p = q
    /\ created = {p \in Projects : Exists(p)}
    /\ enabled \in SUBSET {e \in Endpoints : Exists(ProjectOf[e])}
    /\ table = Current
    /\ reload = [c \in Callers |-> NoReload]
    /\ touched = {}
    /\ edits = 0
    /\ failures = 0

Edit(h) ==
    \/ \E p \in Projects :
          \/ \E slug \in Slugs : CreateProject(h, p, slug) \/ UpdateProject(h, p, slug)
          \/ DeleteProject(h, p)
    \/ \E e \in Endpoints : SaveEndpoint(h, e) \/ RemoveEndpoint(h, e)

Reload(c) == ReadProjects(c) \/ ReadEndpoints(c) \/ Install(c) \/ ReloadFails(c)

RouterNext ==
    \/ \E h \in Handlers : Edit(h)
    \/ RefreshTick
    \/ \E c \in Callers : Reload(c)

RouterSpec == RouterInit /\ [][RouterNext]_routerVars

(* The ticker ticks, and a reload once begun installs its table or fails.  *)
RouterFairSpec ==
    /\ RouterSpec
    /\ WF_routerVars(RefreshTick)
    /\ \A c \in Callers : WF_routerVars(Reload(c))
-----------------------------------------------------------------------------
Rows(ids) == [id : ids, slug : Slugs]

RouterTypeOK ==
    /\ slugOf \in [Projects -> Slugs \union {None}]
    /\ \A p, q \in Projects : slugOf[p] = slugOf[q] /\ Exists(p) => p = q
    /\ created \in SUBSET Projects /\ touched \in SUBSET created
    /\ enabled \in SUBSET {e \in Endpoints : Exists(ProjectOf[e])}
    /\ table \in [Slugs -> [project : Projects \union {None}, routes : SUBSET Endpoints]]
    /\ reload \in [Callers -> [at : ReloadSteps, projects : SUBSET Rows(Projects),
                               endpoints : SUBSET Rows(Endpoints)]]
    /\ edits \in 0..MaxEdits /\ failures \in 0..MaxFailures

(* Edits of other projects never disturb a project nobody has edited: its  *)
(* slug goes on to name it, and it serves all of its endpoints and nobody  *)
(* else's, through torn reads, overlapping reloads and failed ones.        *)
UntouchedStaysServed ==
    \A p \in created \ touched :
        table[slugOf[p]] = [project |-> p,
                            routes  |-> {e \in enabled : ProjectOf[e] = p}]

(* What a caller has read serves the untouched too, however long ago, and  *)
(* by whichever of its two statements.                                     *)
CreatedAreThere ==
    \A p \in Projects :
        /\ Exists(p) => p \in created
        /\ p \in created \ touched => Exists(p)

ProjectsReadServe(c) ==
    /\ \A row, other \in reload[c].projects : row.slug = other.slug => row = other
    /\ \A p \in created \ touched : [id |-> p, slug |-> slugOf[p]] \in reload[c].projects

EndpointsReadServe(c) ==
    \A p \in created \ touched :
        {row.id : row \in {x \in reload[c].endpoints : x.slug = slugOf[p]}}
            = {e \in enabled : ProjectOf[e] = p}

ReadsServeTheUntouched ==
    \A c \in Callers :
        /\ reload[c].at \in {"endpoints", "install"} => ProjectsReadServe(c)
        /\ reload[c].at = "install" => EndpointsReadServe(c)

RouterIInv == RouterTypeOK /\ CreatedAreThere /\ UntouchedStaysServed /\ ReadsServeTheUntouched

(* A change goes live in the end, whatever order the reloads installed     *)
(* their tables in and even if the handler's own reload failed: "the       *)
(* scheduled refresh in mock.Router picks the change up" (reloadRoutes).   *)
EventuallyCurrent == <>[](table = Current)
-----------------------------------------------------------------------------
(* "The worst a torn read can produce is an endpoint whose project has     *)
(* just been deleted - which the table drops on the way in" (MockData): a  *)
(* slug is never served with the endpoints of another project.             *)
RoutesBelongToTheProject ==
    \A slug \in Slugs : \A e \in table[slug].routes : ProjectOf[e] = table[slug].project
=============================================================================
