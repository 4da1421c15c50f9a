---------------------------- MODULE RouterProofs ----------------------------
(***************************************************************************)
(* Proofs about Router, for any number of handlers, projects, slugs and    *)
(* endpoints: what the table serves of a project nobody has changed.       *)
(***************************************************************************)
EXTENDS Router, TLAPS

Table == [Slugs -> [project : Projects \union {None}, routes : SUBSET Endpoints]]

Read == [at : ReloadSteps, projects : SUBSET Rows(Projects), endpoints : SUBSET Rows(Endpoints)]

SlugsUnique(slugs) == \A p, q \in Projects : slugs[p] = slugs[q] /\ slugs[p] # None => p = q

LEMMA Typed ==
    ASSUME RouterTypeOK
    PROVE  /\ slugOf \in [Projects -> Slugs \union {None}] /\ SlugsUnique(slugOf)
           /\ created \subseteq Projects /\ touched \subseteq created
           /\ enabled \subseteq Endpoints /\ \A e \in enabled : slugOf[ProjectOf[e]] \in Slugs
           /\ table \in Table
           /\ reload \in [Callers -> Read] /\ \A c \in Callers : reload[c] \in Read
           /\ edits \in 0..MaxEdits /\ failures \in 0..MaxFailures
           /\ ProjectOf \in [Endpoints -> Projects] /\ None \notin Slugs
           /\ MaxEdits \in Nat /\ MaxFailures \in Nat
BY ProjectOfAssumption, NoneAssumption, MaxEditsAssumption, MaxFailuresAssumption
DEF RouterTypeOK, Table, Read, SlugsUnique, Exists

(* The statements.                                                         *)
LEMMA MockProjectsAre ==
    ASSUME RouterTypeOK, CreatedAreThere
    PROVE  /\ MockProjects \subseteq Rows(Projects)
           /\ \A row, other \in MockProjects : row.slug = other.slug => row = other
           /\ \A p \in created \ touched : [id |-> p, slug |-> slugOf[p]] \in MockProjects
<1>1. \A row \in MockProjects :
          \E p \in Projects : Exists(p) /\ row = [id |-> p, slug |-> slugOf[p]]
    BY DEF MockProjects
<1>2. \A p \in Projects : Exists(p) => slugOf[p] \in Slugs
    BY Typed DEF Exists
<1>3. MockProjects \subseteq Rows(Projects)
    BY <1>1, <1>2 DEF Rows
<1>4. ASSUME NEW row \in MockProjects, NEW other \in MockProjects, row.slug = other.slug
      PROVE  row = other
    <2>1. PICK p \in Projects : Exists(p) /\ row = [id |-> p, slug |-> slugOf[p]]
        BY <1>1
    <2>2. PICK q \in Projects : Exists(q) /\ other = [id |-> q, slug |-> slugOf[q]]
        BY <1>1
    <2>3. p = q
        BY <1>4, <2>1, <2>2, Typed DEF SlugsUnique, Exists
    <2> QED
        BY <2>1, <2>2, <2>3
<1>5. \A p \in created \ touched : [id |-> p, slug |-> slugOf[p]] \in MockProjects
    BY Typed DEF CreatedAreThere, MockProjects
<1> QED
    BY <1>3, <1>4, <1>5

LEMMA MockEndpointsAre ==
    ASSUME RouterTypeOK, CreatedAreThere
    PROVE  /\ MockEndpoints \subseteq Rows(Endpoints)
           /\ \A p \in created \ touched :
                  {row.id : row \in {x \in MockEndpoints : x.slug = slugOf[p]}}
                      = {e \in enabled : ProjectOf[e] = p}
<1>1. \A row \in MockEndpoints : \E e \in enabled : row = [id |-> e, slug |-> slugOf[ProjectOf[e]]]
    BY DEF MockEndpoints
<1>2. MockEndpoints \subseteq Rows(Endpoints)
    BY <1>1, Typed DEF Rows
<1>3. ASSUME NEW p \in created \ touched
      PROVE  {row.id : row \in {x \in MockEndpoints : x.slug = slugOf[p]}}
                 = {e \in enabled : ProjectOf[e] = p}
    <2>1. p \in Projects /\ slugOf[p] # None
        BY Typed DEF CreatedAreThere, Exists
    <2>2. ASSUME NEW row \in MockEndpoints, row.slug = slugOf[p]
          PROVE  row.id \in {e \in enabled : ProjectOf[e] = p}
        <3>1. PICK e \in enabled : row = [id |-> e, slug |-> slugOf[ProjectOf[e]]]
            BY <1>1
        <3>2. ProjectOf[e] \in Projects /\ slugOf[ProjectOf[e]] = slugOf[p]
            BY <2>2, <3>1, Typed
        <3> QED
            BY <2>1, <3>1, <3>2, Typed DEF SlugsUnique
    <2>3. ASSUME NEW e \in enabled, ProjectOf[e] = p
          PROVE  \E row \in MockEndpoints : row.slug = slugOf[p] /\ row.id = e
        <3>1. [id |-> e, slug |-> slugOf[ProjectOf[e]]] \in MockEndpoints
            BY DEF MockEndpoints
        <3> QED
            BY <2>3, <3>1
    <2> QED
        BY <2>2, <2>3
<1> QED
    BY <1>2, <1>3

(* BuildTable.                                                             *)
LEMMA TableOfTyped ==
    ASSUME NEW ps \in SUBSET Rows(Projects), NEW es \in SUBSET Rows(Endpoints)
    PROVE  TableOf(ps, es) \in Table
<1>1. ASSUME NEW slug \in Slugs
      PROVE  TableOf(ps, es)[slug] \in [project : Projects \union {None}, routes : SUBSET Endpoints]
    <2>1. {row.id : row \in {x \in es : x.slug = slug}} \subseteq Endpoints
        BY DEF Rows
    <2>2. CASE \E row \in ps : row.slug = slug
        <3>1. (CHOOSE row \in ps : row.slug = slug) \in ps
            BY <2>2
        <3>2. (CHOOSE row \in ps : row.slug = slug).id \in Projects
            BY <3>1 DEF Rows
        <3> QED
            BY <2>1, <2>2, <3>2 DEF TableOf
    <2>3. CASE ~\E row \in ps : row.slug = slug
        BY <2>3 DEF TableOf, NoProject
    <2> QED
        BY <2>2, <2>3
<1>2. TableOf(ps, es) = [slug \in Slugs |-> TableOf(ps, es)[slug]]
    BY DEF TableOf
<1> QED
    BY <1>1, <1>2 DEF Table

LEMMA TableOfServes ==
    ASSUME NEW ps, NEW es, NEW p, NEW slug \in Slugs,
           \A row, other \in ps : row.slug = other.slug => row = other,
           [id |-> p, slug |-> slug] \in ps,
           NEW routes, {row.id : row \in {x \in es : x.slug = slug}} = routes
    PROVE  TableOf(ps, es)[slug] = [project |-> p, routes |-> routes]
<1> DEFINE found == CHOOSE row \in ps : row.slug = slug
<1>1. [id |-> p, slug |-> slug].slug = slug
    OBVIOUS
<1>2. \E row \in ps : row.slug = slug
    BY <1>1
<1>3. found \in ps /\ found.slug = slug
    BY <1>2
<1> HIDE DEF found
<1>4. found = [id |-> p, slug |-> slug]
    BY <1>1, <1>3
<1>5. found.id = p
    BY <1>4
<1> QED
    BY <1>2, <1>5 DEF TableOf, found
-----------------------------------------------------------------------------
(* Whatever a change does, it does to the one project it counts as touched. *)
LEMMA ChangeKeeps ==
    ASSUME RouterIInv, NEW h \in Handlers, NEW p \in Projects, Commits(h, p),
           slugOf' \in [Projects -> Slugs \union {None}], SlugsUnique(slugOf'),
           \A q \in Projects : q # p => slugOf'[q] = slugOf[q],
           p \in created', created \subseteq created', created' \subseteq created \union {p},
           enabled' \subseteq Endpoints, \A e \in enabled' : slugOf'[ProjectOf[e]] \in Slugs,
           \A e \in Endpoints : ProjectOf[e] # p => (e \in enabled' <=> e \in enabled)
    PROVE  RouterIInv'
<1>1. /\ RouterTypeOK /\ CreatedAreThere /\ UntouchedStaysServed /\ ReadsServeTheUntouched
      /\ h \in Callers
    BY DEF RouterIInv, Callers
<1>2. /\ edits < MaxEdits /\ edits' = edits + 1 /\ touched' = touched \union {p}
      /\ table' = table /\ failures' = failures
      /\ reload' = [reload EXCEPT ![h].at = "projects"]
    BY DEF Commits, ReloadRoutes
<1>3. /\ reload' \in [Callers -> Read] /\ reload'[h].at = "projects"
      /\ \A c \in Callers : c # h => reload'[c] = reload[c]
    BY <1>1, <1>2, Typed DEF Read, ReloadSteps
<1>4. created' \ touched' \subseteq (created \ touched) \ {p} /\ created' \subseteq Projects
    BY <1>1, <1>2, Typed
<1>5. \A q \in created' \ touched' : /\ slugOf'[q] = slugOf[q]
                                     /\ {e \in enabled' : ProjectOf[e] = q}
                                            = {e \in enabled : ProjectOf[e] = q}
    BY <1>1, <1>4, Typed
<1>6. RouterTypeOK'
    <2>1. touched' \subseteq created'
        BY <1>1, <1>2, Typed
    <2>2. edits' \in 0..MaxEdits
        BY <1>1, <1>2, Typed
    <2>3. /\ enabled' \in SUBSET {e \in Endpoints : slugOf'[ProjectOf[e]] # None}
          /\ \A a, b \in Projects : slugOf'[a] = slugOf'[b] /\ slugOf'[a] # None => a = b
        BY <1>1, Typed DEF SlugsUnique
    <2>4. table' \in Table /\ failures' \in 0..MaxFailures
        BY <1>1, <1>2, Typed
    <2> QED
        BY <1>3, <1>4, <2>1, <2>2, <2>3, <2>4 DEF RouterTypeOK, Exists, Table, Read
<1>7. CreatedAreThere'
    BY <1>1, <1>2, <1>4 DEF CreatedAreThere, Exists
<1>8. UntouchedStaysServed'
    BY <1>1, <1>2, <1>4, <1>5 DEF UntouchedStaysServed
<1>9. ReadsServeTheUntouched'
    <2> SUFFICES ASSUME NEW c \in Callers, reload'[c].at \in {"endpoints", "install"}
                 PROVE  /\ ProjectsReadServe(c)'
                        /\ reload'[c].at = "install" => EndpointsReadServe(c)'
        BY DEF ReadsServeTheUntouched
    <2>1. reload'[c] = reload[c]
        BY <1>3
    <2> QED
        BY <1>1, <1>4, <1>5, <2>1 DEF ReadsServeTheUntouched, ProjectsReadServe, EndpointsReadServe
<1> QED
    BY <1>6, <1>7, <1>8, <1>9 DEF RouterIInv

LEMMA CreateProjectKeeps ==
    ASSUME RouterIInv, NEW h \in Handlers, NEW p \in Projects, NEW slug \in Slugs, CreateProject(h, p, slug)
    PROVE  RouterIInv'
<1>1. RouterTypeOK /\ CreatedAreThere
    BY DEF RouterIInv
<1>2. /\ Commits(h, p) /\ slugOf' = [slugOf EXCEPT ![p] = slug] /\ enabled' = enabled
      /\ created' = created \union {p} /\ p \notin created
      /\ \A q \in Projects : slugOf[q] # slug
    BY DEF CreateProject, Named
<1>3. slugOf[p] = None
    BY <1>1, <1>2 DEF CreatedAreThere, Exists
<1>4. /\ slugOf'[p] = slug /\ \A q \in Projects : q # p => slugOf'[q] = slugOf[q]
      /\ slugOf' \in [Projects -> Slugs \union {None}]
    BY <1>1, <1>2, Typed
<1>5. SlugsUnique(slugOf')
    BY <1>1, <1>2, <1>4, Typed DEF SlugsUnique
<1>6. \A e \in enabled' : slugOf'[ProjectOf[e]] \in Slugs
    BY <1>1, <1>2, <1>4, Typed
<1> QED
    BY <1>1, <1>2, <1>4, <1>5, <1>6, Typed, ChangeKeeps

LEMMA UpdateProjectKeeps ==
    ASSUME RouterIInv, NEW h \in Handlers, NEW p \in Projects, NEW slug \in Slugs, UpdateProject(h, p, slug)
    PROVE  RouterIInv'
<1>1. RouterTypeOK /\ CreatedAreThere
    BY DEF RouterIInv
<1>2. /\ Commits(h, p) /\ slugOf' = [slugOf EXCEPT ![p] = slug] /\ enabled' = enabled
      /\ created' = created /\ Exists(p)
      /\ \A q \in Projects : slugOf[q] = slug => q = p
    BY DEF UpdateProject, Named
<1>3. p \in created
    BY <1>1, <1>2 DEF CreatedAreThere
<1>4. /\ slugOf'[p] = slug /\ \A q \in Projects : q # p => slugOf'[q] = slugOf[q]
      /\ slugOf' \in [Projects -> Slugs \union {None}]
    BY <1>1, <1>2, Typed
<1>5. SlugsUnique(slugOf')
    BY <1>1, <1>2, <1>4, Typed DEF SlugsUnique
<1>6. \A e \in enabled' : slugOf'[ProjectOf[e]] \in Slugs
    BY <1>1, <1>2, <1>4, Typed
<1> QED
    BY <1>1, <1>2, <1>3, <1>4, <1>5, <1>6, Typed, ChangeKeeps

LEMMA DeleteProjectKeeps ==
    ASSUME RouterIInv, NEW h \in Handlers, NEW p \in Projects, DeleteProject(h, p)
    PROVE  RouterIInv'
<1>1. RouterTypeOK /\ CreatedAreThere
    BY DEF RouterIInv
<1>2. /\ Commits(h, p) /\ slugOf' = [slugOf EXCEPT ![p] = None]
      /\ enabled' = {e \in enabled : ProjectOf[e] # p} /\ created' = created /\ Exists(p)
    BY DEF DeleteProject, Cascade
<1>3. p \in created
    BY <1>1, <1>2 DEF CreatedAreThere
<1>4. /\ slugOf'[p] = None /\ \A q \in Projects : q # p => slugOf'[q] = slugOf[q]
      /\ slugOf' \in [Projects -> Slugs \union {None}]
    BY <1>1, <1>2, Typed
<1>5. SlugsUnique(slugOf')
    BY <1>1, <1>2, <1>4, Typed DEF SlugsUnique
<1>6. \A e \in enabled' : slugOf'[ProjectOf[e]] \in Slugs
    BY <1>1, <1>2, <1>4, Typed
<1> QED
    BY <1>1, <1>2, <1>3, <1>4, <1>5, <1>6, Typed, ChangeKeeps

LEMMA EndpointChangeKeeps ==
    ASSUME RouterIInv, NEW h \in Handlers, NEW e \in Endpoints, SaveEndpoint(h, e) \/ RemoveEndpoint(h, e)
    PROVE  RouterIInv'
<1>1. RouterTypeOK /\ CreatedAreThere
    BY DEF RouterIInv
<1> DEFINE p == ProjectOf[e]
<1>2. /\ Commits(h, p) /\ UNCHANGED <<slugOf, created>>
      /\ \/ Exists(p) /\ enabled' = enabled \union {e}
         \/ e \in enabled /\ enabled' = enabled \ {e}
    BY DEF SaveEndpoint, RemoveEndpoint
<1>3. p \in Projects /\ Exists(p)
    BY <1>1, <1>2, Typed DEF Exists
<1>4. p \in created
    BY <1>1, <1>3 DEF CreatedAreThere
<1>5. /\ enabled' \subseteq Endpoints /\ \A x \in enabled' : slugOf'[ProjectOf[x]] \in Slugs
      /\ \A x \in Endpoints : ProjectOf[x] # p => (x \in enabled' <=> x \in enabled)
    BY <1>1, <1>2, <1>3, Typed DEF Exists
<1>6. slugOf' \in [Projects -> Slugs \union {None}] /\ SlugsUnique(slugOf')
    BY <1>1, <1>2, Typed
<1> HIDE DEF p
<1> QED
    BY <1>2, <1>3, <1>4, <1>5, <1>6, ChangeKeeps

(* A caller goes on, and the database does not change.                     *)
LEMMA CallerKeeps ==
    ASSUME RouterIInv, NEW c \in Callers, NEW n \in Read, reload' = [reload EXCEPT ![c] = n],
           UNCHANGED db, failures' \in 0..MaxFailures, table' \in Table, UntouchedStaysServed',
           n.at \in {"endpoints", "install"} => ProjectsReadServe(c)',
           n.at = "install" => EndpointsReadServe(c)'
    PROVE  RouterIInv'
<1>1. RouterTypeOK /\ CreatedAreThere /\ ReadsServeTheUntouched
    BY DEF RouterIInv
<1>2. /\ reload' \in [Callers -> Read] /\ reload'[c] = n
      /\ \A x \in Callers : x # c => reload'[x] = reload[x]
    BY <1>1, Typed
<1>3. UNCHANGED <<slugOf, enabled, created, touched, edits>>
    BY DEF db
<1>4. RouterTypeOK'
    BY <1>1, <1>2, <1>3 DEF RouterTypeOK, Exists, Table, Read
<1>5. CreatedAreThere'
    BY <1>1, <1>3 DEF CreatedAreThere, Exists
<1>6. ReadsServeTheUntouched'
    <2> SUFFICES ASSUME NEW x \in Callers
                 PROVE  /\ reload'[x].at \in {"endpoints", "install"} => ProjectsReadServe(x)'
                        /\ reload'[x].at = "install" => EndpointsReadServe(x)'
        BY DEF ReadsServeTheUntouched
    <2>1. CASE x = c
        BY <1>2, <2>1
    <2>2. CASE x # c
        BY <1>1, <1>2, <1>3, <2>2 DEF ReadsServeTheUntouched, ProjectsReadServe, EndpointsReadServe
    <2> QED
        BY <2>1, <2>2
<1> QED
    BY <1>4, <1>5, <1>6 DEF RouterIInv

LEMMA SameTable ==
    ASSUME RouterIInv, UNCHANGED db, table' = table
    PROVE  table' \in Table /\ UntouchedStaysServed'
BY Typed DEF RouterIInv, db, UntouchedStaysServed

LEMMA TickKeeps ==
    ASSUME RouterIInv, RefreshTick PROVE RouterIInv'
<1> DEFINE n == [reload[Refresh] EXCEPT !.at = "projects"]
<1>1. RouterTypeOK /\ Refresh \in Callers
    BY DEF RouterIInv, Callers
<1>2. reload' = [reload EXCEPT ![Refresh] = n]
    BY <1>1, Typed DEF RefreshTick
<1>3. n \in Read /\ n.at = "projects"
    BY <1>1, Typed DEF Read, ReloadSteps
<1>4. UNCHANGED db /\ table' = table /\ failures' \in 0..MaxFailures
    BY <1>1, Typed DEF RefreshTick
<1> HIDE DEF n
<1> QED
    BY <1>1, <1>2, <1>3, <1>4, SameTable, CallerKeeps

LEMMA ReadProjectsKeeps ==
    ASSUME RouterIInv, NEW c \in Callers, ReadProjects(c) PROVE RouterIInv'
<1> DEFINE n == [at |-> "endpoints", projects |-> MockProjects, endpoints |-> {}]
<1>1. RouterTypeOK /\ CreatedAreThere
    BY DEF RouterIInv
<1>2. /\ reload' = [reload EXCEPT ![c] = n] /\ UNCHANGED db /\ table' = table
      /\ failures' \in 0..MaxFailures
    BY <1>1, Typed DEF ReadProjects
<1>3. n \in Read /\ n.at = "endpoints" /\ n.projects = MockProjects
    BY <1>1, MockProjectsAre DEF Read, ReloadSteps
<1> HIDE DEF n
<1>4. reload'[c] = n
    BY <1>1, <1>2, Typed
<1>5. ProjectsReadServe(c)'
    BY <1>1, <1>2, <1>3, <1>4, MockProjectsAre DEF ProjectsReadServe, db
<1> QED
    BY <1>2, <1>3, <1>5, SameTable, CallerKeeps

LEMMA ReadEndpointsKeeps ==
    ASSUME RouterIInv, NEW c \in Callers, ReadEndpoints(c) PROVE RouterIInv'
<1> DEFINE n == [reload[c] EXCEPT !.at = "install", !.endpoints = MockEndpoints]
<1>1. RouterTypeOK /\ CreatedAreThere /\ ReadsServeTheUntouched
    BY DEF RouterIInv
<1>2. /\ reload' = [reload EXCEPT ![c] = n] /\ UNCHANGED db /\ table' = table
      /\ failures' \in 0..MaxFailures /\ reload[c].at = "endpoints"
    BY <1>1, Typed DEF ReadEndpoints
<1>3. /\ n \in Read /\ n.at = "install" /\ n.projects = reload[c].projects
      /\ n.endpoints = MockEndpoints
    BY <1>1, Typed, MockEndpointsAre DEF Read, ReloadSteps
<1> HIDE DEF n
<1>4. reload'[c] = n
    BY <1>1, <1>2, Typed
<1>5. ProjectsReadServe(c)'
    BY <1>1, <1>2, <1>3, <1>4 DEF ReadsServeTheUntouched, ProjectsReadServe, db
<1>6. EndpointsReadServe(c)'
    BY <1>1, <1>2, <1>3, <1>4, MockEndpointsAre DEF EndpointsReadServe, db
<1> QED
    BY <1>2, <1>3, <1>5, <1>6, SameTable, CallerKeeps

LEMMA InstallKeeps ==
    ASSUME RouterIInv, NEW c \in Callers, Install(c) PROVE RouterIInv'
<1>1. RouterTypeOK /\ CreatedAreThere /\ ReadsServeTheUntouched
    BY DEF RouterIInv
<1>2. /\ reload' = [reload EXCEPT ![c] = NoReload] /\ UNCHANGED db
      /\ table' = TableOf(reload[c].projects, reload[c].endpoints)
      /\ failures' \in 0..MaxFailures /\ reload[c].at = "install"
    BY <1>1, Typed DEF Install
<1>3. NoReload \in Read /\ NoReload.at = "idle"
    BY DEF NoReload, Read, ReloadSteps
<1>4. table' \in Table
    BY <1>1, <1>2, Typed, TableOfTyped DEF Read
<1>5. UntouchedStaysServed'
    <2> SUFFICES ASSUME NEW p \in created \ touched
                 PROVE  table'[slugOf[p]] = [project |-> p,
                                             routes  |-> {e \in enabled : ProjectOf[e] = p}]
        BY <1>2 DEF UntouchedStaysServed, db
    <2>1. slugOf[p] \in Slugs
        BY <1>1, Typed DEF CreatedAreThere, Exists
    <2>2. ProjectsReadServe(c) /\ EndpointsReadServe(c)
        BY <1>1, <1>2 DEF ReadsServeTheUntouched
    <2> DEFINE routes == {e \in enabled : ProjectOf[e] = p}
               ps == reload[c].projects
               es == reload[c].endpoints
    <2>3. /\ \A row, other \in ps : row.slug = other.slug => row = other
          /\ [id |-> p, slug |-> slugOf[p]] \in ps
          /\ {row.id : row \in {x \in es : x.slug = slugOf[p]}} = routes
        BY <2>2 DEF ProjectsReadServe, EndpointsReadServe
    <2>4. table' = TableOf(ps, es)
        BY <1>2
    <2> HIDE DEF ps, es, routes
    <2>5. TableOf(ps, es)[slugOf[p]] = [project |-> p, routes |-> routes]
        BY <2>1, <2>3, TableOfServes
    <2> QED
        BY <2>4, <2>5 DEF routes
<1> QED
    BY <1>2, <1>3, <1>4, <1>5, CallerKeeps

LEMMA ReloadFailsKeeps ==
    ASSUME RouterIInv, NEW c \in Callers, ReloadFails(c) PROVE RouterIInv'
<1>1. RouterTypeOK
    BY DEF RouterIInv
<1>2. /\ reload' = [reload EXCEPT ![c] = NoReload] /\ UNCHANGED db /\ table' = table
      /\ failures' \in 0..MaxFailures
    BY <1>1, Typed DEF ReloadFails, AfterFailure, OldTable
<1>3. NoReload \in Read /\ NoReload.at = "idle"
    BY DEF NoReload, Read, ReloadSteps
<1> QED
    BY <1>2, <1>3, SameTable, CallerKeeps

LEMMA RouterStart ==
    ASSUME RouterInit PROVE RouterIInv
<1>1. /\ slugOf \in [Projects -> Slugs \union {None}]
      /\ \A p, q \in Projects : slugOf[p] = slugOf[q] /\ Exists(p) => p = q
      /\ created = {p \in Projects : Exists(p)}
      /\ enabled \in SUBSET {e \in Endpoints : Exists(ProjectOf[e])}
      /\ table = Current /\ reload = [c \in Callers |-> NoReload]
      /\ touched = {} /\ edits = 0 /\ failures = 0
    BY DEF RouterInit
<1>2. NoReload \in Read /\ NoReload.at = "idle"
    BY DEF NoReload, Read, ReloadSteps
<1>3. CreatedAreThere
    BY <1>1 DEF CreatedAreThere
<1>4. /\ ProjectOf \in [Endpoints -> Projects] /\ None \notin Slugs
      /\ MaxEdits \in Nat /\ MaxFailures \in Nat
    BY ProjectOfAssumption, NoneAssumption, MaxEditsAssumption, MaxFailuresAssumption
<1>5. table \in Table
    <2>1. MockProjects \in SUBSET Rows(Projects) /\ MockEndpoints \in SUBSET Rows(Endpoints)
        BY <1>1, <1>4 DEF MockProjects, MockEndpoints, Rows, Exists
    <2> QED
        BY <1>1, <2>1, TableOfTyped DEF Current
<1>6. RouterTypeOK
    BY <1>1, <1>2, <1>4, <1>5 DEF RouterTypeOK, Table, Read
<1>7. UntouchedStaysServed
    <2> SUFFICES ASSUME NEW p \in created \ touched
                 PROVE  table[slugOf[p]] = [project |-> p,
                                            routes  |-> {e \in enabled : ProjectOf[e] = p}]
        BY DEF UntouchedStaysServed
    <2>1. slugOf[p] \in Slugs
        BY <1>1 DEF Exists
    <2> DEFINE routes == {e \in enabled : ProjectOf[e] = p}
               ps == MockProjects
               es == MockEndpoints
    <2>3. /\ \A row, other \in ps : row.slug = other.slug => row = other
          /\ [id |-> p, slug |-> slugOf[p]] \in ps
          /\ {row.id : row \in {x \in es : x.slug = slugOf[p]}} = routes
        BY <1>3, <1>6, MockProjectsAre, MockEndpointsAre
    <2>4. table = TableOf(ps, es)
        BY <1>1 DEF Current
    <2> HIDE DEF ps, es, routes
    <2>5. TableOf(ps, es)[slugOf[p]] = [project |-> p, routes |-> routes]
        BY <2>1, <2>3, TableOfServes
    <2> QED
        BY <2>4, <2>5 DEF routes
<1>8. ReadsServeTheUntouched
    BY <1>1, <1>2 DEF ReadsServeTheUntouched
<1> QED
    BY <1>3, <1>6, <1>7, <1>8 DEF RouterIInv

LEMMA RouterStep ==
    ASSUME RouterIInv, [RouterNext]_routerVars PROVE RouterIInv'
<1>1. ASSUME NEW h \in Handlers, Edit(h) PROVE RouterIInv'
    BY <1>1, CreateProjectKeeps, UpdateProjectKeeps, DeleteProjectKeeps, EndpointChangeKeeps DEF Edit
<1>2. ASSUME NEW c \in Callers, Reload(c) PROVE RouterIInv'
    BY <1>2, ReadProjectsKeeps, ReadEndpointsKeeps, InstallKeeps, ReloadFailsKeeps DEF Reload
<1>3. ASSUME UNCHANGED routerVars PROVE RouterIInv'
    <2>1. UNCHANGED <<slugOf, enabled, created, touched, edits, table, reload, failures>>
        BY <1>3 DEF routerVars, db
    <2> QED
        BY <2>1 DEF RouterIInv, RouterTypeOK, CreatedAreThere, UntouchedStaysServed, ReadsServeTheUntouched,
                    ProjectsReadServe, EndpointsReadServe, Exists
<1> QED
    BY <1>1, <1>2, <1>3, TickKeeps DEF RouterNext

(* What the table serves, and what any reload under way has read, serves   *)
(* the projects nobody has changed, whatever is changed meanwhile and      *)
(* whichever of the two reads a change falls between.                      *)
THEOREM RouterInvariant == RouterSpec => []RouterIInv
<1>1. RouterInit => RouterIInv
    BY RouterStart
<1>2. RouterIInv /\ [RouterNext]_routerVars => RouterIInv'
    BY RouterStep
<1> QED
    BY <1>1, <1>2, PTL DEF RouterSpec

(* The tables and the reads keep their types, slugs stay unique, and no    *)
(* endpoint is left without its project.                                   *)
THEOREM RouterTypeCorrect == RouterSpec => []RouterTypeOK
<1>1. RouterIInv => RouterTypeOK
    BY DEF RouterIInv
<1> QED
    BY <1>1, RouterInvariant, PTL

(* A project nobody has changed goes on being served, with its own         *)
(* endpoints and all of them.                                              *)
THEOREM UntouchedServed == RouterSpec => []UntouchedStaysServed
<1>1. RouterIInv => UntouchedStaysServed
    BY DEF RouterIInv
<1> QED
    BY <1>1, RouterInvariant, PTL
=============================================================================
