-------------------------------- MODULE Demo --------------------------------
(***************************************************************************)
(* The demo project: provisioned by every instance at its start            *)
(* (internal/core/demo.go, the end of createProject in project.go and      *)
(* installDataset in dataset.go, cmd/restest/main.go) and reset by each on *)
(* a timer, while visitors write to it.                                    *)
(*                                                                         *)
(* Each action is one statement or one transaction of its own, except that *)
(* the project and its datasets are created in one transaction, which      *)
(* holds the slug from its first statement and is seen when it commits.    *)
(* PostgreSQL's part, the unique indexes and what waits for them, is       *)
(* external.  "removed" is history.                                         *)
(***************************************************************************)
EXTENDS Integers, FiniteSets

CONSTANTS
    Instances,      \* processes that start, run and end
    Datasets,       \* Datasets()
    MaxMishaps      \* bound: statements that fail and processes that end

ASSUME DemoAssumption == MaxMishaps \in Nat

-----------------------------------------------------------------------------
VARIABLES
    demoUser,       \* the account behind DemoEmail exists
    slugOwner,      \* the project with the demo slug: none, the demo, another
    contents,       \* each collection of the demo project, once there
    instances,      \* where each instance is, and its transaction or its list
    mishaps,
    removed         \* history: collections of the demo an operator deleted

demoVars == <<demoUser, slugOwner, contents, instances, mishaps, removed>>

demoTables == <<demoUser, slugOwner, contents, removed>>

Provisioning == {"lookup", "findOwner", "createOwner", "insert", "install", "readBack"}

(* "left" is the datasets still to install or the collections to reset,    *)
(* "failed" that a dataset was not installed.                              *)
Down == [at |-> "down", left |-> {}, failed |-> FALSE]

Goto(i, place) == instances' = [instances EXCEPT ![i] = [Down EXCEPT !.at = place]]

Up(i) == instances[i].at \notin {"down", "without"}
-----------------------------------------------------------------------------
(* main, on its way to EnsureDemoProject: started, or, without a demo,      *)
(* started again by an operator.                                           *)
StartInstance(i) ==
    /\ ~Up(i)
    /\ Goto(i, "lookup")
    /\ UNCHANGED <<demoTables, mishaps>>

(* demoProject, first and again for the instance that lost the race: the   *)
(* slug is not enough, it has to be the demo.                              *)
IsDemoBySlug == slugOwner # "free"
IsDemo == slugOwner = "demo"

(* An error from EnsureDemoProject is logged, and the process goes on      *)
(* without a reset loop.                                                   *)
Lookup(i) ==
    /\ instances[i].at = "lookup"
    /\ Goto(i, IF IsDemo THEN "ready" ELSE IF slugOwner = "free" THEN "findOwner" ELSE "without")
    /\ UNCHANGED <<demoTables, mishaps>>

ReadBack(i) ==
    /\ instances[i].at = "readBack"
    /\ Goto(i, IF IsDemo THEN "ready" ELSE "without")
    /\ UNCHANGED <<demoTables, mishaps>>

(* ensureDemoOwner: found, or created, or found after another created it.  *)
FindOwner(i) ==
    /\ instances[i].at = "findOwner"
    /\ Goto(i, IF demoUser THEN "insert" ELSE "createOwner")
    /\ UNCHANGED <<demoTables, mishaps>>

CreateOwner(i) ==
    /\ instances[i].at = "createOwner"
    /\ demoUser' = TRUE
    /\ Goto(i, "insert")
    /\ UNCHANGED <<slugOwner, contents, removed, mishaps>>

(* createProject: the insert waits for a transaction that holds the slug,  *)
(* and fails on a slug that is taken.                                      *)
SlugHeld == \E j \in Instances : instances[j].at = "install"

InsertProject(i) ==
    /\ instances[i].at = "insert"
    /\ ~SlugHeld
    /\ IF slugOwner = "free"
       THEN instances' = [instances EXCEPT ![i] = [Down EXCEPT !.at = "install", !.left = Datasets]]
       ELSE Goto(i, "readBack")
    /\ UNCHANGED <<demoTables, mishaps>>

InstallDataset(i) ==
    /\ instances[i].at = "install"
    /\ \E d \in instances[i].left : instances' = [instances EXCEPT ![i].left = @ \ {d}]
    /\ UNCHANGED <<demoTables, mishaps>>

(* One dataset that fails ends the transaction, and with it provisioning.  *)
AfterFailedInstallSkipping(i, d) ==
    [instances[i] EXCEPT !.left = @ \ {d}, !.failed = TRUE]
AfterFailedInstall(i, d) == [Down EXCEPT !.at = "without"]

InstallFails(i) ==
    /\ instances[i].at = "install"
    /\ mishaps < MaxMishaps
    /\ mishaps' = mishaps + 1
    /\ \E d \in instances[i].left :
          instances' = [instances EXCEPT ![i] = AfterFailedInstall(i, d)]
    /\ UNCHANGED demoTables

CommitProject(i) ==
    /\ instances[i].at = "install"
    /\ instances[i].left = {}
    /\ slugOwner' = "demo"
    /\ contents' = [d \in Datasets |-> IF instances[i].failed THEN "absent" ELSE "seed"]
    /\ Goto(i, "ready")
    /\ UNCHANGED <<demoUser, removed, mishaps>>

(* Any other statement of provisioning fails.                              *)
ProvisioningFails(i) ==
    /\ instances[i].at \in Provisioning
    /\ mishaps < MaxMishaps
    /\ mishaps' = mishaps + 1
    /\ Goto(i, "without")
    /\ UNCHANGED demoTables
-----------------------------------------------------------------------------
(* Provisioned: the routes are reloaded and the reset loop starts at once. *)
StartLoop(i) ==
    /\ instances[i].at = "ready"
    /\ Goto(i, "list")
    /\ UNCHANGED <<demoTables, mishaps>>

(* The reload fails, and main returns.                                     *)
FirstReloadFails(i) ==
    /\ instances[i].at = "ready"
    /\ mishaps < MaxMishaps
    /\ mishaps' = mishaps + 1
    /\ Goto(i, "down")
    /\ UNCHANGED demoTables

(* ResetDemoProjects: the collections of the projects flagged as demo.     *)
Listed == {d \in Datasets : slugOwner = "demo" /\ contents[d] # "absent"}

ListCollections(i) ==
    /\ instances[i].at = "list"
    /\ instances' = [instances EXCEPT ![i] = [Down EXCEPT !.at = "reset", !.left = Listed]]
    /\ UNCHANGED <<demoTables, mishaps>>

(* ResetCollection; one deleted since the listing is passed over.          *)
ResetNext(i) ==
    /\ instances[i].at = "reset"
    /\ \E d \in instances[i].left :
          /\ contents' = [contents EXCEPT ![d] = IF @ = "absent" THEN @ ELSE "seed"]
          /\ instances' = [instances EXCEPT ![i].left = @ \ {d}]
    /\ UNCHANGED <<demoUser, slugOwner, removed, mishaps>>

(* All are reset: the loop waits for its ticker.                           *)
ResetDone(i) ==
    /\ instances[i].at = "reset"
    /\ instances[i].left = {}
    /\ Goto(i, "wait")
    /\ UNCHANGED <<demoTables, mishaps>>

(* A reset that fails ends the run; the next tick starts over.             *)
AfterFailedResetLeaving == "ended"
AfterFailedReset == "wait"

ResetFails(i) ==
    /\ instances[i].at \in {"list", "reset"}
    /\ mishaps < MaxMishaps
    /\ mishaps' = mishaps + 1
    /\ Goto(i, AfterFailedReset)
    /\ UNCHANGED demoTables

ResetTick(i) ==
    /\ instances[i].at = "wait"
    /\ Goto(i, "list")
    /\ UNCHANGED <<demoTables, mishaps>>

(* The process ends anywhere: what it has not committed is gone.           *)
EndInstance(i) ==
    /\ instances[i].at # "down"
    /\ mishaps < MaxMishaps
    /\ mishaps' = mishaps + 1
    /\ Goto(i, "down")
    /\ UNCHANGED demoTables
-----------------------------------------------------------------------------
(* An anonymous write to /m/demo/...                                       *)
VisitorWrites(d) ==
    /\ contents[d] # "absent"
    /\ contents' = [contents EXCEPT ![d] = "dirty"]
    /\ UNCHANGED <<demoUser, slugOwner, instances, mishaps, removed>>

(* Nobody logs in as the demo's owner, but an operator has the database.   *)
OperatorDeletes(d) ==
    /\ contents[d] # "absent"
    /\ contents' = [contents EXCEPT ![d] = "absent"]
    /\ removed' = removed \union {d}
    /\ UNCHANGED <<demoUser, slugOwner, instances, mishaps>>

(* The slug taken by an instance from before it was reserved, and given up *)
(* by that project's owner.                                                *)
TakeSlug ==
    /\ slugOwner = "free" /\ ~SlugHeld
    /\ mishaps < MaxMishaps
    /\ mishaps' = mishaps + 1
    /\ slugOwner' = "foreign"
    /\ UNCHANGED <<demoUser, contents, instances, removed>>

GiveUpSlug ==
    /\ slugOwner = "foreign"
    /\ slugOwner' = "free"
    /\ UNCHANGED <<demoUser, contents, instances, mishaps, removed>>

DemoInit ==
    /\ demoUser = FALSE
    /\ slugOwner = "free"
    /\ contents = [d \in Datasets |-> "absent"]
    /\ instances = [i \in Instances |-> Down]
    /\ mishaps = 0
    /\ removed = {}

(* What an instance that is running does when nothing goes wrong.          *)
InstanceStep(i) ==
    \/ Lookup(i) \/ FindOwner(i) \/ CreateOwner(i) \/ InsertProject(i)
    \/ InstallDataset(i) \/ CommitProject(i) \/ ReadBack(i) \/ StartLoop(i)
    \/ ListCollections(i) \/ ResetNext(i) \/ ResetDone(i) \/ ResetTick(i)

DemoNext ==
    \/ \E i \in Instances :
          \/ StartInstance(i) \/ InstanceStep(i) \/ EndInstance(i)
          \/ InstallFails(i) \/ ProvisioningFails(i) \/ FirstReloadFails(i) \/ ResetFails(i)
    \/ \E d \in Datasets : VisitorWrites(d) \/ OperatorDeletes(d)
    \/ TakeSlug \/ GiveUpSlug

DemoSpec == DemoInit /\ [][DemoNext]_demoVars

(* A process that runs goes on running, and its ticker ticks.  Nothing     *)
(* says that one which ended is started again.                             *)
DemoFairness == \A i \in Instances : WF_demoVars(InstanceStep(i))
-----------------------------------------------------------------------------
DemoTypeOK ==
    /\ demoUser \in BOOLEAN
    /\ slugOwner \in {"free", "demo", "foreign"}
    /\ contents \in [Datasets -> {"absent", "seed", "dirty"}]
    /\ instances \in [Instances ->
          [at : Provisioning \union {"down", "without", "ready", "list", "reset", "wait"},
           left : SUBSET Datasets, failed : BOOLEAN]]
    /\ mishaps \in 0..MaxMishaps
    /\ removed \subseteq Datasets

(* The demo has all its datasets from the moment there is a demo, whatever *)
(* fails while they are installed and whoever installs them at once ("all  *)
(* three or with none", installDataset): what is missing was deleted.  And *)
(* an instance that got as far as the reset loop has that demo, also when  *)
(* it lost the race: it never took another project with its slug for it    *)
(* ("rather than adopting or overwriting somebody else's project",         *)
(* ErrDemoSlugTaken).                                                      *)
DemoIsWhole ==
    /\ slugOwner = "demo" => \A d \in Datasets : contents[d] = "absent" => d \in removed
    /\ \A i \in Instances : instances[i].at \in {"ready", "list", "reset", "wait"}
                             => slugOwner = "demo"

(* One transaction at a time holds the slug, which is free as long, and    *)
(* none goes on after a dataset that failed; before there is a demo there  *)
(* is nothing of it.                                                       *)
OneInstalls ==
    /\ \A i, j \in Instances :
           instances[i].at = "install" /\ instances[j].at = "install" => i = j
    /\ SlugHeld => slugOwner = "free"
    /\ \A i \in Instances : ~instances[i].failed

NothingBefore == slugOwner # "demo" => \A d \in Datasets : contents[d] = "absent"

DemoIInv == DemoTypeOK /\ DemoIsWhole /\ OneInstalls /\ NothingBefore

(* What a visitor writes to the demo does not stay as long as an instance  *)
(* is there to undo it, also when resets fail part way ("the next run      *)
(* finishes the job", ResetDemoProjects).  An instance whose provisioning  *)
(* failed is not one of them until it is started again.                    *)
DemoComesBack ==
    \A d \in Datasets :
        contents[d] = "dirty" ~> contents[d] # "dirty" \/ \A i \in Instances : ~Up(i)
=============================================================================
