----------------------------- MODULE Partitions -----------------------------
(***************************************************************************)
(* The monthly partitions of the request log and the job that creates and  *)
(* drops them (internal/core/partition.go), run by any number of instances *)
(* while the recorder writes.                                              *)
(*                                                                         *)
(* A month is a number; a partition is its month.  PostgreSQL's part is    *)
(* external: a row goes to its month's partition or to the default one,    *)
(* and a partition cannot be created for a month that has rows in the      *)
(* default.  "covered" is history.                                         *)
(***************************************************************************)
EXTENDS Integers, FiniteSets

CONSTANTS
    Maintainers,        \* instances that run the job
    PartitionsAhead,    \* PartitionsAhead
    KeepMonths,         \* cfg.LogRetentionMonths
    MaxMonth,           \* bound: the last month there is
    MaxFaults           \* bound: statements that fail for a passing reason

MinRetentionMonths == 1

ASSUME PartitionsAssumption ==
    /\ PartitionsAhead \in Nat
    /\ KeepMonths \in Int
    /\ MaxMonth \in Nat /\ MaxFaults \in Nat

Months == 0..(MaxMonth + PartitionsAhead)
-----------------------------------------------------------------------------
VARIABLES
    month,              \* monthStart(time.Now)
    partitions,         \* the months with a partition attached
    homed,              \* the months with rows in their partition
    strays,             \* the months with rows in exchanges_default
    jobs,               \* each instance's run of the job
    faults,             \* how many statements have failed for a passing reason
    covered             \* history: the months some run was done creating

partitionVars == <<month, partitions, homed, strays, jobs, faults, covered>>

(* "start" is the month the run began in, "next" the one to create, "todo" *)
(* the months to drop.                                                     *)
NotRunning == [at |-> "idle", start |-> 0, next |-> 0, todo |-> {}]

EndRun(i) == jobs' = [jobs EXCEPT ![i] = NotRunning]

(* DropExpiredExchangePartitions: keepMonths counts the current month.     *)
Keep == IF KeepMonths < MinRetentionMonths THEN MinRetentionMonths ELSE KeepMonths

CutoffKeepingOneLess(now) == now - (Keep - 2)
CutoffKeepingOneMore(now) == now - Keep
Cutoff(now) == now - (Keep - 1)
-----------------------------------------------------------------------------
(* The recorder stores an exchange under the time of its request: this     *)
(* month, or the one before when a batch waited over midnight.             *)
WriteRow ==
    /\ \E m \in {month, month - 1} \intersect Months :
          IF m \in partitions
          THEN homed' = homed \union {m} /\ UNCHANGED strays
          ELSE strays' = strays \union {m} /\ UNCHANGED homed
    /\ UNCHANGED <<month, partitions, jobs, faults, covered>>

NextMonth ==
    /\ month < MaxMonth
    /\ month' = month + 1
    /\ UNCHANGED <<partitions, homed, strays, jobs, faults, covered>>

(* MaintainExchangeLogLoop: at startup and every day.                      *)
StartRun(i) ==
    /\ jobs[i].at = "idle"
    /\ jobs' = [jobs EXCEPT ![i] = [at |-> "create", start |-> month, next |-> month,
                                    todo |-> {}]]
    /\ UNCHANGED <<month, partitions, homed, strays, faults, covered>>

(* CreateExchangePartitions: one statement for each month, from the first. *)
LastToCreateSkipping(i) == jobs[i].start
LastToCreate(i) == jobs[i].start + PartitionsAhead

CreatePartition(i) ==
    /\ jobs[i].at = "create"
    /\ jobs[i].next <= LastToCreate(i)
    /\ jobs[i].next \in partitions \/ jobs[i].next \notin strays
    /\ partitions' = partitions \union {jobs[i].next}
    /\ jobs' = [jobs EXCEPT ![i].next = @ + 1]
    /\ UNCHANGED <<month, homed, strays, faults, covered>>

(* Done creating: exchangePartitions lists what there is to drop.          *)
ListPartitions(i) ==
    /\ jobs[i].at = "create"
    /\ jobs[i].next > LastToCreate(i)
    /\ jobs' = [jobs EXCEPT ![i].at = "drop",
                            ![i].todo = {m \in partitions : m < Cutoff(jobs[i].start)}]
    /\ covered' = covered \union jobs[i].start..(jobs[i].start + PartitionsAhead)
    /\ UNCHANGED <<month, partitions, homed, strays, faults>>

(* dropPartition, in the order of names.                                   *)
NextToDrop(i) == CHOOSE m \in jobs[i].todo : \A n \in jobs[i].todo : m <= n

DropPartition(i) ==
    /\ jobs[i].at = "drop"
    /\ jobs[i].todo # {}
    /\ NextToDrop(i) \in partitions
    /\ partitions' = partitions \ {NextToDrop(i)}
    /\ homed' = homed \ {NextToDrop(i)}
    /\ jobs' = [jobs EXCEPT ![i].todo = @ \ {NextToDrop(i)}]
    /\ UNCHANGED <<month, strays, faults, covered>>

FinishRun(i) ==
    /\ jobs[i].at = "drop"
    /\ jobs[i].todo = {}
    /\ EndRun(i)
    /\ UNCHANGED <<month, partitions, homed, strays, faults, covered>>

(* A run ends with the first statement that fails: the month has rows in   *)
(* the default, or another instance has dropped the partition meanwhile.   *)
CannotCreate(i) == jobs[i].next <= LastToCreate(i) /\ jobs[i].next \in strays \ partitions
CannotDrop(i) == jobs[i].todo # {} /\ NextToDrop(i) \notin partitions

RunFails(i) ==
    /\ \/ jobs[i].at = "create" /\ CannotCreate(i)
       \/ jobs[i].at = "drop" /\ CannotDrop(i)
    /\ EndRun(i)
    /\ UNCHANGED <<month, partitions, homed, strays, faults, covered>>

(* A lock timeout, a lost connection, the end of the process.              *)
FaultyRun(i) ==
    /\ jobs[i].at # "idle"
    /\ faults < MaxFaults
    /\ faults' = faults + 1
    /\ EndRun(i)
    /\ UNCHANGED <<month, partitions, homed, strays, covered>>

PartitionsInit ==
    /\ month = 0
    /\ partitions = {}
    /\ homed = {}
    /\ strays = {}
    /\ jobs = [i \in Maintainers |-> NotRunning]
    /\ faults = 0
    /\ covered = {}

(* What an instance does without anything going wrong around it.           *)
RunStep(i) ==
    \/ CreatePartition(i) \/ ListPartitions(i) \/ DropPartition(i)
    \/ FinishRun(i) \/ RunFails(i)

PartitionsNext ==
    \/ WriteRow \/ NextMonth
    \/ \E i \in Maintainers : StartRun(i) \/ RunStep(i) \/ FaultyRun(i)

PartitionsSpec == PartitionsInit /\ [][PartitionsNext]_partitionVars
-----------------------------------------------------------------------------
PartitionsTypeOK ==
    /\ month \in 0..MaxMonth
    /\ homed \subseteq partitions /\ partitions \subseteq Months
    /\ strays \subseteq Months
    /\ jobs \in [Maintainers -> [at : {"idle", "create", "drop"}, start : 0..MaxMonth,
                                 next : 0..(MaxMonth + PartitionsAhead + 1),
                                 todo : SUBSET Months]]
    /\ faults \in 0..MaxFaults
    /\ covered \subseteq Months

(* What a run drops had expired when the run began, and what it has        *)
(* created since is there, or expired; and a month that was once created   *)
(* keeps its partition until it expires.                                   *)
RunsAreOfTheirMonth ==
    \A i \in Maintainers :
        /\ jobs[i].start <= month
        /\ \A m \in jobs[i].todo : m < Cutoff(jobs[i].start)
        /\ jobs[i].at = "create" =>
              \A m \in jobs[i].start..(jobs[i].next - 1) :
                  m \in partitions \/ m < month - (Keep - 1)

CoveredIsThere == \A m \in covered : m \in partitions \/ m < month - (Keep - 1)

PartitionsIInv == PartitionsTypeOK /\ RunsAreOfTheirMonth /\ CoveredIsThere

(* No row inside the retention window is dropped, by no interleaving of    *)
(* runs that started in different months (DropExpiredExchangePartitions:   *)
(* "keepMonths = 1 keeps only the month being written into").              *)
WindowIsKept ==
    [][\A m \in partitions \ partitions' : m < month - (Keep - 1)]_partitionVars

(* Once a run got as far as creating a month, that month's rows go to its  *)
(* partition until retention has dropped it, whatever fails afterwards and *)
(* whichever instance drops: the margin PartitionsAhead keeps.  Of months  *)
(* no run has covered it says nothing; StraysOnlyAfterFailing does.        *)
CoveredMonthKeepsItsRows ==
    [][\A m \in strays' \ strays : m \notin covered \/ m < month - (Keep - 1)]_partitionVars

(* Rows in the default keep their month from getting a partition, and the  *)
(* run that meets them never gets as far as retention.                     *)
Blocked == \E m \in month..(month + PartitionsAhead) : m \in strays \ partitions

(* Expired partitions are dropped in the end, although statements fail and *)
(* instances drop from under each other, unless rows in the default block  *)
(* creation ("failing and trying again tomorrow is the right answer",      *)
(* partitionLockTimeout).  The months end at the bound.                    *)
RetentionCatchesUp ==
    <>[](Blocked \/ \A m \in partitions : m >= month - (Keep - 1))

(* A month passes; the job is started every day; a statement ends, with    *)
(* its success or its failure.                                             *)
PartitionsFairness ==
    /\ WF_partitionVars(NextMonth)
    /\ \A i \in Maintainers : WF_partitionVars(StartRun(i) \/ RunStep(i))
-----------------------------------------------------------------------------
(* "three means a month can only reach the default partition after the job *)
(* has been failing, unnoticed, for a quarter" (PartitionsAhead): without  *)
(* a failure, of whatever length, no row is in the default.                *)
StraysOnlyAfterFailing == strays # {} => faults > 0
=============================================================================
