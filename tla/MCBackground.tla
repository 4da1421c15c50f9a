---------------------------- MODULE MCBackground ----------------------------
(***************************************************************************)
(* What must get somewhere in the end, each with a small instance: the     *)
(* recorder and the shutdown it is part of, the reloads of the routing     *)
(* table, the maintenance of the log's partitions, the demo project's      *)
(* provisioning and reset, and the requests on one collection.             *)
(*                                                                         *)
(* They are put side by side, not composed.  A behaviour picks one at its  *)
(* start ("focus"), whose steps are the only ones there are, so that the   *)
(* states of the run are the sum of the parts' states and not their        *)
(* product.                                                                *)
(***************************************************************************)
EXTENDS Recorder, MCRouter, Partitions, Demo, MCCollection

VARIABLE focus

allVars == <<recorderVars, routerVars, partitionVars, demoVars, vars, focus>>

RecorderPart ==
    /\ focus = "recorder" /\ RecorderNext
    /\ UNCHANGED <<routerVars, partitionVars, demoVars, vars, focus>>

RouterPart ==
    /\ focus = "router" /\ RouterNext
    /\ UNCHANGED <<recorderVars, partitionVars, demoVars, vars, focus>>

PartitionsPart ==
    /\ focus = "partitions" /\ PartitionsNext
    /\ UNCHANGED <<recorderVars, routerVars, demoVars, vars, focus>>

DemoPart ==
    /\ focus = "demo" /\ DemoNext
    /\ UNCHANGED <<recorderVars, routerVars, partitionVars, vars, focus>>

CollectionPart ==
    /\ focus = "collection" /\ Next
    /\ UNCHANGED <<recorderVars, routerVars, partitionVars, demoVars, focus>>

(* A process that has exited stays so.  This is the one place where any of *)
(* the parts may stop.                                                     *)
Exited ==
    /\ focus = "recorder" /\ main = "exited"
    /\ UNCHANGED allVars

(* Parts out of focus are at rest: the router's many initial databases are *)
(* for the router alone.                                                   *)
NoData == slugOf = [p \in Projects |-> None] /\ enabled = {}

BackgroundInit ==
    /\ focus \in {"recorder", "router", "partitions", "demo", "collection"}
    /\ RecorderInit /\ RouterInit /\ PartitionsInit /\ DemoInit /\ Init
    /\ focus = "router" \/ NoData

BackgroundNext ==
    \/ RecorderPart \/ Exited
    \/ RouterPart \/ PartitionsPart \/ DemoPart \/ CollectionPart

(* The parts' fairness.  What is fair and enabled from the start is so     *)
(* where its part takes the steps; nothing else is, in a part at rest.     *)
BackgroundFairness ==
    /\ \A e \in Exchanges :
          WF_recorderVars(focus = "recorder" /\ (Stamp(e) \/ Record(e)))
    /\ WF_recorderVars(focus = "recorder" /\ Receive)
    /\ WF_recorderVars(focus = "recorder" /\ Tick)
    /\ WF_recorderVars(focus = "recorder" /\ Stop)
    /\ WF_recorderVars(focus = "recorder" /\ Writes)
    /\ WF_recorderVars(focus = "recorder" /\ Exits)
    /\ WF_routerVars(focus = "router" /\ RefreshTick)
    /\ \A c \in Callers : WF_routerVars(focus = "router" /\ Reload(c))
    /\ WF_partitionVars(focus = "partitions" /\ NextMonth)
    /\ \A i \in Maintainers :
          WF_partitionVars(focus = "partitions" /\ (StartRun(i) \/ RunStep(i)))
    /\ \A i \in Instances : WF_demoVars(focus = "demo" /\ InstanceStep(i))
    /\ \A c \in Clients :
          /\ SF_vars(focus = "collection" /\ NextStatement(c))
          /\ WF_vars(focus = "collection" /\ \E r \in Clients : BreakDeadlock(r, c))

BackgroundSpec == BackgroundInit /\ [][BackgroundNext]_allVars /\ BackgroundFairness

BackgroundTypeOK == PartitionsIInv /\ DemoIInv
=============================================================================
