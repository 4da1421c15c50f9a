----------------------------- MODULE RequestLog -----------------------------
(***************************************************************************)
(* What the request log promises about each exchange while the process     *)
(* lives: once handed over it waits until it is settled, once, by being    *)
(* stored or counted as lost, and neither is ever taken back.  A write     *)
(* whose outcome the process did not learn may be both.  Recorder          *)
(* implements this with a bounded queue; LogTail reads it.                 *)
(***************************************************************************)
EXTENDS Naturals, FiniteSets

CONSTANT Exchanges      \* the exchanges the mock handlers produce

VARIABLES
    handedOver,         \* those a handler has passed to Record
    waiting,            \* those of them not settled yet
    stored,             \* those a reader of the log finds
    lostCount           \* what the inspector shows as "could not be recorded"

vars == <<handedOver, waiting, stored, lostCount>>

Init ==
    /\ handedOver = {}
    /\ waiting = {}
    /\ stored = {}
    /\ lostCount = 0

(* A handler hands one over; a full buffer loses it there and then.        *)
HandOver ==
    /\ \E e \in Exchanges \ handedOver :
          /\ handedOver' = handedOver \union {e}
          /\ \/ waiting' = waiting \union {e} /\ UNCHANGED lostCount
             \/ lostCount' = lostCount + 1 /\ UNCHANGED waiting
    /\ UNCHANGED stored

(* A batch is settled as a whole: it is stored, or counted, or - its fate  *)
(* unknown - both.                                                         *)
Settle ==
    /\ \E batch \in SUBSET waiting :
          /\ batch # {}
          /\ waiting' = waiting \ batch
          /\ \/ stored' = stored \union batch /\ UNCHANGED lostCount
             \/ stored' \in {stored, stored \union batch}
                  /\ lostCount' = lostCount + Cardinality(batch)
    /\ UNCHANGED handedOver

Next == HandOver \/ Settle

Spec == Init /\ [][Next]_vars
=============================================================================
