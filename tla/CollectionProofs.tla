-------------------------- MODULE CollectionProofs --------------------------
(***************************************************************************)
(* Proofs about Collection, for any number of clients, any seeds, any      *)
(* width of the counter and any bound on the attempts of a create.         *)
(***************************************************************************)
EXTENDS Collection, FiniteSetTheorems, TLAPS

(* The identifiers a seed states are among the identifiers.                *)
LEMMA StatedIsIds == ASSUME NEW s PROVE Stated(s) \subseteq Ids
BY DEF Stated, Ids

(* Whatever a reset generates is new to the seed, and as many as asked.    *)
LEMMA GeneratedFits ==
    ASSUME NEW s, NEW generated \in Generated(s)
    PROVE  /\ generated \in SUBSET (Ids \ Stated(s))
           /\ Cardinality(generated) = Cardinality(Open(s))
<1>1. CASE strategy = "serial"
    <2>1. generated \in AllocateSeedID(s)
        BY <1>1 DEF Generated
    <2>2. /\ generated \subseteq 1..MaxSerial
          /\ generated \intersect Stated(s) = {}
          /\ Cardinality(generated) = Cardinality(Open(s))
        BY <2>1 DEF AllocateSeedID
    <2>3. 1..MaxSerial \subseteq Ids
        BY SerialAssumption DEF Ids, Serials, MinSerial
    <2> QED
        BY <2>2, <2>3
<1>2. CASE strategy # "serial"
    <2>1. /\ generated \in SUBSET Uuids
          /\ Cardinality(generated) = Cardinality(Open(s))
        BY <1>2 DEF Generated
    <2>2. Stated(s) \intersect Uuids = {}
        BY IdsAssumption DEF Stated
    <2> QED
        BY <2>1, <2>2 DEF Ids
<1> QED
    BY <1>1, <1>2

(* A seed that is neither refused nor panics has only entries that state   *)
(* an identifier and entries that leave it open.                           *)
LEMMA AppliedSeedIsStated ==
    ASSUME NEW s \in Seeds \union {<<>>}, ~SeedRefused(s), ~SeedPanics(s)
    PROVE  Stated(s) = Readers!Named(s)
<1>1. ASSUME NEW i \in DOMAIN s
      PROVE  s[i] \in Serials \union Texts \union {Unstated}
    <2>1. s \in Seq(Serials \union Texts \union {Unstated, BadId, NullEntry})
        BY SeedsAssumption
    <2>2. s[i] \in Serials \union Texts \union {Unstated, BadId, NullEntry}
        BY <2>1
    <2>3. s[i] # BadId /\ s[i] # NullEntry
        BY DEF SeedRefused, SeedPanics
    <2> QED
        BY <2>2, <2>3
<1>2. Unstated \notin Serials \union Texts
    BY IdsAssumption DEF Ids
<1> QED
    BY <1>1, <1>2 DEF Stated, Readers!Named

(* The counter a reset leaves is in range, and past what it inserted       *)
(* unless it wrapped around to a negative number.                          *)
LEMMA NextSerialIsPast ==
    ASSUME NEW ids, NEW highest \in Highest(ids)
    PROVE  /\ NextSerialAfter(highest) \in Serials
           /\ NextSerialAfter(highest) > 0 =>
                 \A n \in ids \intersect Serials : n < NextSerialAfter(highest)
<1>1. /\ highest \in Serials
      /\ \A n \in ids \intersect Serials : n <= highest
    BY SerialAssumption DEF Highest, Serials, MinSerial
<1>2. highest # MaxSerial => NextSerialAfter(highest) = highest + 1
    BY DEF NextSerialAfter
<1>3. highest = MaxSerial => NextSerialAfter(highest) = MinSerial
    BY DEF NextSerialAfter
<1> QED
    BY <1>1, <1>2, <1>3, SerialAssumption DEF Serials, MinSerial
-----------------------------------------------------------------------------
LEMMA TypeInit == Init => TypeOK
<1> SUFFICES ASSUME Init PROVE TypeOK
    OBVIOUS
<1>1. Idle \in Requests
    BY AttemptsAssumption DEF Idle, Requests, Places
<1>2. 1 \in Serials
    BY SerialAssumption DEF Serials, MinSerial
<1> QED
    BY <1>1, <1>2 DEF Init, TypeOK, Answers, Origins

LEMMA RequestSteps ==
    ASSUME TypeOK, NEW c \in Clients
    PROVE  /\ \A p \in Places : Begin(c, p) \/ Step(c, p) =>
                  req' \in [Clients -> Requests] /\ answer' \in [Clients -> Answers]
           /\ \A a \in Answers : Finish(c, a) =>
                  req' \in [Clients -> Requests] /\ answer' \in [Clients -> Answers]
           /\ \A id \in Ids : HandOut(c, id) /\ req[c].tries < Attempts =>
                  req' \in [Clients -> Requests] /\ answer' \in [Clients -> Answers]
<1>1. /\ req \in [Clients -> Requests] /\ answer \in [Clients -> Answers]
      /\ req[c] \in Requests
    BY DEF TypeOK
<1>2. Idle \in Requests
    BY AttemptsAssumption DEF Idle, Requests, Places
<1>3. ASSUME NEW p \in Places, Begin(c, p) \/ Step(c, p)
      PROVE  req' \in [Clients -> Requests] /\ answer' \in [Clients -> Answers]
    <2>1. [Idle EXCEPT !.at = p] \in Requests /\ [req[c] EXCEPT !.at = p] \in Requests
        BY <1>1, <1>2 DEF Requests
    <2> QED
        BY <1>1, <1>3, <2>1 DEF Begin, Step, Answers
<1>4. ASSUME NEW a \in Answers, Finish(c, a)
      PROVE  req' \in [Clients -> Requests] /\ answer' \in [Clients -> Answers]
    BY <1>1, <1>2, <1>4 DEF Finish
<1>5. ASSUME NEW id \in Ids, HandOut(c, id), req[c].tries < Attempts
      PROVE  req' \in [Clients -> Requests] /\ answer' \in [Clients -> Answers]
    <2>1. [at |-> "insert", num |-> id, crossed |-> FALSE, tries |-> req[c].tries + 1]
              \in Requests
        BY <1>1, <1>5, AttemptsAssumption DEF Requests, Places
    <2> QED
        BY <1>1, <1>5, <2>1 DEF HandOut
<1> QED
    BY <1>3, <1>4, <1>5

LEMMA TypeStep ==
    ASSUME TypeOK, TriesLeft, [Next]_vars
    PROVE  TypeOK'
<1> USE DEF row, tx
<1>1. ASSUME NEW c \in Clients, AllocateDocumentID(c)
      PROVE  TypeOK'
    <2>1. req[c].tries < Attempts
        BY <1>1 DEF AllocateDocumentID, TriesLeft
    <2>2. nextSerial \in Ids /\ Uuids \subseteq Ids
        BY DEF TypeOK, Ids
    <2>3. nextSerial' \in Serials
        BY <1>1, SerialAssumption DEF AllocateDocumentID, AllocateSerial, AllocateOverflow,
           AllocateUuid, TypeOK, Serials, MinSerial
    <2>4. req' \in [Clients -> Requests] /\ answer' \in [Clients -> Answers]
        BY <1>1, <2>1, <2>2, RequestSteps DEF AllocateDocumentID, AllocateSerial,
           AllocateOverflow, AllocateUuid, Answers
    <2> QED
        BY <1>1, <2>3, <2>4 DEF AllocateDocumentID, TypeOK
<1>2. ASSUME NEW c \in Clients,
             \/ StartCreate(c) \/ StartReset(c) \/ EnterIndex(c) \/ UniqueViolation(c)
             \/ WriteBlocks(c) \/ WriteDocument(c) \/ CountDocuments(c)
      PROVE  TypeOK'
    <2>1. req' \in [Clients -> Requests] /\ answer' \in [Clients -> Answers]
        BY <1>2, RequestSteps DEF StartCreate, StartReset, EnterIndex, UniqueViolation,
           WriteBlocks, WriteDocument, CountDocuments, Places, Answers
    <2> QED
        BY <1>2, <2>1 DEF StartCreate, StartReset, EnterIndex, UniqueViolation,
           WriteBlocks, WriteDocument, CountDocuments, TypeOK
<1>3. ASSUME NEW c \in Clients, ListDocuments(c)
      PROVE  TypeOK'
    <2>1. req' \in [Clients -> Requests] /\ answer' \in [Clients -> Answers]
        BY <1>3, RequestSteps DEF ListDocuments, Places, Answers, TypeOK
    <2> QED
        BY <1>3, <2>1 DEF ListDocuments, TypeOK
<1>4. ASSUME NEW c \in Clients, InsertDocument(c)
      PROVE  TypeOK'
    <2>1. req' \in [Clients -> Requests] /\ answer' \in [Clients -> Answers]
        BY <1>4, RequestSteps DEF InsertDocument, Answers
    <2> QED
        BY <1>4, <2>1 DEF InsertDocument, TypeOK, Origins
<1>5. ASSUME NEW c \in Clients, LockForReset(c)
      PROVE  TypeOK'
    <2>1. req' \in [Clients -> Requests] /\ answer' \in [Clients -> Answers]
        BY <1>5, RequestSteps DEF LockForReset, Answers, Places
    <2>2. pending' \in SUBSET Ids
        BY <1>5, StatedIsIds, GeneratedFits DEF LockForReset, TypeOK
    <2> QED
        BY <1>5, <2>1, <2>2 DEF LockForReset, TypeOK
<1>6. ASSUME NEW c \in Clients, ClearDocuments(c) \/ InsertDocuments(c)
      PROVE  TypeOK'
    <2>1. req' \in [Clients -> Requests] /\ answer' \in [Clients -> Answers]
        BY <1>6, RequestSteps DEF ClearDocuments, InsertDocuments, Places
    <2> QED
        BY <1>6, <2>1 DEF ClearDocuments, InsertDocuments, TypeOK
<1>7. ASSUME NEW c \in Clients, CommitReset(c)
      PROVE  TypeOK'
    <2>1. nextSerial' \in Serials /\ base' \in Serials
        BY <1>7, NextSerialIsPast DEF CommitReset
    <2>2. req' \in [Clients -> Requests]
        <3>1. Idle \in Requests
            BY AttemptsAssumption DEF Idle, Requests, Places
        <3>2. ASSUME NEW d \in Clients, NEW b \in BOOLEAN
              PROVE  [req[d] EXCEPT !.crossed = b] \in Requests
            BY DEF TypeOK, Requests
        <3>3. ASSUME NEW d \in Clients
              PROVE  req[d].crossed \in BOOLEAN
            BY DEF TypeOK, Requests
        <3> QED
            BY <1>7, <3>1, <3>2, <3>3 DEF CommitReset
    <2>3. docs' \in [Ids -> Origins] /\ answer' \in [Clients -> Answers]
        BY <1>7 DEF CommitReset, TypeOK, Origins, Answers
    <2> QED
        BY <1>7, <2>1, <2>2, <2>3 DEF CommitReset, Release, TypeOK
<1>8. ASSUME NEW c \in Clients, Fail(c)
      PROVE  TypeOK'
    <2>1. req' \in [Clients -> Requests] /\ answer' \in [Clients -> Answers]
        BY <1>8, RequestSteps DEF Fail, Answers
    <2> QED
        BY <1>8, <2>1 DEF Fail, Rollback, Release, TypeOK
<1>9. ASSUME NEW c \in Clients, CreateCollection(c)
      PROVE  TypeOK'
    <2>1. req' \in [Clients -> Requests] /\ answer' \in [Clients -> Answers]
        BY <1>9, RequestSteps DEF CreateCollection, Answers, Places, TypeOK
    <2>2. 1 \in Serials
        BY SerialAssumption DEF Serials, MinSerial
    <2>3. /\ status' \in {"none", "live", "deleted"} /\ seed' \in Seeds \union {<<>>}
          /\ strategy' \in {"serial", "uuid"}
          /\ nextSerial' \in Serials /\ base' \in Serials
        BY <1>9, <2>2, StrategiesAssumption DEF CreateCollection, TypeOK
    <2>4. UNCHANGED <<tx, docs>>
        BY <1>9 DEF CreateCollection
    <2> QED
        BY <2>1, <2>3, <2>4 DEF TypeOK
<1>10. ASSUME NEW c \in Clients, UpdateCollection(c) \/ DeleteCollection(c)
       PROVE  TypeOK'
    BY <1>10, StrategiesAssumption DEF UpdateCollection, DeleteCollection, TypeOK, Origins, Answers
<1>11. ASSUME NEW c \in Clients, StartWrite(c) \/ DeleteBlocks(c)
       PROVE  TypeOK'
    <2>1. ASSUME NEW p \in Places, NEW id \in Ids
          PROVE  [Idle EXCEPT !.at = p, !.num = id] \in Requests
        <3>1. Idle \in Requests
            BY AttemptsAssumption DEF Idle, Requests, Places
        <3> QED
            BY <3>1 DEF Requests
    <2>2. \A id \in Addressed : id \in Ids
        BY IdsAssumption
    <2>3. req \in [Clients -> Requests] /\ answer \in [Clients -> Answers]
        BY DEF TypeOK
    <2>4. ASSUME StartWrite(c)
          PROVE  req' \in [Clients -> Requests] /\ answer' \in [Clients -> Answers]
        BY <2>1, <2>2, <2>3, <2>4, RequestSteps DEF StartWrite, Places, Answers
    <2>5. ASSUME DeleteBlocks(c)
          PROVE  req' \in [Clients -> Requests] /\ answer' \in [Clients -> Answers]
        BY <2>1, <2>2, <2>3, <2>5 DEF DeleteBlocks, Places, Answers
    <2>6. req' \in [Clients -> Requests] /\ answer' \in [Clients -> Answers]
        BY <1>11, <2>4, <2>5
    <2> QED
        BY <1>11, <2>6 DEF StartWrite, DeleteBlocks, TypeOK
<1>12. ASSUME NEW c \in Clients, DeleteDocument(c)
       PROVE  TypeOK'
    <2>1. PICK id : RemoveOrMiss(c, id, FALSE) \/ RemoveOrMiss(c, id, req[c].crossed)
        BY <1>12 DEF DeleteDocument
    <2>2. req' \in [Clients -> Requests] /\ answer' \in [Clients -> Answers]
        BY <2>1, RequestSteps DEF RemoveOrMiss, Answers
    <2> QED
        BY <2>1, <2>2 DEF RemoveOrMiss, TypeOK, Origins
<1>13. CASE UNCHANGED vars
    BY <1>13 DEF vars, TypeOK
<1> QED
    BY <1>1, <1>2, <1>3, <1>4, <1>5, <1>6, <1>7, <1>8, <1>9, <1>10, <1>11, <1>12, <1>13
    DEF Next, Arrive, Proceed
-----------------------------------------------------------------------------
(* How a request moves, field by field.                                    *)
LEMMA Moves ==
    ASSUME TypeOK, NEW c \in Clients
    PROVE  /\ \A p : Step(c, p) =>
                 /\ req'[c].at = p
                 /\ req'[c].num = req[c].num /\ req'[c].crossed = req[c].crossed
                 /\ req'[c].tries = req[c].tries
                 /\ \A d \in Clients \ {c} : req'[d] = req[d]
           /\ \A p : Begin(c, p) =>
                 /\ req'[c].at = p /\ req'[c].tries = 0
                 /\ \A d \in Clients \ {c} : req'[d] = req[d]
           /\ \A a : Finish(c, a) =>
                 /\ req'[c] = Idle /\ req'[c].at = "idle"
                 /\ \A d \in Clients \ {c} : req'[d] = req[d]
           /\ \A id : HandOut(c, id) =>
                 /\ req'[c].at = "insert" /\ req'[c].num = id /\ ~req'[c].crossed
                 /\ \A d \in Clients \ {c} : req'[d] = req[d]
<1>1. req \in [Clients -> Requests] /\ req[c] \in Requests
    BY DEF TypeOK
<1>2. Idle \in Requests /\ Idle.at = "idle" /\ Idle.tries = 0
    BY AttemptsAssumption DEF Idle, Requests, Places
<1> QED
    BY <1>1, <1>2 DEF Step, Begin, Finish, HandOut, Requests

InReset == {"clear", "fill", "commit"}

(* A request that moves outside a reset, without an identifier of its own  *)
(* to insert, and leaves the database alone.                               *)
LEMMA QuietStep ==
    ASSUME CollectionIInv, TypeOK', NEW c \in Clients,
           UNCHANGED <<row, tx, docs>>,
           \A d \in Clients \ {c} : req'[d] = req[d],
           req[c].at \notin InReset,
           req'[c].at \notin InReset \union {"insert", "check"},
           req'[c].at = "allocate" => req'[c].tries < Attempts,
           req'[c].at \in {"put", "putBlocked", "deleteBlocked"} => req'[c].num \in Ids,
           status = "none" => req'[c] = Idle
    PROVE  CollectionIInv'
<1> USE DEF CollectionIInv, row, tx
<1>1. TriesLeft'
    BY DEF TriesLeft
<1>2. NumberKnown'
    BY DEF NumberKnown
<1>3. EmptyUnlessLive'
    BY DEF EmptyUnlessLive, Stored
<1>4. LockHeldByReset'
    BY DEF LockHeldByReset, InReset
<1>5. holder # c /\ \A places : ResetAt(places)' <=> ResetAt(places)
    BY DEF LockHeldByReset, ResetAt, InReset, TypeOK
<1>6. PendingSeedsRow'
    BY DEF PendingSeedsRow, Stated, Open, Readers!Named
<1>7. ClearedIsAll'
    BY <1>5 DEF ClearedIsAll, Stored
<1>8. EntriesAreUnique'
    BY <1>5 DEF EntriesAreUnique, EntryPending, Stored
<1>9. CounterPastSettled'
    BY DEF CounterPastSettled, Settled
<1>10. ClaimedNumberIsFree'
    BY DEF ClaimedNumberIsFree, Claims, Settled
<1> QED
    BY <1>1, <1>2, <1>3, <1>4, <1>6, <1>7, <1>8, <1>9, <1>10

LEMMA QuietActions ==
    ASSUME CollectionIInv, TypeOK', NEW c \in Clients,
           \/ StartCreate(c) \/ StartReset(c) \/ StartWrite(c) \/ DeleteBlocks(c)
           \/ ListDocuments(c) \/ UniqueViolation(c) \/ WriteBlocks(c)
           \/ WriteDocument(c) \/ CountDocuments(c)
    PROVE  CollectionIInv'
<1> USE DEF InReset
<1>1. TypeOK /\ NumberKnown /\ EmptyUnlessLive
    BY DEF CollectionIInv
<1>2. 0 < Attempts
    BY AttemptsAssumption
<1>3. CASE StartCreate(c)
    <2>1. UNCHANGED <<row, tx, docs>> /\ req[c].at = "idle" /\ status # "none"
        BY <1>3 DEF StartCreate
    <2>2. Begin(c, "allocate")
        BY <1>3 DEF StartCreate
    <2> QED
        BY <1>1, <1>2, <2>1, <2>2, Moves, QuietStep
<1>4. CASE StartReset(c)
    BY <1>1, <1>4, Moves, QuietStep DEF StartReset
<1>5. CASE StartWrite(c)
    <2>1. UNCHANGED <<row, tx, docs>> /\ req[c].at = "idle" /\ status # "none"
        BY <1>5 DEF StartWrite
    <2>2. CASE Finish(c, "notFound")
        BY <1>1, <2>1, <2>2, Moves, QuietStep
    <2>3. CASE \E id \in Addressed :
                   req' = [req EXCEPT ![c] = [Idle EXCEPT !.at = "put", !.num = id]]
        <3>1. PICK id \in Addressed :
                  req' = [req EXCEPT ![c] = [Idle EXCEPT !.at = "put", !.num = id]]
            BY <2>3
        <3>2. req'[c].at = "put" /\ req'[c].num = id /\ id \in Ids
            BY <1>1, <3>1, IdsAssumption DEF TypeOK, Idle
        <3>3. \A d \in Clients \ {c} : req'[d] = req[d]
            BY <1>1, <3>1 DEF TypeOK
        <3> QED
            BY <2>1, <3>2, <3>3, QuietStep
    <2> QED
        BY <1>5, <2>2, <2>3 DEF StartWrite
<1>6. CASE DeleteBlocks(c)
    <2>1. PICK id \in Addressed :
              /\ Deleting(id)
              /\ req' = [req EXCEPT ![c] = [Idle EXCEPT !.at = "deleteBlocked", !.num = id]]
        BY <1>6 DEF DeleteBlocks
    <2>2. req'[c].at = "deleteBlocked" /\ req'[c].num = id /\ id \in Ids
        BY <1>1, <2>1, IdsAssumption DEF TypeOK, Idle
    <2>3. \A d \in Clients \ {c} : req'[d] = req[d]
        BY <1>1, <2>1 DEF TypeOK
    <2>4. UNCHANGED <<row, tx, docs>> /\ req[c].at = "idle"
        BY <1>6 DEF DeleteBlocks
    <2>5. status # "none"
        BY <1>1, <2>1 DEF EmptyUnlessLive, Deleting, ResetAt
    <2> QED
        BY <2>2, <2>3, <2>4, <2>5, QuietStep
<1>7. CASE ListDocuments(c)
    BY <1>1, <1>7, Moves, QuietStep DEF ListDocuments, TypeOK
<1>8. CASE UniqueViolation(c)
    BY <1>1, <1>8, Moves, QuietStep DEF UniqueViolation, EmptyUnlessLive, Idle
<1>9. CASE WriteBlocks(c)
    BY <1>1, <1>9, Moves, QuietStep DEF WriteBlocks, NumberKnown, EmptyUnlessLive, Idle
<1>10. CASE WriteDocument(c)
    BY <1>1, <1>10, Moves, QuietStep DEF WriteDocument
<1>11. CASE CountDocuments(c)
    BY <1>1, <1>11, Moves, QuietStep DEF CountDocuments
<1> QED
    BY <1>3, <1>4, <1>5, <1>6, <1>7, <1>8, <1>9, <1>10, <1>11
-----------------------------------------------------------------------------
(* Handing out the counter's value: the invariant on the counter makes the *)
(* value free, and advancing it keeps the value its holder's alone.        *)
LEMMA AllocateKeepsIInv ==
    ASSUME CollectionIInv, TypeOK', NEW c \in Clients, AllocateDocumentID(c)
    PROVE  CollectionIInv'
<1> USE DEF row, tx
<1>1. /\ TypeOK /\ req[c].at = "allocate" /\ holder = Nobody
      /\ UNCHANGED <<status, seed, strategy, base, docs, holder, cleared, pending>>
    BY DEF CollectionIInv, AllocateDocumentID, NobodyHolds
<1>2. CASE Finish(c, "notFound") \/ Finish(c, "failed")
    <2>1. UNCHANGED nextSerial
        BY <1>1, <1>2 DEF AllocateDocumentID, AllocateSerial, AllocateOverflow,
           AllocateUuid, Finish, HandOut, TypeOK, Idle
    <2>2. /\ req'[c] = Idle /\ req'[c].at = "idle"
          /\ \A d \in Clients \ {c} : req'[d] = req[d]
        BY <1>1, <1>2, Moves
    <2> QED
        BY <1>1, <2>1, <2>2, QuietStep DEF InReset
<1>3. ASSUME NEW id \in Ids, HandOut(c, id), status = "live",
             \/ id = nextSerial /\ nextSerial' = nextSerial + 1
             \/ id \in Uuids /\ nextSerial' = nextSerial
      PROVE  CollectionIInv'
    <2>1. /\ req'[c].at = "insert" /\ req'[c].num = id /\ ~req'[c].crossed
          /\ \A d \in Clients \ {c} : req'[d] = req[d]
        BY <1>1, <1>3, Moves
    <2>2. TriesLeft' /\ NumberKnown' /\ EmptyUnlessLive'
        BY <1>1, <1>3, <2>1 DEF CollectionIInv, TriesLeft, NumberKnown, EmptyUnlessLive
    <2>3. LockHeldByReset' /\ PendingSeedsRow' /\ ClearedIsAll'
        BY <1>1, <2>1 DEF CollectionIInv, LockHeldByReset, PendingSeedsRow, ClearedIsAll, ResetAt
    <2>4. EntriesAreUnique'
        BY <1>1, <2>1 DEF CollectionIInv, EntriesAreUnique, EntryPending, ResetAt, Stored
    <2>5. nextSerial \in Int /\ \A n \in Serials : n \in Int
        BY <1>1 DEF TypeOK, Serials
    <2>6. CounterPastSettled'
        BY <1>1, <1>3, <2>5 DEF CollectionIInv, CounterPastSettled, Settled
    <2>7. id \in Serials => id = nextSerial /\ nextSerial' = nextSerial + 1
        BY <1>3, IdsAssumption
    <2>8. ASSUME NEW d \in Clients, NEW n \in Serials, Claims(d, n)', base' > 0
          PROVE  /\ n < nextSerial'
                 /\ ~Settled(n)'
                 /\ \A e \in Clients \ {d} : ~Claims(e, n)'
        <3>1. /\ \A e \in Clients \ {c} : Claims(e, n)' <=> Claims(e, n)
              /\ Claims(c, n)' <=> n = id
            BY <2>1 DEF Claims
        <3>2. Settled(n)' <=> Settled(n)
            BY <1>1 DEF Settled
        <3>3. /\ ClaimedNumberIsFree /\ CounterPastSettled /\ base > 0
            BY <1>1, <2>8 DEF CollectionIInv
        <3>4. CASE d = c
            <4>1. n = nextSerial /\ nextSerial' = nextSerial + 1
                BY <2>7, <2>8, <3>1, <3>4
            <4>2. ~Settled(n) /\ \A e \in Clients : ~Claims(e, n)
                BY <2>5, <3>3, <4>1 DEF ClaimedNumberIsFree, CounterPastSettled
            <4> QED
                BY <2>5, <3>1, <3>2, <3>4, <4>1, <4>2
        <3>5. CASE d # c
            <4>1. Claims(d, n) /\ n < nextSerial /\ ~Settled(n)
                  /\ \A e \in Clients \ {d} : ~Claims(e, n)
                BY <2>8, <3>1, <3>3, <3>5 DEF ClaimedNumberIsFree
            <4>2. n # id
                BY <2>5, <2>7, <4>1
            <4> QED
                BY <1>3, <2>5, <3>1, <3>2, <4>1, <4>2
        <3> QED
            BY <3>4, <3>5
    <2>9. ClaimedNumberIsFree'
        BY <2>8 DEF ClaimedNumberIsFree
    <2> QED
        BY <2>2, <2>3, <2>4, <2>6, <2>9 DEF CollectionIInv
<1>4. CASE status = "live" /\ AllocateSerial(c)
    <2>1. nextSerial \in Ids
        BY <1>1 DEF TypeOK, Ids
    <2> QED
        BY <1>3, <1>4, <2>1 DEF AllocateSerial
<1>5. CASE status = "live" /\ AllocateUuid(c)
    <2>1. PICK u \in Uuids : HandOut(c, u)
        BY <1>5 DEF AllocateUuid
    <2>2. u \in Ids
        BY DEF Ids
    <2> QED
        BY <1>3, <1>5, <2>1, <2>2 DEF AllocateUuid
<1> QED
    BY <1>2, <1>4, <1>5 DEF AllocateDocumentID, AllocateOverflow

LEMMA EnterIndexKeepsIInv ==
    ASSUME CollectionIInv, TypeOK', NEW c \in Clients, EnterIndex(c)
    PROVE  CollectionIInv'
<1> USE DEF row, tx
<1>1. /\ TypeOK /\ req[c].at = "insert" /\ ~EntryPending(c, req[c].num)
      /\ ~Stored(req[c].num)
      /\ UNCHANGED <<status, seed, strategy, nextSerial, base, docs, holder, cleared, pending>>
    BY DEF CollectionIInv, EnterIndex
<1>2. /\ req'[c].at = "check" /\ req'[c].num = req[c].num
      /\ req'[c].crossed = req[c].crossed
      /\ \A d \in Clients \ {c} : req'[d] = req[d]
    BY <1>1, Moves DEF EnterIndex
<1>3. TriesLeft' /\ NumberKnown'
    BY <1>1, <1>2 DEF CollectionIInv, TriesLeft, NumberKnown
<1>4. EmptyUnlessLive'
    BY <1>1, <1>2 DEF CollectionIInv, EmptyUnlessLive, Stored, Idle
<1>5. LockHeldByReset'
    BY <1>1, <1>2 DEF CollectionIInv, LockHeldByReset
<1>6. holder # c /\ \A places : ResetAt(places)' <=> ResetAt(places)
    BY <1>1, <1>2 DEF CollectionIInv, LockHeldByReset, ResetAt, TypeOK
<1>7. PendingSeedsRow' /\ ClearedIsAll'
    BY <1>1, <1>6 DEF CollectionIInv, PendingSeedsRow, ClearedIsAll, Stored
<1>8. EntriesAreUnique'
    BY <1>1, <1>2, <1>6 DEF CollectionIInv, EntriesAreUnique, EntryPending, Stored
<1>9. CounterPastSettled' /\ ClaimedNumberIsFree'
    BY <1>1, <1>2 DEF CollectionIInv, CounterPastSettled, ClaimedNumberIsFree, Claims, Settled
<1> QED
    BY <1>3, <1>4, <1>5, <1>7, <1>8, <1>9 DEF CollectionIInv

LEMMA InsertDocumentKeepsIInv ==
    ASSUME CollectionIInv, TypeOK', NEW c \in Clients, InsertDocument(c)
    PROVE  CollectionIInv'
<1> USE DEF row, tx
<1>1. /\ TypeOK /\ req[c].at = "check" /\ holder = Nobody /\ req[c].num \in Ids
      /\ UNCHANGED <<status, seed, strategy, nextSerial, base, holder, cleared, pending>>
    BY DEF CollectionIInv, InsertDocument, KeyShareAvailable, NumberKnown
<1>2. /\ req'[c].at = "idle" /\ req'[c] = Idle
      /\ \A d \in Clients \ {c} : req'[d] = req[d]
    BY <1>1, Moves DEF InsertDocument
<1>3. CASE status # "live"
    BY <1>1, <1>2, <1>3, QuietStep DEF InsertDocument, InReset
<1>4. CASE status = "live"
    <2>1. docs' = [docs EXCEPT ![req[c].num] = IF req[c].crossed THEN "stale" ELSE "fresh"]
        BY <1>4 DEF InsertDocument
    <2>2. \A id \in Ids : id # req[c].num => docs'[id] = docs[id]
        BY <1>1, <2>1 DEF TypeOK
    <2>3. TriesLeft' /\ NumberKnown' /\ EmptyUnlessLive' /\ LockHeldByReset'
        BY <1>1, <1>2, <1>4 DEF CollectionIInv, TriesLeft, NumberKnown, EmptyUnlessLive, LockHeldByReset
    <2>4. PendingSeedsRow' /\ ClearedIsAll'
        BY <1>1 DEF PendingSeedsRow, ClearedIsAll, ResetAt
    <2>5. EntriesAreUnique'
        <3> SUFFICES ASSUME NEW d \in Clients, req'[d].at = "check"
                     PROVE  ~Stored(req[d].num)' /\ ~EntryPending(d, req[d].num)'
            BY DEF EntriesAreUnique, EntryPending, Stored
        <3>1. d # c /\ req'[d] = req[d]
            BY <1>2
        <3>2. /\ ~Stored(req[d].num) /\ ~EntryPending(d, req[d].num) /\ req[d].num \in Ids
            BY <3>1 DEF CollectionIInv, EntriesAreUnique, NumberKnown
        <3>3. req[d].num # req[c].num
            BY <1>1, <3>1, <3>2 DEF EntryPending
        <3>4. ~Stored(req[d].num)'
            BY <2>2, <3>1, <3>2, <3>3 DEF Stored
        <3>5. ~EntryPending(d, req[d].num)'
            BY <1>1, <1>2, <3>1, <3>2 DEF EntryPending, ResetAt
        <3> QED
            BY <3>4, <3>5
    <2>6. /\ \A n \in Serials : Settled(n)' =>
                 Settled(n) \/ (n = req[c].num /\ ~req[c].crossed)
          /\ \A d \in Clients, n \in Serials : Claims(d, n)' => d # c /\ Claims(d, n)
        <3>1. \A n \in Serials : n \in Ids
            BY DEF Ids
        <3> QED
            BY <1>1, <1>2, <2>1, <2>2, <3>1 DEF Settled, Claims, TypeOK
    <2>7. CounterPastSettled'
        BY <1>1, <2>6 DEF CollectionIInv, CounterPastSettled, ClaimedNumberIsFree, Claims
    <2>8. ClaimedNumberIsFree'
        <3> SUFFICES ASSUME NEW d \in Clients, NEW n \in Serials, Claims(d, n)', base' > 0
                     PROVE  /\ n < nextSerial' /\ ~Settled(n)'
                            /\ \A e \in Clients \ {d} : ~Claims(e, n)'
            BY DEF ClaimedNumberIsFree
        <3>1. d # c /\ Claims(d, n) /\ base > 0
            BY <1>1, <2>6
        <3>2. n < nextSerial /\ ~Settled(n) /\ \A e \in Clients \ {d} : ~Claims(e, n)
            BY <3>1 DEF CollectionIInv, ClaimedNumberIsFree
        <3>3. ~(n = req[c].num /\ ~req[c].crossed)
            BY <1>1, <3>1, <3>2 DEF Claims
        <3> QED
            BY <1>1, <2>6, <3>2, <3>3
    <2> QED
        BY <2>3, <2>4, <2>5, <2>7, <2>8 DEF CollectionIInv
<1> QED
    BY <1>3, <1>4
-----------------------------------------------------------------------------
(* The reset, step by step.                                                *)
LEMMA LockKeepsIInv ==
    ASSUME CollectionIInv, TypeOK', NEW c \in Clients, LockForReset(c)
    PROVE  CollectionIInv'
<1> USE DEF row, tx
<1>1. /\ TypeOK /\ req[c].at = "lock" /\ holder = Nobody
      /\ UNCHANGED <<status, seed, strategy, nextSerial, base, docs>>
    BY DEF CollectionIInv, LockForReset, NobodyHolds
<1>2. ASSUME NEW a, Finish(c, a), UNCHANGED tx
      PROVE  CollectionIInv'
    <2>1. req'[c] = Idle /\ req'[c].at = "idle" /\ \A d \in Clients \ {c} : req'[d] = req[d]
        BY <1>1, <1>2, Moves
    <2> QED
        BY <1>1, <1>2, <2>1, QuietStep DEF InReset
<1>3. ASSUME NEW generated \in Generated(seed), status = "live", holder' = c,
             ~SeedRefused(seed), ~SeedPanics(seed),
             pending' = Stated(seed) \union generated, Step(c, "clear")
      PROVE  CollectionIInv'
    <2>1. /\ req'[c].at = "clear" /\ req'[c].num = req[c].num
          /\ \A d \in Clients \ {c} : req'[d] = req[d]
        BY <1>1, <1>3, Moves
    <2>2. TriesLeft' /\ NumberKnown' /\ EmptyUnlessLive'
        BY <1>1, <1>3, <2>1 DEF CollectionIInv, TriesLeft, NumberKnown, EmptyUnlessLive
    <2>3. LockHeldByReset'
        <3>1. \A d \in Clients : req[d].at \notin {"clear", "fill", "commit"}
            BY <1>1, ClientsAssumption DEF CollectionIInv, LockHeldByReset
        <3> QED
            BY <1>3, <2>1, <3>1 DEF LockHeldByReset
    <2>4. PendingSeedsRow'
        <3>1. Stated(seed) = Readers!Named(seed)
            BY <1>1, <1>3, AppliedSeedIsStated DEF TypeOK
        <3>2. /\ generated \in SUBSET (Ids \ Stated(seed))
              /\ Cardinality(generated) = Cardinality(Open(seed))
            BY GeneratedFits
        <3>3. seed' = seed
            BY <1>1
        <3>4. /\ Stated(seed)' = Stated(seed) /\ Open(seed)' = Open(seed)
              /\ Readers!Named(seed)' = Readers!Named(seed)
            BY <3>3 DEF Stated, Open, Readers!Named
        <3>5. pending' \ Stated(seed) = generated
            BY <1>3, <3>2
        <3> QED
            BY <1>3, <3>1, <3>2, <3>4, <3>5 DEF PendingSeedsRow
    <2>5. ~ResetAt({"fill", "commit"})' /\ ~ResetAt({"commit"})'
        BY <1>3, <2>1 DEF ResetAt
    <2>6. ClearedIsAll'
        BY <2>5 DEF ClearedIsAll
    <2>7. EntriesAreUnique'
        BY <1>1, <2>1, <2>5 DEF CollectionIInv, EntriesAreUnique, EntryPending, Stored
    <2>8. CounterPastSettled' /\ ClaimedNumberIsFree'
        BY <1>1, <2>1 DEF CollectionIInv, CounterPastSettled, ClaimedNumberIsFree, Claims, Settled
    <2> QED
        BY <2>2, <2>3, <2>4, <2>6, <2>7, <2>8 DEF CollectionIInv
<1> QED
    BY <1>2, <1>3 DEF LockForReset

LEMMA ClearAndFillKeepIInv ==
    ASSUME CollectionIInv, TypeOK', NEW c \in Clients, ClearDocuments(c) \/ InsertDocuments(c)
    PROVE  CollectionIInv'
<1> USE DEF row, tx
<1>1. /\ TypeOK /\ req[c].at \in {"clear", "fill"} /\ holder = c
      /\ UNCHANGED <<status, seed, strategy, nextSerial, base, docs, holder, pending>>
    BY DEF CollectionIInv, ClearDocuments, InsertDocuments, LockHeldByReset
<1>2. /\ req'[c].at \in {"fill", "commit"} /\ req'[c].num = req[c].num
      /\ \A d \in Clients \ {c} : req'[d] = req[d]
    BY <1>1, Moves DEF ClearDocuments, InsertDocuments
<1>3. c # Nobody
    BY ClientsAssumption
<1>4. TriesLeft' /\ NumberKnown' /\ EmptyUnlessLive' /\ LockHeldByReset'
    BY <1>1, <1>2, <1>3
    DEF CollectionIInv, TriesLeft, NumberKnown, EmptyUnlessLive, LockHeldByReset, Idle
<1>5. PendingSeedsRow'
    BY <1>1 DEF CollectionIInv, PendingSeedsRow, Stated, Open, Readers!Named
<1>6. ClearedIsAll'
    <2>1. CASE ClearDocuments(c)
        BY <1>1, <2>1 DEF ClearDocuments, ClearedIsAll, Stored
    <2>2. CASE InsertDocuments(c)
        <3>1. ResetAt({"fill", "commit"}) /\ cleared' = cleared
            BY <1>1, <1>3, <2>2 DEF InsertDocuments, ResetAt
        <3> QED
            BY <1>1, <3>1 DEF CollectionIInv, ClearedIsAll, Stored
    <2> QED
        BY <2>1, <2>2
<1>7. EntriesAreUnique'
    <2> SUFFICES ASSUME NEW d \in Clients, req'[d].at = "check"
                 PROVE  ~Stored(req[d].num)' /\ ~EntryPending(d, req[d].num)'
        BY DEF EntriesAreUnique, EntryPending, Stored
    <2>1. d # c /\ req'[d] = req[d] /\ req[d].at = "check"
        BY <1>2
    <2>2. ~Stored(req[d].num) /\ ~EntryPending(d, req[d].num)
        BY <2>1 DEF CollectionIInv, EntriesAreUnique
    <2>3. \A e \in Clients \ {d} : ~(req'[e].at = "check" /\ req'[e].num = req[d].num)
        BY <1>2, <2>2 DEF EntryPending
    <2>4. req'[c].at = "commit" => req[d].num \notin pending
        <3>1. CASE ClearDocuments(c)
            BY <1>1, <3>1, Moves DEF ClearDocuments
        <3>2. CASE InsertDocuments(c)
            BY <1>1, <2>1, <3>2 DEF InsertDocuments, EntryPending
        <3> QED
            BY <3>1, <3>2
    <2>5. ~Stored(req[d].num)'
        BY <1>1, <2>1, <2>2 DEF Stored
    <2>6. ~EntryPending(d, req[d].num)'
        BY <1>1, <2>1, <2>3, <2>4 DEF EntryPending, ResetAt
    <2> QED
        BY <2>5, <2>6
<1>8. CounterPastSettled' /\ ClaimedNumberIsFree'
    BY <1>1, <1>2 DEF CollectionIInv, CounterPastSettled, ClaimedNumberIsFree, Claims, Settled
<1> QED
    BY <1>4, <1>5, <1>6, <1>7, <1>8 DEF CollectionIInv

(* What a commit leaves: exactly what it inserted, and nobody's number.    *)
LEMMA CommitLeaves ==
    ASSUME CollectionIInv, NEW c \in Clients, CommitReset(c)
    PROVE  /\ holder = c /\ holder # Nobody /\ status = "live"
           /\ \A id \in Ids : docs'[id] = IF id \in pending THEN "seed" ELSE "absent"
           /\ req'[c] = Idle /\ req'[c].at = "idle"
           /\ \A d \in Clients \ {c} :
                 /\ req'[d].at = req[d].at /\ req'[d].num = req[d].num
                 /\ req'[d].tries = req[d].tries
                 /\ req[d].at \in {"insert", "check"} => req'[d].crossed
<1>1. TypeOK /\ req[c].at = "commit"
    BY DEF CollectionIInv, CommitReset
<1>2. holder = c /\ holder # Nobody /\ status = "live"
    BY <1>1, ClientsAssumption DEF CollectionIInv, LockHeldByReset, EmptyUnlessLive, TypeOK
<1>3. ResetAt({"fill", "commit"})
    BY <1>1, <1>2 DEF ResetAt
<1>4. \A id \in Ids : id \notin cleared => docs[id] = "absent"
    BY <1>3 DEF CollectionIInv, ClearedIsAll, Stored
<1>5. \A id \in Ids : docs'[id] = IF id \in pending THEN "seed" ELSE "absent"
    BY <1>4 DEF CommitReset
<1>6. req'[c] = Idle /\ req'[c].at = "idle"
    BY DEF CommitReset, Idle
<1>7. ASSUME NEW d \in Clients \ {c}
      PROVE  /\ req'[d].at = req[d].at /\ req'[d].num = req[d].num
             /\ req'[d].tries = req[d].tries
             /\ req[d].at \in {"insert", "check"} => req'[d].crossed
    <2>1. req[d] \in Requests
        BY <1>1 DEF TypeOK
    <2>2. req'[d] = [req[d] EXCEPT !.crossed =
                        @ \/ req[d].at \in {"insert", "check", "putBlocked", "deleteBlocked"}]
        BY DEF CommitReset
    <2> QED
        BY <2>1, <2>2 DEF Requests
<1> QED
    BY <1>2, <1>5, <1>6, <1>7

LEMMA CommitKeepsIInv ==
    ASSUME CollectionIInv, TypeOK', NEW c \in Clients, CommitReset(c)
    PROVE  CollectionIInv'
<1>1. /\ TypeOK /\ holder = c /\ holder # Nobody /\ req[c].at = "commit"
      /\ holder' = Nobody /\ UNCHANGED <<status, seed, strategy>> /\ status = "live"
    BY CommitLeaves DEF CollectionIInv, CommitReset, Release
<1>2. TriesLeft' /\ NumberKnown'
    BY CommitLeaves DEF CollectionIInv, TriesLeft, NumberKnown
<1>3. EmptyUnlessLive' /\ PendingSeedsRow' /\ ClearedIsAll'
    BY <1>1 DEF EmptyUnlessLive, PendingSeedsRow, ClearedIsAll, ResetAt
<1>4. LockHeldByReset'
    BY <1>1, CommitLeaves, ClientsAssumption DEF CollectionIInv, LockHeldByReset
<1>5. EntriesAreUnique'
    <2> SUFFICES ASSUME NEW d \in Clients, req'[d].at = "check"
                 PROVE  (~Stored(req[d].num) /\ ~EntryPending(d, req[d].num))'
        BY DEF EntriesAreUnique
    <2>1. d # c /\ req[d].at = "check" /\ req'[d].num = req[d].num /\ req[d].num \in Ids
        BY CommitLeaves DEF CollectionIInv, NumberKnown
    <2>2. ~EntryPending(d, req[d].num)
        BY <2>1 DEF CollectionIInv, EntriesAreUnique
    <2>3. req[d].num \notin pending
        BY <1>1, <2>2 DEF EntryPending, ResetAt
    <2>4. ~Stored(req[d].num)'
        BY <2>1, <2>3, CommitLeaves DEF Stored
    <2>5. ASSUME NEW e \in Clients \ {d}
          PROVE  ~(req'[e].at = "check" /\ req'[e].num = req'[d].num)
        <3>1. CASE e = c
            BY <3>1, CommitLeaves
        <3>2. CASE e # c
            BY <2>1, <2>2, <3>2, CommitLeaves DEF EntryPending
        <3> QED
            BY <3>1, <3>2
    <2>6. ~EntryPending(d, req[d].num)'
        BY <1>1, <2>5 DEF EntryPending, ResetAt
    <2> QED
        BY <2>4, <2>6
<1>6. \A d \in Clients, id \in Ids : ~Claims(d, id)'
    BY CommitLeaves DEF Claims
<1>7. ClaimedNumberIsFree'
    BY <1>6 DEF ClaimedNumberIsFree, Ids
<1>8. CounterPastSettled'
    <2> SUFFICES ASSUME base' > 0, NEW n \in Serials, Settled(n)'
                 PROVE  n < nextSerial'
        BY DEF CounterPastSettled
    <2>1. PICK highest \in Highest(pending) : nextSerial' = NextSerialAfter(highest)
        BY DEF CommitReset
    <2>2. base' = nextSerial'
        BY DEF CommitReset
    <2>3. n \in pending
        BY CommitLeaves DEF Settled, Ids
    <2> QED
        BY <2>1, <2>2, <2>3, NextSerialIsPast
<1> QED
    BY <1>2, <1>3, <1>4, <1>5, <1>7, <1>8 DEF CollectionIInv

(* A request that fails leaves nothing behind, its index entry and its row *)
(* lock included.                                                          *)
LEMMA FailKeepsIInv ==
    ASSUME CollectionIInv, TypeOK', NEW c \in Clients, Fail(c)
    PROVE  CollectionIInv'
<1> USE DEF row, tx
<1>1. /\ TypeOK /\ req[c].at # "idle" /\ Finish(c, "failed")
      /\ UNCHANGED <<row, docs>>
    BY DEF CollectionIInv, Fail
<1>2. req'[c] = Idle /\ req'[c].at = "idle" /\ \A d \in Clients \ {c} : req'[d] = req[d]
    BY <1>1, Moves
<1>3. CASE holder # c /\ UNCHANGED tx
    <2>1. req[c].at \notin InReset
        BY <1>3 DEF CollectionIInv, LockHeldByReset, InReset
    <2> QED
        BY <1>1, <1>2, <1>3, <2>1, QuietStep DEF InReset
<1>4. CASE holder = c /\ Release
    <2>1. holder' = Nobody /\ \A d \in Clients : d # Nobody
        BY <1>4, ClientsAssumption DEF Release
    <2>2. TriesLeft' /\ NumberKnown'
        BY <1>2 DEF CollectionIInv, TriesLeft, NumberKnown
    <2>3. EmptyUnlessLive' /\ PendingSeedsRow' /\ ClearedIsAll'
        BY <1>1, <1>2, <1>4, <2>1
        DEF CollectionIInv, EmptyUnlessLive, PendingSeedsRow, ClearedIsAll, ResetAt, Stored
    <2>4. LockHeldByReset'
        BY <1>2, <1>4, <2>1 DEF CollectionIInv, LockHeldByReset
    <2>5. EntriesAreUnique'
        BY <1>1, <1>2, <2>1 DEF CollectionIInv, EntriesAreUnique, EntryPending, ResetAt, Stored
    <2>6. CounterPastSettled' /\ ClaimedNumberIsFree'
        BY <1>1, <1>2 DEF CollectionIInv, CounterPastSettled, ClaimedNumberIsFree, Claims, Settled
    <2> QED
        BY <2>2, <2>3, <2>4, <2>5, <2>6 DEF CollectionIInv
<1> QED
    BY <1>3, <1>4 DEF Fail, Rollback
-----------------------------------------------------------------------------
(* The collection's own row.                                               *)
LEMMA CreateCollectionKeepsIInv ==
    ASSUME CollectionIInv, TypeOK', NEW c \in Clients, CreateCollection(c)
    PROVE  CollectionIInv'
<1> USE DEF row, tx
<1>1. TypeOK /\ req[c].at = "idle" /\ UNCHANGED <<tx, docs>>
    BY DEF CollectionIInv, CreateCollection
<1>2. CASE status = "live" /\ UNCHANGED <<row, req>>
    BY <1>1, <1>2
    DEF CollectionIInv, TriesLeft, NumberKnown, EmptyUnlessLive, LockHeldByReset, PendingSeedsRow,
        ClearedIsAll, EntriesAreUnique, CounterPastSettled, ClaimedNumberIsFree,
        EntryPending, ResetAt, Claims, Settled, Stored, Stated, Open, Readers!Named
<1>3. CASE status = "none" /\ status' = "live" /\ base' = 1 /\ Begin(c, "lock")
    <2>1. /\ holder = Nobody /\ holder' = Nobody
          /\ \A id \in Ids : ~Stored(id)
          /\ \A d \in Clients : req[d].at = "idle"
        BY <1>1, <1>3 DEF CollectionIInv, EmptyUnlessLive, Idle
    <2>2. \A d \in Clients : req'[d].at \in {"idle", "lock"}
        BY <1>1, <1>3, <2>1, Moves
    <2>3. \A id \in Ids : docs'[id] = "absent"
        BY <1>1, <2>1 DEF Stored
    <2>4. TriesLeft' /\ NumberKnown' /\ EmptyUnlessLive' /\ EntriesAreUnique'
        BY <1>3, <2>2 DEF TriesLeft, NumberKnown, EmptyUnlessLive, EntriesAreUnique
    <2>5. LockHeldByReset' /\ PendingSeedsRow' /\ ClearedIsAll'
        BY <2>1, <2>2, ClientsAssumption
        DEF LockHeldByReset, PendingSeedsRow, ClearedIsAll, ResetAt
    <2>6. CounterPastSettled' /\ ClaimedNumberIsFree'
        BY <2>2, <2>3 DEF CounterPastSettled, ClaimedNumberIsFree, Claims, Settled, Ids
    <2> QED
        BY <2>4, <2>5, <2>6 DEF CollectionIInv
<1> QED
    BY <1>2, <1>3 DEF CreateCollection

(* An edit or a deletion finds the row unlocked, so no reset is under way. *)
LEMMA RowChangesKeepIInv ==
    ASSUME CollectionIInv, TypeOK', NEW c \in Clients, UpdateCollection(c) \/ DeleteCollection(c)
    PROVE  CollectionIInv'
<1> USE DEF row, tx
<1>1. /\ TypeOK /\ holder = Nobody /\ status # "none" /\ status' # "none"
      /\ UNCHANGED <<nextSerial, base, holder, cleared, pending, req>>
    BY DEF CollectionIInv, UpdateCollection, DeleteCollection, NobodyHolds
<1>2. \/ status' = status /\ docs' = docs
      \/ \A id \in Ids : docs'[id] = "absent"
    BY DEF UpdateCollection, DeleteCollection
<1>3. \A id \in Ids : docs'[id] = docs[id] \/ docs'[id] = "absent"
    BY <1>2
<1>4. TriesLeft' /\ NumberKnown' /\ LockHeldByReset'
    BY <1>1 DEF CollectionIInv, TriesLeft, NumberKnown, LockHeldByReset
<1>5. EmptyUnlessLive' /\ PendingSeedsRow' /\ ClearedIsAll'
    BY <1>1, <1>2
    DEF CollectionIInv, EmptyUnlessLive, PendingSeedsRow, ClearedIsAll, ResetAt, Stored
<1>6. EntriesAreUnique'
    <2>1. \A d \in Clients : req[d].at = "check" => req[d].num \in Ids
        BY DEF CollectionIInv, NumberKnown
    <2> QED
        BY <1>1, <1>3, <2>1 DEF CollectionIInv, EntriesAreUnique, EntryPending, ResetAt, Stored
<1>7. \A n \in Serials : Settled(n)' => Settled(n)
    BY <1>3 DEF Settled, Ids
<1>8. CounterPastSettled' /\ ClaimedNumberIsFree'
    BY <1>1, <1>7 DEF CollectionIInv, CounterPastSettled, ClaimedNumberIsFree, Claims
<1> QED
    BY <1>4, <1>5, <1>6, <1>8 DEF CollectionIInv

LEMMA DeleteDocumentKeepsIInv ==
    ASSUME CollectionIInv, TypeOK', NEW c \in Clients, DeleteDocument(c)
    PROVE  CollectionIInv'
<1> USE DEF row, tx
<1>1. TypeOK /\ req[c].at \in {"idle", "deleteBlocked"} /\ UNCHANGED <<row, tx>>
    BY DEF CollectionIInv, DeleteDocument, RemoveOrMiss
<1>2. PICK id \in Ids, b \in BOOLEAN : RemoveOrMiss(c, id, b)
    <2>1. CASE \E id \in Addressed : RemoveOrMiss(c, id, FALSE)
        BY <2>1, IdsAssumption
    <2>2. CASE req[c].at = "deleteBlocked" /\ RemoveOrMiss(c, req[c].num, req[c].crossed)
        <3>1. req[c].num \in Ids /\ req[c].crossed \in BOOLEAN
            BY <1>1, <2>2 DEF CollectionIInv, NumberKnown, TypeOK, Requests
        <3> QED
            BY <2>2, <3>1
    <2> QED
        BY <2>1, <2>2 DEF DeleteDocument
<1>3. /\ req'[c] = Idle /\ req'[c].at = "idle" /\ \A d \in Clients \ {c} : req'[d] = req[d]
    BY <1>1, <1>2, Moves DEF RemoveOrMiss
<1>4. CASE UNCHANGED docs
    BY <1>1, <1>3, <1>4, QuietStep DEF InReset
<1>5. CASE docs' = [docs EXCEPT ![id] = "absent"] /\ Stored(id)
    <2>1. ~Deleting(id) /\ \A i \in Ids : docs'[i] = docs[i] \/ docs'[i] = "absent"
        BY <1>1, <1>2, <1>5 DEF RemoveOrMiss, TypeOK
    <2>2. holder # c /\ \A places : ResetAt(places)' <=> ResetAt(places)
        BY <1>1, <1>3 DEF CollectionIInv, LockHeldByReset, ResetAt, TypeOK
    <2>3. ~ResetAt({"fill", "commit"})
        BY <1>5, <2>1 DEF CollectionIInv, ClearedIsAll, Deleting
    <2>4. TriesLeft' /\ NumberKnown' /\ LockHeldByReset'
        BY <1>1, <1>3 DEF CollectionIInv, TriesLeft, NumberKnown, LockHeldByReset
    <2>5. EmptyUnlessLive' /\ PendingSeedsRow' /\ ClearedIsAll'
        BY <1>1, <1>3, <2>1, <2>2, <2>3
        DEF CollectionIInv, EmptyUnlessLive, PendingSeedsRow, ClearedIsAll, Stored, Stated, Open,
            Readers!Named
    <2>6. EntriesAreUnique'
        <3>1. \A d \in Clients : req[d].at = "check" => req[d].num \in Ids
            BY DEF CollectionIInv, NumberKnown
        <3> QED
            BY <1>1, <1>3, <2>1, <2>2, <3>1 DEF CollectionIInv, EntriesAreUnique, EntryPending, Stored
    <2>7. \A n \in Serials : Settled(n)' => Settled(n)
        BY <2>1 DEF Settled, Ids
    <2>8. CounterPastSettled' /\ ClaimedNumberIsFree'
        BY <1>1, <1>3, <2>7 DEF CollectionIInv, CounterPastSettled, ClaimedNumberIsFree, Claims
    <2> QED
        BY <2>4, <2>5, <2>6, <2>8 DEF CollectionIInv
<1> QED
    BY <1>2, <1>4, <1>5 DEF RemoveOrMiss
-----------------------------------------------------------------------------
LEMMA InitEstablishesIInv == Init => CollectionIInv
<1> SUFFICES ASSUME Init PROVE CollectionIInv
    OBVIOUS
<1>1. TypeOK
    BY TypeInit
<1>2. \A c \in Clients : req[c] = Idle /\ req[c].at = "idle"
    BY DEF Init, Idle
<1>3. holder = Nobody /\ \A id \in Ids : docs[id] = "absent"
    BY DEF Init
<1>4. TriesLeft /\ NumberKnown /\ EntriesAreUnique
    BY <1>2 DEF TriesLeft, NumberKnown, EntriesAreUnique
<1>5. EmptyUnlessLive /\ LockHeldByReset /\ PendingSeedsRow /\ ClearedIsAll
    BY <1>2, <1>3, ClientsAssumption
    DEF EmptyUnlessLive, LockHeldByReset, PendingSeedsRow, ClearedIsAll, Stored, ResetAt
<1>6. CounterPastSettled /\ ClaimedNumberIsFree
    BY <1>2, <1>3 DEF CounterPastSettled, ClaimedNumberIsFree, Settled, Claims, Ids
<1> QED
    BY <1>1, <1>4, <1>5, <1>6 DEF CollectionIInv

LEMMA StepKeepsIInv == CollectionIInv /\ [Next]_vars => CollectionIInv'
<1> SUFFICES ASSUME CollectionIInv, [Next]_vars PROVE CollectionIInv'
    OBVIOUS
<1>1. TypeOK'
    BY TypeStep DEF CollectionIInv
<1>2. CASE UNCHANGED vars
    BY <1>1, <1>2
    DEF vars, CollectionIInv, TriesLeft, NumberKnown, EmptyUnlessLive, LockHeldByReset, PendingSeedsRow,
        ClearedIsAll, EntriesAreUnique, CounterPastSettled, ClaimedNumberIsFree,
        EntryPending, ResetAt, Claims, Settled, Stored, Stated, Open, Readers!Named
<1>3. ASSUME NEW c \in Clients, Arrive(c)
      PROVE  CollectionIInv'
    BY <1>1, <1>3, CreateCollectionKeepsIInv, RowChangesKeepIInv, QuietActions DEF Arrive
<1>4. ASSUME NEW c \in Clients, Proceed(c)
      PROVE  CollectionIInv'
    BY <1>1, <1>4, AllocateKeepsIInv, EnterIndexKeepsIInv, InsertDocumentKeepsIInv,
       LockKeepsIInv, ClearAndFillKeepIInv, CommitKeepsIInv, QuietActions DEF Proceed
<1>5. ASSUME NEW c \in Clients, DeleteDocument(c)
      PROVE  CollectionIInv'
    BY <1>1, <1>5, DeleteDocumentKeepsIInv
<1>6. ASSUME NEW c \in Clients, Fail(c)
      PROVE  CollectionIInv'
    BY <1>1, <1>6, FailKeepsIInv
<1> QED
    BY <1>2, <1>3, <1>4, <1>5, <1>6 DEF Next

(* The inductive invariant holds of every reachable state, whatever the    *)
(* number of clients, the width of the counter and the seeds: the row lock *)
(* belongs to the one reset under way, what that reset has deleted is all  *)
(* there is, and no index entry of a create contradicts a document.        *)
THEOREM CollectionInvariant == Spec => []CollectionIInv
<1>1. Init => CollectionIInv
    BY InitEstablishesIInv
<1>2. CollectionIInv /\ [Next]_vars => CollectionIInv'
    BY StepKeepsIInv
<1> QED
    BY <1>1, <1>2, PTL DEF Spec

(* The collection row, the documents and the requests keep their types: in *)
(* particular the counter never leaves the range of a bigint.              *)
THEOREM TypeCorrect == Spec => []TypeOK
<1>1. CollectionIInv => TypeOK
    BY DEF CollectionIInv
<1> QED
    BY <1>1, CollectionInvariant, PTL

(* AllocateDocumentID and nextSerialAfter together keep the counter past   *)
(* every number settled since the last reset that did not wrap it around.  *)
THEOREM CounterSafe == Spec => []CounterPastSettled
<1>1. CollectionIInv => CounterPastSettled
    BY DEF CollectionIInv
<1> QED
    BY <1>1, CollectionInvariant, PTL

(* A number CreateDocument was handed since the last reset is nobody       *)
(* else's, so its retries are only against creates a reset overtook.       *)
THEOREM ClaimsSafe == Spec => []ClaimedNumberIsFree
<1>1. CollectionIInv => ClaimedNumberIsFree
    BY DEF CollectionIInv
<1> QED
    BY <1>1, CollectionInvariant, PTL
-----------------------------------------------------------------------------
(* The refinement: every statement is an atomic operation of DocumentSet,  *)
(* or nothing at all to a reader.                                          *)
(* A statement that changes no document and neither the phase nor the seed *)
(* is invisible.                                                           *)
LEMMA Invisible ==
    ASSUME UNCHANGED <<status, seed, docs>>
    PROVE  UNCHANGED Readers!vars
BY DEF Readers!vars, Stored

LEMMA AddsOne ==
    ASSUME CollectionIInv, NEW c \in Clients, InsertDocument(c)
    PROVE  [Readers!Next]_(Readers!vars)
<1>1. CASE UNCHANGED <<status, seed, docs>>
    BY <1>1, Invisible
<1>2. CASE status = "live" /\ docs' = [docs EXCEPT ![req[c].num] =
               IF req[c].crossed THEN "stale" ELSE "fresh"]
    <2>1. req[c].num \in Ids /\ ~Stored(req[c].num) /\ docs \in [Ids -> Origins]
        BY DEF CollectionIInv, InsertDocument, NumberKnown, EntriesAreUnique, TypeOK
    <2>2. {id \in Ids : Stored(id)}' = {id \in Ids : Stored(id)} \union {req[c].num}
        BY <1>2, <2>1 DEF Stored
    <2>3. req[c].num \in Ids \ {id \in Ids : Stored(id)}
        BY <2>1
    <2>4. UNCHANGED <<status, seed>>
        BY DEF InsertDocument, row
    <2>5. Readers!Add
        BY <1>2, <2>2, <2>3, <2>4 DEF Readers!Add
    <2> QED
        BY <2>5 DEF Readers!Next
<1> QED
    BY <1>1, <1>2 DEF InsertDocument, row

LEMMA RemovesOne ==
    ASSUME CollectionIInv, NEW c \in Clients, DeleteDocument(c)
    PROVE  [Readers!Next]_(Readers!vars)
<1>1. PICK id, b : RemoveOrMiss(c, id, b) /\ id \in Ids
    <2>1. Addressed \subseteq Ids
        BY IdsAssumption
    <2>2. req[c].at = "deleteBlocked" => req[c].num \in Ids
        BY DEF CollectionIInv, NumberKnown
    <2> QED
        BY <2>1, <2>2 DEF DeleteDocument
<1>2. UNCHANGED <<status, seed>> /\ docs \in [Ids -> Origins]
    BY <1>1 DEF RemoveOrMiss, row, CollectionIInv, TypeOK
<1>3. CASE UNCHANGED docs
    BY <1>2, <1>3, Invisible
<1>4. CASE Stored(id) /\ docs' = [docs EXCEPT ![id] = "absent"]
    <2>1. {i \in Ids : Stored(i)}' = {i \in Ids : Stored(i)} \ {id}
        BY <1>1, <1>2, <1>4 DEF Stored
    <2>2. status = "live" /\ id \in {i \in Ids : Stored(i)}
        BY <1>1, <1>4 DEF CollectionIInv, EmptyUnlessLive
    <2>3. Readers!Remove
        BY <1>2, <2>1, <2>2 DEF Readers!Remove
    <2> QED
        BY <2>3 DEF Readers!Next
<1> QED
    BY <1>1, <1>3, <1>4 DEF RemoveOrMiss

(* The instance counts as the module itself does.                          *)
LEMMA SameCount == ASSUME NEW S PROVE Readers!Cardinality(S) = Cardinality(S)
BY Zenon DEF Cardinality, Readers!Cardinality

LEMMA RestoresAll ==
    ASSUME CollectionIInv, NEW c \in Clients, CommitReset(c)
    PROVE  Readers!Restore
<1>1. /\ holder # Nobody /\ status = "live" /\ UNCHANGED <<status, seed>>
      /\ pending \in SUBSET Ids
    BY CommitLeaves DEF CollectionIInv, TypeOK, CommitReset
<1>2. {id \in Ids : Stored(id)}' = pending
    BY <1>1, CommitLeaves DEF Stored
<1>3. /\ Stated(seed) \subseteq pending
      /\ Cardinality(pending \ Stated(seed)) = Cardinality(Open(seed))
    BY <1>1 DEF CollectionIInv, PendingSeedsRow
<1>4. Stated(seed) = Readers!Named(seed) /\ Open(seed) = Readers!Unnamed(seed)
    BY <1>1 DEF CollectionIInv, PendingSeedsRow, Open, Readers!Unnamed
<1>5. /\ {id \in Ids : Stored(id)}' \in SUBSET Ids
      /\ Readers!Named(seed) \subseteq {id \in Ids : Stored(id)}'
      /\ Readers!Cardinality({id \in Ids : Stored(id)}' \ Readers!Named(seed))
            = Readers!Cardinality(Readers!Unnamed(seed))
    BY <1>1, <1>2, <1>3, <1>4, SameCount
<1> QED
    BY <1>1, <1>5, Zenon DEF Readers!Restore

LEMMA RowSteps ==
    ASSUME CollectionIInv, NEW c \in Clients,
           CreateCollection(c) \/ UpdateCollection(c) \/ DeleteCollection(c)
    PROVE  [Readers!Next]_(Readers!vars)
<1>1. CASE UNCHANGED <<status, seed, docs>>
    BY <1>1, Invisible
<1>2. CASE CreateCollection(c) /\ status = "none"
    <2>1. Readers!Define
        BY <1>2 DEF CreateCollection, Readers!Define, Stored
    <2> QED
        BY <2>1 DEF Readers!Next
<1>3. CASE UpdateCollection(c) /\ status = "live"
    <2>1. Readers!Edit
        BY <1>3 DEF UpdateCollection, Readers!Edit, tx, Stored
    <2> QED
        BY <2>1 DEF Readers!Next
<1>4. CASE DeleteCollection(c) /\ status = "live"
    <2>1. Readers!Drop
        BY <1>4 DEF DeleteCollection, Readers!Drop, Stored
    <2> QED
        BY <2>1 DEF Readers!Next
<1> QED
    BY <1>1, <1>2, <1>3, <1>4 DEF CreateCollection, UpdateCollection, DeleteCollection, row

LEMMA StepRefines == CollectionIInv /\ [Next]_vars => [Readers!Next]_(Readers!vars)
<1> SUFFICES ASSUME CollectionIInv, [Next]_vars PROVE [Readers!Next]_(Readers!vars)
    OBVIOUS
<1>1. CASE UNCHANGED vars
    BY <1>1, Invisible DEF vars
<1>2. ASSUME NEW c \in Clients,
             \/ StartCreate(c) \/ StartReset(c) \/ StartWrite(c) \/ DeleteBlocks(c)
             \/ ListDocuments(c)
      PROVE  [Readers!Next]_(Readers!vars)
    BY <1>2, Invisible
    DEF StartCreate, StartReset, StartWrite, DeleteBlocks, ListDocuments, row
<1>3. ASSUME NEW c \in Clients,
             \/ AllocateDocumentID(c) \/ EnterIndex(c) \/ UniqueViolation(c)
             \/ LockForReset(c) \/ ClearDocuments(c) \/ InsertDocuments(c)
             \/ WriteBlocks(c) \/ WriteDocument(c) \/ CountDocuments(c)
      PROVE  [Readers!Next]_(Readers!vars)
    BY <1>3, Invisible
    DEF AllocateDocumentID, EnterIndex, UniqueViolation, LockForReset, ClearDocuments,
        InsertDocuments, WriteBlocks, WriteDocument, CountDocuments, row
<1>4. ASSUME NEW c \in Clients, CommitReset(c)
      PROVE  [Readers!Next]_(Readers!vars)
    BY <1>4, RestoresAll DEF Readers!Next
<1>5. ASSUME NEW c \in Clients, Fail(c)
      PROVE  [Readers!Next]_(Readers!vars)
    BY <1>5, Invisible DEF Fail, row
<1> QED
    BY <1>1, <1>2, <1>3, <1>4, <1>5, AddsOne, RemovesOne, RowSteps DEF Next, Arrive, Proceed

LEMMA InitRefines == Init => Readers!Init
BY DEF Init, Readers!Init, Stored

(* A reader sees documents come and go one at a time, and a reset as one   *)
(* change to exactly what the saved seed describes: no statement of any    *)
(* other request can take effect between a reset's delete and its commit.  *)
THEOREM Refinement == Spec => ImplementsDocumentSet
<1>1. Init => Readers!Init
    BY InitRefines
<1>2. CollectionIInv /\ [Next]_vars => [Readers!Next]_(Readers!vars)
    BY StepRefines
<1> QED
    BY <1>1, <1>2, CollectionInvariant, PTL DEF Spec, ImplementsDocumentSet, Readers!Spec
-----------------------------------------------------------------------------
(* allocateSeedID as the loop it is.  Where the loop stands: it has counted *)
(* up to "counter", and "given" are the numbers it gave on the way.        *)
CountedTo(s, given, counter) ==
    /\ counter \in Nat
    /\ given \in SUBSET ((1..counter) \ Stated(s))
    /\ 1..counter \subseteq given \union Stated(s)

(* The counter starts at 0, with nothing given.                            *)
LEMMA CountingStarts == ASSUME NEW s PROVE CountedTo(s, {}, 0)
BY DEF CountedTo

(* One call: the counter goes up until it is at a number nobody took, by   *)
(* stating it or by being given it; that number is given.                  *)
LEMMA CountingGoesOn ==
    ASSUME NEW s, NEW given, NEW counter, CountedTo(s, given, counter),
           NEW n \in Nat, n > counter, n \notin Stated(s) \union given,
           \A i \in (counter + 1)..(n - 1) : i \in Stated(s) \union given
    PROVE  /\ CountedTo(s, given \union {n}, n)
           /\ Cardinality(given \union {n}) = Cardinality(given) + 1
<1>1. counter \in Nat /\ given \in SUBSET (1..counter) /\ given \intersect Stated(s) = {}
    BY DEF CountedTo
<1>2. given \union {n} \in SUBSET ((1..n) \ Stated(s))
    BY <1>1
<1>3. ASSUME NEW i \in 1..n
      PROVE  i \in given \union {n} \union Stated(s)
    <2>1. CASE i \in 1..counter
        BY <2>1 DEF CountedTo
    <2>2. CASE i \in (counter + 1)..(n - 1)
        BY <2>2
    <2>3. CASE i = n
        BY <2>3
    <2> QED
        BY <1>1, <2>1, <2>2, <2>3
<1>4. IsFiniteSet(given)
    <2>1. 1 \in Int /\ counter \in Int
        BY <1>1
    <2>2. IsFiniteSet(1..counter)
        BY <2>1, FS_Interval
    <2> QED
        BY <1>1, <2>2, FS_Subset
<1> QED
    BY <1>2, <1>3, <1>4, FS_AddElement DEF CountedTo

(* With a number for every entry that stated none, the loop has given what *)
(* AllocateSeedID says, and that says nothing else: it is one set.         *)
LEMMA AllocationIsOne ==
    ASSUME NEW s, NEW A \in AllocateSeedID(s), NEW B \in AllocateSeedID(s)
    PROVE  A \subseteq B
<1>1. /\ A \in SUBSET (1..MaxSerial) /\ B \in SUBSET (1..MaxSerial)
      /\ A \intersect Stated(s) = {} /\ B \intersect Stated(s) = {}
      /\ Cardinality(A) = Cardinality(B)
      /\ \A n \in A : 1..n \subseteq A \union Stated(s)
      /\ \A n \in B : 1..n \subseteq B \union Stated(s)
    BY DEF AllocateSeedID
<1> SUFFICES ASSUME NEW a \in A, a \notin B
             PROVE  FALSE
    OBVIOUS
<1>2. B \subseteq A
    <2> SUFFICES ASSUME NEW b \in B
                 PROVE  b \in A
        OBVIOUS
    <2>1. a \in 1..MaxSerial /\ b \in 1..MaxSerial /\ MaxSerial \in Nat
        BY <1>1, SerialAssumption
    <2>2. ~(a <= b)
        <3> SUFFICES ASSUME a <= b
                     PROVE  FALSE
            OBVIOUS
        <3>1. a \in 1..b
            BY <2>1
        <3> QED
            BY <1>1, <3>1
    <2>3. b \in 1..a
        BY <2>1, <2>2
    <2> QED
        BY <1>1, <2>3
<1>3. IsFiniteSet(A)
    <2>1. 1 \in Int /\ MaxSerial \in Int
        BY SerialAssumption
    <2>2. IsFiniteSet(1..MaxSerial)
        BY <2>1, FS_Interval
    <2> QED
        BY <1>1, <2>2, FS_Subset
<1>4. A = B
    BY <1>1, <1>2, <1>3, FS_Subset
<1> QED
    BY <1>4

(* The numbers a reset gives are exactly those the loop counts to, for any *)
(* seed, as long as they fit the counter.                                  *)
THEOREM LoopAllocates ==
    ASSUME NEW s, NEW given, NEW counter, CountedTo(s, given, counter),
           Cardinality(given) = Cardinality(Open(s)), counter <= MaxSerial
    PROVE  AllocateSeedID(s) = {given}
<1>1. /\ counter \in Nat /\ given \in SUBSET (1..counter)
      /\ given \intersect Stated(s) = {}
      /\ 1..counter \subseteq given \union Stated(s)
    BY DEF CountedTo
<1>2. given \in SUBSET ((1..MaxSerial) \ Stated(s))
    BY <1>1, SerialAssumption
<1>3. \A n \in given : 1..n \subseteq given \union Stated(s)
    BY <1>1
<1>4. given \in AllocateSeedID(s)
    BY <1>2, <1>3 DEF AllocateSeedID
<1>5. \A A \in AllocateSeedID(s) : A = given
    BY <1>4, AllocationIsOne
<1> QED
    BY <1>4, <1>5
=============================================================================
