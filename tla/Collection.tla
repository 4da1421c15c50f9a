----------------------------- MODULE Collection -----------------------------
(***************************************************************************)
(* One stateful collection of a project: its row in "collections" (seed,   *)
(* identifier strategy, serial counter) and its rows in "documents", under *)
(* concurrent requests.  Every action is one SQL statement, or one commit, *)
(* of internal/core/collection.go and internal/core/document.go, because   *)
(* those are the points where requests interleave.                         *)
(*                                                                         *)
(* PostgreSQL at READ COMMITTED is external; what is modelled of it:       *)
(*   - a SELECT ... FOR UPDATE row lock excludes UPDATE, DELETE and the    *)
(*     FOR KEY SHARE lock a foreign key check takes, and no plain read;    *)
(*   - an INSERT enters the unique index first and checks the foreign key  *)
(*     after, and an entry of an unfinished transaction makes another      *)
(*     writer of the same key wait;                                        *)
(*   - an UPDATE or DELETE of a row another transaction has deleted waits  *)
(*     for that transaction, and finds nothing if it commits;              *)
(*   - a cycle of waits ends by one of its statements failing.             *)
(*                                                                         *)
(* A document is its identifier; bodies are left out.  The history part of *)
(* the state (an identifier's origin, "crossed", "base") is read by no     *)
(* guard except where a statement learns that its row version is gone.     *)
(***************************************************************************)
EXTENDS Integers, Sequences, FiniteSets

CONSTANTS
    Clients,        \* concurrent requests, one at a time each
    MaxSerial,      \* the largest int64, in small
    Texts,          \* identifiers that do not parse as an int64
    Uuids,          \* identifiers uuid.NewString can return
    Seeds,          \* seeds an owner may save, as validateSeed lets them through
    Strategies,     \* the id_strategy values in use
    Attempts,       \* createAttempts
    Addressed,      \* identifiers clients address in a URL
    Unstated,       \* a seed entry without the identifier field
    BadId,          \* a seed entry whose identifier is neither string nor number
    NullEntry,      \* a seed entry that is the JSON null
    NoId,           \* no identifier
    Nobody          \* no client

MinSerial == -MaxSerial - 1
Serials == MinSerial..MaxSerial
Ids == Serials \union Texts \union Uuids

ASSUME SerialAssumption == MaxSerial \in Nat \ {0}
ASSUME AttemptsAssumption == Attempts \in Nat \ {0}
ASSUME ClientsAssumption == Nobody \notin Clients
ASSUME StrategiesAssumption == Strategies \subseteq {"serial", "uuid"}
ASSUME IdsAssumption ==
    /\ Texts \intersect Serials = {}
    /\ Uuids \intersect (Serials \union Texts) = {}
    /\ Addressed \subseteq Ids
    /\ {Unstated, BadId, NullEntry, NoId} \intersect Ids = {}
ASSUME EntriesAssumption ==
    /\ Unstated # BadId /\ Unstated # NullEntry /\ BadId # NullEntry
ASSUME SeedsAssumption ==
    Seeds \subseteq Seq(Serials \union Texts \union {Unstated, BadId, NullEntry})
-----------------------------------------------------------------------------
VARIABLES
    status,         \* of the collection row: "none", "live" or "deleted"
    seed,           \* its seed column
    strategy,       \* its id_strategy column
    nextSerial,     \* its next_serial column
    docs,           \* the committed documents: identifier to origin
    holder,         \* the client whose transaction holds the row FOR UPDATE
    cleared,        \* documents that transaction has deleted, uncommitted
    pending,        \* documents it is to insert
    req,            \* each client's request
    answer,         \* each client's last answer
    base            \* the counter as the last reset, or the creation, left it

vars == <<status, seed, strategy, nextSerial, docs, holder, cleared, pending,
          req, answer, base>>

row == <<status, seed, strategy, nextSerial, base>>
tx == <<holder, cleared, pending>>

(* Where a document's identifier came from.  "fresh" was handed out since  *)
(* the last reset, "stale" before it, by a create the reset overtook.      *)
Origins == {"absent", "seed", "fresh", "stale"}

Places == {"idle", "allocate", "insert", "check", "lock", "clear", "fill",
           "commit", "put", "putBlocked", "deleteBlocked", "count"}

Requests == [at : Places, num : Ids \union {NoId}, crossed : BOOLEAN,
             tries : 0..Attempts]

Answers == {"none", "created", "reset", "done", "notFound", "refused",
            "exists", "failed", "exhausted", "panic", "torn"}

Idle == [at |-> "idle", num |-> NoId, crossed |-> FALSE, tries |-> 0]

Begin(c, place) ==
    /\ req' = [req EXCEPT ![c] = [Idle EXCEPT !.at = place]]
    /\ answer' = [answer EXCEPT ![c] = "none"]

Step(c, place) ==
    /\ req' = [req EXCEPT ![c].at = place]
    /\ UNCHANGED answer

Finish(c, result) ==
    /\ req' = [req EXCEPT ![c] = Idle]
    /\ answer' = [answer EXCEPT ![c] = result]

Stored(id) == docs[id] # "absent"
-----------------------------------------------------------------------------
(* seedDocuments: the first pass refuses an identifier that is no scalar   *)
(* or is named twice; a null entry survives it as a nil map, and the       *)
(* second pass panics writing the identifier into that.                    *)
Stated(s) == {s[i] : i \in DOMAIN s} \intersect (Serials \union Texts)

Open(s) == {i \in DOMAIN s : s[i] = Unstated}

SeedRefused(s) ==
    \/ \E i \in DOMAIN s : s[i] = BadId
    \/ \E i, j \in DOMAIN s : i # j /\ s[i] = s[j] /\ s[i] \in Serials \union Texts

SeedPanics(s) == ~SeedRefused(s) /\ \E i \in DOMAIN s : s[i] = NullEntry

(* allocateSeedID under "serial": counting from 1 for each entry that      *)
(* states nothing, stepping over what the others state.                    *)
AllocateSeedIDOverStated(s) == {1..Cardinality(Open(s))}

AllocateSeedID(s) ==
    {A \in SUBSET ((1..MaxSerial) \ Stated(s)) :
        /\ Cardinality(A) = Cardinality(Open(s))
        /\ \A n \in A : 1..n \subseteq A \union Stated(s)}

UuidsInUse == {u \in Uuids : Stored(u)} \union pending \union {req[c].num : c \in Clients}

(* The identifiers a reset may give the entries that state none.           *)
Generated(s) ==
    IF strategy = "serial"
    THEN AllocateSeedID(s)
    ELSE {U \in SUBSET (Uuids \ UuidsInUse) : Cardinality(U) = Cardinality(Open(s))}

(* nextSerialAfter: past the highest number used, in int64 arithmetic.     *)
Highest(ids) ==
    {n \in {0} \union (ids \intersect Serials) :
        \A m \in ids \intersect Serials : m <= n}

NextSerialAtHighest(highest) == IF highest = 0 THEN 1 ELSE highest

NextSerialAfter(highest) == IF highest = MaxSerial THEN MinSerial ELSE highest + 1
-----------------------------------------------------------------------------
(* Row locks: the collection row, and documents the reset has deleted.     *)
NobodyHolds == holder = Nobody

(* The foreign key check of an INSERT wants the row FOR KEY SHARE.         *)
KeyShareIgnoresUpdateLock == TRUE
KeyShareAvailable == holder = Nobody

ResetAt(places) == holder # Nobody /\ req[holder].at \in places

Deleting(id) == ResetAt({"fill", "commit"}) /\ id \in cleared

(* Another transaction's unfinished entry for the identifier.              *)
EntryPending(c, id) ==
    \/ ResetAt({"commit"}) /\ id \in pending
    \/ \E d \in Clients \ {c} : req[d].at = "check" /\ req[d].num = id
-----------------------------------------------------------------------------
(* CreateDocument: at most Attempts rounds of allocate, then insert.       *)
(* UuidRoom bounds the identifiers of the uuid strategy.                   *)
UuidRoom ==
    strategy = "uuid" =>
        Cardinality({u \in Uuids : Stored(u)})
            + Cardinality({c \in Clients : req[c].at # "idle"}) < Cardinality(Uuids)

StartCreate(c) ==
    /\ req[c].at = "idle"
    /\ status # "none"
    /\ UuidRoom
    /\ Begin(c, "allocate")
    /\ UNCHANGED <<row, tx, docs>>

HandOut(c, id) ==
    /\ req' = [req EXCEPT ![c] = [at |-> "insert", num |-> id, crossed |-> FALSE,
                                  tries |-> @.tries + 1]]
    /\ UNCHANGED answer

(* AllocateDocumentID claims the counter's value and advances it in one    *)
(* statement, which waits for a reset to let go of the row.                *)
AllocateSerialWithoutAdvancing(c) ==
    /\ strategy = "serial"
    /\ nextSerial < MaxSerial
    /\ HandOut(c, nextSerial)
    /\ UNCHANGED nextSerial

AllocateSerial(c) ==
    /\ strategy = "serial"
    /\ nextSerial < MaxSerial
    /\ HandOut(c, nextSerial)
    /\ nextSerial' = nextSerial + 1

(* next_serial + 1 is out of range for a bigint.                           *)
AllocateOverflow(c) ==
    /\ strategy = "serial"
    /\ nextSerial = MaxSerial
    /\ Finish(c, "failed")
    /\ UNCHANGED nextSerial

AllocateUuid(c) ==
    /\ strategy = "uuid"
    /\ \E u \in Uuids \ UuidsInUse : HandOut(c, u)
    /\ UNCHANGED nextSerial

AllocateDocumentID(c) ==
    /\ req[c].at = "allocate"
    /\ NobodyHolds
    /\ \/ status # "live" /\ Finish(c, "notFound") /\ UNCHANGED nextSerial
       \/ status = "live" /\ (AllocateSerial(c) \/ AllocateOverflow(c) \/ AllocateUuid(c))
    /\ UNCHANGED <<status, seed, strategy, base, docs, tx>>

(* The insert reaches the unique index: it waits for an unfinished writer  *)
(* of the identifier, and enters it unless a document has it already.      *)
EnterIndex(c) ==
    /\ req[c].at = "insert"
    /\ ~EntryPending(c, req[c].num)
    /\ ~Stored(req[c].num)
    /\ Step(c, "check")
    /\ UNCHANGED <<row, tx, docs>>

UniqueViolation(c) ==
    /\ req[c].at = "insert"
    /\ ~Deleting(req[c].num)
    /\ ~EntryPending(c, req[c].num)
    /\ Stored(req[c].num)
    /\ IF req[c].tries < Attempts THEN Step(c, "allocate") ELSE Finish(c, "exhausted")
    /\ UNCHANGED <<row, tx, docs>>

(* The foreign key check, and the commit of the statement with it.         *)
InsertDocument(c) ==
    /\ req[c].at = "check"
    /\ KeyShareAvailable
    /\ \/ /\ status = "live"
          /\ docs' = [docs EXCEPT ![req[c].num] =
                         IF req[c].crossed THEN "stale" ELSE "fresh"]
          /\ Finish(c, "created")
       \/ /\ status = "deleted"
          /\ Finish(c, "failed")
          /\ UNCHANGED docs
    /\ UNCHANGED <<row, tx>>
-----------------------------------------------------------------------------
(* ResetCollection: one transaction that locks the row, deletes, inserts   *)
(* and sets the counter.                                                   *)
StartReset(c) ==
    /\ req[c].at = "idle"
    /\ status # "none"
    /\ UuidRoom
    /\ Begin(c, "lock")
    /\ UNCHANGED <<row, tx, docs>>

(* CollectionForReset and seedDocuments, which nothing can come between:   *)
(* a seed that fails rolls back a transaction that has written nothing.    *)
LockForReset(c) ==
    /\ req[c].at = "lock"
    /\ NobodyHolds
    /\ \/ status # "live" /\ Finish(c, "notFound") /\ UNCHANGED tx
       \/ status = "live" /\ SeedRefused(seed) /\ Finish(c, "refused") /\ UNCHANGED tx
       \/ status = "live" /\ SeedPanics(seed) /\ Finish(c, "panic") /\ UNCHANGED tx
       \/ /\ status = "live" /\ ~SeedRefused(seed) /\ ~SeedPanics(seed)
          /\ \E generated \in Generated(seed) : pending' = Stated(seed) \union generated
          /\ holder' = c
          /\ cleared' = {}
          /\ Step(c, "clear")
    /\ UNCHANGED <<row, docs>>

ClearDocuments(c) ==
    /\ req[c].at = "clear"
    /\ cleared' = {id \in Ids : Stored(id)}
    /\ Step(c, "fill")
    /\ UNCHANGED <<row, docs, holder, pending>>

(* insertDocuments waits for a create that entered one of the seed's       *)
(* identifiers in the index first.                                         *)
InsertDocuments(c) ==
    /\ req[c].at = "fill"
    /\ \A id \in pending : ~EntryPending(c, id)
    /\ Step(c, "commit")
    /\ UNCHANGED <<row, docs, tx>>

Release ==
    /\ holder' = Nobody
    /\ cleared' = {}
    /\ pending' = {}

(* SetNextSerial and the commit.  Every number handed out before, and      *)
(* every row version a statement waits for, is now of the past.            *)
CommitReset(c) ==
    /\ req[c].at = "commit"
    /\ docs' = [id \in Ids |-> IF id \in pending THEN "seed"
                               ELSE IF id \in cleared THEN "absent" ELSE docs[id]]
    /\ \E highest \in Highest(pending) : nextSerial' = NextSerialAfter(highest)
    /\ base' = nextSerial'
    /\ req' = [d \in Clients |->
                 IF d = c THEN Idle
                 ELSE [req[d] EXCEPT !.crossed =
                         @ \/ req[d].at \in {"insert", "check", "putBlocked", "deleteBlocked"}]]
    /\ answer' = [answer EXCEPT ![c] = "reset"]
    /\ Release
    /\ UNCHANGED <<status, seed, strategy>>

(* Any statement of a request can fail, with its connection or when its    *)
(* client goes away; the deferred Rollback then undoes a reset's delete.   *)
RollbackForgotten == UNCHANGED tx
Rollback == Release

Fail(c) ==
    /\ req[c].at # "idle"
    /\ Finish(c, "failed")
    /\ IF holder = c THEN Rollback ELSE UNCHANGED tx
    /\ UNCHANGED <<row, docs>>

(* A create holds an index entry the reset waits for, and itself waits for *)
(* the reset's row lock: the server fails one of the two.                  *)
Deadlocked(r, c) ==
    /\ holder = r
    /\ req[r].at = "fill"
    /\ req[c].at = "check"
    /\ req[c].num \in pending

BreakDeadlock(r, c) == Deadlocked(r, c) /\ (Fail(r) \/ Fail(c))
-----------------------------------------------------------------------------
(* CreateCollection commits the row, then resets it in a transaction of    *)
(* its own.  The name is unique in the project.                            *)
CreateCollection(c) ==
    /\ req[c].at = "idle"
    /\ \/ /\ status = "none"
          /\ UuidRoom
          /\ status' = "live"
          /\ seed' \in Seeds
          /\ strategy' \in Strategies
          /\ nextSerial' = 1
          /\ base' = 1
          /\ Begin(c, "lock")
       \/ /\ status = "live"
          /\ answer' = [answer EXCEPT ![c] = "exists"]
          /\ UNCHANGED <<row, req>>
    /\ UNCHANGED <<tx, docs>>

(* UpdateCollection touches neither the documents nor the counter.         *)
UpdateCollection(c) ==
    /\ req[c].at = "idle"
    /\ NobodyHolds
    /\ \/ /\ status = "live"
          /\ seed' \in Seeds
          /\ strategy' \in Strategies
          /\ answer' = [answer EXCEPT ![c] = "done"]
       \/ /\ status = "deleted"
          /\ answer' = [answer EXCEPT ![c] = "notFound"]
          /\ UNCHANGED <<seed, strategy>>
    /\ UNCHANGED <<status, nextSerial, base, tx, docs, req>>

(* DeleteCollection: the documents go by cascade.                          *)
DeleteCollection(c) ==
    /\ req[c].at = "idle"
    /\ NobodyHolds
    /\ \/ /\ status = "live"
          /\ status' = "deleted"
          /\ docs' = [id \in Ids |-> "absent"]
          /\ answer' = [answer EXCEPT ![c] = "done"]
       \/ /\ status = "deleted"
          /\ answer' = [answer EXCEPT ![c] = "notFound"]
          /\ UNCHANGED <<status, docs>>
    /\ UNCHANGED <<seed, strategy, nextSerial, base, tx, req>>
-----------------------------------------------------------------------------
(* ReplaceDocument and PatchDocument read the identifier field in one      *)
(* statement and write in a second.                                        *)
StartWrite(c) ==
    /\ req[c].at = "idle"
    /\ \/ /\ status = "live"
          /\ \E id \in Addressed :
                req' = [req EXCEPT ![c] = [Idle EXCEPT !.at = "put", !.num = id]]
          /\ answer' = [answer EXCEPT ![c] = "none"]
       \/ /\ status = "deleted"
          /\ Finish(c, "notFound")
    /\ UNCHANGED <<row, tx, docs>>

(* A row the reset has deleted: the statement found it and has to wait.    *)
WriteBlocks(c) ==
    /\ req[c].at = "put"
    /\ Deleting(req[c].num)
    /\ Step(c, "putBlocked")
    /\ UNCHANGED <<row, tx, docs>>

(* The row version the statement waited for is gone once a reset has       *)
(* committed, whatever document has the identifier now.                    *)
WriteDocument(c) ==
    /\ req[c].at \in {"put", "putBlocked"}
    /\ ~Deleting(req[c].num)
    /\ Finish(c, IF Stored(req[c].num) /\ ~req[c].crossed THEN "done" ELSE "notFound")
    /\ UNCHANGED <<row, tx, docs>>

DeleteBlocks(c) ==
    /\ req[c].at = "idle"
    /\ \E id \in Addressed :
          /\ Deleting(id)
          /\ req' = [req EXCEPT ![c] = [Idle EXCEPT !.at = "deleteBlocked", !.num = id]]
    /\ answer' = [answer EXCEPT ![c] = "none"]
    /\ UNCHANGED <<row, tx, docs>>

RemoveOrMiss(c, id, crossed) ==
    /\ ~Deleting(id)
    /\ IF Stored(id) /\ ~crossed
       THEN docs' = [docs EXCEPT ![id] = "absent"] /\ Finish(c, "done")
       ELSE UNCHANGED docs /\ Finish(c, "notFound")
    /\ UNCHANGED <<row, tx>>

DeleteDocument(c) ==
    \/ req[c].at = "idle" /\ status # "none" /\ \E id \in Addressed : RemoveOrMiss(c, id, FALSE)
    \/ req[c].at = "deleteBlocked" /\ RemoveOrMiss(c, req[c].num, req[c].crossed)
-----------------------------------------------------------------------------
(* ListDocuments, first page: one statement, and a second one to count     *)
(* when the first returned nothing.                                        *)
ListDocuments(c) ==
    /\ req[c].at = "idle"
    /\ status # "none"
    /\ IF \E id \in Ids : Stored(id)
       THEN UNCHANGED req /\ answer' = [answer EXCEPT ![c] = "done"]
       ELSE Begin(c, "count")
    /\ UNCHANGED <<row, tx, docs>>

CountDocuments(c) ==
    /\ req[c].at = "count"
    /\ Finish(c, IF \E id \in Ids : Stored(id) THEN "torn" ELSE "done")
    /\ UNCHANGED <<row, tx, docs>>
-----------------------------------------------------------------------------
Init ==
    /\ status = "none"
    /\ seed = <<>>
    /\ strategy = "serial"
    /\ nextSerial = 1
    /\ base = 1
    /\ docs = [id \in Ids |-> "absent"]
    /\ holder = Nobody
    /\ cleared = {}
    /\ pending = {}
    /\ req = [c \in Clients |-> Idle]
    /\ answer = [c \in Clients |-> "none"]

(* A new request of a client that has none in flight.                      *)
Arrive(c) ==
    \/ CreateCollection(c) \/ UpdateCollection(c) \/ DeleteCollection(c)
    \/ StartCreate(c) \/ StartReset(c) \/ StartWrite(c) \/ DeleteBlocks(c)
    \/ ListDocuments(c)

(* The next statement of a request in flight.                              *)
Proceed(c) ==
    \/ AllocateDocumentID(c) \/ EnterIndex(c) \/ UniqueViolation(c) \/ InsertDocument(c)
    \/ LockForReset(c) \/ ClearDocuments(c) \/ InsertDocuments(c) \/ CommitReset(c)
    \/ WriteBlocks(c) \/ WriteDocument(c) \/ CountDocuments(c)

Next ==
    \E c \in Clients : Arrive(c) \/ Proceed(c) \/ DeleteDocument(c) \/ Fail(c)

Spec == Init /\ [][Next]_vars
-----------------------------------------------------------------------------
TypeOK ==
    /\ status \in {"none", "live", "deleted"}
    /\ seed \in Seeds \union {<<>>}
    /\ strategy \in {"serial", "uuid"}
    /\ nextSerial \in Serials
    /\ base \in Serials
    /\ docs \in [Ids -> Origins]
    /\ holder \in Clients \union {Nobody}
    /\ cleared \in SUBSET Ids
    /\ pending \in SUBSET Ids
    /\ req \in [Clients -> Requests]
    /\ answer \in [Clients -> Answers]
-----------------------------------------------------------------------------
(* Whatever the statements interleave with, a reader sees the documents    *)
(* change by one at a time or be restored as a whole: the row lock keeps   *)
(* every create's commit out of the window between the reset's delete and  *)
(* its commit (ResetCollection, AllocateDocumentID, the foreign key).      *)
Readers == INSTANCE DocumentSet WITH
               phase <- status, contents <- {id \in Ids : Stored(id)}

ImplementsDocumentSet == Readers!Spec

Settled(id) == docs[id] \in {"seed", "fresh"}

(* The counter is past every document whose number was settled since the   *)
(* last reset, unless that reset wrapped it around: what nextSerialAfter   *)
(* and the one-statement AllocateDocumentID are together for.  It is not   *)
(* said of the documents of creates a reset overtook, and cannot be: see   *)
(* CounterPointsAtNothing.                                                 *)
CounterPastSettled ==
    base > 0 => \A n \in Serials : Settled(n) => n < nextSerial

Claims(c, id) ==
    req[c].at \in {"insert", "check"} /\ req[c].num = id /\ ~req[c].crossed

(* A number handed out since the last reset is its holder's alone: no      *)
(* other create has it, and no document has it that a seed named or that   *)
(* was numbered since that reset.  CreateDocument, as long as no reset     *)
(* overtakes it, so retries against the document of another create that a  *)
(* reset overtook, and against nothing else; a create that is overtaken    *)
(* itself may meet what the reset has seeded.                              *)
ClaimedNumberIsFree ==
    \A c \in Clients, n \in Serials :
        Claims(c, n) /\ base > 0 =>
            /\ n < nextSerial
            /\ ~Settled(n)
            /\ \A d \in Clients \ {c} : ~Claims(d, n)

(* A request in flight is answered in the end, through every wait for the  *)
(* row, for an index entry and for a deleted document.  PostgreSQL queues  *)
(* the waiters of a lock, so that none is passed over for ever, and breaks *)
(* a cycle of them.                                                        *)
EveryRequestAnswered ==
    \A c \in Clients : req[c].at # "idle" ~> req[c].at = "idle"

NextStatement(c) ==
    Proceed(c) \/ (req[c].at = "deleteBlocked" /\ DeleteDocument(c))

Fairness ==
    \A c \in Clients :
        /\ SF_vars(NextStatement(c))
        /\ WF_vars(\E r \in Clients : BreakDeadlock(r, c))

FairSpec == Spec /\ Fairness
-----------------------------------------------------------------------------
(* The inductive invariant behind the three safety properties.             *)

(* A retry is only ever asked for while attempts are left.                 *)
TriesLeft == \A c \in Clients : req[c].at = "allocate" => req[c].tries < Attempts

(* The identifier a request works on is one.                               *)
NumberKnown ==
    \A c \in Clients :
        req[c].at \in {"insert", "check", "put", "putBlocked", "deleteBlocked"}
            => req[c].num \in Ids

(* Nothing happens to a collection before it exists, and a deleted one is  *)
(* empty.                                                                  *)
EmptyUnlessLive ==
    /\ status # "live" => holder = Nobody /\ \A id \in Ids : ~Stored(id)
    /\ status = "none" => \A c \in Clients : req[c] = Idle

(* The row lock is held by the one reset between its first and last step.  *)
LockHeldByReset ==
    \A c \in Clients : req[c].at \in {"clear", "fill", "commit"} <=> holder = c

(* What that reset is to insert is a seeding of the seed it read, which    *)
(* nobody can edit meanwhile.                                              *)
PendingSeedsRow ==
    holder # Nobody =>
        /\ Stated(seed) = Readers!Named(seed)
        /\ Stated(seed) \subseteq pending
        /\ Cardinality(pending \ Stated(seed)) = Cardinality(Open(seed))

(* What it has deleted is everything there is: no create commits and no    *)
(* other delete gets through before it does.                               *)
ClearedIsAll ==
    ResetAt({"fill", "commit"}) => \A id \in Ids : Stored(id) <=> id \in cleared

(* A create's index entry is of an identifier no document has, no other    *)
(* entry is of, and no reset past its insert is about to commit.           *)
EntriesAreUnique ==
    \A c \in Clients :
        req[c].at = "check" =>
            /\ ~Stored(req[c].num)
            /\ ~EntryPending(c, req[c].num)

CollectionIInv ==
    /\ TypeOK
    /\ TriesLeft
    /\ NumberKnown
    /\ EmptyUnlessLive
    /\ LockHeldByReset
    /\ PendingSeedsRow
    /\ ClearedIsAll
    /\ EntriesAreUnique
    /\ CounterPastSettled
    /\ ClaimedNumberIsFree
-----------------------------------------------------------------------------
(* What comments of the code say, and the code does not do.                *)

(* "The seed is applied immediately, so a collection is never created      *)
(* empty when it was given something to hold" (CreateCollection): judged   *)
(* when every request has been answered, or has panicked, and nothing was  *)
(* ever removed.                                                           *)
NeverCreatedEmpty ==
    (/\ status = "live" /\ seed # <<>>
     /\ \A c \in Clients : req[c].at = "idle"
     /\ \A c \in Clients : answer[c] \in {"none", "refused", "panic"})
        => \E id \in Ids : Stored(id)

(* "The lock is what stops two resets - or a reset and a create - from     *)
(* interleaving their identifier allocation and leaving the counter        *)
(* pointing at an id that already exists" (CollectionForReset): within the *)
(* range, the number the next create is to get is no document's.           *)
CounterPointsAtNothing ==
    status = "live" /\ strategy = "serial" /\ base > 0 => ~Stored(nextSerial)
=============================================================================
