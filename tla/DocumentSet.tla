---------------------------- MODULE DocumentSet ----------------------------
(***************************************************************************)
(* What a collection promises its readers: a set of identifiers that       *)
(* changes by one document at a time, or as a whole to what the seed       *)
(* describes, and never to anything in between.  Collection implements     *)
(* this with PostgreSQL statements that other requests interleave with.    *)
(***************************************************************************)
EXTENDS FiniteSets

CONSTANTS
    Ids,        \* every identifier a document can have
    Seeds,      \* the seeds an owner can save: sequences of entries
    Unstated    \* the entry of a seed document that names no identifier

VARIABLES
    phase,      \* "none" before the collection exists, then "live", then "deleted"
    seed,       \* the seed as last saved
    contents    \* the identifiers a reader finds

vars == <<phase, seed, contents>>

(* The identifiers a seed names, and those it leaves to the server.        *)
Named(s) == {s[i] : i \in DOMAIN s} \ {Unstated}

Unnamed(s) == {i \in DOMAIN s : s[i] = Unstated}

Init ==
    /\ phase = "none"
    /\ seed = <<>>
    /\ contents = {}

Define ==
    /\ phase = "none"
    /\ phase' = "live"
    /\ seed' \in Seeds
    /\ UNCHANGED contents

Edit ==
    /\ phase = "live"
    /\ seed' \in Seeds
    /\ UNCHANGED <<phase, contents>>

(* A create is given an identifier nobody else holds.                      *)
Add ==
    /\ phase = "live"
    /\ \E id \in Ids \ contents : contents' = contents \union {id}
    /\ UNCHANGED <<phase, seed>>

Remove ==
    /\ phase = "live"
    /\ \E id \in contents : contents' = contents \ {id}
    /\ UNCHANGED <<phase, seed>>

(* A reset leaves what the seed names, plus as many identifiers of the     *)
(* server's choosing as it left open, and nothing that was there before.   *)
Restore ==
    /\ phase = "live"
    /\ contents' \in SUBSET Ids
    /\ Named(seed) \subseteq contents'
    /\ Cardinality(contents' \ Named(seed)) = Cardinality(Unnamed(seed))
    /\ UNCHANGED <<phase, seed>>

Drop ==
    /\ phase = "live"
    /\ phase' = "deleted"
    /\ contents' = {}
    /\ UNCHANGED seed

Next == Define \/ Edit \/ Add \/ Remove \/ Restore \/ Drop

Spec == Init /\ [][Next]_vars
=============================================================================
