----------------------------- MODULE MCServices -----------------------------
(***************************************************************************)
(* What must never go wrong, in the parts of the server that share nothing *)
(* with one another, each with a small instance: the rate limiters, the    *)
(* client's address, accounts with their sessions and tokens, the          *)
(* definitions owners edit, the rows of the request log in a browser, and  *)
(* the route a mock request is matched to.                                 *)
(*                                                                         *)
(* They are put side by side, not composed.  A behaviour picks one at its  *)
(* start ("focus"), whose steps are the only ones there are, so that the   *)
(* states of the run are the sum of the parts' states and not their        *)
(* product.                                                                *)
(***************************************************************************)
EXTENDS RateLimits, MCAddress, Accounts, Definitions, LogTail, MCMatcher, TLC

CONSTANTS
    a1, p1, nowhere, t1,
    o1, o2, q1, q2, c1, c2, e1, s1, s2, n1, z1, r1

VARIABLE focus

restVars == <<tailVars, matcherVars, focus>>

serverVars == <<limitsVars, addressVars, accountsVars, definitionsVars>>

allVars == <<serverVars, restVars>>

LimitsStep ==
    /\ focus = "limits" /\ LimitsNext
    /\ UNCHANGED <<addressVars, accountsVars, definitionsVars, restVars>>

AddressStep ==
    /\ focus = "address" /\ AddressNext
    /\ UNCHANGED <<limitsVars, accountsVars, definitionsVars, restVars>>

AccountsStep ==
    /\ focus = "accounts" /\ AccountsNext
    /\ UNCHANGED <<limitsVars, addressVars, definitionsVars, restVars>>

DefinitionsStep ==
    /\ focus = "definitions" /\ DefinitionsNext
    /\ UNCHANGED <<limitsVars, addressVars, accountsVars, restVars>>

TailStep ==
    /\ focus = "tail" /\ TailNext
    /\ UNCHANGED <<serverVars, matcherVars, focus>>

MatcherStep ==
    /\ focus = "matcher" /\ MatcherNext
    /\ UNCHANGED <<serverVars, tailVars, focus>>

(* A table with the last of the rows in it is built.                       *)
TableBuilt ==
    /\ focus = "matcher" /\ Len(Rows) \in read
    /\ UNCHANGED allVars

(* Two ways to switch the limiters on: one behind the other, and alone.    *)
Configurations == {{"api"}, {"mockIP", "mockProject"}}

(* What owners have defined by the time the requests of the run begin: one *)
(* bare project, or two with a collection of one name in each, and then an *)
(* endpoint or not.  Any of it takes only requests that end one by one.    *)
Row(o, s) == [owner |-> o, slug |-> s, name |-> n1]

Populated ==
    /\ \/ /\ projects = q1 :> Row(o1, s1)
          /\ collections = <<>> /\ endpoints = <<>>
       \/ /\ \E o \in {o1, o2} : projects = q1 :> Row(o1, s1) @@ q2 :> Row(o, s2)
          /\ LET items(q) == [project |-> q, name |-> n1, seed |-> z1]
                 at(c) == [project |-> q1, route |-> r1, serves |-> c]
             IN  /\ collections = c1 :> items(q1) @@ c2 :> items(q2)
                 /\ endpoints \in {<<>>, e1 :> at(None), e1 :> at(c1)}
    /\ issued = DOMAIN projects \union DOMAIN collections \union DOMAIN endpoints
    /\ edits = [d \in Editors |-> None]
    /\ begun = 0

Init ==
    /\ focus \in {"limits", "address", "accounts", "definitions", "tail", "matcher"}
    /\ LimitsInit /\ AddressInit /\ AccountsInit /\ TailInit /\ MatcherInit
    /\ IF focus = "definitions" THEN Populated ELSE DefinitionsInit
    /\ IF focus = "limits" THEN enabled \in Configurations ELSE enabled = {}
    /\ focus # "address" => header = <<>> /\ peer = CHOOSE s \in Strangers : TRUE

Next ==
    \/ LimitsStep \/ AddressStep \/ AccountsStep \/ DefinitionsStep
    \/ TailStep \/ MatcherStep \/ TableBuilt

Spec == Init /\ [][Next]_allVars

(* Of the variables that move, which are the ones of the part in focus.    *)
TypeOK ==
    CASE focus = "limits" -> LimitsIInv
      [] focus = "address" -> AddressIInv
      [] focus = "accounts" -> AccountsIInv
      [] focus = "definitions" -> DefinitionsIInv
      [] focus = "tail" -> TailIInv
      [] focus = "matcher" -> MatcherIInv

(* Requests are alike, and the same two of them play in every part; so are *)
(* users.                                                                  *)
Interchangeable == Permutations(Handlers) \union Permutations(Users)
=============================================================================
