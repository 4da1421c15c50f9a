---------------------------- MODULE MCCollection ----------------------------
(***************************************************************************)
(* Small instances of Collection for TLC.                                  *)
(***************************************************************************)
EXTENDS Collection, TLC

CONSTANTS c1, c2, c3, slug, u1, u2, u3

MCTwo == {c1, c2}
MCThree == {c1, c2, c3}
Interchangeable == Permutations(Clients) \union Permutations(Uuids)

NoUuids == {}
ThreeUuids == {u1, u2, u3}

(* A seed without documents, one that leaves an identifier open beside one *)
(* it states, and one that states text.                                    *)
SerialSeeds == {<<>>, <<1, Unstated>>, <<slug, 2>>}

(* One that works, and two that validateSeed accepts and seedDocuments     *)
(* does not.                                                               *)
UuidSeeds == {<<1, Unstated>>, <<1, 1>>, <<NullEntry, slug>>}

(* The seeds in use under each strategy, and a collection that keeps to    *)
(* the strategy it was created with.                                       *)
SeedsOf == [serial |-> SerialSeeds, uuid |-> UuidSeeds]
AllSeeds == SerialSeeds \union UuidSeeds

KeepsStrategy ==
    status' # "none" =>
        /\ seed' \in SeedsOf[strategy']
        /\ status = "none" \/ strategy' = strategy

OneStrategySpec == Init /\ [][Next /\ KeepsStrategy]_vars

(* Seeds validateSeed accepts and seedDocuments does not.                  *)
BadSeeds == {<<1, 1>>, <<BadId>>, <<NullEntry>>}
OneSeed == {<<1>>}

(* No seed at all, so that no document is ever a seeded one.               *)
NoSeeds == {<<>>}
=============================================================================
