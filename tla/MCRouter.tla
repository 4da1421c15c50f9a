------------------------------ MODULE MCRouter ------------------------------
(***************************************************************************)
(* A small instance of Router for TLC: two projects, one with an endpoint  *)
(* each, and two slugs for them to change places under.                    *)
(***************************************************************************)
EXTENDS Router, TLC

CONSTANTS h1, h2, shop, store, p1, p2, e1, e2

MCHandlers == {h1, h2}
MCProjects == {p1, p2}
MCSlugs == {shop, store}
MCEndpoints == {e1, e2}
MCProjectOf == (e1 :> p1) @@ (e2 :> p2)
=============================================================================
