------------------------------ MODULE MCServer ------------------------------
(***************************************************************************)
(* An instance of Server for TLC: two clients for one slot, one of which   *)
(* sends ahead, or a client and a console that is sent lines ahead.        *)
(***************************************************************************)
EXTENDS Server, TLC

CONSTANTS c1, c2

MCLoads == {c1 :> 1 @@ c2 :> 0, c1 :> 3, Console :> 2}
=============================================================================
