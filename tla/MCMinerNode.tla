------------------------------ MODULE MCMinerNode ------------------------------
(***************************************************************************)
(* MinerNode with WebSocket threads that may change places: none of its    *)
(* definitions tells one from another.                                     *)
(***************************************************************************)
EXTENDS MinerNode, TLC

Interchangeable == Permutations(Ws)
===============================================================================
