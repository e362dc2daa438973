-------------------------- MODULE MCIrpcRefinement --------------------------
(***************************************************************************)
(* An instance of IrpcRefinement for TLC.                                  *)
(***************************************************************************)
EXTENDS IrpcRefinement, TLC

CONSTANTS d1, vp

MCSession == d1 :> 1
MCVidPid  == d1 :> vp
=============================================================================
