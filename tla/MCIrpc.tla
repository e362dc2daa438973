------------------------------- MODULE MCIrpc -------------------------------
(***************************************************************************)
(* Instances of Irpc for TLC.                                              *)
(***************************************************************************)
EXTENDS IrpcInv, TLC

CONSTANTS d1, d2, d3, vp

\* Bus and address of a device as linux_usbfs packs them, scaled down: d3 may be
\* given the address of d1 once that is gone, and narrowed to an int of three
\* bits the identifier of d2 is theirs too.
MCSession == d1 :> 1 @@ d2 :> 9 @@ d3 :> 1
MCVidPid  == d1 :> vp @@ d2 :> vp @@ d3 :> vp

\* d1 and d3 differ in nothing.
MCSymmetry == Permutations({d1, d3})

\* a Darwin location whose top bit is set, with an int of three bits
MCWideSession == d1 :> 5

MCOneSession == d1 :> 1
MCOneVidPid  == d1 :> vp
=============================================================================
