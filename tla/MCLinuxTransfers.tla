--------------------------- MODULE MCLinuxTransfers ---------------------------
(* Lists of up to four packets of which two, one or none fit in an URB. *)
EXTENDS LinuxTransfers, SequencesExt
MCPacketLists == SeqOf({1, 2, 3}, 3) \cup {<<1, 1, 1, 1>>, <<2, 1, 1, 2>>, <<4, 1>>}
=============================================================================
