--------------------------- MODULE MCEpollServer ---------------------------
(***************************************************************************)
(* Instances of EpollServer for TLC.                                       *)
(***************************************************************************)
EXTENDS EpollServer, TLC

ConnSymmetry == Permutations(Conns)
=============================================================================
