---------------------------- MODULE MCFixedData ----------------------------
(***************************************************************************)
(* Two subchannels: one shorter than a block and prime to it, so that      *)
(* blocks and frames lie across PDUs in every way, and one of two blocks,  *)
(* whose frames begin and end within one PDU.                              *)
(***************************************************************************)
EXTENDS FixedData

MCLengths == (0 :> 0) @@ (1 :> 5) @@ (2 :> 0) @@ (3 :> 6)
=============================================================================
