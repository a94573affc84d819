------------------------------- MODULE MCSync -------------------------------
(* Model values for Sync.                                                  *)
EXTENDS Sync

BothModes == {"FM", "AM"}

OnlyAM == {"AM"}
=============================================================================
