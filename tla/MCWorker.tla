------------------------------ MODULE MCWorker ------------------------------
(* Model values for Worker: every source, two frequencies.                 *)
EXTENDS Worker

AllSources == {"dev", "rtltcp", "file"}

MCFrequencies == {"f87_9", "f101_1"}

MCScanBegin == "f87_9"
=============================================================================
