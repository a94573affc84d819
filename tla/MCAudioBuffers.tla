--------------------------- MODULE MCAudioBuffers ---------------------------
(* Model values for AudioBuffers: every way to start the program, and the  *)
(* one in which a key can meet a waiting decoder.                          *)
EXTENDS AudioBuffers

MCPrograms == {0, 1}

AllModes == [pipe : BOOLEAN, tty : BOOLEAN]

FileWithKeys == {m \in AllModes : m.pipe /\ m.tty}
=============================================================================
