----------------------------- MODULE AudioQueue -----------------------------
(***************************************************************************)
(* What the pool of audio buffers of src/main.c promises to the decoder    *)
(* that fills it and to the thread that plays it, with no threads, no      *)
(* locks and no pointers: a fixed set of buffers, each of which is         *)
(* available, queued or being played; queued buffers are played in the     *)
(* order in which they were filled; a change of program empties the queue. *)
(*                                                                         *)
(* AudioBuffers is the detailed specification that implements this one.    *)
(***************************************************************************)
EXTENDS Naturals, Sequences

CONSTANTS
  Buffers,    (* the buffers of the pool                                   *)
  Programs,   (* the programs a station may carry                          *)
  NoProgram,  (* the program no packet has: what 'q' selects               *)
  NoBuffer    (* nothing is being played                                   *)

VARIABLES
  available,  (* buffers that may be filled                                *)
  queue,      (* filled buffers, the next one to play first                *)
  playing,    (* the buffer ao_play is reading, or NoBuffer                *)
  samples,    (* whose audio a buffer holds                                *)
  program     (* the program the user listens to                           *)

avars == <<available, queue, playing, samples, program>>

Queued == {queue[i] : i \in 1..Len(queue)}

AInit ==
  /\ available = Buffers
  /\ queue = <<>>
  /\ playing = NoBuffer
  /\ samples = [b \in Buffers |-> NoProgram]
  /\ program \in Programs

(* An available buffer receives the audio of program p and goes last.      *)
Fill(b, p) ==
  /\ b \in available
  /\ available' = available \ {b}
  /\ queue' = Append(queue, b)
  /\ samples' = [samples EXCEPT ![b] = p]
  /\ UNCHANGED <<playing, program>>

(* Playback takes the buffer that has waited longest.                      *)
Play ==
  /\ playing = NoBuffer
  /\ queue # <<>>
  /\ playing' = Head(queue)
  /\ queue' = Tail(queue)
  /\ UNCHANGED <<available, samples, program>>

(* A buffer that has been played can be filled again.                      *)
Recycle ==
  /\ playing # NoBuffer
  /\ available' = available \cup {playing}
  /\ playing' = NoBuffer
  /\ UNCHANGED <<queue, samples, program>>

(* Selecting a program (NoProgram to quit) throws away what was queued.    *)
Select(p) ==
  /\ program' = p
  /\ available' = available \cup Queued
  /\ queue' = <<>>
  /\ UNCHANGED <<playing, samples>>

(* The program ends and returns the memory of the available buffers.       *)
Discard(b) ==
  /\ b \in available
  /\ available' = available \ {b}
  /\ UNCHANGED <<queue, playing, samples, program>>

ANext ==
  \/ \E b \in Buffers, p \in Programs : Fill(b, p)
  \/ Play
  \/ Recycle
  \/ \E p \in Programs \cup {NoProgram} : Select(p)
  \/ \E b \in Buffers : Discard(b)

ASpec == AInit /\ [][ANext]_avars
=============================================================================
