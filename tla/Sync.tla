-------------------------------- MODULE Sync --------------------------------
(***************************************************************************)
(* The synchronisation chain of a session: src/acquire.c finds the         *)
(* symbols, src/sync.c the blocks of 32 symbols and their count in an L1   *)
(* frame, src/decode.c collects blocks into P1 and P3 frames, and          *)
(* src/frame.c gives synchronisation up when a P1 frame makes no sense.    *)
(* input.sync_state ties them together.  One step is one run of            *)
(* acquire_process, which hands exactly one block to sync_process_fm or    *)
(* sync_process_am.                                                        *)
(*                                                                         *)
(* Samples are abstracted to what these functions learn from them: whether *)
(* the signal is good, and which block the transmitter is sending when the *)
(* receiver's blocks are aligned to it.  The service mode has a P3 channel *)
(* (MP2, MP3, MP11, MA1 or MA3 without reduced bandwidth).                 *)
(***************************************************************************)
EXTENDS Integers

CONSTANTS
  Modes,       (* NRSC5_MODE_FM, NRSC5_MODE_AM                              *)
  FMBlocks,    (* blocks in an FM frame, 16                                 *)
  AMBlocks,    (* blocks in an AM frame, 8                                  *)
  Depth,       (* pairs of blocks that fill interleaver IV, 16              *)
  Diversity,   (* frames decode_reset has an AM decoder wait for, 4         *)
  CfoWait,     (* blocks to wait after a realignment, 8                     *)
  MaxUpsets    (* bound: losses of samples and resets                       *)

ASSUME ModesAssumption == Modes \subseteq {"FM", "AM"}
ASSUME BlocksAssumption ==
  /\ FMBlocks \in Nat \ {0, 1} /\ FMBlocks % 2 = 0
  /\ AMBlocks \in Nat /\ AMBlocks > 3
ASSUME DepthAssumption == Depth \in Nat \ {0} /\ Diversity \in Nat \ {0}
ASSUME WaitAssumption == CfoWait \in Nat \ {0} /\ MaxUpsets \in Nat

VARIABLES
  mode,
  sync_state,  (* "none", "coarse" or "fine"                                *)
  cfo_wait,    (* kept at -1 once it is below zero                          *)
  bc,
  offset_history, (* how many of the last counts are the end of a frame and
                     the start of the next (AM): 0x5670 is 4               *)
  started,     (* decode.started_pm                                         *)
  px1,         (* decode.interleaver_px1: started, ready and its fill, in
                  pairs of blocks                                          *)
  wait,        (* decode.am_diversity_wait                                  *)
  heard,       (* the blocks pushed since decode_reset: how many, and how
                  many of the latest in a row were right and wrong         *)
  p1, p3,      (* what this block completed                                 *)
  tx,          (* the block the transmitter is sending, -1: not aligned     *)
  signal, upsets

decoder == <<started, px1, wait, heard>>
frames == <<p1, p3>>
air == <<mode, tx, signal, upsets>>
vars == <<sync_state, cfo_wait, bc, offset_history, decoder, frames, air>>

Blocks == IF mode = "FM" THEN FMBlocks ELSE AMBlocks
Last == Blocks - 1

(* The latest blocks that make or break the P1 frame decoded at block b.   *)
(* An AM frame was sent in the Diversity frames before this one.           *)
Span(b) == IF mode = "FM" THEN FMBlocks ELSE Diversity * AMBlocks + b + 1

Minimum(m, n) == IF m < n THEN m ELSE n

(* Bound of heard: past it nothing changes any more.                       *)
Enough ==
  LET fm == 2 * FMBlocks + 2 * Depth  am == (Diversity + 1) * AMBlocks
  IN  IF fm > am THEN fm ELSE am

One(n) == Minimum(n + 1, Enough)

-----------------------------------------------------------------------------
(* decode_reset                                                            *)

Fresh == [started |-> FALSE, ready |-> FALSE, i |-> 0]

Nothing == [n |-> 0, right |-> 0, wrong |-> 0]

(* Mutant: decode_reset leaves the interleavers alone (569-570 missing).   *)
ResetKeepsInterleaver(reset) ==
  IF reset THEN [started |-> FALSE, px1 |-> px1, wait |-> Diversity, heard |-> Nothing]
           ELSE [started |-> started, px1 |-> px1, wait |-> wait, heard |-> heard]

(* What the decoder is before a block: as it was, or reset by the block    *)
(* that found synchronisation.                                             *)
Decoder(reset) ==
  IF reset THEN [started |-> FALSE, px1 |-> Fresh, wait |-> Diversity, heard |-> Nothing]
           ELSE [started |-> started, px1 |-> px1, wait |-> wait, heard |-> heard]

Hear(h, right) ==
  [n |-> One(h.n),
   right |-> IF right THEN One(h.right) ELSE 0,
   wrong |-> IF right THEN 0 ELSE One(h.wrong)]

(* frame_process on a P1 frame: its first header is repaired if the blocks *)
(* it came in were all right, beyond repair if they were all wrong.        *)
P1Frame(h, b) ==
  {o \in {"audio", "failed"} : /\ o = "audio" => h.wrong < Span(b)
                               /\ o = "failed" => h.right < Span(b)}

-----------------------------------------------------------------------------
(* decode_push_px1                                                         *)
PushPX1(x, b) ==
  LET second == x.started /\ b % 2 = 1
  IN  /\ px1' = [started |-> x.started \/ b % 2 = 0,
                 ready |-> x.ready \/ (second /\ x.i = Depth),
                 i |-> IF second THEN (x.i % Depth) + 1 ELSE x.i]
      /\ p3' = (second /\ px1'.ready)

(* Mutant: synchronisation is not given up (frame.c 538-539 missing).      *)
DecodeKeepsSync(b, reset) ==
  LET d == Decoder(reset)
      h == Hear(d.heard, signal = "good" /\ tx = b)
  IN  /\ started' = (d.started \/ b = 0)
      /\ heard' = h /\ wait' = d.wait
      /\ p1' \in IF started' /\ b = Last THEN P1Frame(h, b) ELSE {"none"}
      /\ PushPX1(d.px1, b)
      /\ sync_state' = "fine"
      /\ bc' = (b + 1) % Blocks

(* decode_push_pm, decode_push_px1 and, at the end of a frame,             *)
(* frame_process.                                                          *)
DecodeFM(b, reset) ==
  LET d == Decoder(reset)
      h == Hear(d.heard, signal = "good" /\ tx = b)
  IN  /\ started' = (d.started \/ b = 0)
      /\ heard' = h /\ wait' = d.wait
      /\ p1' \in IF started' /\ b = Last THEN P1Frame(h, b) ELSE {"none"}
      /\ PushPX1(d.px1, b)
      /\ sync_state' = IF p1' = "failed" THEN "none" ELSE "fine"
      /\ bc' = (b + 1) % Blocks

(* decode_push_pl_pu_s_t: while nothing has to be waited for, every block  *)
(* brings a P1 frame of the frame before, and the last one a P3 frame.     *)
DecodeAM(b, reset) ==
  LET d == Decoder(reset)
      h == Hear(d.heard, signal = "good" /\ tx = b)
  IN  /\ started' = d.started /\ px1' = d.px1
      /\ heard' = h
      /\ wait' = IF b = Last /\ d.wait > 0 THEN d.wait - 1 ELSE d.wait
      /\ p1' \in IF d.wait = 0 THEN P1Frame(h, b) ELSE {"none"}
      /\ p3' = (d.wait = 0 /\ b = Last)
      /\ sync_state' = IF p1' = "failed" THEN "none" ELSE "fine"
      /\ bc' = (b + 1) % Blocks

(* A block that finds no synchronisation; acquire_process has made "none"  *)
(* "coarse" before it.                                                     *)
NotFound ==
  /\ sync_state' = "coarse"
  /\ p1' = "none" /\ p3' = FALSE
  /\ UNCHANGED <<bc, decoder>>

(* What the reference subcarriers of a block may tell: its count, or, -1,  *)
(* nothing.  Noise may tell anything.                                      *)
MayTell(b) == signal = "bad" \/ b = tx

Going == tx' = IF tx = -1 THEN -1 ELSE (tx + 1) % Blocks

(* acquire_keep_extra: the next block begins where one is sent.            *)
Realigned == tx' \in IF signal = "bad" THEN -1..Last ELSE 0..Last

-----------------------------------------------------------------------------
(* sync_process_fm                                                         *)

(* Mutant: the wait counts down in every block, as it does in AM.          *)
FineCountsDown ==
  /\ mode = "FM" /\ sync_state = "fine"
  /\ DecodeFM(bc, FALSE)
  /\ Going
  /\ cfo_wait' = cfo_wait - 1
  /\ UNCHANGED <<mode, offset_history, signal, upsets>>

FineFM ==
  /\ mode = "FM" /\ sync_state = "fine"
  /\ DecodeFM(bc, FALSE)
  /\ Going
  /\ UNCHANGED <<mode, cfo_wait, offset_history, signal, upsets>>

(* Enough references, and most of them agree.                              *)
Agree(b) ==
  /\ mode = "FM" /\ sync_state # "fine"
  /\ MayTell(b)
  /\ DecodeFM(b, TRUE)
  /\ Going
  /\ UNCHANGED <<mode, cfo_wait, offset_history, signal, upsets>>

(* Enough references, and no majority; or too few of them, and detect_cfo  *)
(* finds nothing either.                                                   *)
Noise ==
  /\ mode = "FM" /\ sync_state # "fine"
  /\ signal = "bad"
  /\ NotFound
  /\ Going
  /\ UNCHANGED <<mode, cfo_wait, offset_history, signal, upsets>>

DetectCfo ==
  /\ mode = "FM" /\ sync_state # "fine"
  /\ MayTell(-1)
  /\ cfo_wait = 0 /\ cfo_wait' = CfoWait
  /\ Realigned
  /\ NotFound
  /\ UNCHANGED <<mode, offset_history, signal, upsets>>

(* Mutant: every block without references starts the wait afresh.          *)
WaitAfresh ==
  /\ mode = "FM" /\ sync_state # "fine"
  /\ MayTell(-1)
  /\ cfo_wait # 0 /\ cfo_wait' = CfoWait
  /\ NotFound
  /\ Going
  /\ UNCHANGED <<mode, offset_history, signal, upsets>>

WaitCfo ==
  /\ mode = "FM" /\ sync_state # "fine"
  /\ MayTell(-1)
  /\ cfo_wait # 0 /\ cfo_wait' = cfo_wait - 1
  /\ NotFound
  /\ Going
  /\ UNCHANGED <<mode, offset_history, signal, upsets>>

-----------------------------------------------------------------------------
(* sync_process_am                                                         *)

(* cfo_wait goes down in every block but the one that may realign, and     *)
(* never comes back to zero by itself.                                     *)
CountDown == cfo_wait' = IF cfo_wait = -1 THEN -1 ELSE cfo_wait - 1

Realign ==
  \/ /\ cfo_wait = 0
     /\ tx = -1 \/ signal = "bad"
     /\ cfo_wait' = CfoWait /\ Realigned
  \/ /\ cfo_wait = 0
     /\ tx # -1 \/ signal = "bad"
     /\ UNCHANGED cfo_wait /\ Going
  \/ /\ cfo_wait # 0
     /\ CountDown /\ Going

(* The counts 5, 6, 7, 0 in a row.                                         *)
History(b) ==
  IF b = (AMBlocks - 3 + offset_history) % AMBlocks THEN offset_history + 1
  ELSE IF b = AMBlocks - 3 THEN 1 ELSE 0

CoarseAM(b) ==
  /\ mode = "AM" /\ sync_state # "fine"
  /\ Realign
  /\ MayTell(b)
  /\ IF History(b) = 4 THEN offset_history' = 0 /\ DecodeAM(0, TRUE)
                       ELSE offset_history' = History(b) /\ NotFound
  /\ UNCHANGED <<mode, signal, upsets>>

FineAM ==
  /\ mode = "AM" /\ sync_state = "fine"
  /\ CountDown
  /\ DecodeAM(bc, FALSE)
  /\ Going
  /\ UNCHANGED <<mode, offset_history, signal, upsets>>

-----------------------------------------------------------------------------
(* input_reset, for nrsc5_set_frequency, and for nrsc5_set_mode with       *)
(* another mode.                                                           *)
input_reset(m) ==
  /\ upsets < MaxUpsets /\ upsets' = upsets + 1
  /\ mode' = m
  /\ tx' \in -1..(IF m = "FM" THEN FMBlocks ELSE AMBlocks) - 1
  /\ sync_state' = "none" /\ cfo_wait' = 0 /\ offset_history' = 0
  /\ started' = FALSE /\ px1' = Fresh /\ wait' = Diversity /\ heard' = Nothing
  /\ p1' = "none" /\ p3' = FALSE
  /\ UNCHANGED <<bc, signal>>

(* Fading, and samples that never reach the receiver.                      *)
Fade ==
  /\ signal' = IF signal = "good" THEN "bad" ELSE "good"
  /\ UNCHANGED <<sync_state, cfo_wait, bc, offset_history, decoder, frames,
                 mode, tx, upsets>>

Slip ==
  /\ upsets < MaxUpsets /\ upsets' = upsets + 1
  /\ tx' \in -1..Last
  /\ UNCHANGED <<sync_state, cfo_wait, bc, offset_history, decoder, frames,
                 mode, signal>>

Init ==
  /\ mode \in Modes
  /\ sync_state = "none" /\ cfo_wait = 0 /\ bc = 0 /\ offset_history = 0
  /\ started = FALSE /\ px1 = Fresh /\ wait = Diversity /\ heard = Nothing
  /\ p1 = "none" /\ p3 = FALSE
  /\ tx \in -1..Last /\ signal \in {"good", "bad"} /\ upsets = 0

BlockFM == FineFM \/ (\E b \in 0..Last : Agree(b)) \/ Noise \/ DetectCfo \/ WaitCfo

BlockAM == FineAM \/ \E b \in -1..Last : CoarseAM(b)

Block == BlockFM \/ BlockAM

Next == Block \/ (\E m \in Modes : input_reset(m)) \/ Fade \/ Slip

Spec == Init /\ [][Next]_vars

(* Samples keep coming.                                                    *)
FairSpec == Spec /\ WF_vars(Block)

-----------------------------------------------------------------------------
(* Properties.                                                             *)

(* The types of the chain's fields.                                        *)
TypeOK ==
  /\ mode \in Modes /\ sync_state \in {"none", "coarse", "fine"}
  /\ cfo_wait \in -1..CfoWait /\ (mode = "FM" => cfo_wait >= 0)
  /\ bc \in Nat /\ offset_history \in 0..3
  /\ started \in BOOLEAN /\ wait \in 0..Diversity
  /\ px1 \in [started : BOOLEAN, ready : BOOLEAN, i : 0..Depth]
  /\ heard \in [n : 0..Enough, right : 0..Enough, wrong : 0..Enough]
  /\ p1 \in {"none", "audio", "failed"} /\ p3 \in BOOLEAN
  /\ tx \in -1..Last /\ signal \in {"good", "bad"} /\ upsets \in 0..MaxUpsets

(* A P1 frame is decoded only out of blocks that all came in after the     *)
(* latest synchronisation, though neither buffer_pm nor the AM delay lines *)
(* are ever cleared (decode.c 378-391, 507-554, 564-573).                  *)
P1Whole ==
  p1 # "none" => heard.n >= IF mode = "FM" THEN FMBlocks ELSE Diversity * AMBlocks + 1

(* The same for a P3 frame and the memory of interleaver IV, which is      *)
(* never cleared either (decode.c 344-376, 393-414).                       *)
P3Whole ==
  p3 => heard.n >= IF mode = "FM" THEN 2 * Depth + 2 ELSE (Diversity + 1) * AMBlocks

(* No frame of either channel is put together from before and after a loss *)
(* of synchronisation.                                                     *)
FramesWhole == P1Whole /\ P3Whole

(* "Go back to coarse sync if we fail to decode any audio packets in a P1  *)
(* frame" (frame.c 537): a receiver that has lost the station, or locked   *)
(* onto noise, stays synchronised for less than two P1 frames.             *)
LossBounded ==
  sync_state = "fine" =>
    heard.wrong < IF mode = "FM" THEN 2 * FMBlocks - 1 ELSE (Diversity + 1) * AMBlocks

(* Whatever fading, false locks, slips and resets came before, an FM       *)
(* receiver of a station that stays good ends up synchronised for good.    *)
ResyncFM ==
  <>[](mode = "FM" /\ signal = "good") => <>[](sync_state = "fine")

(* The same for an AM receiver.                                            *)
ResyncAM ==
  <>[](mode = "AM" /\ signal = "good") => <>[](sync_state = "fine")
=============================================================================
