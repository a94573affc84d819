----------------------------- MODULE SyncProofs -----------------------------
(***************************************************************************)
(* Theorems about Sync for every number of blocks in a frame, every depth  *)
(* of the interleaver and every diversity delay.                           *)
(***************************************************************************)
EXTENDS Sync, TLAPS

(* How many blocks an AM decoder that still has w frames to wait for has   *)
(* counted in the frames it has waited for.                                *)
Waited(w) == (Diversity - w) * AMBlocks

HeardType == [n : 0..Enough, right : 0..Enough, wrong : 0..Enough]

PX1Type == [started : BOOLEAN, ready : BOOLEAN, i : 0..Depth]

(* The count of an FM receiver is even between two pairs of blocks.        *)
Odd(b) == IF b % 2 = 1 THEN 1 ELSE 0

(* FM: the decoder has started at a block 0 and heard every block since,   *)
(* so the count of the block in the frame says how many it has heard; each *)
(* step of interleaver IV took two blocks.  A decoder that has started has *)
(* decoded a frame out of blocks that were not all wrong, or has not come  *)
(* to the end of one.                                                      *)
FMInv ==
  /\ started => heard.n >= bc
  /\ IF px1.started THEN heard.n >= 2 * px1.i + Odd(bc) \/ px1.ready
                    ELSE px1.i = 0
  /\ px1.ready => heard.n >= 2 * Depth + 2
  /\ IF ~started /\ bc # 0 THEN heard.wrong < bc
                           ELSE heard.wrong < FMBlocks + bc

(* AM: what has been heard is what has been waited for.                    *)
AMInv ==
  /\ heard.n >= Waited(wait) + bc
  /\ IF wait > 0 THEN heard.wrong <= Waited(wait) + bc
                 ELSE heard.wrong < (Diversity + 1) * AMBlocks

FineInv ==
  sync_state = "fine" =>
    /\ bc \in 0..Last
    /\ mode = "FM" => FMInv
    /\ mode = "AM" => AMInv

IInv == TypeOK /\ FramesWhole /\ FineInv

-----------------------------------------------------------------------------
(* Arithmetic.                                                             *)

(* The bound of heard is past every threshold that is compared with it.    *)
LEMMA EnoughIs ==
  /\ Enough \in Nat
  /\ Enough >= 2 * FMBlocks + 2 * Depth
  /\ Enough >= (Diversity + 1) * AMBlocks
<1>1. PICK fm : fm = 2 * FMBlocks + 2 * Depth OBVIOUS
<1>2. PICK am : am = (Diversity + 1) * AMBlocks OBVIOUS
<1>3. fm \in Nat /\ am \in Nat
  BY <1>1, <1>2, BlocksAssumption, DepthAssumption
<1>4. Enough = IF fm > am THEN fm ELSE am BY <1>1, <1>2 DEF Enough
<1>5. Enough \in Nat /\ Enough >= fm /\ Enough >= am BY <1>3, <1>4
<1> QED BY <1>1, <1>2, <1>5

(* Counting one more block, up to the bound.                               *)
LEMMA OneIs ==
  ASSUME NEW n \in 0..Enough
  PROVE  /\ One(n) \in 0..Enough /\ One(n) <= n + 1
         /\ One(n) = n + 1 \/ One(n) = Enough
BY EnoughIs DEF One, Minimum

(* Hearing a block, right or wrong.                                        *)
LEMMA HearIs ==
  ASSUME NEW h \in HeardType, NEW r \in BOOLEAN
  PROVE  /\ Hear(h, r) \in HeardType
         /\ Hear(h, r).n = h.n + 1 \/ Hear(h, r).n = Enough
         /\ Hear(h, r).wrong <= h.wrong + 1
<1>1. h.n \in 0..Enough /\ h.right \in 0..Enough /\ h.wrong \in 0..Enough
  BY DEF HeardType
<1>2. /\ One(h.n) \in 0..Enough /\ One(h.right) \in 0..Enough
      /\ One(h.wrong) \in 0..Enough /\ One(h.wrong) <= h.wrong + 1
      /\ One(h.n) = h.n + 1 \/ One(h.n) = Enough
  BY <1>1, OneIs
<1>3. 0 \in 0..Enough /\ 0 <= h.wrong + 1 BY <1>1, EnoughIs
<1>4. Hear(h, r) = [n |-> One(h.n),
                    right |-> IF r THEN One(h.right) ELSE 0,
                    wrong |-> IF r THEN 0 ELSE One(h.wrong)]
  BY DEF Hear
<1>5. Hear(h, r) \in HeardType BY <1>2, <1>3, <1>4 DEF HeardType
<1>6. Hear(h, r).n = One(h.n) /\ Hear(h, r).wrong <= h.wrong + 1
  BY <1>2, <1>3, <1>4
<1> QED BY <1>2, <1>5, <1>6

(* What has been waited for grows by a frame at a time.                    *)
LEMMA WaitedIs ==
  ASSUME NEW w \in 0..Diversity
  PROVE  /\ Waited(w) \in Nat
         /\ Waited(Diversity) = 0 /\ Waited(0) = Diversity * AMBlocks
         /\ w > 0 => Waited(w - 1) = Waited(w) + AMBlocks
         /\ w > 0 => Waited(w) + AMBlocks <= Diversity * AMBlocks
         /\ Diversity * AMBlocks \in Nat
         /\ (Diversity + 1) * AMBlocks = Diversity * AMBlocks + AMBlocks
<1> USE BlocksAssumption, DepthAssumption
<1>1. PICK v : v = Diversity - w OBVIOUS
<1>2. v \in 0..Diversity BY <1>1
<1>3. v * AMBlocks \in Nat /\ Diversity * AMBlocks \in Nat BY <1>2
<1>4. (v + 1) * AMBlocks = v * AMBlocks + AMBlocks BY <1>2
<1>5. (Diversity + 1) * AMBlocks = Diversity * AMBlocks + AMBlocks OBVIOUS
<1>6. 0 * AMBlocks = 0 /\ Diversity - Diversity = 0 /\ Diversity - 0 = Diversity
  OBVIOUS
<1>7. Diversity - (w - 1) = v + 1 BY <1>1
<1>8. ASSUME w > 0 PROVE v * AMBlocks + AMBlocks <= Diversity * AMBlocks
  <2>1. PICK d \in Nat : Diversity = (v + 1) + d
    <3>1. Diversity - (v + 1) \in Nat /\ Diversity = (v + 1) + (Diversity - (v + 1))
      BY <1>1, <1>8
    <3> QED BY <3>1
  <2>2. Diversity * AMBlocks = (v + 1) * AMBlocks + d * AMBlocks BY <1>2, <2>1
  <2>3. d * AMBlocks \in Nat BY <2>1
  <2> QED BY <1>3, <1>4, <2>2, <2>3
<1> QED BY <1>1, <1>3, <1>4, <1>5, <1>6, <1>7, <1>8 DEF Waited

(* The count of a block in a frame of n.                                   *)
LEMMA NextCount ==
  ASSUME NEW n \in Nat \ {0}, NEW b \in 0..n - 1
  PROVE  (b + 1) % n = IF b = n - 1 THEN 0 ELSE b + 1
OBVIOUS

(* An FM frame has an even number of blocks, so the parity of the count    *)
(* changes with every block.                                               *)
LEMMA Parity ==
  ASSUME NEW b \in 0..FMBlocks - 1
  PROVE  /\ Odd(b) \in 0..1 /\ (Odd(b) = 1 <=> b % 2 = 1)
         /\ Odd((b + 1) % FMBlocks) = 1 - Odd(b)
<1>1. (b + 1) % FMBlocks = IF b = FMBlocks - 1 THEN 0 ELSE b + 1
  BY NextCount, BlocksAssumption
<1> QED BY <1>1, BlocksAssumption DEF Odd

-----------------------------------------------------------------------------
(* The types of what a block changes, and of what it does not.             *)
DecoderType ==
  /\ sync_state \in {"none", "coarse", "fine"} /\ bc \in Nat
  /\ started \in BOOLEAN /\ wait \in 0..Diversity
  /\ px1 \in PX1Type /\ heard \in HeardType
  /\ p1 \in {"none", "audio", "failed"} /\ p3 \in BOOLEAN

AirType ==
  /\ mode \in Modes
  /\ cfo_wait \in -1..CfoWait /\ (mode = "FM" => cfo_wait >= 0)
  /\ offset_history \in 0..3
  /\ tx \in -1..Last /\ signal \in {"good", "bad"} /\ upsets \in 0..MaxUpsets

DecoderInv == DecoderType /\ FramesWhole /\ FineInv

LEMMA TypeParts == TypeOK <=> DecoderType /\ AirType
BY DEF TypeOK, DecoderType, AirType, PX1Type, HeardType

(* The number of blocks in a frame of either mode.                         *)
LEMMA BlocksIs ==
  ASSUME mode \in Modes
  PROVE  /\ Blocks \in Nat \ {0, 1} /\ Last = Blocks - 1
         /\ mode = "FM" => Blocks = FMBlocks
         /\ mode = "AM" => Blocks = AMBlocks
         /\ mode = "FM" \/ mode = "AM"
BY BlocksAssumption, ModesAssumption DEF Blocks, Last

(* What decode_push_px1 leaves of interleaver IV when block b is the n-th  *)
(* since decode_reset, or a later one.                                     *)
LEMMA PX1Keeps ==
  ASSUME NEW x \in PX1Type, NEW b \in 0..FMBlocks - 1, NEW n \in Nat,
         IF x.started THEN n >= 2 * x.i + Odd(b) + 1 \/ x.ready ELSE x.i = 0,
         x.ready => n >= 2 * Depth + 2, n >= 1,
         PushPX1(x, b)
  PROVE  /\ px1' \in PX1Type /\ p3' \in BOOLEAN
         /\ IF px1'.started THEN n >= 2 * px1'.i + (1 - Odd(b)) \/ px1'.ready
                            ELSE px1'.i = 0
         /\ px1'.ready => n >= 2 * Depth + 2
         /\ p3' => n >= 2 * Depth + 2
<1> USE DepthAssumption
<1>1. PICK o : o = Odd(b) OBVIOUS
<1>2. o \in 0..1 /\ (o = 1 <=> b % 2 = 1) BY <1>1, Parity
<1>3. b % 2 = 0 <=> o = 0 BY <1>2, BlocksAssumption
<1>4. x.started \in BOOLEAN /\ x.ready \in BOOLEAN /\ x.i \in 0..Depth
  BY DEF PX1Type
<1>5. PICK second \in BOOLEAN : second = (x.started /\ b % 2 = 1) BY <1>4
<1>6. PICK i : i = IF second THEN (x.i % Depth) + 1 ELSE x.i OBVIOUS
<1>7. PICK ready \in BOOLEAN : ready = (x.ready \/ (second /\ x.i = Depth))
  BY <1>4
<1>8. /\ px1' = [started |-> x.started \/ b % 2 = 0, ready |-> ready, i |-> i]
      /\ p3' = (second /\ ready)
  BY <1>5, <1>6, <1>7 DEF PushPX1
<1>9. x.i # Depth => x.i % Depth = x.i
  BY <1>4
<1>10. x.i % Depth \in 0..Depth - 1 BY <1>4
<1>11. i \in 0..Depth /\ (second /\ x.i # Depth => i = x.i + 1)
  BY <1>4, <1>6, <1>9, <1>10
<1>12. /\ px1' \in PX1Type /\ p3' \in BOOLEAN
       /\ px1'.started = (x.started \/ o = 0)
       /\ px1'.ready = ready /\ px1'.i = i
  BY <1>3, <1>4, <1>8, <1>11 DEF PX1Type
<1>13. ready => n >= 2 * Depth + 2 BY <1>1, <1>2, <1>4, <1>5, <1>7
<1>14. ASSUME x.started \/ o = 0, ~ready PROVE n >= 2 * i + (1 - o)
  <2>1. CASE second BY <1>1, <1>2, <1>4, <1>5, <1>7, <1>11, <1>14, <2>1
  <2>2. CASE ~second /\ x.started
    BY <1>1, <1>2, <1>4, <1>5, <1>6, <1>7, <1>14, <2>2
  <2>3. CASE ~x.started
    <3>1. ~second /\ x.i = 0 BY <1>5, <2>3
    <3>2. i = 0 BY <1>6, <3>1
    <3> QED BY <1>2, <3>2
  <2> QED BY <1>5, <2>1, <2>2, <2>3
<1>15. ASSUME ~(x.started \/ o = 0) PROVE i = 0
  BY <1>4, <1>5, <1>6, <1>15
<1> QED BY <1>1, <1>8, <1>12, <1>13, <1>14, <1>15

(* A block handed to the FM decoder, whether it is the one that follows or *)
(* the one that finds synchronisation.                                     *)
LEMMA FMKeeps ==
  ASSUME DecoderInv, mode \in Modes, mode = "FM", mode' = mode,
         NEW b \in 0..Last, NEW reset \in BOOLEAN,
         ~reset => sync_state = "fine" /\ b = bc,
         DecodeFM(b, reset)
  PROVE  DecoderInv'
<1> USE BlocksAssumption, DepthAssumption
<1>1. /\ Blocks = FMBlocks /\ Last = FMBlocks - 1 /\ Blocks' = FMBlocks
      /\ Last' = FMBlocks - 1 /\ mode' = "FM" /\ b \in 0..FMBlocks - 1
  BY BlocksIs DEF Blocks, Last
<1>2. PICK d : d = Decoder(reset) OBVIOUS
<1>3. PICK r \in BOOLEAN : r = (signal = "good" /\ tx = b) OBVIOUS
<1>4. PICK h : h = Hear(d.heard, r) OBVIOUS
<1>5. /\ started' = (d.started \/ b = 0)
      /\ heard' = h /\ wait' = d.wait
      /\ p1' \in IF started' /\ b = Last THEN P1Frame(h, b) ELSE {"none"}
      /\ PushPX1(d.px1, b)
      /\ sync_state' = IF p1' = "failed" THEN "none" ELSE "fine"
      /\ bc' = (b + 1) % Blocks
  BY <1>2, <1>3, <1>4 DEF DecodeFM
<1>6. /\ d.started \in BOOLEAN /\ d.wait \in 0..Diversity
      /\ d.px1 \in PX1Type /\ d.heard \in HeardType
      /\ d.heard.n \in Nat /\ d.heard.wrong \in Nat
      /\ d.px1.i \in Nat
      /\ d.started => d.heard.n >= b
      /\ IF d.px1.started THEN d.heard.n >= 2 * d.px1.i + Odd(b) \/ d.px1.ready
                          ELSE d.px1.i = 0
      /\ d.px1.ready => d.heard.n >= 2 * Depth + 2
      /\ IF ~d.started /\ b # 0 THEN d.heard.wrong < b
                                ELSE d.heard.wrong < FMBlocks + b
  <2>1. CASE reset
    <3>1. d = [started |-> FALSE, px1 |-> Fresh, wait |-> Diversity, heard |-> Nothing]
      BY <1>2, <2>1 DEF Decoder
    <3>2. Fresh \in PX1Type /\ Nothing \in HeardType
      BY EnoughIs DEF Fresh, Nothing, PX1Type, HeardType
    <3> QED BY <1>1, <3>1, <3>2 DEF Fresh, Nothing
  <2>2. CASE ~reset
    <3>1. d = [started |-> started, px1 |-> px1, wait |-> wait, heard |-> heard]
      BY <1>2, <2>2 DEF Decoder
    <3>2. FMInv /\ b = bc BY <2>2 DEF DecoderInv, FineInv
    <3>3. DecoderType BY DEF DecoderInv
    <3>4. heard.n \in Nat /\ heard.wrong \in Nat /\ px1.i \in Nat
      BY <3>3, EnoughIs DEF DecoderType, HeardType, PX1Type
    <3> QED BY <3>1, <3>2, <3>3, <3>4 DEF DecoderType, FMInv
  <2> QED BY <2>1, <2>2
<1>7. /\ h \in HeardType
      /\ h.n = d.heard.n + 1 \/ h.n = Enough
      /\ h.wrong <= d.heard.wrong + 1
  BY <1>4, <1>6, HearIs
<1>8. h.n \in 0..Enough /\ h.wrong \in 0..Enough /\ h.right \in 0..Enough
  BY <1>7 DEF HeardType
<1>9. /\ Enough \in Nat /\ Enough >= 2 * FMBlocks + 2 * Depth
      /\ h.n \in Nat /\ h.wrong \in Nat
  BY <1>8, EnoughIs
<1>10. bc' = IF b = FMBlocks - 1 THEN 0 ELSE b + 1
  BY <1>1, <1>5, NextCount
<1>11. PICK o : o = Odd(b) OBVIOUS
<1>12. o \in 0..1 /\ Odd(bc') = 1 - o BY <1>1, <1>5, <1>11, Parity
<1>13. /\ IF d.px1.started THEN h.n >= 2 * d.px1.i + o + 1 \/ d.px1.ready
                           ELSE d.px1.i = 0
       /\ d.px1.ready => h.n >= 2 * Depth + 2
       /\ h.n >= 1
  <2>1. d.px1.i \in 0..Depth BY <1>6 DEF PX1Type
  <2> QED BY <1>6, <1>7, <1>9, <1>11, <1>12, <2>1
<1>14. /\ px1' \in PX1Type /\ p3' \in BOOLEAN
       /\ IF px1'.started THEN h.n >= 2 * px1'.i + (1 - o) \/ px1'.ready
                          ELSE px1'.i = 0
       /\ px1'.ready => h.n >= 2 * Depth + 2
       /\ p3' => h.n >= 2 * Depth + 2
  BY <1>1, <1>5, <1>6, <1>9, <1>11, <1>13, PX1Keeps
<1>15. started' => h.n >= b + 1
  BY <1>1, <1>5, <1>6, <1>7, <1>9
<1>16. p1' \in {"none", "audio", "failed"} BY <1>5 DEF P1Frame
<1>17. p1' # "none" => started' /\ b = FMBlocks - 1
  BY <1>1, <1>5
<1>18. sync_state' = "fine" =>
         IF ~started' /\ bc' # 0 THEN h.wrong < bc' ELSE h.wrong < FMBlocks + bc'
  <2>1. CASE b # FMBlocks - 1
    <3>1. bc' = b + 1 BY <1>10, <2>1
    <3>2. h.wrong <= d.heard.wrong + 1 /\ d.heard.wrong \in Nat BY <1>6, <1>7
    <3>3. CASE started' BY <1>1, <1>6, <1>9, <3>1, <3>2, <3>3
    <3>4. CASE ~started'
      <4>1. ~d.started /\ b # 0 BY <1>5, <3>4
      <4>2. d.heard.wrong < b BY <1>6, <4>1
      <4> QED BY <1>1, <1>9, <3>1, <3>2, <4>2, <3>4
    <3> QED BY <3>3, <3>4
  <2>2. CASE b = FMBlocks - 1 /\ ~started'
    <3>1. bc' = 0 BY <1>10, <2>2
    <3>2. ~d.started /\ b # 0 BY <1>5, <2>2
    <3>3. d.heard.wrong < b /\ d.heard.wrong \in Nat BY <1>6, <3>2
    <3> QED BY <1>1, <1>7, <1>9, <2>2, <3>1, <3>3
  <2>3. CASE b = FMBlocks - 1 /\ started'
    <3>1. p1' \in P1Frame(h, b) BY <1>1, <1>5, <2>3
    <3>2. p1' = "failed" \/ h.wrong < FMBlocks
      BY <3>1 DEF P1Frame, Span
    <3> QED BY <1>5, <1>9, <1>10, <2>3, <3>2
  <2> QED BY <2>1, <2>2, <2>3
<1>19. bc' \in 0..FMBlocks - 1 /\ started' \in BOOLEAN BY <1>1, <1>6, <1>5, <1>10
<1>20. DecoderType'
  BY <1>5, <1>6, <1>7, <1>14, <1>16, <1>19 DEF DecoderType, PX1Type, HeardType
<1>21. FramesWhole'
  BY <1>1, <1>5, <1>14, <1>15, <1>17 DEF FramesWhole, P1Whole, P3Whole
<1>22. FineInv'
  <2>1. sync_state' = "fine" => FMInv'
    <3>1. started' => h.n >= bc' BY <1>9, <1>10, <1>15, <1>1
    <3> QED BY <1>5, <1>12, <1>14, <1>18, <3>1 DEF FMInv
  <2> QED BY <1>1, <1>19, <2>1 DEF FineInv
<1> QED BY <1>20, <1>21, <1>22 DEF DecoderInv

(* A block handed to the AM decoder.                                       *)
LEMMA AMKeeps ==
  ASSUME DecoderInv, mode \in Modes, mode = "AM", mode' = mode,
         NEW b \in 0..Last, NEW reset \in BOOLEAN,
         reset => b = 0,
         ~reset => sync_state = "fine" /\ b = bc,
         DecodeAM(b, reset)
  PROVE  DecoderInv'
<1> USE BlocksAssumption, DepthAssumption
<1>1. /\ Blocks = AMBlocks /\ Last = AMBlocks - 1 /\ Blocks' = AMBlocks
      /\ Last' = AMBlocks - 1 /\ mode' = "AM" /\ mode' # "FM"
      /\ b \in 0..AMBlocks - 1
  BY BlocksIs DEF Blocks, Last
<1>2. PICK d : d = Decoder(reset) OBVIOUS
<1>3. PICK r \in BOOLEAN : r = (signal = "good" /\ tx = b) OBVIOUS
<1>4. PICK h : h = Hear(d.heard, r) OBVIOUS
<1>5. /\ started' = d.started /\ px1' = d.px1
      /\ heard' = h
      /\ wait' = IF b = Last /\ d.wait > 0 THEN d.wait - 1 ELSE d.wait
      /\ p1' \in IF d.wait = 0 THEN P1Frame(h, b) ELSE {"none"}
      /\ p3' = (d.wait = 0 /\ b = Last)
      /\ sync_state' = IF p1' = "failed" THEN "none" ELSE "fine"
      /\ bc' = (b + 1) % Blocks
  BY <1>2, <1>3, <1>4 DEF DecodeAM
<1>6. PICK full : full = Diversity * AMBlocks OBVIOUS
<1>7. /\ full \in Nat /\ (Diversity + 1) * AMBlocks = full + AMBlocks
      /\ Waited(Diversity) = 0 /\ Waited(0) = full
      /\ 0 \in 0..Diversity /\ Diversity \in 0..Diversity
  BY <1>6, WaitedIs
<1>8. /\ d.started \in BOOLEAN /\ d.wait \in 0..Diversity
      /\ d.px1 \in PX1Type /\ d.heard \in HeardType
      /\ d.heard.n \in Nat /\ d.heard.wrong \in Nat
      /\ d.heard.n >= Waited(d.wait) + b
      /\ IF d.wait > 0 THEN d.heard.wrong <= Waited(d.wait) + b
                       ELSE d.heard.wrong < full + AMBlocks
  <2>1. CASE reset
    <3>1. d = [started |-> FALSE, px1 |-> Fresh, wait |-> Diversity, heard |-> Nothing]
      BY <1>2, <2>1 DEF Decoder
    <3>2. Fresh \in PX1Type /\ Nothing \in HeardType
      BY EnoughIs DEF Fresh, Nothing, PX1Type, HeardType
    <3>3. /\ d.started = FALSE /\ d.wait = Diversity /\ d.px1 = Fresh
          /\ d.heard = Nothing
      BY <3>1
    <3>4. d.heard.n = 0 /\ d.heard.wrong = 0 BY <3>3 DEF Nothing
    <3>5. Waited(d.wait) + b = 0 /\ d.wait > 0 BY <1>7, <2>1, <3>3
    <3>6. d.heard.n >= Waited(d.wait) + b /\ d.heard.wrong <= Waited(d.wait) + b
      BY <3>4, <3>5
    <3>7. d.started \in BOOLEAN /\ d.wait \in 0..Diversity
      BY <1>7, <3>3
    <3> QED BY <3>2, <3>3, <3>4, <3>5, <3>6, <3>7
  <2>2. CASE ~reset
    <3>1. d = [started |-> started, px1 |-> px1, wait |-> wait, heard |-> heard]
      BY <1>2, <2>2 DEF Decoder
    <3>2. AMInv /\ b = bc BY <2>2 DEF DecoderInv, FineInv
    <3>3. DecoderType BY DEF DecoderInv
    <3>4. heard.n \in Nat /\ heard.wrong \in Nat
      BY <3>3, EnoughIs DEF DecoderType, HeardType
    <3> QED BY <1>7, <3>1, <3>2, <3>3, <3>4 DEF DecoderType, AMInv
  <2> QED BY <2>1, <2>2
<1>9. /\ h \in HeardType
      /\ h.n = d.heard.n + 1 \/ h.n = Enough
      /\ h.wrong <= d.heard.wrong + 1
  BY <1>4, <1>8, HearIs
<1>10. h.n \in 0..Enough /\ h.wrong \in 0..Enough BY <1>9 DEF HeardType
<1>11. h.n \in Nat /\ h.wrong \in Nat /\ Enough \in Nat /\ Enough >= full + AMBlocks
  BY <1>7, <1>10, EnoughIs
<1>12. bc' = IF b = AMBlocks - 1 THEN 0 ELSE b + 1
  <2>1. AMBlocks \in Nat \ {0} BY BlocksAssumption
  <2>2. (b + 1) % AMBlocks = IF b = AMBlocks - 1 THEN 0 ELSE b + 1
    BY <1>1, <2>1, NextCount
  <2> QED BY <1>1, <1>5, <2>2
<1>13. PICK w : w = Waited(d.wait) OBVIOUS
<1>14. /\ w \in Nat /\ (d.wait = 0 => w = full)
       /\ d.wait > 0 => /\ Waited(d.wait - 1) = w + AMBlocks
                        /\ w + AMBlocks <= full
  <2>1. PICK k \in 0..Diversity : k = d.wait BY <1>8
  <2>2. /\ Waited(k) \in Nat
        /\ k > 0 => Waited(k - 1) = Waited(k) + AMBlocks
        /\ k > 0 => Waited(k) + AMBlocks <= Diversity * AMBlocks
    BY WaitedIs
  <2> QED BY <1>6, <1>7, <1>13, <2>1, <2>2
<1>15. h.n >= w + b + 1
  <2>1. w + b + 1 <= full + AMBlocks
    <3>1. d.wait = 0 \/ d.wait > 0 BY <1>8
    <3> QED BY <1>1, <1>7, <1>14, <3>1
  <2>2. d.heard.n \in Nat /\ d.heard.n >= w + b BY <1>8, <1>13
  <2>3. w \in Nat /\ b \in Nat BY <1>1, <1>14
  <2> QED BY <1>9, <1>11, <2>1, <2>2, <2>3, <1>7
<1>16. p1' \in {"none", "audio", "failed"} BY <1>5 DEF P1Frame
<1>17. /\ p1' # "none" => d.wait = 0
       /\ p3' => d.wait = 0 /\ b = AMBlocks - 1
  BY <1>1, <1>5
<1>18. wait' \in 0..Diversity /\ bc' \in 0..AMBlocks - 1 /\ p3' \in BOOLEAN
  BY <1>1, <1>5, <1>8, <1>12
<1>19. DecoderType'
  BY <1>5, <1>8, <1>9, <1>16, <1>18 DEF DecoderType, PX1Type, HeardType
<1>20. FramesWhole'
  <2>1. p1' # "none" => h.n >= full + 1
    BY <1>1, <1>7, <1>11, <1>14, <1>15, <1>17
  <2>2. p3' => h.n >= full + AMBlocks
    BY <1>1, <1>7, <1>11, <1>14, <1>15, <1>17
  <2> QED BY <1>1, <1>5, <1>6, <1>7, <2>1, <2>2 DEF FramesWhole, P1Whole, P3Whole
<1>21. h.n >= Waited(wait') + bc'
  <2>1. CASE b # AMBlocks - 1
    BY <1>1, <1>5, <1>12, <1>13, <1>15, <2>1, <1>14, <1>11
  <2>2. CASE b = AMBlocks - 1 /\ d.wait = 0
    BY <1>1, <1>5, <1>7, <1>8, <1>12, <1>13, <1>14, <1>15, <1>11, <2>2
  <2>3. CASE b = AMBlocks - 1 /\ d.wait # 0
    <3>1. d.wait > 0 /\ wait' = d.wait - 1 BY <1>1, <1>5, <1>8, <2>3
    <3> QED BY <1>1, <1>12, <1>14, <1>15, <1>11, <2>3, <3>1
  <2> QED BY <2>1, <2>2, <2>3
<1>22. sync_state' = "fine" =>
         IF wait' > 0 THEN h.wrong <= Waited(wait') + bc'
                      ELSE h.wrong < full + AMBlocks
  <2>1. CASE d.wait = 0
    <3>1. p1' = "failed" \/ h.wrong < full + b + 1
      BY <1>1, <1>5, <1>6, <2>1 DEF P1Frame, Span
    <3>2. wait' = 0 BY <1>5, <2>1
    <3> QED BY <1>1, <1>5, <1>7, <1>11, <3>1, <3>2
  <2>2. CASE d.wait # 0 /\ b # AMBlocks - 1
    <3>1. d.wait > 0 /\ wait' = d.wait /\ bc' = b + 1
      BY <1>1, <1>5, <1>8, <1>12, <2>2
    <3> QED BY <1>1, <1>8, <1>9, <1>11, <1>13, <1>14, <3>1
  <2>3. CASE d.wait # 0 /\ b = AMBlocks - 1
    <3>1. d.wait > 0 /\ wait' = d.wait - 1 /\ bc' = 0
      BY <1>1, <1>5, <1>8, <1>12, <2>3
    <3>2. Waited(wait') = w + AMBlocks /\ w + AMBlocks <= full BY <1>14, <3>1
    <3>3. h.wrong <= w + AMBlocks
      BY <1>1, <1>8, <1>9, <1>11, <1>13, <1>14, <2>3, <3>1
    <3> QED BY <1>1, <1>7, <1>11, <1>14, <3>1, <3>2, <3>3
  <2> QED BY <2>1, <2>2, <2>3
<1>23. FineInv'
  <2>1. Waited(wait)' = Waited(wait') BY DEF Waited
  <2>2. sync_state' = "fine" => AMInv'
    BY <1>5, <1>6, <1>7, <1>21, <1>22, <2>1 DEF AMInv
  <2> QED BY <1>1, <1>18, <2>2 DEF FineInv
<1> QED BY <1>19, <1>20, <1>23 DEF DecoderInv

-----------------------------------------------------------------------------
(* The transmitter goes on to its next block, or the receiver realigns.    *)
LEMMA TxType ==
  ASSUME mode \in Modes, mode' = mode, tx \in -1..Last,
         Going \/ Realigned
  PROVE  tx' \in -1..Last'
<1>1. Last' = Last /\ Blocks \in Nat \ {0} /\ Last = Blocks - 1
  BY BlocksIs DEF Last, Blocks
<1>2. CASE Going
  <2>1. CASE tx = -1 BY <1>1, <1>2, <2>1 DEF Going
  <2>2. CASE tx # -1
    <3>1. tx \in 0..Blocks - 1 BY <1>1, <2>2
    <3>2. (tx + 1) % Blocks \in 0..Blocks - 1 BY <1>1, <3>1
    <3> QED BY <1>1, <1>2, <2>2, <3>2 DEF Going
  <2> QED BY <2>1, <2>2
<1>3. CASE Realigned
  <2>1. tx' \in -1..Last BY <1>1, <1>3 DEF Realigned
  <2> QED BY <1>1, <2>1
<1> QED BY <1>2, <1>3

(* offset_history counts at most four counts in a row, and is cleared then.*)
LEMMA HistoryType ==
  ASSUME offset_history \in 0..3, NEW b
  PROVE  History(b) \in 0..4
BY DEF History

(* A block that finds no synchronisation leaves the decoder alone.         *)
LEMMA NotFoundKeeps ==
  ASSUME DecoderInv, NotFound
  PROVE  DecoderInv'
<1>1. /\ sync_state' = "coarse" /\ p1' = "none" /\ p3' = FALSE
      /\ UNCHANGED <<bc, started, px1, wait, heard>>
  BY DEF NotFound, decoder
<1>2. DecoderType'
  BY <1>1 DEF DecoderInv, DecoderType, PX1Type, HeardType
<1>3. FramesWhole' BY <1>1 DEF FramesWhole, P1Whole, P3Whole
<1>4. FineInv' BY <1>1 DEF FineInv
<1> QED BY <1>2, <1>3, <1>4 DEF DecoderInv

(* A step of the outside world that does not reach the decoder.            *)
LEMMA DecoderFrame ==
  ASSUME DecoderInv, UNCHANGED <<mode, sync_state, bc, decoder, frames>>
  PROVE  DecoderInv'
<1>1. UNCHANGED <<mode, sync_state, bc, started, px1, wait, heard, p1, p3>>
  BY DEF decoder, frames
<1>2. DecoderType'
  BY <1>1 DEF DecoderInv, DecoderType, PX1Type, HeardType
<1>3. FramesWhole' BY <1>1 DEF DecoderInv, FramesWhole, P1Whole, P3Whole
<1>4. FineInv'
  BY <1>1 DEF DecoderInv, FineInv, FMInv, AMInv, Last, Blocks
<1> QED BY <1>2, <1>3, <1>4 DEF DecoderInv

(* Nothing is heard, started or awaited after input_reset.                 *)
LEMMA ResetKeeps ==
  ASSUME NEW m \in Modes, input_reset(m), DecoderInv
  PROVE  DecoderInv'
<1>1. /\ sync_state' = "none" /\ bc' = bc
      /\ started' = FALSE /\ px1' = Fresh /\ wait' = Diversity /\ heard' = Nothing
      /\ p1' = "none" /\ p3' = FALSE
  BY DEF input_reset
<1>2. Fresh \in PX1Type /\ Nothing \in HeardType
  BY EnoughIs, DepthAssumption DEF Fresh, Nothing, PX1Type, HeardType
<1>3. Diversity \in 0..Diversity BY DepthAssumption
<1>4. DecoderType'
  BY <1>1, <1>2, <1>3 DEF DecoderInv, DecoderType, PX1Type, HeardType
<1>5. FramesWhole' BY <1>1 DEF FramesWhole, P1Whole, P3Whole
<1>6. FineInv' BY <1>1 DEF FineInv
<1> QED BY <1>4, <1>5, <1>6 DEF DecoderInv

(* Every step keeps the types of what the decoder does not hold.           *)
LEMMA NextKeepsAir ==
  ASSUME AirType, DecoderType, [Next]_vars
  PROVE  AirType'
<1> USE WaitAssumption DEF AirType
<1>a. \A n \in Int : n - 1 \in Int OBVIOUS
<1>1. ASSUME mode' = mode, Going \/ Realigned PROVE tx' \in -1..Last'
  BY <1>1, TxType
<1>2. CASE FineFM \/ Noise \/ \E b \in 0..Last : Agree(b)
  <2>1. UNCHANGED <<mode, cfo_wait, offset_history, signal, upsets>> /\ Going
    BY <1>2 DEF FineFM, Noise, Agree
  <2> QED BY <1>1, <2>1
<1>3. CASE DetectCfo
  <2>1. /\ UNCHANGED <<mode, offset_history, signal, upsets>> /\ Realigned
        /\ cfo_wait' = CfoWait
    BY <1>3 DEF DetectCfo
  <2> QED BY <1>1, <2>1
<1>4. CASE WaitCfo
  <2>1. /\ UNCHANGED <<mode, offset_history, signal, upsets>> /\ Going
        /\ cfo_wait # 0 /\ cfo_wait' = cfo_wait - 1 /\ mode = "FM"
    BY <1>4 DEF WaitCfo
  <2> QED BY <1>1, <2>1
<1>5. ASSUME CountDown PROVE cfo_wait' \in -1..CfoWait
  BY <1>5 DEF CountDown
<1>6. CASE FineAM
  <2>1. /\ UNCHANGED <<mode, offset_history, signal, upsets>> /\ Going /\ mode = "AM"
        /\ cfo_wait' \in -1..CfoWait
    BY <1>5, <1>6 DEF FineAM
  <2>2. tx' \in -1..Last' BY <1>1, <2>1
  <2> QED BY <2>1, <2>2
<1>7. ASSUME NEW b \in -1..Last, CoarseAM(b) PROVE AirType'
  <2>1. UNCHANGED <<mode, signal, upsets>> /\ mode = "AM" /\ Realign
    BY <1>7 DEF CoarseAM
  <2>2. (Going \/ Realigned) /\ cfo_wait' \in -1..CfoWait
    BY <1>5, <2>1 DEF Realign
  <2>3. tx' \in -1..Last' BY <1>1, <2>1, <2>2
  <2>4. offset_history' \in 0..3
    <3>1. History(b) \in 0..4 BY HistoryType
    <3>2. IF History(b) = 4 THEN offset_history' = 0
                            ELSE offset_history' = History(b)
      BY <1>7 DEF CoarseAM
    <3> QED BY <3>1, <3>2
  <2> QED BY <2>1, <2>2, <2>3, <2>4
<1>8. ASSUME NEW m \in Modes, input_reset(m) PROVE AirType'
  <2>1. /\ mode' = m /\ cfo_wait' = 0 /\ offset_history' = 0 /\ signal' = signal
        /\ upsets < MaxUpsets /\ upsets' = upsets + 1
        /\ tx' \in -1..(IF m = "FM" THEN FMBlocks ELSE AMBlocks) - 1
    BY <1>8 DEF input_reset
  <2>2. tx' \in -1..Last' BY <2>1 DEF Last, Blocks
  <2> QED BY <2>1, <2>2
<1>9. CASE Fade
  <2>1. UNCHANGED <<mode, cfo_wait, offset_history, tx, upsets>>
        /\ signal' \in {"good", "bad"}
    BY <1>9 DEF Fade
  <2> QED BY <2>1 DEF Last, Blocks
<1>10. CASE Slip
  <2>1. UNCHANGED <<mode, cfo_wait, offset_history, signal>>
        /\ upsets < MaxUpsets /\ upsets' = upsets + 1 /\ tx' \in -1..Last
    BY <1>10 DEF Slip
  <2> QED BY <2>1 DEF Last, Blocks
<1>11. CASE UNCHANGED vars
  <2>1. UNCHANGED <<mode, cfo_wait, offset_history, signal, tx, upsets>>
    BY <1>11 DEF vars, air
  <2> QED BY <2>1 DEF Last, Blocks
<1> HIDE DEF AirType
<1> QED
  BY <1>2, <1>3, <1>4, <1>6, <1>7, <1>8, <1>9, <1>10, <1>11
  DEF Next, Block, BlockFM, BlockAM

(* Every step keeps what the decoder holds in step with what it has heard. *)
LEMMA NextKeepsDecoder ==
  ASSUME DecoderInv, mode \in Modes, [Next]_vars
  PROVE  DecoderInv'
<1>1. Last \in Nat /\ 0 \in 0..Last BY BlocksIs
<1>2. CASE FineFM
  <2>1. /\ mode = "FM" /\ sync_state = "fine" /\ mode' = mode
        /\ DecodeFM(bc, FALSE) /\ bc \in 0..Last
    BY <1>2 DEF FineFM, DecoderInv, FineInv
  <2> QED BY <2>1, FMKeeps
<1>3. ASSUME NEW b \in 0..Last, Agree(b) PROVE DecoderInv'
  <2>1. mode = "FM" /\ mode' = mode /\ DecodeFM(b, TRUE) BY <1>3 DEF Agree
  <2> QED BY <2>1, FMKeeps
<1>4. CASE Noise \/ DetectCfo \/ WaitCfo
  BY <1>4, NotFoundKeeps DEF Noise, DetectCfo, WaitCfo
<1>5. CASE FineAM
  <2>1. /\ mode = "AM" /\ sync_state = "fine" /\ mode' = mode
        /\ DecodeAM(bc, FALSE) /\ bc \in 0..Last
    BY <1>5 DEF FineAM, DecoderInv, FineInv
  <2> QED BY <2>1, AMKeeps
<1>6. ASSUME NEW b \in -1..Last, CoarseAM(b) PROVE DecoderInv'
  <2>1. mode = "AM" /\ mode' = mode /\ (DecodeAM(0, TRUE) \/ NotFound)
    BY <1>6 DEF CoarseAM
  <2> QED BY <1>1, <2>1, AMKeeps, NotFoundKeeps
<1>7. ASSUME NEW m \in Modes, input_reset(m) PROVE DecoderInv'
  BY <1>7, ResetKeeps
<1>8. CASE Fade \/ Slip \/ UNCHANGED vars
  <2>1. UNCHANGED <<mode, sync_state, bc, decoder, frames>>
    BY <1>8 DEF Fade, Slip, vars, air
  <2> QED BY <2>1, DecoderFrame
<1> QED
  BY <1>2, <1>3, <1>4, <1>5, <1>6, <1>7, <1>8
  DEF Next, Block, BlockFM, BlockAM

-----------------------------------------------------------------------------
(* The inductive invariant of the chain: what started, the interleaver and *)
(* the wait stand for is never more than what has been heard since the     *)
(* latest synchronisation.                                                 *)
THEOREM Invariance == Spec => []IInv
<1>1. IInv <=> AirType /\ DecoderInv
  BY TypeParts DEF IInv, DecoderInv
<1>2. Init => IInv
  <2> SUFFICES ASSUME Init PROVE AirType /\ DecoderInv BY <1>1
  <2>1. Fresh \in PX1Type /\ Nothing \in HeardType /\ Diversity \in 0..Diversity
    BY EnoughIs, DepthAssumption DEF Fresh, Nothing, PX1Type, HeardType
  <2>2. AirType BY WaitAssumption DEF Init, AirType
  <2>3. DecoderType BY <2>1 DEF Init, DecoderType
  <2>4. FramesWhole BY DEF Init, FramesWhole, P1Whole, P3Whole
  <2>5. FineInv BY DEF Init, FineInv
  <2> QED BY <2>2, <2>3, <2>4, <2>5 DEF DecoderInv
<1>3. AirType /\ DecoderInv /\ [Next]_vars => AirType' /\ DecoderInv'
  <2> SUFFICES ASSUME AirType, DecoderInv, [Next]_vars
               PROVE  AirType' /\ DecoderInv'
    OBVIOUS
  <2>1. DecoderType /\ mode \in Modes BY DEF DecoderInv, AirType
  <2> QED BY <2>1, NextKeepsAir, NextKeepsDecoder
<1> QED BY <1>1, <1>2, <1>3, PTL DEF Spec

(* Every field of the chain keeps its type, in either mode and through     *)
(* changes of mode.                                                        *)
THEOREM TypeCorrect == Spec => []TypeOK
<1>1. IInv => TypeOK BY DEF IInv
<1> QED BY <1>1, Invariance, PTL

(* For any frame length, depth and delay, no P1 or P3 frame holds a block  *)
(* from before the latest synchronisation, though the buffers are never    *)
(* cleared (decode.c 344-414, 507-554, 564-573).                           *)
THEOREM FramesCorrect == Spec => []FramesWhole
<1>1. IInv => FramesWhole BY DEF IInv
<1> QED BY <1>1, Invariance, PTL

(* For any frame length and delay, a receiver that hears nothing but wrong *)
(* blocks gives synchronisation up within two FM frames, or within the     *)
(* delay and one more AM frame (frame.c 537).                              *)
THEOREM LossCorrect == Spec => []LossBounded
<1>1. IInv => LossBounded
  <2> SUFFICES ASSUME IInv, sync_state = "fine"
               PROVE  heard.wrong < IF mode = "FM" THEN 2 * FMBlocks - 1
                                    ELSE (Diversity + 1) * AMBlocks
    BY DEF LossBounded
  <2>1. /\ mode \in Modes /\ wait \in 0..Diversity /\ heard \in HeardType
        /\ bc \in 0..Last /\ (mode = "FM" => FMInv) /\ (mode = "AM" => AMInv)
    BY DEF IInv, TypeOK, FineInv, HeardType
  <2>2. heard.wrong \in Nat BY <2>1, EnoughIs DEF HeardType
  <2>3. CASE mode = "FM"
    <3>1. bc \in 0..FMBlocks - 1 BY <2>1, <2>3, BlocksIs
    <3> QED BY <2>1, <2>2, <2>3, <3>1, BlocksAssumption DEF FMInv
  <2>4. CASE mode = "AM"
    <3>1. bc \in 0..AMBlocks - 1 BY <2>1, <2>4, BlocksIs
    <3>2. PICK full : full = Diversity * AMBlocks OBVIOUS
    <3>3. PICK w : w = Waited(wait) OBVIOUS
    <3>4. /\ w \in Nat /\ full \in Nat
          /\ wait > 0 => w + AMBlocks <= full
          /\ (Diversity + 1) * AMBlocks = full + AMBlocks
      BY <2>1, <3>2, <3>3, WaitedIs
    <3>5. IF wait > 0 THEN heard.wrong <= w + bc ELSE heard.wrong < full + AMBlocks
      BY <2>1, <2>4, <3>3, <3>4 DEF AMInv
    <3> QED BY <2>2, <2>4, <3>1, <3>4, <3>5, BlocksAssumption
  <2> QED BY <2>1, <2>3, <2>4, BlocksIs
<1> QED BY <1>1, Invariance, PTL
=============================================================================
