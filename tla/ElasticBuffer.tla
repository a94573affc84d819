--------------------------- MODULE ElasticBuffer ---------------------------
(***************************************************************************)
(* The elastic buffer of one program's main stream (src/output.c) and the  *)
(* part of frame_process (src/frame.c) that fills it.  Each block of the   *)
(* signal plays a few packets off the ring; the last block of a frame      *)
(* brings a PDU, which carries the packets that come next and says which   *)
(* of them to play now.                                                    *)
(*                                                                         *)
(* Packets are numbered as the station makes them, without wrapping.  A    *)
(* PDU may start and end in the middle of a packet: places in the stream   *)
(* are counted in half packets.  Packets, PDUs and latency travel modulo   *)
(* small numbers, as in the code.                                          *)
(***************************************************************************)
EXTENDS Integers, FiniteSets

CONSTANTS
  ELASTIC_BUFFER_LEN,  (* slots of the ring, 64                            *)
  PduSeqs,    (* values of pdu_seq, 8                                      *)
  Channels,   (* [avg, blocks, audio_frames]: packets a PDU stands for (32
                 or 4), blocks of a frame, packets played in a block       *)
  Latencies,  (* values of latency, in pairs of packets                    *)
  Leads,      (* half packets a PDU may start after the one to play next   *)
  MaxPackets, (* bound: packets the frames sent stand for                  *)
  MaxSlips    (* bound: blocks lost or received twice, and resets          *)

Half == ELASTIC_BUFFER_LEN \div 2
Slots == 0..(ELASTIC_BUFFER_LEN - 1)
Wrap(n) == n % ELASTIC_BUFFER_LEN

ASSUME RingAssumption ==
  /\ ELASTIC_BUFFER_LEN \in Nat \ {0} /\ ELASTIC_BUFFER_LEN % 2 = 0
  /\ PduSeqs \in Nat \ {0} /\ MaxPackets \in Nat /\ MaxSlips \in Nat
ASSUME ChannelAssumption ==
  \A c \in Channels :
    /\ c.blocks \in Nat \ {0} /\ c.audio_frames \in Nat \ {0}
    /\ c.avg = c.blocks * c.audio_frames /\ c.avg <= Half
    /\ (PduSeqs * c.avg) % Half = 0
ASSUME StationAssumption ==
  /\ Latencies \subseteq 0..(PduSeqs - 1)
  /\ \A l \in Latencies : 2 * l < ELASTIC_BUFFER_LEN
  /\ Leads \subseteq 0..(2 * Half - 1)

VARIABLES
  station,       (* its channel, its latency, and the place of its packet 0 *)
  frame, start,  (* the frame on the air, and where its PDU starts         *)
  block,         (* the block of the frame that comes next                 *)
  intact,        (* all blocks of the frame so far were received           *)
  packets, audio_offset,
  out,           (* what the latest block played                           *)
  now,           (* the number of the packet to play next                  *)
  fronts, backs, (* halves received without error, that are not yet past   *)
  steady,        (* packets played since now jumped, at most
                    ELASTIC_BUFFER_LEN                                     *)
  slips

air == <<station, frame, start, block, intact>>
ring == <<packets, audio_offset>>
history == <<out, now, fronts, backs, steady, slips>>
vars == <<air, ring, history>>

channel == station.channel

-----------------------------------------------------------------------------
(* What the station sends.                                                 *)

(* The packet to play when the PDU of frame k has been received.           *)
Base(k) == k * channel.avg - 2 * station.latency + station.phase

Starts(k) == {2 * Base(k) + lead : lead \in Leads}

(* The packets of a PDU that goes from e to f, and how much of each.       *)
Numbers(e, f) == (e \div 2)..((f + 1) \div 2 - 1)

Shape(n, e, f) ==
  IF 2 * n < e THEN "back" ELSE IF 2 * n + 2 > f THEN "front" ELSE "full"

-----------------------------------------------------------------------------
(* output_advance                                                          *)

Empty == [shape |-> "none", error |-> FALSE, front |-> -1, back |-> -1]

Window ==
  IF audio_offset = -1 THEN {}
  ELSE {Wrap(audio_offset + i) : i \in 0..(channel.audio_frames - 1)}

Plays(p) == p.shape = "full" /\ ~p.error

(* Mutant: the packets played stay in the ring (158 missing).              *)
Unreset == packets

Advanced == [s \in Slots |-> IF s \in Window THEN Empty ELSE packets[s]]

NextOffset ==
  IF audio_offset = -1 THEN -1 ELSE Wrap(audio_offset + channel.audio_frames)

Later == IF audio_offset = -1 THEN now ELSE now + channel.audio_frames

Played == {[front |-> packets[s].front, back |-> packets[s].back] :
             s \in {s \in Window : Plays(packets[s])}}

-----------------------------------------------------------------------------
(* output_push                                                             *)

(* Mutant: a second half needs no first half (57 and 75 swapped).          *)
PushedAnyBack(p, n, shape, bad) ==
  IF shape = "back"
  THEN [p EXCEPT !.shape = "full", !.error = @ \/ bad, !.back = n]
  ELSE [shape |-> shape, error |-> bad, front |-> n,
        back |-> IF shape = "full" THEN n ELSE -1]

Pushed(p, n, shape, bad) ==
  IF shape = "back"
  THEN IF p.shape = "front"
       THEN [p EXCEPT !.shape = "full", !.error = @ \/ bad, !.back = n]
       ELSE p
  ELSE [shape |-> shape, error |-> bad, front |-> n,
        back |-> IF shape = "full" THEN n ELSE -1]

(* seq: the slot of the PDU's first packet.  The header has the number of  *)
(* the first packet that begins in the PDU.                                *)
Seq(e) == Wrap(ELASTIC_BUFFER_LEN + Wrap((e + 1) \div 2) - (e % 2))

(* p after the pushes of a PDU, some of whose packets had CRC errors.      *)
PduPushed(p, e, f, bad) ==
  [s \in Slots |->
     LET n == e \div 2 + Wrap(s - Seq(e))
     IN  IF n \in Numbers(e, f) THEN Pushed(p[s], n, Shape(n, e, f), n \in bad)
                                ELSE p[s]]

(* Mutant: the offset is not moved to the half the packets are in.         *)
UnmovedOffset(k, e) ==
  Wrap(ELASTIC_BUFFER_LEN + (k % PduSeqs) * channel.avg - 2 * station.latency)

(* output_offset: what pdu_seq and latency say, moved by half the ring     *)
(* where the packets would be too far ahead.                               *)
OutputOffset(k, e) ==
  LET o == Wrap(ELASTIC_BUFFER_LEN + (k % PduSeqs) * channel.avg
                  - 2 * station.latency)
      ahead == Wrap(ELASTIC_BUFFER_LEN + Seq(e) - o)
  IN  IF ahead >= Half THEN Wrap(o + Half) ELSE o

-----------------------------------------------------------------------------
Init ==
  /\ station \in [channel : Channels, latency : Latencies, phase : {0, Half}]
  /\ frame = PduSeqs * ELASTIC_BUFFER_LEN
  /\ start \in Starts(frame)
  /\ block = 0 /\ intact = TRUE
  /\ packets = [s \in Slots |-> Empty] /\ audio_offset = -1
  /\ out = {} /\ now = Base(frame)
  /\ fronts = {} /\ backs = {}
  /\ steady = ELASTIC_BUFFER_LEN /\ slips = 0

Steadier ==
  LET n == steady + Later - now
  IN  IF n > ELASTIC_BUFFER_LEN THEN ELASTIC_BUFFER_LEN ELSE n

(* output_advance, in a block that brings no PDU.                          *)
Advance ==
  /\ packets' = Advanced /\ audio_offset' = NextOffset
  /\ out' = Played /\ now' = Later /\ steady' = Steadier
  /\ fronts' = {n \in fronts : n >= Later}
  /\ backs' = {n \in backs : n >= Later}

(* The PDU on the air, from start to f, is over; so is its frame.          *)
NextFrame(f) ==
  /\ (frame - PduSeqs * ELASTIC_BUFFER_LEN) * channel.avg < MaxPackets
  /\ f \in Starts(frame + 1) /\ f > start
  /\ frame' = frame + 1 /\ start' = f
  /\ block' = 0 /\ intact' = TRUE
  /\ UNCHANGED station

LastBlock == block = channel.blocks - 1

(* acquire_process on a block before the last of a frame.                  *)
Block ==
  /\ ~LastBlock
  /\ Advance
  /\ block' = block + 1
  /\ UNCHANGED <<station, frame, start, intact, slips>>

(* ... on the last one, and frame_process can read the PDU.                *)
Receive(f, bad) ==
  /\ LastBlock /\ intact
  /\ NextFrame(f)
  /\ bad \subseteq Numbers(start, f)
  /\ packets' = PduPushed(Advanced, start, f, bad)
  /\ audio_offset' = OutputOffset(frame, start)
  /\ out' = Played /\ now' = Base(frame)
  /\ LET whole == Numbers(start, f) \ bad
     IN  /\ fronts' = {n \in fronts \cup {m \in whole : 2 * m >= start} : n >= now'}
         /\ backs' = {n \in backs \cup {m \in whole : 2 * m + 2 <= f} : n >= now'}
  /\ steady' = IF audio_offset = -1 \/ now' = Later THEN Steadier ELSE 0
  /\ UNCHANGED slips

(* ... or cannot: the header is beyond repair, or blocks are missing.      *)
Miss(f) ==
  /\ LastBlock
  /\ NextFrame(f)
  /\ Advance
  /\ UNCHANGED slips

(* A block is lost on its way to acquire_process ...                       *)
Skip(f) ==
  /\ slips < MaxSlips /\ slips' = slips + 1
  /\ IF LastBlock THEN NextFrame(f)
     ELSE /\ f = start
          /\ block' = block + 1 /\ intact' = FALSE
          /\ UNCHANGED <<station, frame, start>>
  /\ out' = {}
  /\ UNCHANGED <<ring, now, fronts, backs, steady>>

(* ... or acquire_keep_extra makes it run twice over a part of the signal. *)
Repeat ==
  /\ slips < MaxSlips /\ slips' = slips + 1
  /\ Advance
  /\ intact' = FALSE
  /\ UNCHANGED <<station, frame, start, block>>

output_reset ==
  /\ slips < MaxSlips /\ slips' = slips + 1
  /\ packets' = [s \in Slots |-> Empty] /\ audio_offset' = -1
  /\ fronts' = {} /\ backs' = {} /\ out' = {} /\ steady' = ELASTIC_BUFFER_LEN
  /\ UNCHANGED <<air, now>>

Next ==
  \/ Block \/ Repeat \/ output_reset
  \/ \E f \in Starts(frame + 1) :
       \/ Miss(f)
       \/ \E bad \in {{}} \cup {{n} : n \in Numbers(start, f)} : Receive(f, bad)
  \/ \E f \in Starts(frame + 1) \cup {start} : Skip(f)

Spec == Init /\ [][Next]_vars

-----------------------------------------------------------------------------
(* Properties.                                                             *)

Packets ==
  [shape : {"none", "full", "front"}, error : BOOLEAN, front : Nat \cup {-1},
   back : Nat \cup {-1}]

(* The types of elastic_buffer_t and of the packets in it.                 *)
TypeOK ==
  /\ station \in [channel : Channels, latency : Latencies, phase : {0, Half}]
  /\ frame \in Nat /\ start \in Nat
  /\ block \in 0..(channel.blocks - 1) /\ intact \in BOOLEAN
  /\ packets \in [Slots -> Packets] /\ audio_offset \in Slots \cup {-1}
  /\ now \in Nat
  /\ fronts \in SUBSET Nat /\ backs \in SUBSET Nat
  /\ steady \in 0..ELASTIC_BUFFER_LEN /\ slips \in 0..MaxSlips

(* The packets that can be played: both halves were received.              *)
Ready == fronts \cap backs

(* The ring holds what was received and not yet played, whole, each packet *)
(* in its slot, and nothing else, whatever was lost or damaged: from the   *)
(* start, and again one turn of the ring after the packet to play next has *)
(* jumped, which audio_offset does not show when it jumps by a whole turn  *)
(* (output.c 47-98, frame.c 600-641).                                      *)
RingIsFaithful ==
  /\ TypeOK
  /\ steady = ELASTIC_BUFFER_LEN =>
       \A s \in Slots :
         LET due == {n \in Ready : Wrap(n) = s}
         IN  IF Plays(packets[s])
             THEN packets[s].front = packets[s].back /\ due = {packets[s].front}
             ELSE due = {}

(* As long as no block was lost or doubled, audio_offset is the place of   *)
(* the packet the station means to be heard now, though the header gives   *)
(* the PDU's number modulo 8 and the packet's modulo 64 (frame.c 603-609). *)
InStep ==
  audio_offset # -1 =>
    /\ Wrap(now) = audio_offset
    /\ slips = 0 => now = Base(frame - 1) + block * channel.audio_frames

(* From a faithful ring a block plays packets that are whole and due, and  *)
(* no others (output.c 100-168).                                           *)
PlayedOnTime ==
  [][steady = ELASTIC_BUFFER_LEN =>
       \A p \in out' : p.front = p.back /\ p.front \in now..(Later - 1)]_vars
=============================================================================
