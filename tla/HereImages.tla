----------------------------- MODULE HereImages -----------------------------
(***************************************************************************)
(* Traffic and weather images: src/here_images.c.  The images come as a    *)
(* stream of bytes, cut without regard to them into messages with a 16-bit *)
(* sequence number.  In the stream a marker, which tells a length, begins  *)
(* each image's packet.  Messages are lost; the station sends the images   *)
(* of its tiles again and again, in any order, and renews them.            *)
(*                                                                         *)
(* A unit of the stream stands for some bytes of it: the two halves of a   *)
(* marker, the second with the length, and the parts of a packet, each     *)
(* with the tile and the timestamp its packet's header has.                *)
(***************************************************************************)
EXTENDS Integers, SequencesExt

CONSTANTS
  HERE_TRAFFIC_TILES,  (* tiles of a traffic map, 9; tile 0 is the weather  *)
  Tiles,               (* what the station sends, maps of other sizes too   *)
  PacketLen,           (* units of a packet, by tile                        *)
  MaxPacket,           (* units of the longest packet                       *)
  MinLen,              (* units of the shortest packet with an image in it  *)
  SeqNums,             (* sequence numbers, 65536                           *)
  MaxChunk,            (* bound: units in a message                         *)
  MaxTime              (* bound: timestamps                                 *)

ASSUME HereAssumption ==
  /\ {HERE_TRAFFIC_TILES, MaxPacket, MinLen, SeqNums, MaxChunk, MaxTime}
       \subseteq Nat \ {0}
  /\ Tiles \subseteq Nat /\ PacketLen \in [Tiles -> 1..MaxPacket]

VARIABLES
  (* here_images_t; buffer is what buffer_idx counts of it, sync_state the  *)
  (* last unit                                                              *)
  expected_seq, payload_len, buffer, sync_state, last_timestamp,
  (* the station: units to be sent, the next sequence number, timestamps    *)
  line, seq, time,
  (* history: images reported since the reset, those that came whole,       *)
  (* whether one was made of several, units that came in a row, and         *)
  (* messages lost in a row                                                 *)
  shown, due, mixed, inRow, lost

here_images == <<expected_seq, payload_len, buffer, sync_state, last_timestamp>>
station == <<line, seq, time>>
hereHistory == <<shown, due, mixed, inRow, lost>>
hereVars == <<here_images, station, hereHistory>>

Marker(n, k) == <<-1, n, k>>
Payload(tile, t) == [k \in 1..PacketLen[tile] |-> <<tile, t, k>>]
Packet(tile, t) ==
  <<Marker(0, 1), Marker(PacketLen[tile], 2)>> \o Payload(tile, t)
Images == Tiles \X (1..MaxTime)

-----------------------------------------------------------------------------
(* process_packet: a packet too short, of another type or of a tile a      *)
(* traffic map does not have, and an image whose timestamp was the tile's  *)
(* last, are dropped.                                                      *)
NewImage(r) ==
  LET tile == r.buffer[1][1]
  IN  /\ r.payload_len >= MinLen
      /\ tile \in 0..HERE_TRAFFIC_TILES
      /\ r.last_timestamp[tile] # r.buffer[1][2]

process_packet(r) ==
  IF NewImage(r)
  THEN [r EXCEPT !.payload_len = -1, !.reports = Append(@, r.buffer),
                 !.last_timestamp[r.buffer[1][1]] = r.buffer[1][2]]
  ELSE [r EXCEPT !.payload_len = -1]

(* One unit: waiting for a marker, or taking a packet.                     *)
Taken(r, u) ==
  LET s == [r EXCEPT !.sync_state = u]
      full == [s EXCEPT !.buffer = Append(@, u)]
  IN CASE r.payload_len = -1 /\ r.sync_state = Marker(0, 1) /\ u[1] = -1 /\ u[3] = 2 ->
            [s EXCEPT !.payload_len = u[2], !.buffer = << >>]
       [] r.payload_len # -1 ->
            IF Len(full.buffer) = r.payload_len THEN process_packet(full) ELSE full
       [] OTHER -> s

(* Mutant: the bytes of a marker are looked for in one message. *)
BegunForgetful(n) ==
  [payload_len |-> IF n = expected_seq THEN payload_len ELSE -1,
   buffer |-> IF n = expected_seq THEN buffer ELSE << >>,
   sync_state |-> << >>, last_timestamp |-> last_timestamp, reports |-> << >>]

(* here_images_push: a message that is not the next one begins again.      *)
Begun(n) ==
  IF n = expected_seq
  THEN [payload_len |-> payload_len, buffer |-> buffer, sync_state |-> sync_state,
        last_timestamp |-> last_timestamp, reports |-> << >>]
  ELSE [payload_len |-> -1, buffer |-> << >>, sync_state |-> << >>,
        last_timestamp |-> last_timestamp, reports |-> << >>]

(* A message: all its units, one after the other.                          *)
AllTaken(n, units) ==
  LET r[k \in 0..Len(units)] ==
        IF k = 0 THEN Begun(n) ELSE Taken(r[k - 1], units[k])
  IN r[Len(units)]

(* The history after units have come: what was reported, and               *)
(* the images whose whole packet has come in a row.                        *)
Image(b) == <<b[1][1], b[1][2]>>
Recorded(units, reports, before) ==
  /\ shown' = [i \in Images |->
                 Min({2, shown[i] + Cardinality({k \in DOMAIN reports : Image(reports[k]) = i})})]
  /\ mixed' = (mixed \/ \E k \in DOMAIN reports :
                 reports[k] # Payload(reports[k][1][1], reports[k][1][2]))
  /\ due' = due \cup {i \in Images :
                /\ i[1] \in 0..HERE_TRAFFIC_TILES /\ PacketLen[i[1]] >= MinLen
                /\ \E k \in DOMAIN units :
                     /\ units[k] = <<i[1], i[2], PacketLen[i[1]]>>
                     /\ before + k >= Len(Packet(i[1], i[2]))}
  /\ inRow' = Min({before + Len(units), MaxPacket + 2})

here_images_push(n, units) ==
  \E r \in {AllTaken(n, units)} :
    /\ expected_seq' = (n + 1) % SeqNums
    /\ payload_len' = r.payload_len /\ sync_state' = r.sync_state
    /\ buffer' = IF r.payload_len = -1 THEN << >> ELSE r.buffer
    /\ last_timestamp' = r.last_timestamp
    /\ Recorded(units, r.reports, inRow)

(* Mutant: the sequence number is kept. *)
here_images_resetKeepsSeq ==
  /\ last_timestamp' = [k \in 0..HERE_TRAFFIC_TILES |-> 0]
  /\ UNCHANGED <<expected_seq, payload_len, buffer, sync_state>>

(* here_images_reset leaves the packet it was in: the message that comes   *)
(* next is not the next one.                                               *)
here_images_reset ==
  /\ expected_seq' = -1
  /\ last_timestamp' = [k \in 0..HERE_TRAFFIC_TILES |-> 0]
  /\ UNCHANGED <<payload_len, buffer, sync_state>>

-----------------------------------------------------------------------------
(* The station.                                                            *)
HereInit ==
  /\ expected_seq = -1 /\ payload_len = 0 /\ buffer = << >> /\ sync_state = << >>
  /\ last_timestamp = [k \in 0..HERE_TRAFFIC_TILES |-> 0]
  /\ line = << >> /\ seq \in 0..(SeqNums - 1) /\ time = [i \in Tiles |-> 1]
  /\ shown = [i \in Images |-> 0] /\ due = {} /\ mixed = FALSE /\ inRow = 0 /\ lost = 0

(* It puts an image on its line, perhaps a new one.                        *)
Air(tile) ==
  /\ Len(line) < MaxChunk
  /\ \E t \in {time[tile], Min({time[tile] + 1, MaxTime})} :
       /\ time' = [time EXCEPT ![tile] = t]
       /\ line' = line \o Packet(tile, t)
  /\ UNCHANGED <<here_images, seq, hereHistory>>

(* It sends a message of n units.                                          *)
Sends(n) ==
  /\ MaxChunk <= Len(line)
  /\ line' = SubSeq(line, n + 1, Len(line))
  /\ seq' = (seq + 1) % SeqNums /\ UNCHANGED time

(* The message arrives ...                                                 *)
Arrives(n) ==
  /\ Sends(n) /\ lost' = 0
  /\ here_images_push(seq, SubSeq(line, 1, n))

(* ... or is lost, but not all messages until the numbers come again.      *)
Misses(n) ==
  /\ Sends(n) /\ (expected_seq = -1 \/ lost + 1 < SeqNums)
  /\ lost' = Min({lost + 1, SeqNums}) /\ inRow' = 0
  /\ UNCHANGED <<here_images, shown, due, mixed>>

-----------------------------------------------------------------------------
(* Properties.                                                             *)

(* An image handed over is one the station sent, whole, whatever messages  *)
(* were lost and wherever they were cut; also when a reset falls within    *)
(* one, which leaves payload_len and the buffer as they are.  And it is    *)
(* handed over once, though the station repeats it and those of other      *)
(* tiles come in between.                                                  *)
ImagesWhole == ~mixed /\ \A i \in Images : shown[i] <= 1

(* An image that has come whole has been handed over: a loss costs the     *)
(* image it falls in and no other, and no cut hides a marker.              *)
ImagesCaught == \A i \in due : shown[i] >= 1
=============================================================================
