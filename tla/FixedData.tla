----------------------------- MODULE FixedData ------------------------------
(***************************************************************************)
(* The fixed data of one logical channel: frame_push and                   *)
(* process_fixed_data of src/frame.c.  The last byte of a PDU tells the    *)
(* width of the control field before it.  The control field carries an     *)
(* HDLC stream of CCC packets, which tell the lengths of the subchannels   *)
(* that lie before it.  A subchannel carries blocks, each a marker and a   *)
(* payload, and the payloads carry an HDLC stream of AAS frames.           *)
(*                                                                         *)
(* PDUs are lost and damaged, and synchronisation is lost, at any point.   *)
(* A byte is a pair <<kind, value>>.  An FCS tells a whole frame from any  *)
(* other bytes; escapes, which cost a byte and change no boundary, are     *)
(* left out.                                                               *)
(*                                                                         *)
(* The station's subchannels are of mode 0, the only one frame.c supports, *)
(* and fit its PDU.  process_fixed_ccc gives a subchannel of another mode  *)
(* the length 0, and process_fixed_data then passes over it without moving *)
(* p (frame.c 420-434, 490-493).  Before all those of mode 0 such a        *)
(* subchannel changes nothing and is part of Audio; one between them and   *)
(* the control field, which makes those before it be cut out at the wrong  *)
(* place, is not modelled.                                                 *)
(***************************************************************************)
EXTENDS Integers, SequencesExt

CONSTANTS
  MAX_AAS_LEN,   (* longest HDLC frame, 8212                               *)
  CCC_BUF,       (* longest CCC packet, 32                                 *)
  BBM_LEN,       (* bytes of a marker, 4                                   *)
  PAYLOAD,       (* bytes of a block after its marker, 255                 *)
  Width,         (* the station's control field                            *)
  Lengths,       (* the station's subchannels: a length for each of 0..3   *)
  FrameLen,      (* bytes of an AAS frame                                  *)
  CccLen,        (* bytes of a CCC packet                                  *)
  NFrames,       (* bound: frames sent on each subchannel, then flags only *)
  Idle,          (* blocks of flags before them                            *)
  MaxErrors      (* bound: damaged or lost PDUs, and resets                *)

Subchannels == 0..3
Used == {i \in Subchannels : Lengths[i] > 0}
BlockLen == BBM_LEN + PAYLOAD

ASSUME LayoutAssumption ==
  /\ {MAX_AAS_LEN, CCC_BUF, BBM_LEN, PAYLOAD, FrameLen, CccLen} \subseteq Nat \ {0}
  /\ FrameLen <= MAX_AAS_LEN /\ CccLen <= CCC_BUF
  /\ Width \in {1} \cup {2 * k : k \in 1..15}
  /\ Lengths \in [Subchannels -> Nat]
  /\ NFrames \in Nat /\ Idle \in Nat \ {0} /\ MaxErrors \in Nat

VARIABLES
  (* frame_t and ccc_data_t *)
  sync_width, sync_count, ccc, fixed_ready, subchannel,
  (* the station: the next byte of each stream it sends *)
  cpos, pos,
  (* the bound, and what the properties need *)
  errors,
  delivered,     (* per subchannel, the frames given to output_aas_push    *)
  calm,          (* per subchannel, bytes processed in order and undamaged *)
  due,           (* per subchannel, the frames that were bound to arrive   *)
  clean          (* PDUs received since the last fault                     *)

receiver == <<sync_width, sync_count, ccc, fixed_ready, subchannel>>
history == <<delivered, calm, due, clean>>
vars == <<receiver, cpos, pos, errors, history>>

(***************************************************************************)
(* What the station sends.                                                 *)
(***************************************************************************)
Flag == <<"flag", 0>>                 (* 0x7E *)
Junk == <<"junk", 0>>
Marker(k) == <<"bbm", k>>             (* 0x7D 0x3A 0xE2 0x42 *)
WidthByte(w) == <<"width", w>>
BBM == [k \in 1..BBM_LEN |-> Marker(k)]

Packet == [k \in 1..CccLen |-> <<"ccc", k>>]
Frame == [n \in 1..NFrames |->
            [k \in 1..FrameLen |-> <<"aas", n * (FrameLen + 1) + k>>]]

Min2(a, b) == IF a <= b THEN a ELSE b

(* The streams: flags up to FramesFrom, frames, flags again from FramesEnd *)
FramesFrom == Idle * BlockLen
PayloadByte(q) ==
  LET n == 1 + q \div (FrameLen + 1)
      k == q % (FrameLen + 1)
  IN IF q < 0 \/ k = 0 \/ n > NFrames THEN Flag ELSE Frame[n][k]
ControlByte(j) ==
  LET k == j % (CccLen + 1) IN IF k = 0 THEN Flag ELSE Packet[k]

(* Where frame n begins, and the end of the block that closes it.          *)
Opening(n) ==
  LET q == (n - 1) * (FrameLen + 1)
  IN FramesFrom + (q \div PAYLOAD) * BlockLen + BBM_LEN + (q % PAYLOAD)
Complete(n) ==
  FramesFrom + ((n * (FrameLen + 1)) \div PAYLOAD + 1) * BlockLen
FramesEnd == Complete(NFrames)

(* While it only sends flags, positions a block apart are the same: the    *)
(* station stays before its frames as long as it likes, and after them for *)
(* ever.                                                                   *)
After(p, stay) ==
  CASE p >= FramesEnd -> FramesEnd + ((p - FramesEnd) % BlockLen)
    [] p <= FramesFrom /\ stay -> p % BlockLen
    [] OTHER -> p

(* Where subchannel i begins when p bytes precede the control field.       *)
Start(length, i, p) ==
  LET start[j \in 0..4] == IF j = 4 THEN p + 1 ELSE start[j + 1] - length[j]
  IN start[i]

Control == [k \in 1..Width |-> ControlByte(cpos + k - 1)]
Audio == [k \in 1..Width + 3 |-> Junk]
Size == Len(Audio) + Start(Lengths, 4, 0) - Start(Lengths, 0, 0) + Width + 1
Stream == [j \in 0..FramesEnd + BlockLen + Size |->
  LET b == j \div BlockLen
      k == j % BlockLen
  IN IF k < BBM_LEN THEN Marker(k + 1)
     ELSE PayloadByte((b - Idle) * PAYLOAD + k - BBM_LEN)]
Slice(i) == [k \in 1..Lengths[i] |-> Stream[pos[i] + k - 1]]
PDU == Audio \o Slice(0) \o Slice(1) \o Slice(2) \o Slice(3)
             \o Control \o <<WidthByte(Width)>>

Send ==
  /\ cpos' = (cpos + Width) % (CccLen + 1)
  /\ pos' \in {[i \in Subchannels |-> After(pos[i] + Lengths[i], stay)] : stay \in BOOLEAN}

(* Mutant: the test for a full buffer lets one byte too many in. *)
HdlcByteOverrun(r, b, size) ==
  IF b = Flag
  THEN [rest |-> <<Flag>>,
        out |-> IF r.rest = << >> THEN r.out ELSE Append(r.out, r.rest)]
  ELSE [r EXCEPT !.rest = IF @ # << >> /\ Len(@) <= size + 1 THEN Append(@, b) ELSE << >>]

(***************************************************************************)
(* parse_hdlc: a flag ends a frame and begins the next.  rest holds the    *)
(* last flag and what followed it, and is empty (index -1) before the      *)
(* first flag and from an overflow to the next.                            *)
(***************************************************************************)
HdlcByte(r, b, size) ==
  IF b = Flag
  THEN [rest |-> <<Flag>>,
        out |-> IF r.rest = << >> THEN r.out ELSE Append(r.out, r.rest)]
  ELSE [r EXCEPT !.rest = IF @ # << >> /\ Len(@) <= size THEN Append(@, b) ELSE << >>]
parse_hdlc(h, bytes, size) ==
  LET read[k \in 0..Len(bytes)] ==
        IF k = 0 THEN [rest |-> h, out |-> << >>]
        ELSE HdlcByte(read[k - 1], bytes[k], size)
  IN read[Len(bytes)]

(* The frames aas_push hands over, by number: those with a good FCS.       *)
Good(f) == \E n \in 1..NFrames : f = <<Flag>> \o Frame[n]
Number(f) == IF Good(f) THEN CHOOSE n \in 1..NFrames : f = <<Flag>> \o Frame[n] ELSE 0
(* Mutant: the FCS is not looked at. *)
aas_pushUnchecked(out) ==
  LET some == SelectSeq(out, LAMBDA f : f # <<Flag>>)
  IN [k \in DOMAIN some |-> Number(some[k])]
aas_push(out) ==
  LET pushed[k \in 0..Len(out)] ==
        CASE k = 0 -> << >>
          [] k > 0 /\ Good(out[k]) -> Append(pushed[k - 1], Number(out[k]))
          [] OTHER -> pushed[k - 1]
  IN pushed[Len(out)]

(* Mutant: a window that does not match is thrown away whole. *)
CutSkipping(all) ==
  LET cut[k \in 1..Len(all) + BBM_LEN] ==
        CASE k + BBM_LEN - 1 > Len(all) -> [rest |-> SubSeq(all, k, Len(all)), payload |-> << >>]
          [] k + BBM_LEN - 1 <= Len(all) /\ SubSeq(all, k, k + BBM_LEN - 1) # BBM ->
               cut[k + BBM_LEN]
          [] OTHER ->
               IF k + BlockLen - 1 > Len(all)
               THEN [rest |-> SubSeq(all, k, Len(all)), payload |-> << >>]
               ELSE [cut[k + BlockLen] EXCEPT
                       !.payload = SubSeq(all, k + BBM_LEN, k + BlockLen - 1) \o @]
  IN cut[1]

(* The bytes from k on: until a marker is found the window moves a byte at *)
(* a time; a complete block goes to the HDLC parser (process_fixed_block). *)
Cut(all) ==
  LET cut[k \in 1..Len(all) + 1] ==
        CASE k + BBM_LEN - 1 > Len(all) -> [rest |-> SubSeq(all, k, Len(all)), payload |-> << >>]
          [] k + BBM_LEN - 1 <= Len(all) /\ SubSeq(all, k, k + BBM_LEN - 1) # BBM -> cut[k + 1]
          [] OTHER ->
               IF k + BlockLen - 1 > Len(all)
               THEN [rest |-> SubSeq(all, k, Len(all)), payload |-> << >>]
               ELSE [cut[k + BlockLen] EXCEPT
                       !.payload = SubSeq(all, k + BBM_LEN, k + BlockLen - 1) \o @]
  IN cut[1]
process_subchannel(c, bytes) ==
  LET cut == Cut(c.blocks \o bytes)
      h == parse_hdlc(c.hdlc, cut.payload, MAX_AAS_LEN)
  IN [state |-> [c EXCEPT !.blocks = cut.rest, !.hdlc = h.rest],
      frames |-> aas_push(h.out)]

Unused == [length |-> 0, blocks |-> << >>, hdlc |-> << >>]

(* process_fixed_ccc: the first good packet tells the lengths, for good.   *)
(* (All of mode 0: a length is never put to 0 for its mode.)               *)
IsReady(h) == fixed_ready \/ \E k \in DOMAIN h.out : h.out[k] = <<Flag>> \o Packet
process_fixed_ccc(h) ==
  IF IsReady(h) /\ ~fixed_ready
  THEN [i \in Subchannels |-> [Unused EXCEPT !.length = Lengths[i]]]
  ELSE subchannel

(* The width is believed once three PDUs in a row have told it.            *)
ByteWidth(b) == IF b[1] = "width" THEN b[2] ELSE 0
(* Mutants: two PDUs are enough; the first width is kept until a reset. *)
BelievedSoon(w) ==
  /\ sync_width' = IF sync_count < 2 THEN w ELSE sync_width
  /\ sync_count' = IF sync_count = 2 \/ (w > 0 /\ w = sync_width) THEN 2 ELSE 0
BelievedFirst(w) ==
  /\ sync_width' = IF sync_width = 0 THEN w ELSE sync_width
  /\ sync_count' = CASE sync_count = 2 -> 2
                     [] sync_count < 2 /\ w > 0 /\ w = sync_width -> sync_count + 1
                     [] OTHER -> 0
Believed(w) ==
  /\ sync_width' = IF sync_count < 2 THEN w ELSE sync_width
  /\ sync_count' = CASE sync_count = 2 -> 2
                     [] sync_count < 2 /\ w > 0 /\ w = sync_width -> sync_count + 1
                     [] OTHER -> 0

process_fixed_data(pdu) ==
  /\ Believed(ByteWidth(pdu[Len(pdu)]))
  /\ IF sync_count' < 2
     THEN UNCHANGED <<ccc, fixed_ready, subchannel, delivered>>
     ELSE \E p \in {Len(pdu) - 1 - sync_width'} :
          \E h \in {parse_hdlc(ccc, SubSeq(pdu, p + 1, Len(pdu) - 1), CCC_BUF)} :
          \E c \in {process_fixed_ccc(h)} :
          \E length \in {[i \in Subchannels |-> c[i].length]} :
          \E d \in {[i \in Subchannels |-> process_subchannel(c[i],
                       SubSeq(pdu, Start(length, i, p), Start(length, i + 1, p) - 1))]} :
            /\ ccc' = h.rest
            /\ fixed_ready' = IsReady(h)
            /\ subchannel' = [i \in Subchannels |-> d[i].state]
            /\ delivered' = [i \in Subchannels |-> delivered[i] \o d[i].frames]

(***************************************************************************)
(* What the properties need.  hit: the subchannels whose bytes of this PDU *)
(* did not get through.  A frame whose first block begins Lead bytes after *)
(* the last hit is due once its last block is there: the window waits at   *)
(* worst for the payload of a block whose marker was the last it got, and  *)
(* where it stands then it slides to the next marker.                      *)
(***************************************************************************)
Lead == PAYLOAD
FirstBlock(n) == (Opening(n) \div BlockLen) * BlockLen
(* Three PDUs tell the width; the packet that begins after the third is the *)
(* first that is sure to be read whole.                                    *)
OpenWithin == 3 + (2 * CccLen + 1) \div Width
CalmCap(i) == Lead + (FrameLen \div PAYLOAD + 2) * BlockLen + Lengths[i]

Recorded(hit) ==
  /\ calm' = [i \in Subchannels |->
                IF i \in hit \/ ~fixed_ready' THEN 0
                ELSE Min2(CalmCap(i), calm[i] + Lengths[i])]
  /\ due' = [i \in Subchannels |->
               LET end == pos[i] + Lengths[i]
               IN due[i] \cup {n \in 1..NFrames :
                    /\ pos[i] < Complete(n) /\ Complete(n) <= end
                    /\ calm'[i] >= end - FirstBlock(n) + Lead}]

Begun(i) == Cardinality({n \in 1..NFrames : Opening(n) < pos[i]})

(***************************************************************************)
(* The steps.  frame_push takes the header bits out of a frame of bits and *)
(* has_fixed looks at them: a damaged header (or no frame at all, or one   *)
(* of a length it does not know) and the PDU's fixed data are skipped.     *)
(***************************************************************************)
Init ==
  /\ sync_width = 0 /\ sync_count = 0 /\ ccc = << >> /\ fixed_ready = FALSE
  /\ subchannel = [i \in Subchannels |-> Unused]
  /\ cpos = 0 /\ pos = [i \in Subchannels |-> 0] /\ errors = 0
  /\ delivered = [i \in Subchannels |-> << >>]
  /\ calm = [i \in Subchannels |-> 0] /\ due = [i \in Subchannels |-> {}]
  /\ clean = 0

Receive ==
  /\ \E pdu \in {PDU} : process_fixed_data(pdu)
  /\ Recorded({}) /\ clean' = Min2(OpenWithin, clean + 1)
  /\ Send /\ UNCHANGED errors

Fault == errors < MaxErrors /\ errors' = errors + 1 /\ clean' = 0

(* One byte of the PDU is another one: a flag, a byte that belongs to      *)
(* nothing, or a wrong width.                                              *)
Damages(k) == IF k < Size THEN {Flag, Junk} ELSE {Junk, WidthByte(Width + 2)}
Damage(k, b) ==
  /\ Fault
  /\ \E pdu \in {PDU} : process_fixed_data([pdu EXCEPT ![k] = b])
  /\ \E p \in {Size - 1 - Width} :
       Recorded({i \in Subchannels :
                   k \in Start(Lengths, i, p)..(Start(Lengths, i + 1, p) - 1)})
  /\ Send

Miss ==
  /\ Fault /\ UNCHANGED receiver /\ UNCHANGED delivered
  /\ Recorded(Subchannels) /\ Send

(* frame_reset, when synchronisation is lost.  It leaves the subchannels   *)
(* as they are.                                                            *)
Reset ==
  /\ Fault
  /\ sync_width' = 0 /\ sync_count' = 0 /\ ccc' = << >> /\ fixed_ready' = FALSE
  /\ calm' = [i \in Subchannels |-> 0]
  /\ UNCHANGED <<subchannel, cpos, pos, delivered, due>>

Next ==
  \/ Receive
  \/ Miss
  \/ Reset
  \/ \E k \in (Len(Audio) + 1)..Size : \E b \in Damages(k) : Damage(k, b)

Spec == Init /\ [][Next]_vars
(***************************************************************************)
(* Properties.                                                             *)
(***************************************************************************)
(* Type: an open window or HDLC buffer never holds more than its array.    *)
TypeOK ==
  /\ sync_width \in 0..Width + 2 /\ sync_count \in 0..2
  /\ fixed_ready \in BOOLEAN /\ Len(ccc) <= CCC_BUF + 1
  /\ \A i \in Subchannels :
       /\ subchannel[i].length \in {0, Lengths[i]}
       /\ Len(subchannel[i].blocks) < BlockLen
       /\ Len(subchannel[i].hdlc) <= MAX_AAS_LEN + 1

(* process_fixed_data looks at the width of a PDU only until it believes   *)
(* one, and takes no notice of any later one: a width it believes must be  *)
(* the station's, which less than three damaged bytes cannot undo, and the *)
(* subchannels it cuts out are then the station's subchannels.             *)
WidthTrue == sync_count = 2 => sync_width = Width

(* process_fixed_data realigns: wherever bytes were damaged or lost, every *)
(* frame of the subchannel whose first block begins a payload's length     *)
(* after the last of them arrives, and bytes damaged in one subchannel or  *)
(* in the control field cost the others nothing.                           *)
CleanDelivers ==
  \A i \in Used : due[i] \subseteq ToSet(delivered[i])

(* Each subchannel is a FrameChannel: what aas_push hands over is sent by  *)
(* the station, in order, nothing twice, whatever was cut, merged by a     *)
(* lost flag, or left in the buffers by a reset.                           *)
Promise ==
  INSTANCE FrameChannel WITH Channels <- Subchannels, Frames <- 1..NFrames,
                             sent <- [i \in Subchannels |-> Begun(i)]
FramesInOrder == Promise!Spec

(* The channel opens: whatever widths, packets and flags were damaged      *)
(* before, a short run of good PDUs makes the subchannels known.           *)
Opens == clean = OpenWithin => fixed_ready

=============================================================================
