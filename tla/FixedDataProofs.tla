-------------------------- MODULE FixedDataProofs ---------------------------
(***************************************************************************)
(* Proofs about FixedData, for any layout of the channel (with subchannels *)
(* of mode 0 that fit its PDU), any lengths of blocks, frames and packets. *)
(*                                                                         *)
(* The buffers: parse_hdlc keeps at most its size and the flag before it,  *)
(* and the cutting of blocks leaves less than a block, whatever the bytes. *)
(* The width: each PDU that tells a wrong one is a fault, so a wrong one   *)
(* that is believed has cost three.  The opening: while good PDUs come,    *)
(* the control field's buffer holds exactly what the station sent since    *)
(* its last flag, as soon as that flag was read, so the first packet that  *)
(* was sent whole after the width was known is recognised.                 *)
(*                                                                         *)
(* The frames: the bytes of the frames of a subchannel are numbered in the *)
(* order they are sent.  What a subchannel holds of them, in its window    *)
(* and in its HDLC buffer, rises, was sent before the station's place, and *)
(* lies after every frame that was handed over; cutting, parsing, loss and *)
(* damage keep that, so what is handed over next is a later frame.         *)
(*                                                                         *)
(* The delivery: since the last bytes a subchannel lost, its window stands *)
(* at a block of the station, or before the first one that matters; what   *)
(* it has of them since then is what was sent.  The markers it slides to   *)
(* are then the station's, for no byte of a payload looks like one, the    *)
(* end of what it cuts is the end of what the station packed, and the HDLC *)
(* buffer holds the piece of the frame that it has so far: the frame comes *)
(* out when its last block does.                                           *)
(***************************************************************************)
EXTENDS FixedData, FiniteSetTheorems, SequenceTheorems, TLAPS

(* Every non-empty set of natural numbers has a least element: inclusion   *)
(* is well-founded on the sets 0..k.  Proofs by induction use it on the    *)
(* places where a claim fails.                                             *)
LEMMA LeastNat ==
  ASSUME NEW D \in SUBSET Nat, D # {}
  PROVE  \E m \in D : \A k \in D : m <= k
<1> DEFINE R == StrictSubsetOrdering(Nat)
           F == FiniteSubsetsOf(Nat)
           T == {0..k : k \in D}
<1>1. \A k \in Nat : 0..k \in F
  BY FS_Interval, 0 \in Int, Nat \subseteq Int DEF FiniteSubsetsOf
<1>2. \A k, m \in Nat : k < m => <<0..k, 0..m>> \in R
  <2> TAKE k, m \in Nat
  <2>1. k < m => 0..k \subseteq 0..m /\ m \in 0..m /\ m \notin 0..k OBVIOUS
  <2> QED BY <2>1, 0..k \subseteq Nat, 0..m \subseteq Nat DEF StrictSubsetOrdering
<1>3. IsWellFoundedOn(R, F) BY FS_StrictSubsetOrderingWellFounded
<1>4. T \subseteq F /\ T # {} BY <1>1
<1> HIDE DEF R, F, T
<1>5. \E x \in T : \A y \in T : <<y, x>> \notin R
  BY <1>3, <1>4, WFMin
<1>6. PICK m \in D : \A k \in D : <<0..k, 0..m>> \notin R
  BY <1>5 DEF T
<1>7. \A k \in D : ~(k < m) BY <1>2, <1>6
<1> QED BY <1>7

(* What LayoutAssumption says of each constant.                            *)
LEMMA LayoutFacts ==
  /\ MAX_AAS_LEN \in Nat \ {0} /\ CCC_BUF \in Nat \ {0} /\ BBM_LEN \in Nat \ {0}
  /\ PAYLOAD \in Nat \ {0} /\ FrameLen \in Nat \ {0} /\ CccLen \in Nat \ {0}
  /\ BlockLen \in Nat /\ BBM_LEN < BlockLen
  /\ Width \in Nat \ {0}
  /\ Lengths \in [Subchannels -> Nat]
  /\ NFrames \in Nat /\ Idle \in Nat \ {0} /\ MaxErrors \in Nat
BY LayoutAssumption DEF BlockLen

(* A function on 1..n is a sequence of length n.                           *)
LEMMA FcnIsSeq ==
  ASSUME NEW S, NEW n \in Nat, NEW f \in [1..n -> S]
  PROVE  f \in Seq(S) /\ Len(f) = n
BY SeqDef

(* Remainders and quotients of natural numbers.                            *)
LEMMA DivMod ==
  ASSUME NEW a \in Nat, NEW b \in Nat \ {0}
  PROVE  a % b \in 0..(b - 1) /\ a \div b \in Nat
OBVIOUS

(* Division with remainder.                                                *)
LEMMA DivModIs ==
  ASSUME NEW a \in Nat, NEW b \in Nat \ {0}
  PROVE  \E q \in Nat, r \in 0..(b - 1) : q = a \div b /\ r = a % b /\ a = b * q + r
<1>1. a % b = a - b * (a \div b) OBVIOUS
<1>2. PICK q \in Nat : q = a \div b BY DivMod
<1>3. PICK r \in 0..(b - 1) : r = a % b BY DivMod
<1>4. PICK s \in Nat : s = b * q OBVIOUS
<1>5. r = a - s BY <1>1, <1>2, <1>3, <1>4
<1>6. a = s + r BY <1>5
<1>7. a = b * q + r BY <1>4, <1>6
<1> QED BY <1>2, <1>3, <1>7

(* The remainder is the only one.                                          *)
LEMMA ModUnique ==
  ASSUME NEW q \in Nat, NEW b \in Nat \ {0}, NEW r \in 0..(b - 1)
  PROVE  (b * q + r) % b = r
OBVIOUS

(* The remainder of the next number: it counts up and wraps.               *)
LEMMA ModStep ==
  ASSUME NEW a \in Nat, NEW b \in Nat \ {0}
  PROVE  (a + 1) % b = IF (a % b) + 1 = b THEN 0 ELSE (a % b) + 1
<1>1. PICK q \in Nat, r \in 0..(b - 1) : q = a \div b /\ r = a % b /\ a = b * q + r
  BY DivModIs
<1>2. a = b * q + r BY <1>1
<1>3. CASE r + 1 = b
  <2>1. a + 1 = b * (q + 1) + 0 BY <1>2, <1>3
  <2>2. (b * (q + 1) + 0) % b = 0 BY ModUnique
  <2> QED BY <1>1, <1>3, <2>1, <2>2
<1>4. CASE r + 1 # b
  <2>1. a + 1 = b * q + (r + 1) /\ r + 1 \in 0..(b - 1) BY <1>2, <1>4
  <2>2. (b * q + (r + 1)) % b = r + 1 BY <2>1, ModUnique
  <2> QED BY <1>1, <1>4, <2>1, <2>2
<1> QED BY <1>3, <1>4

(* A number below the divisor is its own remainder.                        *)
LEMMA SmallMod ==
  ASSUME NEW b \in Nat \ {0}, NEW a \in 0..(b - 1)
  PROVE  a % b = a
OBVIOUS

(* One more of b is b more.                                                *)
LEMMA ProductStep ==
  ASSUME NEW a \in Nat, NEW b \in Nat
  PROVE  (a + 1) * b = a * b + b /\ a * b \in Nat
OBVIOUS

(* Products of natural numbers are natural numbers.                        *)
LEMMA ProductNat ==
  ASSUME NEW a \in Nat, NEW b \in Nat
  PROVE  a * b \in Nat
OBVIOUS

-----------------------------------------------------------------------------
(* Where the subchannels lie.                                              *)
LEMMA StartIs ==
  ASSUME NEW length \in [Subchannels -> Nat], NEW p \in Int
  PROVE  /\ Start(length, 4, p) = p + 1
         /\ Start(length, 3, p) = p + 1 - length[3]
         /\ Start(length, 2, p) = p + 1 - length[3] - length[2]
         /\ Start(length, 1, p) = p + 1 - length[3] - length[2] - length[1]
         /\ Start(length, 0, p) = p + 1 - length[3] - length[2] - length[1] - length[0]
<1> DEFINE g == [j \in 0..4 |->
       CASE j = 4 -> p + 1
         [] j = 3 -> p + 1 - length[3]
         [] j = 2 -> p + 1 - length[3] - length[2]
         [] j = 1 -> p + 1 - length[3] - length[2] - length[1]
         [] j = 0 -> p + 1 - length[3] - length[2] - length[1] - length[0]]
       R(f) == f = [j \in 0..4 |-> IF j = 4 THEN p + 1 ELSE f[j + 1] - length[j]]
       s == CHOOSE f : R(f)
<1>1. R(g)
  BY DEF Subchannels
<1>2. R(s)
  BY <1>1
<1> HIDE DEF g
<1>3. /\ Start(length, 4, p) = s[4] /\ Start(length, 3, p) = s[3]
      /\ Start(length, 2, p) = s[2] /\ Start(length, 1, p) = s[1]
      /\ Start(length, 0, p) = s[0]
  BY DEF Start
<1> HIDE DEF s
<1>4. /\ s[4] = p + 1 /\ s[3] = s[4] - length[3] /\ s[2] = s[3] - length[2]
      /\ s[1] = s[2] - length[1] /\ s[0] = s[1] - length[0]
  BY <1>2
<1>5. length[0] \in Nat /\ length[1] \in Nat /\ length[2] \in Nat /\ length[3] \in Nat
  BY DEF Subchannels
<1> QED BY <1>3, <1>4, <1>5

(* The length of a PDU, from the lengths of its parts.                     *)
LEMMA SizeIs ==
  /\ Size \in Nat
  /\ Size = 2 * Width + 4 + Lengths[0] + Lengths[1] + Lengths[2] + Lengths[3]
<1>1. Audio \in [1..Width + 3 -> {Junk}] BY DEF Audio
<1>2. Len(Audio) = Width + 3 BY <1>1, FcnIsSeq, LayoutFacts
<1>3. Start(Lengths, 4, 0) = 0 + 1
  BY StartIs, LayoutFacts
<1>4. Start(Lengths, 0, 0) = 0 + 1 - Lengths[3] - Lengths[2] - Lengths[1] - Lengths[0]
  BY StartIs, LayoutFacts
<1>5. /\ Lengths[0] \in Nat /\ Lengths[1] \in Nat
      /\ Lengths[2] \in Nat /\ Lengths[3] \in Nat
  BY LayoutFacts DEF Subchannels
<1>6. Size = Len(Audio) + Start(Lengths, 4, 0) - Start(Lengths, 0, 0) + Width + 1
  BY DEF Size
<1>7. Size = (Width + 3) + (0 + 1)
               - (0 + 1 - Lengths[3] - Lengths[2] - Lengths[1] - Lengths[0]) + Width + 1
  BY <1>2, <1>3, <1>4, <1>6
<1>8. Width \in Nat BY LayoutFacts
<1>9. Size \in Nat BY <1>5, <1>7, <1>8
<1>10. PICK a, b, c, d : a = Lengths[0] /\ b = Lengths[1] /\ c = Lengths[2] /\ d = Lengths[3]
  OBVIOUS
<1>11. Size = 2 * Width + 4 + a + b + c + d
  <2>1. a \in Nat /\ b \in Nat /\ c \in Nat /\ d \in Nat BY <1>5, <1>10
  <2>2. Size = (Width + 3) + (0 + 1) - (0 + 1 - d - c - b - a) + Width + 1
    BY <1>7, <1>10
  <2> QED BY ONLY <1>8, <1>9, <2>1, <2>2
<1> QED BY <1>9, <1>10, <1>11

-----------------------------------------------------------------------------
(* The bytes a PDU may hold.                                               *)
StreamEnd == FramesEnd + BlockLen + Size
Bytes == {Stream[j] : j \in 0..StreamEnd} \cup {ControlByte(j) : j \in Nat}
           \cup {Flag, Junk, WidthByte(Width), WidthByte(Width + 2)}

(* The station is somewhere in its streams.                                *)
Sending ==
  /\ cpos \in 0..CccLen
  /\ pos \in [Subchannels -> 0..(FramesEnd + BlockLen)]

(* The last frame ends somewhere, and after the first begins.              *)
LEMMA FramesEndNat == FramesEnd \in Nat /\ FramesFrom \in Nat /\ FramesFrom <= FramesEnd
<1>1. FramesFrom \in Nat BY LayoutFacts, ProductNat DEF FramesFrom
<1>2. NFrames * (FrameLen + 1) \in Nat
  <2>1. FrameLen + 1 \in Nat BY LayoutFacts
  <2> QED BY <2>1, LayoutFacts, ProductNat
<1>3. (NFrames * (FrameLen + 1)) \div PAYLOAD \in Nat BY <1>2, LayoutFacts, DivMod
<1>4. PICK k \in Nat : k = (NFrames * (FrameLen + 1)) \div PAYLOAD + 1 BY <1>3
<1>5. k * BlockLen \in Nat BY LayoutFacts, ProductNat
<1>6. FramesEnd = FramesFrom + k * BlockLen BY <1>4 DEF FramesEnd, Complete
<1> QED BY <1>1, <1>5, <1>6

(* What a subchannel of a PDU carries, and how much of it.                 *)
LEMMA SliceIs ==
  ASSUME Sending, NEW i \in Subchannels
  PROVE  Slice(i) \in Seq(Bytes) /\ Len(Slice(i)) = Lengths[i]
<1>1. Lengths[i] \in Nat /\ Lengths[i] <= Size
  <2>1. Lengths[0] \in Nat /\ Lengths[1] \in Nat /\ Lengths[2] \in Nat /\ Lengths[3] \in Nat
    BY LayoutFacts DEF Subchannels
  <2>2. i = 0 \/ i = 1 \/ i = 2 \/ i = 3 BY DEF Subchannels
  <2>3. PICK a, b, c, d : a = Lengths[0] /\ b = Lengths[1] /\ c = Lengths[2] /\ d = Lengths[3]
    OBVIOUS
  <2>4. Size = 2 * Width + 4 + a + b + c + d BY <2>3, SizeIs
  <2>5. a <= Size /\ b <= Size /\ c <= Size /\ d <= Size
    BY <2>1, <2>3, <2>4, LayoutFacts
  <2> QED BY <2>1, <2>2, <2>3, <2>5
<1>2. pos[i] \in 0..(FramesEnd + BlockLen) BY DEF Sending
<1>3. \A k \in 1..Lengths[i] : Stream[pos[i] + k - 1] \in Bytes
  <2> TAKE k \in 1..Lengths[i]
  <2>1. pos[i] + k - 1 \in 0..StreamEnd
    BY <1>1, <1>2, FramesEndNat, SizeIs, LayoutFacts DEF StreamEnd
  <2> QED BY <2>1 DEF Bytes
<1>4. Slice(i) \in [1..Lengths[i] -> Bytes] BY <1>3 DEF Slice
<1> QED BY <1>1, <1>4, FcnIsSeq

(* What process_fixed_data relies on in a PDU: its length, the width in    *)
(* its last byte, and the control field before that.                       *)
LEMMA PDUIs ==
  ASSUME Sending
  PROVE  /\ PDU \in Seq(Bytes) /\ Len(PDU) = Size /\ PDU[Size] = WidthByte(Width)
         /\ \A k \in 1..Width : PDU[Size - 1 - Width + k] = ControlByte(cpos + k - 1)
<1>1. Audio \in Seq(Bytes) /\ Len(Audio) = Width + 3
  <2>1. Audio \in [1..Width + 3 -> Bytes] BY DEF Audio, Bytes
  <2> QED BY <2>1, FcnIsSeq, LayoutFacts
<1>2. Control \in Seq(Bytes) /\ Len(Control) = Width
  <2>1. \A k \in 1..Width : cpos + k - 1 \in Nat BY LayoutFacts DEF Sending
  <2>2. Control \in [1..Width -> Bytes] BY <2>1 DEF Control, Bytes
  <2> QED BY <2>2, FcnIsSeq, LayoutFacts
<1>3. PICK last : last = <<WidthByte(Width)>> OBVIOUS
<1>4. last \in Seq(Bytes) /\ Len(last) = 1 /\ last[1] = WidthByte(Width)
  <2>1. WidthByte(Width) \in Bytes BY DEF Bytes
  <2> QED BY <1>3, <2>1
<1>5. PICK a : a = Audio \o Slice(0) OBVIOUS
<1>6. PICK b : b = a \o Slice(1) OBVIOUS
<1>7. PICK c : c = b \o Slice(2) OBVIOUS
<1>8. PICK d : d = c \o Slice(3) OBVIOUS
<1>9. PICK e : e = d \o Control OBVIOUS
<1>10. PDU = e \o last BY <1>3, <1>5, <1>6, <1>7, <1>8, <1>9 DEF PDU
<1>11. /\ Slice(0) \in Seq(Bytes) /\ Len(Slice(0)) = Lengths[0]
       /\ Slice(1) \in Seq(Bytes) /\ Len(Slice(1)) = Lengths[1]
       /\ Slice(2) \in Seq(Bytes) /\ Len(Slice(2)) = Lengths[2]
       /\ Slice(3) \in Seq(Bytes) /\ Len(Slice(3)) = Lengths[3]
  BY SliceIs DEF Subchannels
<1> HIDE DEF Audio, Control, Slice
<1>12. a \in Seq(Bytes) /\ Len(a) = Len(Audio) + Len(Slice(0))
  BY <1>1, <1>5, <1>11, ConcatProperties
<1>13. b \in Seq(Bytes) /\ Len(b) = Len(a) + Len(Slice(1))
  BY <1>6, <1>11, <1>12, ConcatProperties
<1>14. c \in Seq(Bytes) /\ Len(c) = Len(b) + Len(Slice(2))
  BY <1>7, <1>11, <1>13, ConcatProperties
<1>15. d \in Seq(Bytes) /\ Len(d) = Len(c) + Len(Slice(3))
  BY <1>8, <1>11, <1>14, ConcatProperties
<1>16. e \in Seq(Bytes) /\ Len(e) = Len(d) + Len(Control)
  BY <1>2, <1>9, <1>15, ConcatProperties
<1>17. e \o last \in Seq(Bytes) /\ Len(e \o last) = Len(e) + Len(last)
  BY <1>4, <1>16, ConcatProperties
<1>18. PDU \in Seq(Bytes) /\ Len(PDU) = Len(e) + Len(last)
  BY <1>10, <1>17, Zenon
<1>19. Len(PDU) = Size
  <2>1. PICK w, x, y, z : w = Lengths[0] /\ x = Lengths[1] /\ y = Lengths[2] /\ z = Lengths[3]
    OBVIOUS
  <2>2. w \in Nat /\ x \in Nat /\ y \in Nat /\ z \in Nat
    BY <2>1, LayoutFacts DEF Subchannels
  <2>3. PICK f, g, h, k, l, m :
          f = Len(a) /\ g = Len(b) /\ h = Len(c) /\ k = Len(d) /\ l = Len(e) /\ m = Len(PDU)
    OBVIOUS
  <2>4. /\ f = Width + 3 + w /\ g = f + x /\ h = g + y /\ k = h + z
        /\ l = k + Width /\ m = l + 1
    BY <1>1, <1>2, <1>4, <1>11, <1>12, <1>13, <1>14, <1>15, <1>16, <1>18, <2>1, <2>3
  <2>5. PICK n : n = Size OBVIOUS
  <2>6. n = 2 * Width + 4 + w + x + y + z BY <2>1, <2>5, SizeIs
  <2>7. Width \in Nat BY LayoutFacts
  <2>8. n = m BY ONLY <2>2, <2>4, <2>6, <2>7
  <2> QED BY <2>3, <2>5, <2>8
<1>20. (e \o last)[Len(e) + 1] = last[1]
  <2>1. Len(e) \in Nat BY <1>16, LenProperties
  <2>2. /\ Len(e) + 1 \in 1..(Len(e) + Len(last)) /\ ~(Len(e) + 1 <= Len(e))
        /\ Len(e) + 1 - Len(e) = 1
    BY <1>4, <2>1
  <2> QED BY <1>4, <1>16, <2>2, ConcatProperties
<1>21. PDU[Size] = WidthByte(Width)
  <2>1. PDU[Len(e) + 1] = WidthByte(Width) BY <1>4, <1>10, <1>20, Zenon
  <2>2. Size = Len(e) + 1 BY <1>4, <1>18, <1>19, Zenon
  <2> QED BY <2>1, <2>2, Zenon
<1>22. ASSUME NEW k \in 1..Width
       PROVE  PDU[Size - 1 - Width + k] = ControlByte(cpos + k - 1)
  <2>1. PICK l \in Nat : l = Len(d) BY <1>15, LenProperties
  <2>2. Len(e) = l + Width /\ Size = l + Width + 1
    BY <1>2, <1>4, <1>16, <1>18, <1>19, <2>1, LayoutFacts
  <2>3. Width \in Nat /\ Size - 1 - Width + k = l + k BY <2>2, LayoutFacts
  <2>4. l + k \in 1..(l + Width) /\ ~(l + k <= l) /\ l + k - l = k
    BY <2>1, <2>3
  <2>5. e[l + k] = Control[k]
    <3>1. \A i \in 1..(Len(d) + Len(Control)) :
            (d \o Control)[i] = IF i <= Len(d) THEN d[i] ELSE Control[i - Len(d)]
      BY <1>2, <1>15, ConcatProperties
    <3>2. PICK i : i = l + k OBVIOUS
    <3>3. i \in 1..(Len(d) + Len(Control)) /\ ~(i <= Len(d)) /\ i - Len(d) = k
      BY <1>2, <2>1, <2>4, <3>2
    <3>4. (d \o Control)[i] = Control[k] BY <3>1, <3>3
    <3> QED BY <1>9, <3>2, <3>4
  <2>6. l + k \in 1..(Len(e) + Len(last)) /\ l + k <= Len(e)
    BY <1>4, <2>1, <2>2, <2>3, <2>4
  <2>7. (e \o last)[l + k] = e[l + k] BY <1>4, <1>16, <2>6, ConcatProperties
  <2>8. PDU[l + k] = Control[k] BY <1>10, <2>5, <2>7, Zenon
  <2>9. Control[k] = ControlByte(cpos + k - 1) BY DEF Control
  <2> QED BY <2>3, <2>8, <2>9
<1> QED BY <1>18, <1>19, <1>21, <1>22

-----------------------------------------------------------------------------
(* The bytes of frames, and their order.                                   *)

(* Byte w of the frames of a subchannel, in the order it sends them.       *)
Aas(w) == <<"aas", w>>
Holds(s, w) == \E k \in 1..Len(s) : s[k] = Aas(w)
Rising(s) ==
  \A j, k \in 1..Len(s) : \A w, x \in Nat :
    j < k /\ s[j] = Aas(w) /\ s[k] = Aas(x) => w < x
Before(s, t) == \A w, x \in Nat : Holds(s, w) /\ Holds(t, x) => w < x

(* Nothing is in order, and holds nothing.                                 *)
LEMMA EmptyRises ==
  /\ Rising(<<>>) /\ \A w : ~ Holds(<<>>, w)
  /\ \A t : Before(<<>>, t) /\ Before(t, <<>>)
<1>1. \A k \in 1..Len(<<>>) : FALSE OBVIOUS
<1> QED BY <1>1 DEF Rising, Holds, Before

(* A stretch of what is in order is in order.                              *)
LEMMA SliceRises ==
  ASSUME NEW all \in Seq(Bytes), NEW from \in Nat \ {0}, NEW to \in Nat, to <= Len(all)
  PROVE  LET s == SubSeq(all, from, to)
         IN /\ \A w \in Nat : Holds(s, w) => \E j \in from..to : all[j] = Aas(w)
            /\ Rising(all) => Rising(s)
<1>1. Len(all) \in Nat BY LenProperties
<1>2. \A m \in from..to : all[m] \in Bytes
  <2>1. \A m \in from..to : m \in 1..Len(all) BY <1>1
  <2> QED BY <2>1, ElementOfSeq
<1>3. PICK s : s = SubSeq(all, from, to) OBVIOUS
<1>4. /\ s \in Seq(Bytes)
      /\ Len(s) = IF from <= to THEN to - from + 1 ELSE 0
      /\ \A k \in 1..(to - from + 1) : s[k] = all[from + k - 1]
  BY <1>2, <1>3, SubSeqProperties
<1>5. ASSUME NEW k \in 1..Len(s)
      PROVE  from + k - 1 \in from..to /\ from + k - 1 \in 1..Len(all)
             /\ s[k] = all[from + k - 1]
  <2>1. from <= to /\ k \in 1..(to - from + 1) BY <1>4
  <2> QED BY <1>1, <1>4, <2>1
<1>6. ASSUME NEW w \in Nat, Holds(s, w) PROVE \E j \in from..to : all[j] = Aas(w)
  BY <1>5, <1>6 DEF Holds
<1>7. ASSUME Rising(all) PROVE Rising(s)
  <2> SUFFICES ASSUME NEW j \in 1..Len(s), NEW k \in 1..Len(s), NEW w \in Nat, NEW x \in Nat,
                      j < k, s[j] = Aas(w), s[k] = Aas(x)
               PROVE  w < x
    BY DEF Rising
  <2>1. PICK a \in 1..Len(all) : a = from + j - 1 /\ all[a] = Aas(w) BY <1>5
  <2>2. PICK b \in 1..Len(all) : b = from + k - 1 /\ all[b] = Aas(x) BY <1>5
  <2>3. Len(s) \in Nat BY <1>4, LenProperties
  <2>4. a < b BY <2>1, <2>2, <2>3
  <2> QED BY <1>7, <2>1, <2>2, <2>4 DEF Rising
<1> QED BY <1>3, <1>6, <1>7

(* One sequence after another.                                             *)
LEMMA ConcatHolds ==
  ASSUME NEW s \in Seq(Bytes), NEW t \in Seq(Bytes)
  PROVE  \A w \in Nat : Holds(s \o t, w) <=> Holds(s, w) \/ Holds(t, w)
<1>1. PICK u : u = s \o t OBVIOUS
<1>2. /\ Len(u) = Len(s) + Len(t) /\ Len(s) \in Nat /\ Len(t) \in Nat
      /\ \A k \in 1..(Len(s) + Len(t)) : u[k] = IF k <= Len(s) THEN s[k] ELSE t[k - Len(s)]
  BY <1>1, ConcatProperties, LenProperties
<1>3. ASSUME NEW w \in Nat, Holds(u, w) PROVE Holds(s, w) \/ Holds(t, w)
  <2>1. PICK k \in 1..(Len(s) + Len(t)) : u[k] = Aas(w) BY <1>2, <1>3 DEF Holds
  <2>2. CASE k <= Len(s)
    <3>1. k \in 1..Len(s) /\ s[k] = Aas(w) BY <1>2, <2>1, <2>2
    <3> QED BY <3>1 DEF Holds
  <2>3. CASE ~(k <= Len(s))
    <3>1. k - Len(s) \in 1..Len(t) /\ t[k - Len(s)] = Aas(w) BY <1>2, <2>1, <2>3
    <3> QED BY <3>1 DEF Holds
  <2> QED BY <2>2, <2>3
<1>4. ASSUME NEW w \in Nat, Holds(s, w) PROVE Holds(u, w)
  <2>1. PICK k \in 1..Len(s) : s[k] = Aas(w) BY <1>4 DEF Holds
  <2>2. k \in 1..Len(u) /\ u[k] = Aas(w) BY <1>2, <2>1
  <2> QED BY <2>2 DEF Holds
<1>5. ASSUME NEW w \in Nat, Holds(t, w) PROVE Holds(u, w)
  <2>1. PICK k \in 1..Len(t) : t[k] = Aas(w) BY <1>5 DEF Holds
  <2>2. PICK j : j = Len(s) + k OBVIOUS
  <2>3. j \in 1..(Len(s) + Len(t)) /\ ~(j <= Len(s)) /\ j - Len(s) = k BY <1>2, <2>2
  <2>4. u[j] = Aas(w) BY <1>2, <2>1, <2>3
  <2> QED BY <1>2, <2>3, <2>4 DEF Holds
<1> QED BY <1>1, <1>3, <1>4, <1>5

(* Two sequences in order, the second after the first, are one in order.   *)
LEMMA ConcatRises ==
  ASSUME NEW s \in Seq(Bytes), NEW t \in Seq(Bytes), Rising(s), Rising(t), Before(s, t)
  PROVE  Rising(s \o t)
<1>1. PICK u : u = s \o t OBVIOUS
<1>2. /\ Len(u) = Len(s) + Len(t) /\ Len(s) \in Nat /\ Len(t) \in Nat
      /\ \A k \in 1..(Len(s) + Len(t)) : u[k] = IF k <= Len(s) THEN s[k] ELSE t[k - Len(s)]
  BY <1>1, ConcatProperties, LenProperties
<1>3. SUFFICES ASSUME NEW j \in 1..Len(u), NEW k \in 1..Len(u), NEW w \in Nat, NEW x \in Nat,
                      j < k, u[j] = Aas(w), u[k] = Aas(x)
               PROVE  w < x
  BY <1>1 DEF Rising
<1>4. CASE k <= Len(s)
  <2>1. j \in 1..Len(s) /\ k \in 1..Len(s) /\ s[j] = Aas(w) /\ s[k] = Aas(x)
    BY <1>2, <1>3, <1>4
  <2> QED BY <1>3, <2>1 DEF Rising
<1>5. CASE j <= Len(s) /\ ~(k <= Len(s))
  <2>1. j \in 1..Len(s) /\ s[j] = Aas(w) BY <1>2, <1>3, <1>5
  <2>2. k - Len(s) \in 1..Len(t) /\ t[k - Len(s)] = Aas(x) BY <1>2, <1>3, <1>5
  <2>3. Holds(s, w) /\ Holds(t, x) BY <2>1, <2>2 DEF Holds
  <2> QED BY <2>3 DEF Before
<1>6. CASE ~(j <= Len(s)) /\ ~(k <= Len(s))
  <2>1. /\ j - Len(s) \in 1..Len(t) /\ t[j - Len(s)] = Aas(w)
        /\ k - Len(s) \in 1..Len(t) /\ t[k - Len(s)] = Aas(x)
        /\ j - Len(s) < k - Len(s)
    BY <1>2, <1>3, <1>6
  <2> QED BY <2>1 DEF Rising
<1>7. k <= Len(s) \/ (j <= Len(s) /\ ~(k <= Len(s))) \/ (~(j <= Len(s)) /\ ~(k <= Len(s)))
  OBVIOUS
<1> QED BY <1>4, <1>5, <1>6, <1>7

-----------------------------------------------------------------------------
(* Parsing.                                                                *)

(* What parse_hdlc may have read: it keeps no more than its buffer holds,  *)
(* and the flag before it.                                                 *)
Reads(size) ==
  {r \in [rest : Seq(Bytes), out : Seq(Seq(Bytes))] : Len(r.rest) <= size + 1}

(* parse_hdlc stays within its buffer, byte by byte: one byte more than    *)
(* the size is given up.                                                   *)
LEMMA ByteRead ==
  ASSUME NEW size \in Nat, NEW r \in Reads(size), NEW b \in Bytes
  PROVE  HdlcByte(r, b, size) \in Reads(size)
<1>1. r.rest \in Seq(Bytes) /\ r.out \in Seq(Seq(Bytes)) BY DEF Reads
<1>2. <<>> \in Seq(Bytes) /\ Len(<<>>) = 0 OBVIOUS
<1>3. CASE b = Flag
  <2>1. <<Flag>> \in Seq(Bytes) /\ Len(<<Flag>>) = 1 BY <1>3
  <2>2. Append(r.out, r.rest) \in Seq(Seq(Bytes)) BY <1>1, AppendProperties
  <2>3. PICK o \in Seq(Seq(Bytes)) :
          o = IF r.rest = << >> THEN r.out ELSE Append(r.out, r.rest)
    BY <1>1, <2>2
  <2>4. HdlcByte(r, b, size) = [rest |-> <<Flag>>, out |-> o]
    BY <1>3, <2>3, Zenon DEF HdlcByte
  <2>5. PICK c \in Seq(Bytes) : c = <<Flag>> /\ Len(c) <= size + 1
    <3>1. Len(<<Flag>>) <= size + 1 BY <2>1
    <3> QED BY <2>1, <3>1, Zenon
  <2>6. [rest |-> c, out |-> o] \in Reads(size) BY <2>5 DEF Reads
  <2> QED BY <2>4, <2>5, <2>6
<1>4. CASE b # Flag
  <2>1. PICK c : c = IF r.rest # << >> /\ Len(r.rest) <= size THEN Append(r.rest, b) ELSE << >>
    OBVIOUS
  <2>2. c \in Seq(Bytes) /\ Len(c) <= size + 1
    <3>1. Append(r.rest, b) \in Seq(Bytes) /\ Len(Append(r.rest, b)) = Len(r.rest) + 1
      BY <1>1, AppendProperties
    <3>2. Len(r.rest) \in Nat BY <1>1, LenProperties
    <3> QED BY <1>2, <2>1, <3>1, <3>2
  <2>3. HdlcByte(r, b, size) = [r EXCEPT !.rest = c]
    BY <1>4, <2>1, Zenon DEF HdlcByte
  <2> QED BY <2>2, <2>3 DEF Reads
<1> QED BY <1>3, <1>4

(* parse_hdlc reads byte after byte.                                       *)
LEMMA ReadIs ==
  ASSUME NEW h \in Seq(Bytes), NEW bytes \in Seq(Bytes), NEW size \in Nat,
         Len(h) <= size + 1
  PROVE  \E read \in [0..Len(bytes) -> Reads(size)] :
           /\ read[0] = [rest |-> h, out |-> << >>]
           /\ \A k \in 1..Len(bytes) : read[k] = HdlcByte(read[k - 1], bytes[k], size)
           /\ parse_hdlc(h, bytes, size) = read[Len(bytes)]
<1> DEFINE N == Len(bytes)
           At0 == [rest |-> h, out |-> << >>]
           Step(f, k) == IF k = 0 THEN At0 ELSE HdlcByte(f[k - 1], bytes[k], size)
           Sat(f) == f = [k \in 0..N |-> Step(f, k)]
           UpTo(m, f) == \A k \in 0..m : f[k] = Step(f, k)
           without == {m \in 0..N : ~ \E f : UpTo(m, f)}
           read == CHOOSE f : Sat(f)
           bad == {m \in 0..N : read[m] \notin Reads(size)}
<1>1. N \in Nat BY LenProperties
<1>2. At0 \in Reads(size)
  <2>1. <<>> \in Seq(Seq(Bytes)) OBVIOUS
  <2> QED BY <2>1 DEF Reads
<1> HIDE DEF At0
<1>3. \A m \in 0..N : \E f : UpTo(m, f)
  <2> SUFFICES ASSUME without # {} PROVE FALSE OBVIOUS
  <2>1. without \in SUBSET Nat BY <1>1
  <2>2. PICK m \in without : \A k \in without : m <= k BY <2>1, LeastNat
  <2>3. m \in 0..N BY <2>2
  <2>4. CASE m = 0
    <3>1. PICK f : f = [k \in 0..0 |-> At0] OBVIOUS
    <3>2. UpTo(0, f) BY <3>1
    <3> QED BY <2>2, <2>4, <3>2
  <2>5. CASE m # 0
    <3>1. m - 1 \in 0..N /\ ~(m <= m - 1) BY <1>1, <2>3, <2>5
    <3>2. m - 1 \notin without BY <2>2, <3>1
    <3>3. PICK f : UpTo(m - 1, f) BY <3>1, <3>2
    <3>4. PICK g : g = [k \in 0..m |-> IF k = m THEN HdlcByte(f[m - 1], bytes[m], size) ELSE f[k]]
      OBVIOUS
    <3>5. ASSUME NEW k \in 0..m PROVE g[k] = Step(g, k)
      <4>1. CASE k = 0
        <5>1. g[0] = f[0] /\ 0 \in 0..(m - 1) BY <1>1, <2>3, <2>5, <3>4
        <5> QED BY <3>3, <4>1, <5>1
      <4>2. CASE k # 0
        <5>1. k - 1 \in 0..m /\ k - 1 # m /\ k - 1 \in 0..(m - 1) BY <2>3, <4>2
        <5>2. g[k - 1] = f[k - 1] BY <3>4, <5>1
        <5>3. CASE k = m BY <3>4, <4>2, <5>2, <5>3
        <5>4. CASE k # m
          <6>1. k \in 0..(m - 1) BY <2>3, <5>4
          <6>2. g[k] = f[k] BY <3>4, <5>4
          <6> QED BY <3>3, <4>2, <5>2, <6>1, <6>2
        <5> QED BY <5>3, <5>4
      <4> QED BY <4>1, <4>2
    <3>6. UpTo(m, g) BY <3>5
    <3> QED BY <2>2, <3>6
  <2> QED BY <2>4, <2>5
<1>4. Sat(read)
  <2>1. PICK f : UpTo(N, f)
    <3>1. N \in 0..N BY <1>1
    <3> QED BY <1>3, <3>1
  <2>2. PICK g : g = [k \in 0..N |-> f[k]] OBVIOUS
  <2>3. ASSUME NEW k \in 0..N PROVE g[k] = Step(g, k)
    <3>1. CASE k = 0 BY <1>1, <2>1, <2>2, <3>1
    <3>2. CASE k # 0
      <4>1. k - 1 \in 0..N BY <1>1, <3>2
      <4> QED BY <2>1, <2>2, <3>2, <4>1
    <3> QED BY <3>1, <3>2
  <2>4. Sat(g) BY <2>2, <2>3
  <2> QED BY <2>4
<1>5. read[0] = At0
  <2>1. 0 \in 0..N BY <1>1
  <2> QED BY <1>4, <2>1
<1>6. ASSUME NEW k \in 1..N PROVE read[k] = HdlcByte(read[k - 1], bytes[k], size)
  <2>1. k \in 0..N /\ k # 0 BY <1>1
  <2> QED BY <1>4, <2>1
<1>7. \A m \in 0..N : read[m] \in Reads(size)
  <2> SUFFICES ASSUME bad # {} PROVE FALSE OBVIOUS
  <2>1. bad \in SUBSET Nat BY <1>1
  <2>2. PICK m \in bad : \A k \in bad : m <= k BY <2>1, LeastNat
  <2>3. m \in 0..N BY <2>2
  <2>4. CASE m = 0 BY <1>2, <1>5, <2>2, <2>4
  <2>5. CASE m # 0
    <3>1. m - 1 \in 0..N /\ ~(m <= m - 1) /\ m \in 1..N BY <1>1, <2>3, <2>5
    <3>2. m - 1 \notin bad BY <2>2, <3>1
    <3>3. read[m - 1] \in Reads(size) BY <3>1, <3>2
    <3>4. bytes[m] \in Bytes BY <3>1, ElementOfSeq
    <3>5. HdlcByte(read[m - 1], bytes[m], size) \in Reads(size) BY <3>3, <3>4, ByteRead
    <3>6. read[m] \in Reads(size) BY <1>6, <3>1, <3>5
    <3> QED BY <2>2, <3>6
  <2> QED BY <2>4, <2>5
<1>8. read = [k \in 0..N |-> read[k]] BY <1>4
<1>9. read \in [0..N -> Reads(size)] BY <1>7, <1>8
<1>10. parse_hdlc(h, bytes, size) = read[N] BY DEF parse_hdlc, At0
<1> HIDE DEF read
<1> QED BY <1>5, <1>6, <1>9, <1>10 DEF At0

(* So does a whole call of it.                                             *)
LEMMA HdlcIs ==
  ASSUME NEW h \in Seq(Bytes), NEW bytes \in Seq(Bytes), NEW size \in Nat,
         Len(h) <= size + 1
  PROVE  parse_hdlc(h, bytes, size) \in Reads(size)
<1>1. PICK read \in [0..Len(bytes) -> Reads(size)] :
        parse_hdlc(h, bytes, size) = read[Len(bytes)]
  BY ReadIs
<1>2. Len(bytes) \in 0..Len(bytes) BY LenProperties
<1> QED BY <1>1, <1>2

(* What Cut finds from place k on: less than a block is left, and the bytes *)
(* of frames that it finds were there, and keep their order.               *)
Drawn(all, k, r) ==
  /\ \A w \in Nat : Holds(r.payload, w) \/ Holds(r.rest, w) =>
        \E j \in k..Len(all) : all[j] = Aas(w)
  /\ Rising(all) => /\ Rising(r.payload) /\ Rising(r.rest)
                    /\ Before(r.payload, r.rest)
Cuts(all, k) ==
  {r \in [rest : Seq(Bytes), payload : Seq(Bytes)] :
     Len(r.rest) < BlockLen /\ Drawn(all, k, r)}

CutAt(all, f, k) ==
  CASE k + BBM_LEN - 1 > Len(all) -> [rest |-> SubSeq(all, k, Len(all)), payload |-> << >>]
    [] k + BBM_LEN - 1 <= Len(all) /\ SubSeq(all, k, k + BBM_LEN - 1) # BBM -> f[k + 1]
    [] OTHER ->
         IF k + BlockLen - 1 > Len(all)
         THEN [rest |-> SubSeq(all, k, Len(all)), payload |-> << >>]
         ELSE [f[k + BlockLen] EXCEPT
                 !.payload = SubSeq(all, k + BBM_LEN, k + BlockLen - 1) \o @]

(* One place: the places after it give what Cut may find.                  *)
LEMMA CutStep ==
  ASSUME NEW all \in Seq(Bytes), NEW k \in 1..(Len(all) + 1), NEW f,
         \A j \in (k + 1)..(Len(all) + 1) : f[j] \in Cuts(all, j)
  PROVE  CutAt(all, f, k) \in Cuts(all, k)
<1>1. Len(all) \in Nat /\ k \in Nat \ {0} BY LenProperties
<1>2. ASSUME k + BlockLen - 1 > Len(all)
      PROVE  [rest |-> SubSeq(all, k, Len(all)), payload |-> << >>] \in Cuts(all, k)
  <2>1. \A m \in k..Len(all) : all[m] \in Bytes BY <1>1, ElementOfSeq
  <2>2. PICK s : s = SubSeq(all, k, Len(all)) OBVIOUS
  <2>3. /\ s \in Seq(Bytes)
        /\ Len(s) = IF k <= Len(all) THEN Len(all) - k + 1 ELSE 0
    BY <1>1, <2>1, <2>2, SubSeqProperties
  <2>4. Len(s) < BlockLen BY <1>1, <1>2, <2>3, LayoutFacts
  <2>5. <<>> \in Seq(Bytes) OBVIOUS
  <2>6. /\ \A w \in Nat : Holds(s, w) => \E j \in k..Len(all) : all[j] = Aas(w)
        /\ Rising(all) => Rising(s)
    BY <1>1, <2>2, SliceRises
  <2>7. PICK r : r = [rest |-> s, payload |-> << >>] OBVIOUS
  <2>8. r.rest = s /\ r.payload = <<>> BY <2>7
  <2>9. Drawn(all, k, r) BY <2>6, <2>8, EmptyRises DEF Drawn
  <2>10. r \in [rest : Seq(Bytes), payload : Seq(Bytes)] BY <2>3, <2>5, <2>7
  <2>11. r \in Cuts(all, k) BY <2>4, <2>8, <2>9, <2>10 DEF Cuts
  <2> QED BY <2>2, <2>7, <2>11
<1>3. ASSUME k + BBM_LEN - 1 <= Len(all) PROVE f[k + 1] \in Cuts(all, k)
  <2>1. k + 1 \in (k + 1)..(Len(all) + 1) BY <1>1, <1>3, LayoutFacts
  <2>2. PICK r : r = f[k + 1] OBVIOUS
  <2>3. r \in Cuts(all, k + 1) BY <2>1, <2>2
  <2>4. \A j \in (k + 1)..Len(all) : j \in k..Len(all) BY <1>1
  <2>5. Drawn(all, k, r) BY <2>3, <2>4 DEF Cuts, Drawn
  <2> QED BY <2>2, <2>3, <2>5 DEF Cuts
<1>4. ASSUME k + BlockLen - 1 <= Len(all)
      PROVE  [f[k + BlockLen] EXCEPT
                !.payload = SubSeq(all, k + BBM_LEN, k + BlockLen - 1) \o @] \in Cuts(all, k)
  <2>1. k + BlockLen \in (k + 1)..(Len(all) + 1) BY <1>1, <1>4, LayoutFacts
  <2>2. PICK r \in Cuts(all, k + BlockLen) : r = f[k + BlockLen] BY <2>1
  <2>3. PICK from, to : from = k + BBM_LEN /\ to = k + BlockLen - 1 OBVIOUS
  <2>4. /\ from \in Nat \ {0} /\ to \in Nat /\ to <= Len(all)
        /\ k <= from /\ to < k + BlockLen
    BY <1>1, <1>4, <2>3, LayoutFacts
  <2>5. \A m \in from..to : all[m] \in Bytes
    <3>1. \A m \in from..to : m \in 1..Len(all) BY <1>1, <2>4
    <3> QED BY <3>1, ElementOfSeq
  <2>6. PICK s : s = SubSeq(all, from, to) OBVIOUS
  <2>7. s \in Seq(Bytes) BY <2>4, <2>5, <2>6, SubSeqProperties
  <2>8. r.payload \in Seq(Bytes) /\ r.rest \in Seq(Bytes) /\ Drawn(all, k + BlockLen, r)
    BY DEF Cuts
  <2>9. PICK p : p = s \o r.payload OBVIOUS
  <2>10. p \in Seq(Bytes) BY <2>7, <2>8, <2>9, ConcatProperties
  <2>11. PICK t : t = [r EXCEPT !.payload = p] OBVIOUS
  <2>12. t \in [rest : Seq(Bytes), payload : Seq(Bytes)] /\ t.rest = r.rest /\ t.payload = p
    BY <2>10, <2>11 DEF Cuts
  <2>13. /\ \A w \in Nat : Holds(s, w) => \E j \in from..to : all[j] = Aas(w)
         /\ Rising(all) => Rising(s)
    BY <2>4, <2>6, SliceRises
  <2>14. \A w \in Nat : Holds(p, w) <=> Holds(s, w) \/ Holds(r.payload, w)
    BY <2>7, <2>8, <2>9, ConcatHolds
  <2>15. ASSUME NEW w \in Nat, Holds(p, w) \/ Holds(r.rest, w)
         PROVE  \E j \in k..Len(all) : all[j] = Aas(w)
    <3>1. CASE Holds(s, w)
      <4>1. PICK j \in from..to : all[j] = Aas(w) BY <2>13, <3>1
      <4>2. j \in k..Len(all) BY <1>1, <2>4
      <4> QED BY <4>1, <4>2
    <3>2. CASE Holds(r.payload, w) \/ Holds(r.rest, w)
      <4>1. PICK j \in (k + BlockLen)..Len(all) : all[j] = Aas(w)
        BY <2>8, <3>2 DEF Drawn
      <4>2. j \in k..Len(all) BY <1>1, LayoutFacts
      <4> QED BY <4>1, <4>2
    <3> QED BY <2>14, <2>15, <3>1, <3>2
  <2>16. ASSUME Rising(all)
         PROVE  Rising(p) /\ Rising(r.rest) /\ Before(p, r.rest)
    <3>1. Rising(r.payload) /\ Rising(r.rest) /\ Before(r.payload, r.rest)
      BY <2>8, <2>16 DEF Drawn
    <3>2. ASSUME NEW w \in Nat, NEW x \in Nat, Holds(s, w),
                 Holds(r.payload, x) \/ Holds(r.rest, x)
          PROVE  w < x
      <4>1. PICK j \in from..to : all[j] = Aas(w) BY <2>13, <3>2
      <4>2. PICK l \in (k + BlockLen)..Len(all) : all[l] = Aas(x)
        BY <2>8, <3>2 DEF Drawn
      <4>3. j \in 1..Len(all) /\ l \in 1..Len(all) /\ j < l
        BY <1>1, <2>4, LayoutFacts
      <4> QED BY <2>16, <4>1, <4>2, <4>3 DEF Rising
    <3>3. Before(s, r.payload) /\ Before(s, r.rest) BY <3>2 DEF Before
    <3>4. Rising(p) BY <2>7, <2>8, <2>9, <2>13, <2>16, <3>1, <3>3, ConcatRises
    <3>5. Before(p, r.rest) BY <2>14, <3>1, <3>3 DEF Before
    <3> QED BY <3>1, <3>4, <3>5
  <2>17. Drawn(all, k, t) BY <2>12, <2>15, <2>16, Zenon DEF Drawn
  <2>18. Len(t.rest) < BlockLen BY <2>12 DEF Cuts
  <2>19. t \in Cuts(all, k) BY <2>12, <2>17, <2>18 DEF Cuts
  <2> QED BY <2>2, <2>3, <2>6, <2>9, <2>11, <2>19
<1>5. k + BBM_LEN - 1 > Len(all) => k + BlockLen - 1 > Len(all)
  BY <1>1, LayoutFacts
<1>6. k + BBM_LEN - 1 > Len(all) <=> ~(k + BBM_LEN - 1 <= Len(all))
  BY <1>1, LayoutFacts
<1>7. k + BlockLen - 1 > Len(all) \/ k + BlockLen - 1 <= Len(all)
  BY <1>1, LayoutFacts
<1>8. CASE k + BBM_LEN - 1 > Len(all)
  <2>1. CutAt(all, f, k) = [rest |-> SubSeq(all, k, Len(all)), payload |-> << >>]
    BY <1>6, <1>8, Zenon DEF CutAt
  <2> QED BY <1>2, <1>5, <1>8, <2>1, Zenon
<1>9. CASE ~(k + BBM_LEN - 1 > Len(all)) /\ SubSeq(all, k, k + BBM_LEN - 1) # BBM
  <2>1. k + BBM_LEN - 1 <= Len(all) BY <1>6, <1>9, Zenon
  <2>2. CutAt(all, f, k) = f[k + 1] BY <1>9, <2>1, Zenon DEF CutAt
  <2> QED BY <1>3, <2>1, <2>2, Zenon
<1>10. CASE ~(k + BBM_LEN - 1 > Len(all)) /\ SubSeq(all, k, k + BBM_LEN - 1) = BBM
  BY <1>2, <1>4, <1>7, <1>10, Zenon DEF CutAt
<1> QED BY <1>8, <1>9, <1>10

(* Cut exists: the recursion reaches every place from the last one back.   *)
LEMMA CutFrom ==
  ASSUME NEW all \in Seq(Bytes)
  PROVE  \E cut : /\ Cut(all) = cut[1]
                  /\ \A k \in 1..(Len(all) + 1) :
                       cut[k] \in Cuts(all, k) /\ cut[k] = CutAt(all, cut, k)
<1> DEFINE N == Len(all) + 1
           Sat(f) == f = [k \in 1..N |-> CutAt(all, f, k)]
           From(m, f) == /\ \A k \in (N - m)..N : f[k] \in Cuts(all, k)
                         /\ \A k \in (N - m)..N : f[k] = CutAt(all, f, k)
           without == {m \in 0..Len(all) : ~ \E f : From(m, f)}
           cut == CHOOSE f : Sat(f)
           bad == {m \in 0..Len(all) : cut[N - m] \notin Cuts(all, N - m)}
<1>1. Len(all) \in Nat BY LenProperties
<1>2. ASSUME NEW f, NEW g, NEW k \in 1..N, \A j \in (k + 1)..N : f[j] = g[j]
      PROVE  CutAt(all, f, k) = CutAt(all, g, k)
  <2>1. CASE k + BBM_LEN - 1 > Len(all)
    <3>1. ~(k + BBM_LEN - 1 <= Len(all)) BY <1>1, <2>1, LayoutFacts
    <3> QED BY <2>1, <3>1, Zenon DEF CutAt
  <2>2. CASE k + BBM_LEN - 1 <= Len(all)
    <3>1. k + 1 \in (k + 1)..N BY <1>1, <2>2, LayoutFacts
    <3>2. f[k + 1] = g[k + 1] BY <1>2, <3>1
    <3>3. k + BlockLen - 1 > Len(all) \/ f[k + BlockLen] = g[k + BlockLen]
      <4>1. ASSUME ~(k + BlockLen - 1 > Len(all)) PROVE k + BlockLen \in (k + 1)..N
        BY <1>1, <4>1, LayoutFacts
      <4> QED BY <1>2, <4>1
    <3> QED BY <2>2, <3>2, <3>3, Zenon DEF CutAt
  <2>3. k + BBM_LEN - 1 > Len(all) \/ k + BBM_LEN - 1 <= Len(all)
    BY <1>1, LayoutFacts
  <2> QED BY <2>1, <2>2, <2>3
<1>3. \A m \in 0..Len(all) : \E f : From(m, f)
  <2> SUFFICES ASSUME without # {} PROVE FALSE OBVIOUS
  <2>1. without \in SUBSET Nat BY <1>1
  <2>2. PICK m \in without : \A k \in without : m <= k BY <2>1, LeastNat
  <2>3. m \in 0..Len(all) /\ N - m \in 1..N BY <1>1, <2>2
  <2>4. \E f : \A k \in (N - m + 1)..N : f[k] \in Cuts(all, k) /\ f[k] = CutAt(all, f, k)
    <3>1. CASE m = 0
      <4>1. (N - m + 1)..N = {} BY <1>1, <3>1
      <4> QED BY <4>1
    <3>2. CASE m # 0
      <4>1. m - 1 \in 0..Len(all) /\ ~(m <= m - 1) /\ N - (m - 1) = N - m + 1
        BY <1>1, <2>3, <3>2
      <4>2. m - 1 \notin without BY <2>2, <4>1
      <4>3. PICK f : From(m - 1, f) BY <4>1, <4>2
      <4> QED BY <4>1, <4>3
    <3> QED BY <3>1, <3>2
  <2>5. PICK f : \A k \in (N - m + 1)..N : f[k] \in Cuts(all, k) /\ f[k] = CutAt(all, f, k)
    BY <2>4
  <2>6. PICK g : g = [k \in (N - m)..N |-> IF k = N - m THEN CutAt(all, f, k) ELSE f[k]]
    OBVIOUS
  <2>7. \A k \in (N - m + 1)..N : k \in (N - m)..N /\ k # N - m BY <1>1, <2>3
  <2>8. \A k \in (N - m + 1)..N : g[k] = f[k] BY <2>6, <2>7
  <2>9. N - m \in (N - m)..N BY <1>1, <2>3
  <2>10. ASSUME NEW k \in (N - m)..N PROVE g[k] = CutAt(all, g, k) /\ g[k] \in Cuts(all, k)
    <3>1. k \in 1..N /\ \A j \in (k + 1)..N : j \in (N - m + 1)..N BY <1>1, <2>3
    <3>2. CutAt(all, f, k) = CutAt(all, g, k) BY <1>2, <2>8, <3>1
    <3>3. CASE k = N - m
      <4>1. g[k] = CutAt(all, f, k) BY <2>6, <3>3
      <4>2. CutAt(all, f, k) \in Cuts(all, k) BY <2>5, <3>1, CutStep
      <4> QED BY <3>2, <4>1, <4>2
    <3>4. CASE k # N - m
      <4>1. k \in (N - m + 1)..N BY <1>1, <2>3, <3>4
      <4> QED BY <2>5, <2>8, <3>2, <4>1
    <3> QED BY <3>3, <3>4
  <2>11. From(m, g) BY <2>10
  <2> QED BY <2>2, <2>11
<1>4. Sat(cut)
  <2>1. PICK f : From(Len(all), f) BY <1>1, <1>3
  <2>2. N - Len(all) = 1 BY <1>1
  <2>3. PICK g : g = [k \in 1..N |-> f[k]] OBVIOUS
  <2>4. ASSUME NEW k \in 1..N PROVE g[k] = CutAt(all, g, k)
    <3>1. \A j \in (k + 1)..N : j \in 1..N BY <1>1
    <3>2. \A j \in (k + 1)..N : f[j] = g[j] BY <2>3, <3>1
    <3>3. CutAt(all, f, k) = CutAt(all, g, k) BY <1>2, <3>2
    <3> QED BY <2>1, <2>2, <2>3, <3>3
  <2>5. Sat(g) BY <2>3, <2>4
  <2> QED BY <2>5
<1>5. \A m \in 0..Len(all) : cut[N - m] \in Cuts(all, N - m)
  <2> SUFFICES ASSUME bad # {} PROVE FALSE OBVIOUS
  <2>1. bad \in SUBSET Nat BY <1>1
  <2>2. PICK m \in bad : \A k \in bad : m <= k BY <2>1, LeastNat
  <2>3. m \in 0..Len(all) /\ N - m \in 1..N BY <1>1, <2>2
  <2>4. ASSUME NEW j \in ((N - m) + 1)..N PROVE cut[j] \in Cuts(all, j)
    <3>1. N - j \in 0..Len(all) /\ ~(m <= N - j) /\ N - (N - j) = j BY <1>1, <2>3
    <3>2. N - j \notin bad BY <2>2, <3>1
    <3> QED BY <3>1, <3>2
  <2>5. cut[N - m] = CutAt(all, cut, N - m) BY <1>4, <2>3
  <2>6. CutAt(all, cut, N - m) \in Cuts(all, N - m) BY <2>3, <2>4, CutStep
  <2> QED BY <2>2, <2>5, <2>6
<1>6. ASSUME NEW k \in 1..N PROVE cut[k] \in Cuts(all, k) /\ cut[k] = CutAt(all, cut, k)
  <2>1. N - k \in 0..Len(all) /\ N - (N - k) = k BY <1>1
  <2>2. cut[k] \in Cuts(all, k) BY <1>5, <2>1
  <2> QED BY <1>4, <2>2
<1>7. Cut(all) = cut[1] BY DEF Cut, CutAt
<1> HIDE DEF cut
<1> QED BY <1>6, <1>7

(* What it finds in the whole.                                             *)
LEMMA CutIs ==
  ASSUME NEW all \in Seq(Bytes)
  PROVE  Cut(all) \in Cuts(all, 1)
<1>1. 1 \in 1..(Len(all) + 1) BY LenProperties
<1> QED BY <1>1, CutFrom

-----------------------------------------------------------------------------
(* The receiver.                                                           *)

(* A subchannel as it is kept: its length is unknown or the station's, and *)
(* an open window or HDLC buffer never holds more than its array.          *)
Kept(i, c) ==
  /\ c \in [length : {0, Lengths[i]}, blocks : Seq(Bytes), hdlc : Seq(Bytes)]
  /\ Len(c.blocks) < BlockLen
  /\ Len(c.hdlc) <= MAX_AAS_LEN + 1

(* A subchannel just announced by a packet is in order.                    *)
LEMMA UnusedKept ==
  ASSUME NEW i \in Subchannels, NEW n \in {0, Lengths[i]}
  PROVE  Kept(i, [Unused EXCEPT !.length = n])
<1>1. [Unused EXCEPT !.length = n] = [length |-> n, blocks |-> << >>, hdlc |-> << >>]
  BY DEF Unused
<1>2. <<>> \in Seq(Bytes) /\ Len(<<>>) = 0 OBVIOUS
<1>3. PICK c : c = [Unused EXCEPT !.length = n] OBVIOUS
<1>4. c.length = n /\ c.blocks = << >> /\ c.hdlc = << >> BY <1>1, <1>3
<1>5. c \in [length : {0, Lengths[i]}, blocks : Seq(Bytes), hdlc : Seq(Bytes)]
  BY <1>1, <1>2, <1>3
<1>6. Kept(i, c) BY <1>2, <1>4, <1>5, LayoutFacts DEF Kept
<1> QED BY <1>3, <1>6

(* process_subchannel keeps its window shorter than a block and its HDLC   *)
(* buffer within its array, whatever bytes it is given.                    *)
LEMMA ChannelStep ==
  ASSUME NEW i \in Subchannels, NEW c, Kept(i, c), NEW bytes \in Seq(Bytes)
  PROVE  Kept(i, process_subchannel(c, bytes).state)
<1>1. c.blocks \o bytes \in Seq(Bytes) BY ConcatProperties DEF Kept
<1>2. PICK cut \in Cuts(c.blocks \o bytes, 1) : cut = Cut(c.blocks \o bytes)
  BY <1>1, CutIs
<1>3. PICK h : h = parse_hdlc(c.hdlc, cut.payload, MAX_AAS_LEN) OBVIOUS
<1>4. h.rest \in Seq(Bytes) /\ Len(h.rest) <= MAX_AAS_LEN + 1
  <2>1. cut.payload \in Seq(Bytes) BY DEF Cuts
  <2>2. c.hdlc \in Seq(Bytes) /\ Len(c.hdlc) <= MAX_AAS_LEN + 1 BY DEF Kept
  <2>3. h \in Reads(MAX_AAS_LEN) BY <1>3, <2>1, <2>2, LayoutFacts, HdlcIs
  <2> QED BY <2>3 DEF Reads
<1>5. process_subchannel(c, bytes).state = [c EXCEPT !.blocks = cut.rest, !.hdlc = h.rest]
  BY <1>2, <1>3 DEF process_subchannel
<1>6. cut.rest \in Seq(Bytes) /\ Len(cut.rest) < BlockLen BY DEF Cuts
<1>7. PICK r : r = [c EXCEPT !.blocks = cut.rest, !.hdlc = h.rest] OBVIOUS
<1>8. c \in [length : {0, Lengths[i]}, blocks : Seq(Bytes), hdlc : Seq(Bytes)] BY DEF Kept
<1>9. /\ r \in [length : {0, Lengths[i]}, blocks : Seq(Bytes), hdlc : Seq(Bytes)]
      /\ r.blocks = cut.rest /\ r.hdlc = h.rest
  BY <1>4, <1>6, <1>7, <1>8
<1>10. Kept(i, r) BY <1>4, <1>6, <1>9 DEF Kept
<1> QED BY <1>5, <1>7, <1>10

(* The subchannels that are cut out lie within the PDU.                    *)
LEMMA Within ==
  ASSUME NEW length \in [Subchannels -> Nat],
         \A i \in Subchannels : length[i] \in {0, Lengths[i]},
         NEW w \in 0..(Width + 2), NEW i \in Subchannels
  PROVE  /\ Start(length, i, Size - 1 - w) \in Nat \ {0}
         /\ Start(length, i + 1, Size - 1 - w) - 1 \in Nat
         /\ Start(length, i + 1, Size - 1 - w) - 1 <= Size
<1>1. PICK a, b, c, d : a = length[0] /\ b = length[1] /\ c = length[2] /\ d = length[3]
  OBVIOUS
<1>2. PICK j, k, l, m : j = Lengths[0] /\ k = Lengths[1] /\ l = Lengths[2] /\ m = Lengths[3]
  OBVIOUS
<1>3. /\ a \in Nat /\ b \in Nat /\ c \in Nat /\ d \in Nat
      /\ j \in Nat /\ k \in Nat /\ l \in Nat /\ m \in Nat
      /\ a <= j /\ b <= k /\ c <= l /\ d <= m
  <2>1. /\ a \in Nat /\ b \in Nat /\ c \in Nat /\ d \in Nat
        /\ j \in Nat /\ k \in Nat /\ l \in Nat /\ m \in Nat
    BY <1>1, <1>2, LayoutFacts DEF Subchannels
  <2>2. a \in {0, j} /\ b \in {0, k} /\ c \in {0, l} /\ d \in {0, m}
    BY <1>1, <1>2 DEF Subchannels
  <2> QED BY <2>1, <2>2
<1>4. PICK n \in Nat : n = Size BY SizeIs
<1>5. n = 2 * Width + 4 + j + k + l + m BY <1>2, <1>4, SizeIs
<1>6. PICK p \in Int : p = Size - 1 - w BY <1>4
<1>7. Width \in Nat BY LayoutFacts
<1>8. p <= n /\ p >= Width + 1 + j + k + l + m /\ p \in Nat
  <2>1. p = n - 1 - w BY <1>4, <1>6
  <2>2. w \in 0..(Width + 2) OBVIOUS
  <2> QED BY ONLY <1>3, <1>5, <1>7, <2>1, <2>2, n \in Nat
<1>9. /\ Start(length, 4, p) = p + 1
      /\ Start(length, 3, p) = p + 1 - d
      /\ Start(length, 2, p) = p + 1 - d - c
      /\ Start(length, 1, p) = p + 1 - d - c - b
      /\ Start(length, 0, p) = p + 1 - d - c - b - a
  <2>1. p \in Int OBVIOUS
  <2> QED BY <1>1, <2>1, StartIs
<1>10. PICK s0, s1, s2, s3, s4 :
         /\ s0 = p + 1 - d - c - b - a /\ s1 = p + 1 - d - c - b
         /\ s2 = p + 1 - d - c /\ s3 = p + 1 - d /\ s4 = p + 1
  OBVIOUS
<1>11. /\ s0 \in Nat \ {0} /\ s1 \in Nat \ {0} /\ s2 \in Nat \ {0}
       /\ s3 \in Nat \ {0} /\ s4 \in Nat \ {0}
       /\ s1 - 1 <= n /\ s2 - 1 <= n /\ s3 - 1 <= n /\ s4 - 1 <= n
       /\ s1 - 1 \in Nat /\ s2 - 1 \in Nat /\ s3 - 1 \in Nat /\ s4 - 1 \in Nat
  BY ONLY <1>3, <1>7, <1>8, <1>10
<1>12. i = 0 \/ i = 1 \/ i = 2 \/ i = 3 BY DEF Subchannels
<1>13. CASE i = 0 BY <1>4, <1>6, <1>9, <1>10, <1>11, <1>13
<1>14. CASE i = 1 BY <1>4, <1>6, <1>9, <1>10, <1>11, <1>14
<1>15. CASE i = 2 BY <1>4, <1>6, <1>9, <1>10, <1>11, <1>15
<1>16. CASE i = 3 BY <1>4, <1>6, <1>9, <1>10, <1>11, <1>16
<1> QED BY <1>12, <1>13, <1>14, <1>15, <1>16

-----------------------------------------------------------------------------
(* The inductive invariant.                                                *)

ReceiverInv ==
  /\ sync_width \in 0..(Width + 2) /\ sync_count \in 0..2
  /\ fixed_ready \in BOOLEAN
  /\ ccc \in Seq(Bytes) /\ Len(ccc) <= CCC_BUF + 1
  /\ \A i \in Subchannels : Kept(i, subchannel[i])

(* A wrong width costs a fault for each PDU that told it: one to be told,  *)
(* and one for each time it was told again.                                *)
WidthInv ==
  /\ sync_width \in {0, Width, Width + 2}
  /\ sync_width = 0 => sync_count = 0
  /\ sync_width \notin {0, Width} => errors > sync_count

IInv == ReceiverInv /\ WidthInv /\ Sending /\ errors \in 0..MaxErrors

(* What a PDU that tells width w does to the belief: a wrong width costs a *)
(* fault each time.                                                        *)
LEMMA BelievedInv ==
  ASSUME IInv, NEW w \in {0, Width, Width + 2}, Believed(w),
         errors' \in Nat, errors' >= errors,
         w \notin {0, Width} => errors' = errors + 1
  PROVE  WidthInv' /\ sync_count' \in 0..2 /\ sync_width' \in 0..(Width + 2)
<1>1. /\ Width \in Nat \ {0} /\ errors \in Nat /\ sync_count \in 0..2
      /\ MaxErrors \in Nat
  BY LayoutFacts DEF IInv, ReceiverInv
<1>2. CASE sync_count = 2
  <2>1. sync_width' = sync_width /\ sync_count' = 2
    BY <1>2 DEF Believed
  <2> QED BY <1>1, <1>2, <2>1 DEF IInv, WidthInv
<1>3. CASE sync_count < 2 /\ w > 0 /\ w = sync_width
  <2>1. sync_width' = w /\ sync_count' = sync_count + 1
    BY <1>1, <1>3 DEF Believed
  <2> QED BY <1>1, <1>3, <2>1 DEF IInv, WidthInv
<1>4. CASE sync_count < 2 /\ ~(w > 0 /\ w = sync_width)
  <2>1. sync_width' = w /\ sync_count' = 0
    BY <1>1, <1>4 DEF Believed
  <2> QED BY <1>1, <1>4, <2>1 DEF IInv, WidthInv
<1> QED BY <1>1, <1>2, <1>3, <1>4

(* process_fixed_data keeps every buffer within its array, whatever PDU of *)
(* the right length it is given.                                           *)
LEMMA ProcessInv ==
  ASSUME IInv, NEW pdu \in Seq(Bytes), Len(pdu) = Size, process_fixed_data(pdu),
         sync_width' \in 0..(Width + 2), sync_count' \in 0..2
  PROVE  ReceiverInv'
<1>1. CASE sync_count' < 2
  <2>1. UNCHANGED <<ccc, fixed_ready, subchannel>> BY <1>1 DEF process_fixed_data
  <2> QED BY <2>1 DEF IInv, ReceiverInv
<1>2. CASE ~(sync_count' < 2)
  <2> DEFINE Result(h, d) ==
               /\ ccc' = h.rest
               /\ fixed_ready' = IsReady(h)
               /\ subchannel' = [i \in Subchannels |-> d[i].state]
               /\ delivered' = [i \in Subchannels |-> delivered[i] \o d[i].frames]
  <2>1. PICK p \in {Len(pdu) - 1 - sync_width'} :
        \E h \in {parse_hdlc(ccc, SubSeq(pdu, p + 1, Len(pdu) - 1), CCC_BUF)} :
        \E c \in {process_fixed_ccc(h)} :
        \E length \in {[i \in Subchannels |-> c[i].length]} :
        \E d \in {[i \in Subchannels |-> process_subchannel(c[i],
                     SubSeq(pdu, Start(length, i, p), Start(length, i + 1, p) - 1))]} :
          Result(h, d)
    BY <1>2, Zenon DEF process_fixed_data
  <2> HIDE DEF Result
  <2>2. PICK h \in {parse_hdlc(ccc, SubSeq(pdu, p + 1, Len(pdu) - 1), CCC_BUF)} :
        \E c \in {process_fixed_ccc(h)} :
        \E length \in {[i \in Subchannels |-> c[i].length]} :
        \E d \in {[i \in Subchannels |-> process_subchannel(c[i],
                     SubSeq(pdu, Start(length, i, p), Start(length, i + 1, p) - 1))]} :
          Result(h, d)
    BY <2>1, Zenon
  <2>3. PICK c \in {process_fixed_ccc(h)} :
        \E length \in {[i \in Subchannels |-> c[i].length]} :
        \E d \in {[i \in Subchannels |-> process_subchannel(c[i],
                     SubSeq(pdu, Start(length, i, p), Start(length, i + 1, p) - 1))]} :
          Result(h, d)
    BY <2>2, Zenon
  <2>4. PICK length \in {[i \in Subchannels |-> c[i].length]} :
        \E d \in {[i \in Subchannels |-> process_subchannel(c[i],
                     SubSeq(pdu, Start(length, i, p), Start(length, i + 1, p) - 1))]} :
          Result(h, d)
    BY <2>3, Zenon
  <2>5. PICK d \in {[i \in Subchannels |-> process_subchannel(c[i],
                     SubSeq(pdu, Start(length, i, p), Start(length, i + 1, p) - 1))]} :
          Result(h, d)
    BY <2>4, Zenon
  <2>6. /\ c = process_fixed_ccc(h)
        /\ length = [i \in Subchannels |-> c[i].length]
        /\ d = [i \in Subchannels |-> process_subchannel(c[i],
                   SubSeq(pdu, Start(length, i, p), Start(length, i + 1, p) - 1))]
        /\ ccc' = h.rest
        /\ fixed_ready' = IsReady(h)
        /\ subchannel' = [i \in Subchannels |-> d[i].state]
    BY <2>5, Zenon DEF Result
  <2>7. ccc' \in Seq(Bytes) /\ Len(ccc') <= CCC_BUF + 1
    <3>1. PICK control : control = SubSeq(pdu, p + 1, Len(pdu) - 1) OBVIOUS
    <3>2. p + 1 \in Nat \ {0} /\ Len(pdu) - 1 \in Int /\ Len(pdu) \in Nat
      <4>1. p = Size - 1 - sync_width' OBVIOUS
      <4>2. \A i \in Subchannels : Lengths[i] \in {0, Lengths[i]} OBVIOUS
      <4>3. Start(Lengths, 4, p) - 1 \in Nat
        <5>1. 3 \in Subchannels /\ 3 + 1 = 4 BY DEF Subchannels
        <5> QED BY <4>1, <4>2, <5>1, Within, LayoutFacts
      <4>4. p \in Int /\ Start(Lengths, 4, p) = p + 1
        <5>1. p \in Int BY <4>1, SizeIs
        <5> QED BY <5>1, StartIs, LayoutFacts
      <4> QED BY <4>3, <4>4, SizeIs
    <3>3. \A k \in (p + 1)..(Len(pdu) - 1) : pdu[k] \in Bytes
      BY <3>2, ElementOfSeq
    <3>4. control \in Seq(Bytes) BY <3>1, <3>2, <3>3, SubSeqProperties
    <3>5. ccc \in Seq(Bytes) /\ Len(ccc) <= CCC_BUF + 1 BY DEF IInv, ReceiverInv
    <3>6. h = parse_hdlc(ccc, control, CCC_BUF) BY <2>2, <3>1, Zenon
    <3>7. h \in Reads(CCC_BUF) BY <3>4, <3>5, <3>6, LayoutFacts, HdlcIs
    <3> QED BY <2>6, <3>7 DEF Reads
  <2>8. fixed_ready' \in BOOLEAN BY <2>6, Zenon DEF IsReady
  <2>9. \A i \in Subchannels : Kept(i, c[i])
    <3>1. CASE IsReady(h) /\ ~fixed_ready
      <4> TAKE i \in Subchannels
      <4>1. c[i] = [Unused EXCEPT !.length = Lengths[i]]
        BY <2>6, <3>1 DEF process_fixed_ccc
      <4> QED BY <4>1, UnusedKept
    <3>2. CASE ~(IsReady(h) /\ ~fixed_ready)
      BY <2>6, <3>2 DEF process_fixed_ccc, IInv, ReceiverInv
    <3> QED BY <3>1, <3>2
  <2>10. length \in [Subchannels -> Nat] /\ \A i \in Subchannels : length[i] \in {0, Lengths[i]}
    <3>1. \A i \in Subchannels : c[i].length \in {0, Lengths[i]} BY <2>9 DEF Kept
    <3>2. \A i \in Subchannels : {0, Lengths[i]} \subseteq Nat BY LayoutFacts
    <3> QED BY <2>6, <3>1, <3>2
  <2>11. ASSUME NEW i \in Subchannels PROVE Kept(i, subchannel'[i])
    <3>1. PICK from, to : /\ from = Start(length, i, p)
                          /\ to = Start(length, i + 1, p) - 1
      OBVIOUS
    <3>2. p = Size - 1 - sync_width' OBVIOUS
    <3>3. from \in Nat \ {0} /\ to \in Nat /\ to <= Size
      BY <2>10, <3>1, <3>2, Within
    <3>4. \A k \in from..to : k \in 1..Len(pdu) BY <3>3, SizeIs
    <3>5. \A k \in from..to : pdu[k] \in Bytes BY <3>4, ElementOfSeq
    <3>6. from \in Int /\ to \in Int BY <3>3
    <3>7. SubSeq(pdu, from, to) \in Seq(Bytes) BY <3>5, <3>6, SubSeqProperties
    <3>8. d[i] = process_subchannel(c[i], SubSeq(pdu, from, to)) BY <2>6, <3>1
    <3>9. subchannel'[i] = d[i].state BY <2>6
    <3>10. PICK bytes \in Seq(Bytes) : bytes = SubSeq(pdu, from, to) BY <3>7
    <3>11. Kept(i, process_subchannel(c[i], bytes).state) BY <2>9, ChannelStep
    <3> QED BY <3>8, <3>9, <3>10, <3>11
  <2> QED BY <2>7, <2>8, <2>11 DEF ReceiverInv
<1> QED BY <1>1, <1>2

(* The station moves on in its streams.                                    *)
LEMMA SendInv ==
  ASSUME IInv, Send
  PROVE  Sending'
<1>1. cpos' \in 0..CccLen
  <2>1. cpos + Width \in Nat /\ CccLen + 1 \in Nat \ {0} /\ CccLen + 1 - 1 = CccLen
    BY LayoutFacts DEF IInv, Sending
  <2>2. PICK a \in Nat, b \in Nat \ {0} : a = cpos + Width /\ b = CccLen + 1 BY <2>1
  <2>3. a % b \in 0..(b - 1) BY DivMod
  <2> QED BY <2>1, <2>2, <2>3, LayoutFacts DEF Send
<1>2. ASSUME NEW p \in Nat, NEW stay \in BOOLEAN
      PROVE  After(p, stay) \in 0..(FramesEnd + BlockLen)
  <2>1. BlockLen \in Nat \ {0} BY LayoutFacts
  <2>2. CASE p >= FramesEnd
    <3>1. p - FramesEnd \in Nat BY <2>2, FramesEndNat
    <3>2. (p - FramesEnd) % BlockLen \in 0..(BlockLen - 1) BY <2>1, <3>1, DivMod
    <3>3. After(p, stay) = FramesEnd + ((p - FramesEnd) % BlockLen)
          \/ After(p, stay) = p % BlockLen
      BY <2>2 DEF After
    <3>4. p % BlockLen \in 0..(BlockLen - 1) BY <2>1, DivMod
    <3> QED BY <2>1, <3>2, <3>3, <3>4, FramesEndNat
  <2>3. CASE ~(p >= FramesEnd)
    <3>1. After(p, stay) = p % BlockLen \/ After(p, stay) = p
      BY <2>3, Zenon DEF After
    <3>2. p % BlockLen \in 0..(BlockLen - 1) BY <2>1, DivMod
    <3> QED BY <2>1, <2>3, <3>1, <3>2, FramesEndNat
  <2> QED BY <2>2, <2>3
<1>3. PICK stay \in BOOLEAN : pos' = [i \in Subchannels |-> After(pos[i] + Lengths[i], stay)]
  BY DEF Send
<1>4. \A i \in Subchannels : pos[i] + Lengths[i] \in Nat
  BY LayoutFacts, FramesEndNat DEF IInv, Sending
<1>5. pos' \in [Subchannels -> 0..(FramesEnd + BlockLen)] BY <1>2, <1>3, <1>4
<1> QED BY <1>1, <1>5, FramesEndNat DEF Sending, FramesEnd, Complete, FramesFrom, BlockLen

-----------------------------------------------------------------------------
(* The control field of a run of good PDUs.                                *)

(* At place j of its stream: how far back the last flag is, and what the   *)
(* stream has been from it on.                                             *)
Since(j) == IF j % (CccLen + 1) = 0 THEN CccLen + 1 ELSE j % (CccLen + 1)
Run(l) == [k \in 1..l |-> ControlByte(k - 1)]

(* Once n bytes before place j were read in order: if the last flag is one *)
(* of them the buffer holds what followed it, and if the flag before it is *)
(* one too a packet has been seen.                                         *)
Following(n, j, held, seen) ==
  /\ n >= Since(j) => held = Run(Since(j))
  /\ n >= Since(j) + CccLen + 1 => seen

(* A place of the control stream and the next one.                         *)
LEMMA PlaceIs ==
  ASSUME NEW j \in Nat
  PROVE  LET q == j % (CccLen + 1)
         IN /\ q \in 0..CccLen
            /\ (j + 1) % (CccLen + 1) = IF q = CccLen THEN 0 ELSE q + 1
            /\ Since(j) \in 1..(CccLen + 1)
            /\ q = 0 => ControlByte(j) = Flag /\ Since(j) = CccLen + 1 /\ Since(j + 1) = 1
            /\ q # 0 => /\ ControlByte(j) = Packet[q] /\ Since(j) = q
                        /\ Since(j + 1) = q + 1
<1>1. PICK P \in Nat \ {0} : P = CccLen + 1 BY LayoutFacts
<1>2. PICK q \in 0..(P - 1) : q = j % P BY DivMod
<1>3. (j + 1) % P = IF q + 1 = P THEN 0 ELSE q + 1 BY <1>2, ModStep
<1>4. CccLen \in Nat \ {0} /\ P - 1 = CccLen BY <1>1, LayoutFacts
<1>5. q \in 0..CccLen /\ (q + 1 = P <=> q = CccLen) BY <1>1, <1>4
<1>6. (j + 1) % (CccLen + 1) = IF q = CccLen THEN 0 ELSE q + 1 BY <1>1, <1>3, <1>5
<1>7. q = j % (CccLen + 1) BY <1>1, <1>2
<1>8. Since(j) \in 1..(CccLen + 1) BY <1>4, <1>5, <1>7 DEF Since
<1>9. ASSUME q = 0
      PROVE  ControlByte(j) = Flag /\ Since(j) = CccLen + 1 /\ Since(j + 1) = 1
  <2>1. (j + 1) % (CccLen + 1) = 1 BY <1>4, <1>6, <1>9
  <2> QED BY <1>7, <1>9, <2>1 DEF ControlByte, Since
<1>10. ASSUME q # 0
       PROVE  ControlByte(j) = Packet[q] /\ Since(j) = q /\ Since(j + 1) = q + 1
  <2>1. ControlByte(j) = Packet[q] /\ Since(j) = q
    BY <1>7, <1>10 DEF ControlByte, Since
  <2>2. CASE q = CccLen BY <1>4, <1>6, <2>1, <2>2 DEF Since
  <2>3. CASE q # CccLen
    <3>1. (j + 1) % (CccLen + 1) = q + 1 /\ q + 1 # 0 BY <1>5, <1>6, <2>3
    <3> QED BY <2>1, <3>1 DEF Since
  <2> QED BY <2>2, <2>3
<1> QED BY <1>5, <1>6, <1>7, <1>8, <1>9, <1>10

(* What a run is made of.                                                  *)
LEMMA RunIs ==
  ASSUME NEW l \in 1..(CccLen + 1)
  PROVE  /\ Run(l) \in Seq(Bytes) /\ Len(Run(l)) = l
         /\ \A k \in 1..l : Run(l)[k] = IF k = 1 THEN Flag ELSE Packet[k - 1]
<1>1. \A k \in 1..l : k - 1 \in Nat BY LayoutFacts
<1>2. Run(l) \in [1..l -> Bytes] BY <1>1 DEF Run, Bytes
<1>3. l \in Nat BY LayoutFacts
<1>4. ASSUME NEW k \in 1..l PROVE Run(l)[k] = IF k = 1 THEN Flag ELSE Packet[k - 1]
  <2>1. PICK P \in Nat \ {0} : P = CccLen + 1 BY LayoutFacts
  <2>2. k - 1 \in 0..(P - 1) BY <2>1, LayoutFacts
  <2>3. (k - 1) % P = k - 1 BY <2>2, SmallMod
  <2>4. Run(l)[k] = ControlByte(k - 1) BY DEF Run
  <2>5. (k - 1) % (CccLen + 1) = k - 1 BY <2>1, <2>3
  <2> QED BY <1>3, <2>4, <2>5 DEF ControlByte
<1> QED BY <1>2, <1>3, <1>4, FcnIsSeq

(* A run begins with the flag,                                             *)
LEMMA RunFlag == Run(1) = <<Flag>>
<1>1. 1 \in 1..(CccLen + 1) BY LayoutFacts
<1>2. Run(1) \in Seq(Bytes) /\ Len(Run(1)) = 1 /\ Run(1)[1] = Flag
  <2>1. PICK l \in 1..(CccLen + 1) : l = 1 BY <1>1
  <2>2. /\ Run(l) \in Seq(Bytes) /\ Len(Run(l)) = l
        /\ \A k \in 1..l : Run(l)[k] = IF k = 1 THEN Flag ELSE Packet[k - 1]
    BY RunIs
  <2> QED BY <2>1, <2>2
<1>3. <<Flag>> \in Seq(Bytes) /\ Len(<<Flag>>) = 1 /\ <<Flag>>[1] = Flag
  <2>1. Flag \in Bytes BY DEF Bytes
  <2> QED BY <2>1
<1> QED BY <1>2, <1>3, SeqEqual

(* goes on byte by byte,                                                   *)
LEMMA RunAppend ==
  ASSUME NEW q \in 1..CccLen
  PROVE  Append(Run(q), Packet[q]) = Run(q + 1)
<1>1. q \in 1..(CccLen + 1) /\ q + 1 \in 1..(CccLen + 1) /\ q \in Nat BY LayoutFacts
<1>2. PICK s, t : s = Run(q) /\ t = Run(q + 1) OBVIOUS
<1>3. /\ s \in Seq(Bytes) /\ Len(s) = q
      /\ \A k \in 1..q : s[k] = IF k = 1 THEN Flag ELSE Packet[k - 1]
  BY <1>1, <1>2, RunIs
<1>4. /\ t \in Seq(Bytes) /\ Len(t) = q + 1
      /\ \A k \in 1..(q + 1) : t[k] = IF k = 1 THEN Flag ELSE Packet[k - 1]
  BY <1>1, <1>2, RunIs
<1>5. t[q + 1] = Packet[q] /\ t[q + 1] \in Bytes
  <2>1. q + 1 \in 1..(q + 1) /\ q + 1 # 1 /\ q + 1 - 1 = q BY <1>1
  <2>2. t[q + 1] = Packet[q] BY <1>4, <2>1
  <2> QED BY <1>4, <2>1, <2>2, ElementOfSeq
<1>6. PICK u : u = Append(s, Packet[q]) OBVIOUS
<1>7. /\ u \in Seq(Bytes) /\ Len(u) = q + 1 /\ u[q + 1] = Packet[q]
      /\ \A k \in 1..q : u[k] = s[k]
  BY <1>3, <1>5, <1>6, AppendProperties
<1>8. \A k \in 1..(q + 1) : u[k] = t[k]
  <2> TAKE k \in 1..(q + 1)
  <2>1. CASE k = q + 1 BY <1>5, <1>7, <2>1
  <2>2. CASE k # q + 1
    <3>1. k \in 1..q BY <1>1, <2>2
    <3> QED BY <1>3, <1>4, <1>7, <3>1
  <2> QED BY <2>1, <2>2
<1>9. u = t BY <1>4, <1>7, <1>8, SeqEqual
<1> QED BY <1>2, <1>6, <1>9

(* and is a packet once it is as long as one.                              *)
LEMMA RunPacket == Run(CccLen + 1) = <<Flag>> \o Packet
<1>1. CccLen + 1 \in 1..(CccLen + 1) /\ CccLen \in Nat BY LayoutFacts
<1>2. PICK t : t = Run(CccLen + 1) OBVIOUS
<1>3. /\ t \in Seq(Bytes) /\ Len(t) = CccLen + 1
      /\ \A k \in 1..(CccLen + 1) : t[k] = IF k = 1 THEN Flag ELSE Packet[k - 1]
  BY <1>1, <1>2, RunIs
<1>4. \A k \in 1..CccLen : Packet[k] \in Bytes
  <2> TAKE k \in 1..CccLen
  <2>1. k + 1 \in 1..(CccLen + 1) /\ k + 1 # 1 /\ k + 1 - 1 = k BY <1>1
  <2>2. t[k + 1] = Packet[k] BY <1>3, <2>1
  <2> QED BY <1>3, <2>1, <2>2, ElementOfSeq
<1>5. Packet \in [1..CccLen -> Bytes] BY <1>4 DEF Packet
<1>6. Packet \in Seq(Bytes) /\ Len(Packet) = CccLen BY <1>1, <1>5, FcnIsSeq
<1>7. PICK f : f = <<Flag>> OBVIOUS
<1>8. f \in Seq(Bytes) /\ Len(f) = 1 /\ f[1] = Flag
  <2>1. Flag \in Bytes BY DEF Bytes
  <2> QED BY <1>7, <2>1
<1>9. PICK u : u = f \o Packet OBVIOUS
<1>10. /\ u \in Seq(Bytes) /\ Len(u) = 1 + CccLen
       /\ \A k \in 1..(1 + CccLen) : u[k] = IF k <= 1 THEN f[k] ELSE Packet[k - 1]
  BY <1>6, <1>8, <1>9, ConcatProperties
<1>11. ASSUME NEW k \in 1..(CccLen + 1) PROVE t[k] = u[k]
  <2>1. k \in 1..(1 + CccLen) /\ (k <= 1 <=> k = 1) BY <1>1
  <2> QED BY <1>3, <1>8, <1>10, <2>1
<1>12. t = u BY <1>1, <1>3, <1>10, <1>11, SeqEqual
<1> QED BY <1>2, <1>7, <1>9, <1>12

(* One byte more.                                                          *)
LEMMA FollowByte ==
  ASSUME NEW n \in Nat, NEW j \in Nat, NEW r \in Reads(CCC_BUF),
         Following(n, j, r.rest, IsReady(r))
  PROVE  LET s == HdlcByte(r, ControlByte(j), CCC_BUF)
         IN Following(n + 1, j + 1, s.rest, IsReady(s))
<1> DEFINE q == j % (CccLen + 1)
<1>1. PICK s : s = HdlcByte(r, ControlByte(j), CCC_BUF) OBVIOUS
<1>2. r.rest \in Seq(Bytes) /\ r.out \in Seq(Seq(Bytes)) BY DEF Reads
<1>3. CccLen \in Nat \ {0} /\ CccLen <= CCC_BUF /\ CCC_BUF \in Nat
  BY LayoutFacts, LayoutAssumption
<1>4. CASE q = 0
  <2>1. ControlByte(j) = Flag /\ Since(j) = CccLen + 1 /\ Since(j + 1) = 1
    BY <1>4, PlaceIs
  <2>2. /\ s.rest = <<Flag>>
        /\ s.out = IF r.rest = << >> THEN r.out ELSE Append(r.out, r.rest)
    BY <1>1, <2>1 DEF HdlcByte
  <2>3. s.rest = Run(Since(j + 1)) BY <2>1, <2>2, RunFlag
  <2>4. ASSUME n + 1 >= Since(j + 1) + CccLen + 1 PROVE IsReady(s)
    <3>1. n >= Since(j) BY <1>3, <2>1, <2>4
    <3>2. r.rest = <<Flag>> \o Packet BY <2>1, <3>1, RunPacket DEF Following
    <3>3. r.rest # <<>>
      <4>1. Len(r.rest) = CccLen + 1
        <5>1. CccLen + 1 \in 1..(CccLen + 1) BY <1>3
        <5>2. Len(Run(CccLen + 1)) = CccLen + 1 BY <5>1, RunIs
        <5> QED BY <3>2, <5>2, RunPacket
      <4>2. Len(<<>>) = 0 OBVIOUS
      <4> QED BY <1>3, <4>1, <4>2
    <3>4. s.out = Append(r.out, r.rest) BY <2>2, <3>3
    <3>5. /\ s.out \in Seq(Seq(Bytes)) /\ Len(s.out) = Len(r.out) + 1
          /\ s.out[Len(r.out) + 1] = r.rest
      BY <1>2, <3>4, AppendProperties
    <3>6. Len(r.out) + 1 \in DOMAIN s.out
      <4>1. Len(r.out) \in Nat BY <1>2, LenProperties
      <4>2. DOMAIN s.out = 1..Len(s.out) BY <3>5, LenProperties
      <4> QED BY <3>5, <4>1, <4>2
    <3> QED BY <3>2, <3>5, <3>6, Zenon DEF IsReady
  <2> QED BY <1>1, <2>3, <2>4 DEF Following
<1>5. CASE q # 0
  <2>1. /\ q \in 1..CccLen /\ ControlByte(j) = Packet[q] /\ Since(j) = q
        /\ Since(j + 1) = q + 1
    BY <1>3, <1>5, PlaceIs
  <2>2. Packet[q] # Flag BY <2>1 DEF Packet, Flag
  <2>3. /\ s.rest = IF r.rest # << >> /\ Len(r.rest) <= CCC_BUF
                    THEN Append(r.rest, Packet[q]) ELSE << >>
        /\ s.out = r.out
    BY <1>1, <2>1, <2>2 DEF HdlcByte, Reads
  <2>4. ASSUME n + 1 >= Since(j + 1) PROVE s.rest = Run(Since(j + 1))
    <3>1. n >= Since(j) BY <2>1, <2>4
    <3>2. r.rest = Run(q) BY <2>1, <3>1 DEF Following
    <3>3. q \in 1..(CccLen + 1) BY <1>3, <2>1
    <3>4. Len(r.rest) = q BY <3>2, <3>3, RunIs
    <3>5. Len(<<>>) = 0 OBVIOUS
    <3>6. r.rest # <<>> /\ Len(r.rest) <= CCC_BUF BY <1>3, <2>1, <3>4, <3>5
    <3>7. s.rest = Append(Run(q), Packet[q]) BY <2>3, <3>2, <3>6
    <3> QED BY <2>1, <3>7, RunAppend
  <2>5. ASSUME n + 1 >= Since(j + 1) + CccLen + 1 PROVE IsReady(s)
    <3>1. n >= Since(j) + CccLen + 1 BY <1>3, <2>1, <2>5
    <3>2. IsReady(r) BY <3>1 DEF Following
    <3> QED BY <2>3, <3>2 DEF IsReady
  <2> QED BY <1>1, <2>4, <2>5 DEF Following
<1> QED BY <1>4, <1>5

(* A whole control field.                                                  *)
LEMMA FollowField ==
  ASSUME NEW n \in Nat, NEW j \in Nat, NEW h \in Seq(Bytes), Len(h) <= CCC_BUF + 1,
         NEW bytes \in Seq(Bytes),
         \A k \in 1..Len(bytes) : bytes[k] = ControlByte(j + k - 1),
         Following(n, j, h, fixed_ready)
  PROVE  LET r == parse_hdlc(h, bytes, CCC_BUF)
         IN Following(n + Len(bytes), j + Len(bytes), r.rest, IsReady(r))
<1>1. PICK read \in [0..Len(bytes) -> Reads(CCC_BUF)] :
        /\ read[0] = [rest |-> h, out |-> << >>]
        /\ \A k \in 1..Len(bytes) : read[k] = HdlcByte(read[k - 1], bytes[k], CCC_BUF)
        /\ parse_hdlc(h, bytes, CCC_BUF) = read[Len(bytes)]
  BY LayoutFacts, ReadIs
<1>2. Len(bytes) \in Nat BY LenProperties
<1> DEFINE Follows(k) == Following(n + k, j + k, read[k].rest, IsReady(read[k]))
           fails == {k \in 0..Len(bytes) : ~ Follows(k)}
<1>3. Follows(0)
  <2>1. read[0].rest = h /\ read[0].out = <<>> BY <1>1
  <2>2. IsReady(read[0]) <=> fixed_ready
    <3>1. DOMAIN read[0].out = {} BY <2>1
    <3> QED BY <3>1 DEF IsReady
  <2>3. n + 0 = n /\ j + 0 = j OBVIOUS
  <2> QED BY <2>1, <2>2, <2>3 DEF Following
<1>4. fails = {}
  <2> SUFFICES ASSUME fails # {} PROVE FALSE OBVIOUS
  <2>1. fails \in SUBSET Nat BY <1>2
  <2>2. PICK m \in fails : \A k \in fails : m <= k BY <2>1, LeastNat
  <2>3. m \in 1..Len(bytes) /\ ~ Follows(m)
    <3>1. m # 0 BY <1>3, <2>2
    <3> QED BY <1>2, <2>2, <3>1
  <2>4. m - 1 \in 0..Len(bytes) /\ ~(m <= m - 1) BY <1>2, <2>3
  <2>5. Follows(m - 1) BY <2>2, <2>4
  <2>6. read[m - 1] \in Reads(CCC_BUF) BY <2>4
  <2>7. PICK a \in Nat, b \in Nat : a = n + (m - 1) /\ b = j + (m - 1) BY <2>3
  <2>8. a + 1 = n + m /\ b + 1 = j + m /\ b = j + m - 1 BY <2>3, <2>7
  <2>9. PICK r \in Reads(CCC_BUF) : r = read[m - 1] BY <2>6
  <2>10. Following(a, b, r.rest, IsReady(r)) BY <2>5, <2>7, <2>9
  <2>11. read[m] = HdlcByte(r, ControlByte(b), CCC_BUF) BY <1>1, <2>3, <2>8, <2>9
  <2>12. Following(a + 1, b + 1, read[m].rest, IsReady(read[m]))
    BY <2>10, <2>11, FollowByte
  <2> QED BY <2>3, <2>8, <2>12
<1>5. Follows(Len(bytes))
  <2>1. Len(bytes) \in 0..Len(bytes) BY <1>2
  <2> QED BY <1>4, <2>1
<1> QED BY <1>1, <1>5

(* What a good PDU does to the control field's buffer.                     *)
LEMMA FollowPDU ==
  ASSUME IInv, NEW n \in Nat, Following(n, cpos, ccc, fixed_ready),
         NEW pdu, pdu = PDU, process_fixed_data(pdu), Send,
         sync_width' = Width, sync_count' = 2
  PROVE  Following(n + Width, cpos', ccc', fixed_ready')
<1>1. /\ pdu \in Seq(Bytes) /\ Len(pdu) = Size
      /\ \A k \in 1..Width : pdu[Size - 1 - Width + k] = ControlByte(cpos + k - 1)
  BY PDUIs DEF IInv
<1>2. PICK from, to : from = Size - 1 - Width + 1 /\ to = Size - 1 OBVIOUS
<1>3. PICK control : control = SubSeq(pdu, from, to) OBVIOUS
<1>4. PICK h : h = parse_hdlc(ccc, control, CCC_BUF) OBVIOUS
<1>5. ccc' = h.rest /\ fixed_ready' = IsReady(h)
  <2>1. ~(sync_count' < 2) OBVIOUS
  <2>2. \E p \in {Len(pdu) - 1 - sync_width'} :
        \E k \in {parse_hdlc(ccc, SubSeq(pdu, p + 1, Len(pdu) - 1), CCC_BUF)} :
          ccc' = k.rest /\ fixed_ready' = IsReady(k)
    BY <2>1, Zenon DEF process_fixed_data
  <2>3. Len(pdu) - 1 - sync_width' + 1 = from /\ Len(pdu) - 1 = to BY <1>1, <1>2
  <2> QED BY <1>3, <1>4, <2>2, <2>3
<1>6. /\ Width \in Nat \ {0} /\ Size \in Nat /\ from \in Nat \ {0} /\ to \in Nat
      /\ to - from + 1 = Width /\ from <= to /\ to <= Size
  <2>1. PICK a, b, c, d : a = Lengths[0] /\ b = Lengths[1] /\ c = Lengths[2] /\ d = Lengths[3]
    OBVIOUS
  <2>2. a \in Nat /\ b \in Nat /\ c \in Nat /\ d \in Nat
    BY <2>1, LayoutFacts DEF Subchannels
  <2>3. PICK z \in Nat : z = Size BY SizeIs
  <2>4. z = 2 * Width + 4 + a + b + c + d BY <2>1, <2>3, SizeIs
  <2>5. Width \in Nat \ {0} BY LayoutFacts
  <2>6. z >= 2 * Width + 4 BY ONLY <2>2, <2>4, <2>5, z \in Nat
  <2> QED BY <1>2, <2>3, <2>5, <2>6
<1>7. \A i \in from..to : pdu[i] \in Bytes
  <2>1. \A i \in from..to : i \in 1..Len(pdu) BY <1>1, <1>6
  <2> QED BY <1>1, <2>1, ElementOfSeq
<1>8. /\ control \in Seq(Bytes) /\ Len(control) = Width
      /\ \A k \in 1..Width : control[k] = pdu[from + k - 1]
  <2>1. from \in Int /\ to \in Int BY <1>6
  <2>2. /\ control \in Seq(Bytes)
        /\ Len(control) = IF from <= to THEN to - from + 1 ELSE 0
        /\ \A k \in 1..(to - from + 1) : control[k] = pdu[from + k - 1]
    BY <1>3, <1>7, <2>1, SubSeqProperties
  <2> QED BY <1>6, <2>2
<1>9. \A k \in 1..Len(control) : control[k] = ControlByte(cpos + k - 1)
  <2> TAKE k \in 1..Len(control)
  <2>1. k \in 1..Width BY <1>8
  <2>2. from + k - 1 = Size - 1 - Width + k BY <1>2, <1>6, <2>1
  <2> QED BY <1>1, <1>8, <2>1, <2>2
<1>10. cpos \in Nat /\ ccc \in Seq(Bytes) /\ Len(ccc) <= CCC_BUF + 1
  BY LayoutFacts DEF IInv, Sending, ReceiverInv
<1>11. Following(n + Len(control), cpos + Len(control), h.rest, IsReady(h))
  BY <1>4, <1>8, <1>9, <1>10, FollowField
<1>12. Since(cpos') = Since(cpos + Width)
  <2>1. PICK P \in Nat \ {0}, j \in Nat : P = CccLen + 1 /\ j = cpos + Width
    BY <1>6, <1>10, LayoutFacts
  <2>2. cpos' = j % P BY <2>1 DEF Send
  <2>3. j % P \in 0..(P - 1) BY DivMod
  <2>4. (j % P) % P = j % P BY <2>3, SmallMod
  <2> QED BY <2>1, <2>2, <2>4 DEF Since
<1>13. Following(n + Width, cpos + Width, ccc', fixed_ready')
  BY <1>5, <1>8, <1>11
<1> QED BY <1>12, <1>13 DEF Following

-----------------------------------------------------------------------------
(* The steps.                                                              *)

(* A receiver just started has the invariant, and each step keeps it.      *)
LEMMA InitInv == Init => IInv
<1> SUFFICES ASSUME Init PROVE IInv OBVIOUS
<1> USE DEF Init
<1>1. Width \in Nat \ {0} /\ CCC_BUF \in Nat /\ MaxErrors \in Nat BY LayoutFacts
<1>2. ASSUME NEW i \in Subchannels PROVE Kept(i, subchannel[i])
  <2>1. Unused \in [length : {0, Lengths[i]}, blocks : Seq(Bytes), hdlc : Seq(Bytes)]
    BY DEF Unused
  <2>2. Unused.blocks = <<>> /\ Unused.hdlc = <<>> /\ Len(<<>>) = 0 BY DEF Unused
  <2>3. subchannel[i] = Unused OBVIOUS
  <2> QED BY <2>1, <2>2, <2>3, LayoutFacts DEF Kept
<1>3. ReceiverInv
  <2>1. ccc \in Seq(Bytes) /\ Len(ccc) <= CCC_BUF + 1
    <3>1. ccc = <<>> /\ <<>> \in Seq(Bytes) /\ Len(<<>>) = 0 OBVIOUS
    <3> QED BY <1>1, <3>1
  <2>2. sync_width \in 0..(Width + 2) /\ sync_count \in 0..2 BY <1>1
  <2>3. fixed_ready \in BOOLEAN OBVIOUS
  <2> QED BY <1>2, <2>1, <2>2, <2>3, Zenon DEF ReceiverInv
<1>4. WidthInv BY DEF WidthInv
<1>5. Sending BY LayoutFacts, FramesEndNat DEF Sending
<1> QED BY <1>1, <1>3, <1>4, <1>5 DEF IInv

(* A good PDU: it tells the station's width.                               *)
LEMMA ReceiveInv == ASSUME IInv, Receive PROVE IInv'
<1>1. PICK pdu \in {PDU} : process_fixed_data(pdu) BY DEF Receive
<1>2. pdu \in Seq(Bytes) /\ Len(pdu) = Size /\ pdu[Size] = WidthByte(Width)
  BY PDUIs DEF IInv
<1>3. ByteWidth(pdu[Len(pdu)]) = Width BY <1>2 DEF ByteWidth, WidthByte
<1>4. errors' = errors /\ errors \in Nat BY LayoutFacts DEF Receive, IInv
<1>5. Believed(Width) BY <1>1, <1>3 DEF process_fixed_data
<1>6. WidthInv' /\ sync_count' \in 0..2 /\ sync_width' \in 0..(Width + 2)
  BY <1>4, <1>5, BelievedInv
<1>7. ReceiverInv' BY <1>1, <1>2, <1>6, ProcessInv
<1>8. Sending' BY SendInv DEF Receive
<1>9. (errors \in 0..MaxErrors)' BY <1>4 DEF IInv
<1> QED BY <1>6, <1>7, <1>8, <1>9 DEF IInv

(* A damaged byte: it tells a wrong width only in the last place.          *)
LEMMA DamageInv ==
  ASSUME IInv, NEW k \in (Len(Audio) + 1)..Size, NEW b \in Damages(k), Damage(k, b)
  PROVE  IInv'
<1>1. /\ errors' = errors + 1 /\ errors \in Nat /\ errors < MaxErrors
      /\ MaxErrors \in Nat
  BY LayoutFacts DEF Damage, Fault, IInv
<1>2. PICK sent \in {PDU} : process_fixed_data([sent EXCEPT ![k] = b]) BY DEF Damage
<1>3. sent \in Seq(Bytes) /\ Len(sent) = Size /\ sent[Size] = WidthByte(Width)
  BY PDUIs DEF IInv
<1>4. k \in 1..Len(sent)
  <2>1. Audio \in [1..Width + 3 -> {Junk}] BY DEF Audio
  <2>2. Len(Audio) = Width + 3 BY <2>1, FcnIsSeq, LayoutFacts
  <2> QED BY <1>3, <2>2, SizeIs, LayoutFacts
<1>5. b \in Bytes BY DEF Damages, Bytes
<1>6. PICK pdu : pdu = [sent EXCEPT ![k] = b] OBVIOUS
<1>7. /\ pdu \in Seq(Bytes) /\ Len(pdu) = Size
      /\ \A j \in 1..Size : pdu[j] = IF j = k THEN b ELSE sent[j]
  BY <1>3, <1>4, <1>5, <1>6, ExceptSeq
<1>8. ByteWidth(pdu[Size]) \in {0, Width, Width + 2}
  <2>1. Size \in 1..Size BY <1>3, <1>4, SizeIs
  <2>2. CASE k = Size
    <3>1. pdu[Size] = b /\ b \in {Junk, WidthByte(Width + 2)}
      BY <1>7, <2>1, <2>2, SizeIs DEF Damages
    <3> QED BY <3>1 DEF ByteWidth, WidthByte, Junk
  <2>3. CASE k # Size
    <3>1. pdu[Size] = WidthByte(Width) BY <1>3, <1>7, <2>1, <2>3
    <3> QED BY <3>1 DEF ByteWidth, WidthByte
  <2> QED BY <2>2, <2>3
<1>9. Believed(ByteWidth(pdu[Size])) BY <1>2, <1>6, <1>7 DEF process_fixed_data
<1>10. WidthInv' /\ sync_count' \in 0..2 /\ sync_width' \in 0..(Width + 2)
  BY <1>1, <1>8, <1>9, BelievedInv
<1>11. ReceiverInv' BY <1>2, <1>6, <1>7, <1>10, ProcessInv
<1>12. Sending' BY SendInv DEF Damage
<1>13. (errors \in 0..MaxErrors)' BY <1>1
<1> QED BY <1>10, <1>11, <1>12, <1>13 DEF IInv

(* A PDU that is lost: the receiver does nothing.                          *)
LEMMA MissInv == ASSUME IInv, Miss PROVE IInv'
<1>1. /\ errors' = errors + 1 /\ errors \in Nat /\ errors < MaxErrors
      /\ MaxErrors \in Nat
  BY LayoutFacts DEF Miss, Fault, IInv
<1>2. UNCHANGED <<sync_width, sync_count, ccc, fixed_ready, subchannel>>
  BY DEF Miss, receiver
<1>3. ReceiverInv' BY <1>2 DEF ReceiverInv, IInv
<1>4. WidthInv' BY <1>1, <1>2 DEF WidthInv, IInv, ReceiverInv
<1>5. Sending' BY SendInv DEF Miss
<1>6. (errors \in 0..MaxErrors)' BY <1>1
<1> QED BY <1>3, <1>4, <1>5, <1>6 DEF IInv

(* frame_reset: no width, no control field, the subchannels as they were.  *)
LEMMA ResetInv == ASSUME IInv, Reset PROVE IInv'
<1>1. /\ errors' = errors + 1 /\ errors \in Nat /\ errors < MaxErrors
      /\ MaxErrors \in Nat
  BY LayoutFacts DEF Reset, Fault, IInv
<1>2. /\ sync_width' = 0 /\ sync_count' = 0 /\ ccc' = << >> /\ fixed_ready' = FALSE
      /\ UNCHANGED <<subchannel, cpos, pos>>
  BY DEF Reset
<1>3. ccc' \in Seq(Bytes) /\ Len(ccc') <= CCC_BUF + 1
  <2>1. <<>> \in Seq(Bytes) /\ Len(<<>>) = 0 OBVIOUS
  <2> QED BY <1>2, <2>1, LayoutFacts
<1>4. ReceiverInv'
  <2>1. sync_width' \in 0..(Width + 2) /\ sync_count' \in 0..2 BY <1>2, LayoutFacts
  <2>2. \A i \in Subchannels : Kept(i, subchannel'[i])
    BY <1>2 DEF IInv, ReceiverInv
  <2> QED BY <1>2, <1>3, <2>1, <2>2, Zenon DEF ReceiverInv
<1>5. WidthInv' BY <1>2 DEF WidthInv
<1>6. Sending' BY <1>2 DEF Sending, IInv
<1>7. (errors \in 0..MaxErrors)' BY <1>1
<1> QED BY <1>4, <1>5, <1>6, <1>7 DEF IInv

(* The inductive invariant: the buffers within their arrays, a wrong width *)
(* paid for with faults, and the station within its streams.               *)
THEOREM Invariance == Spec => []IInv
<1>1. ASSUME IInv, [Next]_vars PROVE IInv'
  <2>1. CASE Receive BY <1>1, <2>1, ReceiveInv
  <2>2. CASE Miss BY <1>1, <2>2, MissInv
  <2>3. CASE Reset BY <1>1, <2>3, ResetInv
  <2>4. ASSUME NEW k \in (Len(Audio) + 1)..Size, NEW b \in Damages(k), Damage(k, b)
        PROVE  IInv'
    BY <1>1, <2>4, DamageInv
  <2>5. CASE UNCHANGED vars
    BY <1>1, <2>5 DEF vars, receiver, IInv, ReceiverInv, WidthInv, Sending
  <2> QED BY <1>1, <2>1, <2>2, <2>3, <2>4, <2>5 DEF Next
<1> QED BY <1>1, InitInv, PTL DEF Spec

(* Type correctness, for any layout: no window and no HDLC buffer of       *)
(* frame.c is ever written past its array, whatever bytes are damaged or   *)
(* lost.                                                                   *)
THEOREM TypeCorrect == Spec => []TypeOK
<1>1. IInv => TypeOK BY DEF IInv, ReceiverInv, Kept, TypeOK
<1> QED BY <1>1, Invariance, PTL

(* A width that is believed and wrong was told by three PDUs in a row.     *)
WrongIsDear == sync_count = 2 /\ sync_width # Width => errors > 2

(* process_fixed_data never believes a wrong width for less than three     *)
(* damaged bytes, however many resets and lost PDUs come between.          *)
THEOREM BeliefCorrect == Spec => []WrongIsDear
<1>1. IInv => WrongIsDear BY DEF IInv, WidthInv, WrongIsDear
<1> QED BY <1>1, Invariance, PTL

(* With no more than two faults the width that process_fixed_data believes *)
(* is the station's, for any layout of the channel.                        *)
THEOREM WidthCorrect ==
  ASSUME MaxErrors <= 2
  PROVE  Spec => []WidthTrue
<1>1. IInv => WidthTrue
  BY LayoutFacts DEF IInv, WidthInv, WidthTrue
<1> QED BY <1>1, Invariance, PTL
-----------------------------------------------------------------------------
(* The channel opens.                                                      *)

(* The bytes of the control field that c good PDUs bring after the two     *)
(* that only tell the width.                                               *)
Brought(c) == IF c > 2 THEN (c - 2) * Width ELSE 0

(* The first good PDU sets the width, the second confirms it, and from the *)
(* third on the control field is read.                                     *)
OpenInv ==
  /\ clean \in 0..OpenWithin
  /\ clean > 0 => sync_width = Width
  /\ clean > 1 => sync_count > 0
  /\ clean > 2 => sync_count = 2
  /\ Following(Brought(clean), cpos, ccc, fixed_ready)

(* The bound of Opens is long enough for two packets and the flags around  *)
(* them.                                                                   *)
LEMMA OpenWithinIs ==
  /\ OpenWithin \in Nat /\ OpenWithin >= 3
  /\ Brought(OpenWithin) \in Nat
  /\ Brought(OpenWithin) >= 2 * (CccLen + 1)
<1>1. PICK a \in Nat, w \in Nat \ {0} : a = 2 * CccLen + 1 /\ w = Width
  BY LayoutFacts
<1>2. PICK q \in Nat, r \in 0..(w - 1) : q = a \div w /\ r = a % w /\ a = w * q + r
  BY DivModIs
<1>3. OpenWithin = 3 + q BY <1>1, <1>2 DEF OpenWithin
<1>4. (q + 1) * w = q * w + w /\ q * w \in Nat BY ProductStep
<1>5. q * w = w * q OBVIOUS
<1>6. Brought(OpenWithin) = (q + 1) * w
  <2>1. OpenWithin > 2 /\ OpenWithin - 2 = q + 1 BY <1>3
  <2> QED BY <1>1, <2>1 DEF Brought
<1>7. PICK m \in Nat : m = q * w BY <1>4
<1>8. a = m + r BY <1>2, <1>5, <1>7
<1>9. m + w >= a + 1 BY <1>8
<1> QED BY <1>1, <1>3, <1>4, <1>6, <1>7, <1>9, LayoutFacts

(* A good PDU more brings a control field more.                            *)
LEMMA BroughtStep ==
  ASSUME NEW c \in Nat
  PROVE  /\ Brought(c) \in Nat /\ Brought(c) <= Brought(c + 1)
         /\ c >= 2 => Brought(c + 1) = Brought(c) + Width
<1>1. Width \in Nat BY LayoutFacts
<1>2. CASE c > 2
  <2>1. PICK d \in Nat : d = c - 2 BY <1>2
  <2>2. (d + 1) * Width = d * Width + Width /\ d * Width \in Nat
    BY <1>1, ProductStep
  <2>3. Brought(c) = d * Width BY <1>2, <2>1 DEF Brought
  <2>4. c + 1 > 2 /\ c + 1 - 2 = d + 1 BY <1>2, <2>1
  <2>5. Brought(c + 1) = (d + 1) * Width BY <2>4 DEF Brought
  <2> QED BY <1>1, <2>2, <2>3, <2>5
<1>3. CASE c = 2
  <2>1. Brought(2) = 0 BY DEF Brought
  <2>2. 1 * Width = Width BY <1>1
  <2>3. Brought(3) = Width BY <2>2 DEF Brought
  <2> QED BY <1>1, <1>3, <2>1, <2>3
<1>4. CASE c < 2
  <2>1. ~(c > 2) /\ ~(c + 1 > 2) BY <1>4
  <2> QED BY <1>1, <1>4, <2>1 DEF Brought
<1> QED BY <1>2, <1>3, <1>4

(* A fault ends the run: nothing is claimed of what follows.               *)
LEMMA FollowNothing ==
  ASSUME NEW j \in Nat, NEW held, NEW seen
  PROVE  Following(0, j, held, seen)
<1>1. Since(j) \in 1..(CccLen + 1) BY PlaceIs
<1> QED BY <1>1, LayoutFacts DEF Following

(* A good PDU keeps OpenInv: it is in the run, and is read if the width is *)
(* known.                                                                  *)
LEMMA OpenReceive ==
  ASSUME IInv, IInv', MaxErrors <= 2, OpenInv, Receive
  PROVE  OpenInv'
<1>1. PICK pdu \in {PDU} : process_fixed_data(pdu) BY DEF Receive
<1>2. pdu \in Seq(Bytes) /\ Len(pdu) = Size /\ pdu[Size] = WidthByte(Width)
  BY PDUIs DEF IInv
<1>3. Believed(Width)
  <2>1. ByteWidth(pdu[Len(pdu)]) = Width BY <1>2 DEF ByteWidth, WidthByte
  <2> QED BY <1>1, <2>1 DEF process_fixed_data
<1>4. /\ clean \in 0..OpenWithin /\ OpenWithin \in Nat /\ OpenWithin >= 3
      /\ clean' = Min2(OpenWithin, clean + 1)
      /\ Width \in Nat \ {0} /\ sync_count \in 0..2
  BY OpenWithinIs, LayoutFacts DEF OpenInv, Receive, IInv, ReceiverInv
<1>5. /\ clean' \in 0..OpenWithin /\ clean' <= clean + 1
      /\ clean' = clean + 1 \/ (clean' = clean /\ clean > 2)
  BY <1>4 DEF Min2
<1>6. sync_count = 2 => sync_width = Width
  BY LayoutFacts DEF IInv, WidthInv
<1>7. sync_width' = Width BY <1>3, <1>4, <1>6 DEF Believed
<1>8. clean' > 1 => sync_count' > 0
  BY <1>3, <1>4, <1>5, <1>6 DEF Believed, OpenInv
<1>9. clean' > 2 => sync_count' = 2
  BY <1>3, <1>4, <1>5, <1>6 DEF Believed, OpenInv
<1>10. cpos' \in Nat BY DEF IInv, Sending
<1>11. Following(Brought(clean'), cpos', ccc', fixed_ready')
  <2>1. CASE clean' > 2
    <3>1. clean \in Nat /\ clean >= 2 BY <1>4, <1>5, <2>1
    <3>2. Following(Brought(clean), cpos, ccc, fixed_ready) BY DEF OpenInv
    <3>3. PICK n \in Nat : n = Brought(clean) BY <3>1, BroughtStep
    <3>4. Following(n, cpos, ccc, fixed_ready) BY <3>2, <3>3
    <3>5. sync_count' = 2 BY <1>9, <2>1
    <3>6. Send /\ pdu = PDU BY DEF Receive
    <3>7. Following(n + Width, cpos', ccc', fixed_ready')
      BY <1>1, <1>7, <3>4, <3>5, <3>6, FollowPDU
    <3>8. Brought(clean') \in Nat /\ Brought(clean') <= n + Width
      <4>1. Brought(clean + 1) = n + Width BY <3>1, <3>3, BroughtStep
      <4>2. CASE clean' = clean + 1 BY <1>4, <3>3, <4>1, <4>2
      <4>3. CASE clean' = clean BY <1>4, <3>3, <4>3
      <4> QED BY <1>5, <4>2, <4>3
    <3>9. Since(cpos') \in Nat
      <4>1. PICK j \in Nat : j = cpos' BY <1>10
      <4> QED BY <4>1, PlaceIs, LayoutFacts
    <3> QED BY <1>4, <3>7, <3>8, <3>9, LayoutFacts DEF Following
  <2>2. CASE ~(clean' > 2)
    <3>1. Brought(clean') = 0 BY <2>2 DEF Brought
    <3> QED BY <1>10, <3>1, FollowNothing
  <2> QED BY <2>1, <2>2
<1> QED BY <1>5, <1>7, <1>8, <1>9, <1>11, Zenon DEF OpenInv

(* A fault keeps it: the run is over.                                      *)
LEMMA OpenFault ==
  ASSUME IInv', clean' = 0
  PROVE  OpenInv'
<1>1. cpos' \in Nat BY DEF IInv, Sending
<1>2. Following(0, cpos', ccc', fixed_ready') BY <1>1, FollowNothing
<1>3. Brought(0) = 0 BY DEF Brought
<1> QED BY <1>2, <1>3, OpenWithinIs DEF OpenInv

(* For any layout of the channel, and with no more than two faults,        *)
(* OpenWithin good PDUs in a row make the subchannels known to             *)
(* process_fixed_ccc, whatever was damaged before them, and keep them      *)
(* known.                                                                  *)
THEOREM OpensCorrect ==
  ASSUME MaxErrors <= 2
  PROVE  Spec => []Opens
<1>1. Init => OpenInv
  <2> SUFFICES ASSUME Init PROVE OpenInv OBVIOUS
  <2>1. clean = 0 /\ cpos = 0 BY DEF Init
  <2>2. Following(0, cpos, ccc, fixed_ready) BY <2>1, FollowNothing
  <2> QED BY <2>1, <2>2, OpenWithinIs DEF OpenInv, Brought
<1>2. ASSUME OpenInv, IInv, IInv', [Next]_vars PROVE OpenInv'
  <2>1. CASE Receive BY <1>2, <2>1, OpenReceive
  <2>2. CASE Miss BY <1>2, <2>2, OpenFault DEF Miss, Fault
  <2>3. CASE Reset BY <1>2, <2>3, OpenFault DEF Reset, Fault
  <2>4. ASSUME NEW k \in (Len(Audio) + 1)..Size, NEW b \in Damages(k), Damage(k, b)
        PROVE  OpenInv'
    BY <1>2, <2>4, OpenFault DEF Damage, Fault
  <2>5. CASE UNCHANGED vars
    BY <1>2, <2>5 DEF vars, receiver, history, OpenInv, Following
  <2> QED BY <1>2, <2>1, <2>2, <2>3, <2>4, <2>5 DEF Next
<1>3. OpenInv /\ IInv => Opens
  <2> SUFFICES ASSUME OpenInv, IInv, clean = OpenWithin PROVE fixed_ready
    BY DEF Opens
  <2>1. cpos \in Nat BY LayoutFacts DEF IInv, Sending
  <2>2. Since(cpos) \in 1..(CccLen + 1) BY <2>1, PlaceIs
  <2>3. Brought(clean) >= Since(cpos) + CccLen + 1
    BY <2>2, OpenWithinIs, LayoutFacts
  <2> QED BY <2>3 DEF OpenInv, Following
<1>4. Spec => []OpenInv BY <1>1, <1>2, Invariance, PTL DEF Spec
<1> QED BY <1>3, <1>4, Invariance, PTL

-----------------------------------------------------------------------------
(* Where the bytes of frames lie in the stream of a subchannel.            *)

(* The place of payload byte q of a subchannel, once frames are sent.      *)
Place(q) == FramesFrom + (q \div PAYLOAD) * BlockLen + BBM_LEN + (q % PAYLOAD)
FrameBytes == NFrames * (FrameLen + 1)

(* A greater factor.                                                       *)
LEMMA ProductLess ==
  ASSUME NEW a \in Nat, NEW b \in Nat, NEW c \in Nat, a < b
  PROVE  a * c + c <= b * c /\ a * c \in Nat /\ b * c \in Nat
<1>1. PICK d \in Nat : b = a + 1 + d
  <2>1. b - a - 1 \in Nat /\ b = a + 1 + (b - a - 1) OBVIOUS
  <2> QED BY <2>1
<1>2. b * c = a * c + c + d * c BY <1>1
<1>3. d * c \in Nat /\ a * c \in Nat /\ b * c \in Nat BY ProductNat
<1> QED BY <1>2, <1>3

(* Payload bytes lie in the order of their numbers,                        *)
LEMMA PlaceRises ==
  ASSUME NEW q \in Nat, NEW r \in Nat
  PROVE  /\ Place(q) \in Nat /\ Place(q) > FramesFrom
         /\ q < r => Place(q) < Place(r)
         /\ q < FrameBytes => Place(q) < FramesEnd
<1>1. PICK P \in Nat \ {0}, L \in Nat, M \in Nat \ {0} :
        P = PAYLOAD /\ L = BlockLen /\ M = BBM_LEN /\ L = M + P
  BY LayoutFacts DEF BlockLen
<1>2. PICK f \in Nat : f = FramesFrom BY FramesEndNat
<1>3. PICK a \in Nat, b \in 0..(P - 1) : a = q \div P /\ b = q % P /\ q = P * a + b
  BY DivModIs
<1>4. PICK c \in Nat, d \in 0..(P - 1) : c = r \div P /\ d = r % P /\ r = P * c + d
  BY DivModIs
<1>5. PICK g \in Nat, h \in Nat : g = a * L /\ h = c * L BY ProductNat
<1>6. Place(q) = f + g + M + b /\ Place(r) = f + h + M + d
  BY <1>1, <1>2, <1>3, <1>4, <1>5 DEF Place
<1>7. \A x, y \in Nat : x < y => P * x + P <= P * y
  <2> TAKE x, y \in Nat
  <2> HAVE x < y
  <2>1. x * P + P <= y * P BY ProductLess
  <2> QED BY <2>1
<1>8. ASSUME q < r PROVE Place(q) < Place(r)
  <2>1. a <= c
    <3>1. SUFFICES ASSUME c < a PROVE FALSE OBVIOUS
    <3>2. P * c + P <= P * a BY <1>7, <3>1
    <3>3. P * c \in Nat /\ P * a \in Nat BY ProductNat
    <3> QED BY <1>3, <1>4, <1>8, <3>2, <3>3
  <2>2. CASE a = c
    <3>1. g = h /\ b < d BY <1>3, <1>4, <1>5, <1>8, <2>2, ProductNat
    <3> QED BY <1>6, <3>1
  <2>3. CASE a < c
    <3>1. g + L <= h BY <1>5, <2>3, ProductLess
    <3> QED BY <1>1, <1>6, <3>1
  <2> QED BY <2>1, <2>2, <2>3
<1>9. ASSUME q < FrameBytes PROVE Place(q) < FramesEnd
  <2>1. PICK t \in Nat : t = FrameBytes
    <3>1. FrameLen + 1 \in Nat BY LayoutFacts
    <3> QED BY <3>1, LayoutFacts, ProductNat DEF FrameBytes
  <2>2. PICK e \in Nat, i \in 0..(P - 1) : e = t \div P /\ i = t % P /\ t = P * e + i
    BY <2>1, DivModIs
  <2>3. a <= e
    <3>1. SUFFICES ASSUME e < a PROVE FALSE OBVIOUS
    <3>2. P * e + P <= P * a BY <1>7, <3>1
    <3>3. P * e \in Nat /\ P * a \in Nat BY ProductNat
    <3> QED BY <1>3, <1>9, <2>1, <2>2, <3>2, <3>3
  <2>4. PICK j \in Nat : j = (e + 1) * L BY ProductNat
  <2>5. g + L <= j BY <1>5, <2>3, <2>4, ProductLess
  <2>6. FramesEnd = f + j BY <1>1, <1>2, <2>1, <2>2, <2>4 DEF FramesEnd, Complete, FrameBytes
  <2> QED BY <1>1, <1>6, <2>5, <2>6
<1> QED BY <1>1, <1>2, <1>6, <1>8, <1>9

(* and the bytes of frames lie nowhere else.                               *)
LEMMA StreamIs ==
  ASSUME NEW p \in 0..StreamEnd, NEW w \in Nat, Stream[p] = Aas(w)
  PROVE  \E q \in Nat : p = Place(q) /\ w = q + FrameLen + 1 /\ q < FrameBytes
<1>1. PICK P \in Nat \ {0}, L \in Nat \ {0}, M \in Nat \ {0}, F \in Nat \ {0}, I \in Nat :
        /\ P = PAYLOAD /\ L = BlockLen /\ M = BBM_LEN /\ F = FrameLen + 1 /\ I = Idle
        /\ L = M + P
  BY LayoutFacts DEF BlockLen
<1>2. p \in Nat BY FramesEndNat, SizeIs, LayoutFacts DEF StreamEnd
<1>3. PICK b \in Nat, k \in 0..(L - 1) : b = p \div L /\ k = p % L /\ p = L * b + k
  BY <1>2, DivModIs
<1>4. PICK q \in Int : q = (b - I) * P + k - M OBVIOUS
<1>5. Stream[p] = IF k < M THEN Marker(k + 1) ELSE PayloadByte(q)
  <2>1. p \in 0..FramesEnd + BlockLen + Size BY DEF StreamEnd
  <2> QED BY <1>1, <1>3, <1>4, <2>1 DEF Stream
<1>6. ~(k < M) /\ PayloadByte(q) = Aas(w) BY <1>5 DEF Marker, Aas
<1>7. /\ ~(q < 0) /\ q % F # 0 /\ ~(1 + q \div F > NFrames)
      /\ Frame[1 + q \div F][q % F] = Aas(w)
  BY <1>1, <1>6 DEF PayloadByte, Flag, Aas
<1>8. q \in Nat BY <1>7
<1>9. PICK n \in Nat, r \in 0..(F - 1) : n = q \div F /\ r = q % F /\ q = F * n + r
  BY <1>8, DivModIs
<1>10. 1 + n \in 1..NFrames /\ r \in 1..FrameLen
  BY <1>1, <1>7, <1>9, LayoutFacts
<1>11. w = (1 + n) * F + r
  <2>1. Frame[1 + n][r] = <<"aas", (1 + n) * F + r>> BY <1>1, <1>10 DEF Frame
  <2> QED BY <1>7, <1>9, <2>1 DEF Aas
<1>12. w = q + F
  <2>1. (n + 1) * F = n * F + F BY ProductStep
  <2> QED BY <1>9, <1>11, <2>1
<1>13. q < FrameBytes
  <2>1. n < NFrames BY <1>9, <1>10, LayoutFacts
  <2>2. n * F + F <= NFrames * F /\ n * F \in Nat /\ NFrames * F \in Nat
    BY <2>1, LayoutFacts, ProductLess
  <2> QED BY <1>1, <1>9, <2>2 DEF FrameBytes
<1>14. PICK l \in 0..(P - 1) : k = M + l
  <2>1. k - M \in 0..(P - 1) /\ k = M + (k - M) BY <1>1, <1>3, <1>6
  <2> QED BY <2>1
<1>15. I <= b
  <2>1. SUFFICES ASSUME b < I PROVE FALSE OBVIOUS
  <2>2. PICK d \in Nat : b - I = -(d + 1)
    <3>1. I - b - 1 \in Nat /\ b - I = -((I - b - 1) + 1) BY <2>1
    <3> QED BY <3>1
  <2>3. (d + 1) * P = d * P + P /\ d * P \in Nat BY ProductStep
  <2>4. (b - I) * P = -((d + 1) * P) BY <2>2
  <2> QED BY <1>4, <1>8, <1>14, <2>3, <2>4
<1>16. PICK c \in Nat : c = b - I /\ b = I + c
  <2>1. b - I \in Nat /\ b = I + (b - I) BY <1>15
  <2> QED BY <2>1
<1>17. q = P * c + l BY <1>4, <1>14, <1>16
<1>18. q \div P = c /\ q % P = l BY <1>17
<1>19. Place(q) = I * L + c * L + M + l
  BY <1>1, <1>18 DEF Place, FramesFrom
<1>20. p = Place(q)
  <2>1. L * b = I * L + c * L BY <1>16
  <2> QED BY <1>3, <1>14, <1>19, <2>1, ProductNat
<1>21. w = q + FrameLen + 1 BY <1>1, <1>8, <1>12, LayoutFacts
<1> QED BY <1>8, <1>13, <1>20, <1>21

-----------------------------------------------------------------------------
(* What of a subchannel has been sent.                                     *)

(* Byte w of a subchannel lies before place p of its stream.               *)
Sent(w, p) == \E j \in 0..StreamEnd : j < p /\ Stream[j] = Aas(w)

(* The stream is in order: what is sent later is a later byte.             *)
LEMMA SentBefore ==
  ASSUME NEW p \in Nat, NEW j \in 0..StreamEnd, j >= p,
         NEW w \in Nat, NEW x \in Nat, Sent(w, p), Stream[j] = Aas(x)
  PROVE  w < x
<1>1. PICK i \in 0..StreamEnd : i < p /\ Stream[i] = Aas(w) BY DEF Sent
<1>2. PICK q \in Nat : i = Place(q) /\ w = q + FrameLen + 1 BY <1>1, StreamIs
<1>3. PICK r \in Nat : j = Place(r) /\ x = r + FrameLen + 1 BY StreamIs
<1>4. i < j BY <1>1, FramesEndNat, SizeIs, LayoutFacts DEF StreamEnd
<1>5. q < r
  <2>1. SUFFICES ASSUME r <= q PROVE FALSE OBVIOUS
  <2>2. CASE r = q BY <1>2, <1>3, <1>4, <2>2, PlaceRises
  <2>3. CASE r < q
    <3>1. j < i BY <1>2, <1>3, <2>3, PlaceRises
    <3> QED BY <1>4, <3>1, FramesEndNat, SizeIs, LayoutFacts DEF StreamEnd
  <2> QED BY <2>1, <2>2, <2>3
<1> QED BY <1>2, <1>3, <1>5, LayoutFacts

(* After the frames the place goes round in a block.                       *)
LEMMA LateAfter ==
  ASSUME NEW p \in Nat, NEW stay \in BOOLEAN, p >= FramesEnd, ~(p <= FramesFrom /\ stay)
  PROVE  After(p, stay) = FramesEnd + ((p - FramesEnd) % BlockLen)
BY Zenon DEF After

(* What was sent stays sent, although the place of the station goes round  *)
(* while it sends flags.                                                   *)
LEMMA SentAfter ==
  ASSUME NEW p \in Nat, NEW t \in Nat, p <= t, NEW stay \in BOOLEAN, NEW w \in Nat, Sent(w, p)
  PROVE  Sent(w, After(t, stay))
<1>1. PICK j \in 0..StreamEnd : j < p /\ Stream[j] = Aas(w) BY DEF Sent
<1>2. PICK q \in Nat : j = Place(q) /\ q < FrameBytes BY <1>1, StreamIs
<1>3. j > FramesFrom /\ j < FramesEnd /\ j \in Nat BY <1>2, PlaceRises
<1>4. t \in Nat /\ j < t /\ ~(t <= FramesFrom)
  BY <1>1, <1>3, FramesEndNat
<1>5. CASE t >= FramesEnd
  <2>1. t - FramesEnd \in Nat /\ BlockLen \in Nat \ {0}
    BY <1>5, FramesEndNat, LayoutFacts
  <2>2. (t - FramesEnd) % BlockLen \in Nat BY <2>1, DivMod
  <2>3. After(t, stay) = FramesEnd + ((t - FramesEnd) % BlockLen)
    BY <1>4, <1>5, LateAfter
  <2>4. j < After(t, stay) BY <1>3, <2>2, <2>3, FramesEndNat
  <2> QED BY <1>1, <2>4 DEF Sent
<1>6. CASE ~(t >= FramesEnd)
  <2>1. After(t, stay) = t BY <1>4, <1>6, Zenon DEF After
  <2> QED BY <1>1, <1>4, <2>1 DEF Sent
<1> QED BY <1>5, <1>6

(* The last byte of frame n.                                               *)
End(n) == n * (FrameLen + 1) + FrameLen

(* A later frame ends later.                                               *)
LEMMA EndIs ==
  ASSUME NEW n \in 1..NFrames
  PROVE  /\ End(n) \in Nat
         /\ \A m \in 1..NFrames : End(n) < End(m) => n < m
<1>1. PICK F \in Nat : F = FrameLen + 1 BY LayoutFacts
<1>2. n \in Nat BY LayoutFacts
<1>3. ASSUME NEW m \in 1..NFrames, End(n) < End(m) PROVE n < m
  <2>1. SUFFICES ASSUME m <= n PROVE FALSE BY LayoutFacts
  <2>2. m \in Nat BY LayoutFacts
  <2>3. CASE m = n BY <1>1, <1>2, <1>3, <2>3, ProductNat, LayoutFacts DEF End
  <2>4. CASE m < n
    <3>1. m * F + F <= n * F /\ m * F \in Nat /\ n * F \in Nat
      BY <1>2, <2>2, <2>4, ProductLess
    <3> QED BY <1>1, <1>3, <3>1, LayoutFacts DEF End
  <2> QED BY <1>2, <2>1, <2>2, <2>3, <2>4
<1>4. n * F \in Nat BY <1>1, <1>2, ProductNat
<1> QED BY <1>1, <1>3, <1>4, LayoutFacts DEF End

(* A frame as the HDLC parser gives it ends with its last byte.            *)
LEMMA FrameHolds ==
  ASSUME NEW n \in 1..NFrames
  PROVE  /\ Holds(<<Flag>> \o Frame[n], End(n))
         /\ (<<Flag>> \o Frame[n])[1 + FrameLen] = Aas(End(n))
<1>1. FrameLen \in Nat \ {0} /\ n \in Nat BY LayoutFacts
<1>2. PICK f : f = Frame[n] OBVIOUS
<1>3. PICK S : S = {Flag} \cup {<<"aas", n * (FrameLen + 1) + k>> : k \in 1..FrameLen}
  OBVIOUS
<1>4. f \in [1..FrameLen -> S] BY <1>2, <1>3 DEF Frame
<1>5. f \in Seq(S) /\ Len(f) = FrameLen BY <1>1, <1>4, FcnIsSeq
<1>6. FrameLen \in 1..FrameLen /\ f[FrameLen] = Aas(End(n))
  BY <1>1, <1>2 DEF Frame, Aas, End
<1>7. PICK g : g = <<Flag>> OBVIOUS
<1>8. g \in Seq(S) /\ Len(g) = 1 BY <1>3, <1>7
<1>9. PICK u : u = g \o f OBVIOUS
<1>10. /\ Len(u) = 1 + FrameLen
       /\ \A k \in 1..(1 + FrameLen) : u[k] = IF k <= 1 THEN g[k] ELSE f[k - 1]
  <2>1. /\ Len(u) = Len(g) + Len(f)
        /\ \A k \in 1..(Len(g) + Len(f)) : u[k] = IF k <= Len(g) THEN g[k] ELSE f[k - Len(g)]
    BY <1>5, <1>8, <1>9, ConcatProperties, Zenon
  <2> QED BY <1>5, <1>8, <2>1
<1>11. 1 + FrameLen \in 1..(1 + FrameLen) /\ ~(1 + FrameLen <= 1) /\ 1 + FrameLen - 1 = FrameLen
  BY <1>1
<1>12. u[1 + FrameLen] = Aas(End(n))
  <2>1. PICK l : l = 1 + FrameLen OBVIOUS
  <2>2. l \in 1..(1 + FrameLen) /\ ~(l <= 1) /\ l - 1 = FrameLen BY <1>1, <2>1
  <2>3. u[l] = f[l - 1] BY <1>10, <2>2
  <2> QED BY <1>6, <2>1, <2>2, <2>3
<1> QED BY <1>2, <1>7, <1>9, <1>10, <1>11, <1>12 DEF Holds

(* Where a frame begins; when its end was sent, every frame up to it was   *)
(* begun.                                                                  *)
LEMMA OpeningIs ==
  ASSUME NEW n \in 1..NFrames
  PROVE  /\ Opening(n) \in Nat /\ Opening(n) > FramesFrom /\ Opening(n) < FramesEnd
         /\ \A p \in Nat : Sent(End(n), p) => \A m \in 1..n : Opening(m) < p
<1>1. PICK F \in Nat \ {0} : F = FrameLen + 1 BY LayoutFacts
<1>2. ASSUME NEW m \in 1..NFrames
      PROVE  \E q \in Nat : /\ q = (m - 1) * F /\ Opening(m) = Place(q)
                            /\ q < FrameBytes /\ q + F = m * F
  <2>1. m - 1 \in Nat /\ m \in Nat /\ m - 1 < NFrames /\ m - 1 + 1 = m BY LayoutFacts
  <2>2. PICK l \in Nat : l = m - 1 BY <2>1
  <2>3. (l + 1) * F = l * F + F /\ l * F \in Nat BY ProductStep
  <2>4. l * F + F <= NFrames * F /\ NFrames * F \in Nat BY <2>1, <2>2, LayoutFacts, ProductLess
  <2>5. l * F < FrameBytes BY <1>1, <2>3, <2>4 DEF FrameBytes
  <2>6. Opening(m) = Place(l * F) BY <1>1, <2>2 DEF Opening, Place
  <2>7. l * F + F = m * F BY <2>1, <2>2, <2>3
  <2> QED BY <2>2, <2>3, <2>5, <2>6, <2>7
<1>3. PICK q \in Nat : /\ q = (n - 1) * F /\ Opening(n) = Place(q)
                       /\ q < FrameBytes /\ q + F = n * F
  BY <1>2
<1>4. ASSUME NEW p \in Nat, Sent(End(n), p), NEW m \in 1..n PROVE Opening(m) < p
  <2>1. End(n) \in Nat BY EndIs
  <2>2. PICK j \in 0..StreamEnd : j < p /\ Stream[j] = Aas(End(n)) BY <1>4 DEF Sent
  <2>3. PICK r \in Nat : j = Place(r) /\ End(n) = r + FrameLen + 1
    BY <2>1, <2>2, StreamIs
  <2>4. m \in 1..NFrames BY LayoutFacts
  <2>5. PICK s \in Nat : s = (m - 1) * F /\ Opening(m) = Place(s) /\ s + F = m * F
    BY <1>2, <2>4
  <2>6. PICK a \in Nat, b \in Nat : a = m * F /\ b = n * F /\ a <= b
    <3>1. m \in Nat /\ n \in Nat BY LayoutFacts
    <3>2. m * F \in Nat /\ n * F \in Nat BY <3>1, ProductNat
    <3>3. m * F <= n * F
      <4>1. CASE m = n BY <3>2, <4>1
      <4>2. CASE m < n
        <5>1. m * F + F <= n * F BY <3>1, <4>2, ProductLess
        <5> QED BY <3>2, <5>1
      <4> QED BY <3>1, <4>1, <4>2
    <3> QED BY <3>2, <3>3
  <2>7. End(n) = b + FrameLen BY <1>1, <2>6 DEF End
  <2>8. s < r BY <1>1, <2>3, <2>5, <2>6, <2>7, LayoutFacts
  <2>9. Place(s) < Place(r) /\ Place(s) \in Nat /\ Place(r) \in Nat BY <2>8, PlaceRises
  <2> QED BY <2>2, <2>3, <2>5, <2>9
<1>5. Opening(n) \in Nat /\ Opening(n) > FramesFrom /\ Opening(n) < FramesEnd
  BY <1>3, PlaceRises
<1> QED BY <1>4, <1>5

(* How many frames are begun before place p.                               *)
BegunAt(p) == Cardinality({n \in 1..NFrames : Opening(n) < p})

(* A frame that was sent to its end is one of those begun: their count is  *)
(* at least its number.                                                    *)
LEMMA BegunIs ==
  ASSUME NEW p \in Nat
  PROVE  /\ BegunAt(p) \in 0..NFrames
         /\ p <= FramesFrom => BegunAt(p) = 0
         /\ \A n \in 1..NFrames : Sent(End(n), p) => n <= BegunAt(p)
         /\ \A r \in Nat : (\A n \in 1..NFrames : Opening(n) < p => Opening(n) < r)
                             => BegunAt(p) <= BegunAt(r)
<1> DEFINE B(r) == {n \in 1..NFrames : Opening(n) < r}
<1>1. NFrames \in Nat /\ IsFiniteSet(1..NFrames) /\ Cardinality(1..NFrames) = NFrames
  <2>1. NFrames \in Nat BY LayoutFacts
  <2>2. 1 \in Int /\ NFrames \in Int BY <2>1
  <2>3. IsFiniteSet(1..NFrames)
        /\ Cardinality(1..NFrames) = IF 1 > NFrames THEN 0 ELSE NFrames - 1 + 1
    BY <2>2, FS_Interval
  <2> QED BY <2>1, <2>3
<1>2. ASSUME NEW r \in Nat
      PROVE  IsFiniteSet(B(r)) /\ Cardinality(B(r)) \in 0..NFrames
  <2>1. B(r) \subseteq 1..NFrames OBVIOUS
  <2>2. IsFiniteSet(B(r)) /\ Cardinality(B(r)) <= Cardinality(1..NFrames)
    BY <1>1, <2>1, FS_Subset
  <2>3. Cardinality(B(r)) \in Nat BY <2>2, FS_CardinalityType
  <2> QED BY <1>1, <2>2, <2>3
<1>3. ASSUME p <= FramesFrom PROVE BegunAt(p) = 0
  <2>1. \A n \in 1..NFrames : ~(Opening(n) < p) BY <1>3, OpeningIs, FramesEndNat
  <2>2. B(p) = {} BY <2>1
  <2> QED BY <2>2, FS_EmptySet DEF BegunAt
<1>4. ASSUME NEW n \in 1..NFrames, Sent(End(n), p) PROVE n <= BegunAt(p)
  <2>1. \A m \in 1..n : Opening(m) < p BY <1>4, OpeningIs
  <2>2. \A m \in 1..n : m \in 1..NFrames BY <1>1
  <2>3. 1..n \subseteq B(p) BY <2>1, <2>2
  <2>4. Cardinality(1..n) <= Cardinality(B(p)) BY <1>2, <2>3, FS_Subset
  <2>5. 1 \in Int /\ n \in Int /\ n >= 1 BY <1>1
  <2>6. Cardinality(1..n) = IF 1 > n THEN 0 ELSE n - 1 + 1 BY <2>5, FS_Interval
  <2> QED BY <2>4, <2>5, <2>6 DEF BegunAt
<1>5. ASSUME NEW r \in Nat, \A n \in 1..NFrames : Opening(n) < p => Opening(n) < r
      PROVE  BegunAt(p) <= BegunAt(r)
  <2>1. B(p) \subseteq B(r) BY <1>5
  <2> QED BY <1>2, <2>1, FS_Subset DEF BegunAt
<1> QED BY <1>2, <1>3, <1>4, <1>5 DEF BegunAt

(* The station never takes a beginning back.                               *)
LEMMA BegunAfter ==
  ASSUME NEW p \in Nat, NEW t \in Nat, p <= t, NEW stay \in BOOLEAN
  PROVE  After(t, stay) \in Nat /\ BegunAt(p) <= BegunAt(After(t, stay))
<1>1. PICK r : r = After(t, stay) OBVIOUS
<1>2. BlockLen \in Nat \ {0} /\ t \in Nat BY LayoutFacts
<1>3. CASE t >= FramesEnd
  <2>1. t - FramesEnd \in Nat BY <1>2, <1>3, FramesEndNat
  <2>2. (t - FramesEnd) % BlockLen \in Nat BY <1>2, <2>1, DivMod
  <2>3. t % BlockLen \in Nat BY <1>2, DivMod
  <2>4. CASE ~(t <= FramesFrom /\ stay)
    <3>1. r = FramesEnd + ((t - FramesEnd) % BlockLen)
      BY <1>1, <1>2, <1>3, <2>4, LateAfter
    <3>2. r \in Nat /\ r >= FramesEnd BY <2>2, <3>1, FramesEndNat
    <3>3. \A m \in 1..NFrames : Opening(m) < r BY <3>2, OpeningIs, FramesEndNat
    <3> QED BY <1>1, <3>2, <3>3, BegunIs
  <2>5. CASE t <= FramesFrom /\ stay
    <3>1. r \in Nat BY <1>1, <1>3, <2>2, <2>3, <2>5, FramesEndNat DEF After
    <3>2. p <= FramesFrom BY <2>5, FramesEndNat
    <3>3. BegunAt(p) = 0 /\ BegunAt(r) \in Nat BY <3>1, <3>2, BegunIs
    <3> QED BY <1>1, <3>1, <3>3
  <2> QED BY <2>4, <2>5
<1>4. CASE ~(t >= FramesEnd)
  <2>1. CASE t <= FramesFrom /\ stay
    <3>1. r = t % BlockLen BY <1>1, <1>4, <2>1, Zenon DEF After
    <3>2. r \in Nat BY <1>2, <3>1, DivMod
    <3>3. p <= FramesFrom BY <2>1, FramesEndNat
    <3>4. BegunAt(p) = 0 /\ BegunAt(r) \in Nat BY <3>2, <3>3, BegunIs
    <3> QED BY <1>1, <3>2, <3>4
  <2>2. CASE ~(t <= FramesFrom /\ stay)
    <3>1. r = t BY <1>1, <1>4, <2>2, Zenon DEF After
    <3>2. \A m \in 1..NFrames : Opening(m) < p => Opening(m) < r
      BY <3>1, OpeningIs
    <3> QED BY <1>1, <1>2, <3>1, <3>2, BegunIs
  <2> QED BY <2>1, <2>2
<1> QED BY <1>3, <1>4

-----------------------------------------------------------------------------
(* What the HDLC parser makes of bytes in order.                           *)

(* A frame that aas_push hands over.                                       *)
Whole(f, n) == f = <<Flag>> \o Frame[n]

(* What parse_hdlc has done after k bytes: frames it found are in order,   *)
(* and what it holds of the next lies after them.                          *)
ReadBy(h, bytes, k, w) == Holds(h, w) \/ \E j \in 1..k : bytes[j] = Aas(w)
SoFar(h, bytes, k, r) ==
  /\ \A w \in Nat : Holds(r.rest, w) => ReadBy(h, bytes, k, w)
  /\ \A j \in 1..Len(r.out), n \in 1..NFrames : Whole(r.out[j], n) =>
        /\ ReadBy(h, bytes, k, End(n))
        /\ \A w \in Nat : Holds(r.rest, w) => End(n) < w
  /\ \A j, l \in 1..Len(r.out), n, m \in 1..NFrames :
        j < l /\ Whole(r.out[j], n) /\ Whole(r.out[l], m) => n < m

(* A flag is no byte of a frame.                                           *)
LEMMA FlagHolds == \A w \in Nat : ~ Holds(<<Flag>>, w)
<1>1. PICK f : f = <<Flag>> OBVIOUS
<1>2. Len(f) = 1 /\ f[1] = Flag BY <1>1
<1>3. ASSUME NEW w \in Nat, Holds(f, w) PROVE FALSE
  <2>1. PICK k \in 1..Len(f) : f[k] = Aas(w) BY <1>3 DEF Holds
  <2>2. k = 1 BY <1>2, <2>1
  <2>3. Flag = Aas(w) BY <1>2, <2>1, <2>2
  <2> QED BY <2>3 DEF Flag, Aas
<1> QED BY <1>1, <1>3

(* A byte more.                                                            *)
LEMMA AppendHolds ==
  ASSUME NEW s \in Seq(Bytes), NEW b \in Bytes
  PROVE  \A w \in Nat : Holds(Append(s, b), w) => Holds(s, w) \/ b = Aas(w)
<1>1. PICK u : u = Append(s, b) OBVIOUS
<1>2. /\ Len(u) = Len(s) + 1 /\ Len(s) \in Nat
      /\ \A k \in 1..Len(s) : u[k] = s[k]
      /\ u[Len(s) + 1] = b
  BY <1>1, AppendProperties, LenProperties
<1>3. ASSUME NEW w \in Nat, Holds(u, w) PROVE Holds(s, w) \/ b = Aas(w)
  <2>1. PICK k \in 1..Len(u) : u[k] = Aas(w) BY <1>3 DEF Holds
  <2>2. CASE k = Len(s) + 1 BY <1>2, <2>1, <2>2
  <2>3. CASE k # Len(s) + 1
    <3>1. k \in 1..Len(s) BY <1>2, <2>3
    <3>2. s[k] = Aas(w) BY <1>2, <2>1, <3>1
    <3> QED BY <3>1, <3>2 DEF Holds
  <2> QED BY <2>2, <2>3
<1> QED BY <1>1, <1>3

(* One byte more.                                                          *)
LEMMA FrameByte ==
  ASSUME NEW h \in Seq(Bytes), NEW bytes \in Seq(Bytes), NEW size \in Nat,
         Rising(bytes), Before(h, bytes),
         NEW k \in 1..Len(bytes), NEW r \in Reads(size), SoFar(h, bytes, k - 1, r)
  PROVE  SoFar(h, bytes, k, HdlcByte(r, bytes[k], size))
<1>1. Len(bytes) \in Nat /\ k \in Nat \ {0} BY LenProperties
<1>2. PICK b \in Bytes : b = bytes[k] BY ElementOfSeq
<1>3. r.rest \in Seq(Bytes) /\ r.out \in Seq(Seq(Bytes)) BY DEF Reads
<1>4. PICK s : s = HdlcByte(r, b, size) OBVIOUS
<1>5. \A w : ReadBy(h, bytes, k - 1, w) => ReadBy(h, bytes, k, w)
  <2>1. \A j \in 1..(k - 1) : j \in 1..k BY <1>1
  <2> QED BY <2>1 DEF ReadBy
<1>6. ASSUME NEW w \in Nat, b = Aas(w)
      PROVE  ReadBy(h, bytes, k, w) /\ \A x \in Nat : ReadBy(h, bytes, k - 1, x) => x < w
  <2>1. ReadBy(h, bytes, k, w)
    <3>1. k \in 1..k BY <1>1
    <3> QED BY <1>2, <1>6, <3>1 DEF ReadBy
  <2>2. Holds(bytes, w) BY <1>2, <1>6 DEF Holds
  <2>3. ASSUME NEW x \in Nat, ReadBy(h, bytes, k - 1, x) PROVE x < w
    <3>1. CASE Holds(h, x) BY <2>2, <3>1 DEF Before
    <3>2. CASE \E j \in 1..(k - 1) : bytes[j] = Aas(x)
      <4>1. PICK j \in 1..(k - 1) : bytes[j] = Aas(x) BY <3>2
      <4>2. j \in 1..Len(bytes) /\ j < k BY <1>1
      <4> QED BY <1>2, <1>6, <4>1, <4>2 DEF Rising
    <3> QED BY <2>3, <3>1, <3>2 DEF ReadBy
  <2> QED BY <2>1, <2>3
<1>7. CASE b = Flag /\ r.rest = << >>
  <2>1. s.rest = <<Flag>> /\ s.out = r.out BY <1>4, <1>7 DEF HdlcByte
  <2> QED BY <1>2, <1>4, <1>5, <2>1, FlagHolds, EndIs DEF SoFar
<1>8. CASE b = Flag /\ r.rest # << >>
  <2>1. s.rest = <<Flag>> /\ s.out = Append(r.out, r.rest) BY <1>4, <1>8 DEF HdlcByte
  <2>2. PICK l \in Nat : l = Len(r.out) BY <1>3, LenProperties
  <2>3. /\ Len(s.out) = l + 1 /\ s.out[l + 1] = r.rest
        /\ \A j \in 1..l : s.out[j] = r.out[j]
    BY <1>3, <2>1, <2>2, AppendProperties
  <2>4. ASSUME NEW n \in 1..NFrames, Whole(r.rest, n)
        PROVE  ReadBy(h, bytes, k - 1, End(n)) /\ Holds(r.rest, End(n))
    <3>1. Holds(r.rest, End(n)) BY <2>4, FrameHolds DEF Whole
    <3> QED BY <3>1, EndIs DEF SoFar
  <2>5. ASSUME NEW j \in 1..Len(s.out), NEW n \in 1..NFrames, Whole(s.out[j], n)
        PROVE  ReadBy(h, bytes, k, End(n))
    <3>1. CASE j = l + 1 BY <1>5, <2>3, <2>4, <2>5, <3>1
    <3>2. CASE j # l + 1
      <4>1. j \in 1..l BY <2>3, <3>2
      <4>2. Whole(r.out[j], n) BY <2>3, <2>5, <4>1
      <4> QED BY <1>5, <2>2, <4>1, <4>2 DEF SoFar
    <3> QED BY <3>1, <3>2
  <2>6. ASSUME NEW i \in 1..Len(s.out), NEW j \in 1..Len(s.out),
               NEW n \in 1..NFrames, NEW m \in 1..NFrames,
               i < j, Whole(s.out[i], n), Whole(s.out[j], m)
        PROVE  n < m
    <3>1. i \in 1..l BY <2>2, <2>3, <2>6
    <3>2. Whole(r.out[i], n) BY <2>3, <2>6, <3>1
    <3>3. CASE j = l + 1
      <4>1. Holds(r.rest, End(m)) BY <2>3, <2>4, <2>6, <3>3
      <4>2. End(m) \in Nat BY EndIs
      <4>3. End(n) < End(m) BY <2>2, <3>1, <3>2, <4>1, <4>2 DEF SoFar
      <4> QED BY <4>3, EndIs
    <3>4. CASE j # l + 1
      <4>1. j \in 1..l BY <2>3, <3>4
      <4>2. Whole(r.out[j], m) BY <2>3, <2>6, <4>1
      <4> QED BY <2>2, <2>6, <3>1, <3>2, <4>1, <4>2 DEF SoFar
    <3> QED BY <3>3, <3>4
  <2>7. SoFar(h, bytes, k, s) BY <2>1, <2>5, <2>6, FlagHolds DEF SoFar
  <2> QED BY <1>2, <1>4, <2>7
<1>9. CASE b # Flag
  <2>1. PICK c : c = IF r.rest # << >> /\ Len(r.rest) <= size THEN Append(r.rest, b) ELSE << >>
    OBVIOUS
  <2>2. s.rest = c /\ s.out = r.out BY <1>4, <1>9, <2>1 DEF HdlcByte, Reads
  <2>3. ASSUME NEW w \in Nat, Holds(c, w) PROVE Holds(r.rest, w) \/ b = Aas(w)
    <3>1. CASE c = << >> BY <2>3, <3>1, EmptyRises
    <3>2. CASE c = Append(r.rest, b) BY <1>3, <2>3, <3>2, AppendHolds
    <3> QED BY <2>1, <3>1, <3>2
  <2>4. \A w \in Nat : Holds(c, w) => ReadBy(h, bytes, k, w)
    BY <1>5, <1>6, <2>3 DEF SoFar
  <2>5. ASSUME NEW j \in 1..Len(r.out), NEW n \in 1..NFrames, Whole(r.out[j], n)
        PROVE  /\ ReadBy(h, bytes, k, End(n))
               /\ \A w \in Nat : Holds(c, w) => End(n) < w
    <3>1. /\ ReadBy(h, bytes, k - 1, End(n))
          /\ \A w \in Nat : Holds(r.rest, w) => End(n) < w
      BY <2>5 DEF SoFar
    <3>2. End(n) \in Nat BY EndIs
    <3> QED BY <1>5, <1>6, <2>3, <3>1, <3>2
  <2>6. SoFar(h, bytes, k, s) BY <2>2, <2>4, <2>5 DEF SoFar
  <2> QED BY <1>2, <1>4, <2>6
<1> QED BY <1>7, <1>8, <1>9

(* A whole call of parse_hdlc.                                             *)
LEMMA FramesRead ==
  ASSUME NEW h \in Seq(Bytes), NEW bytes \in Seq(Bytes), NEW size \in Nat,
         Len(h) <= size + 1, Rising(bytes), Before(h, bytes)
  PROVE  LET r == parse_hdlc(h, bytes, size)
         IN r \in Reads(size) /\ SoFar(h, bytes, Len(bytes), r)
<1>1. PICK read \in [0..Len(bytes) -> Reads(size)] :
        /\ read[0] = [rest |-> h, out |-> << >>]
        /\ \A k \in 1..Len(bytes) : read[k] = HdlcByte(read[k - 1], bytes[k], size)
        /\ parse_hdlc(h, bytes, size) = read[Len(bytes)]
  BY ReadIs
<1>2. Len(bytes) \in Nat BY LenProperties
<1> DEFINE fails == {k \in 0..Len(bytes) : ~ SoFar(h, bytes, k, read[k])}
<1>3. SoFar(h, bytes, 0, read[0])
  <2>1. PICK r : r = read[0] OBVIOUS
  <2>2. r.rest = h /\ r.out = <<>> BY <1>1, <2>1
  <2>3. \A j \in 1..Len(r.out) : FALSE BY <2>2
  <2>4. SoFar(h, bytes, 0, r) BY <2>2, <2>3 DEF SoFar, ReadBy
  <2> QED BY <2>1, <2>4
<1>4. fails = {}
  <2> SUFFICES ASSUME fails # {} PROVE FALSE OBVIOUS
  <2>1. fails \in SUBSET Nat BY <1>2
  <2>2. PICK m \in fails : \A k \in fails : m <= k BY <2>1, LeastNat
  <2>3. m \in 1..Len(bytes) /\ ~ SoFar(h, bytes, m, read[m])
    <3>1. m # 0 BY <1>3, <2>2
    <3> QED BY <1>2, <2>2, <3>1
  <2>4. m - 1 \in 0..Len(bytes) /\ ~(m <= m - 1) BY <1>2, <2>3
  <2>5. SoFar(h, bytes, m - 1, read[m - 1]) BY <2>2, <2>4
  <2>6. PICK r \in Reads(size) : r = read[m - 1] BY <2>4
  <2>7. SoFar(h, bytes, m, HdlcByte(r, bytes[m], size)) BY <2>3, <2>5, <2>6, FrameByte
  <2> QED BY <1>1, <2>3, <2>6, <2>7
<1>5. Len(bytes) \in 0..Len(bytes) BY <1>2
<1> QED BY <1>1, <1>4, <1>5

-----------------------------------------------------------------------------
(* What aas_push makes of frames in order.                                 *)

(* The parser gives each frame as no other.                                *)
LEMMA OneFrame ==
  ASSUME NEW f, NEW n \in 1..NFrames, NEW m \in 1..NFrames, Whole(f, n), Whole(f, m)
  PROVE  n = m
<1>1. PICK F \in Nat \ {0} : F = FrameLen + 1 BY LayoutFacts
<1>2. n \in Nat /\ m \in Nat /\ FrameLen \in Nat BY LayoutFacts
<1>3. Aas(End(n)) = Aas(End(m))
  <2>1. f[1 + FrameLen] = Aas(End(n)) BY FrameHolds DEF Whole
  <2>2. f[1 + FrameLen] = Aas(End(m)) BY FrameHolds DEF Whole
  <2> QED BY <2>1, <2>2
<1>4. End(n) = End(m) BY <1>3 DEF Aas
<1>5. n * F \in Nat /\ m * F \in Nat BY <1>2, ProductNat
<1>6. n * F = m * F BY <1>1, <1>2, <1>4, <1>5 DEF End
<1>7. (n < m => n * F + F <= m * F) /\ (m < n => m * F + F <= n * F) BY <1>2, ProductLess
<1> QED BY <1>2, <1>5, <1>6, <1>7

(* The frames that the HDLC parser found are in order, whatever it found   *)
(* between them.                                                           *)
FramesRise(out) ==
  \A j, l \in 1..Len(out), n, m \in 1..NFrames :
     j < l /\ Whole(out[j], n) /\ Whole(out[l], m) => n < m
(* What aas_push has handed over of the first k of them: the numbers of    *)
(* the whole frames among them, in order.                                  *)
Pushed(out, k) ==
  {s \in Seq(1..NFrames) :
     /\ \A a \in 1..Len(s) : \E j \in 1..k : Whole(out[j], s[a])
     /\ \A j \in 1..k, n \in 1..NFrames :
          Whole(out[j], n) => \E a \in 1..Len(s) : s[a] = n
     /\ \A a, b \in 1..Len(s) : a < b => s[a] < s[b]}

(* One frame more keeps what aas_push hands over in order.                 *)
LEMMA PushStep ==
  ASSUME NEW out \in Seq(Seq(Bytes)), FramesRise(out),
         NEW k \in 1..Len(out), NEW s \in Pushed(out, k - 1)
  PROVE  /\ ~ Good(out[k]) => s \in Pushed(out, k)
         /\ Good(out[k]) => Append(s, Number(out[k])) \in Pushed(out, k)
<1>1. Len(out) \in Nat /\ k \in Nat \ {0} BY LenProperties
<1>2. \A j \in 1..(k - 1) : j \in 1..k /\ j \in 1..Len(out) /\ j < k BY <1>1
<1>3. ASSUME ~ Good(out[k]) PROVE s \in Pushed(out, k)
  <2>1. ASSUME NEW j \in 1..k, NEW n \in 1..NFrames, Whole(out[j], n)
        PROVE  \E a \in 1..Len(s) : s[a] = n
    <3>1. j # k BY <1>3, <2>1 DEF Good, Whole
    <3>2. j \in 1..(k - 1) BY <1>1, <3>1
    <3> QED BY <2>1, <3>2 DEF Pushed
  <2> QED BY <1>2, <2>1 DEF Pushed
<1>4. ASSUME Good(out[k]) PROVE Append(s, Number(out[k])) \in Pushed(out, k)
  <2>1. PICK n \in 1..NFrames : n = Number(out[k]) /\ Whole(out[k], n)
    BY <1>4, Zenon DEF Good, Number, Whole
  <2>2. PICK t : t = Append(s, n) OBVIOUS
  <2>3. s \in Seq(1..NFrames) BY DEF Pushed
  <2>4. /\ t \in Seq(1..NFrames) /\ Len(t) = Len(s) + 1 /\ Len(s) \in Nat
        /\ t[Len(s) + 1] = n /\ \A a \in 1..Len(s) : t[a] = s[a]
    BY <2>2, <2>3, AppendProperties, LenProperties
  <2>5. ASSUME NEW a \in 1..Len(t) PROVE \E j \in 1..k : Whole(out[j], t[a])
    <3>1. CASE a = Len(s) + 1
      <4>1. k \in 1..k BY <1>1
      <4> QED BY <2>1, <2>4, <3>1, <4>1
    <3>2. CASE a # Len(s) + 1
      <4>1. a \in 1..Len(s) BY <2>4, <3>2
      <4>2. PICK j \in 1..(k - 1) : Whole(out[j], s[a]) BY <4>1 DEF Pushed
      <4> QED BY <1>2, <2>4, <4>1, <4>2
    <3> QED BY <3>1, <3>2
  <2>6. ASSUME NEW a \in 1..Len(t), NEW b \in 1..Len(t), a < b PROVE t[a] < t[b]
    <3>1. a \in 1..Len(s) BY <2>4, <2>6
    <3>2. CASE b = Len(s) + 1
      <4>1. PICK j \in 1..(k - 1) : Whole(out[j], s[a]) BY <3>1 DEF Pushed
      <4>2. s[a] \in 1..NFrames BY <2>3, <3>1, ElementOfSeq
      <4>3. s[a] < n BY <1>2, <2>1, <4>1, <4>2 DEF FramesRise
      <4> QED BY <2>4, <3>1, <3>2, <4>3
    <3>3. CASE b # Len(s) + 1
      <4>1. b \in 1..Len(s) BY <2>4, <3>3
      <4> QED BY <2>4, <2>6, <3>1, <4>1 DEF Pushed
    <3> QED BY <3>2, <3>3
  <2>7. ASSUME NEW j \in 1..k, NEW m \in 1..NFrames, Whole(out[j], m)
        PROVE  \E a \in 1..Len(t) : t[a] = m
    <3>1. CASE j = k
      <4>1. m = n BY <2>1, <2>7, <3>1, OneFrame
      <4>2. Len(s) + 1 \in 1..Len(t) BY <2>4
      <4> QED BY <2>4, <4>1, <4>2
    <3>2. CASE j # k
      <4>1. j \in 1..(k - 1) BY <1>1, <3>2
      <4>2. PICK a \in 1..Len(s) : s[a] = m BY <2>7, <4>1 DEF Pushed
      <4>3. a \in 1..Len(t) BY <2>4
      <4> QED BY <2>4, <4>2, <4>3
    <3> QED BY <3>1, <3>2
  <2>8. t \in Pushed(out, k) BY <2>4, <2>5, <2>6, <2>7 DEF Pushed
  <2> QED BY <2>1, <2>2, <2>8
<1> QED BY <1>3, <1>4

(* aas_push hands over whole frames, in the order they were found.         *)
LEMMA PushIs ==
  ASSUME NEW out \in Seq(Seq(Bytes)), FramesRise(out)
  PROVE  aas_push(out) \in Pushed(out, Len(out))
<1> DEFINE N == Len(out)
           Step(f, k) == CASE k = 0 -> << >>
                           [] k > 0 /\ Good(out[k]) -> Append(f[k - 1], Number(out[k]))
                           [] OTHER -> f[k - 1]
           Sat(f) == f = [k \in 0..N |-> Step(f, k)]
           UpTo(m, f) == \A k \in 0..m : f[k] = Step(f, k)
           without == {m \in 0..N : ~ \E f : UpTo(m, f)}
           pushed == CHOOSE f : Sat(f)
           bad == {m \in 0..N : pushed[m] \notin Pushed(out, m)}
<1>1. N \in Nat BY LenProperties
<1>2. ASSUME NEW f, NEW g, NEW k \in 0..N, k # 0 => f[k - 1] = g[k - 1]
      PROVE  Step(f, k) = Step(g, k)
  <2>1. k = 0 \/ k > 0 BY <1>1
  <2> QED BY <1>2, <2>1
<1>3. ASSUME NEW f, NEW k \in 1..N
      PROVE  /\ Good(out[k]) => Step(f, k) = Append(f[k - 1], Number(out[k]))
             /\ ~Good(out[k]) => Step(f, k) = f[k - 1]
  <2>1. k # 0 /\ k > 0 BY <1>1
  <2> QED BY <2>1, Zenon
<1>4. ASSUME NEW f PROVE Step(f, 0) = << >>
  <2>1. ~(0 > 0) OBVIOUS
  <2> QED BY <2>1, Zenon
<1> HIDE DEF Step
<1>5. \A m \in 0..N : \E f : UpTo(m, f)
  <2> SUFFICES ASSUME without # {} PROVE FALSE OBVIOUS
  <2>1. without \in SUBSET Nat BY <1>1
  <2>2. PICK m \in without : \A k \in without : m <= k BY <2>1, LeastNat
  <2>3. m \in 0..N BY <2>2
  <2>4. CASE m = 0
    <3>1. PICK f : f = [k \in 0..0 |-> << >>] OBVIOUS
    <3>2. f[0] = << >> BY <3>1
    <3>3. UpTo(0, f) BY <1>4, <3>2
    <3> QED BY <2>2, <2>4, <3>3
  <2>5. CASE m # 0
    <3>1. m - 1 \in 0..N /\ ~(m <= m - 1) BY <1>1, <2>3, <2>5
    <3>2. m - 1 \notin without BY <2>2, <3>1
    <3>3. PICK f : UpTo(m - 1, f) BY <3>1, <3>2
    <3>4. PICK g : g = [k \in 0..m |-> IF k = m THEN Step(f, m) ELSE f[k]] OBVIOUS
    <3>5. \A k \in 0..(m - 1) : k \in 0..m /\ k # m BY <2>3, <2>5
    <3>6. \A k \in 0..(m - 1) : g[k] = f[k] BY <3>4, <3>5
    <3>7. ASSUME NEW k \in 0..m PROVE g[k] = Step(g, k)
      <4>1. k \in 0..N /\ (k # 0 => k - 1 \in 0..(m - 1)) BY <1>1, <2>3
      <4>2. Step(f, k) = Step(g, k) BY <1>2, <3>6, <4>1
      <4>3. CASE k = m BY <3>4, <4>2, <4>3
      <4>4. CASE k # m
        <5>1. k \in 0..(m - 1) BY <2>3, <4>4
        <5> QED BY <3>3, <3>6, <4>2, <5>1
      <4> QED BY <4>3, <4>4
    <3>8. UpTo(m, g) BY <3>7
    <3> QED BY <2>2, <3>8
  <2> QED BY <2>4, <2>5
<1>6. Sat(pushed)
  <2>1. PICK f : UpTo(N, f)
    <3>1. N \in 0..N BY <1>1
    <3> QED BY <1>5, <3>1
  <2>2. PICK g : g = [k \in 0..N |-> f[k]] OBVIOUS
  <2>3. ASSUME NEW k \in 0..N PROVE g[k] = Step(g, k)
    <3>1. k # 0 => k - 1 \in 0..N BY <1>1
    <3>2. Step(f, k) = Step(g, k) BY <1>2, <2>2, <3>1
    <3> QED BY <2>1, <2>2, <3>2
  <2>4. Sat(g) BY <2>2, <2>3
  <2> QED BY <2>4
<1>7. \A k \in 0..N : pushed[k] = Step(pushed, k) BY <1>6
<1>8. \A m \in 0..N : pushed[m] \in Pushed(out, m)
  <2> HIDE DEF pushed
  <2> SUFFICES ASSUME bad # {} PROVE FALSE OBVIOUS
  <2>1. bad \in SUBSET Nat BY <1>1
  <2>2. PICK m \in bad : \A k \in bad : m <= k BY <2>1, LeastNat
  <2>3. m \in 0..N BY <2>2
  <2>4. CASE m = 0
    <3>1. pushed[0] = << >> BY <1>4, <1>7, <2>3, <2>4
    <3>2. << >> \in Pushed(out, 0)
      <4>1. << >> \in Seq(1..NFrames) /\ \A a \in 1..Len(<<>>) : FALSE OBVIOUS
      <4> QED BY <4>1 DEF Pushed
    <3> QED BY <2>2, <2>4, <3>1, <3>2
  <2>5. CASE m # 0
    <3>1. m - 1 \in 0..N /\ ~(m <= m - 1) /\ m \in 1..N BY <1>1, <2>3, <2>5
    <3>2. pushed[m - 1] \in Pushed(out, m - 1) BY <2>2, <3>1
    <3>3. pushed[m] = Step(pushed, m) BY <1>7, <2>3
    <3>4. PICK s \in Pushed(out, m - 1) : s = pushed[m - 1] BY <3>2
    <3>5. CASE Good(out[m])
      <4>1. m \in 1..N BY <3>1
      <4>2. Step(pushed, m) = Append(pushed[m - 1], Number(out[m]))
        BY <1>3, <3>5, <4>1, Zenon
      <4>3. pushed[m] = Append(s, Number(out[m])) BY <3>3, <3>4, <4>2, Zenon
      <4>4. Append(s, Number(out[m])) \in Pushed(out, m) BY <3>5, <4>1, PushStep
      <4> QED BY <2>2, <4>3, <4>4, Zenon
    <3>6. CASE ~Good(out[m])
      <4>1. pushed[m] = s BY <1>3, <3>1, <3>3, <3>4, <3>6
      <4> QED BY <2>2, <3>1, <3>4, <3>6, <4>1, PushStep
    <3> QED BY <3>5, <3>6
  <2> QED BY <2>4, <2>5
<1>9. aas_push(out) = pushed[N] BY DEF aas_push, Step
<1>10. N \in 0..N BY <1>1
<1> HIDE DEF pushed
<1> QED BY <1>8, <1>9, <1>10

-----------------------------------------------------------------------------
(* A subchannel in order.                                                  *)

(* The buffers of a subchannel when the station is at place p of its       *)
(* stream: what they hold of frames was sent, is in order, and lies after  *)
(* every frame d that was handed over.                                     *)
HeldBy(c, w) == Holds(c.hdlc, w) \/ Holds(c.blocks, w)
Orderly(c, d, p) ==
  /\ Rising(c.blocks) /\ Before(c.hdlc, c.blocks)
  /\ \A w \in Nat : HeldBy(c, w) => Sent(w, p)
  /\ d \in Seq(1..NFrames)
  /\ \A a \in 1..Len(d) : /\ Sent(End(d[a]), p)
                          /\ \A w \in Nat : HeldBy(c, w) => End(d[a]) < w

(* Bytes that came from place p on, some of them damaged.                  *)
Heard(bytes, p) ==
  \A j \in 1..Len(bytes) : \A w \in Nat :
    bytes[j] = Aas(w) => p + j - 1 \in 0..StreamEnd /\ Stream[p + j - 1] = Aas(w)

(* New frames, after those before them.                                    *)
Adds(d, frames) ==
  /\ frames \in Seq(1..NFrames)
  /\ \A a, b \in 1..Len(frames) : a < b => frames[a] < frames[b]
  /\ \A a \in 1..Len(d), b \in 1..Len(frames) : d[a] < frames[b]

(* What is heard from place p on comes after all that was sent before it.  *)
LEMMA HeardRises ==
  ASSUME NEW bytes \in Seq(Bytes), NEW p \in Nat, Heard(bytes, p)
  PROVE  /\ Rising(bytes)
         /\ \A w, x \in Nat : Sent(w, p) /\ Holds(bytes, x) => w < x
         /\ \A t \in Nat, x \in Nat :
              p + Len(bytes) <= t /\ (Sent(x, p) \/ Holds(bytes, x)) => Sent(x, t)
<1>1. Len(bytes) \in Nat BY LenProperties
<1>2. ASSUME NEW j \in 1..Len(bytes), NEW k \in 1..Len(bytes), NEW w \in Nat, NEW x \in Nat,
             j < k, bytes[j] = Aas(w), bytes[k] = Aas(x)
      PROVE  w < x
  <2>1. PICK a \in 0..StreamEnd, b \in 0..StreamEnd :
          a = p + j - 1 /\ b = p + k - 1 /\ Stream[a] = Aas(w) /\ Stream[b] = Aas(x)
    BY <1>2 DEF Heard
  <2>2. b \in Nat /\ a < b BY <1>1, <1>2, <2>1
  <2>3. Sent(w, b) BY <2>1, <2>2 DEF Sent
  <2>4. b >= b BY <2>2
  <2> QED BY <2>1, <2>2, <2>3, <2>4, SentBefore
<1>3. ASSUME NEW w \in Nat, NEW x \in Nat, Sent(w, p), Holds(bytes, x) PROVE w < x
  <2>1. PICK j \in 1..Len(bytes) : bytes[j] = Aas(x) BY <1>3 DEF Holds
  <2>2. PICK b \in 0..StreamEnd : b = p + j - 1 /\ Stream[b] = Aas(x) BY <2>1 DEF Heard
  <2>3. b >= p BY <1>1, <2>2
  <2> QED BY <1>3, <2>2, <2>3, SentBefore
<1>4. ASSUME NEW t \in Nat, NEW x \in Nat, p + Len(bytes) <= t,
             Sent(x, p) \/ Holds(bytes, x)
      PROVE  Sent(x, t)
  <2>1. CASE Sent(x, p)
    <3>1. PICK j \in 0..StreamEnd : j < p /\ Stream[j] = Aas(x) BY <2>1 DEF Sent
    <3>2. j < t BY <1>1, <1>4, <3>1, FramesEndNat, SizeIs, LayoutFacts DEF StreamEnd
    <3> QED BY <3>1, <3>2 DEF Sent
  <2>2. CASE Holds(bytes, x)
    <3>1. PICK j \in 1..Len(bytes) : bytes[j] = Aas(x) BY <2>2 DEF Holds
    <3>2. PICK b \in 0..StreamEnd : b = p + j - 1 /\ Stream[b] = Aas(x) BY <3>1 DEF Heard
    <3>3. b < t BY <1>1, <1>4, <3>2
    <3> QED BY <3>2, <3>3 DEF Sent
  <2> QED BY <1>4, <2>1, <2>2
<1> QED BY <1>2, <1>3, <1>4 DEF Rising

(* process_subchannel, given what was sent from place p on with bytes of it*)
(* damaged, hands over whole frames that follow those before them, and     *)
(* keeps the subchannel in order.                                          *)
LEMMA ChannelFrames ==
  ASSUME NEW i \in Subchannels, NEW c, Kept(i, c), NEW d, NEW p \in Nat, Orderly(c, d, p),
         NEW bytes \in Seq(Bytes), Heard(bytes, p), NEW t \in Nat, p + Len(bytes) <= t
  PROVE  LET o == process_subchannel(c, bytes)
             h == parse_hdlc(c.hdlc, Cut(c.blocks \o bytes).payload, MAX_AAS_LEN)
         IN /\ Adds(d, o.frames) /\ Orderly(o.state, d \o o.frames, t)
            /\ \A j \in 1..Len(h.out), n \in 1..NFrames :
                 Whole(h.out[j], n) => \E a \in 1..Len(o.frames) : o.frames[a] = n
<1>1. /\ c.blocks \in Seq(Bytes) /\ c.hdlc \in Seq(Bytes)
      /\ Len(c.hdlc) <= MAX_AAS_LEN + 1 /\ MAX_AAS_LEN \in Nat
  BY LayoutFacts DEF Kept
<1>2. PICK all : all = c.blocks \o bytes OBVIOUS
<1>3. all \in Seq(Bytes) BY <1>1, <1>2, ConcatProperties
<1>4. PICK cut \in Cuts(all, 1) : cut = Cut(all) BY <1>3, CutIs
<1>5. PICK h : h = parse_hdlc(c.hdlc, cut.payload, MAX_AAS_LEN) OBVIOUS
<1>6. PICK o : o = process_subchannel(c, bytes) OBVIOUS
<1>7. PICK s : s = [c EXCEPT !.blocks = cut.rest, !.hdlc = h.rest] OBVIOUS
<1>8. o.state = s /\ o.frames = aas_push(h.out)
  BY <1>2, <1>4, <1>5, <1>6, <1>7 DEF process_subchannel
<1>9. s.blocks = cut.rest /\ s.hdlc = h.rest
  BY <1>7 DEF Kept
<1>10. cut.payload \in Seq(Bytes) /\ cut.rest \in Seq(Bytes) /\ Drawn(all, 1, cut)
  BY DEF Cuts
<1> DEFINE Came(w) == HeldBy(c, w) \/ Holds(bytes, w)
<1>11. Rising(bytes) /\ \A w, x \in Nat : HeldBy(c, w) /\ Holds(bytes, x) => w < x
  BY HeardRises DEF Orderly
<1>12. Before(c.blocks, bytes) /\ Before(c.hdlc, bytes) BY <1>11 DEF HeldBy, Before
<1>13. Rising(all) BY <1>1, <1>2, <1>11, <1>12, ConcatRises DEF Orderly
<1>14. Rising(cut.payload) /\ Rising(cut.rest) /\ Before(cut.payload, cut.rest)
  BY <1>10, <1>13 DEF Drawn
<1>15. ASSUME NEW w \in Nat, Holds(cut.payload, w) \/ Holds(cut.rest, w)
       PROVE  Holds(c.blocks, w) \/ Holds(bytes, w)
  <2>1. PICK j \in 1..Len(all) : all[j] = Aas(w) BY <1>10, <1>15 DEF Drawn
  <2>2. Holds(all, w) BY <2>1 DEF Holds
  <2> QED BY <1>1, <1>2, <2>2, ConcatHolds
<1>16. Before(c.hdlc, cut.payload) /\ Before(c.hdlc, cut.rest)
  BY <1>12, <1>15 DEF Orderly, Before
<1>17. h \in Reads(MAX_AAS_LEN) /\ SoFar(c.hdlc, cut.payload, Len(cut.payload), h)
  BY <1>1, <1>5, <1>10, <1>14, <1>16, FramesRead
<1>18. \A w : ReadBy(c.hdlc, cut.payload, Len(cut.payload), w)
                <=> Holds(c.hdlc, w) \/ Holds(cut.payload, w)
  BY DEF ReadBy, Holds
<1>19. \A w \in Nat : HeldBy(s, w) => Came(w)
  BY <1>9, <1>15, <1>17, <1>18 DEF HeldBy, SoFar
<1>20. Before(s.hdlc, s.blocks)
  <2>1. \A w \in Nat : Holds(h.rest, w) => Holds(c.hdlc, w) \/ Holds(cut.payload, w)
    BY <1>17, <1>18 DEF SoFar
  <2> QED BY <1>9, <1>14, <1>16, <2>1 DEF Before
<1>21. \A w \in Nat : Came(w) => Sent(w, t)
  BY HeardRises DEF Orderly
<1>22. h.out \in Seq(Seq(Bytes)) /\ FramesRise(h.out)
  BY <1>17 DEF Reads, SoFar, FramesRise
<1>23. PICK frames \in Pushed(h.out, Len(h.out)) : frames = o.frames
  BY <1>8, <1>22, PushIs
<1>24. /\ frames \in Seq(1..NFrames)
       /\ \A a, b \in 1..Len(frames) : a < b => frames[a] < frames[b]
       /\ \A j \in 1..Len(h.out), n \in 1..NFrames :
            Whole(h.out[j], n) => \E a \in 1..Len(frames) : frames[a] = n
  BY DEF Pushed
<1>25. ASSUME NEW b \in 1..Len(frames)
       PROVE  /\ frames[b] \in 1..NFrames /\ End(frames[b]) \in Nat /\ Came(End(frames[b]))
              /\ \A w \in Nat : HeldBy(s, w) => End(frames[b]) < w
  <2>1. PICK n : n = frames[b] OBVIOUS
  <2>2. n \in 1..NFrames BY <1>24, <2>1, ElementOfSeq
  <2>3. PICK j \in 1..Len(h.out) : Whole(h.out[j], n) BY <2>1 DEF Pushed
  <2>4. /\ Holds(c.hdlc, End(n)) \/ Holds(cut.payload, End(n))
        /\ \A w \in Nat : Holds(h.rest, w) => End(n) < w
    BY <1>17, <1>18, <2>2, <2>3 DEF SoFar
  <2>5. End(n) \in Nat BY <2>2, EndIs
  <2>6. Came(End(n)) BY <1>15, <2>4, <2>5 DEF HeldBy
  <2>7. \A w \in Nat : Holds(cut.rest, w) => End(n) < w
    BY <1>14, <1>16, <2>4, <2>5 DEF Before
  <2> QED BY <1>9, <2>1, <2>2, <2>4, <2>5, <2>6, <2>7 DEF HeldBy
<1>26. d \in Seq(1..NFrames) BY DEF Orderly
<1>27. ASSUME NEW a \in 1..Len(d)
       PROVE  /\ d[a] \in 1..NFrames /\ Sent(End(d[a]), t)
              /\ \A w \in Nat : Came(w) => End(d[a]) < w
  <2>1. PICK n : n = d[a] OBVIOUS
  <2>2. n \in 1..NFrames BY <1>26, <2>1, ElementOfSeq
  <2>3. End(n) \in Nat BY <2>2, EndIs
  <2>4. Sent(End(n), p) /\ \A w \in Nat : HeldBy(c, w) => End(n) < w
    BY <2>1 DEF Orderly
  <2>5. \A w \in Nat : Holds(bytes, w) => End(n) < w BY <2>3, <2>4, HeardRises
  <2>6. Sent(End(n), t) BY <2>3, <2>4, HeardRises
  <2> QED BY <2>1, <2>2, <2>4, <2>5, <2>6
<1>28. \A a \in 1..Len(d), b \in 1..Len(frames) : d[a] < frames[b]
  <2> TAKE a \in 1..Len(d), b \in 1..Len(frames)
  <2>1. PICK n \in 1..NFrames, m \in 1..NFrames : n = d[a] /\ m = frames[b]
    BY <1>25, <1>27
  <2>2. End(n) < End(m) BY <1>25, <1>27, <2>1
  <2> QED BY <2>1, <2>2, EndIs
<1>29. Adds(d, frames) BY <1>24, <1>28 DEF Adds
<1>30. PICK e : e = d \o frames OBVIOUS
<1>31. /\ e \in Seq(1..NFrames) /\ Len(e) = Len(d) + Len(frames)
       /\ Len(d) \in Nat /\ Len(frames) \in Nat
       /\ \A k \in 1..(Len(d) + Len(frames)) :
            e[k] = IF k <= Len(d) THEN d[k] ELSE frames[k - Len(d)]
  BY <1>24, <1>26, <1>30, ConcatProperties, LenProperties
<1>32. ASSUME NEW k \in 1..Len(e)
       PROVE  Sent(End(e[k]), t) /\ \A w \in Nat : HeldBy(s, w) => End(e[k]) < w
  <2>1. CASE k <= Len(d)
    <3>1. k \in 1..Len(d) /\ e[k] = d[k] BY <1>31, <2>1
    <3> QED BY <1>19, <1>27, <3>1
  <2>2. CASE ~(k <= Len(d))
    <3>1. PICK b \in 1..Len(frames) : b = k - Len(d) /\ e[k] = frames[b] BY <1>31, <2>2
    <3> QED BY <1>21, <1>25, <3>1
  <2> QED BY <2>1, <2>2
<1>33. \A w \in Nat : HeldBy(s, w) => Sent(w, t) BY <1>19, <1>21
<1>34. Rising(s.blocks) BY <1>9, <1>14
<1>35. Orderly(s, e, t) BY <1>20, <1>31, <1>32, <1>33, <1>34 DEF Orderly
<1> QED BY <1>2, <1>4, <1>5, <1>6, <1>8, <1>23, <1>24, <1>29, <1>30, <1>35

-----------------------------------------------------------------------------
(* What a PDU carries of each subchannel.                                  *)

(* The parts of a sequence that is made of two.                            *)
LEMMA Parts ==
  ASSUME NEW s \in Seq(Bytes), NEW t \in Seq(Bytes)
  PROVE  /\ s \o t \in Seq(Bytes) /\ Len(s \o t) = Len(s) + Len(t)
         /\ Len(s) \in Nat /\ Len(t) \in Nat
         /\ \A k \in 1..Len(s) : (s \o t)[k] = s[k]
         /\ \A k \in 1..Len(t) : (s \o t)[Len(s) + k] = t[k]
<1>1. PICK u : u = s \o t OBVIOUS
<1>2. /\ u \in Seq(Bytes) /\ Len(u) = Len(s) + Len(t)
      /\ Len(s) \in Nat /\ Len(t) \in Nat
      /\ \A k \in 1..(Len(s) + Len(t)) : u[k] = IF k <= Len(s) THEN s[k] ELSE t[k - Len(s)]
  BY <1>1, ConcatProperties, LenProperties
<1>3. ASSUME NEW k \in 1..Len(s) PROVE u[k] = s[k]
  <2>1. k \in 1..(Len(s) + Len(t)) /\ k <= Len(s) BY <1>2
  <2> QED BY <1>2, <2>1
<1>4. ASSUME NEW k \in 1..Len(t) PROVE u[Len(s) + k] = t[k]
  <2>1. PICK j : j = Len(s) + k OBVIOUS
  <2>2. j \in 1..(Len(s) + Len(t)) /\ ~(j <= Len(s)) /\ j - Len(s) = k BY <1>2, <2>1
  <2> QED BY <1>2, <2>1, <2>2
<1> QED BY <1>1, <1>2, <1>3, <1>4

(* Where a PDU carries the bytes of each subchannel.                       *)
LEMMA SlicesAre ==
  ASSUME Sending, NEW i \in Subchannels, NEW k \in 1..Lengths[i]
  PROVE  PDU[Start(Lengths, i, Size - 1 - Width) + k - 1] = Stream[pos[i] + k - 1]
<1>1. PICK A \in Seq(Bytes), C \in Seq(Bytes), L \in Seq(Bytes) :
        A = Audio /\ C = Control /\ L = <<WidthByte(Width)>> /\ Len(A) = Width + 3
  <2>1. Audio \in Seq(Bytes) /\ Len(Audio) = Width + 3
    <3>1. Audio \in [1..Width + 3 -> Bytes] BY DEF Audio, Bytes
    <3> QED BY <3>1, FcnIsSeq, LayoutFacts
  <2>2. Control \in Seq(Bytes)
    <3>1. \A j \in 1..Width : cpos + j - 1 \in Nat BY LayoutFacts DEF Sending
    <3>2. Control \in [1..Width -> Bytes] BY <3>1 DEF Control, Bytes
    <3> QED BY <3>2, FcnIsSeq, LayoutFacts
  <2>3. WidthByte(Width) \in Bytes BY DEF Bytes
  <2>4. <<WidthByte(Width)>> \in Seq(Bytes) BY <2>3
  <2> QED BY <2>1, <2>2, <2>4
<1>2. PICK s0 \in Seq(Bytes), s1 \in Seq(Bytes), s2 \in Seq(Bytes), s3 \in Seq(Bytes) :
        /\ s0 = Slice(0) /\ s1 = Slice(1) /\ s2 = Slice(2) /\ s3 = Slice(3)
        /\ Len(s0) = Lengths[0] /\ Len(s1) = Lengths[1]
        /\ Len(s2) = Lengths[2] /\ Len(s3) = Lengths[3]
  BY SliceIs DEF Subchannels
<1>3. PICK a \in Seq(Bytes) : a = A \o s0 BY Parts
<1>4. PICK b \in Seq(Bytes) : b = a \o s1 BY Parts
<1>5. PICK c \in Seq(Bytes) : c = b \o s2 BY Parts
<1>6. PICK d \in Seq(Bytes) : d = c \o s3 BY Parts
<1>7. PICK e \in Seq(Bytes) : e = d \o C BY Parts
<1>8. PDU = e \o L BY <1>1, <1>2, <1>3, <1>4, <1>5, <1>6, <1>7 DEF PDU
<1>9. PICK w \in Nat, n0 \in Nat, n1 \in Nat, n2 \in Nat, n3 \in Nat :
        /\ w = Width /\ n0 = Lengths[0] /\ n1 = Lengths[1]
        /\ n2 = Lengths[2] /\ n3 = Lengths[3]
  <2>1. Width \in Nat BY LayoutFacts
  <2>2. Lengths[0] \in Nat BY LayoutFacts DEF Subchannels
  <2>3. Lengths[1] \in Nat BY LayoutFacts DEF Subchannels
  <2>4. Lengths[2] \in Nat BY LayoutFacts DEF Subchannels
  <2>5. Lengths[3] \in Nat BY LayoutFacts DEF Subchannels
  <2> QED BY <2>1, <2>2, <2>3, <2>4, <2>5
<1>10. /\ Len(a) = w + 3 + n0 /\ Len(b) = w + 3 + n0 + n1
       /\ Len(c) = w + 3 + n0 + n1 + n2 /\ Len(d) = w + 3 + n0 + n1 + n2 + n3
  <2>1. Len(a) = Len(A) + Len(s0) BY <1>3, Parts
  <2>2. Len(b) = Len(a) + Len(s1) BY <1>4, Parts
  <2>3. Len(c) = Len(b) + Len(s2) BY <1>5, Parts
  <2>4. Len(d) = Len(c) + Len(s3) BY <1>6, Parts
  <2>5. /\ Len(A) = w + 3 /\ Len(s0) = n0 /\ Len(s1) = n1 /\ Len(s2) = n2
        /\ Len(s3) = n3
    BY <1>1, <1>2, <1>9
  <2>6. Len(a) = w + 3 + n0 BY <2>1, <2>5
  <2>7. Len(b) = w + 3 + n0 + n1 BY <2>2, <2>5, <2>6
  <2>8. Len(c) = w + 3 + n0 + n1 + n2 BY <2>3, <2>5, <2>7
  <2>9. Len(d) = w + 3 + n0 + n1 + n2 + n3 BY <2>4, <2>5, <2>8
  <2> QED BY <2>6, <2>7, <2>8, <2>9
<1>11. ASSUME NEW j \in 1..Len(d) PROVE PDU[j] = d[j]
  <2>1. j \in 1..Len(e) /\ e[j] = d[j]
    <3>1. e[j] = d[j] /\ Len(e) = Len(d) + Len(C) /\ Len(d) \in Nat /\ Len(C) \in Nat
      BY <1>7, Parts
    <3> QED BY <3>1
  <2>2. (e \o L)[j] = e[j] BY <2>1, Parts
  <2> QED BY <1>8, <2>1, <2>2
<1>12. /\ \A j \in 1..Len(c) : d[j] = c[j]
       /\ \A j \in 1..Len(b) : c[j] = b[j]
       /\ \A j \in 1..Len(a) : b[j] = a[j]
  <2>1. \A j \in 1..Len(c) : d[j] = c[j] BY <1>6, Parts
  <2>2. \A j \in 1..Len(b) : c[j] = b[j] BY <1>5, Parts
  <2>3. \A j \in 1..Len(a) : b[j] = a[j] BY <1>4, Parts
  <2> QED BY <2>1, <2>2, <2>3
<1>13. /\ \A j \in 1..n0 : a[w + 3 + j] = s0[j]
       /\ \A j \in 1..n1 : b[w + 3 + n0 + j] = s1[j]
       /\ \A j \in 1..n2 : c[w + 3 + n0 + n1 + j] = s2[j]
       /\ \A j \in 1..n3 : d[w + 3 + n0 + n1 + n2 + j] = s3[j]
  <2>1. \A j \in 1..Len(s0) : a[Len(A) + j] = s0[j] BY <1>3, Parts
  <2>2. \A j \in 1..Len(s1) : b[Len(a) + j] = s1[j] BY <1>4, Parts
  <2>3. \A j \in 1..Len(s2) : c[Len(b) + j] = s2[j] BY <1>5, Parts
  <2>4. \A j \in 1..Len(s3) : d[Len(c) + j] = s3[j] BY <1>6, Parts
  <2>5. /\ Len(s0) = n0 /\ Len(s1) = n1 /\ Len(s2) = n2 /\ Len(s3) = n3
        /\ Len(A) = w + 3
    BY <1>1, <1>2, <1>9
  <2>6. \A j \in 1..n0 : a[w + 3 + j] = s0[j] BY <2>1, <2>5
  <2>7. \A j \in 1..n1 : b[w + 3 + n0 + j] = s1[j] BY <1>10, <2>2, <2>5
  <2>8. \A j \in 1..n2 : c[w + 3 + n0 + n1 + j] = s2[j] BY <1>10, <2>3, <2>5
  <2>9. \A j \in 1..n3 : d[w + 3 + n0 + n1 + n2 + j] = s3[j] BY <1>10, <2>4, <2>5
  <2> QED BY <2>6, <2>7, <2>8, <2>9
<1>14. PICK p \in Int : p = Size - 1 - Width
  <2>1. PICK z \in Nat : z = Size BY SizeIs
  <2>2. z - 1 - w \in Int BY <2>1
  <2> QED BY <1>9, <2>1, <2>2
<1>15. p = w + 3 + n0 + n1 + n2 + n3
  <2>1. PICK z \in Nat : z = Size BY SizeIs
  <2>2. z = 2 * w + 4 + n0 + n1 + n2 + n3 BY <1>9, <2>1, SizeIs
  <2>3. p = z - 1 - w BY <1>9, <1>14, <2>1
  <2> QED BY ONLY <2>2, <2>3, w \in Nat, n0 \in Nat, n1 \in Nat, n2 \in Nat, n3 \in Nat
<1>16. /\ Start(Lengths, 3, p) = p + 1 - n3
       /\ Start(Lengths, 2, p) = p + 1 - n3 - n2
       /\ Start(Lengths, 1, p) = p + 1 - n3 - n2 - n1
       /\ Start(Lengths, 0, p) = p + 1 - n3 - n2 - n1 - n0
  BY <1>9, StartIs, LayoutFacts
<1>17. Slice(i)[k] = Stream[pos[i] + k - 1] BY DEF Slice
<1>18. k \in Nat \ {0} BY LayoutFacts
<1>19. CASE i = 0
  <2>1. PICK j : j = w + 3 + k OBVIOUS
  <2>2. k \in 1..n0 BY <1>9, <1>19
  <2>3. j \in 1..Len(a) /\ j \in 1..Len(b) /\ j \in 1..Len(c) /\ j \in 1..Len(d)
    BY <1>10, <2>1, <2>2
  <2>4. PDU[j] = s0[k] BY <1>11, <1>12, <1>13, <2>1, <2>2, <2>3
  <2>5. Start(Lengths, i, p) + k - 1 = j BY <1>15, <1>16, <1>18, <1>19, <2>1
  <2> QED BY <1>2, <1>14, <1>17, <1>19, <2>4, <2>5
<1>20. CASE i = 1
  <2>1. PICK j : j = w + 3 + n0 + k OBVIOUS
  <2>2. k \in 1..n1 BY <1>9, <1>20
  <2>3. j \in 1..Len(b) /\ j \in 1..Len(c) /\ j \in 1..Len(d)
    BY <1>10, <2>1, <2>2
  <2>4. PDU[j] = s1[k] BY <1>11, <1>12, <1>13, <2>1, <2>2, <2>3
  <2>5. Start(Lengths, i, p) + k - 1 = j BY <1>15, <1>16, <1>18, <1>20, <2>1
  <2> QED BY <1>2, <1>14, <1>17, <1>20, <2>4, <2>5
<1>21. CASE i = 2
  <2>1. PICK j : j = w + 3 + n0 + n1 + k OBVIOUS
  <2>2. k \in 1..n2 BY <1>9, <1>21
  <2>3. j \in 1..Len(c) /\ j \in 1..Len(d) BY <1>10, <2>1, <2>2
  <2>4. PDU[j] = s2[k] BY <1>11, <1>12, <1>13, <2>1, <2>2, <2>3
  <2>5. Start(Lengths, i, p) + k - 1 = j BY <1>15, <1>16, <1>18, <1>21, <2>1
  <2> QED BY <1>2, <1>14, <1>17, <1>21, <2>4, <2>5
<1>22. CASE i = 3
  <2>1. PICK j : j = w + 3 + n0 + n1 + n2 + k OBVIOUS
  <2>2. k \in 1..n3 BY <1>9, <1>22
  <2>3. j \in 1..Len(d) BY <1>10, <2>1, <2>2
  <2>4. PDU[j] = s3[k] BY <1>11, <1>13, <2>1, <2>2, <2>3
  <2>5. Start(Lengths, i, p) + k - 1 = j BY <1>15, <1>16, <1>18, <1>22, <2>1
  <2> QED BY <1>2, <1>14, <1>17, <1>22, <2>4, <2>5
<1> QED BY <1>19, <1>20, <1>21, <1>22 DEF Subchannels

(* A PDU as it arrives: no byte of a frame is in it that was not sent in   *)
(* its place.                                                              *)
Arrives(pdu) ==
  /\ pdu \in Seq(Bytes) /\ Len(pdu) = Size
  /\ \A k \in 1..Size : \A w \in Nat : pdu[k] = Aas(w) => PDU[k] = Aas(w)

(* The lengths of the subchannels are all known, or none is.               *)
LengthsOf(known) == [i \in Subchannels |-> IF known THEN Lengths[i] ELSE 0]

(* With the station's width process_fixed_data gives each subchannel what  *)
(* the station sent on it, or nothing.                                     *)
LEMMA SliceHeard ==
  ASSUME Sending, NEW pdu, Arrives(pdu), NEW known \in BOOLEAN, NEW i \in Subchannels
  PROVE  LET p == Size - 1 - Width
             length == LengthsOf(known)
             bytes == SubSeq(pdu, Start(length, i, p), Start(length, i + 1, p) - 1)
         IN /\ bytes \in Seq(Bytes) /\ Heard(bytes, pos[i])
            /\ Len(bytes) <= Lengths[i]
<1>1. PICK length : length = LengthsOf(known) OBVIOUS
<1>2. length \in [Subchannels -> Nat] /\ \A j \in Subchannels : length[j] \in {0, Lengths[j]}
  BY <1>1, LayoutFacts DEF LengthsOf
<1>3. PICK p : p = Size - 1 - Width OBVIOUS
<1>4. PICK from, to : from = Start(length, i, p) /\ to = Start(length, i + 1, p) - 1
  OBVIOUS
<1>5. Width \in 0..(Width + 2) BY LayoutFacts
<1>6. from \in Nat \ {0} /\ to \in Nat /\ to <= Size BY <1>2, <1>3, <1>4, <1>5, Within
<1>7. Start(length, i + 1, p) = from + length[i]
  <2>1. p \in Int BY <1>3, SizeIs, LayoutFacts
  <2>2. PICK a, b, c, d : a = length[0] /\ b = length[1] /\ c = length[2] /\ d = length[3]
    OBVIOUS
  <2>3. a \in Nat /\ b \in Nat /\ c \in Nat /\ d \in Nat BY <1>2, <2>2 DEF Subchannels
  <2>4. /\ Start(length, 4, p) = p + 1
        /\ Start(length, 3, p) = p + 1 - d
        /\ Start(length, 2, p) = p + 1 - d - c
        /\ Start(length, 1, p) = p + 1 - d - c - b
        /\ Start(length, 0, p) = p + 1 - d - c - b - a
    BY <1>2, <2>1, <2>2, StartIs
  <2>5. CASE i = 0 BY <1>4, <2>1, <2>2, <2>3, <2>4, <2>5
  <2>6. CASE i = 1 BY <1>4, <2>1, <2>2, <2>3, <2>4, <2>6
  <2>7. CASE i = 2 BY <1>4, <2>1, <2>2, <2>3, <2>4, <2>7
  <2>8. CASE i = 3 BY <1>4, <2>1, <2>2, <2>3, <2>4, <2>8
  <2> QED BY <2>5, <2>6, <2>7, <2>8 DEF Subchannels
<1>8. PICK n \in Nat : n = length[i] BY <1>2
<1>9. to = from + n - 1 BY <1>4, <1>6, <1>7, <1>8
<1>10. PICK bytes : bytes = SubSeq(pdu, from, to) OBVIOUS
<1>11. /\ bytes \in Seq(Bytes) /\ Len(bytes) = n
       /\ \A k \in 1..n : bytes[k] = pdu[from + k - 1]
  <2>1. \A k \in from..to : k \in 1..Len(pdu) BY <1>6, SizeIs DEF Arrives
  <2>2. \A k \in from..to : pdu[k] \in Bytes BY <2>1, ElementOfSeq DEF Arrives
  <2>3. from \in Int /\ to \in Int BY <1>6
  <2>4. /\ bytes \in Seq(Bytes)
        /\ Len(bytes) = IF from <= to THEN to - from + 1 ELSE 0
        /\ \A k \in 1..(to - from + 1) : bytes[k] = pdu[from + k - 1]
    BY <1>10, <2>2, <2>3, SubSeqProperties
  <2>5. to - from + 1 = n /\ (from <= to <=> n > 0) BY <1>6, <1>9
  <2> QED BY <2>4, <2>5
<1>12. n \in {0, Lengths[i]} /\ Lengths[i] \in Nat BY <1>2, <1>8, LayoutFacts
<1>13. ASSUME NEW k \in 1..n, NEW w \in Nat, bytes[k] = Aas(w)
       PROVE  pos[i] + k - 1 \in 0..StreamEnd /\ Stream[pos[i] + k - 1] = Aas(w)
  <2>1. n = Lengths[i] /\ k \in 1..Lengths[i] BY <1>12
  <2>2. known
    <3>1. SUFFICES ASSUME ~known PROVE FALSE OBVIOUS
    <3>2. length[i] = 0 BY <1>1, <3>1 DEF LengthsOf
    <3> QED BY <1>8, <3>2
  <2>3. length = Lengths
    <3>1. \A j \in Subchannels : length[j] = Lengths[j] BY <1>1, <2>2 DEF LengthsOf
    <3> QED BY <1>2, <3>1, LayoutFacts
  <2>4. PICK q : q = from + k - 1 OBVIOUS
  <2>5. q \in 1..Size
    <3>1. q \in Nat \ {0} /\ q <= to BY <1>6, <1>9, <2>4
    <3> QED BY <1>6, <3>1, SizeIs
  <2>6. pdu[q] = Aas(w) BY <1>11, <1>13, <2>4
  <2>7. PDU[q] = Aas(w) BY <2>5, <2>6 DEF Arrives
  <2>8. q = Start(Lengths, i, Size - 1 - Width) + k - 1 BY <1>3, <1>4, <2>3, <2>4
  <2>9. Stream[pos[i] + k - 1] = Aas(w) BY <2>1, <2>7, <2>8, SlicesAre
  <2>10. pos[i] \in 0..(FramesEnd + BlockLen) BY DEF Sending
  <2>11. Lengths[i] <= Size BY <1>6, <1>9, <1>12, <2>1, SizeIs
  <2>12. pos[i] + k - 1 \in 0..StreamEnd
    BY <1>12, <2>1, <2>10, <2>11, FramesEndNat, SizeIs, LayoutFacts DEF StreamEnd
  <2> QED BY <2>9, <2>12
<1>14. Heard(bytes, pos[i]) BY <1>11, <1>13 DEF Heard
<1> QED BY <1>1, <1>3, <1>4, <1>10, <1>11, <1>12, <1>14

(* What was in order stays so when the station moves on.                   *)
LEMMA OrderlyAfter ==
  ASSUME NEW c, NEW d, NEW p \in Nat, NEW t \in Nat, p <= t, NEW stay \in BOOLEAN,
         Orderly(c, d, p)
  PROVE  Orderly(c, d, After(t, stay))
<1>1. \A w \in Nat : Sent(w, p) => Sent(w, After(t, stay)) BY SentAfter
<1>2. \A w \in Nat : HeldBy(c, w) => Sent(w, After(t, stay)) BY <1>1 DEF Orderly
<1>3. \A a \in 1..Len(d) : Sent(End(d[a]), After(t, stay))
  <2> TAKE a \in 1..Len(d)
  <2>1. d[a] \in 1..NFrames BY ElementOfSeq DEF Orderly
  <2>2. End(d[a]) \in Nat BY <2>1, EndIs
  <2> QED BY <1>1, <2>2 DEF Orderly
<1> QED BY <1>2, <1>3 DEF Orderly

(* A subchannel just announced holds nothing.                              *)
LEMMA UnusedOrderly ==
  ASSUME NEW c, c.blocks = << >>, c.hdlc = << >>, NEW d, NEW p \in Nat,
         d \in Seq(1..NFrames), \A a \in 1..Len(d) : Sent(End(d[a]), p)
  PROVE  Orderly(c, d, p)
<1>1. \A w : ~HeldBy(c, w) BY EmptyRises DEF HeldBy
<1> QED BY <1>1, EmptyRises DEF Orderly

-----------------------------------------------------------------------------
(* What process_fixed_data hands over.                                     *)

(* Every subchannel is in order, and their lengths are known together.     *)
LengthsKnown ==
  \E known \in BOOLEAN : [i \in Subchannels |-> subchannel[i].length] = LengthsOf(known)
ChannelInv ==
  LengthsKnown /\ \A i \in Subchannels : Orderly(subchannel[i], delivered[i], pos[i])

(* What a step of the receiver hands over.                                 *)
Handed ==
  \A i \in Subchannels : \E frames :
    Adds(delivered[i], frames) /\ delivered'[i] = delivered[i] \o frames

(* A subchannel that hands nothing over.                                   *)
LEMMA AddsNothing ==
  ASSUME NEW d \in Seq(1..NFrames)
  PROVE  Adds(d, <<>>) /\ d \o <<>> = d
<1>1. <<>> \in Seq(1..NFrames) /\ Len(<<>>) = 0 OBVIOUS
<1>2. d \o <<>> = d OBVIOUS
<1> QED BY <1>1, <1>2 DEF Adds

(* Where the station stands after a step.                                  *)
LEMMA Moved ==
  ASSUME Sending, Send
  PROVE  \E stay \in BOOLEAN : \A i \in Subchannels :
           /\ pos[i] \in Nat /\ Lengths[i] \in Nat /\ pos[i] + Lengths[i] \in Nat
           /\ pos[i] <= pos[i] + Lengths[i]
           /\ pos'[i] = After(pos[i] + Lengths[i], stay)
<1>1. PICK stay \in BOOLEAN : pos' = [i \in Subchannels |-> After(pos[i] + Lengths[i], stay)]
  BY DEF Send
<1>2. \A i \in Subchannels : pos[i] \in Nat /\ Lengths[i] \in Nat
  BY LayoutFacts, FramesEndNat DEF Sending
<1> QED BY <1>1, <1>2

(* While the receiver does nothing the station moves on.                   *)
LEMMA IdleFrames ==
  ASSUME IInv, ChannelInv, Send, UNCHANGED <<subchannel, delivered>>
  PROVE  ChannelInv' /\ Handed
<1>1. PICK stay \in BOOLEAN : \A i \in Subchannels :
           /\ pos[i] \in Nat /\ Lengths[i] \in Nat /\ pos[i] + Lengths[i] \in Nat
           /\ pos[i] <= pos[i] + Lengths[i]
           /\ pos'[i] = After(pos[i] + Lengths[i], stay)
  BY Moved DEF IInv
<1>2. ASSUME NEW i \in Subchannels
      PROVE  /\ Orderly(subchannel[i], delivered[i], pos'[i])
             /\ Adds(delivered[i], <<>>) /\ delivered'[i] = delivered[i] \o <<>>
  <2>1. Orderly(subchannel[i], delivered[i], pos[i]) BY DEF ChannelInv
  <2>2. Orderly(subchannel[i], delivered[i], pos'[i]) BY <1>1, <2>1, OrderlyAfter
  <2>3. delivered[i] \in Seq(1..NFrames) BY <2>1 DEF Orderly
  <2> QED BY <2>2, <2>3, AddsNothing
<1>3. LengthsKnown' BY DEF ChannelInv, LengthsKnown
<1> QED BY <1>2, <1>3 DEF ChannelInv, Handed

(* process_fixed_data, given what arrives of the station's PDU and with    *)
(* the station's width once it believes one, hands over frames that were   *)
(* sent, later than those before, and keeps every subchannel in order.     *)
LEMMA ProcessFrames ==
  ASSUME IInv, ChannelInv, NEW pdu, Arrives(pdu), process_fixed_data(pdu), Send,
         sync_count' \in 0..2, sync_count' = 2 => sync_width' = Width
  PROVE  ChannelInv' /\ Handed
<1>1. CASE sync_count' < 2
  <2>1. UNCHANGED <<subchannel, delivered>> BY <1>1 DEF process_fixed_data
  <2> QED BY <2>1, IdleFrames
<1>2. CASE ~(sync_count' < 2)
  <2> DEFINE Result(h, d) ==
               /\ ccc' = h.rest
               /\ fixed_ready' = IsReady(h)
               /\ subchannel' = [i \in Subchannels |-> d[i].state]
               /\ delivered' = [i \in Subchannels |-> delivered[i] \o d[i].frames]
  <2>1. PICK p \in {Len(pdu) - 1 - sync_width'} :
        \E h \in {parse_hdlc(ccc, SubSeq(pdu, p + 1, Len(pdu) - 1), CCC_BUF)} :
        \E c \in {process_fixed_ccc(h)} :
        \E length \in {[i \in Subchannels |-> c[i].length]} :
        \E d \in {[i \in Subchannels |-> process_subchannel(c[i],
                     SubSeq(pdu, Start(length, i, p), Start(length, i + 1, p) - 1))]} :
          Result(h, d)
    BY <1>2, Zenon DEF process_fixed_data
  <2> HIDE DEF Result
  <2>2. PICK h \in {parse_hdlc(ccc, SubSeq(pdu, p + 1, Len(pdu) - 1), CCC_BUF)} :
        \E c \in {process_fixed_ccc(h)} :
        \E length \in {[i \in Subchannels |-> c[i].length]} :
        \E d \in {[i \in Subchannels |-> process_subchannel(c[i],
                     SubSeq(pdu, Start(length, i, p), Start(length, i + 1, p) - 1))]} :
          Result(h, d)
    BY <2>1, Zenon
  <2>3. PICK c \in {process_fixed_ccc(h)} :
        \E length \in {[i \in Subchannels |-> c[i].length]} :
        \E d \in {[i \in Subchannels |-> process_subchannel(c[i],
                     SubSeq(pdu, Start(length, i, p), Start(length, i + 1, p) - 1))]} :
          Result(h, d)
    BY <2>2, Zenon
  <2>4. PICK length \in {[i \in Subchannels |-> c[i].length]} :
        \E d \in {[i \in Subchannels |-> process_subchannel(c[i],
                     SubSeq(pdu, Start(length, i, p), Start(length, i + 1, p) - 1))]} :
          Result(h, d)
    BY <2>3, Zenon
  <2>5. PICK d \in {[i \in Subchannels |-> process_subchannel(c[i],
                     SubSeq(pdu, Start(length, i, p), Start(length, i + 1, p) - 1))]} :
          Result(h, d)
    BY <2>4, Zenon
  <2>6. /\ c = process_fixed_ccc(h)
        /\ length = [i \in Subchannels |-> c[i].length]
        /\ d = [i \in Subchannels |-> process_subchannel(c[i],
                   SubSeq(pdu, Start(length, i, p), Start(length, i + 1, p) - 1))]
        /\ subchannel' = [i \in Subchannels |-> d[i].state]
        /\ delivered' = [i \in Subchannels |-> delivered[i] \o d[i].frames]
    BY <2>5, Zenon DEF Result
  <2>7. p = Size - 1 - Width
    <3>1. sync_count' = 2 BY <1>2
    <3>2. Len(pdu) = Size BY DEF Arrives
    <3> QED BY <3>1, <3>2
  <2>8. ASSUME NEW i \in Subchannels
        PROVE  Kept(i, c[i]) /\ Orderly(c[i], delivered[i], pos[i]) /\ pos[i] \in Nat
    <3>1. Kept(i, subchannel[i]) /\ Orderly(subchannel[i], delivered[i], pos[i])
      BY DEF IInv, ReceiverInv, ChannelInv
    <3>2. pos[i] \in Nat BY FramesEndNat, LayoutFacts DEF IInv, Sending
    <3>3. CASE IsReady(h) /\ ~fixed_ready
      <4>1. c[i] = [Unused EXCEPT !.length = Lengths[i]]
        BY <2>6, <3>3 DEF process_fixed_ccc
      <4>2. c[i].blocks = << >> /\ c[i].hdlc = << >> BY <4>1 DEF Unused
      <4>3. delivered[i] \in Seq(1..NFrames) /\ \A a \in 1..Len(delivered[i]) :
              Sent(End(delivered[i][a]), pos[i])
        BY <3>1 DEF Orderly
      <4> QED BY <3>2, <4>1, <4>2, <4>3, UnusedKept, UnusedOrderly
    <3>4. CASE ~(IsReady(h) /\ ~fixed_ready)
      BY <2>6, <3>1, <3>2, <3>4 DEF process_fixed_ccc
    <3> QED BY <3>3, <3>4
  <2>9. PICK known \in BOOLEAN : length = LengthsOf(known)
    <3>1. CASE IsReady(h) /\ ~fixed_ready
      <4>1. \A i \in Subchannels : c[i] = [Unused EXCEPT !.length = Lengths[i]]
        BY <2>6, <3>1 DEF process_fixed_ccc
      <4>2. \A i \in Subchannels : c[i].length = Lengths[i] BY <4>1 DEF Unused
      <4>3. length = LengthsOf(TRUE) BY <2>6, <4>2 DEF LengthsOf
      <4> QED BY <4>3
    <3>2. CASE ~(IsReady(h) /\ ~fixed_ready)
      BY <2>6, <3>2 DEF process_fixed_ccc, ChannelInv, LengthsKnown
    <3> QED BY <3>1, <3>2
  <2>10. PICK stay \in BOOLEAN : \A i \in Subchannels :
           /\ pos[i] \in Nat /\ Lengths[i] \in Nat /\ pos[i] + Lengths[i] \in Nat
           /\ pos[i] <= pos[i] + Lengths[i]
           /\ pos'[i] = After(pos[i] + Lengths[i], stay)
    BY Moved DEF IInv
  <2>11. ASSUME NEW i \in Subchannels
         PROVE  /\ Adds(delivered[i], d[i].frames)
                /\ Orderly(d[i].state, delivered[i] \o d[i].frames, pos'[i])
                /\ d[i].state.length = length[i]
    <3>1. PICK bytes :
            bytes = SubSeq(pdu, Start(length, i, p), Start(length, i + 1, p) - 1)
      OBVIOUS
    <3>2. bytes \in Seq(Bytes) /\ Heard(bytes, pos[i]) /\ Len(bytes) <= Lengths[i]
      BY <2>7, <2>9, <3>1, SliceHeard DEF IInv
    <3>3. PICK o : o = d[i] OBVIOUS
    <3>4. o = process_subchannel(c[i], bytes) BY <2>6, <3>1, <3>3
    <3>5. PICK t \in Nat : t = pos[i] + Lengths[i] BY <2>10
    <3>6. pos[i] + Len(bytes) <= t
      <4>1. Len(bytes) \in Nat BY <3>2, LenProperties
      <4> QED BY <2>10, <3>2, <3>5, <4>1
    <3>7. Adds(delivered[i], o.frames) /\ Orderly(o.state, delivered[i] \o o.frames, t)
      BY <2>8, <3>2, <3>4, <3>6, ChannelFrames
    <3>8. t <= t BY <3>5
    <3>9. Orderly(o.state, delivered[i] \o o.frames, After(t, stay))
      BY <3>7, <3>8, OrderlyAfter
    <3>10. o.state.length = length[i]
      <4>1. length[i] = c[i].length BY <2>6
      <4>2. c[i] \in [length : {0, Lengths[i]}, blocks : Seq(Bytes), hdlc : Seq(Bytes)]
        BY <2>8 DEF Kept
      <4>3. \E r, s : o.state = [c[i] EXCEPT !.blocks = r, !.hdlc = s]
        BY <3>4 DEF process_subchannel
      <4> QED BY <4>1, <4>2, <4>3
    <3> QED BY <2>10, <3>3, <3>5, <3>7, <3>9, <3>10
  <2>12. Handed BY <2>6, <2>11 DEF Handed
  <2>13. \A i \in Subchannels : Orderly(subchannel'[i], delivered'[i], pos'[i])
    BY <2>6, <2>11
  <2>14. LengthsKnown'
    <3>1. [i \in Subchannels |-> subchannel'[i].length] = LengthsOf(known)
      <4>1. \A i \in Subchannels : subchannel'[i].length = length[i] BY <2>6, <2>11
      <4>2. \A i \in Subchannels : length[i] = LengthsOf(known)[i] BY <2>9
      <4> QED BY <4>1, <4>2 DEF LengthsOf
    <3> QED BY <3>1 DEF LengthsKnown
  <2> QED BY <2>12, <2>13, <2>14 DEF ChannelInv
<1> QED BY <1>1, <1>2

-----------------------------------------------------------------------------
(* The channels implement FrameChannel.                                    *)

(* Two sequences, and what the second adds.                                *)
LEMMA Extended ==
  ASSUME NEW old, NEW frames, Adds(old, frames), old \in Seq(1..NFrames),
         NEW last \in 0..NFrames, \A k \in 1..Len(old \o frames) : (old \o frames)[k] <= last
  PROVE  Promise!Extends(old \o frames, old, last)
<1>1. PICK new : new = old \o frames OBVIOUS
<1>2. frames \in Seq(1..NFrames) BY DEF Adds
<1>3. /\ new \in Seq(1..NFrames) /\ Len(new) = Len(old) + Len(frames)
      /\ Len(old) \in Nat /\ Len(frames) \in Nat
      /\ \A k \in 1..(Len(old) + Len(frames)) :
           new[k] = IF k <= Len(old) THEN old[k] ELSE frames[k - Len(old)]
  BY <1>1, <1>2, ConcatProperties, LenProperties
<1>4. SubSeq(new, 1, Len(old)) = old
  <2>1. PICK m \in Nat : m = Len(old) BY <1>3
  <2>2. \A k \in 1..m : k \in 1..Len(new) BY <1>3, <2>1
  <2>3. \A k \in 1..m : new[k] \in 1..NFrames BY <1>3, <2>2, ElementOfSeq
  <2>4. PICK s : s = SubSeq(new, 1, m) OBVIOUS
  <2>5. /\ s \in Seq(1..NFrames)
        /\ Len(s) = IF 1 <= m THEN m - 1 + 1 ELSE 0
        /\ \A k \in 1..(m - 1 + 1) : s[k] = new[1 + k - 1]
    BY <2>3, <2>4, 1 \in Int, m \in Int, SubSeqProperties
  <2>6. Len(s) = m BY <2>5
  <2>7. \A k \in 1..m : s[k] = old[k]
    <3> TAKE k \in 1..m
    <3>1. k \in 1..(m - 1 + 1) /\ 1 + k - 1 = k OBVIOUS
    <3>2. s[k] = new[k] BY <2>5, <3>1
    <3>3. k \in 1..(Len(old) + Len(frames)) /\ k <= Len(old) BY <1>3, <2>1
    <3> QED BY <1>3, <3>2, <3>3
  <2>8. s = old BY <2>1, <2>5, <2>6, <2>7, SeqEqual
  <2> QED BY <2>1, <2>4, <2>8
<1>5. ASSUME NEW k \in (Len(old) + 1)..Len(new)
      PROVE  new[k] \in 1..last /\ (k > 1 => new[k - 1] < new[k])
  <2>1. k \in 1..Len(new) /\ ~(k <= Len(old)) BY <1>3
  <2>2. PICK b \in 1..Len(frames) : b = k - Len(old) BY <1>3
  <2>3. new[k] = frames[b] BY <1>3, <2>1, <2>2
  <2>4. new[k] \in 1..NFrames BY <1>3, <2>1, ElementOfSeq
  <2>5. new[k] <= last BY <1>1, <2>1
  <2>6. new[k] \in 1..last BY <2>4, <2>5
  <2>7. ASSUME k > 1 PROVE new[k - 1] < new[k]
    <3>1. k - 1 \in 1..(Len(old) + Len(frames)) BY <1>3, <2>1, <2>7
    <3>2. CASE b = 1
      <4>1. k - 1 \in 1..Len(old) /\ k - 1 <= Len(old) BY <1>3, <2>2, <2>7, <3>2
      <4>2. new[k - 1] = old[k - 1] BY <1>3, <3>1, <4>1
      <4> QED BY <2>3, <4>1, <4>2 DEF Adds
    <3>3. CASE b # 1
      <4>1. PICK a \in 1..Len(frames) : a = b - 1 BY <1>3, <3>3
      <4>2. ~(k - 1 <= Len(old)) /\ k - 1 - Len(old) = a /\ a < b BY <1>3, <2>2, <3>3, <4>1
      <4>3. new[k - 1] = frames[a] BY <1>3, <3>1, <4>2
      <4> QED BY <2>3, <4>2, <4>3 DEF Adds
    <3> QED BY <3>2, <3>3
  <2> QED BY <2>6, <2>7
<1>6. Len(old) <= Len(new) BY <1>3
<1> QED BY <1>1, <1>4, <1>5, <1>6 DEF Promise!Extends

(* A step that hands over such frames advances every channel.              *)
LEMMA Advances ==
  ASSUME ChannelInv, ChannelInv', Handed, Sending, Sending',
         \A i \in Subchannels : BegunAt(pos[i]) <= BegunAt(pos'[i])
  PROVE  Promise!Advance
<1> SUFFICES ASSUME NEW i \in Subchannels
             PROVE  LET sent == [j \in Subchannels |-> Begun(j)]
                        new == [j \in Subchannels |-> Begun(j)']
                    IN /\ new[i] \in (1..NFrames) \cup {0} /\ new[i] >= sent[i]
                       /\ Promise!Extends(delivered'[i], delivered[i], new[i])
  BY DEF Promise!Advance
<1>1. pos[i] \in Nat /\ pos'[i] \in Nat
  <2>1. pos \in [Subchannels -> 0..(FramesEnd + BlockLen)]
        /\ pos' \in [Subchannels -> 0..(FramesEnd + BlockLen)]
    BY DEF Sending
  <2> QED BY <2>1, FramesEndNat, LayoutFacts
<1>2. Begun(i) = BegunAt(pos[i]) /\ Begun(i)' = BegunAt(pos'[i])
  BY DEF Begun, BegunAt
<1>3. PICK last \in 0..NFrames : last = BegunAt(pos'[i]) BY <1>1, BegunIs
<1>4. PICK frames :
        Adds(delivered[i], frames) /\ delivered'[i] = delivered[i] \o frames
  BY DEF Handed
<1>5. PICK new : new = delivered'[i] OBVIOUS
<1>6. new \in Seq(1..NFrames) /\ \A k \in 1..Len(new) : Sent(End(new[k]), pos'[i])
  BY <1>5 DEF ChannelInv, Orderly
<1>7. \A k \in 1..Len(new) : new[k] <= last
  <2> TAKE k \in 1..Len(new)
  <2>1. PICK n \in 1..NFrames : n = new[k] BY <1>6, ElementOfSeq
  <2> QED BY <1>1, <1>3, <1>6, <2>1, BegunIs
<1>8. delivered[i] \in Seq(1..NFrames) BY DEF ChannelInv, Orderly
<1>9. Promise!Extends(delivered'[i], delivered[i], last)
  BY <1>4, <1>5, <1>7, <1>8, Extended
<1>10. last \in (1..NFrames) \cup {0} BY LayoutFacts
<1> QED BY <1>2, <1>3, <1>9, <1>10

(* A PDU arrives as it was sent, or with one byte that is of no frame.     *)
LEMMA WholeArrives == ASSUME Sending PROVE Arrives(PDU)
BY PDUIs DEF Arrives

(* No damage makes a byte of a frame.                                      *)
LEMMA DamagedArrives ==
  ASSUME Sending, NEW k \in (Len(Audio) + 1)..Size, NEW b \in Damages(k)
  PROVE  Arrives([PDU EXCEPT ![k] = b])
<1>1. PICK sent : sent = PDU OBVIOUS
<1>2. sent \in Seq(Bytes) /\ Len(sent) = Size BY <1>1, PDUIs
<1>3. k \in 1..Len(sent)
  <2>1. Audio \in [1..Width + 3 -> {Junk}] BY DEF Audio
  <2>2. Len(Audio) = Width + 3 BY <2>1, FcnIsSeq, LayoutFacts
  <2> QED BY <1>2, <2>2, SizeIs, LayoutFacts
<1>4. b \in Bytes /\ \A w : b # Aas(w)
  BY DEF Damages, Bytes, Aas, Flag, Junk, WidthByte
<1>5. PICK pdu : pdu = [sent EXCEPT ![k] = b] OBVIOUS
<1>6. /\ pdu \in Seq(Bytes) /\ Len(pdu) = Size
      /\ \A j \in 1..Size : pdu[j] = IF j = k THEN b ELSE sent[j]
  BY <1>2, <1>3, <1>4, <1>5, ExceptSeq
<1>7. \A j \in 1..Size : \A w \in Nat : pdu[j] = Aas(w) => sent[j] = Aas(w)
  BY <1>4, <1>6
<1> QED BY <1>1, <1>5, <1>6, <1>7 DEF Arrives

(* Nothing the station began is taken back.                                *)
LEMMA BegunMoved ==
  ASSUME Sending, Send
  PROVE  \A i \in Subchannels : BegunAt(pos[i]) <= BegunAt(pos'[i])
<1>1. PICK stay \in BOOLEAN : \A i \in Subchannels :
           /\ pos[i] \in Nat /\ Lengths[i] \in Nat /\ pos[i] + Lengths[i] \in Nat
           /\ pos[i] <= pos[i] + Lengths[i]
           /\ pos'[i] = After(pos[i] + Lengths[i], stay)
  BY Moved
<1> TAKE i \in Subchannels
<1> QED BY <1>1, BegunAfter

(* A receiver just started: no subchannel holds anything.                  *)
LEMMA InitFrames ==
  ASSUME Init
  PROVE  ChannelInv /\ Promise!Init
<1>1. /\ subchannel = [i \in Subchannels |-> Unused]
      /\ pos = [i \in Subchannels |-> 0]
      /\ delivered = [i \in Subchannels |-> << >>]
  BY DEF Init
<1>2. LengthsKnown
  <2>1. [i \in Subchannels |-> subchannel[i].length] = LengthsOf(FALSE)
    BY <1>1 DEF Unused, LengthsOf
  <2> QED BY <2>1 DEF LengthsKnown
<1>3. ASSUME NEW i \in Subchannels PROVE Orderly(subchannel[i], delivered[i], pos[i])
  <2>1. subchannel[i].blocks = << >> /\ subchannel[i].hdlc = << >>
    BY <1>1 DEF Unused
  <2>2. delivered[i] = << >> /\ pos[i] = 0 BY <1>1
  <2>3. delivered[i] \in Seq(1..NFrames) /\ Len(delivered[i]) = 0 BY <2>2
  <2>4. \A a \in 1..Len(delivered[i]) : Sent(End(delivered[i][a]), pos[i]) BY <2>3
  <2>5. pos[i] \in Nat BY <2>2
  <2> QED BY <2>1, <2>3, <2>4, <2>5, UnusedOrderly
<1>4. [i \in Subchannels |-> Begun(i)] = [i \in Subchannels |-> 0]
  <2>1. 0 \in Nat /\ 0 <= FramesFrom BY FramesEndNat
  <2>2. BegunAt(0) = 0 BY <2>1, BegunIs
  <2>3. \A i \in Subchannels : Begun(i) = 0 BY <1>1, <2>2 DEF Begun, BegunAt
  <2> QED BY <2>3
<1> QED BY <1>1, <1>2, <1>3, <1>4 DEF ChannelInv, Promise!Init

(* Each step keeps the subchannels in order and advances the channels.     *)
LEMMA FrameStep ==
  ASSUME MaxErrors <= 2, IInv, IInv', ChannelInv, [Next]_vars
  PROVE  ChannelInv' /\ Promise!Advance
<1>1. Sending /\ Sending' BY DEF IInv
<1>2. sync_count' \in 0..2 /\ (sync_count' = 2 => sync_width' = Width)
  BY LayoutFacts DEF IInv, ReceiverInv, WidthInv
<1>3. ASSUME Send, ChannelInv', Handed PROVE Promise!Advance
  BY <1>1, <1>3, BegunMoved, Advances
<1>4. CASE Receive
  <2>1. process_fixed_data(PDU) /\ Send BY <1>4 DEF Receive
  <2> QED BY <1>1, <1>2, <1>3, <2>1, WholeArrives, ProcessFrames
<1>5. ASSUME NEW k \in (Len(Audio) + 1)..Size, NEW b \in Damages(k), Damage(k, b)
      PROVE  ChannelInv' /\ Promise!Advance
  <2>1. process_fixed_data([PDU EXCEPT ![k] = b]) /\ Send BY <1>5 DEF Damage
  <2>2. PICK pdu : pdu = [PDU EXCEPT ![k] = b] OBVIOUS
  <2>3. Arrives(pdu) BY <1>1, <2>2, DamagedArrives
  <2>4. process_fixed_data(pdu) BY <2>1, <2>2
  <2> QED BY <1>2, <1>3, <2>1, <2>3, <2>4, ProcessFrames
<1>6. CASE Miss
  <2>1. Send /\ UNCHANGED <<subchannel, delivered>> BY <1>6 DEF Miss, receiver
  <2> QED BY <1>3, <2>1, IdleFrames
<1>7. ASSUME UNCHANGED <<subchannel, pos, delivered>>
      PROVE  ChannelInv' /\ Promise!Advance
  <2>1. ChannelInv' BY <1>7 DEF ChannelInv, LengthsKnown
  <2>2. \A i \in Subchannels :
          Adds(delivered[i], << >>) /\ delivered'[i] = delivered[i] \o << >>
    BY <1>7, AddsNothing DEF ChannelInv, Orderly
  <2>3. Handed BY <2>2 DEF Handed
  <2>4. \A i \in Subchannels : BegunAt(pos[i]) <= BegunAt(pos'[i])
    <3> TAKE i \in Subchannels
    <3>1. pos[i] \in Nat BY <1>1, FramesEndNat, LayoutFacts DEF Sending
    <3>2. BegunAt(pos[i]) \in 0..NFrames BY <3>1, BegunIs
    <3> QED BY <1>7, <3>2, LayoutFacts
  <2> QED BY <1>1, <2>1, <2>3, <2>4, Advances
<1>8. CASE Reset BY <1>7, <1>8 DEF Reset
<1>9. CASE UNCHANGED vars BY <1>7, <1>9 DEF vars, receiver, history
<1> QED BY <1>4, <1>5, <1>6, <1>8, <1>9 DEF Next

(* For any layout of the channel, and with no more than two faults, the    *)
(* subchannels of process_fixed_data implement a FrameChannel: what        *)
(* aas_push hands to output_aas_push was sent on that subchannel, whole,   *)
(* in order and nothing twice, whatever was lost, damaged, or left in the  *)
(* buffers by a reset.                                                     *)
THEOREM FramesCorrect ==
  ASSUME MaxErrors <= 2
  PROVE  Spec => FramesInOrder
<1>1. Init => ChannelInv /\ Promise!Init BY InitFrames
<1>2. ASSUME IInv, IInv', ChannelInv, [Next]_vars PROVE ChannelInv' /\ Promise!Advance
  BY <1>2, FrameStep
<1>3. Spec => Promise!Init /\ [][Promise!Advance]_(Promise!vars)
  BY <1>1, <1>2, Invariance, PTL DEF Spec
<1> QED BY <1>3, Zenon DEF FramesInOrder, Promise!Spec

-----------------------------------------------------------------------------
(* Blocks, and the bytes that the station sends in them.                   *)

(* Every place lies in one block, at one place of it.                      *)
LEMMA InBlock ==
  ASSUME NEW v \in Int
  PROVE  \E b \in Int, k \in 0..(BlockLen - 1) : v = b * BlockLen + k
<1>1. PICK L \in Nat \ {0} : L = BlockLen BY LayoutFacts
<1>2. CASE v >= 0
  <2>1. v \in Nat BY <1>2
  <2>2. PICK q \in Nat, r \in 0..(L - 1) : v = L * q + r BY <2>1, DivModIs
  <2>3. L * q = q * L OBVIOUS
  <2>4. v = q * L + r BY <2>2, <2>3
  <2> QED BY <1>1, <2>4
<1>3. CASE v < 0
  <2>1. PICK u \in Nat : v = -u - 1
    <3>1. -v - 1 \in Nat /\ v = -(-v - 1) - 1 BY <1>3
    <3> QED BY <3>1
  <2>2. PICK q \in Nat, r \in 0..(L - 1) : u = L * q + r BY <2>1, DivModIs
  <2>3. PICK b \in Int : b = -(q + 1) OBVIOUS
  <2>4. b * L = -((q + 1) * L) BY <2>3
  <2>5. (q + 1) * L = q * L + L /\ q * L \in Nat BY ProductStep
  <2>6. L * q = q * L OBVIOUS
  <2>7. v = b * L + (L - 1 - r) BY <2>1, <2>2, <2>4, <2>5, <2>6
  <2>8. L - 1 - r \in 0..(L - 1) OBVIOUS
  <2> QED BY <1>1, <2>7, <2>8
<1> QED BY <1>2, <1>3

(* A product with an integer.                                              *)
LEMMA IntProduct ==
  ASSUME NEW b \in Int, NEW c \in Int, NEW n \in Nat
  PROVE  /\ b * n \in Int
         /\ (b + 1) * n = b * n + n
         /\ b < c => b * n + n <= c * n
         /\ (c - b) * n = c * n - b * n
<1>1. b * n \in Int /\ c * n \in Int OBVIOUS
<1>2. (b + 1) * n = b * n + n OBVIOUS
<1>3. (c - b) * n = c * n - b * n OBVIOUS
<1>4. ASSUME b < c PROVE b * n + n <= c * n
  <2>1. PICK d \in Nat : c = b + 1 + d
    <3>1. c - b - 1 \in Nat /\ c = b + 1 + (c - b - 1) BY <1>4
    <3> QED BY <3>1
  <2>2. c * n = b * n + n + d * n BY <2>1
  <2>3. d * n \in Nat BY ProductNat
  <2> QED BY <1>1, <2>2, <2>3
<1> QED BY <1>1, <1>2, <1>3, <1>4

(* It is the only one.                                                     *)
LEMMA OneBlock ==
  ASSUME NEW b \in Int, NEW c \in Int,
         NEW j \in 0..(BlockLen - 1), NEW k \in 0..(BlockLen - 1),
         b * BlockLen + j = c * BlockLen + k
  PROVE  b = c /\ j = k
<1>1. PICK L \in Nat \ {0} : L = BlockLen BY LayoutFacts
<1>2. b * L \in Int /\ c * L \in Int /\ (b < c => b * L + L <= c * L) BY IntProduct
<1>3. c < b => c * L + L <= b * L BY IntProduct
<1>4. ~(b < c) /\ ~(c < b) BY <1>1, <1>2, <1>3
<1>5. b = c BY <1>4
<1>6. j = k BY <1>1, <1>2, <1>5
<1> QED BY <1>5, <1>6

(* What the station sends at each place of a block, and before the first   *)
(* place what it would have sent: flags.                                   *)
BlockByte(b, k) ==
  IF k < BBM_LEN THEN Marker(k + 1)
  ELSE PayloadByte((b - Idle) * PAYLOAD + k - BBM_LEN)
IsAt(x, v) ==
  \A b \in Int, k \in 0..(BlockLen - 1) : v = b * BlockLen + k => x = BlockByte(b, k)

(* The stream is made so.                                                  *)
LEMMA StreamAt ==
  ASSUME NEW j \in 0..StreamEnd
  PROVE  IsAt(Stream[j], j)
<1>1. PICK L \in Nat \ {0} : L = BlockLen BY LayoutFacts
<1>2. j \in Nat BY FramesEndNat, SizeIs, LayoutFacts DEF StreamEnd
<1>3. PICK q \in Nat, r \in 0..(L - 1) : q = j \div L /\ r = j % L /\ j = L * q + r
  BY <1>2, DivModIs
<1>4. Stream[j] = BlockByte(q, r)
  <2>1. j \in 0..FramesEnd + BlockLen + Size BY DEF StreamEnd
  <2> QED BY <1>1, <1>3, <2>1 DEF Stream, BlockByte
<1>5. L * q = q * L OBVIOUS
<1>6. ASSUME NEW b \in Int, NEW k \in 0..(BlockLen - 1), j = b * BlockLen + k
      PROVE  Stream[j] = BlockByte(b, k)
  <2>1. q * BlockLen + r = b * BlockLen + k BY <1>1, <1>3, <1>5, <1>6
  <2>2. q \in Int /\ r \in 0..(BlockLen - 1) BY <1>1
  <2>3. q = b /\ r = k BY <2>1, <2>2, OneBlock
  <2> QED BY <1>4, <2>3
<1> QED BY <1>6 DEF IsAt

(* No payload byte looks like a marker's.                                  *)
LEMMA NoMarker ==
  ASSUME NEW q \in Int, NEW k
  PROVE  PayloadByte(q) # Marker(k)
<1>1. PICK F \in Nat \ {0} : F = FrameLen + 1 BY LayoutFacts
<1>2. CASE q < 0 \/ q % F = 0 \/ 1 + q \div F > NFrames
  <2>1. PayloadByte(q) = Flag BY <1>1, <1>2 DEF PayloadByte
  <2> QED BY <2>1 DEF Flag, Marker
<1>3. CASE ~(q < 0 \/ q % F = 0 \/ 1 + q \div F > NFrames)
  <2>1. q \in Nat BY <1>3
  <2>2. PICK n \in Nat, r \in 0..(F - 1) : n = q \div F /\ r = q % F
    BY <2>1, DivModIs
  <2>3. 1 + n \in 1..NFrames /\ r \in 1..FrameLen
    BY <1>1, <1>3, <2>2, LayoutFacts
  <2>4. PayloadByte(q) = Frame[1 + n][r]
    BY <1>1, <1>3, <2>2 DEF PayloadByte
  <2>5. Frame[1 + n][r] = <<"aas", (1 + n) * (FrameLen + 1) + r>> BY <2>3 DEF Frame
  <2> QED BY <2>4, <2>5 DEF Marker
<1> QED BY <1>2, <1>3

(* Where markers are: the last byte of one tells where its block begins.   *)
Aligned(s) == \E b \in Int : s = b * BlockLen

(* A byte of a marker is sent at its place of a block, and nowhere else.   *)
LEMMA MarkerAt ==
  ASSUME NEW s \in Int
  PROVE  /\ \A k \in 1..BBM_LEN : IsAt(Marker(k), s + k - 1) => Aligned(s)
         /\ Aligned(s) => \A k \in 1..BBM_LEN : \A x : IsAt(x, s + k - 1) => x = Marker(k)
<1>1. PICK M \in Nat \ {0}, L \in Nat \ {0} : M = BBM_LEN /\ L = BlockLen /\ M < L
  BY LayoutFacts
<1>2. ASSUME NEW k \in 1..BBM_LEN, IsAt(Marker(k), s + k - 1) PROVE Aligned(s)
  <2>1. k \in Nat /\ s + k - 1 \in Int BY <1>1
  <2>2. PICK b \in Int, j \in 0..(BlockLen - 1) : s + k - 1 = b * BlockLen + j
    BY <2>1, InBlock
  <2>3. Marker(k) = BlockByte(b, j) BY <1>2, <2>2 DEF IsAt
  <2>4. j < BBM_LEN /\ Marker(k) = Marker(j + 1)
    <3>1. PICK q \in Int : q = (b - Idle) * PAYLOAD + j - BBM_LEN
      <4>1. (b - Idle) * PAYLOAD \in Int BY IntProduct, LayoutFacts
      <4> QED BY <1>1, <4>1
    <3>2. PayloadByte(q) # Marker(k) BY <3>1, NoMarker
    <3> QED BY <2>3, <3>1, <3>2 DEF BlockByte
  <2>5. k = j + 1 BY <2>4 DEF Marker
  <2>6. b * BlockLen \in Int BY <1>1, IntProduct
  <2>7. s = b * BlockLen BY <1>1, <2>1, <2>2, <2>5, <2>6
  <2> QED BY <2>7 DEF Aligned
<1>3. ASSUME NEW b \in Int, s = b * BlockLen, NEW k \in 1..BBM_LEN, NEW x, IsAt(x, s + k - 1)
      PROVE  x = Marker(k)
  <2>1. k - 1 \in 0..(BlockLen - 1) /\ k - 1 < BBM_LEN /\ k - 1 + 1 = k BY <1>1
  <2>2. s + k - 1 = b * BlockLen + (k - 1) BY <1>1, <1>3
  <2>3. x = BlockByte(b, k - 1) BY <1>3, <2>1, <2>2 DEF IsAt
  <2> QED BY <2>1, <2>3 DEF BlockByte
<1> QED BY <1>2, <1>3 DEF Aligned

-----------------------------------------------------------------------------
(* What Cut finds of the station's blocks.                                 *)

(* The bytes of a window that begins at place s: those from place q on are *)
(* the station's.                                                          *)
Known(all, s, q) == \A k \in 1..Len(all) : s + k - 1 >= q => IsAt(all[k], s + k - 1)

(* A window that begins at place s will not miss a block that begins Lead  *)
(* bytes after place q or later.                                           *)
Safe(s, q) == Aligned(s) \/ \A b \in Int : b * BlockLen >= q + Lead => s <= b * BlockLen

(* The last m bytes of a payload are those the station sends from d on, so *)
(* many and from such a byte on that they are those of blocks b to c - 1.  *)
LastBytes(t, m, d) ==
  /\ Len(t) >= m
  /\ \A j \in 0..(m - 1) : t[Len(t) - m + 1 + j] = PayloadByte(d + j)
Ends(t, b, c) == LastBytes(t, (c - b) * PAYLOAD, (b - Idle) * PAYLOAD)

(* What Cut finds from the window at place s + k - 1 on: what is left ends *)
(* where the bytes end, and every block that was not missed is in the      *)
(* payload.                                                                *)
Found(all, s, q, k, r) ==
  /\ Len(r.rest) <= Len(all) - k + 1
  /\ \A j \in 1..Len(r.rest) : r.rest[j] = all[Len(all) - Len(r.rest) + j]
  /\ Safe(s + Len(all) - Len(r.rest), q)
  /\ \A b, c \in Int :
       /\ b <= c /\ b * BlockLen >= q
       /\ s + Len(all) - Len(r.rest) = c * BlockLen
       /\ s + k - 1 = b * BlockLen
            \/ (s + k - 1 <= b * BlockLen /\ b * BlockLen >= q + Lead)
       => /\ Ends(r.payload, b, c)
          /\ s + k - 1 = b * BlockLen => Len(r.payload) = (c - b) * PAYLOAD

(* The order of blocks is that of their places.                            *)
LEMMA BlockOrder ==
  ASSUME NEW b \in Int, NEW c \in Int
  PROVE  /\ b * BlockLen \in Int
         /\ b * BlockLen <= c * BlockLen <=> b <= c
         /\ b * BlockLen < c * BlockLen => b + 1 <= c
         /\ (b + 1) * BlockLen = b * BlockLen + BlockLen
<1>1. PICK L \in Nat \ {0} : L = BlockLen BY LayoutFacts
<1>2. /\ b * L \in Int /\ c * L \in Int
      /\ b < c => b * L + L <= c * L
      /\ (b + 1) * L = b * L + L
  BY IntProduct
<1>3. c < b => c * L + L <= b * L BY IntProduct
<1>4. b = c => b * L = c * L OBVIOUS
<1>5. b < c \/ b = c \/ c < b OBVIOUS
<1> QED BY <1>1, <1>2, <1>3, <1>4, <1>5

(* The window is too short: it stays where it is.                          *)
LEMMA StopFound ==
  ASSUME NEW all \in Seq(Bytes), NEW s \in Int, NEW q \in Int,
         NEW k \in 1..(Len(all) + 1), Safe(s + k - 1, q)
  PROVE  Found(all, s, q, k, [rest |-> SubSeq(all, k, Len(all)), payload |-> << >>])
<1>1. PICK N \in Nat : N = Len(all) BY LenProperties
<1>2. k \in Nat \ {0} /\ k <= N + 1 BY <1>1
<1>3. \A m \in k..N : all[m] \in Bytes
  <2>1. \A m \in k..N : m \in 1..Len(all) BY <1>1, <1>2
  <2> QED BY <2>1, ElementOfSeq
<1>4. PICK t : t = SubSeq(all, k, N) OBVIOUS
<1>5. /\ Len(t) = IF k <= N THEN N - k + 1 ELSE 0
      /\ \A j \in 1..(N - k + 1) : t[j] = all[k + j - 1]
  BY <1>1, <1>2, <1>3, <1>4, SubSeqProperties
<1>6. Len(t) = N - k + 1 BY <1>1, <1>2, <1>5
<1>7. PICK r : r = [rest |-> t, payload |-> << >>] OBVIOUS
<1>8. r.rest = t /\ r.payload = << >> BY <1>7
<1>9. \A j \in 1..Len(t) : t[j] = all[N - Len(t) + j]
  <2> TAKE j \in 1..Len(t)
  <2>1. N - Len(t) + j = k + j - 1 BY <1>1, <1>2, <1>6
  <2> QED BY <1>5, <1>6, <2>1
<1>10. s + N - Len(t) = s + k - 1 BY <1>1, <1>2, <1>6
<1>11. ASSUME NEW b \in Int, NEW c \in Int, b <= c, s + k - 1 = c * BlockLen,
              s + k - 1 <= b * BlockLen
       PROVE  Ends(<< >>, b, c) /\ Len(<< >>) = (c - b) * PAYLOAD
  <2>1. b = c BY <1>11, BlockOrder
  <2>2. (c - b) * PAYLOAD = 0 BY <2>1, LayoutFacts
  <2>3. Len(<< >>) = 0 OBVIOUS
  <2>4. \A d : LastBytes(<< >>, 0, d) BY <2>3 DEF LastBytes
  <2> QED BY <2>2, <2>3, <2>4 DEF Ends
<1>12. Safe(s + Len(all) - Len(r.rest), q) BY <1>1, <1>8, <1>10
<1>13. \A b, c \in Int :
       /\ b <= c /\ b * BlockLen >= q
       /\ s + Len(all) - Len(r.rest) = c * BlockLen
       /\ s + k - 1 = b * BlockLen
            \/ (s + k - 1 <= b * BlockLen /\ b * BlockLen >= q + Lead)
       => /\ Ends(r.payload, b, c)
          /\ s + k - 1 = b * BlockLen => Len(r.payload) = (c - b) * PAYLOAD
  <2> TAKE b, c \in Int
  <2> HAVE /\ b <= c /\ b * BlockLen >= q
           /\ s + Len(all) - Len(r.rest) = c * BlockLen
           /\ s + k - 1 = b * BlockLen
                \/ (s + k - 1 <= b * BlockLen /\ b * BlockLen >= q + Lead)
  <2>1. s + k - 1 = c * BlockLen BY <1>1, <1>8, <1>10
  <2>2. s + k - 1 <= b * BlockLen BY <1>2, BlockOrder
  <2> QED BY <1>8, <1>11, <2>1, <2>2
<1>14. Found(all, s, q, k, r)
  <2>1. Len(r.rest) <= Len(all) - k + 1 BY <1>1, <1>2, <1>6, <1>8
  <2>2. \A j \in 1..Len(r.rest) : r.rest[j] = all[Len(all) - Len(r.rest) + j]
    BY <1>1, <1>8, <1>9
  <2> QED BY <1>12, <1>13, <2>1, <2>2, Zenon DEF Found
<1> QED BY <1>1, <1>4, <1>7, <1>14

(* No marker: the window slides by a byte, and misses nothing.             *)
LEMMA SlideFound ==
  ASSUME NEW all \in Seq(Bytes), NEW s \in Int, NEW q \in Int, Known(all, s, q),
         NEW k \in 1..(Len(all) + 1), Safe(s + k - 1, q),
         k + BBM_LEN - 1 <= Len(all), SubSeq(all, k, k + BBM_LEN - 1) # BBM
  PROVE  /\ Safe(s + k, q)
         /\ \A r : Found(all, s, q, k + 1, r) => Found(all, s, q, k, r)
<1>1. PICK N \in Nat, M \in Nat \ {0} : N = Len(all) /\ M = BBM_LEN
  BY LenProperties, LayoutFacts
<1>2. k \in Nat \ {0} /\ k + M - 1 <= N BY <1>1
<1>3. PICK at \in Int : at = s + k - 1 BY <1>2
<1>4. ASSUME Aligned(at), at >= q PROVE FALSE
  <2>1. PICK t : t = SubSeq(all, k, k + M - 1) OBVIOUS
  <2>2. \A m \in k..(k + M - 1) : m \in 1..Len(all) BY <1>1, <1>2
  <2>3. \A m \in k..(k + M - 1) : all[m] \in Bytes BY <2>2, ElementOfSeq
  <2>4. /\ t \in Seq(Bytes) /\ Len(t) = M
        /\ \A j \in 1..M : t[j] = all[k + j - 1]
    <3>1. k \in Int /\ k + M - 1 \in Int /\ k <= k + M - 1 /\ k + M - 1 - k + 1 = M
      BY <1>1, <1>2
    <3>2. /\ t \in Seq(Bytes)
          /\ Len(t) = IF k <= k + M - 1 THEN k + M - 1 - k + 1 ELSE 0
          /\ \A j \in 1..(k + M - 1 - k + 1) : t[j] = all[k + j - 1]
      BY <2>1, <2>3, <3>1, SubSeqProperties
    <3> QED BY <3>1, <3>2
  <2>5. ASSUME NEW j \in 1..M PROVE t[j] = Marker(j)
    <3>1. PICK m : m = k + j - 1 OBVIOUS
    <3>2. m \in 1..Len(all) /\ s + m - 1 >= q /\ s + m - 1 = at + j - 1
      BY <1>1, <1>2, <1>3, <1>4, <3>1
    <3>3. IsAt(all[m], at + j - 1) BY <3>2 DEF Known
    <3>4. all[m] = Marker(j) BY <1>1, <1>4, <3>3, MarkerAt
    <3> QED BY <2>4, <3>1, <3>4
  <2>6. t = BBM
    <3>1. BBM \in [1..M -> {Marker(j) : j \in 1..M}] BY <1>1 DEF BBM
    <3>2. Len(BBM) = M /\ BBM \in Seq({Marker(j) : j \in 1..M}) BY <1>1, <3>1, FcnIsSeq
    <3>3. \A j \in 1..M : BBM[j] = Marker(j) BY <1>1 DEF BBM
    <3>4. t \in Seq(Bytes \cup {Marker(j) : j \in 1..M})
          /\ BBM \in Seq(Bytes \cup {Marker(j) : j \in 1..M})
      BY <2>4, <3>2
    <3>5. \A j \in 1..Len(t) : t[j] = BBM[j] BY <2>4, <2>5, <3>3
    <3> QED BY <2>4, <3>2, <3>4, <3>5, SeqEqual
  <2> QED BY <1>1, <2>1, <2>6
<1>5. Safe(at + 1, q)
  <2>1. Lead \in Nat BY LayoutFacts DEF Lead
  <2> SUFFICES ASSUME NEW b \in Int, b * BlockLen >= q + Lead PROVE at + 1 <= b * BlockLen
    BY DEF Safe
  <2>2. b * BlockLen \in Int BY BlockOrder
  <2>3. CASE Aligned(at)
    <3>1. at < q BY <1>4, <2>3
    <3> QED BY <2>1, <2>2, <3>1
  <2>4. CASE ~Aligned(at)
    <3>1. at <= b * BlockLen BY <1>3, <2>4 DEF Safe
    <3>2. at # b * BlockLen BY <2>4 DEF Aligned
    <3> QED BY <2>2, <3>1, <3>2
  <2> QED BY <2>3, <2>4
<1>6. at + 1 = s + k /\ s + (k + 1) - 1 = s + k BY <1>2, <1>3
<1>7. ASSUME NEW r, Found(all, s, q, k + 1, r) PROVE Found(all, s, q, k, r)
  <2>1. Len(r.rest) <= N - (k + 1) + 1 BY <1>1, <1>7 DEF Found
  <2>2. ASSUME NEW b \in Int, NEW c \in Int, b <= c, b * BlockLen >= q,
               s + Len(all) - Len(r.rest) = c * BlockLen,
               s + k - 1 = b * BlockLen
                 \/ (s + k - 1 <= b * BlockLen /\ b * BlockLen >= q + Lead)
        PROVE  Ends(r.payload, b, c) /\ s + k - 1 # b * BlockLen
    <3>1. at # b * BlockLen
      <4>1. SUFFICES ASSUME at = b * BlockLen PROVE FALSE OBVIOUS
      <4>2. Aligned(at) BY <4>1 DEF Aligned
      <4> QED BY <1>4, <2>2, <4>1, <4>2
    <3>2. b * BlockLen \in Int BY BlockOrder
    <3>3. at <= b * BlockLen /\ b * BlockLen >= q + Lead BY <1>3, <2>2, <3>1
    <3>4. s + (k + 1) - 1 <= b * BlockLen BY <1>3, <1>6, <3>1, <3>2, <3>3
    <3>5. Ends(r.payload, b, c) BY <1>7, <2>2, <3>3, <3>4 DEF Found
    <3> QED BY <1>3, <3>1, <3>5
  <2>3. Len(r.rest) <= Len(all) - k + 1
    BY <1>1, <1>2, <2>1
  <2> QED BY <1>7, <2>2, <2>3 DEF Found
<1> QED BY <1>5, <1>6, <1>7

(* A marker and the whole block: the block is taken, and was sent as one   *)
(* if it lies after place q.                                               *)
LEMMA TakeFound ==
  ASSUME NEW all \in Seq(Bytes), NEW s \in Int, NEW q \in Int, Known(all, s, q),
         NEW k \in 1..(Len(all) + 1), Safe(s + k - 1, q),
         k + BlockLen - 1 <= Len(all), SubSeq(all, k, k + BBM_LEN - 1) = BBM
  PROVE  /\ Safe(s + k + BlockLen - 1, q)
         /\ \A r \in [rest : Seq(Bytes), payload : Seq(Bytes)] :
              Found(all, s, q, k + BlockLen, r) =>
                Found(all, s, q, k,
                  [r EXCEPT !.payload = SubSeq(all, k + BBM_LEN, k + BlockLen - 1) \o @])
<1>1. PICK N \in Nat, M \in Nat \ {0}, L \in Nat \ {0}, P \in Nat \ {0} :
        N = Len(all) /\ M = BBM_LEN /\ L = BlockLen /\ P = PAYLOAD /\ L = M + P
  BY LenProperties, LayoutFacts DEF BlockLen
<1>2. k \in Nat \ {0} /\ k + L - 1 <= N BY <1>1
<1>3. PICK at \in Int : at = s + k - 1 BY <1>2
<1>4. \A m \in k..(k + L - 1) : m \in 1..Len(all) BY <1>1, <1>2
<1>5. ASSUME at + M - 1 >= q PROVE Aligned(at)
  <2>1. PICK m : m = k + M - 1 OBVIOUS
  <2>2. m \in 1..Len(all) /\ s + m - 1 = at + M - 1 BY <1>1, <1>2, <1>3, <1>4, <2>1
  <2>3. IsAt(all[m], at + M - 1) BY <1>5, <2>2 DEF Known
  <2>4. all[m] = Marker(M)
    <3>1. \A j \in k..(k + M - 1) : all[j] \in Bytes
      <4>1. \A j \in k..(k + M - 1) : j \in k..(k + L - 1) BY <1>1, <1>2
      <4> QED BY <1>4, <4>1, ElementOfSeq
    <3>2. k \in Int /\ k + M - 1 \in Int /\ M \in 1..(k + M - 1 - k + 1)
      BY <1>1, <1>2
    <3>3. SubSeq(all, k, k + M - 1)[M] = all[k + M - 1] BY <3>1, <3>2, SubSeqProperties
    <3>4. BBM[M] = Marker(M) BY <1>1 DEF BBM
    <3> QED BY <1>1, <2>1, <3>3, <3>4
  <2>5. M \in 1..BBM_LEN /\ IsAt(Marker(M), at + M - 1) BY <1>1, <2>3, <2>4
  <2> QED BY <2>5, MarkerAt
<1>6. Safe(at + L, q)
  <2>1. CASE Aligned(at)
    <3>1. PICK b \in Int : at = b * BlockLen BY <2>1 DEF Aligned
    <3>2. at + L = (b + 1) * BlockLen BY <1>1, <3>1, BlockOrder
    <3>3. b + 1 \in Int OBVIOUS
    <3> QED BY <3>2, <3>3 DEF Safe, Aligned
  <2>2. CASE ~Aligned(at)
    <3>1. at + M - 1 < q BY <1>1, <1>3, <1>5, <2>2
    <3>2. \A b \in Int : b * BlockLen \in Int BY BlockOrder
    <3>3. \A b \in Int : b * BlockLen >= q + Lead => at + L <= b * BlockLen
      BY <1>1, <1>3, <3>1, <3>2 DEF Lead
    <3> QED BY <3>3 DEF Safe
  <2> QED BY <2>1, <2>2
<1>7. at + L = s + k + L - 1 /\ s + (k + L) - 1 = at + L BY <1>1, <1>2, <1>3
<1>8. PICK t : t = SubSeq(all, k + M, k + L - 1) OBVIOUS
<1>9. /\ t \in Seq(Bytes) /\ Len(t) = P
      /\ \A j \in 1..P : t[j] = all[k + M + j - 1]
  <2>1. \A m \in (k + M)..(k + L - 1) : m \in k..(k + L - 1) BY <1>1, <1>2
  <2>2. \A m \in (k + M)..(k + L - 1) : all[m] \in Bytes BY <1>4, <2>1, ElementOfSeq
  <2>3. /\ k + M \in Int /\ k + L - 1 \in Int /\ k + M <= k + L - 1
        /\ k + L - 1 - (k + M) + 1 = P
    BY <1>1, <1>2
  <2>4. PICK from \in Int, to \in Int : from = k + M /\ to = k + L - 1 BY <2>3
  <2>5. /\ t \in Seq(Bytes)
        /\ Len(t) = IF from <= to THEN to - from + 1 ELSE 0
        /\ \A j \in 1..(to - from + 1) : t[j] = all[from + j - 1]
    BY <1>8, <2>2, <2>4, SubSeqProperties
  <2>6. from <= to /\ to - from + 1 = P BY <2>3, <2>4
  <2> QED BY <2>4, <2>5, <2>6
<1>10. ASSUME NEW b \in Int, at = b * BlockLen, b * BlockLen >= q, NEW j \in 0..(P - 1)
       PROVE  t[1 + j] = PayloadByte((b - Idle) * PAYLOAD + j)
  <2>1. 1 + j \in 1..P /\ k + M + (1 + j) - 1 = k + M + j BY <1>1, <1>2
  <2>2. t[1 + j] = all[k + M + j] BY <1>9, <2>1
  <2>3. PICK m : m = k + M + j OBVIOUS
  <2>4. m \in 1..Len(all) /\ s + m - 1 = at + (M + j) /\ s + m - 1 >= q
    BY <1>1, <1>2, <1>3, <1>4, <1>10, <2>3
  <2>5. IsAt(all[m], at + (M + j)) BY <2>4 DEF Known
  <2>6. M + j \in 0..(BlockLen - 1) /\ ~(M + j < BBM_LEN) BY <1>1
  <2>7. all[m] = BlockByte(b, M + j) BY <1>10, <2>5, <2>6 DEF IsAt
  <2>8. PICK d \in Int : d = (b - Idle) * PAYLOAD BY IntProduct, LayoutFacts
  <2>9. d + (M + j) - BBM_LEN = d + j BY <1>1, <2>8
  <2>10. BlockByte(b, M + j) = PayloadByte(d + (M + j) - BBM_LEN)
    BY <2>6, <2>8 DEF BlockByte
  <2> QED BY <2>2, <2>3, <2>7, <2>8, <2>9, <2>10
<1>11. ASSUME NEW r \in [rest : Seq(Bytes), payload : Seq(Bytes)],
              Found(all, s, q, k + BlockLen, r)
       PROVE  Found(all, s, q, k, [r EXCEPT !.payload = t \o @])
  <2>1. PICK p : p = t \o r.payload OBVIOUS
  <2>2. /\ r.payload \in Seq(Bytes) /\ Len(r.payload) \in Nat
        /\ Len(p) = P + Len(r.payload)
        /\ \A j \in 1..(P + Len(r.payload)) :
             p[j] = IF j <= P THEN t[j] ELSE r.payload[j - P]
    <3>1. r.payload \in Seq(Bytes) OBVIOUS
    <3>2. Len(r.payload) \in Nat BY <3>1, LenProperties
    <3>3. PICK v \in Seq(Bytes) : v = r.payload BY <3>1
    <3>4. p = t \o v BY <2>1, <3>3
    <3>5. /\ Len(p) = Len(t) + Len(v)
          /\ \A j \in 1..(Len(t) + Len(v)) :
               p[j] = IF j <= Len(t) THEN t[j] ELSE v[j - Len(t)]
      BY <1>9, <3>4, ConcatProperties
    <3> QED BY <1>9, <3>1, <3>2, <3>3, <3>5
  <2>3. PICK u : u = [r EXCEPT !.payload = p] OBVIOUS
  <2>4. u.rest = r.rest /\ u.payload = p BY <2>3
  <2>5. Len(r.rest) \in Nat /\ Len(r.rest) <= N - (k + L) + 1
    <3>1. r.rest \in Seq(Bytes) OBVIOUS
    <3>2. Len(r.rest) \in Nat BY <3>1, LenProperties
    <3>3. Len(r.rest) <= Len(all) - (k + BlockLen) + 1 BY <1>11 DEF Found
    <3> QED BY <1>1, <1>2, <3>2, <3>3
  <2>6. PICK z \in Int : z = s + N - Len(r.rest)
    <3>1. s + N - Len(r.rest) \in Int BY <2>5
    <3> QED BY <3>1
  <2>7. z >= at + L BY <1>1, <1>2, <1>3, <2>5, <2>6
  <2>8. ASSUME NEW b \in Int, NEW c \in Int, b <= c, b * BlockLen >= q,
               z = c * BlockLen, at = b * BlockLen
        PROVE  Ends(p, b, c) /\ Len(p) = (c - b) * PAYLOAD
    <3>1. b + 1 \in Int /\ (b + 1) * BlockLen = at + L
      <4>1. (b + 1) * BlockLen = b * BlockLen + BlockLen BY BlockOrder
      <4>2. (b + 1) * BlockLen = at + BlockLen BY <2>8, <4>1, Zenon
      <4> QED BY <1>1, <4>2
    <3>2. b + 1 <= c
      <4>1. PICK e \in Int : e = b + 1 OBVIOUS
      <4>2. e * BlockLen <= c * BlockLen BY <2>7, <2>8, <3>1, <4>1
      <4>3. e <= c BY <4>2, BlockOrder
      <4> QED BY <4>1, <4>3
    <3>3. (b + 1) * BlockLen >= q BY <1>1, <1>3, <2>8, <3>1
    <3>4. s + (k + BlockLen) - 1 = (b + 1) * BlockLen BY <1>1, <1>7, <3>1
    <3>5. s + Len(all) - Len(r.rest) = c * BlockLen BY <1>1, <2>6, <2>8
    <3>6. Ends(r.payload, b + 1, c) /\ Len(r.payload) = (c - (b + 1)) * PAYLOAD
      BY <1>11, <3>1, <3>2, <3>3, <3>4, <3>5 DEF Found
    <3>7. PICK m \in Int, d \in Int :
            m = (c - (b + 1)) * PAYLOAD /\ d = (b - Idle) * PAYLOAD
      BY <1>1, IntProduct, LayoutFacts
    <3>8. (c - b) * PAYLOAD = m + P
      <4>1. PICK e \in Int : e = c - (b + 1) OBVIOUS
      <4>2. e + 1 = c - b BY <4>1
      <4>3. (e + 1) * PAYLOAD = e * PAYLOAD + PAYLOAD BY <4>1, IntProduct, LayoutFacts
      <4> QED BY <1>1, <3>7, <4>1, <4>2, <4>3
    <3>9. ((b + 1) - Idle) * PAYLOAD = d + P
      <4>1. PICK e \in Int : e = b - Idle BY LayoutFacts
      <4>2. e + 1 = (b + 1) - Idle BY <4>1, LayoutFacts
      <4>3. (e + 1) * PAYLOAD = e * PAYLOAD + PAYLOAD BY <4>1, IntProduct, LayoutFacts
      <4> QED BY <1>1, <3>7, <4>1, <4>2, <4>3
    <3>10. m = Len(r.payload) /\ m \in Nat BY <2>2, <3>6, <3>7
    <3>11. Len(p) = m + P BY <1>1, <2>2, <3>10
    <3>12. ASSUME NEW j \in 0..(m + P - 1) PROVE p[1 + j] = PayloadByte(d + j)
      <4>1. CASE j < P
        <5>1. 1 + j \in 1..(P + Len(r.payload)) /\ 1 + j <= P BY <3>10, <4>1
        <5>2. p[1 + j] = t[1 + j] BY <2>2, <5>1
        <5>3. j \in 0..(P - 1) BY <3>10, <4>1
        <5> QED BY <1>10, <2>8, <3>7, <5>2, <5>3
      <4>2. CASE ~(j < P)
        <5>1. PICK i \in 0..(m - 1) : i = j - P BY <3>10, <4>2
        <5>2. 1 + j \in 1..(P + Len(r.payload)) /\ ~(1 + j <= P) /\ 1 + j - P = 1 + i
          BY <1>1, <3>10, <4>2, <5>1
        <5>3. p[1 + j] = r.payload[1 + i] BY <2>2, <5>2
        <5>4. Len(r.payload) - m + 1 + i = 1 + i BY <3>10
        <5>5. r.payload[1 + i] = PayloadByte(d + P + i)
          <6>1. LastBytes(r.payload, m, d + P) BY <3>6, <3>7, <3>9, Zenon DEF Ends
          <6> QED BY <5>4, <6>1 DEF LastBytes
        <5>6. d + P + i = d + j BY <1>1, <3>10, <5>1
        <5> QED BY <5>3, <5>5, <5>6
      <4> QED BY <4>1, <4>2
    <3>13. PICK e \in Nat : e = m + P BY <1>1, <3>10
    <3>14. LastBytes(p, e, d)
      <4>1. Len(p) - e + 1 = 1 /\ Len(p) >= e BY <1>1, <3>10, <3>11, <3>13
      <4>2. \A j \in 0..(e - 1) : p[Len(p) - e + 1 + j] = PayloadByte(d + j)
        <5> TAKE j \in 0..(e - 1)
        <5>1. j \in 0..(m + P - 1) /\ Len(p) - e + 1 + j = 1 + j
          BY <3>11, <3>13
        <5> QED BY <3>12, <5>1
      <4> QED BY <4>1, <4>2 DEF LastBytes
    <3>15. Ends(p, b, c) BY <3>7, <3>8, <3>13, <3>14 DEF Ends
    <3> QED BY <3>8, <3>11, <3>15
  <2>9. ASSUME NEW b \in Int, NEW c \in Int, b <= c, b * BlockLen >= q,
               z = c * BlockLen, at # b * BlockLen, at <= b * BlockLen,
               b * BlockLen >= q + Lead
        PROVE  Ends(p, b, c)
    <3>1. b * BlockLen \in Int /\ at < b * BlockLen
      <4>1. b * BlockLen \in Int BY BlockOrder
      <4> QED BY <2>9, <4>1
    <3>2. at + L <= b * BlockLen
      <4>1. CASE Aligned(at)
        <5>1. PICK a \in Int : at = a * BlockLen BY <4>1 DEF Aligned
        <5>2. a + 1 <= b BY <3>1, <5>1, BlockOrder
        <5>3. PICK e \in Int : e = a + 1 OBVIOUS
        <5>4. e * BlockLen <= b * BlockLen BY <5>2, <5>3, BlockOrder
        <5>5. (a + 1) * BlockLen = a * BlockLen + BlockLen BY BlockOrder
        <5>6. e * BlockLen = at + L BY <1>1, <5>1, <5>3, <5>5
        <5> QED BY <5>4, <5>6
      <4>2. CASE ~Aligned(at)
        <5>1. at + M - 1 < q BY <1>1, <1>3, <1>5, <4>2
        <5> QED BY <1>1, <1>3, <2>9, <3>1, <5>1 DEF Lead
      <4> QED BY <4>1, <4>2
    <3>3. s + (k + BlockLen) - 1 <= b * BlockLen BY <1>1, <1>7, <3>2
    <3>4. s + Len(all) - Len(r.rest) = c * BlockLen BY <1>1, <2>6, <2>9
    <3>5. Ends(r.payload, b, c) BY <1>11, <2>9, <3>3, <3>4 DEF Found
    <3>6. PICK m \in Int, d \in Int : m = (c - b) * PAYLOAD /\ d = (b - Idle) * PAYLOAD
      BY <1>1, IntProduct, LayoutFacts
    <3>7. LastBytes(r.payload, m, d) BY <3>5, <3>6 DEF Ends
    <3>8. Len(r.payload) >= m /\ Len(p) >= m
      <4>1. Len(r.payload) >= m BY <3>7 DEF LastBytes
      <4> QED BY <1>1, <2>2, <4>1
    <3>9. ASSUME NEW j \in 0..(m - 1) PROVE p[Len(p) - m + 1 + j] = PayloadByte(d + j)
      <4>1. PICK i : i = Len(p) - m + 1 + j OBVIOUS
      <4>2. /\ i \in 1..(P + Len(r.payload)) /\ ~(i <= P)
            /\ i - P = Len(r.payload) - m + 1 + j
        BY <1>1, <2>2, <3>8, <4>1
      <4>3. p[i] = r.payload[Len(r.payload) - m + 1 + j] BY <2>2, <4>2
      <4> QED BY <3>7, <4>1, <4>3 DEF LastBytes
    <3>10. LastBytes(p, m, d) BY <3>8, <3>9 DEF LastBytes
    <3> QED BY <3>6, <3>10 DEF Ends
  <2>10. Len(u.rest) <= Len(all) - k + 1 BY <1>1, <1>2, <2>4, <2>5
  <2>11. ASSUME NEW b \in Int, NEW c \in Int, b <= c, b * BlockLen >= q,
                s + Len(all) - Len(u.rest) = c * BlockLen,
                s + k - 1 = b * BlockLen
                  \/ (s + k - 1 <= b * BlockLen /\ b * BlockLen >= q + Lead)
         PROVE  /\ Ends(u.payload, b, c)
                /\ s + k - 1 = b * BlockLen => Len(u.payload) = (c - b) * PAYLOAD
    <3>1. z = c * BlockLen BY <1>1, <2>4, <2>6, <2>11
    <3>2. CASE at = b * BlockLen BY <2>4, <2>8, <2>11, <3>1, <3>2
    <3>3. CASE at # b * BlockLen BY <1>3, <2>4, <2>9, <2>11, <3>1, <3>3
    <3> QED BY <3>2, <3>3
  <2>12. /\ \A j \in 1..Len(u.rest) : u.rest[j] = all[Len(all) - Len(u.rest) + j]
         /\ Safe(s + Len(all) - Len(u.rest), q)
    BY <1>11, <2>4 DEF Found
  <2>13. Found(all, s, q, k, u) BY <2>10, <2>11, <2>12 DEF Found
  <2> QED BY <2>1, <2>3, <2>13
<1>12. Safe(s + k + BlockLen - 1, q) BY <1>1, <1>6, <1>7
<1> QED BY <1>1, <1>8, <1>11, <1>12

(* What Cut finds in the whole window.                                     *)
LEMMA CutFound ==
  ASSUME NEW all \in Seq(Bytes), NEW s \in Int, NEW q \in Int, Known(all, s, q), Safe(s, q)
  PROVE  Found(all, s, q, 1, Cut(all))
<1>1. PICK cut : /\ Cut(all) = cut[1]
                 /\ \A k \in 1..(Len(all) + 1) :
                      cut[k] \in Cuts(all, k) /\ cut[k] = CutAt(all, cut, k)
  BY CutFrom
<1>2. PICK N \in Nat : N = Len(all) + 1 BY LenProperties
<1> DEFINE Fails(k) == Safe(s + k - 1, q) /\ ~ Found(all, s, q, k, cut[k])
           bad == {m \in 0..(N - 1) : Fails(N - m)}
<1>3. ASSUME NEW k \in 1..N, Safe(s + k - 1, q), \A j \in (k + 1)..N : ~ Fails(j)
      PROVE  Found(all, s, q, k, cut[k])
  <2>1. /\ k \in 1..(Len(all) + 1) /\ k \in Nat /\ Len(all) \in Nat
        /\ BlockLen \in Nat \ {0} /\ BBM_LEN \in Nat
    BY <1>2, LayoutFacts
  <2>2. PICK stop : stop = [rest |-> SubSeq(all, k, Len(all)), payload |-> << >>] OBVIOUS
  <2>3. Found(all, s, q, k, stop) BY <1>3, <2>1, <2>2, StopFound
  <2>4. cut[k] = CutAt(all, cut, k) BY <1>1, <2>1
  <2>5. CASE k + BBM_LEN - 1 > Len(all)
    <3>1. ~(k + BBM_LEN - 1 <= Len(all)) BY <2>1, <2>5
    <3>2. cut[k] = stop BY <2>2, <2>4, <2>5, <3>1, Zenon DEF CutAt
    <3> QED BY <2>3, <3>2
  <2>6. CASE ~(k + BBM_LEN - 1 > Len(all)) /\ SubSeq(all, k, k + BBM_LEN - 1) # BBM
    <3>1. k + BBM_LEN - 1 <= Len(all) BY <2>1, <2>6
    <3>2. cut[k] = cut[k + 1] BY <2>4, <2>6, <3>1, Zenon DEF CutAt
    <3>3. k + 1 \in (k + 1)..N BY <1>2, <2>1, <3>1, LayoutFacts
    <3>4. /\ Safe(s + k, q)
          /\ Found(all, s, q, k + 1, cut[k + 1]) => Found(all, s, q, k, cut[k + 1])
      BY <1>3, <2>1, <2>6, <3>1, SlideFound
    <3>5. s + (k + 1) - 1 = s + k BY <2>1
    <3>6. ~ Fails(k + 1) BY <1>3, <3>3
    <3>7. Safe(s + (k + 1) - 1, q) BY <3>4, <3>5
    <3> QED BY <3>2, <3>4, <3>6, <3>7
  <2>7. CASE ~(k + BBM_LEN - 1 > Len(all)) /\ SubSeq(all, k, k + BBM_LEN - 1) = BBM
    <3>1. CASE k + BlockLen - 1 > Len(all)
      <4>1. cut[k] = stop BY <2>2, <2>4, <2>7, <3>1, Zenon DEF CutAt
      <4> QED BY <2>3, <4>1
    <3>2. CASE ~(k + BlockLen - 1 > Len(all))
      <4>1. k + BlockLen - 1 <= Len(all) BY <2>1, <3>2
      <4>2. PICK j : j = k + BlockLen OBVIOUS
      <4>3. j \in (k + 1)..N /\ j \in 1..(Len(all) + 1) /\ s + j - 1 = s + k + BlockLen - 1
        BY <1>2, <2>1, <4>1, <4>2
      <4>4. PICK r : r = cut[j] OBVIOUS
      <4>5. r \in [rest : Seq(Bytes), payload : Seq(Bytes)] BY <1>1, <4>3, <4>4 DEF Cuts
      <4>6. cut[k] = [r EXCEPT !.payload = SubSeq(all, k + BBM_LEN, k + BlockLen - 1) \o @]
        BY <2>4, <2>7, <3>2, <4>2, <4>4, Zenon DEF CutAt
      <4>7. /\ Safe(s + k + BlockLen - 1, q)
            /\ Found(all, s, q, j, r) => Found(all, s, q, k, cut[k])
        <5>1. Safe(s + k + BlockLen - 1, q) BY <1>3, <2>1, <2>7, <4>1, TakeFound
        <5>2. Found(all, s, q, k + BlockLen, r) =>
                Found(all, s, q, k,
                  [r EXCEPT !.payload = SubSeq(all, k + BBM_LEN, k + BlockLen - 1) \o @])
          BY <1>3, <2>1, <2>7, <4>1, <4>5, TakeFound
        <5> QED BY <4>2, <4>6, <5>1, <5>2, Zenon
      <4>8. ~ Fails(j) BY <1>3, <4>3
      <4>9. Safe(s + j - 1, q) BY <4>3, <4>7
      <4> QED BY <4>4, <4>7, <4>8, <4>9
    <3> QED BY <3>1, <3>2
  <2> QED BY <2>5, <2>6, <2>7
<1> HIDE DEF Fails
<1>4. bad = {}
  <2> SUFFICES ASSUME bad # {} PROVE FALSE OBVIOUS
  <2>1. bad \in SUBSET Nat OBVIOUS
  <2>2. PICK m \in bad : \A k \in bad : m <= k BY <2>1, LeastNat
  <2>3. m \in 0..(N - 1) /\ N - m \in 1..N /\ Fails(N - m) BY <2>2
  <2>4. ASSUME NEW j \in ((N - m) + 1)..N PROVE ~ Fails(j)
    <3>1. N - j \in 0..(N - 1) /\ ~(m <= N - j) /\ N - (N - j) = j BY <2>3
    <3>2. N - j \notin bad BY <2>2, <3>1
    <3> QED BY <3>1, <3>2
  <2>5. PICK k \in 1..N : k = N - m BY <2>3
  <2>6. Fails(k) /\ \A j \in (k + 1)..N : ~ Fails(j) BY <2>3, <2>4, <2>5
  <2> QED BY <1>3, <2>6 DEF Fails
<1>5. ~ Fails(1)
  <2>1. N - 1 \in 0..(N - 1) /\ N - (N - 1) = 1 BY <1>2, LenProperties
  <2> QED BY <1>4, <2>1
<1>6. s + 1 - 1 = s OBVIOUS
<1> QED BY <1>1, <1>5, <1>6 DEF Fails

-----------------------------------------------------------------------------
(* What parse_hdlc finds of the station's frames.                          *)

(* The payload bytes of frame n: the flag before it, its bytes, and the    *)
(* flag that ends it, which is that before the next.                       *)
Begin(n) == (n - 1) * (FrameLen + 1)

(* They are these.                                                         *)
LEMMA FrameIs ==
  ASSUME NEW n \in 1..NFrames
  PROVE  /\ Begin(n) \in Nat
         /\ PayloadByte(Begin(n)) = Flag /\ PayloadByte(Begin(n) + FrameLen + 1) = Flag
         /\ \A k \in 1..FrameLen : PayloadByte(Begin(n) + k) = Frame[n][k]
<1>1. PICK F \in Nat \ {0} : F = FrameLen + 1 BY LayoutFacts
<1>2. PICK m \in Nat : n = m + 1
  <2>1. n - 1 \in Nat /\ n = (n - 1) + 1 BY LayoutFacts
  <2> QED BY <2>1
<1>3. PICK q \in Nat : q = m * F BY ProductNat
<1>4. Begin(n) = q BY <1>1, <1>2, <1>3 DEF Begin
<1>5. q % F = 0
  <2>1. q = F * m + 0 BY <1>3
  <2>2. 0 \in 0..(F - 1) OBVIOUS
  <2> QED BY <2>1, <2>2, ModUnique
<1>6. (q + F) % F = 0
  <2>1. (m + 1) * F = q + F BY <1>3, ProductStep
  <2>2. q + F = F * (m + 1) + 0 BY <2>1
  <2>3. 0 \in 0..(F - 1) /\ m + 1 \in Nat OBVIOUS
  <2> QED BY <2>2, <2>3, ModUnique
<1>7. PayloadByte(q) = Flag BY <1>1, <1>5 DEF PayloadByte
<1>8. PayloadByte(q + F) = Flag BY <1>1, <1>6 DEF PayloadByte
<1>9. ASSUME NEW k \in 1..FrameLen PROVE PayloadByte(q + k) = Frame[n][k]
  <2>1. k \in 0..(F - 1) /\ k # 0 /\ q + k \in Nat BY <1>1, LayoutFacts
  <2>2. q + k = F * m + k BY <1>3
  <2>3. (q + k) % F = k BY <2>1, <2>2, ModUnique
  <2>4. (q + k) \div F = m
    <3>1. PICK a \in Nat, b \in 0..(F - 1) :
            a = (q + k) \div F /\ b = (q + k) % F /\ q + k = F * a + b
      BY <2>1, DivModIs
    <3>2. b = k /\ F * a = F * m BY <2>2, <2>3, <3>1
    <3>3. a * F = m * F BY <3>2
    <3>4. ~(a < m) /\ ~(m < a)
      <4>1. a < m => a * F + F <= m * F BY ProductLess
      <4>2. m < a => m * F + F <= a * F BY ProductLess
      <4>3. a * F \in Nat /\ m * F \in Nat BY ProductNat
      <4> QED BY <3>3, <4>1, <4>2, <4>3
    <3> QED BY <3>1, <3>4
  <2>5. 1 + m = n /\ ~(1 + m > NFrames) BY <1>2, LayoutFacts
  <2>6. ~(q + k < 0) BY <2>1
  <2> QED BY <1>1, <2>1, <2>3, <2>4, <2>5, <2>6 DEF PayloadByte
<1>10. q + F = q + FrameLen + 1 BY <1>1, LayoutFacts
<1> QED BY <1>4, <1>7, <1>8, <1>9, <1>10

(* The flag before frame n, and what of it came after: the last l bytes.   *)
Piece(n, l) == [k \in 1..l |-> PayloadByte(Begin(n) + k - 1)]

(* A piece grows by a byte, from a flag to the whole frame.                *)
LEMMA PieceIs ==
  ASSUME NEW n \in 1..NFrames
  PROVE  /\ Piece(n, 1) = <<Flag>>
         /\ \A l \in 1..(FrameLen + 1) :
              Len(Piece(n, l)) = l /\ Piece(n, l) \in Seq({PayloadByte(x) : x \in Int})
         /\ \A l \in 1..FrameLen :
              Append(Piece(n, l), PayloadByte(Begin(n) + l)) = Piece(n, l + 1)
         /\ Whole(Piece(n, FrameLen + 1), n)
<1>1. PICK B : B = {PayloadByte(x) : x \in Int} OBVIOUS
<1>2. Begin(n) \in Nat /\ FrameLen \in Nat \ {0} BY FrameIs, LayoutFacts
<1>3. ASSUME NEW l \in 1..(FrameLen + 1)
      PROVE  /\ Piece(n, l) \in Seq(B) /\ Len(Piece(n, l)) = l
             /\ \A k \in 1..l : Piece(n, l)[k] = PayloadByte(Begin(n) + k - 1)
  <2>1. l \in Nat /\ \A k \in 1..l : Begin(n) + k - 1 \in Int BY <1>2
  <2>2. Piece(n, l) \in [1..l -> B] BY <1>1, <2>1 DEF Piece
  <2>3. \A k \in 1..l : Piece(n, l)[k] = PayloadByte(Begin(n) + k - 1) BY DEF Piece
  <2> QED BY <2>1, <2>2, <2>3, FcnIsSeq
<1>4. Piece(n, 1) = <<Flag>>
  <2>1. 1 \in 1..(FrameLen + 1) /\ 1 \in 1..1 /\ Begin(n) + 1 - 1 = Begin(n) BY <1>2
  <2>2. Piece(n, 1)[1] = Flag BY <1>3, <2>1, FrameIs
  <2>3. PICK t : t = <<Flag>> OBVIOUS
  <2>4. Flag \in B BY <1>1, <1>2, FrameIs
  <2>5. t \in Seq(B) /\ Len(t) = 1 /\ t[1] = Flag BY <2>3, <2>4
  <2>6. \A k \in 1..1 : k = 1 OBVIOUS
  <2>7. Piece(n, 1) \in Seq(B) /\ Len(Piece(n, 1)) = 1 BY <1>3, <2>1
  <2>8. \A k \in 1..Len(t) : Piece(n, 1)[k] = t[k] BY <2>2, <2>5, <2>6
  <2>9. Piece(n, 1) = t BY <2>5, <2>7, <2>8, SeqEqual
  <2> QED BY <2>3, <2>9
<1>5. ASSUME NEW l \in 1..FrameLen
      PROVE  Append(Piece(n, l), PayloadByte(Begin(n) + l)) = Piece(n, l + 1)
  <2>1. l \in 1..(FrameLen + 1) /\ l + 1 \in 1..(FrameLen + 1) /\ Begin(n) + l \in Int
    BY <1>2
  <2>2. PICK s \in Seq(B), t \in Seq(B), x \in B :
          s = Piece(n, l) /\ t = Piece(n, l + 1) /\ x = PayloadByte(Begin(n) + l)
    BY <1>1, <1>3, <2>1
  <2>3. Len(s) = l /\ Len(t) = l + 1 BY <1>3, <2>1, <2>2
  <2>4. PICK u : u = Append(s, x) OBVIOUS
  <2>5. /\ u \in Seq(B) /\ Len(u) = l + 1
        /\ \A k \in 1..l : u[k] = s[k]
        /\ u[l + 1] = x
    BY <2>2, <2>3, <2>4, AppendProperties
  <2>6. ASSUME NEW k \in 1..(l + 1) PROVE u[k] = t[k]
    <3>1. t[k] = PayloadByte(Begin(n) + k - 1) BY <1>3, <2>1, <2>2
    <3>2. CASE k = l + 1
      <4>1. Begin(n) + k - 1 = Begin(n) + l BY <1>2, <3>2
      <4> QED BY <2>2, <2>5, <3>1, <3>2, <4>1
    <3>3. CASE k # l + 1
      <4>1. k \in 1..l BY <3>3
      <4>2. s[k] = PayloadByte(Begin(n) + k - 1) BY <1>3, <2>1, <2>2, <4>1
      <4> QED BY <2>5, <3>1, <4>1, <4>2
    <3> QED BY <3>2, <3>3
  <2>7. u = t BY <2>2, <2>3, <2>5, <2>6, SeqEqual
  <2> QED BY <2>2, <2>4, <2>7
<1>6. Whole(Piece(n, FrameLen + 1), n)
  <2>1. PICK f : f = Frame[n] OBVIOUS
  <2>2. \A k \in 1..FrameLen : f[k] = PayloadByte(Begin(n) + k) /\ Begin(n) + k \in Int
    BY <1>2, <2>1, FrameIs
  <2>3. f \in [1..FrameLen -> B]
    <3>1. f = [k \in 1..FrameLen |-> f[k]] BY <2>1 DEF Frame
    <3> QED BY <1>1, <2>2, <3>1
  <2>4. f \in Seq(B) /\ Len(f) = FrameLen BY <1>2, <2>3, FcnIsSeq
  <2>5. PICK g : g = <<Flag>> OBVIOUS
  <2>6. Flag \in B BY <1>1, <1>2, FrameIs
  <2>7. g \in Seq(B) /\ Len(g) = 1 /\ g[1] = Flag BY <2>5, <2>6
  <2>8. PICK u : u = g \o f OBVIOUS
  <2>9. /\ u \in Seq(B) /\ Len(u) = 1 + FrameLen
        /\ \A k \in 1..(1 + FrameLen) : u[k] = IF k <= 1 THEN g[k] ELSE f[k - 1]
    <3>1. /\ u \in Seq(B) /\ Len(u) = Len(g) + Len(f)
          /\ \A k \in 1..(Len(g) + Len(f)) :
               u[k] = IF k <= Len(g) THEN g[k] ELSE f[k - Len(g)]
      BY <2>4, <2>7, <2>8, ConcatProperties
    <3> QED BY <2>4, <2>7, <3>1
  <2>10. PICK l \in Nat : l = FrameLen + 1 BY <1>2
  <2>11. PICK s : s = Piece(n, l) OBVIOUS
  <2>12. /\ s \in Seq(B) /\ Len(s) = l
         /\ \A k \in 1..l : s[k] = PayloadByte(Begin(n) + k - 1)
    <3>1. l \in 1..(FrameLen + 1) BY <1>2, <2>10
    <3> QED BY <1>3, <2>11, <3>1
  <2>13. ASSUME NEW k \in 1..l PROVE s[k] = u[k]
    <3>1. k \in 1..(1 + FrameLen) BY <1>2, <2>10
    <3>2. CASE k = 1
      <4>1. Begin(n) + 1 - 1 = Begin(n) /\ k <= 1 BY <1>2, <3>2
      <4> QED BY <2>7, <2>9, <2>12, <3>1, <3>2, <4>1, FrameIs
    <3>3. CASE k # 1
      <4>1. ~(k <= 1) /\ k - 1 \in 1..FrameLen BY <1>2, <2>10, <3>3
      <4>2. u[k] = PayloadByte(Begin(n) + (k - 1)) BY <2>2, <2>9, <3>1, <4>1
      <4>3. Begin(n) + (k - 1) = Begin(n) + k - 1 BY <1>2
      <4> QED BY <2>12, <4>2, <4>3
    <3> QED BY <3>2, <3>3
  <2>14. s = u BY <1>2, <2>9, <2>10, <2>12, <2>13, SeqEqual
  <2> QED BY <2>1, <2>5, <2>8, <2>10, <2>11, <2>14 DEF Whole
<1> QED BY <1>1, <1>3, <1>4, <1>5, <1>6

(* What parse_hdlc has read of frame n when it has read the payload up to  *)
(* byte q, from byte d on: what followed the flag before the frame, or,    *)
(* with the flag that ends it, the frame.                                  *)
Reading(n, d, q, r) ==
  /\ Begin(n) < q /\ q <= Begin(n) + FrameLen + 1 => r.rest = Piece(n, q - Begin(n))
  /\ d <= Begin(n) + FrameLen + 1 /\ Begin(n) + FrameLen + 1 < q =>
       \E j \in 1..Len(r.out) : Whole(r.out[j], n)

(* A byte of the payload more.                                             *)
LEMMA PieceByte ==
  ASSUME NEW n \in 1..NFrames, NEW d \in Int, NEW q \in Int, d <= q,
         NEW r \in Reads(MAX_AAS_LEN), Reading(n, d, q, r)
  PROVE  Reading(n, d, q + 1, HdlcByte(r, PayloadByte(q), MAX_AAS_LEN))
<1>1. PICK b \in Nat, l \in Nat \ {0}, size \in Nat :
        b = Begin(n) /\ l = FrameLen /\ size = MAX_AAS_LEN /\ l <= size
  BY FrameIs, LayoutFacts, LayoutAssumption
<1>2. PICK s : s = HdlcByte(r, PayloadByte(q), size) OBVIOUS
<1>3. r.rest \in Seq(Bytes) /\ r.out \in Seq(Seq(Bytes)) /\ Len(r.out) \in Nat
  <2>1. r.rest \in Seq(Bytes) /\ r.out \in Seq(Seq(Bytes)) BY DEF Reads
  <2> QED BY <2>1, LenProperties
<1>4. /\ PayloadByte(q) = Flag => s.rest = <<Flag>>
      /\ PayloadByte(q) = Flag /\ r.rest = << >> => s.out = r.out
      /\ PayloadByte(q) = Flag /\ r.rest # << >> => s.out = Append(r.out, r.rest)
  BY <1>2 DEF HdlcByte
<1>5. PayloadByte(q) # Flag =>
        /\ s.out = r.out
        /\ s.rest = IF r.rest # << >> /\ Len(r.rest) <= size
                    THEN Append(r.rest, PayloadByte(q)) ELSE << >>
  BY <1>2 DEF HdlcByte, Reads
<1>6. \A k \in 1..(l + 1) : Len(Piece(n, k)) = k /\ Piece(n, k) # << >>
  <2> TAKE k \in 1..(l + 1)
  <2>1. Len(Piece(n, k)) = k BY <1>1, PieceIs
  <2>2. Len(<< >>) = 0 OBVIOUS
  <2> QED BY <2>1, <2>2
<1>7. CASE q < b BY <1>1, <1>2, <1>7 DEF Reading
<1>8. CASE q = b
  <2>1. s.rest = Piece(n, 1) BY <1>1, <1>4, <1>8, FrameIs, PieceIs
  <2>2. q + 1 - b = 1 /\ ~(b + l + 1 < q + 1) BY <1>1, <1>8
  <2>3. Reading(n, d, q + 1, s) BY <1>1, <2>1, <2>2 DEF Reading
  <2> QED BY <1>1, <1>2, <2>3
<1>9. CASE b < q /\ q < b + l + 1
  <2>1. PICK k \in 1..l : k = q - b /\ q = b + k BY <1>1, <1>9
  <2>2. PayloadByte(q) # Flag
    <3>1. PayloadByte(q) = Frame[n][k] BY <1>1, <2>1, FrameIs
    <3>2. Frame[n][k] = <<"aas", n * (FrameLen + 1) + k>> BY <1>1, <2>1 DEF Frame
    <3> QED BY <3>1, <3>2 DEF Flag
  <2>3. r.rest = Piece(n, k)
    <3>1. q <= b + l + 1 BY <1>1, <1>9
    <3> QED BY <1>1, <1>9, <2>1, <3>1 DEF Reading
  <2>4. r.rest # << >> /\ Len(r.rest) <= size
    <3>1. k \in 1..(l + 1) BY <1>1
    <3> QED BY <1>1, <1>6, <2>3, <3>1
  <2>5. s.rest = Append(Piece(n, k), PayloadByte(b + k)) BY <1>5, <2>1, <2>2, <2>3, <2>4
  <2>6. s.rest = Piece(n, k + 1) BY <1>1, <2>5, PieceIs
  <2>7. q + 1 - b = k + 1 /\ ~(b + l + 1 < q + 1) BY <1>1, <1>9, <2>1
  <2>8. Reading(n, d, q + 1, s) BY <1>1, <2>6, <2>7 DEF Reading
  <2> QED BY <1>1, <1>2, <2>8
<1>10. CASE q = b + l + 1
  <2>1. PayloadByte(q) = Flag BY <1>1, <1>10, FrameIs
  <2>2. r.rest = Piece(n, l + 1)
    <3>1. b < q /\ q <= b + l + 1 /\ q - b = l + 1 BY <1>1, <1>10
    <3> QED BY <1>1, <3>1 DEF Reading
  <2>3. Whole(r.rest, n) BY <1>1, <2>2, PieceIs
  <2>4. r.rest # << >>
    <3>1. l + 1 \in 1..(l + 1) BY <1>1
    <3> QED BY <1>6, <2>2, <3>1
  <2>5. s.out = Append(r.out, r.rest) BY <1>4, <2>1, <2>4
  <2>6. Len(s.out) = Len(r.out) + 1 /\ s.out[Len(r.out) + 1] = r.rest
    BY <1>3, <2>5, AppendProperties
  <2>7. \E j \in 1..Len(s.out) : Whole(s.out[j], n)
    <3>1. Len(r.out) + 1 \in 1..Len(s.out) BY <1>3, <2>6
    <3> QED BY <2>3, <2>6, <3>1
  <2>8. ~(q + 1 <= b + l + 1) BY <1>1, <1>10
  <2>9. Reading(n, d, q + 1, s) BY <1>1, <2>7, <2>8 DEF Reading
  <2> QED BY <1>1, <1>2, <2>9
<1>11. CASE b + l + 1 < q
  <2>1. ASSUME d <= b + l + 1 PROVE \E j \in 1..Len(s.out) : Whole(s.out[j], n)
    <3>1. PICK j \in 1..Len(r.out) : Whole(r.out[j], n) BY <1>1, <1>11, <2>1 DEF Reading
    <3>2. CASE s.out = r.out BY <3>1, <3>2
    <3>3. CASE s.out = Append(r.out, r.rest)
      <4>1. Len(s.out) = Len(r.out) + 1 /\ s.out[j] = r.out[j]
        BY <1>3, <3>3, AppendProperties
      <4>2. j \in 1..Len(s.out) BY <1>3, <4>1
      <4> QED BY <3>1, <4>1, <4>2
    <3> QED BY <1>4, <1>5, <3>2, <3>3
  <2>2. ~(q + 1 <= b + l + 1) BY <1>1, <1>11
  <2>3. Reading(n, d, q + 1, s) BY <1>1, <2>1, <2>2 DEF Reading
  <2> QED BY <1>1, <1>2, <2>3
<1> QED BY <1>1, <1>7, <1>8, <1>9, <1>10, <1>11

(* A whole call of parse_hdlc whose last m bytes are the payload from d    *)
(* on: they hold the flag before frame n, or they are all it reads and it  *)
(* had the frame up to byte d.                                             *)
LEMMA FrameReads ==
  ASSUME NEW n \in 1..NFrames, NEW h \in Seq(Bytes), NEW bytes \in Seq(Bytes),
         Len(h) <= MAX_AAS_LEN + 1, NEW m \in Nat, NEW d \in Int, LastBytes(bytes, m, d),
         \/ d <= Begin(n)
         \/ /\ m = Len(bytes)
            /\ d <= Begin(n) + FrameLen + 1 => h = Piece(n, d - Begin(n))
  PROVE  Reading(n, d, d + m, parse_hdlc(h, bytes, MAX_AAS_LEN))
<1>1. PICK read \in [0..Len(bytes) -> Reads(MAX_AAS_LEN)] :
        /\ read[0] = [rest |-> h, out |-> << >>]
        /\ \A k \in 1..Len(bytes) : read[k] = HdlcByte(read[k - 1], bytes[k], MAX_AAS_LEN)
        /\ parse_hdlc(h, bytes, MAX_AAS_LEN) = read[Len(bytes)]
  BY ReadIs, LayoutFacts
<1>2. PICK N \in Nat : N = Len(bytes) /\ m <= N
  <2>1. Len(bytes) \in Nat /\ Len(bytes) >= m BY LenProperties DEF LastBytes
  <2> QED BY <2>1
<1>3. PICK b \in Nat, l \in Nat : b = Begin(n) /\ l = FrameLen BY FrameIs, LayoutFacts
<1> DEFINE Right(j) == Reading(n, d, d + j, read[N - m + j])
           fails == {j \in 0..m : ~ Right(j)}
<1>4. Right(0)
  <2>1. N - m + 0 \in 0..N /\ d + 0 = d BY <1>2
  <2>2. CASE d <= b BY <1>3, <2>1, <2>2 DEF Reading
  <2>3. CASE ~(d <= b)
    <3>1. m = N /\ (d <= b + l + 1 => h = Piece(n, d - b)) BY <1>2, <1>3, <2>3
    <3>2. N - m + 0 = 0 BY <1>2, <3>1
    <3>3. read[0].rest = h BY <1>1
    <3> QED BY <1>3, <2>1, <3>1, <3>2, <3>3 DEF Reading
  <2> QED BY <2>2, <2>3
<1>5. fails = {}
  <2> SUFFICES ASSUME fails # {} PROVE FALSE OBVIOUS
  <2>1. fails \in SUBSET Nat OBVIOUS
  <2>2. PICK j \in fails : \A k \in fails : j <= k BY <2>1, LeastNat
  <2>3. j \in 1..m /\ ~ Right(j)
    <3>1. j # 0 BY <1>4, <2>2
    <3> QED BY <2>2, <3>1
  <2>4. PICK i \in Nat : i = j - 1 /\ i \in 0..m /\ ~(j <= i) /\ j = i + 1 BY <2>3
  <2>5. Right(i) BY <2>2, <2>4
  <2>6. PICK k \in 1..N : k = N - m + j /\ k - 1 = N - m + i BY <1>2, <2>3, <2>4
  <2>7. k - 1 \in 0..N /\ k \in 1..Len(bytes) BY <1>2
  <2>8. PICK r \in Reads(MAX_AAS_LEN) : r = read[k - 1] BY <1>2, <2>7
  <2>9. read[k] = HdlcByte(r, bytes[k], MAX_AAS_LEN) BY <1>1, <2>7, <2>8
  <2>10. bytes[k] = PayloadByte(d + i)
    <3>1. i \in 0..(m - 1) /\ Len(bytes) - m + 1 + i = k BY <1>2, <2>3, <2>4, <2>6
    <3> QED BY <3>1 DEF LastBytes
  <2>11. PICK q \in Int : q = d + i /\ q + 1 = d + j /\ d <= q BY <2>4
  <2>12. Reading(n, d, q, r) BY <2>5, <2>6, <2>8, <2>11
  <2>13. Reading(n, d, q + 1, read[k]) BY <2>9, <2>10, <2>11, <2>12, PieceByte
  <2> QED BY <2>3, <2>6, <2>11, <2>13
<1>6. Right(m)
  <2>1. m \in 0..m OBVIOUS
  <2> QED BY <1>5, <2>1
<1>7. N - m + m = N BY <1>2
<1> QED BY <1>1, <1>2, <1>6, <1>7

-----------------------------------------------------------------------------
(* The blocks of a frame.                                                  *)

(* The first payload byte of block b.                                      *)
Paid(b) == (b - Idle) * PAYLOAD

(* Blocks follow one another.                                              *)
LEMMA PaidIs ==
  ASSUME NEW b \in Int, NEW c \in Int
  PROVE  /\ Paid(b) \in Int
         /\ b < c => Paid(b) + PAYLOAD <= Paid(c)
         /\ b <= c => (c - b) * PAYLOAD \in Nat
         /\ (c - b) * PAYLOAD = Paid(c) - Paid(b)
<1>1. PICK P \in Nat \ {0}, i \in Int : P = PAYLOAD /\ i = Idle BY LayoutFacts
<1>2. PICK x \in Int, y \in Int : x = b - i /\ y = c - i OBVIOUS
<1>3. x * P \in Int /\ (x < y => x * P + P <= y * P) /\ (y - x) * P = y * P - x * P
  BY IntProduct
<1>4. Paid(b) = x * P /\ Paid(c) = y * P BY <1>1, <1>2 DEF Paid
<1>5. c - b = y - x /\ (b < c => x < y) BY <1>2
<1>6. ASSUME b <= c PROVE (c - b) * P \in Nat
  <2>1. PICK z \in Nat : z = c - b
    <3>1. c - b \in Nat BY <1>6
    <3> QED BY <3>1
  <2>2. z * P \in Nat BY ProductNat
  <2> QED BY <2>1, <2>2
<1>7. (c - b) * PAYLOAD = y * P - x * P BY <1>1, <1>3, <1>5
<1> QED BY <1>1, <1>3, <1>4, <1>5, <1>6, <1>7

(* The first and the last block of a frame, by number.                     *)
LEMMA FrameBlocks ==
  ASSUME NEW n \in 1..NFrames
  PROVE  \E f, l \in Int :
           /\ FirstBlock(n) = f * BlockLen /\ Complete(n) = (l + 1) * BlockLen
           /\ Paid(f) <= Begin(n) /\ Begin(n) < Paid(f) + PAYLOAD
           /\ Paid(l) <= Begin(n) + FrameLen + 1
           /\ Begin(n) + FrameLen + 1 < Paid(l) + PAYLOAD
           /\ f <= l
<1>1. PICK P \in Nat \ {0}, L \in Nat \ {0}, M \in Nat \ {0}, F \in Nat \ {0}, i \in Nat :
        /\ P = PAYLOAD /\ L = BlockLen /\ M = BBM_LEN /\ F = FrameLen + 1 /\ i = Idle
        /\ L = M + P
  BY LayoutFacts DEF BlockLen
<1>2. PICK m \in Nat : n = m + 1
  <2>1. n - 1 \in Nat /\ n = (n - 1) + 1 BY LayoutFacts
  <2> QED BY <2>1
<1>3. PICK q \in Nat, e \in Nat : q = m * F /\ e = q + F /\ e = n * F
  <2>1. m * F \in Nat /\ (m + 1) * F = m * F + F BY ProductStep
  <2> QED BY <1>2, <2>1
<1>4. Begin(n) = q /\ Begin(n) + FrameLen + 1 = e
  <2>1. Begin(n) = q BY <1>1, <1>2, <1>3 DEF Begin
  <2> QED BY <1>1, <1>3, <2>1, LayoutFacts
<1>5. PICK a \in Nat, r \in 0..(P - 1) : a = q \div P /\ r = q % P /\ q = P * a + r
  BY DivModIs
<1>6. PICK c \in Nat, t \in 0..(P - 1) : c = e \div P /\ t = e % P /\ e = P * c + t
  BY DivModIs
<1>7. PICK f \in Nat, l \in Nat : f = i + a /\ l = i + c OBVIOUS
<1>8. Paid(f) = a * P /\ Paid(l) = c * P
  <2>1. f - i = a /\ l - i = c BY <1>7
  <2> QED BY <1>1, <2>1 DEF Paid
<1>9. Paid(f) <= q /\ q < Paid(f) + P
  <2>1. P * a = a * P /\ a * P \in Nat BY ProductNat
  <2> QED BY <1>5, <1>8, <2>1
<1>10. Paid(l) <= e /\ e < Paid(l) + P
  <2>1. P * c = c * P /\ c * P \in Nat BY ProductNat
  <2> QED BY <1>6, <1>8, <2>1
<1>11. f <= l
  <2>1. f \in Int /\ l \in Int OBVIOUS
  <2>2. l < f => Paid(l) + P <= Paid(f) BY <1>1, <2>1, PaidIs
  <2>3. PICK u \in Int, v \in Int : u = Paid(l) /\ v = Paid(f) BY <2>1, PaidIs
  <2>4. v <= q BY <1>9, <2>3
  <2>5. e < u + P BY <1>10, <2>3
  <2>6. l < f => u + P <= v BY <2>2, <2>3
  <2>7. q <= e BY <1>3
  <2> QED BY <2>4, <2>5, <2>6, <2>7
<1>12. FirstBlock(n) = f * BlockLen
  <2>1. PICK x \in Nat, y \in Nat, z \in Nat : x = i * L /\ y = a * L /\ z = f * L /\ z = x + y
    <3>1. i * L \in Nat /\ a * L \in Nat /\ f * L \in Nat BY ProductNat
    <3>2. f * L = i * L + a * L BY <1>7
    <3> QED BY <3>1, <3>2
  <2>2. PICK o \in Nat : o = Opening(n) BY OpeningIs
  <2>3. Opening(n) = x + y + M + r
    <3>1. (n - 1) * (FrameLen + 1) = q BY <1>1, <1>2, <1>3
    <3> QED BY <1>1, <1>5, <2>1, <3>1 DEF Opening, FramesFrom
  <2>4. o = z + (M + r) BY <2>1, <2>2, <2>3
  <2>5. PICK g \in Nat, h \in 0..(L - 1) : g = o \div L /\ h = o % L /\ o = L * g + h
    BY DivModIs
  <2>6. L * g = g * L /\ M + r \in 0..(BlockLen - 1) /\ h \in 0..(BlockLen - 1) BY <1>1
  <2>7. f * BlockLen + (M + r) = g * BlockLen + h BY <1>1, <2>1, <2>4, <2>5, <2>6
  <2>8. f = g BY <2>6, <2>7, OneBlock
  <2> QED BY <1>1, <2>2, <2>5, <2>8 DEF FirstBlock
<1>13. Complete(n) = (l + 1) * BlockLen
  <2>1. (l + 1) * L = i * L + (c + 1) * L BY <1>7
  <2>2. Complete(n) = i * L + (c + 1) * L
    BY <1>1, <1>3, <1>6 DEF Complete, FramesFrom
  <2> QED BY <1>1, <2>1, <2>2
<1>14. f \in Int /\ l \in Int OBVIOUS
<1>15. Paid(f) <= Begin(n) /\ Begin(n) < Paid(f) + PAYLOAD BY <1>1, <1>4, <1>9
<1>16. Paid(l) <= Begin(n) + FrameLen + 1 BY <1>4, <1>10
<1>17. Begin(n) + FrameLen + 1 < Paid(l) + PAYLOAD BY <1>1, <1>4, <1>10
<1> QED BY <1>11, <1>12, <1>13, <1>14, <1>15, <1>16, <1>17

(* Every frame is complete at the end of all.                              *)
LEMMA CompleteIs ==
  ASSUME NEW n \in 1..NFrames
  PROVE  /\ FirstBlock(n) \in Nat /\ Complete(n) \in Int
         /\ FirstBlock(n) < Complete(n) /\ Complete(n) <= FramesEnd
<1>1. NFrames \in 1..NFrames /\ n \in Nat /\ NFrames \in Nat BY LayoutFacts
<1>2. PICK f \in Int, l \in Int :
        /\ FirstBlock(n) = f * BlockLen /\ Complete(n) = (l + 1) * BlockLen
        /\ Paid(l) <= Begin(n) + FrameLen + 1 /\ f <= l
  BY FrameBlocks
<1>3. PICK k \in Int :
        /\ FramesEnd = (k + 1) * BlockLen
        /\ Begin(NFrames) + FrameLen + 1 < Paid(k) + PAYLOAD
  BY <1>1, FrameBlocks DEF FramesEnd
<1>4. PICK L \in Nat \ {0} : L = BlockLen BY LayoutFacts
<1>5. Begin(n) <= Begin(NFrames) /\ Begin(n) \in Nat /\ Begin(NFrames) \in Nat
  <2>1. PICK F \in Nat : F = FrameLen + 1 BY LayoutFacts
  <2>2. PICK x \in Nat, y \in Nat : x = n - 1 /\ y = NFrames - 1 /\ x <= y BY <1>1
  <2>3. x * F \in Nat /\ y * F \in Nat /\ (x < y => x * F + F <= y * F)
    BY ProductNat, ProductLess
  <2>4. x * F <= y * F
    <3>1. CASE x = y BY <2>3, <3>1
    <3>2. CASE x < y BY <2>3, <3>2
    <3> QED BY <2>2, <3>1, <3>2
  <2> QED BY <2>1, <2>2, <2>3, <2>4 DEF Begin
<1>6. l <= k
  <2>1. k < l => Paid(k) + PAYLOAD <= Paid(l) BY PaidIs
  <2>2. Paid(k) \in Int /\ Paid(l) \in Int BY PaidIs
  <2> QED BY <1>2, <1>3, <1>5, <2>1, <2>2, LayoutFacts
<1>7. PICK x \in Int, y \in Int, z \in Int :
        x = f * L /\ y = (l + 1) * L /\ z = (k + 1) * L /\ x < y /\ y <= z
  <2>1. PICK l1 \in Int, k1 \in Int : l1 = l + 1 /\ k1 = k + 1 OBVIOUS
  <2>2. f < l1 /\ l1 <= k1 BY <1>2, <1>6, <2>1
  <2>3. f * L \in Int /\ l1 * L \in Int /\ k1 * L \in Int BY IntProduct
  <2>4. f * L + L <= l1 * L BY <2>2, IntProduct
  <2>5. l1 * L <= k1 * L BY <1>4, <2>2, BlockOrder
  <2> QED BY <2>1, <2>3, <2>4, <2>5
<1>8. FirstBlock(n) \in Nat
  <2>1. Opening(n) \in Nat BY OpeningIs
  <2>2. Opening(n) \div L \in Nat BY <2>1, DivMod
  <2>3. (Opening(n) \div L) * L \in Nat BY <2>2, ProductNat
  <2> QED BY <1>4, <2>3 DEF FirstBlock
<1> QED BY <1>2, <1>3, <1>4, <1>7, <1>8

-----------------------------------------------------------------------------
(* A subchannel whose bytes arrive as they were sent.                      *)

(* The HDLC buffer holds what the blocks before place s gave it of the     *)
(* frame they end in.                                                      *)
Midway(h, s, q) ==
  \A n \in 1..NFrames, b \in Int :
    /\ FirstBlock(n) >= q + Lead /\ s = b * BlockLen
    /\ Begin(n) < Paid(b) /\ Paid(b) <= Begin(n) + FrameLen + 1
    => h = Piece(n, Paid(b) - Begin(n))

(* What the bytes of a window give of a frame: it is read from the window's*)
(* first byte on, or from before its own.                                  *)
LEMMA WindowReads ==
  ASSUME NEW n \in 1..NFrames, NEW h \in Seq(Bytes), Len(h) <= MAX_AAS_LEN + 1,
         NEW all \in Seq(Bytes), NEW s \in Int, NEW q \in Int, NEW c \in Int,
         Known(all, s, q), Safe(s, q), Midway(h, s, q), FirstBlock(n) >= q + Lead,
         s + Len(all) - Len(Cut(all).rest) = c * BlockLen, Begin(n) < Paid(c)
  PROVE  \E d \in Int :
           /\ d <= Begin(n) \/ \E b \in Int : s = b * BlockLen /\ d = Paid(b)
           /\ Reading(n, d, Paid(c), parse_hdlc(h, Cut(all).payload, MAX_AAS_LEN))
<1>1. PICK r \in [rest : Seq(Bytes), payload : Seq(Bytes)] : r = Cut(all)
  BY CutIs DEF Cuts
<1>2. Found(all, s, q, 1, r) BY <1>1, CutFound
<1>3. PICK f \in Int, l \in Int :
        /\ FirstBlock(n) = f * BlockLen
        /\ Paid(f) <= Begin(n) /\ Begin(n) < Paid(f) + PAYLOAD
  BY FrameBlocks
<1>4. Begin(n) \in Nat /\ PAYLOAD \in Nat /\ FrameLen \in Nat BY FrameIs, LayoutFacts
<1>5. f * BlockLen >= q + Lead /\ f * BlockLen \in Int /\ f * BlockLen >= q
  <2>1. f * BlockLen \in Int BY BlockOrder
  <2> QED BY <1>3, <1>4, <2>1 DEF Lead
<1>6. s + 1 - 1 = s OBVIOUS
<1>7. ASSUME NEW b \in Int, b <= c, b * BlockLen >= q,
             s = b * BlockLen \/ (s <= b * BlockLen /\ b * BlockLen >= q + Lead)
      PROVE  /\ LastBytes(r.payload, (c - b) * PAYLOAD, Paid(b))
             /\ s = b * BlockLen => Len(r.payload) = (c - b) * PAYLOAD
  <2>1. s + Len(all) - Len(r.rest) = c * BlockLen BY <1>1
  <2>2. /\ Ends(r.payload, b, c)
        /\ s = b * BlockLen => Len(r.payload) = (c - b) * PAYLOAD
    BY <1>2, <1>6, <1>7, <2>1 DEF Found
  <2> QED BY <2>2 DEF Ends, Paid
<1>8. ASSUME NEW b \in Int, b <= c
      PROVE  Paid(b) \in Int /\ (c - b) * PAYLOAD \in Nat
             /\ Paid(b) + (c - b) * PAYLOAD = Paid(c)
  <2>1. Paid(b) \in Int /\ Paid(c) \in Int /\ (c - b) * PAYLOAD \in Nat
        /\ (c - b) * PAYLOAD = Paid(c) - Paid(b)
    BY <1>8, PaidIs
  <2>2. PICK x \in Int, y \in Int : x = Paid(b) /\ y = Paid(c) BY <2>1
  <2>3. x + (y - x) = y OBVIOUS
  <2> QED BY <2>1, <2>2, <2>3
<1>9. CASE s <= f * BlockLen
  <2>1. f <= c
    <3>1. c < f => Paid(c) + PAYLOAD <= Paid(f) BY PaidIs
    <3>2. PICK x \in Int, y \in Int : x = Paid(f) /\ y = Paid(c) BY PaidIs
    <3>3. ~(c < f) BY <1>3, <1>4, <3>1, <3>2
    <3> QED BY <3>3
  <2>2. LastBytes(r.payload, (c - f) * PAYLOAD, Paid(f)) BY <1>5, <1>7, <1>9, <2>1
  <2>3. PICK d \in Int, m \in Nat : d = Paid(f) /\ m = (c - f) * PAYLOAD /\ d + m = Paid(c)
    BY <1>8, <2>1
  <2>4. d <= Begin(n) BY <1>3, <2>3
  <2>5. Reading(n, d, d + m, parse_hdlc(h, r.payload, MAX_AAS_LEN))
    BY <2>2, <2>3, <2>4, FrameReads
  <2> QED BY <1>1, <2>3, <2>4, <2>5
<1>10. CASE ~(s <= f * BlockLen)
  <2>1. Aligned(s) BY <1>5, <1>10 DEF Safe
  <2>2. PICK b \in Int : s = b * BlockLen BY <2>1 DEF Aligned
  <2>3. f < b
    <3>1. b <= f => b * BlockLen <= f * BlockLen BY BlockOrder
    <3> QED BY <1>10, <2>2, <3>1
  <2>4. b * BlockLen >= q BY <1>5, <1>10, <2>2
  <2>5. b <= c
    <3>1. Len(r.rest) <= Len(all) - 1 + 1 BY <1>2 DEF Found
    <3>2. Len(r.rest) \in Nat /\ Len(all) \in Nat BY LenProperties
    <3>3. s <= c * BlockLen BY <1>1, <3>1, <3>2
    <3> QED BY <2>2, <3>3, BlockOrder
  <2>6. /\ LastBytes(r.payload, (c - b) * PAYLOAD, Paid(b))
        /\ Len(r.payload) = (c - b) * PAYLOAD
    BY <1>7, <2>2, <2>4, <2>5
  <2>7. PICK d \in Int, m \in Nat : d = Paid(b) /\ m = (c - b) * PAYLOAD /\ d + m = Paid(c)
    BY <1>8, <2>5
  <2>8. Begin(n) < d
    <3>1. Paid(f) + PAYLOAD <= Paid(b) BY <2>3, PaidIs
    <3>2. PICK x \in Int : x = Paid(f) BY PaidIs
    <3>3. x + PAYLOAD <= d BY <2>7, <3>1, <3>2
    <3>4. Begin(n) < x + PAYLOAD BY <1>3, <3>2
    <3> QED BY <1>4, <3>3, <3>4
  <2>9. d <= Begin(n) + FrameLen + 1 => h = Piece(n, d - Begin(n))
    BY <2>2, <2>7, <2>8 DEF Midway
  <2>10. m = Len(r.payload) BY <2>6, <2>7
  <2>11. LastBytes(r.payload, m, d) BY <2>6, <2>7
  <2>12. Reading(n, d, d + m, parse_hdlc(h, r.payload, MAX_AAS_LEN))
    BY <2>9, <2>10, <2>11, FrameReads
  <2> QED BY <1>1, <2>2, <2>7, <2>12
<1> QED BY <1>9, <1>10

(* A subchannel when the station is at place p and the last m bytes of it  *)
(* arrived as they were sent.                                              *)
InWindow(c, p, m) ==
  /\ Known(c.blocks, p - Len(c.blocks), p - m)
  /\ Safe(p - Len(c.blocks), p - m)
  /\ Midway(c.hdlc, p - Len(c.blocks), p - m)

(* Bytes that arrive as they were sent from place p on.                    *)
Intact(bytes, p) == \A k \in 1..Len(bytes) : IsAt(bytes[k], p + k - 1)

(* The window with such bytes behind it.                                   *)
LEMMA WindowGrows ==
  ASSUME NEW i \in Subchannels, NEW c, Kept(i, c), NEW p \in Int, NEW q \in Int,
         Known(c.blocks, p - Len(c.blocks), q), NEW bytes \in Seq(Bytes), Intact(bytes, p)
  PROVE  /\ c.blocks \o bytes \in Seq(Bytes)
         /\ Known(c.blocks \o bytes, p - Len(c.blocks), q)
         /\ Len(c.blocks \o bytes) = Len(c.blocks) + Len(bytes)
         /\ Len(c.blocks) \in Nat /\ Len(bytes) \in Nat
<1>1. c.blocks \in Seq(Bytes) BY DEF Kept
<1>2. PICK a : a = c.blocks \o bytes OBVIOUS
<1>3. PICK b : b = c.blocks OBVIOUS
<1>4. /\ a \in Seq(Bytes) /\ Len(a) = Len(b) + Len(bytes)
      /\ Len(b) \in Nat /\ Len(bytes) \in Nat
      /\ \A k \in 1..(Len(b) + Len(bytes)) :
           a[k] = IF k <= Len(b) THEN b[k] ELSE bytes[k - Len(b)]
  BY <1>1, <1>2, <1>3, ConcatProperties, LenProperties
<1>5. ASSUME NEW k \in 1..Len(a), p - Len(b) + k - 1 >= q
      PROVE  IsAt(a[k], p - Len(b) + k - 1)
  <2>1. CASE k <= Len(b)
    <3>1. k \in 1..Len(b) /\ a[k] = b[k] BY <1>4, <2>1
    <3> QED BY <1>3, <1>5, <3>1 DEF Known
  <2>2. CASE ~(k <= Len(b))
    <3>1. PICK j \in 1..Len(bytes) : j = k - Len(b) BY <1>4, <2>2
    <3>2. a[k] = bytes[j] /\ p - Len(b) + k - 1 = p + j - 1 BY <1>4, <2>2, <3>1
    <3> QED BY <3>1, <3>2 DEF Intact
  <2> QED BY <2>1, <2>2
<1>6. Known(a, p - Len(b), q) BY <1>5 DEF Known
<1> QED BY <1>2, <1>3, <1>4, <1>6

(* What Cut makes of it: the window all was at place s, k of its N bytes   *)
(* are left at place z.                                                    *)
Cutting(c, p, q, bytes, all, r, s, z, N, k) ==
  /\ N = Len(all) /\ k = Len(r.rest) /\ k <= N /\ k < BlockLen
  /\ s <= p /\ s + N = p + Len(bytes) /\ z = s + N - k
  /\ all \in Seq(Bytes) /\ r \in Cuts(all, 1)
  /\ Known(all, s, q) /\ Safe(s, q) /\ Midway(c.hdlc, s, q)
  /\ Found(all, s, q, 1, r) /\ Safe(z, q)

(* It does that.                                                           *)
LEMMA WindowCut ==
  ASSUME NEW i \in Subchannels, NEW c, Kept(i, c), NEW p \in Nat, NEW m \in Nat,
         InWindow(c, p, m), NEW bytes \in Seq(Bytes), Intact(bytes, p),
         NEW all, all = c.blocks \o bytes, NEW r, r = Cut(all)
  PROVE  \E s \in Int, z \in Int, N \in Nat, k \in Nat :
           Cutting(c, p, p - m, bytes, all, r, s, z, N, k)
<1>1. PICK g \in Nat, B \in Nat : g = Len(c.blocks) /\ B = Len(bytes)
  <2>1. c.blocks \in Seq(Bytes) BY DEF Kept
  <2> QED BY <2>1, LenProperties
<1>2. PICK s \in Int, q \in Int : s = p - g /\ q = p - m OBVIOUS
<1>3. s = p - Len(c.blocks) BY <1>1, <1>2
<1>4. Known(c.blocks, s, q) /\ Safe(s, q) /\ Midway(c.hdlc, s, q)
  BY <1>2, <1>3 DEF InWindow
<1>5. all \in Seq(Bytes) /\ Known(all, s, q) /\ Len(all) = g + B
  BY <1>1, <1>3, <1>4, WindowGrows
<1>6. PICK N \in Nat : N = Len(all) /\ N = g + B BY <1>5
<1>7. r \in Cuts(all, 1) /\ Found(all, s, q, 1, r) BY <1>4, <1>5, CutIs, CutFound
<1>8. PICK k \in Nat : k = Len(r.rest) /\ k < BlockLen
  <2>1. r.rest \in Seq(Bytes) /\ Len(r.rest) < BlockLen BY <1>7 DEF Cuts
  <2> QED BY <2>1, LenProperties
<1>9. PICK z \in Int : z = s + N - k OBVIOUS
<1>10. Safe(z, q) /\ k <= N
  <2>1. Safe(s + Len(all) - Len(r.rest), q) /\ Len(r.rest) <= Len(all) - 1 + 1
    BY <1>7 DEF Found
  <2>2. k <= N - 1 + 1 BY <1>6, <1>8, <2>1
  <2>3. k <= N BY <2>2
  <2> QED BY <1>6, <1>8, <1>9, <2>1, <2>3
<1>11. s <= p /\ s + N = p + B BY <1>2, <1>6
<1>12. s + N = p + Len(bytes) BY <1>1, <1>11
<1>13. Cutting(c, p, q, bytes, all, r, s, z, N, k)
  BY <1>4, <1>5, <1>6, <1>7, <1>8, <1>9, <1>10, <1>11, <1>12 DEF Cutting
<1> QED BY <1>2, <1>13

(* What such bytes give of a frame.                                        *)
LEMMA WindowGives ==
  ASSUME NEW i \in Subchannels, NEW c, Kept(i, c), NEW p \in Nat, NEW m \in Nat,
         InWindow(c, p, m), NEW bytes \in Seq(Bytes), Intact(bytes, p)
  PROVE  LET h == parse_hdlc(c.hdlc, Cut(c.blocks \o bytes).payload, MAX_AAS_LEN)
         IN \A n \in 1..NFrames :
              /\ p < Complete(n) /\ Complete(n) <= p + Len(bytes)
              /\ FirstBlock(n) >= (p - m) + Lead
              => \E j \in 1..Len(h.out) : Whole(h.out[j], n)
<1>1. PICK all : all = c.blocks \o bytes OBVIOUS
<1>2. PICK r : r = Cut(all) OBVIOUS
<1>3. PICK q \in Int, s \in Int, z \in Int, N \in Nat, k \in Nat :
        q = p - m /\ Cutting(c, p, q, bytes, all, r, s, z, N, k)
  <2>1. p - m \in Int OBVIOUS
  <2> QED BY <1>1, <1>2, <2>1, WindowCut
<1>4. c.hdlc \in Seq(Bytes) /\ Len(c.hdlc) <= MAX_AAS_LEN + 1 BY DEF Kept
<1>5. PICK h : h = parse_hdlc(c.hdlc, r.payload, MAX_AAS_LEN) OBVIOUS
<1>6. ASSUME NEW n \in 1..NFrames, p < Complete(n), Complete(n) <= p + Len(bytes),
             FirstBlock(n) >= q + Lead
      PROVE  \E j \in 1..Len(h.out) : Whole(h.out[j], n)
  <2>1. PICK f \in Int, l \in Int :
           /\ FirstBlock(n) = f * BlockLen /\ Complete(n) = (l + 1) * BlockLen
           /\ Paid(l) <= Begin(n) + FrameLen + 1
           /\ Begin(n) + FrameLen + 1 < Paid(l) + PAYLOAD
           /\ f <= l
    BY FrameBlocks
  <2>2. PICK x \in Int, y \in Int, L \in Nat \ {0} :
          x = f * BlockLen /\ y = l * BlockLen /\ L = BlockLen
    BY BlockOrder, LayoutFacts
  <2>3. x <= y BY <2>1, <2>2, BlockOrder
  <2>4. Complete(n) = y + L BY <2>1, <2>2, BlockOrder
  <2>5. p < y + L /\ y + L <= s + N /\ k < L BY <1>3, <1>6, <2>2, <2>4 DEF Cutting
  <2>6. z = s + N - k BY <1>3 DEF Cutting
  <2>7. z > y BY <2>2, <2>5, <2>6
  <2>8. x >= q + Lead BY <1>6, <2>1, <2>2
  <2>9. PICK e \in Int : z = e * BlockLen
    <3>1. ~(z <= x) BY <2>2, <2>3, <2>7
    <3>2. Aligned(z) BY <1>3, <2>2, <2>8, <3>1 DEF Safe, Cutting
    <3> QED BY <3>2 DEF Aligned
  <2>10. l < e
    <3>1. e <= l => z <= y BY <2>2, <2>9, BlockOrder
    <3> QED BY <2>2, <2>7, <3>1
  <2>11. PICK b \in Nat, F \in Nat, P \in Nat : b = Begin(n) /\ F = FrameLen /\ P = PAYLOAD
    BY FrameIs, LayoutFacts
  <2>12. PICK u \in Int, v \in Int : u = Paid(l) /\ v = Paid(e) BY PaidIs
  <2>13. u + P <= v BY <2>10, <2>11, <2>12, PaidIs
  <2>14. u <= b + F + 1 BY <2>1, <2>11, <2>12
  <2>15. b + F + 1 < u + P BY <2>1, <2>11, <2>12
  <2>16. b < v /\ b + F + 1 < v BY <2>13, <2>15
  <2>17. s + Len(all) - Len(Cut(all).rest) = e * BlockLen BY <1>2, <1>3, <2>9 DEF Cutting
  <2>18. Begin(n) < Paid(e) BY <2>11, <2>12, <2>16
  <2>19. PICK d \in Int :
           /\ d <= Begin(n) \/ \E a \in Int : s = a * BlockLen /\ d = Paid(a)
           /\ Reading(n, d, Paid(e), parse_hdlc(c.hdlc, Cut(all).payload, MAX_AAS_LEN))
    BY <1>3, <1>4, <1>6, <2>17, <2>18, WindowReads DEF Cutting
  <2>20. d <= b + F + 1
    <3>1. CASE d <= Begin(n)
      <4>1. d <= b BY <2>11, <3>1
      <4> QED BY <4>1
    <3>2. CASE \E a \in Int : s = a * BlockLen /\ d = Paid(a)
      <4>1. PICK a \in Int : s = a * BlockLen /\ d = Paid(a) BY <3>2
      <4>2. s < y + L /\ y + L = (l + 1) * BlockLen
        <5>1. s <= p BY <1>3 DEF Cutting
        <5> QED BY <2>1, <2>2, <2>4, <2>5, <5>1
      <4>3. a <= l
        <5>1. l + 1 \in Int /\ (l < a => l + 1 <= a) OBVIOUS
        <5>2. l + 1 <= a => (l + 1) * BlockLen <= a * BlockLen BY <5>1, BlockOrder
        <5>3. l < a => y + L <= s BY <4>1, <4>2, <5>1, <5>2
        <5> QED BY <2>2, <4>2, <5>3
      <4>4. a < l => d + P <= u BY <2>11, <2>12, <4>1, PaidIs
      <4>5. a = l => d = u BY <2>12, <4>1
      <4>6. d <= u BY <4>3, <4>4, <4>5
      <4> QED BY <2>14, <4>6
    <3> QED BY <2>19, <3>1, <3>2
  <2>21. Reading(n, d, v, h) BY <1>2, <1>5, <2>12, <2>19
  <2>22. d <= Begin(n) + FrameLen + 1 /\ Begin(n) + FrameLen + 1 < v
    BY <2>11, <2>16, <2>20
  <2> QED BY <2>21, <2>22 DEF Reading
<1>7. q = p - m BY <1>3
<1> QED BY <1>1, <1>2, <1>5, <1>6, <1>7

(* Such bytes keep the subchannel as it is.                                *)
LEMMA WindowStays ==
  ASSUME NEW i \in Subchannels, NEW c, Kept(i, c), NEW p \in Nat, NEW m \in Nat,
         InWindow(c, p, m), NEW bytes \in Seq(Bytes), Intact(bytes, p)
  PROVE  InWindow(process_subchannel(c, bytes).state, p + Len(bytes), m + Len(bytes))
<1>1. PICK all : all = c.blocks \o bytes OBVIOUS
<1>2. PICK r : r = Cut(all) OBVIOUS
<1>3. PICK q \in Int, s \in Int, z \in Int, N \in Nat, k \in Nat :
        q = p - m /\ Cutting(c, p, q, bytes, all, r, s, z, N, k)
  <2>1. p - m \in Int OBVIOUS
  <2> QED BY <1>1, <1>2, <2>1, WindowCut
<1>4. c.hdlc \in Seq(Bytes) /\ Len(c.hdlc) <= MAX_AAS_LEN + 1 BY DEF Kept
<1>5. PICK h : h = parse_hdlc(c.hdlc, r.payload, MAX_AAS_LEN) OBVIOUS
<1>6. PICK o : o = process_subchannel(c, bytes).state OBVIOUS
<1>7. o.blocks = r.rest /\ o.hdlc = h.rest
  <2>1. o = [c EXCEPT !.blocks = r.rest, !.hdlc = h.rest]
    BY <1>1, <1>2, <1>5, <1>6 DEF process_subchannel
  <2> QED BY <2>1 DEF Kept
<1>8. Known(r.rest, z, q)
  <2> SUFFICES ASSUME NEW a \in 1..k, z + a - 1 >= q
               PROVE  IsAt(r.rest[a], z + a - 1)
    BY <1>3 DEF Known, Cutting
  <2>1. r.rest[a] = all[N - k + a] BY <1>3 DEF Found, Cutting
  <2>2. PICK j : j = N - k + a OBVIOUS
  <2>3. z = s + N - k /\ k <= N BY <1>3 DEF Cutting
  <2>4. j \in 1..N /\ z + a - 1 = s + j - 1 BY <2>2, <2>3
  <2>5. s + j - 1 >= q BY <2>4
  <2>6. j \in 1..Len(all) /\ Known(all, s, q) BY <1>3, <2>4 DEF Cutting
  <2>7. IsAt(all[j], s + j - 1) BY <2>5, <2>6 DEF Known
  <2> QED BY <2>1, <2>2, <2>4, <2>7
<1>9. Midway(h.rest, z, q)
  <2> SUFFICES ASSUME NEW n \in 1..NFrames, NEW b \in Int,
                      FirstBlock(n) >= q + Lead, z = b * BlockLen,
                      Begin(n) < Paid(b), Paid(b) <= Begin(n) + FrameLen + 1
               PROVE  h.rest = Piece(n, Paid(b) - Begin(n))
    BY DEF Midway
  <2>1. s + Len(all) - Len(Cut(all).rest) = b * BlockLen BY <1>2, <1>3 DEF Cutting
  <2>2. PICK d \in Int :
          Reading(n, d, Paid(b), parse_hdlc(c.hdlc, Cut(all).payload, MAX_AAS_LEN))
    BY <1>3, <1>4, <2>1, WindowReads DEF Cutting
  <2>3. Reading(n, d, Paid(b), h) BY <1>2, <1>5, <2>2
  <2> QED BY <2>3 DEF Reading
<1>10. PICK B \in Nat : B = Len(bytes) BY LenProperties
<1>11. (p + B) - k = z /\ (p + B) - (m + B) = q
  <2>1. s + N = p + B /\ z = s + N - k /\ q = p - m BY <1>3, <1>10 DEF Cutting
  <2> QED BY <2>1
<1>12. (p + B) - Len(o.blocks) = z BY <1>3, <1>7, <1>11 DEF Cutting
<1>13. Safe(z, q) BY <1>3 DEF Cutting
<1>14. InWindow(o, p + B, m + B)
  BY <1>7, <1>8, <1>9, <1>11, <1>12, <1>13 DEF InWindow
<1> QED BY <1>6, <1>10, <1>14

(* A shorter calm says less.                                               *)
LEMMA WindowWeaker ==
  ASSUME NEW i \in Subchannels, NEW c, Kept(i, c), NEW p \in Nat,
         NEW m \in Nat, NEW k \in Nat, k <= m, InWindow(c, p, m)
  PROVE  InWindow(c, p, k)
<1>1. PICK g \in Nat, e \in Nat : g = Len(c.blocks) /\ e = Lead
  <2>1. c.blocks \in Seq(Bytes) BY DEF Kept
  <2> QED BY <2>1, LenProperties, LayoutFacts DEF Lead
<1>2. PICK s \in Int, q \in Int, r \in Int : s = p - g /\ q = p - m /\ r = p - k
  OBVIOUS
<1>3. q <= r BY <1>2
<1>4. s = p - Len(c.blocks) BY <1>1, <1>2
<1>5. Known(c.blocks, s, q) /\ Safe(s, q) /\ Midway(c.hdlc, s, q)
  BY <1>2, <1>4 DEF InWindow
<1>6. Known(c.blocks, s, r)
  <2> SUFFICES ASSUME NEW j \in 1..Len(c.blocks), s + j - 1 >= r
               PROVE  IsAt(c.blocks[j], s + j - 1)
    BY DEF Known
  <2>1. j \in Nat BY LenProperties DEF Kept
  <2>2. PICK t \in Int : t = s + j - 1 BY <2>1
  <2>3. t >= q BY <1>3, <2>2
  <2>4. s + j - 1 >= q BY <2>2, <2>3
  <2> QED BY <1>5, <2>4 DEF Known
<1>7. Safe(s, r)
  <2>1. CASE Aligned(s) BY <2>1 DEF Safe
  <2>2. ASSUME NEW b \in Int, b * BlockLen >= r + Lead, ~Aligned(s)
        PROVE  s <= b * BlockLen
    <3>1. b * BlockLen \in Int BY BlockOrder
    <3>2. b * BlockLen >= q + Lead BY <1>1, <1>3, <2>2, <3>1
    <3> QED BY <1>5, <2>2, <3>2 DEF Safe
  <2> QED BY <2>1, <2>2 DEF Safe
<1>8. Midway(c.hdlc, s, r)
  <2> SUFFICES ASSUME NEW n \in 1..NFrames, NEW b \in Int,
                      FirstBlock(n) >= r + Lead, s = b * BlockLen,
                      Begin(n) < Paid(b), Paid(b) <= Begin(n) + FrameLen + 1
               PROVE  c.hdlc = Piece(n, Paid(b) - Begin(n))
    BY DEF Midway
  <2>1. FirstBlock(n) >= q + Lead BY <1>1, <1>3, CompleteIs
  <2> QED BY <1>5, <2>1 DEF Midway
<1> QED BY <1>2, <1>4, <1>6, <1>7, <1>8 DEF InWindow

(* With none nothing is said.                                              *)
LEMMA WindowNone ==
  ASSUME NEW i \in Subchannels, NEW c, Kept(i, c), NEW p \in Nat
  PROVE  InWindow(c, p, 0)
<1>1. PICK k \in Nat, e \in Nat : k = Len(c.blocks) /\ e = Lead
  <2>1. c.blocks \in Seq(Bytes) BY DEF Kept
  <2> QED BY <2>1, LenProperties, LayoutFacts DEF Lead
<1>2. PICK s \in Int : s = p - k OBVIOUS
<1>3. s <= p /\ p - 0 = p BY <1>2
<1>4. s = p - Len(c.blocks) BY <1>1, <1>2
<1>5. Known(c.blocks, s, p)
  <2>1. \A j \in 1..k : ~(s + j - 1 >= p) BY <1>2
  <2> QED BY <1>1, <2>1 DEF Known
<1>6. Safe(s, p)
  <2> SUFFICES ASSUME NEW b \in Int, b * BlockLen >= p + Lead PROVE s <= b * BlockLen
    BY DEF Safe
  <2>1. PICK x \in Int : x = b * BlockLen BY BlockOrder
  <2>2. x >= p + e BY <1>1, <2>1
  <2>3. s <= x BY <1>3, <2>2
  <2> QED BY <2>1, <2>3
<1>7. Midway(c.hdlc, s, p)
  <2> SUFFICES ASSUME NEW n \in 1..NFrames, NEW b \in Int,
                      FirstBlock(n) >= p + Lead, s = b * BlockLen,
                      Begin(n) < Paid(b), Paid(b) <= Begin(n) + FrameLen + 1
               PROVE  FALSE
    BY DEF Midway
  <2>1. PICK f \in Int :
          /\ FirstBlock(n) = f * BlockLen
          /\ Paid(f) <= Begin(n) /\ Begin(n) < Paid(f) + PAYLOAD
    BY FrameBlocks
  <2>2. PICK x \in Int, y \in Int : x = f * BlockLen /\ y = b * BlockLen BY BlockOrder
  <2>3. y <= x
    <3>1. x >= p + e /\ y = s BY <1>1, <2>1, <2>2
    <3> QED BY <1>3, <3>1
  <2>4. b <= f BY <2>2, <2>3, BlockOrder
  <2>5. b < f => Paid(b) + PAYLOAD <= Paid(f) BY PaidIs
  <2>6. PICK u \in Int, v \in Int, P \in Nat, a \in Nat :
          u = Paid(b) /\ v = Paid(f) /\ P = PAYLOAD /\ a = Begin(n)
    BY PaidIs, LayoutFacts, FrameIs
  <2>7. v <= a /\ a < u BY <2>1, <2>6
  <2>8. b # f BY <2>6, <2>7
  <2>9. u + P <= v BY <2>4, <2>5, <2>6, <2>8
  <2> QED BY <2>6, <2>7, <2>9
<1> QED BY <1>3, <1>4, <1>5, <1>6, <1>7 DEF InWindow

(* Before its frames the station sends the same in every block.            *)
LEMMA IdleByte ==
  ASSUME NEW b \in Int, NEW c \in Int, b < Idle, c < Idle, NEW k \in 0..(BlockLen - 1)
  PROVE  BlockByte(b, k) = BlockByte(c, k)
<1>1. PICK M \in Nat, P \in Nat \ {0}, i \in Nat :
        M = BBM_LEN /\ P = PAYLOAD /\ i = Idle /\ BlockLen = M + P
  BY LayoutFacts DEF BlockLen
<1>2. CASE k < BBM_LEN BY <1>2 DEF BlockByte
<1>3. CASE ~(k < BBM_LEN)
  <2>1. ASSUME NEW d \in Int, d < Idle PROVE BlockByte(d, k) = Flag
    <3>1. Paid(d) + PAYLOAD <= Paid(i) BY <1>1, <2>1, PaidIs
    <3>2. Paid(i) = 0
      <4>1. i - i = 0 /\ 0 * P = 0 OBVIOUS
      <4> QED BY <1>1, <4>1 DEF Paid
    <3>3. PICK u \in Int : u = Paid(d) BY PaidIs
    <3>4. u + P <= 0 BY <1>1, <3>1, <3>2, <3>3
    <3>5. k \in 0..(M + P - 1) BY <1>1
    <3>6. u + k - M < 0 BY <3>4, <3>5
    <3>7. PayloadByte(u + k - M) = Flag BY <3>6 DEF PayloadByte
    <3>8. (d - Idle) * PAYLOAD = u BY <3>3 DEF Paid
    <3> QED BY <1>1, <1>3, <3>7, <3>8 DEF BlockByte
  <2> QED BY <2>1
<1> QED BY <1>2, <1>3

(* What a place says of a byte it says as well whole blocks before, when   *)
(* the station has not begun its frames.                                   *)
LEMMA IdleAt ==
  ASSUME NEW x, NEW v \in Int, NEW a \in Nat, v < FramesFrom, IsAt(x, v)
  PROVE  IsAt(x, v - a * BlockLen)
<1> SUFFICES ASSUME NEW b \in Int, NEW k \in 0..(BlockLen - 1),
                    v - a * BlockLen = b * BlockLen + k
             PROVE  x = BlockByte(b, k)
  BY DEF IsAt
<1>1. PICK L \in Nat \ {0}, i \in Nat : L = BlockLen /\ i = Idle /\ FramesFrom = i * L
  BY LayoutFacts DEF FramesFrom
<1>2. PICK y \in Int, w \in Int, c \in Int : y = a * L /\ w = b * L /\ c = b + a
  BY IntProduct
<1>3. c * L = w + y BY <1>2
<1>4. v = c * BlockLen + k
  <2>1. v - y = w + k BY <1>1, <1>2
  <2> QED BY <1>1, <1>3, <2>1
<1>5. x = BlockByte(c, k) BY <1>4 DEF IsAt
<1>6. c < i
  <2>1. i <= c => i * L <= c * L BY <1>1, BlockOrder
  <2>2. PICK z \in Int : z = c * L BY <1>2, <1>3
  <2>3. v = z + k /\ k \in Nat BY <1>1, <1>4, <2>2, LayoutFacts
  <2>4. i * L \in Int /\ v < i * L BY <1>1, ProductNat
  <2> QED BY <2>1, <2>2, <2>3, <2>4
<1>7. b < i BY <1>2, <1>6
<1> QED BY <1>1, <1>5, <1>6, <1>7, IdleByte

(* The frames are a block at least.                                        *)
LEMMA EndsLater == FramesFrom < FramesEnd
<1>1. PICK q \in Nat, P \in Nat \ {0}, L \in Nat \ {0}, x \in Nat :
        q = NFrames * (FrameLen + 1) /\ P = PAYLOAD /\ L = BlockLen /\ x = FramesFrom
  <2>1. FrameLen + 1 \in Nat BY LayoutFacts
  <2>2. NFrames * (FrameLen + 1) \in Nat BY <2>1, LayoutFacts, ProductNat
  <2> QED BY <2>2, LayoutFacts, FramesEndNat
<1>2. PICK k \in Nat : k = q \div P
  <2>1. q \div P \in Nat BY DivMod
  <2> QED BY <2>1
<1>3. PICK y \in Nat : y = k * L BY ProductNat
<1>4. (k + 1) * L = y + L BY <1>3
<1>5. FramesEnd = x + (y + L) BY <1>1, <1>2, <1>4 DEF FramesEnd, Complete
<1> QED BY <1>1, <1>5

(* The station may stay before its frames.                                 *)
LEMMA WindowAfter ==
  ASSUME NEW i \in Subchannels, NEW c, Kept(i, c), NEW p \in Nat, NEW m \in Nat,
         InWindow(c, p, m), NEW stay \in BOOLEAN, After(p, stay) < FramesEnd
  PROVE  InWindow(c, After(p, stay), m)
<1>1. PICK L \in Nat \ {0}, from \in Nat, end \in Nat :
        L = BlockLen /\ from = FramesFrom /\ end = FramesEnd
  BY LayoutFacts, FramesEndNat
<1>2. CASE p >= FramesEnd
  <2>1. PICK d \in Nat : d = p - end BY <1>1, <1>2
  <2>2. PICK t \in Nat : t = d % L
    <3>1. d % L \in Nat BY DivMod
    <3> QED BY <3>1
  <2>3. After(p, stay) = end + t
    <3>1. from < end BY <1>1, EndsLater
    <3>2. ~(p <= FramesFrom /\ stay) BY <1>1, <2>1, <3>1
    <3> QED BY <1>1, <1>2, <2>1, <2>2, <3>2, LateAfter
  <2>4. ~(end + t < end) OBVIOUS
  <2> QED BY <1>1, <2>3, <2>4
<1>3. CASE ~(p >= FramesEnd) /\ p <= FramesFrom /\ stay
  <2>1. PICK a \in Nat, t \in 0..(L - 1) : a = p \div L /\ t = p % L /\ p = L * a + t
    BY DivModIs
  <2>2. After(p, stay) = t BY <1>1, <1>3, <2>1 DEF After
  <2>3. PICK y \in Nat : y = a * BlockLen /\ t = p - y
    <3>1. L * a = a * L /\ a * L \in Nat BY ProductNat
    <3> QED BY <1>1, <2>1, <3>1
  <2>4. PICK g \in Nat, e \in Nat : g = Len(c.blocks) /\ e = Lead
    <3>1. c.blocks \in Seq(Bytes) BY DEF Kept
    <3> QED BY <3>1, LenProperties, LayoutFacts DEF Lead
  <2>5. PICK s \in Int, q \in Int : s = p - g /\ q = p - m OBVIOUS
  <2>6. s = p - Len(c.blocks) BY <2>4, <2>5
  <2>7. Known(c.blocks, s, q) /\ Safe(s, q) BY <2>5, <2>6 DEF InWindow
  <2>8. PICK s1 \in Int, q1 \in Int : s1 = s - y /\ q1 = q - y OBVIOUS
  <2>9. s1 = t - g /\ q1 = t - m BY <2>3, <2>5, <2>8
  <2>10. Known(c.blocks, s1, q1)
    <3> SUFFICES ASSUME NEW k \in 1..g, s1 + k - 1 >= q1
                 PROVE  IsAt(c.blocks[k], s1 + k - 1)
      BY <2>4 DEF Known
    <3>1. PICK v \in Int : v = s + k - 1 OBVIOUS
    <3>2. v >= q /\ s1 + k - 1 = v - y BY <2>8, <3>1
    <3>3. v < p BY <2>5, <3>1
    <3>4. IsAt(c.blocks[k], v) BY <2>4, <2>7, <3>1, <3>2 DEF Known
    <3>5. v < FramesFrom BY <1>1, <1>3, <3>3
    <3>6. IsAt(c.blocks[k], v - a * BlockLen) BY <3>4, <3>5, IdleAt
    <3> QED BY <2>3, <3>2, <3>6
  <2>11. Safe(s1, q1)
    <3>1. CASE Aligned(s)
      <4>1. PICK b \in Int : s = b * BlockLen BY <3>1 DEF Aligned
      <4>2. PICK d \in Int : d = b - a OBVIOUS
      <4>3. d * BlockLen = b * BlockLen - a * BlockLen BY <1>1, <4>2, IntProduct
      <4>4. s1 = d * BlockLen BY <2>3, <2>8, <4>1, <4>3
      <4> QED BY <4>4 DEF Safe, Aligned
    <3>2. CASE ~Aligned(s)
      <4> SUFFICES ASSUME NEW b \in Int, b * BlockLen >= q1 + Lead
                   PROVE  s1 <= b * BlockLen
        BY DEF Safe
      <4>1. PICK d \in Int : d = b + a OBVIOUS
      <4>2. PICK x \in Int : x = b * BlockLen BY BlockOrder
      <4>3. d * BlockLen = x + y
        <5>1. d * L = b * L + a * L BY <4>1
        <5> QED BY <1>1, <2>3, <4>2, <5>1
      <4>4. x >= q1 + e BY <2>4, <4>2
      <4>5. x + y >= q + e BY <2>8, <4>4
      <4>6. d * BlockLen >= q + Lead BY <2>4, <4>3, <4>5
      <4>7. s <= d * BlockLen BY <2>7, <3>2, <4>6 DEF Safe
      <4>8. s <= x + y BY <4>3, <4>7
      <4>9. s1 <= x BY <2>8, <4>8
      <4> QED BY <4>2, <4>9
    <3> QED BY <3>1, <3>2
  <2>12. Midway(c.hdlc, s1, q1)
    <3> SUFFICES ASSUME NEW n \in 1..NFrames, NEW b \in Int, s1 = b * BlockLen,
                        Begin(n) < Paid(b)
                 PROVE  FALSE
      BY DEF Midway
    <3>1. s1 < L BY <2>9
    <3>2. b < 1
      <4>1. 1 * BlockLen = L BY <1>1
      <4>2. 1 <= b => 1 * BlockLen <= b * BlockLen BY BlockOrder
      <4> QED BY <3>1, <4>1, <4>2
    <3>3. PICK j \in Nat \ {0} : j = Idle BY LayoutFacts
    <3>4. b < j BY <3>2, <3>3
    <3>5. PICK u \in Int, P \in Nat : u = Paid(b) /\ P = PAYLOAD BY PaidIs, LayoutFacts
    <3>6. u + P <= Paid(j) BY <3>4, <3>5, PaidIs
    <3>7. Paid(j) = 0
      <4>1. j - j = 0 /\ 0 * P = 0 OBVIOUS
      <4> QED BY <3>3, <3>5, <4>1 DEF Paid
    <3>8. Begin(n) \in Nat BY FrameIs
    <3> QED BY <3>5, <3>6, <3>7, <3>8
  <2>13. s1 = t - Len(c.blocks) BY <2>4, <2>9
  <2>14. InWindow(c, t, m) BY <2>9, <2>10, <2>11, <2>12, <2>13 DEF InWindow
  <2> QED BY <2>2, <2>14
<1>4. CASE ~(p >= FramesEnd) /\ ~(p <= FramesFrom /\ stay)
  BY <1>4 DEF After
<1> QED BY <1>2, <1>3, <1>4

(* What a subchannel makes of bytes that follow the last m, when the       *)
(* station goes from place p to place t: it hands over the frames that     *)
(* they complete.                                                          *)
Forwards(o, p, m, bytes, t) ==
  /\ t < FramesEnd => InWindow(o.state, t, m + Len(bytes))
  /\ \A n \in 1..NFrames :
       /\ p < Complete(n) /\ Complete(n) <= p + Len(bytes)
       /\ FirstBlock(n) >= (p - m) + Lead
       => \E a \in 1..Len(o.frames) : o.frames[a] = n

(* If they are as they were sent it does.                                  *)
LEMMA ChannelCalm ==
  ASSUME NEW i \in Subchannels, NEW c, Kept(i, c), NEW d, NEW p \in Nat, Orderly(c, d, p),
         NEW m \in Nat, p < FramesEnd => InWindow(c, p, m),
         NEW bytes \in Seq(Bytes), Heard(bytes, p), Intact(bytes, p),
         NEW o, o = process_subchannel(c, bytes),
         NEW stay \in BOOLEAN, NEW t, t = After(p + Len(bytes), stay)
  PROVE  Forwards(o, p, m, bytes, t)
<1>1. PICK B \in Nat, e \in Nat, from \in Nat :
        B = Len(bytes) /\ e = FramesEnd /\ from = FramesFrom /\ from < e
  BY LenProperties, FramesEndNat, EndsLater
<1>2. o = process_subchannel(c, bytes) OBVIOUS
<1>3. t = After(p + B, stay) BY <1>1
<1>4. CASE p >= e
  <2>1. ~(t < e)
    <3>1. PICK g \in Nat, L \in Nat \ {0} : g = p + B /\ L = BlockLen BY LayoutFacts
    <3>2. g >= e /\ ~(g <= from) BY <1>1, <1>4, <3>1
    <3>3. PICK f \in Nat : f = g - e BY <3>2
    <3>4. f % L \in Nat BY DivMod
    <3>5. PICK r \in Nat : r = f % L BY <3>4
    <3>6. t = e + r BY <1>1, <1>3, <3>1, <3>2, <3>3, <3>5, LateAfter
    <3> QED BY <3>6
  <2>2. ASSUME NEW n \in 1..NFrames, p < Complete(n) PROVE FALSE
    <3>1. PICK x \in Int : x = Complete(n) /\ x <= e BY <1>1, CompleteIs
    <3> QED BY <1>4, <2>2, <3>1
  <2> QED BY <1>1, <1>3, <2>1, <2>2 DEF Forwards
<1>5. CASE ~(p >= e)
  <2>1. InWindow(c, p, m) BY <1>1, <1>5
  <2>2. InWindow(o.state, p + B, m + B) BY <1>1, <1>2, <2>1, WindowStays
  <2>3. Kept(i, o.state) BY <1>2, ChannelStep
  <2>4. p + B \in Nat /\ m + B \in Nat OBVIOUS
  <2>5. t < e => InWindow(o.state, t, m + B) BY <1>1, <1>3, <2>2, <2>3, <2>4, WindowAfter
  <2>6. PICK h : h = parse_hdlc(c.hdlc, Cut(c.blocks \o bytes).payload, MAX_AAS_LEN)
    OBVIOUS
  <2>7. \A n \in 1..NFrames :
          /\ p < Complete(n) /\ Complete(n) <= p + Len(bytes)
          /\ FirstBlock(n) >= (p - m) + Lead
          => \E j \in 1..Len(h.out) : Whole(h.out[j], n)
    BY <2>1, <2>6, WindowGives
  <2>8. \A j \in 1..Len(h.out), n \in 1..NFrames :
          Whole(h.out[j], n) => \E a \in 1..Len(o.frames) : o.frames[a] = n
    <3>1. p + Len(bytes) \in Nat /\ p + Len(bytes) <= p + Len(bytes) BY <1>1
    <3> QED BY <1>2, <2>6, <3>1, ChannelFrames
  <2>9. \A n \in 1..NFrames :
          /\ p < Complete(n) /\ Complete(n) <= p + Len(bytes)
          /\ FirstBlock(n) >= (p - m) + Lead
          => \E a \in 1..Len(o.frames) : o.frames[a] = n
    BY <2>7, <2>8
  <2> QED BY <1>1, <1>2, <1>3, <2>5, <2>9 DEF Forwards
<1> QED BY <1>4, <1>5

(* A PDU that carries all bytes of subchannel i as they were sent.         *)
Undamaged(pdu, i) ==
  \A k \in Start(Lengths, i, Size - 1 - Width)..(Start(Lengths, i + 1, Size - 1 - Width) - 1) :
    pdu[k] = PDU[k]

(* With the station's width and lengths the subchannel gets them.          *)
LEMMA SliceIntact ==
  ASSUME Sending, NEW pdu, Arrives(pdu), NEW i \in Subchannels, Undamaged(pdu, i)
  PROVE  LET p == Size - 1 - Width
             bytes == SubSeq(pdu, Start(Lengths, i, p), Start(Lengths, i + 1, p) - 1)
         IN /\ bytes \in Seq(Bytes) /\ Heard(bytes, pos[i]) /\ Intact(bytes, pos[i])
            /\ Len(bytes) = Lengths[i]
<1>1. PICK p \in Int : p = Size - 1 - Width
  <2>1. PICK z \in Nat, w \in Nat : z = Size /\ w = Width BY SizeIs, LayoutFacts
  <2>2. z - 1 - w \in Int OBVIOUS
  <2> QED BY <2>1, <2>2
<1>2. Lengths \in [Subchannels -> Nat] /\ \A j \in Subchannels : Lengths[j] \in {0, Lengths[j]}
  BY LayoutFacts
<1>3. PICK from, to : from = Start(Lengths, i, p) /\ to = Start(Lengths, i + 1, p) - 1
  OBVIOUS
<1>4. Width \in 0..(Width + 2) BY LayoutFacts
<1>5. from \in Nat \ {0} /\ to \in Nat /\ to <= Size BY <1>1, <1>2, <1>3, <1>4, Within
<1>6. PICK n \in Nat : n = Lengths[i] BY <1>2
<1>7. Start(Lengths, i + 1, p) = from + n
  <2>1. PICK a, b, c, d : a = Lengths[0] /\ b = Lengths[1] /\ c = Lengths[2] /\ d = Lengths[3]
    OBVIOUS
  <2>2. a \in Nat /\ b \in Nat /\ c \in Nat /\ d \in Nat BY <1>2, <2>1 DEF Subchannels
  <2>3. /\ Start(Lengths, 4, p) = p + 1
        /\ Start(Lengths, 3, p) = p + 1 - d
        /\ Start(Lengths, 2, p) = p + 1 - d - c
        /\ Start(Lengths, 1, p) = p + 1 - d - c - b
        /\ Start(Lengths, 0, p) = p + 1 - d - c - b - a
    BY <1>2, <2>1, StartIs
  <2>4. CASE i = 0 BY <1>3, <1>6, <2>1, <2>2, <2>3, <2>4
  <2>5. CASE i = 1 BY <1>3, <1>6, <2>1, <2>2, <2>3, <2>5
  <2>6. CASE i = 2 BY <1>3, <1>6, <2>1, <2>2, <2>3, <2>6
  <2>7. CASE i = 3 BY <1>3, <1>6, <2>1, <2>2, <2>3, <2>7
  <2> QED BY <2>4, <2>5, <2>6, <2>7 DEF Subchannels
<1>8. to = from + n - 1 BY <1>3, <1>5, <1>7
<1>9. PICK bytes : bytes = SubSeq(pdu, from, to) OBVIOUS
<1>10. /\ Len(bytes) = n /\ \A k \in 1..n : bytes[k] = pdu[from + k - 1]
  <2>1. \A k \in from..to : k \in 1..Len(pdu) BY <1>5, SizeIs DEF Arrives
  <2>2. \A k \in from..to : pdu[k] \in Bytes BY <2>1, ElementOfSeq DEF Arrives
  <2>3. from \in Int /\ to \in Int BY <1>5
  <2>4. /\ Len(bytes) = IF from <= to THEN to - from + 1 ELSE 0
        /\ \A k \in 1..(to - from + 1) : bytes[k] = pdu[from + k - 1]
    BY <1>9, <2>2, <2>3, SubSeqProperties
  <2>5. to - from + 1 = n /\ (from <= to <=> n > 0) BY <1>5, <1>8
  <2> QED BY <2>4, <2>5
<1>11. bytes \in Seq(Bytes) /\ Heard(bytes, pos[i])
  <2>1. LengthsOf(TRUE) = Lengths BY <1>2 DEF LengthsOf
  <2> QED BY <1>1, <1>3, <1>9, <2>1, SliceHeard
<1>12. ASSUME NEW k \in 1..n PROVE IsAt(bytes[k], pos[i] + k - 1)
  <2>1. PICK j : j = from + k - 1 OBVIOUS
  <2>2. j \in from..to BY <1>5, <1>8, <2>1
  <2>3. pdu[j] = PDU[j] BY <1>1, <1>3, <2>2 DEF Undamaged
  <2>4. PDU[j] = Stream[pos[i] + k - 1] BY <1>1, <1>3, <1>6, <2>1, SlicesAre
  <2>5. PICK x \in Nat, e \in Nat, L \in Nat, z \in Nat :
          /\ x = pos[i] /\ e = FramesEnd /\ L = BlockLen /\ z = Size
          /\ x <= e + L
    <3>1. pos[i] \in 0..(FramesEnd + BlockLen) BY DEF Sending
    <3>2. FramesEnd + BlockLen \in Nat BY FramesEndNat, LayoutFacts
    <3>3. pos[i] \in Nat /\ pos[i] <= FramesEnd + BlockLen BY <3>1, <3>2
    <3> QED BY <3>3, FramesEndNat, LayoutFacts, SizeIs
  <2>6. n <= z
    <3>1. to <= z BY <1>5, <2>5
    <3> QED BY <1>5, <1>8, <3>1
  <2>7. x + k - 1 \in 0..(e + L + z) BY <2>5, <2>6
  <2>8. x + k - 1 \in 0..StreamEnd BY <2>5, <2>7 DEF StreamEnd
  <2>9. IsAt(Stream[x + k - 1], x + k - 1) BY <2>8, StreamAt
  <2> QED BY <1>10, <2>1, <2>3, <2>4, <2>5, <2>9
<1>13. Intact(bytes, pos[i]) BY <1>10, <1>12 DEF Intact
<1> QED BY <1>1, <1>3, <1>6, <1>9, <1>10, <1>11, <1>13

-----------------------------------------------------------------------------
(* The history of the calm, and the frames that were due.                  *)

(* What process_fixed_data does once it believes a width.                  *)
Processing(pdu, p, h, c, length, d) ==
  /\ p = Len(pdu) - 1 - sync_width'
  /\ c = process_fixed_ccc(h) /\ fixed_ready' = IsReady(h)
  /\ length = [i \in Subchannels |-> c[i].length]
  /\ d = [i \in Subchannels |-> process_subchannel(c[i],
            SubSeq(pdu, Start(length, i, p), Start(length, i + 1, p) - 1))]
  /\ subchannel' = [i \in Subchannels |-> d[i].state]
  /\ delivered' = [i \in Subchannels |-> delivered[i] \o d[i].frames]

(* It is one such choice.                                                  *)
LEMMA Processed ==
  ASSUME NEW pdu, process_fixed_data(pdu), ~(sync_count' < 2)
  PROVE  \E p, h, c, length, d : Processing(pdu, p, h, c, length, d)
<1> DEFINE Result(h, d) ==
             /\ ccc' = h.rest
             /\ fixed_ready' = IsReady(h)
             /\ subchannel' = [i \in Subchannels |-> d[i].state]
             /\ delivered' = [i \in Subchannels |-> delivered[i] \o d[i].frames]
<1>1. PICK p \in {Len(pdu) - 1 - sync_width'} :
      \E h \in {parse_hdlc(ccc, SubSeq(pdu, p + 1, Len(pdu) - 1), CCC_BUF)} :
      \E c \in {process_fixed_ccc(h)} :
      \E length \in {[i \in Subchannels |-> c[i].length]} :
      \E d \in {[i \in Subchannels |-> process_subchannel(c[i],
                   SubSeq(pdu, Start(length, i, p), Start(length, i + 1, p) - 1))]} :
        Result(h, d)
  BY Zenon DEF process_fixed_data
<1> HIDE DEF Result
<1>2. PICK h \in {parse_hdlc(ccc, SubSeq(pdu, p + 1, Len(pdu) - 1), CCC_BUF)} :
      \E c \in {process_fixed_ccc(h)} :
      \E length \in {[i \in Subchannels |-> c[i].length]} :
      \E d \in {[i \in Subchannels |-> process_subchannel(c[i],
                   SubSeq(pdu, Start(length, i, p), Start(length, i + 1, p) - 1))]} :
        Result(h, d)
  BY <1>1, Zenon
<1>3. PICK c \in {process_fixed_ccc(h)} :
      \E length \in {[i \in Subchannels |-> c[i].length]} :
      \E d \in {[i \in Subchannels |-> process_subchannel(c[i],
                   SubSeq(pdu, Start(length, i, p), Start(length, i + 1, p) - 1))]} :
        Result(h, d)
  BY <1>2, Zenon
<1>4. PICK length \in {[i \in Subchannels |-> c[i].length]} :
      \E d \in {[i \in Subchannels |-> process_subchannel(c[i],
                   SubSeq(pdu, Start(length, i, p), Start(length, i + 1, p) - 1))]} :
        Result(h, d)
  BY <1>3, Zenon
<1>5. PICK d \in {[i \in Subchannels |-> process_subchannel(c[i],
                   SubSeq(pdu, Start(length, i, p), Start(length, i + 1, p) - 1))]} :
        Result(h, d)
  BY <1>4, Zenon
<1>6. /\ p = Len(pdu) - 1 - sync_width'
      /\ c = process_fixed_ccc(h) /\ length = [i \in Subchannels |-> c[i].length]
      /\ d = [i \in Subchannels |-> process_subchannel(c[i],
                 SubSeq(pdu, Start(length, i, p), Start(length, i + 1, p) - 1))]
  OBVIOUS
<1>7. /\ fixed_ready' = IsReady(h)
      /\ subchannel' = [i \in Subchannels |-> d[i].state]
      /\ delivered' = [i \in Subchannels |-> delivered[i] \o d[i].frames]
  BY <1>5, Zenon DEF Result
<1>8. Processing(pdu, p, h, c, length, d) BY <1>6, <1>7, Zenon DEF Processing
<1> QED BY <1>8

(* The history of the calm: what is known of the window of a subchannel,   *)
(* and that the frames that were due were handed over.                     *)
ReadyInv ==
  fixed_ready =>
    sync_count = 2 /\ [i \in Subchannels |-> subchannel[i].length] = LengthsOf(TRUE)
CalmInv ==
  /\ ReadyInv
  /\ \A i \in Subchannels :
       /\ calm[i] \in Nat /\ (~fixed_ready => calm[i] = 0)
       /\ pos[i] < FramesEnd => InWindow(subchannel[i], pos[i], calm[i])
       /\ due[i] \subseteq {delivered[i][a] : a \in 1..Len(delivered[i])}

(* What a step gives of the frames that are complete with it.              *)
Gives(i, m) ==
  /\ pos'[i] < FramesEnd => InWindow(subchannel'[i], pos'[i], m + Lengths[i])
  /\ \A n \in 1..NFrames :
       /\ pos[i] < Complete(n) /\ Complete(n) <= pos[i] + Lengths[i]
       /\ FirstBlock(n) >= (pos[i] - m) + Lead
       => \E a \in 1..Len(delivered'[i]) : delivered'[i][a] = n

(* process_fixed_data gives it for the subchannels that are not damaged,   *)
(* and the lengths stay known.                                             *)
LEMMA ProcessCalm ==
  ASSUME IInv, ChannelInv, CalmInv, NEW pdu, Arrives(pdu), process_fixed_data(pdu), Send,
         sync_count' \in 0..2, sync_count' = 2 => sync_width' = Width
  PROVE  /\ ReadyInv'
         /\ fixed_ready' =>
              \A i \in Subchannels : Undamaged(pdu, i) => Gives(i, calm[i])
<1>1. sync_count \in 0..2 /\ fixed_ready \in BOOLEAN BY DEF IInv, ReceiverInv
<1>2. CASE sync_count' < 2
  <2>1. fixed_ready' = fixed_ready BY <1>2 DEF process_fixed_data
  <2>2. ~fixed_ready
    <3> SUFFICES ASSUME fixed_ready PROVE FALSE OBVIOUS
    <3>1. sync_count = 2 BY DEF CalmInv, ReadyInv
    <3>2. sync_count' = 2 BY <3>1 DEF process_fixed_data, Believed
    <3> QED BY <1>2, <3>2
  <2> QED BY <2>1, <2>2 DEF ReadyInv
<1>3. CASE ~(sync_count' < 2)
  <2>1. PICK p, h, c, length, d : Processing(pdu, p, h, c, length, d)
    BY <1>3, Processed
  <2>2. /\ p = Len(pdu) - 1 - sync_width'
        /\ c = process_fixed_ccc(h) /\ fixed_ready' = IsReady(h)
        /\ length = [i \in Subchannels |-> c[i].length]
        /\ d = [i \in Subchannels |-> process_subchannel(c[i],
                  SubSeq(pdu, Start(length, i, p), Start(length, i + 1, p) - 1))]
        /\ subchannel' = [i \in Subchannels |-> d[i].state]
        /\ delivered' = [i \in Subchannels |-> delivered[i] \o d[i].frames]
    BY <2>1 DEF Processing
  <2>3. p = Size - 1 - Width
    <3>1. sync_count' = 2 BY <1>3
    <3>2. Len(pdu) = Size BY DEF Arrives
    <3> QED BY <2>2, <3>1, <3>2
  <2>4. ASSUME NEW i \in Subchannels
        PROVE  /\ Kept(i, c[i]) /\ Orderly(c[i], delivered[i], pos[i]) /\ pos[i] \in Nat
               /\ calm[i] \in Nat
               /\ pos[i] < FramesEnd => InWindow(c[i], pos[i], calm[i])
    <3>1. Kept(i, subchannel[i]) /\ Orderly(subchannel[i], delivered[i], pos[i])
      BY DEF IInv, ReceiverInv, ChannelInv
    <3>2. pos[i] \in Nat BY FramesEndNat, LayoutFacts DEF IInv, Sending
    <3>3. calm[i] \in Nat BY DEF CalmInv
    <3>4. CASE IsReady(h) /\ ~fixed_ready
      <4>1. c[i] = [Unused EXCEPT !.length = Lengths[i]]
        BY <2>2, <3>4 DEF process_fixed_ccc
      <4>2. c[i].blocks = << >> /\ c[i].hdlc = << >> BY <4>1 DEF Unused
      <4>3. delivered[i] \in Seq(1..NFrames) /\ \A a \in 1..Len(delivered[i]) :
              Sent(End(delivered[i][a]), pos[i])
        BY <3>1 DEF Orderly
      <4>4. Kept(i, c[i]) /\ Orderly(c[i], delivered[i], pos[i])
        BY <3>2, <4>1, <4>2, <4>3, UnusedKept, UnusedOrderly
      <4>5. calm[i] = 0 BY <3>4 DEF CalmInv
      <4> QED BY <3>2, <4>4, <4>5, WindowNone
    <3>5. CASE ~(IsReady(h) /\ ~fixed_ready)
      <4>1. c[i] = subchannel[i] BY <2>2, <3>5 DEF process_fixed_ccc
      <4>2. pos[i] < FramesEnd => InWindow(c[i], pos[i], calm[i]) BY <4>1 DEF CalmInv
      <4> QED BY <3>1, <3>2, <3>3, <4>1, <4>2
    <3> QED BY <3>4, <3>5
  <2>5. fixed_ready' => length = Lengths
    <3> SUFFICES ASSUME fixed_ready' PROVE length = Lengths OBVIOUS
    <3>1. IsReady(h) BY <2>2
    <3>2. LengthsOf(TRUE) = Lengths BY LayoutFacts DEF LengthsOf
    <3>3. CASE ~fixed_ready
      <4>1. \A i \in Subchannels : c[i] = [Unused EXCEPT !.length = Lengths[i]]
        BY <2>2, <3>1, <3>3 DEF process_fixed_ccc
      <4>2. \A i \in Subchannels : c[i].length = Lengths[i] BY <4>1 DEF Unused
      <4>3. length = LengthsOf(TRUE) BY <2>2, <4>2 DEF LengthsOf
      <4> QED BY <3>2, <4>3
    <3>4. CASE fixed_ready
      <4>1. c = subchannel BY <2>2, <3>4 DEF process_fixed_ccc
      <4>2. [i \in Subchannels |-> subchannel[i].length] = LengthsOf(TRUE)
        BY <3>4 DEF CalmInv, ReadyInv
      <4> QED BY <2>2, <3>2, <4>1, <4>2
    <3> QED BY <3>3, <3>4
  <2>6. PICK stay \in BOOLEAN : \A i \in Subchannels :
           /\ pos[i] \in Nat /\ Lengths[i] \in Nat /\ pos[i] + Lengths[i] \in Nat
           /\ pos[i] <= pos[i] + Lengths[i]
           /\ pos'[i] = After(pos[i] + Lengths[i], stay)
    BY Moved DEF IInv
  <2>7. ReadyInv'
    <3> SUFFICES ASSUME fixed_ready'
                 PROVE  /\ sync_count' = 2
                        /\ [i \in Subchannels |-> subchannel'[i].length] = LengthsOf(TRUE)
      BY DEF ReadyInv
    <3>1. ASSUME NEW i \in Subchannels PROVE subchannel'[i].length = length[i]
      <4>1. length[i] = c[i].length BY <2>2
      <4>2. c[i] \in [length : {0, Lengths[i]}, blocks : Seq(Bytes), hdlc : Seq(Bytes)]
        BY <2>4 DEF Kept
      <4>3. \E r, s : d[i].state = [c[i] EXCEPT !.blocks = r, !.hdlc = s]
        BY <2>2 DEF process_subchannel
      <4>4. subchannel'[i] = d[i].state BY <2>2
      <4> QED BY <4>1, <4>2, <4>3, <4>4
    <3>2. \A i \in Subchannels : subchannel'[i].length = Lengths[i] BY <2>5, <3>1
    <3> QED BY <1>3, <3>2 DEF LengthsOf
  <2>8. ASSUME fixed_ready', NEW i \in Subchannels, Undamaged(pdu, i)
        PROVE  Gives(i, calm[i])
    <3>1. PICK bytes :
            bytes = SubSeq(pdu, Start(Lengths, i, p), Start(Lengths, i + 1, p) - 1)
      OBVIOUS
    <3>2. /\ bytes \in Seq(Bytes) /\ Heard(bytes, pos[i]) /\ Intact(bytes, pos[i])
          /\ Len(bytes) = Lengths[i]
      BY <2>3, <2>8, <3>1, SliceIntact DEF IInv
    <3>3. PICK o : o = process_subchannel(c[i], bytes) OBVIOUS
    <3>4. o = d[i] BY <2>2, <2>5, <2>8, <3>1, <3>3
    <3>5. PICK q \in Nat, m \in Nat, l \in Nat :
            q = pos[i] /\ m = calm[i] /\ l = Lengths[i]
      BY <2>4, <2>6
    <3>6. PICK k : k = c[i] OBVIOUS
    <3>7. /\ Kept(i, k) /\ Orderly(k, delivered[i], q)
          /\ q < FramesEnd => InWindow(k, q, m)
          /\ Heard(bytes, q) /\ Intact(bytes, q) /\ l = Len(bytes)
      BY <2>4, <3>2, <3>5, <3>6
    <3>8. PICK t : t = After(q + Len(bytes), stay) OBVIOUS
    <3>9. Forwards(o, q, m, bytes, t)
      <4>1. o = process_subchannel(k, bytes) /\ bytes \in Seq(Bytes) BY <3>2, <3>3, <3>5, <3>6
      <4>2. PICK g : g = delivered[i] OBVIOUS
      <4>3. Orderly(k, g, q) BY <3>7, <4>2
      <4> QED BY <3>7, <3>8, <4>1, <4>3, ChannelCalm
    <3>10. pos'[i] = t BY <2>6, <3>5, <3>7, <3>8
    <3>11. PICK f : f = o.frames OBVIOUS
    <3>12. f \in Seq(1..NFrames) /\ delivered[i] \in Seq(1..NFrames)
      <4>1. pos[i] + Len(bytes) \in Nat /\ pos[i] + Len(bytes) <= pos[i] + Len(bytes)
        BY <2>6, <3>2
      <4>2. Adds(delivered[i], o.frames) BY <2>4, <3>2, <3>3, <4>1, ChannelFrames
      <4>3. delivered[i] \in Seq(1..NFrames) BY <2>4 DEF Orderly
      <4> QED BY <3>11, <4>2, <4>3 DEF Adds
    <3>13. PICK e : e = delivered'[i] OBVIOUS
    <3>14. e = delivered[i] \o f BY <2>2, <3>4, <3>11, <3>13
    <3>15. \A a \in 1..Len(f) : \E b \in 1..Len(e) : e[b] = f[a]
      <4>1. /\ Len(e) = Len(delivered[i]) + Len(f)
            /\ Len(delivered[i]) \in Nat /\ Len(f) \in Nat
            /\ \A x \in 1..(Len(delivered[i]) + Len(f)) :
                 e[x] = IF x <= Len(delivered[i]) THEN delivered[i][x]
                        ELSE f[x - Len(delivered[i])]
        BY <3>12, <3>14, ConcatProperties, LenProperties
      <4> TAKE a \in 1..Len(f)
      <4>2. PICK j, b \in Nat : j = Len(delivered[i]) /\ b = j + a BY <4>1
      <4>3. b \in 1..Len(e) /\ e[b] = f[a] BY <4>1, <4>2
      <4> QED BY <4>3
    <3>16. subchannel'[i] = o.state BY <2>2, <3>4
    <3>17. pos'[i] < FramesEnd => InWindow(subchannel'[i], pos'[i], calm[i] + Lengths[i])
      BY <3>5, <3>6, <3>7, <3>9, <3>10, <3>16 DEF Forwards
    <3>18. ASSUME NEW n \in 1..NFrames,
                  pos[i] < Complete(n), Complete(n) <= pos[i] + Lengths[i],
                  FirstBlock(n) >= (pos[i] - calm[i]) + Lead
           PROVE  \E b \in 1..Len(delivered'[i]) : delivered'[i][b] = n
      <4>1. \E a \in 1..Len(f) : f[a] = n BY <3>5, <3>7, <3>9, <3>11, <3>18 DEF Forwards
      <4> QED BY <3>13, <3>15, <4>1
    <3> QED BY <3>17, <3>18 DEF Gives
  <2> QED BY <2>7, <2>8
<1> QED BY <1>1, <1>2, <1>3

(* The cap on the calm is a number.                                        *)
LEMMA CapIs == \A i \in Subchannels : CalmCap(i) \in Nat
<1> TAKE i \in Subchannels
<1>1. FrameLen \div PAYLOAD \in Nat BY LayoutFacts, DivMod
<1>2. PICK k \in Nat : k = FrameLen \div PAYLOAD + 2 BY <1>1
<1>3. PICK x \in Nat : x = k * BlockLen
  <2>1. k * BlockLen \in Nat BY LayoutFacts, ProductNat
  <2> QED BY <2>1
<1>4. CalmCap(i) = PAYLOAD + x + Lengths[i] BY <1>2, <1>3 DEF CalmCap, Lead
<1> QED BY <1>4, LayoutFacts

(* What the history records of a step.                                     *)
LEMMA RecordedCalm ==
  ASSUME IInv, IInv', CalmInv, ChannelInv, NEW hit, Recorded(hit), ReadyInv', Handed,
         fixed_ready' => \A i \in Subchannels : i \notin hit => Gives(i, calm[i])
  PROVE  CalmInv'
<1> SUFFICES ASSUME NEW i \in Subchannels
             PROVE  /\ calm'[i] \in Nat /\ (~fixed_ready' => calm'[i] = 0)
                    /\ pos'[i] < FramesEnd => InWindow(subchannel'[i], pos'[i], calm'[i])
                    /\ due'[i] \subseteq {delivered'[i][a] : a \in 1..Len(delivered'[i])}
  BY DEF CalmInv
<1>1. PICK p \in Nat, l \in Nat, m \in Nat, t \in Nat :
        p = pos[i] /\ l = Lengths[i] /\ m = calm[i] /\ t = pos'[i]
  <2>1. pos[i] \in 0..(FramesEnd + BlockLen) /\ pos'[i] \in 0..(FramesEnd + BlockLen)
    BY DEF IInv, Sending
  <2>2. FramesEnd + BlockLen \in Nat BY FramesEndNat, LayoutFacts
  <2>3. pos[i] \in Nat /\ pos'[i] \in Nat BY <2>1, <2>2
  <2>4. calm[i] \in Nat BY DEF CalmInv
  <2>5. Lengths[i] \in Nat BY LayoutFacts
  <2> QED BY <2>3, <2>4, <2>5
<1>2. PICK k : k = calm'[i] OBVIOUS
<1>3. k = IF i \in hit \/ ~fixed_ready' THEN 0 ELSE Min2(CalmCap(i), m + l)
  BY <1>1, <1>2 DEF Recorded
<1>4. CalmCap(i) \in Nat BY CapIs
<1>5. k \in Nat /\ k <= m + l /\ (k # 0 => i \notin hit /\ fixed_ready')
  <2>1. CASE i \in hit \/ ~fixed_ready'
    <3>1. k = 0 BY <1>3, <2>1
    <3> QED BY <3>1
  <2>2. CASE ~(i \in hit \/ ~fixed_ready')
    <3>1. k = Min2(CalmCap(i), m + l) BY <1>3, <2>2
    <3> QED BY <1>4, <2>2, <3>1 DEF Min2
  <2> QED BY <2>1, <2>2
<1>6. ~fixed_ready' => k = 0 BY <1>5
<1>7. Kept(i, subchannel'[i]) BY DEF IInv, ReceiverInv
<1>8. k # 0 => Gives(i, m) BY <1>1, <1>5
<1>9. t < FramesEnd => InWindow(subchannel'[i], t, k)
  <2>1. CASE k = 0 BY <1>7, <2>1, WindowNone
  <2>2. CASE k # 0
    <3>1. t < FramesEnd => InWindow(subchannel'[i], t, m + l)
      BY <1>1, <1>8, <2>2 DEF Gives
    <3>2. m + l \in Nat /\ k \in Nat /\ k <= m + l BY <1>5
    <3> QED BY <1>7, <3>1, <3>2, WindowWeaker
  <2> QED BY <2>1, <2>2
<1>10. PICK old, new : old = delivered[i] /\ new = delivered'[i] OBVIOUS
<1>11. \A a \in 1..Len(old) : \E b \in 1..Len(new) : new[b] = old[a]
  <2>1. PICK frames : Adds(old, frames) /\ new = old \o frames
    BY <1>10 DEF Handed
  <2>2. frames \in Seq(1..NFrames) /\ old \in Seq(1..NFrames)
    BY <1>10, <2>1 DEF Adds, ChannelInv, Orderly
  <2>3. /\ Len(new) = Len(old) + Len(frames) /\ Len(old) \in Nat /\ Len(frames) \in Nat
        /\ \A j \in 1..(Len(old) + Len(frames)) :
             new[j] = IF j <= Len(old) THEN old[j] ELSE frames[j - Len(old)]
    BY <2>1, <2>2, ConcatProperties, LenProperties
  <2> TAKE a \in 1..Len(old)
  <2>4. a \in 1..Len(new) /\ a \in 1..(Len(old) + Len(frames)) /\ a <= Len(old) BY <2>3
  <2>5. new[a] = old[a] BY <2>3, <2>4
  <2> QED BY <2>4, <2>5
<1>12. ASSUME NEW n \in due'[i] PROVE \E b \in 1..Len(new) : new[b] = n
  <2>1. n \in due[i] \/ /\ n \in 1..NFrames /\ p < Complete(n) /\ Complete(n) <= p + l
                        /\ k >= (p + l) - FirstBlock(n) + Lead
    BY <1>1, <1>2, <1>12 DEF Recorded
  <2>2. CASE n \in due[i]
    <3>1. \E a \in 1..Len(old) : old[a] = n BY <1>10, <2>2 DEF CalmInv
    <3> QED BY <1>11, <3>1
  <2>3. CASE n \notin due[i]
    <3>1. /\ n \in 1..NFrames /\ p < Complete(n) /\ Complete(n) <= p + l
          /\ k >= (p + l) - FirstBlock(n) + Lead
      BY <2>1, <2>3
    <3>2. PICK f \in Nat, x \in Int, e \in Nat :
            f = FirstBlock(n) /\ x = Complete(n) /\ e = Lead /\ f < x
      BY <3>1, CompleteIs, LayoutFacts DEF Lead
    <3>3. x <= p + l /\ k >= (p + l) - f + e BY <3>1, <3>2
    <3>4. k # 0 BY <1>5, <3>2, <3>3
    <3>5. f >= (p - m) + e BY <1>5, <3>3
    <3>6. FirstBlock(n) >= (pos[i] - m) + Lead BY <1>1, <3>2, <3>5
    <3>7. pos[i] < Complete(n) /\ Complete(n) <= pos[i] + Lengths[i] BY <1>1, <3>1
    <3> QED BY <1>8, <1>10, <3>1, <3>4, <3>6, <3>7 DEF Gives
  <2> QED BY <2>2, <2>3
<1>13. due'[i] \subseteq {new[b] : b \in 1..Len(new)} BY <1>12
<1> QED BY <1>1, <1>2, <1>5, <1>6, <1>9, <1>10, <1>13

(* A damaged byte leaves the subchannels it does not lie in as they were.  *)
LEMMA DamageElsewhere ==
  ASSUME Sending, NEW k \in (Len(Audio) + 1)..Size, NEW b \in Damages(k),
         NEW i \in Subchannels,
         k \notin Start(Lengths, i, Size - 1 - Width)
                    ..(Start(Lengths, i + 1, Size - 1 - Width) - 1)
  PROVE  Undamaged([PDU EXCEPT ![k] = b], i)
<1>1. PICK sent : sent = PDU OBVIOUS
<1>2. sent \in Seq(Bytes) /\ Len(sent) = Size BY <1>1, PDUIs
<1>3. k \in 1..Len(sent)
  <2>1. Audio \in [1..Width + 3 -> {Junk}] BY DEF Audio
  <2>2. Len(Audio) = Width + 3 BY <2>1, FcnIsSeq, LayoutFacts
  <2> QED BY <1>2, <2>2, SizeIs, LayoutFacts
<1>4. b \in Bytes BY DEF Damages, Bytes
<1>5. PICK pdu : pdu = [sent EXCEPT ![k] = b] OBVIOUS
<1>6. \A j \in 1..Size : pdu[j] = IF j = k THEN b ELSE sent[j]
  BY <1>2, <1>3, <1>4, <1>5, ExceptSeq
<1>7. PICK from, to :
        /\ from = Start(Lengths, i, Size - 1 - Width)
        /\ to = Start(Lengths, i + 1, Size - 1 - Width) - 1
  OBVIOUS
<1>8. from \in Nat \ {0} /\ to \in Nat /\ to <= Size
  <2>1. Lengths \in [Subchannels -> Nat]
        /\ \A j \in Subchannels : Lengths[j] \in {0, Lengths[j]}
    BY LayoutFacts
  <2>2. Width \in 0..(Width + 2) BY LayoutFacts
  <2> QED BY <1>7, <2>1, <2>2, Within
<1>9. ASSUME NEW j \in from..to PROVE pdu[j] = sent[j]
  <2>1. j \in 1..Size BY <1>8, SizeIs
  <2>2. j # k BY <1>7
  <2> QED BY <1>6, <2>1, <2>2
<1>10. Undamaged(pdu, i) BY <1>1, <1>7, <1>9 DEF Undamaged
<1> QED BY <1>1, <1>5, <1>10

(* A receiver just started: nothing is due.                                *)
LEMMA InitCalm == ASSUME Init, IInv PROVE CalmInv
<1>1. /\ fixed_ready = FALSE /\ calm = [i \in Subchannels |-> 0]
      /\ due = [i \in Subchannels |-> {}]
  BY DEF Init
<1>2. ReadyInv BY <1>1 DEF ReadyInv
<1>3. ASSUME NEW i \in Subchannels
      PROVE  /\ calm[i] = 0 /\ due[i] = {} /\ InWindow(subchannel[i], pos[i], 0)
  <2>1. Kept(i, subchannel[i]) BY DEF IInv, ReceiverInv
  <2>2. pos[i] \in Nat BY FramesEndNat, LayoutFacts DEF IInv, Sending
  <2> QED BY <1>1, <2>1, <2>2, WindowNone
<1> QED BY <1>1, <1>2, <1>3 DEF CalmInv

(* Each step keeps the history true.                                       *)
LEMMA CalmStep ==
  ASSUME MaxErrors <= 2, IInv, IInv', ChannelInv, CalmInv, [Next]_vars
  PROVE  CalmInv'
<1>1. Sending /\ Sending' BY DEF IInv
<1>2. sync_count' \in 0..2 /\ (sync_count' = 2 => sync_width' = Width)
  BY LayoutFacts DEF IInv, ReceiverInv, WidthInv
<1>3. CASE Receive
  <2>1. process_fixed_data(PDU) /\ Send /\ Recorded({}) BY <1>3 DEF Receive
  <2>2. Handed BY <1>1, <1>2, <2>1, WholeArrives, ProcessFrames
  <2>3. \A i \in Subchannels : Undamaged(PDU, i) BY DEF Undamaged
  <2>4. /\ ReadyInv'
        /\ fixed_ready' => \A i \in Subchannels : Gives(i, calm[i])
    BY <1>1, <1>2, <2>1, <2>3, WholeArrives, ProcessCalm
  <2> QED BY <2>1, <2>2, <2>4, RecordedCalm
<1>4. ASSUME NEW k \in (Len(Audio) + 1)..Size, NEW b \in Damages(k), Damage(k, b)
      PROVE  CalmInv'
  <2>1. PICK pdu : pdu = [PDU EXCEPT ![k] = b] OBVIOUS
  <2>2. process_fixed_data(pdu) /\ Send BY <1>4, <2>1 DEF Damage
  <2>3. PICK hit : /\ Recorded(hit)
                   /\ hit = {i \in Subchannels :
                               k \in Start(Lengths, i, Size - 1 - Width)
                                       ..(Start(Lengths, i + 1, Size - 1 - Width) - 1)}
    BY <1>4 DEF Damage
  <2>4. Arrives(pdu) BY <1>1, <2>1, DamagedArrives
  <2>5. Handed BY <1>2, <2>2, <2>4, ProcessFrames
  <2>6. \A i \in Subchannels : i \notin hit => Undamaged(pdu, i)
    BY <1>1, <2>1, <2>3, DamageElsewhere
  <2>7. /\ ReadyInv'
        /\ fixed_ready' => \A i \in Subchannels : i \notin hit => Gives(i, calm[i])
    BY <1>2, <2>2, <2>4, <2>6, ProcessCalm
  <2> QED BY <2>3, <2>5, <2>7, RecordedCalm
<1>5. CASE Miss
  <2>1. /\ UNCHANGED <<sync_count, fixed_ready, subchannel, delivered>>
        /\ Send /\ Recorded(Subchannels)
    BY <1>5 DEF Miss, receiver
  <2>2. Handed BY <2>1, IdleFrames
  <2>3. ReadyInv' BY <2>1 DEF CalmInv, ReadyInv
  <2>4. \A i \in Subchannels : i \notin Subchannels => Gives(i, calm[i]) OBVIOUS
  <2> QED BY <2>1, <2>2, <2>3, <2>4, RecordedCalm
<1>6. CASE Reset
  <2>1. /\ fixed_ready' = FALSE /\ calm' = [i \in Subchannels |-> 0]
        /\ UNCHANGED <<subchannel, pos, delivered, due>>
    BY <1>6 DEF Reset
  <2>2. ReadyInv' BY <2>1 DEF ReadyInv
  <2>3. ASSUME NEW i \in Subchannels
        PROVE  /\ calm'[i] = 0 /\ InWindow(subchannel'[i], pos'[i], 0)
               /\ due'[i] \subseteq {delivered'[i][a] : a \in 1..Len(delivered'[i])}
    <3>1. Kept(i, subchannel[i]) BY DEF IInv, ReceiverInv
    <3>2. pos[i] \in Nat BY FramesEndNat, LayoutFacts DEF IInv, Sending
    <3>3. InWindow(subchannel[i], pos[i], 0) BY <3>1, <3>2, WindowNone
    <3> QED BY <2>1, <3>3 DEF CalmInv
  <2> QED BY <2>1, <2>2, <2>3 DEF CalmInv
<1>7. CASE UNCHANGED vars
  <2>1. UNCHANGED <<sync_count, fixed_ready, subchannel, pos, delivered, calm, due>>
    BY <1>7 DEF vars, receiver, history
  <2>2. ReadyInv' BY <2>1 DEF CalmInv, ReadyInv
  <2>3. ASSUME NEW i \in Subchannels
        PROVE  /\ calm'[i] \in Nat /\ (~fixed_ready' => calm'[i] = 0)
               /\ pos'[i] < FramesEnd => InWindow(subchannel'[i], pos'[i], calm'[i])
               /\ due'[i] \subseteq {delivered'[i][a] : a \in 1..Len(delivered'[i])}
    BY <2>1 DEF CalmInv
  <2> QED BY <2>2, <2>3 DEF CalmInv
<1> QED BY <1>3, <1>4, <1>5, <1>6, <1>7 DEF Next

(* For any layout of the channel, and with no more than two faults: a      *)
(* frame whose first block begins a payload's length after the last byte   *)
(* that did not get through to its subchannel, or later, is handed to      *)
(* output_aas_push with the PDU that completes it, wherever the window     *)
(* stood and whatever was damaged in the other subchannels.                *)
THEOREM CleanCorrect ==
  ASSUME MaxErrors <= 2
  PROVE  Spec => []CleanDelivers
<1>1. ASSUME IInv, IInv', ChannelInv, [Next]_vars PROVE ChannelInv'
  BY <1>1, FrameStep
<1>2. ASSUME IInv, IInv', ChannelInv, CalmInv, [Next]_vars PROVE CalmInv'
  BY <1>2, CalmStep
<1>3. Init => IInv /\ ChannelInv /\ CalmInv BY InitInv, InitFrames, InitCalm
<1>4. ASSUME CalmInv, ChannelInv PROVE CleanDelivers
  <2> SUFFICES ASSUME NEW i \in Subchannels PROVE due[i] \subseteq ToSet(delivered[i])
    BY DEF CleanDelivers, Used
  <2>1. delivered[i] \in Seq(1..NFrames) BY <1>4 DEF ChannelInv, Orderly
  <2>2. ToSet(delivered[i]) = {delivered[i][a] : a \in 1..Len(delivered[i])}
    BY <2>1 DEF ToSet
  <2> QED BY <1>4, <2>2 DEF CalmInv
<1> QED BY <1>1, <1>2, <1>3, <1>4, Invariance, PTL DEF Spec
=============
