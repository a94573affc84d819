------------------------ MODULE ElasticBufferProofs -------------------------
(***************************************************************************)
(* Proofs about ElasticBuffer, for a ring of any even length, any channel  *)
(* and any number of lost or repeated blocks: audio_offset is the place of *)
(* the packet the station means to be heard, the ring holds what was       *)
(* received and is not past, and a block plays packets that are due.       *)
(*                                                                         *)
(* All numbers of the code are taken modulo the length of the ring; the    *)
(* proofs speak of numbers that are equal modulo it (Cong), and of the one *)
(* number a slot stands for among those from `now' on.                     *)
(***************************************************************************)
EXTENDS ElasticBuffer, TLAPS

-----------------------------------------------------------------------------
(* Remainders.                                                             *)

(* A remainder is what its name says, for any divisor above 0.             *)
LEMMA DivMod ==
  ASSUME NEW D \in Int, D > 0, NEW a \in Int
  PROVE  /\ a % D \in Int /\ 0 <= a % D /\ a % D < D
         /\ \E q \in Int : a = D * q + (a % D)
<1>1. a % D = a - D * (a \div D) OBVIOUS
<1>2. PICK q \in Int : q = a \div D OBVIOUS
<1>3. a % D \in 0..(D - 1) OBVIOUS
<1>4. PICK r \in 0..(D - 1) : r = a % D BY <1>3
<1>5. r = a - D * q BY <1>1, <1>2, <1>4
<1>6. a = D * q + r BY <1>5
<1>7. \E z \in Int : a = D * z + r BY <1>6
<1>8. r \in Int /\ 0 <= r /\ r < D BY <1>4
<1> QED BY <1>4, <1>7, <1>8

(* Two numbers less than D apart that differ by a multiple of D are equal. *)
LEMMA Near ==
  ASSUME NEW D \in Int, D > 0, NEW a \in Int, NEW b \in Int, NEW q \in Int,
         a - b = D * q, a - b < D, b - a < D
  PROVE  a = b
<1>1. q >= 1 => D * q >= D OBVIOUS
<1>2. q <= -1 => D * q <= -D
  <2>1. PICK p \in Int : p = -q OBVIOUS
  <2>2. p >= 1 => D * p >= D OBVIOUS
  <2>3. D * p = -(D * q) BY <2>1
  <2> QED BY <2>1, <2>2, <2>3
<1>3. q = 0 BY <1>1, <1>2
<1> QED BY <1>3

(* Numbers that differ by a multiple of D have one remainder ...           *)
LEMMA SameRemainder ==
  ASSUME NEW D \in Int, D > 0, NEW a \in Int, NEW b \in Int, NEW q \in Int,
         a - b = D * q
  PROVE  a % D = b % D
<1>1. PICK r : r = a % D OBVIOUS
<1>2. PICK p \in Int : a = D * p + r BY <1>1, DivMod
<1>3. PICK t : t = b % D OBVIOUS
<1>4. PICK s \in Int : b = D * s + t BY <1>3, DivMod
<1>5. r \in Int /\ 0 <= r /\ r < D /\ t \in Int /\ 0 <= t /\ t < D
  BY <1>1, <1>3, DivMod
<1>6. a = D * p + r /\ b = D * s + t
  BY <1>2, <1>4
<1>7. PICK w \in Int : w = q - p + s OBVIOUS
<1>8. r - t = D * w
  <2>1. D * w = D * q - D * p + D * s BY <1>7
  <2> PICK x \in Int : x = D * q OBVIOUS
  <2> PICK y \in Int : y = D * p OBVIOUS
  <2> PICK z \in Int : z = D * s OBVIOUS
  <2>2. a = y + r /\ b = z + t /\ a - b = x BY <1>6
  <2>3. r - t = x - y + z BY <2>2, <1>5
  <2> QED BY <2>1, <2>3
<1>9. r = t BY <1>5, <1>8, Near
<1> QED BY <1>9, <1>1, <1>3

(* ... and the reverse.                                                    *)
LEMMA RemainderSame ==
  ASSUME NEW D \in Int, D > 0, NEW a \in Int, NEW b \in Int, a % D = b % D
  PROVE  \E q \in Int : a - b = D * q
<1>1. PICK r : r = a % D /\ r = b % D OBVIOUS
<1>2. PICK p \in Int : a = D * p + r BY <1>1, DivMod
<1>3. PICK s \in Int : b = D * s + r BY <1>1, DivMod
<1>4. a = D * p + r /\ b = D * s + r /\ r \in Int
  BY <1>2, <1>3, <1>1, DivMod
<1>5. a - b = D * (p - s) BY <1>4
<1> QED BY <1>5

-----------------------------------------------------------------------------
(* Numbers equal modulo the ring.                                          *)

Cong(a, b) == \E q \in Int : a - b = ELASTIC_BUFFER_LEN * q

(* The ring has an even number of slots.                                   *)
LEMMA RingIs ==
  /\ ELASTIC_BUFFER_LEN \in Int /\ ELASTIC_BUFFER_LEN > 0
  /\ Half \in Int /\ Half > 0 /\ ELASTIC_BUFFER_LEN = 2 * Half
<1>1. ELASTIC_BUFFER_LEN \in Nat /\ ELASTIC_BUFFER_LEN > 0 /\ ELASTIC_BUFFER_LEN % 2 = 0
  BY RingAssumption
<1>2. Half = ELASTIC_BUFFER_LEN \div 2 BY DEF Half
<1> QED BY <1>1, <1>2

(* Equality modulo the ring is an equivalence ...                          *)
LEMMA CongIs ==
  ASSUME NEW a \in Int, NEW b \in Int
  PROVE  Cong(a, a) /\ (Cong(a, b) => Cong(b, a))
<1> PICK L \in Int : L = ELASTIC_BUFFER_LEN BY RingIs
<1>1. a - a = L * 0 OBVIOUS
<1>2. ASSUME NEW q \in Int, a - b = L * q PROVE b - a = L * (-q) BY <1>2
<1>3. ASSUME NEW q \in Int, a - b = L * q PROVE \E r \in Int : b - a = L * r
  <2>1. -q \in Int OBVIOUS
  <2> QED BY <2>1, <1>2, <1>3
<1> QED BY <1>1, <1>3 DEF Cong

LEMMA CongTrans ==
  ASSUME NEW a \in Int, NEW b \in Int, NEW c \in Int, Cong(a, b), Cong(b, c)
  PROVE  Cong(a, c)
<1> PICK L \in Int : L = ELASTIC_BUFFER_LEN BY RingIs
<1>1. PICK q \in Int : a - b = L * q BY DEF Cong
<1>2. PICK r \in Int : b - c = L * r BY DEF Cong
<1>3. a - c = L * (q + r) BY <1>1, <1>2
<1>4. PICK z \in Int : z = q + r OBVIOUS
<1> QED BY <1>3, <1>4 DEF Cong

(* ... that sums and differences respect, and a turn of the ring.          *)
LEMMA CongSum ==
  ASSUME NEW a \in Int, NEW b \in Int, NEW c \in Int, NEW d \in Int,
         Cong(a, b), Cong(c, d)
  PROVE  Cong(a + c, b + d) /\ Cong(a - c, b - d)
<1> PICK L \in Int : L = ELASTIC_BUFFER_LEN BY RingIs
<1>1. PICK q \in Int : a - b = L * q BY DEF Cong
<1>2. PICK r \in Int : c - d = L * r BY DEF Cong
<1> PICK x \in Int : x = L * q OBVIOUS
<1> PICK y \in Int : y = L * r OBVIOUS
<1>3. L * (q + r) = L * q + L * r /\ L * (q - r) = L * q - L * r OBVIOUS
<1>4. (a + c) - (b + d) = x + y /\ (a - c) - (b - d) = x - y BY <1>1, <1>2
<1>5. (a + c) - (b + d) = L * (q + r) /\ (a - c) - (b - d) = L * (q - r)
  BY <1>3, <1>4
<1>6. q + r \in Int /\ q - r \in Int OBVIOUS
<1> QED BY <1>5, <1>6 DEF Cong

LEMMA CongShift ==
  ASSUME NEW a \in Int, NEW b \in Int, NEW c \in Int, Cong(a, b)
  PROVE  Cong(a + c, b + c) /\ Cong(a - c, b - c)
<1>1. Cong(c, c) BY CongIs
<1> QED BY <1>1, CongSum

LEMMA CongTurn ==
  ASSUME NEW a \in Int
  PROVE  Cong(a + ELASTIC_BUFFER_LEN, a) /\ Cong(ELASTIC_BUFFER_LEN + a, a)
<1> PICK L \in Int : L = ELASTIC_BUFFER_LEN BY RingIs
<1>1. (a + L) - a = L * 1 /\ (L + a) - a = L * 1 OBVIOUS
<1> QED BY <1>1 DEF Cong

(* A slot is a number of the ring, and which one Cong tells.               *)
LEMMA WrapIs ==
  ASSUME NEW a \in Int
  PROVE  /\ Wrap(a) \in Slots /\ Wrap(a) \in Int /\ 0 <= Wrap(a)
         /\ Wrap(a) < ELASTIC_BUFFER_LEN
         /\ Cong(a, Wrap(a)) /\ Cong(Wrap(a), a)
<1> PICK L \in Int : L = ELASTIC_BUFFER_LEN BY RingIs
<1> PICK w : w = Wrap(a) OBVIOUS
<1>1. w = a % L /\ L > 0 BY RingIs DEF Wrap
<1>2. w \in Int /\ 0 <= w /\ w < L BY <1>1, DivMod
<1>3. PICK q \in Int : a = L * q + w BY <1>1, DivMod
<1>4. a - w = L * q BY <1>2, <1>3
<1>5. Cong(a, w) BY <1>4 DEF Cong
<1>6. Cong(w, a) BY <1>2, <1>5, CongIs
<1> QED BY <1>2, <1>5, <1>6 DEF Slots

(* Two numbers share a slot exactly when they are equal modulo the ring.   *)
LEMMA WrapSame ==
  ASSUME NEW a \in Int, NEW b \in Int
  PROVE  Wrap(a) = Wrap(b) <=> Cong(a, b)
<1> PICK L \in Int : L = ELASTIC_BUFFER_LEN BY RingIs
<1>1. L > 0 BY RingIs
<1>2. ASSUME NEW q \in Int, a - b = L * q PROVE a % L = b % L
  <2>1. L > 0 /\ a - b = L * q BY <1>1, <1>2
  <2> QED BY ONLY <2>1, SameRemainder, L \in Int, q \in Int, a \in Int, b \in Int
<1>3. ASSUME a % L = b % L PROVE \E q \in Int : a - b = L * q
  BY <1>1, <1>3, RemainderSame
<1> QED BY <1>2, <1>3 DEF Cong, Wrap

(* Within one turn of the ring a slot has one number ...                   *)
LEMMA OneNumber ==
  ASSUME NEW a \in Int, NEW b \in Int, Cong(a, b),
         a - b < ELASTIC_BUFFER_LEN, b - a < ELASTIC_BUFFER_LEN
  PROVE  a = b
BY RingIs, Near DEF Cong

(* ... and it has one, wherever the turn begins.                           *)
LEMMA HasNumber ==
  ASSUME NEW m \in Int, NEW s \in Slots
  PROVE  \E n \in m..(m + ELASTIC_BUFFER_LEN - 1) : n = m + Wrap(s - m) /\ Wrap(n) = s
<1> PICK n : n = m + Wrap(s - m) OBVIOUS
<1>1. s \in Int /\ s - m \in Int BY RingIs DEF Slots
<1>2. n \in Int /\ n \in m..(m + ELASTIC_BUFFER_LEN - 1) BY <1>1, WrapIs, RingIs
<1>3. Cong(Wrap(s - m), s - m) BY <1>1, WrapIs
<1>4. Cong(Wrap(s - m) + m, (s - m) + m)
  <2> PICK w : w = Wrap(s - m) OBVIOUS
  <2> PICK d : d = s - m OBVIOUS
  <2>1. w \in Int /\ d \in Int /\ Cong(w, d) BY <1>1, <1>3, WrapIs
  <2> QED BY <2>1, CongShift
<1>5. Wrap(s - m) + m = n /\ (s - m) + m = s BY <1>1, WrapIs
<1>6. Cong(n, s) BY <1>4, <1>5
<1>7. Wrap(n) = Wrap(s) BY <1>1, <1>2, <1>6, WrapSame
<1>8. Wrap(s) = s
  <2>1. Cong(Wrap(s), s) /\ Wrap(s) \in Int /\ 0 <= Wrap(s) /\ Wrap(s) < ELASTIC_BUFFER_LEN
    BY <1>1, WrapIs
  <2>2. 0 <= s /\ s < ELASTIC_BUFFER_LEN BY RingIs DEF Slots
  <2> QED BY <2>1, <2>2, <1>1, RingIs, OneNumber
<1> QED BY <1>2, <1>7, <1>8

-----------------------------------------------------------------------------
(* Places in the stream.                                                   *)

StationOK == station \in [channel : Channels, latency : Latencies, phase : {0, Half}]

(* What the assumptions say of the station's channel and latency.          *)
LEMMA StationIs ==
  ASSUME StationOK
  PROVE  /\ channel.blocks \in Int /\ channel.blocks > 0
         /\ channel.audio_frames \in Int /\ channel.audio_frames > 0
         /\ channel.avg \in Int /\ channel.avg = channel.blocks * channel.audio_frames
         /\ channel.audio_frames <= channel.avg
         /\ channel.avg > 0 /\ channel.avg <= Half
         /\ (PduSeqs * channel.avg) % Half = 0
         /\ PduSeqs \in Int /\ PduSeqs > 0
         /\ station.latency \in Int /\ 0 <= station.latency
         /\ 2 * station.latency < ELASTIC_BUFFER_LEN
         /\ station.phase \in Int /\ station.phase \in {0, Half} /\ station.phase >= 0
<1>1. channel \in Channels /\ station.latency \in Latencies /\ station.phase \in {0, Half}
  BY DEF StationOK, channel
<1>2. /\ channel.blocks \in Nat \ {0} /\ channel.audio_frames \in Nat \ {0}
      /\ channel.avg = channel.blocks * channel.audio_frames /\ channel.avg <= Half
      /\ (PduSeqs * channel.avg) % Half = 0
  BY <1>1, ChannelAssumption
<1>3. PICK b \in Int : b = channel.blocks BY <1>2
<1>4. PICK a \in Int : a = channel.audio_frames BY <1>2
<1>5. b > 0 /\ a > 0 BY <1>2, <1>3, <1>4
<1>6. b * a >= a /\ b * a \in Int
  <2>1. (b - 1) * a >= 0 BY <1>5
  <2>2. (b - 1) * a = b * a - a OBVIOUS
  <2> PICK x \in Int : x = b * a OBVIOUS
  <2> QED BY <2>1, <2>2
<1>7. channel.avg \in Int /\ channel.avg >= channel.audio_frames
  BY <1>2, <1>3, <1>4, <1>6
<1>8. PduSeqs \in Int /\ PduSeqs > 0 BY RingAssumption
<1>9. station.latency \in Int /\ 0 <= station.latency
      /\ 2 * station.latency < ELASTIC_BUFFER_LEN
  <2> PICK l : l = station.latency OBVIOUS
  <2>1. l \in Latencies BY <1>1
  <2>2. l \in 0..(PduSeqs - 1) BY <2>1, StationAssumption
  <2>3. 2 * l < ELASTIC_BUFFER_LEN BY <2>1, StationAssumption
  <2>4. l \in Int /\ 0 <= l BY <2>2, <1>8
  <2> QED BY <2>3, <2>4
<1> QED BY <1>1, <1>2, <1>7, <1>8, <1>9, RingIs

(* The packet to play with the PDU of a frame moves on by the packets a    *)
(* PDU stands for, and is no packet from before the first one.             *)
LEMMA BaseIs ==
  ASSUME StationOK, NEW k \in Int, k >= PduSeqs * ELASTIC_BUFFER_LEN
  PROVE  /\ k \in Nat /\ k + 1 >= PduSeqs * ELASTIC_BUFFER_LEN
         /\ Base(k) \in Nat /\ Base(k + 1) = Base(k) + channel.avg
<1>1. PICK a \in Int : a = channel.avg BY StationIs
<1>2. PICK P \in Int : P = PduSeqs BY StationIs
<1>3. PICK L \in Int : L = ELASTIC_BUFFER_LEN BY RingIs
<1>4. PICK t \in Int : t = station.latency BY StationIs
<1>5. PICK h \in Int : h = station.phase BY StationIs
<1>6. a > 0 /\ P > 0 /\ L > 0 /\ 2 * t < L /\ h >= 0
  BY <1>1, <1>2, <1>3, <1>4, <1>5, StationIs, RingIs
<1>7. P * L >= L
  <2>1. (P - 1) * L >= 0 BY <1>6
  <2>2. (P - 1) * L = P * L - L OBVIOUS
  <2> PICK x \in Int : x = P * L OBVIOUS
  <2> QED BY <2>1, <2>2
<1>8. k >= L /\ k + 1 >= P * L
  <2> PICK x \in Int : x = P * L OBVIOUS
  <2>1. k >= x BY <1>2, <1>3
  <2> QED BY <2>1, <1>7
<1>9. k * a >= k
  <2>1. k * (a - 1) >= 0 BY <1>6, <1>8
  <2>2. k * (a - 1) = k * a - k OBVIOUS
  <2> PICK x \in Int : x = k * a OBVIOUS
  <2> QED BY <2>1, <2>2
<1>10. (k + 1) * a = k * a + a OBVIOUS
<1>11. Base(k) = k * a - 2 * t + h /\ Base(k + 1) = (k + 1) * a - 2 * t + h
  BY <1>1, <1>4, <1>5 DEF Base
<1>12. PICK x \in Int : x = k * a OBVIOUS
<1>13. Base(k) = x - 2 * t + h /\ Base(k + 1) = x + a - 2 * t + h /\ x >= k
  BY <1>9, <1>10, <1>11, <1>12
<1>14. Base(k) \in Nat /\ Base(k + 1) = Base(k) + a BY <1>6, <1>8, <1>13
<1> QED BY <1>1, <1>2, <1>3, <1>6, <1>8, <1>14

(* A PDU starts at most half a ring after the packet to play with it.      *)
LEMMA StartIs ==
  ASSUME StationOK, NEW k \in Int, k >= PduSeqs * ELASTIC_BUFFER_LEN, NEW e \in Starts(k)
  PROVE  /\ e \in Nat /\ 2 * Base(k) <= e /\ e < 2 * Base(k) + 2 * Half
         /\ e \div 2 \in Int /\ Base(k) <= e \div 2 /\ e \div 2 < Base(k) + Half
         /\ e = 2 * (e \div 2) + (e % 2) /\ e % 2 \in 0..1
<1>1. PICK b \in Int : b = Base(k) BY BaseIs
<1>2. b >= 0 BY <1>1, BaseIs
<1>3. PICK lead \in Leads : e = 2 * b + lead BY <1>1 DEF Starts
<1>4. PICK H \in Int : H = Half BY RingIs
<1>5. lead \in Int /\ 0 <= lead /\ lead < 2 * H BY <1>4, StationAssumption
<1>6. e \in Nat /\ 2 * b <= e /\ e < 2 * b + 2 * H BY <1>2, <1>3, <1>5
<1>7. PICK d \in Int : d = e \div 2 BY <1>6
<1>8. PICK r \in Int : r = e % 2 BY <1>6
<1>9. e = 2 * d + r /\ r \in 0..1 BY <1>6, <1>7, <1>8
<1>10. b <= d /\ d < b + H BY <1>6, <1>9
<1> QED BY <1>1, <1>4, <1>6, <1>7, <1>8, <1>9, <1>10

-----------------------------------------------------------------------------
(* frame_process: what the header says and what is meant by it.            *)

(* seq is the slot of the PDU's first packet.                              *)
LEMMA SeqIs ==
  ASSUME NEW e \in Nat
  PROVE  Seq(e) \in Slots /\ Seq(e) \in Int /\ Cong(Seq(e), e \div 2)
<1> PICK L \in Int : L = ELASTIC_BUFFER_LEN BY RingIs
<1>1. PICK d \in Int : d = e \div 2 OBVIOUS
<1>2. PICK r \in Int : r = e % 2 OBVIOUS
<1>3. PICK u \in Int : u = (e + 1) \div 2 OBVIOUS
<1>4. u = d + r
  <2>1. e = 2 * d + r /\ r \in 0..1 BY <1>1, <1>2
  <2> QED BY <2>1, <1>3
<1>5. PICK w \in Int : w = Wrap(u) BY WrapIs
<1>6. Cong(w, u) BY <1>5, WrapIs
<1>7. PICK x \in Int : x = L + w - r OBVIOUS
<1>8. Cong(x, d)
  <2>1. Cong(L + w, w) BY CongTurn
  <2>2. PICK y \in Int : y = L + w OBVIOUS
  <2>3. Cong(y, u) BY <2>1, <2>2, <1>6, CongTrans
  <2>4. Cong(y - r, u - r) BY <2>3, CongShift
  <2>5. y - r = x /\ u - r = d BY <2>2, <1>4, <1>7
  <2> QED BY <2>4, <2>5
<1>9. Seq(e) = Wrap(x) BY <1>2, <1>3, <1>5, <1>7 DEF Seq
<1>10. Wrap(x) \in Slots /\ Wrap(x) \in Int /\ Cong(Wrap(x), x) BY WrapIs
<1>11. Cong(Wrap(x), d) BY <1>8, <1>10, CongTrans
<1> QED BY <1>1, <1>9, <1>10, <1>11

(* pdu_seq and latency tell the place of the packet to play, but for half  *)
(* a turn of the ring.                                                     *)
LEMMA HalfKnown ==
  ASSUME StationOK, NEW k \in Int, k >= PduSeqs * ELASTIC_BUFFER_LEN,
         NEW o \in Int,
         o = Wrap(ELASTIC_BUFFER_LEN + (k % PduSeqs) * channel.avg - 2 * station.latency)
  PROVE  Cong(o, Base(k)) \/ Cong(o + Half, Base(k))
<1>1. PICK L \in Int : L = ELASTIC_BUFFER_LEN BY RingIs
<1>2. PICK H \in Int : H = Half BY RingIs
<1>3. L = 2 * H /\ H > 0 BY <1>1, <1>2, RingIs
<1>4. PICK P \in Int : P = PduSeqs BY StationIs
<1>5. PICK a \in Int : a = channel.avg BY StationIs
<1>6. PICK t \in Int : t = station.latency BY StationIs
<1>7. PICK h \in Int : h = station.phase BY StationIs
<1>8. P > 0 /\ h \in {0, H} BY <1>2, <1>4, <1>7, StationIs
<1>9. PICK r \in Int : r = k % P BY <1>8, DivMod
<1>10. PICK z \in Int : k = P * z + r BY <1>8, <1>9, DivMod
<1>11. PICK y \in Int : P * a = H * y
  <2>1. PICK m \in Int : m = P * a OBVIOUS
  <2>2. m % H = 0 BY <2>1, <1>2, <1>4, <1>5, StationIs
  <2>3. PICK v : v = m % H OBVIOUS
  <2>4. PICK y \in Int : m = H * y + v BY <2>3, <1>3, DivMod
  <2>5. m = H * y BY <2>2, <2>3, <2>4
  <2> QED BY <2>1, <2>5
<1>12. PICK x \in Int : x = L + r * a - 2 * t OBVIOUS
<1>13. o = Wrap(x) BY <1>1, <1>4, <1>5, <1>6, <1>9, <1>12
<1>14. Cong(o, x) BY <1>13, WrapIs
<1>15. PICK b \in Int : b = Base(k) BY BaseIs
<1>16. b = k * a - 2 * t + h BY <1>5, <1>6, <1>7, <1>15 DEF Base
<1>17. k * a = H * (y * z) + r * a
  <2>1. k * a = (P * z + r) * a BY <1>10
  <2>2. (P * z + r) * a = (P * a) * z + r * a OBVIOUS
  <2>3. (P * a) * z = (H * y) * z BY <1>11
  <2>4. (H * y) * z = H * (y * z) OBVIOUS
  <2> QED BY <2>1, <2>2, <2>3, <2>4
<1>18. PICK w \in Int : w = y * z OBVIOUS
<1>19. x - b = L - H * w - h
  <2> PICK c \in Int : c = r * a OBVIOUS
  <2> PICK g \in Int : g = H * w OBVIOUS
  <2>1. k * a = g + c BY <1>17, <1>18
  <2>2. b = g + c - 2 * t + h BY <2>1, <1>16
  <2> QED BY <2>2, <1>12
<1>20. PICK v \in Int : x - b = H * v
  <2>1. CASE h = 0
    <3>1. x - b = H * (2 - w)
      <4>1. H * (2 - w) = 2 * H - H * w OBVIOUS
      <4> PICK g \in Int : g = H * w OBVIOUS
      <4> QED BY <4>1, <2>1, <1>3, <1>19
    <3> QED BY <3>1
  <2>2. CASE h = H
    <3>1. x - b = H * (1 - w)
      <4>1. H * (1 - w) = H - H * w OBVIOUS
      <4> PICK g \in Int : g = H * w OBVIOUS
      <4> QED BY <4>1, <2>2, <1>3, <1>19
    <3> QED BY <3>1
  <2> QED BY <2>1, <2>2, <1>8
<1>21. PICK d \in Int : v = 2 * d \/ v = 2 * d - 1
  <2>1. v = 2 * ((v + 1) \div 2) \/ v = 2 * ((v + 1) \div 2) - 1 OBVIOUS
  <2> QED BY <2>1
<1>22. Cong(x, b) \/ Cong(x + H, b)
  <2>1. CASE v = 2 * d
    <3>1. x - b = L * d
      <4>1. H * (2 * d) = (2 * H) * d OBVIOUS
      <4> QED BY <4>1, <2>1, <1>3, <1>20
    <3> QED BY <3>1, <1>1 DEF Cong
  <2>2. CASE v = 2 * d - 1
    <3>1. (x + H) - b = L * d
      <4>1. H * (2 * d - 1) = (2 * H) * d - H OBVIOUS
      <4> PICK g \in Int : g = (2 * H) * d OBVIOUS
      <4>2. x - b = g - H BY <4>1, <2>2, <1>20
      <4>3. (x + H) - b = g BY <4>2
      <4> QED BY <4>3, <1>3
    <3> QED BY <3>1, <1>1 DEF Cong
  <2> QED BY <2>1, <2>2, <1>21
<1>23. Cong(o, b) \/ Cong(o + H, b)
  <2>1. CASE Cong(x, b) BY <2>1, <1>14, CongTrans
  <2>2. CASE Cong(x + H, b)
    <3>1. Cong(o + H, x + H) BY <1>14, CongShift
    <3> PICK c \in Int : c = o + H OBVIOUS
    <3> PICK g \in Int : g = x + H OBVIOUS
    <3>2. Cong(c, g) /\ Cong(g, b) BY <3>1, <2>2
    <3> QED BY <3>2, CongTrans
  <2> QED BY <2>1, <2>2, <1>22
<1> QED BY <1>2, <1>15, <1>23

(* The half of the ring the packets of the PDU are in tells the rest: the  *)
(* offset is the slot of the packet the station means to be played now.    *)
LEMMA OffsetIs ==
  ASSUME StationOK, NEW k \in Int, k >= PduSeqs * ELASTIC_BUFFER_LEN, NEW e \in Starts(k)
  PROVE  OutputOffset(k, e) = Wrap(Base(k))
<1>1. PICK L \in Int : L = ELASTIC_BUFFER_LEN BY RingIs
<1>2. PICK H \in Int : H = Half BY RingIs
<1>3. L = 2 * H /\ H > 0 BY <1>1, <1>2, RingIs
<1>4. PICK b \in Int : b = Base(k) BY BaseIs
<1>5. PICK o : o = Wrap(ELASTIC_BUFFER_LEN + (k % PduSeqs) * channel.avg
                          - 2 * station.latency)
  OBVIOUS
<1>6. o \in Int /\ 0 <= o /\ o < L
  <2>1. k % PduSeqs \in Int BY StationIs, DivMod
  <2>2. ELASTIC_BUFFER_LEN + (k % PduSeqs) * channel.avg - 2 * station.latency \in Int
    BY <2>1, StationIs, RingIs
  <2> QED BY <2>2, <1>1, <1>5, WrapIs
<1>7. Cong(o, b) \/ Cong(o + H, b) BY <1>2, <1>4, <1>5, <1>6, HalfKnown
<1>8. PICK d \in Int : d = e \div 2 BY StartIs
<1>9. b <= d /\ d < b + H BY <1>2, <1>4, <1>8, StartIs
<1>10. PICK s \in Int : s = Seq(e) BY SeqIs, StartIs
<1>11. Cong(s, d) BY <1>8, <1>10, SeqIs, StartIs
<1>12. PICK a : a = Wrap(L + s - o) OBVIOUS
<1>13. a \in Int /\ 0 <= a /\ a < L /\ Cong(a, s - o)
  <2> PICK x \in Int : x = s - o BY <1>6
  <2>1. L + s - o = L + x BY <1>6
  <2>2. a = Wrap(L + x) BY <2>1, <1>12
  <2>3. a \in Int /\ 0 <= a /\ a < L /\ Cong(a, L + x) BY <2>2, <1>1, WrapIs
  <2>4. Cong(L + x, x) BY <1>1, CongTurn
  <2> PICK y \in Int : y = L + x OBVIOUS
  <2> QED BY <2>3, <2>4, CongTrans
<1>14. OutputOffset(k, e) = IF a >= H THEN Wrap(o + H) ELSE o
  BY <1>1, <1>2, <1>5, <1>10, <1>12 DEF OutputOffset
<1>15. ASSUME Cong(o, b) PROVE OutputOffset(k, e) = Wrap(b)
  <2>1. Cong(s - o, d - b) BY <1>6, <1>11, <1>15, CongSum
  <2> PICK x \in Int : x = s - o BY <1>6
  <2> PICK y \in Int : y = d - b OBVIOUS
  <2>2. Cong(a, y) BY <2>1, <1>13, CongTrans
  <2>3. a = y BY <2>2, <1>1, <1>3, <1>9, <1>13, OneNumber
  <2>4. OutputOffset(k, e) = o BY <2>3, <1>9, <1>13, <1>14
  <2>5. PICK w \in Int : w = Wrap(b) BY WrapIs
  <2>6. Cong(b, w) /\ 0 <= w /\ w < L BY <2>5, <1>1, WrapIs
  <2>7. Cong(o, w) BY <2>6, <1>6, <1>15, CongTrans
  <2>8. o = w BY <2>6, <2>7, <1>1, <1>6, OneNumber
  <2> QED BY <2>4, <2>5, <2>8
<1>16. ASSUME Cong(o + H, b) PROVE OutputOffset(k, e) = Wrap(b)
  <2> PICK c \in Int : c = o + H BY <1>6
  <2>1. Cong(c, b) BY <1>16
  <2>2. Cong(s - c, d - b) BY <2>1, <1>11, CongSum
  <2> PICK x \in Int : x = s - o BY <1>6
  <2> PICK y \in Int : y = d - b OBVIOUS
  <2> PICK z \in Int : z = s - c OBVIOUS
  <2>3. Cong(z + H, y + H) BY <2>2, CongShift
  <2>4. z + H = x BY <1>6
  <2>5. PICK g \in Int : g = y + H OBVIOUS
  <2>6. Cong(a, g) BY <2>3, <2>4, <2>5, <1>13, CongTrans
  <2>7. H <= g /\ g < L BY <2>5, <1>3, <1>9
  <2>8. a = g BY <2>6, <2>7, <1>1, <1>3, <1>13, OneNumber
  <2>9. OutputOffset(k, e) = Wrap(c) BY <2>7, <2>8, <1>14
  <2> QED BY <2>1, <2>9, WrapSame
<1> QED BY <1>4, <1>7, <1>15, <1>16

-----------------------------------------------------------------------------
(* output_push: one packet.                                                *)

(* p is what the ring should have of packet n when the PDUs up to e were   *)
(* pushed: F and B are the first and second halves received without error. *)
Holds(p, n, e, F, B) ==
  /\ p.shape = "none" => n \notin F
  /\ p.shape = "front" =>
       p.front = n /\ 2 * n + 1 <= e /\ n \notin B /\ (p.error <=> n \notin F)
  /\ p.shape = "full" =>
       p.front = n /\ p.back = n /\ 2 * n + 2 <= e /\ (p.error <=> ~(n \in F /\ n \in B))

(* What holds a packet still does when the stream went on without it.      *)
LEMMA HoldsOn ==
  ASSUME NEW p, NEW n \in Int, NEW e \in Int, NEW f \in Int, NEW F, NEW B, NEW F2, NEW B2,
         Holds(p, n, e, F, B), e <= f, n \in F <=> n \in F2, n \in B <=> n \in B2
  PROVE  Holds(p, n, f, F2, B2)
BY DEF Holds

(* The packets of a PDU, and whether it has all of them.                   *)
LEMMA NumbersAre ==
  ASSUME NEW e \in Nat, NEW f \in Nat, e < f, NEW n \in Int
  PROVE  /\ n \in Numbers(e, f) <=> e <= 2 * n + 1 /\ 2 * n + 1 <= f
         /\ n \in Numbers(e, f) => e \div 2 <= n /\ n < (f + 1) \div 2 /\ n \in Nat
         /\ n \in Numbers(e, f) =>
              \/ Shape(n, e, f) = "back" /\ e = 2 * n + 1 /\ 2 * n + 2 <= f
              \/ Shape(n, e, f) = "front" /\ e <= 2 * n /\ f = 2 * n + 1
              \/ Shape(n, e, f) = "full" /\ e <= 2 * n /\ 2 * n + 2 <= f
<1>1. PICK d \in Int : d = e \div 2 OBVIOUS
<1>2. PICK g \in Int : g = (f + 1) \div 2 OBVIOUS
<1>3. (e = 2 * d \/ e = 2 * d + 1) /\ (f + 1 = 2 * g \/ f + 1 = 2 * g + 1) /\ d >= 0
  BY <1>1, <1>2
<1>4. n \in Numbers(e, f) <=> d <= n /\ n <= g - 1 BY <1>1, <1>2 DEF Numbers
<1>5. n \in Numbers(e, f) <=> e <= 2 * n + 1 /\ 2 * n + 1 <= f BY <1>3, <1>4
<1>6. n \in Numbers(e, f) => d <= n /\ n < g /\ n \in Nat BY <1>3, <1>4
<1>7. n \in Numbers(e, f) =>
              \/ Shape(n, e, f) = "back" /\ e = 2 * n + 1 /\ 2 * n + 2 <= f
              \/ Shape(n, e, f) = "front" /\ e <= 2 * n /\ f = 2 * n + 1
              \/ Shape(n, e, f) = "full" /\ e <= 2 * n /\ 2 * n + 2 <= f
  BY <1>5 DEF Shape
<1> QED BY <1>1, <1>2, <1>5, <1>6, <1>7

(* A push leaves a packet in the slot ...                                  *)
LEMMA PushedType ==
  ASSUME NEW p \in Packets, NEW n \in Nat, NEW shape \in {"back", "front", "full"},
         NEW bad \in BOOLEAN
  PROVE  Pushed(p, n, shape, bad) \in Packets
<1>1. CASE shape = "back" /\ p.shape = "front"
  <2>1. p.error \/ bad \in BOOLEAN OBVIOUS
  <2>2. Pushed(p, n, shape, bad)
          = [p EXCEPT !.shape = "full", !.error = @ \/ bad, !.back = n]
    BY <1>1 DEF Pushed
  <2> QED BY <2>1, <2>2 DEF Packets
<1>2. CASE shape = "back" /\ p.shape # "front" BY <1>2 DEF Pushed
<1>3. CASE shape # "back"
  <2>1. Pushed(p, n, shape, bad)
          = [shape |-> shape, error |-> bad, front |-> n,
             back |-> IF shape = "full" THEN n ELSE -1]
    BY <1>3 DEF Pushed
  <2> QED BY <2>1, <1>3 DEF Packets
<1> QED BY <1>1, <1>2, <1>3

(* ... and the one it should have, if it had before.                       *)
LEMMA PushedHolds ==
  ASSUME NEW e \in Nat, NEW f \in Nat, e < f, NEW n \in Numbers(e, f), NEW bad,
         NEW p \in Packets, NEW F, NEW B, NEW F2, NEW B2,
         Holds(p, n, e, F, B),
         n \in F => 2 * n + 1 <= e, n \in B => 2 * n + 2 <= e,
         n \in F2 <=> n \in F \/ (n \notin bad /\ 2 * n >= e),
         n \in B2 <=> n \in B \/ (n \notin bad /\ 2 * n + 2 <= f)
  PROVE  Holds(Pushed(p, n, Shape(n, e, f), n \in bad), n, f, F2, B2)
<1>1. n \in Int BY DEF Numbers
<1>2. \/ Shape(n, e, f) = "back" /\ e = 2 * n + 1 /\ 2 * n + 2 <= f
      \/ Shape(n, e, f) = "front" /\ e <= 2 * n /\ f = 2 * n + 1
      \/ Shape(n, e, f) = "full" /\ e <= 2 * n /\ 2 * n + 2 <= f
  BY <1>1, NumbersAre
<1>3. CASE Shape(n, e, f) = "back" /\ e = 2 * n + 1 /\ 2 * n + 2 <= f
  <2>1. n \notin B /\ ~(2 * n >= e) BY <1>1, <1>3
  <2>2. n \in F2 <=> n \in F BY <2>1
  <2>3. n \in B2 <=> n \notin bad BY <2>1, <1>3
  <2>4. p.shape # "full" BY <1>1, <1>3 DEF Holds
  <2>5. CASE p.shape = "front"
    <3>1. PICK q : q = [p EXCEPT !.shape = "full", !.error = @ \/ n \in bad, !.back = n]
      OBVIOUS
    <3>2. Pushed(p, n, Shape(n, e, f), n \in bad) = q BY <3>1, <1>3, <2>5 DEF Pushed
    <3>3. q.shape = "full" /\ q.front = p.front /\ q.back = n
      BY <3>1 DEF Packets
    <3>4. q.error <=> p.error \/ n \in bad BY <3>1 DEF Packets
    <3>5. p.front = n /\ (p.error <=> n \notin F) BY <2>5 DEF Holds
    <3>6. q.error <=> ~(n \in F2 /\ n \in B2) BY <3>4, <3>5, <2>2, <2>3
    <3>7. Holds(q, n, f, F2, B2) BY <3>3, <3>5, <3>6, <1>3 DEF Holds
    <3> QED BY <3>2, <3>7
  <2>6. CASE p.shape = "none"
    <3>1. Pushed(p, n, Shape(n, e, f), n \in bad) = p BY <1>3, <2>6 DEF Pushed
    <3>2. n \notin F2 BY <2>2, <2>6 DEF Holds
    <3> QED BY <3>1, <3>2, <2>6 DEF Holds
  <2> QED BY <2>4, <2>5, <2>6 DEF Packets
<1>4. CASE Shape(n, e, f) = "front" /\ e <= 2 * n /\ f = 2 * n + 1
  <2>1. n \notin F /\ n \notin B /\ ~(2 * n + 2 <= f) /\ 2 * n >= e BY <1>1, <1>4
  <2>2. (n \in F2 <=> n \notin bad) /\ n \notin B2 BY <2>1
  <2>3. PICK q : q = [shape |-> "front", error |-> n \in bad, front |-> n, back |-> -1]
    OBVIOUS
  <2>4. Pushed(p, n, Shape(n, e, f), n \in bad) = q BY <2>3, <1>4 DEF Pushed
  <2>5. q.shape = "front" /\ q.front = n /\ (q.error <=> n \in bad) BY <2>3
  <2>6. 2 * n + 1 <= f BY <1>1, <1>4
  <2>7. Holds(q, n, f, F2, B2) BY <2>2, <2>5, <2>6 DEF Holds
  <2> QED BY <2>4, <2>7
<1>5. CASE Shape(n, e, f) = "full" /\ e <= 2 * n /\ 2 * n + 2 <= f
  <2>1. n \notin F /\ n \notin B /\ 2 * n >= e BY <1>1, <1>5
  <2>2. (n \in F2 <=> n \notin bad) /\ (n \in B2 <=> n \notin bad) BY <2>1, <1>5
  <2>3. PICK q : q = [shape |-> "full", error |-> n \in bad, front |-> n, back |-> n]
    OBVIOUS
  <2>4. Pushed(p, n, Shape(n, e, f), n \in bad) = q BY <2>3, <1>5 DEF Pushed
  <2>5. q.shape = "full" /\ q.front = n /\ q.back = n /\ (q.error <=> n \in bad) BY <2>3
  <2>6. Holds(q, n, f, F2, B2) BY <2>2, <2>5, <1>5 DEF Holds
  <2> QED BY <2>4, <2>6
<1> QED BY <1>2, <1>3, <1>4, <1>5

-----------------------------------------------------------------------------
(* output_push: a PDU.                                                     *)

(* A PDU goes from its start to the next one's, which is less than a turn  *)
(* of the ring after the packet to play with it.                           *)
LEMMA PduIs ==
  ASSUME StationOK, NEW k \in Int, k >= PduSeqs * ELASTIC_BUFFER_LEN,
         NEW e \in Starts(k), NEW f \in Starts(k + 1), NEW n \in Numbers(e, f), e < f
  PROVE  n \in Nat /\ Base(k) <= n /\ n < Base(k) + ELASTIC_BUFFER_LEN
<1>1. PICK b \in Int : b = Base(k) BY BaseIs
<1>2. PICK a \in Int : a = channel.avg BY StationIs
<1>3. PICK H \in Int : H = Half BY RingIs
<1>4. a <= H /\ ELASTIC_BUFFER_LEN = 2 * H BY <1>2, <1>3, StationIs, RingIs
<1>5. k + 1 \in Int /\ k + 1 >= PduSeqs * ELASTIC_BUFFER_LEN /\ Base(k + 1) = b + a
  BY <1>1, <1>2, BaseIs
<1>6. e \in Nat /\ b <= e \div 2 BY <1>1, StartIs
<1>7. f \in Nat /\ f < 2 * (b + a) + 2 * H
  <2>1. PICK j \in Int : j = k + 1 OBVIOUS
  <2>2. f \in Nat /\ f < 2 * Base(j) + 2 * Half BY <2>1, <1>5, StartIs
  <2> QED BY <2>1, <2>2, <1>3, <1>5
<1>8. n \in Int BY <1>6 DEF Numbers
<1>9. n \in Nat /\ e \div 2 <= n /\ 2 * n + 1 <= f BY <1>6, <1>7, <1>8, NumbersAre
<1>10. e \div 2 \in Int BY <1>6
<1>11. b <= n BY <1>6, <1>9, <1>10
<1>12. n < b + 2 * H BY <1>4, <1>7, <1>9
<1> QED BY <1>1, <1>4, <1>9, <1>11, <1>12

(* From the packet to play on, and for a turn of the ring, the slot of a   *)
(* packet of the PDU takes that packet, and the other slots nothing.       *)
LEMMA PduPushedIs ==
  ASSUME StationOK, NEW k \in Int, k >= PduSeqs * ELASTIC_BUFFER_LEN,
         NEW e \in Starts(k), NEW f \in Starts(k + 1), e < f, NEW p, NEW bad,
         NEW n \in Base(k)..(Base(k) + ELASTIC_BUFFER_LEN - 1)
  PROVE  PduPushed(p, e, f, bad)[Wrap(n)]
           = IF n \in Numbers(e, f)
             THEN Pushed(p[Wrap(n)], n, Shape(n, e, f), n \in bad)
             ELSE p[Wrap(n)]
<1>1. PICK L \in Int : L = ELASTIC_BUFFER_LEN BY RingIs
<1>2. PICK b \in Int : b = Base(k) BY BaseIs
<1>3. n \in Int /\ b <= n /\ n < b + L BY <1>1, <1>2
<1>4. PICK d \in Int : d = e \div 2 BY StartIs
<1>5. e \in Nat /\ b <= d BY <1>2, <1>4, StartIs
<1>6. PICK q \in Int : q = Seq(e) BY <1>5, SeqIs
<1>7. Cong(q, d) BY <1>4, <1>5, <1>6, SeqIs
<1>8. PICK s : s = Wrap(n) OBVIOUS
<1>9. s \in Slots /\ s \in Int /\ Cong(s, n) BY <1>3, <1>8, WrapIs
<1>10. PICK w \in Int : w = Wrap(s - q) BY <1>9, WrapIs
<1>11. 0 <= w /\ w < L /\ Cong(w, s - q) BY <1>1, <1>9, <1>10, WrapIs
<1>12. PICK m \in Int : m = d + w OBVIOUS
<1>13. Cong(m, n)
  <2>1. Cong(s - q, n - d) BY <1>3, <1>7, <1>9, CongSum
  <2> PICK x \in Int : x = s - q BY <1>9
  <2> PICK y \in Int : y = n - d BY <1>3
  <2>2. Cong(w, y) BY <2>1, <1>11, CongTrans
  <2>3. Cong(w + d, y + d) BY <2>2, CongShift
  <2>4. w + d = m /\ y + d = n BY <1>3, <1>12
  <2> QED BY <2>3, <2>4
<1>14. PduPushed(p, e, f, bad)[s]
         = IF m \in Numbers(e, f) THEN Pushed(p[s], m, Shape(m, e, f), m \in bad) ELSE p[s]
  BY <1>4, <1>6, <1>9, <1>10, <1>12 DEF PduPushed
<1>15. ASSUME m \in Numbers(e, f) PROVE m = n
  <2>1. b <= m /\ m < b + L BY <1>1, <1>2, <1>15, PduIs
  <2> QED BY <2>1, <1>1, <1>3, <1>13, OneNumber
<1>16. ASSUME n \in Numbers(e, f) PROVE m = n
  <2>1. k + 1 \in Int /\ k + 1 >= PduSeqs * ELASTIC_BUFFER_LEN BY BaseIs
  <2>2. f \in Nat
    <3>1. PICK j \in Int : j = k + 1 OBVIOUS
    <3> QED BY <2>1, <3>1, StartIs
  <2>3. d <= n BY <2>2, <1>3, <1>4, <1>5, <1>16, NumbersAre
  <2>4. d <= m /\ m < d + L BY <1>11, <1>12
  <2>5. n < d + L BY <1>3, <1>5
  <2> QED BY <2>3, <2>4, <2>5, <1>1, <1>3, <1>13, OneNumber
<1> QED BY <1>8, <1>14, <1>15, <1>16

-----------------------------------------------------------------------------
(* The inductive invariant.                                                *)

(* What is on the air.                                                     *)
OnAir == StationOK /\ frame >= PduSeqs * ELASTIC_BUFFER_LEN /\ start \in Starts(frame)

(* The halves received lie less than a turn of the ring ahead, in what the *)
(* station has sent.                                                       *)
Within ==
  /\ \A n \in fronts : now <= n /\ n < now + ELASTIC_BUFFER_LEN /\ 2 * n + 1 <= start
  /\ \A n \in backs : now <= n /\ n < now + ELASTIC_BUFFER_LEN /\ 2 * n + 2 <= start

(* Before the first PDU nothing was received.                              *)
Silent ==
  audio_offset = -1 =>
    /\ fronts = {} /\ backs = {} /\ steady = ELASTIC_BUFFER_LEN
    /\ packets = [s \in Slots |-> Empty]

(* After now has jumped, each packet played makes one more slot, the last  *)
(* of the turn that begins at now, hold what it should.                    *)
Kept ==
  \A n \in now..(now + ELASTIC_BUFFER_LEN - 1) :
    n >= now + ELASTIC_BUFFER_LEN - steady =>
      Holds(packets[Wrap(n)], n, start, fronts, backs)

IInv == TypeOK /\ OnAir /\ InStep /\ Within /\ Silent /\ Kept

(* The ring has what was received where the invariant says it does.        *)
LEMMA IInvFaithful == IInv => RingIsFaithful
<1> SUFFICES ASSUME IInv, steady = ELASTIC_BUFFER_LEN, NEW s \in Slots
             PROVE  LET due == {n \in Ready : Wrap(n) = s}
                    IN  IF Plays(packets[s])
                        THEN packets[s].front = packets[s].back /\ due = {packets[s].front}
                        ELSE due = {}
  BY DEF RingIsFaithful, IInv
<1>1. now \in Int /\ fronts \in SUBSET Nat /\ packets[s] \in Packets BY DEF IInv, TypeOK
<1>2. PICK n \in now..(now + ELASTIC_BUFFER_LEN - 1) : Wrap(n) = s BY <1>1, HasNumber
<1>3. n \in Int /\ now <= n /\ n < now + ELASTIC_BUFFER_LEN BY <1>1, <1>2, RingIs
<1>4. PICK p : p = packets[s] OBVIOUS
<1>5. Holds(p, n, start, fronts, backs)
  <2>1. n >= now + ELASTIC_BUFFER_LEN - steady BY <1>1, <1>3, RingIs
  <2> QED BY <2>1, <1>2, <1>4 DEF IInv, Kept
<1>6. ASSUME NEW m \in Ready, Wrap(m) = s PROVE m = n
  <2>1. m \in Int /\ now <= m /\ m < now + ELASTIC_BUFFER_LEN
    BY <1>1, <1>6 DEF IInv, Within, Ready
  <2>2. Cong(m, n) BY <2>1, <1>2, <1>3, <1>6, WrapSame
  <2> QED BY <2>1, <2>2, <1>1, <1>3, RingIs, OneNumber
<1>7. CASE Plays(p)
  <2>1. p.front = n /\ p.back = n /\ n \in Ready BY <1>5, <1>7 DEF Holds, Plays, Ready
  <2> QED BY <2>1, <1>2, <1>4, <1>6, <1>7
<1>8. CASE ~Plays(p)
  <2>1. n \notin Ready BY <1>1, <1>4, <1>5, <1>8 DEF Holds, Plays, Ready, Packets
  <2> QED BY <2>1, <1>4, <1>6, <1>8
<1> QED BY <1>7, <1>8

-----------------------------------------------------------------------------
(* output_advance.                                                         *)

(* The packet to play next moves on by no more than half the ring.         *)
LEMMA LaterIs ==
  ASSUME IInv
  PROVE  /\ now \in Nat /\ Later \in Nat /\ now <= Later
         /\ Later < now + ELASTIC_BUFFER_LEN /\ steady \in Int
         /\ audio_offset = -1 => Later = now /\ NextOffset = -1
         /\ audio_offset # -1 =>
              /\ Later = now + channel.audio_frames /\ audio_offset = Wrap(now)
              /\ NextOffset = Wrap(Later)
<1>1. now \in Nat /\ steady \in Int /\ StationOK
  BY RingIs DEF IInv, TypeOK, OnAir
<1>2. PICK a \in Int : a = channel.audio_frames /\ a > 0 /\ a < ELASTIC_BUFFER_LEN
  <2>1. channel.audio_frames <= channel.avg /\ channel.avg <= Half
    BY <1>1, StationIs
  <2> QED BY <2>1, <1>1, StationIs, RingIs
<1>3. CASE audio_offset = -1 BY <1>1, <1>3, RingIs DEF Later, NextOffset
<1>4. CASE audio_offset # -1
  <2>1. audio_offset = Wrap(now) BY <1>4 DEF IInv, InStep
  <2>2. Later = now + a BY <1>2, <1>4 DEF Later
  <2>3. NextOffset = Wrap(Wrap(now) + a) BY <1>2, <1>4, <2>1 DEF NextOffset
  <2>4. Wrap(Wrap(now) + a) = Wrap(now + a)
    <3>1. PICK m \in Int : m = now BY <1>1
    <3>2. PICK w \in Int : w = Wrap(m) BY WrapIs
    <3>3. Cong(w, m) BY <3>2, WrapIs
    <3>4. Cong(w + a, m + a) BY <3>3, CongShift
    <3> PICK x \in Int : x = w + a OBVIOUS
    <3> PICK y \in Int : y = m + a OBVIOUS
    <3>5. Wrap(x) = Wrap(y) BY <3>4, WrapSame
    <3> QED BY <3>1, <3>2, <3>5
  <2>5. NextOffset = Wrap(Later) BY <2>2, <2>3, <2>4
  <2>6. Later \in Nat /\ now <= Later /\ Later < now + ELASTIC_BUFFER_LEN
    BY <1>1, <1>2, <2>2, RingIs
  <2>7. Later = now + channel.audio_frames BY <1>2, <2>2
  <2> QED BY <1>1, <1>4, <2>1, <2>5, <2>6, <2>7
<1> QED BY <1>3, <1>4

(* A block plays, of the packets of a turn of the ring, those before the   *)
(* one to play next.                                                       *)
LEMMA WindowIs ==
  ASSUME IInv, audio_offset # -1
  PROVE  /\ \A n \in now..(now + ELASTIC_BUFFER_LEN - 1) : Wrap(n) \in Window <=> n < Later
         /\ \A s \in Window : \E n \in now..(Later - 1) : s = Wrap(n)
<1>1. /\ now \in Nat /\ Later \in Nat /\ Later < now + ELASTIC_BUFFER_LEN
      /\ Later = now + channel.audio_frames /\ audio_offset = Wrap(now)
  BY LaterIs
<1>2. PICK a \in Int : a = channel.audio_frames /\ a > 0
  BY StationIs DEF IInv, OnAir
<1>3. PICK w \in Int : w = Wrap(now) BY <1>1, WrapIs
<1>4. Cong(w, now) BY <1>1, <1>3, WrapIs
<1>5. Window = {Wrap(w + i) : i \in 0..(a - 1)} BY <1>1, <1>2, <1>3 DEF Window
<1>6. ASSUME NEW i \in Int PROVE Wrap(w + i) = Wrap(now + i)
  <2>1. Cong(w + i, now + i) BY <1>1, <1>4, CongShift
  <2> PICK x \in Int : x = w + i OBVIOUS
  <2> PICK y \in Int : y = now + i BY <1>1
  <2>2. Wrap(x) = Wrap(y) BY <2>1, WrapSame
  <2> QED BY <2>2
<1>7. ASSUME NEW s \in Window PROVE \E n \in now..(Later - 1) : s = Wrap(n)
  <2>1. PICK i \in 0..(a - 1) : s = Wrap(w + i) BY <1>5, <1>7
  <2>2. i \in Int /\ 0 <= i /\ i < a BY <1>2, <2>1
  <2>3. PICK n \in Int : n = now + i BY <1>1, <2>2
  <2>4. s = Wrap(n) BY <1>6, <2>1, <2>2, <2>3
  <2>5. n \in now..(Later - 1) BY <1>1, <1>2, <2>2, <2>3
  <2> QED BY <2>4, <2>5
<1>8. ASSUME NEW n \in now..(now + ELASTIC_BUFFER_LEN - 1)
      PROVE  Wrap(n) \in Window <=> n < Later
  <2>1. n \in Int /\ now <= n /\ n < now + ELASTIC_BUFFER_LEN BY <1>1, <1>8, RingIs
  <2>2. ASSUME n < Later PROVE Wrap(n) \in Window
    <3>1. PICK i \in Int : i = n - now BY <1>1, <2>1
    <3>2. i \in 0..(a - 1) /\ n = now + i BY <1>1, <1>2, <2>1, <2>2, <3>1
    <3>3. Wrap(w + i) = Wrap(n) BY <1>6, <3>2
    <3> QED BY <1>5, <3>2, <3>3
  <2>3. ASSUME Wrap(n) \in Window PROVE n < Later
    <3>1. PICK m \in now..(Later - 1) : Wrap(n) = Wrap(m) BY <1>7, <2>3
    <3>2. m \in Int /\ now <= m /\ m < Later BY <1>1, <3>1
    <3>3. Cong(n, m) BY <2>1, <3>1, <3>2, WrapSame
    <3>4. n = m BY <1>1, <2>1, <3>2, <3>3, RingIs, OneNumber
    <3> QED BY <3>2, <3>4
  <2> QED BY <2>2, <2>3
<1> QED BY <1>7, <1>8

(* After a block the ring holds what it should from the new packet to play *)
(* next on, in one more slot for each packet played.                       *)
LEMMA AdvancedHolds ==
  ASSUME IInv, NEW n \in Later..(Later + ELASTIC_BUFFER_LEN - 1),
         n >= Later + ELASTIC_BUFFER_LEN - Steadier
  PROVE  Holds(Advanced[Wrap(n)], n, start, fronts, backs)
<1>1. PICK L \in Int : L = ELASTIC_BUFFER_LEN BY RingIs
<1>2. /\ now \in Nat /\ Later \in Nat /\ now <= Later /\ Later < now + L /\ steady \in Int
      /\ audio_offset = -1 => Later = now
  BY <1>1, LaterIs
<1>3. n \in Int /\ Later <= n /\ n < Later + L BY <1>1, <1>2
<1>4. Wrap(n) \in Slots BY <1>3, WrapIs
<1>5. Advanced[Wrap(n)] = IF Wrap(n) \in Window THEN Empty ELSE packets[Wrap(n)]
  BY <1>4 DEF Advanced
<1>6. Steadier = IF steady + Later - now > L THEN L ELSE steady + Later - now
  BY <1>1 DEF Steadier
<1>7. ASSUME n < now + L
      PROVE  Holds(packets[Wrap(n)], n, start, fronts, backs)
  <2>1. n >= now + L - steady BY <1>1, <1>2, <1>3, <1>6
  <2>2. n \in now..(now + L - 1) BY <1>1, <1>2, <1>3, <1>7
  <2> QED BY <2>1, <2>2, <1>1 DEF IInv, Kept
<1>8. CASE audio_offset = -1
  <2>1. Wrap(n) \notin Window BY <1>8 DEF Window
  <2> QED BY <2>1, <1>2, <1>3, <1>5, <1>7, <1>8
<1>9. CASE audio_offset # -1 /\ n < now + L
  <2>1. n \in now..(now + ELASTIC_BUFFER_LEN - 1) BY <1>1, <1>2, <1>3, <1>9
  <2>2. Wrap(n) \notin Window BY <2>1, <1>2, <1>3, <1>9, WindowIs
  <2> QED BY <2>2, <1>5, <1>7, <1>9
<1>10. CASE audio_offset # -1 /\ n >= now + L
  <2>1. PICK m \in Int : m = n - L BY <1>1, <1>3
  <2>2. m \in now..(now + ELASTIC_BUFFER_LEN - 1) /\ m < Later
    BY <2>1, <1>1, <1>2, <1>3, <1>10
  <2>3. Wrap(m) \in Window BY <2>2, <1>10, WindowIs
  <2>4. Wrap(n) = Wrap(m)
    <3>1. Cong(m + L, m) BY <1>1, CongTurn
    <3>2. m + L = n BY <2>1, <1>1, <1>3
    <3> QED BY <3>1, <3>2, <1>3, WrapSame
  <2>5. n \notin fronts /\ n \notin backs BY <1>1, <1>2, <1>3, <1>10 DEF IInv, Within
  <2>6. Advanced[Wrap(n)] = Empty BY <2>3, <2>4, <1>5
  <2> QED BY <2>5, <2>6 DEF Holds, Empty
<1> QED BY <1>3, <1>2, <1>8, <1>9, <1>10

(* The packets stay packets, and steady counts no more than one turn.      *)
LEMMA AdvancedType ==
  ASSUME IInv
  PROVE  Advanced \in [Slots -> Packets] /\ Steadier \in 0..ELASTIC_BUFFER_LEN
<1>1. Empty \in Packets BY DEF Empty, Packets
<1>2. Advanced \in [Slots -> Packets] BY <1>1 DEF Advanced, IInv, TypeOK
<1>3. steady \in 0..ELASTIC_BUFFER_LEN BY DEF IInv, TypeOK
<1>4. Steadier \in 0..ELASTIC_BUFFER_LEN BY <1>3, LaterIs, RingIs DEF Steadier
<1> QED BY <1>2, <1>4

-----------------------------------------------------------------------------
(* The steps.                                                              *)

AirType ==
  /\ frame \in Nat /\ start \in Nat
  /\ block \in 0..(channel.blocks - 1) /\ intact \in BOOLEAN
  /\ slips \in 0..MaxSlips

RingType ==
  /\ packets \in [Slots -> Packets] /\ audio_offset \in Slots \cup {-1}
  /\ now \in Nat
  /\ fronts \in SUBSET Nat /\ backs \in SUBSET Nat
  /\ steady \in 0..ELASTIC_BUFFER_LEN

AirOK == AirType /\ OnAir
RingOK == RingType /\ Within /\ Silent /\ Kept

LEMMA IInvParts == IInv <=> AirOK /\ RingOK /\ InStep
BY DEF IInv, AirOK, RingOK, TypeOK, AirType, RingType, OnAir, StationOK

(* The station goes on to the next frame.                                  *)
LEMMA NextFrameOK ==
  ASSUME IInv, NEW f, NextFrame(f), slips' \in 0..MaxSlips
  PROVE  AirOK' /\ start' \in Nat /\ start' > start /\ station' = station
<1>1. /\ frame \in Nat /\ start \in Nat /\ StationOK
      /\ frame >= PduSeqs * ELASTIC_BUFFER_LEN
  BY DEF IInv, TypeOK, OnAir
<1>2. /\ f \in Starts(frame + 1) /\ f > start /\ frame' = frame + 1 /\ start' = f
      /\ block' = 0 /\ intact' = TRUE /\ station' = station
  BY DEF NextFrame
<1>3. frame + 1 \in Nat /\ frame + 1 >= PduSeqs * ELASTIC_BUFFER_LEN BY <1>1, BaseIs
<1>4. f \in Nat
  <2>1. PICK j \in Nat : j = frame + 1 BY <1>3
  <2> QED BY <2>1, <1>1, <1>2, <1>3, StartIs
<1>5. StationOK' BY <1>1, <1>2 DEF StationOK
<1>6. 0 \in 0..(channel.blocks - 1) /\ channel' = channel
  <2>1. channel' = channel BY <1>2 DEF channel
  <2>2. channel.blocks \in Int /\ channel.blocks > 0 BY <1>1, StationIs
  <2> QED BY <2>1, <2>2
<1>7. start' \in Starts(frame)' BY <1>2 DEF Starts, Base, channel
<1>8. OnAir' BY <1>2, <1>3, <1>5, <1>7 DEF OnAir
<1>9. AirType' BY <1>2, <1>3, <1>4, <1>6 DEF AirType
<1> QED BY <1>2, <1>4, <1>8, <1>9 DEF AirOK

(* A block that brings no PDU.                                             *)
LEMMA AdvanceOK ==
  ASSUME IInv, Advance, start' \in Nat, start' >= start
  PROVE  /\ RingOK'
         /\ audio_offset' # -1 =>
              /\ audio_offset # -1 /\ Wrap(now') = audio_offset'
              /\ now' = now + channel.audio_frames
<1>1. PICK L \in Int : L = ELASTIC_BUFFER_LEN BY RingIs
<1>2. /\ packets' = Advanced /\ audio_offset' = NextOffset
      /\ now' = Later /\ steady' = Steadier
      /\ fronts' = {n \in fronts : n >= Later}
      /\ backs' = {n \in backs : n >= Later}
  BY DEF Advance
<1>3. /\ now \in Nat /\ Later \in Nat /\ now <= Later
      /\ audio_offset = -1 => Later = now /\ NextOffset = -1
      /\ audio_offset # -1 => Later = now + channel.audio_frames /\ NextOffset = Wrap(Later)
  BY LaterIs
<1>4. audio_offset # -1 => NextOffset \in Slots /\ NextOffset # -1
  <2>1. Wrap(Later) \in Slots /\ 0 <= Wrap(Later) /\ Wrap(Later) \in Int BY <1>3, WrapIs
  <2> QED BY <2>1, <1>3
<1>5. start \in Nat /\ fronts \in SUBSET Nat /\ backs \in SUBSET Nat
  BY DEF IInv, TypeOK
<1>6. RingType'
  <2>1. NextOffset \in Slots \cup {-1} BY <1>3, <1>4
  <2>2. fronts' \in SUBSET Nat /\ backs' \in SUBSET Nat BY <1>2, <1>5
  <2> QED BY <2>1, <2>2, <1>2, <1>3, AdvancedType DEF RingType
<1>7. Within'
  <2>1. ASSUME NEW n \in fronts'
        PROVE  now' <= n /\ n < now' + L /\ 2 * n + 1 <= start'
    <3>1. n \in fronts /\ n >= now' /\ n \in Int BY <2>1, <1>2, <1>5
    <3>2. n < now + L /\ 2 * n + 1 <= start BY <3>1, <1>1 DEF IInv, Within
    <3> QED BY <3>1, <3>2, <1>2, <1>3, <1>5
  <2>2. ASSUME NEW n \in backs'
        PROVE  now' <= n /\ n < now' + L /\ 2 * n + 2 <= start'
    <3>1. n \in backs /\ n >= now' /\ n \in Int BY <2>2, <1>2, <1>5
    <3>2. n < now + L /\ 2 * n + 2 <= start BY <3>1, <1>1 DEF IInv, Within
    <3> QED BY <3>1, <3>2, <1>2, <1>3, <1>5
  <2> QED BY <2>1, <2>2, <1>1 DEF Within
<1>8. Silent'
  <2> SUFFICES ASSUME audio_offset' = -1
               PROVE  /\ fronts' = {} /\ backs' = {} /\ steady' = L
                      /\ packets' = [s \in Slots |-> Empty]
    BY <1>1 DEF Silent
  <2>1. audio_offset = -1 BY <1>2, <1>4
  <2>2. /\ fronts = {} /\ backs = {} /\ steady = L
        /\ packets = [s \in Slots |-> Empty]
    BY <2>1, <1>1 DEF IInv, Silent
  <2>3. fronts' = {} /\ backs' = {} BY <2>2, <1>2
  <2>4. Steadier = L BY <2>1, <2>2, <1>1, <1>3 DEF Steadier
  <2>5. Advanced = [s \in Slots |-> Empty] BY <2>2 DEF Advanced
  <2> QED BY <2>3, <2>4, <2>5, <1>2
<1>9. Kept'
  <2> SUFFICES ASSUME NEW n \in now'..(now' + L - 1), n >= now' + L - steady'
               PROVE  Holds(packets'[Wrap(n)], n, start', fronts', backs')
    BY <1>1 DEF Kept, Wrap, Holds
  <2>1. n \in Later..(Later + L - 1) /\ n >= Later + L - Steadier BY <1>2
  <2>2. n \in Int /\ n >= Later BY <2>1, <1>1, <1>3
  <2>3. Holds(Advanced[Wrap(n)], n, start, fronts, backs)
    BY <2>1, <1>1, AdvancedHolds
  <2>4. (n \in fronts <=> n \in fronts') /\ (n \in backs <=> n \in backs')
    BY <2>2, <1>2
  <2>5. Holds(Advanced[Wrap(n)], n, start', fronts', backs')
    BY <2>2, <2>3, <2>4, <1>5, HoldsOn
  <2> QED BY <2>5, <1>2
<1>10. audio_offset' # -1 =>
         /\ audio_offset # -1 /\ Wrap(now') = audio_offset'
         /\ now' = now + channel.audio_frames
  BY <1>2, <1>3
<1> QED BY <1>6, <1>7, <1>8, <1>9, <1>10 DEF RingOK

LEMMA BlockStep == IInv /\ Block => IInv'
<1> SUFFICES ASSUME IInv, Block PROVE IInv' OBVIOUS
<1>1. /\ ~LastBlock /\ Advance /\ block' = block + 1
      /\ station' = station /\ frame' = frame /\ start' = start /\ intact' = intact
      /\ slips' = slips
  BY DEF Block
<1>2. /\ frame \in Nat /\ start \in Nat /\ StationOK /\ OnAir
      /\ block \in 0..(channel.blocks - 1) /\ intact \in BOOLEAN /\ slips \in 0..MaxSlips
  BY DEF IInv, TypeOK, OnAir
<1>3. channel' = channel BY <1>1 DEF channel
<1>4. PICK N \in Int : N = channel.blocks BY <1>2, StationIs
<1>5. PICK a \in Int : a = channel.audio_frames BY <1>2, StationIs
<1>6. block \in Int /\ block + 1 \in 0..(channel.blocks - 1)
  BY <1>1, <1>2, <1>4 DEF LastBlock
<1>7. AirType' BY <1>1, <1>2, <1>3, <1>6 DEF AirType
<1>8. OnAir' BY <1>1, <1>2 DEF OnAir, StationOK, Starts, Base, channel
<1>9. RingOK' /\ (audio_offset' # -1 =>
                    /\ audio_offset # -1 /\ Wrap(now') = audio_offset'
                    /\ now' = now + channel.audio_frames)
  BY <1>1, <1>2, AdvanceOK
<1>10. InStep'
  <2> SUFFICES ASSUME audio_offset' # -1
               PROVE  /\ Wrap(now') = audio_offset'
                      /\ slips' = 0 =>
                           now' = Base(frame - 1)' + block' * channel'.audio_frames
    BY DEF InStep, Wrap
  <2>1. slips = 0 => now = Base(frame - 1) + block * a
    BY <1>5, <1>9 DEF IInv, InStep
  <2>2. Base(frame - 1)' = Base(frame - 1) BY <1>1 DEF Base, channel
  <2>3. PICK x : x = Base(frame - 1) OBVIOUS
  <2>4. x \in Int BY <2>3, <1>2, StationIs DEF Base
  <2>5. (block + 1) * a = block * a + a BY <1>6
  <2>6. PICK y \in Int : y = block * a BY <1>6
  <2>7. slips = 0 => now = x + y BY <2>1, <2>3, <2>6
  <2>8. now' = now + a BY <1>5, <1>9
  <2>9. slips = 0 => now' = x + (block + 1) * a BY <2>4, <2>5, <2>6, <2>7, <2>8
  <2>10. slips' = 0 => now' = Base(frame - 1)' + block' * channel'.audio_frames
    BY <2>2, <2>3, <2>9, <1>1, <1>3, <1>5
  <2> QED BY <1>9, <2>10
<1> QED BY <1>7, <1>8, <1>9, <1>10, IInvParts, PTL DEF AirOK

LEMMA RepeatStep == IInv /\ Repeat => IInv'
<1> SUFFICES ASSUME IInv, Repeat PROVE IInv' OBVIOUS
<1>1. /\ slips < MaxSlips /\ slips' = slips + 1 /\ Advance /\ intact' = FALSE
      /\ station' = station /\ frame' = frame /\ start' = start /\ block' = block
  BY DEF Repeat
<1>2. /\ frame \in Nat /\ start \in Nat /\ OnAir
      /\ block \in 0..(channel.blocks - 1) /\ slips \in 0..MaxSlips
  BY DEF IInv, TypeOK
<1>3. slips' \in 0..MaxSlips /\ slips' # 0 BY <1>1, <1>2, RingAssumption
<1>4. AirType' BY <1>1, <1>2, <1>3 DEF AirType, channel
<1>5. OnAir' BY <1>1, <1>2 DEF OnAir, StationOK, Starts, Base, channel
<1>6. RingOK' /\ (audio_offset' # -1 => Wrap(now') = audio_offset')
  BY <1>1, <1>2, AdvanceOK
<1>7. InStep' BY <1>3, <1>6 DEF InStep, Wrap
<1> QED BY <1>4, <1>5, <1>6, <1>7, IInvParts, PTL DEF AirOK

LEMMA MissStep == ASSUME NEW f PROVE IInv /\ Miss(f) => IInv'
<1> SUFFICES ASSUME IInv, Miss(f) PROVE IInv' OBVIOUS
<1>1. LastBlock /\ NextFrame(f) /\ Advance /\ slips' = slips BY DEF Miss
<1>2. /\ frame \in Nat /\ frame >= PduSeqs * ELASTIC_BUFFER_LEN
      /\ start \in Nat /\ StationOK /\ slips \in 0..MaxSlips
      /\ block = channel.blocks - 1
  BY <1>1 DEF IInv, TypeOK, OnAir, LastBlock
<1>3. AirOK' /\ start' \in Nat /\ start' > start /\ station' = station
  BY <1>1, <1>2, NextFrameOK
<1>4. RingOK' /\ (audio_offset' # -1 =>
                    /\ audio_offset # -1 /\ Wrap(now') = audio_offset'
                    /\ now' = now + channel.audio_frames)
  BY <1>1, <1>2, <1>3, AdvanceOK
<1>5. InStep'
  <2> SUFFICES ASSUME audio_offset' # -1
               PROVE  /\ Wrap(now') = audio_offset'
                      /\ slips' = 0 =>
                           now' = Base(frame - 1)' + block' * channel'.audio_frames
    BY DEF InStep, Wrap
  <2>1. PICK a \in Int : a = channel.audio_frames BY <1>2, StationIs
  <2>2. PICK N \in Int : N = channel.blocks BY <1>2, StationIs
  <2>3. slips = 0 => now = Base(frame - 1) + (N - 1) * a
    BY <1>2, <1>4, <2>1, <2>2 DEF IInv, InStep
  <2>4. Base(frame - 1)' = Base(frame)
    <3>1. frame' = frame + 1 /\ channel' = channel BY <1>1, <1>3 DEF NextFrame, channel
    <3>2. frame' - 1 = frame BY <3>1, <1>2
    <3> QED BY <3>1, <3>2, <1>3 DEF Base
  <2>5. Base(frame) = Base(frame - 1) + N * a
    <3>1. PICK P \in Int : P = channel.avg BY <1>2, StationIs
    <3>2. (frame - 1) * P = frame * P - P BY <1>2
    <3>3. PICK x \in Int : x = frame * P BY <1>2
    <3>4. PICK t \in Int : t = station.latency BY <1>2, StationIs
    <3>5. PICK h \in Int : h = station.phase BY <1>2, StationIs
    <3>6. Base(frame) = x - 2 * t + h /\ Base(frame - 1) = x - P - 2 * t + h
      BY <3>1, <3>2, <3>3, <3>4, <3>5 DEF Base
    <3>7. P = N * a BY <1>2, <2>1, <2>2, <3>1, StationIs
    <3> QED BY <3>1, <3>3, <3>4, <3>5, <3>6, <3>7
  <2>6. (N - 1) * a = N * a - a OBVIOUS
  <2>7. PICK x \in Int : x = N * a OBVIOUS
  <2>8. PICK y : y = Base(frame - 1) OBVIOUS
  <2>9. y \in Int BY <1>2, <2>8, StationIs DEF Base
  <2>10. slips = 0 => now = y + (x - a) BY <2>3, <2>6, <2>7, <2>8
  <2>11. now' = now + a BY <1>4, <2>1
  <2>12. slips = 0 => now' = y + x BY <2>9, <2>10, <2>11
  <2>13. Base(frame) = y + x BY <2>5, <2>7, <2>8
  <2>14. block' = 0 BY <1>1 DEF NextFrame
  <2>15. channel' = channel BY <1>3 DEF channel
  <2>16. 0 * a = 0 OBVIOUS
  <2>17. slips' = 0 => now' = Base(frame - 1)' + block' * channel'.audio_frames
    <3>1. block' * channel'.audio_frames = 0 BY <2>1, <2>14, <2>15, <2>16
    <3>2. Base(frame - 1)' = y + x BY <2>4, <2>13
    <3>3. y + x + 0 = y + x BY <2>9
    <3> QED BY <3>1, <3>2, <3>3, <2>12, <1>1
  <2> QED BY <1>4, <2>17
<1> QED BY <1>3, <1>4, <1>5, IInvParts, PTL

LEMMA SkipStep == ASSUME NEW f PROVE IInv /\ Skip(f) => IInv'
<1> SUFFICES ASSUME IInv, Skip(f) PROVE IInv' OBVIOUS
<1>1. /\ slips < MaxSlips /\ slips' = slips + 1
      /\ packets' = packets /\ audio_offset' = audio_offset /\ now' = now
      /\ fronts' = fronts /\ backs' = backs /\ steady' = steady
  BY DEF Skip, ring
<1>2. /\ frame \in Nat /\ start \in Nat /\ OnAir /\ RingType /\ Within
      /\ block \in 0..(channel.blocks - 1) /\ slips \in 0..MaxSlips
  BY DEF IInv, TypeOK, RingType
<1>3. slips' \in 0..MaxSlips /\ slips' # 0 BY <1>1, <1>2, RingAssumption
<1>4. AirOK' /\ start' \in Nat /\ start' >= start /\ station' = station
  <2>1. CASE LastBlock
    <3>1. NextFrame(f) BY <2>1 DEF Skip
    <3> QED BY <3>1, <1>2, <1>3, NextFrameOK
  <2>2. CASE ~LastBlock
    <3>1. /\ block' = block + 1 /\ intact' = FALSE
          /\ station' = station /\ frame' = frame /\ start' = start
      BY <2>2 DEF Skip
    <3>2. PICK N \in Int : N = channel.blocks BY <1>2, StationIs DEF OnAir
    <3>3. block + 1 \in 0..(channel.blocks - 1) BY <1>2, <2>2, <3>2 DEF LastBlock
    <3>4. AirType' BY <1>2, <1>3, <3>1, <3>3 DEF AirType, channel
    <3>5. OnAir' BY <1>2, <3>1 DEF OnAir, StationOK, Starts, Base, channel
    <3> QED BY <1>2, <3>1, <3>4, <3>5 DEF AirOK
  <2> QED BY <2>1, <2>2
<1>5. RingType' BY <1>1, <1>2 DEF RingType
<1>6. Within'
  <2>1. now \in Nat /\ fronts \in SUBSET Nat /\ backs \in SUBSET Nat
    BY <1>2 DEF RingType
  <2>2. ASSUME NEW n \in fronts
        PROVE  now <= n /\ n < now + ELASTIC_BUFFER_LEN /\ 2 * n + 1 <= start'
    <3>1. now <= n /\ n < now + ELASTIC_BUFFER_LEN /\ 2 * n + 1 <= start
      BY <1>2, <2>2 DEF Within
    <3> QED BY <3>1, <2>1, <2>2, <1>2, <1>4
  <2>3. ASSUME NEW n \in backs
        PROVE  now <= n /\ n < now + ELASTIC_BUFFER_LEN /\ 2 * n + 2 <= start'
    <3>1. now <= n /\ n < now + ELASTIC_BUFFER_LEN /\ 2 * n + 2 <= start
      BY <1>2, <2>3 DEF Within
    <3> QED BY <3>1, <2>1, <2>3, <1>2, <1>4
  <2> QED BY <2>2, <2>3, <1>1 DEF Within
<1>7. Silent' BY <1>1 DEF IInv, Silent
<1>8. Kept'
  <2> SUFFICES ASSUME NEW n \in now..(now + ELASTIC_BUFFER_LEN - 1),
                      n >= now + ELASTIC_BUFFER_LEN - steady
               PROVE  Holds(packets[Wrap(n)], n, start', fronts, backs)
    BY <1>1 DEF Kept, Wrap, Holds
  <2>1. Holds(packets[Wrap(n)], n, start, fronts, backs) BY DEF IInv, Kept
  <2>2. n \in Int BY <1>2, RingIs DEF RingType
  <2> QED BY <2>1, <2>2, <1>2, <1>4, HoldsOn
<1>9. InStep' BY <1>1, <1>3 DEF IInv, InStep, Wrap
<1> QED BY <1>4, <1>5, <1>6, <1>7, <1>8, <1>9, IInvParts, PTL DEF RingOK

LEMMA ResetStep == IInv /\ output_reset => IInv'
<1> SUFFICES ASSUME IInv, output_reset PROVE IInv' OBVIOUS
<1>1. /\ slips < MaxSlips /\ slips' = slips + 1
      /\ packets' = [s \in Slots |-> Empty] /\ audio_offset' = -1
      /\ fronts' = {} /\ backs' = {} /\ steady' = ELASTIC_BUFFER_LEN
      /\ station' = station /\ frame' = frame /\ start' = start /\ block' = block
      /\ intact' = intact /\ now' = now
  BY DEF output_reset, air
<1>2. /\ OnAir /\ RingType /\ frame \in Nat /\ start \in Nat
      /\ block \in 0..(channel.blocks - 1) /\ intact \in BOOLEAN /\ slips \in 0..MaxSlips
  BY DEF IInv, TypeOK, RingType
<1>3. slips' \in 0..MaxSlips BY <1>1, <1>2, RingAssumption
<1>4. AirType' BY <1>1, <1>2, <1>3 DEF AirType, channel
<1>5. OnAir' BY <1>1, <1>2 DEF OnAir, StationOK, Starts, Base, channel
<1>6. RingType'
  <2>1. Empty \in Packets BY DEF Empty, Packets
  <2>2. ELASTIC_BUFFER_LEN \in 0..ELASTIC_BUFFER_LEN BY RingIs
  <2> QED BY <2>1, <2>2, <1>1, <1>2 DEF RingType
<1>7. Within' /\ Silent' BY <1>1 DEF Within, Silent
<1>8. Kept'
  <2> SUFFICES ASSUME NEW n \in now..(now + ELASTIC_BUFFER_LEN - 1)
               PROVE  Holds(packets'[Wrap(n)], n, start, {}, {})
    BY <1>1 DEF Kept, Wrap, Holds
  <2>1. Wrap(n) \in Slots BY <1>2, RingIs, WrapIs DEF RingType
  <2> QED BY <2>1, <1>1 DEF Holds, Empty
<1>9. InStep' BY <1>1 DEF InStep
<1> QED BY <1>4, <1>5, <1>6, <1>7, <1>8, <1>9, IInvParts, PTL DEF AirOK, RingOK

(* The PDU's packets go into the ring; after a jump it starts afresh.      *)
LEMMA ReceiveStep == ASSUME NEW f, NEW bad PROVE IInv /\ Receive(f, bad) => IInv'
<1> SUFFICES ASSUME IInv, Receive(f, bad) PROVE IInv' OBVIOUS
<1> DEFINE whole == Numbers(start, f) \ bad
<1>1. /\ NextFrame(f) /\ bad \subseteq Numbers(start, f) /\ slips' = slips
      /\ packets' = PduPushed(Advanced, start, f, bad)
      /\ audio_offset' = OutputOffset(frame, start) /\ now' = Base(frame)
      /\ fronts' = {n \in fronts \cup {m \in whole : 2 * m >= start} : n >= now'}
      /\ backs' = {n \in backs \cup {m \in whole : 2 * m + 2 <= f} : n >= now'}
      /\ steady' = IF audio_offset = -1 \/ now' = Later THEN Steadier ELSE 0
  BY DEF Receive
<1>2. /\ frame \in Nat /\ frame >= PduSeqs * ELASTIC_BUFFER_LEN /\ start \in Nat
      /\ StationOK /\ start \in Starts(frame) /\ slips \in 0..MaxSlips
      /\ fronts \in SUBSET Nat /\ backs \in SUBSET Nat
  BY DEF IInv, TypeOK, OnAir
<1>3. /\ f \in Starts(frame + 1) /\ f \in Nat /\ start < f /\ start' = f
      /\ AirOK' /\ station' = station
  BY <1>1, <1>2, NextFrameOK DEF NextFrame
<1>4. PICK b \in Nat : b = Base(frame) BY <1>2, BaseIs
<1>5. PICK L \in Int : L = ELASTIC_BUFFER_LEN BY RingIs
<1>6. ASSUME NEW n \in Numbers(start, f)
      PROVE  n \in Nat /\ b <= n /\ n < b + L
  BY <1>2, <1>3, <1>4, <1>5, PduIs
<1>7. fronts' \in SUBSET Nat /\ backs' \in SUBSET Nat BY <1>1, <1>2, <1>6
<1>8. RingType'
  <2>1. PduPushed(Advanced, start, f, bad) \in [Slots -> Packets]
    <3> SUFFICES ASSUME NEW s \in Slots
                 PROVE  LET n == start \div 2 + Wrap(s - Seq(start))
                        IN  n \in Numbers(start, f) =>
                              Pushed(Advanced[s], n, Shape(n, start, f), n \in bad) \in Packets
      BY AdvancedType DEF PduPushed
    <3> DEFINE n == start \div 2 + Wrap(s - Seq(start))
    <3> HIDE DEF n
    <3> SUFFICES ASSUME n \in Numbers(start, f)
                 PROVE  Pushed(Advanced[s], n, Shape(n, start, f), n \in bad) \in Packets
      BY DEF n
    <3>1. n \in Nat BY <1>6
    <3>2. Shape(n, start, f) \in {"back", "front", "full"} BY DEF Shape
    <3>3. Advanced[s] \in Packets BY AdvancedType
    <3>4. (n \in bad) \in BOOLEAN OBVIOUS
    <3> QED BY <3>1, <3>2, <3>3, <3>4, PushedType
  <2>2. OutputOffset(frame, start) \in Slots BY <1>2, <1>4, OffsetIs, WrapIs
  <2>3. steady' \in 0..ELASTIC_BUFFER_LEN BY <1>1, AdvancedType, RingIs
  <2> QED BY <2>1, <2>2, <2>3, <1>1, <1>4, <1>7 DEF RingType
<1>9. Within'
  <2>1. PICK H \in Int : H = Half BY RingIs
  <2>2. start < 2 * b + 2 * H /\ L = 2 * H BY <2>1, <1>2, <1>4, <1>5, StartIs, RingIs
  <2>3. ASSUME NEW n \in fronts'
        PROVE  now' <= n /\ n < now' + L /\ 2 * n + 1 <= start'
    <3>1. n \in Nat /\ n >= b BY <2>3, <1>1, <1>4, <1>7
    <3>2. CASE n \in fronts
      <4>1. 2 * n + 1 <= start BY <3>2 DEF IInv, Within
      <4> QED BY <4>1, <3>1, <2>2, <1>1, <1>2, <1>3, <1>4
    <3>3. CASE n \in whole
      <4>1. b <= n /\ n < b + L /\ 2 * n + 1 <= f
        BY <3>1, <3>3, <1>2, <1>3, <1>6, NumbersAre
      <4> QED BY <4>1, <1>1, <1>3, <1>4
    <3> QED BY <3>2, <3>3, <2>3, <1>1
  <2>4. ASSUME NEW n \in backs'
        PROVE  now' <= n /\ n < now' + L /\ 2 * n + 2 <= start'
    <3>1. n \in Nat /\ n >= b BY <2>4, <1>1, <1>4, <1>7
    <3>2. CASE n \in backs
      <4>1. 2 * n + 2 <= start BY <3>2 DEF IInv, Within
      <4> QED BY <4>1, <3>1, <2>2, <1>1, <1>2, <1>3, <1>4
    <3>3. CASE n \in whole /\ 2 * n + 2 <= f
      <4>1. b <= n /\ n < b + L BY <3>3, <1>6
      <4> QED BY <4>1, <3>3, <1>1, <1>3, <1>4
    <3> QED BY <3>2, <3>3, <2>4, <1>1
  <2> QED BY <2>3, <2>4, <1>5 DEF Within
<1>10. Silent'
  <2>1. OutputOffset(frame, start) # -1
    <3>1. Wrap(b) \in Int /\ 0 <= Wrap(b) BY WrapIs
    <3> QED BY <3>1, <1>2, <1>4, OffsetIs
  <2> QED BY <2>1, <1>1 DEF Silent
<1>11. Kept'
  <2> SUFFICES ASSUME NEW n \in b..(b + L - 1), n >= b + L - steady'
               PROVE  Holds(packets'[Wrap(n)], n, f, fronts', backs')
    BY <1>1, <1>3, <1>4, <1>5 DEF Kept, Wrap, Holds
  <2>1. n \in Int /\ b <= n /\ n < b + L BY <1>5
  <2>2. Wrap(n) \in Slots BY <2>1, WrapIs
  <2>3. audio_offset = -1 \/ b = Later BY <2>1, <1>1, <1>4, <1>5
  <2>4. steady' = Steadier BY <2>3, <1>1, <1>4
  <2>5. PICK p : p = Advanced[Wrap(n)] OBVIOUS
  <2>6. p \in Packets BY <2>2, <2>5, AdvancedType
  <2>7. Holds(p, n, start, fronts, backs)
    <3>1. CASE audio_offset = -1
      <4>1. fronts = {} /\ backs = {} /\ packets = [s \in Slots |-> Empty] /\ Window = {}
        BY <3>1 DEF IInv, Silent, Window
      <4>2. p = Empty BY <4>1, <2>2, <2>5 DEF Advanced
      <4> QED BY <4>1, <4>2 DEF Holds, Empty
    <3>2. CASE b = Later
      <4>1. n \in Later..(Later + ELASTIC_BUFFER_LEN - 1)
            /\ n >= Later + ELASTIC_BUFFER_LEN - Steadier
        BY <3>2, <2>4, <1>5
      <4> QED BY <4>1, <2>5, AdvancedHolds
    <3> QED BY <3>1, <3>2, <2>3
  <2>8. packets'[Wrap(n)] = IF n \in Numbers(start, f)
                            THEN Pushed(p, n, Shape(n, start, f), n \in bad)
                            ELSE p
    BY <2>5, <1>1, <1>2, <1>3, <1>4, <1>5, PduPushedIs
  <2>9. /\ n \in fronts' <=> n \in fronts \/ (n \in whole /\ 2 * n >= start)
        /\ n \in backs' <=> n \in backs \/ (n \in whole /\ 2 * n + 2 <= f)
    BY <2>1, <1>1, <1>4
  <2>10. CASE n \in Numbers(start, f)
    <3>1. n \in fronts => 2 * n + 1 <= start BY DEF IInv, Within
    <3>2. n \in backs => 2 * n + 2 <= start BY DEF IInv, Within
    <3>3. /\ n \in fronts' <=> n \in fronts \/ (n \notin bad /\ 2 * n >= start)
          /\ n \in backs' <=> n \in backs \/ (n \notin bad /\ 2 * n + 2 <= f)
      BY <2>9, <2>10
    <3>4. Holds(Pushed(p, n, Shape(n, start, f), n \in bad), n, f, fronts', backs')
      BY <3>1, <3>2, <3>3, <2>6, <2>7, <2>10, <1>2, <1>3, PushedHolds
    <3> QED BY <3>4, <2>8, <2>10
  <2>11. CASE n \notin Numbers(start, f)
    <3>1. (n \in fronts <=> n \in fronts') /\ (n \in backs <=> n \in backs')
      BY <2>9, <2>11
    <3>2. Holds(p, n, f, fronts', backs') BY <3>1, <2>1, <2>7, <1>2, <1>3, HoldsOn
    <3> QED BY <3>2, <2>8, <2>11
  <2> QED BY <2>10, <2>11
<1>12. InStep'
  <2>1. frame' - 1 = frame /\ block' = 0 BY <1>1, <1>2 DEF NextFrame
  <2>2. Base(frame - 1)' = b BY <2>1, <1>3, <1>4 DEF Base, channel
  <2>3. channel.audio_frames \in Int /\ channel' = channel
    <3>1. channel' = channel BY <1>3 DEF channel
    <3> QED BY <3>1, <1>2, StationIs
  <2>4. block' * channel'.audio_frames = 0 BY <2>1, <2>3
  <2>5. Wrap(now') = audio_offset' BY <1>1, <1>2, <1>4, OffsetIs
  <2>6. now' = Base(frame - 1)' + block' * channel'.audio_frames
    BY <2>2, <2>4, <1>1, <1>4
  <2> QED BY <2>5, <2>6 DEF InStep, Wrap
<1> QED BY <1>3, <1>8, <1>9, <1>10, <1>11, <1>12, IInvParts, PTL DEF RingOK

LEMMA InitInv == Init => IInv
<1> SUFFICES ASSUME Init PROVE IInv OBVIOUS
<1>1. /\ StationOK /\ frame = PduSeqs * ELASTIC_BUFFER_LEN /\ start \in Starts(frame)
      /\ block = 0 /\ intact = TRUE /\ packets = [s \in Slots |-> Empty]
      /\ audio_offset = -1 /\ now = Base(frame) /\ fronts = {} /\ backs = {}
      /\ steady = ELASTIC_BUFFER_LEN /\ slips = 0
  BY DEF Init, StationOK
<1>2. frame \in Int /\ frame >= PduSeqs * ELASTIC_BUFFER_LEN
  <2>1. PduSeqs * ELASTIC_BUFFER_LEN \in Int BY <1>1, StationIs, RingIs
  <2> QED BY <2>1, <1>1
<1>3. frame \in Nat /\ now \in Nat /\ start \in Nat BY <1>1, <1>2, BaseIs, StartIs
<1>4. AirType
  <2>1. 0 \in 0..(channel.blocks - 1) BY <1>1, StationIs
  <2>2. 0 \in 0..MaxSlips BY RingAssumption
  <2> QED BY <2>1, <2>2, <1>1, <1>3 DEF AirType
<1>5. OnAir BY <1>1, <1>2 DEF OnAir
<1>6. RingType
  <2>1. Empty \in Packets BY DEF Empty, Packets
  <2>2. ELASTIC_BUFFER_LEN \in 0..ELASTIC_BUFFER_LEN BY RingIs
  <2> QED BY <2>1, <2>2, <1>1, <1>3 DEF RingType
<1>7. Within /\ Silent /\ InStep BY <1>1 DEF Within, Silent, InStep
<1>8. Kept
  <2> SUFFICES ASSUME NEW n \in now..(now + ELASTIC_BUFFER_LEN - 1)
               PROVE  Holds(packets[Wrap(n)], n, start, fronts, backs)
    BY DEF Kept
  <2>1. Wrap(n) \in Slots BY <1>3, RingIs, WrapIs
  <2> QED BY <2>1, <1>1 DEF Holds, Empty
<1> QED BY <1>4, <1>5, <1>6, <1>7, <1>8, IInvParts DEF AirOK, RingOK

LEMMA NextInv == IInv /\ [Next]_vars => IInv'
<1> SUFFICES ASSUME IInv, [Next]_vars PROVE IInv' OBVIOUS
<1>1. CASE Block BY <1>1, BlockStep
<1>2. CASE Repeat BY <1>2, RepeatStep
<1>3. CASE output_reset BY <1>3, ResetStep
<1>4. ASSUME NEW f, Miss(f) PROVE IInv' BY <1>4, MissStep
<1>5. ASSUME NEW f, NEW bad, Receive(f, bad) PROVE IInv' BY <1>5, ReceiveStep
<1>6. ASSUME NEW f, Skip(f) PROVE IInv' BY <1>6, SkipStep
<1>7. CASE UNCHANGED vars
  BY <1>7 DEF vars, air, ring, history, IInv, TypeOK, OnAir, StationOK, Starts, Base,
              channel, InStep, Within, Silent, Kept, Holds
<1> QED BY <1>1, <1>2, <1>3, <1>4, <1>5, <1>6, <1>7 DEF Next

-----------------------------------------------------------------------------
(* The theorems.                                                           *)

(* The ring's inductive invariant holds, whatever is lost, damaged or      *)
(* received twice, for any ring, channel, latency and PDU numbering the    *)
(* assumptions allow.                                                      *)
THEOREM Invariance == Spec => []IInv
<1>1. Init => IInv BY InitInv
<1>2. IInv /\ [Next]_vars => IInv' BY NextInv
<1> QED BY <1>1, <1>2, PTL DEF Spec

(* audio_offset is the place of the packet the station means to be heard,  *)
(* found from numbers that wrap around (frame.c 603-609).                  *)
THEOREM InStepCorrect == Spec => []InStep
<1>1. IInv => InStep BY DEF IInv
<1> QED BY <1>1, Invariance, PTL

(* The ring holds what was received and not yet played, each packet in its *)
(* slot, and nothing else (output.c 47-98).                                *)
THEOREM RingCorrect == Spec => []RingIsFaithful
BY Invariance, IInvFaithful, PTL

(* From a faithful ring a block plays packets that are whole and due       *)
(* (output.c 100-168).                                                     *)
THEOREM PlayedCorrect == Spec => PlayedOnTime
<1> DEFINE Due == steady = ELASTIC_BUFFER_LEN =>
                    \A p \in out' : p.front = p.back /\ p.front \in now..(Later - 1)
<1>1. IInv /\ [Next]_vars => [Due]_vars
  <2> SUFFICES ASSUME IInv, Next, steady = ELASTIC_BUFFER_LEN, NEW p \in out'
               PROVE  p.front = p.back /\ p.front \in now..(Later - 1)
    OBVIOUS
  <2>1. out' = Played BY DEF Next, Block, Repeat, output_reset, Miss, Receive, Skip, Advance
  <2>2. PICK s \in Window : Plays(packets[s])
                            /\ p = [front |-> packets[s].front, back |-> packets[s].back]
    BY <2>1 DEF Played
  <2>3. audio_offset # -1 BY <2>2 DEF Window
  <2>4. now \in Nat /\ Later \in Nat /\ Later < now + ELASTIC_BUFFER_LEN BY LaterIs
  <2>5. PICK n \in now..(Later - 1) : s = Wrap(n) BY <2>2, <2>3, WindowIs
  <2>6. n \in Int /\ now <= n /\ n < now + ELASTIC_BUFFER_LEN BY <2>4, <2>5, RingIs
  <2>7. Holds(packets[Wrap(n)], n, start, fronts, backs)
    <3>1. n \in now..(now + ELASTIC_BUFFER_LEN - 1) BY <2>4, <2>6, RingIs
    <3>2. n >= now + ELASTIC_BUFFER_LEN - steady BY <2>4, <2>6, RingIs
    <3> QED BY <3>1, <3>2 DEF IInv, Kept
  <2>8. packets[s].front = n /\ packets[s].back = n
    BY <2>2, <2>5, <2>7 DEF Holds, Plays
  <2> QED BY <2>2, <2>5, <2>8
<1> QED BY <1>1, Invariance, PTL DEF Spec, PlayedOnTime
=============================================================================
