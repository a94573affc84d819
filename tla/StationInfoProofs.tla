------------------------- MODULE StationInfoProofs --------------------------
(***************************************************************************)
(* Proofs about StationInfo, for texts of any number of parts, any items   *)
(* and menus and any limit of an alert: no text on display is mixed, what  *)
(* changes is reported, and an alert ends by its limit and not before.     *)
(***************************************************************************)
EXTENDS StationInfo, TLAPS

-----------------------------------------------------------------------------
(* The inductive invariant: OnAir, Counts, and Good(Work, started).  Good  *)
(* is about the work of a frame, w, and the set of texts whose part 0 has  *)
(* come, S, to be followed through the one or two payloads of a frame.     *)

TextIds == {"long_name", "message", "alert", "universal", "slogan"}
Fields ==
  {"id", "short_name", "latitude", "longitude", "long_name", "message",
   "audio_services", "data_services", "parameters", "universal",
   "universal_final", "slogan", "alert", "alert_timeout"}
Events ==
  {"id", "name", "slogan", "message", "location", "alert", "audio", "data",
   "leap", "time", "exciter", "importer"}

(* The types of data services the station may announce.                    *)
Types == {p.part.type : p \in Payloads}

IsText(id, t) ==
  /\ DOMAIN t = {"buf", "seq", "head", "displayed"}
  /\ t.buf = [i \in Frames |-> t.buf[i]] /\ t.seq \in Int /\ t.displayed \in BOOLEAN
  /\ t.head = None \/ (id \in MsgIds /\ t.head \in Items[id])

PidsOK(st) ==
  /\ \A id \in TextIds : IsText(id, st[id])
  /\ st.data_services \in Seq(Types) /\ Len(st.data_services) <= MAX_DATA_SERVICES

(* t is what has come of the text a, if part 0 has (s).                    *)
TextIs(t, s, a) ==
  /\ t.seq <= a.seq /\ (~s => t.seq < a.seq)
  /\ s => /\ t.head = a
          /\ t.seq = a.seq \/ (t.seq = -1 /\ ~t.displayed)
          /\ \A i \in Frames :
               t.buf[i] # "" => i < Len(a.parts) /\ t.buf[i] = a.parts[i + 1]
          /\ t.displayed => Complete(t.buf, Len(a.parts))

TextsAre(st, S) == \A id \in Numbered \cap menu : TextIs(st[id], S[id], airing[id])

(* An alert that is over has no part 0, and one that has says something.   *)
AlertIs(t) ==
  /\ t.seq = -1 => t.buf[0] = "" /\ ~t.displayed
  /\ t.buf[0] # "" => t.head.parts # << >>

Whole(tells) ==
  \A id \in {"message", "alert"} \cap MsgIds :
    tells[id] # << >> => \E of \in Items[id] : of.sound /\ tells[id] = of.parts

(* Part 0 of t has come and t is not on display, or the other way round.   *)
Pending(t, s) == (t.seq >= 0 /\ t.buf[0] # "" /\ ~t.displayed) \/ (t.displayed /\ ~s)

(* What st would report is r, but for what is pending.                     *)
Current(st, S, r) ==
  LET now == report(st) IN
  /\ \A f \in {"id", "name", "location", "audio", "data"} : r[f] = now[f]
  /\ \A id \in {"message", "alert"} : r[id] = now[id] \/ Pending(st[id], S[id])
  /\ \/ r.slogan = now.slogan
     \/ Pending(st.long_name, S.long_name) \/ st.slogan.displayed

Shape(w) ==
  /\ DOMAIN w = {"pids", "told", "updated"}
  /\ DOMAIN w.pids = Fields /\ DOMAIN w.told = Events

WorkOK(w) == Shape(w) /\ w.updated \in BOOLEAN /\ PidsOK(w.pids)

Good(w, S) ==
  /\ WorkOK(w) /\ TextsAre(w.pids, S) /\ AlertIs(w.pids.alert) /\ Whole(w.told)
  /\ w.updated \/ Current(w.pids, S, sis)

(* The station, and the counts of an alert.                                *)
OnAir ==
  /\ menu \in Menus /\ DOMAIN airing = menu /\ \A id \in menu : airing[id] \in Items[id]
  /\ started \in [Numbered -> BOOLEAN]
  /\ changes \in 0..MaxChanges

Counts ==
  /\ pids.alert_timeout \in 0..(ALERT_TIMEOUT_LIMIT - 1)
  /\ quiet \in 0..ALERT_TIMEOUT_LIMIT
  /\ pids.alert.displayed => quiet = pids.alert_timeout

Work == [pids |-> pids, told |-> told, updated |-> FALSE]

IInv == OnAir /\ Counts /\ Good(Work, started)

-----------------------------------------------------------------------------
(* What the assumptions say.                                               *)
LEMMA Limits ==
  /\ ALERT_TIMEOUT_LIMIT \in Int /\ ALERT_TIMEOUT_LIMIT > 0
  /\ MAX_AUDIO_SERVICES \in Int /\ MAX_DATA_SERVICES \in Int /\ MAX_DATA_SERVICES > 0
  /\ MAX_FRAMES \in Int /\ MAX_FRAMES > 0 /\ MaxChanges \in Nat
  /\ 0 \in Frames
BY LimitsAssumption DEF Frames

LEMMA ItemIs ==
  ASSUME NEW id \in Numbered \cap MsgIds, NEW a \in Items[id]
  PROVE  a.seq \in Nat /\ a.parts \in Seq(STRING) /\ Len(a.parts) \in Nat
         /\ Len(a.parts) <= MAX_FRAMES
<1>1. a.seq \in Nat /\ a.parts \in Seq(STRING) /\ Len(a.parts) <= MAX_FRAMES
  BY ItemsAssumption, Zenon
<1>2. Len(a.parts) \in Nat BY <1>1
<1> QED BY <1>1, <1>2

LEMMA PartsAreSomething ==
  ASSUME NEW id \in Numbered \cap MsgIds, NEW a \in Items[id], NEW k \in DOMAIN a.parts
  PROVE  a.parts[k] # ""
BY ItemsAssumption, Zenon

(* A payload the station sends is a part of what it sends.                 *)
LEMMA SentIs ==
  ASSUME OnAir, NEW p \in Sent
  PROVE  /\ p.id \in menu /\ p.id \in MsgIds /\ p.of = airing[p.id] /\ p.of \in Items[p.id]
         /\ p.frame \in Int /\ 0 <= p.frame /\ p.frame <= Len(p.of.parts) - 1
         /\ p.part = p.of.parts[p.frame + 1]
         /\ p \in Payloads
<1>1. PICK id \in menu : p \in PayloadsOf(id, airing[id]) BY DEF Sent
<1>2. PICK i \in 0..(Len(airing[id].parts) - 1) : p = Payload(id, airing[id], i)
  BY <1>1 DEF PayloadsOf
<1>3. p.id = id /\ p.of = airing[id] /\ p.frame = i /\ p.part = airing[id].parts[i + 1]
  BY <1>2 DEF Payload
<1>4. id \in MsgIds /\ airing[id] \in Items[id]
  BY <1>1, MenusAssumption DEF OnAir
<1>5. i \in Int /\ 0 <= i /\ i <= Len(airing[id].parts) - 1 BY <1>2
<1>6. p \in Payloads BY <1>1, <1>4 DEF Payloads
<1> QED BY <1>1, <1>3, <1>4, <1>5, <1>6

(* The same of a numbered text: its frames and its parts.                  *)
LEMMA SentTextIs ==
  ASSUME OnAir, NEW p \in Sent, p.id \in Numbered
  PROVE  /\ p.of = airing[p.id] /\ p.of.seq \in Nat /\ Len(p.of.parts) \in Nat
         /\ Len(p.of.parts) <= MAX_FRAMES /\ p.of.parts \in Seq(STRING)
         /\ p.frame \in Frames /\ p.frame < Len(p.of.parts)
         /\ p.part = p.of.parts[p.frame + 1] /\ p.of \in Items[p.id] /\ p.id \in MsgIds
         /\ p.id \in menu /\ p.of.parts # << >>
<1>1. p.id \in Numbered \cap MsgIds /\ p.of \in Items[p.id] BY SentIs
<1>2. /\ p.of.seq \in Nat /\ p.of.parts \in Seq(STRING)
      /\ Len(p.of.parts) \in Nat /\ Len(p.of.parts) <= MAX_FRAMES
  BY <1>1, ItemIs
<1>3. p.frame \in Int /\ 0 <= p.frame /\ p.frame <= Len(p.of.parts) - 1 BY SentIs
<1>4. p.frame \in Frames BY <1>2, <1>3, Limits DEF Frames
<1>5. p.of.parts # << >> BY <1>2, <1>3
<1> QED BY <1>1, <1>2, <1>3, <1>4, <1>5, SentIs

LEMMA SentPartIs ==
  ASSUME OnAir, NEW p \in Sent, p.id \in Numbered
  PROVE  p.part # ""
<1>1. p.id \in Numbered \cap MsgIds /\ p.of \in Items[p.id] BY SentIs
<1>2. p.of.parts \in Seq(STRING) /\ Len(p.of.parts) \in Nat BY <1>1, ItemIs
<1>3. p.frame \in Int /\ 0 <= p.frame /\ p.frame <= Len(p.of.parts) - 1 BY SentIs
<1>4. p.frame + 1 \in DOMAIN p.of.parts BY <1>2, <1>3
<1>5. p.of.parts[p.frame + 1] # "" BY <1>1, <1>4, PartsAreSomething, Zenon
<1> QED BY <1>5, SentIs

-----------------------------------------------------------------------------
(* Texts.                                                                  *)

(* The text a display shows is the one that is sent.                       *)
LEMMA ShownIs ==
  ASSUME NEW id \in Numbered \cap MsgIds, NEW a \in Items[id], NEW t,
         TextIs(t, TRUE, a), t.displayed
  PROVE  Delimited(t.buf, t.head) = a.parts /\ Terminated(t.buf) = a.parts
<1>1. a.parts \in Seq(STRING) /\ Len(a.parts) \in Nat /\ Len(a.parts) <= MAX_FRAMES
  BY ItemIs
<1>2. PICK n \in Nat : n = Len(a.parts) BY <1>1
<1>3. t.head = a /\ Complete(t.buf, n)
      /\ \A i \in Frames : t.buf[i] # "" => i < n /\ t.buf[i] = a.parts[i + 1]
  BY <1>2 DEF TextIs
<1>4. ASSUME NEW k \in 1..n PROVE t.buf[k - 1] = a.parts[k]
  <2>1. k - 1 \in Frames /\ k - 1 < n BY <1>1, <1>2, Limits DEF Frames
  <2>2. t.buf[k - 1] # "" BY <2>1, <1>3 DEF Complete
  <2>3. t.buf[k - 1] = a.parts[(k - 1) + 1] BY <2>1, <2>2, <1>3
  <2> QED BY <2>3
<1>5. a.parts = [k \in 1..n |-> a.parts[k]] BY <1>1, <1>2
<1>6. Delimited(t.buf, t.head) = a.parts BY <1>2, <1>3, <1>4, <1>5 DEF Delimited
<1>7. {m \in 1..MAX_FRAMES : Complete(t.buf, m)} = 1..n
  <2>1. ASSUME NEW m \in 1..n PROVE m \in 1..MAX_FRAMES /\ Complete(t.buf, m)
    <3>1. m \in 1..MAX_FRAMES BY <1>1, <1>2, Limits
    <3>2. ASSUME NEW i \in Frames, i < m PROVE t.buf[i] # ""
      <4>1. i \in Int /\ i < n BY <3>2, Limits DEF Frames
      <4> QED BY <4>1, <1>3 DEF Complete
    <3> QED BY <3>1, <3>2 DEF Complete
  <2>2. ASSUME NEW m \in 1..MAX_FRAMES, Complete(t.buf, m) PROVE m \in 1..n
    <3>1. m - 1 \in Frames /\ m - 1 < m BY Limits DEF Frames
    <3>2. t.buf[m - 1] # "" BY <3>1, <2>2 DEF Complete
    <3>3. m - 1 < n BY <3>1, <3>2, <1>3
    <3> QED BY <3>3, Limits
  <2> QED BY <2>1, <2>2
<1>8. Terminated(t.buf) = a.parts BY <1>4, <1>5, <1>7 DEF Terminated
<1> QED BY <1>6, <1>8

(* Part p of the text a has been stored in t, which began anew if need be. *)
HasPart(t, s, p, u) ==
  /\ IsText(p.id, u) /\ TextIs(u, s \/ p.frame = 0, p.of)
  /\ u.seq = IF p.frame = 0 THEN p.of.seq ELSE t.seq
  /\ p.frame # 0 => u.buf[0] = t.buf[0]
  /\ u.head = IF p.frame = 0 THEN p.of ELSE t.head
  /\ s \/ p.frame # 0 \/ ~u.displayed
  /\ u.displayed => t.displayed
  /\ s /\ u.displayed => u.buf = t.buf /\ u.head = t.head
  /\ p.frame = 0 => u.buf[0] # ""
  /\ p.frame = 0 \/ (u.displayed <=> t.displayed)
LEMMA StoredIs ==
  ASSUME OnAir, NEW p \in Sent, p.id \in Numbered, NEW t, IsText(p.id, t),
         NEW s \in BOOLEAN, TextIs(t, s, p.of)
  PROVE  HasPart(t, s, p, Stored(Begun(t, p), p))
<1>1. /\ p.of.seq \in Nat /\ p.frame \in Frames /\ p.frame \in Int
      /\ p.frame < Len(p.of.parts)
      /\ p.part = p.of.parts[p.frame + 1] /\ p.of \in Items[p.id] /\ p.id \in MsgIds
  BY SentTextIs DEF Frames
<1>2. /\ DOMAIN t = {"buf", "seq", "head", "displayed"}
      /\ t.buf = [i \in Frames |-> t.buf[i]] /\ t.seq \in Int /\ t.displayed \in BOOLEAN
      /\ t.head = None \/ (p.id \in MsgIds /\ t.head \in Items[p.id])
  BY DEF IsText
<1>3. PICK b : b = Begun(t, p) OBVIOUS
<1> DEFINE anew == p.frame = 0 /\ p.of.seq # t.seq
<1>4. /\ DOMAIN b = {"buf", "seq", "head", "displayed"} /\ b.head = t.head
      /\ anew => b.buf = Empty /\ b.seq = p.of.seq /\ b.displayed = FALSE
      /\ ~anew => b = t
  BY <1>2, <1>3 DEF Begun
<1>5. b.buf = [i \in Frames |-> b.buf[i]] BY <1>2, <1>4 DEF Empty
<1>6. PICK u : u = Stored(b, p) OBVIOUS
<1>7. u = [b EXCEPT !.buf = [b.buf EXCEPT ![p.frame] = p.part],
                    !.head = IF p.frame = 0 THEN p.of ELSE b.head]
  BY <1>6 DEF Stored
<1>8. /\ DOMAIN u = {"buf", "seq", "head", "displayed"}
      /\ u.buf = [b.buf EXCEPT ![p.frame] = p.part]
      /\ u.head = IF p.frame = 0 THEN p.of ELSE b.head
      /\ u.seq = b.seq /\ u.displayed = b.displayed
  BY <1>4, <1>7
<1>9. /\ u.buf = [i \in Frames |-> u.buf[i]] /\ u.buf[p.frame] = p.part
       /\ \A i \in Frames \ {p.frame} : u.buf[i] = b.buf[i]
  BY <1>1, <1>5, <1>8
<1>10. IsText(p.id, u)
  <2>1. u.seq \in Int BY <1>1, <1>2, <1>4, <1>8
  <2>2. u.displayed \in BOOLEAN BY <1>2, <1>4, <1>8, Zenon
  <2>3. u.head = None \/ (p.id \in MsgIds /\ u.head \in Items[p.id])
    BY <1>1, <1>2, <1>4, <1>8, Zenon
  <2> QED BY <2>1, <2>2, <2>3, <1>8, <1>9, Zenon DEF IsText
<1>11. /\ t.seq <= p.of.seq /\ (~s => t.seq < p.of.seq)
       /\ s => /\ t.head = p.of
               /\ t.seq = p.of.seq \/ (t.seq = -1 /\ ~t.displayed)
               /\ \A i \in Frames :
                    t.buf[i] # "" => i < Len(p.of.parts) /\ t.buf[i] = p.of.parts[i + 1]
               /\ t.displayed => Complete(t.buf, Len(p.of.parts))
  BY DEF TextIs
<1>12. ~s => t.seq < p.of.seq BY <1>11, Zenon
<1>13. t.seq < p.of.seq => p.of.seq # t.seq BY <1>1, <1>2
<1>14. ~s /\ p.frame = 0 => anew BY <1>12, <1>13, Zenon
<1>15. u.seq = IF p.frame = 0 THEN p.of.seq ELSE t.seq BY <1>4, <1>8
<1>16. p.frame # 0 => ~anew OBVIOUS
<1>17. p.frame # 0 => u.buf[0] = t.buf[0] BY <1>4, <1>9, <1>16, Limits
<1>18. u.head = IF p.frame = 0 THEN p.of ELSE t.head BY <1>4, <1>8
<1>19. s \/ p.frame # 0 \/ ~u.displayed BY <1>14, <1>4, <1>8, Zenon
<1>20. u.displayed => t.displayed BY <1>4, <1>8
<1>21. ASSUME s, u.displayed PROVE u.buf = t.buf /\ u.head = t.head
  <2>1. b = t /\ t.displayed BY <1>4, <1>8, <1>21
  <2>2. t.buf[p.frame] # "" BY <1>1, <1>11, <1>21, <2>1 DEF Complete
  <2>3. t.buf[p.frame] = p.part BY <1>1, <1>11, <1>21, <2>2
  <2>4. u.buf = t.buf BY <1>1, <1>2, <1>8, <2>1, <2>3
  <2> QED BY <2>4, <1>11, <1>18, <1>21
<1>22. TextIs(u, s \/ p.frame = 0, p.of)
  <2>1. p.of.seq <= p.of.seq BY <1>1
  <2>2. u.seq <= p.of.seq BY <2>1, <1>11, <1>15, Zenon
  <2>3. ~(s \/ p.frame = 0) => u.seq < p.of.seq BY <1>12, <1>15, Zenon
  <2>4. ASSUME s \/ p.frame = 0
        PROVE  /\ u.head = p.of
               /\ u.seq = p.of.seq \/ (u.seq = -1 /\ ~u.displayed)
               /\ \A i \in Frames :
                    u.buf[i] # "" => i < Len(p.of.parts) /\ u.buf[i] = p.of.parts[i + 1]
               /\ u.displayed => Complete(u.buf, Len(p.of.parts))
    <3>1. u.head = p.of BY <1>11, <1>18, <2>4
    <3>2. u.seq = p.of.seq \/ (u.seq = -1 /\ ~u.displayed)
      BY <1>11, <1>15, <1>20, <2>4
    <3>3. ASSUME NEW i \in Frames, u.buf[i] # ""
          PROVE  i < Len(p.of.parts) /\ u.buf[i] = p.of.parts[i + 1]
      <4>1. CASE i = p.frame BY <4>1, <1>1, <1>9
      <4>2. CASE i # p.frame
        <5>1. u.buf[i] = b.buf[i] BY <4>2, <1>9
        <5>2. ~anew BY <5>1, <3>3, <1>4 DEF Empty
        <5>3. u.buf[i] = t.buf[i] BY <5>1, <5>2, <1>4
        <5>4. s BY <5>2, <2>4, <1>14, Zenon
        <5> QED BY <5>3, <5>4, <3>3, <1>11
      <4> QED BY <4>1, <4>2
    <3>4. ASSUME u.displayed PROVE Complete(u.buf, Len(p.of.parts))
      <4>1. s BY <3>4, <2>4, <1>19
      <4> QED BY <4>1, <3>4, <1>11, <1>20, <1>21
    <3> QED BY <3>1, <3>2, <3>3, <3>4
  <2> QED BY <2>2, <2>4, <2>3, Zenon DEF TextIs
<1>23. u = Stored(Begun(t, p), p) BY <1>3, <1>6
<1>24. p.frame = 0 => u.buf[0] # "" BY <1>9, SentPartIs, Zenon
<1>25. p.frame = 0 \/ (u.displayed <=> t.displayed) BY <1>4, <1>8, <1>16, Zenon
<1> QED BY <1>10, <1>15, <1>17, <1>18, <1>19, <1>20, <1>21, <1>22, <1>23, <1>24, <1>25
   DEF HasPart

(* It is put on display (d).                                               *)
LEMMA DisplayedIs ==
  ASSUME NEW id, NEW u, IsText(id, u), NEW d \in BOOLEAN, NEW s \in BOOLEAN, NEW a,
         TextIs(u, s, a), d /\ s => u.seq = a.seq /\ Complete(u.buf, Len(a.parts))
  PROVE  LET v == [u EXCEPT !.displayed = @ \/ d]
         IN  /\ IsText(id, v) /\ TextIs(v, s, a)
             /\ v.buf = u.buf /\ v.seq = u.seq /\ v.head = u.head
             /\ v.displayed = (u.displayed \/ d)
<1>1. PICK v : v = [u EXCEPT !.displayed = @ \/ d] OBVIOUS
<1>2. DOMAIN u = {"buf", "seq", "head", "displayed"} /\ u.displayed \in BOOLEAN
  BY DEF IsText
<1>3. (u.displayed \/ d) \in BOOLEAN OBVIOUS
<1>4. /\ DOMAIN v = {"buf", "seq", "head", "displayed"}
      /\ v.buf = u.buf /\ v.seq = u.seq /\ v.head = u.head
      /\ v.displayed = (u.displayed \/ d)
  BY <1>1, <1>2
<1>5. IsText(id, v) BY <1>3, <1>4 DEF IsText
<1>6. TextIs(v, s, a) BY <1>4 DEF TextIs
<1> QED BY <1>1, <1>4, <1>5, <1>6

-----------------------------------------------------------------------------
(* The report.                                                             *)
Says(now, st) ==
  /\ now.id = IF st.id = "" THEN << >> ELSE <<st.id>>
  /\ st.universal.displayed => now.name = st.universal_final
  /\ ~st.universal.displayed =>
       now.name = IF st.short_name # "" THEN <<st.short_name>> ELSE << >>
  /\ st.slogan.displayed => now.slogan = Delimited(st.slogan.buf, st.slogan.head)
  /\ ~st.slogan.displayed /\ st.long_name.displayed =>
       now.slogan = Terminated(st.long_name.buf)
  /\ ~st.slogan.displayed /\ ~st.long_name.displayed => now.slogan = << >>
  /\ st.message.displayed => now.message = Delimited(st.message.buf, st.message.head)
  /\ ~st.message.displayed => now.message = << >>
  /\ st.alert.displayed => now.alert = Delimited(st.alert.buf, st.alert.head)
  /\ ~st.alert.displayed => now.alert = << >>
  /\ now.location = IF st.latitude # "" /\ st.longitude # ""
                    THEN <<st.latitude, st.longitude>> ELSE << >>
  /\ now.audio = st.audio_services /\ now.data = st.data_services

LEMMA ReportIs == ASSUME NEW st PROVE Says(report(st), st)
BY DEF report, Says

(* Nothing that would be reported changes; of a numbered text, nothing but *)
(* what is pending.                                                        *)
Quiet(st, st2) ==
  /\ st2.id = st.id /\ (st2.universal.displayed <=> st.universal.displayed)
  /\ st2.universal_final = st.universal_final /\ st2.short_name = st.short_name
  /\ \/ st2.latitude = st.latitude /\ st2.longitude = st.longitude
     \/ /\ st.latitude = "" \/ st.longitude = ""
        /\ st2.latitude = "" \/ st2.longitude = ""
  /\ st2.audio_services = st.audio_services /\ st2.data_services = st.data_services
  /\ (st2.slogan.displayed <=> st.slogan.displayed)
StillThere(t, t2) ==
  /\ t2.displayed <=> t.displayed
  /\ t2.displayed => t2.buf = t.buf /\ t2.head = t.head
NumberedQuiet(st, st2, S, S2) ==
  \A id \in Numbered :
    Pending(st2[id], S2[id]) \/ (~Pending(st[id], S[id]) /\ StillThere(st[id], st2[id]))

(* Then what has been reported is still right.                             *)
LEMMA CurrentKept ==
  ASSUME NEW st, NEW st2, NEW S, NEW S2, NEW r, Current(st, S, r),
         Quiet(st, st2), NumberedQuiet(st, st2, S, S2)
  PROVE  Current(st2, S2, r)
<1>1. PICK now : now = report(st) OBVIOUS
<1>2. PICK new : new = report(st2) OBVIOUS
<1>3. st2.id = st.id /\ (st2.universal.displayed <=> st.universal.displayed)
       /\ st2.universal_final = st.universal_final /\ st2.short_name = st.short_name
       /\ st2.audio_services = st.audio_services /\ st2.data_services = st.data_services
       /\ (st2.slogan.displayed <=> st.slogan.displayed)
  BY DEF Quiet
<1>4. Says(now, st) BY <1>1, ReportIs
<1>5. Says(new, st2) BY <1>2, ReportIs
<1>6. /\ r.id = now.id /\ r.name = now.name /\ r.location = now.location
      /\ r.audio = now.audio /\ r.data = now.data
      /\ \A id \in {"message", "alert"} : r[id] = now[id] \/ Pending(st[id], S[id])
      /\ \/ r.slogan = now.slogan
         \/ Pending(st.long_name, S.long_name) \/ st.slogan.displayed
  BY <1>1 DEF Current
<1>7. new.id = now.id /\ new.name = now.name /\ new.audio = now.audio /\ new.data = now.data
  <2>1. new.name = now.name
    <3>1. CASE st.universal.displayed BY <3>1, <1>3, <1>4, <1>5, Zenon DEF Says
    <3>2. CASE ~st.universal.displayed
      <4>1. now.name = IF st.short_name # "" THEN <<st.short_name>> ELSE << >>
        BY <3>2, <1>4, Zenon DEF Says
      <4>2. new.name = IF st2.short_name # "" THEN <<st2.short_name>> ELSE << >>
        BY <3>2, <1>5, <1>3, Zenon DEF Says
      <4> QED BY <4>1, <4>2, <1>3
    <3> QED BY <3>1, <3>2
  <2>2. now.id = (IF st.id = "" THEN << >> ELSE <<st.id>>)
        /\ now.audio = st.audio_services /\ now.data = st.data_services
    BY <1>4, Zenon DEF Says
  <2>3. new.id = (IF st2.id = "" THEN << >> ELSE <<st2.id>>)
        /\ new.audio = st2.audio_services /\ new.data = st2.data_services
    BY <1>5, Zenon DEF Says
  <2> QED BY <2>1, <2>2, <2>3, <1>3
<1>8. new.location = now.location
  <2>1. now.location = IF st.latitude # "" /\ st.longitude # ""
                       THEN <<st.latitude, st.longitude>> ELSE << >>
    BY <1>4, Zenon DEF Says
  <2>2. new.location = IF st2.latitude # "" /\ st2.longitude # ""
                       THEN <<st2.latitude, st2.longitude>> ELSE << >>
    BY <1>5, Zenon DEF Says
  <2> QED BY <2>1, <2>2 DEF Quiet
<1>9. ASSUME NEW id \in {"message", "alert"}, ~Pending(st2[id], S2[id])
      PROVE  r[id] = new[id]
  <2>1. id \in Numbered BY DEF Numbered
  <2>2. ~Pending(st[id], S[id]) /\ StillThere(st[id], st2[id])
    BY <2>1, <1>9 DEF NumberedQuiet
  <2>3. /\ st[id].displayed => now[id] = Delimited(st[id].buf, st[id].head)
        /\ ~st[id].displayed => now[id] = << >>
    BY <1>4, Zenon DEF Says
  <2>4. /\ st2[id].displayed => new[id] = Delimited(st2[id].buf, st2[id].head)
        /\ ~st2[id].displayed => new[id] = << >>
    BY <1>5, Zenon DEF Says
  <2>5. new[id] = now[id] BY <2>2, <2>3, <2>4, Zenon DEF StillThere
  <2> QED BY <2>2, <2>5, <1>6
<1>10. ASSUME ~Pending(st2.long_name, S2.long_name), ~st2.slogan.displayed
       PROVE  r.slogan = new.slogan
  <2>1. "long_name" \in Numbered BY DEF Numbered
  <2>2. ~Pending(st.long_name, S.long_name) /\ StillThere(st.long_name, st2.long_name)
    BY <2>1, <1>10 DEF NumberedQuiet
  <2>3. ~st.slogan.displayed BY <1>3, <1>10
  <2>4. new.slogan = now.slogan
    BY <2>2, <2>3, <1>4, <1>5, <1>10, Zenon DEF Says, StillThere
  <2> QED BY <2>2, <2>3, <2>4, <1>6
<1>11. \A f \in {"id", "name", "location", "audio", "data"} : r[f] = new[f]
  BY <1>6, <1>7, <1>8
<1> QED BY <1>2, <1>9, <1>10, <1>11 DEF Current

-----------------------------------------------------------------------------
(* The work of a frame: setting a field, telling an event.                 *)
LEMMA FieldSet ==
  ASSUME NEW w, Shape(w), NEW f \in Fields, NEW x
  PROVE  LET v == [w EXCEPT !.pids[f] = x]
         IN  /\ Shape(v) /\ v.pids[f] = x
             /\ \A g \in Fields \ {f} : v.pids[g] = w.pids[g]
             /\ v.told = w.told /\ v.updated = w.updated
<1>1. PICK v : v = [w EXCEPT !.pids = [w.pids EXCEPT ![f] = x]] OBVIOUS
<1>2. DOMAIN v = {"pids", "told", "updated"} /\ v.pids = [w.pids EXCEPT ![f] = x]
      /\ v.told = w.told /\ v.updated = w.updated
  BY <1>1 DEF Shape
<1>3. DOMAIN v.pids = Fields /\ v.pids[f] = x
      /\ \A g \in Fields \ {f} : v.pids[g] = w.pids[g]
  BY <1>2 DEF Shape
<1>4. Shape(v) BY <1>2, <1>3 DEF Shape
<1> QED BY <1>1, <1>2, <1>3, <1>4

IsTold(v, w, e, c) ==
  /\ Shape(v) /\ v.pids = w.pids /\ v.updated = TRUE /\ v.told[e] = c
  /\ \A g \in Events \ {e} : v.told[g] = w.told[g]
LEMMA ToldIs ==
  ASSUME NEW w, Shape(w), NEW e \in Events, NEW c
  PROVE  IsTold(Told(w, e, c), w, e, c)
<1>1. PICK v : v = [w EXCEPT !.told = [w.told EXCEPT ![e] = c], !.updated = TRUE] OBVIOUS
<1>2. DOMAIN v = {"pids", "told", "updated"} /\ v.told = [w.told EXCEPT ![e] = c]
      /\ v.pids = w.pids /\ v.updated = TRUE
  BY <1>1 DEF Shape
<1>3. DOMAIN v.told = Events /\ v.told[e] = c
      /\ \A g \in Events \ {e} : v.told[g] = w.told[g]
  BY <1>2 DEF Shape
<1>4. Shape(v) BY <1>2, <1>3 DEF Shape
<1>5. v = Told(w, e, c) BY <1>1 DEF Told
<1> QED BY <1>2, <1>3, <1>4, <1>5 DEF IsTold

(* A handler that leaves the numbered texts alone, and asks for a report   *)
(* if it changes what would be reported.                                   *)
LEMMA OtherKept ==
  ASSUME OnAir, NEW w, NEW S, Good(w, S), NEW v, Shape(v), v.updated \in BOOLEAN,
         \A id \in Numbered : v.pids[id] = w.pids[id],
         v.told.message = w.told.message, v.told.alert = w.told.alert,
         IsText("universal", v.pids.universal), IsText("slogan", v.pids.slogan),
         v.pids.data_services \in Seq(Types), Len(v.pids.data_services) <= MAX_DATA_SERVICES,
         v.updated \/ (~w.updated /\ Quiet(w.pids, v.pids))
  PROVE  Good(v, S)
<1>1. /\ WorkOK(w) /\ TextsAre(w.pids, S) /\ AlertIs(w.pids.alert) /\ Whole(w.told)
      /\ w.updated \/ Current(w.pids, S, sis)
  BY DEF Good
<1>2. Numbered = {"long_name", "message", "alert"} /\ TextIds = Numbered \cup {"universal", "slogan"}
  BY DEF Numbered, TextIds
<1>3. \A id \in TextIds : IsText(id, v.pids[id]) BY <1>1, <1>2 DEF WorkOK, PidsOK
<1>4. WorkOK(v) BY <1>3 DEF WorkOK, PidsOK
<1>5. TextsAre(v.pids, S) BY <1>1 DEF TextsAre
<1>6. AlertIs(v.pids.alert) BY <1>1, <1>2
<1>7. Whole(v.told) BY <1>1 DEF Whole
<1>8. ASSUME ~v.updated PROVE Current(v.pids, S, sis)
  <2>1. Current(w.pids, S, sis) /\ Quiet(w.pids, v.pids) BY <1>1, <1>8
  <2>2. NumberedQuiet(w.pids, v.pids, S, S) BY DEF NumberedQuiet, StillThere
  <2> QED BY <2>1, <2>2, CurrentKept
<1> QED BY <1>4, <1>5, <1>6, <1>7, <1>8 DEF Good

(* A handler of a numbered text: part p is stored, and the text is shown   *)
(* (d) when it is complete and passes what the handler checks.             *)
After(S, p) == [id \in Numbered |-> S[id] \/ (p.id = id /\ p.frame = 0)]
LEMMA TextKept ==
  ASSUME OnAir, NEW w, NEW S \in [Numbered -> BOOLEAN], Good(w, S),
         NEW p \in Sent, p.id \in Numbered, NEW d \in BOOLEAN,
         NEW v, Shape(v), v.updated \in BOOLEAN,
         \A g \in Fields \ {p.id, "alert_timeout"} : v.pids[g] = w.pids[g],
         NEW u, u = Stored(Begun(w.pids[p.id], p), p),
         v.pids[p.id] = [u EXCEPT !.displayed = @ \/ d],
         d /\ After(S, p)[p.id] => u.seq = p.of.seq /\ Complete(u.buf, Len(p.of.parts)),
         d /\ p.id = "alert" => u.seq # -1,
         Whole(v.told), v.updated \/ (~w.updated /\ ~d)
  PROVE  Good(v, After(S, p))
<1>1. PICK t : t = w.pids[p.id] OBVIOUS
<1>2. PICK s \in BOOLEAN : s = S[p.id] OBVIOUS
<1>3. PICK s2 \in BOOLEAN : (s2 <=> s \/ p.frame = 0) OBVIOUS
<1>4. After(S, p)[p.id] <=> s2 BY <1>2, <1>3 DEF After
<1>5. ASSUME NEW id \in Numbered, id # p.id PROVE After(S, p)[id] <=> S[id]
  BY <1>5 DEF After
<1>6. /\ WorkOK(w) /\ TextsAre(w.pids, S) /\ AlertIs(w.pids.alert) /\ Whole(w.told)
      /\ w.updated \/ Current(w.pids, S, sis)
  BY DEF Good
<1>7. Numbered \subseteq TextIds /\ Numbered \subseteq Fields /\ TextIds \subseteq Fields
      /\ "alert_timeout" \notin TextIds /\ Numbered = {"long_name", "message", "alert"}
  BY DEF Numbered, TextIds, Fields
<1>8. IsText(p.id, t) BY <1>1, <1>6, <1>7 DEF WorkOK, PidsOK
<1>9. p.id \in menu /\ p.of = airing[p.id] /\ p.of.seq \in Nat /\ p.of.parts # << >>
  BY SentTextIs
<1>10. TextIs(t, s, p.of) BY <1>1, <1>2, <1>6, <1>9 DEF TextsAre
<1>11. /\ IsText(p.id, u) /\ TextIs(u, s \/ p.frame = 0, p.of)
       /\ u.seq = IF p.frame = 0 THEN p.of.seq ELSE t.seq
       /\ p.frame # 0 => u.buf[0] = t.buf[0]
       /\ u.head = IF p.frame = 0 THEN p.of ELSE t.head
       /\ s \/ p.frame # 0 \/ ~u.displayed
       /\ u.displayed => t.displayed
       /\ s /\ u.displayed => u.buf = t.buf /\ u.head = t.head
       /\ p.frame = 0 => u.buf[0] # ""
       /\ p.frame = 0 \/ (u.displayed <=> t.displayed)
  <2>1. HasPart(t, s, p, Stored(Begun(t, p), p)) BY <1>8, <1>10, StoredIs
  <2>2. HasPart(t, s, p, u) BY <2>1, <1>1
  <2> QED BY <2>2, Zenon DEF HasPart
<1>12. TextIs(u, s2, p.of) BY <1>3, <1>11, Zenon DEF TextIs
<1>13. PICK x : x = v.pids[p.id] OBVIOUS
<1>14. d /\ s2 => u.seq = p.of.seq /\ Complete(u.buf, Len(p.of.parts)) BY <1>4
<1>15. /\ IsText(p.id, x) /\ TextIs(x, s2, p.of)
       /\ x.buf = u.buf /\ x.seq = u.seq /\ x.head = u.head
       /\ x.displayed = (u.displayed \/ d)
  <2>1. IsText(p.id, u) BY <1>11
  <2> QED BY <2>1, <1>12, <1>13, <1>14, DisplayedIs
<1>16. WorkOK(v)
  <2>1. ASSUME NEW id \in TextIds PROVE IsText(id, v.pids[id])
    <3>1. CASE id = p.id BY <3>1, <1>13, <1>15
    <3>2. CASE id # p.id
      <4>1. v.pids[id] = w.pids[id] BY <3>2, <1>7
      <4> QED BY <4>1, <1>6 DEF WorkOK, PidsOK
    <3> QED BY <3>1, <3>2
  <2>2. "data_services" \in Fields \ {p.id, "alert_timeout"} BY <1>7 DEF Fields
  <2>3. v.pids.data_services = w.pids.data_services BY <2>2
  <2> QED BY <2>1, <2>3, <1>6 DEF WorkOK, PidsOK
<1>17. TextsAre(v.pids, After(S, p))
  <2> SUFFICES ASSUME NEW id \in Numbered \cap menu
               PROVE  TextIs(v.pids[id], After(S, p)[id], airing[id])
    BY DEF TextsAre
  <2>1. CASE id = p.id
    <3>1. TextIs(x, After(S, p)[p.id], p.of) BY <1>4, <1>15, Zenon DEF TextIs
    <3> QED BY <2>1, <3>1, <1>9, <1>13
  <2>2. CASE id # p.id
    <3>1. v.pids[id] = w.pids[id] BY <2>2, <1>7
    <3>2. TextIs(w.pids[id], S[id], airing[id]) BY <1>6 DEF TextsAre
    <3>3. TextIs(w.pids[id], After(S, p)[id], airing[id])
      BY <2>2, <3>2, <1>5, Zenon DEF TextIs
    <3> QED BY <3>1, <3>3
  <2> QED BY <2>1, <2>2
<1>18. AlertIs(v.pids.alert)
  <2>1. CASE p.id = "alert"
    <3>1. AlertIs(t) BY <2>1, <1>1, <1>6
    <3>2. x.seq = -1 => p.frame # 0 /\ t.seq = -1
      <4>1. x.seq = IF p.frame = 0 THEN p.of.seq ELSE t.seq BY <1>11, <1>15, Zenon
      <4>2. p.of.seq # -1 BY <1>9
      <4> QED BY <4>1, <4>2, Zenon
    <3>3. x.seq = -1 => x.buf[0] = "" /\ ~t.displayed BY <3>1, <3>2, <1>11, <1>15 DEF AlertIs
    <3>4. x.seq = -1 => ~d BY <2>1, <1>15
    <3>5. x.seq = -1 => ~x.displayed BY <3>3, <3>4, <1>11, <1>15, Zenon
    <3>6. x.buf[0] # "" => x.head.parts # << >>
      BY <3>1, <1>9, <1>11, <1>15, Zenon DEF AlertIs
    <3>7. AlertIs(x) BY <3>3, <3>5, <3>6, Zenon DEF AlertIs
    <3> QED BY <2>1, <3>7, <1>13
  <2>2. CASE p.id # "alert"
    <3>1. v.pids.alert = w.pids.alert BY <2>2, <1>7
    <3> QED BY <3>1, <1>6
  <2> QED BY <2>1, <2>2
<1>19. ASSUME ~v.updated PROVE Current(v.pids, After(S, p), sis)
  <2>1. Current(w.pids, S, sis) /\ ~d BY <1>6, <1>19
  <2>2. Quiet(w.pids, v.pids)
    <3>1. \A g \in {"id", "universal", "universal_final", "short_name", "latitude",
                    "longitude", "audio_services", "data_services", "slogan"} :
            v.pids[g] = w.pids[g]
      BY <1>7 DEF Fields
    <3> QED BY <3>1 DEF Quiet
  <2>3. NumberedQuiet(w.pids, v.pids, S, After(S, p))
    <3> SUFFICES ASSUME NEW id \in Numbered
                 PROVE  \/ Pending(v.pids[id], After(S, p)[id])
                        \/ /\ ~Pending(w.pids[id], S[id])
                           /\ StillThere(w.pids[id], v.pids[id])
      BY DEF NumberedQuiet
    <3>1. CASE id = p.id
      <4>1. (x.displayed <=> u.displayed) /\ x.buf = u.buf /\ x.head = u.head /\ x.seq = u.seq
        BY <2>1, <1>15, Zenon
      <4>2. Pending(x, s2) \/ (~Pending(t, s) /\ StillThere(t, x))
        <5>1. CASE x.displayed /\ ~s2 BY <5>1, Zenon DEF Pending
        <5>2. CASE x.displayed /\ s2
          <6>1. u.displayed /\ t.displayed BY <4>1, <5>2, <1>11, Zenon
          <6>2. s BY <5>2, <6>1, <1>3, <1>11, Zenon
          <6>3. ~Pending(t, s) BY <6>1, <6>2, Zenon DEF Pending
          <6>4. StillThere(t, x)
            BY <4>1, <5>2, <6>1, <6>2, <1>11, Zenon DEF StillThere
          <6> QED BY <6>3, <6>4
        <5>3. CASE ~x.displayed /\ p.frame = 0
          <6>1. x.seq = p.of.seq /\ x.buf[0] # "" BY <4>1, <5>3, <1>11, Zenon
          <6>2. p.of.seq \in Nat BY <1>9, Zenon
          <6>3. p.of.seq >= 0 BY <6>2
          <6>4. x.seq >= 0 BY <6>1, <6>3, Zenon
          <6> QED BY <5>3, <6>1, <6>4, Zenon DEF Pending
        <5>4. CASE ~x.displayed /\ p.frame # 0
          <6>1. ~t.displayed /\ x.seq = t.seq /\ x.buf[0] = t.buf[0]
            BY <4>1, <5>4, <1>11, Zenon
          <6>2. Pending(t, s) => Pending(x, s2) BY <5>4, <6>1, Zenon DEF Pending
          <6>3. StillThere(t, x) BY <5>4, <6>1, Zenon DEF StillThere
          <6> QED BY <6>2, <6>3
        <5> QED BY <5>1, <5>2, <5>3, <5>4
      <4>3. Pending(x, s2) <=> Pending(x, After(S, p)[p.id]) BY <1>4, Zenon DEF Pending
      <4> QED BY <3>1, <4>2, <4>3, <1>1, <1>2, <1>13
    <3>2. CASE id # p.id
      <4>1. v.pids[id] = w.pids[id] BY <3>2, <1>7
      <4>2. Pending(w.pids[id], S[id]) <=> Pending(w.pids[id], After(S, p)[id])
        BY <3>2, <1>5, Zenon DEF Pending
      <4> QED BY <4>1, <4>2 DEF StillThere
    <3> QED BY <3>1, <3>2
  <2> QED BY <2>1, <2>2, <2>3, CurrentKept
<1> QED BY <1>16, <1>17, <1>18, <1>19 DEF Good

-----------------------------------------------------------------------------
(* The handlers of what has no number.                                     *)
AlertSame(w, v) ==
  /\ v.pids.alert = w.pids.alert /\ v.pids.alert_timeout = w.pids.alert_timeout
  /\ v.told.alert = w.told.alert

Kept(w, v, S) == Good(v, S) /\ AlertSame(w, v)

Plain == Fields \ (Numbered \cup {"alert_timeout"})
IsField(f, x) ==
  /\ f = "data_services" => x \in Seq(Types) /\ Len(x) <= MAX_DATA_SERVICES
  /\ f \in {"universal", "slogan"} => IsText(f, x)

LEMMA PlainSet ==
  ASSUME OnAir, NEW w, NEW S, Good(w, S), NEW f \in Plain, NEW x, IsField(f, x),
         NEW v, v = [w EXCEPT !.pids[f] = x],
         w.updated \/ Quiet(w.pids, v.pids)
  PROVE  Kept(w, v, S)
<1>1. Shape(w) /\ w.updated \in BOOLEAN /\ PidsOK(w.pids) BY DEF Good, WorkOK
<1>2. f \in Fields /\ f \notin Numbered /\ f # "alert_timeout" BY DEF Plain
<1>3. /\ Shape(v) /\ v.pids[f] = x /\ \A g \in Fields \ {f} : v.pids[g] = w.pids[g]
      /\ v.told = w.told /\ v.updated = w.updated
  BY <1>1, <1>2, FieldSet
<1>4. Numbered = {"long_name", "message", "alert"} /\ Numbered \subseteq Fields
      /\ {"universal", "slogan", "data_services", "alert", "alert_timeout"} \subseteq Fields
      /\ {"universal", "slogan"} \subseteq TextIds
  BY DEF Numbered, Fields, TextIds
<1>5. \A id \in Numbered : v.pids[id] = w.pids[id] BY <1>2, <1>3, <1>4
<1>6. AlertSame(w, v) BY <1>2, <1>3, <1>4 DEF AlertSame
<1>7. IsText("universal", v.pids.universal) /\ IsText("slogan", v.pids.slogan)
  <2>1. IsText("universal", w.pids.universal) /\ IsText("slogan", w.pids.slogan)
    BY <1>1, <1>4 DEF PidsOK
  <2>2. f = "universal" \/ v.pids.universal = w.pids.universal BY <1>3, <1>4
  <2>3. f = "slogan" \/ v.pids.slogan = w.pids.slogan BY <1>3, <1>4
  <2> QED BY <2>1, <2>2, <2>3, <1>3 DEF IsField
<1>8. v.pids.data_services \in Seq(Types) /\ Len(v.pids.data_services) <= MAX_DATA_SERVICES
  <2>1. f = "data_services" \/ v.pids.data_services = w.pids.data_services BY <1>3, <1>4
  <2> QED BY <2>1, <1>1, <1>3 DEF IsField, PidsOK
<1>9. v.told.message = w.told.message /\ v.told.alert = w.told.alert BY <1>3
<1>10. v.updated \/ (~w.updated /\ Quiet(w.pids, v.pids)) BY <1>1, <1>3
<1>11. Good(v, S) BY <1>1, <1>3, <1>5, <1>7, <1>8, <1>9, <1>10, OtherKept
<1> QED BY <1>6, <1>11 DEF Kept

LEMMA PlainTold ==
  ASSUME OnAir, NEW w, NEW S, Good(w, S), NEW f \in Plain, NEW x, IsField(f, x),
         NEW e \in Events \ {"message", "alert"}, NEW c,
         NEW z, z = [w EXCEPT !.pids[f] = x]
  PROVE  Kept(w, Told(z, e, c), S)
<1>1. PICK v : v = Told(z, e, c) OBVIOUS
<1>2. z = [w EXCEPT !.pids[f] = x] OBVIOUS
<1>3. WorkOK(w) BY DEF Good
<1>4. /\ Shape(z) /\ z.pids[f] = x /\ \A g \in Fields \ {f} : z.pids[g] = w.pids[g]
      /\ z.told = w.told
  BY <1>2, <1>3, FieldSet DEF WorkOK, Plain
<1>5. /\ Shape(v) /\ v.pids = z.pids /\ v.updated = TRUE
      /\ \A g \in Events \ {e} : v.told[g] = z.told[g]
  <2>1. IsTold(Told(z, e, c), z, e, c) BY <1>4, ToldIs
  <2> QED BY <2>1, <1>1 DEF IsTold
<1>6. PICK y : y = [w EXCEPT !.updated = TRUE] OBVIOUS
<1>7. Good(y, S) /\ y.pids = w.pids /\ y.told = w.told /\ y.updated = TRUE
  <2>1. DOMAIN y = {"pids", "told", "updated"} /\ y.pids = w.pids /\ y.told = w.told
        /\ y.updated = TRUE
    BY <1>3, <1>6 DEF WorkOK, Shape
  <2>2. WorkOK(y) BY <2>1, <1>3 DEF WorkOK, Shape
  <2> QED BY <2>1, <2>2 DEF Good
<1>8. PICK q : q = [y EXCEPT !.pids[f] = x] OBVIOUS
<1>9. Good(q, S) /\ AlertSame(y, q) BY <1>7, <1>8, PlainSet DEF Kept
<1>10. q.pids = v.pids /\ q.updated = TRUE /\ q.told = w.told
  <2>1. q.pids = [w.pids EXCEPT ![f] = x] /\ q.updated = TRUE /\ q.told = w.told
    BY <1>7, <1>8 DEF Good, WorkOK, Shape
  <2>2. z.pids = [w.pids EXCEPT ![f] = x] BY <1>2, <1>3 DEF WorkOK, Shape
  <2> QED BY <2>1, <2>2, <1>5
<1>11. v.told.message = w.told.message /\ v.told.alert = w.told.alert
  BY <1>4, <1>5 DEF Events
<1>12. AlertSame(w, v) BY <1>7, <1>9, <1>10, <1>11 DEF AlertSame
<1>13. Whole(v.told) BY <1>9, <1>10, <1>11 DEF Good, Whole
<1>14. Good(v, S) BY <1>5, <1>9, <1>10, <1>13 DEF Good, WorkOK
<1> QED BY <1>1, <1>12, <1>14 DEF Kept

LEMMA SameKept == ASSUME NEW w, NEW S, Good(w, S) PROVE Kept(w, w, S)
BY DEF Kept, AlertSame

(* A field that is not a text, a list or a count may hold anything.        *)
Simple == {"id", "short_name", "latitude", "longitude", "audio_services", "parameters",
           "universal_final"}
LEMMA SimpleIs == ASSUME NEW f \in Simple, NEW x PROVE f \in Plain /\ IsField(f, x)
BY DEF Simple, Plain, IsField, Fields, Numbered

LEMMA StationIdKept ==
  ASSUME OnAir, NEW w, NEW S, Good(w, S), NEW p \in Sent
  PROVE  Kept(w, sis_decode_station_id(w, p), S)
<1>1. CASE p.part = w.pids.id BY <1>1, SameKept DEF sis_decode_station_id
<1>2. CASE p.part # w.pids.id
  <2>1. PICK z : z = [w EXCEPT !.pids["id"] = p.part] OBVIOUS
  <2>2. "id" \in Plain /\ IsField("id", p.part) /\ "id" \in Events \ {"message", "alert"}
    BY SimpleIs DEF Simple, Events
  <2>3. Kept(w, Told(z, "id", <<p.part>>), S) BY <2>1, <2>2, PlainTold
  <2> QED BY <1>2, <2>1, <2>3 DEF sis_decode_station_id
<1> QED BY <1>1, <1>2

LEMMA ShortNameKept ==
  ASSUME OnAir, NEW w, NEW S, Good(w, S), NEW p \in Sent
  PROVE  Kept(w, sis_decode_station_name_short(w, p), S)
<1>1. CASE p.part = w.pids.short_name BY <1>1, SameKept DEF sis_decode_station_name_short
<1>2. CASE p.part # w.pids.short_name
  <2>1. PICK z : z = [w EXCEPT !.pids["short_name"] = p.part] OBVIOUS
  <2>2. "short_name" \in Plain /\ IsField("short_name", p.part)
        /\ "name" \in Events \ {"message", "alert"}
    BY SimpleIs DEF Simple, Events
  <2>3. Kept(w, Told(z, "name", <<p.part>>), S) BY <2>1, <2>2, PlainTold
  <2> QED BY <1>2, <2>1, <2>3 DEF sis_decode_station_name_short
<1> QED BY <1>1, <1>2

(* One half of the location alone is not reported.                         *)
LEMMA LocationKept ==
  ASSUME OnAir, NEW w, NEW S, Good(w, S), NEW p \in Sent
  PROVE  Kept(w, sis_decode_station_location(w, p), S)
<1> DEFINE mine  == IF p.frame = 0 THEN "latitude" ELSE "longitude"
           other == IF p.frame = 0 THEN "longitude" ELSE "latitude"
           moved == [w EXCEPT !.pids[mine] = p.part]
<1>1. mine \in Plain /\ IsField(mine, p.part) /\ "location" \in Events \ {"message", "alert"}
  <2>1. mine \in Simple BY DEF Simple
  <2> QED BY <2>1, SimpleIs DEF Events
<1>2. PICK v : v = sis_decode_station_location(w, p) OBVIOUS
<1>3. CASE p.part = w.pids[mine] BY <1>2, <1>3, SameKept DEF sis_decode_station_location
<1>4. CASE p.part # w.pids[mine] /\ w.pids[other] = ""
  <2>1. v = moved BY <1>2, <1>4 DEF sis_decode_station_location
  <2>2. Shape(w) BY DEF Good, WorkOK
  <2>3. mine \in Fields /\ other \in Fields \ {mine}
        /\ \A f \in Fields : f # mine => f \in Fields \ {mine}
    BY DEF Fields
  <2>4. \A g \in Fields \ {mine} : v.pids[g] = w.pids[g] BY <2>1, <2>2, <2>3, FieldSet
  <2>5. v.pids[other] = "" BY <1>4, <2>3, <2>4
  <2>6. Quiet(w.pids, v.pids)
    <3>1. \A g \in {"id", "universal", "universal_final", "short_name", "audio_services",
                    "data_services", "slogan"} : v.pids[g] = w.pids[g]
      BY <2>4 DEF Fields
    <3>2. /\ v.pids.latitude = "" \/ v.pids.longitude = ""
          /\ w.pids.latitude = "" \/ w.pids.longitude = ""
      BY <2>5, <1>4
    <3> QED BY <3>1, <3>2 DEF Quiet
  <2>7. Kept(w, v, S) BY <1>1, <2>1, <2>6, PlainSet
  <2> QED BY <1>2, <2>7
<1>5. CASE p.part # w.pids[mine] /\ w.pids[other] # ""
  <2>1. PICK z : z = moved OBVIOUS
  <2>2. PICK c : c = <<z.pids.latitude, z.pids.longitude>> OBVIOUS
  <2>3. v = Told(z, "location", c)
    BY <1>2, <1>5, <2>1, <2>2 DEF sis_decode_station_location
  <2>4. Kept(w, Told(z, "location", c), S) BY <1>1, <2>1, PlainTold
  <2> QED BY <1>2, <2>3, <2>4
<1> QED BY <1>3, <1>4, <1>5

LEMMA ServiceKept ==
  ASSUME OnAir, NEW w, NEW S, Good(w, S), NEW p \in Sent
  PROVE  Kept(w, sis_decode_service_information(w, p), S)
<1>1. PICK s : s = p.part OBVIOUS
<1>2. PICK v : v = sis_decode_service_information(w, p) OBVIOUS
<1> DEFINE voice == /\ s.category = "audio" /\ s.program < MAX_AUDIO_SERVICES
                    /\ w.pids.audio_services[s.program] # s.type
           bytes == /\ s.category = "data" /\ s.type \notin ToSet(w.pids.data_services)
                    /\ Len(w.pids.data_services) < MAX_DATA_SERVICES
<1>3. {"audio", "data"} \subseteq Events \ {"message", "alert"} BY DEF Events
<1>4. CASE voice
  <2>1. PICK a : a = [w.pids.audio_services EXCEPT ![s.program] = s.type] OBVIOUS
  <2>2. PICK z : z = [w EXCEPT !.pids["audio_services"] = a] OBVIOUS
  <2>3. v = Told(z, "audio", <<s>>)
    BY <1>1, <1>2, <1>4, <2>1, <2>2 DEF sis_decode_service_information
  <2>4. "audio_services" \in Plain /\ IsField("audio_services", a) BY SimpleIs DEF Simple
  <2>5. Kept(w, Told(z, "audio", <<s>>), S) BY <1>3, <2>2, <2>4, PlainTold
  <2> QED BY <1>2, <2>3, <2>5
<1>5. CASE bytes
  <2>1. PICK d : d = Append(w.pids.data_services, s.type) OBVIOUS
  <2>2. PICK z : z = [w EXCEPT !.pids["data_services"] = d] OBVIOUS
  <2>3. v = Told(z, "data", <<s>>)
    BY <1>1, <1>2, <1>5, <2>1, <2>2 DEF sis_decode_service_information
  <2>4. s.type \in Types BY <1>1, SentIs DEF Types
  <2>5. w.pids.data_services \in Seq(Types) BY DEF Good, WorkOK, PidsOK
  <2>6. d \in Seq(Types) /\ Len(d) = Len(w.pids.data_services) + 1
        /\ Len(w.pids.data_services) \in Nat
    BY <2>1, <2>4, <2>5
  <2>7. Len(d) <= MAX_DATA_SERVICES BY <1>5, <2>6, Limits
  <2>8. "data_services" \in Plain /\ IsField("data_services", d)
    BY <2>6, <2>7 DEF Plain, Fields, Numbered, IsField
  <2>9. Kept(w, Told(z, "data", <<s>>), S) BY <1>3, <2>2, <2>8, PlainTold
  <2> QED BY <1>2, <2>3, <2>9
<1>6. CASE ~voice /\ ~bytes
  <2>1. v = w BY <1>1, <1>2, <1>6 DEF sis_decode_service_information
  <2> QED BY <2>1, <1>2, SameKept
<1> QED BY <1>4, <1>5, <1>6

(* Parameters are told in events of their own, and never reported.         *)
LEMMA ParameterKept ==
  ASSUME OnAir, NEW w, NEW S, Good(w, S), NEW p \in Sent
  PROVE  Kept(w, sis_decode_parameter(w, p), S)
<1>1. PICK v : v = sis_decode_parameter(w, p) OBVIOUS
<1>2. PICK i : i = p.part.index OBVIOUS
<1>3. PICK now : now = [w.pids.parameters EXCEPT ![i] = p.part.value] OBVIOUS
<1>4. PICK tells : tells = [e \in DOMAIN w.told |->
                              IF Tells(now, e, i) THEN Values(now, e) ELSE w.told[e]]
  OBVIOUS
<1>5. PICK z : z = [w EXCEPT !.pids["parameters"] = now] OBVIOUS
<1>6. CASE i \notin Indexes \/ w.pids.parameters[i] = p.part.value
  BY <1>2, <1>6, SameKept DEF sis_decode_parameter
<1>7. CASE ~(i \notin Indexes \/ w.pids.parameters[i] = p.part.value)
  <2>1. v = [w EXCEPT !.pids.parameters = now, !.told = tells]
    BY <1>1, <1>2, <1>3, <1>4, <1>7 DEF sis_decode_parameter
  <2>2. Shape(w) BY DEF Good, WorkOK
  <2>3. "parameters" \in Plain /\ IsField("parameters", now) /\ "parameters" \in Fields
    BY SimpleIs DEF Simple, Fields
  <2>4. \A g \in Fields \ {"parameters"} : z.pids[g] = w.pids[g]
    BY <1>5, <2>2, <2>3, FieldSet
  <2>5. Quiet(w.pids, z.pids)
    <3>1. \A g \in {"id", "universal", "universal_final", "short_name", "latitude",
                    "longitude", "audio_services", "data_services", "slogan"} :
            z.pids[g] = w.pids[g]
      BY <2>4 DEF Fields
    <3> QED BY <3>1 DEF Quiet
  <2>6. Kept(w, z, S) BY <1>5, <2>3, <2>5, PlainSet
  <2>7. /\ DOMAIN v = {"pids", "told", "updated"} /\ v.pids = z.pids
        /\ v.updated = z.updated /\ v.told = tells
    BY <1>5, <2>1, <2>2 DEF Shape
  <2>8. DOMAIN tells = Events /\ tells.message = w.told.message /\ tells.alert = w.told.alert
    <3>1. ~Tells(now, "message", i) /\ ~Tells(now, "alert", i) BY DEF Tells, Groups
    <3>2. DOMAIN w.told = Events /\ "message" \in Events /\ "alert" \in Events
      BY <2>2 DEF Shape, Events
    <3> QED BY <1>4, <3>1, <3>2
  <2>9. WorkOK(v) BY <2>6, <2>7, <2>8 DEF Kept, Good, WorkOK, Shape
  <2>10. Whole(v.told) BY <2>7, <2>8 DEF Good, Whole
  <2>11. Good(v, S) BY <2>6, <2>7, <2>9, <2>10 DEF Kept, Good
  <2>12. AlertSame(w, v) BY <2>6, <2>7, <2>8 DEF Kept, AlertSame
  <2> QED BY <1>1, <2>11, <2>12 DEF Kept
<1> QED BY <1>6, <1>7

(* To have asked for a report, and a part of a text without a number.      *)
IsAsked(w, y, d, S) ==
  /\ Good(y, S) /\ Shape(y) /\ AlertSame(w, y) /\ y.pids = w.pids /\ y.told = w.told
  /\ y.updated = (w.updated \/ d) /\ (d => y.updated)
LEMMA AskedKept ==
  ASSUME NEW w, NEW S, Good(w, S), NEW d \in BOOLEAN
  PROVE  IsAsked(w, [w EXCEPT !.updated = @ \/ d], d, S)
<1>1. PICK y : y = [w EXCEPT !.updated = @ \/ d] OBVIOUS
<1>2. Shape(w) /\ w.updated \in BOOLEAN BY DEF Good, WorkOK
<1>3. /\ DOMAIN y = {"pids", "told", "updated"} /\ y.pids = w.pids /\ y.told = w.told
      /\ y.updated = (w.updated \/ d)
  BY <1>1, <1>2 DEF Shape
<1>4. Shape(y) BY <1>2, <1>3 DEF Shape
<1>5. y.updated \in BOOLEAN /\ (d => y.updated) /\ (w.updated => y.updated)
  BY <1>2, <1>3
<1>6. AlertSame(w, y) BY <1>3 DEF AlertSame
<1>7. Good(y, S) BY <1>3, <1>4, <1>5 DEF Good, WorkOK
<1> QED BY <1>1, <1>3, <1>4, <1>5, <1>6, <1>7 DEF IsAsked

IsStored(x, t, id, d) ==
  IsText(id, x) /\ x.displayed = (t.displayed \/ d) /\ (~d => (x.displayed <=> t.displayed))
LEMMA OtherStoredIs ==
  ASSUME OnAir, NEW p \in Sent, NEW t, IsText(p.id, t), NEW d \in BOOLEAN
  PROVE  IsStored([Stored(t, p) EXCEPT !.displayed = @ \/ d], t, p.id, d)
<1>1. PICK u : u = Stored(t, p) OBVIOUS
<1>2. p.of \in Items[p.id] /\ p.id \in MsgIds BY SentIs
<1>3. u = [t EXCEPT !.buf = [t.buf EXCEPT ![p.frame] = p.part],
                    !.head = IF p.frame = 0 THEN p.of ELSE t.head]
  BY <1>1 DEF Stored
<1>4. /\ DOMAIN u = {"buf", "seq", "head", "displayed"}
      /\ u.buf = [t.buf EXCEPT ![p.frame] = p.part]
      /\ u.head = IF p.frame = 0 THEN p.of ELSE t.head
      /\ u.seq = t.seq /\ u.displayed = t.displayed
  BY <1>3 DEF IsText
<1>5. u.buf = [i \in Frames |-> u.buf[i]] BY <1>4 DEF IsText
<1>6. u.head = None \/ (p.id \in MsgIds /\ u.head \in Items[p.id])
  BY <1>2, <1>4, Zenon DEF IsText
<1>7. PICK x : x = [u EXCEPT !.displayed = @ \/ d] OBVIOUS
<1>8. /\ DOMAIN x = {"buf", "seq", "head", "displayed"}
      /\ x.buf = u.buf /\ x.seq = u.seq /\ x.head = u.head
      /\ x.displayed = (u.displayed \/ d)
  BY <1>4, <1>7
<1>9. x.displayed = (t.displayed \/ d) BY <1>4, <1>8
<1>10. x.displayed \in BOOLEAN BY <1>9
<1>11. u.seq \in Int BY <1>4 DEF IsText
<1>12. IsText(p.id, x) BY <1>5, <1>6, <1>8, <1>10, <1>11 DEF IsText
<1>13. ~d => (x.displayed <=> t.displayed) BY <1>9, Zenon
<1> QED BY <1>1, <1>7, <1>9, <1>12, <1>13 DEF IsStored

LEMMA SloganKept ==
  ASSUME OnAir, NEW w, NEW S, Good(w, S), NEW p \in Sent, p.id = "slogan"
  PROVE  Kept(w, sis_decode_slogan(w, p), S)
<1>1. PICK v : v = sis_decode_slogan(w, p) OBVIOUS
<1>2. PICK text : text = Stored(w.pids.slogan, p) OBVIOUS
<1>3. PICK d \in BOOLEAN : d = (/\ text.head # None /\ ~text.displayed
                               /\ Complete(text.buf, Len(text.head.parts)))
  OBVIOUS
<1>4. PICK x : x = [text EXCEPT !.displayed = @ \/ d] OBVIOUS
<1>5. PICK y : y = [w EXCEPT !.updated = @ \/ d] OBVIOUS
<1>6. PICK z : z = [y EXCEPT !.pids["slogan"] = x] OBVIOUS
<1>7. PICK done : done = [w EXCEPT !.pids.slogan = x, !.updated = @ \/ d] OBVIOUS
<1>8. Shape(w) /\ IsText("slogan", w.pids.slogan) BY DEF Good, WorkOK, PidsOK, TextIds
<1>9. done = z BY <1>5, <1>6, <1>7, <1>8 DEF Shape
<1>10. IsAsked(w, y, d, S) BY <1>5, AskedKept
<1>11. IsStored(x, w.pids.slogan, "slogan", d) BY <1>2, <1>4, <1>8, OtherStoredIs
<1>12. "slogan" \in Plain /\ IsField("slogan", x) /\ "slogan" \in Fields
  BY <1>11 DEF IsStored, Plain, IsField, Fields, Numbered
<1>13. "slogan" \in Events \ {"message", "alert"} BY DEF Events
<1>14. Good(y, S) /\ Shape(y) /\ AlertSame(w, y) BY <1>10 DEF IsAsked
<1>15. Kept(y, z, S)
  <2>1. \A g \in Fields \ {"slogan"} : z.pids[g] = y.pids[g] BY <1>6, <1>12, <1>14, FieldSet
  <2>2. z.pids.slogan = x BY <1>6, <1>12, <1>14 DEF Shape
  <2>3. CASE d
    <3>1. y.updated BY <2>3, <1>10 DEF IsAsked
    <3> QED BY <3>1, <1>6, <1>12, <1>14, PlainSet
  <2>4. CASE ~d
    <3>1. z.pids.slogan.displayed <=> y.pids.slogan.displayed
      BY <2>2, <2>4, <1>10, <1>11, Zenon DEF IsStored, IsAsked
    <3>2. \A g \in {"id", "universal", "universal_final", "short_name", "latitude",
                    "longitude", "audio_services", "data_services"} :
            z.pids[g] = y.pids[g]
      BY <2>1 DEF Fields
    <3>3. Quiet(y.pids, z.pids) BY <3>1, <3>2 DEF Quiet
    <3> QED BY <3>3, <1>6, <1>12, <1>14, PlainSet
  <2> QED BY <2>3, <2>4
<1>16. v = z \/ \E c : v = Told(z, "slogan", c)
  BY <1>1, <1>2, <1>3, <1>4, <1>7, <1>9, Zenon DEF sis_decode_slogan
<1>17. \A c : Kept(y, Told(z, "slogan", c), S) BY <1>6, <1>12, <1>13, <1>14, PlainTold
<1>18. Kept(y, v, S) BY <1>15, <1>16, <1>17
<1> QED BY <1>1, <1>14, <1>18 DEF Kept, AlertSame

LEMMA UniversalKept ==
  ASSUME OnAir, NEW w, NEW S, Good(w, S), NEW p \in Sent, p.id = "universal"
  PROVE  Kept(w, sis_decode_universal_short_name(w, p), S)
<1>1. PICK v : v = sis_decode_universal_short_name(w, p) OBVIOUS
<1>2. PICK text : text = Stored(w.pids.universal, p) OBVIOUS
<1>3. PICK d \in BOOLEAN : d = (/\ text.head # None /\ ~text.displayed
                               /\ Complete(text.buf, Len(text.head.parts)))
  OBVIOUS
<1>4. PICK x : x = [text EXCEPT !.displayed = @ \/ d] OBVIOUS
<1>5. PICK c : c = Terminated(text.buf) OBVIOUS
<1>6. PICK done : done = [w EXCEPT !.pids["universal"] = x] OBVIOUS
<1>7. PICK last : last = [done EXCEPT !.pids["universal_final"] = c] OBVIOUS
<1>8. Shape(w) /\ w.updated \in BOOLEAN /\ IsText("universal", w.pids.universal)
  BY DEF Good, WorkOK, PidsOK, TextIds
<1>9. IsStored(x, w.pids.universal, "universal", d) BY <1>2, <1>4, <1>8, OtherStoredIs
<1>10. /\ "universal" \in Plain /\ IsField("universal", x) /\ "universal" \in Fields
       /\ "universal_final" \in Plain /\ IsField("universal_final", c)
       /\ "name" \in Events \ {"message", "alert"}
  BY <1>9 DEF IsStored, Plain, IsField, Fields, Numbered, Events
<1>11. p.frame > 1 => v = w BY <1>1 DEF sis_decode_universal_short_name
<1>12. /\ ~(p.frame > 1) /\ d => v = Told(last, "name", c)
       /\ ~(p.frame > 1) /\ ~d => v = done
  BY <1>1, <1>2, <1>3, <1>4, <1>5, <1>6, <1>7, Zenon DEF sis_decode_universal_short_name
<1>13. CASE d
  <2>1. PICK y : y = [w EXCEPT !.updated = @ \/ d] OBVIOUS
  <2>2. PICK y1 : y1 = [y EXCEPT !.pids["universal"] = x] OBVIOUS
  <2>3. PICK z : z = [y1 EXCEPT !.pids["universal_final"] = c] OBVIOUS
  <2>4. IsAsked(w, y, d, S) BY <2>1, AskedKept
  <2>5. Good(y, S) /\ AlertSame(w, y) /\ y.updated BY <1>13, <2>4 DEF IsAsked
  <2>6. Kept(y, y1, S) BY <2>2, <2>5, <1>10, PlainSet
  <2>7. Kept(y1, Told(z, "name", c), S) BY <2>3, <2>6, <1>10, PlainTold DEF Kept
  <2>8. Told(z, "name", c) = Told(last, "name", c)
    <3>1. z.pids = last.pids /\ z.told = last.told
          /\ DOMAIN z = {"pids", "told", "updated"} /\ DOMAIN last = DOMAIN z
      BY <2>1, <2>2, <2>3, <1>6, <1>7, <1>8 DEF Shape
    <3>2. PICK t : t = [z.told EXCEPT !["name"] = c] OBVIOUS
    <3>3. Told(z, "name", c) = [z EXCEPT !.told = [z.told EXCEPT !["name"] = c],
                                         !.updated = TRUE]
      BY DEF Told
    <3>4. Told(last, "name", c) = [last EXCEPT !.told = [last.told EXCEPT !["name"] = c],
                                               !.updated = TRUE]
      BY DEF Told
    <3>5. Told(z, "name", c) = [pids |-> z.pids, told |-> t, updated |-> TRUE]
      BY <3>1, <3>2, <3>3
    <3>6. t = [last.told EXCEPT !["name"] = c] BY <3>1, <3>2
    <3>7. Told(last, "name", c) = [pids |-> z.pids, told |-> t, updated |-> TRUE]
      BY <3>1, <3>6, <3>4
    <3> QED BY <3>5, <3>7
  <2>9. ~(p.frame > 1) => Kept(y1, v, S) BY <2>7, <2>8, <1>12, <1>13
  <2>10. ~(p.frame > 1) => Kept(w, v, S) BY <2>5, <2>6, <2>9 DEF Kept, AlertSame
  <2> QED BY <2>10, <1>1, <1>11, SameKept
<1>14. CASE ~d
  <2>1. /\ done.pids.universal = x
        /\ \A g \in Fields \ {"universal"} : done.pids[g] = w.pids[g]
    BY <1>6, <1>8, <1>10 DEF Shape
  <2>2. done.pids.universal.displayed <=> w.pids.universal.displayed
    BY <2>1, <1>9, <1>14, Zenon DEF IsStored
  <2>3. \A g \in {"id", "short_name", "latitude", "longitude", "audio_services",
                  "data_services", "slogan", "universal_final"} : done.pids[g] = w.pids[g]
    BY <2>1 DEF Fields
  <2>4. Quiet(w.pids, done.pids) BY <2>2, <2>3 DEF Quiet
  <2>5. Kept(w, done, S) BY <2>4, <1>6, <1>10, PlainSet
  <2>6. ~(p.frame > 1) => v = done BY <1>12, <1>14
  <2> QED BY <2>5, <2>6, <1>1, <1>11, SameKept
<1> QED BY <1>13, <1>14

-----------------------------------------------------------------------------
(* The handlers of the numbered texts.                                     *)
IsHeld(u, S, p) ==
  /\ u.seq \in Int /\ (u.head = None \/ u.head \in Items[p.id])
  /\ After(S, p)[p.id] => (u.seq = p.of.seq \/ u.seq = -1) /\ u.head = p.of
  /\ u.buf[0] # "" /\ p.id = "alert" => u.seq # -1 /\ u.head.parts # << >>
LEMMA HeldIs ==
  ASSUME OnAir, NEW w, NEW S \in [Numbered -> BOOLEAN], Good(w, S),
         NEW p \in Sent, p.id \in Numbered
  PROVE  IsHeld(Stored(Begun(w.pids[p.id], p), p), S, p)
<1>1. PICK u : u = Stored(Begun(w.pids[p.id], p), p) OBVIOUS
<1>2. PICK t : t = w.pids[p.id] OBVIOUS
<1>3. PICK s \in BOOLEAN : s = S[p.id] OBVIOUS
<1>4. p.id \in TextIds BY DEF Numbered, TextIds
<1>5. IsText(p.id, t) BY <1>2, <1>4 DEF Good, WorkOK, PidsOK
<1>6. p.id \in menu /\ p.of = airing[p.id] /\ p.of.seq \in Nat /\ p.of.parts # << >>
  BY SentTextIs
<1>7. TextIs(t, s, p.of) BY <1>2, <1>3, <1>6 DEF Good, TextsAre
<1>8. /\ IsText(p.id, u) /\ TextIs(u, s \/ p.frame = 0, p.of)
      /\ u.seq = IF p.frame = 0 THEN p.of.seq ELSE t.seq
      /\ p.frame # 0 => u.buf[0] = t.buf[0]
      /\ u.head = IF p.frame = 0 THEN p.of ELSE t.head
  <2>1. HasPart(t, s, p, Stored(Begun(t, p), p)) BY <1>5, <1>7, StoredIs
  <2>2. HasPart(t, s, p, u) BY <2>1, <1>1, <1>2
  <2> QED BY <2>2, Zenon DEF HasPart
<1>9. After(S, p)[p.id] => s \/ p.frame = 0 BY <1>3 DEF After
<1>10. After(S, p)[p.id] => (u.seq = p.of.seq \/ u.seq = -1) /\ u.head = p.of
  BY <1>8, <1>9, Zenon DEF TextIs
<1>11. ASSUME u.buf[0] # "", p.id = "alert" PROVE u.seq # -1 /\ u.head.parts # << >>
  <2>1. AlertIs(t) BY <1>2, <1>11 DEF Good
  <2>2. p.of.seq # -1 BY <1>6
  <2> QED BY <2>1, <2>2, <1>6, <1>8, <1>11, Zenon DEF AlertIs
<1> QED BY <1>8, <1>10, <1>11, <1>1 DEF IsText, IsHeld

LEMMA LongNameKept ==
  ASSUME OnAir, NEW w, NEW S \in [Numbered -> BOOLEAN], Good(w, S),
         NEW p \in Sent, p.id = "long_name"
  PROVE  Kept(w, sis_decode_station_long_name(w, p), After(S, p))
<1>1. PICK v : v = sis_decode_station_long_name(w, p) OBVIOUS
<1>2. PICK u : u = Stored(Begun(w.pids.long_name, p), p) OBVIOUS
<1>3. PICK d \in BOOLEAN : d = (/\ u.seq >= 0 /\ ~u.displayed
                               /\ Complete(u.buf, Len(p.of.parts)))
  OBVIOUS
<1>4. PICK x : x = [u EXCEPT !.displayed = @ \/ d] OBVIOUS
<1>5. PICK y : y = [w EXCEPT !.updated = @ \/ d] OBVIOUS
<1>6. PICK z : z = [y EXCEPT !.pids["long_name"] = x] OBVIOUS
<1>7. PICK done : done = [w EXCEPT !.pids.long_name = x, !.updated = @ \/ d] OBVIOUS
<1>8. Shape(w) /\ w.updated \in BOOLEAN BY DEF Good, WorkOK
<1>9. done = z BY <1>5, <1>6, <1>7, <1>8 DEF Shape
<1>10. IsAsked(w, y, d, S) BY <1>5, AskedKept
<1>11. p.id \in Numbered /\ "long_name" \in Fields /\ "slogan" \in Events
       /\ Numbered \subseteq Fields /\ "alert_timeout" \in Fields /\ {"message", "alert"} \subseteq Events
  BY DEF Numbered, Fields, Events
<1>12. Shape(y) /\ y.pids = w.pids /\ y.told = w.told /\ y.updated = (w.updated \/ d)
  BY <1>10 DEF IsAsked
<1>13. /\ Shape(z) /\ z.told = w.told /\ z.updated = (w.updated \/ d)
       /\ z.pids = [w.pids EXCEPT !["long_name"] = x]
  BY <1>6, <1>12 DEF Shape, Fields
<1>14. v = z \/ (d /\ \E c : v = Told(z, "slogan", c))
  BY <1>1, <1>2, <1>3, <1>4, <1>7, <1>9, Zenon DEF sis_decode_station_long_name
<1>15. /\ Shape(v) /\ v.pids = z.pids /\ v.updated \in BOOLEAN
       /\ v.updated \/ (~w.updated /\ ~d)
       /\ v.told.message = w.told.message /\ v.told.alert = w.told.alert
  <2>1. CASE v = z BY <2>1, <1>8, <1>13
  <2>2. ASSUME NEW c, v = Told(z, "slogan", c)
        PROVE  /\ Shape(v) /\ v.pids = z.pids /\ v.updated = TRUE
               /\ v.told.message = w.told.message /\ v.told.alert = w.told.alert
    <3>1. IsTold(Told(z, "slogan", c), z, "slogan", c) BY <1>11, <1>13, ToldIs
    <3> QED BY <2>2, <3>1, <1>11, <1>13 DEF IsTold
  <2> QED BY <2>1, <2>2, <1>14
<1>16. v.pids[p.id] = [u EXCEPT !.displayed = @ \/ d]
  BY <1>4, <1>8, <1>13, <1>15, <1>11 DEF Shape
<1>17. \A g \in Fields \ {p.id} : v.pids[g] = w.pids[g] BY <1>8, <1>13, <1>15 DEF Shape
<1>18. u = Stored(Begun(w.pids[p.id], p), p) BY <1>2
<1>19. ASSUME d, After(S, p)[p.id] PROVE u.seq = p.of.seq /\ Complete(u.buf, Len(p.of.parts))
  <2>1. u.seq = p.of.seq \/ u.seq = -1
    <3>1. IsHeld(u, S, p) BY <1>11, <1>18, HeldIs
    <3> QED BY <3>1, <1>19 DEF IsHeld
  <2>2. u.seq >= 0 /\ Complete(u.buf, Len(p.of.parts)) BY <1>3, <1>19, Zenon
  <2> QED BY <2>1, <2>2
<1>20. Whole(v.told) BY <1>15 DEF Good, Whole
<1>21. Good(v, After(S, p))
  BY <1>11, <1>15, <1>16, <1>17, <1>18, <1>19, <1>20, TextKept
<1>22. AlertSame(w, v) BY <1>11, <1>15, <1>17 DEF AlertSame, Numbered
<1> QED BY <1>1, <1>21, <1>22 DEF Kept

LEMMA MessageKept ==
  ASSUME OnAir, NEW w, NEW S \in [Numbered -> BOOLEAN], Good(w, S),
         NEW p \in Sent, p.id = "message"
  PROVE  Kept(w, sis_decode_station_message(w, p), After(S, p))
<1>1. PICK v : v = sis_decode_station_message(w, p) OBVIOUS
<1>2. PICK u : u = Stored(Begun(w.pids.message, p), p) OBVIOUS
<1>3. PICK d \in BOOLEAN : d = (/\ u.seq >= 0 /\ ~u.displayed
                               /\ Complete(u.buf, Len(u.head.parts))
                               /\ Passes(u.buf, u.head))
  OBVIOUS
<1>4. PICK x : x = [u EXCEPT !.displayed = @ \/ d] OBVIOUS
<1>5. PICK c : c = Delimited(u.buf, u.head) OBVIOUS
<1>6. PICK z : z = [w EXCEPT !.pids["message"] = x] OBVIOUS
<1>7. Shape(w) /\ w.updated \in BOOLEAN BY DEF Good, WorkOK
<1>8. p.id \in Numbered /\ "message" \in Fields /\ "message" \in Events
      /\ Numbered \subseteq Fields /\ "alert_timeout" \in Fields
      /\ {"message", "alert"} \subseteq Events
  BY DEF Numbered, Fields, Events
<1>9. /\ Shape(z) /\ z.told = w.told /\ z.updated = w.updated /\ z.pids["message"] = x
      /\ \A g \in Fields \ {p.id} : z.pids[g] = w.pids[g]
  BY <1>6, <1>7, <1>8 DEF Shape, Fields
<1>10. /\ d => v = Told(z, "message", c)
       /\ ~d => v = z
  BY <1>1, <1>2, <1>3, <1>4, <1>5, <1>6, Zenon DEF sis_decode_station_message
<1>11. /\ Shape(v) /\ v.pids = z.pids /\ v.updated \in BOOLEAN
       /\ v.updated \/ (~w.updated /\ ~d)
       /\ \A g \in Events \ {"message"} : v.told[g] = w.told[g]
       /\ v.told.message = IF d THEN c ELSE w.told.message
  <2>1. CASE ~d BY <2>1, <1>7, <1>9, <1>10
  <2>2. CASE d
    <3>1. IsTold(Told(z, "message", c), z, "message", c) BY <1>8, <1>9, ToldIs
    <3> QED BY <2>2, <3>1, <1>9, <1>10 DEF IsTold
  <2> QED BY <2>1, <2>2
<1>12. v.pids[p.id] = [u EXCEPT !.displayed = @ \/ d] BY <1>4, <1>9, <1>11
<1>13. u = Stored(Begun(w.pids[p.id], p), p) BY <1>2
<1>14. IsHeld(u, S, p) BY <1>8, <1>13, HeldIs
<1>15. d => u.head.sound /\ c = u.head.parts /\ Complete(u.buf, Len(u.head.parts))
  BY <1>3, <1>5, Zenon DEF Passes
<1>16. d => u.seq # -1
  <2>1. d => u.seq >= 0 BY <1>3, Zenon
  <2> QED BY <2>1
<1>17. ASSUME d, After(S, p)[p.id] PROVE u.seq = p.of.seq /\ Complete(u.buf, Len(p.of.parts))
  BY <1>14, <1>15, <1>16, <1>17 DEF IsHeld
<1>18. Whole(v.told)
  <2>1. Whole(w.told) BY DEF Good
  <2>2. ASSUME d PROVE u.head \in Items["message"] /\ u.head.sound /\ c = u.head.parts
    <3>1. u.head # None BY <1>15, <2>2 DEF None
    <3> QED BY <3>1, <2>2, <1>14, <1>15 DEF IsHeld
  <2>3. ASSUME NEW id \in {"message", "alert"} \cap MsgIds, v.told[id] # << >>
        PROVE  \E of \in Items[id] : of.sound /\ v.told[id] = of.parts
    <3>1. CASE id = "message" /\ d BY <3>1, <2>2, <1>11
    <3>2. CASE ~(id = "message" /\ d)
      <4>1. v.told[id] = w.told[id] BY <3>2, <1>8, <1>11
      <4> QED BY <4>1, <2>1, <2>3 DEF Whole
    <3> QED BY <3>1, <3>2
  <2> QED BY <2>3 DEF Whole
<1>19. \A g \in Fields \ {p.id, "alert_timeout"} : v.pids[g] = w.pids[g] BY <1>9, <1>11
<1>20. Good(v, After(S, p))
  BY <1>8, <1>11, <1>12, <1>13, <1>16, <1>17, <1>18, <1>19, TextKept
<1>21. AlertSame(w, v) BY <1>8, <1>9, <1>11 DEF AlertSame, Numbered
<1> QED BY <1>1, <1>20, <1>21 DEF Kept

(* A part of an alert starts the count of the frames without one anew, and *)
(* ends none.                                                              *)
Renewed(w, v, S) ==
  /\ Good(v, S) /\ v.pids.alert_timeout = 0
  /\ v.told.alert = w.told.alert \/ v.told.alert # << >>
LEMMA AlertKept ==
  ASSUME OnAir, NEW w, NEW S \in [Numbered -> BOOLEAN], Good(w, S),
         NEW p \in Sent, p.id = "alert"
  PROVE  Renewed(w, sis_decode_emergency_alerts(w, p), After(S, p))
<1>1. PICK v : v = sis_decode_emergency_alerts(w, p) OBVIOUS
<1>2. PICK u : u = Stored(Begun(w.pids.alert, p), p) OBVIOUS
<1>3. PICK d \in BOOLEAN : d = (/\ ~u.displayed
                               /\ u.buf[0] # "" /\ Complete(u.buf, Len(u.head.parts))
                               /\ Passes(u.buf, u.head))
  OBVIOUS
<1>4. PICK x : x = [u EXCEPT !.displayed = @ \/ d] OBVIOUS
<1>5. PICK c : c = Delimited(u.buf, u.head) OBVIOUS
<1>6. PICK z : z = [w EXCEPT !.pids.alert = x, !.pids.alert_timeout = 0] OBVIOUS
<1>7. Shape(w) /\ w.updated \in BOOLEAN BY DEF Good, WorkOK
<1>8. p.id \in Numbered /\ "alert" \in Fields /\ "alert" \in Events
      /\ Numbered \subseteq Fields /\ "alert_timeout" \in Fields
      /\ {"message", "alert"} \subseteq Events
  BY DEF Numbered, Fields, Events
<1>9. /\ Shape(z) /\ z.told = w.told /\ z.updated = w.updated /\ z.pids["alert"] = x
      /\ \A g \in Fields \ {p.id, "alert_timeout"} : z.pids[g] = w.pids[g]
      /\ z.pids.alert_timeout = 0
  BY <1>6, <1>7, <1>8 DEF Shape, Fields
<1>10. /\ d => v = Told(z, "alert", c)
       /\ ~d => v = z
  BY <1>1, <1>2, <1>3, <1>4, <1>5, <1>6, Zenon DEF sis_decode_emergency_alerts
<1>11. /\ Shape(v) /\ v.pids = z.pids /\ v.updated \in BOOLEAN
       /\ v.updated \/ (~w.updated /\ ~d)
       /\ \A g \in Events \ {"alert"} : v.told[g] = w.told[g]
       /\ v.told.alert = IF d THEN c ELSE w.told.alert
  <2>1. CASE ~d BY <2>1, <1>7, <1>9, <1>10
  <2>2. CASE d
    <3>1. IsTold(Told(z, "alert", c), z, "alert", c) BY <1>8, <1>9, ToldIs
    <3> QED BY <2>2, <3>1, <1>9, <1>10 DEF IsTold
  <2> QED BY <2>1, <2>2
<1>12. v.pids[p.id] = [u EXCEPT !.displayed = @ \/ d] BY <1>4, <1>9, <1>11
<1>13. u = Stored(Begun(w.pids[p.id], p), p) BY <1>2
<1>14. IsHeld(u, S, p) BY <1>8, <1>13, HeldIs
<1>15. d => u.head.sound /\ c = u.head.parts /\ Complete(u.buf, Len(u.head.parts))
  BY <1>3, <1>5, Zenon DEF Passes
<1>16. d => u.seq # -1 /\ u.head.parts # << >>
  <2>1. d => u.buf[0] # "" BY <1>3, Zenon
  <2> QED BY <2>1, <1>14 DEF IsHeld
<1>17. ASSUME d, After(S, p)[p.id] PROVE u.seq = p.of.seq /\ Complete(u.buf, Len(p.of.parts))
  BY <1>14, <1>15, <1>16, <1>17 DEF IsHeld
<1>18. Whole(v.told)
  <2>1. Whole(w.told) BY DEF Good
  <2>2. ASSUME d PROVE u.head \in Items["alert"] /\ u.head.sound /\ c = u.head.parts
    <3>1. u.head # None BY <1>15, <2>2 DEF None
    <3> QED BY <3>1, <2>2, <1>14, <1>15 DEF IsHeld
  <2>3. ASSUME NEW id \in {"message", "alert"} \cap MsgIds, v.told[id] # << >>
        PROVE  \E of \in Items[id] : of.sound /\ v.told[id] = of.parts
    <3>1. CASE id = "alert" /\ d BY <3>1, <2>2, <1>11
    <3>2. CASE ~(id = "alert" /\ d)
      <4>1. v.told[id] = w.told[id] BY <3>2, <1>8, <1>11
      <4> QED BY <4>1, <2>1, <2>3 DEF Whole
    <3> QED BY <3>1, <3>2
  <2> QED BY <2>3 DEF Whole
<1>19. \A g \in Fields \ {p.id, "alert_timeout"} : v.pids[g] = w.pids[g] BY <1>9, <1>11
<1>20. Good(v, After(S, p))
  BY <1>8, <1>11, <1>12, <1>13, <1>16, <1>17, <1>18, <1>19, TextKept
<1>21. v.pids.alert_timeout = 0 BY <1>9, <1>11
<1>22. v.told.alert = w.told.alert \/ v.told.alert # << >> BY <1>11, <1>15, <1>16
<1> QED BY <1>1, <1>20, <1>21, <1>22 DEF Renewed

-----------------------------------------------------------------------------
(* A frame.                                                                *)
LEMMA HandledOther ==
  ASSUME OnAir, NEW w, NEW S, Good(w, S), NEW p \in Sent, p.id \notin Numbered
  PROVE  Kept(w, Handled(w, p), S)
<1>1. CASE p.id = "station_id" BY <1>1, StationIdKept DEF Handled
<1>2. CASE p.id = "short_name" BY <1>2, ShortNameKept DEF Handled
<1>3. CASE p.id = "location" BY <1>3, LocationKept DEF Handled
<1>4. CASE p.id = "service" BY <1>4, ServiceKept DEF Handled
<1>5. CASE p.id = "parameter" BY <1>5, ParameterKept DEF Handled
<1>6. CASE p.id = "universal" BY <1>6, UniversalKept DEF Handled
<1>7. CASE p.id = "slogan" BY <1>7, SloganKept DEF Handled
<1>8. CASE p.id \notin {"station_id", "short_name", "location", "service", "parameter",
                       "universal", "slogan"}
  <2>1. Handled(w, p) = w BY <1>8 DEF Handled, Numbered
  <2> QED BY <2>1, SameKept
<1> QED BY <1>1, <1>2, <1>3, <1>4, <1>5, <1>6, <1>7, <1>8

LEMMA HandledNumbered ==
  ASSUME OnAir, NEW w, NEW S \in [Numbered -> BOOLEAN], Good(w, S),
         NEW p \in Sent, p.id \in Numbered
  PROVE  /\ p.id # "alert" => Kept(w, Handled(w, p), After(S, p))
         /\ p.id = "alert" => Renewed(w, Handled(w, p), After(S, p))
<1>1. CASE p.id = "long_name" BY <1>1, LongNameKept DEF Handled
<1>2. CASE p.id = "message" BY <1>2, MessageKept DEF Handled
<1>3. CASE p.id = "alert" BY <1>3, AlertKept DEF Handled
<1> QED BY <1>1, <1>2, <1>3 DEF Numbered

(* A numbered text fills a frame.                                          *)
LEMMA FramesAre ==
  ASSUME OnAir, NEW p \in Sent, NEW q \in Sent
  PROVE  /\ p.id \in Numbered => Legible(<<p>>) = <<p>>
         /\ Legible(<<p>>) \in {<< >>, <<p>>}
         /\ Legible(<<p, q>>) \in {<< >>, <<p>>, <<p, q>>}
         /\ Fits(<<p, q>>) => p.id \notin Numbered /\ q.id \notin Numbered
<1>1. PICK f : f = <<p>> OBVIOUS
<1>2. Len(f) = 1 /\ f[1] = p BY <1>1
<1>3. PICK g : g = <<p, q>> OBVIOUS
<1>4. Len(g) = 2 /\ g[1] = p /\ g[2] = q BY <1>3
<1>5. ASSUME p.id \in Numbered PROVE Legible(f) = f
  <2>1. Assigned(p) BY <1>5 DEF Assigned, payload_sizes, Numbered
  <2> QED BY <2>1, <1>2 DEF Legible
<1>6. Legible(f) \in {<< >>, <<p>>} BY <1>1, <1>2 DEF Legible
<1>7. Legible(g) \in {<< >>, <<p>>, <<p, q>>} BY <1>3, <1>4 DEF Legible
<1>8. ASSUME Fits(g) PROVE p.id \notin Numbered /\ q.id \notin Numbered
  <2>1. payload_sizes[p.id] + payload_sizes[q.id] <= 54 BY <1>4, <1>8 DEF Fits
  <2>2. p.id \in DOMAIN payload_sizes /\ q.id \in DOMAIN payload_sizes
    BY SentIs, IdentifiersAssumption
  <2>3. \A id \in DOMAIN payload_sizes : payload_sizes[id] \in Int /\ payload_sizes[id] >= -1
    BY DEF payload_sizes
  <2>4. \A id \in Numbered : payload_sizes[id] = 58 BY DEF payload_sizes, Numbered
  <2> QED BY <2>1, <2>2, <2>3, <2>4
<1> QED BY <1>1, <1>3, <1>5, <1>6, <1>7, <1>8

(* The end of an alert.                                                    *)
LEMMA ExpiredKept ==
  ASSUME OnAir, NEW w, NEW S, Good(w, S)
  PROVE  /\ Good(Expired(w), S)
         /\ w.pids.alert.displayed /\ w.pids.alert_timeout >= ALERT_TIMEOUT_LIMIT =>
              ~Expired(w).pids.alert.displayed /\ Expired(w).pids.alert_timeout = 0
         /\ ~(w.pids.alert.displayed /\ w.pids.alert_timeout >= ALERT_TIMEOUT_LIMIT) =>
              Expired(w) = w
<1>1. CASE ~(w.pids.alert.displayed /\ w.pids.alert_timeout >= ALERT_TIMEOUT_LIMIT)
  BY <1>1 DEF Expired
<1>2. CASE w.pids.alert.displayed /\ w.pids.alert_timeout >= ALERT_TIMEOUT_LIMIT
  <2>1. PICK a : a = reset_alert(w.pids.alert) OBVIOUS
  <2>2. PICK z : z = [w EXCEPT !.pids.alert = a, !.pids.alert_timeout = 0] OBVIOUS
  <2>3. PICK v : v = Told(z, "alert", << >>) OBVIOUS
  <2>4. v = Expired(w) BY <1>2, <2>1, <2>2, <2>3 DEF Expired
  <2>5. WorkOK(w) /\ Shape(w) /\ TextsAre(w.pids, S) /\ Whole(w.told) BY DEF Good, WorkOK
  <2>6. /\ Shape(z) /\ z.told = w.told /\ z.pids.alert = a /\ z.pids.alert_timeout = 0
        /\ \A g \in Fields \ {"alert", "alert_timeout"} : z.pids[g] = w.pids[g]
    BY <2>2, <2>5 DEF Shape, Fields
  <2>7. "alert" \in Events BY DEF Events
  <2>8. IsTold(v, z, "alert", << >>) BY <2>3, <2>6, <2>7, ToldIs
  <2>9. /\ Shape(v) /\ v.pids = z.pids /\ v.updated = TRUE /\ v.told.alert = << >>
        /\ \A g \in Events \ {"alert"} : v.told[g] = w.told[g]
    BY <2>6, <2>8 DEF IsTold
  <2>10. /\ DOMAIN a = {"buf", "seq", "head", "displayed"} /\ a.buf = Empty
         /\ a.seq = -1 /\ a.displayed = FALSE /\ a.head = w.pids.alert.head
    BY <2>1 DEF reset_alert, Text
  <2>11. IsText("alert", w.pids.alert) BY <2>5 DEF WorkOK, PidsOK, TextIds
  <2>12. IsText("alert", a)
    <3>1. a.buf = [i \in Frames |-> a.buf[i]] BY <2>10 DEF Empty
    <3>2. a.displayed \in BOOLEAN BY <2>10
    <3> QED BY <3>1, <3>2, <2>10, <2>11 DEF IsText
  <2>13. AlertIs(a) BY <2>10, Limits DEF AlertIs, Empty
  <2>14. TextsAre(v.pids, S)
    <3> SUFFICES ASSUME NEW id \in Numbered \cap menu PROVE TextIs(v.pids[id], S[id], airing[id])
      BY DEF TextsAre
    <3>1. TextIs(w.pids[id], S[id], airing[id]) BY <2>5 DEF TextsAre
    <3>2. CASE id # "alert"
      <4>1. id \in Fields \ {"alert", "alert_timeout"} BY <3>2 DEF Numbered, Fields
      <4> QED BY <4>1, <3>1, <2>6, <2>9
    <3>3. CASE id = "alert"
      <4>1. airing[id] \in Items[id] /\ id \in Numbered \cap MsgIds
        BY MenusAssumption DEF OnAir
      <4>2. airing[id].seq \in Nat BY <4>1, ItemIs
      <4>3. a.seq <= airing[id].seq /\ a.seq < airing[id].seq BY <4>2, <2>10
      <4>4. S[id] => a.head = airing[id] BY <3>1, <3>3, <2>10, Zenon DEF TextIs
      <4>5. ~a.displayed /\ \A i \in Frames : a.buf[i] = "" BY <2>10 DEF Empty
      <4>6. TextIs(a, S[id], airing[id]) BY <4>3, <4>4, <4>5, <2>10, Zenon DEF TextIs
      <4> QED BY <4>6, <3>3, <2>6, <2>9
    <3> QED BY <3>2, <3>3
  <2>15. Whole(v.told)
    <3> SUFFICES ASSUME NEW id \in {"message", "alert"} \cap MsgIds, v.told[id] # << >>
                 PROVE  \E of \in Items[id] : of.sound /\ v.told[id] = of.parts
      BY DEF Whole
    <3>1. id = "message" BY <2>9
    <3>2. v.told[id] = w.told[id] BY <3>1, <2>9 DEF Events
    <3> QED BY <3>2, <2>5 DEF Whole
  <2>16. WorkOK(v)
    <3>1. ASSUME NEW id \in TextIds PROVE IsText(id, v.pids[id])
      <4>1. CASE id = "alert" BY <4>1, <2>6, <2>9, <2>12
      <4>2. CASE id # "alert"
        <5>1. id \in Fields \ {"alert", "alert_timeout"} BY <4>2 DEF TextIds, Fields
        <5> QED BY <5>1, <2>5, <2>6, <2>9 DEF WorkOK, PidsOK
      <4> QED BY <4>1, <4>2
    <3>2. v.pids.data_services = w.pids.data_services BY <2>6, <2>9 DEF Fields
    <3> QED BY <3>1, <3>2, <2>5, <2>9 DEF WorkOK, PidsOK
  <2>17. Good(v, S) BY <2>6, <2>9, <2>13, <2>14, <2>15, <2>16 DEF Good
  <2>18. ~v.pids.alert.displayed /\ v.pids.alert_timeout = 0 BY <2>6, <2>9, <2>10
  <2> QED BY <1>2, <2>4, <2>17, <2>18
<1> QED BY <1>1, <1>2

-----------------------------------------------------------------------------
(* What a frame starts from, what its payloads make of that, and what it   *)
(* says of the texts and of alerts.                                        *)
Start ==
  [pids |-> [pids EXCEPT !.alert_timeout = @ + (IF pids.alert.displayed THEN 1 ELSE 0)],
   told |-> told, updated |-> FALSE]
Heard(read) ==
  CASE Len(read) = 0 -> Start
    [] Len(read) = 1 -> Handled(Start, read[1])
    [] OTHER -> Handled(Handled(Start, read[1]), read[2])
Starts(frame) ==
  [id \in Numbered |-> started[id] \/ \E p \in ToSet(frame) : p.id = id /\ p.frame = 0]
Alerts(frame) == \E p \in ToSet(frame) : p.id = "alert"

LEMMA DecodedIs == ASSUME NEW f PROVE Decoded(f) = Expired(Heard(Legible(f)))
BY DEF Decoded, Heard, Start

LEMMA StartIs ==
  ASSUME IInv
  PROVE  /\ Good(Start, started) /\ Start.pids.alert = pids.alert /\ Start.told = told
         /\ Start.pids.alert_timeout =
              pids.alert_timeout + (IF pids.alert.displayed THEN 1 ELSE 0)
<1>1. PICK n : n = pids.alert_timeout + (IF pids.alert.displayed THEN 1 ELSE 0) OBVIOUS
<1>2. PICK st : st = [pids EXCEPT !.alert_timeout = n] OBVIOUS
<1>3. /\ Start.pids = st /\ Start.told = told /\ Start.updated = FALSE
      /\ DOMAIN Start = {"pids", "told", "updated"}
  BY <1>1, <1>2 DEF Start
<1>4. Good(Work, started) /\ Work.pids = pids /\ Work.told = told /\ Work.updated = FALSE
  BY DEF IInv, Work
<1>5. DOMAIN pids = Fields /\ DOMAIN told = Events /\ PidsOK(pids)
  BY <1>4 DEF Good, WorkOK, Shape
<1>6. /\ DOMAIN st = Fields /\ st.alert_timeout = n
      /\ \A g \in Fields \ {"alert_timeout"} : st[g] = pids[g]
  BY <1>2, <1>5 DEF Fields
<1>7. \A g \in TextIds \cup {"id", "short_name", "latitude", "longitude",
                  "audio_services", "data_services", "universal_final"} : st[g] = pids[g]
  BY <1>6 DEF Fields, TextIds
<1>8. PidsOK(st) BY <1>5, <1>7 DEF PidsOK
<1>9. WorkOK(Start) BY <1>3, <1>5, <1>6, <1>8 DEF WorkOK, Shape
<1>10. \A id \in Numbered : st[id] = pids[id] BY <1>7 DEF Numbered, TextIds
<1>11. TextsAre(st, started) BY <1>4, <1>10 DEF Good, TextsAre
<1>12. AlertIs(st.alert) /\ st.alert = pids.alert BY <1>4, <1>7 DEF Good, TextIds
<1>13. Current(pids, started, sis) BY <1>4 DEF Good
<1>14. Quiet(pids, st) BY <1>7 DEF Quiet, TextIds
<1>15. NumberedQuiet(pids, st, started, started) BY <1>10 DEF NumberedQuiet, StillThere
<1>16. Current(st, started, sis) BY <1>13, <1>14, <1>15, CurrentKept
<1>17. Good(Start, started) BY <1>3, <1>4, <1>9, <1>11, <1>12, <1>16 DEF Good
<1> QED BY <1>1, <1>3, <1>6, <1>12, <1>17

LEMMA OneHeard ==
  ASSUME IInv, NEW p \in Sent
  PROVE  /\ ~Alerts(<<p>>) => Kept(Start, Heard(Legible(<<p>>)), Starts(<<p>>))
         /\ Alerts(<<p>>) => Renewed(Start, Heard(Legible(<<p>>)), Starts(<<p>>))
<1>1. OnAir /\ started \in [Numbered -> BOOLEAN] BY DEF IInv, OnAir
<1>2. Good(Start, started) BY StartIs
<1>3. ToSet(<<p>>) = {p} BY DEF ToSet
<1>4. Alerts(<<p>>) <=> p.id = "alert" BY <1>3 DEF Alerts
<1>5. Heard(<<p>>) = Handled(Start, p) /\ Heard(<< >>) = Start
  <2>1. PICK f : f = <<p>> OBVIOUS
  <2>2. Len(f) = 1 /\ f[1] = p /\ Len(<< >>) = 0 BY <2>1
  <2> QED BY <2>1, <2>2 DEF Heard
<1>6. CASE p.id \in Numbered
  <2>1. Starts(<<p>>) = After(started, p) BY <1>3 DEF Starts, After
  <2>2. Legible(<<p>>) = <<p>> BY <1>1, <1>6, FramesAre
  <2> QED BY <2>1, <2>2, <1>1, <1>2, <1>4, <1>5, <1>6, HandledNumbered
<1>7. CASE p.id \notin Numbered
  <2>1. Starts(<<p>>) = started BY <1>1, <1>3, <1>7 DEF Starts
  <2>2. Legible(<<p>>) \in {<< >>, <<p>>} BY <1>1, FramesAre
  <2>3. Kept(Start, Handled(Start, p), started) BY <1>1, <1>2, <1>7, HandledOther
  <2>4. Kept(Start, Start, started) BY <1>2, SameKept
  <2>5. p.id # "alert" BY <1>7 DEF Numbered
  <2> QED BY <2>1, <2>2, <2>3, <2>4, <2>5, <1>4, <1>5
<1> QED BY <1>6, <1>7

LEMMA TwoHeard ==
  ASSUME IInv, NEW p \in Sent, NEW q \in Sent, Fits(<<p, q>>)
  PROVE  ~Alerts(<<p, q>>) /\ Kept(Start, Heard(Legible(<<p, q>>)), Starts(<<p, q>>))
<1>1. OnAir /\ started \in [Numbered -> BOOLEAN] BY DEF IInv, OnAir
<1>2. Good(Start, started) BY StartIs
<1>3. ToSet(<<p, q>>) = {p, q} BY DEF ToSet
<1>4. p.id \notin Numbered /\ q.id \notin Numbered BY <1>1, FramesAre
<1>5. ~Alerts(<<p, q>>) BY <1>3, <1>4 DEF Alerts, Numbered
<1>6. Starts(<<p, q>>) = started BY <1>1, <1>3, <1>4 DEF Starts
<1>7. /\ Heard(<<p, q>>) = Handled(Handled(Start, p), q)
      /\ Heard(<<p>>) = Handled(Start, p) /\ Heard(<< >>) = Start
  <2>1. PICK f : f = <<p>> OBVIOUS
  <2>2. PICK g : g = <<p, q>> OBVIOUS
  <2>3. Len(f) = 1 /\ f[1] = p /\ Len(<< >>) = 0 /\ Len(g) = 2 /\ g[1] = p /\ g[2] = q
    BY <2>1, <2>2
  <2>4. Heard(f) = Handled(Start, p) BY <2>3 DEF Heard
  <2>5. Heard(<< >>) = Start BY <2>3 DEF Heard
  <2>6. Heard(g) = Handled(Handled(Start, p), q) BY <2>3 DEF Heard
  <2> QED BY <2>1, <2>2, <2>4, <2>5, <2>6
<1>8. Kept(Start, Start, started) BY <1>2, SameKept
<1>9. Kept(Start, Handled(Start, p), started) BY <1>1, <1>2, <1>4, HandledOther
<1>10. Kept(Handled(Start, p), Handled(Handled(Start, p), q), started)
  BY <1>1, <1>4, <1>9, HandledOther DEF Kept
<1>11. Kept(Start, Handled(Handled(Start, p), q), started)
  BY <1>9, <1>10 DEF Kept, AlertSame
<1>12. Legible(<<p, q>>) \in {<< >>, <<p>>, <<p, q>>} BY <1>1, FramesAre
<1> QED BY <1>5, <1>6, <1>7, <1>8, <1>9, <1>11, <1>12

-----------------------------------------------------------------------------
(* The steps.  What a step leaves is good if the work it does is.          *)
LEMMA GoodCarries ==
  ASSUME NEW w, NEW S, Good(w, S), menu' = menu, airing' = airing,
         pids' = w.pids, told' = w.told, started' = S,
         sis' = IF w.updated THEN report(w.pids) ELSE sis
  PROVE  Good(Work, started)'
<1>1. /\ Work'.pids = w.pids /\ Work'.told = w.told /\ Work'.updated = FALSE
      /\ DOMAIN Work' = {"pids", "told", "updated"}
  BY DEF Work
<1>2. WorkOK(w) /\ TextsAre(w.pids, S) /\ AlertIs(w.pids.alert) /\ Whole(w.told)
  BY DEF Good
<1>3. WorkOK(Work)' BY <1>1, <1>2 DEF WorkOK, Shape
<1>4. TextsAre(Work.pids, started)' BY <1>1, <1>2 DEF TextsAre
<1>5. AlertIs(Work.pids.alert)' /\ Whole(Work.told)' BY <1>1, <1>2
<1>6. Current(w.pids, S, sis')
  <2>1. CASE w.updated BY <2>1 DEF Current
  <2>2. CASE ~w.updated BY <2>2 DEF Good
  <2> QED BY <2>1, <2>2
<1>7. Current(Work.pids, started, sis)' BY <1>1, <1>6
<1> QED BY <1>3, <1>4, <1>5, <1>7 DEF Good

(* An alert is over when the limit has passed, or all is cleared.          *)
EndsInTime ==
  told.alert # << >> /\ told'.alert = << >> =>
    quiet' = ALERT_TIMEOUT_LIMIT \/ changes' # changes

LEMMA FrameKept ==
  ASSUME IInv, NEW f, pids_frame_push(f),
         ~Alerts(f) => Kept(Start, Heard(Legible(f)), Starts(f)),
         Alerts(f) => Renewed(Start, Heard(Legible(f)), Starts(f))
  PROVE  IInv' /\ EndsInTime
<1>1. PICK h : h = Heard(Legible(f)) OBVIOUS
<1>2. PICK w : w = Expired(h) OBVIOUS
<1>3. /\ pids' = w.pids /\ told' = w.told
      /\ sis' = IF w.updated THEN report(w.pids) ELSE sis
  BY <1>1, <1>2, DecodedIs DEF pids_frame_push
<1>4. /\ started' = Starts(f) /\ menu' = menu /\ airing' = airing /\ changes' = changes
      /\ Alerts(f) => quiet' = 0
      /\ ~Alerts(f) => quiet' = IF quiet < ALERT_TIMEOUT_LIMIT THEN quiet + 1 ELSE quiet
  BY DEF pids_frame_push, Starts, Alerts
<1>5. OnAir /\ Counts /\ Good(Work, started) BY DEF IInv
<1>6. Good(h, Starts(f)) BY <1>1 DEF Kept, Renewed
<1>7. /\ Good(w, Starts(f))
      /\ h.pids.alert.displayed /\ h.pids.alert_timeout >= ALERT_TIMEOUT_LIMIT =>
           ~w.pids.alert.displayed /\ w.pids.alert_timeout = 0
      /\ ~(h.pids.alert.displayed /\ h.pids.alert_timeout >= ALERT_TIMEOUT_LIMIT) => w = h
  BY <1>2, <1>5, <1>6, ExpiredKept
<1>8. Good(Work, started)' BY <1>3, <1>4, <1>7, GoodCarries
<1>9. OnAir'
  <2>1. Starts(f) \in [Numbered -> BOOLEAN] BY DEF Starts
  <2> QED BY <2>1, <1>4, <1>5 DEF OnAir
<1>10. PICK n : n = pids.alert_timeout OBVIOUS
<1>11. /\ n \in Int /\ 0 <= n /\ n < ALERT_TIMEOUT_LIMIT
       /\ quiet \in Int /\ 0 <= quiet /\ quiet <= ALERT_TIMEOUT_LIMIT
       /\ pids.alert.displayed => quiet = n
  BY <1>5, <1>10, Limits DEF Counts
<1>12. /\ Start.pids.alert = pids.alert /\ Start.told = told
       /\ Start.pids.alert_timeout = n + (IF pids.alert.displayed THEN 1 ELSE 0)
  BY <1>10, StartIs
<1>13. CASE Alerts(f)
  <2>1. h.pids.alert_timeout = 0 /\ (h.told.alert = told.alert \/ h.told.alert # << >>)
    BY <1>1, <1>12, <1>13 DEF Renewed
  <2>2. w = h BY <2>1, <1>7, Limits
  <2>3. quiet' = 0 BY <1>4, <1>13
  <2>4. Counts' BY <2>1, <2>2, <2>3, <1>3, Limits DEF Counts
  <2>5. EndsInTime BY <2>1, <2>2, <1>3 DEF EndsInTime
  <2> QED BY <2>4, <2>5, <1>8, <1>9 DEF IInv
<1>14. CASE ~Alerts(f)
  <2>1. /\ h.pids.alert = pids.alert /\ h.told.alert = told.alert
        /\ h.pids.alert_timeout = n + (IF pids.alert.displayed THEN 1 ELSE 0)
    BY <1>1, <1>12, <1>14 DEF Kept, AlertSame
  <2>2. quiet' = IF quiet < ALERT_TIMEOUT_LIMIT THEN quiet + 1 ELSE quiet BY <1>4, <1>14
  <2>3. quiet' \in 0..ALERT_TIMEOUT_LIMIT BY <2>2, <1>11, Limits
  <2>4. CASE pids.alert.displayed /\ n + 1 >= ALERT_TIMEOUT_LIMIT
    <3>1. h.pids.alert_timeout = n + 1 /\ h.pids.alert.displayed BY <2>1, <2>4
    <3>2. ~w.pids.alert.displayed /\ w.pids.alert_timeout = 0 BY <3>1, <2>4, <1>7
    <3>3. quiet' = ALERT_TIMEOUT_LIMIT BY <2>2, <2>4, <1>11, Limits
    <3>4. Counts' BY <3>2, <2>3, <1>3, Limits DEF Counts
    <3> QED BY <3>3, <3>4, <1>8, <1>9 DEF IInv, EndsInTime
  <2>5. CASE ~(pids.alert.displayed /\ n + 1 >= ALERT_TIMEOUT_LIMIT)
    <3>1. h.pids.alert.displayed => h.pids.alert_timeout = n + 1 BY <2>1
    <3>2. w = h BY <3>1, <2>1, <2>5, <1>7
    <3>3. Counts'
      <4>1. CASE pids.alert.displayed
        <5>1. h.pids.alert_timeout = n + 1 /\ quiet' = n + 1 BY <4>1, <2>1, <2>2, <1>11
        <5>2. n + 1 \in 0..(ALERT_TIMEOUT_LIMIT - 1) BY <4>1, <2>5, <1>11, Limits
        <5>3. pids'.alert_timeout = n + 1 BY <5>1, <3>2, <1>3
        <5> QED BY <5>1, <5>2, <5>3, <2>3 DEF Counts
      <4>2. CASE ~pids.alert.displayed
        <5>1. h.pids.alert_timeout = n /\ ~h.pids.alert.displayed BY <4>2, <2>1, <1>11
        <5>2. n \in 0..(ALERT_TIMEOUT_LIMIT - 1) BY <1>11, Limits
        <5>3. pids'.alert_timeout = n /\ ~pids'.alert.displayed BY <5>1, <3>2, <1>3
        <5> QED BY <5>2, <5>3, <2>3 DEF Counts
      <4> QED BY <4>1, <4>2
    <3>4. EndsInTime BY <3>2, <2>1, <1>3 DEF EndsInTime
    <3> QED BY <3>3, <3>4, <1>8, <1>9 DEF IInv
  <2> QED BY <2>4, <2>5
<1> QED BY <1>13, <1>14

(* What is reported when nothing is known.                                 *)
Blank(now, au) ==
  /\ now.id = << >> /\ now.name = << >> /\ now.location = << >> /\ now.data = << >>
  /\ now.slogan = << >> /\ now.message = << >> /\ now.alert = << >> /\ now.audio = au
LEMMA SilentIs ==
  ASSUME NEW c, NEW now, Says(now, c), NEW au, c.audio_services = au, c.data_services = << >>,
         c.id = "", c.short_name = "", c.latitude = "",
         ~c.universal.displayed, ~c.slogan.displayed, ~c.long_name.displayed,
         ~c.message.displayed, ~c.alert.displayed
  PROVE  Blank(now, au)
<1>1. now.name = IF c.short_name # "" THEN <<c.short_name>> ELSE << >>
  BY Zenon DEF Says
<1>2. now.slogan = << >> /\ now.message = << >> /\ now.alert = << >> BY Zenon DEF Says
<1>3. now.id = (IF c.id = "" THEN << >> ELSE <<c.id>>)
      /\ now.location = (IF c.latitude # "" /\ c.longitude # ""
                         THEN <<c.latitude, c.longitude>> ELSE << >>)
      /\ now.audio = c.audio_services /\ now.data = c.data_services
  BY Zenon DEF Says
<1> QED BY <1>1, <1>2, <1>3 DEF Blank

LEMMA FreshIs == Blank(report(Fresh), [i \in 0..(MAX_AUDIO_SERVICES - 1) |-> ""])
<1>1. PICK c : c = Fresh OBVIOUS
<1>2. PICK t : t = Text OBVIOUS
<1>3. t = [buf |-> Empty, seq |-> -1, head |-> None, displayed |-> FALSE] BY <1>2 DEF Text
<1>4. PICK l : l = [t EXCEPT !.seq = -1, !.displayed = FALSE] OBVIOUS
<1>5. PICK a : a = [t EXCEPT !.head = t.head] OBVIOUS
<1>6. ~t.displayed /\ ~l.displayed /\ ~a.displayed BY <1>3, <1>4, <1>5
<1>7. PICK au : au = [i \in 0..(MAX_AUDIO_SERVICES - 1) |-> ""] OBVIOUS
<1>8. PICK st : st = [long_name |-> t, message |-> t, alert |-> t] OBVIOUS
<1>9. c = Cleared(st) BY <1>1, <1>2, <1>8 DEF Fresh
<1>10. st.long_name = t /\ st.message = t /\ st.alert = t BY <1>8
<1>11. /\ c.id = "" /\ c.short_name = "" /\ c.latitude = "" /\ c.long_name = l
       /\ c.message = l /\ c.audio_services = au /\ c.data_services = << >>
       /\ c.universal = t /\ c.slogan = t /\ c.alert = a
  BY <1>2, <1>4, <1>5, <1>7, <1>9, <1>10 DEF Cleared, reset_alert
<1>12. Says(report(c), c) BY ReportIs
<1> QED BY <1>1, <1>6, <1>7, <1>11, <1>12, SilentIs

(* What pids_init leaves, of whatever was there.                           *)
Silence == [id \in Numbered |-> FALSE]
IsCleared(c) ==
  /\ DOMAIN c = Fields /\ PidsOK(c) /\ AlertIs(c.alert) /\ TextsAre(c, Silence)
  /\ Current(c, Silence, report(Fresh)) /\ c.alert_timeout = 0 /\ ~c.alert.displayed
LEMMA ClearedIs ==
  ASSUME OnAir, NEW st, IsText("long_name", st.long_name), IsText("message", st.message),
         IsText("alert", st.alert)
  PROVE  IsCleared(Cleared(st))
<1>1. PICK c : c = Cleared(st) OBVIOUS
<1>2. PICK l : l = [st.long_name EXCEPT !.seq = -1, !.displayed = FALSE] OBVIOUS
<1>3. PICK m : m = [st.message EXCEPT !.seq = -1, !.displayed = FALSE] OBVIOUS
<1>4. PICK a : a = reset_alert(st.alert) OBVIOUS
<1>5. PICK t : t = Text OBVIOUS
<1>6. PICK au : au = [i \in 0..(MAX_AUDIO_SERVICES - 1) |-> ""] OBVIOUS
<1>7. /\ DOMAIN c = Fields /\ c.id = "" /\ c.short_name = "" /\ c.latitude = ""
      /\ c.longitude = "" /\ c.long_name = l /\ c.message = m /\ c.audio_services = au
      /\ c.data_services = << >> /\ c.universal = t /\ c.slogan = t /\ c.alert = a
      /\ c.alert_timeout = 0
  BY <1>1, <1>2, <1>3, <1>4, <1>5, <1>6 DEF Cleared, Fields
<1>8. /\ DOMAIN t = {"buf", "seq", "head", "displayed"} /\ t.buf = Empty
      /\ t.seq = -1 /\ t.displayed = FALSE /\ t.head = None
  BY <1>5 DEF Text
<1>9. /\ DOMAIN a = {"buf", "seq", "head", "displayed"} /\ a.buf = Empty
      /\ a.seq = -1 /\ a.displayed = FALSE /\ a.head = st.alert.head
  BY <1>4 DEF reset_alert, Text
<1>10. /\ DOMAIN l = {"buf", "seq", "head", "displayed"} /\ l.buf = st.long_name.buf
       /\ l.seq = -1 /\ l.displayed = FALSE /\ l.head = st.long_name.head
  BY <1>2 DEF IsText
<1>11. /\ DOMAIN m = {"buf", "seq", "head", "displayed"} /\ m.buf = st.message.buf
       /\ m.seq = -1 /\ m.displayed = FALSE /\ m.head = st.message.head
  BY <1>3 DEF IsText
<1>12. Empty = [i \in Frames |-> Empty[i]] /\ -1 \in Int /\ FALSE \in BOOLEAN BY DEF Empty
<1>13. \A id : IsText(id, t) BY <1>8, <1>12 DEF IsText
<1>14. IsText("alert", a) BY <1>9, <1>12 DEF IsText
<1>15. IsText("long_name", l) BY <1>10, <1>12 DEF IsText
<1>16. IsText("message", m) BY <1>11, <1>12 DEF IsText
<1>17. << >> \in Seq(Types) /\ Len(<< >>) <= MAX_DATA_SERVICES BY Limits
<1>18. PidsOK(c) BY <1>7, <1>13, <1>14, <1>15, <1>16, <1>17 DEF PidsOK, TextIds
<1>19. AlertIs(c.alert) BY <1>7, <1>9, Limits DEF AlertIs, Empty
<1>20. TextsAre(c, Silence)
  <2> SUFFICES ASSUME NEW id \in Numbered \cap menu PROVE TextIs(c[id], Silence[id], airing[id])
    BY DEF TextsAre
  <2>1. airing[id] \in Items[id] /\ id \in Numbered \cap MsgIds
    BY MenusAssumption DEF OnAir
  <2>2. airing[id].seq \in Nat BY <2>1, ItemIs
  <2>3. c[id].seq = -1 BY <1>7, <1>9, <1>10, <1>11 DEF Numbered
  <2>4. c[id].seq <= airing[id].seq /\ c[id].seq < airing[id].seq BY <2>2, <2>3
  <2>5. ~Silence[id] BY DEF Silence
  <2> QED BY <2>4, <2>5, Zenon DEF TextIs
<1>21. PICK now : now = report(c) OBVIOUS
<1>22. PICK r : r = report(Fresh) OBVIOUS
<1>23. Says(now, c) BY <1>21, ReportIs
<1>24. ~c.universal.displayed /\ ~c.slogan.displayed /\ ~c.long_name.displayed
       /\ ~c.message.displayed /\ ~c.alert.displayed
  BY <1>7, <1>8, <1>9, <1>10, <1>11
<1>25. Blank(now, au) BY <1>7, <1>23, <1>24, SilentIs
<1>26. Blank(r, au) BY <1>6, <1>22, FreshIs
<1>27. r.id = now.id /\ r.name = now.name /\ r.location = now.location
       /\ r.audio = now.audio /\ r.data = now.data /\ r.slogan = now.slogan
       /\ r.message = now.message /\ r.alert = now.alert
  BY <1>25, <1>26 DEF Blank
<1>30. Current(c, Silence, r) BY <1>21, <1>27 DEF Current
<1>31. ~c.alert.displayed /\ c.alert_timeout = 0 BY <1>7, <1>9
<1> QED BY <1>1, <1>7, <1>18, <1>19, <1>20, <1>22, <1>30, <1>31 DEF IsCleared

LEMMA UnknownIs == DOMAIN Unknown = Events /\ Unknown.message = << >> /\ Unknown.alert = << >>
BY DEF Unknown, Events

LEMMA InitKept == Init => IInv
<1> SUFFICES ASSUME Init PROVE IInv OBVIOUS
<1>1. OnAir
  <2>1. Silence \in [Numbered -> BOOLEAN] BY DEF Silence
  <2> QED BY <2>1, Limits DEF Init, OnAir, Silence
<1>2. PICK st : st = [long_name |-> Text, message |-> Text, alert |-> Text] OBVIOUS
<1>3. \A id : IsText(id, Text)
  <2>1. PICK t : t = Text OBVIOUS
  <2>2. /\ DOMAIN t = {"buf", "seq", "head", "displayed"} /\ t.buf = Empty
        /\ t.seq = -1 /\ t.displayed = FALSE /\ t.head = None
    BY <2>1 DEF Text
  <2>3. Empty = [i \in Frames |-> Empty[i]] /\ -1 \in Int /\ FALSE \in BOOLEAN BY DEF Empty
  <2>4. \A id : IsText(id, t) BY <2>2, <2>3 DEF IsText
  <2> QED BY <2>1, <2>4
<1>4. st.long_name = Text /\ st.message = Text /\ st.alert = Text BY <1>2
<1>5. IsText("long_name", st.long_name) /\ IsText("message", st.message)
      /\ IsText("alert", st.alert)
  BY <1>3, <1>4
<1>6. pids = Cleared(st) BY <1>2 DEF Init, Fresh
<1>7. IsCleared(pids) BY <1>1, <1>5, <1>6, ClearedIs
<1>8. told = Unknown /\ sis = report(Fresh) /\ started = Silence /\ quiet = 0
  BY DEF Init, Silence
<1>9. Counts BY <1>7, <1>8, Limits DEF Counts, IsCleared
<1>10. /\ DOMAIN Work = {"pids", "told", "updated"} /\ Work.pids = pids /\ Work.told = told
       /\ Work.updated = FALSE
  BY DEF Work
<1>11. WorkOK(Work) BY <1>7, <1>8, <1>10, UnknownIs DEF WorkOK, Shape, IsCleared
<1>12. Whole(told) BY <1>8, UnknownIs DEF Whole
<1>13. Good(Work, started) BY <1>7, <1>8, <1>10, <1>11, <1>12 DEF Good, IsCleared
<1> QED BY <1>1, <1>9, <1>13 DEF IInv

LEMMA ClearKept == ASSUME IInv, pids_init PROVE IInv' /\ EndsInTime
<1>1. OnAir /\ Good(Work, started) /\ Work.pids = pids BY DEF IInv, Work
<1>2. /\ menu' = menu /\ airing' = airing /\ pids' = Cleared(pids) /\ told' = Unknown
      /\ sis' = report(Fresh) /\ started' = Silence /\ quiet' = 0
      /\ changes < MaxChanges /\ changes' = changes + 1
  BY DEF pids_init, Silence
<1>3. IsText("long_name", pids.long_name) /\ IsText("message", pids.message)
      /\ IsText("alert", pids.alert)
  BY <1>1 DEF Good, WorkOK, PidsOK, TextIds
<1>4. PICK c : c = Cleared(pids) OBVIOUS
<1>5. IsCleared(c) BY <1>1, <1>3, <1>4, ClearedIs
<1>6. pids' = c BY <1>2, <1>4
<1>7. OnAir'
  <2>1. Silence \in [Numbered -> BOOLEAN] BY DEF Silence
  <2>2. changes' \in 0..MaxChanges BY <1>1, <1>2, Limits DEF OnAir
  <2> QED BY <2>1, <2>2, <1>1, <1>2 DEF OnAir
<1>8. Counts' BY <1>2, <1>5, <1>6, Limits DEF Counts, IsCleared
<1>9. PICK w : w = [pids |-> c, told |-> Unknown, updated |-> TRUE] OBVIOUS
<1>10. /\ DOMAIN w = {"pids", "told", "updated"} /\ w.pids = c /\ w.told = Unknown
       /\ w.updated = TRUE
  BY <1>9
<1>11. WorkOK(Work)' /\ Work'.pids = c /\ Work'.told = Unknown
  BY <1>2, <1>5, <1>6, UnknownIs DEF Work, WorkOK, Shape, IsCleared
<1>12. TextsAre(Work.pids, started)' BY <1>2, <1>5, <1>11 DEF IsCleared, TextsAre
<1>13. Whole(Work.told)' BY <1>11, UnknownIs DEF Whole
<1>14. Current(Work.pids, started, sis)' BY <1>2, <1>5, <1>11 DEF IsCleared
<1>15. AlertIs(Work.pids.alert)' BY <1>5, <1>11 DEF IsCleared
<1>16. Good(Work, started)' BY <1>11, <1>12, <1>13, <1>14, <1>15 DEF Good
<1>17. EndsInTime
  <2>1. changes \in Int BY <1>1, Limits DEF OnAir
  <2> QED BY <2>1, <1>2 DEF EndsInTime
<1> QED BY <1>7, <1>8, <1>16, <1>17 DEF IInv

LEMMA ChangeKept == ASSUME IInv, NEW id \in menu, Change(id) PROVE IInv' /\ EndsInTime
<1>1. OnAir /\ Counts /\ Good(Work, started) /\ Work.pids = pids /\ Work.told = told
      /\ Work.updated = FALSE
  BY DEF IInv, Work
<1>2. PICK of \in Items[id] : /\ id \in Numbered => of.seq > airing[id].seq
                             /\ airing' = [airing EXCEPT ![id] = of]
  BY DEF Change
<1>3. /\ menu' = menu /\ pids' = pids /\ told' = told /\ sis' = sis /\ quiet' = quiet
      /\ started' = [n \in Numbered |-> started[n] /\ n # id]
      /\ changes < MaxChanges /\ changes' = changes + 1
  BY DEF Change
<1>4. /\ DOMAIN airing' = menu /\ airing'[id] = of
      /\ \A n \in menu \ {id} : airing'[n] = airing[n]
  BY <1>1, <1>2 DEF OnAir
<1>5. OnAir'
  <2>1. started' \in [Numbered -> BOOLEAN] BY <1>3
  <2>2. changes' \in 0..MaxChanges BY <1>1, <1>3, Limits DEF OnAir
  <2>3. \A n \in menu : airing'[n] \in Items[n] BY <1>1, <1>4 DEF OnAir
  <2> QED BY <2>1, <2>2, <2>3, <1>1, <1>3, <1>4 DEF OnAir
<1>6. Counts' BY <1>1, <1>3 DEF Counts
<1>7. Work' = Work BY <1>3 DEF Work
<1>8. TextsAre(pids, started)'
  <2> SUFFICES ASSUME NEW n \in Numbered \cap menu
               PROVE  TextIs(pids[n], started'[n], airing'[n])
    BY <1>3 DEF TextsAre
  <2>1. TextIs(pids[n], started[n], airing[n]) BY <1>1 DEF Good, TextsAre
  <2>2. CASE n # id
    <3>1. airing'[n] = airing[n] /\ (started'[n] <=> started[n]) BY <2>2, <1>3, <1>4
    <3> QED BY <2>1, <3>1, Zenon DEF TextIs
  <2>3. CASE n = id
    <3>1. ~started'[n] BY <2>3, <1>3
    <3>2. n \in Numbered \cap MsgIds /\ airing[n] \in Items[n]
      BY <1>1, MenusAssumption DEF OnAir
    <3>3. airing[n].seq \in Int /\ of.seq \in Int BY <2>3, <3>2, ItemIs
    <3>4. pids[n].seq \in Int
      <4>1. n \in TextIds BY DEF Numbered, TextIds
      <4> QED BY <4>1, <1>1 DEF Good, WorkOK, PidsOK, IsText
    <3>5. pids[n].seq <= airing[n].seq BY <2>1 DEF TextIs
    <3>6. pids[n].seq <= of.seq /\ pids[n].seq < of.seq BY <2>3, <3>3, <3>4, <3>5, <1>2
    <3>7. airing'[n] = of BY <2>3, <1>4
    <3> QED BY <3>1, <3>6, <3>7, Zenon DEF TextIs
  <2> QED BY <2>2, <2>3
<1>9. Current(pids, started', sis)
  <2>1. Current(pids, started, sis) BY <1>1 DEF Good
  <2>2. Quiet(pids, pids) BY DEF Quiet
  <2>3. NumberedQuiet(pids, pids, started, started')
    <3> SUFFICES ASSUME NEW n \in Numbered
                 PROVE  \/ Pending(pids[n], started'[n])
                        \/ ~Pending(pids[n], started[n]) /\ StillThere(pids[n], pids[n])
      BY DEF NumberedQuiet
    <3>1. started'[n] => started[n] BY <1>3
    <3>2. Pending(pids[n], started[n]) => Pending(pids[n], started'[n])
      BY <3>1, Zenon DEF Pending
    <3> QED BY <3>2 DEF StillThere
  <2> QED BY <2>1, <2>2, <2>3, CurrentKept
<1>10. Good(Work, started)'
  <2>1. WorkOK(Work)' /\ AlertIs(Work.pids.alert)' BY <1>1, <1>7 DEF Good
  <2>2. Whole(Work.told)' BY <1>1, <1>7 DEF Good
  <2>3. TextsAre(Work.pids, started)' BY <1>1, <1>3, <1>7, <1>8
  <2>4. Current(Work.pids, started, sis)' BY <1>1, <1>3, <1>7, <1>9
  <2> QED BY <2>1, <2>2, <2>3, <2>4 DEF Good
<1>11. EndsInTime BY <1>3 DEF EndsInTime
<1> QED BY <1>5, <1>6, <1>10, <1>11 DEF IInv

-----------------------------------------------------------------------------
(* The theorems.                                                           *)
LEMMA NextKept == ASSUME IInv, Next PROVE IInv' /\ EndsInTime
<1>1. ASSUME NEW p \in Sent, pids_frame_push(<<p>>) PROVE IInv' /\ EndsInTime
  BY <1>1, OneHeard, FrameKept
<1>2. ASSUME NEW p \in Sent, NEW q \in Sent, pids_frame_push(<<p, q>>)
      PROVE  IInv' /\ EndsInTime
  <2>1. Fits(<<p, q>>) BY <1>2 DEF pids_frame_push
  <2>2. /\ ~Alerts(<<p, q>>)
        /\ Kept(Start, Heard(Legible(<<p, q>>)), Starts(<<p, q>>))
    BY <2>1, TwoHeard
  <2> QED BY <2>2, <1>2, FrameKept
<1>3. CASE pids_init BY <1>3, ClearKept
<1>4. ASSUME NEW id \in menu, Change(id) PROVE IInv' /\ EndsInTime BY <1>4, ChangeKept
<1> QED BY <1>1, <1>2, <1>3, <1>4 DEF Next

LEMMA StutterKept == ASSUME IInv, UNCHANGED vars PROVE IInv' /\ EndsInTime
<1>1. /\ menu' = menu /\ airing' = airing /\ pids' = pids /\ told' = told /\ sis' = sis
      /\ started' = started /\ quiet' = quiet /\ changes' = changes
  BY DEF vars
<1>2. OnAir' /\ Counts' BY <1>1 DEF IInv, OnAir, Counts
<1>3. Work' = Work BY <1>1 DEF Work
<1>4. TextsAre(Work.pids, started)' BY <1>1, <1>3 DEF IInv, Good, TextsAre
<1>5. Good(Work, started)' BY <1>1, <1>3, <1>4 DEF IInv, Good
<1>6. EndsInTime BY <1>1 DEF EndsInTime
<1> QED BY <1>2, <1>5, <1>6 DEF IInv

(* What is stored of a text whose part 0 has come is of that text, an      *)
(* alert that is displayed has been quiet for as long as is counted, and   *)
(* all that changes is reported, whichever frames come and are lost.       *)
THEOREM Invariance == Spec => []IInv
<1>1. IInv /\ [Next]_vars => IInv' BY NextKept, StutterKept
<1> QED BY <1>1, InitKept, PTL DEF Spec

LEMMA TypeIs == IInv => TypeOK
<1> SUFFICES ASSUME IInv PROVE TypeOK OBVIOUS
<1>1. OnAir /\ Counts /\ WorkOK(Work) /\ Work.pids = pids /\ Work.told = told
  BY DEF IInv, Good, Work
<1>2. ASSUME NEW id \in TextIds
      PROVE  /\ DOMAIN pids[id].buf = Frames /\ pids[id].displayed \in BOOLEAN
             /\ pids[id].head = None \/ pids[id].head \in Items[id]
  BY <1>1 DEF WorkOK, PidsOK, IsText
<1>3. Len(pids.data_services) <= MAX_DATA_SERVICES BY <1>1 DEF WorkOK, PidsOK
<1>4. pids.alert_timeout \in 0..ALERT_TIMEOUT_LIMIT BY <1>1, Limits DEF Counts
<1>5. DOMAIN told = DOMAIN Unknown BY <1>1, UnknownIs DEF WorkOK, Shape
<1> QED BY <1>1, <1>2, <1>3, <1>4, <1>5 DEF TypeOK, OnAir, Counts, TextIds

(* No long name, message or alert is shown mixed of two texts once part 0  *)
(* of the newer one has come, and none is told that the station did not    *)
(* compose.                                                                *)
THEOREM TextsCorrect == Spec => []TextsWhole
<1>1. IInv => TextsWhole
  <2> SUFFICES ASSUME IInv PROVE TextsWhole OBVIOUS
  <2>1. OnAir /\ Good(Work, started) /\ Work.pids = pids /\ Work.told = told
    BY DEF IInv, Work
  <2>2. ShownWhole
    <3> SUFFICES ASSUME NEW id \in Numbered \cap menu, started[id], pids[id].displayed
                 PROVE  Shown(id) = airing[id].parts
      BY DEF ShownWhole
    <3>1. TextIs(pids[id], started[id], airing[id]) BY <2>1 DEF Good, TextsAre
    <3>2. TextIs(pids[id], TRUE, airing[id]) BY <3>1, Zenon DEF TextIs
    <3>3. id \in Numbered \cap MsgIds /\ airing[id] \in Items[id]
      BY <2>1, MenusAssumption DEF OnAir
    <3>4. /\ Delimited(pids[id].buf, pids[id].head) = airing[id].parts
          /\ Terminated(pids[id].buf) = airing[id].parts
      BY <3>2, <3>3, ShownIs
    <3> QED BY <3>4 DEF Shown
  <2>3. EventsWhole BY <2>1 DEF Good, Whole, EventsWhole
  <2> QED BY <2>2, <2>3, TypeIs DEF TextsWhole
<1> QED BY <1>1, Invariance, PTL

(* The last NRSC5_EVENT_SIS says what one made now would say, but for a    *)
(* text that part 0 of the next has taken off display, one that parts of   *)
(* the next are stored over, and a slogan on display.                      *)
THEOREM ReportsCorrect == Spec => []ReportCurrent
<1>1. IInv => ReportCurrent
  BY DEF IInv, Good, Work, Current, ReportCurrent, Pending, Awaited, Overwritten
<1> QED BY <1>1, Invariance, PTL

(* An alert ends when the limit has passed without one, and not before.    *)
THEOREM AlertCorrect == Spec => AlertHeld
<1>1. IInv => (pids.alert.displayed => quiet < ALERT_TIMEOUT_LIMIT)
  BY Limits DEF IInv, Counts
<1>2. IInv /\ [Next]_vars =>
        [told.alert # << >> /\ told'.alert = << >> =>
           quiet' = ALERT_TIMEOUT_LIMIT \/ changes' # changes]_vars
  BY NextKept DEF EndsInTime
<1> QED BY <1>1, <1>2, Invariance, PTL DEF Spec, AlertHeld

=============================================================================
