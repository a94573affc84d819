---------------------------- MODULE StationInfo -----------------------------
(***************************************************************************)
(* Station information (PIDS, SIS): src/pids.c.  Every PIDS frame that     *)
(* passes its CRC carries one or two payloads.  Names, messages and alerts *)
(* are too long for one and are put together from parts, which arrive in   *)
(* any order or not at all while the station may go over to another text.  *)
(* What is complete is told in an event of its own, and the whole of the   *)
(* station information in an NRSC5_EVENT_SIS.                              *)
(*                                                                         *)
(* A frame that fails its CRC and an LLDS frame change nothing: a frame    *)
(* that is lost is a frame that is not received here.                      *)
(***************************************************************************)
EXTENDS Integers, FiniteSets, SequencesExt

CONSTANTS
  ALERT_TIMEOUT_LIMIT,  (* SIS frames without an alert that end it, 16     *)
  MAX_AUDIO_SERVICES,   (* 8                                               *)
  MAX_DATA_SERVICES,    (* 16                                              *)
  MAX_FRAMES,           (* parts of a text: 8, 32, 16 or 64 in the code    *)
  Items,                (* what the station may send under each identifier *)
  Menus,                (* the sets of identifiers a station may use       *)
  MaxChanges            (* bound: changes of what is sent, and resyncs     *)

(* An item is [name, seq, sound, parts]: one text, location, list of       *)
(* services or list of parameters, cut into the parts that are sent.       *)
None == [name |-> "none", seq |-> -1, sound |-> FALSE, parts |-> << >>]

MsgIds == DOMAIN Items
Frames == 0..(MAX_FRAMES - 1)

(* The payloads a station sends while `of' is its item for `id'.           *)
Payload(id, of, i) == [id |-> id, of |-> of, frame |-> i, part |-> of.parts[i + 1]]
PayloadsOf(id, of) == {Payload(id, of, i) : i \in 0..(Len(of.parts) - 1)}
Payloads == UNION {UNION {PayloadsOf(id, of) : of \in Items[id]} : id \in MsgIds}

(* The texts told apart by a sequence number.                              *)
Numbered == {"long_name", "message", "alert"}

ASSUME LimitsAssumption ==
  /\ ALERT_TIMEOUT_LIMIT \in Nat \ {0} /\ MAX_AUDIO_SERVICES \in Nat \ {0}
  /\ MAX_DATA_SERVICES \in Nat \ {0} /\ MAX_FRAMES \in Nat \ {0}
  /\ MaxChanges \in Nat
ASSUME MenusAssumption == \A menu \in Menus : menu \subseteq MsgIds

(* No two texts of a kind share a number.  (Numbers count up modulo 8 or   *)
(* 4: a station that has come round to the number of a text still held is  *)
(* beyond the bound.)  No parts: there is no alert.  "" is no part.        *)
ASSUME ItemsAssumption ==
  \A id \in Numbered \cap MsgIds : \A x, y \in Items[id] :
    /\ x.seq \in Nat /\ x.parts \in Seq(STRING) /\ Len(x.parts) <= MAX_FRAMES
    /\ \A k \in DOMAIN x.parts : x.parts[k] # ""
    /\ x.seq = y.seq => x = y

VARIABLES
  menu,      (* the identifiers this station uses                          *)
  airing,    (* what it sends under each                                   *)
  pids,      (* pids_t                                                     *)
  told,      (* the last event of each kind since synchronisation          *)
  sis,       (* the last NRSC5_EVENT_SIS                                   *)
  started,   (* part 0 of the text sent now has been received              *)
  quiet,     (* SIS frames since one with an alert, up to the limit        *)
  changes

vars == <<menu, airing, pids, told, sis, started, quiet, changes>>

Empty == [i \in Frames |-> ""]

Unknown ==
  [id |-> << >>, name |-> << >>, slogan |-> << >>, message |-> << >>,
   location |-> << >>, alert |-> << >>, audio |-> << >>, data |-> << >>,
   leap |-> << >>, time |-> << >>, exciter |-> << >>, importer |-> << >>]

-----------------------------------------------------------------------------
(* Texts.  have_frame[i] is kept as buf[i] # "": both are always set and   *)
(* cleared together.  `head' is the item whose part 0 set the length, the  *)
(* encoding and the checksum; a text that is `sound' carries the checksum  *)
(* and the lengths that belong to it.                                      *)

Text == [buf |-> Empty, seq |-> -1, head |-> None, displayed |-> FALSE]

Complete(buf, n) == \A i \in Frames : i < n => buf[i] # ""

(* The string up to its first NUL, and the one a length delimits.          *)
Terminated(buf) == [k \in {n \in 1..MAX_FRAMES : Complete(buf, n)} |-> buf[k - 1]]
Delimited(buf, head) == [k \in 1..Len(head.parts) |-> buf[k - 1]]

(* Mutant: only the station's own mistakes are noticed.                    *)
PassesAnyMixture(buf, head) == head.sound

(* The checksum of a message, the CRCs of an alert.                        *)
Passes(buf, head) == head.sound /\ Delimited(buf, head) = head.parts

(* Mutant: the new text counts as displayed when the old one was.          *)
BegunDisplayed(text, p) ==
  IF p.frame = 0 /\ p.of.seq # text.seq
  THEN [text EXCEPT !.buf = Empty, !.seq = p.of.seq]
  ELSE text

(* Part 0 under another number starts a new text; part 0 under the same    *)
(* number and the other parts are stored in the one that is there.         *)
Begun(text, p) ==
  IF p.frame = 0 /\ p.of.seq # text.seq
  THEN [text EXCEPT !.buf = Empty, !.seq = p.of.seq, !.displayed = FALSE]
  ELSE text
Stored(text, p) ==
  [text EXCEPT !.buf[p.frame] = p.part,
               !.head = IF p.frame = 0 THEN p.of ELSE @]

-----------------------------------------------------------------------------
(* The handlers of the payloads.  `w' is the work of one frame: pids_t, the *)
(* events told so far, and the flag that asks for a report at the end.     *)

Told(w, event, content) == [w EXCEPT !.told[event] = content, !.updated = TRUE]

sis_decode_station_id(w, p) ==
  IF p.part = w.pids.id THEN w
  ELSE Told([w EXCEPT !.pids.id = p.part], "id", <<p.part>>)

sis_decode_station_name_short(w, p) ==
  IF p.part = w.pids.short_name THEN w
  ELSE Told([w EXCEPT !.pids.short_name = p.part], "name", <<p.part>>)

(* The length comes with every part, and nothing checks the text.          *)
sis_decode_station_long_name(w, p) ==
  LET text == Stored(Begun(w.pids.long_name, p), p)
      shows == /\ text.seq >= 0 /\ ~text.displayed
               /\ Complete(text.buf, Len(p.of.parts))
      done == [w EXCEPT !.pids.long_name = [text EXCEPT !.displayed = @ \/ shows],
                        !.updated = @ \/ shows]
  IN IF shows /\ ~w.pids.slogan.displayed
     THEN Told(done, "slogan", Terminated(text.buf))
     ELSE done

(* Mutant: the report is not asked for.                                    *)
LocationUnreported(w, p) ==
  LET mine  == IF p.frame = 0 THEN "latitude" ELSE "longitude"
      other == IF p.frame = 0 THEN "longitude" ELSE "latitude"
      moved == [w EXCEPT !.pids[mine] = p.part]
  IN IF p.part = w.pids[mine] \/ w.pids[other] = "" THEN moved
     ELSE [moved EXCEPT !.told.location = <<moved.pids.latitude, moved.pids.longitude>>]

(* Latitude with the high bits of the altitude (part 0), longitude with    *)
(* the low bits (part 1).  A half that is not known is NaN ("").           *)
sis_decode_station_location(w, p) ==
  LET mine  == IF p.frame = 0 THEN "latitude" ELSE "longitude"
      other == IF p.frame = 0 THEN "longitude" ELSE "latitude"
      moved == [w EXCEPT !.pids[mine] = p.part]
  IN IF p.part = w.pids[mine] THEN w
     ELSE IF w.pids[other] = "" THEN moved
     ELSE Told(moved, "location", <<moved.pids.latitude, moved.pids.longitude>>)

sis_decode_station_message(w, p) ==
  LET text == Stored(Begun(w.pids.message, p), p)
      shows == /\ text.seq >= 0 /\ ~text.displayed
               /\ Complete(text.buf, Len(text.head.parts))
               /\ Passes(text.buf, text.head)
      done == [w EXCEPT !.pids.message = [text EXCEPT !.displayed = @ \/ shows]]
  IN IF shows THEN Told(done, "message", Delimited(text.buf, text.head)) ELSE done

(* An audio service has a slot of its own; a data service is appended to   *)
(* a list, and is not noticed when that is full.                           *)
sis_decode_service_information(w, p) ==
  LET s == p.part IN
  CASE s.category = "audio" /\ s.program < MAX_AUDIO_SERVICES
                            /\ w.pids.audio_services[s.program] # s.type ->
         Told([w EXCEPT !.pids.audio_services[s.program] = s.type], "audio", <<s>>)
    [] s.category = "data" /\ s.type \notin ToSet(w.pids.data_services)
                           /\ Len(w.pids.data_services) < MAX_DATA_SERVICES ->
         Told([w EXCEPT !.pids.data_services = Append(@, s.type)], "data", <<s>>)
    [] OTHER -> w

(* The parameters that are told together, once all of them are known.      *)
(* None of this asks for a report.                                         *)
Groups == [leap |-> 0..2, time |-> 3..3, exciter |-> 4..7, importer |-> 8..11]
Indexes == 0..12
Values(parameters, event) == [i \in Groups[event] |-> parameters[i]]
Tells(parameters, event, i) ==
  event \in DOMAIN Groups /\ i \in Groups[event]
    /\ \A k \in Groups[event] : parameters[k] # ""

sis_decode_parameter(w, p) ==
  LET i == p.part.index
      now == [w.pids.parameters EXCEPT ![i] = p.part.value]
  IN IF i \notin Indexes \/ w.pids.parameters[i] = p.part.value THEN w
     ELSE [w EXCEPT !.pids.parameters = now,
                    !.told = [e \in DOMAIN @ |->
                                IF Tells(now, e, i) THEN Values(now, e) ELSE @[e]]]

(* Names without a number: once displayed the universal short name never   *)
(* changes again, and the slogan is never told again.                      *)
sis_decode_universal_short_name(w, p) ==
  LET text == Stored(w.pids.universal, p)
      shows == /\ text.head # None /\ ~text.displayed
               /\ Complete(text.buf, Len(text.head.parts))
      done == [w EXCEPT !.pids.universal = [text EXCEPT !.displayed = @ \/ shows]]
      name == Terminated(text.buf)
  IN IF p.frame > 1 THEN w
     ELSE IF shows THEN Told([done EXCEPT !.pids.universal_final = name], "name", name)
     ELSE done

sis_decode_slogan(w, p) ==
  LET text == Stored(w.pids.slogan, p)
      shows == /\ text.head # None /\ ~text.displayed
               /\ Complete(text.buf, Len(text.head.parts))
      done == [w EXCEPT !.pids.slogan = [text EXCEPT !.displayed = @ \/ shows],
                        !.updated = @ \/ shows]
  IN IF shows /\ ~w.pids.long_name.displayed
     THEN Told(done, "slogan", Delimited(text.buf, text.head))
     ELSE done

sis_decode_emergency_alerts(w, p) ==
  LET text == Stored(Begun(w.pids.alert, p), p)
      shows == /\ ~text.displayed
               /\ text.buf[0] # "" /\ Complete(text.buf, Len(text.head.parts))
               /\ Passes(text.buf, text.head)
      done == [w EXCEPT !.pids.alert = [text EXCEPT !.displayed = @ \/ shows],
                        !.pids.alert_timeout = 0]
  IN IF shows THEN Told(done, "alert", Delimited(text.buf, text.head)) ELSE done

-----------------------------------------------------------------------------
(* A frame.                                                                *)

(* Bits of a payload after its identifier, of the 63 after the first two.  *)
payload_sizes ==
  [station_id |-> 32, short_name |-> 22, long_name |-> 58, reserved |-> 32,
   location |-> 27, message |-> 58, service |-> 27, parameter |-> 22,
   universal |-> 58, slogan |-> 58, alert |-> 58, unassigned |-> -1]
ASSUME IdentifiersAssumption == MsgIds \subseteq DOMAIN payload_sizes

Handled(w, p) ==
  CASE p.id = "station_id" -> sis_decode_station_id(w, p)
    [] p.id = "short_name" -> sis_decode_station_name_short(w, p)
    [] p.id = "long_name"  -> sis_decode_station_long_name(w, p)
    [] p.id = "location"   -> sis_decode_station_location(w, p)
    [] p.id = "message"    -> sis_decode_station_message(w, p)
    [] p.id = "service"    -> sis_decode_service_information(w, p)
    [] p.id = "parameter"  -> sis_decode_parameter(w, p)
    [] p.id = "universal"  -> sis_decode_universal_short_name(w, p)
    [] p.id = "slogan"     -> sis_decode_slogan(w, p)
    [] p.id = "alert"      -> sis_decode_emergency_alerts(w, p)
    [] OTHER -> w

(* The loop over the payloads of a frame, which the first bit says are one *)
(* or two: it ends at an identifier that is not assigned.  A station       *)
(* composes frames whose payloads fit.                                     *)
Fits(frame) ==
  /\ Len(frame) \in 1..2
  /\ Len(frame) = 2 => payload_sizes[frame[1].id] + payload_sizes[frame[2].id] <= 54
Assigned(p) == payload_sizes[p.id] # -1
Legible(frame) ==
  IF \A k \in 1..Len(frame) : Assigned(frame[k]) THEN frame
  ELSE IF Assigned(frame[1]) THEN <<frame[1]>> ELSE << >>

(* An alert that LIMIT frames in a row do not bring is over.  alert_len    *)
(* and the rest of its header are left as they are.                        *)
reset_alert(alert) == [Text EXCEPT !.head = alert.head]

(* Mutant: one frame too early.                                            *)
ExpiredEarly(w) ==
  IF w.pids.alert.displayed /\ w.pids.alert_timeout >= ALERT_TIMEOUT_LIMIT - 1
  THEN Told([w EXCEPT !.pids.alert = reset_alert(@), !.pids.alert_timeout = 0],
            "alert", << >>)
  ELSE w

Expired(w) ==
  IF w.pids.alert.displayed /\ w.pids.alert_timeout >= ALERT_TIMEOUT_LIMIT
  THEN Told([w EXCEPT !.pids.alert = reset_alert(@), !.pids.alert_timeout = 0],
            "alert", << >>)
  ELSE w

Decoded(frame) ==
  LET counted == [pids EXCEPT !.alert_timeout = @ + (IF pids.alert.displayed THEN 1 ELSE 0)]
      w0 == [pids |-> counted, told |-> told, updated |-> FALSE]
      read == Legible(frame)
  IN Expired(CASE Len(read) = 0 -> w0
               [] Len(read) = 1 -> Handled(w0, read[1])
               [] OTHER -> Handled(Handled(w0, read[1]), read[2]))

(* What NRSC5_EVENT_SIS says.                                              *)
report(st) ==
  [id |-> IF st.id = "" THEN << >> ELSE <<st.id>>,
   name |-> IF st.universal.displayed THEN st.universal_final
            ELSE IF st.short_name # "" THEN <<st.short_name>> ELSE << >>,
   slogan |-> IF st.slogan.displayed THEN Delimited(st.slogan.buf, st.slogan.head)
              ELSE IF st.long_name.displayed THEN Terminated(st.long_name.buf) ELSE << >>,
   message |-> IF st.message.displayed
               THEN Delimited(st.message.buf, st.message.head) ELSE << >>,
   alert |-> IF st.alert.displayed THEN Delimited(st.alert.buf, st.alert.head) ELSE << >>,
   location |-> IF st.latitude # "" /\ st.longitude # ""
                THEN <<st.latitude, st.longitude>> ELSE << >>,
   audio |-> st.audio_services, data |-> st.data_services]

(* pids_init leaves the buffers of the long name and of the message, and   *)
(* the headers, as they are; their number -1 keeps them from being shown.  *)
Cleared(st) ==
  [id |-> "", short_name |-> "", latitude |-> "", longitude |-> "",
   long_name |-> [st.long_name EXCEPT !.seq = -1, !.displayed = FALSE],
   message   |-> [st.message EXCEPT !.seq = -1, !.displayed = FALSE],
   audio_services |-> [i \in 0..(MAX_AUDIO_SERVICES - 1) |-> ""],
   data_services |-> << >>,
   parameters |-> [i \in Indexes |-> ""],
   universal |-> Text, universal_final |-> << >>, slogan |-> Text,
   alert |-> reset_alert(st.alert), alert_timeout |-> 0]

Fresh == Cleared([long_name |-> Text, message |-> Text, alert |-> Text])

-----------------------------------------------------------------------------
(* Steps.                                                                  *)

(* pids_frame_push of a frame that passes its CRC.                         *)
pids_frame_push(frame) ==
  /\ \A k \in 1..Len(frame) : frame[k].id \in menu /\ frame[k].of = airing[frame[k].id]
  /\ Fits(frame)
  /\ \E w \in {Decoded(frame)} :
       /\ pids' = w.pids
       /\ told' = w.told
       /\ sis' = IF w.updated THEN report(w.pids) ELSE sis
  /\ started' = [id \in Numbered |->
                   started[id] \/ \E p \in ToSet(frame) : p.id = id /\ p.frame = 0]
  /\ quiet' = IF \E p \in ToSet(frame) : p.id = "alert" THEN 0
              ELSE IF quiet < ALERT_TIMEOUT_LIMIT THEN quiet + 1 ELSE quiet
  /\ UNCHANGED <<menu, airing, changes>>

(* decode_reset, on every new synchronisation and input_reset.             *)
pids_init ==
  /\ changes < MaxChanges /\ changes' = changes + 1
  /\ pids' = Cleared(pids)
  /\ told' = Unknown
  /\ sis' = report(Fresh)
  /\ started' = [id \in Numbered |-> FALSE]
  /\ quiet' = 0
  /\ UNCHANGED <<menu, airing>>

(* The station goes over to another text, or ends an alert.                *)
Change(id) ==
  /\ changes < MaxChanges /\ changes' = changes + 1
  /\ \E of \in Items[id] \ {airing[id]} :
       /\ id \in Numbered => of.seq > airing[id].seq
       /\ airing' = [airing EXCEPT ![id] = of]
  /\ started' = [n \in Numbered |-> started[n] /\ n # id]
  /\ UNCHANGED <<menu, pids, told, sis, quiet>>

Init ==
  /\ menu \in Menus
  /\ airing \in {a \in [menu -> UNION {Items[id] : id \in menu}] :
                   \A id \in menu : a[id] \in Items[id]}
  /\ pids = Fresh
  /\ told = Unknown
  /\ sis = report(Fresh)
  /\ started = [id \in Numbered |-> FALSE]
  /\ quiet = 0
  /\ changes = 0

Sent == UNION {PayloadsOf(id, airing[id]) : id \in menu}

(* Two payloads of a kind in a frame do what two frames do.                *)
Next ==
  \/ \E p \in Sent : pids_frame_push(<<p>>)
  \/ \E p, q \in Sent : p.id # q.id /\ pids_frame_push(<<p, q>>)
  \/ pids_init
  \/ \E id \in menu : Change(id)

Spec == Init /\ [][Next]_vars

(* A station repeats what it sends, and every part gets through again.     *)
FairSpec == Spec /\ \A p \in Payloads : WF_vars(pids_frame_push(<<p>>))

-----------------------------------------------------------------------------
(* Properties.                                                             *)

(* Every field of pids_t and every event holds a value of its kind.        *)
TypeOK ==
  /\ menu \in Menus /\ \A id \in menu : airing[id] \in Items[id]
  /\ \A id \in {"long_name", "message", "alert", "universal", "slogan"} :
       /\ DOMAIN pids[id].buf = Frames /\ pids[id].displayed \in BOOLEAN
       /\ pids[id].head = None \/ pids[id].head \in Items[id]
  /\ Len(pids.data_services) <= MAX_DATA_SERVICES
  /\ pids.alert_timeout \in 0..ALERT_TIMEOUT_LIMIT
  /\ DOMAIN told = DOMAIN Unknown /\ quiet \in 0..ALERT_TIMEOUT_LIMIT
  /\ changes \in 0..MaxChanges

Shown(id) ==
  IF id = "long_name" THEN Terminated(pids.long_name.buf)
  ELSE Delimited(pids[id].buf, pids[id].head)

(* A long name, message or alert on display is one text and the one the    *)
(* station sends, no matter which parts were lost, as soon as part 0 of    *)
(* that text has come in.  (Before that the parts of a new text are stored *)
(* over the old one, and nothing but a checksum can tell.)                 *)
ShownWhole ==
  \A id \in Numbered \cap menu :
    started[id] /\ pids[id].displayed => Shown(id) = airing[id].parts

(* A message or an alert is told only as the station composed it, even     *)
(* when parts of two texts met in the buffer.                              *)
EventsWhole ==
  \A id \in {"message", "alert"} \cap MsgIds :
    told[id] # << >> => \E of \in Items[id] : of.sound /\ told[id] = of.parts

(* No text is mixed, shown or told, and the lists stay within their arrays.*)
TextsWhole == TypeOK /\ ShownWhole /\ EventsWhole

(* Part 0 of a text that is not on display has come.  It took the former   *)
(* text off display (pids.c 452-458, 533-538, 865-870).                    *)
Awaited(id) == pids[id].seq >= 0 /\ pids[id].buf[0] # "" /\ ~pids[id].displayed

(* Parts of a text whose part 0 has not come are stored over the text on   *)
(* display.                                                                *)
Overwritten(id) == pids[id].displayed /\ ~started[id]

(* The last NRSC5_EVENT_SIS says what one made now would say, of what is   *)
(* known and of what is not, with three exceptions.  A text taken off      *)
(* display asks for no report, so the report may go on saying it while the *)
(* new one is Awaited; nor does a text that is Overwritten; nor a slogan   *)
(* on display, whose parts may replace those of another.                   *)
ReportCurrent ==
  LET now == report(pids) IN
  /\ \A f \in {"id", "name", "location", "audio", "data"} : sis[f] = now[f]
  /\ \A id \in {"message", "alert"} :
       sis[id] = now[id] \/ Awaited(id) \/ Overwritten(id)
  /\ \/ sis.slogan = now.slogan
     \/ Awaited("long_name") \/ Overwritten("long_name")
     \/ pids.slogan.displayed

(* An alert on display is never older than the limit, and its end is told  *)
(* only after that many frames without an alert: parts of any alert, this  *)
(* or the next, keep it.                                                   *)
AlertHeld ==
  /\ [](pids.alert.displayed => quiet < ALERT_TIMEOUT_LIMIT)
  /\ [][told.alert # << >> /\ told'.alert = << >> =>
          quiet' = ALERT_TIMEOUT_LIMIT \/ changes' # changes]_vars

(* What the listener is told of what the station sends under an identifier *)
(* once the station stays with it.                                         *)

(* A short name gives way to a universal one; a slogan and a long name are *)
(* told in one event, and the first to be displayed is the one told.       *)
NameAgrees ==
  IF "universal" \in menu THEN told.name # << >> /\ sis.name # << >>
  ELSE told.name = airing.short_name.parts /\ sis.name = airing.short_name.parts

LongNameAgrees ==
  /\ pids.long_name.displayed
  /\ ~pids.slogan.displayed => /\ told.slogan = airing.long_name.parts
                               /\ sis.slogan = airing.long_name.parts

(* Every audio service the receiver has a slot for, and every data service *)
(* if the list is not full.                                                *)
ServicesAgree ==
  \A s \in ToSet(airing.service.parts) :
    /\ s.category = "audio" /\ s.program < MAX_AUDIO_SERVICES =>
         sis.audio[s.program] = s.type
    /\ s.category = "data" =>
         s.type \in ToSet(sis.data) \/ Len(sis.data) = MAX_DATA_SERVICES

(* Parameters are told in events only.                                     *)
ParametersAgree ==
  LET parts == ToSet(airing.parameter.parts) IN
  \A e \in DOMAIN Groups : Groups[e] \subseteq {v.index : v \in parts} =>
    /\ told[e] # << >>
    /\ \A v \in parts : v.index \in Groups[e] => told[e][v.index] = v.value

(* The end of an alert is not told while part 0 of another, which has      *)
(* taken it off display, is all there is of that one (pids.c 870, 1021).   *)
AlertAgrees ==
  LET alert == airing.alert IN
  IF alert.parts = << >>
  THEN (told.alert = << >> /\ sis.alert = << >>) \/ Awaited("alert")
  ELSE alert.sound => told.alert = alert.parts /\ sis.alert = alert.parts

Agrees(id) ==
  LET parts == airing[id].parts IN
  CASE id = "station_id" -> told.id = parts /\ sis.id = parts
    [] id = "short_name" -> NameAgrees
    [] id = "location" -> told.location = parts /\ sis.location = parts
    [] id = "message" -> airing[id].sound => told.message = parts /\ sis.message = parts
    [] id = "long_name" -> LongNameAgrees
    [] id = "service" -> ServicesAgree
    [] id = "parameter" -> ParametersAgree
    [] OTHER -> TRUE

(* A universal short name and a slogan are displayed once, so only those   *)
(* of a station that never changes them are sure to be reported.           *)
SteadyAgrees(id, field) ==
  \A of \in Items[id] :
    [](id \in menu => airing[id] = of) =>
      <>[](id \in menu => told[field] # << >> /\ sis[field] = of.parts)

(* Once the station stays with what it sends, the events and the report    *)
(* come to say that, as the definitions above say for each identifier:     *)
(* parameters and halves of a location that were told torn, and texts put  *)
(* together from two, are told again.  (An alert whose parts come further  *)
(* apart than the limit is ended and told anew.)                           *)
Informed ==
  /\ <>[](\A id \in menu : Agrees(id))
  /\ []<>("alert" \in menu => AlertAgrees)
  /\ SteadyAgrees("universal", "name") /\ SteadyAgrees("slogan", "slogan")
=============================================================================
