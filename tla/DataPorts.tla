----------------------------- MODULE DataPorts ------------------------------
(***************************************************************************)
(* The data ports of a station: output_aas_push of src/output.c.  One port *)
(* carries the table of the station's services and their components (SIG), *)
(* which tells what every other port carries.  The table is parsed once    *)
(* and kept until the output is reset; nrsc5_report_sig copies it into     *)
(* records the application sees, and every event of a data port points to  *)
(* those of its service and component.                                     *)
(*                                                                         *)
(* A SIG is a sequence of entries.  A record [entry, id, port, type] has   *)
(* what the entry tells; type stands for the type and the MIME type of the *)
(* port.  The records the application sees are told apart by the number    *)
(* of the table they were made for.                                        *)
(***************************************************************************)
EXTENDS HereImages

CONSTANTS
  MAX_SIG_SERVICES,    (* 16                                               *)
  MAX_SIG_COMPONENTS,  (* of a service, 8                                  *)
  Sigs,                (* the tables a station may send                    *)
  Retuned,             (* those of the stations tuned later                *)
  Ports,               (* data ports, 0x401 to 0x50FF                      *)
  MaxTables            (* bound: records of tables in memory               *)

(* A table begins with a service.                                          *)
ASSUME SigAssumption ==
  /\ Retuned \subseteq Sigs
  /\ {MAX_SIG_SERVICES, MAX_SIG_COMPONENTS, MaxTables} \subseteq Nat \ {0}
  /\ Sigs \subseteq Seq([entry : STRING, id : Nat, port : Nat, type : STRING])
  /\ \A sig \in Sigs : sig # << >> /\ sig[1].entry = "service"

VARIABLES
  onAir,       (* the table the station sends                              *)
  services,    (* output_t: the table                                      *)
  sig_table,   (* nrsc5_t: the records to be freed, or 0                   *)
  records,     (* the records in memory, by the number of their table      *)
  event        (* the last event of a port: its records, port and type     *)

sigVars == <<services, sig_table, records, event>>
vars == <<onAir, sigVars, hereVars>>

NoEvent == [table |-> 0, port |-> 0, type |-> "none"]

-----------------------------------------------------------------------------
(* parse_sig.  The services and a service's components are kept in order;  *)
(* service_ext and component_ext, set together, are the component's table. *)
Put(list, k, x) == IF k = 0 THEN Append(list, x) ELSE [list EXCEPT ![k] = x]
Place(list, k) == IF k = 0 THEN Len(list) + 1 ELSE k

(* A service with the number of an earlier one takes its place, empty.     *)
WithService(t, e) ==
  LET k == SelectInSeq(t.services, LAMBDA s : s.number = e.id)
  IN IF k = 0 /\ Len(t.services) = MAX_SIG_SERVICES THEN [t EXCEPT !.done = TRUE]
     ELSE [t EXCEPT !.at = Place(t.services, k),
                    !.services = Put(@, k, [number |-> e.id, component |-> << >>])]

(* Mutant: an entry told again takes a new slot. *)
find_componentFree(s, id) == 0

(* find_component: so does a component in its service.                     *)
find_component(s, id) == SelectInSeq(s.component, LAMBDA c : c.id = id)

WithComponent(t, e) ==
  LET s == t.services[t.at]
      k == find_component(s, e.id)
  IN IF k = 0 /\ Len(s.component) = MAX_SIG_COMPONENTS THEN [t EXCEPT !.done = TRUE]
     ELSE [t EXCEPT !.services[t.at].component =
             Put(@, k, [id |-> e.id, kind |-> e.entry, port |-> e.port,
                        type |-> e.type, ext |-> 0])]

(* Whatever stops the parser, what it has read until then is the table.    *)
Entry(t, e) ==
  CASE t.done -> t
    [] ~t.done /\ e.entry = "service" -> WithService(t, e)
    [] ~t.done /\ e.entry \in {"data", "audio"} -> WithComponent(t, e)
    [] ~t.done /\ e.entry = "bad" -> [t EXCEPT !.done = TRUE]
    [] OTHER -> t
Table(sig) ==
  LET read[k \in 0..Len(sig)] ==
        IF k = 0 THEN [services |-> << >>, at |-> 0, done |-> FALSE]
        ELSE Entry(read[k - 1], sig[k])
  IN read[Len(sig)].services

(* nrsc5_report_sig: new records, known to the components they are of.     *)
nrsc5_report_sig(table) ==
  \E n \in {Min(1..MaxTables \ records)} :
    /\ services' = [s \in DOMAIN table |->
         [table[s] EXCEPT !.component =
            [c \in DOMAIN table[s].component |-> [table[s].component[c] EXCEPT !.ext = n]]]]
    /\ records' = records \cup {n} /\ sig_table' = n
    /\ event' = [table |-> n, port |-> 0, type |-> "sig"]

(* Mutant: the table is parsed whenever it comes. *)
parse_sigAgain(sig) == nrsc5_report_sig(Table(sig))
parse_sig(sig) ==
  IF services # << >> THEN event' = NoEvent /\ UNCHANGED <<services, sig_table, records>>
  ELSE nrsc5_report_sig(Table(sig))

(* find_port: the first data component of the port, if there is one.      *)
Matches(s, port) ==
  {c \in DOMAIN services[s].component :
     /\ services[s].component[c].kind = "data"
     /\ services[s].component[c].port = port}
Carrying(port) == {s \in DOMAIN services : Matches(s, port) # {}}
find_port(port) ==
  LET s == Min(Carrying(port)) IN services[s].component[Min(Matches(s, port))]

-----------------------------------------------------------------------------
(* A message of a port: output_aas_push and process_port.                  *)
SigMessage == parse_sig(onAir) /\ UNCHANGED <<onAir, hereVars>>

(* What the station says of a port decides what becomes of its messages;   *)
(* without a table, or a component of the port in it, nothing does.        *)
Reported(port) ==
  LET c == find_port(port)
      carried == Carrying(port) # {} /\ c.type \in {"stream", "image", "packet", "lot"}
  IN event' = IF carried THEN [table |-> c.ext, port |-> c.port, type |-> c.type]
              ELSE NoEvent

(* The ports the station's images come on.                                 *)
ImagePorts(sig) ==
  {e.port : e \in {x \in ToSet(sig) : x.entry = "data" /\ x.type = "image"}}

PortMessage(port) ==
  /\ port \notin ImagePorts(onAir)
  /\ Reported(port)
  /\ UNCHANGED <<onAir, services, sig_table, records, hereVars>>

(* A message of the port that carries images.                              *)
HereMessage(port, n) ==
  /\ port \in ImagePorts(onAir)
  /\ Reported(port)
  /\ IF event'.type = "image" THEN Arrives(n) ELSE Misses(n)
  /\ UNCHANGED <<onAir, services, sig_table, records>>

(* The ports of program data, which output_id3 takes, and unknown ports.   *)
OtherMessage(type) ==
  /\ event' = [NoEvent EXCEPT !.type = type]
  /\ UNCHANGED <<onAir, services, sig_table, records, hereVars>>

Lost(port, n) ==
  /\ port \in ImagePorts(onAir) /\ Misses(n) /\ event' = NoEvent
  /\ UNCHANGED <<onAir, services, sig_table, records>>

nrsc5_clear_sig == sig_table' = 0 /\ records' = records \ {sig_table}
aas_reset == nrsc5_clear_sig /\ services' = << >> /\ event' = NoEvent

(* output_reset, when synchronisation is lost or another station is tuned. *)
output_reset ==
  /\ aas_reset /\ here_images_reset
  /\ onAir' \in {onAir} \cup Retuned
  /\ line' = << >> /\ seq' \in 0..(SeqNums - 1) /\ UNCHANGED time
  /\ shown' = [i \in Images |-> 0] /\ due' = {} /\ UNCHANGED mixed
  /\ inRow' = 0 /\ lost' = 0

Init ==
  /\ onAir \in Sigs /\ services = << >> /\ sig_table = 0 /\ records = {}
  /\ event = NoEvent /\ HereInit

Next ==
  \/ SigMessage
  \/ \E port \in Ports : PortMessage(port)
  \/ \E port \in Ports, n \in 1..MaxChunk : HereMessage(port, n) \/ Lost(port, n)
  \/ \E type \in {"id3", "none"} : OtherMessage(type)
  \/ ImagePorts(onAir) # {} /\ \E tile \in Tiles : Air(tile) /\ UNCHANGED <<onAir, sigVars>>
  \/ output_reset

Spec == Init /\ [][Next]_vars

-----------------------------------------------------------------------------
(* Properties.                                                             *)

(* What a table announces, told without reading it from left to right: the *)
(* component entries up to the first bad entry, each of the service entry  *)
(* last before it, except those of a service or a component told again.    *)
Announced(sig) ==
  LET bad == SelectInSeq(sig, LAMBDA e : e.entry = "bad")
      read == 1..(IF bad = 0 THEN Len(sig) ELSE bad - 1)
      heads == {j \in read : sig[j].entry = "service"}
      entries == {j \in read : sig[j].entry \in {"data", "audio"}}
      Of(j) == Max({h \in heads : h < j})
      last == {j \in entries :
                 /\ \A h \in heads : h > Of(j) => sig[h].id # sig[Of(j)].id
                 /\ \A k \in entries : k > j /\ Of(k) = Of(j) => sig[k].id # sig[j].id}
  IN {[number |-> sig[Of(j)].id, id |-> sig[j].id, kind |-> sig[j].entry,
       port |-> sig[j].port, type |-> sig[j].type] : j \in last}

Fits(sig) ==
  LET heads == {j \in DOMAIN sig : sig[j].entry = "service"}
  IN /\ Cardinality({sig[h].id : h \in heads}) <= MAX_SIG_SERVICES
     /\ Cardinality({e.id : e \in {x \in ToSet(sig) : x.entry \in {"data", "audio"}}})
          <= MAX_SIG_COMPONENTS

(* The table says of every service and component what the station last     *)
(* said of it, and says nothing twice, so that find_port finds it.         *)
TableIsAnnounced ==
  services # << >> /\ Fits(onAir) =>
    /\ Announced(onAir) =
         UNION {{[number |-> services[s].number, id |-> c.id, kind |-> c.kind,
                  port |-> c.port, type |-> c.type] : c \in ToSet(services[s].component)}
                : s \in DOMAIN services}
    /\ \A s \in DOMAIN services :
         /\ IsInjective([t \in DOMAIN services |-> services[t].number])
         /\ IsInjective([c \in DOMAIN services[s].component |->
                           services[s].component[c].id])

(* The records of a table live as long as events point to them: they are   *)
(* those of every component, are freed with the table by every reset, and  *)
(* none are forgotten (nrsc5_t keeps one table).                           *)
RecordsLive ==
  /\ records = {sig_table} \ {0}
  /\ \A s \in DOMAIN services : \A c \in ToSet(services[s].component) :
       c.ext = sig_table
  /\ event.type \in {"stream", "image", "packet", "lot"} =>
       event.table \in records
=============================================================================
