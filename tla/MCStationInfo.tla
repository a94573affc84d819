--------------------------- MODULE MCStationInfo ----------------------------
(* Model values for StationInfo: two or three texts of each kind, and      *)
(* menus small enough that the kinds multiply only where they interact.    *)
EXTENDS StationInfo

Item(name, seq, parts) == [name |-> name, seq |-> seq, sound |-> TRUE, parts |-> parts]
Unsound(item) == [item EXCEPT !.sound = FALSE]

LongNames == {Item("p", 0, <<"p0", "p1">>), Item("q", 1, <<"q0", "q1", "q2">>)}
Messages ==
  {Item("m", 0, <<"m0", "m1">>), Item("n", 1, <<"n0", "n1">>),
   Unsound(Item("o", 2, <<"o0">>))}
Alerts ==
  {Item("a", 0, <<"a0", "a1">>), Item("-", 1, << >>),
   Item("b", 2, <<"b0", "b1">>), Item("-", 3, << >>)}

Service(category, program, type) ==
  [category |-> category, program |-> program, type |-> type]
Services ==
  {Item("s", 0, <<Service("audio", 0, "news"), Service("data", 0, "maps")>>),
   Item("t", 0, <<Service("audio", 0, "rock"), Service("audio", 1, "talk"),
                  Service("data", 0, "text"), Service("data", 0, "maps")>>),
   Item("u", 0, <<Service("other", 0, "none"), Service("data", 0, "epg")>>)}

(* The parameters of these indexes, all with the value v.                  *)
Setting(v, indexes) ==
  Item(v, 0, [k \in DOMAIN indexes |-> [index |-> indexes[k], value |-> v]])
Parameters ==
  {Setting("x", <<0, 1, 2>>), Setting("y", <<0, 1, 2>>), Setting("x", <<4, 5, 6, 7>>),
   Setting("x", <<3, 13>>)}

MCItems ==
  [station_id |-> {Item("i", 0, <<"i">>), Item("j", 0, <<"j">>)},
   short_name |-> {Item("k", 0, <<"k">>), Item("l", 0, <<"l">>)},
   long_name |-> LongNames,
   reserved |-> {Item("r", 0, <<"r">>)},
   location |-> {Item("here", 0, <<"lat1", "lon1">>), Item("there", 0, <<"lat2", "lon1">>),
                 Item("far", 0, <<"lat3", "lon3">>)},
   message |-> Messages,
   service |-> Services,
   parameter |-> Parameters,
   universal |-> {Item("v", 0, <<"v0", "v1">>), Item("w", 0, <<"w0", "w1">>)},
   slogan |-> {Item("g", 0, <<"g0", "g1">>), Item("h", 0, <<"h0">>)},
   alert |-> Alerts,
   unassigned |-> {Item("-", 0, <<"-">>)}]

MCMenus ==
  {{"long_name", "slogan"}, {"message", "reserved"}, {"alert", "station_id"},
   {"short_name", "universal"}, {"location", "unassigned"},
   {"service", "short_name"}, {"parameter"}}
=============================================================================
