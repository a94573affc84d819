---------------------------- MODULE MCDataPorts ----------------------------
(***************************************************************************)
(* Every table of up to three entries after the first, of two services and *)
(* ports, with entries told twice; a table that fills up; and a table with *)
(* the port of the images, of a map of one tile, the weather, packets too  *)
(* short and maps that are too big.                                        *)
(***************************************************************************)
EXTENDS DataPorts

E(entry, id, port, type) == [entry |-> entry, id |-> id, port |-> port, type |-> type]
S(number) == E("service", number, 0, "none")

Entries ==
  {S(1), S(2), E("data", 0, 1, "packet"), E("data", 1, 2, "stream"),
   E("data", 0, 2, "lot"), E("audio", 0, 1, "none"), E("bad", 0, 0, "none")}

WithImages ==
  <<S(1), E("data", 0, 1, "other"), E("name", 0, 0, "none"), E("data", 1, 3, "image")>>

MCSigs ==
  {<<S(1)>> \o s : s \in UNION {[1..n -> Entries] : n \in 0..3}}
  \cup {<<S(1), S(2), S(3), E("data", 0, 1, "packet")>>,
        <<S(1), E("data", 0, 1, "packet"), E("data", 1, 2, "stream"),
          E("data", 2, 3, "lot"), S(2)>>,
        WithImages, <<S(1), E("data", 0, 3, "packet")>>}

MCRetuned == {WithImages, <<S(1), E("data", 0, 3, "packet")>>}

MCPacketLen == (0 :> 2) @@ (1 :> 3) @@ (2 :> 1)
=============================================================================
