----------------------------- MODULE MCLotFiles -----------------------------
(* Model values for LotFiles: two files that share an identifier, and      *)
(* others enough to overflow a cache of two slots.                         *)
EXTENDS LotFiles

File(lot, fragments, name) == [lot |-> lot, fragments |-> fragments, name |-> name]

a == File(1, 2, "a")
b == File(1, 1, "b")
c == File(2, 1, "c")
d == File(3, 1, "d")

MCFiles == {a, b, c, d}

MCLineups == {{a, c}, {b, d}, {a, d}}

(* Two files with one identifier, one after the other.                     *)
Namesakes == {a, b}

OneByOne == {{a}, {b}}

AllKinds == {"legal", "long", "short"}

OnlyLegal == {"legal"}
=============================================================================
