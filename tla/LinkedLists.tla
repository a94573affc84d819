---------------------------- MODULE LinkedLists ----------------------------
(***************************************************************************)
(* Singly linked lists, as main.c and frame.c build them from records with *)
(* a next pointer: nx[b] is the pointer of node b, 0 the null pointer, and *)
(* a list is the sequence of the nodes met from its first one.             *)
(***************************************************************************)
EXTENDS Naturals, Sequences

NULL == 0

(* The node at place i of q, NULL past the end.                            *)
At(q, i) == IF i \in 1..Len(q) THEN q[i] ELSE NULL

(* Following nx from s visits the nodes of q in order and then ends.       *)
IsList(nx, s, q) ==
  /\ s = At(q, 1)
  /\ \A i \in 1..Len(q) : nx[q[i]] = At(q, i + 1)

Elements(q) == {q[i] : i \in 1..Len(q)}

NoRepeats(q) == \A i, j \in 1..Len(q) : q[i] = q[j] => i = j
=============================================================================
