------------------------- MODULE AudioBuffersProofs -------------------------
(***************************************************************************)
(* Theorems about AudioBuffers for every number of buffers, set of         *)
(* programs and way of starting the program.                               *)
(***************************************************************************)
EXTENDS AudioBuffers, FiniteSetTheorems, SequenceTheorems, TLAPS

(* Every non-empty set of natural numbers has a least element: inclusion   *)
(* is well-founded on the sets 0..k.  Proofs by induction use it on the    *)
(* places where a claim fails.                                             *)
LEMMA LeastNat ==
  ASSUME NEW D \in SUBSET Nat, D # {}
  PROVE  \E m \in D : \A k \in D : m <= k
<1> DEFINE R == StrictSubsetOrdering(Nat)
           F == FiniteSubsetsOf(Nat)
           T == {0..k : k \in D}
<1>1. \A k \in Nat : 0..k \in F
  BY FS_Interval, 0 \in Int, Nat \subseteq Int DEF FiniteSubsetsOf
<1>2. \A k, m \in Nat : k < m => <<0..k, 0..m>> \in R
  <2> TAKE k, m \in Nat
  <2>1. k < m => 0..k \subseteq 0..m /\ m \in 0..m /\ m \notin 0..k OBVIOUS
  <2> QED BY <2>1, 0..k \subseteq Nat, 0..m \subseteq Nat DEF StrictSubsetOrdering
<1>3. IsWellFoundedOn(R, F) BY FS_StrictSubsetOrderingWellFounded
<1>4. T \subseteq F /\ T # {} BY <1>1
<1> HIDE DEF R, F, T
<1>5. \E x \in T : \A y \in T : <<y, x>> \notin R
  BY <1>3, <1>4, WFMin
<1>6. PICK m \in D : \A k \in D : <<0..k, 0..m>> \notin R
  BY <1>5 DEF T
<1>7. \A k \in D : ~(k < m) BY <1>2, <1>6
<1> QED BY <1>7

-----------------------------------------------------------------------------
(* Lists threaded through pointers.                                        *)

(* Where a list begins and ends: the first pointer is NULL exactly for the *)
(* empty list, and is otherwise its first node.                            *)
LEMMA ListEnds ==
  ASSUME NEW B, NULL \notin B, NEW nx, NEW s, NEW q \in Seq(B), IsList(nx, s, q)
  PROVE  /\ Len(q) \in Nat
         /\ s = NULL <=> q = <<>>
         /\ s # NULL => Len(q) >= 1 /\ s = q[1] /\ s \in B /\ s \in Elements(q)
         /\ At(q, Len(q)) = NULL <=> q = <<>>
         /\ q # <<>> => At(q, Len(q)) = q[Len(q)]
<1>0. Len(q) \in Nat BY LenProperties
<1>1. CASE q = <<>>
  <2>1. Len(q) = 0 BY <1>1, EmptySeq
  <2> QED BY <1>1, <2>1 DEF IsList, At
<1>2. CASE q # <<>>
  <2>1. Len(q) \in Nat /\ Len(q) >= 1 BY <1>0, <1>2, EmptySeq
  <2>2. q[1] \in B /\ q[Len(q)] \in B BY <2>1, ElementOfSeq
  <2>3. q[1] \in Elements(q) BY <2>1 DEF Elements
  <2>4. s = q[1] BY <2>1 DEF IsList, At
  <2>5. At(q, Len(q)) = q[Len(q)] BY <2>1 DEF At
  <2> QED BY <1>2, <2>1, <2>2, <2>3, <2>4, <2>5
<1> QED BY <1>1, <1>2

(* A list does not depend on the pointers of the nodes outside it.         *)
LEMMA ListFrame ==
  ASSUME NEW q, NEW nx, NEW ny, NEW s, IsList(nx, s, q),
         \A b \in Elements(q) : ny[b] = nx[b]
  PROVE  IsList(ny, s, q)
BY DEF IsList, Elements

(* Unlinking the first node (main.c 148-149, 665-669).                     *)
LEMMA ListTail ==
  ASSUME NEW B, NULL \notin B, NEW nx, NEW s, NEW q \in Seq(B),
         IsList(nx, s, q), NoRepeats(q), s # NULL
  PROVE  /\ Tail(q) \in Seq(B)
         /\ Len(Tail(q)) = Len(q) - 1
         /\ IsList(nx, nx[s], Tail(q))
         /\ NoRepeats(Tail(q))
         /\ Elements(Tail(q)) = Elements(q) \ {s}
         /\ At(Tail(q), Len(Tail(q))) = IF nx[s] = NULL THEN NULL ELSE At(q, Len(q))
<1>1. Len(q) \in Nat /\ Len(q) >= 1 /\ s = q[1] /\ q # <<>> BY ListEnds
<1>2. PICK r : r = Tail(q) OBVIOUS
<1>3. /\ r \in Seq(B) /\ Len(r) = Len(q) - 1
      /\ \A i \in 1..Len(r) : r[i] = q[i + 1]
  BY <1>1, <1>2, HeadTailProperties
<1>4. \A i \in 1..Len(q) : nx[q[i]] = At(q, i + 1) BY DEF IsList
<1>5. \A i \in Nat \ {0} : At(r, i) = At(q, i + 1)
  BY <1>1, <1>3 DEF At
<1>6. IsList(nx, nx[s], r)
  <2>1. nx[s] = At(r, 1) BY <1>1, <1>4, <1>5
  <2>2. ASSUME NEW i \in 1..Len(r) PROVE nx[r[i]] = At(r, i + 1)
    <3>1. i \in Nat \ {0} /\ i + 1 \in Nat \ {0} /\ i + 1 \in 1..Len(q)
      BY <1>1, <1>3
    <3>2. r[i] = q[i + 1] BY <1>3
    <3>3. nx[q[i + 1]] = At(q, (i + 1) + 1) BY <1>4, <3>1
    <3>4. At(r, i + 1) = At(q, (i + 1) + 1) BY <1>5, <3>1
    <3> QED BY <3>2, <3>3, <3>4
  <2> QED BY <2>1, <2>2 DEF IsList
<1>7. NoRepeats(r)
  <2> SUFFICES ASSUME NEW i \in 1..Len(r), NEW j \in 1..Len(r), r[i] = r[j]
               PROVE  i = j
    BY DEF NoRepeats
  <2>1. i + 1 \in 1..Len(q) /\ j + 1 \in 1..Len(q) BY <1>1, <1>3
  <2>2. q[i + 1] = q[j + 1] BY <1>3
  <2>3. i + 1 = j + 1 BY <2>1, <2>2 DEF NoRepeats
  <2> QED BY <2>3, <1>1, <1>3
<1>8. Elements(r) = Elements(q) \ {s}
  <2>1. ASSUME NEW i \in 1..Len(r) PROVE r[i] \in Elements(q) /\ r[i] # s
    <3>1. i + 1 \in 1..Len(q) /\ r[i] = q[i + 1] /\ 1 \in 1..Len(q) /\ i + 1 # 1
      BY <1>1, <1>3
    <3>2. q[i + 1] # q[1] BY <3>1 DEF NoRepeats
    <3> QED BY <3>1, <3>2, <1>1 DEF Elements
  <2>2. ASSUME NEW i \in 1..Len(q), q[i] # s PROVE q[i] \in Elements(r)
    <3>1. i # 1 BY <2>2, <1>1
    <3>2. i - 1 \in 1..Len(r) /\ (i - 1) + 1 = i BY <3>1, <1>1, <1>3
    <3>3. r[i - 1] = q[i] BY <3>2, <1>3
    <3> QED BY <3>2, <3>3 DEF Elements
  <2> QED BY <2>1, <2>2 DEF Elements
<1>9. At(r, Len(r)) = IF nx[s] = NULL THEN NULL ELSE At(q, Len(q))
  <2>1. CASE Len(q) = 1
    <3>1. Len(r) = 0 BY <2>1, <1>3
    <3>2. 1 \in 1..Len(q) /\ ~(1 + 1 \in 1..Len(q)) BY <2>1
    <3>3. nx[s] = At(q, 1 + 1) BY <3>2, <1>1, <1>4
    <3>4. nx[s] = NULL BY <3>2, <3>3 DEF At
    <3>5. ~(Len(r) \in 1..Len(r)) BY <3>1
    <3> QED BY <3>4, <3>5 DEF At
  <2>2. CASE Len(q) > 1
    <3>1. Len(r) \in Nat \ {0} /\ Len(r) + 1 = Len(q) BY <2>2, <1>1, <1>3
    <3>2. At(r, Len(r)) = At(q, Len(q)) BY <3>1, <1>5
    <3>3. 1 \in 1..Len(q) /\ 2 \in 1..Len(q) BY <2>2, <1>1
    <3>4. q[2] \in B BY <3>3, ElementOfSeq
    <3>5. nx[q[1]] = At(q, 1 + 1) BY <3>3, <1>4
    <3>6. At(q, 1 + 1) = q[2] BY <3>3 DEF At
    <3>7. nx[s] # NULL BY <3>4, <3>5, <3>6, <1>1
    <3> QED BY <3>2, <3>7
  <2>3. \A n \in Nat : n >= 1 => n = 1 \/ n > 1 OBVIOUS
  <2>4. Len(q) = 1 \/ Len(q) > 1 BY <1>1, <2>3
  <2> QED BY <2>1, <2>2, <2>4
<1> QED BY <1>2, <1>3, <1>6, <1>7, <1>8, <1>9

(* With the pointers nx, q and r are disjoint lists of nodes of B from h   *)
(* and s, and ny hangs the second on the last node of the first.           *)
Hung(B, nx, ny, h, q, s, r) ==
  /\ NULL \notin B /\ q \in Seq(B) /\ r \in Seq(B)
  /\ IsList(nx, h, q) /\ NoRepeats(q) /\ h # NULL
  /\ IsList(nx, s, r) /\ NoRepeats(r)
  /\ Elements(q) \cap Elements(r) = {}
  /\ ny[q[Len(q)]] = s
  /\ \A b \in B : b # q[Len(q)] => ny[b] = nx[b]

(* Hanging one list on the last node of another (main.c 117-122, 302-305). *)
LEMMA ListConcat ==
  ASSUME NEW B, NEW nx, NEW ny, NEW h, NEW q, NEW s, NEW r,
         Hung(B, nx, ny, h, q, s, r)
  PROVE  /\ q \o r \in Seq(B)
         /\ Len(q \o r) = Len(q) + Len(r)
         /\ IsList(ny, h, q \o r)
         /\ NoRepeats(q \o r)
         /\ Elements(q \o r) = Elements(q) \cup Elements(r)
         /\ r # <<>> => At(q \o r, Len(q \o r)) = At(r, Len(r))
<1>0. /\ NULL \notin B /\ q \in Seq(B) /\ r \in Seq(B)
      /\ IsList(nx, h, q) /\ NoRepeats(q) /\ h # NULL
      /\ IsList(nx, s, r) /\ NoRepeats(r)
      /\ Elements(q) \cap Elements(r) = {}
      /\ ny[q[Len(q)]] = s
      /\ \A b \in B : b # q[Len(q)] => ny[b] = nx[b]
  BY DEF Hung
<1> USE <1>0
<1>1. /\ Len(q) \in Nat /\ Len(q) >= 1 /\ h = q[1] /\ Len(r) \in Nat
  BY ListEnds, LenProperties
<1>2. PICK c : c = q \o r OBVIOUS
<1>3. /\ c \in Seq(B) /\ Len(c) = Len(q) + Len(r)
      /\ \A i \in 1..Len(q) + Len(r) :
           c[i] = IF i <= Len(q) THEN q[i] ELSE r[i - Len(q)]
  BY <1>2, ConcatProperties
<1>4. \A i \in 1..Len(q) : q[i] \in B /\ i \in 1..Len(c) /\ c[i] = q[i]
  BY <1>1, <1>3, ElementOfSeq
<1>5. \A i \in 1..Len(r) :
        r[i] \in B /\ Len(q) + i \in 1..Len(c) /\ c[Len(q) + i] = r[i]
  <2> TAKE i \in 1..Len(r)
  <2>1. r[i] \in B BY ElementOfSeq
  <2>2. /\ Len(q) + i \in 1..Len(q) + Len(r) /\ ~(Len(q) + i <= Len(q))
        /\ (Len(q) + i) - Len(q) = i
    BY <1>1
  <2> QED BY <2>1, <2>2, <1>3
<1>6. \A i \in 1..Len(c) :
        i \in 1..Len(q) \/ (\E j \in 1..Len(r) : i = Len(q) + j)
  <2> TAKE i \in 1..Len(c)
  <2>1. CASE i <= Len(q) BY <2>1, <1>1
  <2>2. CASE i > Len(q)
    <3>1. i - Len(q) \in 1..Len(r) /\ i = Len(q) + (i - Len(q))
      BY <2>2, <1>1, <1>3
    <3> QED BY <3>1
  <2> QED BY <2>1, <2>2, <1>1, <1>3
<1>7. \A i \in 1..Len(q) : \A j \in 1..Len(r) : q[i] # r[j]
  BY DEF Elements
<1>8. Elements(c) = Elements(q) \cup Elements(r)
  <2>1. \A i \in 1..Len(c) : c[i] \in Elements(q) \cup Elements(r)
    <3> TAKE i \in 1..Len(c)
    <3>1. CASE i \in 1..Len(q) BY <3>1, <1>4 DEF Elements
    <3>2. ASSUME NEW j \in 1..Len(r), i = Len(q) + j
          PROVE  c[i] \in Elements(r)
      BY <3>2, <1>5 DEF Elements
    <3> QED BY <3>1, <3>2, <1>6
  <2>2. \A i \in 1..Len(q) : q[i] \in Elements(c) BY <1>4 DEF Elements
  <2>3. \A i \in 1..Len(r) : r[i] \in Elements(c) BY <1>5 DEF Elements
  <2> QED BY <2>1, <2>2, <2>3 DEF Elements
<1>9. NoRepeats(c)
  <2> SUFFICES ASSUME NEW i \in 1..Len(c), NEW j \in 1..Len(c), c[i] = c[j]
               PROVE  i = j
    BY DEF NoRepeats
  <2>1. CASE i \in 1..Len(q) /\ j \in 1..Len(q)
    BY <2>1, <1>4 DEF NoRepeats
  <2>2. ASSUME NEW k \in 1..Len(r), NEW l \in 1..Len(r),
               i = Len(q) + k, j = Len(q) + l
        PROVE  i = j
    BY <2>2, <1>5 DEF NoRepeats
  <2>3. ASSUME i \in 1..Len(q), NEW l \in 1..Len(r), j = Len(q) + l
        PROVE  FALSE
    BY <2>3, <1>4, <1>5, <1>7
  <2>4. ASSUME j \in 1..Len(q), NEW k \in 1..Len(r), i = Len(q) + k
        PROVE  FALSE
    BY <2>4, <1>4, <1>5, <1>7
  <2> QED BY <2>1, <2>2, <2>3, <2>4, <1>6
<1>10. IsList(ny, h, c)
  <2>1. h = At(c, 1)
    <3>1. 1 \in 1..Len(q) BY <1>1
    <3>2. 1 \in 1..Len(c) /\ c[1] = q[1] BY <3>1, <1>4
    <3> QED BY <3>2, <1>1 DEF At
  <2>2. ASSUME NEW i \in 1..Len(q), i # Len(q) PROVE ny[c[i]] = At(c, i + 1)
    <3>1. i + 1 \in 1..Len(q) /\ Len(q) \in 1..Len(q) BY <2>2, <1>1
    <3>2. q[i] # q[Len(q)] BY <2>2, <3>1 DEF NoRepeats
    <3>3. ny[q[i]] = nx[q[i]] BY <3>2, <1>4
    <3>4. nx[q[i]] = q[i + 1] BY <3>1 DEF IsList, At
    <3>5. At(c, i + 1) = q[i + 1] BY <3>1, <1>4 DEF At
    <3> QED BY <3>3, <3>4, <3>5, <1>4
  <2>3. ny[c[Len(q)]] = At(c, Len(q) + 1)
    <3>1. Len(q) \in 1..Len(q) BY <1>1
    <3>2. c[Len(q)] = q[Len(q)] /\ q[Len(q)] \in B BY <3>1, <1>4
    <3>3. ny[c[Len(q)]] = s BY <3>2
    <3>4. s = At(r, 1) BY DEF IsList
    <3>5. At(r, 1) = At(c, Len(q) + 1)
      <4>1. CASE Len(r) = 0
        <5>1. ~(Len(q) + 1 \in 1..Len(c)) /\ ~(1 \in 1..Len(r))
          BY <4>1, <1>1, <1>3
        <5> QED BY <5>1 DEF At
      <4>2. CASE Len(r) # 0
        <5>1. 1 \in 1..Len(r) BY <4>2, <1>1
        <5> QED BY <5>1, <1>5 DEF At
      <4> QED BY <4>1, <4>2
    <3> QED BY <3>3, <3>4, <3>5
  <2>4. ASSUME NEW j \in 1..Len(r)
        PROVE  ny[c[Len(q) + j]] = At(c, (Len(q) + j) + 1)
    <3>1. Len(q) \in 1..Len(q) BY <1>1
    <3>2. c[Len(q) + j] = r[j] /\ r[j] \in B BY <1>5
    <3>3. r[j] # q[Len(q)] BY <3>1, <1>7
    <3>4. ny[r[j]] = nx[r[j]] BY <3>2, <3>3
    <3>5. nx[r[j]] = At(r, j + 1) BY DEF IsList
    <3>6. At(r, j + 1) = At(c, (Len(q) + j) + 1)
      <4>1. CASE j = Len(r)
        <5>1. ~((Len(q) + j) + 1 \in 1..Len(c)) /\ ~(j + 1 \in 1..Len(r))
          BY <4>1, <1>1, <1>3
        <5> QED BY <5>1 DEF At
      <4>2. CASE j # Len(r)
        <5>1. j + 1 \in 1..Len(r) BY <4>2, <1>1
        <5>2. Len(q) + (j + 1) = (Len(q) + j) + 1 BY <1>1
        <5>3. Len(q) + (j + 1) \in 1..Len(c) /\ c[Len(q) + (j + 1)] = r[j + 1]
          BY <5>1, <1>5
        <5> QED BY <5>1, <5>2, <5>3 DEF At
      <4> QED BY <4>1, <4>2
    <3> QED BY <3>2, <3>4, <3>5, <3>6
  <2> QED BY <2>1, <2>2, <2>3, <2>4, <1>6 DEF IsList
<1>11. ASSUME r # <<>> PROVE At(c, Len(c)) = At(r, Len(r))
  <2>1. Len(r) \in 1..Len(r) BY <1>1, <1>11, EmptySeq
  <2>2. Len(c) \in 1..Len(c) /\ c[Len(c)] = r[Len(r)] BY <2>1, <1>3, <1>5
  <2> QED BY <2>1, <2>2 DEF At
<1> QED BY <1>2, <1>3, <1>8, <1>9, <1>10, <1>11

(* The one-node list, and the node it may become the last node of.         *)
LEMMA ListOne ==
  ASSUME NEW B, NEW b \in B, NEW nx, nx[b] = NULL
  PROVE  /\ <<b>> \in Seq(B) /\ Len(<<b>>) = 1 /\ <<b>>[1] = b
         /\ IsList(nx, b, <<b>>) /\ NoRepeats(<<b>>) /\ Elements(<<b>>) = {b}
         /\ At(<<b>>, Len(<<b>>)) = b
<1>1. <<b>> \in Seq(B) /\ Len(<<b>>) = 1 /\ <<b>>[1] = b OBVIOUS
<1>2. 1..Len(<<b>>) = {1} BY <1>1
<1> QED BY <1>1, <1>2 DEF IsList, At, NoRepeats, Elements

(* Two lists from the same first node are the same list.                   *)
LEMMA ListUnique ==
  ASSUME NEW B, NULL \notin B, NEW nx, NEW s,
         NEW q \in Seq(B), IsList(nx, s, q),
         NEW r \in Seq(B), IsList(nx, s, r)
  PROVE  q = r
<1>1. Len(q) \in Nat /\ Len(r) \in Nat BY LenProperties
<1>2. \A i \in Nat : At(q, i) = NULL <=> i \notin 1..Len(q)
  BY ElementOfSeq DEF At
<1>3. \A i \in Nat : At(r, i) = NULL <=> i \notin 1..Len(r)
  BY ElementOfSeq DEF At
<1>4. \A i \in Nat \ {0} : At(q, i) = At(r, i)
  <2> DEFINE D == {i \in Nat \ {0} : At(q, i) # At(r, i)}
  <2> SUFFICES ASSUME D # {} PROVE FALSE OBVIOUS
  <2>1. PICK m \in D : \A k \in D : m <= k BY LeastNat
  <2>2. At(q, 1) = At(r, 1) BY DEF IsList
  <2>3. m # 1 /\ m \in Nat BY <2>1, <2>2
  <2>4. m - 1 \in Nat \ {0} /\ ~(m <= m - 1) /\ (m - 1) + 1 = m
    BY <2>1, <2>3
  <2>5. At(q, m - 1) = At(r, m - 1) BY <2>1, <2>4
  <2>6. CASE At(q, m - 1) = NULL
    <3>1. m - 1 \notin 1..Len(q) /\ m - 1 \notin 1..Len(r)
      BY <2>4, <2>5, <2>6, <1>2, <1>3
    <3>2. m \notin 1..Len(q) /\ m \notin 1..Len(r) BY <3>1, <2>4, <1>1
    <3> QED BY <3>2, <2>1 DEF At
  <2>7. CASE At(q, m - 1) # NULL
    <3>1. m - 1 \in 1..Len(q) /\ m - 1 \in 1..Len(r)
      BY <2>4, <2>5, <2>7, <1>2, <1>3
    <3>2. q[m - 1] = r[m - 1] BY <3>1, <2>5 DEF At
    <3>3. nx[q[m - 1]] = At(q, m) BY <3>1, <2>4 DEF IsList
    <3>4. nx[r[m - 1]] = At(r, m) BY <3>1, <2>4 DEF IsList
    <3> QED BY <3>2, <3>3, <3>4, <2>1
  <2> QED BY <2>6, <2>7
<1>5. Len(q) = Len(r)
  <2>1. Len(q) + 1 \in Nat \ {0} /\ Len(r) + 1 \in Nat \ {0} BY <1>1
  <2>2. At(r, Len(q) + 1) = NULL BY <2>1, <1>1, <1>4 DEF At
  <2>3. At(q, Len(r) + 1) = NULL BY <2>1, <1>1, <1>4 DEF At
  <2>4. Len(q) + 1 \notin 1..Len(r) BY <2>1, <2>2, <1>3
  <2>5. Len(r) + 1 \notin 1..Len(q) BY <2>1, <2>3, <1>2
  <2> QED BY <2>4, <2>5, <1>1
<1>6. \A i \in 1..Len(q) : q[i] = r[i]
  <2> TAKE i \in 1..Len(q)
  <2>1. i \in Nat \ {0} /\ i \in 1..Len(r) BY <1>1, <1>5
  <2> QED BY <2>1, <1>4 DEF At
<1> QED BY <1>5, <1>6, SeqEqual

(* What appending a node, or leaving out the first one, does to the nodes. *)
LEMMA AppendElements ==
  ASSUME NEW B, NEW q \in Seq(B), NEW b \in B
  PROVE  Elements(Append(q, b)) = Elements(q) \cup {b}
<1>1. PICK r : r = Append(q, b) OBVIOUS
<1>2. /\ Len(q) \in Nat /\ Len(r) = Len(q) + 1 /\ r[Len(q) + 1] = b
      /\ \A i \in 1..Len(q) : r[i] = q[i]
  BY <1>1, AppendProperties, LenProperties
<1>3. 1..Len(r) = 1..Len(q) \cup {Len(q) + 1} BY <1>2
<1>4. Elements(r) = Elements(q) \cup {b} BY <1>2, <1>3, Zenon DEF Elements
<1> QED BY <1>1, <1>4

LEMMA TailElements ==
  ASSUME NEW B, NEW q \in Seq(B), q # <<>>
  PROVE  Elements(Tail(q)) \subseteq Elements(q)
<1>1. PICK r : r = Tail(q) OBVIOUS
<1>2. /\ Len(q) \in Nat /\ Len(r) = Len(q) - 1
      /\ \A i \in 1..Len(r) : r[i] = q[i + 1]
  BY <1>1, HeadTailProperties, LenProperties
<1>3. \A i \in 1..Len(r) : i + 1 \in 1..Len(q) BY <1>2
<1>4. Elements(r) \subseteq Elements(q) BY <1>2, <1>3 DEF Elements
<1> QED BY <1>1, <1>4

USE DEF Buffers, NULL, MUTE

(* Appending a free buffer (main.c 148-161) keeps the types of the pool.   *)
LEMMA EnqueueTypes ==
  ASSUME PoolTypeOK, asleep \in SUBSET {"producer", "consumer"},
         NEW p \in Programs \cup {MUTE}, Enqueue(p)
  PROVE  /\ next' \in [Buffers -> Buffers \cup {NULL}]
         /\ head' \in Buffers \cup {NULL}
         /\ tail' \in Buffers \cup {NULL}
         /\ free' \in Buffers \cup {NULL}
         /\ samples' \in [Buffers -> Programs \cup {MUTE}]
         /\ asleep' \in SUBSET {"producer", "consumer"}
<1> USE PoolAssumption DEF PoolTypeOK
<1>1. free \in Buffers BY DEF Enqueue
<1>2. [next EXCEPT ![free] = NULL] \in [Buffers -> Buffers \cup {NULL}]
  BY <1>1
<1>3. next' \in [Buffers -> Buffers \cup {NULL}]
  <2>1. CASE tail = NULL BY <1>2, <2>1 DEF Enqueue
  <2>2. CASE tail # NULL
    <3>1. next' = [[next EXCEPT ![free] = NULL] EXCEPT ![tail] = free]
      BY <2>2 DEF Enqueue
    <3> QED BY <1>1, <1>2, <3>1, <2>2
  <2> QED BY <2>1, <2>2
<1>4. head' \in Buffers \cup {NULL} /\ tail' \in Buffers \cup {NULL}
  BY <1>1 DEF Enqueue
<1>5. free' \in Buffers \cup {NULL} BY <1>1 DEF Enqueue
<1>6. samples' \in [Buffers -> Programs \cup {MUTE}] BY <1>1 DEF Enqueue
<1>7. asleep' \in SUBSET {"producer", "consumer"} BY DEF Enqueue, Signal
<1> QED BY <1>3, <1>4, <1>5, <1>6, <1>7

(* Types hold at the start and every step keeps them.                      *)
LEMMA TypeInit == Init => TypeOK
<1> USE PoolAssumption, ProgramsAssumption, ChunkAssumption, ModesAssumption
<1> SUFFICES ASSUME Init PROVE TypeOK OBVIOUS
<1>1. PoolTypeOK BY DEF Init, PoolTypeOK
<1>2. mode \in ModeSet /\ done \in BOOLEAN BY DEF Init
<1>3. prod \in {"check", "decode"} /\ keys \in {"check", "exit"} BY DEF Init
<1>4. ThreadTypeOK BY <1>2, <1>3 DEF Init, ThreadTypeOK
<1> QED BY <1>1, <1>4 DEF TypeOK

LEMMA TypeStep ==
  ASSUME PoolTypeOK, ThreadTypeOK, [Next]_vars PROVE TypeOK'
<1> USE PoolAssumption, ProgramsAssumption, ChunkAssumption, ModesAssumption
<1> USE DEF PoolTypeOK, ThreadTypeOK, lists, producer, consumer, Signal,
            Sleep, DoneSignal
<1>1. ASSUME NEW p \in Programs, PushAudio(p) PROVE TypeOK'
  <2>1. Enqueue(p) BY <1>1 DEF PushAudio
  <2>2. PoolTypeOK' BY <1>1, <2>1, EnqueueTypes DEF PushAudio
  <2>3. ThreadTypeOK' BY <1>1, <2>1, EnqueueTypes DEF PushAudio
  <2> QED BY <2>2, <2>3 DEF TypeOK
<1>2. ASSUME NEW p \in Programs, PushWaits(p) PROVE TypeOK'
  <2>1. PoolTypeOK' BY <1>2 DEF PushWaits
  <2>2. ThreadTypeOK' BY <1>2 DEF PushWaits
  <2> QED BY <2>1, <2>2 DEF TypeOK
<1>3. ASSUME NEW p \in Programs, PushSkips(p) PROVE TypeOK'
  <2>1. PoolTypeOK' BY <1>3 DEF PushSkips
  <2>2. ThreadTypeOK' BY <1>3 DEF PushSkips
  <2> QED BY <2>1, <2>2 DEF TypeOK
<1>4. ASSUME NEW p \in Programs, PressDigit(p) PROVE TypeOK'
  <2>1. PoolTypeOK' BY <1>4 DEF PressDigit, ChangeProgram
  <2>2. ThreadTypeOK' BY <1>4 DEF PressDigit, ChangeProgram
  <2> QED BY <2>1, <2>2 DEF TypeOK
<1>5. CASE PushResumes
  <2>1. PoolTypeOK'
    <3>1. CASE UNCHANGED <<lists, samples>> BY <1>5, <3>1 DEF PushResumes
    <3>2. CASE Enqueue(pushing) BY <1>5, <3>2, EnqueueTypes DEF PushResumes
    <3> QED BY <1>5, <3>1, <3>2 DEF PushResumes
  <2>2. asleep' \in SUBSET {"producer", "consumer"}
    <3>1. CASE Sleep("producer") BY <3>1
    <3>2. CASE Enqueue(pushing) BY <3>2, EnqueueTypes
    <3> QED BY <1>5, <3>1, <3>2 DEF PushResumes
  <2>3. prod' \in {"push", "decode"} /\ pushing' \in Programs \cup {MUTE}
    BY <1>5 DEF PushResumes
  <2>4. UNCHANGED <<mode, program, done, left, cons, keys, main>>
    BY <1>5 DEF PushResumes
  <2>5. ThreadTypeOK' BY <2>2, <2>3, <2>4
  <2> QED BY <2>1, <2>5 DEF TypeOK
<1>6. CASE ReadChunk
  <2>1. PoolTypeOK' BY <1>6 DEF ReadChunk
  <2>2. ThreadTypeOK' BY <1>6 DEF ReadChunk
  <2> QED BY <2>1, <2>2 DEF TypeOK
<1>7. CASE EndChunk
  <2>1. PoolTypeOK' BY <1>7 DEF EndChunk
  <2>2. ThreadTypeOK' BY <1>7 DEF EndChunk
  <2> QED BY <2>1, <2>2 DEF TypeOK
<1>8. CASE LeaveLoop
  <2>1. PoolTypeOK' BY <1>8 DEF LeaveLoop
  <2>2. ThreadTypeOK' BY <1>8 DEF LeaveLoop
  <2> QED BY <2>1, <2>2 DEF TypeOK
<1>9. CASE EndOfInput
  <2>1. PoolTypeOK' BY <1>9 DEF EndOfInput
  <2>2. ThreadTypeOK' BY <1>9 DEF EndOfInput
  <2> QED BY <2>1, <2>2 DEF TypeOK
<1>10. CASE LoseDevice
  <2>1. PoolTypeOK' BY <1>10 DEF LoseDevice
  <2>2. ThreadTypeOK' BY <1>10 DEF LoseDevice
  <2> QED BY <2>1, <2>2 DEF TypeOK
<1>11. CASE TakeBuffer
  <2>1. PoolTypeOK' BY <1>11 DEF TakeBuffer
  <2>2. ThreadTypeOK' BY <1>11 DEF TakeBuffer
  <2> QED BY <2>1, <2>2 DEF TypeOK
<1>12. CASE WaitForAudio
  <2>1. PoolTypeOK' BY <1>12 DEF WaitForAudio
  <2>2. ThreadTypeOK' BY <1>12 DEF WaitForAudio
  <2> QED BY <2>1, <2>2 DEF TypeOK
<1>13. CASE LeaveAudio
  <2>1. PoolTypeOK' BY <1>13 DEF LeaveAudio
  <2>2. ThreadTypeOK' BY <1>13 DEF LeaveAudio
  <2> QED BY <2>1, <2>2 DEF TypeOK
<1>14. CASE ReleaseBuffer
  <2>1. PoolTypeOK' BY <1>14 DEF ReleaseBuffer
  <2>2. ThreadTypeOK' BY <1>14 DEF ReleaseBuffer
  <2> QED BY <2>1, <2>2 DEF TypeOK
<1>15. CASE CheckDone
  <2>1. PoolTypeOK' BY <1>15 DEF CheckDone
  <2>2. ThreadTypeOK' BY <1>15 DEF CheckDone
  <2> QED BY <2>1, <2>2 DEF TypeOK
<1>16. CASE NoKey
  <2>1. PoolTypeOK' BY <1>16 DEF NoKey
  <2>2. ThreadTypeOK' BY <1>16 DEF NoKey
  <2> QED BY <2>1, <2>2 DEF TypeOK
<1>17. CASE PollError
  <2>1. PoolTypeOK' BY <1>17 DEF PollError
  <2>2. ThreadTypeOK' BY <1>17 DEF PollError
  <2> QED BY <2>1, <2>2 DEF TypeOK
<1>18. CASE PressQ
  <2>1. PoolTypeOK' BY <1>18 DEF PressQ
  <2>2. ThreadTypeOK' BY <1>18 DEF PressQ
  <2> QED BY <2>1, <2>2 DEF TypeOK
<1>19. CASE QuitReset
  <2>1. PoolTypeOK' BY <1>19 DEF QuitReset, ChangeProgram
  <2>2. ThreadTypeOK' BY <1>19 DEF QuitReset, ChangeProgram
  <2> QED BY <2>1, <2>2 DEF TypeOK
<1>20. CASE JoinAudio
  <2>1. PoolTypeOK' BY <1>20 DEF JoinAudio
  <2>2. ThreadTypeOK' BY <1>20 DEF JoinAudio
  <2> QED BY <2>1, <2>2 DEF TypeOK
<1>21. CASE JoinInput
  <2>1. PoolTypeOK' BY <1>21 DEF JoinInput
  <2>2. ThreadTypeOK' BY <1>21 DEF JoinInput
  <2> QED BY <2>1, <2>2 DEF TypeOK
<1>22. CASE StopLibrary
  <2>1. PoolTypeOK' BY <1>22 DEF StopLibrary
  <2>2. ThreadTypeOK' BY <1>22 DEF StopLibrary
  <2> QED BY <2>1, <2>2 DEF TypeOK
<1>23. CASE ResetAudioBuffers
  <2>1. PoolTypeOK' BY <1>23 DEF ResetAudioBuffers
  <2>2. ThreadTypeOK' BY <1>23 DEF ResetAudioBuffers
  <2> QED BY <2>1, <2>2 DEF TypeOK
<1>24. CASE FreeBuffer
  <2>1. PoolTypeOK' BY <1>24 DEF FreeBuffer
  <2>2. ThreadTypeOK' BY <1>24 DEF FreeBuffer
  <2> QED BY <2>1, <2>2 DEF TypeOK
<1>25. CASE Exit
  <2>1. PoolTypeOK' BY <1>25 DEF Exit
  <2>2. ThreadTypeOK' BY <1>25 DEF Exit
  <2> QED BY <2>1, <2>2 DEF TypeOK
<1>26. CASE SpuriousWakeup
  <2>1. PoolTypeOK' BY <1>26 DEF SpuriousWakeup
  <2>2. ThreadTypeOK' BY <1>26 DEF SpuriousWakeup
  <2> QED BY <2>1, <2>2 DEF TypeOK
<1>27. CASE UNCHANGED vars
  <2>1. PoolTypeOK' BY <1>27 DEF vars
  <2>2. ThreadTypeOK' BY <1>27 DEF vars
  <2> QED BY <2>1, <2>2 DEF TypeOK
<1> HIDE DEF PoolTypeOK, ThreadTypeOK
<1> QED
  BY <1>1, <1>2, <1>3, <1>4, <1>5, <1>6, <1>7, <1>8, <1>9, <1>10,
     <1>11, <1>12, <1>13, <1>14, <1>15, <1>16, <1>17, <1>18, <1>19,
     <1>20, <1>21, <1>22, <1>23, <1>24, <1>25, <1>26, <1>27
  DEF Next, Produce, Consume, Keyboard, Main, Environment, Terminated

-----------------------------------------------------------------------------
(* The pool.  Room counts the buffers on the two lists, which is what      *)
(* keeps both inside Lists; HeldInv says that audio_main has a buffer in   *)
(* hand exactly while it plays.                                            *)

Room(q, f) ==
  Len(q) + Len(f) + (IF held = NULL THEN 0 ELSE 1) <= AUDIO_BUFFERS

HeldInv == cons = "play" <=> held # NULL

Pool(q, f) == Partition(q, f) /\ Room(q, f)

PoolInv == \E q, f \in Seq(Buffers) : Pool(q, f)

(* Lists, which the model checker enumerates, are the sequences of buffers *)
(* no longer than the pool.                                                *)
LEMMA ListsAreSeqs ==
  \A q : q \in Lists <=> q \in Seq(Buffers) /\ Len(q) <= AUDIO_BUFFERS
<1> USE PoolAssumption
<1>1. ASSUME NEW q \in Lists
      PROVE  q \in Seq(Buffers) /\ Len(q) <= AUDIO_BUFFERS
  <2>1. PICK n \in 0..AUDIO_BUFFERS : q \in [1..n -> Buffers]
    BY DEF Lists
  <2> QED BY <2>1
<1>2. ASSUME NEW q \in Seq(Buffers), Len(q) <= AUDIO_BUFFERS
      PROVE  q \in Lists
  <2>1. Len(q) \in 0..AUDIO_BUFFERS /\ q \in [1..Len(q) -> Buffers]
    BY <1>2, LenProperties
  <2> QED BY <2>1 DEF Lists
<1> QED BY <1>1, <1>2

(* No buffer is the null pointer.                                          *)
LEMMA NoNullBuffer == NULL \notin Buffers
BY DEF NULL, Buffers

(* Appending the first free buffer to the queue (main.c 148-159) keeps the *)
(* two lists a partition of the pool.                                      *)
LEMMA EnqueueKeepsPool ==
  ASSUME PoolTypeOK, NEW q \in Seq(Buffers), NEW f \in Seq(Buffers), Pool(q, f),
         NEW p, Enqueue(p), UNCHANGED <<held, freed>>
  PROVE  /\ free \in Elements(f)
         /\ \E c, g \in Seq(Buffers) :
              /\ Pool(c, g)'
              /\ c = Append(q, free) /\ Elements(g) = Elements(f) \ {free}
<1> USE NoNullBuffer
<1> HIDE DEF NULL, Buffers
<1>2. /\ IsList(next, head, q) /\ NoRepeats(q) /\ tail = At(q, Len(q))
      /\ IsList(next, free, f) /\ NoRepeats(f)
      /\ Elements(q) \cap Elements(f) = {}
      /\ held \notin Elements(q) \cup Elements(f) \cup freed
      /\ freed \cap (Elements(q) \cup Elements(f)) = {}
      /\ Buffers \subseteq Elements(q) \cup Elements(f) \cup freed \cup {held}
      /\ Room(q, f)
  BY DEF Pool, Partition
<1>3. PICK b : b = free OBVIOUS
<1>4. b # NULL /\ b \in Buffers /\ b \in Elements(f) /\ b \notin Elements(q)
  BY <1>2, <1>3, ListEnds DEF Enqueue
<1>5. PICK g : g = Tail(f) OBVIOUS
<1>6. /\ g \in Seq(Buffers) /\ Len(g) = Len(f) - 1
      /\ IsList(next, next[b], g) /\ NoRepeats(g)
      /\ Elements(g) = Elements(f) \ {b}
  BY <1>2, <1>3, <1>4, <1>5, ListTail
<1>7. PICK nx : nx = [next EXCEPT ![b] = NULL] OBVIOUS
<1>8. /\ nx \in [Buffers -> Buffers \cup {NULL}] /\ nx[b] = NULL
      /\ \A x \in Elements(q) \cup Elements(g) : nx[x] = next[x]
  <2>1. next \in [Buffers -> Buffers \cup {NULL}] BY DEF PoolTypeOK
  <2>2. Elements(q) \subseteq Buffers /\ Elements(g) \subseteq Buffers
    BY <1>6, ElementOfSeq DEF Elements
  <2> QED BY <2>1, <2>2, <1>4, <1>6, <1>7
<1>9. IsList(nx, head, q) /\ IsList(nx, next[b], g)
  BY <1>2, <1>6, <1>8, ListFrame
<1>10. /\ <<b>> \in Seq(Buffers) /\ Len(<<b>>) = 1 /\ <<b>> # <<>>
       /\ IsList(nx, b, <<b>>) /\ NoRepeats(<<b>>) /\ Elements(<<b>>) = {b}
       /\ At(<<b>>, Len(<<b>>)) = b
  BY <1>4, <1>8, ListOne
<1>11. free' = next[b] /\ tail' = b /\ held' = held /\ freed' = freed
  BY <1>3 DEF Enqueue
<1>12. Len(q) \in Nat /\ Len(f) \in Nat BY LenProperties
<1>13. CASE tail = NULL
  <2>1. q = <<>> /\ Len(q) = 0 /\ Elements(q) = {}
    <3>1. At(q, Len(q)) = NULL BY <1>2, <1>13
    <3>2. q = <<>> BY <3>1, <1>2, ListEnds
    <3>3. Len(q) = 0 BY <3>2
    <3>4. 1..Len(q) = {} BY <3>3
    <3> QED BY <3>2, <3>3, <3>4 DEF Elements
  <2>2. next' = nx /\ head' = b BY <1>3, <1>7, <1>13 DEF Enqueue
  <2>3. Partition(<<b>>, g)'
    BY <2>1, <2>2, <1>2, <1>4, <1>6, <1>9, <1>10, <1>11 DEF Partition
  <2>4. Room(<<b>>, g)'
    BY <2>1, <1>2, <1>6, <1>10, <1>11, <1>12, PoolAssumption DEF Room
  <2>5. <<b>> = Append(q, b) BY <2>1, <1>4, AppendIsConcat, ConcatEmptySeq, <1>10
  <2>6. Pool(<<b>>, g)' BY <2>3, <2>4 DEF Pool
  <2> QED BY <2>5, <2>6, <1>3, <1>4, <1>6, <1>10
<1>14. CASE tail # NULL
  <2>1. q # <<>> /\ tail = q[Len(q)] /\ head # NULL /\ tail \in Elements(q)
    <3>1. q # <<>> /\ tail = q[Len(q)] /\ head # NULL
      BY <1>2, <1>14, ListEnds
    <3>2. Len(q) \in 1..Len(q) BY <3>1, <1>12, EmptySeq
    <3> QED BY <3>1, <3>2 DEF Elements
  <2>2. head' = head /\ next' = [nx EXCEPT ![q[Len(q)]] = b]
    BY <2>1, <1>3, <1>7, <1>14 DEF Enqueue
  <2>3. Elements(q) \cap Elements(<<b>>) = {} BY <1>4, <1>10
  <2>5. PICK ny : ny = next' OBVIOUS
  <2>3a. PICK r : r = <<b>> OBVIOUS
  <2>4. PICK c : c = q \o r OBVIOUS
  <2>a. ny = [nx EXCEPT ![q[Len(q)]] = b] BY <2>2, <2>5
  <2>b. /\ r \in Seq(Buffers) /\ IsList(nx, b, r) /\ NoRepeats(r)
        /\ Elements(q) \cap Elements(r) = {}
        /\ Elements(r) = {b} /\ Len(r) = 1 /\ r # <<>> /\ At(r, Len(r)) = b
    BY <2>3, <2>3a, <1>10
  <2>6. /\ c \in Seq(Buffers) /\ Len(c) = Len(q) + 1
        /\ IsList(ny, head, c) /\ NoRepeats(c)
        /\ Elements(c) = Elements(q) \cup {b} /\ At(c, Len(c)) = b
    <3>1. q[Len(q)] \in Buffers /\ nx \in [Buffers -> Buffers \cup {NULL}]
      BY <2>1, <1>8 DEF PoolTypeOK
    <3>2. ny[q[Len(q)]] = b BY <3>1, <2>a
    <3>3. \A x \in Buffers : x # q[Len(q)] => ny[x] = nx[x] BY <3>1, <2>a
    <3>4. Hung(Buffers, nx, ny, head, q, b, r)
      BY <2>1, <2>b, <3>2, <3>3, <1>2, <1>9 DEF Hung
    <3>5. /\ c \in Seq(Buffers) /\ Len(c) = Len(q) + Len(r)
          /\ IsList(ny, head, c) /\ NoRepeats(c)
          /\ Elements(c) = Elements(q) \cup Elements(r)
          /\ r # <<>> => At(c, Len(c)) = At(r, Len(r))
      BY <2>4, <3>4, ListConcat
    <3> QED BY <3>5, <2>b
  <2>7. IsList(ny, next[b], g)
    <3>1. \A x \in Elements(g) : ny[x] = nx[x]
      BY <2>1, <2>2, <2>5, <1>2, <1>6, <1>8
    <3> QED BY <3>1, <1>9, ListFrame
  <2>8. Partition(c, g)'
    BY <2>2, <2>5, <2>6, <2>7, <1>2, <1>4, <1>6, <1>11 DEF Partition
  <2>9. Room(c, g)'
    BY <2>6, <1>2, <1>6, <1>11, <1>12, PoolAssumption DEF Room
  <2>10. c = Append(q, b) BY <2>4, <2>3a, <1>4, AppendIsConcat
  <2>11. Pool(c, g)' BY <2>8, <2>9 DEF Pool
  <2> QED BY <2>6, <2>10, <2>11, <1>3, <1>4, <1>6
<1> QED BY <1>13, <1>14

(* audio_main takes the first buffer of the queue (main.c 665-670).        *)
LEMMA TakeKeepsPool ==
  ASSUME PoolTypeOK, HeldInv, NEW q \in Seq(Buffers), NEW f \in Seq(Buffers), Pool(q, f),
         TakeBuffer
  PROVE  /\ held = NULL /\ q # <<>> /\ held' = Head(q)
         /\ Tail(q) \in Seq(Buffers)
         /\ \E g \in Seq(Buffers) : g = Tail(q) /\ Pool(g, f)'
<1> USE NoNullBuffer
<1> HIDE DEF NULL, Buffers
<1>2. /\ IsList(next, head, q) /\ NoRepeats(q) /\ tail = At(q, Len(q))
      /\ IsList(next, free, f) /\ NoRepeats(f)
      /\ Elements(q) \cap Elements(f) = {}
      /\ held \notin Elements(q) \cup Elements(f) \cup freed
      /\ freed \cap (Elements(q) \cup Elements(f)) = {}
      /\ Buffers \subseteq Elements(q) \cup Elements(f) \cup freed \cup {held}
      /\ Room(q, f)
  BY DEF Pool, Partition
<1>3. PICK b : b = head OBVIOUS
<1>4. b # NULL /\ b \in Buffers /\ b \in Elements(q)
  BY <1>2, <1>3, ListEnds DEF TakeBuffer
<1>5. PICK g : g = Tail(q) OBVIOUS
<1>6. /\ g \in Seq(Buffers) /\ Len(g) = Len(q) - 1
      /\ IsList(next, next[b], g) /\ NoRepeats(g)
      /\ Elements(g) = Elements(q) \ {b}
      /\ At(g, Len(g)) = IF next[b] = NULL THEN NULL ELSE tail
  BY <1>2, <1>3, <1>4, <1>5, ListTail
<1>7. held = NULL BY DEF TakeBuffer, HeldInv
<1>8. /\ next' = next /\ head' = next[b] /\ free' = free /\ freed' = freed
      /\ tail' = At(g, Len(g)) /\ held' = b
  BY <1>3, <1>6 DEF TakeBuffer
<1>9. NULL \notin Elements(q) \cup Elements(f) \cup freed
  BY <1>2, <1>7
<1>10. Partition(g, f)'
  BY <1>2, <1>4, <1>6, <1>7, <1>8 DEF Partition
<1>11. Len(q) \in Nat /\ Len(f) \in Nat BY LenProperties
<1>12. Room(g, f)'
  BY <1>2, <1>4, <1>6, <1>7, <1>8, <1>11, PoolAssumption DEF Room
<1>13. Pool(g, f)' BY <1>10, <1>12 DEF Pool
<1>14. q # <<>> /\ b = Head(q)
  <2>1. Len(q) >= 1 /\ b = q[1] BY <1>2, <1>3, <1>4, ListEnds
  <2> QED BY <2>1, EmptySeq
<1> QED BY <1>5, <1>6, <1>7, <1>8, <1>13, <1>14

(* The played buffer goes to the front of the free list (main.c 674-677).  *)
LEMMA ReleaseKeepsPool ==
  ASSUME PoolTypeOK, HeldInv, NEW q \in Seq(Buffers), NEW f \in Seq(Buffers), Pool(q, f),
         ReleaseBuffer
  PROVE  /\ held # NULL
         /\ \E c \in Seq(Buffers) :
              Pool(q, c)' /\ Elements(c) = Elements(f) \cup {held}
<1> USE NoNullBuffer
<1> HIDE DEF NULL, Buffers
<1>2. /\ IsList(next, head, q) /\ NoRepeats(q) /\ tail = At(q, Len(q))
      /\ IsList(next, free, f) /\ NoRepeats(f)
      /\ Elements(q) \cap Elements(f) = {}
      /\ held \notin Elements(q) \cup Elements(f) \cup freed
      /\ freed \cap (Elements(q) \cup Elements(f)) = {}
      /\ Buffers \subseteq Elements(q) \cup Elements(f) \cup freed \cup {held}
      /\ Room(q, f)
  BY DEF Pool, Partition
<1>3. held # NULL /\ held \in Buffers BY DEF ReleaseBuffer, HeldInv, PoolTypeOK
<1>4. PICK b : b = held OBVIOUS
<1>5. PICK nx : nx = [next EXCEPT ![b] = NULL] OBVIOUS
<1>6. PICK ny : ny = next' OBVIOUS
<1>7. /\ next' = ny /\ head' = head /\ tail' = tail /\ free' = b
      /\ held' = NULL /\ freed' = freed
      /\ ny = [next EXCEPT ![b] = free]
  BY <1>4, <1>6 DEF ReleaseBuffer
<1>8. /\ nx[b] = NULL /\ ny[b] = free
      /\ \A x \in Buffers : x # b => nx[x] = next[x] /\ ny[x] = next[x]
  BY <1>3, <1>4, <1>5, <1>7 DEF PoolTypeOK
<1>9. Elements(q) \subseteq Buffers /\ Elements(f) \subseteq Buffers
  BY ElementOfSeq DEF Elements
<1>10. /\ \A x \in Elements(q) : ny[x] = next[x]
       /\ \A x \in Elements(f) : nx[x] = next[x]
  BY <1>2, <1>4, <1>8, <1>9
<1>11. IsList(ny, head, q) /\ IsList(nx, free, f)
  BY <1>2, <1>10, ListFrame
<1>12. PICK r : r = <<b>> OBVIOUS
<1>13. /\ r \in Seq(Buffers) /\ Len(r) = 1 /\ r[1] = b /\ r[Len(r)] = b
       /\ IsList(nx, b, r) /\ NoRepeats(r) /\ Elements(r) = {b}
  BY <1>3, <1>4, <1>8, <1>12, ListOne
<1>14. Hung(Buffers, nx, ny, b, r, free, f)
  BY <1>2, <1>3, <1>4, <1>8, <1>11, <1>13 DEF Hung
<1>15. PICK c : c = r \o f OBVIOUS
<1>16. /\ c \in Seq(Buffers) /\ Len(c) = Len(r) + Len(f)
       /\ IsList(ny, b, c) /\ NoRepeats(c)
       /\ Elements(c) = Elements(r) \cup Elements(f)
  BY <1>14, <1>15, ListConcat
<1>17. NULL \notin Elements(q) \cup Elements(c) \cup freed
  BY <1>3, <1>4, <1>9, <1>13, <1>16 DEF PoolTypeOK
<1>18. Partition(q, c)'
  BY <1>2, <1>4, <1>7, <1>11, <1>13, <1>16, <1>17 DEF Partition
<1>19. Len(q) \in Nat /\ Len(f) \in Nat BY LenProperties
<1>20. Room(q, c)'
  BY <1>2, <1>3, <1>7, <1>13, <1>16, <1>19, PoolAssumption DEF Room
<1>21. Pool(q, c)' BY <1>18, <1>20 DEF Pool
<1> QED BY <1>3, <1>4, <1>13, <1>16, <1>21

(* Emptying the queue onto the free list: change_program (main.c 300-305)  *)
(* and reset_audio_buffers (110-123) do it to a queue that is not empty.   *)
LEMMA FlushKeepsPool ==
  ASSUME PoolTypeOK, NEW q \in Seq(Buffers), NEW f \in Seq(Buffers), Pool(q, f),
         head # NULL,
         next' = [next EXCEPT ![q[Len(q)]] = free], free' = head,
         head' = NULL, tail' = NULL, UNCHANGED <<held, freed>>
  PROVE  \E e, c \in Seq(Buffers) :
           Pool(e, c)' /\ e = <<>> /\ Elements(c) = Elements(f) \cup Elements(q)
<1> USE NoNullBuffer
<1> HIDE DEF NULL, Buffers
<1>2. /\ IsList(next, head, q) /\ NoRepeats(q) /\ tail = At(q, Len(q))
      /\ IsList(next, free, f) /\ NoRepeats(f)
      /\ Elements(q) \cap Elements(f) = {}
      /\ held \notin Elements(q) \cup Elements(f) \cup freed
      /\ freed \cap (Elements(q) \cup Elements(f)) = {}
      /\ Buffers \subseteq Elements(q) \cup Elements(f) \cup freed \cup {held}
      /\ Room(q, f)
  BY DEF Pool, Partition
<1>3. Len(q) \in Nat /\ Len(f) \in Nat /\ Len(q) >= 1
  BY <1>2, ListEnds, LenProperties
<1>4. q[Len(q)] \in Buffers
  <2>1. Len(q) \in 1..Len(q) BY <1>3
  <2> QED BY <2>1, ElementOfSeq
<1>5. PICK ny : ny = next' OBVIOUS
<1>6. /\ ny[q[Len(q)]] = free
      /\ \A x \in Buffers : x # q[Len(q)] => ny[x] = next[x]
  BY <1>4, <1>5 DEF PoolTypeOK
<1>7. Hung(Buffers, next, ny, head, q, free, f)
  BY <1>2, <1>6 DEF Hung
<1>8. PICK c : c = q \o f OBVIOUS
<1>9. /\ c \in Seq(Buffers) /\ Len(c) = Len(q) + Len(f)
      /\ IsList(ny, head, c) /\ NoRepeats(c)
      /\ Elements(c) = Elements(q) \cup Elements(f)
  BY <1>7, <1>8, ListConcat
<1>10. PICK e : e = <<>> OBVIOUS
<1>11. /\ e \in Seq(Buffers) /\ Len(e) = 0 /\ Elements(e) = {}
       /\ IsList(ny, NULL, e) /\ NoRepeats(e) /\ At(e, Len(e)) = NULL
  <2>1. e \in Seq(Buffers) /\ Len(e) = 0 BY <1>10, EmptySeq
  <2>2. 1..Len(e) = {} BY <2>1
  <2> QED BY <2>1, <2>2 DEF IsList, NoRepeats, At, Elements
<1>12. Partition(e, c)'
  BY <1>2, <1>5, <1>9, <1>11 DEF Partition
<1>13. Room(e, c)'
  BY <1>2, <1>3, <1>9, <1>11, PoolAssumption DEF Room
<1>14. Pool(e, c)' BY <1>12, <1>13 DEF Pool
<1> QED BY <1>9, <1>10, <1>11, <1>14

(* change_program, whatever the state of the queue.                        *)
LEMMA ChangeKeepsPool ==
  ASSUME PoolTypeOK, NEW q \in Seq(Buffers), NEW f \in Seq(Buffers), Pool(q, f),
         NEW p, ChangeProgram(p), UNCHANGED <<held, freed>>
  PROVE  \E e, c \in Seq(Buffers) :
           Pool(e, c)' /\ e = <<>> /\ Elements(c) = Elements(f) \cup Elements(q)
<1> USE NoNullBuffer
<1> HIDE DEF NULL, Buffers
<1>2. IsList(next, head, q) /\ tail = At(q, Len(q))
  BY DEF Pool, Partition
<1>3. CASE tail = NULL
  <2>1. UNCHANGED <<next, head, tail, free, held, freed>>
    BY <1>3 DEF ChangeProgram
  <2>2. q = <<>>
    <3>1. At(q, Len(q)) = NULL BY <1>2, <1>3
    <3> QED BY <3>1, <1>2, ListEnds
  <2>3. Elements(q) = {} BY <2>2 DEF Elements
  <2>4. Pool(q, f)' BY <2>1 DEF Pool, Partition, Room
  <2> QED BY <2>2, <2>3, <2>4
<1>4. CASE tail # NULL
  <2>1. tail = q[Len(q)] /\ head # NULL BY <1>2, <1>4, ListEnds
  <2>2. /\ next' = [next EXCEPT ![q[Len(q)]] = free] /\ free' = head
        /\ head' = NULL /\ tail' = NULL
    BY <1>4, <2>1 DEF ChangeProgram
  <2> QED BY <2>1, <2>2, FlushKeepsPool
<1> QED BY <1>3, <1>4

(* ListFrom finds the one list that starts at a given buffer.              *)
LEMMA ListFromFinds ==
  ASSUME NEW nx, NEW s, NEW q \in Seq(Buffers), IsList(nx, s, q),
         Len(q) <= AUDIO_BUFFERS
  PROVE  (CHOOSE r \in Lists : IsList(nx, s, r)) = q
<1> USE NoNullBuffer
<1> HIDE DEF NULL, Buffers
<1>1. q \in Lists BY ListsAreSeqs
<1>2. PICK r : r = CHOOSE x \in Lists : IsList(nx, s, x) OBVIOUS
<1>3. r \in Lists /\ IsList(nx, s, r) BY <1>1, <1>2, Zenon
<1>4. r \in Seq(Buffers) BY <1>3, ListsAreSeqs
<1>5. r = q BY <1>3, <1>4, ListUnique
<1> QED BY <1>2, <1>5

(* The queue and the free list of a well-formed pool are the lists that    *)
(* ListFrom finds, before a step and after it.                             *)
LEMMA QueueIsListFrom ==
  ASSUME NEW q \in Seq(Buffers), NEW f \in Seq(Buffers), Pool(q, f)
  PROVE  ListFrom(head) = q /\ ListFrom(free) = f
<1> HIDE DEF NULL, Buffers
<1>1. Len(q) \in Nat /\ Len(f) \in Nat BY LenProperties
<1>2. Len(q) <= AUDIO_BUFFERS /\ Len(f) <= AUDIO_BUFFERS
  BY <1>1, PoolAssumption DEF Pool, Room
<1>3. IsList(next, head, q) /\ IsList(next, free, f) BY DEF Pool, Partition
<1> QED BY <1>2, <1>3, ListFromFinds DEF ListFrom

LEMMA QueueIsListFromAfter ==
  ASSUME NEW q \in Seq(Buffers), NEW f \in Seq(Buffers), Pool(q, f)'
  PROVE  ListFrom(head)' = q /\ ListFrom(free)' = f
<1> HIDE DEF NULL, Buffers
<1>1. Len(q) \in Nat /\ Len(f) \in Nat BY LenProperties
<1>2. Len(q) <= AUDIO_BUFFERS /\ Len(f) <= AUDIO_BUFFERS
  BY <1>1, PoolAssumption DEF Pool, Room
<1>3. IsList(next', head', q) /\ IsList(next', free', f)
  BY DEF Pool, Partition
<1> QED BY <1>2, <1>3, ListFromFinds DEF ListFrom

(* cleanup's call of reset_audio_buffers (main.c 110-123).                 *)
LEMMA ResetKeepsPool ==
  ASSUME PoolTypeOK, NEW q \in Seq(Buffers), NEW f \in Seq(Buffers), Pool(q, f),
         ResetAudioBuffers
  PROVE  \E e, c \in Seq(Buffers) :
           Pool(e, c)' /\ e = <<>> /\ Elements(c) = Elements(f) \cup Elements(q)
<1> USE NoNullBuffer
<1> HIDE DEF NULL, Buffers
<1>2. IsList(next, head, q) /\ tail = At(q, Len(q))
  BY DEF Pool, Partition
<1>3. ListFrom(head) = q BY QueueIsListFrom
<1>4. UNCHANGED <<held, freed>> /\ head' = NULL /\ tail' = NULL
  BY DEF ResetAudioBuffers, consumer
<1>5. CASE q = <<>>
  <2>a. At(q, Len(q)) = NULL BY <1>2, <1>5, ListEnds
  <2>b. head = NULL <=> q = <<>> BY <1>2, ListEnds
  <2>1. head = NULL /\ tail = NULL BY <2>a, <2>b, <1>2, <1>5
  <2>2. next' = next /\ free' = free BY <1>3, <1>5 DEF ResetAudioBuffers
  <2>3. Elements(q) = {} BY <1>5 DEF Elements
  <2>4. Pool(q, f)' BY <2>1, <2>2, <1>4 DEF Pool, Partition, Room
  <2> QED BY <1>5, <2>3, <2>4
<1>6. CASE q # <<>>
  <2>1. head # NULL BY <1>2, <1>6, ListEnds
  <2>2. next' = [next EXCEPT ![q[Len(q)]] = free] /\ free' = head
    BY <1>3, <1>6 DEF ResetAudioBuffers
  <2> QED BY <2>1, <2>2, <1>4, FlushKeepsPool
<1> QED BY <1>5, <1>6

(* cleanup returns the first free buffer to malloc (main.c 1006-1011).     *)
LEMMA FreeKeepsPool ==
  ASSUME PoolTypeOK, NEW q \in Seq(Buffers), NEW f \in Seq(Buffers), Pool(q, f),
         FreeBuffer
  PROVE  /\ free \in Elements(f)
         /\ \E g \in Seq(Buffers) :
              Pool(q, g)' /\ Elements(g) = Elements(f) \ {free}
<1> USE NoNullBuffer
<1> HIDE DEF NULL, Buffers
<1>2. /\ IsList(next, head, q) /\ NoRepeats(q) /\ tail = At(q, Len(q))
      /\ IsList(next, free, f) /\ NoRepeats(f)
      /\ Elements(q) \cap Elements(f) = {}
      /\ held \notin Elements(q) \cup Elements(f) \cup freed
      /\ freed \cap (Elements(q) \cup Elements(f)) = {}
      /\ Buffers \subseteq Elements(q) \cup Elements(f) \cup freed \cup {held}
      /\ Room(q, f)
  BY DEF Pool, Partition
<1>3. PICK b : b = free OBVIOUS
<1>4. b # NULL /\ b \in Buffers /\ b \in Elements(f) /\ b \notin Elements(q)
  BY <1>2, <1>3, ListEnds DEF FreeBuffer
<1>5. PICK g : g = Tail(f) OBVIOUS
<1>6. /\ g \in Seq(Buffers) /\ Len(g) = Len(f) - 1
      /\ IsList(next, next[b], g) /\ NoRepeats(g)
      /\ Elements(g) = Elements(f) \ {b}
  BY <1>2, <1>3, <1>4, <1>5, ListTail
<1>7. /\ next' = next /\ head' = head /\ tail' = tail /\ free' = next[b]
      /\ held' = held /\ freed' = freed \cup {b}
  BY <1>3 DEF FreeBuffer, consumer
<1>8. Partition(q, g)' BY <1>2, <1>4, <1>6, <1>7 DEF Partition
<1>9. Len(q) \in Nat /\ Len(f) \in Nat BY LenProperties
<1>10. Room(q, g)'
  BY <1>2, <1>6, <1>7, <1>9, PoolAssumption DEF Room
<1>11. Pool(q, g)' BY <1>8, <1>10 DEF Pool
<1> QED BY <1>3, <1>4, <1>6, <1>11

(* The start: every buffer is free.                                        *)
LEMMA InitPool == Init => PoolInv
<1> USE PoolAssumption
<1> SUFFICES ASSUME Init PROVE PoolInv OBVIOUS
<1>1. PICK f : f = [i \in 1..AUDIO_BUFFERS |-> AUDIO_BUFFERS + 1 - i] OBVIOUS
<1>2. PICK q : q = <<>> OBVIOUS
<1>3. /\ f \in Seq(Buffers) /\ Len(f) = AUDIO_BUFFERS
      /\ \A i \in 1..AUDIO_BUFFERS : f[i] = AUDIO_BUFFERS + 1 - i
  BY <1>1
<1>4. /\ q \in Seq(Buffers) /\ Len(q) = 0 /\ 1..Len(q) = {}
  BY <1>2
<1>5. IsList(next, head, q) /\ NoRepeats(q) /\ tail = At(q, Len(q)) /\ Elements(q) = {}
  <2>1. \A i : i \notin 1..Len(q) BY <1>4
  <2>2. ~(1 \in 1..Len(q)) /\ ~(Len(q) \in 1..Len(q)) BY <2>1
  <2>3. At(q, 1) = NULL /\ At(q, Len(q)) = NULL BY ONLY <2>2 DEF At
  <2> QED BY <2>1, <2>3 DEF Init, IsList, NoRepeats, Elements
<1>6. IsList(next, free, f)
  <2>1. free = At(f, 1) BY <1>3 DEF Init, At
  <2>2. ASSUME NEW i \in 1..AUDIO_BUFFERS PROVE next[f[i]] = At(f, i + 1)
    <3>0. i \in 1..Len(f) /\ f[i] = AUDIO_BUFFERS + 1 - i BY <1>3
    <3>1. f[i] \in Buffers /\ f[i] = AUDIO_BUFFERS + 1 - i
      BY <3>0, <1>3, ElementOfSeq
    <3>2. next[f[i]] = AUDIO_BUFFERS - i BY <3>1 DEF Init
    <3>3. CASE i = AUDIO_BUFFERS BY <3>2, <3>3, <1>3 DEF At
    <3>4. CASE i # AUDIO_BUFFERS
      <4>1. i + 1 \in 1..AUDIO_BUFFERS BY <3>4
      <4>2. f[i + 1] = AUDIO_BUFFERS - i BY <4>1, <1>3
      <4> QED BY <4>1, <4>2, <3>2, <1>3 DEF At
    <3> QED BY <3>3, <3>4
  <2> QED BY <2>1, <2>2, <1>3 DEF IsList
<1>7. NoRepeats(f) BY <1>3 DEF NoRepeats
<1>8. Elements(f) = Buffers
  <2>1. Elements(f) \subseteq Buffers
    <3>1. \A i \in 1..Len(f) : f[i] \in Buffers BY <1>3, ElementOfSeq
    <3> QED BY <3>1 DEF Elements
  <2>2. ASSUME NEW b \in Buffers PROVE b \in Elements(f)
    <3>1. AUDIO_BUFFERS + 1 - b \in 1..Len(f) BY <1>3
    <3>2. f[AUDIO_BUFFERS + 1 - b] = b BY <3>1, <1>3
    <3> QED BY <3>1, <3>2 DEF Elements
  <2> QED BY <2>1, <2>2
<1>9. Partition(q, f) BY <1>5, <1>6, <1>7, <1>8 DEF Init, Partition
<1>10. Room(q, f) BY <1>3, <1>4 DEF Init, Room
<1> QED BY <1>3, <1>4, <1>9, <1>10 DEF Pool, PoolInv

(* A step that leaves the lists, the played buffer and the freed ones      *)
(* alone leaves the pool well formed.                                      *)
LEMMA PoolFrame ==
  ASSUME NEW q, NEW f, Pool(q, f),
         UNCHANGED <<next, head, tail, free, held, freed>>
  PROVE  Pool(q, f)'
BY DEF Pool, Partition, Room

(* What a step does to the queue q and the free list f, which become c and *)
(* g: a free buffer is filled and appended to the queue, the first queued  *)
(* one is taken to be played, the played one becomes free, the queue is    *)
(* emptied, a free buffer is returned to malloc, or none of these.         *)
Filled(q, f, c, g, p) ==
  /\ free \in Elements(f)
  /\ c = Append(q, free) /\ Elements(g) = Elements(f) \ {free}
  /\ samples' = [samples EXCEPT ![free] = p]
  /\ ~mode.pipe => p = program
  /\ UNCHANGED <<held, program>>

Taken(q, f, c, g) ==
  /\ held = NULL /\ q # <<>>
  /\ held' = Head(q)
  /\ c = Tail(q) /\ g = f
  /\ UNCHANGED <<samples, program>>

Released(q, f, c, g) ==
  /\ held # NULL
  /\ held' = NULL
  /\ c = q /\ Elements(g) = Elements(f) \cup {held}
  /\ UNCHANGED <<samples, program>>

Emptied(q, f, c, g) ==
  /\ program' \in Programs \cup {MUTE}
  /\ c = <<>> /\ Elements(g) = Elements(f) \cup Elements(q)
  /\ UNCHANGED <<held, samples>>

Returned(q, f, c, g) ==
  /\ free \in Elements(f)
  /\ c = q /\ Elements(g) = Elements(f) \ {free}
  /\ UNCHANGED <<held, samples, program>>

Unmoved(q, f, c, g) ==
  /\ c = q /\ g = f
  /\ UNCHANGED <<held, samples, program>>

Move(q, f, c, g) ==
  /\ mode' = mode
  /\ \/ \E p \in Programs : Filled(q, f, c, g, p)
     \/ Taken(q, f, c, g) \/ Released(q, f, c, g)
     \/ Emptied(q, f, c, g) \/ Returned(q, f, c, g)
     \/ Unmoved(q, f, c, g)

Moves(q, f) ==
  \E c, g \in Seq(Buffers) : Pool(c, g)' /\ Move(q, f, c, g)

(* The decoder that waits for a buffer has a packet of a program in hand   *)
(* and decodes a file: live, push_audio_buffer drops (main.c 131-138).     *)
PushInv == prod = "push" => mode.pipe /\ pushing \in Programs

(* Every step is one of these moves and keeps the two lists a partition of *)
(* the pool.                                                               *)
LEMMA NextMoves ==
  ASSUME PoolTypeOK, ThreadTypeOK, HeldInv, PushInv, [Next]_vars,
         NEW q \in Seq(Buffers), NEW f \in Seq(Buffers), Pool(q, f)
  PROVE  Moves(q, f)
<1> HIDE DEF NULL, Buffers, MUTE
<1> USE DEF lists, consumer
<1>a. ASSUME NEW p \in Programs, Enqueue(p), UNCHANGED <<mode, held, program, freed>>,
             ~mode.pipe => p = program
      PROVE  Moves(q, f)
  <2>1. samples' = [samples EXCEPT ![free] = p] BY <1>a DEF Enqueue
  <2>2. /\ free \in Elements(f)
        /\ \E c, g \in Seq(Buffers) :
             /\ Pool(c, g)'
             /\ c = Append(q, free) /\ Elements(g) = Elements(f) \ {free}
    BY <1>a, EnqueueKeepsPool
  <2> QED BY <1>a, <2>1, <2>2 DEF Moves, Move, Filled
<1>b. ASSUME UNCHANGED <<mode, next, head, tail, free, samples, program, held, freed>>
      PROVE  Moves(q, f)
  BY <1>b, PoolFrame DEF Moves, Move, Unmoved
<1>c. ASSUME NEW p \in Programs \cup {MUTE}, ChangeProgram(p),
             UNCHANGED <<mode, held, samples, freed>>
      PROVE  Moves(q, f)
  <2>1. program' = p BY <1>c DEF ChangeProgram
  <2>2. \E c, g \in Seq(Buffers) :
          Pool(c, g)' /\ c = <<>> /\ Elements(g) = Elements(f) \cup Elements(q)
    BY <1>c, ChangeKeepsPool
  <2> QED BY <1>c, <2>1, <2>2 DEF Moves, Move, Emptied
<1>1. ASSUME NEW p \in Programs, PushAudio(p) PROVE Moves(q, f)
  <2>1. Enqueue(p) /\ p = program /\ UNCHANGED <<mode, held, program, freed>>
    BY <1>1 DEF PushAudio
  <2> QED BY <2>1, <1>a
<1>2. ASSUME NEW p \in Programs, PressDigit(p) PROVE Moves(q, f)
  <2>1. ChangeProgram(p) /\ UNCHANGED <<mode, held, samples, freed>>
    BY <1>2 DEF PressDigit
  <2> QED BY <2>1, <1>c
<1>3. CASE PushResumes
  <2>1. UNCHANGED <<mode, program, held, freed>> /\ mode.pipe /\ pushing \in Programs
    BY <1>3 DEF PushResumes, PushInv
  <2>2. CASE Enqueue(pushing) BY <2>1, <2>2, <1>a
  <2>3. CASE UNCHANGED <<lists, samples>> BY <2>1, <2>3, <1>b
  <2> QED BY <2>2, <2>3, <1>3 DEF PushResumes
<1>4. CASE TakeBuffer
  <2>1. UNCHANGED <<mode, samples, program>> BY <1>4 DEF TakeBuffer
  <2> QED BY <1>4, <2>1, TakeKeepsPool DEF Moves, Move, Taken
<1>5. CASE ReleaseBuffer
  <2>1. UNCHANGED <<mode, samples, program>> /\ held' = NULL
    BY <1>5 DEF ReleaseBuffer
  <2> QED BY <1>5, <2>1, ReleaseKeepsPool DEF Moves, Move, Released
<1>6. CASE QuitReset
  <2>1. ChangeProgram(MUTE) /\ UNCHANGED <<mode, held, samples, freed>>
    BY <1>6 DEF QuitReset
  <2> QED BY <2>1, <1>c
<1>7. CASE ResetAudioBuffers
  <2>1. UNCHANGED <<mode, samples, program, held>> BY <1>7 DEF ResetAudioBuffers
  <2>2. program' \in Programs \cup {MUTE} BY <2>1 DEF ThreadTypeOK
  <2> QED BY <1>7, <2>1, <2>2, ResetKeepsPool DEF Moves, Move, Emptied
<1>8. CASE FreeBuffer
  <2>1. UNCHANGED <<mode, samples, program, held>> BY <1>8 DEF FreeBuffer
  <2> QED BY <1>8, <2>1, FreeKeepsPool DEF Moves, Move, Returned
<1>9. ASSUME NEW p \in Programs, PushWaits(p) \/ PushSkips(p) PROVE Moves(q, f)
  BY <1>9, <1>b DEF PushWaits, PushSkips
<1>10. CASE \/ ReadChunk \/ EndChunk \/ LeaveLoop \/ EndOfInput \/ LoseDevice
           \/ WaitForAudio \/ LeaveAudio
  BY <1>10, <1>b DEF ReadChunk, EndChunk, LeaveLoop, EndOfInput, LoseDevice,
                     WaitForAudio, LeaveAudio
<1>11. CASE \/ CheckDone \/ NoKey \/ PollError \/ PressQ \/ JoinAudio \/ JoinInput
           \/ StopLibrary \/ Exit \/ SpuriousWakeup \/ UNCHANGED vars
  BY <1>11, <1>b DEF CheckDone, NoKey, PollError, PressQ, JoinAudio, JoinInput,
                     StopLibrary, Exit, SpuriousWakeup, vars
<1> QED
  BY <1>1, <1>2, <1>3, <1>4, <1>5, <1>6, <1>7, <1>8, <1>9, <1>10, <1>11
  DEF Next, Produce, Consume, Keyboard, Main, Environment, Terminated

(* What the threads know of one another.  A thread in pthread_cond_wait is *)
(* where the code waits, and nothing it waits for has happened unnoticed:  *)
(* whoever frees or queues a buffer signals, and at that moment only the   *)
(* other thread can be asleep.  'q' and the digits break this for the      *)
(* decoder (change_program does not signal), hence the condition on tty.   *)
WaitInv ==
  /\ HeldInv
  /\ "consumer" \in asleep => cons = "take" /\ head = NULL
  /\ "producer" \in asleep => prod = "push"
  /\ "producer" \in asleep /\ ~mode.tty => free = NULL
  /\ PushInv
  /\ ~mode.tty => keys = "exit"

(* How far main has come says which threads are gone and what is left of   *)
(* the pool.                                                               *)
ShutdownInv ==
  /\ main # "joinAudio" => cons = "exit" /\ (mode.pipe => prod = "exit")
  /\ main \notin {"joinAudio", "joinInput"} => keys = "exit"
  /\ main \in {"cleanup", "free", "end"} => prod = "exit"
  /\ main \in {"free", "end"} => head = NULL
  /\ main = "end" => free = NULL
  /\ freed # {} => main \in {"free", "end"}
  /\ mode.pipe /\ ~mode.tty /\ done => prod = "exit"
  /\ mode.pipe /\ ~mode.tty /\ cons = "exit" => done /\ head = NULL

IInv == TypeOK /\ PoolInv /\ WaitInv /\ ShutdownInv

(* The invariant holds at the start and every step keeps it.               *)
LEMMA InitInv == Init => WaitInv /\ ShutdownInv
<1> SUFFICES ASSUME Init PROVE WaitInv /\ ShutdownInv OBVIOUS
<1>1. mode \in ModeSet BY ModesAssumption DEF Init
<1>2. WaitInv BY <1>1 DEF Init, WaitInv, HeldInv, PushInv, ModeSet
<1>3. ShutdownInv BY <1>1 DEF Init, ShutdownInv, ModeSet
<1> QED BY <1>2, <1>3

LEMMA NextKeepsInv ==
  ASSUME PoolTypeOK, ThreadTypeOK, WaitInv, ShutdownInv, [Next]_vars
  PROVE  WaitInv' /\ ShutdownInv'
<1>0. asleep \in SUBSET {"producer", "consumer"} BY DEF ThreadTypeOK
<1> USE <1>0 DEF WaitInv, HeldInv, PushInv, ShutdownInv, lists, producer, consumer

<1>1. ASSUME NEW p \in Programs, PushAudio(p) PROVE WaitInv' /\ ShutdownInv'
  <2>1. WaitInv' BY <1>1 DEF PushAudio, Enqueue, Signal
  <2>2. ShutdownInv' BY <1>1 DEF PushAudio, Enqueue, Signal
  <2> QED BY <2>1, <2>2
<1>2. ASSUME NEW p \in Programs, PushWaits(p) PROVE WaitInv' /\ ShutdownInv'
  <2>1. WaitInv' BY <1>2 DEF PushWaits, Sleep
  <2>2. ShutdownInv' BY <1>2 DEF PushWaits, Sleep
  <2> QED BY <2>1, <2>2
<1>3. ASSUME NEW p \in Programs, PushSkips(p) PROVE WaitInv' /\ ShutdownInv'
  <2>1. WaitInv' BY <1>3 DEF PushSkips
  <2>2. ShutdownInv' BY <1>3 DEF PushSkips
  <2> QED BY <2>1, <2>2
<1>4. ASSUME NEW p \in Programs, PressDigit(p) PROVE WaitInv' /\ ShutdownInv'
  <2>1. WaitInv' BY <1>4 DEF PressDigit, ChangeProgram
  <2>2. ShutdownInv' BY <1>4 DEF PressDigit, ChangeProgram
  <2> QED BY <2>1, <2>2
<1>5. CASE PushResumes
  <2>1. WaitInv' BY <1>5 DEF PushResumes, Enqueue, Signal, Sleep, Awake
  <2>2. ShutdownInv' BY <1>5 DEF PushResumes, Enqueue, Signal, Sleep, Awake
  <2> QED BY <2>1, <2>2
<1>6. CASE ReadChunk
  <2>1. WaitInv' BY <1>6 DEF ReadChunk
  <2>2. ShutdownInv' BY <1>6 DEF ReadChunk
  <2> QED BY <2>1, <2>2
<1>7. CASE EndChunk
  <2>1. WaitInv' BY <1>7 DEF EndChunk
  <2>2. ShutdownInv' BY <1>7 DEF EndChunk
  <2> QED BY <2>1, <2>2
<1>8. CASE LeaveLoop
  <2>1. WaitInv' BY <1>8 DEF LeaveLoop
  <2>2. ShutdownInv' BY <1>8 DEF LeaveLoop
  <2> QED BY <2>1, <2>2
<1>9. CASE EndOfInput
  <2>1. WaitInv' BY <1>9 DEF EndOfInput, DoneSignal, Signal
  <2>2. ShutdownInv' BY <1>9 DEF EndOfInput, DoneSignal, Signal
  <2> QED BY <2>1, <2>2
<1>10. CASE LoseDevice
  <2>1. WaitInv' BY <1>10 DEF LoseDevice, DoneSignal, Signal
  <2>2. ShutdownInv' BY <1>10 DEF LoseDevice, DoneSignal, Signal
  <2> QED BY <2>1, <2>2
<1>11. CASE TakeBuffer
  <2>1. WaitInv' BY <1>11 DEF TakeBuffer, Awake
  <2>2. ShutdownInv' BY <1>11 DEF TakeBuffer, Awake
  <2> QED BY <2>1, <2>2
<1>12. CASE WaitForAudio
  <2>1. WaitInv' BY <1>12 DEF WaitForAudio, Sleep, Awake
  <2>2. ShutdownInv' BY <1>12 DEF WaitForAudio, Sleep, Awake
  <2> QED BY <2>1, <2>2
<1>13. CASE LeaveAudio
  <2>1. WaitInv' BY <1>13 DEF LeaveAudio, Awake
  <2>2. ShutdownInv' BY <1>13 DEF LeaveAudio, Awake
  <2> QED BY <2>1, <2>2
<1>14. CASE ReleaseBuffer
  <2>1. WaitInv' BY <1>14 DEF ReleaseBuffer, Signal
  <2>2. ShutdownInv' BY <1>14 DEF ReleaseBuffer, Signal
  <2> QED BY <2>1, <2>2
<1>15. CASE CheckDone
  <2>1. WaitInv' BY <1>15 DEF CheckDone
  <2>2. ShutdownInv' BY <1>15 DEF CheckDone
  <2> QED BY <2>1, <2>2
<1>16. CASE NoKey
  <2>1. WaitInv' BY <1>16 DEF NoKey
  <2>2. ShutdownInv' BY <1>16 DEF NoKey
  <2> QED BY <2>1, <2>2
<1>17. CASE PollError
  <2>1. WaitInv' BY <1>17 DEF PollError
  <2>2. ShutdownInv' BY <1>17 DEF PollError
  <2> QED BY <2>1, <2>2
<1>18. CASE PressQ
  <2>1. WaitInv' BY <1>18 DEF PressQ, DoneSignal, Signal
  <2>2. ShutdownInv' BY <1>18 DEF PressQ, DoneSignal, Signal
  <2> QED BY <2>1, <2>2
<1>19. CASE QuitReset
  <2>1. WaitInv' BY <1>19 DEF QuitReset, ChangeProgram
  <2>2. ShutdownInv' BY <1>19 DEF QuitReset, ChangeProgram
  <2> QED BY <2>1, <2>2
<1>20. CASE JoinAudio
  <2>1. WaitInv' BY <1>20 DEF JoinAudio
  <2>2. ShutdownInv' BY <1>20 DEF JoinAudio
  <2> QED BY <2>1, <2>2
<1>21. CASE JoinInput
  <2>1. WaitInv' BY <1>21 DEF JoinInput
  <2>2. ShutdownInv' BY <1>21 DEF JoinInput
  <2> QED BY <2>1, <2>2
<1>22. CASE StopLibrary
  <2>1. WaitInv' BY <1>22 DEF StopLibrary
  <2>2. ShutdownInv' BY <1>22 DEF StopLibrary
  <2> QED BY <2>1, <2>2
<1>23. CASE ResetAudioBuffers
  <2>1. WaitInv' BY <1>23 DEF ResetAudioBuffers
  <2>2. ShutdownInv' BY <1>23 DEF ResetAudioBuffers
  <2> QED BY <2>1, <2>2
<1>24. CASE FreeBuffer
  <2>1. WaitInv' BY <1>24 DEF FreeBuffer
  <2>2. ShutdownInv' BY <1>24 DEF FreeBuffer
  <2> QED BY <2>1, <2>2
<1>25. CASE Exit
  <2>1. WaitInv' BY <1>25 DEF Exit
  <2>2. ShutdownInv' BY <1>25 DEF Exit
  <2> QED BY <2>1, <2>2
<1>26. CASE SpuriousWakeup
  <2>1. WaitInv' BY <1>26 DEF SpuriousWakeup
  <2>2. ShutdownInv' BY <1>26 DEF SpuriousWakeup
  <2> QED BY <2>1, <2>2
<1>27. CASE UNCHANGED vars BY <1>27 DEF vars
<1> HIDE <1>0 DEF WaitInv, HeldInv, PushInv, ShutdownInv
<1> QED
  BY <1>1, <1>2, <1>3, <1>4, <1>5, <1>6, <1>7, <1>8, <1>9, <1>10, <1>11, <1>12,
     <1>13, <1>14, <1>15, <1>16, <1>17, <1>18, <1>19, <1>20, <1>21, <1>22,
     <1>23, <1>24, <1>25, <1>26, <1>27
  DEF Next, Produce, Consume, Keyboard, Main, Environment, Terminated

(* The inductive invariant of the receiver's threads and pool.             *)
THEOREM Invariance == Spec => []IInv
<1>1. Init => IInv
  BY InitPool, InitInv, TypeInit DEF IInv
<1>2. IInv /\ [Next]_vars => IInv'
  <2> SUFFICES ASSUME IInv, [Next]_vars PROVE IInv' OBVIOUS
  <2>1. PoolTypeOK /\ ThreadTypeOK /\ PoolInv /\ WaitInv /\ ShutdownInv
    /\ HeldInv /\ PushInv
    BY DEF IInv, TypeOK, WaitInv
  <2>2. TypeOK' BY <2>1, TypeStep
  <2>3. PoolInv' BY <2>1, NextMoves DEF PoolInv, Moves
  <2>4. WaitInv' /\ ShutdownInv' BY <2>1, NextKeepsInv
  <2> QED BY <2>2, <2>3, <2>4 DEF IInv
<1> QED BY <1>1, <1>2, PTL DEF Spec

(* Every variable of main.c's state_t and of the threads keeps its type.   *)
THEOREM TypeCorrect == Spec => []TypeOK
<1>1. IInv => TypeOK BY DEF IInv
<1> QED BY <1>1, Invariance, PTL

(* For any number of buffers, no interleaving of the decoder, the player   *)
(* and the keyboard leaks a buffer, puts one on two lists or loses the end *)
(* of the queue (main.c 108-165, 295-310, 665-679).                        *)
THEOREM PoolCorrect == Spec => []PoolPartition
<1>1. IInv => PoolPartition
  <2> SUFFICES ASSUME IInv PROVE PoolPartition OBVIOUS
  <2>1. PICK q \in Seq(Buffers), f \in Seq(Buffers) : Pool(q, f)
    BY DEF IInv, PoolInv
  <2>2. Len(q) \in Nat /\ Len(f) \in Nat BY LenProperties
  <2>3. Len(q) <= AUDIO_BUFFERS /\ Len(f) <= AUDIO_BUFFERS
    BY <2>1, <2>2, PoolAssumption DEF Pool, Room
  <2>4. q \in Lists /\ f \in Lists BY <2>3, ListsAreSeqs
  <2> QED BY <2>1, <2>4 DEF PoolPartition, Pool
<1> QED BY <1>1, Invariance, PTL

(* Without a keyboard the decoder and the player never sleep at the same   *)
(* time: the pool would have to be both full and empty.                    *)
THEOREM NoMutualWaitCorrect == Spec => []NoMutualWait
<1>1. IInv => NoMutualWait
  <2> SUFFICES ASSUME IInv, ~mode.tty, asleep = {"producer", "consumer"}
               PROVE  FALSE
    BY DEF NoMutualWait
  <2> USE NoNullBuffer
  <2> HIDE DEF NULL, Buffers
  <2>1. free = NULL /\ head = NULL /\ held = NULL /\ prod = "push" /\ mode.pipe
    BY DEF IInv, WaitInv, HeldInv, PushInv
  <2>2. freed = {} BY <2>1 DEF IInv, ShutdownInv
  <2>3. PICK q \in Seq(Buffers), f \in Seq(Buffers) : Pool(q, f)
    BY DEF IInv, PoolInv
  <2>4. IsList(next, head, q) /\ IsList(next, free, f)
    BY <2>3 DEF Pool, Partition
  <2>5. q = <<>> /\ f = <<>> BY <2>1, <2>4, ListEnds
  <2>6. Len(q) = 0 /\ Len(f) = 0 BY <2>5
  <2>7. Elements(q) = {} /\ Elements(f) = {} BY <2>6 DEF Elements
  <2>8. Buffers \subseteq {NULL}
    BY <2>1, <2>2, <2>3, <2>7 DEF Pool, Partition
  <2>9. AUDIO_BUFFERS \in Buffers BY PoolAssumption DEF Buffers
  <2> QED BY <2>8, <2>9
<1> QED BY <1>1, Invariance, PTL

(* audio_main leaves a batch run only when the decoder has left and the    *)
(* queue is empty.                                                         *)
THEOREM BatchCorrect == Spec => []BatchPlaysAll
<1>1. IInv => BatchPlaysAll BY DEF IInv, ShutdownInv, BatchPlaysAll
<1> QED BY <1>1, Invariance, PTL

(* cleanup meets no running thread and gives back every buffer.            *)
THEOREM CleanupCorrect == Spec => []CleanupIsLast
<1>1. IInv => CleanupIsLast
  <2> SUFFICES ASSUME IInv, main \in {"free", "end"}
               PROVE  /\ prod = "exit" /\ cons = "exit" /\ keys = "exit"
                      /\ held = NULL /\ head = NULL
                      /\ main = "end" => freed = Buffers
    BY DEF CleanupIsLast
  <2> USE NoNullBuffer
  <2> HIDE DEF NULL, Buffers
  <2>1. prod = "exit" /\ cons = "exit" /\ keys = "exit" /\ head = NULL
    BY DEF IInv, ShutdownInv
  <2>2. held = NULL BY <2>1 DEF IInv, WaitInv, HeldInv
  <2>3. ASSUME main = "end" PROVE freed = Buffers
    <3>1. free = NULL BY <2>3 DEF IInv, ShutdownInv
    <3>2. PICK q \in Seq(Buffers), f \in Seq(Buffers) : Pool(q, f)
      BY DEF IInv, PoolInv
    <3>3. IsList(next, head, q) /\ IsList(next, free, f)
      BY <3>2 DEF Pool, Partition
    <3>4. q = <<>> /\ f = <<>> BY <2>1, <3>1, <3>3, ListEnds
    <3>5. Len(q) = 0 /\ Len(f) = 0 BY <3>4
    <3>6. Elements(q) = {} /\ Elements(f) = {} BY <3>5 DEF Elements
    <3>7. Buffers \subseteq freed \cup {held}
      BY <3>2, <3>6 DEF Pool, Partition
    <3>8. freed \subseteq Buffers BY DEF IInv, TypeOK, PoolTypeOK
    <3> QED BY <3>7, <3>8, <2>2
  <2> QED BY <2>1, <2>2, <2>3
<1> QED BY <1>1, Invariance, PTL

-----------------------------------------------------------------------------
(* What the samples hold, and the abstract queue.                          *)

(* For any pool, push_audio_buffer fills only a buffer that is neither     *)
(* queued nor being played (main.c 148-152, 672): the first free buffer is *)
(* on neither list but its own.                                            *)
THEOREM AudioIntactCorrect == Spec => AudioIntact
<1> DEFINE Intact ==
      \A b \in Buffers : samples'[b] # samples[b] =>
         b # held /\ b \notin Elements(ListFrom(head))
<1>1. IInv /\ [Next]_vars => [Intact]_vars
  <2> SUFFICES ASSUME IInv, [Next]_vars,
                      NEW b \in Buffers, samples'[b] # samples[b]
               PROVE  b # held /\ b \notin Elements(ListFrom(head))
    OBVIOUS
  <2> HIDE DEF NULL, Buffers, MUTE
  <2>1. PoolTypeOK /\ ThreadTypeOK /\ HeldInv /\ PushInv /\ PoolInv
    BY DEF IInv, TypeOK, WaitInv
  <2>2. PICK q \in Seq(Buffers), f \in Seq(Buffers) : Pool(q, f)
    BY <2>1 DEF PoolInv
  <2>3. PICK c \in Seq(Buffers), g \in Seq(Buffers) : Move(q, f, c, g)
    BY <2>1, <2>2, NextMoves DEF Moves
  <2>4. PICK p \in Programs : Filled(q, f, c, g, p)
    BY <2>3 DEF Move, Taken, Released, Emptied, Returned, Unmoved
  <2>5. b = free /\ free \in Elements(f)
    BY <2>1, <2>4 DEF Filled, PoolTypeOK
  <2>6. ListFrom(head) = q BY <2>2, QueueIsListFrom
  <2> QED BY <2>2, <2>5, <2>6 DEF Pool, Partition
<1> QED BY <1>1, Invariance, PTL DEF Spec, AudioIntact

(* Live, for any pool and any sequence of keys, whatever is queued is      *)
(* audio of the selected program (main.c 131-159, 299-307).                *)
THEOREM LiveQueueCorrect == Spec => []LiveQueueIsCurrent
<1>1. Init => LiveQueueIsCurrent
  <2> SUFFICES ASSUME Init PROVE Elements(ListFrom(head)) = {}
    BY DEF LiveQueueIsCurrent
  <2>1. PICK q \in Seq(Buffers), f \in Seq(Buffers) : Pool(q, f)
    BY InitPool DEF PoolInv
  <2>2. head = NULL /\ IsList(next, head, q) BY <2>1 DEF Init, Pool, Partition
  <2> USE NoNullBuffer
  <2> HIDE DEF NULL, Buffers
  <2>3. q = <<>> BY <2>2, ListEnds
  <2>4. ListFrom(head) = q BY <2>1, QueueIsListFrom
  <2> QED BY <2>3, <2>4 DEF Elements
<1>2. IInv /\ LiveQueueIsCurrent /\ [Next]_vars => LiveQueueIsCurrent'
  <2> SUFFICES ASSUME IInv, LiveQueueIsCurrent, [Next]_vars, ~mode'.pipe
               PROVE  \A b \in Elements(ListFrom(head))' : samples'[b] = program'
    BY DEF LiveQueueIsCurrent
  <2> HIDE DEF NULL, Buffers, MUTE
  <2>1. PoolTypeOK /\ ThreadTypeOK /\ HeldInv /\ PushInv /\ PoolInv
    BY DEF IInv, TypeOK, WaitInv
  <2>2. PICK q \in Seq(Buffers), f \in Seq(Buffers) : Pool(q, f)
    BY <2>1 DEF PoolInv
  <2>3. PICK c \in Seq(Buffers), g \in Seq(Buffers) : Pool(c, g)' /\ Move(q, f, c, g)
    BY <2>1, <2>2, NextMoves DEF Moves
  <2>4. ~mode.pipe /\ \A b \in Elements(q) : samples[b] = program
    <3>1. mode' = mode BY <2>3 DEF Move
    <3> QED BY <2>2, <3>1, QueueIsListFrom DEF LiveQueueIsCurrent
  <2>5. Elements(ListFrom(head))' = Elements(c)
    BY <2>3, QueueIsListFromAfter DEF Elements
  <2> SUFFICES \A b \in Elements(c) : samples'[b] = program' BY <2>5
  <2>6. ASSUME NEW p \in Programs, Filled(q, f, c, g, p)
        PROVE  \A b \in Elements(c) : samples'[b] = program'
    <3>1. p = program /\ program' = program BY <2>4, <2>6 DEF Filled
    <3>2. free \in Buffers /\ free \notin Elements(q)
      <4>1. free \in Elements(f) BY <2>6 DEF Filled
      <4>2. Elements(f) \subseteq Buffers BY ElementOfSeq DEF Elements
      <4> QED BY <4>1, <4>2, <2>2 DEF Pool, Partition
    <3>3. /\ samples'[free] = p
          /\ \A b \in Buffers : b # free => samples'[b] = samples[b]
      BY <2>1, <2>6, <3>2 DEF Filled, PoolTypeOK
    <3>4. Elements(c) = Elements(q) \cup {free} BY <2>6, <3>2, AppendElements DEF Filled
    <3>5. Elements(q) \subseteq Buffers BY ElementOfSeq DEF Elements
    <3> QED BY <2>4, <3>1, <3>2, <3>3, <3>4, <3>5
  <2>7. CASE Taken(q, f, c, g)
    <3>1. Elements(c) \subseteq Elements(q) BY <2>7, TailElements DEF Taken
    <3> QED BY <2>4, <2>7, <3>1 DEF Taken
  <2>8. CASE Emptied(q, f, c, g) BY <2>8 DEF Emptied, Elements
  <2>9. CASE Released(q, f, c, g) \/ Returned(q, f, c, g) \/ Unmoved(q, f, c, g)
    BY <2>4, <2>9 DEF Released, Returned, Unmoved
  <2> QED BY <2>3, <2>6, <2>7, <2>8, <2>9 DEF Move
<1> QED BY <1>1, <1>2, Invariance, PTL DEF Spec

(* The pool with its threads, locks and pointers implements AudioQueue for *)
(* every number of buffers and set of programs: what is filled first is    *)
(* played first, once, and only a change of program throws audio away.     *)
THEOREM Refinement == Spec => QueueSpec
<1>1. Init => Queue!AInit
  <2> SUFFICES ASSUME Init PROVE Queue!AInit OBVIOUS
  <2>1. PICK q \in Seq(Buffers), f \in Seq(Buffers) : Pool(q, f)
    BY InitPool DEF PoolInv
  <2>2. ListFrom(head) = q /\ ListFrom(free) = f BY <2>1, QueueIsListFrom
  <2>3. head = NULL /\ IsList(next, head, q) /\ freed = {} /\ held = NULL
    BY <2>1 DEF Init, Pool, Partition
  <2>4. q = <<>>
    <3> USE NoNullBuffer
    <3> HIDE DEF NULL, Buffers
    <3> QED BY <2>3, ListEnds
  <2>5. Elements(q) = {} BY <2>4 DEF Elements
  <2>6. Elements(f) = Buffers
    <3>1. Elements(f) \subseteq Buffers
      <4> HIDE DEF Buffers
      <4> QED BY ElementOfSeq DEF Elements
    <3>2. Buffers \subseteq Elements(f) \cup {NULL}
      BY <2>1, <2>3, <2>5 DEF Pool, Partition
    <3> QED BY <3>1, <3>2, NoNullBuffer
  <2> QED BY <2>2, <2>3, <2>4, <2>6 DEF Init, Queue!AInit
<1>2. IInv /\ [Next]_vars => [Queue!ANext]_(Queue!avars)
  <2> SUFFICES ASSUME IInv, [Next]_vars
               PROVE  Queue!ANext \/ UNCHANGED Queue!avars
    OBVIOUS
  <2> HIDE DEF NULL, Buffers, MUTE
  <2>1. PoolTypeOK /\ ThreadTypeOK /\ HeldInv /\ PushInv /\ PoolInv
    BY DEF IInv, TypeOK, WaitInv
  <2>2. PICK q \in Seq(Buffers), f \in Seq(Buffers) : Pool(q, f)
    BY <2>1 DEF PoolInv
  <2>3. PICK c \in Seq(Buffers), g \in Seq(Buffers) : Pool(c, g)' /\ Move(q, f, c, g)
    BY <2>1, <2>2, NextMoves DEF Moves
  <2>4. ListFrom(head) = q /\ ListFrom(free) = f BY <2>2, QueueIsListFrom
  <2>5. ListFrom(head)' = c /\ Elements(ListFrom(free))' = Elements(g)
    BY <2>3, QueueIsListFromAfter DEF Elements
  <2>6. ASSUME NEW p \in Programs, Filled(q, f, c, g, p) PROVE Queue!ANext
    <3>1. free \in Elements(f) BY <2>6 DEF Filled
    <3>2. free \in Buffers
      <4>1. Elements(f) \subseteq Buffers BY ElementOfSeq DEF Elements
      <4> QED BY <3>1, <4>1
    <3>3. Queue!Fill(free, p)
      BY <2>4, <2>5, <2>6 DEF Filled, Queue!Fill
    <3> QED BY <3>2, <3>3 DEF Queue!ANext
  <2>7. CASE Taken(q, f, c, g)
    BY <2>4, <2>5, <2>7 DEF Taken, Queue!Play, Queue!ANext
  <2>8. CASE Released(q, f, c, g)
    BY <2>4, <2>5, <2>8 DEF Released, Queue!Recycle, Queue!ANext
  <2>9. CASE Emptied(q, f, c, g)
    <3>1. Queue!Queued = Elements(q) BY <2>4 DEF Queue!Queued, Elements
    <3>2. Queue!Select(program')
      BY <2>4, <2>5, <2>9, <3>1 DEF Emptied, Queue!Select
    <3> QED BY <2>9, <3>2 DEF Emptied, Queue!ANext
  <2>10. CASE Returned(q, f, c, g)
    <3>1. free \in Elements(f) BY <2>10 DEF Returned
    <3>2. free \in Buffers
      <4>1. Elements(f) \subseteq Buffers BY ElementOfSeq DEF Elements
      <4> QED BY <3>1, <4>1
    <3>3. Queue!Discard(free)
      BY <2>4, <2>5, <2>10 DEF Returned, Queue!Discard
    <3> QED BY <3>2, <3>3 DEF Queue!ANext
  <2>11. CASE Unmoved(q, f, c, g)
    BY <2>4, <2>5, <2>11 DEF Unmoved, Queue!avars
  <2> QED BY <2>3, <2>6, <2>7, <2>8, <2>9, <2>10, <2>11 DEF Move
<1> QED BY <1>1, <1>2, Invariance, PTL DEF Spec, QueueSpec, Queue!ASpec
=============================================================================
