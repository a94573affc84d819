-------------------------- MODULE DataPortsProofs ---------------------------
(***************************************************************************)
(* Proofs about DataPorts and the images it carries, for any tables, tiles *)
(* and lengths of packets and any losses the sequence numbers can tell:    *)
(* the table is what the station announced last; events point to records   *)
(* that live and none leak; images are whole and told once; and a loss     *)
(* costs only the image it falls in.                                       *)
(***************************************************************************)
EXTENDS DataPorts, FiniteSetTheorems, SequenceTheorems, TLAPS

(* Every non-empty set of natural numbers has a least element: inclusion   *)
(* is well-founded on the sets 0..k.  Proofs by induction use it on the    *)
(* places where a claim fails.                                             *)
LEMMA LeastNat ==
  ASSUME NEW D \in SUBSET Nat, D # {}
  PROVE  \E m \in D : \A k \in D : m <= k
<1> DEFINE R == StrictSubsetOrdering(Nat)
           F == FiniteSubsetsOf(Nat)
           T == {0..k : k \in D}
<1>1. \A k \in Nat : 0..k \in F
  BY FS_Interval, 0 \in Int, Nat \subseteq Int DEF FiniteSubsetsOf
<1>2. \A k, m \in Nat : k < m => <<0..k, 0..m>> \in R
  <2> TAKE k, m \in Nat
  <2>1. k < m => 0..k \subseteq 0..m /\ m \in 0..m /\ m \notin 0..k OBVIOUS
  <2> QED BY <2>1, 0..k \subseteq Nat, 0..m \subseteq Nat DEF StrictSubsetOrdering
<1>3. IsWellFoundedOn(R, F) BY FS_StrictSubsetOrderingWellFounded
<1>4. T \subseteq F /\ T # {} BY <1>1
<1> HIDE DEF R, F, T
<1>5. \E x \in T : \A y \in T : <<y, x>> \notin R
  BY <1>3, <1>4, WFMin
<1>6. PICK m \in D : \A k \in D : <<0..k, 0..m>> \notin R
  BY <1>5 DEF T
<1>7. \A k \in D : ~(k < m) BY <1>2, <1>6
<1> QED BY <1>7

(* The least of a set of numbers, as SelectInSeq and find_port take it.    *)
LEMMA LeastOf ==
  ASSUME NEW D \in SUBSET Nat, D # {}
  PROVE  Min(D) \in D /\ \A k \in D : Min(D) <= k
<1>1. \E m \in D : \A k \in D : m <= k BY LeastNat
<1> QED BY <1>1 DEF Min

LEMMA FirstOf ==
  ASSUME NEW n \in Nat, NEW D \in SUBSET (1..n)
  PROVE  (IF D # {} THEN Min(D) ELSE 0) \in 0..n
<1>1. D \in SUBSET Nat OBVIOUS
<1>2. CASE D = {} BY <1>2
<1>3. CASE D # {}
  <2>1. Min(D) \in D BY <1>1, <1>3, LeastOf
  <2>2. Min(D) \in 1..n BY <2>1
  <2> QED BY <1>3, <2>2
<1> QED BY <1>2, <1>3

-----------------------------------------------------------------------------
(* The table: parse_sig gives a sequence of services, each a sequence of   *)
(* components, and never an empty one.                                     *)
SigEntry == [entry : STRING, id : Nat, port : Nat, type : STRING]
Component == [id : Nat, kind : STRING, port : Nat, type : STRING, ext : Nat]
Service == [number : Nat, component : Seq(Component)]
Reading == [services : Seq(Service), at : Nat, done : BOOLEAN]

(* Where components go: the service read last is one of the table.         *)
AtService(t) == t.at \in 1..Len(t.services)

(* An entry put into a list, in its place or at the end.                   *)
LEMMA PutIs ==
  ASSUME NEW S, NEW list \in Seq(S), NEW k \in 0..Len(list), NEW x \in S
  PROVE  /\ Put(list, k, x) \in Seq(S)
         /\ Place(list, k) \in 1..Len(Put(list, k, x))
<1>0. Len(list) \in Nat OBVIOUS
<1>1. CASE k = 0
  <2>1. Put(list, k, x) = Append(list, x) BY <1>1 DEF Put
  <2>2. Append(list, x) \in Seq(S) /\ Len(Append(list, x)) = Len(list) + 1
    OBVIOUS
  <2> QED BY <1>0, <1>1, <2>1, <2>2 DEF Place
<1>2. CASE k # 0
  <2>1. Put(list, k, x) = [list EXCEPT ![k] = x] BY <1>2 DEF Put
  <2>2. list \in [1..Len(list) -> S] OBVIOUS
  <2>3. [list EXCEPT ![k] = x] \in [1..Len(list) -> S] BY <2>2
  <2>4. Put(list, k, x) \in Seq(S) /\ Len(Put(list, k, x)) = Len(list)
    BY <1>0, <2>1, <2>3, IsASeq
  <2> QED BY <1>0, <1>2, <2>4 DEF Place
<1> QED BY <1>1, <1>2

LEMMA ServiceRead ==
  ASSUME NEW t \in Reading, NEW e \in SigEntry
  PROVE  /\ WithService(t, e) \in Reading
         /\ AtService(t) \/ (t.services = << >> /\ ~t.done) =>
              AtService(WithService(t, e))
<1> DEFINE D == {i \in 1..Len(t.services) : t.services[i].number = e.id}
           k == SelectInSeq(t.services, LAMBDA s : s.number = e.id)
           x == [number |-> e.id, component |-> << >>]
<1>0. t.services \in Seq(Service) /\ Len(t.services) \in Nat BY DEF Reading
<1>1. k = IF D # {} THEN Min(D) ELSE 0 BY DEF SelectInSeq
<1>2. k \in 0..Len(t.services)
  <2>1. D \in SUBSET (1..Len(t.services)) OBVIOUS
  <2> HIDE DEF D, k
  <2> QED BY <1>0, <1>1, <2>1, FirstOf
<1>3. x \in Service BY DEF Service, SigEntry
<1>4. /\ Put(t.services, k, x) \in Seq(Service)
      /\ Place(t.services, k) \in 1..Len(Put(t.services, k, x))
  BY <1>0, <1>2, <1>3, PutIs
<1>5. CASE k = 0 /\ Len(t.services) = MAX_SIG_SERVICES
  <2>1. WithService(t, e) = [t EXCEPT !.done = TRUE] BY <1>5 DEF WithService
  <2>2. t.services # << >> BY <1>5, SigAssumption
  <2> QED BY <2>1, <2>2 DEF Reading, AtService
<1>6. CASE ~(k = 0 /\ Len(t.services) = MAX_SIG_SERVICES)
  <2>1. WithService(t, e) = [t EXCEPT !.at = Place(t.services, k),
                                      !.services = Put(t.services, k, x)]
    BY <1>6 DEF WithService, Reading
  <2>2. Len(Put(t.services, k, x)) \in Nat BY <1>4
  <2>3. Place(t.services, k) \in Nat BY <1>4, <2>2
  <2> HIDE DEF k, x
  <2> QED BY <2>1, <2>2, <2>3, <1>4 DEF Reading, AtService
<1> QED BY <1>5, <1>6

LEMMA ComponentRead ==
  ASSUME NEW t \in Reading, AtService(t), NEW e \in SigEntry
  PROVE  /\ WithComponent(t, e) \in Reading
         /\ AtService(WithComponent(t, e))
<1> DEFINE s == t.services[t.at]
           D == {i \in 1..Len(s.component) : s.component[i].id = e.id}
           k == find_component(s, e.id)
           x == [id |-> e.id, kind |-> e.entry, port |-> e.port,
                 type |-> e.type, ext |-> 0]
           list == Put(s.component, k, x)
<1>0. t.services \in Seq(Service) /\ t.at \in 1..Len(t.services) /\ s \in Service
  BY DEF Reading, AtService
<1>1. s.component \in Seq(Component) /\ Len(s.component) \in Nat
  BY <1>0 DEF Service
<1>2. k = IF D # {} THEN Min(D) ELSE 0 BY DEF find_component, SelectInSeq
<1>3. k \in 0..Len(s.component)
  <2>1. D \in SUBSET (1..Len(s.component)) OBVIOUS
  <2> HIDE DEF D, k, s
  <2> QED BY <1>1, <1>2, <2>1, FirstOf
<1>4. x \in Component BY DEF Component, SigEntry
<1>5. list \in Seq(Component) BY <1>1, <1>3, <1>4, PutIs
<1>6. CASE k = 0 /\ Len(s.component) = MAX_SIG_COMPONENTS
  <2>1. WithComponent(t, e) = [t EXCEPT !.done = TRUE]
    BY <1>6 DEF WithComponent
  <2> QED BY <2>1 DEF Reading, AtService
<1>7. CASE ~(k = 0 /\ Len(s.component) = MAX_SIG_COMPONENTS)
  <2>1. WithComponent(t, e) =
          [t EXCEPT !.services =
             [t.services EXCEPT ![t.at] = [s EXCEPT !.component = list]]]
    BY <1>0, <1>7 DEF WithComponent, Reading, Service
  <2>2. [s EXCEPT !.component = list] \in Service BY <1>0, <1>5 DEF Service
  <2> DEFINE new == [t.services EXCEPT ![t.at] = [s EXCEPT !.component = list]]
  <2>3. new \in [1..Len(t.services) -> Service] BY <1>0, <2>2
  <2>4. new \in Seq(Service) /\ Len(new) = Len(t.services)
    BY <1>0, <2>3, IsASeq
  <2>5. WithComponent(t, e) = [t EXCEPT !.services = new] BY <2>1
  <2> HIDE DEF new
  <2> QED BY <1>0, <2>4, <2>5 DEF Reading, AtService
<1> QED BY <1>6, <1>7

(* The parser stays within the types, and within the table.                *)
LEMMA EntryRead ==
  ASSUME NEW t \in Reading, NEW e \in SigEntry,
         AtService(t) \/ (t.services = << >> /\ ~t.done /\ e.entry = "service")
  PROVE  Entry(t, e) \in Reading /\ AtService(Entry(t, e))
<1>1. CASE t.done
  BY <1>1 DEF Entry
<1>2. CASE ~t.done /\ e.entry = "service"
  <2>1. Entry(t, e) = WithService(t, e) BY <1>2 DEF Entry
  <2> QED BY <1>2, <2>1, ServiceRead
<1>3. CASE ~t.done /\ e.entry \in {"data", "audio"}
  <2>1. Entry(t, e) = WithComponent(t, e) BY <1>3 DEF Entry
  <2> QED BY <1>3, <2>1, ComponentRead
<1>4. CASE ~t.done /\ e.entry = "bad"
  <2>1. Entry(t, e) = [t EXCEPT !.done = TRUE] BY <1>4 DEF Entry
  <2> QED BY <1>4, <2>1 DEF Reading, AtService
<1>5. CASE ~t.done /\ e.entry \notin {"service", "data", "audio", "bad"}
  <2>1. Entry(t, e) = t BY <1>5 DEF Entry
  <2> QED BY <1>5, <2>1
<1> QED BY <1>1, <1>2, <1>3, <1>4, <1>5

(* What the parser has read after each entry.                              *)
Reads(f, sig) ==
  /\ f[0] = [services |-> << >>, at |-> 0, done |-> FALSE]
  /\ \A k \in 1..Len(sig) : /\ f[k] = Entry(f[k - 1], sig[k])
                             /\ f[k] \in Reading /\ AtService(f[k])
  /\ Table(sig) = f[Len(sig)].services

(* There is such a function, the one Table is defined by.                  *)
LEMMA Readings ==
  ASSUME NEW sig \in Sigs
  PROVE  \E f : Reads(f, sig)
<1> DEFINE N == Len(sig)
           base == [services |-> << >>, at |-> 0, done |-> FALSE]
           Read(f, k) == IF k = 0 THEN base ELSE Entry(f[k - 1], sig[k])
           bad == {m \in 0..N : ~\E f : f = [k \in 0..m |-> Read(f, k)]}
<1>0. sig \in Seq(SigEntry) /\ N \in Nat \ {0} /\ sig[1].entry = "service"
  BY SigAssumption DEF SigEntry
<1>1. bad = {}
  <2> SUFFICES ASSUME bad # {} PROVE FALSE OBVIOUS
  <2>1. bad \in SUBSET Nat BY <1>0
  <2>2. PICK m \in bad : \A k \in bad : m <= k BY <2>1, LeastNat
  <2>3. CASE m = 0
    <3> DEFINE f == [k \in 0..0 |-> base]
    <3>1. f = [k \in 0..m |-> Read(f, k)] BY <2>3
    <3> QED BY <3>1, <2>2
  <2>4. CASE m # 0
    <3>1. m \in Nat /\ m - 1 \in 0..N /\ m \in 1..N BY <2>2, <2>4, <1>0
    <3>2. m - 1 \notin bad
      <4> HIDE DEF bad
      <4> QED BY <3>1, <2>2
    <3>3. PICK g : g = [k \in 0..(m - 1) |-> Read(g, k)] BY <3>1, <3>2
    <3> DEFINE f == [k \in 0..m |-> IF k = m THEN Read(g, m) ELSE g[k]]
    <3>4. \A k \in 0..m : f[k] = Read(f, k)
      <4> TAKE k \in 0..m
      <4>1. CASE k = m
        <5>1. f[k - 1] = g[k - 1] BY <4>1, <3>1
        <5> QED BY <4>1, <5>1
      <4>2. CASE k # m
        <5>1. k \in 0..(m - 1) BY <4>2, <3>1
        <5>2. f[k] = Read(g, k) BY <4>2, <5>1, <3>3
        <5>3. k # 0 => f[k - 1] = g[k - 1] BY <5>1, <3>1
        <5> QED BY <5>2, <5>3
      <4> QED BY <4>1, <4>2
    <3>5. f = [k \in 0..m |-> Read(f, k)] BY <3>4
    <3> QED BY <3>5, <2>2
  <2> QED BY <2>3, <2>4
<1> DEFINE read == CHOOSE f : f = [k \in 0..N |-> Read(f, k)]
<1>2. read = [k \in 0..N |-> Read(read, k)]
  <2>1. N \notin bad BY <1>1
  <2>2. \E f : f = [k \in 0..N |-> Read(f, k)] BY <2>1, <1>0
  <2> QED BY <2>2
<1>3. Table(sig) = read[N].services BY DEF Table
<1> HIDE DEF read, bad
<1>4. read[0] = base
  <2>1. 0 \in 0..N BY <1>0
  <2>2. read[0] = Read(read, 0) BY <1>2, <2>1
  <2> QED BY <2>2
<1>5. ASSUME NEW k \in 1..N PROVE read[k] = Entry(read[k - 1], sig[k])
  <2>1. k \in 0..N /\ k # 0 BY <1>0
  <2>2. read[k] = Read(read, k) BY <1>2, <2>1
  <2> QED BY <2>1, <2>2
<1> DEFINE fails == {m \in 1..N : ~(read[m] \in Reading /\ AtService(read[m]))}
<1>6. base \in Reading BY DEF Reading
<1>7. fails = {}
  <2> SUFFICES ASSUME fails # {} PROVE FALSE OBVIOUS
  <2>1. fails \in SUBSET Nat BY <1>0
  <2>2. PICK m \in fails : \A k \in fails : m <= k BY <2>1, LeastNat
  <2>3. m \in 1..N /\ sig[m] \in SigEntry BY <2>2, <1>0
  <2>4. read[m] = Entry(read[m - 1], sig[m]) BY <1>5, <2>3
  <2>5. CASE m = 1
    <3>1. read[m - 1] = base BY <2>5, <1>4
    <3>2. Entry(base, sig[m]) \in Reading /\ AtService(Entry(base, sig[m]))
      BY <1>0, <1>6, <2>3, <2>5, EntryRead
    <3> QED BY <2>2, <2>4, <3>1, <3>2
  <2>6. CASE m # 1
    <3>1. m - 1 \in 1..N /\ m - 1 \notin fails BY <2>2, <2>3, <2>6, <1>0
    <3>2. read[m - 1] \in Reading /\ AtService(read[m - 1]) BY <3>1
    <3>3. Entry(read[m - 1], sig[m]) \in Reading
          /\ AtService(Entry(read[m - 1], sig[m]))
      BY <2>3, <3>2, EntryRead
    <3> QED BY <2>2, <2>4, <3>3
  <2> QED BY <2>5, <2>6
<1> HIDE DEF base
<1>8. \A k \in 1..N : /\ read[k] = Entry(read[k - 1], sig[k])
                      /\ read[k] \in Reading /\ AtService(read[k])
  BY <1>5, <1>7
<1>9. read[0] = [services |-> << >>, at |-> 0, done |-> FALSE] BY <1>4 DEF base
<1> HIDE DEF N
<1>10. Reads(read, sig) BY <1>3, <1>8, <1>9 DEF N, Reads
<1> QED BY <1>10

(* nrsc5_report_sig is given a table that is not empty: otherwise the      *)
(* next SIG would be parsed as well and the records of this one lost.      *)
LEMMA TableRead ==
  ASSUME NEW sig \in Sigs
  PROVE  Table(sig) \in Seq(Service) /\ Table(sig) # << >>
<1>1. PICK f : Reads(f, sig) BY Readings
<1>2. Len(sig) \in 1..Len(sig) BY SigAssumption
<1>3. f[Len(sig)] \in Reading /\ AtService(f[Len(sig)]) BY <1>1, <1>2 DEF Reads
<1> QED BY <1>1, <1>3 DEF Reads, Reading, AtService

-----------------------------------------------------------------------------
(* What the table says.  The claim of TableIsAnnounced, for the first m    *)
(* entries of a table: which services they tell of, and which of the       *)
(* entries of components stand, that is, are not taken back later.         *)
HeadsTo(sig, m) == {j \in 1..m : sig[j].entry = "service"}
EntriesTo(sig, m) == {j \in 1..m : sig[j].entry \in {"data", "audio"}}
HeadOf(sig, j) == Max(HeadsTo(sig, j - 1))
Stands(sig, m) ==
  {j \in EntriesTo(sig, m) :
     /\ \A h \in HeadsTo(sig, m) :
          h > HeadOf(sig, j) => sig[h].id # sig[HeadOf(sig, j)].id
     /\ \A k \in EntriesTo(sig, m) :
          k > j /\ HeadOf(sig, k) = HeadOf(sig, j) => sig[k].id # sig[j].id}
OfService(sig, m, number) == {j \in Stands(sig, m) : sig[HeadOf(sig, j)].id = number}

(* A list of components tells the entries J, each once.                    *)
Tells(c, e) == c.id = e.id /\ c.kind = e.entry /\ c.port = e.port /\ c.type = e.type
Lists(list, sig, J) ==
  /\ \A a, b \in 1..Len(list) : list[a].id = list[b].id => a = b
  /\ \A c \in 1..Len(list) : \E j \in J : Tells(list[c], sig[j])
  /\ \A j \in J : \E c \in 1..Len(list) : Tells(list[c], sig[j])

Announces(table, sig, m) ==
  /\ \A a, b \in 1..Len(table) : table[a].number = table[b].number => a = b
  /\ \A s \in 1..Len(table) :
       /\ \E h \in HeadsTo(sig, m) : table[s].number = sig[h].id
       /\ Lists(table[s].component, sig, OfService(sig, m, table[s].number))
  /\ \A h \in HeadsTo(sig, m) : \E s \in 1..Len(table) : table[s].number = sig[h].id

(* The entries of a table.                                                 *)
LEMMA SigIs ==
  ASSUME NEW sig \in Sigs
  PROVE  /\ Len(sig) \in Nat \ {0} /\ sig[1].entry = "service"
         /\ \A m \in 1..Len(sig) : sig[m] \in SigEntry
<1>1. sig \in Seq(SigEntry) /\ sig # << >> /\ sig[1].entry = "service"
  BY SigAssumption DEF SigEntry
<1> QED BY <1>1

(* The greatest of a set of numbers.                                       *)
LEMMA GreatestOf ==
  ASSUME NEW n \in Nat, NEW D \in SUBSET (1..n), D # {}
  PROVE  Max(D) \in D /\ \A k \in D : Max(D) >= k
<1> DEFINE F == {n - k : k \in D}
<1>0. \A k \in D : n - k \in Nat OBVIOUS
<1>1. F \in SUBSET Nat /\ F # {} BY <1>0
<1>2. PICK m \in F : \A k \in F : m <= k BY <1>1, LeastNat
<1>3. PICK g \in D : m = n - g BY <1>2
<1>4. \A k \in D : g >= k
  <2> TAKE k \in D
  <2>1. n - g <= n - k BY <1>2, <1>3
  <2> QED BY <2>1
<1>5. \E x \in D : \A y \in D : x >= y BY <1>4
<1> QED BY <1>5 DEF Max

(* A table begins with a service, so that every later entry has a head.    *)
LEMMA HeadIs ==
  ASSUME NEW sig \in Sigs, NEW j \in 2..(Len(sig) + 1)
  PROVE  /\ HeadOf(sig, j) \in HeadsTo(sig, j - 1)
         /\ HeadOf(sig, j) \in 1..(j - 1) /\ HeadOf(sig, j) \in Nat /\ HeadOf(sig, j) < j
         /\ \A h \in HeadsTo(sig, j - 1) : HeadOf(sig, j) >= h
<1>1. Len(sig) \in Nat /\ sig[1].entry = "service" BY SigAssumption
<1>2. j - 1 \in Nat /\ HeadsTo(sig, j - 1) \in SUBSET (1..(j - 1)) BY <1>1 DEF HeadsTo
<1>3. 1 \in HeadsTo(sig, j - 1) BY <1>1 DEF HeadsTo
<1>4. /\ HeadOf(sig, j) \in HeadsTo(sig, j - 1)
      /\ \A h \in HeadsTo(sig, j - 1) : HeadOf(sig, j) >= h
  BY <1>2, <1>3, GreatestOf DEF HeadOf
<1> QED BY <1>1, <1>2, <1>4

(* A list without repetitions of members of a set, one of them not in it,  *)
(* is shorter than the set is large.                                       *)
LEMMA Room ==
  ASSUME NEW S, IsFiniteSet(S), NEW n \in Nat, NEW f \in [1..n -> S],
         \A a, b \in 1..n : f[a] = f[b] => a = b,
         NEW x \in S, \A a \in 1..n : f[a] # x
  PROVE  n < Cardinality(S)
<1> DEFINE g == [k \in 1..(n + 1) |-> IF k = n + 1 THEN x ELSE f[k]]
<1>1. \A k \in 1..(n + 1) : k = n + 1 \/ k \in 1..n OBVIOUS
<1>2. g \in [1..(n + 1) -> S] BY <1>1
<1>3. \A a, b \in 1..(n + 1) : g[a] = g[b] => a = b BY <1>1
<1>4. DOMAIN g = 1..(n + 1) OBVIOUS
<1> HIDE DEF g
<1>5. g \in Injection(1..(n + 1), S) BY <1>2, <1>3, <1>4 DEF Injection, IsInjective
<1>6. Cardinality(1..(n + 1)) <= Cardinality(S) BY <1>5, FS_Injection
<1>7. Cardinality(1..(n + 1)) = n + 1 BY FS_Interval
<1>8. Cardinality(S) \in Nat BY FS_CardinalityType
<1> QED BY <1>6, <1>7, <1>8

(* The identifiers of a table's entries are finitely many.                 *)
LEMMA IdsFinite ==
  ASSUME NEW sig \in Sigs, NEW S \in SUBSET {sig[j].id : j \in 1..Len(sig)}
  PROVE  IsFiniteSet(S)
<1> DEFINE T == {sig[j].id : j \in 1..Len(sig)}
           f == [j \in 1..Len(sig) |-> sig[j].id]
<1>1. Len(sig) \in Nat BY SigAssumption
<1>2. IsFiniteSet(1..Len(sig)) BY <1>1, FS_Interval
<1>3. f \in Surjection(1..Len(sig), T) BY DEF Surjection
<1>4. IsFiniteSet(T) BY <1>2, <1>3, FS_Surjection
<1> QED BY <1>4, FS_Subset

(* In a table that fits there is room for a service not read yet, ...      *)
LEMMA RoomForService ==
  ASSUME NEW sig \in Sigs, Fits(sig), NEW m \in 1..Len(sig), sig[m].entry = "service",
         NEW table \in Seq(Service), NEW l \in 0..m, Announces(table, sig, l),
         \A s \in 1..Len(table) : table[s].number # sig[m].id
  PROVE  Len(table) # MAX_SIG_SERVICES
<1> DEFINE S == {sig[h].id : h \in {j \in DOMAIN sig : sig[j].entry = "service"}}
           f == [s \in 1..Len(table) |-> table[s].number]
<1>1. sig \in Seq(SigEntry) /\ Len(sig) \in Nat /\ DOMAIN sig = 1..Len(sig)
  BY SigAssumption DEF SigEntry
<1>2. Cardinality(S) <= MAX_SIG_SERVICES BY DEF Fits
<1>3. IsFiniteSet(S)
  <2>1. S \in SUBSET {sig[j].id : j \in 1..Len(sig)} BY <1>1
  <2> QED BY <2>1, IdsFinite
<1>4. sig[m].id \in S BY <1>1
<1>5. f \in [1..Len(table) -> S]
  <2>1. ASSUME NEW s \in 1..Len(table) PROVE table[s].number \in S
    <3>1. PICK h \in HeadsTo(sig, l) : table[s].number = sig[h].id BY DEF Announces
    <3>2. h \in DOMAIN sig /\ sig[h].entry = "service" BY <1>1, <3>1 DEF HeadsTo
    <3> QED BY <3>1, <3>2
  <2> QED BY <2>1
<1>6. \A a, b \in 1..Len(table) : f[a] = f[b] => a = b BY DEF Announces
<1>7. \A a \in 1..Len(table) : f[a] # sig[m].id OBVIOUS
<1>8. Len(table) \in Nat /\ Cardinality(S) \in Nat BY <1>3, FS_CardinalityType
<1> HIDE DEF S, f
<1>9. Len(table) < Cardinality(S) BY <1>3, <1>4, <1>5, <1>6, <1>7, <1>8, Room
<1> QED BY <1>2, <1>8, <1>9, SigAssumption

(* ... and for a component.                                                *)
LEMMA RoomForComponent ==
  ASSUME NEW sig \in Sigs, Fits(sig), NEW m \in 1..Len(sig),
         sig[m].entry \in {"data", "audio"},
         NEW list \in Seq(Component), NEW J \in SUBSET EntriesTo(sig, Len(sig)),
         Lists(list, sig, J),
         \A c \in 1..Len(list) : list[c].id # sig[m].id
  PROVE  Len(list) # MAX_SIG_COMPONENTS
<1> DEFINE E == {e \in ToSet(sig) : e.entry \in {"data", "audio"}}
           S == {e.id : e \in E}
           f == [c \in 1..Len(list) |-> list[c].id]
<1>1. sig \in Seq(SigEntry) /\ Len(sig) \in Nat /\ DOMAIN sig = 1..Len(sig)
  BY SigAssumption DEF SigEntry
<1>2. Cardinality(S) <= MAX_SIG_COMPONENTS BY DEF Fits
<1>3. IsFiniteSet(S)
  <2>1. \A e \in E : \E j \in 1..Len(sig) : e = sig[j] BY <1>1 DEF ToSet
  <2>2. S \in SUBSET {sig[j].id : j \in 1..Len(sig)} BY <2>1
  <2> QED BY <2>2, IdsFinite
<1>4. \A j \in EntriesTo(sig, Len(sig)) : sig[j].id \in S
  BY <1>1 DEF EntriesTo, ToSet
<1>5. sig[m].id \in S BY <1>4 DEF EntriesTo
<1>6. f \in [1..Len(list) -> S]
  <2>1. \A c \in 1..Len(list) : list[c].id \in S BY <1>4 DEF Lists, Tells
  <2> QED BY <2>1
<1>7. \A a, b \in 1..Len(list) : f[a] = f[b] => a = b BY DEF Lists
<1>8. \A a \in 1..Len(list) : f[a] # sig[m].id OBVIOUS
<1>9. Len(list) \in Nat /\ Cardinality(S) \in Nat BY <1>3, FS_CardinalityType
<1> HIDE DEF S, f
<1>10. Len(list) < Cardinality(S) BY <1>3, <1>5, <1>6, <1>7, <1>8, <1>9, Room
<1> QED BY <1>2, <1>9, <1>10, SigAssumption

(* Intervals that are the same end at the same number.                     *)
LEMMA SameEnd ==
  ASSUME NEW a \in Nat, NEW b \in Nat, 1..a = 1..b
  PROVE  a = b
<1>1. a # 0 => a \in 1..b OBVIOUS
<1>2. b # 0 => b \in 1..a OBVIOUS
<1> QED BY <1>1, <1>2

(* What a list holds in which an entry was put.                            *)
LEMMA PutHas ==
  ASSUME NEW S, NEW list \in Seq(S), NEW k \in 0..Len(list), NEW x \in S
  PROVE  /\ Put(list, k, x)[Place(list, k)] = x
         /\ \A i \in 1..Len(list) :
              /\ i \in 1..Len(Put(list, k, x))
              /\ i # Place(list, k) => Put(list, k, x)[i] = list[i]
         /\ \A i \in 1..Len(Put(list, k, x)) : i = Place(list, k) \/ i \in 1..Len(list)
         /\ IF k = 0 THEN Place(list, k) \notin 1..Len(list)
                     ELSE Place(list, k) = k /\ k \in 1..Len(list)
<1>0. Len(list) \in Nat OBVIOUS
<1>1. CASE k = 0
  <2>1. Put(list, k, x) = Append(list, x) /\ Place(list, k) = Len(list) + 1
    BY <1>1 DEF Put, Place
  <2>2. /\ Len(Append(list, x)) = Len(list) + 1
        /\ \A i \in 1..(Len(list) + 1) :
             Append(list, x)[i] = IF i = Len(list) + 1 THEN x ELSE list[i]
    BY AppendProperties
  <2> QED BY <1>0, <1>1, <2>1, <2>2
<1>2. CASE k # 0
  <2>1. Put(list, k, x) = [list EXCEPT ![k] = x] /\ Place(list, k) = k
    BY <1>2 DEF Put, Place
  <2>2. list \in [1..Len(list) -> S] /\ k \in 1..Len(list) BY <1>0, <1>2
  <2>3. [list EXCEPT ![k] = x] \in [1..Len(list) -> S] BY <2>2
  <2>4. Len(Put(list, k, x)) = Len(list) BY <1>0, <2>1, <2>3, IsASeq
  <2> QED BY <1>2, <2>1, <2>2, <2>4
<1> QED BY <1>1, <1>2

(* What stands after one more entry.                                       *)
LEMMA EntriesHaveHeads ==
  ASSUME NEW sig \in Sigs, NEW m \in 0..Len(sig), NEW j \in EntriesTo(sig, m)
  PROVE  /\ j \in 2..m /\ j \in Nat /\ HeadOf(sig, j) \in HeadsTo(sig, m)
         /\ HeadOf(sig, j) \in Nat /\ HeadOf(sig, j) < j
<1>1. Len(sig) \in Nat /\ m \in Nat /\ sig[1].entry = "service" BY SigAssumption
<1>2. j \in 1..m /\ j # 1 BY <1>1 DEF EntriesTo
<1>3. j \in 2..m /\ j \in 2..(Len(sig) + 1) BY <1>1, <1>2
<1>4. /\ HeadOf(sig, j) \in HeadsTo(sig, j - 1)
      /\ HeadOf(sig, j) \in Nat /\ HeadOf(sig, j) < j
  BY <1>3, HeadIs
<1>5. HeadOf(sig, j) \in HeadsTo(sig, m) BY <1>1, <1>3, <1>4 DEF HeadsTo
<1> QED BY <1>3, <1>4, <1>5

LEMMA AfterService ==
  ASSUME NEW sig \in Sigs, NEW m \in 1..Len(sig), sig[m].entry = "service"
  PROVE  /\ HeadsTo(sig, m) = HeadsTo(sig, m - 1) \cup {m}
         /\ HeadOf(sig, m + 1) = m
         /\ \A n : OfService(sig, m, n) =
              IF n = sig[m].id THEN {} ELSE OfService(sig, m - 1, n)
<1>1. Len(sig) \in Nat /\ m \in Nat \ {0} /\ m - 1 \in 0..Len(sig) BY SigAssumption
<1>2. HeadsTo(sig, m) = HeadsTo(sig, m - 1) \cup {m} BY <1>1 DEF HeadsTo
<1>3. EntriesTo(sig, m) = EntriesTo(sig, m - 1)
  <2>1. \A j \in 1..m : j = m \/ j \in 1..(m - 1) BY <1>1
  <2>2. \A j \in 1..(m - 1) : j \in 1..m BY <1>1
  <2> QED BY <2>1, <2>2 DEF EntriesTo
<1>4. \A j \in EntriesTo(sig, m - 1) : HeadOf(sig, j) \in Nat /\ m > HeadOf(sig, j)
  <2> TAKE j \in EntriesTo(sig, m - 1)
  <2>1. j \in 2..(m - 1) /\ HeadOf(sig, j) \in Nat /\ HeadOf(sig, j) < j
    BY <1>1, EntriesHaveHeads
  <2> QED BY <1>1, <2>1
<1>5. Stands(sig, m) = {j \in Stands(sig, m - 1) : sig[HeadOf(sig, j)].id # sig[m].id}
  BY <1>2, <1>3, <1>4 DEF Stands
<1>6. \A n : OfService(sig, m, n) =
        IF n = sig[m].id THEN {} ELSE OfService(sig, m - 1, n)
  BY <1>5 DEF OfService
<1>7. HeadOf(sig, m + 1) = m
  <2>1. (m + 1) - 1 = m /\ m + 1 \in 2..(Len(sig) + 1) /\ m + 1 \in Nat BY <1>1
  <2>2. HeadOf(sig, m + 1) \in 1..m /\ \A h \in HeadsTo(sig, m) : HeadOf(sig, m + 1) >= h
    BY <2>1, HeadIs
  <2>3. HeadOf(sig, m + 1) >= m BY <1>2, <2>2
  <2> QED BY <1>1, <2>2, <2>3
<1> QED BY <1>2, <1>6, <1>7

LEMMA AfterComponent ==
  ASSUME NEW sig \in Sigs, NEW m \in 1..Len(sig), sig[m].entry \in {"data", "audio"}
  PROVE  /\ m \in 2..Len(sig)
         /\ HeadsTo(sig, m) = HeadsTo(sig, m - 1)
         /\ HeadOf(sig, m + 1) = HeadOf(sig, m)
         /\ \A n : OfService(sig, m, n) =
              IF n = sig[HeadOf(sig, m)].id
              THEN {j \in OfService(sig, m - 1, n) : sig[j].id # sig[m].id} \cup {m}
              ELSE OfService(sig, m - 1, n)
<1> DEFINE h == HeadOf(sig, m)
<1>1. /\ Len(sig) \in Nat /\ m \in Nat \ {0, 1} /\ m - 1 \in 0..Len(sig)
      /\ m \in 2..(Len(sig) + 1)
  BY SigAssumption
<1>2. /\ \A j \in 1..m : j = m \/ j \in 1..(m - 1)
      /\ \A j \in 1..(m - 1) : j \in 1..m
  BY <1>1
<1>3. HeadsTo(sig, m) = HeadsTo(sig, m - 1) BY <1>2 DEF HeadsTo
<1>4. EntriesTo(sig, m) = EntriesTo(sig, m - 1) \cup {m}
  <2>1. m \in EntriesTo(sig, m) BY <1>1 DEF EntriesTo
  <2> QED BY <1>2, <2>1 DEF EntriesTo
<1>5. h \in HeadsTo(sig, m) /\ h \in Nat /\ \A g \in HeadsTo(sig, m) : h >= g /\ g \in Nat
  BY <1>1, <1>3, HeadIs DEF HeadsTo
<1>6. \A j \in EntriesTo(sig, m - 1) :
        /\ HeadOf(sig, j) \in HeadsTo(sig, m) /\ HeadOf(sig, j) \in Nat
        /\ j \in Nat /\ m > j
  <2> TAKE j \in EntriesTo(sig, m - 1)
  <2>1. j \in 2..(m - 1) /\ HeadOf(sig, j) \in HeadsTo(sig, m - 1) BY <1>1, EntriesHaveHeads
  <2> QED BY <1>1, <1>3, <1>5, <2>1
<1>7. m \in Stands(sig, m)
  <2>1. \A g \in HeadsTo(sig, m) : ~(g > h) BY <1>5
  <2>2. \A k \in EntriesTo(sig, m) : ~(k > m) BY <1>1, <1>4, <1>6
  <2> QED BY <1>4, <2>1, <2>2 DEF Stands
<1>8. \A j \in EntriesTo(sig, m - 1) :
        j \in Stands(sig, m) <=>
          j \in Stands(sig, m - 1) /\ ~(h = HeadOf(sig, j) /\ sig[m].id = sig[j].id)
  BY <1>3, <1>4, <1>6 DEF Stands
<1>9. \A j \in Stands(sig, m - 1) :
        j \in EntriesTo(sig, m - 1) /\ (sig[HeadOf(sig, j)].id = sig[h].id => HeadOf(sig, j) = h)
  <2> TAKE j \in Stands(sig, m - 1)
  <2>1. j \in EntriesTo(sig, m - 1) BY DEF Stands
  <2>2. h >= HeadOf(sig, j) /\ HeadOf(sig, j) \in Nat BY <1>5, <1>6, <2>1
  <2>3. h > HeadOf(sig, j) => sig[h].id # sig[HeadOf(sig, j)].id
    BY <1>3, <1>5 DEF Stands
  <2> QED BY <1>5, <2>1, <2>2, <2>3
<1>10. \A j \in Stands(sig, m) : j = m \/ j \in EntriesTo(sig, m - 1) BY <1>4 DEF Stands
<1>11. m \notin Stands(sig, m - 1) BY <1>1, <1>6, <1>9
<1> HIDE DEF h
<1>12. ASSUME NEW n
       PROVE  OfService(sig, m, n) =
                IF n = sig[h].id
                THEN {j \in OfService(sig, m - 1, n) : sig[j].id # sig[m].id} \cup {m}
                ELSE OfService(sig, m - 1, n)
  <2>1. \A j : j \in OfService(sig, m, n) <=>
                 j \in Stands(sig, m) /\ sig[HeadOf(sig, j)].id = n
    BY DEF OfService
  <2>2. \A j : j \in OfService(sig, m - 1, n) <=>
                 j \in Stands(sig, m - 1) /\ sig[HeadOf(sig, j)].id = n
    BY DEF OfService
  <2>3. HeadOf(sig, m) = h BY DEF h
  <2>4. CASE n = sig[h].id
    <3>1. ASSUME NEW j
          PROVE  j \in OfService(sig, m, n) <=>
                   (j \in OfService(sig, m - 1, n) /\ sig[j].id # sig[m].id) \/ j = m
      BY <1>7, <1>8, <1>9, <1>10, <2>1, <2>2, <2>3, <2>4
    <3> QED BY <2>4, <3>1
  <2>5. CASE n # sig[h].id
    <3>1. ASSUME NEW j
          PROVE  j \in OfService(sig, m, n) <=> j \in OfService(sig, m - 1, n)
      BY <1>8, <1>9, <1>10, <2>1, <2>2, <2>3, <2>5
    <3> QED BY <2>5, <3>1
  <2> QED BY <2>4, <2>5
<1>13. HeadOf(sig, m + 1) = HeadOf(sig, m)
  <2>1. (m + 1) - 1 = m BY <1>1
  <2> QED BY <1>3, <2>1 DEF HeadOf
<1> QED BY <1>1, <1>3, <1>12, <1>13 DEF h

LEMMA AfterOther ==
  ASSUME NEW sig \in Sigs, NEW m \in 1..Len(sig),
         sig[m].entry \notin {"service", "data", "audio"}
  PROVE  /\ HeadsTo(sig, m) = HeadsTo(sig, m - 1)
         /\ HeadOf(sig, m + 1) = HeadOf(sig, m)
         /\ \A n : OfService(sig, m, n) = OfService(sig, m - 1, n)
<1>1. m \in Nat \ {0} BY SigAssumption
<1>2. /\ \A j \in 1..m : j = m \/ j \in 1..(m - 1)
      /\ \A j \in 1..(m - 1) : j \in 1..m
      /\ (m + 1) - 1 = m
  BY <1>1
<1>3. HeadsTo(sig, m) = HeadsTo(sig, m - 1) BY <1>2 DEF HeadsTo
<1>4. EntriesTo(sig, m) = EntriesTo(sig, m - 1) BY <1>2 DEF EntriesTo
<1>5. Stands(sig, m) = Stands(sig, m - 1) BY <1>3, <1>4 DEF Stands
<1> QED BY <1>2, <1>3, <1>5 DEF OfService, HeadOf

(* The parser, entry by entry: a service ...                               *)
LEMMA ServiceAnnounced ==
  ASSUME NEW sig \in Sigs, Fits(sig), NEW m \in 1..Len(sig), sig[m].entry = "service",
         NEW t \in Reading, ~t.done, Announces(t.services, sig, m - 1)
  PROVE  LET u == WithService(t, sig[m])
         IN  /\ ~u.done /\ Announces(u.services, sig, m)
             /\ u.services[u.at].number = sig[HeadOf(sig, m + 1)].id
<1> DEFINE e == sig[m]
           table == t.services
           D == {i \in 1..Len(table) : table[i].number = e.id}
           k == SelectInSeq(table, LAMBDA s : s.number = e.id)
           x == [number |-> e.id, component |-> << >>]
           new == Put(table, k, x)
           p == Place(table, k)
<1>0. /\ table \in Seq(Service) /\ Len(table) \in Nat
      /\ e \in SigEntry /\ m - 1 \in 0..m
  <2>1. table \in Seq(Service) BY DEF Reading
  <2>2. e \in SigEntry /\ m - 1 \in 0..m BY SigIs
  <2> QED BY <2>1, <2>2
<1>1. k = IF D # {} THEN Min(D) ELSE 0 BY DEF SelectInSeq
<1>2. k \in 0..Len(table) /\ (k # 0 => k \in D)
  <2>1. D \in SUBSET (1..Len(table)) /\ D \in SUBSET Nat OBVIOUS
  <2> HIDE DEF D, k
  <2> QED BY <1>0, <1>1, <2>1, FirstOf, LeastOf
<1>3. k = 0 => \A s \in 1..Len(table) : table[s].number # e.id
  <2>1. k = 0 => D = {}
    <3>1. D # {} => Min(D) \in D
      <4>1. D \in SUBSET Nat OBVIOUS
      <4> HIDE DEF D
      <4> QED BY <4>1, LeastOf
    <3> QED BY <1>1, <3>1
  <2> QED BY <2>1
<1>4. k # 0 => table[k].number = e.id BY <1>2
<1>5. x \in Service BY <1>0 DEF Service, SigEntry
<1>6. ~(k = 0 /\ Len(table) = MAX_SIG_SERVICES)
  BY <1>0, <1>3, RoomForService
<1>7. WithService(t, e) = [t EXCEPT !.at = p, !.services = new]
  BY <1>6 DEF WithService, Reading
<1> HIDE DEF k, x, new, p, D
<1>8. /\ new \in Seq(Service) /\ p \in 1..Len(new)
  BY <1>0, <1>2, <1>5, PutIs DEF new, p
<1>9. /\ new[p] = x
      /\ \A i \in 1..Len(table) : i \in 1..Len(new) /\ (i # p => new[i] = table[i])
      /\ \A i \in 1..Len(new) : i = p \/ i \in 1..Len(table)
      /\ IF k = 0 THEN p \notin 1..Len(table) ELSE p = k /\ k \in 1..Len(table)
  <2>1. /\ Put(table, k, x)[Place(table, k)] = x
        /\ \A i \in 1..Len(table) :
             /\ i \in 1..Len(Put(table, k, x))
             /\ i # Place(table, k) => Put(table, k, x)[i] = table[i]
        /\ \A i \in 1..Len(Put(table, k, x)) : i = Place(table, k) \/ i \in 1..Len(table)
        /\ IF k = 0 THEN Place(table, k) \notin 1..Len(table)
                    ELSE Place(table, k) = k /\ k \in 1..Len(table)
    <3> HIDE DEF table
    <3> QED BY <1>0, <1>2, <1>5, PutHas
  <2> QED BY <2>1 DEF new, p
<1>10. x.number = e.id /\ x.component = << >> BY DEF x
<1>11. /\ \A a, b \in 1..Len(table) : table[a].number = table[b].number => a = b
       /\ \A s \in 1..Len(table) :
            /\ \E h \in HeadsTo(sig, m - 1) : table[s].number = sig[h].id
            /\ Lists(table[s].component, sig, OfService(sig, m - 1, table[s].number))
       /\ \A h \in HeadsTo(sig, m - 1) : \E s \in 1..Len(table) : table[s].number = sig[h].id
  BY DEF Announces
<1>12. \A s \in 1..Len(new) : s # p =>
         /\ s \in 1..Len(table) /\ new[s] = table[s] /\ table[s].number # e.id
  BY <1>3, <1>4, <1>9, <1>11
<1>13. /\ HeadsTo(sig, m) = HeadsTo(sig, m - 1) \cup {m}
       /\ HeadOf(sig, m + 1) = m
       /\ \A n : OfService(sig, m, n) =
            IF n = e.id THEN {} ELSE OfService(sig, m - 1, n)
  BY AfterService
<1> HIDE DEF table, e
<1>14. Announces(new, sig, m)
  <2>1. \A a, b \in 1..Len(new) : new[a].number = new[b].number => a = b
    BY <1>9, <1>10, <1>11, <1>12
  <2>2. ASSUME NEW s \in 1..Len(new)
        PROVE  /\ \E h \in HeadsTo(sig, m) : new[s].number = sig[h].id
               /\ Lists(new[s].component, sig, OfService(sig, m, new[s].number))
    <3>1. CASE s = p
      <4>1. new[s].number = e.id /\ new[s].component = << >> BY <1>9, <1>10, <3>1
      <4>2. m \in HeadsTo(sig, m) /\ sig[m].id = e.id BY <1>13 DEF e
      <4>3. OfService(sig, m, new[s].number) = {} BY <1>13, <4>1
      <4>4. Lists(<< >>, sig, {}) BY DEF Lists
      <4> QED BY <4>1, <4>2, <4>3, <4>4
    <3>2. CASE s # p
      <4>1. /\ s \in 1..Len(table) /\ new[s] = table[s] /\ table[s].number # e.id
        BY <1>12, <3>2
      <4>2. OfService(sig, m, new[s].number) = OfService(sig, m - 1, table[s].number)
        BY <1>13, <4>1
      <4> QED BY <1>11, <1>13, <4>1, <4>2
    <3> QED BY <3>1, <3>2
  <2>3. ASSUME NEW h \in HeadsTo(sig, m)
        PROVE  \E s \in 1..Len(new) : new[s].number = sig[h].id
    <3>1. CASE h = m BY <1>8, <1>9, <1>10, <3>1 DEF e
    <3>2. CASE h # m
      <4>1. PICK s \in 1..Len(table) : table[s].number = sig[h].id
        BY <1>11, <1>13, <3>2
      <4>2. s \in 1..Len(new) BY <1>9
      <4>3. s # p => new[s].number = sig[h].id BY <1>9, <4>1
      <4>4. s = p => new[s].number = sig[h].id BY <1>4, <1>9, <1>10, <4>1
      <4> QED BY <4>2, <4>3, <4>4
    <3> QED BY <3>1, <3>2
  <2> QED BY <2>1, <2>2, <2>3 DEF Announces
<1>15. /\ WithService(t, e).done = t.done
       /\ WithService(t, e).services = new /\ WithService(t, e).at = p
  BY <1>7 DEF Reading
<1>16. new[p].number = sig[HeadOf(sig, m + 1)].id BY <1>9, <1>10, <1>13 DEF e
<1> QED BY <1>14, <1>15, <1>16 DEF e

(* ... a component of the service read last ...                            *)
LEMMA ListsOneMore ==
  ASSUME NEW sig \in Sigs, NEW m \in 1..Len(sig),
         NEW list \in Seq(Component), NEW x \in Component, Tells(x, sig[m]),
         NEW J, Lists(list, sig, J),
         NEW k \in 0..Len(list),
         IF k = 0 THEN \A c \in 1..Len(list) : list[c].id # x.id
                  ELSE list[k].id = x.id
  PROVE  Lists(Put(list, k, x), sig, {j \in J : sig[j].id # sig[m].id} \cup {m})
<1> DEFINE new == Put(list, k, x)
           p == Place(list, k)
           K == {j \in J : sig[j].id # sig[m].id} \cup {m}
<1>1. p \in 1..Len(new) BY PutIs
<1>2. /\ new[p] = x
      /\ \A i \in 1..Len(list) : i \in 1..Len(new) /\ (i # p => new[i] = list[i])
      /\ \A i \in 1..Len(new) : i = p \/ i \in 1..Len(list)
      /\ IF k = 0 THEN p \notin 1..Len(list) ELSE p = k /\ k \in 1..Len(list)
  BY PutHas
<1> HIDE DEF new, p
<1>3. /\ \A a, b \in 1..Len(list) : list[a].id = list[b].id => a = b
      /\ \A c \in 1..Len(list) : \E j \in J : Tells(list[c], sig[j])
      /\ \A j \in J : \E c \in 1..Len(list) : Tells(list[c], sig[j])
  BY DEF Lists
<1>4. x.id = sig[m].id BY DEF Tells
<1>5. \A c \in 1..Len(new) : c # p =>
        c \in 1..Len(list) /\ new[c] = list[c] /\ list[c].id # sig[m].id
  BY <1>2, <1>3, <1>4
<1>6. \A a, b \in 1..Len(new) : new[a].id = new[b].id => a = b
  BY <1>2, <1>3, <1>4, <1>5
<1>7. ASSUME NEW c \in 1..Len(new) PROVE \E j \in K : Tells(new[c], sig[j])
  <2>1. CASE c = p BY <1>2, <2>1
  <2>2. CASE c # p
    <3>1. PICK j \in J : Tells(list[c], sig[j]) BY <1>3, <1>5, <2>2
    <3>2. sig[j].id # sig[m].id BY <1>5, <2>2, <3>1 DEF Tells
    <3> QED BY <1>5, <2>2, <3>1, <3>2
  <2> QED BY <2>1, <2>2
<1>8. ASSUME NEW j \in K PROVE \E c \in 1..Len(new) : Tells(new[c], sig[j])
  <2>1. CASE j = m BY <1>1, <1>2, <2>1
  <2>2. CASE j # m
    <3>1. j \in J /\ sig[j].id # sig[m].id BY <2>2
    <3>2. PICK c \in 1..Len(list) : Tells(list[c], sig[j]) BY <1>3, <3>1
    <3>3. list[c].id # x.id BY <1>4, <3>1, <3>2 DEF Tells
    <3>4. c # p BY <1>2, <3>3
    <3> QED BY <1>2, <3>2, <3>4
  <2> QED BY <2>1, <2>2
<1> HIDE DEF K
<1>9. Lists(new, sig, K) BY <1>6, <1>7, <1>8 DEF Lists
<1> QED BY <1>9 DEF new, K

LEMMA ComponentAnnounced ==
  ASSUME NEW sig \in Sigs, Fits(sig), NEW m \in 1..Len(sig),
         sig[m].entry \in {"data", "audio"},
         NEW t \in Reading, ~t.done, AtService(t), Announces(t.services, sig, m - 1),
         t.services[t.at].number = sig[HeadOf(sig, m)].id
  PROVE  LET u == WithComponent(t, sig[m])
         IN  /\ ~u.done /\ Announces(u.services, sig, m)
             /\ u.services[u.at].number = sig[HeadOf(sig, m + 1)].id
<1> DEFINE e == sig[m]
           table == t.services
           s == table[t.at]
           D == {i \in 1..Len(s.component) : s.component[i].id = e.id}
           k == find_component(s, e.id)
           x == [id |-> e.id, kind |-> e.entry, port |-> e.port,
                 type |-> e.type, ext |-> 0]
           list == Put(s.component, k, x)
           n == s.number
           J == OfService(sig, m - 1, n)
<1>0. /\ table \in Seq(Service) /\ t.at \in 1..Len(table) /\ s \in Service
      /\ e \in SigEntry /\ Len(table) \in Nat
  <2>1. table \in Seq(Service) BY DEF Reading
  <2>2. t.at \in 1..Len(table) BY DEF AtService
  <2>3. e \in SigEntry BY SigIs
  <2> QED BY <2>1, <2>2, <2>3
<1>1. s.component \in Seq(Component) /\ Len(s.component) \in Nat
  BY <1>0 DEF Service
<1>2. k = IF D # {} THEN Min(D) ELSE 0 BY DEF find_component, SelectInSeq
<1>3. k \in 0..Len(s.component) /\ (k # 0 => k \in D) /\ (k = 0 => D = {})
  <2>1. D \in SUBSET (1..Len(s.component)) /\ D \in SUBSET Nat OBVIOUS
  <2>2. D # {} => Min(D) \in D
    <3> HIDE DEF D
    <3> QED BY <2>1, LeastOf
  <2> HIDE DEF D, k, s
  <2>3. k \in 0..Len(s.component) BY <1>1, <1>2, <2>1, FirstOf
  <2>4. 0 \notin D BY <2>1
  <2> QED BY <1>2, <2>2, <2>3, <2>4
<1>4. IF k = 0 THEN \A c \in 1..Len(s.component) : s.component[c].id # e.id
               ELSE s.component[k].id = e.id
  BY <1>3
<1>5. x \in Component /\ Tells(x, e) /\ x.id = e.id
  BY <1>0 DEF Component, SigEntry, Tells
<1>6. Lists(s.component, sig, J) BY <1>0 DEF Announces
<1>7. ~(k = 0 /\ Len(s.component) = MAX_SIG_COMPONENTS)
  <2>1. J \in SUBSET EntriesTo(sig, Len(sig))
    <3>1. Len(sig) \in Nat /\ m - 1 <= Len(sig) /\ m \in Nat BY SigAssumption
    <3>2. \A j \in 1..(m - 1) : j \in 1..Len(sig) BY <3>1
    <3> QED BY <3>2 DEF OfService, Stands, EntriesTo
  <2> HIDE DEF J, s, k
  <2> QED BY <1>1, <1>4, <1>6, <2>1, RoomForComponent
<1>8. WithComponent(t, e) =
        [t EXCEPT !.services =
           [table EXCEPT ![t.at] = [s EXCEPT !.component = list]]]
  BY <1>0, <1>7 DEF WithComponent, Reading, Service
<1> HIDE DEF k, x, D
<1>9. list \in Seq(Component) BY <1>1, <1>3, <1>5, PutIs
<1>10. Lists(list, sig, {j \in J : sig[j].id # sig[m].id} \cup {m})
  <2> HIDE DEF s, J
  <2> QED BY <1>1, <1>3, <1>4, <1>5, <1>6, ListsOneMore
<1> DEFINE more == [s EXCEPT !.component = list]
           new == [table EXCEPT ![t.at] = more]
<1>11. more.number = n /\ more.component = list /\ more \in Service
  BY <1>0, <1>9 DEF Service
<1>12. /\ new[t.at] = more /\ \A i \in 1..Len(table) : i # t.at => new[i] = table[i]
       /\ new \in [1..Len(table) -> Service]
  BY <1>0, <1>11
<1>13. Len(new) = Len(table)
  <2> HIDE DEF new
  <2> QED BY <1>0, <1>12, IsASeq
<1>14. /\ \A a, b \in 1..Len(table) : table[a].number = table[b].number => a = b
       /\ \A i \in 1..Len(table) :
            /\ \E h \in HeadsTo(sig, m - 1) : table[i].number = sig[h].id
            /\ Lists(table[i].component, sig, OfService(sig, m - 1, table[i].number))
       /\ \A h \in HeadsTo(sig, m - 1) : \E i \in 1..Len(table) : table[i].number = sig[h].id
  BY DEF Announces
<1>15. /\ HeadsTo(sig, m) = HeadsTo(sig, m - 1)
       /\ HeadOf(sig, m + 1) = HeadOf(sig, m)
       /\ \A q : OfService(sig, m, q) =
            IF q = sig[HeadOf(sig, m)].id
            THEN {j \in OfService(sig, m - 1, q) : sig[j].id # sig[m].id} \cup {m}
            ELSE OfService(sig, m - 1, q)
  BY AfterComponent
<1>16. n = sig[HeadOf(sig, m)].id /\ n = table[t.at].number OBVIOUS
<1>17. OfService(sig, m, n) = {j \in J : sig[j].id # sig[m].id} \cup {m}
  BY <1>15, <1>16
<1> HIDE DEF new, more, list, s, table, n, J
<1>18. \A i \in 1..Len(table) : new[i].number = table[i].number
  BY <1>11, <1>12, <1>16
<1>19. Announces(new, sig, m)
  <2>1. \A a, b \in 1..Len(new) : new[a].number = new[b].number => a = b
    BY <1>13, <1>14, <1>18
  <2>2. ASSUME NEW i \in 1..Len(new)
        PROVE  /\ \E h \in HeadsTo(sig, m) : new[i].number = sig[h].id
               /\ Lists(new[i].component, sig, OfService(sig, m, new[i].number))
    <3>0. i \in 1..Len(table) BY <1>13
    <3>1. \E h \in HeadsTo(sig, m) : new[i].number = sig[h].id
      BY <1>14, <1>15, <1>18, <3>0
    <3>2. CASE i = t.at
      BY <1>10, <1>11, <1>12, <1>17, <3>1, <3>2
    <3>3. CASE i # t.at
      <4>1. new[i] = table[i] BY <1>12, <3>0, <3>3
      <4>2. table[i].number # n BY <1>0, <1>14, <1>16, <3>0, <3>3
      <4>3. OfService(sig, m, new[i].number) = OfService(sig, m - 1, table[i].number)
        BY <1>15, <1>16, <4>1, <4>2
      <4> QED BY <1>14, <3>0, <3>1, <4>1, <4>3
    <3> QED BY <3>2, <3>3
  <2>3. \A h \in HeadsTo(sig, m) : \E i \in 1..Len(new) : new[i].number = sig[h].id
    BY <1>13, <1>14, <1>15, <1>18
  <2> QED BY <2>1, <2>2, <2>3 DEF Announces
<1>20. /\ WithComponent(t, e).done = t.done
       /\ WithComponent(t, e).services = new /\ WithComponent(t, e).at = t.at
  BY <1>8 DEF Reading, new, more
<1>21. new[t.at].number = sig[HeadOf(sig, m + 1)].id BY <1>11, <1>12, <1>15, <1>16
<1> QED BY <1>19, <1>20, <1>21

(* ... and any other.  An entry that cannot be read ends the table.        *)
ReadTo(t, sig, k) ==
  \/ /\ ~t.done /\ \A j \in 1..k : sig[j].entry # "bad"
     /\ Announces(t.services, sig, k)
     /\ k > 0 => t.services[t.at].number = sig[HeadOf(sig, k + 1)].id
  \/ /\ t.done
     /\ \E b \in 1..k :
          /\ sig[b].entry = "bad" /\ \A j \in 1..(b - 1) : sig[j].entry # "bad"
          /\ Announces(t.services, sig, b - 1)

LEMMA EntryAnnounced ==
  ASSUME NEW sig \in Sigs, Fits(sig), NEW m \in 1..Len(sig), NEW t \in Reading,
         m # 1 => AtService(t), ReadTo(t, sig, m - 1)
  PROVE  ReadTo(Entry(t, sig[m]), sig, m)
<1> DEFINE e == sig[m]
           u == Entry(t, e)
<1>1. /\ m \in Nat \ {0} /\ (m # 1 => m - 1 > 0) /\ (m - 1) + 1 = m /\ m > 0
      /\ \A j \in 1..m : j = m \/ j \in 1..(m - 1)
      /\ \A j \in 1..(m - 1) : j \in 1..m
      /\ sig[1].entry = "service"
  BY SigIs
<1>2. CASE t.done
  <2>1. u = t BY <1>2 DEF Entry
  <2>2. PICK b \in 1..(m - 1) :
          /\ sig[b].entry = "bad" /\ \A j \in 1..(b - 1) : sig[j].entry # "bad"
          /\ Announces(t.services, sig, b - 1)
    BY <1>2 DEF ReadTo
  <2>3. b \in 1..m BY <1>1
  <2> HIDE DEF u
  <2> QED BY <1>2, <2>1, <2>2, <2>3 DEF ReadTo, u
<1>3. ASSUME ~t.done
      PROVE  /\ \A j \in 1..(m - 1) : sig[j].entry # "bad"
             /\ Announces(t.services, sig, m - 1)
             /\ m # 1 => t.services[t.at].number = sig[HeadOf(sig, m)].id
  BY <1>1, <1>3 DEF ReadTo
<1>4. CASE ~t.done /\ e.entry = "service"
  <2>1. u = WithService(t, e) BY <1>4 DEF Entry
  <2>2. /\ ~u.done /\ Announces(u.services, sig, m)
        /\ u.services[u.at].number = sig[HeadOf(sig, m + 1)].id
    BY <1>3, <1>4, <2>1, ServiceAnnounced
  <2>3. \A j \in 1..m : sig[j].entry # "bad" BY <1>1, <1>3, <1>4
  <2> HIDE DEF u
  <2> QED BY <2>2, <2>3 DEF ReadTo, u
<1>5. CASE ~t.done /\ e.entry \in {"data", "audio"}
  <2>0. m # 1 BY <1>1, <1>5
  <2>1. u = WithComponent(t, e) BY <1>5 DEF Entry
  <2>2. /\ ~u.done /\ Announces(u.services, sig, m)
        /\ u.services[u.at].number = sig[HeadOf(sig, m + 1)].id
    BY <1>3, <1>5, <2>0, <2>1, ComponentAnnounced
  <2>3. \A j \in 1..m : sig[j].entry # "bad" BY <1>1, <1>3, <1>5
  <2> HIDE DEF u
  <2> QED BY <2>2, <2>3 DEF ReadTo, u
<1>6. CASE ~t.done /\ e.entry = "bad"
  <2>1. u = [t EXCEPT !.done = TRUE] BY <1>6 DEF Entry
  <2>2. u.done /\ u.services = t.services BY <2>1 DEF Reading
  <2>3. m \in 1..m BY <1>1
  <2> HIDE DEF u
  <2> QED BY <1>3, <1>6, <2>2, <2>3 DEF ReadTo, u
<1>7. CASE ~t.done /\ e.entry \notin {"service", "data", "audio", "bad"}
  <2>0. m # 1 BY <1>1, <1>7
  <2>1. u = t BY <1>7 DEF Entry
  <2>2. /\ HeadsTo(sig, m) = HeadsTo(sig, m - 1)
        /\ HeadOf(sig, m + 1) = HeadOf(sig, m)
        /\ \A n : OfService(sig, m, n) = OfService(sig, m - 1, n)
    BY <1>7, AfterOther
  <2>3. Announces(t.services, sig, m) BY <1>3, <1>7, <2>2 DEF Announces
  <2>4. \A j \in 1..m : sig[j].entry # "bad" BY <1>1, <1>3, <1>7
  <2> HIDE DEF u
  <2> QED BY <1>3, <1>7, <2>0, <2>1, <2>2, <2>3, <2>4 DEF ReadTo, u
<1> QED BY <1>2, <1>4, <1>5, <1>6, <1>7

(* The whole table: what parse_sig gives announces the entries up to the   *)
(* first that cannot be read.                                              *)
Readable(sig) ==
  LET bad == SelectInSeq(sig, LAMBDA e : e.entry = "bad")
  IN IF bad = 0 THEN Len(sig) ELSE bad - 1

LEMMA TableAnnounced ==
  ASSUME NEW sig \in Sigs, Fits(sig)
  PROVE  Announces(Table(sig), sig, Readable(sig))
<1> DEFINE N == Len(sig)
           base == [services |-> << >>, at |-> 0, done |-> FALSE]
<1>1. N \in Nat \ {0} BY SigIs
<1>2. PICK f : Reads(f, sig) BY Readings
<1>3. f[0] = base /\ Table(sig) = f[N].services BY <1>2 DEF Reads
<1>4. \A k \in 1..N : /\ f[k] = Entry(f[k - 1], sig[k])
                      /\ f[k] \in Reading /\ AtService(f[k])
  BY <1>2 DEF Reads
<1>5. base \in Reading /\ ReadTo(base, sig, 0)
  <2>1. HeadsTo(sig, 0) = {} BY DEF HeadsTo
  <2>2. Announces(<< >>, sig, 0) BY <2>1 DEF Announces
  <2> QED BY <2>2 DEF Reading, ReadTo
<1> DEFINE fails == {m \in 0..N : ~ReadTo(f[m], sig, m)}
<1>6. fails = {}
  <2> SUFFICES ASSUME fails # {} PROVE FALSE OBVIOUS
  <2>1. fails \in SUBSET Nat BY <1>1
  <2>2. PICK m \in fails : \A k \in fails : m <= k BY <2>1, LeastNat
  <2>3. m # 0 BY <1>3, <1>5, <2>2
  <2>4. m \in 1..N /\ m - 1 \in 0..N /\ (m # 1 => m - 1 \in 1..N) BY <1>1, <2>2, <2>3
  <2>5. m - 1 \notin fails BY <2>2, <2>4
  <2>6. ReadTo(f[m - 1], sig, m - 1) BY <2>4, <2>5
  <2>7. f[m - 1] \in Reading /\ (m # 1 => AtService(f[m - 1]))
    <3>1. CASE m = 1 BY <1>3, <1>5, <3>1
    <3>2. CASE m # 1 BY <1>4, <2>4, <3>2
    <3> QED BY <3>1, <3>2
  <2>8. ReadTo(Entry(f[m - 1], sig[m]), sig, m) BY <2>4, <2>6, <2>7, EntryAnnounced
  <2> QED BY <1>4, <2>2, <2>4, <2>8
<1>7. ReadTo(f[N], sig, N) BY <1>1, <1>6
<1> DEFINE D == {j \in 1..N : sig[j].entry = "bad"}
           bad == SelectInSeq(sig, LAMBDA e : e.entry = "bad")
<1>8. bad = IF D # {} THEN Min(D) ELSE 0 BY DEF SelectInSeq
<1>9. Readable(sig) = IF bad = 0 THEN N ELSE bad - 1 BY DEF Readable
<1> HIDE DEF bad
<1>10. CASE D = {}
  <2>1. \A j \in 1..N : sig[j].entry # "bad" BY <1>10
  <2>2. Announces(f[N].services, sig, N) BY <1>7, <2>1 DEF ReadTo
  <2> QED BY <1>3, <1>8, <1>9, <1>10, <2>2
<1>11. CASE D # {}
  <2>1. D \in SUBSET Nat BY <1>1
  <2>2. Min(D) \in D /\ \A k \in D : Min(D) <= k
    <3> HIDE DEF D
    <3> QED BY <1>11, <2>1, LeastOf
  <2>3. PICK b \in 1..N :
          /\ sig[b].entry = "bad" /\ \A j \in 1..(b - 1) : sig[j].entry # "bad"
          /\ Announces(f[N].services, sig, b - 1)
    BY <1>7, <2>2 DEF ReadTo
  <2>4. Min(D) = b
    <3>1. b \in D /\ Min(D) <= b BY <2>2, <2>3
    <3>2. Min(D) \in 1..N /\ sig[Min(D)].entry = "bad" BY <2>2
    <3>3. Min(D) \notin 1..(b - 1) BY <2>3, <3>2
    <3> QED BY <1>1, <3>1, <3>2, <3>3
  <2>5. bad = b /\ b # 0 BY <1>1, <1>8, <1>11, <2>4
  <2> QED BY <1>3, <1>9, <2>3, <2>5
<1> QED BY <1>10, <1>11

(* What announces the entries of a table is what TableIsAnnounced asks     *)
(* for.                                                                    *)
LEMMA AnnouncesIs ==
  ASSUME NEW sig \in Sigs, NEW table \in Seq(Service),
         Announces(table, sig, Readable(sig))
  PROVE  /\ Announced(sig) =
              UNION {{[number |-> table[s].number, id |-> c.id, kind |-> c.kind,
                       port |-> c.port, type |-> c.type] : c \in ToSet(table[s].component)}
                     : s \in DOMAIN table}
         /\ \A s \in DOMAIN table :
              /\ IsInjective([t \in DOMAIN table |-> table[t].number])
              /\ IsInjective([c \in DOMAIN table[s].component |->
                                table[s].component[c].id])
<1> DEFINE m == Readable(sig)
           Row(j) == [number |-> sig[HeadOf(sig, j)].id, id |-> sig[j].id,
                      kind |-> sig[j].entry, port |-> sig[j].port, type |-> sig[j].type]
           Of(s, c) == [number |-> table[s].number, id |-> c.id, kind |-> c.kind,
                        port |-> c.port, type |-> c.type]
           rows == UNION {{Of(s, c) : c \in ToSet(table[s].component)} : s \in DOMAIN table}
<1>1. m \in 0..Len(sig) /\ m \in Nat /\ Len(sig) \in Nat
  <2> DEFINE D == {j \in 1..Len(sig) : sig[j].entry = "bad"}
             bad == SelectInSeq(sig, LAMBDA e : e.entry = "bad")
  <2>1. Len(sig) \in Nat BY SigIs
  <2>2. bad = IF D # {} THEN Min(D) ELSE 0 BY DEF SelectInSeq
  <2>3. bad \in 0..Len(sig)
    <3>1. D \in SUBSET (1..Len(sig)) OBVIOUS
    <3> HIDE DEF D, bad
    <3> QED BY <2>1, <2>2, <3>1, FirstOf
  <2>4. m = IF bad = 0 THEN Len(sig) ELSE bad - 1 BY DEF Readable
  <2> HIDE DEF bad, m
  <2> QED BY <2>1, <2>3, <2>4
<1>2. Announced(sig) = {Row(j) : j \in Stands(sig, m)}
  <2> DEFINE heads == {j \in 1..m : sig[j].entry = "service"}
             entries == {j \in 1..m : sig[j].entry \in {"data", "audio"}}
             Head_(j) == Max({h \in heads : h < j})
             last == {j \in entries :
                        /\ \A h \in heads : h > Head_(j) => sig[h].id # sig[Head_(j)].id
                        /\ \A k \in entries :
                             k > j /\ Head_(k) = Head_(j) => sig[k].id # sig[j].id}
             Row_(j) == [number |-> sig[Head_(j)].id, id |-> sig[j].id,
                         kind |-> sig[j].entry, port |-> sig[j].port, type |-> sig[j].type]
  <2>1. Announced(sig) = {Row_(j) : j \in last} BY DEF Announced, Readable
  <2> HIDE DEF m
  <2>2. heads = HeadsTo(sig, m) /\ entries = EntriesTo(sig, m) BY DEF HeadsTo, EntriesTo
  <2>3. \A j \in entries : Head_(j) = HeadOf(sig, j)
    <3> TAKE j \in entries
    <3>1. \A h : h \in 1..m /\ h < j <=> h \in 1..(j - 1) BY <1>1
    <3>2. {h \in heads : h < j} = HeadsTo(sig, j - 1) BY <3>1 DEF HeadsTo
    <3> QED BY <3>2 DEF HeadOf
  <2> HIDE DEF heads, entries, Head_
  <2>4. last = Stands(sig, m) BY <2>2, <2>3 DEF Stands
  <2>5. \A j \in last : j \in entries OBVIOUS
  <2>6. \A j \in last : Row_(j) = Row(j) BY <2>3, <2>5
  <2> HIDE DEF last, Row, Row_
  <2> QED BY <2>1, <2>4, <2>6
<1>3. /\ DOMAIN table = 1..Len(table)
      /\ \A s \in DOMAIN table :
           /\ DOMAIN table[s].component = 1..Len(table[s].component)
           /\ ToSet(table[s].component) =
                {table[s].component[c] : c \in 1..Len(table[s].component)}
  <2>1. \A s \in DOMAIN table : table[s].component \in Seq(Component)
    <3> TAKE s \in DOMAIN table
    <3>1. table[s] \in Service OBVIOUS
    <3> QED BY <3>1 DEF Service
  <2> QED BY <2>1 DEF ToSet
<1> HIDE DEF m
<1>4. /\ \A a, b \in 1..Len(table) : table[a].number = table[b].number => a = b
      /\ \A s \in 1..Len(table) :
           /\ \E h \in HeadsTo(sig, m) : table[s].number = sig[h].id
           /\ Lists(table[s].component, sig, OfService(sig, m, table[s].number))
      /\ \A h \in HeadsTo(sig, m) : \E s \in 1..Len(table) : table[s].number = sig[h].id
  BY DEF Announces, m
<1>5. ASSUME NEW j \in Stands(sig, m) PROVE Row(j) \in rows
  <2>1. HeadOf(sig, j) \in HeadsTo(sig, m) BY <1>1, EntriesHaveHeads DEF Stands
  <2>2. PICK s \in 1..Len(table) : table[s].number = sig[HeadOf(sig, j)].id
    BY <1>4, <2>1
  <2>3. j \in OfService(sig, m, table[s].number) BY <2>2 DEF OfService
  <2>4. PICK c \in 1..Len(table[s].component) : Tells(table[s].component[c], sig[j])
    <3>1. Lists(table[s].component, sig, OfService(sig, m, table[s].number))
      BY <1>4, <2>2
    <3> QED BY <2>3, <3>1 DEF Lists
  <2>5. Row(j) = Of(s, table[s].component[c]) BY <2>2, <2>4 DEF Tells
  <2>6. table[s].component[c] \in ToSet(table[s].component) BY <1>3, <2>4
  <2> HIDE DEF Row, Of
  <2> QED BY <1>3, <2>5, <2>6
<1>6. ASSUME NEW r \in rows PROVE \E j \in Stands(sig, m) : r = Row(j)
  <2>1. PICK s \in DOMAIN table : r \in {Of(s, c) : c \in ToSet(table[s].component)}
    <3> HIDE DEF Of
    <3> QED BY <1>6
  <2>2. PICK c \in 1..Len(table[s].component) : r = Of(s, table[s].component[c])
    <3> HIDE DEF Of
    <3>1. PICK d \in ToSet(table[s].component) : r = Of(s, d) BY <2>1
    <3>2. PICK c \in 1..Len(table[s].component) : d = table[s].component[c]
      BY <1>3, <3>1
    <3> QED BY <3>1, <3>2
  <2>3. PICK j \in OfService(sig, m, table[s].number) : Tells(table[s].component[c], sig[j])
    BY <1>3, <1>4, <2>2 DEF Lists
  <2>4. j \in Stands(sig, m) /\ sig[HeadOf(sig, j)].id = table[s].number
    BY <2>3 DEF OfService
  <2>5. r = Row(j) BY <2>2, <2>3, <2>4 DEF Tells
  <2> QED BY <2>4, <2>5
<1> HIDE DEF Row, rows
<1>7. Announced(sig) = rows BY <1>2, <1>5, <1>6
<1>8. IsInjective([t \in DOMAIN table |-> table[t].number])
  BY <1>3, <1>4 DEF IsInjective
<1>9. ASSUME NEW s \in DOMAIN table
      PROVE  IsInjective([c \in DOMAIN table[s].component |-> table[s].component[c].id])
  <2> DEFINE list == table[s].component
  <2>1. DOMAIN list = 1..Len(list) BY <1>3
  <2>2. \A a, b \in 1..Len(list) : list[a].id = list[b].id => a = b
    BY <1>3, <1>4 DEF Lists
  <2> HIDE DEF list
  <2>3. IsInjective([c \in DOMAIN list |-> list[c].id]) BY <2>1, <2>2 DEF IsInjective
  <2> QED BY <2>3 DEF list
<1> QED BY <1>7, <1>8, <1>9 DEF rows

(* The records of a component are not part of what is announced.           *)
LEMMA SameAnnounced ==
  ASSUME NEW sig, NEW m, NEW table, NEW new, Announces(table, sig, m),
         Len(new) = Len(table),
         \A s \in 1..Len(table) :
           /\ new[s].number = table[s].number
           /\ Len(new[s].component) = Len(table[s].component)
           /\ \A c \in 1..Len(table[s].component) :
                /\ new[s].component[c].id = table[s].component[c].id
                /\ new[s].component[c].kind = table[s].component[c].kind
                /\ new[s].component[c].port = table[s].component[c].port
                /\ new[s].component[c].type = table[s].component[c].type
  PROVE  Announces(new, sig, m)
<1>1. ASSUME NEW s \in 1..Len(table), NEW J, Lists(table[s].component, sig, J)
      PROVE  Lists(new[s].component, sig, J)
  <2> DEFINE list == table[s].component
             other == new[s].component
  <2>1. /\ Len(other) = Len(list)
        /\ \A c \in 1..Len(list) :
             /\ other[c].id = list[c].id
             /\ \A e : Tells(other[c], e) <=> Tells(list[c], e)
    BY DEF Tells
  <2>2. Lists(list, sig, J) BY <1>1
  <2> HIDE DEF list, other
  <2>3. Lists(other, sig, J) BY <2>1, <2>2 DEF Lists
  <2> QED BY <2>3 DEF other
<1>2. ASSUME NEW s \in 1..Len(new)
      PROVE  /\ \E h \in HeadsTo(sig, m) : new[s].number = sig[h].id
             /\ Lists(new[s].component, sig, OfService(sig, m, new[s].number))
  <2>1. s \in 1..Len(table) /\ new[s].number = table[s].number OBVIOUS
  <2>2. /\ \E h \in HeadsTo(sig, m) : table[s].number = sig[h].id
        /\ Lists(table[s].component, sig, OfService(sig, m, table[s].number))
    BY <2>1 DEF Announces
  <2> QED BY <1>1, <2>1, <2>2
<1>3. \A a, b \in 1..Len(new) : new[a].number = new[b].number => a = b
  BY DEF Announces
<1>4. \A h \in HeadsTo(sig, m) : \E s \in 1..Len(new) : new[s].number = sig[h].id
  BY DEF Announces
<1> QED BY <1>2, <1>3, <1>4 DEF Announces

-----------------------------------------------------------------------------
(* The records.  There is a table exactly when there are records of it;    *)
(* RecordsLive alone would let an empty table be reported.                 *)
TableInv ==
  /\ onAir \in Sigs
  /\ services \in Seq(Service) /\ sig_table \in Nat
  /\ services = << >> <=> sig_table = 0
  /\ RecordsLive

LEMMA SigKeeps ==
  ASSUME TableInv, parse_sig(onAir), onAir' = onAir
  PROVE  TableInv'
<1>1. CASE services # << >>
  <2>1. event' = NoEvent /\ UNCHANGED <<services, sig_table, records>>
    BY <1>1 DEF parse_sig
  <2> QED BY <2>1 DEF TableInv, RecordsLive, NoEvent
<1>2. CASE services = << >>
  <2> DEFINE table == Table(onAir)
             With(c, n) == [c EXCEPT !.ext = n]
             Known(s, n) ==
               [table[s] EXCEPT !.component =
                  [c \in DOMAIN table[s].component |-> With(table[s].component[c], n)]]
  <2>1. table \in Seq(Service) /\ table # << >> BY TableRead DEF TableInv
  <2>2. sig_table = 0 /\ records = {} BY <1>2 DEF TableInv, RecordsLive
  <2>3. nrsc5_report_sig(table) BY <1>2 DEF parse_sig
  <2>4. PICK n \in {Min(1..MaxTables \ records)} :
          /\ services' = [s \in DOMAIN table |-> Known(s, n)]
          /\ records' = records \cup {n} /\ sig_table' = n
          /\ event' = [table |-> n, port |-> 0, type |-> "sig"]
    BY <2>3 DEF nrsc5_report_sig
  <2>5. n \in Nat \ {0}
    <3>1. 1..MaxTables \ records \in SUBSET Nat /\ 1 \in 1..MaxTables \ records
      BY <2>2, SigAssumption
    <3>2. Min(1..MaxTables \ records) \in 1..MaxTables \ records
      BY <3>1, LeastOf
    <3> QED BY <2>4, <3>2
  <2> HIDE DEF table
  <2>6. \A s \in DOMAIN table :
          /\ Known(s, n) \in Service
          /\ \A c \in ToSet(Known(s, n).component) : c.ext = n
    <3> TAKE s \in DOMAIN table
    <3> DEFINE list == table[s].component
               new == [c \in DOMAIN list |-> With(list[c], n)]
    <3>1. table[s] \in Service /\ list \in Seq(Component)
      <4>1. table[s] \in Service BY <2>1
      <4> QED BY <4>1 DEF Service
    <3>2. Len(list) \in Nat /\ DOMAIN list = 1..Len(list)
          /\ \A c \in DOMAIN list : list[c] \in Component
      BY <3>1
    <3>3. \A c \in DOMAIN list : new[c] \in Component /\ new[c].ext = n
      BY <2>5, <3>2 DEF Component
    <3>4. new \in [1..Len(list) -> Component] BY <3>2, <3>3
    <3>5. new \in Seq(Component)
      <4> HIDE DEF new, list
      <4> QED BY <3>2, <3>4, IsASeq
    <3>6. Known(s, n) = [table[s] EXCEPT !.component = new] OBVIOUS
    <3>7. DOMAIN new = DOMAIN list OBVIOUS
    <3> HIDE DEF Known, new, list
    <3>8. Known(s, n) \in Service /\ Known(s, n).component = new
      BY <3>1, <3>5, <3>6 DEF Service
    <3> QED BY <3>3, <3>7, <3>8 DEF ToSet
  <2> HIDE DEF Known
  <2>7. Len(table) \in Nat /\ DOMAIN table = 1..Len(table) /\ Len(table) # 0
    BY <2>1
  <2>8. services' \in Seq(Service) /\ services' # << >>
    <3>1. services' \in [1..Len(table) -> Service] BY <2>4, <2>6, <2>7
    <3> QED BY <2>7, <3>1, IsASeq
  <2>9. \A s \in DOMAIN services' :
          \A c \in ToSet(services'[s].component) : c.ext = sig_table'
    BY <2>4, <2>6
  <2>10. RecordsLive' BY <2>2, <2>4, <2>5, <2>9 DEF RecordsLive
  <2> QED BY <2>4, <2>5, <2>8, <2>10 DEF TableInv
<1> QED BY <1>1, <1>2

(* find_port finds a component of the table, hence one with its records.   *)
LEMMA ReportKeeps ==
  ASSUME TableInv, NEW port, Reported(port),
         UNCHANGED <<onAir, services, sig_table, records>>
  PROVE  TableInv'
<1> DEFINE types == {"stream", "image", "packet", "lot"}
           c == find_port(port)
<1>1. CASE Carrying(port) # {} /\ c.type \in types
  <2> DEFINE s == Min(Carrying(port))
             k == Min(Matches(s, port))
  <2>1. DOMAIN services = 1..Len(services) /\ Len(services) \in Nat
    BY DEF TableInv
  <2>2. s \in Carrying(port)
    <3>1. Carrying(port) \in SUBSET Nat BY <2>1 DEF Carrying
    <3> QED BY <1>1, <3>1, LeastOf
  <2>3. s \in DOMAIN services /\ Matches(s, port) # {} BY <2>2 DEF Carrying
  <2> HIDE DEF s
  <2>4. services[s].component \in Seq(Component)
    <3>1. services[s] \in Service BY <2>1, <2>3 DEF TableInv
    <3> QED BY <3>1 DEF Service
  <2>5. Matches(s, port) \in SUBSET Nat BY <2>4 DEF Matches
  <2>6. k \in DOMAIN services[s].component
    <3>1. k \in Matches(s, port) BY <2>3, <2>5, LeastOf
    <3> QED BY <3>1 DEF Matches
  <2>7. c = services[s].component[k] BY DEF find_port, s
  <2>8. c \in ToSet(services[s].component) BY <2>6, <2>7 DEF ToSet
  <2>9. c.ext = sig_table BY <2>3, <2>8 DEF TableInv, RecordsLive
  <2>10. event'.table = sig_table BY <1>1, <2>9 DEF Reported
  <2>11. sig_table \in records BY <2>1, <2>3 DEF TableInv, RecordsLive
  <2> QED BY <2>10, <2>11 DEF TableInv, RecordsLive
<1>2. CASE ~(Carrying(port) # {} /\ c.type \in types)
  <2>1. event' = NoEvent BY <1>2 DEF Reported
  <2> QED BY <2>1 DEF TableInv, RecordsLive, NoEvent
<1> QED BY <1>1, <1>2

(* Events that are not of a port change nothing.                           *)
LEMMA OtherKeeps ==
  ASSUME TableInv, UNCHANGED <<onAir, services, sig_table, records>>,
         event'.type \in {"id3", "none"} \/ event' = event
  PROVE  TableInv'
BY DEF TableInv, RecordsLive

LEMMA TableNext == TableInv /\ [Next]_vars => TableInv'
<1> SUFFICES ASSUME TableInv, [Next]_vars PROVE TableInv'
  OBVIOUS
<1>1. CASE SigMessage BY <1>1, SigKeeps DEF SigMessage
<1>2. ASSUME NEW port \in Ports, PortMessage(port) PROVE TableInv'
  BY <1>2, ReportKeeps DEF PortMessage
<1>3. ASSUME NEW port \in Ports, NEW n \in 1..MaxChunk, HereMessage(port, n)
      PROVE  TableInv'
  BY <1>3, ReportKeeps DEF HereMessage
<1>4. ASSUME NEW port \in Ports, NEW n \in 1..MaxChunk, Lost(port, n)
      PROVE  TableInv'
  BY <1>4, OtherKeeps DEF Lost, NoEvent
<1>5. ASSUME NEW type \in {"id3", "none"}, OtherMessage(type) PROVE TableInv'
  BY <1>5, OtherKeeps DEF OtherMessage, NoEvent
<1>6. CASE UNCHANGED <<onAir, sigVars>>
  BY <1>6, OtherKeeps DEF sigVars
<1>7. CASE output_reset
  <2>1. services' = << >> /\ sig_table' = 0 /\ records' = records \ {sig_table}
        /\ event' = NoEvent /\ onAir' \in {onAir} \cup Retuned
    BY <1>7 DEF output_reset, aas_reset, nrsc5_clear_sig
  <2>2. onAir' \in Sigs BY <2>1, SigAssumption DEF TableInv
  <2>3. records' = {} BY <2>1 DEF TableInv, RecordsLive
  <2>4. services' \in Seq(Service) /\ DOMAIN services' = {} BY <2>1
  <2>5. RecordsLive' BY <2>1, <2>3, <2>4 DEF RecordsLive, NoEvent
  <2> QED BY <2>1, <2>2, <2>4, <2>5 DEF TableInv
<1> QED BY <1>1, <1>2, <1>3, <1>4, <1>5, <1>6, <1>7 DEF Next, vars

(* The table in use says what the station sends, which it does until the   *)
(* next reset.                                                             *)
TableSays ==
  services # << >> /\ Fits(onAir) => Announces(services, onAir, Readable(onAir))

LEMMA SaysNext == TableInv /\ TableSays /\ [Next]_vars => TableSays'
<1> SUFFICES ASSUME TableInv, TableSays, [Next]_vars PROVE TableSays'
  OBVIOUS
<1>1. CASE UNCHANGED <<onAir, services>> BY <1>1 DEF TableSays
<1>2. CASE services' = << >> BY <1>2 DEF TableSays
<1>3. ASSUME nrsc5_report_sig(Table(onAir)), onAir' = onAir PROVE TableSays'
  <2> DEFINE table == Table(onAir)
             sv == services'
  <2>1. onAir \in Sigs /\ table \in Seq(Service) BY TableRead DEF TableInv
  <2>2. sv \in Seq(Service) BY TableNext DEF TableInv
  <2>3. PICK n : services' = [s \in DOMAIN table |->
          [table[s] EXCEPT !.component =
             [c \in DOMAIN table[s].component |-> [table[s].component[c] EXCEPT !.ext = n]]]]
    BY <1>3 DEF nrsc5_report_sig
  <2> HIDE DEF table
  <2>4. Len(sv) = Len(table)
    <3>1. DOMAIN sv = DOMAIN table BY <2>3
    <3>2. DOMAIN sv = 1..Len(sv) /\ DOMAIN table = 1..Len(table)
          /\ Len(sv) \in Nat /\ Len(table) \in Nat
      BY <2>1, <2>2
    <3> HIDE DEF sv
    <3> QED BY <3>1, <3>2, SameEnd
  <2>5. ASSUME NEW s \in 1..Len(table)
        PROVE  /\ sv[s].number = table[s].number
               /\ Len(sv[s].component) = Len(table[s].component)
               /\ \A c \in 1..Len(table[s].component) :
                    /\ sv[s].component[c].id = table[s].component[c].id
                    /\ sv[s].component[c].kind = table[s].component[c].kind
                    /\ sv[s].component[c].port = table[s].component[c].port
                    /\ sv[s].component[c].type = table[s].component[c].type
    <3> DEFINE list == table[s].component
               other == [c \in DOMAIN list |-> [list[c] EXCEPT !.ext = n]]
    <3>1. table[s] \in Service /\ s \in DOMAIN table BY <2>1
    <3>2. list \in Seq(Component) BY <3>1 DEF Service
    <3>3. sv[s] = [table[s] EXCEPT !.component = other] BY <2>3, <3>1
    <3>4. sv[s].number = table[s].number /\ sv[s].component = other
      BY <3>1, <3>3 DEF Service
    <3>5. sv[s].component \in Seq(Component)
      <4>1. sv[s] \in Service BY <2>2, <2>4
      <4> QED BY <4>1 DEF Service
    <3>6. DOMAIN list = 1..Len(list) /\ Len(list) \in Nat
          /\ \A c \in 1..Len(list) : list[c] \in Component
      BY <3>2
    <3>7. DOMAIN other = DOMAIN list
          /\ \A c \in 1..Len(list) : other[c] = [list[c] EXCEPT !.ext = n]
      BY <3>6
    <3> HIDE DEF other, list
    <3>8. Len(other) = Len(list)
      <4>1. DOMAIN other = 1..Len(other) /\ Len(other) \in Nat BY <3>4, <3>5
      <4> QED BY <3>6, <3>7, <4>1, SameEnd
    <3>9. \A c \in 1..Len(list) :
            /\ other[c].id = list[c].id /\ other[c].kind = list[c].kind
            /\ other[c].port = list[c].port /\ other[c].type = list[c].type
      BY <3>6, <3>7 DEF Component
    <3> QED BY <3>4, <3>8, <3>9 DEF list
  <2>6. ASSUME Fits(onAir) PROVE Announces(sv, onAir, Readable(onAir))
    <3>1. Announces(table, onAir, Readable(onAir)) BY <2>1, <2>6, TableAnnounced DEF table
    <3> HIDE DEF sv
    <3> QED BY <2>4, <2>5, <3>1, SameAnnounced
  <2> QED BY <1>3, <2>6 DEF TableSays
<1>4. CASE SigMessage
  <2>1. CASE services # << >>
    <3>1. UNCHANGED <<onAir, services>> BY <1>4, <2>1 DEF SigMessage, parse_sig
    <3> QED BY <1>1, <3>1
  <2>2. CASE services = << >>
    <3>1. nrsc5_report_sig(Table(onAir)) /\ onAir' = onAir
      BY <1>4, <2>2 DEF SigMessage, parse_sig
    <3> QED BY <1>3, <3>1
  <2> QED BY <2>1, <2>2
<1>5. CASE \E port \in Ports : PortMessage(port) BY <1>1, <1>5 DEF PortMessage
<1>6. CASE \E port \in Ports, n \in 1..MaxChunk : HereMessage(port, n) \/ Lost(port, n)
  BY <1>1, <1>6 DEF HereMessage, Lost
<1>7. CASE \E type \in {"id3", "none"} : OtherMessage(type) BY <1>1, <1>7 DEF OtherMessage
<1>8. CASE UNCHANGED <<onAir, sigVars>> BY <1>1, <1>8 DEF sigVars
<1>9. CASE output_reset BY <1>2, <1>9 DEF output_reset, aas_reset
<1> QED BY <1>4, <1>5, <1>6, <1>7, <1>8, <1>9 DEF Next, vars

-----------------------------------------------------------------------------
(* The stream of images.                                                   *)

IsPart(u) ==
  \E tile \in Tiles, t \in 1..MaxTime : \E k \in 1..PacketLen[tile] :
    u = <<tile, t, k>>
IsLast(u) == IsPart(u) /\ u[3] = PacketLen[u[1]]
IsUnit(u) ==
  \/ u = Marker(0, 1)
  \/ \E tile \in Tiles : u = Marker(PacketLen[tile], 2)
  \/ IsPart(u)
Units == {u \in Int \X Int \X Int : IsUnit(u)}

(* What may come after a unit.                                             *)
Follows(u, v) ==
  \/ u = Marker(0, 1) /\ \E tile \in Tiles : v = Marker(PacketLen[tile], 2)
  \/ \E tile \in Tiles, t \in 1..MaxTime :
       u = Marker(PacketLen[tile], 2) /\ v = <<tile, t, 1>>
  \/ \E tile \in Tiles, t \in 1..MaxTime : \E k \in 1..(PacketLen[tile] - 1) :
       u = <<tile, t, k>> /\ v = <<tile, t, k + 1>>
  \/ IsLast(u) /\ v = Marker(0, 1)

(* The place of a unit in its packet.                                      *)
Pos(u) == IF u[1] = -1 THEN u[3] ELSE u[3] + 2

(* The receiver, with what it reported of a message.                       *)
Receiver ==
  [payload_len : Int, buffer : Seq(Units), sync_state : Units \cup {<< >>},
   last_timestamp : [0..HERE_TRAFFIC_TILES -> Nat], reports : Seq(Seq(Units))]

(* It takes a packet only from its first unit on and holds the first k     *)
(* units of it.                                                            *)
Prefix(tile, t, k) == [j \in 1..k |-> <<tile, t, j>>]
Holds(r, tile, t, k) ==
  /\ r.payload_len = PacketLen[tile]
  /\ r.sync_state = IF k = 0 THEN Marker(PacketLen[tile], 2) ELSE <<tile, t, k>>
  /\ r.buffer = Prefix(tile, t, k)
Sound(r) ==
  r.payload_len # -1 =>
    \E tile \in Tiles, t \in 1..MaxTime : \E k \in 0..(PacketLen[tile] - 1) :
      Holds(r, tile, t, k)

(* After c units in a row, those of the packet among them, it is in it.    *)
Caught(r, c) ==
  /\ c >= 1 => r.sync_state \in Units
  /\ r.sync_state \in Units /\ c >= Pos(r.sync_state)
       /\ r.sync_state # Marker(0, 1) /\ ~IsLast(r.sync_state)
     => r.payload_len # -1

(* A unit that completes an image not shown yet, and the report of it.     *)
Reports(r, u, s) ==
  /\ IsLast(u) /\ u[1] \in 0..HERE_TRAFFIC_TILES
  /\ r.last_timestamp[u[1]] # u[2]
  /\ s.reports = Append(r.reports, Payload(u[1], u[2]))
  /\ s.last_timestamp = [r.last_timestamp EXCEPT ![u[1]] = u[2]]
Silent(r, s) == s.reports = r.reports /\ s.last_timestamp = r.last_timestamp

(* The image the unit completes, if all its packet came, has been shown.   *)
Due(u, c) ==
  /\ IsLast(u) /\ c >= Pos(u)
  /\ u[1] \in 0..HERE_TRAFFIC_TILES /\ PacketLen[u[1]] >= MinLen

LEMMA Lengths ==
  /\ \A tile \in Tiles : tile \in Nat /\ PacketLen[tile] \in Nat \ {0}
                          /\ PacketLen[tile] <= MaxPacket
  /\ {HERE_TRAFFIC_TILES, MaxPacket, MinLen, SeqNums, MaxChunk, MaxTime}
       \subseteq Nat \ {0}
BY HereAssumption

(* Which unit comes where.                                                 *)
LEMMA UnitsAre ==
  /\ Marker(0, 1) \in Units
  /\ \A tile \in Tiles : Marker(PacketLen[tile], 2) \in Units
  /\ \A tile \in Tiles, t \in 1..MaxTime : \A k \in 1..PacketLen[tile] :
       <<tile, t, k>> \in Units
  /\ << >> \notin Units
<1>1. MaxTime \in Nat BY Lengths
<1> QED BY <1>1, Lengths DEF Units, IsUnit, IsPart, Marker

LEMMA FollowsMarker ==
  ASSUME NEW u \in Units, Follows(u, Marker(0, 1))
  PROVE  IsLast(u)
BY Lengths DEF Follows, Marker

LEMMA FollowsLength ==
  ASSUME NEW u \in Units, NEW tile \in Tiles, Follows(u, Marker(PacketLen[tile], 2))
  PROVE  u = Marker(0, 1)
BY Lengths DEF Follows, Marker

LEMMA FollowsPart ==
  ASSUME NEW u \in Units, NEW tile \in Tiles, NEW t \in 1..MaxTime,
         NEW k \in 1..PacketLen[tile], Follows(u, <<tile, t, k>>)
  PROVE  /\ k = 1 => u[1] = -1 /\ u = Marker(PacketLen[tile], 2)
         /\ k # 1 => u = <<tile, t, k - 1>>
BY Lengths DEF Follows, Marker

(* A packet's units one by one.                                            *)
LEMMA PrefixGrows ==
  ASSUME NEW tile \in Tiles, NEW t \in 1..MaxTime,
         NEW k \in 0..(PacketLen[tile] - 1)
  PROVE  /\ Prefix(tile, t, k) \in Seq(Units)
         /\ Append(Prefix(tile, t, k), <<tile, t, k + 1>>) = Prefix(tile, t, k + 1)
         /\ Prefix(tile, t, k + 1) \in Seq(Units)
         /\ Len(Prefix(tile, t, k + 1)) = k + 1
         /\ Prefix(tile, t, k + 1)[1] = <<tile, t, 1>>
<1>0. k \in Nat /\ k + 1 \in 1..PacketLen[tile] BY Lengths
<1>1. \A j \in 1..(k + 1) : <<tile, t, j>> \in Units BY <1>0, UnitsAre, Lengths
<1>2. Prefix(tile, t, k) \in [1..k -> Units] BY <1>0, <1>1 DEF Prefix
<1>3. Prefix(tile, t, k + 1) \in [1..(k + 1) -> Units] BY <1>1 DEF Prefix
<1>4. Prefix(tile, t, k) \in Seq(Units) /\ Len(Prefix(tile, t, k)) = k
  BY <1>0, <1>2, IsASeq
<1>5. Prefix(tile, t, k + 1) \in Seq(Units) /\ Len(Prefix(tile, t, k + 1)) = k + 1
  BY <1>0, <1>3, IsASeq
<1> DEFINE new == Append(Prefix(tile, t, k), <<tile, t, k + 1>>)
<1>6. new \in Seq(Units) /\ Len(new) = k + 1
  BY <1>0, <1>1, <1>4, AppendProperties
<1>7. \A j \in 1..(k + 1) : new[j] = Prefix(tile, t, k + 1)[j]
  <2> TAKE j \in 1..(k + 1)
  <2>1. Prefix(tile, t, k + 1)[j] = <<tile, t, j>> BY DEF Prefix
  <2>2. j \in 1..k => new[j] = Prefix(tile, t, k)[j]
    BY <1>0, <1>1, <1>4, AppendProperties
  <2>3. j \in 1..k => Prefix(tile, t, k)[j] = <<tile, t, j>> BY DEF Prefix
  <2>4. j = k + 1 => new[j] = <<tile, t, k + 1>>
    BY <1>0, <1>1, <1>4, AppendProperties
  <2>5. j \in 1..k \/ j = k + 1 BY <1>0
  <2> HIDE DEF new
  <2> QED BY <2>1, <2>2, <2>3, <2>4, <2>5
<1>8. new = Prefix(tile, t, k + 1)
  <2> HIDE DEF new
  <2> QED BY <1>5, <1>6, <1>7, SeqEqual
<1> QED BY <1>0, <1>4, <1>5, <1>8 DEF Prefix

(* What here_images_push does with a unit that comes in its place.         *)
Effect(r, u, s) ==
  /\ s \in Receiver /\ Sound(s) /\ s.sync_state = u
  /\ Reports(r, u, s) \/ Silent(r, s)
  /\ \A c \in Nat : Caught(r, c) =>
       /\ Caught(s, c + 1)
       /\ Due(u, c + 1) => s.last_timestamp[u[1]] = u[2]

(* Between packets.                                                        *)
LEMMA MarkerTaken ==
  ASSUME NEW r \in Receiver, Sound(r),
         NEW u \in Units, u[1] = -1,
         r.sync_state = << >> \/ Follows(r.sync_state, u)
  PROVE  Effect(r, u, Taken(r, u))
<1> DEFINE s == [r EXCEPT !.sync_state = u]
<1>0. u = Marker(0, 1) \/ \E tile \in Tiles : u = Marker(PacketLen[tile], 2)
  BY Lengths DEF Units, IsUnit, IsPart
<1>1. r.payload_len = -1
  <2> SUFFICES ASSUME r.payload_len # -1 PROVE FALSE OBVIOUS
  <2>1. PICK tile \in Tiles, t \in 1..MaxTime :
          \E k \in 0..(PacketLen[tile] - 1) : Holds(r, tile, t, k)
    BY DEF Sound
  <2>2. PICK k \in 0..(PacketLen[tile] - 1) : Holds(r, tile, t, k) BY <2>1
  <2>3. r.sync_state # << >> BY <2>2 DEF Holds, Marker
  <2>4. r.sync_state \in Units /\ Follows(r.sync_state, u) BY <2>3 DEF Receiver
  <2>5. IsLast(r.sync_state) \/ r.sync_state = Marker(0, 1)
    BY <1>0, <2>4, FollowsMarker, FollowsLength
  <2>6. CASE k = 0
    <3>1. r.sync_state = Marker(PacketLen[tile], 2) BY <2>2, <2>6 DEF Holds
    <3> QED BY <2>5, <3>1, Lengths DEF Marker, IsLast, IsPart
  <2>7. CASE k # 0
    <3>1. r.sync_state = <<tile, t, k>> BY <2>2, <2>7 DEF Holds
    <3>2. k < PacketLen[tile] /\ tile # -1 BY Lengths
    <3> QED BY <2>5, <3>1, <3>2 DEF Marker, IsLast
  <2> QED BY <2>6, <2>7
<1>2. ~IsLast(u) BY Lengths DEF IsLast, IsPart
<1>3. CASE u = Marker(0, 1)
  <2>1. Taken(r, u) = s BY <1>1, <1>3 DEF Taken, Marker
  <2>2. s \in Receiver /\ Sound(s) /\ s.sync_state = u /\ Silent(r, s)
    BY <1>1 DEF Receiver, Sound, Silent
  <2> QED BY <2>1, <2>2, <1>2, <1>3 DEF Effect, Caught, Due
<1>4. CASE u # Marker(0, 1)
  <2>1. PICK tile \in Tiles : u = Marker(PacketLen[tile], 2) BY <1>0, <1>4
  <2>2. u[1] = -1 /\ u[2] = PacketLen[tile] /\ u[3] = 2 BY <2>1 DEF Marker
  <2>3. r.sync_state = << >> \/ r.sync_state = Marker(0, 1)
    BY <2>1, FollowsLength DEF Receiver
  <2>4. CASE r.sync_state = Marker(0, 1)
    <3> DEFINE new == [s EXCEPT !.payload_len = u[2], !.buffer = << >>]
    <3>1. Taken(r, u) = new BY <1>1, <2>2, <2>4 DEF Taken
    <3>2. /\ new \in Receiver /\ new.sync_state = u /\ Silent(r, new)
          /\ new.payload_len # -1
      <4>1. u[2] \in Int /\ u[2] # -1 /\ << >> \in Seq(Units) BY <2>2, Lengths
      <4> QED BY <4>1 DEF Receiver, Silent
    <3>3. Sound(new)
      <4>1. 1 \in 1..MaxTime /\ 0 \in 0..(PacketLen[tile] - 1) BY Lengths
      <4>2. Prefix(tile, 1, 0) = << >> BY DEF Prefix
      <4>3. Holds(new, tile, 1, 0) BY <2>1, <2>2, <4>2 DEF Holds, Receiver
      <4> QED BY <4>1, <4>3 DEF Sound
    <3> HIDE DEF new
    <3> QED BY <1>2, <3>1, <3>2, <3>3 DEF Effect, Caught, Due
  <2>5. CASE r.sync_state = << >>
    <3>1. << >> # Marker(0, 1) BY DEF Marker
    <3>2. Taken(r, u) = s BY <1>1, <2>5, <3>1 DEF Taken
    <3>3. s \in Receiver /\ Sound(s) /\ s.sync_state = u /\ Silent(r, s)
      BY <1>1 DEF Receiver, Sound, Silent
    <3>4. r.sync_state \notin Units BY <2>5, UnitsAre
    <3>5. \A c \in Nat : Caught(r, c) => Caught(s, c + 1)
      BY <2>2, <3>3, <3>4 DEF Caught, Pos
    <3> QED BY <1>2, <3>2, <3>3, <3>5 DEF Effect, Due
  <2> QED BY <2>3, <2>4, <2>5
<1> QED BY <1>3, <1>4

(* A part of a packet that is not being taken.                             *)
LEMMA PartMissed ==
  ASSUME NEW r \in Receiver, Sound(r), r.payload_len = -1,
         NEW tile \in Tiles, NEW t \in 1..MaxTime, NEW k \in 1..PacketLen[tile],
         r.sync_state = << >> \/ Follows(r.sync_state, <<tile, t, k>>)
  PROVE  Effect(r, <<tile, t, k>>, Taken(r, <<tile, t, k>>))
<1> DEFINE u == <<tile, t, k>>
           s == [r EXCEPT !.sync_state = u]
<1>0. u \in Units /\ u[1] = tile /\ u[2] = t /\ u[3] = k /\ tile # -1 /\ k \in Nat
  BY UnitsAre, Lengths
<1> HIDE DEF u
<1>1. Taken(r, u) = s BY <1>0 DEF Taken
<1>2. s \in Receiver /\ Sound(s) /\ s.sync_state = u /\ Silent(r, s)
  BY <1>0 DEF Receiver, Sound, Silent
<1>3. ASSUME NEW c \in Nat, Caught(r, c), c + 1 >= Pos(u) PROVE FALSE
  <2>1. c >= k + 1 BY <1>0, <1>3, Lengths DEF Pos
  <2>2. r.sync_state \in Units BY <1>0, <1>3, <2>1 DEF Caught
  <2>3. Follows(r.sync_state, <<tile, t, k>>)
    <3>1. r.sync_state # << >> BY <2>2, UnitsAre
    <3> QED BY <3>1
  <2>4. CASE k = 1
    <3>1. r.sync_state[1] = -1 /\ r.sync_state = Marker(PacketLen[tile], 2)
      BY <2>2, <2>3, <2>4, FollowsPart
    <3>2. Pos(r.sync_state) = 2 BY <3>1 DEF Pos, Marker
    <3>3. r.sync_state # Marker(0, 1) BY <3>1 DEF Marker
    <3>4. ~IsLast(r.sync_state) BY <3>1, Lengths DEF IsLast, IsPart
    <3> QED BY <1>3, <2>1, <2>2, <2>4, <3>2, <3>3, <3>4 DEF Caught
  <2>5. CASE k # 1
    <3>1. r.sync_state = <<tile, t, k - 1>> BY <2>2, <2>3, <2>5, FollowsPart
    <3>2. Pos(r.sync_state) = k + 1 BY <1>0, <3>1 DEF Pos
    <3>3. r.sync_state # Marker(0, 1) BY <1>0, <3>1 DEF Marker
    <3>4. ~IsLast(r.sync_state) BY <1>0, <3>1, Lengths DEF IsLast
    <3> QED BY <1>3, <2>1, <2>2, <3>2, <3>3, <3>4 DEF Caught
  <2> QED BY <2>4, <2>5
<1>4. \A c \in Nat : Caught(r, c) => Caught(s, c + 1) /\ ~Due(u, c + 1)
  BY <1>0, <1>2, <1>3 DEF Caught, Due
<1> QED BY <1>1, <1>2, <1>4 DEF Effect, u

(* A part of the packet that is being taken.                               *)
LEMMA PartTaken ==
  ASSUME NEW r \in Receiver, Sound(r), r.payload_len # -1,
         NEW tile \in Tiles, NEW t \in 1..MaxTime, NEW k \in 1..PacketLen[tile],
         r.sync_state = << >> \/ Follows(r.sync_state, <<tile, t, k>>)
  PROVE  Effect(r, <<tile, t, k>>, Taken(r, <<tile, t, k>>))
<1> DEFINE u == <<tile, t, k>>
           full == [r EXCEPT !.sync_state = u, !.buffer = Append(r.buffer, u)]
<1>0. u \in Units /\ u[1] = tile /\ u[2] = t /\ u[3] = k /\ tile # -1 /\ k \in Nat
      /\ PacketLen[tile] \in Nat \ {0}
  BY UnitsAre, Lengths
<1>1. r.payload_len = PacketLen[tile] /\ r.buffer = Prefix(tile, t, k - 1)
  <2>1. PICK tile0 \in Tiles, t0 \in 1..MaxTime :
          \E k0 \in 0..(PacketLen[tile0] - 1) : Holds(r, tile0, t0, k0)
    BY DEF Sound
  <2>2. PICK k0 \in 0..(PacketLen[tile0] - 1) : Holds(r, tile0, t0, k0) BY <2>1
  <2>3. r.sync_state # << >> BY <2>2 DEF Holds, Marker
  <2>4. r.sync_state \in Units /\ Follows(r.sync_state, <<tile, t, k>>)
    BY <2>3 DEF Receiver
  <2>5. CASE k0 = 0
    <3>1. r.sync_state = Marker(PacketLen[tile0], 2) BY <2>2, <2>5 DEF Holds
    <3>2. k = 1
      <4>1. k # 1 => r.sync_state = <<tile, t, k - 1>> BY <2>4, FollowsPart
      <4> QED BY <1>0, <3>1, <4>1 DEF Marker
    <3>3. r.sync_state = Marker(PacketLen[tile], 2) BY <2>4, <3>2, FollowsPart
    <3>4. PacketLen[tile0] = PacketLen[tile] BY <3>1, <3>3 DEF Marker
    <3>5. Prefix(tile0, t0, 0) = << >> /\ Prefix(tile, t, k - 1) = << >>
      BY <3>2 DEF Prefix
    <3> QED BY <2>2, <2>5, <3>4, <3>5 DEF Holds
  <2>6. CASE k0 # 0
    <3>1. r.sync_state = <<tile0, t0, k0>> /\ tile0 # -1
      BY <2>2, <2>6, Lengths DEF Holds
    <3>2. k # 1
      <4>1. k = 1 => r.sync_state[1] = -1 BY <2>4, FollowsPart
      <4> QED BY <3>1, <4>1
    <3>3. r.sync_state = <<tile, t, k - 1>> BY <2>4, <3>2, FollowsPart
    <3>4. tile0 = tile /\ t0 = t /\ k0 = k - 1 BY <3>1, <3>3
    <3> QED BY <2>2, <3>4 DEF Holds
  <2> QED BY <2>5, <2>6
<1>2. /\ Append(r.buffer, u) = Prefix(tile, t, k)
      /\ Prefix(tile, t, k) \in Seq(Units) /\ Len(Prefix(tile, t, k)) = k
      /\ Prefix(tile, t, k)[1] = <<tile, t, 1>>
  <2>1. k - 1 \in 0..(PacketLen[tile] - 1) /\ (k - 1) + 1 = k BY <1>0
  <2>2. /\ Append(Prefix(tile, t, k - 1), <<tile, t, (k - 1) + 1>>)
              = Prefix(tile, t, (k - 1) + 1)
        /\ Prefix(tile, t, (k - 1) + 1) \in Seq(Units)
        /\ Len(Prefix(tile, t, (k - 1) + 1)) = (k - 1) + 1
        /\ Prefix(tile, t, (k - 1) + 1)[1] = <<tile, t, 1>>
    BY <2>1, PrefixGrows
  <2> QED BY <1>1, <2>1, <2>2
<1> HIDE DEF u
<1>3. Taken(r, u) = IF Len(full.buffer) = r.payload_len
                    THEN process_packet(full) ELSE full
  BY DEF Taken, Receiver
<1>4. /\ full \in Receiver /\ full.sync_state = u /\ full.buffer = Prefix(tile, t, k)
      /\ full.payload_len = PacketLen[tile] /\ Silent(r, full)
  BY <1>0, <1>1, <1>2 DEF Receiver, Silent
<1> HIDE DEF full
<1>5. CASE k # PacketLen[tile]
  <2>1. Taken(r, u) = full BY <1>1, <1>2, <1>3, <1>4, <1>5
  <2>2. Holds(full, tile, t, k) BY <1>0, <1>4 DEF Holds, u
  <2>3. k \in 0..(PacketLen[tile] - 1) BY <1>0, <1>5
  <2>4. Sound(full) BY <2>2, <2>3 DEF Sound
  <2>5. ~IsLast(u) BY <1>0, <1>5 DEF IsLast
  <2>6. full.payload_len # -1 BY <1>0, <1>4
  <2>7. \A c \in Nat : Caught(full, c + 1) /\ ~Due(u, c + 1)
    BY <1>0, <1>4, <2>5, <2>6 DEF Caught, Due
  <2> QED BY <1>4, <2>1, <2>4, <2>7 DEF Effect, u
<1>6. CASE k = PacketLen[tile]
  <2>1. Taken(r, u) = process_packet(full) BY <1>1, <1>2, <1>3, <1>4, <1>6
  <2>2. IsLast(u) BY <1>0, <1>6 DEF IsLast, IsPart, u
  <2>3. full.buffer[1][1] = tile /\ full.buffer[1][2] = t BY <1>2, <1>4
  <2>4. full.buffer = Payload(tile, t) BY <1>4, <1>6 DEF Payload, Prefix
  <2>5. full.last_timestamp = r.last_timestamp /\ full.reports = r.reports
    BY <1>4 DEF Silent
  <2>6. \A s \in Receiver : s.payload_len = -1 /\ s.sync_state = u =>
          Sound(s) /\ \A c \in Nat : Caught(s, c + 1)
    BY <1>0, <2>2 DEF Sound, Caught
  <2>7. CASE NewImage(full)
    <3> DEFINE s == [full EXCEPT !.payload_len = -1,
                                 !.reports = Append(full.reports, full.buffer),
                                 !.last_timestamp[tile] = t]
    <3>1. process_packet(full) = s BY <2>3, <2>7 DEF process_packet, Receiver
    <3>2. tile \in 0..HERE_TRAFFIC_TILES /\ r.last_timestamp[tile] # t
      BY <2>3, <2>5, <2>7 DEF NewImage
    <3>3. /\ r.last_timestamp \in [0..HERE_TRAFFIC_TILES -> Nat]
          /\ [r.last_timestamp EXCEPT ![tile] = t] \in [0..HERE_TRAFFIC_TILES -> Nat]
          /\ [r.last_timestamp EXCEPT ![tile] = t][tile] = t
      BY <3>2, Lengths DEF Receiver
    <3>4. Append(r.reports, Payload(tile, t)) \in Seq(Seq(Units))
      BY <1>2, <1>4, <2>4 DEF Receiver
    <3>5. /\ s \in Receiver /\ s.sync_state = u /\ s.payload_len = -1
          /\ s.reports = Append(r.reports, Payload(tile, t))
          /\ s.last_timestamp = [r.last_timestamp EXCEPT ![tile] = t]
      <4> DEFINE reports == Append(r.reports, Payload(tile, t))
                 stamps == [r.last_timestamp EXCEPT ![tile] = t]
      <4>1. s = [full EXCEPT !.payload_len = -1, !.reports = reports,
                             !.last_timestamp = stamps]
        BY <1>4, <2>4, <2>5 DEF Receiver
      <4>2. reports \in Seq(Seq(Units)) /\ -1 \in Int
            /\ stamps \in [0..HERE_TRAFFIC_TILES -> Nat]
        BY <3>3, <3>4
      <4> HIDE DEF s, reports, stamps
      <4>3. s \in Receiver /\ s.sync_state = u /\ s.payload_len = -1
            /\ s.reports = reports /\ s.last_timestamp = stamps
        BY <1>4, <4>1, <4>2 DEF Receiver
      <4> QED BY <4>3 DEF reports, stamps
    <3> HIDE DEF s
    <3>6. Reports(r, u, s) BY <1>0, <2>2, <3>2, <3>5 DEF Reports
    <3> QED BY <1>0, <2>1, <2>6, <3>1, <3>3, <3>5, <3>6 DEF Effect, u
  <2>8. CASE ~NewImage(full)
    <3> DEFINE s == [full EXCEPT !.payload_len = -1]
    <3>1. process_packet(full) = s BY <2>8 DEF process_packet
    <3>2. s \in Receiver /\ s.sync_state = u /\ s.payload_len = -1 /\ Silent(r, s)
      <4>1. -1 \in Int OBVIOUS
      <4> QED BY <1>4, <2>5, <4>1 DEF Receiver, Silent
    <3> HIDE DEF s
    <3>3. \A c \in Nat : Due(u, c + 1) => s.last_timestamp[u[1]] = u[2]
      BY <1>0, <1>4, <2>3, <2>5, <2>8, <3>2 DEF Due, NewImage, Silent
    <3> QED BY <2>1, <2>6, <3>1, <3>2, <3>3 DEF Effect, u
  <2> QED BY <2>7, <2>8
<1> QED BY <1>5, <1>6

LEMMA UnitTaken ==
  ASSUME NEW r \in Receiver, Sound(r), NEW u \in Units,
         r.sync_state = << >> \/ Follows(r.sync_state, u)
  PROVE  Effect(r, u, Taken(r, u))
<1>1. CASE u[1] = -1 BY <1>1, MarkerTaken
<1>2. CASE u[1] # -1
  <2>1. IsPart(u) BY <1>2 DEF Units, IsUnit, Marker
  <2>2. PICK tile \in Tiles, t \in 1..MaxTime : \E k \in 1..PacketLen[tile] :
          u = <<tile, t, k>>
    BY <2>1 DEF IsPart
  <2> QED BY <2>2, PartTaken, PartMissed
<1> QED BY <1>1, <1>2

-----------------------------------------------------------------------------
(* The inductive invariant of the images.                                  *)

Here ==
  [payload_len |-> payload_len, buffer |-> buffer, sync_state |-> sync_state,
   last_timestamp |-> last_timestamp, reports |-> << >>]

(* The line: packets, the first perhaps begun.                             *)
Stream(s) ==
  /\ s \in Seq(Units)
  /\ \A k \in 1..(Len(s) - 1) : Follows(s[k], s[k + 1])
  /\ s # << >> => IsLast(s[Len(s)])

(* The timestamps of a tile never go back.                                 *)
Ordered(s) ==
  \A i, j \in 1..Len(s) :
    i < j /\ IsPart(s[i]) /\ IsPart(s[j]) /\ s[i][1] = s[j][1] => s[i][2] <= s[j][2]
Clock ==
  /\ time \in [Tiles -> 1..MaxTime] /\ Ordered(line)
  /\ \A k \in 1..Len(line) : IsPart(line[k]) => line[k][2] <= time[line[k][1]]

(* Numbers tell whether messages were lost.                                *)
Numbered ==
  /\ seq \in 0..(SeqNums - 1) /\ lost \in Nat /\ inRow \in Nat
  /\ expected_seq # -1 =>
       /\ expected_seq \in 0..(SeqNums - 1) /\ lost < SeqNums
       /\ seq = expected_seq + lost \/ seq = expected_seq + lost - SeqNums
  /\ expected_seq # seq => inRow = 0

(* When none was, the next message goes on where the last one ended.       *)
InOrder ==
  /\ Here \in Receiver
  /\ expected_seq = seq =>
       /\ sync_state \in Units /\ Sound(Here) /\ Caught(Here, inRow)
       /\ IF line = << >> THEN IsLast(sync_state) ELSE Follows(sync_state, line[1])

(* What is on its way is not older than what was shown last.               *)
NotOlder(last, s, k) ==
  \A m \in (k + 1)..Len(s) :
    IsPart(s[m]) /\ s[m][1] \in 0..HERE_TRAFFIC_TILES => last[s[m][1]] <= s[m][2]
Stamps ==
  /\ NotOlder(last_timestamp, line, 0)
  /\ \A tile \in 0..HERE_TRAFFIC_TILES :
       /\ tile \in Tiles => last_timestamp[tile] <= time[tile]
       /\ last_timestamp[tile] # 0 =>
            /\ <<tile, last_timestamp[tile]>> \in Images
            /\ shown[<<tile, last_timestamp[tile]>>] = 1

Shows ==
  /\ shown \in [Images -> 0..1]
  /\ \A i \in Images : shown[i] = 1 =>
       i[1] \in 0..HERE_TRAFFIC_TILES /\ i[2] <= last_timestamp[i[1]]
  /\ ~mixed /\ due \subseteq Images /\ \A i \in due : shown[i] = 1

HInv == Stream(line) /\ Clock /\ Numbered /\ InOrder /\ Stamps /\ Shows

-----------------------------------------------------------------------------
(* One message.                                                            *)

(* What is reported while a message is taken: newer images than last says, *)
(* each once; what is noted as shown last is the last one reported.        *)
Mentions(r, i) == \E j \in 1..Len(r.reports) : Image(r.reports[j]) = i
Told(last, r) ==
  /\ \A tile \in 0..HERE_TRAFFIC_TILES :
       /\ last[tile] <= r.last_timestamp[tile]
       /\ last[tile] = r.last_timestamp[tile]
            \/ Mentions(r, <<tile, r.last_timestamp[tile]>>)
  /\ \A j \in 1..Len(r.reports) : \E tile \in Tiles, t \in 1..MaxTime :
       /\ tile \in 0..HERE_TRAFFIC_TILES /\ r.reports[j] = Payload(tile, t)
       /\ last[tile] < t /\ t <= r.last_timestamp[tile]
  /\ \A i, j \in 1..Len(r.reports) :
       Image(r.reports[i]) = Image(r.reports[j]) => i = j

LEMMA PayloadImage ==
  ASSUME NEW tile \in Tiles, NEW t \in 1..MaxTime
  PROVE  /\ Image(Payload(tile, t)) = <<tile, t>>
         /\ Payload(tile, t)[1] = <<tile, t, 1>>
<1>1. 1 \in 1..PacketLen[tile] BY Lengths
<1>2. Payload(tile, t)[1] = <<tile, t, 1>> BY <1>1 DEF Payload
<1> QED BY <1>2 DEF Image

LEMMA ToldOn ==
  ASSUME NEW r \in Receiver, NEW s \in Receiver,
         NEW last \in [0..HERE_TRAFFIC_TILES -> Nat], Told(last, r),
         NEW u \in Units, Reports(r, u, s) \/ Silent(r, s),
         IsLast(u) /\ u[1] \in 0..HERE_TRAFFIC_TILES =>
           r.last_timestamp[u[1]] <= u[2]
  PROVE  /\ Told(last, s)
         /\ \A i : Mentions(r, i) => Mentions(s, i)
<1>1. CASE Silent(r, s)
  BY <1>1 DEF Silent, Told, Mentions
<1>2. CASE Reports(r, u, s)
  <2>1. PICK tile \in Tiles, t \in 1..MaxTime : \E k \in 1..PacketLen[tile] :
          u = <<tile, t, k>>
    BY <1>2 DEF Reports, IsLast, IsPart
  <2>2. u[1] = tile /\ u[2] = t /\ t \in Nat BY <2>1, Lengths
  <2> DEFINE N == Len(r.reports)
             stamps == r.last_timestamp
  <2>3. /\ tile \in 0..HERE_TRAFFIC_TILES /\ IsLast(u)
        /\ stamps[tile] # t
        /\ s.reports = Append(r.reports, Payload(tile, t))
        /\ s.last_timestamp = [stamps EXCEPT ![tile] = t]
    BY <1>2, <2>2 DEF Reports
  <2>4. stamps \in [0..HERE_TRAFFIC_TILES -> Nat] /\ r.reports \in Seq(Seq(Units))
        /\ N \in Nat
    BY DEF Receiver
  <2>5. stamps[tile] < t
    <3>1. stamps[tile] \in Nat /\ stamps[tile] <= t BY <2>2, <2>3, <2>4
    <3> HIDE DEF stamps
    <3> QED BY <2>2, <2>3, <3>1
  <2>6. /\ Len(s.reports) = N + 1
        /\ \A j \in 1..N : s.reports[j] = r.reports[j]
        /\ s.reports[N + 1] = Payload(tile, t)
    BY <2>3, <2>4
  <2>7. \A j \in 1..(N + 1) : j \in 1..N \/ j = N + 1 BY <2>4
  <2>8. /\ s.last_timestamp[tile] = t
        /\ \A x \in 0..HERE_TRAFFIC_TILES : x # tile => s.last_timestamp[x] = stamps[x]
    BY <2>3, <2>4
  <2>9. \A i : Mentions(r, i) => Mentions(s, i)
    BY <2>4, <2>6 DEF Mentions
  <2>10. Mentions(s, <<tile, t>>)
    <3>1. N + 1 \in 1..(N + 1) BY <2>4
    <3> QED BY <2>6, <3>1, PayloadImage DEF Mentions
  <2> HIDE DEF N, stamps
  <2>11. ASSUME NEW x \in 0..HERE_TRAFFIC_TILES
         PROVE  /\ last[x] <= s.last_timestamp[x]
                /\ last[x] = s.last_timestamp[x]
                     \/ Mentions(s, <<x, s.last_timestamp[x]>>)
    <3>1. /\ last[x] <= stamps[x]
          /\ last[x] = stamps[x] \/ Mentions(r, <<x, stamps[x]>>)
      BY DEF Told, stamps
    <3>2. CASE x = tile
      <4>1. last[x] \in Nat /\ stamps[x] \in Nat BY <2>4
      <4>2. last[x] <= t BY <2>2, <2>5, <3>1, <3>2, <4>1
      <4> QED BY <2>8, <2>10, <3>2, <4>2
    <3>3. CASE x # tile
      BY <2>8, <2>9, <3>1, <3>3
    <3> QED BY <3>2, <3>3
  <2>12. \A j \in 1..N : \E x \in Tiles, y \in 1..MaxTime :
           /\ x \in 0..HERE_TRAFFIC_TILES /\ r.reports[j] = Payload(x, y)
           /\ last[x] < y /\ y <= stamps[x]
    BY DEF Told, N, stamps
  <2>13. \A j \in 1..(N + 1) : \E x \in Tiles, y \in 1..MaxTime :
           /\ x \in 0..HERE_TRAFFIC_TILES /\ s.reports[j] = Payload(x, y)
           /\ last[x] < y /\ y <= s.last_timestamp[x]
    <3> TAKE j \in 1..(N + 1)
    <3>1. CASE j \in 1..N
      <4>1. PICK x \in Tiles, y \in 1..MaxTime :
              /\ x \in 0..HERE_TRAFFIC_TILES /\ r.reports[j] = Payload(x, y)
              /\ last[x] < y /\ y <= stamps[x]
        BY <2>12, <3>1
      <4>2. y <= s.last_timestamp[x]
        <5>1. y \in Nat /\ stamps[x] \in Nat BY <2>4, <4>1, Lengths
        <5>2. CASE x = tile
          <6>1. y <= t BY <2>2, <2>5, <4>1, <5>1, <5>2
          <6> QED BY <2>8, <5>2, <6>1
        <5>3. CASE x # tile BY <2>8, <4>1, <5>3
        <5> QED BY <5>2, <5>3
      <4> QED BY <2>6, <3>1, <4>1, <4>2
    <3>2. CASE j = N + 1
      <4>1. last[tile] <= stamps[tile] BY <2>3 DEF Told, stamps
      <4>2. last[tile] < t BY <2>2, <2>3, <2>4, <2>5, <4>1
      <4> QED BY <2>2, <2>3, <2>6, <2>8, <3>2, <4>2
    <3> QED BY <2>7, <3>1, <3>2
  <2>14. \A j \in 1..N : Image(r.reports[j]) # <<tile, t>>
    <3> TAKE j \in 1..N
    <3>1. PICK x \in Tiles, y \in 1..MaxTime :
            /\ x \in 0..HERE_TRAFFIC_TILES /\ r.reports[j] = Payload(x, y)
            /\ y <= stamps[x]
      BY <2>12
    <3>2. Image(r.reports[j]) = <<x, y>> BY <3>1, PayloadImage
    <3>3. x = tile => y # t BY <2>2, <2>3, <2>4, <2>5, <3>1, Lengths
    <3> QED BY <3>2, <3>3
  <2>15. \A i, j \in 1..(N + 1) : Image(s.reports[i]) = Image(s.reports[j]) => i = j
    <3>1. \A i, j \in 1..N : Image(r.reports[i]) = Image(r.reports[j]) => i = j
      BY DEF Told, N
    <3>2. Image(s.reports[N + 1]) = <<tile, t>> BY <2>6, PayloadImage
    <3> QED BY <2>6, <2>7, <2>14, <3>1, <3>2
  <2>16. Told(last, s)
    <3>1. Len(s.reports) = N + 1 BY <2>6
    <3> QED BY <2>11, <2>13, <2>15, <3>1 DEF Told
  <2> QED BY <2>9, <2>16
<1> QED BY <1>1, <1>2

(* The states the receiver goes through.                                   *)
LEMMA Stages ==
  ASSUME NEW n, NEW units, Len(units) \in Nat
  PROVE  \E f : /\ f[0] = Begun(n)
               /\ \A k \in 1..Len(units) : f[k] = Taken(f[k - 1], units[k])
               /\ AllTaken(n, units) = f[Len(units)]
<1> DEFINE N == Len(units)
           Stage(f, k) == IF k = 0 THEN Begun(n) ELSE Taken(f[k - 1], units[k])
           bad == {m \in 0..N : ~\E f : f = [k \in 0..m |-> Stage(f, k)]}
<1>1. bad = {}
  <2> SUFFICES ASSUME bad # {} PROVE FALSE OBVIOUS
  <2>1. bad \in SUBSET Nat OBVIOUS
  <2>2. PICK m \in bad : \A k \in bad : m <= k BY <2>1, LeastNat
  <2>3. CASE m = 0
    <3> DEFINE f == [k \in 0..0 |-> Begun(n)]
    <3>1. f = [k \in 0..m |-> Stage(f, k)] BY <2>3
    <3> QED BY <3>1, <2>2
  <2>4. CASE m # 0
    <3>1. m \in Nat /\ m - 1 \in 0..N /\ m \in 1..N BY <2>2, <2>4
    <3>2. m - 1 \notin bad
      <4> HIDE DEF bad
      <4> QED BY <3>1, <2>2
    <3>3. PICK g : g = [k \in 0..(m - 1) |-> Stage(g, k)] BY <3>1, <3>2
    <3> DEFINE f == [k \in 0..m |-> IF k = m THEN Stage(g, m) ELSE g[k]]
    <3>4. \A k \in 0..m : f[k] = Stage(f, k)
      <4> TAKE k \in 0..m
      <4>1. CASE k = m
        <5>1. f[k - 1] = g[k - 1] BY <4>1, <3>1
        <5> QED BY <4>1, <5>1
      <4>2. CASE k # m
        <5>1. k \in 0..(m - 1) BY <4>2, <3>1
        <5>2. f[k] = Stage(g, k) BY <4>2, <5>1, <3>3
        <5>3. k # 0 => f[k - 1] = g[k - 1] BY <5>1, <3>1
        <5> QED BY <5>2, <5>3
      <4> QED BY <4>1, <4>2
    <3>5. f = [k \in 0..m |-> Stage(f, k)] BY <3>4
    <3> QED BY <3>5, <2>2
  <2> QED BY <2>3, <2>4
<1> DEFINE r == CHOOSE f : f = [k \in 0..N |-> Stage(f, k)]
<1>2. r = [k \in 0..N |-> Stage(r, k)]
  <2>1. N \notin bad BY <1>1
  <2>2. \E f : f = [k \in 0..N |-> Stage(f, k)] BY <2>1
  <2> QED BY <2>2
<1>3. AllTaken(n, units) = r[N] BY DEF AllTaken
<1> HIDE DEF r
<1>4. r[0] = Begun(n)
  <2>1. 0 \in 0..N OBVIOUS
  <2>2. r[0] = Stage(r, 0) BY <1>2, <2>1
  <2> QED BY <2>2
<1>5. ASSUME NEW k \in 1..N PROVE r[k] = Taken(r[k - 1], units[k])
  <2>1. k \in 0..N /\ k # 0 OBVIOUS
  <2>2. r[k] = Stage(r, k) BY <1>2, <2>1
  <2> QED BY <2>1, <2>2
<1> QED BY <1>3, <1>4, <1>5

(* After k units of a message.                                             *)
Along(r, k) ==
  /\ r \in Receiver /\ Sound(r) /\ Caught(r, inRow + k)
  /\ k >= 1 => r.sync_state = line[k]
  /\ k = 0 => r.sync_state = << >> \/ Follows(r.sync_state, line[1])
  /\ Told(last_timestamp, r) /\ NotOlder(r.last_timestamp, line, k)
  /\ \A tile \in 0..HERE_TRAFFIC_TILES :
       tile \in Tiles => r.last_timestamp[tile] <= time[tile]
  /\ \A m \in 1..k : Due(line[m], inRow + m) =>
       \/ Mentions(r, <<line[m][1], line[m][2]>>)
       \/ last_timestamp[line[m][1]] = line[m][2]

LEMMA AlongBegun ==
  ASSUME HInv, line # << >>
  PROVE  Along(Begun(seq), 0)
<1> DEFINE r == Begun(seq)
<1>1. r.last_timestamp = last_timestamp /\ r.reports = << >>
  BY DEF Begun
<1>2. Here \in Receiver /\ inRow \in Nat BY DEF HInv, InOrder, Numbered
<1>3. /\ r \in Receiver /\ Sound(r) /\ Caught(r, inRow)
      /\ r.sync_state = << >> \/ Follows(r.sync_state, line[1])
  <2>1. CASE seq = expected_seq
    <3>1. r = Here BY <2>1 DEF Begun, Here
    <3>2. Here.sync_state = sync_state BY DEF Here
    <3> QED BY <1>2, <2>1, <3>1, <3>2 DEF HInv, InOrder
  <2>2. CASE seq # expected_seq
    <3>1. r = [payload_len |-> -1, buffer |-> << >>, sync_state |-> << >>,
               last_timestamp |-> last_timestamp, reports |-> << >>]
      BY <2>2 DEF Begun
    <3>2. last_timestamp \in [0..HERE_TRAFFIC_TILES -> Nat]
      BY <1>2 DEF Here, Receiver
    <3>3. r \in Receiver BY <3>1, <3>2 DEF Receiver
    <3>4. inRow = 0 BY <2>2 DEF HInv, Numbered
    <3>5. << >> \notin Units BY UnitsAre
    <3> HIDE DEF r
    <3> QED BY <3>1, <3>3, <3>4, <3>5 DEF Sound, Caught
  <2> QED BY <2>1, <2>2
<1> HIDE DEF r
<1>4. Len(r.reports) = 0 BY <1>1
<1>5. Told(last_timestamp, r)
  <2>1. \A tile \in 0..HERE_TRAFFIC_TILES : last_timestamp[tile] \in Nat
    BY <1>2 DEF Here, Receiver
  <2> QED BY <1>1, <1>4, <2>1 DEF Told
<1>6. inRow + 0 = inRow BY <1>2
<1>7. /\ NotOlder(r.last_timestamp, line, 0)
      /\ \A tile \in 0..HERE_TRAFFIC_TILES :
           tile \in Tiles => r.last_timestamp[tile] <= time[tile]
  BY <1>1 DEF HInv, Stamps
<1>8. ~(0 >= 1) /\ 1..0 = {} OBVIOUS
<1>9. Along(r, 0) BY <1>3, <1>5, <1>6, <1>7, <1>8 DEF Along
<1> QED BY <1>9 DEF r

LEMMA AlongTaken ==
  ASSUME HInv, NEW k \in 1..Len(line), NEW r, Along(r, k - 1)
  PROVE  Along(Taken(r, line[k]), k)
<1> DEFINE u == line[k]
           s == Taken(r, u)
           c == inRow + (k - 1)
<1>0. line \in Seq(Units) /\ Len(line) \in Nat /\ k \in Nat /\ u \in Units
      /\ inRow \in Nat /\ c \in Nat /\ c + 1 = inRow + k
      /\ \A m \in 1..Len(line) : line[m] \in Units
  BY DEF HInv, Stream, Numbered
<1>1. r \in Receiver /\ Sound(r) /\ Caught(r, c) /\ Told(last_timestamp, r)
  BY DEF Along
<1>2. r.sync_state = << >> \/ Follows(r.sync_state, u)
  <2>1. CASE k = 1 BY <2>1 DEF Along
  <2>2. CASE k # 1
    <3>1. k - 1 \in 1..(Len(line) - 1) /\ (k - 1) + 1 = k BY <1>0, <2>2
    <3>2. Follows(line[k - 1], line[(k - 1) + 1]) BY <3>1 DEF HInv, Stream
    <3>3. r.sync_state = line[k - 1] BY <1>0, <2>2, <3>1 DEF Along
    <3> QED BY <3>1, <3>2, <3>3
  <2> QED BY <2>1, <2>2
<1> HIDE DEF s, c, u
<1>3. Effect(r, u, s) BY <1>0, <1>1, <1>2, UnitTaken DEF s
<1>4. /\ s \in Receiver /\ Sound(s) /\ s.sync_state = u /\ Caught(s, inRow + k)
      /\ Reports(r, u, s) \/ Silent(r, s)
      /\ Due(u, inRow + k) => s.last_timestamp[u[1]] = u[2]
  BY <1>0, <1>1, <1>3 DEF Effect
<1>5. IsPart(u) /\ u[1] \in 0..HERE_TRAFFIC_TILES => r.last_timestamp[u[1]] <= u[2]
  <2>1. k \in ((k - 1) + 1)..Len(line) BY <1>0
  <2> QED BY <2>1 DEF Along, NotOlder, u
<1>6. last_timestamp \in [0..HERE_TRAFFIC_TILES -> Nat]
  BY DEF HInv, InOrder, Here, Receiver
<1>7. Told(last_timestamp, s) /\ \A i : Mentions(r, i) => Mentions(s, i)
  BY <1>0, <1>1, <1>4, <1>5, <1>6, ToldOn DEF IsLast
<1>8. /\ NotOlder(s.last_timestamp, line, k)
      /\ \A tile \in 0..HERE_TRAFFIC_TILES :
           tile \in Tiles => s.last_timestamp[tile] <= time[tile]
  <2>1. /\ NotOlder(r.last_timestamp, line, k)
        /\ \A tile \in 0..HERE_TRAFFIC_TILES :
             tile \in Tiles => r.last_timestamp[tile] <= time[tile]
    <3>1. \A m \in (k + 1)..Len(line) : m \in ((k - 1) + 1)..Len(line) BY <1>0
    <3> QED BY <3>1 DEF Along, NotOlder
  <2>2. CASE Silent(r, s) BY <2>1, <2>2 DEF Silent, NotOlder
  <2>3. CASE Reports(r, u, s)
    <3>1. /\ IsPart(u) /\ u[1] \in 0..HERE_TRAFFIC_TILES
          /\ s.last_timestamp = [r.last_timestamp EXCEPT ![u[1]] = u[2]]
      BY <2>3 DEF Reports, IsLast
    <3>2. r.last_timestamp \in [0..HERE_TRAFFIC_TILES -> Nat] BY <1>1 DEF Receiver
    <3>3. /\ s.last_timestamp[u[1]] = u[2]
          /\ \A x \in 0..HERE_TRAFFIC_TILES :
               x # u[1] => s.last_timestamp[x] = r.last_timestamp[x]
      BY <3>1, <3>2
    <3>4. u[2] <= time[u[1]] BY <3>1 DEF HInv, Clock, u
    <3>5. \A m \in (k + 1)..Len(line) :
            IsPart(line[m]) /\ line[m][1] = u[1] => u[2] <= line[m][2]
      <4> TAKE m \in (k + 1)..Len(line)
      <4>1. m \in 1..Len(line) /\ k < m BY <1>0
      <4> QED BY <3>1, <4>1 DEF HInv, Clock, Ordered, u
    <3> QED BY <2>1, <3>3, <3>4, <3>5 DEF NotOlder
  <2> QED BY <1>4, <2>2, <2>3
<1>9. ASSUME NEW m \in 1..k, Due(line[m], inRow + m)
      PROVE  \/ Mentions(s, <<line[m][1], line[m][2]>>)
             \/ last_timestamp[line[m][1]] = line[m][2]
  <2>1. CASE m = k
    <3>1. u[1] \in 0..HERE_TRAFFIC_TILES /\ s.last_timestamp[u[1]] = u[2]
      BY <1>4, <1>9, <2>1 DEF Due, u
    <3> QED BY <1>7, <2>1, <3>1 DEF Told, u
  <2>2. CASE m # k
    <3>1. m \in 1..(k - 1) BY <1>0, <2>2
    <3> QED BY <1>7, <1>9, <3>1 DEF Along
  <2> QED BY <2>1, <2>2
<1>10. k # 0 BY <1>0
<1> QED BY <1>4, <1>7, <1>8, <1>9, <1>10 DEF Along, s, u

-----------------------------------------------------------------------------
(* The steps of the images.                                                *)

LEMMA PacketIs ==
  ASSUME NEW tile \in Tiles, NEW t \in 1..MaxTime
  PROVE  /\ Packet(tile, t) \in Seq(Units)
         /\ Len(Packet(tile, t)) = PacketLen[tile] + 2
         /\ Packet(tile, t)[1] = Marker(0, 1)
         /\ Packet(tile, t)[2] = Marker(PacketLen[tile], 2)
         /\ \A k \in 1..PacketLen[tile] : Packet(tile, t)[k + 2] = <<tile, t, k>>
<1> DEFINE L == PacketLen[tile]
           head == <<Marker(0, 1), Marker(L, 2)>>
<1>1. L \in Nat BY Lengths
<1>2. head \in Seq(Units) /\ Len(head) = 2
      /\ head[1] = Marker(0, 1) /\ head[2] = Marker(L, 2)
  BY UnitsAre
<1>3. Payload(tile, t) \in [1..L -> Units]
  <2>1. \A k \in 1..L : <<tile, t, k>> \in Units BY UnitsAre
  <2> QED BY <2>1 DEF Payload
<1>4. Payload(tile, t) \in Seq(Units) /\ Len(Payload(tile, t)) = L
  BY <1>1, <1>3, IsASeq
<1>5. \A k \in 1..L : Payload(tile, t)[k] = <<tile, t, k>> BY DEF Payload
<1>6. Packet(tile, t) = head \o Payload(tile, t) BY DEF Packet
<1> HIDE DEF head, L
<1>7. /\ head \o Payload(tile, t) \in Seq(Units)
      /\ Len(head \o Payload(tile, t)) = L + 2
      /\ \A k \in 1..2 : (head \o Payload(tile, t))[k] = head[k]
      /\ \A k \in 1..L : (head \o Payload(tile, t))[k + 2] = Payload(tile, t)[k]
  <2> DEFINE both == head \o Payload(tile, t)
  <2>1. /\ both \in Seq(Units) /\ Len(both) = 2 + L
        /\ \A i \in 1..(2 + L) :
             both[i] = IF i <= 2 THEN head[i] ELSE Payload(tile, t)[i - 2]
    <3> HIDE DEF both
    <3> DEFINE tail == Payload(tile, t)
    <3>1. head \in Seq(Units) /\ tail \in Seq(Units) BY <1>2, <1>4
    <3>2. both = head \o tail BY DEF both
    <3> HIDE DEF tail
    <3>3. /\ both \in Seq(Units) /\ Len(both) = Len(head) + Len(tail)
          /\ \A i \in 1..(Len(head) + Len(tail)) :
               both[i] = IF i <= Len(head) THEN head[i] ELSE tail[i - Len(head)]
      BY <3>1, <3>2, ConcatProperties
    <3> QED BY <1>2, <1>4, <3>3 DEF tail
  <2> HIDE DEF both
  <2>2. \A k \in 1..2 : k \in 1..(2 + L) /\ k <= 2 BY <1>1
  <2>3. \A k \in 1..L : k + 2 \in 1..(2 + L) /\ ~(k + 2 <= 2) /\ (k + 2) - 2 = k
    BY <1>1
  <2>4. 2 + L = L + 2 BY <1>1
  <2>5. \A k \in 1..2 : both[k] = head[k] BY <2>1, <2>2
  <2>6. \A k \in 1..L : both[k + 2] = Payload(tile, t)[k] BY <2>1, <2>3
  <2> QED BY <2>1, <2>4, <2>5, <2>6 DEF both
<1>8. 1 \in 1..2 /\ 2 \in 1..2 OBVIOUS
<1> QED BY <1>2, <1>5, <1>6, <1>7, <1>8 DEF L

(* What is left of the line when n units are sent.                         *)
LEMMA SendsKeeps ==
  ASSUME Stream(line), Clock, seq \in 0..(SeqNums - 1),
         NEW n \in 1..MaxChunk, Sends(n)
  PROVE  /\ Stream(line') /\ Clock'
         /\ n <= Len(line) /\ n \in Nat /\ Len(line') = Len(line) - n
         /\ \A k \in 1..Len(line') : line'[k] = line[n + k]
         /\ \A last : NotOlder(last, line, n) => NotOlder(last, line', 0)
         /\ seq' \in 0..(SeqNums - 1)
         /\ seq' = seq + 1 \/ seq' = seq + 1 - SeqNums
<1> DEFINE N == Len(line)
<1>1. /\ line \in Seq(Units) /\ N \in Nat /\ n \in Nat \ {0} /\ n <= N
      /\ line' = SubSeq(line, n + 1, N)
      /\ seq' = (seq + 1) % SeqNums /\ time' = time
  BY Lengths DEF Sends, Stream
<1>2. /\ line' \in Seq(Units) /\ Len(line') = N - n
      /\ \A k \in 1..(N - n) : line'[k] = line[n + k]
  BY <1>1
<1> HIDE DEF N
<1>3. \A k \in 1..(N - n) : n + k \in 1..N BY <1>1
<1>4. Stream(line')
  <2>1. ASSUME NEW k \in 1..(N - n - 1) PROVE Follows(line'[k], line'[k + 1])
    <3>1. n + k \in 1..(N - 1) /\ k \in 1..(N - n) /\ k + 1 \in 1..(N - n)
          /\ n + (k + 1) = (n + k) + 1
      BY <1>1
    <3>2. Follows(line[n + k], line[(n + k) + 1]) BY <3>1 DEF Stream, N
    <3> QED BY <1>2, <3>1, <3>2
  <2>2. ASSUME line' # << >> PROVE IsLast(line'[N - n])
    <3>1. N - n # 0 BY <1>2, <2>2
    <3>2. N - n \in 1..(N - n) /\ n + (N - n) = N BY <1>1, <3>1
    <3>3. line # << >> BY <1>1 DEF N
    <3> QED BY <1>2, <3>2, <3>3 DEF Stream, N
  <2> QED BY <1>2, <2>1, <2>2 DEF Stream
<1>5. Clock'
  <2>1. Ordered(line')
    <3>1. SUFFICES ASSUME NEW i \in 1..(N - n), NEW j \in 1..(N - n), i < j,
                          IsPart(line'[i]), IsPart(line'[j]), line'[i][1] = line'[j][1]
                   PROVE  line'[i][2] <= line'[j][2]
      BY <1>2 DEF Ordered
    <3>2. n + i \in 1..N /\ n + j \in 1..N /\ n + i < n + j BY <1>1, <3>1
    <3>3. line'[i] = line[n + i] /\ line'[j] = line[n + j] BY <1>2
    <3> QED BY <3>1, <3>2, <3>3 DEF Clock, Ordered, N
  <2> QED BY <1>1, <1>2, <1>3, <2>1 DEF Clock, N
<1>6. ASSUME NEW last, NotOlder(last, line, n) PROVE NotOlder(last, line', 0)
  <2>1. \A k \in (0 + 1)..(N - n) : k \in 1..(N - n) /\ n + k \in (n + 1)..N BY <1>1
  <2> QED BY <1>2, <1>6, <2>1 DEF NotOlder, N
<1>7. /\ seq' \in 0..(SeqNums - 1)
      /\ seq' = seq + 1 \/ seq' = seq + 1 - SeqNums
  <2>1. SeqNums \in Nat \ {0} BY Lengths
  <2>2. CASE seq + 1 = SeqNums
    <3>1. SeqNums % SeqNums = 0 BY <2>1
    <3> QED BY <1>1, <2>1, <2>2, <3>1
  <2>3. CASE seq + 1 # SeqNums
    <3>1. seq + 1 \in 0..(SeqNums - 1) BY <2>1, <2>3
    <3>2. (seq + 1) % SeqNums = seq + 1 BY <2>1, <3>1
    <3> QED BY <1>1, <3>1, <3>2
  <2> QED BY <2>2, <2>3
<1> QED BY <1>1, <1>2, <1>4, <1>5, <1>6, <1>7 DEF N

LEMMA MissesKeeps ==
  ASSUME HInv, NEW n \in 1..MaxChunk, Misses(n)
  PROVE  HInv'
<1>1. /\ Stream(line') /\ Clock' /\ seq' \in 0..(SeqNums - 1)
      /\ \A last : NotOlder(last, line, n) => NotOlder(last, line', 0)
      /\ seq' = seq + 1 \/ seq' = seq + 1 - SeqNums
  BY SendsKeeps DEF HInv, Misses, Numbered
<1>2. /\ expected_seq = -1 \/ lost + 1 < SeqNums
      /\ lost' = Min({lost + 1, SeqNums}) /\ inRow' = 0
      /\ UNCHANGED <<expected_seq, payload_len, buffer, sync_state, last_timestamp>>
      /\ UNCHANGED <<shown, due, mixed, time>>
  BY DEF Misses, Sends, here_images
<1>3. lost \in Nat /\ seq \in 0..(SeqNums - 1) /\ SeqNums \in Nat \ {0}
  BY Lengths DEF HInv, Numbered
<1>4. lost' \in Nat /\ (lost + 1 < SeqNums => lost' = lost + 1)
  <2>1. {lost + 1, SeqNums} \in SUBSET Nat BY <1>3
  <2>2. lost' \in {lost + 1, SeqNums} /\ \A k \in {lost + 1, SeqNums} : lost' <= k
    BY <1>2, <2>1, LeastOf
  <2> QED BY <1>3, <2>2
<1>5. expected_seq # -1 =>
        /\ expected_seq \in 0..(SeqNums - 1) /\ lost' < SeqNums /\ lost' = lost + 1
        /\ seq' = expected_seq + lost' \/ seq' = expected_seq + lost' - SeqNums
        /\ expected_seq # seq'
  BY <1>1, <1>2, <1>3, <1>4 DEF HInv, Numbered
<1>6. Numbered' BY <1>1, <1>2, <1>4, <1>5 DEF Numbered
<1>7. Here' = Here BY <1>2 DEF Here
<1>8. expected_seq' # seq' BY <1>1, <1>2, <1>5
<1>9. InOrder' BY <1>7, <1>8 DEF HInv, InOrder
<1>10. NotOlder(last_timestamp, line, n)
  <2>1. \A m \in (n + 1)..Len(line) : m \in (0 + 1)..Len(line)
    BY Lengths DEF HInv, Stream
  <2> QED BY <2>1 DEF HInv, Stamps, NotOlder
<1>11. Stamps' BY <1>1, <1>2, <1>10 DEF HInv, Stamps
<1>12. Shows' BY <1>2 DEF HInv, Shows
<1> QED BY <1>1, <1>6, <1>9, <1>11, <1>12 DEF HInv

(* What the history says after a message.                                  *)
LEMMA ShownIs ==
  ASSUME HInv, NEW r \in Receiver, Told(last_timestamp, r),
         NEW units, Len(units) \in Nat, Recorded(units, r.reports, inRow)
  PROVE  /\ shown' \in [Images -> 0..1]
         /\ \A i \in Images : shown'[i] = IF Mentions(r, i) THEN 1 ELSE shown[i]
         /\ ~mixed' /\ inRow' \in Nat /\ inRow' <= inRow + Len(units)
<1> DEFINE N == Len(r.reports)
           In(i) == {k \in DOMAIN r.reports : Image(r.reports[k]) = i}
<1>1. N \in Nat /\ DOMAIN r.reports = 1..N BY DEF Receiver
<1>2. \A j \in 1..N : \E tile \in Tiles, t \in 1..MaxTime :
        /\ tile \in 0..HERE_TRAFFIC_TILES /\ r.reports[j] = Payload(tile, t)
        /\ last_timestamp[tile] < t
  BY DEF Told
<1>3. shown \in [Images -> 0..1] /\ last_timestamp \in [0..HERE_TRAFFIC_TILES -> Nat]
  BY DEF HInv, Shows, InOrder, Here, Receiver
<1>4. ASSUME NEW i \in Images, Mentions(r, i)
      PROVE  Cardinality(In(i)) = 1 /\ shown[i] = 0
  <2>1. PICK j \in 1..N : Image(r.reports[j]) = i BY <1>4 DEF Mentions
  <2>2. In(i) = {j} BY <1>1, <2>1 DEF Told
  <2>3. Cardinality(In(i)) = 1 BY <2>2, FS_Singleton
  <2>4. PICK tile \in Tiles, t \in 1..MaxTime :
          /\ tile \in 0..HERE_TRAFFIC_TILES /\ r.reports[j] = Payload(tile, t)
          /\ last_timestamp[tile] < t
    BY <1>2
  <2>5. i = <<tile, t>> BY <2>1, <2>4, PayloadImage
  <2>6. i[1] = tile /\ i[2] = t BY <2>5
  <2>7. t \in Nat /\ last_timestamp[tile] \in Nat BY <1>3, <2>4, Lengths
  <2>8. shown[i] # 1 BY <2>4, <2>6, <2>7 DEF HInv, Shows
  <2> QED BY <1>3, <2>3, <2>8
<1>5. ASSUME NEW i \in Images, ~Mentions(r, i) PROVE Cardinality(In(i)) = 0
  <2>1. In(i) = {} BY <1>1, <1>5 DEF Mentions
  <2> QED BY <2>1, FS_EmptySet
<1> HIDE DEF In
<1>6. shown' = [i \in Images |-> Min({2, shown[i] + Cardinality(In(i))})]
  BY DEF Recorded, In
<1>7. ASSUME NEW i \in Images
      PROVE  shown'[i] \in 0..1 /\ shown'[i] = IF Mentions(r, i) THEN 1 ELSE shown[i]
  <2>1. \A x \in 0..1 : Min({2, x}) = x
    <3> TAKE x \in 0..1
    <3>1. {2, x} \in SUBSET Nat BY Lengths
    <3>2. Min({2, x}) \in {2, x} /\ Min({2, x}) <= x BY <3>1, LeastOf
    <3> QED BY <3>2
  <2>2. shown[i] + Cardinality(In(i)) = IF Mentions(r, i) THEN 1 ELSE shown[i]
    BY <1>3, <1>4, <1>5
  <2>3. shown[i] + Cardinality(In(i)) \in 0..1 BY <1>3, <2>2
  <2> QED BY <1>6, <2>1, <2>2, <2>3
<1>8. shown' \in [Images -> 0..1] BY <1>6, <1>7
<1>9. ~mixed'
  <2>1. ASSUME NEW k \in DOMAIN r.reports
        PROVE  r.reports[k] = Payload(r.reports[k][1][1], r.reports[k][1][2])
    <3>1. PICK tile \in Tiles, t \in 1..MaxTime : r.reports[k] = Payload(tile, t)
      BY <1>1, <1>2
    <3>2. r.reports[k][1] = <<tile, t, 1>> BY <3>1, PayloadImage
    <3> QED BY <3>1, <3>2
  <2> QED BY <2>1 DEF Recorded, HInv, Shows
<1>10. inRow' \in Nat /\ inRow' <= inRow + Len(units)
  <2> DEFINE both == {inRow + Len(units), MaxPacket + 2}
  <2>1. both \in SUBSET Nat
    <3>1. inRow \in Nat /\ MaxPacket \in Nat BY Lengths DEF HInv, Numbered
    <3> QED BY <3>1
  <2>2. inRow' = Min(both) BY DEF Recorded
  <2>3. Min(both) \in both /\ \A k \in both : Min(both) <= k BY <2>1, LeastOf
  <2> QED BY <2>1, <2>2, <2>3
<1> QED BY <1>7, <1>8, <1>9, <1>10

LEMMA ArrivesKeeps ==
  ASSUME HInv, NEW n \in 1..MaxChunk, Arrives(n)
  PROVE  HInv'
<1> DEFINE units == SubSeq(line, 1, n)
<1>1. /\ Stream(line') /\ Clock' /\ seq' \in 0..(SeqNums - 1)
      /\ n <= Len(line) /\ n \in Nat /\ Len(line') = Len(line) - n
      /\ \A k \in 1..Len(line') : line'[k] = line[n + k]
      /\ \A last : NotOlder(last, line, n) => NotOlder(last, line', 0)
  BY SendsKeeps DEF HInv, Arrives, Numbered
<1>2. line \in Seq(Units) /\ Len(line) \in Nat /\ n \in 1..Len(line)
  BY <1>1 DEF HInv, Stream
<1>3. Len(units) = n /\ DOMAIN units = 1..n /\ \A k \in 1..n : units[k] = line[k]
  BY <1>1, <1>2
<1> HIDE DEF units
<1>4. PICK f : /\ f[0] = Begun(seq)
               /\ \A k \in 1..n : f[k] = Taken(f[k - 1], units[k])
               /\ AllTaken(seq, units) = f[n]
  <2>1. Len(units) \in Nat BY <1>1, <1>3
  <2>2. \E f : /\ f[0] = Begun(seq)
              /\ \A k \in 1..Len(units) : f[k] = Taken(f[k - 1], units[k])
              /\ AllTaken(seq, units) = f[Len(units)]
    BY <2>1, Stages
  <2> QED BY <1>3, <2>2
<1> DEFINE fails == {k \in 0..n : ~Along(f[k], k)}
<1>5. fails = {}
  <2> SUFFICES ASSUME fails # {} PROVE FALSE OBVIOUS
  <2>1. fails \in SUBSET Nat OBVIOUS
  <2>2. PICK k \in fails : \A m \in fails : k <= m BY <2>1, LeastNat
  <2>3. k # 0
    <3>1. line # << >> BY <1>2
    <3> QED BY <1>4, <2>2, <3>1, AlongBegun
  <2>4. k \in 1..n /\ k \in 1..Len(line) /\ k - 1 \in 0..n BY <1>2, <2>2, <2>3
  <2>5. k - 1 \notin fails
    <3> HIDE DEF fails
    <3> QED BY <2>2, <2>4
  <2>6. Along(f[k - 1], k - 1) BY <2>4, <2>5
  <2>7. Along(Taken(f[k - 1], line[k]), k) BY <2>4, <2>6, AlongTaken
  <2>8. f[k] = Taken(f[k - 1], line[k]) BY <1>3, <1>4, <2>4
  <2> QED BY <2>2, <2>7, <2>8
<1> DEFINE r == f[n]
<1>6. Along(r, n) BY <1>1, <1>5
<1> HIDE DEF fails, r
<1>7. /\ expected_seq' = (seq + 1) % SeqNums /\ seq' = (seq + 1) % SeqNums
      /\ payload_len' = r.payload_len /\ sync_state' = r.sync_state
      /\ buffer' = IF r.payload_len = -1 THEN << >> ELSE r.buffer
      /\ last_timestamp' = r.last_timestamp
      /\ Recorded(units, r.reports, inRow)
      /\ lost' = 0 /\ time' = time
  <2>1. AllTaken(seq, units) = r BY <1>4 DEF r
  <2> QED BY <2>1 DEF Arrives, Sends, here_images_push, units
<1>8. /\ r \in Receiver /\ Sound(r) /\ Caught(r, inRow + n) /\ r.sync_state = line[n]
      /\ Told(last_timestamp, r) /\ NotOlder(r.last_timestamp, line, n)
  BY <1>1, <1>6 DEF Along
<1>9. /\ shown' \in [Images -> 0..1]
      /\ \A i \in Images : shown'[i] = IF Mentions(r, i) THEN 1 ELSE shown[i]
      /\ ~mixed' /\ inRow' \in Nat /\ inRow' <= inRow + n
  BY <1>1, <1>3, <1>7, <1>8, ShownIs
<1>10. expected_seq' = seq' /\ expected_seq' \in 0..(SeqNums - 1) BY <1>1, <1>7
<1>11. Numbered'
  <2>1. SeqNums \in Nat \ {0} BY Lengths
  <2> QED BY <1>1, <1>7, <1>9, <1>10, <2>1 DEF Numbered
<1>12. InOrder'
  <2>1. /\ Here'.payload_len = r.payload_len /\ Here'.sync_state = r.sync_state
        /\ Here'.buffer = IF r.payload_len = -1 THEN << >> ELSE r.buffer
    BY <1>7 DEF Here
  <2>2. Here' \in Receiver
    <3>1. << >> \in Seq(Units) /\ << >> \in Seq(Seq(Units)) OBVIOUS
    <3> QED BY <1>7, <1>8, <3>1 DEF Here, Receiver
  <2>3. Sound(Here')
    <3>1. \A tile \in Tiles, t \in 1..MaxTime : \A k \in 0..(PacketLen[tile] - 1) :
            r.payload_len # -1 /\ Holds(r, tile, t, k) => Holds(Here', tile, t, k)
      BY <2>1 DEF Holds
    <3> QED BY <1>8, <2>1, <3>1 DEF Sound
  <2>4. sync_state' = line[n] /\ line[n] \in Units BY <1>2, <1>7, <1>8
  <2>5. Caught(Here', inRow')
    <3>1. Pos(line[n]) \in Int BY <2>4 DEF Pos, Units
    <3>2. inRow \in Nat BY DEF HInv, Numbered
    <3>3. inRow' >= Pos(line[n]) => inRow + n >= Pos(line[n])
      BY <1>1, <1>9, <3>1, <3>2
    <3> QED BY <1>8, <2>1, <2>4, <3>3 DEF Caught
  <2>6. IF line' = << >> THEN IsLast(sync_state') ELSE Follows(sync_state', line'[1])
    <3>1. CASE line' = << >>
      <4>1. n = Len(line) BY <1>1, <1>2, <3>1
      <4> QED BY <1>2, <2>4, <3>1, <4>1 DEF HInv, Stream
    <3>2. CASE line' # << >>
      <4>1. Len(line') # 0 BY <1>1, <3>2 DEF Stream
      <4>2. 1 \in 1..Len(line') /\ n \in 1..(Len(line) - 1) BY <1>1, <1>2, <4>1
      <4>3. Follows(line[n], line[n + 1]) BY <4>2 DEF HInv, Stream
      <4> QED BY <1>1, <2>4, <3>2, <4>2, <4>3
    <3> QED BY <3>1, <3>2
  <2> QED BY <2>2, <2>3, <2>4, <2>5, <2>6 DEF InOrder
<1>13. \A tile \in 0..HERE_TRAFFIC_TILES :
         /\ last_timestamp[tile] \in Nat /\ last_timestamp'[tile] \in Nat
         /\ last_timestamp[tile] <= last_timestamp'[tile]
         /\ last_timestamp'[tile] # 0 =>
              /\ <<tile, last_timestamp'[tile]>> \in Images
              /\ shown'[<<tile, last_timestamp'[tile]>>] = 1
  <2> TAKE tile \in 0..HERE_TRAFFIC_TILES
  <2> DEFINE i == <<tile, last_timestamp'[tile]>>
  <2>1. last_timestamp[tile] \in Nat /\ last_timestamp'[tile] \in Nat
    BY <1>7, <1>8 DEF HInv, InOrder, Here, Receiver
  <2>2. /\ last_timestamp[tile] <= last_timestamp'[tile]
        /\ last_timestamp[tile] = last_timestamp'[tile] \/ Mentions(r, i)
    BY <1>7, <1>8 DEF Told
  <2>3. CASE Mentions(r, i)
    <3>1. PICK j \in 1..Len(r.reports) : Image(r.reports[j]) = i BY <2>3 DEF Mentions
    <3>2. PICK x \in Tiles, t \in 1..MaxTime : r.reports[j] = Payload(x, t)
      BY <1>8 DEF Told
    <3>3. i \in Images BY <3>1, <3>2, PayloadImage DEF Images
    <3> QED BY <1>9, <2>1, <2>2, <2>3, <3>3
  <2>4. CASE last_timestamp[tile] = last_timestamp'[tile] /\ ~Mentions(r, i)
    <3>1. last_timestamp[tile] # 0 => i \in Images /\ shown[i] = 1
      BY <2>4 DEF HInv, Stamps
    <3> QED BY <1>9, <2>1, <2>2, <2>4, <3>1
  <2> QED BY <2>2, <2>3, <2>4
<1>14. Stamps'
  <2>1. NotOlder(last_timestamp', line', 0) BY <1>1, <1>7, <1>8
  <2>2. \A tile \in 0..HERE_TRAFFIC_TILES :
          tile \in Tiles => last_timestamp'[tile] <= time'[tile]
    BY <1>6, <1>7 DEF Along
  <2> QED BY <1>13, <2>1, <2>2 DEF Stamps
<1>15. Shows'
  <2>1. ASSUME NEW i \in Images, shown'[i] = 1
        PROVE  i[1] \in 0..HERE_TRAFFIC_TILES /\ i[2] <= last_timestamp'[i[1]]
    <3>1. CASE Mentions(r, i)
      <4>1. PICK j \in 1..Len(r.reports) : Image(r.reports[j]) = i BY <3>1 DEF Mentions
      <4>2. PICK x \in Tiles, t \in 1..MaxTime :
              /\ x \in 0..HERE_TRAFFIC_TILES /\ r.reports[j] = Payload(x, t)
              /\ t <= r.last_timestamp[x]
        BY <1>8 DEF Told
      <4>3. i = <<x, t>> BY <4>1, <4>2, PayloadImage
      <4> QED BY <1>7, <4>2, <4>3
    <3>2. CASE ~Mentions(r, i)
      <4>1. shown[i] = 1 BY <1>9, <2>1, <3>2
      <4>2. i[1] \in 0..HERE_TRAFFIC_TILES /\ i[2] <= last_timestamp[i[1]]
        BY <4>1 DEF HInv, Shows
      <4>3. i[2] \in Nat BY Lengths DEF Images
      <4>4. /\ last_timestamp[i[1]] \in Nat /\ last_timestamp'[i[1]] \in Nat
            /\ last_timestamp[i[1]] <= last_timestamp'[i[1]]
        BY <1>13, <4>2
      <4>5. i[2] <= last_timestamp'[i[1]] BY <4>2, <4>3, <4>4
      <4> QED BY <4>2, <4>5
    <3> QED BY <3>1, <3>2
  <2>2. ASSUME NEW i \in due' PROVE i \in Images /\ shown'[i] = 1
    <3>1. CASE i \in due
      <4>1. i \in Images /\ shown[i] = 1 BY <3>1 DEF HInv, Shows
      <4> QED BY <1>9, <4>1
    <3>2. CASE i \notin due
      <4>1. /\ i \in Images /\ i[1] \in 0..HERE_TRAFFIC_TILES
            /\ PacketLen[i[1]] >= MinLen
            /\ \E k \in DOMAIN units :
                 /\ units[k] = <<i[1], i[2], PacketLen[i[1]]>>
                 /\ inRow + k >= Len(Packet(i[1], i[2]))
        BY <1>7, <2>2, <3>2 DEF Recorded
      <4>2. PICK k \in 1..n : /\ line[k] = <<i[1], i[2], PacketLen[i[1]]>>
                              /\ inRow + k >= Len(Packet(i[1], i[2]))
        BY <1>3, <4>1
      <4>3. i[1] \in Tiles /\ i[2] \in 1..MaxTime /\ i = <<i[1], i[2]>>
        BY <4>1 DEF Images
      <4>4. PacketLen[i[1]] \in 1..PacketLen[i[1]] /\ i[1] # -1 BY <4>3, Lengths
      <4>5. IsLast(line[k]) BY <4>2, <4>3, <4>4 DEF IsLast, IsPart
      <4>6. Pos(line[k]) = PacketLen[i[1]] + 2 BY <4>2, <4>4 DEF Pos
      <4>7. Due(line[k], inRow + k)
        BY <4>1, <4>2, <4>3, <4>5, <4>6, PacketIs DEF Due
      <4>8. Mentions(r, i) \/ last_timestamp[i[1]] = i[2]
        <5>1. line[k][1] = i[1] /\ line[k][2] = i[2] BY <4>2
        <5>2. \/ Mentions(r, <<line[k][1], line[k][2]>>)
              \/ last_timestamp[line[k][1]] = line[k][2]
          BY <1>6, <4>7 DEF Along
        <5> QED BY <4>3, <5>1, <5>2
      <4>9. i[2] # 0 BY <4>3, Lengths
      <4>10. last_timestamp[i[1]] = i[2] => shown[i] = 1
        BY <4>1, <4>3, <4>9 DEF HInv, Stamps
      <4> QED BY <1>9, <4>1, <4>8, <4>10
    <3> QED BY <3>1, <3>2
  <2> QED BY <1>9, <2>1, <2>2 DEF Shows
<1> QED BY <1>1, <1>11, <1>12, <1>14, <1>15 DEF HInv

(* Before an image that is put on the line, the line ends with a packet.   *)
LEMMA AirKeeps ==
  ASSUME HInv, NEW tile \in Tiles, Air(tile)
  PROVE  HInv'
<1>1. PICK t \in {time[tile], Min({time[tile] + 1, MaxTime})} :
        /\ time' = [time EXCEPT ![tile] = t]
        /\ line' = line \o Packet(tile, t)
  BY DEF Air
<1>2. /\ UNCHANGED <<expected_seq, payload_len, buffer, sync_state, last_timestamp>>
      /\ UNCHANGED <<seq, shown, due, mixed, inRow, lost>>
  BY DEF Air, here_images, hereHistory
<1>3. /\ line \in Seq(Units) /\ Len(line) \in Nat
      /\ \A k \in 1..(Len(line) - 1) : Follows(line[k], line[k + 1])
      /\ line # << >> => IsLast(line[Len(line)])
      /\ time \in [Tiles -> 1..MaxTime]
  BY DEF HInv, Stream, Clock
<1>4. t \in 1..MaxTime /\ time[tile] <= t /\ t \in Nat
  <2>1. time[tile] \in 1..MaxTime /\ MaxTime \in Nat BY <1>3, Lengths
  <2> DEFINE both == {time[tile] + 1, MaxTime}
  <2>2. both \in SUBSET Nat BY <2>1
  <2>3. Min(both) \in both /\ \A k \in both : Min(both) <= k BY <2>2, LeastOf
  <2> QED BY <1>1, <2>1, <2>3
<1> DEFINE N == Len(line)
           M == PacketLen[tile] + 2
           p == Packet(tile, t)
<1>5. /\ p \in Seq(Units) /\ Len(p) = M /\ M \in Nat \ {0, 1, 2}
      /\ p[1] = Marker(0, 1) /\ p[2] = Marker(PacketLen[tile], 2)
      /\ \A k \in 1..PacketLen[tile] : p[k + 2] = <<tile, t, k>>
      /\ M - 2 = PacketLen[tile] /\ PacketLen[tile] \in Nat \ {0}
  <2>1. PacketLen[tile] \in Nat \ {0} BY Lengths
  <2>2. M \in Nat \ {0, 1, 2} /\ M - 2 = PacketLen[tile] BY <2>1
  <2>3. /\ p \in Seq(Units) /\ Len(p) = M
        /\ p[1] = Marker(0, 1) /\ p[2] = Marker(PacketLen[tile], 2)
        /\ \A k \in 1..PacketLen[tile] : p[k + 2] = <<tile, t, k>>
    BY <1>4, PacketIs
  <2> QED BY <2>1, <2>2, <2>3
<1> HIDE DEF p, M, N
<1>6. /\ line' \in Seq(Units) /\ Len(line') = N + M
      /\ \A k \in 1..(N + M) : line'[k] = IF k <= N THEN line[k] ELSE p[k - N]
  <2>1. line' = line \o p /\ line \in Seq(Units) /\ p \in Seq(Units)
    BY <1>1, <1>3, <1>5 DEF p
  <2>2. Len(line) = N /\ Len(p) = M BY <1>5 DEF N
  <2>3. /\ line \o p \in Seq(Units) /\ Len(line \o p) = Len(line) + Len(p)
        /\ \A k \in 1..(Len(line) + Len(p)) :
             (line \o p)[k] = IF k <= Len(line) THEN line[k] ELSE p[k - Len(line)]
    BY <2>1, ConcatProperties
  <2> QED BY <2>1, <2>2, <2>3
<1>7. N \in Nat BY <1>3 DEF N
<1>8. /\ \A k \in 1..N : k \in 1..(N + M) /\ line'[k] = line[k]
      /\ \A k \in 1..M : N + k \in 1..(N + M) /\ line'[N + k] = p[k]
  <2>1. \A k \in 1..M : N + k \in 1..(N + M) /\ ~(N + k <= N) /\ (N + k) - N = k
    BY <1>5, <1>7
  <2>2. \A k \in 1..N : k \in 1..(N + M) /\ k <= N BY <1>5, <1>7
  <2>3. \A k \in 1..N : line'[k] = line[k] BY <1>6, <2>2
  <2>4. \A k \in 1..M : line'[N + k] = p[k] BY <1>6, <2>1
  <2> QED BY <2>1, <2>2, <2>3, <2>4
<1>9. \A k \in 1..(N + M) : k \in 1..N \/ \E j \in 1..M : k = N + j
  <2> TAKE k \in 1..(N + M)
  <2>1. k \notin 1..N => k - N \in 1..M /\ k = N + (k - N) BY <1>5, <1>7
  <2> QED BY <2>1
(* Within the packet.                                                      *)
<1>10. \A j \in 1..(M - 1) : Follows(p[j], p[j + 1])
  <2> TAKE j \in 1..(M - 1)
  <2>1. CASE j = 1 BY <1>5, <2>1 DEF Follows
  <2>2. CASE j = 2
    <3>1. p[2 + 1] = <<tile, t, 1>>
      <4>1. 1 \in 1..PacketLen[tile] /\ 1 + 2 = 2 + 1 BY Lengths
      <4> QED BY <1>5, <4>1
    <3> QED BY <1>4, <1>5, <2>2, <3>1 DEF Follows
  <2>3. CASE j \notin {1, 2}
    <3>1. /\ j - 2 \in 1..(PacketLen[tile] - 1)
          /\ j - 2 \in 1..PacketLen[tile] /\ (j - 2) + 1 \in 1..PacketLen[tile]
          /\ (j - 2) + 2 = j /\ ((j - 2) + 1) + 2 = j + 1
      <4> DEFINE L == PacketLen[tile]
      <4>1. L \in Nat \ {0} /\ M - 2 = L /\ M \in Nat BY <1>5
      <4>2. j \in Nat /\ j >= 3 /\ j <= M - 1 BY <2>3, <4>1
      <4> HIDE DEF L
      <4>3. j - 2 \in 1..(L - 1) /\ j - 2 \in 1..L /\ (j - 2) + 1 \in 1..L
            /\ (j - 2) + 2 = j /\ ((j - 2) + 1) + 2 = j + 1
        BY <4>1, <4>2
      <4> QED BY <4>3 DEF L
    <3>2. p[j] = <<tile, t, j - 2>> /\ p[j + 1] = <<tile, t, (j - 2) + 1>>
      <4>1. p[(j - 2) + 2] = <<tile, t, j - 2>> BY <1>5, <3>1
      <4>2. p[((j - 2) + 1) + 2] = <<tile, t, (j - 2) + 1>> BY <1>5, <3>1
      <4> QED BY <3>1, <4>1, <4>2
    <3> QED BY <1>4, <3>1, <3>2 DEF Follows
  <2> QED BY <2>1, <2>2, <2>3
<1>11. IsLast(p[M])
  <2>1. PacketLen[tile] \in 1..PacketLen[tile] /\ M = PacketLen[tile] + 2
    BY Lengths DEF M
  <2>2. p[M] = <<tile, t, PacketLen[tile]>> BY <1>5, <2>1
  <2> QED BY <1>4, <2>1, <2>2 DEF IsLast, IsPart
<1>12. \A j \in 1..M : IsPart(p[j]) => p[j][1] = tile /\ p[j][2] = t
  <2> TAKE j \in 1..M
  <2>1. CASE j \in {1, 2}
    BY <1>5, <2>1, Lengths DEF Marker, IsPart
  <2>2. CASE j \notin {1, 2}
    <3>1. j - 2 \in 1..PacketLen[tile] /\ (j - 2) + 2 = j BY <1>5, <2>2, Lengths
    <3>2. p[(j - 2) + 2] = <<tile, t, j - 2>> BY <1>5, <3>1
    <3>3. p[j] = <<tile, t, j - 2>> BY <3>1, <3>2
    <3> QED BY <3>3
  <2> QED BY <2>1, <2>2
(* The line.                                                               *)
<1>13. Stream(line')
  <2>1. ASSUME NEW k \in 1..(N + M - 1) PROVE Follows(line'[k], line'[k + 1])
    <3>1. CASE k \in 1..(N - 1)
      <4>1. k \in 1..N /\ k + 1 \in 1..N BY <1>7, <3>1
      <4> QED BY <1>3, <1>8, <3>1, <4>1 DEF N
    <3>2. CASE k = N
      <4>1. N \in 1..N /\ 1 \in 1..M BY <1>5, <1>7, <3>2
      <4>2. line # << >> BY <4>1 DEF N
      <4>3. IsLast(line[N]) BY <1>3, <4>2 DEF N
      <4>4. line'[k] = line[N] /\ line'[k + 1] = p[1] BY <1>8, <3>2, <4>1
      <4> QED BY <1>5, <4>3, <4>4 DEF Follows
    <3>3. CASE k \notin 1..N
      <4>1. /\ k - N \in 1..(M - 1) /\ k - N \in 1..M /\ (k - N) + 1 \in 1..M
            /\ N + (k - N) = k /\ N + ((k - N) + 1) = k + 1
        BY <1>5, <1>7, <3>3
      <4>2. line'[N + (k - N)] = p[k - N] /\ line'[N + ((k - N) + 1)] = p[(k - N) + 1]
        BY <1>8, <4>1
      <4> QED BY <1>10, <4>1, <4>2
    <3>4. k \in 1..(N - 1) \/ k = N \/ k \notin 1..N BY <1>7
    <3> QED BY <3>1, <3>2, <3>3, <3>4
  <2>2. IsLast(line'[N + M])
    <3>1. M \in 1..M BY <1>5
    <3> QED BY <1>8, <1>11, <3>1
  <2>3. \A k \in 1..(Len(line') - 1) : Follows(line'[k], line'[k + 1])
    <3>1. Len(line') = N + M BY <1>6
    <3>2. 1..(Len(line') - 1) = 1..(N + M - 1) BY <1>5, <1>7, <3>1
    <3> QED BY <2>1, <3>2
  <2>4. IsLast(line'[Len(line')]) BY <1>6, <2>2
  <2> QED BY <1>6, <2>3, <2>4 DEF Stream
<1>14. /\ time' \in [Tiles -> 1..MaxTime] /\ time'[tile] = t
       /\ \A x \in Tiles : time[x] \in Nat /\ time'[x] \in Nat /\ time[x] <= time'[x]
  <2>1. time' \in [Tiles -> 1..MaxTime] /\ time'[tile] = t BY <1>1, <1>3, <1>4
  <2> QED
    <3>1. SUFFICES ASSUME NEW x \in Tiles
                   PROVE  time[x] \in Nat /\ time'[x] \in Nat /\ time[x] <= time'[x]
      BY <2>1
    <3>2. time[x] \in 1..MaxTime /\ time'[x] \in 1..MaxTime BY <1>3, <2>1
    <3>3. time[x] \in Nat /\ time'[x] \in Nat BY <3>2, Lengths
    <3>4. x # tile => time'[x] = time[x] BY <1>1, <1>3
    <3>5. x = tile => time[x] <= time'[x] BY <1>4, <2>1
    <3> QED BY <3>3, <3>4, <3>5
<1>15. \A k \in 1..N : IsPart(line[k]) =>
         line[k][1] \in Tiles /\ line[k][2] \in Nat /\ line[k][2] <= time[line[k][1]]
  <2>1. \A u : IsPart(u) => u[1] \in Tiles /\ u[2] \in Nat BY Lengths DEF IsPart
  <2> QED BY <2>1 DEF HInv, Clock, N
<1>16. Ordered(line')
  <2>1. SUFFICES ASSUME NEW i \in 1..(N + M), NEW j \in 1..(N + M), i < j,
                        IsPart(line'[i]), IsPart(line'[j]), line'[i][1] = line'[j][1]
                 PROVE  line'[i][2] <= line'[j][2]
    BY <1>6 DEF Ordered
  <2>2. CASE j \in 1..N
    <3>1. i \in 1..N BY <1>7, <2>1, <2>2
    <3>2. line'[i] = line[i] /\ line'[j] = line[j] BY <1>8, <2>2, <3>1
    <3> QED BY <2>1, <2>2, <3>1, <3>2 DEF HInv, Clock, Ordered, N
  <2>3. CASE j \notin 1..N
    <3>1. PICK b \in 1..M : j = N + b BY <1>9, <2>3
    <3>2. line'[j][1] = tile /\ line'[j][2] = t BY <1>8, <1>12, <2>1, <3>1
    <3>3. CASE i \in 1..N
      <4>1. line'[i] = line[i] BY <1>8, <3>3
      <4>2. line[i][2] \in Nat /\ line[i][2] <= time[tile] BY <1>15, <2>1, <3>2, <3>3, <4>1
      <4>3. time[tile] \in Nat BY <1>3, Lengths
      <4> QED BY <1>4, <3>2, <4>1, <4>2, <4>3
    <3>4. CASE i \notin 1..N
      <4>1. PICK a \in 1..M : i = N + a BY <1>9, <3>4
      <4>2. line'[i][2] = t BY <1>8, <1>12, <2>1, <4>1
      <4> QED BY <1>4, <3>2, <4>2
    <3> QED BY <3>3, <3>4
  <2> QED BY <2>2, <2>3
<1>17. Clock'
  <2>1. ASSUME NEW k \in 1..(N + M), IsPart(line'[k])
        PROVE  line'[k][2] <= time'[line'[k][1]]
    <3>1. CASE k \in 1..N
      <4>1. line'[k] = line[k] BY <1>8, <3>1
      <4>2. line[k][1] \in Tiles /\ line[k][2] \in Nat /\ line[k][2] <= time[line[k][1]]
        BY <1>15, <2>1, <3>1, <4>1
      <4>3. time[line[k][1]] \in Nat /\ time'[line[k][1]] \in Nat
            /\ time[line[k][1]] <= time'[line[k][1]]
        BY <1>14, <4>2
      <4>4. line[k][2] <= time'[line[k][1]] BY <4>2, <4>3
      <4> QED BY <4>1, <4>4
    <3>2. CASE k \notin 1..N
      <4>1. PICK b \in 1..M : k = N + b BY <1>9, <3>2
      <4>2. line'[k][1] = tile /\ line'[k][2] = t BY <1>8, <1>12, <2>1, <4>1
      <4> QED BY <1>4, <1>14, <4>2
    <3> QED BY <3>1, <3>2
  <2> QED BY <1>6, <1>14, <1>16, <2>1 DEF Clock
(* The receiver has not moved.                                             *)
<1>18. Numbered' BY <1>2 DEF HInv, Numbered
<1>19. InOrder'
  <2>1. Here' = Here BY <1>2 DEF Here
  <2>2. ASSUME expected_seq = seq
        PROVE  IF line' = << >> THEN IsLast(sync_state) ELSE Follows(sync_state, line'[1])
    <3>1. line' # << >> BY <1>5, <1>6, <1>7
    <3>2. CASE line = << >>
      <4>1. N = 0 /\ 1 \in 1..M BY <1>5, <3>2 DEF N
      <4>2. line'[0 + 1] = p[1] BY <1>8, <4>1
      <4>3. IsLast(sync_state) BY <2>2, <3>2 DEF HInv, InOrder
      <4> QED BY <1>5, <3>1, <4>2, <4>3 DEF Follows
    <3>3. CASE line # << >>
      <4>1. N # 0 BY <1>3, <3>3 DEF N
      <4>2. 1 \in 1..N BY <1>7, <4>1
      <4> QED BY <1>8, <2>2, <3>1, <3>3, <4>2 DEF HInv, InOrder
    <3> QED BY <3>2, <3>3
  <2> QED BY <1>2, <2>1, <2>2 DEF HInv, InOrder
<1>20. last_timestamp \in [0..HERE_TRAFFIC_TILES -> Nat]
  BY DEF HInv, InOrder, Here, Receiver
<1>21. Stamps'
  <2>1. \A x \in 0..HERE_TRAFFIC_TILES :
          x \in Tiles => last_timestamp[x] <= time[x] /\ last_timestamp[x] <= time'[x]
    <3> TAKE x \in 0..HERE_TRAFFIC_TILES
    <3>1. x \in Tiles => last_timestamp[x] <= time[x] BY DEF HInv, Stamps
    <3>2. x \in Tiles => time[x] \in Nat /\ time'[x] \in Nat /\ time[x] <= time'[x]
      BY <1>14
    <3>3. last_timestamp[x] \in Nat BY <1>20
    <3> QED BY <3>1, <3>2, <3>3
  <2>2. NotOlder(last_timestamp, line', 0)
    <3>1. SUFFICES ASSUME NEW k \in (0 + 1)..(N + M), IsPart(line'[k]),
                          line'[k][1] \in 0..HERE_TRAFFIC_TILES
                   PROVE  last_timestamp[line'[k][1]] <= line'[k][2]
      BY <1>6 DEF NotOlder
    <3>2. k \in 1..(N + M) OBVIOUS
    <3>3. CASE k \in 1..N
      <4>1. line'[k] = line[k] /\ k \in (0 + 1)..Len(line) BY <1>8, <3>3 DEF N
      <4> QED BY <3>1, <4>1 DEF HInv, Stamps, NotOlder
    <3>4. CASE k \notin 1..N
      <4>1. PICK b \in 1..M : k = N + b BY <1>9, <3>2, <3>4
      <4>2. line'[k][1] = tile /\ line'[k][2] = t BY <1>8, <1>12, <3>1, <4>1
      <4>3. last_timestamp[tile] <= time'[tile] BY <2>1, <3>1, <4>2
      <4> QED BY <1>14, <4>2, <4>3
    <3> QED BY <3>3, <3>4
  <2> QED BY <1>2, <2>1, <2>2 DEF HInv, Stamps
<1>22. Shows' BY <1>2 DEF HInv, Shows
<1> QED BY <1>13, <1>17, <1>18, <1>19, <1>21, <1>22 DEF HInv

(* A reset leaves the packet in the buffer: no message will continue it.   *)
LEMMA ResetKeeps ==
  ASSUME HInv, output_reset
  PROVE  HInv'
<1>1. /\ expected_seq' = -1 /\ last_timestamp' = [k \in 0..HERE_TRAFFIC_TILES |-> 0]
      /\ UNCHANGED <<payload_len, buffer, sync_state, time, mixed>>
      /\ line' = << >> /\ seq' \in 0..(SeqNums - 1)
      /\ shown' = [i \in Images |-> 0] /\ due' = {} /\ inRow' = 0 /\ lost' = 0
  BY DEF output_reset, here_images_reset
<1>2. Stream(line') /\ Len(line') = 0 BY <1>1 DEF Stream
<1>3. Clock' BY <1>1, <1>2 DEF HInv, Clock, Ordered
<1>4. expected_seq' # seq' BY <1>1, Lengths
<1>5. Numbered' BY <1>1 DEF Numbered
<1>6. Here' \in Receiver
  <2>1. [k \in 0..HERE_TRAFFIC_TILES |-> 0] \in [0..HERE_TRAFFIC_TILES -> Nat] OBVIOUS
  <2>2. /\ payload_len \in Int /\ buffer \in Seq(Units)
        /\ sync_state \in Units \cup {<< >>} /\ << >> \in Seq(Seq(Units))
    BY DEF HInv, InOrder, Here, Receiver
  <2> QED BY <1>1, <2>1, <2>2 DEF Here, Receiver
<1>7. InOrder' BY <1>4, <1>6 DEF InOrder
<1>8. \A tile \in Tiles : 0 <= time[tile] BY Lengths DEF HInv, Clock
<1>9. NotOlder(last_timestamp', line', 0) BY <1>2 DEF NotOlder
<1>10. \A tile \in 0..HERE_TRAFFIC_TILES : last_timestamp'[tile] = 0 BY <1>1
<1>11. Stamps' BY <1>1, <1>8, <1>9, <1>10 DEF Stamps
<1>12. Shows' BY <1>1 DEF HInv, Shows
<1> QED BY <1>2, <1>3, <1>5, <1>7, <1>11, <1>12 DEF HInv

LEMMA HereStarts == HereInit => HInv
<1> SUFFICES ASSUME HereInit PROVE HInv
  OBVIOUS
<1>1. /\ expected_seq = -1 /\ payload_len = 0 /\ buffer = << >> /\ sync_state = << >>
      /\ last_timestamp = [k \in 0..HERE_TRAFFIC_TILES |-> 0]
      /\ line = << >> /\ seq \in 0..(SeqNums - 1) /\ time = [i \in Tiles |-> 1]
      /\ shown = [i \in Images |-> 0] /\ due = {} /\ mixed = FALSE /\ inRow = 0
      /\ lost = 0
  BY DEF HereInit
<1>2. Stream(line) /\ Len(line) = 0 BY <1>1 DEF Stream
<1>3. 1 \in 1..MaxTime BY Lengths
<1>4. Clock BY <1>1, <1>2, <1>3 DEF Clock, Ordered
<1>5. expected_seq # seq BY <1>1, Lengths
<1>6. Numbered BY <1>1 DEF Numbered
<1>7. << >> \in Seq(Units) /\ << >> \in Seq(Seq(Units)) OBVIOUS
<1>8. Here \in Receiver BY <1>1, <1>7 DEF Here, Receiver
<1>9. InOrder BY <1>5, <1>8 DEF InOrder
<1>10. NotOlder(last_timestamp, line, 0) BY <1>2 DEF NotOlder
<1>11. \A tile \in 0..HERE_TRAFFIC_TILES : last_timestamp[tile] = 0 BY <1>1
<1>12. \A tile \in Tiles : 0 <= time[tile] BY <1>1
<1>13. Stamps BY <1>10, <1>11, <1>12 DEF Stamps
<1>14. Shows BY <1>1 DEF Shows
<1> QED BY <1>2, <1>4, <1>6, <1>9, <1>13, <1>14 DEF HInv

-----------------------------------------------------------------------------
(* The theorems.                                                           *)

IInv == TableInv /\ TableSays /\ HInv

LEMMA HereNext == HInv /\ [Next]_vars => HInv'
<1> SUFFICES ASSUME HInv, [Next]_vars PROVE HInv'
  OBVIOUS
<1>1. CASE UNCHANGED hereVars
  <2>1. /\ UNCHANGED <<expected_seq, payload_len, buffer, sync_state, last_timestamp>>
        /\ UNCHANGED <<line, seq, time, shown, due, mixed, inRow, lost>>
    BY <1>1 DEF hereVars, here_images, station, hereHistory
  <2>2. Here' = Here BY <2>1 DEF Here
  <2>3. Stream(line') /\ Clock' /\ Numbered'
    BY <2>1 DEF HInv, Clock, Numbered
  <2>4. InOrder' BY <2>1, <2>2 DEF HInv, InOrder
  <2>5. Stamps' /\ Shows' BY <2>1 DEF HInv, Stamps, Shows
  <2> QED BY <2>3, <2>4, <2>5 DEF HInv
<1>2. CASE SigMessage BY <1>1, <1>2 DEF SigMessage
<1>3. ASSUME NEW port \in Ports, PortMessage(port) PROVE HInv'
  BY <1>1, <1>3 DEF PortMessage
<1>4. ASSUME NEW port \in Ports, NEW n \in 1..MaxChunk, HereMessage(port, n) PROVE HInv'
  BY <1>4, ArrivesKeeps, MissesKeeps DEF HereMessage
<1>5. ASSUME NEW port \in Ports, NEW n \in 1..MaxChunk, Lost(port, n) PROVE HInv'
  BY <1>5, MissesKeeps DEF Lost
<1>6. ASSUME NEW type \in {"id3", "none"}, OtherMessage(type) PROVE HInv'
  BY <1>1, <1>6 DEF OtherMessage
<1>7. ASSUME NEW tile \in Tiles, Air(tile) PROVE HInv' BY <1>7, AirKeeps
<1>8. CASE output_reset BY <1>8, ResetKeeps
<1> QED BY <1>1, <1>2, <1>3, <1>4, <1>5, <1>6, <1>7, <1>8 DEF Next, vars

(* The inductive invariant holds from the start and through every step.    *)
THEOREM Invariance == Spec => []IInv
<1>1. Init => IInv
  <2> SUFFICES ASSUME Init PROVE IInv
    OBVIOUS
  <2>1. HInv BY HereStarts DEF Init
  <2>2. onAir \in Sigs /\ services = << >> /\ sig_table = 0 /\ records = {}
        /\ event = NoEvent
    BY DEF Init
  <2>3. services \in Seq(Service) /\ DOMAIN services = {} BY <2>2
  <2>4. RecordsLive BY <2>2, <2>3 DEF RecordsLive, NoEvent
  <2>5. TableInv BY <2>2, <2>3, <2>4 DEF TableInv
  <2>6. TableSays BY <2>2 DEF TableSays
  <2> QED BY <2>1, <2>5, <2>6 DEF IInv
<1>2. IInv /\ [Next]_vars => IInv' BY TableNext, SaysNext, HereNext DEF IInv
<1> QED BY <1>1, <1>2, PTL DEF Spec

(* The table in use says of every service and component what the station   *)
(* said of it last, and says nothing twice, for any table that fits.       *)
THEOREM TableCorrect == Spec => []TableIsAnnounced
<1>1. IInv => TableIsAnnounced
  <2> SUFFICES ASSUME IInv, services # << >>, Fits(onAir) PROVE TableIsAnnounced
    BY DEF TableIsAnnounced
  <2>1. /\ onAir \in Sigs /\ services \in Seq(Service)
        /\ Announces(services, onAir, Readable(onAir))
    BY DEF IInv, TableInv, TableSays
  <2> QED BY <2>1, AnnouncesIs DEF TableIsAnnounced
<1> QED BY <1>1, Invariance, PTL

(* Every event of a port, and every component of the table, points to      *)
(* records in memory, and no others are there: the table is freed by every *)
(* reset, and read once until then.                                        *)
THEOREM RecordsCorrect == Spec => []RecordsLive
<1>1. IInv => RecordsLive BY DEF IInv, TableInv
<1> QED BY <1>1, Invariance, PTL

(* Whatever messages are lost, wherever they are cut and whenever a reset  *)
(* falls, an image handed over is one the station sent, and none is handed *)
(* over twice.                                                             *)
THEOREM ImagesCorrect == Spec => []ImagesWhole
<1>1. IInv => ImagesWhole BY DEF IInv, HInv, Shows, ImagesWhole
<1> QED BY <1>1, Invariance, PTL

(* An image of which every unit has come in a row is handed over.          *)
THEOREM CaughtCorrect == Spec => []ImagesCaught
<1>1. IInv => ImagesCaught BY DEF IInv, HInv, Shows, ImagesCaught
<1> QED BY <1>1, Invariance, PTL
=============================================================================
