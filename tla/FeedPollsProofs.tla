-------------------------- MODULE FeedPollsProofs ---------------------------
(***************************************************************************)
(* Whatever the feed, its publisher and the order of answers, refusals and *)
(* time: the table holds the last accepted answer and nothing else, and    *)
(* that answer is what the feed's adapter makes of what its publisher      *)
(* said.  What the adapters make, record by record, then gives what is     *)
(* true of the display: facts told once, storms and zones whole, routes    *)
(* that reach the beach, notices that are active.                          *)
(***************************************************************************)
EXTENDS FeedPolls, TLAPS, FiniteSetTheorems, SequenceTheorems,
        WellFoundedInduction

-----------------------------------------------------------------------------
(***************************************************************************)
(* Lists.  The library's induction principles take a predicate as their    *)
(* parameter; the well-foundedness of < on the natural numbers takes a set,*)
(* and gives a least element, induction for a set, and with it what the    *)
(* recursive FlattenSeq and the choices SetToSeq, Min and Max return.      *)
(***************************************************************************)
LEMMA Least ==
    ASSUME NEW T, T \subseteq Nat, T # {}
    PROVE  \E x \in T : \A y \in T : x <= y
<1> DEFINE R == {p \in Nat \X Nat : p[1] < p[2]}
<1>1. IsWellFoundedOn(R, Nat)
  BY NatLessThanWellFounded DEF OpToRel
<1>2. PICK x \in T : \A y \in T : ~(<<y, x>> \in R)
  BY <1>1, WFMin
<1>3. \A y \in T : ~(y < x)
  BY <1>2
<1> QED
  BY <1>3

LEMMA Inductive ==
    ASSUME NEW P, 0 \in P, \A n \in Nat : n \in P => n + 1 \in P
    PROVE  Nat \subseteq P
<1> SUFFICES ASSUME Nat \ P # {} PROVE FALSE
  OBVIOUS
<1>1. PICK x \in Nat \ P : \A y \in Nat \ P : x <= y
  BY Least
<1>2. x # 0 /\ x - 1 \in Nat
  BY <1>1
<1>3. x - 1 \in P
  BY <1>1, <1>2
<1> QED
  BY <1>1, <1>2, <1>3

LEMMA MinIsLeast ==
    ASSUME NEW T, T \subseteq Nat, T # {}
    PROVE  Min(T) \in T /\ \A y \in T : Min(T) <= y
<1>1. \E x \in T : \A y \in T : x <= y
  BY Least
<1> QED
  BY <1>1 DEF Min

LEMMA MaxIsGreatest ==
    ASSUME NEW n \in Nat, NEW T, T \subseteq 1 .. n, T # {}
    PROVE  Max(T) \in T /\ \A y \in T : y <= Max(T)
<1> DEFINE U == {k \in Nat : \E x \in T : k = n - x}
<1>1. U # {}
  <2>1. PICK x \in T : TRUE
    OBVIOUS
  <2>2. n - x \in U
    BY <2>1
  <2> QED
    BY <2>2
<1>2. PICK u \in U : \A v \in U : u <= v
  BY <1>1, Least
<1>3. PICK x \in T : u = n - x
  BY <1>2
<1>4. ASSUME NEW y \in T PROVE y <= x
  <2>1. n - y \in U
    OBVIOUS
  <2>2. u <= n - y
    BY <1>2, <2>1
  <2> QED
    BY <1>3, <2>2
<1> QED
  BY <1>4 DEF Max

(* A function on 1 .. n is a list of its values. *)
LEMMA ListOf ==
    ASSUME NEW n \in Nat, NEW S, NEW f \in [1 .. n -> S]
    PROVE  IsList(f) /\ Len(f) = n /\ DOMAIN f = 1 .. n /\ ToSet(f) \subseteq S
<1>1. DOMAIN f = 1 .. n
  OBVIOUS
<1>2. f \in [1 .. n -> ToSet(f)]
  BY DEF ToSet
<1>3. f \in Seq(ToSet(f))
  BY <1>2
<1> QED
  BY <1>1, <1>3 DEF IsList, ToSet

LEMMA ListParts ==
    ASSUME NEW s, IsList(s)
    PROVE  /\ Len(s) \in Nat /\ DOMAIN s = 1 .. Len(s)
           /\ s \in [1 .. Len(s) -> ToSet(s)]
           /\ IsFiniteSet(DOMAIN s)
<1>1. Len(s) \in Nat /\ DOMAIN s = 1 .. Len(s) /\ s \in [1 .. Len(s) -> ToSet(s)]
  BY DEF IsList
<1> QED
  BY <1>1, FS_Interval

LEMMA ListInSeq ==
    ASSUME NEW S, NEW s \in Seq(S)
    PROVE  IsList(s) /\ ToSet(s) \subseteq S
<1>1. Len(s) \in Nat /\ s \in [1 .. Len(s) -> S]
  OBVIOUS
<1> QED
  BY <1>1, ListOf

LEMMA ListInSeqOf ==
    ASSUME NEW S, NEW s, IsList(s), ToSet(s) \subseteq S
    PROVE  s \in Seq(S)
<1>1. Len(s) \in Nat /\ s \in [1 .. Len(s) -> ToSet(s)]
  BY ListParts
<1>2. s \in [1 .. Len(s) -> S]
  BY <1>1
<1> QED
  BY <1>1, <1>2

LEMMA ListConcat ==
    ASSUME NEW s, NEW t, IsList(s), IsList(t)
    PROVE  IsList(s \o t) /\ ToSet(s \o t) = ToSet(s) \cup ToSet(t)
<1> DEFINE S == ToSet(s) \cup ToSet(t)
<1>1. s \in Seq(S) /\ t \in Seq(S)
  BY ListInSeqOf
<1>2. /\ s \o t \in Seq(S)
      /\ Len(s \o t) = Len(s) + Len(t)
      /\ \A i \in 1 .. Len(s) + Len(t) :
            (s \o t)[i] = IF i <= Len(s) THEN s[i] ELSE t[i - Len(s)]
  BY <1>1, ConcatProperties
<1>3. IsList(s \o t) /\ ToSet(s \o t) \subseteq S
  BY <1>2, ListInSeq
<1>4. ASSUME NEW x \in ToSet(s) PROVE x \in ToSet(s \o t)
  <2>1. PICK i \in 1 .. Len(s) : x = s[i]
    BY ListParts DEF ToSet
  <2>2. i \in DOMAIN (s \o t) /\ (s \o t)[i] = x
    BY <1>2, <1>3, <2>1, ListParts
  <2> QED
    BY <2>2 DEF ToSet
<1>5. ASSUME NEW x \in ToSet(t) PROVE x \in ToSet(s \o t)
  <2>1. PICK i \in 1 .. Len(t) : x = t[i]
    BY ListParts DEF ToSet
  <2>2. Len(s) \in Nat /\ Len(t) \in Nat
    BY ListParts
  <2> DEFINE j == Len(s) + i
  <2>3. j \in 1 .. Len(s) + Len(t) /\ ~(j <= Len(s)) /\ j - Len(s) = i
    BY <2>1, <2>2
  <2>4. (s \o t)[j] = x /\ j \in DOMAIN (s \o t)
    BY <1>2, <1>3, <2>1, <2>3, ListParts
  <2> QED
    BY <2>4 DEF ToSet
<1> QED
  BY <1>3, <1>4, <1>5

(* The recursive function inside FlattenSeq exists, which is shown for     *)
(* every length up to that of the list.                                    *)
LEMMA FlattenExists ==
    ASSUME NEW S, NEW seqs \in Seq(Seq(S)), Len(seqs) # 0
    PROVE  \E f \in [1 .. Len(seqs) -> Seq(S)] :
              \A i \in 1 .. Len(seqs) :
                 f[i] = IF i = 1 THEN seqs[i] ELSE f[i - 1] \o seqs[i]
<1> DEFINE n == Len(seqs)
           Solves(f, m) == \A i \in 1 .. m :
                              f[i] = IF i = 1 THEN seqs[i] ELSE f[i - 1] \o seqs[i]
           Has(m) == m <= n => \E f \in [1 .. m -> Seq(S)] : Solves(f, m)
           P == {m \in Nat : Has(m)}
<1>0. n \in Nat /\ \A i \in 1 .. n : seqs[i] \in Seq(S)
  OBVIOUS
<1>1. Has(0)
  <2> DEFINE f == [i \in 1 .. 0 |-> <<>>]
  <2>1. f \in [1 .. 0 -> Seq(S)] /\ Solves(f, 0)
    OBVIOUS
  <2> QED
    BY <2>1
<1>2. ASSUME NEW m \in Nat, Has(m) PROVE Has(m + 1)
  <2> SUFFICES ASSUME m + 1 <= n
               PROVE  \E g \in [1 .. m + 1 -> Seq(S)] : Solves(g, m + 1)
    OBVIOUS
  <2>1. PICK f \in [1 .. m -> Seq(S)] : Solves(f, m)
    <3>1. m <= n
      BY <1>0
    <3> QED
      BY <1>2, <3>1, Zenon
  <2> DEFINE next == IF m = 0 THEN seqs[1] ELSE f[m] \o seqs[m + 1]
             g == [i \in 1 .. m + 1 |-> IF i = m + 1 THEN next ELSE f[i]]
  <2>2. next \in Seq(S)
    <3>1. CASE m = 0
      BY <1>0, <1>2, <3>1
    <3>2. CASE m # 0
      <4>1. f[m] \in Seq(S) /\ seqs[m + 1] \in Seq(S)
        BY <1>0, <1>2, <3>2
      <4> QED
        BY <3>2, <4>1
    <3> QED
      BY <3>1, <3>2
  <2>3. g \in [1 .. m + 1 -> Seq(S)]
    <3> HIDE DEF next
    <3> QED
      BY <2>2
  <2>4. ASSUME NEW i \in 1 .. m + 1
        PROVE  g[i] = IF i = 1 THEN seqs[i] ELSE g[i - 1] \o seqs[i]
    <3>1. CASE i = m + 1 /\ m = 0
      BY <3>1
    <3>2. CASE i = m + 1 /\ m # 0
      <4>1. i # 1 /\ i - 1 = m /\ m \in 1 .. m + 1 /\ m # m + 1
        BY <3>2
      <4>2. g[i] = next /\ g[m] = f[m]
        <5> HIDE DEF next
        <5> QED
          BY <3>2, <4>1
      <4> QED
        BY <3>2, <4>1, <4>2
    <3>3. CASE i # m + 1
      <4>1. i \in 1 .. m /\ g[i] = f[i]
        BY <3>3
      <4>2. i # 1 => i - 1 \in 1 .. m /\ i - 1 # m + 1 /\ g[i - 1] = f[i - 1]
        BY <4>1
      <4>3. f[i] = IF i = 1 THEN seqs[i] ELSE f[i - 1] \o seqs[i]
        BY <2>1, <4>1
      <4> QED
        BY <4>1, <4>2, <4>3
    <3> QED
      BY <3>1, <3>2, <3>3
  <2> HIDE DEF g
  <2> QED
    BY <2>3, <2>4
<1>3. Has(n)
  <2> HIDE DEF Has
  <2>1. 0 \in P /\ \A m \in Nat : m \in P => m + 1 \in P
    BY <1>1, <1>2
  <2>2. Nat \subseteq P
    <3> HIDE DEF P
    <3> QED
      BY <2>1, Inductive
  <2> QED
    BY <1>0, <2>2
<1> QED
  BY <1>0, <1>3

(* FlattenSeq puts lists behind one another: it loses nothing, adds        *)
(* nothing, and makes a list.                                              *)
LEMMA Flattened ==
    ASSUME NEW S, NEW seqs \in Seq(Seq(S))
    PROVE  /\ FlattenSeq(seqs) \in Seq(S)
           /\ ToSet(FlattenSeq(seqs)) = UNION {ToSet(seqs[i]) : i \in DOMAIN seqs}
<1> DEFINE n == Len(seqs)
<1>0. n \in Nat /\ DOMAIN seqs = 1 .. n /\ \A i \in 1 .. n : seqs[i] \in Seq(S)
  OBVIOUS
<1>1. CASE n = 0
  <2>1. FlattenSeq(seqs) = seqs /\ seqs = <<>> /\ DOMAIN seqs = {}
    BY <1>0, <1>1 DEF FlattenSeq
  <2> QED
    BY <2>1 DEF ToSet
<1>2. CASE n # 0
  <2> DEFINE rec(f) == [i \in 1 .. n |-> IF i = 1 THEN seqs[i] ELSE f[i - 1] \o seqs[i]]
             flatten == CHOOSE f : f = rec(f)
  <2>1. FlattenSeq(seqs) = flatten[n]
    BY <1>2 DEF FlattenSeq
  <2>2. \E f : f = rec(f)
    <3>1. PICK f \in [1 .. n -> Seq(S)] :
             \A i \in 1 .. n : f[i] = IF i = 1 THEN seqs[i] ELSE f[i - 1] \o seqs[i]
      BY <1>2, FlattenExists
    <3>2. f = rec(f)
      BY <3>1
    <3> QED
      BY <3>2
  <2>3. flatten = rec(flatten)
    BY <2>2
  <2> HIDE DEF flatten
  <2>4. \A i \in 1 .. n :
           flatten[i] = IF i = 1 THEN seqs[i] ELSE flatten[i - 1] \o seqs[i]
    BY <2>3
  <2> DEFINE Upto(m) == UNION {ToSet(seqs[i]) : i \in 1 .. m}
             Right(m) == m \in 1 .. n =>
                            flatten[m] \in Seq(S) /\ ToSet(flatten[m]) = Upto(m)
             P == {m \in Nat : Right(m)}
  <2>5. Right(0)
    OBVIOUS
  <2>6. ASSUME NEW m \in Nat, Right(m) PROVE Right(m + 1)
    <3> SUFFICES ASSUME m + 1 \in 1 .. n
                 PROVE  flatten[m + 1] \in Seq(S) /\ ToSet(flatten[m + 1]) = Upto(m + 1)
      OBVIOUS
    <3>0. 1 .. m + 1 = (1 .. m) \cup {m + 1}
      OBVIOUS
    <3>1. Upto(m + 1) = Upto(m) \cup ToSet(seqs[m + 1])
      BY <3>0
    <3>2. CASE m = 0
      <4>1. flatten[m + 1] = seqs[m + 1] /\ 1 .. m = {}
        BY <2>4, <2>6, <3>2
      <4> QED
        BY <1>0, <2>6, <3>1, <4>1
    <3>3. CASE m # 0
      <4>1. m \in 1 .. n /\ flatten[m] \in Seq(S) /\ ToSet(flatten[m]) = Upto(m)
        BY <1>0, <2>6, <3>3
      <4>2. flatten[m + 1] = flatten[m] \o seqs[m + 1] /\ seqs[m + 1] \in Seq(S)
        <5>1. m + 1 # 1 /\ (m + 1) - 1 = m
          BY <3>3
        <5> QED
          BY <1>0, <2>4, <2>6, <5>1
      <4>3. flatten[m + 1] \in Seq(S)
        BY <4>1, <4>2
      <4>4. ToSet(flatten[m + 1]) = ToSet(flatten[m]) \cup ToSet(seqs[m + 1])
        BY <4>1, <4>2, ListInSeq, ListConcat
      <4> QED
        BY <3>1, <4>1, <4>3, <4>4
    <3> QED
      BY <3>2, <3>3
  <2>7. Right(n)
    <3> HIDE DEF Right
    <3>1. 0 \in P /\ \A m \in Nat : m \in P => m + 1 \in P
      BY <2>5, <2>6
    <3>2. Nat \subseteq P
      <4> HIDE DEF P
      <4> QED
        BY <3>1, Inductive
    <3> QED
      BY <1>0, <3>2
  <2> QED
    BY <1>0, <1>2, <2>1, <2>7
<1> QED
  BY <1>1, <1>2

(* Picked keeps the items at the chosen places and no others. *)
LEMMA PickedItems ==
    ASSUME NEW items, IsList(items), NEW places \in SUBSET DOMAIN items
    PROVE  /\ IsList(Picked(items, places))
           /\ ToSet(Picked(items, places)) = {items[i] : i \in places}
<1> DEFINE S == ToSet(items)
           seqs == [i \in DOMAIN items |-> IF i \in places THEN <<items[i]>> ELSE <<>>]
<1>1. Len(items) \in Nat /\ DOMAIN items = 1 .. Len(items)
  BY ListParts
<1>2. \A i \in DOMAIN items : seqs[i] \in Seq(S)
  <2>1. \A i \in DOMAIN items : items[i] \in S
    BY DEF ToSet
  <2> QED
    BY <2>1
<1>3. seqs \in [1 .. Len(items) -> Seq(S)]
  BY <1>1, <1>2
<1>4. seqs \in Seq(Seq(S)) /\ DOMAIN seqs = DOMAIN items
  BY <1>1, <1>3
<1>5. \A i \in DOMAIN items : ToSet(seqs[i]) = IF i \in places THEN {items[i]} ELSE {}
  BY DEF ToSet
<1>6. UNION {ToSet(seqs[i]) : i \in DOMAIN seqs} = {items[i] : i \in places}
  <2> HIDE DEF seqs
  <2> QED
    BY <1>4, <1>5
<1>7. Picked(items, places) = FlattenSeq(seqs)
  BY DEF Picked
<1> HIDE DEF seqs
<1>8. /\ FlattenSeq(seqs) \in Seq(S)
      /\ ToSet(FlattenSeq(seqs)) = UNION {ToSet(seqs[i]) : i \in DOMAIN seqs}
  <2> HIDE DEF S
  <2> QED
    BY <1>4, Flattened
<1>9. IsList(FlattenSeq(seqs))
  <2> HIDE DEF S
  <2> QED
    BY <1>8, ListInSeq
<1> QED
  BY <1>6, <1>7, <1>8, <1>9

(* SetToSeq lists a finite set. *)
LEMMA SetListed ==
    ASSUME NEW S, IsFiniteSet(S)
    PROVE  /\ IsList(SetToSeq(S)) /\ ToSet(SetToSeq(S)) = S
<1> DEFINE n == Cardinality(S)
           s == SetToSeq(S)
<1>1. n \in Nat /\ ExistsBijection(1 .. n, S)
  BY FS_CardinalityType
<1>2. \E f \in [1 .. n -> S] : IsInjective(f)
  BY <1>1 DEF ExistsBijection, Bijection, Injection, IsInjective
<1>3. s \in [1 .. n -> S] /\ IsInjective(s)
  BY <1>2 DEF SetToSeq
<1>4. s \in Injection(1 .. n, S)
  BY <1>3 DEF Injection, IsInjective
<1>5. Cardinality(1 .. n) = n
  BY <1>1, FS_Interval
<1>6. s \in Surjection(1 .. n, S)
  BY <1>4, <1>5, FS_Injection
<1>7. S \subseteq ToSet(s)
  BY <1>3, <1>6 DEF Surjection, ToSet
<1> QED
  BY <1>1, <1>3, <1>7, ListOf

LEMMA FiniteImage ==
    ASSUME NEW S, IsFiniteSet(S), NEW f, DOMAIN f = S, f = [x \in S |-> f[x]]
    PROVE  IsFiniteSet({f[x] : x \in S})
<1> DEFINE T == {f[x] : x \in S}
<1>1. f \in [S -> T]
  OBVIOUS
<1>2. f \in Surjection(S, T)
  BY <1>1 DEF Surjection
<1> QED
  BY <1>2, FS_Surjection

(* A loop that makes one item of each. *)
LEMMA Mapped ==
    ASSUME NEW items, IsList(items), NEW f, f = [i \in DOMAIN items |-> f[i]]
    PROVE  /\ IsList(f) /\ Len(f) = Len(items) /\ DOMAIN f = DOMAIN items
           /\ ToSet(f) = {f[i] : i \in DOMAIN items}
<1> DEFINE S == {f[i] : i \in DOMAIN items}
<1>1. Len(items) \in Nat /\ DOMAIN items = 1 .. Len(items)
  BY ListParts
<1>2. f \in [1 .. Len(items) -> S]
  BY <1>1
<1> QED
  BY <1>1, <1>2, ListOf DEF ToSet

LEMMA NoItems == IsList(<<>>) /\ ToSet(<<>>) = {}
<1>1. IsList(<<>>)
  BY DEF IsList
<1>2. DOMAIN <<>> = {}
  OBVIOUS
<1> QED
  BY <1>1, <1>2 DEF ToSet

LEMMA OneItem ==
    ASSUME NEW item
    PROVE  IsList(<<item>>) /\ ToSet(<<item>>) = {item}
<1>1. <<item>> \in Seq({item}) /\ DOMAIN <<item>> = 1 .. 1 /\ <<item>>[1] = item
  OBVIOUS
<1>2. item \in ToSet(<<item>>)
  BY <1>1 DEF ToSet
<1> QED
  BY <1>1, <1>2, ListInSeq

-----------------------------------------------------------------------------
(* The table *)

(* The rows an answer makes of an empty table. *)
Rows(records) == [id \in Ids(records) |-> Filed(id, records)]

(* Where an answer has a row it stands, and every other row is retired.    *)
LEMMA FiledAnew ==
    ASSUME NEW rows, NEW records, NEW time \in Int
    PROVE  UpsertRecords(rows, records, time) = Current(Rows(records), time)
<1> DEFINE all == RetireMissing(Upserted(rows, records), Ids(records), time)
           old == DOMAIN rows \cup Ids(records)
<1>1. all = [id \in old |->
                IF id \in Ids(records) THEN Filed(id, records) ELSE Retired(rows[id], time)]
  BY DEF RetireMissing, Upserted
<1>2. \A id : Retired(rows[id], time).expires = time
  BY DEF Retired, Record
<1>3. \A id \in old \ Ids(records) : ~Unexpired(all[id], time)
  <2>1. \A id \in old \ Ids(records) : all[id].expires = time
    BY <1>1, <1>2
  <2> QED
    BY <2>1 DEF Unexpired
<1>4. \A id \in Ids(records) : all[id] = Rows(records)[id]
  BY <1>1 DEF Rows
<1>5. DOMAIN all = old /\ DOMAIN Rows(records) = Ids(records)
  BY <1>1 DEF Rows
<1>6. {id \in DOMAIN all : Unexpired(all[id], time)}
        = {id \in DOMAIN Rows(records) : Unexpired(Rows(records)[id], time)}
  BY <1>3, <1>4, <1>5
<1> HIDE DEF all
<1>7. Current(all, time) = Current(Rows(records), time)
  BY <1>4, <1>5, <1>6 DEF Current, Restrict
<1> QED
  BY <1>7 DEF UpsertRecords, all

(* What is current later is what is then current of what is current now.   *)
LEMMA CurrentLater ==
    ASSUME NEW rows, NEW time \in Int
    PROVE  Current(Current(rows, time), time + 1) = Current(rows, time + 1)
<1>1. \A id : Unexpired(rows[id], time + 1) => Unexpired(rows[id], time)
  BY DEF Unexpired
<1>2. DOMAIN Current(rows, time) = {id \in DOMAIN rows : Unexpired(rows[id], time)}
  BY DEF Current, Restrict
<1>3. \A id \in DOMAIN Current(rows, time) : Current(rows, time)[id] = rows[id]
  BY DEF Current, Restrict
<1>4. {id \in DOMAIN Current(rows, time) : Unexpired(Current(rows, time)[id], time + 1)}
        = {id \in DOMAIN rows : Unexpired(rows[id], time + 1)}
  BY <1>1, <1>2, <1>3
<1> DEFINE now1 == Current(rows, time)
<1>5. \A id \in DOMAIN now1 : now1[id] = rows[id]
  BY <1>3
<1>6. {id \in DOMAIN now1 : Unexpired(now1[id], time + 1)}
        = {id \in DOMAIN rows : Unexpired(rows[id], time + 1)}
  BY <1>4
<1> HIDE DEF now1
<1>7. Current(now1, time + 1) = Current(rows, time + 1)
  BY <1>5, <1>6 DEF Current, Restrict
<1> QED
  BY <1>7 DEF now1

(* Of the records with one identity the last is filed. *)
LEMMA FiledLast ==
    ASSUME NEW records, IsList(records), NEW id \in Ids(records)
    PROVE  \E k \in DOMAIN records :
              /\ Filed(id, records) = records[k] /\ records[k].id = id
              /\ \A j \in DOMAIN records : records[j].id = id => j <= k
<1> DEFINE I == {i \in 1 .. Len(records) : records[i].id = id}
<1>1. Len(records) \in Nat /\ DOMAIN records = 1 .. Len(records)
  BY ListParts
<1>2. I # {}
  BY <1>1 DEF Ids
<1>3. Filed(id, records) = records[Max(I)]
  BY <1>2 DEF Filed, SelectLastInSeq
<1>4. Max(I) \in I /\ \A j \in I : j <= Max(I)
  BY <1>1, <1>2, MaxIsGreatest
<1> QED
  BY <1>1, <1>3, <1>4

(* A row on display is a record of the answer, under its identity. *)
LEMMA RowsAreRecords ==
    ASSUME NEW records, IsList(records), NEW time, NEW id \in DOMAIN Current(Rows(records), time)
    PROVE  /\ Current(Rows(records), time)[id] \in ToSet(records)
           /\ Current(Rows(records), time)[id].id = id
           /\ Unexpired(Current(Rows(records), time)[id], time)
<1>1. /\ id \in Ids(records)
      /\ Current(Rows(records), time)[id] = Filed(id, records)
      /\ Unexpired(Filed(id, records), time)
  BY DEF Current, Restrict, Rows
<1>2. PICK k \in DOMAIN records : Filed(id, records) = records[k] /\ records[k].id = id
  BY <1>1, FiledLast
<1> QED
  BY <1>1, <1>2 DEF ToSet

(* Of records that never expire each identity is on display, by its last. *)
LEMMA AllOnDisplay ==
    ASSUME NEW records, IsList(records), NEW time,
           \A r \in ToSet(records) : r.expires = None
    PROVE  /\ DOMAIN Current(Rows(records), time) = Ids(records)
           /\ \A id \in Ids(records) :
                 Current(Rows(records), time)[id] = Filed(id, records)
<1>1. ASSUME NEW id \in Ids(records) PROVE Unexpired(Rows(records)[id], time)
  <2>1. PICK k \in DOMAIN records : Filed(id, records) = records[k]
    BY FiledLast
  <2>2. Rows(records)[id].expires = None
    BY <2>1 DEF Rows, ToSet
  <2> QED
    BY <2>2, NoneAssumption DEF Unexpired
<1>2. DOMAIN Rows(records) = Ids(records)
  BY DEF Rows
<1>3. {id \in DOMAIN Rows(records) : Unexpired(Rows(records)[id], time)} = Ids(records)
  BY <1>1, <1>2
<1>4. Current(Rows(records), time) = [id \in Ids(records) |-> Rows(records)[id]]
  BY <1>3 DEF Current, Restrict
<1> QED
  BY <1>4 DEF Rows

-----------------------------------------------------------------------------
(* What the table holds was made, as the adapter of the feed makes it, of  *)
(* an answer its publisher may give.                                       *)

MadeOf(said, time, result) ==
    /\ feed = "pulsepoint" => result = PulsePointRecords(said)
    /\ feed = "alerts" => result = AlertRecords(said)
    /\ feed = "hourly" => result = FetchForecast(said)
    /\ feed = "observation" => result = FetchObservation(said)
    /\ feed \in CoopsProducts => result = CoopsRecords(feed, said)
    /\ feed = "demand" => result = EiaRecords(feed, said)
    /\ feed = "radar" => result = RadarRecords(said, RadarClock(time))
    /\ feed = "storms" => result = StormRecords(said)
    /\ feed = "closures" => result = ArcGisRecords(TRUE, said)
    /\ feed = "shelters" => result = ArcGisRecords(FALSE, said)
    /\ feed = "zones" => result = DissolvedRecords(TRUE, said)
    /\ feed = "transit" => result = GtfsRecords(said)
    /\ feed \in DOMAIN WebSource =>
          result = WebRecords(WebSource[feed], said.page, said.nodes)

Polled ==
    CoopsProducts \cup DOMAIN WebSource \cup
        {"pulsepoint", "alerts", "hourly", "observation", "demand", "radar",
         "storms", "closures", "shelters", "zones", "transit"}

Taken(time) ==
    /\ feed \in Polled
    /\ payload \in Answers(feed, time)
    /\ \E result : MadeOf(payload, time, result) /\ result.ok /\ answer = result.records

LastIsTaken ==
    /\ now \in 0 .. MaxTime
    /\ \/ payload = None /\ answer = <<>>
       \/ \E time \in 0 .. MaxTime : Taken(time)

LEMMA ReceivedIsTaken ==
    ASSUME LastIsTaken, feed \in Polled, NEW said \in Answers(feed, now),
           NEW result, MadeOf(said, now, result), Receive(said, result)
    PROVE  LastIsTaken'
<1>1. now' = now /\ feed' = feed /\ now \in 0 .. MaxTime
  BY DEF Receive, LastIsTaken
<1>2. CASE result.ok
  <2>1. payload' = said /\ answer' = result.records
    BY <1>2 DEF Receive
  <2>2. MadeOf(payload, now, result)'
    BY <1>1, <2>1 DEF MadeOf
  <2>3. Taken(now)'
    BY <1>1, <1>2, <2>1, <2>2 DEF Taken, Polled
  <2> QED
    BY <1>1, <2>3 DEF LastIsTaken
<1>3. CASE ~result.ok
  <2>1. UNCHANGED <<now, feed, payload, answer>>
    BY <1>1, <1>3 DEF Receive
  <2>2. ASSUME NEW time \in 0 .. MaxTime, Taken(time) PROVE Taken(time)'
    <3>1. ASSUME NEW made, MadeOf(payload, time, made)
          PROVE  MadeOf(payload, time, made)'
      <4>1. payload' = payload /\ feed' = feed
        BY <2>1
      <4> QED
        BY <3>1, <4>1 DEF MadeOf
    <3> QED
      BY <2>1, <2>2, <3>1 DEF Taken, Polled
  <2> QED
    BY <2>1, <2>2 DEF LastIsTaken
<1> QED
  BY <1>2, <1>3

-----------------------------------------------------------------------------
Clock == now \in Int

ShownIsLast == Clock /\ table = Current(Rows(answer), now)

LEMMA ReceivedIsShown ==
    ASSUME Clock, ShownIsLast, NEW said, NEW result, Receive(said, result)
    PROVE  ShownIsLast'
<1>1. now' = now
  BY DEF Receive
<1>2. CASE result.ok
  <2>1. table' = UpsertRecords(table, result.records, now) /\ answer' = result.records
    BY <1>2 DEF Receive
  <2>2. UpsertRecords(table, result.records, now) = Current(Rows(result.records), now)
    BY FiledAnew DEF Clock
  <2> QED
    BY <1>1, <2>1, <2>2 DEF ShownIsLast, Clock
<1>3. CASE ~result.ok
  BY <1>1, <1>3 DEF Receive, ShownIsLast, Clock
<1> QED
  BY <1>2, <1>3

(* Every action but the clock's receives what its adapter makes of an      *)
(* answer to the feed.                                                     *)
LEMMA NextReceives ==
    ASSUME Next, ~Tick
    PROVE  /\ feed \in Polled
           /\ \E said \in Answers(feed, now) : \E result :
                 MadeOf(said, now, result) /\ Receive(said, result)
<1> USE DEF Polled
<1>1. CASE PollPulsePoint
  BY <1>1, WebSourceAssumption
     DEF PollPulsePoint, MadeOf, CoopsProducts
<1>2. CASE PollAlerts
  BY <1>2, WebSourceAssumption
     DEF PollAlerts, MadeOf, CoopsProducts
<1>3. CASE PollForecast
  BY <1>3, WebSourceAssumption
     DEF PollForecast, MadeOf, CoopsProducts
<1>4. CASE PollObservation
  BY <1>4, WebSourceAssumption
     DEF PollObservation, MadeOf, CoopsProducts
<1>5. CASE PollCoops
  BY <1>5, WebSourceAssumption
     DEF PollCoops, MadeOf, CoopsProducts
<1>6. CASE PollEia
  BY <1>6, WebSourceAssumption
     DEF PollEia, MadeOf, CoopsProducts
<1>7. CASE PollRadar
  BY <1>7, WebSourceAssumption
     DEF PollRadar, MadeOf, CoopsProducts
<1>8. CASE PollStorms
  BY <1>8, WebSourceAssumption
     DEF PollStorms, MadeOf, CoopsProducts
<1>9. CASE PollFeatures
  BY <1>9, WebSourceAssumption
     DEF PollFeatures, MadeOf, CoopsProducts
<1>10. CASE PollZones
  BY <1>10, WebSourceAssumption
     DEF PollZones, MadeOf, CoopsProducts
<1>11. CASE PollTransit
  BY <1>11, WebSourceAssumption
     DEF PollTransit, MadeOf, CoopsProducts
<1>12. CASE PollNotices
  BY <1>12, WebSourceAssumption
     DEF PollNotices, MadeOf, CoopsProducts
<1> QED
  BY <1>1, <1>2, <1>3, <1>4, <1>5, <1>6, <1>7, <1>8, <1>9, <1>10, <1>11, <1>12
     DEF Next

LEMMA StepShown == ShownIsLast /\ [Next]_vars => ShownIsLast'
<1> SUFFICES ASSUME ShownIsLast, [Next]_vars PROVE ShownIsLast'
  OBVIOUS
<1>1. CASE Next /\ ~Tick
  BY <1>1, NextReceives, ReceivedIsShown DEF ShownIsLast
<1>2. CASE Tick
  BY <1>2, CurrentLater DEF Tick, Clock, ShownIsLast
<1>3. CASE UNCHANGED vars
  BY <1>3 DEF vars, Clock, ShownIsLast
<1> QED
  BY <1>1, <1>2, <1>3

LEMMA StepTaken == LastIsTaken /\ [Next]_vars => LastIsTaken'
<1> SUFFICES ASSUME LastIsTaken, [Next]_vars PROVE LastIsTaken'
  OBVIOUS
<1>1. CASE Next /\ ~Tick
  BY <1>1, NextReceives, ReceivedIsTaken
<1>2. CASE UNCHANGED <<feed, payload, answer>> /\ now' \in 0 .. MaxTime
  <2>1. ASSUME NEW time \in 0 .. MaxTime, Taken(time) PROVE Taken(time)'
    <3>1. ASSUME NEW result, MadeOf(payload, time, result)
          PROVE  MadeOf(payload, time, result)'
      <4>1. payload' = payload /\ feed' = feed
        BY <1>2
      <4> QED
        BY <3>1, <4>1 DEF MadeOf
    <3> QED
      BY <1>2, <2>1, <3>1 DEF Taken, Polled
  <2> QED
    BY <1>2, <2>1 DEF LastIsTaken
<1>3. CASE Tick
  BY <1>2, <1>3, MaxTimeAssumption DEF Tick, LastIsTaken
<1>4. CASE UNCHANGED vars
  BY <1>2, <1>4 DEF vars, LastIsTaken
<1> QED
  BY <1>1, <1>3, <1>4

(* The table holds the last accepted answer, and that answer is its        *)
(* publisher's (the invariant of every theorem below).                     *)
LEMMA TableIsTaken == Spec => [](ShownIsLast /\ LastIsTaken)
<1>1. Init => ShownIsLast /\ LastIsTaken
  <2> SUFFICES ASSUME Init PROVE ShownIsLast /\ LastIsTaken
    OBVIOUS
  <2>1. Ids(answer) = {}
    BY DEF Init, Ids
  <2>2. DOMAIN Rows(answer) = {}
    BY <2>1 DEF Rows
  <2>3. Current(Rows(answer), now) = [id \in {} |-> Rows(answer)[id]]
    BY <2>2 DEF Current, Restrict
  <2>4. table = [id \in {} |-> Rows(answer)[id]]
    BY DEF Init
  <2>5. ShownIsLast
    BY <2>3, <2>4 DEF Init, ShownIsLast, Clock
  <2> QED
    BY <2>5, MaxTimeAssumption DEF Init, LastIsTaken
<1> QED
  BY <1>1, StepShown, StepTaken, PTL DEF Spec

(* OnlyTheLastAnswer for every feed, publisher and bound: no row of an     *)
(* earlier answer stays, none of the last is lost before it expires        *)
(* (Repository.upsert_records with retire_missing, list_records).          *)
THEOREM LastAnswerIsShown == Spec => []OnlyTheLastAnswer
<1>1. ShownIsLast => OnlyTheLastAnswer
  BY DEF ShownIsLast, Rows, OnlyTheLastAnswer
<1> QED
  BY <1>1, TableIsTaken, PTL
-----------------------------------------------------------------------------
(***************************************************************************)
(* What the adapters make: lists of records, and which.                    *)
(***************************************************************************)

(* Lists laid behind one another in whatever order the set is listed. *)
LEMMA Gathered ==
    ASSUME NEW T, IsFiniteSet(T), \A s \in T : IsList(s)
    PROVE  /\ IsList(FlattenSeq(SetToSeq(T)))
           /\ ToSet(FlattenSeq(SetToSeq(T))) = UNION {ToSet(s) : s \in T}
<1> DEFINE S == UNION {ToSet(s) : s \in T}
           seqs == SetToSeq(T)
<1>1. \A s \in T : s \in Seq(S)
  <2> TAKE s \in T
  <2>1. ToSet(s) \subseteq S
    OBVIOUS
  <2> QED
    BY <2>1, ListInSeqOf
<1>2. IsList(seqs) /\ ToSet(seqs) = T
  BY SetListed
<1>3. seqs \in Seq(Seq(S))
  BY <1>1, <1>2, ListInSeqOf
<1>4. UNION {ToSet(seqs[i]) : i \in DOMAIN seqs} = S
  BY <1>2 DEF ToSet
<1> HIDE DEF S
<1>5. FlattenSeq(seqs) \in Seq(S)
      /\ ToSet(FlattenSeq(seqs)) = UNION {ToSet(seqs[i]) : i \in DOMAIN seqs}
  BY <1>3, Flattened
<1>6. IsList(FlattenSeq(seqs)) /\ ToSet(FlattenSeq(seqs)) = S
  BY <1>4, <1>5, ListInSeq
<1> QED
  BY <1>6 DEF S

LEMMA FiniteToSet ==
    ASSUME NEW items, IsList(items)
    PROVE  IsFiniteSet(ToSet(items))
<1>1. IsFiniteSet(DOMAIN items) /\ items = [i \in DOMAIN items |-> items[i]]
  BY ListParts
<1>2. ToSet(items) = {items[i] : i \in DOMAIN items}
  BY DEF ToSet
<1> QED
  BY <1>1, <1>2, FiniteImage

LEMMA EachIsMade ==
    ASSUME NEW records, NEW invalid, EachRecord(records, invalid).ok
    PROVE  EachRecord(records, invalid).records = records
BY DEF EachRecord, Accepted, Refused

(* Records of which each speaks of what it is filed under. *)
SelfNamed(records) == IsList(records) /\ \A r \in ToSet(records) : r.fact = r.id

LEMMA IncidentsMade ==
    ASSUME NEW said, IsList(said.active), IsList(said.recent), PulsePointRecords(said).ok
    PROVE  SelfNamed(PulsePointRecords(said).records)
<1> DEFINE a == [i \in DOMAIN said.active |-> IncidentRecord("active", said.active[i])]
           b == [i \in DOMAIN said.recent |-> IncidentRecord("recent", said.recent[i])]
<1>1. PulsePointRecords(said).records = a \o b
  BY EachIsMade DEF PulsePointRecords
<1>2. IsList(a) /\ ToSet(a) = {a[i] : i \in DOMAIN said.active}
  BY Mapped
<1>3. IsList(b) /\ ToSet(b) = {b[i] : i \in DOMAIN said.recent}
  BY Mapped
<1>4. \A status, raw : IncidentRecord(status, raw).fact = IncidentRecord(status, raw).id
  BY DEF IncidentRecord, Record
<1>5. \A r \in ToSet(a) \cup ToSet(b) : r.fact = r.id
  BY <1>2, <1>3, <1>4
<1> HIDE DEF a, b
<1> QED
  BY <1>1, <1>2, <1>3, <1>5, ListConcat DEF SelfNamed

LEMMA AlertsMade ==
    ASSUME NEW said, IsList(said), AlertRecords(said).ok
    PROVE  SelfNamed(AlertRecords(said).records)
<1> DEFINE filed(feature) == Record(AlertId(feature), AlertId(feature), "alert",
                                    Or(feature.effective, feature.sent), feature.expires)
           a == [i \in DOMAIN said |-> filed(said[i])]
<1>1. AlertRecords(said).records = a
  BY EachIsMade DEF AlertRecords
<1>2. IsList(a) /\ ToSet(a) = {a[i] : i \in DOMAIN said}
  BY Mapped
<1>3. \A i \in DOMAIN said : a[i].fact = a[i].id
  BY DEF Record
<1> QED
  BY <1>1, <1>2, <1>3 DEF SelfNamed

LEMMA FeaturesMade ==
    ASSUME NEW features, IsList(features), NEW scoped, ArcGisRecords(scoped, features).ok
    PROVE  LET records == ArcGisRecords(scoped, features).records
               places == {i \in DOMAIN features : InArea(scoped, features[i])}
           IN /\ SelfNamed(records)
              /\ ToSet(records) = {FeatureRecord(features[i]) : i \in places}
              /\ \A i \in DOMAIN features : ValidFeature(features[i])
<1> DEFINE places == {i \in DOMAIN features : InArea(scoped, features[i])}
           kept == Picked(features, places)
           records == [i \in DOMAIN kept |-> FeatureRecord(kept[i])]
<1>1. /\ ArcGisRecords(scoped, features).records = records
      /\ \A i \in DOMAIN features : ValidFeature(features[i])
  BY DEF ArcGisRecords, Accepted, Refused
<1>2. IsList(kept) /\ ToSet(kept) = {features[i] : i \in places}
  BY PickedItems
<1> HIDE DEF kept
<1>3. IsList(records) /\ ToSet(records) = {FeatureRecord(kept[i]) : i \in DOMAIN kept}
  BY <1>2, Mapped
<1>4. {FeatureRecord(kept[i]) : i \in DOMAIN kept} = {FeatureRecord(f) : f \in ToSet(kept)}
  BY DEF ToSet
<1>5. ToSet(records) = {FeatureRecord(features[i]) : i \in places}
  BY <1>2, <1>3, <1>4
<1>6. \A f : FeatureRecord(f).fact = FeatureRecord(f).id
  BY DEF FeatureRecord, Record
<1> HIDE DEF records, places
<1>7. SelfNamed(records)
  BY <1>3, <1>5, <1>6 DEF SelfNamed
<1> QED
  BY <1>1, <1>5, <1>7 DEF places
(* The features of a class, as DissolvedRecords hands them on. *)
Members(records, class) ==
    Picked(records, {i \in DOMAIN records : records[i].says.class = class})

LEMMA MembersOfClass ==
    ASSUME NEW records, IsList(records), NEW class
    PROVE  /\ IsList(Members(records, class))
           /\ ToSet(Members(records, class)) = {r \in ToSet(records) : r.says.class = class}
<1> DEFINE places == {i \in DOMAIN records : records[i].says.class = class}
<1>1. {records[i] : i \in places} = {r \in ToSet(records) : r.says.class = class}
  BY DEF ToSet
<1> QED
  BY <1>1, PickedItems DEF Members

LEMMA DissolvedIsList ==
    ASSUME NEW members, IsList(members), NEW class
    PROVE  IsList(Dissolved(class, members))
BY OneItem DEF Dissolved

LEMMA ZonesMade ==
    ASSUME NEW features, IsList(features), NEW scoped, DissolvedRecords(scoped, features).ok
    PROVE  LET plain == ArcGisRecords(scoped, features).records
               records == DissolvedRecords(scoped, features).records
               classes == {r.says.class : r \in ToSet(plain)}
           IN /\ ArcGisRecords(scoped, features).ok
              /\ IsList(records)
              /\ ToSet(records) =
                    UNION {ToSet(Dissolved(class, Members(plain, class))) : class \in classes}
<1> DEFINE plain == ArcGisRecords(scoped, features).records
           classes == {r.says.class : r \in ToSet(plain)}
           parts == {Dissolved(class, Members(plain, class)) : class \in classes}
<1>1. /\ ArcGisRecords(scoped, features).ok
      /\ DissolvedRecords(scoped, features).records = FlattenSeq(SetToSeq(parts))
  BY DEF DissolvedRecords, Members, Accepted, Refused
<1>2. IsList(plain)
  BY <1>1, FeaturesMade DEF SelfNamed
<1> HIDE DEF plain
<1>3. IsFiniteSet(classes)
  <2> DEFINE f == [r \in ToSet(plain) |-> r.says.class]
  <2>1. IsFiniteSet({f[r] : r \in ToSet(plain)})
    BY <1>2, FiniteToSet, FiniteImage
  <2>2. {f[r] : r \in ToSet(plain)} = classes
    OBVIOUS
  <2> QED
    BY <2>1, <2>2
<1> HIDE DEF classes
<1>4. IsFiniteSet(parts)
  <2> DEFINE f == [class \in classes |-> Dissolved(class, Members(plain, class))]
  <2>1. IsFiniteSet({f[class] : class \in classes})
    BY <1>3, FiniteImage
  <2>2. {f[class] : class \in classes} = parts
    OBVIOUS
  <2> QED
    BY <2>1, <2>2
<1>5. \A part \in parts : IsList(part)
  BY <1>2, MembersOfClass, DissolvedIsList
<1>6. UNION {ToSet(part) : part \in parts}
        = UNION {ToSet(Dissolved(class, Members(plain, class))) : class \in classes}
  OBVIOUS
<1> HIDE DEF parts
<1> QED
  BY <1>1, <1>4, <1>5, <1>6, Gathered DEF plain, classes

(* The dissolved feature of a class is named for it, and a class without   *)
(* polygons keeps the names of its features.                               *)
LEMMA ZonesSelfNamed ==
    ASSUME NEW features, IsList(features), NEW scoped, DissolvedRecords(scoped, features).ok
    PROVE  SelfNamed(DissolvedRecords(scoped, features).records)
<1> DEFINE plain == ArcGisRecords(scoped, features).records
<1>1. /\ ArcGisRecords(scoped, features).ok
      /\ IsList(DissolvedRecords(scoped, features).records)
      /\ \A r \in ToSet(DissolvedRecords(scoped, features).records) :
            \E class : r \in ToSet(Dissolved(class, Members(plain, class)))
  BY ZonesMade
<1>2. SelfNamed(plain)
  BY <1>1, FeaturesMade
<1> HIDE DEF plain
<1>3. ASSUME NEW class, NEW r \in ToSet(Dissolved(class, Members(plain, class)))
      PROVE  r.fact = r.id
  <2> DEFINE members == Members(plain, class)
             polygons == {m \in ToSet(members) : m.says.shape = "Polygon"}
  <2>1. CASE polygons = {}
    <3>1. r \in ToSet(members)
      BY <1>3, <2>1 DEF Dissolved
    <3>2. r \in ToSet(plain)
      BY <1>2, <3>1, MembersOfClass DEF SelfNamed
    <3> QED
      BY <1>2, <3>2 DEF SelfNamed
  <2>2. CASE polygons # {}
    <3>1. \E says, at, expires :
             Dissolved(class, members)
               = <<Record(<<"dissolved", class>>, <<"dissolved", class>>, says, at, expires)>>
      BY <2>2 DEF Dissolved
    <3>2. \E says, at, expires :
             r = Record(<<"dissolved", class>>, <<"dissolved", class>>, says, at, expires)
      BY <1>3, <3>1, OneItem
    <3> QED
      BY <3>2 DEF Record
  <2> QED
    BY <2>1, <2>2
<1> QED
  BY <1>1, <1>3 DEF SelfNamed
Center(storm) == StormRecord(storm, "center", storm.updated, storm.center)

Product(storm, kind) ==
    StormRecord(storm, kind, Or(storm.products[kind].issued, storm.updated),
                KmlGeometry(storm.products[kind].document))

Fetched(storms) == {w \in (DOMAIN storms) \X GisProducts : w[2] \in Wanted(storms[w[1]])}

LEMMA StormsMade ==
    ASSUME NEW storms, IsList(storms), StormRecords(storms).ok
    PROVE  LET records == StormRecords(storms).records
           IN /\ SelfNamed(records)
              /\ ToSet(records) = {Center(storms[i]) : i \in DOMAIN storms}
                                  \cup {Product(storms[w[1]], w[2]) : w \in Fetched(storms)}
              /\ \A w \in Fetched(storms) :
                    /\ storms[w[1]].products[w[2]].document # None
                    /\ KmlGeometry(storms[w[1]].products[w[2]].document) # None
<1> DEFINE centers == [i \in DOMAIN storms |-> Center(storms[i])]
           products == {Product(storms[w[1]], w[2]) : w \in Fetched(storms)}
<1>1. /\ StormRecords(storms).records = centers \o SetToSeq(products)
      /\ \A w \in Fetched(storms) :
            /\ storms[w[1]].products[w[2]].document # None
            /\ KmlGeometry(storms[w[1]].products[w[2]].document) # None
  BY DEF StormRecords, Fetched, Center, Product, Accepted, Refused
<1>2. IsList(centers) /\ ToSet(centers) = {Center(storms[i]) : i \in DOMAIN storms}
  <2>1. IsList(centers) /\ ToSet(centers) = {centers[i] : i \in DOMAIN storms}
    BY Mapped
  <2> QED
    BY <2>1
<1>3. IsFiniteSet(Fetched(storms))
  <2>1. IsFiniteSet(DOMAIN storms)
    BY ListParts
  <2>2. IsFiniteSet(GisProducts)
    <3>1. GisProducts = {"forecast_track"} \cup {"forecast_cone"} \cup {"watch_warning"}
                        \cup {"current_wind_radii"} \cup {"forecast_wind_radii"}
      BY DEF GisProducts
    <3> QED
      BY <3>1, FS_Singleton, FS_Union
  <2>3. IsFiniteSet((DOMAIN storms) \X GisProducts)
    BY <2>1, <2>2, FS_Product
  <2> QED
    BY <2>3, FS_Subset DEF Fetched
<1>4. IsFiniteSet(products)
  <2> DEFINE f == [w \in Fetched(storms) |-> Product(storms[w[1]], w[2])]
  <2>1. IsFiniteSet({f[w] : w \in Fetched(storms)})
    BY <1>3, FiniteImage
  <2>2. {f[w] : w \in Fetched(storms)} = products
    OBVIOUS
  <2> QED
    BY <2>1, <2>2
<1>5. IsList(SetToSeq(products)) /\ ToSet(SetToSeq(products)) = products
  BY <1>4, SetListed
<1>6. \A storm, kind : Center(storm).fact = Center(storm).id
                       /\ Product(storm, kind).fact = Product(storm, kind).id
  BY DEF Center, Product, StormRecord, Record
<1>7. \A r \in ToSet(centers) \cup products : r.fact = r.id
  BY <1>2, <1>6
<1> HIDE DEF centers, products
<1>8. /\ IsList(centers \o SetToSeq(products))
      /\ ToSet(centers \o SetToSeq(products)) = ToSet(centers) \cup products
  BY <1>2, <1>5, ListConcat
<1> QED
  BY <1>1, <1>2, <1>7, <1>8 DEF SelfNamed, products

StopRecord(s) == Record(<<"stop", s.id>>, <<"stop", s.id>>, s.cell, None, None)

RoutesOf(archive) == {trip.route : trip \in RelevantTrips(archive)} \ {None}

ShapesOf(archive, route) ==
    {trip.shape : trip \in {t \in RelevantTrips(archive) : t.route = route}} \ {None}

LineOf(archive, shape) ==
    {[order |-> p.order, cell |-> p.cell] : p \in {q \in archive.points : q.shape = shape}}

DrawnFor(archive, route) ==
    IF ShapesOf(archive, route) = {} THEN {} ELSE LineOf(archive, Min(ShapesOf(archive, route)))

RouteRecord(archive, route) ==
    Record(<<"route", route>>, <<"route", route>>, DrawnFor(archive, route), None, None)

LEMMA TransitMade ==
    ASSUME NEW archive, IsFiniteSet(archive.stops), IsList(archive.trips),
           GtfsRecords(archive).ok
    PROVE  LET records == GtfsRecords(archive).records
           IN /\ SelfNamed(records)
              /\ ToSet(records) = {StopRecord(s) : s \in RelevantStops(archive)}
                                  \cup {RouteRecord(archive, r) : r \in RoutesOf(archive)}
<1> DEFINE stops == {StopRecord(s) : s \in RelevantStops(archive)}
           routes == {RouteRecord(archive, r) : r \in RoutesOf(archive)}
<1>1. GtfsRecords(archive).records = SetToSeq(stops) \o SetToSeq(routes)
  BY DEF GtfsRecords, StopRecord, RouteRecord, DrawnFor, LineOf, ShapesOf, RoutesOf,
         Accepted, Refused
<1>2. IsFiniteSet(stops)
  <2> DEFINE f == [s \in RelevantStops(archive) |-> StopRecord(s)]
  <2>1. IsFiniteSet(RelevantStops(archive))
    BY FS_Subset DEF RelevantStops
  <2>2. IsFiniteSet({f[s] : s \in RelevantStops(archive)})
    BY <2>1, FiniteImage
  <2>3. {f[s] : s \in RelevantStops(archive)} = stops
    OBVIOUS
  <2> QED
    BY <2>2, <2>3
<1>3. IsFiniteSet(routes)
  <2> DEFINE f == [trip \in ToSet(archive.trips) |-> RouteRecord(archive, trip.route)]
             all == {f[trip] : trip \in ToSet(archive.trips)}
  <2>1. IsFiniteSet(all)
    BY FiniteToSet, FiniteImage
  <2>2. RelevantTrips(archive) \subseteq ToSet(archive.trips)
    <3>1. ASSUME NEW id \in DOMAIN TripsById(archive.trips)
          PROVE  TripsById(archive.trips)[id] \in ToSet(archive.trips)
      <4> DEFINE trips == archive.trips
                 I == {i \in 1 .. Len(trips) : trips[i].id = id}
      <4>1. Len(trips) \in Nat /\ DOMAIN trips = 1 .. Len(trips)
        BY ListParts
      <4>2. I # {}
        BY <4>1 DEF TripsById
      <4>3. Max(I) \in I
        BY <4>1, <4>2, MaxIsGreatest
      <4>4. TripsById(trips)[id] = trips[Max(I)]
        BY <4>2 DEF TripsById, SelectLastInSeq
      <4> QED
        BY <4>1, <4>3, <4>4 DEF ToSet
    <3> QED
      BY <3>1 DEF RelevantTrips
  <2>3. routes \subseteq all
    BY <2>2 DEF RoutesOf
  <2> QED
    BY <2>1, <2>3, FS_Subset
<1>4. \A r \in stops \cup routes : r.fact = r.id
  BY DEF StopRecord, RouteRecord, Record
<1> HIDE DEF stops, routes
<1>5. /\ IsList(SetToSeq(stops)) /\ ToSet(SetToSeq(stops)) = stops
      /\ IsList(SetToSeq(routes)) /\ ToSet(SetToSeq(routes)) = routes
  BY <1>2, <1>3, SetListed
<1>6. /\ IsList(SetToSeq(stops) \o SetToSeq(routes))
      /\ ToSet(SetToSeq(stops) \o SetToSeq(routes)) = stops \cup routes
  BY <1>5, ListConcat
<1> QED
  BY <1>1, <1>4, <1>6 DEF SelfNamed, stops, routes

(* What is filed of a page is its texts, or of a page with a section of    *)
(* active notices the text of that section.                                *)
LEMMA NoticesMade ==
    ASSUME NEW texts, IsFiniteSet(texts), NEW terms
    PROVE  LET records == NoticeRecords(texts, terms).records
           IN /\ SelfNamed(records)
              /\ \A r \in ToSet(records) : r.id \in texts /\ r.expires = None
<1> DEFINE relevant == {text \in texts :
                           text # <<>> /\ (terms = {} \/ ToSet(text) \cap terms # {})}
           f == [text \in relevant |-> Record(text, text, "notice", None, None)]
           notices == {f[text] : text \in relevant}
<1>1. IsFiniteSet(relevant)
  BY FS_Subset
<1>2. IsFiniteSet(notices)
  <2> HIDE DEF relevant
  <2> QED
    BY <1>1, FiniteImage
<1>3. notices = {Record(text, text, "notice", None, None) : text \in relevant}
  OBVIOUS
<1>4. NoticeRecords(texts, terms).records = SetToSeq(notices)
  BY <1>3 DEF NoticeRecords, Accepted
<1>5. \A r \in notices : r.fact = r.id /\ r.id \in texts /\ r.expires = None
  BY <1>3 DEF Record
<1> HIDE DEF notices
<1> QED
  BY <1>2, <1>4, <1>5, SetListed DEF SelfNamed

LEMMA PageMade ==
    ASSUME NEW source, NEW page, NEW nodes, IsFiniteSet(nodes),
           WebRecords(source, page, nodes).ok
    PROVE  SelfNamed(WebRecords(source, page, nodes).records)
<1>1. CASE ~source.emitRecords
  BY <1>1, NoItems DEF WebRecords, Accepted, Refused, SelfNamed
<1>2. CASE source.emitRecords /\ source.activeSection = None
  <2> DEFINE f == [node \in nodes |-> Words(node)]
             texts == {f[node] : node \in nodes}
  <2>1. IsFiniteSet(texts)
    BY FiniteImage
  <2>2. texts = {Words(node) : node \in nodes}
    OBVIOUS
  <2>3. WebRecords(source, page, nodes).records = NoticeRecords(texts, source.terms).records
    BY <1>2, <2>2 DEF WebRecords, Refused
  <2> HIDE DEF texts
  <2> QED
    BY <2>1, <2>3, NoticesMade
<1>3. CASE source.emitRecords /\ source.activeSection # None
  <2> DEFINE text == SectionText(page, source.activeSection[1], source.activeSection[2])
  <2>1. WebRecords(source, page, nodes).records = NoticeRecords({text}, source.terms).records
    BY <1>3 DEF WebRecords, Refused
  <2> HIDE DEF text
  <2> QED
    BY <2>1, FS_Singleton, NoticesMade
<1> QED
  BY <1>1, <1>2, <1>3
-----------------------------------------------------------------------------
(* One row for one fact *)

(* No two records of an answer speak of one thing under two identities.    *)
Apart(records) ==
    /\ IsList(records)
    /\ \A r, q \in ToSet(records) : r.fact = q.fact => r.id = q.id

LEMMA SelfNamedApart ==
    ASSUME NEW records, SelfNamed(records)
    PROVE  Apart(records)
BY DEF SelfNamed, Apart

LEMMA OneApart ==
    ASSUME NEW record
    PROVE  Apart(<<record>>)
<1>1. IsList(<<record>>) /\ ToSet(<<record>>) = {record}
  BY OneItem
<1> QED
  BY <1>1 DEF Apart

LEMMA HoursApart ==
    ASSUME HoursNumberedOnce, NEW time \in 0 .. MaxTime, NEW said \in Answers("hourly", time),
           FetchForecast(said).ok
    PROVE  Apart(FetchForecast(said).records)
<1> DEFINE periods == said.forecast
           filed(period) == Record(<<period.number, period.start>>, period.start, "forecast",
                                   period.start, period.end)
           a == [i \in DOMAIN periods |-> filed(periods[i])]
<1>1. periods # None /\ FetchForecast(said) = ForecastRecords(periods)
  BY DEF FetchForecast, Refused
<1>2. IsList(periods)
  BY <1>1, AnswersAssumption
<1>3. FetchForecast(said).records = a
  BY <1>1, EachIsMade DEF ForecastRecords
<1>4. IsList(a) /\ ToSet(a) = {a[i] : i \in DOMAIN periods}
  <2>1. a = [i \in DOMAIN periods |-> a[i]]
    OBVIOUS
  <2> HIDE DEF a, periods
  <2> QED
    BY <1>2, <2>1, Mapped
<1>5. \A i \in DOMAIN periods : /\ a[i].fact = periods[i].start
                                /\ a[i].id = <<periods[i].number, periods[i].start>>
  BY DEF Record
<1>6. \A i, j \in DOMAIN periods :
         periods[i].start = periods[j].start => periods[i].number = periods[j].number
  BY <1>1 DEF HoursNumberedOnce
<1> HIDE DEF a
<1> QED
  BY <1>3, <1>4, <1>5, <1>6 DEF Apart

LEMMA MeasuredApart ==
    ASSUME TimesMeasuredOnce, NEW product \in CoopsProducts, NEW time \in 0 .. MaxTime,
           NEW said \in Answers(product, time), CoopsRecords(product, said).ok
    PROVE  Apart(CoopsRecords(product, said).records)
<1> DEFINE rows == said.rows
           a == [i \in DOMAIN rows |->
                    Record(<<rows[i].t, Or(rows[i].type, i - 1)>>, rows[i].t,
                           IF product \in Predicted THEN "predicted" ELSE "observed",
                           rows[i].t, CoopsExpiry(product, rows[i].t))]
<1>1. IsList(rows)
  BY AnswersAssumption
<1>2. CoopsRecords(product, said).records = a
  BY DEF CoopsRecords, Accepted, Refused
<1>3. IsList(a) /\ ToSet(a) = {a[i] : i \in DOMAIN rows}
  <2>1. a = [i \in DOMAIN rows |-> a[i]]
    OBVIOUS
  <2> HIDE DEF a, rows
  <2> QED
    BY <1>1, <2>1, Mapped
<1>4. \A i \in DOMAIN rows : a[i].fact = rows[i].t
  BY DEF Record
<1>5. \A i, j \in DOMAIN rows : rows[i].t = rows[j].t => i = j
  BY DEF TimesMeasuredOnce
<1> HIDE DEF a
<1> QED
  BY <1>2, <1>3, <1>4, <1>5 DEF Apart

LEMMA TakenApart ==
    ASSUME HoursNumberedOnce, TimesMeasuredOnce, NEW time \in 0 .. MaxTime, Taken(time)
    PROVE  Apart(answer)
<1>1. PICK result : MadeOf(payload, time, result) /\ result.ok /\ answer = result.records
  BY DEF Taken
<1>2. payload \in Answers(feed, time) /\ feed \in Polled
  BY DEF Taken
<1>3. CASE feed = "pulsepoint"
  BY <1>1, <1>2, <1>3, AnswersAssumption, IncidentsMade, SelfNamedApart DEF MadeOf
<1>4. CASE feed = "alerts"
  BY <1>1, <1>2, <1>4, AnswersAssumption, AlertsMade, SelfNamedApart DEF MadeOf
<1>5. CASE feed = "hourly"
  BY <1>1, <1>2, <1>5, HoursApart DEF MadeOf
<1>6. CASE feed = "observation"
  BY <1>1, <1>6, OneApart
     DEF MadeOf, FetchObservation, ObservationRecords, Accepted, Refused
<1>7. CASE feed \in CoopsProducts
  BY <1>1, <1>2, <1>7, MeasuredApart DEF MadeOf
<1>8. CASE feed = "demand"
  BY <1>1, <1>8, OneApart DEF MadeOf, EiaRecords, Accepted, Refused
<1>9. CASE feed = "radar"
  BY <1>1, <1>9, OneApart DEF MadeOf, RadarRecords, Accepted, Refused
<1>10. CASE feed = "storms"
  BY <1>1, <1>2, <1>10, AnswersAssumption, StormsMade, SelfNamedApart DEF MadeOf
<1>11. CASE feed = "closures"
  BY <1>1, <1>2, <1>11, AnswersAssumption, FeaturesMade, SelfNamedApart DEF MadeOf
<1>12. CASE feed = "shelters"
  BY <1>1, <1>2, <1>12, AnswersAssumption, FeaturesMade, SelfNamedApart DEF MadeOf
<1>13. CASE feed = "zones"
  BY <1>1, <1>2, <1>13, AnswersAssumption, ZonesSelfNamed, SelfNamedApart DEF MadeOf
<1>14. CASE feed = "transit"
  BY <1>1, <1>2, <1>14, AnswersAssumption, TransitMade, SelfNamedApart DEF MadeOf
<1>15. CASE feed \in DOMAIN WebSource
  BY <1>1, <1>2, <1>15, AnswersAssumption, PageMade, SelfNamedApart DEF MadeOf
<1> QED
  BY <1>2, <1>3, <1>4, <1>5, <1>6, <1>7, <1>8, <1>9, <1>10, <1>11, <1>12, <1>13, <1>14, <1>15
     DEF Polled

(* OneRowPerFact for every feed and bound: however the identities of an    *)
(* answer's items change from poll to poll, what a reader is given speaks  *)
(* of an hour, a measurement, a storm's product, a zone or a notice once   *)
(* (the adapters' source_record_id under upsert_records).                  *)
THEOREM NothingIsToldTwice ==
    ASSUME HoursNumberedOnce, TimesMeasuredOnce
    PROVE  Spec => []OneRowPerFact
<1>1. LastIsTaken => Apart(answer)
  <2>1. Apart(<<>>)
    BY NoItems DEF Apart
  <2> QED
    BY <2>1, TakenApart DEF LastIsTaken
<1>2. ShownIsLast /\ Apart(answer) => OneRowPerFact
  <2> SUFFICES ASSUME ShownIsLast, Apart(answer), NEW a \in DOMAIN table, NEW b \in DOMAIN table,
                      table[a].fact = table[b].fact
               PROVE  a = b
    BY DEF OneRowPerFact
  <2>1. /\ table[a] \in ToSet(answer) /\ table[a].id = a
        /\ table[b] \in ToSet(answer) /\ table[b].id = b
    BY RowsAreRecords DEF ShownIsLast, Apart
  <2> QED
    BY <2>1 DEF Apart
<1> QED
  BY <1>1, <1>2, TableIsTaken, PTL
-----------------------------------------------------------------------------
(* The section of a page *)

IsHeading(piece, word) == piece.kind = "heading" /\ piece.word = word

FirstHeading(page, word) ==
    SelectInSeq(page, LAMBDA piece : piece.kind = "heading" /\ piece.word = word)

LEMMA FirstHeadingIsFirst ==
    ASSUME NEW page, IsList(page), NEW word
    PROVE  /\ FirstHeading(page, word) \in 0 .. Len(page)
           /\ FirstHeading(page, word) # 0 => IsHeading(page[FirstHeading(page, word)], word)
           /\ \A i \in 1 .. Len(page) :
                 (FirstHeading(page, word) = 0 \/ i < FirstHeading(page, word)) =>
                     ~IsHeading(page[i], word)
<1> DEFINE I == {i \in 1 .. Len(page) : page[i].kind = "heading" /\ page[i].word = word}
           first == FirstHeading(page, word)
<1>1. Len(page) \in Nat
  BY ListParts
<1>2. first = IF I # {} THEN Min(I) ELSE 0
  BY DEF FirstHeading, SelectInSeq
<1>3. CASE I = {}
  BY <1>1, <1>2, <1>3 DEF IsHeading
<1>4. CASE I # {}
  <2>1. I \subseteq Nat
    OBVIOUS
  <2>2. Min(I) \in I /\ \A i \in I : Min(I) <= i
    <3> HIDE DEF I
    <3> QED
      BY <1>4, <2>1, MinIsLeast
  <2>3. first = Min(I)
    BY <1>2, <1>4
  <2>4. first \in 1 .. Len(page) /\ IsHeading(page[first], word)
    BY <2>2, <2>3 DEF IsHeading
  <2>5. ASSUME NEW i \in 1 .. Len(page), i < first, IsHeading(page[i], word)
        PROVE  FALSE
    <3>1. i \in I
      BY <2>5 DEF IsHeading
    <3>2. first <= i
      BY <2>2, <2>3, <3>1
    <3> QED
      BY <2>4, <2>5, <3>2
  <2> HIDE DEF first
  <2> QED
    BY <1>1, <2>4, <2>5 DEF first
<1> QED
  BY <1>3, <1>4

(* The words of a section are those of its pieces that are no script.     *)
LEMMA WordsAreVisible ==
    ASSUME NEW pieces, IsList(pieces), NEW word \in ToSet(SectionWords(pieces))
    PROVE  \E i \in DOMAIN pieces : pieces[i].kind # "script" /\ pieces[i].word = word
<1> DEFINE places == {i \in DOMAIN pieces : pieces[i].kind # "script"}
           visible == Picked(pieces, places)
<1>1. ToSet(visible) = {pieces[i] : i \in places}
  BY PickedItems
<1> HIDE DEF visible
<1>2. SectionWords(pieces) = [i \in DOMAIN visible |-> visible[i].word]
  <2>1. places = {i \in DOMAIN pieces : pieces[i].kind \notin {"script"}}
    OBVIOUS
  <2> HIDE DEF places
  <2> QED
    BY <2>1 DEF SectionWords, WordsBut, visible
<1>3. PICK i \in DOMAIN visible : word = visible[i].word
  BY <1>2 DEF ToSet
<1>4. visible[i] \in {pieces[k] : k \in places}
  BY <1>1, <1>3 DEF ToSet
<1> QED
  BY <1>3, <1>4

(* Of a word in the section the page has a visible piece below the heading *)
(* that opens it, with none in between that closes it.                     *)
LEMMA SectionIsActive ==
    ASSUME NEW page, IsList(page), NEW opens, NEW closes,
           SectionText(page, opens, closes) # None,
           NEW word \in ToSet(SectionText(page, opens, closes))
    PROVE  \E k \in DOMAIN page :
              /\ page[k].word = word /\ page[k].kind # "script"
              /\ \E i \in 1 .. k - 1 :
                    /\ IsHeading(page[i], opens)
                    /\ \A j \in i + 1 .. k : ~IsHeading(page[j], closes)
<1> DEFINE start == FirstHeading(page, opens)
           rest == SubSeq(page, start + 1, Len(page))
           stop == FirstHeading(rest, closes)
           section == IF stop = 0 THEN rest ELSE SubSeq(rest, 1, stop - 1)
<1>0. Len(page) \in Nat /\ DOMAIN page = 1 .. Len(page) /\ page \in Seq(ToSet(page))
  BY ListParts DEF IsList
<1>1. start # 0 /\ SectionText(page, opens, closes) = SectionWords(section)
  BY DEF SectionText, FirstHeading
<1>2. start \in 1 .. Len(page) /\ IsHeading(page[start], opens)
  BY <1>0, <1>1, FirstHeadingIsFirst
<1> HIDE DEF start
<1>3. /\ rest \in Seq(ToSet(page)) /\ Len(rest) = Len(page) - start
      /\ \A i \in 1 .. Len(page) - start : rest[i] = page[start + i]
  <2> DEFINE m == start + 1
             n == Len(page)
  <2>1. m \in Int /\ n \in Int /\ \A i \in m .. n : page[i] \in ToSet(page)
    BY <1>0, <1>2
  <2>2. /\ SubSeq(page, m, n) \in Seq(ToSet(page))
        /\ Len(SubSeq(page, m, n)) = IF m <= n THEN n - m + 1 ELSE 0
        /\ \A i \in 1 .. n - m + 1 : SubSeq(page, m, n)[i] = page[m + i - 1]
    <3> HIDE DEF m, n
    <3> QED
      BY <2>1, SubSeqProperties
  <2>3. n - m + 1 = Len(page) - start /\ Len(SubSeq(page, m, n)) = Len(page) - start
    <3>0. start \in Nat /\ Len(page) \in Nat /\ start <= Len(page)
      BY <1>0, <1>2
    <3>1. n - m + 1 = Len(page) - start /\ (~(m <= n) => Len(page) - start = 0)
      BY ONLY <3>0
    <3> HIDE DEF m, n
    <3> QED
      BY <2>2, <3>1
  <2>4. ASSUME NEW i \in 1 .. Len(page) - start PROVE rest[i] = page[start + i]
    <3>1. m + i - 1 = start + i
      BY <1>2
    <3> QED
      BY <2>2, <2>3, <3>1
  <2> QED
    BY <2>2, <2>3, <2>4
<1> HIDE DEF rest
<1>4. IsList(rest) /\ DOMAIN rest = 1 .. Len(rest) /\ Len(rest) \in Nat
  BY <1>3, ListInSeq, ListParts
<1>5. /\ stop \in 0 .. Len(rest)
      /\ \A i \in 1 .. Len(rest) : (stop = 0 \/ i < stop) => ~IsHeading(rest[i], closes)
  BY <1>4, FirstHeadingIsFirst
<1> HIDE DEF stop
<1>6. /\ section \in Seq(ToSet(page))
      /\ \A i \in DOMAIN section :
            i \in 1 .. Len(rest) /\ (stop = 0 \/ i < stop) /\ section[i] = rest[i]
  <2>1. CASE stop = 0
    BY <1>3, <1>4, <2>1
  <2>2. CASE stop # 0
    <3>1. /\ SubSeq(rest, 1, stop - 1) \in Seq(ToSet(page))
          /\ DOMAIN SubSeq(rest, 1, stop - 1) = 1 .. stop - 1
          /\ \A i \in 1 .. stop - 1 : SubSeq(rest, 1, stop - 1)[i] = rest[i]
      BY <1>3, <1>4, <1>5, <2>2
    <3> QED
      BY <1>4, <1>5, <2>2, <3>1
  <2> QED
    BY <2>1, <2>2
<1> HIDE DEF section
<1>7. PICK i \in DOMAIN section : section[i].kind # "script" /\ section[i].word = word
  BY <1>1, <1>6, ListInSeq, WordsAreVisible
<1> DEFINE k == start + i
<1>8. i \in 1 .. Len(rest) /\ k \in DOMAIN page /\ page[k] = section[i] /\ start \in 1 .. k - 1
  BY <1>0, <1>2, <1>3, <1>4, <1>6, <1>7
<1>9. ASSUME NEW j \in start + 1 .. k PROVE ~IsHeading(page[j], closes)
  <2>1. j - start \in 1 .. Len(rest) /\ (stop = 0 \/ j - start < stop)
        /\ page[j] = rest[j - start]
    BY <1>0, <1>2, <1>3, <1>4, <1>5, <1>6, <1>7, <1>8
  <2> QED
    BY <1>5, <2>1
<1> QED
  BY <1>2, <1>7, <1>8, <1>9

(* OnlyActiveSection for every page, selection and order of answers: no    *)
(* word from outside the section of active notices is ever on display      *)
(* (web.py, _section_text).                                                *)
THEOREM NoticesAreActive == Spec => []OnlyActiveSection
<1>1. ShownIsLast /\ LastIsTaken => OnlyActiveSection
  <2> SUFFICES ASSUME ShownIsLast, LastIsTaken, feed \in DOMAIN WebSource, payload # None,
                      WebSource[feed].activeSection # None,
                      NEW text \in DOMAIN table, NEW word \in ToSet(text)
               PROVE  LET section == WebSource[feed].activeSection
                          page == payload.page
                      IN \E k \in DOMAIN page :
                            /\ page[k].word = word /\ page[k].kind # "script"
                            /\ \E i \in 1 .. k - 1 :
                                  /\ IsHeading(page[i], section[1])
                                  /\ \A j \in i + 1 .. k : ~IsHeading(page[j], section[2])
    BY DEF OnlyActiveSection, IsHeading
  <2>1. PICK time \in 0 .. MaxTime : Taken(time)
    BY DEF LastIsTaken
  <2> DEFINE source == WebSource[feed]
             section == SectionText(payload.page, source.activeSection[1],
                                    source.activeSection[2])
  <2>2. /\ IsList(payload.page) /\ IsFiniteSet(payload.nodes)
        /\ WebRecords(source, payload.page, payload.nodes).ok
        /\ answer = WebRecords(source, payload.page, payload.nodes).records
    BY <2>1, AnswersAssumption DEF Taken, MadeOf
  <2>3. IsList(answer)
    BY <2>2, PageMade DEF SelfNamed
  <2>4. table[text] \in ToSet(answer) /\ table[text].id = text
    BY <2>3, RowsAreRecords DEF ShownIsLast
  <2>5. source.emitRecords
    BY <2>2, <2>4, NoItems DEF WebRecords, Accepted, Refused
  <2>6. section # None /\ answer = NoticeRecords({section}, source.terms).records
    BY <2>2, <2>5 DEF WebRecords, Refused
  <2> HIDE DEF section
  <2>7. \A r \in ToSet(NoticeRecords({section}, source.terms).records) : r.id \in {section}
    BY FS_Singleton, NoticesMade
  <2>8. text = section
    BY <2>4, <2>6, <2>7
  <2> QED
    BY <2>2, <2>6, <2>8, SectionIsActive DEF section
<1> QED
  BY <1>1, TableIsTaken, PTL
-----------------------------------------------------------------------------
(* The area of the zones *)

Polygons(features, class) ==
    {f \in ToSet(features) : f.class = class /\ f.shape = "Polygon"}

Area(features, class) == UNION {f.cells : f \in Polygons(features, class)}

(* The record of a class with its polygons made one. *)
IsWhole(r, features, class) ==
    /\ Polygons(features, class) # {}
    /\ r.id = <<"dissolved", class>> /\ r.expires = None
    /\ r.says.class = class /\ r.says.shape = "Polygon"
    /\ r.says.cells = Area(features, class)

(* Of a class with polygons one record is made that covers them all, and   *)
(* of a class without, records none of which is a polygon.                 *)
LEMMA ClassMade ==
    ASSUME NEW features, IsList(features), NEW class,
           ArcGisRecords(TRUE, features).ok,
           \A i \in DOMAIN features :
              features[i].expires = None /\ {"shape", "class", "cells"} \subseteq DOMAIN features[i],
           NEW plain, plain = ArcGisRecords(TRUE, features).records
    PROVE  LET made == Dissolved(class, Members(plain, class))
           IN \/ \E r : ToSet(made) = {r} /\ IsWhole(r, features, class)
              \/ /\ Polygons(features, class) = {}
                 /\ \A r \in ToSet(made) : \E i \in DOMAIN features :
                       r = FeatureRecord(features[i]) /\ features[i].shape # "Polygon"
<1> DEFINE members == Members(plain, class)
           polygons == {m \in ToSet(members) : m.says.shape = "Polygon"}
<1>1. /\ IsList(plain)
      /\ \A r \in ToSet(plain) : \E i \in DOMAIN features :
            InArea(TRUE, features[i]) /\ r = FeatureRecord(features[i])
      /\ \A i \in DOMAIN features :
            InArea(TRUE, features[i]) => FeatureRecord(features[i]) \in ToSet(plain)
  <2> DEFINE places == {i \in DOMAIN features : InArea(TRUE, features[i])}
  <2>1. IsList(plain) /\ ToSet(plain) = {FeatureRecord(features[i]) : i \in places}
    BY FeaturesMade DEF SelfNamed
  <2> QED
    BY <2>1
<1>2. IsList(members) /\ ToSet(members) = {r \in ToSet(plain) : r.says.class = class}
  <2>1. IsList(plain)
    BY <1>1
  <2> QED
    BY ONLY <2>1, MembersOfClass, Zenon
<1> HIDE DEF members
<1>3. \A f : FeatureRecord(f).says = f /\ FeatureRecord(f).expires = f.expires
  BY DEF FeatureRecord, Record
<1>4. \A m \in ToSet(members) : \E i \in DOMAIN features :
         m = FeatureRecord(features[i]) /\ m.says = features[i] /\ features[i].class = class
  <2> TAKE m \in ToSet(members)
  <2>1. m \in ToSet(plain) /\ m.says.class = class
    BY <1>2
  <2>2. PICK i \in DOMAIN features : m = FeatureRecord(features[i])
    BY <1>1, <2>1
  <2> QED
    BY <1>3, <2>1, <2>2
<1>5. {m.says : m \in polygons} = Polygons(features, class)
  <2>1. ASSUME NEW m \in polygons PROVE m.says \in Polygons(features, class)
    BY <1>4, <2>1 DEF Polygons, ToSet
  <2>2. ASSUME NEW f \in Polygons(features, class) PROVE \E m \in polygons : f = m.says
    <3>1. PICK i \in DOMAIN features : f = features[i]
      BY DEF Polygons, ToSet
    <3>2. InArea(TRUE, f)
      BY DEF Polygons, InArea
    <3>3. FeatureRecord(f) \in ToSet(plain) /\ FeatureRecord(f).says = f
      BY <1>1, <1>3, <3>1, <3>2
    <3>4. f.class = class /\ f.shape = "Polygon"
      BY DEF Polygons
    <3>5. FeatureRecord(f) \in polygons
      BY <1>2, <3>3, <3>4
    <3> QED
      BY <3>3, <3>5
  <2> QED
    BY <2>1, <2>2
<1>6. CASE polygons = {}
  <2>1. Dissolved(class, members) = members
    BY <1>6 DEF Dissolved
  <2>2. Polygons(features, class) = {}
    BY <1>5, <1>6
  <2>3. ASSUME NEW r \in ToSet(members)
        PROVE  \E i \in DOMAIN features :
                  r = FeatureRecord(features[i]) /\ features[i].shape # "Polygon"
    BY <1>4, <1>6, <2>3
  <2> QED
    BY <2>1, <2>2, <2>3 DEF members
<1>7. CASE polygons # {}
  <2>1. members[1] \in ToSet(members)
    <3>1. PICK m : m \in ToSet(members)
      BY <1>7
    <3>2. 1 \in DOMAIN members
      <4>1. Len(members) \in Nat /\ DOMAIN members = 1 .. Len(members)
        BY <1>2, ListParts
      <4>2. DOMAIN members # {}
        BY <3>1 DEF ToSet
      <4> QED
        BY <4>1, <4>2
    <3> QED
      BY <3>2 DEF ToSet
  <2>2. PICK i \in DOMAIN features :
           members[1] = FeatureRecord(features[i]) /\ features[i].class = class
    BY <1>4, <2>1
  <2> DEFINE f == features[i]
             area == UNION {m.says.cells : m \in polygons}
             whole == [f EXCEPT !.shape = "Polygon", !.cells = area]
             r == Record(<<"dissolved", class>>, <<"dissolved", class>>, whole,
                         members[1].at, members[1].expires)
  <2>3. area = Area(features, class)
    <3>1. area = UNION {g.cells : g \in {m.says : m \in polygons}}
      OBVIOUS
    <3> QED
      BY <1>5, <3>1 DEF Area
  <2>4. whole.class = class /\ whole.shape = "Polygon" /\ whole.cells = area
    <3> HIDE DEF area
    <3>1. {"shape", "class", "cells"} \subseteq DOMAIN f /\ f.class = class
      BY <2>2
    <3> QED
      BY <3>1
  <2>5. Dissolved(class, members) = <<r>>
    <3>1. members[1].says = f
      BY <1>3, <2>2
    <3> QED
      BY <1>7, <3>1 DEF Dissolved
  <2>6. ToSet(<<r>>) = {r}
    BY OneItem
  <2>7. r.expires = None
    BY <1>3, <2>2 DEF Record
  <2>8. Polygons(features, class) # {}
    BY <1>5, <1>7
  <2> HIDE DEF whole
  <2>9. IsWhole(r, features, class)
    BY <2>3, <2>4, <2>7, <2>8 DEF IsWhole, Record
  <2> HIDE DEF r
  <2> QED
    BY <2>5, <2>6, <2>9 DEF members
<1> QED
  BY <1>6, <1>7
(* The records of an answer are the dissolved classes, one for each that   *)
(* has a polygon, and features that are no polygon.                        *)
LEMMA ZonesMadeWhole ==
    ASSUME ZonesStand,
           NEW time \in 0 .. MaxTime, NEW features \in Answers("zones", time),
           DissolvedRecords(TRUE, features).ok,
           NEW records, records = DissolvedRecords(TRUE, features).records
    PROVE  /\ \A r \in ToSet(records) :
                 \/ \E class : IsWhole(r, features, class)
                 \/ \E i \in DOMAIN features :
                       r = FeatureRecord(features[i]) /\ features[i].shape # "Polygon"
           /\ \A class : Polygons(features, class) # {} =>
                 \E r \in ToSet(records) : IsWhole(r, features, class)
<1> DEFINE plain == ArcGisRecords(TRUE, features).records
           made(class) == Dissolved(class, Members(plain, class))
           classes == {r.says.class : r \in ToSet(plain)}
<1>1. /\ IsList(features)
      /\ \A i \in DOMAIN features :
            features[i].expires = None /\ {"shape", "class", "cells"} \subseteq DOMAIN features[i]
  BY AnswersAssumption DEF ZonesStand
<1>2. /\ ArcGisRecords(TRUE, features).ok
      /\ ToSet(records) = UNION {ToSet(made(class)) : class \in classes}
  BY <1>1, ZonesMade
<1>3. ASSUME NEW class
      PROVE  \/ \E r : ToSet(made(class)) = {r} /\ IsWhole(r, features, class)
             \/ /\ Polygons(features, class) = {}
                /\ \A r \in ToSet(made(class)) : \E i \in DOMAIN features :
                      r = FeatureRecord(features[i]) /\ features[i].shape # "Polygon"
  BY <1>1, <1>2, ClassMade
<1>4. ASSUME NEW class, Polygons(features, class) # {} PROVE class \in classes
  <2>1. PICK i \in DOMAIN features : features[i].class = class /\ features[i].shape = "Polygon"
    BY <1>4 DEF Polygons, ToSet
  <2>2. FeatureRecord(features[i]) \in ToSet(plain)
    <3> DEFINE places == {k \in DOMAIN features : InArea(TRUE, features[k])}
    <3>1. ToSet(plain) = {FeatureRecord(features[k]) : k \in places}
      BY <1>1, <1>2, FeaturesMade
    <3>2. i \in places
      BY <2>1 DEF InArea
    <3> QED
      BY <3>1, <3>2
  <2>3. FeatureRecord(features[i]).says = features[i]
    BY DEF FeatureRecord, Record
  <2> QED
    BY <2>1, <2>2, <2>3
<1> HIDE DEF made, classes
<1>5. ASSUME NEW r \in ToSet(records)
      PROVE  \/ \E class : IsWhole(r, features, class)
             \/ \E i \in DOMAIN features :
                   r = FeatureRecord(features[i]) /\ features[i].shape # "Polygon"
  <2>1. PICK class \in classes : r \in ToSet(made(class))
    BY <1>2
  <2> QED
    BY <1>3, <2>1
<1>6. ASSUME NEW class, Polygons(features, class) # {}
      PROVE  \E r \in ToSet(records) : IsWhole(r, features, class)
  <2>1. PICK r : ToSet(made(class)) = {r} /\ IsWhole(r, features, class)
    BY <1>3, <1>6
  <2>2. r \in ToSet(records)
    BY <1>2, <1>4, <1>6, <2>1
  <2> QED
    BY <2>1, <2>2
<1> QED
  BY <1>5, <1>6

(* ZonesKeepTheirArea for every answer of the flood-zone services and      *)
(* every order of answers: the cells shown of a class are those of its     *)
(* polygons, none lost and none moved to another class (arcgis.py,         *)
(* DissolvingArcGisAdapter.normalize, filed by upsert_records).            *)
THEOREM DissolvingKeepsArea ==
    ASSUME ZonesStand
    PROVE  Spec => []ZonesKeepTheirArea
<1>1. ShownIsLast /\ LastIsTaken => ZonesKeepTheirArea
  <2> SUFFICES ASSUME ShownIsLast, LastIsTaken, feed = "zones", payload # None, NEW class
               PROVE  UNION {row.says.cells : row \in {r \in Range(table) :
                                r.says.class = class /\ r.says.shape = "Polygon"}}
                        = Area(payload, class)
    BY DEF ZonesKeepTheirArea, Area, Polygons
  <2>1. PICK time \in 0 .. MaxTime : Taken(time)
    BY DEF LastIsTaken
  <2>2. /\ payload \in Answers("zones", time) /\ IsList(payload)
        /\ DissolvedRecords(TRUE, payload).ok
        /\ answer = DissolvedRecords(TRUE, payload).records
    BY <2>1, AnswersAssumption DEF Taken, MadeOf
  <2>3. /\ \A r \in ToSet(answer) :
              \/ \E c : IsWhole(r, payload, c)
              \/ \E i \in DOMAIN payload :
                    r = FeatureRecord(payload[i]) /\ payload[i].shape # "Polygon"
        /\ \A c : Polygons(payload, c) # {} => \E r \in ToSet(answer) : IsWhole(r, payload, c)
    BY <2>2, ZonesMadeWhole
  <2>4. \A f : /\ FeatureRecord(f).says = f /\ FeatureRecord(f).expires = f.expires
               /\ FeatureRecord(f).id = f.id
    BY DEF FeatureRecord, Record
  <2>5. \A i \in DOMAIN payload :
           /\ payload[i].expires = None
           /\ \A c : Polygons(payload, c) # {} => payload[i].id # <<"dissolved", c>>
    <3> TAKE i \in DOMAIN payload
    <3>1. /\ payload[i].expires = None
          /\ \A k \in DOMAIN payload : payload[i].id # <<"dissolved", payload[k].class>>
      BY <2>2 DEF ZonesStand
    <3>2. ASSUME NEW c, Polygons(payload, c) # {}
          PROVE  \E k \in DOMAIN payload : payload[k].class = c
      <4>1. PICK zone \in ToSet(payload) : zone.class = c
        BY <3>2 DEF Polygons
      <4> QED
        BY <4>1 DEF ToSet
    <3> QED
      BY <3>1, <3>2
  <2>6. \A r \in ToSet(answer) : r.expires = None
    BY <2>3, <2>4, <2>5 DEF IsWhole
  <2>7. IsList(answer)
    BY <2>2, ZonesMade
  <2>8. /\ DOMAIN table = Ids(answer)
        /\ \A id \in DOMAIN table : table[id] \in ToSet(answer) /\ table[id].id = id
    BY <2>6, <2>7, AllOnDisplay, RowsAreRecords DEF ShownIsLast
  <2> DEFINE shown == {r \in Range(table) : r.says.class = class /\ r.says.shape = "Polygon"}
  <2>9. ASSUME NEW row \in shown
        PROVE  Polygons(payload, class) # {} /\ row.says.cells = Area(payload, class)
    <3>1. row \in ToSet(answer) /\ row.says.class = class /\ row.says.shape = "Polygon"
      BY <2>8 DEF Range
    <3>2. PICK c : IsWhole(row, payload, c)
      BY <2>3, <2>4, <3>1
    <3>3. c = class
      BY <3>1, <3>2 DEF IsWhole
    <3> QED
      BY <3>2, <3>3 DEF IsWhole
  <2>10. ASSUME Polygons(payload, class) # {} PROVE shown # {}
    <3>1. PICK r \in ToSet(answer) : IsWhole(r, payload, class)
      BY <2>3, <2>10
    <3> DEFINE id == <<"dissolved", class>>
    <3>2. id \in DOMAIN table
      BY <2>8, <3>1 DEF IsWhole, Ids, ToSet
    <3>3. table[id] \in ToSet(answer) /\ table[id].id = id
      BY <2>8, <3>2
    <3>4. PICK c : IsWhole(table[id], payload, c)
      <4>1. \A i \in DOMAIN payload : FeatureRecord(payload[i]).id # id
        BY <2>4, <2>5, <2>10
      <4> QED
        BY <2>3, <3>3, <4>1
    <3>5. c = class
      BY <3>3, <3>4 DEF IsWhole
    <3>6. table[id] \in shown
      BY <3>2, <3>4, <3>5 DEF IsWhole, Range
    <3> QED
      BY <3>6
  <2>11. Polygons(payload, class) = {} => Area(payload, class) = {}
    BY DEF Area
  <2> HIDE DEF shown
  <2>12. UNION {row.says.cells : row \in shown} = Area(payload, class)
    BY <2>9, <2>10, <2>11
  <2> QED
    BY <2>12 DEF shown
<1> QED
  BY <1>1, TableIsTaken, PTL
-----------------------------------------------------------------------------
(* The storms *)

(* A geometry has the usable parts of its document and no others. *)
LEMMA PartsAreUsable ==
    ASSUME NEW document, IsList(document), KmlGeometry(document) # None, NEW k \in DOMAIN document
    PROVE  Usable(document[k]) <=> document[k] \in ToSet(KmlGeometry(document).parts)
<1> DEFINE places == {i \in DOMAIN document : Usable(document[i])}
           parts == Picked(document, places)
<1>1. ToSet(parts) = {document[i] : i \in places}
  BY PickedItems
<1>2. KmlGeometry(document).parts = parts
  <2> HIDE DEF parts
  <2>1. \E type : KmlGeometry(document) = [type |-> type, parts |-> parts]
    BY DEF KmlGeometry, parts
  <2> QED
    BY <2>1
<1> HIDE DEF parts
<1> QED
  BY <1>1, <1>2

(* A product is a record of its own, with its storm's name and its kind.   *)
LEMMA StormIdentities ==
    ASSUME NEW storm, NEW kind
    PROVE  /\ Center(storm).id = <<StormId(storm), "center">>
           /\ Product(storm, kind).id = <<StormId(storm), kind>>
           /\ Product(storm, kind).says = KmlGeometry(storm.products[kind].document)
           /\ Center(storm).expires = None /\ Product(storm, kind).expires = None
BY DEF Center, Product, StormRecord, Record

(* StormsAreWhole for every bulletin and every order of answers: a storm   *)
(* on display has its center and each product the center published for it, *)
(* with all the shapes of its document (nhc.py, fetch and normalize, filed *)
(* by upsert_records).                                                     *)
THEOREM StormsAreComplete ==
    ASSUME StormsNamedOnce
    PROVE  Spec => []StormsAreWhole
<1>1. ASSUME ShownIsLast, LastIsTaken, feed = "storms", payload # None
      PROVE  /\ \A i \in DOMAIN payload :
                   {table[id].id[2] : id \in {r.id : r \in {row \in ToSet(answer) :
                                                   row.id[1] = StormId(payload[i])}}}
                       = {"center"} \cup Wanted(payload[i])
             /\ \A i \in DOMAIN payload : \A p \in Wanted(payload[i]) :
                   LET parts == table[<<StormId(payload[i]), p>>].says.parts
                       document == payload[i].products[p].document
                   IN \A k \in DOMAIN document :
                         Usable(document[k]) <=> document[k] \in ToSet(parts)
  <2>1. PICK time \in 0 .. MaxTime : Taken(time)
    BY <1>1 DEF LastIsTaken
  <2>2. /\ payload \in Answers("storms", time) /\ IsList(payload)
        /\ StormRecords(payload).ok /\ answer = StormRecords(payload).records
    BY <1>1, <2>1, AnswersAssumption DEF Taken, MadeOf
  <2>3. /\ IsList(answer)
        /\ ToSet(answer) = {Center(payload[i]) : i \in DOMAIN payload}
                           \cup {Product(payload[w[1]], w[2]) : w \in Fetched(payload)}
        /\ \A w \in Fetched(payload) :
              /\ payload[w[1]].products[w[2]].document # None
              /\ KmlGeometry(payload[w[1]].products[w[2]].document) # None
    BY <2>2, StormsMade DEF SelfNamed
  <2>4. \A i, j \in DOMAIN payload : StormId(payload[i]) = StormId(payload[j]) => i = j
    BY <2>2 DEF StormsNamedOnce
  <2>5. ASSUME NEW i \in DOMAIN payload, NEW p \in Wanted(payload[i])
        PROVE  /\ <<i, p>> \in Fetched(payload) /\ p # "center"
               /\ IsList(payload[i].products[p].document)
    <3>1. p \in DOMAIN payload[i].products /\ DOMAIN payload[i].products \subseteq GisProducts
      BY <2>2, AnswersAssumption DEF Wanted
    <3>2. <<i, p>> \in Fetched(payload)
      BY <3>1 DEF Fetched
    <3>3. payload[i].products[p].document # None
      BY <2>3, <3>2
    <3>4. IsList(payload[i].products[p].document)
      BY <2>2, <3>1, <3>3, AnswersAssumption
    <3> QED
      BY <3>1, <3>2, <3>4 DEF GisProducts
  <2>6. \A w \in Fetched(payload) : w[1] \in DOMAIN payload /\ w[2] \in Wanted(payload[w[1]])
    BY DEF Fetched
  <2>7. ASSUME NEW r \in ToSet(answer) PROVE r.expires = None
    <3>1. CASE \E i \in DOMAIN payload : r = Center(payload[i])
      BY <3>1, StormIdentities
    <3>2. CASE \E w \in Fetched(payload) : r = Product(payload[w[1]], w[2])
      BY <3>2, StormIdentities
    <3> QED
      BY <2>3, <3>1, <3>2
  <2>8. /\ DOMAIN table = Ids(answer)
        /\ \A id \in DOMAIN table : table[id] \in ToSet(answer) /\ table[id].id = id
    BY <1>1, <2>3, <2>7, AllOnDisplay, RowsAreRecords DEF ShownIsLast
  <2>9. \A r \in ToSet(answer) : table[r.id].id = r.id /\ table[r.id] \in ToSet(answer)
    BY <2>8 DEF Ids, ToSet
  <2>10. ASSUME NEW i \in DOMAIN payload
         PROVE  {r.id : r \in {row \in ToSet(answer) : row.id[1] = StormId(payload[i])}}
                  = {<<StormId(payload[i]), kind>> : kind \in {"center"} \cup Wanted(payload[i])}
    <3>1. ASSUME NEW r \in ToSet(answer), r.id[1] = StormId(payload[i])
          PROVE  \E kind \in {"center"} \cup Wanted(payload[i]) :
                    r.id = <<StormId(payload[i]), kind>>
      <4>1. CASE \E j \in DOMAIN payload : r = Center(payload[j])
        <5>1. PICK j \in DOMAIN payload : r = Center(payload[j])
          BY <4>1
        <5>2. r.id = <<StormId(payload[j]), "center">>
          BY <5>1, StormIdentities
        <5> QED
          BY <3>1, <5>2
      <4>2. CASE \E w \in Fetched(payload) : r = Product(payload[w[1]], w[2])
        <5>1. PICK w \in Fetched(payload) : r = Product(payload[w[1]], w[2])
          BY <4>2
        <5>2. r.id = <<StormId(payload[w[1]]), w[2]>>
          BY <5>1, StormIdentities
        <5>3. w[1] = i
          BY <2>4, <2>6, <3>1, <5>2
        <5> QED
          BY <2>6, <5>2, <5>3
      <4> QED
        BY <2>3, <4>1, <4>2
    <3>2. ASSUME NEW kind \in {"center"} \cup Wanted(payload[i])
          PROVE  \E r \in ToSet(answer) : r.id = <<StormId(payload[i]), kind>>
      <4>1. CASE kind = "center"
        BY <2>3, <4>1, StormIdentities
      <4>2. CASE kind \in Wanted(payload[i])
        <5>1. Product(payload[i], kind) \in ToSet(answer)
          <6> DEFINE w == <<i, kind>>
          <6>1. w \in Fetched(payload) /\ w[1] = i /\ w[2] = kind
            BY <2>5, <4>2
          <6> QED
            BY <2>3, <6>1
        <5> QED
          BY <5>1, StormIdentities
      <4> QED
        BY <4>1, <4>2
    <3> DEFINE named == {r.id : r \in {row \in ToSet(answer) :
                                           row.id[1] = StormId(payload[i])}}
               kinds == {<<StormId(payload[i]), kind>> :
                            kind \in {"center"} \cup Wanted(payload[i])}
    <3>3. \A id \in named : id \in kinds
      BY <3>1
    <3>4. ASSUME NEW kind \in {"center"} \cup Wanted(payload[i])
          PROVE  <<StormId(payload[i]), kind>> \in named
      <4>1. PICK r \in ToSet(answer) : r.id = <<StormId(payload[i]), kind>>
        BY <3>2
      <4>2. r.id[1] = StormId(payload[i])
        BY <4>1
      <4> QED
        BY <4>1, <4>2
    <3>5. \A id \in kinds : id \in named
      BY <3>4
    <3> HIDE DEF named, kinds
    <3>6. named = kinds
      BY <3>3, <3>5
    <3> QED
      BY <3>6 DEF named, kinds
  <2>11. ASSUME NEW i \in DOMAIN payload
         PROVE  {table[id].id[2] : id \in {r.id : r \in {row \in ToSet(answer) :
                                                 row.id[1] = StormId(payload[i])}}}
                  = {"center"} \cup Wanted(payload[i])
    <3> DEFINE ids == {r.id : r \in {row \in ToSet(answer) : row.id[1] = StormId(payload[i])}}
    <3>1. \A id \in ids : table[id].id = id
      BY <2>9
    <3>2. ids = {<<StormId(payload[i]), kind>> : kind \in {"center"} \cup Wanted(payload[i])}
      BY <2>10
    <3> HIDE DEF ids
    <3>3. {table[id].id[2] : id \in ids} = {id[2] : id \in ids}
      BY <3>1
    <3>4. {id[2] : id \in ids} = {"center"} \cup Wanted(payload[i])
      <4>1. \A id \in ids : id[2] \in {"center"} \cup Wanted(payload[i])
        BY <3>2
      <4>2. ASSUME NEW kind \in {"center"} \cup Wanted(payload[i])
            PROVE  \E id \in ids : kind = id[2]
        <5>1. <<StormId(payload[i]), kind>> \in ids
          BY <3>2
        <5> QED
          BY <5>1
      <4> QED
        BY <4>1, <4>2
    <3> QED
      BY <3>3, <3>4 DEF ids
  <2>12. ASSUME NEW i \in DOMAIN payload, NEW p \in Wanted(payload[i])
         PROVE  table[<<StormId(payload[i]), p>>] = Product(payload[i], p)
    <3> DEFINE id == <<StormId(payload[i]), p>>
    <3>1. id \in {r.id : r \in {row \in ToSet(answer) : row.id[1] = StormId(payload[i])}}
      BY <2>10
    <3>2. table[id].id = id /\ table[id] \in ToSet(answer)
      BY <2>9, <3>1
    <3>3. p # "center"
      BY <2>5
    <3>4. ASSUME NEW j \in DOMAIN payload, table[id] = Center(payload[j]) PROVE FALSE
      <4>1. table[id].id = <<StormId(payload[j]), "center">>
        BY <3>4, StormIdentities
      <4> QED
        BY <3>2, <3>3, <4>1
    <3>5. PICK w \in Fetched(payload) : table[id] = Product(payload[w[1]], w[2])
      BY <2>3, <3>2, <3>4
    <3>6. <<StormId(payload[w[1]]), w[2]>> = id
      BY <3>2, <3>5, StormIdentities
    <3>7. w[1] = i /\ w[2] = p
      BY <2>4, <2>6, <3>6
    <3> QED
      BY <3>5, <3>7
  <2>13. ASSUME NEW i \in DOMAIN payload, NEW p \in Wanted(payload[i]),
                NEW k \in DOMAIN payload[i].products[p].document
         PROVE  Usable(payload[i].products[p].document[k]) <=>
                   payload[i].products[p].document[k]
                       \in ToSet(table[<<StormId(payload[i]), p>>].says.parts)
    <3> DEFINE document == payload[i].products[p].document
               w == <<i, p>>
    <3>1. table[<<StormId(payload[i]), p>>].says = KmlGeometry(document)
      BY <2>12, StormIdentities
    <3>2. IsList(document) /\ w \in Fetched(payload) /\ w[1] = i /\ w[2] = p
      BY <2>5
    <3>3. KmlGeometry(document) # None
      BY <2>3, <3>2
    <3> HIDE DEF document
    <3>4. Usable(document[k]) <=> document[k] \in ToSet(KmlGeometry(document).parts)
      BY <3>2, <3>3, PartsAreUsable DEF document
    <3> QED
      BY <3>1, <3>4 DEF document
  <2> QED
    BY <2>11, <2>13
<1>2. ShownIsLast /\ LastIsTaken => StormsAreWhole
  BY <1>1 DEF StormsAreWhole, Wanted
<1> QED
  BY <1>2, TableIsTaken, PTL
-----------------------------------------------------------------------------
(* The routes *)

(* The rows of trips.txt by which a trip is known: no later row names it.  *)
Standing(trips) ==
    {i \in DOMAIN trips : \A j \in DOMAIN trips : j > i => trips[j].id # trips[i].id}

LEMMA TripsStand ==
    ASSUME NEW trips, IsList(trips)
    PROVE  /\ \A id \in DOMAIN TripsById(trips) : \E i \in Standing(trips) :
                 trips[i].id = id /\ TripsById(trips)[id] = trips[i]
           /\ \A i \in Standing(trips) :
                 /\ trips[i].id \in DOMAIN TripsById(trips)
                 /\ TripsById(trips)[trips[i].id] = trips[i]
<1>1. Len(trips) \in Nat /\ DOMAIN trips = 1 .. Len(trips)
  BY ListParts
<1>2. DOMAIN TripsById(trips) = {trips[i].id : i \in DOMAIN trips}
  BY DEF TripsById
<1>3. ASSUME NEW id \in DOMAIN TripsById(trips)
      PROVE  \E i \in DOMAIN trips :
                /\ trips[i].id = id /\ TripsById(trips)[id] = trips[i]
                /\ \A j \in DOMAIN trips : trips[j].id = id => j <= i
  <2> DEFINE I == {i \in 1 .. Len(trips) : trips[i].id = id}
  <2>1. I \subseteq 1 .. Len(trips) /\ I # {}
    BY <1>1, <1>2
  <2>2. TripsById(trips)[id] = trips[Max(I)]
    BY <1>2, <2>1 DEF TripsById, SelectLastInSeq
  <2>3. Max(I) \in I /\ \A j \in I : j <= Max(I)
    <3> HIDE DEF I
    <3> QED
      BY <1>1, <2>1, MaxIsGreatest
  <2> QED
    BY <1>1, <2>2, <2>3
<1>4. ASSUME NEW id \in DOMAIN TripsById(trips)
      PROVE  \E i \in Standing(trips) : trips[i].id = id /\ TripsById(trips)[id] = trips[i]
  <2>1. PICK i \in DOMAIN trips :
           /\ trips[i].id = id /\ TripsById(trips)[id] = trips[i]
           /\ \A j \in DOMAIN trips : trips[j].id = id => j <= i
    BY <1>3
  <2>2. i \in Standing(trips)
    BY <1>1, <2>1 DEF Standing
  <2> QED
    BY <2>1, <2>2
<1>5. ASSUME NEW i \in Standing(trips)
      PROVE  trips[i].id \in DOMAIN TripsById(trips) /\ TripsById(trips)[trips[i].id] = trips[i]
  <2>1. i \in DOMAIN trips /\ trips[i].id \in DOMAIN TripsById(trips)
    BY <1>2 DEF Standing
  <2>2. PICK k \in DOMAIN trips :
           /\ trips[k].id = trips[i].id /\ TripsById(trips)[trips[i].id] = trips[k]
           /\ \A j \in DOMAIN trips : trips[j].id = trips[i].id => j <= k
    BY <1>3, <2>1
  <2>3. i <= k /\ ~(k > i)
    BY <2>1, <2>2 DEF Standing
  <2>4. k = i
    BY <1>1, <2>1, <2>3
  <2> QED
    BY <2>1, <2>2, <2>4
<1> QED
  BY <1>4, <1>5

(* The trips that call at a relevant stop, read off the archive.           *)
LEMMA TripsReach ==
    ASSUME NEW archive, IsList(archive.trips)
    PROVE  RelevantTrips(archive) =
              {archive.trips[i] : i \in {k \in Standing(archive.trips) :
                  \E call \in archive.stopTimes :
                      /\ call.trip = archive.trips[k].id
                      /\ call.stop \in {s.id : s \in RelevantStops(archive)}}}
<1> DEFINE trips == archive.trips
           byId == TripsById(trips)
           stopIds == {s.id : s \in RelevantStops(archive)}
           calls == {c \in archive.stopTimes : c.stop \in stopIds}
           called == {c.trip : c \in calls}
           reached == {k \in Standing(trips) : \E call \in archive.stopTimes :
                          call.trip = trips[k].id /\ call.stop \in stopIds}
<1>1. RelevantTrips(archive) = {byId[id] : id \in DOMAIN byId \cap called}
  BY DEF RelevantTrips
<1>2. \A k \in Standing(trips) : k \in reached <=> trips[k].id \in called
  OBVIOUS
<1>3. reached \subseteq Standing(trips)
  OBVIOUS
<1> HIDE DEF reached, called
<1>4. ASSUME NEW id \in DOMAIN byId \cap called
      PROVE  byId[id] \in {trips[i] : i \in reached}
  <2>1. PICK i \in Standing(trips) : trips[i].id = id /\ byId[id] = trips[i]
    BY TripsStand
  <2> QED
    BY <1>2, <2>1
<1>5. ASSUME NEW i \in reached
      PROVE  trips[i] \in {byId[id] : id \in DOMAIN byId \cap called}
  <2>1. trips[i].id \in DOMAIN byId /\ byId[trips[i].id] = trips[i]
    BY <1>3, TripsStand
  <2> QED
    BY <1>2, <1>3, <2>1
<1>6. {byId[id] : id \in DOMAIN byId \cap called} = {trips[i] : i \in reached}
  <2> HIDE DEF byId, trips
  <2> QED
    BY <1>4, <1>5
<1> QED
  BY <1>1, <1>6 DEF reached

LEMMA TransitIdentities ==
    ASSUME NEW archive, NEW s, NEW r
    PROVE  /\ StopRecord(s).id = <<"stop", s.id>> /\ StopRecord(s).expires = None
           /\ RouteRecord(archive, r).id = <<"route", r>>
           /\ RouteRecord(archive, r).says = DrawnFor(archive, r)
           /\ RouteRecord(archive, r).expires = None
BY DEF StopRecord, RouteRecord, Record

(* The line drawn is the way of a relevant trip of the route.              *)
LEMMA LineIsATrips ==
    ASSUME NEW archive, IsList(archive.trips),
           \A i \in DOMAIN archive.trips : archive.trips[i].shape \in Nat \cup {None},
           NEW route, DrawnFor(archive, route) # {}
    PROVE  \E trip \in RelevantTrips(archive) :
              /\ trip.route = route
              /\ {point.cell : point \in DrawnFor(archive, route)}
                    = {p.cell : p \in {q \in archive.points : q.shape = trip.shape}}
<1> DEFINE shapes == ShapesOf(archive, route)
<1>1. shapes # {} /\ DrawnFor(archive, route) = LineOf(archive, Min(shapes))
  BY DEF DrawnFor
<1>2. shapes \subseteq Nat
  <2>1. \A trip \in RelevantTrips(archive) : \E i \in DOMAIN archive.trips : trip = archive.trips[i]
    BY TripsReach DEF Standing
  <2> QED
    BY <2>1 DEF ShapesOf
<1>3. Min(shapes) \in shapes
  <2> HIDE DEF shapes
  <2> QED
    BY <1>1, <1>2, MinIsLeast
<1>4. PICK trip \in RelevantTrips(archive) : trip.route = route /\ trip.shape = Min(shapes)
  BY <1>3 DEF ShapesOf
<1> DEFINE way == {q \in archive.points : q.shape = trip.shape}
<1>5. DrawnFor(archive, route) = {[order |-> p.order, cell |-> p.cell] : p \in way}
  BY <1>1, <1>4 DEF LineOf
<1> HIDE DEF way
<1>6. {point.cell : point \in DrawnFor(archive, route)} = {p.cell : p \in way}
  <2>1. ASSUME NEW point \in DrawnFor(archive, route) PROVE \E p \in way : point.cell = p.cell
    BY <1>5
  <2>2. ASSUME NEW p \in way
        PROVE  \E point \in DrawnFor(archive, route) : p.cell = point.cell
    <3>1. [order |-> p.order, cell |-> p.cell] \in DrawnFor(archive, route)
      BY <1>5
    <3> QED
      BY <3>1
  <2> QED
    BY <2>1, <2>2
<1> QED
  BY <1>4, <1>6 DEF way
(* RoutesReachTheBeach for every archive and every order of answers: the   *)
(* routes shown are those of the trips that, by the last row that names    *)
(* them, call at a stop that is shown, and a line drawn is the way of such *)
(* a trip (gtfs.py, the joins of normalize, filed by upsert_records).      *)
THEOREM RoutesAreReached == Spec => []RoutesReachTheBeach
<1>1. ASSUME ShownIsLast, LastIsTaken, feed = "transit", payload # None
      PROVE  RoutesReachTheBeach
  <2> DEFINE reaching == {payload.trips[i] : i \in {k \in Standing(payload.trips) :
                             \E call \in payload.stopTimes :
                                 /\ call.trip = payload.trips[k].id
                                 /\ <<"stop", call.stop>> \in DOMAIN table}}
  <2>1. PICK time \in 0 .. MaxTime : Taken(time)
    BY <1>1 DEF LastIsTaken
  <2>2. /\ IsFiniteSet(payload.stops) /\ IsList(payload.trips)
        /\ \A i \in DOMAIN payload.trips : payload.trips[i].shape \in Nat \cup {None}
        /\ GtfsRecords(payload).ok /\ answer = GtfsRecords(payload).records
    BY <1>1, <2>1, AnswersAssumption DEF Taken, MadeOf
  <2>3. /\ IsList(answer)
        /\ ToSet(answer) = {StopRecord(s) : s \in RelevantStops(payload)}
                           \cup {RouteRecord(payload, r) : r \in RoutesOf(payload)}
    BY <2>2, TransitMade DEF SelfNamed
  <2>4. ASSUME NEW row \in ToSet(answer)
        PROVE  /\ row.expires = None
               /\ \/ \E s \in RelevantStops(payload) : row.id = <<"stop", s.id>>
                  \/ \E r \in RoutesOf(payload) :
                        row.id = <<"route", r>> /\ row.says = DrawnFor(payload, r)
    <3>1. CASE \E s \in RelevantStops(payload) : row = StopRecord(s)
      BY <3>1, TransitIdentities
    <3>2. CASE \E r \in RoutesOf(payload) : row = RouteRecord(payload, r)
      BY <3>2, TransitIdentities
    <3> QED
      BY <2>3, <3>1, <3>2
  <2>5. /\ DOMAIN table = Ids(answer)
        /\ \A id \in DOMAIN table : table[id] \in ToSet(answer) /\ table[id].id = id
    BY <1>1, <2>3, <2>4, AllOnDisplay, RowsAreRecords DEF ShownIsLast
  <2>6. \A row \in ToSet(answer) : row.id \in DOMAIN table
    BY <2>5 DEF Ids, ToSet
  <2>7. ASSUME NEW stop
        PROVE  <<"stop", stop>> \in DOMAIN table <=> stop \in {s.id : s \in RelevantStops(payload)}
    <3>1. ASSUME <<"stop", stop>> \in DOMAIN table
          PROVE  \E s \in RelevantStops(payload) : stop = s.id
      <4> DEFINE row == table[<<"stop", stop>>]
      <4>1. row \in ToSet(answer) /\ row.id = <<"stop", stop>>
        BY <2>5, <3>1
      <4> HIDE DEF row
      <4> QED
        BY <2>4, <4>1
    <3>2. ASSUME NEW s \in RelevantStops(payload), stop = s.id
          PROVE  <<"stop", stop>> \in DOMAIN table
      <4>1. StopRecord(s) \in ToSet(answer) /\ StopRecord(s).id = <<"stop", stop>>
        BY <2>3, <3>2, TransitIdentities
      <4> QED
        BY <2>6, <4>1
    <3> QED
      BY <3>1, <3>2
  <2>8. reaching = RelevantTrips(payload)
    <3>1. RelevantTrips(payload) =
             {payload.trips[i] : i \in {k \in Standing(payload.trips) :
                 \E call \in payload.stopTimes :
                     /\ call.trip = payload.trips[k].id
                     /\ call.stop \in {s.id : s \in RelevantStops(payload)}}}
      BY <2>2, TripsReach
    <3>2. \A k : (\E call \in payload.stopTimes :
                     /\ call.trip = payload.trips[k].id
                     /\ call.stop \in {s.id : s \in RelevantStops(payload)})
                 <=> (\E call \in payload.stopTimes :
                         /\ call.trip = payload.trips[k].id
                         /\ <<"stop", call.stop>> \in DOMAIN table)
      BY <2>7
    <3> QED
      BY <3>1, <3>2
  <2> HIDE DEF reaching
  <2>9. ASSUME NEW id \in DOMAIN table, id[1] = "route"
        PROVE  /\ id[2] \in RoutesOf(payload)
               /\ table[id].says = DrawnFor(payload, id[2])
    <3> DEFINE row == table[id]
    <3>1. row \in ToSet(answer) /\ row.id = id
      BY <2>5
    <3> HIDE DEF row
    <3>2. PICK r \in RoutesOf(payload) :
             row.id = <<"route", r>> /\ row.says = DrawnFor(payload, r)
      BY <2>4, <2>9, <3>1
    <3> QED
      BY <3>1, <3>2 DEF row
  <2>10. ASSUME NEW r \in RoutesOf(payload)
         PROVE  \E id \in DOMAIN table : id[1] = "route" /\ id[2] = r
    <3>1. RouteRecord(payload, r) \in ToSet(answer)
          /\ RouteRecord(payload, r).id = <<"route", r>>
      BY <2>3, TransitIdentities
    <3>2. <<"route", r>> \in DOMAIN table
      BY <2>6, <3>1
    <3> QED
      BY <3>2
  <2>11. {id[2] : id \in {i \in DOMAIN table : i[1] = "route"}} = RoutesOf(payload)
    BY <2>9, <2>10
  <2>12. ASSUME NEW id \in DOMAIN table, id[1] = "route", table[id].says # {}
         PROVE  \E trip \in reaching :
                   /\ trip.route = id[2]
                   /\ {point.cell : point \in table[id].says}
                        = {p.cell : p \in {q \in payload.points : q.shape = trip.shape}}
    <3>1. table[id].says = DrawnFor(payload, id[2])
      BY <2>9, <2>12
    <3>2. PICK trip \in RelevantTrips(payload) :
             /\ trip.route = id[2]
             /\ {point.cell : point \in DrawnFor(payload, id[2])}
                  = {p.cell : p \in {q \in payload.points : q.shape = trip.shape}}
      BY <2>2, <2>12, <3>1, LineIsATrips
    <3> QED
      BY <2>8, <3>1, <3>2
  <2>13. {id[2] : id \in {i \in DOMAIN table : i[1] = "route"}}
            = {trip.route : trip \in reaching} \ {None}
    BY <2>8, <2>11 DEF RoutesOf
  <2> QED
    BY <2>12, <2>13 DEF RoutesReachTheBeach, Standing, reaching
<1>2. ShownIsLast /\ LastIsTaken => RoutesReachTheBeach
  BY <1>1 DEF RoutesReachTheBeach
<1> QED
  BY <1>2, TableIsTaken, PTL
=============================================================================
