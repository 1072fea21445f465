-------------------------- MODULE SnapshotProofs --------------------------
(***************************************************************************)
(* Proofs about Snapshot, for rings of every size, any entities and states *)
(* of them, and any loss of messages: the types, that the client has every *)
(* snapshot the server may delta from, and, if no snapshot is larger than  *)
(* PARSE_MARGIN, that no delta is refused and every snapshot kept is what  *)
(* the server built.                                                       *)
(*                                                                         *)
(* The first half is about the operators: what the server counts, the      *)
(* order of entities, what a delta has, and that merging it with the old   *)
(* entities, turn by turn, while the ring is written, gives the new ones.  *)
(* The second half is the inductive invariant.  It says of every message   *)
(* that the client may acknowledge, or that is under way, what the two     *)
(* rings still hold of it, and that parseEntitiesNum counts no less than   *)
(* the client has put into its ring since.                                 *)
(***************************************************************************)
EXTENDS Snapshot, FiniteSetTheorems, SequenceTheorems, TLAPS

----------------------------------------------------------------------------
(* Rings: numbers less than a ring's size apart have slots of their own.   *)

\* A multiple of d that is greater is greater by d.
LEMMA MultiplesApart ==
  ASSUME NEW a \in Int, NEW b \in Int, NEW d \in Nat, a < b
  PROVE  d * a + d <= d * b
<1>1. b - a - 1 \in Nat OBVIOUS
<1>2. d * (b - a - 1) >= 0 BY <1>1
<1>3. d * (b - a - 1) = d * b - d * a - d OBVIOUS
<1> QED BY <1>2, <1>3

\* The slot of a number in a ring of size d.
LEMMA SlotType ==
  ASSUME NEW n \in Int, NEW d \in Nat \ {0}
  PROVE  n % d \in 0 .. d - 1
OBVIOUS

\* Two numbers less than a ring's size apart have different slots.
LEMMA SlotsApart ==
  ASSUME NEW i \in Int, NEW j \in Int, NEW d \in Nat \ {0}, i < j, j - i < d
  PROVE  i % d # j % d
<1> DEFINE p == i \div d
           q == j \div d
           r == i % d
           s == j % d
<1>1. /\ p \in Int /\ q \in Int /\ r \in 0 .. d - 1 /\ s \in 0 .. d - 1
      /\ i = d * p + r /\ j = d * q + s
  OBVIOUS
<1> HIDE DEF p, q, r, s
<1>2. ASSUME r = s PROVE FALSE
  <2>1. d * p \in Int /\ d * q \in Int BY <1>1
  <2>2. d * q - d * p > 0 /\ d * q - d * p < d BY <1>1, <1>2, <2>1
  <2>3. CASE p < q BY <1>1, <2>1, <2>2, <2>3, MultiplesApart
  <2>4. CASE q < p BY <1>1, <2>1, <2>2, <2>4, MultiplesApart
  <2>5. CASE p = q BY <1>1, <2>1, <2>2, <2>5
  <2> QED BY <1>1, <2>3, <2>4, <2>5
<1> QED BY <1>2 DEF r, s

\* A set of natural numbers has a least element.
LEMMA LeastExists ==
  ASSUME NEW S \in SUBSET Nat, S # {}
  PROVE  \E n \in S : \A i \in S : n <= i
<1> DEFINE Less == {p \in Nat \X Nat : p[1] < p[2]}
<1>1. IsWellFoundedOn(Less, Nat) BY NatLessThanWellFounded DEF OpToRel
<1>2. \A x, y \in S : <<y, x>> \notin Less => x <= y OBVIOUS
<1> HIDE DEF Less
<1> QED BY <1>1, <1>2, WFMin

----------------------------------------------------------------------------
(* Recursion: a step can be repeated any number of times.                  *)

\* The first n values of a sequence that starts with a and goes on by step.
Begins(f, a, step, n) ==
  /\ f[0] = a
  /\ \A k \in 0 .. n - 1 : f[k + 1] = step[<<k, f[k]>>]

\* There is one value that such sequences have at n.
LEMMA OneBeginning ==
  ASSUME NEW a, NEW step, NEW f, NEW g, NEW n \in Nat, NEW m \in Nat,
         Begins(f, a, step, n), Begins(g, a, step, m)
  PROVE  \A k \in Nat : k <= n /\ k <= m => f[k] = g[k]
<1> DEFINE S == {k \in Nat : k <= n /\ k <= m /\ f[k] # g[k]}
<1> SUFFICES ASSUME S # {} PROVE FALSE OBVIOUS
<1>1. PICK k \in S : \A i \in S : k <= i BY LeastExists
<1>2. k \in Nat /\ k <= n /\ k <= m /\ f[k] # g[k] OBVIOUS
<1>3. k # 0 BY <1>2 DEF Begins
<1>4. k - 1 \in Nat /\ k - 1 \notin S BY <1>1, <1>2, <1>3
<1>5. f[k - 1] = g[k - 1] BY <1>2, <1>4
<1>6. k - 1 \in 0 .. n - 1 /\ k - 1 \in 0 .. m - 1 /\ (k - 1) + 1 = k BY <1>2, <1>3
<1>7. f[k] = step[<<k - 1, f[k - 1]>>] /\ g[k] = step[<<k - 1, g[k - 1]>>]
  BY <1>6 DEF Begins
<1> QED BY <1>2, <1>5, <1>7

\* There is a sequence of any length.
LEMMA BeginningExists ==
  ASSUME NEW a, NEW step
  PROVE  \A n \in Nat : \E f : Begins(f, a, step, n)
<1> DEFINE S == {n \in Nat : ~ \E f : Begins(f, a, step, n)}
<1> SUFFICES ASSUME S # {} PROVE FALSE OBVIOUS
<1>1. PICK n \in S : \A i \in S : n <= i BY LeastExists
<1>2. n \in Nat /\ ~ \E f : Begins(f, a, step, n) OBVIOUS
<1>3. n # 0
  <2>1. Begins([k \in {0} |-> a], a, step, 0) BY DEF Begins
  <2> QED BY <1>2, <2>1
<1>4. n - 1 \in Nat /\ n - 1 \notin S BY <1>1, <1>2, <1>3
<1>5. PICK f : Begins(f, a, step, n - 1) BY <1>4
<1> DEFINE g == [k \in 0 .. n |-> IF k = n THEN step[<<n - 1, f[n - 1]>>] ELSE f[k]]
<1>6. Begins(g, a, step, n)
  <2>1. g[0] = a BY <1>2, <1>3, <1>5 DEF Begins
  <2>2. ASSUME NEW k \in 0 .. n - 1 PROVE g[k + 1] = step[<<k, g[k]>>]
    <3>0. k \in Int /\ k + 1 \in 0 .. n /\ k \in 0 .. n /\ k # n BY <1>2
    <3>1. g[k] = f[k] BY <3>0
    <3>2. CASE k = n - 1
      <4>1. k + 1 = n /\ g[k + 1] = step[<<n - 1, f[n - 1]>>] BY <1>2, <3>0, <3>2
      <4> HIDE DEF g
      <4> QED BY <3>1, <3>2, <4>1
    <3>3. CASE k # n - 1
      <4>1. k \in 0 .. (n - 1) - 1 /\ k + 1 # n BY <1>2, <3>0, <3>3
      <4>2. f[k + 1] = step[<<k, f[k]>>] BY <1>5, <4>1 DEF Begins
      <4>3. g[k + 1] = f[k + 1] BY <3>0, <4>1
      <4> HIDE DEF g
      <4> QED BY <3>1, <4>2, <4>3
    <3> QED BY <3>2, <3>3
  <2> HIDE DEF g
  <2> QED BY <2>1, <2>2 DEF Begins
<1> QED BY <1>2, <1>6

\* A whole one, whose values are in S.
Repetition(f, S, a, step) ==
  f \in [Nat -> S] /\ f[0] = a /\ \A k \in Nat : f[k + 1] = step[<<k, f[k]>>]

\* There is one: what the definition of a recursive function asks for.
LEMMA Repeats ==
  ASSUME NEW S, NEW a \in S, NEW step \in [Nat \X S -> S]
  PROVE  \E f : Repetition(f, S, a, step)
<1> DEFINE Some(n) == CHOOSE f : Begins(f, a, step, n)
           h == [k \in Nat |-> Some(k)[k]]
<1>1. \A n \in Nat : Begins(Some(n), a, step, n) BY BeginningExists
<1> HIDE DEF Some
<1>2. \A k \in Nat : h[k] = Some(k)[k] OBVIOUS
<1>3. h[0] = a BY <1>1, <1>2 DEF Begins
<1>4. ASSUME NEW k \in Nat PROVE h[k + 1] = step[<<k, h[k]>>]
  <2>1. k + 1 \in Nat /\ k <= k + 1 /\ k \in 0 .. (k + 1) - 1 OBVIOUS
  <2>2. Begins(Some(k + 1), a, step, k + 1) /\ Begins(Some(k), a, step, k) BY <1>1, <2>1
  <2>3. Some(k + 1)[k] = Some(k)[k] BY <2>1, <2>2, OneBeginning
  <2>4. Some(k + 1)[k + 1] = step[<<k, Some(k + 1)[k]>>] BY <2>1, <2>2 DEF Begins
  <2> QED BY <1>2, <2>1, <2>3, <2>4
<1>5. h = [k \in Nat |-> h[k]] OBVIOUS
<1> HIDE DEF h
<1>6. \A k \in Nat : h[k] \in S
  <2> DEFINE T == {k \in Nat : h[k] \notin S}
  <2> SUFFICES ASSUME T # {} PROVE FALSE OBVIOUS
  <2>1. PICK k \in T : \A i \in T : k <= i BY LeastExists
  <2>2. k \in Nat /\ k # 0 /\ h[k] \notin S BY <1>3
  <2>3. k - 1 \in Nat /\ k - 1 \notin T /\ (k - 1) + 1 = k BY <2>1, <2>2
  <2>4. h[k - 1] \in S BY <2>3
  <2>5. h[k] = step[<<k - 1, h[k - 1]>>] BY <1>4, <2>3
  <2> QED BY <2>2, <2>3, <2>4, <2>5
<1> QED BY <1>3, <1>4, <1>5, <1>6 DEF Repetition

----------------------------------------------------------------------------
(* What the server counts.                                                 *)

Frame == [first : Nat, num : Nat]
Slots == 0 .. PACKET_BACKUP - 1

\* The sizes of the rings.
LEMMA Sizes ==
  /\ PACKET_BACKUP \in Nat \ {0} /\ DELTA_MARGIN \in Nat
  /\ PARSE_MARGIN \in Nat \ {0} /\ MAX_PARSE_ENTITIES \in Nat \ {0}
  /\ MAX_PARSE_ENTITIES >= PARSE_MARGIN
  /\ NumSnapshotEntities \in Nat \ {0} /\ NumSnapshotEntities >= MaxEntities
  /\ MaxEntities \in Nat \ {0} /\ MaxMessages \in Nat
  /\ Removed \notin Values /\ Others \subseteq Nat
BY SnapshotAssumption

\* One message more is counted with the entities of its frame.
LEMMA CountedIs ==
  ASSUME NEW frames \in [Slots -> Frame], NEW from \in Nat
  PROVE  /\ Counted(frames, from, from) = 0
         /\ \A to \in Nat : to >= from =>
              /\ Counted(frames, from, to) \in Nat
              /\ Counted(frames, from, to + 1)
                   = Counted(frames, from, to) + frames[to % PACKET_BACKUP].num
<1> DEFINE Of(i) == frames[(from + i) % PACKET_BACKUP].num
           step == [p \in Nat \X Nat |-> p[2] + Of(p[1])]
           num == CHOOSE num : num = [i \in Nat |-> IF i = 0 THEN 0
                     ELSE num[i - 1] + frames[(from + i - 1) % PACKET_BACKUP].num]
<1>1. \A i \in Nat : Of(i) \in Nat BY Sizes, SlotType DEF Slots, Frame
<1>2. step \in [Nat \X Nat -> Nat] BY <1>1
<1>3. PICK f : Repetition(f, Nat, 0, step)
  <2> HIDE DEF step
  <2> QED BY <1>2, Repeats
<1>4. f \in [Nat -> Nat] /\ f = [k \in Nat |-> f[k]] BY <1>3 DEF Repetition
<1>5. ASSUME NEW k \in Nat
      PROVE  f[k] = IF k = 0 THEN 0 ELSE f[k - 1] + frames[(from + k - 1) % PACKET_BACKUP].num
  <2>1. CASE k = 0 BY <1>3, <2>1 DEF Repetition
  <2>2. CASE k # 0
    <3>1. k - 1 \in Nat /\ f[k - 1] \in Nat /\ (k - 1) + 1 = k /\ from + (k - 1) = from + k - 1
      BY <1>4, <2>2
    <3>2. step[<<k - 1, f[k - 1]>>] = f[k - 1] + Of(k - 1) BY <3>1
    <3> HIDE DEF step
    <3>3. f[k] = f[k - 1] + Of(k - 1) BY <1>3, <3>1, <3>2 DEF Repetition
    <3> QED BY <2>2, <3>1, <3>3
  <2> QED BY <2>1, <2>2
<1> HIDE DEF step
<1>7. f = [k \in Nat |-> IF k = 0 THEN 0 ELSE f[k - 1] + frames[(from + k - 1) % PACKET_BACKUP].num]
  BY <1>4, <1>5
<1>8. num = [k \in Nat |-> IF k = 0 THEN 0 ELSE num[k - 1] + frames[(from + k - 1) % PACKET_BACKUP].num]
  BY <1>7
<1>9. \A to : Counted(frames, from, to) = num[to - from] BY DEF Counted
<1> HIDE DEF num
<1>10. \A k \in Nat : num[k] \in Nat
  <2> DEFINE S == {k \in Nat : num[k] # f[k]}
  <2> SUFFICES S = {} BY <1>4
  <2> SUFFICES ASSUME S # {} PROVE FALSE OBVIOUS
  <2>1. PICK k \in S : \A i \in S : k <= i BY LeastExists
  <2>2. num[0] = 0 /\ f[0] = 0 BY <1>3, <1>8 DEF Repetition
  <2>3. k \in Nat /\ k # 0 /\ num[k] # f[k] BY <2>2
  <2>4. k - 1 \in Nat /\ k - 1 \notin S BY <2>1, <2>3
  <2>5. num[k - 1] = f[k - 1] BY <2>4
  <2>6. num[k] = num[k - 1] + frames[(from + k - 1) % PACKET_BACKUP].num BY <1>8, <2>3
  <2>7. f[k] = f[k - 1] + frames[(from + k - 1) % PACKET_BACKUP].num BY <1>5, <2>3
  <2> QED BY <2>3, <2>5, <2>6, <2>7
<1>11. from - from = 0 /\ num[0] = 0 BY <1>8
<1>12. ASSUME NEW to \in Nat, to >= from
       PROVE  num[to - from] \in Nat /\ num[(to + 1) - from] = num[to - from] + frames[to % PACKET_BACKUP].num
  <2>1. to - from \in Nat /\ (to + 1) - from \in Nat /\ (to + 1) - from # 0
        /\ ((to + 1) - from) - 1 = to - from /\ from + ((to + 1) - from) - 1 = to
    BY <1>12
  <2>2. num[(to + 1) - from] = num[((to + 1) - from) - 1]
                               + frames[(from + ((to + 1) - from) - 1) % PACKET_BACKUP].num
    BY <1>8, <2>1
  <2> QED BY <1>10, <2>1, <2>2
<1> QED BY <1>9, <1>11, <1>12

\* Only the frames of the messages counted matter.
LEMMA CountedSame ==
  ASSUME NEW f \in [Slots -> Frame], NEW g \in [Slots -> Frame], NEW from \in Nat, NEW to \in Nat,
         from <= to, \A i \in from .. to - 1 : f[i % PACKET_BACKUP] = g[i % PACKET_BACKUP]
  PROVE  Counted(f, from, to) = Counted(g, from, to)
<1> DEFINE S == {k \in Nat : from <= k /\ k <= to /\ Counted(f, from, k) # Counted(g, from, k)}
<1> SUFFICES ASSUME S # {} PROVE FALSE OBVIOUS
<1>1. PICK k \in S : \A i \in S : k <= i BY LeastExists
<1>2. k \in Nat /\ from <= k /\ k <= to /\ Counted(f, from, k) # Counted(g, from, k) OBVIOUS
<1>3. k # from BY <1>2, CountedIs
<1>4. k - 1 \in Nat /\ k - 1 \notin S BY <1>1, <1>2, <1>3
<1>5. Counted(f, from, k - 1) = Counted(g, from, k - 1) BY <1>2, <1>3, <1>4
<1>6. k - 1 \in from .. to - 1 /\ (k - 1) + 1 = k /\ k - 1 >= from BY <1>2, <1>3
<1> HIDE DEF S
<1>7. /\ Counted(f, from, k) = Counted(f, from, k - 1) + f[(k - 1) % PACKET_BACKUP].num
      /\ Counted(g, from, k) = Counted(g, from, k - 1) + g[(k - 1) % PACKET_BACKUP].num
  <2> DEFINE t == k - 1
  <2>1. t \in Nat /\ t >= from /\ k = t + 1 BY <1>4, <1>6
  <2> HIDE DEF t
  <2> SUFFICES /\ Counted(f, from, t + 1) = Counted(f, from, t) + f[t % PACKET_BACKUP].num
               /\ Counted(g, from, t + 1) = Counted(g, from, t) + g[t % PACKET_BACKUP].num
    BY <2>1 DEF t
  <2> QED BY <2>1, CountedIs
<1> QED BY <1>2, <1>5, <1>6, <1>7

----------------------------------------------------------------------------
(* Entities in the order of their numbers.                                 *)

Before(E, e) == {f \in E : f.number < e.number}
Rank(E, e) == Cardinality(Before(E, e))
Increasing(s) == \A x, y \in 1 .. Len(s) : x < y => s[x].number < s[y].number

\* Fewer entities than there are come before one of them.
LEMMA RankType ==
  ASSUME NEW E, IsFiniteSet(E), \A e \in E : e.number \in Nat, NEW e \in E
  PROVE  /\ IsFiniteSet(Before(E, e)) /\ Rank(E, e) \in Nat
         /\ Rank(E, e) + 1 <= Cardinality(E)
<1>1. IsFiniteSet(E \ {e}) /\ Cardinality(E \ {e}) = Cardinality(E) - 1 BY FS_RemoveElement
<1>2. Before(E, e) \in SUBSET (E \ {e}) BY DEF Before
<1>3. /\ IsFiniteSet(Before(E, e)) /\ Rank(E, e) <= Cardinality(E \ {e})
      /\ Rank(E, e) \in Nat /\ Cardinality(E) \in Nat
  BY <1>1, <1>2, FS_Subset, FS_CardinalityType DEF Rank
<1> QED BY <1>1, <1>3

\* More come before one with a greater number.
LEMMA RankGrows ==
  ASSUME NEW E, IsFiniteSet(E), \A e \in E : e.number \in Nat,
         NEW e \in E, NEW f \in E, e.number < f.number
  PROVE  Rank(E, e) < Rank(E, f)
<1>1. Before(E, e) \cup {e} \in SUBSET Before(E, f)
  <2>1. ASSUME NEW x \in Before(E, e) PROVE x \in Before(E, f)
    <3>1. x \in E /\ x.number \in Nat /\ e.number \in Nat /\ f.number \in Nat /\ x.number < e.number
      BY <2>1 DEF Before
    <3> QED BY <3>1 DEF Before
  <2> QED BY <2>1 DEF Before
<1>2. e \notin Before(E, e) BY DEF Before
<1>3. /\ IsFiniteSet(Before(E, e)) /\ IsFiniteSet(Before(E, f))
      /\ Rank(E, e) \in Nat /\ Rank(E, f) \in Nat
  BY RankType
<1>4. Cardinality(Before(E, e) \cup {e}) = Rank(E, e) + 1 BY <1>2, <1>3, FS_AddElement DEF Rank
<1>5. Cardinality(Before(E, e) \cup {e}) <= Rank(E, f) BY <1>1, <1>3, FS_Subset DEF Rank
<1> QED BY <1>3, <1>4, <1>5

\* With numbers of their own, there is one for every place.
LEMMA RankTaken ==
  ASSUME NEW E, IsFiniteSet(E), \A e \in E : e.number \in Nat,
         \A e, f \in E : e.number = f.number => e = f,
         NEW i \in 1 .. Cardinality(E)
  PROVE  \E e \in E : Rank(E, e) = i - 1
<1> DEFINE T == 1 .. Cardinality(E)
           place == [e \in E |-> Rank(E, e) + 1]
<1>1. Cardinality(E) \in Nat BY FS_CardinalityType
<1>2. IsFiniteSet(T) /\ Cardinality(T) = Cardinality(E) BY <1>1, FS_Interval
<1>3. place \in [E -> T] BY <1>1, RankType
<1>4. ASSUME NEW e \in E, NEW f \in E, place[e] = place[f] PROVE e = f
  <2>1. Rank(E, e) = Rank(E, f) /\ Rank(E, e) \in Nat /\ Rank(E, f) \in Nat BY <1>4, RankType
  <2>2. ~ (e.number < f.number) /\ ~ (f.number < e.number) BY <2>1, RankGrows
  <2>3. e.number \in Nat /\ f.number \in Nat OBVIOUS
  <2> QED BY <2>2, <2>3
<1>5. place \in Injection(E, T)
  <2> HIDE DEF place, T
  <2> QED BY <1>3, <1>4 DEF Injection, IsInjective
<1>6. place \in Surjection(E, T)
  <2> HIDE DEF place, T
  <2> QED BY <1>2, <1>5, FS_Injection
<1>7. PICK e \in E : place[e] = i
  <2> HIDE DEF place
  <2> QED BY <1>6 DEF Surjection
<1>8. Rank(E, e) \in Nat /\ Rank(E, e) + 1 = i BY <1>7, RankType
<1> QED BY <1>8

\* The sequence has the entities of the set, by increasing numbers.
LEMMA InOrderIs ==
  ASSUME NEW E, IsFiniteSet(E), \A e \in E : e.number \in Nat,
         \A e, f \in E : e.number = f.number => e = f
  PROVE  /\ InOrder(E) \in Seq(E)
         /\ Len(InOrder(E)) = Cardinality(E)
         /\ Cardinality(E) \in Nat
         /\ Increasing(InOrder(E))
         /\ \A e \in E : \E i \in 1 .. Len(InOrder(E)) : InOrder(E)[i] = e
<1> DEFINE n == Cardinality(E)
           q == InOrder(E)
           At(i) == CHOOSE e \in E : Rank(E, e) = i - 1
<1>1. n \in Nat BY FS_CardinalityType
<1>2. q = [i \in 1 .. n |-> At(i)] BY DEF InOrder, Rank, Before
<1>3. \A i \in 1 .. n : At(i) \in E /\ Rank(E, At(i)) = i - 1 BY RankTaken
<1> HIDE DEF q, At, n
<1>4. q \in Seq(E) /\ Len(q) = n
  <2>1. q \in [1 .. n -> E] BY <1>2, <1>3
  <2> QED BY <1>1, <2>1
<1>5. \A i \in 1 .. n : q[i] \in E /\ Rank(E, q[i]) = i - 1 BY <1>2, <1>3
<1>6. ASSUME NEW x \in 1 .. n, NEW y \in 1 .. n, x < y PROVE q[x].number < q[y].number
  <2>1. q[x] \in E /\ q[y] \in E /\ Rank(E, q[x]) = x - 1 /\ Rank(E, q[y]) = y - 1 BY <1>5
  <2>2. q[x].number \in Nat /\ q[y].number \in Nat BY <2>1
  <2>3. q[x].number # q[y].number BY <1>1, <1>6, <2>1
  <2>4. ~ (q[y].number < q[x].number)
    <3> SUFFICES ASSUME q[y].number < q[x].number PROVE FALSE OBVIOUS
    <3>1. Rank(E, q[y]) < Rank(E, q[x]) BY <2>1, RankGrows
    <3> QED BY <1>1, <1>6, <2>1, <3>1
  <2> QED BY <2>2, <2>3, <2>4
<1>7. ASSUME NEW e \in E PROVE \E i \in 1 .. n : q[i] = e
  <2>1. Rank(E, e) \in Nat /\ Rank(E, e) + 1 \in 1 .. n BY <1>1, RankType DEF n
  <2> DEFINE i == Rank(E, e) + 1
  <2>2. i \in 1 .. n /\ q[i] \in E /\ Rank(E, q[i]) = Rank(E, e) BY <1>5, <2>1
  <2>3. e.number \in Nat /\ q[i].number \in Nat BY <2>2
  <2>4. ~ (q[i].number < e.number) /\ ~ (e.number < q[i].number)
    <3>1. ASSUME q[i].number < e.number PROVE FALSE
      <4>1. Rank(E, q[i]) < Rank(E, e) BY <2>2, <3>1, RankGrows
      <4> QED BY <2>1, <2>2, <4>1
    <3>2. ASSUME e.number < q[i].number PROVE FALSE
      <4>1. Rank(E, e) < Rank(E, q[i]) BY <2>2, <3>2, RankGrows
      <4> QED BY <2>1, <2>2, <4>1
    <3> QED BY <3>1, <3>2
  <2>5. q[i] = e BY <2>2, <2>3, <2>4
  <2> HIDE DEF i
  <2> QED BY <2>2, <2>5
<1> QED BY <1>1, <1>4, <1>6, <1>7 DEF q, n, Increasing

----------------------------------------------------------------------------
(* Snapshots as sequences, and what one is sent as.                        *)

Entity == [number : 1 .. MaxEntities + 1, state : Values \cup {Removed}]
Real == [number : Numbers, state : Values]
Given == [number : Numbers, state : Values \cup {Removed}]
World == Worlds \cup {<<>>}

\* A snapshot has states for numbers of entities.
LEMMA WorldIs ==
  ASSUME NEW w \in World
  PROVE  /\ w = [n \in DOMAIN w |-> w[n]]
         /\ DOMAIN w \in SUBSET Numbers
         /\ \A n \in DOMAIN w : w[n] \in Values
         /\ IsFiniteSet(DOMAIN w) /\ Cardinality(DOMAIN w) \in Nat
         /\ Cardinality(DOMAIN w) <= MaxEntities
         /\ \A n \in Numbers \ DOMAIN w : Cardinality(DOMAIN w) < MaxEntities
<1>1. /\ w = [n \in DOMAIN w |-> w[n]]
      /\ DOMAIN w \in SUBSET Numbers
      /\ \A n \in DOMAIN w : w[n] \in Values
  <2>1. CASE w = <<>> BY <2>1
  <2>2. CASE w \in Worlds
    <3>1. PICK S \in SUBSET (1 .. MaxEntities) : w \in [S -> Values] BY <2>2, SnapshotAssumption
    <3> QED BY <3>1 DEF Numbers
  <2> QED BY <2>1, <2>2 DEF World
<1>2. IsFiniteSet(Numbers) /\ Cardinality(Numbers) = MaxEntities BY Sizes, FS_Interval DEF Numbers
<1>3. /\ IsFiniteSet(DOMAIN w) /\ Cardinality(DOMAIN w) \in Nat
      /\ Cardinality(DOMAIN w) <= MaxEntities
      /\ Cardinality(DOMAIN w) = MaxEntities => DOMAIN w = Numbers
  BY <1>1, <1>2, FS_Subset, FS_CardinalityType
<1> QED BY <1>1, <1>3, Sizes

\* Sorted has its entities, by increasing numbers.
LEMMA SortedIs ==
  ASSUME NEW w \in World
  PROVE  /\ Sorted(w) \in Seq(Real)
         /\ Len(Sorted(w)) = Cardinality(DOMAIN w)
         /\ Increasing(Sorted(w))
         /\ \A i \in 1 .. Len(Sorted(w)) :
              Sorted(w)[i].number \in DOMAIN w /\ Sorted(w)[i].state = w[Sorted(w)[i].number]
         /\ \A n \in DOMAIN w : \E i \in 1 .. Len(Sorted(w)) :
              Sorted(w)[i] = [number |-> n, state |-> w[n]]
<1> DEFINE E == {[number |-> n, state |-> w[n]] : n \in DOMAIN w}
           of == [n \in DOMAIN w |-> [number |-> n, state |-> w[n]]]
<1>1. /\ DOMAIN w \in SUBSET Numbers /\ \A n \in DOMAIN w : w[n] \in Values
      /\ IsFiniteSet(DOMAIN w)
  BY WorldIs
<1>2. of \in Bijection(DOMAIN w, E)
  <2>1. of \in [DOMAIN w -> E] OBVIOUS
  <2>2. \A m, n \in DOMAIN w : of[m] = of[n] => m = n OBVIOUS
  <2>3. \A e \in E : \E n \in DOMAIN w : of[n] = e OBVIOUS
  <2> HIDE DEF of, E
  <2> QED BY <2>1, <2>2, <2>3 DEF Bijection, Injection, Surjection, IsInjective
<1>3. IsFiniteSet(E) /\ Cardinality(E) = Cardinality(DOMAIN w)
  <2> HIDE DEF of, E
  <2> QED BY <1>1, <1>2, FS_Bijection DEF ExistsBijection
<1>4. \A e \in E : /\ e \in Real /\ e.number \in Nat
                   /\ e.number \in DOMAIN w /\ e.state = w[e.number]
                   /\ e = [number |-> e.number, state |-> w[e.number]]
  BY <1>1 DEF Real, Numbers
<1>5. \A e, f \in E : e.number = f.number => e = f OBVIOUS
<1>6. Sorted(w) = InOrder(E) BY DEF Sorted
<1>7. \A n \in DOMAIN w : [number |-> n, state |-> w[n]] \in E OBVIOUS
<1> HIDE DEF E, of
<1>8. /\ InOrder(E) \in Seq(E) /\ Len(InOrder(E)) = Cardinality(E) /\ Increasing(InOrder(E))
      /\ \A e \in E : \E i \in 1 .. Len(InOrder(E)) : InOrder(E)[i] = e
  BY <1>3, <1>4, <1>5, InOrderIs
<1> DEFINE q == InOrder(E)
<1>9. \A i \in 1 .. Len(q) : q[i] \in E BY <1>8
<1>10. q \in Seq(Real) BY <1>4, <1>8, <1>9
<1>11. \A i \in 1 .. Len(q) : q[i].number \in DOMAIN w /\ q[i].state = w[q[i].number] BY <1>4, <1>9
<1>12. \A n \in DOMAIN w : \E i \in 1 .. Len(q) : q[i] = [number |-> n, state |-> w[n]]
  BY <1>7, <1>8
<1> HIDE DEF q
<1> QED BY <1>3, <1>6, <1>8, <1>10, <1>11, <1>12 DEF q

\* What is sent: of the new entities those that are not as they were, and that
\* the others are gone.
IsDelta(d, old, new) ==
  /\ d \in Seq(Given) /\ Increasing(d)
  /\ \A i \in 1 .. Len(d) :
       \/ d[i].state # Removed /\ \E t \in 1 .. Len(new) : new[t] = d[i]
       \/ d[i].state = Removed /\ \A t \in 1 .. Len(new) : new[t].number # d[i].number
  /\ \A t \in 1 .. Len(new) : \/ \E i \in 1 .. Len(d) : d[i] = new[t]
                              \/ \E j \in 1 .. Len(old) : old[j] = new[t]
  /\ \A j \in 1 .. Len(old) : \/ \E t \in 1 .. Len(new) : new[t] = old[j]
                              \/ \E i \in 1 .. Len(d) : d[i].number = old[j].number

\* What is sent is the delta from the old snapshot to the new one.
LEMMA EmitIs ==
  ASSUME NEW old, NEW new \in Seq(Real), Increasing(new)
  PROVE  /\ SV_EmitPacketEntities(old, new) \in Seq(Given)
         /\ old \in Seq(Real) /\ Increasing(old) => IsDelta(SV_EmitPacketEntities(old, new), old, new)
<1> DEFINE Has(s, n) == \E i \in 1 .. Len(s) : s[i].number = n
           Changed == {i \in 1 .. Len(new) : \A j \in 1 .. Len(old) : old[j] # new[i]}
           Gone == {n \in Numbers : Has(old, n) /\ ~ Has(new, n)}
           C == {new[i] : i \in Changed}
           G == {[number |-> n, state |-> Removed] : n \in Gone}
           E == C \cup G
           d == InOrder(E)
<1>1. SV_EmitPacketEntities(old, new) = d BY DEF SV_EmitPacketEntities
<1>2. Removed \notin Values /\ MaxEntities \in Nat BY Sizes
<1>3. \A i \in 1 .. Len(new) : new[i] \in Real /\ new[i].number \in Numbers /\ new[i].state # Removed
  <2> TAKE i \in 1 .. Len(new)
  <2>1. new[i] \in Real OBVIOUS
  <2> QED BY <1>2, <2>1 DEF Real
<1>4. \A e \in C : /\ e \in Given /\ e.state # Removed
                   /\ \E t \in 1 .. Len(new) : new[t] = e
  BY <1>3 DEF Real, Given
<1>5. \A e \in G : /\ e \in Given /\ e.state = Removed
                   /\ \A t \in 1 .. Len(new) : new[t].number # e.number
  BY DEF Given
<1>6. \A e \in E : e \in Given /\ e.number \in Nat BY <1>4, <1>5 DEF Given, Numbers
<1>7. \A e, f \in E : e.number = f.number => e = f
  <2> TAKE e, f \in E
  <2> HAVE e.number = f.number
  <2>1. CASE e \in C /\ f \in C
    <3>1. PICK x \in 1 .. Len(new), y \in 1 .. Len(new) : e = new[x] /\ f = new[y] BY <2>1
    <3>2. new[x].number = new[y].number /\ new[x].number \in Int BY <1>3, <3>1 DEF Numbers
    <3>3. ~ (x < y) /\ ~ (y < x) BY <3>2 DEF Increasing
    <3> QED BY <3>1, <3>3
  <2>2. CASE e \in G /\ f \in G BY <2>2
  <2>3. CASE e \in C /\ f \in G BY <1>4, <1>5, <2>3
  <2>4. CASE e \in G /\ f \in C BY <1>4, <1>5, <2>4
  <2> QED BY <2>1, <2>2, <2>3, <2>4
<1>8. IsFiniteSet(E)
  <2>1. IsFiniteSet(1 .. Len(new)) /\ IsFiniteSet(Numbers) BY <1>2, FS_Interval DEF Numbers
  <2>2. IsFiniteSet(Changed) /\ IsFiniteSet(Gone) BY <2>1, FS_Subset
  <2> DEFINE c == [i \in Changed |-> new[i]]
             g == [n \in Gone |-> [number |-> n, state |-> Removed]]
  <2>3. IsFiniteSet(C)
    <3>1. c \in [Changed -> C] /\ \A e \in C : \E i \in Changed : c[i] = e OBVIOUS
    <3> HIDE DEF c, C, Changed
    <3> QED BY <2>2, <3>1, FS_Surjection DEF Surjection
  <2>4. IsFiniteSet(G)
    <3>1. g \in [Gone -> G] /\ \A e \in G : \E n \in Gone : g[n] = e OBVIOUS
    <3> HIDE DEF g, G, Gone
    <3>2. g \in Surjection(Gone, G) BY <3>1 DEF Surjection
    <3> QED BY <2>2, <3>2, FS_Surjection
  <2> HIDE DEF C, G
  <2> QED BY <2>3, <2>4, FS_Union
<1>9. \A t \in 1 .. Len(new) : new[t] \in E \/ \E j \in 1 .. Len(old) : old[j] = new[t]
  OBVIOUS
<1>10. ASSUME old \in Seq(Real), Increasing(old)
       PROVE  \A j \in 1 .. Len(old) : \/ \E t \in 1 .. Len(new) : new[t] = old[j]
                                       \/ \E e \in E : e.number = old[j].number
  <2> TAKE j \in 1 .. Len(old)
  <2>1. old[j].number \in Numbers
    <3>1. old[j] \in Real BY <1>10
    <3> QED BY <3>1 DEF Real
  <2> DEFINE n == old[j].number
  <2>2. CASE Has(new, n)
    <3>1. PICK t \in 1 .. Len(new) : new[t].number = n BY <2>2
    <3>2. CASE t \in Changed BY <3>1, <3>2
    <3>3. CASE t \notin Changed
      <4>1. PICK k \in 1 .. Len(old) : old[k] = new[t] BY <3>3
      <4>2. old[k].number = old[j].number /\ n \in Int BY <2>1, <3>1, <4>1 DEF Numbers
      <4>3. ~ (k < j) /\ ~ (j < k) BY <1>10, <4>2 DEF Increasing
      <4>4. k = j BY <1>10, <4>3
      <4> QED BY <4>1, <4>4
    <3> QED BY <3>2, <3>3
  <2>3. CASE ~ Has(new, n)
    <3>1. n \in Gone BY <2>1, <2>3
    <3>2. [number |-> n, state |-> Removed] \in E BY <3>1
    <3> QED BY <3>2
  <2> QED BY <2>2, <2>3
<1> HIDE DEF Has, Changed, Gone
<1>11. \A e \in E : e \in C \/ e \in G OBVIOUS
<1> HIDE DEF C, G, E
<1>12. /\ d \in Seq(E) /\ Len(d) = Cardinality(E) /\ Increasing(d)
       /\ \A e \in E : \E i \in 1 .. Len(d) : d[i] = e
  BY <1>6, <1>7, <1>8, InOrderIs
<1> HIDE DEF d
<1>13. \A i \in 1 .. Len(d) : d[i] \in E BY <1>12
<1>14. d \in Seq(Given) BY <1>6, <1>12, <1>13
<1>15. \A i \in 1 .. Len(d) :
         \/ d[i].state # Removed /\ \E t \in 1 .. Len(new) : new[t] = d[i]
         \/ d[i].state = Removed /\ \A t \in 1 .. Len(new) : new[t].number # d[i].number
  BY <1>4, <1>5, <1>11, <1>13
<1>16. \A t \in 1 .. Len(new) : \/ \E i \in 1 .. Len(d) : d[i] = new[t]
                                \/ \E j \in 1 .. Len(old) : old[j] = new[t]
  BY <1>9, <1>12
<1>17. old \in Seq(Real) /\ Increasing(old) =>
         \A j \in 1 .. Len(old) : \/ \E t \in 1 .. Len(new) : new[t] = old[j]
                                \/ \E i \in 1 .. Len(d) : d[i].number = old[j].number
  BY <1>10, <1>12
<1> QED BY <1>1, <1>12, <1>14, <1>15, <1>16, <1>17 DEF IsDelta

----------------------------------------------------------------------------
(* CL_ParsePacketEntities, one entity after the other.                     *)

ClientRing == [0 .. MAX_PARSE_ENTITIES - 1 -> Entity]
Parsing == [ring : ClientRing, num : Nat, i : Nat \ {0}, j : Nat, oldNumber : 1 .. EndNumber]

\* What is read from a ring is an entity, and numbers end with EndNumber.
LEMMA NumbersType ==
  ASSUME NEW ring \in ClientRing, NEW old, old.first \in Nat, old.num \in Nat,
         NEW entities \in Seq(Entity), NEW j \in Nat, NEW i \in Nat \ {0}
  PROVE  /\ OldEntity(ring, old, j) \in Entity
         /\ OldNumber(ring, old, j) \in 1 .. EndNumber
         /\ NewNumber(entities, i) \in 1 .. EndNumber
         /\ NewNumber(entities, i) # EndNumber => i \in 1 .. Len(entities) /\ entities[i] \in Entity
<1>1. (old.first + j) % MAX_PARSE_ENTITIES \in 0 .. MAX_PARSE_ENTITIES - 1
  <2>1. old.first + j \in Int OBVIOUS
  <2> QED BY <2>1, Sizes, SlotType
<1>2. OldEntity(ring, old, j) \in Entity BY <1>1 DEF OldEntity, ClientRing
<1>3. \A e \in Entity : e.number \in 1 .. EndNumber BY Sizes DEF Entity, EndNumber
<1>4. EndNumber \in 1 .. EndNumber BY Sizes DEF EndNumber
<1>5. i \in 1 .. Len(entities) => entities[i] \in Entity OBVIOUS
<1> HIDE DEF Entity
<1>6. NewNumber(entities, i) = IF i > Len(entities) THEN EndNumber ELSE entities[i].number
  BY DEF NewNumber
<1>7. Len(entities) \in Nat OBVIOUS
<1>8. OldNumber(ring, old, j) \in 1 .. EndNumber BY <1>2, <1>3, <1>4 DEF OldNumber
<1>9. NewNumber(entities, i) \in 1 .. EndNumber BY <1>3, <1>4, <1>5, <1>6, <1>7
<1>10. NewNumber(entities, i) # EndNumber => i \in 1 .. Len(entities) /\ entities[i] \in Entity
  BY <1>5, <1>6, <1>7
<1> QED BY <1>2, <1>8, <1>9, <1>10

\* An entity is put at the end of the frame.
LEMMA DeltaIs ==
  ASSUME NEW s \in Parsing, NEW next \in Nat, NEW e \in Entity
  PROVE  LET t == CL_DeltaEntity(s, next, e)
         IN  /\ t \in Parsing
             /\ t.ring = [s.ring EXCEPT ![(next + s.num) % MAX_PARSE_ENTITIES] = e]
             /\ t.num = IF e.state = Removed THEN s.num ELSE s.num + 1
             /\ t.i = s.i /\ t.j = s.j /\ t.oldNumber = s.oldNumber
<1> DEFINE r == [s.ring EXCEPT ![(next + s.num) % MAX_PARSE_ENTITIES] = e]
           n == IF e.state = Removed THEN s.num ELSE s.num + 1
<1>1. s.ring \in ClientRing /\ s.num \in Nat /\ s.i \in Nat \ {0} /\ s.j \in Nat
      /\ s.oldNumber \in 1 .. EndNumber
  BY DEF Parsing
<1>2. r \in ClientRing BY <1>1 DEF ClientRing
<1>3. n \in Nat BY <1>1
<1>4. CL_DeltaEntity(s, next, e) = [s EXCEPT !.ring = r, !.num = n] BY DEF CL_DeltaEntity, Parsing
<1> HIDE DEF r, n
<1>5. CL_DeltaEntity(s, next, e) = [ring |-> r, num |-> n, i |-> s.i, j |-> s.j, oldNumber |-> s.oldNumber]
  BY <1>4 DEF Parsing
<1> QED BY <1>1, <1>2, <1>3, <1>5 DEF Parsing, r, n

\* What a step does: an entity of the old frame, of the message or of both is
\* put into the ring.
Puts(s, t, next, old, e) ==
  /\ e \in Entity
  /\ t.ring = [s.ring EXCEPT ![(next + s.num) % MAX_PARSE_ENTITIES] = e]
  /\ t.num = IF e.state = Removed THEN s.num ELSE s.num + 1

\* One turn of CL_ParsePacketEntities takes the old entity, the new one, or both.
LEMMA ParseEntityIs ==
  ASSUME NEW s \in Parsing, NEW next \in Nat, NEW old, old.first \in Nat, old.num \in Nat,
         NEW entities \in Seq(Entity)
  PROVE  LET t   == ParseEntity(s, next, old, entities)
             new == NewNumber(entities, s.i)
         IN  /\ t \in Parsing
             /\ \/ /\ s.oldNumber < new
                   /\ Puts(s, t, next, old, OldEntity(s.ring, old, s.j))
                   /\ t.i = s.i /\ t.j = s.j + 1
                   /\ t.oldNumber = OldNumber(t.ring, old, t.j)
                \/ /\ s.oldNumber > new /\ s.i \in 1 .. Len(entities)
                   /\ Puts(s, t, next, old, entities[s.i])
                   /\ t.i = s.i + 1 /\ t.j = s.j /\ t.oldNumber = s.oldNumber
                \/ /\ s.oldNumber = new /\ new # EndNumber /\ s.i \in 1 .. Len(entities)
                   /\ Puts(s, t, next, old, entities[s.i])
                   /\ t.i = s.i + 1 /\ t.j = s.j + 1
                   /\ t.oldNumber = OldNumber(t.ring, old, t.j)
                \/ s.oldNumber = new /\ new = EndNumber /\ t = s
<1> DEFINE t == ParseEntity(s, next, old, entities)
           new == NewNumber(entities, s.i)
           a == OldEntity(s.ring, old, s.j)
           b == entities[s.i]
           A == CL_DeltaEntity(s, next, a)
           B == CL_DeltaEntity(s, next, b)
           C == [B EXCEPT !.i = @ + 1]
<1>1. s.ring \in ClientRing /\ s.num \in Nat /\ s.i \in Nat \ {0} /\ s.j \in Nat
      /\ s.oldNumber \in 1 .. EndNumber /\ EndNumber \in Nat
  BY Sizes DEF Parsing, EndNumber
<1>2. /\ a \in Entity /\ new \in 1 .. EndNumber
      /\ new # EndNumber => s.i \in 1 .. Len(entities) /\ b \in Entity
  BY <1>1, NumbersType
<1>3. \A u \in Parsing : /\ OldNumber(u.ring, old, u.j + 1) \in 1 .. EndNumber
                         /\ NextOld(u, old) \in Parsing
                         /\ NextOld(u, old).ring = u.ring /\ NextOld(u, old).num = u.num
                         /\ NextOld(u, old).i = u.i /\ NextOld(u, old).j = u.j + 1
                         /\ NextOld(u, old).oldNumber = OldNumber(u.ring, old, u.j + 1)
  <2> TAKE u \in Parsing
  <2>1. u.ring \in ClientRing /\ u.j \in Nat /\ u.j + 1 \in Nat BY DEF Parsing
  <2>2. OldNumber(u.ring, old, u.j + 1) \in 1 .. EndNumber
    <3> DEFINE k == u.j + 1
    <3>1. k \in Nat BY <2>1
    <3> HIDE DEF k
    <3>2. OldNumber(u.ring, old, k) \in 1 .. EndNumber BY <1>1, <2>1, <3>1, NumbersType
    <3> QED BY <3>2 DEF k
  <2> DEFINE n == OldNumber(u.ring, old, u.j + 1)
  <2>3. NextOld(u, old) = [u EXCEPT !.j = @ + 1, !.oldNumber = n] BY DEF NextOld
  <2>4. n \in 1 .. EndNumber BY <2>2
  <2> HIDE DEF n
  <2>5. NextOld(u, old) = [ring |-> u.ring, num |-> u.num, i |-> u.i, j |-> u.j + 1, oldNumber |-> n]
    BY <2>3 DEF Parsing
  <2>6. /\ NextOld(u, old) \in Parsing
        /\ NextOld(u, old).ring = u.ring /\ NextOld(u, old).num = u.num
        /\ NextOld(u, old).i = u.i /\ NextOld(u, old).j = u.j + 1
        /\ NextOld(u, old).oldNumber = n
    BY <2>4, <2>5 DEF Parsing
  <2> QED BY <2>2, <2>6 DEF n
<1>4. t = CASE s.oldNumber < new -> NextOld(A, old)
            [] s.oldNumber > new -> C
            [] s.oldNumber = new -> IF new = EndNumber THEN s ELSE NextOld(C, old)
  BY DEF ParseEntity
<1>5. /\ A \in Parsing
      /\ A.ring = [s.ring EXCEPT ![(next + s.num) % MAX_PARSE_ENTITIES] = a]
      /\ A.num = IF a.state = Removed THEN s.num ELSE s.num + 1
      /\ A.i = s.i /\ A.j = s.j /\ A.oldNumber = s.oldNumber
  BY <1>2, DeltaIs
<1>6. ASSUME new # EndNumber
      PROVE  /\ C \in Parsing
             /\ C.ring = [s.ring EXCEPT ![(next + s.num) % MAX_PARSE_ENTITIES] = b]
             /\ C.num = IF b.state = Removed THEN s.num ELSE s.num + 1
             /\ C.i = s.i + 1 /\ C.j = s.j /\ C.oldNumber = s.oldNumber
  <2>1. /\ B \in Parsing
        /\ B.ring = [s.ring EXCEPT ![(next + s.num) % MAX_PARSE_ENTITIES] = b]
        /\ B.num = IF b.state = Removed THEN s.num ELSE s.num + 1
        /\ B.i = s.i /\ B.j = s.j /\ B.oldNumber = s.oldNumber
    BY <1>2, <1>6, DeltaIs
  <2> HIDE DEF B, b
  <2>2. /\ C \in Parsing /\ C.ring = B.ring /\ C.num = B.num
        /\ C.i = B.i + 1 /\ C.j = B.j /\ C.oldNumber = B.oldNumber
    BY <2>1 DEF Parsing
  <2> QED BY <2>1, <2>2
<1> HIDE DEF t, new, a, b, A, B, C
<1>7. CASE s.oldNumber < new
  <2>1. t = NextOld(A, old) BY <1>1, <1>2, <1>4, <1>7
  <2>2. /\ t \in Parsing /\ t.ring = A.ring /\ t.num = A.num /\ t.i = A.i /\ t.j = A.j + 1
        /\ t.oldNumber = OldNumber(A.ring, old, A.j + 1)
    BY <1>3, <1>5, <2>1
  <2>3. Puts(s, t, next, old, a) BY <1>2, <1>5, <2>2 DEF Puts
  <2> QED BY <1>5, <1>7, <2>2, <2>3 DEF t, new, a
<1>8. CASE s.oldNumber > new
  <2>1. t = C /\ new # EndNumber BY <1>1, <1>2, <1>4, <1>8
  <2>2. Puts(s, t, next, old, b) BY <1>2, <1>6, <2>1 DEF Puts
  <2> QED BY <1>2, <1>6, <1>8, <2>1, <2>2 DEF t, new, b
<1>9. CASE s.oldNumber = new /\ new = EndNumber
  <2>1. t = s BY <1>1, <1>2, <1>4, <1>9
  <2> QED BY <1>9, <2>1 DEF t, new
<1>10. CASE s.oldNumber = new /\ new # EndNumber
  <2>1. t = NextOld(C, old) BY <1>1, <1>2, <1>4, <1>10
  <2>2. /\ t \in Parsing /\ t.ring = C.ring /\ t.num = C.num /\ t.i = C.i /\ t.j = C.j + 1
        /\ t.oldNumber = OldNumber(C.ring, old, C.j + 1)
    BY <1>3, <1>6, <1>10, <2>1
  <2>3. Puts(s, t, next, old, b) BY <1>2, <1>6, <1>10, <2>2 DEF Puts
  <2> QED BY <1>2, <1>6, <1>10, <2>2, <2>3 DEF t, new, b
<1> QED BY <1>1, <1>2, <1>7, <1>8, <1>9, <1>10

\* The steps follow one another as the recursive function says.
Start(ring, old) ==
  [ring |-> ring, num |-> 0, i |-> 1, j |-> 0, oldNumber |-> OldNumber(ring, old, 0)]

Runs(after, ring, next, old, entities) ==
  /\ after \in [Nat -> Parsing]
  /\ after[0] = Start(ring, old)
  /\ \A k \in Nat : after[k + 1] = ParseEntity(after[k], next, old, entities)
  /\ CL_ParsePacketEntities(ring, next, old, entities) = after[old.num + Len(entities)]

\* CL_ParsePacketEntities is the last of its turns.
LEMMA ParseRuns ==
  ASSUME NEW ring \in ClientRing, NEW next \in Nat, NEW old, old.first \in Nat, old.num \in Nat,
         NEW entities \in Seq(Entity)
  PROVE  \E after : Runs(after, ring, next, old, entities)
<1> DEFINE step == [p \in Nat \X Parsing |-> ParseEntity(p[2], next, old, entities)]
           after == CHOOSE after : after = [k \in Nat |-> IF k = 0 THEN Start(ring, old)
                       ELSE ParseEntity(after[k - 1], next, old, entities)]
<1>1. Start(ring, old) \in Parsing
  <2>1. OldNumber(ring, old, 0) \in 1 .. EndNumber BY NumbersType
  <2> QED BY <2>1 DEF Start, Parsing
<1>2. \A s \in Parsing : ParseEntity(s, next, old, entities) \in Parsing BY ParseEntityIs
<1>3. step \in [Nat \X Parsing -> Parsing] BY <1>2
<1>4. PICK f : Repetition(f, Parsing, Start(ring, old), step)
  <2> HIDE DEF step
  <2> QED BY <1>1, <1>3, Repeats
<1>5. f \in [Nat -> Parsing] /\ f = [k \in Nat |-> f[k]] BY <1>4 DEF Repetition
<1>6. ASSUME NEW k \in Nat
      PROVE  f[k] = IF k = 0 THEN Start(ring, old) ELSE ParseEntity(f[k - 1], next, old, entities)
  <2>1. CASE k = 0 BY <1>4, <2>1 DEF Repetition
  <2>2. CASE k # 0
    <3>1. k - 1 \in Nat /\ f[k - 1] \in Parsing /\ (k - 1) + 1 = k BY <1>5, <2>2
    <3>2. step[<<k - 1, f[k - 1]>>] = ParseEntity(f[k - 1], next, old, entities) BY <3>1
    <3> HIDE DEF step
    <3>3. f[k] = step[<<k - 1, f[k - 1]>>] BY <1>4, <3>1 DEF Repetition
    <3> QED BY <2>2, <3>2, <3>3
  <2> QED BY <2>1, <2>2
<1>7. f = [k \in Nat |-> IF k = 0 THEN Start(ring, old)
                         ELSE ParseEntity(f[k - 1], next, old, entities)]
  BY <1>5, <1>6
<1>8. after = [k \in Nat |-> IF k = 0 THEN Start(ring, old)
                             ELSE ParseEntity(after[k - 1], next, old, entities)]
  BY <1>7
<1>9. CL_ParsePacketEntities(ring, next, old, entities) = after[old.num + Len(entities)]
  BY DEF CL_ParsePacketEntities, Start
<1> HIDE DEF after
<1>10. after[0] = Start(ring, old) BY <1>8
<1>11. ASSUME NEW k \in Nat PROVE after[k + 1] = ParseEntity(after[k], next, old, entities)
  <2>1. k + 1 \in Nat /\ k + 1 # 0 /\ (k + 1) - 1 = k OBVIOUS
  <2> QED BY <1>8, <2>1
<1>12. \A k \in Nat : after[k] \in Parsing
  <2> DEFINE S == {k \in Nat : after[k] \notin Parsing}
  <2> SUFFICES ASSUME S # {} PROVE FALSE OBVIOUS
  <2>1. PICK k \in S : \A i \in S : k <= i BY LeastExists
  <2>2. k \in Nat /\ k # 0 /\ after[k] \notin Parsing BY <1>1, <1>10
  <2>3. k - 1 \in Nat /\ k - 1 \notin S /\ (k - 1) + 1 = k BY <2>1, <2>2
  <2>4. after[k - 1] \in Parsing BY <2>3
  <2>5. after[k] = ParseEntity(after[k - 1], next, old, entities) BY <1>11, <2>3
  <2> QED BY <1>2, <2>2, <2>4, <2>5
<1>13. after \in [Nat -> Parsing] BY <1>8, <1>12
<1> QED BY <1>9, <1>10, <1>11, <1>13 DEF Runs

\* So whatever the message has, a frame of entities comes of it.
LEMMA ParseType ==
  ASSUME NEW ring \in ClientRing, NEW next \in Nat, NEW old, old.first \in Nat, old.num \in Nat,
         NEW entities \in Seq(Entity)
  PROVE  CL_ParsePacketEntities(ring, next, old, entities) \in Parsing
<1>1. PICK after : Runs(after, ring, next, old, entities) BY ParseRuns
<1>2. old.num + Len(entities) \in Nat OBVIOUS
<1> QED BY <1>1, <1>2 DEF Runs

----------------------------------------------------------------------------
(* What comes of it: the old snapshot o and the message d give the new one q.*)

Fits == MaxEntities <= PARSE_MARGIN

\* The slots from next on, those of the first num entities and one more, apart,
\* the ring is as it was.
Untouched(now, ring, next, num) ==
  \A x \in 0 .. MAX_PARSE_ENTITIES - 1 :
    (\A t \in 0 .. num : t < MaxEntities => x # (next + t) % MAX_PARSE_ENTITIES) => now[x] = ring[x]

\* The entities q[1] .. q[num] are in the ring from next on.
Written(now, next, q, num) ==
  \A x \in 1 .. num : now[(next + x - 1) % MAX_PARSE_ENTITIES] = q[x]

\* The old frame is in the ring and stays there when a snapshot is put behind it.
Readable(ring, next, old, o) ==
  /\ old.first \in Nat /\ old.num \in Nat /\ old.num = Len(o)
  /\ \A x \in 1 .. Len(o) : ring[(old.first + (x - 1)) % MAX_PARSE_ENTITIES] = o[x]
  /\ Len(o) > 0 => /\ old.first + old.num <= next
                   /\ next - old.first + MaxEntities <= MAX_PARSE_ENTITIES

PutAt(then, now, x, e) == then = [now EXCEPT ![x % MAX_PARSE_ENTITIES] = e]

\* An entity is put behind those that are there.
LEMMA RingPut ==
  ASSUME NEW now \in ClientRing, NEW ring \in ClientRing, NEW next \in Nat, NEW q, NEW num \in Nat, NEW e,
         NEW then, PutAt(then, now, next + num, e),
         num < MaxEntities, MaxEntities <= MAX_PARSE_ENTITIES,
         Untouched(now, ring, next, num), Written(now, next, q, num)
  PROVE  /\ Untouched(then, ring, next, num) /\ Untouched(then, ring, next, num + 1)
         /\ Written(then, next, q, num)
         /\ e = q[num + 1] => Written(then, next, q, num + 1)
<1> DEFINE M == MAX_PARSE_ENTITIES
           slot == (next + num) % M
<1>1. M \in Nat \ {0} /\ MaxEntities \in Nat BY Sizes
<1>2. next + num \in Int /\ slot \in 0 .. M - 1 BY <1>1, SlotType
<1>3. then[slot] = e /\ \A x \in 0 .. M - 1 : x # slot => then[x] = now[x] BY <1>2 DEF ClientRing, PutAt
<1> HIDE DEF slot
<1>4. Untouched(then, ring, next, num)
  <2> SUFFICES ASSUME NEW x \in 0 .. M - 1, \A t \in 0 .. num : t < MaxEntities => x # (next + t) % M
               PROVE  then[x] = ring[x]
    BY DEF Untouched
  <2>1. now[x] = ring[x] BY DEF Untouched
  <2>2. num \in 0 .. num OBVIOUS
  <2>3. x # slot BY <2>2 DEF slot
  <2> QED BY <1>3, <2>1, <2>3
<1>5. Untouched(then, ring, next, num + 1)
  <2> SUFFICES ASSUME NEW x \in 0 .. M - 1, \A t \in 0 .. num + 1 : t < MaxEntities => x # (next + t) % M
               PROVE  then[x] = ring[x]
    BY DEF Untouched
  <2>1. \A t \in 0 .. num : t \in 0 .. num + 1 OBVIOUS
  <2> QED BY <1>4, <2>1 DEF Untouched
<1>6. \A x \in 1 .. num : (next + x - 1) % M \in 0 .. M - 1 /\ (next + x - 1) % M # slot
  <2> TAKE x \in 1 .. num
  <2>1. next + x - 1 \in Int /\ next + num \in Int /\ next + x - 1 < next + num
        /\ (next + num) - (next + x - 1) < M
    BY <1>1
  <2> QED BY <1>1, <2>1, SlotsApart, SlotType DEF slot
<1>7. Written(then, next, q, num) BY <1>3, <1>6 DEF Written
<1>8. ASSUME e = q[num + 1] PROVE Written(then, next, q, num + 1)
  <2> SUFFICES ASSUME NEW x \in 1 .. num + 1 PROVE then[(next + x - 1) % M] = q[x] BY DEF Written
  <2>1. CASE x = num + 1
    <3>1. next + x - 1 = next + num BY <2>1
    <3> QED BY <1>3, <1>8, <2>1, <3>1 DEF slot
  <2>2. CASE x # num + 1
    <3>1. x \in 1 .. num BY <2>2
    <3> QED BY <1>7, <3>1 DEF Written
  <2> QED BY <2>1, <2>2
<1> QED BY <1>4, <1>5, <1>7, <1>8

\* The old frame is read as it was.
LEMMA OldRead ==
  ASSUME NEW now \in ClientRing, NEW ring \in ClientRing, NEW next \in Nat, NEW old, NEW o \in Seq(Real),
         NEW num \in Nat, Readable(ring, next, old, o), Untouched(now, ring, next, num)
  PROVE  /\ \A j \in 0 .. Len(o) - 1 : OldEntity(now, old, j) = o[j + 1]
         /\ \A j \in 0 .. Len(o) :
              OldNumber(now, old, j) = IF j = Len(o) THEN EndNumber ELSE o[j + 1].number
<1> DEFINE M == MAX_PARSE_ENTITIES
<1>1. M \in Nat \ {0} /\ MaxEntities \in Nat BY Sizes
<1>2. Len(o) \in Nat OBVIOUS
<1>3. old.first \in Nat /\ old.num = Len(o) BY DEF Readable
<1>4. ASSUME NEW j \in 0 .. Len(o) - 1 PROVE OldEntity(now, old, j) = o[j + 1]
  <2>1. /\ j \in Nat /\ j + 1 \in 1 .. Len(o) /\ (j + 1) - 1 = j
        /\ old.first + Len(o) <= next /\ next - old.first + MaxEntities <= M
    BY <1>2, <1>3 DEF Readable
  <2> DEFINE x == (old.first + j) % M
  <2>2. x \in 0 .. M - 1
    <3>1. old.first + j \in Int BY <1>3, <2>1
    <3> QED BY <1>1, <3>1, SlotType
  <2>3. ASSUME NEW t \in 0 .. num, t < MaxEntities PROVE x # (next + t) % M
    <3>1. old.first + j \in Int /\ next + t \in Int /\ old.first + j < next + t
          /\ (next + t) - (old.first + j) < M
      <4> DEFINE f == old.first
                 l == Len(o)
      <4>1. f \in Nat /\ l \in Nat /\ next \in Nat /\ MaxEntities \in Nat /\ M \in Nat
        BY <1>1, <1>2, <1>3
      <4>2. j \in Nat /\ j <= l - 1 /\ f + l <= next /\ next - f + MaxEntities <= M BY <1>2, <2>1
      <4>3. t \in Nat /\ t < MaxEntities BY <2>3
      <4> HIDE DEF f, l, M
      <4>4. f + j \in Int /\ next + t \in Int /\ f + j < next + t /\ (next + t) - (f + j) < M
        BY <4>1, <4>2, <4>3
      <4> QED BY <4>4 DEF f
    <3> QED BY <1>1, <3>1, SlotsApart
  <2>4. now[x] = ring[x] BY <2>2, <2>3 DEF Untouched
  <2>5. ring[(old.first + ((j + 1) - 1)) % M] = o[j + 1] BY <2>1 DEF Readable
  <2> HIDE DEF x
  <2> QED BY <2>1, <2>4, <2>5 DEF OldEntity, x
<1>5. ASSUME NEW j \in 0 .. Len(o)
      PROVE  OldNumber(now, old, j) = IF j = Len(o) THEN EndNumber ELSE o[j + 1].number
  <2>1. CASE j = Len(o) BY <1>2, <1>3, <2>1 DEF OldNumber
  <2>2. CASE j # Len(o)
    <3>1. j \in 0 .. Len(o) - 1 /\ ~ (j >= old.num) BY <1>2, <1>3, <2>2
    <3> QED BY <1>4, <2>2, <3>1 DEF OldNumber
  <2> QED BY <2>1, <2>2
<1> QED BY <1>4, <1>5

\* The least number that is next in the old frame or the message.
Least(s, d) ==
  IF s.oldNumber < NewNumber(d, s.i) THEN s.oldNumber ELSE NewNumber(d, s.i)

\* After k steps: everything with a number less than that is done, and nothing else.
MergedTo(s, k, ring, next, o, d, q) ==
  /\ s.j <= Len(o) /\ s.i <= Len(d) + 1 /\ s.num <= Len(q)
  /\ s.oldNumber = IF s.j = Len(o) THEN EndNumber ELSE o[s.j + 1].number
  /\ \A x \in 1 .. s.j : o[x].number < Least(s, d)
  /\ \A x \in 1 .. s.i - 1 : d[x].number < Least(s, d)
  /\ \A x \in 1 .. s.num : q[x].number < Least(s, d)
  /\ \A x \in s.num + 1 .. Len(q) : q[x].number >= Least(s, d)
  /\ Written(s.ring, next, q, s.num)
  /\ Untouched(s.ring, ring, next, s.num)
  /\ Least(s, d) = EndNumber \/ s.i - 1 + s.j >= k

Mergeable(ring, next, old, o, d, q) ==
  /\ ring \in ClientRing /\ next \in Nat
  /\ o \in Seq(Real) /\ q \in Seq(Real) /\ d \in Seq(Given)
  /\ Increasing(o) /\ Increasing(q) /\ Increasing(d) /\ IsDelta(d, o, q)
  /\ Readable(ring, next, old, o)
  /\ MaxEntities <= MAX_PARSE_ENTITIES
  /\ Len(q) <= MaxEntities
  /\ \A n \in Numbers : (\A x \in 1 .. Len(q) : q[x].number # n) => Len(q) < MaxEntities

\* The numbers in a sequence of entities.
LEMMA SeqNumbers ==
  ASSUME NEW s, s \in Seq(Real) \/ s \in Seq(Given)
  PROVE  /\ s \in Seq(Entity) /\ Len(s) \in Nat
         /\ \A x \in 1 .. Len(s) : /\ s[x] \in Entity /\ s[x].number \in Numbers /\ s[x].number \in Nat
                                   /\ s[x].number < EndNumber
<1>1. \A e \in Given : /\ e \in Entity /\ e.number \in Numbers /\ e.number \in Nat
                       /\ e.number < EndNumber
  BY Sizes DEF Given, Entity, EndNumber, Numbers
<1>2. Real \subseteq Given BY DEF Real, Given
<1>3. Given \subseteq Entity BY <1>1
<1> HIDE DEF Real, Given, Entity
<1>4. s \in Seq(Given) BY <1>2
<1>5. \A x \in 1 .. Len(s) : s[x] \in Given BY <1>4
<1>6. s \in Seq(Entity) BY <1>3, <1>4
<1> QED BY <1>1, <1>4, <1>5, <1>6

\* The entity put is the next of the new snapshot or one that is gone, and what
\* has been put are those up to its number.
LEMMA PutNext ==
  ASSUME NEW s \in Parsing, NEW t \in Parsing, NEW k, NEW ring, NEW next, NEW old, NEW o, NEW d, NEW q, NEW e,
         Mergeable(ring, next, old, o, d, q), MergedTo(s, k, ring, next, o, d, q),
         Puts(s, t, next, old, e), Least(s, d) = e.number, e.number \in Numbers,
         \/ e.state # Removed /\ \E x \in 1 .. Len(q) : q[x] = e
         \/ e.state = Removed /\ \A x \in 1 .. Len(q) : q[x].number # e.number
  PROVE  /\ t.num <= Len(q)
         /\ \A x \in 1 .. t.num : q[x].number <= e.number
         /\ \A x \in t.num + 1 .. Len(q) : q[x].number > e.number
         /\ Written(t.ring, next, q, t.num)
         /\ Untouched(t.ring, ring, next, t.num)
<1> DEFINE n == e.number
<1>1. /\ n \in Nat /\ MaxEntities \in Nat /\ s.num \in Nat /\ s.ring \in ClientRing /\ Len(q) \in Nat
      /\ next \in Nat /\ ring \in ClientRing
  <2>1. n \in Nat /\ MaxEntities \in Nat BY Sizes DEF Numbers
  <2>2. s.num \in Nat /\ s.ring \in ClientRing BY DEF Parsing
  <2>3. q \in Seq(Real) /\ next \in Nat /\ ring \in ClientRing BY DEF Mergeable
  <2>4. Len(q) \in Nat BY <2>3
  <2> QED BY <2>1, <2>2, <2>3, <2>4
<1>2. \A x \in 1 .. Len(q) : q[x].number \in Nat BY SeqNumbers DEF Mergeable
<1>3. /\ s.num <= Len(q)
      /\ \A x \in 1 .. s.num : q[x].number < n
      /\ \A x \in s.num + 1 .. Len(q) : q[x].number >= n
  BY DEF MergedTo
<1>4. Written(s.ring, next, q, s.num) /\ Untouched(s.ring, ring, next, s.num) BY DEF MergedTo
<1>5. CASE e.state # Removed /\ \E x \in 1 .. Len(q) : q[x] = e
  <2>1. PICK y \in 1 .. Len(q) : q[y] = e BY <1>5
  <2>2. y \in Nat /\ y <= Len(q) /\ ~ (y <= s.num) BY <1>1, <1>3, <2>1
  <2>3. y = s.num + 1
    <3> SUFFICES ASSUME y > s.num + 1 PROVE FALSE BY <1>1, <2>2
    <3>1. s.num + 1 \in 1 .. Len(q) /\ s.num + 1 \in s.num + 1 .. Len(q) BY <1>1, <2>2
    <3>2. q[s.num + 1].number < q[y].number BY <2>1, <3>1 DEF Increasing, Mergeable
    <3>3. q[s.num + 1].number >= n /\ q[s.num + 1].number \in Nat BY <1>2, <1>3, <3>1
    <3> QED BY <1>1, <2>1, <3>2, <3>3
  <2>4. t.num = s.num + 1 /\ t.ring = [s.ring EXCEPT ![(next + s.num) % MAX_PARSE_ENTITIES] = e]
    BY <1>5 DEF Puts
  <2>5. s.num + 1 <= Len(q) /\ s.num < MaxEntities /\ MaxEntities <= MAX_PARSE_ENTITIES
    BY <1>1, <2>2, <2>3 DEF Mergeable
  <2>6. Written(t.ring, next, q, t.num) /\ Untouched(t.ring, ring, next, t.num)
    <3> DEFINE now == s.ring
               then == t.ring
               num == s.num
    <3>1. /\ now \in ClientRing /\ num \in Nat /\ Untouched(now, ring, next, num) /\ Written(now, next, q, num)
          /\ PutAt(then, now, next + num, e) /\ num < MaxEntities
          /\ e = q[num + 1]
      BY <1>1, <1>4, <2>1, <2>3, <2>4, <2>5 DEF PutAt
    <3> HIDE DEF now, then, num
    <3>2. Written(then, next, q, num + 1) /\ Untouched(then, ring, next, num + 1)
      BY <1>1, <2>5, <3>1, RingPut
    <3> QED BY <2>4, <3>2 DEF then, num
  <2>7. ASSUME NEW x \in 1 .. t.num PROVE q[x].number <= n
    <3>1. x = s.num + 1 \/ x \in 1 .. s.num BY <1>1, <2>4
    <3>2. x \in 1 .. Len(q) BY <1>1, <2>4, <2>5
    <3> QED BY <1>1, <1>2, <1>3, <2>1, <2>3, <3>1, <3>2
  <2>8. ASSUME NEW x \in t.num + 1 .. Len(q) PROVE q[x].number > n
    <3>1. x \in 1 .. Len(q) /\ y < x BY <1>1, <2>3, <2>4
    <3>2. q[y].number < q[x].number BY <3>1 DEF Increasing, Mergeable
    <3> QED BY <1>1, <1>2, <2>1, <3>1, <3>2
  <2> QED BY <2>4, <2>5, <2>6, <2>7, <2>8
<1>6. CASE e.state = Removed /\ \A x \in 1 .. Len(q) : q[x].number # e.number
  <2>1. Len(q) < MaxEntities /\ MaxEntities <= MAX_PARSE_ENTITIES BY <1>6 DEF Mergeable
  <2>2. t.num = s.num /\ t.ring = [s.ring EXCEPT ![(next + s.num) % MAX_PARSE_ENTITIES] = e]
    BY <1>6 DEF Puts
  <2>3. Written(t.ring, next, q, t.num) /\ Untouched(t.ring, ring, next, t.num)
    <3> DEFINE now == s.ring
               then == t.ring
               num == s.num
    <3>1. /\ now \in ClientRing /\ num \in Nat /\ Untouched(now, ring, next, num) /\ Written(now, next, q, num)
          /\ PutAt(then, now, next + num, e) /\ num < MaxEntities
      BY <1>1, <1>3, <1>4, <2>1, <2>2 DEF PutAt
    <3> HIDE DEF now, then, num
    <3>2. Written(then, next, q, num) /\ Untouched(then, ring, next, num)
      BY <1>1, <2>1, <3>1, RingPut
    <3> QED BY <2>2, <3>2 DEF then, num
  <2>4. ASSUME NEW x \in 1 .. t.num PROVE q[x].number <= n
    <3>1. x \in 1 .. s.num /\ x \in 1 .. Len(q) BY <1>1, <1>3, <2>2
    <3> QED BY <1>1, <1>2, <1>3, <3>1
  <2>5. ASSUME NEW x \in t.num + 1 .. Len(q) PROVE q[x].number > n
    <3>1. x \in s.num + 1 .. Len(q) /\ x \in 1 .. Len(q) BY <1>1, <2>2
    <3>2. q[x].number >= n /\ q[x].number # n /\ q[x].number \in Nat BY <1>2, <1>3, <1>6, <3>1
    <3> QED BY <1>1, <3>2
  <2> QED BY <1>3, <2>2, <2>3, <2>4, <2>5
<1> QED BY <1>5, <1>6

\* What is left has greater numbers than what is done.
Divided(s, n, next, ring, o, d, q) ==
  /\ s.j <= Len(o) /\ s.i <= Len(d) + 1 /\ s.num <= Len(q)
  /\ s.oldNumber = IF s.j = Len(o) THEN EndNumber ELSE o[s.j + 1].number
  /\ \A x \in 1 .. s.j : o[x].number <= n
  /\ \A x \in s.j + 1 .. Len(o) : o[x].number > n
  /\ \A x \in 1 .. s.i - 1 : d[x].number <= n
  /\ \A x \in s.i .. Len(d) : d[x].number > n
  /\ \A x \in 1 .. s.num : q[x].number <= n
  /\ \A x \in s.num + 1 .. Len(q) : q[x].number > n
  /\ Written(s.ring, next, q, s.num)
  /\ Untouched(s.ring, ring, next, s.num)

\* One further on has a greater number.
LEMMA Further ==
  ASSUME NEW s, Increasing(s), Len(s) \in Nat, \A x \in 1 .. Len(s) : s[x].number \in Nat,
         NEW x \in 1 .. Len(s), NEW y \in 1 .. Len(s), x <= y
  PROVE  s[x].number <= s[y].number /\ (x # y => s[x].number < s[y].number)
<1>1. CASE x = y BY <1>1
<1>2. CASE x # y
  <2>1. x < y BY <1>2
  <2>2. s[x].number < s[y].number BY <2>1 DEF Increasing
  <2> QED BY <1>2, <2>2
<1> QED BY <1>1, <1>2

\* If all with a number less than that are done, and no other, so it is after k turns.
LEMMA MergeRest ==
  ASSUME NEW s \in Parsing, NEW n \in Nat, n < EndNumber, NEW k,
         NEW ring, NEW next, NEW old, NEW o, NEW d, NEW q,
         Mergeable(ring, next, old, o, d, q), Divided(s, n, next, ring, o, d, q), s.i - 1 + s.j >= k
  PROVE  MergedTo(s, k, ring, next, o, d, q)
<1> DEFINE m == Least(s, d)
           new == NewNumber(d, s.i)
<1>1. s.j \in Nat /\ s.i \in Nat \ {0} /\ s.num \in Nat /\ s.oldNumber \in Nat BY DEF Parsing
<1>2. /\ Len(o) \in Nat /\ Len(d) \in Nat /\ Len(q) \in Nat /\ EndNumber \in Nat
      /\ \A x \in 1 .. Len(o) : o[x].number \in Nat
      /\ \A x \in 1 .. Len(d) : d[x].number \in Nat
      /\ \A x \in 1 .. Len(q) : q[x].number \in Nat
      /\ Increasing(o) /\ Increasing(d)
  BY Sizes, SeqNumbers DEF Mergeable, EndNumber
<1>lens. Len(o) \in Nat /\ Len(d) \in Nat /\ Len(q) \in Nat /\ EndNumber \in Nat BY <1>2
<1>3. new = IF s.i > Len(d) THEN EndNumber ELSE d[s.i].number BY DEF NewNumber
<1>4. s.i <= Len(d) => s.i \in s.i .. Len(d) /\ s.i \in 1 .. Len(d) BY <1>1, <1>2
<1>5. s.j < Len(o) => s.j + 1 \in s.j + 1 .. Len(o) /\ s.j + 1 \in 1 .. Len(o) BY <1>1, <1>2
<1>6. new \in Nat /\ new > n BY <1>1, <1>2, <1>3, <1>4 DEF Divided
<1>7. s.oldNumber > n BY <1>1, <1>2, <1>5 DEF Divided
<1>8. m \in Nat /\ m > n /\ m <= new /\ m <= s.oldNumber BY <1>1, <1>6, <1>7 DEF Least
<1> HIDE DEF m, new
<1>9. ASSUME NEW x \in 1 .. s.j PROVE o[x].number < m
  <2>1. x \in 1 .. Len(o) /\ o[x].number <= n BY <1>1, <1>2 DEF Divided
  <2> QED BY <1>2, <1>8, <2>1
<1>10. ASSUME NEW x \in 1 .. s.i - 1 PROVE d[x].number < m
  <2>1. x \in 1 .. Len(d) /\ d[x].number <= n BY <1>1, <1>2 DEF Divided
  <2> QED BY <1>2, <1>8, <2>1
<1>11. ASSUME NEW x \in 1 .. s.num PROVE q[x].number < m
  <2>1. x \in 1 .. Len(q) /\ q[x].number <= n BY <1>1, <1>2 DEF Divided
  <2> QED BY <1>2, <1>8, <2>1
<1>12. ASSUME NEW x \in s.num + 1 .. Len(q) PROVE q[x].number >= m
  <2>1. x \in 1 .. Len(q) /\ q[x].number > n BY <1>1, <1>2 DEF Divided
  <2>2. (\E y \in 1 .. Len(d) : d[y] = q[x]) \/ (\E y \in 1 .. Len(o) : o[y] = q[x])
    BY <2>1 DEF Mergeable, IsDelta
  <2>3. ASSUME NEW y \in 1 .. Len(d), d[y] = q[x] PROVE q[x].number >= m
    <3>1. ~ (y \in 1 .. s.i - 1) BY <1>2, <2>1, <2>3 DEF Divided
    <3>2. y >= s.i /\ s.i \in 1 .. Len(d) BY <1>1, <1>lens, <3>1
    <3>3. d[s.i].number <= d[y].number BY <1>2, <3>2, Further
    <3>4. d[y].number >= new BY <1>1, <1>2, <1>3, <3>2, <3>3
    <3> QED BY <1>2, <1>6, <1>8, <2>1, <2>3, <3>4
  <2>4. ASSUME NEW y \in 1 .. Len(o), o[y] = q[x] PROVE q[x].number >= m
    <3>1. ~ (y \in 1 .. s.j) BY <1>2, <2>1, <2>4 DEF Divided
    <3>2. y >= s.j + 1 /\ s.j # Len(o) /\ s.j + 1 \in 1 .. Len(o) BY <1>1, <1>lens, <3>1
    <3>3. o[s.j + 1].number <= o[y].number BY <1>2, <3>2, Further
    <3>4. s.oldNumber = o[s.j + 1].number BY <3>2 DEF Divided
    <3>5. o[y].number >= s.oldNumber BY <1>1, <1>2, <3>2, <3>3, <3>4
    <3> QED BY <1>1, <1>2, <1>8, <2>1, <2>4, <3>5
  <2> QED BY <2>2, <2>3, <2>4
<1> QED BY <1>9, <1>10, <1>11, <1>12 DEF MergedTo, Divided, m

\* A step keeps this, and does one more.
LEMMA MergeStep ==
  ASSUME NEW s \in Parsing, NEW k \in Nat, NEW ring, NEW next, NEW old, NEW o, NEW d, NEW q,
         Mergeable(ring, next, old, o, d, q), MergedTo(s, k, ring, next, o, d, q)
  PROVE  MergedTo(ParseEntity(s, next, old, d), k + 1, ring, next, o, d, q)
<1> DEFINE t == ParseEntity(s, next, old, d)
           m == Least(s, d)
           new == NewNumber(d, s.i)
<1>1. /\ s.j \in Nat /\ s.i \in Nat \ {0} /\ s.num \in Nat /\ s.oldNumber \in 1 .. EndNumber
      /\ s.ring \in ClientRing
  BY DEF Parsing
<1>2. /\ Len(o) \in Nat /\ Len(d) \in Nat /\ Len(q) \in Nat /\ EndNumber \in Nat
      /\ \A x \in 1 .. Len(o) : /\ o[x] \in Entity /\ o[x].number \in Nat /\ o[x].number \in Numbers
                                /\ o[x].number < EndNumber
      /\ \A x \in 1 .. Len(d) : /\ d[x] \in Entity /\ d[x].number \in Nat /\ d[x].number \in Numbers
                                /\ d[x].number < EndNumber
      /\ d \in Seq(Entity) /\ Increasing(o) /\ Increasing(d)
  BY Sizes, SeqNumbers DEF Mergeable, EndNumber
<1>lens. Len(o) \in Nat /\ Len(d) \in Nat /\ Len(q) \in Nat /\ EndNumber \in Nat BY <1>2
<1>3. old.first \in Nat /\ old.num \in Nat /\ next \in Nat /\ ring \in ClientRing
  BY DEF Mergeable, Readable
<1>4. /\ t \in Parsing
      /\ \/ /\ s.oldNumber < new
            /\ Puts(s, t, next, old, OldEntity(s.ring, old, s.j))
            /\ t.i = s.i /\ t.j = s.j + 1
            /\ t.oldNumber = OldNumber(t.ring, old, t.j)
         \/ /\ s.oldNumber > new /\ s.i \in 1 .. Len(d)
            /\ Puts(s, t, next, old, d[s.i])
            /\ t.i = s.i + 1 /\ t.j = s.j /\ t.oldNumber = s.oldNumber
         \/ /\ s.oldNumber = new /\ new # EndNumber /\ s.i \in 1 .. Len(d)
            /\ Puts(s, t, next, old, d[s.i])
            /\ t.i = s.i + 1 /\ t.j = s.j + 1
            /\ t.oldNumber = OldNumber(t.ring, old, t.j)
         \/ s.oldNumber = new /\ new = EndNumber /\ t = s
  BY <1>2, <1>3, ParseEntityIs
<1>5. new = IF s.i > Len(d) THEN EndNumber ELSE d[s.i].number BY DEF NewNumber
<1>6. new \in Nat /\ new <= EndNumber BY <1>1, <1>2, <1>5
<1>7. m = IF s.oldNumber < new THEN s.oldNumber ELSE new BY DEF Least
<1>mnat. m \in Nat BY <1>1, <1>6, <1>7, <1>lens
<1> HIDE DEF t, m, new
<1>8. /\ s.j <= Len(o) /\ s.i <= Len(d) + 1
      /\ s.oldNumber = IF s.j = Len(o) THEN EndNumber ELSE o[s.j + 1].number
      /\ \A x \in 1 .. s.j : o[x].number < m
      /\ \A x \in 1 .. s.i - 1 : d[x].number < m
      /\ m = EndNumber \/ s.i - 1 + s.j >= k
      /\ Untouched(s.ring, ring, next, s.num)
  BY DEF MergedTo, m
<1>9. s.oldNumber # EndNumber => /\ s.j < Len(o) /\ s.j + 1 \in 1 .. Len(o)
                                 /\ s.oldNumber = o[s.j + 1].number
  BY <1>1, <1>2, <1>8
<1>10. \A x \in s.j + 1 .. Len(o) : o[x].number >= s.oldNumber /\ (x > s.j + 1 => o[x].number > s.oldNumber)
  <2> TAKE x \in s.j + 1 .. Len(o)
  <2>1. x \in 1 .. Len(o) /\ s.j + 1 \in 1 .. Len(o) /\ s.j # Len(o) /\ x >= s.j + 1 BY <1>1, <1>2, <1>8
  <2>2. s.oldNumber = o[s.j + 1].number BY <1>8, <2>1
  <2>3. o[s.j + 1].number <= o[x].number /\ (x # s.j + 1 => o[s.j + 1].number < o[x].number)
    BY <1>2, <2>1, Further
  <2> QED BY <1>1, <1>2, <2>1, <2>2, <2>3
<1>11. \A x \in s.i .. Len(d) : d[x].number >= new /\ (x > s.i => d[x].number > new)
  <2> TAKE x \in s.i .. Len(d)
  <2>1. x \in 1 .. Len(d) /\ s.i \in 1 .. Len(d) /\ x >= s.i BY <1>1, <1>2
  <2>2. new = d[s.i].number BY <1>2, <1>5, <2>1
  <2>3. d[s.i].number <= d[x].number /\ (x # s.i => d[s.i].number < d[x].number)
    BY <1>2, <2>1, Further
  <2> QED BY <1>1, <1>2, <2>1, <2>2, <2>3
<1>12. CASE t = s /\ s.oldNumber = new /\ new = EndNumber
  <2>1. m = EndNumber BY <1>7, <1>12
  <2> QED BY <1>12, <2>1 DEF MergedTo, m, t
<1>13. ASSUME NEW e, Puts(s, t, next, old, e), m = e.number, e.number \in Numbers,
              \/ e.state # Removed /\ \E x \in 1 .. Len(q) : q[x] = e
              \/ e.state = Removed /\ \A x \in 1 .. Len(q) : q[x].number # e.number,
              t.j <= Len(o), t.i <= Len(d) + 1, t.i - 1 + t.j >= k + 1,
              t.oldNumber = OldNumber(t.ring, old, t.j) \/ (t.j = s.j /\ t.oldNumber = s.oldNumber),
              \A x \in 1 .. t.j : o[x].number <= m,
              \A x \in t.j + 1 .. Len(o) : o[x].number > m,
              \A x \in 1 .. t.i - 1 : d[x].number <= m,
              \A x \in t.i .. Len(d) : d[x].number > m
       PROVE  MergedTo(t, k + 1, ring, next, o, d, q)
  <2>1. /\ t.num <= Len(q)
        /\ \A x \in 1 .. t.num : q[x].number <= m
        /\ \A x \in t.num + 1 .. Len(q) : q[x].number > m
        /\ Written(t.ring, next, q, t.num)
        /\ Untouched(t.ring, ring, next, t.num)
    BY <1>4, <1>13, PutNext DEF m
  <2>2. t.ring \in ClientRing /\ t.num \in Nat /\ t.j \in 0 .. Len(o)
    BY <1>2, <1>4, <1>13 DEF Parsing
  <2>3. t.oldNumber = IF t.j = Len(o) THEN EndNumber ELSE o[t.j + 1].number
    <3>1. CASE t.j = s.j /\ t.oldNumber = s.oldNumber BY <1>8, <3>1
    <3>2. CASE t.oldNumber = OldNumber(t.ring, old, t.j)
      <4>1. OldNumber(t.ring, old, t.j) = IF t.j = Len(o) THEN EndNumber ELSE o[t.j + 1].number
        BY <1>3, <2>1, <2>2, OldRead DEF Mergeable
      <4> QED BY <3>2, <4>1
    <3> QED BY <1>13, <3>1, <3>2
  <2>4. Divided(t, m, next, ring, o, d, q) BY <1>13, <2>1, <2>3 DEF Divided
  <2>5. m \in Nat /\ m < EndNumber BY <1>13, Sizes DEF Numbers, EndNumber
  <2> QED BY <1>4, <1>13, <2>4, <2>5, MergeRest
<1> DEFINE a == OldEntity(s.ring, old, s.j)
           b == d[s.i]
<1>14. CASE /\ s.oldNumber < new /\ Puts(s, t, next, old, a)
            /\ t.i = s.i /\ t.j = s.j + 1 /\ t.oldNumber = OldNumber(t.ring, old, t.j)
  <2>1. m = s.oldNumber /\ s.oldNumber # EndNumber /\ s.j \in 0 .. Len(o) - 1 /\ s.j + 1 \in 1 .. Len(o)
    BY <1>1, <1>2, <1>6, <1>7, <1>9, <1>14
  <2>2. a = o[s.j + 1]
    <3>1. o \in Seq(Real) /\ Readable(ring, next, old, o) BY DEF Mergeable
    <3>2. \A j \in 0 .. Len(o) - 1 : OldEntity(s.ring, old, j) = o[j + 1]
      BY <1>1, <1>3, <1>8, <3>1, OldRead
    <3> QED BY <2>1, <3>2
  <2>3. a.number = m /\ a.number \in Numbers BY <1>2, <1>9, <2>1, <2>2
  <2>4. a.state # Removed
    <3>1. o[s.j + 1] \in Real BY <2>1 DEF Mergeable
    <3> QED BY <2>2, <3>1, Sizes DEF Real
  <2>5. \E x \in 1 .. Len(q) : q[x] = a
    <3>1. ASSUME NEW y \in 1 .. Len(d), d[y].number = a.number PROVE FALSE
      <4>1. y \in 1 .. s.i - 1 \/ y \in s.i .. Len(d) BY <1>1, <1>2
      <4>2. m \in Nat /\ d[y].number = m /\ m < new BY <1>1, <1>14, <1>lens, <2>1, <2>3, <3>1
      <4>3. CASE y \in 1 .. s.i - 1
        <5>1. d[y].number < m BY <1>8, <4>3
        <5> QED BY <4>2, <5>1
      <4>4. CASE y \in s.i .. Len(d)
        <5>1. d[y].number >= new BY <1>11, <4>4
        <5> QED BY <1>6, <4>2, <5>1
      <4> QED BY <4>1, <4>3, <4>4
    <3>2. \/ \E x \in 1 .. Len(q) : q[x] = o[s.j + 1]
          \/ \E y \in 1 .. Len(d) : d[y].number = o[s.j + 1].number
      BY <2>1 DEF Mergeable, IsDelta
    <3> QED BY <2>2, <3>1, <3>2
  <2>6. t.j <= Len(o) /\ t.i <= Len(d) + 1 /\ t.i - 1 + t.j >= k + 1
    <3>1. s.i <= Len(d) + 1 /\ s.i - 1 + s.j >= k BY <1>8, <2>1
    <3>2. t.i = s.i /\ t.j = s.j + 1 BY <1>14
    <3>3. s.j \in Nat /\ s.i \in Nat /\ s.j + 1 <= Len(o) BY <1>1, <1>lens, <2>1
    <3> DEFINE i == s.i
               j == s.j
    <3>4. j + 1 <= Len(o) /\ i <= Len(d) + 1 /\ i - 1 + (j + 1) >= k + 1
      <4>1. i \in Nat /\ j \in Nat /\ i - 1 + j >= k BY <3>1, <3>3
      <4> HIDE DEF i, j
      <4>2. i - 1 + (j + 1) >= k + 1 BY <4>1
      <4> QED BY <3>1, <3>3, <4>2 DEF i, j
    <3> QED BY <3>2, <3>4
  <2>7. \A x \in 1 .. t.j : o[x].number <= m
    <3> TAKE x \in 1 .. t.j
    <3>1. x \in 1 .. s.j \/ x = s.j + 1 BY <1>1, <1>14
    <3>2. x \in 1 .. Len(o) BY <1>1, <1>2, <1>14, <2>6
    <3>3. o[x].number \in Nat /\ m \in Nat BY <1>1, <1>2, <2>1, <3>2
    <3>4. o[s.j + 1].number = m BY <1>9, <2>1
    <3> QED BY <1>8, <3>1, <3>3, <3>4
  <2>8. \A x \in t.j + 1 .. Len(o) : o[x].number > m
    <3> TAKE x \in t.j + 1 .. Len(o)
    <3>1. t.j = s.j + 1 BY <1>14
    <3>2. x \in s.j + 1 .. Len(o) /\ x > s.j + 1 BY <1>1, <1>lens, <3>1
    <3> QED BY <1>10, <2>1, <3>2
  <2>9. \A x \in 1 .. t.i - 1 : d[x].number <= m
    <3> TAKE x \in 1 .. t.i - 1
    <3>1. x \in 1 .. s.i - 1 /\ x \in 1 .. Len(d) BY <1>1, <1>2, <1>8, <1>14
    <3>2. d[x].number \in Nat /\ m \in Nat BY <1>2, <1>mnat, <3>1
    <3> QED BY <1>8, <3>1, <3>2
  <2>10. \A x \in t.i .. Len(d) : d[x].number > m
    <3> TAKE x \in t.i .. Len(d)
    <3>1. x \in s.i .. Len(d) /\ x \in 1 .. Len(d) BY <1>1, <1>2, <1>14
    <3> QED BY <1>1, <1>2, <1>6, <1>11, <1>14, <2>1, <3>1
  <2> HIDE DEF a
  <2> QED BY <1>13, <1>14, <2>3, <2>4, <2>5, <2>6, <2>7, <2>8, <2>9, <2>10 DEF t
<1>15. ASSUME s.i \in 1 .. Len(d), m = new
       PROVE  /\ b.number = m /\ b.number \in Numbers
              /\ \/ b.state # Removed /\ \E x \in 1 .. Len(q) : q[x] = b
                 \/ b.state = Removed /\ \A x \in 1 .. Len(q) : q[x].number # b.number
              /\ \A x \in 1 .. s.i : d[x].number <= m
              /\ \A x \in s.i + 1 .. Len(d) : d[x].number > m
  <2>1. b.number = m /\ b.number \in Numbers BY <1>1, <1>2, <1>5, <1>15
  <2>2. \/ b.state # Removed /\ \E x \in 1 .. Len(q) : q[x] = b
        \/ b.state = Removed /\ \A x \in 1 .. Len(q) : q[x].number # b.number
    BY <1>15 DEF Mergeable, IsDelta
  <2>3. \A x \in 1 .. s.i : d[x].number <= m
    <3> TAKE x \in 1 .. s.i
    <3>1. x \in 1 .. s.i - 1 \/ x = s.i BY <1>1
    <3>2. x \in 1 .. Len(d) BY <1>1, <1>2, <1>15
    <3> QED BY <1>2, <1>6, <1>8, <1>15, <2>1, <3>1, <3>2
  <2>4. \A x \in s.i + 1 .. Len(d) : d[x].number > m
    <3> TAKE x \in s.i + 1 .. Len(d)
    <3>1. x \in s.i .. Len(d) /\ x > s.i BY <1>1, <1>lens
    <3> QED BY <1>11, <1>15, <3>1
  <2> QED BY <2>1, <2>2, <2>3, <2>4
<1>16. CASE /\ s.oldNumber > new /\ s.i \in 1 .. Len(d) /\ Puts(s, t, next, old, b)
            /\ t.i = s.i + 1 /\ t.j = s.j /\ t.oldNumber = s.oldNumber
  <2>1. m = new BY <1>1, <1>6, <1>7, <1>16
  <2>2. t.j <= Len(o) /\ t.i <= Len(d) + 1 BY <1>1, <1>2, <1>8, <1>16
  <2>3. t.i - 1 + t.j >= k + 1
    <3>1. m # EndNumber BY <1>1, <1>2, <1>6, <1>16, <2>1
    <3> QED BY <1>1, <1>8, <1>16, <3>1
  <2>4. \A x \in 1 .. t.j : o[x].number <= m
    <3> TAKE x \in 1 .. t.j
    <3>1. x \in 1 .. s.j /\ x \in 1 .. Len(o) BY <1>1, <1>2, <1>8, <1>16
    <3> QED BY <1>2, <1>6, <1>8, <2>1, <3>1
  <2>5. \A x \in t.j + 1 .. Len(o) : o[x].number > m
    <3> TAKE x \in t.j + 1 .. Len(o)
    <3>1. x \in s.j + 1 .. Len(o) /\ x \in 1 .. Len(o) BY <1>1, <1>2, <1>16
    <3>2. o[x].number >= s.oldNumber BY <1>10, <3>1
    <3>3. s.oldNumber > m /\ s.oldNumber \in Nat BY <1>1, <1>16, <1>lens, <2>1
    <3>4. o[x].number \in Nat BY <1>2, <3>1
    <3> QED BY <1>mnat, <3>2, <3>3, <3>4
  <2>6. t.i - 1 = s.i BY <1>1, <1>16
  <2>7. /\ b.number = m /\ b.number \in Numbers
        /\ \/ b.state # Removed /\ \E x \in 1 .. Len(q) : q[x] = b
           \/ b.state = Removed /\ \A x \in 1 .. Len(q) : q[x].number # b.number
        /\ \A x \in 1 .. t.i - 1 : d[x].number <= m
        /\ \A x \in t.i .. Len(d) : d[x].number > m
    BY <1>15, <1>16, <2>1, <2>6
  <2> HIDE DEF b
  <2> QED BY <1>13, <1>16, <2>2, <2>3, <2>4, <2>5, <2>7 DEF t
<1>17. CASE /\ s.oldNumber = new /\ new # EndNumber /\ s.i \in 1 .. Len(d) /\ Puts(s, t, next, old, b)
            /\ t.i = s.i + 1 /\ t.j = s.j + 1 /\ t.oldNumber = OldNumber(t.ring, old, t.j)
  <2>1. m = new /\ m = s.oldNumber /\ m # EndNumber /\ s.j + 1 \in 1 .. Len(o) BY <1>1, <1>6, <1>7, <1>9, <1>17
  <2>2. t.j <= Len(o) /\ t.i <= Len(d) + 1 BY <1>1, <1>2, <1>9, <1>17
  <2>3. t.i - 1 + t.j >= k + 1 BY <1>1, <1>8, <1>17, <2>1
  <2>4. \A x \in 1 .. t.j : o[x].number <= m
    <3> TAKE x \in 1 .. t.j
    <3>1. x \in 1 .. s.j \/ x = s.j + 1 BY <1>1, <1>17
    <3>2. x \in 1 .. Len(o) BY <1>1, <1>2, <1>8, <1>17, <2>2
    <3>3. o[x].number \in Nat /\ m \in Nat BY <1>2, <1>6, <2>1, <3>2
    <3>4. o[s.j + 1].number = m BY <1>9, <2>1
    <3> QED BY <1>8, <3>1, <3>3, <3>4
  <2>5. \A x \in t.j + 1 .. Len(o) : o[x].number > m
    <3> TAKE x \in t.j + 1 .. Len(o)
    <3>1. t.j = s.j + 1 BY <1>17
    <3>2. x \in s.j + 1 .. Len(o) /\ x > s.j + 1 BY <1>1, <1>lens, <3>1
    <3> QED BY <1>10, <2>1, <3>2
  <2>6. t.i - 1 = s.i BY <1>1, <1>17
  <2>7. /\ b.number = m /\ b.number \in Numbers
        /\ \/ b.state # Removed /\ \E x \in 1 .. Len(q) : q[x] = b
           \/ b.state = Removed /\ \A x \in 1 .. Len(q) : q[x].number # b.number
        /\ \A x \in 1 .. t.i - 1 : d[x].number <= m
        /\ \A x \in t.i .. Len(d) : d[x].number > m
    BY <1>15, <1>17, <2>1, <2>6
  <2> HIDE DEF b
  <2> QED BY <1>13, <1>17, <2>2, <2>3, <2>4, <2>5, <2>7 DEF t
<1> QED BY <1>4, <1>12, <1>14, <1>16, <1>17 DEF t

\* The new frame is the new snapshot, and else the ring is as it was.
LEMMA MergeIs ==
  ASSUME NEW ring, NEW next, NEW old, NEW o, NEW d, NEW q, Mergeable(ring, next, old, o, d, q)
  PROVE  LET p == CL_ParsePacketEntities(ring, next, old, d)
         IN  /\ p \in Parsing /\ p.num = Len(q)
             /\ Written(p.ring, next, q, Len(q))
             /\ Untouched(p.ring, ring, next, Len(q))
<1>1. /\ ring \in ClientRing /\ next \in Nat /\ old.first \in Nat /\ old.num \in Nat /\ old.num = Len(o)
      /\ o \in Seq(Real) /\ q \in Seq(Real) /\ d \in Seq(Given) /\ Readable(ring, next, old, o)
  BY DEF Mergeable, Readable
<1>2. /\ Len(o) \in Nat /\ Len(d) \in Nat /\ Len(q) \in Nat /\ EndNumber \in Nat
      /\ d \in Seq(Entity) /\ old.num + Len(d) \in Nat
      /\ \A x \in 1 .. Len(o) : o[x].number \in Nat /\ o[x].number \in Numbers
      /\ \A x \in 1 .. Len(d) : d[x].number \in Nat /\ d[x].number \in Numbers
      /\ \A x \in 1 .. Len(q) : q[x].number \in Nat /\ q[x].number < EndNumber /\ q[x].number \in Numbers
  <2>1. Len(o) \in Nat /\ Len(d) \in Nat /\ Len(q) \in Nat /\ EndNumber \in Nat
    BY <1>1, Sizes DEF EndNumber
  <2>2. d \in Seq(Entity) /\ \A x \in 1 .. Len(d) : d[x].number \in Nat /\ d[x].number \in Numbers
    BY <1>1, SeqNumbers
  <2>3. \A x \in 1 .. Len(o) : o[x].number \in Nat /\ o[x].number \in Numbers BY <1>1, SeqNumbers
  <2>4. \A x \in 1 .. Len(q) : /\ q[x].number \in Nat /\ q[x].number < EndNumber
                               /\ q[x].number \in Numbers
    BY <1>1, SeqNumbers
  <2> QED BY <1>1, <2>1, <2>2, <2>3, <2>4
<1>3. PICK after : Runs(after, ring, next, old, d) BY <1>1, <1>2, ParseRuns
<1>4. \A k \in Nat : after[k] \in Parsing BY <1>3 DEF Runs
<1>5. MergedTo(after[0], 0, ring, next, o, d, q)
  <2> DEFINE s == Start(ring, old)
  <2>1. after[0] = s /\ s \in Parsing BY <1>3, <1>4 DEF Runs
  <2>2. s.ring = ring /\ s.num = 0 /\ s.i = 1 /\ s.j = 0 /\ s.oldNumber = OldNumber(ring, old, 0)
    BY DEF Start
  <2> HIDE DEF s
  <2>3. Untouched(ring, ring, next, 0) /\ Written(ring, next, q, 0) BY DEF Untouched, Written
  <2>4. OldNumber(ring, old, 0) = IF 0 = Len(o) THEN EndNumber ELSE o[0 + 1].number
    <3>1. 0 \in 0 .. Len(o) BY <1>2
    <3>2. \A j \in 0 .. Len(o) : OldNumber(ring, old, j) = IF j = Len(o) THEN EndNumber ELSE o[j + 1].number
      BY <1>1, <2>3, OldRead
    <3> QED BY <3>1, <3>2
  <2>5. \A x \in 1 .. Len(o) : o[x].number > 0 BY <1>2 DEF Numbers
  <2>6. \A x \in 1 .. Len(d) : d[x].number > 0 BY <1>2 DEF Numbers
  <2>7. \A x \in 1 .. Len(q) : q[x].number > 0 BY <1>2 DEF Numbers
  <2>8. Divided(s, 0, next, ring, o, d, q) BY <1>2, <2>2, <2>3, <2>4, <2>5, <2>6, <2>7 DEF Divided
  <2>9. 0 < EndNumber /\ s.i - 1 + s.j >= 0 BY <2>2, Sizes DEF EndNumber
  <2> QED BY <2>1, <2>8, <2>9, MergeRest
<1>6. \A k \in Nat : MergedTo(after[k], k, ring, next, o, d, q)
  <2> DEFINE S == {k \in Nat : ~ MergedTo(after[k], k, ring, next, o, d, q)}
  <2> SUFFICES ASSUME S # {} PROVE FALSE OBVIOUS
  <2>1. PICK k \in S : \A i \in S : k <= i BY LeastExists
  <2>2. k \in Nat /\ k # 0 /\ ~ MergedTo(after[k], k, ring, next, o, d, q) BY <1>5
  <2> DEFINE i == k - 1
  <2>3. i \in Nat /\ i \notin S /\ i + 1 = k BY <2>1, <2>2
  <2>4. MergedTo(after[i], i, ring, next, o, d, q) BY <2>3
  <2> HIDE DEF i, S
  <2>5. after[i + 1] = ParseEntity(after[i], next, old, d) /\ after[i] \in Parsing
    BY <1>3, <1>4, <2>3 DEF Runs
  <2>6. MergedTo(ParseEntity(after[i], next, old, d), i + 1, ring, next, o, d, q)
    BY <2>3, <2>4, <2>5, MergeStep
  <2> QED BY <2>2, <2>3, <2>5, <2>6
<1> DEFINE K == old.num + Len(d)
           p == after[K]
<1>7. CL_ParsePacketEntities(ring, next, old, d) = p /\ p \in Parsing BY <1>2, <1>3, <1>4 DEF Runs
<1>8. MergedTo(p, K, ring, next, o, d, q) BY <1>2, <1>6
<1> HIDE DEF p
<1>9. p.num \in Nat /\ p.i \in Nat /\ p.j \in Nat BY <1>7 DEF Parsing
<1>10. Least(p, d) = EndNumber
  <2> SUFFICES ASSUME Least(p, d) # EndNumber PROVE FALSE OBVIOUS
  <2>1. p.i - 1 + p.j >= K /\ p.j <= Len(o) /\ p.i <= Len(d) + 1 BY <1>8 DEF MergedTo
  <2>2. p.j = Len(o) /\ p.i > Len(d) BY <1>1, <1>2, <1>9, <2>1
  <2>3. p.oldNumber = EndNumber BY <1>8, <2>2 DEF MergedTo
  <2>4. NewNumber(d, p.i) = EndNumber BY <2>2 DEF NewNumber
  <2> QED BY <2>3, <2>4 DEF Least
<1>11. p.num = Len(q)
  <2> SUFFICES ASSUME p.num < Len(q) PROVE FALSE BY <1>2, <1>8, <1>9 DEF MergedTo
  <2>1. Len(q) \in p.num + 1 .. Len(q) /\ Len(q) \in 1 .. Len(q) BY <1>2, <1>9
  <2>2. q[Len(q)].number >= EndNumber BY <1>8, <1>10, <2>1 DEF MergedTo
  <2> QED BY <1>2, <2>1, <2>2
<1> QED BY <1>7, <1>8, <1>11 DEF MergedTo

----------------------------------------------------------------------------
(* The inductive invariant.                                                *)

Kept == [valid : BOOLEAN, message : Nat, first : Nat, num : Nat, built : World]
SnapshotMessage ==
  [sequence : Nat, snapshot : {TRUE}, base : Nat, entities : Seq(Entity), built : Worlds]
OtherMessage == [sequence : Nat, snapshot : {FALSE}]
Packet == [acknowledge : Nat, delta : BOOLEAN]
ServerRing == [0 .. NumSnapshotEntities - 1 -> Entity]
ServerType ==
  [outgoingSequence : Nat \ {0}, deltaMessage : Int, parseEntitiesNum : Nat,
   frames : [Slots -> Frame], next : Nat, ring : ServerRing]
ClientType ==
  [message : Nat, snap : Nat, snapshots : [Slots -> Kept], next : Nat, ring : ClientRing,
   refused : BOOLEAN]

Typed ==
  /\ server \in ServerType /\ client \in ClientType
  /\ toClient = <<>> \/ \E m \in SnapshotMessage \cup OtherMessage : toClient = <<m>>
  /\ toServer = <<>> \/ \E p \in Packet : toServer = <<p>>

\* Both sides count messages and entities in step.
InStep ==
  /\ server.outgoingSequence <= MaxMessages + 1
  /\ server.deltaMessage \in -1 .. server.outgoingSequence - 1
  /\ client.message < server.outgoingSequence /\ client.snap <= client.message
  /\ \A k \in Slots : server.frames[k].first + server.frames[k].num <= server.next
  /\ \A k \in Slots : client.snapshots[k].first + client.snapshots[k].num <= client.next
  /\ toClient # <<>> => /\ toClient[1].sequence = server.outgoingSequence - 1
                        /\ client.message < server.outgoingSequence - 1
  /\ toServer # <<>> => toServer[1].acknowledge <= client.message

\* What each has of message a: the client's snapshot, if it has it, and the
\* server's frame, which has its slot as long as the message is recent.
Snap(a) == client.snapshots[a % PACKET_BACKUP]
Has(a) == Snap(a).valid /\ Snap(a).message = a
Sent(a) == server.frames[a % PACKET_BACKUP]
Recent(a) == server.outgoingSequence - a < PACKET_BACKUP

\* A snapshot is under way.
Coming == toClient # <<>> /\ toClient[1].snapshot

\* What the server may delta from, the client has.
FramesKnown ==
  /\ \A k \in Slots : client.snapshots[k].valid =>
       /\ client.snapshots[k].message \in 1 .. client.snap
       /\ client.snap - client.snapshots[k].message < PACKET_BACKUP
       /\ client.snapshots[k].message % PACKET_BACKUP = k
  /\ client.snap > 0 => Has(client.snap)
  /\ server.deltaMessage > 0 /\ Recent(server.deltaMessage) => Has(server.deltaMessage)
  /\ toServer # <<>> /\ toServer[1].delta =>
       /\ toServer[1].acknowledge > 0
       /\ Recent(toServer[1].acknowledge) => Has(toServer[1].acknowledge)
  /\ Coming /\ toClient[1].base > 0 =>
       /\ Has(toClient[1].base)
       /\ toClient[1].sequence - toClient[1].base < PACKET_BACKUP

\* The server counts no less than the client has put into its ring, and will
\* have when what is under way has come.
Added == IF Coming THEN Cardinality(DOMAIN toClient[1].built) ELSE 0

CountsKnown ==
  /\ \A a \in 1 .. client.snap : Has(a) /\ Recent(a) =>
       client.next + Added - Snap(a).first <= Counted(server.frames, a, server.outgoingSequence)
  /\ server.deltaMessage > 0 /\ Recent(server.deltaMessage) =>
       client.next + Added - Snap(server.deltaMessage).first <= server.parseEntitiesNum
  /\ Coming /\ toClient[1].base > 0 =>
       client.next - Snap(toClient[1].base).first <= MAX_PARSE_ENTITIES - PARSE_MARGIN

\* The server's ring has the entities of a message, if it does not take them for
\* overwritten, and the client's those of a snapshot.
ServerHolds(a, world) ==
  /\ Sent(a).num = Cardinality(DOMAIN world)
  /\ Sent(a).first > server.next - NumSnapshotEntities =>
       InRing(Sent(a), server.ring, NumSnapshotEntities) = Sorted(world)

ClientHolds(s) == InRing(s, client.ring, MAX_PARSE_ENTITIES) = Sorted(s.built)

ServerRingKnown ==
  /\ \A a \in 1 .. client.snap : Has(a) /\ Recent(a) => ServerHolds(a, Snap(a).built)
  /\ Coming => ServerHolds(toClient[1].sequence, toClient[1].built)

ClientRingKnown ==
  /\ \A k \in Slots : client.snapshots[k].valid =>
       /\ client.snapshots[k].num = Cardinality(DOMAIN client.snapshots[k].built)
       /\ client.next - client.snapshots[k].first < MAX_PARSE_ENTITIES => ClientHolds(client.snapshots[k])
  /\ client.snap > 0 => ClientHolds(Snap(client.snap))
  /\ Coming => toClient[1].entities =
       SV_EmitPacketEntities(IF toClient[1].base = 0 THEN <<>> ELSE Sorted(Snap(toClient[1].base).built),
                             Sorted(toClient[1].built))

Known == CountsKnown /\ ServerRingKnown /\ ClientRingKnown /\ ~ client.refused

IInv == Typed /\ InStep /\ FramesKnown /\ (Fits => Known)

----------------------------------------------------------------------------
(* What the operations do.                                                 *)

\* A bounded set of numbers has a greatest element.
LEMMA MaxIs ==
  ASSUME NEW b \in Nat, NEW S \in SUBSET (1 .. b), S # {}
  PROVE  Max(S) \in S
<1> DEFINE D == {b - i : i \in S}
<1>1. \A i \in S : i \in Nat /\ b - i \in Nat OBVIOUS
<1>2. D \subseteq Nat /\ D # {} BY <1>1
<1>3. PICK d \in D : \A e \in D : d <= e BY <1>2, LeastExists
<1>4. PICK n \in S : d = b - n OBVIOUS
<1>5. \A i \in S : b - i \in D OBVIOUS
<1>6. \A i \in S : n >= i BY <1>1, <1>3, <1>4, <1>5
<1>7. \E x \in S : \A y \in S : x >= y BY <1>6
<1> QED BY <1>7 DEF Max

\* Entities put into the server's ring: what is at other slots stays, and as many
\* as fit are all there.
LEMMA PutIs ==
  ASSUME NEW ring \in ServerRing, NEW next \in Nat, NEW es \in Seq(Entity)
  PROVE  /\ Put(ring, next, es) \in ServerRing
         /\ \A x \in 0 .. NumSnapshotEntities - 1 :
              (\A i \in 1 .. Len(es) : (next + i - 1) % NumSnapshotEntities # x)
                => Put(ring, next, es)[x] = ring[x]
         /\ Len(es) <= NumSnapshotEntities =>
              \A i \in 1 .. Len(es) : Put(ring, next, es)[(next + i - 1) % NumSnapshotEntities] = es[i]
<1> DEFINE N == NumSnapshotEntities
           I(x) == {i \in 1 .. Len(es) : (next + i - 1) % N = x}
           put == Put(ring, next, es)
<1>1. N \in Nat \ {0} /\ Len(es) \in Nat BY Sizes
<1>2. put = [x \in 0 .. N - 1 |-> IF I(x) = {} THEN ring[x] ELSE es[Max(I(x))]]
  BY DEF Put, ServerRing
<1>3. \A x : I(x) # {} => Max(I(x)) \in I(x)
  <2> TAKE x
  <2>1. I(x) \in SUBSET (1 .. Len(es)) OBVIOUS
  <2> HIDE DEF I
  <2> QED BY <1>1, <2>1, MaxIs
<1>4. \A x : I(x) # {} => es[Max(I(x))] \in Entity
  <2> TAKE x
  <2> HAVE I(x) # {}
  <2> DEFINE j == Max(I(x))
  <2>1. j \in I(x) BY <1>3
  <2> HIDE DEF j
  <2>2. j \in 1 .. Len(es) BY <2>1
  <2>3. es[j] \in Entity BY <2>2
  <2> QED BY <2>3 DEF j
<1>5. \A x : I(x) = {} <=> \A i \in 1 .. Len(es) : (next + i - 1) % N # x OBVIOUS
<1>6. \A x, i : i \in I(x) <=> i \in 1 .. Len(es) /\ (next + i - 1) % N = x OBVIOUS
<1> HIDE DEF I, put
<1>7. put \in ServerRing BY <1>2, <1>4 DEF ServerRing
<1>8. \A x \in 0 .. N - 1 : (\A i \in 1 .. Len(es) : (next + i - 1) % N # x) => put[x] = ring[x]
  BY <1>2, <1>5
<1>9. ASSUME Len(es) <= N, NEW i \in 1 .. Len(es) PROVE put[(next + i - 1) % N] = es[i]
  <2> DEFINE x == (next + i - 1) % N
  <2>1. next + i - 1 \in Int OBVIOUS
  <2>2. x \in 0 .. N - 1 BY <1>1, <2>1, SlotType
  <2>3. i \in I(x) BY <1>6
  <2>4. Max(I(x)) \in I(x) BY <1>3, <2>3
  <2> DEFINE j == Max(I(x))
  <2>5. j \in 1 .. Len(es) /\ (next + j - 1) % N = x BY <1>6, <2>4
  <2>6. put[x] = es[j] BY <1>2, <2>2, <2>3
  <2> HIDE DEF j, x
  <2>7. j = i
    <3>1. next + j - 1 \in Int /\ next + i - 1 \in Int BY <2>1, <2>5
    <3>2. ASSUME i < j PROVE FALSE
      <4>1. next + i - 1 < next + j - 1 /\ (next + j - 1) - (next + i - 1) < N BY <1>1, <1>9, <2>5, <3>2
      <4> QED BY <1>1, <2>5, <3>1, <4>1, SlotsApart DEF x
    <3>3. ASSUME j < i PROVE FALSE
      <4>1. next + j - 1 < next + i - 1 /\ (next + i - 1) - (next + j - 1) < N BY <1>1, <1>9, <2>5, <3>3
      <4> QED BY <1>1, <2>5, <3>1, <4>1, SlotsApart DEF x
    <3> QED BY <2>5, <3>2, <3>3
  <2> QED BY <2>6, <2>7 DEF x
<1> QED BY <1>7, <1>8, <1>9 DEF put

\* A snapshot of world is sent, its frame's first entity at position first.
Filled(others) == [i \in 1 .. others |-> NoEntity]

Sends(world, others, base) ==
  LET out   == server.outgoingSequence
      first == server.next + others
      full  == server.parseEntitiesNum > MAX_PARSE_ENTITIES - PARSE_MARGIN
  IN  /\ out <= MaxMessages
      /\ server'.outgoingSequence = out + 1
      /\ server'.frames = [server.frames EXCEPT
           ![out % PACKET_BACKUP] = [first |-> first, num |-> Len(Sorted(world))]]
      /\ server'.next = first + Len(Sorted(world))
      /\ server'.ring = Put(Put(server.ring, server.next, Filled(others)), first, Sorted(world))
      /\ server'.deltaMessage = (IF full THEN -1 ELSE server.deltaMessage)
      /\ server'.parseEntitiesNum = (IF full THEN 0 ELSE server.parseEntitiesNum) + Cardinality(DOMAIN world)
      /\ \/ base = 0
         \/ /\ base = server.deltaMessage /\ base > 0 /\ ~ full
            /\ out - base < PACKET_BACKUP - DELTA_MARGIN
            /\ server'.frames[base % PACKET_BACKUP].first > server'.next - NumSnapshotEntities
      /\ toClient' = <<[sequence |-> out, snapshot |-> TRUE, base |-> base,
           entities |-> SV_EmitPacketEntities(
             IF base = 0 THEN <<>>
             ELSE InRing(server'.frames[base % PACKET_BACKUP], server'.ring, NumSnapshotEntities),
             Sorted(world)),
           built |-> world]>>
      /\ UNCHANGED <<client, toServer>>

\* SV_SendClientSnapshot does that.
LEMMA SendIs ==
  ASSUME server \in ServerType, NEW world \in Worlds, NEW others \in Others,
         SV_SendClientSnapshot(world, others)
  PROVE  /\ \E base \in Nat : Sends(world, others, base)
         /\ server' \in ServerType
<1> DEFINE out == server.outgoingSequence
           first == server.next + others
           e == Sorted(world)
           full == server.parseEntitiesNum > MAX_PARSE_ENTITIES - PARSE_MARGIN
           frames == [server.frames EXCEPT ![out % PACKET_BACKUP] = [first |-> first, num |-> Len(e)]]
           ring == Put(Put(server.ring, server.next, Filled(others)), first, e)
           built == SV_BuildClientSnapshot(world, others)
           s == IF full THEN Full(built) ELSE built
           base == Base(s)
<1>1. /\ out \in Nat \ {0} /\ server.deltaMessage \in Int /\ server.parseEntitiesNum \in Nat
      /\ server.frames \in [Slots -> Frame] /\ server.next \in Nat /\ server.ring \in ServerRing
  BY DEF ServerType
<1>2. /\ others \in Nat /\ world \in World /\ e \in Seq(Real) /\ e \in Seq(Entity) /\ Len(e) \in Nat
      /\ Cardinality(DOMAIN world) \in Nat /\ Len(e) = Cardinality(DOMAIN world)
  BY Sizes, SortedIs, SeqNumbers, WorldIs DEF World
<1>3. NoEntity \in Entity BY Sizes DEF NoEntity, Entity
<1>4. Filled(others) \in Seq(Entity) BY <1>2, <1>3 DEF Filled
<1>5. first \in Nat BY <1>1, <1>2
<1>6. Put(server.ring, server.next, Filled(others)) \in ServerRing BY <1>1, <1>4, PutIs
<1>7. ring \in ServerRing BY <1>2, <1>5, <1>6, PutIs
<1>8. frames \in [Slots -> Frame]
  <2>1. [first |-> first, num |-> Len(e)] \in Frame BY <1>2, <1>5 DEF Frame
  <2> QED BY <1>1, <2>1
<1>9. built = [server EXCEPT !.frames = frames, !.ring = ring, !.next = first + Len(e)]
  BY DEF SV_BuildClientSnapshot, Filled
<1> HIDE DEF frames, ring, first, e
<1>10. built = [outgoingSequence |-> out, deltaMessage |-> server.deltaMessage,
                parseEntitiesNum |-> server.parseEntitiesNum, frames |-> frames,
                next |-> first + Len(e), ring |-> ring]
  BY <1>9 DEF ServerType
<1> DEFINE dm == IF full THEN -1 ELSE server.deltaMessage
           pen == IF full THEN 0 ELSE server.parseEntitiesNum
<1>11. s = [outgoingSequence |-> out, deltaMessage |-> dm, parseEntitiesNum |-> pen,
            frames |-> frames, next |-> first + Len(e), ring |-> ring]
  <2> HIDE DEF built
  <2> QED BY <1>10 DEF Full
<1>12. dm \in Int /\ pen \in Nat BY <1>1
<1>13. /\ out <= MaxMessages
       /\ server' = [s EXCEPT !.outgoingSequence = @ + 1, !.parseEntitiesNum = @ + Cardinality(DOMAIN world)]
       /\ toClient' = <<[sequence |-> s.outgoingSequence, snapshot |-> TRUE, base |-> base,
            entities |-> SV_EmitPacketEntities(
              IF base = 0 THEN <<>> ELSE InRing(s.frames[base % PACKET_BACKUP], s.ring, NumSnapshotEntities),
              Sorted(world)),
            built |-> world]>>
       /\ UNCHANGED <<client, toServer>>
       /\ built.parseEntitiesNum = server.parseEntitiesNum
  <2>1. built.parseEntitiesNum = server.parseEntitiesNum BY <1>10
  <2> HIDE DEF built
  <2> QED BY <2>1 DEF SV_SendClientSnapshot, built
<1> HIDE DEF s, built
<1>14. base = 0 \/ /\ base = dm /\ dm > 0 /\ out - dm < PACKET_BACKUP - DELTA_MARGIN
                   /\ frames[dm % PACKET_BACKUP].first > (first + Len(e)) - NumSnapshotEntities
  <2>1. base = IF \/ dm <= 0 \/ out - dm >= PACKET_BACKUP - DELTA_MARGIN
                  \/ frames[dm % PACKET_BACKUP].first <= (first + Len(e)) - NumSnapshotEntities
               THEN 0 ELSE dm
    BY <1>11 DEF Base
  <2>2. CASE base = 0 BY <2>2
  <2>3. CASE base # 0
    <3>1. /\ base = dm /\ ~ (dm <= 0) /\ ~ (out - dm >= PACKET_BACKUP - DELTA_MARGIN)
          /\ ~ (frames[dm % PACKET_BACKUP].first <= (first + Len(e)) - NumSnapshotEntities)
      BY <2>1, <2>3
    <3> HIDE DEF dm
    <3>2. dm > 0 /\ dm % PACKET_BACKUP \in Slots
      <4>1. dm % PACKET_BACKUP \in Slots BY <1>12, Sizes, SlotType DEF Slots
      <4> QED BY <1>12, <3>1, <4>1
    <3>3. frames[dm % PACKET_BACKUP].first \in Nat BY <1>8, <3>2 DEF Frame
    <3> DEFINE y == frames[dm % PACKET_BACKUP].first
    <3>4. /\ PACKET_BACKUP \in Nat /\ DELTA_MARGIN \in Nat /\ NumSnapshotEntities \in Nat
          /\ out \in Nat /\ first \in Nat /\ Len(e) \in Nat
      BY <1>1, <1>2, <1>5, Sizes
    <3>5. ~ (out - dm >= PACKET_BACKUP - DELTA_MARGIN) => out - dm < PACKET_BACKUP - DELTA_MARGIN
      BY <1>12, <3>4
    <3>6. ~ (y <= (first + Len(e)) - NumSnapshotEntities) => y > (first + Len(e)) - NumSnapshotEntities
      <4>1. y \in Nat BY <3>3
      <4> HIDE DEF y
      <4> QED BY <3>4, <4>1
    <3> QED BY <3>1, <3>2, <3>5, <3>6
  <2> QED BY <2>2, <2>3
<1>15. base \in Nat BY <1>12, <1>14
<1> HIDE DEF dm, pen, base
<1>16. server' = [outgoingSequence |-> out + 1, deltaMessage |-> dm,
                  parseEntitiesNum |-> pen + Cardinality(DOMAIN world),
                  frames |-> frames, next |-> first + Len(e), ring |-> ring]
  BY <1>11, <1>13
<1>17. server' \in ServerType
  <2>1. /\ out + 1 \in Nat \ {0} /\ pen + Cardinality(DOMAIN world) \in Nat /\ first + Len(e) \in Nat
    BY <1>1, <1>2, <1>5, <1>12
  <2> QED BY <1>7, <1>8, <1>12, <1>16, <2>1 DEF ServerType
<1>18. s.outgoingSequence = out /\ s.frames = server'.frames /\ s.ring = server'.ring BY <1>11, <1>16
<1>19. /\ server'.outgoingSequence = out + 1 /\ server'.deltaMessage = dm
       /\ server'.parseEntitiesNum = pen + Cardinality(DOMAIN world)
       /\ server'.frames = frames /\ server'.next = first + Len(e) /\ server'.ring = ring
  BY <1>16
<1>20. Sends(world, others, base)
  <2>1. /\ out <= MaxMessages /\ UNCHANGED <<client, toServer>>
        /\ toClient' = <<[sequence |-> out, snapshot |-> TRUE, base |-> base,
             entities |-> SV_EmitPacketEntities(
               IF base = 0 THEN <<>>
               ELSE InRing(server'.frames[base % PACKET_BACKUP], server'.ring, NumSnapshotEntities),
               Sorted(world)),
             built |-> world]>>
    BY <1>13, <1>18
  <2>2. \/ base = 0
        \/ /\ base = server.deltaMessage /\ base > 0 /\ ~ full
           /\ out - base < PACKET_BACKUP - DELTA_MARGIN
           /\ server'.frames[base % PACKET_BACKUP].first > server'.next - NumSnapshotEntities
    <3>1. base = 0 \/ /\ base = dm /\ base > 0 /\ out - base < PACKET_BACKUP - DELTA_MARGIN
                      /\ server'.frames[base % PACKET_BACKUP].first > server'.next - NumSnapshotEntities
      BY <1>14, <1>19
    <3> QED BY <3>1 DEF dm
  <2> QED BY <1>19, <2>1, <2>2 DEF Sends, dm, pen, frames, ring, first, e
<1> QED BY <1>15, <1>17, <1>20

\* What CL_ParsePacketEntities gives for a snapshot m, and what is kept of it.
ParsedOf(m) == CL_ParsePacketEntities(client.ring, client.next, OldFrame(m), m.entities)
KeptOf(m) == [valid |-> TRUE, message |-> m.sequence, first |-> client.next, num |-> ParsedOf(m).num,
              built |-> m.built]

Parses(m) ==
  /\ client'.message = m.sequence
  /\ client'.ring = ParsedOf(m).ring
  /\ client'.next = client.next + ParsedOf(m).num
  /\ client'.refused = (client.refused \/ ~ ValidDelta(m))
  /\ ~ ValidDelta(m) => client'.snap = client.snap /\ client'.snapshots = client.snapshots
  /\ ValidDelta(m) =>
       /\ client'.snap = m.sequence
       /\ client'.snapshots = [k \in Slots |->
            IF k = m.sequence % PACKET_BACKUP THEN KeptOf(m)
            ELSE IF \E n \in Lost(m) : n % PACKET_BACKUP = k THEN [client.snapshots[k] EXCEPT !.valid = FALSE]
            ELSE client.snapshots[k]]

\* The old frame and what is parsed have their types.
LEMMA OldType ==
  ASSUME client \in ClientType, NEW m \in SnapshotMessage
  PROVE  OldFrame(m).first \in Nat /\ OldFrame(m).num \in Nat /\ ParsedOf(m) \in Parsing
<1>1. /\ client.snapshots \in [Slots -> Kept] /\ client.next \in Nat /\ client.ring \in ClientRing
      /\ m.base \in Nat /\ m.entities \in Seq(Entity)
  BY DEF ClientType, SnapshotMessage
<1>2. m.base % PACKET_BACKUP \in Slots
  <2>1. m.base \in Int BY <1>1
  <2> QED BY <2>1, Sizes, SlotType DEF Slots
<1>3. client.snapshots[m.base % PACKET_BACKUP] \in Kept BY <1>1, <1>2
<1>4. OldFrame(m).first \in Nat /\ OldFrame(m).num \in Nat BY <1>3 DEF OldFrame, Kept
<1> QED BY <1>1, <1>4, ParseType DEF ParsedOf

\* CL_ParseSnapshot does that.
LEMMA ParsedIs ==
  ASSUME client \in ClientType, NEW m \in SnapshotMessage, client' = CL_ParseSnapshot(m)
  PROVE  Parses(m) /\ client' \in ClientType
<1> DEFINE p == ParsedOf(m)
           bad == client.refused \/ ~ ValidDelta(m)
           parsed == [client EXCEPT !.message = m.sequence, !.ring = p.ring, !.next = @ + p.num,
                                    !.refused = bad]
           snapshots == [k \in Slots |->
             IF k = m.sequence % PACKET_BACKUP THEN KeptOf(m)
             ELSE IF \E n \in Lost(m) : n % PACKET_BACKUP = k THEN [client.snapshots[k] EXCEPT !.valid = FALSE]
             ELSE client.snapshots[k]]
<1>1. /\ client.snapshots \in [Slots -> Kept] /\ client.next \in Nat /\ client.ring \in ClientRing
      /\ client.message \in Nat /\ client.snap \in Nat /\ client.refused \in BOOLEAN
      /\ m.sequence \in Nat /\ m.built \in World
      /\ client = [message |-> client.message, snap |-> client.snap, snapshots |-> client.snapshots,
                   next |-> client.next, ring |-> client.ring, refused |-> client.refused]
  BY DEF ClientType, SnapshotMessage, World
<1>2. p.ring \in ClientRing /\ p.num \in Nat
  <2>1. p \in Parsing BY OldType
  <2> HIDE DEF p
  <2> QED BY <2>1 DEF Parsing
<1>3. client' = IF ~ ValidDelta(m) THEN parsed
                ELSE [parsed EXCEPT !.snap = m.sequence,
                        !.snapshots = [k \in DOMAIN parsed.snapshots |->
                          IF k = m.sequence % PACKET_BACKUP THEN KeptOf(m)
                          ELSE IF \E n \in Lost(m) : n % PACKET_BACKUP = k THEN [parsed.snapshots[k] EXCEPT !.valid = FALSE]
                          ELSE parsed.snapshots[k]]]
  BY DEF CL_ParseSnapshot, ParsedOf, KeptOf
<1>4. bad \in BOOLEAN OBVIOUS
<1> HIDE DEF bad, p
<1>5. parsed = [message |-> m.sequence, snap |-> client.snap, snapshots |-> client.snapshots,
                next |-> client.next + p.num, ring |-> p.ring, refused |-> bad]
  <2> DEFINE n == client.next + p.num
             r == p.ring
  <2>1. parsed = [client EXCEPT !.message = m.sequence, !.ring = r, !.next = n, !.refused = bad]
    BY <1>1
  <2> HIDE DEF n, r, parsed
  <2> QED BY <2>1 DEF ClientType, n, r
<1>6. parsed.snapshots = client.snapshots /\ DOMAIN client.snapshots = Slots BY <1>1, <1>5
<1> HIDE DEF parsed
<1>7. client' = IF ~ ValidDelta(m) THEN parsed
                ELSE [parsed EXCEPT !.snap = m.sequence, !.snapshots = snapshots]
  BY <1>3, <1>6
<1>8. snapshots \in [Slots -> Kept]
  <2>1. KeptOf(m) \in Kept BY <1>1, <1>2 DEF KeptOf, Kept, p
  <2>2. \A k \in Slots : client.snapshots[k] \in Kept /\ [client.snapshots[k] EXCEPT !.valid = FALSE] \in Kept
    <3> TAKE k \in Slots
    <3>1. client.snapshots[k] \in Kept BY <1>1
    <3> QED BY <3>1 DEF Kept
  <2> QED BY <2>1, <2>2
<1>9. CASE ~ ValidDelta(m)
  <2>1. client' = parsed BY <1>7, <1>9
  <2>2. client' \in ClientType BY <1>1, <1>2, <1>4, <1>5, <2>1 DEF ClientType
  <2>3. /\ client'.message = m.sequence /\ client'.ring = p.ring
        /\ client'.next = client.next + p.num /\ client'.refused = bad
        /\ client'.snap = client.snap /\ client'.snapshots = client.snapshots
    BY <1>5, <2>1
  <2> QED BY <1>9, <2>2, <2>3 DEF Parses, p, bad
<1>10. CASE ValidDelta(m)
  <2>1. client' = [parsed EXCEPT !.snap = m.sequence, !.snapshots = snapshots] BY <1>7, <1>10
  <2> HIDE DEF snapshots
  <2>2. client' = [message |-> m.sequence, snap |-> m.sequence, snapshots |-> snapshots,
                   next |-> client.next + p.num, ring |-> p.ring, refused |-> bad]
    BY <1>5, <2>1
  <2>3. client' \in ClientType BY <1>1, <1>2, <1>4, <1>8, <2>2 DEF ClientType
  <2>4. /\ client'.message = m.sequence /\ client'.ring = p.ring
        /\ client'.next = client.next + p.num /\ client'.refused = bad
        /\ client'.snap = m.sequence /\ client'.snapshots = snapshots
    BY <2>2
  <2> QED BY <1>10, <2>3, <2>4 DEF Parses, p, bad, snapshots
<1> QED BY <1>9, <1>10

\* Every step keeps the types.
LEMMA TypedStep ==
  ASSUME Typed, InStep, [Next]_vars
  PROVE  Typed'
<1>1. CASE UNCHANGED vars BY <1>1 DEF Typed, vars
<1>2. ASSUME NEW world \in Worlds, NEW others \in Others, SV_SendClientSnapshot(world, others)
      PROVE  Typed'
  <2>1. server' \in ServerType /\ \E base \in Nat : Sends(world, others, base) BY <1>2, SendIs DEF Typed
  <2>2. PICK base \in Nat : Sends(world, others, base) BY <2>1
  <2> DEFINE old == IF base = 0 THEN <<>>
                    ELSE InRing(server'.frames[base % PACKET_BACKUP], server'.ring, NumSnapshotEntities)
             m == [sequence |-> server.outgoingSequence, snapshot |-> TRUE, base |-> base,
                   entities |-> SV_EmitPacketEntities(old, Sorted(world)), built |-> world]
  <2>3. toClient' = <<m>> /\ UNCHANGED <<client, toServer>> BY <2>2 DEF Sends
  <2>4. SV_EmitPacketEntities(old, Sorted(world)) \in Seq(Entity)
    <3> HIDE DEF old
    <3>1. Sorted(world) \in Seq(Real) /\ Increasing(Sorted(world)) BY SortedIs DEF World
    <3>2. SV_EmitPacketEntities(old, Sorted(world)) \in Seq(Given) BY <3>1, EmitIs
    <3> QED BY <3>2, SeqNumbers
  <2>5. m \in SnapshotMessage BY <2>4 DEF SnapshotMessage, Typed, ServerType
  <2> HIDE DEF m
  <2> QED BY <2>1, <2>3, <2>5 DEF Typed
<1>3. CASE SV_SendMessageToClient
  <2> DEFINE m == [sequence |-> server.outgoingSequence, snapshot |-> FALSE]
  <2>1. m \in OtherMessage BY DEF OtherMessage, Typed, ServerType
  <2>2. /\ server' = [server EXCEPT !.outgoingSequence = @ + 1] /\ toClient' = <<m>>
        /\ UNCHANGED <<client, toServer>>
    BY <1>3 DEF SV_SendMessageToClient
  <2>3. server' \in ServerType BY <2>2 DEF Typed, ServerType
  <2> HIDE DEF m
  <2> QED BY <2>1, <2>2, <2>3 DEF Typed
<1>4. CASE SV_UserMove
  <2>1. PICK p \in Packet : toServer = <<p>> BY <1>4 DEF SV_UserMove, Typed
  <2>2. p.acknowledge \in Nat BY DEF Packet
  <2>3. Counted(server.frames, p.acknowledge, server.outgoingSequence) \in Nat
    <3>1. /\ p.acknowledge <= server.outgoingSequence /\ server.outgoingSequence \in Nat
          /\ server.frames \in [Slots -> Frame]
      BY <2>1, <2>2 DEF InStep, Typed, ServerType, ClientType
    <3> QED BY <2>2, <3>1, CountedIs
  <2>4. server' = IF ~ p.delta THEN Full(server)
                  ELSE [server EXCEPT !.deltaMessage = p.acknowledge,
                          !.parseEntitiesNum = Counted(server.frames, p.acknowledge, server.outgoingSequence)]
    BY <1>4, <2>1 DEF SV_UserMove
  <2>5. server' \in ServerType
    <3> DEFINE c == Counted(server.frames, p.acknowledge, server.outgoingSequence)
    <3> HIDE DEF c
    <3>1. CASE p.delta
      <4>1. server' = [server EXCEPT !.deltaMessage = p.acknowledge, !.parseEntitiesNum = c]
        BY <2>4, <3>1 DEF c
      <4>2. server' = [outgoingSequence |-> server.outgoingSequence, deltaMessage |-> p.acknowledge,
                       parseEntitiesNum |-> c, frames |-> server.frames, next |-> server.next,
                       ring |-> server.ring]
        BY <4>1 DEF Typed, ServerType
      <4> QED BY <2>2, <2>3, <4>2 DEF Typed, ServerType, c
    <3>2. CASE ~ p.delta
      <4>1. server' = [server EXCEPT !.deltaMessage = -1, !.parseEntitiesNum = 0] BY <2>4, <3>2 DEF Full
      <4>2. server' = [outgoingSequence |-> server.outgoingSequence, deltaMessage |-> -1,
                       parseEntitiesNum |-> 0, frames |-> server.frames, next |-> server.next,
                       ring |-> server.ring]
        BY <4>1 DEF Typed, ServerType
      <4> QED BY <4>2 DEF Typed, ServerType
    <3> QED BY <3>1, <3>2
  <2> QED BY <1>4, <2>5 DEF SV_UserMove, Typed
<1>5. CASE CL_ParseServerMessage
  <2>1. PICK m \in SnapshotMessage \cup OtherMessage : toClient = <<m>>
    BY <1>5 DEF CL_ParseServerMessage, Typed
  <2>2. client' = (IF m.snapshot THEN CL_ParseSnapshot(m) ELSE [client EXCEPT !.message = m.sequence])
        /\ toClient' = <<>> /\ UNCHANGED <<server, toServer>>
    BY <1>5, <2>1 DEF CL_ParseServerMessage
  <2>3. CASE m \in SnapshotMessage
    <3>1. client' = CL_ParseSnapshot(m) BY <2>2, <2>3 DEF SnapshotMessage
    <3>2. client' \in ClientType BY <2>3, <3>1, ParsedIs DEF Typed
    <3> QED BY <2>2, <3>2 DEF Typed
  <2>4. CASE m \in OtherMessage
    <3>1. client' = [client EXCEPT !.message = m.sequence] /\ m.sequence \in Nat
      BY <2>2, <2>4 DEF OtherMessage
    <3>2. client' \in ClientType BY <3>1 DEF Typed, ClientType
    <3> QED BY <2>2, <3>2 DEF Typed
  <2> QED BY <2>1, <2>3, <2>4
<1>6. CASE CL_WritePacket
  <2> DEFINE p == [acknowledge |-> client.message,
                   delta |-> client.snap > 0 /\ client.message = client.snap]
  <2>1. p \in Packet BY DEF Packet, Typed, ClientType
  <2> HIDE DEF p
  <2> QED BY <1>6, <2>1 DEF CL_WritePacket, Typed, p
<1> QED BY <1>1, <1>2, <1>3, <1>4, <1>5, <1>6 DEF Next

----------------------------------------------------------------------------
(* Both sides stay in step, and the client has what the server may take.   *)

\* Messages have slots, of their own if they are less than PACKET_BACKUP apart.
LEMMA MessageSlots ==
  /\ \A a \in Int : a % PACKET_BACKUP \in Slots
  /\ \A a, b \in Int : a < b /\ b - a < PACKET_BACKUP => a % PACKET_BACKUP # b % PACKET_BACKUP
<1>1. ASSUME NEW a \in Int PROVE a % PACKET_BACKUP \in Slots BY Sizes, SlotType DEF Slots
<1>2. ASSUME NEW a \in Int, NEW b \in Int, a < b, b - a < PACKET_BACKUP
      PROVE  a % PACKET_BACKUP # b % PACKET_BACKUP
  BY <1>2, Sizes, SlotsApart
<1> QED BY <1>1, <1>2

\* The slot of a number that is given by its quotient and remainder.
LEMMA SlotOf ==
  ASSUME NEW d \in Nat \ {0}, NEW q \in Int, NEW k \in 0 .. d - 1
  PROVE  d * q + k \in Int /\ (d * q + k) % d = k
<1> DEFINE n == d * q + k
           p == n \div d
           r == n % d
<1>0. d * q \in Int /\ k \in Int /\ n \in Int OBVIOUS
<1>1. p \in Int /\ r \in 0 .. d - 1 /\ n = d * p + r
  <2> DEFINE x == d * q + k
  <2>1. x \in Int BY <1>0
  <2> HIDE DEF x
  <2>2. x \div d \in Int /\ x % d \in 0 .. d - 1 /\ x = d * (x \div d) + (x % d) BY <2>1
  <2> QED BY <2>2 DEF x
<1>2. d * q + k = d * p + r BY <1>1
<1> HIDE DEF p, r, n
<1>3. d * p \in Int BY <1>1
<1>4. CASE p < q BY <1>0, <1>1, <1>2, <1>3, <1>4, MultiplesApart
<1>5. CASE q < p BY <1>0, <1>1, <1>2, <1>3, <1>5, MultiplesApart
<1>6. CASE p = q BY <1>0, <1>1, <1>2, <1>3, <1>6
<1> QED BY <1>0, <1>1, <1>4, <1>5, <1>6 DEF n, r

\* Of as many numbers as there are slots, one has a given slot.
LEMMA SlotTaken ==
  ASSUME NEW d \in Nat \ {0}, NEW n \in Nat, NEW k \in 0 .. d - 1
  PROVE  \E a \in Int : n - d < a /\ a <= n /\ a % d = k
<1> DEFINE x == n - k
           q == x \div d
           r == x % d
<1>1. x \in Int /\ q \in Int /\ r \in 0 .. d - 1 /\ x = d * q + r
  <2> DEFINE y == n - k
  <2>1. y \in Int OBVIOUS
  <2> HIDE DEF y
  <2>2. y \div d \in Int /\ y % d \in 0 .. d - 1 /\ y = d * (y \div d) + (y % d) BY <2>1
  <2> QED BY <2>1, <2>2 DEF y
<1> HIDE DEF q, r
<1>2. d * q \in Int BY <1>1
<1>3. d * q + k \in Int /\ (d * q + k) % d = k BY <1>1, SlotOf
<1>4. n - d < d * q + k /\ d * q + k <= n BY <1>1, <1>2
<1> QED BY <1>3, <1>4

\* A snapshot parsed leaves alone what it may still be asked for.
LEMMA StaysHad ==
  ASSUME Typed, InStep, FramesKnown, NEW m \in SnapshotMessage, Parses(m), m.sequence > client.message,
         NEW a \in Nat, a <= client.snap, m.sequence - a < PACKET_BACKUP
  PROVE  Snap(a)' = Snap(a)
<1> DEFINE PB == PACKET_BACKUP
           k == a % PB
<1>1. /\ PB \in Nat \ {0} /\ m.sequence \in Nat /\ client.snap \in Nat /\ client.message \in Nat
      /\ client.snap <= client.message /\ k \in Slots
  <2>1. PB \in Nat \ {0} /\ a \in Int BY Sizes
  <2>2. k \in Slots BY <2>1, MessageSlots
  <2> QED BY <2>1, <2>2 DEF SnapshotMessage, Typed, ClientType, InStep
<1>2. k # m.sequence % PB
  <2>1. a \in Int /\ m.sequence \in Int /\ a < m.sequence /\ m.sequence - a < PB BY <1>1
  <2> QED BY <2>1, MessageSlots
<1>3. ASSUME NEW n \in Lost(m), n % PB = k PROVE FALSE
  <2>1. n \in Int /\ client.snap < n /\ n < m.sequence BY <1>1 DEF Lost
  <2>2. a \in Int /\ a < n /\ n - a < PB BY <1>1, <2>1
  <2> QED BY <1>3, <2>1, <2>2, MessageSlots
<1> HIDE DEF k
<1>4. client'.snapshots[k] = client.snapshots[k]
  <2>1. CASE ~ ValidDelta(m) BY <2>1 DEF Parses
  <2>2. CASE ValidDelta(m) BY <1>1, <1>2, <1>3, <2>2 DEF Parses
  <2> QED BY <2>1, <2>2
<1> QED BY <1>4 DEF Snap, k

\* A step keeps both sides in step.
LEMMA InStepStep ==
  ASSUME Typed, InStep, [Next]_vars
  PROVE  InStep'
<1> DEFINE out == server.outgoingSequence
<1>1. /\ out \in Nat \ {0} /\ MaxMessages \in Nat /\ client.message \in Nat /\ client.snap \in Nat
      /\ client.next \in Nat /\ server.next \in Nat /\ server.deltaMessage \in Int
      /\ \A k \in Slots : server.frames[k].first \in Nat /\ server.frames[k].num \in Nat
      /\ \A k \in Slots : client.snapshots[k].first \in Nat /\ client.snapshots[k].num \in Nat
      /\ server.frames \in [Slots -> Frame]
      /\ toServer # <<>> => toServer[1].acknowledge \in Nat
      /\ out % PACKET_BACKUP \in Slots
  <2>1. /\ server.frames \in [Slots -> Frame] /\ client.snapshots \in [Slots -> Kept] /\ out \in Nat \ {0}
    BY DEF Typed, ServerType, ClientType
  <2>2. \A k \in Slots : server.frames[k].first \in Nat /\ server.frames[k].num \in Nat
    BY <2>1 DEF Frame
  <2>3. \A k \in Slots : client.snapshots[k].first \in Nat /\ client.snapshots[k].num \in Nat
    BY <2>1 DEF Kept
  <2>4. toServer # <<>> => toServer[1].acknowledge \in Nat BY DEF Typed, Packet
  <2>5. out % PACKET_BACKUP \in Slots
    <3>1. out \in Int BY <2>1
    <3> QED BY <3>1, MessageSlots
  <2> QED BY <2>1, <2>2, <2>3, <2>4, <2>5, Sizes DEF Typed, ServerType, ClientType
<1>2. CASE UNCHANGED vars BY <1>2 DEF InStep, vars
<1>3. ASSUME NEW world \in Worlds, NEW others \in Others, SV_SendClientSnapshot(world, others)
      PROVE  InStep'
  <2>1. PICK base \in Nat : Sends(world, others, base) BY <1>3, SendIs DEF Typed
  <2> DEFINE n == Len(Sorted(world))
             first == server.next + others
  <2>2. others \in Nat /\ n \in Nat BY Sizes, SortedIs, SeqNumbers DEF World
  <2>3. /\ out <= MaxMessages /\ server'.outgoingSequence = out + 1
        /\ server'.frames = [server.frames EXCEPT ![out % PACKET_BACKUP] = [first |-> first, num |-> n]]
        /\ server'.next = first + n
        /\ server'.deltaMessage = -1 \/ server'.deltaMessage = server.deltaMessage
        /\ toClient' # <<>> /\ toClient'[1].sequence = out
        /\ UNCHANGED <<client, toServer>>
    BY <2>1 DEF Sends
  <2> HIDE DEF n
  <2>4. \A k \in Slots : server'.frames[k].first + server'.frames[k].num <= server'.next
    <3> TAKE k \in Slots
    <3>1. CASE k = out % PACKET_BACKUP BY <1>1, <2>2, <2>3, <3>1
    <3>2. CASE k # out % PACKET_BACKUP
      <4>1. server'.frames[k] = server.frames[k] BY <1>1, <2>3, <3>2
      <4>2. server.frames[k].first + server.frames[k].num <= server.next BY DEF InStep
      <4> QED BY <1>1, <2>2, <2>3, <4>1, <4>2
    <3> QED BY <3>1, <3>2
  <2>5. \A k \in Slots : client.snapshots[k].first + client.snapshots[k].num <= client.next
    BY DEF InStep
  <2>6. /\ server.deltaMessage \in -1 .. out - 1 /\ client.message < out
        /\ client.snap <= client.message
        /\ toServer # <<>> => toServer[1].acknowledge <= client.message
    BY DEF InStep
  <2>7. client.message \in Nat BY DEF Typed, ClientType
  <2>8. out \in Int /\ MaxMessages \in Int /\ server.deltaMessage \in Int BY <1>1
  <2>9. out + 1 <= MaxMessages + 1 /\ client.message < out + 1 /\ out + 1 - 1 = out
    <3>1. out <= MaxMessages BY <2>3
    <3>2. client.message < out BY <2>6
    <3> QED BY <2>7, <2>8, <3>1, <3>2
  <2>10. server.deltaMessage \in -1 .. out /\ -1 \in -1 .. out BY <1>1, <2>6
  <2>11. client' = client /\ toServer' = toServer BY <2>3
  <2>12. server'.outgoingSequence <= MaxMessages + 1 /\ client'.message < server'.outgoingSequence
    BY <2>3, <2>9, <2>11
  <2>13. server'.outgoingSequence - 1 = out
    <3>1. server'.outgoingSequence = out + 1 BY <2>3
    <3>2. out \in Int BY <2>8
    <3> HIDE DEF out
    <3> QED BY <3>1, <3>2
  <2>14. server'.deltaMessage \in -1 .. server'.outgoingSequence - 1
    <3>1. server'.deltaMessage = -1 \/ server'.deltaMessage = server.deltaMessage BY <2>3
    <3>2. server'.deltaMessage \in -1 .. out BY <2>10, <3>1
    <3> QED BY <2>13, <3>2
  <2>15. toClient'[1].sequence = server'.outgoingSequence - 1
         /\ client'.message < server'.outgoingSequence - 1
    <3>1. toClient'[1].sequence = out BY <2>3
    <3>2. client'.message < out BY <2>6, <2>11
    <3> QED BY <2>13, <3>1, <3>2
  <2>16. /\ \A k \in Slots : client'.snapshots[k].first + client'.snapshots[k].num <= client'.next
         /\ client'.snap <= client'.message
         /\ toServer' # <<>> => toServer'[1].acknowledge <= client'.message
    BY <2>5, <2>6, <2>11
  <2> QED BY <2>4, <2>12, <2>14, <2>15, <2>16 DEF InStep
<1>4. CASE SV_SendMessageToClient
  <2>1. /\ out <= MaxMessages /\ server'.outgoingSequence = out + 1 /\ server'.frames = server.frames
        /\ server'.next = server.next /\ server'.deltaMessage = server.deltaMessage
        /\ toClient' # <<>> /\ toClient'[1].sequence = out
        /\ UNCHANGED <<client, toServer>>
    BY <1>4 DEF SV_SendMessageToClient, Typed, ServerType
  <2> QED BY <1>1, <2>1 DEF InStep
<1>5. CASE SV_UserMove
  <2>1. PICK p \in Packet : toServer = <<p>> BY <1>5 DEF SV_UserMove, Typed
  <2>2. /\ server'.outgoingSequence = out /\ server'.frames = server.frames /\ server'.next = server.next
        /\ server'.deltaMessage = -1 \/ server'.deltaMessage = p.acknowledge
        /\ toServer' = <<>> /\ UNCHANGED <<client, toClient>>
    BY <1>5, <2>1 DEF SV_UserMove, Full, Typed, ServerType
  <2>3. p.acknowledge \in Nat /\ p.acknowledge <= client.message BY <2>1 DEF Packet, InStep
  <2> QED BY <1>1, <2>2, <2>3 DEF InStep
<1>6. CASE CL_ParseServerMessage
  <2>1. PICK m \in SnapshotMessage \cup OtherMessage : toClient = <<m>>
    BY <1>6 DEF CL_ParseServerMessage, Typed
  <2>2. client' = (IF m.snapshot THEN CL_ParseSnapshot(m) ELSE [client EXCEPT !.message = m.sequence])
        /\ toClient' = <<>> /\ UNCHANGED <<server, toServer>>
    BY <1>6, <2>1 DEF CL_ParseServerMessage
  <2>3. m.sequence = out - 1 /\ client.message < out - 1 /\ m.sequence \in Nat
    BY <1>1, <2>1 DEF InStep
  <2>4. CASE m \in SnapshotMessage
    <3>1. Parses(m) /\ ParsedOf(m).num \in Nat
      BY <2>2, <2>4, ParsedIs, OldType DEF SnapshotMessage, Typed, Parsing
    <3>2. /\ client'.message = m.sequence /\ client'.next = client.next + ParsedOf(m).num
          /\ client'.snap = m.sequence \/ client'.snap = client.snap
      BY <3>1 DEF Parses
    <3>3. ASSUME NEW k \in Slots
          PROVE  client'.snapshots[k].first + client'.snapshots[k].num <= client'.next
      <4>1. \/ client'.snapshots[k] = KeptOf(m)
            \/ client'.snapshots[k] = client.snapshots[k]
            \/ client'.snapshots[k] = [client.snapshots[k] EXCEPT !.valid = FALSE]
        BY <3>1 DEF Parses
      <4>2. client.snapshots[k] \in Kept /\ client.snapshots[k].first + client.snapshots[k].num <= client.next
        BY DEF InStep, Typed, ClientType
      <4>3. \/ client'.snapshots[k].first = client.next /\ client'.snapshots[k].num = ParsedOf(m).num
            \/ /\ client'.snapshots[k].first = client.snapshots[k].first
               /\ client'.snapshots[k].num = client.snapshots[k].num
        BY <4>1, <4>2 DEF KeptOf, Kept
      <4> QED BY <1>1, <3>1, <3>2, <4>2, <4>3
    <3> QED BY <1>1, <2>2, <2>3, <3>2, <3>3 DEF InStep
  <2>5. CASE m \in OtherMessage
    <3>1. client' = [client EXCEPT !.message = m.sequence] BY <2>2, <2>5 DEF OtherMessage
    <3>2. /\ client'.message = m.sequence /\ client'.next = client.next /\ client'.snap = client.snap
          /\ client'.snapshots = client.snapshots
      BY <3>1 DEF Typed, ClientType
    <3>3. \A k \in Slots : server.frames[k].first + server.frames[k].num <= server.next BY DEF InStep
    <3>4. \A k \in Slots : client.snapshots[k].first + client.snapshots[k].num <= client.next BY DEF InStep
    <3>5. /\ out <= MaxMessages + 1 /\ server.deltaMessage \in -1 .. out - 1
          /\ client.snap <= client.message
          /\ toServer # <<>> => toServer[1].acknowledge <= client.message
      BY DEF InStep
    <3>6. client'.snap <= client'.message /\ client'.message < out
      BY <1>1, <2>3, <3>2, <3>5
    <3>7. toServer # <<>> => toServer[1].acknowledge <= client'.message
      <4>1. ASSUME toServer # <<>> PROVE toServer[1].acknowledge \in Nat
        BY <4>1 DEF Typed, Packet
      <4> QED BY <1>1, <2>3, <3>2, <3>5, <4>1
    <3> QED BY <2>2, <3>2, <3>3, <3>4, <3>5, <3>6, <3>7 DEF InStep
  <2> QED BY <2>1, <2>4, <2>5
<1>7. CASE CL_WritePacket
  <2>1. toServer' # <<>> /\ toServer'[1].acknowledge = client.message /\ UNCHANGED <<server, client, toClient>>
    BY <1>7 DEF CL_WritePacket
  <2> QED BY <1>1, <2>1 DEF InStep
<1> QED BY <1>2, <1>3, <1>4, <1>5, <1>6, <1>7 DEF Next

----------------------------------------------------------------------------
(* The steps, by what they do.                                             *)

\* A message without a snapshot is sent.
SendsOther ==
  /\ server'.outgoingSequence = server.outgoingSequence + 1
  /\ server'.deltaMessage = server.deltaMessage /\ server'.parseEntitiesNum = server.parseEntitiesNum
  /\ server'.frames = server.frames /\ server'.next = server.next /\ server'.ring = server.ring
  /\ toClient' = <<[sequence |-> server.outgoingSequence, snapshot |-> FALSE]>>
  /\ UNCHANGED <<client, toServer>>

\* The packet p is read.
Moves(p) ==
  /\ toServer = <<p>> /\ toServer' = <<>>
  /\ server'.outgoingSequence = server.outgoingSequence
  /\ server'.frames = server.frames /\ server'.next = server.next /\ server'.ring = server.ring
  /\ server'.deltaMessage = (IF p.delta THEN p.acknowledge ELSE -1)
  /\ server'.parseEntitiesNum =
       (IF p.delta THEN Counted(server.frames, p.acknowledge, server.outgoingSequence) ELSE 0)
  /\ UNCHANGED <<client, toClient>>

\* The message m is parsed, which has a snapshot or not.
Comes(m) ==
  /\ toClient = <<m>> /\ toClient' = <<>>
  /\ UNCHANGED <<server, toServer>>

Passes(m) ==
  /\ Comes(m)
  /\ client'.message = m.sequence /\ client'.snap = client.snap /\ client'.snapshots = client.snapshots
  /\ client'.next = client.next /\ client'.ring = client.ring /\ client'.refused = client.refused

\* A packet is sent.
Writes ==
  /\ client.message > 0
  /\ toServer' = <<[acknowledge |-> client.message,
                    delta |-> client.snap > 0 /\ client.message = client.snap]>>
  /\ UNCHANGED <<server, client, toClient>>

\* Every step is one of these.
LEMMA StepIs ==
  ASSUME Typed, InStep, [Next]_vars
  PROVE  \/ UNCHANGED vars
         \/ \E world \in Worlds, others \in Others, base \in Nat : Sends(world, others, base)
         \/ SendsOther
         \/ \E p \in Packet : Moves(p)
         \/ \E m \in SnapshotMessage : Comes(m) /\ Parses(m)
         \/ \E m \in OtherMessage : Passes(m)
         \/ Writes
<1>1. ASSUME NEW world \in Worlds, NEW others \in Others, SV_SendClientSnapshot(world, others)
      PROVE  \E base \in Nat : Sends(world, others, base)
  BY <1>1, SendIs DEF Typed
<1>2. CASE SV_SendMessageToClient BY <1>2 DEF SV_SendMessageToClient, SendsOther, Typed, ServerType
<1>3. CASE SV_UserMove
  <2>1. PICK p \in Packet : toServer = <<p>> BY <1>3 DEF SV_UserMove, Typed
  <2> DEFINE c == Counted(server.frames, p.acknowledge, server.outgoingSequence)
  <2>2. /\ server' = IF ~ p.delta THEN Full(server)
                     ELSE [server EXCEPT !.deltaMessage = p.acknowledge, !.parseEntitiesNum = c]
        /\ toServer' = <<>> /\ UNCHANGED <<client, toClient>>
    BY <1>3, <2>1 DEF SV_UserMove
  <2>3. p.delta \in BOOLEAN BY DEF Packet
  <2> HIDE DEF c
  <2>4. /\ server'.outgoingSequence = server.outgoingSequence
        /\ server'.frames = server.frames /\ server'.next = server.next /\ server'.ring = server.ring
        /\ server'.deltaMessage = (IF p.delta THEN p.acknowledge ELSE -1)
        /\ server'.parseEntitiesNum = (IF p.delta THEN c ELSE 0)
    <3>1. CASE p.delta
      <4>1. server' = [server EXCEPT !.deltaMessage = p.acknowledge, !.parseEntitiesNum = c] BY <2>2, <3>1
      <4> QED BY <3>1, <4>1 DEF Typed, ServerType
    <3>2. CASE ~ p.delta
      <4>1. server' = [server EXCEPT !.deltaMessage = -1, !.parseEntitiesNum = 0] BY <2>2, <3>2 DEF Full
      <4> QED BY <3>2, <4>1 DEF Typed, ServerType
    <3> QED BY <2>3, <3>1, <3>2
  <2> QED BY <2>1, <2>2, <2>4 DEF Moves, c
<1>4. CASE CL_ParseServerMessage
  <2>1. PICK m \in SnapshotMessage \cup OtherMessage : toClient = <<m>>
    BY <1>4 DEF CL_ParseServerMessage, Typed
  <2>2. /\ client' = (IF m.snapshot THEN CL_ParseSnapshot(m) ELSE [client EXCEPT !.message = m.sequence])
        /\ toClient' = <<>> /\ UNCHANGED <<server, toServer>>
    BY <1>4, <2>1 DEF CL_ParseServerMessage
  <2>3. Comes(m) BY <2>1, <2>2 DEF Comes
  <2>4. CASE m \in SnapshotMessage
    <3>1. client' = CL_ParseSnapshot(m) BY <2>2, <2>4 DEF SnapshotMessage
    <3>2. Parses(m) BY <2>4, <3>1, ParsedIs DEF Typed
    <3> QED BY <2>3, <2>4, <3>2
  <2>5. CASE m \in OtherMessage
    <3>1. client' = [client EXCEPT !.message = m.sequence] BY <2>2, <2>5 DEF OtherMessage
    <3>2. Passes(m) BY <2>3, <3>1 DEF Passes, Typed, ClientType
    <3> QED BY <2>5, <3>2
  <2> QED BY <2>4, <2>5
<1>5. CASE CL_WritePacket BY <1>5 DEF CL_WritePacket, Writes
<1> QED BY <1>1, <1>2, <1>3, <1>4, <1>5 DEF Next

\* A message that the client has is not later than its last snapshot.
LEMMA HadBefore ==
  ASSUME Typed, FramesKnown, NEW a \in Int, Has(a)
  PROVE  a \in 1 .. client.snap
<1>1. a % PACKET_BACKUP \in Slots BY MessageSlots
<1> QED BY <1>1 DEF FramesKnown, Has, Snap

\* What it has of a recent one it keeps when it parses another.
LEMMA HadStays ==
  ASSUME Typed, InStep, FramesKnown, NEW a \in Int, Has(a), Recent(a),
         NEW m \in SnapshotMessage, Comes(m), Parses(m)
  PROVE  Snap(a)' = Snap(a) /\ Has(a)'
<1>1. /\ m.sequence = server.outgoingSequence - 1 /\ client.message < m.sequence
      /\ server.outgoingSequence \in Nat /\ PACKET_BACKUP \in Nat /\ client.snap \in Nat
  BY Sizes DEF Comes, InStep, Typed, ServerType, ClientType
<1>2. a \in 1 .. client.snap BY HadBefore
<1>3. a \in Nat /\ a <= client.snap /\ m.sequence - a < PACKET_BACKUP BY <1>1, <1>2 DEF Recent
<1>4. Snap(a)' = Snap(a) BY <1>1, <1>3, StaysHad
<1> QED BY <1>4 DEF Has

\* The client has what the server may take.
LEMMA FramesKnownStep ==
  ASSUME Typed, InStep, FramesKnown, [Next]_vars
  PROVE  FramesKnown'
<1> DEFINE out == server.outgoingSequence
           PB == PACKET_BACKUP
<1>1. /\ out \in Nat \ {0} /\ PB \in Nat \ {0} /\ DELTA_MARGIN \in Nat /\ server.deltaMessage \in Int
      /\ client.snap \in Nat /\ client.message \in Nat
  BY Sizes DEF Typed, ServerType, ClientType
<1>2. CASE UNCHANGED vars
  BY <1>2 DEF vars, FramesKnown, Has, Snap, Recent, Coming
<1>3. ASSUME NEW world \in Worlds, NEW others \in Others, NEW base \in Nat, Sends(world, others, base)
      PROVE  FramesKnown'
  <2>1. /\ server'.outgoingSequence = out + 1
        /\ server'.deltaMessage \in {-1, server.deltaMessage}
        /\ base = 0 \/ (base = server.deltaMessage /\ base > 0 /\ out - base < PB - DELTA_MARGIN)
        /\ toClient' # <<>> /\ toClient'[1].base = base /\ toClient'[1].sequence = out
        /\ UNCHANGED <<client, toServer>>
    BY <1>3 DEF Sends
  <2>2. /\ \A a : Has(a)' <=> Has(a)
        /\ \A a \in Int : Recent(a)' => Recent(a)
    BY <1>1, <2>1 DEF Has, Snap, Recent
  <2>3. base > 0 => Has(base) /\ out - base < PB BY <1>1, <2>1 DEF FramesKnown, Recent
  <2>4. server'.deltaMessage > 0 /\ Recent(server.deltaMessage)' => Has(server.deltaMessage)'
    BY <1>1, <2>1 DEF FramesKnown, Recent, Has, Snap
  <2>5. toServer # <<>> => toServer[1].acknowledge \in Int BY DEF Typed, Packet
  <2>6. toServer' # <<>> /\ toServer'[1].delta =>
           /\ toServer'[1].acknowledge > 0
           /\ Recent(toServer[1].acknowledge)' => Has(toServer[1].acknowledge)'
    BY <1>1, <2>1, <2>5 DEF FramesKnown, Recent, Has, Snap
  <2>7. Coming' /\ toClient'[1].base > 0 =>
          /\ Has(toClient[1].base)'
          /\ toClient'[1].sequence - toClient'[1].base < PACKET_BACKUP
    BY <2>1, <2>3 DEF Has, Snap
  <2> QED BY <2>1, <2>4, <2>6, <2>7 DEF FramesKnown, Has, Snap
<1>4. CASE SendsOther
  <2>1. /\ server'.outgoingSequence = out + 1 /\ server'.deltaMessage = server.deltaMessage
        /\ ~ Coming' /\ UNCHANGED <<client, toServer>>
    BY <1>4 DEF SendsOther, Coming
  <2>2. server'.deltaMessage > 0 /\ Recent(server.deltaMessage)' => Has(server.deltaMessage)'
    BY <1>1, <2>1 DEF FramesKnown, Recent, Has, Snap
  <2>3. toServer # <<>> => toServer[1].acknowledge \in Int BY DEF Typed, Packet
  <2>4. toServer' # <<>> /\ toServer'[1].delta =>
           /\ toServer'[1].acknowledge > 0
           /\ Recent(toServer[1].acknowledge)' => Has(toServer[1].acknowledge)'
    BY <1>1, <2>1, <2>3 DEF FramesKnown, Recent, Has, Snap
  <2> QED BY <2>1, <2>2, <2>4 DEF FramesKnown, Has, Snap
<1>5. ASSUME NEW p \in Packet, Moves(p) PROVE FramesKnown'
  <2>1. /\ server'.outgoingSequence = out /\ toServer = <<p>> /\ toServer' = <<>>
        /\ \/ p.delta /\ server'.deltaMessage = p.acknowledge
           \/ server'.deltaMessage = -1
        /\ UNCHANGED <<client, toClient>>
    BY <1>5 DEF Moves
  <2>2. server'.deltaMessage > 0 /\ Recent(server.deltaMessage)' => Has(server.deltaMessage)'
    BY <2>1 DEF FramesKnown, Recent, Has, Snap
  <2> QED BY <2>1, <2>2 DEF FramesKnown, Has, Snap, Coming
<1>6. ASSUME NEW m \in SnapshotMessage, Comes(m), Parses(m) PROVE FramesKnown'
  <2>1. /\ m.sequence = out - 1 /\ client.message < m.sequence /\ m.sequence \in Nat
        /\ client.snap <= client.message
        /\ UNCHANGED <<server, toServer>> /\ ~ Coming'
    BY <1>1, <1>6 DEF Comes, InStep, Coming, SnapshotMessage
  <2>2. \A a \in Int : Has(a) /\ Recent(a) => Has(a)' BY <1>6, HadStays
  <2>3. server'.deltaMessage > 0 /\ Recent(server.deltaMessage)' => Has(server.deltaMessage)'
    <3>1. server.deltaMessage > 0 /\ Recent(server.deltaMessage) => Has(server.deltaMessage) BY DEF FramesKnown
    <3> DEFINE a == server.deltaMessage
    <3>2. a \in Int /\ a' = a BY <1>1, <2>1
    <3>3. Has(a) /\ Recent(a) => Has(server.deltaMessage)'
      <4>1. ASSUME NEW b \in Int, b = server.deltaMessage PROVE Has(b)' <=> Has(server.deltaMessage)'
        BY <2>1, <4>1 DEF Has, Snap
      <4> QED BY <2>2, <3>2, <4>1
    <3>4. Recent(server.deltaMessage)' <=> Recent(a) BY <2>1 DEF Recent
    <3> QED BY <2>1, <3>1, <3>3, <3>4
  <2>4. toServer' # <<>> /\ toServer'[1].delta =>
           /\ toServer'[1].acknowledge > 0
           /\ Recent(toServer[1].acknowledge)' => Has(toServer[1].acknowledge)'
    <3> SUFFICES ASSUME toServer # <<>>, toServer[1].delta
                 PROVE  /\ toServer[1].acknowledge > 0
                        /\ Recent(toServer[1].acknowledge)' => Has(toServer[1].acknowledge)'
      BY <2>1
    <3>1. PICK b \in Int : b = toServer[1].acknowledge BY DEF Typed, Packet
    <3>2. b > 0 /\ (Recent(b) => Has(b)) BY <3>1 DEF FramesKnown
    <3>3. Recent(toServer[1].acknowledge)' => Recent(b) BY <2>1, <3>1 DEF Recent
    <3>4. Has(b)' => Has(toServer[1].acknowledge)' BY <2>1, <3>1 DEF Has, Snap
    <3> QED BY <2>2, <3>1, <3>2, <3>3, <3>4
  <2>5. CASE ~ ValidDelta(m)
    <3>1. client'.snap = client.snap /\ client'.snapshots = client.snapshots BY <1>6, <2>5 DEF Parses
    <3> QED BY <2>1, <2>3, <2>4, <3>1 DEF FramesKnown, Has, Snap
  <2>6. CASE ValidDelta(m)
    <3>1. /\ client'.snap = m.sequence
          /\ client'.snapshots = [k \in Slots |->
               IF k = m.sequence % PACKET_BACKUP THEN KeptOf(m)
               ELSE IF \E n \in Lost(m) : n % PACKET_BACKUP = k THEN [client.snapshots[k] EXCEPT !.valid = FALSE]
               ELSE client.snapshots[k]]
      BY <1>6, <2>6 DEF Parses
    <3>2. m.sequence \in Int /\ m.sequence % PB \in Slots BY <2>1, MessageSlots
    <3>3. client'.snapshots[m.sequence % PB] = KeptOf(m) BY <3>1, <3>2
    <3>4. KeptOf(m).valid /\ KeptOf(m).message = m.sequence BY DEF KeptOf
    <3>5. client'.snap > 0 => Has(client.snap)' BY <3>1, <3>3, <3>4 DEF Has, Snap
    <3>6. ASSUME NEW k \in Slots, client'.snapshots[k].valid
          PROVE  /\ client'.snapshots[k].message \in 1 .. client'.snap
                 /\ client'.snap - client'.snapshots[k].message < PACKET_BACKUP
                 /\ client'.snapshots[k].message % PACKET_BACKUP = k
      <4>1. CASE k = m.sequence % PB
        <5>1. client'.snapshots[k].message = m.sequence BY <3>3, <3>4, <4>1
        <5>2. client'.snap = m.sequence /\ m.sequence \in Nat /\ m.sequence > 0
          BY <1>1, <2>1, <3>1
        <5> QED BY <4>1, <5>1, <5>2, Sizes
      <4>2. CASE k # m.sequence % PB
        <5>1. client.snapshots[k] \in Kept BY DEF Typed, ClientType
        <5>2. ~ \E n \in Lost(m) : n % PB = k
          <6> SUFFICES ASSUME \E n \in Lost(m) : n % PB = k PROVE FALSE OBVIOUS
          <6>1. client'.snapshots[k] = [client.snapshots[k] EXCEPT !.valid = FALSE] BY <3>1, <4>2
          <6> QED BY <3>6, <5>1, <6>1 DEF Kept
        <5> DEFINE g == client.snapshots[k].message
        <5>3. client'.snapshots[k] = client.snapshots[k] BY <3>1, <4>2, <5>2
        <5>4. g \in 1 .. client.snap /\ client.snap - g < PB /\ g % PB = k BY <3>6, <5>3 DEF FramesKnown
        <5>5. PICK a \in Int : m.sequence - PB < a /\ a <= m.sequence /\ a % PB = k
          BY <1>1, <2>1, SlotTaken DEF Slots
        <5>6. a # m.sequence BY <4>2, <5>5
        <5>7. a <= client.snap
          <6> SUFFICES ASSUME ~ a <= client.snap PROVE FALSE OBVIOUS
          <6>1. a \in client.snap + 1 .. m.sequence - 1 /\ m.sequence - a < PB BY <1>1, <2>1, <5>5, <5>6
          <6>2. a \in Lost(m) BY <6>1 DEF Lost
          <6> QED BY <5>2, <5>5, <6>2
        <5> HIDE DEF g
        <5>8. ~ g < a
          <6>1. g < a => g \in Int /\ a - g < PB BY <1>1, <5>4, <5>7
          <6> QED BY <5>4, <5>5, <6>1, MessageSlots
        <5>9. ~ a < g
          <6>1. a < g => g \in Int /\ g - a < PB BY <1>1, <2>1, <5>4, <5>5
          <6> QED BY <5>4, <5>5, <6>1, MessageSlots
        <5>10. g = a BY <5>4, <5>8, <5>9
        <5>11. g \in 1 .. m.sequence /\ m.sequence - g < PB BY <1>1, <2>1, <5>4, <5>5, <5>10
        <5> QED BY <3>1, <5>3, <5>4, <5>11 DEF g
      <4> QED BY <4>1, <4>2
    <3> QED BY <2>1, <2>3, <2>4, <3>5, <3>6 DEF FramesKnown
  <2> QED BY <2>5, <2>6
<1>7. ASSUME NEW m \in OtherMessage, Passes(m) PROVE FramesKnown'
  <2>1. /\ client'.snap = client.snap /\ client'.snapshots = client.snapshots
        /\ UNCHANGED <<server, toServer>> /\ ~ Coming'
    BY <1>7 DEF Passes, Comes, Coming
  <2> QED BY <2>1 DEF FramesKnown, Has, Snap, Recent
<1>8. CASE Writes
  <2>1. /\ toServer' = <<[acknowledge |-> client.message,
                          delta |-> client.snap > 0 /\ client.message = client.snap]>>
        /\ UNCHANGED <<server, client, toClient>>
    BY <1>8 DEF Writes
  <2>2. toServer'[1].acknowledge = client.message
        /\ toServer'[1].delta = (client.snap > 0 /\ client.message = client.snap)
    BY <2>1
  <2>3. toServer'[1].delta => client.message > 0 /\ Has(client.message) BY <2>2 DEF FramesKnown
  <2>4. toServer'[1].delta => /\ toServer'[1].acknowledge > 0
                              /\ Has(toServer[1].acknowledge)'
    BY <2>1, <2>2, <2>3 DEF Has, Snap
  <2> QED BY <2>1, <2>4 DEF FramesKnown, Has, Snap, Recent, Coming
<1> QED BY <1>2, <1>3, <1>4, <1>5, <1>6, <1>7, <1>8, StepIs

----------------------------------------------------------------------------
(* What is in the rings.                                                   *)

\* The entities of a frame that are in a ring.
LEMMA InRingIs ==
  ASSUME NEW f, NEW ring, NEW size, NEW T, NEW q \in Seq(T), f.num = Len(q)
  PROVE  InRing(f, ring, size) = q <=> \A i \in 1 .. Len(q) : ring[(f.first + i - 1) % size] = q[i]
<1>1. q = [i \in 1 .. Len(q) |-> q[i]] OBVIOUS
<1>2. InRing(f, ring, size) = [i \in 1 .. Len(q) |-> ring[(f.first + i - 1) % size]] BY DEF InRing
<1>3. ASSUME InRing(f, ring, size) = q, NEW i \in 1 .. Len(q) PROVE ring[(f.first + i - 1) % size] = q[i]
  BY <1>2, <1>3
<1>4. ASSUME \A i \in 1 .. Len(q) : ring[(f.first + i - 1) % size] = q[i] PROVE InRing(f, ring, size) = q
  BY <1>1, <1>2, <1>4
<1> QED BY <1>3, <1>4

\* What the server makes of an old and a new snapshot, the client can merge.
LEMMA EmitMerges ==
  ASSUME NEW ring \in ClientRing, NEW next \in Nat, NEW old, NEW o \in Seq(Real), Increasing(o),
         NEW w \in World, Readable(ring, next, old, o), MaxEntities <= MAX_PARSE_ENTITIES
  PROVE  Mergeable(ring, next, old, o, SV_EmitPacketEntities(o, Sorted(w)), Sorted(w))
<1> DEFINE q == Sorted(w)
           d == SV_EmitPacketEntities(o, q)
<1>1. q \in Seq(Real) /\ Increasing(q) /\ Len(q) = Cardinality(DOMAIN w) /\ Len(q) <= MaxEntities
  BY SortedIs, WorldIs
<1>2. \A n \in Numbers : (\A x \in 1 .. Len(q) : q[x].number # n) => Len(q) < MaxEntities
  <2> SUFFICES ASSUME NEW n \in Numbers, \A x \in 1 .. Len(q) : q[x].number # n
               PROVE  Len(q) < MaxEntities
    OBVIOUS
  <2>1. n \notin DOMAIN w
    <3> SUFFICES ASSUME n \in DOMAIN w PROVE FALSE OBVIOUS
    <3>1. \E i \in 1 .. Len(q) : q[i] = [number |-> n, state |-> w[n]] BY SortedIs
    <3> QED BY <3>1
  <2> QED BY <1>1, <2>1, WorldIs
<1> HIDE DEF q
<1>3. IsDelta(d, o, q) BY <1>1, EmitIs
<1> HIDE DEF d
<1>4. d \in Seq(Given) /\ Increasing(d) BY <1>3 DEF IsDelta
<1> QED BY <1>1, <1>2, <1>3, <1>4, Zenon DEF Mergeable, q, d

\* A delta gives the new snapshot: the entities that CL_ParsePacketEntities puts
\* into the ring, from those of an old snapshot v that it has and what
\* SV_EmitPacketEntities makes of v and a new one w, are those of w, as long as the
\* ring has room for a whole snapshot behind the old one.
THEOREM DeltaGivesSnapshot ==
  ASSUME NEW ring \in ClientRing, NEW next \in Nat, NEW old, NEW v \in World, NEW w \in World,
         Readable(ring, next, old, Sorted(v)), MaxEntities <= MAX_PARSE_ENTITIES
  PROVE  LET p == CL_ParsePacketEntities(ring, next, old, SV_EmitPacketEntities(Sorted(v), Sorted(w)))
         IN  /\ p.num = Cardinality(DOMAIN w)
             /\ InRing([first |-> next, num |-> p.num], p.ring, MAX_PARSE_ENTITIES) = Sorted(w)
<1> DEFINE o == Sorted(v)
           q == Sorted(w)
           p == CL_ParsePacketEntities(ring, next, old, SV_EmitPacketEntities(o, q))
           f == [first |-> next, num |-> p.num]
<1>1. o \in Seq(Real) /\ Increasing(o) /\ q \in Seq(Real) /\ Len(q) = Cardinality(DOMAIN w) BY SortedIs
<1>2. Mergeable(ring, next, old, o, SV_EmitPacketEntities(o, q), q) BY <1>1, EmitMerges
<1> HIDE DEF o, q
<1>3. p.num = Len(q) /\ Written(p.ring, next, q, Len(q)) BY <1>2, MergeIs
<1> HIDE DEF p
<1>4. f.num = Len(q) /\ f.first = next BY <1>3
<1> HIDE DEF f
<1>5. \A i \in 1 .. Len(q) : p.ring[(f.first + i - 1) % MAX_PARSE_ENTITIES] = q[i] BY <1>3, <1>4 DEF Written
<1>6. InRing(f, p.ring, MAX_PARSE_ENTITIES) = q BY <1>1, <1>4, <1>5, InRingIs
<1> QED BY <1>1, <1>3, <1>6 DEF f, p, o, q

\* A snapshot sent has its frame and its entities in the server's ring.
LEMMA ServerGets ==
  ASSUME Typed, NEW world \in Worlds, NEW others \in Others, NEW base \in Nat, Sends(world, others, base),
         NEW out \in Int, out = server.outgoingSequence
  PROVE  ServerHolds(out, world)'
<1> DEFINE N == NumSnapshotEntities
           q == Sorted(world)
           first == server.next + others
           r == Put(server.ring, server.next, Filled(others))
<1>1. /\ server.frames \in [Slots -> Frame] /\ server.ring \in ServerRing /\ server.next \in Nat
      /\ others \in Nat /\ N \in Nat \ {0} /\ N >= MaxEntities
  BY Sizes DEF Typed, ServerType
<1>2. out % PACKET_BACKUP \in Slots BY <1>1, MessageSlots
<1>3. /\ q \in Seq(Real) /\ Len(q) = Cardinality(DOMAIN world) /\ Len(q) <= MaxEntities
  BY SortedIs, WorldIs DEF World
<1>4. q \in Seq(Entity) /\ Len(q) \in Nat BY <1>3, SeqNumbers
<1>5. Filled(others) \in Seq(Entity) /\ Len(Filled(others)) = others
  <2>1. NoEntity \in Entity BY Sizes DEF NoEntity, Entity
  <2> QED BY <1>1, <2>1 DEF Filled
<1>6. r \in ServerRing BY <1>1, <1>5, PutIs
<1> DEFINE f == [first |-> first, num |-> Len(q)]
<1>7. server'.frames[out % PACKET_BACKUP] = f /\ server'.ring = Put(r, first, q)
  BY <1>1, <1>2 DEF Sends
<1> HIDE DEF r, q
<1>8. \A i \in 1 .. Len(q) : server'.ring[(first + i - 1) % N] = q[i]
  <2>1. Len(q) <= N /\ first \in Nat BY <1>1, <1>3, <1>4, Sizes
  <2> HIDE DEF first
  <2>2. \A i \in 1 .. Len(q) : Put(r, first, q)[(first + i - 1) % N] = q[i] BY <1>4, <1>6, <2>1, PutIs
  <2>3. server'.ring = Put(r, first, q) BY <1>7
  <2> QED BY <2>2, <2>3
<1>9. InRing(f, server'.ring, N) = q BY <1>3, <1>8, InRingIs
<1>10. Sent(out)' = f BY <1>7 DEF Sent
<1>11. f.num = Len(q) BY DEF f
<1> HIDE DEF f
<1>12. Sent(out)'.num = Cardinality(DOMAIN world) BY <1>3, <1>10, <1>11
<1>13. InRing(Sent(out)', server'.ring, N) = q BY <1>9, <1>10
<1> QED BY <1>12, <1>13 DEF ServerHolds, q

\* What the server's ring still has of a message when a snapshot is sent.
LEMMA ServerKeeps ==
  ASSUME Typed, InStep, NEW world \in Worlds, NEW others \in Others, NEW base \in Nat,
         Sends(world, others, base), NEW a \in Int, NEW w \in World, ServerHolds(a, w),
         a < server.outgoingSequence, server.outgoingSequence - a < PACKET_BACKUP
  PROVE  ServerHolds(a, w)'
<1> DEFINE out == server.outgoingSequence
           PB == PACKET_BACKUP
           N == NumSnapshotEntities
           q == Sorted(w)
           e == Sorted(world)
           first == server.next + others
           r == Put(server.ring, server.next, Filled(others))
           f == Sent(a)
<1>1. /\ server.frames \in [Slots -> Frame] /\ server.ring \in ServerRing /\ server.next \in Nat /\ out \in Int
      /\ others \in Nat /\ N \in Nat \ {0}
  BY Sizes DEF Typed, ServerType
<1>2. out % PB \in Slots /\ a % PB \in Slots /\ a % PB # out % PB BY <1>1, MessageSlots
<1>3. e \in Seq(Entity) /\ Len(e) \in Nat BY SortedIs, SeqNumbers DEF World
<1>4. q \in Seq(Entity) /\ Len(q) = Cardinality(DOMAIN w) /\ Len(q) \in Nat BY SortedIs, SeqNumbers
<1>5. Filled(others) \in Seq(Entity) /\ Len(Filled(others)) = others
  <2>1. NoEntity \in Entity BY Sizes DEF NoEntity, Entity
  <2> QED BY <1>1, <2>1 DEF Filled
<1>6. /\ server'.frames[a % PB] = server.frames[a % PB] /\ server'.next = first + Len(e)
      /\ server'.ring = Put(r, first, e)
  BY <1>1, <1>2 DEF Sends
<1>7. Sent(a)' = f BY <1>6 DEF Sent
<1>8. f \in Frame /\ f.num = Len(q) /\ f.first + f.num <= server.next
  BY <1>1, <1>2, <1>4 DEF ServerHolds, Sent, InStep
<1>9. f.first \in Nat /\ f.num \in Nat BY <1>8 DEF Frame
<1> HIDE DEF f, r, q, e
<1>10. ASSUME f.first > server'.next - N
       PROVE  InRing(f, server'.ring, N) = q
  <2>1. InRing(f, server.ring, N) = q
    <3>1. f.first > server.next - N BY <1>1, <1>3, <1>6, <1>9, <1>10
    <3> QED BY <3>1 DEF ServerHolds, f, q
  <2>2. ASSUME NEW i \in 1 .. Len(q) PROVE server'.ring[(f.first + i - 1) % N] = q[i]
    <3> DEFINE s == f.first + i - 1
               x == s % N
    <3>1. s \in Int /\ s < server.next /\ (server.next + others + Len(e)) - s <= N
      <4>1. i \in Nat /\ 1 <= i /\ i <= f.num BY <1>4, <1>8
      <4>2. server'.next = server.next + others + Len(e) BY <1>6
      <4>3. f.first > (server.next + others + Len(e)) - N BY <1>10, <4>2
      <4> DEFINE n == server.next
                 l == Len(e)
                 y == f.first
                 u == f.num
      <4>4. /\ n \in Nat /\ l \in Nat /\ y \in Nat /\ u \in Nat /\ others \in Nat /\ N \in Nat
            /\ y + u <= n /\ i <= u /\ y > (n + others + l) - N
        BY <1>1, <1>3, <1>8, <1>9, <4>1, <4>3
      <4> HIDE DEF n, l, y, u
      <4>5. y + i - 1 \in Int /\ y + i - 1 < n /\ (n + others + l) - (y + i - 1) <= N BY <4>1, <4>4
      <4> QED BY <4>5 DEF n, l, y, u
    <3> HIDE DEF s
    <3> DEFINE n == server.next
               l == Len(e)
    <3>0. /\ n \in Nat /\ l \in Nat /\ others \in Nat /\ N \in Nat \ {0}
          /\ s \in Int /\ s < n /\ (n + others + l) - s <= N
      BY <1>1, <1>3, <3>1
    <3> HIDE DEF n, l
    <3>2. x \in 0 .. N - 1 BY <1>1, <3>1, SlotType
    <3>3. ASSUME NEW j \in 1 .. Len(Filled(others)) PROVE (server.next + j - 1) % N # x
      <4>0. j \in Nat /\ 1 <= j /\ j <= others BY <1>1, <1>5
      <4>1. n + j - 1 \in Int /\ s < n + j - 1 /\ (n + j - 1) - s < N BY <3>0, <4>0
      <4> QED BY <3>0, <4>1, SlotsApart DEF n
    <3>4. ASSUME NEW j \in 1 .. Len(e) PROVE (first + j - 1) % N # x
      <4>0. j \in Nat /\ 1 <= j /\ j <= l BY <1>3 DEF l
      <4>1. /\ n + others + j - 1 \in Int /\ s < n + others + j - 1
            /\ (n + others + j - 1) - s < N
        BY <3>0, <4>0
      <4> QED BY <3>0, <4>1, SlotsApart DEF n
    <3> HIDE DEF x
    <3>5. r \in ServerRing /\ r[x] = server.ring[x]
      <4> DEFINE g == Filled(others)
      <4>1. g \in Seq(Entity) BY <1>5
      <4>2. \A j \in 1 .. Len(g) : (server.next + j - 1) % N # x BY <3>3
      <4>0. server.ring \in ServerRing /\ server.next \in Nat BY <1>1
      <4>3. Put(server.ring, server.next, g) \in ServerRing BY <4>0, <4>1, PutIs
      <4>4. Put(server.ring, server.next, g)[x] = server.ring[x]
        <5>1. \A j \in 1 .. Len(g) : (server.next + j - 1) % NumSnapshotEntities # x BY <4>2
        <5>2. x \in 0 .. NumSnapshotEntities - 1 BY <3>2
        <5> HIDE DEF g, N
        <5> QED BY <4>0, <4>1, <5>1, <5>2, PutIs
      <4> QED BY <4>3, <4>4 DEF r, g
    <3>6. first \in Nat BY <1>1
    <3> HIDE DEF first
    <3>7. Put(r, first, e)[x] = r[x] BY <1>3, <3>2, <3>4, <3>5, <3>6, PutIs
    <3>8. server.ring[x] = q[i] BY <1>4, <1>8, <2>1, InRingIs DEF x, s
    <3> QED BY <1>6, <3>5, <3>7, <3>8 DEF x, s
  <2> QED BY <1>4, <1>8, <2>2, InRingIs
<1> QED BY <1>4, <1>7, <1>8, <1>10 DEF ServerHolds, q

\* A snapshot that is valid after a message is the new one, or as it was.
LEMMA OldOrNew ==
  ASSUME Typed, NEW m \in SnapshotMessage, Parses(m), ValidDelta(m),
         NEW k \in Slots, client'.snapshots[k].valid
  PROVE  \/ k = m.sequence % PACKET_BACKUP /\ client'.snapshots[k] = KeptOf(m)
         \/ client'.snapshots[k] = client.snapshots[k]
<1>1. client'.snapshots = [x \in Slots |->
        IF x = m.sequence % PACKET_BACKUP THEN KeptOf(m)
        ELSE IF \E n \in Lost(m) : n % PACKET_BACKUP = x THEN [client.snapshots[x] EXCEPT !.valid = FALSE]
        ELSE client.snapshots[x]]
  BY DEF Parses
<1>2. client.snapshots[k] \in Kept BY DEF Typed, ClientType
<1>3. ~ [client.snapshots[k] EXCEPT !.valid = FALSE].valid BY <1>2 DEF Kept
<1> QED BY <1>1, <1>3

\* What the client parses: the delta is valid, and the new frame is what the server
\* built, put behind the others.
LEMMA ParsedFits ==
  ASSUME Fits, Typed, InStep, FramesKnown, Known, NEW m \in SnapshotMessage, Comes(m), Parses(m)
  PROVE  /\ ValidDelta(m)
         /\ ParsedOf(m).num = Cardinality(DOMAIN m.built)
         /\ Written(client'.ring, client.next, Sorted(m.built), Len(Sorted(m.built)))
         /\ Untouched(client'.ring, client.ring, client.next, Len(Sorted(m.built)))
<1> DEFINE base == m.base
           old == OldFrame(m)
           s == Snap(base)
           o == IF base = 0 THEN <<>> ELSE Sorted(s.built)
           q == Sorted(m.built)
           M == MAX_PARSE_ENTITIES
<1>1. /\ base \in Nat /\ m.snapshot /\ m.built \in World /\ m.sequence \in Nat
      /\ toClient # <<>> /\ toClient[1] = m /\ Coming
      /\ client.ring \in ClientRing /\ client.next \in Nat /\ client.snapshots \in [Slots -> Kept]
      /\ M \in Nat /\ PARSE_MARGIN \in Nat \ {0} /\ M >= PARSE_MARGIN /\ MaxEntities \in Nat
      /\ MaxEntities <= PARSE_MARGIN
  BY Sizes DEF SnapshotMessage, World, Comes, Coming, Typed, ClientType, Fits
<1>2. base % PACKET_BACKUP \in Slots BY <1>1, MessageSlots
<1>3. s \in Kept /\ s.first \in Nat /\ s.num \in Nat /\ s.built \in World
  <2>1. s \in Kept BY <1>1, <1>2 DEF Snap
  <2> QED BY <2>1 DEF Kept
<1>4. base > 0 => /\ Has(base) /\ client.next - s.first <= M - PARSE_MARGIN
                  /\ s.num = Cardinality(DOMAIN s.built) /\ ClientHolds(s)
                  /\ s.first + s.num <= client.next /\ old = s
  <2> SUFFICES ASSUME base > 0
               PROVE  /\ Has(base) /\ client.next - s.first <= M - PARSE_MARGIN
                      /\ s.num = Cardinality(DOMAIN s.built) /\ ClientHolds(s)
                      /\ s.first + s.num <= client.next /\ old = s
    OBVIOUS
  <2>1. Has(base) /\ client.next - s.first <= M - PARSE_MARGIN BY <1>1 DEF FramesKnown, Known, CountsKnown
  <2>2. old = s BY DEF OldFrame, Snap
  <2>3. s.first + s.num <= client.next BY <1>2 DEF Snap, InStep
  <2>4. s.valid BY <2>1 DEF Has
  <2>5. client.next - s.first < M
    <3> DEFINE n == client.next
               y == s.first
    <3>1. n \in Nat /\ y \in Nat /\ n - y <= M - PARSE_MARGIN BY <1>1, <1>3, <2>1
    <3> HIDE DEF n, y
    <3>2. n - y < M BY <1>1, <3>1
    <3> QED BY <3>2 DEF n, y
  <2>6. s.num = Cardinality(DOMAIN s.built) /\ ClientHolds(s)
    BY <1>2, <2>4, <2>5 DEF Known, ClientRingKnown, Snap
  <2> QED BY <2>1, <2>2, <2>3, <2>6
<1>5. ValidDelta(m)
  <2>1. CASE base = 0 BY <2>1 DEF ValidDelta
  <2>2. CASE base # 0
    <3>1. base > 0 BY <1>1, <2>2
    <3>2. s.valid /\ s.message = base /\ old = s /\ client.next - s.first <= M - PARSE_MARGIN
      BY <1>4, <3>1 DEF Has
    <3> QED BY <3>2 DEF ValidDelta
  <2> QED BY <2>1, <2>2
<1>6. /\ q \in Seq(Real) /\ Increasing(q) /\ Len(q) = Cardinality(DOMAIN m.built) /\ Len(q) <= MaxEntities
      /\ Len(q) \in Nat
  BY <1>1, SortedIs, WorldIs
<1>7. o \in Seq(Real) /\ Increasing(o) /\ Len(o) \in Nat
  <2>1. CASE base = 0 BY <2>1 DEF Increasing
  <2>2. CASE base # 0 BY <1>3, <2>2, SortedIs
  <2> QED BY <2>1, <2>2
<1>8. Readable(client.ring, client.next, old, o)
  <2>1. CASE base = 0 BY <2>1 DEF Readable, OldFrame
  <2>2. CASE base # 0
    <3>1. base > 0 BY <1>1, <2>2
    <3>2. o = Sorted(s.built) /\ Len(o) = Cardinality(DOMAIN s.built) BY <1>3, <2>2, SortedIs
    <3>3. old.first = s.first /\ old.num = s.num /\ s.num = Len(o) BY <1>4, <3>1, <3>2
    <3> HIDE DEF o, s, old
    <3>4. InRing(s, client.ring, M) = o BY <1>4, <3>1, <3>2 DEF ClientHolds
    <3>5. \A i \in 1 .. Len(o) : client.ring[(s.first + i - 1) % M] = o[i] BY <1>7, <3>3, <3>4, InRingIs
    <3>6. \A i \in 1 .. Len(o) : client.ring[(old.first + (i - 1)) % M] = o[i]
      <4> TAKE i \in 1 .. Len(o)
      <4>1. old.first + (i - 1) = s.first + i - 1 BY <1>3, <1>7, <3>3
      <4> QED BY <3>5, <4>1
    <3>7. client.next - s.first + MaxEntities <= M
      <4> DEFINE n == client.next
                 y == s.first
      <4>1. n \in Nat /\ y \in Nat /\ n - y <= M - PARSE_MARGIN BY <1>1, <1>3, <1>4, <3>1
      <4> HIDE DEF n, y
      <4>2. n - y + MaxEntities <= M BY <1>1, <4>1
      <4> QED BY <4>2 DEF n, y
    <3>8. old.first + old.num <= client.next /\ client.next - old.first + MaxEntities <= M
      BY <1>4, <3>1, <3>3, <3>7
    <3> QED BY <1>3, <3>3, <3>6, <3>8 DEF Readable
  <2> QED BY <2>1, <2>2
<1>9. m.entities = SV_EmitPacketEntities(o, q) BY <1>1 DEF Known, ClientRingKnown
<1>10. Mergeable(client.ring, client.next, old, o, m.entities, q)
  <2>1. MaxEntities <= M BY <1>1
  <2> HIDE DEF o, old
  <2> QED BY <1>1, <1>7, <1>8, <1>9, <2>1, EmitMerges
<1> HIDE DEF o, q, old
<1>11. /\ ParsedOf(m).num = Len(q)
       /\ Written(ParsedOf(m).ring, client.next, q, Len(q))
       /\ Untouched(ParsedOf(m).ring, client.ring, client.next, Len(q))
  BY <1>10, MergeIs DEF ParsedOf, old
<1>12. client'.ring = ParsedOf(m).ring BY DEF Parses
<1> QED BY <1>5, <1>6, <1>11, <1>12 DEF q

\* What is less than the client's ring behind stays there when a snapshot is put.
LEMMA ClientKeeps ==
  ASSUME Typed, InStep, NEW m \in SnapshotMessage, Parses(m), NEW k \in Slots, NEW q \in Seq(Real),
         ParsedOf(m).num = Len(q), Untouched(client'.ring, client.ring, client.next, Len(q)),
         client.snapshots[k].num = Cardinality(DOMAIN client.snapshots[k].built),
         client'.next - client.snapshots[k].first < MAX_PARSE_ENTITIES,
         ClientHolds(client.snapshots[k])
  PROVE  InRing(client.snapshots[k], client'.ring, MAX_PARSE_ENTITIES) = Sorted(client.snapshots[k].built)
<1> DEFINE s == client.snapshots[k]
           o == Sorted(s.built)
           M == MAX_PARSE_ENTITIES
           n == client.next
           l == Len(q)
           y == s.first
<1>1. /\ s \in Kept /\ n \in Nat /\ M \in Nat \ {0} /\ l \in Nat /\ MaxEntities \in Nat
      /\ client.ring \in ClientRing
  BY Sizes DEF Typed, ClientType
<1>2. y \in Nat /\ s.num \in Nat /\ s.built \in World BY <1>1 DEF Kept
<1>3. o \in Seq(Real) /\ s.num = Len(o) /\ Len(o) \in Nat BY <1>2, SortedIs
<1>4. y + Len(o) <= n
  <2>1. s.first + s.num <= client.next BY DEF InStep
  <2> QED BY <1>3, <2>1
<1>5. (n + l) - y < M
  <2>1. client'.next = n + l BY DEF Parses
  <2> QED BY <2>1
<1>6. InRing(s, client.ring, M) = o BY DEF ClientHolds
<1>7. ASSUME NEW i \in 1 .. Len(o) PROVE client'.ring[(s.first + i - 1) % M] = o[i]
  <2> HIDE DEF o, l, n, y, s
  <2> DEFINE u == y + i - 1
             x == u % M
  <2>1. i \in Nat /\ 1 <= i /\ i <= Len(o) BY <1>3
  <2>2. u \in Int /\ u < n /\ (n + l) - u < M BY <1>1, <1>2, <1>3, <1>4, <1>5, <2>1
  <2> HIDE DEF u
  <2>3. x \in 0 .. M - 1 BY <1>1, <2>2, SlotType
  <2>4. ASSUME NEW t \in 0 .. l, t < MaxEntities PROVE x # (n + t) % M
    <3>1. n + t \in Int /\ u < n + t /\ (n + t) - u < M BY <1>1, <2>2
    <3> QED BY <1>1, <2>2, <3>1, SlotsApart
  <2> HIDE DEF x
  <2>5. client'.ring[x] = client.ring[x] BY <2>3, <2>4 DEF Untouched, l, n
  <2>6. client.ring[(s.first + i - 1) % M] = o[i] BY <1>3, <1>6, InRingIs
  <2> QED BY <2>5, <2>6 DEF x, u, y
<1> HIDE DEF s, o
<1>8. InRing(s, client'.ring, M) = o BY <1>3, <1>7, InRingIs
<1> QED BY <1>8 DEF s, o
----------------------------------------------------------------------------
(* What is known stays known.                                              *)

\* What is under way has so many entities.
LEMMA AddedIs ==
  ASSUME Typed
  PROVE  /\ Added \in Nat
         /\ \A m \in SnapshotMessage : toClient = <<m>> => Added = Cardinality(DOMAIN m.built)
<1>1. ASSUME NEW m \in SnapshotMessage
      PROVE  Cardinality(DOMAIN m.built) \in Nat /\ m.snapshot
  BY WorldIs DEF SnapshotMessage, World
<1>2. CASE toClient = <<>> BY <1>2 DEF Added, Coming
<1>3. ASSUME NEW m \in SnapshotMessage, toClient = <<m>> PROVE Added = Cardinality(DOMAIN m.built)
  BY <1>1, <1>3 DEF Added, Coming
<1>4. ASSUME NEW m \in OtherMessage, toClient = <<m>> PROVE Added = 0
  BY <1>4 DEF Added, Coming, OtherMessage
<1>5. Added \in Nat BY <1>1, <1>2, <1>3, <1>4 DEF Typed
<1> QED BY <1>3, <1>5

\* One message more, with num entities in its frame, is counted as so many more.
LEMMA CountsOne ==
  ASSUME NEW frames \in [Slots -> Frame], NEW then \in [Slots -> Frame], NEW out \in Nat, NEW a \in Nat,
         a <= out, out - a < PACKET_BACKUP,
         \A k \in Slots : k # out % PACKET_BACKUP => then[k] = frames[k]
  PROVE  /\ Counted(frames, a, out) \in Nat
         /\ Counted(then, a, out + 1) = Counted(frames, a, out) + then[out % PACKET_BACKUP].num
         /\ then[out % PACKET_BACKUP].num \in Nat
<1>1. ASSUME NEW i \in a .. out - 1 PROVE frames[i % PACKET_BACKUP] = then[i % PACKET_BACKUP]
  <2>1. i \in Int /\ out \in Int /\ i < out /\ out - i < PACKET_BACKUP BY Sizes
  <2>2. i % PACKET_BACKUP \in Slots /\ i % PACKET_BACKUP # out % PACKET_BACKUP BY <2>1, MessageSlots
  <2> QED BY <2>2
<1>2. Counted(frames, a, out) = Counted(then, a, out) BY <1>1, CountedSame
<1>3. /\ Counted(then, a, out) \in Nat
      /\ Counted(then, a, out + 1) = Counted(then, a, out) + then[out % PACKET_BACKUP].num
  BY CountedIs
<1>4. out % PACKET_BACKUP \in Slots
  <2>1. out \in Int OBVIOUS
  <2> QED BY <2>1, MessageSlots
<1>5. then[out % PACKET_BACKUP].num \in Nat BY <1>4 DEF Frame
<1> QED BY <1>2, <1>3, <1>5

\* A message that the client has after another is that or one that it had.
LEMMA HadOrNew ==
  ASSUME Typed, InStep, FramesKnown, NEW m \in SnapshotMessage, Comes(m), Parses(m), ValidDelta(m),
         NEW a \in Nat, Has(a)'
  PROVE  \/ a = m.sequence /\ Snap(a)' = KeptOf(m)
         \/ Has(a) /\ Snap(a)' = Snap(a)
<1>1. a \in Int BY DEF SnapshotMessage
<1>2. a % PACKET_BACKUP \in Slots BY <1>1, MessageSlots
<1>3. client'.snapshots[a % PACKET_BACKUP].valid /\ client'.snapshots[a % PACKET_BACKUP].message = a
  BY DEF Has, Snap
<1>4. CASE client'.snapshots[a % PACKET_BACKUP] = KeptOf(m)
  <2>1. KeptOf(m).message = m.sequence BY DEF KeptOf
  <2> QED BY <1>3, <1>4, <2>1 DEF Snap
<1>5. CASE client'.snapshots[a % PACKET_BACKUP] = client.snapshots[a % PACKET_BACKUP]
  BY <1>3, <1>5 DEF Has, Snap
<1> QED BY <1>2, <1>3, <1>4, <1>5, OldOrNew

\* The server's count stays an upper bound.
LEMMA CountsKnownStep ==
  ASSUME Fits, Typed, Typed', InStep, FramesKnown, Known, [Next]_vars
  PROVE  CountsKnown'
<1> DEFINE out == server.outgoingSequence
           dm == server.deltaMessage
<1>1. /\ out \in Nat \ {0} /\ client.snap \in Nat /\ client.next \in Nat /\ dm \in Int
      /\ server.frames \in [Slots -> Frame] /\ server'.frames \in [Slots -> Frame]
      /\ client.snap < out /\ PACKET_BACKUP \in Nat /\ MAX_PARSE_ENTITIES \in Nat /\ PARSE_MARGIN \in Nat
      /\ server.parseEntitiesNum \in Nat /\ Added \in Nat
  <2>1. /\ PACKET_BACKUP \in Nat /\ MAX_PARSE_ENTITIES \in Nat /\ PARSE_MARGIN \in Nat /\ Added \in Nat
    BY Sizes, AddedIs
  <2>2. /\ out \in Nat \ {0} /\ dm \in Int /\ server.frames \in [Slots -> Frame]
        /\ server.parseEntitiesNum \in Nat /\ server'.frames \in [Slots -> Frame]
    BY DEF Typed, ServerType
  <2>3. client.snap \in Nat /\ client.message \in Nat /\ client.next \in Nat BY DEF Typed, ClientType
  <2>4. client.snap < out
    <3>1. client.message < out /\ client.snap <= client.message BY DEF InStep
    <3> QED BY <2>2, <2>3, <3>1
  <2> QED BY <2>1, <2>2, <2>3, <2>4
<1>2. ASSUME NEW a \in Int PROVE Snap(a).first \in Nat
  <2>1. Snap(a) \in Kept BY MessageSlots DEF Snap, Typed, ClientType
  <2> QED BY <2>1 DEF Kept
<1>3. ASSUME NEW a \in 1 .. client.snap, Has(a), Recent(a)
      PROVE  client.next + Added - Snap(a).first <= Counted(server.frames, a, out)
  BY <1>3 DEF Known, CountsKnown
<1>4. dm > 0 /\ Recent(dm) => Has(dm) /\ dm \in 1 .. client.snap
                              /\ client.next + Added - Snap(dm).first <= server.parseEntitiesNum
  BY <1>1, HadBefore DEF FramesKnown, Known, CountsKnown
<1>5. CASE UNCHANGED vars
  BY <1>5 DEF vars, Known, CountsKnown, Has, Snap, Recent, Coming, Added
<1>6. ASSUME NEW world \in Worlds, NEW others \in Others, NEW base \in Nat, Sends(world, others, base)
      PROVE  CountsKnown'
  <2> DEFINE c == Cardinality(DOMAIN world)
             full == server.parseEntitiesNum > MAX_PARSE_ENTITIES - PARSE_MARGIN
  <2>1. c \in Nat /\ Len(Sorted(world)) = c BY WorldIs, SortedIs DEF World
  <2>2. /\ server'.outgoingSequence = out + 1 /\ UNCHANGED <<client, toServer>>
        /\ server'.frames = [server.frames EXCEPT
             ![out % PACKET_BACKUP] = [first |-> server.next + others, num |-> c]]
        /\ \/ full /\ server'.deltaMessage = -1
           \/ ~ full /\ server'.deltaMessage = dm /\ server'.parseEntitiesNum = server.parseEntitiesNum + c
        /\ base = 0 \/ (base = dm /\ base > 0 /\ ~ full /\ out - base < PACKET_BACKUP - DELTA_MARGIN)
        /\ Coming' /\ toClient'[1].base = base /\ Added' = c
    BY <1>6, <2>1 DEF Sends, Coming, Added
  <2>3. out % PACKET_BACKUP \in Slots BY <1>1, MessageSlots
  <2>4. \A a \in Int : Recent(a)' => Recent(a) /\ out - a < PACKET_BACKUP BY <1>1, <2>2 DEF Recent
  <2>5. \A a \in Int : Snap(a)' = Snap(a) /\ (Has(a)' <=> Has(a)) BY <2>2 DEF Has, Snap
  <2> HIDE DEF c
  <2>6. ASSUME NEW a \in 1 .. client'.snap, Has(a)', Recent(a)'
        PROVE  client'.next + Added' - Snap(a)'.first <= Counted(server'.frames, a, server'.outgoingSequence)
    <3>1. a \in Int /\ a \in Nat /\ a \in 1 .. client.snap /\ a <= out BY <1>1, <2>2
    <3>2. Has(a) /\ Recent(a) /\ out - a < PACKET_BACKUP /\ Snap(a)' = Snap(a) BY <2>4, <2>5, <2>6, <3>1
    <3>3. /\ Counted(server.frames, a, out) \in Nat
          /\ Counted(server'.frames, a, out + 1)
               = Counted(server.frames, a, out) + server'.frames[out % PACKET_BACKUP].num
      <4>1. \A k \in Slots : k # out % PACKET_BACKUP => server'.frames[k] = server.frames[k] BY <1>1, <2>2
      <4> DEFINE f == server.frames
                 g == server'.frames
      <4>2. /\ f \in [Slots -> Frame] /\ g \in [Slots -> Frame] /\ out \in Nat
            /\ \A k \in Slots : k # out % PACKET_BACKUP => g[k] = f[k]
        BY <1>1, <4>1
      <4> HIDE DEF f, g
      <4>3. Counted(f, a, out) \in Nat /\ Counted(g, a, out + 1) = Counted(f, a, out) + g[out % PACKET_BACKUP].num
        BY <3>1, <3>2, <4>2, CountsOne
      <4> QED BY <4>3 DEF f, g
    <3>4. server'.frames[out % PACKET_BACKUP].num = c BY <1>1, <2>2, <2>3
    <3> DEFINE n == client.next
               y == Snap(a).first
               k == Counted(server.frames, a, out)
    <3>5. n \in Nat /\ y \in Nat /\ k \in Nat /\ n + Added - y <= k BY <1>1, <1>2, <1>3, <3>1, <3>2, <3>3
    <3> HIDE DEF n, y, k
    <3>6. n + c - y <= k + c BY <1>1, <2>1, <3>5
    <3> QED BY <2>2, <3>2, <3>3, <3>4, <3>6 DEF n, y, k
  <2>7. ASSUME server'.deltaMessage > 0, Recent(server.deltaMessage)'
        PROVE  client'.next + Added' - Snap(server.deltaMessage)'.first <= server'.parseEntitiesNum
    <3>1. ~ full /\ server'.deltaMessage = dm /\ server'.parseEntitiesNum = server.parseEntitiesNum + c
      BY <2>2, <2>7
    <3>2. dm > 0 /\ Recent(dm) BY <1>1, <2>2, <2>7, <3>1 DEF Recent
    <3>3. Snap(server.deltaMessage)' = Snap(dm) BY <2>2, <3>1 DEF Snap
    <3> DEFINE n == client.next
               y == Snap(dm).first
               k == server.parseEntitiesNum
    <3>4. n \in Nat /\ y \in Nat /\ k \in Nat /\ n + Added - y <= k BY <1>1, <1>2, <1>4, <3>2
    <3> HIDE DEF n, y, k
    <3>5. n + c - y <= k + c BY <1>1, <2>1, <3>4
    <3> QED BY <2>2, <3>1, <3>3, <3>5 DEF n, y, k
  <2>8. ASSUME base > 0
        PROVE  client'.next - Snap(toClient[1].base)'.first <= MAX_PARSE_ENTITIES - PARSE_MARGIN
    <3>1. base = dm /\ ~ full /\ Recent(dm) /\ dm > 0 BY <1>1, <2>2, <2>8, Sizes DEF Recent
    <3>2. Snap(toClient[1].base)' = Snap(dm) BY <2>2, <3>1 DEF Snap
    <3> DEFINE n == client.next
               y == Snap(dm).first
               k == server.parseEntitiesNum
    <3>3. n \in Nat /\ y \in Nat /\ k \in Nat /\ n + Added - y <= k BY <1>1, <1>2, <1>4, <3>1
    <3>4. k <= MAX_PARSE_ENTITIES - PARSE_MARGIN BY <1>1, <3>1
    <3> HIDE DEF n, y, k
    <3>5. n - y <= MAX_PARSE_ENTITIES - PARSE_MARGIN BY <1>1, <3>3, <3>4
    <3> QED BY <2>2, <3>2, <3>5 DEF n, y
  <2> QED BY <2>2, <2>6, <2>7, <2>8 DEF CountsKnown
<1>7. CASE SendsOther
  <2>1. /\ server'.outgoingSequence = out + 1 /\ server'.deltaMessage = dm
        /\ server'.parseEntitiesNum = server.parseEntitiesNum
        /\ server'.frames = server.frames /\ UNCHANGED <<client, toServer>>
        /\ ~ Coming' /\ Added' = 0
    BY <1>7 DEF SendsOther, Coming, Added
  <2>2. ASSUME NEW a \in 1 .. client'.snap, Has(a)', Recent(a)'
        PROVE  client'.next + Added' - Snap(a)'.first <= Counted(server'.frames, a, server'.outgoingSequence)
    <3>1. a \in Int /\ a \in Nat /\ a \in 1 .. client.snap /\ a <= out BY <1>1, <2>1
    <3>2. Has(a) /\ Recent(a) /\ out - a < PACKET_BACKUP /\ Snap(a)' = Snap(a)
      BY <1>1, <2>1, <2>2, <3>1 DEF Has, Recent, Snap
    <3>3. /\ Counted(server.frames, a, out) \in Nat
          /\ Counted(server.frames, a, out + 1)
               = Counted(server.frames, a, out) + server.frames[out % PACKET_BACKUP].num
          /\ server.frames[out % PACKET_BACKUP].num \in Nat
      BY <1>1, <3>1, <3>2, CountsOne
    <3> DEFINE n == client.next
               y == Snap(a).first
               k == Counted(server.frames, a, out)
               c == server.frames[out % PACKET_BACKUP].num
    <3>4. n \in Nat /\ y \in Nat /\ k \in Nat /\ c \in Nat /\ n + Added - y <= k
      BY <1>1, <1>2, <1>3, <3>1, <3>2, <3>3
    <3> HIDE DEF n, y, k, c
    <3>5. n + 0 - y <= k + c BY <1>1, <3>4
    <3> QED BY <2>1, <3>2, <3>3, <3>5 DEF n, y, k, c
  <2>3. ASSUME server'.deltaMessage > 0, Recent(server.deltaMessage)'
        PROVE  client'.next + Added' - Snap(server.deltaMessage)'.first <= server'.parseEntitiesNum
    <3>1. dm > 0 /\ Recent(dm) BY <1>1, <2>1, <2>3 DEF Recent
    <3>2. Snap(server.deltaMessage)' = Snap(dm) BY <2>1 DEF Snap
    <3> DEFINE n == client.next
               y == Snap(dm).first
               k == server.parseEntitiesNum
    <3>3. n \in Nat /\ y \in Nat /\ k \in Nat /\ n + Added - y <= k BY <1>1, <1>2, <1>4, <3>1
    <3> HIDE DEF n, y, k
    <3>4. n + 0 - y <= k BY <1>1, <3>3
    <3> QED BY <2>1, <3>2, <3>4 DEF n, y, k
  <2> QED BY <2>1, <2>2, <2>3 DEF CountsKnown
<1>8. ASSUME NEW p \in Packet, Moves(p) PROVE CountsKnown'
  <2>1. /\ server'.outgoingSequence = out /\ server'.frames = server.frames
        /\ toServer = <<p>> /\ UNCHANGED <<client, toClient>>
        /\ \/ p.delta /\ server'.deltaMessage = p.acknowledge
              /\ server'.parseEntitiesNum = Counted(server.frames, p.acknowledge, out)
           \/ server'.deltaMessage = -1
    BY <1>8 DEF Moves
  <2>2. ASSUME server'.deltaMessage > 0, Recent(server.deltaMessage)'
        PROVE  client'.next + Added' - Snap(server.deltaMessage)'.first <= server'.parseEntitiesNum
    <3> DEFINE a == p.acknowledge
    <3>1. /\ p.delta /\ server'.deltaMessage = a /\ a \in Int
          /\ server'.parseEntitiesNum = Counted(server.frames, a, out)
      BY <2>1, <2>2 DEF Packet
    <3>2. Recent(a) BY <2>1, <2>2, <3>1 DEF Recent
    <3>3. Has(a) BY <2>1, <3>1, <3>2 DEF FramesKnown
    <3>4. client.next + Added - Snap(a).first <= Counted(server.frames, a, out)
      BY <1>3, <3>1, <3>2, <3>3, HadBefore
    <3>5. Snap(server.deltaMessage)' = Snap(a) /\ Added' = Added BY <2>1, <3>1 DEF Snap, Added, Coming
    <3> QED BY <2>1, <3>1, <3>4, <3>5
  <2>3. /\ Added' = Added /\ (Coming' <=> Coming)
        /\ \A a : Snap(a)' = Snap(a) /\ (Has(a)' <=> Has(a)) /\ (Recent(a)' <=> Recent(a))
    BY <2>1 DEF Added, Coming, Snap, Has, Recent
  <2>4. Coming' /\ toClient'[1].base > 0 =>
          client'.next - Snap(toClient[1].base)'.first <= MAX_PARSE_ENTITIES - PARSE_MARGIN
    BY <2>1, <2>3 DEF Known, CountsKnown, Snap
  <2> QED BY <2>1, <2>2, <2>3, <2>4 DEF Known, CountsKnown
<1>9. ASSUME NEW m \in SnapshotMessage, Comes(m), Parses(m) PROVE CountsKnown'
  <2> DEFINE c == Cardinality(DOMAIN m.built)
  <2>1. ValidDelta(m) /\ ParsedOf(m).num = c BY <1>9, ParsedFits
  <2>2. /\ m.sequence = out - 1 /\ toClient = <<m>> /\ Coming /\ toClient[1] = m
        /\ UNCHANGED <<server, toServer>> /\ ~ Coming' /\ Added' = 0 /\ Added = c
        /\ c \in Nat
    BY <1>1, <1>9, AddedIs DEF Comes, InStep, Coming, Added, SnapshotMessage
  <2>3. client'.next = client.next + c /\ client'.snap = m.sequence BY <1>9, <2>1 DEF Parses
  <2> HIDE DEF c
  <2>4. ASSUME NEW a \in 1 .. client'.snap, Has(a)', Recent(a)'
        PROVE  client'.next + Added' - Snap(a)'.first <= Counted(server'.frames, a, server'.outgoingSequence)
    <3>1. a \in Nat /\ a \in Int /\ Recent(a) BY <2>2, <2>4 DEF Recent
    <3>2. CASE a = m.sequence /\ Snap(a)' = KeptOf(m)
      <4>1. Snap(a)'.first = client.next BY <3>2 DEF KeptOf
      <4>2. Sent(a).num = c BY <2>2, <3>2 DEF Known, ServerRingKnown, ServerHolds, c
      <4>3. /\ Counted(server.frames, a, a) = 0
            /\ Counted(server.frames, a, a + 1)
                 = Counted(server.frames, a, a) + server.frames[a % PACKET_BACKUP].num
        <5>1. a >= a BY <3>1
        <5> DEFINE f == server.frames
        <5>2. f \in [Slots -> Frame] BY <1>1
        <5> HIDE DEF f
        <5>3. Counted(f, a, a) = 0 /\ Counted(f, a, a + 1) = Counted(f, a, a) + f[a % PACKET_BACKUP].num
          BY <3>1, <5>1, <5>2, CountedIs
        <5> QED BY <5>3 DEF f
      <4>4. out = a + 1 BY <1>1, <2>2, <3>2
      <4>5. Counted(server.frames, a, out) = c BY <2>2, <4>2, <4>3, <4>4 DEF Sent
      <4> DEFINE n == client.next
      <4>6. n \in Nat /\ (n + c) + 0 - n <= c BY <1>1, <2>2
      <4> QED BY <2>2, <2>3, <4>1, <4>5, <4>6
    <3>3. CASE Has(a) /\ Snap(a)' = Snap(a)
      <4>1. client.next + Added - Snap(a).first <= Counted(server.frames, a, out)
        BY <1>3, <3>1, <3>3, HadBefore
      <4> DEFINE n == client.next
                 y == Snap(a).first
      <4>2. n \in Nat /\ y \in Nat BY <1>1, <1>2, <3>1
      <4> HIDE DEF n, y
      <4>3. (n + c) + 0 - y = n + c - y BY <2>2, <4>2
      <4> QED BY <2>2, <2>3, <3>3, <4>1, <4>3 DEF n, y
    <3> QED BY <1>9, <2>1, <2>4, <3>1, <3>2, <3>3, HadOrNew
  <2>5. ASSUME server'.deltaMessage > 0, Recent(server.deltaMessage)'
        PROVE  client'.next + Added' - Snap(server.deltaMessage)'.first <= server'.parseEntitiesNum
    <3>1. dm > 0 /\ Recent(dm) BY <2>2, <2>5 DEF Recent
    <3>2. \A a \in Int : Has(a) /\ Recent(a) => Snap(a)' = Snap(a) BY <1>9, HadStays
    <3>3. Snap(server.deltaMessage)' = Snap(dm)
      <4>1. PICK a \in Int : a = dm BY <1>1
      <4>2. Snap(a)' = Snap(a) BY <1>4, <3>1, <3>2, <4>1
      <4> QED BY <2>2, <4>1, <4>2 DEF Snap
    <3> DEFINE n == client.next
               y == Snap(dm).first
    <3>4. n \in Nat /\ y \in Nat /\ n + c - y <= server.parseEntitiesNum BY <1>1, <1>2, <1>4, <2>2, <3>1
    <3> HIDE DEF n, y
    <3>5. (n + c) + 0 - y = n + c - y BY <2>2, <3>4
    <3> QED BY <2>2, <2>3, <3>3, <3>4, <3>5 DEF n, y
  <2> QED BY <2>2, <2>4, <2>5 DEF CountsKnown
<1>10. ASSUME NEW m \in OtherMessage, Passes(m) PROVE CountsKnown'
  <2>1. /\ client'.snap = client.snap /\ client'.snapshots = client.snapshots /\ client'.next = client.next
        /\ UNCHANGED <<server, toServer>> /\ ~ Coming' /\ Added' = 0 /\ Added = 0
    BY <1>10 DEF Passes, Comes, Coming, Added, OtherMessage
  <2> QED BY <2>1 DEF Known, CountsKnown, Has, Snap, Recent
<1>11. CASE Writes
  BY <1>11 DEF Writes, Known, CountsKnown, Has, Snap, Recent, Coming, Added
<1> QED BY <1>5, <1>6, <1>7, <1>8, <1>9, <1>10, <1>11, StepIs

\* The server's ring keeps the entities of what it does not take for overwritten.
LEMMA ServerRingKnownStep ==
  ASSUME Fits, Typed, InStep, FramesKnown, Known, [Next]_vars
  PROVE  ServerRingKnown'
<1> DEFINE out == server.outgoingSequence
<1>1. /\ out \in Nat \ {0} /\ out \in Int /\ client.snap \in Nat /\ client.snap < out /\ PACKET_BACKUP \in Nat
      /\ client.snapshots \in [Slots -> Kept]
  BY Sizes DEF Typed, ServerType, ClientType, InStep
<1>2. ASSUME NEW a \in Int PROVE Snap(a) \in Kept /\ Snap(a).built \in World
  <2>1. Snap(a) \in Kept BY <1>1, MessageSlots DEF Snap
  <2> QED BY <2>1 DEF Kept
<1>3. ASSUME NEW a \in 1 .. client.snap, Has(a), Recent(a) PROVE ServerHolds(a, Snap(a).built)
  BY <1>3 DEF Known, ServerRingKnown
<1>4. CASE UNCHANGED vars
  BY <1>4 DEF vars, Known, ServerRingKnown, ServerHolds, Has, Snap, Recent, Coming, Sent
<1>5. ASSUME NEW world \in Worlds, NEW others \in Others, NEW base \in Nat, Sends(world, others, base)
      PROVE  ServerRingKnown'
  <2>1. /\ server'.outgoingSequence = out + 1 /\ UNCHANGED <<client, toServer>>
        /\ toClient'[1].sequence = out /\ toClient'[1].built = world
    BY <1>5 DEF Sends
  <2>2. ASSUME NEW a \in 1 .. client'.snap, Has(a)', Recent(a)'
        PROVE  ServerHolds(a, Snap(a).built)'
    <3>1. a \in Int /\ a \in 1 .. client.snap /\ a < out BY <1>1, <2>1
    <3>2. Has(a) /\ Recent(a) /\ out - a < PACKET_BACKUP BY <1>1, <2>1, <2>2, <3>1 DEF Has, Snap, Recent
    <3> DEFINE w == Snap(a).built
    <3>3. w \in World /\ ServerHolds(a, w) BY <1>2, <1>3, <3>1, <3>2
    <3>4. PICK v \in World : v = w BY <3>3
    <3>5. ServerHolds(a, v)' BY <1>5, <3>1, <3>2, <3>3, <3>4, ServerKeeps
    <3>6. v = Snap(a)'.built BY <2>1, <3>4 DEF Snap
    <3> QED BY <3>5, <3>6 DEF ServerHolds
  <2>3. ServerHolds(toClient[1].sequence, toClient[1].built)'
    <3>1. PICK o \in Int : o = out BY <1>1
    <3>2. ServerHolds(o, world)' BY <1>5, <3>1, ServerGets
    <3> QED BY <2>1, <3>1, <3>2 DEF ServerHolds, Sent
  <2> QED BY <2>2, <2>3 DEF ServerRingKnown
<1>6. CASE SendsOther
  <2>1. /\ server'.outgoingSequence = out + 1 /\ server'.frames = server.frames /\ server'.next = server.next
        /\ server'.ring = server.ring /\ UNCHANGED <<client, toServer>> /\ ~ Coming'
    BY <1>6 DEF SendsOther, Coming
  <2>2. ASSUME NEW a \in 1 .. client'.snap, Has(a)', Recent(a)'
        PROVE  ServerHolds(a, Snap(a).built)'
    <3>1. a \in Int /\ a \in 1 .. client.snap BY <1>1, <2>1
    <3>2. Has(a) /\ Recent(a) BY <1>1, <2>1, <2>2, <3>1 DEF Has, Snap, Recent
    <3>3. ServerHolds(a, Snap(a).built) BY <1>3, <3>1, <3>2
    <3> QED BY <2>1, <3>3 DEF ServerHolds, Sent, Snap
  <2> QED BY <2>1, <2>2 DEF ServerRingKnown
<1>7. ASSUME NEW p \in Packet, Moves(p) PROVE ServerRingKnown'
  <2>1. /\ server'.outgoingSequence = out /\ server'.frames = server.frames /\ server'.next = server.next
        /\ server'.ring = server.ring /\ UNCHANGED <<client, toClient>>
    BY <1>7 DEF Moves
  <2> QED BY <2>1 DEF Known, ServerRingKnown, ServerHolds, Has, Snap, Recent, Coming, Sent
<1>8. ASSUME NEW m \in SnapshotMessage, Comes(m), Parses(m) PROVE ServerRingKnown'
  <2>1. /\ m.sequence = out - 1 /\ Coming /\ toClient[1] = m /\ UNCHANGED <<server, toServer>> /\ ~ Coming'
    BY <1>8 DEF Comes, InStep, Coming, SnapshotMessage
  <2>2. ValidDelta(m) BY <1>8, ParsedFits
  <2>3. client'.snap = m.sequence BY <1>8, <2>2 DEF Parses
  <2>4. ASSUME NEW a \in 1 .. client'.snap, Has(a)', Recent(a)'
        PROVE  ServerHolds(a, Snap(a).built)'
    <3>1. a \in Nat /\ a \in Int /\ Recent(a) BY <2>1, <2>4 DEF Recent
    <3>2. ServerHolds(a, Snap(a)'.built)
      <4>1. CASE a = m.sequence /\ Snap(a)' = KeptOf(m)
        <5>1. Snap(a)'.built = m.built BY <4>1 DEF KeptOf
        <5> QED BY <2>1, <4>1, <5>1 DEF Known, ServerRingKnown
      <4>2. CASE Has(a) /\ Snap(a)' = Snap(a)
        <5>1. a \in 1 .. client.snap BY <3>1, <4>2, HadBefore
        <5> QED BY <1>3, <3>1, <4>2, <5>1
      <4> QED BY <1>8, <2>2, <2>4, <3>1, <4>1, <4>2, HadOrNew
    <3> QED BY <2>1, <3>2 DEF ServerHolds, Sent
  <2> QED BY <2>1, <2>4 DEF ServerRingKnown
<1>9. ASSUME NEW m \in OtherMessage, Passes(m) PROVE ServerRingKnown'
  <2>1. /\ client'.snap = client.snap /\ client'.snapshots = client.snapshots
        /\ UNCHANGED <<server, toServer>> /\ ~ Coming'
    BY <1>9 DEF Passes, Comes, Coming
  <2> QED BY <2>1 DEF Known, ServerRingKnown, ServerHolds, Has, Snap, Recent, Sent
<1>10. CASE Writes
  BY <1>10 DEF Writes, Known, ServerRingKnown, ServerHolds, Has, Snap, Recent, Coming, Sent
<1> QED BY <1>4, <1>5, <1>6, <1>7, <1>8, <1>9, <1>10, StepIs

\* The client's ring keeps those of its snapshots that are not taken for
\* overwritten, and of what comes it makes what the server built.
LEMMA ClientRingKnownStep ==
  ASSUME Fits, Typed, InStep, FramesKnown, Known, [Next]_vars
  PROVE  ClientRingKnown'
<1> DEFINE out == server.outgoingSequence
           M == MAX_PARSE_ENTITIES
<1>1. /\ out \in Nat \ {0} /\ out \in Int /\ client.snap \in Nat /\ client.snap < out /\ PACKET_BACKUP \in Nat
      /\ server.deltaMessage \in Int /\ client.next \in Nat
      /\ client.snapshots \in [Slots -> Kept]
  BY Sizes DEF Typed, ServerType, ClientType, InStep
<1>2. ASSUME NEW a \in Int PROVE Snap(a).built \in World
  <2>1. Snap(a) \in Kept BY <1>1, MessageSlots DEF Snap
  <2> QED BY <2>1 DEF Kept
<1>3. CASE UNCHANGED vars
  BY <1>3 DEF vars, Known, ClientRingKnown, ClientHolds, Snap, Coming
<1>4. ASSUME NEW world \in Worlds, NEW others \in Others, NEW base \in Nat, Sends(world, others, base)
      PROVE  ClientRingKnown'
  <2> DEFINE old == IF base = 0 THEN <<>>
                    ELSE InRing(server'.frames[base % PACKET_BACKUP], server'.ring, NumSnapshotEntities)
  <2>1. /\ server'.outgoingSequence = out + 1 /\ UNCHANGED <<client, toServer>>
        /\ toClient'[1].base = base /\ toClient'[1].built = world
        /\ toClient'[1].entities = SV_EmitPacketEntities(old, Sorted(world))
    BY <1>4 DEF Sends
  <2>2. old = IF base = 0 THEN <<>> ELSE Sorted(Snap(base).built)
    <3>1. CASE base = 0 BY <3>1
    <3>2. CASE base # 0
      <4>1. /\ base = server.deltaMessage /\ base > 0 /\ base \in Int
            /\ out - base < PACKET_BACKUP - DELTA_MARGIN
            /\ server'.frames[base % PACKET_BACKUP].first > server'.next - NumSnapshotEntities
        BY <1>4, <3>2 DEF Sends
      <4>2. out - base < PACKET_BACKUP BY <1>1, <4>1, Sizes
      <4>3. Has(base) BY <4>1, <4>2 DEF FramesKnown, Recent
      <4>4. base \in 1 .. client.snap /\ Recent(base) BY <4>1, <4>2, <4>3, HadBefore DEF Recent
      <4> DEFINE w == Snap(base).built
      <4>5. w \in World /\ ServerHolds(base, w) BY <1>2, <4>1, <4>3, <4>4 DEF Known, ServerRingKnown
      <4>6. PICK v \in World : v = w BY <4>5
      <4>7. base < out BY <1>1, <4>4
      <4>8. ServerHolds(base, v)' BY <1>4, <4>1, <4>2, <4>5, <4>6, <4>7, ServerKeeps
      <4>9. InRing(server'.frames[base % PACKET_BACKUP], server'.ring, NumSnapshotEntities) = Sorted(v)
        BY <4>1, <4>8 DEF ServerHolds, Sent
      <4> QED BY <3>2, <4>6, <4>9
    <3> QED BY <3>1, <3>2
  <2> HIDE DEF old
  <2>3. toClient'[1].entities =
          SV_EmitPacketEntities(IF toClient'[1].base = 0 THEN <<>> ELSE Sorted(Snap(toClient[1].base)'.built),
                                Sorted(toClient'[1].built))
    <3>1. Snap(toClient[1].base)' = Snap(base) BY <2>1 DEF Snap
    <3> QED BY <2>1, <2>2, <3>1
  <2> QED BY <2>1, <2>3 DEF Known, ClientRingKnown, ClientHolds, Snap
<1>5. CASE SendsOther
  <2>1. UNCHANGED client /\ ~ Coming' BY <1>5 DEF SendsOther, Coming
  <2> QED BY <2>1 DEF Known, ClientRingKnown, ClientHolds, Snap
<1>6. ASSUME NEW p \in Packet, Moves(p) PROVE ClientRingKnown'
  <2>1. UNCHANGED <<client, toClient>> BY <1>6 DEF Moves
  <2> QED BY <2>1 DEF Known, ClientRingKnown, ClientHolds, Snap, Coming
<1>7. ASSUME NEW m \in SnapshotMessage, Comes(m), Parses(m) PROVE ClientRingKnown'
  <2> DEFINE q == Sorted(m.built)
  <2>1. /\ ~ Coming' /\ m.built \in World /\ m.sequence \in Int BY <1>7 DEF Comes, Coming, SnapshotMessage, World
  <2>2. /\ ValidDelta(m) /\ ParsedOf(m).num = Cardinality(DOMAIN m.built)
        /\ Written(client'.ring, client.next, q, Len(q)) /\ Untouched(client'.ring, client.ring, client.next, Len(q))
    BY <1>7, ParsedFits
  <2>3. q \in Seq(Real) /\ Len(q) = Cardinality(DOMAIN m.built) /\ Len(q) \in Nat
    BY <2>1, SortedIs, WorldIs
  <2>4. client'.snap = m.sequence /\ client'.next = client.next + Len(q) BY <1>7, <2>2, <2>3 DEF Parses
  <2> HIDE DEF q
  <2>5. InRing(KeptOf(m), client'.ring, M) = q
    <3> DEFINE f == KeptOf(m)
    <3>1. f.num = Len(q) /\ f.first = client.next BY <2>2, <2>3 DEF KeptOf
    <3> HIDE DEF f
    <3>2. \A i \in 1 .. Len(q) : client'.ring[(f.first + i - 1) % M] = q[i] BY <2>2, <3>1 DEF Written
    <3>3. InRing(f, client'.ring, M) = q BY <2>3, <3>1, <3>2, InRingIs
    <3> QED BY <3>3 DEF f
  <2>6. KeptOf(m).built = m.built /\ KeptOf(m).num = Cardinality(DOMAIN m.built) BY <2>2 DEF KeptOf
  <2>7. ASSUME NEW k \in Slots, client'.snapshots[k].valid
        PROVE  /\ client'.snapshots[k].num = Cardinality(DOMAIN client'.snapshots[k].built)
               /\ client'.next - client'.snapshots[k].first < M =>
                    InRing(client'.snapshots[k], client'.ring, M) = Sorted(client'.snapshots[k].built)
    <3>1. CASE client'.snapshots[k] = KeptOf(m) BY <2>5, <2>6, <3>1 DEF q
    <3>2. CASE client'.snapshots[k] = client.snapshots[k]
      <4> DEFINE s == client.snapshots[k]
      <4>1. s.num = Cardinality(DOMAIN s.built) /\ (client.next - s.first < M => ClientHolds(s))
        BY <2>7, <3>2 DEF Known, ClientRingKnown
      <4>2. ASSUME client'.next - s.first < M
            PROVE  InRing(s, client'.ring, M) = Sorted(s.built)
        <5>1. s.first \in Nat BY <1>1 DEF Kept
        <5> DEFINE n == client.next
                   l == Len(q)
                   y == s.first
        <5>2. n \in Nat /\ l \in Nat /\ y \in Nat /\ (n + l) - y < M BY <1>1, <2>3, <2>4, <4>2, <5>1
        <5> HIDE DEF n, l, y
        <5>3. n - y < M BY <5>2, Sizes
        <5>4. client.next - s.first < M BY <5>3 DEF n, y
        <5>5. ClientHolds(s) BY <4>1, <5>4
        <5>6. ParsedOf(m).num = Len(q) BY <2>2, <2>3
        <5> QED BY <1>7, <2>2, <2>3, <4>1, <4>2, <5>5, <5>6, ClientKeeps
      <4> QED BY <3>2, <4>1, <4>2
    <3> QED BY <1>7, <2>2, <2>7, <3>1, <3>2, OldOrNew
  <2>8. ClientHolds(Snap(client.snap))'
    <3>1. m.sequence % PACKET_BACKUP \in Slots BY <2>1, MessageSlots
    <3>2. client'.snapshots[m.sequence % PACKET_BACKUP] = KeptOf(m) BY <1>7, <2>2, <3>1 DEF Parses
    <3>3. Snap(client.snap)' = KeptOf(m) BY <2>4, <3>2 DEF Snap
    <3> QED BY <2>5, <2>6, <3>3 DEF ClientHolds, q
  <2> QED BY <2>1, <2>7, <2>8 DEF ClientRingKnown, ClientHolds
<1>8. ASSUME NEW m \in OtherMessage, Passes(m) PROVE ClientRingKnown'
  <2>1. /\ client'.snap = client.snap /\ client'.snapshots = client.snapshots /\ client'.next = client.next
        /\ client'.ring = client.ring /\ ~ Coming'
    BY <1>8 DEF Passes, Comes, Coming
  <2> QED BY <2>1 DEF Known, ClientRingKnown, ClientHolds, Snap
<1>9. CASE Writes
  BY <1>9 DEF Writes, Known, ClientRingKnown, ClientHolds, Snap, Coming
<1> QED BY <1>3, <1>4, <1>5, <1>6, <1>7, <1>8, <1>9, StepIs

\* No delta is refused.
LEMMA NotRefusedStep ==
  ASSUME Fits, Typed, InStep, FramesKnown, Known, [Next]_vars
  PROVE  ~ client'.refused
<1>1. ~ client.refused BY DEF Known
<1>2. ASSUME NEW m \in SnapshotMessage, Comes(m), Parses(m) PROVE ~ client'.refused
  BY <1>1, <1>2, ParsedFits DEF Parses
<1> QED BY <1>1, <1>2, StepIs DEF vars, Sends, SendsOther, Moves, Passes, Writes
----------------------------------------------------------------------------
(* The invariant, and the properties.                                      *)

\* The invariant holds at first.
LEMMA InitIInv == Init => IInv
<1> SUFFICES ASSUME Init PROVE IInv OBVIOUS
<1>1. /\ server.outgoingSequence = 1 /\ server.deltaMessage = -1 /\ server.parseEntitiesNum = 0
      /\ server.frames = [k \in Slots |-> [first |-> 0, num |-> 0]] /\ server.next = 0
      /\ server.ring = [k \in 0 .. NumSnapshotEntities - 1 |-> NoEntity]
      /\ client.message = 0 /\ client.snap = 0 /\ client.next = 0 /\ client.refused = FALSE
      /\ client.snapshots = [k \in Slots |->
           [valid |-> FALSE, message |-> 0, first |-> 0, num |-> 0, built |-> <<>>]]
      /\ client.ring = [k \in 0 .. MAX_PARSE_ENTITIES - 1 |-> NoEntity]
      /\ toClient = <<>> /\ toServer = <<>>
  BY DEF Init, Slots
<1>2. NoEntity \in Entity BY Sizes DEF NoEntity, Entity
<1>3. [first |-> 0, num |-> 0] \in Frame BY DEF Frame
<1>4. [valid |-> FALSE, message |-> 0, first |-> 0, num |-> 0, built |-> <<>>] \in Kept BY DEF Kept, World
<1>5. server \in ServerType
  <2>1. server.frames \in [Slots -> Frame] /\ server.ring \in ServerRing BY <1>1, <1>2, <1>3 DEF ServerRing
  <2>2. server = [outgoingSequence |-> 1, deltaMessage |-> -1, parseEntitiesNum |-> 0,
                  frames |-> server.frames, next |-> 0, ring |-> server.ring]
    BY <1>1 DEF Init
  <2> QED BY <2>1, <2>2 DEF ServerType
<1>6. client \in ClientType
  <2>1. client.snapshots \in [Slots -> Kept] /\ client.ring \in ClientRing BY <1>1, <1>2, <1>4 DEF ClientRing
  <2>2. client = [message |-> 0, snap |-> 0, snapshots |-> client.snapshots, next |-> 0,
                  ring |-> client.ring, refused |-> FALSE]
    BY <1>1 DEF Init
  <2> DEFINE s == client.snapshots
             r == client.ring
  <2>3. client = [message |-> 0, snap |-> 0, snapshots |-> s, next |-> 0, ring |-> r, refused |-> FALSE]
    BY <2>2
  <2>4. s \in [Slots -> Kept] /\ r \in ClientRing BY <2>1
  <2> HIDE DEF s, r
  <2>5. 0 \in Nat /\ FALSE \in BOOLEAN OBVIOUS
  <2> QED BY <2>3, <2>4, <2>5, Zenon DEF ClientType
<1>7. Typed BY <1>1, <1>5, <1>6 DEF Typed
<1>8. InStep BY <1>1, Sizes DEF InStep
<1>9. FramesKnown BY <1>1 DEF FramesKnown, Coming
<1>10. Known BY <1>1 DEF Known, CountsKnown, ServerRingKnown, ClientRingKnown, Coming
<1> QED BY <1>7, <1>8, <1>9, <1>10 DEF IInv

\* A step keeps it.
LEMMA NextIInv == IInv /\ [Next]_vars => IInv'
<1> SUFFICES ASSUME IInv, [Next]_vars PROVE IInv' OBVIOUS
<1>1. Typed /\ InStep /\ FramesKnown /\ (Fits => Known) BY DEF IInv
<1>2. Typed' BY <1>1, TypedStep
<1>3. InStep' BY <1>1, InStepStep
<1>4. FramesKnown' BY <1>1, FramesKnownStep
<1>5. ASSUME Fits PROVE Known'
  <2>1. CountsKnown' BY <1>1, <1>2, <1>5, CountsKnownStep
  <2>2. ServerRingKnown' BY <1>1, <1>5, ServerRingKnownStep
  <2>3. ClientRingKnown' BY <1>1, <1>5, ClientRingKnownStep
  <2>4. ~ client'.refused BY <1>1, <1>5, NotRefusedStep
  <2> QED BY <2>1, <2>2, <2>3, <2>4 DEF Known
<1>6. Fits' <=> Fits BY DEF Fits
<1> QED BY <1>2, <1>3, <1>4, <1>5, <1>6 DEF IInv

\* So it always holds.
THEOREM InvariantHolds == Spec => []IInv
<1> QED BY InitIInv, NextIInv, PTL DEF Spec

\* Every variable keeps its type, and both sides count in step.
THEOREM TypesHold == Spec => []TypeOK
<1>1. IInv => TypeOK
  <2> SUFFICES ASSUME IInv PROVE TypeOK OBVIOUS
  <2>1. /\ server.outgoingSequence \in Nat \ {0} /\ client.message \in Nat /\ client.snap \in Nat
        /\ DOMAIN server.frames = Slots /\ DOMAIN client.snapshots = Slots /\ MaxMessages \in Nat
    BY Sizes DEF IInv, Typed, ServerType, ClientType
  <2>2. \A s : (s = <<>> \/ \E m : s = <<m>>) => Len(s) <= 1
    <3> TAKE s
    <3>1. CASE s = <<>> BY <3>1
    <3>2. ASSUME NEW m, s = <<m>> PROVE Len(s) <= 1
      <4>1. Len(<<m>>) = 1 OBVIOUS
      <4>2. Len(s) = 1 BY <3>2, <4>1, Zenon
      <4> QED BY <4>2
    <3> QED BY <3>1, <3>2
  <2>3. (toClient = <<>> \/ \E m : toClient = <<m>>) /\ (toServer = <<>> \/ \E p : toServer = <<p>>)
    BY DEF IInv, Typed
  <2>4. Len(toClient) <= 1 /\ Len(toServer) <= 1 BY <2>2, <2>3, Zenon
  <2> QED BY <2>1, <2>4 DEF IInv, InStep, TypeOK
<1> QED BY <1>1, InvariantHolds, PTL

\* What the server may delta from, the client has: a message that it acknowledged,
\* as long as it is not PACKET_BACKUP messages old (SV_WriteSnapshotToClient,
\* CL_ParseSnapshot), however large snapshots are.
THEOREM DeltasKnown == Spec => []FramesKnown
<1>1. IInv => FramesKnown BY DEF IInv
<1> QED BY <1>1, InvariantHolds, PTL

\* CL_ParseSnapshot refuses no delta: the frame is there, and parseEntitiesNum, the
\* server's count, has kept it from one whose entities are about to be overwritten.
THEOREM DeltasHold == Spec => [](MaxEntities <= PARSE_MARGIN => DeltasValid)
<1>1. IInv => (MaxEntities <= PARSE_MARGIN => DeltasValid) BY DEF IInv, Fits, Known, DeltasValid
<1> QED BY <1>1, InvariantHolds, PTL

\* The entities in the ring are a snapshot again.
LEMMA ExactIs ==
  ASSUME NEW s, s.built \in World, s.num = Cardinality(DOMAIN s.built), ClientHolds(s)
  PROVE  Exact(s)
<1> DEFINE w == s.built
           q == Sorted(w)
           D == {q[i].number : i \in 1 .. Len(q)}
           I(n) == {i \in 1 .. Len(q) : q[i].number = n}
<1>1. /\ q \in Seq(Real) /\ Len(q) \in Nat /\ Increasing(q)
      /\ \A i \in 1 .. Len(q) : q[i].number \in DOMAIN w /\ q[i].state = w[q[i].number]
      /\ \A n \in DOMAIN w : \E i \in 1 .. Len(q) : q[i] = [number |-> n, state |-> w[n]]
  BY SortedIs, WorldIs
<1>2. InRing(s, client.ring, MAX_PARSE_ENTITIES) = q BY DEF ClientHolds
<1>3. w = [n \in DOMAIN w |-> w[n]] BY WorldIs
<1>4. Entities(s) = [n \in D |-> q[Max(I(n))].state] BY <1>2 DEF Entities
<1> HIDE DEF q, w
<1>5. D = DOMAIN w
  <2>1. ASSUME NEW n \in DOMAIN w PROVE n \in D
    <3>1. PICK i \in 1 .. Len(q) : q[i] = [number |-> n, state |-> w[n]] BY <1>1
    <3>2. q[i].number = n BY <3>1
    <3> QED BY <3>2
  <2>2. ASSUME NEW n \in D PROVE n \in DOMAIN w BY <1>1
  <2> QED BY <2>1, <2>2
<1>6. ASSUME NEW n \in DOMAIN w PROVE q[Max(I(n))].state = w[n]
  <2>1. I(n) # {} BY <1>5, <1>6
  <2>2. I(n) \in SUBSET (1 .. Len(q)) OBVIOUS
  <2> HIDE DEF I
  <2>3. Max(I(n)) \in I(n) BY <1>1, <2>1, <2>2, MaxIs
  <2> DEFINE i == Max(I(n))
  <2>4. i \in 1 .. Len(q) /\ q[i].number = n BY <2>3 DEF I
  <2> HIDE DEF i
  <2>5. q[i].state = w[n] BY <1>1, <2>4
  <2> QED BY <2>5 DEF i
<1>7. [n \in D |-> q[Max(I(n))].state] = [n \in DOMAIN w |-> w[n]] BY <1>5, <1>6
<1>8. Entities(s) = w BY <1>3, <1>4, <1>7
<1> QED BY <1>8 DEF Exact, w

\* If no snapshot has more entities than PARSE_MARGIN, the last snapshot parsed, and what
\* CL_GetSnapshot gives the client game, is what the server built as the message of that
\* number.
THEOREM SnapshotsHold == Spec => []SnapshotsExact
<1>1. IInv => SnapshotsExact
  <2> SUFFICES ASSUME IInv, MaxEntities <= PARSE_MARGIN
               PROVE  /\ client.snap > 0 => Exact(client.snapshots[client.snap % PACKET_BACKUP])
                      /\ \A n \in 1 .. client.snap :
                           CL_GetSnapshot(n) => /\ client.snapshots[n % PACKET_BACKUP].message = n
                                                /\ Exact(client.snapshots[n % PACKET_BACKUP])
    BY DEF SnapshotsExact
  <2>1. /\ FramesKnown /\ ClientRingKnown /\ client.snap \in Nat /\ client.snapshots \in [Slots -> Kept]
    BY DEF IInv, Fits, Known, Typed, ClientType
  <2>2. ASSUME NEW k \in Slots, client.snapshots[k].valid
        PROVE  /\ client.snapshots[k].built \in World
               /\ client.snapshots[k].num = Cardinality(DOMAIN client.snapshots[k].built)
    BY <2>1, <2>2 DEF ClientRingKnown, Kept
  <2>3. ASSUME client.snap > 0 PROVE Exact(client.snapshots[client.snap % PACKET_BACKUP])
    <3> DEFINE k == client.snap % PACKET_BACKUP
    <3>1. client.snap \in Int BY <2>1
    <3>2. k \in Slots BY <3>1, MessageSlots
    <3>3. client.snapshots[k].valid /\ ClientHolds(client.snapshots[k])
      BY <2>1, <2>3 DEF FramesKnown, ClientRingKnown, Has, Snap
    <3> HIDE DEF k
    <3>4. Exact(client.snapshots[k]) BY <2>2, <3>2, <3>3, ExactIs
    <3> QED BY <3>4 DEF k
  <2>4. ASSUME NEW n \in 1 .. client.snap, CL_GetSnapshot(n)
        PROVE  /\ client.snapshots[n % PACKET_BACKUP].message = n
               /\ Exact(client.snapshots[n % PACKET_BACKUP])
    <3> DEFINE k == n % PACKET_BACKUP
               g == client.snapshots[k].message
    <3>1. n \in Int /\ n <= client.snap BY <2>1
    <3>2. k \in Slots BY <3>1, MessageSlots
    <3>3. /\ client.snapshots[k].valid /\ client.snap - n < PACKET_BACKUP
          /\ client.next - client.snapshots[k].first < MAX_PARSE_ENTITIES
      BY <2>4 DEF CL_GetSnapshot
    <3>4. g \in 1 .. client.snap /\ client.snap - g < PACKET_BACKUP /\ g % PACKET_BACKUP = k
      BY <2>1, <3>2, <3>3 DEF FramesKnown
    <3>5. Exact(client.snapshots[k])
      <4>1. ClientHolds(client.snapshots[k]) BY <2>1, <3>2, <3>3 DEF ClientRingKnown
      <4> HIDE DEF k
      <4> QED BY <2>2, <3>2, <3>3, <4>1, ExactIs
    <3>6. g = n
      <4> HIDE DEF g
      <4>1. g \in Int BY <3>4
      <4>2. g < n => n - g < PACKET_BACKUP BY <2>1, <3>1, <3>4, Sizes
      <4>3. n < g => g - n < PACKET_BACKUP BY <2>1, <3>1, <3>3, <3>4, Sizes
      <4>4. ~ g < n BY <3>1, <3>4, <4>1, <4>2, MessageSlots
      <4>5. ~ n < g BY <3>1, <3>4, <4>1, <4>3, MessageSlots
      <4> QED BY <3>1, <4>1, <4>4, <4>5
    <3> QED BY <3>5, <3>6
  <2> QED BY <2>3, <2>4
<1> QED BY <1>1, InvariantHolds, PTL
=============================================================================
