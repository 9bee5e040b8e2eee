-------------------------- MODULE AtomicTestProofs --------------------------
(***************************************************************************)
(* Proofs about atomictest.c, for any machine, any choice of cases and any *)
(* refusals of the driver.  The test cases are sequences that are put      *)
(* together from shorter ones, for as many planes and formats as there     *)
(* are.  What holds of a case wherever it stands is therefore shown in     *)
(* three parts: how sequences are joined; what a case may leave behind at  *)
(* each of its steps, as a property that joining preserves; and that the   *)
(* state agrees with that.                                                 *)
(***************************************************************************)
EXTENDS AtomicTest, WellFoundedInduction, FiniteSetTheorems, TLAPS

----------------------------------------------------------------------------
\* A set of naturals that is not empty has a least element.
LEMMA LeastNatural ==
  ASSUME NEW S \in SUBSET Nat, S # {}
  PROVE  \E least \in S : \A n \in S : least <= n
PROOF
<1> DEFINE Less == OpToRel(<, Nat)
<1>1. IsWellFoundedOn(Less, Nat)
  BY NatLessThanWellFounded
<1>2. \A m, n \in Nat : <<m, n>> \in Less <=> m < n
  BY DEF OpToRel
<1> HIDE DEF Less
<1>3. PICK least \in S : \A n \in S : <<n, least>> \notin Less
  BY <1>1, WFMin
<1>4. ASSUME NEW n \in S PROVE least <= n
  <2>1. n \in Nat /\ least \in Nat
    OBVIOUS
  <2>2. ~ (n < least)
    BY <1>2, <1>3, <2>1
  <2> QED BY <2>1, <2>2
<1> QED BY <1>4

\* Induction over the naturals up to n, for a set T of them.
LEMMA UpTo ==
  ASSUME NEW n \in Nat, NEW T, 0 \in T,
         \A k \in 1 .. n : k - 1 \in T => k \in T
  PROVE  \A k \in 0 .. n : k \in T
PROOF
<1> DEFINE Not == {k \in 0 .. n : k \notin T}
<1> SUFFICES ASSUME Not # {} PROVE FALSE
  OBVIOUS
<1>1. Not \in SUBSET Nat
  OBVIOUS
<1> HIDE DEF Not
<1>2. PICK k \in Not : \A m \in Not : k <= m
  BY <1>1, LeastNatural
<1>3. k \in 1 .. n
  BY <1>2 DEF Not
<1>4. k - 1 \in 0 .. n /\ k - 1 \notin Not
  BY <1>2, <1>3
<1> QED BY <1>2, <1>3, <1>4 DEF Not

----------------------------------------------------------------------------
\* The elements of two sequences joined.
LEMMA JoinFacts ==
  ASSUME NEW S, NEW s \in Seq(S), NEW t \in Seq(S)
  PROVE  /\ s \o t \in Seq(S) /\ Len(s \o t) = Len(s) + Len(t)
         /\ Len(s) \in Nat /\ Len(t) \in Nat
         /\ DOMAIN s = 1 .. Len(s) /\ DOMAIN t = 1 .. Len(t)
         /\ DOMAIN (s \o t) = 1 .. Len(s) + Len(t)
         /\ \A m \in 1 .. Len(s) : (s \o t)[m] = s[m]
         /\ \A k \in 1 .. Len(t) : (s \o t)[Len(s) + k] = t[k]
         /\ s \o << >> = s /\ << >> \o s = s
PROOF
OBVIOUS

LEMMA JoinedLength ==
  ASSUME NEW S, NEW s \in Seq(S), NEW t \in Seq(S)
  PROVE  Len(s \o t) = Len(s) + Len(t)
PROOF
OBVIOUS

LEMMA Prefixed ==
  ASSUME NEW S, NEW a \in S, NEW t \in Seq(S)
  PROVE  /\ << a >> \o t \in Seq(S) /\ Len(<< a >> \o t) = 1 + Len(t)
         /\ (<< a >> \o t)[1] = a
         /\ \A k \in 1 .. Len(t) : (<< a >> \o t)[1 + k] = t[k]
PROOF
<1>1. << a >> \in Seq(S) /\ Len(<< a >>) = 1 /\ << a >>[1] = a
  OBVIOUS
<1> QED BY <1>1

Regroups(f, x, a, v, b) == f \o x \o a \o v \o b = f \o (x \o (a \o v \o b))

LEMMA Regrouped ==
  ASSUME NEW S, NEW f \in Seq(S), NEW x \in Seq(S), NEW a \in Seq(S), NEW v \in Seq(S),
         NEW b \in Seq(S)
  PROVE  Regroups(f, x, a, v, b)
PROOF
<1> DEFINE g == f \o x
           w == a \o v
           y == w \o b
<1>1. g \in Seq(S) /\ w \in Seq(S)
  OBVIOUS
<1> HIDE DEF w
<1>2. y \in Seq(S)
  BY <1>1
<1> HIDE DEF y, g
<1>3. f \o (x \o y) = g \o y
  BY <1>2, SMTT(30) DEF g
<1>4. g \o (w \o b) = (g \o w) \o b
  BY <1>1, SMTT(30)
<1>5. g \o (a \o v) = (g \o a) \o v
  BY <1>1, SMTT(30)
<1> QED BY <1>3, <1>4, <1>5 DEF g, w, y, Regroups

\* What the recursive function in FlattenSeq is, up to n.
Joins(ss, n, f) ==
  f = [i \in 1 .. n |-> IF i = 1 THEN ss[i] ELSE f[i - 1] \o ss[i]]

LEMMA JoinsExist ==
  ASSUME NEW ss, NEW n \in Nat
  PROVE  \E f : Joins(ss, n, f)
PROOF
<1> DEFINE T == {k \in Nat : \E f : Joins(ss, k, f)}
<1>1. 0 \in T
  <2>1. Joins(ss, 0, [i \in 1 .. 0 |-> IF i = 1 THEN ss[i] ELSE ss[i]])
    BY DEF Joins
  <2> QED BY <2>1
<1>2. ASSUME NEW k \in 1 .. n, k - 1 \in T PROVE k \in T
  <2>1. PICK g : Joins(ss, k - 1, g)
    BY <1>2
  <2> DEFINE h == [i \in 1 .. k |-> IF i = 1 THEN ss[i] ELSE g[i - 1] \o ss[i]]
  <2>2. \A i \in 1 .. k - 1 : h[i] = g[i]
    <3>1. \A i \in 1 .. k - 1 : g[i] = IF i = 1 THEN ss[i] ELSE g[i - 1] \o ss[i]
      BY <2>1 DEF Joins
    <3>2. \A i \in 1 .. k - 1 : i \in 1 .. k
      OBVIOUS
    <3> QED BY <3>1, <3>2
  <2>3. h = [i \in 1 .. k |-> IF i = 1 THEN ss[i] ELSE h[i - 1] \o ss[i]]
    <3>1. \A i \in 1 .. k : i # 1 => i - 1 \in 1 .. k - 1
      OBVIOUS
    <3> QED BY <2>2, <3>1
  <2>4. Joins(ss, k, h)
    BY <2>3 DEF Joins
  <2> QED BY <2>4
<1> HIDE DEF T
<1>3. n \in T
  BY <1>1, <1>2, UpTo
<1> QED BY <1>3 DEF T

\* What holds of the empty sequence and is preserved by each sequence joined to
\* it holds of all joined: D[i] is what holds after i of them.
LEMMA FlattenUpTo ==
  ASSUME NEW n \in Nat, NEW ss, n = Len(ss), n = 0 => ss = << >>,
         \A i \in 1 .. n : << >> \o ss[i] = ss[i],
         NEW D, << >> \in D[0],
         \A i \in 1 .. n : \A s \in D[i - 1] : s \o ss[i] \in D[i]
  PROVE  FlattenSeq(ss) \in D[n]
PROOF
<1>1. CASE n = 0
  <2> QED BY <1>1 DEF FlattenSeq
<1>2. CASE n # 0
  <2> DEFINE flatten[i \in 1 .. Len(ss)] ==
               IF i = 1 THEN ss[i] ELSE flatten[i - 1] \o ss[i]
  <2>2. flatten = [i \in 1 .. Len(ss) |-> IF i = 1 THEN ss[i] ELSE flatten[i - 1] \o ss[i]]
    <3>1. \E f : f = [i \in 1 .. Len(ss) |-> IF i = 1 THEN ss[i] ELSE f[i - 1] \o ss[i]]
      BY JoinsExist DEF Joins
    <3> QED BY <3>1
  <2>3. FlattenSeq(ss) = flatten[n]
    BY <1>2 DEF FlattenSeq
  <2> HIDE DEF flatten
  <2> DEFINE T == {0} \cup {i \in 1 .. n : flatten[i] \in D[i]}
  <2>4. ASSUME NEW k \in 1 .. n, k - 1 \in T PROVE k \in T
    <3>1. \E s \in D[k - 1] : flatten[k] = s \o ss[k]
      <4>1. CASE k = 1
        <5>1. flatten[1] = << >> \o ss[1]
          BY <1>2, <2>2
        <5>2. k - 1 = 0
          BY <4>1
        <5> QED BY <4>1, <5>1, <5>2
      <4>2. CASE k # 1
        <5>1. flatten[k] = flatten[k - 1] \o ss[k]
          BY <2>2, <4>2
        <5>2. k - 1 # 0
          BY <4>2
        <5> QED BY <2>4, <5>1, <5>2
      <4> QED BY <4>1, <4>2
    <3> QED BY <3>1
  <2>5. 0 \in T
    OBVIOUS
  <2> HIDE DEF T
  <2>6. \A k \in 0 .. n : k \in T
    BY <2>4, <2>5, UpTo, Zenon
  <2>7. n \in T
    BY <2>6
  <2> QED BY <1>2, <2>3, <2>7 DEF T
<1> QED BY <1>1, <1>2

\* A set of sequences that joining does not leave.
LEMMA FlattenClosed ==
  ASSUME NEW S, NEW C \in SUBSET Seq(S), << >> \in C, \A s, t \in C : s \o t \in C,
         NEW ss \in Seq(C)
  PROVE  FlattenSeq(ss) \in C
PROOF
<1> DEFINE n == Len(ss)
           D == [i \in 0 .. n |-> C]
<1>1. n \in Nat /\ \A i \in 1 .. n : ss[i] \in C
  OBVIOUS
<1>2. /\ n = 0 => ss = << >>
      /\ \A i \in 1 .. n : << >> \o ss[i] = ss[i]
  <2>1. \A s \in C : << >> \o s = s
    OBVIOUS
  <2>2. n = 0 => ss = << >>
    OBVIOUS
  <2> QED BY <1>1, <2>1, <2>2
<1>3. << >> \in D[0] /\ D[n] = C
  BY <1>1
<1>4. \A i \in 1 .. n : \A s \in D[i - 1] : s \o ss[i] \in D[i]
  BY <1>1
<1> HIDE DEF n, D
<1>5. n = Len(ss)
  BY DEF n
<1>6. FlattenSeq(ss) \in D[n]
  BY <1>1, <1>2, <1>3, <1>4, <1>5, FlattenUpTo, SMTT(30)
<1> QED BY <1>3, <1>6

\* The first i of some sequences of the same length L, joined.
Blocks(S, L, i, rows) ==
  {t \in Seq(S) : /\ Len(t) = L * i
                  /\ \A j \in 1 .. i, k \in 1 .. L : t[L * (j - 1) + k] = rows[j][k]}

LEMMA BlockJoined ==
  ASSUME NEW L \in {1, 5}, NEW i \in Nat \ {0}, NEW S, NEW rows,
         rows[i] \in Seq(S), Len(rows[i]) = L, NEW t \in Blocks(S, L, i - 1, rows)
  PROVE  t \o rows[i] \in Blocks(S, L, i, rows)
PROOF
<1>0. t \in Seq(S)
  BY DEF Blocks
<1>1. /\ t \in Seq(S) /\ Len(t) = L * (i - 1)
      /\ \A j \in 1 .. i - 1, k \in 1 .. L : t[L * (j - 1) + k] = rows[j][k]
  BY DEF Blocks
<1>2. PICK v \in Seq(S) : v = rows[i]
  OBVIOUS
<1> DEFINE u == t \o v
<1>3. /\ u \in Seq(S) /\ Len(u) = Len(t) + L
      /\ \A m \in 1 .. Len(t) : u[m] = t[m]
      /\ \A k \in 1 .. L : u[Len(t) + k] = v[k]
  <2>1. /\ u \in Seq(S) /\ Len(u) = Len(t) + Len(v)
        /\ \A m \in 1 .. Len(t) : u[m] = t[m]
        /\ \A k \in 1 .. Len(v) : u[Len(t) + k] = v[k]
    BY <1>0
  <2> QED BY <1>2, <2>1
<1> HIDE DEF u
<1>4. Len(u) = L * i
  <2>1. CASE L = 1
    BY <1>1, <1>3, <2>1
  <2>2. CASE L = 5
    BY <1>1, <1>3, <2>2
  <2> QED BY <2>1, <2>2
<1>5. ASSUME NEW j \in 1 .. i, NEW k \in 1 .. L
      PROVE  u[L * (j - 1) + k] = rows[j][k]
  <2>1. CASE j = i
    BY <1>1, <1>2, <1>3, <2>1
  <2>2. CASE j # i
    <3>1. j \in 1 .. i - 1
      BY <2>2
    <3>2. L * (j - 1) + k \in 1 .. L * (i - 1)
      <4>1. CASE L = 1
        BY <3>1, <4>1
      <4>2. CASE L = 5
        BY <3>1, <4>2
      <4> QED BY <4>1, <4>2
    <3> QED BY <1>1, <1>3, <3>1, <3>2
  <2> QED BY <2>1, <2>2
<1> QED BY <1>2, <1>3, <1>4, <1>5 DEF u, Blocks

LEMMA FlattenBlocks ==
  ASSUME NEW L \in {1, 5}, NEW S, NEW ss \in Seq({s \in Seq(S) : Len(s) = L})
  PROVE  FlattenSeq(ss) \in Blocks(S, L, Len(ss), ss)
PROOF
<1> DEFINE n == Len(ss)
           D == [i \in 0 .. n |-> Blocks(S, L, i, ss)]
<1>1. n \in Nat /\ \A i \in 1 .. n : ss[i] \in Seq(S) /\ Len(ss[i]) = L
  OBVIOUS
<1>2. n = 0 => ss = << >>
  OBVIOUS
<1>3. \A i \in 1 .. n : << >> \o ss[i] = ss[i]
  BY <1>1
<1>4. << >> \in Blocks(S, L, 0, ss)
  <2>1. << >> \in Seq(S) /\ Len(<< >>) = L * 0
    OBVIOUS
  <2> QED BY <2>1 DEF Blocks
<1> HIDE DEF n
<1>5. \A i \in 0 .. n : D[i] = Blocks(S, L, i, ss)
  BY <1>1
<1> HIDE DEF D
<1>6. /\ n = Len(ss) /\ << >> \in D[0]
      /\ D[n] = Blocks(S, L, n, ss)
  BY <1>1, <1>4, <1>5 DEF n
<1>7. ASSUME NEW i \in 1 .. n, NEW t \in D[i - 1] PROVE t \o ss[i] \in D[i]
  <2>1. D[i - 1] = Blocks(S, L, i - 1, ss) /\ D[i] = Blocks(S, L, i, ss)
    BY <1>1, <1>5
  <2>2. i \in Nat \ {0} /\ ss[i] \in Seq(S) /\ Len(ss[i]) = L
    BY <1>1
  <2>3. t \in Blocks(S, L, i - 1, ss)
    BY <2>1
  <2>4. t \o ss[i] \in Blocks(S, L, i, ss)
    BY <2>2, <2>3, BlockJoined
  <2> QED BY <2>1, <2>4
<1>8. FlattenSeq(ss) \in D[n]
  BY <1>1, <1>2, <1>3, <1>6, <1>7, FlattenUpTo
<1> QED BY <1>6, <1>8 DEF n

----------------------------------------------------------------------------
\* Lists of planes.  Within takes elements of both the list and the set, and
\* none twice from a list that has none twice.
Distinct(s) == \A i, j \in DOMAIN s : s[i] = s[j] => i = j

LEMMA WithinType ==
  ASSUME NEW T, NEW s \in Seq(T), NEW S
  PROVE  Within(s, S) \in Seq(T \cap S)
PROOF
<1> DEFINE C == Seq(T \cap S)
           ss == [i \in DOMAIN s |-> IF s[i] \in S THEN << s[i] >> ELSE << >>]
<1>1. << >> \in C /\ \A t, u \in C : t \o u \in C
  OBVIOUS
<1>2. ss \in Seq(C)
  <2>1. DOMAIN s = 1 .. Len(s) /\ Len(s) \in Nat
    OBVIOUS
  <2>2. ASSUME NEW i \in DOMAIN s PROVE ss[i] \in C
    <3>1. s[i] \in T
      OBVIOUS
    <3>2. CASE s[i] \in S
      BY <3>1, <3>2
    <3>3. CASE s[i] \notin S
      BY <3>3
    <3> QED BY <3>2, <3>3
  <2> HIDE DEF C
  <2>3. ss \in [1 .. Len(s) -> C]
    BY <2>1, <2>2
  <2> QED BY <2>1, <2>3
<1>3. C \in SUBSET Seq(T \cap S)
  OBVIOUS
<1> HIDE DEF C, ss
<1>4. FlattenSeq(ss) \in C
  BY <1>1, <1>2, <1>3, FlattenClosed
<1> QED BY <1>4 DEF Within, C, ss

LEMMA WithinDistinct ==
  ASSUME NEW T, NEW s \in Seq(T), Distinct(s), NEW S
  PROVE  Distinct(Within(s, S))
PROOF
<1> DEFINE n == Len(s)
           ss == [i \in DOMAIN s |-> IF s[i] \in S THEN << s[i] >> ELSE << >>]
           From(i) == {t \in Seq(T) : /\ Distinct(t)
                                      /\ \A k \in DOMAIN t : \E j \in 1 .. i : t[k] = s[j]}
           D == [i \in 0 .. n |-> From(i)]
<1>1. n \in Nat /\ DOMAIN s = 1 .. n /\ \A i \in 1 .. n : s[i] \in T
  OBVIOUS
<1>2. /\ n = Len(ss)
      /\ n = 0 => ss = << >>
      /\ \A i \in 1 .. n : ss[i] = IF s[i] \in S THEN << s[i] >> ELSE << >>
  BY <1>1
<1>3. \A i \in 1 .. n : << >> \o ss[i] = ss[i]
  BY <1>1, <1>2
<1>4. << >> \in From(0)
  BY DEF Distinct
<1> HIDE DEF ss
<1>5. ASSUME NEW i \in 1 .. n, NEW t \in From(i - 1)
      PROVE  t \o ss[i] \in From(i)
  <2>1. /\ t \in Seq(T) /\ Distinct(t) /\ DOMAIN t = 1 .. Len(t) /\ Len(t) \in Nat
        /\ \A k \in DOMAIN t : \E j \in 1 .. i - 1 : t[k] = s[j]
    OBVIOUS
  <2>2. CASE s[i] \notin S
    <3>1. t \o ss[i] = t
      <4>1. ss[i] = << >>
        BY <1>2, <2>2
      <4>2. t \o << >> = t
        BY <2>1, JoinFacts
      <4> QED BY <4>1, <4>2
    <3>2. \A k \in DOMAIN t : \E j \in 1 .. i : t[k] = s[j]
      BY <2>1
    <3> QED BY <2>1, <3>1, <3>2
  <2>3. CASE s[i] \in S
    <3> DEFINE u == t \o << s[i] >>
    <3>1. ss[i] = << s[i] >>
      BY <1>2, <2>3
    <3>2. /\ u \in Seq(T) /\ DOMAIN u = 1 .. Len(t) + 1
          /\ \A k \in 1 .. Len(t) : u[k] = t[k]
          /\ u[Len(t) + 1] = s[i]
      BY <1>1, <2>1
    <3>3. \A k \in 1 .. Len(t) : t[k] # s[i]
      <4>1. \A j \in 1 .. i - 1 : s[j] # s[i]
        BY <1>1 DEF Distinct
      <4> QED BY <2>1, <4>1
    <3> HIDE DEF u
    <3>4. Distinct(u)
      BY <2>1, <3>2, <3>3 DEF Distinct
    <3>5. \A k \in DOMAIN u : \E j \in 1 .. i : u[k] = s[j]
      BY <2>1, <3>2
    <3>6. u \in From(i)
      BY <3>2, <3>4, <3>5
    <3> QED BY <3>1, <3>6 DEF u
  <2> QED BY <2>2, <2>3
<1> HIDE DEF From, n
<1>6. \A i \in 0 .. n : D[i] = From(i)
  BY <1>1
<1> HIDE DEF D
<1>7. << >> \in D[0] /\ D[n] = From(n)
  BY <1>1, <1>4, <1>6
<1>8. \A i \in 1 .. n : \A t \in D[i - 1] : t \o ss[i] \in D[i]
  <2>1. \A i \in 1 .. n : D[i - 1] = From(i - 1) /\ D[i] = From(i)
    BY <1>1, <1>6
  <2> QED BY <1>5, <2>1
<1>9. FlattenSeq(ss) \in D[n]
  <2>1. n \in Nat /\ n = Len(ss) /\ (n = 0 => ss = << >>)
    BY <1>1, <1>2
  <2> QED BY <2>1, <1>3, <1>7, <1>8, FlattenUpTo, Zenon
<1>10. Within(s, S) = FlattenSeq(ss)
  BY DEF Within, ss
<1> QED BY <1>7, <1>9, <1>10 DEF From

----------------------------------------------------------------------------
\* The machine.
LEMMA Counted ==
  /\ Cardinality(Planes) \in Nat /\ Planes = 1 .. Cardinality(Planes)
  /\ Cardinality(Crtcs) \in Nat /\ Crtcs = 1 .. Cardinality(Crtcs)
  /\ Planes \subseteq Nat \ {0} /\ Crtcs \subseteq Nat \ {0}
PROOF
<1>1. /\ IsFiniteSet(Planes) /\ Planes = 1 .. Cardinality(Planes)
      /\ IsFiniteSet(Crtcs) /\ Crtcs = 1 .. Cardinality(Crtcs)
  BY AtomicAssumption
<1>2. Cardinality(Planes) \in Nat /\ Cardinality(Crtcs) \in Nat
  BY <1>1, FS_CardinalityType
<1>3. \A n \in Nat : 1 .. n \subseteq Nat \ {0}
  OBVIOUS
<1>4. Planes \subseteq Nat \ {0} /\ Crtcs \subseteq Nat \ {0}
  BY <1>1, <1>2, <1>3
<1> QED BY <1>1, <1>2, <1>4

\* The planes a CRTC may have.
PlaneSet(m, c) == {PlanesOf(m, c)[i] : i \in DOMAIN PlanesOf(m, c)}

\* The CRTC's list of planes has none twice, nor have those of one type, which
\* are planes of that list.
LEMMA ListsType ==
  ASSUME NEW m \in Machines, NEW c \in Crtcs
  PROVE  /\ PlanesOf(m, c) \in Seq(PlaneSet(m, c)) /\ PlaneSet(m, c) \subseteq Planes
         /\ \A type \in PlaneTypes : /\ get_planes(m, c, type) \in Seq(PlaneSet(m, c))
                                     /\ Distinct(get_planes(m, c, type))
PROOF
<1> DEFINE all == [p \in Planes |-> p]
           usable == {p \in Planes : c \in m.crtcs[p]}
           of(type) == {p \in Planes : m.type[p] = type}
<1>1. all \in Seq(Planes) /\ Distinct(all)
  <2>1. all \in [1 .. Cardinality(Planes) -> Planes] /\ \A p \in Planes : all[p] = p
    BY Counted
  <2>2. all \in Seq(Planes)
    BY <2>1, Counted
  <2>3. DOMAIN all = Planes
    OBVIOUS
  <2> HIDE DEF all
  <2> QED BY <2>1, <2>2, <2>3 DEF Distinct
<1>2. PlanesOf(m, c) = Within(all, usable)
  BY DEF PlanesOf, PlaneLists
<1> HIDE DEF all, usable
<1>3. PlanesOf(m, c) \in Seq(Planes \cap usable) /\ Distinct(PlanesOf(m, c))
  BY <1>1, <1>2, WithinType, WithinDistinct
<1>4. PlanesOf(m, c) \in Seq(PlaneSet(m, c)) /\ PlaneSet(m, c) \subseteq Planes
  <2>1. PICK s \in Seq(Planes \cap usable) : s = PlanesOf(m, c)
    BY <1>3
  <2>2. s \in Seq({s[i] : i \in DOMAIN s}) /\ {s[i] : i \in DOMAIN s} \subseteq Planes
    OBVIOUS
  <2> QED BY <2>1, <2>2 DEF PlaneSet
<1>5. ASSUME NEW type \in PlaneTypes
      PROVE  /\ get_planes(m, c, type) \in Seq(PlaneSet(m, c))
             /\ Distinct(get_planes(m, c, type))
  <2>1. get_planes(m, c, type) = Within(PlanesOf(m, c), of(type))
    BY DEF get_planes, TypeLists, PlanesOf
  <2> HIDE DEF of
  <2>2. /\ Within(PlanesOf(m, c), of(type)) \in Seq(PlaneSet(m, c) \cap of(type))
        /\ Distinct(Within(PlanesOf(m, c), of(type)))
    BY <1>3, <1>4, WithinType, WithinDistinct
  <2>3. Seq(PlaneSet(m, c) \cap of(type)) \subseteq Seq(PlaneSet(m, c))
    OBVIOUS
  <2> QED BY <2>1, <2>2, <2>3
<1> QED BY <1>4, <1>5

LEMMA TypesOfPlanes ==
  ASSUME NEW m \in Machines, NEW c \in Crtcs
  PROVE  /\ Primaries(m, c) \in Seq(PlaneSet(m, c)) /\ Distinct(Primaries(m, c))
         /\ Overlays(m, c) \in Seq(PlaneSet(m, c)) /\ Distinct(Overlays(m, c))
         /\ Cursors(m, c) \in Seq(PlaneSet(m, c)) /\ Distinct(Cursors(m, c))
         /\ Len(Primaries(m, c)) \in Nat \ {0} /\ Primaries(m, c)[1] \in PlaneSet(m, c)
PROOF
<1>1. /\ Primaries(m, c) \in Seq(PlaneSet(m, c)) /\ Distinct(Primaries(m, c))
      /\ Overlays(m, c) \in Seq(PlaneSet(m, c)) /\ Distinct(Overlays(m, c))
      /\ Cursors(m, c) \in Seq(PlaneSet(m, c)) /\ Distinct(Cursors(m, c))
  BY ListsType DEF Primaries, Overlays, Cursors, PlaneTypes
<1>2. Primaries(m, c) # << >>
  BY AtomicAssumption
<1>3. Len(Primaries(m, c)) \in Nat \ {0}
  BY <1>1, <1>2
<1>4. Primaries(m, c)[1] \in PlaneSet(m, c)
  BY <1>1, <1>3
<1> QED BY <1>1, <1>3, <1>4

\* A size shifted to the right is a size.
LEMMA PartType ==
  ASSUME NEW size \in Nat, NEW j \in Nat
  PROVE  Part(size, j) \in Nat
PROOF
<1> DEFINE Shifts(n, f) == f = [k \in 0 .. n |-> IF k = 0 THEN size ELSE f[k - 1] \div 2]
           T == {n \in Nat : \E f : Shifts(n, f)}
           shifted[k \in 0 .. j + 1] == IF k = 0 THEN size ELSE shifted[k - 1] \div 2
<1>1. 0 \in T
  <2> DEFINE g == [k \in 0 .. 0 |-> size]
  <2>1. g = [k \in 0 .. 0 |-> IF k = 0 THEN size ELSE g[k - 1] \div 2]
    OBVIOUS
  <2> QED BY <2>1
<1>2. ASSUME NEW n \in 1 .. j + 1, n - 1 \in T PROVE n \in T
  <2>1. PICK g : Shifts(n - 1, g)
    BY <1>2
  <2> DEFINE h == [k \in 0 .. n |-> IF k = 0 THEN size ELSE g[k - 1] \div 2]
  <2>2. \A k \in 0 .. n - 1 : h[k] = g[k]
    <3>1. \A k \in 0 .. n - 1 : g[k] = IF k = 0 THEN size ELSE g[k - 1] \div 2
      BY <2>1
    <3>2. \A k \in 0 .. n - 1 : k \in 0 .. n
      OBVIOUS
    <3> QED BY <3>1, <3>2
  <2>3. h = [k \in 0 .. n |-> IF k = 0 THEN size ELSE h[k - 1] \div 2]
    <3>1. \A k \in 0 .. n : k # 0 => k - 1 \in 0 .. n - 1
      OBVIOUS
    <3> QED BY <2>2, <3>1
  <2>4. Shifts(n, h)
    BY <2>3
  <2> HIDE DEF Shifts
  <2> QED BY <2>4
<1> HIDE DEF T
<1>3. j + 1 \in T
  BY <1>1, <1>2, UpTo
<1>4. shifted = [k \in 0 .. j + 1 |-> IF k = 0 THEN size ELSE shifted[k - 1] \div 2]
  <2>1. \E f : f = [k \in 0 .. j + 1 |-> IF k = 0 THEN size ELSE f[k - 1] \div 2]
    BY <1>3 DEF T
  <2> QED BY <2>1
<1>5. Part(size, j) = shifted[j + 1]
  BY DEF Part
<1> HIDE DEF shifted
<1> DEFINE U == {k \in 0 .. j + 1 : shifted[k] \in Nat}
<1>6. 0 \in U
  BY <1>4
<1>7. ASSUME NEW k \in 1 .. j + 1, k - 1 \in U PROVE k \in U
  <2>1. shifted[k] = shifted[k - 1] \div 2
    BY <1>4
  <2> QED BY <1>7, <2>1
<1> HIDE DEF U
<1>8. j + 1 \in U
  BY <1>6, <1>7, UpTo
<1> QED BY <1>5, <1>8 DEF U

----------------------------------------------------------------------------
\* Every action leaves event alone, away from the places where it is awaited,
\* or queues one and goes there, or has read it.
LEMMA FlipStep == OneFlipAtATime /\ [Next]_vars => OneFlipAtATime'
PROOF
<1> SUFFICES ASSUME OneFlipAtATime, [Next]_vars PROVE OneFlipAtATime'
  OBVIOUS
<1> USE DEF OneFlipAtATime
<1>1. CASE UNCHANGED vars
  BY <1>1 DEF vars, outside
<1>2. CASE PageFlip \/ IncTimeline
  BY <1>2 DEF PageFlip, IncTimeline
<1>3. CASE EnableCrtc \/ NoConnection \/ AllDone \/ DisablePlanes \/ DisableCrtc \/ FreeContext
  BY <1>3 DEF EnableCrtc, NoConnection, AllDone, DisablePlanes, DisableCrtc, FreeContext,
              outside
<1>4. CASE InitPlane \/ DrawToPlane \/ DestroyBlob
  BY <1>4 DEF InitPlane, DrawToPlane, DestroyBlob, At, outside
<1>5. CASE SetProps \/ MovePlane \/ ScalePlane \/ Again \/ DisablePlane \/ CreateBlob
  BY <1>5 DEF SetProps, MovePlane, ScalePlane, Again, DisablePlane, CreateBlob, At, outside
<1>6. CASE TestAndCommit \/ CommitIfPossible \/ LastCommit
  BY <1>6 DEF TestAndCommit, CommitIfPossible, LastCommit, CommitPset, At, PassOver, Return,
              outside
<1>7. CASE HandleEvent
  BY <1>7 DEF HandleEvent, ReadEvent
<1>8. CASE CreateTimeline \/ SetInFence \/ Join \/ CloseFence \/ SetOutFence \/ CheckOutFence
  BY <1>8 DEF CreateTimeline, SetInFence, Join, CloseFence, SetOutFence, CheckOutFence, At,
              outside
<1>9. CASE Unsupported \/ DropResult \/ EndOfCase
  BY <1>9 DEF Unsupported, DropResult, EndOfCase, At, outside
<1> QED BY <1>1, <1>2, <1>3, <1>4, <1>5, <1>6, <1>7, <1>8, <1>9 DEF Next, Program

\* Every page flip that is asked for is waited for before the program goes on,
\* also when CHECK_RESULT asks again after a commit that failed.
THEOREM FlipsAreAwaited == Spec => []OneFlipAtATime
PROOF
<1>1. Init => OneFlipAtATime
  BY DEF Init, OneFlipAtATime
<1> QED BY <1>1, FlipStep, PTL DEF Spec

----------------------------------------------------------------------------
\* What a case may leave behind.  A step is of one of these types, for planes P
\* of the CRTC.
Place == [x : Nat, y : Nat, w : Nat, h : Nat]
PlaneOps == {"draw", "set_props", "detach", "attach", "disable", "in_fence", "close"}
BlobOps == {"create_blob", "destroy_blob"}
OtherOps == {"test_and_commit", "commit_if_possible", "again", "timeline", "join",
             "out_fence", "check_out_fence", "unsupported", "drop_result", "failed",
             "return"}
StepType(P) ==
  [op : {"init"}, plane : P, n : Nat, arg : Place]
    \cup [op : {"move"}, plane : P, n : Nat, arg : [dx : Nat, dy : Nat]]
    \cup [op : {"scale"}, plane : P, n : Nat, arg : Nat]
    \cup [op : PlaneOps, plane : P, n : Nat, arg : {<< >>}]
    \cup [op : BlobOps, plane : P \cup {0}, n : Nat, arg : {<< >>}]
    \cup [op : OtherOps, plane : {0}, n : Nat, arg : {<< >>}]

\* What there may be: a framebuffer of plane p ("fb"); a blob of plane p, or for
\* 0 of the CRTC, that exists ("live") or is destroyed and still named ("dead");
\* a fence, one that is not plane p's ("unset"), a thread to wait for ("held").
Marks(P) == ({"fb", "live", "dead", "unset"} \X (P \cup {0}))
              \cup {<<"fence", 0>>, <<"held", 0>>}
Fbs(P) == {"fb"} \X P
Dead(P) == {"dead"} \X (P \cup {0})
Unset(P) == {"unset"} \X P

\* Which of these a step ends, may begin, and is never made with.
Kills(P, st) ==
  {mark \in Marks(P) :
     \/ st.op = "disable" /\ mark \in {<<"fb", st.plane>>, <<"dead", st.plane>>}
     \/ st.op = "create_blob" /\ mark = <<"dead", st.plane>>
     \/ st.op = "destroy_blob" /\ mark = <<"live", st.plane>>
     \/ st.op = "in_fence" /\ mark = <<"unset", st.plane>>
     \/ st.op = "join" /\ mark = <<"held", 0>>
     \/ st.op = "close" /\ mark \in Unset(P) \cup {<<"fence", 0>>}}
Makes(P, st) ==
  {mark \in Marks(P) :
     \/ st.op = "init" /\ mark = <<"fb", st.plane>>
     \/ st.op = "create_blob" /\ mark = <<"live", st.plane>>
     \/ st.op = "destroy_blob" /\ mark = <<"dead", st.plane>>
     \/ st.op = "timeline" /\ mark \in Unset(P) \cup {<<"fence", 0>>}
     \/ st.op = "in_fence" /\ mark = <<"held", 0>>}
Forbids(P, st) ==
  {mark \in Marks(P) :
     \/ st.op = "init" /\ st.n # 0 /\ mark = <<"fb", st.plane>>
     \/ st.op = "disable" /\ mark = <<"live", st.plane>>
     \/ st.op = "create_blob" /\ mark = <<"live", st.plane>>
     \/ st.op = "create_blob" /\ mark \in Dead(P) \ {<<"dead", st.plane>>}
     \/ st.op \in {"test_and_commit", "commit_if_possible"} /\ mark \in Dead(P)
     \/ st.op = "timeline" /\ mark = <<"fence", 0>>
     \/ st.op = "close" /\ mark \in {<<"unset", st.plane>>, <<"held", 0>>}
     \/ st.op = "return" /\ mark \notin Fbs(P) \cup Dead(P)}
Effect(P, st, X) == (X \ Kills(P, st)) \cup Makes(P, st)

\* Where the program goes from the i-th step.
Targets(i, st) == IF st.op = "again" THEN {i + 1, i - st.n} ELSE {i + 1, i + 1 + st.n}

\* A[i] is what there may be before the i-th step of s.
Flow(P, s, A) ==
  \A i \in 1 .. Len(s) :
    /\ Forbids(P, s[i]) \cap A[i] = {}
    /\ \A j \in Targets(i, s[i]) : /\ j \in 1 .. Len(s) + 1
                                   /\ Effect(P, s[i], A[i]) \subseteq A[j]

\* The sequences of steps that, begun with no more than X, end with no more
\* than Y, and make no step with what it is never made with.
Proper(P, X, Y) ==
  {s \in Seq(StepType(P)) :
     \E A \in [1 .. Len(s) + 1 -> SUBSET Marks(P)] :
       Flow(P, s, A) /\ X \subseteq A[1] /\ A[Len(s) + 1] \subseteq Y}

LEMMA ProperEmpty ==
  ASSUME NEW P, NEW X \in SUBSET Marks(P)
  PROVE  << >> \in Proper(P, X, X)
PROOF
<1> DEFINE A == [i \in 1 .. 1 |-> X]
<1>1. << >> \in Seq(StepType(P)) /\ Len(<< >>) = 0
  OBVIOUS
<1>2. A \in [1 .. 0 + 1 -> SUBSET Marks(P)] /\ A[1] = X
  OBVIOUS
<1>3. Flow(P, << >>, A)
  BY <1>1 DEF Flow
<1> HIDE DEF A
<1>4. X \subseteq A[1] /\ A[0 + 1] \subseteq X
  BY <1>2
<1> QED BY <1>1, <1>2, <1>3, <1>4 DEF Proper

LEMMA ProperWeaker ==
  ASSUME NEW P, NEW X, NEW Y, NEW X1, X1 \subseteq X, NEW Y1, Y \subseteq Y1
  PROVE  Proper(P, X, Y) \subseteq Proper(P, X1, Y1)
PROOF
<1> SUFFICES ASSUME NEW s \in Proper(P, X, Y) PROVE s \in Proper(P, X1, Y1)
  OBVIOUS
<1>1. s \in Seq(StepType(P))
  BY DEF Proper
<1>2. PICK A \in [1 .. Len(s) + 1 -> SUBSET Marks(P)] :
        Flow(P, s, A) /\ X \subseteq A[1] /\ A[Len(s) + 1] \subseteq Y
  BY DEF Proper
<1>3. X1 \subseteq A[1] /\ A[Len(s) + 1] \subseteq Y1
  BY <1>2
<1> QED BY <1>1, <1>2, <1>3 DEF Proper

\* Sequences are joined where one ends with what the other may begin with.
LEMMA ProperJoined ==
  ASSUME NEW P, NEW X, NEW Y, NEW Z, NEW s \in Proper(P, X, Y), NEW t \in Proper(P, Y, Z)
  PROVE  s \o t \in Proper(P, X, Z)
PROOF
<1>1. s \in Seq(StepType(P)) /\ t \in Seq(StepType(P))
  BY DEF Proper
<1>2. PICK A \in [1 .. Len(s) + 1 -> SUBSET Marks(P)] :
        Flow(P, s, A) /\ X \subseteq A[1] /\ A[Len(s) + 1] \subseteq Y
  BY DEF Proper
<1>3. PICK B \in [1 .. Len(t) + 1 -> SUBSET Marks(P)] :
        Flow(P, t, B) /\ Y \subseteq B[1] /\ B[Len(t) + 1] \subseteq Z
  BY DEF Proper
<1> DEFINE u == s \o t
           C == [i \in 1 .. Len(u) + 1 |-> IF i \in 1 .. Len(s) THEN A[i] ELSE B[i - Len(s)]]
<1>4. /\ u \in Seq(StepType(P)) /\ Len(u) = Len(s) + Len(t)
      /\ Len(s) \in Nat /\ Len(t) \in Nat
      /\ \A i \in 1 .. Len(s) : u[i] = s[i]
      /\ \A i \in 1 .. Len(t) : u[Len(s) + i] = t[i]
  BY <1>1
<1> HIDE DEF u
<1>5. /\ \A i \in 1 .. Len(s) : C[i] = A[i]
      /\ \A i \in 1 .. Len(t) + 1 : C[Len(s) + i] = B[i]
      /\ C \in [1 .. Len(u) + 1 -> SUBSET Marks(P)]
  <2>1. \A i \in 1 .. Len(u) + 1 : i \notin 1 .. Len(s) => i - Len(s) \in 1 .. Len(t) + 1
    BY <1>4
  <2>2. \A i \in 1 .. Len(s) : i \in 1 .. Len(u) + 1 /\ i \in 1 .. Len(s) + 1
    BY <1>4
  <2>3. \A i \in 1 .. Len(t) + 1 : /\ Len(s) + i \in 1 .. Len(u) + 1
                                   /\ Len(s) + i \notin 1 .. Len(s)
                                   /\ (Len(s) + i) - Len(s) = i
    BY <1>4
  <2> QED BY <1>2, <1>3, <2>1, <2>2, <2>3
<1> HIDE DEF C
<1>6. A[Len(s) + 1] \subseteq C[Len(s) + 1]
  BY <1>2, <1>3, <1>4, <1>5
<1>7. ASSUME NEW i \in 1 .. Len(s)
      PROVE  /\ Forbids(P, u[i]) \cap C[i] = {}
             /\ \A j \in Targets(i, u[i]) : /\ j \in 1 .. Len(u) + 1
                                            /\ Effect(P, u[i], C[i]) \subseteq C[j]
  <2>1. u[i] = s[i] /\ C[i] = A[i]
    BY <1>4, <1>5
  <2>2. ASSUME NEW j \in Targets(i, s[i])
        PROVE  j \in 1 .. Len(u) + 1 /\ Effect(P, s[i], A[i]) \subseteq C[j]
    <3>1. j \in 1 .. Len(s) + 1 /\ Effect(P, s[i], A[i]) \subseteq A[j]
      BY <1>2 DEF Flow
    <3>2. A[j] \subseteq C[j]
      <4>1. CASE j \in 1 .. Len(s)
        BY <1>5, <4>1
      <4>2. CASE j \notin 1 .. Len(s)
        <5>1. j = Len(s) + 1
          <6>1. Len(s) \in Nat /\ j \in 1 .. Len(s) + 1
            BY <1>4, <3>1
          <6> QED BY <4>2, <6>1
        <5> QED BY <1>6, <5>1
      <4> QED BY <4>1, <4>2
    <3> QED BY <1>4, <3>1, <3>2
  <2>3. Forbids(P, s[i]) \cap A[i] = {}
    BY <1>2 DEF Flow
  <2> QED BY <2>1, <2>2, <2>3
<1>8. ASSUME NEW k \in 1 .. Len(t)
      PROVE  /\ Forbids(P, u[Len(s) + k]) \cap C[Len(s) + k] = {}
             /\ \A j \in Targets(Len(s) + k, u[Len(s) + k]) :
                  /\ j \in 1 .. Len(u) + 1
                  /\ Effect(P, u[Len(s) + k], C[Len(s) + k]) \subseteq C[j]
  <2>1. u[Len(s) + k] = t[k] /\ C[Len(s) + k] = B[k]
    <3>1. k \in 1 .. Len(t) + 1
      BY <1>4
    <3> QED BY <1>4, <1>5, <3>1
  <2>2. ASSUME NEW j \in Targets(Len(s) + k, t[k])
        PROVE  j \in 1 .. Len(u) + 1 /\ Effect(P, t[k], B[k]) \subseteq C[j]
    <3>1. j - Len(s) \in Targets(k, t[k]) /\ j \in Int
      <4>1. t[k] \in StepType(P)
        BY <1>1
      <4>2. PICK n \in Nat : n = t[k].n
        BY <4>1 DEF StepType
      <4>3. CASE t[k].op = "again"
        <5>1. j \in {Len(s) + k + 1, (Len(s) + k) - n}
          BY <4>2, <4>3 DEF Targets
        <5>2. j - Len(s) \in {k + 1, k - n} /\ j \in Int
          BY <1>4, <5>1
        <5> QED BY <4>2, <4>3, <5>2 DEF Targets
      <4>4. CASE t[k].op # "again"
        <5>1. j \in {Len(s) + k + 1, Len(s) + k + 1 + n}
          BY <4>2, <4>4 DEF Targets
        <5>2. j - Len(s) \in {k + 1, k + 1 + n} /\ j \in Int
          BY <1>4, <5>1
        <5> QED BY <4>2, <4>4, <5>2 DEF Targets
      <4> QED BY <4>3, <4>4
    <3>2. j - Len(s) \in 1 .. Len(t) + 1 /\ Effect(P, t[k], B[k]) \subseteq B[j - Len(s)]
      BY <1>3, <3>1 DEF Flow
    <3>3. C[j] = B[j - Len(s)]
      <4>1. Len(s) + (j - Len(s)) = j
        BY <1>4, <3>1
      <4> QED BY <1>5, <3>2, <4>1
    <3> QED BY <1>4, <3>1, <3>2, <3>3
  <2>3. Forbids(P, t[k]) \cap B[k] = {}
    BY <1>3 DEF Flow
  <2> QED BY <2>1, <2>2, <2>3
<1>9. Flow(P, u, C)
  <2> SUFFICES ASSUME NEW i \in 1 .. Len(u)
               PROVE  /\ Forbids(P, u[i]) \cap C[i] = {}
                      /\ \A j \in Targets(i, u[i]) : /\ j \in 1 .. Len(u) + 1
                                                     /\ Effect(P, u[i], C[i]) \subseteq C[j]
    BY DEF Flow
  <2>1. CASE i \in 1 .. Len(s)
    BY <1>7, <2>1
  <2>2. CASE i \notin 1 .. Len(s)
    <3>1. i - Len(s) \in 1 .. Len(t) /\ Len(s) + (i - Len(s)) = i
      BY <1>4, <2>2
    <3> QED BY <1>8, <3>1
  <2> QED BY <2>1, <2>2
<1>10. X \subseteq C[1]
  BY <1>2, <1>4, <1>5, <1>6
<1>11. C[Len(u) + 1] \subseteq Z
  <2>1. Len(u) + 1 = Len(s) + (Len(t) + 1) /\ Len(t) + 1 \in 1 .. Len(t) + 1
    BY <1>4
  <2> QED BY <1>3, <1>5, <2>1
<1>12. u \in Proper(P, X, Z)
  BY <1>4, <1>5, <1>9, <1>10, <1>11 DEF Proper
<1> QED BY <1>12 DEF u

\* A step before a sequence, which it may pass over.
LEMMA ProperStep ==
  ASSUME NEW P, NEW st \in StepType(P), st.op # "again",
         NEW X \in SUBSET Marks(P), NEW Y, NEW Z, NEW t \in Proper(P, Y, Z),
         Forbids(P, st) \cap X = {}, Effect(P, st, X) \subseteq Y,
         st.n = 0 \/ (st.n = Len(t) /\ Effect(P, st, X) \subseteq Z)
  PROVE  << st >> \o t \in Proper(P, X, Z)
PROOF
<1>1. t \in Seq(StepType(P))
  BY DEF Proper
<1>2. PICK A \in [1 .. Len(t) + 1 -> SUBSET Marks(P)] :
        Flow(P, t, A) /\ Y \subseteq A[1] /\ A[Len(t) + 1] \subseteq Z
  BY DEF Proper
<1>3. PICK len \in Nat : len = Len(t)
  BY <1>1
<1> DEFINE u == << st >> \o t
           B == [i \in 1 .. len + 2 |->
                   IF i = 1 THEN X ELSE IF i = len + 2 THEN Z \cap Marks(P) ELSE A[i - 1]]
<1>4. /\ u \in Seq(StepType(P)) /\ Len(u) = len + 1 /\ u[1] = st
      /\ \A k \in 1 .. len : u[k + 1] = t[k]
  <2>1. << st >> \in Seq(StepType(P)) /\ Len(<< st >>) = 1 /\ << st >>[1] = st
    OBVIOUS
  <2> QED BY <1>1, <1>3, <2>1
<1> HIDE DEF u
<1>5. /\ B[1] = X /\ B[len + 2] = Z \cap Marks(P)
      /\ \A k \in 1 .. len : B[k + 1] = A[k]
  <2>1. 1 \in 1 .. len + 2 /\ len + 2 \in 1 .. len + 2 /\ len + 2 # 1
    OBVIOUS
  <2>2. \A k \in 1 .. len : /\ k + 1 \in 1 .. len + 2 /\ k + 1 # 1 /\ k + 1 # len + 2
                            /\ (k + 1) - 1 = k
    OBVIOUS
  <2> QED BY <2>1, <2>2
<1>6. B \in [1 .. len + 2 -> SUBSET Marks(P)]
  <2>1. \A i \in 1 .. len + 2 : i # 1 /\ i # len + 2 => i - 1 \in 1 .. len + 1
    OBVIOUS
  <2> QED BY <1>2, <1>3, <2>1
<1> HIDE DEF B
<1>7. A[len + 1] \subseteq B[len + 2]
  <2>1. len + 1 \in 1 .. len + 1
    OBVIOUS
  <2> QED BY <1>2, <1>3, <1>5, <2>1
<1>8. \A j \in 1 .. len + 1 : A[j] \subseteq B[j + 1]
  <2> SUFFICES ASSUME NEW j \in 1 .. len + 1 PROVE A[j] \subseteq B[j + 1]
    OBVIOUS
  <2>1. CASE j = len + 1
    BY <1>7, <2>1
  <2>2. CASE j # len + 1
    <3>1. j \in 1 .. len
      BY <2>2
    <3> QED BY <1>5, <3>1
  <2> QED BY <2>1, <2>2
<1>9. ASSUME NEW j \in Targets(1, st)
      PROVE  j \in 1 .. len + 2 /\ Effect(P, st, X) \subseteq B[j]
  <2>1. j = 2 \/ (j = len + 2 /\ Effect(P, st, X) \subseteq Z)
    BY <1>3 DEF Targets
  <2>2. Effect(P, st, X) \subseteq Marks(P)
    BY DEF Effect, Makes
  <2>3. CASE j = 2
    <3>1. 1 \in 1 .. len + 1
      OBVIOUS
    <3>2. A[1] \subseteq B[2]
      BY <1>8, <3>1
    <3>3. 2 \in 1 .. len + 2
      OBVIOUS
    <3> QED BY <1>2, <2>3, <3>2, <3>3
  <2>4. CASE j = len + 2 /\ Effect(P, st, X) \subseteq Z
    BY <1>5, <2>2, <2>4
  <2> QED BY <2>1, <2>3, <2>4
<1>10. ASSUME NEW k \in 1 .. len
       PROVE  /\ Forbids(P, t[k]) \cap A[k] = {}
              /\ \A j \in Targets(k + 1, t[k]) : /\ j \in 1 .. len + 2
                                                 /\ Effect(P, t[k], A[k]) \subseteq B[j]
  <2> SUFFICES ASSUME NEW j \in Targets(k + 1, t[k])
               PROVE  j \in 1 .. len + 2 /\ Effect(P, t[k], A[k]) \subseteq B[j]
    BY <1>2, <1>3 DEF Flow
  <2>1. j - 1 \in Targets(k, t[k]) /\ j \in Int
    <3>1. t[k] \in StepType(P)
      BY <1>1, <1>3
    <3>2. PICK n \in Nat : n = t[k].n
      BY <3>1 DEF StepType
    <3>3. CASE t[k].op = "again"
      <4>1. j \in {k + 1 + 1, (k + 1) - n}
        BY <3>2, <3>3 DEF Targets
      <4>2. j - 1 \in {k + 1, k - n} /\ j \in Int
        BY <4>1
      <4> QED BY <3>2, <3>3, <4>2 DEF Targets
    <3>4. CASE t[k].op # "again"
      <4>1. j \in {k + 1 + 1, k + 1 + 1 + n}
        BY <3>2, <3>4 DEF Targets
      <4>2. j - 1 \in {k + 1, k + 1 + n} /\ j \in Int
        BY <4>1
      <4> QED BY <3>2, <3>4, <4>2 DEF Targets
    <3> QED BY <3>3, <3>4
  <2>2. j - 1 \in 1 .. len + 1 /\ Effect(P, t[k], A[k]) \subseteq A[j - 1]
    BY <1>2, <1>3, <2>1 DEF Flow
  <2>3. A[j - 1] \subseteq B[j]
    <3>1. (j - 1) + 1 = j
      BY <2>1
    <3> QED BY <1>8, <2>2, <3>1
  <2>4. j \in 1 .. len + 2
    <3>1. j - 1 \in 1 .. len + 1 /\ j \in Int
      BY <2>1, <2>2
    <3> QED BY <3>1
  <2> QED BY <2>2, <2>3, <2>4
<1>11. Flow(P, u, B)
  <2> SUFFICES ASSUME NEW i \in 1 .. len + 1
               PROVE  /\ Forbids(P, u[i]) \cap B[i] = {}
                      /\ \A j \in Targets(i, u[i]) : /\ j \in 1 .. len + 2
                                                     /\ Effect(P, u[i], B[i]) \subseteq B[j]
    <3>1. Len(u) + 1 = len + 2
      BY <1>4
    <3> QED BY <1>4, <3>1 DEF Flow
  <2>1. CASE i = 1
    BY <1>4, <1>5, <1>9, <2>1
  <2>2. CASE i # 1
    <3>1. i - 1 \in 1 .. len /\ (i - 1) + 1 = i
      BY <2>2
    <3>2. u[i] = t[i - 1] /\ B[i] = A[i - 1]
      BY <1>4, <1>5, <3>1
    <3> QED BY <1>10, <3>1, <3>2
  <2> QED BY <2>1, <2>2
<1>12. u \in Proper(P, X, Z)
  <2>1. Len(u) + 1 = len + 2
    BY <1>4
  <2> QED BY <1>4, <1>5, <1>6, <1>11, <2>1 DEF Proper
<1> QED BY <1>12 DEF u

LEMMA ProperOne ==
  ASSUME NEW P, NEW st \in StepType(P), st.op # "again", st.n = 0,
         NEW X \in SUBSET Marks(P), NEW Y \in SUBSET Marks(P),
         Forbids(P, st) \cap X = {}, Effect(P, st, X) \subseteq Y
  PROVE  << st >> \in Proper(P, X, Y)
PROOF
<1>1. << >> \in Proper(P, Y, Y)
  BY ProperEmpty
<1>2. << st >> \o << >> \in Proper(P, X, Y)
  BY <1>1, ProperStep
<1>3. << st >> \o << >> = << st >>
  OBVIOUS
<1> QED BY <1>2, <1>3

\* Sequences, loops among them, whose steps all leave X as it is.
LEMMA ProperSteady ==
  ASSUME NEW P, NEW X \in SUBSET Marks(P), NEW s \in Seq(StepType(P)),
         \A i \in 1 .. Len(s) : /\ Forbids(P, s[i]) \cap X = {}
                                /\ Effect(P, s[i], X) \subseteq X
                                /\ Targets(i, s[i]) \subseteq 1 .. Len(s) + 1
  PROVE  s \in Proper(P, X, X)
PROOF
<1> DEFINE A == [i \in 1 .. Len(s) + 1 |-> X]
<1>1. \A i \in 1 .. Len(s) + 1 : A[i] = X
  OBVIOUS
<1>2. A \in [1 .. Len(s) + 1 -> SUBSET Marks(P)]
  OBVIOUS
<1>3. Len(s) \in Nat
  OBVIOUS
<1> HIDE DEF A
<1>4. 1 \in 1 .. Len(s) + 1 /\ Len(s) + 1 \in 1 .. Len(s) + 1
      /\ \A i \in 1 .. Len(s) : i \in 1 .. Len(s) + 1
  BY <1>3
<1>5. Flow(P, s, A)
  BY <1>1, <1>4 DEF Flow
<1>6. X \subseteq A[1] /\ A[Len(s) + 1] \subseteq X
  BY <1>1, <1>4
<1> QED BY <1>2, <1>5, <1>6 DEF Proper

----------------------------------------------------------------------------
\* The steps one by one.
LEMMA NeutralSteps ==
  ASSUME NEW P, NEW p \in P, NEW X \in SUBSET Marks(P)
  PROVE  /\ \A op \in {"draw", "set_props", "detach", "attach"} :
              Do(op, p, 0) \in Proper(P, X, X)
         /\ \A op \in {"out_fence", "check_out_fence", "failed"} :
              Do(op, 0, 0) \in Proper(P, X, X)
         /\ X \cap Dead(P) = {} => Commit \in Proper(P, X, X)
PROOF
<1>1. ASSUME NEW op \in {"draw", "set_props", "detach", "attach"}
      PROVE  Do(op, p, 0) \in Proper(P, X, X)
  <2> DEFINE st == [op |-> op, plane |-> p, n |-> 0, arg |-> << >>]
  <2>1. st \in StepType(P) /\ st.op = op /\ st.n = 0
    BY DEF StepType, PlaneOps
  <2> HIDE DEF st
  <2>2. Forbids(P, st) = {} /\ Kills(P, st) = {} /\ Makes(P, st) = {}
    BY <2>1 DEF Forbids, Kills, Makes
  <2>3. << st >> \in Proper(P, X, X)
    BY <2>1, <2>2, ProperOne DEF Effect
  <2> QED BY <2>3 DEF st, Do, With
<1>2. ASSUME NEW op \in {"out_fence", "check_out_fence", "failed"}
      PROVE  Do(op, 0, 0) \in Proper(P, X, X)
  <2> DEFINE st == [op |-> op, plane |-> 0, n |-> 0, arg |-> << >>]
  <2>1. st \in StepType(P) /\ st.op = op /\ st.n = 0
    BY DEF StepType, OtherOps
  <2> HIDE DEF st
  <2>2. Forbids(P, st) = {} /\ Kills(P, st) = {} /\ Makes(P, st) = {}
    BY <2>1 DEF Forbids, Kills, Makes
  <2>3. << st >> \in Proper(P, X, X)
    BY <2>1, <2>2, ProperOne DEF Effect
  <2> QED BY <2>3 DEF st, Do, With
<1>3. ASSUME X \cap Dead(P) = {} PROVE Commit \in Proper(P, X, X)
  <2> DEFINE st == [op |-> "test_and_commit", plane |-> 0, n |-> 0, arg |-> << >>]
  <2>1. st \in StepType(P) /\ st.op = "test_and_commit" /\ st.n = 0
    BY DEF StepType, OtherOps
  <2> HIDE DEF st
  <2>2. Forbids(P, st) \subseteq Dead(P) /\ Kills(P, st) = {} /\ Makes(P, st) = {}
    BY <2>1 DEF Forbids, Kills, Makes
  <2>3. << st >> \in Proper(P, X, X)
    BY <1>3, <2>1, <2>2, ProperOne DEF Effect
  <2> QED BY <2>3 DEF st, Commit, Do, With
<1> QED BY <1>1, <1>2, <1>3

LEMMA FbSteps ==
  ASSUME NEW P, NEW p \in P, NEW X \in SUBSET Marks(P), NEW rect \in Place
  PROVE  /\ InitAt(p, 0, rect) \in Proper(P, X, X \cup {<<"fb", p>>})
         /\ Show(p, rect) \in Proper(P, X, X \cup {<<"fb", p>>})
         /\ <<"live", p>> \notin X =>
              Disable(p) \in Proper(P, X, X \ {<<"fb", p>>, <<"dead", p>>})
PROOF
<1> DEFINE Y == X \cup {<<"fb", p>>}
           Z == X \ {<<"fb", p>>, <<"dead", p>>}
<1>0. Y \in SUBSET Marks(P) /\ Z \in SUBSET Marks(P)
  BY DEF Marks
<1>1. InitAt(p, 0, rect) \in Proper(P, X, Y)
  <2> DEFINE st == [op |-> "init", plane |-> p, n |-> 0, arg |-> rect]
  <2>1. st \in StepType(P) /\ st.op = "init" /\ st.n = 0 /\ st.plane = p
    BY DEF StepType
  <2> HIDE DEF st
  <2>2. Forbids(P, st) = {} /\ Kills(P, st) = {} /\ Makes(P, st) \subseteq {<<"fb", p>>}
    BY <2>1 DEF Forbids, Kills, Makes
  <2>3. << st >> \in Proper(P, X, Y)
    BY <1>0, <2>1, <2>2, ProperOne DEF Effect
  <2> QED BY <2>3 DEF st, InitAt, With
<1>2. Show(p, rect) \in Proper(P, X, Y)
  <2>1. Do("draw", p, 0) \in Proper(P, Y, Y)
    BY <1>0, NeutralSteps
  <2> HIDE DEF Y
  <2> QED BY <1>1, <2>1, ProperJoined DEF Show
<1>3. ASSUME <<"live", p>> \notin X PROVE Disable(p) \in Proper(P, X, Z)
  <2> DEFINE st == [op |-> "disable", plane |-> p, n |-> 0, arg |-> << >>]
  <2>1. st \in StepType(P) /\ st.op = "disable" /\ st.n = 0 /\ st.plane = p
    BY DEF StepType, PlaneOps
  <2> HIDE DEF st
  <2>2. /\ Forbids(P, st) \subseteq {<<"live", p>>} /\ Makes(P, st) = {}
        /\ \A mark \in Marks(P) :
             mark \in {<<"fb", p>>, <<"dead", p>>} => mark \in Kills(P, st)
    BY <2>1 DEF Forbids, Kills, Makes
  <2>3. << st >> \in Proper(P, X, Z)
    <3>1. Effect(P, st, X) \subseteq Z
      BY <2>2 DEF Effect
    <3>2. Forbids(P, st) \cap X = {}
      BY <1>3, <2>2
    <3> HIDE DEF Z
    <3> QED BY <1>0, <2>1, <3>1, <3>2, ProperOne
  <2> QED BY <2>3 DEF st, Disable, Do, With
<1> QED BY <1>1, <1>2, <1>3

LEMMA BlobSteps ==
  ASSUME NEW P, NEW x \in P \cup {0}, NEW X \in SUBSET Marks(P)
  PROVE  /\ /\ <<"live", x>> \notin X
            /\ X \cap Dead(P) \subseteq {<<"dead", x>>}
            => Do("create_blob", x, 0)
                 \in Proper(P, X, (X \cup {<<"live", x>>}) \ Dead(P))
         /\ Do("destroy_blob", x, 0)
              \in Proper(P, X, (X \ {<<"live", x>>}) \cup {<<"dead", x>>})
PROOF
<1> DEFINE Y == (X \cup {<<"live", x>>}) \ Dead(P)
           Z == (X \ {<<"live", x>>}) \cup {<<"dead", x>>}
<1>0. Y \in SUBSET Marks(P) /\ Z \in SUBSET Marks(P)
  BY DEF Marks
<1>1. ASSUME <<"live", x>> \notin X, X \cap Dead(P) \subseteq {<<"dead", x>>}
      PROVE  Do("create_blob", x, 0) \in Proper(P, X, Y)
  <2> DEFINE st == [op |-> "create_blob", plane |-> x, n |-> 0, arg |-> << >>]
  <2>1. st \in StepType(P) /\ st.op = "create_blob" /\ st.n = 0 /\ st.plane = x
    BY DEF StepType, BlobOps
  <2> HIDE DEF st
  <2>2. /\ Forbids(P, st) \subseteq {<<"live", x>>} \cup (Dead(P) \ {<<"dead", x>>})
        /\ Makes(P, st) \subseteq {<<"live", x>>}
        /\ <<"dead", x>> \in Kills(P, st)
    BY <2>1 DEF Forbids, Kills, Makes, Marks
  <2>3. Forbids(P, st) \cap X = {}
    BY <1>1, <2>2
  <2>4. Effect(P, st, X) \subseteq Y
    <3>1. <<"live", x>> \notin Dead(P)
      BY DEF Dead
    <3> QED BY <1>1, <2>2, <3>1 DEF Effect
  <2> HIDE DEF Y
  <2>5. << st >> \in Proper(P, X, Y)
    BY <1>0, <2>1, <2>3, <2>4, ProperOne
  <2> QED BY <2>5 DEF st, Do, With
<1>2. Do("destroy_blob", x, 0) \in Proper(P, X, Z)
  <2> DEFINE st == [op |-> "destroy_blob", plane |-> x, n |-> 0, arg |-> << >>]
  <2>1. st \in StepType(P) /\ st.op = "destroy_blob" /\ st.n = 0 /\ st.plane = x
    BY DEF StepType, BlobOps
  <2> HIDE DEF st
  <2>2. /\ Forbids(P, st) = {} /\ Makes(P, st) \subseteq {<<"dead", x>>}
        /\ <<"live", x>> \in Kills(P, st)
    BY <2>1 DEF Forbids, Kills, Makes, Marks
  <2>3. Effect(P, st, X) \subseteq Z
    BY <2>2 DEF Effect
  <2> HIDE DEF Z
  <2>4. << st >> \in Proper(P, X, Z)
    BY <1>0, <2>1, <2>2, <2>3, ProperOne
  <2> QED BY <2>4 DEF st, Do, With
<1> QED BY <1>1, <1>2

\* The loops, and a plane that is passed over.
LEMMA ThreeSteps ==
  ASSUME NEW S, NEW a \in S, NEW b \in S, NEW c \in S
  PROVE  /\ << a >> \o << b >> \o << c >> \in Seq(S)
         /\ Len(<< a >> \o << b >> \o << c >>) = 3
         /\ (<< a >> \o << b >> \o << c >>)[1] = a
         /\ (<< a >> \o << b >> \o << c >>)[2] = b
         /\ (<< a >> \o << b >> \o << c >>)[3] = c
PROOF
<1>1. << a >> \in Seq(S) /\ << b >> \in Seq(S) /\ << c >> \in Seq(S)
  OBVIOUS
<1> QED BY <1>1

LEMMA LoopSteps ==
  ASSUME NEW P, NEW p \in P, NEW X \in SUBSET Marks(P), X \cap Dead(P) = {}
  PROVE  /\ \A dx, dy \in Nat : Move(p, dx, dy) \in Proper(P, X, X)
         /\ \A tenths \in Nat : Scale(p, tenths) \in Proper(P, X, X)
PROOF
<1>1. ASSUME NEW a \in StepType(P), NEW b \in StepType(P), NEW c \in StepType(P),
             a.op \in {"move", "scale"}, a.n = 2,
             \/ b.op = "test_and_commit" /\ b.n = 0
             \/ b.op = "commit_if_possible" /\ b.n = 1,
             c.op = "again", c.n = 2
      PROVE  << a >> \o << b >> \o << c >> \in Proper(P, X, X)
  <2> DEFINE s == << a >> \o << b >> \o << c >>
  <2>1. s \in Seq(StepType(P)) /\ Len(s) = 3 /\ s[1] = a /\ s[2] = b /\ s[3] = c
    BY ThreeSteps
  <2> HIDE DEF s
  <2>2. ASSUME NEW i \in 1 .. 3
        PROVE  /\ Forbids(P, s[i]) \cap X = {}
               /\ Effect(P, s[i], X) \subseteq X
               /\ Targets(i, s[i]) \subseteq 1 .. 3 + 1
    <3>1. s[i].op \in {"move", "scale", "test_and_commit", "commit_if_possible", "again"}
      BY <1>1, <2>1
    <3>2. Forbids(P, s[i]) \cap X = {}
      BY <3>1 DEF Forbids
    <3>3. Effect(P, s[i], X) \subseteq X
      BY <3>1 DEF Effect, Kills, Makes
    <3>4. Targets(i, s[i]) \subseteq 1 .. 3 + 1
      <4>1. CASE i = 1
        BY <1>1, <2>1, <4>1 DEF Targets
      <4>2. CASE i = 2
        BY <1>1, <2>1, <4>2 DEF Targets
      <4>3. CASE i = 3
        BY <1>1, <2>1, <4>3 DEF Targets
      <4> QED BY <4>1, <4>2, <4>3
    <3> QED BY <3>2, <3>3, <3>4
  <2>3. s \in Proper(P, X, X)
    BY <2>1, <2>2, ProperSteady
  <2> QED BY <2>3 DEF s
<1>2. ASSUME NEW dx \in Nat, NEW dy \in Nat PROVE Move(p, dx, dy) \in Proper(P, X, X)
  <2> DEFINE a == [op |-> "move", plane |-> p, n |-> 2, arg |-> [dx |-> dx, dy |-> dy]]
             b == [op |-> "test_and_commit", plane |-> 0, n |-> 0, arg |-> << >>]
             c == [op |-> "again", plane |-> 0, n |-> 2, arg |-> << >>]
  <2>1. a \in StepType(P) /\ a.op = "move" /\ a.n = 2
    BY DEF StepType
  <2>2. b \in StepType(P) /\ b.op = "test_and_commit" /\ b.n = 0
    BY DEF StepType, OtherOps
  <2>3. c \in StepType(P) /\ c.op = "again" /\ c.n = 2
    BY DEF StepType, OtherOps
  <2>4. Move(p, dx, dy) = << a >> \o << b >> \o << c >>
    BY DEF Move, MoveBy, Commit, Do, With
  <2> HIDE DEF a, b, c
  <2> QED BY <1>1, <2>1, <2>2, <2>3, <2>4
<1>3. ASSUME NEW tenths \in Nat PROVE Scale(p, tenths) \in Proper(P, X, X)
  <2> DEFINE a == [op |-> "scale", plane |-> p, n |-> 2, arg |-> tenths]
             b == [op |-> "commit_if_possible", plane |-> 0, n |-> 1, arg |-> << >>]
             c == [op |-> "again", plane |-> 0, n |-> 2, arg |-> << >>]
  <2>1. a \in StepType(P) /\ a.op = "scale" /\ a.n = 2
    BY DEF StepType
  <2>2. b \in StepType(P) /\ b.op = "commit_if_possible" /\ b.n = 1
    BY DEF StepType, OtherOps
  <2>3. c \in StepType(P) /\ c.op = "again" /\ c.n = 2
    BY DEF StepType, OtherOps
  <2>4. Scale(p, tenths) = << a >> \o << b >> \o << c >>
    BY DEF Scale, Do, With
  <2> HIDE DEF a, b, c
  <2> QED BY <1>1, <2>1, <2>2, <2>3, <2>4
<1> QED BY <1>2, <1>3

LEMMA PossibleSteps ==
  ASSUME NEW P, NEW p \in P, NEW X \in SUBSET Marks(P), <<"fb", p>> \notin X,
         NEW rect \in Place,
         NEW steps \in Proper(P, X \cup {<<"fb", p>>}, X \cup {<<"fb", p>>})
  PROVE  ShowIfPossible(p, rect, steps) \in Proper(P, X, X \cup {<<"fb", p>>})
PROOF
<1> DEFINE Y == X \cup {<<"fb", p>>}
           draw == Do("draw", p, 0)
           st == [op |-> "init", plane |-> p, n |-> Len(steps) + 1, arg |-> rect]
<1>0. Y \in SUBSET Marks(P)
  BY DEF Marks
<1>1. steps \in Seq(StepType(P)) /\ Len(steps) \in Nat
  BY DEF Proper
<1>2. draw \in Proper(P, Y, Y)
  BY <1>0, NeutralSteps
<1>3. draw \in Seq(StepType(P)) /\ Len(draw) = 1
  <2>1. draw \in Seq(StepType(P))
    BY <1>2 DEF Proper
  <2> QED BY <2>1 DEF Do, With
<1>4. st \in StepType(P) /\ st.op = "init" /\ st.n = Len(steps) + 1 /\ st.plane = p
  BY <1>1 DEF StepType
<1>5. ShowIfPossible(p, rect, steps) = (<< st >> \o draw) \o steps
  BY DEF ShowIfPossible, InitAt, With
<1> HIDE DEF st, draw
<1>6. draw \o steps \in Proper(P, Y, Y) /\ Len(draw \o steps) = Len(steps) + 1
  <2>1. Len(draw \o steps) = Len(steps) + 1
    <3>1. Len(draw \o steps) = Len(draw) + Len(steps)
      BY <1>1, <1>3, JoinedLength
    <3> QED BY <1>1, <1>3, <3>1
  <2>2. draw \o steps \in Proper(P, Y, Y)
    <3> HIDE DEF Y
    <3>1. steps \in Proper(P, Y, Y)
      BY DEF Y
    <3> QED BY <1>2, <3>1, ProperJoined
  <2> QED BY <2>1, <2>2
<1>7. (<< st >> \o draw) \o steps = << st >> \o (draw \o steps)
  <2>1. << st >> \in Seq(StepType(P))
    BY <1>4
  <2> QED BY <1>1, <1>3, <2>1, SMTT(30)
<1>8. Forbids(P, st) \subseteq {<<"fb", p>>} /\ Makes(P, st) \subseteq {<<"fb", p>>}
  BY <1>4 DEF Forbids, Makes
<1>9. Forbids(P, st) \cap X = {} /\ Effect(P, st, X) \subseteq Y
  BY <1>8 DEF Effect
<1> HIDE DEF Y
<1>10. << st >> \o (draw \o steps) \in Proper(P, X, Y)
  BY <1>4, <1>6, <1>9, ProperStep
<1> QED BY <1>5, <1>7, <1>10 DEF Y

\* Jumps from a step, and the same from n + 1 steps further on.
LEMMA Shifts ==
  ASSUME NEW n \in Nat, NEW k \in Nat, NEW m \in Nat, NEW j
  PROVE  /\ j \in {n + 1 + k + 1, (n + 1 + k) - m} => j - (n + 1) \in {k + 1, k - m} /\ j \in Int
         /\ j \in {n + 1 + k + 1, n + 1 + k + 1 + m} =>
              j - (n + 1) \in {k + 1, k + 1 + m} /\ j \in Int
PROOF
<1>1. ASSUME j = n + 1 + k + 1 PROVE j - (n + 1) = k + 1 /\ j \in Int
  BY <1>1
<1>2. ASSUME j = (n + 1 + k) - m PROVE j - (n + 1) = k - m /\ j \in Int
  BY <1>2
<1>3. ASSUME j = n + 1 + k + 1 + m PROVE j - (n + 1) = k + 1 + m /\ j \in Int
  BY <1>3
<1> QED BY <1>1, <1>2, <1>3

LEMMA SameSum ==
  ASSUME NEW n \in Nat, NEW k \in Nat
  PROVE  n + (k + 1) = n + 1 + k
PROOF
OBVIOUS

\* Steps, then one that may pass over what follows it up to the end.  Those
\* before it may go on to it, or to the step after it: to either with Z.
LEMMA ProperExits ==
  ASSUME NEW P, NEW X, NEW Z \in SUBSET Marks(P), NEW s \in Seq(StepType(P)),
         NEW A \in [1 .. Len(s) + 2 -> SUBSET Marks(P)],
         X \subseteq A[1], A[Len(s) + 1] = Z, A[Len(s) + 2] = Z,
         \A i \in 1 .. Len(s) :
           /\ Forbids(P, s[i]) \cap A[i] = {}
           /\ \A j \in Targets(i, s[i]) : /\ j \in 1 .. Len(s) + 2
                                          /\ Effect(P, s[i], A[i]) \subseteq A[j],
         NEW st \in StepType(P), st.op = "drop_result",
         NEW t \in Proper(P, Z, Z), st.n = Len(t)
  PROVE  s \o (<< st >> \o t) \in Proper(P, X, Z)
PROOF
<1>1. t \in Seq(StepType(P))
  BY DEF Proper
<1>2. PICK B \in [1 .. Len(t) + 1 -> SUBSET Marks(P)] :
        Flow(P, t, B) /\ Z \subseteq B[1] /\ B[Len(t) + 1] \subseteq Z
  BY DEF Proper
<1>3. PICK n, len \in Nat : n = Len(s) /\ len = Len(t)
  BY <1>1
<1> DEFINE u == s \o (<< st >> \o t)
           C == [i \in 1 .. n + len + 2 |->
                   IF i \in 1 .. n THEN A[i]
                   ELSE IF i = n + 1 \/ i = n + len + 2 THEN Z ELSE B[i - (n + 1)]]
<1>4. /\ u \in Seq(StepType(P)) /\ Len(u) = n + len + 1
      /\ \A i \in 1 .. n : u[i] = s[i]
      /\ u[n + 1] = st
      /\ \A k \in 1 .. len : u[n + 1 + k] = t[k]
  <2> DEFINE v == << st >> \o t
  <2>1. /\ v \in Seq(StepType(P)) /\ Len(v) = len + 1 /\ v[1] = st
        /\ \A k \in 1 .. len : v[k + 1] = t[k]
    <3>1. << st >> \in Seq(StepType(P)) /\ Len(<< st >>) = 1 /\ << st >>[1] = st
      OBVIOUS
    <3> QED BY <1>1, <1>3, <3>1
  <2> HIDE DEF v
  <2>2. /\ s \o v \in Seq(StepType(P)) /\ Len(s \o v) = n + len + 1
        /\ \A i \in 1 .. n : (s \o v)[i] = s[i]
        /\ \A k \in 1 .. len + 1 : (s \o v)[n + k] = v[k]
    <3>1. /\ s \o v \in Seq(StepType(P)) /\ Len(s \o v) = Len(s) + Len(v)
          /\ \A i \in 1 .. Len(s) : (s \o v)[i] = s[i]
          /\ \A k \in 1 .. Len(v) : (s \o v)[Len(s) + k] = v[k]
      <4>1. v \in Seq(StepType(P))
        BY <2>1
      <4> QED BY <4>1
    <3>2. Len(s) = n /\ Len(v) = len + 1 /\ n + (len + 1) = n + len + 1
      BY <1>3, <2>1
    <3> QED BY <3>1, <3>2
  <2>3. (s \o v)[n + 1] = st
    BY <2>1, <2>2
  <2>4. ASSUME NEW k \in 1 .. len PROVE (s \o v)[n + 1 + k] = t[k]
    <3>1. k + 1 \in 1 .. len + 1 /\ k \in Nat
      BY SMTT(30)
    <3>2. n + (k + 1) = n + 1 + k
      BY <3>1, SameSum, Zenon
    <3> QED BY <2>1, <2>2, <3>1, <3>2
  <2> QED BY <2>2, <2>3, <2>4 DEF v
<1> HIDE DEF u
<1>5. /\ \A i \in 1 .. n : C[i] = A[i]
      /\ C[n + 1] = Z /\ C[n + len + 2] = Z
      /\ \A k \in 1 .. len : C[n + 1 + k] = B[k]
      /\ C \in [1 .. n + len + 2 -> SUBSET Marks(P)]
  <2>1. \A i \in 1 .. n : i \in 1 .. n + len + 2 /\ i \in 1 .. n + 2
    OBVIOUS
  <2>2. /\ n + 1 \in 1 .. n + len + 2 /\ n + 1 \notin 1 .. n
        /\ n + len + 2 \in 1 .. n + len + 2 /\ n + len + 2 \notin 1 .. n
    OBVIOUS
  <2>3. \A k \in 1 .. len : /\ n + 1 + k \in 1 .. n + len + 2 /\ n + 1 + k \notin 1 .. n
                            /\ n + 1 + k # n + 1 /\ n + 1 + k # n + len + 2
                            /\ (n + 1 + k) - (n + 1) = k
    OBVIOUS
  <2>4. \A i \in 1 .. n + len + 2 :
          i \notin 1 .. n /\ i # n + 1 /\ i # n + len + 2 => i - (n + 1) \in 1 .. len + 1
    OBVIOUS
  <2> QED BY <1>2, <1>3, <2>1, <2>2, <2>3, <2>4
<1> HIDE DEF C
<1>6. \A k \in 1 .. len + 1 : B[k] \subseteq C[n + 1 + k]
  <2> SUFFICES ASSUME NEW k \in 1 .. len + 1 PROVE B[k] \subseteq C[n + 1 + k]
    OBVIOUS
  <2>1. CASE k = len + 1
    <3>1. n + 1 + k = n + len + 2
      BY <2>1
    <3> QED BY <1>2, <1>3, <1>5, <2>1, <3>1
  <2>2. CASE k # len + 1
    <3>1. k \in 1 .. len
      BY <2>2
    <3> QED BY <1>5, <3>1
  <2> QED BY <2>1, <2>2
<1>7. Z \subseteq C[n + 2]
  <2>1. 1 \in 1 .. len + 1 /\ n + 1 + 1 = n + 2
    OBVIOUS
  <2> QED BY <1>2, <1>6, <2>1
<1>8. \A j \in 1 .. n + 2 : A[j] \subseteq C[j] /\ j \in 1 .. n + len + 2
  <2> SUFFICES ASSUME NEW j \in 1 .. n + 2
               PROVE  A[j] \subseteq C[j] /\ j \in 1 .. n + len + 2
    OBVIOUS
  <2>1. j \in 1 .. n \/ j = n + 1 \/ j = n + 2
    OBVIOUS
  <2>2. A[j] \subseteq C[j]
    BY <1>3, <1>5, <1>7, <2>1
  <2> QED BY <2>2
<1>9. ASSUME NEW i \in 1 .. n
      PROVE  /\ Forbids(P, u[i]) \cap C[i] = {}
             /\ \A j \in Targets(i, u[i]) : /\ j \in 1 .. n + len + 2
                                            /\ Effect(P, u[i], C[i]) \subseteq C[j]
  <2>1. u[i] = s[i] /\ C[i] = A[i]
    BY <1>4, <1>5
  <2>2. /\ Forbids(P, s[i]) \cap A[i] = {}
        /\ \A j \in Targets(i, s[i]) : /\ j \in 1 .. n + 2
                                       /\ Effect(P, s[i], A[i]) \subseteq A[j]
    BY <1>3
  <2> QED BY <1>8, <2>1, <2>2
<1>10. /\ Forbids(P, u[n + 1]) \cap C[n + 1] = {}
       /\ \A j \in Targets(n + 1, u[n + 1]) : /\ j \in 1 .. n + len + 2
                                              /\ Effect(P, u[n + 1], C[n + 1]) \subseteq C[j]
  <2>1. Forbids(P, st) = {} /\ Effect(P, st, Z) = Z
    BY DEF Forbids, Effect, Kills, Makes
  <2>2. ASSUME NEW j \in Targets(n + 1, st) PROVE j = n + 2 \/ j = n + len + 2
    <3>1. j \in {n + 1 + 1, n + 1 + 1 + len}
      BY <1>3 DEF Targets
    <3> QED BY <3>1
  <2>3. n + 2 \in 1 .. n + len + 2 /\ n + len + 2 \in 1 .. n + len + 2
    OBVIOUS
  <2>4. Forbids(P, u[n + 1]) = {} /\ Effect(P, u[n + 1], C[n + 1]) = Z
    BY <1>4, <1>5, <2>1
  <2>5. ASSUME NEW j \in Targets(n + 1, u[n + 1])
        PROVE  j \in 1 .. n + len + 2 /\ Z \subseteq C[j]
    BY <1>4, <1>5, <1>7, <2>2, <2>3
  <2> QED BY <2>4, <2>5
<1>11. ASSUME NEW k \in 1 .. len
       PROVE  /\ Forbids(P, t[k]) \cap B[k] = {}
              /\ \A j \in Targets(n + 1 + k, t[k]) : /\ j \in 1 .. n + len + 2
                                                     /\ Effect(P, t[k], B[k]) \subseteq C[j]
  <2> SUFFICES ASSUME NEW j \in Targets(n + 1 + k, t[k])
               PROVE  j \in 1 .. n + len + 2 /\ Effect(P, t[k], B[k]) \subseteq C[j]
    BY <1>2, <1>3 DEF Flow
  <2>1. j - (n + 1) \in Targets(k, t[k]) /\ j \in Int
    <3>1. t[k] \in StepType(P)
      BY <1>1, <1>3
    <3>2. PICK m \in Nat : m = t[k].n
      BY <3>1 DEF StepType
    <3>3. CASE t[k].op = "again"
      <4>1. j \in {n + 1 + k + 1, (n + 1 + k) - m}
        BY <3>2, <3>3 DEF Targets
      <4>2. k \in Nat
        OBVIOUS
      <4>3. j - (n + 1) \in {k + 1, k - m} /\ j \in Int
        BY <4>1, <4>2, Shifts, Zenon
      <4> QED BY <3>2, <3>3, <4>3 DEF Targets
    <3>4. CASE t[k].op # "again"
      <4>1. j \in {n + 1 + k + 1, n + 1 + k + 1 + m}
        BY <3>2, <3>4 DEF Targets
      <4>2. k \in Nat
        OBVIOUS
      <4>3. j - (n + 1) \in {k + 1, k + 1 + m} /\ j \in Int
        BY <4>1, <4>2, Shifts, Zenon
      <4> QED BY <3>2, <3>4, <4>3 DEF Targets
    <3> QED BY <3>3, <3>4
  <2>2. j - (n + 1) \in 1 .. len + 1 /\ Effect(P, t[k], B[k]) \subseteq B[j - (n + 1)]
    BY <1>2, <1>3, <2>1 DEF Flow
  <2>3. n + 1 + (j - (n + 1)) = j
    BY <2>1
  <2>4. j \in 1 .. n + len + 2
    <3>1. j - (n + 1) \in 1 .. len + 1 /\ j \in Int
      BY <2>1, <2>2
    <3> QED BY <3>1
  <2> QED BY <1>6, <2>2, <2>3, <2>4
<1>12. Flow(P, u, C)
  <2> SUFFICES ASSUME NEW i \in 1 .. n + len + 1
               PROVE  /\ Forbids(P, u[i]) \cap C[i] = {}
                      /\ \A j \in Targets(i, u[i]) : /\ j \in 1 .. n + len + 2
                                                     /\ Effect(P, u[i], C[i]) \subseteq C[j]
    <3>1. Len(u) + 1 = n + len + 2
      BY <1>4
    <3> QED BY <1>4, <3>1 DEF Flow
  <2>1. CASE i \in 1 .. n
    BY <1>9, <2>1
  <2>2. CASE i = n + 1
    BY <1>10, <2>2
  <2>3. CASE i \notin 1 .. n + 1
    <3>1. PICK k \in 1 .. len : n + 1 + k = i
      <4>1. i - (n + 1) \in 1 .. len /\ n + 1 + (i - (n + 1)) = i
        BY <2>3
      <4> QED BY <4>1
    <3>2. u[i] = t[k] /\ C[i] = B[k]
      BY <1>4, <1>5, <3>1
    <3> QED BY <1>11, <3>1, <3>2
  <2> QED BY <2>1, <2>2, <2>3
<1>13. X \subseteq C[1]
  <2>1. 1 \in 1 .. n + 2
    OBVIOUS
  <2> QED BY <1>8, <2>1
<1>14. u \in Proper(P, X, Z)
  <2>1. Len(u) + 1 = n + len + 2
    BY <1>4
  <2> QED BY <1>4, <1>5, <1>12, <1>13, <2>1 DEF Proper
<1> QED BY <1>14 DEF u

----------------------------------------------------------------------------
\* Page flips: five steps for each format.
FlipStep5(p, s, failed, k) ==
  IF k = 1 THEN [op |-> "unsupported", plane |-> 0, n |-> 4, arg |-> << >>]
  ELSE IF k = 2 THEN [op |-> "init", plane |-> p, n |-> failed, arg |-> Full(s)]
  ELSE IF k = 3 THEN [op |-> "draw", plane |-> p, n |-> Nonneg(failed - 1), arg |-> << >>]
  ELSE IF k = 4 THEN [op |-> "test_and_commit", plane |-> 0, n |-> 0, arg |-> << >>]
  ELSE [op |-> "disable", plane |-> p, n |-> 0, arg |-> << >>]

LEMMA FlipShape ==
  ASSUME NEW P, NEW p \in P, NEW s \in Size, NEW failed \in Nat
  PROVE  /\ flip(p, s, failed) \in Seq(StepType(P)) /\ Len(flip(p, s, failed)) = 5
         /\ \A k \in 1 .. 5 : flip(p, s, failed)[k] = FlipStep5(p, s, failed, k)
PROOF
<1> DEFINE b == FlipStep5(p, s, failed, 2)
           c == FlipStep5(p, s, failed, 3)
           d == FlipStep5(p, s, failed, 4)
           e == FlipStep5(p, s, failed, 5)
           shown == << b >> \o << c >> \o << d >> \o << e >>
           a == [op |-> "unsupported", plane |-> 0, n |-> Len(shown), arg |-> << >>]
<1>0. Nonneg(failed - 1) \in Nat
  BY DEF Nonneg
<1>1. b \in StepType(P) /\ c \in StepType(P) /\ d \in StepType(P) /\ e \in StepType(P)
  <2>1. Full(s) \in Place
    BY DEF Full, Rect, Place, Size
  <2>2. b \in StepType(P)
    BY <2>1 DEF StepType, FlipStep5
  <2>3. c \in StepType(P)
    BY <1>0 DEF StepType, FlipStep5, PlaneOps
  <2>4. d \in StepType(P) /\ e \in StepType(P)
    BY DEF StepType, FlipStep5, PlaneOps, OtherOps
  <2> QED BY <2>2, <2>3, <2>4
<1>2. flip(p, s, failed) = << a >> \o shown
  <2>1. /\ InitAt(p, failed, Full(s)) = << b >>
        /\ Do("draw", p, Nonneg(failed - 1)) = << c >>
        /\ Commit = << d >> /\ Disable(p) = << e >>
    BY DEF InitAt, Do, With, Commit, Disable, FlipStep5
  <2> HIDE DEF b, c, d, e
  <2>2. flip(p, s, failed) = Do("unsupported", 0, Len(shown)) \o shown
    BY <2>1 DEF flip
  <2>3. Do("unsupported", 0, Len(shown)) = << a >>
    BY DEF Do, With
  <2> QED BY <2>2, <2>3
<1> HIDE DEF b, c, d, e
<1>3. /\ shown \in Seq(StepType(P)) /\ Len(shown) = 4
      /\ shown[1] = b /\ shown[2] = c /\ shown[3] = d /\ shown[4] = e
  <2>1. /\ << b >> \in Seq(StepType(P)) /\ << c >> \in Seq(StepType(P))
        /\ << d >> \in Seq(StepType(P)) /\ << e >> \in Seq(StepType(P))
    BY <1>1
  <2> QED BY <2>1
<1> HIDE DEF shown
<1>4. a \in StepType(P) /\ a = FlipStep5(p, s, failed, 1)
  BY <1>3 DEF StepType, FlipStep5, OtherOps
<1> HIDE DEF a
<1>5. /\ << a >> \o shown \in Seq(StepType(P)) /\ Len(<< a >> \o shown) = 5
      /\ (<< a >> \o shown)[1] = a /\ (<< a >> \o shown)[2] = b
      /\ (<< a >> \o shown)[3] = c /\ (<< a >> \o shown)[4] = d
      /\ (<< a >> \o shown)[5] = e
  <2>1. /\ << a >> \o shown \in Seq(StepType(P))
        /\ Len(<< a >> \o shown) = 1 + Len(shown)
        /\ (<< a >> \o shown)[1] = a
        /\ \A k \in 1 .. Len(shown) : (<< a >> \o shown)[1 + k] = shown[k]
    <3>1. PICK v \in Seq(StepType(P)) : v = shown
      BY <1>3
    <3>2. PICK x \in StepType(P) : x = a
      BY <1>4
    <3>3. /\ << x >> \o v \in Seq(StepType(P)) /\ Len(<< x >> \o v) = 1 + Len(v)
          /\ (<< x >> \o v)[1] = x
          /\ \A k \in 1 .. Len(v) : (<< x >> \o v)[1 + k] = v[k]
      BY Prefixed
    <3> QED BY <3>1, <3>2, <3>3
  <2> QED BY <1>3, <2>1
<1>6. \A k \in 1 .. 5 : k = 1 \/ k = 2 \/ k = 3 \/ k = 4 \/ k = 5
  OBVIOUS
<1> QED BY <1>2, <1>4, <1>5, <1>6 DEF b, c, d, e

\* The formats once more: no plane is passed over.
LEMMA FlipAgain ==
  ASSUME NEW P, 0 \notin P, NEW p \in P, NEW s \in Size,
         NEW Z \in SUBSET Marks(P), Z \subseteq Fbs(P), <<"fb", p>> \in Z
  PROVE  flip(p, s, 0) \in Proper(P, Z, Z)
PROOF
<1> DEFINE shown == InitAt(p, 0, Full(s)) \o Do("draw", p, Nonneg(0 - 1))
                      \o Commit \o Disable(p)
           st == [op |-> "unsupported", plane |-> 0, n |-> Len(shown), arg |-> << >>]
<1>1. Full(s) \in Place
  BY DEF Full, Rect, Place, Size
<1>2. Nonneg(0 - 1) = 0
  BY DEF Nonneg
<1>3. Z \cup {<<"fb", p>>} = Z /\ Z \cap Dead(P) = {} /\ <<"live", p>> \notin Z
  BY DEF Fbs, Dead
<1>4. shown \in Proper(P, Z, Z)
  <2>1. InitAt(p, 0, Full(s)) \in Proper(P, Z, Z)
    BY <1>1, <1>3, FbSteps
  <2>2. Do("draw", p, Nonneg(0 - 1)) \in Proper(P, Z, Z) /\ Commit \in Proper(P, Z, Z)
    BY <1>2, <1>3, NeutralSteps
  <2>3. Disable(p) \in Proper(P, Z, Z)
    <3>1. Disable(p) \in Proper(P, Z, Z \ {<<"fb", p>>, <<"dead", p>>})
      BY <1>1, <1>3, FbSteps
    <3> QED BY <3>1, ProperWeaker
  <2> QED BY <2>1, <2>2, <2>3, ProperJoined
<1>5. flip(p, s, 0) = << st >> \o shown
  BY DEF flip, Do, With
<1>6. Len(shown) \in Nat
  <2>1. shown \in Seq(StepType(P))
    BY <1>4 DEF Proper
  <2> HIDE DEF shown
  <2> QED BY <2>1
<1> HIDE DEF shown
<1>7. st \in StepType(P) /\ st.op = "unsupported" /\ st.n = Len(shown)
  BY <1>6 DEF StepType, OtherOps
<1> HIDE DEF st
<1>8. Forbids(P, st) = {} /\ Effect(P, st, Z) \subseteq Z
  BY <1>7 DEF Forbids, Effect, Kills, Makes
<1> QED BY <1>4, <1>5, <1>7, <1>8, ProperStep

\* A case that fails at any of its formats goes on at the step after the first
\* round, with a framebuffer at most.
LEMMA PageflipProper ==
  ASSUME NEW P, 0 \notin P, NEW p \in P, NEW s \in Size,
         NEW X \in SUBSET Fbs(P), <<"fb", p>> \notin X
  PROVE  pageflip_formats(p, s) \in Proper(P, X, X \cup {<<"fb", p>>})
PROOF
<1> DEFINE Z == X \cup {<<"fb", p>>}
           S == StepType(P)
           to(i) == 5 * (Formats - i + 1) - 1
           rows == [i \in 1 .. Formats |-> flip(p, s, to(i))]
           first == FlattenSeq(rows)
           again == FlattenSeq([i \in 1 .. Formats |-> flip(p, s, 0)])
           st == [op |-> "drop_result", plane |-> 0, n |-> Len(again) + 2, arg |-> << >>]
           rest == Do("failed", 0, 0) \o again \o Do("return", 0, 0)
<1>1. Formats \in Nat
  BY AtomicAssumption
<1>2. /\ Z \in SUBSET Marks(P) /\ Z \subseteq Fbs(P) /\ <<"fb", p>> \in Z /\ X \subseteq Z
      /\ Fbs(P) \subseteq Marks(P)
  BY DEF Fbs, Marks
<1> HIDE DEF Z
<1>3. pageflip_formats(p, s) = first \o << st >> \o Do("failed", 0, 0)
                                 \o again \o Do("return", 0, 0)
  <2>1. Len(flip(p, s, 0)) = 5
    BY FlipShape
  <2> QED BY <2>1 DEF pageflip_formats, Do, With
<1>4. \A i \in 1 .. Formats : to(i) \in Nat /\ to(i) >= 4
  BY <1>1
<1>5. first \in Blocks(S, 5, Formats, rows)
  <2>1. \A i \in 1 .. Formats : rows[i] \in {t \in Seq(S) : Len(t) = 5}
    BY <1>4, FlipShape
  <2>2. rows \in Seq({t \in Seq(S) : Len(t) = 5}) /\ Len(rows) = Formats
    <3>1. rows \in [1 .. Formats -> {t \in Seq(S) : Len(t) = 5}]
      BY <2>1
    <3> HIDE DEF rows, S
    <3> QED BY <1>1, <3>1
  <2> HIDE DEF rows, S
  <2> QED BY <2>2, FlattenBlocks
<1>6. again \in Proper(P, Z, Z)
  <2> DEFINE C == Proper(P, Z, Z)
             more == [i \in 1 .. Formats |-> flip(p, s, 0)]
  <2>1. flip(p, s, 0) \in C
    BY <1>2, FlipAgain
  <2>2. << >> \in C /\ C \in SUBSET Seq(S)
    BY <1>2, ProperEmpty DEF Proper
  <2>3. \A t, v \in C : t \o v \in C
    BY ProperJoined
  <2> HIDE DEF C, S
  <2>4. more \in Seq(C)
    <3>1. more \in [1 .. Formats -> C]
      BY <2>1
    <3> HIDE DEF more
    <3> QED BY <1>1, <3>1
  <2>5. FlattenSeq(more) \in C
    BY <2>2, <2>3, <2>4, FlattenClosed
  <2> QED BY <2>5 DEF C
<1> HIDE DEF first, again
<1>7. rest \in Proper(P, Z, Z) /\ rest \in Seq(S) /\ Len(rest) = Len(again) + 2
  <2>1. Do("failed", 0, 0) \in Proper(P, Z, Z)
    BY <1>2, NeutralSteps
  <2>2. Do("return", 0, 0) \in Proper(P, Z, Z)
    <3> DEFINE ret_ == [op |-> "return", plane |-> 0, n |-> 0, arg |-> << >>]
    <3>1. ret_ \in S /\ ret_.op = "return" /\ ret_.n = 0
      BY DEF StepType, OtherOps
    <3> HIDE DEF ret_
    <3>2. Forbids(P, ret_) \cap Fbs(P) = {} /\ Effect(P, ret_, Z) = Z
      BY <3>1 DEF Forbids, Effect, Kills, Makes
    <3>3. << ret_ >> \in Proper(P, Z, Z)
      BY <1>2, <3>1, <3>2, ProperOne
    <3> QED BY <3>3 DEF ret_, Do, With
  <2>3. rest \in Proper(P, Z, Z)
    BY <1>6, <2>1, <2>2, ProperJoined
  <2>4. Len(rest) = Len(again) + 2
    <3>1. PICK a \in Seq(S) : a = Do("failed", 0, 0) /\ Len(a) = 1
      BY <2>1 DEF Proper, Do, With
    <3>2. PICK b \in Seq(S) : b = Do("return", 0, 0) /\ Len(b) = 1
      BY <2>2 DEF Proper, Do, With
    <3>3. PICK v \in Seq(S) : v = again
      BY <1>6 DEF Proper
    <3> HIDE DEF S
    <3>4. a \o v \in Seq(S) /\ Len(a \o v) = Len(a) + Len(v)
      OBVIOUS
    <3>5. PICK w \in Seq(S) : w = a \o v
      BY <3>4
    <3>6. Len(w \o b) = Len(w) + Len(b)
      OBVIOUS
    <3>7. rest = w \o b
      BY <3>1, <3>2, <3>3, <3>5
    <3> HIDE DEF rest
    <3>8. Len(rest) = Len(w) + 1 /\ Len(w) = 1 + Len(again)
      BY <3>1, <3>2, <3>3, <3>4, <3>5, <3>6, <3>7
    <3>9. Len(again) \in Nat
      BY <3>3
    <3> QED BY <3>8, <3>9
  <2> QED BY <2>3, <2>4 DEF Proper
<1> HIDE DEF rest
<1>8. st \in S /\ st.op = "drop_result" /\ st.n = Len(rest)
  <2>1. Len(again) \in Nat
    BY <1>6 DEF Proper
  <2> QED BY <1>7, <2>1 DEF StepType, OtherOps
<1>9. pageflip_formats(p, s) = first \o (<< st >> \o rest)
  <2>1. PICK f \in Seq(S) : f = first
    BY <1>5 DEF Blocks
  <2>2. PICK x \in S : x = st
    BY <1>8
  <2>3. PICK a, b, v \in Seq(S) :
          a = Do("failed", 0, 0) /\ v = again /\ b = Do("return", 0, 0)
    <3>1. Do("failed", 0, 0) \in Seq(S)
      BY <1>2, NeutralSteps DEF Proper
    <3>2. Do("return", 0, 0) \in Seq(S)
      BY DEF Do, With, StepType, OtherOps
    <3>3. again \in Seq(S)
      BY <1>6 DEF Proper
    <3> QED BY <3>1, <3>2, <3>3
  <2> HIDE DEF S, st
  <2>4. << x >> \in Seq(S)
    OBVIOUS
  <2>5. PICK y \in Seq(S) : y = << x >>
    BY <2>4
  <2>6. f \o y \o a \o v \o b = f \o (y \o (a \o v \o b))
    <3>1. Regroups(f, y, a, v, b)
      BY Regrouped
    <3> QED BY <3>1 DEF Regroups
  <2>7. f \o << x >> \o a \o v \o b = f \o (<< x >> \o (a \o v \o b))
    BY <2>5, <2>6
  <2> QED BY <1>3, <2>1, <2>2, <2>3, <2>7 DEF rest
<1> HIDE DEF st
<1> DEFINE A == [i \in 1 .. 5 * Formats + 2 |->
                   IF i <= 5 * Formats /\ i % 5 \in {1, 2} THEN X ELSE Z]
<1>10. /\ A \in [1 .. 5 * Formats + 2 -> SUBSET Marks(P)]
       /\ A[5 * Formats + 1] = Z /\ A[5 * Formats + 2] = Z
       /\ \A i \in 1 .. 5 * Formats + 2 : X \subseteq A[i] /\ A[i] \subseteq Z
  BY <1>1, <1>2
<1>11. ASSUME NEW j \in 1 .. Formats
       PROVE  /\ A[5 * (j - 1) + 1] = X /\ A[5 * (j - 1) + 2] = X /\ A[5 * (j - 1) + 3] = Z
              /\ A[5 * (j - 1) + 4] = Z /\ A[5 * (j - 1) + 5] = Z
  BY <1>1
<1> HIDE DEF A
<1>12. /\ first \in Seq(S) /\ Len(first) = 5 * Formats
       /\ \A j \in 1 .. Formats, k \in 1 .. 5 :
            first[5 * (j - 1) + k] = FlipStep5(p, s, to(j), k)
  <2>1. \A j \in 1 .. Formats, k \in 1 .. 5 : rows[j][k] = FlipStep5(p, s, to(j), k)
    BY <1>4, FlipShape
  <2> HIDE DEF rows
  <2> QED BY <1>5, <2>1 DEF Blocks
<1>13. ASSUME NEW j \in 1 .. Formats, NEW k \in 1 .. 5
       PROVE  LET i == 5 * (j - 1) + k IN
              /\ Forbids(P, first[i]) \cap A[i] = {}
              /\ \A x \in Targets(i, first[i]) : /\ x \in 1 .. 5 * Formats + 2
                                                 /\ Effect(P, first[i], A[i]) \subseteq A[x]
  <2> DEFINE i == 5 * (j - 1) + k
             step5 == FlipStep5(p, s, to(j), k)
  <2>1. first[i] = step5
    BY <1>12
  <2>2. i \in 1 .. 5 * Formats /\ i \in Nat
    BY <1>1
  <2>3. to(j) \in Nat /\ to(j) >= 4 /\ Nonneg(to(j) - 1) = to(j) - 1
    BY <1>4 DEF Nonneg
  <2>4. ASSUME NEW x \in Targets(i, step5) PROVE x \in 1 .. 5 * Formats + 2
    <3>1. CASE k = 1
      <4>1. x \in {i + 1, i + 1 + 4}
        BY <3>1 DEF Targets, FlipStep5
      <4> QED BY <1>1, <3>1, <4>1
    <3>2. CASE k = 2
      <4>1. x \in {i + 1, i + 1 + to(j)}
        BY <3>2 DEF Targets, FlipStep5
      <4> QED BY <1>1, <3>2, <4>1
    <3>3. CASE k = 3
      <4>1. x \in {i + 1, i + 1 + (to(j) - 1)}
        BY <2>3, <3>3 DEF Targets, FlipStep5
      <4> QED BY <1>1, <3>3, <4>1
    <3>4. CASE k \in {4, 5}
      <4>1. x \in {i + 1, i + 1 + 0}
        BY <3>4 DEF Targets, FlipStep5
      <4> QED BY <1>1, <3>4, <4>1
    <3> QED BY <3>1, <3>2, <3>3, <3>4
  <2>5. CASE k = 1
    <3>1. A[i] = X
      BY <1>11, <2>5
    <3>2. step5.op = "unsupported"
      BY <2>5 DEF FlipStep5
    <3> HIDE DEF i, step5
    <3>3. Forbids(P, step5) = {} /\ Effect(P, step5, X) = X
      BY <3>2 DEF Forbids, Effect, Kills, Makes
    <3>4. \A x \in 1 .. 5 * Formats + 2 : X \subseteq A[x]
      BY <1>10
    <3>5. /\ Forbids(P, first[i]) \cap A[i] = {}
          /\ \A x \in Targets(i, first[i]) : /\ x \in 1 .. 5 * Formats + 2
                                             /\ Effect(P, first[i], A[i]) \subseteq A[x]
      BY <2>1, <2>4, <3>1, <3>3, <3>4
    <3> QED BY <3>5 DEF i
  <2>6. CASE k = 2
    <3>1. A[i] = X
      BY <1>11, <2>6
    <3>2. step5.op = "init" /\ step5.plane = p
      BY <2>6 DEF FlipStep5
    <3>3. \A x \in Targets(i, step5) : A[x] = Z
      <4>1. Targets(i, step5) = {i + 1, i + 1 + to(j)}
        BY <2>6 DEF Targets, FlipStep5
      <4>2. i + 1 = 5 * (j - 1) + 3 /\ i + 1 + to(j) = 5 * Formats + 2
        BY <1>1, <2>6
      <4> QED BY <1>10, <1>11, <4>1, <4>2
    <3> HIDE DEF i, step5
    <3>4. Forbids(P, step5) \subseteq {<<"fb", p>>} /\ Effect(P, step5, X) \subseteq Z
      BY <3>2 DEF Forbids, Effect, Kills, Makes, Z
    <3>5. /\ Forbids(P, first[i]) \cap A[i] = {}
          /\ \A x \in Targets(i, first[i]) : /\ x \in 1 .. 5 * Formats + 2
                                             /\ Effect(P, first[i], A[i]) \subseteq A[x]
      BY <2>1, <2>4, <3>1, <3>3, <3>4
    <3> QED BY <3>5 DEF i
  <2>7. CASE k = 3
    <3>1. A[i] = Z
      BY <1>11, <2>7
    <3>2. step5.op = "draw"
      BY <2>7 DEF FlipStep5
    <3>3. \A x \in Targets(i, step5) : A[x] = Z
      <4>1. Targets(i, step5) = {i + 1, i + 1 + (to(j) - 1)}
        BY <2>3, <2>7 DEF Targets, FlipStep5
      <4>2. i + 1 = 5 * (j - 1) + 4 /\ i + 1 + (to(j) - 1) = 5 * Formats + 2
        BY <1>1, <2>7
      <4> QED BY <1>10, <1>11, <4>1, <4>2
    <3> HIDE DEF i, step5
    <3>4. Forbids(P, step5) = {} /\ Effect(P, step5, Z) = Z
      BY <3>2 DEF Forbids, Effect, Kills, Makes
    <3>5. /\ Forbids(P, first[i]) \cap A[i] = {}
          /\ \A x \in Targets(i, first[i]) : /\ x \in 1 .. 5 * Formats + 2
                                             /\ Effect(P, first[i], A[i]) \subseteq A[x]
      BY <2>1, <2>4, <3>1, <3>3, <3>4
    <3> QED BY <3>5 DEF i
  <2>8. CASE k = 4
    <3>1. A[i] = Z
      BY <1>11, <2>8
    <3>2. step5.op = "test_and_commit"
      BY <2>8 DEF FlipStep5
    <3>3. \A x \in Targets(i, step5) : A[x] = Z
      <4>1. Targets(i, step5) = {i + 1, i + 1 + 0}
        BY <2>8 DEF Targets, FlipStep5
      <4>2. i + 1 = 5 * (j - 1) + 5 /\ i + 1 + 0 = 5 * (j - 1) + 5
        BY <1>1, <2>8
      <4> QED BY <1>11, <4>1, <4>2
    <3> HIDE DEF i, step5
    <3>4. Forbids(P, step5) \cap Z = {} /\ Effect(P, step5, Z) = Z
      BY <1>2, <3>2 DEF Forbids, Effect, Kills, Makes, Fbs, Dead
    <3>5. /\ Forbids(P, first[i]) \cap A[i] = {}
          /\ \A x \in Targets(i, first[i]) : /\ x \in 1 .. 5 * Formats + 2
                                             /\ Effect(P, first[i], A[i]) \subseteq A[x]
      BY <2>1, <2>4, <3>1, <3>3, <3>4
    <3> QED BY <3>5 DEF i
  <2>9. CASE k = 5
    <3>1. A[i] = Z
      BY <1>11, <2>9
    <3>2. step5.op = "disable" /\ step5.plane = p
      BY <2>9 DEF FlipStep5
    <3> HIDE DEF i, step5
    <3>3. Forbids(P, step5) \cap Z = {} /\ Effect(P, step5, Z) \subseteq X
      <4>1. <<"fb", p>> \in Kills(P, step5) /\ Makes(P, step5) = {}
        BY <1>2, <3>2 DEF Kills, Makes
      <4>2. Forbids(P, step5) \cap Fbs(P) = {}
        BY <3>2 DEF Forbids, Fbs
      <4> QED BY <1>2, <4>1, <4>2 DEF Effect, Z
    <3>4. \A x \in 1 .. 5 * Formats + 2 : X \subseteq A[x]
      BY <1>10
    <3>5. /\ Forbids(P, first[i]) \cap A[i] = {}
          /\ \A x \in Targets(i, first[i]) : /\ x \in 1 .. 5 * Formats + 2
                                             /\ Effect(P, first[i], A[i]) \subseteq A[x]
      BY <2>1, <2>4, <3>1, <3>3, <3>4
    <3> QED BY <3>5 DEF i
  <2>10. k = 1 \/ k = 2 \/ k = 3 \/ k = 4 \/ k = 5
    OBVIOUS
  <2> QED BY <2>5, <2>6, <2>7, <2>8, <2>9, <2>10
<1>14. ASSUME NEW i \in 1 .. Len(first)
       PROVE  /\ Forbids(P, first[i]) \cap A[i] = {}
              /\ \A x \in Targets(i, first[i]) : /\ x \in 1 .. Len(first) + 2
                                                 /\ Effect(P, first[i], A[i]) \subseteq A[x]
  <2>1. Len(first) = 5 * Formats
    BY <1>12
  <2>2. PICK j \in 1 .. Formats, k \in 1 .. 5 : i = 5 * (j - 1) + k
    <3> DEFINE q == (i - 1) \div 5
               r == (i - 1) % 5
    <3>1. i - 1 = 5 * q + r /\ q \in Int /\ r \in 0 .. 4
      BY <1>1, <2>1
    <3> HIDE DEF q, r
    <3>2. q + 1 \in 1 .. Formats /\ r + 1 \in 1 .. 5 /\ i = 5 * ((q + 1) - 1) + (r + 1)
      BY <1>1, <2>1, <3>1
    <3> QED BY <3>2
  <2> QED BY <1>13, <2>1, <2>2
<1>15. X \subseteq A[1] /\ Z \in SUBSET Marks(P)
  BY <1>1, <1>2, <1>10
<1> HIDE DEF S
<1>16. first \o (<< st >> \o rest) \in Proper(P, X, Z)
  <2>1. Len(first) = 5 * Formats
    BY <1>12
  <2> QED BY <1>7, <1>8, <1>10, <1>12, <1>14, <1>15, <2>1, ProperExits DEF S
<1> QED BY <1>9, <1>16 DEF Z

\* Within takes as many elements as are in the set, so that those of one type
\* and those of another are together no more than all.
LEMMA WithinLength ==
  ASSUME NEW T, NEW s \in Seq(T), NEW S
  PROVE  Len(Within(s, S)) = Cardinality({i \in DOMAIN s : s[i] \in S})
PROOF
<1> DEFINE n == Len(s)
           ss == [i \in DOMAIN s |-> IF s[i] \in S THEN << s[i] >> ELSE << >>]
           in(i) == {j \in 1 .. i : s[j] \in S}
           Counts(i) == {t \in Seq(T) : Len(t) = Cardinality(in(i))}
           D == [i \in 0 .. n |-> Counts(i)]
<1>1. n \in Nat /\ DOMAIN s = 1 .. n /\ \A i \in 1 .. n : s[i] \in T
  OBVIOUS
<1>2. /\ n = Len(ss)
      /\ n = 0 => ss = << >>
      /\ \A i \in 1 .. n : ss[i] = IF s[i] \in S THEN << s[i] >> ELSE << >>
  BY <1>1
<1>3. \A i \in 1 .. n : << >> \o ss[i] = ss[i]
  BY <1>1, <1>2
<1>4. << >> \in Counts(0)
  <2>1. in(0) = {}
    OBVIOUS
  <2> HIDE DEF in
  <2>2. Cardinality(in(0)) = 0
    BY <2>1, FS_EmptySet
  <2> QED BY <2>2
<1> HIDE DEF ss
<1>5. ASSUME NEW i \in 1 .. n, NEW t \in Counts(i - 1)
      PROVE  t \o ss[i] \in Counts(i)
  <2>1. t \in Seq(T) /\ Len(t) = Cardinality(in(i - 1))
    OBVIOUS
  <2>2. IsFiniteSet(in(i - 1))
    <3>1. in(i - 1) \in SUBSET (1 .. i - 1)
      OBVIOUS
    <3>2. i - 1 \in Int /\ 1 \in Int
      BY <1>1
    <3> HIDE DEF in
    <3>3. IsFiniteSet(1 .. i - 1)
      BY <3>2, FS_Interval
    <3> QED BY <3>1, <3>3, FS_Subset
  <2>3. CASE s[i] \notin S
    <3>1. in(i) = in(i - 1)
      BY <2>3
    <3>2. ss[i] = << >>
      BY <1>2, <2>3
    <3>3. t \o << >> = t
      BY <2>1
    <3> HIDE DEF in
    <3> QED BY <2>1, <3>1, <3>2, <3>3
  <2>4. CASE s[i] \in S
    <3>1. in(i) = in(i - 1) \cup {i} /\ i \notin in(i - 1)
      BY <2>4
    <3> HIDE DEF in
    <3>2. Cardinality(in(i)) = Cardinality(in(i - 1)) + 1
      BY <2>2, <3>1, FS_AddElement
    <3>3. ss[i] = << s[i] >> /\ s[i] \in T
      BY <1>1, <1>2, <2>4
    <3>4. t \o << s[i] >> \in Seq(T) /\ Len(t \o << s[i] >>) = Len(t) + 1
      BY <2>1, <3>3
    <3> QED BY <2>1, <3>2, <3>3, <3>4
  <2> QED BY <2>3, <2>4
<1> HIDE DEF Counts, n
<1>6. \A i \in 0 .. n : D[i] = Counts(i)
  BY <1>1
<1> HIDE DEF D
<1>7. << >> \in D[0] /\ D[n] = Counts(n)
  BY <1>1, <1>4, <1>6
<1>8. \A i \in 1 .. n : \A t \in D[i - 1] : t \o ss[i] \in D[i]
  <2>1. \A i \in 1 .. n : D[i - 1] = Counts(i - 1) /\ D[i] = Counts(i)
    BY <1>1, <1>6
  <2> QED BY <1>5, <2>1
<1>9. FlattenSeq(ss) \in D[n]
  <2>1. n \in Nat /\ n = Len(ss) /\ (n = 0 => ss = << >>)
    BY <1>1, <1>2
  <2> QED BY <2>1, <1>3, <1>7, <1>8, FlattenUpTo, Zenon
<1>10. Within(s, S) = FlattenSeq(ss)
  BY DEF Within, ss
<1> QED BY <1>1, <1>7, <1>9, <1>10 DEF Counts

LEMMA TypesAreApart ==
  ASSUME NEW m \in Machines, NEW c \in Crtcs
  PROVE  Len(Primaries(m, c)) + Len(Overlays(m, c)) <= Len(PlanesOf(m, c))
PROOF
<1> DEFINE s == PlanesOf(m, c)
           in(type) == {i \in DOMAIN s : s[i] \in {p \in Planes : m.type[p] = type}}
<1>1. s \in Seq(PlaneSet(m, c)) /\ DOMAIN s = 1 .. Len(s) /\ Len(s) \in Nat
  BY ListsType
<1>2. /\ Len(Primaries(m, c)) = Cardinality(in("primary"))
      /\ Len(Overlays(m, c)) = Cardinality(in("overlay"))
  <2>1. /\ Primaries(m, c) = Within(s, {p \in Planes : m.type[p] = "primary"})
        /\ Overlays(m, c) = Within(s, {p \in Planes : m.type[p] = "overlay"})
    BY DEF Primaries, Overlays, get_planes, TypeLists, PlanesOf, PlaneTypes
  <2> HIDE DEF s
  <2> QED BY <1>1, <2>1, WithinLength
<1>3. /\ in("primary") \in SUBSET (1 .. Len(s)) /\ in("overlay") \in SUBSET (1 .. Len(s))
      /\ in("primary") \cap in("overlay") = {}
  BY <1>1
<1> HIDE DEF s, in
<1>4. IsFiniteSet(1 .. Len(s)) /\ Cardinality(1 .. Len(s)) = Len(s)
  BY <1>1, FS_Interval
<1>5. IsFiniteSet(in("primary")) /\ IsFiniteSet(in("overlay"))
  BY <1>3, <1>4, FS_Subset
<1>6. Cardinality(in("primary") \cup in("overlay"))
        = Cardinality(in("primary")) + Cardinality(in("overlay"))
  <2>1. Cardinality(in("primary") \cap in("overlay")) = 0
    BY <1>3, FS_EmptySet
  <2>2. Cardinality(in("primary")) \in Nat /\ Cardinality(in("overlay")) \in Nat
    BY <1>5, FS_CardinalityType
  <2>3. Cardinality(in("primary") \cup in("overlay"))
          = Cardinality(in("primary")) + Cardinality(in("overlay"))
              - Cardinality(in("primary") \cap in("overlay"))
    BY <1>5, FS_Union
  <2> QED BY <2>1, <2>2, <2>3
<1>7. Cardinality(in("primary") \cup in("overlay")) <= Len(s)
  <2>1. in("primary") \cup in("overlay") \in SUBSET (1 .. Len(s))
    BY <1>3
  <2> QED BY <1>4, <2>1, FS_Subset
<1> QED BY <1>2, <1>6, <1>7 DEF s

----------------------------------------------------------------------------
\* The test cases.
LEMMA EachSteady ==
  ASSUME NEW P, NEW X \in SUBSET Marks(P), NEW n \in Nat,
         NEW ss \in [1 .. n -> Proper(P, X, X)]
  PROVE  FlattenSeq(ss) \in Proper(P, X, X)
PROOF
<1> DEFINE C == Proper(P, X, X)
           S == StepType(P)
<1>1. << >> \in C /\ C \in SUBSET Seq(S)
  BY ProperEmpty DEF Proper
<1>2. \A t, v \in C : t \o v \in C
  BY ProperJoined
<1> HIDE DEF C, S
<1>3. ss \in Seq(C)
  <2>1. ss \in [1 .. n -> C]
    BY DEF C
  <2> QED BY <2>1
<1>4. FlattenSeq(ss) \in C
  BY <1>1, <1>2, <1>3, FlattenClosed
<1> QED BY <1>4 DEF C

\* The framebuffers of the first i planes of a list, which get one each.
FirstFbs(list, i) == {<<"fb", list[j]>> : j \in 1 .. i}

LEMMA EachAdds ==
  ASSUME NEW P, NEW list \in Seq(P), NEW ss, DOMAIN ss = 1 .. Len(list), Len(ss) = Len(list),
         Len(list) = 0 => ss = << >>,
         \A i \in 1 .. Len(list) :
           ss[i] \in Proper(P, FirstFbs(list, i - 1), FirstFbs(list, i))
  PROVE  FlattenSeq(ss) \in Proper(P, {}, Fbs(P))
PROOF
<1> DEFINE n == Len(list)
           D == [i \in 0 .. n |-> Proper(P, {}, FirstFbs(list, i))]
<1>1. n \in Nat /\ \A i \in 1 .. n : list[i] \in P
  OBVIOUS
<1>2. FirstFbs(list, 0) = {} /\ \A i \in 0 .. n : FirstFbs(list, i) \subseteq Fbs(P)
  BY <1>1 DEF FirstFbs, Fbs
<1> HIDE DEF n
<1>3. \A i \in 0 .. n : D[i] = Proper(P, {}, FirstFbs(list, i))
  OBVIOUS
<1> HIDE DEF D
<1>4. << >> \in D[0]
  <2>1. << >> \in Proper(P, {}, {})
    BY ProperEmpty
  <2>2. 0 \in 0 .. n
    BY <1>1
  <2>3. D[0] = Proper(P, {}, FirstFbs(list, 0))
    BY <1>3, <2>2
  <2>4. D[0] = Proper(P, {}, {})
    BY <1>2, <2>3
  <2> QED BY <2>1, <2>4
<1>5. \A i \in 1 .. n : << >> \o ss[i] = ss[i]
  <2> SUFFICES ASSUME NEW i \in 1 .. n PROVE << >> \o ss[i] = ss[i]
    OBVIOUS
  <2>1. ss[i] \in Seq(StepType(P))
    BY DEF Proper, n
  <2> QED BY <2>1
<1>6. ASSUME NEW i \in 1 .. n, NEW t \in D[i - 1] PROVE t \o ss[i] \in D[i]
  <2>1. t \in Proper(P, {}, FirstFbs(list, i - 1)) /\ i \in 0 .. n
    BY <1>1, <1>3
  <2>2. ss[i] \in Proper(P, FirstFbs(list, i - 1), FirstFbs(list, i))
    BY DEF n
  <2> QED BY <1>3, <2>1, <2>2, ProperJoined
<1>7. FlattenSeq(ss) \in D[n]
  <2>1. n = Len(ss) /\ (n = 0 => ss = << >>)
    BY DEF n
  <2> QED BY <1>1, <1>4, <1>5, <1>6, <2>1, FlattenUpTo, Zenon
<1>8. D[n] \subseteq Proper(P, {}, Fbs(P))
  <2>1. n \in 0 .. n
    BY <1>1
  <2> QED BY <1>2, <1>3, <2>1, ProperWeaker
<1> QED BY <1>7, <1>8

\* What leaves alone any framebuffers there are, and blobs of the CRTC.
LEMMA SteadySteps ==
  ASSUME NEW P, NEW X \in SUBSET Marks(P), Fbs(P) \subseteq X, X \cap Dead(P) = {},
         \A p \in P : <<"live", p>> \notin X
  PROVE  /\ \A s, t \in Proper(P, X, X) : s \o t \in Proper(P, X, X)
         /\ << >> \in Proper(P, X, X)
         /\ P # {} => Commit \in Proper(P, X, X)
         /\ \A p \in P : /\ \A rect \in Place : Show(p, rect) \in Proper(P, X, X)
                         /\ \A rect \in Place : InitAt(p, 0, rect) \in Proper(P, X, X)
                         /\ Disable(p) \in Proper(P, X, X)
                         /\ \A op \in {"draw", "set_props", "detach", "attach"} :
                              Do(op, p, 0) \in Proper(P, X, X)
                         /\ \A op \in {"out_fence", "check_out_fence", "failed"} :
                              Do(op, 0, 0) \in Proper(P, X, X)
                         /\ \A dx, dy \in Nat : Move(p, dx, dy) \in Proper(P, X, X)
                         /\ \A tenths \in Nat : Scale(p, tenths) \in Proper(P, X, X)
PROOF
<1>1. \A s, t \in Proper(P, X, X) : s \o t \in Proper(P, X, X)
  BY ProperJoined
<1>2. << >> \in Proper(P, X, X)
  BY ProperEmpty
<1>3. P # {} => Commit \in Proper(P, X, X)
  BY NeutralSteps
<1>4. ASSUME NEW p \in P
      PROVE  /\ \A rect \in Place : Show(p, rect) \in Proper(P, X, X)
             /\ \A rect \in Place : InitAt(p, 0, rect) \in Proper(P, X, X)
             /\ Disable(p) \in Proper(P, X, X)
  <2>1. X \cup {<<"fb", p>>} = X
    BY DEF Fbs
  <2>2. ASSUME NEW rect \in Place
        PROVE  Show(p, rect) \in Proper(P, X, X) /\ InitAt(p, 0, rect) \in Proper(P, X, X)
    BY <2>1, FbSteps
  <2>3. Disable(p) \in Proper(P, X, X)
    <3>1. Rect(0, 0, 0, 0) \in Place
      BY DEF Rect, Place
    <3>2. Disable(p) \in Proper(P, X, X \ {<<"fb", p>>, <<"dead", p>>})
      BY <3>1, FbSteps
    <3> QED BY <3>2, ProperWeaker
  <2> QED BY <2>2, <2>3
<1>5. ASSUME NEW p \in P
      PROVE  /\ \A op \in {"draw", "set_props", "detach", "attach"} :
                   Do(op, p, 0) \in Proper(P, X, X)
             /\ \A op \in {"out_fence", "check_out_fence", "failed"} :
                   Do(op, 0, 0) \in Proper(P, X, X)
  BY NeutralSteps
<1>6. ASSUME NEW p \in P
      PROVE  /\ \A dx, dy \in Nat : Move(p, dx, dy) \in Proper(P, X, X)
             /\ \A tenths \in Nat : Scale(p, tenths) \in Proper(P, X, X)
  BY LoopSteps
<1> QED BY <1>1, <1>2, <1>3, <1>4, <1>5, <1>6

LEMMA WithinShorter ==
  ASSUME NEW T, NEW s \in Seq(T), NEW S
  PROVE  Len(Within(s, S)) <= Len(s)
PROOF
<1> DEFINE in == {i \in DOMAIN s : s[i] \in S}
<1>1. Len(s) \in Nat /\ DOMAIN s = 1 .. Len(s) /\ in \in SUBSET (1 .. Len(s))
  OBVIOUS
<1>2. Len(Within(s, S)) = Cardinality(in)
  BY WithinLength
<1> HIDE DEF in
<1>3. PICK n \in Nat : n = Len(s)
  BY <1>1
<1>4. IsFiniteSet(1 .. n) /\ Cardinality(1 .. n) = n
  BY FS_Interval
<1>5. Cardinality(in) <= Cardinality(1 .. n)
  BY <1>1, <1>3, <1>4, FS_Subset
<1> QED BY <1>2, <1>3, <1>4, <1>5

\* There are as many places as planes of a type.
LEMMA ListsShort ==
  ASSUME NEW m \in Machines, NEW c \in Crtcs, NEW type \in PlaneTypes
  PROVE  DOMAIN get_planes(m, c, type) \subseteq Planes
PROOF
<1> DEFINE all == [p \in Planes |-> p]
           list == get_planes(m, c, type)
<1>1. all \in Seq(Planes) /\ Len(all) = Cardinality(Planes)
  <2>1. all \in [1 .. Cardinality(Planes) -> Planes]
    BY Counted
  <2> HIDE DEF all
  <2> QED BY <2>1, Counted
<1>2. PlanesOf(m, c) = Within(all, {p \in Planes : c \in m.crtcs[p]})
  BY DEF PlanesOf, PlaneLists
<1> HIDE DEF all
<1>3. Len(PlanesOf(m, c)) <= Cardinality(Planes)
  BY <1>1, <1>2, WithinShorter
<1>4. list = Within(PlanesOf(m, c), {p \in Planes : m.type[p] = type})
  BY DEF get_planes, TypeLists, PlanesOf
<1>5. PlanesOf(m, c) \in Seq(PlaneSet(m, c)) /\ list \in Seq(PlaneSet(m, c))
  BY ListsType
<1>6. Len(list) <= Len(PlanesOf(m, c))
  BY <1>4, <1>5, WithinShorter
<1> HIDE DEF list
<1>7. Len(list) \in Nat /\ Len(PlanesOf(m, c)) \in Nat /\ DOMAIN list = 1 .. Len(list)
  BY <1>5
<1>8. 1 .. Len(list) \subseteq 1 .. Cardinality(Planes)
  BY <1>3, <1>6, <1>7, Counted
<1> QED BY <1>7, <1>8, Counted DEF list

LEMMA PlaneSetFacts ==
  ASSUME NEW m \in Machines, NEW c \in Crtcs
  PROVE  /\ 0 \notin PlaneSet(m, c)
         /\ Fbs(PlaneSet(m, c)) \in SUBSET Marks(PlaneSet(m, c))
         /\ Fbs(PlaneSet(m, c)) \cap Dead(PlaneSet(m, c)) = {}
         /\ \A p \in PlaneSet(m, c) : <<"live", p>> \notin Fbs(PlaneSet(m, c))
PROOF
<1>1. 0 \notin PlaneSet(m, c)
  BY Counted, ListsType
<1> QED BY <1>1 DEF Fbs, Marks, Dead

LEMMA PlacesType ==
  ASSUME NEW s \in Size
  PROVE  /\ Full(s) \in Place
         /\ \A w, h \in Nat : Corner(w, h) \in Place
         /\ \A x, y, w, h \in Nat : Rect(x, y, w, h) \in Place
         /\ \A n \in Nat : Even(n) \in Nat
PROOF
<1>1. Full(s) \in Place
  BY DEF Full, Rect, Place, Size
<1>2. \A x, y, w, h \in Nat : Rect(x, y, w, h) \in Place
  BY DEF Rect, Place
<1>3. \A w, h \in Nat : Corner(w, h) \in Place
  BY <1>2 DEF Corner
<1>4. \A n \in Nat : Even(n) \in Nat
  BY DEF Even
<1> QED BY <1>1, <1>2, <1>3, <1>4

\* ShowAll, with places for its planes.
LEMMA AllShown ==
  ASSUME NEW P, NEW X \in SUBSET Marks(P), Fbs(P) \subseteq X, X \cap Dead(P) = {},
         \A p \in P : <<"live", p>> \notin X,
         NEW list \in Seq(P), NEW places, \A i \in DOMAIN list : places[i] \in Place
  PROVE  ShowAll(list, places) \in Proper(P, X, X)
PROOF
<1> DEFINE C == Proper(P, X, X)
           ss == [j \in DOMAIN list |-> Show(list[j], places[j])]
<1>1. Len(list) \in Nat /\ DOMAIN list = 1 .. Len(list)
  OBVIOUS
<1>2. ASSUME NEW j \in DOMAIN list PROVE Show(list[j], places[j]) \in C
  <2>1. list[j] \in P /\ places[j] \in Place
    OBVIOUS
  <2> QED BY <2>1, SteadySteps
<1> HIDE DEF C
<1>3. ss \in [1 .. Len(list) -> C]
  BY <1>1, <1>2
<1>4. ShowAll(list, places) = FlattenSeq(ss)
  BY DEF ShowAll
<1> HIDE DEF ss
<1>5. FlattenSeq(ss) \in C
  BY <1>1, <1>3, EachSteady DEF C
<1> QED BY <1>4, <1>5 DEF C

LEMMA DisablePrimaryProper ==
  ASSUME NEW m \in Machines, NEW c \in Crtcs, NEW s \in Size, NEW P, P = PlaneSet(m, c)
  PROVE  test_disable_primary(m, c, s) \in Proper(P, Fbs(P), Fbs(P))
PROOF
<1> DEFINE C == Proper(P, Fbs(P), Fbs(P))
           list == Primaries(m, c)
           body(p) == ShowAll(Overlays(m, c), OverlayPlaces(s)) \o Show(p, Full(s)) \o Commit
                        \o Disable(p) \o Commit
           ss == [i \in DOMAIN list |-> body(list[i])]
<1>1. /\ Fbs(P) \in SUBSET Marks(P) /\ Fbs(P) \cap Dead(P) = {}
      /\ \A p \in P : <<"live", p>> \notin Fbs(P)
  BY PlaneSetFacts
<1>2. ShowAll(Overlays(m, c), OverlayPlaces(s)) \in C
  <2>1. Overlays(m, c) \in Seq(P)
    BY TypesOfPlanes
  <2>2. DOMAIN Overlays(m, c) \subseteq Planes
    BY ListsShort DEF Overlays, PlaneTypes
  <2>3. \A j \in Planes : OverlayPlaces(s)[j] \in Place
    <3> SUFFICES ASSUME NEW j \in Planes PROVE OverlayPlaces(s)[j] \in Place
      OBVIOUS
    <3>1. Part(s.width, j) \in Nat /\ Part(s.height, j) \in Nat
      BY PartType, Counted DEF Size
    <3> QED BY <3>1, PlacesType DEF OverlayPlaces
  <2> QED BY <1>1, <2>1, <2>2, <2>3, AllShown
<1>3. ASSUME NEW p \in P PROVE body(p) \in C
  <2>1. \A t, v \in C : t \o v \in C
    BY ProperJoined
  <2>2. Show(p, Full(s)) \in C /\ Commit \in C /\ Disable(p) \in C
    BY <1>1, SteadySteps, PlacesType
  <2> HIDE DEF C
  <2> QED BY <1>2, <2>1, <2>2
<1>4. list \in Seq(P) /\ Len(list) \in Nat /\ DOMAIN list = 1 .. Len(list)
  BY TypesOfPlanes
<1>5. ss \in [1 .. Len(list) -> C]
  <2> HIDE DEF C, body
  <2> QED BY <1>3, <1>4
<1>6. test_disable_primary(m, c, s) = FlattenSeq(ss)
  BY DEF test_disable_primary, Each
<1> HIDE DEF ss
<1>7. FlattenSeq(ss) \in C
  BY <1>1, <1>4, <1>5, EachSteady
<1> QED BY <1>6, <1>7

LEMMA RgbaPrimaryProper ==
  ASSUME NEW m \in Machines, NEW c \in Crtcs, NEW s \in Size, NEW P, P = PlaneSet(m, c)
  PROVE  test_rgba_primary(m, c, s) \in Proper(P, Fbs(P), Fbs(P))
PROOF
<1> DEFINE C == Proper(P, Fbs(P), Fbs(P))
           list == Primaries(m, c)
           body(p) == Show(p, Full(s)) \o Commit
           ss == [i \in DOMAIN list |-> body(list[i])]
<1>1. /\ Fbs(P) \in SUBSET Marks(P) /\ Fbs(P) \cap Dead(P) = {}
      /\ \A p \in P : <<"live", p>> \notin Fbs(P)
  BY PlaneSetFacts
<1>2. ASSUME NEW p \in P PROVE body(p) \in C
  <2>1. \A t, v \in C : t \o v \in C
    BY ProperJoined
  <2>2. Show(p, Full(s)) \in C /\ Commit \in C
    BY <1>1, SteadySteps, PlacesType
  <2> HIDE DEF C
  <2> QED BY <2>1, <2>2
<1>3. list \in Seq(P) /\ Len(list) \in Nat /\ DOMAIN list = 1 .. Len(list)
  BY TypesOfPlanes
<1>4. ss \in [1 .. Len(list) -> C]
  <2> HIDE DEF C, body
  <2> QED BY <1>2, <1>3
<1>5. test_rgba_primary(m, c, s) = FlattenSeq(ss)
  BY DEF test_rgba_primary, Each
<1> HIDE DEF ss
<1>6. FlattenSeq(ss) \in C
  BY <1>1, <1>3, <1>4, EachSteady
<1> QED BY <1>5, <1>6

LEMMA OverlayScalingProper ==
  ASSUME NEW m \in Machines, NEW c \in Crtcs, NEW w \in Nat, NEW h \in Nat, NEW tenths \in Nat,
         NEW P, P = PlaneSet(m, c)
  PROVE  test_overlay_scaling(m, c, w, h, tenths) \in Proper(P, Fbs(P), Fbs(P))
PROOF
<1> DEFINE C == Proper(P, Fbs(P), Fbs(P))
           list == Overlays(m, c)
           body(p) == Show(p, Corner(w, h)) \o Commit \o Scale(p, tenths) \o Disable(p)
           ss == [i \in DOMAIN list |-> body(list[i])]
<1>1. /\ Fbs(P) \in SUBSET Marks(P) /\ Fbs(P) \cap Dead(P) = {}
      /\ \A p \in P : <<"live", p>> \notin Fbs(P)
  BY PlaneSetFacts
<1>2. ASSUME NEW p \in P PROVE body(p) \in C
  <2>1. \A t, v \in C : t \o v \in C
    BY ProperJoined
  <2>2. Corner(w, h) \in Place
    BY DEF Corner, Rect, Place
  <2>3. Show(p, Corner(w, h)) \in C /\ Commit \in C /\ Scale(p, tenths) \in C /\ Disable(p) \in C
    BY <1>1, <2>2, SteadySteps
  <2> HIDE DEF C
  <2> QED BY <2>1, <2>3
<1>3. list \in Seq(P) /\ Len(list) \in Nat /\ DOMAIN list = 1 .. Len(list)
  BY TypesOfPlanes
<1>4. ss \in [1 .. Len(list) -> C]
  <2> HIDE DEF C, body
  <2> QED BY <1>2, <1>3
<1>5. test_overlay_scaling(m, c, w, h, tenths) = FlattenSeq(ss)
  BY DEF test_overlay_scaling, Each
<1> HIDE DEF ss
<1>6. FlattenSeq(ss) \in C
  BY <1>1, <1>3, <1>4, EachSteady
<1> QED BY <1>5, <1>6

LEMMA OrientationProper ==
  ASSUME NEW m \in Machines, NEW c \in Crtcs, NEW s \in Size, NEW P, P = PlaneSet(m, c)
  PROVE  test_orientation(m, c, s) \in Proper(P, Fbs(P), Fbs(P))
PROOF
<1> DEFINE C == Proper(P, Fbs(P), Fbs(P))
           both == Overlays(m, c) \o Primaries(m, c)
           list == Within(both, m.rotation)
           body(p) == Show(p, Full(s)) \o Commit \o Do("set_props", p, 0) \o Commit
                        \o Disable(p)
           ss == [i \in DOMAIN list |-> body(list[i])]
<1>1. /\ Fbs(P) \in SUBSET Marks(P) /\ Fbs(P) \cap Dead(P) = {}
      /\ \A p \in P : <<"live", p>> \notin Fbs(P)
  BY PlaneSetFacts
<1>2. ASSUME NEW p \in P PROVE body(p) \in C
  <2>1. \A t, v \in C : t \o v \in C
    BY ProperJoined
  <2>2. /\ Show(p, Full(s)) \in C /\ Commit \in C /\ Do("set_props", p, 0) \in C
        /\ Disable(p) \in C
    BY <1>1, SteadySteps, PlacesType
  <2> HIDE DEF C
  <2> QED BY <2>1, <2>2
<1>3. list \in Seq(P) /\ Len(list) \in Nat /\ DOMAIN list = 1 .. Len(list)
  <2>1. Overlays(m, c) \in Seq(P) /\ Primaries(m, c) \in Seq(P)
    BY TypesOfPlanes
  <2>2. both \in Seq(P)
    BY <2>1
  <2> HIDE DEF both
  <2>3. list \in Seq(P \cap m.rotation)
    BY <2>2, WithinType
  <2> HIDE DEF list
  <2> QED BY <2>3
<1> HIDE DEF both
<1>4. ss \in [1 .. Len(list) -> C]
  <2> HIDE DEF C, body, list
  <2> QED BY <1>2, <1>3
<1>5. test_orientation(m, c, s) = FlattenSeq(ss)
  BY DEF test_orientation, Each, both
<1> HIDE DEF ss, list
<1>6. FlattenSeq(ss) \in C
  BY <1>1, <1>3, <1>4, EachSteady
<1> QED BY <1>5, <1>6

LEMMA OutFenceProper ==
  ASSUME NEW m \in Machines, NEW c \in Crtcs, NEW s \in Size, NEW P, P = PlaneSet(m, c)
  PROVE  test_out_fence(m, c, s) \in Proper(P, Fbs(P), Fbs(P))
PROOF
<1> DEFINE C == Proper(P, Fbs(P), Fbs(P))
           p == Primaries(m, c)[1]
<1>1. /\ Fbs(P) \in SUBSET Marks(P) /\ Fbs(P) \cap Dead(P) = {}
      /\ \A q \in P : <<"live", q>> \notin Fbs(P)
  BY PlaneSetFacts
<1>2. p \in P
  BY TypesOfPlanes
<1>3. test_out_fence(m, c, s)
        = Show(p, Full(s)) \o Do("set_props", p, 0) \o Do("out_fence", 0, 0) \o Commit
            \o Do("check_out_fence", 0, 0)
  BY DEF test_out_fence
<1> HIDE DEF p
<1>4. \A t, v \in C : t \o v \in C
  BY ProperJoined
<1>5. /\ Show(p, Full(s)) \in C /\ Do("set_props", p, 0) \in C /\ Commit \in C
      /\ Do("out_fence", 0, 0) \in C /\ Do("check_out_fence", 0, 0) \in C
  BY <1>1, <1>2, SteadySteps, PlacesType
<1> HIDE DEF C
<1>6. Show(p, Full(s)) \o Do("set_props", p, 0) \o Do("out_fence", 0, 0) \o Commit
        \o Do("check_out_fence", 0, 0) \in C
  BY <1>4, <1>5
<1> QED BY <1>3, <1>6 DEF C

LEMMA VideoUnderlayProper ==
  ASSUME NEW m \in Machines, NEW c \in Crtcs, NEW s \in Size, NEW P, P = PlaneSet(m, c)
  PROVE  test_video_underlay(m, c, s) \in Proper(P, Fbs(P), Fbs(P))
PROOF
<1> DEFINE C == Proper(P, Fbs(P), Fbs(P))
           n == Len(Primaries(m, c)) + Len(Overlays(m, c))
           looked == SubSeq(PlanesOf(m, c), 1, n)
           found == Within(looked, {p \in Planes : m.type[p] # "cursor"})
           shown == Show(found[1], Corner(s.width \div 4, s.height \div 4))
                      \o Show(found[2], Full(s)) \o Move(found[1], 50, 20)
<1>1. /\ Fbs(P) \in SUBSET Marks(P) /\ Fbs(P) \cap Dead(P) = {}
      /\ \A p \in P : <<"live", p>> \notin Fbs(P)
  BY PlaneSetFacts
<1>2. looked \in Seq(P)
  <2>1. PlanesOf(m, c) \in Seq(P)
    BY ListsType
  <2>2. n <= Len(PlanesOf(m, c)) /\ n \in Nat
    <3>1. Len(Primaries(m, c)) \in Nat /\ Len(Overlays(m, c)) \in Nat
      BY TypesOfPlanes
    <3> QED BY <3>1, TypesAreApart
  <2> HIDE DEF n
  <2> QED BY <2>1, <2>2
<1> HIDE DEF looked
<1>3. found \in Seq(P)
  <2>1. found \in Seq(P \cap {p \in Planes : m.type[p] # "cursor"})
    BY <1>2, WithinType
  <2> HIDE DEF found
  <2> QED BY <2>1
<1>4. test_video_underlay(m, c, s) = IF Len(found) < 2 THEN << >> ELSE shown
  BY DEF test_video_underlay, looked
<1> HIDE DEF found
<1>5. CASE Len(found) < 2
  BY <1>1, <1>4, <1>5, SteadySteps
<1>6. CASE ~ (Len(found) < 2)
  <2>1. found[1] \in P /\ found[2] \in P
    BY <1>3, <1>6
  <2>2. Corner(s.width \div 4, s.height \div 4) \in Place /\ Full(s) \in Place
    <3>1. s.width \div 4 \in Nat /\ s.height \div 4 \in Nat
      BY DEF Size
    <3> QED BY <3>1, PlacesType
  <2>3. /\ Show(found[1], Corner(s.width \div 4, s.height \div 4)) \in C
        /\ Show(found[2], Full(s)) \in C /\ Move(found[1], 50, 20) \in C
    BY <1>1, <2>1, <2>2, SteadySteps
  <2>4. \A t, v \in C : t \o v \in C
    BY ProperJoined
  <2> HIDE DEF C
  <2>5. shown \in C
    BY <2>3, <2>4
  <2> QED BY <1>4, <1>6, <2>5 DEF C
<1> QED BY <1>5, <1>6

\* The loop that moves all planes but primary ones: each once, and again.
MovesOnce(list) == Each(list, LAMBDA p : MoveBy(p, 0, 40, 40))
MoveAll(list) == MovesOnce(list) \o Commit \o Do("again", 0, Len(list) + 1)

LEMMA MoveAllProper ==
  ASSUME NEW P, NEW X \in SUBSET Marks(P), X \cap Dead(P) = {}, NEW list \in Seq(P)
  PROVE  /\ MoveAll(list) \in Proper(P, X, X)
         /\ MovesOnce(list) \in Seq(StepType(P)) /\ Commit \in Seq(StepType(P))
         /\ Do("again", 0, Len(list) + 1) \in Seq(StepType(P))
PROOF
<1> DEFINE S == StepType(P)
           move(p) == [op |-> "move", plane |-> p, n |-> 0, arg |-> [dx |-> 40, dy |-> 40]]
           rows == [i \in DOMAIN list |-> << move(list[i]) >>]
           b == [op |-> "test_and_commit", plane |-> 0, n |-> 0, arg |-> << >>]
           g == [op |-> "again", plane |-> 0, n |-> Len(list) + 1, arg |-> << >>]
<1>1. PICK n \in Nat : n = Len(list) /\ DOMAIN list = 1 .. n
  OBVIOUS
<1>2. b \in S /\ b.op = "test_and_commit" /\ b.n = 0
  BY DEF StepType, OtherOps
<1>3. g \in S /\ g.op = "again" /\ g.n = n + 1
  BY <1>1 DEF StepType, OtherOps
<1>4. MoveAll(list) = FlattenSeq(rows) \o << b >> \o << g >>
  BY DEF MoveAll, MovesOnce, Each, MoveBy, Commit, Do, With
<1>5. \A i \in 1 .. n : /\ rows[i] \in {t \in Seq(S) : Len(t) = 1}
                        /\ rows[i][1] \in S /\ rows[i][1].op = "move" /\ rows[i][1].n = 0
  <2> SUFFICES ASSUME NEW i \in 1 .. n
               PROVE  /\ rows[i] \in {t \in Seq(S) : Len(t) = 1}
                      /\ rows[i][1] \in S /\ rows[i][1].op = "move" /\ rows[i][1].n = 0
    OBVIOUS
  <2>1. list[i] \in P
    BY <1>1
  <2>2. move(list[i]) \in S
    BY <2>1 DEF StepType
  <2>3. rows[i] = << move(list[i]) >>
    BY <1>1
  <2>4. move(list[i]).op = "move" /\ move(list[i]).n = 0
    OBVIOUS
  <2> HIDE DEF rows, move, S
  <2> QED BY <2>2, <2>3, <2>4
<1>6. PICK f : f = FlattenSeq(rows)
  OBVIOUS
<1>7. f \in Blocks(S, 1, n, rows)
  <2>1. rows \in Seq({t \in Seq(S) : Len(t) = 1}) /\ Len(rows) = n
    <3>1. rows \in [1 .. n -> {t \in Seq(S) : Len(t) = 1}]
      BY <1>1, <1>5
    <3> HIDE DEF rows, S
    <3> QED BY <3>1
  <2> HIDE DEF rows, S
  <2> QED BY <1>6, <2>1, FlattenBlocks
<1>8. /\ f \in Seq(S) /\ Len(f) = n
      /\ \A j \in 1 .. n : f[j] \in S /\ f[j].op = "move" /\ f[j].n = 0
  <2>1. /\ f \in Seq(S) /\ Len(f) = 1 * n
        /\ \A j \in 1 .. n : f[1 * (j - 1) + 1] = rows[j][1]
    <3>1. \A j \in 1 .. n, k \in 1 .. 1 : f[1 * (j - 1) + k] = rows[j][k]
      BY <1>7 DEF Blocks
    <3>2. f \in Seq(S) /\ Len(f) = 1 * n
      BY <1>7 DEF Blocks
    <3>3. 1 \in 1 .. 1
      OBVIOUS
    <3> HIDE DEF rows, S
    <3>4. \A j \in 1 .. n : f[1 * (j - 1) + 1] = rows[j][1]
      BY <3>1, <3>3, Zenon
    <3> QED BY <3>2, <3>4
  <2>2. \A j \in 1 .. n : 1 * (j - 1) + 1 = j
    OBVIOUS
  <2> HIDE DEF rows, S
  <2> QED BY <1>5, <2>1, <2>2
<1> HIDE DEF rows, b, g
<1> DEFINE s == f \o << b >> \o << g >>
<1>9. /\ s \in Seq(S) /\ Len(s) = n + 2
      /\ \A i \in 1 .. n : s[i] = f[i]
      /\ s[n + 1] = b /\ s[n + 2] = g
  <2>1. /\ << b >> \in Seq(S) /\ Len(<< b >>) = 1 /\ << b >>[1] = b
        /\ << g >> \in Seq(S) /\ Len(<< g >>) = 1 /\ << g >>[1] = g
    BY <1>2, <1>3
  <2> DEFINE fb == f \o << b >>
  <2>2. /\ fb \in Seq(S) /\ Len(fb) = n + 1
        /\ \A i \in 1 .. n : fb[i] = f[i]
        /\ fb[n + 1] = b
    BY <1>8, <2>1
  <2> HIDE DEF fb
  <2>3. /\ fb \o << g >> \in Seq(S) /\ Len(fb \o << g >>) = n + 2
        /\ \A i \in 1 .. n + 1 : (fb \o << g >>)[i] = fb[i]
        /\ (fb \o << g >>)[n + 2] = g
    BY <2>1, <2>2
  <2> QED BY <2>2, <2>3 DEF fb
<1> HIDE DEF s
<1>10. ASSUME NEW i \in 1 .. Len(s)
       PROVE  /\ Forbids(P, s[i]) \cap X = {} /\ Effect(P, s[i], X) \subseteq X
              /\ Targets(i, s[i]) \subseteq 1 .. Len(s) + 1
  <2>1. i \in 1 .. n \/ i = n + 1 \/ i = n + 2
    BY <1>9
  <2>2. s[i].op \in {"move", "test_and_commit", "again"}
    BY <1>2, <1>3, <1>8, <1>9, <2>1
  <2>3. Forbids(P, s[i]) \cap X = {}
    BY <2>2 DEF Forbids
  <2>4. Effect(P, s[i], X) \subseteq X
    BY <2>2 DEF Effect, Kills, Makes
  <2>5. Len(s) + 1 = n + 3
    BY <1>9
  <2>6. Targets(i, s[i]) \subseteq 1 .. n + 3
    <3>1. CASE i \in 1 .. n
      <4>1. s[i].op = "move" /\ s[i].n = 0
        BY <1>8, <1>9, <3>1
      <4>2. Targets(i, s[i]) = {i + 1, i + 1 + 0}
        BY <4>1 DEF Targets
      <4> QED BY <3>1, <4>2
    <3>2. CASE i = n + 1
      <4>1. Targets(i, s[i]) = {i + 1, i + 1 + 0}
        BY <1>2, <1>9, <3>2 DEF Targets
      <4> QED BY <3>2, <4>1
    <3>3. CASE i = n + 2
      <4>1. Targets(i, s[i]) = {i + 1, i - (n + 1)}
        BY <1>3, <1>9, <3>3 DEF Targets
      <4> QED BY <3>3, <4>1
    <3> QED BY <2>1, <3>1, <3>2, <3>3
  <2> QED BY <2>3, <2>4, <2>5, <2>6
<1>11. s \in Proper(P, X, X)
  BY <1>9, <1>10, ProperSteady
<1>12. /\ MovesOnce(list) = f /\ Commit = << b >>
       /\ Do("again", 0, Len(list) + 1) = << g >>
  BY <1>6 DEF MovesOnce, Each, MoveBy, Commit, Do, With, b, g, rows
<1>13. MoveAll(list) \in Proper(P, X, X)
  BY <1>4, <1>6, <1>11 DEF s
<1>14. << b >> \in Seq(S) /\ << g >> \in Seq(S)
  <2> HIDE DEF S
  <2> QED BY <1>2, <1>3
<1> QED BY <1>8, <1>12, <1>13, <1>14

LoopRegroups(f, a, b, d) == f \o a \o b \o d = f \o (a \o b \o d)

LEMMA LoopRegrouped ==
  ASSUME NEW S, NEW f \in Seq(S), NEW a \in Seq(S), NEW b \in Seq(S), NEW d \in Seq(S)
  PROVE  LoopRegroups(f, a, b, d)
PROOF
<1> DEFINE w == a \o b
<1>1. w \in Seq(S)
  OBVIOUS
<1> HIDE DEF w
<1>2. f \o (w \o d) = (f \o w) \o d
  BY <1>1, SMTT(30)
<1> USE DEF w
<1>3. f \o (a \o b) = (f \o a) \o b
  OBVIOUS
<1> QED BY <1>2, <1>3 DEF LoopRegroups

LEMMA MultiplePlanesProper ==
  ASSUME NEW m \in Machines, NEW c \in Crtcs, NEW s \in Size, NEW P, P = PlaneSet(m, c)
  PROVE  test_multiple_planes(m, c, s) \in Proper(P, Fbs(P), Fbs(P))
PROOF
<1> DEFINE C == Proper(P, Fbs(P), Fbs(P))
           list == Primaries(m, c)
           others == Within(PlanesOf(m, c), {p \in Planes : m.type[p] # "primary"})
           even == [j \in Planes |-> LET w == Even(Part(s.width, j))
                                         h == Even(Part(s.height, j))
                                     IN Rect(w, h, w, h)]
           corners == [j \in Planes |-> Rect(Part(s.width, j), Part(s.height, j),
                                             CursorSize, CursorSize)]
           before(p) == ShowAll(Overlays(m, c), even) \o ShowAll(Cursors(m, c), corners)
                          \o Show(p, Full(s))
           moves == MovesOnce(others)
           again == Do("again", 0, Len(others) + 1)
           body(p) == before(p) \o moves \o Commit \o again \o Commit \o Disable(p) \o Commit
           ss == [i \in DOMAIN list |-> body(list[i])]
<1>1. /\ Fbs(P) \in SUBSET Marks(P) /\ Fbs(P) \cap Dead(P) = {}
      /\ \A p \in P : <<"live", p>> \notin Fbs(P)
  BY PlaneSetFacts
<1>2. \A j \in Planes : even[j] \in Place /\ corners[j] \in Place
  <2> SUFFICES ASSUME NEW j \in Planes PROVE even[j] \in Place /\ corners[j] \in Place
    OBVIOUS
  <2>1. Part(s.width, j) \in Nat /\ Part(s.height, j) \in Nat
    BY PartType, Counted DEF Size
  <2>2. Even(Part(s.width, j)) \in Nat /\ Even(Part(s.height, j)) \in Nat
    BY <2>1, PlacesType
  <2> QED BY <2>1, <2>2, PlacesType DEF CursorSize
<1>3. /\ test_multiple_planes(m, c, s) = FlattenSeq(ss)
  BY DEF test_multiple_planes, Each, MovesOnce
<1>4. others \in Seq(P)
  <2>1. PlanesOf(m, c) \in Seq(P)
    BY ListsType
  <2>2. others \in Seq(P \cap {p \in Planes : m.type[p] # "primary"})
    BY <2>1, WithinType
  <2> HIDE DEF others
  <2> QED BY <2>2
<1> HIDE DEF others, even, corners
<1>5. ShowAll(Overlays(m, c), even) \in C /\ ShowAll(Cursors(m, c), corners) \in C
  <2>1. Overlays(m, c) \in Seq(P) /\ Cursors(m, c) \in Seq(P)
    BY TypesOfPlanes
  <2>2. DOMAIN Overlays(m, c) \subseteq Planes /\ DOMAIN Cursors(m, c) \subseteq Planes
    BY ListsShort DEF Overlays, Cursors, PlaneTypes
  <2>3. ShowAll(Overlays(m, c), even) \in C
    BY <1>1, <1>2, <2>1, <2>2, AllShown
  <2>4. ShowAll(Cursors(m, c), corners) \in C
    BY <1>1, <1>2, <2>1, <2>2, AllShown
  <2> QED BY <2>3, <2>4
<1>6. /\ MoveAll(others) \in C /\ moves \in Seq(StepType(P))
      /\ Commit \in Seq(StepType(P)) /\ again \in Seq(StepType(P))
      /\ MoveAll(others) = moves \o Commit \o again
  <2>1. /\ MoveAll(others) \in C /\ moves \in Seq(StepType(P))
        /\ Commit \in Seq(StepType(P)) /\ again \in Seq(StepType(P))
    BY <1>1, <1>4, MoveAllProper
  <2> QED BY <2>1 DEF MoveAll
<1> HIDE DEF moves, again
<1>7. ASSUME NEW p \in P PROVE body(p) \in C
  <2>1. \A t, v \in C : t \o v \in C
    BY ProperJoined
  <2>2. Show(p, Full(s)) \in C /\ Commit \in C /\ Disable(p) \in C
    BY <1>1, SteadySteps, PlacesType
  <2>3. before(p) \in C
    <3> HIDE DEF C
    <3> QED BY <1>5, <2>1, <2>2
  <2>4. before(p) \in Seq(StepType(P))
    BY <2>3 DEF Proper
  <2> DEFINE f == before(p)
  <2> HIDE DEF f, C
  <2>5. f \in Seq(StepType(P))
    BY <2>4 DEF f
  <2>6. f \o moves \o Commit \o again = f \o MoveAll(others)
    <3>1. LoopRegroups(f, moves, Commit, again)
      BY <1>6, <2>5, LoopRegrouped
    <3> QED BY <1>6, <3>1 DEF LoopRegroups
  <2>7. f \o MoveAll(others) \in C
    BY <1>6, <2>1, <2>3 DEF f
  <2>8. ((f \o MoveAll(others)) \o Commit) \o Disable(p) \o Commit \in C
    BY <2>1, <2>2, <2>7
  <2> QED BY <2>6, <2>8 DEF f
<1>8. list \in Seq(P) /\ Len(list) \in Nat /\ DOMAIN list = 1 .. Len(list)
  BY TypesOfPlanes
<1>9. ss \in [1 .. Len(list) -> C]
  <2> HIDE DEF C, body
  <2> QED BY <1>7, <1>8
<1> HIDE DEF ss
<1>10. FlattenSeq(ss) \in C
  BY <1>1, <1>8, <1>9, EachSteady
<1> QED BY <1>3, <1>10

LEMMA NextFb ==
  ASSUME NEW P, NEW list \in Seq(P), Distinct(list), NEW i \in 1 .. Len(list)
  PROVE  /\ FirstFbs(list, i - 1) \in SUBSET Fbs(P) /\ list[i] \in P
         /\ <<"fb", list[i]>> \notin FirstFbs(list, i - 1)
         /\ FirstFbs(list, i) = FirstFbs(list, i - 1) \cup {<<"fb", list[i]>>}
PROOF
<1>1. /\ DOMAIN list = 1 .. Len(list) /\ Len(list) \in Nat
      /\ \A j \in 1 .. Len(list) : list[j] \in P
  OBVIOUS
<1>2. FirstFbs(list, i - 1) \in SUBSET Fbs(P) /\ list[i] \in P
  BY <1>1 DEF FirstFbs, Fbs
<1>3. <<"fb", list[i]>> \notin FirstFbs(list, i - 1)
  <2>1. \A j \in 1 .. i - 1 : list[j] # list[i]
    BY <1>1 DEF Distinct
  <2> QED BY <2>1 DEF FirstFbs
<1>4. FirstFbs(list, i) = FirstFbs(list, i - 1) \cup {<<"fb", list[i]>>}
  <2>1. 1 .. i = (1 .. i - 1) \cup {i}
    BY <1>1
  <2> QED BY <2>1 DEF FirstFbs
<1> QED BY <1>2, <1>3, <1>4

LEMMA FullscreenVideoProper ==
  ASSUME NEW m \in Machines, NEW c \in Crtcs, NEW s \in Size, NEW P, P = PlaneSet(m, c)
  PROVE  test_fullscreen_video(m, c, s) \in Proper(P, {}, Fbs(P))
PROOF
<1> DEFINE list == Primaries(m, c)
           body(p) == ShowIfPossible(p, Full(s), Commit)
           ss == [i \in DOMAIN list |-> body(list[i])]
<1>1. /\ list \in Seq(P) /\ Distinct(list) /\ Len(list) \in Nat /\ DOMAIN list = 1 .. Len(list)
      /\ Len(list) # 0
  BY TypesOfPlanes
<1>2. Fbs(P) \subseteq Marks(P) /\ Fbs(P) \cap Dead(P) = {}
  BY PlaneSetFacts
<1>3. ASSUME NEW i \in 1 .. Len(list)
      PROVE  ss[i] \in Proper(P, FirstFbs(list, i - 1), FirstFbs(list, i))
  <2> DEFINE X == FirstFbs(list, i - 1)
             p == list[i]
             Y == X \cup {<<"fb", p>>}
  <2>1. X \in SUBSET Fbs(P) /\ p \in P /\ <<"fb", p>> \notin X /\ FirstFbs(list, i) = Y
    BY <1>1, NextFb
  <2>2. ss[i] = body(p)
    BY <1>1
  <2> HIDE DEF ss, X, p, list
  <2>3. X \in SUBSET Marks(P) /\ Y \in SUBSET Marks(P) /\ Y \cap Dead(P) = {}
    <3>1. Y \subseteq Fbs(P)
      BY <2>1 DEF Fbs
    <3> QED BY <1>2, <2>1, <3>1
  <2>4. Commit \in Proper(P, Y, Y)
    BY <2>1, <2>3, NeutralSteps
  <2>5. body(p) \in Proper(P, X, Y)
    BY <2>1, <2>3, <2>4, PlacesType, PossibleSteps
  <2> QED BY <2>1, <2>2, <2>5 DEF X, list
<1>4. test_fullscreen_video(m, c, s) = FlattenSeq(ss)
  BY DEF test_fullscreen_video, Each
<1>5. DOMAIN ss = 1 .. Len(list) /\ Len(ss) = Len(list)
  BY <1>1
<1> HIDE DEF ss, list
<1> QED BY <1>1, <1>3, <1>4, <1>5, EachAdds

LEMMA VideoOverlayProper ==
  ASSUME NEW m \in Machines, NEW c \in Crtcs, NEW P, P = PlaneSet(m, c)
  PROVE  test_video_overlay(m, c) \in Proper(P, {}, Fbs(P))
PROOF
<1> DEFINE list == Overlays(m, c)
           body(p) == ShowIfPossible(p, Corner(VideoSize, VideoSize), Move(p, 40, 40))
           ss == [i \in DOMAIN list |-> body(list[i])]
<1>1. list \in Seq(P) /\ Distinct(list) /\ Len(list) \in Nat /\ DOMAIN list = 1 .. Len(list)
  BY TypesOfPlanes
<1>2. Fbs(P) \subseteq Marks(P) /\ Fbs(P) \cap Dead(P) = {}
  BY PlaneSetFacts
<1>3. ASSUME NEW i \in 1 .. Len(list)
      PROVE  ss[i] \in Proper(P, FirstFbs(list, i - 1), FirstFbs(list, i))
  <2> DEFINE X == FirstFbs(list, i - 1)
             p == list[i]
             Y == X \cup {<<"fb", p>>}
  <2>1. X \in SUBSET Fbs(P) /\ p \in P /\ <<"fb", p>> \notin X /\ FirstFbs(list, i) = Y
    BY <1>1, NextFb
  <2>2. ss[i] = body(p)
    BY <1>1
  <2> HIDE DEF ss, X, p, list
  <2>3. X \in SUBSET Marks(P) /\ Y \in SUBSET Marks(P) /\ Y \cap Dead(P) = {}
    <3>1. Y \subseteq Fbs(P)
      BY <2>1 DEF Fbs
    <3> QED BY <1>2, <2>1, <3>1
  <2>4. Move(p, 40, 40) \in Proper(P, Y, Y)
    BY <2>1, <2>3, LoopSteps
  <2>5. Corner(VideoSize, VideoSize) \in Place
    BY DEF Corner, Rect, Place, VideoSize
  <2>6. body(p) \in Proper(P, X, Y)
    BY <2>1, <2>3, <2>4, <2>5, PossibleSteps
  <2> QED BY <2>1, <2>2, <2>6 DEF X, list
<1>4. test_video_overlay(m, c) = FlattenSeq(ss)
  BY DEF test_video_overlay, Each
<1>5. DOMAIN ss = 1 .. Len(list) /\ Len(ss) = Len(list) /\ (Len(list) = 0 => ss = << >>)
  BY <1>1
<1> HIDE DEF ss, list
<1> QED BY <1>1, <1>3, <1>4, <1>5, EachAdds

LEMMA PageflipsProper ==
  ASSUME NEW P, 0 \notin P, NEW list \in Seq(P), Distinct(list), NEW s \in Size
  PROVE  Each(list, LAMBDA p : pageflip_formats(p, s)) \in Proper(P, {}, Fbs(P))
PROOF
<1> DEFINE body(p) == pageflip_formats(p, s)
           ss == [i \in DOMAIN list |-> body(list[i])]
<1>1. Len(list) \in Nat /\ DOMAIN list = 1 .. Len(list)
  OBVIOUS
<1>2. ASSUME NEW i \in 1 .. Len(list)
      PROVE  ss[i] \in Proper(P, FirstFbs(list, i - 1), FirstFbs(list, i))
  <2> DEFINE X == FirstFbs(list, i - 1)
             p == list[i]
             Y == X \cup {<<"fb", p>>}
  <2>1. X \in SUBSET Fbs(P) /\ p \in P /\ <<"fb", p>> \notin X /\ FirstFbs(list, i) = Y
    BY NextFb
  <2>2. ss[i] = body(p)
    BY <1>1
  <2> HIDE DEF ss, X, p
  <2>3. body(p) \in Proper(P, X, Y)
    BY <2>1, PageflipProper
  <2> QED BY <2>1, <2>2, <2>3 DEF X
<1>3. Each(list, LAMBDA p : pageflip_formats(p, s)) = FlattenSeq(ss)
  BY DEF Each
<1>4. DOMAIN ss = 1 .. Len(list) /\ Len(ss) = Len(list) /\ (Len(list) = 0 => ss = << >>)
  BY <1>1
<1> HIDE DEF ss
<1> QED BY <1>2, <1>3, <1>4, EachAdds

LEMMA FenceSteps ==
  ASSUME NEW P, NEW p \in P, NEW X \in SUBSET Marks(P)
  PROVE  /\ <<"fence", 0>> \notin X =>
              Do("timeline", 0, 0) \in Proper(P, X, X \cup Unset(P) \cup {<<"fence", 0>>})
         /\ Do("in_fence", p, 0) \in Proper(P, X, (X \ {<<"unset", p>>}) \cup {<<"held", 0>>})
         /\ Do("join", 0, 0) \in Proper(P, X, X \ {<<"held", 0>>})
         /\ <<"unset", p>> \notin X /\ <<"held", 0>> \notin X =>
              Do("close", p, 0) \in Proper(P, X, X \ (Unset(P) \cup {<<"fence", 0>>}))
PROOF
<1>1. ASSUME <<"fence", 0>> \notin X
      PROVE  Do("timeline", 0, 0) \in Proper(P, X, X \cup Unset(P) \cup {<<"fence", 0>>})
  <2> DEFINE st == [op |-> "timeline", plane |-> 0, n |-> 0, arg |-> << >>]
             Y == X \cup Unset(P) \cup {<<"fence", 0>>}
  <2>1. st \in StepType(P) /\ st.op = "timeline" /\ st.n = 0
    BY DEF StepType, OtherOps
  <2> HIDE DEF st
  <2>2. Y \in SUBSET Marks(P)
    BY DEF Marks, Unset
  <2>3. Forbids(P, st) \cap X = {} /\ Effect(P, st, X) \subseteq Y
    BY <1>1, <2>1 DEF Forbids, Effect, Makes
  <2> HIDE DEF Y
  <2>4. << st >> \in Proper(P, X, Y)
    BY <2>1, <2>2, <2>3, ProperOne
  <2> QED BY <2>4 DEF st, Do, With, Y
<1>2. Do("in_fence", p, 0) \in Proper(P, X, (X \ {<<"unset", p>>}) \cup {<<"held", 0>>})
  <2> DEFINE st == [op |-> "in_fence", plane |-> p, n |-> 0, arg |-> << >>]
             Y == (X \ {<<"unset", p>>}) \cup {<<"held", 0>>}
  <2>1. st \in StepType(P) /\ st.op = "in_fence" /\ st.n = 0 /\ st.plane = p
    BY DEF StepType, PlaneOps
  <2> HIDE DEF st
  <2>2. Y \in SUBSET Marks(P) /\ <<"unset", p>> \in Marks(P)
    BY DEF Marks
  <2>3. /\ Forbids(P, st) = {} /\ Makes(P, st) \subseteq {<<"held", 0>>}
        /\ <<"unset", p>> \in Kills(P, st)
    BY <2>1, <2>2 DEF Forbids, Kills, Makes
  <2>4. Effect(P, st, X) \subseteq Y
    BY <2>3 DEF Effect
  <2> HIDE DEF Y
  <2>5. << st >> \in Proper(P, X, Y)
    BY <2>1, <2>2, <2>3, <2>4, ProperOne
  <2> QED BY <2>5 DEF st, Do, With, Y
<1>3. Do("join", 0, 0) \in Proper(P, X, X \ {<<"held", 0>>})
  <2> DEFINE st == [op |-> "join", plane |-> 0, n |-> 0, arg |-> << >>]
             Y == X \ {<<"held", 0>>}
  <2>1. st \in StepType(P) /\ st.op = "join" /\ st.n = 0
    BY DEF StepType, OtherOps
  <2> HIDE DEF st
  <2>2. Forbids(P, st) = {} /\ Makes(P, st) = {} /\ <<"held", 0>> \in Kills(P, st)
    BY <2>1 DEF Forbids, Kills, Makes, Marks
  <2>3. Effect(P, st, X) \subseteq Y /\ Y \in SUBSET Marks(P)
    BY <2>2 DEF Effect
  <2> HIDE DEF Y
  <2>4. << st >> \in Proper(P, X, Y)
    BY <2>1, <2>2, <2>3, ProperOne
  <2> QED BY <2>4 DEF st, Do, With, Y
<1>4. ASSUME <<"unset", p>> \notin X, <<"held", 0>> \notin X
      PROVE  Do("close", p, 0) \in Proper(P, X, X \ (Unset(P) \cup {<<"fence", 0>>}))
  <2> DEFINE st == [op |-> "close", plane |-> p, n |-> 0, arg |-> << >>]
             Y == X \ (Unset(P) \cup {<<"fence", 0>>})
  <2>1. st \in StepType(P) /\ st.op = "close" /\ st.n = 0 /\ st.plane = p
    BY DEF StepType, PlaneOps
  <2> HIDE DEF st
  <2>2. /\ Forbids(P, st) \subseteq {<<"unset", p>>, <<"held", 0>>} /\ Makes(P, st) = {}
        /\ \A mark \in Marks(P) : mark \in Unset(P) \cup {<<"fence", 0>>} => mark \in Kills(P, st)
    BY <2>1 DEF Forbids, Kills, Makes
  <2>3. Effect(P, st, X) \subseteq Y /\ Y \in SUBSET Marks(P)
    BY <2>2 DEF Effect
  <2>4. Forbids(P, st) \cap X = {}
    BY <1>4, <2>2
  <2> HIDE DEF Y
  <2>5. << st >> \in Proper(P, X, Y)
    BY <2>1, <2>3, <2>4, ProperOne
  <2> QED BY <2>5 DEF st, Do, With, Y
<1> QED BY <1>1, <1>2, <1>3, <1>4

LEMMA InFenceProper ==
  ASSUME NEW m \in Machines, NEW c \in Crtcs, NEW s \in Size, NEW P, P = PlaneSet(m, c)
  PROVE  test_in_fence(m, c, s) \in Proper(P, {}, Fbs(P))
PROOF
<1> DEFINE p == Primaries(m, c)[1]
           X == {<<"fb", p>>}
           Y == X \cup Unset(P) \cup {<<"fence", 0>>}
           Z == (Y \ {<<"unset", p>>}) \cup {<<"held", 0>>}
           W == Z \ {<<"held", 0>>}
           V == W \ (Unset(P) \cup {<<"fence", 0>>})
<1>1. p \in P
  BY TypesOfPlanes
<1>2. test_in_fence(m, c, s)
        = InitAt(p, 0, Full(s)) \o Do("timeline", 0, 0) \o Do("draw", p, 0)
            \o Do("in_fence", p, 0) \o Commit \o Do("join", 0, 0) \o Commit
            \o Do("close", p, 0)
  BY DEF test_in_fence
<1> HIDE DEF p
<1>3. /\ X \in SUBSET Marks(P) /\ Y \in SUBSET Marks(P) /\ Z \in SUBSET Marks(P)
      /\ W \in SUBSET Marks(P)
  <2>1. X \in SUBSET Marks(P)
    BY <1>1 DEF Marks
  <2>2. Unset(P) \subseteq Marks(P) /\ <<"fence", 0>> \in Marks(P) /\ <<"held", 0>> \in Marks(P)
    BY DEF Marks, Unset
  <2> QED BY <2>1, <2>2
<1>4. /\ <<"fence", 0>> \notin X /\ Z \cap Dead(P) = {} /\ W \cap Dead(P) = {}
      /\ <<"unset", p>> \notin W /\ <<"held", 0>> \notin W /\ V \subseteq Fbs(P)
  BY <1>1 DEF Unset, Dead, Fbs
<1>5. InitAt(p, 0, Full(s)) \in Proper(P, {}, X)
  <2>1. {} \cup {<<"fb", p>>} = X /\ {} \in SUBSET Marks(P)
    OBVIOUS
  <2>2. InitAt(p, 0, Full(s)) \in Proper(P, {}, {} \cup {<<"fb", p>>})
    BY <1>1, <2>1, FbSteps, PlacesType
  <2> QED BY <2>1, <2>2
<1> HIDE DEF X
<1>6. Do("timeline", 0, 0) \in Proper(P, X, Y)
  BY <1>1, <1>3, <1>4, FenceSteps
<1> HIDE DEF Y
<1>7. Do("draw", p, 0) \in Proper(P, Y, Y) /\ Do("in_fence", p, 0) \in Proper(P, Y, Z)
  BY <1>1, <1>3, FenceSteps, NeutralSteps
<1> HIDE DEF Z
<1>8. Commit \in Proper(P, Z, Z) /\ Do("join", 0, 0) \in Proper(P, Z, W)
  BY <1>1, <1>3, <1>4, FenceSteps, NeutralSteps
<1> HIDE DEF W
<1>9. Commit \in Proper(P, W, W) /\ Do("close", p, 0) \in Proper(P, W, V)
  BY <1>1, <1>3, <1>4, FenceSteps, NeutralSteps
<1> HIDE DEF V
<1> DEFINE a == InitAt(p, 0, Full(s)) \o Do("timeline", 0, 0) \o Do("draw", p, 0)
           b == a \o Do("in_fence", p, 0) \o Commit
           d == b \o Do("join", 0, 0) \o Commit
<1>10. a \in Proper(P, {}, Y)
  BY <1>5, <1>6, <1>7, ProperJoined
<1> HIDE DEF a
<1>11. b \in Proper(P, {}, Z)
  BY <1>7, <1>8, <1>10, ProperJoined
<1> HIDE DEF b
<1>12. d \in Proper(P, {}, W)
  BY <1>8, <1>9, <1>11, ProperJoined
<1> HIDE DEF d
<1>13. d \o Do("close", p, 0) \in Proper(P, {}, V)
  BY <1>9, <1>12, ProperJoined
<1>14. d \o Do("close", p, 0) \in Proper(P, {}, Fbs(P))
  BY <1>4, <1>13, ProperWeaker
<1> QED BY <1>2, <1>14 DEF a, b, d

\* A blob is made where there is none, or one is destroyed and still named.
LEMMA BlobScope ==
  ASSUME NEW P, 0 \notin P, NEW x \in P \cup {0}, NEW F, F = Fbs(P)
  PROVE  /\ Do("create_blob", x, 0) \in Proper(P, F, F \cup {<<"live", x>>})
         /\ Do("create_blob", x, 0)
              \in Proper(P, F \cup {<<"dead", x>>}, F \cup {<<"live", x>>})
         /\ Do("destroy_blob", x, 0)
              \in Proper(P, F \cup {<<"live", x>>}, F \cup {<<"dead", x>>})
         /\ F \cup {<<"live", x>>} \in SUBSET Marks(P)
         /\ F \cup {<<"dead", x>>} \in SUBSET Marks(P)
         /\ (F \cup {<<"live", x>>}) \cap Dead(P) = {}
PROOF
<1> DEFINE L == F \cup {<<"live", x>>}
           D == F \cup {<<"dead", x>>}
<1>1. F \in SUBSET Marks(P) /\ L \in SUBSET Marks(P) /\ D \in SUBSET Marks(P)
  BY DEF Fbs, Marks
<1>2. L \cap Dead(P) = {} /\ F \cap Dead(P) = {} /\ D \cap Dead(P) \subseteq {<<"dead", x>>}
  BY DEF Fbs, Dead
<1>3. <<"live", x>> \notin F /\ <<"live", x>> \notin D
  BY DEF Fbs
<1>4. Do("create_blob", x, 0) \in Proper(P, F, L)
  <2>1. Do("create_blob", x, 0) \in Proper(P, F, (F \cup {<<"live", x>>}) \ Dead(P))
    BY <1>1, <1>2, <1>3, BlobSteps
  <2>2. (F \cup {<<"live", x>>}) \ Dead(P) \subseteq L
    OBVIOUS
  <2> QED BY <2>1, <2>2, ProperWeaker
<1>5. Do("create_blob", x, 0) \in Proper(P, D, L)
  <2>1. Do("create_blob", x, 0) \in Proper(P, D, (D \cup {<<"live", x>>}) \ Dead(P))
    BY <1>1, <1>2, <1>3, BlobSteps
  <2>2. (D \cup {<<"live", x>>}) \ Dead(P) \subseteq L
    BY DEF Dead
  <2> QED BY <2>1, <2>2, ProperWeaker
<1>6. Do("destroy_blob", x, 0) \in Proper(P, L, D)
  <2>1. Do("destroy_blob", x, 0) \in Proper(P, L, (L \ {<<"live", x>>}) \cup {<<"dead", x>>})
    BY <1>1, BlobSteps
  <2>2. (L \ {<<"live", x>>}) \cup {<<"dead", x>>} \subseteq D
    OBVIOUS
  <2> QED BY <2>1, <2>2, ProperWeaker
<1> QED BY <1>1, <1>2, <1>4, <1>5, <1>6

LEMMA PlaneCtmProper ==
  ASSUME NEW m \in Machines, NEW c \in Crtcs, NEW s \in Size, NEW P, P = PlaneSet(m, c)
  PROVE  test_plane_ctm(m, c, s) \in Proper(P, Fbs(P), Fbs(P))
PROOF
<1> DEFINE F == Fbs(P)
           C == Proper(P, F, F)
           both == Overlays(m, c) \o Primaries(m, c)
           list == Within(both, m.ctm)
           with(p, draw) == Do("create_blob", p, 0) \o draw \o Commit
                              \o Do("destroy_blob", p, 0)
           body(p) == InitAt(p, 0, Full(s)) \o with(p, Do("draw", p, 0))
                        \o with(p, << >>) \o Disable(p)
           ss == [i \in DOMAIN list |-> body(list[i])]
<1>1. /\ F \in SUBSET Marks(P) /\ F \cap Dead(P) = {} /\ 0 \notin P
      /\ \A p \in P : <<"live", p>> \notin F
  BY PlaneSetFacts
<1>2. ASSUME NEW p \in P PROVE body(p) \in C
  <2> DEFINE L == F \cup {<<"live", p>>}
             D == F \cup {<<"dead", p>>}
  <2>1. /\ Do("create_blob", p, 0) \in Proper(P, F, L)
        /\ Do("create_blob", p, 0) \in Proper(P, D, L)
        /\ Do("destroy_blob", p, 0) \in Proper(P, L, D)
        /\ L \in SUBSET Marks(P) /\ D \in SUBSET Marks(P) /\ L \cap Dead(P) = {}
    BY <1>1, BlobScope
  <2>2. InitAt(p, 0, Full(s)) \in Proper(P, F, F)
    BY <1>1, SteadySteps, PlacesType
  <2>3. Disable(p) \in Proper(P, D, F)
    <3>1. <<"live", p>> \notin D
      BY <1>1
    <3>2. Disable(p) \in Proper(P, D, D \ {<<"fb", p>>, <<"dead", p>>})
      BY <2>1, <3>1, FbSteps, PlacesType
    <3>3. D \ {<<"fb", p>>, <<"dead", p>>} \subseteq F
      OBVIOUS
    <3> QED BY <3>2, <3>3, ProperWeaker
  <2>4. /\ Do("draw", p, 0) \in Proper(P, L, L) /\ Commit \in Proper(P, L, L)
        /\ << >> \in Proper(P, L, L)
    BY <2>1, NeutralSteps, ProperEmpty
  <2> HIDE DEF L, D, F
  <2>5. with(p, Do("draw", p, 0)) \in Proper(P, F, D)
    BY <2>1, <2>4, ProperJoined
  <2>6. with(p, << >>) \in Proper(P, D, D)
    BY <2>1, <2>4, ProperJoined
  <2> HIDE DEF with
  <2> QED BY <2>2, <2>3, <2>5, <2>6, ProperJoined
<1>3. list \in Seq(P) /\ Len(list) \in Nat /\ DOMAIN list = 1 .. Len(list)
  <2>1. Overlays(m, c) \in Seq(P) /\ Primaries(m, c) \in Seq(P)
    BY TypesOfPlanes
  <2>2. both \in Seq(P)
    BY <2>1
  <2> HIDE DEF both
  <2>3. list \in Seq(P \cap m.ctm)
    BY <2>2, WithinType
  <2> HIDE DEF list
  <2> QED BY <2>3
<1> HIDE DEF both
<1>4. ss \in [1 .. Len(list) -> C]
  <2> HIDE DEF C, body, list
  <2> QED BY <1>2, <1>3
<1>5. test_plane_ctm(m, c, s) = FlattenSeq(ss)
  BY DEF test_plane_ctm, Each, both
<1> HIDE DEF ss, list
<1>6. FlattenSeq(ss) \in C
  BY <1>1, <1>3, <1>4, EachSteady
<1> QED BY <1>5, <1>6

LEMMA CrtcCtmProper ==
  ASSUME NEW m \in Machines, NEW c \in Crtcs, NEW s \in Size, NEW P, P = PlaneSet(m, c)
  PROVE  test_crtc_ctm(m, c, s) \in Proper(P, Fbs(P), Fbs(P) \cup {<<"dead", 0>>})
PROOF
<1> DEFINE F == Fbs(P)
           L == F \cup {<<"live", 0>>}
           D == F \cup {<<"dead", 0>>}
           C == Proper(P, L, L)
           list == Primaries(m, c)
           attached(p) == Show(p, Full(s)) \o Commit \o Do("detach", p, 0)
           again(p) == Do("attach", p, 0) \o Commit \o Disable(p)
           ss == [i \in DOMAIN list |-> attached(list[i])]
           tt == [i \in DOMAIN list |-> again(list[i])]
<1>1. F \in SUBSET Marks(P) /\ 0 \notin P /\ \A p \in P : <<"live", p>> \notin F
  BY PlaneSetFacts
<1>2. /\ Do("create_blob", 0, 0) \in Proper(P, F, L)
      /\ Do("create_blob", 0, 0) \in Proper(P, D, L)
      /\ Do("destroy_blob", 0, 0) \in Proper(P, L, D)
      /\ L \in SUBSET Marks(P) /\ L \cap Dead(P) = {}
  BY <1>1, BlobScope
<1>3. F \subseteq L /\ \A p \in P : <<"live", p>> \notin L
  BY <1>1
<1>4. ASSUME NEW p \in P PROVE attached(p) \in C /\ again(p) \in C
  <2>1. \A t, v \in C : t \o v \in C
    BY ProperJoined
  <2>2. /\ Show(p, Full(s)) \in C /\ Commit \in C /\ Disable(p) \in C
        /\ Do("attach", p, 0) \in C /\ Do("detach", p, 0) \in C
    BY <1>2, <1>3, SteadySteps, PlacesType
  <2> HIDE DEF C
  <2> QED BY <2>1, <2>2
<1>5. list \in Seq(P) /\ Len(list) \in Nat /\ DOMAIN list = 1 .. Len(list)
  BY TypesOfPlanes
<1>6. ss \in [1 .. Len(list) -> C] /\ tt \in [1 .. Len(list) -> C]
  <2> HIDE DEF C, attached, again
  <2> QED BY <1>4, <1>5
<1>7. test_crtc_ctm(m, c, s)
        = IF c \notin m.color THEN << >>
          ELSE (Do("create_blob", 0, 0) \o FlattenSeq(ss) \o Do("destroy_blob", 0, 0))
                 \o (Do("create_blob", 0, 0) \o FlattenSeq(tt) \o Do("destroy_blob", 0, 0))
  BY DEF test_crtc_ctm, Each
<1> HIDE DEF ss, tt
<1>8. FlattenSeq(ss) \in C /\ FlattenSeq(tt) \in C
  BY <1>2, <1>5, <1>6, EachSteady
<1>9. << >> \in Proper(P, F, D)
  <2>1. << >> \in Proper(P, F, F)
    BY <1>1, ProperEmpty
  <2> QED BY <2>1, ProperWeaker
<1> HIDE DEF L, D, F
<1>10. /\ Do("create_blob", 0, 0) \o FlattenSeq(ss) \o Do("destroy_blob", 0, 0)
            \in Proper(P, F, D)
       /\ Do("create_blob", 0, 0) \o FlattenSeq(tt) \o Do("destroy_blob", 0, 0)
            \in Proper(P, D, D)
  BY <1>2, <1>8, ProperJoined
<1>11. (Do("create_blob", 0, 0) \o FlattenSeq(ss) \o Do("destroy_blob", 0, 0))
         \o (Do("create_blob", 0, 0) \o FlattenSeq(tt) \o Do("destroy_blob", 0, 0))
         \in Proper(P, F, D)
  BY <1>10, ProperJoined
<1> QED BY <1>7, <1>9, <1>11 DEF F, D

LEMMA CrtcGammaProper ==
  ASSUME NEW m \in Machines, NEW c \in Crtcs, NEW s \in Size, NEW P, P = PlaneSet(m, c)
  PROVE  test_crtc_gamma(m, c, s) \in Proper(P, Fbs(P), Fbs(P) \cup {<<"dead", 0>>})
PROOF
<1> DEFINE F == Fbs(P)
           L == F \cup {<<"live", 0>>}
           D == F \cup {<<"dead", 0>>}
           C == Proper(P, L, L)
           list == Primaries(m, c)
           body(p) == Show(p, Full(s)) \o Commit \o Disable(p)
           ss == [i \in DOMAIN list |-> body(list[i])]
           once == Do("create_blob", 0, 0) \o FlattenSeq(ss) \o Do("destroy_blob", 0, 0)
<1>1. F \in SUBSET Marks(P) /\ 0 \notin P /\ \A p \in P : <<"live", p>> \notin F
  BY PlaneSetFacts
<1>2. /\ Do("create_blob", 0, 0) \in Proper(P, F, L)
      /\ Do("create_blob", 0, 0) \in Proper(P, D, L)
      /\ Do("destroy_blob", 0, 0) \in Proper(P, L, D)
      /\ L \in SUBSET Marks(P) /\ L \cap Dead(P) = {}
  BY <1>1, BlobScope
<1>3. F \subseteq L /\ \A p \in P : <<"live", p>> \notin L
  BY <1>1
<1>4. ASSUME NEW p \in P PROVE body(p) \in C
  <2>1. \A t, v \in C : t \o v \in C
    BY ProperJoined
  <2>2. Show(p, Full(s)) \in C /\ Commit \in C /\ Disable(p) \in C
    BY <1>2, <1>3, SteadySteps, PlacesType
  <2> HIDE DEF C
  <2> QED BY <2>1, <2>2
<1>5. list \in Seq(P) /\ Len(list) \in Nat /\ DOMAIN list = 1 .. Len(list)
  BY TypesOfPlanes
<1>6. ss \in [1 .. Len(list) -> C]
  <2> HIDE DEF C, body
  <2> QED BY <1>4, <1>5
<1>7. test_crtc_gamma(m, c, s) = IF c \notin m.color THEN << >> ELSE once \o once
  BY DEF test_crtc_gamma, Each
<1> HIDE DEF ss
<1>8. FlattenSeq(ss) \in C
  BY <1>2, <1>5, <1>6, EachSteady
<1>9. << >> \in Proper(P, F, D)
  <2>1. << >> \in Proper(P, F, F)
    BY <1>1, ProperEmpty
  <2> QED BY <2>1, ProperWeaker
<1> HIDE DEF L, D, F
<1>10. once \in Proper(P, F, D) /\ once \in Proper(P, D, D)
  BY <1>2, <1>8, ProperJoined
<1> HIDE DEF once
<1>11. once \o once \in Proper(P, F, D)
  BY <1>10, ProperJoined
<1> QED BY <1>7, <1>9, <1>11 DEF F, D

\* What is left when a case has ended: framebuffers, and names of blobs.
LeftOver(P) == Fbs(P) \cup Dead(P)

LEMMA NamesListed ==
  Range(Names) =
    {"disable_primary", "rgba_primary", "fullscreen_video", "multiple_planes",
     "overlay_pageflip", "overlay_downscaling", "overlay_upscaling",
     "primary_pageflip", "video_overlay", "orientation", "video_underlay",
     "in_fence", "out_fence", "plane_ctm", "crtc_ctm", "crtc_gamma"}
PROOF
BY DEF Range, Names

LEMMA CasesProper ==
  ASSUME NEW m \in Machines, NEW c \in Crtcs, NEW s \in Size, NEW name \in Range(Names),
         NEW P, P = PlaneSet(m, c)
  PROVE  cases(m, c, s, name) \in Proper(P, {}, LeftOver(P))
PROOF
<1>1. \A X, Y : Y \subseteq LeftOver(P) => Proper(P, X, Y) \subseteq Proper(P, {}, LeftOver(P))
  <2> SUFFICES ASSUME NEW X, NEW Y, Y \subseteq LeftOver(P)
               PROVE  Proper(P, X, Y) \subseteq Proper(P, {}, LeftOver(P))
    OBVIOUS
  <2>1. {} \subseteq X
    OBVIOUS
  <2> QED BY <2>1, ProperWeaker
<1>2. /\ Fbs(P) \subseteq LeftOver(P)
      /\ Fbs(P) \cup {<<"dead", 0>>} \subseteq LeftOver(P)
  BY DEF LeftOver, Dead
<1>3. 0 \notin P
  BY PlaneSetFacts
<1>4. CASE name = "disable_primary"
  BY <1>1, <1>2, <1>4, DisablePrimaryProper DEF cases
<1>5. CASE name = "rgba_primary"
  BY <1>1, <1>2, <1>5, RgbaPrimaryProper DEF cases
<1>6. CASE name = "fullscreen_video"
  BY <1>1, <1>2, <1>6, FullscreenVideoProper DEF cases
<1>7. CASE name = "multiple_planes"
  BY <1>1, <1>2, <1>7, MultiplePlanesProper DEF cases
<1>8. CASE name = "overlay_pageflip"
  <2>1. Overlays(m, c) \in Seq(P) /\ Distinct(Overlays(m, c))
    BY TypesOfPlanes
  <2>2. test_overlay_pageflip(m, c, s) \in Proper(P, {}, Fbs(P))
    BY <1>3, <2>1, PageflipsProper DEF test_overlay_pageflip
  <2> QED BY <1>1, <1>2, <1>8, <2>2 DEF cases
<1>9. CASE name = "overlay_downscaling"
  <2>1. Even(s.width \div 2) \in Nat /\ Even(s.height \div 2) \in Nat
    <3>1. s.width \div 2 \in Nat /\ s.height \div 2 \in Nat
      BY DEF Size
    <3> QED BY <3>1, PlacesType
  <2>2. test_overlay_downscaling(m, c, s) \in Proper(P, Fbs(P), Fbs(P))
    BY <2>1, OverlayScalingProper DEF test_overlay_downscaling
  <2> QED BY <1>1, <1>2, <1>9, <2>2 DEF cases
<1>10. CASE name = "overlay_upscaling"
  <2>1. Even(s.width \div 4) \in Nat /\ Even(s.height \div 4) \in Nat
    <3>1. s.width \div 4 \in Nat /\ s.height \div 4 \in Nat
      BY DEF Size
    <3> QED BY <3>1, PlacesType
  <2>2. test_overlay_upscaling(m, c, s) \in Proper(P, Fbs(P), Fbs(P))
    BY <2>1, OverlayScalingProper DEF test_overlay_upscaling
  <2> QED BY <1>1, <1>2, <1>10, <2>2 DEF cases
<1>11. CASE name = "primary_pageflip"
  <2>1. Primaries(m, c) \in Seq(P) /\ Distinct(Primaries(m, c))
    BY TypesOfPlanes
  <2>2. test_primary_pageflip(m, c, s) \in Proper(P, {}, Fbs(P))
    BY <1>3, <2>1, PageflipsProper DEF test_primary_pageflip
  <2> QED BY <1>1, <1>2, <1>11, <2>2 DEF cases
<1>12. CASE name = "video_overlay"
  BY <1>1, <1>2, <1>12, VideoOverlayProper DEF cases
<1>13. CASE name = "orientation"
  BY <1>1, <1>2, <1>13, OrientationProper DEF cases
<1>14. CASE name = "video_underlay"
  BY <1>1, <1>2, <1>14, VideoUnderlayProper DEF cases
<1>15. CASE name = "in_fence"
  BY <1>1, <1>2, <1>15, InFenceProper DEF cases
<1>16. CASE name = "out_fence"
  BY <1>1, <1>2, <1>16, OutFenceProper DEF cases
<1>17. CASE name = "plane_ctm"
  BY <1>1, <1>2, <1>17, PlaneCtmProper DEF cases
<1>18. CASE name = "crtc_ctm"
  BY <1>1, <1>2, <1>18, CrtcCtmProper DEF cases
<1>19. CASE name = "crtc_gamma"
  BY <1>1, <1>2, <1>19, CrtcGammaProper DEF cases
<1>20. name \in
    {"disable_primary", "rgba_primary", "fullscreen_video", "multiple_planes",
     "overlay_pageflip", "overlay_downscaling", "overlay_upscaling",
     "primary_pageflip", "video_overlay", "orientation", "video_underlay",
     "in_fence", "out_fence", "plane_ctm", "crtc_ctm", "crtc_gamma"}
  BY NamesListed
<1> QED BY <1>4, <1>5, <1>6, <1>7, <1>8, <1>9, <1>10, <1>11, <1>12, <1>13, <1>14, <1>15,
           <1>16, <1>17, <1>18, <1>19, <1>20

----------------------------------------------------------------------------
\* Now the state.  Ids that are new.
LEMMA NewIds ==
  ASSUME NEW S, IsFiniteSet(S)
  PROVE  NewId(S) \in Nat \ {0} /\ NewId(S) \notin S
PROOF
<1> DEFINE n == Cardinality(S)
           T == {i \in Nat \ {0} : i \notin S}
           Fits(i) == i \notin S /\ 1 .. i - 1 \subseteq S
<1>1. n \in Nat
  BY FS_CardinalityType
<1>2. PICK k \in Nat : k = n + 1
  BY <1>1
<1>3. PICK j \in 1 .. k : j \notin S
  <2> SUFFICES ASSUME 1 .. k \subseteq S PROVE FALSE
    OBVIOUS
  <2>1. Cardinality(1 .. k) <= n
    BY FS_Subset
  <2>2. 1 \in Int /\ k \in Int /\ ~(1 > k)
    BY <1>1, <1>2
  <2>3. Cardinality(1 .. k) = k - 1 + 1
    BY <2>2, FS_Interval
  <2> QED BY <1>1, <1>2, <2>1, <2>3
<1>4. T \in SUBSET Nat /\ j \in T
  BY <1>3
<1>5. PICK i \in T : \A m \in T : i <= m
  BY <1>4, LeastNatural
<1>6. i \in 1 .. k /\ Fits(i)
  <2>1. i <= j
    BY <1>4, <1>5
  <2>2. \A m \in 1 .. i - 1 : m \in Nat \ {0} /\ ~(i <= m)
    BY <1>5
  <2> QED BY <1>3, <1>5, <2>1, <2>2
<1>7. (CHOOSE m \in 1 .. k : Fits(m)) \in 1 .. k /\ Fits(CHOOSE m \in 1 .. k : Fits(m))
  <2> HIDE DEF Fits
  <2> QED BY <1>6
<1>8. NewId(S) = (CHOOSE m \in 1 .. k : Fits(m))
  BY <1>2 DEF NewId
<1> HIDE DEF Fits
<1>9. NewId(S) \in 1 .. k /\ Fits(NewId(S))
  BY <1>7, <1>8
<1> QED BY <1>9 DEF Fits

\* What there is to do.
LEMMA TodoType ==
  ASSUME NEW name
  PROVE  Todo(name) \in Seq(Crtcs \X Range(Names))
PROOF
<1> DEFINE asked == IF name = "all" THEN Range(Names) ELSE {name}
           chosen == Within(Names, asked)
           C == Seq(Crtcs \X Range(Names))
           of(c) == [i \in DOMAIN chosen |-> <<c, chosen[i]>>]
           all == [c \in Crtcs |-> of(c)]
<1>1. Names \in Seq(Range(Names))
  <2>1. DOMAIN Names = 1 .. 16
    BY DEF Names
  <2>2. Names = [i \in 1 .. 16 |-> Names[i]]
    BY DEF Names
  <2>3. \A i \in 1 .. 16 : Names[i] \in Range(Names)
    BY <2>1 DEF Range
  <2>4. Names \in [1 .. 16 -> Range(Names)]
    BY <2>2, <2>3
  <2>5. \A n \in Nat : [1 .. n -> Range(Names)] \subseteq Seq(Range(Names))
    OBVIOUS
  <2>6. PICK n \in Nat : n = 16
    OBVIOUS
  <2> QED BY <2>4, <2>5, <2>6
<1>2. chosen \in Seq(Range(Names) \cap asked)
  BY <1>1, WithinType
<1> HIDE DEF chosen
<1>3. chosen \in Seq(Range(Names))
  <2>1. Range(Names) \cap asked \subseteq Range(Names)
    OBVIOUS
  <2> HIDE DEF asked
  <2> QED BY <1>2, <2>1
<1>4. \A c \in Crtcs : of(c) \in C
  <2> SUFFICES ASSUME NEW c \in Crtcs PROVE of(c) \in C
    OBVIOUS
  <2>1. PICK n \in Nat : n = Len(chosen)
    BY <1>3
  <2>2. DOMAIN chosen = 1 .. n /\ \A i \in 1 .. n : chosen[i] \in Range(Names)
    BY <1>3, <2>1
  <2>3. of(c) \in [1 .. n -> Crtcs \X Range(Names)]
    BY <2>2
  <2> HIDE DEF of
  <2> QED BY <2>3
<1> HIDE DEF of
<1>5. all \in Seq(C)
  <2>1. all \in [1 .. Cardinality(Crtcs) -> C]
    BY <1>4, Counted
  <2> HIDE DEF all, C
  <2> QED BY <2>1, Counted
<1>6. C \in SUBSET Seq(Crtcs \X Range(Names)) /\ << >> \in C /\ \A s, t \in C : s \o t \in C
  OBVIOUS
<1>7. FlattenSeq(all) \in C
  <2> HIDE DEF all
  <2> QED BY <1>5, <1>6, FlattenClosed
<1>8. Todo(name) = FlattenSeq(all)
  BY DEF Todo, all, of, chosen, asked
<1> HIDE DEF all
<1> QED BY <1>7, <1>8

\* Where the steps of a sequence are, as far as its marks are concerned.
OnTrack(P, s, i, X) ==
  /\ i \in 1 .. Len(s) + 1
  /\ \E A \in [1 .. Len(s) + 1 -> SUBSET Marks(P)] :
       Flow(P, s, A) /\ X \subseteq A[i] /\ A[Len(s) + 1] \subseteq LeftOver(P)

LEMMA TrackBegins ==
  ASSUME NEW P, NEW s \in Proper(P, {}, LeftOver(P))
  PROVE  OnTrack(P, s, 1, {})
PROOF
<1>1. s \in Seq(StepType(P))
  BY DEF Proper
<1>2. Len(s) \in Nat
  BY <1>1
<1>3. 1 \in 1 .. Len(s) + 1
  BY <1>2
<1>4. PICK A \in [1 .. Len(s) + 1 -> SUBSET Marks(P)] :
        Flow(P, s, A) /\ A[Len(s) + 1] \subseteq LeftOver(P)
  BY DEF Proper
<1>5. {} \subseteq A[1]
  OBVIOUS
<1> QED BY <1>3, <1>4, <1>5 DEF OnTrack

LEMMA TrackStep ==
  ASSUME NEW P, NEW s \in Seq(StepType(P)), NEW i, NEW X, OnTrack(P, s, i, X), i # Len(s) + 1
  PROVE  /\ i \in 1 .. Len(s)
         /\ Forbids(P, s[i]) \cap X = {}
         /\ \A j, Y : j \in Targets(i, s[i]) /\ Y \subseteq Effect(P, s[i], X)
                        => OnTrack(P, s, j, Y)
PROOF
<1>1. i \in 1 .. Len(s)
  <2>1. Len(s) \in Nat /\ i \in 1 .. Len(s) + 1
    BY DEF OnTrack
  <2> QED BY <2>1
<1>2. PICK A \in [1 .. Len(s) + 1 -> SUBSET Marks(P)] :
        Flow(P, s, A) /\ X \subseteq A[i] /\ A[Len(s) + 1] \subseteq LeftOver(P)
  BY DEF OnTrack
<1>3. Forbids(P, s[i]) \cap X = {}
  BY <1>1, <1>2 DEF Flow
<1>4. ASSUME NEW j, NEW Y, j \in Targets(i, s[i]), Y \subseteq Effect(P, s[i], X)
      PROVE  OnTrack(P, s, j, Y)
  <2>1. j \in 1 .. Len(s) + 1 /\ Effect(P, s[i], A[i]) \subseteq A[j]
    BY <1>1, <1>2, <1>4 DEF Flow
  <2>2. Effect(P, s[i], X) \subseteq Effect(P, s[i], A[i])
    BY <1>2 DEF Effect
  <2>3. Y \subseteq A[j]
    BY <1>4, <2>1, <2>2
  <2> QED BY <1>2, <2>1, <2>3 DEF OnTrack
<1> QED BY <1>1, <1>3, <1>4

LEMMA TrackFewer ==
  ASSUME NEW P, NEW s, NEW i, NEW X, OnTrack(P, s, i, X), NEW Y, Y \subseteq X
  PROVE  OnTrack(P, s, i, Y) /\ (i = Len(s) + 1 => Y \subseteq LeftOver(P))
PROOF
<1>1. PICK A \in [1 .. Len(s) + 1 -> SUBSET Marks(P)] :
        Flow(P, s, A) /\ X \subseteq A[i] /\ A[Len(s) + 1] \subseteq LeftOver(P)
  BY DEF OnTrack
<1>2. Y \subseteq A[i]
  BY <1>1
<1> QED BY <1>1, <1>2 DEF OnTrack

----------------------------------------------------------------------------
\* The types, and what operations on the kernel, the request and the planes give.
CrtcFields == [active : BOOLEAN, out_fence_ptr : BOOLEAN, color : Nat]
PlaneShown == [fb : Nat \cup {Foreign}, crtc : Crtcs \cup {0}]
KernelType ==
  [ fbs : SUBSET Nat, blobs : SUBSET Nat, fences : SUBSET Nat,
    plane : [Planes -> PlaneShown],
    active : [Crtcs -> BOOLEAN], connector : [Connectors -> Crtcs \cup {0}] ]
CrtcProps == [active : BOOLEAN, color : Nat, out_fence : BOOLEAN]
RequestType ==
  [ plane : [Planes -> PlaneFields \cup {Null}],
    crtc : [Crtcs -> CrtcProps \cup {Null}],
    connector : [Connectors -> Crtcs \cup {0, Null}] ]

LEMMA KmsInitType ==
  ASSUME machine \in Machines
  PROVE  /\ KmsInit \in KernelType
         /\ KmsInit.fbs = {} /\ KmsInit.blobs = {} /\ KmsInit.fences = {}
PROOF
<1> DEFINE shown(p) ==
      LET lit == {c \in machine.crtcs[p] : Other(c) # {}}
      IN IF machine.type[p] = "primary" /\ lit # {}
         THEN [fb |-> Foreign, crtc |-> CHOOSE c \in lit : TRUE] ELSE [fb |-> 0, crtc |-> 0]
<1>1. machine \in MachineType
  BY AtomicAssumption
<1>2. machine.crtcs \in [Planes -> SUBSET Crtcs] /\ machine.lit \in [Connectors -> Crtcs \cup {0}]
  BY <1>1 DEF MachineType
<1>3. ASSUME NEW p \in Planes PROVE shown(p) \in PlaneShown
  <2> DEFINE lit == {c \in machine.crtcs[p] : Other(c) # {}}
  <2>1. lit # {} => (CHOOSE c \in lit : TRUE) \in Crtcs
    <3>1. lit \subseteq Crtcs
      BY <1>2
    <3> HIDE DEF lit
    <3> QED BY <3>1
  <2> QED BY <2>1 DEF PlaneShown, Foreign
<1>4. KmsInit = [ fbs |-> {}, blobs |-> {}, fences |-> {},
                  plane |-> [p \in Planes |-> shown(p)],
                  active |-> [c \in Crtcs |-> Other(c) # {}], connector |-> machine.lit ]
  BY DEF KmsInit
<1> HIDE DEF shown
<1> QED BY <1>2, <1>3, <1>4 DEF KernelType

LEMMA RmFBType ==
  ASSUME NEW k \in KernelType, NEW fbs
  PROVE  /\ RmFB(k, fbs) \in KernelType
         /\ RmFB(k, fbs).fbs = k.fbs \ fbs
         /\ RmFB(k, fbs).blobs = k.blobs /\ RmFB(k, fbs).fences = k.fences
PROOF
<1> DEFINE off == {p \in Planes : k.plane[p].fb \in fbs}
           dark == {k.plane[p].crtc : p \in {q \in off : machine.type[q] = "primary"}}
           plane1 == [p \in Planes |-> IF p \in off THEN [fb |-> 0, crtc |-> 0] ELSE k.plane[p]]
           active1 == [c \in Crtcs |-> k.active[c] /\ c \notin dark]
           connector1 == [c \in Connectors |-> IF k.connector[c] \in dark THEN 0
                                               ELSE k.connector[c]]
<1>1. RmFB(k, fbs) = [k EXCEPT !.fbs = k.fbs \ fbs, !.plane = plane1, !.active = active1,
                               !.connector = connector1]
  BY DEF RmFB
<1>2. /\ k.fbs \in SUBSET Nat /\ k.blobs \in SUBSET Nat /\ k.fences \in SUBSET Nat
      /\ k.plane \in [Planes -> PlaneShown] /\ k.active \in [Crtcs -> BOOLEAN]
      /\ k.connector \in [Connectors -> Crtcs \cup {0}]
  BY DEF KernelType
<1>3. plane1 \in [Planes -> PlaneShown]
  BY <1>2 DEF PlaneShown
<1>4. active1 \in [Crtcs -> BOOLEAN]
  OBVIOUS
<1>5. connector1 \in [Connectors -> Crtcs \cup {0}]
  BY <1>2
<1> HIDE DEF plane1, active1, connector1
<1>6. k.fbs \ fbs \in SUBSET Nat
  BY <1>2
<1>7. RmFB(k, fbs) =
        [ fbs |-> k.fbs \ fbs, blobs |-> k.blobs, fences |-> k.fences, plane |-> plane1,
          active |-> active1, connector |-> connector1 ]
  BY <1>1 DEF KernelType
<1> QED BY <1>2, <1>3, <1>4, <1>5, <1>6, <1>7 DEF KernelType

LEMMA AfterType ==
  ASSUME kms \in KernelType, NEW req \in RequestType
  PROVE  /\ After(req) \in KernelType
         /\ After(req).fbs = kms.fbs /\ After(req).blobs = kms.blobs
         /\ After(req).fences = kms.fences
         /\ After(req).connector =
              [k \in Connectors |-> IF req.connector[k] = Null THEN kms.connector[k]
                                    ELSE req.connector[k]]
PROOF
<1> DEFINE plane1 == [p \in Planes |-> IF req.plane[p] = Null THEN kms.plane[p]
                        ELSE [fb |-> req.plane[p].fb, crtc |-> req.plane[p].crtc]]
           active1 == [c \in Crtcs |-> IF req.crtc[c] = Null THEN kms.active[c]
                                       ELSE req.crtc[c].active]
           connector1 == [k \in Connectors |-> IF req.connector[k] = Null THEN kms.connector[k]
                                               ELSE req.connector[k]]
<1>1. /\ kms.fbs \in SUBSET Nat /\ kms.blobs \in SUBSET Nat /\ kms.fences \in SUBSET Nat
      /\ kms.plane \in [Planes -> PlaneShown] /\ kms.active \in [Crtcs -> BOOLEAN]
      /\ kms.connector \in [Connectors -> Crtcs \cup {0}]
  BY DEF KernelType
<1>2. /\ req.plane \in [Planes -> PlaneFields \cup {Null}]
      /\ req.crtc \in [Crtcs -> CrtcProps \cup {Null}]
      /\ req.connector \in [Connectors -> Crtcs \cup {0, Null}]
  BY DEF RequestType
<1>3. After(req) = [kms EXCEPT !.plane = plane1, !.active = active1, !.connector = connector1]
  BY <1>1 DEF After, Override
<1>4. plane1 \in [Planes -> PlaneShown]
  BY <1>1, <1>2 DEF PlaneFields, PlaneShown
<1>5. active1 \in [Crtcs -> BOOLEAN]
  <2> SUFFICES ASSUME NEW c \in Crtcs
               PROVE  (IF req.crtc[c] = Null THEN kms.active[c] ELSE req.crtc[c].active) \in BOOLEAN
    OBVIOUS
  <2>1. kms.active[c] \in BOOLEAN
    BY <1>1
  <2>2. req.crtc[c] # Null => req.crtc[c].active \in BOOLEAN
    BY <1>2 DEF CrtcProps
  <2> QED BY <2>1, <2>2
<1>6. connector1 \in [Connectors -> Crtcs \cup {0}]
  BY <1>1, <1>2
<1>7. After(req) =
        [ fbs |-> kms.fbs, blobs |-> kms.blobs, fences |-> kms.fences, plane |-> plane1,
          active |-> active1, connector |-> connector1 ]
  <2> HIDE DEF plane1, active1, connector1
  <2> QED BY <1>3 DEF KernelType
<1>8. After(req) \in KernelType
  <2> HIDE DEF plane1, active1, connector1
  <2> QED BY <1>1, <1>4, <1>5, <1>6, <1>7 DEF KernelType
<1>9. After(req).connector = connector1
  BY <1>7
<1> QED BY <1>7, <1>8, <1>9

LEMMA SetPlaneProps ==
  ASSUME NEW req \in RequestType, NEW p \in Planes, NEW fields \in PlaneFields
  PROVE  /\ set_plane_props(req, p, fields) \in RequestType
         /\ set_plane_props(req, p, fields).plane[p] = fields
         /\ \A q \in Planes \ {p} : set_plane_props(req, p, fields).plane[q] = req.plane[q]
         /\ set_plane_props(req, p, fields).crtc = req.crtc
PROOF
<1>1. /\ req.plane \in [Planes -> PlaneFields \cup {Null}]
      /\ req.crtc \in [Crtcs -> CrtcProps \cup {Null}]
      /\ req.connector \in [Connectors -> Crtcs \cup {0, Null}]
  BY DEF RequestType
<1>2. set_plane_props(req, p, fields) =
        [plane |-> [req.plane EXCEPT ![p] = fields], crtc |-> req.crtc,
         connector |-> req.connector]
  BY DEF set_plane_props, RequestType
<1>3. [req.plane EXCEPT ![p] = fields] \in [Planes -> PlaneFields \cup {Null}]
  BY <1>1
<1> QED BY <1>1, <1>2, <1>3 DEF RequestType

LEMMA SetCrtcProps ==
  ASSUME NEW req \in RequestType, NEW c \in Crtcs, NEW fields \in CrtcFields
  PROVE  /\ set_crtc_props(req, c, fields) \in RequestType
         /\ set_crtc_props(req, c, fields).crtc[c].color = fields.color
         /\ \A d \in Crtcs \ {c} : set_crtc_props(req, c, fields).crtc[d] = req.crtc[d]
         /\ set_crtc_props(req, c, fields).plane = req.plane
         /\ set_crtc_props(req, c, fields).connector = req.connector
PROOF
<1> DEFINE out_fence == fields.out_fence_ptr \/ (req.crtc[c] # Null /\ req.crtc[c].out_fence)
           props == [active |-> fields.active, color |-> fields.color, out_fence |-> out_fence]
<1>1. /\ req.plane \in [Planes -> PlaneFields \cup {Null}]
      /\ req.crtc \in [Crtcs -> CrtcProps \cup {Null}]
      /\ req.connector \in [Connectors -> Crtcs \cup {0, Null}]
  BY DEF RequestType
<1>2. set_crtc_props(req, c, fields) = [req EXCEPT !.crtc[c] = props]
  BY <1>1 DEF set_crtc_props
<1>3. out_fence \in BOOLEAN
  OBVIOUS
<1> HIDE DEF out_fence
<1>4. props \in CrtcProps /\ props.color = fields.color
  BY <1>3 DEF CrtcProps, CrtcFields
<1> HIDE DEF props
<1>5. [req EXCEPT !.crtc[c] = props] =
        [plane |-> req.plane, crtc |-> [req.crtc EXCEPT ![c] = props],
         connector |-> req.connector]
  BY DEF RequestType
<1>6. [req.crtc EXCEPT ![c] = props] \in [Crtcs -> CrtcProps \cup {Null}]
  BY <1>1, <1>4
<1> QED BY <1>1, <1>2, <1>4, <1>5, <1>6 DEF RequestType

LEMMA PlaneFieldsOf ==
  ASSUME NEW fields \in PlaneFields
  PROVE  /\ fields.fb \in Nat /\ fields.crtc \in Crtcs \cup {0} /\ fields.fence \in Nat
         /\ fields.ctm \in Nat /\ fields.place \in Place
         /\ \A c \in Crtcs \cup {0} : [fields EXCEPT !.crtc = c] \in PlaneFields
         /\ \A at \in Place : [fields EXCEPT !.place = at] \in PlaneFields
         /\ \A id \in Nat : /\ [fields EXCEPT !.fb = id] \in PlaneFields
                            /\ [fields EXCEPT !.ctm = id] \in PlaneFields
                            /\ [fields EXCEPT !.fence = id] \in PlaneFields
         /\ Disabled(fields) \in PlaneFields
         /\ Disabled(fields) = [NoPlane EXCEPT !.fence = Disabled(fields).fence]
         /\ Disabled(fields).fb = 0 /\ Disabled(fields).ctm = 0
         /\ Disabled(fields).fence = fields.fence
PROOF
<1>1. Nowhere \in Place
  BY DEF Nowhere, Rect, Place
<1>2. Disabled(fields) = [fb |-> 0, crtc |-> 0, fence |-> fields.fence, ctm |-> 0,
                          place |-> Nowhere]
  <2>1. Disabled(fields) \in PlaneFields
    BY <1>1 DEF Disabled, PlaneFields, Place
  <2>2. \A r \in PlaneFields : r = [fb |-> r.fb, crtc |-> r.crtc, fence |-> r.fence,
                                    ctm |-> r.ctm, place |-> r.place]
    BY DEF PlaneFields
  <2>3. /\ Disabled(fields).fb = 0 /\ Disabled(fields).crtc = 0 /\ Disabled(fields).ctm = 0
        /\ Disabled(fields).fence = fields.fence /\ Disabled(fields).place = Nowhere
    BY DEF Disabled, PlaneFields
  <2> QED BY <2>1, <2>2, <2>3
<1>3. [NoPlane EXCEPT !.fence = fields.fence] =
        [fb |-> 0, crtc |-> 0, fence |-> fields.fence, ctm |-> 0, place |-> Nowhere]
  BY DEF NoPlane
<1>4. Disabled(fields) \in PlaneFields
  BY <1>1, <1>2 DEF PlaneFields, Place
<1>5. Disabled(fields) = [NoPlane EXCEPT !.fence = Disabled(fields).fence]
  BY <1>2, <1>3
<1>6. /\ fields.fb \in Nat /\ fields.crtc \in Crtcs \cup {0} /\ fields.fence \in Nat
      /\ fields.ctm \in Nat /\ fields.place \in Place
  BY DEF PlaneFields, Place
<1>7. /\ \A c \in Crtcs \cup {0} : [fields EXCEPT !.crtc = c] \in PlaneFields
      /\ \A at \in Place : [fields EXCEPT !.place = at] \in PlaneFields
  BY DEF PlaneFields, Place
<1>8. \A id \in Nat : /\ [fields EXCEPT !.fb = id] \in PlaneFields
                      /\ [fields EXCEPT !.ctm = id] \in PlaneFields
                      /\ [fields EXCEPT !.fence = id] \in PlaneFields
  BY DEF PlaneFields, Place
<1> QED BY <1>2, <1>4, <1>5, <1>6, <1>7, <1>8

\* Planes are moved and scaled to places.
LEMMA PlacesMoved ==
  ASSUME NEW at \in Place
  PROVE  /\ \A by \in [dx : Nat, dy : Nat] : Moved(at, by) \in Place
         /\ \A tenths \in Nat : Resized(at, tenths) \in Place
PROOF
<1>1. /\ Farthest \in Nat
      /\ \A i, j \in Nat : Smaller(i, j) \in Nat
  BY AtomicAssumption DEF Smaller
<1>2. at.x \in Nat /\ at.y \in Nat /\ at.w \in Nat /\ at.h \in Nat
  BY DEF Place
<1>3. ASSUME NEW by \in [dx : Nat, dy : Nat] PROVE Moved(at, by) \in Place
  <2>1. by.dx \in Nat /\ by.dy \in Nat
    OBVIOUS
  <2>2. \A x, y \in Nat : [at EXCEPT !.x = x, !.y = y] \in Place
    BY DEF Place
  <2>3. at.x + by.dx \in Nat /\ at.y + by.dy \in Nat
    BY <1>2, <2>1
  <2> QED BY <1>1, <2>2, <2>3 DEF Moved
<1>4. ASSUME NEW tenths \in Nat PROVE Resized(at, tenths) \in Place
  <2>1. ASSUME NEW n \in Nat PROVE Even(Scaled(n, tenths)) \in Nat
    <3>1. PICK k \in Nat : k = tenths * n
      OBVIOUS
    <3>2. k \div 10 \in Nat
      OBVIOUS
    <3> QED BY <3>1, <3>2 DEF Even, Scaled
  <2>2. \A w, h \in Nat : [at EXCEPT !.w = w, !.h = h] \in Place
    BY DEF Place
  <2> QED BY <1>2, <2>1, <2>2 DEF Resized
<1> QED BY <1>3, <1>4

----------------------------------------------------------------------------
\* The invariant.  The blob of plane x of the CRTC, or for 0 of the CRTC.
BlobOf(x) == IF x = 0 THEN crtcs[crtc].color ELSE planes[crtc][x].ctm

\* The marks that the state has.
Holds(kind, x) ==
  \/ kind = "fb" /\ x \in Ours /\ planes[crtc][x].fb # 0
  \/ kind = "live" /\ BlobOf(x) \in kms.blobs
  \/ kind = "dead" /\ BlobOf(x) \notin kms.blobs \cup {0}
  \/ kind = "unset" /\ x \in Ours /\ ~(kms.fences \subseteq {planes[crtc][x].fence})
  \/ kind = "fence" /\ kms.fences # {}
  \/ kind = "held" /\ timeline = "held"
Real == {mark \in Marks(Ours) : Holds(mark[1], mark[2])}

\* Nothing is used but by the current CRTC and its planes.
Clear(fields) == fields = [NoPlane EXCEPT !.fence = fields.fence]
OthersClear ==
  /\ \A c \in Crtcs \ {crtc} : /\ ~crtcs[c].active /\ crtcs[c].color = 0
                               /\ \A q \in Planes : Clear(planes[c][q])
  /\ \A q \in Planes \ Ours : Clear(planes[crtc][q])

\* Every framebuffer is one plane's, every blob one plane's or the CRTC's, and
\* there is one fence at most.
FbsShown == \A f \in kms.fbs : \E q \in Ours : planes[crtc][q].fb = f
FbsOfPlanes ==
  /\ \A q \in Ours : planes[crtc][q].fb \in kms.fbs \cup {0}
  /\ \A q, r \in Ours : planes[crtc][q].fb = planes[crtc][r].fb
                          => q = r \/ planes[crtc][q].fb = 0
BlobsOfUses ==
  /\ \A b \in kms.blobs : \E x \in Ours \cup {0} : BlobOf(x) = b
  /\ \A x, y \in Ours \cup {0} : BlobOf(x) = BlobOf(y) => x = y \/ BlobOf(x) \notin kms.blobs
OneFence == \A f, g \in kms.fences : f = g

\* The request agrees with the program's own copies; the one that run_testcase
\* goes back to names nothing.
Agrees ==
  /\ \A q \in Planes : pset.plane[q] # Null => /\ pset.plane[q].fb = planes[crtc][q].fb
                                               /\ pset.plane[q].ctm = planes[crtc][q].ctm
  /\ \A c \in Crtcs : pset.crtc[c] # Null => c = crtc /\ pset.crtc[c].color = crtcs[crtc].color
NamesNothing(req) ==
  /\ \A q \in Planes : req.plane[q] = Null
  /\ \A c \in Crtcs : req.crtc[c] # Null => req.crtc[c].color = 0

Inside == /\ FbsOfPlanes /\ BlobsOfUses /\ OneFence /\ Agrees
          /\ FbsShown /\ OthersClear /\ NamesNothing(base)

\* The case goes on as its sequence of steps allows, or, after a commit that
\* failed at first, is at its end.
NextStep == IF pc = "wait" THEN step + 1 ELSE step
Tracked == /\ script \in Seq(StepType(Ours)) /\ step \in Nat \ {0}
           /\ \/ OnTrack(Ours, script, NextStep, Real)
              \/ ret = -1 /\ NextStep = Len(script) + 1

\* What is left once the case is over, and once its planes are disabled.
Released == kms.blobs = {} /\ kms.fences = {} /\ timeline # "held"
Leaving == FbsShown /\ OthersClear /\ NamesNothing(base) /\ (ret = -1 \/ Released)
Over == /\ kms.fbs = {} /\ \A q \in Planes : Clear(planes[crtc][q])
        /\ OthersClear /\ NamesNothing(base) /\ pset = base /\ (ret = -1 \/ Released)
        /\ pc = "disable" => ret # -1

JobOK == /\ machine \in Machines /\ screen \in Range(machine.modes)
         /\ todo \in Seq(Crtcs \X Range(Names))
ControlOK == /\ pc \in {"enable", "case", "wait", "cleanup", "last_commit", "last_wait",
                        "disable", "out", "done", "killed"}
             /\ step \in Nat /\ ret \in {-1, 0, 1} /\ moved \in BOOLEAN
CopiesOK == /\ planes \in [Crtcs -> [Planes -> PlaneFields]]
            /\ crtcs \in [Crtcs -> CrtcFields]
            /\ connectors \in [Connectors -> Crtcs \cup {0}]
RequestOK == base \in RequestType /\ pset \in RequestType
KernelOK == /\ kms \in KernelType
            /\ IsFiniteSet(kms.fbs) /\ IsFiniteSet(kms.blobs) /\ IsFiniteSet(kms.fences)
            /\ 0 \notin kms.fbs /\ 0 \notin kms.blobs
OutsideOK == /\ event \in {"none", "queued", "sent"}
             /\ timeline \in {"none", "open", "held", "signalled"} /\ out_fence_fd \in BOOLEAN
Data == JobOK /\ CopiesOK /\ RequestOK /\ KernelOK /\ OutsideOK

Inv == /\ Data /\ ControlOK
       /\ CleanSlate
       /\ pc = "enable" => timeline # "held"
       /\ pc \in {"case", "wait"} => todo # << >> /\ Inside /\ Tracked
       /\ pc = "cleanup" => todo # << >> /\ Leaving
       /\ pc \in {"last_commit", "last_wait", "disable"} => todo # << >> /\ Over

LEMMA DataTyped == Data /\ ControlOK => TypeOK
PROOF
BY DEF Data, JobOK, ControlOK, CopiesOK, RequestOK, KernelOK, OutsideOK, TypeOK, CrtcFields,
       PlaneShown, KernelType, CrtcProps, RequestType

\* What Data says of the current CRTC.
LEMMA CurrentFacts ==
  ASSUME Data, todo # << >>
  PROVE  /\ crtc \in Crtcs /\ todo[1][2] \in Range(Names) /\ Tail(todo) \in Seq(Crtcs \X Range(Names))
         /\ Ours = PlaneSet(machine, crtc) /\ Ours \subseteq Planes /\ 0 \notin Ours
         /\ machine \in Machines /\ 0 \notin Planes
         /\ planes \in [Crtcs -> [Planes -> PlaneFields]]
         /\ \A c \in Crtcs, q \in Planes : planes[c][q] \in PlaneFields
         /\ \A c \in Crtcs : crtcs[c] \in CrtcFields
         /\ \A q \in Planes : pset.plane[q] # Null => pset.plane[q] \in PlaneFields
         /\ \A c \in Crtcs : pset.crtc[c] # Null => pset.crtc[c] \in CrtcProps
PROOF
<1>1. todo \in Seq(Crtcs \X Range(Names))
  BY DEF Data, JobOK
<1>2. todo[1] \in Crtcs \X Range(Names) /\ Tail(todo) \in Seq(Crtcs \X Range(Names))
  BY <1>1
<1>3. crtc \in Crtcs /\ todo[1][2] \in Range(Names)
  BY <1>2 DEF crtc
<1>4. machine \in Machines
  BY DEF Data, JobOK
<1>5. Ours = PlaneSet(machine, crtc)
  BY DEF Ours, PlaneSet
<1>6. Ours \subseteq Planes /\ 0 \notin Ours
  BY <1>3, <1>4, <1>5, ListsType, PlaneSetFacts
<1>7. planes \in [Crtcs -> [Planes -> PlaneFields]] /\ crtcs \in [Crtcs -> CrtcFields]
  BY DEF Data, CopiesOK
<1>8. pset.plane \in [Planes -> PlaneFields \cup {Null}] /\ pset.crtc \in [Crtcs -> CrtcProps \cup {Null}]
  BY DEF Data, RequestOK, RequestType
<1>9. 0 \notin Planes
  BY Counted
<1> QED BY <1>2, <1>3, <1>4, <1>5, <1>6, <1>7, <1>8, <1>9

\* One plane of the current CRTC is changed.
LEMMA OnePlane ==
  ASSUME Data, todo # << >>, NEW p \in Ours, NEW changed \in PlaneFields,
         planes' = [planes EXCEPT ![crtc][p] = changed]
  PROVE  /\ planes' \in [Crtcs -> [Planes -> PlaneFields]]
         /\ planes'[crtc][p] = changed
         /\ \A q \in Planes \ {p} : planes'[crtc][q] = planes[crtc][q]
         /\ \A c \in Crtcs \ {crtc} : planes'[c] = planes[c]
PROOF
<1>1. crtc \in Crtcs /\ p \in Planes /\ planes \in [Crtcs -> [Planes -> PlaneFields]]
  BY CurrentFacts
<1> HIDE DEF crtc
<1> QED BY <1>1

\* What other CRTCs and planes have stays clear.
LEMMA OthersStay ==
  ASSUME Data, todo # << >>, OthersClear, UNCHANGED job,
         NEW p \in Ours, NEW changed \in PlaneFields,
         \/ planes' = [planes EXCEPT ![crtc][p] = changed]
         \/ UNCHANGED planes,
         NEW fields \in CrtcFields,
         crtcs' = [crtcs EXCEPT ![crtc] = fields] \/ UNCHANGED crtcs
  PROVE  OthersClear'
PROOF
<1>1. crtc' = crtc /\ Ours' = Ours
  BY DEF job, crtc, Ours
<1>2. crtc \in Crtcs /\ Ours \subseteq Planes /\ crtcs \in [Crtcs -> CrtcFields]
  BY CurrentFacts DEF Data, CopiesOK
<1>3. /\ \A q \in Planes \ {p} : planes'[crtc][q] = planes[crtc][q]
      /\ \A c \in Crtcs \ {crtc} : planes'[c] = planes[c]
  BY OnePlane
<1>4. \A c \in Crtcs \ {crtc} : crtcs'[c] = crtcs[c]
  BY <1>2
<1> QED BY <1>1, <1>2, <1>3, <1>4 DEF OthersClear, Clear

\* Nothing the marks are about is changed, or only the thread has ended.
LEMMA Unmoved ==
  ASSUME Data, todo # << >>, UNCHANGED job,
         \A q \in Ours : /\ planes'[crtc][q].fb = planes[crtc][q].fb
                         /\ planes'[crtc][q].ctm = planes[crtc][q].ctm
                         /\ planes'[crtc][q].fence = planes[crtc][q].fence,
         crtcs'[crtc].color = crtcs[crtc].color,
         kms'.fbs = kms.fbs, kms'.blobs = kms.blobs, kms'.fences = kms.fences,
         timeline' = "held" => timeline = "held"
  PROVE  /\ FbsOfPlanes => FbsOfPlanes'
         /\ FbsShown => FbsShown'
         /\ BlobsOfUses => BlobsOfUses'
         /\ OneFence => OneFence'
         /\ Real' \subseteq Real
         /\ Released => Released'
PROOF
<1>1. crtc' = crtc /\ Ours' = Ours
  BY DEF job, crtc, Ours
<1>2. \A x \in Ours \cup {0} : BlobOf(x)' = BlobOf(x)
  BY <1>1, CurrentFacts DEF BlobOf
<1>3. FbsOfPlanes => FbsOfPlanes'
  BY <1>1 DEF FbsOfPlanes
<1>4. FbsShown => FbsShown'
  BY <1>1 DEF FbsShown
<1>5. BlobsOfUses => BlobsOfUses'
  BY <1>1, <1>2 DEF BlobsOfUses
<1>6. OneFence => OneFence'
  BY DEF OneFence
<1>7. Real' \subseteq Real
  <2>1. Marks(Ours)' = Marks(Ours)
    BY <1>1 DEF Marks
  <2>2. ASSUME NEW mark \in Marks(Ours), Holds(mark[1], mark[2])'
        PROVE  Holds(mark[1], mark[2])
    <3>1. PICK kind, x : kind = mark[1] /\ x = mark[2]
      OBVIOUS
    <3>2. kind \in {"live", "dead"} => x \in Ours \cup {0}
      BY <3>1 DEF Marks
    <3>3. Holds(kind, x)' => Holds(kind, x)
      BY <1>1, <1>2, <3>2 DEF Holds
    <3> QED BY <2>2, <3>1, <3>3
  <2> QED BY <2>1, <2>2 DEF Real
<1>8. Released => Released'
  BY DEF Released
<1> QED BY <1>3, <1>4, <1>5, <1>6, <1>7, <1>8

\* Marks are seen, and what is forbidden or undone by a step.
LEMMA MarksSeen ==
  ASSUME Data, todo # << >>
  PROVE  /\ \A q \in Ours : planes[crtc][q].fb # 0 => <<"fb", q>> \in Real
         /\ \A x \in Ours \cup {0} : BlobOf(x) \in kms.blobs => <<"live", x>> \in Real
         /\ \A x \in Ours \cup {0} : BlobOf(x) \notin kms.blobs \cup {0} => <<"dead", x>> \in Real
         /\ \A q \in Ours : ~(kms.fences \subseteq {planes[crtc][q].fence}) => <<"unset", q>> \in Real
         /\ kms.fences # {} => <<"fence", 0>> \in Real
         /\ timeline = "held" => <<"held", 0>> \in Real
PROOF
<1>1. \A kind \in {"fb", "live", "dead", "unset"}, x \in Ours \cup {0} :
        /\ <<kind, x>> \in Marks(Ours) /\ <<kind, x>>[1] = kind /\ <<kind, x>>[2] = x
  BY DEF Marks
<1>2. \A kind \in {"fence", "held"} :
        /\ <<kind, 0>> \in Marks(Ours) /\ <<kind, 0>>[1] = kind /\ <<kind, 0>>[2] = 0
  BY DEF Marks
<1>3. \A kind \in {"fb", "live", "dead", "unset"}, x \in Ours \cup {0} :
        Holds(kind, x) => <<kind, x>> \in Real
  BY <1>1 DEF Real
<1>4. \A kind \in {"fence", "held"} : Holds(kind, 0) => <<kind, 0>> \in Real
  BY <1>2 DEF Real
<1>5. \A q \in Ours : planes[crtc][q].fb # 0 => <<"fb", q>> \in Real
  BY <1>3 DEF Holds
<1>6. \A x \in Ours \cup {0} : BlobOf(x) \in kms.blobs => <<"live", x>> \in Real
  BY <1>3 DEF Holds
<1>7. \A x \in Ours \cup {0} : BlobOf(x) \notin kms.blobs \cup {0} => <<"dead", x>> \in Real
  BY <1>3 DEF Holds
<1>8. \A q \in Ours : ~(kms.fences \subseteq {planes[crtc][q].fence}) => <<"unset", q>> \in Real
  BY <1>3 DEF Holds
<1>9. /\ kms.fences # {} => <<"fence", 0>> \in Real
      /\ timeline = "held" => <<"held", 0>> \in Real
  BY <1>4 DEF Holds
<1> QED BY <1>5, <1>6, <1>7, <1>8, <1>9

\* It is enough to look at each mark that the new state has.
LEMMA RealEffect ==
  ASSUME UNCHANGED job, NEW st,
         \A kind, x : /\ <<kind, x>> \in Marks(Ours) /\ Holds(kind, x)'
                      => \/ Holds(kind, x) /\ <<kind, x>> \notin Kills(Ours, st)
                         \/ <<kind, x>> \in Makes(Ours, st)
  PROVE  Real' \subseteq Effect(Ours, st, Real)
PROOF
<1>1. Ours' = Ours
  BY DEF job, crtc, Ours
<1>2. Marks(Ours)' = Marks(Ours)
  BY <1>1 DEF Marks
<1>3. SUFFICES ASSUME NEW mark \in Marks(Ours), Holds(mark[1], mark[2])'
               PROVE  mark \in Effect(Ours, st, Real)
  BY <1>2 DEF Real
<1>4. mark = <<mark[1], mark[2]>>
  BY DEF Marks
<1>5. PICK kind, x : kind = mark[1] /\ x = mark[2]
  OBVIOUS
<1>6. Holds(kind, x)'
  BY <1>3, <1>5
<1>7. \/ Holds(kind, x) /\ <<kind, x>> \notin Kills(Ours, st)
      \/ <<kind, x>> \in Makes(Ours, st)
  BY <1>4, <1>5, <1>6
<1>8. Holds(mark[1], mark[2]) => mark \in Real
  BY DEF Real
<1> QED BY <1>4, <1>5, <1>7, <1>8 DEF Effect

\* Only framebuffers, and blobs no longer there, are left.
LEMMA ReleasedIf ==
  ASSUME Data, todo # << >>, BlobsOfUses, Real \subseteq LeftOver(Ours)
  PROVE  Released
PROOF
<1>1. \A x : <<"live", x>> \notin LeftOver(Ours)
  BY DEF LeftOver, Fbs, Dead
<1>2. <<"fence", 0>> \notin LeftOver(Ours) /\ <<"held", 0>> \notin LeftOver(Ours)
  BY DEF LeftOver, Fbs, Dead
<1>3. \A x \in Ours \cup {0} : BlobOf(x) \notin kms.blobs
  BY <1>1, MarksSeen
<1>4. kms.blobs = {}
  BY <1>3 DEF BlobsOfUses
<1> QED BY <1>2, <1>4, MarksSeen DEF Released

\* A step of the case that is under way.
LEMMA TrackedAt ==
  ASSUME Inv, pc = "case", step <= Len(script)
  PROVE  /\ script \in Seq(StepType(Ours)) /\ Len(script) \in Nat
         /\ step \in 1 .. Len(script) /\ script[step] \in StepType(Ours)
         /\ Forbids(Ours, script[step]) \cap Real = {}
         /\ \A j, Y : j \in Targets(step, script[step]) /\ Y \subseteq Effect(Ours, script[step], Real)
                        => OnTrack(Ours, script, j, Y)
PROOF
<1>1. script \in Seq(StepType(Ours)) /\ step \in Nat \ {0}
  BY DEF Inv, Tracked
<1>2. Len(script) \in Nat
  BY <1>1
<1>3. NextStep = step
  BY DEF NextStep
<1>4. step # Len(script) + 1
  BY <1>1, <1>2
<1>5. OnTrack(Ours, script, step, Real)
  BY <1>3, <1>4 DEF Inv, Tracked
<1>6. step \in 1 .. Len(script) /\ script[step] \in StepType(Ours)
  BY <1>1, <1>2
<1> QED BY <1>1, <1>2, <1>4, <1>5, <1>6, TrackStep

\* The case goes on, or ends.
LEMMA CaseGoesOn ==
  ASSUME Inv, UNCHANGED job, todo # << >>, Data', moved' \in BOOLEAN, ret' \in {-1, 0, 1},
         \/ pc' \in {"case", "wait"} /\ Inside' /\ Tracked'
         \/ pc' = "cleanup" /\ UNCHANGED step /\ Leaving'
         \/ pc' = "killed" /\ UNCHANGED step
  PROVE  Inv'
PROOF
<1>1. todo' # << >>
  BY DEF job
<1>2. step' \in Nat
  BY DEF Inv, ControlOK, Tracked
<1>3. ControlOK'
  BY <1>2 DEF ControlOK
<1>4. CleanSlate'
  BY DEF CleanSlate
<1> QED BY <1>1, <1>3, <1>4 DEF Inv

LEMMA StepDone ==
  ASSUME Inv, pc = "case", step <= Len(script), UNCHANGED job,
         Data', moved' \in BOOLEAN, ret' \in {-1, 0, 1},
         Inside', Real' \subseteq Effect(Ours, script[step], Real),
         \/ pc' = "case" /\ step' \in Targets(step, script[step])
         \/ /\ pc' = "wait" /\ script[step].op # "again"
            /\ UNCHANGED step \/ (step' = Len(script) /\ ret' = -1)
         \/ pc' = "cleanup" /\ UNCHANGED step /\ ret' = -1
         \/ pc' = "killed" /\ UNCHANGED step
  PROVE  Inv'
PROOF
<1>1. todo # << >>
  BY DEF Inv
<1>2. script' = script /\ Ours' = Ours
  BY DEF job, crtc, Ours
<1>3. script' \in Seq(StepType(Ours))' /\ Len(script) \in Nat /\ step \in 1 .. Len(script)
  <2>1. StepType(Ours)' = StepType(Ours)
    BY <1>2 DEF StepType
  <2> QED BY <1>2, <2>1, TrackedAt
<1>4. \A j \in Targets(step, script[step]) :
         OnTrack(Ours, script, j, Real') /\ j \in Nat \ {0}
  <2>1. \A j \in Targets(step, script[step]) : OnTrack(Ours, script, j, Real')
    BY TrackedAt
  <2>2. \A j, X : OnTrack(Ours, script, j, X) => j \in Nat \ {0}
    BY DEF OnTrack
  <2> QED BY <2>1, <2>2
<1>5. CASE pc' = "case" /\ step' \in Targets(step, script[step])
  <2>1. Tracked'
    BY <1>2, <1>3, <1>4, <1>5 DEF Tracked, NextStep
  <2> QED BY <1>1, <1>5, <2>1, CaseGoesOn
<1>6. CASE pc' = "wait" /\ script[step].op # "again" /\ UNCHANGED step
  <2>1. step + 1 \in Targets(step, script[step])
    BY <1>6 DEF Targets
  <2>2. Tracked'
    BY <1>2, <1>3, <1>4, <1>6, <2>1 DEF Tracked, NextStep
  <2> QED BY <1>1, <1>6, <2>2, CaseGoesOn
<1>7. CASE pc' = "wait" /\ step' = Len(script) /\ ret' = -1
  <2>1. Tracked'
    BY <1>2, <1>3, <1>7 DEF Tracked, NextStep
  <2> QED BY <1>1, <1>7, <2>1, CaseGoesOn
<1>8. CASE pc' = "cleanup" /\ UNCHANGED step /\ ret' = -1
  <2>1. Leaving'
    BY <1>8 DEF Leaving, Inside
  <2> QED BY <1>1, <1>8, <2>1, CaseGoesOn
<1>9. CASE pc' = "killed" /\ UNCHANGED step
  BY <1>1, <1>9, CaseGoesOn
<1> QED BY <1>5, <1>6, <1>7, <1>8, <1>9

\* Steps that leave the program's copies and the ids alone.
LEMMA NothingTouched ==
  ASSUME Inv, todo # << >>, UNCHANGED <<job, request>>, kms' = kms \/ kms' = After(pset),
         timeline' = "held" => timeline = "held", OutsideOK'
  PROVE  /\ Data' /\ (Inside => Inside') /\ (Leaving /\ ret' = ret => Leaving')
         /\ Real' \subseteq Real
PROOF
<1>1. Data
  BY DEF Inv
<1>2. kms \in KernelType /\ pset \in RequestType
  BY <1>1 DEF Data, KernelOK, RequestOK
<1>3. /\ kms' \in KernelType
      /\ kms'.fbs = kms.fbs /\ kms'.blobs = kms.blobs /\ kms'.fences = kms.fences
  BY <1>2, AfterType
<1>4. Data'
  BY <1>1, <1>3 DEF Data, JobOK, job, CopiesOK, request, RequestOK, KernelOK
<1>5. planes' = planes /\ crtcs' = crtcs /\ pset' = pset /\ base' = base
      /\ crtc' = crtc /\ Ours' = Ours
  BY DEF request, job, crtc, Ours
<1>6. /\ FbsOfPlanes => FbsOfPlanes'
      /\ FbsShown => FbsShown'
      /\ BlobsOfUses => BlobsOfUses'
      /\ OneFence => OneFence'
      /\ Real' \subseteq Real
      /\ Released => Released'
  BY <1>1, <1>3, <1>5, Unmoved
<1>7. Agrees => Agrees'
  BY <1>5 DEF Agrees
<1>8. /\ OthersClear => OthersClear'
      /\ NamesNothing(base) => NamesNothing(base)'
  BY <1>5 DEF OthersClear, NamesNothing, Clear
<1>9. Inside => Inside'
  BY <1>6, <1>7, <1>8 DEF Inside
<1>10. Leaving /\ ret' = ret => Leaving'
  BY <1>6, <1>8 DEF Leaving
<1> QED BY <1>4, <1>6, <1>9, <1>10

\* Steps that end no mark and those that jump.
LEMMA Jumps ==
  ASSUME NEW P, NEW st \in StepType(P), NEW i \in Nat
  PROVE  /\ st.n \in Nat
         /\ st.op # "again" => {i + 1, i + 1 + st.n} = Targets(i, st)
         /\ st.op = "again" => {i + 1, i - st.n} = Targets(i, st)
         /\ st.op \notin {"disable", "create_blob", "destroy_blob", "in_fence", "join", "close"}
              => \A X : X \subseteq Effect(P, st, X)
PROOF
<1>1. st.n \in Nat
  BY DEF StepType
<1> QED BY <1>1 DEF Targets, Effect, Kills

LEMMA NeutralStep ==
  ASSUME Inv, pc = "case", step <= Len(script), UNCHANGED <<job, request>>,
         kms' = kms \/ kms' = After(pset), timeline' = "held" => timeline = "held", OutsideOK',
         moved' \in BOOLEAN, ret' \in {-1, 0, 1},
         \/ script[step].op \notin {"disable", "create_blob", "destroy_blob", "in_fence", "join",
                                    "close"}
         \/ script[step].op = "join" /\ timeline # "held",
         \/ pc' = "case" /\ step' \in Targets(step, script[step])
         \/ /\ pc' = "wait" /\ script[step].op # "again"
            /\ UNCHANGED step \/ (step' = Len(script) /\ ret' = -1)
         \/ pc' = "cleanup" /\ UNCHANGED step /\ ret' = -1
         \/ pc' = "killed" /\ UNCHANGED step
  PROVE  Inv'
PROOF
<1>1. todo # << >> /\ Inside
  BY DEF Inv
<1>2. Data' /\ Inside' /\ Real' \subseteq Real
  BY <1>1, NothingTouched
<1>3. script[step] \in StepType(Ours) /\ step \in Nat
  BY TrackedAt
<1>4. Real \subseteq Effect(Ours, script[step], Real)
  <2>1. CASE script[step].op = "join" /\ timeline # "held"
    <3>1. <<"held", 0>> \notin Real
      BY <2>1 DEF Real, Holds
    <3>2. Kills(Ours, script[step]) \subseteq {<<"held", 0>>}
      BY <2>1 DEF Kills
    <3> QED BY <3>1, <3>2 DEF Effect
  <2>2. CASE script[step].op \notin {"disable", "create_blob", "destroy_blob", "in_fence", "join",
                                     "close"}
    BY <1>3, <2>2, Jumps
  <2> QED BY <2>1, <2>2
<1>5. UNCHANGED job
  OBVIOUS
<1> QED BY <1>2, <1>4, <1>5, StepDone

\* The program goes on, passes over, or fails.
LEMMA Moves ==
  ASSUME Inv, pc = "case", step <= Len(script), script[step].op # "again"
  PROVE  /\ Continue => pc' = "case" /\ step' \in Targets(step, script[step]) /\ ret' = ret
         /\ PassOver => pc' = "case" /\ step' \in Targets(step, script[step]) /\ ret' = ret
         /\ Fail => \/ pc' = "cleanup" /\ UNCHANGED step /\ ret' = -1
                    \/ pc' = "case" /\ step' \in Targets(step, script[step]) /\ ret' = ret
         /\ ret \in {-1, 0, 1} /\ moved \in BOOLEAN /\ OutsideOK
PROOF
<1>1. /\ step + 1 \in Targets(step, script[step])
      /\ step + 1 + script[step].n \in Targets(step, script[step])
  <2>1. script[step] \in StepType(Ours) /\ step \in Nat
    BY TrackedAt
  <2> QED BY <2>1, Jumps
<1>2. ret \in {-1, 0, 1} /\ moved \in BOOLEAN /\ OutsideOK
  BY DEF Inv, ControlOK, Data
<1> QED BY <1>1, <1>2 DEF Continue, PassOver, Fail, Return, skip

LEMMA SimpleSteps ==
  ASSUME Inv, DrawToPlane \/ Again \/ Join \/ Unsupported \/ CheckOutFence
  PROVE  Inv'
PROOF
<1>1. pc = "case" /\ step <= Len(script) /\ UNCHANGED <<job, request>>
      /\ kms' = kms /\ timeline' = timeline /\ event' = event /\ out_fence_fd' = out_fence_fd
  BY DEF DrawToPlane, Again, Join, Unsupported, CheckOutFence, At, outside
<1>2. OutsideOK'
  BY <1>1 DEF Inv, Data, OutsideOK
<1>3. ret \in {-1, 0, 1} /\ moved \in BOOLEAN
  BY DEF Inv, ControlOK
<1>4. CASE DrawToPlane
  <2>1. script[step].op = "draw" /\ moved' = moved
    BY <1>4 DEF DrawToPlane, At
  <2>2. Continue \/ Fail \/ (pc' = "killed" /\ UNCHANGED <<step, ret>>)
    BY <1>4 DEF DrawToPlane
  <2> QED BY <1>1, <1>2, <1>3, <2>1, <2>2, Moves, NeutralStep
<1>5. CASE Again
  <2>1. script[step].op = "again" /\ moved' = FALSE
    BY <1>5 DEF Again, At
  <2>2. pc' = "case" /\ ret' = ret /\ step' \in {step + 1, step - script[step].n}
    BY <1>5 DEF Again, Continue, skip
  <2>3. script[step] \in StepType(Ours) /\ step \in Nat
    BY <1>1, TrackedAt
  <2>4. step' \in Targets(step, script[step])
    BY <2>1, <2>2, <2>3, Jumps
  <2> QED BY <1>1, <1>2, <1>3, <2>1, <2>2, <2>4, NeutralStep
<1>6. CASE Join
  <2>1. script[step].op = "join" /\ moved' = moved /\ timeline # "held" /\ Continue
    BY <1>6 DEF Join, At
  <2> QED BY <1>1, <1>2, <1>3, <2>1, Moves, NeutralStep
<1>7. CASE Unsupported
  <2>1. script[step].op = "unsupported" /\ moved' = moved /\ (Continue \/ PassOver)
    BY <1>7 DEF Unsupported, At
  <2> QED BY <1>1, <1>2, <1>3, <2>1, Moves, NeutralStep
<1>8. CASE CheckOutFence
  <2>1. script[step].op = "check_out_fence" /\ moved' = moved
    BY <1>8 DEF CheckOutFence, At
  <2>2. Continue \/ (pc' = "cleanup" /\ UNCHANGED step /\ ret' = -1)
    BY <1>8 DEF CheckOutFence, Return
  <2> QED BY <1>1, <1>2, <1>3, <2>1, <2>2, Moves, NeutralStep
<1> QED BY <1>4, <1>5, <1>6, <1>7, <1>8

\* The case is over.
LEMMA CaseEnds ==
  ASSUME Inv, UNCHANGED <<job, moved, request, kms, outside>>, pc = "case", Return(ret),
         \/ step > Len(script)
         \/ step <= Len(script) /\ script[step].op = "return"
  PROVE  Inv'
PROOF
<1>1. todo # << >> /\ Inside /\ Tracked /\ Data
  BY DEF Inv
<1>2. OutsideOK' /\ timeline' = timeline
  BY DEF Inv, Data, OutsideOK, outside
<1>3. Data' /\ Real' \subseteq Real
  BY <1>1, <1>2, NothingTouched
<1>4. ret = -1 \/ Real \subseteq LeftOver(Ours)
  <2>1. CASE step > Len(script)
    <3>1. NextStep = step
      BY DEF NextStep
    <3>2. step = Len(script) + 1
      <4>1. script \in Seq(StepType(Ours)) /\ step \in Nat
        BY <1>1 DEF Tracked
      <4>2. Len(script) \in Nat
        BY <4>1
      <4>3. step \in 1 .. Len(script) + 1
        BY <1>1, <3>1, <4>2 DEF Tracked, OnTrack
      <4> QED BY <2>1, <4>1, <4>2, <4>3
    <3> QED BY <1>1, <3>1, <3>2, TrackFewer DEF Tracked
  <2>2. CASE step <= Len(script) /\ script[step].op = "return"
    <3>1. Forbids(Ours, script[step]) \cap Real = {} /\ Real \subseteq Marks(Ours)
      BY <2>2, TrackedAt DEF Real
    <3>2. \A mark \in Marks(Ours) : mark \in LeftOver(Ours) \/ mark \in Forbids(Ours, script[step])
      BY <2>2 DEF LeftOver, Forbids
    <3> QED BY <3>1, <3>2
  <2> QED BY <2>1, <2>2
<1>5. ret = -1 \/ Released
  BY <1>1, <1>4, ReleasedIf DEF Inside
<1>6. Leaving /\ ret' = ret
  BY <1>1, <1>5 DEF Leaving, Inside, Return
<1>7. Leaving'
  BY <1>1, <1>2, <1>6, NothingTouched
<1>8. moved' \in BOOLEAN /\ ret' \in {-1, 0, 1} /\ pc' = "cleanup" /\ UNCHANGED step
  BY DEF Inv, ControlOK, Return
<1> QED BY <1>1, <1>3, <1>7, <1>8, CaseGoesOn

LEMMA ResultSteps ==
  ASSUME Inv, DropResult \/ EndOfCase
  PROVE  Inv'
PROOF
<1>1. pc = "case" /\ UNCHANGED <<job, moved, request, kms, outside>>
  BY DEF DropResult, EndOfCase, At
<1>2. OutsideOK' /\ timeline' = timeline
  BY <1>1 DEF Inv, Data, OutsideOK, outside
<1>3. ret \in {-1, 0, 1} /\ moved \in BOOLEAN
  BY DEF Inv, ControlOK
<1>4. CASE At("drop_result") /\ IF ret = -1 THEN Continue
                                ELSE ret' = 0 /\ step' = step + 1 + skip /\ UNCHANGED pc
  <2>1. step <= Len(script) /\ script[step].op = "drop_result"
    BY <1>4 DEF At
  <2>2. pc' = "case" /\ ret' \in {-1, 0} /\ step' \in {step + 1, step + 1 + script[step].n}
    BY <1>1, <1>4 DEF Continue, skip
  <2>3. script[step] \in StepType(Ours) /\ step \in Nat
    BY <1>1, <2>1, TrackedAt
  <2>4. step' \in Targets(step, script[step])
    BY <2>1, <2>2, <2>3, Jumps
  <2> QED BY <1>1, <1>2, <1>3, <2>1, <2>2, <2>4, NeutralStep
<1>5. CASE At("failed") /\ ret' = -1 /\ step' = step + 1 /\ UNCHANGED pc
  <2>1. step <= Len(script) /\ script[step].op = "failed" /\ pc' = "case"
    BY <1>1, <1>5 DEF At
  <2>2. script[step] \in StepType(Ours) /\ step \in Nat
    BY <1>1, <2>1, TrackedAt
  <2>3. step' \in Targets(step, script[step])
    BY <1>5, <2>1, <2>2, Jumps
  <2> QED BY <1>1, <1>2, <1>3, <1>5, <2>1, <2>3, NeutralStep
<1>6. CASE At("return") /\ Return(ret)
  BY <1>1, <1>6, CaseEnds DEF At
<1>7. CASE EndOfCase
  BY <1>1, <1>7, CaseEnds DEF EndOfCase
<1> QED BY <1>4, <1>5, <1>6, <1>7 DEF DropResult

\* A commit changes what is shown, not what there is.
LEMMA Committed ==
  ASSUME Inv, CommitPset
  PROVE  kms' = After(pset) /\ timeline' = timeline /\ OutsideOK'
PROOF
<1>1. timeline' = timeline /\ event' = "queued" /\ kms' = After(pset)
  BY DEF CommitPset
<1>2. out_fence_fd' \in BOOLEAN
  BY DEF CommitPset
<1> QED BY <1>1, <1>2 DEF OutsideOK, Inv, Data

LEMMA CommitSteps ==
  ASSUME Inv, TestAndCommit \/ CommitIfPossible
  PROVE  Inv'
PROOF
<1>1. pc = "case" /\ step <= Len(script) /\ UNCHANGED <<job, moved, request>>
      /\ script[step].op \in {"test_and_commit", "commit_if_possible"}
  BY DEF TestAndCommit, CommitIfPossible, At
<1>2. ret \in {-1, 0, 1} /\ moved \in BOOLEAN
  BY DEF Inv, ControlOK
<1>3. kms' = kms \/ kms' = After(pset)
  BY DEF TestAndCommit, CommitIfPossible, CommitPset
<1>4. timeline' = timeline /\ OutsideOK'
  <2>1. CASE UNCHANGED outside
    BY <2>1 DEF outside, OutsideOK, Inv, Data
  <2>2. CASE CommitPset
    BY <2>2, Committed
  <2> QED BY <2>1, <2>2 DEF TestAndCommit, CommitIfPossible
<1>5. script[step] \in StepType(Ours) /\ step \in Nat
  BY <1>1, TrackedAt
<1>6. ret' \in {-1, 0, 1}
  BY <1>2 DEF TestAndCommit, CommitIfPossible, CalledAgain, Or, PassOver, Return
<1>7. step + 1 \in Targets(step, script[step])
  BY <1>1, <1>5, Jumps
<1>8. \/ pc' = "case" /\ step' \in Targets(step, script[step])
      \/ pc' = "wait" /\ (UNCHANGED step \/ (step' = Len(script) /\ ret' = -1))
      \/ pc' = "cleanup" /\ UNCHANGED step /\ ret' = -1
  <2>1. CASE TestAndCommit
    BY <1>1, <1>7, <2>1 DEF TestAndCommit
  <2>2. CASE CommitIfPossible
    BY <1>1, <2>2, Moves DEF CommitIfPossible, CalledAgain, Return
  <2> QED BY <2>1, <2>2
<1> QED BY <1>1, <1>2, <1>3, <1>4, <1>6, <1>8, NeutralStep

\* The marks become fewer while the program stands where it is, or a commit ends.
LEMMA TrackedOn ==
  ASSUME Inv, Tracked, UNCHANGED <<job, ret>>, Real' \subseteq Real,
         NextStep' = NextStep, step' \in Nat \ {0}
  PROVE  Tracked'
PROOF
<1>1. script' = script /\ Ours' = Ours
  BY DEF job, crtc, Ours
<1>2. script' \in Seq(StepType(Ours))'
  <2>1. StepType(Ours)' = StepType(Ours)
    BY <1>1 DEF StepType
  <2> QED BY <1>1, <2>1 DEF Tracked
<1>3. OnTrack(Ours, script, NextStep, Real) => OnTrack(Ours, script, NextStep, Real')
  BY TrackFewer
<1> QED BY <1>1, <1>2, <1>3 DEF Tracked

LEMMA OutsideStep ==
  ASSUME Inv, UNCHANGED <<job, pc, step, ret, moved, request, kms>>, OutsideOK',
         timeline' = "held" => timeline = "held"
  PROVE  Inv'
PROOF
<1>1. Data
  BY DEF Inv
<1>2. Data'
  BY <1>1 DEF Data, JobOK, job, CopiesOK, request, RequestOK, KernelOK
<1>3. ControlOK'
  BY DEF Inv, ControlOK
<1>4. CleanSlate'
  <2>1. machine' = machine /\ kms' = kms /\ crtcs' = crtcs /\ planes' = planes /\ pc' = pc
    BY DEF job, request
  <2>2. CleanSlate
    BY DEF Inv
  <2> QED BY <2>1, <2>2 DEF CleanSlate, KmsInit, Outputs, Other
<1>5. ASSUME todo # << >>
      PROVE  /\ todo' # << >> /\ (Inside => Inside') /\ (Leaving => Leaving')
             /\ Real' \subseteq Real
  BY <1>5, NothingTouched DEF job
<1>6. ASSUME pc \in {"case", "wait"} PROVE todo' # << >> /\ Inside' /\ Tracked'
  <2>1. todo # << >> /\ Inside /\ Tracked
    BY <1>6 DEF Inv
  <2>2. NextStep' = NextStep /\ step' \in Nat \ {0}
    BY <2>1 DEF NextStep, Tracked
  <2>3. UNCHANGED <<job, ret>>
    OBVIOUS
  <2> QED BY <1>5, <2>1, <2>2, <2>3, TrackedOn
<1>7. ASSUME pc = "cleanup" PROVE todo' # << >> /\ Leaving'
  BY <1>5, <1>7 DEF Inv
<1>8. ASSUME pc \in {"last_commit", "last_wait", "disable"} PROVE todo' # << >> /\ Over'
  <2>1. todo # << >> /\ Over
    BY <1>8 DEF Inv
  <2>2. crtc' = crtc /\ Ours' = Ours /\ crtcs' = crtcs /\ planes' = planes /\ pset' = pset
        /\ base' = base
    BY DEF job, request, crtc, Ours
  <2>3. OthersClear' /\ NamesNothing(base)'
    BY <2>1, <2>2 DEF Over, OthersClear, NamesNothing, Clear
  <2>4. Released => Released'
    BY DEF Released
  <2> QED BY <1>5, <2>1, <2>2, <2>3, <2>4 DEF Over, Clear
<1> QED BY <1>2, <1>3, <1>4, <1>6, <1>7, <1>8 DEF Inv

LEMMA OutsideSteps ==
  ASSUME Inv, PageFlip \/ IncTimeline
  PROVE  Inv'
PROOF
<1>1. OutsideOK
  BY DEF Inv, Data
<1>2. OutsideOK' /\ (timeline' = "held" => timeline = "held")
  BY <1>1 DEF OutsideOK, PageFlip, IncTimeline
<1>3. UNCHANGED <<job, pc, step, ret, moved, request, kms>>
  BY DEF PageFlip, IncTimeline
<1> QED BY <1>2, <1>3, OutsideStep

LEMMA EventStep ==
  ASSUME Inv, HandleEvent
  PROVE  Inv'
PROOF
<1>1. /\ UNCHANGED <<job, moved, request, kms, timeline, out_fence_fd>>
      /\ event' = "none" /\ pc \in {"wait", "last_wait"}
  BY DEF HandleEvent, ReadEvent
<1>2. OutsideOK'
  BY <1>1 DEF Inv, Data, OutsideOK
<1>3. todo # << >>
  BY <1>1 DEF Inv
<1>4. Data' /\ (Inside => Inside') /\ Real' \subseteq Real
  BY <1>1, <1>2, <1>3, NothingTouched
<1>5. CASE pc = "wait"
  <2>1. pc' = "case" /\ step' = step + 1 /\ ret' = ret
    BY <1>5 DEF HandleEvent, Continue
  <2>2. Inside /\ Tracked
    BY <1>5 DEF Inv
  <2>3. NextStep' = NextStep /\ step' \in Nat \ {0}
    BY <1>5, <2>1, <2>2 DEF NextStep, Tracked
  <2>4. UNCHANGED <<job, ret>>
    BY <1>1, <2>1
  <2>5. Tracked'
    BY <1>4, <2>2, <2>3, <2>4, TrackedOn
  <2>6. moved' \in BOOLEAN /\ ret' \in {-1, 0, 1}
    BY <1>1, <2>1 DEF Inv, ControlOK
  <2> QED BY <1>1, <1>3, <1>4, <2>1, <2>2, <2>5, <2>6, CaseGoesOn
<1>6. CASE pc = "last_wait"
  <2>1. pc' = (IF ret = -1 THEN "out" ELSE "disable") /\ UNCHANGED <<step, ret>>
    BY <1>6 DEF HandleEvent
  <2>2. Over
    BY <1>6 DEF Inv
  <2>3. crtc' = crtc /\ Ours' = Ours /\ crtcs' = crtcs /\ planes' = planes /\ pset' = pset
        /\ base' = base /\ todo' = todo
    BY <1>1 DEF job, request, crtc, Ours
  <2>4. OthersClear' /\ NamesNothing(base)'
    BY <2>2, <2>3 DEF Over, OthersClear, NamesNothing, Clear
  <2>5. Released => Released'
    BY <1>1 DEF Released
  <2>6. Over'
    BY <1>1, <2>1, <2>2, <2>3, <2>4, <2>5 DEF Over, Clear
  <2>7. ControlOK'
    BY <1>1, <2>1 DEF Inv, ControlOK
  <2>8. CleanSlate'
    BY <2>1 DEF CleanSlate
  <2> QED BY <1>3, <1>4, <2>1, <2>3, <2>6, <2>7, <2>8 DEF Inv
<1> QED BY <1>1, <1>5, <1>6

\* A plane is changed, and its properties added to the request.
LEMMA SettingPlane ==
  ASSUME Data, todo # << >>, UNCHANGED job, plane_id \in Ours, NEW changed \in PlaneFields,
         SetPlane(changed)
  PROVE  /\ CopiesOK' /\ RequestOK'
         /\ OthersClear => OthersClear'
         /\ NamesNothing(base) => NamesNothing(base)'
         /\ Agrees => Agrees'
         /\ planes'[crtc][plane_id] = changed
         /\ \A q \in Planes \ {plane_id} : planes'[crtc][q] = planes[crtc][q]
         /\ crtcs' = crtcs
PROOF
<1>1. /\ planes' = [planes EXCEPT ![crtc][plane_id] = changed]
      /\ pset' = set_plane_props(pset, plane_id, changed)
      /\ crtcs' = crtcs /\ connectors' = connectors /\ base' = base
  BY DEF SetPlane
<1>2. crtc' = crtc /\ Ours' = Ours
  BY DEF job, crtc, Ours
<1>3. crtc \in Crtcs /\ Ours \subseteq Planes
  BY CurrentFacts
<1>4. /\ planes' \in [Crtcs -> [Planes -> PlaneFields]]
      /\ planes'[crtc][plane_id] = changed
      /\ \A q \in Planes \ {plane_id} : planes'[crtc][q] = planes[crtc][q]
  BY <1>1, OnePlane
<1>5. pset \in RequestType
  BY DEF Data, RequestOK
<1>6. /\ pset' \in RequestType
      /\ pset'.plane[plane_id] = changed
      /\ \A q \in Planes \ {plane_id} : pset'.plane[q] = pset.plane[q]
      /\ pset'.crtc = pset.crtc
  BY <1>1, <1>3, <1>5, SetPlaneProps
<1>7. CopiesOK' /\ RequestOK'
  BY <1>1, <1>4, <1>6 DEF Data, CopiesOK, RequestOK
<1>8. OthersClear => OthersClear'
  <2>1. crtcs[crtc] \in CrtcFields
    BY CurrentFacts
  <2> QED BY <1>1, <2>1, OthersStay
<1>9. NamesNothing(base) => NamesNothing(base)'
  BY <1>1 DEF NamesNothing
<1>10. Agrees => Agrees'
  BY <1>1, <1>2, <1>4, <1>6 DEF Agrees
<1> QED BY <1>1, <1>4, <1>7, <1>8, <1>9, <1>10

LEMMA PlaneTouched ==
  ASSUME Inv, pc = "case", step <= Len(script), UNCHANGED <<job, kms, outside>>,
         plane_id \in Ours, NEW changed \in PlaneFields, SetPlane(changed),
         changed.fb = plane.fb, changed.ctm = plane.ctm, changed.fence = plane.fence,
         moved' \in BOOLEAN, Continue,
         script[step].op \notin {"disable", "create_blob", "destroy_blob", "in_fence", "join",
                                 "close", "again"}
  PROVE  Inv'
PROOF
<1>1. Data /\ todo # << >> /\ Inside
  BY DEF Inv
<1>2. /\ CopiesOK' /\ RequestOK'
      /\ OthersClear' /\ NamesNothing(base)' /\ Agrees'
      /\ planes'[crtc][plane_id] = changed
      /\ \A q \in Planes \ {plane_id} : planes'[crtc][q] = planes[crtc][q]
      /\ crtcs' = crtcs
  BY <1>1, SettingPlane DEF Inside
<1>3. Data'
  BY <1>1, <1>2 DEF Data, JobOK, job, KernelOK, OutsideOK, outside
<1>4. \A q \in Ours : /\ planes'[crtc][q].fb = planes[crtc][q].fb
                      /\ planes'[crtc][q].ctm = planes[crtc][q].ctm
                      /\ planes'[crtc][q].fence = planes[crtc][q].fence
  <2>1. Ours \subseteq Planes
    BY <1>1, CurrentFacts
  <2> QED BY <1>2, <2>1 DEF plane
<1>5. timeline' = timeline
  BY DEF outside
<1>6. FbsOfPlanes' /\ FbsShown' /\ BlobsOfUses' /\ OneFence' /\ Real' \subseteq Real
  BY <1>1, <1>2, <1>4, <1>5, Unmoved DEF Inside
<1>7. Inside'
  BY <1>2, <1>6 DEF Inside
<1>8. script[step] \in StepType(Ours) /\ step \in Nat
  BY TrackedAt
<1>9. Real' \subseteq Effect(Ours, script[step], Real)
  BY <1>6, <1>8, Jumps
<1>10. pc' = "case" /\ step' \in Targets(step, script[step]) /\ ret' \in {-1, 0, 1}
  BY Moves
<1>11. UNCHANGED job
  OBVIOUS
<1> QED BY <1>3, <1>7, <1>9, <1>10, <1>11, StepDone

LEMMA PlaneSteps ==
  ASSUME Inv, SetProps \/ MovePlane \/ ScalePlane
  PROVE  Inv'
PROOF
<1>1. pc = "case" /\ step <= Len(script) /\ UNCHANGED <<job, kms, outside>>
      /\ script[step].op \in {"set_props", "detach", "attach", "move", "scale"}
  BY DEF SetProps, MovePlane, ScalePlane, At
<1>2. Data /\ todo # << >> /\ moved \in BOOLEAN
  BY <1>1 DEF Inv, ControlOK
<1>3. script[step] \in StepType(Ours)
  BY <1>1, TrackedAt
<1>4. plane_id \in Ours
  BY <1>1, <1>3 DEF StepType, PlaneOps, BlobOps, OtherOps, plane_id
<1>5. plane \in PlaneFields /\ crtc \in Crtcs
  BY <1>2, <1>4, CurrentFacts DEF plane
<1>6. OutsideOK' /\ timeline' = timeline
  BY <1>1, <1>2 DEF Data, OutsideOK, outside
<1>7. CASE SetProps
  <2>1. moved' = moved /\ Continue
    BY <1>7 DEF SetProps
  <2>2. ASSUME NEW c \in Crtcs \cup {0}, NEW changed, changed = [plane EXCEPT !.crtc = c]
        PROVE  /\ changed \in PlaneFields /\ changed.fb = plane.fb
               /\ changed.ctm = plane.ctm /\ changed.fence = plane.fence
    <3>1. changed \in PlaneFields
      BY <1>5, <2>2, PlaneFieldsOf
    <3> QED BY <1>5, <2>2, <3>1 DEF PlaneFields
  <2>3. CASE SetPlane(plane)
    BY <1>1, <1>2, <1>4, <1>5, <2>1, <2>3, PlaneTouched
  <2>4. CASE SetPlane([plane EXCEPT !.crtc = 0])
    <3>1. PICK changed : changed = [plane EXCEPT !.crtc = 0]
      OBVIOUS
    <3>2. SetPlane(changed)
      BY <2>4, <3>1
    <3> QED BY <1>1, <1>2, <1>4, <2>1, <2>2, <3>1, <3>2, PlaneTouched
  <2>5. CASE SetPlane([plane EXCEPT !.crtc = crtc])
    <3>1. PICK changed : changed = [plane EXCEPT !.crtc = crtc]
      OBVIOUS
    <3>2. SetPlane(changed)
      BY <2>5, <3>1
    <3> QED BY <1>1, <1>2, <1>4, <1>5, <2>1, <2>2, <3>1, <3>2, PlaneTouched
  <2> QED BY <1>7, <2>3, <2>4, <2>5 DEF SetProps
<1>8. ASSUME NEW at \in Place, SetPlane([plane EXCEPT !.place = at]), Continue, moved' = TRUE
      PROVE  Inv'
  <2>1. PICK changed : changed = [plane EXCEPT !.place = at]
    OBVIOUS
  <2>2. changed \in PlaneFields
    BY <1>5, <2>1, PlaneFieldsOf
  <2>3. changed.fb = plane.fb /\ changed.ctm = plane.ctm /\ changed.fence = plane.fence
    BY <1>5, <2>1 DEF PlaneFields
  <2>4. SetPlane(changed) /\ moved' \in BOOLEAN
    BY <1>8, <2>1
  <2> QED BY <1>1, <1>4, <1>8, <2>2, <2>3, <2>4, PlaneTouched
<1>9. ASSUME PassOver, UNCHANGED <<request, moved>>
      PROVE  Inv'
  <2>1. pc' = "case" /\ step' \in Targets(step, script[step]) /\ ret' \in {-1, 0, 1}
    BY <1>1, <1>9, Moves
  <2> QED BY <1>1, <1>2, <1>6, <1>9, <2>1, NeutralStep
<1>10. CASE MovePlane
  <2>1. CASE script[step].op = "move"
    <3>1. place \in Place /\ argument \in [dx : Nat, dy : Nat]
      BY <1>3, <1>5, <2>1, PlaneFieldsOf DEF StepType, PlaneOps, BlobOps, OtherOps, argument, place
    <3>2. Moved(place, argument) \in Place
      BY <3>1, PlacesMoved
    <3>3. [plane EXCEPT !.place = Moved(@, argument)] = [plane EXCEPT !.place = Moved(place, argument)]
      BY <1>5 DEF place, PlaneFields
    <3> QED BY <1>8, <1>9, <1>10, <3>2, <3>3 DEF MovePlane
  <2> QED BY <1>10, <2>1 DEF MovePlane, At
<1>11. CASE ScalePlane
  <2>1. CASE script[step].op = "scale"
    <3>1. place \in Place /\ argument \in Nat
      BY <1>3, <1>5, <2>1, PlaneFieldsOf DEF StepType, PlaneOps, BlobOps, OtherOps, argument, place
    <3>2. Resized(place, argument) \in Place
      BY <3>1, PlacesMoved
    <3>3. [plane EXCEPT !.place = Resized(@, argument)] = [plane EXCEPT !.place = Resized(place, argument)]
      BY <1>5 DEF place, PlaneFields
    <3> QED BY <1>8, <1>9, <1>11, <3>2, <3>3 DEF ScalePlane
  <2> QED BY <1>11, <2>1 DEF ScalePlane, At
<1> QED BY <1>7, <1>10, <1>11

\* A plane gets another framebuffer, or none.
LEMMA FbChanged ==
  ASSUME Data, todo # << >>, Inside, UNCHANGED job, NEW p \in Ours, NEW fb \in Nat,
         kms'.fbs = (kms.fbs \ {planes[crtc][p].fb}) \cup ({fb} \ {0}),
         fb \notin kms.fbs \ {planes[crtc][p].fb},
         planes'[crtc][p].fb = fb,
         \A q \in Planes \ {p} : planes'[crtc][q] = planes[crtc][q]
  PROVE  FbsOfPlanes' /\ FbsShown'
PROOF
<1>1. crtc' = crtc /\ Ours' = Ours
  BY DEF job, crtc, Ours
<1>2. Ours \subseteq Planes
  BY CurrentFacts
<1>3. \A q \in Ours \ {p} : /\ planes'[crtc][q].fb = planes[crtc][q].fb
                            /\ planes[crtc][q].fb \in (kms.fbs \ {planes[crtc][p].fb}) \cup {0}
  BY <1>2 DEF Inside, FbsOfPlanes
<1>4. \A q \in Ours : planes'[crtc][q].fb \in kms'.fbs \cup {0}
  BY <1>3
<1>5. \A q, r \in Ours : planes'[crtc][q].fb = planes'[crtc][r].fb
                           => q = r \/ planes'[crtc][q].fb = 0
  <2> SUFFICES ASSUME NEW q \in Ours, NEW r \in Ours, q # r,
                      planes'[crtc][q].fb = planes'[crtc][r].fb
               PROVE  planes'[crtc][q].fb = 0
    OBVIOUS
  <2>1. CASE q # p /\ r # p
    BY <1>3, <2>1 DEF Inside, FbsOfPlanes
  <2>2. CASE q = p \/ r = p
    BY <1>3, <2>2
  <2> QED BY <2>1, <2>2
<1>6. FbsOfPlanes'
  BY <1>1, <1>4, <1>5 DEF FbsOfPlanes
<1>7. FbsShown'
  <2> SUFFICES ASSUME NEW f \in kms'.fbs PROVE \E q \in Ours : planes'[crtc][q].fb = f
    BY <1>1 DEF FbsShown
  <2>1. CASE f = fb
    BY <2>1
  <2>2. CASE f # fb
    <3>1. PICK q \in Ours : planes[crtc][q].fb = f
      BY <2>2 DEF Inside, FbsShown
    <3>2. q # p
      BY <2>2, <3>1
    <3> QED BY <1>3, <3>1, <3>2
  <2> QED BY <2>1, <2>2
<1> QED BY <1>6, <1>7

\* remove_plane_fb.
LEMMA Freed ==
  ASSUME Data, todo # << >>, NEW p \in Ours
  PROVE  /\ remove_plane_fb(kms, planes[crtc][p]) \in KernelType
         /\ remove_plane_fb(kms, planes[crtc][p]).fbs = kms.fbs \ {planes[crtc][p].fb}
         /\ remove_plane_fb(kms, planes[crtc][p]).blobs = kms.blobs
         /\ remove_plane_fb(kms, planes[crtc][p]).fences = kms.fences
         /\ IsFiniteSet(kms.fbs \ {planes[crtc][p].fb})
PROOF
<1>1. kms \in KernelType /\ 0 \notin kms.fbs /\ IsFiniteSet(kms.fbs)
  BY DEF Data, KernelOK
<1>2. kms.fbs \ ({planes[crtc][p].fb} \ {0}) = kms.fbs \ {planes[crtc][p].fb}
  BY <1>1
<1>3. IsFiniteSet(kms.fbs \ {planes[crtc][p].fb})
  BY <1>1, FS_Subset
<1> QED BY <1>1, <1>2, <1>3, RmFBType DEF remove_plane_fb

\* What a plane's blob and fence are, and the CRTC's blob, is as it was.
LEMMA BlobsStay ==
  ASSUME Data, todo # << >>, UNCHANGED job, NEW p \in Ours,
         planes'[crtc][p].ctm = planes[crtc][p].ctm,
         \A q \in Planes \ {p} : planes'[crtc][q] = planes[crtc][q],
         crtcs' = crtcs, kms'.blobs = kms.blobs, kms'.fences = kms.fences
  PROVE  /\ \A x \in Ours \cup {0} : BlobOf(x)' = BlobOf(x)
         /\ BlobsOfUses => BlobsOfUses'
         /\ OneFence => OneFence'
PROOF
<1>1. crtc' = crtc /\ Ours' = Ours
  BY DEF job, crtc, Ours
<1>2. Ours \subseteq Planes /\ 0 \notin Ours
  BY CurrentFacts
<1>3. \A x \in Ours \cup {0} : BlobOf(x)' = BlobOf(x)
  BY <1>1, <1>2 DEF BlobOf
<1> QED BY <1>1, <1>3 DEF BlobsOfUses, OneFence

\* init_plane, where it makes a framebuffer and where it fails half way.
LEMMA InitMarks ==
  ASSUME Inv, pc = "case", step <= Len(script), script[step].op = "init", UNCHANGED job,
         plane_id \in Ours,
         planes'[crtc][plane_id].ctm = plane.ctm, planes'[crtc][plane_id].fence = plane.fence,
         \A q \in Planes \ {plane_id} : planes'[crtc][q] = planes[crtc][q],
         crtcs' = crtcs, kms'.blobs = kms.blobs, kms'.fences = kms.fences, timeline' = timeline
  PROVE  Real' \subseteq Effect(Ours, script[step], Real)
PROOF
<1>1. Data /\ todo # << >>
  BY DEF Inv
<1>2. crtc' = crtc /\ Ours' = Ours
  BY DEF job, crtc, Ours
<1>3. \A x \in Ours \cup {0} : BlobOf(x)' = BlobOf(x)
  BY <1>1, BlobsStay DEF plane
<1>4. Ours \subseteq Planes
  BY <1>1, CurrentFacts
<1>5. ASSUME NEW kind, NEW x, <<kind, x>> \in Marks(Ours), Holds(kind, x)'
      PROVE  \/ Holds(kind, x) /\ <<kind, x>> \notin Kills(Ours, script[step])
             \/ <<kind, x>> \in Makes(Ours, script[step])
  <2>1. Kills(Ours, script[step]) = {}
    BY DEF Kills
  <2>2. CASE kind = "fb" /\ x = plane_id
    BY <1>5, <2>2 DEF Makes, plane_id
  <2>3. CASE kind = "fb" /\ x # plane_id
    <3>1. x \in Ours /\ planes'[crtc][x].fb # 0
      BY <1>2, <1>5, <2>3 DEF Holds
    <3> QED BY <1>4, <2>1, <2>3, <3>1 DEF Holds
  <2>4. CASE kind \in {"live", "dead"}
    <3>1. x \in Ours \cup {0}
      BY <1>5, <2>4 DEF Marks
    <3>2. BlobOf(x)' = BlobOf(x)
      BY <1>3, <3>1
    <3> QED BY <1>5, <2>1, <2>4, <3>2 DEF Holds
  <2>5. CASE kind = "unset"
    <3>1. x \in Ours /\ ~(kms.fences \subseteq {planes'[crtc][x].fence})
      BY <1>2, <1>5, <2>5 DEF Holds
    <3>2. planes'[crtc][x].fence = planes[crtc][x].fence
      BY <1>4, <3>1 DEF plane
    <3> QED BY <2>1, <2>5, <3>1, <3>2 DEF Holds
  <2>6. CASE kind \in {"fence", "held"}
    BY <1>5, <2>1, <2>6 DEF Holds
  <2> QED BY <1>5, <2>2, <2>3, <2>4, <2>5, <2>6 DEF Marks
<1>6. UNCHANGED job
  OBVIOUS
<1> QED BY <1>5, <1>6, RealEffect

LEMMA InitStep ==
  ASSUME Inv, InitPlane
  PROVE  Inv'
PROOF
<1> DEFINE p == plane_id
           free == remove_plane_fb(kms, plane)
           fb == NewId(free.fbs)
           put == [plane EXCEPT !.crtc = crtc, !.place = argument]
           made == [put EXCEPT !.fb = fb]
           none == [put EXCEPT !.fb = 0]
<1>1. /\ pc = "case" /\ step <= Len(script) /\ script[step].op = "init"
      /\ UNCHANGED <<job, moved, crtcs, connectors, base, outside>>
  BY DEF InitPlane, At
<1>2. Data /\ todo # << >> /\ Inside /\ moved \in BOOLEAN /\ ret \in {-1, 0, 1}
  BY <1>1 DEF Inv, ControlOK
<1>3. script[step] \in StepType(Ours)
  BY <1>1, TrackedAt
<1>4. p \in Ours /\ argument \in Place
  BY <1>1, <1>3 DEF StepType, PlaneOps, BlobOps, OtherOps, plane_id, argument
<1>5. plane \in PlaneFields /\ crtc \in Crtcs /\ plane = planes[crtc][p] /\ Ours \subseteq Planes
  BY <1>2, <1>4, CurrentFacts DEF plane
<1>6. /\ free \in KernelType /\ free.fbs = kms.fbs \ {plane.fb}
      /\ free.blobs = kms.blobs /\ free.fences = kms.fences /\ IsFiniteSet(free.fbs)
  BY <1>2, <1>4, <1>5, Freed
<1>7. fb \in Nat \ {0} /\ fb \notin free.fbs
  BY <1>6, NewIds
<1>8. put \in PlaneFields /\ put.ctm = plane.ctm /\ put.fence = plane.fence
  <2>1. [plane EXCEPT !.crtc = crtc] \in PlaneFields
    BY <1>5, PlaneFieldsOf
  <2>2. put = [[plane EXCEPT !.crtc = crtc] EXCEPT !.place = argument]
    BY <1>5 DEF PlaneFields
  <2>3. put \in PlaneFields
    BY <1>4, <2>1, <2>2, PlaneFieldsOf
  <2> QED BY <1>5, <2>3 DEF PlaneFields
<1> HIDE DEF put
<1>9. /\ made \in PlaneFields /\ made.fb = fb /\ made.ctm = plane.ctm /\ made.fence = plane.fence
      /\ none \in PlaneFields /\ none.fb = 0 /\ none.ctm = plane.ctm /\ none.fence = plane.fence
  <2>1. made \in PlaneFields /\ none \in PlaneFields
    BY <1>7, <1>8, PlaneFieldsOf
  <2> QED BY <1>8, <2>1 DEF PlaneFields
<1>10. kms \in KernelType /\ 0 \notin kms.fbs /\ 0 \notin kms.blobs
       /\ IsFiniteSet(kms.blobs) /\ IsFiniteSet(kms.fences)
  BY <1>2 DEF Data, KernelOK
<1>11. OutsideOK' /\ timeline' = timeline /\ event' = event /\ out_fence_fd' = out_fence_fd
  BY <1>1, <1>2 DEF Data, OutsideOK, outside
<1>12. JobOK'
  BY <1>1, <1>2 DEF Data, JobOK, job
<1> HIDE DEF fb, made, none, free
<1>13. ASSUME kms' = [free EXCEPT !.fbs = @ \cup {fb}],
              planes' = [planes EXCEPT ![crtc][p] = made],
              pset' = set_plane_props(pset, p, planes'[crtc][p]),
              Continue \/ Fail
       PROVE  Inv'
  <2>1. /\ kms' \in KernelType /\ kms'.fbs = free.fbs \cup {fb}
        /\ kms'.blobs = kms.blobs /\ kms'.fences = kms.fences
    BY <1>6, <1>7, <1>13 DEF KernelType
  <2>2. IsFiniteSet(kms'.fbs) /\ 0 \notin kms'.fbs
    <3>1. IsFiniteSet(free.fbs \cup {fb})
      BY <1>6, FS_AddElement
    <3>2. 0 \notin free.fbs \cup {fb}
      BY <1>6, <1>7, <1>10
    <3> QED BY <2>1, <3>1, <3>2
  <2>3. KernelOK'
    BY <1>10, <2>1, <2>2 DEF KernelOK
  <2>4. SetPlane(made)
    <3>1. planes'[crtc][p] = made
      BY <1>2, <1>4, <1>9, <1>13, OnePlane
    <3> QED BY <1>1, <1>13, <3>1 DEF SetPlane
  <2>5. /\ CopiesOK' /\ RequestOK' /\ OthersClear' /\ NamesNothing(base)' /\ Agrees'
        /\ planes'[crtc][p] = made
        /\ \A q \in Planes \ {p} : planes'[crtc][q] = planes[crtc][q]
        /\ crtcs' = crtcs
    BY <1>1, <1>2, <1>4, <1>9, <2>4, SettingPlane DEF Inside
  <2>6. Data'
    BY <1>11, <1>12, <2>3, <2>5 DEF Data
  <2>7. FbsOfPlanes' /\ FbsShown'
    <3>1. kms'.fbs = (kms.fbs \ {planes[crtc][p].fb}) \cup ({fb} \ {0})
      BY <1>5, <1>6, <1>7, <2>1
    <3>2. fb \notin kms.fbs \ {planes[crtc][p].fb} /\ fb \in Nat
      BY <1>5, <1>6, <1>7
    <3>3. UNCHANGED job /\ planes'[crtc][p].fb = fb
      BY <1>1, <1>9, <2>5
    <3> QED BY <1>2, <1>4, <2>5, <3>1, <3>2, <3>3, FbChanged
  <2>8. UNCHANGED job /\ planes'[crtc][p].ctm = planes[crtc][p].ctm
        /\ planes'[crtc][p].fence = planes[crtc][p].fence
    BY <1>1, <1>5, <1>9, <2>5
  <2>9. BlobsOfUses' /\ OneFence'
    BY <1>2, <1>4, <2>1, <2>5, <2>8, BlobsStay DEF Inside
  <2>10. Inside'
    BY <2>5, <2>7, <2>9 DEF Inside
  <2>11. Real' \subseteq Effect(Ours, script[step], Real)
    BY <1>1, <1>4, <1>5, <1>11, <2>1, <2>5, <2>8, InitMarks
  <2>12. \/ pc' = "case" /\ step' \in Targets(step, script[step])
         \/ pc' = "cleanup" /\ UNCHANGED step /\ ret' = -1
    BY <1>1, <1>13, Moves
  <2>13. moved' \in BOOLEAN /\ ret' \in {-1, 0, 1}
    BY <1>1, <1>2, <1>13, Moves
  <2> QED BY <1>1, <2>6, <2>8, <2>10, <2>11, <2>12, <2>13, StepDone
<1>14. ASSUME kms' = free,
              planes' = [planes EXCEPT ![crtc][p] = none],
              Fail, UNCHANGED pset
       PROVE  Inv'
  <2>1. KernelOK'
    BY <1>6, <1>10, <1>14 DEF KernelOK
  <2>2. /\ planes' \in [Crtcs -> [Planes -> PlaneFields]]
        /\ planes'[crtc][p] = none
        /\ \A q \in Planes \ {p} : planes'[crtc][q] = planes[crtc][q]
    BY <1>2, <1>4, <1>9, <1>14, OnePlane
  <2>3. CopiesOK' /\ RequestOK'
    BY <1>1, <1>2, <1>14, <2>2 DEF Data, CopiesOK, RequestOK
  <2>4. Data'
    BY <1>11, <1>12, <2>1, <2>3 DEF Data
  <2>5. OthersClear'
    <3>1. crtcs[crtc] \in CrtcFields
      BY <1>2, <1>5, CurrentFacts
    <3> QED BY <1>1, <1>2, <1>4, <1>9, <1>14, <3>1, OthersStay DEF Inside
  <2>6. NamesNothing(base)'
    BY <1>1, <1>2 DEF Inside, NamesNothing
  <2>7. FbsOfPlanes' /\ FbsShown'
    <3>1. kms'.fbs = (kms.fbs \ {planes[crtc][p].fb}) \cup ({0} \ {0})
      BY <1>5, <1>6, <1>14
    <3>2. 0 \notin kms.fbs \ {planes[crtc][p].fb} /\ 0 \in Nat
      BY <1>10
    <3>3. UNCHANGED job /\ planes'[crtc][p].fb = 0
      BY <1>1, <1>9, <2>2
    <3> QED BY <1>2, <1>4, <2>2, <3>1, <3>2, <3>3, FbChanged
  <2>8. /\ UNCHANGED job /\ planes'[crtc][p].ctm = planes[crtc][p].ctm
        /\ planes'[crtc][p].fence = planes[crtc][p].fence
        /\ kms'.blobs = kms.blobs /\ kms'.fences = kms.fences /\ crtcs' = crtcs
    BY <1>1, <1>5, <1>6, <1>9, <1>14, <2>2
  <2>9. BlobsOfUses' /\ OneFence'
    BY <1>2, <1>4, <2>2, <2>8, BlobsStay DEF Inside
  <2>10. Real' \subseteq Effect(Ours, script[step], Real)
    BY <1>1, <1>4, <1>5, <1>11, <2>2, <2>8, InitMarks
  <2>11. moved' \in BOOLEAN /\ ret' \in {-1, 0, 1}
    BY <1>1, <1>2, <1>14, Moves
  <2>12. CASE skip = 0
    <3>1. pc' = "cleanup" /\ ret' = -1 /\ UNCHANGED step
      BY <1>14, <2>12 DEF Fail, Return
    <3>2. Leaving'
      BY <2>5, <2>6, <2>7, <3>1 DEF Leaving
    <3> QED BY <1>2, <2>4, <2>8, <2>11, <3>1, <3>2, CaseGoesOn
  <2>13. CASE skip # 0
    <3>1. plane.fb = 0
      <4>1. Forbids(Ours, script[step]) \cap Real = {}
        BY <1>1, TrackedAt
      <4>2. <<"fb", p>> \in Marks(Ours)
        BY <1>4 DEF Marks
      <4>3. <<"fb", p>> \in Forbids(Ours, script[step])
        BY <1>1, <2>13, <4>2 DEF Forbids, skip, plane_id
      <4>4. <<"fb", p>> \notin Real
        BY <4>1, <4>3
      <4> QED BY <1>2, <1>4, <1>5, <4>4, MarksSeen
    <3>2. Agrees'
      <4>1. \A q \in Planes : /\ planes'[crtc][q].fb = planes[crtc][q].fb
                              /\ planes'[crtc][q].ctm = planes[crtc][q].ctm
        BY <1>5, <1>9, <2>2, <3>1
      <4>2. crtc' = crtc
        BY <2>8 DEF job, crtc
      <4> QED BY <1>2, <1>14, <2>8, <4>1, <4>2 DEF Inside, Agrees
    <3>3. Inside'
      BY <2>5, <2>6, <2>7, <2>9, <3>2 DEF Inside
    <3>4. \/ pc' = "case" /\ step' \in Targets(step, script[step])
          \/ pc' = "cleanup" /\ UNCHANGED step /\ ret' = -1
      BY <1>1, <1>14, Moves
    <3> QED BY <1>1, <2>4, <2>8, <2>10, <2>11, <3>3, <3>4, StepDone
  <2> QED BY <2>12, <2>13
<1>15. ASSUME Fail, UNCHANGED <<kms, planes, pset>>
       PROVE  Inv'
  <2>1. UNCHANGED <<job, request>>
    BY <1>1, <1>15 DEF request
  <2>2. /\ \/ pc' = "case" /\ step' \in Targets(step, script[step])
           \/ pc' = "cleanup" /\ UNCHANGED step /\ ret' = -1
        /\ moved' \in BOOLEAN /\ ret' \in {-1, 0, 1}
    BY <1>1, <1>2, <1>15, Moves
  <2> QED BY <1>1, <1>11, <1>15, <2>1, <2>2, NeutralStep
<1>16. \/ /\ kms' = [free EXCEPT !.fbs = @ \cup {fb}]
          /\ planes' = [planes EXCEPT ![crtc][p] = made]
          /\ pset' = set_plane_props(pset, p, planes'[crtc][p])
          /\ Continue \/ Fail
       \/ /\ kms' = free
          /\ planes' = [planes EXCEPT ![crtc][p] = none]
          /\ Fail /\ UNCHANGED pset
       \/ Fail /\ UNCHANGED <<kms, planes, pset>>
  BY DEF InitPlane, free, fb, put, made, none
<1> QED BY <1>13, <1>14, <1>15, <1>16

LEMMA DisableStep ==
  ASSUME Inv, DisablePlane
  PROVE  Inv'
PROOF
<1>0. PICK p : p = plane_id
  OBVIOUS
<1>1. /\ pc = "case" /\ step <= Len(script) /\ script[step].op = "disable"
      /\ UNCHANGED <<job, moved, outside>> /\ SetPlane(Disabled(plane)) /\ Continue
      /\ kms' = remove_plane_fb(kms, plane)
  BY DEF DisablePlane, At
<1>2. Data /\ todo # << >> /\ Inside /\ moved \in BOOLEAN /\ UNCHANGED job
  BY <1>1 DEF Inv, ControlOK
<1>3. script[step] \in StepType(Ours)
  BY <1>1, TrackedAt
<1>4. p \in Ours
  BY <1>0, <1>1, <1>3 DEF StepType, PlaneOps, BlobOps, OtherOps, plane_id
<1>5. plane \in PlaneFields /\ plane = planes[crtc][p] /\ Ours \subseteq Planes /\ 0 \notin Ours
      /\ crtc' = crtc /\ Ours' = Ours
  BY <1>0, <1>2, <1>4, CurrentFacts DEF plane, job, crtc, Ours
<1>6. /\ Disabled(plane) \in PlaneFields /\ Disabled(plane).fb = 0
      /\ Disabled(plane).ctm = 0 /\ Disabled(plane).fence = plane.fence
  BY <1>5, PlaneFieldsOf
<1>7. /\ kms' \in KernelType /\ kms'.fbs = kms.fbs \ {planes[crtc][p].fb}
      /\ kms'.blobs = kms.blobs /\ kms'.fences = kms.fences /\ IsFiniteSet(kms'.fbs)
  BY <1>1, <1>2, <1>4, <1>5, Freed
<1>8. 0 \notin kms.fbs /\ 0 \notin kms.blobs /\ IsFiniteSet(kms.blobs) /\ IsFiniteSet(kms.fences)
  BY <1>2 DEF Data, KernelOK
<1>9. KernelOK'
  BY <1>7, <1>8 DEF KernelOK
<1>10. /\ CopiesOK' /\ RequestOK' /\ OthersClear' /\ NamesNothing(base)' /\ Agrees'
       /\ planes'[crtc][p] = Disabled(plane)
       /\ \A q \in Planes \ {p} : planes'[crtc][q] = planes[crtc][q]
       /\ crtcs' = crtcs
  BY <1>0, <1>1, <1>2, <1>4, <1>6, SettingPlane DEF Inside
<1>11. OutsideOK' /\ timeline' = timeline /\ JobOK'
  BY <1>1, <1>2 DEF Data, OutsideOK, outside, JobOK, job
<1>12. Data'
  BY <1>9, <1>10, <1>11 DEF Data
<1>13. FbsOfPlanes' /\ FbsShown'
  <2>1. kms'.fbs = (kms.fbs \ {planes[crtc][p].fb}) \cup ({0} \ {0})
    BY <1>7
  <2>2. 0 \notin kms.fbs \ {planes[crtc][p].fb} /\ 0 \in Nat /\ planes'[crtc][p].fb = 0
    BY <1>6, <1>8, <1>10
  <2> QED BY <1>2, <1>4, <1>10, <2>1, <2>2, FbChanged
<1>14. /\ BlobOf(p)' = 0
       /\ \A x \in (Ours \cup {0}) \ {p} : BlobOf(x)' = BlobOf(x)
  BY <1>4, <1>5, <1>6, <1>10 DEF BlobOf
<1>15. BlobOf(p) \notin kms.blobs
  <2>1. Forbids(Ours, script[step]) \cap Real = {}
    BY <1>1, TrackedAt
  <2>2. <<"live", p>> \in Marks(Ours)
    BY <1>4 DEF Marks
  <2>3. <<"live", p>> \in Forbids(Ours, script[step])
    BY <1>0, <1>1, <2>2 DEF Forbids, plane_id
  <2> QED BY <1>2, <1>4, <2>1, <2>3, MarksSeen
<1>16. BlobsOfUses' /\ OneFence'
  <2>1. \A b \in kms.blobs : \E x \in Ours \cup {0} : BlobOf(x)' = b
    BY <1>2, <1>14, <1>15 DEF Inside, BlobsOfUses
  <2>2. \A x, y \in Ours \cup {0} :
          BlobOf(x)' = BlobOf(y)' => x = y \/ BlobOf(x)' \notin kms.blobs
    BY <1>2, <1>8, <1>14 DEF Inside, BlobsOfUses
  <2> QED BY <1>2, <1>5, <1>7, <2>1, <2>2 DEF Inside, BlobsOfUses, OneFence
<1>17. Inside'
  BY <1>10, <1>13, <1>16 DEF Inside
<1>18. ASSUME NEW kind, NEW x, <<kind, x>> \in Marks(Ours), Holds(kind, x)'
       PROVE  \/ Holds(kind, x) /\ <<kind, x>> \notin Kills(Ours, script[step])
              \/ <<kind, x>> \in Makes(Ours, script[step])
  <2>1. Kills(Ours, script[step]) \subseteq {<<"fb", p>>, <<"dead", p>>}
    BY <1>0, <1>1 DEF Kills, plane_id
  <2>2. CASE kind = "fb"
    <3>1. x \in Ours /\ planes'[crtc][x].fb # 0
      BY <1>5, <1>18, <2>2 DEF Holds
    <3>2. x # p
      BY <1>6, <1>10, <3>1
    <3> QED BY <1>5, <1>10, <2>1, <2>2, <3>1, <3>2 DEF Holds
  <2>3. CASE kind \in {"live", "dead"}
    <3>1. x \in Ours \cup {0}
      BY <1>18, <2>3 DEF Marks
    <3>2. x # p
      BY <1>7, <1>8, <1>14, <1>18, <2>3 DEF Holds
    <3>3. BlobOf(x)' = BlobOf(x)
      BY <1>14, <3>1, <3>2
    <3> QED BY <1>7, <1>18, <2>1, <2>3, <3>2, <3>3 DEF Holds
  <2>4. CASE kind = "unset"
    <3>1. x \in Ours /\ ~(kms.fences \subseteq {planes'[crtc][x].fence})
      BY <1>5, <1>7, <1>18, <2>4 DEF Holds
    <3>2. planes'[crtc][x].fence = planes[crtc][x].fence
      BY <1>5, <1>6, <1>10, <3>1
    <3> QED BY <2>1, <2>4, <3>1, <3>2 DEF Holds
  <2>5. CASE kind \in {"fence", "held"}
    BY <1>7, <1>11, <1>18, <2>1, <2>5 DEF Holds
  <2> QED BY <1>18, <2>2, <2>3, <2>4, <2>5 DEF Marks
<1>19. Real' \subseteq Effect(Ours, script[step], Real)
  BY <1>2, <1>18, RealEffect
<1>20. pc' = "case" /\ step' \in Targets(step, script[step]) /\ ret' \in {-1, 0, 1}
       /\ moved' \in BOOLEAN
  BY <1>1, <1>2, Moves
<1> QED BY <1>1, <1>2, <1>12, <1>17, <1>19, <1>20, StepDone

\* A blob is made, for a plane or the CRTC.
LEMMA BlobMade ==
  ASSUME Inv, At("create_blob"), UNCHANGED <<job, moved, outside>>, Continue,
         plane_id \in Ours \cup {0}, NEW blob \in Nat \ {0}, blob \notin kms.blobs,
         kms' = [kms EXCEPT !.blobs = @ \cup {blob}],
         \/ /\ plane_id = 0
            /\ crtcs' = [crtcs EXCEPT ![crtc].color = blob]
            /\ pset' = set_crtc_props(pset, crtc, crtcs'[crtc])
            /\ UNCHANGED <<planes, connectors, base>>
         \/ plane_id # 0 /\ SetPlane([plane EXCEPT !.ctm = blob])
  PROVE  Inv'
PROOF
<1>0. PICK p : p = plane_id
  OBVIOUS
<1>1. pc = "case" /\ step <= Len(script) /\ script[step].op = "create_blob" /\ UNCHANGED job
  BY DEF At
<1>2. Data /\ todo # << >> /\ Inside /\ moved \in BOOLEAN
  BY <1>1 DEF Inv, ControlOK
<1>3. crtc \in Crtcs /\ Ours \subseteq Planes /\ 0 \notin Ours /\ crtc' = crtc /\ Ours' = Ours
      /\ crtcs[crtc] \in CrtcFields /\ crtcs \in [Crtcs -> CrtcFields]
  BY <1>2, CurrentFacts DEF job, crtc, Ours, Data, CopiesOK
<1>4. kms \in KernelType /\ 0 \notin kms.fbs /\ 0 \notin kms.blobs
      /\ IsFiniteSet(kms.fbs) /\ IsFiniteSet(kms.blobs) /\ IsFiniteSet(kms.fences)
  BY <1>2 DEF Data, KernelOK
<1>5. /\ kms' \in KernelType /\ kms'.fbs = kms.fbs /\ kms'.fences = kms.fences
      /\ kms'.blobs = kms.blobs \cup {blob}
  BY <1>4 DEF KernelType
<1>6. KernelOK'
  <2>1. IsFiniteSet(kms.blobs \cup {blob})
    BY <1>4, FS_AddElement
  <2> QED BY <1>4, <1>5, <2>1 DEF KernelOK
<1>7. OutsideOK' /\ timeline' = timeline /\ JobOK'
  BY <1>2 DEF Data, OutsideOK, outside, JobOK, job
<1>8. /\ CopiesOK' /\ RequestOK' /\ OthersClear' /\ NamesNothing(base)' /\ Agrees'
      /\ BlobOf(p)' = blob
      /\ \A x \in (Ours \cup {0}) \ {p} : BlobOf(x)' = BlobOf(x)
      /\ \A q \in Ours : /\ planes'[crtc][q].fb = planes[crtc][q].fb
                         /\ planes'[crtc][q].fence = planes[crtc][q].fence
  <2>1. CASE /\ plane_id = 0
             /\ crtcs' = [crtcs EXCEPT ![crtc].color = blob]
             /\ pset' = set_crtc_props(pset, crtc, crtcs'[crtc])
             /\ UNCHANGED <<planes, connectors, base>>
    <3>0. PICK fields : fields = [crtcs[crtc] EXCEPT !.color = blob]
      OBVIOUS
    <3>1. fields \in CrtcFields /\ fields.color = blob
      BY <1>3, <3>0 DEF CrtcFields
    <3>2. crtcs' = [crtcs EXCEPT ![crtc] = fields]
      BY <1>3, <2>1, <3>0
    <3>3. crtcs' \in [Crtcs -> CrtcFields] /\ crtcs'[crtc] = fields
      BY <1>3, <3>1, <3>2
    <3>4. pset \in RequestType /\ base \in RequestType
      BY <1>2 DEF Data, RequestOK
    <3>5. /\ pset' \in RequestType /\ pset'.crtc[crtc].color = blob /\ pset'.plane = pset.plane
          /\ \A d \in Crtcs \ {crtc} : pset'.crtc[d] = pset.crtc[d]
      <4>1. pset' = set_crtc_props(pset, crtc, fields)
        BY <2>1, <3>3
      <4>2. /\ set_crtc_props(pset, crtc, fields) \in RequestType
            /\ set_crtc_props(pset, crtc, fields).crtc[crtc].color = fields.color
            /\ \A d \in Crtcs \ {crtc} :
                 set_crtc_props(pset, crtc, fields).crtc[d] = pset.crtc[d]
            /\ set_crtc_props(pset, crtc, fields).plane = pset.plane
        <5>1. crtc \in Crtcs /\ fields \in CrtcFields /\ pset \in RequestType
          BY <1>3, <3>1, <3>4
        <5> QED BY <5>1, SetCrtcProps
      <4> QED BY <3>1, <4>1, <4>2
    <3>6. CopiesOK' /\ RequestOK'
      BY <1>2, <2>1, <3>3, <3>4, <3>5 DEF Data, CopiesOK, RequestOK
    <3>7. OthersClear'
      <4>1. \A c \in Crtcs \ {crtc} : crtcs'[c] = crtcs[c]
        BY <1>3, <3>2
      <4> QED BY <1>2, <1>3, <2>1, <4>1 DEF Inside, OthersClear, Clear
    <3>8. NamesNothing(base)'
      BY <1>2, <2>1 DEF Inside, NamesNothing
    <3>9. Agrees'
      BY <1>2, <1>3, <2>1, <3>1, <3>3, <3>5 DEF Inside, Agrees
    <3>10. /\ BlobOf(p)' = blob
           /\ \A x \in (Ours \cup {0}) \ {p} : BlobOf(x)' = BlobOf(x)
      BY <1>0, <1>3, <2>1, <3>1, <3>3 DEF BlobOf
    <3> QED BY <2>1, <3>6, <3>7, <3>8, <3>9, <3>10
  <2>2. CASE plane_id # 0 /\ SetPlane([plane EXCEPT !.ctm = blob])
    <3>1. p \in Ours
      BY <1>0, <2>2
    <3>2. plane \in PlaneFields /\ plane = planes[crtc][p]
      BY <1>0, <1>2, <1>3, <3>1, CurrentFacts DEF plane
    <3>3. PICK changed : changed = [plane EXCEPT !.ctm = blob]
      OBVIOUS
    <3>4. changed \in PlaneFields
      BY <3>2, <3>3, PlaneFieldsOf
    <3>5. changed.ctm = blob /\ changed.fb = plane.fb /\ changed.fence = plane.fence
      BY <3>2, <3>3 DEF PlaneFields
    <3>6. SetPlane(changed)
      BY <2>2, <3>3
    <3>7. /\ CopiesOK' /\ RequestOK' /\ OthersClear' /\ NamesNothing(base)' /\ Agrees'
          /\ planes'[crtc][p] = changed
          /\ \A q \in Planes \ {p} : planes'[crtc][q] = planes[crtc][q]
          /\ crtcs' = crtcs
      BY <1>0, <1>1, <1>2, <3>1, <3>4, <3>6, SettingPlane DEF Inside
    <3>8. /\ BlobOf(p)' = blob
          /\ \A x \in (Ours \cup {0}) \ {p} : BlobOf(x)' = BlobOf(x)
      BY <1>0, <1>3, <2>2, <3>5, <3>7 DEF BlobOf
    <3>9. \A q \in Ours : /\ planes'[crtc][q].fb = planes[crtc][q].fb
                          /\ planes'[crtc][q].fence = planes[crtc][q].fence
      BY <1>3, <3>2, <3>5, <3>7
    <3> QED BY <3>7, <3>8, <3>9
  <2> QED BY <2>1, <2>2
<1>9. Data'
  BY <1>6, <1>7, <1>8 DEF Data
<1>10. /\ BlobOf(p) \notin kms.blobs
       /\ \A x \in (Ours \cup {0}) \ {p} : BlobOf(x) \in kms.blobs \cup {0}
  <2>1. Forbids(Ours, script[step]) \cap Real = {}
    BY <1>1, TrackedAt
  <2>2. <<"live", p>> \in Forbids(Ours, script[step])
    BY <1>0, <1>1 DEF Forbids, plane_id, Marks
  <2>3. \A x \in (Ours \cup {0}) \ {p} : <<"dead", x>> \in Forbids(Ours, script[step])
    BY <1>0, <1>1 DEF Forbids, plane_id, Marks, Dead
  <2> QED BY <1>0, <1>2, <2>1, <2>2, <2>3, MarksSeen
<1>11. FbsOfPlanes' /\ FbsShown' /\ OneFence'
  BY <1>2, <1>3, <1>5, <1>8 DEF Inside, FbsOfPlanes, FbsShown, OneFence
<1>12. BlobsOfUses'
  <2>1. \A b \in kms'.blobs : \E x \in Ours \cup {0} : BlobOf(x)' = b
    BY <1>0, <1>2, <1>5, <1>8, <1>10 DEF Inside, BlobsOfUses
  <2>2. \A x, y \in Ours \cup {0} :
          BlobOf(x)' = BlobOf(y)' => x = y \/ BlobOf(x)' \notin kms'.blobs
    BY <1>2, <1>4, <1>5, <1>8, <1>10 DEF Inside, BlobsOfUses
  <2> QED BY <1>3, <2>1, <2>2 DEF BlobsOfUses
<1>13. Inside'
  BY <1>8, <1>11, <1>12 DEF Inside
<1>14. ASSUME NEW kind, NEW x, <<kind, x>> \in Marks(Ours), Holds(kind, x)'
       PROVE  \/ Holds(kind, x) /\ <<kind, x>> \notin Kills(Ours, script[step])
              \/ <<kind, x>> \in Makes(Ours, script[step])
  <2>1. Kills(Ours, script[step]) \subseteq {<<"dead", p>>}
    BY <1>0, <1>1 DEF Kills, plane_id
  <2>2. CASE kind = "fb"
    BY <1>3, <1>8, <1>14, <2>1, <2>2 DEF Holds
  <2>3. CASE kind = "live" /\ x = p
    BY <1>0, <1>1, <1>14, <2>3 DEF Makes, plane_id
  <2>4. CASE kind = "live" /\ x # p
    <3>1. x \in Ours \cup {0}
      BY <1>14, <2>4 DEF Marks
    <3>2. BlobOf(x)' = BlobOf(x) /\ BlobOf(x)' \in kms.blobs \cup {blob}
      BY <1>5, <1>8, <1>14, <2>4, <3>1 DEF Holds
    <3>3. BlobOf(x) # blob
      BY <1>10, <2>4, <3>1
    <3> QED BY <2>1, <2>4, <3>2, <3>3 DEF Holds
  <2>5. CASE kind = "dead"
    <3>1. x \in Ours \cup {0}
      BY <1>14, <2>5 DEF Marks
    <3>2. BlobOf(x)' \notin kms.blobs \cup {blob, 0}
      BY <1>5, <1>14, <2>5 DEF Holds
    <3>3. x # p
      BY <1>8, <3>2
    <3>4. BlobOf(x)' = BlobOf(x)
      BY <1>8, <3>1, <3>3
    <3> QED BY <1>10, <3>1, <3>2, <3>3, <3>4
  <2>6. CASE kind = "unset"
    BY <1>3, <1>5, <1>8, <1>14, <2>1, <2>6 DEF Holds
  <2>7. CASE kind \in {"fence", "held"}
    BY <1>5, <1>7, <1>14, <2>1, <2>7 DEF Holds
  <2> QED BY <1>14, <2>2, <2>3, <2>4, <2>5, <2>6, <2>7 DEF Marks
<1>15. Real' \subseteq Effect(Ours, script[step], Real)
  BY <1>1, <1>14, RealEffect
<1>16. pc' = "case" /\ step' \in Targets(step, script[step]) /\ ret' \in {-1, 0, 1}
       /\ moved' \in BOOLEAN
  BY <1>1, <1>2, Moves
<1> QED BY <1>1, <1>9, <1>13, <1>15, <1>16, StepDone

LEMMA CreateBlobStep ==
  ASSUME Inv, CreateBlob
  PROVE  Inv'
PROOF
<1>1. At("create_blob") /\ UNCHANGED <<job, moved, outside>> /\ pc = "case"
      /\ step <= Len(script) /\ script[step].op = "create_blob"
  BY DEF CreateBlob, At
<1>2. Data /\ todo # << >> /\ Inside /\ moved \in BOOLEAN
  BY <1>1 DEF Inv, ControlOK
<1>3. script[step] \in StepType(Ours)
  BY <1>1, TrackedAt
<1>4. plane_id \in Ours \cup {0}
  BY <1>1, <1>3 DEF StepType, PlaneOps, BlobOps, OtherOps, plane_id
<1>5. kms \in KernelType /\ 0 \notin kms.fbs /\ 0 \notin kms.blobs
      /\ IsFiniteSet(kms.fbs) /\ IsFiniteSet(kms.blobs) /\ IsFiniteSet(kms.fences)
  BY <1>2 DEF Data, KernelOK
<1>6. PICK blob \in Nat \ {0} : blob = NewId(kms.blobs) /\ blob \notin kms.blobs
  BY <1>5, NewIds
<1>7. CASE /\ kms' = [kms EXCEPT !.blobs = @ \cup {blob}]
           /\ IF plane_id = 0
              THEN /\ crtcs' = [crtcs EXCEPT ![crtc].color = blob]
                   /\ pset' = set_crtc_props(pset, crtc, crtcs'[crtc])
                   /\ UNCHANGED <<planes, connectors, base>>
              ELSE SetPlane([plane EXCEPT !.ctm = blob])
           /\ Continue
  BY <1>1, <1>4, <1>6, <1>7, BlobMade
<1>8. CASE /\ Return(-1)
           /\ \E blobs \in {kms.blobs, kms.blobs \cup {blob}} :
                kms' = [kms EXCEPT !.blobs = blobs]
           /\ UNCHANGED <<request>>
  <2>1. PICK blobs \in {kms.blobs, kms.blobs \cup {blob}} : kms' = [kms EXCEPT !.blobs = blobs]
    BY <1>8
  <2>2. blobs \in SUBSET Nat /\ 0 \notin blobs
    BY <1>5, <1>6 DEF KernelType
  <2>3. IsFiniteSet(blobs)
    <3>1. IsFiniteSet(kms.blobs \cup {blob})
      BY <1>5, FS_AddElement
    <3> QED BY <1>5, <3>1
  <2>4. /\ kms' \in KernelType /\ kms'.fbs = kms.fbs /\ kms'.fences = kms.fences
        /\ kms'.blobs = blobs
    BY <1>5, <2>1, <2>2 DEF KernelType
  <2>5. KernelOK'
    BY <1>5, <2>2, <2>3, <2>4 DEF KernelOK
  <2>6. Data'
    BY <1>1, <1>2, <1>8, <2>5 DEF Data, JobOK, job, CopiesOK, request, RequestOK, OutsideOK, outside
  <2>7. crtc' = crtc /\ Ours' = Ours /\ crtcs' = crtcs /\ planes' = planes /\ base' = base
        /\ UNCHANGED job
    BY <1>1, <1>8 DEF job, request, crtc, Ours
  <2>8. FbsShown' /\ OthersClear' /\ NamesNothing(base)'
    BY <1>2, <2>4, <2>7 DEF Inside, FbsShown, OthersClear, NamesNothing, Clear
  <2>9. pc' = "cleanup" /\ ret' = -1 /\ UNCHANGED step /\ moved' \in BOOLEAN
    BY <1>1, <1>2, <1>8 DEF Return
  <2>10. Leaving'
    BY <2>8, <2>9 DEF Leaving
  <2> QED BY <1>2, <2>6, <2>7, <2>9, <2>10, CaseGoesOn
<1> QED BY <1>6, <1>7, <1>8 DEF CreateBlob

LEMMA DestroyBlobStep ==
  ASSUME Inv, DestroyBlob
  PROVE  Inv'
PROOF
<1>0. PICK p : p = plane_id
  OBVIOUS
<1>1. /\ pc = "case" /\ step <= Len(script) /\ script[step].op = "destroy_blob"
      /\ UNCHANGED <<job, moved, request, outside>> /\ Continue
  BY DEF DestroyBlob, At
<1>2. Data /\ todo # << >> /\ Inside /\ moved \in BOOLEAN /\ UNCHANGED job
  BY <1>1 DEF Inv, ControlOK
<1>3. script[step] \in StepType(Ours)
  BY <1>1, TrackedAt
<1>4. p \in Ours \cup {0}
  BY <1>0, <1>1, <1>3 DEF StepType, PlaneOps, BlobOps, OtherOps, plane_id
<1>5. kms \in KernelType /\ 0 \notin kms.fbs /\ 0 \notin kms.blobs
      /\ IsFiniteSet(kms.fbs) /\ IsFiniteSet(kms.blobs) /\ IsFiniteSet(kms.fences)
  BY <1>2 DEF Data, KernelOK
<1>6. PICK blobs : blobs = kms.blobs \ {BlobOf(p)}
  OBVIOUS
<1>7. kms' = [kms EXCEPT !.blobs = blobs]
  BY <1>0, <1>6 DEF DestroyBlob, BlobOf, plane
<1>8. blobs \in SUBSET Nat /\ 0 \notin blobs /\ IsFiniteSet(blobs)
  <2>1. IsFiniteSet(kms.blobs \ {BlobOf(p)})
    BY <1>5, FS_Subset
  <2> QED BY <1>5, <1>6, <2>1 DEF KernelType
<1>9. /\ kms' \in KernelType /\ kms'.fbs = kms.fbs /\ kms'.fences = kms.fences
      /\ kms'.blobs = kms.blobs \ {BlobOf(p)}
  BY <1>5, <1>6, <1>7, <1>8 DEF KernelType
<1>10. KernelOK'
  BY <1>5, <1>6, <1>8, <1>9 DEF KernelOK
<1>11. Data'
  BY <1>1, <1>2, <1>10 DEF Data, JobOK, job, CopiesOK, request, RequestOK, OutsideOK, outside
<1>12. crtc' = crtc /\ Ours' = Ours /\ crtcs' = crtcs /\ planes' = planes /\ base' = base
       /\ pset' = pset /\ timeline' = timeline
  BY <1>1 DEF job, request, crtc, Ours, outside
<1>13. \A x \in Ours \cup {0} : BlobOf(x)' = BlobOf(x)
  BY <1>12 DEF BlobOf
<1>14. BlobsOfUses'
  <2>1. \A b \in kms'.blobs : \E x \in Ours \cup {0} : BlobOf(x)' = b
    BY <1>2, <1>9, <1>13 DEF Inside, BlobsOfUses
  <2>2. \A x, y \in Ours \cup {0} :
          BlobOf(x)' = BlobOf(y)' => x = y \/ BlobOf(x)' \notin kms'.blobs
    BY <1>2, <1>9, <1>13 DEF Inside, BlobsOfUses
  <2> QED BY <1>12, <2>1, <2>2 DEF BlobsOfUses
<1>15. FbsOfPlanes' /\ FbsShown' /\ OneFence'
  BY <1>2, <1>9, <1>12 DEF Inside, FbsOfPlanes, FbsShown, OneFence
<1>16. Agrees' /\ OthersClear' /\ NamesNothing(base)'
  BY <1>2, <1>12 DEF Inside, Agrees, OthersClear, NamesNothing, Clear
<1>17. Inside'
  BY <1>14, <1>15, <1>16 DEF Inside
<1>18. ASSUME NEW kind, NEW x, <<kind, x>> \in Marks(Ours), Holds(kind, x)'
       PROVE  \/ Holds(kind, x) /\ <<kind, x>> \notin Kills(Ours, script[step])
              \/ <<kind, x>> \in Makes(Ours, script[step])
  <2>1. Kills(Ours, script[step]) \subseteq {<<"live", p>>}
    BY <1>0, <1>1 DEF Kills, plane_id
  <2>2. CASE kind \in {"fb", "unset", "fence", "held"}
    BY <1>9, <1>12, <1>18, <2>1, <2>2 DEF Holds
  <2>3. CASE kind = "dead" /\ x = p
    BY <1>0, <1>1, <1>18, <2>3 DEF Makes, plane_id
  <2>4. CASE kind = "dead" /\ x # p
    <3>1. x \in Ours \cup {0}
      BY <1>18, <2>4 DEF Marks
    <3>2. BlobOf(x) \notin kms'.blobs \cup {0}
      BY <1>13, <1>18, <2>4, <3>1 DEF Holds
    <3>3. BlobOf(x) \notin kms.blobs
      BY <1>2, <1>4, <1>9, <2>4, <3>1, <3>2 DEF Inside, BlobsOfUses
    <3> QED BY <2>1, <2>4, <3>2, <3>3 DEF Holds
  <2>5. CASE kind = "live"
    <3>1. x \in Ours \cup {0}
      BY <1>18, <2>5 DEF Marks
    <3>2. BlobOf(x) \in kms'.blobs
      BY <1>13, <1>18, <2>5, <3>1 DEF Holds
    <3>3. BlobOf(x) \in kms.blobs /\ x # p
      BY <1>9, <3>2
    <3> QED BY <2>1, <2>5, <3>3 DEF Holds
  <2> QED BY <1>18, <2>2, <2>3, <2>4, <2>5 DEF Marks
<1>19. Real' \subseteq Effect(Ours, script[step], Real)
  BY <1>2, <1>18, RealEffect
<1>20. pc' = "case" /\ step' \in Targets(step, script[step]) /\ ret' \in {-1, 0, 1}
       /\ moved' \in BOOLEAN
  BY <1>1, <1>2, Moves
<1> QED BY <1>1, <1>2, <1>11, <1>17, <1>19, <1>20, StepDone

\* The fences there are change, nothing else of the kernel.
LEMMA FencesChanged ==
  ASSUME Inv, pc = "case", step <= Len(script), UNCHANGED <<job, moved, request, event, out_fence_fd>>,
         NEW fences \in SUBSET Nat, IsFiniteSet(fences), kms' = [kms EXCEPT !.fences = fences],
         timeline' \in {"none", "open", "held", "signalled"}, Continue, script[step].op # "again",
         \A f, g \in fences : f = g,
         Kills(Ours, script[step]) \subseteq Unset(Ours) \cup {<<"fence", 0>>},
         fences # {} => Unset(Ours) \cup {<<"fence", 0>>} \subseteq Makes(Ours, script[step]),
         timeline' = "held" => timeline = "held"
  PROVE  Inv'
PROOF
<1>1. Data /\ todo # << >> /\ Inside /\ moved \in BOOLEAN /\ UNCHANGED job
  BY DEF Inv, ControlOK
<1>2. kms \in KernelType /\ 0 \notin kms.fbs /\ 0 \notin kms.blobs
      /\ IsFiniteSet(kms.fbs) /\ IsFiniteSet(kms.blobs)
  BY <1>1 DEF Data, KernelOK
<1>3. /\ kms' \in KernelType /\ kms'.fbs = kms.fbs /\ kms'.blobs = kms.blobs
      /\ kms'.fences = fences
  BY <1>2 DEF KernelType
<1>4. KernelOK'
  BY <1>2, <1>3 DEF KernelOK
<1>5. Data'
  BY <1>1, <1>4 DEF Data, JobOK, job, CopiesOK, request, RequestOK, OutsideOK
<1>6. crtc' = crtc /\ Ours' = Ours /\ crtcs' = crtcs /\ planes' = planes /\ base' = base
      /\ pset' = pset
  BY DEF job, request, crtc, Ours
<1>7. \A x \in Ours \cup {0} : BlobOf(x)' = BlobOf(x)
  BY <1>6 DEF BlobOf
<1>8. BlobsOfUses' /\ OneFence'
  BY <1>1, <1>3, <1>6, <1>7 DEF Inside, BlobsOfUses, OneFence
<1>9. FbsOfPlanes' /\ FbsShown'
  BY <1>1, <1>3, <1>6 DEF Inside, FbsOfPlanes, FbsShown
<1>10. Agrees' /\ OthersClear' /\ NamesNothing(base)'
  BY <1>1, <1>6 DEF Inside, Agrees, OthersClear, NamesNothing, Clear
<1>11. Inside'
  BY <1>8, <1>9, <1>10 DEF Inside
<1>12. ASSUME NEW kind, NEW x, <<kind, x>> \in Marks(Ours), Holds(kind, x)'
       PROVE  \/ Holds(kind, x) /\ <<kind, x>> \notin Kills(Ours, script[step])
              \/ <<kind, x>> \in Makes(Ours, script[step])
  <2>1. CASE kind = "fb"
    BY <1>6, <1>12, <2>1 DEF Holds, Unset
  <2>2. CASE kind \in {"live", "dead"}
    <3>1. x \in Ours \cup {0}
      BY <1>12, <2>2 DEF Marks
    <3>2. <<kind, x>> \notin Unset(Ours) \cup {<<"fence", 0>>}
      BY <2>2 DEF Unset
    <3> QED BY <1>3, <1>7, <1>12, <2>2, <3>1, <3>2 DEF Holds
  <2>3. CASE kind = "unset"
    <3>1. x \in Ours /\ fences # {}
      BY <1>3, <1>6, <1>12, <2>3 DEF Holds
    <3>2. <<kind, x>> \in Unset(Ours)
      BY <2>3, <3>1 DEF Unset
    <3> QED BY <3>1, <3>2
  <2>4. CASE kind = "fence"
    <3>1. x = 0 /\ fences # {}
      BY <1>3, <1>12, <2>4 DEF Holds, Marks
    <3> QED BY <2>4, <3>1
  <2>5. CASE kind = "held"
    BY <1>12, <2>5 DEF Holds, Unset
  <2> QED BY <1>12, <2>1, <2>2, <2>3, <2>4, <2>5 DEF Marks
<1>13. Real' \subseteq Effect(Ours, script[step], Real)
  BY <1>1, <1>12, RealEffect
<1>14. pc' = "case" /\ step' \in Targets(step, script[step]) /\ ret' \in {-1, 0, 1}
       /\ moved' \in BOOLEAN
  BY <1>1, Moves
<1> QED BY <1>1, <1>5, <1>11, <1>13, <1>14, StepDone

LEMMA TimelineStep ==
  ASSUME Inv, CreateTimeline
  PROVE  Inv'
PROOF
<1>1. /\ pc = "case" /\ step <= Len(script) /\ script[step].op = "timeline"
      /\ UNCHANGED <<job, moved, request, event, out_fence_fd>>
      /\ timeline' \in {timeline, "open"}
  BY DEF CreateTimeline, At
<1>2. Data /\ todo # << >> /\ OutsideOK' /\ moved \in BOOLEAN /\ ret \in {-1, 0, 1}
  BY <1>1 DEF Inv, Data, OutsideOK, ControlOK
<1>3. CASE kms' = [kms EXCEPT !.fences = @ \cup {NewId(@)}] /\ Continue
  <2>1. kms \in KernelType /\ IsFiniteSet(kms.fences)
    BY <1>2 DEF Data, KernelOK
  <2>2. kms.fences = {}
    <3>1. Forbids(Ours, script[step]) \cap Real = {}
      BY <1>1, TrackedAt
    <3>2. <<"fence", 0>> \in Forbids(Ours, script[step])
      BY <1>1 DEF Forbids, Marks
    <3> QED BY <1>2, <3>1, <3>2, MarksSeen
  <2>3. PICK fence \in Nat : fence = NewId(kms.fences)
    BY <2>1, NewIds
  <2>4. PICK fences : fences = {fence}
    OBVIOUS
  <2>5. kms' = [kms EXCEPT !.fences = fences] /\ fences \in SUBSET Nat /\ \A f, g \in fences : f = g
    BY <1>3, <2>1, <2>2, <2>3, <2>4 DEF KernelType
  <2>6. IsFiniteSet(fences)
    BY <2>4, FS_Singleton
  <2>7. Kills(Ours, script[step]) = {}
    BY <1>1 DEF Kills
  <2>8. Unset(Ours) \cup {<<"fence", 0>>} \subseteq Makes(Ours, script[step])
    BY <1>1 DEF Makes, Marks, Unset
  <2>9. /\ timeline' \in {"none", "open", "held", "signalled"}
        /\ timeline' = "held" => timeline = "held"
    BY <1>1, <1>2 DEF OutsideOK
  <2> QED BY <1>1, <1>3, <2>5, <2>6, <2>7, <2>8, <2>9, FencesChanged
<1>4. CASE Return(-1) /\ UNCHANGED kms
  BY <1>1, <1>2, <1>4, NeutralStep DEF Return
<1> QED BY <1>3, <1>4 DEF CreateTimeline

LEMMA CloseStep ==
  ASSUME Inv, CloseFence
  PROVE  Inv' /\ timeline # "held"
PROOF
<1>1. /\ pc = "case" /\ step <= Len(script) /\ script[step].op = "close"
      /\ UNCHANGED <<job, moved, request, event, out_fence_fd>> /\ Continue
      /\ kms' = [kms EXCEPT !.fences = @ \ {plane.fence}] /\ timeline' = "none"
  BY DEF CloseFence, At
<1>2. Data /\ todo # << >>
  BY <1>1 DEF Inv
<1>3. script[step] \in StepType(Ours)
  BY <1>1, TrackedAt
<1>4. plane_id \in Ours
  BY <1>1, <1>3 DEF StepType, PlaneOps, BlobOps, OtherOps, plane_id
<1>5. kms.fences \subseteq {plane.fence} /\ timeline # "held"
  <2>1. Forbids(Ours, script[step]) \cap Real = {}
    BY <1>1, TrackedAt
  <2>2. <<"unset", plane_id>> \in Forbids(Ours, script[step])
        /\ <<"held", 0>> \in Forbids(Ours, script[step])
    BY <1>1, <1>4 DEF Forbids, Marks, plane_id
  <2> QED BY <1>2, <1>4, <2>1, <2>2, MarksSeen DEF plane
<1>6. PICK fences : fences = {}
  OBVIOUS
<1>7. kms' = [kms EXCEPT !.fences = fences] /\ fences \in SUBSET Nat
  BY <1>1, <1>5, <1>6
<1>8. IsFiniteSet(fences)
  BY <1>6, FS_EmptySet
<1>9. Kills(Ours, script[step]) \subseteq Unset(Ours) \cup {<<"fence", 0>>}
  BY <1>1 DEF Kills
<1>10. Inv'
  BY <1>1, <1>6, <1>7, <1>8, <1>9, FencesChanged
<1> QED BY <1>5, <1>10

LEMMA InFenceStep ==
  ASSUME Inv, SetInFence
  PROVE  Inv'
PROOF
<1>0. PICK p : p = plane_id
  OBVIOUS
<1>1. /\ pc = "case" /\ step <= Len(script) /\ script[step].op = "in_fence"
      /\ UNCHANGED <<job, moved, crtcs, connectors, base, kms, event, out_fence_fd>>
      /\ \/ timeline' = "held" /\ Continue
         \/ Return(-1) /\ UNCHANGED timeline
  BY DEF SetInFence, At
<1>2. Data /\ todo # << >> /\ Inside /\ moved \in BOOLEAN /\ ret \in {-1, 0, 1} /\ UNCHANGED job
  BY <1>1 DEF Inv, ControlOK
<1>3. script[step] \in StepType(Ours)
  BY <1>1, TrackedAt
<1>4. p \in Ours
  BY <1>0, <1>1, <1>3 DEF StepType, PlaneOps, BlobOps, OtherOps, plane_id
<1>5. crtc \in Crtcs /\ Ours \subseteq Planes /\ 0 \notin Ours /\ crtc' = crtc /\ Ours' = Ours
      /\ planes[crtc][p] \in PlaneFields /\ crtcs[crtc] \in CrtcFields
      /\ planes \in [Crtcs -> [Planes -> PlaneFields]]
  BY <1>2, <1>4, CurrentFacts DEF job, crtc, Ours
<1>6. PICK fence \in kms.fences :
        /\ planes' = [planes EXCEPT ![crtc][p].fence = fence]
        /\ pset' = set_crtc_props(set_plane_props(pset, p, planes'[crtc][p]), crtc, crtcs[crtc])
  BY <1>0 DEF SetInFence
<1>7. PICK changed : changed = [planes[crtc][p] EXCEPT !.fence = fence]
  OBVIOUS
<1>8. /\ changed \in PlaneFields /\ changed.fence = fence
      /\ changed.fb = planes[crtc][p].fb /\ changed.ctm = planes[crtc][p].ctm
  <2>1. kms.fences \subseteq Nat
    BY <1>2 DEF Data, KernelOK, KernelType
  <2>2. changed \in PlaneFields
    BY <1>5, <1>7, <2>1, PlaneFieldsOf
  <2> QED BY <1>5, <1>7, <2>2 DEF PlaneFields
<1>9. planes' = [planes EXCEPT ![crtc][p] = changed]
  BY <1>5, <1>6, <1>7
<1>10. /\ planes' \in [Crtcs -> [Planes -> PlaneFields]]
       /\ planes'[crtc][p] = changed
       /\ \A q \in Planes \ {p} : planes'[crtc][q] = planes[crtc][q]
  BY <1>2, <1>4, <1>8, <1>9, OnePlane
<1>11. PICK first : first = set_plane_props(pset, p, changed)
  OBVIOUS
<1>12. /\ first \in RequestType /\ first.plane[p] = changed /\ first.crtc = pset.crtc
       /\ \A q \in Planes \ {p} : first.plane[q] = pset.plane[q]
  <2>1. pset \in RequestType /\ p \in Planes
    BY <1>2, <1>4, <1>5 DEF Data, RequestOK
  <2> QED BY <1>8, <1>11, <2>1, SetPlaneProps
<1>13. /\ pset' \in RequestType /\ pset'.crtc[crtc].color = crtcs[crtc].color
       /\ \A d \in Crtcs \ {crtc} : pset'.crtc[d] = pset.crtc[d]
       /\ pset'.plane = first.plane
  <2>1. pset' = set_crtc_props(first, crtc, crtcs[crtc])
    BY <1>6, <1>10, <1>11
  <2>2. crtc \in Crtcs /\ crtcs[crtc] \in CrtcFields
    BY <1>5
  <2> QED BY <1>12, <2>1, <2>2, SetCrtcProps
<1>14. CopiesOK' /\ RequestOK'
  BY <1>1, <1>2, <1>10, <1>13 DEF Data, CopiesOK, RequestOK
<1>15. Data'
  BY <1>1, <1>2, <1>14 DEF Data, JobOK, job, KernelOK, OutsideOK
<1>16. OthersClear'
  BY <1>1, <1>2, <1>4, <1>5, <1>8, <1>9, OthersStay DEF Inside
<1>17. NamesNothing(base)'
  BY <1>1, <1>2 DEF Inside, NamesNothing
<1>18. Agrees'
  <2>1. /\ \A q \in Planes : pset.plane[q] # Null => /\ pset.plane[q].fb = planes[crtc][q].fb
                                                    /\ pset.plane[q].ctm = planes[crtc][q].ctm
        /\ \A c \in Crtcs : pset.crtc[c] # Null => c = crtc
    BY <1>2 DEF Inside, Agrees
  <2>2. \A c \in Crtcs : pset'.crtc[c] # Null => c = crtc
    BY <1>13, <2>1
  <2>3. pset'.plane[p] = planes'[crtc][p]
    BY <1>10, <1>12, <1>13
  <2>4. \A q \in Planes \ {p} : /\ pset'.plane[q] = pset.plane[q]
                                /\ planes'[crtc][q] = planes[crtc][q]
    BY <1>10, <1>12, <1>13
  <2>5. crtcs' = crtcs /\ crtc' = crtc
    BY <1>1, <1>5
  <2> HIDE DEF crtc
  <2> QED BY <1>13, <2>1, <2>2, <2>3, <2>4, <2>5 DEF Agrees
<1>19. \A q \in Ours : planes'[crtc][q].fb = planes[crtc][q].fb
                       /\ planes'[crtc][q].ctm = planes[crtc][q].ctm
  BY <1>5, <1>8, <1>10
<1>20. FbsOfPlanes' /\ FbsShown'
  BY <1>1, <1>2, <1>5, <1>19 DEF Inside, FbsOfPlanes, FbsShown
<1>21. crtcs' = crtcs /\ kms' = kms /\ planes'[crtc][p].ctm = planes[crtc][p].ctm
  BY <1>1, <1>8, <1>10
<1>22. /\ \A x \in Ours \cup {0} : BlobOf(x)' = BlobOf(x)
       /\ BlobsOfUses' /\ OneFence'
  BY <1>2, <1>4, <1>10, <1>21, BlobsStay DEF Inside
<1>23. Inside'
  BY <1>16, <1>17, <1>18, <1>20, <1>22 DEF Inside
<1>24. ASSUME NEW kind, NEW x, <<kind, x>> \in Marks(Ours), Holds(kind, x)'
       PROVE  \/ Holds(kind, x) /\ <<kind, x>> \notin Kills(Ours, script[step])
              \/ <<kind, x>> \in Makes(Ours, script[step])
  <2>1. Kills(Ours, script[step]) \subseteq {<<"unset", p>>}
    BY <1>0, <1>1 DEF Kills, plane_id
  <2>2. CASE kind = "fb"
    BY <1>5, <1>19, <1>24, <2>1, <2>2 DEF Holds
  <2>3. CASE kind \in {"live", "dead"}
    <3>1. x \in Ours \cup {0}
      BY <1>24, <2>3 DEF Marks
    <3> QED BY <1>21, <1>22, <1>24, <2>1, <2>3, <3>1 DEF Holds
  <2>4. CASE kind = "unset"
    <3>1. x \in Ours /\ ~(kms.fences \subseteq {planes'[crtc][x].fence})
      BY <1>5, <1>21, <1>24, <2>4 DEF Holds
    <3>2. x # p
      BY <1>2, <1>8, <1>10, <3>1 DEF Inside, OneFence
    <3>3. planes'[crtc][x] = planes[crtc][x]
      BY <1>5, <1>10, <3>1, <3>2
    <3> QED BY <2>1, <2>4, <3>1, <3>2, <3>3 DEF Holds
  <2>5. CASE kind = "fence"
    BY <1>21, <1>24, <2>1, <2>5 DEF Holds
  <2>6. CASE kind = "held"
    <3>1. x = 0
      BY <1>24, <2>6 DEF Marks
    <3> QED BY <1>1, <1>24, <2>6, <3>1 DEF Makes
  <2> QED BY <1>24, <2>2, <2>3, <2>4, <2>5, <2>6 DEF Marks
<1>25. Real' \subseteq Effect(Ours, script[step], Real)
  BY <1>2, <1>24, RealEffect
<1>26. /\ \/ pc' = "case" /\ step' \in Targets(step, script[step])
          \/ pc' = "cleanup" /\ UNCHANGED step /\ ret' = -1
       /\ ret' \in {-1, 0, 1} /\ moved' \in BOOLEAN
  BY <1>1, <1>2, Moves DEF Return
<1> QED BY <1>1, <1>2, <1>15, <1>23, <1>25, <1>26, StepDone

LEMMA OutFenceStep ==
  ASSUME Inv, SetOutFence
  PROVE  Inv'
PROOF
<1>1. /\ pc = "case" /\ step <= Len(script) /\ script[step].op = "out_fence"
      /\ UNCHANGED <<job, moved, planes, connectors, base, kms, event, timeline>> /\ Continue
      /\ crtcs' = [crtcs EXCEPT ![crtc].out_fence_ptr = TRUE]
      /\ pset' = set_crtc_props(pset, crtc, crtcs'[crtc]) /\ out_fence_fd' = FALSE
  BY DEF SetOutFence, At
<1>2. Data /\ todo # << >> /\ Inside /\ moved \in BOOLEAN /\ UNCHANGED job
  BY <1>1 DEF Inv, ControlOK
<1>3. script[step] \in StepType(Ours) /\ step \in Nat
  BY <1>1, TrackedAt
<1>4. crtc \in Crtcs /\ crtc' = crtc /\ Ours' = Ours
      /\ crtcs[crtc] \in CrtcFields /\ crtcs \in [Crtcs -> CrtcFields]
      /\ base \in RequestType /\ pset \in RequestType
  BY <1>2, CurrentFacts DEF job, crtc, Ours, Data, CopiesOK, RequestOK
<1>5. PICK fields : fields = [crtcs[crtc] EXCEPT !.out_fence_ptr = TRUE]
  OBVIOUS
<1>6. fields \in CrtcFields /\ fields.color = crtcs[crtc].color
  BY <1>4, <1>5 DEF CrtcFields
<1>7. crtcs' = [crtcs EXCEPT ![crtc] = fields]
  BY <1>1, <1>4, <1>5
<1>8. crtcs' \in [Crtcs -> CrtcFields] /\ crtcs'[crtc] = fields
      /\ \A c \in Crtcs \ {crtc} : crtcs'[c] = crtcs[c]
  BY <1>4, <1>6, <1>7
<1>9. /\ pset' \in RequestType /\ pset'.crtc[crtc].color = fields.color
      /\ pset'.plane = pset.plane
      /\ \A d \in Crtcs \ {crtc} : pset'.crtc[d] = pset.crtc[d]
  <2>1. pset' = set_crtc_props(pset, crtc, fields)
    BY <1>1, <1>8
  <2>2. crtc \in Crtcs /\ fields \in CrtcFields /\ pset \in RequestType
    BY <1>4, <1>6
  <2> QED BY <2>1, <2>2, SetCrtcProps
<1>10. Data'
  BY <1>1, <1>2, <1>8, <1>9
     DEF Data, JobOK, job, CopiesOK, RequestOK, KernelOK, OutsideOK
<1>11. FbsOfPlanes' /\ FbsShown' /\ BlobsOfUses' /\ OneFence' /\ Real' \subseteq Real
  <2>1. crtcs'[crtc].color = crtcs[crtc].color /\ planes' = planes /\ kms' = kms
        /\ timeline' = timeline
    BY <1>1, <1>6, <1>8
  <2> QED BY <1>2, <2>1, Unmoved DEF Inside
<1>12. OthersClear' /\ NamesNothing(base)'
  BY <1>1, <1>2, <1>4, <1>8 DEF Inside, OthersClear, NamesNothing, Clear
<1>13. Agrees'
  <2>1. /\ \A q \in Planes : pset.plane[q] # Null => /\ pset.plane[q].fb = planes[crtc][q].fb
                                                    /\ pset.plane[q].ctm = planes[crtc][q].ctm
        /\ \A c \in Crtcs : pset.crtc[c] # Null => c = crtc
    BY <1>2 DEF Inside, Agrees
  <2>2. \A c \in Crtcs : pset'.crtc[c] # Null => c = crtc
    BY <1>9, <2>1
  <2>3. pset'.crtc[crtc].color = crtcs'[crtc].color
    BY <1>8, <1>9
  <2>4. planes' = planes /\ pset'.plane = pset.plane
    BY <1>1, <1>9
  <2> HIDE DEF crtc
  <2> QED BY <1>4, <2>1, <2>2, <2>3, <2>4 DEF Agrees
<1>14. Inside'
  BY <1>11, <1>12, <1>13 DEF Inside
<1>15. Real' \subseteq Effect(Ours, script[step], Real)
  BY <1>1, <1>3, <1>11, Jumps
<1>16. pc' = "case" /\ step' \in Targets(step, script[step]) /\ ret' \in {-1, 0, 1}
       /\ moved' \in BOOLEAN
  BY <1>1, <1>2, Moves
<1> QED BY <1>1, <1>2, <1>10, <1>14, <1>15, <1>16, StepDone

\* The program is over, but for what it frees.
LEMMA ProgramEnds ==
  ASSUME Data', ControlOK', pc' \in {"out", "done"}
  PROVE  Inv'
PROOF
BY DEF Inv, CleanSlate

LEMMA EmptyType ==
  /\ Empty \in RequestType
  /\ \A connector \in [Connectors -> Crtcs \cup {0}] :
       /\ [Empty EXCEPT !.connector = connector] \in RequestType
       /\ [Empty EXCEPT !.connector = connector].plane = [p \in Planes |-> Null]
       /\ [Empty EXCEPT !.connector = connector].crtc = [c \in Crtcs |-> Null]
PROOF
<1>1. Empty \in RequestType
  BY DEF Empty, RequestType
<1>2. ASSUME NEW connector \in [Connectors -> Crtcs \cup {0}]
      PROVE  /\ [Empty EXCEPT !.connector = connector] \in RequestType
             /\ [Empty EXCEPT !.connector = connector].plane = [p \in Planes |-> Null]
             /\ [Empty EXCEPT !.connector = connector].crtc = [c \in Crtcs |-> Null]
  <2>1. connector \in [Connectors -> Crtcs \cup {0, Null}]
    OBVIOUS
  <2>2. [Empty EXCEPT !.connector = connector] =
          [plane |-> [p \in Planes |-> Null], crtc |-> [c \in Crtcs |-> Null],
           connector |-> connector]
    BY DEF Empty
  <2> QED BY <2>1, <2>2 DEF RequestType
<1> QED BY <1>1, <1>2

\* enable_crtc: a case is begun with nothing of the cases before it.
LEMMA EnableStep ==
  ASSUME Inv, EnableCrtc
  PROVE  Inv'
PROOF
<1>1. /\ pc = "enable" /\ todo # << >>
      /\ script' = cases(machine, crtc, screen', todo[1][2])
      /\ crtcs' = [crtcs EXCEPT ![crtc].active = TRUE]
      /\ pset' = set_crtc_props([Empty EXCEPT !.connector = connectors'], crtc, crtcs'[crtc])
      /\ base' = pset' /\ ret' = 0 /\ moved' = FALSE
      /\ machine' = machine /\ todo' = todo /\ planes' = planes /\ kms' = kms
      /\ event' = event /\ timeline' = timeline /\ out_fence_fd' = out_fence_fd
      /\ \/ pc' = "case" /\ step' = 1
         \/ pc' = "out" /\ step' = step
  BY DEF EnableCrtc, outside
<1>2. Data
  BY DEF Inv
<1>3. crtc \in Crtcs /\ crtc' = crtc /\ Ours' = Ours /\ machine \in Machines /\ Ours \subseteq Planes
      /\ crtcs[crtc] \in CrtcFields /\ crtcs \in [Crtcs -> CrtcFields] /\ 0 \notin Ours
      /\ todo[1][2] \in Range(Names) /\ Ours = PlaneSet(machine, crtc)
  BY <1>1, <1>2, CurrentFacts DEF crtc, Ours, Data, CopiesOK
<1>4. connectors' \in [Connectors -> Crtcs \cup {0}]
  <2>1. PICK conn : connectors' = [k \in Connectors |-> IF k = conn THEN crtc ELSE 0]
    BY DEF EnableCrtc
  <2> QED BY <1>3, <2>1
<1>5. screen' \in Range(machine.modes) /\ screen' \in Size
  <2>1. PICK i \in DOMAIN machine.modes : screen' = machine.modes[i]
    BY DEF EnableCrtc
  <2>2. machine.modes \in Seq(Size)
    BY <1>3, AtomicAssumption DEF MachineType
  <2>3. machine.modes[i] \in Size
    BY <2>2
  <2> QED BY <2>1, <2>3 DEF Range
<1>6. PICK fields : fields = [crtcs[crtc] EXCEPT !.active = TRUE]
  OBVIOUS
<1>7. /\ kms.fbs = {} /\ kms.blobs = {} /\ kms.fences = {} /\ timeline # "held"
      /\ \A c \in Crtcs : ~crtcs[c].active /\ crtcs[c].color = 0
      /\ \A c \in Crtcs, q \in Planes : Clear(planes[c][q])
  BY <1>1 DEF Inv, CleanSlate, Clear
<1>8. fields \in CrtcFields /\ fields.color = 0
  BY <1>3, <1>6, <1>7 DEF CrtcFields
<1>9. crtcs' = [crtcs EXCEPT ![crtc] = fields]
  BY <1>1, <1>3, <1>6
<1>10. crtcs' \in [Crtcs -> CrtcFields] /\ crtcs'[crtc] = fields
       /\ \A c \in Crtcs \ {crtc} : crtcs'[c] = crtcs[c]
  BY <1>3, <1>8, <1>9
<1>11. PICK first : first = [Empty EXCEPT !.connector = connectors']
  OBVIOUS
<1>12. /\ first \in RequestType /\ first.plane = [p \in Planes |-> Null]
       /\ first.crtc = [c \in Crtcs |-> Null]
  BY <1>4, <1>11, EmptyType
<1>13. /\ pset' \in RequestType /\ pset'.crtc[crtc].color = 0
       /\ pset'.plane = first.plane
       /\ \A d \in Crtcs \ {crtc} : pset'.crtc[d] = first.crtc[d]
  <2>1. pset' = set_crtc_props(first, crtc, fields)
    BY <1>1, <1>10, <1>11
  <2>2. crtc \in Crtcs
    BY <1>3
  <2> QED BY <1>8, <1>12, <2>1, <2>2, SetCrtcProps
<1>14. Data'
  BY <1>1, <1>2, <1>4, <1>5, <1>10, <1>13
     DEF Data, JobOK, CopiesOK, RequestOK, KernelOK, OutsideOK
<1>15. ControlOK'
  <2>1. step \in Nat
    BY DEF Inv, ControlOK
  <2>2. step' \in Nat
    <3>1. step' = 1 \/ step' = step
      BY <1>1
    <3> QED BY <2>1, <3>1
  <2>3. ret' \in {-1, 0, 1} /\ moved' \in BOOLEAN
    <3>1. ret' = 0 /\ moved' = FALSE
      BY <1>1
    <3> QED BY <3>1
  <2> QED BY <1>1, <2>2, <2>3 DEF ControlOK
<1>16. CASE pc' = "out"
  BY <1>14, <1>15, <1>16, ProgramEnds
<1>17. CASE pc' = "case" /\ step' = 1
  <2>1. \A q \in Planes : planes[crtc][q].fb = 0 /\ planes[crtc][q].ctm = 0
    <3>1. \A f : Clear(f) => f.fb = 0 /\ f.ctm = 0
      BY DEF Clear, NoPlane
    <3> HIDE DEF crtc
    <3> QED BY <1>3, <1>7, <3>1
  <2>2. \A x \in Ours \cup {0} : BlobOf(x)' = 0
    BY <1>1, <1>3, <1>8, <1>10, <2>1 DEF BlobOf
  <2>3. Real' = {}
    <3>1. ASSUME NEW kind, NEW x, <<kind, x>> \in Marks(Ours), Holds(kind, x)' PROVE FALSE
      <4>1. CASE kind = "fb"
        BY <1>1, <1>3, <2>1, <3>1, <4>1 DEF Holds
      <4>2. CASE kind \in {"live", "dead"}
        <5>1. x \in Ours \cup {0}
          BY <3>1, <4>2 DEF Marks
        <5> QED BY <1>1, <1>7, <2>2, <3>1, <4>2, <5>1 DEF Holds
      <4>3. CASE kind \in {"unset", "fence", "held"}
        BY <1>1, <1>7, <3>1, <4>3 DEF Holds
      <4> QED BY <3>1, <4>1, <4>2, <4>3 DEF Marks
    <3>2. Marks(Ours)' = Marks(Ours)
      BY <1>3 DEF Marks
    <3>3. \A mark \in Marks(Ours) : mark = <<mark[1], mark[2]>>
      BY DEF Marks
    <3> QED BY <3>1, <3>2, <3>3 DEF Real
  <2>4. FbsOfPlanes' /\ FbsShown'
    BY <1>1, <1>3, <1>7, <2>1 DEF FbsOfPlanes, FbsShown
  <2>5. BlobsOfUses' /\ OneFence'
    BY <1>1, <1>3, <1>7, <2>2 DEF BlobsOfUses, OneFence
  <2>6. Agrees'
    BY <1>3, <1>8, <1>10, <1>12, <1>13 DEF Agrees
  <2>7. OthersClear'
    BY <1>1, <1>3, <1>7, <1>10 DEF OthersClear, Clear
  <2>8. NamesNothing(base)'
    <3>1. \A q \in Planes : base'.plane[q] = Null
      BY <1>1, <1>12, <1>13
    <3>2. \A c \in Crtcs \ {crtc} : base'.crtc[c] = Null
      BY <1>1, <1>12, <1>13
    <3>3. base'.crtc[crtc].color = 0
      BY <1>1, <1>13
    <3> HIDE DEF crtc
    <3> QED BY <3>1, <3>2, <3>3 DEF NamesNothing
  <2>9. Inside'
    BY <2>4, <2>5, <2>6, <2>7, <2>8 DEF Inside
  <2>10. script' \in Proper(Ours, {}, LeftOver(Ours))
    BY <1>1, <1>3, <1>5, CasesProper
  <2>11. script' \in Seq(StepType(Ours)) /\ OnTrack(Ours, script', 1, {})
    BY <2>10, TrackBegins DEF Proper
  <2>12. Tracked'
    <3>1. Seq(StepType(Ours))' = Seq(StepType(Ours))
      BY <1>3 DEF StepType
    <3>2. NextStep' = 1
      BY <1>17 DEF NextStep
    <3> QED BY <1>3, <1>17, <2>3, <2>11, <3>1, <3>2 DEF Tracked
  <2>13. CleanSlate'
    BY <1>17 DEF CleanSlate
  <2> QED BY <1>1, <1>14, <1>15, <1>17, <2>9, <2>12, <2>13 DEF Inv
<1> QED BY <1>1, <1>16, <1>17

LEMMA EndingSteps ==
  ASSUME Inv, NoConnection \/ AllDone
  PROVE  Inv'
PROOF
<1>1. /\ UNCHANGED <<job, step, ret, moved, planes, crtcs, base, kms, outside>>
      /\ pc' = "out"
      /\ connectors' \in [Connectors -> Crtcs \cup {0}] /\ pset' \in RequestType
  <2>1. CASE NoConnection
    <3>1. connectors' \in [Connectors -> Crtcs \cup {0}]
      BY <2>1 DEF NoConnection
    <3>2. PICK conns : conns = connectors'
      OBVIOUS
    <3>3. [Empty EXCEPT !.connector = conns] \in RequestType
      BY <3>1, <3>2, EmptyType
    <3> QED BY <2>1, <3>1, <3>2, <3>3 DEF NoConnection
  <2>2. CASE AllDone
    BY <2>2 DEF AllDone, request, Inv, Data, CopiesOK, RequestOK
  <2> QED BY <2>1, <2>2
<1>2. Data /\ ControlOK
  BY DEF Inv
<1>3. Data'
  BY <1>1, <1>2 DEF Data, JobOK, job, CopiesOK, RequestOK, KernelOK, OutsideOK, outside
<1>4. ControlOK'
  BY <1>1, <1>2 DEF ControlOK
<1> QED BY <1>1, <1>3, <1>4, ProgramEnds

\* run_testcase puts back what the case did to the planes.
LEMMA DisablePlanesStep ==
  ASSUME Inv, DisablePlanes
  PROVE  Inv'
PROOF
<1>1. /\ pc = "cleanup" /\ pc' = "last_commit" /\ kms' = RmFB(kms, Shown) /\ pset' = base
      /\ UNCHANGED <<job, step, ret, moved, crtcs, connectors, base, outside>>
      /\ planes' = [planes EXCEPT ![crtc] =
                      [q \in Planes |-> IF q \in Ours THEN Disabled(planes[crtc][q])
                                        ELSE planes[crtc][q]]]
  BY DEF DisablePlanes
<1>2. Data /\ ControlOK /\ todo # << >> /\ Leaving
  BY <1>1 DEF Inv
<1>3. crtc \in Crtcs /\ crtc' = crtc /\ Ours' = Ours /\ todo' = todo
      /\ planes \in [Crtcs -> [Planes -> PlaneFields]] /\ base \in RequestType
      /\ \A c \in Crtcs, q \in Planes : planes[c][q] \in PlaneFields
  BY <1>1, <1>2, CurrentFacts DEF job, crtc, Ours, Data, RequestOK
<1>4. \A q \in Planes : /\ Disabled(planes[crtc][q]) \in PlaneFields
                        /\ Clear(Disabled(planes[crtc][q]))
  BY <1>3, PlaneFieldsOf DEF Clear
<1>5. PICK row : row = [q \in Planes |-> IF q \in Ours THEN Disabled(planes[crtc][q])
                                         ELSE planes[crtc][q]]
  OBVIOUS
<1>6. row \in [Planes -> PlaneFields]
  BY <1>3, <1>4, <1>5
<1>7. \A q \in Planes : Clear(row[q])
  <2>1. \A q \in Planes \ Ours : Clear(planes[crtc][q])
    BY <1>2 DEF Leaving, OthersClear
  <2>2. ASSUME NEW q \in Planes PROVE Clear(row[q])
    <3>1. row[q] = IF q \in Ours THEN Disabled(planes[crtc][q]) ELSE planes[crtc][q]
      BY <1>5
    <3> QED BY <1>4, <2>1, <3>1
  <2> QED BY <2>2
<1>8. planes' \in [Crtcs -> [Planes -> PlaneFields]] /\ planes'[crtc] = row
      /\ \A c \in Crtcs \ {crtc} : planes'[c] = planes[c]
  <2>1. planes' = [planes EXCEPT ![crtc] = row]
    BY <1>1, <1>5
  <2> HIDE DEF crtc
  <2> QED BY <1>3, <1>6, <2>1
<1>9. kms \in KernelType /\ IsFiniteSet(kms.blobs) /\ IsFiniteSet(kms.fences)
      /\ 0 \notin kms.fbs /\ 0 \notin kms.blobs
  BY <1>2 DEF Data, KernelOK
<1>10. /\ kms' \in KernelType /\ kms'.fbs = kms.fbs \ Shown
       /\ kms'.blobs = kms.blobs /\ kms'.fences = kms.fences
  BY <1>1, <1>9, RmFBType
<1>11. kms'.fbs = {}
  <2>1. ASSUME NEW f \in kms.fbs PROVE f \in Shown
    <3>1. PICK q \in Ours : planes[crtc][q].fb = f
      BY <1>2 DEF Leaving, FbsShown
    <3>2. f # 0
      BY <1>9
    <3> QED BY <3>1, <3>2 DEF Shown
  <2> QED BY <1>10, <2>1
<1>12. KernelOK'
  <2>1. IsFiniteSet(kms'.fbs)
    BY <1>11, FS_EmptySet
  <2> QED BY <1>9, <1>10, <1>11, <2>1 DEF KernelOK
<1>13. Data'
  BY <1>1, <1>2, <1>3, <1>8, <1>12 DEF Data, JobOK, job, CopiesOK, RequestOK, OutsideOK, outside
<1>14. ControlOK'
  BY <1>1, <1>2 DEF ControlOK
<1>15. \A q \in Planes : Clear(planes'[crtc][q])
  BY <1>7, <1>8
<1>16. OthersClear'
  <2>1. \A c \in Crtcs \ {crtc} : /\ ~crtcs[c].active /\ crtcs[c].color = 0
                                  /\ \A q \in Planes : Clear(planes[c][q])
    BY <1>2 DEF Leaving, OthersClear
  <2>2. \A c \in Crtcs \ {crtc} : \A q \in Planes : Clear(planes'[c][q])
    BY <1>8, <2>1
  <2>3. \A fields : Clear(fields)' = Clear(fields)
    BY DEF Clear
  <2>4. crtcs' = crtcs
    BY <1>1
  <2> HIDE DEF crtc
  <2> QED BY <1>3, <1>15, <2>1, <2>2, <2>4 DEF OthersClear, Clear
<1>17. NamesNothing(base)' /\ pset' = base' /\ (ret' = -1 \/ Released')
  BY <1>1, <1>2, <1>10 DEF Leaving, NamesNothing, Released, outside
<1>18. Over'
  <2> HIDE DEF crtc
  <2> QED BY <1>1, <1>3, <1>11, <1>15, <1>16, <1>17 DEF Over, Clear
<1>19. CleanSlate'
  BY <1>1 DEF CleanSlate
<1> QED BY <1>1, <1>2, <1>3, <1>13, <1>14, <1>18, <1>19 DEF Inv

\* The last commit names nothing that could have gone.
LEMMA LastCommitStep ==
  ASSUME Inv, LastCommit
  PROVE  Inv'
PROOF
<1>1. pc = "last_commit" /\ UNCHANGED <<job, step, moved, request>>
  BY DEF LastCommit
<1>2. Data /\ ControlOK /\ todo # << >> /\ Over
  BY <1>1 DEF Inv
<1>3. kms \in KernelType /\ pset \in RequestType
  BY <1>2 DEF Data, KernelOK, RequestOK
<1>4. /\ kms' \in KernelType /\ kms'.fbs = kms.fbs /\ kms'.blobs = kms.blobs
      /\ kms'.fences = kms.fences
  <2>1. kms' = kms \/ kms' = After(pset)
    BY DEF LastCommit, CommitPset
  <2> QED BY <1>3, <2>1, AfterType
<1>5. timeline' = timeline /\ OutsideOK'
  <2>1. CASE UNCHANGED outside
    BY <1>2, <2>1 DEF outside, OutsideOK, Data
  <2>2. CASE CommitPset
    BY <2>2, Committed
  <2> QED BY <2>1, <2>2 DEF LastCommit
<1>6. Data'
  BY <1>1, <1>2, <1>4, <1>5 DEF Data, JobOK, job, CopiesOK, request, RequestOK, KernelOK
<1>7. ret' \in {-1, 0, 1} /\ (ret' = ret \/ ret' = -1) /\ pc' \in {"last_wait", "out"}
  BY <1>2 DEF LastCommit, CalledAgain, ControlOK
<1>8. ControlOK'
  BY <1>1, <1>2, <1>7 DEF ControlOK
<1>9. CASE pc' = "out"
  BY <1>6, <1>8, <1>9, ProgramEnds
<1>10. CASE pc' = "last_wait"
  <2>1. crtc' = crtc /\ Ours' = Ours /\ crtcs' = crtcs /\ planes' = planes /\ pset' = pset
        /\ base' = base /\ todo' = todo
    BY <1>1 DEF job, request, crtc, Ours
  <2>2. OthersClear' /\ NamesNothing(base)'
    BY <1>2, <2>1 DEF Over, OthersClear, NamesNothing, Clear
  <2>3. Released => Released'
    BY <1>4, <1>5 DEF Released
  <2>4. Over'
    BY <1>2, <1>4, <1>7, <1>10, <2>1, <2>2, <2>3 DEF Over, Clear
  <2>5. CleanSlate'
    BY <1>10 DEF CleanSlate
  <2> QED BY <1>2, <1>6, <1>8, <1>10, <2>1, <2>4, <2>5 DEF Inv
<1> QED BY <1>7, <1>9, <1>10

\* disable_crtc, after which nothing is lit, and the next case.
LEMMA DisableCrtcStep ==
  ASSUME Inv, DisableCrtc
  PROVE  Inv'
PROOF
<1>1. /\ pc = "disable" /\ connectors' = [k \in Connectors |-> 0]
      /\ crtcs' = [crtcs EXCEPT ![crtc].active = FALSE, ![crtc].color = 0]
      /\ pset' = set_crtc_props([pset EXCEPT !.connector = connectors'], crtc, crtcs'[crtc])
      /\ machine' = machine /\ script' = script /\ screen' = screen /\ step' = step /\ ret' = ret
      /\ moved' = moved /\ planes' = planes /\ base' = base
      /\ event' = event /\ timeline' = timeline /\ out_fence_fd' = out_fence_fd
  BY DEF DisableCrtc, outside
<1>2. Data /\ ControlOK /\ todo # << >> /\ Over
  BY <1>1 DEF Inv
<1>3. crtc \in Crtcs /\ crtcs[crtc] \in CrtcFields /\ crtcs \in [Crtcs -> CrtcFields]
      /\ pset \in RequestType /\ kms \in KernelType /\ Tail(todo) \in Seq(Crtcs \X Range(Names))
      /\ todo \in Seq(Crtcs \X Range(Names))
  BY <1>2, CurrentFacts DEF Data, JobOK, CopiesOK, RequestOK, KernelOK
<1>4. PICK fields : fields = [crtcs[crtc] EXCEPT !.active = FALSE, !.color = 0]
  OBVIOUS
<1>5. fields \in CrtcFields /\ fields.color = 0 /\ ~fields.active
  BY <1>3, <1>4 DEF CrtcFields
<1>6. crtcs' = [crtcs EXCEPT ![crtc] = fields]
  BY <1>1, <1>3, <1>4
<1>7. crtcs' \in [Crtcs -> CrtcFields] /\ crtcs'[crtc] = fields
      /\ \A c \in Crtcs \ {crtc} : crtcs'[c] = crtcs[c]
  BY <1>3, <1>5, <1>6
<1>8. PICK req : req = [pset EXCEPT !.connector = connectors']
  OBVIOUS
<1>9. req \in RequestType /\ \A k \in Connectors : req.connector[k] = 0
  <2>1. connectors' \in [Connectors -> Crtcs \cup {0, Null}]
    BY <1>1
  <2>2. req \in RequestType /\ req.connector = connectors'
    BY <1>3, <1>8, <2>1 DEF RequestType
  <2> QED BY <1>1, <2>2
<1>10. pset' \in RequestType /\ \A k \in Connectors : pset'.connector[k] = 0
  <2>1. pset' = set_crtc_props(req, crtc, fields)
    BY <1>1, <1>7, <1>8
  <2>2. crtc \in Crtcs /\ fields \in CrtcFields /\ req \in RequestType
    BY <1>3, <1>5, <1>9
  <2> QED BY <1>9, <2>1, <2>2, SetCrtcProps
<1>11. PICK last : last = pset'
  OBVIOUS
<1>12. /\ After(last) \in KernelType /\ After(last).fbs = kms.fbs
       /\ After(last).blobs = kms.blobs /\ After(last).fences = kms.fences
       /\ \A k \in Connectors : After(last).connector[k] = 0
  <2>1. last \in RequestType /\ \A k \in Connectors : last.connector[k] = 0
    BY <1>10, <1>11
  <2>2. 0 # Null
    BY AtomicAssumption
  <2>3. kms \in KernelType
    BY <1>3
  <2>4. /\ After(last) \in KernelType /\ After(last).fbs = kms.fbs
        /\ After(last).blobs = kms.blobs /\ After(last).fences = kms.fences
        /\ After(last).connector =
             [k \in Connectors |-> IF last.connector[k] = Null THEN kms.connector[k]
                                   ELSE last.connector[k]]
    BY <2>1, <2>3, AfterType
  <2> QED BY <2>1, <2>2, <2>4
<1>13. \/ kms' = kms /\ todo' = todo /\ pc' = "out"
       \/ kms' = After(last) /\ todo' = Tail(todo) /\ pc' = "enable" /\ Accepts(last)
  BY <1>11 DEF DisableCrtc
<1>14. KernelOK'
  <2>1. KernelOK
    BY <1>2 DEF Data
  <2>2. kms' \in KernelType /\ kms'.fbs = kms.fbs /\ kms'.blobs = kms.blobs
        /\ kms'.fences = kms.fences
    BY <1>3, <1>12, <1>13
  <2> QED BY <2>1, <2>2 DEF KernelOK
<1>15. Data'
  <2>1. connectors' \in [Connectors -> Crtcs \cup {0}]
    BY <1>1
  <2>2. todo' \in Seq(Crtcs \X Range(Names))
    BY <1>3, <1>13
  <2> QED BY <1>1, <1>2, <1>7, <1>10, <1>14, <2>1, <2>2
         DEF Data, JobOK, CopiesOK, RequestOK, OutsideOK
<1>16. ControlOK'
  BY <1>1, <1>2, <1>13 DEF ControlOK
<1>17. CASE pc' = "out"
  BY <1>15, <1>16, <1>17, ProgramEnds
<1>18. CASE kms' = After(last) /\ todo' = Tail(todo) /\ pc' = "enable" /\ Accepts(last)
  <2>1. Released /\ kms.fbs = {} /\ OthersClear /\ \A q \in Planes : Clear(planes[crtc][q])
    BY <1>1, <1>2 DEF Over
  <2>2. kms'.fbs = {} /\ kms'.blobs = {} /\ kms'.fences = {} /\ timeline' # "held"
    BY <1>1, <1>12, <1>18, <2>1 DEF Released
  <2>3. \A c \in Crtcs : ~kms'.active[c] /\ c \notin Outputs'
    <3> SUFFICES ASSUME NEW c \in Crtcs PROVE ~kms'.active[c] /\ c \notin Outputs'
      OBVIOUS
    <3>1. c # 0
      BY AtomicAssumption, Counted
    <3>2. \A k \in Connectors : kms'.connector[k] # c
      BY <1>12, <1>18, <3>1
    <3>3. kms'.active[c] <=> \E k \in Connectors : kms'.connector[k] = c
      BY <1>18 DEF Accepts
    <3> QED BY <3>2, <3>3 DEF Outputs
  <2>4. \A c \in Crtcs : ~crtcs'[c].active /\ crtcs'[c].color = 0
    BY <1>5, <1>7, <2>1 DEF OthersClear
  <2>5. \A c \in Crtcs, q \in Planes : Clear(planes'[c][q])
    <3>1. \A c \in Crtcs \ {crtc} : \A q \in Planes : Clear(planes[c][q])
      BY <2>1 DEF OthersClear
    <3> HIDE DEF crtc
    <3> QED BY <1>1, <2>1, <3>1
  <2>6. CleanSlate'
    BY <2>2, <2>3, <2>4, <2>5 DEF CleanSlate, Clear
  <2> QED BY <1>15, <1>16, <1>18, <2>2, <2>6 DEF Inv
<1> QED BY <1>13, <1>17, <1>18

\* free_context.
LEMMA FreeStep ==
  ASSUME Inv, FreeContext
  PROVE  Inv'
PROOF
<1>1. /\ pc' = "done" /\ planes' = PlaneInit
      /\ kms' = RmFB(kms, {planes[c][q].fb : c \in Crtcs, q \in Planes} \ {0})
      /\ UNCHANGED <<job, step, ret, moved, crtcs, connectors, base, pset, outside>>
  BY DEF FreeContext
<1>2. Data /\ ControlOK
  BY DEF Inv
<1> DEFINE gone == {planes[c][q].fb : c \in Crtcs, q \in Planes} \ {0}
<1>3. kms' = RmFB(kms, gone)
  BY <1>1
<1> HIDE DEF gone
<1>4. KernelOK
  BY <1>2 DEF Data
<1>5. /\ kms' \in KernelType /\ kms'.fbs = kms.fbs \ gone
      /\ kms'.blobs = kms.blobs /\ kms'.fences = kms.fences
  BY <1>3, <1>4, RmFBType DEF KernelOK
<1>6. IsFiniteSet(kms.fbs \ gone)
  BY <1>4, FS_Subset DEF KernelOK
<1>7. KernelOK'
  BY <1>4, <1>5, <1>6 DEF KernelOK
<1>8. planes' \in [Crtcs -> [Planes -> PlaneFields]]
  BY <1>1 DEF PlaneInit, NoPlane, PlaneFields, Nowhere, Rect
<1>9. Data'
  BY <1>1, <1>2, <1>7, <1>8 DEF Data, JobOK, job, CopiesOK, RequestOK, OutsideOK, outside
<1>10. ControlOK'
  BY <1>1, <1>2 DEF ControlOK
<1> QED BY <1>1, <1>9, <1>10, ProgramEnds

LEMMA InvInit == Init => Inv
PROOF
<1> SUFFICES ASSUME Init PROVE Inv
  OBVIOUS
<1>1. machine \in Machines /\ machine.modes # << >> /\ machine.modes \in Seq(Size)
  BY AtomicAssumption DEF Init, MachineType
<1>2. screen \in Range(machine.modes)
  <2>1. screen = machine.modes[1] /\ 1 \in DOMAIN machine.modes
    BY <1>1 DEF Init
  <2> QED BY <2>1 DEF Range
<1>3. todo \in Seq(Crtcs \X Range(Names))
  BY TodoType DEF Init
<1>4. planes \in [Crtcs -> [Planes -> PlaneFields]]
  BY DEF Init, PlaneInit, NoPlane, PlaneFields, Nowhere, Rect
<1>5. crtcs \in [Crtcs -> CrtcFields] /\ connectors \in [Connectors -> Crtcs \cup {0}]
  BY DEF Init, CrtcFields
<1>6. kms \in KernelType /\ kms.fbs = {} /\ kms.blobs = {} /\ kms.fences = {}
  BY <1>1, KmsInitType DEF Init
<1>7. KernelOK
  BY <1>6, FS_EmptySet DEF KernelOK
<1>8. Data
  <2>1. base \in RequestType /\ pset \in RequestType
    BY EmptyType DEF Init
  <2>2. OutsideOK
    BY DEF Init, OutsideOK
  <2> QED BY <1>1, <1>2, <1>3, <1>4, <1>5, <1>7, <2>1, <2>2
         DEF Data, JobOK, CopiesOK, RequestOK
<1>9. ControlOK
  BY DEF Init, ControlOK
<1>10. CleanSlate
  <2>1. \A c \in Crtcs, p \in Planes :
          planes[c][p] = [NoPlane EXCEPT !.fence = planes[c][p].fence]
    <3>1. [NoPlane EXCEPT !.fence = NoPlane.fence] = NoPlane
      BY DEF NoPlane
    <3>2. \A c \in Crtcs, p \in Planes : planes[c][p] = NoPlane
      BY DEF Init, PlaneInit
    <3> QED BY <3>1, <3>2
  <2>2. kms = KmsInit
    BY DEF Init
  <2>3. \A c \in Crtcs : ~crtcs[c].active /\ crtcs[c].color = 0
    BY DEF Init
  <2> QED BY <1>6, <2>1, <2>2, <2>3 DEF CleanSlate
<1>11. pc = "enable" /\ timeline = "none"
  BY DEF Init
<1> QED BY <1>8, <1>9, <1>10, <1>11 DEF Inv

\* The invariant is kept by every step.
LEMMA InvStep == Inv /\ [Next]_vars => Inv'
PROOF
<1> SUFFICES ASSUME Inv, [Next]_vars PROVE Inv'
  OBVIOUS
<1>1. CASE EnableCrtc
  BY <1>1, EnableStep
<1>2. CASE NoConnection \/ AllDone
  BY <1>2, EndingSteps
<1>3. CASE InitPlane
  BY <1>3, InitStep
<1>4. CASE DrawToPlane \/ Again \/ Join \/ Unsupported \/ CheckOutFence
  BY <1>4, SimpleSteps
<1>5. CASE SetProps \/ MovePlane \/ ScalePlane
  BY <1>5, PlaneSteps
<1>6. CASE DisablePlane
  BY <1>6, DisableStep
<1>7. CASE CreateBlob
  BY <1>7, CreateBlobStep
<1>8. CASE DestroyBlob
  BY <1>8, DestroyBlobStep
<1>9. CASE TestAndCommit \/ CommitIfPossible
  BY <1>9, CommitSteps
<1>10. CASE HandleEvent
  BY <1>10, EventStep
<1>11. CASE CreateTimeline
  BY <1>11, TimelineStep
<1>12. CASE SetInFence
  BY <1>12, InFenceStep
<1>13. CASE CloseFence
  BY <1>13, CloseStep
<1>14. CASE SetOutFence
  BY <1>14, OutFenceStep
<1>15. CASE DropResult \/ EndOfCase
  BY <1>15, ResultSteps
<1>16. CASE DisablePlanes
  BY <1>16, DisablePlanesStep
<1>17. CASE LastCommit
  BY <1>17, LastCommitStep
<1>18. CASE DisableCrtc
  BY <1>18, DisableCrtcStep
<1>19. CASE FreeContext
  BY <1>19, FreeStep
<1>20. CASE PageFlip \/ IncTimeline
  BY <1>20, OutsideSteps
<1>21. CASE UNCHANGED vars
  <2>1. UNCHANGED <<job, pc, step, ret, moved, request, kms>> /\ timeline' = timeline
        /\ event' = event /\ out_fence_fd' = out_fence_fd
    BY <1>21 DEF vars, outside
  <2>2. OutsideOK'
    BY <2>1 DEF OutsideOK, Inv, Data
  <2> QED BY <2>1, <2>2, OutsideStep
<1> QED BY <1>1, <1>2, <1>3, <1>4, <1>5, <1>6, <1>7, <1>8, <1>9, <1>10, <1>11, <1>12, <1>13,
           <1>14, <1>15, <1>16, <1>17, <1>18, <1>19, <1>20, <1>21 DEF Next, Program

LEMMA InvKept == Spec => []Inv
PROOF
BY InvInit, InvStep, PTL DEF Spec

\* The types of TypeOK are kept: no step of any case, on any machine and
\* whatever the driver refuses, gives a value of another kind.
THEOREM TypesAreKept == Spec => []TypeOK
PROOF
<1>1. Inv => TypeOK
  BY DataTyped DEF Inv
<1> QED BY <1>1, InvKept, PTL

\* When a case is begun nothing of the cases before it is left, in the kernel or
\* in the program's own copies of the properties (run_testcase, disable_plane,
\* disable_crtc), whichever steps of those failed.
THEOREM SlateIsCleaned == Spec => []CleanSlate
PROOF
<1>1. Inv => CleanSlate
  BY DEF Inv
<1> QED BY <1>1, InvKept, PTL

\* A request that is given to the kernel names no framebuffer and no blob that
\* has been destroyed (remove_plane_fb, drmModeDestroyPropertyBlob64,
\* run_testcase), for every case as it is written.
THEOREM CommitsStayLive == Spec => []CommitsAreLive
PROOF
<1>1. ASSUME Inv, At("test_and_commit") \/ At("commit_if_possible")
      PROVE  RefersToLive(pset)
  <2>1. /\ pc = "case" /\ step <= Len(script)
        /\ script[step].op \in {"test_and_commit", "commit_if_possible"}
    BY <1>1 DEF At
  <2>2. Data /\ todo # << >> /\ Inside
    BY <1>1, <2>1 DEF Inv
  <2>3. Forbids(Ours, script[step]) \cap Real = {}
    BY <1>1, <2>1, TrackedAt
  <2>4. \A x \in Ours \cup {0} : <<"dead", x>> \in Forbids(Ours, script[step])
    <3>1. \A x \in Ours \cup {0} : <<"dead", x>> \in Dead(Ours) /\ <<"dead", x>> \in Marks(Ours)
      BY DEF Dead, Marks
    <3>2. \A mark \in Marks(Ours) : mark \in Dead(Ours) => mark \in Forbids(Ours, script[step])
      BY <2>1 DEF Forbids
    <3> HIDE DEF crtc
    <3> QED BY <3>1, <3>2
  <2>5. \A x \in Ours \cup {0} : BlobOf(x) \in kms.blobs \cup {0}
    BY <2>2, <2>3, <2>4, MarksSeen
  <2>6. crtc \in Crtcs /\ 0 \notin Ours
    BY <2>2, CurrentFacts
  <2>7. \A fields : Clear(fields) => fields.fb = 0 /\ fields.ctm = 0
    BY DEF Clear, NoPlane
  <2>8. ASSUME NEW q \in Planes
        PROVE  planes[crtc][q].fb \in kms.fbs \cup {0} /\ planes[crtc][q].ctm \in kms.blobs \cup {0}
    <3>1. CASE q \in Ours
      <4>1. planes[crtc][q].fb \in kms.fbs \cup {0}
        BY <2>2, <3>1 DEF Inside, FbsOfPlanes
      <4>2. BlobOf(q) = planes[crtc][q].ctm
        BY <2>6, <3>1 DEF BlobOf
      <4> QED BY <2>5, <3>1, <4>1, <4>2
    <3>2. CASE q \notin Ours
      <4>1. Clear(planes[crtc][q])
        BY <2>2, <3>2 DEF Inside, OthersClear
      <4> QED BY <2>7, <4>1
    <3> QED BY <3>1, <3>2
  <2>9. crtcs[crtc].color \in kms.blobs \cup {0}
    BY <2>5 DEF BlobOf
  <2> HIDE DEF crtc
  <2> QED BY <2>2, <2>8, <2>9 DEF Inside, Agrees, RefersToLive
<1>2. ASSUME Inv, pc = "last_commit" PROVE RefersToLive(pset)
  BY <1>2 DEF Inv, Over, NamesNothing, RefersToLive
<1>3. Inv => CommitsAreLive
  BY <1>1, <1>2 DEF CommitsAreLive
<1> QED BY <1>3, InvKept, PTL

\* The timeline is not closed before the thread has incremented it, whether the
\* commits that would wait for that are refused or not (test_in_fence).
THEOREM TimelineIsOutlived == Spec => TimelineOutlivesThread
PROOF
<1>1. ASSUME Inv, [Next]_vars, timeline = "held" PROVE timeline' # "none"
  <2>1. CASE CloseFence
    BY <1>1, <2>1, CloseStep
  <2>2. CASE CreateTimeline \/ SetInFence \/ IncTimeline
    BY <1>1, <2>2 DEF CreateTimeline, SetInFence, IncTimeline
  <2>3. CASE TestAndCommit \/ CommitIfPossible \/ LastCommit
    BY <1>1, <2>3 DEF TestAndCommit, CommitIfPossible, LastCommit, CommitPset, outside
  <2>4. CASE HandleEvent \/ PageFlip \/ SetOutFence
    BY <1>1, <2>4 DEF HandleEvent, PageFlip, SetOutFence
  <2>5. CASE UNCHANGED outside
    BY <1>1, <2>5 DEF outside
  <2>6. CASE UNCHANGED vars
    BY <1>1, <2>6 DEF vars, outside
  <2>7. \/ CloseFence \/ CreateTimeline \/ SetInFence \/ IncTimeline
        \/ TestAndCommit \/ CommitIfPossible \/ LastCommit
        \/ HandleEvent \/ PageFlip \/ SetOutFence
        \/ UNCHANGED outside \/ UNCHANGED vars
    BY <1>1 DEF Next, Program, EnableCrtc, NoConnection, AllDone, InitPlane, DrawToPlane,
                SetProps, MovePlane, ScalePlane, Again, DisablePlane, CreateBlob, DestroyBlob,
                Join, CheckOutFence, Unsupported, DropResult, EndOfCase,
                DisablePlanes, DisableCrtc, FreeContext
  <2> QED BY <2>1, <2>2, <2>3, <2>4, <2>5, <2>6, <2>7
<1>2. Inv /\ [Next]_vars => [timeline = "held" => timeline' # "none"]_vars
  BY <1>1
<1> QED BY <1>2, InvKept, PTL DEF Spec, TimelineOutlivesThread
=============================================================================
