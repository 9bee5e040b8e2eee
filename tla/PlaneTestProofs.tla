--------------------------- MODULE PlaneTestProofs ---------------------------
(***************************************************************************)
(* Proofs about plane_test.c, for any card, arguments, screen and speed    *)
(* (a speed that is at most the screen's size).                            *)
(***************************************************************************)
EXTENDS PlaneTest, WellFoundedInduction, TLAPS

----------------------------------------------------------------------------
\* Planes are found in the order in which they are looked at: that none is
\* found twice needs the bound plane_index.
Finding ==
  /\ argv \in Seq(OptionsType) /\ card \in Seq(PlaneType)
  /\ plane_index \in Nat \ {0}
  /\ plane_ids \in [Wanted -> Nat]
  /\ \A t \in Wanted : plane_ids[t] < plane_index

IFit == Finding /\ PlanesFit

\* A set of naturals that is not empty has a least element.
LEMMA LeastNatural ==
  ASSUME NEW S \in SUBSET Nat, S # {}
  PROVE  \E least \in S : \A n \in S : least <= n
PROOF
<1> DEFINE Less == OpToRel(<, Nat)
<1>1. IsWellFoundedOn(Less, Nat)
  BY NatLessThanWellFounded
<1>2. \A m, n \in Nat : <<m, n>> \in Less <=> m < n
  BY DEF OpToRel
<1> HIDE DEF Less
<1>3. PICK least \in S : \A n \in S : <<n, least>> \notin Less
  BY <1>1, WFMin
<1>4. ASSUME NEW n \in S PROVE least <= n
  <2>1. n \in Nat /\ least \in Nat
    OBVIOUS
  <2>2. ~ (n < least)
    BY <1>2, <1>3, <2>1
  <2> QED BY <2>1, <2>2
<1> QED BY <1>4

\* The CHOOSE of out_index picks a test plane that is still wanted.
LEMMA FirstCandidate ==
  ASSUME Finding, NEW p, Candidates(p) # {}
  PROVE  out_index(p) \in Candidates(p)
PROOF
<1>1. Candidates(p) \in SUBSET Nat
  <2>1. Wanted = 1 .. Len(argv) /\ Len(argv) \in Nat
    BY DEF Finding, Wanted
  <2> QED BY <2>1 DEF Candidates, remaining_out
<1>2. \E t \in Candidates(p) : \A u \in Candidates(p) : t <= u
  BY <1>1, LeastNatural
<1> QED BY <1>2 DEF out_index

----------------------------------------------------------------------------
LEMMA FitInit == Init => IFit
PROOF
<1> SUFFICES ASSUME Init PROVE IFit
  OBVIOUS
<1>1. argv \in Seq(OptionsType) /\ card \in Seq(PlaneType)
  BY PlaneTestAssumption DEF Init
<1>2. plane_index = 1 /\ plane_ids = [t \in Wanted |-> 0]
  BY DEF Init
<1>3. Finding
  BY <1>1, <1>2 DEF Finding
<1>4. PlanesFit
  BY <1>2 DEF PlanesFit
<1> QED BY <1>3, <1>4 DEF IFit

LEMMA FitStep == IFit /\ [Next]_vars => IFit'
PROOF
<1> SUFFICES ASSUME IFit, [Next]_vars PROVE IFit'
  OBVIOUS
<1>1. ASSUME UNCHANGED <<card, argv, plane_ids>>,
             plane_index' \in {plane_index, plane_index + 1}
      PROVE  IFit'
  <2>1. Wanted' = Wanted
    BY <1>1 DEF Wanted
  <2>2. PlanesFit'
    BY <1>1, <2>1 DEF IFit, PlanesFit
  <2>3. plane_index' \in Nat \ {0} /\ plane_index' >= plane_index
    BY <1>1 DEF IFit, Finding
  <2>4. \A t \in Wanted : plane_ids'[t] < plane_index'
    BY <1>1, <2>3 DEF IFit, Finding
  <2>5. Finding'
    BY <1>1, <2>1, <2>3, <2>4 DEF IFit, Finding
  <2> QED BY <2>2, <2>5 DEF IFit
<1>2. CASE LookAtPlane
  <2> DEFINE p == plane_index
  <2>1. /\ card' = card /\ argv' = argv /\ Wanted' = Wanted
        /\ plane_index' = p + 1 /\ plane_ids' = Taken(p)
    BY <1>2 DEF LookAtPlane, Wanted
  <2>2. CASE Taken(p) = plane_ids
    BY <2>1, <2>2, <1>1
  <2>3. CASE Taken(p) # plane_ids
    <3> DEFINE t == out_index(p)
    <3>1. /\ Candidates(p) # {} /\ card[p].on_crtc /\ card[p].overlay
          /\ plane_ids' = [plane_ids EXCEPT ![t] = p]
      BY <2>1, <2>3 DEF Taken
    <3>2. t \in Candidates(p)
      BY <3>1, FirstCandidate DEF IFit
    <3>3. t \in Wanted /\ argv[t].format \in card[p].formats
      BY <3>2 DEF Candidates, remaining_out
    <3>4. p \in Nat \ {0} /\ plane_ids \in [Wanted -> Nat]
      BY DEF IFit, Finding
    <3> HIDE DEF p, t
    <3>5. /\ plane_ids' \in [Wanted -> Nat] /\ plane_ids'[t] = p
          /\ \A u \in Wanted \ {t} : plane_ids'[u] = plane_ids[u]
      BY <3>1, <3>3, <3>4
    <3>6. \A u \in Wanted : plane_ids[u] < p
      BY DEF IFit, Finding, p
    <3>7. \A u \in Wanted : plane_ids'[u] < p + 1
      BY <3>4, <3>5, <3>6
    <3>8. p + 1 \in Nat \ {0}
      BY <3>4
    <3>9. Finding'
      BY <2>1, <3>5, <3>7, <3>8 DEF IFit, Finding
    <3>10. ASSUME NEW u \in Wanted, plane_ids'[u] # 0
           PROVE  /\ card[plane_ids'[u]].on_crtc /\ card[plane_ids'[u]].overlay
                  /\ argv[u].format \in card[plane_ids'[u]].formats
      <4>1. CASE u = t
        BY <4>1, <3>1, <3>3, <3>5
      <4>2. CASE u # t
        BY <4>2, <3>5, <3>10 DEF IFit, PlanesFit
      <4> QED BY <4>1, <4>2
    <3>11. ASSUME NEW u \in Wanted, NEW w \in Wanted,
                  plane_ids'[u] # 0, plane_ids'[u] = plane_ids'[w]
           PROVE  u = w
      <4>1. CASE u # t /\ w # t
        BY <4>1, <3>5, <3>11 DEF IFit, PlanesFit
      <4>2. \A x \in Wanted \ {t} : plane_ids'[x] # p
        BY <3>4, <3>5, <3>6
      <4> QED BY <4>1, <4>2, <3>3, <3>5, <3>11
    <3>12. PlanesFit'
      BY <2>1, <3>10, <3>11 DEF PlanesFit
    <3> QED BY <3>9, <3>12 DEF IFit
  <2> QED BY <2>2, <2>3
<1>3. CASE SkipPlane
  BY <1>1, <1>3 DEF SkipPlane
<1>4. CASE PreparePlane \/ Prepare \/ NothingToLookAt \/ NoProperties \/ PlanesFound
             \/ PlanesNotFound \/ TimeUp
  BY <1>1, <1>4 DEF PreparePlane, Prepare, NothingToLookAt, NoProperties, PlanesFound,
                    PlanesNotFound, TimeUp, Exit
<1>5. CASE UpdatePlane
  BY <1>1, <1>5 DEF UpdatePlane
<1>6. CASE CleanUp
  BY <1>1, <1>6 DEF CleanUp
<1>7. CASE UNCHANGED vars
  BY <1>1, <1>7 DEF vars
<1> QED BY <1>2, <1>3, <1>4, <1>5, <1>6, <1>7 DEF Next

\* Whatever the card and the arguments: a plane given to a test plane is an
\* overlay plane of the CRTC with its format, and given to no other
\* (find_overlay_planes, plane_test.c:44-135).
THEOREM PlanesAlwaysFit == Spec => []PlanesFit
PROOF
<1>1. IFit => PlanesFit
  BY DEF IFit
<1> QED BY <1>1, FitInit, FitStep, PTL DEF Spec

----------------------------------------------------------------------------
\* What the state's types rest on: a test plane is set only after all were
\* prepared and each was given a plane.
IType ==
  /\ TypeOK
  /\ current \in Wanted
  /\ pc = "prepare" => Len(test_planes) <= Len(argv)
  /\ pc \in {"find", "loop"} => Len(test_planes) = Len(argv)
  /\ pc = "loop" => remaining_out = {}

LEMMA ArgumentsKnown ==
  ASSUME argv \in Arguments
  PROVE  /\ argv \in Seq(OptionsType) /\ Len(argv) \in Nat \ {0}
         /\ Wanted = 1 .. Len(argv)
         /\ \A t \in Wanted : argv[t] \in OptionsType
PROOF
<1>1. argv \in Seq(OptionsType) /\ argv # << >>
  BY PlaneTestAssumption
<1>2. Len(argv) \in Nat /\ DOMAIN argv = 1 .. Len(argv) /\ Len(argv) # 0
  BY <1>1
<1> QED BY <1>1, <1>2 DEF Wanted

LEMMA PreparedType ==
  ASSUME NEW options \in OptionsType
  PROVE  Prepared(options) \in TestPlaneType
PROOF
<1> DEFINE half(a) == Display[a] \div 2
           center == [a \in Axes |-> IF options.position = Null THEN half(a)
                                     ELSE options.position[a] + half(a)]
           v == [a \in Axes |-> IF options.translate THEN Speed ELSE 0]
           dst == [a \in Axes |-> IF options.position = Null
                                  THEN half(a) - options.size[a] \div 2
                                  ELSE options.position[a]]
<1>1. /\ options.position \in [Axes -> Int] \cup {Null}
      /\ options.size \in [Axes -> Nat]
  BY DEF OptionsType
<1>2. \A a \in Axes : half(a) \in Int
  BY PlaneTestAssumption
<1>3. \A a \in Axes : options.size[a] \div 2 \in Int
  BY <1>1
<1>4. \A a \in Axes : options.position # Null => options.position[a] \in Int
  BY <1>1
<1> HIDE DEF half
<1>5. center \in [Axes -> Int]
  BY <1>2, <1>4
<1>6. dst \in [Axes -> Int]
  BY <1>2, <1>3, <1>4
<1>7. v \in [Axes -> {-Speed, 0, Speed}]
  OBVIOUS
<1>8. options.size \in [Axes -> Int]
  BY <1>1
<1>9. Prepared(options) = [center |-> center, v |-> v, size |-> options.size, dst |-> dst]
  BY DEF Prepared, half
<1> HIDE DEF center, v, dst
<1> QED BY <1>5, <1>6, <1>7, <1>8, <1>9 DEF TestPlaneType

LEMMA ScaledType ==
  ASSUME NEW options \in OptionsType, options.scale # Null,
         NEW size \in ScaledSizes(options)
  PROVE  size \in [Axes -> Int]
PROOF
<1>1. options.scale \in Nat \X Nat /\ options.size \in [Axes -> Nat]
  BY DEF OptionsType
<1>2. options.scale[1] \in Nat /\ options.scale[2] \in Nat /\ Word \in Nat \ {0}
  BY <1>1, PlaneTestAssumption
<1>3. ASSUME NEW part \in 0 .. 2, NEW beyond \in {0, Word - 1}, NEW a \in Axes
      PROVE  LET range == (dst_max(options, a) - dst_min(options, a)) % Word
                 x     == dst_min(options, a) + (part * range) \div 2
             IN (IF x < Word THEN x ELSE beyond) \in Int
  <2> DEFINE range == (dst_max(options, a) - dst_min(options, a)) % Word
             x == dst_min(options, a) + (part * range) \div 2
  <2>1. options.size[a] \in Nat
    BY <1>1
  <2>2. dst_min(options, a) \in Int
    BY <1>2, <2>1 DEF dst_min, DividesByZero
  <2>3. options.size[a] * options.scale[2] \in Int
    BY <1>2, <2>1
  <2>4. dst_max(options, a) \in Int
    BY <1>2, <2>3 DEF dst_max
  <2>5. range \in Int
    BY <1>2, <2>2, <2>4
  <2> HIDE DEF range
  <2>6. part * range \in Int
    BY <2>5
  <2>7. (part * range) \div 2 \in Int
    BY <2>6
  <2>8. x \in Int
    BY <2>2, <2>7
  <2>9. beyond \in Int
    BY <1>2
  <2> QED BY <2>8, <2>9 DEF range
<1> QED BY <1>3 DEF ScaledSizes

\* Wrapped or not, it is an integer.
LEMMA SignedType ==
  ASSUME NEW n \in Int
  PROVE  Signed(n) \in Int
PROOF
<1>1. Word \in Nat \ {0}
  BY PlaneTestAssumption
<1>2. Word \div 2 \in Int
  BY <1>1
<1>3. (n + Word \div 2) % Word \in Int
  BY <1>1, <1>2
<1> QED BY <1>2, <1>3 DEF Signed

LEMMA UpdatedType ==
  ASSUME NEW tp \in TestPlaneType, NEW size \in [Axes -> Int]
  PROVE  Updated(tp, size) \in TestPlaneType
PROOF
<1> DEFINE center == [a \in Axes |-> tp.center[a] + tp.v[a]]
           v == [a \in Axes |-> Turned(tp.v[a], center[a], a)]
           dst == [a \in Axes |-> Signed(center[a] - size[a] \div 2)]
<1>1. tp.center \in [Axes -> Int] /\ tp.v \in [Axes -> {-Speed, 0, Speed}]
  BY DEF TestPlaneType
<1>2. Speed \in Nat
  BY PlaneTestAssumption
<1>3. \A a \in Axes : tp.v[a] \in Int /\ tp.center[a] \in Int
  BY <1>1, <1>2
<1>4. center \in [Axes -> Int]
  BY <1>3
<1>5. ASSUME NEW a \in Axes PROVE Turned(tp.v[a], center[a], a) \in {-Speed, 0, Speed}
  <2>1. tp.v[a] \in {-Speed, 0, Speed}
    BY <1>1
  <2>2. -tp.v[a] \in {-Speed, 0, Speed}
    BY <2>1, <1>2
  <2> QED BY <2>1, <2>2 DEF Turned
<1> HIDE DEF center
<1>6. v \in [Axes -> {-Speed, 0, Speed}]
  BY <1>5
<1>7. \A a \in Axes : center[a] - size[a] \div 2 \in Int
  BY <1>4
<1>8. dst \in [Axes -> Int]
  BY <1>7, SignedType
<1>9. Updated(tp, size) = [center |-> center, v |-> v, size |-> size, dst |-> dst]
  BY DEF Updated, center
<1> HIDE DEF v, dst
<1> QED BY <1>4, <1>6, <1>8, <1>9 DEF TestPlaneType

----------------------------------------------------------------------------
LEMMA TypeInit == Init => IType
PROOF
<1> SUFFICES ASSUME Init PROVE IType
  OBVIOUS
<1>1. argv \in Arguments /\ card \in Cards
  BY DEF Init
<1>2. Len(argv) \in Nat \ {0} /\ Wanted = 1 .. Len(argv)
  BY <1>1, ArgumentsKnown
<1>3. test_planes = << >> /\ Len(test_planes) = 0 /\ test_planes \in Seq(TestPlaneType)
  BY DEF Init
<1>4. current \in Wanted /\ current \in Nat \ {0} /\ i \in Nat /\ plane_index \in Nat \ {0}
  BY <1>2 DEF Init
<1>5. /\ plane_ids \in [Wanted -> PlanesOfCard \cup {0}]
      /\ shown \in [PlanesOfCard -> [fb : Wanted, dst : [Axes -> Int], size : [Axes -> Int]]
                                       \cup {Null}]
      /\ fbs \subseteq Wanted /\ pc = "prepare"
  BY DEF Init
<1>6. TypeOK
  BY <1>1, <1>3, <1>4, <1>5 DEF TypeOK
<1> QED BY <1>2, <1>3, <1>4, <1>5, <1>6 DEF IType

LEMMA TypeStep == IType /\ [Next]_vars => IType'
PROOF
<1> SUFFICES ASSUME IType, [Next]_vars PROVE IType'
  OBVIOUS
<1> DEFINE Shown == [fb : Wanted, dst : [Axes -> Int], size : [Axes -> Int]] \cup {Null}
<1>1. /\ argv \in Arguments /\ card \in Cards
      /\ Len(argv) \in Nat \ {0} /\ Wanted = 1 .. Len(argv)
      /\ \A t \in Wanted : argv[t] \in OptionsType
  BY ArgumentsKnown DEF IType, TypeOK
<1>2. /\ test_planes \in Seq(TestPlaneType)
      /\ plane_index \in Nat \ {0} /\ i \in Nat /\ current \in Nat \ {0}
      /\ plane_ids \in [Wanted -> PlanesOfCard \cup {0}]
      /\ fbs \subseteq Wanted /\ shown \in [PlanesOfCard -> Shown]
  BY DEF IType, TypeOK
<1>3. card' = card /\ argv' = argv /\ Wanted' = Wanted /\ PlanesOfCard' = PlanesOfCard
  BY DEF Next, vars, PreparePlane, Prepare, NothingToLookAt, LookAtPlane, SkipPlane,
         NoProperties, PlanesFound, PlanesNotFound, UpdatePlane, TimeUp, CleanUp, Exit, Wanted, PlanesOfCard
<1>4. ASSUME UNCHANGED <<test_planes, plane_index, plane_ids, i, current, fbs, shown>>,
             pc' \in {"failed", "cleanup", "not found", "crashed", pc}
      PROVE  IType'
  <2>1. pc' \in {"prepare", "find", "loop", "cleanup", "done", "failed", "not found", "crashed"}
    BY <1>4 DEF IType, TypeOK
  <2>2. TypeOK'
    BY <1>1, <1>2, <1>3, <1>4, <2>1 DEF TypeOK
  <2>3. remaining_out' = remaining_out
    BY <1>3, <1>4 DEF remaining_out
  <2> QED BY <1>3, <1>4, <2>2, <2>3 DEF IType
<1>5. CASE PreparePlane
  <2>1. CASE Exit("failed") \/ Exit("crashed")
    BY <1>4, <2>1 DEF Exit
  <2>2. CASE ~Exit("failed") /\ ~Exit("crashed")
    <3> DEFINE n == Len(test_planes) + 1
    <3>1. /\ pc = "prepare" /\ Len(test_planes) < Len(argv)
          /\ test_planes' = Append(test_planes, Prepared(argv[n])) /\ fbs' = fbs \cup {n}
          /\ UNCHANGED <<pc, plane_index, plane_ids, i, current, shown>>
      BY <1>5, <2>2 DEF PreparePlane
    <3>2. Len(test_planes) \in Nat
      BY <1>2
    <3>3. n \in Wanted
      BY <1>1, <3>1, <3>2
    <3>4. Prepared(argv[n]) \in TestPlaneType
      BY <1>1, <3>3, PreparedType
    <3>5. test_planes' \in Seq(TestPlaneType) /\ Len(test_planes') = n
      BY <1>2, <3>1, <3>4
    <3>6. n <= Len(argv)
      BY <1>1, <3>1, <3>2
    <3>7. TypeOK'
      BY <1>1, <1>2, <1>3, <3>1, <3>3, <3>5 DEF TypeOK
    <3> HIDE DEF n
    <3> QED BY <1>3, <3>1, <3>5, <3>6, <3>7 DEF IType
  <2> QED BY <2>1, <2>2
<1>6. CASE Prepare
  <2>1. /\ Len(test_planes) = Len(argv) /\ pc' = "find"
        /\ UNCHANGED <<test_planes, plane_index, plane_ids, i, current, fbs, shown>>
    BY <1>6 DEF Prepare, Exit
  <2>2. TypeOK'
    BY <1>1, <1>2, <1>3, <2>1 DEF TypeOK
  <2> QED BY <1>3, <2>1, <2>2 DEF IType
<1>7. CASE LookAtPlane
  <2>1. /\ pc = "find" /\ plane_index <= Len(card)
        /\ plane_index' = plane_index + 1 /\ plane_ids' = Taken(plane_index)
        /\ UNCHANGED <<pc, test_planes, i, current, fbs, shown>>
    BY <1>7 DEF LookAtPlane
  <2>2. plane_index \in PlanesOfCard
    <3>1. card \in Seq(PlaneType)
      BY <1>1, PlaneTestAssumption
    <3> QED BY <1>2, <2>1, <3>1 DEF PlanesOfCard
  <2>3. plane_ids' \in [Wanted -> PlanesOfCard \cup {0}]
    BY <1>2, <2>1, <2>2 DEF Taken
  <2>4. plane_index' \in Nat \ {0}
    BY <1>2, <2>1
  <2>5. TypeOK'
    BY <1>1, <1>2, <1>3, <2>1, <2>3, <2>4 DEF TypeOK
  <2> QED BY <1>3, <2>1, <2>5 DEF IType
<1>8. CASE SkipPlane
  <2>1. /\ pc = "find" /\ plane_index' = plane_index + 1
        /\ UNCHANGED <<pc, test_planes, plane_ids, i, current, fbs, shown>>
    BY <1>8 DEF SkipPlane
  <2>2. plane_index' \in Nat \ {0}
    BY <1>2, <2>1
  <2>3. TypeOK'
    BY <1>1, <1>2, <1>3, <2>1, <2>2 DEF TypeOK
  <2> QED BY <1>3, <2>1, <2>3 DEF IType
<1>9. CASE PlanesFound
  <2>1. /\ pc = "find" /\ remaining_out = {} /\ pc' \in {"loop", "failed"}
        /\ UNCHANGED <<test_planes, plane_index, plane_ids, i, current, fbs, shown>>
    BY <1>9 DEF PlanesFound, Exit
  <2>2. TypeOK'
    BY <1>1, <1>2, <1>3, <2>1 DEF TypeOK
  <2>3. remaining_out' = remaining_out
    BY <1>3, <2>1 DEF remaining_out
  <2> QED BY <1>3, <2>1, <2>2, <2>3 DEF IType
<1>10. CASE NothingToLookAt \/ NoProperties \/ PlanesNotFound \/ TimeUp
  BY <1>4, <1>10 DEF NothingToLookAt, NoProperties, PlanesNotFound, TimeUp, Exit
<1>11. CASE UpdatePlane
  <2>1. /\ pc = "loop" /\ remaining_out = {} /\ Len(test_planes) = Len(argv)
        /\ current \in Wanted
    BY <1>11 DEF UpdatePlane, IType
  <2>2. PICK size \in IF argv[current].scale = Null THEN {test_planes[current].size}
                      ELSE ScaledSizes(argv[current]) :
          /\ test_planes' = [test_planes EXCEPT ![current] = Updated(@, size)]
          /\ \/ /\ shown' = [shown EXCEPT ![plane_ids[current]] =
                               [fb |-> current, dst |-> test_planes'[current].dst, size |-> size]]
                /\ Advance /\ UNCHANGED pc
             \/ pc' = "failed" /\ UNCHANGED <<shown, i, current>>
             \/ Advance /\ UNCHANGED <<shown, pc>>
    BY <1>11 DEF UpdatePlane
  <2>3. UNCHANGED <<plane_index, plane_ids, fbs>>
    BY <1>11 DEF UpdatePlane
  <2>4. current \in DOMAIN test_planes /\ test_planes[current] \in TestPlaneType
    BY <1>1, <1>2, <2>1
  <2>5. size \in [Axes -> Int]
    <3>1. CASE argv[current].scale = Null
      BY <2>2, <2>4, <3>1 DEF TestPlaneType
    <3>2. CASE argv[current].scale # Null
      <4>1. size \in ScaledSizes(argv[current]) /\ argv[current] \in OptionsType
        BY <1>1, <2>1, <2>2, <3>2
      <4> QED BY <3>2, <4>1, ScaledType
    <3> QED BY <3>1, <3>2
  <2>6. Updated(test_planes[current], size) \in TestPlaneType
    BY <2>4, <2>5, UpdatedType
  <2>7. /\ test_planes' \in Seq(TestPlaneType) /\ Len(test_planes') = Len(test_planes)
        /\ test_planes'[current] = Updated(test_planes[current], size)
    BY <1>2, <2>2, <2>4, <2>6
  <2>8. test_planes'[current].dst \in [Axes -> Int]
    BY <2>6, <2>7 DEF TestPlaneType
  <2>9. shown' \in [PlanesOfCard -> Shown]
    <3>1. [fb |-> current, dst |-> test_planes'[current].dst, size |-> size] \in Shown
      BY <2>1, <2>5, <2>8
    <3> HIDE DEF Shown
    <3> QED BY <1>2, <2>2, <3>1
  <2>10. current' \in Wanted /\ current' \in Nat \ {0} /\ i' \in Nat
    <3>1. CASE Advance
      <4>1. CASE current < Len(argv)
        BY <1>1, <1>2, <3>1, <4>1 DEF Advance
      <4>2. CASE ~ (current < Len(argv))
        BY <1>1, <1>2, <3>1, <4>2 DEF Advance
      <4> QED BY <4>1, <4>2
    <3>2. CASE UNCHANGED <<i, current>>
      BY <1>2, <2>1, <3>2
    <3> QED BY <2>2, <3>1, <3>2
  <2>11. pc' \in {"loop", "failed"}
    BY <2>1, <2>2
  <2>12. TypeOK'
    BY <1>1, <1>2, <1>3, <2>3, <2>7, <2>9, <2>10, <2>11 DEF TypeOK
  <2>13. remaining_out' = {}
    BY <1>3, <2>1, <2>3 DEF remaining_out
  <2> QED BY <1>3, <2>1, <2>7, <2>10, <2>11, <2>12, <2>13 DEF IType
<1>12. CASE CleanUp
  <2>1. /\ fbs' = {} /\ pc' = "done"
        /\ UNCHANGED <<test_planes, plane_index, plane_ids, i, current>>
        /\ shown' = [p \in PlanesOfCard |->
                       IF shown[p] # Null /\ shown[p].fb \in fbs THEN Null ELSE shown[p]]
    BY <1>12 DEF CleanUp
  <2>2. shown' \in [PlanesOfCard -> Shown]
    BY <1>2, <2>1
  <2>3. TypeOK'
    BY <1>1, <1>2, <1>3, <2>1, <2>2 DEF TypeOK
  <2> QED BY <1>3, <2>1, <2>3 DEF IType
<1>13. CASE UNCHANGED vars
  BY <1>4, <1>13 DEF vars
<1> QED BY <1>5, <1>6, <1>7, <1>8, <1>9, <1>10, <1>11, <1>12, <1>13 DEF Next

\* plane_test.c keeps its types: no index beyond the planes there are, no test
\* plane set before it has a plane.
THEOREM PlaneTestTypeCorrect == Spec => []TypeOK
PROOF
<1>1. IType => TypeOK
  BY DEF IType
<1> QED BY <1>1, TypeInit, TypeStep, PTL DEF Spec

----------------------------------------------------------------------------
\* A translated plane always moves, and its centre is at most one step outside,
\* where it is on its way back: that it is back inside after the next step
\* needs the screen to be no smaller than a step.
Near(tp, a) ==
  /\ tp.v[a] \in {Speed, -Speed}
  /\ -Speed <= tp.center[a] /\ tp.center[a] <= Display[a] + Speed
  /\ tp.center[a] < 0          => tp.v[a] = Speed
  /\ tp.center[a] > Display[a] => tp.v[a] = -Speed

Crossing(t) == argv[t].translate /\ argv[t].position = Null

INear == \A t \in DOMAIN test_planes : \A a \in Axes :
           Crossing(t) => Near(test_planes[t], a)

LEMMA BeginsNear ==
  ASSUME NEW options \in OptionsType, options.translate, options.position = Null,
         NEW a \in Axes
  PROVE  Near(Prepared(options), a)
PROOF
<1>1. /\ Prepared(options).center[a] = Display[a] \div 2
      /\ Prepared(options).v[a] = Speed
  BY DEF Prepared
<1>2. Display[a] \in Nat /\ Speed \in Nat
  BY PlaneTestAssumption
<1>3. /\ Display[a] \div 2 \in Int
      /\ 0 <= Display[a] \div 2 /\ Display[a] \div 2 <= Display[a]
  BY <1>2
<1> HIDE DEF Prepared
<1> QED BY <1>1, <1>2, <1>3 DEF Near

LEMMA RemainsNear ==
  ASSUME NEW tp \in TestPlaneType, NEW size, NEW a \in Axes, Near(tp, a)
  PROVE  Near(Updated(tp, size), a)
PROOF
<1> DEFINE x == tp.center[a] + tp.v[a]
<1>1. /\ Updated(tp, size).center[a] = x
      /\ Updated(tp, size).v[a] = Turned(tp.v[a], x, a)
  BY DEF Updated
<1>2. tp.center[a] \in Int
  BY DEF TestPlaneType
<1>3. Display[a] \in Nat /\ Speed \in Nat \ {0} /\ Speed <= Display[a]
  BY PlaneTestAssumption
<1>4. tp.v[a] = Speed \/ tp.v[a] = -Speed
  BY DEF Near
<1>5. CASE tp.v[a] = Speed
  <2>1. tp.center[a] <= Display[a] /\ -Speed <= tp.center[a]
    BY <1>2, <1>3, <1>5 DEF Near
  <2>2. x = tp.center[a] + Speed /\ 0 <= x /\ x <= Display[a] + Speed /\ x \in Int
    BY <1>2, <1>3, <1>5, <2>1
  <2>3. CASE x > Display[a]
    <3>1. Turned(tp.v[a], x, a) = -Speed
      BY <1>3, <1>5, <2>3 DEF Turned, Outside
    <3> QED BY <1>1, <1>3, <2>2, <3>1 DEF Near
  <2>4. CASE ~ (x > Display[a])
    <3>1. Turned(tp.v[a], x, a) = Speed
      BY <1>3, <1>5, <2>2, <2>4 DEF Turned, Outside
    <3> QED BY <1>1, <1>3, <2>2, <2>4, <3>1 DEF Near
  <2> QED BY <2>3, <2>4
<1>6. CASE tp.v[a] = -Speed
  <2>1. 0 <= tp.center[a] /\ tp.center[a] <= Display[a] + Speed
    BY <1>2, <1>3, <1>6 DEF Near
  <2>2. x = tp.center[a] - Speed /\ -Speed <= x /\ x <= Display[a] /\ x \in Int
    BY <1>2, <1>3, <1>6, <2>1
  <2>3. CASE x < 0
    <3>1. Turned(tp.v[a], x, a) = Speed
      BY <1>3, <1>6, <2>3 DEF Turned, Outside
    <3> QED BY <1>1, <1>3, <2>2, <3>1 DEF Near
  <2>4. CASE ~ (x < 0)
    <3>1. Turned(tp.v[a], x, a) = -Speed
      BY <1>3, <1>6, <2>2, <2>4 DEF Turned, Outside
    <3> QED BY <1>1, <1>3, <2>2, <2>4, <3>1 DEF Near
  <2> QED BY <2>3, <2>4
<1> QED BY <1>4, <1>5, <1>6

\* On any screen at least as large as a step, a plane that begins in the middle
\* and is translated stays within one step of the screen and turns back there
\* (update_test_plane, plane_test.c:181-230).
THEOREM PlanesStayNear == Spec => []StaysNear
PROOF
<1>1. Init => INear
  BY DEF Init, INear
<1>2. IType /\ INear /\ [Next]_vars => INear'
  <2> SUFFICES ASSUME IType, INear, [Next]_vars PROVE INear'
    OBVIOUS
  <2>1. /\ test_planes \in Seq(TestPlaneType) /\ Len(argv) \in Nat
        /\ Wanted = 1 .. Len(argv) /\ \A t \in Wanted : argv[t] \in OptionsType
    BY ArgumentsKnown DEF IType, TypeOK
  <2>2. argv' = argv
    BY DEF Next, vars, PreparePlane, Prepare, NothingToLookAt, LookAtPlane, SkipPlane,
           NoProperties, PlanesFound, PlanesNotFound, UpdatePlane, TimeUp, CleanUp, Exit
  <2>3. ASSUME UNCHANGED test_planes PROVE INear'
    BY <2>2, <2>3 DEF INear, Crossing, Near
  <2>4. CASE PreparePlane /\ ~Exit("failed") /\ ~Exit("crashed")
    <3> DEFINE n == Len(test_planes) + 1
    <3>1. /\ test_planes' = Append(test_planes, Prepared(argv[n]))
          /\ Len(test_planes) < Len(argv)
      BY <2>4 DEF PreparePlane
    <3>2. Len(test_planes) \in Nat /\ n \in Wanted
      BY <2>1, <3>1
    <3>3. Prepared(argv[n]) \in TestPlaneType
      BY <2>1, <3>2, PreparedType
    <3>4. /\ DOMAIN test_planes' = DOMAIN test_planes \cup {n}
          /\ \A t \in DOMAIN test_planes : test_planes'[t] = test_planes[t]
          /\ test_planes'[n] = Prepared(argv[n])
      BY <2>1, <3>1, <3>2, <3>3
    <3>5. ASSUME NEW t \in DOMAIN test_planes', NEW a \in Axes, Crossing(t)
          PROVE  Near(test_planes'[t], a)
      <4>1. CASE t = n
        BY <2>1, <3>2, <3>4, <3>5, <4>1, BeginsNear DEF Crossing
      <4>2. CASE t # n
        BY <3>4, <3>5, <4>2 DEF INear
      <4> QED BY <4>1, <4>2
    <3> QED BY <2>2, <3>5 DEF INear, Crossing, Near
  <2>5. CASE UpdatePlane
    <3>1. current \in Wanted /\ Len(test_planes) = Len(argv)
      BY <2>5 DEF UpdatePlane, IType
    <3>2. PICK size : test_planes' = [test_planes EXCEPT ![current] = Updated(@, size)]
      BY <2>5 DEF UpdatePlane
    <3>3. /\ current \in DOMAIN test_planes /\ test_planes[current] \in TestPlaneType
          /\ DOMAIN test_planes' = DOMAIN test_planes
          /\ test_planes'[current] = Updated(test_planes[current], size)
          /\ \A t \in DOMAIN test_planes \ {current} : test_planes'[t] = test_planes[t]
      BY <2>1, <3>1, <3>2
    <3>4. ASSUME NEW t \in DOMAIN test_planes', NEW a \in Axes, Crossing(t)
          PROVE  Near(test_planes'[t], a)
      <4>1. Near(test_planes[t], a)
        BY <3>3, <3>4 DEF INear
      <4>2. CASE t = current
        BY <3>3, <4>1, <4>2, RemainsNear
      <4>3. CASE t # current
        BY <3>3, <3>4, <4>1, <4>3
      <4> QED BY <4>2, <4>3
    <3> QED BY <2>2, <3>4 DEF INear, Crossing, Near
  <2>6. CASE \/ PreparePlane /\ (Exit("failed") \/ Exit("crashed"))
             \/ Prepare \/ NothingToLookAt \/ NoProperties \/ LookAtPlane \/ SkipPlane \/ PlanesFound \/ PlanesNotFound
             \/ TimeUp \/ CleanUp \/ UNCHANGED vars
    BY <2>3, <2>6 DEF Exit, Prepare, NothingToLookAt, NoProperties, LookAtPlane,
                     SkipPlane, PlanesFound, PlanesNotFound, TimeUp, CleanUp, vars
  <2> QED BY <2>4, <2>5, <2>6 DEF Next
<1>3. IType /\ INear => StaysNear
  <2> SUFFICES ASSUME IType, INear,
                      NEW t \in DOMAIN test_planes, NEW a \in Axes, Crossing(t)
               PROVE  LET tp == test_planes[t] IN
                        /\ tp.center[a] < 0          => tp.v[a] > 0 /\ tp.center[a] + Speed >= 0
                        /\ tp.center[a] > Display[a] => tp.v[a] < 0 /\ tp.center[a] - Speed <= Display[a]
    BY DEF StaysNear, Crossing
  <2>1. Near(test_planes[t], a)
    BY DEF INear
  <2>2. test_planes[t] \in TestPlaneType
    <3>1. test_planes \in Seq(TestPlaneType)
      BY DEF IType, TypeOK
    <3> QED BY <3>1
  <2>3. test_planes[t].center[a] \in Int
    BY <2>2 DEF TestPlaneType
  <2>4. Display[a] \in Nat /\ Speed \in Nat \ {0}
    BY PlaneTestAssumption
  <2> QED BY <2>1, <2>3, <2>4 DEF Near
<1> QED BY <1>1, <1>2, <1>3, TypeInit, TypeStep, PTL DEF Spec

----------------------------------------------------------------------------
(***************************************************************************)
(* That the card shows a test plane as the program has it is not inductive *)
(* as it stands: drmModeSetPlane is skipped for a plane that is still, and *)
(* this changes nothing only if the plane is where its centre and size put *)
(* it (update_test_plane computes it anew), which it is from its first     *)
(* update on; and it must not be undone for the planes before it, which    *)
(* needs that no plane of the card was found twice.                        *)
(***************************************************************************)
Centred(tp) == \A a \in Axes : tp.dst[a] = Signed(tp.center[a] - tp.size[a] \div 2)

Seen(t) ==
  shown[plane_ids[t]] =
    [fb |-> t, dst |-> test_planes[t].dst, size |-> test_planes[t].size]

ICurrent ==
  /\ pc \in {"prepare", "find"} => i = 0 /\ current = 1
  /\ pc = "loop" => \A t \in Wanted :
       i > 0 \/ t < current => Centred(test_planes[t]) /\ Seen(t)

LEMMA UpdatedCentred ==
  ASSUME NEW tp, NEW size
  PROVE  /\ Centred(Updated(tp, size)) /\ Updated(tp, size).size = size
         /\ \A a \in Axes : Updated(tp, size).dst[a]
                              = Signed((tp.center[a] + tp.v[a]) - size[a] \div 2)
BY DEF Updated, Centred

\* A plane that is still and where its centre puts it remains there.
LEMMA StillRemains ==
  ASSUME NEW tp \in TestPlaneType, Centred(tp), \A a \in Axes : tp.v[a] = 0
  PROVE  Updated(tp, tp.size).dst = tp.dst
PROOF
<1>1. /\ tp.dst \in [Axes -> Int]
      /\ \A a \in Axes : tp.center[a] \in Int
      /\ tp.size \in [Axes -> Int]
  BY DEF TestPlaneType
<1>2. Updated(tp, tp.size).dst \in [Axes -> Int]
  BY <1>1, UpdatedType DEF TestPlaneType
<1>3. \A a \in Axes : Updated(tp, tp.size).dst[a] = Signed(tp.center[a] - tp.size[a] \div 2)
  BY <1>1, UpdatedCentred
<1>4. \A a \in Axes : Updated(tp, tp.size).dst[a] = tp.dst[a]
  BY <1>3 DEF Centred
<1> QED BY <1>1, <1>2, <1>4

LEMMA CurrentUpdated ==
  ASSUME IType, IFit, ICurrent, UpdatePlane
  PROVE  ICurrent'
PROOF
<1>1. /\ argv \in Arguments /\ Len(argv) \in Nat \ {0} /\ Wanted = 1 .. Len(argv)
      /\ test_planes \in Seq(TestPlaneType) /\ i \in Nat /\ current \in Wanted
      /\ plane_ids \in [Wanted -> PlanesOfCard \cup {0}]
      /\ shown \in [PlanesOfCard -> [fb : Wanted, dst : [Axes -> Int], size : [Axes -> Int]]
                                      \cup {Null}]
  BY ArgumentsKnown DEF IType, TypeOK
<1>2. /\ pc = "loop" /\ Len(test_planes) = Len(argv) /\ remaining_out = {}
      /\ UNCHANGED <<card, argv, plane_ids>> /\ Wanted' = Wanted
  BY DEF UpdatePlane, IType, Wanted
<1>3. PICK size \in IF argv[current].scale = Null THEN {test_planes[current].size}
                    ELSE ScaledSizes(argv[current]) :
        /\ test_planes' = [test_planes EXCEPT ![current] = Updated(@, size)]
        /\ \/ /\ shown' = [shown EXCEPT ![plane_ids[current]] =
                             [fb |-> current, dst |-> test_planes'[current].dst, size |-> size]]
              /\ Advance /\ UNCHANGED pc
           \/ pc' = "failed" /\ UNCHANGED <<shown, i, current>>
           \/ ~needs_set(current) /\ Advance /\ UNCHANGED <<shown, pc>>
  BY DEF UpdatePlane
<1> DEFINE tp == test_planes[current]
<1>4. /\ current \in DOMAIN test_planes /\ tp \in TestPlaneType
      /\ test_planes'[current] = Updated(tp, size)
      /\ \A t \in Wanted \ {current} : test_planes'[t] = test_planes[t]
  BY <1>1, <1>2, <1>3
<1>5. \A t \in Wanted : plane_ids[t] \in PlanesOfCard
  BY <1>1, <1>2 DEF remaining_out
<1>6. \A t \in Wanted \ {current} : plane_ids[t] # plane_ids[current]
  <2>1. \A t \in Wanted : plane_ids[t] # 0
    BY <1>2 DEF remaining_out
  <2> QED BY <1>1, <2>1 DEF IFit, PlanesFit
<1> HIDE DEF tp
<1>7. CASE pc' = "failed"
  BY <1>7 DEF ICurrent
<1>8. CASE pc' = "loop"
  <2>1. Advance
    BY <1>2, <1>3, <1>8
  <2>2. ASSUME NEW t \in Wanted, i' > 0 \/ t < current'
        PROVE  t = current \/ i > 0 \/ t < current
    <3>1. CASE current < Len(argv)
      BY <1>1, <2>1, <2>2, <3>1 DEF Advance
    <3>2. CASE ~ (current < Len(argv))
      BY <1>1, <2>1, <2>2, <3>2 DEF Advance
    <3> QED BY <3>1, <3>2
  <2>3. ASSUME NEW t \in Wanted \ {current}, i > 0 \/ t < current
        PROVE  Centred(test_planes'[t]) /\ Seen(t)'
    <3>1. Centred(test_planes[t]) /\ Seen(t)
      BY <1>2, <2>3 DEF ICurrent
    <3>2. shown'[plane_ids[t]] = shown[plane_ids[t]]
      BY <1>1, <1>2, <1>3, <1>5, <1>6, <1>8
    <3> QED BY <1>2, <1>4, <3>1, <3>2 DEF Seen
  <2>4. Centred(test_planes'[current]) /\ test_planes'[current].size = size
    BY <1>4, UpdatedCentred DEF Centred
  <2>5. shown'[plane_ids[current]]
          = [fb |-> current, dst |-> test_planes'[current].dst, size |-> size]
    <3>1. CASE shown' = [shown EXCEPT ![plane_ids[current]] =
                 [fb |-> current, dst |-> test_planes'[current].dst, size |-> size]]
      BY <1>1, <1>5, <3>1
    <3>2. CASE ~needs_set(current) /\ shown' = shown
      <4>1. /\ i # 0 /\ argv[current].scale = Null
            /\ \A a \in Axes : tp.v[a] = 0
        BY <3>2 DEF needs_set, tp
      <4>2. size = tp.size
        BY <1>3, <4>1 DEF tp
      <4>3. /\ Centred(tp)
            /\ shown[plane_ids[current]] = [fb |-> current, dst |-> tp.dst, size |-> tp.size]
        <5>1. i > 0
          BY <1>1, <4>1
        <5> QED BY <1>1, <1>2, <5>1 DEF ICurrent, Seen, tp
      <4>4. test_planes'[current].dst = tp.dst
        BY <1>4, <4>1, <4>2, <4>3, StillRemains
      <4> QED BY <3>2, <4>2, <4>3, <4>4
    <3> QED BY <1>2, <1>3, <1>8, <3>1, <3>2
  <2>6. \A t \in Wanted : t = current => Centred(test_planes'[t])
                                         /\ shown'[plane_ids'[t]] =
              [fb |-> t, dst |-> test_planes'[t].dst, size |-> test_planes'[t].size]
    BY <1>2, <2>4, <2>5
  <2>7. ASSUME NEW t \in Wanted, i' > 0 \/ t < current'
        PROVE  Centred(test_planes'[t]) /\ Seen(t)'
    <3>1. CASE t = current
      BY <2>6, <3>1 DEF Seen
    <3>2. CASE t # current
      BY <2>2, <2>3, <2>7, <3>2
    <3> QED BY <3>1, <3>2
  <2> QED BY <1>2, <1>8, <2>7 DEF ICurrent, Centred
<1> QED BY <1>2, <1>3, <1>7, <1>8

\* After a round of the loop of plane_test.c (lines 519-548) the card shows
\* every test plane as the program has it, for any card, planes and sizes.
THEOREM ShownRemainsCurrent == Spec => []ShownIsCurrent
PROOF
<1>1. Init => ICurrent
  BY DEF Init, ICurrent
<1>2. IType /\ IFit /\ ICurrent /\ [Next]_vars => ICurrent'
  <2> SUFFICES ASSUME IType, IFit, ICurrent, [Next]_vars PROVE ICurrent'
    OBVIOUS
  <2>1. ASSUME UNCHANGED <<i, current>>, pc' # "loop",
               pc' \in {"prepare", "find"} => pc \in {"prepare", "find"}
        PROVE  ICurrent'
    BY <2>1 DEF ICurrent
  <2>2. CASE PreparePlane \/ Prepare \/ LookAtPlane \/ SkipPlane
    BY <2>1, <2>2 DEF PreparePlane, Prepare, LookAtPlane, SkipPlane, Exit
  <2>3. CASE PlanesFound
    <3>1. i = 0 /\ current = 1 /\ UNCHANGED <<i, current>> /\ pc' \in {"loop", "failed"}
      BY <2>3 DEF PlanesFound, Exit, ICurrent
    <3>2. Wanted' = 1 .. Len(argv)
      BY <2>3, ArgumentsKnown DEF PlanesFound, Exit, IType, TypeOK, Wanted
    <3>3. Len(argv) \in Nat
      BY ArgumentsKnown DEF IType, TypeOK
    <3>4. \A t \in Wanted' : ~ (i' > 0 \/ t < current')
      BY <3>1, <3>2, <3>3
    <3> QED BY <3>1, <3>4 DEF ICurrent
  <2>4. CASE NothingToLookAt \/ NoProperties \/ PlanesNotFound \/ TimeUp \/ CleanUp
    BY <2>1, <2>4 DEF NothingToLookAt, NoProperties, PlanesNotFound, TimeUp, CleanUp, Exit
  <2>5. CASE UpdatePlane
    BY <2>5, CurrentUpdated
  <2>6. CASE UNCHANGED vars
    BY <2>6 DEF vars, ICurrent, Wanted, Centred, Seen
  <2> QED BY <2>2, <2>3, <2>4, <2>5, <2>6 DEF Next
<1>3. ICurrent => ShownIsCurrent
  BY DEF ICurrent, ShownIsCurrent, Seen
<1> QED BY <1>1, <1>2, <1>3, FitInit, FitStep, TypeInit, TypeStep, PTL DEF Spec
=============================================================================
